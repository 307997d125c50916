SPECIFICATION FairSpec
CONSTANTS
  Items = {d1, d2}
  Capacity = 2
  MaxAttempts = 2
  None = None
PROPERTIES
  AcceptedGetSettled
  CloseEnds
