SPECIFICATION Spec
CONSTANTS
  Items = {d1, d2, d3}
  Capacity = 2
  MaxAttempts = 2
  None = None
SYMMETRY Symmetry
INVARIANTS
  DeliveryInv
  AcceptedAreSettled
  WithdrawnNotSent
PROPERTIES
  SettledForGood
