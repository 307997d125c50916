SPECIFICATION FairSpec
CONSTANTS
  p1 = p1
  i1 = i1
  s1 = s1
  s2 = s2
  Projects <- projects
  IPs <- addresses
  Streams <- streams
  projectOf <- boards
  ipOf <- origins
  Global = 2
  PerIP = 1
  PerProject = 2
  Buffer = 2
  DeletedBy = {"rest", "mcp"}
  MaxChanges = 3
CHECK_DEADLOCK FALSE
INVARIANTS
  StreamsInv
  RevocationOnItsWay
PROPERTIES
  ChangesArrive
  RevokedAreTold
  CutOff
