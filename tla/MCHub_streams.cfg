SPECIFICATION Spec
CONSTANTS
  p1 = p1
  u1 = u1
  c1 = c1
  c2 = c2
  c3 = c3
  i1 = i1
  i2 = i2
  e1 = e1
  e2 = e2
  Topics <- topics
  Conns <- conns
  topicsOf <- subscriptions
  Merged <- onlyMerged
  Anonymous <- visitors
  IPs <- addresses
  ipOf <- origins
  Events <- events
  emitsOf <- emits
  Buffer = 1
  MergedBuffer = 1
  Global = 1
  PerIP = 1
  PerProject = 1
CHECK_DEADLOCK FALSE
INVARIANTS
  HubInv
  DeliveredInOrder
PROPERTIES
  GapsAreFinal
