CONSTANTS
  a = a
  b = b
  Uuids = {u1, u2}
  Shas = {a}
  size <- oneSize
  Todos <- OneTodo
  Uploaders = {p}
  Budget = 2
  BatchLimit = 1
  MaxRestarts = 1
  MaxHolds = 1
  None = None
CHECK_DEADLOCK FALSE
SPECIFICATION FairSpec
PROPERTIES OrphansReclaimed
