CONSTANTS
  a = a
  b = b
  Uuids = {u1, u2}
  Shas = {a, b}
  size <- sizes
  Todos <- TwoTodos
  Uploaders = {p, q}
  Budget = 2
  BatchLimit = 1
  MaxRestarts = 1
  MaxHolds = 0
  None = None
CHECK_DEADLOCK FALSE
SYMMETRY Symmetry
SPECIFICATION Spec
INVARIANTS AssetsInv LiveRowsHaveFiles RefsMatchBodies
PROPERTIES UploadsReturnDrafts EmbeddedNeverCollected
