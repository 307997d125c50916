SPECIFICATION Spec
CONSTANTS
  Projects = {p1, p2}
  Clients = {c1, c2}
  Titles = {a, b}
  Texts = {x}
  Patches <- SmallPatches
  MaxRow = 2
  MaxLocal = 2
  MaxBody = 2
  None = None
SYMMETRY Symmetry
INVARIANTS StoriesInv
PROPERTIES SparsePatchesKeepTheRest ArchivedLinksFrozen
