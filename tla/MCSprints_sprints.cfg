CONSTANTS
  Projects = {p, q}
  Names = {a, b}
  Todos = {t}
  Clients = {c}
  Dates = {0, 1}
  MaxTime = 1
  MaxSprints = 2
  None = None
SYMMETRY Symmetry
SPECIFICATION Spec
INVARIANTS SprintsInv StoriesInOwnSprints
PROPERTIES LifecycleForward DisabledMeansFrozen
