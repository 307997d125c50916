CONSTANTS
  RankStep = 2
  None = None
  Keys = {k1, k2, k3, k4}
  MaxWorkflowColumns = 4
  MaxId = 2
  MaxRank = 4
SYMMETRY KeySymmetry
SPECIFICATION Spec
INVARIANTS BoardInv WorkflowShape
