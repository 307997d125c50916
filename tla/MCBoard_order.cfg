CONSTANTS
  RankStep = 2
  None = None
  Keys = {k1, k2}
  MaxWorkflowColumns = 2
  MaxId = 3
  MaxRank = 6
SYMMETRY KeySymmetry
SPECIFICATION Spec
INVARIANTS RankAlwaysComputable
PROPERTIES OrderPreserved PlacementHonoured AppendGoesLast ArchivedCardsKeepTheirPlace
