SPECIFICATION RecordsSpec
CONSTANTS
  Idents = {x, y, z}
  None = None
  MaxAssets = 3
  MaxEdges = 1
  MaxSteps = 0
  MaxFindings = 0
INVARIANTS EdgesJoinTwoAssets
CHECK_DEADLOCK FALSE
