CONSTANTS
  Values = {1, 2}
  None = None
  MaxSaves = 3
  MaxLoads = 3
  MaxLosses = 0
SPECIFICATION Spec
CHECK_DEADLOCK FALSE
INVARIANT EnteredFollowsSaved
