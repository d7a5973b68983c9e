SPECIFICATION Spec
CONSTANTS
  g1 = g1  g2 = g2
  LastStage = 5  MaxVersions <- UpToMemory  Generations = {g1}
  ByHand = {1, 2, 3, 4}  Calls <- LateCalls  Traced = FALSE
INVARIANTS StageTypeOK ApprovedOnApproved OneUnsuperseded RowFollowsApproval
PROPERTIES NoRevival ImplementsJourney
CHECK_DEADLOCK FALSE
