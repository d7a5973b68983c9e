SPECIFICATION Spec
CONSTANTS
  g1 = g1  g2 = g2
  LastStage = 5  MaxVersions <- MemoryTwice  Generations = {g1}
  ByHand = {1, 2, 4}  Calls <- SomeCalls  Traced = FALSE
INVARIANTS StageTypeOK ApprovedOnApproved OneUnsuperseded RowFollowsApproval
PROPERTIES NoRevival ImplementsJourney
CHECK_DEADLOCK FALSE
