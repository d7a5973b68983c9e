SPECIFICATION Spec
CONSTANTS
  g1 = g1  g2 = g2
  LastStage = 3  MaxVersions <- UpToDesign  Generations = {g1, g2}
  ByHand = {}  Calls <- DefineCalls  Traced = TRUE
INVARIANTS MadeFromApproved
CHECK_DEADLOCK FALSE
