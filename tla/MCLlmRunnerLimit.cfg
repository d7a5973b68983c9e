SPECIFICATION Spec
CONSTANTS
  c1 = c1  c2 = c2  c3 = c3  w1 = w1  w2 = w2  NoCall = NoCall
  Calls = {c1, c2, c3}  Workspaces = {w1}  WorkspaceOf <- OneWorkspace
  Settings <- Busy  Models = 2
INVARIANT RunnerWithinLimit
CHECK_DEADLOCK FALSE
