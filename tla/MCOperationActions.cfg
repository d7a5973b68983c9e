SPECIFICATION FairSpec
CONSTANTS
  o1 = o1  o2 = o2  u1 = u1  u2 = u2  p1 = p1  NoOp = NoOp
  Ops = {o1, o2}  Actions = {"analyze_discovery", "define_requirements", "propose_design", "recommend_tools", "recommend_memory", "generate_estimation_report"}  Swallowing = FALSE
  Users = {u1}  Watchers = {p1}  MaxTasks = 2  MaxClicks = 2  MaxCrashes = 1
INVARIANTS OpTypeOK StopsAtNextCheckpoint OnlyCrashesStrand
PROPERTY OperationsSettle
CHECK_DEADLOCK FALSE
