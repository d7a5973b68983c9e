SPECIFICATION Spec
CONSTANTS
  o1 = o1  o2 = o2  u1 = u1  u2 = u2  p1 = p1  NoOp = NoOp
  Ops = {o1}  Actions = {"recommend_tools"}  Swallowing = FALSE
  Users = {u1, u2}  Watchers = {p1}  MaxTasks = 2  MaxClicks = 3  MaxCrashes = 0
INVARIANT ResultNamed
CHECK_DEADLOCK FALSE
