SPECIFICATION FairSpec
CONSTANTS
  bp = bp  acp = acp  s1 = s1  s2 = s2  o1 = o1  o2 = o2
  Free = free  None = none  Never = 99  Priority <- MCPriority  Tier <- MCTier
  Products = {acp}  Gated = {}
  Sessions = {s1, s2}  Askers = {a1}  Workers = {w1}
  Orders = {o1, o2}  Hotmart = {o2}
  KindOf <- Monthly  PackageOf <- SamePack  Validity <- OneEach
  OrderSession <- BothS1  OrderProduct <- BothAcp  OrderAmount <- OneEach
  OrderUnits <- TwoThenOne
  Configs <- Generous  Amounts = {2}
  Repeated = {}  MaxRequests = 2  MaxTime = 1
INVARIANTS PeriodsDisjoint
CHECK_DEADLOCK FALSE
PROPERTIES PaidSessionNotCharged PassIsFifo PassDrainsLine HandlersReturn
