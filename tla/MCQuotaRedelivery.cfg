SPECIFICATION Spec
CONSTANTS
  bp = bp  acp = acp  s1 = s1  s2 = s2  o1 = o1  o2 = o2
  Free = free  None = none  Never = 99  Priority <- MCPriority  Tier <- MCTier
  Products = {bp}  Gated = {bp}
  Sessions = {s1}  Askers = {a1}  Workers = {w1}
  Orders = {o1, o2}  Hotmart = {}
  KindOf <- Monthly  PackageOf <- SamePack  Validity <- OneEach
  OrderSession <- BothS1  OrderProduct <- BothBp  OrderAmount <- OneEach
  OrderUnits <- Both
  Configs <- Fixed  Amounts = {2}
  Repeated = {o1}  MaxRequests = 1  MaxTime = 1
PROPERTIES RedeliveryKeepsPeriod
CHECK_DEADLOCK FALSE
