SPECIFICATION Spec
CONSTANTS
  bp = bp  acp = acp  s1 = s1  s2 = s2  o1 = o1  o2 = o2
  Free = free  None = none  Never = 99  Priority <- MCPriority  Tier <- MCTier
  Products = {bp, acp}  Gated = {bp}
  Sessions = {s1}  Askers = {a1}  Workers = {w1, w2}
  Orders = {o1}  Hotmart = {}
  KindOf <- OneTime  PackageOf <- Pack1  Validity <- Zero
  OrderSession <- ForNobody  OrderProduct <- BuysAcp  OrderAmount <- Two
  OrderUnits <- BpUnit
  Configs <- Generous  Amounts = {2}
  Repeated = {}  MaxRequests = 2  MaxTime = 0
PROPERTIES DecidedOnce
CHECK_DEADLOCK FALSE
