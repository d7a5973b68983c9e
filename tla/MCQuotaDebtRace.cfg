SPECIFICATION Spec
CONSTANTS
  bp = bp  acp = acp  s1 = s1  s2 = s2  o1 = o1  o2 = o2
  Free = free  None = none  Never = 99  Priority <- MCPriority  Tier <- MCTier
  Products = {bp}  Gated = {bp}
  Sessions = {s1, s2}  Askers = {a1, a2}  Workers = {w1, w2}
  Orders = {}  Hotmart = {}
  KindOf <- NoOrders  PackageOf <- NoOrders  Validity <- NoOrders
  OrderSession <- NoOrders  OrderProduct <- NoOrders  OrderAmount <- NoOrders
  OrderUnits <- NoOrders
  Configs <- Generous  Amounts = {2}
  Repeated = {}  MaxRequests = 3  MaxTime = 0
PROPERTIES DebtBlocksAutoApproval
CHECK_DEADLOCK FALSE
