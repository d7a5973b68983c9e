SPECIFICATION Spec
CONSTANTS
  bp = bp  acp = acp  s1 = s1  s2 = s2  o1 = o1  o2 = o2
  Free = free  None = none  Never = 99  Priority <- MCPriority  Tier <- MCTier
  Products = {acp}  Gated = {}
  Sessions = {s1}  Askers = {a1, a2, a3}  Workers = {w1}
  Orders = {o1, o2, o3}  Hotmart = {o1, o2, o3}
  KindOf <- MixedKinds  PackageOf <- OnePack  Validity <- TwoFirst
  OrderSession <- EachS1  OrderProduct <- EachAcp  OrderAmount <- Free0
  OrderUnits <- UnitEach
  Configs <- Fixed  Amounts = {}
  Repeated = {}  MaxRequests = 3  MaxTime = 2
SYMMETRY AskersSymmetric
CHECK_DEADLOCK FALSE
PROPERTIES PassIsFifo
