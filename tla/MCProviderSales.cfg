SPECIFICATION Spec
CONSTANTS
  saleA = saleA  saleB = saleB  saleC = saleC  sessX = sessX  sessY = sessY  th1 = th1  th2 = th2  NoSession = NoSession
  Sales = {saleA, saleB, saleC}  Sessions = {sessX, sessY}
  Provider <- Providers3  Checkout <- Checkouts3  Rank <- Ranks3
  Home = {sessX}  Notes <- Notes3  Forged <- Forged3  Disputed <- Disputed3
  Threads = {th1, th2}  MaxSent = 3  MaxSyncs = 1  MaxCrashes = 1
SYMMETRY Claimers
INVARIANTS SaleTypeOK OneOwner TierGranted AccessIsPaid ConfirmedAgrees OnlyRestartsLoseAccess
PROPERTIES PaidStaysPaid ImplementsSaleContract
CHECK_DEADLOCK FALSE
