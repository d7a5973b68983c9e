SPECIFICATION Spec
CONSTANTS
  saleA = saleA  saleB = saleB  saleC = saleC  sessX = sessX  sessY = sessY  th1 = th1  th2 = th2  NoSession = NoSession
  Sales = {saleA, saleB, saleC}  Sessions = {sessX, sessY}
  Provider <- Providers3  Checkout <- Checkouts3  Rank <- Ranks3
  Home = {sessX}  Notes <- Notes3  Forged <- Forged3  Disputed <- Disputed3
  Threads = {th1, th2}  MaxSent = 2  MaxSyncs = 1  MaxCrashes = 1
CHECK_DEADLOCK FALSE
INVARIANT RefundEndsAccess
