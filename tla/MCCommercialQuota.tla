-------------------------- MODULE MCCommercialQuota --------------------------
(* Small instances of CommercialQuota for TLC. *)
EXTENDS CommercialQuota, TLC

CONSTANTS bp, acp, s1, s2, o1, o2

MCPriority == [k \in Kinds |-> CASE k = "free"         -> 1
                                 [] k = "subscription" -> 2
                                 [] k = "one_time"     -> 3]
MCTier     == (bp :> 1) @@ (acp :> 2)

NoOrders   == [o \in {} |-> 0]

(* One one-time order, for a session or for none. *)
OneTime    == (o1 :> "one_time")
ForS1      == (o1 :> s1)
ForNobody  == (o1 :> None)
OnlyBp     == (o1 :> (bp :> 1))
BpUnit     == (o1 :> (bp :> 1 @@ acp :> 0))
BuysBp     == (o1 :> bp)
BuysAcp    == (o1 :> acp)
Pack1      == (o1 :> "pack")
Two        == (o1 :> 2)
Zero       == (o1 :> 0)

(* Two periods of the same subscription. *)
Monthly    == (o1 :> "subscription") @@ (o2 :> "subscription")
SamePack   == (o1 :> "pack") @@ (o2 :> "pack")
OneEach    == (o1 :> 1) @@ (o2 :> 1)
Both       == (o1 :> (bp :> 1)) @@ (o2 :> (bp :> 1))
BothBp     == (o1 :> bp) @@ (o2 :> bp)
TwoThenOne == (o1 :> (acp :> 2)) @@ (o2 :> (acp :> 1))
BothAcp    == (o1 :> acp) @@ (o2 :> acp)
BothS1     == (o1 :> s1) @@ (o2 :> s1)

(* Two periods of one subscription and a one-time package, one unit each; the  *)
(* first period is the longest.                                                *)
MixedKinds == [o \in Orders |-> IF o \in {o1, o2} THEN "subscription" ELSE "one_time"]
OnePack    == [o \in Orders |-> "pack"]
TwoFirst   == [o \in Orders |-> IF o = o1 THEN 2 ELSE 1]
EachS1     == [o \in Orders |-> s1]
EachAcp    == [o \in Orders |-> acp]
Free0      == [o \in Orders |-> 0]
UnitEach   == [o \in Orders |-> (acp :> 1)]
AskersSymmetric == Permutations(Askers)

(* Effective policies: a free unit or none, and the product switched off.   *)
Generous   == {[enabled |-> TRUE,  free |-> 0, fifo |-> TRUE],
               [enabled |-> TRUE,  free |-> 2, fifo |-> TRUE]}
Fixed      == {[enabled |-> TRUE,  free |-> 0, fifo |-> TRUE]}
=============================================================================
