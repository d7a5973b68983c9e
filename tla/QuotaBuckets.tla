---------------------------- MODULE QuotaBuckets ----------------------------
(* The balance buckets of one workspace and the functions of                *)
(* commercial_quota_service.py that read and rewrite them.  A product has   *)
(* one free bucket and at most one bucket per paid order (the bucket key    *)
(* names the order).  The stored status of a bucket is refreshed before     *)
(* every read of it, so only its sticky value, canceled, is kept; the other *)
(* values are the function Status of the bucket and the time.               *)
EXTENDS Integers, FiniteSets

CONSTANTS
    Orders,       \* paid orders; each keys the buckets it credits
    Free,         \* key of the free bucket, free:<product>:default
    KindOf,       \* [Orders -> Kinds]: package type of the order
    PackageOf,    \* [Orders -> package codes]
    Validity,     \* [Orders -> length of the period it pays, 0 for no end]
    Priority,     \* [Kinds -> Nat]: place in consumption_priority
    Never         \* the end of a bucket that has none (datetime.max)

Kinds == {"free", "subscription", "one_time"}
Keys  == {Free} \cup Orders

ASSUME BucketConstants ==
    /\ Free \notin Orders
    /\ KindOf \in [Orders -> {"subscription", "one_time"}]
    /\ Validity \in [Orders -> Nat]
    /\ Priority \in [Kinds -> Nat]
    /\ Never \in Nat

(* live: the row exists.  Only an overwrite can leave consumed > granted.   *)
Bucket == [live: BOOLEAN, canceled: BOOLEAN, granted: Nat, consumed: Nat,
           starts: Nat, ends: Nat]

NoBucket == [live |-> FALSE, canceled |-> FALSE, granted |-> 0,
             consumed |-> 0, starts |-> 0, ends |-> Never]

Kind(k) == IF k = Free THEN "free" ELSE KindOf[k]

Status(b, t) ==
    IF b.canceled THEN "canceled"
    ELSE IF b.starts > t THEN "scheduled"
    ELSE IF b.ends # Never /\ b.ends <= t THEN "expired"
    ELSE IF b.granted - b.consumed <= 0 THEN "exhausted"
    ELSE "active"

Available(b, t) ==
    IF b.live /\ Status(b, t) = "active" THEN b.granted - b.consumed ELSE 0

(* total_available_units > 0 *)
HasBalance(bs, t) == \E k \in Keys : Available(bs[k], t) > 0

(* The sort key of consume_balance_units: priority of the kind, then the    *)
(* earliest end.  Creation time and the random key break further ties; any  *)
(* order among those is allowed here.                                       *)
Precedes(bs, k, l) ==
    \/ Priority[Kind(k)] < Priority[Kind(l)]
    \/ Priority[Kind(k)] = Priority[Kind(l)] /\ bs[k].ends < bs[l].ends

(* The buckets the next unit may be taken from. *)
Heads(bs, t) ==
    {k \in Keys : /\ Available(bs[k], t) > 0
                  /\ \A l \in Keys : Available(bs[l], t) > 0
                                        => ~Precedes(bs, l, k)}

(* Mutant: the consumption is written with the wrong sign. *)
TakeUnitSign(bs, k) == [bs EXCEPT ![k].consumed = @ - 1]

(* consume_balance_units for one unit, the only quantity a caller asks for. *)
TakeUnit(bs, k) == [bs EXCEPT ![k].consumed = @ + 1]

(* sync_workspace_free_bucket: granted follows the policy, consumed stays. *)
SyncFree(bs, cfg, t) ==
    LET b == bs[Free] IN
    [bs EXCEPT ![Free] =
        [live     |-> TRUE,
         canceled |-> ~cfg.enabled,
         granted  |-> IF cfg.enabled THEN cfg.free ELSE 0,
         consumed |-> b.consumed,
         starts   |-> IF ~b.live \/ (cfg.enabled /\ b.starts > t)
                        THEN t ELSE b.starts,
         ends     |-> b.ends]]

(* Ends of the other periods the workspace bought of the same subscription. *)
RelatedEnds(bs, o) ==
    {bs[q].ends : q \in {x \in Orders \ {o} : /\ bs[x].live
                                              /\ KindOf[x] = "subscription"
                                              /\ PackageOf[x] = PackageOf[o]
                                              /\ bs[x].ends # Never}}

(* Mutant: a renewal starts when it is paid. *)
StartsAtOnce(bs, o, paidAt) == {paidAt}

(* _build_credit_grant: a subscription period is stacked after the latest   *)
(* one already bought, a one-time credit starts when it is paid.            *)
Starts(bs, o, paidAt) ==
    LET times == {paidAt} \cup (IF KindOf[o] = "subscription"
                                  THEN RelatedEnds(bs, o) ELSE {})
    IN  {e \in times : \A f \in times : f <= e}

(* grant_balance_units with overwrite_existing, as every caller asks it:    *)
(* granting an order again rewrites its bucket and keeps what was consumed. *)
Credit(bs, o, units, start) ==
    [bs EXCEPT ![o] =
        [live     |-> TRUE,
         canceled |-> FALSE,
         granted  |-> units,
         consumed |-> bs[o].consumed,
         starts   |-> start,
         ends     |-> IF Validity[o] = 0 THEN Never ELSE start + Validity[o]]]
=============================================================================
