--------------------------- MODULE CommercialQuota ---------------------------
(* The commercial core of one workspace: access requests, the balance that  *)
(* pays for them, the debts that block them and the paid orders that feed   *)
(* them (commerce_service.py, commercial_quota_service.py,                  *)
(* commercial_debt_service.py, commercial_package_fulfillment_service.py,   *)
(* commerce_provider_fulfillment.py).                                       *)
(*                                                                          *)
(* The services call each other back: approving a request synchronises the  *)
(* free buckets, a bucket that grew starts a FIFO pass, the pass approves   *)
(* requests.  A request handler is therefore a worker with a call stack of  *)
(* frames.  A transaction is serial (dirty names the worker that holds      *)
(* uncommitted rows), but approving a gated product may COMMIT in the       *)
(* middle of the stack, to run a build: other workers then interleave, and  *)
(* a crash there loses the rest of the stack.                               *)
EXTENDS QuotaBuckets, Sequences

CONSTANTS
    Products,       \* the quota product keys: blueprint_pro, acp
    Gated,          \* those that need Blueprint Free complete (blueprint_pro)
    Tier,           \* [Products -> Nat]: tier_rank of the product's tier
    Sessions, Askers, Workers,
    None,           \* no worker, no session
    OrderSession, OrderProduct, OrderAmount,
    Hotmart,        \* orders the Hotmart webhook fulfils, not the generic one
    OrderUnits,     \* [Orders -> [Products -> Nat]]: package_units_for_product
    Configs,        \* effective quota configurations an admin may set
    Amounts,        \* debt and manual settlement amounts
    Repeated,       \* orders that more than one success event announces
    MaxRequests, MaxTime

ReqIds  == 1..MaxRequests   \* ids in created_at order
Times   == 0..MaxTime
Modes   == {"none", "balance", "override", "courtesy", "manual", "debt",
            "authorized", "payment"}
Decided == {"approved", "rejected", "canceled"}

ASSUME QuotaConstants ==
    /\ Gated \subseteq Products
    /\ \A p \in Products : Tier[p] \in Nat
    /\ None \notin Workers \cup Sessions
    /\ OrderSession \in [Orders -> Sessions \cup {None}]
    /\ OrderProduct \in [Orders -> Products]
    /\ OrderAmount \in [Orders -> Nat]
    /\ Hotmart \subseteq Orders
    /\ \A o \in Orders, p \in Products : OrderUnits[o][p] \in Nat
    /\ Configs \subseteq [enabled: BOOLEAN, free: Nat, fifo: BOOLEAN]
    /\ Amounts \subseteq Nat \ {0}
    /\ Repeated \subseteq Orders
    /\ MaxRequests \in Nat /\ MaxTime \in Nat

VARIABLES
    now,      \* the clock
    config,   \* [Products -> Configs]: resolve_effective_quota_config
    bucket,   \* [Products -> [Keys -> Bucket]]
    request,  \* [ReqIds -> Request]: rows of commercial_access_requests
    ledger,   \* [ReqIds -> SUBSET Keys]: consume entries by access_request_id
    debt,     \* [ReqIds -> Debt]: the debt opened by approving the request
    ent,      \* active entitlements, <<session, product>>
    ready,    \* sessions whose Blueprint Free is complete
    paid,     \* [Orders -> paid_at, -1 before]
    applied,  \* [Orders -> cents of the order applied to debts]
    stack,    \* [Workers -> Seq(Frame)]
    dirty     \* the worker with an open transaction, or None

db      == <<config, bucket, request, ledger, debt, ent, paid, applied>>
vars    == <<now, config, bucket, request, ledger, debt, ent, ready, paid,
             applied, stack, dirty>>

Request == [status: {"pending"} \cup Decided, product: Products,
            session: Sessions, asker: Askers, mode: Modes]
NoRequest == [status |-> "absent", product |-> None, session |-> None,
              asker |-> None, mode |-> "none"]
Debt    == [status: {"none", "open", "settled"}, amount: Nat, settled: Nat,
            opened: Nat]
NoDebt  == [status |-> "none", amount |-> 0, settled |-> 0, opened |-> 0]

Frame ==
    [op: {"init"}, todo: SUBSET Products, at: Times]
      \cup [op: {"fifo"}, product: Products, todo: SUBSET ReqIds]
      \cup [op: {"charge"}, req: ReqIds]
      \cup [op: {"authorize"}, todo: SUBSET ReqIds]
      \cup [op: {"settle"}, order: Orders, left: Nat]
      \cup [op: {"close", "finish"}, order: Orders]
      \cup [op: {"credit"}, order: Orders, todo: SUBSET Products, at: Times]
      \cup [op: {"grant"}, order: Orders, product: Products, at: Times]

InitCall(t)   == [op |-> "init", todo |-> Products, at |-> t]
FifoCall(p, s) == [op |-> "fifo", product |-> p, todo |-> s]
ChargeCall(r) == [op |-> "charge", req |-> r]
AuthorizeCall(s) == [op |-> "authorize", todo |-> s]

-----------------------------------------------------------------------------
Exists(r)     == request[r].status # "absent"
Pending(p)    == {r \in ReqIds : request[r].status = "pending"
                                    /\ request[r].product = p}
OpenDebts     == {r \in ReqIds : debt[r].status = "open"}
HasOpenDebt(p) == \E r \in OpenDebts : request[r].product = p
EverOpened    == {r \in ReqIds : debt[r].status # "none"}
Owed(r)       == debt[r].amount - debt[r].settled
(* Mutant: the newest request is served first. *)
OldestLifo(S) == {r \in S : \A q \in S : q <= r}
Oldest(S)     == {r \in S : \A q \in S : r <= q}
OldestDebts   == {r \in OpenDebts :
                    \A q \in OpenDebts : debt[r].opened <= debt[q].opened}
Lower(a, b)   == IF a < b THEN a ELSE b

(* effective_tier: the highest active entitlement of the session, or of the *)
(* whole workspace (an order without a session), decides.                   *)
Authorized(s, p) ==
    \E q \in Products : /\ <<s, q>> \in ent \/ <<None, q>> \in ent
                        /\ Tier[q] >= Tier[p]

BlueprintReady(r) ==
    request[r].product \in Gated => request[r].session \in ready

(* The checks _auto_approve_access_request_from_workspace_balance makes     *)
(* before it initializes the quota of the workspace.                        *)
MayAutoApprove(r) ==
    /\ request[r].status = "pending"
    /\ BlueprintReady(r)
    /\ ~HasOpenDebt(request[r].product)

Approved(r, mode) == [request EXCEPT ![r].status = "approved",
                                     ![r].mode = mode]
Entitled(r) == ent \cup {<<request[r].session, request[r].product>>}

(* Mutant: a debt paid to the last cent stays open. *)
SettledStrict(d, cents) ==
    LET s == d.settled + Lower(cents, d.amount - d.settled)
    IN  [d EXCEPT !.settled = s,
                  !.status = IF s > d.amount THEN "settled" ELSE "open"]

(* settle_commercial_debt: at most what is owed, settled when all of it is. *)
Settled(d, cents) ==
    LET s == d.settled + Lower(cents, d.amount - d.settled)
    IN  [d EXCEPT !.settled = s,
                  !.status = IF s >= d.amount THEN "settled" ELSE "open"]

(* A handler starts when no transaction is open; a step of worker w runs    *)
(* the top frame of its stack.                                              *)
Idle(w)      == stack[w] = <<>> /\ dirty = None
Running(w, op) == /\ stack[w] # <<>> /\ dirty \in {None, w}
                  /\ Head(stack[w]).op = op
Call(w, frames) ==
    /\ stack' = [stack EXCEPT ![w] = frames]
    /\ dirty' = IF frames = <<>> THEN None ELSE w

-----------------------------------------------------------------------------
Init ==
    /\ now = 0
    /\ config \in [Products -> Configs]
    /\ bucket = [p \in Products |-> SyncFree([k \in Keys |-> NoBucket],
                                             config[p], 0)]
    /\ request = [r \in ReqIds |-> NoRequest]
    /\ ledger = [r \in ReqIds |-> {}]
    /\ debt = [r \in ReqIds |-> NoDebt]
    /\ ent = {}
    /\ ready \in SUBSET Sessions
    /\ paid = [o \in Orders |-> -1]
    /\ applied = [o \in Orders |-> 0]
    /\ stack = [w \in Workers |-> <<>>]
    /\ dirty = None

-----------------------------------------------------------------------------
(* The clock, and Blueprint Free being completed or reopened elsewhere.     *)
Tick ==
    /\ now < MaxTime
    /\ now' = now + 1
    /\ UNCHANGED <<db, ready, stack, dirty>>

BlueprintFree(s) ==
    /\ dirty = None
    /\ ready' = IF s \in ready THEN ready \ {s} ELSE ready \cup {s}
    /\ UNCHANGED <<now, db, stack, dirty>>

(* The quota product is edited by an admin: the route synchronises the free *)
(* bucket of every workspace in the same transaction ...                    *)
EditQuotaProduct(w, p, c) ==
    /\ Idle(w) /\ c # config[p]
    /\ config' = [config EXCEPT ![p] = c]
    /\ Call(w, <<[op |-> "init", todo |-> {p}, at |-> now]>>)
    /\ UNCHANGED <<now, bucket, request, ledger, debt, ent, ready, paid, applied>>

(* ... but a workspace override is only stored; the free bucket follows at  *)
(* the next initialization of the quota.                                    *)
EditWorkspaceOverride(w, p, c) ==
    /\ Idle(w) /\ c # config[p]
    /\ config' = [config EXCEPT ![p] = c]
    /\ UNCHANGED <<now, bucket, request, ledger, debt, ent, ready, paid,
                   applied, stack, dirty>>

(* request_access.  An approved request of a session that holds the         *)
(* entitlement is returned as it is, an open one of the asker too.          *)
Reused(s, a, p) ==
    \E r \in ReqIds :
        /\ Exists(r) /\ request[r].session = s /\ request[r].product = p
        /\ \/ /\ request[r].status = "approved" /\ ~HasOpenDebt(p)
              /\ <<s, p>> \in ent \/ request[r].asker = a
           \/ request[r].status = "pending" /\ request[r].asker = a

RequestAccess(w, s, a, p) ==
    /\ Idle(w)
    /\ p \in Gated => s \in ready
    /\ ~Reused(s, a, p)
    /\ \E r \in ReqIds :
          /\ \A q \in ReqIds : Exists(q) <=> q < r
          /\ request' = [request EXCEPT ![r] =
                [status |-> "pending", product |-> p, session |-> s,
                 asker |-> a, mode |-> "none"]]
          /\ Call(w, IF HasOpenDebt(p) THEN <<>>
                     ELSE <<InitCall(now), ChargeCall(r)>>)
    /\ UNCHANGED <<now, config, bucket, ledger, debt, ent, ready, paid, applied>>

(* _apply_access_request_manual_approval, by the approval mode the platform *)
(* admin picks: an override consumes a unit when there is one, a courtesy   *)
(* and a manual approval nothing, debt_pending opens a debt.                *)
ApproveManually(w, r, mode) ==
    /\ Idle(w)
    /\ request[r].status = "pending"
    /\ request' = Approved(r, mode)
    /\ ent' = Entitled(r)
    /\ LET p == request[r].product IN
       IF mode = "override" /\ HasBalance(bucket[p], now)
         THEN \E k \in Heads(bucket[p], now) :
                /\ bucket' = [bucket EXCEPT ![p] = TakeUnit(@, k)]
                /\ ledger' = [ledger EXCEPT ![r] = @ \cup {k}]
         ELSE UNCHANGED <<bucket, ledger>>
    /\ IF mode = "debt"
         THEN \E a \in Amounts :
                debt' = [debt EXCEPT ![r] =
                   [status |-> "open", amount |-> a, settled |-> 0,
                    opened |-> Cardinality(EverOpened)]]
         ELSE UNCHANGED debt
    /\ UNCHANGED <<now, config, ready, paid, applied, stack, dirty>>

(* Mutant: the early return for a decided request is missing. *)
DismissAny(w, r, decision) ==
    /\ Idle(w) /\ Exists(r)
    /\ request' = [request EXCEPT ![r].status = decision]
    /\ UNCHANGED <<now, config, bucket, ledger, debt, ent, ready, paid,
                   applied, stack, dirty>>

(* resolve_access_request with any other decision. *)
Dismiss(w, r, decision) ==
    /\ Idle(w)
    /\ request[r].status = "pending"
    /\ request' = [request EXCEPT ![r].status = decision]
    /\ UNCHANGED <<now, config, bucket, ledger, debt, ent, ready, paid,
                   applied, stack, dirty>>

(* Mutant: the requests are not filtered by their status. *)
CloseAuthorizedAny(w, s) ==
    /\ Idle(w)
    /\ LET closable == {r \in ReqIds : /\ Exists(r) /\ request[r].session = s
                                       /\ Authorized(s, request[r].product)}
       IN  closable # {} /\ Call(w, <<AuthorizeCall(closable)>>)
    /\ UNCHANGED <<now, db, ready>>

(* close_pending_access_requests_after_authorization, run whenever the      *)
(* session or its product page is opened: the pending requests are read and *)
(* approved one after the other.                                            *)
CloseAuthorized(w, s) ==
    /\ Idle(w)
    /\ LET closable == {r \in ReqIds : /\ request[r].status = "pending"
                                       /\ request[r].session = s
                                       /\ Authorized(s, request[r].product)}
       IN  closable # {} /\ Call(w, <<AuthorizeCall(closable)>>)
    /\ UNCHANGED <<now, db, ready>>

(* The settle route of an admin.  Nothing is approved here: the requests    *)
(* the debt held back wait for the next FIFO pass.                          *)
SettleDebt(w, r, cents) ==
    /\ Idle(w)
    /\ debt[r].status = "open"
    /\ debt' = [debt EXCEPT ![r] = Settled(@, cents)]
    /\ UNCHANGED <<now, config, bucket, request, ledger, ent, ready, paid,
                   applied, stack, dirty>>

-----------------------------------------------------------------------------
(* apply_provider_payment_success: upsert of the payment, then one frame    *)
(* per call it makes, in the order of the code.  Hotmart's own              *)
(* _process_approved_purchase makes the same calls but the second.          *)
PaymentSuccess(w, o) ==
    /\ Idle(w)
    /\ paid[o] = -1 \/ o \in Repeated
    /\ LET at == IF paid[o] = -1 THEN now ELSE paid[o] IN
       Call(w, <<[op |-> "settle", order |-> o, left |-> OrderAmount[o]]>>
               \o (IF o \in Hotmart THEN <<>>
                   ELSE <<[op |-> "close", order |-> o]>>)
               \o << [op |-> "credit", order |-> o, at |-> at,
                      todo |-> {p \in Products : OrderUnits[o][p] > 0}],
                     [op |-> "finish", order |-> o] >>)
    /\ UNCHANGED <<now, db, ready>>

(* settle_open_commercial_debts: the oldest open debt of the workspace      *)
(* first, until the amount is used up.                                      *)
SettleStep(w) ==
    /\ Running(w, "settle")
    /\ LET f == Head(stack[w]) IN
       IF f.left = 0 \/ OpenDebts = {}
         THEN /\ Call(w, Tail(stack[w]))
              /\ UNCHANGED <<debt, applied>>
         ELSE \E r \in OldestDebts :
              LET cents == Lower(f.left, Owed(r))
              IN  /\ debt' = [debt EXCEPT ![r] = Settled(@, f.left)]
                  /\ applied' = [applied EXCEPT ![f.order] = @ + cents]
                  /\ Call(w, <<[f EXCEPT !.left = @ - cents]>>
                                \o Tail(stack[w]))
    /\ UNCHANGED <<now, config, bucket, request, ledger, ent, ready, paid>>

(* Mutants: the status filter is missing; nothing is closed. *)
PaidForDecided(o) == {r \in ReqIds : /\ Exists(r)
                                     /\ request[r].session = OrderSession[o]
                                     /\ request[r].product = OrderProduct[o]}
PaidForNone(o) == {r \in {} : r = o}

(* close_pending_access_requests_after_checkout: what the order pays for is *)
(* closed before the credit can start a FIFO pass over it.                  *)
PaidFor(o) == {r \in ReqIds : /\ request[r].status = "pending"
                              /\ request[r].session = OrderSession[o]
                              /\ request[r].product = OrderProduct[o]}

CloseStep(w) ==
    /\ Running(w, "close")
    /\ LET o == Head(stack[w]).order IN
       request' = [r \in ReqIds |->
          IF r \in PaidFor(o)
            THEN [request[r] EXCEPT !.status = "approved", !.mode = "payment"]
            ELSE request[r]]
    /\ Call(w, Tail(stack[w]))
    /\ UNCHANGED <<now, config, bucket, ledger, debt, ent, ready, paid, applied>>

(* apply_paid_order_package_credits: initialize, then grant, per product.   *)
CreditStep(w) ==
    /\ Running(w, "credit")
    /\ LET f == Head(stack[w]) IN
       IF f.todo = {}
         THEN Call(w, Tail(stack[w]))
         ELSE \E p \in f.todo :
                Call(w, << InitCall(f.at),
                           [op |-> "grant", order |-> f.order, product |-> p,
                            at |-> f.at],
                           [f EXCEPT !.todo = @ \ {p}] >> \o Tail(stack[w]))
    /\ UNCHANGED <<now, db, ready>>

(* More of bucket k can be spent than before it was written. *)
Grew(old, new, k, t) == Available(new[k], t) > Available(old[k], t)

(* Mutant: a pass looks at the head of the line only. *)
ReplenishedOnce(p, grew) ==
    IF grew /\ config[p].fifo /\ Pending(p) # {}
      THEN <<FifoCall(p, Oldest(Pending(p)))>> ELSE <<>>

(* A FIFO pass over the requests pending now, if the policy allows it. *)
Replenished(p, grew) ==
    IF grew /\ config[p].fifo THEN <<FifoCall(p, Pending(p))>> ELSE <<>>

GrantStep(w) ==
    /\ Running(w, "grant")
    /\ LET f == Head(stack[w])
           o == f.order
           p == f.product
       IN  \E start \in Starts(bucket[p], o, f.at) :
             LET bs == Credit(bucket[p], o, OrderUnits[o][p], start)
             IN  /\ bucket' = [bucket EXCEPT ![p] = bs]
                 /\ Call(w, Replenished(p, Grew(bucket[p], bs, o, f.at))
                              \o Tail(stack[w]))
    /\ UNCHANGED <<now, config, request, ledger, debt, ent, ready, paid, applied>>

(* The entitlement of the order, its session's tier and the paid order. *)
FinishStep(w) ==
    /\ Running(w, "finish")
    /\ LET o == Head(stack[w]).order IN
       /\ ent' = ent \cup {<<OrderSession[o], OrderProduct[o]>>}
       /\ paid' = [paid EXCEPT ![o] = IF @ = -1 THEN now ELSE @]
    /\ Call(w, Tail(stack[w]))
    /\ UNCHANGED <<now, config, bucket, request, ledger, debt, ready, applied>>

-----------------------------------------------------------------------------
(* initialize_workspace_commercial_quota: sync_workspace_free_bucket of one *)
(* product after the other, each starting a pass when its bucket grew.      *)
InitStep(w) ==
    /\ Running(w, "init")
    /\ LET f == Head(stack[w]) IN
       IF f.todo = {}
         THEN Call(w, Tail(stack[w])) /\ UNCHANGED bucket
         ELSE \E p \in f.todo :
                LET bs == SyncFree(bucket[p], config[p], f.at)
                IN  /\ bucket' = [bucket EXCEPT ![p] = bs]
                    /\ Call(w, Replenished(p, Grew(bucket[p], bs, Free, f.at))
                                 \o <<[f EXCEPT !.todo = @ \ {p}]>>
                                 \o Tail(stack[w]))
    /\ UNCHANGED <<now, config, request, ledger, debt, ent, ready, paid, applied>>

(* Mutant: a request that may not be approved is tried again at once. *)
FifoStepRetries(w) ==
    /\ Running(w, "fifo")
    /\ LET f == Head(stack[w]) IN
       IF f.todo = {} \/ ~HasBalance(bucket[f.product], now)
         THEN Call(w, Tail(stack[w]))
         ELSE \E r \in Oldest(f.todo) :
              IF MayAutoApprove(r)
                THEN Call(w, <<InitCall(now), ChargeCall(r),
                               [f EXCEPT !.todo = @ \ {r}]>> \o Tail(stack[w]))
                ELSE Call(w, stack[w])
    /\ UNCHANGED <<now, db, ready>>

(* One turn of process_pending_access_requests_fifo: the pass ends when the *)
(* balance is gone, a request that may not be approved is skipped.          *)
FifoStep(w) ==
    /\ Running(w, "fifo")
    /\ LET f == Head(stack[w]) IN
       IF f.todo = {} \/ ~HasBalance(bucket[f.product], now)
         THEN Call(w, Tail(stack[w]))
         ELSE \E r \in Oldest(f.todo) :
              Call(w, (IF MayAutoApprove(r)
                         THEN <<InitCall(now), ChargeCall(r)>> ELSE <<>>)
                       \o <<[f EXCEPT !.todo = @ \ {r}]>> \o Tail(stack[w]))
    /\ UNCHANGED <<now, db, ready>>

(* Mutant: the request is not refreshed after the initialization. *)
StillDueStale(r) == HasBalance(bucket[request[r].product], now)

(* The rest of _auto_approve_...: after the initialization the request is   *)
(* refreshed, because a pass below may have approved it already.            *)
StillDue(r) ==
    request[r].status = "pending" /\ HasBalance(bucket[request[r].product], now)

ChargeStep(w) ==
    /\ Running(w, "charge")
    /\ LET r == Head(stack[w]).req
           p == request[r].product
       IN  IF ~StillDue(r)
             THEN /\ Call(w, Tail(stack[w]))
                  /\ UNCHANGED <<bucket, request, ledger, debt, ent>>
             ELSE /\ \E k \in Heads(bucket[p], now) :
                       /\ bucket' = [bucket EXCEPT ![p] = TakeUnit(@, k)]
                       /\ ledger' = [ledger EXCEPT ![r] = @ \cup {k}]
                  /\ request' = Approved(r, "balance")
                  /\ debt' = [q \in ReqIds |->
                        IF q \in OpenDebts /\ request[q].product = p
                          THEN Settled(debt[q], Owed(q)) ELSE debt[q]]
                  /\ ent' = Entitled(r)
                  /\ stack' = [stack EXCEPT ![w] = Tail(@)]
                  /\ \/ dirty' = (IF Tail(stack[w]) = <<>> THEN None ELSE w)
                     \/ p \in Gated /\ BlueprintReady(r) /\ dirty' = None
    /\ UNCHANGED <<now, config, ready, paid, applied>>

(* One turn of the loop over the requests an authorized session had open:   *)
(* the row is approved without a second look at it.  After a gated product  *)
(* the rows are committed to run a build; what other workers decide then,   *)
(* of the requests still in the loop, is written over.                      *)
AuthorizeStep(w) ==
    /\ Running(w, "authorize")
    /\ LET f == Head(stack[w]) IN
       IF f.todo = {}
         THEN Call(w, Tail(stack[w])) /\ UNCHANGED request
         ELSE \E r \in Oldest(f.todo) :
              /\ request' = Approved(r, "authorized")
              /\ stack' = [stack EXCEPT ![w] =
                    <<[f EXCEPT !.todo = @ \ {r}]>> \o Tail(@)]
              /\ \/ dirty' = w
                 \/ request[r].product \in Gated /\ BlueprintReady(r)
                    /\ dirty' = None
    /\ UNCHANGED <<now, config, bucket, ledger, debt, ent, ready, paid, applied>>

(* The process dies while a build runs between two transactions of w: what  *)
(* was committed stays, the rest of the stack is lost.  (Dying inside a     *)
(* transaction rolls it back, which is dying at its start.)                 *)
Crash(w) ==
    /\ stack[w] # <<>> /\ dirty = None
    /\ stack' = [stack EXCEPT ![w] = <<>>]
    /\ UNCHANGED <<now, db, ready, dirty>>

-----------------------------------------------------------------------------
Step(w) == \/ SettleStep(w) \/ CloseStep(w) \/ CreditStep(w) \/ GrantStep(w)
           \/ FinishStep(w) \/ InitStep(w) \/ FifoStep(w) \/ ChargeStep(w)
           \/ AuthorizeStep(w)

Handler(w) ==
    \/ \E p \in Products, c \in Configs : \/ EditQuotaProduct(w, p, c)
                                          \/ EditWorkspaceOverride(w, p, c)
    \/ \E s \in Sessions, a \in Askers, p \in Products : RequestAccess(w, s, a, p)
    \/ \E r \in ReqIds, m \in {"override", "courtesy", "manual", "debt"} :
          ApproveManually(w, r, m)
    \/ \E r \in ReqIds, d \in {"rejected", "canceled"} : Dismiss(w, r, d)
    \/ \E s \in Sessions : CloseAuthorized(w, s)
    \/ \E r \in ReqIds, c \in Amounts : SettleDebt(w, r, c)
    \/ \E o \in Orders : PaymentSuccess(w, o)

Next ==
    \/ Tick
    \/ \E s \in Sessions : BlueprintFree(s)
    \/ \E w \in Workers : Handler(w) \/ Step(w) \/ Crash(w)

Spec == Init /\ [][Next]_vars

(* A request thread that started runs on; nobody has to start one. *)
FairSpec == Spec /\ \A w \in Workers : WF_vars(Step(w))

-----------------------------------------------------------------------------
TypeOK ==
    /\ now \in Times
    /\ config \in [Products -> Configs]
    /\ bucket \in [Products -> [Keys -> Bucket]]
    /\ request \in [ReqIds -> Request \cup {NoRequest}]
    /\ ledger \in [ReqIds -> SUBSET Keys]
    /\ debt \in [ReqIds -> Debt]
    /\ ent \subseteq (Sessions \cup {None}) \X Products
    /\ ready \subseteq Sessions
    /\ paid \in [Orders -> Times \cup {-1}]
    /\ applied \in [Orders -> Nat]
    /\ stack \in [Workers -> Seq(Frame)]
    /\ dirty \in Workers \cup {None}

(* Every unit a bucket has lost is booked to exactly one request of the     *)
(* product: re-entrant passes, redelivered payments, policy changes and     *)
(* crashes neither lose a consumption nor book one twice.                   *)
BookedTo(p, k) ==
    {r \in ReqIds : k \in ledger[r] /\ request[r].product = p}

LedgerMatchesBuckets ==
    \A p \in Products, k \in Keys :
        bucket[p][k].consumed = Cardinality(BookedTo(p, k))

(* A request pays at most one unit, exactly one when the balance approved   *)
(* it, and none when it is open, was dismissed, or was approved by payment, *)
(* courtesy or debt.  (One approved because its session was authorized may  *)
(* have been charged while the loop that approves it was at its build.)     *)
FundingMatchesDecision ==
    \A r \in ReqIds :
        /\ request[r].mode # "none" <=> request[r].status = "approved"
        /\ CASE request[r].mode = "balance"  -> \E k \in Keys : ledger[r] = {k}
             [] request[r].mode \in {"override", "authorized"} ->
                  \A k, l \in ledger[r] : k = l
             [] OTHER                        -> ledger[r] = {}

(* A debt is settled exactly when all of it has been paid, and a request    *)
(* has one exactly when a debt approved it (unless the loop over the        *)
(* requests of an authorized session wrote its own approval over that one). *)
DebtsAddUp ==
    \A r \in ReqIds :
        /\ debt[r].settled <= debt[r].amount
        /\ debt[r].status = "open" => debt[r].settled < debt[r].amount
        /\ debt[r].status = "settled" => debt[r].settled = debt[r].amount
        /\ request[r].mode = "debt" => debt[r].status # "none"
        /\ debt[r].status # "none" => request[r].mode \in {"debt", "authorized"}

(* The requests a stack is about to approve for an authorized session.      *)
TakenBy(s) == {r \in ReqIds : \E i \in 1..Len(s) :
                  s[i].op = "authorize" /\ r \in s[i].todo}
Closing == {r \in ReqIds : \E w \in Workers : r \in TakenBy(stack[w])}

(* The requests of this system are requests as AccessDecisions promises     *)
(* them: whatever the handlers call, every step opens, dismisses, approves  *)
(* or charges requests in the allowed way, or leaves them and the units     *)
(* taken from the buckets alone.                                            *)
Decisions == INSTANCE AccessDecisions WITH
    Requests <- ReqIds, Buckets <- Keys,
    status   <- [r \in ReqIds |-> request[r].status],
    product  <- [r \in ReqIds |-> request[r].product],
    mode     <- [r \in ReqIds |-> request[r].mode],
    booked   <- ledger,
    spent    <- [p \in Products |-> [k \in Keys |-> bucket[p][k].consumed]],
    closing  <- Closing

ImplementsDecisions == Decisions!Spec

(* A decision stands: a decided request keeps its status, its mode and the  *)
(* unit it was booked, whatever handler runs later.  Only the loop over the *)
(* open requests of an authorized session may write its approval over a     *)
(* decision, of a request that was open when the loop began, and it neither *)
(* returns a unit nor takes one.                                            *)
DecisionsAreFinal ==
    [][\A r \in ReqIds : request[r].status \in Decided =>
            /\ ledger'[r] = ledger[r]
            /\ \/ request'[r] = request[r]
               \/ r \in Closing /\ request'[r] = Approved(r, "authorized")[r]]_vars

(* A decided request is never decided again: what the early returns of      *)
(* resolve_access_request suggest, and what two threads refute.             *)
DecidedOnce ==
    [][\A r \in ReqIds : request[r].status \in Decided =>
            request'[r] = request[r]]_vars

ChargedInPass(w, r) ==
    /\ Running(w, "charge") /\ Head(stack[w]).req = r
    /\ Len(stack[w]) > 1 /\ stack[w][2].op = "fifo"
    /\ request[r].mode = "none" /\ request'[r].mode = "balance"

(* First come, first served: while a pass over a product approves a         *)
(* request, no older request of that product is left waiting.  (Not so for  *)
(* a gated product: the pass commits, and a Blueprint Free completed then   *)
(* makes a request that was skipped approvable.)                            *)
PassIsFifo ==
    [][\A w \in Workers, r \in ReqIds :
        ChargedInPass(w, r) /\ request[r].product \notin Gated =>
            \A q \in Pending(request[r].product) : r <= q]_vars

(* A pass over such a product ends with the balance gone or nobody          *)
(* approvable left in line.                                                 *)
PassDrainsLine ==
    [][\A w \in Workers :
        LET f == Head(stack[w]) IN
        /\ Running(w, "fifo") /\ stack'[w] = Tail(stack[w])
        /\ f.product \notin Gated
        => \/ ~HasBalance(bucket[f.product], now)
           \/ \A r \in Pending(f.product) : ~MayAutoApprove(r)]_vars

(* The balance never approves a request while its product has an open debt. *)
DebtBlocksAutoApproval ==
    [][\A r \in ReqIds :
        request[r].mode = "none" /\ request'[r].mode = "balance"
            => ~HasOpenDebt(request[r].product)]_vars

(* A session is not charged a unit for the product an order is just paying. *)
PaidSessionNotCharged ==
    [][\A w \in Workers, r \in ReqIds, o \in Orders \ Hotmart :
        /\ request[r].mode = "none" /\ request'[r].mode = "balance"
        /\ \E i \in 1..Len(stack[w]) : /\ stack[w][i].op = "finish"
                                       /\ stack[w][i].order = o
        => <<request[r].session, request[r].product>>
              # <<OrderSession[o], OrderProduct[o]>>]_vars

(* The periods a workspace bought of one subscription never overlap, however *)
(* payments are repeated, cut short by a crash or late.                     *)
PeriodsDisjoint ==
    \A p \in Products : \A o \in Orders : \A q \in Orders \ {o} :
        /\ bucket[p][o].live /\ bucket[p][q].live
        /\ KindOf[o] = "subscription" /\ KindOf[q] = "subscription"
        /\ PackageOf[o] = PackageOf[q]
        => \/ bucket[p][o].ends <= bucket[p][q].starts
           \/ bucket[p][q].ends <= bucket[p][o].starts

(* Handling a payment again moves nothing: the period it bought stays. *)
RedeliveryKeepsPeriod ==
    [][\A p \in Products, o \in Orders :
        paid[o] # -1 /\ bucket[p][o].live
            => bucket'[p][o].starts = bucket[p][o].starts]_vars

(* A payment settles debts up to its own amount, however often it arrives. *)
PaymentSpentOnce == \A o \in Orders : applied[o] <= OrderAmount[o]

(* Every handler returns: the services calling each other back terminates. *)
HandlersReturn == \A w \in Workers : stack[w] # <<>> ~> stack[w] = <<>>
=============================================================================
