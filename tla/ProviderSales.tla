----------------------------- MODULE ProviderSales -----------------------------
(* The life of a sale at a payment provider: the notifications the provider *)
(* sends (services/{hotmart,mercadopago,rebill,payu,rapyd}/webhooks.py),    *)
(* the claim of a Hotmart sale made outside the product                     *)
(* (hotmart/pending_activations.py) and the reconciliation with Hotmart     *)
(* (hotmart/sync.py), over the orders, payments, entitlements and session   *)
(* tiers they share.                                                        *)
(*                                                                          *)
(* Webhook routes are async functions that never await while they work, so  *)
(* one notification is handled at a time.  Claims and the reconciliation    *)
(* run in threads and interleave with them.  A handler that starts a        *)
(* product build or a FIFO pass commits half way: its actions below are the *)
(* stretches between the possible commits.                                  *)
EXTENDS Naturals, FiniteSets

CONSTANTS
    Sales, Sessions, NoSession,
    Provider,       \* [Sales -> Providers]
    Checkout,       \* [Sales -> Sessions \cup {NoSession}]: the session whose
                    \* checkout created the order; NoSession for a sale made
                    \* outside
    Rank,           \* [Sales -> Nat \ {0}]: tier_rank of what is sold
    Home,           \* sessions of the workspace Hotmart is configured in
    Notes,          \* <<sale, kind>>: the notifications the provider sends
    Forged,         \* notifications that arrive unsigned as well
    Disputed,       \* notifications that conflict or that someone replays
    Threads,        \* threads that run claims
    MaxSent,        \* bound on the notifications sent
    MaxSyncs,       \* bound on the synchronizations
    MaxCrashes      \* bound on the process restarts

Providers == {"hotmart", "mercadopago", "rebill", "payu", "rapyd"}
Kinds     == {"waiting", "approved", "complete", "declined", "refund"}
Confirming == {"mercadopago", "rebill"}   \* that look the payment up first

ASSUME SaleConstants ==
    /\ NoSession \notin Sessions
    /\ Provider \in [Sales -> Providers]
    /\ Checkout \in [Sales -> Sessions \cup {NoSession}]
    /\ \A s \in Sales : Checkout[s] = NoSession => Provider[s] = "hotmart"
    /\ Rank \in [Sales -> Nat \ {0}]
    /\ Home \subseteq Sessions
    /\ Notes \subseteq Sales \X Kinds
    /\ Forged \subseteq Notes /\ Disputed \subseteq Notes
    /\ MaxSent \in Nat /\ MaxSyncs \in Nat /\ MaxCrashes \in Nat

VARIABLES
    remote,     \* [Sales -> RemoteStates]: the sale at the provider
    sent,       \* notifications sent; each may arrive again, in any order
    event,      \* [Notes -> EventStates]: the webhook event rows
    order,      \* [Sales -> Order]
    payment,    \* [Sales -> PaymentStates]: by provider and transaction
    ent,        \* [Sales -> EntStates]: the entitlement of the order
    tier,       \* [Sessions -> Nat]: tier_rank(commercial_tier)
    pending,    \* [Sales -> Pending]: the pending activation
    issues,     \* reconciliation issues neither resolved nor ignored
    hook,       \* the notification being handled after a commit half way
    claim,      \* [Threads -> Claim]
    page,       \* what the running synchronization has fetched, or Idle
    counted,    \* what has changed a sale's access, for the contract
    syncs, crashes

orders == <<order, payment, ent, tier>>
tasks  == <<hook, claim, page>>
world  == <<remote, sent>>
bounds == <<syncs, crashes>>
vars   == <<world, event, orders, pending, issues, tasks, counted, bounds>>

RemoteStates  == {"open", "declined", "paid", "refunded"}
EventStates   == {"none", "received", "rejected", "processed", "failed",
                  "unresolved", "pending_activation", "observed",
                  "replay_requested"}
Order         == [session: Sessions \cup {NoSession},
                  status: {"none", "pending", "failed", "paid", "refunded",
                           "canceled"}]
PaymentStates == {"none", "succeeded", "refunded", "canceled"}
EntStates     == {"none", "active", "refunded", "revoked"}
Pending       == [status: {"none", "pending_activation", "claimed"},
                  session: Sessions \cup {NoSession}]
NoNote        == <<>>
Idle          == {NoSession}
Hook          == [note: Notes \cup {NoNote}, stage: {"idle", "paid", "granted"}]
NoHook        == [note |-> NoNote, stage |-> "idle"]
Issues        == Sales \X {"unlinked", "unpaid", "refunded_active", "missing",
                           "conflict", "replay"}
(* A claim reads, pays, grants and marks.  seen: the tier it read.          *)
Claim         == [stage: {"idle", "read", "paid", "granted"},
                  sale: Sales \cup {NoSession}, session: Sessions \cup {NoSession},
                  seen: Nat]
NoClaim       == [stage |-> "idle", sale |-> NoSession, session |-> NoSession,
                  seen |-> 0]

Hotmart(s)   == Provider[s] = "hotmart"
Confirms(s)  == Provider[s] \in Confirming
Grants       == {"approved", "complete"}         \* APPROVAL_EVENTS

Init ==
    /\ remote = [s \in Sales |-> "open"]
    /\ sent = {}
    /\ event = [n \in Notes |-> "none"]
    /\ order = [s \in Sales |-> [session |-> Checkout[s], status |->
                 IF Checkout[s] = NoSession THEN "none" ELSE "pending"]]
    /\ payment = [s \in Sales |-> "none"]
    /\ ent = [s \in Sales |-> "none"]
    /\ tier = [x \in Sessions |-> 0]
    /\ pending = [s \in Sales |-> [status |-> "none", session |-> NoSession]]
    /\ issues = {}
    /\ hook = NoHook
    /\ claim = [t \in Threads |-> NoClaim]
    /\ page = Idle
    /\ counted = {}
    /\ syncs = 0 /\ crashes = 0

-----------------------------------------------------------------------------
(* The provider. *)

Moves == {<<"open", "open", "waiting">>, <<"open", "declined", "declined">>,
          <<"open", "paid", "approved">>, <<"declined", "paid", "approved">>,
          <<"paid", "paid", "complete">>, <<"paid", "refunded", "refund">>}

(* The sale moves on and the provider announces it. *)
Move(s) ==
    \E m \in Moves :
        /\ <<s, m[3]>> \in Notes
        /\ <<s, m[3]>> \in sent \/ Cardinality(sent) < MaxSent
        /\ remote[s] = m[1]
        /\ remote' = [remote EXCEPT ![s] = m[2]]
        /\ sent' = sent \cup {<<s, m[3]>>}
        /\ UNCHANGED <<event, orders, pending, issues, tasks, counted, bounds>>

-----------------------------------------------------------------------------
(* Notifications.  A row per notification makes it a duplicate for ever,    *)
(* except for a Mercado Pago event that failed or found no order.           *)

Resolved(s) == order[s].status # "none"      \* _resolve_order

(* Mutant: every provider retries like Mercado Pago, and what it processed. *)
FreshAlways(n) == TRUE

Fresh(n) == \/ event[n] = "none"
            \/ /\ Provider[n[1]] = "mercadopago"
               /\ event[n] \in {"failed", "unresolved"}  \* RETRYABLE_...

(* Mutant: a Mercado Pago notification is taken at its word. *)
VerdictAsTold(n) ==
    CASE n[2] \in Grants   -> "approve"
      [] n[2] = "refund"   -> "revoke"
      [] n[2] = "declined" -> IF Hotmart(n[1]) THEN "cancel" ELSE "decline"
      [] OTHER             -> "record"

(* What the notification means: what a lookup of the payment returns, or    *)
(* what the notification itself says.                                       *)
Verdict(n) ==
    LET s == n[1]
        k == n[2]
        x == remote[s]
    IN  CASE IF Confirms(s) THEN x = "paid" ELSE k \in Grants -> "approve"
          [] IF Confirms(s) THEN x = "refunded" ELSE k = "refund" -> "revoke"
          [] IF Confirms(s) THEN x = "declined" ELSE k = "declined" ->
                IF Hotmart(s) THEN "cancel" ELSE "decline"
          [] OTHER -> "record"

Free == hook = NoHook

(* Mutant: an unsigned notification is handled like a signed one. *)
GenuineAny(n) == Free /\ Fresh(n)

(* A signed notification the provider sent, that is not a duplicate. *)
Genuine(n) == Free /\ n \in sent /\ Fresh(n)

(* The signature or the token is wrong: a forgery, or a secret that is not  *)
(* configured yet.  Only Mercado Pago leaves the row of a known event.      *)
Reject(n) ==
    /\ Free
    /\ event[n] = "none" \/ Provider[n[1]] # "mercadopago"
    /\ event' = [event EXCEPT ![n] = "rejected"]
    /\ UNCHANGED <<world, orders, pending, issues, tasks, counted, bounds>>

(* client.get_order, client.get_payment: the provider does not answer. *)
LookupFails(n) ==
    /\ Genuine(n)
    /\ Confirms(n[1])
    /\ event' = [event EXCEPT ![n] = "failed"]
    /\ UNCHANGED <<world, orders, pending, issues, tasks, counted, bounds>>

(* register_pending_hotmart_activation: a sale made outside the product.    *)
Register(n) ==
    /\ Genuine(n)
    /\ ~Resolved(n[1])
    /\ n[2] \in Grants
    /\ event' = [event EXCEPT ![n] = "pending_activation"]
    /\ pending' = [pending EXCEPT ![n[1]].status =
                      IF @ = "none" THEN "pending_activation" ELSE @]
    /\ UNCHANGED <<world, orders, issues, tasks, counted, bounds>>

Unresolved(n) ==
    /\ Genuine(n)
    /\ ~Resolved(n[1])
    /\ n[2] \notin Grants
    /\ event' = [event EXCEPT ![n] = "unresolved"]
    /\ UNCHANGED <<world, orders, pending, issues, tasks, counted, bounds>>

(* Mutant: an order fails whatever it was. *)
RecordLate(n) ==
    /\ Genuine(n)
    /\ Resolved(n[1])
    /\ Verdict(n) \in {"record", "decline"}
    /\ event' = [event EXCEPT ![n] = "processed"]
    /\ order' = [order EXCEPT ![n[1]].status =
                    IF Verdict(n) = "decline" THEN "failed" ELSE @]
    /\ UNCHANGED <<world, payment, ent, tier, pending, issues, tasks, counted,
                   bounds>>

(* A pending or failed payment; Rebill does not touch the order. *)
Record(n) ==
    /\ Genuine(n)
    /\ Resolved(n[1])
    /\ Verdict(n) \in {"record", "decline"}
    /\ event' = [event EXCEPT ![n] = "processed"]
    /\ order' = [order EXCEPT ![n[1]].status =
                    IF /\ Verdict(n) = "decline"
                       /\ Provider[n[1]] # "rebill"
                       /\ @ = "pending"
                    THEN "failed" ELSE @]
    /\ UNCHANGED <<world, payment, ent, tier, pending, issues, tasks, counted,
                   bounds>>

-----------------------------------------------------------------------------
(* Fulfilment and revocation. *)

(* The tier of session x, found at from, after s was granted. *)
Raised(x, s, from) ==
    IF Rank[s] > from THEN [tier EXCEPT ![x] = Rank[s]] ELSE tier

Owned(x, e) == {s \in Sales : order[s].session = x /\ e[s] = "active"}

(* Mutants: a session without entitlements has no tier; a revocation leaves *)
(* the tier of the session.                                                 *)
RecomputedNull(x, e) == IF Owned(x, e) = {} THEN {NoSession} ELSE {tier[x]}
RecomputedNot(x, e) == {tier[x]}

(* _recompute_session_tier: the highest of the active entitlements e. *)
Recomputed(x, e) ==
    {r \in {0} \cup {Rank[s] : s \in Owned(x, e)} :
        \A s \in Owned(x, e) : Rank[s] <= r}

(* _process_approved_purchase, apply_provider_payment_success: the payment, *)
(* the debts and the package credit, whose FIFO pass may commit.            *)
Approve(n) ==
    /\ Genuine(n)
    /\ Resolved(n[1])
    /\ Verdict(n) = "approve"
    /\ event' = [event EXCEPT ![n] = "received"]
    /\ payment' = [payment EXCEPT ![n[1]] = "succeeded"]
    /\ hook' = [note |-> n, stage |-> "paid"]
    /\ UNCHANGED <<world, order, ent, tier, pending, issues, claim, page,
                   counted, bounds>>

(* The entitlement, the tier and the order, up to the activation of the     *)
(* product builds, which commits.  Hotmart has marked its event by then.    *)
Grant ==
    /\ hook.stage = "paid"
    /\ LET n == hook.note
           s == n[1]
           x == order[s].session
       IN  /\ ent' = [ent EXCEPT ![s] = "active"]
           /\ tier' = Raised(x, s, tier[x])
           /\ order' = [order EXCEPT ![s].status = "paid"]
           /\ counted' = counted \cup {n}
           /\ event' = IF Hotmart(s) THEN [event EXCEPT ![n] = "processed"]
                       ELSE event
    /\ hook' = [hook EXCEPT !.stage = "granted"]
    /\ UNCHANGED <<world, payment, pending, issues, claim, page, bounds>>

Finish ==
    /\ hook.stage = "granted"
    /\ event' = [event EXCEPT ![hook.note] = "processed"]
    /\ hook' = NoHook
    /\ UNCHANGED <<world, orders, pending, issues, claim, page, counted, bounds>>

(* _process_revocation_event, apply_provider_payment_revocation. *)
Revoke(n) ==
    /\ Genuine(n)
    /\ Resolved(n[1])
    /\ Verdict(n) \in {"revoke", "cancel"}
    /\ LET s == n[1]
           x == order[s].session
           refund == Verdict(n) = "revoke"
       IN  /\ payment' = [payment EXCEPT ![s] =
                            IF refund THEN "refunded" ELSE "canceled"]
           /\ ent' = [ent EXCEPT ![s] = IF @ = "none" THEN @
                        ELSE IF refund THEN "refunded" ELSE "revoked"]
           /\ order' = [order EXCEPT ![s].status =
                            IF refund THEN "refunded" ELSE "canceled"]
           /\ \E r \in Recomputed(x, ent') : tier' = [tier EXCEPT ![x] = r]
    /\ event' = [event EXCEPT ![n] = "processed"]
    /\ counted' = counted \cup {n}
    /\ UNCHANGED <<world, pending, issues, tasks, bounds>>

Marked(n, status, issue) ==
    /\ Hotmart(n[1])
    /\ event[n] # "none"
    /\ event' = [event EXCEPT ![n] = status]
    /\ issues' = issues \cup {<<n[1], issue>>}
    /\ UNCHANGED <<world, orders, pending, tasks, counted, bounds>>

(* A known Hotmart event arrives with another payload. *)
Conflict(n) == Free /\ Marked(n, "observed", "conflict")

(* replay_hotmart_webhook_event, an administrator's request in a thread: it *)
(* marks the row and opens an issue, and repeats nothing.                   *)
Replay(n) == Marked(n, "replay_requested", "replay")

Webhook ==
    \/ \E n \in Notes :
          \/ n \in Forged /\ Reject(n)
          \/ LookupFails(n) \/ Register(n) \/ Unresolved(n)
          \/ Record(n) \/ Approve(n) \/ Revoke(n)
          \/ n \in Disputed /\ Conflict(n)
    \/ Grant
    \/ Finish

-----------------------------------------------------------------------------
(* claim_hotmart_pending_activation in thread t, of sale s for session x.   *)

Claimable(s, x) ==
    /\ pending[s].status = "pending_activation"
    /\ pending[s].session \in {NoSession, x}

(* The checks, the product and the price; the session is read here. *)
ClaimRead(t, s, x) ==
    /\ claim[t] = NoClaim
    /\ Claimable(s, x)
    /\ payment[s] = "none"
    /\ claim' = [claim EXCEPT ![t] = [stage |-> "read", sale |-> s,
                                      session |-> x, seen |-> tier[x]]]
    /\ UNCHANGED <<world, event, orders, pending, issues, hook, page, counted,
                   bounds>>

(* A payment of this transaction exists already: an earlier claim of the    *)
(* same session was cut off half way.  Another session is refused.          *)
ClaimAdopt(t, s, x) ==
    /\ claim[t] = NoClaim
    /\ Claimable(s, x)
    /\ payment[s] # "none"
    /\ order[s].session = x
    /\ claim' = [claim EXCEPT ![t] = [stage |-> "granted", sale |-> s,
                                      session |-> x, seen |-> tier[x]]]
    /\ UNCHANGED <<world, event, orders, pending, issues, hook, page, counted,
                   bounds>>

(* Mutant: payments are not unique per provider and transaction. *)
UnpaidAlways(s) == TRUE

(* uq_commercial_payment_provider_ref: the insert fails otherwise. *)
Unpaid(s) == payment[s] = "none"

(* Mutant: a claim that paid takes itself for one that adopts a payment. *)
ClaimPayAdopts(t) ==
    /\ claim[t].stage = "read"
    /\ LET c == claim[t] IN
       /\ Unpaid(c.sale)
       /\ payment' = [payment EXCEPT ![c.sale] = "succeeded"]
       /\ order' = [order EXCEPT ![c.sale] =
                      [session |-> c.session, status |-> "paid"]]
       /\ claim' = [claim EXCEPT ![t].stage = "granted"]
    /\ UNCHANGED <<world, event, ent, tier, pending, issues, hook, page, counted,
                   bounds>>

(* The order and the payment; the package credit may commit them. *)
ClaimPay(t) ==
    /\ claim[t].stage = "read"
    /\ LET c == claim[t] IN
       IF Unpaid(c.sale)
         THEN /\ payment' = [payment EXCEPT ![c.sale] = "succeeded"]
              /\ order' = [order EXCEPT ![c.sale] =
                             [session |-> c.session, status |-> "paid"]]
              /\ claim' = [claim EXCEPT ![t].stage = "paid"]
         ELSE claim' = [claim EXCEPT ![t] = NoClaim] /\ UNCHANGED <<payment, order>>
    /\ UNCHANGED <<world, event, ent, tier, pending, issues, hook, page, counted,
                   bounds>>

Granted(t, from) ==
    LET c == claim[t] IN
    /\ ent' = [ent EXCEPT ![c.sale] = "active"]
    /\ tier' = Raised(c.session, c.sale, from)
    /\ counted' = counted \cup {<<c.sale, "claim">>}
    /\ claim' = [claim EXCEPT ![t].stage = "granted"]
    /\ UNCHANGED <<world, event, pending, issues, hook, page, bounds>>

(* After a commit half way the session is read again ... *)
ClaimGrant(t) ==
    /\ claim[t].stage = "paid"
    /\ Granted(t, tier[claim[t].session])
    /\ UNCHANGED <<payment, order>>

(* ... without one it is as it was read before. *)
ClaimWhole(t) ==
    /\ claim[t].stage = "read"
    /\ LET c == claim[t] IN
       /\ Unpaid(c.sale)
       /\ payment' = [payment EXCEPT ![c.sale] = "succeeded"]
       /\ order' = [order EXCEPT ![c.sale] =
                      [session |-> c.session, status |-> "paid"]]
       /\ Granted(t, c.seen)

(* _mark_claimed. *)
ClaimMark(t) ==
    /\ claim[t].stage = "granted"
    /\ LET c == claim[t] IN
       pending' = [pending EXCEPT ![c.sale] = [status |-> "claimed",
                                               session |-> c.session]]
    /\ claim' = [claim EXCEPT ![t] = NoClaim]
    /\ UNCHANGED <<world, event, orders, issues, hook, page, counted, bounds>>

Claiming ==
    \E t \in Threads :
        \/ \E s \in Sales, x \in Sessions : ClaimRead(t, s, x) \/ ClaimAdopt(t, s, x)
        \/ ClaimPay(t) \/ ClaimGrant(t) \/ ClaimWhole(t) \/ ClaimMark(t)

-----------------------------------------------------------------------------
(* run_hotmart_manual_sync: it fetches a page of sales outside of any       *)
(* transaction and compares it with the workspace afterwards.               *)

InHome(s) == Hotmart(s) /\ order[s].session \in Home

Fetch ==
    /\ page = Idle
    /\ syncs < MaxSyncs
    /\ syncs' = syncs + 1
    /\ page' \in SUBSET {s \in Sales : Hotmart(s) /\ remote[s] = "paid"}
    /\ UNCHANGED <<world, event, orders, pending, issues, hook, claim, counted,
                   crashes>>

(* _reconcile_remote_sales and _reconcile_local_state. *)
Found ==
    {<<s, "unlinked">> : s \in {q \in page : ~(InHome(q) /\ payment[q] # "none")}}
    \cup {<<s, "unpaid">> : s \in
            {q \in Sales : /\ InHome(q) /\ order[q].status = "pending"
                           /\ payment[q] # "succeeded"}}
    \cup {<<s, "refunded_active">> : s \in
            {q \in Sales : InHome(q) /\ payment[q] = "refunded" /\ ent[q] = "active"}}
    \cup {<<s, "missing">> : s \in
            {q \in Sales : InHome(q) /\ payment[q] = "succeeded" /\ ent[q] = "none"}}

Reconcile ==
    /\ page # Idle
    /\ issues' = issues \cup Found
    /\ page' = Idle
    /\ UNCHANGED <<world, event, orders, pending, hook, claim, counted, bounds>>

(* Hotmart refuses or limits the request: the run is stored as failed. *)
SyncFails ==
    /\ page # Idle
    /\ page' = Idle
    /\ UNCHANGED <<world, event, orders, pending, issues, hook, claim, counted,
                   bounds>>

(* resolve_hotmart_reconciliation_issue. *)
Resolve(i) ==
    /\ i \in issues
    /\ issues' = issues \ {i}
    /\ UNCHANGED <<world, event, orders, pending, tasks, counted, bounds>>

Synchronization ==
    Fetch \/ Reconcile \/ SyncFails \/ \E i \in issues : Resolve(i)

(* The process restarts: what was not committed is rolled back. *)
Crash ==
    /\ crashes < MaxCrashes
    /\ hook' = NoHook
    /\ claim' = [t \in Threads |-> NoClaim]
    /\ page' = Idle
    /\ crashes' = crashes + 1
    /\ UNCHANGED <<world, event, orders, pending, issues, counted, syncs>>

Next ==
    \/ \E s \in Sales : Move(s)
    \/ Webhook
    \/ \E n \in Disputed : Replay(n)
    \/ Claiming
    \/ Synchronization
    \/ Crash

Spec == Init /\ [][Next]_vars

-----------------------------------------------------------------------------
(* Properties. *)

SaleTypeOK ==
    /\ remote \in [Sales -> RemoteStates]
    /\ sent \subseteq Notes
    /\ event \in [Notes -> EventStates]
    /\ order \in [Sales -> Order]
    /\ payment \in [Sales -> PaymentStates]
    /\ ent \in [Sales -> EntStates]
    /\ tier \in [Sessions -> Nat]
    /\ pending \in [Sales -> Pending]
    /\ issues \subseteq Issues
    /\ hook \in Hook
    /\ claim \in [Threads -> Claim]
    /\ page \in {Idle} \cup SUBSET Sales
    /\ syncs \in 0..MaxSyncs /\ crashes \in 0..MaxCrashes

(* A sale belongs to the session of its order: its claim is recorded for    *)
(* that session and nothing is active without one, however many claims of   *)
(* it run at once or are cut off half way.                                  *)
OneOwner ==
    \A s \in Sales :
        /\ pending[s].status = "claimed" => pending[s].session = order[s].session
        /\ payment[s] # "none" => order[s].session # NoSession
        /\ ent[s] = "active" => order[s].session # NoSession

(* A session never has a tier that no active entitlement of it grants,      *)
(* however fulfilments, revocations and claims interleave.                  *)
TierGranted ==
    \A x \in Sessions : tier[x] = 0 \/ \E s \in Owned(x, ent) : tier[x] <= Rank[s]

(* Whatever is forged, repeated, reordered or retried, access is active     *)
(* only for a sale the provider was paid for.                               *)
AccessIsPaid ==
    \A s \in Sales : ent[s] = "active" => remote[s] \in {"paid", "refunded"}

(* When every notification of a sale was processed, in whatever order and   *)
(* after however many failed lookups, its access is what a provider that    *)
(* confirms says: active if paid, not if refunded.                          *)
ConfirmedAgrees ==
    \A s \in Sales :
        /\ Confirms(s)
        /\ \A n \in sent : n[1] = s => event[n] = "processed"
        /\ hook.note = NoNote \/ hook.note[1] # s
        => (ent[s] = "active" <=> remote[s] = "paid")

(* A declined attempt reported late takes nothing from an order that was    *)
(* paid since: apart from Hotmart's, only a refund ends a paid order.       *)
PaidStaysPaid ==
    [][\A s \in Sales :
         ~Hotmart(s) /\ order[s].status = "paid" =>
            /\ order'[s].status \in {"paid", "refunded"}
            /\ order'[s].status = "refunded" => remote[s] = "refunded"]_vars

(* While the process runs, a sale that was paid for lacks its entitlement   *)
(* only as long as the handler that fulfils it is between its commits: no   *)
(* failed lookup, duplicate, revocation or losing claim leaves one behind.  *)
(* Only a restart does.                                                     *)
OnlyRestartsLoseAccess ==
    \A s \in Sales :
        crashes = 0 /\ payment[s] = "succeeded" /\ ent[s] = "none" =>
            \/ hook.stage = "paid" /\ hook.note[1] = s
            \/ \E t \in Threads : claim[t].stage = "paid" /\ claim[t].sale = s

Promise == INSTANCE SaleContract WITH
    owner <- [s \in Sales |-> order[s].session],
    access <- ent,
    Confirmed <- {s \in Sales : Confirms(s)}

(* The handlers, with their commits half way, duplicates, retries and       *)
(* crashes, change the access of a sale once per cause and its owner never. *)
ImplementsSaleContract == Promise!Spec

(* A refund Hotmart reported and the product accepted ends the access.      *)
RefundEndsAccess ==
    \A s \in Sales :
        <<s, "refund">> \in Notes /\ event[<<s, "refund">>] \in {"processed", "unresolved"}
            => ent[s] # "active"
===============================================================================
