-------------------------- MODULE ProviderSalesProofs --------------------------
(* Proofs about ProviderSales for any sales, sessions, providers and threads, *)
(* and any number of notifications, synchronizations and restarts.            *)
EXTENDS ProviderSales, TLAPS

Owner(s) == order[s].session
Settled  == {"paid", "refunded"}        \* what the provider was paid for
Open     == {"none", "failed", "unresolved"}    \* of an event: may be Fresh

(* Whose sale it is: the order, the payment, the entitlement and the claim    *)
(* agree, and a sale with a checkout is never claimed.                        *)
OwnerInv == \A s \in Sales :
    /\ order[s].status # "none" <=> Owner(s) # NoSession
    /\ payment[s] # "none" => Owner(s) # NoSession
    /\ ent[s] # "none" => Owner(s) # NoSession
    /\ pending[s].status = "claimed" => pending[s].session = Owner(s) /\ Owner(s) # NoSession
    /\ pending[s].status # "none" => Owner(s) = NoSession \/ payment[s] # "none"
    /\ Checkout[s] # NoSession => Owner(s) # NoSession /\ pending[s].status = "none"

(* What the provider announced, it was.                                       *)
RemoteInv == \A s \in Sales :
    /\ \A k \in Grants : <<s, k>> \in sent => remote[s] \in Settled
    /\ <<s, "refund">> \in sent <=> remote[s] = "refunded"
    /\ remote[s] \in Settled => <<s, "approved">> \in sent
    /\ pending[s].status # "none" => remote[s] \in Settled

(* The notification in hand was accepted as an approval, once.                *)
HookInv ==
    /\ hook.stage = "idle" => hook = NoHook
    /\ hook.stage # "idle" =>
          /\ hook.note \in Notes /\ hook.note \in sent
          /\ Owner(hook.note[1]) # NoSession
          /\ remote[hook.note[1]] \in Settled
          /\ event[hook.note] \notin Open
          /\ Confirms(hook.note[1]) \/ hook.note[2] \in Grants
          /\ hook.note[2] # "refund"
    /\ hook.stage = "paid" => hook.note \notin counted
    /\ hook.stage = "granted" => ent[hook.note[1]] = "active"

(* A claim is of a pending activation, and one thread at most pays for it.    *)
ClaimInv == \A t \in Threads :
    /\ claim[t].stage = "idle" => claim[t] = NoClaim
    /\ claim[t].stage # "idle" =>
          /\ claim[t].sale \in Sales /\ claim[t].session \in Sessions
          /\ pending[claim[t].sale].status # "none"
    /\ claim[t].stage \in {"paid", "granted"} =>
          Owner(claim[t].sale) = claim[t].session /\ payment[claim[t].sale] # "none"
    /\ claim[t].stage = "paid" =>
          /\ <<claim[t].sale, "claim">> \notin counted
          /\ \A u \in Threads : claim[u].stage = "paid" /\ claim[u].sale = claim[t].sale => u = t

(* What was processed was sent, and what has counted is never fresh again.    *)
EventInv ==
    /\ \A n \in Notes : event[n] = "processed" => n \in sent
    /\ \A n \in Notes : n \in counted => event[n] \notin Open
    /\ counted \subseteq Sales \X (Kinds \cup {"claim"})
    /\ \A s \in Sales : <<s, "claim">> \in counted => payment[s] # "none"

(* What a provider that confirms said, when it was last asked.                *)
ConfirmInv == \A s \in Sales : Confirms(s) =>
    /\ <<s, "approved">> \in Notes /\ event[<<s, "approved">>] = "processed" /\ remote[s] = "paid"
          => ent[s] = "active"
    /\ <<s, "refund">> \in Notes /\ event[<<s, "refund">>] = "processed"
          => /\ ent[s] # "active"
             /\ hook.stage # "idle" => hook.note[1] # s

IInv ==
    /\ SaleTypeOK /\ OwnerInv /\ RemoteInv /\ HookInv /\ ClaimInv /\ EventInv
    /\ AccessIsPaid /\ TierGranted /\ ConfirmInv

-------------------------------------------------------------------------------
(* A notification is of a sale, and determined by the sale and its kind.      *)
LEMMA NoteShape ==
    ASSUME NEW n \in Notes
    PROVE  n[1] \in Sales /\ n[2] \in Kinds /\ n = <<n[1], n[2]>> /\ n # NoNote
BY SaleConstants DEF NoNote

(* The types of what the actions read.                                        *)
LEMMA Types ==
    ASSUME IInv
    PROVE  /\ remote \in [Sales -> RemoteStates]
           /\ sent \subseteq Notes
           /\ event \in [Notes -> EventStates]
           /\ order \in [Sales -> Order]
           /\ payment \in [Sales -> PaymentStates]
           /\ ent \in [Sales -> EntStates]
           /\ tier \in [Sessions -> Nat]
           /\ pending \in [Sales -> Pending]
           /\ hook \in Hook
           /\ claim \in [Threads -> Claim]
BY DEF IInv, SaleTypeOK

(* Resolved and Owner say the same.                                           *)
LEMMA ResolvedOwner ==
    ASSUME IInv, NEW s \in Sales
    PROVE  /\ Resolved(s) <=> Owner(s) # NoSession
           /\ Resolved(s) => Owner(s) \in Sessions
BY Types DEF IInv, OwnerInv, Resolved, Owner, Order

(* The notification in hand.                                                  *)
LEMMA HookNote ==
    ASSUME IInv, hook.stage # "idle"
    PROVE  /\ hook.note \in Notes /\ hook.note[1] \in Sales
           /\ Owner(hook.note[1]) \in Sessions /\ Resolved(hook.note[1])
<1>1. hook.note \in Notes /\ Owner(hook.note[1]) # NoSession
  BY DEF IInv, HookInv
<1>2. hook.note[1] \in Sales
  BY <1>1, NoteShape
<1> QED BY <1>1, <1>2, ResolvedOwner

(* No sale is half paid by two claims: whoever pays finds no owner.           *)
LEMMA UnpaidUnowned ==
    ASSUME IInv, NEW t \in Threads, claim[t].stage = "read", Unpaid(claim[t].sale)
    PROVE  /\ claim[t].sale \in Sales /\ claim[t].session \in Sessions
           /\ claim[t].session # NoSession
           /\ Owner(claim[t].sale) = NoSession
           /\ \A u \in Threads : claim[u].stage \in {"paid", "granted"} =>
                 claim[u].sale # claim[t].sale
           /\ hook.stage # "idle" => hook.note[1] # claim[t].sale
<1>1. /\ claim[t].sale \in Sales /\ claim[t].session \in Sessions
      /\ pending[claim[t].sale].status # "none"
  BY DEF IInv, ClaimInv
<1>2. Owner(claim[t].sale) = NoSession
  BY <1>1 DEF IInv, OwnerInv, Unpaid
<1>3. hook.stage # "idle" => hook.note[1] # claim[t].sale
  BY <1>2 DEF IInv, HookInv
<1> QED BY <1>1, <1>2, <1>3, SaleConstants DEF IInv, ClaimInv, Unpaid

-------------------------------------------------------------------------------
(* Types.                                                                     *)
LEMMA TypeStep == IInv /\ Next => SaleTypeOK'
<1> SUFFICES ASSUME IInv, Next PROVE SaleTypeOK'
  OBVIOUS
<1> USE Types DEF SaleTypeOK, world, orders, tasks, bounds
<1>0. /\ issues \subseteq Issues /\ page \in {Idle} \cup SUBSET Sales
      /\ syncs \in 0..MaxSyncs /\ crashes \in 0..MaxCrashes
      /\ sent \subseteq Notes
      /\ MaxSyncs \in Nat /\ MaxCrashes \in Nat
  BY SaleConstants DEF IInv
<1>1. ASSUME NEW s \in Sales, Move(s) PROVE SaleTypeOK'
  BY <1>0, <1>1 DEF Move, Moves, RemoteStates
<1>2. ASSUME NEW n \in Notes,
             Reject(n) \/ LookupFails(n) \/ Unresolved(n)
      PROVE  SaleTypeOK'
  BY <1>0, <1>2 DEF Reject, LookupFails, Unresolved, EventStates
<1>3. ASSUME NEW n \in Notes, Conflict(n) \/ Replay(n) PROVE SaleTypeOK'
  BY <1>0, <1>3, NoteShape DEF Conflict, Replay, Marked, EventStates, Issues
<1>4. ASSUME NEW n \in Notes, Register(n) PROVE SaleTypeOK'
  <2>1. pending' \in [Sales -> Pending]
    <3>1. n[1] \in Sales /\ pending[n[1]] \in Pending
      BY NoteShape
    <3>2. PICK status \in {pending[n[1]].status, "pending_activation"} :
             pending' = [pending EXCEPT ![n[1]] = [pending[n[1]] EXCEPT !.status = status]]
      BY <1>4, <3>1 DEF Register
    <3>3. [pending[n[1]] EXCEPT !.status = status] \in Pending
      BY <3>1, <3>2 DEF Pending
    <3> QED BY <3>1, <3>2, <3>3
  <2> QED BY <1>0, <1>4, <2>1 DEF Register, EventStates
<1>5. ASSUME NEW n \in Notes, Record(n) PROVE SaleTypeOK'
  <2>1. order' \in [Sales -> Order]
    <3>1. n[1] \in Sales /\ order[n[1]] \in Order
      BY NoteShape
    <3>2. PICK status \in {order[n[1]].status, "failed"} :
             order' = [order EXCEPT ![n[1]] = [order[n[1]] EXCEPT !.status = status]]
      BY <1>5, <3>1 DEF Record
    <3>3. [order[n[1]] EXCEPT !.status = status] \in Order
      BY <3>1, <3>2 DEF Order
    <3> QED BY <3>1, <3>2, <3>3
  <2> QED BY <1>0, <1>5, <2>1 DEF Record, EventStates
<1>6. ASSUME NEW n \in Notes, Approve(n) PROVE SaleTypeOK'
  <2>1. hook' \in Hook
    BY <1>6 DEF Approve, Hook
  <2> QED BY <1>0, <1>6, <2>1, NoteShape DEF Approve, EventStates, PaymentStates
<1>7. ASSUME Grant PROVE SaleTypeOK'
  <2> DEFINE n == hook.note
             q == n[1]
  <2>1. n \in Notes /\ q \in Sales /\ Owner(q) \in Sessions
    BY <1>7, HookNote DEF Grant
  <2>2. order' \in [Sales -> Order]
    <3>1. [order[q] EXCEPT !.status = "paid"] \in Order
      BY <2>1 DEF Order
    <3>2. order' = [order EXCEPT ![q] = [order[q] EXCEPT !.status = "paid"]]
      BY <1>7, <2>1 DEF Grant
    <3> QED BY <2>1, <3>1, <3>2
  <2>3. tier' \in [Sessions -> Nat]
    BY <1>7, <2>1, SaleConstants DEF Grant, Raised, Owner
  <2>4. hook' \in Hook
    BY <1>7, <2>1 DEF Grant, Hook
  <2>5. event' \in [Notes -> EventStates]
    BY <1>7, <2>1 DEF Grant, EventStates
  <2> QED BY <1>0, <1>7, <2>1, <2>2, <2>3, <2>4, <2>5 DEF Grant, EntStates
<1>8. ASSUME Finish PROVE SaleTypeOK'
  <2>1. hook' \in Hook
    BY <1>8 DEF Finish, NoHook, Hook
  <2>2. event' \in [Notes -> EventStates]
    BY <1>8, HookNote DEF Finish, EventStates
  <2> QED BY <1>0, <1>8, <2>1, <2>2 DEF Finish
<1>9. ASSUME NEW n \in Notes, Revoke(n) PROVE SaleTypeOK'
  <2> DEFINE q == n[1]
  <2>1. q \in Sales /\ Owner(q) \in Sessions
    BY <1>9, NoteShape, ResolvedOwner DEF Revoke
  <2>2. order' \in [Sales -> Order]
    BY <1>9, <2>1 DEF Revoke, Order
  <2>3. \A x \in Sessions : \A e : Recomputed(x, e) \subseteq Nat
    BY SaleConstants DEF Recomputed, Owned
  <2>4. tier' \in [Sessions -> Nat]
    BY <1>9, <2>1, <2>3 DEF Revoke, Owner
  <2>5. ent' \in [Sales -> EntStates]
    BY <1>9, <2>1 DEF Revoke, EntStates
  <2> QED BY <1>0, <1>9, <2>1, <2>2, <2>4, <2>5 DEF Revoke, EventStates, PaymentStates
<1>10. ASSUME NEW t \in Threads, NEW s \in Sales, NEW x \in Sessions,
              ClaimRead(t, s, x) \/ ClaimAdopt(t, s, x)
       PROVE  SaleTypeOK'
  <2>1. claim' \in [Threads -> Claim]
    BY <1>10 DEF ClaimRead, ClaimAdopt, Claim
  <2> QED BY <1>0, <1>10, <2>1 DEF ClaimRead, ClaimAdopt
<1>11. ASSUME NEW t \in Threads, ClaimPay(t) PROVE SaleTypeOK'
  <2>0. NoClaim \in Claim
    BY DEF NoClaim, Claim
  <2>1. claim[t].sale \in Sales /\ claim[t].session \in Sessions
    BY <1>11 DEF ClaimPay, IInv, ClaimInv
  <2>2. claim' \in [Threads -> Claim]
    BY <1>11, <2>0 DEF ClaimPay, Claim
  <2>3. order' \in [Sales -> Order]
    <3>1. [session |-> claim[t].session, status |-> "paid"] \in Order
      BY <2>1 DEF Order
    <3>2. \/ order' = order
          \/ order' = [order EXCEPT ![claim[t].sale] =
                         [session |-> claim[t].session, status |-> "paid"]]
      BY <1>11 DEF ClaimPay
    <3> QED BY <2>1, <3>1, <3>2
  <2> QED BY <1>0, <1>11, <2>1, <2>2, <2>3 DEF ClaimPay, PaymentStates
<1>12. ASSUME NEW t \in Threads, ClaimGrant(t) \/ ClaimWhole(t) PROVE SaleTypeOK'
  <2>1. claim[t].sale \in Sales /\ claim[t].session \in Sessions
    BY <1>12 DEF ClaimGrant, ClaimWhole, IInv, ClaimInv
  <2>2. claim' \in [Threads -> Claim]
    BY <1>12 DEF ClaimGrant, ClaimWhole, Granted, Claim
  <2>3. order' \in [Sales -> Order] /\ payment' \in [Sales -> PaymentStates]
    <3>1. CASE ClaimGrant(t)
      BY <3>1 DEF ClaimGrant
    <3>2. CASE ClaimWhole(t)
      BY <2>1, <3>2 DEF ClaimWhole, Order, PaymentStates
    <3> QED BY <1>12, <3>1, <3>2
  <2>4. \A from : Raised(claim[t].session, claim[t].sale, from) \in [Sessions -> Nat]
    BY <2>1, SaleConstants DEF Raised
  <2>5. tier' \in [Sessions -> Nat]
    BY <1>12, <2>4 DEF ClaimGrant, ClaimWhole, Granted
  <2> QED BY <1>0, <1>12, <2>1, <2>2, <2>3, <2>5 DEF ClaimGrant, ClaimWhole, Granted, EntStates
<1>13. ASSUME NEW t \in Threads, ClaimMark(t) PROVE SaleTypeOK'
  <2>0. NoClaim \in Claim
    BY DEF NoClaim, Claim
  <2>1. claim[t].sale \in Sales /\ claim[t].session \in Sessions
    BY <1>13 DEF ClaimMark, IInv, ClaimInv
  <2>2. pending' \in [Sales -> Pending]
    BY <1>13, <2>1 DEF ClaimMark, Pending
  <2> QED BY <1>0, <1>13, <2>0, <2>2 DEF ClaimMark
<1>14. ASSUME Fetch PROVE SaleTypeOK'
  <2>1. syncs' \in 0..MaxSyncs
    BY <1>0, <1>14 DEF Fetch
  <2> QED BY <1>0, <1>14, <2>1 DEF Fetch
<1>15. ASSUME Reconcile \/ SyncFails \/ \E i \in issues : Resolve(i) PROVE SaleTypeOK'
  <2>1. CASE Reconcile
    <3>1. page \subseteq Sales
      BY <1>0, <2>1 DEF Reconcile
    <3>2. Found \subseteq Issues
      BY <3>1 DEF Found, Issues
    <3> QED BY <1>0, <2>1, <3>2 DEF Reconcile
  <2>2. CASE SyncFails \/ \E i \in issues : Resolve(i)
    BY <1>0, <2>2 DEF SyncFails, Resolve
  <2> QED BY <1>15, <2>1, <2>2
<1>16. ASSUME Crash PROVE SaleTypeOK'
  <2>1. crashes' \in 0..MaxCrashes
    BY <1>0, <1>16 DEF Crash
  <2>2. hook' \in Hook /\ claim' \in [Threads -> Claim]
    BY <1>16 DEF Crash, NoHook, Hook, NoClaim, Claim
  <2> QED BY <1>0, <1>16, <2>1, <2>2 DEF Crash
<1> QED BY <1>1, <1>2, <1>3, <1>4, <1>5, <1>6, <1>7, <1>8, <1>9, <1>10, <1>11, <1>12,
        <1>13, <1>14, <1>15, <1>16, SaleConstants DEF Next, Webhook, Claiming, Synchronization

-------------------------------------------------------------------------------
(* The steps that touch neither orders nor claims of a sale.                  *)
Aside ==
    \/ \E n \in Notes : \/ Reject(n) \/ LookupFails(n) \/ Unresolved(n)
                        \/ Conflict(n) \/ Replay(n)
    \/ Finish
    \/ Fetch \/ Reconcile \/ SyncFails \/ \E i \in issues : Resolve(i)

(* All the steps there are.                                                   *)
LEMMA Steps ==
    ASSUME Next
    PROVE  \/ Aside \/ Crash
           \/ \E s \in Sales : Move(s)
           \/ \E n \in Notes : Register(n) \/ Record(n) \/ Approve(n) \/ Revoke(n)
           \/ Grant
           \/ \E t \in Threads : \/ \E s \in Sales, x \in Sessions :
                                       ClaimRead(t, s, x) \/ ClaimAdopt(t, s, x)
                                 \/ ClaimPay(t) \/ ClaimGrant(t) \/ ClaimWhole(t)
                                 \/ ClaimMark(t)
BY SaleConstants DEF Next, Webhook, Claiming, Synchronization, Aside

(* Aside steps keep what the other invariants speak of.                       *)
LEMMA AsideKeeps ==
    ASSUME Aside
    PROVE  UNCHANGED <<remote, sent, order, payment, ent, tier, pending, claim, counted>>
BY DEF Aside, Reject, LookupFails, Unresolved, Conflict, Replay, Marked, Finish, Fetch,
   Reconcile, SyncFails, Resolve, world, orders, tasks, bounds

(* An owner, a payment, an activation, what the provider was paid for, what   *)
(* was sent and what has counted stay.                                        *)
LEMMA Persistent ==
    ASSUME IInv, Next
    PROVE  /\ \A s \in Sales : Owner(s) # NoSession => Owner(s)' = Owner(s)
           /\ \A s \in Sales : payment[s] # "none" => payment'[s] # "none"
           /\ \A s \in Sales : pending[s].status # "none" => pending'[s].status # "none"
           /\ \A s \in Sales : remote[s] \in Settled => remote'[s] \in Settled
           /\ sent \subseteq sent' /\ counted \subseteq counted'
<1> USE Types DEF Owner, world, orders, tasks, bounds
<1>1. CASE Aside \/ Crash
  BY <1>1, AsideKeeps DEF Crash
<1>2. ASSUME NEW s \in Sales, Move(s) PROVE remote[s] \in Settled => remote'[s] \in Settled
  BY <1>2 DEF Move, Moves, Settled
<1>3. CASE \E s \in Sales : Move(s)
  <2>1. PICK s \in Sales : Move(s)
    BY <1>3
  <2>2. \A q \in Sales \ {s} : remote'[q] = remote[q]
    BY <2>1 DEF Move
  <2> QED BY <1>2, <2>1, <2>2 DEF Move
<1>4. ASSUME NEW n \in Notes, Register(n)
      PROVE  /\ UNCHANGED <<world, orders, counted>>
             /\ \A s \in Sales : pending[s].status # "none" => pending'[s].status # "none"
  BY <1>4, NoteShape DEF Register, Pending
<1>5. ASSUME NEW n \in Notes, Record(n) \/ Approve(n) \/ Revoke(n)
      PROVE  /\ UNCHANGED <<world, pending>> /\ counted \subseteq counted'
             /\ \A s \in Sales : Owner(s)' = Owner(s)
             /\ \A s \in Sales : payment[s] # "none" => payment'[s] # "none"
  <2>1. CASE Record(n)
    BY <2>1, NoteShape DEF Record, Order
  <2>2. CASE Approve(n)
    BY <2>2 DEF Approve
  <2>3. CASE Revoke(n)
    <3>1. \A s \in Sales : Owner(s)' = Owner(s)
      BY <2>3, NoteShape DEF Revoke, Order
    <3>2. \A s \in Sales : payment[s] # "none" => payment'[s] # "none"
      BY <2>3 DEF Revoke
    <3> QED BY <2>3, <3>1, <3>2 DEF Revoke
  <2> QED BY <1>5, <2>1, <2>2, <2>3
<1>6. CASE Grant
  <2>1. \A s \in Sales : Owner(s)' = Owner(s)
    BY <1>6, HookNote DEF Grant, Order
  <2> QED BY <1>6, <2>1 DEF Grant
<1>7. ASSUME NEW t \in Threads, NEW s \in Sales, NEW x \in Sessions,
             ClaimRead(t, s, x) \/ ClaimAdopt(t, s, x)
      PROVE  UNCHANGED <<world, orders, pending, counted>>
  BY <1>7 DEF ClaimRead, ClaimAdopt
<1>8. ASSUME NEW t \in Threads, ClaimPay(t) \/ ClaimGrant(t) \/ ClaimWhole(t)
      PROVE  /\ UNCHANGED <<world, pending>> /\ counted \subseteq counted'
             /\ \A s \in Sales : Owner(s) # NoSession => Owner(s)' = Owner(s)
             /\ \A s \in Sales : payment[s] # "none" => payment'[s] # "none"
  <2>1. CASE ClaimGrant(t)
    BY <2>1 DEF ClaimGrant, Granted
  <2>2. CASE ClaimPay(t) /\ ~Unpaid(claim[t].sale)
    BY <2>2 DEF ClaimPay
  <2>3. CASE (ClaimPay(t) \/ ClaimWhole(t)) /\ Unpaid(claim[t].sale)
    <3>1. claim[t].sale \in Sales /\ Owner(claim[t].sale) = NoSession
      BY <2>3, UnpaidUnowned DEF ClaimPay, ClaimWhole
    <3> QED BY <2>3, <3>1 DEF ClaimPay, ClaimWhole, Granted, Unpaid
  <2> QED BY <1>8, <2>1, <2>2, <2>3 DEF ClaimWhole
<1>9. ASSUME NEW t \in Threads, ClaimMark(t)
      PROVE  /\ UNCHANGED <<world, orders, counted>>
             /\ \A s \in Sales : pending[s].status # "none" => pending'[s].status # "none"
  <2>1. claim[t].sale \in Sales
    BY <1>9 DEF ClaimMark, IInv, ClaimInv
  <2> QED BY <1>9, <2>1 DEF ClaimMark
<1> QED BY <1>1, <1>3, <1>4, <1>5, <1>6, <1>7, <1>8, <1>9, Steps

-------------------------------------------------------------------------------
(* The owner of a sale, whichever handlers and claims run.                    *)
LEMMA OwnerStep == IInv /\ Next => OwnerInv'
<1> SUFFICES ASSUME IInv, Next PROVE OwnerInv'
  OBVIOUS
<1> USE Types DEF Owner, world, orders, tasks, bounds
<1>0. OwnerInv
  BY DEF IInv
<1>1. CASE Aside \/ Crash \/ (\E s \in Sales : Move(s))
  <2>1. UNCHANGED <<order, payment, ent, pending>>
    BY <1>1, AsideKeeps DEF Crash, Move
  <2> QED BY <1>0, <2>1 DEF OwnerInv
<1>2. ASSUME NEW n \in Notes, Register(n) PROVE OwnerInv'
  <2>1. n[1] \in Sales /\ Owner(n[1]) = NoSession
    BY <1>2, NoteShape, ResolvedOwner DEF Register
  <2>2. \A s \in Sales \ {n[1]} : pending'[s] = pending[s]
    BY <1>2 DEF Register
  <2>3. /\ pending'[n[1]].session = pending[n[1]].session
        /\ pending'[n[1]].status = "claimed" => pending[n[1]].status = "claimed"
    BY <1>2, <2>1 DEF Register, Pending
  <2> QED BY <1>0, <1>2, <2>1, <2>2, <2>3 DEF Register, OwnerInv
<1>3. ASSUME NEW n \in Notes, Record(n) PROVE OwnerInv'
  <2>1. n[1] \in Sales /\ order[n[1]].status # "none"
    BY <1>3, NoteShape DEF Record, Resolved
  <2>2. \A s \in Sales : /\ order'[s].session = order[s].session
                         /\ order'[s].status = "none" <=> order[s].status = "none"
    BY <1>3, <2>1 DEF Record, Order
  <2> QED BY <1>0, <1>3, <2>2 DEF Record, OwnerInv
<1>4. ASSUME NEW n \in Notes, Approve(n) PROVE OwnerInv'
  <2>1. n[1] \in Sales /\ Owner(n[1]) # NoSession
    BY <1>4, NoteShape, ResolvedOwner DEF Approve
  <2> QED BY <1>0, <1>4, <2>1 DEF Approve, OwnerInv
<1>5. ASSUME NEW n \in Notes, Revoke(n) PROVE OwnerInv'
  <2>1. n[1] \in Sales /\ Owner(n[1]) # NoSession
    BY <1>5, NoteShape, ResolvedOwner DEF Revoke
  <2>2. \A s \in Sales : /\ order'[s].session = order[s].session
                         /\ order'[s].status = "none" <=> order[s].status = "none"
    BY <1>0, <1>5, <2>1 DEF Revoke, Order, OwnerInv
  <2>3. \A s \in Sales \ {n[1]} : payment'[s] = payment[s] /\ ent'[s] = ent[s]
    BY <1>5 DEF Revoke
  <2>4. pending' = pending /\ payment'[n[1]] # "none"
    BY <1>5, <2>1 DEF Revoke
  <2> QED BY <1>0, <2>1, <2>2, <2>3, <2>4 DEF OwnerInv
<1>6. CASE Grant
  <2>1. hook.note[1] \in Sales /\ Owner(hook.note[1]) # NoSession
    BY <1>6, HookNote, ResolvedOwner DEF Grant
  <2>2. \A s \in Sales : /\ order'[s].session = order[s].session
                         /\ order'[s].status = "none" <=> order[s].status = "none"
    <3> DEFINE q == hook.note[1]
    <3>1. order[q] \in Order /\ order[q].status # "none"
      BY <1>0, <2>1 DEF OwnerInv
    <3>2. order' = [order EXCEPT ![q] = [order[q] EXCEPT !.status = "paid"]]
      BY <1>6, <2>1 DEF Grant
    <3>3. /\ order'[q].session = order[q].session /\ order'[q].status = "paid"
          /\ \A s \in Sales \ {q} : order'[s] = order[s]
      BY <2>1, <3>1, <3>2 DEF Order
    <3> QED BY <3>1, <3>3
  <2>3. \A s \in Sales \ {hook.note[1]} : ent'[s] = ent[s]
    BY <1>6 DEF Grant
  <2>4. UNCHANGED <<pending, payment>>
    BY <1>6 DEF Grant
  <2> QED BY <1>0, <2>1, <2>2, <2>3, <2>4 DEF OwnerInv
<1>7. ASSUME NEW t \in Threads, NEW s \in Sales, NEW x \in Sessions,
             ClaimRead(t, s, x) \/ ClaimAdopt(t, s, x)
      PROVE  OwnerInv'
  BY <1>0, <1>7 DEF ClaimRead, ClaimAdopt, OwnerInv
<1>8. ASSUME NEW t \in Threads, ClaimPay(t) \/ ClaimWhole(t), Unpaid(claim[t].sale)
      PROVE  OwnerInv'
  <2> DEFINE q == claim[t].sale
  <2>1. claim[t].stage = "read"
    BY <1>8 DEF ClaimPay, ClaimWhole
  <2>2. q \in Sales /\ Owner(q) = NoSession /\ claim[t].session # NoSession
    BY <1>8, <2>1, UnpaidUnowned
  <2>3. order' = [order EXCEPT ![q] = [session |-> claim[t].session, status |-> "paid"]]
    BY <1>8 DEF ClaimPay, ClaimWhole
  <2>4. order'[q].session = claim[t].session /\ order'[q].status = "paid"
    BY <2>2, <2>3
  <2>5. payment' = [payment EXCEPT ![q] = "succeeded"] /\ pending' = pending
    BY <1>8 DEF ClaimPay, ClaimWhole, Granted
  <2>6. \A s \in Sales \ {q} : ent'[s] = ent[s] /\ order'[s] = order[s] /\ payment'[s] = payment[s]
    BY <1>8, <2>3, <2>5 DEF ClaimPay, ClaimWhole, Granted
  <2>7. payment'[q] # "none" /\ pending[q].status # "claimed" /\ Checkout[q] = NoSession
    BY <1>0, <2>2, <2>5 DEF OwnerInv
  <2> HIDE DEF q
  <2> QED BY <1>0, <2>2, <2>4, <2>5, <2>6, <2>7 DEF OwnerInv
<1>9. ASSUME NEW t \in Threads, ClaimPay(t), ~Unpaid(claim[t].sale) PROVE OwnerInv'
  BY <1>0, <1>9 DEF ClaimPay, OwnerInv
<1>10. ASSUME NEW t \in Threads, ClaimGrant(t) PROVE OwnerInv'
  <2>1. Owner(claim[t].sale) # NoSession
    BY <1>10, SaleConstants DEF ClaimGrant, IInv, ClaimInv
  <2> QED BY <1>0, <1>10, <2>1 DEF ClaimGrant, Granted, OwnerInv
<1>11. ASSUME NEW t \in Threads, ClaimMark(t) PROVE OwnerInv'
  <2> DEFINE q == claim[t].sale
  <2>1. /\ q \in Sales /\ pending[q].status # "none"
        /\ Owner(q) = claim[t].session /\ Owner(q) # NoSession /\ payment[q] # "none"
    BY <1>11, SaleConstants DEF ClaimMark, IInv, ClaimInv
  <2>2. /\ pending'[q] = [status |-> "claimed", session |-> claim[t].session]
        /\ \A s \in Sales \ {q} : pending'[s] = pending[s]
    BY <1>11, <2>1 DEF ClaimMark
  <2>3. UNCHANGED <<order, payment, ent>>
    BY <1>11 DEF ClaimMark
  <2>4. Checkout[q] = NoSession
    BY <1>0, <2>1 DEF OwnerInv
  <2> HIDE DEF q
  <2> QED BY <1>0, <2>1, <2>2, <2>3, <2>4 DEF OwnerInv
<1> QED BY <1>1, <1>2, <1>3, <1>4, <1>5, <1>6, <1>7, <1>8, <1>9, <1>10, <1>11, Steps
        DEF ClaimWhole

-------------------------------------------------------------------------------
(* What the provider announces follows the sale.                              *)
LEMMA RemoteStep == IInv /\ Next => RemoteInv'
<1> SUFFICES ASSUME IInv, Next PROVE RemoteInv'
  OBVIOUS
<1> USE Types DEF Settled, Grants, world, orders, tasks, bounds
<1>0. RemoteInv
  BY DEF IInv
<1>1. CASE \E s \in Sales : Move(s)
  <2>1. PICK s \in Sales, m \in Moves :
          /\ remote[s] = m[1] /\ remote' = [remote EXCEPT ![s] = m[2]]
          /\ sent' = sent \cup {<<s, m[3]>>} /\ pending' = pending
    BY <1>1 DEF Move
  <2>2. \A q \in Sales \ {s} : \A k : <<q, k>> \in sent' <=> <<q, k>> \in sent
    BY <2>1
  <2>3. \A k : <<s, k>> \in sent' <=> <<s, k>> \in sent \/ k = m[3]
    BY <2>1
  <2>4. \A q \in Sales \ {s} : remote'[q] = remote[q]
    BY <2>1
  <2>5. remote'[s] = m[2]
    BY <2>1
  <2> SUFFICES ASSUME NEW q \in Sales
               PROVE  /\ \A k \in Grants : <<q, k>> \in sent' => remote'[q] \in Settled
                      /\ <<q, "refund">> \in sent' <=> remote'[q] = "refunded"
                      /\ remote'[q] \in Settled => <<q, "approved">> \in sent'
                      /\ pending'[q].status # "none" => remote'[q] \in Settled
    BY DEF RemoteInv
  <2>6. CASE q # s
    BY <1>0, <2>1, <2>2, <2>4, <2>6 DEF RemoteInv
  <2>7. CASE q = s
    BY <1>0, <2>1, <2>3, <2>5, <2>7 DEF RemoteInv, Moves
  <2> QED BY <2>6, <2>7
<1>2. ASSUME NEW n \in Notes, Register(n) PROVE RemoteInv'
  <2>1. n \in sent /\ n[1] \in Sales /\ n = <<n[1], n[2]>> /\ n[2] \in Grants
    BY <1>2, NoteShape DEF Register, Genuine
  <2>2. remote[n[1]] \in Settled
    BY <1>0, <2>1 DEF RemoteInv
  <2>3. UNCHANGED <<remote, sent>> /\ \A s \in Sales \ {n[1]} : pending'[s] = pending[s]
    BY <1>2 DEF Register
  <2> QED BY <1>0, <2>2, <2>3 DEF RemoteInv
<1>3. ASSUME NEW t \in Threads, ClaimMark(t) PROVE RemoteInv'
  <2>1. claim[t].sale \in Sales /\ pending[claim[t].sale].status # "none"
    BY <1>3 DEF ClaimMark, IInv, ClaimInv
  <2>2. /\ UNCHANGED <<remote, sent>>
        /\ \A s \in Sales \ {claim[t].sale} : pending'[s] = pending[s]
    BY <1>3 DEF ClaimMark
  <2> QED BY <1>0, <2>1, <2>2 DEF RemoteInv
<1>4. UNCHANGED <<remote, sent, pending>> => RemoteInv'
  BY <1>0 DEF RemoteInv
<1>5. CASE Aside \/ Crash
  BY <1>4, <1>5, AsideKeeps DEF Crash
<1>6. ASSUME NEW n \in Notes, Record(n) \/ Approve(n) \/ Revoke(n) PROVE RemoteInv'
  BY <1>4, <1>6 DEF Record, Approve, Revoke
<1>7. CASE Grant
  BY <1>4, <1>7 DEF Grant
<1>8. ASSUME NEW t \in Threads, \/ \E s \in Sales, x \in Sessions :
                                        ClaimRead(t, s, x) \/ ClaimAdopt(t, s, x)
                                \/ ClaimPay(t) \/ ClaimGrant(t) \/ ClaimWhole(t)
      PROVE  RemoteInv'
  BY <1>4, <1>8 DEF ClaimRead, ClaimAdopt, ClaimPay, ClaimGrant, ClaimWhole, Granted
<1> QED BY <1>1, <1>2, <1>3, <1>5, <1>6, <1>7, <1>8, Steps

(* An event that is no longer open stays so until it is closed again.         *)
LEMMA EventsClose ==
    ASSUME IInv, Next, NEW n \in Notes, event[n] \notin Open
    PROVE  event'[n] \notin Open
<1> USE Types DEF Open, world, orders, tasks, bounds
<1>1. ASSUME NEW m \in Notes, Genuine(m) PROVE m # n
  BY <1>1 DEF Genuine, Fresh
<1>2. CASE Aside
  <2>1. ASSUME NEW m \in Notes, Reject(m) \/ Conflict(m) \/ Replay(m)
        PROVE  event'[n] \notin Open
    BY <2>1 DEF Reject, Conflict, Replay, Marked
  <2>2. ASSUME NEW m \in Notes, LookupFails(m) \/ Unresolved(m) PROVE event'[n] \notin Open
    BY <1>1, <2>2 DEF LookupFails, Unresolved
  <2>3. CASE Finish
    BY <2>3 DEF Finish
  <2>4. CASE Fetch \/ Reconcile \/ SyncFails \/ \E i \in issues : Resolve(i)
    BY <2>4 DEF Fetch, Reconcile, SyncFails, Resolve
  <2> QED BY <1>2, <2>1, <2>2, <2>3, <2>4 DEF Aside
<1>3. ASSUME NEW m \in Notes, Register(m) \/ Record(m) \/ Approve(m) \/ Revoke(m)
      PROVE  event'[n] \notin Open
  <2>1. m # n
    BY <1>1, <1>3 DEF Register, Record, Approve, Revoke
  <2> QED BY <1>3, <2>1 DEF Register, Record, Approve, Revoke
<1>4. CASE Grant
  BY <1>4 DEF Grant
<1>5. CASE Crash \/ \E s \in Sales : Move(s)
  BY <1>5 DEF Crash, Move
<1>6. ASSUME NEW t \in Threads, \/ \E s \in Sales, x \in Sessions :
                                        ClaimRead(t, s, x) \/ ClaimAdopt(t, s, x)
                                \/ ClaimPay(t) \/ ClaimGrant(t) \/ ClaimWhole(t) \/ ClaimMark(t)
      PROVE  event'[n] \notin Open
  BY <1>6 DEF ClaimRead, ClaimAdopt, ClaimPay, ClaimGrant, ClaimWhole, ClaimMark, Granted
<1> QED BY <1>2, <1>3, <1>4, <1>5, <1>6, Steps

(* An approval that was accepted is of a sale the provider was paid for.      *)
LEMMA ApprovedIsPaid ==
    ASSUME IInv, NEW n \in Notes, n \in sent, Verdict(n) = "approve"
    PROVE  /\ remote[n[1]] \in Settled
           /\ Confirms(n[1]) \/ n[2] \in Grants
           /\ n[2] # "refund"
<1>1. n[1] \in Sales /\ n = <<n[1], n[2]>>
  BY NoteShape
<1>2. IF Confirms(n[1]) THEN remote[n[1]] = "paid" ELSE n[2] \in Grants
  BY DEF Verdict
<1>3. CASE Confirms(n[1])
  BY <1>1, <1>2, <1>3 DEF IInv, RemoteInv, Settled
<1>4. CASE ~Confirms(n[1])
  BY <1>1, <1>2, <1>4 DEF IInv, RemoteInv, Grants
<1> QED BY <1>3, <1>4

-------------------------------------------------------------------------------
(* The notification in hand.                                                  *)
LEMMA HookStep == IInv /\ Next => HookInv'
<1> SUFFICES ASSUME IInv, Next PROVE HookInv'
  OBVIOUS
<1> USE Types DEF world, orders, tasks, bounds
<1>0. HookInv
  BY DEF IInv
<1>1. ASSUME hook' = hook,
             hook.stage = "paid" => hook.note \notin counted',
             hook.stage = "granted" => ent'[hook.note[1]] = "active"
      PROVE  HookInv'
  <2>1. CASE hook.stage = "idle"
    BY <1>0, <1>1, <2>1 DEF HookInv
  <2>2. CASE hook.stage # "idle"
    <3>1. hook.note \in Notes /\ hook.note[1] \in Sales
      BY <2>2, HookNote
    <3>2. order'[hook.note[1]].session # NoSession
      BY <1>0, <2>2, <3>1, Persistent DEF HookInv, Owner
    <3>3. remote'[hook.note[1]] \in Settled
      BY <1>0, <2>2, <3>1, Persistent DEF HookInv
    <3>4. event'[hook.note] \notin Open
      BY <1>0, <2>2, <3>1, EventsClose DEF HookInv
    <3>5. hook.note \in sent'
      BY <1>0, <2>2, Persistent DEF HookInv
    <3> QED BY <1>0, <1>1, <2>2, <3>1, <3>2, <3>3, <3>4, <3>5 DEF HookInv, Owner, Confirms
  <2> QED BY <2>1, <2>2
<1>2. UNCHANGED <<hook, ent, counted>> => HookInv'
  BY <1>0, <1>1 DEF HookInv
<1>3. CASE Finish \/ Crash
  BY <1>3 DEF Finish, Crash, HookInv, NoHook
<1>4. CASE Aside /\ ~Finish
  BY <1>2, <1>4 DEF Aside, Reject, LookupFails, Unresolved, Conflict, Replay, Marked, Fetch,
     Reconcile, SyncFails, Resolve
<1>5. CASE \E s \in Sales : Move(s)
  BY <1>2, <1>5 DEF Move
<1>6. ASSUME NEW n \in Notes, Register(n) \/ Record(n) PROVE HookInv'
  BY <1>2, <1>6 DEF Register, Record
<1>7. ASSUME NEW n \in Notes, Revoke(n) PROVE HookInv'
  <2>1. hook' = hook /\ hook = NoHook
    BY <1>7 DEF Revoke, Genuine, Free
  <2> QED BY <2>1 DEF HookInv, NoHook
<1>8. ASSUME NEW n \in Notes, Approve(n) PROVE HookInv'
  <2>1. n \in sent /\ Verdict(n) = "approve" /\ Fresh(n)
    BY <1>8 DEF Approve, Genuine
  <2>2. /\ remote[n[1]] \in Settled /\ n[2] # "refund"
        /\ Confirms(n[1]) \/ n[2] \in Grants
    BY <2>1, ApprovedIsPaid
  <2>3. n[1] \in Sales /\ Owner(n[1]) # NoSession
    BY <1>8, NoteShape, ResolvedOwner DEF Approve
  <2>4. n \notin counted
    BY <2>1 DEF IInv, EventInv, Fresh, Open
  <2>5. /\ hook' = [note |-> n, stage |-> "paid"] /\ event' = [event EXCEPT ![n] = "received"]
        /\ UNCHANGED <<remote, sent, order, counted>>
    BY <1>8 DEF Approve
  <2>6. event'[n] = "received"
    BY <2>5
  <2> QED BY <2>1, <2>2, <2>3, <2>4, <2>5, <2>6 DEF HookInv, Owner, Open, Confirms
<1>9. CASE Grant
  <2>1. PICK n \in Notes : n = hook.note /\ n[1] \in Sales /\ hook.stage = "paid"
    BY <1>9, HookNote DEF Grant
  <2>2. /\ Owner(n[1]) # NoSession /\ remote[n[1]] \in Settled
        /\ Confirms(n[1]) \/ n[2] \in Grants
        /\ n[2] # "refund" /\ event[n] \notin Open /\ n \in sent
    BY <1>0, <2>1 DEF HookInv
  <2>3. hook'.note = n /\ hook'.stage = "granted"
    BY <1>9, <2>1 DEF Grant, Hook
  <2>4. ent'[n[1]] = "active" /\ remote' = remote /\ sent' = sent
    BY <1>9, <2>1 DEF Grant
  <2>5. order'[n[1]].session # NoSession
    BY <2>1, <2>2, Persistent DEF Owner
  <2>6. event'[n] \notin Open
    BY <2>1, <2>2, EventsClose
  <2> QED BY <2>1, <2>2, <2>3, <2>4, <2>5, <2>6 DEF HookInv, Confirms, Owner
<1>10. ASSUME NEW t \in Threads, \/ \E s \in Sales, x \in Sessions :
                                        ClaimRead(t, s, x) \/ ClaimAdopt(t, s, x)
                                 \/ ClaimPay(t) \/ ClaimMark(t)
       PROVE  HookInv'
  BY <1>2, <1>10 DEF ClaimRead, ClaimAdopt, ClaimPay, ClaimMark
<1>11. ASSUME NEW t \in Threads, ClaimGrant(t) \/ ClaimWhole(t) PROVE HookInv'
  <2>1. /\ hook' = hook /\ counted' = counted \cup {<<claim[t].sale, "claim">>}
        /\ ent' = [ent EXCEPT ![claim[t].sale] = "active"]
    BY <1>11 DEF ClaimGrant, ClaimWhole, Granted
  <2>2. hook.stage # "idle" => hook.note \in Notes /\ hook.note[1] \in Sales /\ hook.note[2] \in Kinds
    BY HookNote, NoteShape
  <2>3. hook.stage # "idle" => hook.note # <<claim[t].sale, "claim">>
    BY <2>2 DEF Kinds
  <2>4. hook.stage = "granted" => ent'[hook.note[1]] = "active"
    BY <1>0, <2>1, <2>2 DEF HookInv
  <2>5. hook.stage = "paid" => hook.note \notin counted'
    BY <1>0, <2>1, <2>3 DEF HookInv
  <2> QED BY <1>1, <2>1, <2>4, <2>5
<1> QED BY <1>3, <1>4, <1>5, <1>6, <1>7, <1>8, <1>9, <1>10, <1>11, Steps

(* The claims: one thread pays for a sale, whoever else reads it.             *)
LEMMA ClaimStep == IInv /\ Next => ClaimInv'
<1> SUFFICES ASSUME IInv, Next PROVE ClaimInv'
  OBVIOUS
<1> USE Types DEF world, orders, tasks, bounds
<1>0. ClaimInv
  BY DEF IInv
<1> DEFINE Well(t) ==
      /\ claim[t].stage = "idle" => claim[t] = NoClaim
      /\ claim[t].stage # "idle" =>
            /\ claim[t].sale \in Sales /\ claim[t].session \in Sessions
            /\ pending[claim[t].sale].status # "none"
      /\ claim[t].stage \in {"paid", "granted"} =>
            Owner(claim[t].sale) = claim[t].session /\ payment[claim[t].sale] # "none"
           Alone(t) == claim[t].stage = "paid" =>
              /\ <<claim[t].sale, "claim">> \notin counted
              /\ \A u \in Threads : claim[u].stage = "paid" /\ claim[u].sale = claim[t].sale => u = t
<1>a. \A t \in Threads : Well(t) /\ Alone(t)
  BY <1>0 DEF ClaimInv
<1>b. (\A t \in Threads : Well(t)' /\ Alone(t)') => ClaimInv'
  BY DEF ClaimInv
<1>1. ASSUME NEW t \in Threads, claim'[t] = claim[t] PROVE Well(t)'
  <2>1. CASE claim[t].stage = "idle"
    BY <1>a, <1>1, <2>1
  <2>2. CASE claim[t].stage # "idle"
    <3> DEFINE q == claim[t].sale
    <3>1. q \in Sales /\ claim[t].session \in Sessions /\ pending[q].status # "none"
      BY <1>a, <2>2
    <3>2. pending'[q].status # "none"
      BY <3>1, Persistent
    <3>3. CASE claim[t].stage \in {"paid", "granted"}
      <4>1. Owner(q) = claim[t].session /\ Owner(q) # NoSession /\ payment[q] # "none"
        BY <1>a, <3>1, <3>3, SaleConstants
      <4>2. order'[q].session = Owner(q) /\ payment'[q] # "none"
        BY <3>1, <4>1, Persistent DEF Owner
      <4> QED BY <1>1, <2>2, <3>1, <3>2, <4>1, <4>2 DEF Owner
    <3>4. CASE claim[t].stage \notin {"paid", "granted"}
      BY <1>1, <2>2, <3>1, <3>2, <3>4
    <3> QED BY <3>3, <3>4
  <2> QED BY <2>1, <2>2
<1> HIDE DEF Well
<1>c. ASSUME NEW t \in Threads, Well(t)', Alone(t)',
             \A u \in Threads \ {t} : claim'[u] = claim[u],
             \A u \in Threads \ {t} : Alone(u)'
      PROVE  ClaimInv'
  <2>1. ASSUME NEW u \in Threads PROVE Well(u)' /\ Alone(u)'
    BY <1>c, <1>1, <2>1
  <2> QED BY <1>b, <2>1
<1>2. ASSUME claim' = claim, \A t \in Threads : claim[t].stage = "paid" =>
                                 (<<claim[t].sale, "claim">> \in counted' =>
                                  <<claim[t].sale, "claim">> \in counted)
      PROVE  ClaimInv'
  BY <1>a, <1>b, <1>1, <1>2
<1>3. CASE Crash
  BY <1>3, <1>b DEF Crash, NoClaim, Well
<1>4. CASE Aside \/ \E s \in Sales : Move(s)
  BY <1>2, <1>4, AsideKeeps DEF Move
<1>5. ASSUME NEW n \in Notes, Register(n) \/ Record(n) \/ Approve(n) PROVE ClaimInv'
  BY <1>2, <1>5 DEF Register, Record, Approve
<1>6. ASSUME NEW n \in Notes, claim' = claim, counted' = counted \cup {n} PROVE ClaimInv'
  <2>1. \A q : n # <<q, "claim">>
    BY NoteShape DEF Kinds
  <2> QED BY <1>2, <1>6, <2>1
<1>7. ASSUME NEW n \in Notes, Revoke(n) PROVE ClaimInv'
  BY <1>6, <1>7 DEF Revoke
<1>8. CASE Grant
  BY <1>6, <1>8, HookNote DEF Grant
<1>9. ASSUME NEW t \in Threads, NEW s \in Sales, NEW x \in Sessions,
             ClaimRead(t, s, x) \/ ClaimAdopt(t, s, x)
      PROVE  ClaimInv'
  <2>1. /\ \A u \in Threads \ {t} : claim'[u] = claim[u]
        /\ claim'[t].stage \in {"read", "granted"}
        /\ claim'[t].sale = s /\ claim'[t].session = x
        /\ UNCHANGED <<order, payment, pending, counted>>
    BY <1>9 DEF ClaimRead, ClaimAdopt
  <2>2. pending[s].status # "none"
    BY <1>9 DEF ClaimRead, ClaimAdopt, Claimable
  <2>3. claim'[t].stage = "granted" => Owner(s) = x /\ payment[s] # "none"
    BY <1>9 DEF ClaimRead, ClaimAdopt, Owner
  <2>4. Well(t)'
    BY <2>1, <2>2, <2>3 DEF Well, Owner
  <2> QED BY <1>a, <1>b, <1>1, <2>1, <2>4
<1>10. ASSUME NEW t \in Threads, ClaimPay(t), Unpaid(claim[t].sale) PROVE ClaimInv'
  <2>1. /\ \A u \in Threads \ {t} : claim'[u] = claim[u]
        /\ claim'[t].stage = "paid" /\ claim'[t].sale = claim[t].sale
        /\ claim'[t].session = claim[t].session
    BY <1>10 DEF ClaimPay, Claim
  <2>2. /\ claim[t].sale \in Sales /\ claim[t].session \in Sessions
        /\ \A u \in Threads : claim[u].stage \in {"paid", "granted"} =>
              claim[u].sale # claim[t].sale
    BY <1>10, UnpaidUnowned DEF ClaimPay
  <2>3. /\ counted' = counted /\ pending' = pending
        /\ payment'[claim[t].sale] = "succeeded"
        /\ order'[claim[t].sale].session = claim[t].session
    BY <1>10, <2>2 DEF ClaimPay
  <2>4. <<claim[t].sale, "claim">> \notin counted
    BY <1>10, <2>2 DEF IInv, EventInv, Unpaid
  <2>5. pending[claim[t].sale].status # "none"
    BY <1>10, <1>a DEF ClaimPay, Well
  <2>6. Well(t)'
    BY <2>1, <2>2, <2>3, <2>5 DEF Well, Owner
  <2>7. Alone(t)'
    <3>1. <<claim'[t].sale, "claim">> \notin counted'
      BY <2>1, <2>3, <2>4
    <3>2. ASSUME NEW u \in Threads, claim'[u].stage = "paid", claim'[u].sale = claim'[t].sale
          PROVE  u = t
      BY <2>1, <2>2, <3>2
    <3> QED BY <3>1, <3>2
  <2>8. ASSUME NEW u \in Threads \ {t} PROVE Alone(u)'
    <3>1. claim'[u] = claim[u] /\ counted' = counted
      BY <2>1, <2>3
    <3>2. claim[u].stage = "paid" => claim[u].sale # claim'[t].sale
      BY <2>1, <2>2
    <3>3. ASSUME claim'[u].stage = "paid", NEW v \in Threads,
                 claim'[v].stage = "paid", claim'[v].sale = claim'[u].sale
          PROVE  v = u
      BY <1>a, <2>1, <3>1, <3>2, <3>3
    <3> QED BY <1>a, <3>1, <3>3
  <2> QED BY <1>c, <2>1, <2>6, <2>7, <2>8
<1>11. ASSUME NEW t \in Threads, claim'[t] = NoClaim, counted' = counted,
              \A u \in Threads \ {t} : claim'[u] = claim[u]
       PROVE  ClaimInv'
  <2>1. Well(t)'
    BY <1>11 DEF Well, NoClaim
  <2>2. claim'[t].stage = "idle"
    BY <1>11 DEF NoClaim
  <2>3. ASSUME NEW u \in Threads \ {t} PROVE Alone(u)'
    BY <1>a, <1>11, <2>2
  <2> QED BY <1>c, <1>11, <2>1, <2>2, <2>3
<1>12. ASSUME NEW t \in Threads, ClaimPay(t), ~Unpaid(claim[t].sale) PROVE ClaimInv'
  BY <1>11, <1>12 DEF ClaimPay
<1>13. ASSUME NEW t \in Threads, ClaimMark(t) PROVE ClaimInv'
  BY <1>11, <1>13 DEF ClaimMark
<1>14. ASSUME NEW t \in Threads, ClaimGrant(t) \/ ClaimWhole(t) PROVE ClaimInv'
  <2> DEFINE q == claim[t].sale
  <2>1. /\ \A u \in Threads \ {t} : claim'[u] = claim[u]
        /\ claim'[t].stage = "granted" /\ claim'[t].sale = q
        /\ claim'[t].session = claim[t].session
        /\ counted' = counted \cup {<<q, "claim">>} /\ pending' = pending
    BY <1>14 DEF ClaimGrant, ClaimWhole, Granted, Claim
  <2>2. /\ q \in Sales /\ claim[t].session \in Sessions /\ pending[q].status # "none"
    BY <1>14, <1>a DEF ClaimGrant, ClaimWhole, Well
  <2>3. /\ order'[q].session = claim[t].session /\ payment'[q] # "none"
        /\ \A u \in Threads \ {t} : claim[u].stage = "paid" => claim[u].sale # q
    <3>1. CASE ClaimGrant(t)
      BY <1>a, <2>2, <3>1 DEF ClaimGrant, Well, Owner
    <3>2. CASE ClaimWhole(t)
      BY <2>2, <3>2, UnpaidUnowned DEF ClaimWhole
    <3> QED BY <1>14, <3>1, <3>2
  <2> HIDE DEF q
  <2>4. Well(t)'
    BY <2>1, <2>2, <2>3 DEF Well, Owner
  <2>5. ASSUME NEW u \in Threads \ {t} PROVE Alone(u)'
    <3> SUFFICES ASSUME claim[u].stage = "paid"
                 PROVE  /\ <<claim'[u].sale, "claim">> \notin counted'
                        /\ \A v \in Threads : claim'[v].stage = "paid"
                              /\ claim'[v].sale = claim'[u].sale => v = u
      BY <2>1
    <3>1. claim[u].sale # q /\ <<claim[u].sale, "claim">> \notin counted
      BY <1>a, <2>3
    <3>2. <<claim[u].sale, "claim">> \notin counted'
      BY <2>1, <3>1
    <3>3. ASSUME NEW v \in Threads, claim'[v].stage = "paid", claim'[v].sale = claim'[u].sale
          PROVE  v = u
      BY <1>a, <2>1, <3>3
    <3> QED BY <2>1, <3>2, <3>3
  <2> QED BY <1>c, <2>1, <2>4, <2>5
<1> QED BY <1>3, <1>4, <1>5, <1>7, <1>8, <1>9, <1>10, <1>12, <1>13, <1>14, Steps

(* The events: only what was sent is processed, and what counted is closed.   *)
LEMMA EventStep == IInv /\ Next => EventInv'
<1> SUFFICES ASSUME IInv, Next PROVE EventInv'
  OBVIOUS
<1> USE Types DEF world, orders, tasks, bounds
<1>0. EventInv
  BY DEF IInv
<1>1. ASSUME NEW m \in Notes, m \in sent,
             event' = [event EXCEPT ![m] = "processed"] \/ event' = event,
             counted' = counted \/ (counted' = counted \cup {m} /\ event'[m] \notin Open)
      PROVE  EventInv'
  <2>1. \A n \in Notes : event'[n] = "processed" => n \in sent'
    BY <1>0, <1>1, Persistent DEF EventInv
  <2>2. \A n \in Notes : n \in counted' => event'[n] \notin Open
    BY <1>0, <1>1, EventsClose DEF EventInv
  <2>3. counted' \subseteq Sales \X (Kinds \cup {"claim"})
    BY <1>0, <1>1, NoteShape DEF EventInv
  <2>4. ASSUME NEW s \in Sales, <<s, "claim">> \in counted' PROVE payment'[s] # "none"
    <3>1. m # <<s, "claim">>
      BY NoteShape DEF Kinds
    <3> QED BY <1>0, <1>1, <2>4, <3>1, Persistent DEF EventInv
  <2> QED BY <2>1, <2>2, <2>3, <2>4 DEF EventInv
<1>2. ASSUME counted' = counted,
             \A n \in Notes : event'[n] = "processed" => event[n] = "processed"
      PROVE  EventInv'
  <2>1. \A n \in Notes : event'[n] = "processed" => n \in sent'
    BY <1>0, <1>2, Persistent DEF EventInv
  <2>2. \A n \in Notes : n \in counted' => event'[n] \notin Open
    BY <1>0, <1>2, EventsClose DEF EventInv
  <2>3. \A s \in Sales : <<s, "claim">> \in counted' => payment'[s] # "none"
    BY <1>0, <1>2, Persistent DEF EventInv
  <2> QED BY <1>0, <1>2, <2>1, <2>2, <2>3 DEF EventInv
<1>3. ASSUME NEW n \in Notes, \/ Reject(n) \/ LookupFails(n) \/ Unresolved(n) \/ Register(n)
                              \/ Approve(n)
      PROVE  EventInv'
  BY <1>2, <1>3 DEF Reject, LookupFails, Unresolved, Register, Approve
<1>4. ASSUME NEW n \in Notes, Conflict(n) \/ Replay(n) PROVE EventInv'
  BY <1>2, <1>4 DEF Conflict, Replay, Marked
<1>5. ASSUME NEW n \in Notes, Record(n) PROVE EventInv'
  <2>1. n \in sent /\ event' = [event EXCEPT ![n] = "processed"] /\ counted' = counted
    BY <1>5 DEF Record, Genuine
  <2> QED BY <1>1, <2>1
<1>6. ASSUME NEW n \in Notes, Revoke(n) PROVE EventInv'
  <2>1. n \in sent /\ event' = [event EXCEPT ![n] = "processed"] /\ counted' = counted \cup {n}
    BY <1>6 DEF Revoke, Genuine
  <2>2. event'[n] \notin Open
    BY <2>1 DEF Open
  <2> QED BY <1>1, <2>1, <2>2
<1>7. CASE Grant \/ Finish
  <2>1. PICK n \in Notes : n = hook.note
    BY <1>7, HookNote DEF Grant, Finish
  <2>2. n \in sent /\ event[n] \notin Open
    BY <1>7, <2>1 DEF IInv, HookInv, Grant, Finish
  <2>3. event'[n] \notin Open
    BY <2>2, EventsClose
  <2>4. CASE Grant
    <3>1. event' = [event EXCEPT ![n] = "processed"] \/ event' = event
      BY <2>1, <2>4 DEF Grant
    <3>2. counted' = counted \cup {n}
      BY <2>1, <2>4 DEF Grant
    <3> QED BY <1>1, <2>2, <2>3, <3>1, <3>2
  <2>5. CASE Finish
    <3>1. event' = [event EXCEPT ![n] = "processed"] /\ counted' = counted
      BY <2>1, <2>5 DEF Finish
    <3> QED BY <1>1, <2>2, <3>1
  <2> QED BY <1>7, <2>4, <2>5
<1>8. ASSUME NEW t \in Threads, ClaimGrant(t) \/ ClaimWhole(t) PROVE EventInv'
  <2> DEFINE q == claim[t].sale
  <2>1. q \in Sales
    BY <1>8 DEF IInv, ClaimInv, ClaimGrant, ClaimWhole
  <2>2. event' = event /\ sent' = sent /\ counted' = counted \cup {<<q, "claim">>}
    BY <1>8 DEF ClaimGrant, ClaimWhole, Granted
  <2>3. payment'[q] # "none"
    <3>1. CASE ClaimGrant(t)
      BY <2>1, <3>1 DEF ClaimGrant, IInv, ClaimInv
    <3>2. CASE ClaimWhole(t)
      BY <2>1, <3>2 DEF ClaimWhole
    <3> QED BY <1>8, <3>1, <3>2
  <2>4. \A n \in Notes : n # <<q, "claim">>
    BY NoteShape DEF Kinds
  <2>5. \A s \in Sales : <<s, "claim">> \in counted' => payment'[s] # "none"
    BY <1>0, <2>1, <2>2, <2>3, Persistent DEF EventInv
  <2>6. \A n \in Notes : n \in counted' => event'[n] \notin Open
    BY <1>0, <2>2, <2>4 DEF EventInv
  <2> HIDE DEF q
  <2>7. counted' \subseteq Sales \X (Kinds \cup {"claim"})
    BY <1>0, <2>1, <2>2 DEF EventInv
  <2> QED BY <1>0, <2>2, <2>5, <2>6, <2>7 DEF EventInv
<1>9. ASSUME NEW t \in Threads, \/ \E s \in Sales, x \in Sessions :
                                        ClaimRead(t, s, x) \/ ClaimAdopt(t, s, x)
                                \/ ClaimPay(t) \/ ClaimMark(t)
      PROVE  EventInv'
  BY <1>2, <1>9 DEF ClaimRead, ClaimAdopt, ClaimPay, ClaimMark
<1>10. CASE \/ Crash \/ \E s \in Sales : Move(s)
            \/ Fetch \/ Reconcile \/ SyncFails \/ \E i \in issues : Resolve(i)
  BY <1>2, <1>10 DEF Crash, Move, Fetch, Reconcile, SyncFails, Resolve
<1> QED BY <1>3, <1>4, <1>5, <1>6, <1>7, <1>8, <1>9, <1>10, Steps DEF Aside

-------------------------------------------------------------------------------
(* How the entitlements change: one is activated, of a sale that was paid     *)
(* for, or one is ended.                                                      *)
LEMMA AccessChanges ==
    ASSUME IInv, Next, ent' # ent
    PROVE  \E s \in Sales :
              \/ /\ ent' = [ent EXCEPT ![s] = "active"] /\ remote[s] \in Settled
                 /\ \/ Grant /\ s = hook.note[1]
                    \/ \E t \in Threads : /\ ClaimGrant(t) \/ ClaimWhole(t)
                                          /\ s = claim[t].sale
              \/ \E n \in Notes : Revoke(n) /\ s = n[1]
<1> USE Types DEF world, orders, tasks, bounds
<1>1. ASSUME NEW n \in Notes PROVE ~(Register(n) \/ Record(n) \/ Approve(n))
  BY DEF Register, Record, Approve
<1>2. ~(Aside \/ Crash \/ \E s \in Sales : Move(s))
  BY AsideKeeps DEF Crash, Move
<1>3. ASSUME NEW t \in Threads
      PROVE  ~(\/ \E s \in Sales, x \in Sessions : ClaimRead(t, s, x) \/ ClaimAdopt(t, s, x)
               \/ ClaimPay(t) \/ ClaimMark(t))
  BY DEF ClaimRead, ClaimAdopt, ClaimPay, ClaimMark
<1>4. ASSUME Grant
      PROVE  /\ hook.note[1] \in Sales /\ remote[hook.note[1]] \in Settled
             /\ ent' = [ent EXCEPT ![hook.note[1]] = "active"]
  BY <1>4, HookNote DEF Grant, IInv, HookInv
<1>5. ASSUME NEW t \in Threads, ClaimGrant(t) \/ ClaimWhole(t)
      PROVE  /\ claim[t].sale \in Sales /\ remote[claim[t].sale] \in Settled
             /\ ent' = [ent EXCEPT ![claim[t].sale] = "active"]
  BY <1>5 DEF ClaimGrant, ClaimWhole, Granted, IInv, ClaimInv, RemoteInv
<1>6. ASSUME NEW n \in Notes, Revoke(n) PROVE n[1] \in Sales
  BY NoteShape
<1>7. \/ Grant
      \/ \E t \in Threads : ClaimGrant(t) \/ ClaimWhole(t)
      \/ \E n \in Notes : Revoke(n)
  BY <1>1, <1>2, <1>3, Steps
<1> QED BY <1>4, <1>5, <1>6, <1>7

(* Access stays paid for.                                                     *)
LEMMA AccessPaidStep == IInv /\ Next => AccessIsPaid'
<1> SUFFICES ASSUME IInv, Next, NEW s \in Sales, ent'[s] = "active" PROVE remote'[s] \in Settled
  BY DEF AccessIsPaid, Settled
<1>1. CASE ent[s] = "active"
  BY <1>1, Persistent DEF IInv, AccessIsPaid, Settled
<1>2. CASE ent[s] # "active"
  <2>1. ASSUME NEW n \in Notes PROVE ~Revoke(n)
    BY <1>2, Types DEF Revoke
  <2>2. PICK q \in Sales : ent' = [ent EXCEPT ![q] = "active"] /\ remote[q] \in Settled
    BY <1>2, <2>1, AccessChanges
  <2>3. q = s
    BY <1>2, <2>2, Types
  <2> QED BY <2>2, <2>3, Persistent
<1> QED BY <1>1, <1>2

(* The tiers stay granted.                                                    *)
LEMMA TierStep == IInv /\ Next => TierGranted'
<1> SUFFICES ASSUME IInv, Next PROVE TierGranted'
  OBVIOUS
<1> USE Types DEF world, orders, tasks, bounds
<1>0. /\ \A x \in Sessions : tier[x] = 0 \/ \E s \in Owned(x, ent) : tier[x] <= Rank[s]
      /\ \A s \in Sales : ent[s] = "active" => Owner(s) \in Sessions /\ Owner(s)' = Owner(s)
  <2>1. \A s \in Sales : ent[s] = "active" => Owner(s) # NoSession
    BY DEF IInv, OwnerInv
  <2> QED BY <2>1, Persistent DEF IInv, TierGranted, Owner, Order
<1>1. ASSUME NEW x \in Sessions, tier'[x] = tier[x],
             \A s \in Sales : ent[s] = "active" /\ Owner(s) = x => ent'[s] = "active"
      PROVE  tier'[x] = 0 \/ \E s \in Owned(x, ent)' : tier'[x] <= Rank[s]
  BY <1>0, <1>1 DEF Owned, Owner
<1>2. ASSUME tier' = tier, ent' = ent PROVE TierGranted'
  BY <1>1, <1>2 DEF TierGranted
<1>3. ASSUME NEW s \in Sales, NEW y \in Sessions, NEW from,
             ent' = [ent EXCEPT ![s] = "active"], tier' = Raised(y, s, from),
             order'[s].session = y
      PROVE  TierGranted'
  <2>1. s \in Owned(y, ent)'
    BY <1>3 DEF Owned
  <2>2. CASE tier' = tier
    BY <1>1, <1>3, <2>2 DEF TierGranted
  <2>3. CASE tier' = [tier EXCEPT ![y] = Rank[s]]
    <3>1. tier'[y] <= Rank[s]
      BY <2>3, SaleConstants
    <3>2. \A x \in Sessions \ {y} : tier'[x] = tier[x]
      BY <2>3
    <3> QED BY <1>1, <1>3, <2>1, <3>1, <3>2 DEF TierGranted
  <2> QED BY <1>3, <2>2, <2>3 DEF Raised
<1>4. CASE Grant
  <2>1. PICK s \in Sales : s = hook.note[1] /\ Owner(s) \in Sessions
    BY <1>4, HookNote DEF Grant
  <2>2. order'[s].session = Owner(s)
    BY <2>1, Persistent, SaleConstants DEF Owner
  <2>3. ent' = [ent EXCEPT ![s] = "active"] /\ tier' = Raised(Owner(s), s, tier[Owner(s)])
    BY <1>4, <2>1 DEF Grant, Owner
  <2> QED BY <1>3, <2>1, <2>2, <2>3
<1>5. ASSUME NEW t \in Threads, ClaimGrant(t) \/ ClaimWhole(t) PROVE TierGranted'
  <2>1. claim[t].sale \in Sales /\ claim[t].session \in Sessions
    BY <1>5 DEF IInv, ClaimInv, ClaimGrant, ClaimWhole
  <2>2. order'[claim[t].sale].session = claim[t].session
    <3>1. CASE ClaimGrant(t)
      BY <2>1, <3>1 DEF ClaimGrant, IInv, ClaimInv, Owner
    <3>2. CASE ClaimWhole(t)
      BY <2>1, <3>2 DEF ClaimWhole
    <3> QED BY <1>5, <3>1, <3>2
  <2>3. /\ ent' = [ent EXCEPT ![claim[t].sale] = "active"]
        /\ \E from : tier' = Raised(claim[t].session, claim[t].sale, from)
    BY <1>5 DEF ClaimGrant, ClaimWhole, Granted
  <2> QED BY <1>3, <2>1, <2>2, <2>3
<1>6. ASSUME NEW n \in Notes, Revoke(n) PROVE TierGranted'
  <2>1. PICK s \in Sales, y \in Sessions : s = n[1] /\ y = order[s].session
    BY <1>6, NoteShape, ResolvedOwner DEF Revoke, Owner
  <2>2. PICK r \in Recomputed(y, ent') : tier' = [tier EXCEPT ![y] = r]
    BY <1>6, <2>1 DEF Revoke
  <2>3. \A q \in Sales : order'[q].session = order[q].session
    BY <1>6, <2>1 DEF Revoke, Order
  <2>4. \A q \in Sales \ {s} : ent'[q] = ent[q]
    BY <1>6, <2>1 DEF Revoke
  <2>5. ASSUME NEW x \in Sessions, x # y
        PROVE  tier'[x] = 0 \/ \E q \in Owned(x, ent)' : tier'[x] <= Rank[q]
    BY <1>1, <2>1, <2>2, <2>4, <2>5 DEF Owner
  <2>6. r = 0 \/ \E q \in Sales : order[q].session = y /\ ent'[q] = "active" /\ r = Rank[q]
    BY <2>2 DEF Recomputed, Owned
  <2>7. tier'[y] = r
    BY <2>1, <2>2
  <2>8. tier'[y] = 0 \/ \E q \in Owned(y, ent)' : tier'[y] <= Rank[q]
    BY <2>3, <2>6, <2>7, SaleConstants DEF Owned
  <2> QED BY <2>5, <2>8 DEF TierGranted
<1>7. CASE Aside \/ Crash \/ \E s \in Sales : Move(s)
  BY <1>2, <1>7, AsideKeeps DEF Crash, Move
<1>8. ASSUME NEW n \in Notes, Register(n) \/ Record(n) \/ Approve(n) PROVE TierGranted'
  BY <1>2, <1>8 DEF Register, Record, Approve
<1>9. ASSUME NEW t \in Threads, \/ \E s \in Sales, x \in Sessions :
                                        ClaimRead(t, s, x) \/ ClaimAdopt(t, s, x)
                                \/ ClaimPay(t) \/ ClaimMark(t)
      PROVE  TierGranted'
  BY <1>2, <1>9 DEF ClaimRead, ClaimAdopt, ClaimPay, ClaimMark
<1> QED BY <1>4, <1>5, <1>6, <1>7, <1>8, <1>9, Steps

(* What a provider that confirms means for access.                            *)
LEMMA ConfirmStep == IInv /\ Next => ConfirmInv'
<1> SUFFICES ASSUME IInv, Next PROVE ConfirmInv'
  OBVIOUS
<1> USE Types DEF world, orders, tasks, bounds
<1> DEFINE A(s) == <<s, "approved">>
           R(s) == <<s, "refund">>
           Agrees(s) ==
              /\ A(s) \in Notes /\ event[A(s)] = "processed" /\ remote[s] = "paid"
                    => ent[s] = "active"
              /\ R(s) \in Notes /\ event[R(s)] = "processed"
                    => /\ ent[s] # "active"
                       /\ hook.stage # "idle" => hook.note[1] # s
<1>a. \A s \in Sales : Confirms(s) => Agrees(s)
  BY DEF IInv, ConfirmInv
<1>b. (\A s \in Sales : Confirms(s) => Agrees(s)') => ConfirmInv'
  BY DEF ConfirmInv, Confirms
<1>c. ASSUME NEW s \in Sales
      PROVE  /\ A(s) \in Notes /\ event[A(s)] = "processed" => remote[s] \in Settled
             /\ R(s) \in Notes /\ event[R(s)] = "processed" => remote[s] = "refunded"
  BY DEF IInv, EventInv, RemoteInv, Grants
<1>1. ASSUME NEW s \in Sales, Confirms(s), ent'[s] = ent[s], remote'[s] = remote[s],
             \A n \in Notes : n[1] = s /\ event'[n] = "processed" => event[n] = "processed",
             hook' = hook \/ hook' = NoHook
      PROVE  Agrees(s)'
  <2>1. hook'.stage # "idle" => hook' = hook
    BY <1>1 DEF NoHook
  <2>2. /\ A(s) \in Notes /\ event'[A(s)] = "processed" => event[A(s)] = "processed"
        /\ R(s) \in Notes /\ event'[R(s)] = "processed" => event[R(s)] = "processed"
    BY <1>1
  <2> QED BY <1>a, <1>1, <2>1, <2>2
<1>2. ASSUME NEW n \in Notes, \/ Reject(n) \/ LookupFails(n) \/ Unresolved(n) \/ Register(n)
                              \/ Conflict(n) \/ Replay(n)
      PROVE  ConfirmInv'
  <2>1. /\ UNCHANGED <<ent, remote, hook>>
        /\ \A m \in Notes : event'[m] = "processed" => event[m] = "processed"
    BY <1>2 DEF Reject, LookupFails, Unresolved, Register, Conflict, Replay, Marked
  <2> QED BY <1>b, <1>1, <2>1
<1>3. ASSUME NEW q \in Sales, Move(q), NEW s \in Sales, Confirms(s) PROVE Agrees(s)'
  <2>1. UNCHANGED <<ent, event, hook>>
    BY <1>3 DEF Move
  <2>2. CASE s # q
    BY <1>1, <1>3, <2>1, <2>2 DEF Move
  <2>3. CASE s = q
    <3>1. remote'[s] = "paid" /\ remote[s] \in Settled => remote[s] = "paid"
      BY <1>3, <2>3 DEF Move, Moves, Settled
    <3> QED BY <1>a, <1>c, <1>3, <2>1, <3>1
  <2> QED BY <2>2, <2>3
<1>4. ASSUME NEW n \in Notes, Record(n), NEW s \in Sales, Confirms(s) PROVE Agrees(s)'
  <2>1. /\ UNCHANGED <<ent, remote, hook>> /\ n \in sent
        /\ event' = [event EXCEPT ![n] = "processed"] /\ Verdict(n) \in {"record", "decline"}
    BY <1>4 DEF Record, Genuine
  <2>2. CASE s # n[1]
    BY <1>1, <1>4, <2>1, <2>2
  <2>3. CASE s = n[1]
    <3>1. remote[s] \notin Settled
      BY <1>4, <2>1, <2>3 DEF Verdict, Settled
    <3>2. A(s) \notin sent /\ R(s) \notin sent
      BY <3>1 DEF IInv, RemoteInv, Grants, Settled
    <3>3. /\ A(s) \in Notes => event'[A(s)] = event[A(s)]
          /\ R(s) \in Notes => event'[R(s)] = event[R(s)]
      BY <2>1, <3>2
    <3> QED BY <1>a, <1>4, <2>1, <3>3
  <2> QED BY <2>2, <2>3
<1>5. ASSUME NEW n \in Notes, Approve(n), NEW s \in Sales, Confirms(s) PROVE Agrees(s)'
  <2>1. /\ UNCHANGED <<ent, remote>> /\ hook' = [note |-> n, stage |-> "paid"]
        /\ event' = [event EXCEPT ![n] = "received"] /\ Verdict(n) = "approve"
    BY <1>5 DEF Approve, Genuine
  <2>2. \A m \in Notes : event'[m] = "processed" => event[m] = "processed"
    BY <2>1
  <2>3. s = n[1] => remote[s] = "paid"
    BY <1>5, <2>1 DEF Verdict
  <2>4. hook'.note[1] = n[1]
    BY <2>1
  <2> QED BY <1>a, <1>c, <1>5, <2>1, <2>2, <2>3, <2>4
<1>6. CASE Grant
  <2>1. PICK n \in Notes, q \in Sales : n = hook.note /\ q = n[1]
    BY <1>6, HookNote DEF Grant
  <2>2. /\ remote' = remote /\ hook'.note = n /\ hook'.stage = "granted"
        /\ ent' = [ent EXCEPT ![q] = "active"]
        /\ event' = IF Hotmart(q) THEN [event EXCEPT ![n] = "processed"] ELSE event
    BY <1>6, <2>1 DEF Grant, Hook
  <2>3. ASSUME NEW s \in Sales, Confirms(s) PROVE Agrees(s)'
    <3>1. CASE s # q
      <4>1. /\ A(s) \in Notes => event'[A(s)] = event[A(s)]
            /\ R(s) \in Notes => event'[R(s)] = event[R(s)]
        BY <2>1, <2>2, <3>1
      <4> QED BY <1>a, <2>1, <2>2, <2>3, <3>1, <4>1
    <3>2. CASE s = q
      <4>1. event' = event /\ ent'[s] = "active"
        BY <2>2, <2>3, <3>2 DEF Hotmart, Confirms, Confirming
      <4>2. hook.stage # "idle" /\ hook.note[1] = s
        BY <1>6, <2>1, <3>2 DEF Grant
      <4>3. R(s) \in Notes => event[R(s)] # "processed"
        BY <1>a, <2>3, <4>2
      <4> QED BY <4>1, <4>3
    <3> QED BY <3>1, <3>2
  <2> QED BY <1>b, <2>3
<1>7. CASE Finish
  <2>1. PICK n \in Notes, q \in Sales : n = hook.note /\ q = n[1] /\ ent[q] = "active" /\ n[2] # "refund"
    BY <1>7, HookNote DEF Finish, IInv, HookInv
  <2>2. /\ UNCHANGED <<remote, ent>> /\ hook' = NoHook
        /\ event' = [event EXCEPT ![n] = "processed"]
    BY <1>7, <2>1 DEF Finish
  <2>3. ASSUME NEW s \in Sales, Confirms(s) PROVE Agrees(s)'
    <3>1. CASE s # q
      BY <1>1, <2>1, <2>2, <2>3, <3>1
    <3>2. CASE s = q
      <4>1. R(s) # n
        BY <2>1
      <4>2. R(s) \in Notes => event'[R(s)] = event[R(s)]
        BY <2>2, <4>1
      <4> QED BY <1>a, <2>1, <2>2, <2>3, <3>2, <4>2 DEF NoHook
    <3> QED BY <3>1, <3>2
  <2> QED BY <1>b, <2>3
<1>8. ASSUME NEW n \in Notes, Revoke(n), NEW s \in Sales, Confirms(s) PROVE Agrees(s)'
  <2>1. PICK q \in Sales : q = n[1]
    BY NoteShape
  <2>2. /\ UNCHANGED <<remote, hook>> /\ hook = NoHook
        /\ event' = [event EXCEPT ![n] = "processed"]
        /\ Verdict(n) \in {"revoke", "cancel"}
        /\ \A p \in Sales \ {q} : ent'[p] = ent[p]
        /\ ent'[q] # "active"
    BY <1>8, <2>1 DEF Revoke, Genuine, Free
  <2>3. CASE s # q
    BY <1>1, <1>8, <2>1, <2>2, <2>3
  <2>4. CASE s = q
    <3>1. remote[s] = "refunded"
      BY <1>8, <2>1, <2>2, <2>4 DEF Verdict, Hotmart, Confirms, Confirming
    <3> QED BY <2>2, <2>4, <3>1 DEF NoHook
  <2> QED BY <2>3, <2>4
<1>9. ASSUME NEW t \in Threads, ClaimGrant(t) \/ ClaimWhole(t),
             NEW s \in Sales, Confirms(s)
      PROVE  Agrees(s)'
  <2>1. /\ UNCHANGED <<remote, hook, event>>
        /\ ent' = [ent EXCEPT ![claim[t].sale] = "active"]
    BY <1>9 DEF ClaimGrant, ClaimWhole, Granted
  <2>2. claim[t].sale \in Sales /\ pending[claim[t].sale].status # "none"
    BY <1>9 DEF ClaimGrant, ClaimWhole, IInv, ClaimInv
  <2>3. Checkout[claim[t].sale] = NoSession
    BY <2>2 DEF IInv, OwnerInv
  <2>4. claim[t].sale # s
    BY <1>9, <2>2, <2>3, SaleConstants DEF Confirms, Confirming
  <2> QED BY <1>1, <1>9, <2>1, <2>4
<1>10. ASSUME NEW t \in Threads, \/ \E s \in Sales, x \in Sessions :
                                        ClaimRead(t, s, x) \/ ClaimAdopt(t, s, x)
                                 \/ ClaimPay(t) \/ ClaimMark(t)
       PROVE  ConfirmInv'
  <2>1. UNCHANGED <<ent, remote, event, hook>>
    BY <1>10 DEF ClaimRead, ClaimAdopt, ClaimPay, ClaimMark
  <2> QED BY <1>b, <1>1, <2>1
<1>11. CASE Crash \/ Fetch \/ Reconcile \/ SyncFails \/ \E i \in issues : Resolve(i)
  <2>1. UNCHANGED <<ent, remote, event>> /\ (hook' = hook \/ hook' = NoHook)
    BY <1>11 DEF Crash, Fetch, Reconcile, SyncFails, Resolve
  <2> QED BY <1>b, <1>1, <2>1
<1> HIDE DEF Agrees
<1> QED BY <1>b, <1>2, <1>3, <1>4, <1>5, <1>6, <1>7, <1>8, <1>9, <1>10, <1>11, Steps DEF Aside

-------------------------------------------------------------------------------
(* The inductive invariant.                                                   *)
LEMMA InitIInv == Init => IInv
<1> SUFFICES ASSUME Init PROVE IInv
  OBVIOUS
<1> USE SaleConstants DEF Init
<1>1. SaleTypeOK
  <2>1. order \in [Sales -> Order] /\ pending \in [Sales -> Pending]
    BY DEF Order, Pending
  <2>2. hook \in Hook /\ claim \in [Threads -> Claim]
    BY DEF NoHook, Hook, NoClaim, Claim
  <2> QED BY <2>1, <2>2 DEF SaleTypeOK, RemoteStates, EventStates, PaymentStates, EntStates
<1>2. OwnerInv
  BY DEF OwnerInv, Owner
<1>3. RemoteInv /\ HookInv /\ ClaimInv /\ EventInv
  BY DEF RemoteInv, HookInv, ClaimInv, EventInv, NoHook, NoClaim, Settled
<1>4. AccessIsPaid /\ TierGranted /\ ConfirmInv
  BY DEF AccessIsPaid, TierGranted, ConfirmInv
<1> QED BY <1>1, <1>2, <1>3, <1>4 DEF IInv

(* Every step keeps it.                                                       *)
LEMMA StepIInv == IInv /\ [Next]_vars => IInv'
<1>1. IInv /\ Next => IInv'
  <2> SUFFICES ASSUME IInv, Next PROVE IInv'
    OBVIOUS
  <2>1. SaleTypeOK' /\ OwnerInv' /\ RemoteInv'
    BY TypeStep, OwnerStep, RemoteStep
  <2>2. HookInv' /\ ClaimInv' /\ EventInv'
    BY HookStep, ClaimStep, EventStep
  <2>3. AccessIsPaid' /\ TierGranted' /\ ConfirmInv'
    BY AccessPaidStep, TierStep, ConfirmStep
  <2> QED BY <2>1, <2>2, <2>3 DEF IInv
<1>2. IInv /\ UNCHANGED vars => IInv'
  <2> SUFFICES ASSUME IInv, UNCHANGED vars PROVE IInv'
    OBVIOUS
  <2> USE DEF vars, world, orders, tasks, bounds
  <2>1. SaleTypeOK' /\ OwnerInv' /\ RemoteInv'
    BY DEF IInv, SaleTypeOK, OwnerInv, RemoteInv, Owner
  <2>2. HookInv' /\ ClaimInv' /\ EventInv'
    BY DEF IInv, HookInv, ClaimInv, EventInv, Owner, Confirms
  <2>3. AccessIsPaid' /\ TierGranted' /\ ConfirmInv'
    BY DEF IInv, AccessIsPaid, TierGranted, ConfirmInv, Owned, Confirms
  <2> QED BY <2>1, <2>2, <2>3 DEF IInv
<1> QED BY <1>1, <1>2

(* The invariant of every behaviour.                                          *)
LEMMA InductiveInvariant == Spec => []IInv
BY InitIInv, StepIInv, PTL DEF Spec

-------------------------------------------------------------------------------
(* Every sale, order, payment, entitlement, claim and notification in hand is *)
(* well formed.                                                               *)
THEOREM SaleTypeInvariant == Spec => []SaleTypeOK
<1>1. IInv => SaleTypeOK
  BY DEF IInv
<1> QED BY InductiveInvariant, <1>1, PTL

(* A sale belongs to the session of its order: a claim is recorded for that   *)
(* session, and nothing is paid or active without one, however many claims of *)
(* it run in threads, are cut off or repeated.                                *)
THEOREM OneOwnerInvariant == Spec => []OneOwner
<1>1. IInv => OneOwner
  BY DEF IInv, OwnerInv, OneOwner, Owner
<1> QED BY InductiveInvariant, <1>1, PTL

(* No session has a tier that none of its active entitlements grants, however *)
(* fulfilments, revocations and claims interleave.                            *)
THEOREM TierGrantedInvariant == Spec => []TierGranted
<1>1. IInv => TierGranted
  BY DEF IInv
<1> QED BY InductiveInvariant, <1>1, PTL

(* Access is active only for a sale the provider was paid for, whatever is    *)
(* forged, repeated, reordered, replayed or retried.                          *)
THEOREM AccessIsPaidInvariant == Spec => []AccessIsPaid
<1>1. IInv => AccessIsPaid
  BY DEF IInv
<1> QED BY InductiveInvariant, <1>1, PTL

(* Once every notification of a sale was processed, the access to it is what  *)
(* a provider that confirms says.                                             *)
THEOREM ConfirmedAgreesInvariant == Spec => []ConfirmedAgrees
<1>1. ASSUME IInv, NEW s \in Sales, Confirms(s),
             \A n \in sent : n[1] = s => event[n] = "processed"
      PROVE  ent[s] = "active" <=> remote[s] = "paid"
  <2>1. CASE remote[s] = "paid"
    <3>1. <<s, "approved">> \in sent /\ <<s, "approved">> \in Notes
      BY <1>1, <2>1, Types DEF IInv, RemoteInv, Settled
    <3>2. event[<<s, "approved">>] = "processed"
      BY <1>1, <3>1
    <3> QED BY <1>1, <2>1, <3>1, <3>2 DEF IInv, ConfirmInv
  <2>2. CASE remote[s] = "refunded"
    <3>1. <<s, "refund">> \in sent /\ <<s, "refund">> \in Notes
      BY <1>1, <2>2, Types DEF IInv, RemoteInv
    <3>2. event[<<s, "refund">>] = "processed"
      BY <1>1, <3>1
    <3> QED BY <1>1, <2>2, <3>1, <3>2 DEF IInv, ConfirmInv
  <2>3. CASE remote[s] \notin {"paid", "refunded"}
    BY <1>1, <2>3 DEF IInv, AccessIsPaid
  <2> QED BY <2>1, <2>2, <2>3
<1>2. IInv => ConfirmedAgrees
  BY <1>1 DEF ConfirmedAgrees
<1> QED BY InductiveInvariant, <1>2, PTL

(* What is paid and not granted is in the hands of a running handler.         *)
LEMMA LostStep ==
    ASSUME IInv, Next, OnlyRestartsLoseAccess
    PROVE  OnlyRestartsLoseAccess'
<1> DEFINE InHand(s) == \/ hook.stage = "paid" /\ hook.note[1] = s
                        \/ \E t \in Threads : claim[t].stage = "paid" /\ claim[t].sale = s
<1> SUFFICES ASSUME NEW s \in Sales, crashes' = 0, payment'[s] = "succeeded", ent'[s] = "none"
             PROVE  InHand(s)'
  BY DEF OnlyRestartsLoseAccess
<1> USE Types DEF world, orders, tasks, bounds
<1>0. ASSUME crashes' = crashes, payment'[s] = payment[s], ent'[s] = ent[s]
      PROVE  InHand(s)
  BY <1>0 DEF OnlyRestartsLoseAccess
<1>1. CASE Aside
  <2>1. UNCHANGED <<crashes, payment, ent, claim>>
    BY <1>1, AsideKeeps DEF Aside, Reject, LookupFails, Unresolved, Conflict, Replay, Marked,
       Finish, Fetch, Reconcile, SyncFails, Resolve
  <2>2. hook' = hook \/ hook.stage = "granted"
    BY <1>1 DEF Aside, Reject, LookupFails, Unresolved, Conflict, Replay, Marked,
       Finish, Fetch, Reconcile, SyncFails, Resolve
  <2>3. InHand(s)
    BY <1>0, <2>1
  <2> QED BY <2>1, <2>2, <2>3
<1>2. CASE Crash
  <2>1. crashes \in Nat /\ crashes' = crashes + 1
    BY <1>2, SaleConstants DEF Crash, IInv, SaleTypeOK
  <2> QED BY <2>1
<1>3. ASSUME NEW q \in Sales, Move(q) PROVE InHand(s)'
  BY <1>0, <1>3 DEF Move
<1>4. ASSUME NEW n \in Notes, Register(n) \/ Record(n) PROVE InHand(s)'
  BY <1>0, <1>4 DEF Register, Record
<1>5. ASSUME NEW n \in Notes, Approve(n) PROVE InHand(s)'
  <2>1. CASE n[1] = s
    BY <1>5, <2>1 DEF Approve
  <2>2. CASE n[1] # s
    <3>1. InHand(s) /\ hook = NoHook
      BY <1>0, <1>5, <2>2 DEF Approve, Genuine, Free
    <3> QED BY <1>5, <3>1 DEF Approve, NoHook
  <2> QED BY <2>1, <2>2
<1>6. ASSUME NEW n \in Notes, Revoke(n) PROVE InHand(s)'
  <2>1. n[1] # s
    BY <1>6, NoteShape DEF Revoke
  <2> QED BY <1>0, <1>6, <2>1 DEF Revoke
<1>7. CASE Grant
  <2>1. hook.note[1] \in Sales /\ hook.note[1] # s
    BY <1>7, HookNote DEF Grant
  <2> QED BY <1>0, <1>7, <2>1 DEF Grant
<1>8. ASSUME NEW t \in Threads, NEW q \in Sales, NEW x \in Sessions,
             ClaimRead(t, q, x) \/ ClaimAdopt(t, q, x)
      PROVE  InHand(s)'
  <2>1. InHand(s) /\ claim[t].stage = "idle"
    BY <1>0, <1>8 DEF ClaimRead, ClaimAdopt, NoClaim
  <2>2. hook' = hook /\ \A u \in Threads \ {t} : claim'[u] = claim[u]
    BY <1>8 DEF ClaimRead, ClaimAdopt
  <2> QED BY <2>1, <2>2
<1>9. ASSUME NEW t \in Threads, ClaimPay(t) PROVE InHand(s)'
  <2>1. CASE Unpaid(claim[t].sale) /\ claim[t].sale = s
    <3>1. claim'[t].stage = "paid" /\ claim'[t].sale = s
      BY <1>9, <2>1 DEF ClaimPay, Claim
    <3> QED BY <3>1
  <2>2. CASE ~(Unpaid(claim[t].sale) /\ claim[t].sale = s)
    <3>1. InHand(s)
      BY <1>0, <1>9, <2>2 DEF ClaimPay
    <3>2. hook' = hook /\ claim[t].stage = "read" /\ \A u \in Threads \ {t} : claim'[u] = claim[u]
      BY <1>9 DEF ClaimPay
    <3> QED BY <3>1, <3>2
  <2> QED BY <2>1, <2>2
<1>10. ASSUME NEW t \in Threads, ClaimGrant(t) \/ ClaimWhole(t) PROVE InHand(s)'
  <2>1. claim[t].sale \in Sales /\ claim[t].sale # s
    BY <1>10 DEF ClaimGrant, ClaimWhole, Granted, IInv, ClaimInv
  <2>2. InHand(s)
    BY <1>0, <1>10, <2>1 DEF ClaimGrant, ClaimWhole, Granted
  <2>3. hook' = hook /\ \A u \in Threads \ {t} : claim'[u] = claim[u]
    BY <1>10 DEF ClaimGrant, ClaimWhole, Granted
  <2> QED BY <2>1, <2>2, <2>3
<1>11. ASSUME NEW t \in Threads, ClaimMark(t) PROVE InHand(s)'
  <2>1. InHand(s) /\ claim[t].stage = "granted"
    BY <1>0, <1>11 DEF ClaimMark
  <2>2. hook' = hook /\ \A u \in Threads \ {t} : claim'[u] = claim[u]
    BY <1>11 DEF ClaimMark
  <2> QED BY <2>1, <2>2
<1> QED BY <1>1, <1>2, <1>3, <1>4, <1>5, <1>6, <1>7, <1>8, <1>9, <1>10, <1>11, Steps

(* While the process runs, a paid sale lacks its entitlement only as long as  *)
(* the handler that fulfils it, or the claim of it, is between its commits:   *)
(* no failed lookup, duplicate, revocation or losing claim leaves one behind. *)
THEOREM OnlyRestartsLoseAccessInvariant == Spec => []OnlyRestartsLoseAccess
<1>1. Init => OnlyRestartsLoseAccess
  BY DEF Init, OnlyRestartsLoseAccess
<1>2. IInv /\ OnlyRestartsLoseAccess /\ [Next]_vars => OnlyRestartsLoseAccess'
  <2>1. ASSUME OnlyRestartsLoseAccess, UNCHANGED vars PROVE OnlyRestartsLoseAccess'
    BY <2>1 DEF vars, orders, tasks, bounds, OnlyRestartsLoseAccess
  <2> QED BY <2>1, LostStep
<1> QED BY InductiveInvariant, <1>1, <1>2, PTL DEF Spec

(* A decline reported late takes nothing from an order that was paid since:   *)
(* apart from Hotmart's, only a refund at the provider ends a paid order.     *)
THEOREM PaidStaysPaidHolds == Spec => PaidStaysPaid
<1> DEFINE Kept(s) ==
      ~Hotmart(s) /\ order[s].status = "paid" =>
         /\ order'[s].status \in {"paid", "refunded"}
         /\ order'[s].status = "refunded" => remote[s] = "refunded"
<1>1. ASSUME IInv, Next, NEW s \in Sales, ~Hotmart(s), order[s].status = "paid"
      PROVE  /\ order'[s].status \in {"paid", "refunded"}
             /\ order'[s].status = "refunded" => remote[s] = "refunded"
  <2> USE Types DEF world, orders, tasks, bounds
  <2>1. CASE Aside \/ Crash \/ \E q \in Sales : Move(q)
    BY <1>1, <2>1, AsideKeeps DEF Crash, Move
  <2>2. ASSUME NEW n \in Notes, Register(n) \/ Approve(n) \/ Record(n) PROVE order'[s].status = "paid"
    BY <1>1, <2>2 DEF Register, Approve, Record, Order
  <2>3. CASE Grant
    BY <1>1, <2>3 DEF Grant, Order
  <2>4. ASSUME NEW n \in Notes, Revoke(n)
        PROVE  /\ order'[s].status \in {"paid", "refunded"}
               /\ order'[s].status = "refunded" => remote[s] = "refunded"
    <3>1. n \in sent /\ Verdict(n) \in {"revoke", "cancel"} /\ n = <<n[1], n[2]>> /\ n[1] \in Sales
      BY <2>4, NoteShape DEF Revoke, Genuine
    <3>2. CASE n[1] # s
      BY <1>1, <2>4, <3>2 DEF Revoke
    <3>3. CASE n[1] = s
      <4>1. Verdict(n) = "revoke" /\ (Confirms(s) => remote[s] = "refunded")
            /\ (~Confirms(s) => n[2] = "refund")
        BY <1>1, <3>1, <3>3 DEF Verdict, Grants
      <4>2. remote[s] = "refunded"
        BY <1>1, <3>1, <3>3, <4>1 DEF IInv, RemoteInv
      <4>3. order'[s].status = "refunded"
        BY <1>1, <2>4, <3>3, <4>1 DEF Revoke, Order
      <4> QED BY <4>2, <4>3
    <3> QED BY <3>2, <3>3
  <2>5. ASSUME NEW t \in Threads, ClaimPay(t) \/ ClaimWhole(t) PROVE order'[s].status = "paid"
    <3>1. CASE Unpaid(claim[t].sale)
      <4>1. claim[t].sale \in Sales /\ Owner(claim[t].sale) = NoSession
        BY <1>1, <2>5, <3>1, UnpaidUnowned DEF ClaimPay, ClaimWhole
      <4>2. claim[t].sale # s
        BY <1>1, <4>1 DEF IInv, OwnerInv
      <4> QED BY <1>1, <2>5, <4>2 DEF ClaimPay, ClaimWhole
    <3>2. CASE ~Unpaid(claim[t].sale)
      BY <1>1, <2>5, <3>2 DEF ClaimPay, ClaimWhole
    <3> QED BY <3>1, <3>2
  <2>6. ASSUME NEW t \in Threads, \/ \E q \in Sales, x \in Sessions :
                                        ClaimRead(t, q, x) \/ ClaimAdopt(t, q, x)
                                  \/ ClaimGrant(t) \/ ClaimMark(t)
        PROVE  order'[s].status = "paid"
    BY <1>1, <2>6 DEF ClaimRead, ClaimAdopt, ClaimGrant, ClaimMark
  <2> QED BY <1>1, <2>1, <2>2, <2>3, <2>4, <2>5, <2>6, Steps
<1>2. IInv /\ Next => \A s \in Sales : Kept(s)
  BY <1>1
<1>3. UNCHANGED vars => \A s \in Sales : Kept(s)
  BY DEF vars, orders
<1>4. IInv /\ [Next]_vars => [\A s \in Sales : Kept(s)]_vars
  BY <1>2, <1>3
<1>5. Spec => [][\A s \in Sales : Kept(s)]_vars
  BY InductiveInvariant, <1>4, PTL DEF Spec
<1> QED BY <1>5 DEF PaidStaysPaid

(* The handlers, with their commits half way, duplicates, retries and         *)
(* crashes, implement the contract of a sale: its access changes once per     *)
(* cause and its owner never.                                                 *)
THEOREM SalesImplementContract == Spec => ImplementsSaleContract
<1> DEFINE owner == [s \in Sales |-> order[s].session]
<1>1. Init => Promise!Init
  <2> SUFFICES ASSUME Init PROVE Promise!Init
    OBVIOUS
  <2>1. owner \in [Sales -> Sessions \cup {NoSession}]
    BY SaleConstants DEF Init
  <2> QED BY <2>1 DEF Init, Promise!Init
<1>2. ASSUME IInv, NEW s \in Sales, NEW x \in Sessions, NEW cause \in Kinds \cup {"claim"},
             Owner(s) \in {x, NoSession}, <<s, cause>> \notin counted,
             counted' = counted \cup {<<s, cause>>}, owner' = [owner EXCEPT ![s] = x],
             NEW new \in Promise!Allows(s, cause, ent[s]), ent' = [ent EXCEPT ![s] = new]
      PROVE  Promise!Next
  <2>1. cause \in Promise!Causes
    BY DEF Kinds, Promise!Causes
  <2>2. Promise!Count(s, x, cause)
    BY <1>2 DEF Promise!Count, Owner
  <2> QED BY <2>1, <2>2 DEF Promise!Next
<1>3. ASSUME IInv, Next PROVE Promise!Next \/ UNCHANGED Promise!vars
  <2> USE Types DEF world, orders, tasks, bounds
  <2>1. UNCHANGED <<order, ent, counted>> => UNCHANGED Promise!vars
    BY DEF Promise!vars
  <2>2. CASE Aside \/ Crash \/ \E q \in Sales : Move(q)
    BY <2>1, <2>2, AsideKeeps DEF Crash, Move
  <2>3. ASSUME NEW n \in Notes, Register(n) \/ Approve(n) PROVE UNCHANGED Promise!vars
    BY <2>1, <2>3 DEF Register, Approve
  <2>4. ASSUME NEW n \in Notes, Record(n) PROVE UNCHANGED Promise!vars
    <3>1. \A q \in Sales : order'[q].session = order[q].session
      BY <1>3, <2>4 DEF Record, Order
    <3> QED BY <2>4, <3>1 DEF Record, Promise!vars
  <2>5. CASE Grant
    <3>1. PICK s \in Sales, x \in Sessions, k \in Kinds :
             hook.note = <<s, k>> /\ hook.note[1] = s /\ Owner(s) = x /\ hook.note \in Notes
      BY <1>3, <2>5, HookNote, NoteShape DEF Grant
    <3>2. <<s, k>> \notin counted /\ (Confirms(s) \/ k \in Grants)
      BY <1>3, <2>5, <3>1 DEF Grant, IInv, HookInv
    <3>3. /\ counted' = counted \cup {<<s, k>>} /\ ent' = [ent EXCEPT ![s] = "active"]
          /\ order' = [order EXCEPT ![s].status = "paid"]
      BY <2>5, <3>1 DEF Grant
    <3>4. owner' = [owner EXCEPT ![s] = x]
      BY <1>3, <3>1, <3>3 DEF Order, Owner
    <3>5. "active" \in Promise!Allows(s, k, ent[s])
      BY <3>2 DEF Promise!Allows, Grants
    <3> QED BY <1>2, <1>3, <3>1, <3>2, <3>3, <3>4, <3>5
  <2>6. ASSUME NEW n \in Notes, Revoke(n) PROVE Promise!Next
    <3>1. PICK s \in Sales, x \in Sessions, k \in Kinds :
             n = <<s, k>> /\ Owner(s) = x /\ n[1] = s /\ n[2] = k
      BY <1>3, <2>6, NoteShape, ResolvedOwner DEF Revoke
    <3>2. n \notin counted
      BY <1>3, <2>6 DEF Revoke, Genuine, Fresh, IInv, EventInv, Open
    <3> DEFINE new == IF ent[s] = "none" THEN "none"
                      ELSE IF Verdict(n) = "revoke" THEN "refunded" ELSE "revoked"
    <3>3. /\ counted' = counted \cup {n}
          /\ \A q \in Sales : order'[q].session = order[q].session
      BY <1>3, <2>6, <3>1 DEF Revoke, Order
    <3>4. ent' = [ent EXCEPT ![s] = new]
      <4>1. ent' = [ent EXCEPT ![n[1]] = IF @ = "none" THEN @
                      ELSE IF Verdict(n) = "revoke" THEN "refunded" ELSE "revoked"]
        BY <2>6 DEF Revoke
      <4> QED BY <1>3, <3>1, <4>1
    <3>5. owner' = [owner EXCEPT ![s] = x]
      BY <3>1, <3>3 DEF Owner
    <3>6. Confirms(s) \/ k \in {"declined", "refund"}
      BY <2>6, <3>1 DEF Revoke, Verdict
    <3>7. new \in Promise!Allows(s, k, ent[s])
      BY <3>6 DEF Promise!Allows
    <3> HIDE DEF new
    <3> QED BY <1>2, <1>3, <3>1, <3>2, <3>3, <3>5, <3>7, <3>4
  <2>7. ASSUME NEW t \in Threads, ClaimPay(t) PROVE Promise!Next \/ UNCHANGED Promise!vars
    <3>0. PICK s, x : s = claim[t].sale /\ x = claim[t].session
      OBVIOUS
    <3>1. CASE Unpaid(s)
      <4>1. s \in Sales /\ x \in Sessions /\ Owner(s) = NoSession
        BY <1>3, <2>7, <3>0, <3>1, UnpaidUnowned DEF ClaimPay
      <4>2. /\ UNCHANGED <<ent, counted>>
            /\ order' = [order EXCEPT ![s] = [session |-> x, status |-> "paid"]]
        BY <2>7, <3>0, <3>1 DEF ClaimPay
      <4>3. owner' = [owner EXCEPT ![s] = x]
        BY <1>3, <4>1, <4>2
      <4>4. Promise!Own(s, x)
        BY <4>1, <4>2, <4>3 DEF Promise!Own, Owner
      <4> QED BY <4>1, <4>4 DEF Promise!Next
    <3>2. CASE ~Unpaid(s)
      BY <2>1, <2>7, <3>0, <3>2 DEF ClaimPay
    <3> QED BY <3>1, <3>2
  <2>8. ASSUME NEW t \in Threads, ClaimGrant(t) \/ ClaimWhole(t) PROVE Promise!Next
    <3>1. PICK s, x : s = claim[t].sale /\ x = claim[t].session
      OBVIOUS
    <3>2. s \in Sales /\ x \in Sessions
      BY <1>3, <2>8, <3>1 DEF ClaimGrant, ClaimWhole, IInv, ClaimInv
    <3>3. /\ Owner(s) \in {x, NoSession} /\ <<s, "claim">> \notin counted
          /\ owner' = [owner EXCEPT ![s] = x]
      <4>1. CASE ClaimGrant(t)
        BY <1>3, <3>1, <3>2, <4>1 DEF ClaimGrant, IInv, ClaimInv, Owner
      <4>2. CASE ClaimWhole(t)
        <5>1. Owner(s) = NoSession /\ <<s, "claim">> \notin counted
          BY <1>3, <3>1, <3>2, <4>2, UnpaidUnowned DEF ClaimWhole, IInv, EventInv, Unpaid
        <5>2. order' = [order EXCEPT ![s] = [session |-> x, status |-> "paid"]]
          BY <3>1, <4>2 DEF ClaimWhole
        <5> QED BY <1>3, <3>2, <5>1, <5>2
      <4> QED BY <2>8, <4>1, <4>2
    <3>4. counted' = counted \cup {<<s, "claim">>} /\ ent' = [ent EXCEPT ![s] = "active"]
      BY <2>8, <3>1 DEF ClaimGrant, ClaimWhole, Granted
    <3>5. "active" \in Promise!Allows(s, "claim", ent[s])
      BY DEF Promise!Allows
    <3> QED BY <1>2, <1>3, <3>2, <3>3, <3>4, <3>5
  <2>9. ASSUME NEW t \in Threads, \/ \E q \in Sales, y \in Sessions :
                                        ClaimRead(t, q, y) \/ ClaimAdopt(t, q, y)
                                  \/ ClaimMark(t)
        PROVE  UNCHANGED Promise!vars
    BY <2>1, <2>9 DEF ClaimRead, ClaimAdopt, ClaimMark
  <2> QED BY <1>3, <2>2, <2>3, <2>4, <2>5, <2>6, <2>7, <2>8, <2>9, Steps
<1>4. IInv /\ [Next]_vars => [Promise!Next]_Promise!vars
  <2>1. UNCHANGED vars => UNCHANGED Promise!vars
    BY DEF vars, orders, Promise!vars
  <2> QED BY <1>3, <2>1
<1>5. Spec => Promise!Spec
  BY <1>1, <1>4, InductiveInvariant, PTL DEF Spec, Promise!Spec
<1> QED BY <1>5 DEF ImplementsSaleContract

===============================================================================
