--------------------------- MODULE AccessDecisions ---------------------------
(* What the commercial core promises about access requests, with neither    *)
(* handlers nor transactions: a request is opened once and decided once,    *)
(* and the decision books at most one unit of one balance bucket.  The one  *)
(* exception are the requests taken up when their session turned out to be  *)
(* authorized: they end approved, even over another decision, and keep what *)
(* that booked.                                                             *)
EXTENDS Integers, FiniteSets

CONSTANTS Requests, Products, Buckets, None

VARIABLES
    status,    \* [Requests -> the statuses of CommercialAccessRequestStatus]
    product,   \* [Requests -> Products]: what is asked for
    mode,      \* [Requests -> how it was approved, "none" before]
    booked,    \* [Requests -> SUBSET Buckets]: what it was charged
    spent,     \* [Products -> [Buckets -> Nat]]: units taken
    closing    \* SUBSET Requests: taken up for an authorized session

vars == <<status, product, mode, booked, spent, closing>>

(* The modes that take a unit; an override does only when there is one.     *)
Charging  == {"balance", "override"}
Unfunded  == {"override", "courtesy", "manual", "debt", "payment"}
Dismissed == {"rejected", "canceled"}

Waiting == {r \in Requests : status[r] = "pending"}

Init ==
    /\ status = [r \in Requests |-> "absent"]
    /\ product = [r \in Requests |-> None]
    /\ mode = [r \in Requests |-> "none"]
    /\ booked = [r \in Requests |-> {}]
    /\ spent = [p \in Products |-> [b \in Buckets |-> 0]]
    /\ closing = {}

Open(r, p) ==
    /\ status[r] = "absent"
    /\ status' = [status EXCEPT ![r] = "pending"]
    /\ product' = [product EXCEPT ![r] = p]
    /\ UNCHANGED <<mode, booked, spent, closing>>

Dismiss(r) ==
    /\ r \in Waiting
    /\ \E d \in Dismissed : status' = [status EXCEPT ![r] = d]
    /\ UNCHANGED <<product, mode, booked, spent, closing>>

(* Requests are approved together when their session is just paying for     *)
(* the product.                                                             *)
Approve(S, m) ==
    /\ S \subseteq Waiting
    /\ status' = [r \in Requests |-> IF r \in S THEN "approved" ELSE status[r]]
    /\ mode' = [r \in Requests |-> IF r \in S THEN m ELSE mode[r]]
    /\ UNCHANGED <<product, booked, spent, closing>>

Charge(r, m, b) ==
    /\ r \in Waiting
    /\ status' = [status EXCEPT ![r] = "approved"]
    /\ mode' = [mode EXCEPT ![r] = m]
    /\ booked' = [booked EXCEPT ![r] = @ \cup {b}]
    /\ spent' = [spent EXCEPT ![product[r]][b] = @ + 1]
    /\ UNCHANGED <<product, closing>>

TakeUp(S) ==
    /\ S \subseteq Waiting
    /\ closing' = closing \cup S
    /\ UNCHANGED <<status, product, mode, booked, spent>>

(* Two threads may have taken up the same request, so it may stay taken up. *)
Authorize(r) ==
    /\ r \in closing
    /\ status' = [status EXCEPT ![r] = "approved"]
    /\ mode' = [mode EXCEPT ![r] = "authorized"]
    /\ closing' \in {closing, closing \ {r}}
    /\ UNCHANGED <<product, booked, spent>>

LetGo(S) ==
    /\ closing' = closing \ S
    /\ UNCHANGED <<status, product, mode, booked, spent>>

Next ==
    \/ \E r \in Requests, p \in Products : Open(r, p)
    \/ \E r \in Requests : Dismiss(r)
    \/ \E S \in SUBSET Requests, m \in Unfunded : Approve(S, m)
    \/ \E r \in Requests, m \in Charging, b \in Buckets : Charge(r, m, b)
    \/ \E S \in SUBSET Requests : TakeUp(S) \/ LetGo(S)
    \/ \E r \in Requests : Authorize(r)

Spec == Init /\ [][Next]_vars

-----------------------------------------------------------------------------
TypeOK ==
    /\ status \in [Requests -> {"absent", "pending", "approved"} \cup Dismissed]
    /\ product \in [Requests -> Products \cup {None}]
    /\ \A r \in Requests : status[r] # "absent" => product[r] \in Products
    /\ mode \in [Requests -> {"none", "authorized"} \cup Charging \cup Unfunded]
    /\ booked \in [Requests -> SUBSET Buckets]
    /\ spent \in [Products -> [Buckets -> Nat]]
    /\ closing \subseteq {r \in Requests : status[r] # "absent"}

(* A request pays at most one unit, exactly one when the balance approved   *)
(* it, and none when it is open, was dismissed, or was approved by payment, *)
(* courtesy or debt.                                                        *)
OneUnitPerDecision ==
    \A r \in Requests :
        /\ mode[r] # "none" <=> status[r] = "approved"
        /\ mode[r] = "balance" => booked[r] # {}
        /\ \A b, c \in booked[r] : b = c
        /\ booked[r] # {} => mode[r] \in Charging \cup {"authorized"}

(* Every unit taken from a bucket is booked to one request of its product.  *)
UnitsAccountedFor ==
    \A p \in Products, b \in Buckets :
        spent[p][b] =
            Cardinality({r \in Requests : product[r] = p /\ b \in booked[r]})

(* What a decision did is never undone, but by an authorization that took   *)
(* the request up before it; what was booked stays.                         *)
Final ==
    [][\A r \in Requests : status[r] \in {"approved"} \cup Dismissed =>
          /\ product'[r] = product[r] /\ booked'[r] = booked[r]
          /\ \/ status'[r] = status[r] /\ mode'[r] = mode[r]
             \/ r \in closing /\ mode'[r] = "authorized"]_vars
=============================================================================
