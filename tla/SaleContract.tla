----------------------------- MODULE SaleContract -----------------------------
(* What the payment handlers promise of a sale, in whatever order the       *)
(* provider's notifications arrive and however often they are repeated: a   *)
(* sale belongs to one session once and for all, and its access changes     *)
(* only for a cause (a notification, the buyer's claim) that has not        *)
(* counted before and that allows the change.                               *)
CONSTANTS
    Sales, Sessions, NoSession,
    Confirmed    \* sales whose provider is asked for the current status

VARIABLES
    owner,    \* [Sales -> Sessions \cup {NoSession}]
    access,   \* [Sales -> AccessStates]
    counted   \* <<sale, cause>>: what has changed the access already

vars == <<owner, access, counted>>

AccessStates == {"none", "active", "refunded", "revoked"}
Causes       == {"waiting", "approved", "complete", "declined", "refund", "claim"}

(* What access may become, from old.  A provider that confirms tells the    *)
(* status of the sale, whatever the notification said.                      *)
Allows(s, cause, old) ==
    LET ended == IF old = "none" THEN {"none"} ELSE {"refunded", "revoked"}
    IN  IF s \in Confirmed                               THEN {"active"} \cup ended
        ELSE IF cause \in {"approved", "complete", "claim"} THEN {"active"}
        ELSE IF cause \in {"declined", "refund"}            THEN ended
        ELSE {}

Init ==
    /\ owner \in [Sales -> Sessions \cup {NoSession}]
    /\ access = [s \in Sales |-> "none"]
    /\ counted = {}

(* The order of the sale is created for session x. *)
Own(s, x) ==
    /\ owner[s] = NoSession
    /\ owner' = [owner EXCEPT ![s] = x]
    /\ UNCHANGED <<access, counted>>

Count(s, x, cause) ==
    /\ owner[s] \in {x, NoSession}
    /\ <<s, cause>> \notin counted
    /\ counted' = counted \cup {<<s, cause>>}
    /\ owner' = [owner EXCEPT ![s] = x]
    /\ \E new \in Allows(s, cause, access[s]) :
          access' = [access EXCEPT ![s] = new]

Next ==
    \E s \in Sales, x \in Sessions :
        Own(s, x) \/ \E cause \in Causes : Count(s, x, cause)

Spec == Init /\ [][Next]_vars
===============================================================================
