----------------------------- MODULE StageJourney -----------------------------
(* What the stages of a project promise: a stage is accepted only while every  *)
(* stage before it stands, and whatever touches a stage reopens the later ones.*)
(* A stage whose rows predate its proposals may be adopted as it is.           *)
EXTENDS Naturals

CONSTANTS LastStage

VARIABLES standing

Stages    == 1 .. LastStage
Standings == {"open", "accepted", "adopted"}

Init == standing = [s \in Stages |-> "open"]

(* A stage stays as it is, or is adopted if it was open. *)
Kept(s) == standing'[s] \in {standing[s]} \cup (IF standing[s] = "open" THEN {"adopted"} ELSE {})

Adopt == \A s \in Stages : Kept(s)

Accept(s) ==
    /\ standing'[s] = "accepted"
    /\ \A p \in Stages : p < s => Kept(p) /\ standing'[p] # "open"
    /\ \A p \in Stages : p > s => standing'[p] = "open"

(* What a stage may fall back to when one of its versions is withdrawn. *)
Fallback(was) == CASE was = "accepted" -> {"accepted", "adopted", "open"}
                   [] was = "adopted"  -> {"adopted", "open"}
                   [] was = "open"     -> {"open"}

Withdraw(s) ==
    /\ standing'[s] \in Fallback(standing[s])
    /\ \A p \in Stages : p < s => standing'[p] = standing[p]
    /\ \A p \in Stages : p > s => standing'[p] = "open"

Next ==
    /\ standing' \in [Stages -> Standings]
    /\ Adopt \/ \E s \in Stages : Accept(s) \/ Withdraw(s)

Spec == Init /\ [][Next]_standing
================================================================================
