---------------------------- MODULE BuildContract ----------------------------
(* What the product build promises about the deliverables of one run, with  *)
(* neither queue, steps nor workers: each is generated by one job at a      *)
(* time, after what it depends on and never again once built, and the run   *)
(* is sealed when all of them are built, for good.                          *)
EXTENDS Naturals, FiniteSets

CONSTANTS
    Items,     \* the expected deliverables of the run
    Deps       \* [Items -> SUBSET Items]: dependency_policy.depends_on

VARIABLES
    built,     \* deliverables that have a current version
    making,    \* [Items -> Nat]: how many jobs are generating each
    sealed     \* is_sealed

vars == <<built, making, sealed>>

Init ==
    /\ built = {}
    /\ making = [i \in Items |-> 0]
    /\ sealed = FALSE

Start(i) ==
    /\ ~sealed
    /\ i \notin built
    /\ making[i] = 0
    /\ Deps[i] \subseteq built
    /\ making' = [making EXCEPT ![i] = 1]
    /\ UNCHANGED <<built, sealed>>

End(i) ==
    /\ making[i] > 0
    /\ making' = [making EXCEPT ![i] = @ - 1]
    /\ built' \in {built, built \cup {i}}
    /\ UNCHANGED sealed

(* The process stops: what was being generated is lost. *)
Lose ==
    /\ making' = [i \in Items |-> 0]
    /\ UNCHANGED <<built, sealed>>

Seal ==
    /\ built = Items
    /\ sealed' = TRUE
    /\ UNCHANGED <<built, making>>

Next == (\E i \in Items : Start(i) \/ End(i)) \/ Lose \/ Seal

Spec == Init /\ [][Next]_vars
=============================================================================
