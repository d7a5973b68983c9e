-------------------------- MODULE MCStageOperations ---------------------------
(* Small instances of StageOperations for TLC. *)
EXTENDS StageOperations

CONSTANTS o1, o2, u1, u2, p1
================================================================================
