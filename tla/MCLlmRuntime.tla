----------------------------- MODULE MCLlmRuntime -----------------------------
(* Small instances of LlmRuntime for TLC. *)
EXTENDS LlmRuntime, TLC

CONSTANTS c1, c2, c3, w1, w2

SetOf(active, rollout, limit, ready) ==
    [active |-> active, rollout |-> rollout, limit |-> limit, ready |-> ready]

(* A CLI as the only provider, promoted, as a shadow; without its program.  *)
Routes == {SetOf("codex", "off", 1, TRUE), SetOf("agy", "off", 2, TRUE),
           SetOf("codex", "off", 1, FALSE), SetOf("native", "codex", 1, TRUE),
           SetOf("native", "agy", 1, TRUE), SetOf("native", "shadow", 1, TRUE),
           SetOf("native", "off", 1, TRUE)}
Busy   == {SetOf("codex", "off", 1, TRUE), SetOf("codex", "off", 2, TRUE)}
OneWorkspace == [c \in Calls |-> w1]
================================================================================
