------------------------------ MODULE LlmRuntime ------------------------------
(* A capability call of the builder: the route the provider router chooses  *)
(* (services/llm_runtime/provider_router.py), the execution of a CLI agent  *)
(* in a slot of its queue with fallback models and a timeout (codex_cli/    *)
(* and antigravity_cli/ execution_service.py, queue_service.py), and the    *)
(* usage row in the ledger (llm_finops/ledger_service.py).                  *)
(*                                                                          *)
(* Calls run in the threads of their requests.  The semaphores, the audit   *)
(* log of each CLI and the ledger are shared by all of them.                *)
EXTENDS Naturals, FiniteSets

CONSTANTS
    Calls, NoCall,
    Workspaces,
    WorkspaceOf,    \* [Calls -> Workspaces]
    Settings,       \* runtime settings a call may find (load_llm_runtime_settings)
    Models          \* length of the attempt sequence: a model and its fallbacks

Clis     == {"codex", "agy"}
Rollouts == {"off", "codex", "agy", "shadow"}
Setting  == [active: Clis \cup {"native"}, rollout: Rollouts,
             limit: Nat \ {0}, ready: BOOLEAN]

ASSUME CallConstants ==
    /\ NoCall \notin Calls
    /\ WorkspaceOf \in [Calls -> Workspaces]
    /\ Settings \subseteq Setting
    /\ Models \in Nat \ {0}

VARIABLES
    call,     \* [Calls -> Call]
    taken,    \* [Slots -> Nat]: permits taken of each semaphore
    last,     \* [Clis -> Calls \cup {NoCall}]: whose line ends the audit log
    ledger    \* usage rows <<call, provider, run>>

vars == <<call, taken, last, ledger>>

Stages == {"idle", "leg", "queued", "running", "killed", "failed", "read",
           "look", "insert", "answered", "done"}
(* set: the settings of the call; sync: it serves a form and must not wait  *)
(* for a CLI; gave: the legs that gave an artifact; seen: the run the call  *)
(* takes its usage from; known: that run was in the ledger; by: the leg     *)
(* whose result is returned.                                                *)
Legs    == {"primary", "fallback", "shadow"}
Call    == [stage: Stages, set: Settings, sync: BOOLEAN, leg: Legs,
            attempt: 1..Models, gave: SUBSET Legs, seen: Calls \cup {NoCall},
            known: BOOLEAN, by: Legs]
Slots   == Clis \X {s.limit : s \in Settings}

Route   == [primary: Clis \cup {"native"}, fallback: BOOLEAN, shadow: BOOLEAN]

(* BuilderProviderRouter.resolve. *)
RouteOf(s) ==
    [primary  |-> IF s.active # "native" THEN s.active
                  ELSE IF s.rollout \in Clis THEN s.rollout ELSE "native",
     fallback |-> s.active = "native" /\ s.rollout \in Clis,
     shadow   |-> s.active = "native" /\ s.rollout = "shadow"]

(* The provider of the leg call c is in. *)
Provider(c) ==
    CASE call[c].leg = "primary"  -> RouteOf(call[c].set).primary
      [] call[c].leg = "fallback" -> "native"
      [] OTHER                    -> "codex"

(* is_available: a CLI that is not the active provider never is. *)
Available(c) == call[c].set.ready /\ call[c].set.active = Provider(c)

Slot(c)  == <<Provider(c), call[c].set.limit>>
Holding  == {"running", "killed"}

Init ==
    /\ call \in [Calls -> [stage: {"idle"}, set: Settings, sync: BOOLEAN,
                    leg: {"primary"}, attempt: {1}, gave: {{}}, seen: {NoCall},
                    known: {FALSE}, by: {"primary"}]]
    /\ taken = [k \in Slots |-> 0]
    /\ last = [p \in Clis |-> NoCall]
    /\ ledger = {}

Goes(c, stage) == call' = [call EXCEPT ![c].stage = stage]

-----------------------------------------------------------------------------
(* Legs. *)

Begin(c) ==
    /\ call[c].stage = "idle"
    /\ Goes(c, "leg")
    /\ UNCHANGED <<taken, last, ledger>>

(* The native provider answers with an artifact or without one, and its row *)
(* is stored under the request id of its answer.                            *)
Native(c) ==
    /\ call[c].stage = "leg"
    /\ Provider(c) = "native"
    /\ \E gives \in BOOLEAN :
          call' = [call EXCEPT ![c].stage = "answered",
                               ![c].gave = IF gives THEN @ \cup {call[c].leg} ELSE @]
    /\ ledger' = ledger \cup {<<c, "native", c>>}
    /\ UNCHANGED <<taken, last>>

Skipped(c) == call[c].sync /\ Provider(c) = "agy"  \* skipped_sync_normalization

(* The CLI is not there, not the active provider, or must not be waited for;*)
(* the first two leave a row without a run.                                 *)
Unavailable(c) ==
    /\ call[c].stage = "leg"
    /\ Provider(c) \in Clis
    /\ Skipped(c) \/ ~Available(c)
    /\ Goes(c, "answered")
    /\ ledger' = IF Skipped(c) THEN ledger
                 ELSE ledger \cup {<<c, Provider(c), NoCall>>}
    /\ UNCHANGED <<taken, last>>

(* execute_structured_prompt waits for a slot. *)
Enqueue(c) ==
    /\ call[c].stage = "leg"
    /\ Provider(c) \in Clis
    /\ ~Skipped(c) /\ Available(c)
    /\ Goes(c, "queued")
    /\ UNCHANGED <<taken, last, ledger>>

(* with_execution_slot: a semaphore per runner and limit. *)
Acquire(c) ==
    /\ call[c].stage = "queued"
    /\ taken[Slot(c)] < call[c].set.limit
    /\ taken' = [taken EXCEPT ![Slot(c)] = @ + 1]
    /\ Goes(c, "running")
    /\ UNCHANGED <<last, ledger>>

(* queue_rejected: the wait lasted as long as the call may take. *)
Reject(c) ==
    /\ call[c].stage = "queued"
    /\ taken[Slot(c)] >= call[c].set.limit
    /\ last' = [last EXCEPT ![Provider(c)] = c]
    /\ Goes(c, "read")
    /\ UNCHANGED <<taken, ledger>>

Freed(c) == [taken EXCEPT ![Slot(c)] = @ - 1]

(* The model answers with a valid artifact: it is logged, then the slot is  *)
(* released.                                                                *)
Succeed(c) ==
    /\ call[c].stage = "running"
    /\ last' = [last EXCEPT ![Provider(c)] = c]
    /\ taken' = Freed(c)
    /\ call' = [call EXCEPT ![c].stage = "read", ![c].gave = @ \cup {call[c].leg}]
    /\ UNCHANGED ledger

(* Mutant: after the last fallback the first model is tried again. *)
NextModelCycles(c) ==
    /\ call[c].stage = "running"
    /\ call' = [call EXCEPT ![c].attempt = (@ % Models) + 1]
    /\ UNCHANGED <<taken, last, ledger>>

(* A retryable failure (capacity, quota) with a model left: same slot. *)
NextModel(c) ==
    /\ call[c].stage = "running"
    /\ call[c].attempt < Models
    /\ call' = [call EXCEPT ![c].attempt = @ + 1]
    /\ UNCHANGED <<taken, last, ledger>>

(* Any other failure, an invalid output, or no model left. *)
Fail(c) ==
    /\ call[c].stage = "running"
    /\ taken' = Freed(c)
    /\ Goes(c, "failed")
    /\ UNCHANGED <<last, ledger>>

(* An exception nobody classified: nothing is logged. *)
Break(c) ==
    /\ call[c].stage = "running"
    /\ taken' = Freed(c)
    /\ Goes(c, "read")
    /\ UNCHANGED <<last, ledger>>

(* The process exceeds its time and is killed ... *)
TimesOut(c) ==
    /\ call[c].stage = "running"
    /\ Goes(c, "killed")
    /\ UNCHANGED <<taken, last, ledger>>

(* Mutant: a timeout leaves the slot taken. *)
PipesCloseKeeps(c) ==
    /\ call[c].stage = "killed"
    /\ Goes(c, "failed")
    /\ UNCHANGED <<taken, last, ledger>>

(* ... and its output read to the end, which needs every descendant that    *)
(* inherited the pipes to exit: child.kill() ends the child only.           *)
PipesClose(c) ==
    /\ call[c].stage = "killed"
    /\ taken' = Freed(c)
    /\ Goes(c, "failed")
    /\ UNCHANGED <<last, ledger>>

(* The failure is logged once the slot is released. *)
LogFailure(c) ==
    /\ call[c].stage = "failed"
    /\ last' = [last EXCEPT ![Provider(c)] = c]
    /\ Goes(c, "read")
    /\ UNCHANGED <<taken, ledger>>

-----------------------------------------------------------------------------
(* Usage.  The facade reads the last line of the CLI's log for the run, the *)
(* model and the metrics of the call; the ledger ignores a run it knows.    *)

ReadLastKnown(c) ==
    /\ call[c].stage = "read"
    /\ call' = [call EXCEPT ![c].stage = "look", ![c].seen = last[Provider(c)]]
    /\ UNCHANGED <<taken, last, ledger>>

(* _find_existing_record: by workspace, provider and run. *)
FindExisting(c) ==
    /\ call[c].stage = "look"
    /\ call' = [call EXCEPT ![c].stage = "insert",
                            ![c].known = \E r \in ledger :
                                /\ r[3] # NoCall
                                /\ WorkspaceOf[r[1]] = WorkspaceOf[c]
                                /\ r[2] = Provider(c) /\ r[3] = call[c].seen]
    /\ UNCHANGED <<taken, last, ledger>>

RecordUsage(c) ==
    /\ call[c].stage = "insert"
    /\ ledger' = IF call[c].known THEN ledger
                 ELSE ledger \cup {<<c, Provider(c), call[c].seen>>}
    /\ Goes(c, "answered")
    /\ UNCHANGED <<taken, last>>

-----------------------------------------------------------------------------
(* _execute_capability, between the legs and after them. *)

NeedsFallback(c) ==
    /\ call[c].leg = "primary"
    /\ RouteOf(call[c].set).fallback
    /\ "primary" \notin call[c].gave
    /\ ~Skipped(c)

NeedsShadow(c) == call[c].leg = "primary" /\ RouteOf(call[c].set).shadow

SecondLeg(c) ==
    /\ call[c].stage = "answered"
    /\ NeedsFallback(c) \/ NeedsShadow(c)
    /\ call' = [call EXCEPT ![c].stage = "leg",
                            ![c].leg = IF NeedsShadow(c) THEN "shadow" ELSE "fallback"]
    /\ UNCHANGED <<taken, last, ledger>>

(* Mutant: the result of the leg that ran last. *)
ChosenLast(c) == call[c].leg

(* The fallback's result replaces the CLI's; a shadow only replaces a       *)
(* primary without an artifact.                                             *)
Chosen(c) ==
    IF call[c].leg = "shadow" /\ ("primary" \in call[c].gave
                                  \/ "shadow" \notin call[c].gave)
    THEN "primary" ELSE call[c].leg

Return(c) ==
    /\ call[c].stage = "answered"
    /\ ~NeedsFallback(c) /\ ~NeedsShadow(c)
    /\ call' = [call EXCEPT ![c].stage = "done", ![c].by = Chosen(c)]
    /\ UNCHANGED <<taken, last, ledger>>

Step(c) ==
    \/ Begin(c) \/ Native(c) \/ Unavailable(c) \/ Enqueue(c)
    \/ Acquire(c) \/ Reject(c)
    \/ Succeed(c) \/ NextModel(c) \/ Fail(c) \/ Break(c) \/ TimesOut(c) \/ PipesClose(c)
    \/ LogFailure(c) \/ ReadLastKnown(c) \/ FindExisting(c) \/ RecordUsage(c)
    \/ SecondLeg(c) \/ Return(c)

Next == \E c \in Calls : Step(c)

Spec == Init /\ [][Next]_vars

(* Threads run.  That the pipes of a killed process close at last is an     *)
(* assumption about the CLI, not something the code ensures.                *)
FairSpec == Spec /\ \A c \in Calls : WF_vars(Step(c))

-----------------------------------------------------------------------------
(* Properties. *)

CallTypeOK ==
    /\ call \in [Calls -> Call]
    /\ taken \in [Slots -> Nat]
    /\ last \in [Clis -> Calls \cup {NoCall}]
    /\ ledger \subseteq Calls \X (Clis \cup {"native"}) \X (Calls \cup {NoCall})

(* Every permit taken belongs to a call that runs a process: whichever way  *)
(* an execution ends, it gives its slot back, once.                         *)
SlotsMatchRuns ==
    \A k \in Slots :
        taken[k] = Cardinality({c \in Calls : call[c].stage \in Holding /\ Slot(c) = k})

(* An artifact some leg gave reaches the caller, and the primary's goes     *)
(* before a substitute's.                                                   *)
ArtifactReturned ==
    \A c \in Calls :
        call[c].stage = "done" =>
            /\ call[c].gave # {} => call[c].by \in call[c].gave
            /\ "primary" \in call[c].gave => call[c].by = "primary"

(* Every call returns, however many wait, time out, are refused or fall     *)
(* back.                                                                    *)
CallsReturn == \A c \in Calls : <>(call[c].stage = "done")

(* The usage of a run is recorded for the call that ran it, as the tests of *)
(* the CLI ledgers expect.                                                  *)
UsageOfOwnRun == \A r \in ledger : r[3] \in {r[1], NoCall}

(* One semaphore per runner ("Un registry global evita crear semaforos      *)
(* duplicados para el mismo runner_id."): no CLI runs more processes than a *)
(* call in it was allowed.                                                  *)
RunnerWithinLimit ==
    \A c \in Calls :
        call[c].stage \in Holding =>
            Cardinality({d \in Calls : call[d].stage \in Holding
                                       /\ Provider(d) = Provider(c)}) <= call[c].set.limit
================================================================================
