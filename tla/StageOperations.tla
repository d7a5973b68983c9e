---------------------------- MODULE StageOperations ----------------------------
(* The asynchronous stage operations of a session (api/routes/sessions.py): *)
(* a request starts, cancels, retries or watches an operation, and a        *)
(* background task works for it.  The row in stage_operations is all they   *)
(* share: nobody locks it, and no task claims it.                           *)
(*                                                                          *)
(* A request reads the row, decides, and commits what it changed: the ORM   *)
(* writes the columns whose value differs from the one that was read.       *)
EXTENDS Naturals, FiniteSets

CONSTANTS
    Ops,        \* idempotency keys of one action: one row each, by UNIQUE
    NoOp,
    Actions,    \* the actions of a session; its operations are of one of them
    Users,      \* requests at work at the same time
    Watchers,   \* pages that poll an operation
    MaxTasks,   \* background tasks of one operation
    MaxClicks, MaxCrashes,
    Swallowing  \* the runtime of the design stage catches the cancellation

AllActions == {"analyze_discovery", "define_requirements", "propose_design",
               "recommend_tools", "recommend_memory", "generate_estimation_report"}

ASSUME OperationConstants ==
    /\ NoOp \notin Ops
    /\ Actions \subseteq AllActions
    /\ Users \cap Watchers = {}
    /\ MaxTasks \in Nat \ {0}
    /\ MaxClicks \in Nat /\ MaxCrashes \in Nat
    /\ Swallowing \in BOOLEAN

VARIABLES
    action,     \* of the operations
    row,        \* [Ops -> Row]: the table stage_operations
    task,       \* [Ops -> [Numbers -> Task]]
    request,    \* [Users \cup Watchers -> Request]
    late,       \* [Ops -> SUBSET (Numbers \X Rounds)]: rounds begun while a
                \* cancellation is asked for; read by the properties only
    clicks, crashes

vars == <<action, row, task, request, late, clicks, crashes>>

Active   == {"queued", "running"}
Terminal == {"completed", "failed", "cancelled"}
Statuses == Active \cup Terminal \cup {"waiting"}

Numbers  == 1..MaxTasks
(* Of a task: preparation and generation.  The three steps that design      *)
(* reports from its generation are one.                                     *)
Rounds   == 1..2

(* fresh: the heartbeat is younger than the TTL of the action. *)
Row      == [status: Statuses \cup {"none"}, cancel: BOOLEAN, fresh: BOOLEAN,
             attempt: 0..MaxTasks, result: BOOLEAN]
(* saw: the status the task's ORM object holds, "none" when it is expired.  *)
Task     == [pc: {"none", "look", "stop", "mark", "work", "publish", "done"},
             round: 1..3, saw: Statuses \cup {"none"}]
Clicks   == {"start", "current", "cancel", "retry"}
Request  == [pc: Clicks \cup {"idle", "get", "others", "resume"}, op: Ops \cup {NoOp},
             key: Ops \cup {NoOp}, seen: Row]

NoRow    == [status |-> "none", cancel |-> FALSE, fresh |-> TRUE,
             attempt |-> 0, result |-> FALSE]
NoTask   == [pc |-> "none", round |-> 1, saw |-> "none"]
Done     == [NoTask EXCEPT !.pc = "done"]
Idle     == [pc |-> "idle", op |-> NoOp, key |-> NoOp, seen |-> NoRow]

Init ==
    /\ action \in Actions
    /\ row = [o \in Ops |-> NoRow]
    /\ task = [o \in Ops |-> [n \in Numbers |-> NoTask]]
    /\ request = [r \in Users \cup Watchers |-> Idle]
    /\ late = [o \in Ops |-> {}]
    /\ clicks = 0 /\ crashes = 0

(* Design publishes without asking; an estimate is no artifact. *)
MayWait    == action \notin {"propose_design", "generate_estimation_report"}
LooksAgain == action \in {"recommend_tools", "generate_estimation_report"}
IsDesign   == action = "propose_design"

(* The value of a column after an object that read old is set to new. *)
Column(now, old, new) == IF old = new THEN now ELSE new

-----------------------------------------------------------------------------
(* Background tasks. *)

At(o, n, pc) == task[o][n].pc = pc
To(o, n, pc, saw) == task' = [task EXCEPT ![o][n].pc = pc, ![o][n].saw = saw]
Ends(o, n)   == task' = [task EXCEPT ![o][n] = Done]
OfTask       == UNCHANGED <<action, request, clicks, crashes>>

(* _update_stage_operation. *)
Status(o, saw, new) ==
    row' = [row EXCEPT ![o].status = Column(@, saw, new), ![o].fresh = TRUE]

(* _raise_if_stage_operation_cancelled: the row is read again, and the read *)
(* given back before the next write.  Design keeps what it read.            *)
Look(o, n) ==
    /\ At(o, n, "look")
    /\ IF row[o].cancel THEN To(o, n, "stop", row[o].status)
       ELSE To(o, n, IF task[o][n].round = 3 THEN "publish" ELSE "mark",
               IF IsDesign THEN row[o].status ELSE "none")
    /\ OfTask /\ UNCHANGED <<row, late>>

(* Mutant: a task that is cancelled ends and leaves its operation as it is. *)
StopSilently(o, n) ==
    /\ At(o, n, "stop")
    /\ Ends(o, n)
    /\ OfTask /\ UNCHANGED <<row, late>>

(* The cancellation ends the task, unless a runtime that retries and asks   *)
(* for attention catches it: what it returns is published, or the lack of   *)
(* it fails.                                                                *)
Stop(o, n) ==
    /\ At(o, n, "stop")
    /\ Status(o, task[o][n].saw, "cancelled")
    /\ IF Swallowing /\ IsDesign /\ task[o][n].round = 2
       THEN To(o, n, "publish", "none") ELSE Ends(o, n)
    /\ OfTask /\ UNCHANGED late

(* A round begins: the status is not looked at. *)
Mark(o, n) ==
    /\ At(o, n, "mark")
    /\ Status(o, task[o][n].saw, "running")
    /\ To(o, n, "work", "none")
    /\ late' = IF row[o].cancel
               THEN [late EXCEPT ![o] = @ \cup {<<n, task[o][n].round>>}] ELSE late
    /\ OfTask

(* Mutant: nothing is looked at between the preparation and the generation. *)
WorkedBlind(o, n) ==
    /\ At(o, n, "work")
    /\ task' = [task EXCEPT
         ![o][n].round = IF @ = 1 \/ LooksAgain THEN @ + 1 ELSE @,
         ![o][n].pc = IF task[o][n].round = 1 THEN "mark"
                      ELSE IF LooksAgain THEN "look" ELSE "publish"]
    /\ OfTask /\ UNCHANGED <<row, late>>

(* The work of a round is over; only some runners look once more. *)
Worked(o, n) ==
    /\ At(o, n, "work")
    /\ task' = [task EXCEPT
         ![o][n].round = IF @ = 1 \/ LooksAgain THEN @ + 1 ELSE @,
         ![o][n].pc = IF task[o][n].round = 1 \/ LooksAgain THEN "look" ELSE "publish"]
    /\ OfTask /\ UNCHANGED <<row, late>>

(* _complete_stage_operation_with_artifact. *)
Publish(o, n) ==
    /\ At(o, n, "publish")
    /\ \E status \in {"completed"} \cup IF MayWait THEN {"waiting"} ELSE {} :
          row' = [row EXCEPT ![o].status = status, ![o].fresh = TRUE,
                             ![o].result = @ \/ action # "generate_estimation_report"]
    /\ Ends(o, n)
    /\ OfTask /\ UNCHANGED late

(* An exception: rollback, and the operation failed whatever it is now. *)
Break(o, n) ==
    /\ task[o][n].pc \in {"mark", "work", "publish"}
    /\ row' = [row EXCEPT ![o].status = "failed", ![o].fresh = TRUE]
    /\ Ends(o, n)
    /\ OfTask /\ UNCHANGED late

Run(o, n) == Look(o, n) \/ Stop(o, n) \/ Mark(o, n) \/ Worked(o, n)
             \/ Publish(o, n) \/ Break(o, n)

-----------------------------------------------------------------------------
(* Requests. *)

Answered(r)      == request' = [request EXCEPT ![r] = Idle]
Reread(r, o, pc) == request' = [request EXCEPT ![r].pc = pc, ![r].op = o,
                                               ![r].seen = row'[o]]
OfRequest        == UNCHANGED <<action, clicks, crashes>>
Reads            == UNCHANGED <<row, task, late>>

(* Mutant: an operation no task has begun has no deadline. *)
StaleRunning(seen) == seen.status = "running" /\ ~seen.fresh

(* _is_operation_stale. *)
Stale(seen) == seen.status \in Active /\ ~seen.fresh

(* A click of a user.  The current operation is an active one first. *)
Click(r, kind, o) ==
    /\ request[r] = Idle
    /\ kind # "start" => row[o].status # "none"
    /\ kind = "current" /\ row[o].status = "waiting"
           => \A p \in Ops : row[p].status \notin Active
    /\ clicks < MaxClicks
    /\ clicks' = clicks + 1
    /\ request' = [request EXCEPT ![r] = [pc |-> kind, op |-> o, key |-> o,
                                          seen |-> row[o]]]
    /\ UNCHANGED <<action, crashes>> /\ Reads

(* A page asks for an operation (get, recover) on its own; only a stale one *)
(* is changed by that.                                                      *)
Poll(r, o) ==
    /\ request[r] = Idle
    /\ Stale(row[o])
    /\ request' = [request EXCEPT ![r] = [pc |-> "get", op |-> o, key |-> o,
                                          seen |-> row[o]]]
    /\ OfRequest /\ Reads

(* _recover_stale_stage_operation, which every handler calls first. *)
Recover(r) ==
    LET o == request[r].op IN
    /\ request[r].pc # "idle"
    /\ Stale(request[r].seen)
    /\ row' = [row EXCEPT ![o].status = "failed", ![o].fresh = TRUE]
    /\ IF request[r].pc = "get" THEN Answered(r) ELSE Reread(r, o, request[r].pc)
    /\ OfRequest /\ UNCHANGED <<task, late>>

Reading(r, pc) == request[r].pc = pc /\ ~Stale(request[r].seen)

(* The operation is queued again with a task of its own. *)
Spawned(o, new) ==
    /\ \E n \in Numbers :
          /\ At(o, n, "none") /\ \A i \in 1..(n - 1) : ~At(o, i, "none")
          /\ task' = [task EXCEPT ![o][n].pc = "look"]
    /\ row' = [row EXCEPT ![o] = new]
    /\ late' = IF new.cancel THEN late ELSE [late EXCEPT ![o] = {}]

(* _requeue_stage_operation and retry, of an operation read as seen. *)
Requeued(o, seen) ==
    Spawned(o, [status  |-> "queued",
                attempt |-> seen.attempt + 1,
                fresh   |-> TRUE,
                cancel  |-> Column(row[o].cancel, seen.cancel, FALSE),
                result  |-> Column(row[o].result, seen.result, FALSE)])

(* _complete_paused_stage_operation_if_resolved: the questions that kept    *)
(* the operation waiting were answered or deferred.  It is closed with the  *)
(* artifact it already names.                                               *)
Settle(r) ==
    LET o == request[r].op IN
    /\ Reading(r, "start") \/ Reading(r, "current") \/ Reading(r, "retry")
    /\ request[r].seen.status = "waiting" /\ request[r].seen.result
    /\ row' = [row EXCEPT ![o].status = "completed", ![o].fresh = TRUE]
    /\ Answered(r)
    /\ OfRequest /\ UNCHANGED <<task, late>>

(* Nothing (left) to do. *)
Answer(r) ==
    LET seen == request[r].seen IN
    /\ \/ Reading(r, "current")
       \/ Reading(r, "cancel") /\ seen.status \in Terminal
       \/ Reading(r, "retry") /\ seen.status \in Active \cup {"completed"}
       \/ (Reading(r, "start") \/ Reading(r, "others")) /\ seen.status \in Active
    /\ Answered(r)
    /\ OfRequest /\ Reads

(* cancel_stage_operation_route: a queued operation is cancelled, any other *)
(* is asked to.                                                             *)
Cancel(r) ==
    LET o == request[r].op  seen == request[r].seen IN
    /\ Reading(r, "cancel")
    /\ seen.status \notin Terminal
    /\ row' = [row EXCEPT ![o].cancel = Column(@, seen.cancel, TRUE),
                          ![o].status = IF seen.status = "queued" THEN "cancelled" ELSE @,
                          ![o].fresh = TRUE]
    /\ Answered(r)
    /\ OfRequest /\ UNCHANGED <<task, late>>

(* retry_stage_operation_route, and a start that finds an operation waiting *)
(* for its answers.                                                         *)
Again(r) ==
    LET seen == request[r].seen IN
    /\ \/ Reading(r, "retry") /\ seen.status \in {"failed", "cancelled", "waiting"}
       \/ Reading(r, "start") /\ seen.status = "waiting"
       \/ Reading(r, "resume")
    /\ Requeued(request[r].op, seen)
    /\ Answered(r)
    /\ OfRequest

(* _get_or_create_stage_operation: nothing under the key that may go on.    *)
(* An active operation of the action, the one updated last, is answered     *)
(* instead unless it is recovered, ...                                      *)
LookForOther(r) ==
    /\ Reading(r, "start")
    /\ request[r].seen.status \in Terminal \cup {"none"}
    /\ \/ \E p \in Ops : row[p].status \in Active
                         /\ request' = [request EXCEPT ![r].pc = "others", ![r].op = p,
                                                       ![r].seen = row[p]]
       \/ /\ \A p \in Ops : row[p].status \notin Active
          /\ request' = [request EXCEPT ![r].pc = "others", ![r].op = NoOp,
                                        ![r].seen = NoRow]
    /\ OfRequest /\ Reads

Inserting(r) == Reading(r, "others") /\ request[r].seen.status \notin Active

(* ... a request that resumes a checkpoint takes a waiting one, ...         *)
Resume(r) ==
    /\ Inserting(r)
    /\ \E p \in Ops : row[p].status = "waiting"
                      /\ request' = [request EXCEPT ![r].pc = "resume", ![r].op = p,
                                                    ![r].seen = row[p]]
    /\ OfRequest /\ Reads

(* ... and else a row is inserted, which fails if the key has one.          *)
Insert(r) ==
    LET o == request[r].key IN
    /\ Inserting(r)
    /\ IF row[o].status # "none" THEN Reads
       ELSE Spawned(o, [NoRow EXCEPT !.status = "queued", !.attempt = 1])
    /\ Answered(r)
    /\ OfRequest

Serve(r) == Recover(r) \/ Settle(r) \/ Answer(r) \/ Cancel(r) \/ Again(r)
            \/ LookForOther(r) \/ Resume(r) \/ Insert(r)

-----------------------------------------------------------------------------

(* The TTL passes without a heartbeat, whether a task is at work or not. *)
Age(o) ==
    /\ row[o].status \in Active /\ row[o].fresh
    /\ row' = [row EXCEPT ![o].fresh = FALSE]
    /\ UNCHANGED <<action, task, request, late, clicks, crashes>>

(* The process stops: its tasks and requests are lost. *)
Crash ==
    /\ crashes < MaxCrashes
    /\ crashes' = crashes + 1
    /\ task' = [o \in Ops |-> [n \in Numbers |->
                   IF At(o, n, "none") THEN NoTask ELSE Done]]
    /\ request' = [r \in Users \cup Watchers |-> Idle]
    /\ UNCHANGED <<action, row, late, clicks>>

Next ==
    \/ \E o \in Ops, n \in Numbers : Run(o, n)
    \/ \E r \in Users, kind \in Clicks, o \in Ops : Click(r, kind, o)
    \/ \E r \in Watchers, o \in Ops : Poll(r, o)
    \/ \E r \in Users \cup Watchers : Serve(r)
    \/ \E o \in Ops : Age(o)
    \/ Crash

Spec == Init /\ [][Next]_vars

(* The threads of tasks and of requests run, a page that shows the session  *)
(* polls it, and time passes.                                               *)
FairSpec ==
    /\ Spec
    /\ WF_vars(\E o \in Ops, n \in Numbers : Run(o, n))
    /\ WF_vars(\E r \in Users \cup Watchers : Serve(r))
    /\ WF_vars(\E r \in Watchers, o \in Ops : Poll(r, o))
    /\ WF_vars(\E o \in Ops : Age(o))

-----------------------------------------------------------------------------
(* Properties. *)

OpTypeOK ==
    /\ action \in Actions
    /\ row \in [Ops -> Row]
    /\ task \in [Ops -> [Numbers -> Task]]
    /\ request \in [Users \cup Watchers -> Request]
    /\ late \in [Ops -> SUBSET (Numbers \X Rounds)]
    /\ clicks \in 0..MaxClicks /\ crashes \in 0..MaxCrashes

(* "El runtime se detendra en el siguiente checkpoint seguro": after a      *)
(* cancellation was asked for no task begins two rounds of work.            *)
StopsAtNextCheckpoint ==
    \A o \in Ops, n \in Numbers : ~({<<n, 1>>, <<n, 2>>} \subseteq late[o])

(* Only a crash leaves an operation queued or running that no task works    *)
(* for: every other way a task ends is written, also when requests and      *)
(* other tasks of the operation wrote since it looked.                      *)
OnlyCrashesStrand ==
    \A o \in Ops :
        row[o].status \in Active /\ crashes = 0 =>
            \E n \in Numbers : task[o][n].pc \notin {"none", "done"}

(* Whatever crashes, breaks, is cancelled or outlives its heartbeat: at     *)
(* last no operation is shown as queued or running.                         *)
OperationsSettle == <>[](\A o \in Ops : row[o].status \notin Active)

(* An operation that is completed or waits for the user names the artifact  *)
(* it made.                                                                 *)
ResultNamed ==
    \A o \in Ops :
        row[o].status \in {"completed", "waiting"}
            => row[o].result \/ action = "generate_estimation_report"

(* A repeated start or retry starts no second task: one task per attempt.   *)
AttemptsMatchTasks ==
    \A o \in Ops : row[o].attempt = Cardinality({n \in Numbers : ~At(o, n, "none")})

(* "requiere reintento explicito": an operation that failed is at work again, *)
(* or completed, only after a retry.                                        *)
FailedNeedsRetry ==
    [][\A o \in Ops :
         row[o].status = "failed" /\ row'[o].status \notin {"failed", "cancelled"} =>
            row'[o].attempt > row[o].attempt]_vars

(* "cooperatively cancelled": the task that carries out a cancellation ends. *)
CancelEndsTask ==
    [][\A o \in Ops, n \in Numbers :
         At(o, n, "stop") /\ ~At(o, n, "stop")' => task'[o][n] = Done]_vars

(* A session works for one operation of an action at a time. *)
OneActive ==
    \A o, p \in Ops : row[o].status \in Active /\ row[p].status \in Active => o = p
================================================================================
