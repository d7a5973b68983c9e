-------------------------- MODULE ProductBuildQueue --------------------------
(* The processing queue of one Blueprint Pro build run                      *)
(* (product_build_orchestrator.py): requests that reconcile the run or      *)
(* enqueue its deliverables, the background worker that generates them in   *)
(* batches and retries the failures once, the recovery of a queue that a    *)
(* restart abandoned, and the diagrams users generate by hand.              *)
(*                                                                          *)
(* The processing queue lives in a JSON column of the run row.  A request   *)
(* reads the row when it starts and writes it when it ends; others may    *)
(* write it in between.                                                     *)
EXTENDS Naturals, FiniteSets

CONSTANTS
    Items,        \* the expected deliverables of the run, in all its queues
    Rank,         \* [Items -> Nat]: their topological order
    Deps,         \* [Items -> SUBSET Items]: dependency_policy.depends_on
    Diagrams,     \* items that a user may also generate by hand
    Workers,      \* threads that run background tasks
    Handlers,     \* threads that run requests
    NoRow,        \* a handler of no overlapped request
    BatchSize,    \* _product_build_batch_size
    MaxQueues,    \* bound on the queues enqueued
    MaxReads,     \* bound on the requests others overlap with
    MaxCrashes    \* bound on the process restarts

ASSUME BuildConstants ==
    /\ Rank \in [Items -> Nat]
    /\ Deps \in [Items -> SUBSET Items]
    /\ Diagrams \subseteq Items
    /\ BatchSize \in Nat \ {0}
    /\ MaxQueues \in Nat /\ MaxReads \in Nat /\ MaxCrashes \in Nat

VARIABLES
    run,        \* Run: the row of product_build_runs
    step,       \* [Items -> Step]: rows of product_build_steps
    job,        \* [Items -> JobStates]: the latest generation job of an item
    keyed,      \* [Keys -> JobStates]: the job under an idempotency key
    built,      \* items with a current version (artifact or diagram)
    stepFresh,  \* items whose step was updated in the last 15 minutes
    jobFresh,   \* items whose job was
    tasks,      \* background tasks scheduled and not begun
    worker,     \* [Workers -> Worker]
    manual,     \* diagrams a user's own task is generating
    read,       \* [Handlers -> the row the request read, or NoRow]
    queues, reads, crashes   \* counters that bound the model

rows   == <<run, step, job, keyed>>
others == <<manual, read, queues, reads, crashes>>  \* of no concern to a task
vars == <<rows, built, stepFresh, jobFresh, tasks, worker, others>>

QueueActive  == {"queued", "running"}                \* QUEUE_ACTIVE_STATUSES
QueueEnded   == {"completed", "completed_with_errors"}
StepActive   == {"queued", "running", "generating"}  \* QUEUE_ACTIVE_STEP_STATES
StepStates   == {"pending", "available", "error"} \cup StepActive
Lifecycles   == {"ready_to_start", "running", "queued", "partial",
                 "requires_attention", "completed"}
Phases       == {"initial", "retry"}
MaxAttempts  == 2                                \* MAX_PROCESSING_ATTEMPTS

Queue  == [id: 0..MaxQueues, status: {"none"} \cup QueueActive \cup QueueEnded,
           selected: SUBSET Items]
Run    == [queue: Queue, done: SUBSET Items, blocked: SUBSET Items,
           lifecycle: Lifecycles, sealed: BOOLEAN]
Step   == [status: StepStates, attempts: Nat]
(* A job is active from its creation on: queued, updating and generating    *)
(* are one status, and so are error and requires_attention, here and in     *)
(* steps: what one of them allows the other does.                           *)
JobStates == {"none", "generating", "available", "error"}
(* _queue_job_idempotency_key.  Queue 0 selected nothing. *)
Keys == Items \X (0..MaxQueues) \X Phases
(* selected: what the queue selected when the task began.  own: the key of  *)
(* the job an item is generated by; queue 0 for a job under a fresh key.    *)
Worker == [pc: {"off", "pass"}, phase: Phases, selected: SUBSET Items,
           todo: SUBSET Items, failed: SUBSET Items, seen: SUBSET Items,
           line: [Items -> {"idle", "batch", "begun", "generating"}],
           own: [Items -> 0..MaxQueues]]

Off == [pc |-> "off", phase |-> "initial", selected |-> {}, todo |-> {},
        failed |-> {}, seen |-> {}, line |-> [i \in Items |-> "idle"],
        own |-> [i \in Items |-> 0]]

-----------------------------------------------------------------------------
(* What a transaction does to the rows s it works on: run, step, job, and   *)
(* fresh, the steps it finds updated in the last 15 minutes.                *)

(* Items whose catalog access is "available": those with a version, and     *)
(* those whose latest job is active.                                        *)
Catalog(jb) == built \cup {i \in Items : jb[i] \in {"generating", "available"}}

(* Mutant: an item without a job has no state of its own. *)
StateOfJob(i, seen, s) == IF i \in seen THEN "available" ELSE s.job[i]

(* _step_state_for_item, for the items whose access was seen "available".   *)
StateOf(i, seen, s) ==
    IF i \in seen \/ s.job[i] = "available" THEN "available"
    ELSE IF s.job[i] # "none" THEN s.job[i]
    ELSE IF s.step[i].status \in StepActive \cup {"error"} THEN s.step[i].status
    ELSE "pending"

(* _sync_expected_steps: an active queue keeps the steps it works on.       *)
Synced(s, seen) ==
    [s EXCEPT !.fresh = Items, !.step = [i \in Items |->
        IF s.run.queue.status \in QueueActive /\ s.step[i].status \in StepActive
        THEN s.step[i]
        ELSE [s.step[i] EXCEPT !.status = StateOf(i, seen, s)]]]

With(s, S) == {i \in Items : s.step[i].status \in S}

(* _finalize_run_from_steps. *)
Lifecycle(s) ==
    LET active == With(s, StepActive) # {}
        done   == With(s, {"available"})
    IN  IF s.run.queue.status \in QueueActive
          THEN IF active THEN "running" ELSE "queued"
        ELSE IF With(s, {"error"}) # {} THEN "requires_attention"
        ELSE IF done = Items THEN "completed"
        ELSE IF active THEN "running"
        ELSE IF done # {} THEN "partial"
        ELSE "ready_to_start"

Finalized(s) ==
    [s EXCEPT !.run.lifecycle = Lifecycle(s),
              !.run.done = With(s, {"available"}),
              !.run.blocked = With(s, {"error"}),
              !.run.sealed = @ \/ Lifecycle(s) = "completed"]

(* _active_queue_step_updated_at: an active job speaks for its step. *)
Recent(i, s) == IF s.job[i] = "generating" THEN i \in jobFresh
                                                  ELSE i \in s.fresh

(* Mutant: steps are orphans however recent their last update is. *)
OrphansAnyAge(s) == With(s, {"running", "generating"})

(* Mutant: only the steps of an active queue can be orphans. *)
OrphansOfQueue(s) ==
    IF s.run.queue.status \in QueueActive /\ s.fresh \cup jobFresh = {}
    THEN With(s, {"running", "generating"}) ELSE {}

(* _recover_orphaned_processing_queue: the steps nobody works on. *)
Orphans(s) ==
    LET active   == With(s, StepActive)
        selected == active \cap s.run.queue.selected
        inFlight == {i \in selected : s.step[i].status # "queued"}
    IN  IF s.run.queue.status \notin QueueActive THEN active
        ELSE IF inFlight # {}
          THEN IF \E i \in inFlight : Recent(i, s) THEN {} ELSE inFlight
        ELSE IF s.fresh # {} THEN {} ELSE selected

(* _mark_queue_steps_as_orphaned: the steps, their active jobs and the      *)
(* whole queue are closed.                                                  *)
Recovered(s) ==
    LET lost == Orphans(s)
    IN  IF lost = {} THEN s ELSE
        [s EXCEPT
            !.run.queue.status = "completed_with_errors",
            !.run.lifecycle = "requires_attention",
            !.step = [i \in Items |-> IF i \in lost
                        THEN [@[i] EXCEPT !.status = "error"] ELSE @[i]],
            !.job = [i \in Items |-> IF i \in lost /\ @[i] = "generating"
                        THEN "error" ELSE @[i]],
            !.keyed = [k \in Keys |-> IF k[1] \in lost /\ @[k] = "generating"
                        THEN "error" ELSE @[k]]]

(* reconcile_product_build_run, and the body of                             *)
(* ensure_product_build_orchestration: recover, sync, finalize.             *)
Reconciled(s) ==
    LET rec == Recovered(s) IN Finalized(Synced(rec, Catalog(rec.job)))

Rows(r) == [run |-> r, step |-> step, job |-> job, keyed |-> keyed,
            fresh |-> stepFresh]

(* An UPDATE writes the columns that changed since the row was read: the    *)
(* JSON column (queue, done, blocked) is one of them.                       *)
Checkpoint(r) == [queue |-> r.queue, done |-> r.done, blocked |-> r.blocked]

(* Mutant: the whole row is written. *)
UpdatedRow(old, new) == new

Updated(old, new) ==
    LET keep == Checkpoint(new) = Checkpoint(old)
    IN  [queue     |-> IF keep THEN run.queue ELSE new.queue,
         done      |-> IF keep THEN run.done ELSE new.done,
         blocked   |-> IF keep THEN run.blocked ELSE new.blocked,
         lifecycle |-> IF new.lifecycle = old.lifecycle THEN run.lifecycle
                                                        ELSE new.lifecycle,
         sealed    |-> IF new.sealed = old.sealed THEN run.sealed
                                                  ELSE new.sealed]

-----------------------------------------------------------------------------
(* Requests. *)

(* get_session and the first query for the run: what the request sees of    *)
(* the row until it commits.                                                *)
Read(h) ==
    /\ reads < MaxReads /\ read[h] = NoRow
    /\ read' = [read EXCEPT ![h] = run]
    /\ reads' = reads + 1
    /\ UNCHANGED <<rows, built, stepFresh, jobFresh, tasks, worker, manual,
                   queues, crashes>>

(* A request that others do not overlap with sees the row as it is. *)
Seen(h) == IF read[h] = NoRow THEN run ELSE read[h]
Answer(h) == read' = [read EXCEPT ![h] = NoRow] /\ UNCHANGED reads

Commit(h, s) ==
    /\ run' = Updated(Seen(h), s.run)
    /\ step' = s.step /\ job' = s.job /\ keyed' = s.keyed
    /\ stepFresh' = s.fresh

(* The status routes and stage approvals that reconcile the run. *)
Reconcile(h) ==
    /\ Answer(h)
    /\ Commit(h, Reconciled(Rows(Seen(h))))
    /\ UNCHANGED <<built, jobFresh, tasks, worker, manual, queues, crashes>>

(* QUEUE_ELIGIBLE_STATES, QUEUE_RETRY_ONLY_STATES. *)
Eligible(mode) == IF mode = "retry_failed" THEN {"error"} ELSE {"pending"}

Selected(s, mode) ==
    {i \in Items : StateOf(i, Catalog(s.job), s) \in Eligible(mode)}

Busy(r) == r.queue.status \in QueueActive

(* Mutant: a queue that ended is opened again. *)
EnqueuedAgain(s, S, id) ==
    [s EXCEPT !.run.queue = [id |-> 1, status |-> "queued", selected |-> S],
              !.step = [i \in Items |-> IF i \in S
                  THEN [status |-> "queued", attempts |-> 0] ELSE @[i]]]

Enqueued(s, S, id) ==
    [s EXCEPT !.run.queue = [id |-> id, status |-> "queued", selected |-> S],
              !.step = [i \in Items |-> IF i \in S
                  THEN [status |-> "queued", attempts |-> 0] ELSE @[i]]]

NothingToDo(s) ==
    [s EXCEPT !.run.queue = [id |-> 0, status |-> "completed", selected |-> {}]]

(* The row the request has when it decides: ensure_product_build_           *)
(* orchestration reconciled it, and orphans are looked for once more.       *)
Checked(h) == Recovered(Reconciled(Rows(Seen(h))))

(* enqueue_product_build_processing: refused by a sealed run and by an      *)
(* active queue; the answer reconciles the run again.                       *)
Refuse(h) ==
    /\ Answer(h)
    /\ \/ Seen(h).sealed /\ UNCHANGED <<rows, stepFresh>>
       \/ /\ ~Seen(h).sealed /\ Busy(Checked(h).run)
          /\ Commit(h, Reconciled(Checked(h)))
    /\ UNCHANGED <<built, jobFresh, tasks, worker, manual, queues, crashes>>

Enqueue(h, mode) ==
    LET rec == Checked(h)
        s == Synced(rec, Catalog(rec.job))
        S == Selected(s, mode)
    IN  /\ Answer(h)
        /\ ~Seen(h).sealed /\ ~Busy(rec.run)
        /\ IF S = {}
              THEN /\ Commit(h, Reconciled(NothingToDo(s)))
                   /\ UNCHANGED <<tasks, queues>>
              ELSE /\ queues < MaxQueues
                   /\ Commit(h, Reconciled(Enqueued(s, S, queues + 1)))
                   /\ queues' = queues + 1
                   /\ tasks' = tasks + 1
        /\ UNCHANGED <<built, jobFresh, worker, manual, crashes>>

-----------------------------------------------------------------------------
(* The background task run_product_build_processing, by worker w. *)

Begin(w) ==
    /\ tasks > 0 /\ worker[w] = Off
    /\ tasks' = tasks - 1
    /\ IF Busy(run)
         THEN /\ run' = [run EXCEPT !.queue.status = "running",
                                    !.lifecycle = "running"]
              /\ worker' = [worker EXCEPT ![w] =
                    [Off EXCEPT !.pc = "pass", !.selected = run.queue.selected,
                                !.todo = run.queue.selected,
                                !.seen = Catalog(job)]]
         ELSE UNCHANGED <<run, worker>>
    /\ UNCHANGED <<step, job, keyed, built, stepFresh, jobFresh, others>>

(* Mutant: a dependency that was tried will do. *)
ReadyIfTried(w, i) ==
    \A d \in Deps[i] :
        StateOf(d, worker[w].seen, Rows(run)) \in {"available", "error"}

(* _dependency_error_for_item, with the catalog the worker read at its start. *)
Ready(w, i) ==
    \A d \in Deps[i] : StateOf(d, worker[w].seen, Rows(run)) = "available"

FirstOf(S) == {i \in S : \A j \in S : Rank[i] <= Rank[j]}

(* _next_ready_batch: which of the ready items run together depends on      *)
(* estimates; when none is ready the first one is tried all the same.       *)
Batches(w) ==
    LET todo  == worker[w].todo
        ready == {i \in todo : Ready(w, i)}
    IN  IF ready = {} THEN {FirstOf(todo)}
        ELSE IF BatchSize = 1 THEN {FirstOf(ready)}
        ELSE {B \in SUBSET ready : B # {} /\ Cardinality(B) <= BatchSize}

Waiting(w) == /\ worker[w].pc = "pass"
              /\ \A i \in Items : worker[w].line[i] = "idle"

NextBatch(w) ==
    /\ Waiting(w) /\ worker[w].todo # {}
    /\ \E B \in Batches(w) :
          worker' = [worker EXCEPT
              ![w].todo = @ \ B,
              ![w].line = [i \in Items |-> IF i \in B THEN "batch" ELSE "idle"]]
    /\ run' = [run EXCEPT !.queue.status = "running"]
    /\ UNCHANGED <<step, job, keyed, built, stepFresh, jobFresh, tasks, others>>

Line(w, i, pc) == worker' = [worker EXCEPT ![w].line[i] = pc]

Failed(w, i) == worker' = [worker EXCEPT ![w].line[i] = "idle",
                                         ![w].failed = @ \cup {i}]

Wrote(i, status) ==
    /\ step' = [step EXCEPT ![i].status = status]
    /\ stepFresh' = stepFresh \cup {i}

(* _process_single_queue_item up to its first commit.  The sequential path  *)
(* marks the run running again.                                             *)
BeginItem(w, i) ==
    /\ worker[w].line[i] = "batch"
    /\ step' = [step EXCEPT ![i].status = "running", ![i].attempts = @ + 1]
    /\ stepFresh' = stepFresh \cup {i}
    /\ Line(w, i, "begun")
    /\ run' = IF BatchSize = 1 THEN [run EXCEPT !.queue.status = "running",
                                                !.lifecycle = "running"]
              ELSE run
    /\ UNCHANGED <<job, keyed, built, jobFresh, tasks, others>>

(* Mutant: the skipped diagram is not among the failures. *)
SkipItemQuietly(w, i) ==
    /\ worker[w].line[i] = "batch" /\ i \in Diagrams
    /\ Wrote(i, "error")
    /\ Line(w, i, "idle")
    /\ run' = IF BatchSize = 1 THEN [run EXCEPT !.queue.status = "running"]
              ELSE run
    /\ UNCHANGED <<job, keyed, built, jobFresh, tasks, others>>

(* A diagram that needs an LLM when the queue allows none: no attempt. *)
SkipItem(w, i) ==
    /\ worker[w].line[i] = "batch" /\ i \in Diagrams
    /\ Wrote(i, "error")
    /\ Failed(w, i)
    /\ run' = IF BatchSize = 1 THEN [run EXCEPT !.queue.status = "running"]
              ELSE run
    /\ UNCHANGED <<job, keyed, built, jobFresh, tasks, others>>

Key(w, i) == <<i, run.queue.id, worker[w].phase>>

(* The dependency is missing. *)
BlockItem(w, i) ==
    /\ worker[w].line[i] = "begun"
    /\ ~Ready(w, i)
    /\ Wrote(i, "error")
    /\ Failed(w, i)
    /\ UNCHANGED <<run, job, keyed, built, jobFresh, tasks, others>>

(* A job with the idempotency key of this attempt is there already: done    *)
(* counts as success, and a diagram job in progress as failure.             *)
AdoptItem(w, i) ==
    /\ worker[w].line[i] = "begun"
    /\ Ready(w, i)
    /\ \/ /\ keyed[Key(w, i)] = "available"
          /\ Wrote(i, "available")
          /\ Line(w, i, "idle")
       \/ /\ keyed[Key(w, i)] = "generating" /\ i \in Diagrams
          /\ Wrote(i, "error")
          /\ Failed(w, i)
    /\ UNCHANGED <<run, job, keyed, built, jobFresh, tasks, others>>

(* run_deliverable_generation_task, create_generation_job for a diagram:    *)
(* the job under the key is created, or used again while it is active; when *)
(* it failed, a job under a fresh key is.                                   *)
Generate(w, i) ==
    LET key == Key(w, i)
    IN  /\ worker[w].line[i] = "begun"
        /\ Ready(w, i)
        /\ keyed[key] # "available"
        /\ keyed[key] = "generating" => i \notin Diagrams
        /\ job' = [job EXCEPT ![i] = "generating"]
        /\ jobFresh' = jobFresh \cup {i}
        /\ IF keyed[key] = "error"
              THEN /\ keyed' = keyed
                   /\ worker' = [worker EXCEPT ![w].line[i] = "generating",
                                               ![w].own[i] = 0]
              ELSE /\ keyed' = [keyed EXCEPT ![key] = "generating"]
                   /\ worker' = [worker EXCEPT ![w].line[i] = "generating",
                                               ![w].own[i] = run.queue.id]
        /\ IF i \in Diagrams THEN Wrote(i, "generating")
                             ELSE UNCHANGED <<step, stepFresh>>
        /\ UNCHANGED <<run, built, tasks, others>>

(* The row of the job is updated, and so becomes the latest of its item. *)
Ended(w, i, status) ==
    [Rows(run) EXCEPT
        !.job[i] = status,
        !.keyed = IF worker[w].own[i] = 0 THEN @ ELSE
                  [@ EXCEPT ![<<i, worker[w].own[i], worker[w].phase>>] = status]]

(* The generator answers and the step is recorded; a diagram that was       *)
(* generated also reconciles the run before its step is recorded.           *)
EndItem(w, i) ==
    /\ worker[w].line[i] = "generating"
    /\ \/ LET s == Ended(w, i, "available")
              rec == IF i \in Diagrams THEN Reconciled(s) ELSE s
          IN  /\ built' = built \cup {i}
              /\ run' = rec.run /\ job' = rec.job /\ keyed' = rec.keyed
              /\ step' = [rec.step EXCEPT ![i].status = "available"]
              /\ stepFresh' = rec.fresh \cup {i}
              /\ Line(w, i, "idle")
       \/ /\ LET s == Ended(w, i, "error")
             IN  job' = s.job /\ keyed' = s.keyed
          /\ Wrote(i, "error")
          /\ Failed(w, i)
          /\ UNCHANGED <<run, built>>
    /\ jobFresh' = jobFresh \cup {i}
    /\ UNCHANGED <<tasks, others>>

(* The initial pass is over: its failures are tried once more. *)
Retry(w) ==
    /\ Waiting(w) /\ worker[w].todo = {} /\ worker[w].phase = "initial"
    /\ worker' = [worker EXCEPT ![w].phase = "retry",
                                ![w].todo = worker[w].failed,
                                ![w].failed = {}]
    /\ UNCHANGED <<rows, built, stepFresh, jobFresh, tasks, others>>

(* _mark_failed_queue_jobs_as_error: the jobs of the failed items that did  *)
(* not start are closed; users' tasks find them closed and return.  Whether *)
(* a user's job started is not in the model.                                *)
CloseJobs(failed) ==
    \E S \in SUBSET (failed \cap manual) :
        /\ job' = [i \in Items |-> IF i \in S THEN "error" ELSE job[i]]
        /\ jobFresh' = jobFresh \cup S
        /\ manual' = manual \ S

(* Mutant: the task ends without ending its queue. *)
FinishOpen(w) ==
    /\ Waiting(w) /\ worker[w].todo = {} /\ worker[w].phase = "retry"
    /\ LET s == Finalized(Synced(Rows(run), worker[w].seen))
       IN  run' = s.run /\ step' = s.step /\ stepFresh' = s.fresh
    /\ CloseJobs(worker[w].failed)
    /\ worker' = [worker EXCEPT ![w] = Off]
    /\ UNCHANGED <<keyed, built, tasks, read, queues, reads, crashes>>

(* The end of the task, with the catalog it read at its start. *)
Finish(w) ==
    /\ Waiting(w) /\ worker[w].todo = {} /\ worker[w].phase = "retry"
    /\ LET r == [run EXCEPT !.queue.status =
                    IF worker[w].failed = {} THEN "completed"
                                             ELSE "completed_with_errors"]
           s == Finalized(Synced(Rows(r), worker[w].seen))
       IN  run' = s.run /\ step' = s.step /\ stepFresh' = s.fresh
    /\ CloseJobs(worker[w].failed)
    /\ worker' = [worker EXCEPT ![w] = Off]
    /\ UNCHANGED <<keyed, built, tasks, read, queues, reads, crashes>>

-----------------------------------------------------------------------------
(* A user generates a diagram in the diagram center (generate_diagram_v3).  *)
ManualStart(i) ==
    /\ i \in Diagrams \ (manual \cup built)
    /\ job' = [job EXCEPT ![i] = "generating"]
    /\ jobFresh' = jobFresh \cup {i}
    /\ manual' = manual \cup {i}
    /\ UNCHANGED <<run, step, keyed, built, stepFresh, tasks, worker, read,
                   queues, reads, crashes>>

(* run_generation_job: a version was stored and the run is reconciled, or   *)
(* the job failed.                                                          *)
ManualEnd(i) ==
    /\ i \in manual
    /\ manual' = manual \ {i}
    /\ jobFresh' = jobFresh \cup {i}
    /\ \/ LET rec == Reconciled([Rows(run) EXCEPT !.job[i] = "available"])
          IN  /\ built' = built \cup {i}
              /\ run' = rec.run /\ step' = rec.step
              /\ job' = rec.job /\ keyed' = rec.keyed
              /\ stepFresh' = rec.fresh
       \/ /\ job' = [job EXCEPT ![i] = "error"]
          /\ UNCHANGED <<run, step, keyed, built, stepFresh>>
    /\ UNCHANGED <<tasks, worker, read, queues, reads, crashes>>

-----------------------------------------------------------------------------
Working(w) == worker[w].pc = "pass"
Quiet == tasks = 0 /\ manual = {} /\ \A w \in Workers : ~Working(w)

(* The process stops: requests, tasks and what they were generating are     *)
(* lost, the rows stay.                                                     *)
Crash ==
    /\ crashes < MaxCrashes
    /\ ~Quiet
    /\ crashes' = crashes + 1
    /\ tasks' = 0 /\ manual' = {}
    /\ worker' = [w \in Workers |-> Off]
    /\ read' = [h \in Handlers |-> NoRow]
    /\ UNCHANGED <<rows, built, stepFresh, jobFresh, queues, reads>>

(* ORPHANED_JOB_TIMEOUT goes by and no request comes.  Nothing generates    *)
(* for that long.                                                           *)
QuarterHour ==
    /\ Quiet
    /\ \A h \in Handlers : read[h] = NoRow
    /\ stepFresh \cup jobFresh # {}
    /\ stepFresh' = {} /\ jobFresh' = {}
    /\ UNCHANGED <<rows, built, tasks, worker, others>>

Item(w, i) == \/ BeginItem(w, i) \/ SkipItem(w, i) \/ BlockItem(w, i)
              \/ AdoptItem(w, i) \/ Generate(w, i) \/ EndItem(w, i)

Task(w) == \/ Begin(w) \/ NextBatch(w) \/ Retry(w) \/ Finish(w)
           \/ \E i \in Items : Item(w, i)

Request(h) == \/ Read(h) \/ Reconcile(h) \/ Refuse(h)
              \/ \E m \in {"process_pending", "retry_failed"} : Enqueue(h, m)

Init ==
    /\ run = [queue |-> [id |-> 0, status |-> "none", selected |-> {}],
              done |-> {}, blocked |-> {}, lifecycle |-> "ready_to_start",
              sealed |-> FALSE]
    /\ step = [i \in Items |-> [status |-> "pending", attempts |-> 0]]
    /\ job = [i \in Items |-> "none"] /\ keyed = [k \in Keys |-> "none"]
    /\ built = {} /\ stepFresh = Items /\ jobFresh = {}
    /\ tasks = 0 /\ manual = {}
    /\ worker = [w \in Workers |-> Off]
    /\ read = [h \in Handlers |-> NoRow]
    /\ queues = 0 /\ reads = 0 /\ crashes = 0

Next ==
    \/ \E h \in Handlers : Request(h)
    \/ \E w \in Workers : Task(w)
    \/ \E i \in Diagrams : ManualStart(i) \/ ManualEnd(i)
    \/ Crash
    \/ QuarterHour

Spec == Init /\ [][Next]_vars

(* Tasks and requests keep running; some request reconciles the run, also   *)
(* after a quarter of an hour without one.                                  *)
FairSpec ==
    /\ Spec
    /\ \A w \in Workers : WF_vars(Task(w))
    /\ \A h \in Handlers : WF_vars(Reconcile(h))
    /\ WF_vars(QuarterHour)

-----------------------------------------------------------------------------
(* Type invariant: the rows and the records of the threads are well formed. *)
TypeOK ==
    /\ run \in Run
    /\ step \in [Items -> Step]
    /\ job \in [Items -> JobStates] /\ keyed \in [Keys -> JobStates]
    /\ built \subseteq Items
    /\ stepFresh \subseteq Items /\ jobFresh \subseteq Items
    /\ tasks \in Nat
    /\ worker \in [Workers -> Worker]
    /\ manual \subseteq Diagrams
    /\ read \in [Handlers -> Run \cup {NoRow}]
    /\ queues \in 0..MaxQueues /\ reads \in 0..MaxReads
    /\ crashes \in 0..MaxCrashes

(* The task of a queue that reports no failure built everything the queue   *)
(* selected when the task began, also when tasks of one queue adopt each    *)
(* other's jobs, skip diagrams or run under another queue than their own.   *)
EndsClean(w) == /\ Working(w) /\ worker'[w] = Off /\ UNCHANGED crashes
                /\ worker[w].failed = {}
CleanEndBuilt ==
    [][\A w \in Workers : EndsClean(w) => worker[w].selected \subseteq built]_vars

(* Requests and the queue of a task.  While a task works, a queue that is   *)
(* active is ended or replaced only by the end of a task, or by a request   *)
(* that read the row when the queue was another: no other request takes a   *)
(* living task's steps for orphans or enqueues over them, unless a job that *)
(* a restart left behind for a quarter of an hour is among them.  And a     *)
(* queue that ended is active again only by a task still working, or by a   *)
(* request that read the row before the end.                                *)
Answered(h) == read[h] # NoRow /\ read'[h] = NoRow
Taken      == ~Busy(run') \/ run'.queue.id # run.queue.id
Reopened   == Busy(run') /\ run'.queue.id = run.queue.id

QueueKept ==
    [][/\ Busy(run) /\ Taken /\ (\E w \in Workers : Working(w) /\ worker'[w] # Off)
            => \/ \E v \in Workers : Working(v) /\ worker'[v] = Off
               \/ \E h \in Handlers : Answered(h) /\ read[h].queue # run.queue
               \/ \E i \in Items : job[i] = "generating" /\ i \notin jobFresh
       /\ run.queue.status \in QueueEnded /\ Reopened
            => \/ \E w \in Workers : Working(w) /\ Task(w)
               \/ \E h \in Handlers : /\ Answered(h) /\ Busy(read[h])
                                      /\ read[h].queue.id = run.queue.id]_vars

(* The seal is never lifted, also not by a request that read the row before *)
(* it was set.                                                              *)
SealIsForever == [][run.sealed => run'.sealed]_vars

(* What has a job.  A deliverable that users do not make by hand gets its   *)
(* first job after all its dependencies got theirs, and a run is sealed     *)
(* when all of them have.  (That they have versions too holds for neither,  *)
(* see SealedWhenBuilt.)                                                    *)
Started == {i \in Items : job[i] # "none"}
StartedInOrder ==
    /\ \A i \in Started \ Diagrams : Deps[i] \subseteq Started
    /\ run.sealed => Started = Items

(* A deliverable is attempted at most twice per queue, first and retry.     *)
(* Refuted by two requests that enqueue at once: each schedules a task.     *)
AttemptsBounded == \A i \in Items : step[i].attempts <= MaxAttempts

(* The seal of a Blueprint Pro run is set once all its steps complete: at   *)
(* that time every deliverable has a version.  Refuted by a job that is     *)
(* only active, which makes its deliverable available.                      *)
SealedWhenBuilt == run.sealed => built = Items

(* A queue that shows "completed" built everything it selected.  Refuted    *)
(* where a task ends a queue that is not the one it began.                  *)
CompletedQueueBuilt ==
    run.queue.status = "completed" => run.queue.selected \subseteq built

(* Once a queue ends no step is left active for good. *)
StepsSettle ==
    \A i \in Items : step[i].status \in StepActive
                       ~> step[i].status \notin StepActive

(* Every queue ends.  Refuted by a restart, after which nobody ends it.     *)
QueueEnds == run.queue.status \in QueueActive
             ~> run.queue.status \notin QueueActive

(* Without a restart it does. Refuted by a request that writes an active    *)
(* queue over its end: it has no task and no active step left.              *)
QueueEndsUnlessStopped == []<>(~Busy(run) \/ crashes > 0)

(* Every queue ends, unless the process was restarted or a request read the *)
(* row before another transaction wrote it.                                 *)
QueueEndsUndisturbed == []<>(~Busy(run) \/ crashes > 0 \/ reads > 0)

(* The run implements the contract of BuildContract, as long as requests do *)
(* not overlap with each other and no user makes diagrams by hand.          *)
Making == [i \in Items |->
             Cardinality({w \in Workers : worker[w].line[i] = "generating"})]
Contract == INSTANCE BuildContract WITH making <- Making, sealed <- run.sealed
ImplementsContract == Contract!Spec
=============================================================================
