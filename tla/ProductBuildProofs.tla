--------------------------- MODULE ProductBuildProofs ---------------------------
(* Proofs about ProductBuildQueue for any deliverables, dependencies, workers,  *)
(* requests and batch size, and any number of queues, overlaps and restarts.    *)
EXTENDS ProductBuildQueue, FiniteSetTheorems, TLAPS

(* What a transaction works on.                                                 *)
Snapshot == [run: Run, step: [Items -> Step], job: [Items -> JobStates],
             keyed: [Keys -> JobStates], fresh: SUBSET Items]

(* The parts of a snapshot.                                                     *)
LEMMA Parts ==
    ASSUME NEW s \in Snapshot
    PROVE  /\ s.run \in Run /\ s.step \in [Items -> Step] /\ s.job \in [Items -> JobStates]
           /\ s.keyed \in [Keys -> JobStates] /\ s.fresh \subseteq Items
           /\ s.run.queue \in Queue /\ s.run.sealed \in BOOLEAN
           /\ s.run.queue.selected \subseteq Items
BY DEF Snapshot, Run, Queue

(* A step of an item has one of the states there are.                           *)
LEMMA StateTyped ==
    ASSUME NEW s \in Snapshot, NEW i \in Items, NEW seen
    PROVE  StateOf(i, seen, s) \in StepStates
<1>1. s.job[i] \in JobStates /\ s.step[i].status \in StepStates
  BY Parts DEF Step
<1> QED BY <1>1 DEF StateOf, JobStates, StepStates, StepActive

(* _sync_expected_steps leaves run and jobs alone.                              *)
LEMMA SyncedKeeps ==
    ASSUME NEW s \in Snapshot, NEW seen
    PROVE  /\ Synced(s, seen) \in Snapshot
           /\ Synced(s, seen).run = s.run /\ Synced(s, seen).job = s.job
           /\ Synced(s, seen).keyed = s.keyed
<1> DEFINE st == [i \in Items |->
                     IF s.run.queue.status \in QueueActive /\ s.step[i].status \in StepActive
                     THEN s.step[i]
                     ELSE [s.step[i] EXCEPT !.status = StateOf(i, seen, s)]]
<1>1. st \in [Items -> Step]
  BY Parts, StateTyped DEF Step
<1>2. Synced(s, seen) = [[s EXCEPT !.fresh = Items] EXCEPT !.step = st]
  BY DEF Synced
<1> HIDE DEF st
<1> QED BY <1>1, <1>2 DEF Snapshot

(* _finalize_run_from_steps sets the seal and never lifts it.                   *)
LEMMA FinalizedKeeps ==
    ASSUME NEW s \in Snapshot
    PROVE  /\ Finalized(s) \in Snapshot
           /\ Finalized(s).run.queue = s.run.queue
           /\ s.run.sealed => Finalized(s).run.sealed
           /\ Finalized(s).step = s.step /\ Finalized(s).job = s.job
           /\ Finalized(s).keyed = s.keyed /\ Finalized(s).fresh = s.fresh
<1> DEFINE l == Lifecycle(s)
           d == With(s, {"available"})
           b == With(s, {"error"})
           e == s.run.sealed \/ l = "completed"
           r == [[[[s.run EXCEPT !.lifecycle = l] EXCEPT !.done = d] EXCEPT !.blocked = b]
                    EXCEPT !.sealed = e]
<1>1. l \in Lifecycles /\ d \subseteq Items /\ b \subseteq Items /\ e \in BOOLEAN
  BY DEF Lifecycle, Lifecycles, With
<1>2. Finalized(s) = [s EXCEPT !.run = r]
  <2>1. Finalized(s) = [s EXCEPT !.run.lifecycle = l, !.run.done = d, !.run.blocked = b,
                                 !.run.sealed = @ \/ l = "completed"]
    BY DEF Finalized
  <2>2. s = [run |-> s.run, step |-> s.step, job |-> s.job, keyed |-> s.keyed, fresh |-> s.fresh]
        /\ s.run \in Run
    BY DEF Snapshot
  <2> HIDE DEF l, d, b
  <2> QED BY <2>1, <2>2 DEF Run
<1>3. s.run.sealed => e
  OBVIOUS
<1> HIDE DEF l, d, b, e
<1>4. r \in Run /\ r.queue = s.run.queue /\ r.sealed = e
  BY <1>1, Parts DEF Run
<1> HIDE DEF r
<1> QED BY <1>2, <1>3, <1>4 DEF Snapshot

(* _recover_orphaned_processing_queue ends the queue or leaves all as it is.    *)
LEMMA RecoveredKeeps ==
    ASSUME NEW s \in Snapshot
    PROVE  /\ Recovered(s) \in Snapshot
           /\ Recovered(s).run.sealed = s.run.sealed
           /\ Recovered(s).run.queue.id = s.run.queue.id
           /\ Recovered(s).run.queue.selected = s.run.queue.selected
           /\ Recovered(s).fresh = s.fresh
           /\ \/ Orphans(s) = {} /\ Recovered(s) = s
              \/ Orphans(s) # {} /\ Recovered(s).run.queue.status = "completed_with_errors"
<1> DEFINE lost == Orphans(s)
           q == [s.run.queue EXCEPT !.status = "completed_with_errors"]
           r == [[s.run EXCEPT !.queue = q] EXCEPT !.lifecycle = "requires_attention"]
           st == [i \in Items |-> IF i \in lost THEN [s.step[i] EXCEPT !.status = "error"]
                                  ELSE s.step[i]]
           jb == [i \in Items |-> IF i \in lost /\ s.job[i] = "generating" THEN "error"
                                  ELSE s.job[i]]
           ky == [k \in Keys |-> IF k[1] \in lost /\ s.keyed[k] = "generating" THEN "error"
                                 ELSE s.keyed[k]]
<1>1. CASE lost = {}
  BY <1>1 DEF Recovered
<1>2. CASE lost # {}
  <2>1. q \in Queue /\ q.id = s.run.queue.id /\ q.selected = s.run.queue.selected
        /\ q.status = "completed_with_errors"
    BY Parts DEF Queue, QueueEnded
  <2>2. st \in [Items -> Step] /\ jb \in [Items -> JobStates] /\ ky \in [Keys -> JobStates]
    BY Parts DEF Step, StepStates, JobStates
  <2>3. Recovered(s) = [[[[s EXCEPT !.run = r] EXCEPT !.step = st] EXCEPT !.job = jb]
                           EXCEPT !.keyed = ky]
    <3>1. Recovered(s) = [s EXCEPT !.run.queue.status = "completed_with_errors",
                                   !.run.lifecycle = "requires_attention",
                                   !.step = st, !.job = jb, !.keyed = ky]
      BY <1>2 DEF Recovered
    <3>2. s.run.queue \in Queue /\ s.run \in Run /\ s \in Snapshot
      BY Parts
    <3> HIDE DEF lost, st, jb, ky
    <3> QED BY <3>1, <3>2 DEF Run, Queue, Snapshot
  <2> HIDE DEF q, st, jb, ky
  <2>4. r \in Run /\ r.queue = q /\ r.sealed = s.run.sealed
    BY <2>1, Parts DEF Run, Lifecycles
  <2> HIDE DEF r
  <2> QED BY <1>2, <2>1, <2>2, <2>3, <2>4 DEF Snapshot
<1> QED BY <1>1, <1>2

(* reconcile_product_build_run: recover, sync, finalize.                        *)
LEMMA ReconciledKeeps ==
    ASSUME NEW s \in Snapshot
    PROVE  /\ Reconciled(s) \in Snapshot
           /\ s.run.sealed => Reconciled(s).run.sealed
           /\ Reconciled(s).run.queue = Recovered(s).run.queue
<1> DEFINE rec == Recovered(s)
           syn == Synced(rec, Catalog(rec.job))
<1>1. rec \in Snapshot /\ rec.run.sealed = s.run.sealed
  BY RecoveredKeeps
<1> HIDE DEF rec
<1>2. syn \in Snapshot /\ syn.run = rec.run
  BY <1>1, SyncedKeeps
<1> HIDE DEF syn
<1>3. Finalized(syn) \in Snapshot /\ (syn.run.sealed => Finalized(syn).run.sealed)
      /\ Finalized(syn).run.queue = syn.run.queue
  BY <1>2, FinalizedKeeps
<1>4. Reconciled(s) = Finalized(syn)
  BY DEF Reconciled, rec, syn
<1> QED BY <1>1, <1>2, <1>3, <1>4 DEF rec

(* An UPDATE keeps the seal of the row, and of what it writes.                  *)
LEMMA UpdatedKeeps ==
    ASSUME NEW old \in Run, NEW new \in Run, run \in Run
    PROVE  /\ Updated(old, new) \in Run
           /\ (old.sealed => new.sealed) => (run.sealed => Updated(old, new).sealed)
BY DEF Updated, Run

-------------------------------------------------------------------------------
(* What the actions are given and give back.                                    *)
LEMMA Types ==
    ASSUME TypeOK
    PROVE  /\ run \in Run /\ Rows(run) \in Snapshot
           /\ step \in [Items -> Step] /\ job \in [Items -> JobStates]
           /\ keyed \in [Keys -> JobStates] /\ built \subseteq Items
           /\ stepFresh \subseteq Items /\ jobFresh \subseteq Items
           /\ tasks \in Nat /\ worker \in [Workers -> Worker]
           /\ manual \subseteq Diagrams /\ Diagrams \subseteq Items
           /\ read \in [Handlers -> Run \cup {NoRow}]
           /\ \A r \in Run : Rows(r) \in Snapshot /\ Rows(r).run = r
           /\ \A h \in Handlers : Seen(h) \in Run
           /\ run.queue \in Queue
BY BuildConstants DEF TypeOK, Rows, Snapshot, Seen, Run

(* A worker that is set to one.                                                 *)
LEMMA WorkerSet ==
    ASSUME TypeOK, NEW w \in Workers, NEW new \in Worker, worker' = [worker EXCEPT ![w] = new]
    PROVE  worker' \in [Workers -> Worker]
BY Types

(* What a transaction commits is well formed and keeps the seal.                *)
LEMMA Commits ==
    ASSUME TypeOK, NEW h \in Handlers, NEW s \in Snapshot, Commit(h, s),
           Seen(h).sealed => s.run.sealed
    PROVE  /\ run' \in Run /\ step' \in [Items -> Step] /\ job' \in [Items -> JobStates]
           /\ keyed' \in [Keys -> JobStates] /\ stepFresh' \subseteq Items
           /\ run.sealed => run'.sealed
BY Types, Parts, UpdatedKeeps DEF Commit

(* The request's record is forgotten.                                           *)
LEMMA Answers ==
    ASSUME TypeOK, NEW h \in Handlers, Answer(h)
    PROVE  read' \in [Handlers -> Run \cup {NoRow}] /\ reads' = reads
BY Types DEF Answer

(* A queue that is enqueued, or was empty, touches the seal no more than jobs.  *)
LEMMA EnqueuedKeeps ==
    ASSUME NEW s \in Snapshot, NEW S \in SUBSET Items, NEW id \in 0..MaxQueues
    PROVE  /\ Enqueued(s, S, id) \in Snapshot /\ NothingToDo(s) \in Snapshot
           /\ Enqueued(s, S, id).run.queue = [id |-> id, status |-> "queued", selected |-> S]
<1> DEFINE q == [id |-> id, status |-> "queued", selected |-> S]
           z == [id |-> 0, status |-> "completed", selected |-> {}]
           st == [i \in Items |-> IF i \in S THEN [status |-> "queued", attempts |-> 0]
                                  ELSE s.step[i]]
<1>1. q \in Queue /\ z \in Queue
  BY BuildConstants DEF Queue, QueueActive, QueueEnded
<1>2. st \in [Items -> Step]
  BY Parts DEF Step, StepStates, StepActive
<1>3. Enqueued(s, S, id) = [[s EXCEPT !.run = [s.run EXCEPT !.queue = q]] EXCEPT !.step = st]
  BY Parts DEF Enqueued, Snapshot
<1>4. NothingToDo(s) = [s EXCEPT !.run = [s.run EXCEPT !.queue = z]]
  BY Parts DEF NothingToDo
<1> HIDE DEF q, z, st
<1>5. /\ [s.run EXCEPT !.queue = q] \in Run /\ [s.run EXCEPT !.queue = z] \in Run
      /\ [s.run EXCEPT !.queue = q].queue = q
  BY <1>1, Parts DEF Run
<1> QED BY <1>2, <1>3, <1>4, <1>5 DEF Snapshot, q

(* A row of the run with its queue, and perhaps itself, marked.                 *)
LEMMA Marks ==
    ASSUME TypeOK, NEW status \in QueueActive \cup QueueEnded
    PROVE  /\ [run EXCEPT !.queue.status = status] \in Run
           /\ [run EXCEPT !.queue.status = status].sealed = run.sealed
           /\ [run EXCEPT !.queue.status = status, !.lifecycle = "running"] \in Run
           /\ [run EXCEPT !.queue.status = status, !.lifecycle = "running"].sealed = run.sealed
<1> DEFINE q == [run.queue EXCEPT !.status = status]
<1>1. q \in Queue
  BY Types DEF Queue
<1>2. /\ [run EXCEPT !.queue = q] \in Run /\ [run EXCEPT !.queue = q].sealed = run.sealed
      /\ [[run EXCEPT !.queue = q] EXCEPT !.lifecycle = "running"] \in Run
      /\ [[run EXCEPT !.queue = q] EXCEPT !.lifecycle = "running"].sealed = run.sealed
  BY <1>1, Types DEF Run, Lifecycles
<1> QED BY <1>2

(* An item of a worker moves on, or fails.                                      *)
LEMMA Lines ==
    ASSUME TypeOK, NEW w \in Workers, NEW i \in Items,
           NEW pc \in {"idle", "begun", "generating"},
           Line(w, i, pc) \/ Failed(w, i)
    PROVE  worker' \in [Workers -> Worker]
<1> DEFINE l == [worker[w].line EXCEPT ![i] = pc]
           e == [worker[w].line EXCEPT ![i] = "idle"]
           f == worker[w].failed \cup {i}
<1>1. worker[w] \in Worker
  BY Types
<1>2. /\ l \in [Items -> {"idle", "batch", "begun", "generating"}]
      /\ e \in [Items -> {"idle", "batch", "begun", "generating"}]
      /\ f \subseteq Items
  BY <1>1 DEF Worker
<1>3. CASE Line(w, i, pc)
  <2>1. worker' = [worker EXCEPT ![w] = [worker[w] EXCEPT !.line = l]]
    BY <1>3 DEF Line
  <2> HIDE DEF l
  <2>2. [worker[w] EXCEPT !.line = l] \in Worker
    BY <1>1, <1>2 DEF Worker
  <2> QED BY <2>1, <2>2, Types
<1>4. CASE Failed(w, i)
  <2>1. worker' = [worker EXCEPT ![w] = [[worker[w] EXCEPT !.line = e] EXCEPT !.failed = f]]
    BY <1>1, <1>4, Types DEF Failed
  <2> HIDE DEF e, f
  <2>2. [[worker[w] EXCEPT !.line = e] EXCEPT !.failed = f] \in Worker
    BY <1>1, <1>2 DEF Worker
  <2> QED BY <2>1, <2>2, Types
<1> QED BY <1>3, <1>4

(* A step is written.                                                           *)
LEMMA Writes ==
    ASSUME TypeOK, NEW i \in Items, NEW status \in StepStates, Wrote(i, status)
    PROVE  step' \in [Items -> Step] /\ stepFresh' \subseteq Items
BY Types DEF Wrote, Step

(* The job of an item ends.                                                     *)
LEMMA EndedTyped ==
    ASSUME TypeOK, NEW w \in Workers, NEW i \in Items, NEW status \in JobStates
    PROVE  Ended(w, i, status) \in Snapshot /\ Ended(w, i, status).run = run
<1> DEFINE s == Rows(run)
           jb == [job EXCEPT ![i] = status]
           ky == IF worker[w].own[i] = 0 THEN keyed
                 ELSE [keyed EXCEPT ![<<i, worker[w].own[i], worker[w].phase>>] = status]
<1>1. s \in Snapshot /\ s.job = job /\ s.keyed = keyed /\ s.run = run
  BY Types DEF Rows
<1>2. jb \in [Items -> JobStates] /\ ky \in [Keys -> JobStates]
  BY Types
<1>3. Ended(w, i, status) = [[s EXCEPT !.job = jb] EXCEPT !.keyed = ky]
  BY <1>1 DEF Ended, Snapshot
<1> HIDE DEF s, jb, ky
<1> QED BY <1>1, <1>2, <1>3 DEF Snapshot

-------------------------------------------------------------------------------
(* What a step does to the types and to the seal, action by action.             *)
Kept == TypeOK' /\ (run.sealed => run'.sealed)

(* A request only remembers the row it read.                                    *)
LEMMA ReadKept ==
    ASSUME TypeOK, NEW h \in Handlers, Read(h)
    PROVE  Kept
<1>1. read' \in [Handlers -> Run \cup {NoRow}]
  BY Types DEF Read
<1>2. reads' \in 0..MaxReads
  BY BuildConstants DEF Read, TypeOK
<1> QED BY <1>1, <1>2 DEF Read, Kept, TypeOK, rows

(* A status route commits the reconciled run it read.                           *)
LEMMA ReconcileKept ==
    ASSUME TypeOK, NEW h \in Handlers, Reconcile(h)
    PROVE  Kept
<1> DEFINE s == Reconciled(Rows(Seen(h)))
<1>1. s \in Snapshot /\ (Seen(h).sealed => s.run.sealed)
  BY Types, ReconciledKeeps
<1>2. Commit(h, s) /\ Answer(h)
        /\ UNCHANGED <<built, jobFresh, tasks, worker, manual, queues, crashes>>
  BY DEF Reconcile
<1> HIDE DEF s
<1>3. /\ run' \in Run /\ step' \in [Items -> Step] /\ job' \in [Items -> JobStates]
      /\ keyed' \in [Keys -> JobStates] /\ stepFresh' \subseteq Items
      /\ run.sealed => run'.sealed
  BY <1>1, <1>2, Commits
<1>4. read' \in [Handlers -> Run \cup {NoRow}] /\ reads' = reads
  BY <1>2, Answers
<1> QED BY <1>2, <1>3, <1>4 DEF Kept, TypeOK

(* The row a request decides on: reconciled, and recovered once more.           *)
LEMMA CheckedTyped ==
    ASSUME TypeOK, NEW h \in Handlers
    PROVE  Checked(h) \in Snapshot
<1>1. Rows(Seen(h)) \in Snapshot
  BY Types
<1>2. Reconciled(Rows(Seen(h))) \in Snapshot
  BY <1>1, ReconciledKeeps
<1> QED BY <1>2, RecoveredKeeps DEF Checked

(* A refused request changes nothing, or commits the run it reconciled.         *)
LEMMA RefuseKept ==
    ASSUME TypeOK, NEW h \in Handlers, Refuse(h)
    PROVE  Kept
<1>1. Answer(h) /\ UNCHANGED <<built, jobFresh, tasks, worker, manual, queues, crashes>>
  BY DEF Refuse
<1>2. read' \in [Handlers -> Run \cup {NoRow}] /\ reads' = reads
  BY <1>1, Answers
<1>3. CASE Seen(h).sealed /\ UNCHANGED <<rows, stepFresh>>
  BY <1>1, <1>2, <1>3 DEF Kept, TypeOK, rows
<1>4. CASE ~Seen(h).sealed /\ Busy(Checked(h).run) /\ Commit(h, Reconciled(Checked(h)))
  <2> DEFINE s == Reconciled(Checked(h))
  <2>1. s \in Snapshot
    BY CheckedTyped, ReconciledKeeps
  <2>2. Commit(h, s) /\ ~Seen(h).sealed
    BY <1>4
  <2> HIDE DEF s
  <2>3. /\ run' \in Run /\ step' \in [Items -> Step] /\ job' \in [Items -> JobStates]
        /\ keyed' \in [Keys -> JobStates] /\ stepFresh' \subseteq Items
        /\ run.sealed => run'.sealed
    BY <2>1, <2>2, Commits
  <2> QED BY <1>1, <1>2, <2>3 DEF Kept, TypeOK
<1> QED BY <1>3, <1>4 DEF Refuse

(* An unsealed, idle run gets a new queue, or one that selected nothing.        *)
LEMMA EnqueueKept ==
    ASSUME TypeOK, NEW h \in Handlers, NEW mode \in {"process_pending", "retry_failed"},
           Enqueue(h, mode)
    PROVE  Kept
<1> DEFINE rec == Checked(h)
           s == Synced(rec, Catalog(rec.job))
           S == Selected(s, mode)
<1>1. rec \in Snapshot
  BY CheckedTyped
<1>2. Answer(h) /\ ~Seen(h).sealed /\ UNCHANGED <<built, jobFresh, worker, manual, crashes>>
  BY DEF Enqueue
<1>3. \/ /\ S = {} /\ Commit(h, Reconciled(NothingToDo(s))) /\ UNCHANGED <<tasks, queues>>
      \/ /\ S # {} /\ queues < MaxQueues
         /\ Commit(h, Reconciled(Enqueued(s, S, queues + 1)))
         /\ queues' = queues + 1 /\ tasks' = tasks + 1
  BY DEF Enqueue
<1>4. S \in SUBSET Items
  BY DEF Selected
<1> HIDE DEF rec
<1>5. s \in Snapshot
  BY <1>1, SyncedKeeps
<1> HIDE DEF s, S
<1>6. read' \in [Handlers -> Run \cup {NoRow}] /\ reads' = reads
  BY <1>2, Answers
<1>7. CASE S = {} /\ Commit(h, Reconciled(NothingToDo(s))) /\ UNCHANGED <<tasks, queues>>
  <2>1. NothingToDo(s) \in Snapshot
    <3>1. 0 \in 0..MaxQueues
      BY BuildConstants
    <3> QED BY <1>4, <1>5, <3>1, EnqueuedKeeps
  <2>2. Reconciled(NothingToDo(s)) \in Snapshot
    BY <2>1, ReconciledKeeps
  <2>3. /\ run' \in Run /\ step' \in [Items -> Step] /\ job' \in [Items -> JobStates]
        /\ keyed' \in [Keys -> JobStates] /\ stepFresh' \subseteq Items
        /\ run.sealed => run'.sealed
    BY <1>2, <1>7, <2>2, Commits
  <2> QED BY <1>2, <1>6, <1>7, <2>3 DEF Kept, TypeOK
<1>8. CASE /\ S # {} /\ queues < MaxQueues
           /\ Commit(h, Reconciled(Enqueued(s, S, queues + 1)))
           /\ queues' = queues + 1 /\ tasks' = tasks + 1
  <2>1. queues + 1 \in 0..MaxQueues
    BY <1>8, BuildConstants DEF TypeOK
  <2>2. Enqueued(s, S, queues + 1) \in Snapshot
    BY <1>4, <1>5, <2>1, EnqueuedKeeps
  <2>3. Reconciled(Enqueued(s, S, queues + 1)) \in Snapshot
    BY <2>2, ReconciledKeeps
  <2>4. /\ run' \in Run /\ step' \in [Items -> Step] /\ job' \in [Items -> JobStates]
        /\ keyed' \in [Keys -> JobStates] /\ stepFresh' \subseteq Items
        /\ run.sealed => run'.sealed
    BY <1>2, <1>8, <2>3, Commits
  <2>5. tasks' \in Nat /\ queues' \in 0..MaxQueues
    BY <1>8, <2>1 DEF TypeOK
  <2> QED BY <1>2, <1>6, <2>4, <2>5 DEF Kept, TypeOK
<1> QED BY <1>3, <1>7, <1>8

-------------------------------------------------------------------------------
(* The worker's own records.                                                    *)
LEMMA OffTyped == Off \in Worker
BY BuildConstants DEF Off, Worker, Phases

(* The task starts its pass over the selected items.                            *)
LEMMA BeginKept ==
    ASSUME TypeOK, NEW w \in Workers, Begin(w)
    PROVE  Kept
<1> DEFINE new == [Off EXCEPT !.pc = "pass", !.selected = run.queue.selected,
                              !.todo = run.queue.selected, !.seen = Catalog(job)]
<1>1. new \in Worker
  BY OffTyped, Types DEF Queue, Catalog, Worker
<1>2. worker' \in [Workers -> Worker]
  <2> HIDE DEF new
  <2> QED BY <1>1, Types DEF Begin, new
<1>3. run' \in Run /\ (run.sealed => run'.sealed)
  <2>1. "running" \in QueueActive \cup QueueEnded
    BY DEF QueueActive
  <2>2. \/ run' = run
        \/ run' = [run EXCEPT !.queue.status = "running", !.lifecycle = "running"]
    BY DEF Begin
  <2> QED BY <2>1, <2>2, Marks, Types
<1>4. tasks' \in Nat
  BY DEF Begin, TypeOK
<1> QED BY <1>2, <1>3, <1>4 DEF Begin, Kept, TypeOK, others

(* The next batch leaves the list.                                              *)
LEMMA NextBatchKept ==
    ASSUME TypeOK, NEW w \in Workers, NextBatch(w)
    PROVE  Kept
<1>1. PICK B \in Batches(w) :
          worker' = [worker EXCEPT
              ![w].todo = @ \ B,
              ![w].line = [i \in Items |-> IF i \in B THEN "batch" ELSE "idle"]]
  BY DEF NextBatch
<1> DEFINE t == worker[w].todo \ B
           l == [i \in Items |-> IF i \in B THEN "batch" ELSE "idle"]
<1>2. worker[w] \in Worker /\ worker \in [Workers -> Worker]
  BY Types
<1>3. t \subseteq Items /\ l \in [Items -> {"idle", "batch", "begun", "generating"}]
  BY <1>2 DEF Worker
<1>4. worker' = [worker EXCEPT ![w] = [[worker[w] EXCEPT !.todo = t] EXCEPT !.line = l]]
  BY <1>1, <1>2
<1> HIDE DEF t, l
<1>5. [[worker[w] EXCEPT !.todo = t] EXCEPT !.line = l] \in Worker
  BY <1>2, <1>3 DEF Worker
<1>6. worker' \in [Workers -> Worker]
  BY <1>2, <1>4, <1>5
<1>7. run' \in Run /\ (run.sealed => run'.sealed)
  BY Marks DEF NextBatch, QueueActive
<1> QED BY <1>6, <1>7 DEF NextBatch, Kept, TypeOK, others

(* The failures of the first pass are the list of the second.                   *)
LEMMA RetryKept ==
    ASSUME TypeOK, NEW w \in Workers, Retry(w)
    PROVE  Kept
<1> DEFINE new == [[[worker[w] EXCEPT !.phase = "retry"] EXCEPT !.todo = worker[w].failed]
                     EXCEPT !.failed = {}]
<1>1. worker[w] \in Worker /\ worker \in [Workers -> Worker]
  BY Types
<1>2. new \in Worker
  BY <1>1 DEF Worker, Phases
<1>3. worker' = [worker EXCEPT ![w] = new]
  BY <1>1 DEF Retry
<1> HIDE DEF new
<1>4. worker' \in [Workers -> Worker]
  BY <1>1, <1>2, <1>3
<1> QED BY <1>4 DEF Retry, Kept, TypeOK, others, rows

(* The jobs of failed items that did not start are closed.                      *)
LEMMA Closes ==
    ASSUME TypeOK, NEW F, CloseJobs(F)
    PROVE  /\ job' \in [Items -> JobStates] /\ jobFresh' \subseteq Items
           /\ manual' \subseteq Diagrams
<1>1. PICK S \in SUBSET (F \cap manual) :
        /\ job' = [i \in Items |-> IF i \in S THEN "error" ELSE job[i]]
        /\ jobFresh' = jobFresh \cup S
        /\ manual' = manual \ S
  BY DEF CloseJobs
<1> QED BY <1>1, Types DEF JobStates

(* The task ends its queue and finalizes the run.                               *)
LEMMA FinishKept ==
    ASSUME TypeOK, NEW w \in Workers, Finish(w)
    PROVE  Kept
<1> DEFINE status == IF worker[w].failed = {} THEN "completed" ELSE "completed_with_errors"
           r == [run EXCEPT !.queue.status = status]
           syn == Synced(Rows(r), worker[w].seen)
<1>1. status \in QueueActive \cup QueueEnded
  BY DEF QueueEnded
<1>2. run' = Finalized(syn).run /\ step' = Finalized(syn).step
      /\ stepFresh' = Finalized(syn).fresh
  BY DEF Finish
<1> HIDE DEF status
<1>3. r \in Run /\ r.sealed = run.sealed
  BY <1>1, Marks
<1> HIDE DEF r
<1>4. Rows(r) \in Snapshot /\ Rows(r).run = r
  BY <1>3, Types
<1>5. syn \in Snapshot /\ syn.run = r
  BY <1>4, SyncedKeeps
<1> HIDE DEF syn
<1>6. Finalized(syn) \in Snapshot /\ (syn.run.sealed => Finalized(syn).run.sealed)
  BY <1>5, FinalizedKeeps
<1>7. /\ run' \in Run /\ step' \in [Items -> Step] /\ stepFresh' \subseteq Items
      /\ run.sealed => run'.sealed
  BY <1>2, <1>3, <1>5, <1>6, Parts
<1>8. worker' \in [Workers -> Worker]
  BY OffTyped, Types DEF Finish
<1>9. job' \in [Items -> JobStates] /\ jobFresh' \subseteq Items /\ manual' \subseteq Diagrams
  BY Closes DEF Finish
<1> QED BY <1>7, <1>8, <1>9 DEF Finish, Kept, TypeOK

-------------------------------------------------------------------------------
(* An item is marked running and its attempt counted.                           *)
LEMMA BeginItemKept ==
    ASSUME TypeOK, NEW w \in Workers, NEW i \in Items, BeginItem(w, i)
    PROVE  Kept
<1> DEFINE new == [[step[i] EXCEPT !.status = "running"] EXCEPT !.attempts = step[i].attempts + 1]
<1>1. step \in [Items -> Step] /\ step[i] \in Step
  BY Types
<1>2. new \in Step
  <2>1. step[i].attempts + 1 \in Nat /\ "running" \in StepStates
    BY <1>1 DEF Step, StepStates, StepActive
  <2> QED BY <1>1, <2>1 DEF Step
<1>3. step' = [step EXCEPT ![i] = new]
  BY <1>1 DEF BeginItem
<1> HIDE DEF new
<1>4. step' \in [Items -> Step]
  BY <1>1, <1>2, <1>3
<1>5. worker' \in [Workers -> Worker]
  BY Lines DEF BeginItem
<1>6. run' \in Run /\ (run.sealed => run'.sealed)
  BY Marks, Types DEF BeginItem, QueueActive
<1>7. stepFresh' \subseteq Items
  BY Types DEF BeginItem
<1> QED BY <1>4, <1>5, <1>6, <1>7 DEF BeginItem, Kept, TypeOK, others

(* A diagram that needs an LLM is an error without an attempt.                  *)
LEMMA SkipItemKept ==
    ASSUME TypeOK, NEW w \in Workers, NEW i \in Items, SkipItem(w, i)
    PROVE  Kept
<1>1. step' \in [Items -> Step] /\ stepFresh' \subseteq Items
  BY Writes DEF SkipItem, StepStates
<1>2. worker' \in [Workers -> Worker]
  BY Lines DEF SkipItem
<1>3. run' \in Run /\ (run.sealed => run'.sealed)
  BY Marks, Types DEF SkipItem, QueueActive
<1> QED BY <1>1, <1>2, <1>3 DEF SkipItem, Kept, TypeOK, others

(* An item whose dependency is missing is an error.                             *)
LEMMA BlockItemKept ==
    ASSUME TypeOK, NEW w \in Workers, NEW i \in Items, BlockItem(w, i)
    PROVE  Kept
<1>1. step' \in [Items -> Step] /\ stepFresh' \subseteq Items
  BY Writes DEF BlockItem, StepStates
<1>2. worker' \in [Workers -> Worker]
  BY Lines DEF BlockItem
<1> QED BY <1>1, <1>2 DEF BlockItem, Kept, TypeOK, others

(* The job there is under the item's key decides.                               *)
LEMMA AdoptItemKept ==
    ASSUME TypeOK, NEW w \in Workers, NEW i \in Items, AdoptItem(w, i)
    PROVE  Kept
<1>1. step' \in [Items -> Step] /\ stepFresh' \subseteq Items
  BY Writes DEF AdoptItem, StepStates
<1>2. worker' \in [Workers -> Worker]
  BY Lines DEF AdoptItem
<1> QED BY <1>1, <1>2 DEF AdoptItem, Kept, TypeOK, others

(* A job is created under the item's key, or under a fresh one.                 *)
LEMMA GenerateKept ==
    ASSUME TypeOK, NEW w \in Workers, NEW i \in Items, Generate(w, i)
    PROVE  Kept
<1>1. worker[w] \in Worker /\ worker \in [Workers -> Worker]
  BY Types
<1>2. Key(w, i) \in Keys
  BY <1>1, Types DEF Key, Keys, Queue, Worker
<1>3. PICK o \in 0..MaxQueues :
          worker' = [worker EXCEPT ![w].line[i] = "generating", ![w].own[i] = o]
  BY Types, BuildConstants DEF Generate, Queue
<1> DEFINE l == [worker[w].line EXCEPT ![i] = "generating"]
           o2 == [worker[w].own EXCEPT ![i] = o]
<1>4. /\ l \in [Items -> {"idle", "batch", "begun", "generating"}]
      /\ o2 \in [Items -> 0..MaxQueues]
  BY <1>1 DEF Worker
<1>5. worker' = [worker EXCEPT ![w] = [[worker[w] EXCEPT !.line = l] EXCEPT !.own = o2]]
  BY <1>1, <1>3
<1> HIDE DEF l, o2
<1>6. [[worker[w] EXCEPT !.line = l] EXCEPT !.own = o2] \in Worker
  BY <1>1, <1>4 DEF Worker
<1>7. worker' \in [Workers -> Worker]
  BY <1>1, <1>5, <1>6
<1>8. job' \in [Items -> JobStates] /\ jobFresh' \subseteq Items
  BY Types DEF Generate, JobStates
<1>9. keyed' \in [Keys -> JobStates]
  BY <1>2, Types DEF Generate, JobStates
<1>10. step' \in [Items -> Step] /\ stepFresh' \subseteq Items
  BY Writes, Types DEF Generate, StepStates, StepActive
<1> QED BY <1>7, <1>8, <1>9, <1>10 DEF Generate, Kept, TypeOK, others

(* The generator answered: the version and the step are recorded.               *)
LEMMA EndItemKept ==
    ASSUME TypeOK, NEW w \in Workers, NEW i \in Items, EndItem(w, i)
    PROVE  Kept
<1>1. worker' \in [Workers -> Worker]
  BY Lines DEF EndItem
<1>2. jobFresh' \subseteq Items /\ UNCHANGED <<tasks, others>>
  BY Types DEF EndItem
<1>3. CASE /\ LET s == Ended(w, i, "error")
              IN  job' = s.job /\ keyed' = s.keyed
           /\ Wrote(i, "error") /\ UNCHANGED <<run, built>>
  <2>1. Ended(w, i, "error") \in Snapshot
    BY EndedTyped DEF JobStates
  <2>2. job' \in [Items -> JobStates] /\ keyed' \in [Keys -> JobStates]
    BY <1>3, <2>1, Parts
  <2>3. step' \in [Items -> Step] /\ stepFresh' \subseteq Items
    BY <1>3, Writes DEF StepStates
  <2> QED BY <1>1, <1>2, <1>3, <2>2, <2>3 DEF Kept, TypeOK, others
<1>4. CASE LET s == Ended(w, i, "available")
               rec == IF i \in Diagrams THEN Reconciled(s) ELSE s
           IN  /\ built' = built \cup {i}
               /\ run' = rec.run /\ job' = rec.job /\ keyed' = rec.keyed
               /\ step' = [rec.step EXCEPT ![i].status = "available"]
               /\ stepFresh' = rec.fresh \cup {i}
  <2> DEFINE s == Ended(w, i, "available")
             rec == IF i \in Diagrams THEN Reconciled(s) ELSE s
  <2>1. s \in Snapshot /\ s.run = run
    BY EndedTyped DEF JobStates
  <2>2. /\ built' = built \cup {i}
        /\ run' = rec.run /\ job' = rec.job /\ keyed' = rec.keyed
        /\ step' = [rec.step EXCEPT ![i].status = "available"]
        /\ stepFresh' = rec.fresh \cup {i}
    BY <1>4
  <2> HIDE DEF s
  <2>3. rec \in Snapshot /\ (run.sealed => rec.run.sealed)
    BY <2>1, ReconciledKeeps
  <2> HIDE DEF rec
  <2>4. /\ run' \in Run /\ job' \in [Items -> JobStates] /\ keyed' \in [Keys -> JobStates]
        /\ rec.step \in [Items -> Step] /\ stepFresh' \subseteq Items
        /\ built' \subseteq Items /\ (run.sealed => run'.sealed)
    BY <2>2, <2>3, Parts, Types
  <2>5. step' \in [Items -> Step]
    BY <2>2, <2>4 DEF Step, StepStates
  <2> QED BY <1>1, <1>2, <2>4, <2>5 DEF Kept, TypeOK, others
<1> QED BY <1>3, <1>4 DEF EndItem

-------------------------------------------------------------------------------
(* A user's own generation of a diagram.                                        *)
LEMMA ManualKept ==
    ASSUME TypeOK, NEW i \in Diagrams, ManualStart(i) \/ ManualEnd(i)
    PROVE  Kept
<1>1. i \in Items
  BY Types
<1>2. CASE ManualStart(i)
  BY <1>1, <1>2, Types DEF ManualStart, JobStates, Kept, TypeOK
<1>3. CASE ManualEnd(i)
  <2>1. /\ manual' \subseteq Diagrams /\ jobFresh' \subseteq Items
        /\ UNCHANGED <<tasks, worker, read, queues, reads, crashes>>
    BY <1>1, <1>3, Types DEF ManualEnd
  <2>2. CASE job' = [job EXCEPT ![i] = "error"]
             /\ UNCHANGED <<run, step, keyed, built, stepFresh>>
    BY <1>1, <2>1, <2>2, Types DEF JobStates, Kept, TypeOK
  <2>3. CASE LET rec == Reconciled([Rows(run) EXCEPT !.job[i] = "available"])
             IN  /\ built' = built \cup {i}
                 /\ run' = rec.run /\ step' = rec.step
                 /\ job' = rec.job /\ keyed' = rec.keyed
                 /\ stepFresh' = rec.fresh
    <3> DEFINE jb == [job EXCEPT ![i] = "available"]
               s == [Rows(run) EXCEPT !.job = jb]
               rec == Reconciled(s)
    <3>1. s = [Rows(run) EXCEPT !.job[i] = "available"]
      BY DEF Rows
    <3>2. jb \in [Items -> JobStates]
      BY <1>1, Types DEF JobStates
    <3>3. s \in Snapshot /\ s.run = run
      <4> HIDE DEF jb
      <4> QED BY <3>2, Types DEF Rows, Snapshot
    <3>4. /\ built' = built \cup {i}
          /\ run' = rec.run /\ step' = rec.step
          /\ job' = rec.job /\ keyed' = rec.keyed
          /\ stepFresh' = rec.fresh
      BY <2>3, <3>1
    <3> HIDE DEF s
    <3>5. rec \in Snapshot /\ (run.sealed => rec.run.sealed)
      BY <3>3, ReconciledKeeps
    <3> HIDE DEF rec
    <3> QED BY <1>1, <2>1, <3>4, <3>5, Parts, Types DEF Kept, TypeOK
  <2> QED BY <1>3, <2>2, <2>3 DEF ManualEnd
<1> QED BY <1>2, <1>3

(* A restart loses threads, not rows.                                           *)
LEMMA CrashKept ==
    ASSUME TypeOK, Crash
    PROVE  Kept
<1>1. worker' \in [Workers -> Worker] /\ read' \in [Handlers -> Run \cup {NoRow}]
      /\ tasks' \in Nat /\ manual' \subseteq Diagrams
  BY OffTyped DEF Crash
<1>2. crashes' \in 0..MaxCrashes
  BY BuildConstants DEF Crash, TypeOK
<1> QED BY <1>1, <1>2 DEF Crash, Kept, TypeOK, rows

(* Time only ages steps and jobs.                                               *)
LEMMA QuarterHourKept ==
    ASSUME TypeOK, QuarterHour
    PROVE  Kept
BY DEF QuarterHour, Kept, TypeOK, rows, others

(* Every step keeps the types and the seal.                                     *)
LEMMA StepKept ==
    ASSUME TypeOK, Next
    PROVE  Kept
<1>1. CASE \E h \in Handlers : Request(h)
  <2>1. PICK h \in Handlers : Request(h)
    BY <1>1
  <2> QED BY <2>1, ReadKept, ReconcileKept, RefuseKept, EnqueueKept DEF Request
<1>2. CASE \E w \in Workers : Task(w)
  <2>1. PICK w \in Workers : Task(w)
    BY <1>2
  <2>2. CASE Begin(w) \/ NextBatch(w) \/ Retry(w) \/ Finish(w)
    BY <2>2, BeginKept, NextBatchKept, RetryKept, FinishKept
  <2>3. CASE \E i \in Items : Item(w, i)
    <3>1. PICK i \in Items : Item(w, i)
      BY <2>3
    <3> QED BY <3>1, BeginItemKept, SkipItemKept, BlockItemKept, AdoptItemKept,
               GenerateKept, EndItemKept DEF Item
  <2> QED BY <2>1, <2>2, <2>3 DEF Task
<1>3. CASE \E i \in Diagrams : ManualStart(i) \/ ManualEnd(i)
  BY <1>3, ManualKept
<1> QED BY <1>1, <1>2, <1>3, CrashKept, QuarterHourKept DEF Next

(* The initial state is well formed.                                            *)
LEMMA InitTyped ==
    ASSUME Init
    PROVE  TypeOK
<1>1. run \in Run
  BY BuildConstants DEF Init, Run, Queue, Lifecycles
<1>2. step \in [Items -> Step] /\ job \in [Items -> JobStates]
      /\ keyed \in [Keys -> JobStates]
  BY DEF Init, Step, StepStates, JobStates
<1>3. worker \in [Workers -> Worker] /\ read \in [Handlers -> Run \cup {NoRow}]
  BY OffTyped DEF Init
<1> QED BY <1>1, <1>2, <1>3, BuildConstants DEF Init, TypeOK

-------------------------------------------------------------------------------
(* Rows, records and counters of a build run keep their form: no transaction,   *)
(* task, overlap or restart writes a queue, a step or a job that is none.       *)
THEOREM BuildTypeInvariant == Spec => []TypeOK
<1>1. Init => TypeOK
  BY InitTyped
<1>2. TypeOK /\ [Next]_vars => TypeOK'
  <2>1. TypeOK /\ Next => TypeOK'
    BY StepKept DEF Kept
  <2>2. TypeOK /\ UNCHANGED vars => TypeOK'
    BY DEF TypeOK, vars, rows, others
  <2> QED BY <2>1, <2>2
<1> QED BY <1>1, <1>2, PTL DEF Spec

(* The seal of Blueprint Pro is never lifted, however many requests that read   *)
(* the row before it was set commit after, and however tasks overlap.           *)
THEOREM SealIsForeverHolds == Spec => SealIsForever
<1>1. TypeOK /\ [Next]_vars => [run.sealed => run'.sealed]_vars
  <2>1. TypeOK /\ Next => (run.sealed => run'.sealed)
    BY StepKept DEF Kept
  <2> QED BY <2>1
<1> QED BY <1>1, BuildTypeInvariant, PTL DEF Spec, SealIsForever

-------------------------------------------------------------------------------

-------------------------------------------------------------------------------
(* What reconciling does to the rows, whatever state they are in.               *)

(* A recovery closes steps and jobs: it makes none available, and no job is     *)
(* forgotten.                                                                   *)
LEMMA RecoveredRows ==
    ASSUME NEW s \in Snapshot
    PROVE  /\ \A i \in Items :
                 /\ Recovered(s).step[i].status = IF i \in Orphans(s) THEN "error"
                                                  ELSE s.step[i].status
                 /\ Recovered(s).job[i] = IF i \in Orphans(s) /\ s.job[i] = "generating"
                                          THEN "error" ELSE s.job[i]
           /\ \A k \in Keys : Recovered(s).keyed[k] = "available" =>
                                 s.keyed[k] = "available"
           /\ \/ Recovered(s).run.queue = s.run.queue
              \/ Recovered(s).run.queue.status = "completed_with_errors"
<1> DEFINE lost == Orphans(s)
           st == [i \in Items |-> IF i \in lost THEN [s.step[i] EXCEPT !.status = "error"]
                                  ELSE s.step[i]]
           jb == [i \in Items |-> IF i \in lost /\ s.job[i] = "generating" THEN "error"
                                  ELSE s.job[i]]
           ky == [k \in Keys |-> IF k[1] \in lost /\ s.keyed[k] = "generating" THEN "error"
                                 ELSE s.keyed[k]]
<1>1. CASE lost = {}
  BY <1>1 DEF Recovered
<1>2. CASE lost # {}
  <2>1. Recovered(s) = [s EXCEPT !.run.queue.status = "completed_with_errors",
                                 !.run.lifecycle = "requires_attention",
                                 !.step = st, !.job = jb, !.keyed = ky]
    BY <1>2 DEF Recovered
  <2>2. Recovered(s).step = st /\ Recovered(s).job = jb /\ Recovered(s).keyed = ky
    <3> HIDE DEF lost, st, jb, ky
    <3> QED BY <2>1 DEF Snapshot
  <2>3. \A i \in Items : st[i].status = IF i \in lost THEN "error" ELSE s.step[i].status
    BY Parts DEF Step
  <2>4. \A k \in Keys : ky[k] = "available" => s.keyed[k] = "available"
    OBVIOUS
  <2>5. Recovered(s).run.queue.status = "completed_with_errors"
    BY <1>2, RecoveredKeeps
  <2> QED BY <2>2, <2>3, <2>4, <2>5
<1> QED BY <1>1, <1>2

(* _sync_expected_steps keeps the state an active queue gave a step; the others *)
(* take theirs from the version and the job of the item.                        *)
LEMMA SyncedSteps ==
    ASSUME NEW s \in Snapshot, NEW seen, NEW i \in Items
    PROVE  /\ \/ Synced(s, seen).step[i] = s.step[i] /\ s.step[i].status \in StepActive
              \/ Synced(s, seen).step[i].status = StateOf(i, seen, s)
           /\ Synced(s, seen).fresh = Items
<1> DEFINE st == [j \in Items |->
                     IF s.run.queue.status \in QueueActive /\ s.step[j].status \in StepActive
                     THEN s.step[j]
                     ELSE [s.step[j] EXCEPT !.status = StateOf(j, seen, s)]]
<1>1. Synced(s, seen) = [[s EXCEPT !.fresh = Items] EXCEPT !.step = st]
  BY DEF Synced
<1>2. Synced(s, seen).step = st /\ Synced(s, seen).fresh = Items
  <2> HIDE DEF st
  <2> QED BY <1>1 DEF Snapshot
<1>3. s.step[i] \in Step
  BY Parts
<1> QED BY <1>2, <1>3 DEF Step

(* A version has a job, a step that is available has one, and a sealed run has  *)
(* all of them.                                                                 *)
Orderly(s) ==
    /\ \A i \in built : s.job[i] # "none"
    /\ \A i \in Items : s.step[i].status = "available" => s.job[i] # "none"
    /\ s.run.sealed => \A i \in Items : s.job[i] # "none"

(* The jobs and keys t has after s: no key more is available, and no job is     *)
(* forgotten.                                                                   *)
Descends(s, t) ==
    /\ t \in Snapshot
    /\ \A i \in Items : t.job[i] = "none" <=> s.job[i] = "none"
    /\ \A k \in Keys : t.keyed[k] = "available" => s.keyed[k] = "available"
    /\ Orderly(s) => Orderly(t)

(* Its queue is the one s had, or is ended.                                     *)
KeepsQueue(s, t) ==
    /\ t.run.queue.id = s.run.queue.id
    /\ t.run.queue = s.run.queue \/ t.run.queue.status = "completed_with_errors"

(* Recovering.                                                                  *)
LEMMA RecoveredDescends ==
    ASSUME TypeOK, NEW s \in Snapshot
    PROVE  Descends(s, Recovered(s)) /\ KeepsQueue(s, Recovered(s))
<1>1. KeepsQueue(s, Recovered(s))
  BY RecoveredKeeps, RecoveredRows DEF KeepsQueue
<1>2. \A i \in Items : /\ Recovered(s).job[i] = "none" <=> s.job[i] = "none"
                       /\ Recovered(s).step[i].status = "available" =>
                             s.step[i].status = "available"
  BY RecoveredRows
<1>3. Orderly(s) => Orderly(Recovered(s))
  BY <1>2, RecoveredKeeps, Types DEF Orderly
<1> QED BY <1>1, <1>2, <1>3, RecoveredKeeps, RecoveredRows DEF Descends

(* Syncing makes available what has a version or a job that is.                 *)
LEMMA SyncedOrderly ==
    ASSUME TypeOK, NEW s \in Snapshot, NEW seen, \A i \in seen : s.job[i] # "none",
           Orderly(s)
    PROVE  Orderly(Synced(s, seen))
<1>1. Synced(s, seen).run = s.run /\ Synced(s, seen).job = s.job
  BY SyncedKeeps
<1>2. ASSUME NEW i \in Items, Synced(s, seen).step[i].status = "available"
      PROVE  s.job[i] # "none"
  <2>1. CASE Synced(s, seen).step[i] = s.step[i] /\ s.step[i].status \in StepActive
    BY <1>2, <2>1 DEF StepActive
  <2>2. CASE Synced(s, seen).step[i].status = StateOf(i, seen, s)
    BY <1>2, <2>2 DEF StateOf, StepActive
  <2> QED BY <2>1, <2>2, SyncedSteps
<1> QED BY <1>1, <1>2 DEF Orderly

(* The run is sealed where all steps are available, and only there.             *)
LEMMA FinalizedOrderly ==
    ASSUME NEW s \in Snapshot, Orderly(s)
    PROVE  Orderly(Finalized(s))
<1>1. Finalized(s).job = s.job /\ Finalized(s).step = s.step
  BY FinalizedKeeps
<1>2. Finalized(s).run.sealed => s.run.sealed \/ Lifecycle(s) = "completed"
  BY Parts DEF Finalized, Snapshot, Run
<1>3. Lifecycle(s) = "completed" => With(s, {"available"}) = Items
  BY DEF Lifecycle
<1>4. With(s, {"available"}) = Items => \A i \in Items : s.job[i] # "none"
  BY DEF With, Orderly
<1> QED BY <1>1, <1>2, <1>3, <1>4 DEF Orderly

(* Reconciling recovers, and leaves jobs and keys alone after that.             *)
LEMMA ReconciledDescends ==
    ASSUME TypeOK, NEW s \in Snapshot
    PROVE  /\ Descends(s, Reconciled(s)) /\ KeepsQueue(s, Reconciled(s))
           /\ Reconciled(s).fresh = Items
<1> DEFINE rec == Recovered(s)
           seen == Catalog(rec.job)
           syn == Synced(rec, seen)
<1>1. rec \in Snapshot /\ Descends(s, rec) /\ KeepsQueue(s, rec)
  BY RecoveredDescends DEF Descends
<1>2. Reconciled(s) = Finalized(syn)
  BY DEF Reconciled
<1>3. Orderly(rec) => \A i \in seen : rec.job[i] # "none"
  BY DEF Catalog, Orderly
<1> HIDE DEF rec, seen
<1>4. /\ syn \in Snapshot /\ syn.run = rec.run /\ syn.job = rec.job
      /\ syn.keyed = rec.keyed
  BY <1>1, SyncedKeeps
<1>5. syn.fresh = Items
  BY <1>1 DEF Synced, Snapshot
<1>6. Orderly(rec) => Orderly(syn)
  BY <1>1, <1>3, SyncedOrderly
<1> HIDE DEF syn
<1>7. /\ Finalized(syn) \in Snapshot
      /\ Finalized(syn).run.queue = syn.run.queue /\ Finalized(syn).job = syn.job
      /\ Finalized(syn).keyed = syn.keyed /\ Finalized(syn).fresh = syn.fresh
  BY <1>4, FinalizedKeeps
<1>8. Orderly(rec) => Orderly(Finalized(syn))
  BY <1>4, <1>6, FinalizedOrderly
<1>9. Descends(s, Finalized(syn))
  BY <1>1, <1>4, <1>7, <1>8 DEF Descends
<1> QED BY <1>1, <1>2, <1>4, <1>5, <1>7, <1>9 DEF KeepsQueue

(* The row a request decides on.                                                *)
LEMMA CheckedDescends ==
    ASSUME TypeOK, NEW h \in Handlers
    PROVE  Descends(Rows(Seen(h)), Checked(h)) /\ KeepsQueue(Rows(Seen(h)), Checked(h))
<1> DEFINE s == Rows(Seen(h))
           r == Reconciled(s)
<1>1. s \in Snapshot
  BY Types
<1>2. Checked(h) = Recovered(r)
  BY DEF Checked
<1> HIDE DEF s
<1>3. Descends(s, r) /\ KeepsQueue(s, r)
  BY <1>1, ReconciledDescends
<1> HIDE DEF r
<1>4. Descends(r, Recovered(r)) /\ KeepsQueue(r, Recovered(r))
  BY <1>3, RecoveredDescends DEF Descends
<1>5. Descends(s, Recovered(r))
  BY <1>3, <1>4 DEF Descends
<1>6. KeepsQueue(s, Recovered(r))
  BY <1>3, <1>4 DEF KeepsQueue
<1> QED BY <1>2, <1>5, <1>6 DEF s

(* A queue that is enqueued touches no job, and makes no step available.        *)
LEMMA EnqueuedDescends ==
    ASSUME NEW s \in Snapshot, NEW S \in SUBSET Items, NEW id \in 0..MaxQueues
    PROVE  /\ Descends(s, Enqueued(s, S, id)) /\ Descends(s, NothingToDo(s))
           /\ Enqueued(s, S, id).run.queue.id = id
           /\ NothingToDo(s).run.queue.id = 0
           /\ NothingToDo(s).run.queue.status = "completed"
<1> DEFINE q == [id |-> id, status |-> "queued", selected |-> S]
           z == [id |-> 0, status |-> "completed", selected |-> {}]
           st == [i \in Items |-> IF i \in S THEN [status |-> "queued", attempts |-> 0]
                                  ELSE s.step[i]]
<1>1. Enqueued(s, S, id) = [[s EXCEPT !.run = [s.run EXCEPT !.queue = q]] EXCEPT !.step = st]
  BY Parts DEF Enqueued, Snapshot
<1>2. NothingToDo(s) = [s EXCEPT !.run = [s.run EXCEPT !.queue = z]]
  BY Parts DEF NothingToDo
<1>3. \A i \in Items : st[i].status = "available" => s.step[i].status = "available"
  OBVIOUS
<1>4. q.id = id /\ z.id = 0 /\ z.status = "completed"
  OBVIOUS
<1>5. Enqueued(s, S, id) \in Snapshot /\ NothingToDo(s) \in Snapshot
  BY EnqueuedKeeps
<1> HIDE DEF q, z, st
<1>6. /\ [s.run EXCEPT !.queue = q].queue = q /\ [s.run EXCEPT !.queue = z].queue = z
      /\ [s.run EXCEPT !.queue = q].sealed = s.run.sealed
      /\ [s.run EXCEPT !.queue = z].sealed = s.run.sealed
  BY Parts DEF Run
<1>7. Enqueued(s, S, id).job = s.job /\ Enqueued(s, S, id).keyed = s.keyed
      /\ Enqueued(s, S, id).step = st /\ Enqueued(s, S, id).run.queue = q
      /\ Enqueued(s, S, id).run.sealed = s.run.sealed
  BY <1>1, <1>6 DEF Snapshot
<1>8. NothingToDo(s).job = s.job /\ NothingToDo(s).keyed = s.keyed
      /\ NothingToDo(s).step = s.step /\ NothingToDo(s).run.queue = z
      /\ NothingToDo(s).run.sealed = s.run.sealed
  BY <1>2, <1>6 DEF Snapshot
<1> QED BY <1>3, <1>4, <1>5, <1>7, <1>8 DEF Descends, Orderly

(* What a request may commit: the run it saw reconciled or recovered, with the  *)
(* queue it saw or an ended one; or that run with another queue, which is       *)
(* completed and empty or the next one there is.                                *)
Offer(h, s) ==
    /\ Descends(Rows(Seen(h)), s) /\ s.fresh = Items
    /\ \/ KeepsQueue(Rows(Seen(h)), s) /\ UNCHANGED <<tasks, queues>>
       \/ ~Busy(s.run) /\ s.run.queue.id = 0 /\ UNCHANGED <<tasks, queues>>
       \/ s.run.queue.id = queues + 1 /\ queues' = queues + 1 /\ tasks' = tasks + 1

(* A request remembers the row, is refused by a sealed run, or commits an offer. *)
LEMMA RequestCommits ==
    ASSUME TypeOK, NEW h \in Handlers, Request(h)
    PROVE  /\ UNCHANGED <<built, jobFresh, worker, manual, crashes>>
           /\ \/ Read(h)
              \/ UNCHANGED <<rows, stepFresh, tasks, queues>> /\ Answer(h)
              \/ \E s \in Snapshot : Offer(h, s) /\ Commit(h, s) /\ Answer(h)
<1> DEFINE seen == Rows(Seen(h))
           rec == Checked(h)
<1>1. seen \in Snapshot
  BY Types
<1>2. Descends(seen, rec) /\ KeepsQueue(seen, rec) /\ rec \in Snapshot
  BY CheckedDescends DEF Descends
<1>3. CASE Read(h)
  BY <1>3 DEF Read
<1>4. CASE Reconcile(h)
  <2> DEFINE s == Reconciled(seen)
  <2>1. Commit(h, s) /\ Answer(h) /\ UNCHANGED <<tasks, queues>>
        /\ UNCHANGED <<built, jobFresh, worker, manual, crashes>>
    BY <1>4 DEF Reconcile
  <2>2. Offer(h, s) /\ s \in Snapshot
    BY <1>1, <2>1, ReconciledDescends DEF Offer, Descends
  <2> QED BY <2>1, <2>2
<1>5. CASE Refuse(h)
  <2> DEFINE s == Reconciled(rec)
  <2>1. /\ Answer(h) /\ UNCHANGED <<tasks, queues>>
        /\ UNCHANGED <<built, jobFresh, worker, manual, crashes>>
        /\ UNCHANGED <<rows, stepFresh>> \/ Commit(h, s)
    BY <1>5 DEF Refuse
  <2>2. Descends(rec, s) /\ KeepsQueue(rec, s) /\ s.fresh = Items
    BY <1>2, ReconciledDescends
  <2> HIDE DEF s, rec, seen
  <2>3. Descends(seen, s) /\ KeepsQueue(seen, s) /\ s \in Snapshot
    BY <1>2, <2>2 DEF Descends, KeepsQueue
  <2>4. Offer(h, s)
    BY <2>1, <2>2, <2>3 DEF Offer, seen
  <2> QED BY <2>1, <2>3, <2>4
<1>6. ASSUME NEW mode \in {"process_pending", "retry_failed"}, Enqueue(h, mode)
      PROVE  /\ UNCHANGED <<built, jobFresh, worker, manual, crashes>> /\ Answer(h)
             /\ \E s \in Snapshot : Offer(h, s) /\ Commit(h, s)
  <2> DEFINE cat == Catalog(rec.job)
             syn == Synced(rec, cat)
             S == Selected(syn, mode)
  <2>1. Answer(h) /\ UNCHANGED <<built, jobFresh, worker, manual, crashes>>
    BY <1>6 DEF Enqueue
  <2>2. \/ Commit(h, Reconciled(NothingToDo(syn))) /\ UNCHANGED <<tasks, queues>>
        \/ /\ queues < MaxQueues /\ Commit(h, Reconciled(Enqueued(syn, S, queues + 1)))
           /\ queues' = queues + 1 /\ tasks' = tasks + 1
    BY <1>6 DEF Enqueue
  <2>3. Orderly(rec) => \A i \in cat : rec.job[i] # "none"
    BY DEF Catalog, Orderly
  <2>4. S \in SUBSET Items
    BY DEF Selected
  <2> HIDE DEF cat, rec, seen
  <2>5. Descends(rec, syn) /\ syn \in Snapshot
    BY <1>2, <2>3, SyncedKeeps, SyncedOrderly DEF Descends
  <2> HIDE DEF S, syn
  <2>6. CASE Commit(h, Reconciled(NothingToDo(syn))) /\ UNCHANGED <<tasks, queues>>
    <3> DEFINE n == NothingToDo(syn)
               s == Reconciled(n)
    <3>1. Descends(syn, n) /\ n \in Snapshot /\ n.run.queue.id = 0
          /\ n.run.queue.status = "completed"
      <4>1. 0 \in 0..MaxQueues
        BY BuildConstants
      <4> QED BY <2>4, <2>5, <4>1, EnqueuedDescends DEF Descends
    <3> HIDE DEF n
    <3>2. Descends(n, s) /\ KeepsQueue(n, s) /\ s.fresh = Items
      BY <3>1, ReconciledDescends
    <3> HIDE DEF s
    <3>3. Descends(seen, s) /\ s \in Snapshot
      BY <1>2, <2>5, <3>1, <3>2 DEF Descends
    <3>4. ~Busy(s.run) /\ s.run.queue.id = 0
      BY <3>1, <3>2 DEF KeepsQueue, Busy, QueueActive
    <3>5. Offer(h, s)
      BY <2>6, <3>2, <3>3, <3>4 DEF Offer, seen
    <3> QED BY <2>1, <2>6, <3>3, <3>5 DEF s, n
  <2>7. CASE /\ queues < MaxQueues /\ Commit(h, Reconciled(Enqueued(syn, S, queues + 1)))
             /\ queues' = queues + 1 /\ tasks' = tasks + 1
    <3> DEFINE n == Enqueued(syn, S, queues + 1)
               s == Reconciled(n)
    <3>1. Descends(syn, n) /\ n \in Snapshot /\ n.run.queue.id = queues + 1
      <4> DEFINE id == queues + 1
      <4>1. id \in 0..MaxQueues
        BY <2>7, BuildConstants DEF TypeOK
      <4> HIDE DEF id
      <4>2. /\ Descends(syn, Enqueued(syn, S, id)) /\ Enqueued(syn, S, id).run.queue.id = id
        BY <2>4, <2>5, <4>1, EnqueuedDescends
      <4> QED BY <4>2 DEF Descends, id
    <3> HIDE DEF n
    <3>2. Descends(n, s) /\ KeepsQueue(n, s) /\ s.fresh = Items
      BY <3>1, ReconciledDescends
    <3> HIDE DEF s
    <3>3. Descends(seen, s) /\ s \in Snapshot
      BY <1>2, <2>5, <3>1, <3>2 DEF Descends
    <3>4. Offer(h, s)
      BY <2>7, <3>1, <3>2, <3>3 DEF Offer, KeepsQueue, seen
    <3> QED BY <2>1, <2>7, <3>3, <3>4 DEF s, n
  <2> QED BY <2>1, <2>2, <2>6, <2>7
<1> QED BY <1>3, <1>4, <1>5, <1>6 DEF Request

-------------------------------------------------------------------------------
(* What the steps of a task do to its record and to the rows.                   *)

(* Only worker w moves, and keeps its place in the task.                        *)
Moves(w) ==
    /\ \A v \in Workers : v # w => worker'[v] = worker[v]
    /\ worker'[w].pc = worker[w].pc /\ worker'[w].selected = worker[w].selected
    /\ worker'[w].seen = worker[w].seen

(* One of its items does.                                                       *)
MovesItem(w, i) ==
    /\ Moves(w)
    /\ worker'[w].todo = worker[w].todo
    /\ \A j \in Items : j # i => worker'[w].line[j] = worker[w].line[j]

(* The item moves on.                                                           *)
LEMMA LineFacts ==
    ASSUME TypeOK, NEW w \in Workers, NEW i \in Items, NEW pc, Line(w, i, pc)
    PROVE  /\ MovesItem(w, i) /\ worker'[w].failed = worker[w].failed
           /\ worker'[w].line[i] = pc
<1> DEFINE l == [worker[w].line EXCEPT ![i] = pc]
<1>1. worker[w] \in Worker /\ worker \in [Workers -> Worker]
  BY Types
<1>2. worker' = [worker EXCEPT ![w] = [worker[w] EXCEPT !.line = l]]
  BY DEF Line
<1>3. \A j \in Items : l[j] = IF j = i THEN pc ELSE worker[w].line[j]
  BY <1>1 DEF Worker
<1> HIDE DEF l
<1> QED BY <1>1, <1>2, <1>3 DEF Worker, Moves, MovesItem

(* It fails.                                                                    *)
LEMMA FailedFacts ==
    ASSUME TypeOK, NEW w \in Workers, NEW i \in Items, Failed(w, i)
    PROVE  /\ MovesItem(w, i) /\ worker'[w].failed = worker[w].failed \cup {i}
           /\ worker'[w].line[i] = "idle"
<1> DEFINE l == [worker[w].line EXCEPT ![i] = "idle"]
           f == worker[w].failed \cup {i}
<1>1. worker[w] \in Worker /\ worker \in [Workers -> Worker]
  BY Types
<1>2. worker' = [worker EXCEPT ![w] = [[worker[w] EXCEPT !.line = l] EXCEPT !.failed = f]]
  BY <1>1 DEF Failed
<1>3. \A j \in Items : l[j] = IF j = i THEN "idle" ELSE worker[w].line[j]
  BY <1>1 DEF Worker
<1> HIDE DEF l, f
<1> QED BY <1>1, <1>2, <1>3 DEF Worker, f, Moves, MovesItem

(* It is generated.                                                             *)
LEMMA GenerateFacts ==
    ASSUME TypeOK, NEW w \in Workers, NEW i \in Items, Generate(w, i)
    PROVE  /\ MovesItem(w, i) /\ worker'[w].failed = worker[w].failed
           /\ worker'[w].line[i] = "generating"
<1>1. PICK o :
          worker' = [worker EXCEPT ![w].line[i] = "generating", ![w].own[i] = o]
  BY DEF Generate
<1> DEFINE l == [worker[w].line EXCEPT ![i] = "generating"]
           o2 == [worker[w].own EXCEPT ![i] = o]
<1>2. worker[w] \in Worker /\ worker \in [Workers -> Worker]
  BY Types
<1>3. worker' = [worker EXCEPT ![w] = [[worker[w] EXCEPT !.line = l] EXCEPT !.own = o2]]
  BY <1>1, <1>2
<1>4. \A j \in Items : l[j] = IF j = i THEN "generating" ELSE worker[w].line[j]
  BY <1>2 DEF Worker
<1> HIDE DEF l, o2
<1> QED BY <1>2, <1>3, <1>4 DEF Worker, Moves, MovesItem

(* A step that was written, and the others.                                     *)
LEMMA WroteFacts ==
    ASSUME TypeOK, NEW i \in Items, NEW status, Wrote(i, status)
    PROVE  /\ \A j \in Items : step'[j].status = IF j = i THEN status ELSE step[j].status
           /\ stepFresh' = stepFresh \cup {i}
BY Types DEF Wrote, Step

(* What the end of a job writes.                                                *)
LEMMA EndedFacts ==
    ASSUME TypeOK, NEW w \in Workers, NEW i \in Items, NEW status \in {"available", "error"}
    PROVE  LET s == Ended(w, i, status)
           IN  /\ s \in Snapshot /\ s.run = run /\ s.step = step /\ s.fresh = stepFresh
               /\ \A j \in Items : s.job[j] = IF j = i THEN status ELSE job[j]
               /\ \A k \in Keys : s.keyed[k] = "available" =>
                     keyed[k] = "available" \/ (k[1] = i /\ status = "available")
<1> DEFINE s == Rows(run)
           jb == [job EXCEPT ![i] = status]
           ky == IF worker[w].own[i] = 0 THEN keyed
                 ELSE [keyed EXCEPT ![<<i, worker[w].own[i], worker[w].phase>>] = status]
<1>1. s \in Snapshot /\ s.job = job /\ s.keyed = keyed /\ s.run = run /\ s.step = step
      /\ s.fresh = stepFresh
  BY Types DEF Rows
<1>2. \A j \in Items : jb[j] = IF j = i THEN status ELSE job[j]
  BY Types
<1>3. \A k \in Keys : ky[k] = "available" =>
         keyed[k] = "available" \/ (k[1] = i /\ status = "available")
  BY Types
<1>4. Ended(w, i, status) = [[s EXCEPT !.job = jb] EXCEPT !.keyed = ky]
  BY <1>1 DEF Ended, Snapshot
<1>5. Ended(w, i, status) \in Snapshot
  BY EndedTyped DEF JobStates
<1> HIDE DEF s, jb, ky
<1> QED BY <1>1, <1>2, <1>3, <1>4, <1>5 DEF Snapshot

(* What the end of an item writes: the rows with its job ended, reconciled if a *)
(* diagram was generated, and the state of its step.                            *)
LEMMA EndItemWrites ==
    ASSUME TypeOK, NEW w \in Workers, NEW i \in Items, EndItem(w, i)
    PROVE  /\ worker[w].line[i] = "generating" /\ jobFresh' = jobFresh \cup {i}
           /\ UNCHANGED <<tasks, others>>
           /\ \/ /\ built' = built \cup {i} /\ Line(w, i, "idle")
                 /\ \E s, t \in Snapshot :
                      /\ s = Ended(w, i, "available")
                      /\ t = s \/ t = Reconciled(s)
                      /\ run' = t.run /\ job' = t.job /\ keyed' = t.keyed
                      /\ step' = [t.step EXCEPT ![i].status = "available"]
                      /\ stepFresh' = t.fresh \cup {i}
              \/ /\ UNCHANGED <<run, built>> /\ Failed(w, i) /\ Wrote(i, "error")
                 /\ \E s \in Snapshot :
                      /\ s = Ended(w, i, "error")
                      /\ job' = s.job /\ keyed' = s.keyed
<1>1. /\ Ended(w, i, "available") \in Snapshot /\ Ended(w, i, "error") \in Snapshot
      /\ Reconciled(Ended(w, i, "available")) \in Snapshot
  BY EndedFacts, ReconciledKeeps
<1>2. CASE /\ LET s == Ended(w, i, "error")
              IN  job' = s.job /\ keyed' = s.keyed
           /\ Wrote(i, "error") /\ Failed(w, i) /\ UNCHANGED <<run, built>>
  BY <1>1, <1>2 DEF EndItem
<1>3. CASE LET s == Ended(w, i, "available")
               rec == IF i \in Diagrams THEN Reconciled(s) ELSE s
           IN  /\ built' = built \cup {i}
               /\ run' = rec.run /\ job' = rec.job /\ keyed' = rec.keyed
               /\ step' = [rec.step EXCEPT ![i].status = "available"]
               /\ stepFresh' = rec.fresh \cup {i}
               /\ Line(w, i, "idle")
  <2> DEFINE s == Ended(w, i, "available")
             t == IF i \in Diagrams THEN Reconciled(s) ELSE s
  <2>1. t \in Snapshot /\ (t = s \/ t = Reconciled(s))
    BY <1>1
  <2>2. /\ built' = built \cup {i} /\ Line(w, i, "idle")
        /\ run' = t.run /\ job' = t.job /\ keyed' = t.keyed
        /\ step' = [t.step EXCEPT ![i].status = "available"]
        /\ stepFresh' = t.fresh \cup {i}
    BY <1>3
  <2>3. s \in Snapshot
    BY <1>1
  <2> HIDE DEF s, t
  <2>4. \E x, y \in Snapshot :
           /\ x = s
           /\ y = x \/ y = Reconciled(x)
           /\ run' = y.run /\ job' = y.job /\ keyed' = y.keyed
           /\ step' = [y.step EXCEPT ![i].status = "available"]
           /\ stepFresh' = y.fresh \cup {i}
    BY <2>1, <2>2, <2>3
  <2> QED BY <2>2, <2>4 DEF EndItem, s
<1> QED BY <1>2, <1>3 DEF EndItem

(* A user's diagram ends with the rows reconciled, or its job failed.           *)
LEMMA ManualEndWrites ==
    ASSUME TypeOK, NEW i \in Diagrams, ManualEnd(i)
    PROVE  /\ i \in Items /\ jobFresh' = jobFresh \cup {i}
           /\ UNCHANGED <<tasks, worker, read, queues, reads, crashes>>
           /\ \/ /\ built' = built \cup {i}
                 /\ \E s, t \in Snapshot :
                      /\ s.run = run /\ s.step = step /\ s.keyed = keyed
                      /\ s.fresh = stepFresh
                      /\ \A j \in Items : s.job[j] = IF j = i THEN "available" ELSE job[j]
                      /\ t = Reconciled(s)
                      /\ run' = t.run /\ job' = t.job /\ keyed' = t.keyed
                      /\ step' = t.step /\ stepFresh' = t.fresh
              \/ /\ UNCHANGED <<run, step, keyed, built, stepFresh>>
                 /\ job' = [job EXCEPT ![i] = "error"]
<1>1. /\ i \in Items /\ jobFresh' = jobFresh \cup {i}
      /\ UNCHANGED <<tasks, worker, read, queues, reads, crashes>>
  BY Types DEF ManualEnd
<1>2. CASE /\ job' = [job EXCEPT ![i] = "error"]
           /\ UNCHANGED <<run, step, keyed, built, stepFresh>>
  BY <1>1, <1>2
<1>3. CASE LET rec == Reconciled([Rows(run) EXCEPT !.job[i] = "available"])
           IN  /\ built' = built \cup {i}
               /\ run' = rec.run /\ step' = rec.step
               /\ job' = rec.job /\ keyed' = rec.keyed
               /\ stepFresh' = rec.fresh
  <2> DEFINE jb == [job EXCEPT ![i] = "available"]
             s == [Rows(run) EXCEPT !.job = jb]
             t == Reconciled(s)
  <2>1. s = [Rows(run) EXCEPT !.job[i] = "available"]
    BY DEF Rows
  <2>2. jb \in [Items -> JobStates] /\ \A j \in Items : jb[j] = IF j = i THEN "available"
                                                                ELSE job[j]
    BY <1>1, Types DEF JobStates
  <2>3. /\ s \in Snapshot /\ s.run = run /\ s.step = step /\ s.job = jb /\ s.keyed = keyed
        /\ s.fresh = stepFresh
    <3> HIDE DEF jb
    <3> QED BY <2>2, Types DEF Rows, Snapshot
  <2>4. /\ built' = built \cup {i}
        /\ run' = t.run /\ step' = t.step
        /\ job' = t.job /\ keyed' = t.keyed
        /\ stepFresh' = t.fresh
    BY <1>3, <2>1
  <2> HIDE DEF s, jb
  <2>5. t \in Snapshot
    BY <2>3, ReconciledKeeps
  <2>6. \E x, y \in Snapshot :
           /\ x.run = run /\ x.step = step /\ x.keyed = keyed /\ x.fresh = stepFresh
           /\ \A j \in Items : x.job[j] = IF j = i THEN "available" ELSE job[j]
           /\ y = Reconciled(x)
           /\ run' = y.run /\ job' = y.job /\ keyed' = y.keyed
           /\ step' = y.step /\ stepFresh' = y.fresh
    BY <2>2, <2>3, <2>4, <2>5
  <2> QED BY <1>1, <2>4, <2>6
<1> QED BY <1>2, <1>3 DEF ManualEnd

(* A key whose job is available has a version.                                  *)
KeyInv == \A k \in Keys : keyed[k] = "available" => k[1] \in built

(* Every step of an item: what was in hand stays there, is a failure or has a   *)
(* version.                                                                     *)
ItemMoved(w, i) ==
    /\ MovesItem(w, i)
    /\ worker[w].line[i] # "idle"
    /\ worker[w].failed \subseteq worker'[w].failed
    /\ worker'[w].line[i] # "idle" \/ i \in worker'[w].failed \/ i \in built'
    /\ built \subseteq built' /\ KeyInv' /\ stepFresh \subseteq stepFresh'
    /\ UNCHANGED <<tasks, others>>

(* Whatever the item does, it is one of those.                                  *)
LEMMA ItemMoves ==
    ASSUME TypeOK, KeyInv, NEW w \in Workers, NEW i \in Items, Item(w, i)
    PROVE  ItemMoved(w, i)
<1>1. CASE BeginItem(w, i)
  BY <1>1, LineFacts DEF BeginItem, ItemMoved, KeyInv
<1>2. CASE SkipItem(w, i)
  BY <1>2, FailedFacts, WroteFacts DEF SkipItem, ItemMoved, KeyInv
<1>3. CASE BlockItem(w, i)
  BY <1>3, FailedFacts, WroteFacts DEF BlockItem, ItemMoved, KeyInv
<1>4. CASE AdoptItem(w, i)
  <2>1. Key(w, i) \in Keys /\ Key(w, i)[1] = i
    BY Types DEF Key, Keys, Queue, Worker
  <2>2. worker[w].line[i] # "idle" /\ stepFresh \subseteq stepFresh'
        /\ UNCHANGED <<run, job, keyed, built, jobFresh, tasks, others>>
    BY <1>4, WroteFacts DEF AdoptItem
  <2>3. CASE keyed[Key(w, i)] = "available" /\ Line(w, i, "idle")
    BY <2>1, <2>2, <2>3, LineFacts DEF ItemMoved, KeyInv
  <2>4. CASE Failed(w, i)
    BY <2>2, <2>4, FailedFacts DEF ItemMoved, KeyInv
  <2> QED BY <1>4, <2>3, <2>4 DEF AdoptItem
<1>5. CASE Generate(w, i)
  <2>1. Key(w, i) \in Keys
    BY Types DEF Key, Keys, Queue, Worker
  <2>2. KeyInv'
    BY <1>5, <2>1, Types DEF Generate, KeyInv
  <2>3. stepFresh \subseteq stepFresh'
    BY <1>5, WroteFacts DEF Generate
  <2>4. worker[w].line[i] # "idle" /\ built' = built /\ UNCHANGED <<tasks, others>>
    BY <1>5 DEF Generate
  <2> QED BY <1>5, <2>2, <2>3, <2>4, GenerateFacts DEF ItemMoved
<1>6. CASE EndItem(w, i)
  <2>1. worker[w].line[i] # "idle" /\ UNCHANGED <<tasks, others>>
    BY <1>6, EndItemWrites
  <2>2. CASE /\ UNCHANGED <<run, built>> /\ Failed(w, i) /\ Wrote(i, "error")
             /\ \E s \in Snapshot :
                  /\ s = Ended(w, i, "error")
                  /\ job' = s.job /\ keyed' = s.keyed
    <3>1. KeyInv'
      BY <2>2, EndedFacts DEF KeyInv
    <3> QED BY <2>1, <2>2, <3>1, FailedFacts, WroteFacts DEF ItemMoved
  <2>3. CASE /\ built' = built \cup {i} /\ Line(w, i, "idle")
             /\ \E s, t \in Snapshot :
                  /\ s = Ended(w, i, "available")
                  /\ t = s \/ t = Reconciled(s)
                  /\ run' = t.run /\ job' = t.job /\ keyed' = t.keyed
                  /\ step' = [t.step EXCEPT ![i].status = "available"]
                  /\ stepFresh' = t.fresh \cup {i}
    <3>1. PICK s \in Snapshot, t \in Snapshot :
                  /\ s = Ended(w, i, "available")
                  /\ t = s \/ t = Reconciled(s)
                  /\ run' = t.run /\ job' = t.job /\ keyed' = t.keyed
                  /\ step' = [t.step EXCEPT ![i].status = "available"]
                  /\ stepFresh' = t.fresh \cup {i}
      BY <2>3
    <3>2. /\ s.fresh = stepFresh
          /\ \A k \in Keys : s.keyed[k] = "available" => keyed[k] = "available" \/ k[1] = i
      BY <3>1, EndedFacts
    <3>3. /\ \A k \in Keys : t.keyed[k] = "available" => s.keyed[k] = "available"
          /\ s.fresh \subseteq t.fresh
      BY <3>1, ReconciledDescends, Parts DEF Descends
    <3>4. KeyInv' /\ stepFresh \subseteq stepFresh'
      BY <2>3, <3>1, <3>2, <3>3 DEF KeyInv
    <3> QED BY <2>1, <2>3, <3>4, LineFacts DEF ItemMoved
  <2> QED BY <1>6, <2>2, <2>3, EndItemWrites
<1> QED BY <1>1, <1>2, <1>3, <1>4, <1>5, <1>6 DEF Item

(* The next batch is in hand.                                                   *)
LEMMA NextBatchFacts ==
    ASSUME TypeOK, NEW w \in Workers, NextBatch(w)
    PROVE  /\ Moves(w) /\ Waiting(w) /\ worker'[w].failed = worker[w].failed
           /\ \A j \in Items : worker'[w].line[j] \in {"idle", "batch"}
           /\ worker[w].todo \subseteq worker'[w].todo \cup
                 {j \in Items : worker'[w].line[j] = "batch"}
           /\ UNCHANGED <<step, job, keyed, built, stepFresh, jobFresh, tasks, others>>
<1>1. PICK B \in Batches(w) :
          worker' = [worker EXCEPT
              ![w].todo = @ \ B,
              ![w].line = [i \in Items |-> IF i \in B THEN "batch" ELSE "idle"]]
  BY DEF NextBatch
<1> DEFINE t == worker[w].todo \ B
           l == [i \in Items |-> IF i \in B THEN "batch" ELSE "idle"]
<1>2. worker[w] \in Worker /\ worker \in [Workers -> Worker]
  BY Types
<1>3. worker' = [worker EXCEPT ![w] = [[worker[w] EXCEPT !.todo = t] EXCEPT !.line = l]]
  BY <1>1, <1>2
<1>4. \A j \in Items : l[j] = IF j \in B THEN "batch" ELSE "idle"
  OBVIOUS
<1> HIDE DEF l
<1>5. /\ Moves(w) /\ worker'[w].failed = worker[w].failed
      /\ worker'[w].todo = worker[w].todo \ B
      /\ \A j \in Items : worker'[w].line[j] = IF j \in B THEN "batch" ELSE "idle"
  BY <1>2, <1>3, <1>4 DEF Worker, Moves
<1>6. worker[w].todo \subseteq Items
  BY <1>2 DEF Worker
<1> QED BY <1>5, <1>6 DEF NextBatch

(* The failures are the list of the second pass.                                *)
LEMMA RetryFacts ==
    ASSUME TypeOK, NEW w \in Workers, Retry(w)
    PROVE  /\ Moves(w) /\ Waiting(w) /\ worker[w].todo = {}
           /\ worker'[w].todo = worker[w].failed /\ worker'[w].line = worker[w].line
           /\ UNCHANGED <<rows, built, stepFresh, jobFresh, tasks, others>>
<1>1. worker[w] \in Worker /\ worker \in [Workers -> Worker]
  BY Types
<1> QED BY <1>1 DEF Retry, Worker, Moves

(* A task begins with all its items listed, or finds no active queue.           *)
LEMMA BeginFacts ==
    ASSUME TypeOK, NEW w \in Workers, Begin(w)
    PROVE  /\ worker[w] = Off /\ tasks > 0 /\ tasks' = tasks - 1
           /\ UNCHANGED <<step, job, keyed, built, stepFresh, jobFresh, others>>
           /\ \A v \in Workers : v # w => worker'[v] = worker[v]
           /\ \/ ~Busy(run) /\ UNCHANGED <<run, worker>>
              \/ /\ Busy(run) /\ worker'[w].pc = "pass"
                 /\ worker'[w].todo = worker'[w].selected
                 /\ worker'[w].seen = Catalog(job)
                 /\ \A j \in Items : worker'[w].line[j] = "idle"
                 /\ run' = [run EXCEPT !.queue.status = "running",
                                       !.lifecycle = "running"]
<1> DEFINE new == [Off EXCEPT !.pc = "pass", !.selected = run.queue.selected,
                              !.todo = run.queue.selected, !.seen = Catalog(job)]
<1>1. /\ new.pc = "pass" /\ new.todo = new.selected /\ new.seen = Catalog(job)
      /\ \A j \in Items : new.line[j] = "idle"
  BY DEF Off
<1>2. CASE Busy(run)
  <2>1. /\ worker' = [worker EXCEPT ![w] = new]
        /\ run' = [run EXCEPT !.queue.status = "running", !.lifecycle = "running"]
    BY <1>2 DEF Begin
  <2> HIDE DEF new
  <2> QED BY <1>1, <1>2, <2>1, Types DEF Begin
<1>3. CASE ~Busy(run)
  BY <1>3 DEF Begin
<1> QED BY <1>2, <1>3

(* The end of a task.                                                           *)
LEMMA FinishFacts ==
    ASSUME TypeOK, NEW w \in Workers, Finish(w)
    PROVE  /\ Waiting(w) /\ worker[w].todo = {} /\ worker'[w] = Off
           /\ \A v \in Workers : v # w => worker'[v] = worker[v]
           /\ UNCHANGED <<keyed, built, tasks, read, queues, reads, crashes>>
BY Types DEF Finish

-------------------------------------------------------------------------------
(* A clean end.  What the queue selected when the task began is on the list of  *)
(* the task, in its hands, among its failures, or has a version.                *)
Plan(w) == \A i \in worker[w].selected :
              \/ i \in worker[w].todo \/ i \in worker[w].failed
              \/ i \in built \/ worker[w].line[i] # "idle"
DoneInv == KeyInv /\ \A w \in Workers : Plan(w)

(* Every step of a task keeps its plan.                                         *)
LEMMA TaskDone ==
    ASSUME TypeOK, DoneInv, NEW w \in Workers, Task(w)
    PROVE  DoneInv'
<1>1. /\ worker \in [Workers -> Worker] /\ built \subseteq Items
      /\ \A v \in Workers : worker[v].selected \subseteq Items
  BY Types DEF Worker
<1>2. CASE Begin(w)
  <2>1. KeyInv'
    BY <1>2, BeginFacts DEF DoneInv, KeyInv
  <2>2. Plan(w)' /\ \A v \in Workers : v # w => Plan(v)'
    BY <1>2, BeginFacts DEF DoneInv, Plan
  <2> QED BY <2>1, <2>2 DEF DoneInv
<1>3. CASE NextBatch(w)
  <2>1. KeyInv'
    BY <1>3, NextBatchFacts DEF DoneInv, KeyInv
  <2>2. Plan(w)'
    BY <1>1, <1>3, NextBatchFacts DEF DoneInv, Plan, Moves, Waiting
  <2>3. \A v \in Workers : v # w => Plan(v)'
    BY <1>3, NextBatchFacts DEF DoneInv, Plan, Moves
  <2> QED BY <2>1, <2>2, <2>3 DEF DoneInv
<1>4. CASE Retry(w)
  <2>1. KeyInv'
    BY <1>4, RetryFacts DEF DoneInv, KeyInv, rows
  <2>2. Plan(w)' /\ \A v \in Workers : v # w => Plan(v)'
    BY <1>4, RetryFacts DEF DoneInv, Plan, Moves
  <2> QED BY <2>1, <2>2 DEF DoneInv
<1>5. CASE Finish(w)
  <2>1. KeyInv'
    BY <1>5, FinishFacts DEF DoneInv, KeyInv
  <2>2. Plan(w)'
    BY <1>5, FinishFacts DEF Plan, Off
  <2>3. \A v \in Workers : v # w => Plan(v)'
    BY <1>5, FinishFacts DEF DoneInv, Plan
  <2> QED BY <2>1, <2>2, <2>3 DEF DoneInv
<1>6. ASSUME NEW i \in Items, Item(w, i) PROVE DoneInv'
  <2>1. ItemMoved(w, i)
    BY <1>6, ItemMoves DEF DoneInv
  <2>2. Plan(w)'
    BY <1>1, <2>1 DEF DoneInv, Plan, ItemMoved, MovesItem, Moves
  <2>3. \A v \in Workers : v # w => Plan(v)'
    BY <2>1 DEF DoneInv, Plan, ItemMoved, MovesItem, Moves
  <2> QED BY <2>1, <2>2, <2>3 DEF DoneInv, ItemMoved
<1> QED BY <1>2, <1>3, <1>4, <1>5, <1>6 DEF Task

(* Every step does.                                                             *)
LEMMA StepDone ==
    ASSUME TypeOK, DoneInv, Next
    PROVE  DoneInv'
<1>1. ASSUME built \subseteq built', worker' = worker,
             \A k \in Keys : keyed'[k] = "available" => keyed[k] = "available"
      PROVE  DoneInv'
  BY <1>1 DEF DoneInv, KeyInv, Plan
<1>2. CASE \E h \in Handlers : Request(h)
  <2>1. PICK h \in Handlers : Request(h)
    BY <1>2
  <2>2. built' = built /\ worker' = worker
    BY <2>1, RequestCommits
  <2>3. \A k \in Keys : keyed'[k] = "available" => keyed[k] = "available"
    <3>1. CASE Read(h) \/ UNCHANGED <<rows, stepFresh, tasks, queues>>
      BY <3>1 DEF Read, rows
    <3>2. ASSUME NEW s \in Snapshot, Offer(h, s), Commit(h, s)
          PROVE  \A k \in Keys : keyed'[k] = "available" => keyed[k] = "available"
      BY <3>2 DEF Offer, Descends, Commit, Rows
    <3> QED BY <2>1, <3>1, <3>2, RequestCommits
  <2> QED BY <1>1, <2>2, <2>3
<1>3. CASE \E w \in Workers : Task(w)
  BY <1>3, TaskDone
<1>4. CASE \E i \in Diagrams : ManualStart(i) \/ ManualEnd(i)
  <2>1. PICK i \in Diagrams : ManualStart(i) \/ ManualEnd(i)
    BY <1>4
  <2>2. CASE ManualStart(i)
    BY <1>1, <2>2 DEF ManualStart
  <2>3. CASE ManualEnd(i)
    <3>1. built \subseteq built' /\ worker' = worker
      BY <2>3, ManualEndWrites
    <3>2. \A k \in Keys : keyed'[k] = "available" => keyed[k] = "available"
      BY <2>3, ManualEndWrites, ReconciledDescends DEF Descends
    <3> QED BY <1>1, <3>1, <3>2
  <2> QED BY <2>1, <2>2, <2>3
<1>5. CASE Crash
  BY <1>5 DEF Crash, rows, DoneInv, KeyInv, Plan, Off
<1>6. CASE QuarterHour
  BY <1>1, <1>6 DEF QuarterHour, rows
<1> QED BY <1>2, <1>3, <1>4, <1>5, <1>6 DEF Next

(* A task that is at work and then is not has ended, or the process has.        *)
LEMMA TaskEnds ==
    ASSUME TypeOK, KeyInv, Next, NEW w \in Workers, Working(w), worker'[w] = Off,
           crashes' = crashes
    PROVE  Finish(w)
<1>1. Off.pc = "off" /\ worker'[w].pc = "off" /\ worker[w].pc = "pass"
  BY DEF Off, Working
<1>2. worker' # worker
  BY <1>1
<1>3. CASE \E h \in Handlers : Request(h)
  BY <1>2, <1>3, RequestCommits
<1>4. CASE \E v \in Workers : Task(v)
  <2>1. PICK v \in Workers : Task(v)
    BY <1>4
  <2>2. CASE Begin(v)
    BY <1>1, <2>2, BeginFacts
  <2>3. CASE NextBatch(v)
    BY <1>1, <2>3, NextBatchFacts DEF Moves
  <2>4. CASE Retry(v)
    BY <1>1, <2>4, RetryFacts DEF Moves
  <2>5. CASE Finish(v)
    BY <1>1, <2>5, FinishFacts
  <2>6. CASE \E i \in Items : Item(v, i)
    BY <1>1, <2>6, ItemMoves DEF ItemMoved, MovesItem, Moves
  <2> QED BY <2>1, <2>2, <2>3, <2>4, <2>5, <2>6 DEF Task
<1>5. CASE \E i \in Diagrams : ManualStart(i) \/ ManualEnd(i)
  BY <1>2, <1>5, ManualEndWrites DEF ManualStart
<1>6. CASE Crash
  <2>1. crashes \in Nat
    BY BuildConstants DEF TypeOK
  <2> QED BY <1>6, <2>1 DEF Crash
<1>7. CASE QuarterHour
  BY <1>2, <1>7 DEF QuarterHour
<1> QED BY <1>3, <1>4, <1>5, <1>6, <1>7 DEF Next

(* The plan holds from the start.                                               *)
LEMMA DoneInvHolds == Spec => []DoneInv
<1>1. Init => DoneInv
  BY DEF Init, DoneInv, KeyInv, Plan, Off
<1>2. TypeOK /\ DoneInv /\ [Next]_vars => DoneInv'
  <2>1. TypeOK /\ DoneInv /\ UNCHANGED vars => DoneInv'
    BY DEF vars, rows, DoneInv, KeyInv, Plan
  <2> QED BY <2>1, StepDone
<1> QED BY <1>1, <1>2, BuildTypeInvariant, PTL DEF Spec

(* A task that ends without failures built all that the queue selected when it  *)
(* began, however many tasks and requests work on the queue meanwhile.          *)
THEOREM CleanEndBuiltHolds == Spec => CleanEndBuilt
<1> DEFINE A == \A w \in Workers : EndsClean(w) => worker[w].selected \subseteq built
<1>1. TypeOK /\ DoneInv /\ [Next]_vars => [A]_vars
  <2> SUFFICES ASSUME TypeOK, DoneInv, Next, NEW w \in Workers, EndsClean(w)
               PROVE  worker[w].selected \subseteq built
    BY DEF EndsClean
  <2>1. Finish(w)
    BY TaskEnds DEF EndsClean, DoneInv
  <2>2. worker[w].todo = {} /\ worker[w].failed = {}
        /\ \A i \in Items : worker[w].line[i] = "idle"
    BY <2>1, FinishFacts DEF Waiting, EndsClean
  <2>3. worker[w].selected \subseteq Items
    BY Types DEF Worker
  <2> QED BY <2>2, <2>3 DEF DoneInv, Plan
<1> QED BY <1>1, BuildTypeInvariant, DoneInvHolds, PTL DEF Spec, CleanEndBuilt

-------------------------------------------------------------------------------
(* The order of the first jobs.  What a version, an available step, a seal, a   *)
(* worker's catalog or an item that is generated stands for has a job.          *)
HasJob(i) == job[i] # "none"
OrderInv ==
    /\ KeyInv
    /\ Orderly(Rows(run))
    /\ \A h \in Handlers : read[h] # NoRow /\ read[h].sealed => \A i \in Items : HasJob(i)
    /\ \A w \in Workers, i \in Items :
          i \in worker[w].seen \/ worker[w].line[i] = "generating" => HasJob(i)
    /\ \A i \in Items \ Diagrams : HasJob(i) => \A d \in Deps[i] : HasJob(d)

(* What a step must show to keep the order.                                     *)
LEMMA OrderKept ==
    ASSUME OrderInv, KeyInv', Orderly(Rows(run))',
           \A i \in Items : HasJob(i) => HasJob(i)',
           \A h \in Handlers : read'[h] # NoRow => read'[h] = read[h] \/ read'[h] = run,
           \A w \in Workers, i \in Items :
              i \in worker'[w].seen \/ worker'[w].line[i] = "generating" =>
                 \/ i \in worker[w].seen \/ worker[w].line[i] = "generating"
                 \/ HasJob(i)',
           \A i \in Items \ Diagrams :
              HasJob(i)' => HasJob(i) \/ \A d \in Deps[i] : HasJob(d)
    PROVE  OrderInv'
<1>1. Rows(run).job = job /\ Rows(run).run = run
  BY DEF Rows
<1>2. ASSUME NEW h \in Handlers, read'[h] # NoRow, read'[h].sealed, NEW i \in Items
      PROVE  HasJob(i)'
  <2>1. HasJob(i)
    BY <1>1, <1>2 DEF OrderInv, Orderly, HasJob
  <2> QED BY <2>1
<1>3. \A i \in Items \ Diagrams : HasJob(i)' => \A d \in Deps[i] : HasJob(d)'
  <2>1. \A i \in Items : Deps[i] \subseteq Items
    BY BuildConstants
  <2>2. \A i \in Items \ Diagrams : HasJob(i) => \A d \in Deps[i] : HasJob(d)
    BY DEF OrderInv
  <2> QED BY <2>1, <2>2
<1>4. \A w \in Workers, i \in Items :
         i \in worker'[w].seen \/ worker'[w].line[i] = "generating" => HasJob(i)'
  BY DEF OrderInv
<1> QED BY <1>2, <1>3, <1>4 DEF OrderInv

(* The rows and the versions of the next state.                                 *)
LEMMA OrderlyNext ==
    ASSUME \A i \in built' : HasJob(i)',
           \A i \in Items : step'[i].status = "available" => HasJob(i)',
           run'.sealed => \A i \in Items : HasJob(i)'
    PROVE  Orderly(Rows(run))'
BY DEF Orderly, Rows, HasJob

(* A request commits rows that are in order, whatever row it read.              *)
LEMMA RequestOrder ==
    ASSUME TypeOK, OrderInv, NEW h \in Handlers, Request(h), KeyInv'
    PROVE  OrderInv'
<1>1. built' = built /\ worker' = worker
  BY RequestCommits
<1>2. CASE Read(h)
  <2>1. read' = [read EXCEPT ![h] = run] /\ UNCHANGED <<rows, built, worker>>
    BY <1>2 DEF Read
  <2>2. Orderly(Rows(run))'
    BY <2>1 DEF rows, Orderly, Rows, OrderInv
  <2>3. \A g \in Handlers : read'[g] # NoRow => read'[g] = read[g] \/ read'[g] = run
    BY <2>1, Types
  <2> QED BY <2>1, <2>2, <2>3, OrderKept DEF rows, HasJob
<1>3. ASSUME Answer(h)
      PROVE  \A g \in Handlers : read'[g] # NoRow => read'[g] = read[g] \/ read'[g] = run
  BY <1>3, Types DEF Answer
<1>4. CASE UNCHANGED <<rows, stepFresh, tasks, queues>> /\ Answer(h)
  <2>1. Orderly(Rows(run))'
    BY <1>1, <1>4 DEF rows, Orderly, Rows, OrderInv
  <2> QED BY <1>1, <1>3, <1>4, <2>1, OrderKept DEF rows, HasJob
<1>5. ASSUME NEW s \in Snapshot, Offer(h, s), Commit(h, s), Answer(h)
      PROVE  OrderInv'
  <2>1. Rows(Seen(h)).job = job /\ Rows(Seen(h)).step = step /\ Rows(Seen(h)).run = Seen(h)
    BY DEF Rows
  <2>2. Orderly(Rows(Seen(h)))
    BY <2>1 DEF OrderInv, Orderly, Seen, Rows, HasJob
  <2>3. /\ Orderly(s) /\ job' = s.job /\ step' = s.step
        /\ run' = Updated(Seen(h), s.run)
        /\ \A i \in Items : HasJob(i)' <=> HasJob(i)
    BY <1>5, <2>1, <2>2 DEF Offer, Descends, Commit, HasJob
  <2>4. run'.sealed => run.sealed \/ s.run.sealed
    BY <2>3 DEF Updated
  <2>5. run.sealed => \A i \in Items : HasJob(i)
    BY DEF OrderInv, Orderly, Rows, HasJob
  <2>6. Orderly(Rows(run))'
    BY <1>1, <2>3, <2>4, <2>5, OrderlyNext DEF Orderly, HasJob
  <2> QED BY <1>1, <1>3, <1>5, <2>3, <2>6, OrderKept
<1> QED BY <1>2, <1>4, <1>5, RequestCommits

(* The item that a dependency allows is generated; the others have a job.       *)
LEMMA GenerateOrder ==
    ASSUME TypeOK, OrderInv, NEW w \in Workers, NEW i \in Items, Generate(w, i), KeyInv'
    PROVE  OrderInv'
<1>1. /\ Ready(w, i) /\ job' = [job EXCEPT ![i] = "generating"]
      /\ UNCHANGED <<run, built, read>>
      /\ \/ Wrote(i, "generating") \/ UNCHANGED <<step, stepFresh>>
  BY DEF Generate, others
<1>2. \A j \in Items : HasJob(j)' <=> j = i \/ HasJob(j)
  BY <1>1, Types DEF HasJob
<1>3. \A d \in Deps[i] : HasJob(d)
  <2> SUFFICES ASSUME NEW d \in Deps[i] PROVE HasJob(d)
    OBVIOUS
  <2>1. d \in Items
    BY BuildConstants
  <2>2. StateOf(d, worker[w].seen, Rows(run)) = "available"
    BY <1>1 DEF Ready
  <2>3. d \in worker[w].seen \/ HasJob(d)
    BY <2>2 DEF StateOf, Rows, StepActive, HasJob
  <2> QED BY <2>1, <2>3 DEF OrderInv
<1>4. \A j \in Items : step'[j].status = "available" => step[j].status = "available"
  BY <1>1, WroteFacts
<1>5. /\ \A j \in built : HasJob(j)
      /\ \A j \in Items : step[j].status = "available" => HasJob(j)
      /\ run.sealed => \A j \in Items : HasJob(j)
      /\ built \subseteq Items
  BY Types DEF OrderInv, Orderly, Rows, HasJob
<1>6. Orderly(Rows(run))'
  BY <1>1, <1>2, <1>4, <1>5, OrderlyNext
<1>7. \A v \in Workers, j \in Items :
         j \in worker'[v].seen \/ worker'[v].line[j] = "generating" =>
            j \in worker[v].seen \/ worker[v].line[j] = "generating" \/ HasJob(j)'
  BY <1>2, GenerateFacts DEF MovesItem, Moves
<1> QED BY <1>1, <1>2, <1>3, <1>6, <1>7, OrderKept

(* The items around it.                                                         *)
LEMMA ItemOrder ==
    ASSUME TypeOK, OrderInv, NEW w \in Workers, NEW i \in Items, Item(w, i)
    PROVE  OrderInv'
<1>1. ItemMoved(w, i) /\ KeyInv'
  BY ItemMoves DEF OrderInv, ItemMoved
<1>2. read' = read
  BY <1>1 DEF ItemMoved, others
<1>3. /\ \A j \in built : HasJob(j)
      /\ \A j \in Items : step[j].status = "available" => HasJob(j)
      /\ run.sealed => \A j \in Items : HasJob(j)
      /\ built \subseteq Items
  BY Types DEF OrderInv, Orderly, Rows, HasJob
<1>4. ASSUME \/ BeginItem(w, i) \/ SkipItem(w, i) \/ BlockItem(w, i) \/ AdoptItem(w, i)
      PROVE  OrderInv'
  <2>1. built' = built /\ job' = job
    BY <1>4 DEF BeginItem, SkipItem, BlockItem, AdoptItem
  <2>2. \A v \in Workers, j \in Items :
           j \in worker'[v].seen \/ worker'[v].line[j] = "generating" =>
              j \in worker[v].seen \/ worker[v].line[j] = "generating"
    <3>1. worker'[w].line[i] # "generating"
      BY <1>4, LineFacts, FailedFacts DEF BeginItem, SkipItem, BlockItem, AdoptItem
    <3> QED BY <1>1, <3>1 DEF ItemMoved, MovesItem, Moves
  <2>3. \A j \in Items : step'[j].status = "available" => HasJob(j)
    <3>1. CASE BeginItem(w, i)
      BY <1>3, <3>1, Types DEF BeginItem, Step
    <3>2. CASE SkipItem(w, i) \/ BlockItem(w, i)
      BY <1>3, <3>2, WroteFacts DEF SkipItem, BlockItem
    <3>3. CASE AdoptItem(w, i)
      <4>1. Key(w, i) \in Keys /\ Key(w, i)[1] = i
        BY Types DEF Key, Keys, Queue, Worker
      <4>2. CASE keyed[Key(w, i)] = "available" /\ Wrote(i, "available")
        BY <1>3, <4>1, <4>2, WroteFacts DEF OrderInv, KeyInv
      <4>3. CASE Wrote(i, "error")
        BY <1>3, <4>3, WroteFacts
      <4> QED BY <3>3, <4>2, <4>3 DEF AdoptItem
    <3> QED BY <1>4, <3>1, <3>2, <3>3
  <2>4. run'.sealed => run.sealed
    BY <1>4, Marks DEF BeginItem, SkipItem, BlockItem, AdoptItem, QueueActive
  <2>5. Orderly(Rows(run))'
    BY <1>3, <2>1, <2>3, <2>4, OrderlyNext DEF HasJob
  <2> QED BY <1>1, <1>2, <2>1, <2>2, <2>5, OrderKept DEF HasJob
<1>5. ASSUME EndItem(w, i) PROVE OrderInv'
  <2>1. worker[w].line[i] = "generating" /\ HasJob(i)
    BY <1>5, EndItemWrites DEF OrderInv
  <2>2. /\ \A j \in Items : HasJob(j)' <=> HasJob(j)
        /\ Orderly(Rows(run))' /\ worker'[w].line[i] = "idle"
    <3>1. CASE /\ UNCHANGED <<run, built>> /\ Failed(w, i) /\ Wrote(i, "error")
               /\ \E s \in Snapshot :
                    /\ s = Ended(w, i, "error")
                    /\ job' = s.job /\ keyed' = s.keyed
      <4>1. \A j \in Items : HasJob(j)' <=> HasJob(j)
        BY <2>1, <3>1, EndedFacts DEF HasJob
      <4>2. \A j \in Items : step'[j].status = "available" => HasJob(j)
        BY <1>3, <3>1, WroteFacts
      <4> QED BY <1>3, <3>1, <4>1, <4>2, OrderlyNext, FailedFacts
    <3>2. CASE /\ built' = built \cup {i} /\ Line(w, i, "idle")
               /\ \E s, t \in Snapshot :
                    /\ s = Ended(w, i, "available")
                    /\ t = s \/ t = Reconciled(s)
                    /\ run' = t.run /\ job' = t.job /\ keyed' = t.keyed
                    /\ step' = [t.step EXCEPT ![i].status = "available"]
                    /\ stepFresh' = t.fresh \cup {i}
      <4>1. PICK s \in Snapshot, t \in Snapshot :
                    /\ s = Ended(w, i, "available")
                    /\ t = s \/ t = Reconciled(s)
                    /\ run' = t.run /\ job' = t.job /\ keyed' = t.keyed
                    /\ step' = [t.step EXCEPT ![i].status = "available"]
                    /\ stepFresh' = t.fresh \cup {i}
        BY <3>2
      <4>2. /\ s.run = run /\ s.step = step
            /\ \A j \in Items : s.job[j] = IF j = i THEN "available" ELSE job[j]
        BY <4>1, EndedFacts
      <4>3. Orderly(s) /\ \A j \in Items : s.job[j] # "none" <=> HasJob(j)
        BY <1>3, <2>1, <4>2 DEF Orderly, HasJob
      <4>4. Orderly(t) /\ \A j \in Items : t.job[j] # "none" <=> HasJob(j)
        BY <4>1, <4>3, ReconciledDescends DEF Descends
      <4>5. \A j \in Items : HasJob(j)' <=> HasJob(j)
        BY <4>1, <4>4 DEF HasJob
      <4>6. \A j \in Items : step'[j].status = "available" =>
                                j = i \/ t.step[j].status = "available"
        BY <4>1, Parts DEF Step
      <4>7. \A j \in built' : HasJob(j)'
        BY <1>3, <2>1, <3>2, <4>5
      <4>8. Orderly(Rows(run))'
        BY <2>1, <4>1, <4>4, <4>5, <4>6, <4>7, OrderlyNext DEF Orderly
      <4> QED BY <3>2, <4>5, <4>8, LineFacts
    <3> QED BY <1>5, <3>1, <3>2, EndItemWrites
  <2>3. \A v \in Workers, j \in Items :
           j \in worker'[v].seen \/ worker'[v].line[j] = "generating" =>
              j \in worker[v].seen \/ worker[v].line[j] = "generating"
    BY <1>1, <2>2 DEF ItemMoved, MovesItem, Moves
  <2> QED BY <1>1, <1>2, <2>2, <2>3, OrderKept
<1> QED BY <1>1, <1>4, <1>5, GenerateOrder DEF Item

(* The row a task marks, with its seal as it was.                               *)
LEMMA FinishOrder ==
    ASSUME TypeOK, OrderInv, NEW w \in Workers, Finish(w)
    PROVE  OrderInv'
<1> DEFINE status == IF worker[w].failed = {} THEN "completed" ELSE "completed_with_errors"
           r == [run EXCEPT !.queue.status = status]
           syn == Synced(Rows(r), worker[w].seen)
<1>1. /\ run' = Finalized(syn).run /\ step' = Finalized(syn).step /\ read' = read
      /\ built' = built /\ keyed' = keyed /\ CloseJobs(worker[w].failed)
  BY DEF Finish
<1>2. status \in QueueActive \cup QueueEnded
  BY DEF QueueEnded
<1> HIDE DEF status
<1>3. r \in Run /\ r.sealed = run.sealed
  BY <1>2, Marks
<1> HIDE DEF r
<1>4. /\ Rows(r) \in Snapshot /\ Rows(r).run = r /\ Rows(r).step = step
      /\ Rows(r).job = job
  BY <1>3, Types DEF Rows
<1>5. /\ \A j \in built : HasJob(j)
      /\ \A j \in Items : step[j].status = "available" => HasJob(j)
      /\ run.sealed => \A j \in Items : HasJob(j)
      /\ built \subseteq Items
  BY Types DEF OrderInv, Orderly, Rows, HasJob
<1>6. Orderly(Rows(r))
  BY <1>3, <1>4, <1>5 DEF Orderly, HasJob
<1>7. worker[w].seen \subseteq Items
  BY Types DEF Worker
<1>8. \A j \in worker[w].seen : Rows(r).job[j] # "none"
  BY <1>4, <1>7 DEF OrderInv, HasJob
<1>9. syn \in Snapshot /\ syn.job = job /\ Orderly(syn)
  BY <1>4, <1>6, <1>8, SyncedKeeps, SyncedOrderly
<1> HIDE DEF syn
<1>10. Orderly(Finalized(syn)) /\ Finalized(syn).job = job
  BY <1>9, FinalizedOrderly, FinalizedKeeps
<1>11. \A j \in Items : HasJob(j) => HasJob(j)'
  BY <1>1, Types DEF CloseJobs, HasJob
<1>12. \A j \in Items \ Diagrams : HasJob(j)' => HasJob(j)
  BY <1>1, Types DEF CloseJobs, HasJob
<1>13. Orderly(Rows(run))'
  BY <1>1, <1>5, <1>10, <1>11, OrderlyNext DEF Orderly, HasJob
<1>14. \A v \in Workers, j \in Items :
         j \in worker'[v].seen \/ worker'[v].line[j] = "generating" =>
            j \in worker[v].seen \/ worker[v].line[j] = "generating"
  BY FinishFacts DEF Off
<1>15. KeyInv'
  BY <1>1 DEF OrderInv, KeyInv
<1> QED BY <1>1, <1>11, <1>12, <1>13, <1>14, <1>15, OrderKept

(* The other steps of a task.                                                   *)
LEMMA TaskOrder ==
    ASSUME TypeOK, OrderInv, NEW w \in Workers, Task(w)
    PROVE  OrderInv'
<1>1. /\ \A j \in built : HasJob(j)
      /\ \A j \in Items : step[j].status = "available" => HasJob(j)
      /\ run.sealed => \A j \in Items : HasJob(j)
      /\ built \subseteq Items
  BY Types DEF OrderInv, Orderly, Rows, HasJob
<1>2. ASSUME UNCHANGED <<step, job, keyed, built, read>>, run'.sealed => run.sealed,
             \A v \in Workers, j \in Items :
               j \in worker'[v].seen \/ worker'[v].line[j] = "generating" =>
                  \/ j \in worker[v].seen \/ worker[v].line[j] = "generating"
                  \/ HasJob(j)
      PROVE  OrderInv'
  <2>1. Orderly(Rows(run))' /\ KeyInv'
    BY <1>1, <1>2, OrderlyNext DEF HasJob, OrderInv, KeyInv
  <2> QED BY <1>2, <2>1, OrderKept DEF HasJob
<1>3. CASE Begin(w)
  <2>1. run'.sealed => run.sealed
    <3>1. \/ run' = run
          \/ run' = [run EXCEPT !.queue.status = "running", !.lifecycle = "running"]
      BY <1>3 DEF Begin
    <3> QED BY <3>1, Marks DEF QueueActive
  <2>2. \A j \in Catalog(job) : HasJob(j)
    BY <1>1 DEF Catalog, HasJob
  <2>3. UNCHANGED <<step, job, keyed, built, read>>
    BY <1>3, BeginFacts DEF others
  <2>4. \A v \in Workers, j \in Items :
          j \in worker'[v].seen \/ worker'[v].line[j] = "generating" =>
             \/ j \in worker[v].seen \/ worker[v].line[j] = "generating"
             \/ HasJob(j)
    BY <1>3, <2>2, BeginFacts
  <2> QED BY <1>2, <2>1, <2>3, <2>4
<1>4. CASE NextBatch(w)
  <2>1. run'.sealed => run.sealed
    BY <1>4, Marks DEF NextBatch, QueueActive
  <2> QED BY <1>2, <1>4, <2>1, NextBatchFacts DEF Moves, others
<1>5. CASE Retry(w)
  BY <1>2, <1>5, RetryFacts DEF Moves, others, rows
<1> QED BY <1>3, <1>4, <1>5, FinishOrder, ItemOrder DEF Task

(* A user's diagram may have a job before its dependencies do.                  *)
LEMMA ManualOrder ==
    ASSUME TypeOK, OrderInv, NEW i \in Diagrams, ManualStart(i) \/ ManualEnd(i), KeyInv'
    PROVE  OrderInv'
<1>1. /\ \A j \in built : HasJob(j)
      /\ \A j \in Items : step[j].status = "available" => HasJob(j)
      /\ run.sealed => \A j \in Items : HasJob(j)
      /\ built \subseteq Items /\ i \in Items
  BY Types DEF OrderInv, Orderly, Rows, HasJob
<1>2. UNCHANGED <<worker, read>>
  BY ManualEndWrites DEF ManualStart
<1>3. /\ \A j \in Items : HasJob(j)' <=> j = i \/ HasJob(j)
      /\ Orderly(Rows(run))'
  <2>1. CASE /\ UNCHANGED <<run, step, built>>
             /\ \A j \in Items : HasJob(j)' <=> j = i \/ HasJob(j)
    BY <1>1, <2>1, OrderlyNext
  <2>2. CASE ManualStart(i)
    <3>1. \A j \in Items : HasJob(j)' <=> j = i \/ HasJob(j)
      BY <1>1, <2>2, Types DEF ManualStart, HasJob
    <3> QED BY <2>1, <2>2, <3>1 DEF ManualStart
  <2>3. CASE UNCHANGED <<run, step, keyed, built, stepFresh>> /\ job' = [job EXCEPT ![i] = "error"]
    <3>1. \A j \in Items : HasJob(j)' <=> j = i \/ HasJob(j)
      BY <1>1, <2>3, Types DEF HasJob
    <3> QED BY <2>1, <2>3, <3>1
  <2>4. CASE /\ built' = built \cup {i}
             /\ \E s, t \in Snapshot :
                  /\ s.run = run /\ s.step = step /\ s.keyed = keyed
                  /\ s.fresh = stepFresh
                  /\ \A j \in Items : s.job[j] = IF j = i THEN "available" ELSE job[j]
                  /\ t = Reconciled(s)
                  /\ run' = t.run /\ job' = t.job /\ keyed' = t.keyed
                  /\ step' = t.step /\ stepFresh' = t.fresh
    <3>1. PICK s \in Snapshot, t \in Snapshot :
                  /\ s.run = run /\ s.step = step /\ s.keyed = keyed
                  /\ s.fresh = stepFresh
                  /\ \A j \in Items : s.job[j] = IF j = i THEN "available" ELSE job[j]
                  /\ t = Reconciled(s)
                  /\ run' = t.run /\ job' = t.job /\ keyed' = t.keyed
                  /\ step' = t.step /\ stepFresh' = t.fresh
      BY <2>4
    <3>2. Orderly(s) /\ \A j \in Items : s.job[j] # "none" <=> j = i \/ HasJob(j)
      BY <1>1, <3>1 DEF Orderly, HasJob
    <3>3. Orderly(t) /\ \A j \in Items : t.job[j] # "none" <=> j = i \/ HasJob(j)
      BY <3>1, <3>2, ReconciledDescends DEF Descends
    <3>4. \A j \in Items : HasJob(j)' <=> j = i \/ HasJob(j)
      BY <3>1, <3>3 DEF HasJob
    <3> QED BY <1>1, <2>4, <3>1, <3>3, <3>4, OrderlyNext DEF Orderly
  <2> QED BY <2>2, <2>3, <2>4, ManualEndWrites
<1> QED BY <1>2, <1>3, OrderKept

(* Every step keeps the order.                                                  *)
LEMMA StepOrder ==
    ASSUME TypeOK, OrderInv, DoneInv', Next
    PROVE  OrderInv'
<1>1. KeyInv'
  BY DEF DoneInv
<1>2. CASE \E h \in Handlers : Request(h)
  BY <1>1, <1>2, RequestOrder
<1>3. CASE \E w \in Workers : Task(w)
  BY <1>3, TaskOrder
<1>4. CASE \E i \in Diagrams : ManualStart(i) \/ ManualEnd(i)
  BY <1>1, <1>4, ManualOrder
<1>5. CASE Crash
  <2>1. UNCHANGED <<run, step, job, built>>
    BY <1>5 DEF Crash, rows
  <2>2. Orderly(Rows(run))'
    BY <2>1 DEF OrderInv, Orderly, Rows
  <2>3. \A w \in Workers, i \in Items : i \notin worker'[w].seen /\ worker'[w].line[i] = "idle"
    BY <1>5 DEF Crash, Off
  <2>4. \A h \in Handlers : read'[h] = NoRow
    BY <1>5 DEF Crash
  <2> QED BY <1>1, <2>1, <2>2, <2>3, <2>4, OrderKept DEF HasJob
<1>6. CASE QuarterHour
  <2>1. UNCHANGED <<run, step, job, built, worker, read>>
    BY <1>6 DEF QuarterHour, rows, others
  <2>2. Orderly(Rows(run))'
    BY <2>1 DEF OrderInv, Orderly, Rows
  <2> QED BY <1>1, <2>1, <2>2, OrderKept DEF HasJob
<1> QED BY <1>2, <1>3, <1>4, <1>5, <1>6 DEF Next

(* A deliverable that users do not make by hand gets its first job after all    *)
(* its dependencies got theirs, and a run is sealed when all have one, for any  *)
(* graph of dependencies and any overlap of requests, tasks and restarts.       *)
THEOREM StartedInOrderInvariant == Spec => []StartedInOrder
<1>1. Init => OrderInv
  BY DEF Init, OrderInv, KeyInv, Orderly, Rows, HasJob, Off
<1>2. TypeOK /\ DoneInv' /\ OrderInv /\ [Next]_vars => OrderInv'
  <2>1. TypeOK /\ OrderInv /\ UNCHANGED vars => OrderInv'
    <3> SUFFICES ASSUME TypeOK, OrderInv, UNCHANGED vars PROVE OrderInv'
      OBVIOUS
    <3>1. UNCHANGED <<run, step, job, keyed, built, worker, read>>
      BY DEF vars, rows, others
    <3>2. Orderly(Rows(run))' /\ KeyInv'
      BY <3>1 DEF OrderInv, Orderly, Rows, KeyInv
    <3> QED BY <3>1, <3>2, OrderKept DEF HasJob
  <2> QED BY <2>1, StepOrder
<1>3. OrderInv => StartedInOrder
  <2> SUFFICES ASSUME OrderInv PROVE StartedInOrder
    OBVIOUS
  <2>1. \A i \in Items : Deps[i] \subseteq Items
    BY BuildConstants
  <2>2. run.sealed => \A i \in Items : HasJob(i)
    BY DEF OrderInv, Orderly, Rows, HasJob
  <2> QED BY <2>1, <2>2 DEF OrderInv, StartedInOrder, Started, HasJob
<1> QED BY <1>1, <1>2, <1>3, BuildTypeInvariant, DoneInvHolds, PTL DEF Spec

-------------------------------------------------------------------------------
(* The queue of a task.  While a task is scheduled or at work all steps were    *)
(* updated of late; only a task at work has items in hand; and no row shows a   *)
(* queue that was not enqueued.                                                 *)
LiveInv ==
    /\ tasks > 0 \/ (\E w \in Workers : Working(w)) => stepFresh = Items
    /\ \A w \in Workers, i \in Items : worker[w].line[i] # "idle" => Working(w)
    /\ run.queue.id <= queues
    /\ \A h \in Handlers : read[h] # NoRow => read[h].queue.id <= queues

(* Steps and jobs updated of late are no orphans.                               *)
Young == \A i \in Items : job[i] = "generating" => i \in jobFresh

(* A recent queue has none.                                                     *)
LEMMA NoOrphans ==
    ASSUME NEW s \in Snapshot, s.run.queue.status \in QueueActive, s.fresh = Items,
           \A i \in Items : s.job[i] = "generating" => i \in jobFresh
    PROVE  Recovered(s) = s
<1> DEFINE active == With(s, StepActive)
           selected == active \cap s.run.queue.selected
           inFlight == {i \in selected : s.step[i].status # "queued"}
<1>1. s.run.queue.selected \subseteq Items
  BY Parts
<1>2. CASE inFlight # {}
  <2>1. \E i \in inFlight : Recent(i, s)
    BY <1>1, <1>2 DEF Recent
  <2> QED BY <1>2, <2>1 DEF Orphans, Recovered
<1>3. CASE inFlight = {}
  <2>1. s.fresh # {} \/ selected = {}
    BY <1>1
  <2>2. Orphans(s) = IF s.fresh # {} THEN {} ELSE selected
    BY <1>3 DEF Orphans
  <2> HIDE DEF selected
  <2>3. Orphans(s) = {}
    BY <2>1, <2>2
  <2> QED BY <2>3 DEF Recovered
<1> QED BY <1>2, <1>3

(* Rows that show the queue as it is, active and recent.                        *)
Lively(s) ==
    /\ s \in Snapshot /\ s.run.queue = run.queue /\ Busy(run) /\ s.fresh = Items
    /\ \A i \in Items : s.job[i] = "generating" => i \in jobFresh

(* Reconciling leaves them so.                                                  *)
LEMMA ReconciledLively ==
    ASSUME NEW s, Lively(s)
    PROVE  Recovered(s) = s /\ Lively(Reconciled(s))
<1> DEFINE seen == Catalog(s.job)
           syn == Synced(s, seen)
<1>1. Recovered(s) = s
  BY NoOrphans DEF Lively, Busy
<1>2. Reconciled(s) = Finalized(syn)
  BY <1>1 DEF Reconciled
<1> HIDE DEF seen
<1>3. /\ syn \in Snapshot /\ syn.run = s.run /\ syn.job = s.job
  BY SyncedKeeps DEF Lively
<1>4. syn.fresh = Items
  BY DEF Lively, Synced, Snapshot
<1> HIDE DEF syn
<1>5. /\ Finalized(syn) \in Snapshot
      /\ Finalized(syn).run.queue = syn.run.queue
      /\ Finalized(syn).job = syn.job /\ Finalized(syn).fresh = syn.fresh
  BY <1>3, FinalizedKeeps
<1> QED BY <1>1, <1>2, <1>3, <1>4, <1>5 DEF Lively

(* A request that sees the queue as it is, and recent, leaves it.               *)
LEMMA RequestKeepsQueue ==
    ASSUME TypeOK, NEW h \in Handlers, Request(h), Busy(run), stepFresh = Items, Young,
           Seen(h).queue = run.queue
    PROVE  run'.queue = run.queue
<1>1. Lively(Rows(Seen(h)))
  BY Types DEF Lively, Rows, Young
<1>2. Lively(Reconciled(Rows(Seen(h))))
  BY <1>1, ReconciledLively
<1>3. Lively(Checked(h))
  BY <1>2, ReconciledLively DEF Checked
<1>4. Lively(Reconciled(Checked(h)))
  BY <1>3, ReconciledLively
<1>5. ASSUME NEW s, Lively(s), Commit(h, s) PROVE run'.queue = run.queue
  BY <1>5 DEF Commit, Updated, Lively
<1>6. CASE Read(h)
  BY <1>6 DEF Read, rows
<1>7. CASE Reconcile(h)
  BY <1>2, <1>5, <1>7 DEF Reconcile
<1>8. CASE Refuse(h)
  BY <1>4, <1>5, <1>8 DEF Refuse, rows
<1>9. ASSUME NEW mode, Enqueue(h, mode) PROVE FALSE
  BY <1>3, <1>9 DEF Enqueue, Lively, Busy
<1> QED BY <1>6, <1>7, <1>8, <1>9 DEF Request

(* The row while a task marks it.                                               *)
LEMMA MarkFacts ==
    ASSUME TypeOK,
           \/ run' = run \/ run' = [run EXCEPT !.queue.status = "running"]
           \/ run' = [run EXCEPT !.queue.status = "running", !.lifecycle = "running"]
    PROVE  run'.queue.id = run.queue.id /\ (Busy(run) => Busy(run'))
<1>1. run \in Run /\ run.queue \in Queue
  BY Types
<1> DEFINE marked == [run.queue EXCEPT !.status = "running"]
<1>2. marked.id = run.queue.id /\ marked.status \in QueueActive
  BY <1>1 DEF Queue, QueueActive
<1>3. run'.queue \in {run.queue, marked}
  <2>1. CASE run' = run
    BY <2>1
  <2>2. CASE run' = [run EXCEPT !.queue.status = "running"]
    BY <1>1, <2>2 DEF Run
  <2>3. CASE run' = [run EXCEPT !.queue.status = "running", !.lifecycle = "running"]
    BY <1>1, <2>3 DEF Run
  <2> QED BY <2>1, <2>2, <2>3
<1> HIDE DEF marked
<1> QED BY <1>2, <1>3 DEF Busy

(* A task keeps the queue the row shows, whichever it is, and keeps it active   *)
(* until it ends, unless an old job is in it.                                   *)
LEMMA TaskKeepsQueue ==
    ASSUME TypeOK, LiveInv, KeyInv, NEW w \in Workers, Task(w)
    PROVE  /\ run'.queue.id = run.queue.id
           /\ Busy(run) /\ Young => Busy(run') \/ Finish(w)
<1>1. CASE Begin(w) \/ NextBatch(w) \/ Retry(w)
  BY <1>1, MarkFacts DEF Begin, NextBatch, Retry, rows
<1>2. CASE Finish(w)
  <2> DEFINE status == IF worker[w].failed = {} THEN "completed" ELSE "completed_with_errors"
             r == [run EXCEPT !.queue.status = status]
             syn == Synced(Rows(r), worker[w].seen)
  <2>1. run' = Finalized(syn).run
    BY <1>2 DEF Finish
  <2>2. status \in QueueActive \cup QueueEnded
    BY DEF QueueEnded
  <2> HIDE DEF status
  <2>3. r \in Run /\ r.queue.id = run.queue.id
    BY <2>2, Marks, Types DEF Run, Queue
  <2> HIDE DEF r
  <2>4. Rows(r) \in Snapshot /\ Rows(r).run = r
    BY <2>3, Types
  <2>5. syn \in Snapshot /\ syn.run = r
    BY <2>4, SyncedKeeps
  <2> HIDE DEF syn
  <2> QED BY <1>2, <2>1, <2>3, <2>5, FinalizedKeeps
<1>3. ASSUME NEW i \in Items, Item(w, i)
      PROVE  /\ run'.queue.id = run.queue.id
             /\ Busy(run) /\ Young => Busy(run')
  <2>1. CASE BeginItem(w, i) \/ SkipItem(w, i) \/ BlockItem(w, i) \/ AdoptItem(w, i)
             \/ Generate(w, i)
    BY <2>1, MarkFacts DEF BeginItem, SkipItem, BlockItem, AdoptItem, Generate
  <2>2. ASSUME EndItem(w, i), built' = built \cup {i}, NEW s \in Snapshot, NEW t \in Snapshot,
               s = Ended(w, i, "available"), t = s \/ t = Reconciled(s), run' = t.run
        PROVE  /\ run'.queue.id = run.queue.id
               /\ Busy(run) /\ Young => Busy(run')
    <3>1. /\ s.run = run /\ s.fresh = stepFresh
          /\ \A j \in Items : s.job[j] = IF j = i THEN "available" ELSE job[j]
      BY <2>2, EndedFacts
    <3>2. Working(w) /\ stepFresh = Items
      BY <2>2, EndItemWrites DEF LiveInv
    <3>3. Busy(run) /\ Young => Lively(s)
      BY <3>1, <3>2 DEF Lively, Young
    <3>4. Busy(run) /\ Young => t.run.queue = run.queue
      BY <2>2, <3>1, <3>3, ReconciledLively DEF Lively
    <3>5. t.run.queue.id = run.queue.id
      BY <2>2, <3>1, ReconciledDescends DEF KeepsQueue
    <3> QED BY <2>2, <3>4, <3>5 DEF Busy
  <2> QED BY <1>3, <2>1, <2>2, EndItemWrites DEF Item
<1> QED BY <1>1, <1>2, <1>3 DEF Task

(* So does a user's own diagram.                                                *)
LEMMA ManualKeepsQueue ==
    ASSUME TypeOK, NEW i \in Diagrams, ManualStart(i) \/ ManualEnd(i)
    PROVE  /\ run'.queue.id = run.queue.id
           /\ Busy(run) /\ Young /\ stepFresh = Items => Busy(run')
           /\ Busy(run') => Busy(run)
<1>1. CASE run' = run
  BY <1>1
<1>2. ASSUME NEW s \in Snapshot, s.run = run, s.fresh = stepFresh, i \in Items,
             \A j \in Items : s.job[j] = IF j = i THEN "available" ELSE job[j],
             run' = Reconciled(s).run
      PROVE  /\ run'.queue.id = run.queue.id
             /\ Busy(run) /\ Young /\ stepFresh = Items => Busy(run')
             /\ Busy(run') => Busy(run)
  <2>1. KeepsQueue(s, Reconciled(s))
    BY ReconciledDescends
  <2>2. Busy(run) /\ Young /\ stepFresh = Items => Lively(s)
    BY <1>2 DEF Lively, Young
  <2>3. Busy(run) /\ Young /\ stepFresh = Items => Reconciled(s).run.queue = run.queue
    BY <2>2, ReconciledLively DEF Lively
  <2> QED BY <1>2, <2>1, <2>3 DEF KeepsQueue, Busy, QueueActive
<1> QED BY <1>1, <1>2, ManualEndWrites DEF ManualStart

(* What a request writes of the queue: the one it was, the one the request saw, *)
(* ended or not, an empty one, or the next.                                     *)
LEMMA RequestQueue ==
    ASSUME TypeOK, LiveInv, NEW h \in Handlers, Request(h)
    PROVE  /\ \/ run'.queue = run.queue /\ queues' = queues /\ tasks' = tasks
              \/ /\ run'.queue.id = Seen(h).queue.id /\ queues' = queues /\ tasks' = tasks
                 /\ Busy(run') => Busy(Seen(h)) /\ Answer(h)
              \/ ~Busy(run') /\ run'.queue.id = 0 /\ queues' = queues /\ tasks' = tasks
              \/ /\ run'.queue = run.queue \/ run'.queue.id = queues + 1
                 /\ queues' = queues + 1
           /\ \A g \in Handlers : read'[g] # NoRow => read'[g] = read[g] \/ read'[g] = run
           /\ \/ stepFresh' = stepFresh /\ tasks' = tasks
              \/ stepFresh' = Items
<1>1. CASE Read(h)
  BY <1>1, Types DEF Read, rows
<1>2. ASSUME Answer(h)
      PROVE  \A g \in Handlers : read'[g] # NoRow => read'[g] = read[g] \/ read'[g] = run
  BY <1>2, Types DEF Answer
<1>3. CASE UNCHANGED <<rows, stepFresh, tasks, queues>> /\ Answer(h)
  BY <1>2, <1>3 DEF rows
<1>4. ASSUME NEW s \in Snapshot, Offer(h, s), Commit(h, s), Answer(h)
      PROVE  /\ \/ run'.queue = run.queue /\ queues' = queues /\ tasks' = tasks
                \/ /\ run'.queue.id = Seen(h).queue.id /\ queues' = queues /\ tasks' = tasks
                   /\ Busy(run') => Busy(Seen(h)) /\ Answer(h)
                \/ ~Busy(run') /\ run'.queue.id = 0 /\ queues' = queues /\ tasks' = tasks
                \/ /\ run'.queue = run.queue \/ run'.queue.id = queues + 1
                   /\ queues' = queues + 1
             /\ stepFresh' = Items
  <2>1. run'.queue = run.queue \/ run'.queue = s.run.queue
    BY <1>4 DEF Commit, Updated
  <2>2. Rows(Seen(h)).run = Seen(h)
    BY DEF Rows
  <2>3. stepFresh' = Items
    BY <1>4 DEF Commit, Offer
  <2>4. CASE run'.queue = run.queue
    BY <1>4, <2>3, <2>4 DEF Offer
  <2>5. CASE run'.queue = s.run.queue
    BY <1>4, <2>2, <2>3, <2>5 DEF Offer, KeepsQueue, Busy, QueueActive
  <2> QED BY <2>1, <2>4, <2>5
<1> QED BY <1>1, <1>2, <1>3, <1>4, RequestCommits

(* Only a task that works has items in hand.                                    *)
LEMMA TaskHands ==
    ASSUME TypeOK, LiveInv, KeyInv, NEW w \in Workers, Task(w)
    PROVE  \A v \in Workers, i \in Items :
              worker'[v].line[i] # "idle" => worker'[v].pc = "pass"
<1>1. \A v \in Workers, i \in Items : worker[v].line[i] # "idle" => worker[v].pc = "pass"
  BY DEF LiveInv, Working
<1>2. CASE Begin(w)
  BY <1>1, <1>2, BeginFacts
<1>3. CASE NextBatch(w)
  BY <1>1, <1>3, NextBatchFacts DEF Moves, Waiting
<1>4. CASE Retry(w)
  BY <1>1, <1>4, RetryFacts DEF Moves
<1>5. CASE Finish(w)
  BY <1>1, <1>5, FinishFacts DEF Off
<1>6. ASSUME NEW i \in Items, Item(w, i)
      PROVE  \A v \in Workers, j \in Items :
                worker'[v].line[j] # "idle" => worker'[v].pc = "pass"
  BY <1>1, <1>6, ItemMoves DEF ItemMoved, MovesItem, Moves
<1> QED BY <1>2, <1>3, <1>4, <1>5, <1>6 DEF Task

(* A task that takes a step was scheduled or at work, and all steps are recent. *)
LEMMA TaskFresh ==
    ASSUME TypeOK, TypeOK', LiveInv, KeyInv, NEW w \in Workers, Task(w)
    PROVE  stepFresh' = Items /\ read' = read /\ queues' = queues
<1>1. CASE Begin(w)
  BY <1>1, BeginFacts DEF LiveInv, others
<1>2. CASE NextBatch(w)
  BY <1>2, NextBatchFacts DEF LiveInv, Waiting, Working, others
<1>3. CASE Retry(w)
  BY <1>3, RetryFacts DEF LiveInv, Waiting, Working, others
<1>4. CASE Finish(w)
  <2> DEFINE r == [run EXCEPT !.queue.status =
                     IF worker[w].failed = {} THEN "completed" ELSE "completed_with_errors"]
             syn == Synced(Rows(r), worker[w].seen)
  <2>1. stepFresh' = Finalized(syn).fresh
    BY <1>4 DEF Finish
  <2>2. r \in Run
    BY Marks DEF QueueEnded
  <2> HIDE DEF r
  <2>3. Rows(r) \in Snapshot
    BY <2>2, Types
  <2>4. syn \in Snapshot /\ syn.fresh = Items
    BY <2>3, SyncedKeeps DEF Synced, Snapshot
  <2> HIDE DEF syn
  <2>5. stepFresh' = Items
    BY <2>1, <2>4, FinalizedKeeps
  <2> QED BY <1>4, <2>5, FinishFacts
<1>5. ASSUME NEW i \in Items, Item(w, i)
      PROVE  stepFresh' = Items /\ read' = read /\ queues' = queues
  <2>1. ItemMoved(w, i)
    BY <1>5, ItemMoves
  <2>2. stepFresh = Items
    BY <2>1 DEF LiveInv, ItemMoved
  <2> QED BY <2>1, <2>2 DEF ItemMoved, others, TypeOK
<1> QED BY <1>1, <1>2, <1>3, <1>4, <1>5 DEF Task

(* Every step keeps the invariant.                                              *)
LEMMA StepLive ==
    ASSUME TypeOK, TypeOK', LiveInv, KeyInv, Next
    PROVE  LiveInv'
<1>1. CASE \E h \in Handlers : Request(h)
  <2>1. PICK h \in Handlers : Request(h)
    BY <1>1
  <2>2. worker' = worker /\ queues \in Nat /\ queues' \in Nat
    BY <2>1, RequestCommits, BuildConstants DEF TypeOK
  <2>3. Seen(h).queue.id <= queues
    BY <2>1 DEF Seen, LiveInv
  <2>4. run.queue.id \in Nat /\ Seen(h).queue.id \in Nat
        /\ \A g \in Handlers : read[g] # NoRow => read[g].queue.id \in Nat
    BY Types, BuildConstants DEF Run, Queue
  <2>5. queues' = queues \/ queues' = queues + 1
    BY <2>1, RequestQueue
  <2>6. run'.queue.id <= queues'
    <3>1. run'.queue = run.queue \/ run'.queue.id = Seen(h).queue.id
          \/ run'.queue.id = 0 \/ (run'.queue.id = queues + 1 /\ queues' = queues + 1)
      BY <2>1, RequestQueue
    <3> QED BY <2>2, <2>3, <2>4, <2>5, <3>1 DEF LiveInv
  <2>7. \A g \in Handlers : read'[g] # NoRow => read'[g].queue.id <= queues'
    <3>1. \A g \in Handlers : read'[g] # NoRow => read'[g] = read[g] \/ read'[g] = run
      BY <2>1, RequestQueue
    <3> QED BY <2>2, <2>4, <2>5, <3>1 DEF LiveInv
  <2>8. \/ stepFresh' = stepFresh /\ tasks' = tasks
        \/ stepFresh' = Items
    BY <2>1, RequestQueue
  <2> QED BY <2>2, <2>6, <2>7, <2>8 DEF LiveInv, Working
<1>2. CASE \E w \in Workers : Task(w)
  <2>1. PICK w \in Workers : Task(w)
    BY <1>2
  <2>2. run'.queue.id = run.queue.id
    BY <2>1, TaskKeepsQueue
  <2>3. \A v \in Workers, i \in Items :
           worker'[v].line[i] # "idle" => worker'[v].pc = "pass"
    BY <2>1, TaskHands
  <2> QED BY <2>1, <2>2, <2>3, TaskFresh DEF LiveInv, Working
<1>3. CASE \E i \in Diagrams : ManualStart(i) \/ ManualEnd(i)
  <2>1. PICK i \in Diagrams : ManualStart(i) \/ ManualEnd(i)
    BY <1>3
  <2>2. run'.queue.id = run.queue.id
    BY <2>1, ManualKeepsQueue
  <2>3. UNCHANGED <<tasks, worker, read, queues>>
    BY <2>1, ManualEndWrites DEF ManualStart
  <2>4. stepFresh' = stepFresh \/ stepFresh' = Items
    <3>1. ASSUME NEW s \in Snapshot PROVE Reconciled(s).fresh = Items
      BY ReconciledDescends
    <3> QED BY <2>1, <3>1, ManualEndWrites DEF ManualStart
  <2> QED BY <2>2, <2>3, <2>4 DEF LiveInv, Working
<1>4. CASE Crash
  <2>1. ~(tasks' > 0) /\ \A w \in Workers : worker'[w] = Off
    BY <1>4 DEF Crash
  <2>2. Off.pc # "pass" /\ \A i \in Items : Off.line[i] = "idle"
    BY DEF Off
  <2> QED BY <1>4, <2>1, <2>2 DEF Crash, rows, LiveInv, Working
<1>5. CASE QuarterHour
  <2>1. ~(tasks' > 0) /\ \A w \in Workers : ~Working(w)'
    BY <1>5 DEF QuarterHour, Quiet, Working
  <2> QED BY <1>5, <2>1 DEF QuarterHour, rows, others, LiveInv, Working
<1> QED BY <1>1, <1>2, <1>3, <1>4, <1>5 DEF Next

(* It holds from the start.                                                     *)
LEMMA LiveInvHolds == Spec => []LiveInv
<1>1. Init => LiveInv
  BY DEF Init, LiveInv, Working, Off
<1>2. TypeOK /\ TypeOK' /\ DoneInv /\ LiveInv /\ [Next]_vars => LiveInv'
  <2>1. TypeOK /\ LiveInv /\ UNCHANGED vars => LiveInv'
    BY DEF vars, rows, others, LiveInv, Working
  <2> QED BY <2>1, StepLive DEF DoneInv
<1> QED BY <1>1, <1>2, BuildTypeInvariant, DoneInvHolds, PTL DEF Spec

-------------------------------------------------------------------------------
(* The two promises of QueueKept, for one step.                                 *)
EndsTask     == \E v \in Workers : Working(v) /\ worker'[v] = Off
EndsStale    == \E h \in Handlers : Answered(h) /\ read[h].queue # run.queue
ReopensTask  == \E w \in Workers : Working(w) /\ Task(w)
ReopensStale == \E h \in Handlers : /\ Answered(h) /\ Busy(read[h])
                                    /\ read[h].queue.id = run.queue.id

(* A request that held a row answers with it.                                   *)
LEMMA AnswersRow ==
    ASSUME TypeOK, NEW h \in Handlers, Answer(h), read[h] # NoRow
    PROVE  Answered(h) /\ Seen(h) = read[h]
BY Types DEF Answer, Answered, Seen

(* The queue of a living task is ended or replaced by the end of a task, or by  *)
(* a request that saw another one, or holds a job that a restart left.          *)
LEMMA TakenBy ==
    ASSUME TypeOK, LiveInv, KeyInv, Next, Busy(run), Taken, Young,
           NEW w \in Workers, Working(w), worker'[w] # Off
    PROVE  EndsTask \/ EndsStale
<1>1. stepFresh = Items
  BY DEF LiveInv
<1>2. run'.queue # run.queue
  BY DEF Taken, Busy
<1>3. CASE \E h \in Handlers : Request(h)
  <2>1. PICK h \in Handlers : Request(h)
    BY <1>3
  <2>2. Seen(h).queue # run.queue
    BY <1>1, <1>2, <2>1, RequestKeepsQueue
  <2>3. read[h] # NoRow /\ Seen(h) = read[h]
    BY <2>2 DEF Seen
  <2>4. Answer(h)
    BY <1>2, <2>1 DEF Request, Read, Reconcile, Refuse, Enqueue, rows
  <2> QED BY <2>2, <2>3, <2>4, AnswersRow DEF EndsStale
<1>4. CASE \E v \in Workers : Task(v)
  <2>1. PICK v \in Workers : Task(v)
    BY <1>4
  <2>2. Finish(v)
    BY <2>1, TaskKeepsQueue DEF Taken
  <2> QED BY <2>2, FinishFacts DEF Waiting, Working, EndsTask
<1>5. CASE \E i \in Diagrams : ManualStart(i) \/ ManualEnd(i)
  BY <1>1, <1>5, ManualKeepsQueue DEF Taken
<1>6. CASE Crash
  BY <1>6 DEF Crash
<1>7. CASE QuarterHour
  BY <1>2, <1>7 DEF QuarterHour, rows
<1> QED BY <1>3, <1>4, <1>5, <1>6, <1>7 DEF Next

(* A queue that ended is active again by a task at work, or by a request that   *)
(* saw it active.                                                               *)
LEMMA ReopenedBy ==
    ASSUME TypeOK, LiveInv, KeyInv, Next, run.queue.status \in QueueEnded, Reopened
    PROVE  ReopensTask \/ ReopensStale
<1>1. ~Busy(run) /\ Busy(run') /\ run'.queue.id = run.queue.id /\ run'.queue # run.queue
  BY DEF Busy, QueueActive, QueueEnded, Reopened
<1>2. CASE \E h \in Handlers : Request(h)
  <2>1. PICK h \in Handlers : Request(h)
    BY <1>2
  <2>2. run.queue.id # queues + 1
    BY Types, BuildConstants DEF LiveInv, Queue, TypeOK
  <2>3. run'.queue.id = Seen(h).queue.id /\ Busy(Seen(h)) /\ Answer(h)
    BY <1>1, <2>1, <2>2, RequestQueue
  <2>4. read[h] # NoRow
    BY <1>1, <2>3 DEF Seen
  <2> QED BY <1>1, <2>3, <2>4, AnswersRow DEF ReopensStale
<1>3. CASE \E w \in Workers : Task(w)
  <2>1. PICK w \in Workers : Task(w)
    BY <1>3
  <2>2. CASE Begin(w)
    BY <1>1, <2>2, BeginFacts
  <2>3. CASE NextBatch(w) \/ Retry(w) \/ Finish(w)
    BY <2>1, <2>3, NextBatchFacts, RetryFacts, FinishFacts DEF Waiting, Working, ReopensTask
  <2>4. ASSUME NEW i \in Items, Item(w, i) PROVE ReopensTask
    BY <2>1, <2>4, ItemMoves DEF ItemMoved, LiveInv, ReopensTask
  <2> QED BY <2>1, <2>2, <2>3, <2>4 DEF Task
<1>4. CASE \E i \in Diagrams : ManualStart(i) \/ ManualEnd(i)
  BY <1>1, <1>4, ManualKeepsQueue
<1>5. CASE Crash \/ QuarterHour
  BY <1>1, <1>5 DEF Crash, QuarterHour, rows
<1> QED BY <1>2, <1>3, <1>4, <1>5 DEF Next

(* Requests take no queue from a living task and reopen none, but by a row they *)
(* read before, for any number of requests, tasks, overlaps and restarts.       *)
THEOREM QueueKeptHolds == Spec => QueueKept
<1> DEFINE A ==
        /\ Busy(run) /\ Taken /\ (\E w \in Workers : Working(w) /\ worker'[w] # Off)
            => \/ \E v \in Workers : Working(v) /\ worker'[v] = Off
               \/ \E h \in Handlers : Answered(h) /\ read[h].queue # run.queue
               \/ \E i \in Items : job[i] = "generating" /\ i \notin jobFresh
        /\ run.queue.status \in QueueEnded /\ Reopened
            => \/ \E w \in Workers : Working(w) /\ Task(w)
               \/ \E h \in Handlers : /\ Answered(h) /\ Busy(read[h])
                                      /\ read[h].queue.id = run.queue.id
<1>1. TypeOK /\ LiveInv /\ DoneInv /\ [Next]_vars => [A]_vars
  <2> SUFFICES ASSUME TypeOK, LiveInv, KeyInv, Next PROVE A
    BY DEF DoneInv
  <2>1. ASSUME Busy(run), Taken, NEW w \in Workers, Working(w), worker'[w] # Off, Young
        PROVE  EndsTask \/ EndsStale
    BY <2>1, TakenBy
  <2>2. ASSUME run.queue.status \in QueueEnded, Reopened
        PROVE  ReopensTask \/ ReopensStale
    BY <2>2, ReopenedBy
  <2> QED BY <2>1, <2>2 DEF Young, EndsTask, EndsStale, ReopensTask, ReopensStale
<1> QED BY <1>1, BuildTypeInvariant, LiveInvHolds, DoneInvHolds, PTL DEF Spec, QueueKept

===============================================================================
