------------------------- MODULE StageOperationsProofs -------------------------
(* Proofs about StageOperations for any operations, actions, requests and     *)
(* pages, any number of tasks of an operation, and a runtime that catches     *)
(* cancellations or not.                                                      *)
EXTENDS StageOperations, FiniteSetTheorems, TLAPS

Requests == Users \cup Watchers
Began(o, n) == ~At(o, n, "none")

(* A request has the row of the operation it is about, or has found none.     *)
RequestInv == \A r \in Requests :
    request[r].pc # "idle" =>
        /\ request[r].key \in Ops
        /\ \/ request[r].op \in Ops
           \/ request[r].pc = "others" /\ request[r].seen = NoRow

(* Every attempt, of a row or of what a request saw of it, has had its task.  *)
AttemptInv ==
    /\ \A o \in Ops : \A n \in Numbers : n <= row[o].attempt => Began(o, n)
    /\ \A r \in Requests : request[r].pc # "idle" /\ request[r].op \in Ops =>
          \A n \in Numbers : n <= request[r].seen.attempt => Began(request[r].op, n)

RoundInv == \A o \in Ops, n \in Numbers :
    task[o][n].pc \in {"mark", "work"} => task[o][n].round \in Rounds

(* A task that began a round while a cancellation was asked for meets it at   *)
(* its next look, unless a retry took the cancellation back.                  *)
LateInv == \A o \in Ops :
    /\ late[o] # {} => row[o].cancel
    /\ \A n \in Numbers :
          /\ <<n, 1>> \in late[o] =>
                \/ task[o][n].pc \in {"stop", "publish", "done"}
                \/ At(o, n, "work") /\ task[o][n].round = 1
                \/ At(o, n, "look") /\ task[o][n].round = 2
          /\ <<n, 2>> \in late[o] =>
                \/ At(o, n, "done")
                \/ task[o][n].pc # "none" /\ task[o][n].round # 1

(* A task that will yet write a status of its own: one that saw the operation *)
(* cancelled already leaves the status to whoever changed it since.           *)
Owes(o, n) ==
    /\ task[o][n].pc \notin {"none", "done"}
    /\ At(o, n, "stop") => task[o][n].saw # "cancelled"

StrandInv == \A o \in Ops :
    row[o].status \in Active /\ crashes = 0 => \E n \in Numbers : Owes(o, n)

IInv ==
    /\ OpTypeOK /\ RequestInv /\ AttemptInv /\ RoundInv /\ LateInv
    /\ StopsAtNextCheckpoint /\ StrandInv

-------------------------------------------------------------------------------
(* The types of what the actions read.                                        *)
LEMMA Types ==
    ASSUME IInv
    PROVE  /\ row \in [Ops -> Row]
           /\ task \in [Ops -> [Numbers -> Task]]
           /\ request \in [Requests -> Request]
           /\ late \in [Ops -> SUBSET (Numbers \X Rounds)]
           /\ \A o \in Ops : late[o] \subseteq Numbers \X Rounds
BY DEF IInv, OpTypeOK, Requests

(* Every task but that of number n of operation o is as it was.               *)
Only(o, n) == \A p \in Ops, m \in Numbers : p # o \/ m # n => task'[p][m] = task[p][m]

(* What a task is replaced by, and what To and Ends do to theirs.             *)
LEMMA TaskSet ==
    ASSUME IInv, NEW o \in Ops, NEW n \in Numbers, NEW new \in Task,
           task' = [task EXCEPT ![o] = [task[o] EXCEPT ![n] = new]]
    PROVE  Only(o, n) /\ task' \in [Ops -> [Numbers -> Task]] /\ task'[o][n] = new
<1>1. task[o] \in [Numbers -> Task]
  BY Types
<1>2. task'[o] = [task[o] EXCEPT ![n] = new] /\ \A p \in Ops \ {o} : task'[p] = task[p]
  BY Types
<1> QED BY Types, <1>1, <1>2 DEF Only

(* A task that goes on keeps its round.                                       *)
LEMMA TaskTo ==
    ASSUME IInv, NEW o \in Ops, NEW n \in Numbers, NEW pc \in {"look", "stop", "mark", "work", "publish"},
           NEW saw \in Statuses \cup {"none"}, To(o, n, pc, saw)
    PROVE  /\ Only(o, n) /\ task' \in [Ops -> [Numbers -> Task]]
           /\ task'[o][n].pc = pc /\ task'[o][n].saw = saw
           /\ task'[o][n].round = task[o][n].round
<1> DEFINE new == [[task[o][n] EXCEPT !.pc = pc] EXCEPT !.saw = saw]
<1>1. task[o] \in [Numbers -> Task] /\ task[o][n] \in Task
  BY Types
<1>2. new \in Task /\ new.pc = pc /\ new.saw = saw /\ new.round = task[o][n].round
  BY <1>1 DEF Task
<1>3. task' = [task EXCEPT ![o] = [task[o] EXCEPT ![n] = new]]
  BY Types, <1>1 DEF To
<1> HIDE DEF new
<1>4. new \in Task
  BY <1>2
<1>5. Only(o, n) /\ task' \in [Ops -> [Numbers -> Task]] /\ task'[o][n] = new
  BY <1>3, <1>4, TaskSet
<1> QED BY <1>2, <1>5

(* A task that ends is done, and the others are as they were.                 *)
LEMMA TaskEnds ==
    ASSUME IInv, NEW o \in Ops, NEW n \in Numbers, Ends(o, n)
    PROVE  Only(o, n) /\ task'[o][n] = Done /\ task' \in [Ops -> [Numbers -> Task]]
BY Types DEF Ends, Only, Task, Done, NoTask
(* Writing a status leaves attempts, cancellations and other rows alone.      *)
LEMMA StatusSet ==
    ASSUME IInv, NEW o \in Ops, NEW saw \in Statuses \cup {"none"}, NEW new \in Statuses,
           Status(o, saw, new)
    PROVE  /\ row' \in [Ops -> Row]
           /\ \A p \in Ops : row'[p].attempt = row[p].attempt /\ row'[p].cancel = row[p].cancel
           /\ \A p \in Ops \ {o} : row'[p] = row[p]
           /\ row'[o].status = IF saw = new THEN row[o].status ELSE new
<1> DEFINE status == Column(row[o].status, saw, new)
           to == [row[o] EXCEPT !.status = status, !.fresh = TRUE]
<1>1. row[o] \in Row
  BY Types
<1>2. status \in Statuses \cup {"none"} /\ status = IF saw = new THEN row[o].status ELSE new
  BY <1>1 DEF Column, Row
<1>3. row' = [row EXCEPT ![o] = to]
  BY Types DEF Status
<1> HIDE DEF status
<1>4. to \in Row /\ to.attempt = row[o].attempt /\ to.cancel = row[o].cancel /\ to.status = status
  BY <1>1, <1>2 DEF Row
<1> HIDE DEF to
<1>5. row' \in [Ops -> Row] /\ row'[o] = to /\ \A p \in Ops \ {o} : row'[p] = row[p]
  BY <1>3, <1>4, Types
<1> QED BY <1>2, <1>4, <1>5

(* What a step of a task does to the tasks and the rows.                      *)
LEMMA RunStep ==
    ASSUME IInv, NEW o \in Ops, NEW n \in Numbers, Run(o, n)
    PROVE  /\ Only(o, n) /\ task' \in [Ops -> [Numbers -> Task]]
           /\ task[o][n].pc \notin {"none", "done"} /\ task'[o][n].pc # "none"
           /\ row' \in [Ops -> Row]
           /\ \A p \in Ops : row'[p].attempt = row[p].attempt /\ row'[p].cancel = row[p].cancel
           /\ \A p \in Ops \ {o} : row'[p] = row[p]
           /\ UNCHANGED <<action, request, clicks, crashes>>
<1>0. task[o][n] \in Task /\ row[o] \in Row
  BY Types
<1>1. CASE Look(o, n)
  <2>1. PICK pc \in {"stop", "publish", "mark"}, saw \in {row[o].status, "none"} : To(o, n, pc, saw)
    BY <1>1 DEF Look
  <2>2. saw \in Statuses \cup {"none"}
    BY <1>0, <2>1 DEF Row
  <2>3. Only(o, n) /\ task' \in [Ops -> [Numbers -> Task]] /\ task'[o][n].pc = pc
    BY <2>1, <2>2, TaskTo
  <2> QED BY <1>1, <2>1, <2>3, Types DEF Look, At, OfTask
<1>2. CASE Stop(o, n)
  <2>1. Status(o, task[o][n].saw, "cancelled") /\ (To(o, n, "publish", "none") \/ Ends(o, n))
    BY <1>2 DEF Stop
  <2>2. /\ Only(o, n) /\ task' \in [Ops -> [Numbers -> Task]] /\ task'[o][n].pc # "none"
    BY <2>1, TaskTo, TaskEnds DEF Done, NoTask
  <2>3. task[o][n].saw \in Statuses \cup {"none"} /\ "cancelled" \in Statuses
    BY <1>0 DEF Task, Statuses, Terminal
  <2>4. /\ row' \in [Ops -> Row]
        /\ \A p \in Ops : row'[p].attempt = row[p].attempt /\ row'[p].cancel = row[p].cancel
        /\ \A p \in Ops \ {o} : row'[p] = row[p]
    BY <2>1, <2>3, StatusSet
  <2> QED BY <1>2, <2>2, <2>4 DEF Stop, At, OfTask
<1>3. CASE Mark(o, n)
  <2>1. Status(o, task[o][n].saw, "running") /\ To(o, n, "work", "none")
    BY <1>3 DEF Mark
  <2>2. /\ Only(o, n) /\ task' \in [Ops -> [Numbers -> Task]] /\ task'[o][n].pc # "none"
    BY <2>1, TaskTo
  <2>3. task[o][n].saw \in Statuses \cup {"none"} /\ "running" \in Statuses
    BY <1>0 DEF Task, Statuses, Active
  <2>4. /\ row' \in [Ops -> Row]
        /\ \A p \in Ops : row'[p].attempt = row[p].attempt /\ row'[p].cancel = row[p].cancel
        /\ \A p \in Ops \ {o} : row'[p] = row[p]
    BY <2>1, <2>3, StatusSet
  <2> QED BY <1>3, <2>2, <2>4 DEF Mark, At, OfTask
<1>4. CASE Worked(o, n)
  <2>1. task[o][n].round \in Rounds
    BY <1>4 DEF Worked, At, IInv, RoundInv
  <2> DEFINE again == task[o][n].round = 1 \/ LooksAgain
             k == IF again THEN task[o][n].round + 1 ELSE task[o][n].round
             pc == IF again THEN "look" ELSE "publish"
             new == [[task[o][n] EXCEPT !.round = k] EXCEPT !.pc = pc]
  <2>5. k \in 1..3 /\ pc \in {"look", "publish"}
    BY <2>1 DEF Rounds
  <2> HIDE DEF k, pc
  <2>2. new \in Task /\ new.pc \in {"look", "publish"}
    BY <1>0, <2>5 DEF Task
  <2> USE DEF k, pc
  <2>3. task' = [task EXCEPT ![o] = [task[o] EXCEPT ![n] = new]]
    BY <1>0, <1>4, Types DEF Worked
  <2> HIDE DEF new
  <2>4. /\ Only(o, n) /\ task' \in [Ops -> [Numbers -> Task]] /\ task'[o][n] = new
    BY <2>2, <2>3, TaskSet
  <2> QED BY <1>4, <2>2, <2>4, Types DEF Worked, At, OfTask
<1>5. CASE Publish(o, n)
  <2>1. Only(o, n) /\ task' \in [Ops -> [Numbers -> Task]] /\ task'[o][n] = Done
    BY <1>5, TaskEnds DEF Publish
  <2>2. PICK status \in {"completed", "waiting"} :
          row' = [row EXCEPT ![o].status = status, ![o].fresh = TRUE,
                             ![o].result = @ \/ action # "generate_estimation_report"]
    BY <1>5 DEF Publish
  <2> DEFINE new == [row[o] EXCEPT !.status = status, !.fresh = TRUE,
                                   !.result = @ \/ action # "generate_estimation_report"]
  <2>3. new \in Row /\ new.attempt = row[o].attempt /\ new.cancel = row[o].cancel
    BY <1>0, <2>2 DEF Row, Statuses, Terminal
  <2>5. row' = [row EXCEPT ![o] = new]
    BY <1>0, <2>2, Types
  <2> HIDE DEF new
  <2>4. /\ row' \in [Ops -> Row]
        /\ \A p \in Ops : row'[p].attempt = row[p].attempt /\ row'[p].cancel = row[p].cancel
        /\ \A p \in Ops \ {o} : row'[p] = row[p]
    BY <2>3, <2>5, Types
  <2> QED BY <1>5, <2>1, <2>4 DEF Publish, At, OfTask, Done, NoTask
<1>6. CASE Break(o, n)
  <2>1. Only(o, n) /\ task' \in [Ops -> [Numbers -> Task]] /\ task'[o][n] = Done
    BY <1>6, TaskEnds DEF Break
  <2>2. row' = [row EXCEPT ![o].status = "failed", ![o].fresh = TRUE] /\ "failed" \in Statuses
    BY <1>6 DEF Break, Statuses, Terminal
  <2> DEFINE new == [row[o] EXCEPT !.status = "failed", !.fresh = TRUE]
  <2>3. new \in Row /\ new.attempt = row[o].attempt /\ new.cancel = row[o].cancel
    BY <1>0, <2>2 DEF Row
  <2>5. row' = [row EXCEPT ![o] = new]
    BY <2>2, Types
  <2> HIDE DEF new
  <2>4. /\ row' \in [Ops -> Row]
        /\ \A p \in Ops : row'[p].attempt = row[p].attempt /\ row'[p].cancel = row[p].cancel
        /\ \A p \in Ops \ {o} : row'[p] = row[p]
    BY <2>3, <2>5, Types
  <2> QED BY <1>6, <2>1, <2>4 DEF Break, At, OfTask, Done, NoTask
<1> QED BY <1>1, <1>2, <1>3, <1>4, <1>5, <1>6 DEF Run

(* A request that saw an operation is about one.                              *)
LEMMA SawOne ==
    ASSUME IInv, NEW r \in Requests, request[r].pc # "idle"
    PROVE  /\ request[r].key \in Ops /\ request[r].seen \in Row
           /\ request[r].pc # "others" \/ request[r].seen.status # "none" => request[r].op \in Ops
           /\ request[r].op \in Ops =>
                 \A n \in Numbers : n <= request[r].seen.attempt => Began(request[r].op, n)
BY Types DEF IInv, RequestInv, AttemptInv, Request, NoRow

(* An operation is closed.                                                    *)
LEMMA RowCloses ==
    ASSUME IInv, NEW o \in Ops, NEW status \in Terminal,
           row' = [row EXCEPT ![o].status = status, ![o].fresh = TRUE]
    PROVE  /\ row' \in [Ops -> Row] /\ row'[o] \in Row
           /\ \A p \in Ops : /\ row'[p].attempt = row[p].attempt
                             /\ row[p].cancel => row'[p].cancel
                             /\ row'[p].status \in Active => row[p].status \in Active
<1> DEFINE new == [[row[o] EXCEPT !.status = status] EXCEPT !.fresh = TRUE]
<1>1. /\ row[o] \in Row /\ new \in Row /\ new.status \notin Active
      /\ new.attempt = row[o].attempt /\ new.cancel = row[o].cancel
  BY Types DEF Row, Statuses, Active, Terminal
<1>2. row' = [row EXCEPT ![o] = new]
  BY Types
<1> HIDE DEF new
<1> QED BY <1>1, <1>2, Types

(* What a request does that spawns no task.                                   *)
LEMMA ServeStep ==
    ASSUME IInv, NEW r \in Requests,
           \/ Recover(r) \/ Settle(r) \/ Answer(r) \/ Cancel(r) \/ LookForOther(r) \/ Resume(r)
           \/ Insert(r) /\ row[request[r].key].status # "none"
    PROVE  /\ UNCHANGED <<action, task, late, clicks, crashes>>
           /\ row' \in [Ops -> Row]
           /\ \A p \in Ops : /\ row'[p].attempt = row[p].attempt
                             /\ row[p].cancel => row'[p].cancel
                             /\ row'[p].status \in Active => row[p].status \in Active
           /\ \A q \in Requests \ {r} : request'[q] = request[q]
           /\ request' \in [Requests -> Request]
           /\ request'[r].pc # "idle" =>
                 /\ request'[r].key \in Ops
                 /\ \/ /\ request'[r].op \in Ops
                       /\ request'[r].seen = row'[request'[r].op]
                    \/ /\ request'[r].pc = "others" /\ request'[r].seen = NoRow
                       /\ request'[r].op = NoOp
<1> DEFINE o == request[r].op
<1>0. request[r] \in Request /\ Idle \in Request /\ NoRow \in Row
  BY Types, OperationConstants DEF Idle, Request, NoRow, Row, Statuses, Clicks
<1>a. ASSUME Answered(r)
      PROVE  /\ request' \in [Requests -> Request] /\ request'[r].pc = "idle"
             /\ \A q \in Requests \ {r} : request'[q] = request[q]
  BY <1>0, <1>a, Types DEF Answered, Idle
<1>b. ASSUME NEW pc \in {"start", "current", "cancel", "retry", "others", "resume"},
             NEW p \in Ops \cup {NoOp}, NEW seen \in Row, request[r].key \in Ops,
             request' = [request EXCEPT ![r].pc = pc, ![r].op = p, ![r].seen = seen]
      PROVE  /\ request' \in [Requests -> Request]
             /\ request'[r].pc = pc /\ request'[r].op = p /\ request'[r].seen = seen
             /\ request'[r].key \in Ops
             /\ \A q \in Requests \ {r} : request'[q] = request[q]
  <2> DEFINE new == [[[request[r] EXCEPT !.pc = pc] EXCEPT !.op = p] EXCEPT !.seen = seen]
  <2>1. new \in Request /\ new.pc = pc /\ new.op = p /\ new.seen = seen /\ new.key = request[r].key
    BY <1>0 DEF Request, Clicks
  <2>2. request' = [request EXCEPT ![r] = new]
    BY <1>0, <1>b, Types
  <2> HIDE DEF new
  <2>3. request'[r] = new /\ \A q \in Requests \ {r} : request'[q] = request[q]
    BY <2>2, Types
  <2>4. request' \in [Requests -> Request]
    BY <2>1, <2>2, Types
  <2>5. request[r].key \in Ops
    BY <1>b
  <2> QED BY <2>1, <2>3, <2>4, <2>5
<1>1. CASE Recover(r)
  <2>1. o \in Ops /\ request[r].key \in Ops
    BY <1>1, SawOne DEF Recover, Stale, Active
  <2>2. row' = [row EXCEPT ![o].status = "failed", ![o].fresh = TRUE]
    BY <1>1 DEF Recover
  <2>3. /\ row' \in [Ops -> Row] /\ row'[o] \in Row
        /\ \A p \in Ops : /\ row'[p].attempt = row[p].attempt
                          /\ row[p].cancel => row'[p].cancel
                          /\ row'[p].status \in Active => row[p].status \in Active
    BY <2>1, <2>2, RowCloses DEF Terminal
  <2>4. CASE Answered(r)
    BY <1>1, <1>a, <2>3, <2>4 DEF Recover, OfRequest
  <2>5. CASE request[r].pc # "get" /\ Reread(r, o, request[r].pc)
    <3>1. request[r].pc \in {"start", "current", "cancel", "retry", "others", "resume"}
      BY <1>0, <1>1, <2>5 DEF Recover, Request, Clicks
    <3>2. PICK seen \in Row : seen = row'[o]
      BY <2>3
    <3>3. request' = [request EXCEPT ![r].pc = request[r].pc, ![r].op = o, ![r].seen = seen]
      BY <2>5, <3>2 DEF Reread
    <3>4. /\ request' \in [Requests -> Request]
          /\ request'[r].op = o /\ request'[r].seen = seen /\ request'[r].key \in Ops
          /\ \A q \in Requests \ {r} : request'[q] = request[q]
      BY <1>b, <2>1, <3>1, <3>3
    <3> QED BY <1>1, <2>1, <2>3, <3>2, <3>4 DEF Recover, OfRequest
  <2> QED BY <1>1, <2>4, <2>5 DEF Recover
<1>2. CASE Settle(r)
  <2>1. o \in Ops
    BY <1>2, SawOne DEF Settle, Reading
  <2>2. row' = [row EXCEPT ![o].status = "completed", ![o].fresh = TRUE]
    BY <1>2 DEF Settle
  <2>3. /\ row' \in [Ops -> Row]
        /\ \A p \in Ops : /\ row'[p].attempt = row[p].attempt
                          /\ row[p].cancel => row'[p].cancel
                          /\ row'[p].status \in Active => row[p].status \in Active
    BY <2>1, <2>2, RowCloses DEF Terminal
  <2> QED BY <1>2, <1>a, <2>3 DEF Settle, OfRequest
<1>3. CASE Answer(r)
  BY <1>3, <1>a, Types DEF Answer, OfRequest, Reads
<1>4. CASE Cancel(r)
  <2>1. o \in Ops /\ request[r].seen \in Row
    BY <1>4, SawOne DEF Cancel, Reading
  <2> DEFINE asked == Column(row[o].cancel, request[r].seen.cancel, TRUE)
             status == IF request[r].seen.status = "queued" THEN "cancelled" ELSE row[o].status
             new == [[[row[o] EXCEPT !.cancel = asked] EXCEPT !.status = status]
                        EXCEPT !.fresh = TRUE]
  <2>2. row[o] \in Row /\ asked \in BOOLEAN /\ (row[o].cancel => asked)
    BY <2>1, Types DEF Column, Row
  <2>3. status \in Statuses \cup {"none"} /\ (status \in Active => row[o].status \in Active)
    BY <2>2 DEF Row, Statuses, Active, Terminal
  <2>4. row' = [row EXCEPT ![o] = new]
    BY <1>4, <2>1, Types DEF Cancel
  <2> HIDE DEF asked, status
  <2>5. /\ new \in Row /\ new.attempt = row[o].attempt /\ new.cancel = asked
        /\ new.status = status
    BY <2>2, <2>3 DEF Row
  <2> HIDE DEF new
  <2>6. /\ row' \in [Ops -> Row]
        /\ \A p \in Ops : /\ row'[p].attempt = row[p].attempt
                          /\ row[p].cancel => row'[p].cancel
                          /\ row'[p].status \in Active => row[p].status \in Active
    BY <2>1, <2>2, <2>3, <2>4, <2>5, Types
  <2> QED BY <1>4, <1>a, <2>6 DEF Cancel, OfRequest
<1>5. CASE LookForOther(r)
  <2>1. UNCHANGED <<action, row, task, late, clicks, crashes>> /\ request[r].key \in Ops
    BY <1>5, SawOne DEF LookForOther, OfRequest, Reads, Reading
  <2>2. CASE \E p \in Ops : request' = [request EXCEPT ![r].pc = "others", ![r].op = p, ![r].seen = row[p]]
    <3>1. PICK p \in Ops : request' = [request EXCEPT ![r].pc = "others", ![r].op = p, ![r].seen = row[p]]
      BY <2>2
    <3>2. /\ request' \in [Requests -> Request]
          /\ request'[r].op = p /\ request'[r].seen = row[p] /\ request'[r].key \in Ops
          /\ \A q \in Requests \ {r} : request'[q] = request[q]
      BY <1>b, <2>1, <3>1, Types
    <3> QED BY <2>1, <3>2, Types
  <2>3. CASE request' = [request EXCEPT ![r].pc = "others", ![r].op = NoOp, ![r].seen = NoRow]
    BY <1>0, <1>b, <2>1, <2>3, Types
  <2> QED BY <1>5, <2>2, <2>3 DEF LookForOther
<1>6. CASE Resume(r)
  <2>1. UNCHANGED <<action, row, task, late, clicks, crashes>> /\ request[r].key \in Ops
    BY <1>6, SawOne DEF Resume, Inserting, OfRequest, Reads, Reading
  <2>2. PICK p \in Ops : request' = [request EXCEPT ![r].pc = "resume", ![r].op = p, ![r].seen = row[p]]
    BY <1>6 DEF Resume
  <2>3. /\ request' \in [Requests -> Request]
        /\ request'[r].op = p /\ request'[r].seen = row[p] /\ request'[r].key \in Ops
        /\ \A q \in Requests \ {r} : request'[q] = request[q]
    BY <1>b, <2>1, <2>2, Types
  <2> QED BY <2>1, <2>3, Types
<1>7. CASE Insert(r) /\ row[request[r].key].status # "none"
  BY <1>7, <1>a, Types DEF Insert, OfRequest, Reads
<1> QED BY <1>1, <1>2, <1>3, <1>4, <1>5, <1>6, <1>7

(* A retry or an insert queues an operation with a task that has not begun.   *)
SpawnsFor(r) == Again(r) \/ (Insert(r) /\ row[request[r].key].status = "none")

(* What these two write: the row, its task, and the request's answer.  The    *)
(* attempt is one more than the request saw, or the first.                    *)
LEMMA SpawnNumber ==
    ASSUME IInv, NEW r \in Requests, SpawnsFor(r)
    PROVE  /\ \E o \in Ops, n \in Numbers, new \in Row :
                 /\ row' = [row EXCEPT ![o] = new] /\ new.status = "queued"
                 /\ late' = IF new.cancel THEN late ELSE [late EXCEPT ![o] = {}]
                 /\ Only(o, n) /\ At(o, n, "none") /\ task'[o][n].pc = "look"
                 /\ task'[o][n].round = task[o][n].round
                 /\ \A m \in Numbers : m <= new.attempt => task'[o][m].pc # "none"
                 /\ \/ o = request[r].op /\ new.attempt = request[r].seen.attempt + 1
                    \/ o = request[r].key /\ row[o].status = "none" /\ new.attempt = 1
           /\ task' \in [Ops -> [Numbers -> Task]]
           /\ request' = [request EXCEPT ![r] = Idle]
           /\ UNCHANGED <<action, clicks, crashes>>
<1>1. ASSUME NEW o \in Ops, NEW a \in 0..MaxTasks, NEW new,
             \A n \in Numbers : n <= a => Began(o, n),
             Spawned(o, new), new.attempt = a + 1, new.status = "queued",
             a + 1 \in 0..MaxTasks => new \in Row
      PROVE  /\ \E n \in Numbers :
                 /\ row' = [row EXCEPT ![o] = new] /\ new \in Row
                 /\ late' = IF new.cancel THEN late ELSE [late EXCEPT ![o] = {}]
                 /\ Only(o, n) /\ At(o, n, "none") /\ task'[o][n].pc = "look"
                 /\ task'[o][n].round = task[o][n].round
                 /\ \A m \in Numbers : m <= new.attempt => task'[o][m].pc # "none"
             /\ task' \in [Ops -> [Numbers -> Task]]
  <2>1. PICK n \in Numbers : /\ At(o, n, "none") /\ \A i \in 1..(n - 1) : ~At(o, i, "none")
                             /\ task' = [task EXCEPT ![o][n].pc = "look"]
    BY <1>1 DEF Spawned
  <2> DEFINE t == [task[o][n] EXCEPT !.pc = "look"]
  <2>2. task[o][n] \in Task /\ task[o] \in [Numbers -> Task]
    BY Types
  <2>3. t \in Task /\ t.pc = "look" /\ t.round = task[o][n].round
    BY <2>2 DEF Task
  <2>4. task' = [task EXCEPT ![o] = [task[o] EXCEPT ![n] = t]]
    BY <2>1, <2>2, Types
  <2> HIDE DEF t
  <2>5. Only(o, n) /\ task' \in [Ops -> [Numbers -> Task]] /\ task'[o][n] = t
    BY <2>3, <2>4, TaskSet
  <2>6. n \in 1..MaxTasks /\ MaxTasks \in Nat /\ a \in Nat /\ ~(n <= a)
    BY <1>1, <2>1, OperationConstants DEF Numbers, Began
  <2>7. a + 1 <= n /\ a + 1 \in 0..MaxTasks
    BY <2>6
  <2>8. ASSUME NEW m \in Numbers, m <= a + 1 PROVE task'[o][m].pc # "none"
    <3>1. m \in 1..(n - 1) \/ m = n
      BY <2>6, <2>7, <2>8 DEF Numbers
    <3>2. CASE m = n
      BY <2>3, <2>5, <3>2
    <3>3. CASE m \in 1..(n - 1) /\ m # n
      BY <2>1, <2>5, <3>3 DEF Only, At
    <3> QED BY <3>1, <3>2, <3>3
  <2> QED BY <1>1, <2>1, <2>3, <2>5, <2>7, <2>8 DEF Spawned
<1>2. CASE Again(r)
  <2> DEFINE o == request[r].op
             seen == request[r].seen
             new == [status |-> "queued", attempt |-> seen.attempt + 1, fresh |-> TRUE,
                     cancel |-> Column(row[o].cancel, seen.cancel, FALSE),
                     result |-> Column(row[o].result, seen.result, FALSE)]
  <2>1. request[r].pc \in {"retry", "start", "resume"}
    BY <1>2 DEF Again, Reading
  <2>2. seen \in Row /\ (request[r].pc = "resume" \/ seen.status # "none")
    BY <1>2, <2>1, SawOne DEF Again, Reading
  <2>3. o \in Ops /\ \A n \in Numbers : n <= seen.attempt => Began(o, n)
    BY <2>1, <2>2, SawOne DEF IInv, RequestInv
  <2>4. Column(row[o].cancel, seen.cancel, FALSE) \in BOOLEAN
        /\ Column(row[o].result, seen.result, FALSE) \in BOOLEAN
    BY <2>2, <2>3, Types DEF Column, Row
  <2>5. seen.attempt \in 0..MaxTasks
    BY <2>2 DEF Row
  <2>6. seen.attempt + 1 \in 0..MaxTasks => new \in Row
    BY <2>4 DEF Row, Statuses, Active
  <2>7. Spawned(o, new) /\ UNCHANGED <<action, clicks, crashes>>
        /\ request' = [request EXCEPT ![r] = Idle]
    BY <1>2 DEF Again, Requeued, OfRequest, Answered
  <2>8. new.attempt = seen.attempt + 1 /\ new.status = "queued"
    OBVIOUS
  <2>9. o = request[r].op /\ new.attempt = request[r].seen.attempt + 1
    OBVIOUS
  <2> HIDE DEF new, o, seen
  <2> QED BY <1>1, <2>3, <2>5, <2>6, <2>7, <2>8, <2>9
<1>3. CASE Insert(r) /\ row[request[r].key].status = "none"
  <2> DEFINE o == request[r].key
             new == [NoRow EXCEPT !.status = "queued", !.attempt = 1]
  <2>1. o \in Ops
    BY <1>3, SawOne DEF Insert, Inserting, Reading
  <2>2. Spawned(o, new) /\ UNCHANGED <<action, clicks, crashes>>
        /\ request' = [request EXCEPT ![r] = Idle]
    BY <1>3 DEF Insert, OfRequest, Answered
  <2>3. /\ new.attempt = 0 + 1 /\ new.status = "queued"
        /\ 0 + 1 \in 0..MaxTasks => new \in Row
    <3>1. NoRow \in Row
      BY OperationConstants DEF NoRow, Row
    <3>2. 1 \in 0..MaxTasks /\ "queued" \in Statuses
      BY OperationConstants DEF Statuses, Active
    <3>3. [[NoRow EXCEPT !.status = "queued"] EXCEPT !.attempt = 1] \in Row
      BY <3>1, <3>2 DEF Row
    <3>4. new = [[NoRow EXCEPT !.status = "queued"] EXCEPT !.attempt = 1]
      OBVIOUS
    <3>5. new.attempt = 1 /\ new.status = "queued"
      BY DEF NoRow
    <3> QED BY <3>3, <3>4, <3>5
  <2>4. 0 \in 0..MaxTasks /\ \A n \in Numbers : n <= 0 => Began(o, n)
    BY OperationConstants DEF Numbers
  <2>5. o = request[r].key /\ row[o].status = "none" /\ new.attempt = 1
    BY <1>3 DEF NoRow
  <2> HIDE DEF new, o
  <2> QED BY <1>1, <2>1, <2>2, <2>3, <2>4, <2>5
<1> QED BY <1>2, <1>3 DEF SpawnsFor

(* The same without the number of the attempt.                                *)
LEMMA SpawnStep ==
    ASSUME IInv, NEW r \in Requests, SpawnsFor(r)
    PROVE  /\ \E o \in Ops, n \in Numbers, new \in Row :
                 /\ row' = [row EXCEPT ![o] = new] /\ new.status = "queued"
                 /\ late' = IF new.cancel THEN late ELSE [late EXCEPT ![o] = {}]
                 /\ Only(o, n) /\ At(o, n, "none") /\ task'[o][n].pc = "look"
                 /\ task'[o][n].round = task[o][n].round
                 /\ \A m \in Numbers : m <= new.attempt => task'[o][m].pc # "none"
           /\ task' \in [Ops -> [Numbers -> Task]]
           /\ request' = [request EXCEPT ![r] = Idle]
           /\ UNCHANGED <<action, clicks, crashes>>
<1>1. PICK o \in Ops, n \in Numbers, new \in Row :
           /\ row' = [row EXCEPT ![o] = new] /\ new.status = "queued"
           /\ late' = IF new.cancel THEN late ELSE [late EXCEPT ![o] = {}]
           /\ Only(o, n) /\ At(o, n, "none") /\ task'[o][n].pc = "look"
           /\ task'[o][n].round = task[o][n].round
           /\ \A m \in Numbers : m <= new.attempt => task'[o][m].pc # "none"
           /\ \/ o = request[r].op /\ new.attempt = request[r].seen.attempt + 1
              \/ o = request[r].key /\ row[o].status = "none" /\ new.attempt = 1
  BY SpawnNumber, Zenon
<1>2. /\ task' \in [Ops -> [Numbers -> Task]] /\ request' = [request EXCEPT ![r] = Idle]
      /\ UNCHANGED <<action, clicks, crashes>>
  BY SpawnNumber
<1> QED BY <1>1, <1>2

(* All the steps there are.                                                   *)
LEMMA Steps ==
    ASSUME Next
    PROVE  \/ \E o \in Ops, n \in Numbers : Run(o, n)
           \/ \E r \in Requests, o \in Ops :
                 \/ \E kind \in Clicks : Click(r, kind, o)
                 \/ Poll(r, o)
           \/ \E r \in Requests :
                 \/ SpawnsFor(r)
                 \/ Recover(r) \/ Settle(r) \/ Answer(r) \/ Cancel(r) \/ LookForOther(r)
                 \/ Resume(r) \/ (Insert(r) /\ row[request[r].key].status # "none")
           \/ \E o \in Ops : Age(o)
           \/ Crash
<1>1. ASSUME NEW r \in Requests, Serve(r)
      PROVE  \/ SpawnsFor(r)
             \/ Recover(r) \/ Settle(r) \/ Answer(r) \/ Cancel(r) \/ LookForOther(r)
             \/ Resume(r) \/ (Insert(r) /\ row[request[r].key].status # "none")
  BY <1>1 DEF Serve, SpawnsFor
<1>2. ASSUME \E r \in Users, kind \in Clicks, o \in Ops : Click(r, kind, o)
      PROVE  \E r \in Requests, o \in Ops : \E kind \in Clicks : Click(r, kind, o)
  BY <1>2 DEF Requests
<1>3. ASSUME \E r \in Watchers, o \in Ops : Poll(r, o)
      PROVE  \E r \in Requests, o \in Ops : Poll(r, o)
  BY <1>3 DEF Requests
<1>4. ASSUME \E r \in Users \cup Watchers : Serve(r)
      PROVE  \E r \in Requests : Serve(r)
  BY <1>4 DEF Requests
<1>5. \/ \E o \in Ops, n \in Numbers : Run(o, n)
      \/ \E r \in Users, kind \in Clicks, o \in Ops : Click(r, kind, o)
      \/ \E r \in Watchers, o \in Ops : Poll(r, o)
      \/ \E r \in Users \cup Watchers : Serve(r)
      \/ \E o \in Ops : Age(o)
      \/ Crash
  BY DEF Next
<1> QED BY <1>1, <1>2, <1>3, <1>4, <1>5

(* A click or a poll only reads.                                              *)
LEMMA AskStep ==
    ASSUME IInv, NEW r \in Requests, NEW o \in Ops,
           (\E kind \in Clicks : Click(r, kind, o)) \/ Poll(r, o)
    PROVE  /\ UNCHANGED <<action, row, task, late, crashes>>
           /\ clicks' \in {clicks, clicks + 1} /\ (clicks' = clicks + 1 => clicks < MaxClicks)
           /\ \A q \in Requests \ {r} : request'[q] = request[q]
           /\ request' \in [Requests -> Request]
           /\ request'[r].key \in Ops /\ request'[r].op = o /\ request'[r].seen = row[o]
<1>1. PICK kind \in Clicks \cup {"get"} :
         request' = [request EXCEPT ![r] = [pc |-> kind, op |-> o, key |-> o, seen |-> row[o]]]
  BY DEF Click, Poll
<1>2. [pc |-> kind, op |-> o, key |-> o, seen |-> row[o]] \in Request
  BY Types DEF Request
<1>3. /\ UNCHANGED <<action, row, task, late, crashes>>
      /\ clicks' \in {clicks, clicks + 1} /\ (clicks' = clicks + 1 => clicks < MaxClicks)
  <2>1. CASE Poll(r, o)
    BY <2>1, OperationConstants DEF Poll, OfRequest, Reads, IInv, OpTypeOK
  <2>2. CASE \E kind1 \in Clicks : Click(r, kind1, o)
    BY <2>2 DEF Click, Reads
  <2> QED BY <2>1, <2>2
<1> QED BY <1>1, <1>2, <1>3, Types

(* A task, once begun, has begun.                                             *)
LEMMA BeganStays ==
    ASSUME IInv, Next, NEW o \in Ops, NEW n \in Numbers, Began(o, n)
    PROVE  task'[o][n].pc # "none"
<1> USE DEF Began, At
<1>1. ASSUME NEW p \in Ops, NEW m \in Numbers, Run(p, m) PROVE task'[o][n].pc # "none"
  BY <1>1, RunStep DEF Only
<1>2. ASSUME NEW r \in Requests, SpawnsFor(r) PROVE task'[o][n].pc # "none"
  BY <1>2, SpawnStep DEF Only
<1>3. CASE Crash
  BY <1>3 DEF Crash, Done, NoTask
<1>4. CASE task' = task
  BY <1>4
<1> QED BY <1>1, <1>2, <1>3, <1>4, Steps, ServeStep, AskStep DEF Age

(* Types.                                                                     *)
LEMMA TypeStep == IInv /\ Next => OpTypeOK'
<1> SUFFICES ASSUME IInv, Next PROVE OpTypeOK'
  OBVIOUS
<1>0. /\ action \in Actions /\ clicks \in 0..MaxClicks /\ crashes \in 0..MaxCrashes
      /\ MaxClicks \in Nat /\ MaxCrashes \in Nat
  BY OperationConstants DEF IInv, OpTypeOK
<1>1. ASSUME NEW o \in Ops, NEW n \in Numbers, Run(o, n) PROVE OpTypeOK'
  <2>1. late' \in [Ops -> SUBSET (Numbers \X Rounds)]
    <3>1. CASE late' = late
      BY <3>1, Types
    <3>2. CASE Mark(o, n)
      <4>1. task[o][n].round \in Rounds
        BY <3>2 DEF Mark, At, IInv, RoundInv
      <4> QED BY <3>2, <4>1, Types DEF Mark
    <3> QED BY <1>1, <3>1, <3>2 DEF Run, Look, Stop, Worked, Publish, Break
  <2> QED BY <1>0, <1>1, <2>1, Types, RunStep DEF OpTypeOK, Requests
<1>2. ASSUME NEW r \in Requests, SpawnsFor(r) PROVE OpTypeOK'
  <2>1. PICK o \in Ops, new \in Row :
           /\ row' = [row EXCEPT ![o] = new]
           /\ late' = IF new.cancel THEN late ELSE [late EXCEPT ![o] = {}]
    BY <1>2, SpawnStep
  <2>2. row' \in [Ops -> Row] /\ late' \in [Ops -> SUBSET (Numbers \X Rounds)]
    BY <2>1, Types
  <2>3. Idle \in Request
    BY OperationConstants DEF Idle, NoRow, Request, Row
  <2>4. request' \in [Requests -> Request] /\ task' \in [Ops -> [Numbers -> Task]]
    BY <1>2, <2>3, SpawnStep, Types
  <2> QED BY <1>0, <1>2, <2>2, <2>4, SpawnStep DEF OpTypeOK, Requests
<1>3. ASSUME NEW r \in Requests,
             \/ Recover(r) \/ Settle(r) \/ Answer(r) \/ Cancel(r) \/ LookForOther(r) \/ Resume(r)
             \/ (Insert(r) /\ row[request[r].key].status # "none")
      PROVE  OpTypeOK'
  BY <1>0, <1>3, Types, ServeStep DEF OpTypeOK, Requests
<1>4. ASSUME NEW r \in Requests, NEW o \in Ops,
             (\E kind \in Clicks : Click(r, kind, o)) \/ Poll(r, o)
      PROVE  OpTypeOK'
  <2>1. /\ UNCHANGED <<action, row, task, late, crashes>>
        /\ clicks' \in {clicks, clicks + 1} /\ (clicks' = clicks + 1 => clicks < MaxClicks)
        /\ request' \in [Requests -> Request]
    BY <1>4, AskStep
  <2>2. clicks' \in 0..MaxClicks
    BY <1>0, <2>1
  <2> QED BY <1>0, <2>1, <2>2, Types DEF OpTypeOK, Requests
<1>5. ASSUME NEW o \in Ops, Age(o) PROVE OpTypeOK'
  <2>1. row' \in [Ops -> Row]
    <3>1. row[o] \in Row
      BY Types
    <3>2. [row[o] EXCEPT !.fresh = FALSE] \in Row
      BY <3>1 DEF Row
    <3>3. row' = [row EXCEPT ![o] = [row[o] EXCEPT !.fresh = FALSE]]
      BY <1>5, Types DEF Age
    <3> QED BY <3>2, <3>3, Types
  <2> QED BY <1>0, <1>5, <2>1, Types DEF Age, OpTypeOK, Requests
<1>6. CASE Crash
  <2>1. NoTask \in Task /\ Done \in Task /\ Idle \in Request
    BY OperationConstants DEF NoTask, Done, Task, Idle, NoRow, Request, Row
  <2>2. task' \in [Ops -> [Numbers -> Task]] /\ request' \in [Requests -> Request]
    BY <1>6, <2>1 DEF Crash, Requests
  <2> QED BY <1>0, <1>6, <2>2, Types DEF Crash, OpTypeOK, Requests
<1> QED BY <1>1, <1>2, <1>3, <1>4, <1>5, <1>6, Steps

(* Requests know what they are about, and attempts have had their tasks.      *)
LEMMA RequestStep == IInv /\ Next => RequestInv' /\ AttemptInv'
<1> SUFFICES ASSUME IInv, Next PROVE RequestInv' /\ AttemptInv'
  OBVIOUS
<1> DEFINE Well(r) == request[r].pc # "idle" =>
              /\ request[r].key \in Ops
              /\ \/ request[r].op \in Ops
                 \/ request[r].pc = "others" /\ request[r].seen = NoRow
              /\ request[r].op \in Ops =>
                    \A n \in Numbers : n <= request[r].seen.attempt => Began(request[r].op, n)
           Backed(o) == \A n \in Numbers : n <= row[o].attempt => Began(o, n)
<1>a. (\A r \in Requests : Well(r)) /\ (\A o \in Ops : Backed(o))
  BY DEF IInv, RequestInv, AttemptInv
<1>b. (\A r \in Requests : Well(r)') /\ (\A o \in Ops : Backed(o)') => RequestInv' /\ AttemptInv'
  BY DEF RequestInv, AttemptInv
<1>1. ASSUME NEW r \in Requests, request'[r] = request[r] PROVE Well(r)'
  BY <1>a, <1>1, BeganStays DEF Began, At
<1>2. ASSUME NEW r \in Requests, request'[r] = Idle PROVE Well(r)'
  BY <1>2 DEF Idle
<1>3. ASSUME NEW o \in Ops, row'[o].attempt = row[o].attempt PROVE Backed(o)'
  BY <1>a, <1>3, BeganStays DEF Began, At
<1>4. ASSUME NEW r \in Requests, NEW o \in Ops, request'[r].key \in Ops, request'[r].op = o,
             request'[r].seen.attempt = row[o].attempt
      PROVE  Well(r)'
  BY <1>a, <1>4, BeganStays DEF Began, At
<1>5. ASSUME NEW r \in Requests, request'[r].key \in Ops, request'[r].pc = "others",
             request'[r].seen = NoRow
      PROVE  Well(r)'
  BY <1>5 DEF NoRow, Numbers
<1> HIDE DEF Well, Backed
<1>6. ASSUME NEW o \in Ops, NEW n \in Numbers, Run(o, n) PROVE RequestInv' /\ AttemptInv'
  BY <1>b, <1>1, <1>3, <1>6, RunStep
<1>7. ASSUME NEW r \in Requests, SpawnsFor(r) PROVE RequestInv' /\ AttemptInv'
  <2>1. PICK o \in Ops, n \in Numbers, new \in Row :
           /\ row' = [row EXCEPT ![o] = new]
           /\ \A m \in Numbers : m <= new.attempt => task'[o][m].pc # "none"
    BY <1>7, SpawnStep
  <2>2. row'[o] = new /\ \A p \in Ops \ {o} : row'[p] = row[p]
    BY <2>1, Types
  <2>3. Backed(o)'
    BY <2>1, <2>2 DEF Backed, Began, At
  <2>4. request'[r] = Idle /\ \A q \in Requests \ {r} : request'[q] = request[q]
    BY <1>7, SpawnStep, Types
  <2> QED BY <1>b, <1>1, <1>2, <1>3, <2>2, <2>3, <2>4
<1>8. ASSUME NEW r \in Requests,
             \/ Recover(r) \/ Settle(r) \/ Answer(r) \/ Cancel(r) \/ LookForOther(r) \/ Resume(r)
             \/ (Insert(r) /\ row[request[r].key].status # "none")
      PROVE  RequestInv' /\ AttemptInv'
  <2>1. /\ \A p \in Ops : row'[p].attempt = row[p].attempt
        /\ \A q \in Requests \ {r} : request'[q] = request[q]
        /\ request'[r].pc # "idle" =>
              /\ request'[r].key \in Ops
              /\ \/ /\ request'[r].op \in Ops
                    /\ request'[r].seen.attempt = row'[request'[r].op].attempt
                 \/ request'[r].pc = "others" /\ request'[r].seen = NoRow
    BY <1>8, ServeStep
  <2>2. Well(r)'
    <3>1. CASE request'[r].pc = "idle"
      BY <3>1 DEF Well
    <3>2. CASE request'[r].op \in Ops /\ request'[r].pc # "idle"
              /\ request'[r].seen.attempt = row'[request'[r].op].attempt
      BY <1>4, <2>1, <3>2
    <3> QED BY <1>5, <2>1, <3>1, <3>2
  <2> QED BY <1>b, <1>1, <1>3, <2>1, <2>2
<1>9. ASSUME NEW r \in Requests, NEW o \in Ops,
             (\E kind \in Clicks : Click(r, kind, o)) \/ Poll(r, o)
      PROVE  RequestInv' /\ AttemptInv'
  BY <1>b, <1>1, <1>3, <1>4, <1>9, AskStep
<1>10. ASSUME NEW o \in Ops, Age(o) PROVE RequestInv' /\ AttemptInv'
  <2>1. \A p \in Ops : row'[p].attempt = row[p].attempt
    BY <1>10, Types DEF Age, Row
  <2> QED BY <1>b, <1>1, <1>3, <1>10, <2>1 DEF Age
<1>11. CASE Crash
  BY <1>b, <1>2, <1>3, <1>11 DEF Crash, Requests
<1> QED BY <1>6, <1>7, <1>8, <1>9, <1>10, <1>11, Steps

(* A task marks and works in one of its two rounds.                           *)
LEMMA RoundStep == IInv /\ Next => RoundInv'
<1> SUFFICES ASSUME IInv, Next PROVE RoundInv'
  OBVIOUS
<1>0. \A o \in Ops, n \in Numbers : task[o][n].pc \in {"mark", "work"} => task[o][n].round \in Rounds
  BY DEF IInv, RoundInv
<1>1. ASSUME NEW o \in Ops, NEW n \in Numbers, Run(o, n) PROVE RoundInv'
  <2>1. task'[o][n].pc \in {"mark", "work"} => task'[o][n].round \in Rounds
    <3>0. task[o][n] \in Task /\ row[o] \in Row
      BY Types
    <3>1. CASE Look(o, n)
      <4>1. PICK pc \in {"stop", "publish", "mark"}, saw \in {row[o].status, "none"} :
               To(o, n, pc, saw) /\ (pc = "mark" => task[o][n].round # 3)
        BY <3>1 DEF Look
      <4>2. saw \in Statuses \cup {"none"}
        BY <3>0, <4>1 DEF Row
      <4>3. task'[o][n].pc = pc /\ task'[o][n].round = task[o][n].round
        BY <4>1, <4>2, TaskTo
      <4> QED BY <3>0, <4>1, <4>3 DEF Task, Rounds
    <3>2. CASE Mark(o, n)
      <4>1. task'[o][n].round = task[o][n].round
        BY <3>2, TaskTo DEF Mark
      <4> QED BY <1>0, <3>2, <4>1 DEF Mark, At
    <3>3. CASE Stop(o, n)
      <4>1. To(o, n, "publish", "none") \/ Ends(o, n)
        BY <3>3 DEF Stop
      <4> QED BY <4>1, TaskTo, TaskEnds DEF Done, NoTask
    <3>4. CASE Worked(o, n)
      BY <3>0, <3>4, Types DEF Worked, Task
    <3>5. CASE Publish(o, n) \/ Break(o, n)
      <4>1. Ends(o, n)
        BY <3>5 DEF Publish, Break
      <4>2. task'[o][n] = Done
        BY <4>1, TaskEnds
      <4> QED BY <4>2 DEF Done, NoTask
    <3> QED BY <1>1, <3>1, <3>2, <3>3, <3>4, <3>5 DEF Run
  <2>2. Only(o, n)
    BY <1>1, RunStep
  <2> QED BY <1>0, <2>1, <2>2 DEF RoundInv, Only
<1>2. ASSUME NEW r \in Requests, SpawnsFor(r) PROVE RoundInv'
  <2>1. PICK o \in Ops, n \in Numbers : Only(o, n) /\ task'[o][n].pc = "look"
    BY <1>2, SpawnStep
  <2> QED BY <1>0, <2>1 DEF RoundInv, Only
<1>3. CASE Crash
  BY <1>3 DEF Crash, RoundInv, NoTask, Done
<1>4. task' = task => RoundInv'
  BY <1>0 DEF RoundInv
<1> QED BY <1>1, <1>2, <1>3, <1>4, Steps, ServeStep, AskStep DEF Age

-------------------------------------------------------------------------------
(* Cancellation: what a step of a task does to the rounds begun late.         *)
LEMMA LateRun ==
    ASSUME IInv, NEW o \in Ops, NEW n \in Numbers, Run(o, n)
    PROVE  LateInv' /\ StopsAtNextCheckpoint'
<1>0. /\ late[o] # {} => row[o].cancel
      /\ <<n, 1>> \in late[o] => \/ task[o][n].pc \in {"stop", "publish", "done"}
                                 \/ At(o, n, "work") /\ task[o][n].round = 1
                                 \/ At(o, n, "look") /\ task[o][n].round = 2
      /\ <<n, 2>> \in late[o] => \/ At(o, n, "done")
                                 \/ task[o][n].pc # "none" /\ task[o][n].round # 1
  BY DEF IInv, LateInv
<1>a. task[o][n] \in Task /\ row[o] \in Row
  BY Types
<1>1. Only(o, n) /\ \A p \in Ops : row'[p].cancel = row[p].cancel
  BY RunStep
<1>2. ASSUME \A p \in Ops \ {o} : late'[p] = late[p],
             late'[o] # {} => row[o].cancel,
             \A m \in Numbers \ {n}, k \in Rounds : <<m, k>> \in late'[o] => <<m, k>> \in late[o],
             <<n, 1>> \in late'[o] => \/ task'[o][n].pc \in {"stop", "publish", "done"}
                                      \/ At(o, n, "work")' /\ task'[o][n].round = 1
                                      \/ At(o, n, "look")' /\ task'[o][n].round = 2,
             <<n, 2>> \in late'[o] => \/ At(o, n, "done")'
                                      \/ task'[o][n].pc # "none" /\ task'[o][n].round # 1,
             ~({<<n, 1>>, <<n, 2>>} \subseteq late'[o])
      PROVE  LateInv' /\ StopsAtNextCheckpoint'
  <2>1. LateInv /\ StopsAtNextCheckpoint
    BY DEF IInv
  <2>2. 1 \in Rounds /\ 2 \in Rounds
    BY DEF Rounds
  <2>3. StopsAtNextCheckpoint'
    <3>1. ASSUME NEW p \in Ops, NEW m \in Numbers PROVE ~({<<m, 1>>, <<m, 2>>} \subseteq late'[p])
      BY <1>2, <2>1, <2>2 DEF StopsAtNextCheckpoint
    <3> QED BY <3>1 DEF StopsAtNextCheckpoint
  <2>4. ASSUME NEW p \in Ops
        PROVE  late'[p] # {} => row'[p].cancel
    BY <1>1, <1>2, <2>1 DEF LateInv
  <2>5. ASSUME NEW p \in Ops, NEW m \in Numbers
        PROVE  /\ <<m, 1>> \in late'[p] => \/ task'[p][m].pc \in {"stop", "publish", "done"}
                                           \/ At(p, m, "work")' /\ task'[p][m].round = 1
                                           \/ At(p, m, "look")' /\ task'[p][m].round = 2
               /\ <<m, 2>> \in late'[p] => \/ At(p, m, "done")'
                                           \/ task'[p][m].pc # "none" /\ task'[p][m].round # 1
    <3>1. CASE p = o /\ m = n
      BY <1>2, <3>1
    <3>2. CASE p # o \/ m # n
      <4>1. task'[p][m] = task[p][m]
        BY <1>1, <3>2 DEF Only
      <4>2. \A k \in Rounds : <<m, k>> \in late'[p] => <<m, k>> \in late[p]
        BY <1>2, <3>2
      <4> QED BY <2>1, <2>2, <4>1, <4>2 DEF LateInv, At
    <3> QED BY <3>1, <3>2
  <2> QED BY <2>3, <2>4, <2>5 DEF LateInv
<1>3. ASSUME late' = late,
             <<n, 1>> \in late[o] => \/ task'[o][n].pc \in {"stop", "publish", "done"}
                                     \/ At(o, n, "look")' /\ task'[o][n].round = 2,
             \/ At(o, n, "done")'
             \/ task'[o][n].pc # "none" /\ (task[o][n].round # 1 => task'[o][n].round # 1)
      PROVE  LateInv' /\ StopsAtNextCheckpoint'
  <2>1. ~At(o, n, "done")
    BY RunStep DEF At
  <2>2. ~({<<n, 1>>, <<n, 2>>} \subseteq late'[o])
    BY <1>3 DEF IInv, StopsAtNextCheckpoint
  <2> QED BY <1>0, <1>2, <1>3, <2>1, <2>2
<1>4. CASE Look(o, n)
  <2>1. PICK pc \in {"stop", "publish", "mark"}, saw \in {row[o].status, "none"} :
           To(o, n, pc, saw) /\ (row[o].cancel => pc = "stop")
    BY <1>4 DEF Look
  <2>2. saw \in Statuses \cup {"none"}
    BY <1>a, <2>1 DEF Row
  <2>3. task'[o][n].pc = pc /\ task'[o][n].round = task[o][n].round
    BY <2>1, <2>2, TaskTo
  <2>4. late' = late
    BY <1>4 DEF Look
  <2> QED BY <1>0, <1>3, <2>1, <2>3, <2>4
<1>5. CASE Stop(o, n)
  <2>1. late' = late /\ (To(o, n, "publish", "none") \/ Ends(o, n))
    BY <1>5 DEF Stop
  <2>2. \/ task'[o][n].pc = "publish" /\ task'[o][n].round = task[o][n].round
        \/ task'[o][n].pc = "done"
    BY <2>1, TaskTo, TaskEnds DEF Done, NoTask
  <2> QED BY <1>3, <2>1, <2>2 DEF At
<1>6. CASE Worked(o, n)
  <2>1. late' = late /\ task[o][n].pc = "work" /\ task[o][n].round \in Rounds
    BY <1>6 DEF Worked, At, IInv, RoundInv
  <2>2. /\ task[o][n].round = 1 => task'[o][n].pc = "look" /\ task'[o][n].round = 2
        /\ task[o][n].round # 1 => task'[o][n].round # 1
        /\ task'[o][n].pc # "none"
    <3> DEFINE again == task[o][n].round = 1 \/ LooksAgain
               k == IF again THEN task[o][n].round + 1 ELSE task[o][n].round
               pc == IF again THEN "look" ELSE "publish"
               new == [[task[o][n] EXCEPT !.round = k] EXCEPT !.pc = pc]
    <3>1. /\ task[o][n].round = 1 => k = 2 /\ pc = "look"
          /\ task[o][n].round # 1 => k # 1
          /\ pc \in {"look", "publish"}
      BY <2>1 DEF Rounds
    <3>2. task'[o][n] = new
      BY <1>6, <1>a, Types DEF Worked
    <3> HIDE DEF k, pc
    <3>3. new.pc = pc /\ new.round = k
      BY <1>a DEF Task
    <3> QED BY <3>1, <3>2, <3>3
  <2> QED BY <1>0, <1>3, <2>1, <2>2 DEF At
<1>7. CASE Publish(o, n) \/ Break(o, n)
  <2>1. late' = late /\ task'[o][n].pc = "done"
    <3>1. late' = late /\ Ends(o, n)
      BY <1>7 DEF Publish, Break
    <3>2. task'[o][n] = Done
      BY <3>1, TaskEnds
    <3> QED BY <3>1, <3>2 DEF Done, NoTask
  <2> QED BY <1>3, <2>1 DEF At
<1>8. CASE Mark(o, n)
  <2> DEFINE k == task[o][n].round
  <2>1. /\ task[o][n].pc = "mark" /\ k \in Rounds
        /\ late' = IF row[o].cancel THEN [late EXCEPT ![o] = @ \cup {<<n, k>>}] ELSE late
    BY <1>8 DEF Mark, At, IInv, RoundInv
  <2>2. task'[o][n].pc = "work" /\ task'[o][n].round = k
    BY <1>8, TaskTo DEF Mark
  <2>3. <<n, 1>> \notin late[o] /\ (<<n, 2>> \in late[o] => k # 1)
    BY <1>0, <2>1 DEF At
  <2> HIDE DEF k
  <2>4. CASE row[o].cancel
    <3>1. late'[o] = late[o] \cup {<<n, k>>} /\ \A p \in Ops \ {o} : late'[p] = late[p]
      BY <2>1, <2>4, Types
    <3>2. <<n, 1>> \in late'[o] => k = 1
      BY <2>3, <3>1
    <3>3. <<n, 2>> \in late'[o] => k # 1
      BY <2>3, <3>1
    <3> QED BY <1>2, <2>2, <2>4, <3>1, <3>2, <3>3 DEF At
  <2>5. CASE ~row[o].cancel
    BY <1>0, <1>2, <2>1, <2>2, <2>3, <2>5 DEF At
  <2> QED BY <2>4, <2>5
<1> QED BY <1>4, <1>5, <1>6, <1>7, <1>8 DEF Run

(* A cancellation, once asked for, is met at the next look.                   *)
LEMMA LateStep == IInv /\ Next => LateInv' /\ StopsAtNextCheckpoint'
<1> SUFFICES ASSUME IInv, Next PROVE LateInv' /\ StopsAtNextCheckpoint'
  OBVIOUS
<1>0. LateInv /\ StopsAtNextCheckpoint
  BY DEF IInv
<1>1. ASSUME NEW r \in Requests, SpawnsFor(r) PROVE LateInv' /\ StopsAtNextCheckpoint'
  <2>1. PICK o \in Ops, n \in Numbers, new \in Row :
           /\ row' = [row EXCEPT ![o] = new]
           /\ late' = IF new.cancel THEN late ELSE [late EXCEPT ![o] = {}]
           /\ Only(o, n) /\ At(o, n, "none") /\ task'[o][n].pc = "look"
           /\ task'[o][n].round = task[o][n].round
    BY <1>1, SpawnStep
  <2>2. \A p \in Ops : late'[p] \subseteq late[p] /\ (late'[p] # {} => row'[p].cancel)
    BY <1>0, <2>1, Types DEF LateInv
  <2>3. <<n, 1>> \notin late[o] /\ <<n, 2>> \notin late[o]
    BY <1>0, <2>1 DEF LateInv, At
  <2>4. ASSUME NEW p \in Ops, NEW m \in Numbers
        PROVE  /\ <<m, 1>> \in late'[p] => \/ task'[p][m].pc \in {"stop", "publish", "done"}
                                           \/ At(p, m, "work")' /\ task'[p][m].round = 1
                                           \/ At(p, m, "look")' /\ task'[p][m].round = 2
               /\ <<m, 2>> \in late'[p] => \/ At(p, m, "done")'
                                           \/ task'[p][m].pc # "none" /\ task'[p][m].round # 1
    BY <1>0, <2>1, <2>2, <2>3 DEF LateInv, At, Only
  <2>5. StopsAtNextCheckpoint'
    <3>1. ASSUME NEW p \in Ops, NEW m \in Numbers PROVE ~({<<m, 1>>, <<m, 2>>} \subseteq late'[p])
      <4>1. late'[p] \subseteq late[p]
        BY <2>2
      <4>2. ~({<<m, 1>>, <<m, 2>>} \subseteq late[p])
        BY <1>0 DEF StopsAtNextCheckpoint
      <4> QED BY <4>1, <4>2
    <3> QED BY <3>1 DEF StopsAtNextCheckpoint
  <2> QED BY <2>2, <2>4, <2>5 DEF LateInv
<1>2. ASSUME UNCHANGED <<task, late>>, \A p \in Ops : row[p].cancel => row'[p].cancel
      PROVE  LateInv' /\ StopsAtNextCheckpoint'
  BY <1>0, <1>2 DEF LateInv, StopsAtNextCheckpoint, At
<1>3. ASSUME NEW o \in Ops, Age(o) PROVE LateInv' /\ StopsAtNextCheckpoint'
  BY <1>2, <1>3, Types DEF Age, Row
<1>4. CASE Crash
  <2>1. UNCHANGED <<row, late>>
        /\ \A p \in Ops, m \in Numbers : ~At(p, m, "none") => task'[p][m].pc = "done"
    BY <1>4 DEF Crash, Done, NoTask
  <2>2. \A p \in Ops, m \in Numbers : <<m, 1>> \in late[p] \/ <<m, 2>> \in late[p] => ~At(p, m, "none")
    BY <1>0 DEF LateInv, At
  <2> QED BY <1>0, <2>1, <2>2 DEF LateInv, StopsAtNextCheckpoint, At
<1> QED BY <1>1, <1>2, <1>3, <1>4, LateRun, Steps, ServeStep, AskStep

(* Whoever ends leaves nothing open: an operation shown as active has a task  *)
(* that will yet write to it.                                                 *)
LEMMA StrandStep == IInv /\ Next => StrandInv'
<1> SUFFICES ASSUME IInv, Next PROVE StrandInv'
  OBVIOUS
<1>0. \A o \in Ops : row[o].status \in Active /\ crashes = 0 => \E n \in Numbers : Owes(o, n)
  BY DEF IInv, StrandInv
<1>1. ASSUME NEW o \in Ops, NEW n \in Numbers, Run(o, n) PROVE StrandInv'
  <2>0. task[o][n] \in Task /\ row[o] \in Row
    BY Types
  <2>1. Only(o, n) /\ crashes' = crashes /\ \A p \in Ops \ {o} : row'[p] = row[p]
    BY <1>1, RunStep
  <2>2. ASSUME row'[o].status \in Active, crashes = 0 PROVE \E m \in Numbers : Owes(o, m)'
    <3>1. CASE Look(o, n)
      <4>1. PICK pc \in {"stop", "publish", "mark"}, saw \in {row[o].status, "none"} : To(o, n, pc, saw)
        BY <3>1 DEF Look
      <4>2. saw \in Statuses \cup {"none"} /\ row' = row
        BY <2>0, <3>1, <4>1 DEF Look, Row
      <4>3. task'[o][n].pc = pc /\ task'[o][n].saw = saw
        BY <4>1, <4>2, TaskTo
      <4> QED BY <2>2, <4>1, <4>2, <4>3 DEF Owes, At, Active
    <3>2. CASE Stop(o, n)
      <4>1. Status(o, task[o][n].saw, "cancelled") /\ At(o, n, "stop")
        BY <3>2 DEF Stop
      <4>2. task[o][n].saw \in Statuses \cup {"none"} /\ "cancelled" \in Statuses
        BY <2>0 DEF Task, Statuses, Terminal
      <4>3. row'[o].status = IF task[o][n].saw = "cancelled" THEN row[o].status ELSE "cancelled"
        BY <4>1, <4>2, StatusSet
      <4>4. task[o][n].saw = "cancelled" /\ row[o].status \in Active
        BY <2>2, <4>3 DEF Active
      <4>5. PICK m \in Numbers : Owes(o, m)
        BY <1>0, <2>2, <4>4
      <4>6. m # n
        BY <4>1, <4>4, <4>5 DEF Owes
      <4> QED BY <2>1, <4>5, <4>6 DEF Only, Owes, At
    <3>3. CASE Mark(o, n)
      <4>1. task'[o][n].pc = "work"
        BY <3>3, TaskTo DEF Mark
      <4> QED BY <4>1 DEF Owes, At
    <3>4. CASE Worked(o, n)
      <4>1. task'[o][n].pc \in {"look", "publish"}
        BY <3>4, <2>0, Types DEF Worked, Task
      <4> QED BY <4>1 DEF Owes, At
    <3>5. CASE Publish(o, n)
      BY <2>2, <3>5, Types DEF Publish, Active
    <3>6. CASE Break(o, n)
      BY <2>2, <3>6, Types DEF Break, Active
    <3> QED BY <1>1, <3>1, <3>2, <3>3, <3>4, <3>5, <3>6 DEF Run
  <2>3. ASSUME NEW p \in Ops, p # o, row'[p].status \in Active, crashes = 0
        PROVE  \E m \in Numbers : Owes(p, m)'
    BY <1>0, <2>1, <2>3 DEF Only, Owes, At
  <2> QED BY <2>1, <2>2, <2>3 DEF StrandInv
<1>2. ASSUME NEW r \in Requests, SpawnsFor(r) PROVE StrandInv'
  <2>1. PICK o \in Ops, n \in Numbers, new \in Row :
           /\ row' = [row EXCEPT ![o] = new] /\ Only(o, n) /\ task'[o][n].pc = "look"
    BY <1>2, SpawnStep
  <2>2. Owes(o, n)' /\ crashes' = crashes
    BY <1>2, <2>1, SpawnStep DEF Owes, At
  <2>3. ASSUME NEW p \in Ops \ {o}, row'[p].status \in Active, crashes = 0
        PROVE  \E m \in Numbers : Owes(p, m)'
    <3>1. row'[p] = row[p] /\ \A m \in Numbers : task'[p][m] = task[p][m]
      BY <2>1, Types DEF Only
    <3>2. PICK m \in Numbers : Owes(p, m)
      BY <1>0, <2>3, <3>1
    <3>3. Owes(p, m)'
      BY <3>1, <3>2 DEF Owes, At
    <3> QED BY <3>3
  <2> QED BY <2>2, <2>3 DEF StrandInv
<1>3. ASSUME UNCHANGED <<task, crashes>>,
             \A p \in Ops : row'[p].status \in Active => row[p].status \in Active
      PROVE  StrandInv'
  BY <1>0, <1>3 DEF StrandInv, Owes, At
<1>4. ASSUME NEW o \in Ops, Age(o) PROVE StrandInv'
  BY <1>3, <1>4, Types DEF Age, Row
<1>5. CASE Crash
  BY <1>5 DEF Crash, StrandInv, IInv, OpTypeOK
<1> QED BY <1>1, <1>2, <1>3, <1>4, <1>5, Steps, ServeStep, AskStep

-------------------------------------------------------------------------------
(* The inductive invariant.                                                   *)
LEMMA InitIInv == Init => IInv
<1> SUFFICES ASSUME Init PROVE IInv
  OBVIOUS
<1> USE OperationConstants DEF Init
<1>1. NoRow \in Row /\ NoTask \in Task
  BY DEF NoRow, Row, NoTask, Task
<1>2. Idle \in Request
  BY <1>1 DEF Idle, Request
<1>3. OpTypeOK
  BY <1>1, <1>2 DEF OpTypeOK
<1>4. RequestInv /\ AttemptInv
  BY DEF RequestInv, AttemptInv, Requests, Idle, NoRow, Numbers
<1>5. RoundInv /\ LateInv /\ StopsAtNextCheckpoint /\ StrandInv
  BY DEF RoundInv, LateInv, StopsAtNextCheckpoint, StrandInv, NoTask, NoRow, Active
<1> QED BY <1>3, <1>4, <1>5 DEF IInv

(* Every step keeps it.                                                       *)
LEMMA StepIInv == IInv /\ [Next]_vars => IInv'
<1>1. IInv /\ Next => IInv'
  BY TypeStep, RequestStep, RoundStep, LateStep, StrandStep DEF IInv
<1>2. IInv /\ UNCHANGED vars => IInv'
  <2> SUFFICES ASSUME IInv, UNCHANGED vars PROVE IInv'
    OBVIOUS
  <2>1. OpTypeOK' /\ RequestInv' /\ AttemptInv' /\ RoundInv'
    BY DEF vars, IInv, OpTypeOK, RequestInv, AttemptInv, Began, At, RoundInv
  <2>2. LateInv' /\ StopsAtNextCheckpoint' /\ StrandInv'
    BY DEF vars, IInv, LateInv, StopsAtNextCheckpoint, StrandInv, Owes, At
  <2> QED BY <2>1, <2>2 DEF IInv
<1> QED BY <1>1, <1>2

(* The invariant of every behaviour.                                          *)
LEMMA InductiveInvariant == Spec => []IInv
BY InitIInv, StepIInv, PTL DEF Spec

(* The rows, tasks and requests are well formed; attempts stay within the     *)
(* tasks there are, also when an overlapping retry counts from what it read.  *)
THEOREM OpTypeInvariant == Spec => []OpTypeOK
<1>1. IInv => OpTypeOK
  BY DEF IInv
<1> QED BY InductiveInvariant, <1>1, PTL

(* No task begins both of its rounds after a cancellation was asked for,      *)
(* however many requests cancel, retry and recover its operation.             *)
THEOREM StopsAtNextCheckpointInvariant == Spec => []StopsAtNextCheckpoint
<1>1. IInv => StopsAtNextCheckpoint
  BY DEF IInv
<1> QED BY InductiveInvariant, <1>1, PTL

(* Without a crash an operation shown as queued or running has a task at      *)
(* work, whatever requests and other tasks wrote since that task looked.      *)
THEOREM OnlyCrashesStrandInvariant == Spec => []OnlyCrashesStrand
<1>1. IInv => OnlyCrashesStrand
  BY DEF IInv, StrandInv, OnlyCrashesStrand, Owes
<1> QED BY InductiveInvariant, <1>1, PTL
===============================================================================
