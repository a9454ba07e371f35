--------------------------- MODULE DispatchProofs ---------------------------
(***************************************************************************)
(* Proofs about Dispatch, for every number of miners, workers, jobs,       *)
(* connections and concurrent requests.                                    *)
(***************************************************************************)
EXTENDS Dispatch, TLAPS

-----------------------------------------------------------------------------
(* Type correctness                                                        *)

\* IdleTask and Reading are task records.
LEMMA IdleTyped ==
    /\ IdleTask \in Task /\ IdleTask.pc = "idle" /\ IdleTask.todo = {} /\ IdleTask.ctx = TRUE
    /\ Reading \in Task /\ Reading.pc = "reading" /\ Reading.todo = {} /\ Reading.ctx = TRUE
BY DEF IdleTask, Task, Reading, PC, AllOps, AssignPC

\* What AssignQueued does next with a set of miners left to place.
LEMMA PlacingTyped ==
    ASSUME NEW S \in SUBSET Miners, NEW t \in Placing(S)
    PROVE  /\ t \in Task /\ t.todo \subseteq S /\ t.ctx = TRUE
           /\ t.pc \in {"reading", "pick"}
           /\ \A m \in S : m \in t.todo \/ (t.pc = "pick" /\ t.miner = m)
           /\ t.pc = "reading" => t.todo = {}
<1>1. CASE S = {}
  BY <1>1, IdleTyped DEF Placing
<1>2. CASE S # {}
  <2>1. PICK m \in S : t = [IdleTask EXCEPT !.pc = "pick", !.miner = m, !.todo = S \ {m}]
    BY <1>2 DEF Placing
  <2>2. t = [pc |-> "pick", op |-> "none", ctx |-> TRUE, miner |-> m, wk |-> None,
             tc |-> None, job |-> None, todo |-> S \ {m}]
    BY <2>1 DEF IdleTask
  <2>3. QED
    BY <2>2 DEF Task, PC, AssignPC, AllOps
<1>3. QED
  BY <1>1, <1>2

LEMMA InitTyped == Init => TypeOK
BY ConstantsAssumption, IdleTyped DEF Init, TypeOK, TasksOK, MinerStatus, WorkerStatus, JobRow, JobStatus,
   RunRow, RunStatus, Link, Message, Tasks, IdleTask

\* The variables other than the rows and the network keep their types whenever
\* the task of one goroutine is replaced by a task record with fitting `todo'.
LEMMA ReplaceTask ==
    ASSUME TypeOK, NEW p \in Tasks, NEW t \in Task, task' = [task EXCEPT ![p] = t],
           p \in Conns => t.todo \subseteq Miners, p \in Requests => t.todo \subseteq Jobs,
           t.pc = "send" => t.job \in Jobs
    PROVE  TasksOK'
BY DEF TypeOK, TasksOK, Tasks

LEMMA GotoTyped ==
    ASSUME TypeOK, NEW p \in Tasks, NEW pc \in PC, Goto(p, pc), pc # "send"
    PROVE  TasksOK'
<1> DEFINE t == [task[p] EXCEPT !.pc = pc]
<1>1. task[p] \in Task
  BY DEF TypeOK, TasksOK
<1>2. t \in Task /\ t.todo = task[p].todo /\ t.pc = pc
  BY <1>1 DEF Task
<1>3. task' = [task EXCEPT ![p] = t]
  BY DEF Goto
<1>4. (p \in Conns => t.todo \subseteq Miners) /\ (p \in Requests => t.todo \subseteq Jobs)
  BY <1>2 DEF TypeOK, TasksOK
<1> HIDE DEF t
<1>5. QED
  BY <1>2, <1>3, <1>4, ReplaceTask

LEMMA AssignReturnsTyped ==
    ASSUME TypeOK, NEW p \in Tasks, AssignReturns(p)
    PROVE  TasksOK'
<1>1. CASE p \in Conns
  <2>1. PICK t \in Placing(task[p].todo) : task' = [task EXCEPT ![p] = t]
    BY <1>1 DEF AssignReturns
  <2>2. task[p].todo \in SUBSET Miners
    BY <1>1 DEF TypeOK, TasksOK
  <2>3. t \in Task /\ t.todo \subseteq Miners /\ t.pc # "send"
    BY <2>1, <2>2, PlacingTyped
  <2>4. p \notin Requests
    BY <1>1, ConstantsAssumption
  <2>5. QED
    BY <2>1, <2>3, <2>4, ReplaceTask
<1>2. CASE p \notin Conns
  <2>1. task' = [task EXCEPT ![p] = IdleTask]
    BY <1>2 DEF AssignReturns, Finish
  <2>2. QED
    BY <2>1, IdleTyped, ReplaceTask
<1>3. QED
  BY <1>1, <1>2

\* Updating one field of one connection.
LEMMA LinkDown ==
    ASSUME TypeOK, NEW c PROVE [link EXCEPT ![c].up = FALSE] \in [Conns -> Link]
BY DEF TypeOK, Link

LEMMA LinkCleared ==
    ASSUME TypeOK, NEW c
    PROVE  /\ [link EXCEPT ![c].toH = <<>>] \in [Conns -> Link]
           /\ [link EXCEPT ![c].toW = <<>>] \in [Conns -> Link]
<1>1. \A x \in Link, s \in Seq(Message) : [x EXCEPT !.toH = s] \in Link /\ [x EXCEPT !.toW = s] \in Link
  BY DEF Link
<1>2. <<>> \in Seq(Message)
  OBVIOUS
<1>3. \A x \in Link : [x EXCEPT !.toH = <<>>] \in Link /\ [x EXCEPT !.toW = <<>>] \in Link
  BY <1>1, <1>2
<1>4. QED
  BY <1>3 DEF TypeOK

LEMMA LinkSends ==
    ASSUME TypeOK, NEW c, NEW m \in Message, Deliver(c, m)
    PROVE  link' \in [Conns -> Link]
<1>1. CASE c \in Conns
  <2>1. link[c] \in Link /\ Append(link[c].toW, m) \in Seq(Message)
    BY <1>1 DEF TypeOK, Link
  <2>2. [link EXCEPT ![c].toW = Append(@, m)] \in [Conns -> Link]
    BY <1>1, <2>1 DEF TypeOK, Link
  <2>3. QED
    BY <2>2 DEF TypeOK, Deliver
<1>2. CASE c \notin Conns
  <2>1. link' = link
    BY <1>2 DEF Deliver, TypeOK
  <2>2. QED
    BY <2>1 DEF TypeOK
<1>3. QED
  BY <1>1, <1>2

LEMMA RowUpdates ==
    ASSUME TypeOK, NEW j, NEW s \in JobStatus
    PROVE  /\ [job EXCEPT ![j].st = s] \in [Jobs -> JobRow]
           /\ [job EXCEPT ![j] = [@ EXCEPT !.st = s, !.open = FALSE]] \in [Jobs -> JobRow]
<1>1. \A x \in JobRow : /\ [x EXCEPT !.st = s] \in JobRow
                        /\ [x EXCEPT !.st = s, !.open = FALSE] \in JobRow
  BY DEF JobRow
<1>2. job \in [Jobs -> JobRow]
  BY DEF TypeOK
<1>3. QED
  BY <1>1, <1>2

\* The statements that change job rows and the miner's status keep their types.
LEMMA StatementsTyped ==
    ASSUME TypeOK
    PROVE  /\ \A ok, j : \A s \in {"ended", "error"} : EndJob(ok, j, s) => job' \in [Jobs -> JobRow]
           /\ \A ok, j : AckRow(ok, j) => job' \in [Jobs -> JobRow]
           /\ \A S : WithoutJobs(S) \in [Jobs -> JobRow]
           /\ \A w : EndedJobs(w) \in [Jobs -> JobRow]
           /\ \A m : WithoutRuns(m) \in [Runs -> RunRow] /\ ClosedRuns(m) \in [Runs -> RunRow]
           /\ \A ok, m : \A s \in MinerStatus :
                 SetMinerStatus(ok, m, s) => miner' \in [Miners -> MinerStatus]
<1>1. ASSUME NEW ok, NEW j, NEW s \in {"ended", "error"}, EndJob(ok, j, s)
      PROVE  job' \in [Jobs -> JobRow]
  <2>1. [job EXCEPT ![j] = [@ EXCEPT !.st = s, !.open = FALSE]] \in [Jobs -> JobRow]
    BY RowUpdates DEF JobStatus
  <2>2. QED
    BY <1>1, <2>1 DEF EndJob, TypeOK
<1>2. ASSUME NEW ok, NEW j, AckRow(ok, j) PROVE job' \in [Jobs -> JobRow]
  BY <1>2, RowUpdates DEF AckRow, TypeOK, JobStatus
<1>r. \A x \in JobRow : /\ [x EXCEPT !.st = "deleted", !.open = FALSE] \in JobRow
                        /\ [x EXCEPT !.st = "ended", !.open = FALSE] \in JobRow
  BY DEF JobRow, JobStatus
<1>k. \A x \in RunRow : /\ [x EXCEPT !.st = "deleted"] \in RunRow
                        /\ [x EXCEPT !.st = "closed"] \in RunRow
  BY DEF RunRow, RunStatus
<1>j. \A j \in Jobs : job[j] \in JobRow
  BY DEF TypeOK
<1>n. \A k \in Runs : run[k] \in RunRow
  BY DEF TypeOK
<1>3. ASSUME NEW S PROVE WithoutJobs(S) \in [Jobs -> JobRow]
  BY <1>r, <1>j DEF WithoutJobs
<1>4. ASSUME NEW w PROVE EndedJobs(w) \in [Jobs -> JobRow]
  BY <1>r, <1>j DEF EndedJobs
<1>5. ASSUME NEW m PROVE WithoutRuns(m) \in [Runs -> RunRow] /\ ClosedRuns(m) \in [Runs -> RunRow]
  BY <1>k, <1>n DEF WithoutRuns, ClosedRuns
<1>6. ASSUME NEW ok, NEW m, NEW s \in MinerStatus, SetMinerStatus(ok, m, s)
      PROVE  miner' \in [Miners -> MinerStatus]
  BY <1>6 DEF SetMinerStatus, TypeOK
<1>7. QED
  BY <1>1, <1>2, <1>3, <1>4, <1>5, <1>6

LEMMA AssignTyped ==
    ASSUME TypeOK, NEW p \in Tasks, AssignStep(p) PROVE TypeOK'
<1>1. CASE PickWorker(p)
  <2>1. CASE AssignReturns(p) /\ UNCHANGED tried
    BY <1>1, <2>1, AssignReturnsTyped DEF PickWorker, TypeOK, netVars
  <2>2. ASSUME NEW ok \in Outcomes(p), NEW w \in Candidates(p, ok),
               task' = [task EXCEPT ![p].pc = "create", ![p].wk = w, ![p].tc = conns[w]],
               tried' = [tried EXCEPT ![task[p].miner] = TRUE]
        PROVE  TypeOK'
    <3> DEFINE t == [task[p] EXCEPT !.pc = "create", !.wk = w, !.tc = conns[w]]
    <3>1. w \in Workers /\ task[p] \in Task
      BY <2>2, ConstantsAssumption DEF Candidates, Live, TypeOK, TasksOK
    <3>2. t \in Task /\ t.todo = task[p].todo /\ t.pc = "create"
      BY <3>1 DEF Task, PC, AssignPC, TypeOK
    <3>3. task' = [task EXCEPT ![p] = t]
      BY <2>2
    <3> HIDE DEF t
    <3>4. TasksOK'
      BY <3>2, <3>3, ReplaceTask DEF TypeOK, TasksOK
    <3>5. tried' \in [Miners -> BOOLEAN]
      BY <2>2 DEF TypeOK
    <3>6. QED
      BY <1>1, <3>4, <3>5 DEF PickWorker, TypeOK, netVars
  <2>3. QED
    BY <1>1, <2>1, <2>2 DEF PickWorker
<1>2. CASE CreateJob(p)
  <2>1. CASE AssignReturns(p) /\ UNCHANGED job
    BY <1>2, <2>1, AssignReturnsTyped DEF CreateJob, TypeOK, netVars
  <2>2. ASSUME NEW j \in Jobs,
               job' = [job EXCEPT ![j] = [st |-> "assigned", open |-> TRUE,
                                          miner |-> task[p].miner, worker |-> task[p].wk]],
               task' = [task EXCEPT ![p].pc = "send", ![p].job = j]
        PROVE  TypeOK'
    <3> DEFINE t == [task[p] EXCEPT !.pc = "send", !.job = j]
    <3>1. task[p] \in Task
      BY DEF TypeOK, TasksOK
    <3>2. t \in Task /\ t.todo = task[p].todo /\ t.job = j
      BY <3>1 DEF Task, PC, AssignPC
    <3>3. task' = [task EXCEPT ![p] = t]
      BY <2>2
    <3> HIDE DEF t
    <3>4. TasksOK'
      BY <3>2, <3>3, ReplaceTask DEF TypeOK, TasksOK
    <3>5. job' \in [Jobs -> JobRow]
      BY <2>2, <3>1 DEF TypeOK, JobRow, JobStatus, Task
    <3>6. QED
      BY <1>2, <3>4, <3>5 DEF CreateJob, TypeOK, netVars
  <2>3. QED
    BY <1>2, <2>1, <2>2 DEF CreateJob
<1>3. CASE SendAssign(p)
  <2>1. CASE Deliver(task[p].tc, Msg("assign", task[p].job)) /\ AssignReturns(p)
    <3>1. Msg("assign", task[p].job) \in Message
      BY <1>3 DEF SendAssign, At, TypeOK, TasksOK, Msg, Message
    <3>2. link' \in [Conns -> Link]
      BY <2>1, <3>1, LinkSends
    <3>3. QED
      BY <1>3, <2>1, <3>2, AssignReturnsTyped DEF SendAssign, TypeOK, dbVars
  <2>2. CASE Goto(p, "jobErr") /\ UNCHANGED link
    BY <1>3, <2>2, GotoTyped DEF SendAssign, TypeOK, dbVars, PC, AssignPC
  <2>3. QED
    BY <1>3, <2>1, <2>2 DEF SendAssign
<1>4. CASE AssignFailed(p)
  BY <1>4, AssignReturnsTyped, StatementsTyped DEF AssignFailed, TypeOK, netVars
<1>5. QED
  BY <1>1, <1>2, <1>3, <1>4 DEF AssignStep

LEMMA ConnTyped ==
    ASSUME TypeOK, NEW c \in Conns, ConnStep(c) PROVE TypeOK'
<1> USE DEF Tasks
<1>t. link[c] \in Link /\ task[c] \in Task
  BY DEF TypeOK, TasksOK
<1>r. ASSUME task' = [task EXCEPT ![c] = Reading] PROVE TasksOK'
  BY <1>r, ReplaceTask, IdleTyped
<1>1. CASE Register(c)
  <2>1. TasksOK'
    BY <1>1, GotoTyped DEF Register, PC
  <2>2. link' \in [Conns -> Link]
    BY <1>1, LinkDown DEF Register, TypeOK
  <2>3. conns' \in [Workers -> Conns \cup {None}]
    BY <1>1 DEF Register, TypeOK
  <2>4. QED
    BY <1>1, <2>1, <2>2, <2>3 DEF Register, TypeOK, dbVars
<1>2. CASE ReadQueued(c)
  <2>1. PICK S \in {QueuedMiners, {}} : \E t \in Placing(S) : task' = [task EXCEPT ![c] = t]
    BY <1>2 DEF ReadQueued
  <2>2. S \in SUBSET Miners
    BY DEF QueuedMiners
  <2> PICK t \in Placing(S) : task' = [task EXCEPT ![c] = t]
    BY <2>1
  <2>3. t \in Task /\ t.todo \subseteq Miners /\ t.pc # "send"
    BY <2>1, <2>2, PlacingTyped
  <2>4. TasksOK'
    BY <2>1, <2>3, ReplaceTask, ConstantsAssumption
  <2>5. QED
    BY <1>2, <2>4 DEF ReadQueued, TypeOK, dbVars, netVars
<1>3. CASE AssignStep(c)
  BY <1>3, AssignTyped
<1>4. CASE ReceiveAck(c)
  <2>1. Head(link[c].toH) \in Message /\ Tail(link[c].toH) \in Seq(Message)
    BY <1>4, <1>t DEF ReceiveAck, Link
  <2>2. link' \in [Conns -> Link]
    BY <1>4, <2>1 DEF ReceiveAck, TypeOK, Link
  <2> DEFINE j == Head(link[c].toH).job
             pc == IF Head(link[c].toH).kind = "ackOk" THEN "ackJob" ELSE "errJob"
             t == [task[c] EXCEPT !.pc = pc, !.job = j, !.miner = job[j].miner]
  <2>3. j \in Jobs
    BY <2>1 DEF Message
  <2>4. job[j].miner \in Miners \cup {None}
    BY <2>3 DEF TypeOK, JobRow
  <2>5. pc \in PC /\ pc # "send"
    BY DEF PC
  <2> HIDE DEF j, pc
  <2>6. t \in Task /\ t.todo = task[c].todo /\ t.pc # "send"
    BY <1>t, <2>3, <2>4, <2>5 DEF Task
  <2>7. task' = [task EXCEPT ![c] = t] \/ task' = task
    BY <1>4 DEF ReceiveAck, j, pc
  <2> HIDE DEF t
  <2>8. CASE task' = [task EXCEPT ![c] = t]
    <3>1. t.todo \subseteq Miners
      BY <2>6 DEF TypeOK, TasksOK
    <3>2. TasksOK'
      BY <2>6, <2>8, <3>1, ReplaceTask, ConstantsAssumption
    <3>3. QED
      BY <1>4, <2>2, <3>2 DEF ReceiveAck, TypeOK, dbVars
  <2>9. CASE task' = task
    BY <1>4, <2>2, <2>9 DEF ReceiveAck, TypeOK, TasksOK, dbVars
  <2>10. QED
    BY <2>7, <2>8, <2>9
<1>5. CASE AckJob(c)
  BY <1>5, GotoTyped, StatementsTyped DEF AckJob, TypeOK, netVars, PC
<1>6. CASE AckMiner(c)
  <2>1. miner' \in [Miners -> MinerStatus]
    BY <1>6, StatementsTyped DEF AckMiner, MinerStatus
  <2>2. QED
    BY <1>6, <1>r, <2>1 DEF AckMiner, TypeOK, netVars
<1>7. CASE ErrJob(c)
  BY <1>7, GotoTyped, StatementsTyped DEF ErrJob, TypeOK, netVars, PC
<1>8. CASE ErrMiner(c)
  <2>1. miner' \in [Miners -> MinerStatus]
    BY <1>8, StatementsTyped DEF ErrMiner, MinerStatus
  <2>2. QED
    BY <1>8, <1>r, <2>1 DEF ErrMiner, TypeOK, netVars
<1>9. CASE Unregister(c)
  <2>1. TasksOK'
    BY <1>9, GotoTyped DEF Unregister, PC
  <2>2. link' \in [Conns -> Link]
    BY <1>9, LinkCleared DEF Unregister
  <2>3. conns' \in [Workers -> Conns \cup {None}]
    BY <1>9 DEF Unregister, TypeOK
  <2>4. QED
    BY <1>9, <2>1, <2>2, <2>3 DEF Unregister, TypeOK, dbVars
<1>10. QED
  BY <1>1, <1>2, <1>3, <1>4, <1>5, <1>6, <1>7, <1>8, <1>9 DEF ConnStep

\* A request starts with a fresh task record.
LEMMA BeginTyped ==
    ASSUME TypeOK, NEW r \in Requests, NEW op, NEW pc \in PC, pc # "send",
           NEW m \in Miners \cup {None}, NEW w \in Workers \cup {None}, Begin(r, op, pc, m, w)
    PROVE  TasksOK'
<1> DEFINE t == [IdleTask EXCEPT !.op = op, !.pc = pc, !.miner = m, !.wk = w]
<1>1. op \in AllOps
  BY ConstantsAssumption DEF Begin
<1>2. t \in Task /\ t.todo = {} /\ t.pc = pc
  BY <1>1 DEF IdleTask, Task
<1>3. task' = [task EXCEPT ![r] = t]
  BY DEF Begin
<1> HIDE DEF t
<1>4. QED
  BY <1>2, <1>3, ReplaceTask DEF Tasks

LEMMA RequestBeginsTyped ==
    ASSUME TypeOK, NEW r \in Requests, RequestBegins(r) PROVE TypeOK'
<1>1. ASSUME NEW m \in Miners, Start(r, m) \/ Stop(r, m) \/ Delete(r, m) PROVE TypeOK'
  <2>1. TasksOK'
    <3>1. CASE Start(r, m)
      BY <3>1, BeginTyped DEF Start, PC
    <3>2. CASE Stop(r, m)
      BY <3>2, BeginTyped DEF Stop, PC
    <3>3. CASE Delete(r, m)
      BY <3>3, BeginTyped DEF Delete, PC
    <3>4. QED
      BY <1>1, <3>1, <3>2, <3>3
  <2>2. UNCHANGED <<dbVars, conns, netVars>>
    BY <1>1 DEF Start, Stop, Delete
  <2>3. QED
    BY <2>1, <2>2 DEF TypeOK, dbVars, netVars
<1>2. ASSUME NEW w \in Workers, Revoke(r, w) PROVE TypeOK'
  <2>1. TasksOK'
    BY <1>2, BeginTyped DEF Revoke, PC
  <2>2. worker' \in [Workers -> WorkerStatus]
    BY <1>2 DEF Revoke, TypeOK, WorkerStatus
  <2>3. QED
    BY <1>2, <2>1, <2>2 DEF Revoke, TypeOK, netVars
<1>3. ASSUME NEW w \in Workers, DeleteWorker(r, w) PROVE TypeOK'
  <2>1. TasksOK'
    BY <1>3, BeginTyped DEF DeleteWorker, PC
  <2>2. QED
    BY <1>3, <2>1 DEF DeleteWorker, TypeOK, dbVars, netVars
<1>4. QED
  BY <1>1, <1>2, <1>3 DEF RequestBegins

LEMMA RequestTyped ==
    ASSUME TypeOK, NEW r \in Requests, RequestStep(r) PROVE TypeOK'
<1> USE DEF Tasks
<1>t. task[r] \in Task
  BY DEF TypeOK, TasksOK
<1>f. ASSUME Finish(r) PROVE TasksOK'
  BY <1>f, ReplaceTask, IdleTyped DEF Finish
<1>1. CASE OpenRun(r)
  <2>1. TasksOK'
    BY <1>1, <1>f, GotoTyped DEF OpenRun, PC
  <2>2. run' \in [Runs -> RunRow]
    <3>1. run' = run \/ \E k \in Runs : run' = [run EXCEPT ![k] = [st |-> "open", miner |-> task[r].miner]]
      BY <1>1 DEF OpenRun
    <3>2. [st |-> "open", miner |-> task[r].miner] \in RunRow
      BY <1>t DEF Task, RunRow, RunStatus
    <3>3. QED
      BY <3>1, <3>2 DEF TypeOK
  <2>3. UNCHANGED <<miner, worker, job, tried, conns, netVars>>
    BY <1>1 DEF OpenRun
  <2>4. QED
    BY <2>1, <2>2, <2>3 DEF TypeOK, netVars
<1>2. CASE Enqueue(r)
  <2>1. TasksOK'
    BY <1>2, GotoTyped DEF Enqueue, PC, AssignPC
  <2>2. miner' \in [Miners -> MinerStatus]
    BY <1>2, StatementsTyped DEF Enqueue, MinerStatus
  <2>3. tried' \in [Miners -> BOOLEAN]
    BY <1>2 DEF Enqueue, TypeOK
  <2>4. QED
    BY <1>2, <2>1, <2>2, <2>3 DEF Enqueue, TypeOK, netVars
<1>3. CASE AssignStep(r)
  BY <1>3, AssignTyped
<1>4. CASE ReadJobs(r)
  <2> DEFINE S == ActiveJobsForMiner(task[r].miner)
             t1 == [task[r] EXCEPT !.pc = "cancelNext", !.todo = S]
             t2 == [task[r] EXCEPT !.pc = "settle"]
  <2>1. S \subseteq Jobs
    BY DEF ActiveJobsForMiner
  <2> HIDE DEF S
  <2>2. t1 \in Task /\ t1.todo = S /\ t1.pc # "send"
    BY <1>t, <2>1 DEF Task, PC
  <2>3. t2 \in Task /\ t2.todo = task[r].todo /\ t2.pc # "send"
    BY <1>t DEF Task, PC
  <2>4. task' = [task EXCEPT ![r] = t1] \/ task' = [task EXCEPT ![r] = t2]
    BY <1>4 DEF ReadJobs, S
  <2>5. r \notin Conns /\ task[r].todo \subseteq Jobs
    BY ConstantsAssumption DEF TypeOK, TasksOK
  <2> HIDE DEF t1, t2
  <2>6. TasksOK'
    BY <2>1, <2>2, <2>3, <2>4, <2>5, ReplaceTask
  <2>7. QED
    BY <1>4, <2>6 DEF ReadJobs, TypeOK, dbVars, netVars
<1>5. CASE CancelNext(r)
  <2>1. CASE Goto(r, "settle") /\ UNCHANGED link
    BY <1>5, <2>1, GotoTyped DEF CancelNext, TypeOK, dbVars, PC
  <2>2. ASSUME NEW j \in task[r].todo,
               task' = [task EXCEPT ![r].pc = "cancelEnd", ![r].job = j, ![r].todo = @ \ {j}],
               link' = link \/ Deliver(conns[job[j].worker], Msg("cancel", j))
        PROVE  TypeOK'
    <3> DEFINE t == [task[r] EXCEPT !.pc = "cancelEnd", !.job = j, !.todo = @ \ {j}]
    <3>1. task[r].todo \subseteq Jobs /\ r \notin Conns
      BY ConstantsAssumption DEF TypeOK, TasksOK
    <3>2. t \in Task /\ t.todo \subseteq Jobs /\ t.pc # "send"
      BY <1>t, <2>2, <3>1 DEF Task, PC
    <3>3. task' = [task EXCEPT ![r] = t]
      BY <2>2
    <3> HIDE DEF t
    <3>4. TasksOK'
      BY <3>1, <3>2, <3>3, ReplaceTask
    <3>5. Msg("cancel", j) \in Message
      BY <2>2, <3>1 DEF Msg, Message
    <3>6. link' \in [Conns -> Link]
      BY <2>2, <3>5, LinkSends DEF TypeOK
    <3>7. QED
      BY <1>5, <3>4, <3>6 DEF CancelNext, TypeOK, dbVars
  <2>3. QED
    BY <1>5, <2>1, <2>2 DEF CancelNext
<1>6. CASE CancelEnd(r)
  BY <1>6, GotoTyped, StatementsTyped DEF CancelEnd, TypeOK, netVars, PC
<1>7. CASE CloseRun(r)
  <2> DEFINE t == [task[r] EXCEPT !.pc = "cancelNext", !.job = None]
  <2>1. t \in Task /\ t.todo = task[r].todo /\ t.pc # "send"
    BY <1>t DEF Task, PC
  <2>2. task' = [task EXCEPT ![r] = t]
    BY <1>7 DEF CloseRun
  <2>3. r \notin Conns /\ task[r].todo \subseteq Jobs
    BY ConstantsAssumption DEF TypeOK, TasksOK
  <2> HIDE DEF t
  <2>4. TasksOK'
    BY <2>1, <2>2, <2>3, ReplaceTask
  <2>5. run' \in [Runs -> RunRow]
    BY <1>7, StatementsTyped DEF CloseRun, TypeOK
  <2>6. QED
    BY <1>7, <2>4, <2>5 DEF CloseRun, TypeOK, netVars
<1>8. CASE Settle(r)
  <2>1. miner' \in [Miners -> MinerStatus]
    BY <1>8, StatementsTyped DEF Settle, DeleteRows, MinerStatus, TypeOK
  <2>2. job' \in [Jobs -> JobRow] /\ run' \in [Runs -> RunRow]
    <3>1. \/ job' = job /\ run' = run
          \/ \E S, m : job' = WithoutJobs(S) /\ run' = WithoutRuns(m)
      BY <1>8 DEF Settle, DeleteRows
    <3>2. QED
      BY <3>1, StatementsTyped DEF TypeOK
  <2>3. TasksOK' /\ UNCHANGED <<worker, tried, conns, netVars>>
    BY <1>8, <1>f DEF Settle
  <2>4. QED
    BY <2>1, <2>2, <2>3 DEF TypeOK, netVars
<1>9. CASE RevokeJobs(r)
  <2>1. job' \in [Jobs -> JobRow]
    BY <1>9, StatementsTyped DEF RevokeJobs, TypeOK
  <2>2. TasksOK'
    BY <1>9, <1>f, GotoTyped DEF RevokeJobs, PC
  <2>3. QED
    BY <1>9, <2>1, <2>2 DEF RevokeJobs, TypeOK, netVars
<1>10. CASE Disconnect(r)
  <2>1. TasksOK'
    BY <1>10, <1>f, GotoTyped DEF Disconnect, PC
  <2>2. link' \in [Conns -> Link]
    BY <1>10, LinkDown DEF Disconnect, TypeOK
  <2>3. QED
    BY <1>10, <2>1, <2>2 DEF Disconnect, TypeOK, dbVars
<1>11. CASE DropWorker(r)
  <2>1. worker' \in [Workers -> WorkerStatus]
    BY <1>11 DEF DropWorker, TypeOK, WorkerStatus
  <2>2. job' \in [Jobs -> JobRow]
    <3>1. job' = job \/ \E S : job' = WithoutJobs(S)
      BY <1>11 DEF DropWorker
    <3>2. QED
      BY <3>1, StatementsTyped DEF TypeOK
  <2>3. TasksOK' /\ UNCHANGED <<miner, run, tried, conns, netVars>>
    BY <1>11, <1>f DEF DropWorker
  <2>4. QED
    BY <2>1, <2>2, <2>3 DEF TypeOK, netVars
<1>12. QED
  BY <1>1, <1>2, <1>3, <1>4, <1>5, <1>6, <1>7, <1>8, <1>9, <1>10, <1>11 DEF RequestStep

LEMMA WorkerTyped ==
    ASSUME TypeOK, NEW w \in Workers, WorkerStep(w) PROVE TypeOK'
<1> DEFINE c == session[w]
<1>1. c # None => c \in Conns /\ link[c] \in Link
  BY DEF TypeOK
<1>2. \A x \in Link, s \in Seq(Message) : [x EXCEPT !.toH = s] \in Link /\ [x EXCEPT !.toW = s] \in Link
  BY DEF Link
<1>3. CASE WorkerAssign(w)
  <2>1. c \in Conns /\ link[c] \in Link /\ link[c].toW # <<>>
    BY <1>1, <1>3 DEF WorkerAssign
  <2>2. Head(link[c].toW) \in Message /\ Tail(link[c].toW) \in Seq(Message)
    BY <2>1 DEF Link
  <2> DEFINE j == Head(link[c].toW).job
  <2>3. j \in Jobs
    BY <2>2 DEF Message
  <2>4. ASSUME NEW k \in {"ackOk", "ackErr"} PROVE TakeAndAnswer(c, k, j) \in [Conns -> Link]
    <3> DEFINE a == IF link[c].up THEN Append(link[c].toH, Msg(k, j)) ELSE link[c].toH
               l == [link[c] EXCEPT !.toW = Tail(link[c].toW), !.toH = a]
    <3>1. Msg(k, j) \in Message
      BY <2>3 DEF Msg, Message
    <3>2. a \in Seq(Message)
      BY <2>1, <3>1 DEF Link
    <3> HIDE DEF a
    <3>3. l \in Link
      BY <2>1, <2>2, <3>2 DEF Link
    <3>4. TakeAndAnswer(c, k, j) = [link EXCEPT ![c] = l]
      BY <2>1 DEF TakeAndAnswer, TypeOK, a
    <3> HIDE DEF l
    <3>5. QED
      BY <2>1, <3>3, <3>4 DEF TypeOK
  <2>5. link' \in [Conns -> Link]
    BY <1>3, <2>4 DEF WorkerAssign
  <2>6. engines' \in [Workers -> SUBSET Jobs]
    BY <1>3, <2>3 DEF WorkerAssign, TypeOK
  <2>7. QED
    BY <1>3, <2>5, <2>6 DEF WorkerAssign, TypeOK, TasksOK, dbVars
<1>4. CASE WorkerCancel(w)
  <2>1. c \in Conns /\ link[c] \in Link /\ link[c].toW # <<>>
    BY <1>1, <1>4 DEF WorkerCancel
  <2>2. Tail(link[c].toW) \in Seq(Message)
    BY <2>1 DEF Link
  <2>3. Take(c) \in [Conns -> Link]
    BY <1>2, <2>1, <2>2 DEF Take, TypeOK
  <2>4. engines' \in [Workers -> SUBSET Jobs]
    BY <1>4 DEF WorkerCancel, TypeOK
  <2>5. QED
    BY <1>4, <2>3, <2>4 DEF WorkerCancel, TypeOK, TasksOK, dbVars
<1>5. CASE SessionEnd(w)
  <2>1. link' \in [Conns -> Link]
    BY <1>5, LinkCleared DEF SessionEnd
  <2>2. session' \in [Workers -> Conns \cup {None}] /\ engines' \in [Workers -> SUBSET Jobs]
    BY <1>5 DEF SessionEnd, TypeOK
  <2>3. QED
    BY <1>5, <2>1, <2>2 DEF SessionEnd, TypeOK, TasksOK, dbVars
<1>6. QED
  BY <1>3, <1>4, <1>5 DEF WorkerStep

LEMMA ConnectTyped ==
    ASSUME TypeOK, NEW w \in Workers, NEW c \in Conns, Connect(w, c) PROVE TypeOK'
<1>1. TasksOK'
  BY GotoTyped DEF Connect, Tasks, PC
<1>2. \A x \in Link : [x EXCEPT !.worker = w, !.up = TRUE] \in Link
  BY DEF Link
<1>3. [link EXCEPT ![c] = [link[c] EXCEPT !.worker = w, !.up = TRUE]] \in [Conns -> Link]
  BY <1>2 DEF TypeOK
<1>4. link' \in [Conns -> Link]
  <2>1. link' = [link EXCEPT ![c].worker = w, ![c].up = TRUE]
    BY DEF Connect
  <2> DEFINE l == [link[c] EXCEPT !.worker = w, !.up = TRUE]
  <2>2. link' = [link EXCEPT ![c] = l]
    BY <2>1 DEF TypeOK
  <2>3. QED
    BY <1>3, <2>2
<1>5. session' \in [Workers -> Conns \cup {None}]
  BY DEF Connect, TypeOK
<1>6. QED
  BY <1>1, <1>4, <1>5 DEF Connect, TypeOK, dbVars

LEMMA AbortTyped ==
    ASSUME TypeOK, NEW r \in Requests, Abort(r) PROVE TypeOK'
<1> DEFINE t == [task[r] EXCEPT !.ctx = FALSE]
<1>1. task[r] \in Task /\ r \in Tasks
  BY DEF TypeOK, TasksOK, Tasks
<1>2. /\ t \in Task /\ t.todo = task[r].todo /\ t.pc = task[r].pc /\ t.job = task[r].job
  BY <1>1 DEF Task
<1>3. task' = [task EXCEPT ![r] = t]
  BY DEF Abort
<1> HIDE DEF t
<1>4. /\ r \in Conns => t.todo \subseteq Miners
      /\ r \in Requests => t.todo \subseteq Jobs
      /\ t.pc = "send" => t.job \in Jobs
  BY <1>1, <1>2 DEF TypeOK, TasksOK
<1>5. TasksOK'
  BY <1>1, <1>2, <1>3, <1>4, ReplaceTask
<1>6. faults' \in [aborts : 0..MaxAborts, restarts : 0..MaxRestarts]
  BY ConstantsAssumption DEF Abort, TypeOK
<1>7. QED
  BY <1>5, <1>6 DEF Abort, TypeOK, dbVars

LEMMA RestartTyped ==
    ASSUME TypeOK, Restart PROVE TypeOK'
<1>1. [IdleTask EXCEPT !.pc = "done"] \in Task /\ [IdleTask EXCEPT !.pc = "done"].todo = {}
      /\ [IdleTask EXCEPT !.pc = "done"].pc = "done"
  BY DEF IdleTask, Task, PC, AllOps
<1>2. \A p \in Tasks : task'[p] \in {IdleTask, [IdleTask EXCEPT !.pc = "done"]}
  BY DEF Restart
<1>3. TasksOK'
  BY <1>1, <1>2, IdleTyped DEF Restart, TasksOK, Tasks
<1>4. \A x \in Link, s \in Seq(Message) : [x EXCEPT !.up = FALSE, !.toH = s] \in Link
  BY DEF Link
<1>5. <<>> \in Seq(Message)
  OBVIOUS
<1>6. \A x \in Link : [x EXCEPT !.up = FALSE, !.toH = <<>>] \in Link
  BY <1>4, <1>5
<1>7. link' \in [Conns -> Link]
  BY <1>6 DEF Restart, TypeOK
<1>8. conns' \in [Workers -> Conns \cup {None}]
  BY DEF Restart
<1>9. faults' \in [aborts : 0..MaxAborts, restarts : 0..MaxRestarts]
  <2>1. /\ faults \in [aborts : 0..MaxAborts, restarts : 0..MaxRestarts]
        /\ faults.restarts < MaxRestarts
        /\ faults' = [faults EXCEPT !.restarts = faults.restarts + 1]
    BY DEF Restart, TypeOK
  <2>2. QED
    BY <2>1, ConstantsAssumption
<1>10. QED
  BY <1>3, <1>7, <1>8, <1>9 DEF Restart, TypeOK, dbVars

LEMMA StutterTyped == TypeOK /\ UNCHANGED vars => TypeOK'
BY DEF TypeOK, TasksOK, vars, dbVars, netVars

\* Every value the hub, the handlers and the workers keep has its type: miner
\* rows and job rows carry one of the statuses the SQL checks allow, a job that
\* is about to be sent exists, and work lists hold what their goroutine handles.
LEMMA NextTyped == TypeOK /\ [Next]_vars => TypeOK'
<1> SUFFICES ASSUME TypeOK, [Next]_vars PROVE TypeOK'
  OBVIOUS
<1>1. ASSUME NEW m \in Miners, CreateMiner(m) PROVE TypeOK'
  BY <1>1 DEF CreateMiner, TypeOK, TasksOK, MinerStatus, netVars
<1>2. ASSUME NEW w \in Workers, EnrollWorker(w) PROVE TypeOK'
  BY <1>2 DEF EnrollWorker, TypeOK, TasksOK, WorkerStatus, netVars
<1>3. ASSUME NEW w \in Workers, WorkerStep(w) PROVE TypeOK'
  BY <1>3, WorkerTyped
<1>4. ASSUME NEW w \in Workers, NEW c \in Conns, Connect(w, c) PROVE TypeOK'
  BY <1>4, ConnectTyped
<1>5. ASSUME NEW c \in Conns, ConnStep(c) PROVE TypeOK'
  BY <1>5, ConnTyped
<1>6. ASSUME NEW c \in Conns, Cut(c) PROVE TypeOK'
  <2>1. link' \in [Conns -> Link]
    BY <1>6, LinkDown DEF Cut
  <2>2. QED
    BY <1>6, <2>1 DEF Cut, TypeOK, TasksOK, dbVars
<1>7. ASSUME NEW r \in Requests, RequestBegins(r) PROVE TypeOK'
  BY <1>7, RequestBeginsTyped
<1>8. ASSUME NEW r \in Requests, RequestStep(r) PROVE TypeOK'
  BY <1>8, RequestTyped
<1>9. ASSUME NEW r \in Requests, Abort(r) PROVE TypeOK'
  BY <1>9, AbortTyped
<1>10. CASE Restart
  BY <1>10, RestartTyped
<1>11. CASE UNCHANGED vars
  BY <1>11, StutterTyped
<1>12. QED
  BY <1>1, <1>2, <1>3, <1>4, <1>5, <1>6, <1>7, <1>8, <1>9, <1>10, <1>11 DEF Next

THEOREM TypeCorrect == Spec => []TypeOK
<1>1. Init => TypeOK
  BY InitTyped
<1>2. TypeOK /\ [Next]_vars => TypeOK'
  BY NextTyped
<1>3. QED
  BY <1>1, <1>2, PTL DEF Spec

-----------------------------------------------------------------------------
(* The history tables                                                      *)

\* What one step may do to the rows of swarm_jobs and of miner_runs
JobsStand == \A j \in Jobs : job[j].st # "none" =>
                 /\ job'[j].miner = job[j].miner /\ job'[j].worker = job[j].worker
                 /\ job'[j].open => job[j].open
RunsStand == \A k \in Runs : run[k].st = "closed" => run'[k].st \in {"closed", "deleted"}

\* Every UPDATE of the two tables obeys it.
LEMMA StatementsStand ==
    ASSUME TypeOK
    PROVE  /\ job' = job => JobsStand
           /\ run' = run => RunsStand
           /\ \A ok, j : \A s \in {"ended", "error"} : EndJob(ok, j, s) => JobsStand
           /\ \A ok, j : AckRow(ok, j) => JobsStand
           /\ \A S : job' = WithoutJobs(S) => JobsStand
           /\ \A w : job' = EndedJobs(w) => JobsStand
           /\ \A m : run' = WithoutRuns(m) \/ run' = ClosedRuns(m) => RunsStand
<1>t. job \in [Jobs -> JobRow] /\ run \in [Runs -> RunRow]
  BY DEF TypeOK
<1>1. \A x \in JobRow : \A s :
         /\ [x EXCEPT !.st = s].miner = x.miner /\ [x EXCEPT !.st = s].worker = x.worker
         /\ [x EXCEPT !.st = s].open = x.open
         /\ [x EXCEPT !.st = s, !.open = FALSE].miner = x.miner
         /\ [x EXCEPT !.st = s, !.open = FALSE].worker = x.worker
         /\ ~[x EXCEPT !.st = s, !.open = FALSE].open
  BY DEF JobRow
<1>2. job' = job => JobsStand
  BY DEF JobsStand
<1>3. run' = run => RunsStand
  BY DEF RunsStand
<1>4. ASSUME NEW ok, NEW j, NEW s \in {"ended", "error"}, EndJob(ok, j, s) PROVE JobsStand
  BY <1>t, <1>1, <1>4 DEF EndJob, JobsStand
<1>5. ASSUME NEW ok, NEW j, AckRow(ok, j) PROVE JobsStand
  BY <1>t, <1>1, <1>5 DEF AckRow, JobsStand
<1>6. ASSUME NEW S, job' = WithoutJobs(S) PROVE JobsStand
  BY <1>t, <1>1, <1>6 DEF WithoutJobs, JobsStand
<1>7. ASSUME NEW w, job' = EndedJobs(w) PROVE JobsStand
  BY <1>t, <1>1, <1>7 DEF EndedJobs, JobsStand
<1>8. ASSUME NEW m, run' = WithoutRuns(m) \/ run' = ClosedRuns(m) PROVE RunsStand
  BY <1>t, <1>8 DEF WithoutRuns, ClosedRuns, RunsStand, RunRow
<1>9. QED
  BY <1>2, <1>3, <1>4, <1>5, <1>6, <1>7, <1>8

LEMMA AssignStands ==
    ASSUME TypeOK, NEW p \in Tasks, AssignStep(p) PROVE JobsStand /\ RunsStand
<1>1. run' = run
  BY DEF AssignStep, PickWorker, CreateJob, SendAssign, AssignFailed, dbVars
<1>2. CASE job' = job
  BY <1>1, <1>2, StatementsStand
<1>3. CASE CreateJob(p)
  <2>1. job' = job \/ \E j \in Jobs : \E x : job[j].st = "none" /\ job' = [job EXCEPT ![j] = x]
    BY <1>3 DEF CreateJob
  <2>2. JobsStand
    BY <2>1 DEF JobsStand, TypeOK
  <2>3. QED
    BY <1>1, <2>2, StatementsStand
<1>4. CASE AssignFailed(p)
  BY <1>1, <1>4, StatementsStand DEF AssignFailed
<1>5. QED
  BY <1>2, <1>3, <1>4 DEF AssignStep, PickWorker, SendAssign, dbVars

LEMMA RequestStands ==
    ASSUME TypeOK, NEW r \in Requests, RequestStep(r) PROVE JobsStand /\ RunsStand
<1>1. CASE OpenRun(r)
  <2>1. RunsStand
    BY <1>1 DEF OpenRun, RunsStand, TypeOK
  <2>2. QED
    BY <1>1, <2>1, StatementsStand DEF OpenRun
<1>2. CASE AssignStep(r)
  BY <1>2, AssignStands DEF Tasks
<1>3. CASE CancelEnd(r)
  BY <1>3, StatementsStand DEF CancelEnd
<1>4. CASE CloseRun(r)
  BY <1>4, StatementsStand DEF CloseRun
<1>5. CASE Settle(r)
  BY <1>5, StatementsStand DEF Settle, DeleteRows
<1>6. CASE RevokeJobs(r)
  BY <1>6, StatementsStand DEF RevokeJobs
<1>7. CASE DropWorker(r)
  BY <1>7, StatementsStand DEF DropWorker
<1>8. CASE job' = job /\ run' = run
  BY <1>8, StatementsStand
<1>9. QED
  BY <1>1, <1>2, <1>3, <1>4, <1>5, <1>6, <1>7, <1>8
     DEF RequestStep, Enqueue, ReadJobs, CancelNext, Disconnect, dbVars

LEMMA NextStands == ASSUME TypeOK, Next PROVE JobsStand /\ RunsStand
<1>1. CASE job' = job /\ run' = run
  BY <1>1, StatementsStand
<1>2. ASSUME NEW c \in Conns, ConnStep(c) PROVE JobsStand /\ RunsStand
  <2>1. CASE AssignStep(c)
    BY <2>1, AssignStands DEF Tasks
  <2>2. CASE AckJob(c) \/ ErrJob(c)
    BY <2>2, StatementsStand DEF AckJob, ErrJob
  <2>3. QED
    BY <1>1, <1>2, <2>1, <2>2
       DEF ConnStep, Register, ReadQueued, ReceiveAck, AckMiner, ErrMiner, Unregister, dbVars
<1>3. ASSUME NEW r \in Requests, RequestStep(r) PROVE JobsStand /\ RunsStand
  BY <1>3, RequestStands
<1>4. ASSUME NEW r \in Requests, RequestBegins(r) \/ Abort(r) PROVE JobsStand /\ RunsStand
  BY <1>1, <1>4 DEF RequestBegins, Start, Stop, Delete, Revoke, DeleteWorker, Abort, dbVars
<1>5. ASSUME NEW w \in Workers, EnrollWorker(w) \/ WorkerStep(w) PROVE JobsStand /\ RunsStand
  BY <1>1, <1>5 DEF EnrollWorker, WorkerStep, WorkerAssign, WorkerCancel, SessionEnd, dbVars
<1>6. ASSUME NEW w \in Workers, NEW c \in Conns, Connect(w, c) PROVE JobsStand /\ RunsStand
  BY <1>1, <1>6 DEF Connect, dbVars
<1>7. ASSUME NEW c \in Conns, Cut(c) PROVE JobsStand /\ RunsStand
  BY <1>1, <1>7 DEF Cut, dbVars
<1>8. ASSUME NEW m \in Miners, CreateMiner(m) PROVE JobsStand /\ RunsStand
  BY <1>1, <1>8 DEF CreateMiner
<1>9. CASE Restart
  BY <1>1, <1>9 DEF Restart, dbVars
<1>10. QED
  BY <1>2, <1>3, <1>4, <1>5, <1>6, <1>7, <1>8, <1>9 DEF Next

\* An ended job stays ended and keeps its miner and worker, and a closed run is
\* never opened again, whatever acks, cancellations and revocations race.
THEOREM History == Spec => HistoryStands
<1>1. TypeOK /\ [Next]_vars => [JobsStand /\ RunsStand]_vars
  BY NextStands
<1>2. QED
  BY <1>1, TypeCorrect, PTL DEF Spec, HistoryStands, JobsStand, RunsStand

-----------------------------------------------------------------------------
(* Rows, messages and engines belong to the worker they name               *)

\* The four parts of Addressed
MessagesOwn ==
    \A c \in Conns : \A i \in 1..Len(link[c].toW) : JobOf(link[c].toW[i].job, link[c].worker)
ChoiceOwn(p) ==
    /\ task[p].pc \in {"create", "send"} =>
          /\ task[p].wk \in Native /\ task[p].tc \in Conns
          /\ ~At(task[p].tc, "idle") /\ link[task[p].tc].worker = task[p].wk
    /\ At(p, "send") => JobOf(task[p].job, task[p].wk)
TodoReal(r) == \A j \in task[r].todo : job[j].st # "none"

LEMMA AddressedParts ==
    Addressed <=> /\ NativeOnly /\ MessagesOwn
                  /\ \A p \in Tasks : ChoiceOwn(p)
                  /\ \A r \in Requests : TodoReal(r)
BY DEF Addressed, NativeOnly, MessagesOwn, ChoiceOwn, TodoReal

\* What no step does to rows, and what most steps do to connections
RowsStay ==
    \A j \in Jobs : job[j].st # "none" => job'[j].st # "none" /\ job'[j].worker = job[j].worker
MadeStay == \A c \in Conns : ~At(c, "idle") => task'[c].pc # "idle"
EndsStay ==
    \A c \in Conns : /\ link'[c].worker = link[c].worker
                     /\ At(c, "idle") => link'[c].toW = link[c].toW

\* A message in flight was there before, or is about a job of the worker at the other end.
SendsOwn ==
    \A c \in Conns : \A i \in 1..Len(link'[c].toW) :
        \/ \E k \in 1..Len(link[c].toW) : link'[c].toW[i] = link[c].toW[k]
        \/ JobOf(link'[c].toW[i].job, link[c].worker)

\* Where Goto, Finish and the assignments of a record leave other goroutines.
LEMMA OthersUntouched ==
    ASSUME TypeOK, NEW p \in Tasks
    PROVE  /\ \A pc : Goto(p, pc) => \A q \in Tasks : q # p => task'[q] = task[q]
           /\ Finish(p) => \A q \in Tasks : q # p => task'[q] = task[q]
           /\ \A t : task' = [task EXCEPT ![p] = t] => \A q \in Tasks : q # p => task'[q] = task[q]
           /\ AssignReturns(p) => \A q \in Tasks : q # p => task'[q] = task[q]
BY DEF Goto, Finish, AssignReturns, TypeOK, TasksOK

\* The jobs of messages are jobs.
LEMMA MessageJobs ==
    ASSUME TypeOK, NEW c \in Conns, NEW i \in 1..Len(link[c].toW)
    PROVE  link[c].toW[i].job \in Jobs /\ link[c].toW[i] \in Message
<1>1. link[c].toW \in Seq(Message)
  BY DEF TypeOK, Link
<1>2. link[c].toW[i] \in Message
  BY <1>1
<1>3. QED
  BY <1>2 DEF Message

LEMMA JobsStay ==
    ASSUME RowsStay, NEW j \in Jobs, NEW w, JobOf(j, w)
    PROVE  job'[j].st # "none" /\ job'[j].worker = w
BY DEF RowsStay, JobOf

LEMMA MessagesStay ==
    ASSUME TypeOK, TypeOK', MessagesOwn, RowsStay, EndsStay, SendsOwn
    PROVE  MessagesOwn'
<1> SUFFICES ASSUME NEW c \in Conns, NEW i \in 1..Len(link'[c].toW)
             PROVE  job'[link'[c].toW[i].job].st # "none" /\ job'[link'[c].toW[i].job].worker = link'[c].worker
  BY DEF MessagesOwn, JobOf
<1>1. link'[c].worker = link[c].worker
  BY DEF EndsStay
<1>2. PICK j \in Jobs : j = link'[c].toW[i].job
  <2>1. link'[c].toW \in Seq(Message)
    BY DEF TypeOK, Link
  <2>2. link'[c].toW[i] \in Message
    BY <2>1
  <2>3. QED
    BY <2>2 DEF Message
<1>3. JobOf(j, link[c].worker)
  <2>1. CASE \E k \in 1..Len(link[c].toW) : link'[c].toW[i] = link[c].toW[k]
    BY <1>2, <2>1 DEF MessagesOwn
  <2>2. CASE JobOf(link'[c].toW[i].job, link[c].worker)
    BY <1>2, <2>2
  <2>3. QED
    BY <2>1, <2>2 DEF SendsOwn
<1>4. QED
  BY <1>1, <1>2, <1>3, JobsStay

LEMMA ChoiceStays ==
    ASSUME TypeOK, RowsStay, EndsStay, MadeStay, NEW p \in Tasks, ChoiceOwn(p), task'[p] = task[p]
    PROVE  ChoiceOwn(p)'
<1>1. ASSUME task[p].pc \in {"create", "send"}
      PROVE  /\ task[p].wk \in Native /\ task[p].tc \in Conns
             /\ task'[task[p].tc].pc # "idle" /\ link'[task[p].tc].worker = task[p].wk
  BY <1>1 DEF ChoiceOwn, EndsStay, MadeStay
<1>2. ASSUME task[p].pc = "send"
      PROVE  job'[task[p].job].st # "none" /\ job'[task[p].job].worker = task[p].wk
  <2>1. task[p].job \in Jobs /\ JobOf(task[p].job, task[p].wk)
    BY <1>2 DEF ChoiceOwn, At, TypeOK, TasksOK
  <2>2. QED
    BY <2>1, JobsStay
<1>3. QED
  BY <1>1, <1>2 DEF ChoiceOwn, At, JobOf

LEMMA TodoStays ==
    ASSUME TypeOK, RowsStay, NEW r \in Requests, TodoReal(r), task'[r] = task[r]
    PROVE  TodoReal(r)'
BY DEF TypeOK, TasksOK, TodoReal, RowsStay

LEMMA EnginesStay ==
    ASSUME TypeOK, EnginesOwned, RowsStay, session' = session, engines' = engines
    PROVE  EnginesOwned'
BY DEF TypeOK, EnginesOwned, RowsStay

\* A connection that was not made, or whose HandleWS has returned, or not registered yet
Unserved == {"idle", "accepted", "done"}

\* A step of one goroutine that leaves the maps, the sessions and the engines alone
LEMMA GoroutineStep ==
    ASSUME DispatchInv, TypeOK', NEW p \in Tasks,
           \A q \in Tasks : q # p => task'[q] = task[q],
           p \in Conns => task[p].pc \notin Unserved /\ task'[p].pc \notin Unserved,
           ChoiceOwn(p)', p \in Requests => TodoReal(p)',
           RowsStay, NativeOnly', EndsStay, SendsOwn,
           conns' = conns, session' = session, engines' = engines
    PROVE  DispatchInv'
<1>1. /\ TypeOK /\ Wired /\ HubEntriesServed /\ EnginesOwned
      /\ MessagesOwn /\ (\A q \in Tasks : ChoiceOwn(q)) /\ \A r \in Requests : TodoReal(r)
  BY AddressedParts DEF DispatchInv
<1>2. \A c \in Conns : c \in Tasks /\ (task'[c] = task[c] \/ (task[c].pc \notin Unserved /\ task'[c].pc \notin Unserved))
  BY DEF Tasks
<1>3. MadeStay
  BY <1>2 DEF MadeStay, At, Unserved
<1>4. MessagesOwn' /\ EnginesOwned'
  BY <1>1, MessagesStay, EnginesStay
<1>5. \A q \in Tasks : ChoiceOwn(q)'
  <2> SUFFICES ASSUME NEW q \in Tasks, q # p PROVE ChoiceOwn(q)'
    OBVIOUS
  <2>1. QED
    BY <1>1, <1>3, ChoiceStays
<1>6. \A r \in Requests : TodoReal(r)'
  <2> SUFFICES ASSUME NEW r \in Requests, r # p PROVE TodoReal(r)'
    OBVIOUS
  <2>1. task'[r] = task[r]
    BY DEF Tasks
  <2>2. QED
    BY <1>1, <2>1, TodoStays
<1>7. Wired'
  <2>1. ASSUME NEW c \in Conns
        PROVE  IF task'[c].pc = "idle" THEN link'[c].toW = <<>> ELSE link'[c].worker \in Workers
    <3>1. task'[c].pc = "idle" <=> At(c, "idle")
      BY <1>2 DEF At, Unserved
    <3>2. CASE At(c, "idle")
      <4>1. link[c].toW = <<>>
        BY <1>1, <3>2 DEF Wired
      <4>2. QED
        BY <3>1, <3>2, <4>1 DEF EndsStay
    <3>3. CASE ~At(c, "idle")
      BY <1>1, <3>1, <3>3 DEF Wired, EndsStay
    <3>4. QED
      BY <3>2, <3>3
  <2>2. ASSUME NEW w \in Workers, session[w] # None
        PROVE  link'[session[w]].worker = w /\ task'[session[w]].pc # "idle"
    <3>1. session[w] \in Conns /\ link[session[w]].worker = w /\ ~At(session[w], "idle")
      BY <1>1, <2>2 DEF Wired, TypeOK
    <3>2. QED
      BY <1>3, <3>1 DEF EndsStay, MadeStay
  <2>3. QED
    BY <2>1, <2>2 DEF Wired, At
<1>8. HubEntriesServed'
  <2> SUFFICES ASSUME NEW w \in Workers, conns[w] # None
               PROVE  link'[conns[w]].worker = w /\ task'[conns[w]].pc \notin Unserved
    BY DEF HubEntriesServed, Live, Unserved
  <2>1. conns[w] \in Conns /\ link[conns[w]].worker = w /\ task[conns[w]].pc \notin Unserved
    BY <1>1 DEF HubEntriesServed, Live, Unserved, TypeOK
  <2>2. QED
    BY <1>2, <2>1 DEF EndsStay
<1>9. QED
  BY <1>4, <1>5, <1>6, <1>7, <1>8, AddressedParts DEF DispatchInv, Addressed, NativeOnly, MessagesOwn, ChoiceOwn, TodoReal

\* Every UPDATE and DELETE keeps which rows there are and were, and their workers.
RowsSame == \A j \in Jobs : job'[j].worker = job[j].worker /\ (job'[j].st = "none" <=> job[j].st = "none")

LEMMA StatementsSame ==
    ASSUME TypeOK
    PROVE  /\ job' = job => RowsSame
           /\ \A ok, j : \A s \in {"ended", "error"} : EndJob(ok, j, s) => RowsSame
           /\ \A ok, j : AckRow(ok, j) => RowsSame
           /\ \A S : job' = WithoutJobs(S) => RowsSame
           /\ \A w : job' = EndedJobs(w) => RowsSame
<1>t. job \in [Jobs -> JobRow]
  BY DEF TypeOK
<1>1. \A x \in JobRow : \A s :
         /\ [x EXCEPT !.st = s].worker = x.worker /\ [x EXCEPT !.st = s].st = s
         /\ [x EXCEPT !.st = s, !.open = FALSE].worker = x.worker
         /\ [x EXCEPT !.st = s, !.open = FALSE].st = s
  BY DEF JobRow
<1>2. job' = job => RowsSame
  BY DEF RowsSame
<1>3. ASSUME NEW ok, NEW j, NEW s \in {"ended", "error"}, EndJob(ok, j, s) PROVE RowsSame
  BY <1>t, <1>1, <1>3 DEF EndJob, RowsSame, HasJob
<1>4. ASSUME NEW ok, NEW j, AckRow(ok, j) PROVE RowsSame
  <2>1. CASE ok /\ HasJob(j) /\ j \in Jobs
    <3>1. job'[j] = [job[j] EXCEPT !.st = "ack"] /\ \A i \in Jobs : i # j => job'[i] = job[i]
      BY <1>t, <1>4, <2>1 DEF AckRow
    <3>2. job'[j].worker = job[j].worker /\ job'[j].st = "ack" /\ job[j].st # "none"
      BY <1>t, <1>1, <2>1, <3>1 DEF HasJob
    <3>3. QED
      BY <3>1, <3>2 DEF RowsSame
  <2>2. CASE ~(ok /\ HasJob(j) /\ j \in Jobs)
    <3>1. \A i \in Jobs : job'[i] = job[i]
      BY <1>t, <1>4, <2>2 DEF AckRow
    <3>2. QED
      BY <3>1 DEF RowsSame
  <2>3. QED
    BY <2>1, <2>2
<1>5. ASSUME NEW S, job' = WithoutJobs(S) PROVE RowsSame
  BY <1>t, <1>1, <1>5 DEF WithoutJobs, RowsSame, HasJob
<1>6. ASSUME NEW w, job' = EndedJobs(w) PROVE RowsSame
  <2> SUFFICES ASSUME NEW i \in Jobs
               PROVE  job'[i].worker = job[i].worker /\ (job'[i].st = "none" <=> job[i].st = "none")
    BY DEF RowsSame
  <2>1. job'[i] = job[i] \/ (HasJob(i) /\ job'[i] = [job[i] EXCEPT !.st = "ended", !.open = FALSE])
    BY <1>6 DEF EndedJobs
  <2>2. CASE job'[i] = job[i]
    BY <2>2
  <2>3. CASE HasJob(i) /\ job'[i] = [job[i] EXCEPT !.st = "ended", !.open = FALSE]
    <3>1. job[i] \in JobRow
      BY <1>t
    <3>2. job'[i].worker = job[i].worker /\ job'[i].st = "ended"
      BY <1>1, <2>3, <3>1
    <3>3. QED
      BY <2>3, <3>2 DEF HasJob
  <2>4. QED
    BY <2>1, <2>2, <2>3
<1>7. QED
  BY <1>2, <1>3, <1>4, <1>5, <1>6

LEMMA SameRows ==
    ASSUME NativeOnly, RowsSame PROVE RowsStay /\ NativeOnly'
BY DEF NativeOnly, RowsSame, RowsStay

LEMMA SameLinks == link' = link => EndsStay /\ SendsOwn
BY DEF EndsStay, SendsOwn

\* A message about a job of the worker at the other end of a connection that was made
LEMMA DeliverOwn ==
    ASSUME TypeOK, NEW c \in Conns, ~At(c, "idle"), NEW m \in Message, JobOf(m.job, link[c].worker),
           Deliver(c, m)
    PROVE  EndsStay /\ SendsOwn
<1>1. CASE ~link[c].up
  BY <1>1, SameLinks DEF Deliver
<1>2. CASE link[c].up
  <2>1. link[c] \in Link /\ link' = [link EXCEPT ![c].toW = Append(@, m)]
    BY <1>2 DEF Deliver, TypeOK
  <2>2. link'[c].worker = link[c].worker /\ link'[c].toW = Append(link[c].toW, m)
    BY <2>1 DEF TypeOK, Link
  <2>3. \A d \in Conns : d # c => link'[d] = link[d]
    BY <2>1 DEF TypeOK
  <2>4. EndsStay
    BY <2>2, <2>3 DEF EndsStay
  <2>5. ASSUME NEW i \in 1..Len(link'[c].toW)
        PROVE  link'[c].toW[i] = m \/ \E k \in 1..Len(link[c].toW) : link'[c].toW[i] = link[c].toW[k]
    <3>1. PICK s \in Seq(Message) : s = link[c].toW
      BY <2>1 DEF Link
    <3>2. i \in 1..Len(Append(s, m))
      BY <2>2, <3>1
    <3>3. Append(s, m)[i] = m \/ \E k \in 1..Len(s) : Append(s, m)[i] = s[k]
      BY <3>2
    <3>4. QED
      BY <2>2, <3>1, <3>3
  <2>6. SendsOwn
    BY <2>3, <2>5 DEF SendsOwn
  <2>7. QED
    BY <2>4, <2>6
<1>3. QED
  BY <1>1, <1>2

\* Where Assign, Goto and Finish leave their goroutine
LEMMA ReturnsOwn ==
    ASSUME TypeOK, NEW p \in Tasks, AssignReturns(p)
    PROVE  /\ \A q \in Tasks : q # p => task'[q] = task[q]
           /\ p \in Conns => task'[p].pc \notin Unserved
           /\ p \in Requests => TodoReal(p)'
           /\ ChoiceOwn(p)'
<1>1. \A q \in Tasks : q # p => task'[q] = task[q]
  BY OthersUntouched
<1>2. CASE p \in Conns
  <2>1. PICK t \in Placing(task[p].todo) : task' = [task EXCEPT ![p] = t]
    BY <1>2 DEF AssignReturns
  <2>2. task[p].todo \in SUBSET Miners
    BY <1>2 DEF TypeOK, TasksOK
  <2>3. t.pc \in {"reading", "pick"}
    BY <2>1, <2>2, PlacingTyped
  <2>4. task'[p].pc \in {"reading", "pick"}
    BY <2>1, <2>3 DEF TypeOK, TasksOK
  <2>5. QED
    BY <1>1, <1>2, <2>4, ConstantsAssumption DEF ChoiceOwn, At, Unserved
<1>3. CASE p \notin Conns
  <2>1. task'[p] = IdleTask
    BY <1>3 DEF AssignReturns, Finish, TypeOK, TasksOK
  <2>2. task'[p].pc = "idle" /\ task'[p].todo = {}
    BY <2>1, IdleTyped
  <2>3. QED
    BY <1>1, <1>3, <2>2 DEF ChoiceOwn, At, TodoReal
<1>4. QED
  BY <1>2, <1>3

LEMMA GotoOwn ==
    ASSUME TypeOK, NEW p \in Tasks, NEW pc, Goto(p, pc)
    PROVE  /\ \A q \in Tasks : q # p => task'[q] = task[q]
           /\ task'[p].pc = pc /\ task'[p].todo = task[p].todo
           /\ task'[p].job = task[p].job /\ task'[p].wk = task[p].wk
           /\ task'[p].tc = task[p].tc /\ task'[p].miner = task[p].miner
<1>1. task[p] \in Task /\ task' = [task EXCEPT ![p].pc = pc]
  BY DEF Goto, TypeOK, TasksOK
<1>2. QED
  BY <1>1 DEF TypeOK, TasksOK, Task

-----------------------------------------------------------------------------
(* The goroutines keep DispatchInv                                         *)

LEMMA InvParts ==
    ASSUME DispatchInv
    PROVE  /\ TypeOK /\ Wired /\ HubEntriesServed /\ EnginesOwned /\ NativeOnly /\ MessagesOwn
           /\ \A p \in Tasks : ChoiceOwn(p)
           /\ \A r \in Requests : TodoReal(r)
BY AddressedParts DEF DispatchInv

LEMMA AssignInv ==
    ASSUME DispatchInv, TypeOK', NEW p \in Tasks, AssignStep(p)
    PROVE  DispatchInv'
<1>1. TypeOK /\ NativeOnly /\ ChoiceOwn(p) /\ HubEntriesServed /\ task[p] \in Task
  BY InvParts DEF TypeOK, TasksOK
<1>2. /\ p \in Conns => task[p].pc \notin Unserved
      /\ conns' = conns /\ session' = session /\ engines' = engines
  BY DEF AssignStep, PickWorker, CreateJob, SendAssign, AssignFailed, At, Unserved, netVars
<1>3. CASE PickWorker(p)
  <2>1. job' = job /\ link' = link
    BY <1>3 DEF PickWorker, netVars
  <2>2. RowsStay /\ NativeOnly' /\ EndsStay /\ SendsOwn
    BY <1>1, <2>1, SameRows, StatementsSame, SameLinks
  <2>3. CASE AssignReturns(p)
    BY <1>1, <1>2, <2>2, <2>3, ReturnsOwn, GoroutineStep
  <2>4. ASSUME NEW ok \in Outcomes(p), NEW w \in Candidates(p, ok),
               task' = [task EXCEPT ![p].pc = "create", ![p].wk = w, ![p].tc = conns[w]]
        PROVE  DispatchInv'
    <3>1. w \in Native /\ w \in Workers /\ w \in Live
      BY <2>4, ConstantsAssumption DEF Candidates, Live
    <3>2. conns[w] \in Conns /\ link[conns[w]].worker = w /\ ~At(conns[w], "idle")
      BY <1>1, <3>1 DEF HubEntriesServed, Live, TypeOK, At
    <3>3. /\ task'[p].pc = "create" /\ task'[p].wk = w /\ task'[p].tc = conns[w]
          /\ task'[p].todo = task[p].todo
          /\ \A q \in Tasks : q # p => task'[q] = task[q]
      BY <1>1, <2>4 DEF TypeOK, TasksOK, Task
    <3>4. task'[conns[w]].pc # "idle"
      BY <3>2, <3>3 DEF Tasks, At
    <3>5. ChoiceOwn(p)'
      <4>1. link'[task'[p].tc].worker = task'[p].wk /\ task'[task'[p].tc].pc # "idle"
        BY <2>1, <3>2, <3>3, <3>4
      <4>2. QED
        BY <3>1, <3>2, <3>3, <4>1 DEF ChoiceOwn, At
    <3>6. p \in Requests => TodoReal(p)'
      BY <2>1, <3>3, InvParts DEF TodoReal
    <3>7. p \in Conns => task'[p].pc \notin Unserved
      BY <3>3 DEF Unserved
    <3>8. QED
      BY <1>2, <2>2, <3>3, <3>5, <3>6, <3>7, GoroutineStep
  <2>5. QED
    BY <1>3, <2>3, <2>4 DEF PickWorker
<1>4. CASE CreateJob(p)
  <2>1. link' = link /\ EndsStay /\ SendsOwn
    BY <1>4, SameLinks DEF CreateJob, netVars
  <2>2. CASE AssignReturns(p) /\ job' = job
    BY <1>1, <1>2, <2>1, <2>2, ReturnsOwn, SameRows, StatementsSame, GoroutineStep
  <2>3. ASSUME NEW j \in Jobs, job[j].st = "none",
               job' = [job EXCEPT ![j] = [st |-> "assigned", open |-> TRUE,
                                          miner |-> task[p].miner, worker |-> task[p].wk]],
               task' = [task EXCEPT ![p].pc = "send", ![p].job = j]
        PROVE  DispatchInv'
    <3>1. /\ task'[p].pc = "send" /\ task'[p].job = j /\ task'[p].wk = task[p].wk
          /\ task'[p].tc = task[p].tc /\ task'[p].todo = task[p].todo
          /\ \A q \in Tasks : q # p => task'[q] = task[q]
      BY <1>1, <2>3 DEF TypeOK, TasksOK, Task
    <3>2. /\ job'[j].st = "assigned" /\ job'[j].worker = task[p].wk
          /\ \A i \in Jobs : i # j => job'[i] = job[i]
      BY <1>1, <2>3 DEF TypeOK
    <3>3. /\ task[p].wk \in Native /\ task[p].tc \in Conns /\ ~At(task[p].tc, "idle")
          /\ link[task[p].tc].worker = task[p].wk
      BY <1>1, <1>4 DEF CreateJob, ChoiceOwn, At
    <3>4. RowsStay /\ NativeOnly'
      BY <1>1, <2>3, <3>2, <3>3 DEF RowsStay, NativeOnly
    <3>5. ChoiceOwn(p)'
      <4>1. task'[task[p].tc].pc # "idle" /\ link'[task[p].tc].worker = task[p].wk
        BY <2>1, <3>1, <3>3 DEF At, Tasks
      <4>2. QED
        BY <3>1, <3>2, <3>3, <4>1 DEF ChoiceOwn, At, JobOf
    <3>6. p \in Requests => TodoReal(p)'
      <4> SUFFICES ASSUME p \in Requests, NEW i \in task[p].todo PROVE job'[i].st # "none"
        BY <3>1 DEF TodoReal
      <4>1. i \in Jobs /\ job[i].st # "none"
        BY <1>1, InvParts DEF TypeOK, TasksOK, TodoReal
      <4>2. QED
        BY <3>2, <4>1
    <3>7. p \in Conns => task'[p].pc \notin Unserved
      BY <3>1 DEF Unserved
    <3>8. QED
      BY <1>2, <2>1, <3>1, <3>4, <3>5, <3>6, <3>7, GoroutineStep
  <2>4. QED
    BY <1>4, <2>2, <2>3 DEF CreateJob
<1>5. CASE SendAssign(p)
  <2>1. job' = job /\ RowsStay /\ NativeOnly'
    BY <1>1, <1>5, SameRows, StatementsSame DEF SendAssign, dbVars
  <2>2. /\ task[p].tc \in Conns /\ ~At(task[p].tc, "idle") /\ task[p].job \in Jobs
        /\ JobOf(task[p].job, link[task[p].tc].worker)
    BY <1>1, <1>5 DEF SendAssign, ChoiceOwn, At, TypeOK, TasksOK
  <2>3. CASE Deliver(task[p].tc, Msg("assign", task[p].job)) /\ AssignReturns(p)
    <3>1. Msg("assign", task[p].job) \in Message /\ Msg("assign", task[p].job).job = task[p].job
      BY <2>2 DEF Msg, Message
    <3>2. EndsStay /\ SendsOwn
      BY <1>1, <2>2, <2>3, <3>1, DeliverOwn
    <3>3. QED
      BY <1>1, <1>2, <2>1, <2>3, <3>2, ReturnsOwn, GoroutineStep
  <2>4. CASE Goto(p, "jobErr") /\ link' = link
    <3>1. /\ task'[p].pc = "jobErr" /\ task'[p].todo = task[p].todo
          /\ \A q \in Tasks : q # p => task'[q] = task[q]
      BY <1>1, <2>4, GotoOwn
    <3>2. ChoiceOwn(p)' /\ (p \in Conns => task'[p].pc \notin Unserved)
      BY <3>1 DEF ChoiceOwn, At, Unserved
    <3>3. p \in Requests => TodoReal(p)'
      BY <2>1, <3>1, InvParts DEF TodoReal
    <3>4. EndsStay /\ SendsOwn
      BY <2>4, SameLinks
    <3>5. QED
      BY <1>2, <2>1, <3>1, <3>2, <3>3, <3>4, GoroutineStep
  <2>5. QED
    BY <1>5, <2>3, <2>4 DEF SendAssign
<1>6. CASE AssignFailed(p)
  <2>1. AssignReturns(p) /\ link' = link /\ EndsStay /\ SendsOwn /\ RowsStay /\ NativeOnly'
    BY <1>1, <1>6, SameRows, StatementsSame, SameLinks DEF AssignFailed, netVars
  <2>2. QED
    BY <1>1, <1>2, <2>1, ReturnsOwn, GoroutineStep
<1>7. QED
  BY <1>3, <1>4, <1>5, <1>6 DEF AssignStep

\* A step of a HandleWS that goes on, or of a request, which sends nothing
LEMMA QuietStep ==
    ASSUME DispatchInv, TypeOK', NEW p \in Tasks,
           \A q \in Tasks : q # p => task'[q] = task[q],
           p \in Conns => task[p].pc \notin Unserved /\ task'[p].pc \notin Unserved,
           task'[p].pc \notin {"create", "send"},
           p \in Requests => \A j \in task'[p].todo : j \in Jobs /\ job[j].st # "none",
           RowsSame, EndsStay, SendsOwn,
           conns' = conns, session' = session, engines' = engines
    PROVE  DispatchInv'
<1>1. RowsStay /\ NativeOnly'
  BY InvParts, SameRows
<1>2. ChoiceOwn(p)'
  BY DEF ChoiceOwn, At
<1>3. p \in Requests => TodoReal(p)'
  BY DEF TodoReal, RowsSame
<1>4. QED
  BY <1>1, <1>2, <1>3, GoroutineStep

\* The work list of a request holds jobs that exist.
LEMMA TodoJobs ==
    ASSUME DispatchInv, NEW r \in Requests
    PROVE  \A j \in task[r].todo : j \in Jobs /\ job[j].st # "none" /\ job[j].worker \in Native
<1>1. task[r].todo \subseteq Jobs /\ TodoReal(r) /\ NativeOnly
  BY InvParts DEF TypeOK, TasksOK
<1>2. QED
  BY <1>1 DEF TodoReal, NativeOnly

LEMMA RequestInv ==
    ASSUME DispatchInv, TypeOK', NEW r \in Requests, RequestStep(r)
    PROVE  DispatchInv'
<1>1. TypeOK /\ HubEntriesServed /\ task[r] \in Task /\ r \in Tasks /\ r \notin Conns
  BY InvParts, ConstantsAssumption DEF TypeOK, TasksOK, Tasks
<1>2. \A j \in task[r].todo : j \in Jobs /\ job[j].st # "none" /\ job[j].worker \in Native
  BY TodoJobs
<1>g. ASSUME NEW pc \in PC \ {"create", "send"}, Goto(r, pc)
      PROVE  /\ \A q \in Tasks : q # r => task'[q] = task[q]
             /\ task'[r].pc \notin {"create", "send"}
             /\ \A j \in task'[r].todo : j \in Jobs /\ job[j].st # "none"
  BY <1>1, <1>2, <1>g, GotoOwn
<1>f. ASSUME Finish(r)
      PROVE  /\ \A q \in Tasks : q # r => task'[q] = task[q]
             /\ task'[r].pc \notin {"create", "send"}
             /\ \A j \in task'[r].todo : j \in Jobs /\ job[j].st # "none"
  <2>1. task'[r] = IdleTask
    BY <1>1, <1>f DEF Finish, TypeOK, TasksOK
  <2>2. QED
    BY <1>1, <1>f, <2>1, IdleTyped, OthersUntouched
<1>3. CASE OpenRun(r)
  <2>1. Finish(r) \/ Goto(r, "enqueue")
    BY <1>3 DEF OpenRun
  <2>2. /\ RowsSame /\ EndsStay /\ SendsOwn
        /\ conns' = conns /\ session' = session /\ engines' = engines
    BY <1>1, <1>3, StatementsSame, SameLinks DEF OpenRun, netVars
  <2>3. QED
    BY <1>1, <1>f, <1>g, <2>1, <2>2, QuietStep DEF PC
<1>4. CASE Enqueue(r)
  <2>1. Goto(r, "pick")
    BY <1>4 DEF Enqueue
  <2>2. /\ RowsSame /\ EndsStay /\ SendsOwn
        /\ conns' = conns /\ session' = session /\ engines' = engines
    BY <1>1, <1>4, StatementsSame, SameLinks DEF Enqueue, netVars
  <2>3. QED
    BY <1>1, <1>g, <2>1, <2>2, QuietStep DEF PC, AssignPC
<1>5. CASE AssignStep(r)
  BY <1>1, <1>5, AssignInv
<1>6. CASE ReadJobs(r)
  <2>1. /\ \A q \in Tasks : q # r => task'[q] = task[q]
        /\ task'[r].pc \notin {"create", "send"}
        /\ task'[r].todo \in {ActiveJobsForMiner(task[r].miner), task[r].todo}
    BY <1>1, <1>6 DEF ReadJobs, TypeOK, TasksOK, Task
  <2>2. \A j \in task'[r].todo : j \in Jobs /\ job[j].st # "none"
    BY <1>2, <2>1 DEF ActiveJobsForMiner, HasJob
  <2>3. /\ RowsSame /\ EndsStay /\ SendsOwn
        /\ conns' = conns /\ session' = session /\ engines' = engines
    BY <1>1, <1>6, StatementsSame, SameLinks DEF ReadJobs, dbVars, netVars
  <2>4. QED
    BY <1>1, <2>1, <2>2, <2>3, QuietStep
<1>7. CASE CancelNext(r)
  <2>1. RowsSame /\ conns' = conns /\ session' = session /\ engines' = engines
    BY <1>1, <1>7, StatementsSame DEF CancelNext, dbVars
  <2>2. CASE Goto(r, "settle") /\ link' = link
    BY <1>1, <1>g, <2>1, <2>2, SameLinks, QuietStep DEF PC
  <2>3. ASSUME NEW j \in task[r].todo,
               task' = [task EXCEPT ![r].pc = "cancelEnd", ![r].job = j, ![r].todo = @ \ {j}],
               IF conns[job[j].worker] = None THEN link' = link
               ELSE Deliver(conns[job[j].worker], Msg("cancel", j))
        PROVE  DispatchInv'
    <3>1. /\ \A q \in Tasks : q # r => task'[q] = task[q]
          /\ task'[r].pc = "cancelEnd" /\ task'[r].todo = task[r].todo \ {j}
      BY <1>1, <2>3 DEF TypeOK, TasksOK, Task
    <3>2. j \in Jobs /\ JobOf(j, job[j].worker) /\ job[j].worker \in Workers
      BY <1>2, ConstantsAssumption DEF JobOf
    <3>3. EndsStay /\ SendsOwn
      <4>1. CASE conns[job[j].worker] = None
        BY <2>3, <4>1, SameLinks
      <4>2. CASE conns[job[j].worker] # None
        <5>1. PICK c \in Conns : /\ c = conns[job[j].worker] /\ link[c].worker = job[j].worker
                                 /\ ~At(c, "idle")
          BY <1>1, <3>2, <4>2 DEF HubEntriesServed, Live, TypeOK, At
        <5>2. Msg("cancel", j) \in Message /\ Msg("cancel", j).job = j
          BY <3>2 DEF Msg, Message
        <5>3. QED
          BY <1>1, <2>3, <3>2, <4>2, <5>1, <5>2, DeliverOwn
      <4>3. QED
        BY <4>1, <4>2
    <3>4. QED
      BY <1>1, <1>2, <2>1, <3>1, <3>3, QuietStep
  <2>4. QED
    BY <1>7, <2>2, <2>3 DEF CancelNext
<1>8. CASE CancelEnd(r)
  <2>1. Goto(r, "closeRun")
    BY <1>8 DEF CancelEnd
  <2>2. /\ RowsSame /\ EndsStay /\ SendsOwn
        /\ conns' = conns /\ session' = session /\ engines' = engines
    BY <1>1, <1>8, StatementsSame, SameLinks DEF CancelEnd, netVars
  <2>3. QED
    BY <1>1, <1>g, <2>1, <2>2, QuietStep DEF PC
<1>9. CASE CloseRun(r)
  <2>1. /\ \A q \in Tasks : q # r => task'[q] = task[q]
        /\ task'[r].pc = "cancelNext" /\ task'[r].todo = task[r].todo
    BY <1>1, <1>9 DEF CloseRun, TypeOK, TasksOK, Task
  <2>2. /\ RowsSame /\ EndsStay /\ SendsOwn
        /\ conns' = conns /\ session' = session /\ engines' = engines
    BY <1>1, <1>9, StatementsSame, SameLinks DEF CloseRun, netVars
  <2>3. QED
    BY <1>1, <1>2, <2>1, <2>2, QuietStep
<1>10. CASE Settle(r)
  <2>1. Finish(r)
    BY <1>10 DEF Settle
  <2>2. /\ RowsSame /\ EndsStay /\ SendsOwn
        /\ conns' = conns /\ session' = session /\ engines' = engines
    BY <1>1, <1>10, StatementsSame, SameLinks DEF Settle, DeleteRows, netVars
  <2>3. QED
    BY <1>1, <1>f, <2>1, <2>2, QuietStep
<1>11. CASE RevokeJobs(r)
  <2>1. Finish(r) \/ Goto(r, "disconnect")
    BY <1>11 DEF RevokeJobs
  <2>2. /\ RowsSame /\ EndsStay /\ SendsOwn
        /\ conns' = conns /\ session' = session /\ engines' = engines
    BY <1>1, <1>11, StatementsSame, SameLinks DEF RevokeJobs, netVars
  <2>3. QED
    BY <1>1, <1>f, <1>g, <2>1, <2>2, QuietStep DEF PC
<1>12. CASE Disconnect(r)
  <2>1. Finish(r) \/ Goto(r, "dropWorker")
    BY <1>12 DEF Disconnect
  <2>2. RowsSame /\ conns' = conns /\ session' = session /\ engines' = engines
    BY <1>1, <1>12, StatementsSame DEF Disconnect, dbVars
  <2>3. \A c \in Conns : link'[c].worker = link[c].worker /\ link'[c].toW = link[c].toW
    BY <1>1, <1>12 DEF Disconnect, TypeOK, Link
  <2>4. EndsStay /\ SendsOwn
    BY <2>3 DEF EndsStay, SendsOwn
  <2>5. QED
    BY <1>1, <1>f, <1>g, <2>1, <2>2, <2>4, QuietStep DEF PC
<1>13. CASE DropWorker(r)
  <2>1. Finish(r)
    BY <1>13 DEF DropWorker
  <2>2. /\ RowsSame /\ EndsStay /\ SendsOwn
        /\ conns' = conns /\ session' = session /\ engines' = engines
    BY <1>1, <1>13, StatementsSame, SameLinks DEF DropWorker, netVars
  <2>3. QED
    BY <1>1, <1>f, <2>1, <2>2, QuietStep
<1>14. QED
  BY <1>3, <1>4, <1>5, <1>6, <1>7, <1>8, <1>9, <1>10, <1>11, <1>12, <1>13 DEF RequestStep

\* What Register, Connect, Unregister and Restart leave of the rows and the choices
LEMMA RowsKept ==
    ASSUME DispatchInv, job' = job PROVE RowsStay /\ NativeOnly' /\ RowsSame
BY InvParts, SameRows, StatementsSame

LEMMA ConnInv ==
    ASSUME DispatchInv, TypeOK', NEW c \in Conns, ConnStep(c)
    PROVE  DispatchInv'
<1>1. /\ TypeOK /\ HubEntriesServed /\ Wired /\ EnginesOwned /\ MessagesOwn
      /\ task[c] \in Task /\ c \in Tasks /\ c \notin Requests
      /\ link[c] \in Link
  BY InvParts, ConstantsAssumption DEF TypeOK, TasksOK, Tasks
<1>2. \A p \in Tasks : ChoiceOwn(p)
  BY InvParts
<1>3. CASE AssignStep(c)
  BY <1>1, <1>3, AssignInv
<1>g. ASSUME NEW pc, pc \notin Unserved \cup {"create", "send"}, task[c].pc \notin Unserved, Goto(c, pc)
      PROVE  /\ \A q \in Tasks : q # c => task'[q] = task[q]
             /\ task'[c].pc \notin Unserved /\ task'[c].pc \notin {"create", "send"}
  BY <1>1, <1>g, GotoOwn
<1>r. ASSUME task' = [task EXCEPT ![c] = Reading]
      PROVE  /\ \A q \in Tasks : q # c => task'[q] = task[q]
             /\ task'[c].pc \notin Unserved /\ task'[c].pc \notin {"create", "send"}
  <2>1. task'[c] = Reading
    BY <1>1, <1>r DEF TypeOK, TasksOK
  <2>2. QED
    BY <1>1, <1>r, <2>1, IdleTyped, OthersUntouched DEF Unserved
<1>4. CASE ReadQueued(c)
  <2> PICK S \in {QueuedMiners, {}} : \E t \in Placing(S) : task' = [task EXCEPT ![c] = t]
    BY <1>4 DEF ReadQueued
  <2>1. PICK t \in Placing(S) : task' = [task EXCEPT ![c] = t]
    OBVIOUS
  <2>2. t.pc \in {"reading", "pick"}
    BY <2>1, PlacingTyped DEF QueuedMiners
  <2>3. /\ \A q \in Tasks : q # c => task'[q] = task[q]
        /\ task'[c].pc \in {"reading", "pick"}
    BY <1>1, <2>1, <2>2 DEF TypeOK, TasksOK
  <2>4. /\ RowsSame /\ EndsStay /\ SendsOwn /\ task[c].pc \notin Unserved
        /\ conns' = conns /\ session' = session /\ engines' = engines
    BY <1>1, <1>4, StatementsSame, SameLinks DEF ReadQueued, At, Unserved, dbVars, netVars
  <2>5. QED
    BY <1>1, <2>3, <2>4, QuietStep DEF Unserved
<1>5. CASE ReceiveAck(c)
  <2>1. /\ RowsSame /\ task[c].pc = "reading"
        /\ conns' = conns /\ session' = session /\ engines' = engines
        /\ link' = [link EXCEPT ![c].toH = Tail(@)]
    BY <1>1, <1>5, StatementsSame DEF ReceiveAck, At, dbVars
  <2>2. \A d \in Conns : link'[d].worker = link[d].worker /\ link'[d].toW = link[d].toW
    BY <1>1, <2>1 DEF TypeOK, Link
  <2>3. /\ \A q \in Tasks : q # c => task'[q] = task[q]
        /\ task'[c].pc \in {"ackJob", "errJob", "reading"}
    <3>1. CASE task' = task
      BY <2>1, <3>1
    <3>2. ASSUME NEW pc \in {"ackJob", "errJob"}, NEW j, NEW m,
                 task' = [task EXCEPT ![c].pc = pc, ![c].job = j, ![c].miner = m]
          PROVE  /\ \A q \in Tasks : q # c => task'[q] = task[q]
                 /\ task'[c].pc = pc
      BY <1>1, <3>2 DEF TypeOK, TasksOK, Task
    <3>3. task' = task \/ \E pc \in {"ackJob", "errJob"} : \E j, m :
             task' = [task EXCEPT ![c].pc = pc, ![c].job = j, ![c].miner = m]
      BY <1>5 DEF ReceiveAck
    <3>4. QED
      BY <3>1, <3>2, <3>3
  <2>4. EndsStay /\ SendsOwn
    BY <2>2 DEF EndsStay, SendsOwn
  <2>5. QED
    BY <1>1, <2>1, <2>3, <2>4, QuietStep DEF Unserved
<1>6. CASE AckJob(c)
  <2>1. /\ RowsSame /\ EndsStay /\ SendsOwn /\ task[c].pc = "ackJob" /\ Goto(c, "ackMiner")
        /\ conns' = conns /\ session' = session /\ engines' = engines
    BY <1>1, <1>6, StatementsSame, SameLinks DEF AckJob, At, netVars
  <2>2. QED
    BY <1>1, <1>g, <2>1, QuietStep DEF Unserved
<1>7. CASE AckMiner(c)
  <2>1. /\ RowsSame /\ EndsStay /\ SendsOwn /\ task[c].pc = "ackMiner"
        /\ task' = [task EXCEPT ![c] = Reading]
        /\ conns' = conns /\ session' = session /\ engines' = engines
    BY <1>1, <1>7, StatementsSame, SameLinks DEF AckMiner, At, netVars
  <2>2. QED
    BY <1>1, <1>r, <2>1, QuietStep DEF Unserved
<1>8. CASE ErrJob(c)
  <2>1. /\ RowsSame /\ EndsStay /\ SendsOwn /\ task[c].pc = "errJob" /\ Goto(c, "errMiner")
        /\ conns' = conns /\ session' = session /\ engines' = engines
    BY <1>1, <1>8, StatementsSame, SameLinks DEF ErrJob, At, netVars
  <2>2. QED
    BY <1>1, <1>g, <2>1, QuietStep DEF Unserved
<1>9. CASE ErrMiner(c)
  <2>1. /\ RowsSame /\ EndsStay /\ SendsOwn /\ task[c].pc = "errMiner"
        /\ task' = [task EXCEPT ![c] = Reading]
        /\ conns' = conns /\ session' = session /\ engines' = engines
    BY <1>1, <1>9, StatementsSame, SameLinks DEF ErrMiner, At, netVars
  <2>2. QED
    BY <1>1, <1>r, <2>1, QuietStep DEF Unserved
\* The two steps that write the maps of the hub
<1>m. ASSUME job' = job, session' = session, engines' = engines,
             \A d \in Conns : link'[d].worker = link[d].worker /\ link'[d].toW = link[d].toW,
             \A q \in Tasks : q # c => task'[q] = task[q],
             task[c].pc # "idle", task'[c].pc \in {"joined", "done"},
             HubEntriesServed'
      PROVE  DispatchInv'
  <2>1. RowsStay /\ NativeOnly' /\ EndsStay /\ SendsOwn
    BY <1>m, RowsKept DEF EndsStay, SendsOwn
  <2>2. \A d \in Conns : d \in Tasks /\ (At(d, "idle") <=> task'[d].pc = "idle")
    BY <1>m DEF Tasks, At
  <2>3. MadeStay
    BY <2>2 DEF MadeStay
  <2>4. MessagesOwn' /\ EnginesOwned'
    BY <1>1, <1>m, <2>1, MessagesStay, EnginesStay
  <2>5. ASSUME NEW q \in Tasks PROVE ChoiceOwn(q)'
    <3>1. CASE q = c
      BY <1>m, <3>1 DEF ChoiceOwn, At
    <3>2. CASE q # c
      BY <1>1, <1>2, <1>m, <2>1, <2>3, <3>2, ChoiceStays
    <3>3. QED
      BY <3>1, <3>2
  <2>6. ASSUME NEW r \in Requests PROVE TodoReal(r)'
    <3>1. task'[r] = task[r] /\ TodoReal(r)
      BY <1>1, <1>m, InvParts DEF Tasks
    <3>2. QED
      BY <1>1, <2>1, <3>1, TodoStays
  <2>7. Wired'
    <3>1. \A d \in Conns : IF task'[d].pc = "idle" THEN link'[d].toW = <<>> ELSE link'[d].worker \in Workers
      BY <1>1, <1>m, <2>2 DEF Wired
    <3>2. \A w \in Workers : session[w] # None =>
             link'[session[w]].worker = w /\ task'[session[w]].pc # "idle"
      BY <1>1, <1>m, <2>2 DEF Wired, TypeOK
    <3>3. QED
      BY <1>m, <3>1, <3>2 DEF Wired, At
  <2>8. Addressed'
    BY <2>1, <2>4, <2>5, <2>6 DEF Addressed, NativeOnly, MessagesOwn, ChoiceOwn, TodoReal
  <2>9. QED
    BY <1>m, <2>4, <2>7, <2>8 DEF DispatchInv
<1>10. CASE Register(c)
  <2>1. /\ job' = job /\ session' = session /\ engines' = engines
        /\ task[c].pc = "accepted" /\ Goto(c, "joined")
        /\ conns' = [conns EXCEPT ![link[c].worker] = c]
    BY <1>10 DEF Register, At, dbVars
  <2>2. \A d \in Conns : link'[d].worker = link[d].worker /\ link'[d].toW = link[d].toW
    BY <1>1, <1>10 DEF Register, TypeOK, Link
  <2>3. /\ \A q \in Tasks : q # c => task'[q] = task[q]
        /\ task'[c].pc = "joined"
    BY <1>1, <2>1, GotoOwn
  <2>4. ASSUME NEW w \in Workers, conns'[w] # None
        PROVE  link'[conns'[w]].worker = w /\ task'[conns'[w]].pc \notin Unserved
    <3>1. CASE w = link[c].worker
      BY <1>1, <2>1, <2>2, <2>3, <3>1 DEF TypeOK, Unserved
    <3>2. CASE w # link[c].worker
      <4>1. conns'[w] = conns[w]
        BY <1>1, <2>1, <3>2 DEF TypeOK
      <4>2. conns[w] \in Conns /\ link[conns[w]].worker = w /\ task[conns[w]].pc \notin Unserved
        BY <1>1, <2>4, <4>1 DEF HubEntriesServed, Live, Unserved, TypeOK
      <4>3. QED
        BY <2>2, <2>3, <4>1, <4>2 DEF Tasks, Unserved
    <3>3. QED
      BY <3>1, <3>2
  <2>5. HubEntriesServed'
    BY <2>4 DEF HubEntriesServed, Live, Unserved
  <2>6. QED
    BY <1>m, <2>1, <2>2, <2>3, <2>5
<1>11. CASE Unregister(c)
  <2>1. /\ job' = job /\ session' = session /\ engines' = engines
        /\ task[c].pc = "reading" /\ Goto(c, "done")
        /\ conns' = [conns EXCEPT ![link[c].worker] = None]
        /\ link' = [link EXCEPT ![c].toH = <<>>]
    BY <1>11 DEF Unregister, At, dbVars
  <2>2. \A d \in Conns : link'[d].worker = link[d].worker /\ link'[d].toW = link[d].toW
    BY <1>1, <2>1 DEF TypeOK, Link
  <2>3. /\ \A q \in Tasks : q # c => task'[q] = task[q]
        /\ task'[c].pc = "done"
    BY <1>1, <2>1, GotoOwn
  <2>4. ASSUME NEW w \in Workers, conns'[w] # None
        PROVE  link'[conns'[w]].worker = w /\ task'[conns'[w]].pc \notin Unserved
    <3>1. w # link[c].worker /\ conns'[w] = conns[w]
      BY <1>1, <2>1, <2>4 DEF TypeOK
    <3>2. conns[w] \in Conns /\ link[conns[w]].worker = w /\ task[conns[w]].pc \notin Unserved
      BY <1>1, <2>4, <3>1 DEF HubEntriesServed, Live, Unserved, TypeOK
    <3>3. conns[w] # c
      BY <3>1, <3>2
    <3>4. QED
      BY <2>2, <2>3, <3>1, <3>2, <3>3 DEF Tasks
  <2>5. HubEntriesServed'
    BY <2>4 DEF HubEntriesServed, Live, Unserved
  <2>6. QED
    BY <1>m, <2>1, <2>2, <2>3, <2>5
<1>12. QED
  BY <1>3, <1>4, <1>5, <1>6, <1>7, <1>8, <1>9, <1>10, <1>11 DEF ConnStep

\* Steps that no goroutine of the master takes
LEMMA OutsideInv ==
    ASSUME DispatchInv, TypeOK', task' = task, conns' = conns, RowsSame, EndsStay, SendsOwn,
           session' = session, engines' = engines
    PROVE  DispatchInv'
<1>1. /\ TypeOK /\ Wired /\ HubEntriesServed /\ MessagesOwn /\ EnginesOwned
      /\ (\A p \in Tasks : ChoiceOwn(p)) /\ \A r \in Requests : TodoReal(r)
  BY InvParts
<1>2. RowsStay /\ NativeOnly' /\ MadeStay
  BY SameRows, InvParts DEF MadeStay, At
<1>3. MessagesOwn' /\ EnginesOwned'
  BY <1>1, <1>2, MessagesStay, EnginesStay
<1>4. \A p \in Tasks : ChoiceOwn(p)'
  BY <1>1, <1>2, ChoiceStays
<1>5. \A r \in Requests : TodoReal(r)'
  BY <1>1, <1>2, TodoStays
<1>6. Wired' /\ HubEntriesServed'
  <2>1. ASSUME NEW c \in Conns
        PROVE  IF task[c].pc = "idle" THEN link'[c].toW = <<>> ELSE link'[c].worker \in Workers
    BY <1>1 DEF Wired, At, EndsStay
  <2>2. ASSUME NEW w \in Workers, session[w] # None
        PROVE  link'[session[w]].worker = w /\ task[session[w]].pc # "idle"
    BY <1>1, <2>2 DEF Wired, At, EndsStay, TypeOK
  <2>3. ASSUME NEW w \in Workers, conns[w] # None
        PROVE  link'[conns[w]].worker = w /\ task[conns[w]].pc \notin Unserved
    BY <1>1, <2>3 DEF HubEntriesServed, Live, EndsStay, TypeOK, Unserved
  <2>4. QED
    BY <2>1, <2>2, <2>3 DEF Wired, At, HubEntriesServed, Live, Unserved
<1>7. QED
  BY <1>2, <1>3, <1>4, <1>5, <1>6 DEF DispatchInv, Addressed, NativeOnly, MessagesOwn, ChoiceOwn, TodoReal

\* A worker takes messages off its own connection: its engines run its own jobs.
LEMMA WorkerInv ==
    ASSUME DispatchInv, TypeOK', NEW w \in Workers, WorkerStep(w)
    PROVE  DispatchInv'
<1>1. /\ TypeOK /\ Wired /\ HubEntriesServed /\ MessagesOwn /\ EnginesOwned
      /\ (\A p \in Tasks : ChoiceOwn(p)) /\ (\A r \in Requests : TodoReal(r))
  BY InvParts
<1>2. /\ job' = job /\ task' = task /\ conns' = conns /\ session[w] # None
  BY DEF WorkerStep, WorkerAssign, WorkerCancel, SessionEnd, dbVars
<1>3. PICK c \in Conns : c = session[w] /\ link[c].worker = w /\ ~At(c, "idle") /\ link[c] \in Link
  BY <1>1, <1>2 DEF Wired, TypeOK
<1>4. RowsStay /\ NativeOnly' /\ MadeStay
  BY <1>2, RowsKept DEF MadeStay, At
<1>5. EndsStay /\ SendsOwn
  <2>1. PICK s \in Seq(Message) : s = link[c].toW
    BY <1>3 DEF Link
  <2>2. /\ \A d \in Conns : d # c => link'[d] = link[d]
        /\ link'[c].worker = link[c].worker
        /\ link'[c].toW = <<>> \/ (s # <<>> /\ link'[c].toW = Tail(s))
    BY <1>1, <1>3, <2>1 DEF WorkerStep, WorkerAssign, WorkerCancel, SessionEnd, Take, TakeAndAnswer, TypeOK, Link
  <2>3. \A i \in 1..Len(link'[c].toW) : \E k \in 1..Len(s) : link'[c].toW[i] = s[k]
    <3>1. \A i \in 1..Len(<<>>) : FALSE
      OBVIOUS
    <3>2. ASSUME s # <<>> PROVE \A i \in 1..Len(Tail(s)) : \E k \in 1..Len(s) : Tail(s)[i] = s[k]
      <4> SUFFICES ASSUME NEW i \in 1..Len(Tail(s)) PROVE \E k \in 1..Len(s) : Tail(s)[i] = s[k]
        OBVIOUS
      <4>1. Len(Tail(s)) = Len(s) - 1 /\ Len(s) \in Nat /\ i + 1 \in 1..Len(s) /\ Tail(s)[i] = s[i + 1]
        BY <3>2
      <4>2. QED
        BY <4>1
    <3>3. QED
      BY <2>2, <3>1, <3>2
  <2>4. QED
    BY <1>3, <2>1, <2>2, <2>3 DEF EndsStay, SendsOwn
<1>6. MessagesOwn' /\ (\A p \in Tasks : ChoiceOwn(p)') /\ \A r \in Requests : TodoReal(r)'
  BY <1>1, <1>2, <1>4, <1>5, MessagesStay, ChoiceStays, TodoStays
<1>7. /\ session' = session \/ session' = [session EXCEPT ![w] = None]
      /\ \A v \in Workers : v # w => engines'[v] = engines[v] /\ session'[v] = session[v]
      /\ engines'[w] # {} => session'[w] # None
      /\ \A j \in engines'[w] : j \in engines[w] \/ (link[c].toW # <<>> /\ j = Head(link[c].toW).job)
  BY <1>1, <1>2, <1>3 DEF WorkerStep, WorkerAssign, WorkerCancel, SessionEnd, TypeOK
<1>8. EnginesOwned'
  <2>1. ASSUME NEW j \in engines'[w] PROVE job'[j].worker = w /\ job'[j].st # "none"
    <3>1. CASE j \in engines[w]
      BY <1>1, <1>2, <3>1 DEF EnginesOwned
    <3>2. CASE link[c].toW # <<>> /\ j = Head(link[c].toW).job
      <4>1. PICK s \in Seq(Message) : s = link[c].toW /\ s # <<>>
        BY <1>3, <3>2 DEF Link
      <4>2. 1 \in 1..Len(s) /\ Head(s) = s[1]
        BY <4>1
      <4>3. JobOf(j, w)
        BY <1>1, <1>3, <3>2, <4>1, <4>2 DEF MessagesOwn
      <4>4. QED
        BY <1>2, <4>3 DEF JobOf
    <3>3. QED
      BY <1>7, <2>1, <3>1, <3>2
  <2>2. QED
    BY <1>1, <1>2, <1>7, <2>1 DEF EnginesOwned
<1>9. Wired' /\ HubEntriesServed'
  <2>1. ASSUME NEW d \in Conns
        PROVE  IF task[d].pc = "idle" THEN link'[d].toW = <<>> ELSE link'[d].worker \in Workers
    BY <1>1, <1>5 DEF Wired, At, EndsStay
  <2>2. ASSUME NEW v \in Workers, session'[v] # None
        PROVE  link'[session'[v]].worker = v /\ task[session'[v]].pc # "idle"
    <3>1. session'[v] = session[v] /\ session[v] \in Conns
      BY <1>1, <1>7, <2>2 DEF TypeOK
    <3>2. QED
      BY <1>1, <1>5, <2>2, <3>1 DEF Wired, At, EndsStay
  <2>3. ASSUME NEW v \in Workers, conns[v] # None
        PROVE  link'[conns[v]].worker = v /\ task[conns[v]].pc \notin Unserved
    BY <1>1, <1>5, <2>3 DEF HubEntriesServed, Live, EndsStay, TypeOK, Unserved
  <2>4. QED
    BY <1>2, <2>1, <2>2, <2>3 DEF Wired, At, HubEntriesServed, Live, Unserved
<1>10. QED
  BY <1>4, <1>6, <1>8, <1>9 DEF DispatchInv, Addressed, NativeOnly, MessagesOwn, ChoiceOwn, TodoReal

LEMMA ConnectInv ==
    ASSUME DispatchInv, TypeOK', NEW w \in Workers, NEW c \in Conns, Connect(w, c)
    PROVE  DispatchInv'
<1>1. /\ TypeOK /\ Wired /\ HubEntriesServed /\ MessagesOwn /\ EnginesOwned
      /\ (\A p \in Tasks : ChoiceOwn(p)) /\ (\A r \in Requests : TodoReal(r))
      /\ c \in Tasks /\ c \notin Requests /\ link[c] \in Link
  BY InvParts, ConstantsAssumption DEF TypeOK, Tasks
<1>2. /\ session[w] = None /\ task[c].pc = "idle" /\ Goto(c, "accepted")
      /\ session' = [session EXCEPT ![w] = c]
      /\ link' = [link EXCEPT ![c].worker = w, ![c].up = TRUE]
      /\ job' = job /\ conns' = conns /\ engines' = engines
  BY DEF Connect, At, dbVars
<1>3. /\ \A q \in Tasks : q # c => task'[q] = task[q]
      /\ task'[c].pc = "accepted"
  BY <1>1, <1>2, GotoOwn
<1>4. /\ \A d \in Conns : d # c => link'[d] = link[d]
      /\ link'[c].worker = w /\ link'[c].toW = <<>>
  <2>1. link[c].toW = <<>>
    BY <1>1, <1>2 DEF Wired, At
  <2>2. QED
    BY <1>1, <1>2, <2>1 DEF TypeOK, Link
<1>5. RowsStay /\ NativeOnly'
  BY <1>2, RowsKept
<1>6. MessagesOwn'
  <2> SUFFICES ASSUME NEW d \in Conns, NEW i \in 1..Len(link'[d].toW)
               PROVE  job'[link'[d].toW[i].job].st # "none" /\ job'[link'[d].toW[i].job].worker = link'[d].worker
    BY DEF MessagesOwn, JobOf
  <2>1. d # c
    BY <1>4
  <2>2. link'[d] = link[d]
    BY <1>4, <2>1
  <2>3. JobOf(link[d].toW[i].job, link[d].worker)
    BY <1>1, <2>2 DEF MessagesOwn
  <2>4. QED
    BY <1>2, <2>2, <2>3 DEF JobOf
<1>7. ASSUME NEW p \in Tasks PROVE ChoiceOwn(p)'
  <2>1. CASE p = c
    BY <1>3, <2>1 DEF ChoiceOwn, At
  <2>2. CASE p # c
    <3>1. task'[p] = task[p]
      BY <1>3, <2>2
    <3>2. ASSUME task[p].pc \in {"create", "send"}
          PROVE  /\ task[p].wk \in Native /\ task[p].tc \in Conns
                 /\ task'[task[p].tc].pc # "idle" /\ link'[task[p].tc].worker = task[p].wk
      <4>1. PICK d \in Conns : d = task[p].tc /\ task[d].pc # "idle" /\ link[d].worker = task[p].wk
        BY <1>1, <3>2 DEF ChoiceOwn, At
      <4>2. d # c
        BY <1>2, <4>1
      <4>3. task'[d] = task[d] /\ link'[d] = link[d]
        BY <1>3, <1>4, <4>2 DEF Tasks
      <4>4. QED
        BY <1>1, <3>2, <4>1, <4>3 DEF ChoiceOwn
    <3>3. task[p].pc = "send" => job'[task[p].job].st # "none" /\ job'[task[p].job].worker = task[p].wk
      BY <1>1, <1>2 DEF ChoiceOwn, At, JobOf
    <3>4. QED
      BY <3>1, <3>2, <3>3 DEF ChoiceOwn, At, JobOf
  <2>3. QED
    BY <2>1, <2>2
<1>8. \A r \in Requests : TodoReal(r)'
  <2> SUFFICES ASSUME NEW r \in Requests PROVE TodoReal(r)'
    OBVIOUS
  <2>1. task'[r] = task[r]
    BY <1>1, <1>3 DEF Tasks
  <2>2. QED
    BY <1>1, <1>5, <2>1, TodoStays
<1>9. Wired' /\ HubEntriesServed' /\ EnginesOwned'
  <2>1. ASSUME NEW d \in Conns
        PROVE  IF task'[d].pc = "idle" THEN link'[d].toW = <<>> ELSE link'[d].worker \in Workers
    <3>1. CASE d = c
      BY <1>3, <1>4, <3>1
    <3>2. CASE d # c
      BY <1>1, <1>3, <1>4, <3>2 DEF Wired, At, Tasks
    <3>3. QED
      BY <3>1, <3>2
  <2>2. ASSUME NEW v \in Workers, session'[v] # None
        PROVE  link'[session'[v]].worker = v /\ task'[session'[v]].pc # "idle"
    <3>1. CASE v = w
      BY <1>1, <1>2, <1>3, <1>4, <3>1 DEF TypeOK
    <3>2. CASE v # w
      <4>1. PICK d \in Conns : d = session[v] /\ session'[v] = d /\ link[d].worker = v /\ task[d].pc # "idle"
        BY <1>1, <1>2, <2>2, <3>2 DEF Wired, At, TypeOK
      <4>2. d # c
        BY <1>2, <4>1
      <4>3. QED
        BY <1>3, <1>4, <4>1, <4>2 DEF Tasks
    <3>3. QED
      BY <3>1, <3>2
  <2>3. ASSUME NEW v \in Workers, conns[v] # None
        PROVE  link'[conns[v]].worker = v /\ task'[conns[v]].pc \notin Unserved
    <3>1. PICK d \in Conns : d = conns[v] /\ link[d].worker = v /\ task[d].pc \notin Unserved
      BY <1>1, <2>3 DEF HubEntriesServed, Live, Unserved, TypeOK
    <3>2. d # c
      BY <1>2, <3>1 DEF Unserved
    <3>3. QED
      BY <1>3, <1>4, <3>1, <3>2 DEF Tasks
  <2>4. EnginesOwned'
    <3>1. \A v \in Workers : session[v] # None => session'[v] # None
      BY <1>1, <1>2, ConstantsAssumption DEF TypeOK
    <3>2. QED
      BY <1>1, <1>2, <3>1 DEF EnginesOwned
  <2>5. QED
    BY <1>2, <2>1, <2>2, <2>3, <2>4 DEF Wired, At, HubEntriesServed, Live, Unserved
<1>10. QED
  BY <1>5, <1>6, <1>7, <1>8, <1>9 DEF DispatchInv, Addressed, NativeOnly, MessagesOwn, ChoiceOwn, TodoReal

LEMMA RequestBeginsInv ==
    ASSUME DispatchInv, TypeOK', NEW r \in Requests, RequestBegins(r)
    PROVE  DispatchInv'
<1>1. TypeOK /\ r \in Tasks /\ r \notin Conns
  BY InvParts, ConstantsAssumption DEF Tasks
<1>2. PICK op, pc, m, w : Begin(r, op, pc, m, w) /\ pc \notin {"create", "send"}
  BY DEF RequestBegins, Start, Stop, Delete, Revoke, DeleteWorker
<1>3. /\ \A q \in Tasks : q # r => task'[q] = task[q]
      /\ task'[r].pc = pc /\ task'[r].todo = {}
  <2>1. task' = [task EXCEPT ![r] = [IdleTask EXCEPT !.op = op, !.pc = pc, !.miner = m, !.wk = w]]
    BY <1>2 DEF Begin
  <2>2. QED
    BY <1>1, <2>1 DEF TypeOK, TasksOK, IdleTask
<1>4. job' = job /\ conns' = conns /\ link' = link /\ session' = session /\ engines' = engines
  BY DEF RequestBegins, Start, Stop, Delete, Revoke, DeleteWorker, dbVars, netVars
<1>5. QED
  BY <1>1, <1>2, <1>3, <1>4, RowsKept, SameLinks, QuietStep

LEMMA AbortInv ==
    ASSUME DispatchInv, TypeOK', NEW r \in Requests, Abort(r)
    PROVE  DispatchInv'
<1>1. TypeOK /\ r \in Tasks /\ r \notin Conns /\ ChoiceOwn(r) /\ TodoReal(r)
  BY InvParts, ConstantsAssumption DEF Tasks
<1>2. /\ \A q \in Tasks : q # r => task'[q] = task[q]
      /\ task'[r].pc = task[r].pc /\ task'[r].todo = task[r].todo /\ task'[r].wk = task[r].wk
      /\ task'[r].tc = task[r].tc /\ task'[r].job = task[r].job
  BY <1>1 DEF Abort, TypeOK, TasksOK, Task
<1>3. job' = job /\ conns' = conns /\ link' = link /\ session' = session /\ engines' = engines
  BY DEF Abort, dbVars
<1>4. TodoReal(r)'
  BY <1>1, <1>2, <1>3 DEF TodoReal
<1>5. ChoiceOwn(r)'
  <2>1. task[r].pc \in {"create", "send"} =>
           task[r].tc \in Conns /\ task'[task[r].tc] = task[task[r].tc]
    BY <1>1, <1>2 DEF ChoiceOwn, Tasks
  <2>2. QED
    BY <1>1, <1>2, <1>3, <2>1 DEF ChoiceOwn, At, JobOf
<1>6. QED
  BY <1>1, <1>2, <1>3, <1>4, <1>5, RowsKept, SameLinks, GoroutineStep

\* After a restart no goroutine and no entry of the hub is left; what is in flight to the
\* workers is still about their own jobs.
LEMMA RestartInv ==
    ASSUME DispatchInv, TypeOK', Restart
    PROVE  DispatchInv'
<1>1. /\ TypeOK /\ Wired /\ MessagesOwn /\ EnginesOwned
  BY InvParts
<1>2. job' = job /\ session' = session /\ engines' = engines /\ \A w \in Workers : conns'[w] = None
  BY DEF Restart, dbVars
<1>3. \A c \in Conns : link'[c].worker = link[c].worker /\ link'[c].toW = link[c].toW
  BY <1>1 DEF Restart, TypeOK, Link
<1>4. ASSUME NEW p \in Tasks
      PROVE  task'[p].pc \in {"idle", "done"} /\ task'[p].todo = {}
             /\ (p \in Conns => (task'[p].pc = "idle" <=> task[p].pc = "idle"))
  BY IdleTyped DEF Restart, At, IdleTask
<1>5. RowsStay /\ NativeOnly' /\ EndsStay /\ SendsOwn
  BY <1>2, <1>3, RowsKept DEF EndsStay, SendsOwn
<1>6. MessagesOwn' /\ EnginesOwned'
  BY <1>1, <1>2, <1>5, MessagesStay, EnginesStay
<1>7. (\A p \in Tasks : ChoiceOwn(p)') /\ \A r \in Requests : TodoReal(r)'
  BY <1>4 DEF ChoiceOwn, At, TodoReal, Tasks
<1>8. HubEntriesServed'
  BY <1>2 DEF HubEntriesServed, Live
<1>9. Wired'
  <2>1. \A c \in Conns : IF task'[c].pc = "idle" THEN link'[c].toW = <<>> ELSE link'[c].worker \in Workers
    BY <1>1, <1>3, <1>4 DEF Wired, At, Tasks
  <2>2. ASSUME NEW w \in Workers, session[w] # None
        PROVE  link'[session[w]].worker = w /\ task'[session[w]].pc # "idle"
    <3>1. PICK c \in Conns : c = session[w] /\ link[c].worker = w /\ task[c].pc # "idle"
      BY <1>1, <2>2 DEF Wired, At, TypeOK
    <3>2. QED
      BY <1>3, <1>4, <3>1 DEF Tasks
  <2>3. QED
    BY <1>2, <2>1, <2>2 DEF Wired, At
<1>10. QED
  BY <1>5, <1>6, <1>7, <1>8, <1>9 DEF DispatchInv, Addressed, NativeOnly, MessagesOwn, ChoiceOwn, TodoReal

LEMMA InitInv == Init => DispatchInv
<1> SUFFICES ASSUME Init PROVE DispatchInv
  OBVIOUS
<1>1. TypeOK /\ \A p \in Tasks : task[p].pc = "idle" /\ task[p].todo = {}
  BY InitTyped, IdleTyped DEF Init
<1>2. NativeOnly /\ MessagesOwn
  BY DEF Init, NativeOnly, MessagesOwn
<1>3. (\A p \in Tasks : ChoiceOwn(p)) /\ \A r \in Requests : TodoReal(r)
  BY <1>1 DEF ChoiceOwn, At, TodoReal, Tasks
<1>4. Wired /\ HubEntriesServed /\ EnginesOwned
  BY <1>1 DEF Init, Wired, At, Tasks, HubEntriesServed, Live, EnginesOwned
<1>5. QED
  BY <1>1, <1>2, <1>3, <1>4, AddressedParts DEF DispatchInv

LEMMA NextInv == DispatchInv /\ [Next]_vars => DispatchInv'
<1> SUFFICES ASSUME DispatchInv, [Next]_vars PROVE DispatchInv'
  OBVIOUS
<1>1. TypeOK /\ TypeOK'
  BY InvParts, NextTyped
\* Steps that change neither rows nor connections nor goroutines
<1>2. ASSUME job' = job, task' = task, conns' = conns, session' = session, engines' = engines,
             \A c \in Conns : link'[c].worker = link[c].worker /\ link'[c].toW = link[c].toW
      PROVE  DispatchInv'
  BY <1>1, <1>2, RowsKept, OutsideInv DEF EndsStay, SendsOwn
<1>3. ASSUME NEW m \in Miners, CreateMiner(m) PROVE DispatchInv'
  BY <1>2, <1>3 DEF CreateMiner, netVars
<1>4. ASSUME NEW w \in Workers, EnrollWorker(w) PROVE DispatchInv'
  BY <1>2, <1>4 DEF EnrollWorker, netVars
<1>5. ASSUME NEW w \in Workers, WorkerStep(w) PROVE DispatchInv'
  BY <1>1, <1>5, WorkerInv
<1>6. ASSUME NEW w \in Workers, NEW c \in Conns, Connect(w, c) PROVE DispatchInv'
  BY <1>1, <1>6, ConnectInv
<1>7. ASSUME NEW c \in Conns, ConnStep(c) PROVE DispatchInv'
  BY <1>1, <1>7, ConnInv
<1>8. ASSUME NEW c \in Conns, Cut(c) PROVE DispatchInv'
  <2>1. \A d \in Conns : link'[d].worker = link[d].worker /\ link'[d].toW = link[d].toW
    BY <1>1, <1>8 DEF Cut, TypeOK, Link
  <2>2. QED
    BY <1>2, <1>8, <2>1 DEF Cut, dbVars
<1>9. ASSUME NEW r \in Requests, RequestBegins(r) PROVE DispatchInv'
  BY <1>1, <1>9, RequestBeginsInv
<1>10. ASSUME NEW r \in Requests, RequestStep(r) PROVE DispatchInv'
  BY <1>1, <1>10, RequestInv
<1>11. ASSUME NEW r \in Requests, Abort(r) PROVE DispatchInv'
  BY <1>1, <1>11, AbortInv
<1>12. CASE Restart
  BY <1>1, <1>12, RestartInv
<1>13. CASE UNCHANGED vars
  BY <1>2, <1>13 DEF vars, dbVars, netVars
<1>14. QED
  BY <1>3, <1>4, <1>5, <1>6, <1>7, <1>8, <1>9, <1>10, <1>11, <1>12, <1>13 DEF Next

-----------------------------------------------------------------------------
(* Theorems *)

\* Rows, work lists, messages in flight, entries of the hub, sessions and engines agree on
\* which worker a job and a connection belong to, through reconnects, dropped requests
\* and restarts.
THEOREM Agreement == Spec => []DispatchInv
BY InitInv, NextInv, PTL DEF Spec

\* Assign skips browser workers: every row of swarm_jobs is of a native one.
THEOREM OnlyNative == Spec => []NativeOnly
<1>1. DispatchInv => NativeOnly
  BY InvParts
<1>2. QED
  BY <1>1, Agreement, PTL

\* register and unregister keep the maps of the hub to connections that a HandleWS of the
\* same worker serves, however connections of a worker replace each other.
THEOREM EntriesServed == Spec => []HubEntriesServed
<1>1. DispatchInv => HubEntriesServed
  BY InvParts
<1>2. QED
  BY <1>1, Agreement, PTL

\* A worker runs an engine only inside a session, and for a job that Assign created for
\* this worker: a job.assign never reaches the connection of another one.
THEOREM EnginesAreOwn == Spec => []EnginesOwned
<1>1. DispatchInv => EnginesOwned
  BY InvParts
<1>2. QED
  BY <1>1, Agreement, PTL

=============================================================================
