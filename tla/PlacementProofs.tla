---------------------------- MODULE PlacementProofs ----------------------------
(***************************************************************************)
(* What happens to a miner, for any number of concurrent requests,         *)
(* connections, cuts and restarts: a queued one is not forgotten as long   *)
(* as every statement of a request succeeds (NoLostMiner of Dispatch);     *)
(* whatever fails, one that runs had an engine started for it              *)
(* (RunningWasAcked), and a job with an engine is no error                 *)
(* (FailedNeverRan).                                                       *)
(***************************************************************************)
EXTENDS DispatchProofs

\* Goroutine p will look at the live workers on behalf of miner m.
Promises(p, m) ==
    \/ At(p, "pick") /\ task[p].miner = m
    \/ p \in Conns /\ (At(p, "joined") \/ (task[p].pc \in AssignPC /\ m \in task[p].todo))

LEMMA WillPlaceByTask ==
    ASSUME NEW m PROVE WillPlace(m) <=> \E p \in Tasks : Promises(p, m)
BY DEF WillPlace, Promises, Tasks

\* A step of one goroutine p: every miner it leaves waiting is either promised
\* by p afterwards, or was waiting before and promised by another goroutine.
LEMMA StepOfTask ==
    ASSUME NoLostMiner, NEW p \in Tasks,
           \A q \in Tasks : q # p => task'[q] = task[q],
           \A m \in Miners, w \in Native :
              miner'[m] = "queued" /\ ~tried'[m] /\ w \in Live' =>
                \/ Promises(p, m)'
                \/ w \in Live /\ miner[m] = "queued" /\ ~tried[m] /\ ~Promises(p, m)
    PROVE  NoLostMiner'
<1> SUFFICES ASSUME NEW m \in Miners, NEW w \in Live' \cap Native,
                    miner'[m] = "queued", ~tried'[m]
             PROVE  \E q \in Tasks : Promises(q, m)'
  BY WillPlaceByTask DEF NoLostMiner, WillPlace, Promises, Tasks
<1>1. CASE Promises(p, m)'
  BY <1>1
<1>2. CASE w \in Live /\ miner[m] = "queued" /\ ~tried[m] /\ ~Promises(p, m)
  <2>1. PICK q \in Tasks : Promises(q, m)
    BY <1>2, WillPlaceByTask DEF NoLostMiner
  <2>2. q # p
    BY <1>2, <2>1
  <2>3. Promises(q, m)'
    BY <2>1, <2>2 DEF Promises, At
  <2>4. QED
    BY <2>3
<1>3. QED
  BY <1>1, <1>2

\* A step of a goroutine that promised nothing and makes no miner wait.
LEMMA StepElsewhere ==
    ASSUME NoLostMiner, NEW p \in Tasks,
           \A q \in Tasks : q # p => task'[q] = task[q],
           task[p].pc \notin AssignPC \cup {"joined"},
           tried' = tried,
           \A m \in Miners : miner'[m] = "queued" => miner[m] = "queued",
           \A w \in Native : w \in Live' => w \in Live
    PROVE  NoLostMiner'
<1>1. \A m : ~Promises(p, m)
  BY DEF Promises, At, AssignPC
<1>2. QED
  BY <1>1, StepOfTask

\* A step that no goroutine of the master takes.
LEMMA StepOutside ==
    ASSUME NoLostMiner, task' = task, tried' = tried, conns' = conns,
           \A m \in Miners : miner'[m] = "queued" => miner[m] = "queued"
    PROVE  NoLostMiner'
<1> SUFFICES ASSUME NEW m \in Miners, NEW w \in Live' \cap Native,
                    miner'[m] = "queued", ~tried'[m]
             PROVE  WillPlace(m)'
  BY DEF NoLostMiner
<1>1. WillPlace(m)
  BY DEF NoLostMiner, Live
<1>2. QED
  BY <1>1 DEF WillPlace, At

\* After Assign returns, AssignQueued still promises what was left to place.
LEMMA ReturnPromises ==
    ASSUME TypeOK, NEW p \in Tasks, AssignReturns(p), task[p].pc \in AssignPC,
           NEW m \in Miners, Promises(p, m), ~(At(p, "pick") /\ task[p].miner = m)
    PROVE  Promises(p, m)'
<1>1. p \in Conns /\ m \in task[p].todo
  BY DEF Promises, At, AssignPC
<1>2. PICK t \in Placing(task[p].todo) : task' = [task EXCEPT ![p] = t]
  BY <1>1 DEF AssignReturns
<1>3. task[p].todo \in SUBSET Miners
  BY <1>1 DEF TypeOK, TasksOK
<1>4. m \in t.todo \/ (t.pc = "pick" /\ t.miner = m)
  <2>1. \A S \in SUBSET Miners : \A u \in Placing(S) : \A x \in S :
           x \in u.todo \/ (u.pc = "pick" /\ u.miner = x)
    BY PlacingTyped
  <2>2. QED
    BY <1>1, <1>2, <1>3, <2>1
<1>5. t.pc = "pick"
  BY <1>2, <1>3, <1>4, PlacingTyped
<1>6. task'[p] = t
  BY <1>2 DEF TypeOK, TasksOK
<1>7. QED
  BY <1>1, <1>4, <1>5, <1>6 DEF Promises, At, AssignPC
-----------------------------------------------------------------------------
LEMMA PickPlaces ==
    ASSUME TypeOK, NoLostMiner, NEW p \in Tasks, Outcomes(p) = {TRUE}, PickWorker(p)
    PROVE  NoLostMiner'
<1>1. /\ At(p, "pick") /\ miner' = miner /\ conns' = conns
      /\ task[p].pc \in AssignPC
  BY DEF PickWorker, At, AssignPC, netVars
<1>2. Live' = Live
  BY <1>1 DEF Live
<1>3. CASE Candidates(p, TRUE) = {} /\ AssignReturns(p) /\ tried' = tried
  <2>1. ASSUME NEW m \in Miners, NEW w \in Live \cap Native, miner[m] = "queued"
        PROVE  task[p].miner # m
    BY <1>3, <2>1 DEF Candidates, HasMiner
  <2>2. ASSUME NEW m \in Miners, NEW w \in Native,
               miner'[m] = "queued" /\ ~tried'[m] /\ w \in Live'
        PROVE  Promises(p, m)' \/ (w \in Live /\ miner[m] = "queued" /\ ~tried[m] /\ ~Promises(p, m))
    BY <1>1, <1>2, <1>3, <2>1, <2>2, ReturnPromises
  <2>3. QED
    BY <1>3, <2>2, OthersUntouched, StepOfTask
<1>4. ASSUME NEW v \in Candidates(p, TRUE),
             task' = [task EXCEPT ![p].pc = "create", ![p].wk = v, ![p].tc = conns[v]],
             tried' = [tried EXCEPT ![task[p].miner] = TRUE]
      PROVE  NoLostMiner'
  <2>1. \A q \in Tasks : q # p => task'[q] = task[q]
    BY <1>4 DEF TypeOK, TasksOK
  <2>2. task[p] \in Task
    BY DEF TypeOK, TasksOK
  <2>3. task'[p].pc = "create" /\ task'[p].todo = task[p].todo
    BY <1>4, <2>2 DEF TypeOK, TasksOK, Task
  <2>4. \A m \in Miners : ~tried'[m] => ~tried[m] /\ m # task[p].miner
    BY <1>4 DEF TypeOK
  <2>5. \A m \in Miners : m # task[p].miner /\ Promises(p, m) => Promises(p, m)'
    BY <1>1, <2>3 DEF Promises, At, AssignPC
  <2>6. QED
    BY <1>1, <1>2, <2>1, <2>4, <2>5, StepOfTask
<1>5. QED
  BY <1>3, <1>4 DEF PickWorker

LEMMA AssignPlaces ==
    ASSUME TypeOK, NoLostMiner, NEW p \in Tasks, Outcomes(p) = {TRUE}, AssignStep(p)
    PROVE  NoLostMiner'
<1>1. CASE PickWorker(p)
  BY <1>1, PickPlaces
<1>2. ASSUME task[p].pc \in AssignPC, task[p].pc # "pick", miner' = miner, conns' = conns,
             tried' = tried,
             \/ AssignReturns(p)
             \/ /\ \A q \in Tasks : q # p => task'[q] = task[q]
                /\ task'[p].pc \in AssignPC /\ task'[p].todo = task[p].todo
      PROVE  NoLostMiner'
  <2>1. Live' = Live
    BY <1>2 DEF Live
  <2>2. \A m \in Miners : Promises(p, m) => Promises(p, m)'
    <3>1. CASE AssignReturns(p)
      BY <1>2, <3>1, ReturnPromises DEF At
    <3>2. CASE task'[p].pc \in AssignPC /\ task'[p].todo = task[p].todo
      BY <1>2, <3>2 DEF Promises, At, AssignPC
    <3>3. QED
      BY <1>2, <3>1, <3>2
  <2>3. QED
    BY <1>2, <2>1, <2>2, OthersUntouched, StepOfTask
<1>t. task \in [Tasks -> Task] /\ task[p] \in Task
  BY DEF TypeOK, TasksOK
<1>3. CASE CreateJob(p)
  <2>1. ASSUME NEW j \in Jobs, task' = [task EXCEPT ![p].pc = "send", ![p].job = j]
        PROVE  /\ \A q \in Tasks : q # p => task'[q] = task[q]
               /\ task'[p].pc \in AssignPC /\ task'[p].todo = task[p].todo
    BY <1>t, <2>1 DEF Task, AssignPC
  <2>2. QED
    BY <1>2, <1>3, <2>1 DEF CreateJob, At, AssignPC
<1>4. CASE SendAssign(p)
  <2>1. ASSUME Goto(p, "jobErr")
        PROVE  /\ \A q \in Tasks : q # p => task'[q] = task[q]
               /\ task'[p].pc \in AssignPC /\ task'[p].todo = task[p].todo
    BY <1>t, <2>1 DEF Goto, Task, AssignPC
  <2>2. QED
    BY <1>2, <1>4, <2>1 DEF SendAssign, At, AssignPC, dbVars
<1>5. CASE AssignFailed(p)
  BY <1>2, <1>5 DEF AssignFailed, At, AssignPC
<1>6. QED
  BY <1>1, <1>3, <1>4, <1>5 DEF AssignStep

LEMMA ConnPlaces ==
    ASSUME TypeOK, NoLostMiner, NEW c \in Conns, Outcomes(c) = {TRUE}, ConnStep(c)
    PROVE  NoLostMiner'
<1> c \in Tasks
  BY DEF Tasks
<1>1. CASE Register(c)
  <2>1. task'[c].pc = "joined"
    BY <1>1 DEF Register, Goto, TypeOK, TasksOK
  <2>2. \A m : Promises(c, m)'
    BY <2>1 DEF Promises, At
  <2>3. QED
    BY <1>1, <2>2, OthersUntouched, StepOfTask DEF Register
<1>2. CASE ReadQueued(c)
  <2>1. PICK t \in Placing(QueuedMiners) : task' = [task EXCEPT ![c] = t]
    <3>1. \E t \in Placing(IF TRUE THEN QueuedMiners ELSE {}) : task' = [task EXCEPT ![c] = t]
      BY <1>2 DEF ReadQueued
    <3>2. QED
      BY <3>1
  <2>2. task'[c] = t
    BY <2>1 DEF TypeOK, TasksOK
  <2>3. QueuedMiners \in SUBSET Miners
    BY DEF QueuedMiners
  <2>4. /\ \A m \in QueuedMiners : m \in t.todo \/ (t.pc = "pick" /\ t.miner = m)
        /\ t.pc \in {"reading", "pick"} /\ (t.pc = "reading" => t.todo = {})
    BY <2>1, <2>3, PlacingTyped
  <2>5. ASSUME NEW m \in Miners, miner'[m] = "queued" PROVE Promises(c, m)'
    <3>1. m \in QueuedMiners
      BY <1>2, <2>5 DEF QueuedMiners, ReadQueued, dbVars
    <3>2. m \in t.todo \/ (t.pc = "pick" /\ t.miner = m)
      BY <2>4, <3>1
    <3>3. t.pc = "pick"
      BY <2>4, <3>2
    <3>4. QED
      BY <2>2, <3>2, <3>3 DEF Promises, At, AssignPC
  <2>6. QED
    BY <2>1, <2>5, OthersUntouched, StepOfTask
<1>3. CASE AssignStep(c)
  BY <1>3, AssignPlaces
<1>4. ASSUME task[c].pc \in {"reading", "ackJob", "ackMiner", "errJob", "errMiner"},
             \A q \in Tasks : q # c => task'[q] = task[q],
             tried' = tried, \A w \in Workers : conns'[w] # None => conns[w] # None,
             \A m \in Miners : miner'[m] = "queued" => miner[m] = "queued"
      PROVE  NoLostMiner'
  BY <1>4, StepElsewhere, ConstantsAssumption DEF AssignPC, Live
<1>5. CASE ReceiveAck(c)
  <2>1. \A q \in Tasks : q # c => task'[q] = task[q]
    BY <1>5 DEF ReceiveAck, TypeOK, TasksOK
  <2>2. QED
    BY <1>4, <1>5, <2>1 DEF ReceiveAck, At, dbVars
<1>6. CASE AckJob(c)
  BY <1>4, <1>6, OthersUntouched DEF AckJob, At
<1>7. CASE AckMiner(c)
  <2>1. \A m \in Miners : miner'[m] = "queued" => miner[m] = "queued"
    BY <1>7 DEF AckMiner, SetMinerStatus, TypeOK
  <2>2. QED
    BY <1>4, <1>7, <2>1, OthersUntouched DEF AckMiner, At
<1>8. CASE ErrJob(c)
  BY <1>4, <1>8, OthersUntouched DEF ErrJob, At
<1>9. CASE ErrMiner(c)
  <2>1. \A m \in Miners : miner'[m] = "queued" => miner[m] = "queued"
    BY <1>9 DEF ErrMiner, SetMinerStatus, TypeOK
  <2>2. QED
    BY <1>4, <1>9, <2>1, OthersUntouched DEF ErrMiner, At
<1>10. CASE Unregister(c)
  <2>1. \A w \in Workers : conns'[w] # None => conns[w] # None
    BY <1>10 DEF Unregister, TypeOK
  <2>2. QED
    BY <1>4, <1>10, <2>1, OthersUntouched DEF Unregister, At, dbVars
<1>11. QED
  BY <1>1, <1>2, <1>3, <1>5, <1>6, <1>7, <1>8, <1>9, <1>10 DEF ConnStep

LEMMA RequestBeginsPlaces ==
    ASSUME TypeOK, NoLostMiner, NEW r \in Requests, RequestBegins(r)
    PROVE  NoLostMiner'
<1> r \in Tasks
  BY DEF Tasks
<1>1. ASSUME NEW op, NEW pc, NEW m, NEW w, Begin(r, op, pc, m, w)
      PROVE  At(r, "idle") /\ \A q \in Tasks : q # r => task'[q] = task[q]
  BY <1>1 DEF Begin, TypeOK, TasksOK
<1>2. At(r, "idle") /\ \A q \in Tasks : q # r => task'[q] = task[q]
  BY <1>1 DEF RequestBegins, Start, Stop, Delete, Revoke, DeleteWorker
<1>3. miner' = miner /\ tried' = tried /\ conns' = conns
  BY DEF RequestBegins, Start, Stop, Delete, Revoke, DeleteWorker, dbVars
<1>4. QED
  BY <1>2, <1>3, StepElsewhere DEF At, AssignPC, Live

LEMMA RequestPlaces ==
    ASSUME TypeOK, NoLostMiner, NEW r \in Requests, Outcomes(r) = {TRUE}, RequestStep(r)
    PROVE  NoLostMiner'
<1> r \in Tasks
  BY DEF Tasks
<1>t. task \in [Tasks -> Task] /\ task[r] \in Task
  BY DEF TypeOK, TasksOK
<1>1. CASE Enqueue(r)
  <2> DEFINE m == task[r].miner
  <2>1. task'[r].pc = "pick" /\ task'[r].miner = m
    BY <1>1, <1>t DEF Enqueue, Goto, Task
  <2>2. \A n : n = m => Promises(r, n)'
    BY <2>1 DEF Promises, At
  <2>3. ASSUME NEW n \in Miners, n # m, miner'[n] = "queued", ~tried'[n]
        PROVE  miner[n] = "queued" /\ ~tried[n]
    BY <1>1, <2>3 DEF Enqueue, SetMinerStatus, TypeOK
  <2>4. \A n \in Miners : ~Promises(r, n)
    BY <1>1, ConstantsAssumption DEF Enqueue, Promises, At
  <2>5. Live' = Live
    BY <1>1 DEF Enqueue, Live
  <2>6. \A q \in Tasks : q # r => task'[q] = task[q]
    BY <1>1, OthersUntouched DEF Enqueue
  <2> HIDE DEF m
  <2>7. ASSUME NEW n \in Miners, NEW w \in Native,
               miner'[n] = "queued" /\ ~tried'[n] /\ w \in Live'
        PROVE  \/ Promises(r, n)'
               \/ w \in Live /\ miner[n] = "queued" /\ ~tried[n] /\ ~Promises(r, n)
    BY <2>2, <2>3, <2>4, <2>5, <2>7
  <2>8. QED
    BY <2>6, <2>7, StepOfTask
<1>2. CASE AssignStep(r)
  BY <1>2, AssignPlaces
<1>3. ASSUME task[r].pc \notin AssignPC \cup {"joined"},
             \A q \in Tasks : q # r => task'[q] = task[q],
             tried' = tried, conns' = conns,
             \A m \in Miners : miner'[m] = "queued" => miner[m] = "queued"
      PROVE  NoLostMiner'
  BY <1>3, StepElsewhere DEF Live
<1>4. CASE OpenRun(r)
  BY <1>3, <1>4, OthersUntouched DEF OpenRun, At, AssignPC, netVars
<1>5. CASE ReadJobs(r)
  <2>1. \A q \in Tasks : q # r => task'[q] = task[q]
    BY <1>5, <1>t DEF ReadJobs
  <2>2. QED
    BY <1>3, <1>5, <2>1 DEF ReadJobs, At, AssignPC, dbVars
<1>6. CASE CancelNext(r)
  <2>1. \A q \in Tasks : q # r => task'[q] = task[q]
    BY <1>6, <1>t DEF CancelNext, Goto
  <2>2. QED
    BY <1>3, <1>6, <2>1 DEF CancelNext, At, AssignPC, dbVars
<1>7. CASE CancelEnd(r)
  BY <1>3, <1>7, OthersUntouched DEF CancelEnd, At, AssignPC
<1>8. CASE CloseRun(r)
  <2>1. \A q \in Tasks : q # r => task'[q] = task[q]
    BY <1>8, <1>t DEF CloseRun
  <2>2. QED
    BY <1>3, <1>8, <2>1 DEF CloseRun, At, AssignPC
<1>9. CASE Settle(r)
  <2>1. \A m \in Miners : miner'[m] = "queued" => miner[m] = "queued"
    BY <1>9 DEF Settle, SetMinerStatus, DeleteRows, TypeOK
  <2>2. QED
    BY <1>3, <1>9, <2>1, OthersUntouched DEF Settle, At, AssignPC
<1>10. CASE RevokeJobs(r)
  <2>1. \A q \in Tasks : q # r => task'[q] = task[q]
    BY <1>10, OthersUntouched DEF RevokeJobs
  <2>2. QED
    BY <1>3, <1>10, <2>1 DEF RevokeJobs, At, AssignPC
<1>11. CASE Disconnect(r)
  <2>1. \A q \in Tasks : q # r => task'[q] = task[q]
    BY <1>11, OthersUntouched DEF Disconnect
  <2>2. QED
    BY <1>3, <1>11, <2>1 DEF Disconnect, At, AssignPC, dbVars
<1>12. CASE DropWorker(r)
  BY <1>3, <1>12, OthersUntouched DEF DropWorker, At, AssignPC
<1>13. QED
  BY <1>1, <1>2, <1>4, <1>5, <1>6, <1>7, <1>8, <1>9, <1>10, <1>11, <1>12 DEF RequestStep

\* Every step keeps the promises, when the statements of the goroutines succeed.
LEMMA NextPlaces ==
    ASSUME TypeOK, NoLostMiner, \A p \in Tasks : Outcomes(p) = {TRUE}, MaxAborts = 0, [Next]_vars
    PROVE  NoLostMiner'
<1>1. ASSUME NEW m \in Miners, CreateMiner(m) PROVE NoLostMiner'
  <2>1. \A n \in Miners : miner'[n] = "queued" => miner[n] = "queued"
    BY <1>1 DEF CreateMiner, TypeOK
  <2>2. QED
    BY <1>1, <2>1, StepOutside DEF CreateMiner, netVars
<1>2. ASSUME NEW w \in Workers, EnrollWorker(w) PROVE NoLostMiner'
  BY <1>2, StepOutside DEF EnrollWorker, netVars
<1>3. ASSUME NEW w \in Workers, WorkerStep(w) PROVE NoLostMiner'
  BY <1>3, StepOutside DEF WorkerStep, WorkerAssign, WorkerCancel, SessionEnd, dbVars
<1>4. ASSUME NEW w \in Workers, NEW c \in Conns, Connect(w, c) PROVE NoLostMiner'
  BY <1>4, OthersUntouched, StepElsewhere DEF Connect, At, AssignPC, Tasks, Live, dbVars
<1>5. ASSUME NEW c \in Conns, ConnStep(c) PROVE NoLostMiner'
  BY <1>5, ConnPlaces DEF Tasks
<1>6. ASSUME NEW c \in Conns, Cut(c) PROVE NoLostMiner'
  BY <1>6, StepOutside DEF Cut, dbVars
<1>7. ASSUME NEW r \in Requests, RequestBegins(r) PROVE NoLostMiner'
  BY <1>7, RequestBeginsPlaces
<1>8. ASSUME NEW r \in Requests, RequestStep(r) PROVE NoLostMiner'
  BY <1>8, RequestPlaces DEF Tasks
<1>9. ASSUME NEW r \in Requests, Abort(r) PROVE NoLostMiner'
  BY <1>9 DEF Abort, TypeOK
<1>10. CASE Restart
  BY <1>10 DEF Restart, NoLostMiner, Live
<1>11. CASE UNCHANGED vars
  BY <1>11, StepOutside DEF vars, dbVars, netVars
<1>12. QED
  BY <1>1, <1>2, <1>3, <1>4, <1>5, <1>6, <1>7, <1>8, <1>9, <1>10, <1>11 DEF Next

-----------------------------------------------------------------------------
\* The ways a goroutine's record changes leave its context alone.
LEMMA ContextKept ==
    ASSUME TypeOK, \A q \in Tasks : task[q].ctx, NEW p \in Tasks
    PROVE  /\ \A pc : Goto(p, pc) => \A q \in Tasks : task'[q].ctx
           /\ Finish(p) => \A q \in Tasks : task'[q].ctx
           /\ \A t \in Task : t.ctx /\ task' = [task EXCEPT ![p] = t] => \A q \in Tasks : task'[q].ctx
           /\ AssignReturns(p) => \A q \in Tasks : task'[q].ctx
           /\ \A op, pc, m, w : Begin(p, op, pc, m, w) => \A q \in Tasks : task'[q].ctx
<1>t. task \in [Tasks -> Task] /\ \A x \in Task : x.ctx \in BOOLEAN
  BY DEF TypeOK, TasksOK, Task
<1>1. \A pc, x : x \in Task => [x EXCEPT !.pc = pc].ctx = x.ctx
  BY DEF Task
<1>2. \A pc : Goto(p, pc) => \A q \in Tasks : task'[q].ctx
  BY <1>t, <1>1 DEF Goto
<1>3. Finish(p) => \A q \in Tasks : task'[q].ctx
  BY <1>t, IdleTyped DEF Finish
<1>4. \A t : t.ctx /\ task' = [task EXCEPT ![p] = t] => \A q \in Tasks : task'[q].ctx
  BY <1>t
<1>5. AssignReturns(p) => \A q \in Tasks : task'[q].ctx
  <2>1. CASE p \in Conns
    <3>1. task[p].todo \in SUBSET Miners
      BY <2>1 DEF TypeOK, TasksOK
    <3>2. \A t \in Placing(task[p].todo) : t.ctx
      BY <3>1, PlacingTyped
    <3>3. QED
      BY <1>4, <2>1, <3>2 DEF AssignReturns
  <2>2. CASE p \notin Conns
    BY <1>3, <2>2 DEF AssignReturns
  <2>3. QED
    BY <2>1, <2>2
<1>6. ASSUME NEW op, NEW pc, NEW m, NEW w, Begin(p, op, pc, m, w)
      PROVE  \A q \in Tasks : task'[q].ctx
  <2>1. [IdleTask EXCEPT !.op = op, !.pc = pc, !.miner = m, !.wk = w].ctx
    BY DEF IdleTask
  <2>2. QED
    BY <1>4, <1>6, <2>1 DEF Begin
<1>7. QED
  BY <1>2, <1>3, <1>4, <1>5, <1>6

\* An update that does not assign the context field keeps every context.
LEMMA FieldsKept ==
    ASSUME TypeOK, NEW p \in Tasks, NEW a, NEW b, NEW d,
           \/ task' = [task EXCEPT ![p].pc = a, ![p].wk = b, ![p].tc = d]
           \/ task' = [task EXCEPT ![p].pc = a, ![p].job = b, ![p].miner = d]
           \/ task' = [task EXCEPT ![p].pc = a, ![p].job = b, ![p].todo = d]
           \/ task' = [task EXCEPT ![p].pc = a, ![p].job = b]
           \/ task' = [task EXCEPT ![p].pc = a, ![p].todo = b]
    PROVE  \A q \in Tasks : task'[q].ctx = task[q].ctx
<1>1. task \in [Tasks -> Task]
  BY DEF TypeOK, TasksOK
<1>2. QED
  BY <1>1 DEF Task

LEMMA NextContexts ==
    ASSUME TypeOK, \A p \in Tasks : task[p].ctx, MaxAborts = 0, [Next]_vars
    PROVE  \A p \in Tasks : task'[p].ctx
<1> DEFINE G == \A p \in Tasks : task'[p].ctx
<1>t. task \in [Tasks -> Task]
  BY DEF TypeOK, TasksOK
<1>u. ASSUME task' = task PROVE G
  BY <1>u
<1>f. ASSUME \A q \in Tasks : task'[q].ctx = task[q].ctx PROVE G
  BY <1>f
<1>e. ASSUME NEW p \in Tasks, NEW t, task' = [task EXCEPT ![p] = t], t.ctx = task[p].ctx PROVE G
  BY <1>t, <1>e
<1>k. ASSUME NEW p \in Tasks
      PROVE  /\ \A pc : Goto(p, pc) => G
             /\ Finish(p) => G
             /\ AssignReturns(p) => G
             /\ \A op, pc, m, w : Begin(p, op, pc, m, w) => G
  BY ContextKept
<1> HIDE DEF G
<1>a. ASSUME NEW p \in Tasks, AssignStep(p) PROVE G
  <2>1. ASSUME NEW w, task' = [task EXCEPT ![p].pc = "create", ![p].wk = w, ![p].tc = conns[w]]
        PROVE  G
    BY <1>f, <2>1, FieldsKept
  <2>2. ASSUME NEW j, task' = [task EXCEPT ![p].pc = "send", ![p].job = j] PROVE G
    BY <1>f, <2>2, FieldsKept
  <2>3. QED
    BY <1>a, <1>k, <2>1, <2>2 DEF AssignStep, PickWorker, CreateJob, SendAssign, AssignFailed
<1>1. ASSUME NEW c \in Conns, ConnStep(c) PROVE G
  <2> c \in Tasks
    BY DEF Tasks
  <2>1. ASSUME NEW t, task' = [task EXCEPT ![c] = t], t.ctx = TRUE PROVE G
    BY <1>e, <2>1
  <2>2. ASSUME NEW a, NEW j, NEW m, task' = [task EXCEPT ![c].pc = a, ![c].job = j, ![c].miner = m]
        PROVE  G
    BY <1>f, <2>2, FieldsKept
  <2>3. CASE ReadQueued(c)
    <3>1. PICK S \in {QueuedMiners, {}} : \E t \in Placing(S) : task' = [task EXCEPT ![c] = t]
      BY <2>3 DEF ReadQueued
    <3>2. S \in SUBSET Miners
      BY DEF QueuedMiners
    <3>3. \A t \in Placing(S) : t.ctx = TRUE
      BY <3>2, PlacingTyped
    <3>4. QED
      BY <2>1, <3>1, <3>3
  <2>4. CASE ReceiveAck(c)
    <3> DEFINE ack == Head(link[c].toH)
               pc == IF ack.kind = "ackOk" THEN "ackJob" ELSE "errJob"
    <3>1. \/ task' = task
          \/ task' = [task EXCEPT ![c].pc = pc, ![c].job = ack.job, ![c].miner = job[ack.job].miner]
      BY <2>4 DEF ReceiveAck
    <3> HIDE DEF ack, pc
    <3>2. QED
      BY <1>u, <2>2, <3>1
  <2>5. CASE AckMiner(c) \/ ErrMiner(c)
    BY <2>1, <2>5, IdleTyped DEF AckMiner, ErrMiner
  <2>6. QED
    BY <1>1, <1>a, <1>k, <2>3, <2>4, <2>5
       DEF ConnStep, Register, AckJob, ErrJob, Unregister
<1>2. ASSUME NEW r \in Requests, RequestBegins(r) PROVE G
  BY <1>2, <1>k DEF RequestBegins, Start, Stop, Delete, Revoke, DeleteWorker, Tasks
<1>3. ASSUME NEW r \in Requests, RequestStep(r) PROVE G
  <2> r \in Tasks
    BY DEF Tasks
  <2>1. CASE ReadJobs(r)
    <3>1. ASSUME NEW S, task' = [task EXCEPT ![r].pc = "cancelNext", ![r].todo = S] PROVE G
      BY <1>f, <3>1, FieldsKept
    <3>2. ASSUME task' = [task EXCEPT ![r].pc = "settle"] PROVE G
      BY <1>k, <3>2 DEF Goto
    <3>3. QED
      BY <2>1, <3>1, <3>2 DEF ReadJobs
  <2>2. CASE CancelNext(r)
    <3>1. ASSUME NEW j, task' = [task EXCEPT ![r].pc = "cancelEnd", ![r].job = j, ![r].todo = task[r].todo \ {j}]
          PROVE  G
      BY <1>f, <3>1, FieldsKept
    <3>2. QED
      BY <1>k, <2>2, <3>1 DEF CancelNext
  <2>3. CASE CloseRun(r)
    BY <1>f, <2>3, FieldsKept DEF CloseRun
  <2>4. QED
    BY <1>3, <1>a, <1>k, <2>1, <2>2, <2>3
       DEF RequestStep, OpenRun, Enqueue, CancelEnd, Settle, RevokeJobs, Disconnect, DropWorker
<1>4. ASSUME NEW w \in Workers, NEW c \in Conns, Connect(w, c) PROVE G
  BY <1>4, <1>k DEF Connect, Tasks
<1>5. ASSUME NEW r \in Requests, Abort(r) PROVE G
  BY <1>5 DEF Abort, TypeOK
<1>6. ASSUME Restart PROVE G
  <2>1. [IdleTask EXCEPT !.pc = "done"].ctx /\ IdleTask.ctx
    BY DEF IdleTask
  <2>2. QED
    BY <1>6, <2>1 DEF Restart, G
<1>7. ASSUME NEW w \in Workers, EnrollWorker(w) \/ WorkerStep(w) PROVE G
  BY <1>7, <1>u DEF EnrollWorker, WorkerStep, WorkerAssign, WorkerCancel, SessionEnd
<1>8. ASSUME NEW c \in Conns, Cut(c) PROVE G
  BY <1>8, <1>u DEF Cut
<1>9. ASSUME NEW m \in Miners, CreateMiner(m) PROVE G
  BY <1>9, <1>u DEF CreateMiner
<1>10. ASSUME UNCHANGED vars PROVE G
  BY <1>10, <1>u DEF vars
<1>11. ASSUME Next PROVE G
  BY <1>11, <1>1, <1>2, <1>3, <1>4, <1>5, <1>6, <1>7, <1>8, <1>9 DEF Next
<1>12. QED
  BY <1>10, <1>11 DEF G

\* Hub.Assign and Hub.AssignQueued, seen from a miner: a queued miner that no
\* worker was ever chosen for is about to be placed as soon as, and as long as,
\* a native worker is in the hub's live map, whatever the order in which
\* handleStartMiner writes the row and HandleWS registers its connection.  Requests
\* must not be dropped and the database must answer: it does not hold otherwise.
THEOREM QueuedNotLost == ASSUME MaxAborts = 0, DbFails = FALSE PROVE Spec => []NoLostMiner
<1> DEFINE Inv == TypeOK /\ NoLostMiner /\ \A p \in Tasks : task[p].ctx
<1>1. Init => Inv
  <2>1. Init => NoLostMiner
    BY DEF Init, NoLostMiner, Live
  <2>2. Init => \A p \in Tasks : task[p].ctx
    BY IdleTyped DEF Init
  <2>3. QED
    BY <2>1, <2>2, InitTyped
<1>2. Inv /\ [Next]_vars => Inv'
  <2>1. Inv => \A p \in Tasks : Outcomes(p) = {TRUE}
    BY DEF Outcomes
  <2>2. QED
    BY <2>1, NextTyped, NextPlaces, NextContexts
<1>3. Inv => NoLostMiner
  OBVIOUS
<1>4. QED
  BY <1>1, <1>2, <1>3, PTL DEF Spec

-----------------------------------------------------------------------------
(* What ran, and what is recorded of it                                    *)

\* Until an engine is started for it, or a failure is recorded, a job is in one place:
\* with the goroutine that sends it or that records its failure, or in the message
\* that assigns it or reports its failure.
Holding == {"send", "jobErr", "errJob"}
WithTasks(j) == {<<"task", p, 0>> : p \in {q \in Tasks : task[q].pc \in Holding /\ task[q].job = j}}
ToWorkers(j) ==
    UNION {{<<"toW", c, i>> : i \in {k \in 1..Len(link[c].toW) : link[c].toW[k] = Msg("assign", j)}} : c \in Conns}
ToHub(j) ==
    UNION {{<<"toH", c, i>> : i \in {k \in 1..Len(link[c].toH) : link[c].toH[k] = Msg("ackErr", j)}} : c \in Conns}
PlacesOf(j) == WithTasks(j) \cup ToWorkers(j) \cup ToHub(j)

OnePlace ==
    \A j \in Jobs : /\ \A x, y \in PlacesOf(j) : x = y
                    /\ job[j].st \in {"none", "error"} \/ j \in started => PlacesOf(j) = {}

\* The answers of a worker, and a goroutine that handles a success, tell the truth.
TrueAnswers(c) ==
    \A i \in 1..Len(link[c].toH) :
        \/ link[c].toH[i].kind = "ackErr"
        \/ link[c].toH[i].kind = "ackOk" /\ link[c].toH[i].job \in started
TrueAck(c) ==
    task[c].pc \in {"ackJob", "ackMiner"} =>
        task[c].job \in started /\ job[task[c].job].miner = task[c].miner

AckInv ==
    /\ OnePlace
    /\ \A j \in started : job[j].st # "none"
    /\ \A c \in Conns : TrueAnswers(c) /\ TrueAck(c)
    /\ RunningWasAcked
    /\ FailedNeverRan

HeldBy(x, j) == \E p \in Tasks : x = <<"task", p, 0>> /\ task[p].pc \in Holding /\ task[p].job = j
OnItsWay(x, j) ==
    \E c \in Conns : \E i \in 1..Len(link[c].toW) : x = <<"toW", c, i>> /\ link[c].toW[i] = Msg("assign", j)
AnswerOnItsWay(x, j) ==
    \E c \in Conns : \E i \in 1..Len(link[c].toH) : x = <<"toH", c, i>> /\ link[c].toH[i] = Msg("ackErr", j)

LEMMA PlaceCases ==
    ASSUME NEW j, NEW x
    PROVE  /\ x \in PlacesOf(j) <=> HeldBy(x, j) \/ OnItsWay(x, j) \/ AnswerOnItsWay(x, j)
           /\ x \in PlacesOf(j)' <=> HeldBy(x, j)' \/ OnItsWay(x, j)' \/ AnswerOnItsWay(x, j)'
<1>1. x \in WithTasks(j) <=> HeldBy(x, j)
  BY DEF WithTasks, HeldBy
<1>2. x \in ToWorkers(j) <=> OnItsWay(x, j)
  BY DEF ToWorkers, OnItsWay
<1>3. x \in ToHub(j) <=> AnswerOnItsWay(x, j)
  BY DEF ToHub, AnswerOnItsWay
<1>4. x \in WithTasks(j)' <=> HeldBy(x, j)'
  BY DEF WithTasks, HeldBy
<1>5. x \in ToWorkers(j)' <=> OnItsWay(x, j)'
  BY DEF ToWorkers, OnItsWay, Msg
<1>6. x \in ToHub(j)' <=> AnswerOnItsWay(x, j)'
  BY DEF ToHub, AnswerOnItsWay, Msg
<1>7. QED
  BY <1>1, <1>2, <1>3, <1>4, <1>5, <1>6 DEF PlacesOf

\* The place of a job after a step was its place before, or that place moved on.
Carried(j) == \E f : \A x, y \in PlacesOf(j)' : f[x] \in PlacesOf(j) /\ (f[x] = f[y] => x = y)

\* Goroutines and messages that hold a job held it before.
TasksFewer ==
    \A p \in Tasks : task'[p].pc \in Holding => task[p].pc \in Holding /\ task'[p].job = task[p].job
LinksFewer ==
    \A c \in Conns :
        /\ \A j \in Jobs : \A i \in 1..Len(link'[c].toW) : link'[c].toW[i] = Msg("assign", j) =>
              i \in 1..Len(link[c].toW) /\ link[c].toW[i] = Msg("assign", j)
        /\ \A i \in 1..Len(link'[c].toH) : i \in 1..Len(link[c].toH) /\ link'[c].toH[i] = link[c].toH[i]

LEMMA InclusionCarried ==
    ASSUME NEW j, \A x \in PlacesOf(j)' : x \in PlacesOf(j) PROVE Carried(j)
<1> DEFINE f == [x \in PlacesOf(j)' |-> x]
<1>1. \A x, y \in PlacesOf(j)' : f[x] \in PlacesOf(j) /\ (f[x] = f[y] => x = y)
  OBVIOUS
<1>2. QED
  BY <1>1 DEF Carried

LEMMA FewerCarried ==
    ASSUME TasksFewer, LinksFewer, NEW j \in Jobs PROVE Carried(j)
<1>1. ASSUME NEW x \in PlacesOf(j)' PROVE x \in PlacesOf(j)
  <2>1. HeldBy(x, j)' => HeldBy(x, j)
    BY DEF HeldBy, TasksFewer
  <2>2. OnItsWay(x, j)' => OnItsWay(x, j)
    BY DEF OnItsWay, LinksFewer, Msg
  <2>3. AnswerOnItsWay(x, j)' => AnswerOnItsWay(x, j)
    BY DEF AnswerOnItsWay, LinksFewer, Msg
  <2>4. QED
    BY <1>1, <2>1, <2>2, <2>3, PlaceCases
<1>2. QED
  BY <1>1, InclusionCarried

\* What a step may do to the row of j, to its place and to its engine
RowKept(j) ==
    /\ Carried(j) /\ (j \in started' <=> j \in started)
    /\ job'[j].miner = job[j].miner
    /\ job'[j].st = job[j].st \/ (job[j].st # "none" /\ job'[j].st \in {"ack", "ended", "deleted"})
RowFails(j) ==
    /\ job[j].st # "none" /\ job'[j].miner = job[j].miner /\ job'[j].st = "error"
    /\ j \notin started' /\ j \notin started /\ PlacesOf(j)' = {}
RowCreated(j) ==
    /\ job[j].st = "none" /\ job'[j].st = "assigned"
    /\ j \notin started' /\ \A x, y \in PlacesOf(j)' : x = y
RowStarted(j) ==
    /\ job'[j] = job[j] /\ job[j].st \notin {"none", "error"}
    /\ j \in started' /\ PlacesOf(j)' = {}
RowMove(j) == RowKept(j) \/ RowFails(j) \/ RowCreated(j) \/ RowStarted(j)

LEMMA AckStep ==
    ASSUME TypeOK, AckInv, started' \subseteq Jobs, \A j \in Jobs : RowMove(j),
           \A c \in Conns : TrueAnswers(c)' /\ (task'[c] = task[c] \/ TrueAck(c)'),
           \A m \in Miners : miner'[m] = "running" =>
              miner[m] = "running" \/ \E j \in started : job[j].miner = m
    PROVE  AckInv'
<1> USE DEF RowMove, RowKept, RowFails, RowCreated, RowStarted
<1>0. started \subseteq Jobs
  BY DEF TypeOK
<1>1. \A j \in started : job[j].st # "none"
  BY DEF AckInv
<1>2. \A j \in started : j \in started' /\ job'[j].miner = job[j].miner
  BY <1>0, <1>1
<1>3. \A j \in started' : job'[j].st # "none"
  BY <1>0, <1>1
<1>4. ASSUME NEW j \in Jobs
      PROVE  /\ \A x, y \in PlacesOf(j)' : x = y
             /\ job'[j].st \in {"none", "error"} \/ j \in started' => PlacesOf(j)' = {}
  <2>1. Carried(j) => /\ \A x, y \in PlacesOf(j)' : x = y
                      /\ PlacesOf(j) = {} => PlacesOf(j)' = {}
    BY DEF Carried, AckInv, OnePlace
  <2>2. job[j].st \in {"none", "error"} \/ j \in started => PlacesOf(j) = {}
    BY DEF AckInv, OnePlace
  <2>3. QED
    BY <2>1, <2>2
<1>5. ASSUME NEW c \in Conns PROVE TrueAnswers(c)' /\ TrueAck(c)'
  <2>1. CASE task'[c] = task[c]
    BY <1>2, <2>1 DEF AckInv, TrueAck
  <2>2. QED
    BY <2>1
<1>6. RunningWasAcked'
  BY <1>2 DEF AckInv, RunningWasAcked
<1>7. FailedNeverRan'
  <2>1. ASSUME NEW j \in started' PROVE job'[j].st # "error"
    BY <1>0, <2>1 DEF AckInv, FailedNeverRan
  <2>2. QED
    BY <2>1 DEF FailedNeverRan
<1>8. QED
  BY <1>3, <1>4, <1>5, <1>6, <1>7 DEF AckInv, OnePlace

\* The UPDATEs that end or acknowledge jobs, and the cascades of the DELETEs
Ends(j) ==
    \/ job'[j] = job[j]
    \/ /\ job[j].st # "none" /\ job'[j].miner = job[j].miner
       /\ job'[j].st \in {"ack", "ended", "deleted"}

LEMMA StatementsEnd ==
    ASSUME TypeOK, NEW i \in Jobs
    PROVE  /\ \A ok, j : EndJob(ok, j, "ended") => Ends(i)
           /\ \A S : job' = WithoutJobs(S) => Ends(i)
           /\ \A w : job' = EndedJobs(w) => Ends(i)
<1>t. job \in [Jobs -> JobRow]
  BY DEF TypeOK
<1>1. \A x \in JobRow : \A s : LET y == [x EXCEPT !.st = s, !.open = FALSE]
                               IN  y.st = s /\ y.miner = x.miner /\ ~y.open
  BY DEF JobRow
<1>2. ASSUME NEW ok, NEW j, EndJob(ok, j, "ended") PROVE Ends(i)
  BY <1>t, <1>1, <1>2 DEF EndJob, HasJob, Ends
<1>3. ASSUME NEW S, job' = WithoutJobs(S) PROVE Ends(i)
  <2>1. CASE i \in S /\ HasJob(i)
    <3>1. job'[i] = [job[i] EXCEPT !.st = "deleted", !.open = FALSE] /\ job[i] \in JobRow
      BY <1>t, <1>3, <2>1 DEF WithoutJobs
    <3>2. job'[i].st = "deleted" /\ job'[i].miner = job[i].miner /\ ~job'[i].open
      BY <1>1, <3>1
    <3>3. QED
      BY <2>1, <3>2 DEF HasJob, Ends
  <2>2. CASE ~(i \in S /\ HasJob(i))
    BY <1>3, <2>2 DEF WithoutJobs, Ends
  <2>3. QED
    BY <2>1, <2>2
<1>4. ASSUME NEW w, job' = EndedJobs(w) PROVE Ends(i)
  <2>1. CASE HasJob(i) /\ job[i].open /\ job[i].worker = w
    <3>1. job'[i] = [job[i] EXCEPT !.st = "ended", !.open = FALSE] /\ job[i] \in JobRow
      BY <1>t, <1>4, <2>1 DEF EndedJobs
    <3>2. job'[i].st = "ended" /\ job'[i].miner = job[i].miner /\ ~job'[i].open
      BY <1>1, <3>1
    <3>3. QED
      BY <2>1, <3>2 DEF HasJob, Ends
  <2>2. CASE ~(HasJob(i) /\ job[i].open /\ job[i].worker = w)
    BY <1>4, <2>2 DEF EndedJobs, Ends
  <2>3. QED
    BY <2>1, <2>2
<1>5. QED
  BY <1>2, <1>3, <1>4

\* A step that hands no job on, starts none and at most ends jobs; no miner becomes
\* 'running' by it without reason.
LEMMA AckKept ==
    ASSUME TypeOK, AckInv, TasksFewer, LinksFewer, started' = started, \A j \in Jobs : Ends(j),
           \A c \in Conns : task'[c] = task[c] \/ TrueAck(c)',
           \A m \in Miners : miner'[m] = "running" =>
              miner[m] = "running" \/ \E j \in started : job[j].miner = m
    PROVE  AckInv'
<1>1. \A j \in Jobs : RowMove(j)
  BY FewerCarried DEF Ends, RowMove, RowKept
<1>2. \A c \in Conns : TrueAnswers(c)'
  BY DEF AckInv, TrueAnswers, LinksFewer
<1>3. started' \subseteq Jobs
  BY DEF TypeOK
<1>4. QED
  BY <1>1, <1>2, <1>3, AckStep

LEMMA SameLinksFewer ==
    /\ link' = link => LinksFewer
    /\ (\A c \in Conns : link'[c].toW = link[c].toW /\ (link'[c].toH = link[c].toH \/ link'[c].toH = <<>>)) => LinksFewer
BY DEF LinksFewer

\* The closing of a connection leaves the messages in flight alone.
LEMMA DownFewer ==
    ASSUME TypeOK, NEW d, link' = [link EXCEPT ![d].up = FALSE] PROVE LinksFewer
<1>1. \A c \in Conns : link'[c].toW = link[c].toW /\ link'[c].toH = link[c].toH
  BY DEF TypeOK, Link
<1>2. QED
  BY <1>1, SameLinksFewer

LEMMA CancelFewer ==
    ASSUME TypeOK, NEW d \in Conns, NEW j \in Jobs, Deliver(d, Msg("cancel", j)) PROVE LinksFewer
<1>1. CASE link' = link
  BY <1>1, SameLinksFewer
<1>2. CASE link' = [link EXCEPT ![d].toW = Append(@, Msg("cancel", j))]
  <2>1. link[d] \in Link /\ link[d].toW \in Seq(Message) /\ Msg("cancel", j) \in Message
    BY DEF TypeOK, Link, Msg, Message
  <2>2. /\ \A c \in Conns : link'[c].toH = link[c].toH /\ (c # d => link'[c].toW = link[c].toW)
        /\ link'[d].toW = Append(link[d].toW, Msg("cancel", j))
    BY <1>2 DEF TypeOK, Link
  <2>3. ASSUME NEW i \in 1..Len(link'[d].toW), NEW k, link'[d].toW[i] = Msg("assign", k)
        PROVE  i \in 1..Len(link[d].toW) /\ link[d].toW[i] = Msg("assign", k)
    <3>1. i \in 1..Len(link[d].toW) \/ i = Len(link[d].toW) + 1
      <4>1. \A s \in Seq(Message) : \A x \in Message : \A n \in 1..Len(Append(s, x)) : n \in 1..Len(s) \/ n = Len(s) + 1
        OBVIOUS
      <4>2. QED
        BY <2>1, <2>2, <4>1
    <3>2. i # Len(link[d].toW) + 1
      BY <2>1, <2>2, <2>3 DEF Msg
    <3>3. \A s \in Seq(Message) : \A x \in Message : \A n \in 1..Len(s) : Append(s, x)[n] = s[n]
      OBVIOUS
    <3>4. QED
      BY <2>1, <2>2, <2>3, <3>1, <3>2, <3>3
  <2>4. ASSUME NEW c \in Conns, NEW k \in Jobs, NEW i \in 1..Len(link'[c].toW), link'[c].toW[i] = Msg("assign", k)
        PROVE  i \in 1..Len(link[c].toW) /\ link[c].toW[i] = Msg("assign", k)
    <3>1. CASE c = d
      BY <2>3, <2>4, <3>1
    <3>2. CASE c # d
      BY <2>2, <2>4, <3>2
    <3>3. QED
      BY <3>1, <3>2
  <2>5. QED
    BY <2>2, <2>4 DEF LinksFewer, Msg
<1>3. QED
  BY <1>1, <1>2 DEF Deliver

\* A goroutine that holds no job after its step, or the one it held before
LEMMA OneTaskFewer ==
    ASSUME TypeOK, NEW p \in Tasks, \A q \in Tasks : q # p => task'[q] = task[q],
           \/ task'[p].pc \notin Holding
           \/ task[p].pc \in Holding /\ task'[p].job = task[p].job
    PROVE  TasksFewer
BY DEF TasksFewer

\* Where the helpers of the actions leave the goroutine that runs them
LEMMA Leaves ==
    ASSUME TypeOK, NEW p \in Tasks
    PROVE  /\ \A pc : Goto(p, pc) => task'[p].pc = pc /\ task'[p].job = task[p].job /\ task'[p].miner = task[p].miner
           /\ Finish(p) => task'[p].pc = "idle"
           /\ AssignReturns(p) => task'[p].pc \in {"idle", "reading", "pick"}
<1>1. task[p] \in Task /\ task \in [Tasks -> Task]
  BY DEF TypeOK, TasksOK
<1>2. ASSUME NEW pc, Goto(p, pc)
      PROVE  task'[p].pc = pc /\ task'[p].job = task[p].job /\ task'[p].miner = task[p].miner
  BY <1>1, <1>2 DEF Goto, Task
<1>3. Finish(p) => task'[p].pc = "idle"
  BY <1>1 DEF Finish, IdleTask
<1>4. ASSUME AssignReturns(p) PROVE task'[p].pc \in {"idle", "reading", "pick"}
  <2>1. CASE p \in Conns
    <3>1. PICK t \in Placing(task[p].todo) : task' = [task EXCEPT ![p] = t]
      BY <1>4, <2>1 DEF AssignReturns
    <3>2. t.pc \in {"reading", "pick"}
      BY DEF Placing, Reading, IdleTask
    <3>3. QED
      BY <1>1, <3>1, <3>2
  <2>2. CASE p \notin Conns
    BY <1>3, <1>4, <2>2 DEF AssignReturns
  <2>3. QED
    BY <2>1, <2>2
<1>5. QED
  BY <1>2, <1>3, <1>4

-----------------------------------------------------------------------------
\* The goroutine that holds a job is its only place: when it lets go of the job, and hands
\* it to nobody, there is none left.
LEMMA LastPlace ==
    ASSUME AckInv, NEW p \in Tasks, NEW j \in Jobs, task[p].pc \in Holding, task[p].job = j,
           \A q \in Tasks : q # p => task'[q] = task[q],
           task'[p].pc \notin Holding, LinksFewer
    PROVE  j \notin started /\ PlacesOf(j)' = {}
<1>1. <<"task", p, 0>> \in PlacesOf(j)
  BY PlaceCases DEF HeldBy
<1>2. j \notin started /\ \A y \in PlacesOf(j) : y = <<"task", p, 0>>
  BY <1>1 DEF AckInv, OnePlace
<1>3. ASSUME NEW x \in PlacesOf(j)' PROVE FALSE
  <2>1. CASE HeldBy(x, j)'
    <3>1. PICK q \in Tasks : x = <<"task", q, 0>> /\ task'[q].pc \in Holding /\ task'[q].job = j
      BY <2>1 DEF HeldBy
    <3>2. q # p
      BY <3>1
    <3>3. HeldBy(x, j)
      BY <3>1, <3>2 DEF HeldBy
    <3>4. QED
      BY <1>2, <3>1, <3>2, <3>3, PlaceCases
  <2>2. CASE OnItsWay(x, j)' \/ AnswerOnItsWay(x, j)'
    <3>1. OnItsWay(x, j) \/ AnswerOnItsWay(x, j)
      BY <2>2 DEF OnItsWay, AnswerOnItsWay, LinksFewer, Msg
    <3>2. x # <<"task", p, 0>>
      BY <3>1 DEF OnItsWay, AnswerOnItsWay
    <3>3. QED
      BY <1>2, <3>1, <3>2, PlaceCases
  <2>3. QED
    BY <1>3, <2>1, <2>2, PlaceCases
<1>4. QED
  BY <1>2, <1>3

\* What the workers answered stays true as long as nothing is added to it.
LEMMA AnswersKept ==
    ASSUME AckInv, LinksFewer, started' = started PROVE \A c \in Conns : TrueAnswers(c)'
BY DEF AckInv, TrueAnswers, LinksFewer

\* A job becomes an 'error' only where its goroutine holds it, and nothing is left then
\* that could start it: so it never ran, and never will.
LEMMA FailureAck ==
    ASSUME TypeOK, AckInv, NEW p \in Tasks, task[p].pc \in {"jobErr", "errJob"},
           NEW ok, EndJob(ok, task[p].job, "error"),
           \A q \in Tasks : q # p => task'[q] = task[q],
           task'[p].pc \notin Holding \cup {"ackJob", "ackMiner"},
           link' = link, miner' = miner, started' = started
    PROVE  AckInv'
<1>1. TasksFewer /\ LinksFewer
  BY OneTaskFewer, SameLinksFewer
<1>2. ASSUME NEW i \in Jobs PROVE RowMove(i)
  <2>1. CASE ok /\ HasJob(task[p].job) /\ job[task[p].job].open /\ i = task[p].job
    <3>1. job'[i] = [job[i] EXCEPT !.st = "error", !.open = FALSE] /\ job[i] \in JobRow
      BY <2>1 DEF EndJob, TypeOK
    <3>2. job'[i].st = "error" /\ job'[i].miner = job[i].miner /\ job[i].st # "none"
      BY <2>1, <3>1 DEF JobRow, HasJob
    <3>3. i \notin started /\ PlacesOf(i)' = {}
      BY <1>1, <2>1, LastPlace DEF Holding
    <3>4. QED
      BY <3>2, <3>3 DEF RowMove, RowFails
  <2>2. CASE ~(ok /\ HasJob(task[p].job) /\ job[task[p].job].open /\ i = task[p].job)
    <3>1. job'[i] = job[i]
      BY <2>2 DEF EndJob, TypeOK
    <3>2. QED
      BY <1>1, <3>1, FewerCarried DEF RowMove, RowKept
  <2>3. QED
    BY <2>1, <2>2
<1>3. \A c \in Conns : task'[c] = task[c] \/ TrueAck(c)'
  BY DEF TrueAck, Tasks
<1>4. started' \subseteq Jobs
  BY DEF TypeOK
<1>5. QED
  BY <1>1, <1>2, <1>3, <1>4, AnswersKept, AckStep

\* The INSERT is the first place of a job.
LEMMA CreateAck ==
    ASSUME TypeOK, AckInv, NEW p \in Tasks, NEW j \in Jobs, job[j].st = "none",
           NEW x, x.st = "assigned", job' = [job EXCEPT ![j] = x],
           task' = [task EXCEPT ![p].pc = "send", ![p].job = j],
           link' = link, miner' = miner, started' = started
    PROVE  AckInv'
<1>1. /\ \A q \in Tasks : q # p => task'[q] = task[q]
      /\ task'[p].pc = "send" /\ task'[p].job = j
  BY DEF TypeOK, TasksOK, Task
<1>2. ASSUME NEW i \in Jobs PROVE RowMove(i)
  <2>1. CASE i = j
    <3>1. PlacesOf(j) = {}
      BY DEF AckInv, OnePlace
    <3>2. ASSUME NEW y \in PlacesOf(j)' PROVE y = <<"task", p, 0>>
      <4>1. CASE OnItsWay(y, j)' \/ AnswerOnItsWay(y, j)'
        <5>1. OnItsWay(y, j) \/ AnswerOnItsWay(y, j)
          BY <4>1 DEF OnItsWay, AnswerOnItsWay, Msg
        <5>2. QED
          BY <3>1, <5>1, PlaceCases
      <4>2. CASE HeldBy(y, j)'
        <5>1. PICK q \in Tasks : y = <<"task", q, 0>> /\ task'[q].pc \in Holding /\ task'[q].job = j
          BY <4>2 DEF HeldBy
        <5>2. CASE q # p
          <6>1. HeldBy(y, j)
            BY <1>1, <5>1, <5>2 DEF HeldBy
          <6>2. QED
            BY <3>1, <6>1, PlaceCases
        <5>3. QED
          BY <5>1, <5>2
      <4>3. QED
        BY <3>2, <4>1, <4>2, PlaceCases
    <3>3. job'[i].st = "assigned"
      BY <2>1 DEF TypeOK
    <3>4. QED
      BY <2>1, <3>2, <3>3 DEF RowMove, RowCreated, AckInv
  <2>2. CASE i # j
    <3>1. ASSUME NEW y \in PlacesOf(i)' PROVE y \in PlacesOf(i)
      <4>1. HeldBy(y, i)' => HeldBy(y, i)
        BY <1>1, <2>2 DEF HeldBy
      <4>2. OnItsWay(y, i)' \/ AnswerOnItsWay(y, i)' => OnItsWay(y, i) \/ AnswerOnItsWay(y, i)
        BY DEF OnItsWay, AnswerOnItsWay, Msg
      <4>3. QED
        BY <3>1, <4>1, <4>2, PlaceCases
    <3>2. Carried(i)
      BY <3>1, InclusionCarried
    <3>3. QED
      BY <2>2, <3>2 DEF RowMove, RowKept, TypeOK
  <2>3. QED
    BY <2>1, <2>2
<1>3. \A c \in Conns : task'[c] = task[c] \/ TrueAck(c)'
  BY <1>1 DEF TrueAck, Tasks
<1>4. \A c \in Conns : TrueAnswers(c)'
  BY SameLinksFewer, AnswersKept
<1>5. started' \subseteq Jobs
  BY DEF TypeOK
<1>6. QED
  BY <1>2, <1>3, <1>4, <1>5, AckStep

\* A delivered job.assign is the next place of its job.
LEMMA SentAck ==
    ASSUME TypeOK, AckInv, NEW p \in Tasks, NEW d \in Conns, At(p, "send"),
           Deliver(d, Msg("assign", task[p].job)),
           \A q \in Tasks : q # p => task'[q] = task[q],
           task'[p].pc \notin Holding \cup {"ackJob", "ackMiner"},
           job' = job, miner' = miner, started' = started
    PROVE  AckInv'
<1>1. task[p].job \in Jobs /\ TasksFewer
  BY OneTaskFewer DEF TypeOK, TasksOK, At
<1>t. \A c \in Conns : task'[c] = task[c] \/ TrueAck(c)'
  BY DEF TrueAck, Tasks
<1>2. CASE link' = link
  <2>1. LinksFewer
    BY <1>2, SameLinksFewer
  <2>2. QED
    BY <1>1, <1>t, <2>1, AckKept DEF Ends
<1>3. CASE link' = [link EXCEPT ![d].toW = Append(@, Msg("assign", task[p].job))]
  <2> PICK n \in Nat, m \in Message :
           n = Len(link[d].toW) /\ m = Msg("assign", task[p].job) /\ link[d].toW \in Seq(Message)
    <3>1. link[d].toW \in Seq(Message)
      BY DEF TypeOK, Link
    <3>2. Msg("assign", task[p].job) \in Message
      BY <1>1 DEF Msg, Message
    <3>3. QED
      BY <3>1, <3>2
  <2>1. /\ \A c \in Conns : link'[c].toH = link[c].toH /\ (c # d => link'[c].toW = link[c].toW)
        /\ link'[d].toW = Append(link[d].toW, m)
    BY <1>3 DEF TypeOK, Link
  <2>2. /\ \A i \in 1..Len(link'[d].toW) : i = n + 1 \/ (i \in 1..n /\ link'[d].toW[i] = link[d].toW[i])
        /\ link'[d].toW[n + 1] = m
    BY <2>1
  <2>3. ASSUME NEW j \in Jobs PROVE Carried(j)
    <3> DEFINE new == <<"toW", d, n + 1>>
               f == [x \in PlacesOf(j)' |-> IF x = new THEN <<"task", p, 0>> ELSE x]
    <3>1. ASSUME NEW x \in PlacesOf(j)', x # new PROVE x \in PlacesOf(j) /\ x # <<"task", p, 0>>
      <4>1. CASE HeldBy(x, j)'
        <5>1. PICK q \in Tasks : x = <<"task", q, 0>> /\ task'[q].pc \in Holding /\ task'[q].job = j
          BY <4>1 DEF HeldBy
        <5>2. q # p /\ HeldBy(x, j)
          BY <5>1 DEF HeldBy
        <5>3. QED
          BY <5>1, <5>2, PlaceCases
      <4>2. CASE OnItsWay(x, j)'
        <5> PICK c \in Conns : \E i \in 1..Len(link'[c].toW) :
                  x = <<"toW", c, i>> /\ link'[c].toW[i] = Msg("assign", j)
          BY <4>2 DEF OnItsWay, Msg
        <5>1. PICK i \in 1..Len(link'[c].toW) : x = <<"toW", c, i>> /\ link'[c].toW[i] = Msg("assign", j)
          OBVIOUS
        <5>2. i \in 1..Len(link[c].toW) /\ link[c].toW[i] = Msg("assign", j)
          BY <2>1, <2>2, <3>1, <5>1
        <5>3. OnItsWay(x, j)
          BY <5>1, <5>2 DEF OnItsWay
        <5>4. QED
          BY <5>1, <5>3, PlaceCases
      <4>3. CASE AnswerOnItsWay(x, j)'
        <5>1. AnswerOnItsWay(x, j) /\ x # <<"task", p, 0>>
          BY <2>1, <4>3 DEF AnswerOnItsWay
        <5>2. QED
          BY <5>1, PlaceCases
      <4>4. QED
        BY <3>1, <4>1, <4>2, <4>3, PlaceCases
    <3>2. ASSUME new \in PlacesOf(j)' PROVE <<"task", p, 0>> \in PlacesOf(j)
      <4>1. OnItsWay(new, j)'
        BY <3>2, PlaceCases DEF HeldBy, AnswerOnItsWay
      <4>2. n + 1 \in 1..Len(link'[d].toW) /\ link'[d].toW[n + 1] = Msg("assign", j)
        BY <4>1 DEF OnItsWay, Msg
      <4>3. m = Msg("assign", j)
        BY <2>2, <4>2
      <4>4. task[p].job = j
        BY <4>3 DEF Msg
      <4>5. QED
        BY <4>4, PlaceCases DEF HeldBy, Holding, At
    <3>3. \A x, y \in PlacesOf(j)' : f[x] \in PlacesOf(j) /\ (f[x] = f[y] => x = y)
      BY <3>1, <3>2
    <3>4. QED
      BY <3>3 DEF Carried
  <2>4. \A j \in Jobs : RowMove(j)
    BY <2>3 DEF RowMove, RowKept
  <2>5. \A c \in Conns : TrueAnswers(c)'
    BY <2>1 DEF AckInv, TrueAnswers
  <2>6. started' \subseteq Jobs
    BY DEF TypeOK
  <2>7. QED
    BY <1>t, <2>4, <2>5, <2>6, AckStep
<1>4. QED
  BY <1>2, <1>3 DEF Deliver

\* The first message of a queue is taken, the rest moves up: the place that is left
\* becomes the place `new'.
Shifted(j, k, c, new) ==
    /\ \A i \in Nat : new # <<k, c, i>>
    /\ \A x \in PlacesOf(j)' :
          \/ x = new /\ <<k, c, 1>> \in PlacesOf(j)
          \/ \E i \in Nat \ {0} : x = <<k, c, i>> /\ <<k, c, i + 1>> \in PlacesOf(j)
          \/ x \in PlacesOf(j) /\ x # new /\ \A i \in Nat : x # <<k, c, i>>

LEMMA ShiftCarried ==
    ASSUME NEW j, NEW k, NEW c, NEW new, Shifted(j, k, c, new) PROVE Carried(j)
<1> USE DEF Shifted
<1> DEFINE f == [x \in PlacesOf(j)' |-> IF x = new THEN <<k, c, 1>>
                                        ELSE IF \E i \in Nat : x = <<k, c, i>> THEN <<k, c, x[3] + 1>>
                                        ELSE x]
<1>1. ASSUME NEW x \in PlacesOf(j)'
      PROVE  \/ x = new /\ f[x] = <<k, c, 1>> /\ f[x] \in PlacesOf(j)
             \/ \E i \in Nat \ {0} : x = <<k, c, i>> /\ f[x] = <<k, c, i + 1>> /\ f[x] \in PlacesOf(j)
             \/ f[x] = x /\ f[x] \in PlacesOf(j) /\ x # new /\ \A i \in Nat : x # <<k, c, i>>
  <2>1. CASE x = new
    BY <2>1
  <2>2. ASSUME NEW i \in Nat \ {0}, x = <<k, c, i>>, <<k, c, i + 1>> \in PlacesOf(j)
        PROVE  f[x] = <<k, c, i + 1>>
    <3>1. x # new /\ x[3] = i /\ \E n \in Nat : x = <<k, c, n>>
      BY <2>2
    <3>2. QED
      BY <3>1
  <2>3. CASE x \in PlacesOf(j) /\ x # new /\ \A i \in Nat : x # <<k, c, i>>
    BY <2>3
  <2>4. QED
    BY <2>1, <2>2, <2>3
<1> HIDE DEF f
<1>2. ASSUME NEW x \in PlacesOf(j)', NEW y \in PlacesOf(j)', f[x] = f[y] PROVE x = y
  <2>1. CASE x = new /\ f[x] = <<k, c, 1>>
    <3>1. \A i \in Nat \ {0} : f[y] # <<k, c, i + 1>>
      BY <1>2, <2>1
    <3>2. 1 \in Nat
      OBVIOUS
    <3>3. QED
      BY <1>1, <1>2, <2>1, <3>1, <3>2
  <2>2. ASSUME NEW i \in Nat \ {0}, x = <<k, c, i>>, f[x] = <<k, c, i + 1>> PROVE x = y
    BY <1>1, <1>2, <2>2
  <2>3. CASE f[x] = x /\ x # new /\ \A i \in Nat : x # <<k, c, i>>
    <3>1. x # <<k, c, 1>> /\ \A i \in Nat \ {0} : x # <<k, c, i + 1>>
      BY <2>3
    <3>2. f[y] = x
      BY <1>2, <2>3
    <3>3. QED
      BY <1>1, <3>1, <3>2
  <2>4. QED
    BY <1>1, <2>1, <2>2, <2>3
<1>3. \A x, y \in PlacesOf(j)' : f[x] \in PlacesOf(j) /\ (f[x] = f[y] => x = y)
  BY <1>1, <1>2
<1>4. QED
  BY <1>3 DEF Carried

\* The worker takes a message; if it is a job.assign it may answer it.
LEMMA TakenAck ==
    ASSUME TypeOK, AckInv, NEW c \in Conns, link[c].toW # <<>>,
           NEW a \in Jobs, a = Head(link[c].toW).job,
           \/ link' = Take(c) /\ started' = started
           \/ /\ Head(link[c].toW).kind = "assign"
              /\ \/ link' = TakeAndAnswer(c, "ackErr", a) /\ started' = started
                 \/ link' = TakeAndAnswer(c, "ackOk", a) /\ started' = started \cup {a},
           job' = job, task' = task, miner' = miner
    PROVE  AckInv'
<1>1. link[c].toW \in Seq(Message) /\ link[c].toH \in Seq(Message) /\ link[c] \in Link
  BY DEF TypeOK, Link
<1>2. /\ \A d \in Conns : d # c => link'[d] = link[d]
      /\ link'[c].toW = Tail(link[c].toW)
      /\ \/ link'[c].toH = link[c].toH
         \/ link'[c].toH = Append(link[c].toH, Msg("ackErr", a)) /\ started' = started
         \/ link'[c].toH = Append(link[c].toH, Msg("ackOk", a)) /\ started' = started \cup {a}
      /\ link'[c].toH # link[c].toH \/ started' # started => Head(link[c].toW).kind = "assign"
      /\ started' = started \/ started' = started \cup {a}
  BY <1>1 DEF TypeOK, Link, Take, TakeAndAnswer
<1>3. \A i \in 1..Len(link'[c].toW) :
         i + 1 \in 1..Len(link[c].toW) /\ link'[c].toW[i] = link[c].toW[i + 1]
  BY <1>1, <1>2
<1>4. PICK h \in Nat : h = Len(link[c].toH) + 1
  BY <1>1
<1>5. \A i \in 1..Len(link'[c].toH) :
         \/ i \in 1..Len(link[c].toH) /\ link'[c].toH[i] = link[c].toH[i]
         \/ /\ i = h /\ Head(link[c].toW).kind = "assign"
            /\ link'[c].toH[i] = Msg("ackErr", a) \/ (link'[c].toH[i] = Msg("ackOk", a) /\ a \in started')
  <2>1. CASE link'[c].toH = link[c].toH
    BY <2>1
  <2>2. ASSUME NEW m \in Message, link'[c].toH = Append(link[c].toH, m)
        PROVE  \A i \in 1..Len(link'[c].toH) :
                  \/ i \in 1..Len(link[c].toH) /\ link'[c].toH[i] = link[c].toH[i]
                  \/ i = h /\ link'[c].toH[i] = m
    BY <1>1, <1>4, <2>2
  <2>3. Msg("ackErr", a) \in Message /\ Msg("ackOk", a) \in Message
    BY DEF Msg, Message
  <2>4. QED
    BY <1>2, <2>1, <2>2, <2>3
<1> PICK new : new = <<"toH", c, h>>
  OBVIOUS
<1>6. ASSUME NEW j \in Jobs PROVE Shifted(j, "toW", c, new)
  <2>1. \A i \in Nat : new # <<"toW", c, i>>
    OBVIOUS
  <2>2. ASSUME NEW x \in PlacesOf(j)'
        PROVE  \/ x = new /\ <<"toW", c, 1>> \in PlacesOf(j)
               \/ \E i \in Nat \ {0} : x = <<"toW", c, i>> /\ <<"toW", c, i + 1>> \in PlacesOf(j)
               \/ x \in PlacesOf(j) /\ x # new /\ \A i \in Nat : x # <<"toW", c, i>>
    <3>1. CASE HeldBy(x, j)'
      BY <3>1, PlaceCases DEF HeldBy
    <3>2. CASE OnItsWay(x, j)'
      <4>1. PICK d \in Conns : \E i \in 1..Len(link'[d].toW) :
                x = <<"toW", d, i>> /\ link'[d].toW[i] = Msg("assign", j)
        BY <3>2 DEF OnItsWay, Msg
      <4>2. PICK i \in 1..Len(link'[d].toW) : x = <<"toW", d, i>> /\ link'[d].toW[i] = Msg("assign", j)
        BY <4>1
      <4>3. CASE d = c
        <5> i \in 1..Len(link'[c].toW) /\ i \in Nat \ {0}
          BY <4>2, <4>3
        <5>1. i + 1 \in 1..Len(link[c].toW) /\ link[c].toW[i + 1] = Msg("assign", j)
          BY <1>3, <4>2, <4>3
        <5>2. OnItsWay(<<"toW", c, i + 1>>, j)
          BY <5>1 DEF OnItsWay
        <5>3. QED
          BY <4>2, <4>3, <5>1, <5>2, PlaceCases
      <4>4. CASE d # c
        <5>1. OnItsWay(x, j)
          BY <1>2, <4>2, <4>4 DEF OnItsWay
        <5>2. QED
          BY <4>2, <4>4, <5>1, PlaceCases
      <4>5. QED
        BY <4>3, <4>4
    <3>3. CASE AnswerOnItsWay(x, j)'
      <4>1. PICK d \in Conns : \E i \in 1..Len(link'[d].toH) :
                x = <<"toH", d, i>> /\ link'[d].toH[i] = Msg("ackErr", j)
        BY <3>3 DEF AnswerOnItsWay, Msg
      <4>2. PICK i \in 1..Len(link'[d].toH) : x = <<"toH", d, i>> /\ link'[d].toH[i] = Msg("ackErr", j)
        BY <4>1
      <4>3. CASE d = c /\ i = h /\ Head(link[c].toW).kind = "assign" /\ link'[c].toH[i] = Msg("ackErr", a)
        <5>1. 1 \in 1..Len(link[c].toW) /\ link[c].toW[1] = Head(link[c].toW) /\ link[c].toW[1] \in Message
          BY <1>1
        <5>2. link[c].toW[1] = Msg("assign", j)
          BY <4>2, <4>3, <5>1 DEF Message, Msg
        <5>3. OnItsWay(<<"toW", c, 1>>, j)
          BY <5>1, <5>2 DEF OnItsWay
        <5>4. QED
          BY <4>2, <4>3, <5>3, PlaceCases
      <4>4. CASE d = c /\ i \in 1..Len(link[c].toH) /\ link'[c].toH[i] = link[c].toH[i]
        <5>1. AnswerOnItsWay(x, j) /\ x # new
          BY <1>1, <1>4, <4>2, <4>4 DEF AnswerOnItsWay
        <5>2. QED
          BY <4>2, <5>1, PlaceCases
      <4>5. CASE d # c
        <5>1. AnswerOnItsWay(x, j) /\ x # new
          BY <1>2, <4>2, <4>5 DEF AnswerOnItsWay
        <5>2. QED
          BY <4>2, <5>1, PlaceCases
      <4>6. QED
        BY <1>5, <4>2, <4>3, <4>4, <4>5 DEF Msg
    <3>4. QED
      BY <2>2, <3>1, <3>2, <3>3, PlaceCases
  <2>3. QED
    BY <2>1, <2>2 DEF Shifted
<1>7. ASSUME started' # started
      PROVE  /\ job[a].st \notin {"none", "error"} /\ PlacesOf(a)' = {}
             /\ a \in started' /\ started' = started \cup {a}
  <2>1. link[c].toW[1] = Msg("assign", a) /\ 1 \in 1..Len(link[c].toW)
    <3>1. 1 \in 1..Len(link[c].toW) /\ link[c].toW[1] = Head(link[c].toW) /\ link[c].toW[1] \in Message
      BY <1>1
    <3>2. QED
      BY <1>2, <1>7, <3>1 DEF Message, Msg
  <2>2. <<"toW", c, 1>> \in PlacesOf(a)
    BY <2>1, PlaceCases DEF OnItsWay
  <2>3. job[a].st \notin {"none", "error"} /\ \A y \in PlacesOf(a) : y = <<"toW", c, 1>>
    BY <2>2 DEF AckInv, OnePlace
  <2>4. new \notin PlacesOf(a)'
    <3>1. ~HeldBy(new, a)' /\ ~OnItsWay(new, a)'
      BY DEF HeldBy, OnItsWay
    <3>2. ASSUME h \in 1..Len(link'[c].toH) PROVE link'[c].toH[h].kind = "ackOk"
      BY <1>1, <1>2, <1>4, <1>7, <3>2 DEF Msg
    <3>3. ~AnswerOnItsWay(new, a)'
      BY <3>2 DEF AnswerOnItsWay, Msg
    <3>4. QED
      BY <3>1, <3>3, PlaceCases
  <2>5. \A i \in Nat \ {0} : <<"toW", c, i + 1>> # <<"toW", c, 1>>
    OBVIOUS
  <2>6. ASSUME NEW x \in PlacesOf(a)' PROVE FALSE
    <3>1. \/ \E i \in Nat \ {0} : x = <<"toW", c, i>> /\ <<"toW", c, i + 1>> \in PlacesOf(a)
          \/ x \in PlacesOf(a) /\ \A i \in Nat : x # <<"toW", c, i>>
      BY <1>6, <2>4, <2>6 DEF Shifted
    <3>2. ~\E i \in Nat \ {0} : <<"toW", c, i + 1>> \in PlacesOf(a)
      BY <2>3, <2>5
    <3>3. QED
      BY <2>3, <3>1, <3>2
  <2>7. QED
    BY <1>2, <1>7, <2>3, <2>6
<1>8. ASSUME NEW j \in Jobs PROVE RowMove(j)
  <2>1. CASE started' # started /\ j = a
    BY <1>7, <2>1 DEF RowMove, RowStarted
  <2>2. CASE started' = started \/ j # a
    BY <1>6, <1>7, <2>2, ShiftCarried DEF RowMove, RowKept
  <2>3. QED
    BY <2>1, <2>2
<1>9. started \subseteq started' /\ started' \subseteq Jobs
  BY <1>2 DEF TypeOK
<1>10. ASSUME NEW d \in Conns PROVE TrueAnswers(d)'
  <2>1. CASE d = c
    <3>1. ASSUME NEW i \in 1..Len(link'[c].toH)
          PROVE  \/ link'[c].toH[i].kind = "ackErr"
                 \/ link'[c].toH[i].kind = "ackOk" /\ link'[c].toH[i].job \in started'
      <4>1. CASE i \in 1..Len(link[c].toH) /\ link'[c].toH[i] = link[c].toH[i]
        BY <1>9, <4>1 DEF AckInv, TrueAnswers
      <4>2. CASE link'[c].toH[i] = Msg("ackErr", a) \/ (link'[c].toH[i] = Msg("ackOk", a) /\ a \in started')
        BY <4>2 DEF Msg
      <4>3. QED
        BY <1>5, <4>1, <4>2
    <3>2. QED
      BY <2>1, <3>1 DEF TrueAnswers
  <2>2. CASE d # c
    BY <1>2, <1>9, <2>2 DEF AckInv, TrueAnswers
  <2>3. QED
    BY <2>1, <2>2
<1>11. QED
  BY <1>8, <1>9, <1>10, AckStep

\* handleAck takes an answer over, or drops it.
LEMMA ReceivedAck ==
    ASSUME TypeOK, AckInv, NEW c \in Conns, ReceiveAck(c) PROVE AckInv'
<1>1. c \in Tasks /\ link[c].toH \in Seq(Message) /\ link[c] \in Link /\ task[c] \in Task
  BY DEF TypeOK, TasksOK, Link, Tasks
<1>2. /\ At(c, "reading") /\ link[c].toH # <<>>
      /\ link' = [link EXCEPT ![c].toH = Tail(@)]
      /\ job' = job /\ miner' = miner /\ started' = started
  BY DEF ReceiveAck, dbVars
<1>3. /\ \A d \in Conns : link'[d].toW = link[d].toW /\ (d # c => link'[d].toH = link[d].toH)
      /\ link'[c].toH = Tail(link[c].toH)
  BY <1>2 DEF TypeOK, Link
<1>4. /\ \A i \in 1..Len(link'[c].toH) : i + 1 \in 1..Len(link[c].toH) /\ link'[c].toH[i] = link[c].toH[i + 1]
      /\ 1 \in 1..Len(link[c].toH) /\ link[c].toH[1] = Head(link[c].toH) /\ Head(link[c].toH) \in Message
  <2>1. \A s \in Seq(Message) : s # <<>> =>
           /\ \A i \in 1..Len(Tail(s)) : i + 1 \in 1..Len(s) /\ Tail(s)[i] = s[i + 1]
           /\ 1 \in 1..Len(s) /\ s[1] = Head(s) /\ Head(s) \in Message
    OBVIOUS
  <2>2. QED
    BY <1>1, <1>2, <1>3, <2>1
<1>5. PICK a \in Jobs : a = Head(link[c].toH).job
  BY <1>4 DEF Message
<1>t. \/ Head(link[c].toH) = Msg("ackErr", a)
      \/ Head(link[c].toH).kind = "ackOk" /\ a \in started
  BY <1>4, <1>5 DEF AckInv, TrueAnswers, Message, Msg
<1>6. /\ \A q \in Tasks : q # c => task'[q] = task[q]
      /\ \/ task'[c] = task[c]
         \/ task'[c].pc = "errJob" /\ task'[c].job = a /\ Head(link[c].toH) = Msg("ackErr", a)
         \/ task'[c].pc = "ackJob" /\ task'[c].job = a /\ task'[c].miner = job[a].miner /\ a \in started
  <2>1. CASE task' = task
    BY <2>1
  <2>2. ASSUME NEW pc,
               task' = [task EXCEPT ![c].pc = pc, ![c].job = a, ![c].miner = job[a].miner]
        PROVE  /\ \A q \in Tasks : q # c => task'[q] = task[q]
               /\ task'[c].pc = pc /\ task'[c].job = a /\ task'[c].miner = job[a].miner
    BY <1>1, <2>2 DEF TypeOK, TasksOK, Task
  <2>3. PICK pc :
           /\ pc = IF Head(link[c].toH).kind = "ackOk" THEN "ackJob" ELSE "errJob"
           /\ \/ task' = task
              \/ task' = [task EXCEPT ![c].pc = pc, ![c].job = a, ![c].miner = job[a].miner]
    BY <1>5 DEF ReceiveAck
  <2>4. \/ pc = "errJob" /\ Head(link[c].toH) = Msg("ackErr", a)
        \/ pc = "ackJob" /\ a \in started
    <3>1. Msg("ackErr", a).kind # "ackOk"
      BY DEF Msg
    <3>2. QED
      BY <1>t, <2>3, <3>1
  <2>5. QED
    BY <2>1, <2>2, <2>3, <2>4
<1>7. ASSUME NEW j \in Jobs PROVE Carried(j)
  <2> PICK new : new = <<"task", c, 0>>
    OBVIOUS
  <2>1. \A i \in Nat : new # <<"toH", c, i>>
    OBVIOUS
  <2>2. ASSUME NEW x \in PlacesOf(j)'
        PROVE  \/ x = new /\ <<"toH", c, 1>> \in PlacesOf(j)
               \/ \E i \in Nat \ {0} : x = <<"toH", c, i>> /\ <<"toH", c, i + 1>> \in PlacesOf(j)
               \/ x \in PlacesOf(j) /\ x # new /\ \A i \in Nat : x # <<"toH", c, i>>
    <3>1. CASE HeldBy(x, j)'
      <4>1. PICK q \in Tasks : x = <<"task", q, 0>> /\ task'[q].pc \in Holding /\ task'[q].job = j
        BY <3>1 DEF HeldBy
      <4>2. CASE q = c
        <5>1. a = j /\ link[c].toH[1] = Msg("ackErr", j)
          BY <1>2, <1>4, <1>6, <4>1, <4>2 DEF At, Holding
        <5>2. AnswerOnItsWay(<<"toH", c, 1>>, j)
          BY <1>4, <5>1 DEF AnswerOnItsWay
        <5>3. QED
          BY <4>1, <4>2, <5>2, PlaceCases
      <4>3. CASE q # c
        <5>1. HeldBy(x, j)
          BY <1>6, <4>1, <4>3 DEF HeldBy
        <5>2. QED
          BY <4>1, <4>3, <5>1, PlaceCases
      <4>4. QED
        BY <4>2, <4>3
    <3>2. CASE OnItsWay(x, j)'
      <4>1. PICK d \in Conns : \E i \in 1..Len(link[d].toW) :
                x = <<"toW", d, i>> /\ link[d].toW[i] = Msg("assign", j)
        BY <1>3, <3>2 DEF OnItsWay, Msg
      <4>2. OnItsWay(x, j)
        BY <4>1 DEF OnItsWay
      <4>3. x # new /\ \A i \in Nat : x # <<"toH", c, i>>
        BY <4>1
      <4>4. QED
        BY <4>2, <4>3, PlaceCases
    <3>3. CASE AnswerOnItsWay(x, j)'
      <4>1. PICK d \in Conns : \E i \in 1..Len(link'[d].toH) :
                x = <<"toH", d, i>> /\ link'[d].toH[i] = Msg("ackErr", j)
        BY <3>3 DEF AnswerOnItsWay, Msg
      <4>2. PICK i \in 1..Len(link'[d].toH) : x = <<"toH", d, i>> /\ link'[d].toH[i] = Msg("ackErr", j)
        BY <4>1
      <4>3. CASE d = c
        <5>1. i + 1 \in 1..Len(link[c].toH) /\ link[c].toH[i + 1] = Msg("ackErr", j)
          BY <1>4, <4>2, <4>3
        <5>2. AnswerOnItsWay(<<"toH", c, i + 1>>, j) /\ i \in Nat \ {0}
          BY <5>1 DEF AnswerOnItsWay
        <5>3. QED
          BY <4>2, <4>3, <5>1, <5>2, PlaceCases
      <4>4. CASE d # c
        <5>1. AnswerOnItsWay(x, j)
          BY <1>3, <4>2, <4>4 DEF AnswerOnItsWay
        <5>2. QED
          BY <4>2, <4>4, <5>1, PlaceCases
      <4>5. QED
        BY <4>3, <4>4
    <3>4. QED
      BY <2>2, <3>1, <3>2, <3>3, PlaceCases
  <2>3. Shifted(j, "toH", c, new)
    BY <2>1, <2>2 DEF Shifted
  <2>4. QED
    BY <2>3, ShiftCarried
<1>8. \A j \in Jobs : RowMove(j)
  BY <1>2, <1>7 DEF RowMove, RowKept
<1>9. \A d \in Conns : task'[d] = task[d] \/ TrueAck(d)'
  BY <1>2, <1>6 DEF TrueAck, Tasks
<1>10. ASSUME NEW d \in Conns PROVE TrueAnswers(d)'
  <2>1. CASE d = c
    BY <1>2, <1>4, <2>1 DEF AckInv, TrueAnswers
  <2>2. CASE d # c
    BY <1>2, <1>3, <2>2 DEF AckInv, TrueAnswers
  <2>3. QED
    BY <2>1, <2>2
<1>11. started' \subseteq Jobs
  BY <1>2 DEF TypeOK
<1>12. QED
  BY <1>2, <1>8, <1>9, <1>10, <1>11, AckStep

\* The ack is recorded, or it is not; the miner that it is about stays the same.
LEMMA AckJobAck ==
    ASSUME TypeOK, AckInv, NEW c \in Conns, AckJob(c) PROVE AckInv'
<1>1. c \in Tasks /\ task[c].pc = "ackJob" /\ miner' = miner /\ link' = link /\ started' = started
  BY DEF AckJob, At, Tasks, netVars
<1>2. PICK a \in Jobs, ok \in BOOLEAN :
          a = task[c].job /\ a \in started /\ job[a].miner = task[c].miner /\ AckRow(ok, a)
  <2>1. task[c].job \in started /\ job[task[c].job].miner = task[c].miner /\ started \subseteq Jobs
    BY <1>1 DEF AckInv, TrueAck, TypeOK
  <2>2. \E ok \in BOOLEAN : AckRow(ok, task[c].job)
    BY DEF AckJob, Outcomes
  <2>3. QED
    BY <2>1, <2>2
<1>3. /\ task'[c].pc = "ackMiner" /\ task'[c].job = a /\ task'[c].miner = task[c].miner
      /\ \A q \in Tasks : q # c => task'[q] = task[q]
  BY <1>1, <1>2, Leaves, OthersUntouched DEF AckJob
<1>4. TasksFewer /\ LinksFewer
  BY <1>1, <1>3, OneTaskFewer, SameLinksFewer DEF Holding
<1>5. ASSUME NEW j \in Jobs PROVE Ends(j) /\ job'[j].miner = job[j].miner
  <2>1. CASE ok /\ HasJob(a)
    <3>1. job' = [job EXCEPT ![a] = [@ EXCEPT !.st = "ack"]] /\ job[a] \in JobRow
      BY <1>2, <2>1 DEF AckRow, TypeOK
    <3>2. QED
      BY <2>1, <3>1 DEF TypeOK, JobRow, Ends, HasJob
  <2>2. CASE ~(ok /\ HasJob(a))
    BY <1>2, <2>2 DEF AckRow, Ends
  <2>3. QED
    BY <2>1, <2>2
<1>6. \A d \in Conns : task'[d] = task[d] \/ TrueAck(d)'
  BY <1>1, <1>2, <1>3, <1>5 DEF TrueAck, Tasks
<1>7. QED
  BY <1>1, <1>4, <1>5, <1>6, AckKept

\* Only now the miner is 'running'.
LEMMA AckMinerAck ==
    ASSUME TypeOK, AckInv, NEW c \in Conns, AckMiner(c) PROVE AckInv'
<1>1. PICK ok :
         /\ c \in Tasks /\ task[c].pc = "ackMiner" /\ job' = job /\ link' = link /\ started' = started
         /\ task' = [task EXCEPT ![c] = Reading] /\ SetMinerStatus(ok, task[c].miner, "running")
  BY DEF AckMiner, At, Tasks, netVars
<1>2. /\ task'[c].pc = "reading"
      /\ \A q \in Tasks : q # c => task'[q] = task[q]
  BY <1>1 DEF TypeOK, TasksOK, Reading, IdleTask
<1>3. TasksFewer /\ LinksFewer
  BY <1>1, <1>2, OneTaskFewer, SameLinksFewer DEF Holding
<1>4. \A d \in Conns : task'[d] = task[d] \/ TrueAck(d)'
  BY <1>2 DEF TrueAck, Tasks
<1>5. \E j \in started : job[j].miner = task[c].miner
  BY <1>1 DEF AckInv, TrueAck
<1>6. \A m \in Miners : miner'[m] = "running" => miner[m] = "running" \/ \E j \in started : job[j].miner = m
  <2>1. \A m \in Miners : m # task[c].miner => miner'[m] = miner[m]
    BY <1>1 DEF SetMinerStatus, TypeOK
  <2>2. QED
    BY <1>5, <2>1
<1>7. QED
  BY <1>1, <1>3, <1>4, <1>6, AckKept DEF Ends

LEMMA AssignAck ==
    ASSUME TypeOK, AckInv, DispatchInv, NEW p \in Tasks, AssignStep(p) PROVE AckInv'
<1>1. CASE PickWorker(p)
  <2>1. task'[p].pc \notin Holding \cup {"ackJob", "ackMiner"}
    <3>1. ASSUME NEW v, task' = [task EXCEPT ![p].pc = "create", ![p].wk = v, ![p].tc = conns[v]]
          PROVE  task'[p].pc = "create"
      BY <3>1 DEF TypeOK, TasksOK, Task
    <3>2. QED
      BY <1>1, <3>1, Leaves DEF PickWorker, Holding
  <2>2. \A q \in Tasks : q # p => task'[q] = task[q]
    <3>1. CASE AssignReturns(p)
      BY <3>1, OthersUntouched
    <3>2. ASSUME NEW v, task' = [task EXCEPT ![p].pc = "create", ![p].wk = v, ![p].tc = conns[v]]
          PROVE  \A q \in Tasks : q # p => task'[q] = task[q]
      BY <3>2 DEF TypeOK, TasksOK
    <3>3. QED
      BY <1>1, <3>1, <3>2 DEF PickWorker
  <2>3. job' = job /\ link' = link /\ miner' = miner /\ started' = started
    BY <1>1 DEF PickWorker, netVars
  <2>4. TasksFewer /\ LinksFewer
    BY <2>1, <2>2, <2>3, OneTaskFewer, SameLinksFewer
  <2>5. \A c \in Conns : task'[c] = task[c] \/ TrueAck(c)'
    BY <2>1, <2>2 DEF Tasks, TrueAck
  <2>6. QED
    BY <2>3, <2>4, <2>5, AckKept DEF Ends
<1>2. CASE CreateJob(p)
  <2>1. link' = link /\ miner' = miner /\ started' = started
    BY <1>2 DEF CreateJob, netVars
  <2>2. ASSUME NEW j \in Jobs, NEW x, x.st = "assigned", job[j].st = "none", job' = [job EXCEPT ![j] = x],
               task' = [task EXCEPT ![p].pc = "send", ![p].job = j]
        PROVE  AckInv'
    BY <2>1, <2>2, CreateAck
  <2>3. ASSUME AssignReturns(p), job' = job PROVE AckInv'
    <3>1. task'[p].pc \notin Holding \cup {"ackJob", "ackMiner"} /\ \A q \in Tasks : q # p => task'[q] = task[q]
      BY <2>3, Leaves, OthersUntouched DEF Holding
    <3>2. TasksFewer /\ LinksFewer
      BY <2>1, <3>1, OneTaskFewer, SameLinksFewer
    <3>3. \A c \in Conns : task'[c] = task[c] \/ TrueAck(c)'
      BY <3>1 DEF Tasks, TrueAck
    <3>4. QED
      BY <2>1, <2>3, <3>2, <3>3, AckKept DEF Ends
  <2>4. QED
    BY <1>2, <2>2, <2>3 DEF CreateJob
<1>3. CASE SendAssign(p)
  <2>1. At(p, "send") /\ job' = job /\ miner' = miner /\ started' = started
    BY <1>3 DEF SendAssign, dbVars
  <2>2. task[p].tc \in Conns
    BY <2>1, InvParts DEF ChoiceOwn, At
  <2>3. CASE Deliver(task[p].tc, Msg("assign", task[p].job)) /\ AssignReturns(p)
    <3>1. task'[p].pc \notin Holding \cup {"ackJob", "ackMiner"} /\ \A q \in Tasks : q # p => task'[q] = task[q]
      BY <2>3, Leaves, OthersUntouched DEF Holding
    <3>2. QED
      BY <2>1, <2>2, <2>3, <3>1, SentAck
  <2>4. CASE Goto(p, "jobErr") /\ link' = link
    <3>1. task'[p].pc = "jobErr" /\ task'[p].job = task[p].job /\ \A q \in Tasks : q # p => task'[q] = task[q]
      BY <2>4, Leaves, OthersUntouched
    <3>2. TasksFewer /\ LinksFewer
      BY <2>1, <2>4, <3>1, OneTaskFewer, SameLinksFewer DEF Holding, At
    <3>3. \A c \in Conns : task'[c] = task[c] \/ TrueAck(c)'
      BY <3>1 DEF Tasks, TrueAck
    <3>4. QED
      BY <2>1, <3>2, <3>3, AckKept DEF Ends
  <2>5. QED
    BY <1>3, <2>3, <2>4 DEF SendAssign
<1>4. CASE AssignFailed(p)
  <2>1. task'[p].pc \notin Holding \cup {"ackJob", "ackMiner"} /\ \A q \in Tasks : q # p => task'[q] = task[q]
    BY <1>4, Leaves, OthersUntouched DEF AssignFailed, Holding
  <2>2. PICK ok : /\ task[p].pc = "jobErr" /\ link' = link /\ miner' = miner /\ started' = started
                  /\ EndJob(ok, task[p].job, "error")
    BY <1>4 DEF AssignFailed, At, netVars
  <2>3. QED
    BY <2>1, <2>2, FailureAck
<1>5. QED
  BY <1>1, <1>2, <1>3, <1>4 DEF AssignStep

\* A step of a goroutine that holds nothing and takes no answer over
LEMMA PlainAck ==
    ASSUME TypeOK, AckInv, NEW p \in Tasks,
           \A q \in Tasks : q # p => task'[q] = task[q],
           task'[p].pc \notin Holding \cup {"ackJob", "ackMiner"},
           LinksFewer, started' = started, \A j \in Jobs : Ends(j),
           \A m \in Miners : miner'[m] = "running" => miner[m] = "running"
    PROVE  AckInv'
<1>1. TasksFewer
  BY OneTaskFewer
<1>2. \A c \in Conns : task'[c] = task[c] \/ TrueAck(c)'
  BY DEF Tasks, TrueAck
<1>3. QED
  BY <1>1, <1>2, AckKept

LEMMA StatusKept ==
    ASSUME TypeOK, NEW ok, NEW m, NEW s, s # "running", SetMinerStatus(ok, m, s)
    PROVE  \A n \in Miners : miner'[n] = "running" => miner[n] = "running"
BY DEF SetMinerStatus, TypeOK

LEMMA ConnAck ==
    ASSUME TypeOK, AckInv, DispatchInv, NEW c \in Conns, ConnStep(c) PROVE AckInv'
<1>0. c \in Tasks
  BY DEF Tasks
<1>1. CASE Register(c)
  <2>1. task'[c].pc = "joined" /\ \A q \in Tasks : q # c => task'[q] = task[q]
    BY <1>0, <1>1, Leaves, OthersUntouched DEF Register
  <2>2. LinksFewer
    BY <1>1, SameLinksFewer, DownFewer DEF Register
  <2>3. job' = job /\ miner' = miner /\ started' = started
    BY <1>1 DEF Register, dbVars
  <2>4. QED
    BY <1>0, <2>1, <2>2, <2>3, PlainAck DEF Ends, Holding
<1>2. CASE ReadQueued(c)
  <2>1. PICK S : \E u \in Placing(S) : task' = [task EXCEPT ![c] = u]
    BY <1>2 DEF ReadQueued
  <2> PICK t \in Placing(S) : task' = [task EXCEPT ![c] = t]
    BY <2>1
  <2>2. t.pc \in {"reading", "pick"}
    BY DEF Placing, Reading, IdleTask
  <2>3. task'[c] = t /\ \A q \in Tasks : q # c => task'[q] = task[q]
    BY <1>0 DEF TypeOK, TasksOK
  <2>4. job' = job /\ miner' = miner /\ started' = started /\ LinksFewer
    BY <1>2, SameLinksFewer DEF ReadQueued, dbVars, netVars
  <2>5. QED
    BY <1>0, <2>2, <2>3, <2>4, PlainAck DEF Ends, Holding
<1>3. CASE AssignStep(c)
  BY <1>0, <1>3, AssignAck
<1>4. CASE ReceiveAck(c)
  BY <1>4, ReceivedAck
<1>5. CASE AckJob(c)
  BY <1>5, AckJobAck
<1>6. CASE AckMiner(c)
  BY <1>6, AckMinerAck
<1>7. CASE ErrJob(c)
  <2>1. task'[c].pc = "errMiner" /\ \A q \in Tasks : q # c => task'[q] = task[q]
    BY <1>0, <1>7, Leaves, OthersUntouched DEF ErrJob
  <2>2. PICK ok : /\ task[c].pc = "errJob" /\ link' = link /\ miner' = miner /\ started' = started
                  /\ EndJob(ok, task[c].job, "error")
    BY <1>7 DEF ErrJob, At, netVars
  <2>3. QED
    BY <1>0, <2>1, <2>2, FailureAck DEF Holding
<1>8. CASE ErrMiner(c)
  <2>1. task'[c].pc = "reading" /\ \A q \in Tasks : q # c => task'[q] = task[q]
    BY <1>0, <1>8 DEF ErrMiner, TypeOK, TasksOK, Reading, IdleTask
  <2>2. job' = job /\ started' = started /\ LinksFewer
    BY <1>8, SameLinksFewer DEF ErrMiner, netVars
  <2>3. \A m \in Miners : miner'[m] = "running" => miner[m] = "running"
    BY <1>8, StatusKept DEF ErrMiner
  <2>4. QED
    BY <1>0, <2>1, <2>2, <2>3, PlainAck DEF Ends, Holding
<1>9. CASE Unregister(c)
  <2>1. task'[c].pc = "done" /\ \A q \in Tasks : q # c => task'[q] = task[q]
    BY <1>0, <1>9, Leaves, OthersUntouched DEF Unregister
  <2>2. \A d \in Conns : link'[d].toW = link[d].toW /\ (link'[d].toH = link[d].toH \/ link'[d].toH = <<>>)
    BY <1>9 DEF Unregister, TypeOK, Link
  <2>3. job' = job /\ miner' = miner /\ started' = started
    BY <1>9 DEF Unregister, dbVars
  <2>4. QED
    BY <1>0, <2>1, <2>2, <2>3, SameLinksFewer, PlainAck DEF Ends, Holding
<1>10. QED
  BY <1>1, <1>2, <1>3, <1>4, <1>5, <1>6, <1>7, <1>8, <1>9 DEF ConnStep

LEMMA CancelAck ==
    ASSUME TypeOK, AckInv, NEW r \in Requests, CancelNext(r) PROVE AckInv'
<1>1. r \in Tasks /\ job' = job /\ miner' = miner /\ started' = started
  BY DEF CancelNext, dbVars, Tasks
<1>2. task'[r].pc \in {"cancelEnd", "settle"} /\ \A q \in Tasks : q # r => task'[q] = task[q]
  <2>1. ASSUME NEW j, task' = [task EXCEPT ![r].pc = "cancelEnd", ![r].job = j, ![r].todo = @ \ {j}]
        PROVE  task'[r].pc = "cancelEnd" /\ \A q \in Tasks : q # r => task'[q] = task[q]
    BY <1>1, <2>1 DEF TypeOK, TasksOK, Task
  <2>2. QED
    BY <1>1, <2>1, Leaves, OthersUntouched DEF CancelNext
<1>3. LinksFewer
  <2>1. CASE link' = link
    BY <2>1, SameLinksFewer
  <2>2. ASSUME NEW j \in task[r].todo, conns[job[j].worker] # None,
               Deliver(conns[job[j].worker], Msg("cancel", j))
        PROVE  LinksFewer
    <3>1. j \in Jobs
      BY <2>2 DEF TypeOK, TasksOK
    <3>2. CASE link' = link
      BY <3>2, SameLinksFewer
    <3>3. CASE link' # link
      <4>1. conns[job[j].worker] \in Conns
        BY <2>2, <3>3 DEF Deliver, TypeOK
      <4>2. QED
        BY <2>2, <3>1, <4>1, CancelFewer
    <3>4. QED
      BY <3>2, <3>3
  <2>3. QED
    BY <2>1, <2>2 DEF CancelNext
<1>4. QED
  BY <1>1, <1>2, <1>3, PlainAck DEF Ends, Holding

LEMMA RequestAck ==
    ASSUME TypeOK, AckInv, DispatchInv, NEW r \in Requests, RequestStep(r) PROVE AckInv'
<1>0. r \in Tasks
  BY DEF Tasks
<1>1. CASE AssignStep(r)
  BY <1>0, <1>1, AssignAck
<1>2. CASE CancelNext(r)
  BY <1>2, CancelAck
<1>3. CASE Disconnect(r)
  <2>1. task'[r].pc \in {"dropWorker", "idle"} /\ \A q \in Tasks : q # r => task'[q] = task[q]
    BY <1>0, <1>3, Leaves, OthersUntouched DEF Disconnect
  <2>2. LinksFewer /\ job' = job /\ miner' = miner /\ started' = started
    BY <1>3, SameLinksFewer, DownFewer DEF Disconnect, dbVars
  <2>3. QED
    BY <1>0, <2>1, <2>2, PlainAck DEF Ends, Holding
<1>4. ASSUME OpenRun(r) \/ Enqueue(r) \/ ReadJobs(r) \/ CancelEnd(r) \/ CloseRun(r) \/ Settle(r)
             \/ RevokeJobs(r) \/ DropWorker(r)
      PROVE  AckInv'
  <2>1. link' = link /\ started' = started
    BY <1>4 DEF OpenRun, Enqueue, ReadJobs, CancelEnd, CloseRun, Settle, RevokeJobs, DropWorker, netVars
  <2>2. task'[r].pc \notin Holding \cup {"ackJob", "ackMiner"} /\ \A q \in Tasks : q # r => task'[q] = task[q]
    <3>1. CASE ReadJobs(r) \/ CloseRun(r)
      BY <1>0, <3>1 DEF ReadJobs, CloseRun, TypeOK, TasksOK, Task, Holding
    <3>2. CASE ~(ReadJobs(r) \/ CloseRun(r))
      <4>1. Finish(r) \/ \E pc \in {"enqueue", "pick", "closeRun", "disconnect"} : Goto(r, pc)
        BY <1>4, <3>2 DEF OpenRun, Enqueue, CancelEnd, Settle, RevokeJobs, DropWorker
      <4>2. QED
        BY <1>0, <4>1, Leaves, OthersUntouched DEF Holding
    <3>3. QED
      BY <3>1, <3>2
  <2>3. \A j \in Jobs : Ends(j)
    <3>1. job' = job => \A j \in Jobs : Ends(j)
      BY DEF Ends
    <3>2. QED
      BY <1>4, <3>1, StatementsEnd
         DEF OpenRun, Enqueue, ReadJobs, CancelEnd, CloseRun, Settle, DeleteRows, RevokeJobs, DropWorker, dbVars
  <2>4. \A m \in Miners : miner'[m] = "running" => miner[m] = "running"
    <3>1. CASE Settle(r) /\ miner' = [miner EXCEPT ![task[r].miner] = "deleted"]
      BY <3>1 DEF TypeOK
    <3>2. QED
      BY <1>4, <3>1, StatusKept
         DEF OpenRun, Enqueue, ReadJobs, CancelEnd, CloseRun, Settle, DeleteRows, RevokeJobs, DropWorker, dbVars
  <2>5. QED
    BY <1>0, <2>1, <2>2, <2>3, <2>4, SameLinksFewer, PlainAck
<1>5. QED
  BY <1>1, <1>2, <1>3, <1>4 DEF RequestStep

LEMMA WorkerAck ==
    ASSUME TypeOK, AckInv, NEW w \in Workers, WorkerStep(w) PROVE AckInv'
<1>1. session[w] # None /\ session[w] \in Conns /\ job' = job /\ task' = task /\ miner' = miner
  BY DEF WorkerStep, WorkerAssign, WorkerCancel, SessionEnd, TypeOK, dbVars
<1>2. ASSUME link[session[w]].toW # <<>> PROVE Head(link[session[w]].toW).job \in Jobs
  <2>1. link[session[w]].toW \in Seq(Message)
    BY <1>1 DEF TypeOK, Link
  <2>2. \A s \in Seq(Message) : s # <<>> => Head(s) \in Message
    OBVIOUS
  <2>3. QED
    BY <1>2, <2>1, <2>2 DEF Message
<1>3. CASE WorkerAssign(w)
  BY <1>1, <1>2, <1>3, TakenAck DEF WorkerAssign
<1>4. CASE WorkerCancel(w)
  BY <1>1, <1>2, <1>4, TakenAck DEF WorkerCancel
<1>5. CASE SessionEnd(w)
  <2>1. \A d \in Conns : (link'[d].toW = link[d].toW \/ link'[d].toW = <<>>) /\ link'[d].toH = link[d].toH
    BY <1>1, <1>5 DEF SessionEnd, TypeOK, Link
  <2>2. LinksFewer
    BY <2>1 DEF LinksFewer
  <2>3. TasksFewer /\ started' = started
    BY <1>1, <1>5 DEF TasksFewer, SessionEnd
  <2>4. QED
    BY <1>1, <2>2, <2>3, AckKept DEF Ends
<1>6. QED
  BY <1>3, <1>4, <1>5 DEF WorkerStep

LEMMA OutsideAck ==
    ASSUME TypeOK, AckInv, job' = job, task' = task, started' = started, LinksFewer,
           \A m \in Miners : miner'[m] = "running" => miner[m] = "running"
    PROVE  AckInv'
<1>1. TasksFewer
  BY DEF TasksFewer
<1>2. QED
  BY <1>1, AckKept DEF Ends

LEMMA BeginsAck ==
    ASSUME TypeOK, AckInv, NEW r \in Requests, RequestBegins(r) PROVE AckInv'
<1>1. r \in Tasks /\ job' = job /\ miner' = miner /\ link' = link /\ started' = started
  BY DEF RequestBegins, Start, Stop, Delete, Revoke, DeleteWorker, dbVars, netVars, Tasks
<1>2. ASSUME NEW op, NEW pc \in {"openRun", "cancel", "revokeJobs", "disconnect"}, NEW m, NEW w, Begin(r, op, pc, m, w)
      PROVE  task'[r].pc = pc /\ \A q \in Tasks : q # r => task'[q] = task[q]
  BY <1>1, <1>2 DEF Begin, TypeOK, TasksOK, IdleTask
<1>3. task'[r].pc \notin Holding \cup {"ackJob", "ackMiner"} /\ \A q \in Tasks : q # r => task'[q] = task[q]
  BY <1>2 DEF RequestBegins, Start, Stop, Delete, Revoke, DeleteWorker, Holding
<1>4. QED
  BY <1>1, <1>3, SameLinksFewer, PlainAck DEF Ends

LEMMA AbortAck ==
    ASSUME TypeOK, AckInv, NEW r \in Requests, Abort(r) PROVE AckInv'
<1>1. r \in Tasks /\ job' = job /\ miner' = miner /\ link' = link /\ started' = started
  BY DEF Abort, dbVars, Tasks
<1>2. /\ task'[r].pc = task[r].pc /\ task'[r].job = task[r].job
      /\ \A q \in Tasks : q # r => task'[q] = task[q]
  BY <1>1 DEF Abort, TypeOK, TasksOK, Task
<1>3. TasksFewer /\ LinksFewer
  BY <1>1, <1>2, SameLinksFewer DEF TasksFewer
<1>4. \A c \in Conns : task'[c] = task[c]
  BY <1>2, ConstantsAssumption DEF Tasks
<1>5. QED
  BY <1>1, <1>3, <1>4, AckKept DEF Ends

LEMMA ConnectAck ==
    ASSUME TypeOK, AckInv, NEW w \in Workers, NEW c \in Conns, Connect(w, c) PROVE AckInv'
<1>1. c \in Tasks /\ job' = job /\ miner' = miner /\ started' = started
  BY DEF Connect, dbVars, Tasks
<1>2. task'[c].pc = "accepted" /\ \A q \in Tasks : q # c => task'[q] = task[q]
  BY <1>1, Leaves, OthersUntouched DEF Connect
<1>3. \A d \in Conns : link'[d].toW = link[d].toW /\ link'[d].toH = link[d].toH
  BY DEF Connect, TypeOK, Link
<1>4. QED
  BY <1>1, <1>2, <1>3, SameLinksFewer, PlainAck DEF Ends, Holding

LEMMA RestartAck ==
    ASSUME TypeOK, AckInv, Restart PROVE AckInv'
<1>1. job' = job /\ miner' = miner /\ started' = started
  BY DEF Restart, dbVars
<1>2. \A p \in Tasks : task'[p].pc \in {"idle", "done"}
  BY DEF Restart, IdleTask
<1>3. TasksFewer
  BY <1>2 DEF TasksFewer, Holding
<1>4. \A d \in Conns : link'[d].toW = link[d].toW /\ link'[d].toH = <<>>
  BY DEF Restart, TypeOK, Link
<1>5. \A c \in Conns : TrueAck(c)'
  BY <1>2 DEF Tasks, TrueAck
<1>6. QED
  BY <1>1, <1>3, <1>4, <1>5, SameLinksFewer, AckKept DEF Ends

LEMMA InitAck == Init => AckInv
<1> SUFFICES ASSUME Init PROVE AckInv
  OBVIOUS
<1>1. \A p \in Tasks : task[p].pc = "idle"
  BY DEF Init, IdleTask
<1>2. ASSUME NEW j \in Jobs PROVE PlacesOf(j) = {}
  <2>1. ASSUME NEW x PROVE ~HeldBy(x, j) /\ ~OnItsWay(x, j) /\ ~AnswerOnItsWay(x, j)
    <3>1. ~HeldBy(x, j)
      BY <1>1 DEF HeldBy, Holding
    <3>2. \A c \in Conns : Len(link[c].toW) = 0 /\ Len(link[c].toH) = 0
      BY DEF Init
    <3>3. QED
      BY <3>1, <3>2 DEF OnItsWay, AnswerOnItsWay
  <2>2. QED
    BY <2>1, PlaceCases
<1>3. \A c \in Conns : TrueAnswers(c) /\ TrueAck(c)
  BY <1>1 DEF TrueAnswers, TrueAck, Tasks, Init
<1>4. started = {} /\ RunningWasAcked /\ FailedNeverRan
  BY DEF Init, RunningWasAcked, FailedNeverRan
<1>5. QED
  BY <1>2, <1>3, <1>4 DEF AckInv, OnePlace

LEMMA NextAck == DispatchInv /\ AckInv /\ [Next]_vars => AckInv'
<1> SUFFICES ASSUME DispatchInv, AckInv, [Next]_vars PROVE AckInv'
  OBVIOUS
<1>0. TypeOK
  BY InvParts
<1>1. ASSUME NEW m \in Miners, CreateMiner(m) PROVE AckInv'
  <2>1. \A n \in Miners : miner'[n] = "running" => miner[n] = "running"
    BY <1>0, <1>1 DEF CreateMiner, TypeOK
  <2>2. QED
    BY <1>0, <1>1, <2>1, SameLinksFewer, OutsideAck DEF CreateMiner, netVars
<1>2. ASSUME NEW w \in Workers, EnrollWorker(w) PROVE AckInv'
  BY <1>0, <1>2, SameLinksFewer, OutsideAck DEF EnrollWorker, netVars
<1>3. ASSUME NEW w \in Workers, WorkerStep(w) PROVE AckInv'
  BY <1>0, <1>3, WorkerAck
<1>4. ASSUME NEW w \in Workers, NEW c \in Conns, Connect(w, c) PROVE AckInv'
  BY <1>0, <1>4, ConnectAck
<1>5. ASSUME NEW c \in Conns, ConnStep(c) PROVE AckInv'
  BY <1>0, <1>5, ConnAck
<1>6. ASSUME NEW c \in Conns, Cut(c) PROVE AckInv'
  BY <1>0, <1>6, DownFewer, OutsideAck DEF Cut, dbVars
<1>7. ASSUME NEW r \in Requests, RequestBegins(r) PROVE AckInv'
  BY <1>0, <1>7, BeginsAck
<1>8. ASSUME NEW r \in Requests, RequestStep(r) PROVE AckInv'
  BY <1>0, <1>8, RequestAck
<1>9. ASSUME NEW r \in Requests, Abort(r) PROVE AckInv'
  BY <1>0, <1>9, AbortAck
<1>10. CASE Restart
  BY <1>0, <1>10, RestartAck
<1>11. CASE UNCHANGED vars
  BY <1>0, <1>11, SameLinksFewer, OutsideAck DEF vars, dbVars, netVars
<1>12. QED
  BY <1>1, <1>2, <1>3, <1>4, <1>5, <1>6, <1>7, <1>8, <1>9, <1>10, <1>11 DEF Next

\* A miner is 'running' only if a worker started an engine for a job of that very miner,
\* whichever statements fail and whatever requests, reconnects and restarts race.
THEOREM RunsOnlyAcked == Spec => []RunningWasAcked
<1>1. AckInv => RunningWasAcked
  BY DEF AckInv
<1>2. QED
  BY <1>1, InitAck, NextAck, Agreement, PTL DEF Spec

\* A job whose engine was started is never recorded as an 'error': the failed send and the
\* failure report that could do so are about a job that no worker holds any more.
THEOREM ErrorsNeverRan == Spec => []FailedNeverRan
<1>1. AckInv => FailedNeverRan
  BY DEF AckInv
<1>2. QED
  BY <1>1, InitAck, NextAck, Agreement, PTL DEF Spec

=============================================================================
