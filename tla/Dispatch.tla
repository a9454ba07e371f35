------------------------------ MODULE Dispatch ------------------------------
(***************************************************************************)
(* The life of a miner: the master's API handlers, its swarm hub and its   *)
(* database rows, the worker connections, and the engines the workers run. *)
(*                                                                         *)
(* One action stands for one database statement, one critical section of   *)
(* the hub's mutex or one message handled by a worker; everything that     *)
(* runs in another goroutine or process may happen in between.  A step     *)
(* that touches nothing shared (picking the next element of a list read    *)
(* earlier, a read error) is fused with the shared step next to it, and so *)
(* is a send with the look-up of its connection: a connection that breaks  *)
(* in between loses the message either way.                                *)
(*                                                                         *)
(* workers.status is kept only as far as it decides anything here (does    *)
(* the row exist, is it revoked); the other values, lw.Jobs and the        *)
(* least-loaded rule built on it are the subject of module Presence, so    *)
(* that Assign here may choose any connected native worker.                *)
(*                                                                         *)
(* The objects belong to one owner.  Requests of other users end at the    *)
(* first look-up of a handler, but for the two DELETE handlers: these call *)
(* the hub before the statement that compares the owner.                   *)
(***************************************************************************)
EXTENDS Naturals, Sequences, FiniteSets

CONSTANTS
    Miners, Workers, Jobs, Runs,   \* identifiers of rows (uuids, never reused)
    Conns,                         \* websocket connections, each used once
    Requests,                      \* goroutines that serve API requests
    Native,                        \* the workers whose kind is not 'browser'
    Ops,                           \* the operations the users issue
    DbFails,                       \* may a database statement fail by itself?
    MaxInFlight,                   \* bound on the messages a connection holds
    MaxAborts,                     \* bound on requests dropped by their client
    MaxRestarts,                   \* bound on restarts of the master
    None

\* "foreign...": the request of a user who does not own the miner or the worker
AllOps == {"start", "stop", "delete", "foreignDelete",
           "revoke", "deleteWorker", "foreignDeleteWorker"}

ASSUME ConstantsAssumption ==
    /\ Native \subseteq Workers
    /\ Ops \subseteq AllOps
    /\ DbFails \in BOOLEAN
    /\ MaxInFlight \in Nat \ {0}
    /\ MaxAborts \in Nat
    /\ MaxRestarts \in Nat
    /\ None \notin Miners \cup Workers \cup Jobs \cup Conns
    /\ Conns \cap Requests = {}

VARIABLES
    \* PostgreSQL rows
    miner,      \* miners.status, plus "none" before and "deleted" after the row
    worker,     \* workers: "none", "enrolled", "revoked" or "deleted"
    job,        \* swarm_jobs: status, ended_at IS NULL, miner_id, worker_id
    run,        \* miner_runs: no row yet, open, closed or deleted, and miner_id
    \* the hub's maps, guarded by Hub.mu
    conns,      \* h.conns: worker -> connection; h.live has the same keys
    \* goroutines, network and worker processes
    task,       \* local state of HandleWS(conn) and of each API handler
    link,       \* each websocket: its worker, is it intact, messages in flight
    session,    \* the connection runSession of each worker is reading
    engines,    \* the worker's map of running jobs
    faults,     \* how many requests were dropped and restarts happened so far
    \* history
    tried,      \* has Assign chosen a worker since the miner was queued?
    started     \* the jobs for which a worker started an engine

dbVars  == <<miner, worker, job, run, tried>>
netVars == <<link, session, engines, started, faults>>
vars == <<dbVars, conns, task, netVars>>

Tasks == Conns \cup Requests

MinerStatus == {"none", "created", "queued", "running", "stopped", "error", "deleted"}
WorkerStatus == {"none", "enrolled", "revoked", "deleted"}
JobStatus == {"none", "assigned", "ack", "ended", "error", "deleted"}
RunStatus == {"none", "open", "closed", "deleted"}

\* Where a goroutine stands.  "idle" is a request handler between requests and
\* a connection that was never made; "done" is a HandleWS that returned.
AssignPC == {"pick", "create", "send", "jobErr"}
PC == {"idle", "accepted", "joined", "reading", "ackJob", "ackMiner", "errJob", "errMiner",
       "done", "openRun", "enqueue", "cancel", "cancelNext", "cancelEnd", "closeRun",
       "settle", "revokeJobs", "disconnect", "dropWorker"} \cup AssignPC

Message == [kind : {"assign", "cancel", "ackOk", "ackErr"}, job : Jobs]
Msg(k, j) == [kind |-> k, job |-> j]

IdleTask == [pc |-> "idle", op |-> "none", ctx |-> TRUE, miner |-> None, wk |-> None,
             tc |-> None, job |-> None, todo |-> {}]

JobRow == [st : JobStatus, open : BOOLEAN, miner : Miners \cup {None}, worker : Workers \cup {None}]
RunRow == [st : RunStatus, miner : Miners \cup {None}]
Task == [pc : PC, op : AllOps \cup {"none"}, ctx : BOOLEAN, miner : Miners \cup {None},
         wk : Workers \cup {None}, tc : Conns \cup {None}, job : Jobs \cup {None},
         todo : SUBSET (Miners \cup Jobs)]
Link == [worker : Workers \cup {None}, up : BOOLEAN, toW : Seq(Message), toH : Seq(Message)]

TasksOK ==
    /\ task \in [Tasks -> Task]
    /\ \A c \in Conns : task[c].todo \subseteq Miners
    /\ \A r \in Requests : task[r].todo \subseteq Jobs
    /\ \A p \in Tasks : task[p].pc = "send" => task[p].job \in Jobs

TypeOK ==
    /\ miner \in [Miners -> MinerStatus]
    /\ worker \in [Workers -> WorkerStatus]
    /\ job \in [Jobs -> JobRow]
    /\ run \in [Runs -> RunRow]
    /\ conns \in [Workers -> Conns \cup {None}]
    /\ TasksOK
    /\ link \in [Conns -> Link]
    /\ session \in [Workers -> Conns \cup {None}]
    /\ engines \in [Workers -> SUBSET Jobs]
    /\ faults \in [aborts : 0..MaxAborts, restarts : 0..MaxRestarts]
    /\ tried \in [Miners -> BOOLEAN]
    /\ started \subseteq Jobs

Init ==
    /\ miner = [m \in Miners |-> "none"]
    /\ worker = [w \in Workers |-> "none"]
    /\ job = [j \in Jobs |-> [st |-> "none", open |-> FALSE, miner |-> None, worker |-> None]]
    /\ run = [k \in Runs |-> [st |-> "none", miner |-> None]]
    /\ conns = [w \in Workers |-> None]
    /\ task = [p \in Tasks |-> IdleTask]
    /\ link = [c \in Conns |-> [worker |-> None, up |-> FALSE, toW |-> <<>>, toH |-> <<>>]]
    /\ session = [w \in Workers |-> None]
    /\ engines = [w \in Workers |-> {}]
    /\ faults = [aborts |-> 0, restarts |-> 0]
    /\ tried = [m \in Miners |-> FALSE]
    /\ started = {}

-----------------------------------------------------------------------------
(* Database statements.  `ok' tells whether the statement succeeds; what   *)
(* happens next if it does not is up to the action that issues it.         *)

\* A statement fails once the request's context is cancelled.
Outcomes(p) == IF ~task[p].ctx THEN {FALSE} ELSE IF DbFails THEN BOOLEAN ELSE {TRUE}

HasMiner(m) == miner[m] \notin {"none", "deleted"}
HasWorker(w) == worker[w] \notin {"none", "deleted"}
HasJob(j) == job[j].st \notin {"none", "deleted"}

SetMinerStatus(ok, m, s) ==
    miner' = IF ok /\ HasMiner(m) THEN [miner EXCEPT ![m] = s] ELSE miner

\* SetSwarmJobStatus: 'ended' and 'error' set ended_at unless it is set already ...
EndJob(ok, j, s) ==
    job' = IF ok /\ HasJob(j) /\ job[j].open
           THEN [job EXCEPT ![j] = [@ EXCEPT !.st = s, !.open = FALSE]] ELSE job

\* (mutant) an ack resets ended_at
AckReopens(ok, j) ==
    job' = IF ok /\ HasJob(j) THEN [job EXCEPT ![j].st = "ack", ![j].open = TRUE] ELSE job

\* ... and 'ack' is written whatever the row holds
AckRow(ok, j) ==
    job' = IF ok /\ HasJob(j) THEN [job EXCEPT ![j].st = "ack"] ELSE job

ActiveJobForWorker(j, w) == HasJob(j) /\ job[j].open /\ job[j].worker = w
ActiveJobsForMiner(m) == {j \in Jobs : HasJob(j) /\ job[j].open /\ job[j].miner = m}
QueuedMiners == {m \in Miners : miner[m] = "queued"}

\* ON DELETE CASCADE
WithoutJobs(S) ==
    [j \in Jobs |-> IF j \in S /\ HasJob(j)
                    THEN [job[j] EXCEPT !.st = "deleted", !.open = FALSE] ELSE job[j]]
WithoutRuns(m) ==
    [k \in Runs |-> IF run[k].miner = m THEN [run[k] EXCEPT !.st = "deleted"] ELSE run[k]]

\* UPDATE miner_runs SET stopped_at = now() ... WHERE miner_id = $1 AND stopped_at IS NULL
ClosedRuns(m) ==
    [k \in Runs |-> IF run[k].st = "open" /\ run[k].miner = m
                    THEN [run[k] EXCEPT !.st = "closed"] ELSE run[k]]

\* handleCreateMiner refuses the request for its name, currency, engine, pool, wallet or
\* shares, or ends in a single INSERT; so does Enroll.  The checks read nothing kept here.
CreateMiner(m) ==
    /\ miner[m] = "none"
    /\ miner' = [miner EXCEPT ![m] = "created"]
    /\ UNCHANGED <<worker, job, run, tried, conns, task, netVars>>

EnrollWorker(w) ==
    /\ worker[w] = "none"
    /\ worker' = [worker EXCEPT ![w] = "enrolled"]
    /\ UNCHANGED <<miner, job, run, tried, conns, task, netVars>>

-----------------------------------------------------------------------------
(* Goroutine steps *)

At(p, pc) == task[p].pc = pc
Goto(p, pc) == task' = [task EXCEPT ![p].pc = pc]
Finish(p) == task' = [task EXCEPT ![p] = IdleTask]
Begin(r, op, pc, m, w) ==
    /\ op \in Ops
    /\ At(r, "idle")
    /\ task' = [task EXCEPT ![r] = [IdleTask EXCEPT !.op = op, !.pc = pc,
                                                    !.miner = m, !.wk = w]]

\* The read loop of HandleWS, and AssignQueued with the miners S still to place
Reading == [IdleTask EXCEPT !.pc = "reading"]
Placing(S) == IF S = {} THEN {Reading}
              ELSE {[IdleTask EXCEPT !.pc = "pick", !.miner = m, !.todo = S \ {m}] : m \in S}

\* Assign returned: AssignQueued goes on, an API handler answers its request.
AssignReturns(p) ==
    IF p \in Conns THEN \E t \in Placing(task[p].todo) : task' = [task EXCEPT ![p] = t]
                   ELSE Finish(p)

\* The hub's conn.Write: an intact connection takes the message, once there is
\* room (a write that waits too long closes the connection: Cut).  On a broken
\* one the write fails, or succeeds into a buffer nobody will read.
Deliver(c, m) ==
    /\ link[c].up => Len(link[c].toW) < MaxInFlight
    /\ link' = IF link[c].up THEN [link EXCEPT ![c].toW = Append(@, m)] ELSE link

-----------------------------------------------------------------------------
(* Hub.Assign, called by handleStartMiner and by AssignQueued              *)

\* the keys of h.conns and h.live
Live == {w \in Workers : conns[w] # None}

\* (mutant) the check of lw.Kind is missing
AnyKind(p, ok) ==
    IF ok /\ HasMiner(task[p].miner) THEN Live ELSE {}

\* The workers Assign may choose from; minerOwner yields no owner, hence no
\* candidate, when its query fails or the row is gone.
Candidates(p, ok) ==
    IF ok /\ HasMiner(task[p].miner) THEN Live \cap Native ELSE {}

\* The critical section of Assign fixes the worker and its connection.
PickWorker(p) ==
    /\ At(p, "pick")
    /\ \/ /\ \E ok \in Outcomes(p) : Candidates(p, ok) = {}
          /\ AssignReturns(p)
          /\ UNCHANGED tried
       \/ \E ok \in Outcomes(p) : \E w \in Candidates(p, ok) :
             /\ task' = [task EXCEPT ![p].pc = "create", ![p].wk = w, ![p].tc = conns[w]]
             /\ tried' = [tried EXCEPT ![task[p].miner] = TRUE]
    /\ UNCHANGED <<miner, worker, job, run, conns, netVars>>

\* (mutant) the arguments of the INSERT are swapped
CreateSwapped(p) ==
    /\ At(p, "create")
    /\ \E j \in Jobs :
          /\ job[j].st = "none"
          /\ job' = [job EXCEPT ![j] = [st |-> "assigned", open |-> TRUE,
                                        miner |-> task[p].wk, worker |-> task[p].miner]]
          /\ task' = [task EXCEPT ![p].pc = "send", ![p].job = j]
    /\ UNCHANGED <<miner, worker, run, tried, conns, netVars>>

\* (mutant) the error of CreateSwarmJob is not looked at
CreateUnchecked(p) ==
    /\ At(p, "create")
    /\ \E j \in Jobs, ok \in Outcomes(p) :
          /\ job[j].st = "none"
          /\ job' = IF ok THEN [job EXCEPT ![j] = [st |-> "assigned", open |-> TRUE,
                                                   miner |-> task[p].miner, worker |-> task[p].wk]]
                          ELSE job
          /\ task' = [task EXCEPT ![p].pc = "send", ![p].job = j]
    /\ UNCHANGED <<miner, worker, run, tried, conns, netVars>>

\* GetWorker, then CreateSwarmJob with its foreign keys.
CreateJob(p) ==
    LET m == task[p].miner
        w == task[p].wk
    IN  /\ At(p, "create")
        /\ \/ /\ TRUE \in Outcomes(p) /\ HasMiner(m) /\ HasWorker(w)
              /\ \E j \in Jobs :
                    /\ job[j].st = "none"
                    /\ job' = [job EXCEPT ![j] = [st |-> "assigned", open |-> TRUE,
                                                  miner |-> m, worker |-> w]]
                    /\ task' = [task EXCEPT ![p].pc = "send", ![p].job = j]
           \/ /\ FALSE \in Outcomes(p) \/ ~HasMiner(m) \/ ~HasWorker(w)
              /\ AssignReturns(p)
              /\ UNCHANGED job
        /\ UNCHANGED <<miner, worker, run, tried, conns, netVars>>

SendAssign(p) ==
    /\ At(p, "send")
    /\ \/ /\ Deliver(task[p].tc, Msg("assign", task[p].job))
          /\ AssignReturns(p)
       \/ /\ ~link[task[p].tc].up
          /\ Goto(p, "jobErr")
          /\ UNCHANGED link
    /\ UNCHANGED <<dbVars, conns, session, engines, started, faults>>

AssignFailed(p) ==
    /\ At(p, "jobErr")
    /\ \E ok \in Outcomes(p) : EndJob(ok, task[p].job, "error")
    /\ AssignReturns(p)
    /\ UNCHANGED <<miner, worker, run, tried, conns, netVars>>

AssignStep(p) == PickWorker(p) \/ CreateJob(p) \/ SendAssign(p) \/ AssignFailed(p)

-----------------------------------------------------------------------------
(* Hub.HandleWS: one goroutine per connection                              *)

\* The worker dials, AuthenticateWorker finds an unrevoked row (and a browser
\* worker's token is not a day old yet), and the upgrade is accepted.
Connect(w, c) ==
    /\ session[w] = None
    /\ worker[w] = "enrolled"
    /\ At(c, "idle")
    /\ Goto(c, "accepted")
    /\ session' = [session EXCEPT ![w] = c]
    /\ link' = [link EXCEPT ![c].worker = w, ![c].up = TRUE]
    /\ UNCHANGED <<dbVars, conns, engines, started, faults>>

\* (mutant) HandleWS does not call AssignQueued
RegisterOnly(c) ==
    /\ At(c, "accepted")
    /\ conns' = [conns EXCEPT ![link[c].worker] = c]
    /\ Goto(c, "reading")
    /\ UNCHANGED <<dbVars, netVars>>

\* register: close the connection it replaces, install the new one
Register(c) ==
    LET w == link[c].worker IN
    /\ At(c, "accepted")
    /\ link' = IF conns[w] = None THEN link ELSE [link EXCEPT ![conns[w]].up = FALSE]
    /\ conns' = [conns EXCEPT ![w] = c]
    /\ Goto(c, "joined")
    /\ UNCHANGED <<dbVars, session, engines, started, faults>>

\* AssignQueued reads the queued miners once, then calls Assign for each; it
\* returns when they cannot be read.
ReadQueued(c) ==
    /\ At(c, "joined")
    /\ \E ok \in Outcomes(c) : \E t \in Placing(IF ok THEN QueuedMiners ELSE {}) :
          task' = [task EXCEPT ![c] = t]
    /\ UNCHANGED <<dbVars, conns, netVars>>

\* handleAck starts: is this an open job of this worker?  If not, or if the
\* look-up fails, the message is dropped.
ReceiveAck(c) ==
    LET ack == Head(link[c].toH)
        j == ack.job
    IN  /\ At(c, "reading")
        /\ link[c].toH # <<>>
        /\ link' = [link EXCEPT ![c].toH = Tail(@)]
        /\ \E ok \in Outcomes(c) :
              task' = IF ok /\ ActiveJobForWorker(j, link[c].worker)
                      THEN [task EXCEPT ![c].pc = IF ack.kind = "ackOk" THEN "ackJob" ELSE "errJob",
                                        ![c].job = j, ![c].miner = job[j].miner]
                      ELSE task
        /\ UNCHANGED <<dbVars, conns, session, engines, started, faults>>

\* The error of each UPDATE of handleAck is ignored: the next one follows.
AckJob(c) ==
    /\ At(c, "ackJob")
    /\ \E ok \in Outcomes(c) : AckRow(ok, task[c].job)
    /\ Goto(c, "ackMiner")
    /\ UNCHANGED <<miner, worker, run, tried, conns, netVars>>

AckMiner(c) ==
    /\ At(c, "ackMiner")
    /\ \E ok \in Outcomes(c) : SetMinerStatus(ok, task[c].miner, "running")
    /\ task' = [task EXCEPT ![c] = Reading]
    /\ UNCHANGED <<worker, job, run, tried, conns, netVars>>

ErrJob(c) ==
    /\ At(c, "errJob")
    /\ \E ok \in Outcomes(c) : EndJob(ok, task[c].job, "error")
    /\ Goto(c, "errMiner")
    /\ UNCHANGED <<miner, worker, run, tried, conns, netVars>>

ErrMiner(c) ==
    /\ At(c, "errMiner")
    /\ \E ok \in Outcomes(c) : SetMinerStatus(ok, task[c].miner, "error")
    /\ task' = [task EXCEPT ![c] = Reading]
    /\ UNCHANGED <<worker, job, run, tried, conns, netVars>>

\* conn.Read fails, what was not read is lost, and unregister removes the
\* worker's entries, whichever connection they hold.
Unregister(c) ==
    /\ At(c, "reading")
    /\ ~link[c].up
    /\ link' = [link EXCEPT ![c].toH = <<>>]
    /\ conns' = [conns EXCEPT ![link[c].worker] = None]
    /\ Goto(c, "done")
    /\ UNCHANGED <<dbVars, session, engines, started, faults>>

ConnStep(c) ==
    \/ Register(c) \/ ReadQueued(c) \/ AssignStep(c) \/ ReceiveAck(c)
    \/ AckJob(c) \/ AckMiner(c) \/ ErrJob(c) \/ ErrMiner(c) \/ Unregister(c)

-----------------------------------------------------------------------------
(* handleStartMiner *)

Start(r, m) ==
    /\ HasMiner(m) /\ miner[m] \notin {"running", "queued"}
    /\ Begin(r, "start", "openRun", m, None)
    /\ UNCHANGED <<dbVars, conns, netVars>>

OpenRun(r) ==
    LET m == task[r].miner
    IN  /\ At(r, "openRun")
        /\ \/ /\ TRUE \in Outcomes(r) /\ HasMiner(m)
              /\ \E k \in Runs :
                    /\ run[k].st = "none"
                    /\ run' = [run EXCEPT ![k] = [st |-> "open", miner |-> m]]
              /\ Goto(r, "enqueue")
           \/ /\ FALSE \in Outcomes(r) \/ ~HasMiner(m)
              /\ Finish(r)
              /\ UNCHANGED run
        /\ UNCHANGED <<miner, worker, job, tried, conns, netVars>>

\* (mutant) the status is 'running' before any worker said so
RunAtOnce(r) ==
    /\ At(r, "enqueue")
    /\ \E ok \in Outcomes(r) : SetMinerStatus(ok, task[r].miner, "running")
    /\ Goto(r, "pick")
    /\ UNCHANGED <<worker, job, run, tried, conns, netVars>>

Enqueue(r) ==
    LET m == task[r].miner IN
    /\ At(r, "enqueue")
    /\ \E ok \in Outcomes(r) :
          /\ SetMinerStatus(ok, m, "queued")
          /\ tried' = IF ok /\ HasMiner(m) THEN [tried EXCEPT ![m] = FALSE] ELSE tried
    /\ Goto(r, "pick")
    /\ UNCHANGED <<worker, job, run, conns, netVars>>

-----------------------------------------------------------------------------
(* handleStopMiner and handleDeleteMiner, around Hub.CancelMiner           *)

Stop(r, m) ==
    /\ HasMiner(m)
    /\ Begin(r, "stop", "cancel", m, None)
    /\ UNCHANGED <<dbVars, conns, netVars>>

\* CancelMiner comes first, whoever asks.
Delete(r, m) ==
    /\ HasMiner(m)
    /\ \E op \in {"delete", "foreignDelete"} : Begin(r, op, "cancel", m, None)
    /\ UNCHANGED <<dbVars, conns, netVars>>

\* a failed read makes CancelMiner return at once
ReadJobs(r) ==
    /\ At(r, "cancel")
    /\ \E ok \in Outcomes(r) :
          task' = IF ok THEN [task EXCEPT ![r].pc = "cancelNext",
                                          ![r].todo = ActiveJobsForMiner(task[r].miner)]
                        ELSE [task EXCEPT ![r].pc = "settle"]
    /\ UNCHANGED <<dbVars, conns, netVars>>

\* (mutant) a job whose worker is not connected is skipped
CancelConnected(r) ==
    /\ At(r, "cancelNext")
    /\ LET reachable == {j \in task[r].todo : conns[job[j].worker] # None} IN
       \/ \E j \in reachable :
             /\ task' = [task EXCEPT ![r].pc = "cancelEnd", ![r].job = j, ![r].todo = @ \ {j}]
             /\ Deliver(conns[job[j].worker], Msg("cancel", j))
       \/ reachable = {} /\ Goto(r, "settle") /\ UNCHANGED link
    /\ UNCHANGED <<dbVars, conns, session, engines, started, faults>>

\* One round of the loop, for a job read earlier: the critical section that
\* finds the worker's connection, and the job.cancel sent on it if there is one.
CancelNext(r) ==
    /\ At(r, "cancelNext")
    /\ \/ \E j \in task[r].todo :
             LET c == conns[job[j].worker] IN
             /\ task' = [task EXCEPT ![r].pc = "cancelEnd", ![r].job = j, ![r].todo = @ \ {j}]
             /\ IF c = None THEN UNCHANGED link ELSE Deliver(c, Msg("cancel", j))
       \/ /\ task[r].todo = {}
          /\ Goto(r, "settle")
          /\ UNCHANGED link
    /\ UNCHANGED <<dbVars, conns, session, engines, started, faults>>

CancelEnd(r) ==
    /\ At(r, "cancelEnd")
    /\ \E ok \in Outcomes(r) : EndJob(ok, task[r].job, "ended")
    /\ Goto(r, "closeRun")
    /\ UNCHANGED <<miner, worker, run, tried, conns, netVars>>

CloseRun(r) ==
    /\ At(r, "closeRun")
    /\ \E ok \in Outcomes(r) : run' = IF ok THEN ClosedRuns(task[r].miner) ELSE run
    /\ task' = [task EXCEPT ![r].pc = "cancelNext", ![r].job = None]
    /\ UNCHANGED <<miner, worker, job, tried, conns, netVars>>

DeleteRows(m) ==
    /\ miner' = [miner EXCEPT ![m] = "deleted"]
    /\ job' = WithoutJobs({j \in Jobs : job[j].miner = m})
    /\ run' = WithoutRuns(m)

\* the last statement: 'stopped', or the row is deleted, if the requester owns it
Settle(r) ==
    LET m == task[r].miner IN
    /\ At(r, "settle")
    /\ \/ /\ task[r].op = "stop"
          /\ \E ok \in Outcomes(r) : SetMinerStatus(ok, m, "stopped")
          /\ UNCHANGED <<job, run>>
       \/ /\ task[r].op = "delete" /\ TRUE \in Outcomes(r) /\ HasMiner(m)
          /\ DeleteRows(m)
       \/ /\ \/ task[r].op = "foreignDelete"
             \/ task[r].op = "delete" /\ (FALSE \in Outcomes(r) \/ ~HasMiner(m))
          /\ UNCHANGED <<miner, job, run>>
    /\ Finish(r)
    /\ UNCHANGED <<worker, tried, conns, netVars>>

-----------------------------------------------------------------------------
(* handleRevokeWorker and handleDeleteWorker, around Hub.RevokeWorker      *)

Revoke(r, w) ==
    /\ worker[w] = "enrolled"
    /\ worker' = [worker EXCEPT ![w] = "revoked"]
    /\ Begin(r, "revoke", "revokeJobs", None, w)
    /\ UNCHANGED <<miner, job, run, tried, conns, netVars>>

EndedJobs(w) ==
    [j \in Jobs |-> IF HasJob(j) /\ job[j].open /\ job[j].worker = w
                    THEN [job[j] EXCEPT !.st = "ended", !.open = FALSE] ELSE job[j]]

\* when this second statement fails the handler answers with the error
RevokeJobs(r) ==
    /\ At(r, "revokeJobs")
    /\ \E ok \in Outcomes(r) :
          /\ job' = IF ok THEN EndedJobs(task[r].wk) ELSE job
          /\ IF ok THEN Goto(r, "disconnect") ELSE Finish(r)
    /\ UNCHANGED <<miner, worker, run, tried, conns, netVars>>

\* Hub.RevokeWorker comes first, whoever asks.
DeleteWorker(r, w) ==
    /\ HasWorker(w)
    /\ \E op \in {"deleteWorker", "foreignDeleteWorker"} : Begin(r, op, "disconnect", None, w)
    /\ UNCHANGED <<dbVars, conns, netVars>>

\* Hub.RevokeWorker: worker.revoke is sent and the connection closed.  The
\* worker ends its session on either, so the message is part of the closing.
Disconnect(r) ==
    LET c == conns[task[r].wk] IN
    /\ At(r, "disconnect")
    /\ link' = IF c = None THEN link ELSE [link EXCEPT ![c].up = FALSE]
    /\ IF task[r].op = "revoke" THEN Finish(r) ELSE Goto(r, "dropWorker")
    /\ UNCHANGED <<dbVars, conns, session, engines, started, faults>>

DropWorker(r) ==
    LET w == task[r].wk IN
    /\ At(r, "dropWorker")
    /\ \/ /\ task[r].op = "deleteWorker" /\ TRUE \in Outcomes(r) /\ HasWorker(w)
          /\ worker' = [worker EXCEPT ![w] = "deleted"]
          /\ job' = WithoutJobs({j \in Jobs : job[j].worker = w})
       \/ /\ task[r].op = "foreignDeleteWorker" \/ FALSE \in Outcomes(r) \/ ~HasWorker(w)
          /\ UNCHANGED <<worker, job>>
    /\ Finish(r)
    /\ UNCHANGED <<miner, run, tried, conns, netVars>>

RequestBegins(r) ==
    \/ \E m \in Miners : Start(r, m) \/ Stop(r, m) \/ Delete(r, m)
    \/ \E w \in Workers : Revoke(r, w) \/ DeleteWorker(r, w)

RequestStep(r) ==
    \/ OpenRun(r) \/ Enqueue(r) \/ AssignStep(r)
    \/ ReadJobs(r) \/ CancelNext(r) \/ CancelEnd(r) \/ CloseRun(r) \/ Settle(r)
    \/ RevokeJobs(r) \/ Disconnect(r) \/ DropWorker(r)

\* The client goes away: r.Context() of the handler is cancelled.
Abort(r) ==
    /\ faults.aborts < MaxAborts
    /\ ~At(r, "idle") /\ task[r].ctx
    /\ task' = [task EXCEPT ![r].ctx = FALSE]
    /\ faults' = [faults EXCEPT !.aborts = @ + 1]
    /\ UNCHANGED <<dbVars, conns, link, session, engines, started>>

-----------------------------------------------------------------------------
(* The worker process: cmdRun, runSession, handleAssign                    *)

\* The worker takes the next message off its connection, and may answer it.
Take(c) == [link EXCEPT ![c].toW = Tail(@)]
TakeAndAnswer(c, k, j) ==
    [link EXCEPT ![c].toW = Tail(@), ![c].toH = IF link[c].up THEN Append(@, Msg(k, j)) ELSE @]

\* (mutant) an engine that does not start is not reported
AckOnSuccess(w) ==
    LET c == session[w]
        j == Head(link[c].toW).job
    IN  /\ c # None /\ link[c].toW # <<>> /\ Head(link[c].toW).kind = "assign"
        /\ \/ /\ engines' = [engines EXCEPT ![w] = @ \cup {j}]
              /\ started' = started \cup {j}
              /\ link' = TakeAndAnswer(c, "ackOk", j)
           \/ UNCHANGED <<engines, started>> /\ link' = Take(c)
        /\ UNCHANGED <<dbVars, conns, task, session, faults>>

\* (mutant) an engine that started is reported as one that did not
ReportsAnyway(w) ==
    LET c == session[w]
        j == Head(link[c].toW).job
    IN  /\ c # None /\ link[c].toW # <<>> /\ Head(link[c].toW).kind = "assign"
        /\ engines' = [engines EXCEPT ![w] = @ \cup {j}]
        /\ started' = started \cup {j}
        /\ link' = TakeAndAnswer(c, "ackErr", j)
        /\ UNCHANGED <<dbVars, conns, task, session, faults>>

\* the engine prepares and starts, or it cannot (no binary, no adapter...)
WorkerAssign(w) ==
    LET c == session[w]
        j == Head(link[c].toW).job
    IN  /\ c # None /\ link[c].toW # <<>> /\ Head(link[c].toW).kind = "assign"
        /\ \/ /\ engines' = [engines EXCEPT ![w] = @ \cup {j}]
              /\ started' = started \cup {j}
              /\ link' = TakeAndAnswer(c, "ackOk", j)
           \/ /\ UNCHANGED <<engines, started>>
              /\ link' = TakeAndAnswer(c, "ackErr", j)
        /\ UNCHANGED <<dbVars, conns, task, session, faults>>

WorkerCancel(w) ==
    LET c == session[w] IN
    /\ c # None /\ link[c].toW # <<>> /\ Head(link[c].toW).kind = "cancel"
    /\ engines' = [engines EXCEPT ![w] = @ \ {Head(link[c].toW).job}]
    /\ link' = Take(c)
    /\ UNCHANGED <<dbVars, conns, task, session, started, faults>>

\* (mutant) the session waits for its engines to finish by themselves
EndWhenIdle(w) ==
    /\ session[w] # None /\ ~link[session[w]].up
    /\ engines[w] = {}
    /\ session' = [session EXCEPT ![w] = None]
    /\ UNCHANGED <<dbVars, conns, task, link, engines, started, faults>>

\* runSession returns: stopAll, an empty job map, and cmdRun dials again
SessionEnd(w) ==
    LET c == session[w] IN
    /\ c # None
    /\ ~link[c].up
    /\ session' = [session EXCEPT ![w] = None]
    /\ engines' = [engines EXCEPT ![w] = {}]
    /\ link' = [link EXCEPT ![c].toW = <<>>]
    /\ UNCHANGED <<dbVars, conns, task, started, faults>>

WorkerStep(w) == WorkerAssign(w) \/ WorkerCancel(w) \/ SessionEnd(w)

-----------------------------------------------------------------------------
(* The environment *)

\* The connection breaks: the network, a heartbeat timeout, a worker that exits.
Cut(c) ==
    /\ link[c].up
    /\ link' = [link EXCEPT ![c].up = FALSE]
    /\ UNCHANGED <<dbVars, conns, task, session, engines, started, faults>>

\* The master restarts: goroutines and hub maps are gone, rows stay as they are.
Restart ==
    /\ faults.restarts < MaxRestarts
    /\ faults' = [faults EXCEPT !.restarts = @ + 1]
    /\ task' = [p \in Tasks |-> IF p \in Conns /\ ~At(p, "idle")
                                THEN [IdleTask EXCEPT !.pc = "done"] ELSE IdleTask]
    /\ conns' = [w \in Workers |-> None]
    /\ link' = [c \in Conns |-> [link[c] EXCEPT !.up = FALSE, !.toH = <<>>]]
    /\ UNCHANGED <<dbVars, session, engines, started>>

Next ==
    \/ \E m \in Miners : CreateMiner(m)
    \/ \E w \in Workers : EnrollWorker(w) \/ WorkerStep(w)
    \/ \E w \in Workers, c \in Conns : Connect(w, c)
    \/ \E c \in Conns : ConnStep(c) \/ Cut(c)
    \/ \E r \in Requests : RequestBegins(r) \/ RequestStep(r) \/ Abort(r)
    \/ Restart

Spec == Init /\ [][Next]_vars

\* Every goroutine, worker process and client that can take a step eventually
\* does: the Go scheduler is fair, database calls return, cmdRun dials forever
\* (a browser worker only while its token is fresh, so nothing is assumed of it).
\* Nothing is assumed of the users, of connection failures or of restarts.
FairSpec ==
    /\ Spec
    /\ \A c \in Conns : WF_vars(ConnStep(c))
    /\ \A r \in Requests : WF_vars(RequestStep(r))
    /\ \A w \in Workers : WF_vars(WorkerStep(w))
    /\ \A w \in Native : WF_vars(\E c \in Conns : Connect(w, c))

-----------------------------------------------------------------------------
(* Safety *)

\* A goroutine that will still call Assign for m and look at the live workers.
WillPlace(m) ==
    \/ \E p \in Tasks : At(p, "pick") /\ task[p].miner = m
    \/ \E c \in Conns : At(c, "joined") \/ (task[c].pc \in AssignPC /\ m \in task[c].todo)

\* handleStartMiner writes 'queued' and then looks for workers; HandleWS makes
\* its worker visible and then looks for queued miners.  Whatever the order of
\* their steps, they cannot miss each other: a queued miner no worker was ever
\* chosen for, while a native worker is in h.live, is about to be placed.
NoLostMiner ==
    \A m \in Miners : \A w \in Live \cap Native :
        miner[m] = "queued" /\ ~tried[m] => WillPlace(m)

\* An entry of h.conns and h.live belongs to a HandleWS of that very worker
\* that has not unregistered yet: no entry survives its goroutine, however
\* connections of one worker replace each other (register, unregister).
HubEntriesServed ==
    \A w \in Live : /\ link[conns[w]].worker = w
                    /\ task[conns[w]].pc \notin {"idle", "accepted", "done"}

\* Jobs reach the worker they were created for and no other, whatever happened
\* to its connections between the choice and the send; an engine runs only
\* inside a session, for a job row of that worker (Assign, handleAssign, stopAll).
EnginesOwned ==
    \A w \in Workers :
        /\ engines[w] # {} => session[w] # None
        /\ \A j \in engines[w] : job[j].worker = w /\ job[j].st # "none"

\* A miner is 'running' only if a worker started an engine for a job of that
\* very miner, whichever of the statements around it failed (handleAck).
RunningWasAcked ==
    \A m \in Miners : miner[m] = "running" =>
        \E j \in started : job[j].miner = m

\* A job recorded as an 'error' never ran: neither a failed send nor a failure
\* report can be about a job whose engine was started, whatever connections
\* replace each other while it is in flight (Assign, handleAck).
FailedNeverRan == \A j \in started : job[j].st # "error"

\* Browser workers get no job (Assign skips them).
NativeOnly == \A j \in Jobs : job[j].st # "none" => job[j].worker \in Native

\* Action property: the history tables keep what they recorded: an ended job
\* is never reopened or reassigned, a closed run is not opened again.
HistoryStands ==
    [][/\ \A j \in Jobs : job[j].st # "none" =>
             /\ job'[j].miner = job[j].miner /\ job'[j].worker = job[j].worker
             /\ job'[j].open => job[j].open
       /\ \A k \in Runs : run[k].st = "closed" => run'[k].st \in {"closed", "deleted"}]_vars

-----------------------------------------------------------------------------
(* What makes the safety properties inductive                              *)

\* j is a row created for worker w
JobOf(j, w) == job[j].st # "none" /\ job[j].worker = w

\* A connection that was made belongs to one worker for good, and an unmade one
\* is empty; a worker reads its own connection.
Wired ==
    /\ \A c \in Conns : IF At(c, "idle") THEN link[c].toW = <<>>
                                         ELSE link[c].worker \in Workers
    /\ \A w \in Workers : session[w] # None =>
          link[session[w]].worker = w /\ ~At(session[w], "idle")

\* Rows name their worker; what a goroutine chose, and what is in flight to a
\* worker, is about jobs of that worker.
Addressed ==
    /\ \A j \in Jobs : job[j].st # "none" => job[j].worker \in Native
    /\ \A c \in Conns : \A i \in 1..Len(link[c].toW) : JobOf(link[c].toW[i].job, link[c].worker)
    /\ \A p \in Tasks :
          /\ task[p].pc \in {"create", "send"} =>
                /\ task[p].wk \in Native /\ task[p].tc \in Conns
                /\ ~At(task[p].tc, "idle") /\ link[task[p].tc].worker = task[p].wk
          /\ At(p, "send") => JobOf(task[p].job, task[p].wk)
    /\ \A r \in Requests : \A j \in task[r].todo : job[j].st # "none"

\* Only an aborted request runs with a cancelled context.
ContextsLive == MaxAborts = 0 => \A p \in Tasks : task[p].ctx

DispatchInv == TypeOK /\ Wired /\ HubEntriesServed /\ Addressed /\ EnginesOwned

-----------------------------------------------------------------------------
(* Liveness, under FairSpec *)

Running(j) == \E w \in Workers : j \in engines[w]
AllIntact == \A c \in Conns : ~At(c, "idle") => link[c].up

\* Bound of the model: a goroutine waits for the identifier of a job, and none is left.
OutOfJobs == (\A j \in Jobs : job[j].st # "none") /\ \E p \in Tasks : At(p, "create")

\* A queued miner does not wait while a native worker is connected: it leaves
\* 'queued', or a connection breaks (AssignQueued runs again on the next one).
QueuedIsServed ==
    \A m \in Miners :
        miner[m] = "queued" /\ Live \cap Native # {}
            ~> miner[m] # "queued" \/ ~AllIntact \/ OutOfJobs

\* CancelMiner ends every job that was open when it read them, however acks, other
\* starts and cancellations, and a connection that breaks interleave with its loop.
StopEndsJobs ==
    \A m \in Miners, j \in Jobs :
        (\E r \in Requests : At(r, "cancel") /\ task[r].miner = m
                             /\ j \in ActiveJobsForMiner(m))
        ~> ~job[j].open

\* A HandleWS whose connection broke unregisters, and the engines of a session
\* whose connection broke stop (deferred unregister, stopAll).
BrokenConnectionsEnd ==
    \A c \in Conns :
        /\ ~At(c, "idle") /\ ~link[c].up ~> At(c, "done") \/ OutOfJobs
        /\ ~link[c].up ~> \A w \in Workers : session[w] # c

=============================================================================
