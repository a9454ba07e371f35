--------------------------- MODULE ShareAccounting ---------------------------
(***************************************************************************)
(* The accepted shares of one job, from the counter of its miner process   *)
(* to the samples and the run the master stores (rejected shares follow    *)
(* the same code).  The worker reports the counter, Hub.handleMetrics      *)
(* turns reports into differences, Hub.CancelMiner closes the run with     *)
(* their sum while reports are still under way.  Every statement of the    *)
(* hub may fail; the hub goes on as if it had not.                         *)
(***************************************************************************)
EXTENDS AdapterEngine

CONSTANTS
    MaxShares,     \* bound on the shares the pool accepts
    MaxWire        \* bound on the reports in flight

ASSUME SharesAssumption == MaxShares \in Nat /\ MaxWire \in Nat

VARIABLES
    truth,     \* history: the shares the pool accepted for the job
    early,     \* reports sent before the ack
    wire,      \* messages from the worker, in order
    update,    \* is an allocation.update on its way to the worker?
    open,      \* swarm_jobs.ended_at IS NULL
    js,        \* h.jobs[jobID]
    acked,     \* has handleAck stored its jobState?
    reader,    \* the goroutine of the connection: where it is, what it holds
    cancel,    \* CancelMiner: where it is, js.totAcc as it took it
    stored,    \* sum(shares_accepted) of the samples of the job
    lost,      \* history: the shares of the samples whose INSERT failed
    run        \* shares_accepted of the run, once CancelMiner closed it

hub == <<open, js, acked, reader, cancel, stored, lost, run>>
vars == <<wvars, truth, early, wire, update, hub>>

NoState == [last |-> 0, tot |-> 0, set |-> FALSE]
State(l, t) == [last |-> l, tot |-> t, set |-> TRUE]
Counts == 0..MaxShares

TypeOK ==
    /\ EngineTypeOK(Counts)
    /\ truth \in Counts
    /\ early \in 0..1
    /\ \A i \in 1..Len(wire) : wire[i] \in [kind : {"ack", "error", "metrics"}, acc : Counts]
    /\ Len(wire) <= MaxWire
    /\ update \in BOOLEAN
    /\ open \in BOOLEAN /\ acked \in BOOLEAN
    /\ js \in [last : Counts, tot : Nat, set : BOOLEAN]
    /\ reader \in [pc : {"read", "ack", "error", "metrics", "insert"}, acc : Nat]
    /\ cancel \in [pc : {"idle", "end", "close", "done"}, tot : Nat]
    /\ stored \in Nat /\ lost \in Nat /\ run \in Nat

Init ==
    /\ EngineInit
    /\ truth = 0 /\ early = 0 /\ stored = 0 /\ lost = 0
    /\ wire = <<>> /\ update = FALSE
    /\ open = TRUE /\ acked = FALSE
    /\ js = NoState
    /\ reader = [pc |-> "read", acc |-> 0]
    /\ cancel = [pc |-> "idle", tot |-> 0]
    /\ run = 0

-----------------------------------------------------------------------------
(* The worker *)

\* The pool accepts a share of the miner process.
Share ==
    /\ eng.kind = "adapter" /\ eng.child = "up" /\ truth < MaxShares
    /\ truth' = truth + 1
    /\ eng' = [eng EXCEPT !.count = @ + 1]
    /\ UNCHANGED <<work, proc, looking, early, wire, update, hub>>

Message(kind, acc) == [kind |-> kind, acc |-> acc]

\* The last statement of handleAssign, on its two ways out
SendAck ==
    /\ proc = "session" /\ Len(wire) < MaxWire
    /\ \/ /\ work = "listed"
          /\ work' = "acked"
          /\ wire' = Append(wire, Message("ack", 0))
          /\ UNCHANGED <<eng, proc, looking>>
       \/ /\ AssignFails
          /\ wire' = Append(wire, Message("error", 0))
    /\ UNCHANGED <<truth, early, update, hub>>

\* The reporter's tick.  It may overtake the ack, but only once: the ack is
\* written within ten seconds or not at all, and ticks are fifteen apart.
Tick ==
    /\ Looks
    /\ work = "listed" => early = 0
    /\ early' = IF work = "listed" THEN 1 ELSE early
    /\ UNCHANGED <<truth, wire, update, hub>>

\* The simulated engine counts up by chance, each time its stats are read.
Synthesized == IF eng.kind = "simulated" /\ eng.running /\ truth < MaxShares THEN {0, 1} ELSE {0}

\* Stats and send, which fails without a connection
Report ==
    /\ looking /\ proc # "crashed"
    /\ looking' = FALSE
    /\ \E n \in Synthesized :
          /\ eng' = [eng EXCEPT !.count = @ + n]
          /\ truth' = truth + n
    /\ IF proc = "session"
       THEN /\ Len(wire) < MaxWire
            /\ \E acc \in Readings(eng') : wire' = Append(wire, Message("metrics", acc))
       ELSE UNCHANGED wire
    /\ UNCHANGED <<work, proc, early, update, hub>>

\* CancelMiner sends job.cancel once it has taken the state of the job.
WorkerCancel ==
    /\ cancel.pc # "idle"
    /\ CancelJob
    /\ UNCHANGED <<truth, early, wire, update, hub>>

\* An allocation.update arrives: it restarts the engine of a job that is in the map.
ApplyUpdate ==
    /\ update /\ proc = "session" /\ Waiting
    /\ update' = FALSE
    /\ \/ AllocationStops
       \/ ~(InMap /\ eng.kind = "adapter") /\ UNCHANGED wvars
    /\ UNCHANGED <<truth, early, wire, hub>>

\* The other steps of the worker; what is in flight may get lost with the worker.
WorkerMoves ==
    /\ WorkerStep
    /\ \/ UNCHANGED <<wire, update>>
       \/ /\ proc' # "session"
          /\ update' = FALSE
          /\ \E n \in 0..Len(wire) : wire' = SubSeq(wire, 1, n)
    /\ UNCHANGED <<truth, early, hub>>

-----------------------------------------------------------------------------
(* The master: the reading goroutine of the connection *)

\* handleAck and handleMetrics begin with ActiveJobForWorker, and drop the message when
\* it finds no open job or fails.
Receive ==
    /\ reader.pc = "read" /\ wire # <<>>
    /\ wire' = Tail(wire)
    /\ \/ open /\ reader' = [pc |-> Head(wire).kind, acc |-> Head(wire).acc]
       \/ UNCHANGED reader
    /\ UNCHANGED <<wvars, truth, early, update, open, js, acked, cancel, stored, lost, run>>

\* handleAck, under the mutex
HandleAck ==
    /\ reader.pc = "ack"
    /\ js' = State(0, 0)
    /\ acked' = TRUE
    /\ reader' = [pc |-> "read", acc |-> 0]
    /\ UNCHANGED <<wvars, truth, early, wire, update, open, cancel, stored, lost, run>>

\* handleAck of an error: SetSwarmJobStatus ends the job, its own error is ignored
HandleError ==
    /\ reader.pc = "error"
    /\ open' \in {FALSE, open}
    /\ reader' = [pc |-> "read", acc |-> 0]
    /\ UNCHANGED <<wvars, truth, early, wire, update, js, acked, cancel, stored, lost, run>>

\* (mutant) restarts of the counter are not expected
DeltaRaw(last, acc) == acc - last

\* (mutant) the size of the change, whatever its direction
DeltaAbs(last, acc) == IF acc < last THEN last - acc ELSE acc - last

\* the difference to the previous report, or all of a counter that began again
Delta(last, acc) == IF acc < last THEN acc ELSE acc - last

\* (mutant) the first report counts in full although it may precede the ack
NoBaseline(acc) == IF js.set THEN js ELSE State(0, 0)

\* a job without state starts from the counter just reported
Baseline(acc) == IF js.set THEN js ELSE State(acc, 0)

\* handleMetrics, under the mutex
HandleMetrics ==
    LET s == Baseline(reader.acc)
        d == Delta(s.last, reader.acc)
    IN  /\ reader.pc = "metrics"
        /\ js' = State(reader.acc, s.tot + d)
        /\ reader' = [pc |-> "insert", acc |-> d]
        /\ UNCHANGED <<wvars, truth, early, wire, update, open, acked, cancel, stored, lost, run>>

\* InsertMetricSample: when it fails, the hub warns; its counters have moved on already.
InsertSample ==
    /\ reader.pc = "insert"
    /\ \/ stored' = stored + reader.acc /\ UNCHANGED lost
       \/ lost' = lost + reader.acc /\ UNCHANGED stored
    /\ reader' = [pc |-> "read", acc |-> 0]
    /\ UNCHANGED <<wvars, truth, early, wire, update, open, js, acked, cancel, run>>

-----------------------------------------------------------------------------
(* CancelMiner, in the goroutine of a request *)

TakeState ==
    /\ cancel.pc = "idle"
    /\ cancel' = [pc |-> "end", tot |-> js.tot]
    /\ js' = NoState
    /\ UNCHANGED <<wvars, truth, early, wire, update, open, acked, reader, stored, lost, run>>

\* the errors of SetSwarmJobStatus and CloseRun are ignored
EndJob ==
    /\ cancel.pc = "end"
    /\ open' \in {FALSE, open}
    /\ cancel' = [cancel EXCEPT !.pc = "close"]
    /\ UNCHANGED <<wvars, truth, early, wire, update, js, acked, reader, stored, lost, run>>

\* (mutant) the run is closed with the state the hub holds by now
CloseWithLatest ==
    /\ cancel.pc = "close"
    /\ run' = cancel.tot + js.last
    /\ cancel' = [cancel EXCEPT !.pc = "done"]
    /\ UNCHANGED <<wvars, truth, early, wire, update, open, js, acked, reader, stored, lost>>

CloseRun ==
    /\ cancel.pc = "close"
    /\ run' \in {run, cancel.tot}
    /\ cancel' = [cancel EXCEPT !.pc = "done"]
    /\ UNCHANGED <<wvars, truth, early, wire, update, open, js, acked, reader, stored, lost>>

-----------------------------------------------------------------------------
(* A change of the allocation, in the goroutine of a request *)

\* Hub.AllocationUpdate sends to the workers of the open jobs.
AllocationUpdate == open /\ update' = TRUE

\* POST /v1/miners/{id}/allocation; the shares of CPU and GPU are not told apart.
HandleMinerAllocation ==
    /\ AllocationUpdate
    /\ UNCHANGED <<wvars, truth, early, wire, hub>>

Next ==
    \/ Share \/ SendAck \/ Tick \/ Report \/ WorkerCancel \/ ApplyUpdate \/ WorkerMoves
    \/ Receive \/ HandleAck \/ HandleError \/ HandleMetrics \/ InsertSample
    \/ TakeState \/ EndJob \/ CloseRun \/ HandleMinerAllocation

Spec == Init /\ [][Next]_vars

-----------------------------------------------------------------------------
\* What is stored of a job never exceeds what the pool accepted, whatever the
\* order of ack, reports, counter restarts and cancellation.
NeverOvercounts == stored + (IF reader.pc = "insert" THEN reader.acc ELSE 0) <= truth

\* the shares of all samples, whether their INSERT stored them or failed
Sampled == stored + lost

\* The run is closed with no more shares than went into samples, up to the one that is
\* about to be inserted: what it has more than the rows is what failed INSERTs lost.
RunWithinSamples ==
    cancel.pc = "done" => run <= Sampled + (IF reader.pc = "insert" THEN reader.acc ELSE 0)

\* While the first process of the job is up (its counter is all that was accepted),
\* the samples add up to the last report handled: between reports, even with one
\* ahead of the ack or a message dropped, no share is lost but by a failed INSERT.
ReportsAddUp ==
    eng.child = "up" /\ eng.count = truth /\ acked /\ cancel.pc = "idle" /\ reader.pc # "insert"
        => Sampled = js.last

=============================================================================
