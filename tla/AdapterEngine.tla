---------------------------- MODULE AdapterEngine ----------------------------
(***************************************************************************)
(* One job on the native worker: the engine with its miner process, the    *)
(* session goroutine that starts, restarts and stops it, and the metrics   *)
(* reporter, which ranges over the job map without a lock.                 *)
(*                                                                         *)
(* A handler of the session goroutine is split where the reporter can see  *)
(* the difference.  What the worker sends is left to the module that       *)
(* extends this one.  A simulated engine has no process: its synthetic     *)
(* counter stands for one.                                                 *)
(***************************************************************************)
EXTENDS Integers, Sequences

CONSTANTS
    Kinds,        \* engines the job may ask for
    Unreachable   \* may the stats API of the miner process fail to answer?

ASSUME EngineAssumption ==
    /\ Kinds \subseteq {"adapter", "simulated", "native-go"}
    /\ Unreachable \in BOOLEAN

VARIABLES
    eng,       \* the engine: its kind, its running flag, its process with the counter
               \* of accepted shares, and the context that ends the process
    work,      \* how far the session goroutine has come with the job
    proc,      \* the worker: "session", "backoff" (connection lost), "exited", "crashed"
    looking    \* has the reporter taken the job from the map, and not reported yet?

wvars == <<eng, work, proc, looking>>

\* "idle": not assigned yet; "started", "listed": inside handleAssign; "acked": at work;
\* "stopped": inside handleAllocation; "failed", "gone": no longer (or never) in the map
Work == {"idle", "started", "listed", "acked", "stopped", "failed", "gone"}
InMap == work \in {"listed", "acked", "stopped"}

EngineTypeOK(Counts) ==
    /\ eng \in [kind : Kinds, running : BOOLEAN, child : {"none", "up", "dead"},
                ctx : {"job", "process"}, count : Counts]
    /\ work \in Work
    /\ proc \in {"session", "backoff", "exited", "crashed"}
    /\ looking \in BOOLEAN

EngineInit ==
    /\ \E k \in Kinds :
          eng = [kind |-> k, running |-> FALSE, child |-> "none", ctx |-> "job", count |-> 0]
    /\ work = "idle"
    /\ proc = "session"
    /\ looking = FALSE

-----------------------------------------------------------------------------
(* Engine *)

\* Start with a context: refused while the running flag is set, and it may fail.
Start(e, ctx) ==
    {e} \cup IF e.running THEN {}
             ELSE {[e EXCEPT !.running = TRUE, !.child = "up", !.ctx = ctx, !.count = 0]}

\* Stop kills the process, also one that a context no longer reaches.
Stop(e) == [e EXCEPT !.running = FALSE, !.child = IF @ = "up" THEN "dead" ELSE @]

\* The end of a context kills the process that was started with it.
Cancelled(e, ctx) == IF e.kind = "adapter" /\ e.ctx = ctx /\ e.child = "up" THEN [e EXCEPT !.child = "dead"] ELSE e

\* Stats: the counter; zero when the engine does not run, its process is dead or its
\* API is silent
Readings(e) ==
    {IF e.running /\ e.child = "up" THEN e.count ELSE 0}
        \cup (IF Unreachable /\ e.kind = "adapter" THEN {0} ELSE {})

\* Nothing clears the running flag.
ChildDies ==
    /\ eng.kind = "adapter" /\ eng.child = "up"
    /\ eng' = [eng EXCEPT !.child = "dead"]
    /\ UNCHANGED <<work, proc, looking>>

-----------------------------------------------------------------------------
(* The session goroutine *)

\* Writing the map while the reporter ranges over it may end the process at once;
\* no deferred call runs and a child process stays behind.
MapWrite(next) ==
    \/ proc' = proc /\ work' = next
    \/ looking /\ proc' = "crashed" /\ work' = "gone"

\* Prepare (the binary, its checksum, a port; native-go is a stub) and Start
AssignFails ==
    /\ proc = "session" /\ work = "idle"
    /\ work' = "failed"
    /\ UNCHANGED <<eng, proc, looking>>

AssignStarts ==
    /\ proc = "session" /\ work = "idle"
    /\ eng.kind # "native-go"
    /\ eng' \in Start(eng, "job") \ {eng}
    /\ work' = "started"
    /\ UNCHANGED <<proc, looking>>

AssignLists ==
    /\ proc = "session" /\ work = "started"
    /\ MapWrite("listed")
    /\ UNCHANGED <<eng, looking>>

\* (mutant) the context of the job is taken to end its process
CancelContextOnly ==
    /\ proc = "session" /\ work = "acked"
    /\ eng' = Cancelled(eng, "job")
    /\ MapWrite("gone")
    /\ UNCHANGED looking

\* job.cancel: cancel, Stop, delete
CancelJob ==
    /\ proc = "session" /\ work = "acked"
    /\ eng' = Stop(Cancelled(eng, "job"))
    /\ MapWrite("gone")
    /\ UNCHANGED looking

\* handleAllocation: SetAllocation, and for an adapter Stop and Start, the latter
\* with the context of the process
AllocationStops ==
    /\ proc = "session" /\ work = "acked" /\ eng.kind = "adapter"
    /\ eng' = Stop(eng)
    /\ work' = "stopped"
    /\ UNCHANGED <<proc, looking>>

AllocationStarts ==
    /\ proc = "session" /\ work = "stopped"
    /\ eng' \in Start(eng, "process")
    /\ work' = "acked"
    /\ UNCHANGED <<proc, looking>>

Waiting == work \in {"idle", "acked", "failed", "gone"}

\* The connection breaks, or the owner revokes the worker: stopAll, and a new map.
SessionEnds ==
    /\ proc = "session" /\ Waiting
    /\ eng' = IF InMap THEN Stop(Cancelled(eng, "job")) ELSE eng
    /\ work' = "gone"
    /\ proc' = "backoff"
    /\ UNCHANGED looking

\* SIGINT or SIGTERM: the context of the process ends, and stopAll runs on the way out.
Terminates ==
    /\ proc \in {"session", "backoff"} /\ Waiting
    /\ eng' = LET e == Cancelled(eng, "process") IN IF InMap THEN Stop(Cancelled(e, "job")) ELSE e
    /\ work' = "gone"
    /\ proc' = "exited"
    /\ UNCHANGED looking

\* The tick of the reporter: it takes the job out of the map.
Looks ==
    /\ proc = "session" /\ InMap /\ ~looking
    /\ looking' = TRUE
    /\ UNCHANGED <<eng, work, proc>>

WorkerStep ==
    \/ ChildDies \/ AssignStarts \/ AssignLists
    \/ AllocationStarts \/ SessionEnds \/ Terminates

-----------------------------------------------------------------------------
\* As long as it has not crashed the worker keeps hold of its miner: a process that
\* is up belongs to a job in the map or to the handler that is about to list it, also
\* after allocation updates, and none is left when the worker has exited.
NoStrayMiner == eng.child = "up" => InMap \/ work = "started" \/ proc = "crashed"

=============================================================================
