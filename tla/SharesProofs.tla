----------------------------- MODULE SharesProofs -----------------------------
(***************************************************************************)
(* The accounting of shares, for any number of shares and of messages in   *)
(* flight: the master stores no more than the pool accepted, closes the    *)
(* run within its samples and, while the first miner process is up, loses  *)
(* nothing between reports, whichever statements of it fail; and the       *)
(* worker never loses hold of a miner process.                             *)
(***************************************************************************)
EXTENDS ShareAccounting, SequenceTheorems, TLAPS

-----------------------------------------------------------------------------
(* The inductive invariant *)

Msg == [kind : {"ack", "error", "metrics"}, acc : Counts]

TypedWork ==
    /\ EngineTypeOK(Counts) /\ eng.count <= truth
    /\ eng.child = "up" => eng.running
    /\ truth \in Counts /\ early \in 0..1
    /\ wire \in Seq(Msg) /\ Len(wire) <= MaxWire
    /\ update \in BOOLEAN

TypedHub ==
    /\ open \in BOOLEAN /\ acked \in BOOLEAN
    /\ js \in [last : Counts, tot : Nat, set : BOOLEAN]
    /\ reader \in [pc : {"read", "ack", "error", "metrics", "insert"}, acc : Nat]
    /\ reader.pc = "metrics" => reader.acc \in Counts
    /\ cancel \in [pc : {"idle", "end", "close", "done"}, tot : Nat]
    /\ stored \in Nat /\ lost \in Nat /\ run \in Nat

Typed == TypedWork /\ TypedHub

\* What is on its way to the hub: the message the reader has taken (0), then the wire
At == 0..Len(wire)
Kind(i) == IF i = 0 THEN reader.pc ELSE wire[i].kind
Acc(i) == IF i = 0 THEN reader.acc ELSE wire[i].acc
Reports == {i \in At : Kind(i) = "metrics"}
Acks == {i \in At : Kind(i) = "ack"}

\* What the hub has counted, with the sample about to be inserted; what the counter shows
Counted == Sampled + (IF reader.pc = "insert" THEN reader.acc ELSE 0)
Now == IF eng.running /\ eng.child = "up" THEN eng.count ELSE 0

\* How far a reading of x lies above what was counted last
Above(x) == IF js.set THEN Delta(js.last, x) ELSE 0

\* t[i] is what the pool had accepted when report i was made: between two reports it
\* grew by what their difference will be counted as, or by more.
Stamps(t) ==
    \A i \in Reports :
        /\ Acc(i) <= t[i]
        /\ t[i] + Delta(Acc(i), Now) <= truth
        /\ Counted + Above(Acc(i)) <= t[i]
        /\ \A j \in Reports : i < j => t[i] + Delta(Acc(i), Acc(j)) <= t[j]
Stamped ==
    /\ \E t \in [Nat -> Nat] : Stamps(t)
    /\ Counted + Above(Now) <= truth
    /\ js.last <= truth

\* As long as an ack is still to come nothing is counted, since one report at most
\* overtakes it.
AckToCome == Acks # {} \/ work \in {"idle", "started", "listed", "failed"}
AckOrder ==
    /\ \A i, j \in Acks : i = j
    /\ acked => Acks = {}
    /\ work \in {"idle", "started", "listed", "failed"} => Acks = {} /\ ~acked
    /\ AckToCome =>
          /\ Counted = 0
          /\ \A j \in Reports : js.set \/ (\E i \in Reports : i < j) => \E k \in Acks : k < j
    /\ looking => work \notin {"idle", "started", "failed"}
    /\ work \in {"idle", "started"} => early = 0
    /\ work = "listed" /\ looking => early = 1
    /\ \/ work \in {"idle", "started", "failed"}
       \/ work = "listed" /\ (early = 0 \/ looking)
       => Reports = {} /\ ~js.set

\* Reports of a process whose counter is all that was accepted grow.
Whole == eng.child = "up" /\ eng.count = truth
Ordered ==
    /\ acked /\ cancel.pc = "idle" => js.set
    /\ Whole =>
          /\ \A i \in Reports : \A j \in Reports : i < j => Acc(i) <= Acc(j)
          /\ acked /\ cancel.pc = "idle" =>
                Counted = js.last /\ \A i \in Reports : js.last <= Acc(i)

\* The totals of the job, and the sum CancelMiner took
Totals ==
    /\ js.tot <= Counted
    /\ cancel.tot <= Counted
    /\ run <= cancel.tot /\ (cancel.pc = "idle" => run = 0)

WorkInv == Typed /\ NoStrayMiner /\ Totals
ShareInv == WorkInv /\ Stamped /\ AckOrder /\ Ordered

-----------------------------------------------------------------------------
(* The engine *)

Engine == [kind : Kinds, running : BOOLEAN, child : {"none", "up", "dead"},
           ctx : {"job", "process"}, count : Counts]

\* A process that is up belongs to an engine that runs.
Sound(e) == e \in Engine /\ (e.child = "up" => e.running)

\* d is e, or e with its process gone, or with a new one that has no share yet.
Follows(d, e) ==
    /\ Sound(d) /\ d.count <= e.count
    /\ d.child = "up" => \/ e.child = "up" /\ d.count = e.count
                         \/ d.count = 0

LEMMA StopFollows ==
    ASSUME NEW e, Sound(e)
    PROVE  Follows(Stop(e), e) /\ Stop(e).child # "up"
<1>1. Stop(e) \in Engine /\ Stop(e).child # "up" /\ Stop(e).count = e.count /\ e.count \in Nat
  <2>1. e \in Engine /\ e.count \in Nat
    BY DEF Sound, Engine, Counts
  <2>2. CASE e.child = "up"
    BY <2>1, <2>2 DEF Stop, Engine
  <2>3. CASE e.child # "up"
    BY <2>1, <2>3 DEF Stop, Engine
  <2>4. QED
    BY <2>2, <2>3
<1>2. QED
  BY <1>1 DEF Follows, Sound

LEMMA CancelledFollows ==
    ASSUME NEW e, Sound(e), NEW c
    PROVE  Follows(Cancelled(e, c), e)
<1>1. /\ Cancelled(e, c) \in Engine /\ Cancelled(e, c).count = e.count /\ e.count \in Nat
      /\ Cancelled(e, c).running = e.running
      /\ Cancelled(e, c).child = "up" => e.child = "up"
  <2>1. e \in Engine /\ e.count \in Nat
    BY DEF Sound, Engine, Counts
  <2>2. CASE Cancelled(e, c) = e
    BY <2>1, <2>2
  <2>3. CASE Cancelled(e, c) # e
    BY <2>1, <2>3 DEF Cancelled, Engine
  <2>4. QED
    BY <2>2, <2>3
<1>2. QED
  BY <1>1 DEF Follows, Sound

LEMMA StartFollows ==
    ASSUME NEW e, Sound(e), NEW c \in {"job", "process"}, NEW d \in Start(e, c)
    PROVE  Follows(d, e)
<1>1. e.count \in Nat /\ 0 \in Counts
  BY SharesAssumption DEF Sound, Engine, Counts
<1>2. CASE d = e
  BY <1>1, <1>2 DEF Follows, Sound
<1>3. CASE d # e
  <2>1. d = [e EXCEPT !.running = TRUE, !.child = "up", !.ctx = c, !.count = 0]
    BY <1>3 DEF Start
  <2>2. d \in Engine /\ d.running /\ d.count = 0
    BY <1>1, <2>1 DEF Sound, Engine
  <2>3. QED
    BY <1>1, <2>2 DEF Follows, Sound
<1>4. QED
  BY <1>2, <1>3

LEMMA FollowsChain ==
    ASSUME NEW e, NEW d, NEW f, Sound(e), Follows(d, e), Follows(f, d)
    PROVE  Follows(f, e)
<1>1. e.count \in Nat /\ d.count \in Nat /\ f.count \in Nat
  BY DEF Follows, Sound, Engine, Counts
<1>2. QED
  BY <1>1 DEF Follows

\* The steps of the session goroutine and of the process: the engine follows itself,
\* and a process that is up stays within reach.
LEMMA EngineSteps ==
    ASSUME Typed, NoStrayMiner,
           WorkerStep \/ AssignFails \/ CancelJob \/ AllocationStops
    PROVE  /\ Follows(eng', eng) /\ EngineTypeOK(Counts)' /\ NoStrayMiner'
           /\ looking' = looking
<1>1. /\ Sound(eng) /\ Follows(eng, eng)
      /\ work \in Work /\ proc \in {"session", "backoff", "exited", "crashed"} /\ looking \in BOOLEAN
  <2>1. eng \in Engine /\ eng.count \in Nat
    BY DEF Typed, TypedWork, TypedHub, EngineTypeOK, Engine, Counts
  <2>2. QED
    BY <2>1 DEF Typed, TypedWork, TypedHub, EngineTypeOK, Sound, Follows
<1>2. ASSUME Follows(eng', eng), work' \in Work, proc' \in {"session", "backoff", "exited", "crashed"},
             looking' = looking
      PROVE  EngineTypeOK(Counts)'
  BY <1>1, <1>2 DEF EngineTypeOK, Follows, Sound, Engine
<1>3. eng.child = "up" /\ proc # "crashed" => work \in {"listed", "acked", "stopped", "started"}
  BY DEF NoStrayMiner, InMap
<1>4. CASE ChildDies
  <2>1. eng' \in Engine /\ eng'.child = "dead" /\ eng'.count = eng.count
    BY <1>1, <1>4 DEF ChildDies, Sound, Engine
  <2>2. Follows(eng', eng)
    BY <1>1, <2>1 DEF Follows, Sound
  <2>3. QED
    BY <1>1, <1>2, <1>4, <2>1, <2>2 DEF ChildDies, NoStrayMiner
<1>5. CASE AssignStarts
  <2>1. Follows(eng', eng)
    BY <1>1, <1>5, StartFollows DEF AssignStarts
  <2>2. QED
    BY <1>1, <1>2, <1>5, <2>1 DEF AssignStarts, NoStrayMiner, Work
<1>6. CASE AssignLists
  BY <1>1, <1>2, <1>6 DEF AssignLists, MapWrite, NoStrayMiner, InMap, Work
<1>7. CASE AllocationStarts
  <2>1. Follows(eng', eng)
    BY <1>1, <1>7, StartFollows DEF AllocationStarts
  <2>2. QED
    BY <1>1, <1>2, <1>7, <2>1 DEF AllocationStarts, NoStrayMiner, InMap, Work
<1>8. Follows(Stop(Cancelled(eng, "job")), eng) /\ Stop(Cancelled(eng, "job")).child # "up"
  BY <1>1, StopFollows, CancelledFollows, FollowsChain DEF Follows
<1>9. CASE SessionEnds
  <2>1. Follows(eng', eng) /\ (eng'.child # "up")
    BY <1>1, <1>3, <1>8, <1>9 DEF SessionEnds, Waiting, InMap
  <2>2. QED
    BY <1>1, <1>2, <1>9, <2>1 DEF SessionEnds, NoStrayMiner, Work
<1>10. CASE Terminates
  <2> DEFINE e == Cancelled(eng, "process")
  <2>1. Follows(e, eng) /\ Sound(e)
    BY <1>1, CancelledFollows DEF Follows
  <2>2. e.child = "up" => eng.child = "up"
    BY <1>1 DEF Cancelled, Sound, Engine
  <2> HIDE DEF e
  <2>3. Follows(Stop(Cancelled(e, "job")), e) /\ Stop(Cancelled(e, "job")).child # "up"
    BY <2>1, StopFollows, CancelledFollows, FollowsChain DEF Follows
  <2>4. eng' = IF InMap THEN Stop(Cancelled(e, "job")) ELSE e
    BY <1>10 DEF Terminates, e
  <2>5. Follows(eng', eng)
    BY <1>1, <2>1, <2>3, <2>4, FollowsChain
  <2>6. eng'.child # "up"
    BY <1>3, <1>10, <2>2, <2>3, <2>4 DEF Terminates, Waiting, InMap
  <2>7. QED
    BY <1>1, <1>2, <1>10, <2>5, <2>6 DEF Terminates, NoStrayMiner, Work
<1>11. CASE AssignFails
  BY <1>1, <1>2, <1>3, <1>11 DEF AssignFails, NoStrayMiner, Work
<1>12. CASE CancelJob
  BY <1>1, <1>2, <1>8, <1>12 DEF CancelJob, MapWrite, NoStrayMiner, Work
<1>13. CASE AllocationStops
  <2>1. Follows(eng', eng) /\ eng'.child # "up"
    BY <1>1, <1>13, StopFollows DEF AllocationStops
  <2>2. QED
    BY <1>1, <1>2, <1>13, <2>1 DEF AllocationStops, NoStrayMiner, Work
<1>14. QED
  BY <1>4, <1>5, <1>6, <1>7, <1>9, <1>10, <1>11, <1>12, <1>13 DEF WorkerStep

-----------------------------------------------------------------------------
(* Differences of counters *)

LEMMA DeltaFacts ==
    ASSUME NEW a \in Nat, NEW b \in Nat
    PROVE  /\ Delta(a, b) \in Nat
           /\ Delta(a, b) <= b
           /\ Delta(a, a) = 0
           /\ Delta(a, 0) = 0
           /\ Delta(a, b + 1) <= Delta(a, b) + 1
           /\ a <= b => Delta(a, b) = b - a
BY DEF Delta

LEMMA Triangle ==
    ASSUME NEW a \in Nat, NEW b \in Nat, NEW c \in Nat
    PROVE  Delta(a, c) <= Delta(a, b) + Delta(b, c)
BY DEF Delta

-----------------------------------------------------------------------------
(* The types, the miner process and the totals, whatever the stats API does *)

\* What a step of the worker does to the types
LEMMA WorkerTyped ==
    ASSUME Typed, Follows(eng', eng), EngineTypeOK(Counts)',
           truth' = truth, early' = early, UNCHANGED hub,
           wire' \in Seq(Msg), Len(wire') <= MaxWire, update' \in BOOLEAN
    PROVE  Typed'
<1>1. eng'.count \in Nat /\ eng.count \in Nat /\ truth \in Nat /\ eng'.count <= eng.count
  BY DEF Typed, TypedWork, TypedHub, EngineTypeOK, Counts, Follows
<1>2. eng'.count <= truth /\ (eng'.child = "up" => eng'.running)
  BY <1>1 DEF Typed, TypedWork, TypedHub, Follows, Sound
<1>3. QED
  BY <1>2 DEF Typed, TypedWork, TypedHub, hub

\* An INSERT stores what was counted or loses it.
LEMMA Booked ==
    ASSUME Typed, HandleError \/ InsertSample
    PROVE  /\ Counted' = Counted /\ open' \in {FALSE, open}
           /\ reader'.pc = "read" /\ reader.pc \in {"error", "insert"}
           /\ UNCHANGED <<wvars, truth, early, wire, js, acked, cancel>>
<1>1. stored \in Nat /\ lost \in Nat /\ reader.acc \in Nat
  BY DEF Typed, TypedHub
<1>2. CASE HandleError
  <2>1. reader.pc = "error" /\ reader'.pc = "read" /\ UNCHANGED <<stored, lost>>
    BY <1>2 DEF HandleError
  <2>2. Counted' = Counted
    BY <2>1 DEF Counted, Sampled
  <2>3. QED
    BY <1>2, <2>1, <2>2 DEF HandleError
<1>3. CASE InsertSample
  <2>1. Counted' = stored' + lost' + 0 /\ Counted = stored + lost + reader.acc
    BY <1>1, <1>3 DEF InsertSample, Counted, Sampled
  <2>2. stored' + lost' = stored + lost + reader.acc
    BY <1>1, <1>3 DEF InsertSample
  <2>3. Counted' = Counted
    BY <1>1, <2>1, <2>2
  <2>4. reader' = [pc |-> "read", acc |-> 0] /\ reader.pc = "insert"
        /\ UNCHANGED <<wvars, truth, early, wire, open, js, acked, cancel>>
    BY <1>3 DEF InsertSample
  <2>5. QED
    BY <2>3, <2>4
<1>4. QED
  BY <1>2, <1>3

LEMMA WireFacts ==
    ASSUME Typed
    PROVE  /\ \A m \in Msg : Len(wire) < MaxWire =>
                 Append(wire, m) \in Seq(Msg) /\ Len(Append(wire, m)) <= MaxWire
           /\ \A n \in 0..Len(wire) :
                 SubSeq(wire, 1, n) \in Seq(Msg) /\ Len(SubSeq(wire, 1, n)) = n
           /\ wire # <<>> => /\ Tail(wire) \in Seq(Msg) /\ Len(Tail(wire)) = Len(wire) - 1
                             /\ Head(wire) = wire[1] /\ wire[1] \in Msg /\ Len(wire) >= 1
           /\ MaxWire \in Nat /\ Len(wire) \in Nat
<1>1. wire \in Seq(Msg) /\ Len(wire) <= MaxWire /\ MaxWire \in Nat
  BY SharesAssumption DEF Typed, TypedWork, TypedHub
<1>2. \A m \in Msg : Len(wire) < MaxWire =>
         Append(wire, m) \in Seq(Msg) /\ Len(Append(wire, m)) <= MaxWire
  BY <1>1
<1>3. \A n \in 0..Len(wire) : SubSeq(wire, 1, n) \in Seq(Msg) /\ Len(SubSeq(wire, 1, n)) = n
  BY <1>1
<1>4. wire # <<>> => /\ Tail(wire) \in Seq(Msg) /\ Len(Tail(wire)) = Len(wire) - 1
                     /\ Head(wire) = wire[1] /\ wire[1] \in Msg /\ Len(wire) >= 1
  BY <1>1
<1>5. QED
  BY <1>1, <1>2, <1>3, <1>4

LEMMA InitWork == Init => WorkInv
<1> SUFFICES ASSUME Init PROVE WorkInv
  OBVIOUS
<1>1. 0 \in Counts
  BY SharesAssumption DEF Counts
<1>2. wire \in Seq(Msg) /\ Len(wire) = 0 /\ MaxWire \in Nat /\ 0 <= MaxWire
  BY SharesAssumption DEF Init
<1>3. Typed
  <2>1. EngineTypeOK(Counts) /\ eng.count = 0 /\ eng.child = "none"
    <3>1. PICK k \in Kinds : eng = [kind |-> k, running |-> FALSE, child |-> "none",
                                    ctx |-> "job", count |-> 0]
      BY DEF Init, EngineInit
    <3>2. QED
      BY <1>1, <3>1 DEF Init, EngineInit, EngineTypeOK, Work
  <2>2. TypedWork
    <3>1. eng.count <= truth /\ early \in 0..1 /\ truth \in Counts /\ Len(wire) <= MaxWire
      BY <1>1, <1>2, <2>1 DEF Init
    <3>2. QED
      BY <1>2, <2>1, <3>1 DEF Init, TypedWork
  <2>3. TypedHub
    <3>1. js \in [last : Counts, tot : Nat, set : BOOLEAN]
      BY <1>1 DEF Init, NoState
    <3>2. QED
      BY <3>1 DEF Init, TypedHub
  <2>4. QED
    BY <2>2, <2>3 DEF Typed
<1>4. NoStrayMiner
  BY DEF Init, EngineInit, NoStrayMiner
<1>5. Totals
  BY DEF Init, Totals, Counted, NoState, Sampled
<1>6. QED
  BY <1>3, <1>4, <1>5 DEF WorkInv

LEMMA WorkSteps ==
    ASSUME WorkInv, [Next]_vars
    PROVE  WorkInv'
<1> USE DEF WorkInv
<1>1. /\ truth \in Nat /\ eng.count \in Nat /\ eng.count <= truth /\ MaxShares \in Nat
      /\ stored \in Nat /\ lost \in Nat /\ Sampled \in Nat
      /\ js.tot \in Nat /\ cancel.tot \in Nat /\ reader.acc \in Nat /\ run \in Nat
      /\ 0 \in Counts /\ \A n \in Counts : n \in Nat
  BY SharesAssumption DEF Typed, TypedWork, TypedHub, EngineTypeOK, Counts, Sampled
<1>2. UNCHANGED hub => Totals'
  BY DEF Totals, Counted, hub, Sampled
<1>3. ASSUME Follows(eng', eng), EngineTypeOK(Counts)', NoStrayMiner',
             truth' = truth, early' = early, UNCHANGED hub,
             wire' \in Seq(Msg), Len(wire') <= MaxWire, update' \in BOOLEAN
      PROVE  WorkInv'
  BY <1>2, <1>3, WorkerTyped
<1>4. Follows(eng, eng)
  BY <1>1 DEF Follows, Sound, Typed, TypedWork, TypedHub, EngineTypeOK, Engine
<1>5. CASE UNCHANGED vars
  <2>1. Typed'
    BY <1>5 DEF vars, wvars, hub, Typed, TypedWork, TypedHub, EngineTypeOK
  <2>2. QED
    BY <1>2, <1>5, <2>1 DEF vars, wvars, NoStrayMiner, InMap
<1>6. CASE Share
  <2>1. /\ eng' = [eng EXCEPT !.count = @ + 1] /\ truth' = truth + 1 /\ truth < MaxShares
        /\ UNCHANGED <<work, proc, looking, early, wire, update, hub>>
    BY <1>6 DEF Share
  <2>2. truth' \in Counts /\ eng.count + 1 \in Counts
    BY <1>1, <2>1 DEF Counts
  <2>3. eng' \in Engine /\ eng'.count = eng.count + 1 /\ eng'.child = eng.child /\ eng'.running = eng.running
    BY <2>1, <2>2 DEF Typed, TypedWork, TypedHub, EngineTypeOK, Engine
  <2>4. eng'.count <= truth'
    BY <1>1, <2>1, <2>3
  <2>5. Typed'
    BY <2>1, <2>2, <2>3, <2>4 DEF Typed, TypedWork, TypedHub, EngineTypeOK, Engine, hub
  <2>6. QED
    BY <1>2, <2>1, <2>3, <2>5 DEF NoStrayMiner, InMap
<1>7. CASE SendAck
  <2>1. PICK m \in Msg : wire' = Append(wire, m)
    BY <1>1, <1>7 DEF SendAck, Message, Msg
  <2>2. wire' \in Seq(Msg) /\ Len(wire') <= MaxWire
    BY <1>7, <2>1, WireFacts DEF SendAck
  <2>3. CASE AssignFails
    BY <1>3, <1>7, <2>2, <2>3, EngineSteps DEF SendAck, Typed, TypedWork, TypedHub
  <2>4. CASE work = "listed" /\ work' = "acked" /\ UNCHANGED <<eng, proc, looking>>
    <3>1. EngineTypeOK(Counts)' /\ NoStrayMiner' /\ Follows(eng', eng)
      BY <1>4, <2>4 DEF Typed, TypedWork, TypedHub, EngineTypeOK, NoStrayMiner, InMap, Work
    <3>2. QED
      BY <1>3, <1>7, <2>2, <3>1 DEF SendAck, Typed, TypedWork, TypedHub
  <2>5. QED
    BY <1>7, <2>3, <2>4 DEF SendAck
<1>8. CASE Tick
  <2>1. early' \in 0..1
    BY <1>8 DEF Tick, Typed, TypedWork, TypedHub
  <2>2. Typed'
    BY <1>8, <2>1 DEF Tick, Looks, Typed, TypedWork, TypedHub, EngineTypeOK, hub
  <2>3. QED
    BY <1>2, <1>8, <2>2 DEF Tick, Looks, NoStrayMiner, InMap
<1>9. CASE Report
  <2>1. PICK n \in Synthesized : eng' = [eng EXCEPT !.count = @ + n] /\ truth' = truth + n
    BY <1>9 DEF Report
  <2>2. n \in 0..1 /\ truth + n <= MaxShares
    BY <1>1, <2>1 DEF Synthesized, Typed, TypedWork, TypedHub, Counts
  <2>3. truth' \in Counts /\ eng.count + n \in Counts /\ eng.count + n <= truth'
    BY <1>1, <2>1, <2>2 DEF Counts
  <2>4. eng' \in Engine /\ eng'.count = eng.count + n /\ eng'.child = eng.child /\ eng'.running = eng.running
    BY <2>1, <2>3 DEF Typed, TypedWork, TypedHub, EngineTypeOK, Engine
  <2>5. wire' \in Seq(Msg) /\ Len(wire') <= MaxWire
    <3>1. CASE proc = "session"
      <4>1. PICK acc \in Readings(eng') : wire' = Append(wire, Message("metrics", acc))
        BY <1>9, <3>1 DEF Report
      <4>2. acc \in Counts
        BY <1>1, <2>3, <2>4, <4>1 DEF Readings
      <4>3. Message("metrics", acc) \in Msg
        BY <4>2 DEF Message, Msg
      <4>4. QED
        BY <1>9, <3>1, <4>1, <4>3, WireFacts DEF Report
    <3>2. CASE proc # "session"
      BY <1>9, <3>2 DEF Report, Typed, TypedWork, TypedHub
    <3>3. QED
      BY <3>1, <3>2
  <2>6. UNCHANGED <<work, proc, early, update, hub>> /\ looking' = FALSE
    BY <1>9 DEF Report
  <2>7. Typed'
    <3>1. EngineTypeOK(Counts)'
      BY <2>4, <2>6 DEF Typed, TypedWork, EngineTypeOK, Engine
    <3>2. TypedWork'
      BY <2>3, <2>4, <2>5, <2>6, <3>1 DEF Typed, TypedWork
    <3>3. QED
      BY <2>6, <3>2 DEF Typed, TypedHub, hub
  <2>8. QED
    BY <1>2, <2>4, <2>6, <2>7 DEF NoStrayMiner, InMap
<1>10. CASE WorkerCancel
  <2>1. wire' \in Seq(Msg) /\ Len(wire') <= MaxWire /\ update' \in BOOLEAN
    BY <1>10 DEF WorkerCancel, Typed, TypedWork, TypedHub
  <2>2. QED
    BY <1>3, <1>10, <2>1, EngineSteps DEF WorkerCancel
<1>11. CASE ApplyUpdate
  <2>1. wire' \in Seq(Msg) /\ Len(wire') <= MaxWire /\ update' \in BOOLEAN
    BY <1>11 DEF ApplyUpdate, Typed, TypedWork, TypedHub
  <2>2. CASE AllocationStops
    BY <1>3, <1>11, <2>1, <2>2, EngineSteps DEF ApplyUpdate
  <2>3. CASE UNCHANGED wvars
    <3>1. EngineTypeOK(Counts)' /\ NoStrayMiner' /\ Follows(eng', eng)
      BY <1>4, <2>3 DEF Typed, TypedWork, TypedHub, EngineTypeOK, NoStrayMiner, InMap, wvars
    <3>2. QED
      BY <1>3, <1>11, <2>1, <3>1 DEF ApplyUpdate
  <2>4. QED
    BY <1>11, <2>2, <2>3 DEF ApplyUpdate
<1>12. CASE WorkerMoves
  <2>1. wire' \in Seq(Msg) /\ Len(wire') <= MaxWire /\ update' \in BOOLEAN
    <3>1. CASE UNCHANGED <<wire, update>>
      BY <3>1 DEF Typed, TypedWork, TypedHub
    <3>2. CASE update' = FALSE /\ \E n \in 0..Len(wire) : wire' = SubSeq(wire, 1, n)
      <4>1. PICK n \in 0..Len(wire) : wire' = SubSeq(wire, 1, n)
        BY <3>2
      <4>2. Len(wire') = n /\ wire' \in Seq(Msg)
        BY <4>1, WireFacts
      <4>3. Len(wire) <= MaxWire /\ MaxWire \in Nat /\ Len(wire) \in Nat
        BY WireFacts DEF Typed, TypedWork, TypedHub
      <4>4. n <= MaxWire
        BY <4>3
      <4>5. QED
        BY <3>2, <4>2, <4>4
    <3>3. QED
      BY <1>12, <3>1, <3>2 DEF WorkerMoves
  <2>2. QED
    BY <1>3, <1>12, <2>1, EngineSteps DEF WorkerMoves
<1>13. UNCHANGED wvars => NoStrayMiner' /\ EngineTypeOK(Counts)'
  BY DEF wvars, NoStrayMiner, InMap, Typed, TypedWork, TypedHub, EngineTypeOK
<1>14. CASE Receive
  <2>1. wire' \in Seq(Msg) /\ Len(wire') <= MaxWire /\ Head(wire) \in Msg
    <3>1. Len(wire') = Len(wire) - 1 /\ wire' \in Seq(Msg) /\ Len(wire) \in Nat /\ MaxWire \in Nat
      BY <1>14, WireFacts DEF Receive
    <3>2. QED
      BY <1>14, <3>1, WireFacts DEF Receive, Typed, TypedWork, TypedHub
  <2>2. /\ reader' \in [pc : {"read", "ack", "error", "metrics", "insert"}, acc : Nat]
        /\ reader'.pc = "metrics" => reader'.acc \in Counts
        /\ reader'.pc # "insert" /\ reader.pc # "insert"
    <3>1. CASE reader' = reader
      BY <1>14, <3>1 DEF Receive, Typed, TypedHub
    <3>2. CASE reader' = [pc |-> Head(wire).kind, acc |-> Head(wire).acc]
      BY <1>1, <1>14, <2>1, <3>2 DEF Receive, Msg
    <3>3. QED
      BY <1>14, <3>1, <3>2 DEF Receive
  <2>3. Typed'
    BY <1>13, <1>14, <2>1, <2>2 DEF Receive, wvars, Typed, TypedWork, TypedHub
  <2>4. Totals'
    BY <1>14, <2>2 DEF Receive, Totals, Counted, Sampled
  <2>5. QED
    BY <1>13, <1>14, <2>3, <2>4 DEF Receive
<1>15. CASE HandleAck \/ HandleError
  <2>1. Typed'
    <3>1. TypedWork'
      <4>1. UNCHANGED <<wvars, truth, early, wire, update>>
        BY <1>15 DEF HandleAck, HandleError
      <4>2. QED
        BY <1>13, <4>1 DEF wvars, Typed, TypedWork
    <3>2. TypedHub'
      <4>1. /\ reader' \in [pc : {"read", "ack", "error", "metrics", "insert"}, acc : Nat]
            /\ reader'.pc = "read"
        <5>1. reader' = [pc |-> "read", acc |-> 0]
          BY <1>15 DEF HandleAck, HandleError
        <5>2. QED
          BY <5>1
      <4>2. CASE HandleAck
        <5>1. js' \in [last : Counts, tot : Nat, set : BOOLEAN]
          BY <1>1, <4>2 DEF HandleAck, State
        <5>2. QED
          BY <4>1, <4>2, <5>1 DEF HandleAck, Typed, TypedHub
      <4>3. CASE HandleError
        BY <4>1, <4>3 DEF HandleError, Typed, TypedHub
      <4>4. QED
        BY <1>15, <4>2, <4>3
    <3>3. QED
      BY <3>1, <3>2 DEF Typed
  <2>2. Totals'
    <3>1. Counted' = Counted /\ cancel' = cancel /\ run' = run /\ (js' = js \/ js'.tot = 0)
      <4>1. CASE HandleAck
        BY <4>1 DEF HandleAck, Counted, State, Sampled
      <4>2. CASE HandleError
        BY <4>2 DEF HandleError, Counted, Sampled
      <4>3. QED
        BY <1>15, <4>1, <4>2
    <3>2. Counted \in Nat
      BY <1>1 DEF Counted
    <3>3. QED
      BY <3>1, <3>2 DEF Totals
  <2>3. QED
    BY <1>13, <1>15, <2>1, <2>2 DEF HandleAck, HandleError
<1>16. CASE HandleMetrics
  <2>1. PICK d \in Nat, t \in Nat :
           /\ js' = State(reader.acc, t + d) /\ reader' = [pc |-> "insert", acc |-> d]
           /\ t <= Sampled
    <3>1. Baseline(reader.acc).tot \in Nat /\ Baseline(reader.acc).tot <= Sampled
      BY <1>1, <1>16 DEF HandleMetrics, Baseline, State, Totals, Counted, Sampled
    <3>2. Baseline(reader.acc).last \in Nat
      BY <1>1 DEF Baseline, State, Typed, TypedWork, TypedHub
    <3>3. Delta(Baseline(reader.acc).last, reader.acc) \in Nat
      BY <1>1, <3>2, DeltaFacts
    <3>4. QED
      BY <1>16, <3>1, <3>3 DEF HandleMetrics
  <2>2. t + d \in Nat /\ t + d <= Sampled + d
    BY <1>1, <2>1
  <2>3. reader.acc \in Counts
    BY <1>16 DEF HandleMetrics, Typed, TypedWork, TypedHub
  <2>4. Typed'
    BY <1>13, <1>16, <2>1, <2>2, <2>3 DEF HandleMetrics, wvars, Typed, TypedWork, TypedHub, State
  <2>5. Totals'
    <3>1. cancel.tot <= Sampled + d
      BY <1>1, <1>16, <2>1 DEF HandleMetrics, Totals, Counted, Sampled
    <3>2. Counted' = Sampled + d /\ js'.tot = t + d
      BY <1>16, <2>1 DEF HandleMetrics, Counted, State, Sampled
    <3>3. QED
      BY <1>16, <2>2, <3>1, <3>2 DEF HandleMetrics, Totals
  <2>6. QED
    BY <1>13, <1>16, <2>4, <2>5 DEF HandleMetrics
<1>17. CASE InsertSample
  <2>1. Typed'
    BY <1>1, <1>13, <1>17 DEF InsertSample, wvars, Typed, TypedWork, TypedHub
  <2>2. Counted' = Counted
    BY <1>17, Booked
  <2>3. QED
    BY <1>13, <1>17, <2>1, <2>2 DEF InsertSample, Totals
<1>18. CASE TakeState \/ EndJob \/ CloseRun
  <2>1. Typed'
    <3>1. TypedWork'
      BY <1>13, <1>18 DEF TakeState, EndJob, CloseRun, wvars, Typed, TypedWork
    <3>2. TypedHub'
      <4>1. CASE TakeState
        <5>1. js' \in [last : Counts, tot : Nat, set : BOOLEAN]
          BY <1>1, <4>1 DEF TakeState, NoState
        <5>2. cancel' \in [pc : {"idle", "end", "close", "done"}, tot : Nat]
          BY <1>1, <4>1 DEF TakeState
        <5>3. QED
          BY <4>1, <5>1, <5>2 DEF TakeState, Typed, TypedHub
      <4>2. CASE EndJob
        BY <4>2 DEF EndJob, Typed, TypedHub
      <4>3. CASE CloseRun
        BY <4>3 DEF CloseRun, Typed, TypedHub
      <4>4. QED
        BY <1>18, <4>1, <4>2, <4>3
    <3>3. QED
      BY <3>1, <3>2 DEF Typed
  <2>2. Totals'
    <3>1. Counted' = Counted /\ js.tot <= Counted /\ cancel.tot <= Counted
      BY <1>18 DEF TakeState, EndJob, CloseRun, Totals, Counted, Sampled
    <3>2. Counted \in Nat
      BY <1>1 DEF Counted
    <3>3. CASE TakeState
      <4>1. run = 0 /\ run' = run /\ js'.tot = 0 /\ cancel'.tot = js.tot /\ cancel'.pc = "end"
        BY <3>3 DEF TakeState, Totals, NoState
      <4>2. QED
        BY <1>1, <3>1, <3>2, <4>1 DEF Totals
    <3>4. CASE EndJob
      <4>1. run' = run /\ js' = js /\ cancel'.tot = cancel.tot /\ cancel'.pc = "close" /\ run <= cancel.tot
        BY <3>4 DEF EndJob, Totals, Typed, TypedHub
      <4>2. QED
        BY <3>1, <4>1 DEF Totals
    <3>5. CASE CloseRun
      <4>1. run' \in {run, cancel.tot} /\ js' = js /\ cancel'.tot = cancel.tot /\ cancel'.pc = "done"
            /\ run <= cancel.tot
        BY <3>5 DEF CloseRun, Totals, Typed, TypedHub
      <4>2. QED
        BY <1>1, <3>1, <4>1 DEF Totals
    <3>6. QED
      BY <1>18, <3>3, <3>4, <3>5
  <2>3. QED
    BY <1>13, <1>18, <2>1, <2>2 DEF TakeState, EndJob, CloseRun
<1>19. CASE HandleMinerAllocation
  <2>1. Typed'
    BY <1>13, <1>19 DEF HandleMinerAllocation, AllocationUpdate, wvars, hub, Typed, TypedWork, TypedHub
  <2>2. QED
    BY <1>2, <1>13, <1>19, <2>1 DEF HandleMinerAllocation
<1>20. QED
  BY <1>5, <1>6, <1>7, <1>8, <1>9, <1>10, <1>11, <1>12, <1>14, <1>15, <1>16, <1>17, <1>18, <1>19
     DEF Next

LEMMA WorkAlways == Spec => []WorkInv
<1>1. Init => WorkInv
  BY InitWork
<1>2. WorkInv /\ [Next]_vars => WorkInv'
  BY WorkSteps
<1>3. QED
  BY <1>1, <1>2, PTL DEF Spec

\* The state of the worker, of the connection and of the hub is well formed: counters stay
\* counters through restarts of the miner process, and a report on its way holds one.
THEOREM TypeCorrect == Spec => []TypeOK
<1>1. WorkInv => TypeOK
  <2> SUFFICES ASSUME WorkInv PROVE TypeOK
    OBVIOUS
  <2>1. \A i \in 1..Len(wire) : wire[i] \in Msg
    BY DEF WorkInv, Typed, TypedWork
  <2>2. QED
    BY <2>1 DEF WorkInv, Typed, TypedWork, TypedHub, TypeOK, Msg
<1>2. QED
  BY <1>1, WorkAlways, PTL

\* A worker that has not crashed keeps hold of its miner process: stopAll, job.cancel and the
\* restart by handleAllocation leave none behind, for every engine.
THEOREM MinerKept == Spec => []NoStrayMiner
<1>1. WorkInv => NoStrayMiner
  BY DEF WorkInv
<1>2. QED
  BY <1>1, WorkAlways, PTL

\* CancelMiner closes the run with no more shares than handleMetrics made samples of,
\* although the reading goroutine goes on while it works: the rows fall short of the run
\* by no more than the failed INSERTs lost.
THEOREM RunWithin == Spec => []RunWithinSamples
<1>1. WorkInv => RunWithinSamples
  <2> SUFFICES ASSUME WorkInv PROVE RunWithinSamples
    OBVIOUS
  <2>1. run \in Nat /\ cancel.tot \in Nat /\ Counted \in Nat
    BY DEF WorkInv, Typed, TypedHub, Counted, Sampled
  <2>2. run <= Counted
    BY <2>1 DEF WorkInv, Totals
  <2>3. QED
    BY <2>2 DEF RunWithinSamples, Counted
<1>2. QED
  BY <1>1, WorkAlways, PTL

-----------------------------------------------------------------------------
(* What is on its way, after a step *)

LEMMA Same ==
    ASSUME wire' = wire, reader' = reader
    PROVE  Reports' = Reports /\ Acks' = Acks /\ \A i \in Nat : Acc(i)' = Acc(i)
BY DEF Reports, Acks, Acc, Kind, At

LEMMA ReportTypes ==
    ASSUME Typed
    PROVE  /\ \A i \in Reports : i \in Nat /\ i \in At /\ Acc(i) \in Nat /\ Acc(i) \in Counts
           /\ \A i \in Acks : i \in Nat /\ i \in At
<1>1. \A i \in 1..Len(wire) : wire[i] \in Msg
  BY DEF Typed, TypedWork
<1>2. \A n \in Counts : n \in Nat
  BY DEF Counts
<1>3. Len(wire) \in Nat
  BY WireFacts
<1>4. ASSUME NEW i \in Reports PROVE Acc(i) \in Counts
  <2>1. CASE i = 0
    BY <2>1 DEF Reports, Kind, Acc, Typed, TypedHub
  <2>2. CASE i # 0
    <3>1. i \in 1..Len(wire)
      BY <1>3, <2>2 DEF Reports, At
    <3>2. QED
      BY <1>1, <2>2, <3>1 DEF Acc, Msg
  <2>3. QED
    BY <2>1, <2>2
<1>5. QED
  BY <1>2, <1>3, <1>4 DEF Reports, Acks, At

LEMMA Cut ==
    ASSUME Typed, NEW n \in 0..Len(wire), wire' = SubSeq(wire, 1, n), reader' = reader
    PROVE  /\ Reports' = {i \in Reports : i <= n} /\ Acks' = {i \in Acks : i <= n}
           /\ \A i \in Reports' : Acc(i)' = Acc(i)
<1>1. wire \in Seq(Msg) /\ Len(wire) \in Nat /\ Len(wire') = n
  BY WireFacts DEF Typed, TypedWork
<1>2. \A i \in 1..n : wire'[i] = wire[i]
  BY <1>1
<1>3. \A i \in 0..n : Kind(i)' = Kind(i) /\ Acc(i)' = Acc(i)
  <2> SUFFICES ASSUME NEW i \in 0..n PROVE Kind(i)' = Kind(i) /\ Acc(i)' = Acc(i)
    OBVIOUS
  <2>1. i = 0 \/ i \in 1..n
    BY <1>1
  <2>2. QED
    BY <1>2, <2>1 DEF Kind, Acc
<1>4. At' = 0..n /\ At = 0..Len(wire)
  BY <1>1 DEF At
<1>5. QED
  BY <1>1, <1>3, <1>4 DEF Reports, Acks

LEMMA Sent ==
    ASSUME Typed, NEW m \in Msg, wire' = Append(wire, m), reader' = reader,
           NEW L \in Nat, L = Len(wire) + 1
    PROVE  /\ \A i \in At : i < L /\ Acc(i)' = Acc(i)
           /\ Acc(L)' = m.acc
           /\ Reports' = IF m.kind = "metrics" THEN Reports \cup {L} ELSE Reports
           /\ Acks' = IF m.kind = "ack" THEN Acks \cup {L} ELSE Acks
<1>1. wire \in Seq(Msg) /\ Len(wire) \in Nat
  BY WireFacts DEF Typed, TypedWork
<1>2. Len(wire') = L /\ wire'[L] = m /\ L # 0 /\ \A i \in 1..Len(wire) : wire'[i] = wire[i]
  BY <1>1
<1>3. \A i \in At : i < L /\ Kind(i)' = Kind(i) /\ Acc(i)' = Acc(i)
  <2> SUFFICES ASSUME NEW i \in At PROVE i < L /\ Kind(i)' = Kind(i) /\ Acc(i)' = Acc(i)
    OBVIOUS
  <2>1. i < L /\ (i = 0 \/ i \in 1..Len(wire))
    BY <1>1 DEF At
  <2>2. QED
    BY <1>2, <2>1 DEF Kind, Acc
<1>4. Kind(L)' = m.kind /\ Acc(L)' = m.acc
  BY <1>2 DEF Kind, Acc
<1>5. At' = At \cup {L}
  BY <1>1, <1>2 DEF At
<1>6. Reports' = IF m.kind = "metrics" THEN Reports \cup {L} ELSE Reports
  BY <1>3, <1>4, <1>5 DEF Reports
<1>7. Acks' = IF m.kind = "ack" THEN Acks \cup {L} ELSE Acks
  BY <1>3, <1>4, <1>5 DEF Acks
<1>8. QED
  BY <1>3, <1>4, <1>6, <1>7

\* Receive takes the first message, or drops it.
LEMMA Taken ==
    ASSUME Typed, Receive
    PROVE  /\ 0 \notin Reports /\ 0 \notin Acks
           /\ \A i \in Reports' : i + 1 \in Reports /\ Acc(i)' = Acc(i + 1)
           /\ \A i \in Acks' : i + 1 \in Acks
           /\ \A i \in Acks : i # 1 => i - 1 \in Acks'
           /\ 0 \in Reports' \cup Acks' => \A i \in Acks : i - 1 \in Acks'
<1>1. /\ wire \in Seq(Msg) /\ Len(wire) \in Nat /\ Len(wire) >= 1 /\ reader.pc = "read"
      /\ wire' = Tail(wire) /\ Head(wire) = wire[1] /\ Len(wire') = Len(wire) - 1
  BY WireFacts DEF Receive, Typed, TypedWork
<1>2. \A i \in 1..(Len(wire) - 1) : wire'[i] = wire[i + 1]
  BY <1>1
<1>3. 0 \notin Reports /\ 0 \notin Acks
  BY <1>1 DEF Reports, Acks, Kind
<1>4. reader' = reader \/ reader' = [pc |-> wire[1].kind, acc |-> wire[1].acc]
  BY <1>1 DEF Receive
<1>5. ASSUME NEW i \in At', i # 0 \/ reader' # reader
      PROVE  i + 1 \in At /\ Kind(i)' = Kind(i + 1) /\ Acc(i)' = Acc(i + 1)
  <2>1. i \in Nat /\ i + 1 \in 0..Len(wire) /\ i + 1 # 0 /\ (i # 0 => i \in 1..(Len(wire) - 1))
    BY <1>1, <1>5 DEF At
  <2>2. CASE i = 0
    BY <1>1, <1>4, <1>5, <2>1, <2>2 DEF At, Kind, Acc
  <2>3. CASE i # 0
    BY <1>2, <2>1, <2>3 DEF At, Kind, Acc
  <2>4. QED
    BY <2>2, <2>3
<1>6. reader' = reader => 0 \notin Reports' /\ 0 \notin Acks'
  BY <1>1 DEF Reports, Acks, Kind
<1>7. \A i \in Reports' : i + 1 \in Reports /\ Acc(i)' = Acc(i + 1)
  BY <1>5, <1>6 DEF Reports
<1>8. \A i \in Acks' : i + 1 \in Acks
  BY <1>5, <1>6 DEF Acks
<1>9. ASSUME NEW i \in Acks, i # 1 \/ reader' # reader
      PROVE  i - 1 \in Acks'
  <2>1. i \in At /\ i # 0 /\ i - 1 \in At' /\ (i - 1) + 1 = i
    BY <1>1, <1>3, <1>9 DEF At, Acks
  <2>2. PICK j \in At' : j = i - 1 /\ (j # 0 \/ reader' # reader)
    BY <1>9, <2>1
  <2>3. Kind(j)' = Kind(j + 1) /\ j + 1 = i
    BY <1>5, <2>1, <2>2
  <2>4. QED
    BY <2>1, <2>2, <2>3 DEF Acks
<1>10. QED
  BY <1>3, <1>6, <1>7, <1>8, <1>9

LEMMA Handled ==
    ASSUME wire' = wire, reader'.pc \in {"read", "insert"}
    PROVE  /\ Reports' = Reports \ {0} /\ Acks' = Acks \ {0}
           /\ \A i \in Reports' : Acc(i)' = Acc(i)
<1>1. At' = At /\ \A i \in At : i # 0 => Kind(i)' = Kind(i) /\ Acc(i)' = Acc(i)
  BY DEF At, Kind, Acc
<1>2. Kind(0)' \notin {"metrics", "ack"}
  BY DEF Kind
<1>3. Reports' = Reports \ {0}
  BY <1>1, <1>2 DEF Reports
<1>4. Acks' = Acks \ {0}
  BY <1>1, <1>2 DEF Acks
<1>5. QED
  BY <1>1, <1>3, <1>4 DEF Reports

-----------------------------------------------------------------------------
(* Nothing is counted twice *)

\* The counter goes on, a share is accepted with it, or the reading falls to zero.
Goes == /\ truth <= truth'
        /\ \/ Now' = Now
           \/ Now' = 0
           \/ Now' = Now + 1 /\ truth' = truth + 1

LEMMA CounterTypes ==
    ASSUME Typed
    PROVE  /\ Now \in Nat /\ Now <= truth /\ truth \in Nat
           /\ Counted \in Nat /\ js.last \in Nat
           /\ \A x \in Nat : Above(x) \in Nat /\ Above(x) <= x
<1>1. /\ eng.count \in Nat /\ truth \in Nat /\ eng.count <= truth
      /\ Sampled \in Nat /\ reader.acc \in Nat /\ js.last \in Nat
  BY DEF Sampled, Typed, TypedWork, TypedHub, EngineTypeOK, Counts
<1>2. Now \in Nat /\ Now <= truth /\ Counted \in Nat
  BY <1>1 DEF Now, Counted, Sampled
<1>3. \A x \in Nat : Above(x) \in Nat /\ Above(x) <= x
  BY <1>1, DeltaFacts DEF Above
<1>4. QED
  BY <1>1, <1>2, <1>3

\* What a reading may be counted as grows no faster than what was accepted.
LEMMA Later ==
    ASSUME Typed, Typed', Goes, NEW a \in Nat, NEW s \in Nat, s + Delta(a, Now) <= truth
    PROVE  s + Delta(a, Now') <= truth'
<1>1. PICK n \in Nat, k \in Nat, u \in Nat, v \in Nat : n = Now /\ k = Now' /\ u = truth /\ v = truth'
  <2>1. Now \in Nat /\ truth \in Nat
    BY CounterTypes
  <2>2. Now' \in Nat /\ truth' \in Nat
    BY DEF Typed, TypedWork, EngineTypeOK, Counts, Now
  <2>3. QED
    BY <2>1, <2>2
<1>2. u <= v /\ (k = n \/ k = 0 \/ (k = n + 1 /\ v = u + 1)) /\ s + Delta(a, n) <= u
  <2>1. u <= v
    BY <1>1 DEF Goes
  <2>2. k = n \/ k = 0 \/ (k = n + 1 /\ v = u + 1)
    BY <1>1 DEF Goes
  <2>3. s + Delta(a, n) <= u
    BY <1>1
  <2>4. QED
    BY <2>1, <2>2, <2>3
<1>3. s + Delta(a, k) <= v
  BY <1>2 DEF Delta
<1>4. QED
  BY <1>1, <1>3

\* Steps that count nothing: what is on its way stays, or moves up by k.
LEMMA Remap ==
    ASSUME Typed, Typed', Stamped, Goes, Counted' = Counted, js' = js,
           NEW k \in Nat,
           \A i \in Reports' : i \in Nat /\ i + k \in Reports /\ Acc(i)' = Acc(i + k)
    PROVE  Stamped'
<1>1. PICK t \in [Nat -> Nat] : Stamps(t)
  BY DEF Stamped
<1> DEFINE u == [i \in Nat |-> t[i + k]]
<1>2. u \in [Nat -> Nat]
  OBVIOUS
<1>3. ASSUME NEW i \in Reports'
      PROVE  /\ Acc(i)' <= u[i]
             /\ u[i] + Delta(Acc(i)', Now') <= truth'
             /\ Counted' + Above(Acc(i))' <= u[i]
  <2>1. PICK a \in Nat : a = Acc(i + k) /\ a = Acc(i)'
    BY <1>3, ReportTypes
  <2>2. i \in Nat /\ i + k \in Reports /\ u[i] = t[i + k] /\ t[i + k] \in Nat
    BY <1>3
  <2>3. /\ a <= t[i + k] /\ t[i + k] + Delta(a, Now) <= truth
        /\ Counted + Above(a) <= t[i + k]
    BY <1>1, <2>1, <2>2 DEF Stamps
  <2>4. t[i + k] + Delta(a, Now') <= truth'
    BY <2>2, <2>3, Later
  <2>5. Above(Acc(i))' = Above(a)
    BY <2>1 DEF Above
  <2>6. QED
    BY <2>1, <2>2, <2>3, <2>4, <2>5
<1>4. ASSUME NEW i \in Reports', NEW j \in Reports', i < j
      PROVE  u[i] + Delta(Acc(i)', Acc(j)') <= u[j]
  <2>1. /\ i + k \in Reports /\ j + k \in Reports /\ i + k < j + k
        /\ u[i] = t[i + k] /\ u[j] = t[j + k]
        /\ Acc(i)' = Acc(i + k) /\ Acc(j)' = Acc(j + k)
    BY <1>4
  <2>2. t[i + k] + Delta(Acc(i + k), Acc(j + k)) <= t[j + k]
    BY <1>1, <2>1 DEF Stamps
  <2>3. QED
    BY <2>1, <2>2
<1> HIDE DEF u
<1>5. Stamps(u)'
  BY <1>3, <1>4 DEF Stamps
<1>6. (Counted + Above(Now))' <= truth'
  <2>1. Above(Now)' = IF js.set THEN Delta(js.last, Now') ELSE 0
    BY DEF Above
  <2>2. Counted + (IF js.set THEN Delta(js.last, Now) ELSE 0) <= truth
    BY DEF Stamped, Above
  <2>3. CASE js.set
    BY <2>1, <2>2, <2>3, CounterTypes, Later
  <2>4. CASE ~js.set
    <3>1. Counted \in Nat /\ truth \in Nat /\ truth' \in Nat /\ Counted <= truth /\ truth <= truth'
      BY <2>2, <2>4, CounterTypes DEF Goes, Typed, TypedWork, Counts
    <3>2. QED
      BY <2>1, <2>4, <3>1
  <2>5. QED
    BY <2>3, <2>4
<1>7. js'.last <= truth'
  <2>1. js.last \in Nat /\ truth \in Nat /\ truth' \in Nat /\ js.last <= truth /\ truth <= truth'
    <3>1. js.last \in Nat /\ truth \in Nat
      BY CounterTypes
    <3>2. truth' \in Nat
      BY DEF Typed, TypedWork, Counts
    <3>3. QED
      BY <3>1, <3>2 DEF Stamped, Goes
  <2>2. QED
    BY <2>1
<1>8. QED
  BY <1>2, <1>5, <1>6, <1>7 DEF Stamped

LEMMA FollowsGoes ==
    ASSUME Typed, Follows(eng', eng), truth' = truth
    PROVE  Goes
<1>1. truth \in Nat /\ (eng.child = "up" => eng.running) /\ (eng'.child = "up" => eng'.running)
  BY DEF Typed, TypedWork, Counts, Follows, Sound
<1>2. Now' = Now \/ Now' = 0
  BY <1>1 DEF Follows, Now
<1>3. QED
  BY <1>1, <1>2 DEF Goes

\* The counter of a report, as far as the API of the process answers
LEMMA Grows ==
    ASSUME Typed, NEW n \in 0..1, eng' = [eng EXCEPT !.count = @ + n], truth' = truth + n
    PROVE  Goes /\ eng'.child = eng.child /\ eng'.count = eng.count + n /\ eng'.running = eng.running
<1>1. eng \in Engine /\ eng.count \in Nat /\ truth \in Nat /\ (eng.child = "up" => eng.running)
  BY DEF Typed, TypedWork, EngineTypeOK, Engine, Counts
<1>2. eng'.child = eng.child /\ eng'.count = eng.count + n /\ eng'.running = eng.running
  BY <1>1 DEF Engine
<1>3. truth <= truth' /\ (n = 0 \/ n = 1)
  BY <1>1
<1>4. \/ Now' = Now
      \/ Now' = 0
      \/ Now' = Now + 1 /\ truth' = truth + 1
  BY <1>1, <1>2, <1>3 DEF Now
<1>5. QED
  BY <1>2, <1>3, <1>4 DEF Goes

\* Report adds a reading of this moment, stamped with what is accepted by now.
Reported ==
    /\ wire' = Append(wire, Message("metrics", Now')) /\ Message("metrics", Now') \in Msg
    /\ UNCHANGED <<reader, js, Sampled>>

LEMMA StampReport ==
    ASSUME Typed, Typed', Stamped, Goes, Reported
    PROVE  Stamped'
<1>1. PICK t \in [Nat -> Nat] : Stamps(t)
  BY DEF Stamped
<1>2. PICK L \in Nat, n \in Nat, v \in Nat : L = Len(wire) + 1 /\ n = Now' /\ v = truth'
  <2>1. Len(wire) + 1 \in Nat
    BY WireFacts
  <2>2. Now' \in Nat /\ truth' \in Nat
    BY DEF Typed, TypedWork, EngineTypeOK, Counts, Now
  <2>3. QED
    BY <2>1, <2>2
<1>3. n <= v
  <2>1. eng'.count \in Nat /\ eng'.count <= v
    BY <1>2 DEF Typed, TypedWork, EngineTypeOK, Counts
  <2>2. QED
    BY <1>2, <2>1 DEF Now
<1>4. /\ \A i \in Reports : i < L /\ i \in Nat /\ Acc(i)' = Acc(i) /\ Acc(i) \in Nat
      /\ Acc(L)' = n /\ Reports' = Reports \cup {L}
  <2>1. Message("metrics", Now').kind = "metrics" /\ Message("metrics", Now').acc = n
    BY <1>2 DEF Message
  <2>2. \A i \in Reports : i \in At /\ i \in Nat /\ Acc(i) \in Nat
    BY ReportTypes
  <2>3. PICK m \in Msg : m = Message("metrics", Now')
    BY DEF Reported
  <2>4. /\ \A i \in At : i < L /\ Acc(i)' = Acc(i)
        /\ Acc(L)' = m.acc
        /\ Reports' = IF m.kind = "metrics" THEN Reports \cup {L} ELSE Reports
    BY <1>2, <2>3, Sent DEF Reported
  <2>5. QED
    BY <2>1, <2>2, <2>3, <2>4
<1>5. Counted' = Counted /\ js' = js /\ Counted \in Nat /\ \A x \in Nat : Above(x)' = Above(x)
  <2>1. Counted' = Counted /\ js' = js
    BY DEF Counted, Reported, Sampled
  <2>2. \A x \in Nat : Above(x)' = Above(x)
    BY <2>1 DEF Above
  <2>3. QED
    BY <2>1, <2>2, CounterTypes
<1>6. Counted + Above(n) <= v
  <2>1. Counted + (IF js.set THEN Delta(js.last, Now) ELSE 0) <= truth
    BY DEF Stamped, Above
  <2>2. CASE js.set
    BY <1>2, <2>1, <2>2, CounterTypes, Later DEF Above
  <2>3. CASE ~js.set
    <3>1. truth \in Nat /\ truth <= v
      BY <1>2, CounterTypes DEF Goes
    <3>2. QED
      BY <1>5, <2>1, <2>3, <3>1 DEF Above
  <2>4. QED
    BY <2>2, <2>3
<1> DEFINE u == [t EXCEPT ![L] = v]
<1>7. u \in [Nat -> Nat] /\ u[L] = v /\ \A i \in Reports : u[i] = t[i] /\ t[i] \in Nat
  <2>1. u \in [Nat -> Nat] /\ u[L] = v /\ \A i \in Nat : i # L => u[i] = t[i]
    OBVIOUS
  <2>2. \A i \in Reports : i \in Nat /\ i # L
    BY <1>4
  <2>3. QED
    BY <2>1, <2>2
<1> HIDE DEF u
<1>8. ASSUME NEW i \in Reports
      PROVE  /\ Acc(i)' <= u[i] /\ u[i] + Delta(Acc(i)', n) <= v
             /\ Counted + Above(Acc(i))' <= u[i]
             /\ \A j \in Reports : i < j => u[i] + Delta(Acc(i)', Acc(j)') <= u[j]
  <2>1. /\ Acc(i) <= t[i] /\ t[i] + Delta(Acc(i), Now) <= truth
        /\ Counted + Above(Acc(i)) <= t[i]
        /\ \A j \in Reports : i < j => t[i] + Delta(Acc(i), Acc(j)) <= t[j]
    BY <1>1 DEF Stamps
  <2>2. PICK a \in Nat : a = Acc(i) /\ a = Acc(i)'
    BY <1>4
  <2>3. t[i] + Delta(a, n) <= v
    BY <1>2, <1>7, <2>1, <2>2, Later
  <2>4. Above(Acc(i))' = Above(a)
    BY <1>5, <2>2 DEF Above
  <2>5. Counted + Above(a) <= u[i] /\ a <= u[i] /\ u[i] + Delta(a, n) <= v
    BY <1>7, <2>1, <2>2, <2>3
  <2>6. \A j \in Reports : i < j => u[i] + Delta(Acc(i)', Acc(j)') <= u[j]
    BY <1>4, <1>7, <2>1
  <2>7. QED
    BY <2>2, <2>4, <2>5, <2>6
<1>9. /\ Acc(L)' <= u[L] /\ u[L] + Delta(Acc(L)', n) <= v
      /\ Counted + Above(Acc(L))' <= u[L]
  <2>1. Delta(n, n) = 0
    BY DeltaFacts
  <2>2. Above(Acc(L))' = Above(n)
    BY <1>4, <1>5 DEF Above
  <2>3. QED
    BY <1>3, <1>4, <1>6, <1>7, <2>1, <2>2
<1>10. ASSUME NEW i \in Reports', NEW j \in Reports', i < j
       PROVE  u[i] + Delta(Acc(i)', Acc(j)') <= u[j]
  <2>1. i \in Reports
    <3>1. \A x \in Reports : x \in Nat /\ x < L
      BY <1>4
    <3>2. i \in Reports \cup {L} /\ j \in Reports \cup {L}
      BY <1>4, <1>10
    <3>3. j \in Nat /\ j <= L
      BY <3>1, <3>2
    <3>4. i # L
      BY <1>10, <3>3
    <3>5. QED
      BY <3>2, <3>4
  <2>2. CASE j = L
    BY <1>4, <1>7, <1>8, <2>1, <2>2
  <2>3. CASE j \in Reports
    BY <1>8, <1>10, <2>1, <2>3
  <2>4. QED
    BY <1>4, <2>2, <2>3
<1>11. Stamps(u)'
  <2>1. ASSUME NEW i \in Reports'
        PROVE  /\ Acc(i)' <= u[i] /\ u[i] + Delta(Acc(i)', n) <= v
               /\ Counted + Above(Acc(i))' <= u[i]
    BY <1>4, <1>8, <1>9
  <2>2. QED
    BY <1>2, <1>5, <1>10, <2>1 DEF Stamps
<1>12. (Counted + Above(Now))' <= truth'
  BY <1>2, <1>5, <1>6 DEF Above
<1>13. js'.last <= truth'
  <2>1. js.last \in Nat /\ truth \in Nat /\ truth' \in Nat /\ js.last <= truth /\ truth <= truth'
    BY <1>2, CounterTypes DEF Stamped, Goes
  <2>2. PICK l \in Nat, w \in Nat : l = js.last /\ w = truth /\ l <= w /\ w <= v
    BY <1>2, <2>1
  <2>3. l <= v
    BY <2>2
  <2>4. js'.last = l
    BY <1>5, <2>2
  <2>5. QED
    BY <1>2, <2>3, <2>4
<1>14. QED
  BY <1>7, <1>11, <1>12, <1>13 DEF Stamped

\* handleMetrics counts the difference of the report it has taken.
LEMMA StampHandled ==
    ASSUME Typed, Stamped, HandleMetrics
    PROVE  /\ Stamped'
           /\ Counted' = Counted + Above(Acc(0)) /\ js'.last = Acc(0) /\ js'.set
           /\ 0 \in Reports
<1>1. PICK t \in [Nat -> Nat] : Stamps(t)
  BY DEF Stamped
<1>2. /\ reader.pc = "metrics" /\ reader'.pc = "insert" /\ wire' = wire /\ Sampled' = Sampled
      /\ truth' = truth /\ eng' = eng
  BY DEF HandleMetrics, wvars, Sampled
<1>3. 0 \in Reports /\ Acc(0) = reader.acc
  BY <1>2, WireFacts DEF Reports, Kind, Acc, At
<1>4. PICK a \in Nat, d \in Nat : a = Acc(0) /\ d = Above(a)
  BY <1>3, ReportTypes, CounterTypes
<1>5. Delta(a, a) = 0
  BY DeltaFacts
<1>6. reader'.acc = d /\ js'.last = a /\ js'.set
  BY <1>3, <1>4, <1>5 DEF HandleMetrics, Baseline, State, Above
<1>7. Counted' = Counted + d /\ Counted \in Nat
  <2>1. Counted = Sampled /\ Counted' = Sampled + d /\ Sampled \in Nat
    BY <1>2, <1>6 DEF Counted, Typed, TypedHub, Sampled
  <2>2. QED
    BY <2>1
<1>8. Now' = Now /\ \A x \in Nat : Above(x)' = Delta(a, x)
  BY <1>2, <1>6 DEF Now, Above
<1>9. Reports' = Reports \ {0} /\ \A i \in Reports' : Acc(i)' = Acc(i)
  BY <1>2, Handled
<1>10. a <= t[0] /\ t[0] + Delta(a, Now) <= truth /\ Counted + d <= t[0] /\ t[0] \in Nat
  BY <1>1, <1>3, <1>4 DEF Stamps
<1>11. ASSUME NEW i \in Reports'
       PROVE  /\ Acc(i)' <= t[i] /\ t[i] + Delta(Acc(i)', Now') <= truth'
              /\ Counted' + Above(Acc(i))' <= t[i]
              /\ \A j \in Reports' : i < j => t[i] + Delta(Acc(i)', Acc(j)') <= t[j]
  <2>1. i \in Reports /\ i \in Nat /\ 0 < i /\ t[i] \in Nat
    BY <1>9, <1>11, ReportTypes
  <2>2. PICK b \in Nat : b = Acc(i) /\ b = Acc(i)'
    BY <1>9, <1>11, <2>1, ReportTypes
  <2>3. b <= t[i] /\ t[i] + Delta(b, Now) <= truth
    BY <1>1, <2>1, <2>2 DEF Stamps
  <2>4. t[0] + Delta(a, b) <= t[i]
    BY <1>1, <1>3, <1>4, <2>1, <2>2 DEF Stamps
  <2>5. Above(Acc(i))' = Delta(a, b) /\ Delta(a, b) \in Nat
    BY <1>6, <2>2, DeltaFacts DEF Above
  <2>6. Counted' + Above(Acc(i))' <= t[i]
    BY <1>7, <1>10, <2>1, <2>4, <2>5
  <2>7. ASSUME NEW j \in Reports', i < j PROVE t[i] + Delta(Acc(i)', Acc(j)') <= t[j]
    <3>1. j \in Reports /\ Acc(j)' = Acc(j)
      BY <1>9, <2>7
    <3>2. t[i] + Delta(Acc(i), Acc(j)) <= t[j]
      BY <1>1, <2>1, <2>7, <3>1 DEF Stamps
    <3>3. QED
      BY <2>2, <3>1, <3>2
  <2>8. QED
    BY <1>2, <1>8, <2>2, <2>3, <2>6, <2>7
<1>12. Stamps(t)'
  BY <1>11 DEF Stamps
<1>13. truth \in Nat /\ Now \in Nat /\ Delta(a, Now) \in Nat
  BY CounterTypes, DeltaFacts
<1>14. (Counted + Above(Now))' <= truth'
  <2>1. Above(Now)' = Delta(a, Now)
    BY <1>6, <1>8 DEF Above
  <2>2. QED
    BY <1>2, <1>7, <1>10, <1>13, <2>1
<1>15. js'.last <= truth'
  BY <1>2, <1>6, <1>10, <1>13
<1>16. QED
  BY <1>3, <1>4, <1>6, <1>7, <1>12, <1>14, <1>15 DEF Stamped

\* A new state of the job from which nothing above the readings is counted: CancelMiner
\* drops the state, handleAck starts from zero while nothing is counted.
LEMMA StampRestart ==
    ASSUME Typed, Stamped, UNCHANGED <<truth, eng, wire, Sampled>>, js' \in {NoState, State(0, 0)},
           Counted' = Counted, js'.set => Counted = 0,
           \A i \in Reports' : i \in Reports /\ Acc(i)' = Acc(i)
    PROVE  Stamped'
<1>1. PICK t \in [Nat -> Nat] : Stamps(t)
  BY DEF Stamped
<1>2. Now' = Now /\ truth' = truth
  BY DEF Now
<1>3. ASSUME NEW x \in Nat, NEW u \in Nat, x <= u, Counted + Above(x) <= u
      PROVE  Counted' + Above(x)' <= u
  <2>1. Above(x)' = IF js'.set THEN x ELSE 0
    BY DEF Above, Delta, NoState, State
  <2>2. Counted \in Nat /\ Above(x) \in Nat
    BY CounterTypes
  <2>3. QED
    BY <1>3, <2>1, <2>2
<1>4. ASSUME NEW i \in Reports'
      PROVE  /\ Acc(i)' <= t[i] /\ t[i] + Delta(Acc(i)', Now') <= truth'
             /\ Counted' + Above(Acc(i))' <= t[i]
             /\ \A j \in Reports' : i < j => t[i] + Delta(Acc(i)', Acc(j)') <= t[j]
  <2>1. PICK b \in Nat : b = Acc(i) /\ b = Acc(i)'
    BY <1>4, ReportTypes
  <2>2. i \in Reports /\ t[i] \in Nat
    BY <1>4, ReportTypes
  <2>3. /\ b <= t[i] /\ t[i] + Delta(b, Now) <= truth /\ Counted + Above(b) <= t[i]
        /\ \A j \in Reports : i < j => t[i] + Delta(b, Acc(j)) <= t[j]
    BY <1>1, <2>1, <2>2 DEF Stamps
  <2>4. Counted' + Above(b)' <= t[i]
    BY <1>3, <2>2, <2>3
  <2>5. Above(Acc(i))' = Above(b)'
    BY <2>1 DEF Above
  <2>6. \A j \in Reports' : i < j => t[i] + Delta(Acc(i)', Acc(j)') <= t[j]
    BY <2>1, <2>3
  <2>7. QED
    BY <1>2, <2>1, <2>3, <2>4, <2>5, <2>6
<1>5. Stamps(t)'
  BY <1>4 DEF Stamps
<1>6. (Counted + Above(Now))' <= truth'
  <2>1. PICK n \in Nat : n = Now /\ n = Now' /\ n <= truth
    BY <1>2, CounterTypes
  <2>2. Counted' + Above(n)' <= truth
    BY <1>3, <2>1, CounterTypes DEF Stamped
  <2>3. Above(Now)' = Above(n)'
    BY <2>1 DEF Above
  <2>4. QED
    BY <1>2, <2>2, <2>3
<1>7. js'.last <= truth'
  BY <1>2, CounterTypes DEF NoState, State
<1>8. QED
  BY <1>5, <1>6, <1>7 DEF Stamped

\* A report holds the counter of the moment: no stats API fails to answer.
LEMMA Reading ==
    ASSUME Typed, Unreachable = FALSE, Report
    PROVE  \E n \in 0..1 :
              /\ eng' = [eng EXCEPT !.count = @ + n] /\ truth' = truth + n
              /\ \/ proc # "session" /\ wire' = wire
                 \/ proc = "session" /\ wire' = Append(wire, Message("metrics", Now'))
<1>1. PICK n \in Synthesized : eng' = [eng EXCEPT !.count = @ + n] /\ truth' = truth + n
  BY DEF Report
<1>2. n \in 0..1
  BY DEF Synthesized
<1>3. Readings(eng') = {Now'}
  BY DEF Readings, Now
<1>4. QED
  BY <1>1, <1>2, <1>3 DEF Report

LEMMA StampSteps ==
    ASSUME WorkInv, WorkInv', Stamped, AckOrder, Unreachable = FALSE, [Next]_vars
    PROVE  Stamped'
<1>1. Typed /\ Typed'
  BY DEF WorkInv
<1>2. UNCHANGED hub => Counted' = Counted /\ js' = js /\ reader' = reader /\ Sampled' = Sampled
  BY DEF hub, Counted, Sampled
<1>3. \A i \in Reports : i \in Nat /\ i + 0 = i
  BY <1>1, ReportTypes
\* Identity on what is in flight
<1>4. ASSUME Goes, Counted' = Counted, js' = js, \A i \in Reports' : i \in Reports /\ Acc(i)' = Acc(i)
      PROVE  Stamped'
  BY <1>1, <1>3, <1>4, Remap
<1>5. ASSUME wire' = wire, reader' = reader
      PROVE  \A i \in Reports' : i \in Reports /\ Acc(i)' = Acc(i)
  BY <1>3, <1>5, Same
<1>6. ASSUME Follows(eng', eng), truth' = truth, UNCHANGED <<wire, hub>>
      PROVE  Stamped'
  BY <1>1, <1>2, <1>4, <1>5, <1>6, FollowsGoes
<1>7. UNCHANGED <<eng, truth>> => Goes
  BY <1>1, CounterTypes DEF Goes, Now
<1>8. Follows(eng, eng)
  BY <1>1 DEF Follows, Sound, Typed, TypedWork, EngineTypeOK, Engine, Counts
<1>9. CASE UNCHANGED vars
  BY <1>6, <1>8, <1>9 DEF vars, wvars
<1>10. CASE Share
  <2>1. 1 \in 0..1 /\ eng' = [eng EXCEPT !.count = @ + 1] /\ truth' = truth + 1
    BY <1>10 DEF Share
  <2>2. Goes
    BY <1>1, <2>1, Grows
  <2>3. QED
    BY <1>2, <1>4, <1>5, <1>10, <2>2 DEF Share
<1>11. CASE SendAck
  <2>1. PICK m \in Msg : wire' = Append(wire, m) /\ m.kind # "metrics"
    <3>1. 0 \in Counts
      BY SharesAssumption DEF Counts
    <3>2. Message("ack", 0) \in Msg /\ Message("error", 0) \in Msg
      BY <3>1 DEF Message, Msg
    <3>3. Message("ack", 0).kind # "metrics" /\ Message("error", 0).kind # "metrics"
      BY DEF Message
    <3>4. QED
      BY <1>11, <3>2, <3>3 DEF SendAck
  <2>2. PICK L \in Nat : L = Len(wire) + 1
    BY <1>1, WireFacts
  <2>3. UNCHANGED <<eng, truth, hub>>
    BY <1>11 DEF SendAck, AssignFails
  <2>4. Reports' = Reports /\ \A i \in At : Acc(i)' = Acc(i)
    BY <1>1, <1>2, <2>1, <2>2, <2>3, Sent
  <2>5. \A i \in Reports' : i \in Reports /\ Acc(i)' = Acc(i)
    BY <2>4 DEF Reports
  <2>6. QED
    BY <1>2, <1>4, <1>7, <2>3, <2>5
<1>12. CASE Tick
  BY <1>6, <1>8, <1>12 DEF Tick, Looks
<1>13. CASE Report
  <2>1. PICK n \in 0..1 :
              /\ eng' = [eng EXCEPT !.count = @ + n] /\ truth' = truth + n
              /\ \/ proc # "session" /\ wire' = wire
                 \/ proc = "session" /\ wire' = Append(wire, Message("metrics", Now'))
    BY <1>1, <1>13, Reading
  <2>2. Goes /\ UNCHANGED hub
    BY <1>1, <1>13, <2>1, Grows DEF Report
  <2>3. CASE wire' = wire
    BY <1>2, <1>4, <1>5, <2>2, <2>3
  <2>4. CASE wire' = Append(wire, Message("metrics", Now'))
    <3>1. 0 \in Counts /\ eng'.count \in Counts
      BY <1>1, SharesAssumption DEF Counts, Typed, TypedWork, EngineTypeOK
    <3>2. Now' \in Counts
      BY <3>1 DEF Now
    <3>3. Message("metrics", Now') \in Msg
      BY <3>2 DEF Message, Msg
    <3>4. QED
      BY <1>1, <1>2, <2>2, <2>4, <3>3, StampReport DEF Reported
  <2>5. QED
    BY <2>1, <2>3, <2>4
<1>14. CASE WorkerCancel
  BY <1>6, <1>14, EngineSteps DEF WorkerCancel, WorkInv
<1>15. CASE ApplyUpdate
  <2>1. CASE AllocationStops
    BY <1>6, <1>15, <2>1, EngineSteps DEF ApplyUpdate, WorkInv
  <2>2. CASE UNCHANGED wvars
    BY <1>6, <1>8, <1>15, <2>2 DEF ApplyUpdate, wvars
  <2>3. QED
    BY <1>15, <2>1, <2>2 DEF ApplyUpdate
<1>16. CASE WorkerMoves
  <2>1. Follows(eng', eng) /\ truth' = truth /\ UNCHANGED hub
    BY <1>16, EngineSteps DEF WorkerMoves, WorkInv
  <2>2. CASE wire' = wire
    BY <1>6, <2>1, <2>2
  <2>3. CASE \E n \in 0..Len(wire) : wire' = SubSeq(wire, 1, n)
    <3>1. \A i \in Reports' : i \in Reports /\ Acc(i)' = Acc(i)
      BY <1>1, <1>2, <2>1, <2>3, Cut
    <3>2. QED
      BY <1>1, <1>2, <1>4, <2>1, <3>1, FollowsGoes
  <2>4. QED
    BY <1>16, <2>2, <2>3 DEF WorkerMoves
<1>17. CASE Receive
  <2>1. \A i \in Reports' : i \in Nat /\ i + 1 \in Reports /\ Acc(i)' = Acc(i + 1)
    <3>1. \A i \in Reports' : i \in Nat
      BY <1>1, WireFacts DEF Reports, At
    <3>2. QED
      BY <1>1, <1>17, <3>1, Taken
  <2>2. UNCHANGED <<eng, truth, js>> /\ Counted' = Counted
    <3>1. reader.pc # "insert" /\ reader'.pc # "insert"
      <4>1. wire # <<>> => wire[1] \in Msg /\ Head(wire) = wire[1]
        BY <1>1, WireFacts
      <4>2. QED
        BY <1>17, <4>1 DEF Receive, Msg
    <3>2. QED
      BY <1>17, <3>1 DEF Receive, wvars, Counted, Sampled
  <2>3. QED
    BY <1>1, <1>7, <2>1, <2>2, Remap
<1>18. CASE HandleAck
  <2>1. reader'.pc = "read" /\ wire' = wire /\ js' = State(0, 0) /\ UNCHANGED <<eng, truth, Sampled>>
    BY <1>18 DEF HandleAck, wvars, Sampled
  <2>2. 0 \in Acks
    BY <1>1, <1>18, WireFacts DEF HandleAck, Acks, Kind, At
  <2>3. Counted = 0 /\ Counted' = 0
    <3>1. Counted = 0
      BY <2>2 DEF AckOrder, AckToCome
    <3>2. QED
      BY <1>18, <2>1, <3>1 DEF Counted, HandleAck, Sampled
  <2>4. \A i \in Reports' : i \in Reports /\ Acc(i)' = Acc(i)
    BY <2>1, Handled
  <2>5. QED
    BY <1>1, <2>1, <2>3, <2>4, StampRestart
<1>19. CASE HandleError \/ InsertSample
  <2>1. /\ reader'.pc = "read" /\ UNCHANGED <<wire, eng, truth, js>>
    BY <1>1, <1>19, Booked DEF wvars
  <2>2. Counted' = Counted
    BY <1>1, <1>19, Booked
  <2>3. \A i \in Reports' : i \in Reports /\ Acc(i)' = Acc(i)
    BY <2>1, Handled
  <2>4. QED
    BY <1>4, <1>7, <2>1, <2>2, <2>3
<1>20. CASE HandleMetrics
  BY <1>1, <1>20, StampHandled
<1>21. CASE TakeState
  <2>1. UNCHANGED <<truth, eng, wire, Sampled, reader>> /\ js' = NoState /\ ~js'.set
    BY <1>21 DEF TakeState, NoState, wvars, Sampled
  <2>2. Counted' = Counted
    BY <2>1 DEF Counted, Sampled
  <2>3. QED
    BY <1>1, <1>5, <2>1, <2>2, StampRestart
<1>22. CASE EndJob \/ CloseRun \/ HandleMinerAllocation
  <2>1. UNCHANGED <<eng, truth, js, reader, Sampled, wire>>
    BY <1>22 DEF EndJob, CloseRun, HandleMinerAllocation, wvars, hub, Sampled
  <2>2. Counted' = Counted
    BY <2>1 DEF Counted, Sampled
  <2>3. QED
    BY <1>4, <1>5, <1>7, <2>1, <2>2
<1>23. QED
  BY <1>9, <1>10, <1>11, <1>12, <1>13, <1>14, <1>15, <1>16, <1>17, <1>18, <1>19, <1>20, <1>21, <1>22
     DEF Next

-----------------------------------------------------------------------------
(* Nothing is counted before the ack *)

LEMMA AckSteps ==
    ASSUME WorkInv, WorkInv', Stamped, AckOrder, Unreachable = FALSE, [Next]_vars
    PROVE  AckOrder'
<1>1. Typed /\ Typed'
  BY DEF WorkInv
<1>2. UNCHANGED hub => Counted' = Counted /\ js' = js /\ reader' = reader /\ acked' = acked /\ open' = open
  BY DEF hub, Counted, Sampled
<1>3. \A i \in Reports \cup Acks : i \in Nat
  BY <1>1, ReportTypes
<1>4. UNCHANGED hub /\ wire' = wire => Reports' = Reports /\ Acks' = Acks
  BY <1>2, Same
<1>5. work \in Work /\ proc \in {"session", "backoff", "exited", "crashed"} /\ looking \in BOOLEAN /\ early \in 0..1
  BY <1>1 DEF Typed, TypedWork, EngineTypeOK
<1>6. CASE UNCHANGED <<work, proc, looking, early, wire, hub>>
  BY <1>2, <1>4, <1>6 DEF AckOrder, AckToCome
<1>7. CASE SendAck
  <2>1. 0 \in Counts
    BY SharesAssumption DEF Counts
  <2>2. PICK L \in Nat : L = Len(wire) + 1
    BY <1>1, WireFacts
  <2>3. \A i \in Reports \cup Acks : i < L
    BY <1>1, <2>2, ReportTypes, WireFacts DEF At
  <2>4. CASE work = "listed" /\ work' = "acked"
    <3>1. Message("ack", 0) \in Msg /\ Message("ack", 0).kind = "ack"
      BY <2>1 DEF Message, Msg
    <3>2. wire' = Append(wire, Message("ack", 0)) /\ UNCHANGED <<proc, looking, early, hub>>
      BY <1>7, <2>4 DEF SendAck, AssignFails
    <3>3. Reports' = Reports /\ Acks' = Acks \cup {L}
      BY <1>1, <1>2, <2>2, <3>1, <3>2, Sent
    <3>4. Acks = {} /\ ~acked
      BY <2>4 DEF AckOrder, AckToCome
    <3>5. QED
      BY <1>2, <2>3, <2>4, <3>2, <3>3, <3>4 DEF AckOrder, AckToCome
  <2>5. CASE AssignFails
    <3>1. Message("error", 0) \in Msg /\ Message("error", 0).kind = "error"
      BY <2>1 DEF Message, Msg
    <3>2. wire' = Append(wire, Message("error", 0)) /\ UNCHANGED <<proc, looking, early, hub>>
      BY <1>7, <2>5 DEF SendAck, AssignFails
    <3>3. Reports' = Reports /\ Acks' = Acks
      BY <1>1, <1>2, <2>2, <3>1, <3>2, Sent
    <3>4. work = "idle" /\ work' = "failed"
      BY <2>5 DEF AssignFails
    <3>5. QED
      BY <1>2, <3>2, <3>3, <3>4 DEF AckOrder, AckToCome
  <2>6. QED
    BY <1>7, <2>4, <2>5 DEF SendAck
<1>8. CASE Tick
  <2>1. /\ work \in {"listed", "acked", "stopped"} /\ looking' = TRUE
        /\ work = "listed" => early = 0 /\ early' = 1
        /\ work # "listed" => early' = early
        /\ UNCHANGED <<work, proc, wire, hub>>
    BY <1>8 DEF Tick, Looks, InMap
  <2>2. QED
    BY <1>2, <1>4, <2>1 DEF AckOrder, AckToCome
<1>9. CASE Report
  <2>1. looking /\ looking' = FALSE /\ UNCHANGED <<work, proc, early, hub>>
    BY <1>9 DEF Report
  <2>2. work \in {"listed", "acked", "stopped", "gone"}
    BY <1>5, <2>1 DEF AckOrder, AckToCome, Work
  <2>3. CASE proc # "session"
    <3>1. wire' = wire
      BY <1>9, <2>3 DEF Report
    <3>2. QED
      BY <1>2, <1>4, <2>1, <2>2, <3>1 DEF AckOrder, AckToCome
  <2>4. CASE proc = "session"
    <3>1. wire' = Append(wire, Message("metrics", Now'))
      BY <1>1, <1>9, <2>4, Reading
    <3>2. 0 \in Counts /\ eng'.count \in Counts
      BY <1>1, SharesAssumption DEF Counts, Typed, TypedWork, EngineTypeOK
    <3>3. Message("metrics", Now') \in Msg /\ Message("metrics", Now').kind = "metrics"
      BY <3>2 DEF Message, Msg, Now
    <3>4. PICK L \in Nat : L = Len(wire) + 1
      BY <1>1, WireFacts
    <3>5. 0 < L /\ \A i \in Reports \cup Acks : i < L
      BY <1>1, <3>4, ReportTypes, WireFacts DEF At
    <3>6. Reports' = Reports \cup {L} /\ Acks' = Acks
      BY <1>1, <1>2, <2>1, <3>1, <3>3, <3>4, Sent
    <3>7. CASE work = "listed"
      BY <1>2, <2>1, <3>5, <3>6, <3>7 DEF AckOrder, AckToCome
    <3>8. CASE work # "listed"
      <4>1. AckToCome => Acks # {}
        BY <2>2, <3>8 DEF AckToCome
      <4>2. AckToCome =>
              \A j \in Reports' : js.set \/ (\E i \in Reports' : i < j) => \E k \in Acks : k < j
        <5> SUFFICES ASSUME AckToCome, NEW j \in Reports', js.set \/ (\E i \in Reports' : i < j)
                     PROVE  \E k \in Acks : k < j
          OBVIOUS
        <5>1. CASE j = L
          BY <3>5, <4>1, <5>1
        <5>2. CASE j # L
          <6>1. j \in Reports /\ j \in Nat /\ j < L
            BY <1>3, <3>5, <3>6, <5>2
          <6>2. js.set \/ \E i \in Reports : i < j
            BY <3>6, <6>1
          <6>3. QED
            BY <6>1, <6>2 DEF AckOrder, AckToCome
        <5>3. QED
          BY <5>1, <5>2
      <4>3. QED
        BY <1>2, <2>1, <2>2, <3>6, <3>8, <4>2 DEF AckOrder, AckToCome
    <3>9. QED
      BY <3>7, <3>8
  <2>5. QED
    BY <2>3, <2>4
<1>10. CASE WorkerCancel
  <2>1. /\ work = "acked" /\ proc = "session" /\ work' = "gone" /\ UNCHANGED <<looking, early, wire, hub>>
        /\ proc' = proc \/ proc' = "crashed"
    BY <1>10 DEF WorkerCancel, CancelJob, MapWrite
  <2>2. QED
    BY <1>2, <1>4, <2>1 DEF AckOrder, AckToCome
<1>11. CASE ApplyUpdate
  <2>1. /\ UNCHANGED <<proc, looking, early, wire, hub>>
        /\ work' = work \/ (work = "acked" /\ work' = "stopped")
    BY <1>11 DEF ApplyUpdate, AllocationStops, wvars
  <2>2. QED
    BY <1>2, <1>4, <2>1 DEF AckOrder, AckToCome
<1>12. CASE WorkerMoves
  <2>1. UNCHANGED <<early, hub>> /\ looking' = looking
    BY <1>12, EngineSteps DEF WorkerMoves, WorkInv
  <2>2. \/ work' = work /\ proc' = proc
        \/ work = "idle" /\ work' = "started" /\ proc' = proc
        \/ work = "started" /\ work' = "listed" /\ proc' = proc
        \/ work = "stopped" /\ work' = "acked" /\ proc' = proc
        \/ work' = "gone" /\ proc' # "session"
    BY <1>12 DEF WorkerMoves, WorkerStep, ChildDies, AssignStarts, AssignLists, MapWrite,
                 AllocationStarts, SessionEnds, Terminates
  <2>3. CASE wire' = wire
    BY <1>2, <1>4, <2>1, <2>2, <2>3 DEF AckOrder, AckToCome
  <2>4. CASE proc' # "session" /\ \E n \in 0..Len(wire) : wire' = SubSeq(wire, 1, n)
    <3>1. PICK n \in 0..Len(wire) : wire' = SubSeq(wire, 1, n)
      BY <2>4
    <3>2. Reports' = {i \in Reports : i <= n} /\ Acks' = {i \in Acks : i <= n} /\ n \in Nat
      BY <1>1, <1>2, <2>1, <3>1, Cut, WireFacts
    <3>3. QED
      BY <1>2, <1>3, <2>1, <2>2, <2>4, <3>2 DEF AckOrder, AckToCome
  <2>5. QED
    BY <1>12, <2>3, <2>4 DEF WorkerMoves
<1>13. CASE Receive
  <2>1. UNCHANGED <<work, proc, looking, early, open, js, acked, Sampled>>
    BY <1>13 DEF Receive, wvars, Sampled
  <2>2. Counted' = Counted
    <3>1. wire # <<>> => wire[1] \in Msg /\ Head(wire) = wire[1]
      BY <1>1, WireFacts
    <3>2. reader.pc # "insert" /\ reader'.pc # "insert"
      BY <1>13, <3>1 DEF Receive, Msg
    <3>3. QED
      BY <2>1, <3>2 DEF Counted, Sampled
  <2>3. \A i \in Reports' \cup Acks' : i \in Nat
    BY <1>1, WireFacts DEF Reports, Acks, At
  <2>4. /\ 0 \notin Reports /\ 0 \notin Acks
        /\ \A i \in Reports' : i + 1 \in Reports
        /\ \A i \in Acks' : i + 1 \in Acks
        /\ \A i \in Acks : i # 1 => i - 1 \in Acks'
        /\ 0 \in Reports' \cup Acks' => \A i \in Acks : i - 1 \in Acks'
    BY <1>1, <1>13, Taken
  <2>5. /\ \A i, j \in Acks' : i = j
        /\ Acks = {} => Acks' = {}
        /\ Reports = {} => Reports' = {}
    BY <2>3, <2>4 DEF AckOrder, AckToCome
  <2>6. AckToCome' => AckToCome
    BY <2>1, <2>5 DEF AckToCome
  <2>7. AckToCome' =>
          \A j \in Reports' : js.set \/ (\E i \in Reports' : i < j) => \E k \in Acks' : k < j
    <3> SUFFICES ASSUME AckToCome', NEW j \in Reports', js.set \/ (\E i \in Reports' : i < j)
                 PROVE  \E k \in Acks' : k < j
      OBVIOUS
    <3>1. j + 1 \in Reports /\ j \in Nat
      BY <2>3, <2>4
    <3>2. js.set \/ \E i \in Reports : i < j + 1
      BY <2>3, <2>4, <3>1
    <3>3. PICK k \in Acks : k < j + 1
      BY <2>6, <3>1, <3>2 DEF AckOrder, AckToCome
    <3>4. k = 1 => 0 \in Reports' \cup Acks'
      <4>1. ASSUME k = 1, 0 \notin Reports', 0 \notin Acks' PROVE FALSE
        <5>1. Acks' = {}
          <6>1. \A i \in Acks' : i + 1 = 1 /\ i \in Nat
            BY <2>3, <2>4, <4>1 DEF AckOrder, AckToCome
          <6>2. \A i \in Acks' : i = 0
            BY <6>1
          <6>3. QED
            BY <4>1, <6>2
        <5>2. work \notin {"idle", "started", "listed", "failed"}
          BY DEF AckOrder, AckToCome
        <5>3. QED
          BY <2>1, <5>1, <5>2 DEF AckToCome
      <4>2. QED
        BY <4>1
    <3>5. k - 1 \in Acks' /\ k - 1 < j
      BY <1>3, <2>4, <3>1, <3>3, <3>4
    <3>6. QED
      BY <3>5
  <2>8. QED
    BY <2>1, <2>2, <2>5, <2>6, <2>7 DEF AckOrder, AckToCome
<1>14. CASE HandleAck
  <2>1. /\ reader'.pc = "read" /\ wire' = wire /\ acked' = TRUE
        /\ UNCHANGED <<work, proc, looking, early, open>>
    BY <1>14 DEF HandleAck, wvars, Sampled
  <2>2. 0 \in Acks
    BY <1>1, <1>14, WireFacts DEF HandleAck, Acks, Kind, At
  <2>3. Acks' = {}
    <3>1. Acks' = Acks \ {0}
      BY <2>1, Handled
    <3>2. QED
      BY <2>2, <3>1 DEF AckOrder, AckToCome
  <2>4. work \in {"acked", "stopped", "gone"}
    BY <1>5, <2>2 DEF AckOrder, AckToCome, Work
  <2>5. QED
    BY <2>1, <2>3, <2>4 DEF AckOrder, AckToCome
<1>15. CASE HandleError \/ InsertSample
  <2>1. /\ reader'.pc = "read" /\ reader.pc \in {"error", "insert"}
        /\ UNCHANGED <<work, proc, looking, early, wire, js, acked>>
        /\ open' = open \/ open' = FALSE
    BY <1>1, <1>15, Booked DEF wvars
  <2>2. Counted' = Counted
    BY <1>1, <1>15, Booked
  <2>3. Reports' = Reports /\ Acks' = Acks
    <3>1. 0 \notin Reports /\ 0 \notin Acks
      BY <2>1 DEF Reports, Acks, Kind
    <3>2. QED
      BY <2>1, <3>1, Handled
  <2>4. open' => open
    BY <2>1
  <2>5. QED
    BY <2>1, <2>2, <2>3, <2>4 DEF AckOrder, AckToCome
<1>16. CASE HandleMetrics
  <2>1. /\ reader'.pc = "insert" /\ reader.pc = "metrics"
        /\ UNCHANGED <<work, proc, looking, early, wire, open, acked>>
    BY <1>16 DEF HandleMetrics, wvars, Sampled
  <2>2. 0 \in Reports /\ js'.set /\ Counted' = Counted + Above(Acc(0))
    BY <1>1, <1>16, StampHandled
  <2>3. Reports' = Reports \ {0} /\ Acks' = Acks
    <3>1. 0 \notin Acks
      BY <2>1 DEF Acks, Kind
    <3>2. QED
      BY <2>1, <3>1, Handled
  <2>4. AckToCome' => Counted' = 0
    <3>1. AckToCome /\ js.set => FALSE
      <4>1. \A k \in Acks : ~(k < 0)
        BY <1>3
      <4>2. QED
        BY <2>2, <4>1 DEF AckOrder, AckToCome
    <3>2. AckToCome' => AckToCome /\ Counted = 0
      BY <2>1, <2>3 DEF AckOrder, AckToCome
    <3>3. QED
      BY <2>2, <3>1, <3>2 DEF Above
  <2>5. AckToCome' => \A j \in Reports' : \E k \in Acks' : k < j
    <3> SUFFICES ASSUME AckToCome', NEW j \in Reports' PROVE \E k \in Acks' : k < j
      OBVIOUS
    <3>3. AckToCome
      BY <2>1, <2>3 DEF AckToCome
    <3>1. j \in Reports /\ 0 < j
      BY <1>3, <2>3
    <3>2. QED
      BY <2>2, <2>3, <3>1, <3>3 DEF AckOrder, AckToCome
  <2>6. QED
    BY <2>1, <2>2, <2>3, <2>4, <2>5 DEF AckOrder, AckToCome
<1>17. CASE TakeState
  <2>1. UNCHANGED <<work, proc, looking, early, wire, reader, open, acked, Sampled>> /\ ~js'.set
    BY <1>17 DEF TakeState, NoState, wvars, Sampled
  <2>2. Reports' = Reports /\ Acks' = Acks /\ Counted' = Counted
    BY <2>1, Same DEF Counted, Sampled
  <2>3. QED
    BY <2>1, <2>2 DEF AckOrder, AckToCome
<1>18. CASE EndJob \/ CloseRun
  <2>1. /\ UNCHANGED <<work, proc, looking, early, wire, reader, js, acked, Sampled>>
        /\ open' = open \/ open' = FALSE
    BY <1>18 DEF EndJob, CloseRun, wvars, Sampled
  <2>2. Reports' = Reports /\ Acks' = Acks /\ Counted' = Counted
    BY <2>1, Same DEF Counted, Sampled
  <2>3. open' => open
    BY <2>1
  <2>4. QED
    BY <2>1, <2>2, <2>3 DEF AckOrder, AckToCome
<1>19. Share \/ HandleMinerAllocation \/ UNCHANGED vars
       => UNCHANGED <<work, proc, looking, early, wire, hub>>
  BY DEF Share, HandleMinerAllocation, vars, wvars
<1>20. QED
  BY <1>6, <1>7, <1>8, <1>9, <1>10, <1>11, <1>12, <1>13, <1>14, <1>15, <1>16, <1>17, <1>18, <1>19
     DEF Next

-----------------------------------------------------------------------------
(* Nothing is lost while the first process is up *)

\* Reports that keep their order and the counts they are compared with
LEMMA OrderKept ==
    ASSUME Ordered, Whole, UNCHANGED <<Counted, js, acked, cancel>>,
           NEW k \in Nat,
           \A i \in Reports' : i \in Nat /\ i + k \in Reports /\ Acc(i)' = Acc(i + k)
    PROVE  Ordered'
<1>1. \A i, j \in Reports' : i < j => Acc(i)' <= Acc(j)'
  <2> SUFFICES ASSUME NEW i \in Reports', NEW j \in Reports', i < j PROVE Acc(i)' <= Acc(j)'
    OBVIOUS
  <2>1. i + k \in Reports /\ j + k \in Reports /\ i + k < j + k
    OBVIOUS
  <2>2. Acc(i + k) <= Acc(j + k)
    BY <2>1 DEF Ordered
  <2>3. QED
    BY <2>2
<1>2. acked /\ cancel.pc = "idle" => Counted = js.last /\ \A i \in Reports' : js.last <= Acc(i)'
  BY DEF Ordered
<1>3. QED
  BY <1>1, <1>2 DEF Ordered

\* With nothing accepted, all counters are zero.
LEMMA AllZero ==
    ASSUME Typed, Stamped, truth = 0
    PROVE  js.last = 0 /\ Counted = 0 /\ \A i \in Reports : Acc(i) = 0
<1>1. PICK t \in [Nat -> Nat] : Stamps(t)
  BY DEF Stamped
<1>2. js.last \in Nat /\ Counted \in Nat /\ Above(Now) \in Nat
  BY CounterTypes
<1>3. js.last = 0 /\ Counted = 0
  BY <1>2 DEF Stamped
<1>4. ASSUME NEW i \in Reports PROVE Acc(i) = 0
  <2>1. PICK a \in Nat, d \in Nat : a = Acc(i) /\ d = Delta(Acc(i), Now)
    BY ReportTypes, CounterTypes, DeltaFacts
  <2>2. i \in Nat /\ t[i] \in Nat
    BY ReportTypes
  <2>3. a <= t[i] /\ t[i] + d <= 0
    BY <1>1, <2>1 DEF Stamps
  <2>4. QED
    BY <2>1, <2>2, <2>3
<1>5. QED
  BY <1>3, <1>4

LEMMA ReportsBelow ==
    ASSUME Typed, Stamped
    PROVE  \A i \in Reports : Acc(i) <= truth
<1>1. PICK t \in [Nat -> Nat] : Stamps(t)
  BY DEF Stamped
<1>2. SUFFICES ASSUME NEW i \in Reports PROVE Acc(i) <= truth
  OBVIOUS
<1>3. PICK a \in Nat, d \in Nat : a = Acc(i) /\ d = Delta(Acc(i), Now)
  BY ReportTypes, CounterTypes, DeltaFacts
<1>4. i \in Nat /\ t[i] \in Nat /\ truth \in Nat
  BY ReportTypes, CounterTypes
<1>5. a <= t[i] /\ t[i] + d <= truth
  BY <1>1, <1>3 DEF Stamps
<1>6. QED
  BY <1>3, <1>4, <1>5

LEMMA OrderSteps ==
    ASSUME WorkInv, WorkInv', Stamped, Stamped', AckOrder, Ordered, Unreachable = FALSE, [Next]_vars
    PROVE  Ordered'
<1>1. Typed /\ Typed'
  BY DEF WorkInv
<1>2. UNCHANGED hub => UNCHANGED <<Counted, js, acked, cancel, reader, Sampled>>
  BY DEF hub, Counted, Sampled
<1>3. \A i \in Reports : i \in Nat /\ i + 0 = i
  BY <1>1, ReportTypes
<1>4. /\ \A i \in Reports : Acc(i) \in Nat
      /\ Counted \in Nat /\ js.last \in Nat /\ truth \in Nat
  BY <1>1, ReportTypes, CounterTypes
<1>5. ASSUME ~Whole', js' = js, acked' = acked, cancel' = cancel PROVE Ordered'
  BY <1>5 DEF Ordered
\* A step of the engine, with what is in flight kept or cut
<1>6. ASSUME Follows(eng', eng), truth' = truth, UNCHANGED hub,
             \A i \in Reports' : i \in Reports /\ Acc(i)' = Acc(i)
      PROVE  Ordered'
  <2>1. CASE Whole
    BY <1>2, <1>3, <1>6, <2>1, OrderKept
  <2>2. CASE ~Whole'
    BY <1>2, <1>5, <1>6, <2>2
  <2>3. CASE ~Whole /\ Whole'
    <3>1. truth = 0
      BY <1>6, <2>3 DEF Follows, Whole
    <3>2. js.last = 0 /\ Counted = 0 /\ \A i \in Reports : Acc(i) = 0
      BY <1>1, <3>1, AllZero
    <3>3. \A i \in Reports' : Acc(i)' = 0
      BY <1>6, <3>2
    <3>4. QED
      BY <1>2, <1>6, <3>2, <3>3 DEF Ordered
  <2>4. QED
    BY <2>1, <2>2, <2>3
<1>7. ASSUME UNCHANGED <<eng, truth>>, js' = js, acked' = acked, cancel' = cancel, Counted' = Counted,
             \A i \in Reports' : i \in Reports /\ Acc(i)' = Acc(i)
      PROVE  Ordered'
  <2>1. CASE Whole
    BY <1>3, <1>7, <2>1, OrderKept
  <2>2. CASE ~Whole
    BY <1>5, <1>7, <2>2 DEF Whole
  <2>3. QED
    BY <2>1, <2>2
<1>8. ASSUME wire' = wire, reader' = reader
      PROVE  \A i \in Reports' : i \in Reports /\ Acc(i)' = Acc(i)
  BY <1>3, <1>8, Same
<1>9. CASE UNCHANGED <<eng, truth, wire, hub>>
  BY <1>2, <1>7, <1>8, <1>9
\* A share, with or without a report
<1>10. ASSUME NEW n \in 0..1, eng' = [eng EXCEPT !.count = @ + n], truth' = truth + n, UNCHANGED hub
       PROVE  (Whole' => Whole) /\ (wire' = wire => Ordered')
  <2>1. eng'.child = eng.child /\ eng'.count = eng.count + n
    BY <1>1, <1>10, Grows
  <2>2. eng.count \in Nat /\ truth \in Nat
    BY <1>1 DEF Typed, TypedWork, EngineTypeOK, Counts
  <2>3. Whole' => Whole
    BY <1>10, <2>1, <2>2 DEF Whole
  <2>4. ASSUME wire' = wire PROVE Ordered'
    BY <1>2, <1>3, <1>5, <1>8, <1>10, <2>3, <2>4, OrderKept
  <2>5. QED
    BY <2>3, <2>4
<1>11. CASE Share
  <2>1. 1 \in 0..1 /\ eng' = [eng EXCEPT !.count = @ + 1] /\ truth' = truth + 1 /\ UNCHANGED <<wire, hub>>
    BY <1>11 DEF Share
  <2>2. QED
    BY <1>10, <2>1
<1>12. CASE SendAck
  <2>1. 0 \in Counts
    BY SharesAssumption DEF Counts
  <2>2. PICK m \in Msg : wire' = Append(wire, m) /\ m.kind # "metrics"
    <3>1. Message("ack", 0) \in Msg /\ Message("error", 0) \in Msg
      BY <2>1 DEF Message, Msg
    <3>2. Message("ack", 0).kind # "metrics" /\ Message("error", 0).kind # "metrics"
      BY DEF Message
    <3>3. QED
      BY <1>12, <3>1, <3>2 DEF SendAck
  <2>3. PICK L \in Nat : L = Len(wire) + 1
    BY <1>1, WireFacts
  <2>4. UNCHANGED <<eng, truth, hub>>
    BY <1>12 DEF SendAck, AssignFails
  <2>5. Reports' = Reports /\ \A i \in At : Acc(i)' = Acc(i)
    BY <1>1, <1>2, <2>2, <2>3, <2>4, Sent
  <2>6. \A i \in Reports' : i \in Reports /\ Acc(i)' = Acc(i)
    BY <2>5 DEF Reports
  <2>7. QED
    BY <1>2, <1>7, <2>4, <2>6
<1>13. CASE Report
  <2>1. PICK n \in 0..1 :
              /\ eng' = [eng EXCEPT !.count = @ + n] /\ truth' = truth + n
              /\ \/ proc # "session" /\ wire' = wire
                 \/ proc = "session" /\ wire' = Append(wire, Message("metrics", Now'))
    BY <1>1, <1>13, Reading
  <2>2. UNCHANGED hub /\ (Whole' => Whole) /\ (wire' = wire => Ordered')
    BY <1>10, <1>13, <2>1 DEF Report
  <2>3. CASE Whole' /\ wire' = Append(wire, Message("metrics", Now'))
    <3>1. 0 \in Counts /\ eng'.count \in Counts
      BY <1>1, SharesAssumption DEF Counts, Typed, TypedWork, EngineTypeOK
    <3>2. PICK m \in Msg : m = Message("metrics", Now') /\ m.kind = "metrics" /\ m.acc = Now'
      <4>1. Now' \in Counts
        BY <3>1 DEF Now
      <4>2. Message("metrics", Now') \in Msg
        BY <4>1 DEF Message, Msg
      <4>3. QED
        BY <4>2 DEF Message
    <3>3. PICK L \in Nat : L = Len(wire) + 1
      BY <1>1, WireFacts
    <3>4. /\ \A i \in At : i < L /\ Acc(i)' = Acc(i)
          /\ Acc(L)' = Now' /\ Reports' = Reports \cup {L}
      BY <1>1, <1>2, <2>2, <2>3, <3>2, <3>3, Sent
    <3>5. PICK v \in Nat : v = truth' /\ Now' = v /\ truth <= v
      <4>1. Now' = truth'
        BY <1>1, <2>3 DEF Now, Whole, Typed, TypedWork
      <4>2. truth' \in Nat /\ truth <= truth'
        BY <1>4, <2>1
      <4>3. QED
        BY <4>1, <4>2
    <3>6. \A i \in Reports : i < L /\ i \in Nat /\ Acc(i)' = Acc(i) /\ Acc(i) <= v
      <4>1. \A i \in Reports : Acc(i) <= truth
        BY <1>1, ReportsBelow
      <4>2. \A i \in Reports : Acc(i) <= v
        BY <1>4, <3>5, <4>1
      <4>3. QED
        BY <1>3, <3>4, <4>2 DEF Reports
    <3>7. \A i, j \in Reports' : i < j => Acc(i)' <= Acc(j)'
      <4> SUFFICES ASSUME NEW i \in Reports', NEW j \in Reports', i < j PROVE Acc(i)' <= Acc(j)'
        OBVIOUS
      <4>1. \A x \in Reports : x \in Nat /\ x < L
        BY <3>6
      <4>2. i \in Reports
        BY <3>4, <4>1
      <4>3. CASE j = L
        BY <3>4, <3>5, <3>6, <4>2, <4>3
      <4>4. CASE j \in Reports
        <5>1. Acc(i) <= Acc(j)
          BY <2>2, <2>3, <4>2, <4>4 DEF Ordered
        <5>2. QED
          BY <3>6, <4>2, <4>4, <5>1
      <4>5. QED
        BY <3>4, <4>3, <4>4
    <3>8. js.last <= v
      <4>1. js.last <= truth
        BY DEF Stamped
      <4>2. QED
        BY <1>4, <3>5, <4>1
    <3>9. acked /\ cancel.pc = "idle" => Counted = js.last /\ \A i \in Reports' : js.last <= Acc(i)'
      <4> SUFFICES ASSUME acked, cancel.pc = "idle"
                   PROVE  Counted = js.last /\ \A i \in Reports' : js.last <= Acc(i)'
        OBVIOUS
      <4>1. Counted = js.last /\ \A i \in Reports : js.last <= Acc(i)
        BY <2>2, <2>3 DEF Ordered
      <4>2. QED
        BY <3>4, <3>5, <3>6, <3>8, <4>1
    <3>10. QED
      BY <1>2, <2>2, <3>7, <3>9 DEF Ordered
  <2>4. QED
    BY <1>2, <1>5, <2>1, <2>2, <2>3
<1>14. CASE WorkerCancel
  BY <1>2, <1>6, <1>8, <1>14, EngineSteps DEF WorkerCancel, WorkInv
<1>15. CASE ApplyUpdate
  <2>1. CASE AllocationStops
    BY <1>2, <1>6, <1>8, <1>15, <2>1, EngineSteps DEF ApplyUpdate, WorkInv
  <2>2. CASE UNCHANGED wvars
    BY <1>9, <1>15, <2>2 DEF ApplyUpdate, wvars
  <2>3. QED
    BY <1>15, <2>1, <2>2 DEF ApplyUpdate
<1>16. CASE WorkerMoves
  <2>1. Follows(eng', eng) /\ truth' = truth /\ UNCHANGED hub
    BY <1>16, EngineSteps DEF WorkerMoves, WorkInv
  <2>2. CASE wire' = wire
    BY <1>2, <1>6, <1>8, <2>1, <2>2
  <2>3. CASE \E n \in 0..Len(wire) : wire' = SubSeq(wire, 1, n)
    <3>1. \A i \in Reports' : i \in Reports /\ Acc(i)' = Acc(i)
      BY <1>1, <1>2, <2>1, <2>3, Cut
    <3>2. QED
      BY <1>6, <2>1, <3>1
  <2>4. QED
    BY <1>16, <2>2, <2>3 DEF WorkerMoves
<1>17. CASE Receive
  <2>1. \A i \in Reports' : i \in Nat /\ i + 1 \in Reports /\ Acc(i)' = Acc(i + 1)
    <3>1. \A i \in Reports' : i \in Nat
      BY <1>1, WireFacts DEF Reports, At
    <3>2. QED
      BY <1>1, <1>17, <3>1, Taken
  <2>2. UNCHANGED <<eng, truth, js, acked, cancel>> /\ Counted' = Counted
    <3>1. reader.pc # "insert" /\ reader'.pc # "insert"
      <4>1. wire # <<>> => wire[1] \in Msg /\ Head(wire) = wire[1]
        BY <1>1, WireFacts
      <4>2. QED
        BY <1>17, <4>1 DEF Receive, Msg
    <3>2. QED
      BY <1>17, <3>1 DEF Receive, wvars, Counted, Sampled
  <2>3. CASE Whole
    BY <2>1, <2>2, <2>3, OrderKept
  <2>4. CASE ~Whole
    BY <1>5, <2>2, <2>4 DEF Whole
  <2>5. QED
    BY <2>3, <2>4
<1>18. CASE HandleAck
  <2>1. /\ reader'.pc = "read" /\ wire' = wire /\ js'.last = 0 /\ js'.set
        /\ UNCHANGED <<eng, truth, Sampled, cancel>>
    BY <1>18 DEF HandleAck, wvars, State, Sampled
  <2>2. 0 \in Acks
    BY <1>1, <1>18, WireFacts DEF HandleAck, Acks, Kind, At
  <2>3. Counted' = 0
    <3>1. Counted = 0
      BY <2>2 DEF AckOrder, AckToCome
    <3>2. QED
      BY <1>18, <2>1, <3>1 DEF Counted, HandleAck, Sampled
  <2>4. \A i \in Reports' : i \in Reports /\ Acc(i)' = Acc(i)
    BY <2>1, Handled
  <2>5. \A i \in Reports' : 0 <= Acc(i)'
    BY <1>4, <2>4
  <2>6. Whole' => \A i, j \in Reports' : i < j => Acc(i)' <= Acc(j)'
    BY <2>1, <2>4 DEF Ordered, Whole
  <2>7. QED
    BY <2>1, <2>3, <2>5, <2>6 DEF Ordered
<1>19. CASE HandleError \/ InsertSample
  <2>1. /\ reader'.pc = "read" /\ UNCHANGED <<wire, eng, truth, js, acked, cancel>>
    BY <1>1, <1>19, Booked DEF wvars
  <2>2. Counted' = Counted
    BY <1>1, <1>19, Booked
  <2>3. \A i \in Reports' : i \in Reports /\ Acc(i)' = Acc(i)
    BY <2>1, Handled
  <2>4. QED
    BY <1>7, <2>1, <2>2, <2>3
<1>20. CASE HandleMetrics
  <2>1. UNCHANGED <<eng, truth, acked, cancel, wire>> /\ reader'.pc = "insert"
    BY <1>20 DEF HandleMetrics, wvars, Sampled
  <2>2. 0 \in Reports /\ js'.set /\ js'.last = Acc(0) /\ Counted' = Counted + Above(Acc(0))
    BY <1>1, <1>20, StampHandled
  <2>3. Reports' = Reports \ {0} /\ \A i \in Reports' : Acc(i)' = Acc(i)
    BY <2>1, Handled
  <2>4. Whole' => \A i, j \in Reports' : i < j => Acc(i)' <= Acc(j)'
    BY <2>1, <2>3 DEF Ordered, Whole
  <2>5. Whole' /\ acked /\ cancel.pc = "idle" => Counted' = Acc(0) /\ \A i \in Reports' : Acc(0) <= Acc(i)'
    <3> SUFFICES ASSUME Whole', acked, cancel.pc = "idle"
                 PROVE  Counted' = Acc(0) /\ \A i \in Reports' : Acc(0) <= Acc(i)'
      OBVIOUS
    <3>1. Whole
      BY <2>1 DEF Whole
    <3>2. js.set /\ Counted = js.last /\ js.last <= Acc(0)
      BY <2>2, <3>1 DEF Ordered
    <3>3. Counted' = Acc(0)
      <4>1. PICK a \in Nat, l \in Nat : a = Acc(0) /\ l = js.last
        BY <1>4, <2>2
      <4>2. Above(a) = a - l
        BY <3>2, <4>1, DeltaFacts DEF Above
      <4>3. QED
        BY <2>2, <3>2, <4>1, <4>2
    <3>4. ASSUME NEW i \in Reports' PROVE Acc(0) <= Acc(i)'
      <4>1. i \in Reports /\ 0 < i /\ Acc(i)' = Acc(i)
        BY <1>3, <2>3, <3>4
      <4>2. QED
        BY <2>2, <3>1, <4>1 DEF Ordered
    <3>5. QED
      BY <3>3, <3>4
  <2>6. QED
    BY <2>1, <2>2, <2>4, <2>5 DEF Ordered
<1>21. CASE TakeState
  <2>1. UNCHANGED <<truth, eng, wire, reader>> /\ cancel'.pc = "end"
    BY <1>21 DEF TakeState, wvars, Sampled
  <2>2. \A i \in Reports' : i \in Reports /\ Acc(i)' = Acc(i)
    BY <1>8, <2>1
  <2>3. QED
    BY <2>1, <2>2 DEF Ordered, Whole
<1>22. CASE EndJob \/ CloseRun
  <2>1. /\ UNCHANGED <<eng, truth, js, reader, Sampled, wire, acked>>
        /\ cancel'.pc # "idle"
    BY <1>1, <1>22 DEF EndJob, CloseRun, wvars, Typed, TypedHub, Sampled
  <2>2. \A i \in Reports' : i \in Reports /\ Acc(i)' = Acc(i)
    BY <1>8, <2>1
  <2>3. QED
    BY <2>1, <2>2 DEF Ordered, Whole
<1>23. Tick \/ HandleMinerAllocation \/ UNCHANGED vars => UNCHANGED <<eng, truth, wire, hub>>
  BY DEF Tick, Looks, HandleMinerAllocation, vars, wvars
<1>24. QED
  BY <1>9, <1>11, <1>12, <1>13, <1>14, <1>15, <1>16, <1>17, <1>18, <1>19, <1>20, <1>21, <1>22, <1>23
     DEF Next

LEMMA InitShares == Init => ShareInv
<1> SUFFICES ASSUME Init PROVE ShareInv
  OBVIOUS
<1>1. WorkInv
  BY InitWork
<1>2. Len(wire) = 0 /\ reader.pc = "read"
  BY DEF Init
<1>3. Reports = {} /\ Acks = {}
  BY <1>2 DEF Reports, Acks, Kind, At
<1>4. Counted = 0 /\ Above(Now) = 0 /\ js.last = 0 /\ ~js.set /\ truth = 0
  BY DEF Init, NoState, Counted, Above, Sampled
<1>5. Stamped
  <2>1. [i \in Nat |-> 0] \in [Nat -> Nat]
    OBVIOUS
  <2>2. Stamps([i \in Nat |-> 0])
    BY <1>3 DEF Stamps
  <2>3. QED
    BY <1>4, <2>1, <2>2 DEF Stamped
<1>6. AckOrder
  BY <1>3, <1>4 DEF AckOrder, AckToCome, Init, EngineInit
<1>7. Ordered
  BY <1>3, <1>4 DEF Ordered, Init
<1>8. QED
  BY <1>1, <1>5, <1>6, <1>7 DEF ShareInv

LEMMA SharesAlways == ASSUME Unreachable = FALSE PROVE Spec => []ShareInv
<1>1. Init => ShareInv
  BY InitShares
<1>2. ShareInv /\ [Next]_vars => ShareInv'
  <2> SUFFICES ASSUME ShareInv, [Next]_vars PROVE ShareInv'
    OBVIOUS
  <2>1. WorkInv /\ Stamped /\ AckOrder /\ Ordered
    BY DEF ShareInv
  <2>2. WorkInv'
    BY <2>1, WorkSteps
  <2>3. Stamped'
    BY <2>1, <2>2, StampSteps
  <2>4. AckOrder'
    BY <2>1, <2>2, AckSteps
  <2>5. Ordered'
    BY <2>1, <2>2, <2>3, OrderSteps
  <2>6. QED
    BY <2>2, <2>3, <2>4, <2>5 DEF ShareInv
<1>3. QED
  BY <1>1, <1>2, PTL DEF Spec

\* As long as the stats API of the miner process answers, handleMetrics and handleAck store
\* no more than the pool accepted: through restarts of the counter, a report ahead of the
\* ack, lost messages and CancelMiner between two reports.
THEOREM CountsAtMostOnce == ASSUME Unreachable = FALSE PROVE Spec => []NeverOvercounts
<1>1. ShareInv => NeverOvercounts
  <2> SUFFICES ASSUME ShareInv PROVE NeverOvercounts
    OBVIOUS
  <2>1. Typed /\ Stamped
    BY DEF ShareInv, WorkInv
  <2>2. PICK c \in Nat, a \in Nat, v \in Nat : c = Counted /\ a = Above(Now) /\ v = truth
    BY <2>1, CounterTypes
  <2>3. c + a <= v
    BY <2>1, <2>2 DEF Stamped
  <2>4. Counted <= truth
    BY <2>2, <2>3
  <2>5. QED
    BY <2>1, <2>2, <2>4 DEF NeverOvercounts, Counted, Sampled, Typed, TypedHub
<1>2. QED
  BY <1>1, SharesAlways, PTL

\* While the first miner process of the job is up the samples add up to the last report
\* that handleMetrics took: no share is lost between two reports but by a failed INSERT.
THEOREM NothingLost == ASSUME Unreachable = FALSE PROVE Spec => []ReportsAddUp
<1>1. ShareInv => ReportsAddUp
  <2> SUFFICES ASSUME ShareInv, Whole, acked, cancel.pc = "idle", reader.pc # "insert"
               PROVE  Sampled = js.last
    BY DEF ReportsAddUp, Whole
  <2>1. Counted = js.last
    BY DEF ShareInv, Ordered
  <2>2. Counted = Sampled
    BY DEF Counted, ShareInv, WorkInv, Typed, TypedHub, Sampled
  <2>3. QED
    BY <2>1, <2>2
<1>2. QED
  BY <1>1, SharesAlways, PTL

=============================================================================
