----------------------------- MODULE PayoutsProofs -----------------------------
(***************************************************************************)
(* The event broker implements the lossy feed, by itself and behind the    *)
(* payout poller, and the poller records and announces what the pool paid  *)
(* and nothing else: for any number of owners, streams, payments, polls    *)
(* and restarts.                                                           *)
(***************************************************************************)
EXTENDS Payouts, FiniteSetTheorems, SequenceTheorems, TLAPS

-----------------------------------------------------------------------------
(* The broker *)

\* What waits in a channel is for its client, in the order of the log, and later
\* than what the client was sent; a request that has no channel yet has nothing.
Queued ==
    \A s \in Streams :
        /\ stream[s] \in {"new", "refused"} => chan[s] = <<>>
        /\ \A i \in 1..Len(chan[s]) :
              /\ mark[s] < chan[s][i]
              /\ log[chan[s][i]].to = ClientOf[s]
              /\ \A j \in 1..Len(chan[s]) : i < j => chan[s][i] < chan[s][j]

BrokerInv == BrokerTypeOK /\ NoSendOnClosed /\ Queued

Message == [to : Owners, what : Events]

LEMMA BrokerInitInv == BrokerInit => BrokerInv
<1> SUFFICES ASSUME BrokerInit PROVE BrokerInv
  OBVIOUS
<1>1. log = <<>> /\ Len(log) = 0 /\ log \in Seq(Message)
  BY EmptySeq DEF BrokerInit
<1>2. chan \in [Streams -> Seq(1..Len(log))] /\ \A s \in Streams : chan[s] = <<>> /\ Len(chan[s]) = 0
  BY EmptySeq DEF BrokerInit
<1>3. BrokerTypeOK
  BY <1>1, <1>2, BrokerAssumption DEF BrokerInit, BrokerTypeOK, Phase, Message
<1>4. NoSendOnClosed
  BY DEF BrokerInit, NoSendOnClosed
<1>5. Queued
  BY <1>2 DEF Queued
<1>6. QED
  BY <1>3, <1>4, <1>5 DEF BrokerInv

LEMMA SubscribeInv ==
    ASSUME BrokerInv, NEW s \in Streams, Subscribe(s)
    PROVE  BrokerInv'
<1>1. /\ stream[s] = "new" /\ UNCHANGED <<chan, log>> /\ ClientOf[s] \in Owners
      /\ Len(log) \in Nat /\ chan[s] = <<>>
  BY LenProperties, BrokerAssumption DEF Subscribe, BrokerInv, BrokerTypeOK, Queued
<1>2. CASE stream' = [stream EXCEPT ![s] = "refused"] /\ UNCHANGED <<subs, mark>>
  <2>1. BrokerTypeOK'
    BY <1>1, <1>2 DEF BrokerInv, BrokerTypeOK, Phase
  <2>2. NoSendOnClosed'
    BY <1>1, <1>2 DEF BrokerInv, BrokerTypeOK, NoSendOnClosed
  <2>3. Queued'
    BY <1>1, <1>2 DEF BrokerInv, BrokerTypeOK, Queued
  <2>4. QED
    BY <2>1, <2>2, <2>3 DEF BrokerInv
<1>3. CASE /\ subs' = [subs EXCEPT ![ClientOf[s]] = @ \cup {s}]
           /\ stream' = [stream EXCEPT ![s] = "streaming"]
           /\ mark' = [mark EXCEPT ![s] = Len(log)]
  <2>1. BrokerTypeOK'
    BY <1>1, <1>3 DEF BrokerInv, BrokerTypeOK, Phase
  <2>2. NoSendOnClosed'
    BY <1>1, <1>3 DEF BrokerInv, BrokerTypeOK, NoSendOnClosed
  <2>3. ASSUME NEW x \in Streams, x # s
        PROVE  stream'[x] = stream[x] /\ mark'[x] = mark[x] /\ chan'[x] = chan[x]
    BY <1>1, <1>3, <2>3 DEF BrokerInv, BrokerTypeOK
  <2>4. chan'[s] = <<>> /\ Len(chan'[s]) = 0
    BY <1>1, EmptySeq
  <2>5. Queued'
    BY <1>1, <2>3, <2>4 DEF BrokerInv, Queued
  <2>6. QED
    BY <2>1, <2>2, <2>5 DEF BrokerInv
<1>4. QED
  BY <1>2, <1>3 DEF Subscribe

LEMMA PublishInv ==
    ASSUME BrokerInv, NEW o \in Owners, NEW e \in Events, Publish(o, e)
    PROVE  BrokerInv'
<1> DEFINE n == Len(log)
<1>1. log \in Seq(Message) /\ n \in Nat /\ [to |-> o, what |-> e] \in Message
  BY LenProperties DEF BrokerInv, BrokerTypeOK, Message
<1>2. /\ log' \in Seq(Message) /\ Len(log') = n + 1
      /\ \A i \in 1..n : log'[i] = log[i]
      /\ log'[n + 1] = [to |-> o, what |-> e]
  BY <1>1, AppendProperties DEF Publish
<1>3. UNCHANGED <<subs, stream, mark>>
  BY DEF Publish
<1>4. ASSUME NEW s \in Streams
      PROVE  /\ chan[s] \in Seq(1..n) /\ chan[s] \in Seq(1..n + 1) /\ Len(chan[s]) \in Nat
             /\ mark[s] \in 0..n
  BY <1>1, SeqMonotonic, LenProperties DEF BrokerInv, BrokerTypeOK
<1>5. ASSUME NEW s \in Streams
      PROVE  \/ chan'[s] = chan[s]
             \/ /\ s \in subs[o] /\ Len(chan[s]) < Buffer
                /\ chan'[s] = Append(chan[s], n + 1)
  BY DEF Publish
<1> HIDE DEF n
<1>6. ASSUME NEW s \in Streams
      PROVE  /\ Append(chan[s], n + 1) \in Seq(1..n + 1)
             /\ Len(Append(chan[s], n + 1)) = Len(chan[s]) + 1
             /\ \A i \in 1..Len(chan[s]) : Append(chan[s], n + 1)[i] = chan[s][i] /\ chan[s][i] \in 1..n
             /\ Append(chan[s], n + 1)[Len(chan[s]) + 1] = n + 1
  <2>1. n + 1 \in 1..n + 1
    BY <1>1
  <2>2. \A i \in 1..Len(chan[s]) : chan[s][i] \in 1..n
    BY <1>4, ElementOfSeq
  <2>3. QED
    BY <1>4, <2>1, <2>2, AppendProperties
<1>7. chan' \in [Streams -> Seq(1..n + 1)]
  <2>1. chan' = [s \in Streams |-> chan'[s]]
    BY DEF Publish
  <2>2. \A s \in Streams : chan'[s] \in Seq(1..n + 1)
    BY <1>4, <1>5, <1>6
  <2>3. QED
    BY <2>1, <2>2
<1>8. BrokerTypeOK'
  <2>1. ASSUME NEW s \in Streams PROVE Len(chan'[s]) <= Buffer
    <3>1. Len(chan[s]) \in Nat /\ Len(chan[s]) <= Buffer /\ Buffer \in Nat
      BY <1>4, BrokerAssumption DEF BrokerInv, BrokerTypeOK
    <3>2. Len(chan'[s]) = Len(chan[s]) \/ (Len(chan[s]) < Buffer /\ Len(chan'[s]) = Len(chan[s]) + 1)
      BY <1>5, <1>6
    <3>3. QED
      BY <3>1, <3>2
  <2>2. mark' \in [Streams -> 0..n + 1]
    BY <1>1, <1>3, <1>4 DEF BrokerInv, BrokerTypeOK
  <2>3. QED
    BY <1>2, <1>3, <1>7, <2>1, <2>2 DEF BrokerInv, BrokerTypeOK, Message
<1>9. NoSendOnClosed'
  BY <1>3 DEF BrokerInv, NoSendOnClosed
<1>10. Queued'
  <2> SUFFICES ASSUME NEW s \in Streams
      PROVE  /\ stream[s] \in {"new", "refused"} => chan'[s] = <<>>
             /\ \A i \in 1..Len(chan'[s]) :
                   /\ mark[s] < chan'[s][i]
                   /\ log'[chan'[s][i]].to = ClientOf[s]
                   /\ \A j \in 1..Len(chan'[s]) : i < j => chan'[s][i] < chan'[s][j]
    BY <1>3 DEF Queued
  <2>1. CASE chan'[s] = chan[s]
    <3>1. /\ stream[s] \in {"new", "refused"} => chan[s] = <<>>
          /\ \A i \in 1..Len(chan[s]) :
                /\ mark[s] < chan[s][i]
                /\ log[chan[s][i]].to = ClientOf[s]
                /\ \A j \in 1..Len(chan[s]) : i < j => chan[s][i] < chan[s][j]
      BY DEF BrokerInv, Queued
    <3>2. \A i \in 1..Len(chan[s]) : log'[chan[s][i]] = log[chan[s][i]]
      BY <1>2, <1>6
    <3>3. QED
      BY <2>1, <3>1, <3>2
  <2>2. CASE s \in subs[o] /\ chan'[s] = Append(chan[s], n + 1)
    <3>1. stream[s] \notin {"new", "refused"} /\ ClientOf[s] = o
      BY <2>2 DEF BrokerInv, NoSendOnClosed
    <3>2. log'[n + 1].to = o
      BY <1>2
    <3>3. \A i \in 1..Len(chan[s]) :
             /\ chan'[s][i] \in 1..n /\ mark[s] < chan'[s][i] /\ log'[chan'[s][i]].to = ClientOf[s]
             /\ \A j \in 1..Len(chan[s]) : i < j => chan'[s][i] < chan'[s][j]
      <4> TAKE i \in 1..Len(chan[s])
      <4>1. chan'[s][i] = chan[s][i] /\ chan[s][i] \in 1..n
        BY <1>6, <2>2
      <4>2. mark[s] < chan[s][i] /\ log[chan[s][i]].to = ClientOf[s]
        BY DEF BrokerInv, Queued
      <4>3. ASSUME NEW j \in 1..Len(chan[s]), i < j PROVE chan'[s][i] < chan'[s][j]
        <5>1. chan'[s][j] = chan[s][j]
          BY <1>6, <2>2
        <5>2. QED
          BY <4>1, <4>3, <5>1 DEF BrokerInv, Queued
      <4>4. QED
        BY <1>2, <4>1, <4>2, <4>3
    <3>4. Len(chan'[s]) = Len(chan[s]) + 1 /\ chan'[s][Len(chan[s]) + 1] = n + 1
      BY <1>6, <2>2
    <3>5. QED
      <4>1. \A i \in 1..Len(chan'[s]) : i \in 1..Len(chan[s]) \/ i = Len(chan[s]) + 1
        BY <1>4, <3>4
      <4>2. mark[s] < n + 1
        BY <1>1, <1>4
      <4>3. ASSUME NEW i \in 1..Len(chan'[s]), NEW j \in 1..Len(chan'[s]), i < j
            PROVE  chan'[s][i] < chan'[s][j]
        <5>1. i \in 1..Len(chan[s]) /\ chan'[s][i] \in 1..n
          BY <1>4, <3>3, <3>4, <4>3
        <5>2. CASE j \in 1..Len(chan[s])
          BY <3>3, <4>3, <5>1, <5>2
        <5>3. CASE j = Len(chan[s]) + 1
          BY <1>1, <3>4, <5>1, <5>3
        <5>4. QED
          BY <4>1, <5>2, <5>3
      <4>4. QED
        BY <3>1, <3>2, <3>3, <3>4, <4>1, <4>2, <4>3
  <2>3. QED
    BY <1>5, <2>1, <2>2
<1>11. QED
  BY <1>8, <1>9, <1>10 DEF BrokerInv

LEMMA SendInv ==
    ASSUME BrokerInv, NEW s \in Streams, Send(s)
    PROVE  /\ BrokerInv'
           /\ Head(chan[s]) \in mark[s] + 1 .. Len(log)
           /\ log[Head(chan[s])].to = ClientOf[s]
<1> DEFINE n == Len(log)
           h == Head(chan[s])
<1>1. /\ stream[s] \in {"streaming", "gone"} /\ chan[s] # <<>>
      /\ mark' = [mark EXCEPT ![s] = h] /\ chan' = [chan EXCEPT ![s] = Tail(chan[s])]
      /\ UNCHANGED <<subs, stream, log>>
  BY DEF Send
<1>2. chan[s] \in Seq(1..n) /\ n \in Nat /\ mark[s] \in 0..n
  BY LenProperties DEF BrokerInv, BrokerTypeOK
<1>3. /\ h \in 1..n /\ Tail(chan[s]) \in Seq(1..n)
      /\ Len(chan[s]) \in Nat \ {0} /\ Len(Tail(chan[s])) = Len(chan[s]) - 1
      /\ \A i \in 1..Len(Tail(chan[s])) : Tail(chan[s])[i] = chan[s][i + 1]
  BY <1>1, <1>2, HeadTailProperties, EmptySeq
<1>4. h = chan[s][1]
  BY <1>1
<1>5. mark[s] < h /\ log[h].to = ClientOf[s]
  <2>1. 1 \in 1..Len(chan[s])
    BY <1>3
  <2>2. QED
    BY <1>4, <2>1 DEF BrokerInv, Queued
<1>6. /\ chan'[s] = Tail(chan[s]) /\ mark'[s] = h
      /\ \A x \in Streams : x # s => chan'[x] = chan[x] /\ mark'[x] = mark[x]
  BY <1>1 DEF BrokerInv, BrokerTypeOK
<1> HIDE DEF n, h
<1>7. BrokerTypeOK'
  <2>1. chan' \in [Streams -> Seq(1..n)] /\ mark' \in [Streams -> 0..n]
    BY <1>1, <1>2, <1>3 DEF BrokerInv, BrokerTypeOK, n
  <2>2. ASSUME NEW x \in Streams PROVE Len(chan'[x]) <= Buffer
    <3>1. Len(chan[x]) <= Buffer /\ Len(chan[s]) <= Buffer /\ Buffer \in Nat
      BY BrokerAssumption DEF BrokerInv, BrokerTypeOK
    <3>2. Len(Tail(chan[s])) <= Buffer
      BY <1>3, <3>1
    <3>3. QED
      BY <1>6, <3>1, <3>2
  <2>3. QED
    BY <1>1, <2>1, <2>2 DEF BrokerInv, BrokerTypeOK, n
<1>8. NoSendOnClosed'
  BY <1>1 DEF BrokerInv, NoSendOnClosed
<1>9. Queued'
  <2>1. ASSUME NEW i \in 1..Len(chan'[s])
        PROVE  /\ h < chan'[s][i] /\ log[chan'[s][i]].to = ClientOf[s]
               /\ \A j \in 1..Len(chan'[s]) : i < j => chan'[s][i] < chan'[s][j]
    <3>1. i \in 1..Len(chan[s]) /\ i + 1 \in 1..Len(chan[s]) /\ 1 \in 1..Len(chan[s]) /\ 1 < i + 1
      BY <1>3, <1>6
    <3>2. chan'[s][i] = chan[s][i + 1]
      BY <1>3, <1>6
    <3>3. \A j \in 1..Len(chan'[s]) : j + 1 \in 1..Len(chan[s]) /\ chan'[s][j] = chan[s][j + 1]
      BY <1>3, <1>6
    <3>4. \A k \in 1..Len(chan[s]) :
             /\ log[chan[s][k]].to = ClientOf[s]
             /\ \A l \in 1..Len(chan[s]) : k < l => chan[s][k] < chan[s][l]
      BY DEF BrokerInv, Queued
    <3>5. chan[s][1] < chan[s][i + 1]
      BY <3>1, <3>4
    <3>6. ASSUME NEW j \in 1..Len(chan'[s]), i < j PROVE chan[s][i + 1] < chan[s][j + 1]
      <4>1. i + 1 < j + 1 /\ j + 1 \in 1..Len(chan[s])
        BY <1>3, <1>6, <3>3, <3>6
      <4>2. QED
        BY <3>1, <3>4, <4>1
    <3>7. QED
      BY <1>4, <3>1, <3>2, <3>3, <3>4, <3>5, <3>6
  <2>2. ASSUME NEW x \in Streams, x # s
        PROVE  /\ stream[x] \in {"new", "refused"} => chan'[x] = <<>>
               /\ \A i \in 1..Len(chan'[x]) :
                     /\ mark'[x] < chan'[x][i]
                     /\ log[chan'[x][i]].to = ClientOf[x]
                     /\ \A j \in 1..Len(chan'[x]) : i < j => chan'[x][i] < chan'[x][j]
    <3>1. chan'[x] = chan[x] /\ mark'[x] = mark[x]
      BY <1>6, <2>2
    <3>2. QED
      BY <3>1 DEF BrokerInv, Queued
  <2>3. ASSUME NEW i \in 1..Len(chan'[s]) PROVE mark'[s] < chan'[s][i]
    BY <1>6, <2>1
  <2>4. stream[s] \notin {"new", "refused"} /\ UNCHANGED <<stream, log>>
    BY <1>1
  <2>5. QED
    BY <2>1, <2>2, <2>3, <2>4, Zenon DEF Queued
<1>10. QED
  BY <1>2, <1>3, <1>5, <1>7, <1>8, <1>9 DEF BrokerInv, n, h

LEMMA LeaveInv ==
    ASSUME BrokerInv, NEW s \in Streams, ClientLeaves(s) \/ Unsubscribe(s)
    PROVE  BrokerInv'
<1>1. /\ UNCHANGED <<chan, log, mark>> /\ stream[s] \in {"streaming", "gone", "removed"}
      /\ stream' \in [Streams -> Phase] /\ subs' \in [Owners -> SUBSET Streams]
      /\ ClientOf[s] \in Owners
  <2>1. ClientOf[s] \in Owners /\ stream \in [Streams -> Phase] /\ subs \in [Owners -> SUBSET Streams]
    BY BrokerAssumption DEF BrokerInv, BrokerTypeOK
  <2>2. CASE ClientLeaves(s)
    BY <2>1, <2>2 DEF ClientLeaves, Phase
  <2>3. CASE Unsubscribe(s)
    BY <2>1, <2>3 DEF Unsubscribe, Phase
  <2>4. QED
    BY <2>2, <2>3
<1>2. BrokerTypeOK'
  BY <1>1 DEF BrokerInv, BrokerTypeOK
<1>3. NoSendOnClosed'
  <2>1. CASE ClientLeaves(s)
    BY <2>1 DEF ClientLeaves, BrokerInv, BrokerTypeOK, NoSendOnClosed
  <2>2. CASE Unsubscribe(s)
    <3>1. /\ \A o \in Owners : subs'[o] \subseteq subs[o] /\ s \notin subs'[o]
          /\ \A x \in Streams : x # s => stream'[x] = stream[x]
      <4>1. \A o \in Owners : s \in subs[o] => o = ClientOf[s] /\ stream[s] = "gone"
        BY <2>2 DEF Unsubscribe, BrokerInv, NoSendOnClosed
      <4>2. subs \in [Owners -> SUBSET Streams] /\ stream \in [Streams -> Phase]
        BY DEF BrokerInv, BrokerTypeOK
      <4>3. CASE stream[s] = "gone"
        BY <1>1, <2>2, <4>1, <4>2, <4>3 DEF Unsubscribe
      <4>4. CASE stream[s] = "removed"
        BY <1>1, <2>2, <4>1, <4>2, <4>4 DEF Unsubscribe
      <4>5. QED
        BY <2>2, <4>3, <4>4 DEF Unsubscribe
    <3>2. \A o \in Owners : subs[o] \subseteq Streams
      BY DEF BrokerInv, BrokerTypeOK
    <3>3. QED
      BY <3>1, <3>2 DEF BrokerInv, NoSendOnClosed
  <2>3. QED
    BY <2>1, <2>2
<1>4. Queued'
  <2>1. \A x \in Streams : stream'[x] \in {"new", "refused"} => stream[x] \in {"new", "refused"}
    BY DEF ClientLeaves, Unsubscribe, BrokerInv, BrokerTypeOK
  <2>2. QED
    BY <1>1, <2>1 DEF BrokerInv, Queued
<1>5. QED
  BY <1>2, <1>3, <1>4 DEF BrokerInv

LEMMA RestartInv == ASSUME BrokerInv, BrokerRestart PROVE BrokerInv'
<1>1. /\ UNCHANGED <<log, mark>>
      /\ \A s \in Streams : chan'[s] = <<>> /\ Len(chan'[s]) = 0
      /\ chan' \in [Streams -> Seq(1..Len(log))]
  BY EmptySeq DEF BrokerRestart
<1>2. stream' \in [Streams -> Phase] /\ subs' \in [Owners -> SUBSET Streams]
  BY DEF BrokerRestart, BrokerInv, BrokerTypeOK, Phase
<1>3. BrokerTypeOK'
  BY <1>1, <1>2, BrokerAssumption DEF BrokerInv, BrokerTypeOK
<1>4. NoSendOnClosed'
  BY DEF BrokerRestart, NoSendOnClosed
<1>5. Queued'
  BY <1>1 DEF Queued
<1>6. QED
  BY <1>3, <1>4, <1>5 DEF BrokerInv

LEMMA BrokerSame == ASSUME BrokerInv, UNCHANGED bvars PROVE BrokerInv'
BY DEF bvars, BrokerInv, BrokerTypeOK, NoSendOnClosed, Queued

LEMMA ServeInv == ASSUME BrokerInv, NEW s \in Streams, Serve(s) PROVE BrokerInv'
BY SubscribeInv, SendInv, LeaveInv DEF Serve

-----------------------------------------------------------------------------
(* The broker implements the feed *)

Live == {s \in Streams : stream[s] \in {"streaming", "gone"}}

\* A step of a request opens its stream, shows one event, ends it or does not show.
LEMMA ServeFeed ==
    ASSUME BrokerInv, NEW s \in Streams, Serve(s)
    PROVE  Feed!Next \/ UNCHANGED <<log, Live, mark>>
<1>1. stream \in [Streams -> Phase] /\ mark \in [Streams -> 0..Len(log)]
  BY DEF BrokerInv, BrokerTypeOK
<1>2. CASE Subscribe(s)
  <2>1. CASE stream' = [stream EXCEPT ![s] = "refused"] /\ UNCHANGED <<mark, log>>
    BY <1>1, <1>2, <2>1 DEF Subscribe, Live
  <2>2. CASE /\ stream' = [stream EXCEPT ![s] = "streaming"]
             /\ mark' = [mark EXCEPT ![s] = Len(log)] /\ log' = log
    <3>1. s \notin Live /\ Live' = Live \cup {s}
      BY <1>1, <1>2, <2>2 DEF Subscribe, Live
    <3>2. Feed!Open(s)
      BY <2>2, <3>1 DEF Feed!Open, Live
    <3>3. QED
      BY <3>2 DEF Feed!Next
  <2>3. QED
    BY <1>2, <2>1, <2>2 DEF Subscribe
<1>3. CASE Send(s)
  <2>1. PICK i \in mark[s] + 1 .. Len(log) : i = Head(chan[s]) /\ log[i].to = ClientOf[s]
    BY <1>3, SendInv
  <2>2. s \in Live /\ mark' = [mark EXCEPT ![s] = i] /\ UNCHANGED <<log, stream>>
    BY <1>3, <2>1 DEF Send, Live
  <2>3. Feed!Show(s)
    BY <2>1, <2>2 DEF Feed!Show, Live
  <2>4. QED
    BY <2>3 DEF Feed!Next
<1>4. CASE ClientLeaves(s)
  BY <1>1, <1>4 DEF ClientLeaves, Live
<1>5. CASE Unsubscribe(s)
  <2>1. UNCHANGED <<log, mark>> /\ Live' = Live \ {s}
    BY <1>1, <1>5 DEF Unsubscribe, Live
  <2>2. CASE s \in Live
    <3>1. {s} \in SUBSET Live
      BY <2>2
    <3>2. Feed!End
      BY <2>1, <3>1 DEF Feed!End, Live
    <3>3. QED
      BY <3>2 DEF Feed!Next
  <2>3. CASE s \notin Live
    BY <2>1, <2>3
  <2>4. QED
    BY <2>2, <2>3
<1>6. QED
  BY <1>2, <1>3, <1>4, <1>5 DEF Serve

LEMMA PublishFeed ==
    ASSUME NEW o \in Owners, NEW e \in Events, Publish(o, e)
    PROVE  Feed!Next
BY DEF Publish, Feed!Publish, Feed!Next

\* When the process ends all streams end.
LEMMA RestartFeed == ASSUME BrokerInv, BrokerRestart PROVE Feed!Next
<1>1. UNCHANGED <<log, mark>> /\ Live' = Live \ Live
  BY DEF BrokerRestart, Live
<1>2. Feed!End
  BY <1>1 DEF Feed!End, Live
<1>3. QED
  BY <1>2 DEF Feed!Next

LEMMA BrokerStep ==
    BrokerInv /\ [BrokerNext]_bvars => BrokerInv' /\ [Feed!Next]_(Feed!feed)
<1> SUFFICES ASSUME BrokerInv, [BrokerNext]_bvars
             PROVE  BrokerInv' /\ (Feed!Next \/ UNCHANGED <<log, Live, mark>>)
  BY DEF Feed!feed, Live
<1>1. ASSUME NEW s \in Streams, Serve(s)
      PROVE  BrokerInv' /\ (Feed!Next \/ UNCHANGED <<log, Live, mark>>)
  BY <1>1, ServeInv, ServeFeed
<1>2. ASSUME NEW o \in Owners, NEW e \in Events, Publish(o, e)
      PROVE  BrokerInv' /\ Feed!Next
  BY <1>2, PublishInv, PublishFeed
<1>3. CASE BrokerRestart
  BY <1>3, RestartInv, RestartFeed
<1>4. CASE UNCHANGED bvars
  BY <1>4, BrokerSame DEF bvars, Live
<1>5. QED
  BY <1>1, <1>2, <1>3, <1>4 DEF BrokerNext

LEMMA BrokerAlways == BrokerSpec => []BrokerInv
<1>1. BrokerInv /\ [BrokerNext]_bvars => BrokerInv'
  BY BrokerStep
<1>2. QED
  BY <1>1, BrokerInitInv, PTL DEF BrokerSpec

\* Whatever is published, subscribed and dropped, a channel holds at most its
\* capacity, and only events that were published.
THEOREM BrokerTypes == BrokerSpec => []BrokerTypeOK
<1>1. BrokerInv => BrokerTypeOK
  BY DEF BrokerInv
<1>2. QED
  BY <1>1, BrokerAlways, PTL

\* No Publish sends on a channel that unsubscribe has closed.
THEOREM NeverSendsOnClosed == BrokerSpec => []NoSendOnClosed
<1>1. BrokerInv => NoSendOnClosed
  BY DEF BrokerInv
<1>2. QED
  BY <1>1, BrokerAlways, PTL

\* The broker with its bounded channels and non-blocking sends implements the lossy
\* feed: a client sees events of its own, in order and none twice.
THEOREM ImplementsFeed == BrokerSpec => FeedSpec
<1>1. BrokerInit => Feed!Init
  BY DEF BrokerInit, Feed!Init
<1>2. BrokerInv /\ [BrokerNext]_bvars => [Feed!Next]_(Feed!feed)
  BY BrokerStep
<1>3. QED
  BY <1>1, <1>2, BrokerAlways, PTL DEF BrokerSpec, FeedSpec, Feed!Spec

-----------------------------------------------------------------------------
(* The poller *)

Named == Owners \X Addresses

Typed ==
    /\ wallet \in [Owners -> Addresses \cup {None}]
    /\ linked \in [Owners -> BOOLEAN]
    /\ rows \in [Owners \X Payments -> Nat]
    /\ \A x \in Owners \X Payments : rows[x] <= MaxRows + 1
    /\ paid \subseteq Payments
    /\ poll \in Poll
    /\ restarts \in 0..MaxRestarts
    /\ had \in [Owners -> SUBSET Addresses]

\* What a poll works on was there when it listed the wallets and asked the pool,
\* and a payment is inserted from a response at most once.
Working ==
    /\ \A o \in Owners : wallet[o] # None => wallet[o] \in had[o]
    /\ \A q \in poll.todo : q[2] \in had[q[1]]
    /\ poll.at # None => poll.at[2] \in had[poll.at[1]]
    /\ poll.pays # {} \/ poll.pay # None => poll.at # None
    /\ \A p \in poll.pays :
          /\ p \in paid /\ AddrOf[p] = poll.at[2]
          /\ TxOf[p] = NoTx => \A o \in Owners : rows[<<o, p>>] < MaxRows

\* One row for a transaction, and one announcement, of the row that is there
Single ==
    /\ \A x, y \in Owners \X Payments :
          rows[x] > 0 /\ rows[y] > 0 /\ TxOf[x[2]] = TxOf[y[2]] /\ TxOf[x[2]] # NoTx =>
              x = y /\ rows[x] = 1
    /\ \A i \in 1..Len(log) :
          log[i].what \in Payments /\ rows[<<log[i].to, log[i].what>>] > 0
    /\ \A i, j \in 1..Len(log) :
          TxOf[log[i].what] = TxOf[log[j].what] /\ TxOf[log[i].what] # NoTx => i = j
    /\ poll.pay # None =>
          /\ rows[<<poll.at[1], poll.pay>>] > 0
          /\ TxOf[poll.pay] # NoTx =>
                \A i \in 1..Len(log) : TxOf[log[i].what] # TxOf[poll.pay]

PollInv == BrokerInv /\ Typed /\ Working /\ RowsAreReal /\ Single

LEMMA InitPoll == Init => PollInv
<1> SUFFICES ASSUME Init PROVE PollInv
  OBVIOUS
<1>1. BrokerInv
  BY BrokerInitInv DEF Init
<1>2. Typed
  BY PayoutsAssumption DEF Init, Typed, Poll, Resting
<1>3. Working /\ RowsAreReal
  BY DEF Init, Working, Resting, RowsAreReal
<1>4. Len(log) = 0
  BY EmptySeq DEF Init, BrokerInit
<1>5. Single
  BY <1>4 DEF Init, Single, Resting
<1>6. QED
  BY <1>1, <1>2, <1>3, <1>5 DEF PollInv

\* The pool pays and owners change their wallets: what a poll holds stays true.
LEMMA OutsideInv ==
    ASSUME PollInv,
           \/ \E p \in Payments : Pay(p)
           \/ \E o \in Owners, a \in Addresses : HandleCreateWallet(o, a)
           \/ \E o \in Owners : HandleDeleteWallet(o)
    PROVE  PollInv'
<1>1. UNCHANGED <<bvars, linked, rows, poll, restarts>>
  BY DEF Pay, HandleCreateWallet, HandleDeleteWallet
<1>2. BrokerInv'
  BY <1>1, BrokerSame DEF PollInv
<1>3. /\ Typed' /\ paid \subseteq paid' /\ \A o \in Owners : had[o] \subseteq had'[o]
      /\ \A o \in Owners : wallet'[o] # None => wallet'[o] \in had'[o]
  <2>1. ASSUME NEW p \in Payments, Pay(p)
        PROVE  paid' \subseteq Payments /\ paid \subseteq paid' /\ UNCHANGED <<wallet, had>>
    BY <2>1 DEF Pay, PollInv, Typed
  <2>2. ASSUME NEW o \in Owners, NEW a \in Addresses, HandleCreateWallet(o, a)
        PROVE  /\ wallet' \in [Owners -> Addresses \cup {None}] /\ had' \in [Owners -> SUBSET Addresses]
               /\ \A x \in Owners : had[x] \subseteq had'[x]
               /\ \A x \in Owners : wallet'[x] # None => wallet'[x] \in had'[x]
               /\ paid' = paid
    BY <2>2 DEF HandleCreateWallet, CreateWallet, PollInv, Typed, Working
  <2>3. ASSUME NEW o \in Owners, HandleDeleteWallet(o)
        PROVE  /\ wallet' \in [Owners -> Addresses \cup {None}]
               /\ \A x \in Owners : wallet'[x] # None => wallet'[x] \in had[x]
               /\ UNCHANGED <<paid, had>>
    BY <2>3 DEF HandleDeleteWallet, DeleteWallet, PollInv, Typed, Working
  <2>4. QED
    BY <1>1, <2>1, <2>2, <2>3 DEF PollInv, Typed, Working
<1>4. Working'
  <2>1. \A q \in poll.todo : q[1] \in Owners
    BY DEF PollInv, Typed, Poll
  <2>2. poll.at # None => poll.at[1] \in Owners
    BY DEF PollInv, Typed, Poll
  <2>3. QED
    BY <1>1, <1>3, <2>1, <2>2 DEF PollInv, Working
<1>5. RowsAreReal'
  BY <1>1, <1>3 DEF PollInv, RowsAreReal
<1>6. Single'
  BY <1>1 DEF PollInv, Single, bvars
<1>7. QED
  BY <1>2, <1>3, <1>4, <1>5, <1>6 DEF PollInv

\* A step of the poller that writes no table
LEMMA PollOnlyInv ==
    ASSUME PollInv, UNCHANGED <<bvars, wallet, linked, rows, paid, restarts, had>>,
           poll' \in Poll, poll'.pay = None,
           \A q \in poll'.todo : q[2] \in had[q[1]],
           poll'.at # None => poll'.at[2] \in had[poll'.at[1]],
           poll'.pays # {} => poll'.at # None,
           \A p \in poll'.pays :
              /\ p \in paid /\ AddrOf[p] = poll'.at[2]
              /\ TxOf[p] = NoTx => \A o \in Owners : rows[<<o, p>>] < MaxRows
    PROVE  PollInv'
<1>1. BrokerInv'
  BY BrokerSame DEF PollInv
<1>2. Typed'
  BY DEF PollInv, Typed
<1>3. Working'
  BY DEF PollInv, Working
<1>4. RowsAreReal'
  BY DEF PollInv, RowsAreReal
<1>5. Single'
  BY DEF PollInv, Single, bvars
<1>6. QED
  BY <1>1, <1>2, <1>3, <1>4, <1>5 DEF PollInv

LEMMA ReadInv ==
    ASSUME PollInv,
           \/ Once \/ Done
           \/ \E q \in Owners \X Addresses : Check(q) \/ CheckFails(q)
           \/ \E p \in Payments : Skip(p)
    PROVE  PollInv'
<1>1. /\ poll \in Poll /\ paid \subseteq Payments
      /\ wallet \in [Owners -> Addresses \cup {None}]
  BY DEF PollInv, Typed
<1>2. /\ \A q \in poll.todo : q[2] \in had[q[1]]
      /\ poll.at # None => poll.at[2] \in had[poll.at[1]]
      /\ poll.pays # {} => poll.at # None
      /\ \A p \in poll.pays :
            /\ p \in paid /\ AddrOf[p] = poll.at[2]
            /\ TxOf[p] = NoTx => \A o \in Owners : rows[<<o, p>>] < MaxRows
  BY DEF PollInv, Working
<1>3. CASE Once
  <2>1. WalletsWithPoolAPI \in SUBSET (Owners \X Addresses)
    BY <1>1 DEF WalletsWithPoolAPI
  <2>2. \A q \in WalletsWithPoolAPI : q[2] \in had[q[1]]
    BY DEF WalletsWithPoolAPI, PollInv, Working
  <2>3. /\ poll' \in Poll /\ poll'.pay = None /\ poll'.pays = {} /\ poll'.at = None
        /\ poll'.todo = WalletsWithPoolAPI
    BY <1>3, <2>1 DEF Once, Resting, Poll
  <2>4. QED
    BY <1>3, <2>2, <2>3, PollOnlyInv DEF Once
<1>4. CASE Done
  <2>1. /\ poll' \in Poll /\ poll'.pay = None /\ poll'.pays = {} /\ poll'.at = None /\ poll'.todo = {}
    BY <1>4 DEF Done, Resting, Poll
  <2>2. QED
    BY <1>4, <2>1, PollOnlyInv DEF Done
<1>5. ASSUME NEW q \in Owners \X Addresses, Check(q) PROVE PollInv'
  <2>1. q # None /\ q \in poll.todo
    BY <1>5, PayoutsAssumption DEF Check
  <2>2. \A p \in ExtractPayments(q[2]) :
           /\ p \in paid /\ AddrOf[p] = q[2]
           /\ TxOf[p] = NoTx => \A o \in Owners : rows[<<o, p>>] < MaxRows
    BY DEF ExtractPayments
  <2>3. ExtractPayments(q[2]) \subseteq Payments
    BY <1>1, <2>2
  <2> DEFINE X == ExtractPayments(q[2])
  <2>4. /\ poll' = [poll EXCEPT !.todo = @ \ {q}, !.at = q, !.pays = X] /\ poll.pay = None
        /\ UNCHANGED <<bvars, wallet, linked, rows, paid, restarts, had>>
    BY <1>5 DEF Check
  <2> HIDE DEF X
  <2>5. /\ poll' \in Poll /\ poll'.pay = None /\ poll'.at = q
        /\ poll'.pays = X /\ poll'.todo = poll.todo \ {q}
    BY <1>1, <2>3, <2>4 DEF Poll, X
  <2>6. q[2] \in had[q[1]]
    BY <1>2, <2>1
  <2>7. QED
    BY <1>2, <2>1, <2>2, <2>4, <2>5, <2>6, PollOnlyInv DEF X
<1>6. ASSUME NEW q \in Owners \X Addresses, CheckFails(q) PROVE PollInv'
  <2>1. /\ poll' \in Poll /\ poll'.pay = None /\ poll'.pays = {} /\ poll'.at = poll.at
        /\ poll'.todo = poll.todo \ {q}
    BY <1>1, <1>6 DEF CheckFails, Poll
  <2>2. QED
    BY <1>2, <1>6, <2>1, PollOnlyInv DEF CheckFails
<1>7. ASSUME NEW p \in Payments, Skip(p) PROVE PollInv'
  <2>1. /\ poll' \in Poll /\ poll'.pay = None /\ poll'.pays = poll.pays \ {p} /\ poll'.at = poll.at
        /\ poll'.todo = poll.todo
    BY <1>1, <1>7 DEF Skip, Poll
  <2>2. QED
    BY <1>2, <1>7, <2>1, PollOnlyInv DEF Skip
<1>8. QED
  BY <1>3, <1>4, <1>5, <1>6, <1>7

\* The INSERT, where a conflict is none: the row is the first of its transaction,
\* and nothing was announced of it.
LEMMA RecordInv ==
    ASSUME PollInv, NEW p \in Payments, Record(p)
    PROVE  PollInv'
<1>1. /\ p \in poll.pays /\ p \notin Worthless /\ poll.pay = None
      /\ UNCHANGED <<bvars, wallet, paid, restarts, had>>
      /\ InsertPayout(poll.at[1], poll.at[2], p)
  BY DEF Record
<1>2. /\ poll \in Poll /\ poll.at # None /\ poll.at \in Owners \X Addresses
      /\ poll.at[1] \in Owners /\ poll.at[2] \in Addresses
  BY <1>1 DEF PollInv, Typed, Working, Poll
<1>3. PICK o \in Owners, a \in Addresses : o = poll.at[1] /\ a = poll.at[2]
  BY <1>2
<1>4. p \in paid /\ AddrOf[p] = a /\ a \in had[o]
  BY <1>1, <1>2, <1>3 DEF PollInv, Working
<1>5. CASE Conflict(p)
  <2>1. poll' = [poll EXCEPT !.pays = @ \ {p}] /\ UNCHANGED <<rows, linked>>
    BY <1>1, <1>5 DEF InsertPayout
  <2>2. /\ poll' \in Poll /\ poll'.pay = None /\ poll'.pays = poll.pays \ {p} /\ poll'.at = poll.at
        /\ poll'.todo = poll.todo
    BY <1>1, <1>2, <2>1 DEF Poll
  <2>3. /\ \A q \in poll.todo : q[2] \in had[q[1]]
        /\ poll.at[2] \in had[poll.at[1]]
        /\ \A r \in poll.pays :
              /\ r \in paid /\ AddrOf[r] = poll.at[2]
              /\ TxOf[r] = NoTx => \A x \in Owners : rows[<<x, r>>] < MaxRows
    BY <1>2 DEF PollInv, Working
  <2>4. QED
    BY <1>1, <1>2, <2>1, <2>2, <2>3, PollOnlyInv
<1>6. CASE ~Conflict(p)
  <2> DEFINE z == <<o, p>>
  <2>1. /\ rows' = [rows EXCEPT ![z] = @ + 1] /\ z \in Owners \X Payments
        /\ linked' = [linked EXCEPT ![o] = @ \/ wallet[o] = a]
        /\ poll' = [poll EXCEPT !.pays = @ \ {p}, !.pay = p]
    BY <1>1, <1>3, <1>6 DEF InsertPayout
  <2>2. /\ poll' \in Poll /\ poll'.pay = p /\ poll'.pays = poll.pays \ {p} /\ poll'.at = poll.at
        /\ poll'.todo = poll.todo
    BY <1>1, <1>2, <2>1 DEF Poll
  <2>3. z[1] = o /\ z[2] = p /\ \A x \in Owners \X Payments : x[2] # p => x # z
    OBVIOUS
  <2> HIDE DEF z
  <2>4. /\ rows[z] \in Nat /\ rows'[z] = rows[z] + 1 /\ rows' \in [Owners \X Payments -> Nat]
        /\ \A x \in Owners \X Payments : x # z => rows'[x] = rows[x]
        /\ \A x \in Owners \X Payments : rows[x] \in Nat
    BY <2>1 DEF PollInv, Typed
  <2>5. TxOf[p] # NoTx => \A x \in Owners \X Payments : TxOf[x[2]] = TxOf[p] => rows[x] = 0
    BY <1>6, <2>4 DEF Conflict
  <2>6. BrokerInv'
    BY <1>1, BrokerSame DEF PollInv
  <2>7. Typed'
    <3>1. rows[z] = 0 \/ rows[z] < MaxRows
      BY <1>1, <2>1, <2>3, <2>5 DEF PollInv, Working, z
    <3>2. rows'[z] <= MaxRows + 1
      BY <2>4, <3>1, PayoutsAssumption
    <3>3. \A x \in Owners \X Payments : rows'[x] <= MaxRows + 1
      BY <2>4, <3>2 DEF PollInv, Typed
    <3>4. linked' \in [Owners -> BOOLEAN]
      BY <2>1 DEF PollInv, Typed
    <3>5. QED
      BY <1>1, <2>2, <2>4, <3>3, <3>4 DEF PollInv, Typed
  <2>8. Working'
    <3>1. ASSUME NEW r \in poll.pays, r # p, NEW x \in Owners
          PROVE  rows'[<<x, r>>] = rows[<<x, r>>]
      <4>1. r \in Payments
        BY <1>2 DEF Poll
      <4>2. <<x, r>> # z /\ <<x, r>> \in Owners \X Payments
        BY <3>1, <4>1 DEF z
      <4>3. QED
        BY <2>4, <4>2
    <3>2. QED
      BY <1>1, <1>2, <2>2, <3>1 DEF PollInv, Working
  <2>9. RowsAreReal'
    <3> SUFFICES ASSUME NEW x \in Owners, NEW r \in Payments, rows'[<<x, r>>] > 0
                 PROVE  r \in paid \ Worthless /\ AddrOf[r] \in had[x]
      BY <1>1 DEF RowsAreReal
    <3>1. CASE <<x, r>> = z
      BY <1>1, <1>4, <3>1 DEF z
    <3>2. CASE <<x, r>> # z
      BY <2>4, <3>2 DEF PollInv, RowsAreReal
    <3>3. QED
      BY <3>1, <3>2
  <2>10. Single'
    <3>1. ASSUME NEW x \in Owners \X Payments, NEW y \in Owners \X Payments,
                 rows'[x] > 0, rows'[y] > 0, TxOf[x[2]] = TxOf[y[2]], TxOf[x[2]] # NoTx
          PROVE  x = y /\ rows'[x] = 1
      <4>1. CASE x = z
        BY <2>1, <2>3, <2>4, <2>5, <3>1, <4>1
      <4>2. CASE y = z
        BY <2>1, <2>3, <2>4, <2>5, <3>1, <4>2
      <4>3. CASE x # z /\ y # z
        BY <2>4, <3>1, <4>3 DEF PollInv, Single
      <4>4. QED
        BY <4>1, <4>2, <4>3
    <3>2. ASSUME NEW i \in 1..Len(log)
          PROVE  /\ log[i].what \in Payments /\ rows'[<<log[i].to, log[i].what>>] > 0
                 /\ TxOf[p] # NoTx => TxOf[log[i].what] # TxOf[p]
      <4>1. log[i].what \in Payments /\ rows[<<log[i].to, log[i].what>>] > 0
        BY DEF PollInv, Single
      <4>2. log[i].to \in Owners
        <5>1. log \in Seq([to : Owners, what : Events])
          BY DEF PollInv, BrokerInv, BrokerTypeOK
        <5>2. log[i] \in [to : Owners, what : Events]
          BY <5>1, ElementOfSeq
        <5>3. QED
          BY <5>2
      <4>3. PICK x \in Owners \X Payments : x = <<log[i].to, log[i].what>> /\ x[2] = log[i].what
        BY <4>1, <4>2
      <4>4. rows[x] > 0
        BY <4>1, <4>3
      <4>5. rows'[x] > 0 /\ (TxOf[p] # NoTx => TxOf[x[2]] # TxOf[p])
        BY <2>1, <2>4, <2>5, <4>4
      <4>6. QED
        BY <4>1, <4>3, <4>5
    <3>3. rows'[<<poll'.at[1], poll'.pay>>] > 0
      BY <1>3, <2>2, <2>4 DEF z
    <3>4. QED
      BY <1>1, <2>2, <3>1, <3>2, <3>3 DEF PollInv, Single, bvars
  <2>11. QED
    BY <2>6, <2>7, <2>8, <2>9, <2>10 DEF PollInv
<1>7. QED
  BY <1>5, <1>6

LEMMA AnnounceInv ==
    ASSUME PollInv, Announce
    PROVE  PollInv' /\ Feed!Next
<1>1. /\ poll.pay # None /\ poll' = [poll EXCEPT !.pay = None]
      /\ Publish(poll.at[1], poll.pay)
      /\ UNCHANGED <<wallet, linked, rows, paid, restarts, had>>
  BY DEF Announce
<1>2. /\ poll \in Poll /\ poll.at # None /\ poll.at \in Owners \X Addresses
      /\ poll.at[1] \in Owners /\ poll.pay \in Payments
  BY <1>1 DEF PollInv, Typed, Working, Poll
<1>3. PICK o \in Owners, p \in Payments : o = poll.at[1] /\ p = poll.pay
  BY <1>2
<1>4. p \in Events /\ Publish(o, p)
  BY <1>1, <1>3, PayoutsAssumption DEF Publish
<1>5. BrokerInv' /\ Feed!Next
  BY <1>4, PublishInv, PublishFeed DEF PollInv
<1>6. /\ poll' \in Poll /\ poll'.pay = None /\ poll'.pays = poll.pays /\ poll'.at = poll.at
      /\ poll'.todo = poll.todo
  BY <1>1, <1>2 DEF Poll
<1>7. Typed' /\ Working' /\ RowsAreReal'
  BY <1>1, <1>6 DEF PollInv, Typed, Working, RowsAreReal
<1>8. Single'
  <2>1. log \in Seq(Message) /\ Len(log) \in Nat /\ [to |-> o, what |-> p] \in Message
    BY <1>4, LenProperties DEF PollInv, BrokerInv, BrokerTypeOK, Message
  <2>2. /\ Len(log') = Len(log) + 1
        /\ \A i \in 1..Len(log) : log'[i] = log[i]
        /\ log'[Len(log) + 1].to = o /\ log'[Len(log) + 1].what = p
    BY <1>4, <2>1, AppendProperties DEF Publish
  <2>3. /\ rows[<<o, p>>] > 0
        /\ TxOf[p] # NoTx => \A i \in 1..Len(log) : TxOf[log[i].what] # TxOf[p]
    BY <1>1, <1>3 DEF PollInv, Single
  <2>4. \A i \in 1..Len(log') : i \in 1..Len(log) \/ i = Len(log) + 1
    BY <2>1, <2>2
  <2>5. ASSUME NEW i \in 1..Len(log')
        PROVE  log'[i].what \in Payments /\ rows[<<log'[i].to, log'[i].what>>] > 0
    <3>1. CASE i \in 1..Len(log)
      BY <2>2, <3>1 DEF PollInv, Single
    <3>2. CASE i = Len(log) + 1
      BY <2>2, <2>3, <3>2
    <3>3. QED
      BY <2>4, <3>1, <3>2
  <2>6. ASSUME NEW i \in 1..Len(log'), NEW j \in 1..Len(log'),
               TxOf[log'[i].what] = TxOf[log'[j].what], TxOf[log'[i].what] # NoTx
        PROVE  i = j
    <3>1. CASE i \in 1..Len(log) /\ j \in 1..Len(log)
      BY <2>2, <2>6, <3>1 DEF PollInv, Single
    <3>2. CASE i \in 1..Len(log) /\ j = Len(log) + 1
      BY <2>2, <2>3, <2>6, <3>2
    <3>3. CASE i = Len(log) + 1 /\ j \in 1..Len(log)
      BY <2>2, <2>3, <2>6, <3>3
    <3>4. QED
      BY <2>4, <3>1, <3>2, <3>3
  <2>7. \A x, y \in Owners \X Payments :
           rows[x] > 0 /\ rows[y] > 0 /\ TxOf[x[2]] = TxOf[y[2]] /\ TxOf[x[2]] # NoTx => x = y /\ rows[x] = 1
    BY DEF PollInv, Single
  <2>8. QED
    BY <1>1, <1>6, <2>5, <2>6, <2>7 DEF Single
<1>9. QED
  BY <1>5, <1>7, <1>8 DEF PollInv

\* The end of the process forgets the poll, and a payment that was inserted and not
\* announced is announced never.
LEMMA RestartPollInv == ASSUME PollInv, Restart PROVE PollInv'
<1>1. /\ poll' = Resting /\ restarts' = restarts + 1 /\ restarts < MaxRestarts
      /\ BrokerRestart /\ UNCHANGED <<wallet, linked, rows, paid, had>>
  BY DEF Restart
<1>2. BrokerInv' /\ log' = log
  BY <1>1, RestartInv DEF PollInv, BrokerRestart
<1>3. Typed'
  <2>1. restarts' \in 0..MaxRestarts
    BY <1>1, PayoutsAssumption DEF PollInv, Typed
  <2>2. Resting \in Poll
    BY DEF Resting, Poll
  <2>3. QED
    BY <1>1, <2>1, <2>2 DEF PollInv, Typed
<1>4. Working' /\ RowsAreReal' /\ Single'
  BY <1>1, <1>2 DEF PollInv, Working, RowsAreReal, Single, Resting
<1>5. QED
  BY <1>2, <1>3, <1>4 DEF PollInv

LEMMA ServePollInv ==
    ASSUME PollInv, NEW s \in Streams, Serve(s), UNCHANGED pvars
    PROVE  PollInv'
<1>1. BrokerInv' /\ log' = log
  BY ServeInv DEF PollInv, Serve, Subscribe, Send, ClientLeaves, Unsubscribe
<1>2. Typed' /\ Working' /\ RowsAreReal' /\ Single'
  BY <1>1 DEF PollInv, Typed, Working, RowsAreReal, Single, pvars
<1>3. QED
  BY <1>1, <1>2 DEF PollInv

LEMMA NextPoll == PollInv /\ [Next]_vars => PollInv' /\ [Feed!Next]_(Feed!feed)
<1> SUFFICES ASSUME PollInv, [Next]_vars
             PROVE  PollInv' /\ (Feed!Next \/ UNCHANGED <<log, Live, mark>>)
  BY DEF Feed!feed, Live
<1>1. ASSUME UNCHANGED bvars PROVE UNCHANGED <<log, Live, mark>>
  BY <1>1 DEF bvars, Live
<1>2. CASE \/ \E p \in Payments : Pay(p)
           \/ \E o \in Owners, a \in Addresses : HandleCreateWallet(o, a)
           \/ \E o \in Owners : HandleDeleteWallet(o)
  BY <1>1, <1>2, OutsideInv DEF Pay, HandleCreateWallet, HandleDeleteWallet
<1>3. CASE \/ Once \/ Done
           \/ \E q \in Owners \X Addresses : Check(q) \/ CheckFails(q)
           \/ \E p \in Payments : Skip(p)
  BY <1>1, <1>3, ReadInv DEF Once, Done, Check, CheckFails, Skip
<1>4. ASSUME NEW p \in Payments, Record(p)
      PROVE  PollInv' /\ UNCHANGED <<log, Live, mark>>
  BY <1>1, <1>4, RecordInv DEF Record
<1>5. CASE Announce
  BY <1>5, AnnounceInv
<1>6. ASSUME NEW s \in Streams, Serve(s), UNCHANGED pvars
      PROVE  PollInv' /\ (Feed!Next \/ UNCHANGED <<log, Live, mark>>)
  BY <1>6, ServePollInv, ServeFeed DEF PollInv
<1>7. CASE Restart
  BY <1>7, RestartPollInv, RestartFeed DEF PollInv, Restart
<1>8. CASE UNCHANGED vars
  <2>1. BrokerInv' /\ log' = log
    BY <1>8, BrokerSame DEF PollInv, vars, bvars
  <2>2. PollInv'
    BY <1>8, <2>1 DEF PollInv, Typed, Working, RowsAreReal, Single, vars, pvars
  <2>3. QED
    BY <1>1, <1>8, <2>2 DEF vars
<1>9. QED
  BY <1>2, <1>3, <1>4, <1>5, <1>6, <1>7, <1>8 DEF Next

LEMMA PollAlways == Spec => []PollInv
<1>1. PollInv /\ [Next]_vars => PollInv'
  BY NextPoll
<1>2. QED
  BY <1>1, InitPoll, PTL DEF Spec

-----------------------------------------------------------------------------
(* Theorems *)

\* Every state of poller, tables and broker is well typed, whatever fails, changes or
\* restarts during a poll.
THEOREM TypeCorrect == Spec => []TypeOK
<1>1. PollInv => TypeOK
  <2> SUFFICES ASSUME PollInv PROVE TypeOK
    OBVIOUS
  <2>1. rows \in [Owners \X Payments -> 0..MaxRows + 1]
    BY PayoutsAssumption DEF PollInv, Typed
  <2>2. QED
    BY <2>1 DEF PollInv, Typed, TypeOK, BrokerInv
<1>2. QED
  BY <1>1, PollAlways, PTL

\* "Never fabricate a row" (poller.go), over wallets that change during a poll,
\* failures and restarts.
THEOREM NothingFabricated == Spec => []RowsAreReal
<1>1. PollInv => RowsAreReal
  BY DEF PollInv
<1>2. QED
  BY <1>1, PollAlways, PTL

\* What the invariant says of one transaction, in the words of the property
LEMMA SingleMeansOnce == PollInv => OncePerTransaction
<1> SUFFICES ASSUME PollInv, NEW p \in Payments, TxOf[p] # NoTx
             PROVE  LET same == {r \in Payments : TxOf[r] = TxOf[p]}
                        at   == {x \in Owners \X same : rows[x] > 0}
                    IN  /\ Cardinality(at) <= 1 /\ \A x \in at : rows[x] = 1
                        /\ Cardinality(UNION {Announced(r) : r \in same}) <= Cardinality(at)
                        /\ \A r \in same : \A i \in Announced(r) : <<log[i].to, r>> \in at
  BY DEF OncePerTransaction
<1> DEFINE same == {r \in Payments : TxOf[r] = TxOf[p]}
           at   == {x \in Owners \X same : rows[x] > 0}
           told == UNION {Announced(r) : r \in same}
<1>1. \A x, y \in at : x = y /\ rows[x] = 1
  <2> TAKE x \in at, y \in at
  <2>1. /\ x \in Owners \X Payments /\ y \in Owners \X Payments
        /\ TxOf[x[2]] = TxOf[p] /\ TxOf[y[2]] = TxOf[p] /\ rows[x] > 0 /\ rows[y] > 0
    OBVIOUS
  <2>2. QED
    BY <2>1 DEF PollInv, Single
<1>2. ASSUME NEW r \in same, NEW i \in Announced(r) PROVE <<log[i].to, r>> \in at
  <2>1. i \in 1..Len(log) /\ log[i].what = r
    BY DEF Announced
  <2>2. rows[<<log[i].to, r>>] > 0
    BY <2>1 DEF PollInv, Single
  <2>3. log \in Seq([to : Owners, what : Events])
    BY DEF PollInv, BrokerInv, BrokerTypeOK
  <2>4. log[i] \in [to : Owners, what : Events]
    BY <2>1, <2>3, ElementOfSeq
  <2>5. QED
    BY <2>2, <2>4
<1>3. \A i, j \in told : i = j
  <2> TAKE i \in told, j \in told
  <2>1. PICK r \in same, q \in same : i \in Announced(r) /\ j \in Announced(q)
    OBVIOUS
  <2>2. /\ i \in 1..Len(log) /\ log[i].what = r /\ j \in 1..Len(log) /\ log[j].what = q
        /\ TxOf[r] = TxOf[p] /\ TxOf[q] = TxOf[p]
    BY <2>1 DEF Announced
  <2>3. QED
    BY <2>2 DEF PollInv, Single
<1>4. told # {} => at # {}
  BY <1>2
<1> HIDE DEF at, told, same
<1>5. at = {} \/ \E x : at = {x}
  <2>1. ASSUME at # {} PROVE \E x : at = {x}
    <3>1. PICK x : x \in at
      BY <2>1
    <3>2. at = {x}
      BY <1>1, <3>1
    <3>3. QED
      BY <3>2
  <2>2. QED
    BY <2>1
<1>6. told = {} \/ \E i : told = {i}
  <2>1. ASSUME told # {} PROVE \E i : told = {i}
    <3>1. PICK i : i \in told
      BY <2>1
    <3>2. told = {i}
      BY <1>3, <3>1
    <3>3. QED
      BY <3>2
  <2>2. QED
    BY <2>1
<1>7. /\ at = {} => Cardinality(at) = 0
      /\ at # {} => Cardinality(at) = 1
  BY <1>5, FS_EmptySet, FS_Singleton
<1>8. /\ told = {} => Cardinality(told) = 0
      /\ told # {} => Cardinality(told) = 1
  BY <1>6, FS_EmptySet, FS_Singleton
<1>9. Cardinality(at) <= 1 /\ Cardinality(told) <= Cardinality(at)
  BY <1>4, <1>7, <1>8
<1>10. QED
  BY <1>1, <1>2, <1>9 DEF at, told, same

\* UNIQUE(currency_id, txid), and an announcement only after an INSERT that inserted:
\* a transaction has one row and at most one announcement, to the owner of the row.
THEOREM RecordedOnce == Spec => []OncePerTransaction
BY SingleMeansOnce, PollAlways, PTL

\* The broker keeps the promise of its feed behind the poller as well, with the
\* process restarting under it.
THEOREM PayoutsFeed == Spec => FeedSpec
<1>1. Init => Feed!Init
  BY DEF Init, BrokerInit, Feed!Init
<1>2. PollInv /\ [Next]_vars => [Feed!Next]_(Feed!feed)
  BY NextPoll
<1>3. QED
  BY <1>1, <1>2, PollAlways, PTL DEF Spec, FeedSpec, Feed!Spec

=============================================================================
