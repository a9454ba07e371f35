----------------------------- MODULE EventBroker -----------------------------
(***************************************************************************)
(* The broker behind GET /v1/events and the handler that drains one        *)
(* channel into one response.  Broker.mu makes Subscribe, Publish and the  *)
(* removal in unsubscribe atomic; close(ch) comes after the unlock.        *)
(*                                                                         *)
(* An event is known by its number in the log of what was published, so a  *)
(* channel holds numbers.  The 5 s metrics_tick and the 25 s ping do not   *)
(* go through the broker and are left out.                                 *)
(***************************************************************************)
EXTENDS Naturals, Sequences, FiniteSets

CONSTANTS
    Owners,
    Streams,    \* requests to /v1/events, each with a channel of its own
    ClientOf,   \* the user (sub of the token) that makes the request
    Events,
    MaxConns,   \* maxConnsPerUser
    Buffer,     \* capacity of a channel
    MaxEvents   \* bound: events published

ASSUME BrokerAssumption ==
    /\ ClientOf \in [Streams -> Owners]
    /\ MaxConns \in Nat \ {0} /\ Buffer \in Nat \ {0} /\ MaxEvents \in Nat

VARIABLES
    subs,     \* Broker.subs: owner -> channels
    stream,   \* where the handler of a request is
    chan,     \* contents of the channel
    log,      \* history: everything published
    mark      \* history: number of the last event the client was sent, or of the
              \* last one published before it subscribed

bvars == <<subs, stream, chan, log, mark>>

\* "gone": the request context is done, the handler has not returned yet;
\* "removed": unsubscribe has unlocked and not yet closed the channel
Phase == {"new", "refused", "streaming", "gone", "removed", "closed"}

BrokerTypeOK ==
    /\ subs \in [Owners -> SUBSET Streams]
    /\ stream \in [Streams -> Phase]
    /\ log \in Seq([to : Owners, what : Events])
    /\ chan \in [Streams -> Seq(1..Len(log))]
    /\ \A s \in Streams : Len(chan[s]) <= Buffer
    /\ mark \in [Streams -> 0..Len(log)]

BrokerInit ==
    /\ subs = [o \in Owners |-> {}]
    /\ stream = [s \in Streams |-> "new"]
    /\ chan = [s \in Streams |-> <<>>]
    /\ log = <<>>
    /\ mark = [s \in Streams |-> 0]

-----------------------------------------------------------------------------
Subscribe(s) ==
    LET o == ClientOf[s] IN
    /\ stream[s] = "new"
    /\ \/ /\ Cardinality(subs[o]) >= MaxConns
          /\ stream' = [stream EXCEPT ![s] = "refused"]
          /\ UNCHANGED <<subs, mark>>
       \/ /\ Cardinality(subs[o]) < MaxConns
          /\ subs' = [subs EXCEPT ![o] = @ \cup {s}]
          /\ stream' = [stream EXCEPT ![s] = "streaming"]
          /\ mark' = [mark EXCEPT ![s] = Len(log)]
    /\ UNCHANGED <<chan, log>>

\* (mutant) a send waits for no place
PublishUnbounded(o, e) ==
    /\ log' = Append(log, [to |-> o, what |-> e])
    /\ chan' = [s \in Streams |-> IF s \in subs[o] THEN Append(chan[s], Len(log) + 1) ELSE chan[s]]
    /\ UNCHANGED <<subs, stream, mark>>

\* (mutant) every subscriber is served, whoever the event is for
PublishToAll(o, e) ==
    /\ log' = Append(log, [to |-> o, what |-> e])
    /\ chan' = [s \in Streams |-> IF s \in UNION {subs[x] : x \in Owners} /\ Len(chan[s]) < Buffer
                                  THEN Append(chan[s], Len(log) + 1) ELSE chan[s]]
    /\ UNCHANGED <<subs, stream, mark>>

\* Non-blocking sends: a full channel does not get the event.
Publish(o, e) ==
    /\ log' = Append(log, [to |-> o, what |-> e])
    /\ chan' = [s \in Streams |-> IF s \in subs[o] /\ Len(chan[s]) < Buffer
                                  THEN Append(chan[s], Len(log) + 1) ELSE chan[s]]
    /\ UNCHANGED <<subs, stream, mark>>

\* The handler writes the next event.  When the request is done as well, select
\* may still take this branch.
Send(s) ==
    /\ stream[s] \in {"streaming", "gone"} /\ chan[s] # <<>>
    /\ mark' = [mark EXCEPT ![s] = Head(chan[s])]
    /\ chan' = [chan EXCEPT ![s] = Tail(@)]
    /\ UNCHANGED <<subs, stream, log>>

ClientLeaves(s) ==
    /\ stream[s] = "streaming"
    /\ stream' = [stream EXCEPT ![s] = "gone"]
    /\ UNCHANGED <<subs, chan, log, mark>>

\* (mutant) the channel is closed before it is taken out of the map
CloseFirst(s) ==
    /\ \/ /\ stream[s] = "gone" /\ stream' = [stream EXCEPT ![s] = "closed"] /\ UNCHANGED subs
       \/ /\ stream[s] = "closed" /\ subs' = [subs EXCEPT ![ClientOf[s]] = @ \ {s}] /\ UNCHANGED stream
    /\ UNCHANGED <<chan, log, mark>>

\* (mutant) the select has no case for the end of the request
NeverNotices(s) ==
    /\ stream[s] = "removed"
    /\ stream' = [stream EXCEPT ![s] = "closed"]
    /\ UNCHANGED <<subs, chan, log, mark>>

\* The deferred unsubscribe: out of the map under the lock, then close(ch).
Unsubscribe(s) ==
    /\ \/ /\ stream[s] = "gone"
          /\ stream' = [stream EXCEPT ![s] = "removed"]
          /\ subs' = [subs EXCEPT ![ClientOf[s]] = @ \ {s}]
       \/ /\ stream[s] = "removed"
          /\ stream' = [stream EXCEPT ![s] = "closed"]
          /\ UNCHANGED subs
    /\ UNCHANGED <<chan, log, mark>>

\* The process ends: every channel and every response with it.
BrokerRestart ==
    /\ subs' = [o \in Owners |-> {}]
    /\ stream' = [s \in Streams |-> IF stream[s] \in {"streaming", "gone", "removed"} THEN "closed" ELSE stream[s]]
    /\ chan' = [s \in Streams |-> <<>>]
    /\ UNCHANGED <<log, mark>>

Serve(s) == Subscribe(s) \/ Send(s) \/ ClientLeaves(s) \/ Unsubscribe(s)

\* The broker by itself: the hub, the handlers and the poller publish what they like.
BrokerNext ==
    \/ \E s \in Streams : Serve(s)
    \/ \E o \in Owners, e \in Events : Len(log) < MaxEvents /\ Publish(o, e)
    \/ BrokerRestart

\* select picks every ready branch at some time, and unsubscribe runs to its end.
BrokerSpec ==
    BrokerInit /\ [][BrokerNext]_bvars /\ \A s \in Streams : WF_bvars(Unsubscribe(s))

-----------------------------------------------------------------------------
(* Properties *)

\* Publish never sends on a closed channel, which would panic the goroutine
\* that publishes: a channel in the map is open (events.go, unsubscribe).
NoSendOnClosed ==
    \A o \in Owners : \A s \in subs[o] : stream[s] \in {"streaming", "gone"} /\ ClientOf[s] = o

\* A client that went away gives its place among the MaxConns back, also when
\* events keep arriving for it.
GoneFreesPlace == \A s \in Streams : stream[s] = "gone" ~> s \notin subs[ClientOf[s]]

\* The broker implements the feed: what a client is sent are events of its own
\* owner, each at most once and in order, though a slow one misses some.
Feed == INSTANCE LossyFeed WITH live <- {s \in Streams : stream[s] \in {"streaming", "gone"}}
FeedSpec == Feed!Spec

=============================================================================
