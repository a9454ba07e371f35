------------------------------ MODULE LossyFeed ------------------------------
(***************************************************************************)
(* What an event stream promises its reader.  Events are published to      *)
(* owners, one after the other.  An open stream shows events of its own    *)
(* owner, published after it was opened, in their order and none twice; it *)
(* may leave events out.  A stream that has ended shows nothing more.      *)
(***************************************************************************)
EXTENDS Naturals, Sequences

CONSTANTS Owners, Streams, ClientOf, Events

VARIABLES
    log,    \* all events published so far, with the owner they are for
    live,   \* the streams that are open
    mark    \* how far into the log a stream has come

feed == <<log, live, mark>>

Init ==
    /\ log = <<>>
    /\ live = {}
    /\ mark = [s \in Streams |-> 0]

Publish ==
    /\ \E o \in Owners, e \in Events : log' = Append(log, [to |-> o, what |-> e])
    /\ UNCHANGED <<live, mark>>

Open(s) ==
    /\ s \notin live
    /\ live' = live \cup {s}
    /\ mark' = [mark EXCEPT ![s] = Len(log)]
    /\ UNCHANGED log

Show(s) ==
    /\ s \in live
    /\ \E i \in mark[s] + 1 .. Len(log) :
          /\ log[i].to = ClientOf[s]
          /\ mark' = [mark EXCEPT ![s] = i]
    /\ UNCHANGED <<log, live>>

End ==
    /\ \E S \in SUBSET live : live' = live \ S
    /\ UNCHANGED <<log, mark>>

Next == Publish \/ End \/ \E s \in Streams : Open(s) \/ Show(s)

Spec == Init /\ [][Next]_feed

=============================================================================
