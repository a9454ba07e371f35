------------------------------ MODULE Presence ------------------------------
(***************************************************************************)
(* Whether a worker is there: the status column of its row, its entry in   *)
(* the hub (h.conns and h.live are written together, hence one variable),  *)
(* the goroutines that serve and supervise its connections, assignment and *)
(* revocation.  One worker; its connections overlap, because the master    *)
(* may notice late that one has ended.                                     *)
(***************************************************************************)
EXTENDS Naturals, FiniteSets

CONSTANTS Conns, None

ASSUME PresenceAssumption == None \notin Conns

VARIABLES
    row,      \* workers: status, and whether revoked_at is set
    entry,    \* the connection in h.conns, and whether LastMsg is older than HeartbeatWindow
    serve,    \* HandleWS, by connection
    watch,    \* supervise, by connection
    sock,     \* the connection as the master has it
    peer,     \* is the worker still at the other end?
    job,      \* a job of the worker: "none", "sent", "ended"
    assign,   \* an Assign that has sent the job and not yet written the status
    revoke    \* RevokeWorker: where it is, and the connection it found

vars == <<row, entry, serve, watch, sock, peer, job, assign, revoke>>

Status == {"enrolled", "connected", "assigned", "mining", "offline", "revoked"}
ServePC == {"new", "accepted", "registered", "reading", "ack", "closing", "leaving", "done"}
RevokePC == {"idle", "flagged", "ended", "found", "failed", "done"}

\* A revoked row keeps its status: nothing that a goroutine writes late undoes it.
TypeOK ==
    /\ row \in [status : Status, revoked : BOOLEAN]
    /\ row.revoked <=> row.status = "revoked"
    /\ entry \in [conn : Conns \cup {None}, quiet : BOOLEAN]
    /\ serve \in [Conns -> ServePC]
    /\ watch \in [Conns -> {"none", "ticking", "ping", "done"}]
    /\ sock \in [Conns -> {"open", "closed"}]
    /\ peer \in [Conns -> BOOLEAN]
    /\ job \in {"none", "sent", "ended"}
    /\ assign \in BOOLEAN
    /\ revoke \in [pc : RevokePC, conn : Conns \cup {None}]

NoEntry == [conn |-> None, quiet |-> FALSE]

Init ==
    /\ row = [status |-> "enrolled", revoked |-> FALSE]
    /\ entry = NoEntry
    /\ serve = [c \in Conns |-> "new"]
    /\ watch = [c \in Conns |-> "none"]
    /\ sock = [c \in Conns |-> "open"]
    /\ peer = [c \in Conns |-> TRUE]
    /\ job = "none" /\ assign = FALSE
    /\ revoke = [pc |-> "idle", conn |-> None]

-----------------------------------------------------------------------------
(* Store *)

\* (mutant) the UPDATE does not spare a revoked worker
SetAnyStatus(s) == row' = [row EXCEPT !.status = s]

SetWorkerStatus(s) == row' = IF row.status = "revoked" THEN row ELSE [row EXCEPT !.status = s]

-----------------------------------------------------------------------------
(* The worker's end *)

\* The session of the worker is over, and the master learns of it, or does not.
PeerLeaves(c) ==
    /\ serve[c] # "new" /\ peer[c]
    /\ peer' = [peer EXCEPT ![c] = FALSE]
    /\ \/ sock' = [sock EXCEPT ![c] = "closed"]
       \/ UNCHANGED sock
    /\ UNCHANGED <<row, entry, serve, watch, job, assign, revoke>>

\* The worker runs one session after the other.  AuthenticateWorker looks at revoked_at.
AuthenticateWorker(c) ==
    /\ serve[c] = "new" /\ ~row.revoked
    /\ \A d \in Conns : serve[d] # "new" => ~peer[d]
    /\ serve' = [serve EXCEPT ![c] = "accepted"]
    /\ UNCHANGED <<row, entry, watch, sock, peer, job, assign, revoke>>

-----------------------------------------------------------------------------
(* HandleWS *)

\* register closes the connection it replaces.
Register(c) ==
    /\ serve[c] = "accepted"
    /\ sock' = [d \in Conns |-> IF d = entry.conn THEN "closed" ELSE sock[d]]
    /\ entry' = [conn |-> c, quiet |-> FALSE]
    /\ serve' = [serve EXCEPT ![c] = "registered"]
    /\ UNCHANGED <<row, watch, peer, job, assign, revoke>>

\* The status, AssignQueued (see Assign), and the supervisor
Connected(c) ==
    /\ serve[c] = "registered"
    /\ SetWorkerStatus("connected")
    /\ serve' = [serve EXCEPT ![c] = "reading"]
    /\ watch' = [watch EXCEPT ![c] = "ticking"]
    /\ UNCHANGED <<entry, sock, peer, job, assign, revoke>>

\* touch, for the entry of the worker, whichever connection it belongs to
Touch == entry' = [entry EXCEPT !.quiet = FALSE]

\* A message arrives; an ack of an active job makes the worker "mining".
Receive(c) ==
    /\ serve[c] = "reading" /\ sock[c] = "open" /\ peer[c]
    /\ Touch
    /\ \/ UNCHANGED serve
       \/ job = "sent" /\ serve' = [serve EXCEPT ![c] = "ack"]
    /\ UNCHANGED <<row, watch, sock, peer, job, assign, revoke>>

HandleAck(c) ==
    /\ serve[c] = "ack"
    /\ SetWorkerStatus("mining")
    /\ serve' = [serve EXCEPT ![c] = "reading"]
    /\ UNCHANGED <<entry, watch, sock, peer, job, assign, revoke>>

\* Read fails: close(done) and conn.Close are the first of the deferred calls.
ReadFails(c) ==
    /\ serve[c] = "reading" /\ sock[c] = "closed"
    /\ serve' = [serve EXCEPT ![c] = "closing"]
    /\ UNCHANGED <<row, entry, watch, sock, peer, job, assign, revoke>>

\* unregister removes the entry of the worker, whichever connection it belongs to, ...
Unregister(c) ==
    /\ serve[c] = "closing"
    /\ entry' = NoEntry
    /\ serve' = [serve EXCEPT ![c] = "leaving"]
    /\ UNCHANGED <<row, watch, sock, peer, job, assign, revoke>>

\* ... and then writes the status.
Offline(c) ==
    /\ serve[c] = "leaving"
    /\ SetWorkerStatus("offline")
    /\ serve' = [serve EXCEPT ![c] = "done"]
    /\ UNCHANGED <<entry, watch, sock, peer, job, assign, revoke>>

ServeStep(c) ==
    Register(c) \/ Connected(c) \/ HandleAck(c) \/ ReadFails(c) \/ Unregister(c) \/ Offline(c)

-----------------------------------------------------------------------------
(* supervise *)

\* 45 s without a message; a worker without a job sends none.
Silence ==
    /\ entry.conn # None /\ ~entry.quiet
    /\ entry' = [entry EXCEPT !.quiet = TRUE]
    /\ UNCHANGED <<row, serve, watch, sock, peer, job, assign, revoke>>

\* A tick, or done: the supervisor ends with its HandleWS and when the worker has no
\* entry, and pings when the entry is quiet.
Supervise(c) ==
    /\ watch[c] = "ticking"
    /\ \/ /\ serve[c] \in {"closing", "leaving", "done"} \/ entry.conn = None
          /\ watch' = [watch EXCEPT ![c] = "done"]
       \/ /\ entry.conn # None /\ entry.quiet
          /\ watch' = [watch EXCEPT ![c] = "ping"]
    /\ UNCHANGED <<row, entry, serve, sock, peer, job, assign, revoke>>

\* (mutant) one answered ping is taken for the end of the matter
PingOnce(c) ==
    /\ watch[c] = "ping"
    /\ watch' = [watch EXCEPT ![c] = "done"]
    /\ sock' = [sock EXCEPT ![c] = IF peer[c] THEN @ ELSE "closed"]
    /\ UNCHANGED <<row, entry, serve, peer, job, assign, revoke>>

\* Ping with its timeout of 5 s, on the supervisor's own connection
Ping(c) ==
    /\ watch[c] = "ping"
    /\ \/ /\ peer[c] /\ sock[c] = "open"
          /\ watch' = [watch EXCEPT ![c] = "ticking"]
          /\ UNCHANGED sock
       \/ /\ ~(peer[c] /\ sock[c] = "open")
          /\ watch' = [watch EXCEPT ![c] = "done"]
          /\ sock' = [sock EXCEPT ![c] = "closed"]
    /\ UNCHANGED <<row, entry, serve, peer, job, assign, revoke>>

-----------------------------------------------------------------------------
(* Assignment and revocation *)

\* Assign finds the worker in the hub and sends it a job (a send that fails ends it) ...
Assign ==
    /\ entry.conn # None /\ job = "none"
    /\ job' = "sent" /\ assign' = TRUE
    /\ UNCHANGED <<row, entry, serve, watch, sock, peer, revoke>>

\* ... and writes the status, whatever happened since.
Assigned ==
    /\ assign
    /\ SetWorkerStatus("assigned")
    /\ assign' = FALSE
    /\ UNCHANGED <<entry, serve, watch, sock, peer, job, revoke>>

\* Store.RevokeWorker, first statement: flag and status
Flag ==
    /\ revoke.pc = "idle"
    /\ row' = [status |-> "revoked", revoked |-> TRUE]
    /\ revoke' = [revoke EXCEPT !.pc = "flagged"]
    /\ UNCHANGED <<entry, serve, watch, sock, peer, job, assign>>

\* Second statement; when it fails the handler answers 500 and the hub is not told.
EndJobs ==
    /\ revoke.pc = "flagged"
    /\ \/ /\ job' = IF job = "sent" THEN "ended" ELSE job
          /\ revoke' = [revoke EXCEPT !.pc = "ended"]
       \/ /\ revoke' = [revoke EXCEPT !.pc = "failed"]
          /\ UNCHANGED job
    /\ UNCHANGED <<row, entry, serve, watch, sock, peer, assign>>

\* (mutant) worker.revoke is sent, and the worker trusted to close
CloseNothing ==
    /\ \/ revoke.pc = "ended" /\ revoke' = [pc |-> "found", conn |-> entry.conn]
       \/ revoke.pc = "found" /\ revoke' = [revoke EXCEPT !.pc = "done"]
    /\ UNCHANGED <<row, entry, serve, watch, sock, peer, job, assign>>

\* Hub.RevokeWorker: looks up the connection under the lock, then closes it
HubRevoke ==
    /\ \/ /\ revoke.pc = "ended"
          /\ revoke' = [pc |-> "found", conn |-> entry.conn]
          /\ UNCHANGED sock
       \/ /\ revoke.pc = "found"
          /\ revoke' = [revoke EXCEPT !.pc = "done"]
          /\ sock' = [c \in Conns |-> IF c = revoke.conn THEN "closed" ELSE sock[c]]
    /\ UNCHANGED <<row, entry, serve, watch, peer, job, assign>>

Next ==
    \/ \E c \in Conns : \/ PeerLeaves(c) \/ AuthenticateWorker(c) \/ Receive(c)
                        \/ ServeStep(c) \/ Supervise(c) \/ Ping(c)
    \/ Silence \/ Assign \/ Assigned \/ Flag \/ EndJobs \/ HubRevoke

Spec == Init /\ [][Next]_vars

\* Goroutines run, statements return, time passes; nobody has to connect, to send, to
\* assign or to revoke.
FairSpec ==
    /\ Spec
    /\ \A c \in Conns : WF_vars(ServeStep(c)) /\ WF_vars(Supervise(c)) /\ WF_vars(Ping(c))
    /\ WF_vars(Silence) /\ WF_vars(HubRevoke)

-----------------------------------------------------------------------------
(* What the API shows *)

\* Hub.Online
Online == entry.conn # None

\* (mutant) the overlay forgets the status that unregister writes
EnrolledOverlay == IF Online /\ row.status = "enrolled" THEN "connected" ELSE row.status

\* handleListWorkers; it reads the rows and then the entries, here at one moment.
ListedStatus ==
    IF Online /\ row.status \in {"enrolled", "offline"} THEN "connected" ELSE row.status

\* LiveStats: a live entry decides, unless the worker is revoked ("mining" when the
\* entry has jobs; which, is not told apart here).
LiveStatus == IF Online /\ row.status # "revoked" THEN "connected" ELSE row.status

-----------------------------------------------------------------------------
(* Properties *)

\* A worker that has a connection in the hub is shown there by both views, whatever
\* late writes of "offline" have left in its row, and a revoked one by neither.
ShownOnline ==
    Online => \A s \in {ListedStatus, LiveStatus} :
                 IF row.revoked THEN s = "revoked" ELSE s \in {"connected", "assigned", "mining"}

\* When the worker is gone without a word, the connection that the hub has of it
\* leaves the hub: the supervisor finds out, or a new connection replaces it.
WorkerGone == \A d \in Conns : serve[d] # "new" => ~peer[d]
SilentLeaves ==
    \A c \in Conns : entry.conn = c /\ WorkerGone ~> entry.conn # c

\* The connection that Hub.RevokeWorker finds is served no longer, also when the
\* worker does not react to worker.revoke.
RevokedIsCutOff ==
    \A c \in Conns : revoke = [pc |-> "found", conn |-> c] ~> serve[c] = "done"

=============================================================================
