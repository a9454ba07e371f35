--------------------------- MODULE PresenceProofs ---------------------------
(***************************************************************************)
(* Presence of a worker, for any number of connections.                    *)
(***************************************************************************)
EXTENDS Presence, TLAPS

\* What the guarded UPDATE of the store leaves: the status of a revoked row, whoever writes
\* late, and otherwise what it was given.
LEMMA StatusWritten ==
    ASSUME NEW s \in Status \ {"revoked"}, SetWorkerStatus(s),
           row \in [status : Status, revoked : BOOLEAN],
           row.revoked <=> row.status = "revoked"
    PROVE  /\ row' \in [status : Status, revoked : BOOLEAN]
           /\ row'.revoked <=> row'.status = "revoked"
<1>1. CASE row.status = "revoked"
  BY <1>1 DEF SetWorkerStatus
<1>2. CASE row.status # "revoked"
  BY <1>2 DEF SetWorkerStatus
<1>3. QED
  BY <1>1, <1>2

LEMMA InitTyped == Init => TypeOK
<1> SUFFICES ASSUME Init PROVE TypeOK
  OBVIOUS
<1>1. row \in [status : Status, revoked : BOOLEAN] /\ (row.revoked <=> row.status = "revoked")
  BY DEF Init, Status
<1>2. entry \in [conn : Conns \cup {None}, quiet : BOOLEAN] /\ revoke \in [pc : RevokePC, conn : Conns \cup {None}]
  BY DEF Init, NoEntry, RevokePC
<1>3. /\ serve \in [Conns -> ServePC] /\ watch \in [Conns -> {"none", "ticking", "ping", "done"}]
      /\ sock \in [Conns -> {"open", "closed"}] /\ peer \in [Conns -> BOOLEAN]
      /\ job \in {"none", "sent", "ended"} /\ assign \in BOOLEAN
  BY DEF Init, ServePC
<1>4. QED
  BY <1>1, <1>2, <1>3 DEF TypeOK

LEMMA TypedSteps == TypeOK /\ [Next]_vars => TypeOK'
<1> SUFFICES ASSUME TypeOK, [Next]_vars PROVE TypeOK'
  OBVIOUS
<1> USE DEF Status, ServePC, RevokePC
\* What each action needs of the type invariant
<1>1. /\ row \in [status : Status, revoked : BOOLEAN] /\ (row.revoked <=> row.status = "revoked")
      /\ entry \in [conn : Conns \cup {None}, quiet : BOOLEAN]
      /\ serve \in [Conns -> ServePC]
      /\ watch \in [Conns -> {"none", "ticking", "ping", "done"}]
      /\ sock \in [Conns -> {"open", "closed"}] /\ peer \in [Conns -> BOOLEAN]
      /\ job \in {"none", "sent", "ended"} /\ assign \in BOOLEAN
      /\ revoke \in [pc : RevokePC, conn : Conns \cup {None}]
  BY DEF TypeOK
<1>2. ASSUME NEW c \in Conns, PeerLeaves(c) PROVE TypeOK'
  BY <1>1, <1>2 DEF PeerLeaves, TypeOK
<1>3. ASSUME NEW c \in Conns, AuthenticateWorker(c) PROVE TypeOK'
  BY <1>1, <1>3 DEF AuthenticateWorker, TypeOK
<1>4. ASSUME NEW c \in Conns, Register(c) PROVE TypeOK'
  BY <1>1, <1>4 DEF Register, TypeOK
<1>5. ASSUME NEW c \in Conns, Connected(c) PROVE TypeOK'
  <2>1. row' \in [status : Status, revoked : BOOLEAN] /\ (row'.revoked <=> row'.status = "revoked")
    BY <1>1, <1>5, StatusWritten DEF Connected
  <2>2. QED
    BY <1>1, <1>5, <2>1 DEF Connected, TypeOK
<1>6. ASSUME NEW c \in Conns, Receive(c) PROVE TypeOK'
  BY <1>1, <1>6 DEF Receive, Touch, TypeOK
<1>7. ASSUME NEW c \in Conns, HandleAck(c) PROVE TypeOK'
  <2>1. row' \in [status : Status, revoked : BOOLEAN] /\ (row'.revoked <=> row'.status = "revoked")
    BY <1>1, <1>7, StatusWritten DEF HandleAck
  <2>2. QED
    BY <1>1, <1>7, <2>1 DEF HandleAck, TypeOK
<1>8. ASSUME NEW c \in Conns, ReadFails(c) PROVE TypeOK'
  BY <1>1, <1>8 DEF ReadFails, TypeOK
<1>9. ASSUME NEW c \in Conns, Unregister(c) PROVE TypeOK'
  BY <1>1, <1>9 DEF Unregister, NoEntry, TypeOK
<1>10. ASSUME NEW c \in Conns, Offline(c) PROVE TypeOK'
  <2>1. row' \in [status : Status, revoked : BOOLEAN] /\ (row'.revoked <=> row'.status = "revoked")
    BY <1>1, <1>10, StatusWritten DEF Offline
  <2>2. QED
    BY <1>1, <1>10, <2>1 DEF Offline, TypeOK
<1>11. ASSUME NEW c \in Conns, Supervise(c) PROVE TypeOK'
  BY <1>1, <1>11 DEF Supervise, TypeOK
<1>12. ASSUME NEW c \in Conns, Ping(c) PROVE TypeOK'
  BY <1>1, <1>12 DEF Ping, TypeOK
<1>13. CASE Silence
  BY <1>1, <1>13 DEF Silence, TypeOK
<1>14. CASE Assign
  BY <1>1, <1>14 DEF Assign, TypeOK
<1>15. CASE Assigned
  <2>1. row' \in [status : Status, revoked : BOOLEAN] /\ (row'.revoked <=> row'.status = "revoked")
    BY <1>1, <1>15, StatusWritten DEF Assigned
  <2>2. QED
    BY <1>1, <1>15, <2>1 DEF Assigned, TypeOK
<1>16. CASE Flag
  BY <1>1, <1>16 DEF Flag, TypeOK
<1>17. CASE EndJobs
  BY <1>1, <1>17 DEF EndJobs, TypeOK
<1>18. CASE HubRevoke
  BY <1>1, <1>18 DEF HubRevoke, TypeOK
<1>19. CASE UNCHANGED vars
  BY <1>1, <1>19 DEF vars, TypeOK
<1>20. QED
  BY <1>2, <1>3, <1>4, <1>5, <1>6, <1>7, <1>8, <1>9, <1>10, <1>11, <1>12, <1>13, <1>14,
     <1>15, <1>16, <1>17, <1>18, <1>19 DEF Next, ServeStep

\* The flag and the status of a revoked row are set together and stay so: of all the
\* goroutines that write a status after a look at the row, none undoes it
\* (Store.SetWorkerStatus).
THEOREM TypeCorrect == Spec => []TypeOK
BY InitTyped, TypedSteps, PTL DEF Spec

\* A revocation is for good: no statement of another goroutine touches the row after it.
THEOREM RevokedRowStays == Spec => [][row.revoked => row' = row]_vars
<1>1. TypeOK /\ [Next]_vars => [row.revoked => row' = row]_vars
  <2> SUFFICES ASSUME TypeOK, Next, row.revoked PROVE row' = row
    OBVIOUS
  <2>1. row \in [status : Status, revoked : BOOLEAN] /\ row.status = "revoked" /\ row.revoked = TRUE
    BY DEF TypeOK
  <2>2. \A s : SetWorkerStatus(s) => row' = row
    BY <2>1 DEF SetWorkerStatus
  <2>3. Flag => row' = row
    BY <2>1 DEF Flag
  <2>4. QED
    BY <2>2, <2>3 DEF Next, ServeStep, PeerLeaves, AuthenticateWorker, Receive, Register, Connected,
       HandleAck, ReadFails, Unregister, Offline, Supervise, Ping, Silence, Assign, Assigned,
       EndJobs, HubRevoke
<1>2. QED
  BY <1>1, TypeCorrect, PTL DEF Spec

\* However its connections overlap and its status is written late, the list of workers and
\* the live statistics show a connected worker as there, and never a revoked one
\* (handleListWorkers, LiveStats).
THEOREM Shown == Spec => []ShownOnline
<1>1. TypeOK => ShownOnline
  BY DEF TypeOK, Status, ShownOnline, Online, ListedStatus, LiveStatus
<1>2. QED
  BY <1>1, TypeCorrect, PTL

=============================================================================
