---------------------------- MODULE JoinCodesProofs ----------------------------
(***************************************************************************)
(* What enrolment keeps, for any number of codes, workers, concurrent      *)
(* enrolments and pool connections: the types, the balance of the pool,    *)
(* one worker for a code, one machine for a token; and that the            *)
(* transactions of Enroll implement redemption in one step.                *)
(***************************************************************************)
EXTENDS JoinCodes, FiniteSetTheorems, TLAPS

-----------------------------------------------------------------------------
(* The inductive invariant *)

Ids == {"inserted", "consumed", "answered"}

\* The types, without the upper bound of free, which the balance of the pool gives
Typed ==
    /\ code \in [Codes -> CodeRow]
    /\ worker \in [Workers -> {"none", "pending", "enrolled", "deleted"}]
    /\ task \in [Enrollers -> Task]
    /\ lock \in [Codes -> Enrollers \cup {None}]
    /\ redeemed \in [Codes -> SUBSET Workers]
    /\ config \in [Enrollers -> Workers \cup {None}]

\* A row inserted by a transaction is seen by nobody else, and belongs to one.
Inserts ==
    /\ \A e \in Enrollers :
          /\ task[e].pc \notin {"idle", "answered"} => task[e].code \in Codes
          /\ task[e].pc \notin Ids => task[e].w = None
          /\ task[e].pc \in {"inserted", "consumed"} =>
                task[e].w \in Workers /\ worker[task[e].w] = "pending"
          /\ task[e].pc = "answered" =>
                task[e].w \in Workers /\ worker[task[e].w] \in {"enrolled", "deleted"}
    /\ \A e, f \in Enrollers : e # f /\ task[e].w = task[f].w => task[e].w = None

\* Between UPDATE and COMMIT the code is locked, and stays as the UPDATE found it.
Locks ==
    /\ \A c \in Codes : lock[c] # None =>
          task[lock[c]].pc = "consumed" /\ task[lock[c]].code = c
    /\ \A e \in Enrollers : task[e].pc = "consumed" =>
          lock[task[e].code] = e /\ Redeemable(task[e].code)

\* consumed_by names the one worker in existence that the code enrolled.
Marks ==
    /\ \A c \in Codes : code[c].by # None =>
          /\ code[c].st = "live" /\ code[c].by \in redeemed[c]
          /\ worker[code[c].by] = "enrolled"
    /\ \A c \in Codes : \A w \in redeemed[c] :
          /\ worker[w] \in {"enrolled", "deleted"}
          /\ worker[w] = "enrolled" => code[c].by = w

\* The token in an answer under way is in no file yet.
Tokens ==
    /\ TokensAreReal
    /\ \A e, f \in Enrollers : task[e].pc = "answered" => config[f] # task[e].w

\* Enrolments with an open SELECT, and with a transaction: a connection for each
Rows == {e \in Enrollers : task[e].pc \in {"matched", "begun", "inserted", "consumed"}}
Txs == {e \in Enrollers : task[e].pc \in {"begun", "inserted", "consumed"}}
Balance ==
    /\ IsFiniteSet(Rows) /\ IsFiniteSet(Txs)
    /\ free \in Nat
    /\ free + Cardinality(Rows) + Cardinality(Txs) = PoolConns

JoinInv == Typed /\ Inserts /\ Locks /\ Marks /\ Tokens /\ Balance

-----------------------------------------------------------------------------
(* The pool *)

\* The size of a finite set when one element may join or leave it.
LEMMA OneElement ==
    ASSUME NEW S, NEW T, NEW e, IsFiniteSet(S), \A f : f # e => (f \in T <=> f \in S)
    PROVE  /\ IsFiniteSet(T) /\ Cardinality(S) \in Nat /\ Cardinality(T) \in Nat
           /\ Cardinality(T) + (IF e \in S THEN 1 ELSE 0) = Cardinality(S) + (IF e \in T THEN 1 ELSE 0)
<1>1. /\ IsFiniteSet(S \cup {e}) /\ IsFiniteSet(S \ {e}) /\ Cardinality(S) \in Nat
      /\ Cardinality(S \cup {e}) = IF e \in S THEN Cardinality(S) ELSE Cardinality(S) + 1
      /\ Cardinality(S \ {e}) = IF e \in S THEN Cardinality(S) - 1 ELSE Cardinality(S)
  BY FS_CardinalityType, FS_AddElement, FS_RemoveElement
<1>2. T = IF e \in T THEN S \cup {e} ELSE S \ {e}
  OBVIOUS
<1>3. IsFiniteSet(T) /\ Cardinality(T) \in Nat
  BY <1>1, <1>2, FS_CardinalityType
<1>4. CASE e \in T
  <2>1. Cardinality(T) = IF e \in S THEN Cardinality(S) ELSE Cardinality(S) + 1
    BY <1>1, <1>2, <1>4
  <2>2. QED
    BY <1>1, <1>3, <1>4, <2>1
<1>5. CASE e \notin T
  <2>1. Cardinality(T) = IF e \in S THEN Cardinality(S) - 1 ELSE Cardinality(S)
    BY <1>1, <1>2, <1>5
  <2>2. QED
    BY <1>1, <1>3, <1>5, <2>1
<1>6. QED
  BY <1>3, <1>4, <1>5

\* A step of e that gives back what it no longer holds keeps the pool balanced.
LEMMA PoolStep ==
    ASSUME JoinInv, Typed', NEW e \in Enrollers,
           \A f \in Enrollers : f # e => task'[f].pc = task[f].pc,
           free' \in Nat
    PROVE  free' + Held(e)' = free + Held(e) => Balance'
<1>0. SUFFICES ASSUME free' + Held(e)' = free + Held(e) PROVE Balance'
  OBVIOUS
<1> DEFINE a  == IF e \in Rows THEN 1 ELSE 0
           a2 == IF e \in Rows' THEN 1 ELSE 0
           b  == IF e \in Txs THEN 1 ELSE 0
           b2 == IF e \in Txs' THEN 1 ELSE 0
<1>1. /\ IsFiniteSet(Rows) /\ IsFiniteSet(Txs)
      /\ free \in Nat /\ free + Cardinality(Rows) + Cardinality(Txs) = PoolConns
  BY DEF JoinInv, Balance
<1>2. task[e].pc \in PC /\ task'[e].pc \in PC
  BY DEF JoinInv, Typed, Task
<1>3. \A f : f # e => (f \in Rows' <=> f \in Rows) /\ (f \in Txs' <=> f \in Txs)
  BY DEF Rows, Txs
<1>4. /\ IsFiniteSet(Rows') /\ Cardinality(Rows) \in Nat /\ Cardinality(Rows') \in Nat
      /\ Cardinality(Rows') + a = Cardinality(Rows) + a2
  BY <1>1, <1>3, OneElement
<1>5. /\ IsFiniteSet(Txs') /\ Cardinality(Txs) \in Nat /\ Cardinality(Txs') \in Nat
      /\ Cardinality(Txs') + b = Cardinality(Txs) + b2
  BY <1>1, <1>3, OneElement
<1>6. Held(e) = a + b
  BY <1>2 DEF Held, Rows, Txs, PC
<1>7. Held(e)' = a2 + b2
  BY <1>2 DEF Held, Rows, Txs, PC
<1>8. free' + (a2 + b2) = free + (a + b)
  BY <1>0, <1>6, <1>7
<1>9. a \in 0..1 /\ a2 \in 0..1 /\ b \in 0..1 /\ b2 \in 0..1
  OBVIOUS
<1> HIDE DEF a, a2, b, b2
<1>10. free' + Cardinality(Rows') + Cardinality(Txs') = PoolConns
  <2>1. PICK n \in Nat, n2 \in Nat : n = Cardinality(Rows) /\ n2 = Cardinality(Rows')
    BY <1>4
  <2>2. PICK m \in Nat, m2 \in Nat : m = Cardinality(Txs) /\ m2 = Cardinality(Txs')
    BY <1>5
  <2>3. PICK f \in Nat, f2 \in Nat : f = free /\ f2 = free'
    BY <1>1
  <2>4. PICK p \in 0..1, p2 \in 0..1, q \in 0..1, q2 \in 0..1 : p = a /\ p2 = a2 /\ q = b /\ q2 = b2
    BY <1>9
  <2>5. n2 + p = n + p2 /\ m2 + q = m + q2 /\ f2 + (p2 + q2) = f + (p + q)
    BY <1>4, <1>5, <1>8, <2>1, <2>2, <2>3, <2>4, Zenon
  <2>6. f2 + n2 + m2 = f + n + m
    BY <2>5
  <2>7. QED
    BY <1>1, <2>1, <2>2, <2>3, <2>6, Zenon
<1>11. QED
  BY <1>4, <1>5, <1>10 DEF Balance

LEMMA PoolSame == ASSUME Balance, task' = task, free' = free PROVE Balance'
BY DEF Balance, Rows, Txs

\* What the balance says of the pool
LEMMA PoolFacts ==
    ASSUME JoinInv PROVE PoolBalanced /\ free \in 0..PoolConns
<1>1. /\ IsFiniteSet(Rows) /\ Cardinality(Rows) \in Nat
      /\ IsFiniteSet(Txs) /\ Cardinality(Txs) \in Nat
      /\ free \in Nat /\ free + Cardinality(Rows) + Cardinality(Txs) = PoolConns
  BY FS_CardinalityType DEF JoinInv, Balance
<1>2. ASSUME \A e \in Enrollers : Held(e) = 0 PROVE free = PoolConns
  <2>1. ASSUME NEW e \in Enrollers
        PROVE  task[e].pc \notin {"matched", "begun", "inserted", "consumed"}
    BY <1>2 DEF JoinInv, Typed, Task, PC, Held
  <2>2. Rows = {} /\ Txs = {}
    BY <2>1 DEF Rows, Txs
  <2>3. QED
    BY <1>1, <2>2, FS_EmptySet
<1>3. ASSUME NEW e \in Enrollers PROVE free + Held(e) <= PoolConns
  <2>1. task[e].pc \in PC
    BY DEF JoinInv, Typed, Task
  <2>2. Held(e) = (IF e \in Rows THEN 1 ELSE 0) + (IF e \in Txs THEN 1 ELSE 0)
    BY <2>1 DEF Held, Rows, Txs, PC
  <2>3. (e \in Rows => Cardinality(Rows) >= 1) /\ (e \in Txs => Cardinality(Txs) >= 1)
    BY <1>1, FS_EmptySet
  <2>4. QED
    BY <1>1, <2>2, <2>3
<1>4. PoolConns \in Nat
  BY JoinAssumption
<1>5. QED
  BY <1>1, <1>2, <1>3, <1>4 DEF PoolBalanced

-----------------------------------------------------------------------------
(* The steps of an owner *)

LEMMA InitJoin == Init => JoinInv
<1> SUFFICES ASSUME Init PROVE JoinInv
  OBVIOUS
<1>1. Typed
  BY DEF Init, Typed, CodeRow, Task, IdleTask, PC
<1>2. Inserts /\ Locks /\ Marks /\ Tokens
  BY DEF Init, Inserts, Ids, IdleTask, Locks, Marks, Tokens, TokensAreReal
<1>3. Rows = {} /\ Txs = {}
  BY DEF Init, Rows, Txs, IdleTask
<1>4. Balance
  BY <1>3, FS_EmptySet, JoinAssumption DEF Init, Balance
<1>5. QED
  BY <1>1, <1>2, <1>4 DEF JoinInv

\* Create, Expire and Revoke write one row, whose consumed_by stays, and
\* take away what an UPDATE has found only when nobody holds the row.
LEMMA CodeStep ==
    ASSUME JoinInv, NEW c \in Codes, Create(c) \/ Expire(c) \/ Revoke(c)
    PROVE  JoinInv'
<1>1. /\ code' \in [Codes -> CodeRow]
      /\ \A x \in Codes : code'[x].by = code[x].by
      /\ \A x \in Codes : code[x].st = "live" /\ code'[x].st # "live" =>
            x = c /\ code[c].by = None /\ lock[c] = None
  <2>1. code \in [Codes -> CodeRow]
    BY DEF JoinInv, Typed
  <2>2. CASE Create(c)
    BY <2>1, <2>2 DEF Create, CodeRow
  <2>3. CASE Expire(c)
    BY <2>1, <2>3 DEF Expire, CodeRow
  <2>4. CASE Revoke(c)
    BY <2>1, <2>4 DEF Revoke, CodeRow
  <2>5. QED
    BY <2>2, <2>3, <2>4
<1>2. UNCHANGED <<worker, task, lock, free, redeemed, config>>
  BY DEF Create, Expire, Revoke
<1>3. Typed'
  BY <1>1, <1>2 DEF JoinInv, Typed
<1>4. Inserts'
  BY <1>2 DEF JoinInv, Inserts
<1>5. Locks'
  <2>1. ASSUME NEW e \in Enrollers, task[e].pc = "consumed"
        PROVE  Redeemable(task[e].code)'
    <3>1. task[e].code \in Codes
      BY <2>1 DEF JoinInv, Inserts
    <3>2. lock[task[e].code] = e /\ e # None /\ code[task[e].code].st = "live" /\ code[task[e].code].by = None
      BY <2>1, JoinAssumption DEF JoinInv, Locks, Redeemable
    <3>3. QED
      BY <1>1, <1>2, <3>1, <3>2 DEF Redeemable
  <2>2. QED
    BY <1>2, <2>1 DEF JoinInv, Locks
<1>6. Marks'
  BY <1>1, <1>2 DEF JoinInv, Marks
<1>7. Tokens'
  BY <1>2 DEF JoinInv, Tokens, TokensAreReal
<1>8. Balance'
  BY <1>2, PoolSame DEF JoinInv
<1>9. QED
  BY <1>3, <1>4, <1>5, <1>6, <1>7, <1>8 DEF JoinInv

LEMMA DeleteStep ==
    ASSUME JoinInv, NEW w \in Workers, DeleteWorker(w)
    PROVE  JoinInv'
<1>1. /\ worker[w] = "enrolled" /\ worker' = [worker EXCEPT ![w] = "deleted"]
      /\ UNCHANGED <<task, lock, free, redeemed, config>>
  BY DEF DeleteWorker
<1>2. /\ code' \in [Codes -> CodeRow]
      /\ \A c \in Codes : code'[c].st = code[c].st /\ code'[c].by = IF code[c].by = w THEN None ELSE code[c].by
  BY DEF DeleteWorker, JoinInv, Typed, CodeRow
<1>3. \A v \in Workers : worker'[v] = IF v = w THEN "deleted" ELSE worker[v]
  BY <1>1 DEF JoinInv, Typed
<1>4. Typed'
  BY <1>1, <1>2 DEF JoinInv, Typed
<1>5. Inserts'
  BY <1>1, <1>3 DEF JoinInv, Inserts
<1>6. Locks'
  BY <1>1, <1>2 DEF JoinInv, Inserts, Locks, Redeemable
<1>7. Marks'
  BY <1>1, <1>2, <1>3, JoinAssumption DEF JoinInv, Typed, Marks
<1>8. Tokens'
  BY <1>1, <1>3 DEF JoinInv, Typed, Tokens, TokensAreReal
<1>9. Balance'
  BY <1>1, PoolSame DEF JoinInv
<1>10. QED
  BY <1>4, <1>5, <1>6, <1>7, <1>8, <1>9 DEF JoinInv

-----------------------------------------------------------------------------
(* The steps of an enrolment *)

\* A step that moves e on within its transaction and writes no table
LEMMA MoveOn ==
    ASSUME JoinInv, NEW e \in Enrollers, NEW t \in Task,
           task' = [task EXCEPT ![e] = t],
           t.w = task[e].w, t.pc \notin Ids, task[e].pc \notin Ids,
           t.pc # "idle" => t.code \in Codes,
           UNCHANGED <<code, worker, lock, redeemed, config>>
    PROVE  Typed' /\ Inserts' /\ Locks' /\ Marks' /\ Tokens'
<1>1. task'[e] = t /\ \A f \in Enrollers : f # e => task'[f] = task[f]
  BY DEF JoinInv, Typed
<1>2. Typed'
  BY DEF JoinInv, Typed
<1>3. Inserts'
  BY <1>1 DEF JoinInv, Inserts, Ids
<1>4. Locks'
  BY <1>1 DEF JoinInv, Typed, Locks, Redeemable, Ids
<1>5. Marks'
  BY DEF JoinInv, Marks
<1>6. Tokens'
  BY <1>1 DEF JoinInv, Tokens, TokensAreReal, Ids
<1>7. QED
  BY <1>2, <1>3, <1>4, <1>5, <1>6

LEMMA EarlySteps ==
    ASSUME JoinInv, NEW e \in Enrollers,
           (\E c \in Codes : CmdEnroll(e, c)) \/ Match(e) \/ HandleEnrollNotFound(e) \/ Begin(e)
    PROVE  JoinInv'
<1>1. /\ task \in [Enrollers -> Task] /\ free \in Nat
      /\ task[e].pc \notin Ids => task[e].w = None
      /\ task[e].pc \notin {"idle", "answered"} => task[e].code \in Codes
  BY DEF JoinInv, Typed, Balance, Inserts
<1>2. ASSUME NEW c \in Codes, CmdEnroll(e, c) PROVE JoinInv'
  <2> DEFINE t == [IdleTask EXCEPT !.pc = "posted", !.code = c]
  <2>1. /\ t \in Task /\ t.w = None /\ t.pc = "posted" /\ t.code = c /\ task[e].pc = "idle"
        /\ task' = [task EXCEPT ![e] = t]
        /\ UNCHANGED <<code, worker, lock, free, redeemed, config>>
    BY <1>2 DEF CmdEnroll, IdleTask, Task, PC
  <2> HIDE DEF t
  <2>2. Typed' /\ Inserts' /\ Locks' /\ Marks' /\ Tokens'
    BY <1>1, <1>2, <2>1, MoveOn DEF Ids
  <2>3. Held(e) = 0 /\ Held(e)' = 0 /\ \A f \in Enrollers : f # e => task'[f].pc = task[f].pc
    BY <1>1, <2>1 DEF Held
  <2>4. Balance'
    BY <1>1, <2>1, <2>2, <2>3, PoolStep
  <2>5. QED
    BY <2>2, <2>4 DEF JoinInv
<1>3. CASE Match(e)
  <2> DEFINE t == [task[e] EXCEPT !.pc = "matched"]
  <2>1. /\ t \in Task /\ t.w = task[e].w /\ t.pc = "matched" /\ t.code = task[e].code
        /\ task[e].pc = "posted" /\ task' = [task EXCEPT ![e] = t]
        /\ free > 0 /\ free' = free - 1
        /\ UNCHANGED <<code, worker, lock, redeemed, config>>
    BY <1>1, <1>3 DEF Match, Task, PC
  <2> HIDE DEF t
  <2>2. Typed' /\ Inserts' /\ Locks' /\ Marks' /\ Tokens'
    BY <1>1, <2>1, MoveOn DEF Ids
  <2>3. Held(e) = 0 /\ Held(e)' = 1 /\ \A f \in Enrollers : f # e => task'[f].pc = task[f].pc
    BY <1>1, <2>1 DEF Held
  <2>4. Balance'
    BY <1>1, <2>1, <2>2, <2>3, PoolStep
  <2>5. QED
    BY <2>2, <2>4 DEF JoinInv
<1>4. CASE HandleEnrollNotFound(e)
  <2>1. /\ IdleTask \in Task /\ IdleTask.w = None /\ IdleTask.pc = "idle"
        /\ task[e].pc = "posted" /\ task' = [task EXCEPT ![e] = IdleTask]
        /\ UNCHANGED <<code, worker, lock, free, redeemed, config>>
    BY <1>1, <1>4 DEF HandleEnrollNotFound, IdleTask, Task, PC
  <2>2. Typed' /\ Inserts' /\ Locks' /\ Marks' /\ Tokens'
    BY <1>1, <2>1, MoveOn DEF Ids
  <2>3. Held(e) = 0 /\ Held(e)' = 0 /\ \A f \in Enrollers : f # e => task'[f].pc = task[f].pc
    BY <1>1, <2>1 DEF Held
  <2>4. Balance'
    BY <1>1, <2>1, <2>2, <2>3, PoolStep
  <2>5. QED
    BY <2>2, <2>4 DEF JoinInv
<1>5. CASE Begin(e)
  <2> DEFINE t == [task[e] EXCEPT !.pc = "begun", !.inTime = ~code[task[e].code].expired]
  <2>1. /\ t \in Task /\ t.w = task[e].w /\ t.pc = "begun" /\ t.code = task[e].code
        /\ task[e].pc = "matched" /\ task' = [task EXCEPT ![e] = t]
        /\ free > 0 /\ free' = free - 1
        /\ UNCHANGED <<code, worker, lock, redeemed, config>>
    BY <1>1, <1>5 DEF Begin, Task, PC
  <2> HIDE DEF t
  <2>2. Typed' /\ Inserts' /\ Locks' /\ Marks' /\ Tokens'
    BY <1>1, <2>1, MoveOn DEF Ids
  <2>3. Held(e) = 1 /\ Held(e)' = 2 /\ \A f \in Enrollers : f # e => task'[f].pc = task[f].pc
    BY <1>1, <2>1 DEF Held
  <2>4. Balance'
    BY <1>1, <2>1, <2>2, <2>3, PoolStep
  <2>5. QED
    BY <2>2, <2>4 DEF JoinInv
<1>6. QED
  BY <1>2, <1>3, <1>4, <1>5

LEMMA InsertStep ==
    ASSUME JoinInv, NEW e \in Enrollers, InsertWorker(e)
    PROVE  JoinInv'
<1>1. PICK w \in Workers : /\ worker[w] = "none"
                           /\ worker' = [worker EXCEPT ![w] = "pending"]
                           /\ task' = [task EXCEPT ![e].pc = "inserted", ![e].w = w]
  BY DEF InsertWorker
<1>2. task[e].pc = "begun" /\ UNCHANGED <<code, lock, free, redeemed, config>>
  BY DEF InsertWorker
<1>3. /\ task' \in [Enrollers -> Task]
      /\ task'[e].pc = "inserted" /\ task'[e].w = w /\ task'[e].code = task[e].code
      /\ \A f \in Enrollers : f # e => task'[f] = task[f]
  BY <1>1 DEF JoinInv, Typed, Task, PC
<1>4. \A v \in Workers : worker'[v] = IF v = w THEN "pending" ELSE worker[v]
  BY <1>1 DEF JoinInv, Typed
<1>5. Typed'
  BY <1>1, <1>2, <1>3 DEF JoinInv, Typed
<1>6. Inserts'
  <2>1. \A f \in Enrollers : task[f].w # w
    BY <1>1, JoinAssumption DEF JoinInv, Inserts, Ids
  <2>2. QED
    BY <1>2, <1>3, <1>4, <2>1 DEF JoinInv, Inserts, Ids
<1>7. Locks'
  BY <1>2, <1>3 DEF JoinInv, Typed, Locks, Redeemable
<1>8. Marks'
  BY <1>1, <1>2, <1>4 DEF JoinInv, Typed, Marks
<1>9. Tokens'
  BY <1>1, <1>2, <1>3, <1>4 DEF JoinInv, Typed, Tokens, TokensAreReal
<1>10. Held(e) = 2 /\ Held(e)' = 2 /\ free \in Nat
  BY <1>2, <1>3 DEF Held, JoinInv, Balance
<1>11. Balance'
  BY <1>2, <1>3, <1>5, <1>10, PoolStep
<1>12. QED
  BY <1>5, <1>6, <1>7, <1>8, <1>9, <1>11 DEF JoinInv

\* The deferred Rollback and Close: nothing of the enrolment is left.
LEMMA GiveUpStep ==
    ASSUME JoinInv, NEW e \in Enrollers, task[e].pc \notin {"idle", "answered"},
           GiveUp(e), UNCHANGED <<code, redeemed, config>>
    PROVE  JoinInv'
<1>1. /\ task' = [task EXCEPT ![e] = IdleTask]
      /\ \A v \in Workers : worker'[v] = IF v = task[e].w THEN "none" ELSE worker[v]
      /\ \A c \in Codes : lock'[c] = IF lock[c] = e THEN None ELSE lock[c]
  BY DEF GiveUp
<1>2. IdleTask \in Task /\ IdleTask.pc = "idle" /\ IdleTask.w = None
  BY DEF IdleTask, Task, PC
<1>3. task'[e] = IdleTask /\ \A f \in Enrollers : f # e => task'[f] = task[f]
  BY <1>1 DEF JoinInv, Typed
<1>4. Typed'
  <2>1. worker' \in [Workers -> {"none", "pending", "enrolled", "deleted"}]
    BY DEF GiveUp, JoinInv, Typed
  <2>2. lock' \in [Codes -> Enrollers \cup {None}]
    BY DEF GiveUp, JoinInv, Typed
  <2>3. QED
    BY <1>1, <1>2, <2>1, <2>2 DEF JoinInv, Typed
<1>5. \A w \in Workers : worker[w] \in {"enrolled", "deleted"} => worker'[w] = worker[w]
  <2>1. task[e].pc \in PC
    BY DEF JoinInv, Typed, Task
  <2>2. task[e].w = None \/ worker[task[e].w] = "pending"
    BY <2>1 DEF JoinInv, Inserts, Ids, PC
  <2>3. QED
    BY <1>1, <2>2, JoinAssumption
<1>6. Inserts'
  <2>1. ASSUME NEW f \in Enrollers, f # e
        PROVE  /\ task'[f] = task[f]
               /\ task[f].w \in Workers => worker'[task[f].w] = worker[task[f].w]
    BY <1>1, <1>3, <2>1, JoinAssumption DEF JoinInv, Inserts
  <2>2. QED
    BY <1>2, <1>3, <2>1 DEF JoinInv, Inserts, Ids
<1>7. Locks'
  <2>1. ASSUME NEW c \in Codes, lock'[c] # None
        PROVE  task'[lock'[c]].pc = "consumed" /\ task'[lock'[c]].code = c
    BY <1>1, <1>3, <2>1 DEF JoinInv, Typed, Locks
  <2>2. ASSUME NEW f \in Enrollers, task'[f].pc = "consumed"
        PROVE  lock'[task'[f].code] = f /\ Redeemable(task[f].code)'
    <3>1. f # e /\ task'[f] = task[f] /\ task[f].code \in Codes
      BY <1>2, <1>3, <2>2 DEF JoinInv, Inserts
    <3>2. QED
      BY <1>1, <2>2, <3>1 DEF JoinInv, Locks, Redeemable
  <2>3. QED
    BY <2>1, <2>2 DEF Locks
<1>8. Marks'
  BY <1>5 DEF JoinInv, Typed, Marks
<1>9. Tokens'
  BY <1>2, <1>3, <1>5 DEF JoinInv, Typed, Tokens, TokensAreReal
<1>10. /\ free' = free + Held(e) /\ Held(e)' = 0 /\ Held(e) \in 0..2 /\ free \in Nat
  BY <1>2, <1>3 DEF GiveUp, Held, JoinInv, Balance, Typed, Task, PC
<1>11. Balance'
  BY <1>3, <1>4, <1>10, PoolStep
<1>12. QED
  BY <1>4, <1>6, <1>7, <1>8, <1>9, <1>11 DEF JoinInv

LEMMA ConsumeStep ==
    ASSUME JoinInv, NEW e \in Enrollers, Consume(e)
    PROVE  JoinInv'
<1> DEFINE c == task[e].code
<1>1. task[e].pc = "inserted" /\ c \in Codes /\ lock[c] = None /\ UNCHANGED <<code, redeemed, config>>
  BY DEF Consume, JoinInv, Inserts
<1>2. CASE GiveUp(e)
  BY <1>1, <1>2, GiveUpStep
<1>3. CASE ~GiveUp(e)
  <2>1. /\ Redeemable(c) /\ lock' = [lock EXCEPT ![c] = e]
        /\ task' = [task EXCEPT ![e].pc = "consumed"] /\ UNCHANGED <<worker, free>>
    BY <1>3 DEF Consume
  <2>2. /\ task' \in [Enrollers -> Task]
        /\ task'[e].pc = "consumed" /\ task'[e].w = task[e].w /\ task'[e].code = c
        /\ \A f \in Enrollers : f # e => task'[f] = task[f]
    BY <2>1 DEF JoinInv, Typed, Task, PC
  <2>3. /\ lock' \in [Codes -> Enrollers \cup {None}]
        /\ \A x \in Codes : lock'[x] = IF x = c THEN e ELSE lock[x]
    BY <1>1, <2>1 DEF JoinInv, Typed
  <2>4. Typed'
    BY <1>1, <2>1, <2>2, <2>3 DEF JoinInv, Typed
  <2>5. Inserts'
    BY <1>1, <2>1, <2>2 DEF JoinInv, Inserts, Ids
  <2>6. Locks'
    <3>1. ASSUME NEW x \in Codes, lock'[x] # None
          PROVE  task'[lock'[x]].pc = "consumed" /\ task'[lock'[x]].code = x
      BY <1>1, <2>2, <2>3, <3>1 DEF JoinInv, Typed, Locks
    <3>2. ASSUME NEW f \in Enrollers, task'[f].pc = "consumed"
          PROVE  lock'[task'[f].code] = f /\ Redeemable(task[f].code)'
      <4>1. CASE f = e
        BY <1>1, <2>1, <2>2, <2>3, <4>1 DEF Redeemable
      <4>2. CASE f # e
        <5>1. task'[f] = task[f] /\ task[f].code \in Codes /\ lock[task[f].code] = f /\ f # None
          BY <2>2, <3>2, <4>2, JoinAssumption DEF JoinInv, Inserts, Locks
        <5>2. QED
          BY <1>1, <2>3, <3>2, <5>1 DEF JoinInv, Locks, Redeemable
      <4>3. QED
        BY <4>1, <4>2
    <3>3. QED
      BY <3>1, <3>2 DEF Locks
  <2>7. Marks' /\ Tokens'
    BY <1>1, <2>1, <2>2 DEF JoinInv, Marks, Tokens, TokensAreReal
  <2>8. Held(e) = 2 /\ Held(e)' = 2 /\ free \in Nat
    BY <1>1, <2>2 DEF Held, JoinInv, Balance
  <2>9. Balance'
    BY <2>1, <2>2, <2>4, <2>8, PoolStep
  <2>10. QED
    BY <2>4, <2>5, <2>6, <2>7, <2>9 DEF JoinInv
<1>4. QED
  BY <1>2, <1>3

LEMMA CommitStep ==
    ASSUME JoinInv, NEW e \in Enrollers, Commit(e)
    PROVE  JoinInv'
<1> DEFINE c == task[e].code
           w == task[e].w
           t == [IdleTask EXCEPT !.pc = "answered", !.w = w]
<1>1. /\ c \in Codes /\ w \in Workers /\ worker[w] = "pending"
      /\ lock[c] = e /\ code[c].st = "live" /\ code[c].by = None
  BY DEF Commit, JoinInv, Inserts, Locks, Redeemable
<1>2. /\ t \in Task /\ t.pc = "answered" /\ t.w = w
      /\ task' = [task EXCEPT ![e] = t] /\ config' = config /\ free' = free + 2
  BY <1>1 DEF Commit, IdleTask, Task, PC
<1>3. /\ code' \in [Codes -> CodeRow]
      /\ \A x \in Codes : code'[x].st = code[x].st /\ code'[x].by = IF x = c THEN w ELSE code[x].by
  BY <1>1 DEF Commit, JoinInv, Typed, CodeRow
<1>4. /\ worker' \in [Workers -> {"none", "pending", "enrolled", "deleted"}]
      /\ \A v \in Workers : worker'[v] = IF v = w THEN "enrolled" ELSE worker[v]
  BY <1>1 DEF Commit, JoinInv, Typed
<1>5. /\ lock' \in [Codes -> Enrollers \cup {None}]
      /\ \A x \in Codes : lock'[x] = IF x = c THEN None ELSE lock[x]
  BY <1>1 DEF Commit, JoinInv, Typed
<1>6. /\ redeemed' \in [Codes -> SUBSET Workers]
      /\ \A x \in Codes : redeemed'[x] = IF x = c THEN redeemed[x] \cup {w} ELSE redeemed[x]
  BY <1>1 DEF Commit, JoinInv, Typed
<1>7. task[e].pc = "consumed"
  BY DEF Commit
<1> HIDE DEF t
<1>8. task'[e] = t /\ \A f \in Enrollers : f # e => task'[f] = task[f]
  BY <1>2 DEF JoinInv, Typed
<1>9. Typed'
  BY <1>2, <1>3, <1>4, <1>5, <1>6 DEF JoinInv, Typed
<1>10. Inserts'
  <2>1. ASSUME NEW f \in Enrollers, f # e PROVE task[f].w # w
    BY <1>1, <2>1, JoinAssumption DEF JoinInv, Inserts
  <2>2. QED
    BY <1>1, <1>2, <1>4, <1>8, <2>1 DEF JoinInv, Inserts, Ids
<1>11. Locks'
  <2>1. ASSUME NEW x \in Codes, lock'[x] # None
        PROVE  task'[lock'[x]].pc = "consumed" /\ task'[lock'[x]].code = x
    BY <1>5, <1>8, <2>1 DEF JoinInv, Typed, Locks
  <2>2. ASSUME NEW f \in Enrollers, task'[f].pc = "consumed"
        PROVE  lock'[task'[f].code] = f /\ Redeemable(task[f].code)'
    <3>1. f # e /\ task'[f] = task[f] /\ task[f].code \in Codes /\ lock[task[f].code] = f
      BY <1>2, <1>8, <2>2 DEF JoinInv, Inserts, Locks
    <3>2. task[f].code # c
      BY <1>1, <3>1
    <3>3. QED
      BY <1>3, <1>5, <2>2, <3>1, <3>2 DEF JoinInv, Locks, Redeemable
  <2>3. QED
    BY <2>1, <2>2 DEF Locks
<1>12. Marks'
  <2>1. \A x \in Codes : w \notin redeemed[x] /\ code[x].by # w
    BY <1>1, JoinAssumption DEF JoinInv, Marks
  <2>2. \A v \in redeemed[c] : worker[v] = "deleted"
    BY <1>1, JoinAssumption DEF JoinInv, Typed, Marks
  <2>3. ASSUME NEW x \in Codes, code'[x].by # None
        PROVE  /\ code'[x].st = "live" /\ code'[x].by \in redeemed'[x]
               /\ worker'[code'[x].by] = "enrolled"
    BY <1>1, <1>3, <1>4, <1>6, <2>1, <2>3 DEF JoinInv, Typed, Marks
  <2>4. ASSUME NEW x \in Codes, NEW v \in redeemed'[x]
        PROVE  /\ worker'[v] \in {"enrolled", "deleted"}
               /\ worker'[v] = "enrolled" => code'[x].by = v
    BY <1>1, <1>3, <1>4, <1>6, <2>1, <2>2 DEF JoinInv, Typed, Marks
  <2>5. QED
    BY <2>3, <2>4 DEF Marks
<1>13. Tokens'
  <2>1. \A f \in Enrollers : config[f] # w
    BY <1>1, JoinAssumption DEF JoinInv, Tokens, TokensAreReal
  <2>2. QED
    BY <1>2, <1>4, <1>8, <2>1 DEF JoinInv, Typed, Tokens, TokensAreReal
<1>14. Held(e) = 2 /\ Held(e)' = 0 /\ free \in Nat
  BY <1>2, <1>7, <1>8 DEF Held, JoinInv, Balance
<1>15. Balance'
  BY <1>2, <1>8, <1>9, <1>14, PoolStep
<1>16. QED
  BY <1>9, <1>10, <1>11, <1>12, <1>13, <1>15 DEF JoinInv

LEMMA SaveStep ==
    ASSUME JoinInv, NEW e \in Enrollers, SaveConfig(e)
    PROVE  JoinInv'
<1>1. /\ task[e].pc = "answered" /\ task' = [task EXCEPT ![e] = IdleTask]
      /\ UNCHANGED <<code, worker, lock, free, redeemed>>
  BY DEF SaveConfig
<1>2. IdleTask \in Task /\ IdleTask.pc = "idle" /\ IdleTask.w = None
  BY DEF IdleTask, Task, PC
<1>3. task'[e] = IdleTask /\ \A f \in Enrollers : f # e => task'[f] = task[f]
  BY <1>1 DEF JoinInv, Typed
<1>4. task[e].w \in Workers /\ worker[task[e].w] \in {"enrolled", "deleted"}
  BY <1>1 DEF JoinInv, Inserts
<1>5. \/ config' = config
      \/ config' = [config EXCEPT ![e] = task[e].w]
  BY DEF SaveConfig
<1>6. Typed'
  BY <1>1, <1>2, <1>4, <1>5 DEF JoinInv, Typed
<1>7. Inserts'
  BY <1>1, <1>2, <1>3 DEF JoinInv, Inserts, Ids
<1>8. Locks'
  BY <1>1, <1>2, <1>3 DEF JoinInv, Typed, Locks, Redeemable
<1>9. Marks'
  BY <1>1 DEF JoinInv, Marks
<1>10. Tokens'
  <2>1. \A f \in Enrollers : config'[f] = config[f] \/ (f = e /\ config'[f] = task[e].w)
    BY <1>5 DEF JoinInv, Typed
  <2>2. \A f \in Enrollers : config[f] # task[e].w
    BY <1>1 DEF JoinInv, Tokens
  <2>3. \A f \in Enrollers : f # e => task[f].w # task[e].w
    BY <1>4, JoinAssumption DEF JoinInv, Inserts
  <2>4. TokensAreReal'
    BY <1>1, <1>4, <2>1, <2>2 DEF JoinInv, Tokens, TokensAreReal
  <2>5. ASSUME NEW f \in Enrollers, NEW g \in Enrollers, task'[f].pc = "answered"
        PROVE  config'[g] # task'[f].w
    BY <1>2, <1>3, <2>1, <2>3, <2>5 DEF JoinInv, Tokens
  <2>6. QED
    BY <2>4, <2>5 DEF Tokens
<1>11. Held(e) = 0 /\ Held(e)' = 0 /\ free \in Nat
  BY <1>1, <1>2, <1>3 DEF Held, JoinInv, Balance
<1>12. Balance'
  BY <1>1, <1>3, <1>6, <1>11, PoolStep
<1>13. QED
  BY <1>6, <1>7, <1>8, <1>9, <1>10, <1>12 DEF JoinInv

LEMMA NextJoin == JoinInv /\ [Next]_vars => JoinInv'
<1> SUFFICES ASSUME JoinInv, [Next]_vars PROVE JoinInv'
  OBVIOUS
<1>1. ASSUME NEW c \in Codes, Create(c) \/ Expire(c) \/ Revoke(c) PROVE JoinInv'
  BY <1>1, CodeStep
<1>2. ASSUME NEW e \in Enrollers,
             (\E c \in Codes : CmdEnroll(e, c)) \/ Match(e) \/ HandleEnrollNotFound(e) \/ Begin(e)
      PROVE  JoinInv'
  BY <1>2, EarlySteps
<1>3. ASSUME NEW e \in Enrollers, InsertWorker(e) PROVE JoinInv'
  BY <1>3, InsertStep
<1>4. ASSUME NEW e \in Enrollers, Consume(e) PROVE JoinInv'
  BY <1>4, ConsumeStep
<1>5. ASSUME NEW e \in Enrollers, Commit(e) PROVE JoinInv'
  BY <1>5, CommitStep
<1>6. ASSUME NEW e \in Enrollers, Fail(e) PROVE JoinInv'
  BY <1>6, GiveUpStep DEF Fail
<1>7. ASSUME NEW e \in Enrollers, SaveConfig(e) PROVE JoinInv'
  BY <1>7, SaveStep
<1>8. ASSUME NEW w \in Workers, DeleteWorker(w) PROVE JoinInv'
  BY <1>8, DeleteStep
<1>9. CASE UNCHANGED vars
  <2>1. Typed' /\ Inserts' /\ Locks' /\ Marks' /\ Tokens'
    BY <1>9 DEF vars, JoinInv, Typed, Inserts, Locks, Redeemable, Marks, Tokens, TokensAreReal
  <2>2. Balance'
    BY <1>9, PoolSame DEF vars, JoinInv
  <2>3. QED
    BY <2>1, <2>2 DEF JoinInv
<1>10. QED
  BY <1>1, <1>2, <1>3, <1>4, <1>5, <1>6, <1>7, <1>8, <1>9 DEF Next, EnrollStep

\* The inductive invariant holds throughout.
LEMMA AlwaysJoin == Spec => []JoinInv
BY InitJoin, NextJoin, PTL DEF Spec

-----------------------------------------------------------------------------
(* Theorems *)

\* No interleaving of enrolments, failures, revocations and deletions leaves the
\* rows, the locks, the pool and the files outside their types.
THEOREM TypeCorrect == Spec => []TypeOK
<1>1. JoinInv => TypeOK
  BY PoolFacts DEF JoinInv, Typed, TypeOK
<1>2. QED
  BY <1>1, AlwaysJoin, PTL

\* A code enrols one worker at a time, however many enrolments present it at once:
\* the UPDATE of Enroll asks for consumed_by IS NULL and holds the row to the commit.
THEOREM OneWorker == Spec => []AtMostOneWorker
<1>1. JoinInv => AtMostOneWorker
  BY DEF JoinInv, Marks, AtMostOneWorker
<1>2. QED
  BY <1>1, AlwaysJoin, PTL

\* Every way out of Enroll gives back the connections it took from the pool.
THEOREM PoolKept == Spec => []PoolBalanced
<1>1. JoinInv => PoolBalanced
  BY PoolFacts
<1>2. QED
  BY <1>1, AlwaysJoin, PTL

\* A token in worker.json belongs to a worker whose transaction committed, and to
\* one machine only.
THEOREM TokensKept == Spec => []TokensAreReal
<1>1. JoinInv => TokensAreReal
  BY DEF JoinInv, Tokens
<1>2. QED
  BY <1>1, AlwaysJoin, PTL

-----------------------------------------------------------------------------
(* Redemption in one step *)

\* What the abstract variables are of a state, and what they become.
State == [c \in Codes |-> code[c].st]
Holder == [c \in Codes |-> code[c].by]
Member == [w \in Workers |-> CASE worker[w] = "enrolled" -> "yes"
                               [] worker[w] = "deleted" -> "left"
                               [] OTHER -> "no"]

\* A step that shows outside its transaction in no row
LEMMA Hidden ==
    ASSUME \A c \in Codes : code'[c].st = code[c].st /\ code'[c].by = code[c].by,
           \A w \in Workers : worker'[w] # worker[w] => {worker[w], worker'[w]} \subseteq {"none", "pending"}
    PROVE  State' = State /\ Holder' = Holder /\ Member' = Member
BY DEF State, Holder, Member

LEMMA PromiseStep == JoinInv /\ [Next]_vars => [Promise!Next]_(Promise!code)
<1> SUFFICES ASSUME JoinInv, [Next]_vars PROVE Promise!Next \/ UNCHANGED <<State, Holder, Member>>
  BY DEF Promise!code, State, Holder, Member
<1>1. /\ code \in [Codes -> CodeRow]
      /\ worker \in [Workers -> {"none", "pending", "enrolled", "deleted"}]
  BY DEF JoinInv, Typed
<1>2. ASSUME NEW c \in Codes, Create(c) PROVE Promise!Issue(c)
  <2>1. /\ worker' = worker /\ code[c].st = "none"
        /\ \A x \in Codes : code'[x].st = (IF x = c THEN "live" ELSE code[x].st) /\ code'[x].by = code[x].by
    BY <1>1, <1>2 DEF Create, CodeRow
  <2>2. QED
    BY <2>1 DEF Promise!Issue
<1>3. ASSUME NEW c \in Codes, Revoke(c) PROVE Promise!Revoke(c)
  <2>1. /\ worker' = worker /\ code[c].st = "live" /\ code[c].by = None
        /\ \A x \in Codes : code'[x].st = (IF x = c THEN "gone" ELSE code[x].st) /\ code'[x].by = code[x].by
    BY <1>1, <1>3 DEF Revoke, CodeRow
  <2>2. QED
    BY <2>1 DEF Promise!Revoke
<1>4. ASSUME NEW c \in Codes, Expire(c) PROVE UNCHANGED <<State, Holder, Member>>
  <2>1. worker' = worker /\ \A x \in Codes : code'[x].st = code[x].st /\ code'[x].by = code[x].by
    BY <1>1, <1>4 DEF Expire, CodeRow
  <2>2. QED
    BY <2>1, Hidden
<1>5. ASSUME NEW e \in Enrollers, Commit(e)
      PROVE  \E c \in Codes, w \in Workers : Promise!Redeem(c, w)
  <2>1. PICK c \in Codes, w \in Workers :
           /\ c = task[e].code /\ w = task[e].w
           /\ worker[w] = "pending" /\ code[c].st = "live" /\ code[c].by = None
    BY <1>5 DEF Commit, JoinInv, Inserts, Locks, Redeemable
  <2>2. /\ \A x \in Codes : code'[x].st = code[x].st /\ code'[x].by = IF x = c THEN w ELSE code[x].by
        /\ \A v \in Workers : worker'[v] = IF v = w THEN "enrolled" ELSE worker[v]
    BY <1>1, <1>5, <2>1 DEF Commit, CodeRow
  <2>3. Promise!Redeem(c, w)
    BY <2>1, <2>2 DEF Promise!Redeem
  <2>4. QED
    BY <2>3
<1>6. ASSUME NEW w \in Workers, DeleteWorker(w) PROVE Promise!Leave(w)
  <2>1. /\ worker[w] = "enrolled"
        /\ \A v \in Workers : worker'[v] = IF v = w THEN "deleted" ELSE worker[v]
        /\ \A x \in Codes : code'[x].st = code[x].st /\ code'[x].by = IF code[x].by = w THEN None ELSE code[x].by
    BY <1>1, <1>6 DEF DeleteWorker, CodeRow
  <2>2. QED
    BY <2>1 DEF Promise!Leave
<1>7. ASSUME NEW e \in Enrollers, task[e].pc \notin {"idle", "answered"}, GiveUp(e), code' = code
      PROVE  UNCHANGED <<State, Holder, Member>>
  <2>1. task[e].pc \in PC
    BY DEF JoinInv, Typed, Task
  <2>2. task[e].w = None \/ worker[task[e].w] = "pending"
    BY <1>7, <2>1 DEF JoinInv, Inserts, Ids, PC
  <2>3. \A v \in Workers : worker'[v] # worker[v] => worker[v] = "pending" /\ worker'[v] = "none"
    BY <1>7, <2>2, JoinAssumption DEF GiveUp
  <2>4. QED
    BY <1>7, <2>3, Hidden
<1>8. ASSUME NEW e \in Enrollers, InsertWorker(e) PROVE UNCHANGED <<State, Holder, Member>>
  <2>1. code' = code /\ \A v \in Workers : worker'[v] # worker[v] => worker[v] = "none" /\ worker'[v] = "pending"
    BY <1>1, <1>8 DEF InsertWorker
  <2>2. QED
    BY <2>1, Hidden
<1>9. ASSUME code' = code, worker' = worker PROVE UNCHANGED <<State, Holder, Member>>
  BY <1>9, Hidden
<1>10. ASSUME NEW e \in Enrollers,
              \/ \E c \in Codes : CmdEnroll(e, c)
              \/ EnrollStep(e) \/ Fail(e) \/ SaveConfig(e)
       PROVE  (\E c \in Codes, w \in Workers : Promise!Redeem(c, w)) \/ UNCHANGED <<State, Holder, Member>>
  <2>1. CASE Consume(e)
    <3>1. code' = code /\ task[e].pc = "inserted" /\ (GiveUp(e) \/ worker' = worker)
      BY <2>1 DEF Consume
    <3>2. QED
      BY <1>7, <1>9, <3>1
  <2>2. CASE Fail(e)
    BY <1>7, <2>2 DEF Fail
  <2>3. CASE Match(e) \/ HandleEnrollNotFound(e) \/ Begin(e) \/ SaveConfig(e) \/ \E c \in Codes : CmdEnroll(e, c)
    BY <1>9, <2>3 DEF Match, HandleEnrollNotFound, Begin, SaveConfig, CmdEnroll
  <2>4. QED
    BY <1>5, <1>8, <1>10, <2>1, <2>2, <2>3 DEF EnrollStep
<1>11. CASE UNCHANGED vars
  BY <1>9, <1>11 DEF vars
<1>12. QED
  BY <1>2, <1>3, <1>4, <1>6, <1>10, <1>11 DEF Next, Promise!Next

\* The transactions of Enroll, with the locks, rollbacks and failures between them,
\* implement the redemption of a code in one step (HeldCodes).
THEOREM Redemption == Spec => RedeemsInOneStep
<1>1. Init => Promise!Init
  BY DEF Init, Promise!Init
<1>2. QED
  BY <1>1, AlwaysJoin, PromiseStep, PTL DEF Spec, RedeemsInOneStep, Promise!Spec

=============================================================================
