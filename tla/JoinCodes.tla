------------------------------ MODULE JoinCodes ------------------------------
(***************************************************************************)
(* Join codes: created by an owner, redeemed by Enroll, revoked, and let   *)
(* go again when the worker that redeemed them is deleted.                 *)
(*                                                                         *)
(* Enroll runs as three database interactions: the SELECT whose rows stay  *)
(* open, and therefore hold a pool connection, until Enroll returns; Begin, *)
(* which needs a second connection; and a transaction of an INSERT and an  *)
(* UPDATE under READ COMMITTED.  now() inside the transaction is its start. *)
(* Codes are told apart by identity: the presented text matches one code   *)
(* (bcrypt) or none, and a text that matches none ends at the SELECT.      *)
(***************************************************************************)
EXTENDS Naturals, FiniteSets

CONSTANTS
    Codes,       \* join_codes rows
    Workers,     \* workers rows, one for each enrolment that may commit
    Enrollers,   \* machines that enrol, and the goroutines that serve them
    PoolConns,   \* MaxConns of the pgx pool
    None

ASSUME JoinAssumption ==
    /\ PoolConns \in Nat \ {0}
    /\ None \notin Codes \cup Workers \cup Enrollers

VARIABLES
    code,      \* join_codes: does the row exist, consumed_by, is it past expires_at
    worker,    \* workers: row committed?
    task,      \* local state of each Enroll
    lock,      \* row lock of a code, held by an Enroll between UPDATE and COMMIT
    free,      \* connections left in the pool
    redeemed,  \* history: the workers that were ever enrolled with a code
    config     \* worker.json of the machine whose enroll command a goroutine serves

vars == <<code, worker, task, lock, free, redeemed, config>>

PC == {"idle", "posted", "matched", "begun", "inserted", "consumed", "answered"}
CodeRow == [st : {"none", "live", "gone"}, by : Workers \cup {None}, expired : BOOLEAN]
Task == [pc : PC, code : Codes \cup {None}, w : Workers \cup {None}, inTime : BOOLEAN]
IdleTask == [pc |-> "idle", code |-> None, w |-> None, inTime |-> FALSE]

TypeOK ==
    /\ code \in [Codes -> CodeRow]
    /\ worker \in [Workers -> {"none", "pending", "enrolled", "deleted"}]
    /\ task \in [Enrollers -> Task]
    /\ lock \in [Codes -> Enrollers \cup {None}]
    /\ free \in 0..PoolConns
    /\ redeemed \in [Codes -> SUBSET Workers]
    /\ config \in [Enrollers -> Workers \cup {None}]

Init ==
    /\ code = [c \in Codes |-> [st |-> "none", by |-> None, expired |-> FALSE]]
    /\ worker = [w \in Workers |-> "none"]
    /\ task = [e \in Enrollers |-> IdleTask]
    /\ lock = [c \in Codes |-> None]
    /\ free = PoolConns
    /\ redeemed = [c \in Codes |-> {}]
    /\ config = [e \in Enrollers |-> None]

-----------------------------------------------------------------------------
Create(c) ==
    /\ free > 0
    /\ code[c].st = "none"
    /\ code' = [code EXCEPT ![c].st = "live"]
    /\ UNCHANGED <<worker, task, lock, free, redeemed, config>>

\* fifteen minutes pass
Expire(c) ==
    /\ code[c].st = "live" /\ ~code[c].expired
    /\ code' = [code EXCEPT ![c].expired = TRUE]
    /\ UNCHANGED <<worker, task, lock, free, redeemed, config>>

\* (mutant) the DELETE does not wait for an enrolment under way
RevokeNow(c) ==
    /\ code[c].st = "live" /\ code[c].by = None
    /\ code' = [code EXCEPT ![c].st = "gone"]
    /\ UNCHANGED <<worker, task, lock, free, redeemed, config>>

\* DELETE ... WHERE consumed_by IS NULL waits for the row lock, then looks again.
Revoke(c) ==
    /\ free > 0
    /\ code[c].st = "live" /\ code[c].by = None /\ lock[c] = None
    /\ code' = [code EXCEPT ![c].st = "gone"]
    /\ UNCHANGED <<worker, task, lock, free, redeemed, config>>

\* Has the row no consumer?  The SELECT and the UPDATE of Enroll ask this, and each
\* compares expires_at with a now() of its own (Match, Consume).
Redeemable(c) == code[c].st = "live" /\ code[c].by = None

\* Bound of the model: an identifier is left for every enrolment under way.
WorkersLeft ==
    Cardinality({e \in Enrollers : task[e].pc \in {"posted", "matched", "begun"}})
        < Cardinality({w \in Workers : worker[w] = "none"})

\* The enroll command of a machine posts a code it was given, which may have expired,
\* been revoked or redeemed since.
CmdEnroll(e, c) ==
    /\ task[e].pc = "idle" /\ WorkersLeft
    /\ code[c].st # "none"
    /\ task' = [task EXCEPT ![e] = [IdleTask EXCEPT !.pc = "posted", !.code = c]]
    /\ UNCHANGED <<code, worker, lock, free, redeemed, config>>

\* The SELECT finds the code; its rows keep their connection.
Match(e) ==
    LET c == task[e].code IN
    /\ task[e].pc = "posted" /\ free > 0
    /\ Redeemable(c) /\ ~code[c].expired
    /\ task' = [task EXCEPT ![e].pc = "matched"]
    /\ free' = free - 1
    /\ UNCHANGED <<code, worker, lock, redeemed, config>>

\* The SELECT does not find it: 404, and its connection is back in the pool.
HandleEnrollNotFound(e) ==
    LET c == task[e].code IN
    /\ task[e].pc = "posted" /\ free > 0
    /\ ~(Redeemable(c) /\ ~code[c].expired)
    /\ task' = [task EXCEPT ![e] = IdleTask]
    /\ UNCHANGED <<code, worker, lock, free, redeemed, config>>

\* (mutant) the transaction is opened next to one more open query
BeginThird(e) ==
    /\ task[e].pc = "matched" /\ free > 1
    /\ task' = [task EXCEPT ![e].pc = "begun", ![e].inTime = ~code[task[e].code].expired]
    /\ free' = free - 1
    /\ UNCHANGED <<code, worker, lock, redeemed, config>>

\* pool.Begin needs another connection, and the clock of the transaction starts.
Begin(e) ==
    /\ task[e].pc = "matched" /\ free > 0
    /\ task' = [task EXCEPT ![e].pc = "begun", ![e].inTime = ~code[task[e].code].expired]
    /\ free' = free - 1
    /\ UNCHANGED <<code, worker, lock, redeemed, config>>

InsertWorker(e) ==
    /\ task[e].pc = "begun"
    /\ \E w \in Workers :
          /\ worker[w] = "none"
          /\ worker' = [worker EXCEPT ![w] = "pending"]
          /\ task' = [task EXCEPT ![e].pc = "inserted", ![e].w = w]
    /\ UNCHANGED <<code, lock, free, redeemed, config>>

\* (mutant) a rollback gives back two connections where it held one
ReleaseTwo(e) ==
    /\ task' = [task EXCEPT ![e] = IdleTask]
    /\ worker' = [w \in Workers |-> IF w = task[e].w THEN "none" ELSE worker[w]]
    /\ lock' = [c \in Codes |-> IF lock[c] = e THEN None ELSE lock[c]]
    /\ free' = free + 2

\* (mutant) a rollback forgets the rows of the SELECT
LeakRows(e) ==
    /\ task' = [task EXCEPT ![e] = IdleTask]
    /\ worker' = [w \in Workers |-> IF w = task[e].w THEN "none" ELSE worker[w]]
    /\ lock' = [c \in Codes |-> IF lock[c] = e THEN None ELSE lock[c]]
    /\ free' = free + (IF task[e].pc \in {"posted", "matched"} THEN 0 ELSE 1)

\* Enroll returns without a commit: the deferred Rollback undoes the INSERT and
\* the UPDATE, and Rollback and rows.Close give their connections back.
GiveUp(e) ==
    /\ task' = [task EXCEPT ![e] = IdleTask]
    /\ worker' = [w \in Workers |-> IF w = task[e].w THEN "none" ELSE worker[w]]
    /\ lock' = [c \in Codes |-> IF lock[c] = e THEN None ELSE lock[c]]
    /\ free' = free + (CASE task[e].pc = "posted" -> 0 [] task[e].pc = "matched" -> 1 [] OTHER -> 2)

\* (mutant) the UPDATE does not ask for consumed_by IS NULL
ConsumeBlindly(e) ==
    /\ task[e].pc = "inserted" /\ lock[task[e].code] = None
    /\ code[task[e].code].st = "live" /\ task[e].inTime
    /\ lock' = [lock EXCEPT ![task[e].code] = e]
    /\ task' = [task EXCEPT ![e].pc = "consumed"]
    /\ UNCHANGED <<code, worker, free, redeemed, config>>

\* UPDATE join_codes ... WHERE id = $1 AND consumed_by IS NULL AND expires_at > now():
\* waits while another transaction holds the row, and then needs one row to match.
Consume(e) ==
    LET c == task[e].code IN
    /\ task[e].pc = "inserted" /\ lock[c] = None
    /\ \/ /\ Redeemable(c) /\ task[e].inTime
          /\ lock' = [lock EXCEPT ![c] = e]
          /\ task' = [task EXCEPT ![e].pc = "consumed"]
          /\ UNCHANGED <<worker, free>>
       \/ /\ ~(Redeemable(c) /\ task[e].inTime)
          /\ GiveUp(e)
    /\ UNCHANGED <<code, redeemed, config>>

\* (mutant) the answer is written before the commit, whose error comes too late
AnswerFirst(e) ==
    /\ task[e].pc = "consumed"
    /\ config' = [config EXCEPT ![e] = task[e].w]
    /\ GiveUp(e)
    /\ UNCHANGED <<code, redeemed>>

Commit(e) ==
    LET c == task[e].code
        w == task[e].w
    IN  /\ task[e].pc = "consumed"
        /\ code' = [code EXCEPT ![c].by = w]
        /\ worker' = [worker EXCEPT ![w] = "enrolled"]
        /\ lock' = [lock EXCEPT ![c] = None]
        /\ redeemed' = [redeemed EXCEPT ![c] = @ \cup {w}]
        /\ task' = [task EXCEPT ![e] = [IdleTask EXCEPT !.pc = "answered", !.w = w]]
        /\ free' = free + 2
        /\ UNCHANGED config

\* The enroll command gets the token and writes its file, over an older one if the
\* machine was enrolled before; or the answer or the file is lost, and the token with it.
SaveConfig(e) ==
    /\ task[e].pc = "answered"
    /\ config' \in {config, [config EXCEPT ![e] = task[e].w]}
    /\ task' = [task EXCEPT ![e] = IdleTask]
    /\ UNCHANGED <<code, worker, lock, free, redeemed>>

\* The client goes away, or a statement fails.
Fail(e) ==
    /\ task[e].pc \notin {"idle", "answered"}
    /\ GiveUp(e)
    /\ UNCHANGED <<code, redeemed, config>>

\* DELETE FROM workers: ON DELETE SET NULL clears consumed_by of its code (V4).
DeleteWorker(w) ==
    /\ free > 0
    /\ worker[w] = "enrolled"
    /\ worker' = [worker EXCEPT ![w] = "deleted"]
    /\ code' = [c \in Codes |-> IF code[c].by = w THEN [code[c] EXCEPT !.by = None] ELSE code[c]]
    /\ UNCHANGED <<task, lock, free, redeemed, config>>

EnrollStep(e) ==
    \/ Match(e) \/ HandleEnrollNotFound(e)
    \/ Begin(e) \/ InsertWorker(e) \/ Consume(e) \/ Commit(e)

Next ==
    \/ \E c \in Codes : Create(c) \/ Expire(c) \/ Revoke(c)
    \/ \E e \in Enrollers : (\E c \in Codes : CmdEnroll(e, c)) \/ EnrollStep(e) \/ Fail(e) \/ SaveConfig(e)
    \/ \E w \in Workers : DeleteWorker(w)

Spec == Init /\ [][Next]_vars

\* Statements return.  The pool hands connections out in the order they were
\* asked for, and PostgreSQL queues the waiters of a row lock, hence strong fairness.
FairSpec == Spec /\ \A e \in Enrollers :
                      /\ SF_vars(Match(e) \/ HandleEnrollNotFound(e))
                      /\ SF_vars(Begin(e)) /\ SF_vars(Consume(e))
                      /\ WF_vars(InsertWorker(e)) /\ WF_vars(Commit(e))

-----------------------------------------------------------------------------
(* Safety *)

\* However many enrolments present one code at the same time, at most one
\* worker that exists was enrolled with it, and then it is the one the row names.
AtMostOneWorker ==
    \A c \in Codes : \A w \in redeemed[c] : worker[w] = "enrolled" =>
        /\ code[c].by = w
        /\ \A v \in redeemed[c] : worker[v] = "enrolled" => v = w

\* The transactions of Enroll implement redemption in one step: the worker and its
\* mark on the code appear together at the commit and go together when the worker is
\* deleted, no rollback shows, and a revoked code enrols nobody any more, not even
\* through an enrolment that had matched it before.
Promise == INSTANCE HeldCodes WITH
    state <- [c \in Codes |-> code[c].st],
    holder <- [c \in Codes |-> code[c].by],
    member <- [w \in Workers |-> CASE worker[w] = "enrolled" -> "yes"
                                   [] worker[w] = "deleted" -> "left"
                                   [] OTHER -> "no"]
RedeemsInOneStep == Promise!Spec

\* No connection of the pool is lost, on any path out of Enroll.
Held(e) == CASE task[e].pc \in {"idle", "posted", "answered"} -> 0 [] task[e].pc = "matched" -> 1 [] OTHER -> 2
PoolBalanced ==
    /\ (\A e \in Enrollers : Held(e) = 0) => free = PoolConns
    /\ \A e \in Enrollers : free + Held(e) <= PoolConns

\* A machine holds the token of a worker that was committed, never of one that a
\* rollback has taken back, and no two machines hold the same one.
TokensAreReal ==
    /\ \A e \in Enrollers : config[e] # None => worker[config[e]] \in {"enrolled", "deleted"}
    /\ \A e, f \in Enrollers : config[e] = config[f] /\ config[e] # None => e = f

\* Every request to enrol is answered, as long as the pool has a connection more
\* than there are concurrent enrolments (each waits for its second one).
Over(e) == task[e].pc \in {"idle", "answered"}
EnrollAnswers == \A e \in Enrollers : ~Over(e) ~> Over(e)

=============================================================================
