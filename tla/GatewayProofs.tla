---------------------------- MODULE GatewayProofs ----------------------------
(***************************************************************************)
(* Token validation and rate limit, for any number of requests, users,     *)
(* keys and ticks: how long a replaced key is accepted, and how much the   *)
(* limiter lets through although it drops its buckets from time to time.   *)
(***************************************************************************)
EXTENDS Gateway, FiniteSetTheorems, TLAPS

-----------------------------------------------------------------------------
(* The inductive invariants *)

\* Requests that may still make the limiter drop its map
Active == {r \in Requests : req[r].pc \notin {"idle", "holding"}}
Typed == TypeOK /\ IsFiniteSet(Active) /\ map + Cardinality(Active) <= asks

\* A key set is stored soon after it was published, and accepted for an hour from then on.
Timely(s) ==
    /\ req[s].pc \in {"fetch", "answered"} => req[s].at <= now /\ now <= req[s].at + Timeout
    /\ req[s].pc = "answered" =>
          req[s].got \in Keys /\ (retired[req[s].got] # None => req[s].at <= retired[req[s].got])
    /\ req[s].pc = "recheck" => cache.fresh = now
    /\ req[s].pc = "authed" =>
          /\ req[s].at <= now
          /\ retired[req[s].key] # None => req[s].at <= retired[req[s].key] + (Hour + Timeout)
Cached ==
    /\ cache.fresh <= now
    /\ cache.key # None /\ retired[cache.key] # None => cache.fresh <= retired[cache.key] + Timeout
KeysInv ==
    /\ Typed
    /\ \A k \in Keys : retired[k] # None => k < key
    /\ Cached
    /\ \A s \in Tasks : Timely(s)

\* What a user can still spend of the bucket in map m: of the current map, or of a
\* dropped one that a request holds
Holds(r, u, m) == req[r].pc = "holding" /\ req[r].user = u /\ req[r].of = m
Left(u, m) ==
    IF m = map THEN IF bucket[<<u, m>>] = Absent THEN Burst ELSE bucket[<<u, m>>]
    ELSE IF \E r \in Requests : Holds(r, u, m) THEN bucket[<<u, m>>] ELSE 0

\* d[m] is at least what is left in the maps before m.
Covers(d, u) == \A m, n \in Nat : m < n => d[m] + Left(u, m) <= d[n]
Budgeted(u) ==
    \E d \in [Nat -> Nat] : Covers(d, u) /\ passed[u] + d[map + 1] <= (map + 1) * Burst + now
BudgetInv ==
    /\ Typed
    /\ \A u \in Users, m \in Maps : m > map => bucket[<<u, m>>] = Absent
    /\ \A r \in Requests : req[r].pc = "holding" =>
          req[r].of <= map /\ bucket[<<req[r].user, req[r].of>>] # Absent
    /\ \A u \in Users : Budgeted(u)

-----------------------------------------------------------------------------
(* One request moves *)

LEMMA Constants ==
    /\ Hour \in Nat /\ Timeout \in Nat /\ Window \in Nat /\ Burst \in Nat /\ Burst > 0
    /\ MaxBuckets \in Nat /\ MaxKeys \in Nat /\ MaxKeys > 0 /\ MaxTime \in Nat /\ MaxAsks \in Nat
    /\ None \notin Keys /\ None \in Int /\ None \notin Nat
    /\ Keys \subseteq Nat /\ Maps \subseteq Nat /\ 0 \in Maps /\ 0 \in 0..MaxTime
<1>1. /\ Hour \in Nat /\ Timeout \in Nat /\ Window \in Nat /\ Burst \in Nat /\ Burst > 0
      /\ MaxBuckets \in Nat /\ MaxKeys \in Nat /\ MaxKeys > 0 /\ MaxTime \in Nat /\ MaxAsks \in Nat
  BY GatewayAssumption
<1>2. None \in Int /\ None \notin Nat
  BY DEF None
<1>3. Keys \subseteq Nat /\ Maps \subseteq Nat /\ 0 \in Maps /\ 0 \in 0..MaxTime
  BY <1>1 DEF Keys, Maps
<1>4. None \notin Keys
  BY <1>2, <1>3
<1>5. QED
  BY <1>1, <1>2, <1>3, <1>4

\* The others stay where they are.
Moves(r) ==
    /\ req' \in [Tasks -> Request]
    /\ \A s \in Tasks : s # r => req'[s] = req[s]

LEMMA Fields ==
    ASSUME TypeOK, NEW r \in Tasks
    PROVE  /\ req[r] \in Request
           /\ req[r].pc \in PC /\ req[r].key \in Keys /\ req[r].user \in Users
           /\ req[r].at \in 0..MaxTime /\ req[r].got \in Keys \cup {None} /\ req[r].of \in Maps
           /\ req[r].at \in Nat /\ req[r].of \in Nat
<1>1. req[r] \in Request
  BY DEF TypeOK
<1>2. /\ req[r].pc \in PC /\ req[r].key \in Keys /\ req[r].user \in Users
      /\ req[r].at \in 0..MaxTime /\ req[r].got \in Keys \cup {None} /\ req[r].of \in Maps
  BY <1>1 DEF Request
<1>3. req[r].at \in Nat /\ req[r].of \in Nat
  BY <1>2, Constants
<1>4. QED
  BY <1>1, <1>2, <1>3

LEMMA MoveTo ==
    ASSUME TypeOK, NEW r \in Tasks, NEW pc \in PC, req' = To(r, pc)
    PROVE  /\ Moves(r)
           /\ req'[r].pc = pc /\ req'[r].key = req[r].key /\ req'[r].user = req[r].user
           /\ pc # "idle" => req'[r].at = now
<1>1. PICK t \in 0..MaxTime : t = IF pc = "idle" THEN 0 ELSE now
  BY Constants DEF TypeOK
<1>2. req' = [req EXCEPT ![r].pc = pc, ![r].at = t, ![r].got = None, ![r].of = 0]
  BY <1>1 DEF To
<1>3. req \in [Tasks -> Request] /\ req[r] \in Request /\ None \in Keys \cup {None} /\ 0 \in Maps
  BY Fields, Constants DEF TypeOK
<1> DEFINE q == [req[r] EXCEPT !.pc = pc, !.at = t, !.got = None, !.of = 0]
<1>4. req' = [req EXCEPT ![r] = q]
  BY <1>2, <1>3
<1>5. /\ q \in Request /\ q.pc = pc /\ q.key = req[r].key /\ q.user = req[r].user /\ q.at = t
  BY <1>1, <1>3 DEF Request
<1> HIDE DEF q
<1>6. req'[r] = q /\ Moves(r)
  BY <1>3, <1>4, <1>5 DEF Moves
<1>7. QED
  BY <1>1, <1>5, <1>6

\* Ask, Answer, Refresh and Allow set some fields and keep the others.
LEMMA MoveSet ==
    ASSUME TypeOK, NEW r \in Tasks, NEW q \in Request, req' = [req EXCEPT ![r] = q]
    PROVE  Moves(r) /\ req'[r] = q
BY DEF TypeOK, Moves

\* What each operation makes of its request
LEMMA Places ==
    ASSUME TypeOK, NEW r \in Tasks
    PROVE  /\ \A k \in Keys, u \in Users : Ask(r, k, u) =>
                 /\ Moves(r) /\ req'[r].pc = "lookup" /\ req[r].pc = "idle"
           /\ Lookup(r) =>
                 /\ Moves(r) /\ req[r].pc = "lookup" /\ req'[r].key = req[r].key
                 /\ req'[r].pc = IF Usable(req[r].key) THEN "authed" ELSE "fetch"
                 /\ req'[r].at = now
           /\ Answer(r) =>
                 /\ Moves(r) /\ req[r].pc = "fetch" /\ req'[r].pc = "answered"
                 /\ req'[r].at = req[r].at /\ req'[r].got = key
           /\ FetchFails(r) =>
                 /\ Moves(r) /\ req[r].pc \in {"fetch", "answered"}
                 /\ req'[r].pc = IF r = Boot THEN "fetch" ELSE "idle"
                 /\ r = Boot => req'[r].at = now
           /\ Refresh(r) =>
                 /\ Moves(r) /\ req[r].pc = "answered"
                 /\ req'[r].pc = IF r = Boot THEN "idle" ELSE "recheck"
           /\ Recheck(r) =>
                 /\ Moves(r) /\ req[r].pc = "recheck" /\ req'[r].key = req[r].key
                 /\ req'[r].pc = IF cache.key = req[r].key THEN "authed" ELSE "idle"
                 /\ req'[r].pc = "authed" => req'[r].at = now
           /\ Spend(r) =>
                 /\ Moves(r) /\ req[r].pc = "holding" /\ req'[r].pc = "idle"
<1> USE Fields DEF PC
<1>0. req \in [Tasks -> Request] /\ req[r] \in Request /\ key \in Keys
  BY DEF TypeOK
<1>1. ASSUME NEW k \in Keys, NEW u \in Users, Ask(r, k, u)
      PROVE  /\ Moves(r) /\ req'[r].pc = "lookup" /\ req[r].pc = "idle"
  <2> DEFINE q == [req[r] EXCEPT !.pc = "lookup", !.key = k, !.user = u]
  <2>1. req' = [req EXCEPT ![r] = q]
    BY <1>0, <1>1 DEF Ask
  <2>2. q \in Request /\ q.pc = "lookup"
    BY <1>0 DEF Request
  <2> HIDE DEF q
  <2>3. QED
    BY <1>1, <2>1, <2>2, MoveSet DEF Ask
<1>2. ASSUME Lookup(r)
      PROVE  /\ Moves(r) /\ req[r].pc = "lookup" /\ req'[r].key = req[r].key
             /\ req'[r].pc = IF Usable(req[r].key) THEN "authed" ELSE "fetch"
             /\ req'[r].at = now
  <2>1. PICK pc \in PC : pc = (IF Usable(req[r].key) THEN "authed" ELSE "fetch") /\ pc # "idle"
    OBVIOUS
  <2>2. req' = To(r, pc) /\ req[r].pc = "lookup"
    BY <1>2, <2>1 DEF Lookup
  <2>3. QED
    BY <2>1, <2>2, MoveTo
<1>3. ASSUME Answer(r)
      PROVE  /\ Moves(r) /\ req[r].pc = "fetch" /\ req'[r].pc = "answered"
             /\ req'[r].at = req[r].at /\ req'[r].got = key
  <2> DEFINE q == [req[r] EXCEPT !.pc = "answered", !.got = key]
  <2>1. req' = [req EXCEPT ![r] = q]
    BY <1>0, <1>3 DEF Answer
  <2>2. q \in Request /\ q.pc = "answered" /\ q.at = req[r].at /\ q.got = key
    BY <1>0 DEF Request
  <2> HIDE DEF q
  <2>3. QED
    BY <1>3, <2>1, <2>2, MoveSet DEF Answer
<1>4. ASSUME FetchFails(r)
      PROVE  /\ Moves(r) /\ req[r].pc \in {"fetch", "answered"}
             /\ req'[r].pc = IF r = Boot THEN "fetch" ELSE "idle"
             /\ r = Boot => req'[r].at = now
  <2>1. PICK pc \in PC : pc = IF r = Boot THEN "fetch" ELSE "idle"
    OBVIOUS
  <2>2. req' = To(r, pc) /\ req[r].pc \in {"fetch", "answered"}
    BY <1>4, <2>1 DEF FetchFails
  <2>3. QED
    BY <2>1, <2>2, MoveTo
<1>5. ASSUME Refresh(r)
      PROVE  /\ Moves(r) /\ req[r].pc = "answered"
             /\ req'[r].pc = IF r = Boot THEN "idle" ELSE "recheck"
  <2>1. CASE r = Boot
    BY <1>5, <2>1, MoveTo DEF Refresh
  <2>2. CASE r # Boot
    <3> DEFINE q == [req[r] EXCEPT !.pc = "recheck"]
    <3>1. req' = [req EXCEPT ![r] = q]
      BY <1>0, <1>5, <2>2 DEF Refresh
    <3>2. q \in Request /\ q.pc = "recheck"
      BY <1>0 DEF Request
    <3> HIDE DEF q
    <3>3. QED
      BY <1>5, <2>2, <3>1, <3>2, MoveSet DEF Refresh
  <2>3. QED
    BY <2>1, <2>2
<1>6. ASSUME Recheck(r)
      PROVE  /\ Moves(r) /\ req[r].pc = "recheck" /\ req'[r].key = req[r].key
             /\ req'[r].pc = IF cache.key = req[r].key THEN "authed" ELSE "idle"
             /\ req'[r].pc = "authed" => req'[r].at = now
  <2>1. PICK pc \in PC : pc = IF cache.key = req[r].key THEN "authed" ELSE "idle"
    OBVIOUS
  <2>2. req' = To(r, pc) /\ req[r].pc = "recheck"
    BY <1>6, <2>1 DEF Recheck
  <2>3. QED
    BY <2>1, <2>2, MoveTo
<1>7. ASSUME Spend(r)
      PROVE  Moves(r) /\ req[r].pc = "holding" /\ req'[r].pc = "idle"
  BY <1>7, MoveTo DEF Spend
<1>8. QED
  BY <1>1, <1>2, <1>3, <1>4, <1>5, <1>6, <1>7

\* The map a request takes its bucket from: there is one for every request made.
LEMMA AllowFacts ==
    ASSUME Typed, NEW r \in Requests, Allow(r)
    PROVE  /\ map' \in Maps /\ (map' = map \/ map' = map + 1)
           /\ Moves(r) /\ req[r].pc = "authed" /\ req'[r].pc = "holding"
           /\ req'[r].user = req[r].user /\ req'[r].of = map'
           /\ bucket' = [bucket EXCEPT ![<<req[r].user, map'>>] = IF @ = Absent THEN Burst ELSE @]
           /\ <<req[r].user, map'>> \in Users \X Maps
           /\ last' \in 0..MaxTime
<1>1. r \in Tasks /\ req \in [Tasks -> Request] /\ req[r] \in Request /\ req[r].user \in Users
  BY Fields DEF Typed, Tasks, TypeOK
<1>2. req[r].pc = "authed" /\ (map' = map \/ map' = map + 1) /\ (last' = now \/ last' = last)
  BY DEF Allow
<1>3. PICK a \in Nat : a = Cardinality(Active) /\ a > 0
  <2>1. r \in Active /\ IsFiniteSet(Active)
    BY <1>2 DEF Active, Typed
  <2>2. Cardinality(Active) \in Nat /\ Cardinality(Active) # 0
    BY <2>1, FS_CardinalityType, FS_EmptySet
  <2>3. QED
    BY <2>2
<1>4. map' \in Maps
  <2>1. map \in Nat /\ asks \in Nat /\ asks <= MaxAsks /\ MaxAsks \in Nat /\ map + a <= asks
    BY <1>3, Constants DEF Typed, TypeOK, Maps
  <2>2. QED
    BY <1>2, <1>3, <2>1 DEF Maps
<1>5. PICK m \in Maps : m = map'
  BY <1>4
<1>6. req' = [req EXCEPT ![r].pc = "holding", ![r].of = m]
  BY <1>5 DEF Allow
<1> DEFINE q == [req[r] EXCEPT !.pc = "holding", !.of = m]
<1>7. req' = [req EXCEPT ![r] = q]
  BY <1>1, <1>6
<1>8. q \in Request /\ q.pc = "holding" /\ q.of = m /\ q.user = req[r].user
  BY <1>1 DEF Request, PC
<1> HIDE DEF q
<1>9. Moves(r) /\ req'[r] = q
  BY <1>1, <1>7, <1>8, MoveSet DEF Typed
<1>10. bucket' = [bucket EXCEPT ![<<req[r].user, map'>>] = IF @ = Absent THEN Burst ELSE @]
  BY DEF Allow, TakeBucket
<1>11. QED
  BY <1>1, <1>2, <1>4, <1>5, <1>8, <1>9, <1>10 DEF Typed, TypeOK

-----------------------------------------------------------------------------
(* Types *)

\* A request that is made is a map more that may be needed, and one that goes to its
\* bucket or is refused is one less.
LEMMA ActiveMoves ==
    ASSUME Typed, NEW r \in Tasks, Moves(r)
    PROVE  /\ req'[r].pc \in {"idle", "holding"} \/ req[r].pc \notin {"idle", "holding"} =>
                 Active' \subseteq Active
           /\ Active' \subseteq Active \cup {r}
           /\ req'[r].pc \in {"idle", "holding"} => r \notin Active'
<1>1. \A s \in Requests : s \in Tasks
  BY DEF Tasks
<1>2. QED
  BY <1>1 DEF Active, Moves

LEMMA ActiveCount ==
    ASSUME Typed, asks' \in Nat, map' \in Nat,
           \/ Active' \subseteq Active /\ asks' = asks /\ map' = map
           \/ \E r \in Active : Active' \subseteq Active \ {r} /\ asks' = asks /\ map' <= map + 1
           \/ \E r \in Requests : Active' \subseteq Active \cup {r} /\ asks' = asks + 1 /\ map' = map
    PROVE  IsFiniteSet(Active') /\ map' + Cardinality(Active') <= asks'
<1>1. PICK c \in Nat, k \in Nat : c = Cardinality(Active) /\ k = map /\ IsFiniteSet(Active) /\ asks \in Nat
  BY FS_CardinalityType, Constants DEF Typed, TypeOK
<1>2. k + c <= asks
  BY <1>1 DEF Typed
<1>3. CASE Active' \subseteq Active /\ asks' = asks /\ map' = map
  <2>1. IsFiniteSet(Active') /\ Cardinality(Active') <= c /\ Cardinality(Active') \in Nat
    BY <1>1, <1>3, FS_Subset, FS_CardinalityType
  <2>2. PICK e \in Nat : e = Cardinality(Active') /\ e <= c
    BY <2>1
  <2>3. k + e <= asks
    BY <1>1, <1>2, <2>2
  <2>4. QED
    BY <1>1, <1>3, <2>1, <2>2, <2>3
<1>4. CASE \E r \in Active : Active' \subseteq Active \ {r} /\ asks' = asks /\ map' <= map + 1
  <2>1. PICK r \in Active : Active' \subseteq Active \ {r} /\ asks' = asks /\ map' <= map + 1
    BY <1>4
  <2>2. IsFiniteSet(Active \ {r}) /\ Cardinality(Active \ {r}) = c - 1
    BY <1>1, FS_RemoveElement
  <2>3. IsFiniteSet(Active') /\ Cardinality(Active') <= c - 1 /\ Cardinality(Active') \in Nat
    BY <2>1, <2>2, FS_Subset, FS_CardinalityType
  <2>4. PICK e \in Nat, l \in Nat : e = Cardinality(Active') /\ e <= c - 1 /\ l = map' /\ l <= k + 1
    BY <1>1, <2>1, <2>3
  <2>5. l + e <= asks
    BY <1>1, <1>2, <2>4
  <2>6. QED
    BY <2>1, <2>3, <2>4, <2>5
<1>5. CASE \E r \in Requests : Active' \subseteq Active \cup {r} /\ asks' = asks + 1 /\ map' = map
  <2>1. PICK r \in Requests : Active' \subseteq Active \cup {r} /\ asks' = asks + 1 /\ map' = map
    BY <1>5
  <2>2. IsFiniteSet(Active \cup {r}) /\ Cardinality(Active \cup {r}) \in Nat
        /\ Cardinality(Active \cup {r}) <= c + 1
    <3>1. /\ IsFiniteSet(Active \cup {r})
          /\ Cardinality(Active \cup {r}) = IF r \in Active THEN c ELSE c + 1
      BY <1>1, FS_AddElement
    <3>2. QED
      BY <3>1
  <2>3. IsFiniteSet(Active') /\ Cardinality(Active') \in Nat
        /\ Cardinality(Active') <= Cardinality(Active \cup {r})
    BY <2>1, <2>2, FS_Subset, FS_CardinalityType
  <2>4. PICK e \in Nat, f \in Nat : e = Cardinality(Active') /\ f = Cardinality(Active \cup {r})
                                    /\ e <= f /\ f <= c + 1
    BY <2>2, <2>3
  <2>5. k + e <= asks + 1
    BY <1>1, <1>2, <2>4
  <2>6. QED
    BY <1>1, <2>1, <2>3, <2>4, <2>5
<1>6. QED
  BY <1>3, <1>4, <1>5

LEMMA InitTyped == Init => Typed
<1> SUFFICES ASSUME Init PROVE Typed
  OBVIOUS
<1>1. PICK u \in Users : u = CHOOSE v \in Users : TRUE
  BY GatewayAssumption
<1>2. 1 \in Keys /\ 0 \in 0..MaxTime /\ 0 \in Maps /\ 0 \in 0..MaxAsks
  BY Constants DEF Keys, Maps
<1>3. req = [r \in Tasks |-> [pc |-> IF r = Boot THEN "fetch" ELSE "idle", key |-> 1,
                             user |-> u, at |-> 0, got |-> None, of |-> 0]]
  BY <1>1 DEF Init
<1>4. req \in [Tasks -> Request]
  <2> SUFFICES ASSUME NEW r \in Tasks
               PROVE  [pc |-> IF r = Boot THEN "fetch" ELSE "idle", key |-> 1,
                       user |-> u, at |-> 0, got |-> None, of |-> 0] \in Request
    BY <1>3
  <2>1. QED
    BY <1>2 DEF Request, PC
<1>5. TypeOK
  <2>1. retired \in [Keys -> 0..MaxTime \cup {None}]
    BY DEF Init
  <2>2. bucket \in [Users \X Maps -> 0..Burst \cup {Absent}]
    BY DEF Init
  <2>3. cache \in [key : Keys \cup {None}, fresh : 0..MaxTime] /\ passed \in [Users -> Nat]
    BY <1>2 DEF Init
  <2>4. now \in 0..MaxTime /\ key \in Keys /\ last \in 0..MaxTime /\ map \in Maps /\ asks \in 0..MaxAsks
    BY <1>2 DEF Init
  <2>5. QED
    BY <1>4, <2>1, <2>2, <2>3, <2>4 DEF TypeOK
<1>6. Active = {}
  <2>1. \A r \in Requests : r \in Tasks /\ r # Boot
    BY GatewayAssumption DEF Tasks
  <2>2. QED
    BY <1>3, <2>1 DEF Active
<1>7. map = 0 /\ asks = 0 /\ Cardinality(Active) = 0 /\ IsFiniteSet(Active)
  BY <1>6, FS_EmptySet DEF Init
<1>8. map + Cardinality(Active) <= asks
  BY <1>7
<1>9. QED
  BY <1>5, <1>7, <1>8 DEF Typed

LEMMA TypedSteps == Typed /\ [Next]_vars => Typed'
<1> SUFFICES ASSUME Typed, [Next]_vars PROVE Typed'
  OBVIOUS
<1>1. /\ TypeOK /\ map \in Nat /\ asks \in Nat /\ now \in Nat /\ MaxTime \in Nat /\ Burst \in Nat
      /\ 0..MaxTime \subseteq Nat
  BY Constants DEF Typed, TypeOK
<1>2. \A r \in Requests : r \in Tasks
  BY DEF Tasks
<1>3. ASSUME UNCHANGED <<req, map, asks>>, TypeOK' PROVE Typed'
  <2>1. Active' = Active
    BY <1>3 DEF Active
  <2>2. QED
    BY <1>3, <2>1 DEF Typed
\* A move that takes no bucket
<1>4. ASSUME NEW r \in Tasks, Moves(r),
             req'[r].pc \in {"idle", "holding"} \/ req[r].pc \notin {"idle", "holding"},
             UNCHANGED <<now, keyvars, last, map, asks>>,
             cache' \in [key : Keys \cup {None}, fresh : 0..MaxTime],
             bucket' \in [Users \X Maps -> 0..Burst \cup {Absent}], passed' \in [Users -> Nat]
      PROVE  Typed'
  <2>1. TypeOK'
    BY <1>1, <1>4 DEF TypeOK, Moves, keyvars
  <2>2. Active' \subseteq Active
    BY <1>4, ActiveMoves
  <2>3. QED
    BY <1>1, <1>4, <2>1, <2>2, ActiveCount DEF Typed
<1>5. CASE UNCHANGED vars
  BY <1>1, <1>3, <1>5 DEF vars, keyvars, limvars, TypeOK
<1>6. CASE Tick
  <2>1. now' \in 0..MaxTime
    BY <1>1, <1>6 DEF Tick
  <2>2. bucket' \in [Users \X Maps -> 0..Burst \cup {Absent}]
    <3>1. \A x \in Users \X Maps : bucket[x] \in 0..Burst \cup {Absent}
      BY <1>1 DEF TypeOK
    <3>2. \A x \in Users \X Maps :
             (IF bucket[x] < Burst THEN bucket[x] + 1 ELSE bucket[x]) \in 0..Burst \cup {Absent}
      BY <1>1, <3>1 DEF Absent
    <3>3. QED
      BY <1>6, <3>2 DEF Tick
  <2>3. TypeOK'
    BY <1>1, <1>6, <2>1, <2>2 DEF Tick, TypeOK, keyvars
  <2>4. QED
    BY <1>3, <1>6, <2>3 DEF Tick
<1>7. CASE Rotate
  <2>1. key' \in Keys
    BY <1>1, <1>7, Constants DEF Rotate, Keys, TypeOK
  <2>2. retired' \in [Keys -> 0..MaxTime \cup {None}]
    BY <1>1, <1>7 DEF Rotate, TypeOK
  <2>3. TypeOK'
    BY <1>1, <1>7, <2>1, <2>2 DEF Rotate, TypeOK, limvars
  <2>4. QED
    BY <1>3, <1>7, <2>3 DEF Rotate, limvars
<1>8. ASSUME NEW r \in Requests, NEW k \in Keys, NEW u \in Users, Ask(r, k, u) PROVE Typed'
  <2>1. Moves(r) /\ asks' = asks + 1 /\ asks < MaxAsks /\ UNCHANGED <<now, keyvars, cache, limvars>>
    BY <1>1, <1>2, <1>8, Places DEF Ask
  <2>2. asks' \in 0..MaxAsks
    BY <1>1, <2>1, Constants
  <2>3. TypeOK'
    BY <1>1, <2>1, <2>2 DEF TypeOK, Moves, keyvars, limvars
  <2>4. Active' \subseteq Active \cup {r}
    BY <1>2, <2>1, ActiveMoves
  <2>5. map' = map /\ map' \in Nat /\ asks' \in Nat
    BY <1>1, <2>1 DEF limvars
  <2>6. IsFiniteSet(Active') /\ map' + Cardinality(Active') <= asks'
    BY <2>1, <2>4, <2>5, ActiveCount
  <2>7. QED
    BY <2>3, <2>6 DEF Typed
<1>9. ASSUME NEW r \in Tasks, Lookup(r) \/ Answer(r) \/ FetchFails(r) \/ Recheck(r) PROVE Typed'
  <2>1. /\ Moves(r)
        /\ req'[r].pc \in {"idle", "holding"} \/ req[r].pc \notin {"idle", "holding"}
    BY <1>1, <1>9, Places
  <2>2. UNCHANGED <<now, keyvars, cache, limvars, asks>>
    BY <1>9 DEF Lookup, Answer, FetchFails, Recheck
  <2>3. QED
    BY <1>1, <1>4, <2>1, <2>2 DEF TypeOK, limvars
<1>10. ASSUME NEW r \in Tasks, Refresh(r) PROVE Typed'
  <2>1. /\ Moves(r)
        /\ req'[r].pc \in {"idle", "holding"} \/ req[r].pc \notin {"idle", "holding"}
    BY <1>1, <1>10, Places
  <2>2. cache' \in [key : Keys \cup {None}, fresh : 0..MaxTime]
    <3>1. req[r].got \in Keys \cup {None} /\ now \in 0..MaxTime
      BY <1>1, Fields DEF TypeOK
    <3>2. QED
      BY <1>10, <3>1 DEF Refresh
  <2>3. UNCHANGED <<now, keyvars, limvars, asks>>
    BY <1>10 DEF Refresh
  <2>4. QED
    BY <1>1, <1>4, <2>1, <2>2, <2>3 DEF TypeOK, limvars
<1>11. ASSUME NEW r \in Requests, Allow(r) PROVE Typed'
  <2>1. /\ map' \in Maps /\ (map' = map \/ map' = map + 1) /\ map' \in Nat
        /\ Moves(r) /\ req[r].pc = "authed" /\ req'[r].pc = "holding" /\ last' \in 0..MaxTime
    BY <1>11, AllowFacts, Constants
  <2>2. bucket' \in [Users \X Maps -> 0..Burst \cup {Absent}]
    <3>1. PICK x \in Users \X Maps : bucket' = [bucket EXCEPT ![x] = IF @ = Absent THEN Burst ELSE @]
      BY <1>11, AllowFacts
    <3>2. Burst \in 0..Burst
      BY <1>1
    <3>3. QED
      BY <1>1, <3>1, <3>2 DEF TypeOK
  <2>3. UNCHANGED <<now, keyvars, cache, asks, passed>>
    BY <1>11 DEF Allow
  <2>4. TypeOK'
    BY <1>1, <2>1, <2>2, <2>3 DEF TypeOK, Moves, keyvars
  <2>5. Active' \subseteq Active \ {r} /\ r \in Active
    <3>1. Active' \subseteq Active /\ r \notin Active'
      BY <1>2, <2>1, ActiveMoves
    <3>2. r \in Active
      BY <2>1 DEF Active
    <3>3. QED
      BY <3>1, <3>2
  <2>6. IsFiniteSet(Active') /\ map' + Cardinality(Active') <= asks'
    <3>1. map' <= map + 1 /\ asks' = asks /\ asks' \in Nat
      BY <1>1, <2>1, <2>3
    <3>2. QED
      BY <2>1, <2>5, <3>1, ActiveCount
  <2>7. QED
    BY <2>4, <2>6 DEF Typed
<1>12. ASSUME NEW r \in Requests, Spend(r) PROVE Typed'
  <2>1. /\ Moves(r) /\ req'[r].pc \in {"idle", "holding"}
        /\ UNCHANGED <<now, keyvars, cache, last, map, asks>>
    BY <1>1, <1>2, <1>12, Places DEF Spend
  <2>2. PICK x \in Users \X Maps, u \in Users : x = <<req[r].user, req[r].of>> /\ u = req[r].user
    BY <1>1, <1>2, Fields
  <2>3. /\ bucket' = bucket \/ (bucket[x] > 0 /\ bucket' = [bucket EXCEPT ![x] = @ - 1])
        /\ passed' = passed \/ passed' = [passed EXCEPT ![u] = @ + 1]
    BY <1>12, <2>2 DEF Spend
  <2>4. bucket[x] \in 0..Burst \cup {Absent} /\ passed[u] \in Nat
    BY <1>1 DEF TypeOK
  <2>5. bucket[x] > 0 => bucket[x] - 1 \in 0..Burst
    BY <1>1, <2>4 DEF Absent
  <2>6. bucket' \in [Users \X Maps -> 0..Burst \cup {Absent}] /\ passed' \in [Users -> Nat]
    <3>1. bucket \in [Users \X Maps -> 0..Burst \cup {Absent}] /\ passed \in [Users -> Nat]
      BY <1>1 DEF TypeOK
    <3>2. bucket' \in [Users \X Maps -> 0..Burst \cup {Absent}]
      BY <2>3, <2>5, <3>1
    <3>3. passed' \in [Users -> Nat]
      BY <2>3, <2>4, <3>1
    <3>4. QED
      BY <3>2, <3>3
  <2>7. QED
    BY <1>1, <1>2, <1>4, <2>1, <2>6 DEF TypeOK
<1>13. QED
  BY <1>2, <1>5, <1>6, <1>7, <1>8, <1>9, <1>10, <1>11, <1>12 DEF Next

\* The cache, the requests and the limiter are well formed: a map of the limiter is dropped
\* at most once for each request made.
THEOREM TypeCorrect == Spec => []TypeOK
<1>1. Typed => TypeOK
  BY DEF Typed
<1>2. QED
  BY <1>1, InitTyped, TypedSteps, PTL DEF Spec

-----------------------------------------------------------------------------
(* The keys *)

LEMMA InitKeys == Init => KeysInv
<1> SUFFICES ASSUME Init PROVE KeysInv
  OBVIOUS
<1>1. Typed
  BY InitTyped
<1>2. \A k \in Keys : retired[k] = None
  BY DEF Init
<1>3. cache.key = None /\ cache.fresh = 0 /\ now = 0
  BY DEF Init
<1>4. ASSUME NEW s \in Tasks PROVE Timely(s)
  <2>1. req[s].pc \in {"fetch", "idle"} /\ req[s].at = 0
    BY <1>4 DEF Init
  <2>2. QED
    BY <1>3, <2>1, Constants DEF Timely
<1>5. QED
  BY <1>1, <1>2, <1>3, <1>4 DEF KeysInv, Cached

\* The others are as timely as they were, if a set is only stored as of now.
LEMMA OthersTimely ==
    ASSUME KeysInv, NEW r \in Tasks, Moves(r), UNCHANGED <<now, keyvars>>,
           cache' = cache \/ cache'.fresh = now,
           Cached', Timely(r)', Typed'
    PROVE  KeysInv'
<1>1. ASSUME NEW s \in Tasks, s # r PROVE Timely(s)'
  <2>1. req'[s] = req[s] /\ Timely(s)
    BY <1>1 DEF Moves, KeysInv
  <2>2. cache.fresh = now => cache'.fresh = now
    OBVIOUS
  <2>3. QED
    BY <2>1, <2>2 DEF Timely, keyvars
<1>2. QED
  BY <1>1 DEF KeysInv, keyvars

LEMMA KeysSteps == KeysInv /\ [Next]_vars => KeysInv'
<1> SUFFICES ASSUME KeysInv, [Next]_vars PROVE KeysInv'
  OBVIOUS
<1>1. Typed /\ TypeOK /\ Typed' /\ TypeOK'
  BY TypedSteps DEF KeysInv, Typed
<1>2. /\ now \in Nat /\ Hour \in Nat /\ Timeout \in Nat /\ cache.fresh \in Nat /\ cache.fresh <= now
      /\ \A k \in Keys : retired[k] = None \/ retired[k] \in Nat
      /\ \A s \in Tasks : req[s].at \in Nat /\ req[s].key \in Keys /\ req[s].got \in Keys \cup {None}
      /\ key \in Keys /\ None \notin Keys /\ None \notin Nat
  BY <1>1, Constants, Fields DEF TypeOK, KeysInv, Cached
<1>3. \A r \in Requests : r \in Tasks
  BY DEF Tasks
<1>4. \A k \in Keys : k \in Nat /\ (retired[k] # None => k < key)
  BY Constants DEF KeysInv
<1>5. CASE UNCHANGED <<now, keyvars, cache, req>>
  BY <1>1, <1>5 DEF KeysInv, Cached, Timely, keyvars
<1>6. CASE Tick
  <2>1. now' = now + 1 /\ UNCHANGED <<keyvars, cache, req>>
    BY <1>6 DEF Tick
  <2>2. ASSUME NEW s \in Tasks PROVE Timely(s)'
    <3>1. req'[s] = req[s] /\ Timely(s)
      BY <2>1, <2>2 DEF KeysInv
    <3>2. req[s].pc # "idle" => req[s].pc \in {"fetch", "answered"} /\ now < req[s].at + Timeout
      BY <1>6, <2>2 DEF Tick
    <3>3. req[s].pc \in {"fetch", "answered"} => req[s].at <= now + 1 /\ now + 1 <= req[s].at + Timeout
      BY <1>2, <3>1, <3>2 DEF Timely
    <3>4. QED
      BY <2>1, <3>1, <3>2, <3>3 DEF Timely, keyvars
  <2>3. cache.fresh <= now + 1
    BY <1>2
  <2>4. Cached'
    BY <2>1, <2>3 DEF Cached, KeysInv, keyvars
  <2>5. QED
    BY <1>1, <2>1, <2>2, <2>4 DEF KeysInv, keyvars
<1>7. CASE Rotate
  <2>1. key' = key + 1 /\ retired' = [retired EXCEPT ![key] = now] /\ UNCHANGED <<now, cache, req>>
    BY <1>7 DEF Rotate
  <2>2. \A k \in Keys : retired'[k] = IF k = key THEN now ELSE retired[k]
    BY <1>1, <1>2, <2>1 DEF TypeOK
  <2>3. \A k \in Keys : retired'[k] # None => k < key'
    BY <1>2, <1>4, <2>1, <2>2
  <2>4. Cached'
    <3>1. CASE cache.key = key
      <4>1. cache.fresh <= now + Timeout
        BY <1>2
      <4>2. QED
        BY <1>2, <2>1, <2>2, <3>1, <4>1 DEF Cached
    <3>2. CASE cache.key # key
      <4>1. cache.key # None => cache.key \in Keys
        BY <1>1 DEF TypeOK
      <4>2. QED
        BY <1>2, <2>1, <2>2, <3>2, <4>1 DEF Cached, KeysInv
    <3>3. QED
      BY <3>1, <3>2
  <2>5. ASSUME NEW s \in Tasks PROVE Timely(s)'
    <3>1. req'[s] = req[s] /\ Timely(s) /\ req[s].key \in Keys
      BY <1>2, <2>1, <2>5 DEF KeysInv
    <3>2. (req[s].pc = "answered") => (retired'[req[s].got] # None => req[s].at <= retired'[req[s].got])
      BY <1>2, <2>2, <3>1 DEF Timely
    <3>3. req[s].pc = "authed" /\ retired'[req[s].key] # None =>
             req[s].at <= retired'[req[s].key] + (Hour + Timeout)
      <4>1. CASE req[s].key = key
        <5>1. retired'[req[s].key] = now
          BY <2>2, <3>1, <4>1
        <5>2. req[s].at <= now => req[s].at <= now + (Hour + Timeout)
          BY <1>2
        <5>3. QED
          BY <3>1, <5>1, <5>2 DEF Timely
      <4>2. CASE req[s].key # key
        BY <2>2, <3>1, <4>2 DEF Timely
      <4>3. QED
        BY <4>1, <4>2
    <3>4. QED
      BY <2>1, <3>1, <3>2, <3>3 DEF Timely
  <2>6. QED
    BY <1>1, <2>3, <2>4, <2>5 DEF KeysInv
<1>8. ASSUME UNCHANGED <<now, keyvars, cache>> PROVE Cached'
  BY <1>8 DEF KeysInv, Cached, keyvars
<1>9. ASSUME NEW r \in Requests, NEW k \in Keys, NEW u \in Users, Ask(r, k, u) PROVE KeysInv'
  <2>1. Moves(r) /\ req'[r].pc = "lookup" /\ UNCHANGED <<now, keyvars, cache>>
    BY <1>1, <1>3, <1>9, Places DEF Ask
  <2>2. Timely(r)'
    BY <2>1 DEF Timely
  <2>3. QED
    BY <1>1, <1>3, <1>8, <2>1, <2>2, OthersTimely
\* A request is authenticated now, with the key set of the cache.
<1>10. ASSUME NEW r \in Tasks, cache.key = req[r].key, now <= cache.fresh + Hour
       PROVE  retired[req[r].key] # None => now <= retired[req[r].key] + (Hour + Timeout)
  <2>1. req[r].key \in Keys /\ (retired[req[r].key] = None \/ retired[req[r].key] \in Nat)
    BY <1>2
  <2>2. retired[req[r].key] # None => cache.fresh <= retired[req[r].key] + Timeout
    BY <1>2, <1>10, <2>1 DEF KeysInv, Cached
  <2>3. QED
    BY <1>2, <1>10, <2>1, <2>2
<1>11. ASSUME NEW r \in Tasks, Lookup(r) PROVE KeysInv'
  <2>1. /\ Moves(r) /\ req'[r].key = req[r].key /\ req'[r].at = now
        /\ req'[r].pc = IF Usable(req[r].key) THEN "authed" ELSE "fetch"
        /\ UNCHANGED <<now, keyvars, cache>>
    BY <1>1, <1>11, Places DEF Lookup
  <2>2. Usable(req[r].key) => cache.key = req[r].key /\ now <= cache.fresh + Hour
    BY <1>2 DEF Usable
  <2>3. now <= now + Timeout
    BY <1>2
  <2>4. Timely(r)'
    BY <1>2, <1>10, <2>1, <2>2, <2>3 DEF Timely, keyvars
  <2>5. QED
    BY <1>1, <1>8, <2>1, <2>4, OthersTimely
<1>12. ASSUME NEW r \in Tasks, Answer(r) PROVE KeysInv'
  <2>1. /\ Moves(r) /\ req[r].pc = "fetch" /\ req'[r].pc = "answered"
        /\ req'[r].at = req[r].at /\ req'[r].got = key
        /\ UNCHANGED <<now, keyvars, cache>>
    BY <1>1, <1>12, Places DEF Answer
  <2>2. retired[key] = None
    BY <1>2, <1>4
  <2>3. Timely(r)
    BY DEF KeysInv
  <2>4. Timely(r)'
    BY <1>2, <2>1, <2>2, <2>3 DEF Timely, keyvars
  <2>5. QED
    BY <1>1, <1>8, <2>1, <2>4, OthersTimely
<1>13. ASSUME NEW r \in Tasks, FetchFails(r) PROVE KeysInv'
  <2>1. /\ Moves(r) /\ (req'[r].pc = "idle" \/ (req'[r].pc = "fetch" /\ req'[r].at = now))
        /\ UNCHANGED <<now, keyvars, cache>>
    BY <1>1, <1>13, Places DEF FetchFails
  <2>2. now <= now + Timeout
    BY <1>2
  <2>3. Timely(r)'
    BY <1>2, <2>1, <2>2 DEF Timely
  <2>4. QED
    BY <1>1, <1>8, <2>1, <2>3, OthersTimely
<1>14. ASSUME NEW r \in Tasks, Refresh(r) PROVE KeysInv'
  <2>1. /\ Moves(r) /\ req[r].pc = "answered" /\ req'[r].pc \in {"idle", "recheck"}
        /\ UNCHANGED <<now, keyvars>> /\ cache'.key = req[r].got /\ cache'.fresh = now
    BY <1>1, <1>14, Places DEF Refresh
  <2>2. /\ req[r].at <= now /\ now <= req[r].at + Timeout /\ req[r].got \in Keys
        /\ retired[req[r].got] # None => req[r].at <= retired[req[r].got]
    BY <2>1 DEF KeysInv, Timely
  <2>3. retired[req[r].got] # None => now <= retired[req[r].got] + Timeout
    BY <1>2, <2>2
  <2>4. Cached'
    BY <1>2, <2>1, <2>3 DEF Cached, keyvars
  <2>5. Timely(r)'
    BY <2>1 DEF Timely
  <2>6. QED
    BY <1>1, <2>1, <2>4, <2>5, OthersTimely
<1>15. ASSUME NEW r \in Tasks, Recheck(r) PROVE KeysInv'
  <2>1. /\ Moves(r) /\ req[r].pc = "recheck" /\ req'[r].key = req[r].key
        /\ req'[r].pc = IF cache.key = req[r].key THEN "authed" ELSE "idle"
        /\ req'[r].pc = "authed" => req'[r].at = now
        /\ UNCHANGED <<now, keyvars, cache>>
    BY <1>1, <1>15, Places DEF Recheck
  <2>2. cache.fresh = now
    BY <2>1 DEF KeysInv, Timely
  <2>3. now <= cache.fresh + Hour
    BY <1>2, <2>2
  <2>4. Timely(r)'
    BY <1>2, <1>10, <2>1, <2>3 DEF Timely, keyvars
  <2>5. QED
    BY <1>1, <1>8, <2>1, <2>4, OthersTimely
<1>16. ASSUME NEW r \in Requests, Allow(r) \/ Spend(r) PROVE KeysInv'
  <2>1. /\ Moves(r) /\ req'[r].pc \in {"idle", "holding"} /\ UNCHANGED <<now, keyvars, cache>>
    BY <1>1, <1>3, <1>16, Places, AllowFacts DEF Allow, Spend
  <2>2. Timely(r)'
    BY <2>1 DEF Timely
  <2>3. QED
    BY <1>1, <1>3, <1>8, <2>1, <2>2, OthersTimely
<1>17. UNCHANGED vars => UNCHANGED <<now, keyvars, cache, req>>
  BY DEF vars, keyvars
<1>18. QED
  BY <1>3, <1>5, <1>6, <1>7, <1>9, <1>11, <1>12, <1>13, <1>14, <1>15, <1>16, <1>17 DEF Next

\* Parse accepts a token whose key the provider has replaced for an hour and one fetch at
\* most, however fetches overlap: a key set is stored no later than a fetch takes after
\* it was published, also when it replaces a newer one.
THEOREM OldKeysEnd == Spec => []RetiredKeysEnd
<1>1. KeysInv => RetiredKeysEnd
  <2> SUFFICES ASSUME KeysInv, NEW r \in Requests, req[r].pc = "authed", retired[req[r].key] # None
               PROVE  req[r].at - retired[req[r].key] <= Hour + Timeout
    BY DEF RetiredKeysEnd
  <2>1. r \in Tasks
    BY DEF Tasks
  <2>2. req[r].at <= retired[req[r].key] + (Hour + Timeout)
    BY <2>1 DEF KeysInv, Timely
  <2>3. req[r].at \in Nat /\ req[r].key \in Keys /\ Hour \in Nat /\ Timeout \in Nat
    BY <2>1, Fields, Constants DEF KeysInv, Typed
  <2>4. retired[req[r].key] \in Nat
    <3>1. retired \in [Keys -> 0..MaxTime \cup {None}] /\ 0..MaxTime \subseteq Nat
      BY Constants DEF KeysInv, Typed, TypeOK
    <3>2. QED
      BY <2>3, <3>1
  <2>5. QED
    BY <2>2, <2>3, <2>4
<1>2. QED
  BY <1>1, InitKeys, KeysSteps, PTL DEF Spec

-----------------------------------------------------------------------------
(* The buckets *)

LEMMA LeftFacts ==
    ASSUME BudgetInv
    PROVE  /\ \A u \in Users, m \in Maps :
                 bucket[<<u, m>>] = Absent \/ (bucket[<<u, m>>] \in Nat /\ bucket[<<u, m>>] <= Burst)
           /\ \A u \in Users, m \in Nat : Left(u, m) \in Nat
           /\ \A r \in Requests : \A u, m : Holds(r, u, m) =>
                 /\ m \in Maps /\ m <= map /\ u \in Users /\ bucket[<<u, m>>] # Absent
                 /\ Left(u, m) = bucket[<<u, m>>]
           /\ map \in Nat /\ map \in Maps /\ now \in Nat /\ Burst \in Nat
           /\ \A u \in Users : passed[u] \in Nat
<1>1. TypeOK /\ Burst \in Nat /\ Maps \subseteq Nat
  BY Constants DEF BudgetInv, Typed
<1>2. map \in Nat /\ map \in Maps /\ now \in Nat /\ \A u \in Users : passed[u] \in Nat
  BY <1>1, Constants DEF TypeOK
<1>3. \A u \in Users, m \in Maps :
         bucket[<<u, m>>] = Absent \/ (bucket[<<u, m>>] \in Nat /\ bucket[<<u, m>>] <= Burst)
  <2> SUFFICES ASSUME NEW u \in Users, NEW m \in Maps
               PROVE  bucket[<<u, m>>] = Absent \/ (bucket[<<u, m>>] \in Nat /\ bucket[<<u, m>>] <= Burst)
    OBVIOUS
  <2>1. bucket[<<u, m>>] \in 0..Burst \cup {Absent}
    BY <1>1 DEF TypeOK
  <2>2. QED
    BY <1>1, <2>1
<1>4. ASSUME NEW r \in Requests, NEW u, NEW m, Holds(r, u, m)
      PROVE  /\ m \in Maps /\ m <= map /\ u \in Users /\ bucket[<<u, m>>] # Absent
             /\ Left(u, m) = bucket[<<u, m>>]
  <2>1. r \in Tasks /\ req[r].pc = "holding" /\ req[r].user = u /\ req[r].of = m
    BY <1>4 DEF Tasks, Holds
  <2>2. m \in Maps /\ u \in Users /\ m <= map /\ bucket[<<u, m>>] # Absent
    BY <1>1, <2>1, Fields DEF BudgetInv
  <2>3. QED
    BY <1>4, <2>2 DEF Left
<1>5. ASSUME NEW u \in Users, NEW m \in Nat PROVE Left(u, m) \in Nat
  <2>1. CASE m = map
    BY <1>1, <1>2, <1>3, <2>1 DEF Left
  <2>2. CASE m # map /\ \E r \in Requests : Holds(r, u, m)
    <3>1. m \in Maps /\ bucket[<<u, m>>] # Absent
      BY <1>4, <2>2
    <3>2. Left(u, m) = bucket[<<u, m>>]
      BY <2>2 DEF Left
    <3>3. QED
      BY <1>3, <3>1, <3>2
  <2>3. CASE m # map /\ ~\E r \in Requests : Holds(r, u, m)
    BY <2>3 DEF Left
  <2>4. QED
    BY <2>1, <2>2, <2>3
<1>6. QED
  BY <1>1, <1>2, <1>3, <1>4, <1>5

\* Where less is left and nothing passes, the budget is kept.
LEMMA LessLeft ==
    ASSUME BudgetInv, NEW u \in Users, map' = map, now' = now, passed' = passed,
           \A m \in Nat : Left(u, m)' \in Nat /\ Left(u, m)' <= Left(u, m)
    PROVE  Budgeted(u)'
<1>1. PICK d \in [Nat -> Nat] : Covers(d, u) /\ passed[u] + d[map + 1] <= (map + 1) * Burst + now
  BY DEF BudgetInv, Budgeted
<1>2. ASSUME NEW m \in Nat, NEW n \in Nat, m < n PROVE d[m] + Left(u, m)' <= d[n]
  <2>1. d[m] + Left(u, m) <= d[n]
    BY <1>1, <1>2 DEF Covers
  <2>2. PICK a \in Nat, b \in Nat : a = Left(u, m) /\ b = Left(u, m)' /\ b <= a
    BY LeftFacts
  <2>3. d[m] + a <= d[n] /\ d[m] \in Nat /\ d[n] \in Nat
    BY <2>1, <2>2
  <2>4. d[m] + b <= d[n]
    BY <2>2, <2>3
  <2>5. QED
    BY <2>2, <2>4
<1>3. Covers(d, u)'
  BY <1>2 DEF Covers
<1>4. QED
  BY <1>1, <1>3 DEF Budgeted

\* A request that neither takes nor leaves a bucket
LEMMA SameLeft ==
    ASSUME BudgetInv, Typed', NEW r \in Tasks, Moves(r),
           req[r].pc # "holding", req'[r].pc # "holding",
           map' = map, now' = now, passed' = passed, bucket' = bucket
    PROVE  BudgetInv'
<1>1. \A s \in Requests : req[s].pc = "holding" \/ req'[s].pc = "holding" => s \in Tasks /\ req'[s] = req[s]
  BY DEF Moves, Tasks
<1>2. ASSUME NEW u \in Users, NEW m \in Nat PROVE Left(u, m)' = Left(u, m)
  <2>1. (\E s \in Requests : Holds(s, u, m))' <=> \E s \in Requests : Holds(s, u, m)
    BY <1>1 DEF Holds
  <2>2. QED
    BY <2>1 DEF Left
<1>3. \A u \in Users : Budgeted(u)'
  <2> SUFFICES ASSUME NEW u \in Users PROVE Budgeted(u)'
    OBVIOUS
  <2>1. \A m \in Nat : Left(u, m)' \in Nat /\ Left(u, m)' <= Left(u, m)
    <3> SUFFICES ASSUME NEW m \in Nat PROVE Left(u, m)' \in Nat /\ Left(u, m)' <= Left(u, m)
      OBVIOUS
    <3>1. PICK a \in Nat : a = Left(u, m) /\ a = Left(u, m)'
      BY <1>2, LeftFacts
    <3>2. QED
      BY <3>1
  <2>2. QED
    BY <2>1, LessLeft
<1>4. QED
  BY <1>1, <1>3 DEF BudgetInv

\* An hour of the limiter: time fills the current bucket by as much as it adds to the budget.
LEMMA TickBudget ==
    ASSUME BudgetInv, Typed', Tick
    PROVE  BudgetInv'
<1>1. /\ now' = now + 1 /\ req' = req /\ map' = map /\ passed' = passed
      /\ \A x \in Users \X Maps : bucket'[x] = IF bucket[x] < Burst THEN bucket[x] + 1 ELSE bucket[x]
  BY DEF Tick
<1>2. \A r \in Requests : r \in Tasks /\ req[r].pc # "holding"
  BY DEF Tick, Tasks
<1>3. \A u, m : ~\E r \in Requests : Holds(r, u, m) \/ Holds(r, u, m)'
  BY <1>1, <1>2 DEF Holds
<1>4. Burst \in Nat /\ Absent = Burst + 1
  BY Constants DEF Absent
<1>5. \A u \in Users, m \in Maps : m > map => bucket'[<<u, m>>] = Absent
  <2> SUFFICES ASSUME NEW u \in Users, NEW m \in Maps, m > map PROVE bucket'[<<u, m>>] = Absent
    OBVIOUS
  <2>1. bucket[<<u, m>>] = Absent
    BY DEF BudgetInv
  <2>2. QED
    BY <1>1, <1>4, <2>1
<1>6. ASSUME NEW u \in Users PROVE Budgeted(u)'
  <2>1. PICK d \in [Nat -> Nat] : Covers(d, u) /\ passed[u] + d[map + 1] <= (map + 1) * Burst + now
    BY DEF BudgetInv, Budgeted
  <2>2. map \in Nat /\ map \in Maps /\ now \in Nat /\ passed[u] \in Nat /\ map + 1 \in Nat /\ map < map + 1
    BY LeftFacts
  <2>3. PICK e \in [Nat -> Nat] : \A n \in Nat : e[n] = IF n > map THEN d[n] + 1 ELSE d[n]
    <3> DEFINE f == [n \in Nat |-> IF n > map THEN d[n] + 1 ELSE d[n]]
    <3>1. f \in [Nat -> Nat] /\ \A n \in Nat : f[n] = IF n > map THEN d[n] + 1 ELSE d[n]
      OBVIOUS
    <3> HIDE DEF f
    <3>2. QED
      BY <3>1
  <2>4. Left(u, map)' \in Nat /\ Left(u, map)' <= Left(u, map) + 1
    <3>1. bucket[<<u, map>>] = Absent \/ (bucket[<<u, map>>] \in Nat /\ bucket[<<u, map>>] <= Burst)
      BY <2>2, LeftFacts
    <3>2. PICK b \in Nat : b = bucket[<<u, map>>]
      BY <1>4, <3>1
    <3>3. bucket'[<<u, map>>] = IF b < Burst THEN b + 1 ELSE b
      BY <1>1, <2>2, <3>2
    <3>4. Left(u, map) = (IF b = Absent THEN Burst ELSE b)
      BY <3>2 DEF Left
    <3>5. Left(u, map)' = (IF bucket'[<<u, map>>] = Absent THEN Burst ELSE bucket'[<<u, map>>])
      BY <1>1 DEF Left
    <3>6. QED
      BY <1>4, <3>1, <3>2, <3>3, <3>4, <3>5
  <2>5. \A m \in Nat : m # map => Left(u, m)' = 0
    BY <1>1, <1>3 DEF Left
  <2>6. ASSUME NEW m \in Nat, NEW n \in Nat, m < n PROVE e[m] + Left(u, m)' <= e[n]
    <3>1. d[m] \in Nat /\ d[n] \in Nat /\ d[m] + Left(u, m) <= d[n] /\ Left(u, m) \in Nat
      BY <2>1, <2>6, LeftFacts DEF Covers
    <3>2. d[m] <= d[n]
      BY <3>1
    <3>3. CASE m = map
      <4>1. PICK a \in Nat, b \in Nat : a = Left(u, m) /\ b = Left(u, m)' /\ b <= a + 1
        <5>1. PICK b \in Nat : b = Left(u, map)' /\ b <= Left(u, map) + 1
          BY <2>4
        <5>2. b = Left(u, m)' /\ Left(u, m) = Left(u, map)
          BY <1>1, <3>3, <5>1
        <5>3. QED
          BY <3>1, <5>1, <5>2
      <4>2. e[m] = d[m] /\ e[n] = d[n] + 1
        BY <2>2, <2>3, <2>6, <3>3
      <4>3. d[m] + b <= d[n] + 1
        BY <3>1, <4>1
      <4>4. QED
        BY <4>1, <4>2, <4>3
    <3>4. CASE m # map
      BY <2>2, <2>3, <2>5, <2>6, <3>2, <3>1, <3>4
    <3>5. QED
      BY <3>3, <3>4
  <2>7. Covers(e, u)'
    BY <2>6 DEF Covers
  <2>8. passed[u] + e[map + 1] <= (map + 1) * Burst + (now + 1)
    <3>1. PICK k \in Nat, c \in Nat : k = map + 1 /\ c = k * Burst
      BY <1>4, <2>2
    <3>2. e[k] = d[k] + 1 /\ d[k] \in Nat
      BY <2>2, <2>3, <3>1
    <3>3. passed[u] + d[k] <= c + now
      BY <2>1, <3>1
    <3>4. passed[u] + e[k] <= c + (now + 1)
      BY <2>2, <3>2, <3>3
    <3>5. QED
      BY <3>1, <3>4
  <2>9. (passed[u] + e[map + 1] <= (map + 1) * Burst + now)'
    BY <1>1, <2>8
  <2>10. QED
    BY <2>3, <2>7, <2>9 DEF Budgeted
<1>7. QED
  BY <1>1, <1>2, <1>5, <1>6 DEF BudgetInv

\* A bucket that is taken out of the current map, full if it is new
LEMMA TakeBudget ==
    ASSUME BudgetInv, Typed', NEW r \in Requests, Allow(r), map' = map
    PROVE  BudgetInv'
<1>1. /\ now' = now /\ passed' = passed
      /\ Moves(r) /\ req[r].pc = "authed" /\ req'[r].pc = "holding"
      /\ req'[r].user = req[r].user /\ req'[r].of = map
  BY AllowFacts DEF Allow, BudgetInv
<1>2. PICK x \in Users : x = req[r].user
  BY Fields DEF BudgetInv, Typed, Tasks
<1>3. Burst \in Nat /\ Absent = Burst + 1
  BY Constants DEF Absent
<1>4. \A u \in Users, m \in Maps : bucket'[<<u, m>>] =
         IF u = x /\ m = map /\ bucket[<<u, m>>] = Absent THEN Burst ELSE bucket[<<u, m>>]
  <2>1. /\ bucket' = [bucket EXCEPT ![<<x, map>>] = IF @ = Absent THEN Burst ELSE @]
        /\ <<x, map>> \in Users \X Maps
    BY <1>2, AllowFacts DEF BudgetInv
  <2>2. bucket \in [Users \X Maps -> 0..Burst \cup {Absent}]
    BY DEF BudgetInv, Typed, TypeOK
  <2>3. QED
    BY <2>1, <2>2
<1>5. \A s \in Requests : s \in Tasks /\ (s # r => req'[s] = req[s])
  BY <1>1 DEF Moves, Tasks
<1>6. ASSUME NEW u \in Users, NEW m \in Nat PROVE Left(u, m)' = Left(u, m)
  <2>1. CASE m = map
    <3>1. map \in Maps
      BY LeftFacts
    <3>2. bucket'[<<u, map>>] =
             IF u = x /\ bucket[<<u, map>>] = Absent THEN Burst ELSE bucket[<<u, map>>]
      BY <1>4, <3>1
    <3>3. Left(u, map) = IF bucket[<<u, map>>] = Absent THEN Burst ELSE bucket[<<u, map>>]
      BY DEF Left
    <3>4. Left(u, m)' = IF bucket'[<<u, map>>] = Absent THEN Burst ELSE bucket'[<<u, map>>]
      BY <2>1 DEF Left
    <3>5. QED
      BY <1>3, <2>1, <3>2, <3>3, <3>4
  <2>2. CASE m # map
    <3>1. (\E s \in Requests : Holds(s, u, m))' <=> \E s \in Requests : Holds(s, u, m)
      BY <1>1, <1>5, <2>2 DEF Holds
    <3>2. CASE \E s \in Requests : Holds(s, u, m)
      <4>1. m \in Maps
        BY <3>2, LeftFacts
      <4>2. bucket'[<<u, m>>] = bucket[<<u, m>>]
        BY <1>4, <2>2, <4>1
      <4>3. QED
        BY <2>2, <3>1, <3>2, <4>2 DEF Left
    <3>3. CASE ~\E s \in Requests : Holds(s, u, m)
      BY <2>2, <3>1, <3>3 DEF Left
    <3>4. QED
      BY <3>2, <3>3
  <2>3. QED
    BY <2>1, <2>2
<1>7. \A u \in Users : Budgeted(u)'
  <2> SUFFICES ASSUME NEW u \in Users PROVE Budgeted(u)'
    OBVIOUS
  <2>1. \A m \in Nat : Left(u, m)' \in Nat /\ Left(u, m)' <= Left(u, m)
    <3> SUFFICES ASSUME NEW m \in Nat PROVE Left(u, m)' \in Nat /\ Left(u, m)' <= Left(u, m)
      OBVIOUS
    <3>1. PICK a \in Nat : a = Left(u, m) /\ a = Left(u, m)'
      BY <1>6, LeftFacts
    <3>2. QED
      BY <3>1
  <2>2. QED
    BY <1>1, <2>1, LessLeft
<1>8. \A u \in Users, m \in Maps : m > map => bucket'[<<u, m>>] = Absent
  <2> SUFFICES ASSUME NEW u \in Users, NEW m \in Maps, m > map PROVE bucket'[<<u, m>>] = Absent
    OBVIOUS
  <2>1. bucket[<<u, m>>] = Absent /\ m # map
    BY LeftFacts DEF BudgetInv
  <2>2. QED
    BY <1>4, <2>1
<1>9. ASSUME NEW s \in Requests, req'[s].pc = "holding"
      PROVE  req'[s].of <= map /\ bucket'[<<req'[s].user, req'[s].of>>] # Absent
  <2>1. CASE s = r
    <3>1. map \in Maps /\ map \in Nat
      BY LeftFacts
    <3>2. bucket'[<<x, map>>] # Absent
      BY <1>3, <1>4, <3>1
    <3>3. QED
      BY <1>1, <1>2, <2>1, <3>1, <3>2
  <2>2. CASE s # r
    <3>1. Holds(s, req[s].user, req[s].of) /\ req'[s] = req[s]
      BY <1>5, <1>9, <2>2 DEF Holds
    <3>2. /\ req[s].user \in Users /\ req[s].of \in Maps /\ req[s].of <= map
          /\ bucket[<<req[s].user, req[s].of>>] # Absent
      BY <3>1, LeftFacts
    <3>3. bucket'[<<req[s].user, req[s].of>>] # Absent
      BY <1>3, <1>4, <3>2
    <3>4. QED
      BY <3>1, <3>2, <3>3
  <2>3. QED
    BY <2>1, <2>2
<1>10. QED
  BY <1>7, <1>8, <1>9 DEF BudgetInv

\* The map is dropped: every user gets one burst more, and keeps what requests hold.
LEMMA EvictBudget ==
    ASSUME BudgetInv, Typed', NEW r \in Requests, Allow(r), map' = map + 1
    PROVE  BudgetInv'
<1>1. /\ now' = now /\ passed' = passed /\ map' \in Maps
      /\ Moves(r) /\ req[r].pc = "authed" /\ req'[r].pc = "holding"
      /\ req'[r].user = req[r].user /\ req'[r].of = map'
  BY AllowFacts DEF Allow, BudgetInv
<1>2. PICK x \in Users : x = req[r].user
  BY Fields DEF BudgetInv, Typed, Tasks
<1>3. PICK k \in Nat, l \in Nat : k = map /\ l = map' /\ l = k + 1 /\ k < l /\ k \in Maps /\ l \in Maps
  BY <1>1, LeftFacts
<1>4. Burst \in Nat /\ Absent = Burst + 1 /\ Maps \subseteq Nat
  BY Constants DEF Absent
<1>5. \A u \in Users, m \in Maps : bucket'[<<u, m>>] =
         IF u = x /\ m = l /\ bucket[<<u, m>>] = Absent THEN Burst ELSE bucket[<<u, m>>]
  <2>1. /\ bucket' = [bucket EXCEPT ![<<x, l>>] = IF @ = Absent THEN Burst ELSE @]
        /\ <<x, l>> \in Users \X Maps
    BY <1>2, <1>3, AllowFacts DEF BudgetInv
  <2>2. bucket \in [Users \X Maps -> 0..Burst \cup {Absent}]
    BY DEF BudgetInv, Typed, TypeOK
  <2>3. QED
    BY <2>1, <2>2
<1>6. \A s \in Requests : s \in Tasks /\ (s # r => req'[s] = req[s])
  BY <1>1 DEF Moves, Tasks
<1>7. \A u \in Users : bucket[<<u, l>>] = Absent
  BY <1>3 DEF BudgetInv
<1>8. ASSUME NEW u \in Users PROVE Left(u, l)' = Burst
  <2>1. Left(u, l)' = IF bucket'[<<u, l>>] = Absent THEN Burst ELSE bucket'[<<u, l>>]
    BY <1>3 DEF Left
  <2>2. bucket'[<<u, l>>] = Absent \/ bucket'[<<u, l>>] = Burst
    BY <1>3, <1>5, <1>7
  <2>3. QED
    BY <1>4, <2>1, <2>2
<1>9. ASSUME NEW u \in Users, NEW m \in Nat, m # l
      PROVE  Left(u, m)' = 0 \/ Left(u, m)' = Left(u, m)
  <2>1. Left(u, m)' = IF \E s \in Requests : Holds(s, u, m)' THEN bucket'[<<u, m>>] ELSE 0
    BY <1>3, <1>9 DEF Left
  <2>2. ASSUME NEW s \in Requests, Holds(s, u, m)' PROVE bucket'[<<u, m>>] = Left(u, m)
    <3>1. s # r
      BY <1>1, <1>3, <1>9, <2>2 DEF Holds
    <3>2. Holds(s, u, m)
      BY <1>6, <2>2, <3>1 DEF Holds
    <3>3. m \in Maps /\ Left(u, m) = bucket[<<u, m>>]
      BY <3>2, LeftFacts
    <3>4. QED
      BY <1>5, <1>9, <3>3
  <2>3. QED
    BY <2>1, <2>2
<1>10. \A u \in Users, m \in Nat : m > l => Left(u, m)' = 0
  <2> SUFFICES ASSUME NEW u \in Users, NEW m \in Nat, m > l PROVE Left(u, m)' = 0
    OBVIOUS
  <2>1. ASSUME NEW s \in Requests, Holds(s, u, m)' PROVE FALSE
    <3>1. s # r
      BY <1>1, <1>3, <2>1 DEF Holds
    <3>2. Holds(s, u, m)
      BY <1>6, <2>1, <3>1 DEF Holds
    <3>3. m <= k
      BY <1>3, <3>2, LeftFacts
    <3>4. QED
      BY <1>3, <3>3
  <2>2. QED
    BY <1>3, <2>1 DEF Left
<1>11. ASSUME NEW u \in Users PROVE Budgeted(u)'
  <2>1. PICK d \in [Nat -> Nat] : Covers(d, u) /\ passed[u] + d[map + 1] <= (map + 1) * Burst + now
    BY DEF BudgetInv, Budgeted
  <2>2. PICK e \in [Nat -> Nat] : \A n \in Nat : e[n] = IF n > l THEN d[l] + Burst ELSE d[n]
    <3> DEFINE f == [n \in Nat |-> IF n > l THEN d[l] + Burst ELSE d[n]]
    <3>1. f \in [Nat -> Nat] /\ \A n \in Nat : f[n] = IF n > l THEN d[l] + Burst ELSE d[n]
      BY <1>4
    <3> HIDE DEF f
    <3>2. QED
      BY <3>1
  <2>3. ASSUME NEW m \in Nat, NEW n \in Nat, m < n, m # l
        PROVE  d[m] + Left(u, m)' <= d[n] /\ Left(u, m)' \in Nat /\ d[m] \in Nat /\ d[n] \in Nat
    <3>1. PICK a \in Nat, b \in Nat : a = Left(u, m) /\ b = Left(u, m)' /\ (b = 0 \/ b = a)
      <4>1. PICK a \in Nat : a = Left(u, m)
        BY LeftFacts
      <4>2. Left(u, m)' = 0 \/ Left(u, m)' = a
        BY <1>9, <2>3, <4>1
      <4>3. PICK b \in Nat : b = Left(u, m)' /\ (b = 0 \/ b = a)
        BY <4>2
      <4>4. QED
        BY <4>1, <4>3
    <3>2. d[m] + Left(u, m) <= d[n] /\ d[m] \in Nat /\ d[n] \in Nat
      BY <2>1, <2>3 DEF Covers
    <3>3. d[m] + a <= d[n]
      BY <3>1, <3>2
    <3>4. d[m] + b <= d[n]
      BY <3>1, <3>2, <3>3
    <3>5. QED
      BY <3>1, <3>2, <3>4
  <2>4. ASSUME NEW m \in Nat, NEW n \in Nat, m < n PROVE e[m] + Left(u, m)' <= e[n]
    <3>1. d[l] \in Nat
      OBVIOUS
    <3>2. CASE n <= l
      <4>1. e[m] = d[m] /\ e[n] = d[n] /\ m # l
        BY <2>2, <2>4, <3>2
      <4>2. QED
        BY <2>3, <2>4, <4>1
    <3>3. CASE n > l /\ m < l
      <4>1. e[m] = d[m] /\ e[n] = d[l] + Burst
        BY <2>2, <3>3
      <4>2. d[m] + Left(u, m)' <= d[l] /\ Left(u, m)' \in Nat
        <5>1. l \in Nat /\ m < l /\ m # l
          BY <1>4, <3>3
        <5>2. QED
          BY <2>3, <5>1, Zenon
      <4>3. PICK a \in Nat : a = Left(u, m)'
        BY <4>2
      <4>4. d[m] + a <= d[l] /\ d[m] \in Nat
        BY <4>2, <4>3
      <4>5. d[m] + a <= d[l] + Burst
        BY <1>4, <3>1, <4>4
      <4>6. QED
        BY <4>1, <4>3, <4>5
    <3>4. CASE m = l
      BY <1>8, <2>2, <2>4, <3>4
    <3>5. CASE m > l
      <4>1. e[m] = e[n] /\ e[m] \in Nat
        BY <2>2, <2>4, <3>5
      <4>2. Left(u, m)' = 0
        BY <1>10, <3>5
      <4>3. QED
        BY <4>1, <4>2
    <3>6. QED
      BY <2>4, <3>2, <3>3, <3>4, <3>5
  <2>5. Covers(e, u)'
    BY <2>4 DEF Covers
  <2>6. passed[u] + e[l + 1] <= (l + 1) * Burst + now
    <3>1. e[l + 1] = d[l] + Burst /\ d[l] \in Nat
      BY <2>2
    <3>2. PICK c \in Nat : c = l * Burst
      BY <1>4
    <3>3. (l + 1) * Burst = c + Burst
      BY <1>4, <3>2
    <3>4. passed[u] + d[l] <= c + now
      BY <1>3, <2>1, <3>2
    <3>5. passed[u] \in Nat /\ now \in Nat
      BY LeftFacts
    <3>6. passed[u] + (d[l] + Burst) <= (c + Burst) + now
      BY <1>4, <3>1, <3>4, <3>5
    <3>7. QED
      BY <3>1, <3>3, <3>6
  <2>7. QED
    BY <1>1, <1>3, <2>5, <2>6 DEF Budgeted
<1>12. \A u \in Users, m \in Maps : m > l => bucket'[<<u, m>>] = Absent
  <2> SUFFICES ASSUME NEW u \in Users, NEW m \in Maps, m > l PROVE bucket'[<<u, m>>] = Absent
    OBVIOUS
  <2>1. m > k /\ m # l
    BY <1>3, <1>4
  <2>2. bucket[<<u, m>>] = Absent
    BY <1>3, <2>1 DEF BudgetInv
  <2>3. QED
    BY <1>5, <2>1, <2>2
<1>13. ASSUME NEW s \in Requests, req'[s].pc = "holding"
       PROVE  req'[s].of <= l /\ bucket'[<<req'[s].user, req'[s].of>>] # Absent
  <2>1. CASE s = r
    <3>1. bucket'[<<x, l>>] = Burst
      BY <1>3, <1>5, <1>7
    <3>2. QED
      BY <1>1, <1>2, <1>3, <1>4, <2>1, <3>1
  <2>2. CASE s # r
    <3>1. Holds(s, req[s].user, req[s].of) /\ req'[s] = req[s]
      BY <1>6, <1>13, <2>2 DEF Holds
    <3>2. /\ req[s].user \in Users /\ req[s].of \in Maps /\ req[s].of <= k
          /\ bucket[<<req[s].user, req[s].of>>] # Absent
      BY <1>3, <3>1, LeftFacts
    <3>3. req[s].of <= l /\ req[s].of # l
      <4>1. PICK o \in Nat : o = req[s].of /\ o <= k
        BY <1>4, <3>2
      <4>2. o <= l /\ o # l
        BY <1>3, <4>1
      <4>3. QED
        BY <4>1, <4>2
    <3>4. bucket'[<<req[s].user, req[s].of>>] # Absent
      BY <1>5, <3>2, <3>3
    <3>5. QED
      BY <3>1, <3>3, <3>4
  <2>3. QED
    BY <2>1, <2>2
<1>14. QED
  BY <1>3, <1>11, <1>12, <1>13 DEF BudgetInv

\* A request spends what its bucket has, also of a map that was dropped meanwhile.
LEMMA SpendBudget ==
    ASSUME BudgetInv, Typed', NEW r \in Requests, Spend(r)
    PROVE  BudgetInv'
<1>1. /\ now' = now /\ map' = map
      /\ Moves(r) /\ req[r].pc = "holding" /\ req'[r].pc = "idle"
  BY Places DEF Spend, BudgetInv, Typed, Tasks
<1>2. PICK x \in Users, y \in Maps :
         /\ x = req[r].user /\ y = req[r].of /\ Holds(r, x, y) /\ y \in Nat
         /\ bucket[<<x, y>>] # Absent /\ Left(x, y) = bucket[<<x, y>>]
  <2>1. req[r].user \in Users /\ req[r].of \in Maps /\ Holds(r, req[r].user, req[r].of) /\ req[r].of \in Nat
    BY <1>1, Fields DEF BudgetInv, Typed, Tasks, Holds
  <2>2. QED
    BY <2>1, LeftFacts
<1>3. PICK b \in Nat : b = bucket[<<x, y>>] /\ b <= Burst
  BY <1>2, LeftFacts
<1>4. Burst \in Nat /\ Absent = Burst + 1 /\ map \in Nat /\ now \in Nat /\ \A u \in Users : passed[u] \in Nat
  BY Constants, LeftFacts DEF Absent
<1>5. \A s \in Requests : s \in Tasks /\ (s # r => req'[s] = req[s])
  BY <1>1 DEF Moves, Tasks
<1>6. \/ b = 0 /\ bucket' = bucket /\ passed' = passed
      \/ /\ b > 0 /\ passed' = [passed EXCEPT ![x] = @ + 1]
         /\ \A u \in Users, m \in Maps :
               bucket'[<<u, m>>] = IF u = x /\ m = y THEN b - 1 ELSE bucket[<<u, m>>]
  <2>1. \/ bucket[<<x, y>>] = 0 /\ bucket' = bucket /\ passed' = passed
        \/ /\ bucket[<<x, y>>] > 0 /\ passed' = [passed EXCEPT ![x] = @ + 1]
           /\ bucket' = [bucket EXCEPT ![<<x, y>>] = @ - 1]
    BY <1>2 DEF Spend
  <2>2. CASE bucket[<<x, y>>] = 0 /\ bucket' = bucket /\ passed' = passed
    BY <1>3, <2>2
  <2>3. CASE /\ bucket[<<x, y>>] > 0 /\ passed' = [passed EXCEPT ![x] = @ + 1]
             /\ bucket' = [bucket EXCEPT ![<<x, y>>] = @ - 1]
    <3>1. bucket \in [Users \X Maps -> 0..Burst \cup {Absent}]
      BY DEF BudgetInv, Typed, TypeOK
    <3>2. \A u \in Users, m \in Maps :
             bucket'[<<u, m>>] = IF u = x /\ m = y THEN b - 1 ELSE bucket[<<u, m>>]
      BY <1>3, <2>3, <3>1
    <3>3. QED
      BY <1>3, <2>3, <3>2
  <2>4. QED
    BY <2>1, <2>2, <2>3
<1>7. \A u \in Users, m \in Maps : bucket[<<u, m>>] = Absent <=> bucket'[<<u, m>>] = Absent
  <2> SUFFICES ASSUME NEW u \in Users, NEW m \in Maps
               PROVE  bucket[<<u, m>>] = Absent <=> bucket'[<<u, m>>] = Absent
    OBVIOUS
  <2>1. CASE u = x /\ m = y
    BY <1>2, <1>3, <1>4, <1>6, <2>1
  <2>2. CASE ~(u = x /\ m = y)
    BY <1>6, <2>2
  <2>3. QED
    BY <2>1, <2>2
\* What is left of the buckets that the request does not hold
<1>8. ASSUME NEW u \in Users, NEW m \in Nat, ~(u = x /\ m = y)
      PROVE  Left(u, m)' = Left(u, m)
  <2>1. (\E s \in Requests : Holds(s, u, m))' <=> \E s \in Requests : Holds(s, u, m)
    BY <1>1, <1>2, <1>5, <1>8 DEF Holds
  <2>2. CASE m = map
    <3>1. map \in Maps
      BY LeftFacts
    <3>2. bucket'[<<u, m>>] = bucket[<<u, m>>]
      BY <1>6, <1>8, <2>2, <3>1
    <3>3. QED
      BY <1>1, <2>2, <3>2 DEF Left
  <2>3. CASE m # map /\ \E s \in Requests : Holds(s, u, m)
    <3>1. m \in Maps
      BY <2>3, LeftFacts
    <3>2. bucket'[<<u, m>>] = bucket[<<u, m>>]
      BY <1>6, <1>8, <3>1
    <3>3. QED
      BY <1>1, <2>1, <2>3, <3>2 DEF Left
  <2>4. CASE m # map /\ ~\E s \in Requests : Holds(s, u, m)
    BY <1>1, <2>1, <2>4 DEF Left
  <2>5. QED
    BY <2>2, <2>3, <2>4
<1>9. Left(x, y) = b /\ (Left(x, y)' = 0 \/ Left(x, y)' = bucket'[<<x, y>>])
  <2>1. bucket'[<<x, y>>] # Absent
    BY <1>2, <1>7
  <2>2. QED
    BY <1>2, <1>3, <2>1 DEF Left
<1>10. ASSUME b = 0 /\ bucket' = bucket /\ passed' = passed
       PROVE  \A u \in Users : Budgeted(u)'
  <2>1. ASSUME NEW u \in Users PROVE Budgeted(u)'
    <3>1. ASSUME NEW m \in Nat PROVE Left(u, m)' \in Nat /\ Left(u, m)' <= Left(u, m)
      <4>1. Left(u, m) \in Nat
        BY LeftFacts
      <4>2. CASE u = x /\ m = y
        <5>1. Left(x, y)' = 0
          BY <1>3, <1>9, <1>10
        <5>2. QED
          BY <4>2, <1>9, <5>1
      <4>3. CASE ~(u = x /\ m = y)
        <5>1. PICK a \in Nat : a = Left(u, m) /\ a = Left(u, m)'
          BY <1>8, <4>1, <4>3
        <5>2. QED
          BY <5>1
      <4>4. QED
        BY <4>2, <4>3
    <3>2. QED
      BY <1>1, <1>10, <3>1, LessLeft
  <2>2. QED
    BY <2>1
<1>11. ASSUME /\ b > 0 /\ passed' = [passed EXCEPT ![x] = @ + 1]
              /\ \A u \in Users, m \in Maps :
                    bucket'[<<u, m>>] = IF u = x /\ m = y THEN b - 1 ELSE bucket[<<u, m>>]
       PROVE  \A u \in Users : Budgeted(u)'
  <2>1. ASSUME NEW u \in Users PROVE Budgeted(u)'
    <3>1. PICK d \in [Nat -> Nat] : Covers(d, u) /\ passed[u] + d[map + 1] <= (map + 1) * Burst + now
      BY DEF BudgetInv, Budgeted
    <3>2. CASE u # x
      <4>1. passed'[u] = passed[u]
        BY <1>11, <3>2 DEF BudgetInv, Typed, TypeOK
      <4>2. Covers(d, u)'
        <5>1. \A m \in Nat : Left(u, m)' = Left(u, m)
          BY <1>8, <3>2
        <5>2. QED
          BY <3>1, <5>1 DEF Covers
      <4>3. QED
        BY <1>1, <3>1, <4>1, <4>2 DEF Budgeted
    <3>3. CASE u = x
      <4>1. passed'[u] = passed[u] + 1
        BY <1>11, <3>3 DEF BudgetInv, Typed, TypeOK
      <4>2. Left(u, y) = b /\ (Left(u, y)' = 0 \/ Left(u, y)' = b - 1) /\ y <= map
        BY <1>2, <1>9, <1>11, <3>3, LeftFacts
      <4>3. \A n \in Nat : y < n => d[y] + b <= d[n] /\ d[y] \in Nat /\ d[n] \in Nat /\ d[n] - 1 \in Nat
        <5> SUFFICES ASSUME NEW n \in Nat, y < n
                     PROVE  d[y] + b <= d[n] /\ d[y] \in Nat /\ d[n] \in Nat /\ d[n] - 1 \in Nat
          OBVIOUS
        <5>1. d[y] + b <= d[n] /\ d[y] \in Nat /\ d[n] \in Nat
          BY <1>2, <3>1, <4>2 DEF Covers
        <5>2. QED
          BY <1>11, <5>1
      <4>4. PICK e \in [Nat -> Nat] : \A n \in Nat : e[n] = IF n > y THEN d[n] - 1 ELSE d[n]
        <5> DEFINE f == [n \in Nat |-> IF n > y THEN d[n] - 1 ELSE d[n]]
        <5>1. f \in [Nat -> Nat] /\ \A n \in Nat : f[n] = IF n > y THEN d[n] - 1 ELSE d[n]
          BY <1>2, <4>3
        <5> HIDE DEF f
        <5>2. QED
          BY <5>1
      <4>5. ASSUME NEW m \in Nat, NEW n \in Nat, m < n PROVE e[m] + Left(u, m)' <= e[n]
        <5>1. d[m] + Left(u, m) <= d[n] /\ d[m] \in Nat /\ d[n] \in Nat
          BY <3>1, <4>5 DEF Covers
        <5>2. PICK a \in Nat, c \in Nat : /\ a = Left(u, m) /\ c = Left(u, m)'
                                          /\ m # y => c = a
                                          /\ m = y => a = b /\ c <= b - 1
          <6>1. CASE m = y
            <7>1. PICK c \in Nat : c <= b - 1 /\ Left(u, y)' = c
              <8>1. 0 \in Nat /\ 0 <= b - 1 /\ b - 1 \in Nat /\ b - 1 <= b - 1
                BY <1>11
              <8>2. QED
                BY <4>2, <8>1
            <7>2. Left(u, m) = b /\ Left(u, m)' = c
              BY <4>2, <6>1, <7>1
            <7>3. QED
              BY <6>1, <7>1, <7>2
          <6>2. CASE m # y
            BY <1>8, <3>3, <6>2, LeftFacts
          <6>3. QED
            BY <6>1, <6>2
        <5>3. d[m] + a <= d[n]
          BY <5>1, <5>2
        <5>4. e[m] + c <= e[n]
          <6>1. CASE n <= y
            BY <1>2, <4>4, <4>5, <5>1, <5>2, <5>3, <6>1
          <6>2. CASE n > y /\ m > y
            BY <1>2, <4>4, <5>1, <5>2, <5>3, <6>2
          <6>3. CASE n > y /\ m = y
            BY <1>2, <4>4, <5>1, <5>2, <5>3, <6>3
          <6>4. CASE n > y /\ m < y
            <7>1. d[m] + Left(u, m) <= d[y] /\ d[y] + b <= d[n] /\ d[y] \in Nat
              BY <1>2, <3>1, <4>3, <6>4 DEF Covers
            <7>2. d[m] + a <= d[y]
              BY <5>2, <7>1
            <7>3. e[m] = d[m] /\ e[n] = d[n] - 1 /\ c = a
              BY <1>2, <4>4, <5>2, <6>4
            <7>4. d[m] + a <= d[n] - 1
              BY <1>11, <5>1, <7>1, <7>2
            <7>5. QED
              BY <7>3, <7>4
          <6>5. QED
            BY <1>2, <6>1, <6>2, <6>3, <6>4
        <5>5. QED
          BY <5>2, <5>4
      <4>6. Covers(e, u)'
        BY <4>5 DEF Covers
      <4>7. passed'[u] + e[map + 1] <= (map + 1) * Burst + now
        <5>1. PICK k \in Nat, c \in Nat : k = map + 1 /\ c = k * Burst /\ k > y
          BY <1>2, <1>4, <4>2
        <5>2. passed[u] + d[k] <= c + now /\ passed[u] \in Nat /\ d[k] \in Nat
          BY <1>4, <3>1, <5>1
        <5>3. e[k] = d[k] - 1
          BY <4>4, <5>1
        <5>4. passed'[u] + e[k] <= c + now
          BY <1>4, <4>1, <5>2, <5>3
        <5>5. QED
          BY <5>1, <5>4
      <4>8. QED
        BY <1>1, <4>6, <4>7 DEF Budgeted
    <3>4. QED
      BY <3>2, <3>3
  <2>2. QED
    BY <2>1
<1>12. \A u \in Users : Budgeted(u)'
  BY <1>6, <1>10, <1>11
<1>13. \A u \in Users, m \in Maps : m > map => bucket'[<<u, m>>] = Absent
  BY <1>7 DEF BudgetInv
<1>14. ASSUME NEW s \in Requests, req'[s].pc = "holding"
       PROVE  req'[s].of <= map /\ bucket'[<<req'[s].user, req'[s].of>>] # Absent
  <2>1. s # r
    BY <1>1, <1>14
  <2>2. Holds(s, req[s].user, req[s].of) /\ req'[s] = req[s]
    BY <1>5, <1>14, <2>1 DEF Holds
  <2>3. /\ req[s].user \in Users /\ req[s].of \in Maps /\ req[s].of <= map
        /\ bucket[<<req[s].user, req[s].of>>] # Absent
    BY <2>2, LeftFacts
  <2>4. QED
    BY <1>7, <2>2, <2>3
<1>15. QED
  BY <1>1, <1>12, <1>13, <1>14 DEF BudgetInv

LEMMA InitBudget == Init => BudgetInv
<1> SUFFICES ASSUME Init PROVE BudgetInv
  OBVIOUS
<1>1. Typed /\ map = 0 /\ now = 0 /\ Burst \in Nat /\ 0 \in Maps
  BY InitTyped, Constants DEF Init
<1>2. \A u \in Users, m \in Maps : bucket[<<u, m>>] = Absent
  BY DEF Init
<1>3. \A r \in Requests : req[r].pc # "holding"
  <2> SUFFICES ASSUME NEW r \in Requests PROVE req[r].pc # "holding"
    OBVIOUS
  <2>1. r \in Tasks /\ r # Boot
    BY GatewayAssumption DEF Tasks
  <2>2. QED
    BY <2>1 DEF Init
<1>4. ASSUME NEW u \in Users PROVE Budgeted(u)
  <2>1. PICK d \in [Nat -> Nat] : \A n \in Nat : d[n] = IF n = 0 THEN 0 ELSE Burst
    <3> DEFINE f == [n \in Nat |-> IF n = 0 THEN 0 ELSE Burst]
    <3>1. f \in [Nat -> Nat] /\ \A n \in Nat : f[n] = IF n = 0 THEN 0 ELSE Burst
      BY <1>1
    <3> HIDE DEF f
    <3>2. QED
      BY <3>1
  <2>2. \A m \in Nat : Left(u, m) = IF m = 0 THEN Burst ELSE 0
    BY <1>1, <1>2, <1>3 DEF Left, Holds
  <2>3. Covers(d, u)
    BY <1>1, <2>1, <2>2 DEF Covers
  <2>4. passed[u] = 0
    BY <1>4 DEF Init
  <2>5. d[1] = Burst /\ (0 + 1) * Burst = Burst
    BY <1>1, <2>1
  <2>6. passed[u] + d[map + 1] <= (map + 1) * Burst + now
    BY <1>1, <2>4, <2>5
  <2>7. QED
    BY <2>3, <2>6 DEF Budgeted
<1>5. QED
  BY <1>1, <1>2, <1>3, <1>4 DEF BudgetInv

LEMMA BudgetSteps == BudgetInv /\ [Next]_vars => BudgetInv'
<1> SUFFICES ASSUME BudgetInv, [Next]_vars PROVE BudgetInv'
  OBVIOUS
<1>1. Typed /\ TypeOK /\ Typed' /\ \A r \in Requests : r \in Tasks
  BY TypedSteps DEF BudgetInv, Typed, Tasks
<1>2. CASE UNCHANGED <<req, bucket, map, now, passed>>
  <2>1. \A u \in Users : Budgeted(u)'
    BY <1>2 DEF BudgetInv, Budgeted, Covers, Left, Holds
  <2>2. QED
    BY <1>1, <1>2, <2>1 DEF BudgetInv
<1>3. CASE Tick
  BY <1>1, <1>3, TickBudget
<1>4. ASSUME NEW r \in Tasks,
             \/ \E k \in Keys, u \in Users : Ask(r, k, u)
             \/ Lookup(r) \/ Answer(r) \/ FetchFails(r) \/ Refresh(r) \/ Recheck(r)
      PROVE  BudgetInv'
  <2>1. Moves(r) /\ req[r].pc # "holding" /\ req'[r].pc # "holding"
    BY <1>1, <1>4, Places
  <2>2. map' = map /\ now' = now /\ passed' = passed /\ bucket' = bucket
    BY <1>4 DEF Ask, Lookup, Answer, FetchFails, Refresh, Recheck, limvars
  <2>3. QED
    BY <1>1, <2>1, <2>2, SameLeft
<1>5. ASSUME NEW r \in Requests, Allow(r) PROVE BudgetInv'
  BY <1>1, <1>5, AllowFacts, TakeBudget, EvictBudget
<1>6. ASSUME NEW r \in Requests, Spend(r) PROVE BudgetInv'
  BY <1>1, <1>6, SpendBudget
<1>7. Rotate \/ UNCHANGED vars => UNCHANGED <<req, bucket, map, now, passed>>
  BY DEF Rotate, vars, limvars
<1>8. QED
  BY <1>1, <1>2, <1>3, <1>4, <1>5, <1>6, <1>7 DEF Next

\* However requests overlap, Allow lets a user through for one burst per map and what time
\* adds: a bucket of a dropped map is spent at most once, by the requests that hold it.
THEOREM BudgetHolds == Spec => []BudgetKept
<1>1. BudgetInv => BudgetKept
  <2> SUFFICES ASSUME BudgetInv, NEW u \in Users PROVE passed[u] <= (map + 1) * Burst + now
    BY DEF BudgetKept
  <2>1. PICK d \in [Nat -> Nat] : passed[u] + d[map + 1] <= (map + 1) * Burst + now
    BY DEF BudgetInv, Budgeted
  <2>2. map + 1 \in Nat /\ passed[u] \in Nat /\ Burst \in Nat /\ now \in Nat
    BY LeftFacts
  <2>3. PICK c \in Nat, e \in Nat : c = (map + 1) * Burst /\ e = d[map + 1]
    BY <2>2
  <2>4. passed[u] + e <= c + now
    BY <2>1, <2>3
  <2>5. passed[u] <= c + now
    BY <2>2, <2>4
  <2>6. QED
    BY <2>3, <2>5
<1>2. QED
  BY <1>1, InitBudget, BudgetSteps, PTL DEF Spec

=============================================================================
