------------------------------- MODULE Gateway -------------------------------
(***************************************************************************)
(* The two middlewares in front of every authenticated route: the token    *)
(* validator with its cache of the identity provider's keys, and after it  *)
(* the rate limiter, keyed by the user of the token.  Requests run in      *)
(* goroutines of their own; the locks are held for single look-ups only.   *)
(*                                                                         *)
(* Time passes in ticks, while requests wait for the network and not while *)
(* they compute.  The provider signs with one key at a time, which also    *)
(* identifies the key set it publishes.  Requests without a token, or with *)
(* one that the JWT library refuses, go no further and are left out.       *)
(***************************************************************************)
EXTENDS Integers, FiniteSets

CONSTANTS
    Requests,
    Boot,         \* the goroutine that warms the cache at start-up
    Users,
    Hour,         \* the age at which the key set is stale
    Timeout,      \* of the HTTP client that fetches it
    Window,       \* the age at which the limiter drops its buckets
    Burst,        \* size of a bucket
    MaxBuckets,   \* number of buckets at which the limiter drops them
    MaxKeys,      \* bound: keys of the provider
    MaxTime,      \* bound: ticks
    MaxAsks       \* bound: requests made

ASSUME GatewayAssumption ==
    /\ {Hour, Timeout, Window, Burst, MaxBuckets, MaxKeys, MaxTime, MaxAsks} \subseteq Nat
    /\ Burst > 0 /\ MaxKeys > 0 /\ Users # {}
    /\ Boot \notin Requests

VARIABLES
    now,
    key,       \* the key the provider signs with and publishes
    retired,   \* history: when the keys before it were replaced
    cache,     \* Validator: keys, and fresh
    req,       \* a request on its way through the middlewares
    last,      \* Limiter.last
    bucket,    \* tokens left in a bucket, by user and by the map that held it
    map,       \* number of the current map of the Limiter
    asks,
    passed     \* history: requests of a user that reached their handler

vars == <<now, key, retired, cache, req, last, bucket, map, asks, passed>>

Keys == 1..MaxKeys
Tasks == Requests \cup {Boot}
Maps == 0..MaxAsks
None == -1
Absent == Burst + 1     \* of a bucket that is not in its map
PC == {"idle", "lookup", "fetch", "answered", "recheck", "authed", "holding"}
\* key: of the token; at: when a fetch began or the token was accepted; got: the key set
\* fetched; of: the map a bucket was taken from
Request == [pc : PC, key : Keys, user : Users, at : 0..MaxTime, got : Keys \cup {None}, of : Maps]

TypeOK ==
    /\ now \in 0..MaxTime
    /\ key \in Keys
    /\ retired \in [Keys -> 0..MaxTime \cup {None}]
    /\ cache \in [key : Keys \cup {None}, fresh : 0..MaxTime]
    /\ req \in [Tasks -> Request]
    /\ last \in 0..MaxTime
    /\ bucket \in [Users \X Maps -> 0..Burst \cup {Absent}]
    /\ map \in Maps
    /\ asks \in 0..MaxAsks
    /\ passed \in [Users -> Nat]

Init ==
    /\ now = 0 /\ key = 1
    /\ retired = [k \in Keys |-> None]
    /\ cache = [key |-> None, fresh |-> 0]
    /\ req = [r \in Tasks |-> [pc |-> IF r = Boot THEN "fetch" ELSE "idle", key |-> 1,
                              user |-> CHOOSE u \in Users : TRUE, at |-> 0, got |-> None, of |-> 0]]
    /\ last = 0 /\ map = 0 /\ asks = 0
    /\ bucket = [x \in Users \X Maps |-> Absent]
    /\ passed = [u \in Users |-> 0]

keyvars == <<key, retired>>
limvars == <<last, bucket, map, passed>>

-----------------------------------------------------------------------------
\* The HTTP client gives up after Timeout.  A bucket gets a token back with each tick.
Tick ==
    /\ now < MaxTime
    /\ \A r \in Tasks :
          req[r].pc # "idle" => req[r].pc \in {"fetch", "answered"} /\ now < req[r].at + Timeout
    /\ now' = now + 1
    /\ bucket' = [x \in Users \X Maps |-> IF bucket[x] < Burst THEN bucket[x] + 1 ELSE bucket[x]]
    /\ UNCHANGED <<keyvars, cache, req, last, map, asks, passed>>

Rotate ==
    /\ key < MaxKeys
    /\ key' = key + 1
    /\ retired' = [retired EXCEPT ![key] = now]
    /\ UNCHANGED <<now, cache, req, limvars, asks>>

\* A request comes with a token of a key the provider has, had, or does not publish yet
\* (a kid it never publishes is refreshed for and refused in the same way).
Ask(r, k, u) ==
    /\ req[r].pc = "idle" /\ asks < MaxAsks
    /\ asks' = asks + 1
    /\ req' = [req EXCEPT ![r].pc = "lookup", ![r].key = k, ![r].user = u]
    /\ UNCHANGED <<now, keyvars, cache, limvars>>

-----------------------------------------------------------------------------
(* Validator *)

\* The next place of a request; one that is answered forgets what it held.
To(r, pc) == [req EXCEPT ![r].pc = pc, ![r].at = IF pc = "idle" THEN 0 ELSE now,
                         ![r].got = None, ![r].of = 0]

\* (mutant) the cache is asked for the kid only
KnownKid(k) == cache.key = k

Usable(k) == cache.key = k /\ now - cache.fresh <= Hour

\* keyFn of Parse, up to the refresh
Lookup(r) ==
    /\ req[r].pc = "lookup"
    /\ req' = To(r, IF Usable(req[r].key) THEN "authed" ELSE "fetch")
    /\ UNCHANGED <<now, keyvars, cache, limvars, asks>>

\* refresh: the provider answers with what it publishes at this moment, ...
Answer(r) ==
    /\ req[r].pc = "fetch"
    /\ req' = [req EXCEPT ![r].pc = "answered", ![r].got = key]
    /\ UNCHANGED <<now, keyvars, cache, limvars, asks>>

\* ... or not at all: 401.  At start-up the fetch is tried again.
FetchFails(r) ==
    /\ req[r].pc \in {"fetch", "answered"}
    /\ req' = To(r, IF r = Boot THEN "fetch" ELSE "idle")
    /\ UNCHANGED <<now, keyvars, cache, limvars, asks>>

\* The set is stored whatever other requests have stored since it was fetched.
Refresh(r) ==
    /\ req[r].pc = "answered"
    /\ cache' = [key |-> req[r].got, fresh |-> now]
    /\ req' = IF r = Boot THEN To(r, "idle") ELSE [req EXCEPT ![r].pc = "recheck"]
    /\ UNCHANGED <<now, keyvars, limvars, asks>>

\* keyFn after the refresh: a kid that is still unknown is a 401.
Recheck(r) ==
    /\ req[r].pc = "recheck"
    /\ req' = To(r, IF cache.key = req[r].key THEN "authed" ELSE "idle")
    /\ UNCHANGED <<now, keyvars, cache, limvars, asks>>

-----------------------------------------------------------------------------
(* Limiter *)

Evicts == Cardinality({u \in Users : bucket[<<u, map>>] # Absent}) > MaxBuckets \/ now - last > Window

\* (mutant) the bucket of a known user is filled up again
NewBucket(u, m) == bucket' = [bucket EXCEPT ![<<u, m>>] = Burst]

TakeBucket(u, m) == bucket' = [bucket EXCEPT ![<<u, m>>] = IF @ = Absent THEN Burst ELSE @]

\* Allow, under the lock: eviction, and the bucket of the user
Allow(r) ==
    LET m == IF Evicts THEN map + 1 ELSE map IN
    /\ req[r].pc = "authed"
    /\ map' = m
    /\ last' = IF Evicts THEN now ELSE last
    /\ TakeBucket(req[r].user, m)
    /\ req' = [req EXCEPT ![r].pc = "holding", ![r].of = m]
    /\ UNCHANGED <<now, keyvars, cache, asks, passed>>

\* (mutant) the answer of the bucket is ignored
SpendAnyway(r) ==
    LET x == <<req[r].user, req[r].of>> IN
    /\ req[r].pc = "holding"
    /\ bucket' = [bucket EXCEPT ![x] = @ - 1]
    /\ passed' = [passed EXCEPT ![req[r].user] = @ + 1]
    /\ req' = To(r, "idle")
    /\ UNCHANGED <<now, keyvars, cache, last, map, asks>>

\* Allow, after the unlock: a token of the bucket, or 429
Spend(r) ==
    LET x == <<req[r].user, req[r].of>> IN
    /\ req[r].pc = "holding"
    /\ \/ /\ bucket[x] > 0
          /\ bucket' = [bucket EXCEPT ![x] = @ - 1]
          /\ passed' = [passed EXCEPT ![req[r].user] = @ + 1]
       \/ /\ bucket[x] = 0
          /\ UNCHANGED <<bucket, passed>>
    /\ req' = To(r, "idle")
    /\ UNCHANGED <<now, keyvars, cache, last, map, asks>>

Next ==
    \/ Tick \/ Rotate
    \/ \E r \in Requests :
          \/ \E k \in Keys, u \in Users : Ask(r, k, u)
          \/ Lookup(r) \/ Recheck(r) \/ Allow(r) \/ Spend(r)
    \/ \E r \in Tasks : Answer(r) \/ FetchFails(r) \/ Refresh(r)

Spec == Init /\ [][Next]_vars

-----------------------------------------------------------------------------
(* Properties *)

\* A token whose key the provider has replaced is accepted for an hour and one fetch
\* at most (Validator.Parse), although the answer of a slow fetch may put an old key
\* set back over a newer one, stamped as fresh.
RetiredKeysEnd ==
    \A r \in Requests : req[r].pc = "authed" /\ retired[req[r].key] # None =>
        req[r].at - retired[req[r].key] <= Hour + Timeout

\* However requests overlap, an eviction of the limiter's map gives a user one more
\* burst and nothing else: requests that still hold a bucket of a dropped map spend
\* what that bucket had (Limiter.Allow).
BudgetKept == \A u \in Users : passed[u] <= (map + 1) * Burst + now

=============================================================================
