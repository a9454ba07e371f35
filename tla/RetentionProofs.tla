---------------------------- MODULE RetentionProofs ----------------------------
(* For every length of the hour and of the window, and every delay the       *)
(* window exceeds: no sample is pruned before a pass aggregated it, and the  *)
(* row of an hour that is over, and was not pruned, holds its exact sum.     *)
EXTENDS Retention, FiniteSetTheorems, TLAPS

\* A sample that is an hour older than t belongs to an earlier bucket.
LEMMA EarlierBucket ==
    ASSUME NEW s \in Nat, NEW t \in Nat, s + Hour <= t
    PROVE  Bucket(s) < Bucket(t)
<1> DEFINE p == s \div Hour
           q == t \div Hour
<1>1. Hour \in Nat /\ Hour > 0
  BY RetentionAssumption
<1>2. p \in Nat /\ Hour * p <= s /\ s < Hour * p + Hour
  BY <1>1
<1>3. q \in Nat /\ Hour * q <= t /\ t < Hour * q + Hour
  BY <1>1
<1> HIDE DEF p, q
<1>4. ASSUME q <= p PROVE Hour * q <= Hour * p
  BY <1>1, <1>2, <1>3, <1>4
<1>5. p < q
  BY <1>1, <1>2, <1>3, <1>4
<1>6. QED
  BY <1>5 DEF Bucket, p, q

LEMMA InitCounted == Init => RetentionInv
BY RetentionAssumption DEF Init, RetentionInv, PassSaw, PrunedWasCounted, NoPass, Ticks

LEMMA NextCounted == RetentionInv /\ [Next]_vars => RetentionInv'
<1> SUFFICES ASSUME RetentionInv, [Next]_vars PROVE RetentionInv'
  OBVIOUS
<1> USE RetentionAssumption
<1>1. CASE Tick
  BY <1>1 DEF Tick, RetentionInv, PassSaw, PrunedWasCounted, NoPass, Bucket, Ticks
<1>2. CASE Insert
  <2>1. PICK ts \in Ticks \ stored : /\ ts <= now /\ now <= ts + MaxDelay
                                     /\ samples' = samples \cup {ts}
                                     /\ stored' = stored \cup {ts}
    BY <1>2 DEF Insert
  <2>2. ts \in Nat
    BY <2>1 DEF Ticks
  <2>3. QED
    BY <1>2, <2>1, <2>2 DEF Insert, RetentionInv, PassSaw, PrunedWasCounted, NoPass
<1>3. CASE Rollup
  <2>1. \A ts \in samples : Bucket(ts) < Bucket(now) => ts \in counted'
    BY <1>3 DEF Rollup, Finished
  <2>2. QED
    BY <1>3, <2>1 DEF Rollup, RetentionInv, PassSaw, PrunedWasCounted, NoPass
<1>4. CASE Prune
  <2>1. ASSUME NEW ts \in samples, ~(ts + Window >= now) PROVE ts \in counted
    <3>1. ts \in Nat /\ pass \in Nat /\ now \in Nat /\ now <= pass + MaxPass
      BY <1>4 DEF Prune, RetentionInv, PassSaw
    <3>2. ts + MaxDelay < pass /\ ts + Hour <= pass
      BY <2>1, <3>1
    <3>3. Bucket(ts) < Bucket(pass)
      BY <3>1, <3>2, EarlierBucket
    <3>4. QED
      BY <1>4, <3>2, <3>3 DEF Prune, RetentionInv, PassSaw
  <2>2. stored' \ samples' \subseteq counted'
    BY <1>4, <2>1 DEF Prune, RetentionInv, PrunedWasCounted
  <2>3. samples' \subseteq samples /\ UNCHANGED <<now, stored>> /\ pass' = NoPass
    BY <1>4 DEF Prune
  <2>4. PassSaw'
    BY <2>3 DEF RetentionInv, PassSaw
  <2>5. QED
    BY <2>2, <2>3, <2>4 DEF RetentionInv, PrunedWasCounted, NoPass
<1>5. CASE PruneSkipped
  BY <1>5 DEF PruneSkipped, RetentionInv, PassSaw, PrunedWasCounted, NoPass
<1>6. CASE UNCHANGED vars
  BY <1>6 DEF vars, RetentionInv, PassSaw, PrunedWasCounted, NoPass, Bucket
<1>7. QED
  BY <1>1, <1>2, <1>3, <1>4, <1>5, <1>6 DEF Next

\* RollupOnce aggregates before it prunes, and its 48 hours exceed an hour and
\* the delays of the two statements: whatever the interleaving with
\* InsertMetricSample, no sample leaves metric_samples before it was aggregated.
THEOREM NothingPrunedUnseen == Spec => []PrunedWasCounted
<1>1. RetentionInv => PrunedWasCounted
  BY DEF RetentionInv
<1>2. QED
  BY <1>1, InitCounted, NextCounted, PTL DEF Spec

-----------------------------------------------------------------------------
(* Rollups are exact                                                       *)

\* The samples of a bucket are the ticks of its hour.
LEMMA InsideBucket ==
    ASSUME NEW ts \in Nat, NEW b \in Nat, Bucket(ts) = b
    PROVE  Hour * b <= ts /\ ts < Hour * b + Hour
BY RetentionAssumption DEF Bucket

\* An hour that has ended is of an earlier bucket.
LEMMA EndedHour ==
    ASSUME NEW b \in Nat, NEW t \in Nat, (b + 1) * Hour <= t
    PROVE  b < Bucket(t)
<1> DEFINE q == t \div Hour
<1>1. Hour \in Nat /\ Hour > 0
  BY RetentionAssumption
<1>2. q \in Nat /\ t < Hour * q + Hour
  BY <1>1
<1> HIDE DEF q
<1>3. PICK h \in Nat : h = Hour * b
  BY <1>1
<1>4. (b + 1) * Hour = h + Hour
  BY <1>1, <1>3
<1>5. ASSUME q <= b PROVE Hour * q <= Hour * b
  BY <1>1, <1>2, <1>5
<1>6. PICK g \in Nat : g = Hour * q
  BY <1>1, <1>2
<1>7. ~(q <= b)
  BY <1>1, <1>2, <1>3, <1>4, <1>5, <1>6
<1>8. QED
  BY <1>2, <1>7 DEF Bucket, q

\* A bucket holds at most an hour of samples.
LEMMA BucketSize ==
    ASSUME NEW S \in SUBSET Nat, NEW b \in Nat
    PROVE  /\ IsFiniteSet(InBucket(S, b)) /\ Cardinality(InBucket(S, b)) \in 0..Hour
           /\ Cardinality(InBucket(S, b)) = 0 <=> InBucket(S, b) = {}
<1>1. Hour \in Nat /\ Hour > 0
  BY RetentionAssumption
<1>2. PICK h \in Nat : h = Hour * b
  BY <1>1
<1>3. InBucket(S, b) \subseteq h..(h + Hour - 1)
  <2> SUFFICES ASSUME NEW ts \in InBucket(S, b) PROVE ts \in h..(h + Hour - 1)
    OBVIOUS
  <2>1. ts \in Nat /\ Bucket(ts) = b
    BY DEF InBucket
  <2>2. h <= ts /\ ts < h + Hour
    BY <1>2, <2>1, InsideBucket
  <2>3. QED
    BY <1>1, <2>1, <2>2
<1>4. IsFiniteSet(h..(h + Hour - 1)) /\ Cardinality(h..(h + Hour - 1)) = Hour
  BY <1>1, FS_Interval
<1>5. IsFiniteSet(InBucket(S, b)) /\ Cardinality(InBucket(S, b)) <= Hour
  BY <1>3, <1>4, FS_Subset
<1>6. Cardinality(InBucket(S, b)) \in Nat
  BY <1>5, FS_CardinalityType
<1>7. QED
  BY <1>1, <1>5, <1>6, FS_EmptySet

\* A row exists only for an hour with samples, and the last pass was in the past.
RollupInv ==
    /\ TypeOK /\ last <= now
    /\ \A b \in Buckets : rollup[b] # 0 => InBucket(stored, b) # {}
    /\ RollupExact

LEMMA Calendar ==
    /\ Hour \in Nat /\ Hour > 0 /\ Window \in Nat /\ MaxDelay \in Nat /\ MaxPass \in Nat /\ MaxTime \in Nat
    /\ Ticks \subseteq Nat /\ Buckets \subseteq Nat
<1>1. /\ Hour \in Nat /\ Hour > 0 /\ Window \in Nat /\ MaxDelay \in Nat /\ MaxPass \in Nat /\ MaxTime \in Nat
  BY RetentionAssumption
<1>2. Bucket(MaxTime) \in Nat
  BY <1>1 DEF Bucket
<1>3. QED
  BY <1>1, <1>2 DEF Ticks, Buckets

LEMMA InitExact == Init => RollupInv
<1> SUFFICES ASSUME Init PROVE RollupInv
  OBVIOUS
<1>1. \A b \in Buckets : InBucket(stored, b) = {} /\ rollup[b] = 0
  BY DEF Init, InBucket
<1>2. RollupExact
  BY <1>1, FS_EmptySet DEF RollupExact
<1>3. TypeOK /\ last <= now
  BY Calendar DEF Init, TypeOK, Ticks, NoPass
<1>4. QED
  BY <1>1, <1>2, <1>3 DEF RollupInv

LEMMA NextExact == RollupInv /\ [Next]_vars => RollupInv'
<1> SUFFICES ASSUME RollupInv, [Next]_vars PROVE RollupInv'
  OBVIOUS
<1>1. /\ now \in Nat /\ now <= MaxTime /\ last \in Nat /\ last <= now /\ MaxTime \in Nat
      /\ stored \subseteq Nat /\ samples \subseteq stored /\ counted \subseteq stored /\ stored \subseteq Ticks
      /\ pass \in Ticks \cup {NoPass} /\ rollup \in [Buckets -> 0..Hour]
  BY Calendar DEF RollupInv, TypeOK, Ticks
\* Steps that neither insert nor aggregate
<1>2. ASSUME now' \in Ticks, now <= now', last' = last, stored' = stored, rollup' = rollup,
             counted' = counted, samples' \subseteq samples, pass' \in Ticks \cup {NoPass}
      PROVE  RollupInv'
  <2>1. TypeOK' /\ last' <= now'
    BY <1>1, <1>2, Calendar DEF RollupInv, TypeOK
  <2>2. RollupExact'
    BY <1>2 DEF RollupInv, RollupExact, InBucket
  <2>3. \A b \in Buckets : rollup'[b] # 0 => InBucket(stored', b) # {}
    BY <1>2 DEF RollupInv
  <2>4. QED
    BY <2>1, <2>2, <2>3 DEF RollupInv, InBucket
<1>3. CASE Tick
  BY <1>1, <1>2, <1>3, Calendar DEF Tick, Ticks
<1>4. CASE Prune
  BY <1>1, <1>2, <1>4 DEF Prune, Ticks
<1>5. CASE PruneSkipped
  BY <1>1, <1>2, <1>5 DEF PruneSkipped, Ticks
<1>6. CASE UNCHANGED vars
  BY <1>1, <1>2, <1>6 DEF vars, Ticks
<1>7. CASE Insert
  <2>1. PICK ts \in Ticks \ stored : /\ ts <= now /\ now <= ts + MaxDelay
                                     /\ samples' = samples \cup {ts}
                                     /\ stored' = stored \cup {ts}
    BY <1>7 DEF Insert
  <2>2. now' = now /\ last' = last /\ rollup' = rollup /\ counted' = counted /\ pass' = pass
    BY <1>7 DEF Insert
  <2>3. ASSUME NEW b \in Buckets, (b + 1) * Hour + MaxDelay <= last
        PROVE  InBucket(stored', b) = InBucket(stored, b)
    <3>1. ts \in Nat /\ b \in Nat /\ Hour \in Nat /\ MaxDelay \in Nat
      BY <2>1, Calendar
    <3>2. PICK h \in Nat : h = Hour * b
      BY <3>1
    <3>3. (b + 1) * Hour = h + Hour
      BY <3>1, <3>2
    <3>4. h + Hour + MaxDelay <= ts + MaxDelay
      BY <1>1, <2>1, <2>3, <3>1, <3>2, <3>3
    <3>5. Bucket(ts) # b
      BY <3>1, <3>2, <3>4, InsideBucket
    <3>6. QED
      BY <2>1, <3>5 DEF InBucket
  <2>4. TypeOK' /\ last' <= now'
    BY <2>1, <2>2 DEF RollupInv, TypeOK
  <2>5. \A b \in Buckets : rollup'[b] # 0 => InBucket(stored', b) # {}
    BY <2>1, <2>2 DEF RollupInv, InBucket
  <2>6. ASSUME NEW b \in Buckets, (b + 1) * Hour + MaxDelay <= last, InBucket(stored', b) \subseteq samples'
        PROVE  rollup[b] = Cardinality(InBucket(stored', b))
    <3>1. InBucket(stored, b) = InBucket(stored', b)
      BY <2>3, <2>6
    <3>2. InBucket(stored, b) \subseteq samples
      BY <2>1, <2>6, <3>1 DEF InBucket
    <3>3. QED
      BY <2>6, <3>1, <3>2 DEF RollupInv, RollupExact
  <2>7. RollupExact'
    BY <2>2, <2>6 DEF RollupExact, InBucket
  <2>8. QED
    BY <2>4, <2>5, <2>7 DEF RollupInv, InBucket
<1>8. CASE Rollup
  <2>1. /\ now' = now /\ samples' = samples /\ stored' = stored
        /\ rollup' = [b \in Buckets |-> Upsert(b)]
        /\ pass' = now /\ last' = now /\ counted' = counted \cup Finished
    BY <1>8 DEF Rollup
  <2>2. Finished \subseteq samples /\ Finished \subseteq Nat
    BY <1>1 DEF Finished
  <2>3. ASSUME NEW b \in Buckets
        PROVE  /\ Upsert(b) \in 0..Hour
               /\ Upsert(b) # 0 => InBucket(stored, b) # {}
    <3>1. CASE InBucket(Finished, b) = {}
      BY <1>1, <3>1 DEF Upsert, RollupInv
    <3>2. CASE InBucket(Finished, b) # {}
      <4>1. Upsert(b) = Cardinality(InBucket(Finished, b))
        BY <3>2 DEF Upsert
      <4>2. Upsert(b) \in 0..Hour
        BY <2>2, <4>1, BucketSize, Calendar
      <4>3. InBucket(stored, b) # {}
        BY <1>1, <2>2, <3>2 DEF InBucket
      <4>4. QED
        BY <4>2, <4>3
    <3>3. QED
      BY <3>1, <3>2
  <2>4. ASSUME NEW b \in Buckets, (b + 1) * Hour + MaxDelay <= now, InBucket(stored, b) \subseteq samples
        PROVE  Upsert(b) = Cardinality(InBucket(stored, b))
    <3>1. b < Bucket(now)
      <4>1. PICK h \in Nat : h = (b + 1) * Hour
        BY Calendar
      <4>2. h <= now
        BY <1>1, <2>4, <4>1, Calendar
      <4>3. QED
        BY <1>1, <4>1, <4>2, EndedHour, Calendar
    <3>2. InBucket(Finished, b) = InBucket(stored, b)
      BY <1>1, <2>2, <2>4, <3>1 DEF Finished, InBucket
    <3>3. CASE InBucket(stored, b) = {}
      <4>1. Upsert(b) = rollup[b] /\ rollup[b] = 0
        BY <3>2, <3>3 DEF Upsert, RollupInv
      <4>2. QED
        BY <3>3, <4>1, FS_EmptySet
    <3>4. CASE InBucket(stored, b) # {}
      BY <3>2, <3>4 DEF Upsert
    <3>5. QED
      BY <3>3, <3>4
  <2>5. TypeOK' /\ last' <= now'
    BY <1>1, <2>1, <2>2, <2>3 DEF RollupInv, TypeOK
  <2>6. \A b \in Buckets : rollup'[b] # 0 => InBucket(stored, b) # {}
    BY <2>1, <2>3
  <2>7. RollupExact'
    BY <2>1, <2>4 DEF RollupExact, InBucket
  <2>8. QED
    BY <2>1, <2>5, <2>6, <2>7 DEF RollupInv, InBucket
<1>9. QED
  BY <1>3, <1>4, <1>5, <1>6, <1>7, <1>8 DEF Next

LEMMA AlwaysExact == Spec => []RollupInv
BY InitExact, NextExact, PTL DEF Spec

\* The tables hold what InsertMetricSample and RollupOnce write: samples that were stored,
\* and for a bucket no more of them than the hour has.
THEOREM TypeCorrect == Spec => []TypeOK
<1>1. RollupInv => TypeOK
  BY DEF RollupInv
<1>2. QED
  BY <1>1, AlwaysExact, PTL

\* As long as nothing of it was pruned, the row of an hour that ended before the last pass
\* holds its exact sum: RollupOnce aggregates the whole hour again with every pass, so that
\* a row that became visible late is in it.
THEOREM Exact == Spec => []RollupExact
<1>1. RollupInv => RollupExact
  BY DEF RollupInv
<1>2. QED
  BY <1>1, AlwaysExact, PTL

=============================================================================
