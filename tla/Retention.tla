------------------------------ MODULE Retention ------------------------------
(***************************************************************************)
(* Metric samples, their hourly rollups, and the pass that aggregates the  *)
(* finished hours and prunes samples older than the retention window.      *)
(*                                                                         *)
(* Time is counted in ticks.  A sample is the report of one miner at one   *)
(* tick and weighs one share, so that sum(shares_accepted) of a bucket is  *)
(* the number of its samples; averages and maxima range over the same rows. *)
(* The two statements of RollupOnce are transactions of their own, each    *)
(* with its own now(): time passes and reports arrive between them.  A     *)
(* pass may begin at any time, which covers every RetentionInterval, the   *)
(* immediate first pass after a restart, and the phase of the ticker.      *)
(***************************************************************************)
EXTENDS Naturals, FiniteSets

CONSTANTS
    Hour,       \* ticks in an hour
    Window,     \* the 48 hours of retention, in ticks
    MaxDelay,   \* a row is visible at most this long after the now() it carries
    MaxPass,    \* bound on the time between the two statements of a pass
    MaxTime     \* bound on the time the model looks at

ASSUME RetentionAssumption ==
    /\ Hour \in Nat \ {0} /\ Window \in Nat
    /\ MaxDelay \in Nat /\ MaxPass \in Nat /\ MaxTime \in Nat
    /\ Window > Hour + MaxDelay + MaxPass      \* 48 h exceed an hour and two delays

VARIABLES
    now,
    samples,   \* metric_samples of the miner, by ts
    rollup,    \* metric_rollups of the miner: bucket -> shares, 0 without a row
    pass,      \* when the pass under way aggregated, or NoPass
    stored,    \* history: every sample ever inserted
    counted,   \* history: every sample some pass aggregated
    last       \* history: when a pass last aggregated

vars == <<now, samples, rollup, pass, stored, counted, last>>

Ticks == 0..MaxTime
NoPass == MaxTime + 1

\* date_trunc('hour', ts)
Bucket(ts) == ts \div Hour
Buckets == 0..Bucket(MaxTime)
InBucket(S, b) == {ts \in S : Bucket(ts) = b}

TypeOK ==
    /\ now \in Ticks
    /\ samples \subseteq stored /\ stored \subseteq Ticks /\ counted \subseteq stored
    /\ rollup \in [Buckets -> 0..Hour]
    /\ pass \in Ticks \cup {NoPass} /\ last \in Ticks

Init ==
    /\ now = 0 /\ last = 0
    /\ samples = {} /\ stored = {} /\ counted = {}
    /\ rollup = [b \in Buckets |-> 0]
    /\ pass = NoPass

Tick ==
    /\ now < MaxTime
    /\ pass # NoPass => now < pass + MaxPass
    /\ now' = now + 1
    /\ UNCHANGED <<samples, rollup, pass, stored, counted, last>>

\* (mutant) the row carries the clock of the worker, which runs ahead
InsertAhead ==
    /\ samples' = samples \cup {now + 1}
    /\ stored' = stored \cup {now + 1}
    /\ UNCHANGED <<now, rollup, pass, counted, last>>

\* InsertMetricSample, from handleMetrics
Insert ==
    /\ \E ts \in Ticks \ stored :
          /\ ts <= now /\ now <= ts + MaxDelay
          /\ samples' = samples \cup {ts}
          /\ stored' = stored \cup {ts}
    /\ UNCHANGED <<now, rollup, pass, counted, last>>

\* The rows the first statement reads: WHERE ts < date_trunc('hour', now())
Finished == {ts \in samples : Bucket(ts) < Bucket(now)}

\* (mutant) ON CONFLICT DO NOTHING, and no WHERE
Keep(b) == IF rollup[b] = 0 THEN Cardinality(InBucket(samples, b)) ELSE rollup[b]

\* GROUP BY bucket ... ON CONFLICT (miner_id, bucket) DO UPDATE
Upsert(b) ==
    IF InBucket(Finished, b) = {} THEN rollup[b] ELSE Cardinality(InBucket(Finished, b))

\* the first statement of RollupOnce
Rollup ==
    /\ pass = NoPass
    /\ rollup' = [b \in Buckets |-> Upsert(b)]
    /\ pass' = now /\ last' = now
    /\ counted' = counted \cup Finished
    /\ UNCHANGED <<now, samples, stored>>

\* (mutant) everything aggregated is pruned, what arrived meanwhile included
PruneFinished ==
    /\ pass # NoPass
    /\ samples' = samples \ Finished
    /\ pass' = NoPass
    /\ UNCHANGED <<now, rollup, stored, counted, last>>

\* the second: DELETE ... WHERE ts < now() - interval '48 hours'
Prune ==
    /\ pass # NoPass
    /\ samples' = {ts \in samples : ts + Window >= now}
    /\ pass' = NoPass
    /\ UNCHANGED <<now, rollup, stored, counted, last>>

\* It fails, or the server stops in between.
PruneSkipped ==
    /\ pass # NoPass
    /\ pass' = NoPass
    /\ UNCHANGED <<now, samples, rollup, stored, counted, last>>

Next == Tick \/ Insert \/ Rollup \/ Prune \/ PruneSkipped
Spec == Init /\ [][Next]_vars

-----------------------------------------------------------------------------
\* Nothing is pruned unseen: a sample leaves metric_samples only after some
\* pass aggregated it, although rows become visible late and the two
\* statements see different times.
PrunedWasCounted == stored \ samples \subseteq counted

\* As long as none of its samples was pruned, the row of an hour that ended
\* (and whose last row was visible) before the last pass holds its exact sum.
RollupExact ==
    \A b \in Buckets :
        /\ (b + 1) * Hour + MaxDelay <= last
        /\ InBucket(stored, b) \subseteq samples
        => rollup[b] = Cardinality(InBucket(stored, b))

-----------------------------------------------------------------------------
(* What makes PrunedWasCounted inductive *)

\* Rows carry a past time; while a pass is under way, every row that was
\* visible and finished when it aggregated has been counted.
PassSaw ==
    /\ stored \subseteq 0..now
    /\ pass # NoPass =>
          /\ pass <= now /\ now <= pass + MaxPass
          /\ \A ts \in samples : ts + MaxDelay < pass /\ Bucket(ts) < Bucket(pass) => ts \in counted

RetentionInv ==
    /\ now \in Nat /\ stored \subseteq Nat /\ samples \subseteq stored
    /\ pass \in Nat
    /\ PassSaw
    /\ PrunedWasCounted

=============================================================================
