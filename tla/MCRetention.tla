----------------------------- MODULE MCRetention -----------------------------
(* Instances of Retention, and what the schema says of the rollups.         *)
EXTENDS Retention

\* V1__init.sql: metric_rollups are "hourly aggregates, kept forever": what was
\* aggregated once stays part of its hour.
RollupsKept == \A b \in Buckets : rollup[b] >= Cardinality(InBucket(counted, b))

=============================================================================
