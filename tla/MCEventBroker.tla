---------------------------- MODULE MCEventBroker ----------------------------
(* An instance of EventBroker: three requests of one user, one of another. *)
EXTENDS EventBroker

CONSTANTS o1, o2, s1, s2, s3, e1

MCClientOf == [s \in Streams |-> IF s = s3 THEN o2 ELSE o1]

=============================================================================
