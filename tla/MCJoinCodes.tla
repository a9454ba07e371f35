----------------------------- MODULE MCJoinCodes -----------------------------
(* Instances of JoinCodes, and a claim of the documents. *)
EXTENDS JoinCodes

CONSTANTS c1, c2, w1, w2, e1, e2

\* docs/swarm.md, security.md and codes.go: a code is single-use, and never reusable.
\* ON DELETE SET NULL (V4) makes it redeemable again while it has not expired.
NeverReused == \A c \in Codes : Cardinality(redeemed[c]) <= 1

=============================================================================
