------------------------------ MODULE MCGateway ------------------------------
(* An instance of Gateway. *)
EXTENDS Gateway

CONSTANTS r1, r2, u1, u2

=============================================================================
