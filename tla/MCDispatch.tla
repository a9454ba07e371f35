----------------------------- MODULE MCDispatch -----------------------------
(* Small instances of Dispatch for TLC. *)
EXTENDS Dispatch, TLC

CONSTANTS m1, w1, b1, c1, c2, j1, k1, k2, r1, r2

\* Connections are interchangeable.
RowSymmetry == Permutations({c1, c2})

=============================================================================
