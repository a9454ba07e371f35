----------------------------- MODULE MCPresence -----------------------------
(* Two connections of one worker: one that may be replaced, and a successor. *)
EXTENDS Presence

CONSTANTS c1, c2

=============================================================================
