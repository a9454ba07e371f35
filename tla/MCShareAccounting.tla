-------------------------- MODULE MCShareAccounting --------------------------
(* Instances of ShareAccounting.                                            *)
EXTENDS ShareAccounting
=============================================================================
