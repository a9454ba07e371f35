------------------------------ MODULE MCPayouts ------------------------------
(* An instance of Payouts: two owners that may register the same address or *)
(* change it; a payment with a transaction, one to another address without  *)
(* a txid, and an entry without an amount.  There are no streams: what they *)
(* show of the log is the question of MCEventBroker.                        *)
EXTENDS Payouts

CONSTANTS o1, o2, a1, a2, p1, p2, p3, t1, t2

MCClientOf == [s \in Streams |-> o1]
MCAddrOf == [p \in Payments |-> IF p = p2 THEN a2 ELSE a1]
MCTxOf == [p \in Payments |-> IF p = p2 THEN NoTx ELSE IF p = p1 THEN t1 ELSE t2]

=============================================================================
