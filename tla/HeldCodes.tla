------------------------------ MODULE HeldCodes ------------------------------
(***************************************************************************)
(* What the rows of codes and workers keep at any moment, without the      *)
(* transactions behind them: a code is issued, and redeemed in one step    *)
(* that makes its worker a member and the holder of the code.  A code with *)
(* a holder is neither redeemed nor revoked.  It is let go when its holder *)
(* leaves, and may be redeemed again: the schema does this (V4), whereas   *)
(* the documents promise that a code is used once (NeverReused).           *)
(***************************************************************************)
CONSTANTS Codes, Workers, None

VARIABLES
    state,     \* of a code: "none", "live", "gone" (revoked)
    holder,    \* the worker that redeemed a code
    member     \* of a worker: "no", "yes", "left"

code == <<state, holder, member>>

Init ==
    /\ state = [c \in Codes |-> "none"]
    /\ holder = [c \in Codes |-> None]
    /\ member = [w \in Workers |-> "no"]

Issue(c) ==
    /\ state[c] = "none"
    /\ state' = [state EXCEPT ![c] = "live"]
    /\ UNCHANGED <<holder, member>>

Revoke(c) ==
    /\ state[c] = "live" /\ holder[c] = None
    /\ state' = [state EXCEPT ![c] = "gone"]
    /\ UNCHANGED <<holder, member>>

Redeem(c, w) ==
    /\ state[c] = "live" /\ holder[c] = None
    /\ member[w] = "no"
    /\ holder' = [holder EXCEPT ![c] = w]
    /\ member' = [member EXCEPT ![w] = "yes"]
    /\ UNCHANGED state

Leave(w) ==
    /\ member[w] = "yes"
    /\ member' = [member EXCEPT ![w] = "left"]
    /\ holder' = [c \in Codes |-> IF holder[c] = w THEN None ELSE holder[c]]
    /\ UNCHANGED state

Next ==
    \/ \E c \in Codes : Issue(c) \/ Revoke(c) \/ \E w \in Workers : Redeem(c, w)
    \/ \E w \in Workers : Leave(w)

Spec == Init /\ [][Next]_code

=============================================================================
