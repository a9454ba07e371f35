------------------------------- MODULE Payouts -------------------------------
(***************************************************************************)
(* The payout poller, the wallets and payouts tables it reads and writes,  *)
(* and the broker it announces new payouts through.  One currency, whose   *)
(* pool has a stats endpoint; a wallet is known by its address.            *)
(*                                                                         *)
(* A poll is a loop over the wallets listed at its start; the request to   *)
(* the pool, each INSERT and each Publish are steps of their own, between  *)
(* which wallets change, clients come and go, and the process may end.     *)
(***************************************************************************)
EXTENDS EventBroker

CONSTANTS
    Addresses,
    Payments,    \* what the pool pays out
    AddrOf,      \* the address a payment goes to
    TxOf,        \* its transaction; NoTx when the pool reports none
    NoTx,
    Worthless,   \* entries of a response whose amount is not above zero
    MaxRows,     \* bound: rows after which the pool lists a payment without txid no more
    MaxRestarts, \* bound: restarts of the process
    None

ASSUME PayoutsAssumption ==
    /\ AddrOf \in [Payments -> Addresses]
    /\ Worthless \subseteq Payments
    /\ Payments \subseteq Events
    /\ None \notin Addresses \cup Payments \cup (Owners \X Addresses)
    /\ MaxRows \in Nat /\ MaxRestarts \in Nat

VARIABLES
    wallet,    \* wallets: UNIQUE(owner_sub, currency_id) leaves one for each owner
    linked,    \* does a payout reference the wallet of the owner?
    rows,      \* payouts: how many rows of an owner record a payment
    paid,      \* payments the pool has made
    poll,      \* local state of Poller.once and Poller.check
    restarts,
    had        \* history: the addresses an owner ever registered

pvars == <<wallet, linked, rows, paid, poll, restarts, had>>
vars == <<bvars, pvars>>

\* todo: (owner, address) rows not checked yet; at: the one being checked; pays: what is
\* left of the response; pay: the payment just inserted and not yet announced
Poll == [busy : BOOLEAN, todo : SUBSET (Owners \X Addresses), at : (Owners \X Addresses) \cup {None},
         pays : SUBSET Payments, pay : Payments \cup {None}]
Resting == [busy |-> FALSE, todo |-> {}, at |-> None, pays |-> {}, pay |-> None]

TypeOK ==
    /\ BrokerTypeOK
    /\ wallet \in [Owners -> Addresses \cup {None}]
    /\ linked \in [Owners -> BOOLEAN]
    /\ rows \in [Owners \X Payments -> 0..MaxRows + 1]
    /\ paid \subseteq Payments
    /\ poll \in Poll
    /\ restarts \in 0..MaxRestarts
    /\ had \in [Owners -> SUBSET Addresses]

Init ==
    /\ BrokerInit
    /\ wallet = [o \in Owners |-> None]
    /\ linked = [o \in Owners |-> FALSE]
    /\ rows = [x \in Owners \X Payments |-> 0]
    /\ paid = {}
    /\ poll = Resting
    /\ restarts = 0
    /\ had = [o \in Owners |-> {}]

-----------------------------------------------------------------------------
(* The pool and the owners *)

Pay(p) ==
    /\ p \notin paid
    /\ paid' = paid \cup {p}
    /\ UNCHANGED <<bvars, wallet, linked, rows, poll, restarts, had>>

\* The INSERT: UNIQUE(owner_sub, currency_id) admits one wallet for each owner.
CreateWallet(o, a) ==
    /\ wallet[o] = None
    /\ wallet' = [wallet EXCEPT ![o] = a]

\* POST /v1/wallets, for a known currency and an address that wallet.Validate accepts;
\* two owners may register the same one.
HandleCreateWallet(o, a) ==
    /\ CreateWallet(o, a)
    /\ had' = [had EXCEPT ![o] = @ \cup {a}]
    /\ UNCHANGED <<bvars, linked, rows, paid, poll, restarts>>

\* The DELETE: the foreign key of payouts refuses it once a payout names the wallet.
DeleteWallet(o) ==
    /\ wallet[o] # None /\ ~linked[o]
    /\ wallet' = [wallet EXCEPT ![o] = None]

HandleDeleteWallet(o) ==
    /\ DeleteWallet(o)
    /\ UNCHANGED <<bvars, linked, rows, paid, poll, restarts, had>>

-----------------------------------------------------------------------------
(* The poller *)

\* (mutant) the join keeps owners without a wallet
AllOwners == {<<o, wallet[o]>> : o \in Owners}

WalletsWithPoolAPI == {<<o, wallet[o]>> : o \in {x \in Owners : wallet[x] # None}}

\* The ticker of Run starts once, unless a poll is still going on.
Once ==
    /\ ~poll.busy
    /\ poll' = [Resting EXCEPT !.busy = TRUE, !.todo = WalletsWithPoolAPI]
    /\ UNCHANGED <<bvars, wallet, linked, rows, paid, restarts, had>>

\* extractPayments: the entries of a response.  A pool lists the latest payments of
\* an address; one without a txid stays listed for MaxRows rows of an owner (bound).
ExtractPayments(a) ==
    {p \in paid : AddrOf[p] = a /\ (TxOf[p] = NoTx => \A o \in Owners : rows[<<o, p>>] < MaxRows)}

\* check, up to the loop over the payments
Check(q) ==
    /\ poll.pay = None /\ poll.pays = {} /\ q \in poll.todo
    /\ poll' = [poll EXCEPT !.todo = @ \ {q}, !.at = q, !.pays = ExtractPayments(q[2])]
    /\ UNCHANGED <<bvars, wallet, linked, rows, paid, restarts, had>>

\* No answer within 15 s, a status other than 200, a body that does not parse
CheckFails(q) ==
    /\ poll.pay = None /\ poll.pays = {} /\ q \in poll.todo
    /\ poll' = [poll EXCEPT !.todo = @ \ {q}]
    /\ UNCHANGED <<bvars, wallet, linked, rows, paid, restarts, had>>

\* The UNIQUE(currency_id, txid) of payouts; NULLs are distinct.
Conflict(p) ==
    TxOf[p] # NoTx /\ \E x \in Owners \X Payments : rows[x] > 0 /\ TxOf[x[2]] = TxOf[p]

\* (mutant) InsertPayout reports an ignored duplicate as inserted
InsertPayoutUpsert(o, a, p) ==
    /\ rows' = [rows EXCEPT ![<<o, p>>] = IF Conflict(p) THEN @ ELSE @ + 1]
    /\ linked' = [linked EXCEPT ![o] = @ \/ wallet[o] = a]
    /\ poll' = [poll EXCEPT !.pays = @ \ {p}, !.pay = p]

\* InsertPayout: the row names the wallet that has the address at this moment, if any.
InsertPayout(o, a, p) ==
    \/ /\ Conflict(p)
       /\ poll' = [poll EXCEPT !.pays = @ \ {p}]
       /\ UNCHANGED <<rows, linked>>
    \/ /\ ~Conflict(p)
       /\ rows' = [rows EXCEPT ![<<o, p>>] = @ + 1]
       /\ linked' = [linked EXCEPT ![o] = @ \/ wallet[o] = a]
       /\ poll' = [poll EXCEPT !.pays = @ \ {p}, !.pay = p]

\* (mutant) entries with an amount of zero are recorded as well
RecordAny(p) ==
    /\ poll.pay = None /\ p \in poll.pays
    /\ InsertPayout(poll.at[1], poll.at[2], p)
    /\ UNCHANGED <<bvars, wallet, paid, restarts, had>>

Record(p) ==
    /\ poll.pay = None /\ p \in poll.pays \ Worthless
    /\ InsertPayout(poll.at[1], poll.at[2], p)
    /\ UNCHANGED <<bvars, wallet, paid, restarts, had>>

\* amount <= 0, or the INSERT fails: on to the next payment
Skip(p) ==
    /\ poll.pay = None /\ p \in poll.pays
    /\ poll' = [poll EXCEPT !.pays = @ \ {p}]
    /\ UNCHANGED <<bvars, wallet, linked, rows, paid, restarts, had>>

Announce ==
    /\ poll.pay # None
    /\ Publish(poll.at[1], poll.pay)
    /\ poll' = [poll EXCEPT !.pay = None]
    /\ UNCHANGED <<wallet, linked, rows, paid, restarts, had>>

\* (mutant) an error of one wallet ends the loop of Run
PollOnce ==
    /\ poll.busy /\ poll.at # None /\ poll.todo = {} /\ poll.pays = {} /\ poll.pay = None
    /\ poll' = Resting
    /\ UNCHANGED <<bvars, wallet, linked, rows, paid, restarts, had>>

Done ==
    /\ poll.busy /\ poll.todo = {} /\ poll.pays = {} /\ poll.pay = None
    /\ poll' = Resting
    /\ UNCHANGED <<bvars, wallet, linked, rows, paid, restarts, had>>

-----------------------------------------------------------------------------
Restart ==
    /\ restarts < MaxRestarts
    /\ restarts' = restarts + 1
    /\ poll' = Resting
    /\ BrokerRestart
    /\ UNCHANGED <<wallet, linked, rows, paid, had>>

Next ==
    \/ \E p \in Payments : Pay(p) \/ Record(p) \/ Skip(p)
    \/ \E o \in Owners : (\E a \in Addresses : HandleCreateWallet(o, a)) \/ HandleDeleteWallet(o)
    \/ \E q \in Owners \X Addresses : Check(q) \/ CheckFails(q)
    \/ \E s \in Streams : Serve(s) /\ UNCHANGED pvars
    \/ Once \/ Announce \/ Done \/ Restart

Spec == Init /\ [][Next]_vars

\* The ticker fires and a poll goes on; a pool and a database that are asked again and
\* again answer at some time.
FairSpec ==
    /\ Spec
    /\ WF_vars(Once \/ Announce \/ Done)
    /\ \A q \in Owners \X Addresses : WF_vars(Check(q) \/ CheckFails(q)) /\ SF_vars(Check(q))
    /\ \A p \in Payments : WF_vars(Record(p) \/ Skip(p)) /\ SF_vars(Record(p))

-----------------------------------------------------------------------------
(* Properties *)

\* "Never fabricate a row" (poller.go): a row stands for an amount the pool paid
\* to an address its owner had registered, also when the wallet changed meanwhile.
RowsAreReal ==
    \A o \in Owners, p \in Payments : rows[<<o, p>>] > 0 =>
        p \in paid \ Worthless /\ AddrOf[p] \in had[o]

\* A transaction is recorded once and announced at most once, to the owner of the row,
\* over any number of polls and over a restart between the INSERT and the Publish.
Announced(p) == {i \in 1..Len(log) : log[i].what = p}
OncePerTransaction ==
    \A p \in Payments : TxOf[p] # NoTx =>
        LET same == {r \in Payments : TxOf[r] = TxOf[p]}
            at   == {x \in Owners \X same : rows[x] > 0}
        IN  /\ Cardinality(at) <= 1 /\ \A x \in at : rows[x] = 1
            /\ Cardinality(UNION {Announced(r) : r \in same}) <= Cardinality(at)
            /\ \A r \in same : \A i \in Announced(r) : <<log[i].to, r>> \in at

\* While its owner keeps the wallet, a payment in a transaction of its own is recorded,
\* whatever polls fail and whenever the process restarts.
PaymentRecorded ==
    \A o \in Owners, p \in Payments :
        (p \notin Worthless /\ TxOf[p] # NoTx /\ \A r \in Payments \ {p} : TxOf[r] # TxOf[p]) =>
            (p \in paid /\ wallet[o] = AddrOf[p]
                ~> wallet[o] # AddrOf[p] \/ \E x \in Owners : rows[<<x, p>>] > 0)

=============================================================================
