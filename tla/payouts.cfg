SPECIFICATION FairSpec
CONSTANTS
    None = None
    NoTx = NoTx
    o1 = o1
    o2 = o2
    a1 = a1
    a2 = a2
    p1 = p1
    p2 = p2
    p3 = p3
    t1 = t1
    t2 = t2
    Owners = {o1, o2}
    Streams = {}
    ClientOf <- MCClientOf
    Events = {p1, p2, p3}
    MaxConns = 1
    Buffer = 1
    MaxEvents = 0
    Addresses = {a1, a2}
    Payments = {p1, p2, p3}
    AddrOf <- MCAddrOf
    TxOf <- MCTxOf
    Worthless = {p3}
    MaxRows = 1
    MaxRestarts = 1
INVARIANTS
    TypeOK
    RowsAreReal
    OncePerTransaction
PROPERTIES
    PaymentRecorded
CHECK_DEADLOCK FALSE
