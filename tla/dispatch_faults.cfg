SPECIFICATION Spec
CONSTANTS
    m1 = m1  w1 = w1  b1 = b1
    c1 = c1  c2 = c2  j1 = j1
    k1 = k1  k2 = k2  r1 = r1  r2 = r2
    None = None
    Miners = {m1}
    Workers = {w1}
    Native = {w1}
    Conns = {c1, c2}
    Jobs = {j1}
    Runs = {k1}
    Requests = {r1}
    Ops = {"start", "delete", "foreignDelete", "revoke", "deleteWorker", "foreignDeleteWorker"}
    DbFails = TRUE
    MaxInFlight = 1
    MaxAborts = 1
    MaxRestarts = 1
SYMMETRY RowSymmetry
INVARIANTS TypeOK DispatchInv RunningWasAcked 
PROPERTIES HistoryStands
CHECK_DEADLOCK FALSE
