SPECIFICATION FairSpec
CONSTANTS
    m1 = m1  w1 = w1  b1 = b1
    c1 = c1  c2 = c2  j1 = j1
    k1 = k1  k2 = k2  r1 = r1  r2 = r2
    None = None
    Miners = {m1}
    Workers = {w1, b1}
    Native = {w1}
    Conns = {c1}
    Jobs = {j1}
    Runs = {k1, k2}
    Requests = {r1, r2}
    Ops = {"start", "stop"}
    DbFails = FALSE
    MaxInFlight = 1
    MaxAborts = 0
    MaxRestarts = 0
INVARIANTS NoLostMiner NativeOnly
PROPERTIES StopEndsJobs QueuedIsServed BrokenConnectionsEnd
CHECK_DEADLOCK FALSE
