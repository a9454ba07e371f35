SPECIFICATION Spec
CONSTANTS
    None = None
    c1 = c1
    c2 = c2
    w1 = w1
    w2 = w2
    e1 = e1
    e2 = e2
    Codes = {c1}
    Workers = {w1, w2}
    Enrollers = {e1}
    PoolConns = 2
INVARIANTS
    NeverReused
CHECK_DEADLOCK FALSE
