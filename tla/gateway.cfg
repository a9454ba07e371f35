SPECIFICATION Spec
CONSTANTS
    r1 = r1
    r2 = r2
    u1 = u1
    u2 = u2
    Boot = Boot
    Requests = {r1, r2}
    Users = {u1, u2}
    Hour = 2
    Timeout = 1
    Window = 2
    Burst = 1
    MaxBuckets = 1
    MaxKeys = 2
    MaxTime = 5
    MaxAsks = 3
INVARIANTS
    TypeOK
    RetiredKeysEnd
    BudgetKept
CHECK_DEADLOCK FALSE
