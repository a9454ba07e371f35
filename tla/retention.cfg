SPECIFICATION Spec
CONSTANTS
    Hour = 2
    Window = 6
    MaxDelay = 1
    MaxPass = 1
    MaxTime = 11
INVARIANTS
    TypeOK
    PrunedWasCounted
    RollupExact
CHECK_DEADLOCK FALSE
