SPECIFICATION Spec
CONSTANTS
    Hour = 2
    Window = 6
    MaxDelay = 1
    MaxPass = 1
    MaxTime = 9
INVARIANT
    RollupsKept
CHECK_DEADLOCK FALSE
