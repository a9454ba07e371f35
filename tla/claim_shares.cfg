SPECIFICATION Spec
CONSTANTS
    Kinds = {"adapter", "simulated", "native-go"}
    Unreachable = TRUE
    MaxShares = 2
    MaxWire = 2
INVARIANT
    NeverOvercounts
CHECK_DEADLOCK FALSE
