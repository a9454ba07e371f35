SPECIFICATION Spec
CONSTANTS
    Kinds = {"adapter", "simulated", "native-go"}
    Unreachable = FALSE
    MaxShares = 2
    MaxWire = 2
INVARIANTS TypeOK NeverOvercounts NoStrayMiner ReportsAddUp RunWithinSamples
CHECK_DEADLOCK FALSE
