SPECIFICATION BrokerSpec
CONSTANTS
    o1 = o1
    o2 = o2
    s1 = s1
    s2 = s2
    s3 = s3
    e1 = e1
    Owners = {o1, o2}
    Streams = {s1, s2, s3}
    ClientOf <- MCClientOf
    Events = {e1}
    MaxConns = 1
    Buffer = 2
    MaxEvents = 3
INVARIANTS
    BrokerTypeOK
    NoSendOnClosed
PROPERTIES
    FeedSpec
    GoneFreesPlace
CHECK_DEADLOCK FALSE
