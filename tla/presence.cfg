SPECIFICATION FairSpec
CONSTANTS
    None = None
    c1 = c1
    c2 = c2
    Conns = {c1, c2}
INVARIANTS
    TypeOK
    ShownOnline
PROPERTIES
    SilentLeaves
    RevokedIsCutOff
CHECK_DEADLOCK FALSE
