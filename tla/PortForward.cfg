SPECIFICATION FairSpec
CONSTANTS
    Dials = {d1, d2}
    Conns = {k1, k2, k3}
    MaxFailures = 1
    NoConn = NoConn
INVARIANTS
    NoConnectionLeaks
PROPERTIES
    StreamsAreNotCut
    StreamsUnwind
    SelfHeals
