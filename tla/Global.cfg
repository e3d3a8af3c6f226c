SPECIFICATION FairSpec
CONSTANTS
    p1 = p1
    p2 = p2
    Pod = {p1, p2}
    Local = {0, 60}
    MinGap = 1
    MaxGap = 1
    Ttl = 3
    Tolerated = 1
    MaxRefreshes <- OverlapAtOne
INVARIANTS
    TypeOK
    SlowPodsAreCounted
PROPERTIES
    PodsConverge
