SPECIFICATION FairSpec
CONSTANTS
    p1 = p1
    p2 = p2
    Pod = {p1, p2}
    ConsecutiveFailures = 2
    CooldownMs = 1
    HalfOpenMaxRequests = 2
    Skew <- SkewedClocks
    MaxStall = 0
    Faults = {"drop"}
    MaxTime = 2
    MaxPending = 1
    MaxQueue = 2
INVARIANTS
    TypeOK
    CountersBelowThresholds
PROPERTIES
    ClusterStaysOpen
    OpenIsLeft
    ImplementsReplicatedBreaker
