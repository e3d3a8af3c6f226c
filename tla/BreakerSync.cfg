SPECIFICATION Spec
CONSTANTS
    p1 = p1
    p2 = p2
    Pod = {p1, p2}
    ConsecutiveFailures = 1
    CooldownMs = 1
    HalfOpenMaxRequests = 1
    Skew <- SameClocks
    MaxStall = 1
    Faults = {"disconnect", "restart", "repeat"}
    MaxTime = 3
    MaxPending = 1
    MaxQueue = 2
SYMMETRY Symmetry
INVARIANTS
    Agreement
PROPERTIES
    VersionsNeverGoBack
