SPECIFICATION Spec
CONSTANTS
    p1 = p1
    p2 = p2
    Pod = {p1, p2}
    ConsecutiveFailures = 2
    CooldownMs = 1
    HalfOpenMaxRequests = 2
    Skew <- SameClocks
    MaxStall = 0
    Faults = {}
    MaxTime = 3
    MaxPending = 3
    MaxQueue = 2
INVARIANTS
    HalfOpenLimit
