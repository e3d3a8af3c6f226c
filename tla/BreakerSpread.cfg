SPECIFICATION Spec
CONSTANTS
    p1 = p1
    p2 = p2
    Pod = {p1, p2}
    ConsecutiveFailures = 1
    CooldownMs = 1
    HalfOpenMaxRequests = 1
    Skew <- SameClocks
    MaxStall = 0
    Faults = {}
    MaxTime = 3
    MaxPending = 1
    MaxQueue = 2
INVARIANTS
    OpenReachesEveryPod
