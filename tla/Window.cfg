SPECIFICATION Spec
CONSTANTS
    Request = {r1, r2, r3}
    WindowMs = 2
    BaseRateLimit = 2
    Multiplier = {1}
    Pressure = {0, 100}
    SecondMs = 2
    GraceSeconds = 1
    MaxAhead = 1
    MaxDelay = 1
    MaxTime = 6
CHECK_DEADLOCK FALSE
SYMMETRY Symmetry
INVARIANTS
    TypeOK
    RecentAreCounted
PROPERTIES
    AllowedWithinLimit
