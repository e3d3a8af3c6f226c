SPECIFICATION Spec
CONSTANTS
    Tenant = {t1, t2}
    Capacity = 2
    RefillRate = 300
    MaxTime = 8
    MaxBehind = 3
    MaxRestarts = 1
SYMMETRY Symmetry
INVARIANTS
    TypeOK
    RateBound
PROPERTIES
    RefusalsCostNothing
