SPECIFICATION FairSpec
CONSTANTS
    Request = {r1, r2}
    HysteresisMs = 1
    Pressure = {0, 50, 75, 100}
    Tracing = TRUE
INVARIANTS
    TypeOK
    ForwardingIsTimed
PROPERTIES
    ForwardedUnderPresentConditions
    HandlersEnd
    ShutdownDrains
