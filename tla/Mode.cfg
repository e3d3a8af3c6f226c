SPECIFICATION FairSpec
CONSTANTS
    HysteresisMs = 3
    Pressure = {0, 50, 69, 74, 75, 89, 90, 100}
INVARIANTS
    TypeOK
PROPERTIES
    FlappingIsBounded
    ModeFollowsPressure
