SPECIFICATION FairSpec
CONSTANTS
    Request = {r1}
    HysteresisMs = 1
    Pressure = {0, 100}
    Tracing = TRUE
PROPERTIES
    StrictTimeout
