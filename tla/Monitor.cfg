SPECIFICATION FairSpec
CONSTANTS
    HistorySize = 4
    LagFull = 20
    RequestsFull = 3
    Load <- Loads
INVARIANTS
    TypeOK
PROPERTIES
    PressureFollowsLoad
