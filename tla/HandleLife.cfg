SPECIFICATION FairSpec

CONSTANTS
    MaxLives = 2
    Events = {e1}
    MaxTime = 2
    ClockErrors = {0, 1}
    MaxExits = 1

INVARIANTS
    TypeOK
    AtMostOnce
    OpenTransportsExplained
    RegisteredIsUp

PROPERTIES
    LiveEventAnswered
    AbortEnds

CHECK_DEADLOCK FALSE
