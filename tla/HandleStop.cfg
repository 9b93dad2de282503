SPECIFICATION Spec

CONSTANTS
    MaxLives = 2
    Events = {e1}
    MaxTime = 2
    ClockErrors = {0, 1}
    MaxExits = 0

INVARIANTS
    EndedMeansSaved

CHECK_DEADLOCK FALSE
