SPECIFICATION Spec

CONSTANTS
    MaxPos = 3
    KeyPos = {1, 3}
    Bodies = {b1}
    NoBody = NoBody
    QueueCap = 8
    FlushOutcomes = {TRUE}
    CursorOutcomes = {TRUE}
    RestoreOutcomes = {TRUE}
    Window = 2
    MaxDrops = 1
    MaxCrashes = 0
    MaxReauths = 0

INVARIANTS
    NoKeyLost

CHECK_DEADLOCK FALSE
