SPECIFICATION FairSpec

CONSTANTS
    MaxPos = 2
    KeyPos = {1}
    Bodies = {b1}
    NoBody = NoBody
    QueueCap = 8
    FlushOutcomes = {TRUE, FALSE}
    CursorOutcomes = {TRUE}
    RestoreOutcomes = {TRUE, FALSE}
    Window = 2
    MaxDrops = 2
    MaxCrashes = 1
    MaxReauths = 1

PROPERTIES
    FullyReleased

CHECK_DEADLOCK FALSE
