SPECIFICATION Spec

CONSTANTS
    MaxPos = 3
    KeyPos = {1, 3}
    Bodies = {b1, b2}
    NoBody = NoBody
    QueueCap = 2
    FlushOutcomes = {TRUE, FALSE}
    CursorOutcomes = {TRUE, FALSE}
    RestoreOutcomes = {TRUE, FALSE}
    Window = 2
    MaxDrops = 1
    MaxCrashes = 1
    MaxReauths = 0

INVARIANTS
    TypeOK
    Custody
    ResumePointSafe
    NoSkippedDelta
    SubscriptionInSync

PROPERTIES
    SnapshotNeverRegresses
    CustodySpec

CHECK_DEADLOCK FALSE

SYMMETRY BodySymmetry
