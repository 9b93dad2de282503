SPECIFICATION FairSpec

CONSTANTS
    Callers = {c1, c2, c3}
    MaxDrops = 2
    MaxReauths = 1
    TokenMayDie = TRUE
    MayDispose = TRUE

INVARIANTS
    TypeOK
    AnswersMatch
    WaitingIsPending

PROPERTIES
    NoReconnectWhenOver
    CallsSettle
    ComesBack

CHECK_DEADLOCK FALSE
