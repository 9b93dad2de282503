SPECIFICATION FairSpec

CONSTANTS
    Tools = {t1}
    ItemKinds = {"tool start", "tool end"}
    MaxPartials = 2
    MaxFinals = 2
    FinalKinds = {"blank", "same", "new"}
    MaxFaults = 1
    MaxCalls = 2

INVARIANTS
    PushOnlyFinals
    AnswersShown
    OnlyAnswersLeft

PROPERTIES
    TurnDrains

CHECK_DEADLOCK FALSE
