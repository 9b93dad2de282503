SPECIFICATION Spec

CONSTANTS
    Tools = {t1}
    ItemKinds = {"tool start", "tool end", "command start", "command end"}
    MaxPartials = 1
    MaxFinals = 1
    FinalKinds = {"blank", "same", "new"}
    MaxFaults = 1
    MaxCalls = 2

INVARIANTS
    TypeOK
    OneEventButForMishaps
    SettledButForMishaps

CHECK_DEADLOCK FALSE
