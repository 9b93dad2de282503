SPECIFICATION FairSpec

CONSTANTS
    MaxProcs = 2
    MaxCommands = 3
    MaxFaults = 1

INVARIANTS
    TypeOK
    BotsAccountedFor
    ForeignStateExplained
    SaidIsInvited

PROPERTIES
    CommandsEnd

CHECK_DEADLOCK FALSE
