SPECIFICATION FairSpec

CONSTANTS
    Accounts = {a1, a2}
    Users = {u1, u2}
    MaxVersion = 3
    Good = {1, 3}
    MaxAttempts = 2
    MaxUpdates = 3
    MaxCrashes = 2
    MaxHelpers = 2

INVARIANTS
    TypeOK

PROPERTIES
    HealthyNeverRolledBack
    BadVersionLeft

CHECK_DEADLOCK FALSE
