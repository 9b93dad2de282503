SPECIFICATION Spec

CONSTANTS
    Accounts = {a1}
    Users = {u1, u2}
    MaxVersion = 3
    Good = {1, 3}
    MaxAttempts = 2
    MaxUpdates = 2
    MaxCrashes = 0
    MaxHelpers = 2

PROPERTIES
    OnlyNewVersionConfirms

CHECK_DEADLOCK FALSE
