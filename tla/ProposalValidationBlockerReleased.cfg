SPECIFICATION ValidationSpec
CONSTANTS
    c1 = c1
    Client = {c1}
    NumValidators = 2
    MaxAttempts = 1
    Worlds <- MCWorlds
    MaxChanges = 0
    MaxErrors = 0
    MaxLosses = 0
CHECK_DEADLOCK FALSE
PROPERTY
    BlockerNeverReleased
