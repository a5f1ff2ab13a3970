SPECIFICATION ValidationSpec
CONSTANTS
    c1 = c1
    c2 = c2
    Client = {c1, c2}
    NumValidators = 2
    MaxAttempts = 2
    Worlds <- MCWorlds
    MaxChanges = 1
    MaxErrors = 1
    MaxLosses = 1
CHECK_DEADLOCK FALSE
SYMMETRY ClientSymmetry
INVARIANT ValidationTypeOK
INVARIANT ReviewFollowsValidation
INVARIANT OutcomeIsReproducible
INVARIANT RunTellsItsFindings
INVARIANT OneFaultIsSurvived
