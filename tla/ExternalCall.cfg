SPECIFICATION FairSpec
CONSTANTS
    k1 = k1
    k2 = k2
    h1 = h1
    h2 = h2
    None = None
    Key = {k1, k2}
    Handler = {h1, h2}
    Mixes <- MCMixes
    Limit = 1
    JobAttempts = 2
    MaxChanges = 1
CHECK_DEADLOCK FALSE
INVARIANTS
    WithinTheLimit
PROPERTIES
    KeepsItsPromise
    NothingRunsForever
