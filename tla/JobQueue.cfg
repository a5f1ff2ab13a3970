SPECIFICATION FairSpec
CONSTANTS
    j1 = j1
    j2 = j2
    w1 = w1
    w2 = w2
    NoWorker = NoWorker
    Job = {j1, j2}
    Linked = {j1}
    Worker = {w1, w2}
    MaxAttempts = 2
    LeaseDuration = 3
    Backoff <- MCBackoff
    MaxLag = 1
    MaxCrashes = 1
INVARIANTS
    RunFollowsJob
PROPERTIES
    ResultOfLatestAttempt
    LiveLeaseIsUndisturbed
    ImplementsContract
    EveryJobEnds
