SPECIFICATION Spec
CONSTANTS
    o1 = o1
    o2 = o2
    p1 = p1
    p2 = p2
    p3 = p3
    a = a
    b = b
    w1 = w1
    w2 = w2
    None = None
    Operation = {o1, o2}
    Principal = {p1, p2, p3}
    Author = {p1, p2}
    Reviewer = {p1, p2}
    Publisher = {p1, p2, p3}
    Asset = {a}
    Object = {b}
    Worker = {w1, w2}
    Proposed <- MCProposed
    MaxVersions = 3
    MaxAttempts = 2
    JobAttempts = 2
    MaxRetries = 1
    MaxReleases = 3
SYMMETRY MCSymmetry
CHECK_DEADLOCK FALSE
INVARIANTS
    ReleaseIsEntitled
    RollbackIsExact
    RegistryFollowsManifest
PROPERTIES
    VerdictIsFinal
