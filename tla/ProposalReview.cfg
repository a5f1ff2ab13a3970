SPECIFICATION ReviewSpec
CONSTANTS
    p1 = p1
    p2 = p2
    alice = alice
    bob = bob
    Proposal = {p1, p2}
    Principal = {alice, bob}
    Author <- MCAuthor
    Cluster <- MCCluster
    Batch = {b1}
    Request = {r1, r2}
    MaxCrashes = 1
SYMMETRY MCSymmetry
CHECK_DEADLOCK FALSE
INVARIANT ReviewTypeOK
INVARIANT BatchSpeaksForItsMembers
PROPERTY DecisionIsFinal
