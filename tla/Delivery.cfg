SPECIFICATION FairSpec
CONSTANTS
    s1 = s1
    w1 = w1
    w2 = w2
    Nobody = Nobody
    Subscriber = {s1}
    Worker = {w1, w2}
    Wanted = {"release"}
    MaxEvents = 2
    Mixes <- MCMixes
    EventAttempts = 2
    Budget = 1
    Renewed = 2
    MaxVersion = 2
    MaxFaults = 1
CHECK_DEADLOCK FALSE
INVARIANTS
    TypeOK
    PublishedIsDone
    GitKeepsOrder
PROPERTIES
    KeepsItsPromise
    EverythingEnds
