SPECIFICATION FairSpec
CONSTANTS
    h1 = h1
    h2 = h2
    None = None
    Indexes = 2
    Handler = {h1, h2}
    Assets = 2
    Stable <- MCStable
    Batch = 1
    Mixes <- MCMixes
CHECK_DEADLOCK FALSE
INVARIANTS
    RunTellsTheOutcome
PROPERTIES
    SearchIsHonest
    EveryBuildEnds
