CONSTANTS
    w1 = w1
    w2 = w2
    c1 = c1
    None = None
    Worker = {w1, w2}
    Client = {c1}
    Horizon = 5
    Beyond = 7
    Zones <- Clocks
    Expressions <- Crons
    MaxCommands = 2
    MaxFaults = 1
    MaxLog = 3
SPECIFICATION FairSpec
CHECK_DEADLOCK FALSE
INVARIANTS MinuteRunsOnce NoMinuteIsLost
PROPERTY EveryMinuteEnds
