CONSTANTS
    Starts <- MCTimedCopy
    Keys <- MCKeys
    MaxTid = 3
    SyncBegTid = 1
    PipeCap = 2
    BufCap = 1
    MaxCrashes = 0
    MaxRestarts = 0
    FreshTids <- MCFresh
    HIST_COUNT = 2
    SplitupOpt = 2
    Word = 65536
SPECIFICATION Spec
CHECK_DEADLOCK FALSE
INVARIANTS
    NoMutualWait
