CONSTANTS
    Starts <- MCPlainCopy
    Keys <- MCKeys
    MaxTid = 2
    SyncBegTid = 1
    PipeCap = 2
    BufCap = 1
    MaxCrashes = 0
    MaxRestarts = 0
    FreshTids <- MCStale
    HIST_COUNT = 2
    SplitupOpt = 2
    Word = 65536
SPECIFICATION Spec
CHECK_DEADLOCK FALSE
INVARIANTS
    RangeEndsAtFlushedTid
