CONSTANTS
    Starts <- MCHistogramStream
    Keys <- MCKeys
    MaxTid = 4
    SyncBegTid = 1
    PipeCap = 2
    BufCap = 1
    MaxCrashes = 0
    MaxRestarts = 0
    FreshTids <- MCFresh
    HIST_COUNT = 2
    SplitupOpt = 2
    Word = 65536
SPECIFICATION StreamSpec
CHECK_DEADLOCK FALSE
PROPERTIES
    StreamCatchesUp
