CONSTANTS
    Starts <- MCStarts
    Keys <- MCKeys
    MaxTid = 4
    SyncBegTid = 1
    PipeCap = 2
    BufCap = 1
    MaxCrashes = 1
    MaxRestarts = 2
    FreshTids <- MCFresh
    HIST_COUNT = 2
    SplitupOpt = 2
    Word = 65536
SPECIFICATION StreamSpec
CHECK_DEADLOCK FALSE
INVARIANTS
    TypeOK
    SnapshotComplete
    InStepWithoutFailure
    OnlyItsSlaveIsWritten
PROPERTIES
    ImplementsMirrorAbstract
    CopyTerminates
    StreamCatchesUp
