CONSTANTS
    Paths <- MCPaths
    Starts <- MCStarts
    Files <- MCFiles
    MaxTid = 7
    HAMMER_MAX_HISTORY_ELMS = 2
    MaxFaults = 1
    MaxPrunes = 1
    Nil = Nil
    NoAttr = NoAttr
    ERANGE = ERANGE
    NoKey = NoKey
SPECIFICATION FairSpec
CHECK_DEADLOCK FALSE
INVARIANTS
    TypeOK
    HistoryListsEveryVersion
PROPERTIES
    HistoryEnds
