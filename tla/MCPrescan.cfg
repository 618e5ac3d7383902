CONSTANTS
    HIST_COUNT = 4
    SplitupOpt = 3
    Word = 65536
    MaxTid = 7
    Records <- MCRecords
    MaxScanned = 3
SPECIFICATION Spec
CHECK_DEADLOCK FALSE
INVARIANTS
    TypeOK
    ChunkEstimateMatchesRange
    ChunksTileRange
