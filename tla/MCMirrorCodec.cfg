CONSTANTS
    Commands <- MCCommands
    HeadAlign = 2
    MaxRecSize = 6
    BufSize = 10
    WriterMayDie = TRUE
    MaxGarbled = 1
    GarbledSizes <- MCGarbledSizes
    GarbledTypes <- MCGarbledTypes
SPECIFICATION FairSpec
INVARIANTS
    TypeOK
    DumpPrintsEveryRecord
PROPERTIES
    ImplementsRecordPipe
    DumpTerminates
