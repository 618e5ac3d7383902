CONSTANTS
    BigBlockSize = 8
    BufSize = 4
    DataAlign = 2
    UndoAlign = 4
    HeadAlign = 2
    IntBits = 5
    Radix2 = 8
    L1PerVol = 2
    MaxVolumes = 2
    Starts <- MCStarts
    Kilo = 2
    SectorBytes = 2
    OffRange = 65536
    HeaderBytes = 3
    MinVolJunk = 4
    VolJunkSize = 4
    MaxVolJunk = 8
    BootMin = 4
    BootNom = 8
    BootMax = 16
    MemMin = 4
    MemNom = 8
    MemMax = 8
    UndoDivisor = 1000
    MinUndoBigBlocks = 1
    MaxUndoBigBlocks = 2
    MinFreeBytes = 24
    NodeBytes = 4
    InodeBytes = 1
    PfsBytes = 2
    AllocSizes <- MCAllocSizes
    MaxAllocs = 6
    VerboseOpts <- MCVerboseOpts
    LinkRecTypes <- MCLinkRecTypes
    CorruptBits <- MCCorruptBits
SPECIFICATION CheckSpec
CHECK_DEADLOCK FALSE
INVARIANTS
    CheckTypeOK
    ReportsAreTheDamage
    SweepsReachEveryUsedBigBlock
    BlockmapListsEveryBigBlock
    StripDestroysTheIndex
PROPERTIES
    UndoScanEnds
