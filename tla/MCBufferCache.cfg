SPECIFICATION Spec
CONSTANTS
    f0 = f0
    f1 = f1
    h1 = h1
    h2 = h2
    Files <- MCFiles
    Starts <- MCStarts
    NumBufs = 2
    BufLists = 2
    UseReadBehind <- MCReadBehind
    UseReadAhead = 2
    CacheMax = 2
    Holders <- MCHolders
    Values = {0, 1}
SYMMETRY HolderSymmetry
INVARIANTS
    CacheTypeOK
    VolumesAreOneFilesystem
    HoldersAreCounted
    ReadsSeeLastWrite
    AssertionsHold
    FlushedIsDurable
PROPERTIES
    HeaderWrittenLast
CHECK_DEADLOCK FALSE
