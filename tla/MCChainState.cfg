SPECIFICATION Spec
CONSTANTS
    a1 = a1  a2 = a2  a3 = a3  b1 = b1
    Hash = {a1, a2, b1}
    Genesis = g
    Parent <- Tree
    nHeight <- Heights
    FileSize = 2
    MaxFile = 2
    Keep = 1
    PruneAfter = 1
    CheckBlocks = 1
    MaxCrash = 1
    MaxBatch = 1
    None = None
INVARIANTS
    TypeOK
    BlocksOnDisk
    UndoOnDisk
    BestBlockKnown
    StartsAgain
CHECK_DEADLOCK FALSE
