SPECIFICATION FairSpec
CONSTANTS
    N = 4
    P = 6
    W = 4
    U = 2
    Depth = 2
    Items = {}
    Batches <- MCBatches
INVARIANTS
    CoeffTypeOK
    MemoriesHoldOneBatch
    WalkAgreesWithIndex
    CoefficientsAtTheirIndex
PROPERTIES
    KeepsAnswering
