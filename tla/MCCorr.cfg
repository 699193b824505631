SPECIFICATION FairSpec
CONSTANTS
    N = 4
    P = 6
    W = 4
    U = 4
    Depth = 2
    Items <- MCItems
INVARIANTS
    CorrTypeOK
    ReadoutInv
PROPERTIES
    EndOfBatchLeavesZeroes
    InputIsNeverStuck
    ImplementsBatchSums
