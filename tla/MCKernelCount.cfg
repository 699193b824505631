SPECIFICATION FairSpec
CONSTANTS
    N = 4
    P = 6
    W = 4
    U = 4
    Depth = 2
    Sizes = {1, 2}
    MaxBatches = 1
    Items <- MCItems
INVARIANTS
    CoefficientsUseTheirSampleCount
