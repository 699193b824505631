SPECIFICATION Spec
CONSTANTS
    Programs = {"amnes_bench", "ss_eigenlib_th", "server"}
    BlockCounts = {1, 3, 4}
    ThreadCounts = {0, 1, 2, 3}
    MaxReps = 3
    Parts = 2
    N = 3
    DeviceCounts = {1, 2}
    Streams = 2
    ItemLists <- MCItemLists
    Values = {0, 1, 3}
    ItemCounts = {0, 1, 3}
    ProductValues = 16
    AccValues = 64
    WideValues = 256
INVARIANTS
    EveryBlockOnce
    AtMostOneRepetitionOld
    VerifiesFinishedSums
    CovarianceUpToItsSign
PROPERTIES
    ProgramsEnd
CHECK_DEADLOCK FALSE
