SPECIFICATION Spec
CONSTANTS
    Octets = 4
    KeepBits = 64
    Offsets = {0, 1, 2, 3}
    Jobs <- MCJobs
    Lengths = {1, 3, 4, 5, 8}
    ShiftDepth = 1
    Mergings <- MergerKinds
    PackageJobs <- MCPackageJobs
    PackageLengths = {1, 3}
    MergeDepth = 2
    N = 6
    regSampleSize = 4
    Items = 13
    DataDepth = 3
    Data2Depth = 2
    SumsDepth = 2
INVARIANTS
    WordsAreWellFormed
    BytesComeThrough
    EachInputInOrder
    OrderIsRestored
    PackagesStayWhole
    OneBatchInOrder
    TakesOneBatch
PROPERTIES
    NobodyIsPassedByTwice
    EverythingArrives
    BatchIsWritten
