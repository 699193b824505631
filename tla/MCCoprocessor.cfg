SPECIFICATION CopSpec
CONSTANTS
    N = 4
    numberItems = 2
    MaxBatches = 4
    StreamDepth = 2
INVARIANTS
    ContentWithTheFirstBatch
    NoLineIsUnderWay
PROPERTIES
    CoprocessorEnds
CHECK_DEADLOCK FALSE
