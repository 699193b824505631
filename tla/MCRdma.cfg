SPECIFICATION FairWSpec
CONSTANTS
    T = 2
    Items = 2
    Cachelines = 2
    lenReg = 12
    LenValues = 8
    BeatSizes = {1, 2}
    Batches = 2
    MaxAnswers = 3
    NoBeat = NoBeat
INVARIANTS
    RestBetweenBatches
    WritesLandInPlace
PROPERTIES
    NoResultLineIsLost
    EveryAnswerIsWritten
