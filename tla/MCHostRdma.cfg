SPECIFICATION FairSpec
CONSTANTS
    Reps = 3
    Transfers = 2
INVARIANTS
    HostTypeOK
    WholeBatchHasLanded
    DataWaitsForTheServer
PROPERTIES
    RepetitionsEnd
