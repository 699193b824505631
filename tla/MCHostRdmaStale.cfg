SPECIFICATION Spec
CONSTANTS
    Reps = 2
    Transfers = 2
PROPERTIES
    ServerTakesItsOwnResults
