SPECIFICATION MCSpec
CONSTANTS
    NBlocks = 4
    NProcs = 3
    CbrTargets <- AscendingPairs
INVARIANTS
    TypeOK
    NoReachableRemoved
    GraphRight
    NothingLeftToRemove
PROPERTY
    Terminates
