SPECIFICATION Spec
CONSTANTS
    Results = 2
    MaxNodes = 5
    MaxOthers = 4
    MaxDepth = 5
    MaxItems = 2
    MaxReg = 9
    RangeBits = 2
    LeftOut <- AllShapes
CONSTRAINT
    Small
INVARIANTS
    TypeOK
    RegistersOwned
    AssertsHold
PROPERTY
    ImplementsEvaluation
