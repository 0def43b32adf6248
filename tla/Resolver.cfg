CONSTANTS
    Names = {x, env}
    ENV = env
    MaxFunctions = 3
    MaxScopes = 4
    MaxVariables = 3
    MaxSize = 11
    MaxOpen = 5
SPECIFICATION Spec
CONSTRAINT Small
INVARIANTS
    TypeOK
    ClosedWhereCaptured
    LiteralsNeverAssigned
PROPERTIES
    ImplementsScoping
CHECK_DEADLOCK FALSE
