SPECIFICATION Spec
CONSTANTS
    one = one
    two = two
    low = low
    Values = {one, two, low}
    Key <- LowFirst
    NodeNr = 2
    NULL = NULL
    MaxSize = 4
    MaxBlocks = 3
INVARIANTS
    CountsRight
    QueriesRight
PROPERTY
    ImplementsList
