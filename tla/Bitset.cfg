SPECIFICATION BitSpec
CONSTANTS
    WordBits = 2
    Names = {x, y}
    MaxBits = 5
INVARIANT
    ContentRight
PROPERTY
    ReturnsChange
SYMMETRY Interchange
