SPECIFICATION Spec
CONSTANTS
    Keys <- FiveKeys
    Data = {1, 2}
    Hash <- OwnHash
    HashSizes <- FirstSizes
INVARIANTS
    CountsRight
    SearchRight
PROPERTY
    ImplementsMap
