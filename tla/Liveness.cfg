SPECIFICATION DfSpec
CONSTANTS
    NBlocks = 4
    MaxChanges = 0
    Lists <- FlowLists
    Vars = {x, y}
    UseDefs <- OneDef
    WordBits = 64
INVARIANTS
    LiveFound
    NotTooLive
PROPERTY
    DfTerminates
