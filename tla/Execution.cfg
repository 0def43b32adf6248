SPECIFICATION RunSpec
CONSTANTS
    MaxStmts = 2
    MaxDepth = 3
    MaxBlocks = 10
    LocalLists <- OneLocal
    Grammar = {"local", "do", "while", "repeat", "for", "if", "break", "expr", "label", "goto_forward", "goto_backward"}
CONSTRAINT
    Small
INVARIANTS
    NoFallThrough
    FreshLocals
    SharedInScope
    ClosedOutsideScope
PROPERTY
    TakenEdgesInCfg
