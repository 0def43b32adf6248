SPECIFICATION Spec
CONSTANTS
    MaxStmts = 2
    MaxDepth = 4
    MaxBlocks = 10
    LocalLists <- TwoLocals
    Grammar = {"local_function", "expr", "do", "while", "for", "for_step", "if", "elseif", "else", "repeat", "return", "undefined", "break", "label", "goto_forward", "goto_forward_close", "goto_backward"}
CONSTRAINT
    Small
INVARIANTS
    TypeOK
    ContextRestored
    NoBlockLost
    FinalInsnIsBranch
