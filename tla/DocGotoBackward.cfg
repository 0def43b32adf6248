SPECIFICATION Spec
CONSTANTS
    MaxStmts = 2
    MaxDepth = 2
    MaxBlocks = 10
    LocalLists <- OneLocal
    Grammar = {"local", "if", "label", "goto_backward_close"}
INVARIANTS
    FinalInsnIsBranch
