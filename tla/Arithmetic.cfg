SPECIFICATION Spec
CONSTANTS
    W = 4
    Values <- MCValues
    LeftOut = {"int_div", "fold_shift", "fold_inf", "minus_minus", "float_as_int", "number_of_int", "number_of_local", "number_condition", "header_cast", "zero_step"}
    MaxSteps = 5
    MaxDepth = 2
    MaxPart = 40
INVARIANTS TypesSound NothingAborted
PROPERTY ImplementsLua
CHECK_DEADLOCK FALSE
