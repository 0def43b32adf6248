---------------------------- MODULE MCExpressions ---------------------------
(* Values of the constants of Expressions for TLC.                            *)
EXTENDS Expressions

AllShapes == Shapes
AllButRangeOperand == Shapes \ {"range_operand"}

(* Bound on the variables and expressions of any statement but the return of  *)
(* one value.                                                                 *)
CONSTANT MaxOthers
ReturnsOne == frames[1].kind = "return" /\ frames[1].left + Len(frames[1].held) = 1
Small == frames # <<>> /\ ~ReturnsOne => nodes <= MaxOthers
=============================================================================
