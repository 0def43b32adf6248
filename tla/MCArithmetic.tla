---------------------------- MODULE MCArithmetic ----------------------------
(* Integers of four bits, small integers and fractions, and a boolean.        *)
EXTENDS Arithmetic

MCValues == {Ival(0), Ival(1), Ival(3), Fval(2), Fraction(1, 2), Bval(TRUE)}
=============================================================================
