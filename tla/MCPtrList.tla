------------------------------ MODULE MCPtrList -----------------------------
(* Values of the constants of PtrList for TLC. *)
EXTENDS PtrList

CONSTANTS one, two, low

(* one and two compare as equal, low goes before them. *)
LowFirst == [v \in Values |-> IF v = low THEN 1 ELSE 2]
=============================================================================
