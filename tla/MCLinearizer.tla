---------------------------- MODULE MCLinearizer ----------------------------
(* Values of the constants of Linearizer for TLC. *)
EXTENDS Linearizer

OneLocal == {<<>>, <<"escaped">>}
TwoLocals == {<<>>, <<"plain", "escaped">>}

(* Bound on the size of the function, in basic blocks. *)
CONSTANT MaxBlocks
Small == Len(proc.nodes) <= MaxBlocks
=============================================================================
