---------------------------- MODULE MCExecution -----------------------------
(* Values of the constants of Execution for TLC. *)
EXTENDS Execution

OneLocal == {<<>>, <<"escaped">>}
TwoLocals == {<<>>, <<"plain", "escaped">>}

(* Bound on the size of the function, in basic blocks. *)
CONSTANT MaxBlocks
Small == Len(proc.nodes) <= MaxBlocks
=============================================================================
