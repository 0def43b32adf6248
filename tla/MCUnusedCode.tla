---------------------------- MODULE MCUnusedCode ----------------------------
(* Values of the constants of UnusedCode for TLC.  Of the functions of a   *)
(* chunk one is any function; the others are the same one, and may differ  *)
(* in whether they have a graph.                                           *)
EXTENDS UnusedCode

AscendingPairs == {c \in Targets \X Targets : c[1] < c[2]}

(* Its last block cannot be reached. *)
PlainCode == [b \in Blocks |-> IF b = EXIT_BLOCK THEN NoInsn ELSE Branch(<<EXIT_BLOCK>>)]
FailingCode == [PlainCode EXCEPT ![ENTRY_BLOCK] = OtherInsn]

MCInit ==
    /\ \E q \in Procs, f \in Code, others \in [Procs -> {PlainCode, FailingCode}] :
          code = [others EXCEPT ![q] = f]
    /\ Init

(* The compiler is one thread that does not stop in the middle. *)
MCSpec == MCInit /\ [][Next]_vars /\ WF_vars(Step)
=============================================================================
