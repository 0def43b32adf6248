----------------------------- MODULE MCDataflow -----------------------------
(* Values of the constants of Dataflow for TLC. *)
EXTENDS Dataflow

Single == {<<b>> : b \in Blocks}
Pairs == {<<a, b>> \in Blocks \X Blocks : a < b}

(* No branch leads to the entry, none leaves the exit. *)
FlowLists ==
    [b \in Blocks |-> IF b = EXIT_BLOCK THEN {<<>>}
                      ELSE {l \in Single \cup Pairs : ENTRY_BLOCK \notin Range(l)}]

(* Every variable is used in one block behind the entry; one of them may   *)
(* be defined in one.                                                      *)
OneUse ==
    {f \in [Blocks -> SUBSET Vars] :
        /\ f[ENTRY_BLOCK] = {}
        /\ \A v \in Vars : Cardinality({b \in Blocks : v \in f[b]}) = 1}
NoDefs == [use : OneUse, def : {[b \in Blocks |-> {}]}]
Defined == CHOOSE v \in Vars : TRUE
OneDef ==
    [use : OneUse,
     def : {[b \in Blocks |-> IF b \in D THEN {Defined} ELSE {}] :
               D \in {{}} \cup {{b} : b \in Blocks}}]
=============================================================================
