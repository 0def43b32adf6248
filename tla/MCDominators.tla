---------------------------- MODULE MCDominators ----------------------------
(* Values of the constants of Dominators for TLC. *)
EXTENDS Dominators

Pairs == {<<a, b>> : a \in Blocks, b \in Blocks}

(* Up to two successors in any order; none after the exit. *)
UpToTwo ==
    [b \in Blocks |->
        IF b = EXIT_BLOCK THEN {<<>>}
        ELSE {<<>>} \cup {<<c>> : c \in Blocks} \cup {c \in Pairs : c[1] # c[2]}]
=============================================================================
