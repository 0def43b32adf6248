----------------------------- MODULE MCResolver -----------------------------
(* Programs are bounded by what they leave in the tree, scopes counting       *)
(* double, so that a program deep in one respect is small in the others.      *)
EXTENDS Resolver

CONSTANTS MaxSize, MaxOpen

Upvalues == UNION {{<<f, i>> : i \in DOMAIN functions[f].upvalues} : f \in DOMAIN functions}

Small ==
    /\ Len(open) <= MaxOpen
    /\ 2 * Len(scopes) + Len(variables) + Cardinality(Upvalues)
           + Cardinality(assigned \cup redefined) <= MaxSize
=============================================================================
