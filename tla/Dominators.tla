----------------------------- MODULE Dominators -----------------------------
(***************************************************************************)
(* The dominator tree, src/dominator.c, of a graph that DepthFirst has     *)
(* numbered: sweeps over the nodes in reverse postorder that improve the   *)
(* array of immediate dominators until nothing changes.  The asserts of    *)
(* the code are not compiled in.                                           *)
(***************************************************************************)
EXTENDS DepthFirst

VARIABLES
    order,  \* nodes_in_reverse_postorder; empty before the computation
    pos,    \* position in it
    IDOM,   \* the array of immediate dominators
    changed \* IDOM changed in this sweep

domVars == <<order, pos, IDOM, changed>>

NoNode == 0

DomInit ==
    /\ Init
    /\ order = <<>> /\ pos = 1
    /\ IDOM = [b \in Blocks |-> NoNode]
    /\ changed = FALSE

Number == Step /\ UNCHANGED domVars

(* The graph changes before its dominators are computed. *)
Change == order = <<>> /\ RemoveEdge /\ UNCHANGED domVars

(* What qsort() may return: nodes never reached all have the number 0. *)
Sorted ==
    {s \in [Blocks -> Blocks] :
        /\ Range(s) = Blocks
        /\ \A k \in 1..(NBlocks - 1) : rpost[s[k]] <= rpost[s[k + 1]]}

Start ==
    /\ Classified /\ order = <<>>
    /\ order' \in Sorted
    /\ IDOM' = [b \in Blocks |-> IF b = ENTRY_BLOCK THEN ENTRY_BLOCK ELSE NoNode]
    /\ pos' = 1 /\ changed' = FALSE
    /\ UNCHANGED vars

(* The nodes whose immediate dominator has been calculated. *)
Computed == {b \in Blocks : IDOM[b] # NoNode}

(* Mutant: both fingers climb, whichever is lower. *)
IntersectBoth(m, n) ==
    LET meet[f \in Computed \X Computed] ==
            IF f[1] = f[2] THEN f[1] ELSE meet[<<IDOM[f[1]], IDOM[f[2]]>>]
    IN  meet[<<m, n>>]

(* intersect(): two fingers climb towards the entry until they meet. *)
Intersect(m, n) ==
    LET meet[f \in Computed \X Computed] ==
            IF f[1] = f[2] THEN f[1]
            ELSE IF rpost[f[1]] > rpost[f[2]] THEN meet[<<IDOM[f[1]], f[2]>>]
            ELSE meet[<<f[1], IDOM[f[2]]>>]
    IN  meet[<<m, n>>]

(* Mutant: the last predecessor wins. *)
NewIDomLast(b) ==
    LET preds == g.preds[b]
        ancestor[k \in 0..Len(preds)] ==
            IF k = 0 THEN NoNode
            ELSE IF preds[k] \in Computed THEN preds[k] ELSE ancestor[k - 1]
    IN  ancestor[Len(preds)]

(* The common ancestor of the predecessors that have one: the first of     *)
(* them, then what it and the next have in common, and so on.              *)
NewIDom(b) ==
    LET preds == g.preds[b]
        ancestor[k \in 0..Len(preds)] ==
            IF k = 0 THEN NoNode
            ELSE IF preds[k] \notin Computed THEN ancestor[k - 1]
            ELSE IF ancestor[k - 1] = NoNode THEN preds[k]
            ELSE Intersect(preds[k], ancestor[k - 1])
    IN  ancestor[Len(preds)]

AtNode == order # <<>> /\ pos <= NBlocks

(* Mutant: every visit counts as a change. *)
VisitChanges ==
    /\ AtNode
    /\ IF order[pos] = ENTRY_BLOCK THEN UNCHANGED <<IDOM, changed>>
       ELSE /\ IDOM' = [IDOM EXCEPT ![order[pos]] = NewIDom(order[pos])]
            /\ changed' = TRUE
    /\ pos' = pos + 1
    /\ UNCHANGED <<vars, order>>

Visit ==
    /\ AtNode
    /\ IF order[pos] = ENTRY_BLOCK THEN UNCHANGED <<IDOM, changed>>
       ELSE /\ IDOM' = [IDOM EXCEPT ![order[pos]] = NewIDom(order[pos])]
            /\ changed' = (changed \/ IDOM' # IDOM)
    /\ pos' = pos + 1
    /\ UNCHANGED <<vars, order>>

SweepOver == order # <<>> /\ pos > NBlocks

NextSweep ==
    /\ SweepOver /\ changed
    /\ pos' = 1 /\ changed' = FALSE
    /\ UNCHANGED <<vars, order, IDOM>>

DomStep == Number \/ Start \/ Visit \/ NextSweep

Over == SweepOver /\ ~changed /\ UNCHANGED <<vars, domVars>>

DomNext == DomStep \/ Change \/ Over

(* One thread, which does not stop in the middle. *)
DomSpec == DomInit /\ [][DomNext]_<<vars, domVars>> /\ WF_<<vars, domVars>>(DomStep)

-----------------------------------------------------------------------------
(* Properties *)

(* m is on every path from the entry to n. *)
Dominates(m, n) ==
    \/ m \in {ENTRY_BLOCK, n}
    \/ n \notin Reachable({e \in Edges(g) : e[1] # m})

StrictDominators(n) == {m \in Reachable(Edges(g)) \ {n} : Dominates(m, n)}

(* When the sweeps are over, IDOM is the immediate dominator of every node *)
(* that can be reached, the strict dominator all others dominate, and is   *)
(* not set for the nodes that cannot.                                      *)
IdomRight ==
    SweepOver /\ ~changed =>
        \A b \in Blocks \ {ENTRY_BLOCK} :
            IF b \in Reachable(Edges(g))
            THEN /\ IDOM[b] \in StrictDominators(b)
                 /\ \A m \in StrictDominators(b) : Dominates(m, IDOM[b])
            ELSE IDOM[b] = NoNode

(* At every moment a node's IDOM comes before it in reverse postorder and  *)
(* has an IDOM itself: the fingers of intersect() meet and never leave the *)
(* tree.                                                                   *)
IdomAbove ==
    order # <<>> => \A b \in Blocks \ {ENTRY_BLOCK} : IDOM[b] # NoNode =>
        rpost[IDOM[b]] < rpost[b] /\ IDOM[IDOM[b]] # NoNode

(* The fixpoint is the dominator tree, and each sweep before it kept to a  *)
(* tree.                                                                   *)
DominatorsRight == IdomAbove /\ IdomRight

(* The sweeps come to an end. *)
DomTerminates == <>(SweepOver /\ ~changed)
=============================================================================
