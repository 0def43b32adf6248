----------------------------- MODULE FlowGraph ------------------------------
(***************************************************************************)
(* The control flow graph of src/graph.c: for every node the list of its   *)
(* predecessors and the list of its successors, two copies of the same     *)
(* edges that every operation has to keep equal.  Nodes are basic blocks,  *)
(* numbered from 1 here and from 0 in the code; all of them are in the     *)
(* graph from the start, as an absent node behaves like one with no edges. *)
(***************************************************************************)
EXTENDS Integers, Sequences, FiniteSets, Functions

CONSTANT NBlocks \* number of basic blocks

ASSUME NBlocksAssumption == NBlocks \in Nat \ {0, 1}

Blocks == 1..NBlocks
ENTRY_BLOCK == 1
EXIT_BLOCK == 2

Graphs == [succs : [Blocks -> Seq(Blocks)], preds : [Blocks -> Seq(Blocks)]]

InitGraph == [succs |-> [b \in Blocks |-> <<>>], preds |-> [b \in Blocks |-> <<>>]]

(* Node lists hold a node once, in the order the edges were added. *)
NodeListAdd(l, n) == IF n \in Range(l) THEN l ELSE Append(l, n)

NodeListDelete(l, n) ==
    IF n \in Range(l)
    THEN LET at == CHOOSE i \in DOMAIN l : l[i] = n
         IN  [i \in 1..(Len(l) - 1) |-> IF i < at THEN l[i] ELSE l[i + 1]]
    ELSE l

AddEdge(g, a, b) ==
    [g EXCEPT !.succs[a] = NodeListAdd(@, b), !.preds[b] = NodeListAdd(@, a)]

(* Mutant: the other end of the edge is forgotten. *)
DeleteEdgeOneEnd(g, a, b) == [g EXCEPT !.succs[a] = NodeListDelete(@, b)]

DeleteEdge(g, a, b) ==
    [g EXCEPT !.succs[a] = NodeListDelete(@, b), !.preds[b] = NodeListDelete(@, a)]

-----------------------------------------------------------------------------
(* What a graph means. *)

Edges(g) == {e \in Blocks \X Blocks : e[2] \in Range(g.succs[e[1]])}

NoRepetition(l) == \A i, j \in DOMAIN l : l[i] = l[j] => i = j

(* Both copies of the edges agree and neither repeats one. *)
Mirror(g) ==
    \A b \in Blocks :
        /\ NoRepetition(g.succs[b])
        /\ NoRepetition(g.preds[b])
        /\ Range(g.preds[b]) = {a \in Blocks : <<a, b>> \in Edges(g)}

(* The blocks a set of edges leads to from the entry block: those no set   *)
(* that is closed under the edges and holds the entry block leaves out.    *)
Closed(edges, S) == \A e \in edges : e[1] \in S => e[2] \in S
Reachable(edges) ==
    {b \in Blocks : \A S \in SUBSET Blocks : ENTRY_BLOCK \in S /\ Closed(edges, S) => b \in S}
=============================================================================
