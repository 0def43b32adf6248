----------------------------- MODULE DepthFirst -----------------------------
(***************************************************************************)
(* The numbering of a graph's nodes and the classification of its edges,   *)
(* raviX_classify_edges() of src/graph.c.  The recursion of DFS_classify() *)
(* is a stack of activations.  The graph may change and be classified      *)
(* again, as raviX_solve_dataflow() does with the graph it is given.       *)
(***************************************************************************)
EXTENDS FlowGraph

CONSTANTS
    Lists,     \* the lists of successors each node may have
    MaxChanges \* bound on the edges deleted after a classification

ASSUME ListsAssumption ==
    /\ Lists \in [Blocks -> SUBSET Seq(Blocks)]
    /\ \A b \in Blocks : \A l \in Lists[b] : NoRepetition(l)
ASSUME ChangesAssumption == MaxChanges \in Nat

EdgeTypes == {"UNCLASSIFIED", "TREE", "BACKWARD", "FORWARD", "CROSS"}

VARIABLES
    g,         \* the graph
    pre,       \* preorder numbers, 0 for a node not reached yet
    rpost,     \* reverse postorder numbers, 0 for a node not finished yet
    edge_type, \* the edge types, by position in the list of successors
    state,     \* the next preorder and reverse postorder numbers
    calls,     \* the activations, outermost first: the node and the
               \* position of the next edge
    changes    \* number of edges deleted since the start

vars == <<g, pre, rpost, edge_type, state, calls, changes>>

Unclassified(h) == [b \in Blocks |-> [k \in DOMAIN h.succs[b] |-> "UNCLASSIFIED"]]

(* The graph with these lists of successors, its edges added in the order  *)
(* of their sources.                                                       *)
Sources(lists, b) ==
    LET before[a \in 0..NBlocks] ==
            IF a = 0 THEN <<>>
            ELSE IF b \in Range(lists[a]) THEN Append(before[a - 1], a)
            ELSE before[a - 1]
    IN  before[NBlocks]

GraphOf(lists) == [succs |-> lists, preds |-> [b \in Blocks |-> Sources(lists, b)]]

Activation(n) == [node |-> n, next |-> 1]

Init ==
    /\ \E lists \in [Blocks -> UNION Range(Lists)] :
          /\ \A b \in Blocks : lists[b] \in Lists[b]
          /\ g = GraphOf(lists)
    /\ pre = [b \in Blocks |-> 0]
    /\ rpost = [b \in Blocks |-> 0]
    /\ edge_type = Unclassified(g)
    /\ state = [preorder |-> 0, rpostorder |-> 0]
    /\ calls = <<>>
    /\ changes = 0

(* The numbers are those of the graph as it is: state is local to the      *)
(* classification in the code, here it is 0 again when the graph changed.  *)
Classified == calls = <<>> /\ state.preorder > 0

-----------------------------------------------------------------------------
(* Mutant: the preorder numbers of an earlier classification stay. *)
ClassifyNoReset ==
    /\ calls = <<>> /\ ~Classified
    /\ pre' = [pre EXCEPT ![ENTRY_BLOCK] = 1]
    /\ rpost' = [b \in Blocks |-> 0]
    /\ edge_type' = Unclassified(g)
    /\ state' = [preorder |-> 2, rpostorder |-> NBlocks]
    /\ calls' = <<Activation(ENTRY_BLOCK)>>
    /\ UNCHANGED <<g, changes>>

(* raviX_classify_edges() clears everything and starts at the entry. *)
Classify ==
    /\ calls = <<>> /\ ~Classified
    /\ pre' = [b \in Blocks |-> IF b = ENTRY_BLOCK THEN 1 ELSE 0]
    /\ rpost' = [b \in Blocks |-> 0]
    /\ edge_type' = Unclassified(g)
    /\ state' = [preorder |-> 2, rpostorder |-> NBlocks]
    /\ calls' = <<Activation(ENTRY_BLOCK)>>
    /\ UNCHANGED <<g, changes>>

Top == calls[Len(calls)]
AtEdge == calls # <<>> /\ Top.next <= Len(g.succs[Top.node])
Successor == g.succs[Top.node][Top.next]

(* Mutant: looks at whether the node is finished, not whether it is reached. *)
TypeOfEdgeUnfinished(n, s) ==
    IF rpost[s] = 0 THEN "TREE"
    ELSE IF pre[n] < pre[s] THEN "FORWARD"
    ELSE "CROSS"

(* Mutant: preorder numbers are compared the other way round. *)
TypeOfEdgeSwapped(n, s) ==
    IF pre[s] = 0 THEN "TREE"
    ELSE IF rpost[s] = 0 THEN "BACKWARD"
    ELSE IF pre[n] < pre[s] THEN "CROSS"
    ELSE "FORWARD"

TypeOfEdge(n, s) ==
    IF pre[s] = 0 THEN "TREE"
    ELSE IF rpost[s] = 0 THEN "BACKWARD"
    ELSE IF pre[n] < pre[s] THEN "FORWARD"
    ELSE "CROSS"

Mark == edge_type' = [edge_type EXCEPT ![Top.node][Top.next] = TypeOfEdge(Top.node, Successor)]
Advanced == [calls EXCEPT ![Len(calls)].next = @ + 1]

Descend ==
    /\ AtEdge /\ pre[Successor] = 0
    /\ Mark
    /\ pre' = [pre EXCEPT ![Successor] = state.preorder]
    /\ state' = [state EXCEPT !.preorder = @ + 1]
    /\ calls' = Append(Advanced, Activation(Successor))
    /\ UNCHANGED <<g, rpost, changes>>

PassEdge ==
    /\ AtEdge /\ pre[Successor] # 0
    /\ Mark
    /\ calls' = Advanced
    /\ UNCHANGED <<g, pre, rpost, state, changes>>

(* Mutant: nodes are numbered in postorder. *)
FinishPostorder ==
    /\ calls # <<>> /\ ~AtEdge
    /\ rpost' = [rpost EXCEPT ![Top.node] = NBlocks + 1 - state.rpostorder]
    /\ state' = [state EXCEPT !.rpostorder = @ - 1]
    /\ calls' = SubSeq(calls, 1, Len(calls) - 1)
    /\ UNCHANGED <<g, pre, edge_type, changes>>

Finish ==
    /\ calls # <<>> /\ ~AtEdge
    /\ rpost' = [rpost EXCEPT ![Top.node] = state.rpostorder]
    /\ state' = [state EXCEPT !.rpostorder = @ - 1]
    /\ calls' = SubSeq(calls, 1, Len(calls) - 1)
    /\ UNCHANGED <<g, pre, edge_type, changes>>

(* The list entry is deleted with its edge type, the others move up. *)
RemoveEdge ==
    /\ Classified /\ changes < MaxChanges
    /\ \E e \in Edges(g) :
          LET at == CHOOSE k \in DOMAIN g.succs[e[1]] : g.succs[e[1]][k] = e[2]
          IN  /\ g' = DeleteEdge(g, e[1], e[2])
              /\ edge_type' = [edge_type EXCEPT ![e[1]] =
                                  [k \in 1..(Len(@) - 1) |-> IF k < at THEN @[k] ELSE @[k + 1]]]
    /\ state' = [preorder |-> 0, rpostorder |-> 0]
    /\ changes' = changes + 1
    /\ UNCHANGED <<pre, rpost, calls>>

Step == Classify \/ Descend \/ PassEdge \/ Finish

Finished == Classified /\ UNCHANGED vars

Next == Step \/ RemoveEdge \/ Finished

Spec == Init /\ [][Next]_vars

-----------------------------------------------------------------------------
(* Properties *)

Reached == {b \in Blocks : pre[b] # 0}

(* The types of the variables. *)
TypeOK ==
    /\ g \in Graphs
    /\ pre \in [Blocks -> 0..NBlocks]
    /\ rpost \in [Blocks -> 0..NBlocks]
    /\ \A b \in Blocks : edge_type[b] \in Seq(EdgeTypes) /\ Len(edge_type[b]) = Len(g.succs[b])
    /\ state \in [preorder : 0..(NBlocks + 1), rpostorder : 0..NBlocks]
    /\ calls \in Seq([node : Blocks, next : Nat \ {0}])
    /\ changes \in 0..MaxChanges

(* Exactly the nodes the entry leads to are numbered, also when the graph  *)
(* was classified before and has lost edges since.                         *)
ReachedAreReachable == Classified => Reached = Reachable(Edges(g))

TypedEdges(types) ==
    {e \in Edges(g) :
        \E k \in DOMAIN g.succs[e[1]] :
            g.succs[e[1]][k] = e[2] /\ edge_type[e[1]][k] \in types}

(* The tree edges are a spanning tree of the nodes reached: one leads to   *)
(* each of them but the entry, from a node entered before.                 *)
TreeSpans ==
    Classified =>
        /\ Reachable(TypedEdges({"TREE"})) = Reached
        /\ \A b \in Reached :
              Cardinality({e \in TypedEdges({"TREE"}) : e[2] = b})
                  = IF b = ENTRY_BLOCK THEN 0 ELSE 1

(* m is an ancestor of n in the tree of tree edges, or n itself. *)
Ancestor(m, n) ==
    \A S \in SUBSET Blocks : m \in S /\ Closed(TypedEdges({"TREE"}), S) => n \in S

(* The types mean what they say: a backward edge leads to an ancestor, a   *)
(* forward edge to a descendant, a cross edge to neither.                  *)
TypesRight ==
    Classified =>
        /\ \A e \in TypedEdges({"BACKWARD"}) : Ancestor(e[2], e[1])
        /\ \A e \in TypedEdges({"FORWARD"}) : Ancestor(e[1], e[2])
        /\ \A e \in TypedEdges({"CROSS"}) : ~Ancestor(e[1], e[2]) /\ ~Ancestor(e[2], e[1])
        /\ \A e \in TypedEdges({"UNCLASSIFIED"}) : e[1] \notin Reached

(* After a classification, the first or one after edges were deleted, the  *)
(* numbers and the types of the edges describe the graph as it now is.     *)
ClassificationRight == ReachedAreReachable /\ TreeSpans /\ TypesRight

(* The order of the numbers is a topological order once the backward edges *)
(* are left out, and only those go against it: what the forward solvers    *)
(* and the dominator computation need of "reverse postorder".              *)
RpoTopological ==
    Classified =>
        \A e \in Edges(g) : e[1] \in Reached =>
            (rpost[e[1]] < rpost[e[2]] <=> e \notin TypedEdges({"BACKWARD"}))
=============================================================================
