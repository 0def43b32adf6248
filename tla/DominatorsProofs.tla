-------------------------- MODULE DominatorsProofs --------------------------
(***************************************************************************)
(* Proofs about DepthFirst and Dominators, for graphs of any size, any     *)
(* edges, and any number of changes between two classifications.           *)
(***************************************************************************)
EXTENDS Dominators, FiniteSetTheorems, WellFoundedInduction, TLAPS

-----------------------------------------------------------------------------
(* Induction: a set of numbers, of counterexamples for instance, that is   *)
(* not empty has a least element.                                          *)
LEMMA LeastNumber ==
    ASSUME NEW T, T \subseteq Nat, T # {}
    PROVE  \E x \in T : \A y \in T : x <= y
<1> DEFINE R == OpToRel(<, Nat)
<1>1. IsWellFoundedOn(R, Nat)
  BY NatLessThanWellFounded
<1>2. \E x \in T : \A y \in T : ~ (<<y, x>> \in R)
  <2> HIDE DEF R
  <2> QED BY <1>1, WFMin
<1>3. \A x \in Nat, y \in Nat : y < x => <<y, x>> \in R
  BY DEF OpToRel
<1> HIDE DEF R
<1>4. PICK x \in T : \A y \in T : ~ (<<y, x>> \in R)
  BY <1>2
<1>5. \A y \in T : ~(y < x)
  BY <1>3, <1>4
<1> QED BY <1>5

-----------------------------------------------------------------------------
(* Node lists *)

LEMMA AddToList ==
    ASSUME NEW l \in Seq(Blocks), NEW n \in Blocks, NoRepetition(l)
    PROVE  /\ NodeListAdd(l, n) \in Seq(Blocks)
           /\ NoRepetition(NodeListAdd(l, n))
           /\ Range(NodeListAdd(l, n)) = Range(l) \cup {n}
<1>1. CASE n \in Range(l)
  BY <1>1 DEF NodeListAdd
<1>2. CASE n \notin Range(l)
  <2> DEFINE m == Append(l, n)
  <2>1. /\ m \in Seq(Blocks) /\ Len(m) = Len(l) + 1 /\ m[Len(m)] = n
        /\ \A i \in 1..Len(l) : m[i] = l[i]
        /\ DOMAIN m = 1..(Len(l) + 1) /\ DOMAIN l = 1..Len(l) /\ Len(l) \in Nat
    OBVIOUS
  <2>2. NodeListAdd(l, n) = m
    BY <1>2 DEF NodeListAdd
  <2> HIDE DEF m
  <2>3. \A i \in 1..Len(l) : l[i] # n
    BY <1>2, <2>1 DEF Range
  <2>4. NoRepetition(m)
    BY <2>1, <2>3 DEF NoRepetition
  <2>5. Range(m) = Range(l) \cup {n}
    BY <2>1 DEF Range
  <2> QED BY <2>1, <2>2, <2>4, <2>5
<1> QED BY <1>1, <1>2

LEMMA DeleteFromList ==
    ASSUME NEW l \in Seq(Blocks), NEW n \in Blocks, NoRepetition(l)
    PROVE  /\ NodeListDelete(l, n) \in Seq(Blocks)
           /\ NoRepetition(NodeListDelete(l, n))
           /\ Range(NodeListDelete(l, n)) = Range(l) \ {n}
<1>1. CASE n \notin Range(l)
  BY <1>1 DEF NodeListDelete
<1>2. CASE n \in Range(l)
  <2> DEFINE at == CHOOSE k \in DOMAIN l : l[k] = n
             m == [k \in 1..(Len(l) - 1) |-> IF k < at THEN l[k] ELSE l[k + 1]]
  <2>1. at \in 1..Len(l) /\ l[at] = n /\ DOMAIN l = 1..Len(l) /\ Len(l) \in Nat
    BY <1>2 DEF Range
  <2>2. NodeListDelete(l, n) = m
    BY <1>2 DEF NodeListDelete
  <2> HIDE DEF at
  <2>3. Len(l) - 1 \in Nat
    BY <2>1
  <2>4. \A k \in 1..(Len(l) - 1) : m[k] = l[IF k < at THEN k ELSE k + 1]
    BY <2>1
  <2>5. m \in Seq(Blocks) /\ DOMAIN m = 1..(Len(l) - 1)
    BY <2>1, <2>3
  <2> HIDE DEF m
  <2>6. NoRepetition(m)
    <3> SUFFICES ASSUME NEW j \in DOMAIN m, NEW k \in DOMAIN m, m[j] = m[k]
                 PROVE  j = k
      BY DEF NoRepetition
    <3> DEFINE j0 == IF j < at THEN j ELSE j + 1
               k0 == IF k < at THEN k ELSE k + 1
    <3>1. j0 \in DOMAIN l /\ k0 \in DOMAIN l /\ l[j0] = l[k0]
      BY <2>1, <2>4, <2>5
    <3>2. j0 = k0
      BY <3>1 DEF NoRepetition
    <3> QED BY <2>1, <2>5, <3>2
  <2>7. Range(m) \subseteq Range(l) \ {n}
    BY <2>1, <2>4, <2>5 DEF NoRepetition, Range
  <2>8. ASSUME NEW x \in Range(l), x # n
        PROVE  x \in Range(m)
    <3>1. PICK k \in 1..Len(l) : l[k] = x
      BY <2>1 DEF Range
    <3>2. CASE k < at
      BY <2>1, <2>4, <2>5, <3>1, <3>2 DEF Range
    <3>3. CASE k > at
      <4>1. k - 1 \in DOMAIN m /\ m[k - 1] = x
        BY <2>1, <2>4, <2>5, <3>1, <3>3
      <4> QED BY <4>1 DEF Range
    <3>4. k # at
      BY <2>1, <2>8, <3>1
    <3> QED BY <2>1, <3>2, <3>3, <3>4
  <2> QED BY <2>2, <2>5, <2>6, <2>7, <2>8
<1> QED BY <1>1, <1>2

-----------------------------------------------------------------------------
(* Graphs *)

LEMMA EdgesOfList ==
    ASSUME NEW h \in Graphs, NEW a \in Blocks, NEW b \in Blocks
    PROVE  <<a, b>> \in Edges(h) <=> b \in Range(h.succs[a])
BY DEF Edges

(* A graph with new lists at the two ends of an edge.                      *)
Relinked(h, a, b, s, t) == [h EXCEPT !.succs[a] = s, !.preds[b] = t]

SameBut(E, F, e) == \A f \in Blocks \X Blocks : f # e => (f \in E <=> f \in F)
From(E, a) == {x \in Blocks : <<a, x>> \in E}
Into(E, b) == {x \in Blocks : <<x, b>> \in E}

(* The lists fit when they hold the ends of the edges of E, and E differs  *)
(* from what the graph has in this edge only.                              *)
Fits(h, a, b, s, t, E) ==
    /\ h \in Graphs /\ Mirror(h) /\ a \in Blocks /\ b \in Blocks
    /\ s \in Seq(Blocks) /\ NoRepetition(s) /\ Range(s) = From(E, a)
    /\ t \in Seq(Blocks) /\ NoRepetition(t) /\ Range(t) = Into(E, b)
    /\ E \subseteq Blocks \X Blocks /\ SameBut(E, Edges(h), <<a, b>>)

LEMMA MirrorStep ==
    ASSUME NEW h, NEW a, NEW b, NEW s, NEW t, NEW E, Fits(h, a, b, s, t, E)
    PROVE  /\ Relinked(h, a, b, s, t) \in Graphs
           /\ Mirror(Relinked(h, a, b, s, t))
           /\ Edges(Relinked(h, a, b, s, t)) = E
<1> DEFINE k == Relinked(h, a, b, s, t)
<1> USE DEF Fits
<1>1. /\ k.succs = [h.succs EXCEPT ![a] = s] /\ k.preds = [h.preds EXCEPT ![b] = t]
      /\ k \in Graphs /\ k.succs \in [Blocks -> Seq(Blocks)] /\ k.preds \in [Blocks -> Seq(Blocks)]
  BY DEF Graphs, Relinked
<1>2. /\ k.succs[a] = s /\ \A x \in Blocks : x # a => k.succs[x] = h.succs[x]
      /\ k.preds[b] = t /\ \A x \in Blocks : x # b => k.preds[x] = h.preds[x]
  BY <1>1 DEF Graphs
<1> HIDE DEF k
<1>3. ASSUME NEW x \in Blocks, NEW y \in Blocks
      PROVE  y \in Range(k.succs[x]) <=> <<x, y>> \in E
  BY <1>2, EdgesOfList DEF SameBut, From
<1>4. Edges(k) = E
  BY <1>1, <1>3, EdgesOfList DEF Edges
<1>5. Mirror(k)
  <2> SUFFICES ASSUME NEW x \in Blocks
               PROVE  /\ NoRepetition(k.succs[x])
                      /\ NoRepetition(k.preds[x])
                      /\ Range(k.preds[x]) = {y \in Blocks : <<y, x>> \in Edges(k)}
    BY DEF Mirror
  <2>1. NoRepetition(k.succs[x]) /\ NoRepetition(k.preds[x])
    BY <1>2 DEF Mirror
  <2>2. CASE x = b
    BY <1>2, <1>4, <2>1, <2>2 DEF Into
  <2>3. CASE x # b
    <3>1. Range(k.preds[x]) = {y \in Blocks : <<y, x>> \in Edges(h)}
      BY <1>2, <2>3 DEF Mirror
    <3>2. \A y \in Blocks : <<y, x>> \in E <=> <<y, x>> \in Edges(h)
      BY <2>3 DEF SameBut
    <3> QED BY <1>4, <2>1, <3>1, <3>2
  <2> QED BY <2>1, <2>2, <2>3
<1> QED BY <1>1, <1>4, <1>5 DEF k

(* raviX_delete_edge() deletes the edge from both lists.                   *)
LEMMA EdgeDeleted ==
    ASSUME NEW h \in Graphs, Mirror(h), NEW a \in Blocks, NEW b \in Blocks
    PROVE  /\ DeleteEdge(h, a, b) \in Graphs /\ Mirror(DeleteEdge(h, a, b))
           /\ Edges(DeleteEdge(h, a, b)) = Edges(h) \ {<<a, b>>}
<1> DEFINE s == NodeListDelete(h.succs[a], b)
           t == NodeListDelete(h.preds[b], a)
           E == Edges(h) \ {<<a, b>>}
<1>1. h.succs[a] \in Seq(Blocks) /\ h.preds[b] \in Seq(Blocks)
  BY DEF Graphs
<1>2. NoRepetition(h.succs[a]) /\ NoRepetition(h.preds[b])
  BY DEF Mirror
<1>3. DeleteEdge(h, a, b) = Relinked(h, a, b, s, t)
  BY DEF DeleteEdge, Relinked
<1>4. s \in Seq(Blocks) /\ NoRepetition(s) /\ Range(s) = Range(h.succs[a]) \ {b}
  BY <1>1, <1>2, DeleteFromList
<1>9. t \in Seq(Blocks) /\ NoRepetition(t) /\ Range(t) = Range(h.preds[b]) \ {a}
  BY <1>1, <1>2, DeleteFromList
<1>5. E \subseteq Blocks \X Blocks /\ SameBut(E, Edges(h), <<a, b>>)
  BY DEF Edges, SameBut
<1>6. Range(h.succs[a]) \subseteq Blocks
  BY <1>1 DEF Range
<1>7. Range(s) = From(E, a)
  BY <1>4, <1>6, EdgesOfList DEF From
<1>8. Range(t) = Into(E, b)
  BY <1>9 DEF Mirror, Into
<1> HIDE DEF s, t, E
<1>10. Fits(h, a, b, s, t, E)
  BY <1>4, <1>5, <1>7, <1>8, <1>9 DEF Fits
<1>11. /\ Relinked(h, a, b, s, t) \in Graphs /\ Mirror(Relinked(h, a, b, s, t))
      /\ Edges(Relinked(h, a, b, s, t)) = E
  BY <1>10, MirrorStep
<1> QED BY <1>3, <1>11 DEF E

-----------------------------------------------------------------------------
(* The inductive invariant of the depth-first walk *)

Activations == [node : Blocks, next : Nat \ {0}]

Shape ==
    /\ g \in Graphs /\ Mirror(g)
    /\ pre \in [Blocks -> Nat] /\ rpost \in [Blocks -> Nat]
    /\ state \in [preorder : Nat, rpostorder : Nat]
    /\ calls \in Seq(Activations)

(* A node that has been reached and is not finished is on the stack, and   *)
(* the stack is in preorder.                                               *)
Open(b) == pre[b] # 0 /\ rpost[b] = 0

Stack ==
    /\ \A j \in DOMAIN calls :
           Open(calls[j].node) /\ calls[j].next <= Len(g.succs[calls[j].node]) + 1
    /\ \A j, k \in DOMAIN calls : j < k => pre[calls[j].node] < pre[calls[k].node]
    /\ \A b \in Blocks : Open(b) => \E j \in DOMAIN calls : calls[j].node = b

(* No number is given twice, and there are enough of them.                 *)
Ended == {b \in Blocks : rpost[b] # 0}

Numbers ==
    /\ pre[ENTRY_BLOCK] = 1
    /\ \A b \in Blocks : pre[b] < state.preorder /\ (rpost[b] # 0 => pre[b] # 0)
    /\ \A b \in Ended : state.rpostorder < rpost[b] /\ rpost[b] <= NBlocks
    /\ state.rpostorder + Cardinality(Ended) = NBlocks
    /\ \A a, b \in Reached : pre[a] = pre[b] => a = b
    /\ \A a, b \in Ended : rpost[a] = rpost[b] => a = b

(* Edges that go with the walk and edges that go back, while their ends    *)
(* are on the stack and when they are finished.                            *)
Tree == TypedEdges({"TREE"})

Down(a, b) ==
    /\ pre[b] # 0
    /\ Open(a) /\ Open(b) => pre[a] < pre[b]
    /\ rpost[a] # 0 => rpost[a] < rpost[b]

Up(a, b) ==
    /\ pre[b] # 0
    /\ Open(a) => Open(b) /\ pre[b] <= pre[a]
    /\ rpost[b] # 0 => rpost[b] <= rpost[a]

TypeFits(a, b, t) ==
    \/ t = "TREE" /\ pre[a] < pre[b] /\ Down(a, b)
    \/ t = "FORWARD" /\ Ancestor(a, b) /\ Down(a, b)
    \/ t = "CROSS" /\ pre[b] < pre[a] /\ Down(a, b)
    \/ t = "BACKWARD" /\ Ancestor(b, a) /\ Up(a, b)

(* Edge k of node a has been looked at.                                    *)
Looked(a, k) ==
    rpost[a] # 0 \/ \E j \in DOMAIN calls : calls[j].node = a /\ k < calls[j].next

Types ==
    /\ DOMAIN edge_type = Blocks
    /\ \A a \in Blocks : DOMAIN edge_type[a] = DOMAIN g.succs[a]
    /\ \A a \in Blocks : \A k \in DOMAIN g.succs[a] :
           IF Looked(a, k) THEN TypeFits(a, g.succs[a][k], edge_type[a][k])
           ELSE edge_type[a][k] = "UNCLASSIFIED"

(* The tree has all the nodes reached, and what is reached while a node is *)
(* on the stack is below it.                                               *)
Spanning ==
    /\ Reached \subseteq Reachable(Tree)
    /\ \A b \in Reached \ {ENTRY_BLOCK} : \E a \in Blocks : <<a, b>> \in Tree
    /\ \A a, b, c \in Blocks : <<a, c>> \in Tree /\ <<b, c>> \in Tree => a = b
    /\ \A a, b \in Reached : Open(a) /\ pre[a] <= pre[b] => Ancestor(a, b)

Walk == Stack /\ Numbers /\ Types /\ Spanning

IInv ==
    /\ Shape
    /\ IF state.preorder = 0 THEN calls = <<>> ELSE Walk

-----------------------------------------------------------------------------
(* Where edges lead *)

Leads(E, m, n) == \A S \in SUBSET Blocks : m \in S /\ Closed(E, S) => n \in S

LEMMA LeadsToItself == \A E, m : Leads(E, m, m)
BY DEF Leads

LEMMA LeadsOn ==
    ASSUME NEW E, NEW m, NEW n, NEW o, Leads(E, m, n), <<n, o>> \in E
    PROVE  Leads(E, m, o)
<1> SUFFICES ASSUME NEW S \in SUBSET Blocks, m \in S, Closed(E, S)
             PROVE  o \in S
  BY DEF Leads
<1>1. n \in S
  BY DEF Leads
<1>2. <<n, o>>[1] \in S => <<n, o>>[2] \in S
  BY DEF Closed
<1> QED BY <1>1, <1>2

LEMMA LeadsWithMore ==
    ASSUME NEW E, NEW F, E \subseteq F, NEW m, NEW n, Leads(E, m, n)
    PROVE  Leads(F, m, n)
BY DEF Leads, Closed

LEMMA AncestorLeads == \A m, n : Ancestor(m, n) <=> Leads(Tree, m, n)
BY DEF Ancestor, Leads, Tree

LEMMA ReachableLeads == \A E : \A b : b \in Reachable(E) <=> b \in Blocks /\ Leads(E, ENTRY_BLOCK, b)
BY DEF Reachable, Leads

-----------------------------------------------------------------------------
(* The top of the stack *)

LEMMA EntryIsBlock == ENTRY_BLOCK \in Blocks
BY NBlocksAssumption DEF ENTRY_BLOCK, Blocks

LEMMA AtTop ==
    ASSUME Shape, Stack, calls # <<>>
    PROVE  /\ Len(calls) \in Nat \ {0} /\ DOMAIN calls = 1..Len(calls)
           /\ Top \in Activations /\ Top.node \in Blocks /\ Top.next \in Nat \ {0}
           /\ Open(Top.node) /\ Top.next <= Len(g.succs[Top.node]) + 1
           /\ \A b \in Blocks : Open(b) => pre[b] <= pre[Top.node]
           /\ \A j \in 1..(Len(calls) - 1) : calls[j].node # Top.node
<1>1. calls \in Seq(Activations) /\ Len(calls) \in Nat \ {0} /\ DOMAIN calls = 1..Len(calls)
  BY DEF Shape
<1>2. Len(calls) \in DOMAIN calls /\ calls[Len(calls)] = Top /\ Top \in Activations
  BY <1>1 DEF Top
<1>3. Top.node \in Blocks /\ Top.next \in Nat \ {0}
  BY <1>2 DEF Activations
<1>4. Open(Top.node) /\ Top.next <= Len(g.succs[Top.node]) + 1
  BY <1>2 DEF Stack
<1>5. \A j \in 1..(Len(calls) - 1) : pre[calls[j].node] < pre[Top.node] /\ calls[j].node \in Blocks
  <2> SUFFICES ASSUME NEW j \in 1..(Len(calls) - 1)
               PROVE  pre[calls[j].node] < pre[Top.node] /\ calls[j].node \in Blocks
    OBVIOUS
  <2>1. j \in DOMAIN calls /\ j < Len(calls) /\ calls[j] \in Activations
    BY <1>1
  <2> QED BY <1>2, <2>1 DEF Stack, Activations
<1>6. pre[Top.node] \in Nat /\ \A b \in Blocks : pre[b] \in Nat
  BY <1>3 DEF Shape
<1>7. ASSUME NEW b \in Blocks, Open(b)
      PROVE  pre[b] <= pre[Top.node]
  <2>1. PICK j \in DOMAIN calls : calls[j].node = b
    BY <1>7 DEF Stack
  <2>2. j = Len(calls) \/ j \in 1..(Len(calls) - 1)
    BY <1>1
  <2>3. CASE j = Len(calls)
    BY <1>2, <1>6, <2>1, <2>3
  <2>4. CASE j \in 1..(Len(calls) - 1)
    BY <1>5, <1>6, <2>1, <2>4
  <2> QED BY <2>2, <2>3, <2>4
<1>8. \A j \in 1..(Len(calls) - 1) : calls[j].node # Top.node
  BY <1>5, <1>6
<1> QED BY <1>1, <1>2, <1>3, <1>4, <1>7, <1>8

(* The loop over the edges of the top goes one edge on.                    *)
LEMMA AdvancedCalls ==
    ASSUME Shape, Stack, AtEdge
    PROVE  /\ Advanced \in Seq(Activations) /\ Len(Advanced) = Len(calls)
           /\ DOMAIN Advanced = DOMAIN calls
           /\ \A j \in DOMAIN calls : Advanced[j].node = calls[j].node
           /\ \A j \in 1..(Len(calls) - 1) : Advanced[j].next = calls[j].next
           /\ Advanced[Len(calls)].next = Top.next + 1
<1> DEFINE D == Len(calls)
<1>1. /\ D \in Nat \ {0} /\ DOMAIN calls = 1..D /\ Top \in Activations /\ Top = calls[D]
      /\ calls \in Seq(Activations)
  BY AtTop DEF AtEdge, Shape, Top
<1> DEFINE x == [Top EXCEPT !.next = @ + 1]
<1>2. x \in Activations /\ x.node = Top.node /\ x.next = Top.next + 1
  BY <1>1 DEF Activations
<1>3. Advanced = [calls EXCEPT ![D] = x]
  BY <1>1 DEF Advanced
<1> HIDE DEF x
<1>4. /\ Advanced \in Seq(Activations) /\ Len(Advanced) = D /\ DOMAIN Advanced = 1..D
      /\ Advanced[D] = x /\ \A j \in 1..(D - 1) : Advanced[j] = calls[j]
  BY <1>1, <1>2, <1>3
<1> QED BY <1>1, <1>2, <1>4

LEMMA AtSuccessor ==
    ASSUME Shape, Stack, AtEdge
    PROVE  /\ Top.next \in DOMAIN g.succs[Top.node]
           /\ DOMAIN g.succs[Top.node] = 1..Len(g.succs[Top.node])
           /\ Successor \in Blocks /\ Successor = g.succs[Top.node][Top.next]
           /\ <<Top.node, Successor>> \in Edges(g)
           /\ ~Looked(Top.node, Top.next)
<1>1. /\ Top.node \in Blocks /\ Top.next \in Nat \ {0} /\ Open(Top.node)
      /\ DOMAIN calls = 1..Len(calls) /\ Len(calls) \in Nat \ {0}
      /\ \A j \in 1..(Len(calls) - 1) : calls[j].node # Top.node
  BY AtTop DEF AtEdge
<1>2. g.succs[Top.node] \in Seq(Blocks) /\ g \in Graphs
  BY <1>1 DEF Shape, Graphs
<1>3. /\ Top.next \in DOMAIN g.succs[Top.node]
      /\ DOMAIN g.succs[Top.node] = 1..Len(g.succs[Top.node])
  BY <1>1, <1>2 DEF AtEdge
<1>4. Successor \in Blocks /\ Successor \in Range(g.succs[Top.node])
  BY <1>2, <1>3 DEF Successor, Range
<1>5. <<Top.node, Successor>> \in Edges(g)
  BY <1>1, <1>2, <1>4, EdgesOfList
<1>6. ~Looked(Top.node, Top.next)
  <2> SUFFICES ASSUME NEW j \in DOMAIN calls, calls[j].node = Top.node, Top.next < calls[j].next
               PROVE  FALSE
    BY <1>1 DEF Looked, Open
  <2>1. j = Len(calls)
    BY <1>1
  <2> QED BY <1>1, <2>1 DEF Top
<1> QED BY <1>3, <1>4, <1>5, <1>6 DEF Successor

(* A tree edge has been looked at.                                         *)
LEMMA TreeEdge ==
    ASSUME Shape, Types, Stack, Numbers, NEW a \in Blocks, NEW b \in Blocks, <<a, b>> \in Tree
    PROVE  pre[a] # 0 /\ pre[a] < pre[b] /\ Down(a, b)
<1>1. PICK k \in DOMAIN g.succs[a] : g.succs[a][k] = b /\ edge_type[a][k] = "TREE"
  BY DEF Tree, TypedEdges
<1>2. Looked(a, k)
  BY <1>1 DEF Types
<1>3. pre[a] # 0
  BY <1>2 DEF Looked, Stack, Open, Numbers
<1>4. TypeFits(a, b, "TREE")
  BY <1>1, <1>2 DEF Types
<1> QED BY <1>3, <1>4 DEF TypeFits

(* What giving the edge at hand its type changes.                          *)
LEMMA Marked ==
    ASSUME Shape, Stack, Types, AtEdge, Mark, g' = g
    PROVE  /\ DOMAIN edge_type' = Blocks
           /\ \A a \in Blocks : DOMAIN edge_type'[a] = DOMAIN g.succs[a]
           /\ edge_type'[Top.node][Top.next] = TypeOfEdge(Top.node, Successor)
           /\ \A a \in Blocks : \A k \in DOMAIN g.succs[a] :
                  a # Top.node \/ k # Top.next => edge_type'[a][k] = edge_type[a][k]
           /\ Tree' = IF TypeOfEdge(Top.node, Successor) = "TREE"
                      THEN Tree \cup {<<Top.node, Successor>>} ELSE Tree
<1> DEFINE n == Top.node
           j == Top.next
           s == Successor
           t == TypeOfEdge(Top.node, Successor)
<1>1. /\ n \in Blocks /\ j \in DOMAIN g.succs[n] /\ s = g.succs[n][j] /\ s \in Blocks
      /\ <<n, s>> \in Edges(g) /\ ~Looked(n, j)
  BY AtTop, AtSuccessor DEF AtEdge
<1>2. edge_type' = [edge_type EXCEPT ![n][j] = t]
  BY DEF Mark
<1>3. edge_type[n][j] = "UNCLASSIFIED"
  BY <1>1 DEF Types
<1> HIDE DEF n, j, s, t
<1>4. DOMAIN edge_type = Blocks /\ \A a \in Blocks : DOMAIN edge_type[a] = DOMAIN g.succs[a]
  BY DEF Types
<1>5. /\ DOMAIN edge_type' = Blocks
      /\ edge_type'[n] = [edge_type[n] EXCEPT ![j] = t]
      /\ \A a \in Blocks : a # n => edge_type'[a] = edge_type[a]
  BY <1>1, <1>2, <1>4
<1>6. /\ \A a \in Blocks : DOMAIN edge_type'[a] = DOMAIN g.succs[a]
      /\ edge_type'[n][j] = t
      /\ \A a \in Blocks : \A k \in DOMAIN g.succs[a] :
             a # n \/ k # j => edge_type'[a][k] = edge_type[a][k]
  BY <1>1, <1>4, <1>5
<1>7. ASSUME NEW a \in Blocks, NEW b \in Blocks
      PROVE  <<a, b>> \in Tree' <=> <<a, b>> \in Tree \/ (t = "TREE" /\ a = n /\ b = s)
  <2>1. <<a, b>> \in Tree <=> <<a, b>> \in Edges(g)
            /\ \E k \in DOMAIN g.succs[a] : g.succs[a][k] = b /\ edge_type[a][k] = "TREE"
    BY DEF Tree, TypedEdges
  <2>2. <<a, b>> \in Tree' <=> <<a, b>> \in Edges(g)
            /\ \E k \in DOMAIN g.succs[a] : g.succs[a][k] = b /\ edge_type'[a][k] = "TREE"
    BY DEF Tree, TypedEdges, Edges
  <2>3. CASE a # n
    BY <1>6, <2>1, <2>2, <2>3
  <2>4. CASE a = n
    BY <1>1, <1>3, <1>6, <2>1, <2>2, <2>4
  <2> QED BY <2>3, <2>4
<1>8. Tree \subseteq Blocks \X Blocks /\ Tree' \subseteq Blocks \X Blocks
  BY DEF Tree, TypedEdges, Edges
<1>9. Tree' = IF t = "TREE" THEN Tree \cup {<<n, s>>} ELSE Tree
  BY <1>1, <1>7, <1>8
<1> QED BY <1>5, <1>6, <1>9 DEF n, j, s, t

-----------------------------------------------------------------------------
(* The steps of the walk *)

LEMMA PassEdgeWalk ==
    ASSUME Shape, Walk, PassEdge
    PROVE  Shape' /\ Walk'
<1> DEFINE n == Top.node
           j == Top.next
           s == Successor
           t == TypeOfEdge(Top.node, Successor)
<1> USE DEF Walk
<1>1. AtEdge /\ Mark /\ calls' = Advanced /\ pre[s] # 0 /\ UNCHANGED <<g, pre, rpost, state>>
  BY DEF PassEdge
<1>2. /\ DOMAIN calls = 1..Len(calls) /\ Len(calls) \in Nat \ {0}
      /\ n \in Blocks /\ j \in Nat \ {0} /\ Open(n) /\ j <= Len(g.succs[n])
      /\ \A b \in Blocks : Open(b) => pre[b] <= pre[n]
      /\ \A i \in 1..(Len(calls) - 1) : calls[i].node # n
  BY <1>1, AtTop DEF AtEdge
<1>3. /\ Advanced \in Seq(Activations) /\ Len(Advanced) = Len(calls)
      /\ DOMAIN Advanced = DOMAIN calls
      /\ \A i \in DOMAIN calls : Advanced[i].node = calls[i].node
      /\ \A i \in 1..(Len(calls) - 1) : Advanced[i].next = calls[i].next
      /\ Advanced[Len(calls)].next = j + 1
  BY <1>1, AdvancedCalls
<1>4. j \in DOMAIN g.succs[n] /\ s \in Blocks /\ s = g.succs[n][j] /\ ~Looked(n, j)
  BY <1>1, AtSuccessor
<1>5. t # "TREE"
  BY <1>1 DEF TypeOfEdge
<1>6. /\ DOMAIN edge_type' = Blocks
      /\ \A a \in Blocks : DOMAIN edge_type'[a] = DOMAIN g.succs[a]
      /\ edge_type'[n][j] = t
      /\ \A a \in Blocks : \A k \in DOMAIN g.succs[a] :
             a # n \/ k # j => edge_type'[a][k] = edge_type[a][k]
      /\ Tree' = Tree
  BY <1>1, <1>5, Marked
<1>7. calls[Len(calls)].node = n /\ calls[Len(calls)].next = j
  BY DEF Top
<1> HIDE DEF n, j, s, t
<1>8. Shape'
  BY <1>1, <1>3 DEF Shape, Mirror, Edges, NoRepetition
<1>9. \A b \in Blocks : Open(b)' = Open(b)
  BY <1>1 DEF Open
<1>10. Stack'
  <2>1. ASSUME NEW i \in DOMAIN calls'
        PROVE  Open(calls'[i].node) /\ calls'[i].next <= Len(g.succs[calls'[i].node]) + 1
    <3>1. i \in DOMAIN calls /\ (i = Len(calls) \/ i \in 1..(Len(calls) - 1))
      BY <1>1, <1>2, <1>3
    <3>2. CASE i = Len(calls)
      <4>1. g.succs[n] \in Seq(Blocks)
        BY <1>2 DEF Shape, Graphs
      <4>2. Len(g.succs[n]) \in Nat
        BY <4>1
      <4> QED BY <1>1, <1>2, <1>3, <1>7, <3>1, <3>2, <4>2
    <3>3. CASE i \in 1..(Len(calls) - 1)
      BY <1>1, <1>3, <3>1, <3>3 DEF Stack
    <3> QED BY <3>1, <3>2, <3>3
  <2>2. \A i, k \in DOMAIN calls' : i < k => pre[calls'[i].node] < pre[calls'[k].node]
    BY <1>1, <1>3 DEF Stack
  <2>3. \A b \in Blocks : Open(b) => \E i \in DOMAIN calls' : calls'[i].node = b
    BY <1>1, <1>3 DEF Stack
  <2> QED BY <1>1, <2>1, <2>2, <2>3 DEF Stack, Open
<1>11. Numbers'
  BY <1>1 DEF Numbers, Ended, Reached
<1>12. \A a \in Blocks : \A k \in DOMAIN g.succs[a] :
           Looked(a, k)' <=> Looked(a, k) \/ (a = n /\ k = j)
  <2> SUFFICES ASSUME NEW a \in Blocks, NEW k \in DOMAIN g.succs[a]
               PROVE  Looked(a, k)' <=> Looked(a, k) \/ (a = n /\ k = j)
    OBVIOUS
  <2>1. rpost[n] = 0
    BY <1>2 DEF Open
  <2>2. k \in Nat
    <3>1. g.succs[a] \in Seq(Blocks)
      BY DEF Shape, Graphs
    <3> QED BY <3>1
  <2>3. CASE a = n
    <3>1. \A i \in DOMAIN calls : calls[i].node = n <=> i = Len(calls)
      BY <1>2, <1>7
    <3>2. (\E i \in DOMAIN calls' : calls'[i].node = n /\ k < calls'[i].next) <=> k < j + 1
      BY <1>1, <1>2, <1>3, <3>1
    <3>3. (\E i \in DOMAIN calls : calls[i].node = n /\ k < calls[i].next) <=> k < j
      BY <1>2, <1>7, <3>1
    <3> QED BY <1>1, <1>2, <2>1, <2>2, <2>3, <3>2, <3>3 DEF Looked
  <2>4. CASE a # n
    <3>1. \A i \in DOMAIN calls : calls[i].node = a => i \in 1..(Len(calls) - 1)
      BY <1>2, <1>7, <2>4
    <3> QED BY <1>1, <1>3, <2>4, <3>1 DEF Looked
  <2> QED BY <2>3, <2>4
<1>13. \A a, b \in Blocks : /\ Ancestor(a, b)' = Ancestor(a, b)
                            /\ Down(a, b)' = Down(a, b) /\ Up(a, b)' = Up(a, b)
  <2>1. \A a, b \in Blocks : Ancestor(a, b)' = Ancestor(a, b)
    BY <1>6 DEF Ancestor, Tree
  <2>2. \A a, b \in Blocks : Down(a, b)' = Down(a, b) /\ Up(a, b)' = Up(a, b)
    BY <1>1 DEF Down, Up, Open
  <2> QED BY <2>1, <2>2
<1>14. TypeFits(n, s, t)
  <2>1. pre[s] \in Nat /\ pre[n] \in Nat /\ pre[n] # 0 /\ rpost[n] = 0 /\ s \in Reached /\ n \in Reached
    BY <1>1, <1>2, <1>4 DEF Shape, Open, Reached
  <2>2. CASE rpost[s] = 0
    <3>1. t = "BACKWARD" /\ Open(s) /\ pre[s] <= pre[n]
      BY <1>1, <1>2, <1>4, <2>2 DEF t, n, s, TypeOfEdge, Open
    <3>2. Ancestor(s, n)
      BY <2>1, <3>1 DEF Spanning
    <3> QED BY <1>1, <2>2, <3>1, <3>2 DEF TypeFits, Up
  <2>3. CASE rpost[s] # 0 /\ pre[n] < pre[s]
    <3>1. t = "FORWARD"
      BY <1>1, <2>3 DEF t, n, s, TypeOfEdge
    <3>2. Ancestor(n, s)
      BY <1>2, <2>1, <2>3 DEF Spanning
    <3> QED BY <1>1, <2>1, <2>3, <3>1, <3>2 DEF TypeFits, Down, Open
  <2>4. CASE rpost[s] # 0 /\ ~(pre[n] < pre[s])
    <3>1. t = "CROSS"
      BY <1>1, <2>4 DEF t, n, s, TypeOfEdge
    <3>2. pre[s] < pre[n]
      BY <2>1, <2>4 DEF Numbers
    <3> QED BY <1>1, <2>1, <2>4, <3>1, <3>2 DEF TypeFits, Down, Open
  <2> QED BY <2>2, <2>3, <2>4
<1>15. Types'
  <2>1. ASSUME NEW a \in Blocks, NEW k \in DOMAIN g.succs[a]
        PROVE  IF Looked(a, k)' THEN TypeFits(a, g.succs[a][k], edge_type'[a][k])
               ELSE edge_type'[a][k] = "UNCLASSIFIED"
    <3>1. CASE a = n /\ k = j
      BY <1>4, <1>6, <1>12, <1>14, <3>1
    <3>2. CASE ~(a = n /\ k = j)
      <4>1. edge_type'[a][k] = edge_type[a][k] /\ (Looked(a, k)' <=> Looked(a, k))
        BY <1>6, <1>12, <3>2
      <4> QED BY <4>1 DEF Types
    <3> QED BY <3>1, <3>2
  <2>2. \A a, b \in Blocks : \A u : TypeFits(a, b, u)' <=> TypeFits(a, b, u)
    BY <1>1, <1>13 DEF TypeFits
  <2>3. \A a \in Blocks : \A k \in DOMAIN g.succs[a] : g.succs[a][k] \in Blocks
    BY DEF Shape, Graphs
  <2>4. ASSUME NEW a \in Blocks, NEW k \in DOMAIN g.succs[a]
        PROVE  IF Looked(a, k)' THEN TypeFits(a, g.succs[a][k], edge_type[a][k])'
               ELSE edge_type'[a][k] = "UNCLASSIFIED"
    BY <1>1, <2>1, <2>2, <2>3
  <2> QED BY <1>1, <1>6, <2>4 DEF Types
<1>16. Spanning'
  <2>1. Reached' = Reached /\ Reachable(Tree)' = Reachable(Tree)
    BY <1>1, <1>6 DEF Reached, Reachable
  <2> QED BY <1>1, <1>6, <1>9, <1>13, <2>1 DEF Spanning, Reached
<1> QED BY <1>8, <1>10, <1>11, <1>15, <1>16

LEMMA DescendWalk ==
    ASSUME Shape, Walk, Descend
    PROVE  Shape' /\ Walk'
<1> DEFINE n == Top.node
           j == Top.next
           s == Successor
           D == Len(calls)
<1> USE DEF Walk
<1>1. /\ AtEdge /\ Mark /\ pre[s] = 0 /\ calls' = Append(Advanced, Activation(s))
      /\ pre' = [pre EXCEPT ![s] = state.preorder]
      /\ state' = [state EXCEPT !.preorder = @ + 1] /\ UNCHANGED <<g, rpost>>
  BY DEF Descend
<1>2. /\ DOMAIN calls = 1..D /\ D \in Nat \ {0}
      /\ n \in Blocks /\ j \in Nat \ {0} /\ Open(n) /\ j <= Len(g.succs[n])
      /\ \A b \in Blocks : Open(b) => pre[b] <= pre[n]
      /\ \A i \in 1..(D - 1) : calls[i].node # n
  BY <1>1, AtTop DEF AtEdge
<1>3. /\ Advanced \in Seq(Activations) /\ Len(Advanced) = D
      /\ DOMAIN Advanced = DOMAIN calls
      /\ \A i \in DOMAIN calls : Advanced[i].node = calls[i].node
      /\ \A i \in 1..(D - 1) : Advanced[i].next = calls[i].next
      /\ Advanced[D].next = j + 1
  BY <1>1, AdvancedCalls
<1>4. j \in DOMAIN g.succs[n] /\ s \in Blocks /\ s = g.succs[n][j] /\ ~Looked(n, j)
  BY <1>1, AtSuccessor
<1>5. TypeOfEdge(n, s) = "TREE"
  BY <1>1 DEF TypeOfEdge
<1>6. /\ DOMAIN edge_type' = Blocks
      /\ \A a \in Blocks : DOMAIN edge_type'[a] = DOMAIN g.succs[a]
      /\ edge_type'[n][j] = "TREE"
      /\ \A a \in Blocks : \A k \in DOMAIN g.succs[a] :
             a # n \/ k # j => edge_type'[a][k] = edge_type[a][k]
      /\ Tree' = Tree \cup {<<n, s>>}
  BY <1>1, <1>5, Marked
<1>7. calls[D].node = n /\ calls[D].next = j
  BY DEF Top
<1> HIDE DEF n, j, s, D
<1>8. /\ Activation(s) \in Activations /\ Activation(s).node = s /\ Activation(s).next = 1
  BY <1>4 DEF Activation, Activations
<1>9. /\ calls' \in Seq(Activations) /\ Len(calls') = D + 1 /\ DOMAIN calls' = 1..(D + 1)
      /\ calls'[D + 1].node = s /\ calls'[D + 1].next = 1
      /\ \A i \in 1..D : calls'[i] = Advanced[i]
  BY <1>1, <1>2, <1>3, <1>8
<1>10. /\ state.preorder \in Nat /\ state.rpostorder \in Nat
       /\ state'.preorder = state.preorder + 1 /\ state'.rpostorder = state.rpostorder
       /\ state' \in [preorder : Nat, rpostorder : Nat]
  BY <1>1 DEF Shape
<1>11. /\ pre' \in [Blocks -> Nat] /\ pre'[s] = state.preorder
       /\ \A b \in Blocks : b # s => pre'[b] = pre[b]
       /\ pre \in [Blocks -> Nat] /\ rpost \in [Blocks -> Nat]
  BY <1>1, <1>4, <1>10 DEF Shape
<1>12. /\ \A b \in Blocks : pre[b] < state.preorder /\ (rpost[b] # 0 => pre[b] # 0)
       /\ rpost[s] = 0 /\ state.preorder # 0 /\ n # s /\ pre[n] # 0 /\ rpost[n] = 0
  BY <1>1, <1>2, <1>4, <1>10, <1>11 DEF Numbers, Open
<1>13. Shape'
  BY <1>1, <1>9, <1>10, <1>11 DEF Shape, Mirror, Edges, NoRepetition
<1>14. \A b \in Blocks : Open(b)' <=> Open(b) \/ b = s
  BY <1>1, <1>11, <1>12 DEF Open
<1>15. \A i \in 1..D : calls'[i].node = calls[i].node /\ calls'[i].node \in Blocks
                       /\ calls'[i].node # s /\ Open(calls[i].node)
  <2> SUFFICES ASSUME NEW i \in 1..D
               PROVE  calls'[i].node = calls[i].node /\ calls'[i].node \in Blocks
                      /\ calls'[i].node # s /\ Open(calls[i].node)
    OBVIOUS
  <2>1. calls[i] \in Activations /\ Open(calls[i].node)
    <3>1. i \in DOMAIN calls /\ calls \in Seq(Activations)
      BY <1>2 DEF Shape
    <3> QED BY <3>1 DEF Stack
  <2> QED BY <1>1, <1>2, <1>3, <1>9, <2>1 DEF Activations, Open
<1>16. Stack'
  <2>1. ASSUME NEW i \in DOMAIN calls'
        PROVE  Open(calls[i].node)' /\ calls'[i].next <= Len(g.succs[calls'[i].node]) + 1
    <3>1. i = D + 1 \/ i = D \/ i \in 1..(D - 1)
      BY <1>2, <1>9
    <3>2. CASE i = D + 1
      <4>1. g.succs[s] \in Seq(Blocks)
        BY <1>4 DEF Shape, Graphs
      <4>2. Len(g.succs[s]) \in Nat
        BY <4>1
      <4> QED BY <1>4, <1>9, <1>14, <3>2, <4>2
    <3>3. CASE i = D
      <4>1. g.succs[n] \in Seq(Blocks)
        BY <1>2 DEF Shape, Graphs
      <4>2. Len(g.succs[n]) \in Nat /\ i \in 1..D
        BY <1>2, <3>3, <4>1
      <4> QED BY <1>2, <1>3, <1>7, <1>9, <1>14, <1>15, <3>3, <4>2
    <3>4. CASE i \in 1..(D - 1)
      <4>1. i \in 1..D /\ calls'[i].next = calls[i].next
        BY <1>2, <1>3, <1>9, <3>4
      <4> QED BY <1>2, <1>14, <1>15, <4>1 DEF Stack
    <3> QED BY <3>1, <3>2, <3>3, <3>4
  <2>2. ASSUME NEW i \in DOMAIN calls', NEW k \in DOMAIN calls', i < k
        PROVE  pre'[calls'[i].node] < pre'[calls'[k].node]
    <3>1. i \in 1..D
      BY <1>2, <1>9, <2>2
    <3>2. CASE k = D + 1
      BY <1>9, <1>11, <1>12, <1>15, <3>1, <3>2
    <3>3. CASE k # D + 1
      <4>1. k \in 1..D
        BY <1>2, <1>9, <3>3
      <4>2. i \in DOMAIN calls /\ k \in DOMAIN calls
        BY <1>2, <3>1, <4>1
      <4>3. pre[calls[i].node] < pre[calls[k].node]
        BY <1>2, <2>2, <4>2 DEF Stack
      <4>4. /\ pre'[calls'[i].node] = pre[calls[i].node]
            /\ pre'[calls'[k].node] = pre[calls[k].node]
        BY <1>11, <1>15, <3>1, <4>1
      <4> QED BY <4>3, <4>4
    <3> QED BY <3>2, <3>3
  <2>3. ASSUME NEW b \in Blocks, Open(b)'
        PROVE  \E i \in DOMAIN calls' : calls'[i].node = b
    <3>1. CASE b = s
      BY <1>2, <1>9, <3>1
    <3>2. CASE b # s
      <4>1. PICK i \in DOMAIN calls : calls[i].node = b
        BY <1>14, <2>3, <3>2 DEF Stack
      <4>2. i \in 1..D /\ i \in DOMAIN calls'
        BY <1>2, <1>9
      <4> QED BY <1>15, <4>1, <4>2
    <3> QED BY <3>1, <3>2
  <2> QED BY <1>1, <2>1, <2>2, <2>3 DEF Stack
<1>17. Numbers'
  <2>1. pre'[ENTRY_BLOCK] = 1
    BY <1>1, <1>11, EntryIsBlock DEF Numbers
  <2>2. \A b \in Blocks : pre'[b] < state'.preorder /\ (rpost'[b] # 0 => pre'[b] # 0)
    BY <1>1, <1>10, <1>11, <1>12
  <2>3. Ended' = Ended
    BY <1>1 DEF Ended
  <2>4. \A a, b \in Reached' : pre'[a] = pre'[b] => a = b
    BY <1>10, <1>11, <1>12 DEF Numbers, Reached
  <2> QED BY <1>1, <1>10, <2>1, <2>2, <2>3, <2>4 DEF Numbers
<1>18. \A a \in Blocks : \A k \in DOMAIN g.succs[a] :
           Looked(a, k)' <=> Looked(a, k) \/ (a = n /\ k = j)
  <2> SUFFICES ASSUME NEW a \in Blocks, NEW k \in DOMAIN g.succs[a]
               PROVE  Looked(a, k)' <=> Looked(a, k) \/ (a = n /\ k = j)
    OBVIOUS
  <2>1. k \in Nat \ {0}
    <3>1. g.succs[a] \in Seq(Blocks)
      BY DEF Shape, Graphs
    <3> QED BY <3>1
  <2>2. (\E i \in DOMAIN calls' : calls'[i].node = a /\ k < calls'[i].next)
          <=> \E i \in 1..D : calls[i].node = a /\ k < Advanced[i].next
    <3>1. ~(k < calls'[D + 1].next)
      BY <1>9, <2>1
    <3>2. \A i \in DOMAIN calls' : i = D + 1 \/ i \in 1..D
      BY <1>2, <1>9
    <3>3. \A i \in 1..D : i \in DOMAIN calls'
      BY <1>2, <1>9
    <3> QED BY <1>9, <1>15, <3>1, <3>2, <3>3
  <2>3. CASE a = n
    <3>1. \A i \in 1..D : calls[i].node = n <=> i = D
      BY <1>2, <1>7
    <3>2. (\E i \in 1..D : calls[i].node = n /\ k < Advanced[i].next) <=> k < j + 1
      BY <1>2, <1>3, <3>1
    <3>3. (\E i \in DOMAIN calls : calls[i].node = n /\ k < calls[i].next) <=> k < j
      BY <1>2, <1>7, <3>1
    <3> QED BY <1>1, <1>2, <1>12, <2>1, <2>2, <2>3, <3>2, <3>3 DEF Looked
  <2>4. CASE a # n
    <3>1. \A i \in 1..D : calls[i].node = a => i \in 1..(D - 1)
      BY <1>2, <1>7, <2>4
    <3>2. \A i \in 1..D : calls[i].node = a => Advanced[i].next = calls[i].next
      BY <1>3, <3>1
    <3> QED BY <1>1, <1>2, <2>2, <2>4, <3>2 DEF Looked
  <2> QED BY <2>3, <2>4
<1>19. ASSUME NEW a \in Blocks, NEW b \in Blocks, Ancestor(a, b)
       PROVE  Ancestor(a, b)'
  <2>1. Leads(Tree, a, b)
    BY <1>19, AncestorLeads
  <2>2. Leads(Tree', a, b)
    BY <1>6, <2>1, LeadsWithMore
  <2> QED BY <2>2 DEF Ancestor, Leads, Tree
<1>20. Types'
  <2>1. ASSUME NEW a \in Blocks, NEW b \in Blocks, NEW u, TypeFits(a, b, u), pre[a] # 0
        PROVE  TypeFits(a, b, u)'
    <3>1. pre[b] # 0
      BY <2>1 DEF TypeFits, Down, Up
    <3>2. a # s /\ b # s
      BY <1>1, <2>1, <3>1
    <3>3. pre'[a] = pre[a] /\ pre'[b] = pre[b] /\ (Open(a)' <=> Open(a)) /\ (Open(b)' <=> Open(b))
      BY <1>11, <1>14, <3>2
    <3>4. Down(a, b)' = Down(a, b) /\ Up(a, b)' = Up(a, b)
      BY <1>1, <3>3 DEF Down, Up
    <3> QED BY <1>19, <2>1, <3>3, <3>4 DEF TypeFits
  <2>2. ASSUME NEW a \in Blocks, NEW b \in Blocks, a = n, b = s
        PROVE  TypeFits(a, b, "TREE")'
    <3>1. pre'[a] < pre'[b] /\ pre'[b] # 0 /\ rpost'[a] = 0
      BY <1>1, <1>11, <1>12, <2>2
    <3> QED BY <3>1 DEF TypeFits, Down
  <2>3. \A a \in Blocks : \A k \in DOMAIN g.succs[a] : g.succs[a][k] \in Blocks
    BY DEF Shape, Graphs
  <2>4. ASSUME NEW a \in Blocks, NEW k \in DOMAIN g.succs[a]
        PROVE  IF Looked(a, k)' THEN TypeFits(a, g.succs[a][k], edge_type[a][k])'
               ELSE edge_type'[a][k] = "UNCLASSIFIED"
    <3>1. CASE a = n /\ k = j
      BY <1>1, <1>4, <1>6, <1>18, <2>2, <3>1
    <3>2. CASE ~(a = n /\ k = j)
      <4>1. edge_type'[a][k] = edge_type[a][k] /\ (Looked(a, k)' <=> Looked(a, k))
        BY <1>6, <1>18, <3>2
      <4>2. Looked(a, k) => pre[a] # 0
        BY DEF Looked, Numbers, Stack, Open
      <4> QED BY <1>1, <2>1, <2>3, <4>1, <4>2 DEF Types
    <3> QED BY <3>1, <3>2
  <2> QED BY <1>1, <1>6, <2>4 DEF Types
<1>21. Spanning'
  <2>1. Reached' = Reached \cup {s} /\ n \in Reached
    BY <1>2, <1>4, <1>10, <1>11, <1>12 DEF Reached
  <2>2. \A b : b \in Reachable(Tree)' <=> b \in Blocks /\ Leads(Tree', ENTRY_BLOCK, b)
    BY DEF Reachable, Leads
  <2>3. Reached' \subseteq Reachable(Tree)'
    <3>1. ASSUME NEW b \in Reached
          PROVE  Leads(Tree', ENTRY_BLOCK, b)
      <4>1. Leads(Tree, ENTRY_BLOCK, b)
        BY ReachableLeads DEF Spanning
      <4> QED BY <1>6, <4>1, LeadsWithMore
    <3>2. Leads(Tree', ENTRY_BLOCK, s)
      <4>1. <<n, s>> \in Tree'
        BY <1>6
      <4> QED BY <2>1, <3>1, <4>1, LeadsOn
    <3> QED BY <1>4, <2>1, <2>2, <3>1, <3>2 DEF Reached
  <2>4. \A b \in Reached' \ {ENTRY_BLOCK} : \E a \in Blocks : <<a, b>> \in Tree'
    BY <1>2, <1>6, <2>1 DEF Spanning
  <2>5. ASSUME NEW a \in Blocks, NEW b \in Blocks, NEW c \in Blocks,
               <<a, c>> \in Tree', <<b, c>> \in Tree'
        PROVE  a = b
    <3>1. \A x \in Blocks : <<x, s>> \notin Tree
      <4> SUFFICES ASSUME NEW x \in Blocks, <<x, s>> \in Tree
                   PROVE  FALSE
        OBVIOUS
      <4> QED BY <1>1, <1>4, TreeEdge DEF Down
    <3>2. CASE c = s
      BY <1>6, <2>5, <3>1, <3>2
    <3>3. CASE c # s
      BY <1>6, <2>5, <3>3 DEF Spanning
    <3> QED BY <3>2, <3>3
  <2>6. ASSUME NEW a \in Reached', NEW b \in Reached', Open(a)', pre'[a] <= pre'[b]
        PROVE  Ancestor(a, b)'
    <3>0. a \in Blocks /\ b \in Blocks
      BY DEF Reached
    <3>1. Ancestor(a, b)' <=> Leads(Tree', a, b)
      BY DEF Ancestor, Leads, Tree
    <3>2. CASE a = b
      BY <3>1, <3>2, LeadsToItself
    <3>3. CASE a # b /\ b = s
      <4>1. Open(a) /\ pre[a] <= pre[n] /\ a \in Reached
        BY <1>2, <1>14, <2>1, <2>6, <3>0, <3>3
      <4>2. Ancestor(a, n)
        BY <2>1, <4>1 DEF Spanning
      <4>3. Leads(Tree, a, n)
        BY <4>2, AncestorLeads
      <4>4. Leads(Tree', a, n)
        BY <1>6, <4>3, LeadsWithMore
      <4>5. <<n, s>> \in Tree'
        BY <1>6
      <4> QED BY <3>1, <3>3, <4>4, <4>5, LeadsOn
    <3>4. CASE a # b /\ b # s
      <4>1. a # s
        BY <1>10, <1>11, <1>12, <2>6, <3>0, <3>4
      <4>2. Open(a) /\ pre[a] <= pre[b] /\ a \in Reached /\ b \in Reached
        BY <1>11, <1>14, <2>1, <2>6, <3>0, <3>4, <4>1
      <4>3. Ancestor(a, b)
        BY <4>2 DEF Spanning
      <4> QED BY <1>19, <3>0, <4>3
    <3> QED BY <3>2, <3>3, <3>4
  <2> QED BY <2>3, <2>4, <2>5, <2>6 DEF Spanning
<1> QED BY <1>13, <1>16, <1>17, <1>20, <1>21

LEMMA BlocksFinite == IsFiniteSet(Blocks) /\ Cardinality(Blocks) = NBlocks
BY FS_Interval, NBlocksAssumption DEF Blocks

LEMMA FinishWalk ==
    ASSUME Shape, Walk, Finish
    PROVE  Shape' /\ Walk'
<1> DEFINE n == Top.node
           r == state.rpostorder
           D == Len(calls)
<1> USE DEF Walk
<1>1. /\ calls # <<>> /\ ~AtEdge /\ rpost' = [rpost EXCEPT ![n] = r]
      /\ state' = [state EXCEPT !.rpostorder = @ - 1]
      /\ calls' = SubSeq(calls, 1, D - 1) /\ UNCHANGED <<g, pre, edge_type>>
  BY DEF Finish
<1>2. /\ DOMAIN calls = 1..D /\ D \in Nat \ {0} /\ calls \in Seq(Activations)
      /\ n \in Blocks /\ Top.next \in Nat \ {0} /\ Open(n) /\ ~(Top.next <= Len(g.succs[n]))
      /\ \A b \in Blocks : Open(b) => pre[b] <= pre[n]
      /\ \A i \in 1..(D - 1) : calls[i].node # n
  BY <1>1, AtTop DEF AtEdge, Shape
<1>3. calls[D].node = n /\ calls[D].next = Top.next
  BY DEF Top
<1> HIDE DEF n, D
<1>4. /\ calls' \in Seq(Activations) /\ Len(calls') = D - 1 /\ DOMAIN calls' = 1..(D - 1)
      /\ \A i \in 1..(D - 1) : calls'[i] = calls[i]
  BY <1>1, <1>2
<1>5. /\ pre \in [Blocks -> Nat] /\ rpost \in [Blocks -> Nat] /\ r \in Nat
      /\ state.preorder \in Nat
  BY DEF Shape
<1>6. rpost[n] = 0 /\ pre[n] # 0
  BY <1>2 DEF Open
<1>7. r # 0
  <2>1. Ended \cup {n} \subseteq Blocks /\ n \notin Ended
    BY <1>2, <1>6 DEF Ended
  <2>2. IsFiniteSet(Ended) /\ IsFiniteSet(Ended \cup {n})
    BY <2>1, BlocksFinite, FS_Subset
  <2>3. Cardinality(Ended \cup {n}) = Cardinality(Ended) + 1
    BY <2>1, <2>2, FS_AddElement
  <2>4. Cardinality(Ended \cup {n}) <= NBlocks
    BY <2>1, BlocksFinite, FS_Subset
  <2>5. Cardinality(Ended) \in Nat /\ NBlocks \in Nat
    BY <2>2, FS_CardinalityType, NBlocksAssumption
  <2> QED BY <1>5, <2>3, <2>4, <2>5 DEF Numbers
<1>8. /\ rpost' \in [Blocks -> Nat] /\ rpost'[n] = r
      /\ \A b \in Blocks : b # n => rpost'[b] = rpost[b]
  BY <1>1, <1>2, <1>5
<1>9. /\ state'.preorder = state.preorder /\ state'.rpostorder = r - 1
      /\ state' \in [preorder : Nat, rpostorder : Nat]
  <2>1. state \in [preorder : Nat, rpostorder : Nat] /\ r - 1 \in Nat
    BY <1>5, <1>7 DEF Shape
  <2> QED BY <1>1, <2>1
<1> HIDE DEF r
<1>10. Shape'
  BY <1>1, <1>4, <1>8, <1>9 DEF Shape, Mirror, Edges, NoRepetition
<1>11. \A b \in Blocks : Open(b)' <=> Open(b) /\ b # n
  BY <1>1, <1>7, <1>8 DEF Open
<1>12. Stack'
  <2>1. ASSUME NEW i \in DOMAIN calls'
        PROVE  Open(calls[i].node)' /\ calls'[i].next <= Len(g.succs[calls'[i].node]) + 1
    <3>1. i \in 1..(D - 1) /\ i \in DOMAIN calls /\ calls'[i] = calls[i]
      BY <1>2, <1>4
    <3>2. calls[i] \in Activations /\ Open(calls[i].node)
          /\ calls[i].next <= Len(g.succs[calls[i].node]) + 1
      BY <1>2, <3>1 DEF Stack
    <3>3. calls[i].node \in Blocks /\ calls[i].node # n
      BY <1>2, <3>1, <3>2 DEF Activations
    <3> QED BY <1>11, <3>1, <3>2, <3>3
  <2>2. \A i, k \in DOMAIN calls' : i < k => pre[calls'[i].node] < pre[calls'[k].node]
    <3>1. \A i \in DOMAIN calls' : i \in DOMAIN calls /\ calls'[i] = calls[i]
      BY <1>2, <1>4
    <3> QED BY <3>1 DEF Stack
  <2>3. ASSUME NEW b \in Blocks, Open(b)'
        PROVE  \E i \in DOMAIN calls' : calls'[i].node = b
    <3>1. PICK i \in DOMAIN calls : calls[i].node = b
      BY <1>11, <2>3 DEF Stack
    <3>2. i # D
      BY <1>3, <1>11, <2>3, <3>1
    <3>3. i \in 1..(D - 1)
      BY <1>2, <3>2
    <3> QED BY <1>4, <3>1, <3>3
  <2> QED BY <1>1, <2>1, <2>2, <2>3 DEF Stack
<1>13. Numbers'
  <2>1. Ended' = Ended \cup {n} /\ n \notin Ended
    BY <1>2, <1>6, <1>7, <1>8 DEF Ended
  <2>2. \A b \in Blocks : pre[b] < state.preorder /\ (rpost'[b] # 0 => pre[b] # 0)
    BY <1>6, <1>8 DEF Numbers
  <2>3. \A b \in Ended : r < rpost[b]
    BY DEF Numbers, r
  <2>5. Cardinality(Ended') = Cardinality(Ended) + 1 /\ Cardinality(Ended) \in Nat
    <3>1. IsFiniteSet(Ended)
      BY BlocksFinite, FS_Subset DEF Ended
    <3> QED BY <2>1, <3>1, FS_AddElement, FS_CardinalityType
  <2>4. \A b \in Ended' : r - 1 < rpost'[b] /\ rpost'[b] <= NBlocks
    <3>1. r <= NBlocks
      BY <1>5, <2>5, NBlocksAssumption DEF Numbers, r
    <3>2. \A b \in Ended : rpost[b] <= NBlocks
      BY DEF Numbers
    <3> QED BY <1>5, <1>8, <2>1, <2>3, <3>1, <3>2 DEF Ended
  <2>6. state'.rpostorder + Cardinality(Ended') = NBlocks
    BY <1>5, <1>9, <2>5 DEF Numbers, r
  <2>7. \A a, b \in Ended' : rpost'[a] = rpost'[b] => a = b
    BY <1>5, <1>8, <2>1, <2>3 DEF Numbers, Ended
  <2> QED BY <1>1, <1>9, <2>2, <2>4, <2>6, <2>7 DEF Numbers, Reached
<1>14. \A a \in Blocks : \A k \in DOMAIN g.succs[a] : Looked(a, k)' <=> Looked(a, k)
  <2> SUFFICES ASSUME NEW a \in Blocks, NEW k \in DOMAIN g.succs[a]
               PROVE  Looked(a, k)' <=> Looked(a, k)
    OBVIOUS
  <2>1. CASE a = n
    <3>1. g.succs[a] \in Seq(Blocks)
      BY DEF Shape, Graphs
    <3>2. k < Top.next
      BY <1>2, <2>1, <3>1
    <3>3. D \in DOMAIN calls /\ calls[D].node = n /\ k < calls[D].next
      BY <1>2, <1>3, <3>2
    <3>4. Looked(a, k)
      BY <2>1, <3>3 DEF Looked
    <3>5. Looked(a, k)'
      BY <1>7, <1>8, <2>1 DEF Looked
    <3> QED BY <3>4, <3>5
  <2>2. CASE a # n
    <3>1. \A i \in DOMAIN calls : calls[i].node = a => i \in 1..(D - 1)
      BY <1>2, <1>3, <2>2
    <3>2. \A i \in 1..(D - 1) : i \in DOMAIN calls
      BY <1>2
    <3> QED BY <1>4, <1>8, <2>2, <3>1, <3>2 DEF Looked
  <2> QED BY <2>1, <2>2
<1>15. Tree' = Tree
  BY <1>1 DEF Tree, TypedEdges, Edges
<1>16. \A a, b : Ancestor(a, b)' <=> Ancestor(a, b)
  BY <1>15 DEF Ancestor, Tree
<1>17. \A b \in Ended : r < rpost[b] /\ b # n
  BY <1>6 DEF Numbers, r, Ended
<1>18. ASSUME NEW a \in Blocks, NEW b \in Blocks, Down(a, b)
       PROVE  Down(a, b)'
  <2>1. pre[b] \in Nat /\ pre[n] \in Nat /\ (Open(b) => pre[b] <= pre[n])
    BY <1>2, <1>5
  <2>2. CASE a = n
    <3>1. ~Open(b)
      BY <1>2, <1>18, <2>1, <2>2 DEF Down
    <3>2. b # n /\ b \in Ended
      BY <1>2, <1>18, <3>1 DEF Down, Open, Ended
    <3> QED BY <1>1, <1>8, <1>11, <1>17, <1>18, <2>2, <3>2 DEF Down
  <2>3. CASE a # n
    <3>1. rpost[a] # 0 => rpost[b] # 0
      BY <1>5, <1>18 DEF Down
    <3>2. rpost[a] # 0 => b # n
      BY <1>6, <3>1
    <3> QED BY <1>1, <1>8, <1>11, <1>18, <2>3, <3>2 DEF Down
  <2> QED BY <2>2, <2>3
<1>19. ASSUME NEW a \in Blocks, NEW b \in Blocks, Up(a, b), pre[a] # 0
       PROVE  Up(a, b)'
  <2>1. Open(a)' => Open(b)' /\ pre[b] <= pre[a]
    <3>1. CASE b = n /\ a # n /\ Open(a)
      <4>1. pre[a] = pre[n] /\ a \in Reached /\ n \in Reached
        BY <1>2, <1>5, <1>6, <1>19, <3>1 DEF Up, Reached
      <4> QED BY <3>1, <4>1 DEF Numbers
    <3> QED BY <1>11, <1>19, <3>1 DEF Up
  <2>2. rpost'[b] # 0 => rpost'[b] <= rpost'[a]
    <3>1. CASE a = n /\ b = n
      BY <1>5, <1>8, <3>1
    <3>2. CASE a = n /\ b # n
      BY <1>2, <1>8, <1>19, <3>2 DEF Up, Open
    <3>3. CASE a # n /\ b = n
      <4>1. rpost[a] # 0
        BY <1>5, <1>11, <1>19, <2>1, <3>3 DEF Open
      <4> QED BY <1>5, <1>8, <1>17, <3>3, <4>1 DEF Ended
    <3>4. CASE a # n /\ b # n
      BY <1>8, <1>19, <3>4 DEF Up
    <3> QED BY <3>1, <3>2, <3>3, <3>4
  <2> QED BY <1>1, <1>19, <2>1, <2>2 DEF Up
<1>20. Types'
  <2>1. ASSUME NEW a \in Blocks, NEW b \in Blocks, NEW u, TypeFits(a, b, u), pre[a] # 0
        PROVE  TypeFits(a, b, u)'
    BY <1>1, <1>16, <1>18, <1>19, <2>1 DEF TypeFits
  <2>2. \A a \in Blocks : \A k \in DOMAIN g.succs[a] : g.succs[a][k] \in Blocks
    BY DEF Shape, Graphs
  <2>3. ASSUME NEW a \in Blocks, NEW k \in DOMAIN g.succs[a]
        PROVE  IF Looked(a, k)' THEN TypeFits(a, g.succs[a][k], edge_type[a][k])'
               ELSE edge_type'[a][k] = "UNCLASSIFIED"
    <3>1. Looked(a, k) => pre[a] # 0
      BY DEF Looked, Numbers, Stack, Open
    <3> QED BY <1>1, <1>14, <2>1, <2>2, <3>1 DEF Types
  <2> QED BY <1>1, <2>3 DEF Types
<1>21. Spanning'
  <2>1. Reached' = Reached /\ Reachable(Tree)' = Reachable(Tree)
    BY <1>1, <1>15 DEF Reached, Reachable
  <2>2. \A a, b \in Reached : Open(a)' /\ pre[a] <= pre[b] => Ancestor(a, b)'
    BY <1>11, <1>16 DEF Spanning, Reached
  <2> QED BY <1>1, <1>15, <2>1, <2>2 DEF Spanning
<1> QED BY <1>10, <1>12, <1>13, <1>20, <1>21

LEMMA ClassifyWalk ==
    ASSUME Shape, Classify
    PROVE  Shape' /\ Walk' /\ state'.preorder # 0
<1> DEFINE first == Activation(ENTRY_BLOCK)
<1>1. /\ pre' = [b \in Blocks |-> IF b = ENTRY_BLOCK THEN 1 ELSE 0]
      /\ rpost' = [b \in Blocks |-> 0] /\ edge_type' = Unclassified(g)
      /\ state' = [preorder |-> 2, rpostorder |-> NBlocks]
      /\ calls' = <<first>> /\ g' = g
  BY DEF Classify
<1>2. first \in Activations /\ first.node = ENTRY_BLOCK /\ first.next = 1
  BY EntryIsBlock DEF Activation, Activations
<1>3. ENTRY_BLOCK \in Blocks /\ NBlocks \in Nat
  BY EntryIsBlock, NBlocksAssumption
<1> HIDE DEF first
<1>4. /\ calls' \in Seq(Activations) /\ Len(calls') = 1 /\ DOMAIN calls' = {1}
      /\ calls'[1].node = ENTRY_BLOCK /\ calls'[1].next = 1
  BY <1>1, <1>2
<1>5. Shape'
  <2>1. state' \in [preorder : Nat, rpostorder : Nat]
    BY <1>1, <1>3
  <2> QED BY <1>1, <1>4, <2>1 DEF Shape, Mirror, Edges, NoRepetition
<1>6. \A b \in Blocks : (Open(b)' <=> b = ENTRY_BLOCK) /\ rpost'[b] = 0
                        /\ (pre'[b] # 0 <=> b = ENTRY_BLOCK) /\ pre'[b] < 2
  BY <1>1 DEF Open
<1>7. Stack'
  <2>1. g.succs[ENTRY_BLOCK] \in Seq(Blocks)
    BY <1>3 DEF Shape, Graphs
  <2>2. Len(g.succs[ENTRY_BLOCK]) \in Nat
    BY <2>1
  <2>3. ASSUME NEW i \in DOMAIN calls'
        PROVE  Open(calls[i].node)' /\ calls'[i].next <= Len(g.succs[calls'[i].node]) + 1
    BY <1>3, <1>4, <1>6, <2>2
  <2>4. \A i, k \in DOMAIN calls' : ~(i < k)
    BY <1>4
  <2> QED BY <1>1, <1>4, <1>6, <2>3, <2>4 DEF Stack
<1>8. Numbers'
  <2>1. Ended' = {}
    BY <1>1 DEF Ended
  <2>2. Cardinality(Ended') = 0
    BY <2>1, FS_EmptySet
  <2>3. state'.rpostorder = NBlocks /\ state'.preorder = 2
    BY <1>1
  <2> QED BY <1>1, <1>3, <1>6, <2>1, <2>2, <2>3 DEF Numbers, Reached
<1>9. Types'
  <2>1. /\ DOMAIN edge_type' = Blocks
        /\ \A a \in Blocks : DOMAIN edge_type'[a] = DOMAIN g.succs[a]
        /\ \A a \in Blocks : \A k \in DOMAIN g.succs[a] : edge_type'[a][k] = "UNCLASSIFIED"
    BY <1>1 DEF Unclassified
  <2>2. \A a \in Blocks : \A k \in DOMAIN g.succs[a] : ~Looked(a, k)'
    <3> SUFFICES ASSUME NEW a \in Blocks, NEW k \in DOMAIN g.succs[a]
                 PROVE  ~Looked(a, k)'
      OBVIOUS
    <3>1. g.succs[a] \in Seq(Blocks)
      BY DEF Shape, Graphs
    <3>2. ~(k < 1)
      BY <3>1
    <3> QED BY <1>4, <1>6, <3>2 DEF Looked
  <2> QED BY <1>1, <2>1, <2>2 DEF Types
<1>10. Spanning'
  <2>1. Tree' = {}
    BY <1>1 DEF Tree, TypedEdges, Unclassified, Edges
  <2>2. Reached' = {ENTRY_BLOCK}
    BY <1>3, <1>6 DEF Reached
  <2>3. ENTRY_BLOCK \in Reachable(Tree)'
    BY <1>3 DEF Reachable
  <2>4. Ancestor(ENTRY_BLOCK, ENTRY_BLOCK)'
    BY DEF Ancestor
  <2> QED BY <2>1, <2>2, <2>3, <2>4 DEF Spanning
<1> QED BY <1>1, <1>5, <1>7, <1>8, <1>9, <1>10 DEF Walk

-----------------------------------------------------------------------------
(* The graphs the walk starts from *)

IsSources(h, lists, b, n) ==
    h = [a \in 0..n |-> IF a = 0 THEN <<>>
                        ELSE IF b \in Range(lists[a]) THEN Append(h[a - 1], a)
                        ELSE h[a - 1]]

LEMMA SourcesDefined ==
    ASSUME NEW lists, NEW b, NEW n \in Nat
    PROVE  \E h : IsSources(h, lists, b, n)
<1> DEFINE T == {m \in Nat : ~\E h : IsSources(h, lists, b, m)}
<1>1. SUFFICES ASSUME T # {}
               PROVE  FALSE
  OBVIOUS
<1>2. PICK m \in T : \A y \in T : m <= y
  <2> HIDE DEF T
  <2>1. T \subseteq Nat
    BY DEF T
  <2> QED BY <1>1, <2>1, LeastNumber
<1>3. CASE m = 0
  <2>1. IsSources([a \in 0..0 |-> <<>>], lists, b, 0)
    BY DEF IsSources
  <2> QED BY <1>2, <1>3, <2>1
<1>4. CASE m # 0
  <2>1. m - 1 \in Nat /\ m - 1 \notin T
    BY <1>2, <1>4
  <2>2. PICK h : IsSources(h, lists, b, m - 1)
    BY <2>1
  <2> DEFINE k == [a \in 0..m |-> IF a # m THEN h[a]
                                  ELSE IF b \in Range(lists[m]) THEN Append(h[m - 1], m)
                                  ELSE h[m - 1]]
  <2>3. ASSUME NEW a \in 0..m
        PROVE  k[a] = IF a = 0 THEN <<>>
                      ELSE IF b \in Range(lists[a]) THEN Append(k[a - 1], a) ELSE k[a - 1]
    <3>1. m \in Nat /\ (a = m \/ a \in 0..(m - 1)) /\ (a = 0 \/ a - 1 \in 0..(m - 1))
      BY <1>2
    <3>2. \A x \in 0..(m - 1) : k[x] = h[x]
      BY <1>2
    <3>3. \A x \in 0..(m - 1) :
              h[x] = IF x = 0 THEN <<>>
                     ELSE IF b \in Range(lists[x]) THEN Append(h[x - 1], x) ELSE h[x - 1]
      BY <2>2 DEF IsSources
    <3>4. k[m] = IF b \in Range(lists[m]) THEN Append(h[m - 1], m) ELSE h[m - 1]
      BY <1>2
    <3> HIDE DEF k
    <3>5. CASE a = m
      BY <1>4, <3>1, <3>2, <3>4, <3>5
    <3>6. CASE a \in 0..(m - 1)
      BY <3>1, <3>2, <3>3, <3>6
    <3> QED BY <3>1, <3>5, <3>6
  <2>4. k = [a \in 0..m |-> k[a]]
    OBVIOUS
  <2> HIDE DEF k
  <2>5. IsSources(k, lists, b, m)
    BY <2>3, <2>4 DEF IsSources
  <2> QED BY <1>2, <2>5
<1> QED BY <1>3, <1>4

(* The sources are collected in ascending order.                           *)
LEMMA SourcesCollected ==
    ASSUME NEW lists, NEW b, NEW h, IsSources(h, lists, b, NBlocks), NEW n \in 0..NBlocks
    PROVE  /\ h[n] \in Seq(Blocks) /\ NoRepetition(h[n])
           /\ Range(h[n]) = {a \in 1..n : b \in Range(lists[a])}
<1> DEFINE Right(m) == /\ h[m] \in Seq(Blocks) /\ NoRepetition(h[m])
                       /\ Range(h[m]) = {a \in 1..m : b \in Range(lists[a])}
           T == {m \in 0..NBlocks : ~Right(m)}
<1>1. SUFFICES ASSUME T # {}
               PROVE  FALSE
  OBVIOUS
<1>2. PICK m \in T : \A y \in T : m <= y
  <2> HIDE DEF T
  <2>1. T \subseteq Nat
    BY NBlocksAssumption DEF T
  <2> QED BY <1>1, <2>1, LeastNumber
<1>3. m \in 0..NBlocks /\ NBlocks \in Nat /\ ~Right(m)
  BY <1>2, NBlocksAssumption
<1>4. CASE m = 0
  <2>1. h[0] = <<>>
    BY <1>3 DEF IsSources
  <2>2. <<>> \in Seq(Blocks) /\ NoRepetition(<<>>) /\ Range(<<>>) = {}
    BY DEF NoRepetition, Range
  <2> QED BY <1>3, <1>4, <2>1, <2>2
<1>5. CASE m # 0
  <2>1. m - 1 \in 0..NBlocks /\ m - 1 \notin T /\ m \in Blocks
    BY <1>2, <1>3, <1>5 DEF Blocks
  <2>2. Right(m - 1)
    BY <2>1
  <2>3. h[m] = IF b \in Range(lists[m]) THEN Append(h[m - 1], m) ELSE h[m - 1]
    BY <1>3, <1>5 DEF IsSources
  <2>4. {a \in 1..m : b \in Range(lists[a])}
          = {a \in 1..(m - 1) : b \in Range(lists[a])}
              \cup (IF b \in Range(lists[m]) THEN {m} ELSE {})
    BY <1>3, <1>5
  <2>5. CASE b \in Range(lists[m])
    <3>1. m \notin Range(h[m - 1])
      BY <1>3, <2>2
    <3>2. NodeListAdd(h[m - 1], m) = h[m]
      BY <2>3, <2>5, <3>1 DEF NodeListAdd
    <3>3. /\ h[m] \in Seq(Blocks) /\ NoRepetition(h[m])
          /\ Range(h[m]) = Range(h[m - 1]) \cup {m}
      BY <2>1, <2>2, <3>2, AddToList
    <3> QED BY <1>3, <2>2, <2>4, <2>5, <3>3
  <2>6. CASE b \notin Range(lists[m])
    BY <1>3, <2>2, <2>3, <2>4, <2>6
  <2> QED BY <2>5, <2>6
<1> QED BY <1>4, <1>5

LEMMA SourcesRight ==
    ASSUME NEW lists, NEW b
    PROVE  /\ Sources(lists, b) \in Seq(Blocks) /\ NoRepetition(Sources(lists, b))
           /\ Range(Sources(lists, b)) = {a \in Blocks : b \in Range(lists[a])}
<1> DEFINE h == CHOOSE x : IsSources(x, lists, b, NBlocks)
<1>1. NBlocks \in Nat /\ NBlocks \in 0..NBlocks
  BY NBlocksAssumption
<1>2. IsSources(h, lists, b, NBlocks)
  BY <1>1, SourcesDefined
<1>3. Sources(lists, b) = h[NBlocks]
  BY DEF Sources, IsSources
<1> HIDE DEF h
<1> QED BY <1>1, <1>2, <1>3, SourcesCollected DEF Blocks

LEMMA GraphOfRight ==
    ASSUME NEW lists \in [Blocks -> Seq(Blocks)], \A b \in Blocks : NoRepetition(lists[b])
    PROVE  GraphOf(lists) \in Graphs /\ Mirror(GraphOf(lists))
<1> DEFINE h == GraphOf(lists)
<1>1. h.succs = lists /\ \A b \in Blocks : h.preds[b] = Sources(lists, b)
  BY DEF GraphOf
<1>2. h \in Graphs
  BY SourcesRight DEF GraphOf, Graphs
<1> HIDE DEF h
<1>3. ASSUME NEW b \in Blocks
      PROVE  Range(h.preds[b]) = {a \in Blocks : <<a, b>> \in Edges(h)}
  BY <1>1, <1>2, SourcesRight, EdgesOfList
<1>4. Mirror(h)
  BY <1>1, <1>3, SourcesRight DEF Mirror
<1> QED BY <1>2, <1>4 DEF h

-----------------------------------------------------------------------------
(* The invariant is inductive *)

LEMMA InitIInv == Init => IInv
<1> SUFFICES ASSUME Init
             PROVE  IInv
  OBVIOUS
<1>1. PICK lists \in [Blocks -> UNION Range(Lists)] :
          (\A b \in Blocks : lists[b] \in Lists[b]) /\ g = GraphOf(lists)
  BY DEF Init
<1>2. lists \in [Blocks -> Seq(Blocks)] /\ \A b \in Blocks : NoRepetition(lists[b])
  BY <1>1, ListsAssumption
<1>3. g \in Graphs /\ Mirror(g)
  BY <1>1, <1>2, GraphOfRight
<1>4. calls = <<>> /\ calls \in Seq(Activations)
  BY DEF Init
<1>5. state \in [preorder : Nat, rpostorder : Nat] /\ state.preorder = 0
  BY DEF Init
<1> QED BY <1>3, <1>4, <1>5 DEF Init, IInv, Shape

LEMMA RemoveEdgeShape ==
    ASSUME Shape, RemoveEdge
    PROVE  Shape' /\ state'.preorder = 0 /\ calls' = <<>>
<1>1. PICK e \in Edges(g) : g' = DeleteEdge(g, e[1], e[2])
  BY DEF RemoveEdge
<1>2. e[1] \in Blocks /\ e[2] \in Blocks
  BY DEF Edges
<1>3. g' \in Graphs /\ Mirror(g')
  BY <1>1, <1>2, EdgeDeleted DEF Shape
<1>4. Mirror(g)'
  BY <1>3 DEF Mirror, Edges, NoRepetition
<1>5. /\ state' = [preorder |-> 0, rpostorder |-> 0] /\ calls = <<>>
      /\ UNCHANGED <<pre, rpost, calls>>
  BY DEF RemoveEdge, Classified
<1>6. state' \in [preorder : Nat, rpostorder : Nat] /\ state'.preorder = 0
  BY <1>5
<1> QED BY <1>3, <1>4, <1>5, <1>6 DEF Shape

LEMMA NextIInv == IInv /\ [Next]_vars => IInv'
<1> SUFFICES ASSUME IInv, [Next]_vars
             PROVE  IInv'
  OBVIOUS
<1>1. CASE Classify
  BY <1>1, ClassifyWalk DEF IInv
<1>2. CASE Descend
  <2>1. state.preorder # 0 /\ state'.preorder # 0
    BY <1>2 DEF IInv, Descend, AtEdge, Shape
  <2> QED BY <1>2, <2>1, DescendWalk DEF IInv
<1>3. CASE PassEdge
  <2>1. state.preorder # 0 /\ state'.preorder # 0
    BY <1>3 DEF IInv, PassEdge, AtEdge
  <2> QED BY <1>3, <2>1, PassEdgeWalk DEF IInv
<1>4. CASE Finish
  <2>1. state.preorder # 0 /\ state'.preorder # 0
    BY <1>4 DEF IInv, Finish, Shape
  <2> QED BY <1>4, <2>1, FinishWalk DEF IInv
<1>5. CASE RemoveEdge
  BY <1>5, RemoveEdgeShape DEF IInv
<1>6. CASE UNCHANGED vars
  <2> USE <1>6 DEF vars
  <2>1. Shape' = Shape
    BY DEF Shape, Mirror, Edges, NoRepetition
  <2>2. Stack' = Stack /\ Numbers' = Numbers
    BY DEF Stack, Open, Numbers, Ended, Reached
  <2>3. Tree' = Tree
    BY DEF Tree, TypedEdges, Edges
  <2>4. \A a, b : Ancestor(a, b)' = Ancestor(a, b)
    BY <2>3 DEF Ancestor, Tree
  <2>5. Types' = Types
    BY <2>4 DEF Types, TypeFits, Down, Up, Open, Looked
  <2>6. Spanning' = Spanning
    BY <2>3, <2>4 DEF Spanning, Reached, Reachable, Open
  <2> QED BY <2>1, <2>2, <2>5, <2>6 DEF IInv, Walk
<1> QED BY <1>1, <1>2, <1>3, <1>4, <1>5, <1>6 DEF Next, Step, Finished

LEMMA SpecIInv == Spec => []IInv
BY InitIInv, NextIInv, PTL DEF Spec

(* The computation of the dominators takes the steps of the walk and       *)
(* leaves what it found alone.                                             *)
LEMMA DomNumbers == DomSpec => Spec
<1>1. DomInit => Init
  BY DEF DomInit
<1>2. [DomNext]_<<vars, domVars>> => [Next]_vars
  BY DEF DomNext, DomStep, Number, Start, Visit, NextSweep, Change, Over, Next, Finished
<1> QED BY <1>1, <1>2, PTL DEF DomSpec, Spec

-----------------------------------------------------------------------------
(* What a classification has found *)

LEMMA WhenClassified ==
    ASSUME IInv, Classified
    PROVE  /\ Shape /\ Walk /\ Reached = Ended /\ ENTRY_BLOCK \in Reached
           /\ \A b \in Blocks : ~Open(b)
           /\ \A a \in Reached : \A k \in DOMAIN g.succs[a] :
                  TypeFits(a, g.succs[a][k], edge_type[a][k])
           /\ \A a \in Reached : \A b \in Blocks :
                  <<a, b>> \in Edges(g) => b \in Reached
<1>1. state.preorder # 0 /\ calls = <<>> /\ Shape
  BY DEF IInv, Classified, Shape
<1>2. Walk
  BY <1>1 DEF IInv
<1>3. \A b \in Blocks : ~Open(b)
  BY <1>1, <1>2 DEF Walk, Stack
<1>4. Reached = Ended /\ ENTRY_BLOCK \in Reached
  BY <1>2, <1>3, EntryIsBlock DEF Walk, Numbers, Reached, Ended, Open
<1>5. \A a \in Reached : \A k \in DOMAIN g.succs[a] : TypeFits(a, g.succs[a][k], edge_type[a][k])
  BY <1>2, <1>4 DEF Walk, Types, Looked, Reached, Ended
<1>6. ASSUME NEW a \in Reached, NEW b \in Blocks, <<a, b>> \in Edges(g)
      PROVE  b \in Reached
  <2>1. PICK k \in DOMAIN g.succs[a] : g.succs[a][k] = b
    BY <1>6 DEF Edges, Range
  <2>2. TypeFits(a, b, edge_type[a][k])
    BY <1>5, <2>1
  <2> QED BY <2>2 DEF TypeFits, Down, Up, Reached
<1> QED BY <1>1, <1>2, <1>3, <1>4, <1>5, <1>6

LEMMA TypedEdge ==
    ASSUME NEW types, NEW e
    PROVE  e \in TypedEdges(types) <=>
               /\ e \in Edges(g)
               /\ \E k \in DOMAIN g.succs[e[1]] :
                      g.succs[e[1]][k] = e[2] /\ edge_type[e[1]][k] \in types
BY DEF TypedEdges

(* A type that an edge has says how its ends are numbered.                 *)
LEMMA TypeSays ==
    ASSUME IInv, Classified, NEW a \in Reached, NEW b \in Blocks, NEW t,
           <<a, b>> \in TypedEdges({t})
    PROVE  TypeFits(a, b, t)
<1>1. PICK k \in DOMAIN g.succs[a] : g.succs[a][k] = b /\ edge_type[a][k] = t
  BY TypedEdge
<1> QED BY <1>1, WhenClassified

LEMMA RpoIsTopological == IInv => RpoTopological
<1> SUFFICES ASSUME IInv, Classified, NEW a \in Blocks, NEW b \in Blocks,
                    <<a, b>> \in Edges(g), a \in Reached
             PROVE  rpost[a] < rpost[b] <=> <<a, b>> \notin TypedEdges({"BACKWARD"})
  BY DEF RpoTopological, Edges
<1>1. /\ Shape /\ Reached = Ended /\ b \in Reached
      /\ \A k \in DOMAIN g.succs[a] : TypeFits(a, g.succs[a][k], edge_type[a][k])
  BY WhenClassified
<1>2. rpost[a] \in Nat /\ rpost[b] \in Nat /\ rpost[a] # 0 /\ rpost[b] # 0
  BY <1>1 DEF Shape, Ended
<1>3. CASE <<a, b>> \in TypedEdges({"BACKWARD"})
  BY <1>2, <1>3, TypeSays DEF TypeFits, Up
<1>4. CASE <<a, b>> \notin TypedEdges({"BACKWARD"})
  <2>1. PICK k \in DOMAIN g.succs[a] : g.succs[a][k] = b
    BY DEF Edges, Range
  <2>2. edge_type[a][k] # "BACKWARD"
    BY <1>4, <2>1, TypedEdge
  <2>3. TypeFits(a, b, edge_type[a][k])
    BY <1>1, <2>1
  <2> QED BY <1>2, <1>4, <2>2, <2>3 DEF TypeFits, Down
<1> QED BY <1>3, <1>4

LEMMA ReachedRight == IInv => ReachedAreReachable
<1> SUFFICES ASSUME IInv, Classified
             PROVE  Reached = Reachable(Edges(g))
  BY DEF ReachedAreReachable
<1>1. /\ Walk /\ ENTRY_BLOCK \in Reached
      /\ \A a \in Reached : \A b \in Blocks : <<a, b>> \in Edges(g) => b \in Reached
  BY WhenClassified
<1>2. Reached \subseteq Blocks /\ Closed(Edges(g), Reached)
  BY <1>1 DEF Reached, Closed, Edges
<1>3. Reachable(Edges(g)) \subseteq Reached
  BY <1>1, <1>2 DEF Reachable
<1>4. ASSUME NEW b \in Reached
      PROVE  b \in Reachable(Edges(g))
  <2>1. b \in Blocks /\ Leads(Tree, ENTRY_BLOCK, b)
    BY <1>1, ReachableLeads DEF Walk, Spanning
  <2>2. Tree \subseteq Edges(g)
    BY DEF Tree, TypedEdges
  <2> QED BY <2>1, <2>2, LeadsWithMore, ReachableLeads
<1> QED BY <1>3, <1>4

LEMMA TreeRight == IInv => TreeSpans
<1> SUFFICES ASSUME IInv, Classified
             PROVE  /\ Reachable(Tree) = Reached
                    /\ \A b \in Reached : Cardinality({e \in Tree : e[2] = b})
                                              = IF b = ENTRY_BLOCK THEN 0 ELSE 1
  BY DEF TreeSpans, Tree
<1>1. Walk /\ Shape
  BY WhenClassified
<1>2. Reachable(Tree) = Reached
  <2>1. Tree \subseteq Edges(g)
    BY DEF Tree, TypedEdges
  <2>2. Reachable(Tree) \subseteq Reachable(Edges(g))
    BY <2>1, LeadsWithMore, ReachableLeads
  <2> QED BY <1>1, <2>2, ReachedRight DEF Walk, Spanning, ReachedAreReachable
<1>3. Tree \subseteq Blocks \X Blocks
  BY DEF Tree, TypedEdges, Edges
<1>4. ASSUME NEW b \in Reached
      PROVE  Cardinality({e \in Tree : e[2] = b}) = IF b = ENTRY_BLOCK THEN 0 ELSE 1
  <2>0. b \in Blocks
    BY DEF Reached
  <2>1. CASE b = ENTRY_BLOCK
    <3>1. ASSUME NEW a \in Blocks, <<a, b>> \in Tree
          PROVE  FALSE
      <4>1. pre[a] \in Nat /\ pre[a] # 0 /\ pre[a] < pre[b] /\ pre[b] = 1
        BY <1>1, <2>0, <2>1, <3>1, TreeEdge DEF Walk, Shape, Numbers
      <4> QED BY <4>1
    <3>2. {e \in Tree : e[2] = b} = {}
      BY <1>3, <3>1
    <3> QED BY <2>1, <3>2, FS_EmptySet
  <2>2. CASE b # ENTRY_BLOCK
    <3>1. PICK a \in Blocks : <<a, b>> \in Tree
      BY <1>1, <2>2 DEF Walk, Spanning
    <3>2. \A c \in Blocks : <<c, b>> \in Tree => c = a
      BY <1>1, <2>0, <3>1 DEF Walk, Spanning
    <3>3. {e \in Tree : e[2] = b} = {<<a, b>>}
      BY <1>3, <3>1, <3>2
    <3> QED BY <2>2, <3>3, FS_Singleton
  <2> QED BY <2>1, <2>2
<1> QED BY <1>2, <1>4

(* A descendant is numbered after its ancestors in both orders.            *)
LEMMA AncestorNumbers ==
    ASSUME IInv, Classified, NEW m \in Reached, NEW n \in Blocks, Ancestor(m, n)
    PROVE  pre[m] <= pre[n] /\ rpost[m] <= rpost[n]
<1>1. Shape /\ Walk /\ Reached = Ended /\ m \in Blocks
  BY WhenClassified DEF Reached
<1>2. Leads(Tree, m, n)
  BY AncestorLeads
<1> DEFINE S == {b \in Blocks : pre[m] <= pre[b] /\ rpost[m] <= rpost[b]}
<1>3. m \in S
  BY <1>1 DEF Shape
<1>4. ASSUME NEW a \in Blocks, NEW b \in Blocks, <<a, b>> \in Tree, a \in S
      PROVE  b \in S
  <2>1. pre[a] # 0 /\ pre[a] < pre[b] /\ Down(a, b)
    BY <1>1, <1>4, TreeEdge DEF Walk
  <2>2. rpost[a] # 0
    BY <1>1, <2>1 DEF Reached, Ended
  <2> QED BY <1>1, <1>4, <2>1, <2>2 DEF Down, Shape
<1>5. Closed(Tree, S)
  <2>1. \A e \in Tree : e[1] \in Blocks /\ e[2] \in Blocks /\ e = <<e[1], e[2]>>
    BY DEF Tree, TypedEdges, Edges
  <2> QED BY <1>4, <2>1 DEF Closed
<1> QED BY <1>2, <1>3, <1>5 DEF Leads

LEMMA TypesAreRight == IInv => TypesRight
<1> SUFFICES ASSUME IInv, Classified
             PROVE  /\ \A e \in TypedEdges({"BACKWARD"}) : Ancestor(e[2], e[1])
                    /\ \A e \in TypedEdges({"FORWARD"}) : Ancestor(e[1], e[2])
                    /\ \A e \in TypedEdges({"CROSS"}) : ~Ancestor(e[1], e[2]) /\ ~Ancestor(e[2], e[1])
                    /\ \A e \in TypedEdges({"UNCLASSIFIED"}) : e[1] \notin Reached
  BY DEF TypesRight
<1>1. Shape /\ Walk /\ Reached = Ended
  BY WhenClassified
<1>2. ASSUME NEW t \in EdgeTypes \ {"UNCLASSIFIED"}, NEW e \in TypedEdges({t})
      PROVE  e[1] \in Reached /\ e[2] \in Blocks /\ TypeFits(e[1], e[2], t)
  <2>1. PICK a \in Blocks, b \in Blocks : e = <<a, b>>
    BY DEF TypedEdges, Edges
  <2>2. PICK k \in DOMAIN g.succs[a] : g.succs[a][k] = b /\ edge_type[a][k] = t
    BY <2>1, TypedEdge
  <2>3. Looked(a, k)
    BY <1>1, <2>2 DEF Walk, Types
  <2>4. a \in Reached
    BY <1>1, <2>3 DEF Looked, Walk, Stack, Open, Numbers, Reached
  <2> QED BY <2>1, <2>4, TypeSays
<1>3. ASSUME NEW e \in TypedEdges({"BACKWARD"})
      PROVE  Ancestor(e[2], e[1])
  <2>1. TypeFits(e[1], e[2], "BACKWARD")
    BY <1>2 DEF EdgeTypes
  <2> QED BY <2>1 DEF TypeFits
<1>4. ASSUME NEW e \in TypedEdges({"FORWARD"})
      PROVE  Ancestor(e[1], e[2])
  <2>1. TypeFits(e[1], e[2], "FORWARD")
    BY <1>2 DEF EdgeTypes
  <2> QED BY <2>1 DEF TypeFits
<1>5. ASSUME NEW e \in TypedEdges({"CROSS"})
      PROVE  ~Ancestor(e[1], e[2]) /\ ~Ancestor(e[2], e[1])
  <2>1. e[1] \in Reached /\ e[2] \in Blocks /\ TypeFits(e[1], e[2], "CROSS")
    BY <1>2 DEF EdgeTypes
  <2>2. pre[e[2]] < pre[e[1]] /\ pre[e[2]] # 0 /\ rpost[e[1]] < rpost[e[2]]
    BY <1>1, <2>1 DEF TypeFits, Down, Ended
  <2>3. e[1] \in Blocks /\ e[2] \in Reached
    BY <2>1, <2>2 DEF Reached
  <2>4. pre[e[1]] \in Nat /\ pre[e[2]] \in Nat /\ rpost[e[1]] \in Nat /\ rpost[e[2]] \in Nat
    BY <1>1, <2>3, <2>1 DEF Shape
  <2>5. ~Ancestor(e[1], e[2])
    BY <2>1, <2>2, <2>4, AncestorNumbers
  <2>6. ~Ancestor(e[2], e[1])
    BY <2>2, <2>3, <2>4, AncestorNumbers
  <2> QED BY <2>5, <2>6
<1>6. ASSUME NEW e \in TypedEdges({"UNCLASSIFIED"}), e[1] \in Reached
      PROVE  FALSE
  <2>1. PICK a \in Blocks, b \in Blocks : e = <<a, b>>
    BY DEF TypedEdges, Edges
  <2>2. TypeFits(a, b, "UNCLASSIFIED")
    BY <1>6, <2>1, TypeSays
  <2> QED BY <2>2 DEF TypeFits
<1> QED BY <1>3, <1>4, <1>5, <1>6

(* The numbers raviX_classify_edges() gives are a topological order of     *)
(* the nodes it reaches once the edges it calls backward are left out, and *)
(* only those go against the order; also after edges were deleted and the  *)
(* graph was classified again.                                             *)
THEOREM Topological == DomSpec => []RpoTopological
BY DomNumbers, SpecIInv, RpoIsTopological, PTL

(* It reaches the nodes the entry leads to, the edges it calls tree edges  *)
(* are a spanning tree of them, and the other types say where in this tree *)
(* the edge leads.                                                         *)
THEOREM Classifies == DomSpec => []ClassificationRight
<1>1. IInv => ClassificationRight
  BY ReachedRight, TreeRight, TypesAreRight DEF ClassificationRight
<1> QED BY <1>1, DomNumbers, SpecIInv, PTL

-----------------------------------------------------------------------------
(* The numbered graph, which the computation of dominators does not change *)

Numbered ==
    /\ g \in Graphs /\ Mirror(g)
    /\ rpost \in [Blocks -> Nat] /\ Reached \subseteq Blocks /\ ENTRY_BLOCK \in Reached
    /\ \A b \in Reached : rpost[b] \in 1..NBlocks /\ rpost[ENTRY_BLOCK] <= rpost[b]
    /\ \A a, b \in Reached : rpost[a] = rpost[b] => a = b
    /\ \A a \in Reached : \A b \in Blocks : <<a, b>> \in Edges(g) => b \in Reached
    /\ \A b \in Reached \ {ENTRY_BLOCK} :
           \E a \in Reached : <<a, b>> \in Edges(g) /\ rpost[a] < rpost[b]
    /\ Reached = Reachable(Edges(g))

LEMMA ClassifiedIsNumbered == IInv /\ Classified => Numbered
<1> SUFFICES ASSUME IInv, Classified
             PROVE  Numbered
  OBVIOUS
<1>1. /\ Shape /\ Walk /\ Reached = Ended /\ ENTRY_BLOCK \in Reached /\ Reached \subseteq Blocks
      /\ \A a \in Reached : \A b \in Blocks : <<a, b>> \in Edges(g) => b \in Reached
  BY WhenClassified DEF Reached
<1>2. ASSUME NEW b \in Reached
      PROVE  rpost[b] \in 1..NBlocks /\ rpost[ENTRY_BLOCK] <= rpost[b]
  <2>1. rpost[b] \in Nat /\ rpost[b] # 0 /\ rpost[b] <= NBlocks
    BY <1>1 DEF Shape, Walk, Numbers, Ended
  <2>2. Leads(Tree, ENTRY_BLOCK, b)
    BY <1>1, ReachableLeads DEF Walk, Spanning
  <2>3. Ancestor(ENTRY_BLOCK, b)
    BY <2>2, AncestorLeads
  <2> QED BY <1>1, <2>1, <2>3, AncestorNumbers, NBlocksAssumption
<1>3. ASSUME NEW b \in Reached \ {ENTRY_BLOCK}
      PROVE  \E a \in Reached : <<a, b>> \in Edges(g) /\ rpost[a] < rpost[b]
  <2>1. PICK a \in Blocks : <<a, b>> \in Tree
    BY <1>1 DEF Walk, Spanning
  <2>2. pre[a] # 0 /\ Down(a, b)
    BY <1>1, <2>1, TreeEdge DEF Walk
  <2>3. a \in Reached /\ rpost[a] # 0
    BY <1>1, <2>2 DEF Reached, Ended
  <2> QED BY <2>1, <2>2, <2>3 DEF Down, Tree, TypedEdges
<1>4. \A a, b \in Reached : rpost[a] = rpost[b] => a = b
  BY <1>1 DEF Walk, Numbers
<1>5. Reached = Reachable(Edges(g))
  BY ReachedRight DEF ReachedAreReachable
<1> QED BY <1>1, <1>2, <1>3, <1>4, <1>5 DEF Numbered, Shape

-----------------------------------------------------------------------------
(* The array of immediate dominators as a tree *)

IDomTree ==
    /\ Numbered
    /\ IDOM \in [Blocks -> Blocks \cup {NoNode}]
    /\ IDOM[ENTRY_BLOCK] = ENTRY_BLOCK
    /\ \A b \in Computed \ {ENTRY_BLOCK} :
           b \in Reached /\ IDOM[b] \in Computed /\ rpost[IDOM[b]] < rpost[b]

(* What dominates a node dominates its immediate dominator, as computed so *)
(* far.                                                                    *)
Sound ==
    \A b \in Computed \ {ENTRY_BLOCK} : \A m \in Reached \ {b} :
        Dominates(m, b) => Dominates(m, IDOM[b])

(* x is met when climbing from b. *)
Above(b, x) ==
    \A S \in SUBSET Blocks : b \in S /\ (\A y \in S \cap Computed : IDOM[y] \in S) => x \in S

LEMMA AboveItself == \A b : Above(b, b)
BY DEF Above

LEMMA AboveChain ==
    ASSUME NEW a, NEW b, NEW c, Above(a, b), Above(b, c)
    PROVE  Above(a, c)
BY DEF Above

LEMMA AboveIDom ==
    ASSUME NEW b \in Computed
    PROVE  Above(b, IDOM[b])
BY DEF Above

LEMMA ComputedNodes ==
    ASSUME IDomTree, NEW b \in Computed
    PROVE  /\ b \in Blocks /\ b \in Reached /\ rpost[b] \in 1..NBlocks
           /\ IDOM[b] \in Computed /\ IDOM[b] \in Blocks
           /\ b # ENTRY_BLOCK => rpost[IDOM[b]] < rpost[b]
<1>1. b \in Blocks /\ ENTRY_BLOCK \in Blocks /\ ENTRY_BLOCK \in Reached
  BY EntryIsBlock DEF Computed, IDomTree, Numbered
<1>2. CASE b = ENTRY_BLOCK
  BY <1>1, <1>2 DEF IDomTree, Numbered
<1>3. CASE b # ENTRY_BLOCK
  BY <1>1, <1>3 DEF IDomTree, Numbered, Computed
<1> QED BY <1>2, <1>3

(* The fingers of intersect(). *)
Fingers == Computed \X Computed
Rank(f) == rpost[f[1]] + rpost[f[2]]

Climbed(f) ==
    IF rpost[f[1]] > rpost[f[2]] THEN <<IDOM[f[1]], f[2]>> ELSE <<f[1], IDOM[f[2]]>>

LEMMA ClimbedIsLower ==
    ASSUME IDomTree, NEW f \in Fingers, f[1] # f[2]
    PROVE  /\ Climbed(f) \in Fingers /\ Rank(Climbed(f)) < Rank(f)
           /\ Rank(f) \in 1..(2 * NBlocks) /\ Rank(Climbed(f)) \in Nat
           /\ rpost[f[1]] > rpost[f[2]] => f[1] # ENTRY_BLOCK
           /\ ~(rpost[f[1]] > rpost[f[2]]) => f[2] # ENTRY_BLOCK /\ rpost[f[1]] < rpost[f[2]]
<1>1. PICK a \in Computed, b \in Computed : f = <<a, b>> /\ f[1] = a /\ f[2] = b
  BY DEF Fingers
<1>2. /\ a \in Reached /\ b \in Reached /\ rpost[a] \in 1..NBlocks /\ rpost[b] \in 1..NBlocks
      /\ IDOM[a] \in Computed /\ IDOM[b] \in Computed
      /\ a # ENTRY_BLOCK => rpost[IDOM[a]] < rpost[a]
      /\ b # ENTRY_BLOCK => rpost[IDOM[b]] < rpost[b]
  BY ComputedNodes
<1>3. rpost[IDOM[a]] \in 1..NBlocks /\ rpost[IDOM[b]] \in 1..NBlocks
  BY <1>2, ComputedNodes
<1>4. /\ rpost[ENTRY_BLOCK] <= rpost[a] /\ rpost[ENTRY_BLOCK] <= rpost[b]
      /\ rpost[a] # rpost[b] /\ rpost[ENTRY_BLOCK] \in Nat /\ NBlocks \in Nat
  BY <1>1, <1>2, NBlocksAssumption DEF IDomTree, Numbered
<1>5. CASE rpost[a] > rpost[b]
  <2>1. Climbed(f) = <<IDOM[a], b>> /\ a # ENTRY_BLOCK
    BY <1>1, <1>2, <1>4, <1>5 DEF Climbed
  <2> QED BY <1>1, <1>2, <1>3, <1>4, <1>5, <2>1 DEF Fingers, Rank
<1>6. CASE ~(rpost[a] > rpost[b])
  <2>1. Climbed(f) = <<a, IDOM[b]>> /\ b # ENTRY_BLOCK /\ rpost[a] < rpost[b]
    BY <1>1, <1>2, <1>4, <1>6 DEF Climbed
  <2> QED BY <1>1, <1>2, <1>3, <1>4, <1>6, <2>1 DEF Fingers, Rank
<1> QED BY <1>1, <1>5, <1>6

LEMMA RankType ==
    ASSUME IDomTree, NEW f \in Fingers
    PROVE  Rank(f) \in Nat /\ Rank(f) <= 2 * NBlocks
<1>1. f[1] \in Computed /\ f[2] \in Computed
  BY DEF Fingers
<1>2. rpost[f[1]] \in 1..NBlocks /\ rpost[f[2]] \in 1..NBlocks
  BY <1>1, ComputedNodes
<1> QED BY <1>2, NBlocksAssumption DEF Rank

(* The recursion that Intersect() stands for is well founded: the fingers  *)
(* climb, until they meet.                                                 *)
IsMeet(h, F) ==
    h = [f \in F |-> IF f[1] = f[2] THEN f[1]
                     ELSE IF rpost[f[1]] > rpost[f[2]] THEN h[<<IDOM[f[1]], f[2]>>]
                     ELSE h[<<f[1], IDOM[f[2]]>>]]

FingersTo(n) == {f \in Fingers : Rank(f) <= n}

LEMMA MeetClimbs ==
    ASSUME NEW F, NEW h
    PROVE  IsMeet(h, F) <=>
               h = [f \in F |-> IF f[1] = f[2] THEN f[1] ELSE h[Climbed(f)]]
BY DEF IsMeet, Climbed

LEMMA MeetDefined ==
    ASSUME IDomTree, NEW n \in Nat
    PROVE  \E h : IsMeet(h, FingersTo(n))
<1> DEFINE T == {m \in Nat : ~\E h : IsMeet(h, FingersTo(m))}
<1>1. SUFFICES ASSUME T # {}
               PROVE  FALSE
  OBVIOUS
<1>2. PICK m \in T : \A y \in T : m <= y
  <2> HIDE DEF T
  <2>1. T \subseteq Nat
    BY DEF T
  <2> QED BY <1>1, <2>1, LeastNumber
<1>3. m \in Nat /\ ~\E h : IsMeet(h, FingersTo(m))
  BY <1>2
<1>4. PICK h : \A f \in FingersTo(m - 1) :
                   h[f] = IF f[1] = f[2] THEN f[1] ELSE h[Climbed(f)]
  <2>1. CASE m = 0
    <3>1. FingersTo(m - 1) = {}
      BY <2>1, RankType DEF FingersTo
    <3> QED BY <3>1
  <2>2. CASE m # 0
    <3>1. m - 1 \in Nat /\ m - 1 \notin T
      BY <1>2, <1>3, <2>2
    <3>2. PICK h : IsMeet(h, FingersTo(m - 1))
      BY <3>1
    <3> QED BY <3>2, MeetClimbs
  <2> QED BY <2>1, <2>2
<1> DEFINE k == [f \in FingersTo(m) |->
                    IF f[1] = f[2] THEN f[1]
                    ELSE IF f \in FingersTo(m - 1) THEN h[f] ELSE h[Climbed(f)]]
<1>5. ASSUME NEW f \in FingersTo(m)
      PROVE  k[f] = IF f[1] = f[2] THEN f[1] ELSE k[Climbed(f)]
  <2>1. CASE f[1] = f[2]
    BY <2>1
  <2>2. CASE f[1] # f[2]
    <3>1. f \in Fingers /\ Rank(f) <= m
      BY DEF FingersTo
    <3> DEFINE c == Climbed(f)
    <3>2. c \in Fingers /\ Rank(c) < Rank(f) /\ Rank(c) \in Nat /\ Rank(f) \in Nat
      BY <2>2, <3>1, ClimbedIsLower, RankType
    <3>3. c \in FingersTo(m - 1) /\ c \in FingersTo(m)
      BY <1>3, <3>1, <3>2 DEF FingersTo
    <3>4. k[c] = h[c]
      BY <1>4, <3>3
    <3>5. k[f] = IF f \in FingersTo(m - 1) THEN h[f] ELSE h[c]
      BY <2>2
    <3>6. f \in FingersTo(m - 1) => h[f] = h[c]
      BY <1>4, <2>2
    <3> QED BY <2>2, <3>4, <3>5, <3>6
  <2> QED BY <2>1, <2>2
<1>6. k = [f \in FingersTo(m) |-> k[f]]
  OBVIOUS
<1> HIDE DEF k
<1>7. k = [f \in FingersTo(m) |-> IF f[1] = f[2] THEN f[1] ELSE k[Climbed(f)]]
  BY <1>5, <1>6
<1> QED BY <1>3, <1>7, MeetClimbs

LEMMA MeetFound ==
    ASSUME IDomTree
    PROVE  \E h : /\ \A f \in Fingers : h[f] = IF f[1] = f[2] THEN f[1] ELSE h[Climbed(f)]
                  /\ \A m, n : Intersect(m, n) = h[<<m, n>>]
<1>1. 2 * NBlocks \in Nat
  BY NBlocksAssumption
<1>2. FingersTo(2 * NBlocks) = Fingers
  BY RankType DEF FingersTo
<1> DEFINE h == CHOOSE x : IsMeet(x, Fingers)
<1>3. IsMeet(h, Fingers)
  BY <1>1, <1>2, MeetDefined
<1>4. \A m, n : Intersect(m, n) = h[<<m, n>>]
  BY DEF Intersect, IsMeet, Fingers
<1> HIDE DEF h
<1>5. h = [f \in Fingers |-> IF f[1] = f[2] THEN f[1] ELSE h[Climbed(f)]]
  BY <1>3, MeetClimbs
<1> QED BY <1>4, <1>5

-----------------------------------------------------------------------------
(* What dominators have to do with the numbers and the edges *)

Without(m) == {e \in Edges(g) : e[1] # m}

LEMMA DominatesMeans ==
    \A m, n : Dominates(m, n) <=> m = ENTRY_BLOCK \/ m = n \/ n \notin Reachable(Without(m))
BY DEF Dominates, Without

LEMMA ReachableOn ==
    ASSUME NEW E, NEW a \in Reachable(E), NEW b \in Blocks, <<a, b>> \in E
    PROVE  b \in Reachable(E)
BY ReachableLeads, LeadsOn

LEMMA WithoutEdge ==
    ASSUME NEW m, NEW a, NEW b, a # m, <<a, b>> \in Edges(g)
    PROVE  <<a, b>> \in Without(m) /\ b \in Blocks
BY DEF Without, Edges

(* A node that dominates another one is numbered before it.                *)
LEMMA DominatorIsHigher ==
    ASSUME Numbered, NEW d \in Reached, NEW b \in Reached, Dominates(d, b)
    PROVE  rpost[d] <= rpost[b]
<1>1. d \in Blocks /\ rpost[d] \in 1..NBlocks /\ rpost[b] \in 1..NBlocks /\ NBlocks \in Nat
  BY NBlocksAssumption DEF Numbered
<1>2. SUFFICES ASSUME rpost[b] < rpost[d]
               PROVE  FALSE
  BY <1>1
<1>3. d # ENTRY_BLOCK /\ d # b
  BY <1>1, <1>2 DEF Numbered
<1>4. b \notin Reachable(Without(d))
  BY <1>3, DominatesMeans
<1> DEFINE T == {n \in Nat : n < rpost[d] /\ \E c \in Reached : rpost[c] = n /\ c \notin Reachable(Without(d))}
<1>5. T \subseteq Nat /\ rpost[b] \in T
  BY <1>1, <1>2, <1>4
<1>6. PICK n \in T : \A k \in T : n <= k
  <2> HIDE DEF T
  <2> QED BY <1>5, LeastNumber
<1>7. PICK c \in Reached : rpost[c] = n /\ c \notin Reachable(Without(d))
  BY <1>6
<1>8. n \in Nat /\ n < rpost[d] /\ c \in Blocks
  BY <1>6 DEF Numbered
<1>9. c # ENTRY_BLOCK
  BY <1>7, EntryIsBlock DEF Reachable
<1>10. PICK a \in Reached : <<a, c>> \in Edges(g) /\ rpost[a] < rpost[c]
  BY <1>9 DEF Numbered
<1>11. rpost[a] \in Nat /\ a # d
  BY <1>7, <1>8, <1>10 DEF Numbered
<1>12. a \in Reachable(Without(d))
  BY <1>1, <1>6, <1>7, <1>8, <1>10, <1>11
<1>13. c \in Reachable(Without(d))
  BY <1>8, <1>10, <1>11, <1>12, WithoutEdge, ReachableOn
<1> QED BY <1>7, <1>13

(* What dominates a node dominates the nodes its edges come from.          *)
LEMMA DominatesPred ==
    ASSUME NEW m, NEW b \in Blocks, NEW q, <<q, b>> \in Edges(g), m # b, Dominates(m, b)
    PROVE  Dominates(m, q)
<1>1. CASE m = ENTRY_BLOCK \/ m = q
  BY <1>1, DominatesMeans
<1>2. CASE m # ENTRY_BLOCK /\ m # q
  <2>1. b \notin Reachable(Without(m))
    BY <1>2, DominatesMeans
  <2>2. q \notin Reachable(Without(m))
    BY <1>2, <2>1, WithoutEdge, ReachableOn
  <2> QED BY <2>2, DominatesMeans
<1> QED BY <1>1, <1>2

-----------------------------------------------------------------------------
(* What climbing the tree keeps *)

LEMMA AboveIsHigher ==
    ASSUME IDomTree, NEW b \in Computed, NEW x, Above(b, x)
    PROVE  x \in Computed /\ rpost[x] <= rpost[b]
<1> DEFINE S == {y \in Computed : rpost[y] <= rpost[b]}
<1>1. S \subseteq Blocks
  BY DEF Computed
<1>2. b \in S
  BY ComputedNodes
<1>3. ASSUME NEW y \in S
      PROVE  IDOM[y] \in S
  <2>1. /\ y \in Computed /\ rpost[y] <= rpost[b] /\ rpost[y] \in 1..NBlocks
        /\ rpost[b] \in 1..NBlocks /\ NBlocks \in Nat
    BY ComputedNodes, NBlocksAssumption
  <2>2. IDOM[y] \in Computed /\ rpost[IDOM[y]] \in 1..NBlocks
    BY <2>1, ComputedNodes
  <2>3. CASE y = ENTRY_BLOCK
    BY <2>3, <2>1, <2>2 DEF IDomTree
  <2>4. CASE y # ENTRY_BLOCK
    BY <2>1, <2>2, <2>4, ComputedNodes
  <2> QED BY <2>3, <2>4
<1> HIDE DEF S
<1>4. x \in S
  BY <1>1, <1>2, <1>3 DEF Above
<1> QED BY <1>4 DEF S

LEMMA AboveBut ==
    ASSUME NEW b \in Computed, NEW x, x # b, Above(b, x), IDOM[b] \in Blocks, b \in Blocks
    PROVE  Above(IDOM[b], x)
<1> SUFFICES ASSUME NEW S \in SUBSET Blocks, IDOM[b] \in S, \A y \in S \cap Computed : IDOM[y] \in S
             PROVE  x \in S
  BY DEF Above
<1> DEFINE R == S \cup {b}
<1>1. R \in SUBSET Blocks /\ b \in R /\ \A y \in R \cap Computed : IDOM[y] \in R
  OBVIOUS
<1>2. x \in R
  <2> HIDE DEF R
  <2> QED BY <1>1 DEF Above
<1> QED BY <1>2

LEMMA AboveEntry ==
    ASSUME IDomTree, NEW x, Above(ENTRY_BLOCK, x)
    PROVE  x = ENTRY_BLOCK
<1>1. {ENTRY_BLOCK} \subseteq Blocks /\ IDOM[ENTRY_BLOCK] = ENTRY_BLOCK
  BY EntryIsBlock DEF IDomTree
<1> QED BY <1>1 DEF Above

(* x is an ancestor of all of Q, and below every node that dominates them  *)
(* all.                                                                    *)
Best(Q, x) ==
    /\ x \in Computed
    /\ \A q \in Q : Above(q, x)
    /\ \A d \in Reached : (\A q \in Q : Dominates(d, q)) => Dominates(d, x)

LEMMA MeetIsBest ==
    ASSUME IDomTree, Sound, NEW m \in Computed, NEW n \in Computed
    PROVE  Best({m, n}, Intersect(m, n))
<1>1. PICK h : /\ \A f \in Fingers : h[f] = IF f[1] = f[2] THEN f[1] ELSE h[Climbed(f)]
               /\ \A a, b : Intersect(a, b) = h[<<a, b>>]
  BY MeetFound
<1> DEFINE T == {r \in Nat : \E f \in Fingers : Rank(f) = r /\ ~Best({f[1], f[2]}, h[f])}
<1>2. ASSUME T # {}
      PROVE  FALSE
  <2>1. PICK r \in T : \A s \in T : r <= s
    <3> HIDE DEF T
    <3>1. T \subseteq Nat
      BY DEF T
    <3> QED BY <1>2, <3>1, LeastNumber
  <2>2. PICK f \in Fingers : Rank(f) = r /\ ~Best({f[1], f[2]}, h[f])
    BY <2>1
  <2>3. PICK a \in Computed, b \in Computed : f = <<a, b>> /\ f[1] = a /\ f[2] = b
    BY DEF Fingers
  <2>4. CASE a = b
    <3>1. h[f] = a
      BY <1>1, <2>3, <2>4
    <3>2. Best({f[1], f[2]}, a)
      BY <2>3, <2>4, AboveItself DEF Best
    <3> QED BY <2>2, <3>1, <3>2
  <2>5. CASE a # b
    <3>1. /\ Climbed(f) \in Fingers /\ Rank(Climbed(f)) < r /\ Rank(Climbed(f)) \in Nat /\ r \in Nat
          /\ rpost[a] > rpost[b] => a # ENTRY_BLOCK
          /\ ~(rpost[a] > rpost[b]) => b # ENTRY_BLOCK /\ rpost[a] < rpost[b]
      BY <2>2, <2>3, <2>5, ClimbedIsLower, RankType
    <3>2. Rank(Climbed(f)) \notin T
      BY <2>1, <3>1
    <3> DEFINE c == Climbed(f)[1]
               e == Climbed(f)[2]
    <3>3. h[f] = h[Climbed(f)] /\ Best({c, e}, h[f])
      BY <1>1, <2>3, <2>5, <3>1, <3>2
    <3>4. /\ a \in Reached /\ b \in Reached /\ rpost[a] \in 1..NBlocks /\ rpost[b] \in 1..NBlocks
          /\ IDOM[a] \in Computed /\ IDOM[b] \in Computed
      BY ComputedNodes
    <3>5. Numbered /\ NBlocks \in Nat
      BY NBlocksAssumption DEF IDomTree
    <3>6. CASE rpost[a] > rpost[b]
      <4>1. c = IDOM[a] /\ e = b /\ a # ENTRY_BLOCK
        BY <2>3, <3>1, <3>6 DEF Climbed
      <4> HIDE DEF c, e
      <4>2. Above(a, h[f])
        BY <3>3, <4>1, AboveIDom, AboveChain DEF Best
      <4>3. ASSUME NEW d \in Reached, Dominates(d, a), Dominates(d, b)
            PROVE  Dominates(d, IDOM[a])
        <5>1. rpost[d] <= rpost[b] /\ rpost[d] \in 1..NBlocks
          BY <3>4, <3>5, <4>3, DominatorIsHigher DEF Numbered
        <5>2. d # a
          BY <3>4, <3>5, <3>6, <5>1
        <5> QED BY <4>1, <4>3, <5>2 DEF Sound
      <4>4. Best({a, b}, h[f])
        BY <3>3, <4>1, <4>2, <4>3 DEF Best
      <4> QED BY <2>2, <2>3, <4>4
    <3>7. CASE ~(rpost[a] > rpost[b])
      <4>1. c = a /\ e = IDOM[b] /\ b # ENTRY_BLOCK /\ rpost[a] < rpost[b]
        BY <2>3, <3>1, <3>7 DEF Climbed
      <4> HIDE DEF c, e
      <4>2. Above(b, h[f])
        BY <3>3, <4>1, AboveIDom, AboveChain DEF Best
      <4>3. ASSUME NEW d \in Reached, Dominates(d, a), Dominates(d, b)
            PROVE  Dominates(d, IDOM[b])
        <5>1. rpost[d] <= rpost[a] /\ rpost[d] \in 1..NBlocks
          BY <3>4, <3>5, <4>3, DominatorIsHigher DEF Numbered
        <5>2. d # b
          BY <3>4, <3>5, <4>1, <5>1
        <5> QED BY <4>1, <4>3, <5>2 DEF Sound
      <4>4. Best({a, b}, h[f])
        BY <3>3, <4>1, <4>2, <4>3 DEF Best
      <4> QED BY <2>2, <2>3, <4>4
    <3> QED BY <3>6, <3>7
  <2> QED BY <2>4, <2>5
<1>3. <<m, n>> \in Fingers /\ Rank(<<m, n>>) \in Nat
  BY RankType DEF Fingers
<1>4. <<m, n>>[1] = m /\ <<m, n>>[2] = n
  OBVIOUS
<1>5. Best({m, n}, h[<<m, n>>])
  BY <1>2, <1>3, <1>4
<1> QED BY <1>1, <1>5

-----------------------------------------------------------------------------
(* The common ancestor of the predecessors *)

IsAncestor(h, preds, n) ==
    h = [k \in 0..n |-> IF k = 0 THEN NoNode
                        ELSE IF preds[k] \notin Computed THEN h[k - 1]
                        ELSE IF h[k - 1] = NoNode THEN preds[k]
                        ELSE Intersect(preds[k], h[k - 1])]

(* What the next predecessor makes of the ancestor so far. *)
WithPred(p, x) ==
    IF p \notin Computed THEN x ELSE IF x = NoNode THEN p ELSE Intersect(p, x)

LEMMA AncestorCollects ==
    ASSUME NEW h, NEW preds, NEW n
    PROVE  IsAncestor(h, preds, n) <=>
               h = [k \in 0..n |-> IF k = 0 THEN NoNode ELSE WithPred(preds[k], h[k - 1])]
BY DEF IsAncestor, WithPred

LEMMA AncestorDefined ==
    ASSUME NEW preds, NEW n \in Nat
    PROVE  \E h : IsAncestor(h, preds, n)
<1> DEFINE T == {m \in Nat : ~\E h : IsAncestor(h, preds, m)}
<1>1. SUFFICES ASSUME T # {}
               PROVE  FALSE
  OBVIOUS
<1>2. PICK m \in T : \A y \in T : m <= y
  <2> HIDE DEF T
  <2>1. T \subseteq Nat
    BY DEF T
  <2> QED BY <1>1, <2>1, LeastNumber
<1>3. CASE m = 0
  <2> DEFINE k == [x \in 0..0 |-> NoNode]
  <2>1. k = [x \in 0..0 |-> IF x = 0 THEN NoNode ELSE WithPred(preds[x], k[x - 1])]
    OBVIOUS
  <2> HIDE DEF k
  <2>2. IsAncestor(k, preds, 0)
    BY <2>1, AncestorCollects
  <2> QED BY <1>2, <1>3, <2>2
<1>4. CASE m # 0
  <2>1. m - 1 \in Nat /\ m - 1 \notin T
    BY <1>2, <1>4
  <2>2. PICK h : IsAncestor(h, preds, m - 1)
    BY <2>1
  <2> DEFINE k == [x \in 0..m |-> IF x # m THEN h[x] ELSE WithPred(preds[m], h[m - 1])]
  <2>3. ASSUME NEW x \in 0..m
        PROVE  k[x] = IF x = 0 THEN NoNode ELSE WithPred(preds[x], k[x - 1])
    <3>1. m \in Nat /\ (x = m \/ x \in 0..(m - 1)) /\ (x = 0 \/ x - 1 \in 0..(m - 1))
      BY <1>2
    <3>2. \A y \in 0..(m - 1) : k[y] = h[y]
      BY <1>2
    <3>3. \A y \in 0..(m - 1) : h[y] = IF y = 0 THEN NoNode ELSE WithPred(preds[y], h[y - 1])
      BY <2>2, AncestorCollects
    <3>4. k[m] = WithPred(preds[m], h[m - 1])
      BY <1>2
    <3> HIDE DEF k
    <3>5. CASE x = m
      BY <1>4, <3>1, <3>2, <3>4, <3>5
    <3>6. CASE x \in 0..(m - 1)
      BY <3>1, <3>2, <3>3, <3>6
    <3> QED BY <3>1, <3>5, <3>6
  <2>4. k = [x \in 0..m |-> k[x]]
    OBVIOUS
  <2> HIDE DEF k
  <2>5. k = [x \in 0..m |-> IF x = 0 THEN NoNode ELSE WithPred(preds[x], k[x - 1])]
    BY <2>3, <2>4
  <2>6. IsAncestor(k, preds, m)
    BY <2>5, AncestorCollects
  <2> QED BY <1>2, <2>6
<1> QED BY <1>3, <1>4

LEMMA NotANode == \A b \in Computed : b # NoNode /\ b \in Blocks
BY NBlocksAssumption DEF Computed, Blocks, NoNode

LEMMA BestOfMore ==
    ASSUME NEW Q, NEW x, Best(Q, x), NEW p, NEW y, Best({p, x}, y)
    PROVE  Best(Q \cup {p}, y)
<1>1. \A q \in Q \cup {p} : Above(q, y)
  BY AboveChain DEF Best
<1>2. ASSUME NEW d \in Reached, \A q \in Q \cup {p} : Dominates(d, q)
      PROVE  Dominates(d, y)
  <2>1. Dominates(d, p) /\ \A q \in Q : Dominates(d, q)
    BY <1>2
  <2>2. Dominates(d, x)
    BY <2>1 DEF Best
  <2> QED BY <2>1, <2>2 DEF Best
<1> QED BY <1>1, <1>2 DEF Best

(* The best ancestor of some nodes, if there are any.                      *)
BestIfAny(Q, x) == IF Q = {} THEN x = NoNode ELSE Best(Q, x)

LEMMA WithPredIsBest ==
    ASSUME IDomTree, Sound, NEW Q, NEW x, BestIfAny(Q, x), NEW p
    PROVE  BestIfAny(Q \cup ({p} \cap Computed), WithPred(p, x))
<1>1. CASE p \notin Computed
  BY <1>1 DEF WithPred
<1>2. CASE p \in Computed /\ Q = {}
  <2>1. WithPred(p, x) = p
    BY <1>2 DEF WithPred, BestIfAny
  <2>2. Best({p}, p)
    BY <1>2, AboveItself DEF Best
  <2>3. Q \cup ({p} \cap Computed) = {p}
    BY <1>2
  <2> QED BY <2>1, <2>2, <2>3 DEF BestIfAny
<1>3. CASE p \in Computed /\ Q # {}
  <2>1. Best(Q, x) /\ x \in Computed /\ x # NoNode
    BY <1>3, NotANode DEF BestIfAny, Best
  <2>2. WithPred(p, x) = Intersect(p, x)
    BY <1>3, <2>1 DEF WithPred
  <2>3. Best(Q \cup {p}, Intersect(p, x))
    BY <1>3, <2>1, MeetIsBest, BestOfMore
  <2>4. Q \cup ({p} \cap Computed) = Q \cup {p} /\ Q \cup {p} # {}
    BY <1>3
  <2> QED BY <2>2, <2>3, <2>4 DEF BestIfAny
<1> QED BY <1>1, <1>2, <1>3

ComputedPreds(b) == {q \in Computed : <<q, b>> \in Edges(g)}

LEMMA NewIDomIsBest ==
    ASSUME IDomTree, Sound, NEW b \in Blocks
    PROVE  BestIfAny(ComputedPreds(b), NewIDom(b))
<1> DEFINE preds == g.preds[b]
           n == Len(preds)
           h == CHOOSE x : IsAncestor(x, preds, n)
<1>1. preds \in Seq(Blocks) /\ n \in Nat /\ DOMAIN preds = 1..n
  BY DEF IDomTree, Numbered, Graphs
<1>2. IsAncestor(h, preds, n)
  BY <1>1, AncestorDefined
<1>3. NewIDom(b) = h[n]
  BY DEF NewIDom, IsAncestor
<1>4. Range(preds) = {a \in Blocks : <<a, b>> \in Edges(g)}
  BY DEF IDomTree, Numbered, Mirror
<1> HIDE DEF h, n, preds
<1>5. \A k \in 0..n : h[k] = IF k = 0 THEN NoNode ELSE WithPred(preds[k], h[k - 1])
  BY <1>2, AncestorCollects
<1> DEFINE Q(k) == {preds[j] : j \in 1..k} \cap Computed
           T == {k \in 0..n : ~BestIfAny(Q(k), h[k])}
<1>6. ASSUME T # {}
      PROVE  FALSE
  <2>1. PICK k \in T : \A y \in T : k <= y
    <3>1. T \subseteq Nat
      BY <1>1
    <3> HIDE DEF T
    <3> QED BY <1>6, <3>1, LeastNumber
  <2>2. k \in 0..n /\ k \in Nat /\ ~BestIfAny(Q(k), h[k])
    BY <1>1, <2>1
  <2>3. CASE k = 0
    <3>1. Q(k) = {} /\ h[k] = NoNode
      BY <1>1, <1>5, <2>3
    <3> QED BY <2>2, <3>1 DEF BestIfAny
  <2>4. CASE k # 0
    <3>1. k - 1 \in 0..n /\ k - 1 < k
      BY <1>1, <2>2, <2>4
    <3>2. BestIfAny(Q(k - 1), h[k - 1])
      <4>1. k - 1 \notin T
        <5> HIDE DEF T
        <5>1. \A y \in T : y \in Nat
          BY <1>1 DEF T
        <5> QED BY <2>1, <2>2, <3>1, <5>1
      <4> HIDE DEF Q
      <4> QED BY <3>1, <4>1
    <3>3. h[k] = WithPred(preds[k], h[k - 1])
      BY <1>5, <2>2, <2>4
    <3>4. Q(k) = Q(k - 1) \cup ({preds[k]} \cap Computed)
      <4>1. 1..k = (1..(k - 1)) \cup {k}
        BY <2>2, <2>4
      <4>2. {preds[j] : j \in 1..k} = {preds[j] : j \in 1..(k - 1)} \cup {preds[k]}
        BY <4>1
      <4> QED BY <4>2
    <3> HIDE DEF Q
    <3>5. BestIfAny(Q(k), h[k])
      BY <3>2, <3>3, <3>4, WithPredIsBest
    <3> QED BY <2>2, <3>5
  <2> QED BY <2>3, <2>4
<1>7. BestIfAny(Q(n), h[n])
  <2>1. n \notin T
    <3> HIDE DEF T
    <3> QED BY <1>6
  <2>2. n \in 0..n
    BY <1>1
  <2> HIDE DEF Q
  <2> QED BY <2>1, <2>2
<1>8. {preds[j] : j \in 1..n} = Range(preds)
  BY <1>1 DEF Range
<1>9. Q(n) = ComputedPreds(b)
  BY <1>4, <1>8, NotANode DEF ComputedPreds
<1> QED BY <1>3, <1>7, <1>9

-----------------------------------------------------------------------------
(* The inductive invariant of the sweeps *)

Ascending ==
    /\ order \in [Blocks -> Blocks] /\ Range(order) = Blocks
    /\ \A j, k \in Blocks : j <= k => rpost[order[j]] <= rpost[order[k]]

(* The nodes this sweep has visited have an immediate dominator, and as    *)
(* long as nothing changes it is the one their predecessors call for.      *)
Swept ==
    \A k \in 1..(pos - 1) :
        /\ order[k] \in Reached => order[k] \in Computed
        /\ ~changed /\ order[k] # ENTRY_BLOCK => IDOM[order[k]] = NewIDom(order[k])

Computing ==
    /\ Classified /\ Ascending /\ pos \in 1..(NBlocks + 1)
    /\ IDomTree /\ Sound /\ Swept

DomIInv == IInv /\ (order # <<>> => Computing)

LEMMA GraphSame ==
    ASSUME UNCHANGED vars
    PROVE  /\ Numbered' = Numbered /\ Reached' = Reached /\ Classified' = Classified
           /\ \A m, n : Dominates(m, n)' <=> Dominates(m, n)
<1>1. g' = g /\ pre' = pre /\ rpost' = rpost /\ calls' = calls /\ state' = state
  BY DEF vars
<1>2. Reached' = Reached
  BY <1>1 DEF Reached
<1>3. \A m, n : Dominates(m, n)' <=> Dominates(m, n)
  BY <1>1 DEF Dominates
<1>4. Numbered' = Numbered
  BY <1>1, <1>2 DEF Numbered
<1> QED BY <1>1, <1>2, <1>3, <1>4 DEF Classified

LEMMA NewIDomSame ==
    ASSUME UNCHANGED <<g, rpost, IDOM>>, NEW b
    PROVE  NewIDom(b)' = NewIDom(b)
BY DEF NewIDom, Intersect, Computed

LEMMA SortedAscends ==
    ASSUME rpost \in [Blocks -> Nat], NEW s \in Sorted, NEW j \in Blocks, NEW k \in Blocks, j <= k
    PROVE  rpost[s[j]] <= rpost[s[k]]
<1>1. /\ s \in [Blocks -> Blocks] /\ NBlocks \in Nat /\ j \in Nat /\ k \in Nat /\ Blocks = 1..NBlocks
      /\ \A i \in 1..(NBlocks - 1) : rpost[s[i]] <= rpost[s[i + 1]]
  <2>1. s \in [Blocks -> Blocks] /\ \A i \in 1..(NBlocks - 1) : rpost[s[i]] <= rpost[s[i + 1]]
    BY DEF Sorted
  <2>2. NBlocks \in Nat /\ j \in Nat /\ k \in Nat /\ Blocks = 1..NBlocks
    BY NBlocksAssumption DEF Blocks
  <2> QED BY <2>1, <2>2
<1> DEFINE T == {i \in Nat : i \in Blocks /\ j <= i /\ ~(rpost[s[j]] <= rpost[s[i]])}
<1>2. ASSUME T # {}
      PROVE  FALSE
  <2>1. PICK i \in T : \A y \in T : i <= y
    <3>1. T \subseteq Nat
      OBVIOUS
    <3> HIDE DEF T
    <3> QED BY <1>2, <3>1, LeastNumber
  <2>2. i \in Nat /\ i \in Blocks /\ j <= i /\ ~(rpost[s[j]] <= rpost[s[i]])
    BY <2>1
  <2>3. rpost[s[j]] \in Nat /\ rpost[s[i]] \in Nat
    BY <1>1, <2>2
  <2>4. i # j
    BY <2>2, <2>3
  <2>5. i - 1 \in Nat /\ i - 1 \in Blocks /\ j <= i - 1 /\ i - 1 \in 1..(NBlocks - 1) /\ i - 1 + 1 = i
    BY <1>1, <2>2, <2>4
  <2>6. i - 1 \notin T
    <3> HIDE DEF T
    <3> QED BY <2>1, <2>2, <2>5
  <2>7. rpost[s[j]] <= rpost[s[i - 1]] /\ rpost[s[i - 1]] <= rpost[s[i]] /\ rpost[s[i - 1]] \in Nat
    BY <1>1, <2>5, <2>6
  <2> QED BY <2>2, <2>3, <2>7
<1> QED BY <1>1, <1>2

LEMMA StartComputes ==
    ASSUME IInv, Start
    PROVE  Computing'
<1>1. /\ UNCHANGED vars /\ rpost' = rpost /\ Classified /\ pos' = 1 /\ order' \in Sorted
      /\ IDOM' = [b \in Blocks |-> IF b = ENTRY_BLOCK THEN ENTRY_BLOCK ELSE NoNode]
  BY DEF Start, vars
<1>2. Numbered /\ Numbered' /\ Classified' /\ Reached' = Reached
  BY <1>1, GraphSame, ClassifiedIsNumbered
<1>3. Ascending'
  <2>1. rpost \in [Blocks -> Nat]
    BY <1>2 DEF Numbered
  <2>2. order' \in [Blocks -> Blocks] /\ Range(order') = Blocks
    BY <1>1 DEF Sorted
  <2>3. \A j, k \in Blocks : j <= k => rpost[order'[j]] <= rpost[order'[k]]
    BY <1>1, <2>1, SortedAscends
  <2> QED BY <1>1, <2>2, <2>3 DEF Ascending
<1>4. Computed' = {ENTRY_BLOCK}
  BY <1>1, EntryIsBlock, NBlocksAssumption DEF Computed, NoNode, ENTRY_BLOCK
<1>5. IDomTree'
  BY <1>1, <1>2, <1>4, EntryIsBlock DEF IDomTree
<1>6. Sound'
  BY <1>4 DEF Sound
<1>7. pos' \in 1..(NBlocks + 1) /\ 1..(pos' - 1) = {}
  BY <1>1, NBlocksAssumption
<1> QED BY <1>2, <1>3, <1>5, <1>6, <1>7 DEF Computing, Swept

LEMMA SweepComputes ==
    ASSUME Computing, NextSweep
    PROVE  Computing'
<1>1. UNCHANGED <<vars, order, IDOM>> /\ rpost' = rpost /\ pos' = 1
  BY DEF NextSweep, vars
<1>2. /\ Numbered' = Numbered /\ Classified' = Classified /\ Reached' = Reached /\ Computed' = Computed
      /\ \A m, n : Dominates(m, n)' <=> Dominates(m, n)
  BY <1>1, GraphSame DEF Computed
<1>3. Ascending'
  BY <1>1 DEF Computing, Ascending
<1>4. IDomTree' /\ Sound'
  BY <1>1, <1>2 DEF Computing, IDomTree, Sound
<1>5. pos' \in 1..(NBlocks + 1) /\ 1..(pos' - 1) = {}
  BY <1>1, NBlocksAssumption
<1> QED BY <1>2, <1>3, <1>4, <1>5 DEF Computing, Swept

(* When a node is visited the nodes before it have been, and one of them   *)
(* is a predecessor: there is an ancestor, and it comes before the node.   *)
LEMMA VisitFinds ==
    ASSUME Computing, AtNode, order[pos] # ENTRY_BLOCK
    PROVE  /\ order[pos] \notin Reached => NewIDom(order[pos]) = NoNode
           /\ order[pos] \in Reached =>
                  /\ Best(ComputedPreds(order[pos]), NewIDom(order[pos]))
                  /\ rpost[NewIDom(order[pos])] < rpost[order[pos]]
<1> DEFINE b == order[pos]
<1>1. /\ Numbered /\ IDomTree /\ Sound /\ Swept /\ Ascending /\ NBlocks \in Nat
      /\ pos \in Blocks /\ b \in Blocks /\ b # ENTRY_BLOCK
  BY NBlocksAssumption DEF Computing, AtNode, IDomTree, Ascending, Blocks
<1> HIDE DEF b
<1>2. BestIfAny(ComputedPreds(b), NewIDom(b))
  BY <1>1, NewIDomIsBest
<1>3. CASE b \notin Reached
  <2>1. ASSUME NEW q \in ComputedPreds(b)
        PROVE  FALSE
    <3>1. q \in Computed /\ <<q, b>> \in Edges(g)
      BY DEF ComputedPreds
    <3>2. q \in Reached
      BY <1>1, <3>1, ComputedNodes
    <3> QED BY <1>1, <1>3, <3>1, <3>2 DEF Numbered
  <2> QED BY <1>2, <1>3, <2>1 DEF BestIfAny, b
<1>4. CASE b \in Reached
  <2>1. PICK a \in Reached : <<a, b>> \in Edges(g) /\ rpost[a] < rpost[b]
    BY <1>1, <1>4 DEF Numbered
  <2>2. a \in Blocks /\ rpost[a] \in Nat /\ rpost[b] \in Nat
    BY <1>1 DEF Numbered
  <2>3. PICK j \in Blocks : order[j] = a
    BY <1>1, <2>2 DEF Ascending, Range
  <2>4. ~(pos <= j)
    BY <1>1, <2>1, <2>2, <2>3 DEF Ascending, b
  <2>5. j \in 1..(pos - 1)
    BY <1>1, <2>4 DEF Blocks
  <2>6. a \in Computed
    BY <1>1, <2>3, <2>5 DEF Swept
  <2>7. a \in ComputedPreds(b)
    BY <2>1, <2>6 DEF ComputedPreds
  <2>8. Best(ComputedPreds(b), NewIDom(b))
    BY <1>2, <2>7 DEF BestIfAny
  <2>9. NewIDom(b) \in Computed /\ rpost[NewIDom(b)] <= rpost[a]
    BY <1>1, <2>6, <2>7, <2>8, AboveIsHigher DEF Best
  <2>10. rpost[NewIDom(b)] \in 1..NBlocks
    BY <1>1, <2>9, ComputedNodes
  <2> QED BY <1>1, <1>4, <2>1, <2>2, <2>8, <2>9, <2>10 DEF b
<1> QED BY <1>3, <1>4 DEF b

LEMMA VisitSweeps ==
    ASSUME Computing, Visit, order[pos] \in Reached => order[pos] \in Computed',
           ~changed' => IDOM' = IDOM /\ ~changed /\ (order[pos] # ENTRY_BLOCK => IDOM[order[pos]] = NewIDom(order[pos])),
           Computed \subseteq Computed'
    PROVE  Swept'
<1>1. UNCHANGED <<vars, order>> /\ g' = g /\ rpost' = rpost /\ order' = order /\ pos' = pos + 1
      /\ pos \in 1..(NBlocks + 1) /\ NBlocks \in Nat
  BY NBlocksAssumption DEF Visit, vars, Computing
<1>2. Reached' = Reached
  BY <1>1, GraphSame
<1> SUFFICES ASSUME NEW k \in 1..(pos' - 1)
             PROVE  /\ order[k] \in Reached => order[k] \in Computed'
                    /\ ~changed' /\ order[k] # ENTRY_BLOCK => IDOM'[order[k]] = NewIDom(order[k])'
  BY <1>1, <1>2 DEF Swept
<1>3. k = pos \/ k \in 1..(pos - 1)
  BY <1>1
<1>4. order[k] \in Reached => order[k] \in Computed'
  BY <1>3 DEF Computing, Swept
<1>5. ASSUME ~changed', order[k] # ENTRY_BLOCK
      PROVE  IDOM'[order[k]] = NewIDom(order[k])'
  <2>1. IDOM' = IDOM /\ ~changed
    BY <1>5
  <2>2. IDOM[order[k]] = NewIDom(order[k])
    BY <1>3, <1>5, <2>1 DEF Computing, Swept
  <2>3. NewIDom(order[k])' = NewIDom(order[k])
    <3>1. \A b : NewIDom(b)' = NewIDom(b)
      BY <1>1, <2>1, NewIDomSame
    <3> QED BY <1>1, <3>1
  <2> QED BY <2>1, <2>2, <2>3
<1> QED BY <1>4, <1>5

LEMMA VisitComputes ==
    ASSUME Computing, Visit
    PROVE  Computing'
<1> DEFINE b == order[pos]
           x == NewIDom(b)
<1>1. /\ UNCHANGED <<vars, order>> /\ g' = g /\ rpost' = rpost /\ AtNode /\ pos' = pos + 1
      /\ IF b = ENTRY_BLOCK THEN UNCHANGED <<IDOM, changed>>
         ELSE IDOM' = [IDOM EXCEPT ![b] = x] /\ changed' = (changed \/ IDOM' # IDOM)
  BY DEF Visit, vars
<1>2. /\ Numbered /\ IDomTree /\ Sound /\ Ascending /\ NBlocks \in Nat /\ pos \in Blocks /\ b \in Blocks
      /\ IDOM \in [Blocks -> Blocks \cup {NoNode}]
  BY <1>1, NBlocksAssumption DEF Computing, AtNode, IDomTree, Ascending, Blocks
<1>3. /\ Numbered' /\ Classified' /\ Reached' = Reached
      /\ \A m, n : Dominates(m, n)' <=> Dominates(m, n)
  BY <1>1, <1>2, GraphSame DEF Computing
<1>4. Ascending' /\ pos' \in 1..(NBlocks + 1)
  BY <1>1, <1>2 DEF Ascending, Blocks
<1>5. CASE b = ENTRY_BLOCK \/ b \notin Reached
  <2>1. IDOM' = IDOM /\ (~changed' => ~changed) /\ (b # ENTRY_BLOCK => IDOM[b] = x)
    <3>1. CASE b = ENTRY_BLOCK
      BY <1>1, <3>1
    <3>2. CASE b # ENTRY_BLOCK
      <4>1. x = NoNode
        BY <1>1, <1>5, <3>2, VisitFinds
      <4>2. b \notin Computed
        BY <1>2, <1>5, <3>2 DEF IDomTree
      <4>3. IDOM[b] = x
        BY <1>2, <4>1, <4>2 DEF Computed
      <4>4. IDOM' = [IDOM EXCEPT ![b] = x] /\ changed' = (changed \/ IDOM' # IDOM)
        BY <1>1, <3>2 DEF Computing
      <4> HIDE DEF b, x
      <4>5. IDOM' = IDOM
        BY <1>2, <4>3, <4>4
      <4> QED BY <4>3, <4>4, <4>5
    <3> QED BY <3>1, <3>2
  <2>2. Computed' = Computed /\ IDomTree'
    BY <1>2, <1>3, <1>1, <2>1 DEF Computed, IDomTree
  <2>3. Sound'
    BY <1>2, <1>3, <2>1, <2>2 DEF Sound
  <2>4. b \in Reached => b \in Computed
    BY <1>2, <1>5, EntryIsBlock, NBlocksAssumption DEF IDomTree, Computed, NoNode, ENTRY_BLOCK
  <2>5. Swept'
    BY <2>1, <2>2, <2>4, VisitSweeps
  <2> QED BY <1>3, <1>4, <2>2, <2>3, <2>5 DEF Computing
<1>6. CASE b # ENTRY_BLOCK /\ b \in Reached
  <2>1. Best(ComputedPreds(b), x) /\ rpost[x] < rpost[b]
    BY <1>1, <1>6, VisitFinds
  <2>2. x \in Computed /\ x \in Blocks /\ x # NoNode /\ x # b /\ rpost[b] \in Nat
    BY <1>2, <2>1, NotANode DEF Best, Numbered
  <2>3. /\ IDOM' = [IDOM EXCEPT ![b] = x] /\ changed' = (changed \/ IDOM' # IDOM)
        /\ IDOM'[b] = x /\ \A c \in Blocks \ {b} : IDOM'[c] = IDOM[c]
    BY <1>1, <1>2, <1>6
  <2> HIDE DEF x
  <2>4. Computed' = Computed \cup {b}
    BY <1>2, <2>2, <2>3 DEF Computed
  <2>5. IDomTree'
    <3>1. IDOM' \in [Blocks -> Blocks \cup {NoNode}]
      BY <1>2, <2>2, <2>3
    <3>2. IDOM'[ENTRY_BLOCK] = ENTRY_BLOCK
      BY <1>2, <1>6, <2>3, EntryIsBlock DEF IDomTree
    <3>3. ASSUME NEW c \in Computed' \ {ENTRY_BLOCK}
          PROVE  c \in Reached /\ IDOM'[c] \in Computed' /\ rpost[IDOM'[c]] < rpost[c]
      <4>1. CASE c = b
        BY <1>6, <2>1, <2>2, <2>3, <2>4, <4>1
      <4>2. CASE c # b
        <5>1. c \in Computed \ {ENTRY_BLOCK} /\ IDOM'[c] = IDOM[c]
          BY <2>3, <2>4, <4>2, NotANode
        <5> QED BY <1>2, <2>4, <5>1 DEF IDomTree
      <4> QED BY <4>1, <4>2
    <3> QED BY <1>1, <1>3, <3>1, <3>2, <3>3 DEF IDomTree
  <2>6. Sound'
    <3> SUFFICES ASSUME NEW c \in Computed' \ {ENTRY_BLOCK}, NEW m \in Reached \ {c}, Dominates(m, c)
                 PROVE  Dominates(m, IDOM'[c])
      BY <1>3 DEF Sound
    <3>1. CASE c = b
      <4>1. \A q \in ComputedPreds(b) : Dominates(m, q)
        BY <1>2, <3>1, DominatesPred DEF ComputedPreds
      <4> QED BY <2>1, <2>3, <3>1, <4>1 DEF Best
    <3>2. CASE c # b
      <4>1. c \in Computed \ {ENTRY_BLOCK} /\ IDOM'[c] = IDOM[c]
        BY <2>3, <2>4, <3>2, NotANode
      <4> QED BY <1>2, <4>1 DEF Sound
    <3> QED BY <3>1, <3>2
  <2>7. Swept'
    <3>1. ~changed' => IDOM' = IDOM /\ ~changed /\ IDOM[b] = x
      BY <2>3
    <3>2. b \in Computed' /\ Computed \subseteq Computed'
      BY <2>4
    <3> QED BY <3>1, <3>2, VisitSweeps DEF x
  <2> QED BY <1>3, <1>4, <2>5, <2>6, <2>7 DEF Computing
<1> QED BY <1>5, <1>6

LEMMA DomInitIInv == DomInit => DomIInv
BY InitIInv DEF DomInit, DomIInv

LEMMA DomNextIInv == DomIInv /\ [DomNext]_<<vars, domVars>> => DomIInv'
<1> SUFFICES ASSUME DomIInv, [DomNext]_<<vars, domVars>>
             PROVE  DomIInv'
  OBVIOUS
<1>1. IInv /\ (order # <<>> => Computing)
  BY DEF DomIInv
<1>2. IInv'
  <2>1. [Next]_vars
    BY DEF DomNext, DomStep, Number, Start, Visit, NextSweep, Change, Over, Next, Finished
  <2> QED BY <1>1, <2>1, NextIInv
<1>3. CASE Number
  <2>1. ~Classified
    BY <1>3 DEF Number, Step, Classify, Descend, PassEdge, Finish, AtEdge, Classified
  <2>2. order' = <<>>
    BY <1>1, <1>3, <2>1 DEF Computing, Number, domVars
  <2> QED BY <1>2, <2>2 DEF DomIInv
<1>4. CASE Change
  BY <1>2, <1>4 DEF Change, domVars, DomIInv
<1>5. CASE Start
  BY <1>1, <1>2, <1>5, StartComputes DEF DomIInv
<1>6. CASE Visit
  BY <1>1, <1>2, <1>6, VisitComputes DEF Visit, AtNode, DomIInv
<1>7. CASE NextSweep
  BY <1>1, <1>2, <1>7, SweepComputes DEF NextSweep, SweepOver, DomIInv
<1>8. CASE UNCHANGED <<vars, domVars>>
  <2>1. /\ UNCHANGED vars /\ g' = g /\ rpost' = rpost /\ order' = order /\ pos' = pos
        /\ IDOM' = IDOM /\ changed' = changed
    BY <1>8 DEF vars, domVars
  <2>2. /\ Numbered' = Numbered /\ Classified' = Classified /\ Reached' = Reached /\ Computed' = Computed
        /\ \A m, n : Dominates(m, n)' <=> Dominates(m, n)
    BY <2>1, GraphSame DEF Computed
  <2>3. \A b : NewIDom(b)' = NewIDom(b)
    BY <2>1, NewIDomSame
  <2>4. Ascending' = Ascending /\ IDomTree' = IDomTree
    BY <2>1, <2>2 DEF Ascending, IDomTree
  <2>5. Sound' = Sound
    BY <2>1, <2>2 DEF Sound
  <2>6. Swept' = Swept
    BY <2>1, <2>2, <2>3 DEF Swept
  <2>7. Computing' = Computing
    BY <2>1, <2>2, <2>4, <2>5, <2>6 DEF Computing
  <2> QED BY <1>1, <1>2, <2>1, <2>7 DEF DomIInv
<1> QED BY <1>3, <1>4, <1>5, <1>6, <1>7, <1>8 DEF DomNext, DomStep, Over

-----------------------------------------------------------------------------
(* What the sweeps end with *)

(* Every node reached has the immediate dominator its predecessors call    *)
(* for.                                                                    *)
Fixed ==
    /\ IDomTree /\ Sound /\ Computed = Reached
    /\ \A b \in Reached \ {ENTRY_BLOCK} : Best(ComputedPreds(b), IDOM[b])

LEMMA OverIsFixed ==
    ASSUME Computing, SweepOver, ~changed
    PROVE  Fixed
<1>1. /\ IDomTree /\ Sound /\ Numbered /\ Ascending /\ NBlocks \in Nat
      /\ \A b \in Reached : b \in Blocks
  BY NBlocksAssumption DEF Computing, IDomTree, Numbered
<1>2. ASSUME NEW b \in Reached
      PROVE  b \in Computed /\ (b # ENTRY_BLOCK => IDOM[b] = NewIDom(b))
  <2>1. PICK k \in Blocks : order[k] = b
    BY <1>1 DEF Ascending, Range
  <2>2. k \in 1..(pos - 1)
    BY <1>1 DEF Computing, SweepOver, Blocks
  <2> QED BY <2>1, <2>2 DEF Computing, Swept
<1>3. Computed = Reached
  BY <1>1, <1>2, ComputedNodes
<1>4. ASSUME NEW b \in Reached \ {ENTRY_BLOCK}
      PROVE  Best(ComputedPreds(b), IDOM[b])
  <2>1. PICK a \in Reached : <<a, b>> \in Edges(g)
    BY <1>1 DEF Numbered
  <2>2. a \in ComputedPreds(b)
    BY <1>2, <2>1 DEF ComputedPreds
  <2> QED BY <1>1, <1>2, <2>2, NewIDomIsBest DEF BestIfAny
<1> QED BY <1>1, <1>3, <1>4 DEF Fixed

(* What is met when climbing from a node dominates it: the nodes below are *)
(* left out of what the entry leads to without it.                         *)
LEMMA AboveDominates ==
    ASSUME Fixed, NEW b \in Reached, NEW m \in Reached, Above(b, m)
    PROVE  Dominates(m, b)
<1>1. /\ Numbered /\ IDomTree /\ b \in Blocks /\ m \in Blocks /\ ENTRY_BLOCK \in Reached
      /\ \A y \in Reached : y \in Blocks
  BY DEF Fixed, IDomTree, Numbered
<1>2. SUFFICES ASSUME m # ENTRY_BLOCK, m # b
               PROVE  b \notin Reachable(Without(m))
  BY DominatesMeans
<1> DEFINE S == {y \in Reached : ~Above(y, m)} \cup {m}
<1>3. S \in SUBSET Blocks /\ b \notin S
  BY <1>1, <1>2
<1>4. ENTRY_BLOCK \in S
  BY <1>1, <1>2, AboveEntry
<1>5. ASSUME NEW y \in Reached, NEW z \in Blocks, <<y, z>> \in Edges(g), y # m, ~Above(y, m)
      PROVE  z \in S
  <2>1. z \in Reached
    BY <1>1, <1>5 DEF Numbered
  <2>2. ASSUME z # m, Above(z, m)
        PROVE  FALSE
    <3>1. z # ENTRY_BLOCK
      BY <1>1, <1>2, <2>2, AboveEntry
    <3>2. z \in Computed /\ y \in Computed /\ IDOM[z] \in Blocks
      BY <2>1, ComputedNodes DEF Fixed
    <3>3. Above(IDOM[z], m)
      BY <2>2, <3>2, AboveBut
    <3>4. Best(ComputedPreds(z), IDOM[z]) /\ y \in ComputedPreds(z)
      BY <1>5, <2>1, <3>1, <3>2 DEF Fixed, ComputedPreds
    <3>5. Above(y, IDOM[z])
      BY <3>4 DEF Best
    <3> QED BY <1>5, <3>3, <3>5, AboveChain
  <2> QED BY <2>1, <2>2
<1>6. Closed(Without(m), S)
  <2> SUFFICES ASSUME NEW e \in Without(m), e[1] \in S
               PROVE  e[2] \in S
    BY DEF Closed
  <2>1. e[1] # m /\ e[2] \in Blocks /\ <<e[1], e[2]>> \in Edges(g)
    BY DEF Without, Edges
  <2> QED BY <1>5, <2>1
<1> HIDE DEF S
<1> QED BY <1>3, <1>4, <1>6 DEF Reachable

LEMMA IdomIsAbove == DomIInv => IdomAbove
<1> SUFFICES ASSUME DomIInv, order # <<>>, NEW b \in Blocks \ {ENTRY_BLOCK}, IDOM[b] # NoNode
             PROVE  rpost[IDOM[b]] < rpost[b] /\ IDOM[IDOM[b]] # NoNode
  BY DEF IdomAbove
<1>1. IDomTree /\ b \in Computed
  BY DEF DomIInv, Computing, Computed
<1> QED BY <1>1 DEF IDomTree, Computed

LEMMA FixpointIsRight == DomIInv => IdomRight
<1> SUFFICES ASSUME DomIInv, SweepOver, ~changed, NEW b \in Blocks \ {ENTRY_BLOCK}
             PROVE  IF b \in Reachable(Edges(g))
                    THEN /\ IDOM[b] \in StrictDominators(b)
                         /\ \A m \in StrictDominators(b) : Dominates(m, IDOM[b])
                    ELSE IDOM[b] = NoNode
  BY DEF IdomRight
<1>1. Computing /\ Fixed
  BY OverIsFixed DEF DomIInv, SweepOver
<1>2. /\ IDomTree /\ Sound /\ Numbered /\ Computed = Reached /\ Reached = Reachable(Edges(g))
      /\ IDOM[b] \in Blocks \cup {NoNode}
  BY <1>1 DEF Fixed, IDomTree, Numbered
<1>3. CASE b \notin Reached
  BY <1>2, <1>3 DEF Computed
<1>4. CASE b \in Reached
  <2>1. b \in Computed /\ IDOM[b] \in Computed /\ rpost[IDOM[b]] < rpost[b] /\ rpost[b] \in 1..NBlocks
    BY <1>2, <1>4, ComputedNodes
  <2>2. IDOM[b] # b
    BY <2>1, NBlocksAssumption
  <2>3. Dominates(IDOM[b], b)
    BY <1>1, <1>2, <1>4, <2>1, AboveIDom, AboveDominates
  <2>4. IDOM[b] \in StrictDominators(b)
    BY <1>2, <2>1, <2>2, <2>3 DEF StrictDominators
  <2>5. ASSUME NEW m \in StrictDominators(b)
        PROVE  Dominates(m, IDOM[b])
    <3>1. m \in Reached \ {b} /\ Dominates(m, b)
      BY <1>2 DEF StrictDominators
    <3> QED BY <1>2, <2>1, <3>1 DEF Sound
  <2> QED BY <1>2, <1>4, <2>4, <2>5
<1> QED BY <1>2, <1>3, <1>4

(* The sweeps over the nodes keep to a tree, and where they end the tree   *)
(* is that of the immediate dominators: for every graph, and whatever      *)
(* order qsort() leaves the nodes in that were not reached.                *)
THEOREM DominatorsFound == DomSpec => []DominatorsRight
<1>1. DomIInv => DominatorsRight
  BY IdomIsAbove, FixpointIsRight DEF DominatorsRight
<1>2. DomSpec => []DomIInv
  BY DomInitIInv, DomNextIInv, PTL DEF DomSpec
<1> QED BY <1>1, <1>2, PTL
=============================================================================
