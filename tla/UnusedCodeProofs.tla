-------------------------- MODULE UnusedCodeProofs --------------------------
(***************************************************************************)
(* Proofs about UnusedCode, for any number of blocks and functions, any    *)
(* code and any nesting of the functions.                                  *)
(***************************************************************************)
EXTENDS UnusedCode, TLAPS

-----------------------------------------------------------------------------
(* Node lists *)

LEMMA AddToList ==
    ASSUME NEW l \in Seq(Blocks), NEW n \in Blocks, NoRepetition(l)
    PROVE  /\ NodeListAdd(l, n) \in Seq(Blocks)
           /\ NoRepetition(NodeListAdd(l, n))
           /\ Range(NodeListAdd(l, n)) = Range(l) \cup {n}
<1>1. CASE n \in Range(l)
  BY <1>1 DEF NodeListAdd
<1>2. CASE n \notin Range(l)
  <2> DEFINE m == Append(l, n)
  <2>1. /\ m \in Seq(Blocks) /\ Len(m) = Len(l) + 1 /\ m[Len(m)] = n
        /\ \A k \in 1..Len(l) : m[k] = l[k]
        /\ DOMAIN m = 1..(Len(l) + 1) /\ DOMAIN l = 1..Len(l) /\ Len(l) \in Nat
    OBVIOUS
  <2>2. NodeListAdd(l, n) = m
    BY <1>2 DEF NodeListAdd
  <2> HIDE DEF m
  <2>3. \A k \in 1..Len(l) : l[k] # n
    BY <1>2, <2>1 DEF Range
  <2>4. NoRepetition(m)
    BY <2>1, <2>3 DEF NoRepetition
  <2>5. Range(m) = Range(l) \cup {n}
    BY <2>1 DEF Range
  <2> QED BY <2>1, <2>2, <2>4, <2>5
<1> QED BY <1>1, <1>2

LEMMA DeleteFromList ==
    ASSUME NEW l \in Seq(Blocks), NEW n \in Blocks, NoRepetition(l)
    PROVE  /\ NodeListDelete(l, n) \in Seq(Blocks)
           /\ NoRepetition(NodeListDelete(l, n))
           /\ Range(NodeListDelete(l, n)) = Range(l) \ {n}
<1>1. CASE n \notin Range(l)
  BY <1>1 DEF NodeListDelete
<1>2. CASE n \in Range(l)
  <2> DEFINE at == CHOOSE k \in DOMAIN l : l[k] = n
             m == [k \in 1..(Len(l) - 1) |-> IF k < at THEN l[k] ELSE l[k + 1]]
  <2>1. at \in 1..Len(l) /\ l[at] = n /\ DOMAIN l = 1..Len(l) /\ Len(l) \in Nat
    BY <1>2 DEF Range
  <2>2. NodeListDelete(l, n) = m
    BY <1>2 DEF NodeListDelete
  <2> HIDE DEF at
  <2>3. Len(l) - 1 \in Nat
    BY <2>1
  <2>4. \A k \in 1..(Len(l) - 1) : m[k] = l[IF k < at THEN k ELSE k + 1]
    BY <2>1
  <2>5. m \in Seq(Blocks) /\ DOMAIN m = 1..(Len(l) - 1)
    BY <2>1, <2>3
  <2> HIDE DEF m
  <2>6. NoRepetition(m)
    <3> SUFFICES ASSUME NEW j \in DOMAIN m, NEW k \in DOMAIN m, m[j] = m[k]
                 PROVE  j = k
      BY DEF NoRepetition
    <3> DEFINE j0 == IF j < at THEN j ELSE j + 1
               k0 == IF k < at THEN k ELSE k + 1
    <3>1. j0 \in DOMAIN l /\ k0 \in DOMAIN l /\ l[j0] = l[k0]
      BY <2>1, <2>4, <2>5
    <3>2. j0 = k0
      BY <3>1 DEF NoRepetition
    <3> QED BY <2>1, <2>5, <3>2
  <2>7. Range(m) \subseteq Range(l) \ {n}
    BY <2>1, <2>4, <2>5 DEF NoRepetition, Range
  <2>8. ASSUME NEW x \in Range(l), x # n
        PROVE  x \in Range(m)
    <3>1. PICK k \in 1..Len(l) : l[k] = x
      BY <2>1 DEF Range
    <3>2. CASE k < at
      BY <2>1, <2>4, <2>5, <3>1, <3>2 DEF Range
    <3>3. CASE k > at
      <4>1. k - 1 \in DOMAIN m /\ m[k - 1] = x
        BY <2>1, <2>4, <2>5, <3>1, <3>3
      <4> QED BY <4>1 DEF Range
    <3>4. k # at
      BY <2>1, <2>8, <3>1
    <3> QED BY <2>1, <3>2, <3>3, <3>4
  <2> QED BY <2>2, <2>5, <2>6, <2>7, <2>8
<1> QED BY <1>1, <1>2

(* What is taken from the front of a list is not left in it.               *)
LEMMA ListGetsShorter ==
    ASSUME NEW l \in Seq(Blocks), l # <<>>, NoRepetition(l)
    PROVE  /\ Head(l) \in Blocks /\ Tail(l) \in Seq(Blocks) /\ NoRepetition(Tail(l))
           /\ Range(Tail(l)) = Range(l) \ {Head(l)}
<1>1. Len(l) \in Nat \ {0} /\ DOMAIN l = 1..Len(l) /\ Head(l) = l[1]
  OBVIOUS
<1>2. /\ Tail(l) \in Seq(Blocks) /\ DOMAIN Tail(l) = 1..(Len(l) - 1)
      /\ \A k \in 1..(Len(l) - 1) : Tail(l)[k] = l[k + 1]
  OBVIOUS
<1>3. \A j, k \in 1..Len(l) : l[j] = l[k] => j = k
  BY <1>1 DEF NoRepetition
<1>4. NoRepetition(Tail(l))
  <2> SUFFICES ASSUME NEW j \in DOMAIN Tail(l), NEW k \in DOMAIN Tail(l), Tail(l)[j] = Tail(l)[k]
               PROVE  j = k
    BY DEF NoRepetition
  <2>1. j + 1 \in 1..Len(l) /\ k + 1 \in 1..Len(l) /\ l[j + 1] = l[k + 1]
    BY <1>1, <1>2
  <2>2. j + 1 = k + 1
    BY <1>3, <2>1
  <2> QED BY <1>1, <1>2, <2>2
<1>5. ASSUME NEW x \in Range(Tail(l))
      PROVE  x \in Range(l) \ {Head(l)}
  <2>1. PICK k \in 1..(Len(l) - 1) : x = l[k + 1]
    BY <1>2 DEF Range
  <2>2. k + 1 \in 1..Len(l) /\ k + 1 # 1 /\ 1 \in 1..Len(l)
    BY <1>1
  <2>3. x # l[1]
    BY <1>3, <2>1, <2>2
  <2> QED BY <1>1, <2>1, <2>2, <2>3 DEF Range
<1>6. ASSUME NEW x \in Range(l), x # Head(l)
      PROVE  x \in Range(Tail(l))
  <2>1. PICK k \in 1..Len(l) : x = l[k]
    BY <1>1 DEF Range
  <2>2. k # 1
    BY <1>1, <1>6, <2>1
  <2>3. k - 1 \in 1..(Len(l) - 1) /\ (k - 1) + 1 = k
    BY <1>1, <2>2
  <2>4. k - 1 \in DOMAIN Tail(l) /\ Tail(l)[k - 1] = x
    BY <1>2, <2>1, <2>3
  <2> QED BY <2>4 DEF Range
<1>7. Head(l) \in Blocks
  BY <1>1
<1> QED BY <1>2, <1>4, <1>5, <1>6, <1>7

-----------------------------------------------------------------------------
(* Graphs *)

LEMMA EdgesOfList ==
    ASSUME NEW h \in Graphs, NEW a \in Blocks, NEW b \in Blocks
    PROVE  <<a, b>> \in Edges(h) <=> b \in Range(h.succs[a])
BY DEF Edges

LEMMA NoEdges == InitGraph \in Graphs /\ Mirror(InitGraph) /\ Edges(InitGraph) = {}
<1>1. \A b \in Blocks : InitGraph.succs[b] = <<>> /\ InitGraph.preds[b] = <<>>
  BY DEF InitGraph
<1>2. Range(<<>>) = {}
  BY DEF Range
<1>3. Edges(InitGraph) = {}
  BY <1>1, <1>2 DEF Edges
<1> QED BY <1>1, <1>2, <1>3 DEF Mirror, NoRepetition, InitGraph, Graphs

(* A graph with new lists at the two ends of an edge.                      *)
Relinked(h, a, b, s, t) == [h EXCEPT !.succs[a] = s, !.preds[b] = t]

SameBut(E, F, e) == \A f \in Blocks \X Blocks : f # e => (f \in E <=> f \in F)
From(E, a) == {x \in Blocks : <<a, x>> \in E}
Into(E, b) == {x \in Blocks : <<x, b>> \in E}

(* The lists fit when they hold the ends of the edges of E, and E differs  *)
(* from what the graph has in this edge only.                              *)
Fits(h, a, b, s, t, E) ==
    /\ h \in Graphs /\ Mirror(h) /\ a \in Blocks /\ b \in Blocks
    /\ s \in Seq(Blocks) /\ NoRepetition(s) /\ Range(s) = From(E, a)
    /\ t \in Seq(Blocks) /\ NoRepetition(t) /\ Range(t) = Into(E, b)
    /\ E \subseteq Blocks \X Blocks /\ SameBut(E, Edges(h), <<a, b>>)

LEMMA MirrorStep ==
    ASSUME NEW h, NEW a, NEW b, NEW s, NEW t, NEW E, Fits(h, a, b, s, t, E)
    PROVE  /\ Relinked(h, a, b, s, t) \in Graphs
           /\ Mirror(Relinked(h, a, b, s, t))
           /\ Edges(Relinked(h, a, b, s, t)) = E
<1> DEFINE k == Relinked(h, a, b, s, t)
<1> USE DEF Fits
<1>1. /\ k.succs = [h.succs EXCEPT ![a] = s] /\ k.preds = [h.preds EXCEPT ![b] = t]
      /\ k \in Graphs /\ k.succs \in [Blocks -> Seq(Blocks)] /\ k.preds \in [Blocks -> Seq(Blocks)]
  BY DEF Graphs, Relinked
<1>2. /\ k.succs[a] = s /\ \A x \in Blocks : x # a => k.succs[x] = h.succs[x]
      /\ k.preds[b] = t /\ \A x \in Blocks : x # b => k.preds[x] = h.preds[x]
  BY <1>1 DEF Graphs
<1> HIDE DEF k
<1>3. ASSUME NEW x \in Blocks, NEW y \in Blocks
      PROVE  y \in Range(k.succs[x]) <=> <<x, y>> \in E
  BY <1>2, EdgesOfList DEF SameBut, From
<1>4. Edges(k) = E
  BY <1>1, <1>3, EdgesOfList DEF Edges
<1>5. Mirror(k)
  <2> SUFFICES ASSUME NEW x \in Blocks
               PROVE  /\ NoRepetition(k.succs[x])
                      /\ NoRepetition(k.preds[x])
                      /\ Range(k.preds[x]) = {y \in Blocks : <<y, x>> \in Edges(k)}
    BY DEF Mirror
  <2>1. NoRepetition(k.succs[x]) /\ NoRepetition(k.preds[x])
    BY <1>2 DEF Mirror
  <2>2. CASE x = b
    BY <1>2, <1>4, <2>1, <2>2 DEF Into
  <2>3. CASE x # b
    <3>1. Range(k.preds[x]) = {y \in Blocks : <<y, x>> \in Edges(h)}
      BY <1>2, <2>3 DEF Mirror
    <3>2. \A y \in Blocks : <<y, x>> \in E <=> <<y, x>> \in Edges(h)
      BY <2>3 DEF SameBut
    <3> QED BY <1>4, <2>1, <3>1, <3>2
  <2> QED BY <2>1, <2>2, <2>3
<1> QED BY <1>1, <1>4, <1>5 DEF k

(* raviX_add_edge() adds the edge to both lists, once.                     *)
LEMMA EdgeAdded ==
    ASSUME NEW h \in Graphs, Mirror(h), NEW a \in Blocks, NEW b \in Blocks
    PROVE  /\ AddEdge(h, a, b) \in Graphs /\ Mirror(AddEdge(h, a, b))
           /\ Edges(AddEdge(h, a, b)) = Edges(h) \cup {<<a, b>>}
<1> DEFINE s == NodeListAdd(h.succs[a], b)
           t == NodeListAdd(h.preds[b], a)
           E == Edges(h) \cup {<<a, b>>}
<1>1. h.succs[a] \in Seq(Blocks) /\ h.preds[b] \in Seq(Blocks)
  BY DEF Graphs
<1>2. NoRepetition(h.succs[a]) /\ NoRepetition(h.preds[b])
  BY DEF Mirror
<1>3. AddEdge(h, a, b) = Relinked(h, a, b, s, t)
  BY DEF AddEdge, Relinked
<1>4. s \in Seq(Blocks) /\ NoRepetition(s) /\ Range(s) = Range(h.succs[a]) \cup {b}
  BY <1>1, <1>2, AddToList
<1>9. t \in Seq(Blocks) /\ NoRepetition(t) /\ Range(t) = Range(h.preds[b]) \cup {a}
  BY <1>1, <1>2, AddToList
<1>5. E \subseteq Blocks \X Blocks /\ SameBut(E, Edges(h), <<a, b>>)
  BY DEF Edges, SameBut
<1>6. Range(h.succs[a]) \subseteq Blocks
  BY <1>1 DEF Range
<1>7. Range(s) = From(E, a)
  BY <1>4, <1>6, EdgesOfList DEF From
<1>8. Range(t) = Into(E, b)
  BY <1>9 DEF Mirror, Into
<1> HIDE DEF s, t, E
<1>10. Fits(h, a, b, s, t, E)
  BY <1>4, <1>5, <1>7, <1>8, <1>9 DEF Fits
<1>11. /\ Relinked(h, a, b, s, t) \in Graphs /\ Mirror(Relinked(h, a, b, s, t))
      /\ Edges(Relinked(h, a, b, s, t)) = E
  BY <1>10, MirrorStep
<1> QED BY <1>3, <1>11 DEF E

(* raviX_delete_edge() deletes it from both.                               *)
LEMMA EdgeDeleted ==
    ASSUME NEW h \in Graphs, Mirror(h), NEW a \in Blocks, NEW b \in Blocks
    PROVE  /\ DeleteEdge(h, a, b) \in Graphs /\ Mirror(DeleteEdge(h, a, b))
           /\ Edges(DeleteEdge(h, a, b)) = Edges(h) \ {<<a, b>>}
<1> DEFINE s == NodeListDelete(h.succs[a], b)
           t == NodeListDelete(h.preds[b], a)
           E == Edges(h) \ {<<a, b>>}
<1>1. h.succs[a] \in Seq(Blocks) /\ h.preds[b] \in Seq(Blocks)
  BY DEF Graphs
<1>2. NoRepetition(h.succs[a]) /\ NoRepetition(h.preds[b])
  BY DEF Mirror
<1>3. DeleteEdge(h, a, b) = Relinked(h, a, b, s, t)
  BY DEF DeleteEdge, Relinked
<1>4. s \in Seq(Blocks) /\ NoRepetition(s) /\ Range(s) = Range(h.succs[a]) \ {b}
  BY <1>1, <1>2, DeleteFromList
<1>9. t \in Seq(Blocks) /\ NoRepetition(t) /\ Range(t) = Range(h.preds[b]) \ {a}
  BY <1>1, <1>2, DeleteFromList
<1>5. E \subseteq Blocks \X Blocks /\ SameBut(E, Edges(h), <<a, b>>)
  BY DEF Edges, SameBut
<1>6. Range(h.succs[a]) \subseteq Blocks
  BY <1>1 DEF Range
<1>7. Range(s) = From(E, a)
  BY <1>4, <1>6, EdgesOfList DEF From
<1>8. Range(t) = Into(E, b)
  BY <1>9 DEF Mirror, Into
<1> HIDE DEF s, t, E
<1>10. Fits(h, a, b, s, t, E)
  BY <1>4, <1>5, <1>7, <1>8, <1>9 DEF Fits
<1>11. /\ Relinked(h, a, b, s, t) \in Graphs /\ Mirror(Relinked(h, a, b, s, t))
      /\ Edges(Relinked(h, a, b, s, t)) = E
  BY <1>10, MirrorStep
<1> QED BY <1>3, <1>11 DEF E

-----------------------------------------------------------------------------
(* The inductive invariant *)

(* The graph under construction has the edges of the blocks before i, and  *)
(* with those still to be added also those of i.                           *)
Constructed ==
    /\ Mirror(g)
    /\ \A a, b \in Blocks :
           b \in Range(g.succs[a]) \/ (a = i /\ b \in Range(todo))
             <=> b \in Range(code[p][a].targets) /\ (a < i \/ (a = i /\ todo # <<>>))
    /\ todo # <<>> => i <= NBlocks /\ code[p][i].kind = "branch"
    /\ \A b \in Blocks : b < i => code[p][b].kind # "other"
    /\ Root <= p /\ p <= last[Root]

(* A function has no graph before the construction of its own, the first   *)
(* one without a graph is the first that raviX_construct_cfg() fails for.  *)
HasGraph(q) == cfg[q] # NoGraph
Fails(q) == \E b \in Blocks : code[q][b].kind = "other"

GraphsInOrder ==
    /\ \A q, r \in Procs : q < r /\ HasGraph(r) => HasGraph(q)
    /\ \A q \in Procs : HasGraph(q) => ~Fails(q)
    /\ phase = "construct" => \A q \in Procs : HasGraph(q) <=> q < p
    /\ phase = "construct" /\ caller # Driver => p = caller /\ Fails(p)
    /\ phase # "construct" => \A q \in Procs :
           ~HasGraph(q) /\ (\A r \in Procs : r < q => HasGraph(r)) => Fails(q)
    /\ phase \in {"process_proc", "sweep", "remove"} => \A q \in Procs : q < p => HasGraph(q)
    /\ phase \in {"sweep", "remove"} => HasGraph(p)

(* Blocks are only removed from a graph, and a block whose removal has     *)
(* begun is entered from such blocks only.                                 *)
Gone(q) == {b \in Blocks : b \in removed[q] \/ InRemoval(q, b)}

Removal ==
    /\ \A q \in Procs : removed[q] # {} => HasGraph(q)
    /\ \A q \in Procs : ENTRY_BLOCK \notin Gone(q) /\ EXIT_BLOCK \notin Gone(q)
    /\ \A q \in Procs : \A e \in CodeEdges(q) : e[2] \in Gone(q) => e[1] \in Gone(q)
    /\ phase = "remove" => i \in Blocks /\ i \notin removed[p] /\ NoRepetition(todo)

(* What a sweep that has changed nothing has seen, and what it leaves.     *)
Entered(q, b) == \E a \in Blocks \ removed[q] : <<a, b>> \in CodeEdges(q)
Kept(q) == Blocks \ (removed[q] \cup {ENTRY_BLOCK, EXIT_BLOCK})
Behind ==
    CASE phase = "construct" -> Root - 1
      [] phase = "done" -> NProcs
      [] OTHER -> p - 1

Swept ==
    /\ phase = "process_proc" => i = 1
    /\ phase = "sweep" /\ ~changed => \A b \in Kept(p) : b < i => Entered(p, b)
    /\ \A q \in Procs : q <= Behind /\ HasGraph(q) => \A b \in Kept(q) : Entered(q, b)

IInv ==
    /\ TypeOK
    /\ phase = "construct" => Constructed
    /\ GraphsInOrder
    /\ Removal
    /\ GraphRight
    /\ Swept

-----------------------------------------------------------------------------
(* What steps outside the removal of a block leave alone *)

LEMMA CodeStays ==
    ASSUME UNCHANGED <<code, last>>, NEW q
    PROVE  CodeEdges(q)' = CodeEdges(q) /\ Fails(q)' = Fails(q)
BY DEF CodeEdges, Fails

LEMMA BlocksStay ==
    ASSUME UNCHANGED <<code, removed>>, NEW q, NEW b
    PROVE  Entered(q, b)' = Entered(q, b) /\ Kept(q)' = Kept(q)
BY DEF Entered, Kept, CodeEdges

LEMMA RemovalStays ==
    ASSUME Removal, UNCHANGED <<code, removed>>, phase # "remove", phase' # "remove",
           \A q \in Procs : HasGraph(q) => HasGraph(q)'
    PROVE  Removal'
<1>1. \A q \in Procs : Gone(q)' = Gone(q) /\ CodeEdges(q)' = CodeEdges(q)
  BY DEF Gone, InRemoval, CodeEdges
<1> QED BY <1>1 DEF Removal

LEMMA GraphsStay ==
    ASSUME GraphRight, UNCHANGED <<code, removed>>, phase # "remove", phase' # "remove",
           NEW q \in Procs, cfg[q]' = cfg[q], cfg[q] # NoGraph
    PROVE  (Mirror(cfg[q]) /\ Edges(cfg[q]) = EdgesLeft(q))'
<1>1. EdgesLeft(q)' = EdgesLeft(q)
  BY DEF EdgesLeft, InRemoval, CodeEdges
<1>2. Mirror(cfg[q]) /\ Edges(cfg[q]) = EdgesLeft(q)
  BY DEF GraphRight
<1>3. Mirror(cfg[q])' /\ Edges(cfg[q])' = Edges(cfg[q])
  BY <1>2 DEF Mirror, Edges, NoRepetition
<1> QED BY <1>1, <1>2, <1>3

(* The graphs are those of before, and no block is in removal.             *)
LEMMA NothingRemoved ==
    ASSUME GraphRight, Removal, UNCHANGED <<code, removed, cfg>>,
           phase # "remove", phase' # "remove"
    PROVE  GraphRight' /\ Removal'
<1>1. \A q \in Procs : HasGraph(q) => HasGraph(q)'
  BY DEF HasGraph
<1>2. Removal'
  BY <1>1, RemovalStays
<1>3. \A q \in Procs : cfg[q]' = cfg[q]
  OBVIOUS
<1>4. GraphRight'
  BY <1>3, GraphsStay DEF GraphRight
<1> QED BY <1>2, <1>4

(* The code of a block.                                                    *)
LEMMA CodeTypes ==
    ASSUME code \in [Procs -> Code], NEW q \in Procs, NEW b \in Blocks
    PROVE  /\ code[q][b].kind \in {"branch", "none", "other"}
           /\ code[q][b].targets \in Seq(Blocks)
           /\ code[q][b].kind = "none" <=> b = EXIT_BLOCK
           /\ code[q][b].targets = <<>> <=> code[q][b].kind # "branch"
<1>1. code[q][b] \in Branches \cup {NoInsn, OtherInsn} /\ (code[q][b] = NoInsn <=> b = EXIT_BLOCK)
  BY DEF Code
<1>2. Targets \subseteq Blocks
  BY DEF Targets
<1>3. ASSUME NEW x \in Branches
      PROVE  x.kind = "branch" /\ x.targets \in Seq(Blocks) /\ x.targets # <<>>
  <2>1. CASE \E t \in Targets : x = Branch(<<t>>)
    BY <1>2, <2>1 DEF Branch
  <2>2. CASE \E c \in CbrTargets : x = Branch(c)
    <3>1. PICK c \in CbrTargets : x = Branch(c)
      BY <2>2
    <3>2. PICK s \in Targets, t \in Targets : c = <<s, t>>
      BY CbrAssumption
    <3>3. s \in Blocks /\ t \in Blocks
      BY <1>2
    <3> QED BY <3>1, <3>2, <3>3 DEF Branch
  <2> QED BY <1>3, <2>1, <2>2 DEF Branches
<1>4. CASE code[q][b] \in Branches
  BY <1>1, <1>3, <1>4 DEF NoInsn
<1>5. CASE code[q][b] = NoInsn
  BY <1>1, <1>5 DEF NoInsn
<1>6. CASE code[q][b] = OtherInsn
  BY <1>1, <1>6 DEF NoInsn, OtherInsn
<1> QED BY <1>1, <1>4, <1>5, <1>6

LEMMA NoGraphIsNone == \A h \in Graphs : h # NoGraph
<1>1. 1 \in Blocks
  BY NBlocksAssumption DEF Blocks
<1> QED BY <1>1 DEF Graphs, NoGraph

(* When the construction of a graph begins.                                *)
LEMMA ConstructionStarts ==
    ASSUME NEW by, NEW q \in Procs, code \in [Procs -> Code], StartConstruct(by, q),
           UNCHANGED <<code, last>>, Root' <= q, q <= last[Root']
    PROVE  Constructed'
<1>1. Mirror(g') /\ g' = InitGraph
  BY NoEdges DEF StartConstruct
<1>2. Mirror(g)'
  BY <1>1 DEF Mirror, Edges, NoRepetition
<1>3. i' = 1 /\ todo' = <<>> /\ p' = q
  BY DEF StartConstruct
<1>4. \A b \in Blocks : ~(b < 1)
  BY DEF Blocks
<1>5. \A a \in Blocks : Range(g'.succs[a]) = {}
  BY <1>1 DEF Range, InitGraph
<1>6. Range(todo') = {}
  BY <1>3 DEF Range
<1> QED BY <1>2, <1>3, <1>4, <1>5, <1>6 DEF Constructed

(* A function that is behind the pass stays as it was left.                *)
LEMMA BehindStays ==
    ASSUME Swept, UNCHANGED <<code, removed>>,
           \A q \in Procs : q <= Behind' /\ HasGraph(q)' => q <= Behind /\ HasGraph(q)
    PROVE  \A q \in Procs : q <= Behind' /\ HasGraph(q)' => \A b \in Kept(q)' : Entered(q, b)'
<1> SUFFICES ASSUME NEW q \in Procs, q <= Behind', HasGraph(q)', NEW b \in Kept(q)'
             PROVE  Entered(q, b)'
  OBVIOUS
<1>1. Entered(q, b)' <=> Entered(q, b)
  BY BlocksStay
<1>2. b \in Kept(q)
  BY DEF Kept
<1> QED BY <1>1, <1>2 DEF Swept

-----------------------------------------------------------------------------
(* The invariant holds of the initial states ...                           *)

LEMMA InitIInv == Init => IInv
<1> SUFFICES ASSUME Init
             PROVE  IInv
  OBVIOUS
<1> USE DEF Init
<1>1. TypeOK
  <2>1. p \in Procs /\ i \in 1..(NBlocks + 1)
    BY NProcsAssumption, NBlocksAssumption DEF Procs
  <2>2. cfg \in [Procs -> Graphs \cup {NoGraph}] /\ removed \in [Procs -> SUBSET Blocks]
    OBVIOUS
  <2>3. g \in Graphs
    BY NoEdges
  <2>4. todo \in Seq(Blocks)
    OBVIOUS
  <2> QED BY <2>1, <2>2, <2>3, <2>4 DEF TypeOK
<1>2. Constructed
  <2>1. \A a \in Blocks : Range(g.succs[a]) = {} /\ ~(a < 1)
    BY DEF Range, InitGraph, Blocks
  <2>2. Range(todo) = {}
    BY DEF Range
  <2>3. Root <= p /\ p <= last[Root]
    BY NProcsAssumption DEF Root, Nestings, Procs
  <2> QED BY <2>1, <2>2, <2>3, NoEdges DEF Constructed
<1>3. \A q \in Procs : ~HasGraph(q)
  BY DEF HasGraph
<1>4. GraphsInOrder
  BY <1>3 DEF GraphsInOrder, Procs
<1>5. Removal /\ GraphRight
  BY <1>3 DEF Removal, GraphRight, Gone, InRemoval, HasGraph
<1>6. Swept
  BY <1>3 DEF Swept
<1> QED BY <1>1, <1>2, <1>4, <1>5, <1>6 DEF IInv

(* ... and every step of the construction of a graph ...                   *)

LEMMA ConstructBlockIInv == IInv /\ ConstructBlock => IInv'
<1> SUFFICES ASSUME IInv, ConstructBlock
             PROVE  IInv'
  OBVIOUS
<1> USE DEF ConstructBlock, Last
<1>1. i \in Blocks /\ p \in Procs
  BY DEF IInv, TypeOK, Blocks
<1>2. /\ code[p][i].kind \in {"branch", "none"}
      /\ code[p][i].targets \in Seq(Blocks)
      /\ code[p][i].targets = <<>> <=> code[p][i].kind # "branch"
  BY <1>1, CodeTypes DEF IInv, TypeOK
<1>3. TypeOK'
  <2>1. i' \in 1..(NBlocks + 1)
    BY <1>1, NBlocksAssumption DEF Blocks
  <2> QED BY <1>2, <2>1 DEF IInv, TypeOK
<1>4. Constructed'
  <2>1. Constructed /\ todo = <<>> /\ Range(<<>>) = {}
    BY DEF IInv, Range
  <2>2. Mirror(g)'
    BY <2>1 DEF Constructed, Mirror, Edges, NoRepetition
  <2>3. Root' <= p' /\ p' <= last'[Root']
    BY <2>1 DEF Constructed, Root
  <2>4. ASSUME NEW a \in Blocks, NEW b \in Blocks
        PROVE  b \in Range(g.succs[a]) \/ (a = i' /\ b \in Range(todo'))
                 <=> b \in Range(code[p][a].targets) /\ (a < i' \/ (a = i' /\ todo' # <<>>))
    <3>1. b \in Range(g.succs[a]) <=> b \in Range(code[p][a].targets) /\ a < i
      BY <2>1 DEF Constructed
    <3>2. CASE code[p][i].kind = "none"
      <4>1. i' = i + 1 /\ todo' = <<>> /\ Range(todo') = {} /\ code[p][i].targets = <<>>
        BY <1>2, <2>1, <3>2
      <4> QED BY <1>1, <3>1, <4>1 DEF Blocks
    <3>3. CASE code[p][i].kind = "branch"
      <4>1. i' = i /\ todo' = code[p][i].targets /\ todo' # <<>>
        BY <1>2, <3>3
      <4> QED BY <1>1, <3>1, <4>1 DEF Blocks
    <3> QED BY <1>2, <3>2, <3>3
  <2>5. todo' # <<>> => i' <= NBlocks /\ code[p][i'].kind = "branch"
    BY <1>2
  <2>6. \A b \in Blocks : b < i' => code[p][b].kind # "other"
    BY <1>1, <2>1 DEF Constructed, Blocks
  <2> QED BY <2>2, <2>3, <2>4, <2>5, <2>6 DEF Constructed
<1>5. GraphsInOrder'
  BY DEF IInv, GraphsInOrder, HasGraph, Fails
<1>6. GraphRight' /\ Removal'
  BY NothingRemoved DEF IInv
<1>7. Swept'
  <2>1. Behind' = Behind /\ \A q \in Procs : HasGraph(q)' = HasGraph(q)
    BY DEF Behind, Root, HasGraph
  <2> QED BY <2>1, BehindStays DEF IInv, Swept
<1> QED BY <1>3, <1>4, <1>5, <1>6, <1>7 DEF IInv

LEMMA ConstructEdgeIInv == IInv /\ ConstructEdge => IInv'
<1> SUFFICES ASSUME IInv, ConstructEdge
             PROVE  IInv'
  OBVIOUS
<1> USE DEF ConstructEdge
<1> DEFINE t == Head(todo)
<1>1. Constructed /\ i \in Blocks /\ p \in Procs /\ g \in Graphs /\ todo \in Seq(Blocks)
  BY DEF IInv, TypeOK, Blocks, Constructed
<1>2. /\ t \in Blocks /\ Tail(todo) \in Seq(Blocks)
      /\ Range(todo) = {t} \cup Range(Tail(todo))
  <2>1. Len(todo) \in Nat \ {0} /\ DOMAIN todo = 1..Len(todo) /\ t = todo[1]
    BY <1>1
  <2>2. /\ Tail(todo) \in Seq(Blocks) /\ DOMAIN Tail(todo) = 1..(Len(todo) - 1)
        /\ \A k \in 1..(Len(todo) - 1) : Tail(todo)[k] = todo[k + 1]
    BY <1>1
  <2>4. ASSUME NEW x \in Range(todo)
        PROVE  x = t \/ x \in Range(Tail(todo))
    <3>1. PICK k \in 1..Len(todo) : x = todo[k]
      BY <2>1 DEF Range
    <3>2. CASE k = 1
      BY <2>1, <3>1, <3>2
    <3>3. CASE k # 1
      <4>1. k - 1 \in 1..(Len(todo) - 1) /\ Tail(todo)[k - 1] = x
        BY <2>1, <2>2, <3>1, <3>3
      <4> QED BY <2>2, <4>1 DEF Range
    <3> QED BY <3>2, <3>3
  <2>5. {t} \cup Range(Tail(todo)) \subseteq Range(todo)
    BY <2>1, <2>2 DEF Range
  <2> QED BY <1>1, <2>1, <2>2, <2>4, <2>5
<1>3. g' \in Graphs /\ Mirror(g') /\ Edges(g') = Edges(g) \cup {<<i, t>>}
  BY <1>1, <1>2, EdgeAdded DEF Constructed
<1> HIDE DEF t
<1>4. TypeOK'
  <2>1. i' \in 1..(NBlocks + 1)
    BY <1>1, NBlocksAssumption DEF Blocks
  <2> QED BY <1>2, <1>3, <2>1 DEF IInv, TypeOK
<1>5. Constructed'
  <2>1. Mirror(g)'
    BY <1>3 DEF Mirror, Edges, NoRepetition
  <2>2. Root' <= p' /\ p' <= last'[Root']
    BY <1>1 DEF Constructed, Root
  <2>3. todo' # <<>> => i' <= NBlocks /\ code[p][i'].kind = "branch"
    BY <1>1 DEF Constructed
  <2>4. \A b \in Blocks : b < i' => code[p][b].kind # "other"
    BY <1>1 DEF Constructed, Blocks
  <2>5. ASSUME NEW a \in Blocks, NEW b \in Blocks
        PROVE  b \in Range(g'.succs[a]) \/ (a = i' /\ b \in Range(todo'))
                 <=> b \in Range(code[p][a].targets) /\ (a < i' \/ (a = i' /\ todo' # <<>>))
    <3>1. b \in Range(g'.succs[a]) <=> b \in Range(g.succs[a]) \/ (a = i /\ b = t)
      BY <1>1, <1>2, <1>3, EdgesOfList
    <3>2. b \in Range(g.succs[a]) \/ (a = i /\ b \in Range(todo))
            <=> b \in Range(code[p][a].targets) /\ a <= i
      BY <1>1 DEF Constructed, Blocks
    <3>3. CASE Tail(todo) = <<>>
      <4>1. i' = i + 1 /\ todo' = <<>> /\ Range(todo') = {}
        BY <3>3 DEF Range
      <4> QED BY <1>1, <1>2, <3>1, <3>2, <4>1 DEF Blocks
    <3>4. CASE Tail(todo) # <<>>
      <4>1. i' = i /\ todo' # <<>> /\ Range(todo) = {t} \cup Range(todo')
        BY <1>2, <3>4
      <4> QED BY <1>1, <3>1, <3>2, <4>1 DEF Blocks
    <3> QED BY <3>3, <3>4
  <2> QED BY <2>1, <2>2, <2>3, <2>4, <2>5 DEF Constructed
<1>6. GraphsInOrder'
  BY DEF IInv, GraphsInOrder, HasGraph, Fails
<1>7. GraphRight' /\ Removal'
  BY NothingRemoved DEF IInv
<1>8. Swept'
  <2>1. Behind' = Behind /\ \A q \in Procs : HasGraph(q)' = HasGraph(q)
    BY DEF Behind, Root, HasGraph
  <2> QED BY <2>1, BehindStays DEF IInv, Swept
<1> QED BY <1>4, <1>5, <1>6, <1>7, <1>8 DEF IInv

LEMMA ConstructFailsIInv == IInv /\ ConstructFails => IInv'
<1> SUFFICES ASSUME IInv, ConstructFails
             PROVE  IInv'
  OBVIOUS
<1> USE DEF ConstructFails, AtOtherInsn, AfterFailure, StartProc, Last
<1>1. i \in Blocks /\ p \in Procs /\ 1 \in Procs /\ 1 \in 1..(NBlocks + 1)
  BY NProcsAssumption, NBlocksAssumption DEF IInv, TypeOK, Blocks, Procs
<1>2. Fails(p) /\ \A q \in Procs : HasGraph(q) <=> q < p
  BY <1>1 DEF Fails, IInv, GraphsInOrder
<1>3. phase' \in {"process_proc", "done"} /\ UNCHANGED <<code, last, cfg, removed>>
  OBVIOUS
<1>4. TypeOK'
  <2>1. CASE caller = Driver
    BY <1>1, <2>1 DEF IInv, TypeOK
  <2>2. CASE caller # Driver
    BY <2>2 DEF IInv, TypeOK
  <2> QED BY <2>1, <2>2
<1>5. \A q \in Procs : HasGraph(q)' = HasGraph(q) /\ Fails(q)' = Fails(q)
  BY DEF HasGraph, Fails
<1>6. GraphsInOrder'
  <2>1. \A q \in Procs : ~HasGraph(q) /\ (\A r \in Procs : r < q => HasGraph(r)) => q = p
    BY <1>1, <1>2 DEF Procs
  <2>2. phase' = "process_proc" => p' = 1
    OBVIOUS
  <2>3. \A q \in Procs : ~(q < 1)
    BY DEF Procs
  <2> QED BY <1>2, <1>3, <1>5, <2>1, <2>2, <2>3 DEF IInv, GraphsInOrder
<1>7. GraphRight' /\ Removal'
  BY <1>3, NothingRemoved DEF IInv
<1>8. Swept'
  <2>1. CASE caller = Driver
    BY <2>1 DEF Swept, Behind, Procs
  <2>2. CASE caller # Driver
    <3>1. caller \in Procs /\ Behind = p - 1 /\ phase' = "done"
      BY <2>2 DEF IInv, TypeOK, GraphsInOrder, Behind, Root
    <3>2. \A q \in Procs : HasGraph(q)' => q <= Behind
      BY <1>1, <1>2, <1>5, <3>1 DEF Procs
    <3>3. \A q \in Procs : q <= Behind' /\ HasGraph(q)' => \A b \in Kept(q)' : Entered(q, b)'
      BY <1>3, <1>5, <3>2, BehindStays DEF IInv
    <3> QED BY <3>1, <3>3 DEF Swept
  <2> QED BY <2>1, <2>2
<1> QED BY <1>3, <1>4, <1>6, <1>7, <1>8 DEF IInv

LEMMA ConstructDoneIInv == IInv /\ ConstructDone => IInv'
<1> SUFFICES ASSUME IInv, ConstructDone
             PROVE  IInv'
  OBVIOUS
<1> USE DEF ConstructDone, StartProc
<1>1. i = NBlocks + 1 /\ p \in Procs /\ g \in Graphs /\ Constructed
  BY NBlocksAssumption DEF IInv, TypeOK
<1>2. todo = <<>> /\ \A b \in Blocks : b < i
  BY <1>1, NBlocksAssumption DEF Constructed, Blocks
<1>3. ~Fails(p)
  BY <1>1, <1>2 DEF Constructed, Fails
<1>4. caller = Driver /\ Root = 1 /\ last[Root] = NProcs /\ last \in [Procs -> Procs]
  BY <1>3 DEF IInv, GraphsInOrder, TypeOK, Nestings, Root
<1>5. Mirror(g) /\ Edges(g) = CodeEdges(p)
  <2>1. ASSUME NEW a \in Blocks, NEW b \in Blocks
        PROVE  b \in Range(g.succs[a]) <=> b \in Range(code[p][a].targets)
    BY <1>1, <1>2 DEF Constructed, Range
  <2> QED BY <1>1, <2>1 DEF Constructed, Edges, CodeEdges
<1>6. cfg'[p] = g /\ \A q \in Procs : q # p => cfg'[q] = cfg[q]
  BY <1>1 DEF IInv, TypeOK
<1>7. \A q \in Procs : HasGraph(q) <=> q < p
  BY DEF IInv, GraphsInOrder
<1>8. \A q \in Procs : HasGraph(q)' <=> q <= p
  BY <1>1, <1>6, <1>7, NoGraphIsNone DEF HasGraph, Procs
<1>9. Removal'
  <2>1. phase # "remove" /\ phase' # "remove" /\ UNCHANGED <<code, removed>>
    BY DEF StartConstruct
  <2>2. \A q \in Procs : HasGraph(q) => HasGraph(q)'
    BY <1>1, <1>7, <1>8 DEF Procs
  <2> QED BY <2>1, <2>2, RemovalStays DEF IInv
<1>10. GraphRight'
  <2> SUFFICES ASSUME NEW q \in Procs, cfg'[q] # NoGraph
               PROVE  (Mirror(cfg[q]) /\ Edges(cfg[q]) = EdgesLeft(q))'
    BY DEF GraphRight
  <2>1. phase # "remove" /\ phase' # "remove" /\ UNCHANGED <<code, removed>>
    BY DEF StartConstruct
  <2>2. CASE q # p
    <3>1. cfg[q]' = cfg[q]
      BY <1>6, <2>2
    <3> QED BY <2>1, <3>1, GraphsStay DEF IInv
  <2>3. CASE q = p
    <3>1. removed[p] = {}
      BY <1>1, <1>7 DEF IInv, Removal, Procs
    <3>2. EdgesLeft(q)' = CodeEdges(p)
      BY <2>1, <2>3, <3>1 DEF EdgesLeft, InRemoval, CodeEdges
    <3>3. Mirror(cfg[q])' /\ Edges(cfg[q])' = Edges(g)
      BY <1>5, <1>6, <2>3 DEF Mirror, Edges, NoRepetition
    <3> QED BY <1>5, <3>2, <3>3
  <2> QED BY <2>2, <2>3
<1>11. 1 \in Procs /\ 1 \in 1..(NBlocks + 1)
  BY NProcsAssumption, NBlocksAssumption DEF Procs
<1>12. cfg' \in [Procs -> Graphs \cup {NoGraph}]
  BY <1>1 DEF IInv, TypeOK
<1>13. \A q \in Procs : HasGraph(q)' => ~Fails(q)'
  <2>1. \A q \in Procs : Fails(q)' = Fails(q)
    BY DEF Fails
  <2>2. \A q \in Procs : HasGraph(q) => ~Fails(q)
    BY DEF IInv, GraphsInOrder
  <2> QED BY <1>1, <1>3, <1>7, <1>8, <2>1, <2>2 DEF Procs
<1>14. CASE p < last[Root]
  <2> USE DEF StartConstruct
  <2>1. p + 1 \in Procs /\ p' = p + 1 /\ caller' = Driver /\ phase' = "construct"
    BY <1>1, <1>4, <1>14, NProcsAssumption DEF Procs
  <2>2. TypeOK'
    <3>1. g' \in Graphs /\ todo' = <<>> /\ i' = 1
      BY <1>14, NoEdges
    <3>2. todo' \in Seq(Blocks)
      BY <3>1
    <3> QED BY <1>11, <1>12, <2>1, <3>1, <3>2 DEF IInv, TypeOK
  <2>3. Root' = 1 /\ last' = last /\ 1 <= p + 1 /\ p + 1 <= last[1]
    BY <1>1, <1>4, <1>14, <2>1 DEF Root, Procs
  <2>4. StartConstruct(caller, p + 1) /\ code \in [Procs -> Code]
    BY <1>14 DEF IInv, TypeOK
  <2> HIDE DEF StartConstruct
  <2>5. Constructed'
    BY <2>1, <2>3, <2>4, ConstructionStarts
  <2>6. \A q \in Procs : q <= p <=> q < p + 1
    BY <1>1 DEF Procs
  <2>7. GraphsInOrder'
    BY <1>8, <1>13, <2>1, <2>6 DEF GraphsInOrder, Procs
  <2>8. Swept'
    <3>1. Behind' = 0 /\ \A q \in Procs : ~(q <= 0)
      BY <2>1, <2>3 DEF Behind, Procs
    <3> QED BY <2>1, <3>1 DEF Swept
  <2> QED BY <1>9, <1>10, <2>2, <2>5, <2>7, <2>8 DEF IInv
<1>15. CASE ~(p < last[Root])
  <2>1. p' = 1 /\ phase' = "process_proc" /\ i' = 1 /\ todo' = <<>> /\ UNCHANGED <<caller, g>>
    BY <1>4, <1>15
  <2>2. TypeOK'
    <3>1. todo' \in Seq(Blocks)
      BY <2>1
    <3> QED BY <1>11, <1>12, <2>1, <3>1 DEF IInv, TypeOK
  <2>3. \A q \in Procs : HasGraph(q)' /\ ~(q < 1)
    BY <1>1, <1>4, <1>8, <1>15, NProcsAssumption DEF Procs
  <2>4. GraphsInOrder'
    BY <1>13, <2>1, <2>3 DEF GraphsInOrder
  <2>5. Swept'
    BY <2>1 DEF Swept, Behind, Procs
  <2> QED BY <1>9, <1>10, <2>1, <2>2, <2>4, <2>5 DEF IInv
<1> QED BY <1>14, <1>15

-----------------------------------------------------------------------------
(* ... of the search for blocks to remove ...                              *)

LEMMA ProcessProcIInv == IInv /\ ProcessProc => IInv'
<1> SUFFICES ASSUME IInv, ProcessProc
             PROVE  IInv'
  OBVIOUS
<1> USE DEF ProcessProc
<1>1. p \in Procs /\ UNCHANGED <<code, last, cfg, removed>>
  BY DEF IInv, TypeOK
<1>2. \A q \in Procs : HasGraph(q)' = HasGraph(q) /\ Fails(q)' = Fails(q)
  BY DEF HasGraph, Fails
<1>3. \A q \in Procs : q < p => HasGraph(q)
  BY DEF IInv, GraphsInOrder
<1>4. GraphRight' /\ Removal'
  BY <1>1, NothingRemoved DEF IInv, StartConstruct
<1>5. 1 \in 1..(NBlocks + 1)
  BY NBlocksAssumption
<1>6. CASE ~HasGraph(p)
  <2>1. StartConstruct(p, p)
    BY <1>6 DEF HasGraph
  <2>2. /\ phase' = "construct" /\ caller' = p /\ p' = p /\ i' = 1 /\ g' = InitGraph
        /\ todo' = <<>> /\ changed' = changed
    BY <1>6 DEF HasGraph, StartConstruct
  <2>3. TypeOK'
    <3>1. g' \in Graphs /\ todo' \in Seq(Blocks)
      BY <2>2, NoEdges
    <3> QED BY <1>1, <1>5, <2>2, <3>1 DEF IInv, TypeOK
  <2>4. Root' = p /\ p <= last[p]
    BY <1>1, <2>2 DEF IInv, TypeOK, Nestings, Root, Driver, Procs
  <2>5. Constructed'
    <3>1. p <= p /\ code \in [Procs -> Code]
      BY <1>1 DEF Procs, IInv, TypeOK
    <3> QED BY <1>1, <2>1, <2>4, <3>1, ConstructionStarts
  <2>6. \A q \in Procs : HasGraph(q) <=> q < p
    BY <1>1, <1>3, <1>6 DEF IInv, GraphsInOrder, Procs
  <2>7. Fails(p)
    BY <1>1, <1>3, <1>6 DEF IInv, GraphsInOrder
  <2>8. GraphsInOrder'
    BY <1>1, <1>2, <2>2, <2>6, <2>7 DEF IInv, GraphsInOrder
  <2>9. Swept'
    <3>1. Behind' = Behind
      BY <2>2, <2>4 DEF Behind
    <3> QED BY <1>1, <1>2, <2>2, <3>1, BehindStays DEF IInv, Swept
  <2> QED BY <1>4, <2>3, <2>5, <2>8, <2>9 DEF IInv
<1>7. CASE HasGraph(p)
  <2>1. phase' = "sweep" /\ changed' = FALSE /\ UNCHANGED <<caller, p, i, g, todo>>
    BY <1>7 DEF HasGraph
  <2>2. TypeOK'
    BY <1>1, <2>1 DEF IInv, TypeOK
  <2>3. GraphsInOrder'
    BY <1>1, <1>2, <1>3, <1>7, <2>1 DEF IInv, GraphsInOrder
  <2>4. Swept'
    <3>1. Behind' = Behind
      BY <2>1 DEF Behind
    <3>2. i' = 1 /\ \A b \in Blocks : ~(b < 1)
      BY <2>1 DEF IInv, Swept, Blocks
    <3> QED BY <1>1, <1>2, <2>1, <3>1, <3>2, BehindStays DEF IInv, Swept, Kept
  <2> QED BY <1>4, <2>1, <2>2, <2>3, <2>4 DEF IInv
<1> QED BY <1>6, <1>7

(* What the graph of the function being worked on says about its code.     *)
LEMMA GraphOfCode ==
    ASSUME IInv, phase \in {"sweep", "remove"}
    PROVE  /\ p \in Procs /\ cfg[p] \in Graphs /\ Mirror(cfg[p])
           /\ Edges(cfg[p]) = EdgesLeft(p) /\ ~Fails(p)
<1>1. p \in Procs /\ cfg[p] \in Graphs \cup {NoGraph} /\ HasGraph(p)
  BY DEF IInv, TypeOK, GraphsInOrder
<1> QED BY <1>1 DEF IInv, GraphRight, GraphsInOrder, HasGraph

(* A block that stays unused although it is looked at has a predecessor.   *)
LEMMA KeptIsEntered ==
    ASSUME IInv, phase = "sweep", NEW b \in Kept(p), ~Unused(b)
    PROVE  Entered(p, b)
<1>1. /\ p \in Procs /\ cfg[p] \in Graphs /\ Mirror(cfg[p]) /\ ~Fails(p)
      /\ Edges(cfg[p]) = EdgesLeft(p)
  BY GraphOfCode
<1>2. b \in Blocks /\ b \notin removed[p] /\ b \notin {ENTRY_BLOCK, EXIT_BLOCK}
  BY DEF Kept
<1>3. \A e \in CodeEdges(p) : e \in EdgesLeft(p) <=> e[1] \notin removed[p]
  BY DEF EdgesLeft, InRemoval
<1>4. CASE cfg[p].preds[b] # <<>>
  <2>1. cfg[p].preds[b] \in Seq(Blocks)
    BY <1>1, <1>2 DEF Graphs
  <2>2. PICK a \in Range(cfg[p].preds[b]) : TRUE
    <3>1. 1 \in DOMAIN cfg[p].preds[b]
      BY <1>4, <2>1
    <3> QED BY <3>1 DEF Range
  <2>3. a \in Blocks /\ <<a, b>> \in EdgesLeft(p)
    BY <1>1, <1>2, <2>2 DEF Mirror
  <2>4. <<a, b>> \in CodeEdges(p)
    BY <2>3 DEF EdgesLeft
  <2> QED BY <1>3, <2>3, <2>4 DEF Entered
<1>5. CASE cfg[p].succs[b] = <<>>
  <2>1. code[p][b].targets \in Seq(Blocks) /\ code[p][b].targets # <<>>
    BY <1>1, <1>2, CodeTypes DEF IInv, TypeOK, Fails
  <2>2. code[p][b].targets[1] \in Blocks /\ code[p][b].targets[1] \in Range(code[p][b].targets)
    BY <2>1 DEF Range
  <2>3. <<b, code[p][b].targets[1]>> \in CodeEdges(p)
    BY <1>2, <2>2 DEF CodeEdges
  <2>4. <<b, code[p][b].targets[1]>> \in Edges(cfg[p])
    BY <1>1, <1>2, <1>3, <2>3
  <2> QED BY <1>1, <1>2, <1>5, <2>2, <2>4, EdgesOfList DEF Range
<1> QED BY <1>2, <1>4, <1>5 DEF Unused

LEMMA KeepBlockIInv == IInv /\ KeepBlock => IInv'
<1> SUFFICES ASSUME IInv, KeepBlock
             PROVE  IInv'
  OBVIOUS
<1> USE DEF KeepBlock
<1>1. i \in Blocks /\ i' = i + 1 /\ i' \in 1..(NBlocks + 1)
  BY NBlocksAssumption DEF IInv, TypeOK, Blocks
<1>2. phase' = "sweep" /\ UNCHANGED <<code, last, cfg, removed, phase, caller, p, g, todo, changed>>
  OBVIOUS
<1>3. \A q \in Procs : HasGraph(q)' = HasGraph(q) /\ Fails(q)' = Fails(q)
  BY DEF HasGraph, Fails
<1>4. TypeOK'
  BY <1>1, <1>2 DEF IInv, TypeOK
<1>5. GraphsInOrder'
  BY <1>2, <1>3 DEF IInv, GraphsInOrder, TypeOK
<1>6. GraphRight' /\ Removal'
  BY NothingRemoved DEF IInv
<1>7. Swept'
  <2>1. Behind' = Behind
    BY <1>2 DEF Behind
  <2>2. ASSUME ~changed', NEW b \in Kept(p), b < i'
        PROVE  Entered(p, b)'
    <3>1. Entered(p, b)
      <4>1. CASE b = i
        BY <4>1, KeptIsEntered
      <4>2. CASE b # i
        BY <1>1, <2>2, <4>2 DEF IInv, Swept, Kept, Blocks
      <4> QED BY <4>1, <4>2
    <3> QED BY <1>2, <3>1 DEF Entered, CodeEdges
  <2>3. Kept(p)' = Kept(p)
    BY DEF Kept
  <2>4. \A q \in Procs : q <= Behind' /\ HasGraph(q)' => \A b \in Kept(q)' : Entered(q, b)'
    BY <1>2, <1>3, <2>1, BehindStays DEF IInv
  <2> QED BY <1>2, <2>2, <2>3, <2>4 DEF Swept, Entered, CodeEdges
<1> QED BY <1>2, <1>4, <1>5, <1>6, <1>7 DEF IInv

LEMMA EndSweepIInv == IInv /\ EndSweep => IInv'
<1> SUFFICES ASSUME IInv, EndSweep
             PROVE  IInv'
  OBVIOUS
<1> USE DEF EndSweep, NextProc, StartProc
<1>1. p \in Procs /\ i = NBlocks + 1 /\ UNCHANGED <<code, last, cfg, removed>>
  BY NBlocksAssumption DEF IInv, TypeOK
<1>2. \A q \in Procs : HasGraph(q)' = HasGraph(q) /\ Fails(q)' = Fails(q)
  BY DEF HasGraph, Fails
<1>3. 1 \in 1..(NBlocks + 1) /\ phase' # "construct" /\ phase' # "remove"
  BY NBlocksAssumption
<1>4. GraphRight' /\ Removal'
  BY <1>1, <1>3, NothingRemoved DEF IInv
<1>5. CASE changed
  <2>1. i' = 1 /\ changed' = FALSE /\ UNCHANGED <<phase, caller, p, g, todo>>
    BY <1>5
  <2>2. TypeOK'
    BY <1>1, <1>3, <2>1 DEF IInv, TypeOK
  <2>3. GraphsInOrder'
    BY <1>1, <1>2, <2>1 DEF IInv, GraphsInOrder
  <2>4. Swept'
    <3>1. Behind' = Behind /\ \A b \in Blocks : ~(b < 1)
      BY <2>1 DEF Behind, Blocks
    <3> QED BY <1>1, <1>2, <2>1, <3>1, BehindStays DEF IInv, Swept, Kept
  <2> QED BY <1>3, <1>4, <2>2, <2>3, <2>4 DEF IInv
<1>6. CASE ~changed
  <2>1. \A q \in Procs : q <= p /\ HasGraph(q) => \A b \in Kept(q) : Entered(q, b)
    <3> SUFFICES ASSUME NEW q \in Procs, q <= p, HasGraph(q), NEW b \in Kept(q)
                 PROVE  Entered(q, b)
      OBVIOUS
    <3>1. CASE q = p
      <4>1. b < i
        BY <1>1, NBlocksAssumption DEF Kept, Blocks
      <4> QED BY <1>6, <3>1, <4>1 DEF IInv, Swept
    <3>2. CASE q # p
      <4>1. q <= Behind
        BY <1>1, <3>2 DEF Behind, Procs
      <4> QED BY <4>1 DEF IInv, Swept
    <3> QED BY <3>1, <3>2
  <2>2. \A q \in Procs : q <= p => HasGraph(q)
    BY <1>1 DEF IInv, GraphsInOrder, Procs
  <2>3. \A q \in Procs : Kept(q)' = Kept(q) /\ \A b : Entered(q, b)' = Entered(q, b)
    BY <1>1 DEF Kept, Entered, CodeEdges
  <2>4. changed' = FALSE
    BY <1>6 DEF IInv, TypeOK
  <2>5. CASE p < NProcs
    <3>1. phase' = "process_proc" /\ p' = p + 1 /\ i' = 1 /\ todo' = <<>> /\ UNCHANGED <<caller, g>>
      BY <1>6, <2>5
    <3>2. p + 1 \in Procs /\ todo' \in Seq(Blocks)
      BY <1>1, <2>5, <3>1, NProcsAssumption DEF Procs
    <3>3. TypeOK'
      BY <1>1, <1>3, <2>4, <3>1, <3>2 DEF IInv, TypeOK
    <3>4. \A q \in Procs : q < p + 1 <=> q <= p
      BY <1>1 DEF Procs
    <3>5. GraphsInOrder'
      BY <1>1, <1>2, <2>2, <3>1, <3>4 DEF IInv, GraphsInOrder
    <3>6. Behind' = p
      BY <1>1, <3>1 DEF Behind, Procs
    <3>7. Swept'
      BY <1>2, <2>1, <2>3, <3>1, <3>6 DEF Swept
    <3> QED BY <1>3, <1>4, <3>3, <3>5, <3>7 DEF IInv
  <2>6. CASE ~(p < NProcs)
    <3>1. phase' = "done" /\ UNCHANGED <<caller, p, i, g, todo>>
      BY <1>6, <2>6
    <3>2. p = NProcs /\ \A q \in Procs : q <= p
      BY <1>1, <2>6, NProcsAssumption DEF Procs
    <3>3. TypeOK'
      BY <1>1, <2>4, <3>1 DEF IInv, TypeOK
    <3>4. GraphsInOrder'
      BY <1>2, <2>2, <3>1, <3>2 DEF IInv, GraphsInOrder
    <3>5. Swept'
      BY <1>2, <2>1, <2>3, <3>1, <3>2 DEF Swept
    <3> QED BY <1>3, <1>4, <3>3, <3>4, <3>5 DEF IInv
  <2> QED BY <2>5, <2>6
<1> QED BY <1>5, <1>6

-----------------------------------------------------------------------------
(* ... and of the removal of one.                                          *)

LEMMA RemoveBlockIInv == IInv /\ RemoveBlock => IInv'
<1> SUFFICES ASSUME IInv, RemoveBlock
             PROVE  IInv'
  OBVIOUS
<1> USE DEF RemoveBlock
<1>1. /\ p \in Procs /\ cfg[p] \in Graphs /\ Mirror(cfg[p])
      /\ Edges(cfg[p]) = EdgesLeft(p)
  BY GraphOfCode
<1>2. i \in Blocks /\ i # ENTRY_BLOCK /\ i # EXIT_BLOCK
  BY DEF IInv, TypeOK, Blocks, Unused
<1>3. phase' = "remove" /\ UNCHANGED <<code, last, cfg, removed, caller, p, i, g, changed>>
  OBVIOUS
<1>4. todo' = cfg[p].succs[i] /\ todo' \in Seq(Blocks) /\ NoRepetition(todo')
  BY <1>1, <1>2 DEF Graphs, Mirror
<1>5. \A q \in Procs : HasGraph(q)' = HasGraph(q) /\ Fails(q)' = Fails(q)
  BY DEF HasGraph, Fails
<1>6. \A e \in CodeEdges(p) : e \in Edges(cfg[p]) <=> e[1] \notin removed[p]
  BY <1>1 DEF EdgesLeft, InRemoval
<1>7. TypeOK'
  BY <1>3, <1>4 DEF IInv, TypeOK
<1>8. GraphsInOrder'
  BY <1>1, <1>3, <1>5 DEF IInv, GraphsInOrder
<1>9. i \notin removed[p]
  <2>1. cfg[p].succs[i] \in Seq(Blocks) /\ cfg[p].succs[i] # <<>>
    BY <1>1, <1>2 DEF Graphs, Unused
  <2>2. cfg[p].succs[i][1] \in Blocks /\ cfg[p].succs[i][1] \in Range(cfg[p].succs[i])
    BY <2>1 DEF Range
  <2>3. <<i, cfg[p].succs[i][1]>> \in EdgesLeft(p)
    BY <1>1, <1>2, <2>2, EdgesOfList
  <2> QED BY <2>3 DEF EdgesLeft, InRemoval
<1>10. Removal'
  <2>1. \A q \in Procs : q # p => Gone(q)' = Gone(q)
    BY <1>3 DEF Gone, InRemoval
  <2>2. Gone(p) = removed[p] /\ Gone(p)' = removed[p] \cup {i}
    BY <1>1, <1>2, <1>3 DEF Gone, InRemoval, IInv, TypeOK
  <2>3. ASSUME NEW e \in CodeEdges(p), e[2] = i
        PROVE  e[1] \in removed[p]
    <3>1. PICK a \in Blocks : e = <<a, i>>
      BY <2>3 DEF CodeEdges
    <3>2. cfg[p].preds[i] = <<>>
      BY DEF Unused
    <3>3. <<a, i>> \notin Edges(cfg[p])
      BY <1>1, <1>2, <3>1, <3>2 DEF Mirror, Range
    <3> QED BY <1>6, <3>1, <3>3
  <2>4. \A q \in Procs : CodeEdges(q)' = CodeEdges(q) /\ removed'[q] = removed[q]
    BY CodeStays
  <2> QED BY <1>2, <1>3, <1>4, <1>5, <1>9, <2>1, <2>2, <2>3, <2>4 DEF IInv, Removal
<1>11. GraphRight'
  <2> SUFFICES ASSUME NEW q \in Procs, cfg'[q] # NoGraph
               PROVE  (Mirror(cfg[q]) /\ Edges(cfg[q]) = EdgesLeft(q))'
    BY DEF GraphRight
  <2>1. Mirror(cfg[q]) /\ Edges(cfg[q]) = EdgesLeft(q)
    BY DEF IInv, GraphRight
  <2>2. Mirror(cfg[q])' /\ Edges(cfg[q])' = Edges(cfg[q])
    BY <2>1 DEF Mirror, Edges, NoRepetition
  <2>3. EdgesLeft(q)' = EdgesLeft(q)
    <3>1. CASE q # p
      BY <3>1 DEF EdgesLeft, InRemoval, CodeEdges
    <3>2. CASE q = p
      <4>1. \A e \in CodeEdges(p) : e[1] = i => (e[2] \in Range(todo') <=> e \in Edges(cfg[p]))
        BY <1>1, <1>4, EdgesOfList DEF CodeEdges
      <4>2. CodeEdges(p)' = CodeEdges(p)
        BY CodeStays
      <4> QED BY <1>3, <1>6, <1>9, <3>2, <4>1, <4>2 DEF EdgesLeft, InRemoval
    <3> QED BY <3>1, <3>2
  <2> QED BY <2>1, <2>2, <2>3
<1>12. Swept'
  <2>1. Behind' = Behind
    BY <1>3 DEF Behind
  <2> QED BY <1>3, <1>5, <2>1, BehindStays DEF IInv, Swept
<1> QED BY <1>3, <1>7, <1>8, <1>10, <1>11, <1>12 DEF IInv

LEMMA RemoveEdgeIInv == IInv /\ RemoveEdge => IInv'
<1> SUFFICES ASSUME IInv, RemoveEdge
             PROVE  IInv'
  OBVIOUS
<1> USE DEF RemoveEdge
<1> DEFINE t == Head(todo)
           h == DeleteEdge(cfg[p], i, t)
<1>1. /\ p \in Procs /\ cfg[p] \in Graphs /\ Mirror(cfg[p])
      /\ Edges(cfg[p]) = EdgesLeft(p)
  BY GraphOfCode
<1>2. i \in Blocks /\ NoRepetition(todo) /\ todo \in Seq(Blocks)
  BY DEF IInv, TypeOK, Removal
<1>3. /\ t \in Blocks /\ todo' \in Seq(Blocks) /\ NoRepetition(todo')
      /\ Range(todo') = Range(todo) \ {t}
  BY <1>2, ListGetsShorter
<1>4. h \in Graphs /\ Mirror(h) /\ Edges(h) = Edges(cfg[p]) \ {<<i, t>>}
  BY <1>1, <1>2, <1>3, EdgeDeleted
<1>5. cfg' = [cfg EXCEPT ![p] = h]
  OBVIOUS
<1>6. phase' = "remove" /\ UNCHANGED <<code, last, removed, phase, caller, p, i, g, changed>>
  OBVIOUS
<1> HIDE DEF h, t, RemoveEdge
<1>7. /\ cfg' \in [Procs -> Graphs \cup {NoGraph}]
      /\ cfg'[p] = h /\ \A q \in Procs : q # p => cfg'[q] = cfg[q]
  BY <1>1, <1>4, <1>5 DEF IInv, TypeOK
<1>8. TypeOK'
  BY <1>3, <1>6, <1>7 DEF IInv, TypeOK
<1>9. \A q \in Procs : HasGraph(q)' = HasGraph(q) /\ Fails(q)' = Fails(q)
  <2>1. \A q \in Procs : Fails(q)' = Fails(q)
    BY <1>6 DEF Fails
  <2>2. \A q \in Procs : HasGraph(q)' = HasGraph(q)
    BY <1>1, <1>4, <1>7, NoGraphIsNone DEF HasGraph
  <2> QED BY <2>1, <2>2
<1>10. phase = "remove"
  BY DEF RemoveEdge
<1>11. GraphsInOrder'
  BY <1>1, <1>6, <1>9, <1>10 DEF IInv, GraphsInOrder
<1>12. \A q \in Procs : CodeEdges(q)' = CodeEdges(q)
  BY <1>6, CodeStays
<1>13. Removal'
  <2>1. \A q \in Procs : Gone(q)' = Gone(q)
    BY <1>6 DEF Gone, InRemoval
  <2> QED BY <1>2, <1>3, <1>6, <1>9, <1>10, <1>12, <2>1 DEF IInv, Removal
<1>14. GraphRight'
  <2> SUFFICES ASSUME NEW q \in Procs, cfg'[q] # NoGraph
               PROVE  (Mirror(cfg[q]) /\ Edges(cfg[q]) = EdgesLeft(q))'
    BY DEF GraphRight
  <2>1. CASE q # p
    <3>1. Mirror(cfg[q]) /\ Edges(cfg[q]) = EdgesLeft(q) /\ cfg'[q] = cfg[q]
      BY <1>7, <2>1 DEF IInv, GraphRight
    <3>2. Mirror(cfg[q])' /\ Edges(cfg[q])' = Edges(cfg[q])
      BY <3>1 DEF Mirror, Edges, NoRepetition
    <3>3. EdgesLeft(q)' = EdgesLeft(q)
      BY <1>6, <1>12, <2>1 DEF EdgesLeft, InRemoval
    <3> QED BY <3>1, <3>2, <3>3
  <2>2. CASE q = p
    <3>1. Mirror(cfg[q])' /\ Edges(cfg[q])' = Edges(h)
      BY <1>4, <1>7, <2>2 DEF Mirror, Edges, NoRepetition
    <3>2. EdgesLeft(p)' = EdgesLeft(p) \ {<<i, t>>}
      <4>1. ASSUME NEW e \in CodeEdges(p)
            PROVE  e \in EdgesLeft(p)' <=> e \in EdgesLeft(p) /\ e # <<i, t>>
        <5>1. PICK a \in Blocks, b \in Blocks : e = <<a, b>> /\ e[1] = a /\ e[2] = b
          BY DEF CodeEdges
        <5>2. e \in CodeEdges(p)' /\ p' = p /\ i' = i /\ removed' = removed
          BY <1>1, <1>6, <1>12
        <5>3. e \in EdgesLeft(p) <=> IF a = i THEN b \in Range(todo) ELSE a \notin removed[p]
          BY <1>10, <5>1 DEF EdgesLeft, InRemoval
        <5>4. e \in EdgesLeft(p)' <=> IF a = i THEN b \in Range(todo') ELSE a \notin removed[p]
          BY <1>6, <5>1, <5>2 DEF EdgesLeft, InRemoval
        <5> QED BY <1>3, <5>1, <5>3, <5>4
      <4>2. EdgesLeft(p) \subseteq CodeEdges(p) /\ EdgesLeft(p)' \subseteq CodeEdges(p)'
        BY DEF EdgesLeft
      <4>3. CodeEdges(p)' = CodeEdges(p)
        BY <1>1, <1>6, <1>12
      <4> QED BY <4>1, <4>2, <4>3
    <3> QED BY <1>1, <1>4, <1>6, <2>2, <3>1, <3>2
  <2> QED BY <2>1, <2>2
<1>15. Swept'
  <2>1. Behind' = Behind
    BY <1>6 DEF Behind
  <2> QED BY <1>6, <1>9, <1>10, <2>1, BehindStays DEF IInv, Swept
<1> QED BY <1>6, <1>8, <1>11, <1>13, <1>14, <1>15 DEF IInv

LEMMA RemoveInsnsIInv == IInv /\ RemoveInsns => IInv'
<1> SUFFICES ASSUME IInv, RemoveInsns
             PROVE  IInv'
  OBVIOUS
<1> USE DEF RemoveInsns
<1>1. p \in Procs /\ i \in Blocks /\ removed \in [Procs -> SUBSET Blocks]
  BY DEF IInv, TypeOK, Removal
<1>2. /\ phase = "remove" /\ phase' = "sweep" /\ changed' = TRUE /\ i' = i + 1
      /\ UNCHANGED <<code, last, cfg, caller, p, g, todo>>
  OBVIOUS
<1>3. /\ removed' \in [Procs -> SUBSET Blocks] /\ removed'[p] = removed[p] \cup {i}
      /\ \A q \in Procs : q # p => removed'[q] = removed[q]
  BY <1>1
<1>4. i' \in 1..(NBlocks + 1)
  BY <1>1, NBlocksAssumption DEF Blocks
<1>5. TypeOK'
  BY <1>2, <1>3, <1>4 DEF IInv, TypeOK
<1>6. \A q \in Procs : /\ HasGraph(q)' = HasGraph(q) /\ Fails(q)' = Fails(q)
                        /\ CodeEdges(q)' = CodeEdges(q)
  BY <1>2 DEF HasGraph, Fails, CodeEdges
<1>7. GraphsInOrder'
  BY <1>1, <1>2, <1>6 DEF IInv, GraphsInOrder
<1>8. \A q \in Procs : Gone(q)' = Gone(q)
  BY <1>1, <1>2, <1>3 DEF Gone, InRemoval
<1>9. HasGraph(p)
  BY <1>2 DEF IInv, GraphsInOrder
<1>10. Removal'
  BY <1>2, <1>3, <1>6, <1>8, <1>9 DEF IInv, Removal
<1>11. GraphRight'
  <2> SUFFICES ASSUME NEW q \in Procs, cfg'[q] # NoGraph
               PROVE  (Mirror(cfg[q]) /\ Edges(cfg[q]) = EdgesLeft(q))'
    BY DEF GraphRight
  <2>1. Mirror(cfg[q]) /\ Edges(cfg[q]) = EdgesLeft(q)
    BY <1>2 DEF IInv, GraphRight
  <2>2. Mirror(cfg[q])' /\ Edges(cfg[q])' = Edges(cfg[q])
    BY <1>2, <2>1 DEF Mirror, Edges, NoRepetition
  <2>3. Range(todo) = {}
    BY DEF Range
  <2>4. EdgesLeft(q)' = EdgesLeft(q)
    BY <1>2, <1>3, <1>6, <2>3 DEF EdgesLeft, InRemoval
  <2> QED BY <2>1, <2>2, <2>4
<1>12. Swept'
  <2>1. Behind' = p - 1 /\ Behind = p - 1
    BY <1>2 DEF Behind
  <2>2. ASSUME NEW q \in Procs, q <= p - 1
        PROVE  Kept(q)' = Kept(q) /\ \A b : Entered(q, b)' = Entered(q, b)
    <3>1. removed'[q] = removed[q] /\ code' = code
      BY <1>1, <1>2, <1>3, <2>2 DEF Procs
    <3> QED BY <3>1 DEF Kept, Entered, CodeEdges
  <2> QED BY <1>2, <1>6, <2>1, <2>2 DEF IInv, Swept
<1> QED BY <1>2, <1>5, <1>7, <1>10, <1>11, <1>12 DEF IInv

LEMMA StutterIInv == IInv /\ UNCHANGED vars => IInv'
<1> SUFFICES ASSUME IInv, UNCHANGED vars
             PROVE  IInv'
  OBVIOUS
<1> USE DEF vars
<1>1. TypeOK'
  BY DEF IInv, TypeOK
<1>2. Constructed' = Constructed
  BY DEF Constructed, Mirror, Edges, NoRepetition, Root
<1>3. GraphsInOrder' = GraphsInOrder
  BY DEF GraphsInOrder, HasGraph, Fails
<1>4. Removal' = Removal
  BY DEF Removal, HasGraph, Gone, InRemoval, CodeEdges
<1>5. GraphRight' = GraphRight
  BY DEF GraphRight, Mirror, Edges, NoRepetition, EdgesLeft, InRemoval, CodeEdges
<1>6. Swept' = Swept
  BY DEF Swept, HasGraph, Entered, Kept, CodeEdges, Behind, Root
<1> QED BY <1>1, <1>2, <1>3, <1>4, <1>5, <1>6 DEF IInv

LEMMA NextIInv == IInv /\ [Next]_vars => IInv'
BY ConstructBlockIInv, ConstructEdgeIInv, ConstructFailsIInv, ConstructDoneIInv,
   ProcessProcIInv, KeepBlockIInv, RemoveBlockIInv, RemoveEdgeIInv, RemoveInsnsIInv,
   EndSweepIInv, StutterIInv DEF Next, Step, Finished

LEMMA SpecIInv == Spec => []IInv
BY InitIInv, NextIInv, PTL DEF Spec

-----------------------------------------------------------------------------
(* The properties *)

(* The variables of the pass over all functions have their types.          *)
THEOREM TypeCorrect == Spec => []TypeOK
<1>1. IInv => TypeOK
  BY DEF IInv
<1> QED BY <1>1, SpecIInv, PTL

(* The successor and the predecessor lists of src/graph.c agree, and are   *)
(* the branches of the blocks that are left, after every single step of    *)
(* the construction and of the removal of blocks.                          *)
THEOREM GraphsRight == Spec => []GraphRight
<1>1. IInv => GraphRight
  BY DEF IInv
<1> QED BY <1>1, SpecIInv, PTL

(* raviX_remove_unreachable_blocks() removes no block that can be reached  *)
(* from the entry: the blocks that are left are closed under the branches  *)
(* of the code and the entry is one of them.                               *)
THEOREM ReachableStays == Spec => []NoReachableRemoved
<1>1. IInv => NoReachableRemoved
  <2> SUFFICES ASSUME IInv, NEW q \in Procs, NEW b \in removed[q], b \in Reachable(CodeEdges(q))
               PROVE  FALSE
    BY DEF NoReachableRemoved
  <2> DEFINE S == Blocks \ Gone(q)
  <2>1. ENTRY_BLOCK \in S
    BY NBlocksAssumption DEF IInv, Removal, Blocks, ENTRY_BLOCK
  <2>2. Closed(CodeEdges(q), S)
    BY DEF Closed, IInv, Removal, CodeEdges
  <2>3. b \in S
    BY <2>1, <2>2 DEF Reachable
  <2> QED BY <2>3 DEF Gone
<1> QED BY <1>1, SpecIInv, PTL

(* When the pass has left a function, every block it kept is entered from  *)
(* one it kept.                                                            *)
THEOREM NothingLeft == Spec => []NothingLeftToRemove
<1>1. IInv => NothingLeftToRemove
  <2> SUFFICES ASSUME IInv, NEW q \in Procs, Worked(q), NEW b \in Kept(q)
               PROVE  Entered(q, b)
    BY DEF NothingLeftToRemove, Kept, Entered
  <2>1. HasGraph(q) /\ q <= Behind
    <3>1. p \in Procs /\ q <= NProcs
      BY DEF IInv, TypeOK, Procs
    <3>2. phase # "construct" /\ phase # "done" => Behind = p - 1
      BY DEF Behind
    <3>3. phase = "done" => Behind = NProcs
      BY DEF Behind
    <3> QED BY <3>1, <3>2, <3>3 DEF Worked, HasGraph, Procs
  <2> QED BY <2>1 DEF IInv, Swept
<1> QED BY <1>1, SpecIInv, PTL
=============================================================================
