--------------------------- MODULE DataflowProofs ---------------------------
(***************************************************************************)
(* Proofs about Dataflow, for every graph and any uses and definitions.    *)
(* Nothing is found live that is not, whatever the bit set of pending      *)
(* blocks makes of the order of the visits; and everything that is live is *)
(* found if no block is left that should have been on pending again.       *)
(***************************************************************************)
EXTENDS Dataflow, WellFoundedInduction, TLAPS

(* A variable is live at the end of a block if it is at the start of one   *)
(* of its successors.                                                      *)
LiveAtEnd(v, b) == \E s \in Range(g.succs[b]) : LiveAtStart(v, s)

Types ==
    /\ \A b \in Blocks : Range(g.succs[b]) \subseteq Blocks
    /\ DOMAIN in = Blocks /\ DOMAIN out = Blocks

(* What is found at the end of a block was found at the start of another,  *)
(* now or earlier.                                                         *)
DfIInv ==
    /\ Types
    /\ NotTooLive
    /\ \A b \in Blocks : \A v \in out[b] : LiveAtEnd(v, b)

LEMMA Used ==
    ASSUME NEW b \in Blocks, NEW v \in ud.use[b]
    PROVE  LiveAtStart(v, b)
BY DEF LiveAtStart

LEMMA Kept ==
    ASSUME Types, NEW b \in Blocks, NEW v, v \notin ud.def[b], LiveAtEnd(v, b)
    PROVE  LiveAtStart(v, b)
<1>1. PICK s \in Range(g.succs[b]) : LiveAtStart(v, s)
  BY DEF LiveAtEnd
<1>2. <<b, s>> \in Edges(g)
  BY DEF Edges, Types
<1> SUFFICES ASSUME NEW S \in SUBSET Blocks,
                    \A c \in Blocks : v \in ud.use[c] => c \in S,
                    \A e \in Edges(g) : e[2] \in S /\ v \notin ud.def[e[1]] => e[1] \in S
             PROVE  b \in S
  BY DEF LiveAtStart
<1>3. s \in S
  BY <1>1 DEF LiveAtStart
<1>4. <<b, s>>[1] = b /\ <<b, s>>[2] = s
  OBVIOUS
<1> QED BY <1>2, <1>3, <1>4

(* The join and the transfer function find nothing that is not live.       *)
LEMMA JoinRight ==
    ASSUME DfIInv, NEW b \in Blocks, NEW v \in Joined(b)
    PROVE  LiveAtEnd(v, b)
<1>1. v \in out[b] \/ \E s \in Range(g.succs[b]) : v \in in[s]
  BY DEF Joined, Collected
<1>2. Range(g.succs[b]) \subseteq Blocks
  BY DEF DfIInv, Types
<1> QED BY <1>1, <1>2 DEF DfIInv, NotTooLive, LiveAtEnd

LEMMA TransferRight ==
    ASSUME DfIInv, NEW b \in Blocks, NEW v \in InAfter(b)
    PROVE  LiveAtStart(v, b)
<1>1. CASE Applies(b)
  <2>1. v \in ud.use[b] \/ (v \in Joined(b) /\ v \notin ud.def[b])
    BY <1>1 DEF InAfter, Live
  <2> QED BY <2>1, Used, Kept, JoinRight DEF DfIInv
<1>2. CASE ~Applies(b)
  <2>1. v \in in[b]
    BY <1>2 DEF InAfter, InBefore
  <2> QED BY <2>1 DEF DfIInv, NotTooLive
<1> QED BY <1>1, <1>2

LEMMA LivenessSame ==
    ASSUME UNCHANGED <<g, ud>>
    PROVE  /\ \A v, b : LiveAtStart(v, b)' <=> LiveAtStart(v, b)
           /\ \A v, b : LiveAtEnd(v, b)' <=> LiveAtEnd(v, b)
<1>1. \A v, b : LiveAtStart(v, b)' <=> LiveAtStart(v, b)
  BY DEF LiveAtStart
<1>2. \A v, b : LiveAtEnd(v, b)' <=> LiveAtEnd(v, b)
  BY <1>1 DEF LiveAtEnd
<1> QED BY <1>1, <1>2

LEMMA DfInitIInv == DfInit => DfIInv
<1> SUFFICES ASSUME DfInit
             PROVE  DfIInv
  OBVIOUS
<1>1. PICK lists \in [Blocks -> UNION Range(Lists)] :
          (\A b \in Blocks : lists[b] \in Lists[b]) /\ g = GraphOf(lists)
  BY DEF DfInit, Init
<1>2. g.succs = lists
  BY <1>1 DEF GraphOf
<1>3. ASSUME NEW b \in Blocks
      PROVE  Range(g.succs[b]) \subseteq Blocks
  <2>1. g.succs[b] \in Seq(Blocks)
    BY <1>1, <1>2, ListsAssumption
  <2> QED BY <2>1 DEF Range
<1>4. in = [b \in Blocks |-> {}] /\ out = [b \in Blocks |-> {}]
  BY DEF DfInit
<1> QED BY <1>3, <1>4 DEF DfIInv, Types, NotTooLive

LEMMA VisitRight ==
    ASSUME DfIInv, VisitBlock
    PROVE  DfIInv'
<1> DEFINE b == worklist[pos]
<1>1. /\ UNCHANGED <<g, ud>> /\ g' = g
      /\ out' = [out EXCEPT ![b] = Joined(b)] /\ in' = [in EXCEPT ![b] = InAfter(b)]
  BY DEF VisitBlock, vars
<1> HIDE DEF b
<1>2. Types'
  BY <1>1 DEF DfIInv, Types
<1>3. ASSUME NEW c \in Blocks, NEW v \in in'[c]
      PROVE  LiveAtStart(v, c)
  <2>1. CASE c = b
    BY <1>1, <1>3, <2>1, TransferRight DEF DfIInv, Types
  <2>2. CASE c # b
    BY <1>1, <1>3, <2>2 DEF DfIInv, Types, NotTooLive
  <2> QED BY <2>1, <2>2
<1>4. ASSUME NEW c \in Blocks, NEW v \in out'[c]
      PROVE  LiveAtEnd(v, c)
  <2>1. CASE c = b
    BY <1>1, <1>4, <2>1, JoinRight DEF DfIInv, Types
  <2>2. CASE c # b
    BY <1>1, <1>4, <2>2 DEF DfIInv, Types
  <2> QED BY <2>1, <2>2
<1>5. NotTooLive'
  BY <1>1, <1>3, LivenessSame DEF NotTooLive
<1>6. (\A c \in Blocks : \A v \in out[c] : LiveAtEnd(v, c))'
  BY <1>1, <1>4, LivenessSame
<1> QED BY <1>2, <1>5, <1>6 DEF DfIInv

LEMMA DfNextIInv == DfIInv /\ [DfNext]_<<vars, dfVars>> => DfIInv'
<1> SUFFICES ASSUME DfIInv, [DfNext]_<<vars, dfVars>>
             PROVE  DfIInv'
  OBVIOUS
<1>1. ASSUME UNCHANGED <<g, ud, in, out>>
      PROVE  DfIInv'
  <2>1. \A v, b : (LiveAtStart(v, b)' <=> LiveAtStart(v, b)) /\ (LiveAtEnd(v, b)' <=> LiveAtEnd(v, b))
    BY <1>1, LivenessSame
  <2> QED BY <1>1, <2>1 DEF DfIInv, Types, NotTooLive
<1>2. CASE Number
  BY <1>1, <1>2 DEF Number, Step, Classify, Descend, PassEdge, Finish, dfVars
<1>3. CASE StartIteration
  BY <1>1, <1>3 DEF StartIteration, vars
<1>4. CASE VisitBlock
  BY <1>4, VisitRight
<1>5. CASE EndIteration
  BY <1>1, <1>5 DEF EndIteration, vars
<1>6. CASE UNCHANGED <<vars, dfVars>>
  BY <1>1, <1>6 DEF vars, dfVars
<1> QED BY <1>2, <1>3, <1>4, <1>5, <1>6 DEF DfNext, DfStep, Over

(* The solver finds no variable live that is not, at any moment and for    *)
(* any number of variables.                                                *)
THEOREM NothingTooLive == DfSpec => []NotTooLive
<1>1. DfSpec => []DfIInv
  BY DfInitIInv, DfNextIInv, PTL DEF DfSpec
<1> QED BY <1>1, PTL DEF DfIInv

-----------------------------------------------------------------------------
(* Induction over an interval, and the states of a loop *)

LEMMA LeastNumber ==
    ASSUME NEW T, T \subseteq Nat, T # {}
    PROVE  \E x \in T : \A y \in T : x <= y
<1> DEFINE R == OpToRel(<, Nat)
<1>1. IsWellFoundedOn(R, Nat)
  BY NatLessThanWellFounded
<1>2. \E x \in T : \A y \in T : ~ (<<y, x>> \in R)
  <2> HIDE DEF R
  <2> QED BY <1>1, WFMin
<1>3. \A x \in Nat, y \in Nat : y < x => <<y, x>> \in R
  BY DEF OpToRel
<1> HIDE DEF R
<1>4. PICK x \in T : \A y \in T : ~ (<<y, x>> \in R)
  BY <1>2
<1>5. \A y \in T : ~(y < x)
  BY <1>3, <1>4
<1> QED BY <1>5

LEMMA Along ==
    ASSUME NEW N \in Nat, NEW S, 0 \in S, \A k \in 0 .. N : k < N /\ k \in S => k + 1 \in S
    PROVE  \A k \in 0 .. N : k \in S
<1> DEFINE T == {k \in 0 .. N : k \notin S}
<1>1. SUFFICES ASSUME T # {} PROVE FALSE
  OBVIOUS
<1>2. PICK m \in T : \A y \in T : m <= y
  <2>1. T \subseteq Nat
    OBVIOUS
  <2> HIDE DEF T
  <2> QED BY <1>1, <2>1, LeastNumber
<1>3. m \in 0 .. N /\ m \notin S /\ m # 0
  OBVIOUS
<1>4. m - 1 \in 0 .. N /\ m - 1 < N /\ m - 1 < m
  BY <1>3
<1>5. m - 1 \notin T
  <2> HIDE DEF T
  <2> QED BY <1>2, <1>3, <1>4
<1>6. (m - 1) + 1 \in S
  BY <1>4, <1>5
<1> QED BY <1>3, <1>6

(* A loop of N rounds, of which G is the body, has its states.             *)
States(h, N, z, G) == h = [k \in 0 .. N |-> IF k = 0 THEN z ELSE G[<<k, h[k - 1]>>]]

LEMMA Loop ==
    ASSUME NEW N \in Nat, NEW V, NEW z \in V, NEW G,
           \A k \in 1 .. N : \A x \in V : G[<<k, x>>] \in V
    PROVE  \E h \in [0 .. N -> V] : States(h, N, z, G)
<1> DEFINE S == {m \in 0 .. N : \E h \in [0 .. m -> V] : States(h, m, z, G)}
<1>1. 0 \in S
  <2> DEFINE h == [k \in 0 .. 0 |-> z]
  <2>1. h \in [0 .. 0 -> V] /\ h = [k \in 0 .. 0 |-> IF k = 0 THEN z ELSE G[<<k, h[k - 1]>>]]
    OBVIOUS
  <2> HIDE DEF h
  <2>2. States(h, 0, z, G)
    BY <2>1 DEF States
  <2> QED BY <2>1, <2>2
<1>2. ASSUME NEW m \in 0 .. N, m < N, m \in S PROVE m + 1 \in S
  <2>1. PICK h \in [0 .. m -> V] : States(h, m, z, G)
    BY <1>2
  <2> DEFINE f == [k \in 0 .. m + 1 |-> IF k = m + 1 THEN G[<<m + 1, h[m]>>] ELSE h[k]]
             e == [k \in 0 .. m + 1 |-> IF k = 0 THEN z ELSE G[<<k, f[k - 1]>>]]
  <2>2. m + 1 \in 1 .. N /\ h[m] \in V
    BY <1>2, <2>1
  <2>3. f \in [0 .. m + 1 -> V]
    BY <2>1, <2>2
  <2>4. ASSUME NEW k \in 0 .. m + 1 PROVE f[k] = e[k]
    <3>1. CASE k = m + 1
      <4>1. k # 0 /\ k - 1 = m /\ m \in 0 .. m + 1 /\ m # m + 1
        BY <3>1
      <4>2. f[k - 1] = h[m]
        BY <4>1
      <4> QED BY <4>1, <4>2, <3>1
    <3>2. CASE k # m + 1
      <4>1. k \in 0 .. m
        BY <3>2
      <4>2. f[k] = IF k = 0 THEN z ELSE G[<<k, h[k - 1]>>]
        BY <4>1, <3>2, <2>1 DEF States
      <4>3. k # 0 => f[k - 1] = h[k - 1]
        BY <4>1
      <4> QED BY <4>2, <4>3
    <3> QED BY <3>1, <3>2
  <2>5. f = e
    BY <2>4
  <2>6. States(f, m + 1, z, G)
    BY <2>5 DEF States
  <2> HIDE DEF f
  <2> QED BY <2>2, <2>3, <2>6
<1>3. N \in S
  <2> HIDE DEF S
  <2>1. \A k \in 0 .. N : k \in S
    BY <1>1, <1>2, Along
  <2> QED BY <2>1
<1> QED BY <1>3

-----------------------------------------------------------------------------
(* The memory of a bit set.  Clearing a set keeps it, so it tells which    *)
(* bits were ever turned on.                                               *)

(* Division with remainder: the word and the bit of a number.              *)
LEMMA DivMod ==
    ASSUME NEW a \in Int, NEW b \in Nat \ {0}
    PROVE  a = b * (a \div b) + (a % b) /\ a % b \in 0..(b - 1) /\ a \div b \in Int
OBVIOUS

LEMMA Quotient ==
    ASSUME NEW a \in Nat, NEW b \in Nat \ {0}
    PROVE  /\ a \div b \in Nat /\ a % b \in 0..(b - 1)
           /\ a = b * (a \div b) + (a % b)
<1>1. a \div b \in Nat
  OBVIOUS
<1> QED BY <1>1, DivMod

LEMMA WordAndBit ==
    ASSUME NEW n \in Nat
    PROVE  /\ WordOf(n) \in Nat \ {0} /\ BitOf(n) \in 0..(WordBits - 1)
           /\ n = (WordOf(n) - 1) * WordBits + BitOf(n)
<1>1. WordBits \in Nat \ {0}
  BY WordSizeAssumption
<1> DEFINE q == n \div WordBits
           r == n % WordBits
<1>2. WordOf(n) = q + 1 /\ BitOf(n) = r
  BY DEF WordOf, BitOf
<1>3. q \in Nat /\ r \in 0..(WordBits - 1) /\ n = WordBits * q + r
  BY <1>1, Quotient
<1> HIDE DEF q, r
<1> QED BY <1>1, <1>2, <1>3

(* The bit of block b is on in the memory of the bit set, be the word in   *)
(* use or not.                                                             *)
On(bm, b) == WordOf(b) \in DOMAIN bm.varr /\ BitOf(b) \in bm.varr[WordOf(b)]

Memories == [els : Nat, varr : Seq(SUBSET Nat)]
MemoryOK(bm) == bm \in Memories /\ bm.els <= Len(bm.varr)

SameBits(bm, e) == MemoryOK(e) /\ \A n \in Nat : On(e, n) <=> On(bm, n)

LEMMA BlankMemory ==
    ASSUME NEW n \in Nat
    PROVE  /\ Zeros(n) \in Seq(SUBSET Nat) /\ Len(Zeros(n)) = n
           /\ \A w \in 1..n : Zeros(n)[w] = {}
BY DEF Zeros

LEMMA Joining ==
    ASSUME NEW S, NEW u \in Seq(S), NEW v \in Seq(S)
    PROVE  /\ u \o v \in Seq(S) /\ Len(u \o v) = Len(u) + Len(v)
           /\ \A i \in 1..Len(u) : (u \o v)[i] = u[i]
           /\ \A i \in 1..Len(v) : (u \o v)[Len(u) + i] = v[i]
OBVIOUS

(* There is room for n bits, and no bit is turned on or off.               *)
LEMMA ExpandKeeps ==
    ASSUME NEW bm, MemoryOK(bm), NEW n \in Nat
    PROVE  /\ SameBits(bm, Expand(bm, n + 1))
           /\ WordOf(n) \in DOMAIN Expand(bm, n + 1).varr
<1> DEFINE m == Words(n + 1)
           e == Expand(bm, n + 1)
           len == Len(bm.varr)
<1>1. /\ bm.els \in Nat /\ bm.varr \in Seq(SUBSET Nat) /\ len \in Nat /\ bm.els <= len
      /\ DOMAIN bm.varr = 1 .. len
  BY DEF MemoryOK, Memories
<1>2. m \in Nat /\ WordOf(n) \in Nat \ {0} /\ WordOf(n) <= m
  <2>1. WordBits \in Nat \ {0}
    BY WordSizeAssumption
  <2>2. n + 1 + WordBits - 1 = n + WordBits /\ n + WordBits \in Nat
    BY <2>1
  <2>3. m = (n + WordBits) \div WordBits
    BY <2>2 DEF Words
  <2> HIDE DEF m
  <2> DEFINE q == (n + WordBits) \div WordBits
             r == (n + WordBits) % WordBits
             p == n \div WordBits
             t == n % WordBits
  <2>4. q \in Nat /\ r \in 0 .. (WordBits - 1) /\ n + WordBits = WordBits * q + r
    BY <2>1, <2>2, Quotient
  <2>5. p \in Nat /\ t \in 0 .. (WordBits - 1) /\ n = WordBits * p + t
    BY <2>1, Quotient
  <2>6. WordOf(n) = p + 1
    BY DEF WordOf
  <2>7. m = q
    BY <2>3
  <2> HIDE DEF q, r, p, t
  <2>8. ~(p + 1 > q)
    <3>1. SUFFICES ASSUME p + 1 > q PROVE FALSE
      OBVIOUS
    <3>2. p >= q
      BY <3>1, <2>4, <2>5
    <3>3. WordBits * p >= WordBits * q
      BY <3>2, <2>1, <2>4, <2>5
    <3> QED BY <3>3, <2>1, <2>4, <2>5
  <2> QED BY <2>4, <2>5, <2>6, <2>7, <2>8
<1>3. CASE m <= bm.els
  <2>1. e = bm
    BY <1>3 DEF Expand
  <2> HIDE DEF e, m
  <2>2. WordOf(n) \in 1 .. len
    BY <1>1, <1>2, <1>3
  <2> QED BY <1>1, <2>1, <2>2 DEF SameBits, e
<1>4. CASE ~(m <= bm.els)
  <2> DEFINE more == Larger(0, m - len)
             z == Zeros(more)
             v == bm.varr \o z
  <2>1. e = [els |-> m, varr |-> v]
    BY <1>4 DEF Expand
  <2>2. more \in Nat /\ more >= m - len
    BY <1>1, <1>2 DEF Larger
  <2> HIDE DEF more
  <2>3. z \in Seq(SUBSET Nat) /\ Len(z) = more /\ \A w \in 1..more : z[w] = {}
    BY <2>2, BlankMemory
  <2> HIDE DEF z
  <2>4. /\ v \in Seq(SUBSET Nat) /\ Len(v) = len + more
        /\ \A w \in 1..len : v[w] = bm.varr[w]
        /\ \A i \in 1..more : v[len + i] = {}
    <3> DEFINE Set == SUBSET Nat
    <3>1. bm.varr \in Seq(Set) /\ z \in Seq(Set)
      BY <1>1, <2>3
    <3> HIDE DEF Set
    <3>2. /\ v \in Seq(Set) /\ Len(v) = Len(bm.varr) + Len(z)
          /\ \A w \in 1..Len(bm.varr) : v[w] = bm.varr[w]
          /\ \A i \in 1..Len(z) : v[Len(bm.varr) + i] = z[i]
      BY <3>1, Joining
    <3> HIDE DEF v
    <3> QED BY <2>3, <3>2 DEF Set
  <2> HIDE DEF v, m, e
  <2>5. e.els = m /\ e.varr = v /\ DOMAIN v = 1 .. len + more
    BY <2>1, <2>4
  <2>6. MemoryOK(e)
    BY <1>1, <1>2, <2>1, <2>2, <2>4 DEF MemoryOK, Memories
  <2>7. ASSUME NEW k \in Nat PROVE On(e, k) <=> On(bm, k)
    <3> DEFINE w == WordOf(k)
    <3>1. CASE w \in 1 .. len
      <4>1. w \in 1 .. len + more /\ v[w] = bm.varr[w]
        BY <3>1, <1>1, <2>2, <2>4
      <4> QED BY <4>1, <3>1, <1>1, <2>5 DEF On
    <3>2. CASE w \in (len + 1) .. (len + more)
      <4>1. w - len \in 1 .. more /\ len + (w - len) = w /\ w \notin 1 .. len
        BY <3>2, <1>1, <2>2
      <4>2. v[w] = {}
        BY <4>1, <2>4
      <4> QED BY <4>1, <4>2, <1>1, <2>5 DEF On
    <3>3. CASE w \notin 1 .. len /\ w \notin (len + 1) .. (len + more)
      <4>1. w \notin 1 .. len + more
        BY <3>3, <1>1, <2>2
      <4> QED BY <4>1, <3>3, <1>1, <2>5 DEF On
    <3> QED BY <3>1, <3>2, <3>3
  <2>8. WordOf(n) \in 1 .. len + more
    BY <1>1, <1>2, <2>2
  <2> QED BY <2>5, <2>6, <2>7, <2>8 DEF SameBits, e
<1> QED BY <1>3, <1>4

(* The bit of n is on, and the result says whether it was not before, even *)
(* if the set had been cleared since it was turned on.                     *)
LEMMA SetBitOn ==
    ASSUME NEW bm, MemoryOK(bm), NEW n \in Nat
    PROVE  LET r == SetBitP(bm, n)
           IN  /\ MemoryOK(r.bm) /\ (r.value <=> ~ On(bm, n))
               /\ \A k \in Nat : On(r.bm, k) <=> On(bm, k) \/ k = n
<1> DEFINE b == Expand(bm, n + 1)
           w == WordOf(n)
           c == [b EXCEPT !.varr[w] = b.varr[w] \cup {BitOf(n)}]
           r == SetBitP(bm, n)
<1>1. SameBits(bm, b) /\ w \in DOMAIN b.varr
  BY ExpandKeeps
<1>2. r.bm = c /\ r.value = (BitOf(n) \notin b.varr[w])
  BY DEF SetBitP, Result
<1> HIDE DEF b, r
<1>3. /\ b \in Memories /\ b.els \in Nat /\ b.varr \in Seq(SUBSET Nat) /\ b.els <= Len(b.varr)
      /\ DOMAIN b.varr = 1 .. Len(b.varr) /\ Len(b.varr) \in Nat
  BY <1>1 DEF SameBits, MemoryOK, Memories
<1>4. BitOf(n) \in Nat /\ n = (w - 1) * WordBits + BitOf(n)
  BY WordAndBit
<1> DEFINE u == [b.varr EXCEPT ![w] = @ \cup {BitOf(n)}]
<1>5. c = [els |-> b.els, varr |-> u]
  <2> HIDE DEF w
  <2>1. b = [els |-> b.els, varr |-> b.varr]
    BY <1>3 DEF Memories
  <2>2. c = [b EXCEPT !.varr = u]
    BY <1>3 DEF Memories
  <2> HIDE DEF u, c
  <2> QED BY <2>1, <2>2
<1> HIDE DEF c
<1>6. u \in Seq(SUBSET Nat) /\ Len(u) = Len(b.varr) /\ DOMAIN u = DOMAIN b.varr
  <2> HIDE DEF w
  <2> QED BY <1>1, <1>3, <1>4
<1>7. MemoryOK(c)
  <2> HIDE DEF u
  <2> QED BY <1>3, <1>5, <1>6 DEF MemoryOK, Memories
<1>8. ASSUME NEW k \in Nat PROVE On(c, k) <=> On(b, k) \/ k = n
  <2>1. c.varr = u
    BY <1>5
  <2>2. CASE WordOf(k) = w
    <3>1. u[w] = b.varr[w] \cup {BitOf(n)}
      BY <1>1
    <3>2. BitOf(k) = BitOf(n) <=> k = n
      BY <2>2, <1>4, WordAndBit
    <3> HIDE DEF u
    <3> QED BY <2>1, <2>2, <3>1, <3>2, <1>1, <1>6 DEF On
  <2>3. CASE WordOf(k) # w
    <3>1. WordOf(k) \in DOMAIN u => u[WordOf(k)] = b.varr[WordOf(k)]
      BY <2>3, <1>6
    <3>2. k # n
      BY <2>3
    <3> HIDE DEF u
    <3> QED BY <2>1, <3>1, <3>2, <1>6 DEF On
  <2> QED BY <2>2, <2>3
<1>9. r.value <=> ~ On(bm, n)
  BY <1>1, <1>2 DEF On, SameBits
<1> QED BY <1>1, <1>2, <1>7, <1>8, <1>9 DEF SameBits, r

(* Clearing turns no bit off.                                              *)
LEMMA ClearKeeps ==
    ASSUME NEW bm, MemoryOK(bm)
    PROVE  SameBits(bm, Clear(bm))
<1>1. Clear(bm) = [els |-> 0, varr |-> bm.varr]
  BY DEF Clear, MemoryOK, Memories
<1>2. bm.varr \in Seq(SUBSET Nat) /\ Len(bm.varr) \in Nat
  BY DEF MemoryOK, Memories
<1> QED BY <1>1, <1>2 DEF SameBits, On, MemoryOK, Memories

LEMMA CreateEmpty == MemoryOK(Create(512)) /\ \A n \in Nat : ~ On(Create(512), n)
<1> DEFINE m == Words(512)
           q == (512 + WordBits - 1) \div WordBits
<1>1. m \in Nat
  <2>1. WordBits \in Nat \ {0}
    BY WordSizeAssumption
  <2>2. 512 + WordBits - 1 \in Nat
    BY <2>1
  <2>3. q \in Nat
    BY <2>1, <2>2, Quotient
  <2> QED BY <2>3 DEF Words
<1>2. Create(512) = [els |-> 0, varr |-> Zeros(m)]
  BY DEF Create
<1> HIDE DEF m
<1>3. Zeros(m) \in Seq(SUBSET Nat) /\ Len(Zeros(m)) = m /\ \A w \in 1..m : Zeros(m)[w] = {}
  BY <1>1, BlankMemory
<1>4. DOMAIN Zeros(m) = 1 .. m
  BY <1>3
<1> QED BY <1>1, <1>2, <1>3, <1>4 DEF MemoryOK, Memories, On

-----------------------------------------------------------------------------
(* The graph and the list of pending blocks *)

(* The sources of the edges to b are its predecessors.                     *)
SourceStep(lists, b, a, l) == IF b \in Range(lists[a]) THEN Append(l, a) ELSE l

IsSources(h, lists, b) ==
    h = [a \in 0..NBlocks |-> IF a = 0 THEN <<>>
                              ELSE IF b \in Range(lists[a]) THEN Append(h[a - 1], a)
                              ELSE h[a - 1]]

(* The elements of a longer list.                                          *)
LEMMA AppendRange ==
    ASSUME NEW S, NEW l \in Seq(S), NEW x \in S
    PROVE  Append(l, x) \in Seq(S) /\ Range(Append(l, x)) = Range(l) \cup {x}
<1> DEFINE m == Append(l, x)
<1>1. /\ m \in Seq(S) /\ Len(l) \in Nat /\ DOMAIN l = 1 .. Len(l) /\ DOMAIN m = 1 .. Len(l) + 1
      /\ m[Len(l) + 1] = x /\ \A i \in 1 .. Len(l) : m[i] = l[i]
  OBVIOUS
<1> HIDE DEF m
<1>2. \A i : i \in DOMAIN m <=> i \in DOMAIN l \/ i = Len(l) + 1
  BY <1>1
<1>3. \A i \in DOMAIN l : m[i] = l[i]
  BY <1>1
<1>4. Range(m) = Range(l) \cup {x}
  BY <1>1, <1>2, <1>3 DEF Range
<1> QED BY <1>1, <1>4 DEF m

LEMMA SourcesDefined ==
    ASSUME NEW lists, NEW b
    PROVE  \E h : IsSources(h, lists, b)
<1> DEFINE V == Seq(Blocks)
           G == [x \in (1 .. NBlocks) \X V |-> SourceStep(lists, b, x[1], x[2])]
<1>1. NBlocks \in Nat
  BY NBlocksAssumption
<1>2. \A k \in 1 .. NBlocks, l \in V : G[<<k, l>>] = SourceStep(lists, b, k, l)
  OBVIOUS
<1>3. ASSUME NEW k \in 1 .. NBlocks, NEW l \in V PROVE G[<<k, l>>] \in V
  <2>1. k \in Blocks /\ Append(l, k) \in V
    BY AppendRange DEF Blocks
  <2> QED BY <1>2, <2>1 DEF SourceStep
<1>4. <<>> \in V
  OBVIOUS
<1> HIDE DEF G, V
<1>5. PICK h \in [0 .. NBlocks -> V] : States(h, NBlocks, <<>>, G)
  BY <1>1, <1>3, <1>4, Loop
<1> DEFINE e == [a \in 0..NBlocks |-> IF a = 0 THEN <<>>
                                      ELSE IF b \in Range(lists[a]) THEN Append(h[a - 1], a)
                                      ELSE h[a - 1]]
<1>6. ASSUME NEW a \in 0 .. NBlocks PROVE h[a] = e[a]
  <2>1. h[a] = IF a = 0 THEN <<>> ELSE G[<<a, h[a - 1]>>]
    BY <1>5 DEF States
  <2>2. a # 0 => a \in 1 .. NBlocks /\ h[a - 1] \in V
    BY <1>1, <1>5
  <2> QED BY <2>1, <2>2, <1>2 DEF SourceStep
<1>7. h = e
  BY <1>5, <1>6
<1> QED BY <1>7 DEF IsSources

LEMMA SourcesRight ==
    ASSUME NEW lists, NEW b
    PROVE  /\ Sources(lists, b) \in Seq(Blocks)
           /\ Range(Sources(lists, b)) = {a \in Blocks : b \in Range(lists[a])}
<1> DEFINE h == CHOOSE x : IsSources(x, lists, b)
           S == {n \in 0 .. NBlocks : h[n] \in Seq(Blocks)
                                      /\ Range(h[n]) = {a \in 1 .. n : b \in Range(lists[a])}}
<1>1. NBlocks \in Nat /\ NBlocks \in 0 .. NBlocks
  BY NBlocksAssumption
<1>2. IsSources(h, lists, b)
  BY SourcesDefined
<1>3. Sources(lists, b) = h[NBlocks]
  BY DEF Sources, IsSources
<1> HIDE DEF h
<1>4. 0 \in S
  <2>1. h[0] = <<>>
    BY <1>1, <1>2 DEF IsSources
  <2>2. <<>> \in Seq(Blocks) /\ Range(<<>>) = {}
    BY DEF Range
  <2>3. {a \in 1 .. 0 : b \in Range(lists[a])} = {}
    OBVIOUS
  <2>4. h[0] \in Seq(Blocks) /\ Range(h[0]) = {a \in 1 .. 0 : b \in Range(lists[a])}
    BY <2>1, <2>2, <2>3, Zenon
  <2>5. 0 \in 0 .. NBlocks
    BY <1>1
  <2> QED BY <2>4, <2>5
<1>5. ASSUME NEW m \in 0 .. NBlocks, m < NBlocks, m \in S PROVE m + 1 \in S
  <2> DEFINE k == m + 1
  <2>1. k \in 0 .. NBlocks /\ k # 0 /\ k - 1 = m /\ k \in Blocks
    BY <1>1, <1>5 DEF Blocks
  <2>2. h[k] = SourceStep(lists, b, k, h[m])
    BY <2>1, <1>2 DEF IsSources, SourceStep
  <2>3. h[m] \in Seq(Blocks) /\ Range(h[m]) = {a \in 1 .. m : b \in Range(lists[a])}
    BY <1>5
  <2>4. \A a : a \in 1 .. k <=> a \in 1 .. m \/ a = k
    BY <1>1
  <2> HIDE DEF k
  <2>5. Append(h[m], k) \in Seq(Blocks) /\ Range(Append(h[m], k)) = Range(h[m]) \cup {k}
    BY <2>1, <2>3, AppendRange
  <2>6. Range(h[k]) = {a \in 1 .. k : b \in Range(lists[a])} /\ h[k] \in Seq(Blocks)
    <3>1. CASE b \in Range(lists[k])
      BY <3>1, <2>2, <2>3, <2>4, <2>5 DEF SourceStep
    <3>2. CASE b \notin Range(lists[k])
      BY <3>2, <2>2, <2>3, <2>4 DEF SourceStep
    <3> QED BY <3>1, <3>2
  <2>7. k \in S
    BY <2>1, <2>6
  <2> QED BY <2>7 DEF k
<1> HIDE DEF S
<1>6. NBlocks \in S
  <2>1. \A k \in 0 .. NBlocks : k \in S
    BY <1>1, <1>4, <1>5, Along
  <2> QED BY <1>1, <2>1
<1> QED BY <1>3, <1>6 DEF S, Blocks

(* Putting a list of blocks on pending, one by one.                        *)
ConsiderStep(s, b) ==
    LET r == SetBitP(s.bm, b)
    IN  [list |-> IF r.value THEN Append(s.list, b) ELSE s.list, bm |-> r.bm]

AtFirst == [list |-> pending, bm |-> bb_to_consider]

IsConsidered(f, preds) ==
    f = [k \in 0..Len(preds) |-> IF k = 0 THEN AtFirst ELSE ConsiderStep(f[k - 1], preds[k])]

PendingOK(s) == s \in [list : Seq(Blocks), bm : Memories] /\ MemoryOK(s.bm)

(* A block that was never noted is put on pending.                         *)
LEMMA ConsiderOne ==
    ASSUME NEW s, PendingOK(s), NEW b \in Blocks
    PROVE  LET t == ConsiderStep(s, b)
           IN  /\ PendingOK(t)
               /\ Range(t.list) = Range(s.list) \cup (IF On(s.bm, b) THEN {} ELSE {b})
               /\ \A k \in Nat : On(t.bm, k) <=> On(s.bm, k) \/ k = b
<1> DEFINE r == SetBitP(s.bm, b)
           t == ConsiderStep(s, b)
<1>1. b \in Nat /\ MemoryOK(s.bm) /\ s.list \in Seq(Blocks)
  BY NBlocksAssumption DEF Blocks, PendingOK
<1>2. /\ MemoryOK(r.bm) /\ (r.value <=> ~ On(s.bm, b))
      /\ \A k \in Nat : On(r.bm, k) <=> On(s.bm, k) \/ k = b
  BY <1>1, SetBitOn
<1>3. t = [list |-> IF r.value THEN Append(s.list, b) ELSE s.list, bm |-> r.bm]
  BY DEF ConsiderStep
<1> HIDE DEF r, t
<1>4. t.bm = r.bm /\ t.list = IF r.value THEN Append(s.list, b) ELSE s.list
  BY <1>3
<1>5. Append(s.list, b) \in Seq(Blocks) /\ Range(Append(s.list, b)) = Range(s.list) \cup {b}
  BY <1>1, AppendRange
<1>6. t.list \in Seq(Blocks) /\ r.bm \in Memories
  BY <1>1, <1>2, <1>4, <1>5 DEF MemoryOK
<1>7. PendingOK(t)
  BY <1>2, <1>3, <1>4, <1>6 DEF PendingOK
<1>8. Range(t.list) = Range(s.list) \cup (IF On(s.bm, b) THEN {} ELSE {b})
  BY <1>2, <1>4, <1>5
<1> QED BY <1>2, <1>4, <1>7, <1>8 DEF t

LEMMA ConsiderDefined ==
    ASSUME NEW preds \in Seq(Blocks), PendingOK(AtFirst)
    PROVE  \E f : IsConsidered(f, preds)
<1> DEFINE N == Len(preds)
           V == {s \in [list : Seq(Blocks), bm : Memories] : PendingOK(s)}
           G == [x \in (1 .. N) \X V |-> ConsiderStep(x[2], preds[x[1]])]
<1>1. N \in Nat /\ \A k \in 1 .. N : preds[k] \in Blocks
  OBVIOUS
<1>2. \A k \in 1 .. N, s \in V : G[<<k, s>>] = ConsiderStep(s, preds[k])
  OBVIOUS
<1>3. \A s : s \in V <=> PendingOK(s)
  BY DEF PendingOK
<1> HIDE DEF G, V, N
<1>4. ASSUME NEW k \in 1 .. N, NEW s \in V PROVE G[<<k, s>>] \in V
  BY <1>1, <1>2, <1>3, ConsiderOne
<1>5. AtFirst \in V
  BY <1>3
<1>6. PICK h \in [0 .. N -> V] : States(h, N, AtFirst, G)
  BY <1>1, <1>4, <1>5, Loop
<1> DEFINE e == [k \in 0..N |-> IF k = 0 THEN AtFirst ELSE ConsiderStep(h[k - 1], preds[k])]
<1>7. ASSUME NEW k \in 0 .. N PROVE h[k] = e[k]
  <2>1. h[k] = IF k = 0 THEN AtFirst ELSE G[<<k, h[k - 1]>>]
    BY <1>6 DEF States
  <2>2. k # 0 => k \in 1 .. N /\ h[k - 1] \in V
    BY <1>1, <1>6
  <2> QED BY <2>1, <2>2, <1>2
<1>8. h = e
  BY <1>6, <1>7
<1> QED BY <1>8 DEF IsConsidered, N

(* After k of them.                                                        *)
ConsideredOK(s, preds, k) ==
    /\ PendingOK(s)
    /\ Range(pending) \subseteq Range(s.list)
    /\ Range(s.list) \subseteq Range(pending) \cup Range(preds)
    /\ \A i \in 1 .. k : preds[i] \in Range(s.list) \/ On(bb_to_consider, preds[i])
    /\ \A n \in Nat : On(s.bm, n) => On(bb_to_consider, n) \/ \E i \in 1 .. k : preds[i] = n

LEMMA ConsideredStep ==
    ASSUME NEW preds \in Seq(Blocks), NEW m \in Nat, m < Len(preds), NEW s, ConsideredOK(s, preds, m)
    PROVE  ConsideredOK(ConsiderStep(s, preds[m + 1]), preds, m + 1)
<1> DEFINE b == preds[m + 1]
           t == ConsiderStep(s, b)
<1>1. m + 1 \in DOMAIN preds /\ b \in Blocks /\ b \in Range(preds) /\ b \in Nat
  BY NBlocksAssumption DEF Blocks, Range
<1>2. \A i : i \in 1 .. m + 1 <=> i \in 1 .. m \/ i = m + 1
  OBVIOUS
<1> HIDE DEF b
<1>3. /\ PendingOK(t)
      /\ Range(t.list) = Range(s.list) \cup (IF On(s.bm, b) THEN {} ELSE {b})
      /\ \A k \in Nat : On(t.bm, k) <=> On(s.bm, k) \/ k = b
  BY <1>1, ConsiderOne DEF ConsideredOK
<1> HIDE DEF t
<1>4. ASSUME NEW i \in 1 .. m + 1
      PROVE  preds[i] \in Range(t.list) \/ On(bb_to_consider, preds[i])
  <2>1. \A j \in 1 .. m : preds[j] \in Range(t.list) \/ On(bb_to_consider, preds[j])
    BY <1>3 DEF ConsideredOK
  <2>2. b \in Range(t.list) \/ On(bb_to_consider, b)
    <3>1. CASE ~ On(s.bm, b)
      BY <3>1, <1>3
    <3>2. CASE On(s.bm, b)
      <4>1. On(bb_to_consider, b) \/ \E j \in 1 .. m : preds[j] = b
        BY <3>2, <1>1 DEF ConsideredOK
      <4> QED BY <4>1, <2>1
    <3> QED BY <3>1, <3>2
  <2> QED BY <2>1, <2>2, <1>2 DEF b
<1>5. ASSUME NEW n \in Nat, On(t.bm, n)
      PROVE  On(bb_to_consider, n) \/ \E i \in 1 .. m + 1 : preds[i] = n
  <2>1. On(s.bm, n) \/ n = b
    BY <1>3, <1>5
  <2>2. m + 1 \in 1 .. m + 1 /\ preds[m + 1] = b
    BY DEF b
  <2> QED BY <2>1, <2>2, <1>2 DEF ConsideredOK
<1>6. Range(pending) \subseteq Range(t.list) /\ Range(t.list) \subseteq Range(pending) \cup Range(preds)
  BY <1>1, <1>3 DEF ConsideredOK
<1>7. ConsideredOK(t, preds, m + 1)
  BY <1>3, <1>4, <1>5, <1>6 DEF ConsideredOK
<1> QED BY <1>7 DEF t, b

LEMMA ConsiderRight ==
    ASSUME NEW preds \in Seq(Blocks), PendingOK(AtFirst)
    PROVE  ConsideredOK(Consider(preds), preds, Len(preds))
<1> DEFINE f == CHOOSE h : IsConsidered(h, preds)
           N == Len(preds)
           S == {k \in 0 .. N : ConsideredOK(f[k], preds, k)}
<1>1. IsConsidered(f, preds)
  BY ConsiderDefined
<1>2. Consider(preds) = f[N]
  BY DEF Consider, IsConsidered, AtFirst, ConsiderStep
<1>3. N \in Nat /\ N \in 0 .. N
  OBVIOUS
<1> HIDE DEF f
<1>4. 0 \in S
  <2>1. f[0] = AtFirst
    BY <1>1, <1>3 DEF IsConsidered
  <2>2. AtFirst.list = pending /\ AtFirst.bm = bb_to_consider
    BY DEF AtFirst
  <2>3. \A i : i \notin 1 .. 0
    OBVIOUS
  <2>4. ConsideredOK(AtFirst, preds, 0)
    BY <2>2, <2>3 DEF ConsideredOK
  <2> QED BY <2>1, <2>4, <1>3
<1>5. ASSUME NEW m \in 0 .. N, m < N, m \in S PROVE m + 1 \in S
  <2>1. m \in Nat /\ m + 1 \in 0 .. N /\ m + 1 # 0 /\ (m + 1) - 1 = m
    BY <1>3, <1>5
  <2>2. f[m + 1] = ConsiderStep(f[m], preds[m + 1])
    BY <2>1, <1>1 DEF IsConsidered
  <2>3. ConsideredOK(f[m], preds, m)
    BY <1>5
  <2>4. ConsideredOK(f[m + 1], preds, m + 1)
    BY <2>1, <2>2, <2>3, <1>5, ConsideredStep
  <2> QED BY <2>1, <2>4
<1>6. \A k \in 0 .. N : k \in S
  <2> HIDE DEF S, N
  <2> QED BY <1>3, <1>4, <1>5, Along
<1>7. N \in S
  BY <1>3, <1>6
<1> QED BY <1>2, <1>7

-----------------------------------------------------------------------------
(* The solver misses nothing, but for the blocks whose bit stayed on from  *)
(* an earlier iteration: those are not put on pending again.  FoundOK(x)   *)
(* is the inductive invariant, for each variable x.                        *)

(* Still to be visited: in this iteration; in this one or the next.        *)
Rest == IF pos = 0 THEN Range(worklist) ELSE {worklist[k] : k \in pos..Len(worklist)}
Awaits(b) == b \in Rest \/ (pos # 0 /\ b \in Range(pending))

NoStop(l) == \A b \in Range(l) : ~ NoSucc(b)

GraphOK ==
    /\ \A b \in Blocks : g.succs[b] \in Seq(Blocks) /\ g.preds[b] \in Seq(Blocks)
    /\ \A b \in Blocks : Range(g.preds[b]) = {a \in Blocks : b \in Range(g.succs[a])}

(* A bit is on in memory only of a block that is, or was, on pending.      *)
BitsOK ==
    /\ \A n \in Nat : On(bb_to_consider, n) => n \in before \/ n \in Range(pending)
    /\ pos = 0 => Range(pending) \subseteq before

ListsOK ==
    /\ worklist \in Seq(Blocks) /\ pos \in Nat /\ first \in BOOLEAN
    /\ PendingOK(AtFirst)
    /\ NoStop(pending) /\ (first \/ NoStop(worklist))

SetsOK ==
    /\ in \in [Blocks -> SUBSET Vars] /\ out \in [Blocks -> SUBSET Vars]
    /\ ud \in [use : [Blocks -> SUBSET Vars], def : [Blocks -> SUBSET Vars]]

Found(b, x) == x \in in[b] \/ x \in ud.def[b]
FoundBehind(b, x) == \E s \in Range(g.succs[b]) : x \in in[s]

BlockOK(b, x) ==
    /\ x \in ud.use[b] => x \in in[b] \/ (first /\ b \in Rest)
    /\ x \in in[b] => x \in ud.use[b] \/ (x \in out[b] /\ x \notin ud.def[b])
    /\ x \in out[b] => Found(b, x)
    /\ FoundBehind(b, x) => Found(b, x) \/ Awaits(b) \/ b \in skipped

FoundOK(x) == GraphOK /\ ListsOK /\ BitsOK /\ SetsOK /\ \A b \in Blocks : BlockOK(b, x)

(* What the visit of a block makes of x.                                   *)
LEMMA JoinFinds ==
    ASSUME GraphOK, NEW x, SetsOK, NEW b \in Blocks
    PROVE  /\ Joined(b) \in SUBSET Vars
           /\ x \in Joined(b) <=> x \in out[b] \/ FoundBehind(b, x)
<1>1. CASE NoSucc(b)
  <2>1. Range(g.succs[b]) = {}
    BY <1>1 DEF NoSucc, Range
  <2> QED BY <1>1, <2>1 DEF Joined, FoundBehind, SetsOK
<1>2. CASE ~ NoSucc(b)
  <2>1. Range(g.succs[b]) \subseteq Blocks
    BY DEF GraphOK, Range
  <2> QED BY <1>2, <2>1 DEF Joined, Collected, FoundBehind, SetsOK
<1> QED BY <1>1, <1>2

Visited(b, x) ==
    /\ Joined(b) \in SUBSET Vars /\ InAfter(b) \in SUBSET Vars
    /\ x \in Joined(b) <=> x \in out[b] \/ FoundBehind(b, x)
    /\ x \in in[b] => x \in InAfter(b)
    /\ x \in ud.use[b] => x \in InAfter(b)
    /\ x \in Joined(b) => x \in InAfter(b) \/ x \in ud.def[b]
    /\ x \in InAfter(b) => x \in ud.use[b] \/ (x \in Joined(b) /\ x \notin ud.def[b])
    /\ x \in InAfter(b) /\ x \notin in[b] => Changed(b)

LEMMA VisitFinds ==
    ASSUME NEW x, FoundOK(x), NEW b \in Blocks, first \/ ~ NoSucc(b), pos # 0, b \in Rest
    PROVE  Visited(b, x)
<1>1. GraphOK /\ SetsOK /\ BlockOK(b, x)
  BY DEF FoundOK
<1>2. Joined(b) \in SUBSET Vars /\ (x \in Joined(b) <=> x \in out[b] \/ FoundBehind(b, x))
  BY <1>1, JoinFinds
<1>3. in[b] \in SUBSET Vars /\ out[b] \in SUBSET Vars /\ ud.use[b] \in SUBSET Vars /\ ud.def[b] \in SUBSET Vars
  BY <1>1 DEF SetsOK
<1>4. /\ InAfter(b) \in SUBSET Vars
      /\ x \in in[b] => x \in InAfter(b)
      /\ x \in ud.use[b] => x \in InAfter(b)
      /\ x \in Joined(b) => x \in InAfter(b) \/ x \in ud.def[b]
      /\ x \in InAfter(b) => x \in ud.use[b] \/ (x \in Joined(b) /\ x \notin ud.def[b])
  <2>1. CASE Applies(b)
    <3>1. InAfter(b) = ud.use[b] \cup (Joined(b) \ ud.def[b])
      BY <2>1 DEF InAfter, Live
    <3> QED BY <3>1, <1>1, <1>2, <1>3 DEF BlockOK
  <2>2. CASE ~ Applies(b)
    <3>1. ~ first /\ Joined(b) = out[b]
      BY <2>2 DEF Applies
    <3>2. InAfter(b) = in[b]
      BY <2>2, <3>1 DEF InAfter, InBefore
    <3> QED BY <3>1, <3>2, <1>1, <1>3 DEF BlockOK, Found
  <2> QED BY <2>1, <2>2
<1>5. InBefore(b) = {} \/ InBefore(b) = in[b]
  BY DEF InBefore
<1>6. x \in InAfter(b) /\ x \notin in[b] => Changed(b)
  BY <1>5 DEF Changed
<1> QED BY <1>2, <1>4, <1>6 DEF Visited

(* The other blocks still wait.                                            *)
LEMMA RestSame ==
    ASSUME ListsOK, pos \in 1 .. Len(worklist), pos' = pos + 1, worklist' = worklist,
           Range(pending) \subseteq Range(pending'), NEW q, q # worklist[pos]
    PROVE  /\ q \in Rest => q \in Rest'
           /\ Awaits(q) => Awaits(q)'
<1>1. pos \in Nat /\ Len(worklist) \in Nat /\ pos # 0 /\ pos' # 0
  BY DEF ListsOK
<1>2. ASSUME q \in Rest PROVE q \in Rest'
  <2>1. PICK k \in pos .. Len(worklist) : q = worklist[k]
    BY <1>1, <1>2 DEF Rest
  <2>2. k \in pos + 1 .. Len(worklist)
    BY <1>1, <2>1
  <2>3. q \in {worklist[i] : i \in pos + 1 .. Len(worklist)}
    BY <2>1, <2>2
  <2> QED BY <1>1, <2>3 DEF Rest
<1> QED BY <1>1, <1>2 DEF Awaits

(* Visiting a block keeps the invariant.                                   *)
LEMMA VisitKeeps ==
    ASSUME NEW x, FoundOK(x), VisitBlock
    PROVE  FoundOK(x)'
<1> DEFINE b == worklist[pos]
           preds == IF Changed(b) THEN g.preds[b] ELSE <<>>
           c == Consider(preds)
<1>1. /\ g' = g /\ ud' = ud /\ worklist' = worklist /\ first' = first /\ pos' = pos + 1
      /\ out' = [out EXCEPT ![b] = Joined(b)] /\ in' = [in EXCEPT ![b] = InAfter(b)]
      /\ pending' = c.list /\ bb_to_consider' = c.bm
      /\ before' = before /\ skipped' = (skipped \ {b}) \cup (Range(preds) \cap before)
      /\ pos \in 1 .. Len(worklist)
  BY DEF VisitBlock, AtBlock, vars
<1>2. /\ GraphOK /\ ListsOK /\ BitsOK /\ SetsOK /\ \A q \in Blocks : BlockOK(q, x)
      /\ worklist \in Seq(Blocks) /\ pos \in Nat /\ pos # 0 /\ Len(worklist) \in Nat
  BY <1>1 DEF FoundOK, ListsOK
<1>3. b \in Blocks /\ b \in Range(worklist) /\ b \in Rest
  BY <1>1, <1>2 DEF Rest, Range
<1>4. first \/ ~ NoSucc(b)
  BY <1>2, <1>3 DEF ListsOK, NoStop
<1>5. Visited(b, x)
  BY <1>2, <1>3, <1>4, VisitFinds
<1>6. preds \in Seq(Blocks) /\ Len(preds) \in Nat /\ DOMAIN preds = 1 .. Len(preds)
  BY <1>2, <1>3 DEF GraphOK
<1>7. ConsideredOK(c, preds, Len(preds))
  BY <1>2, <1>6, ConsiderRight DEF ListsOK
<1>8. Range(g.preds[b]) = {a \in Blocks : b \in Range(g.succs[a])}
  BY <1>2, <1>3 DEF GraphOK
<1>9. Range(preds) = IF Changed(b) THEN Range(g.preds[b]) ELSE {}
  BY DEF Range
<1> HIDE DEF b, c, preds
<1>10. /\ PendingOK(c) /\ Range(pending) \subseteq Range(pending')
       /\ Range(pending') \subseteq Range(pending) \cup Range(preds)
       /\ \A q \in Range(preds) : q \in Range(pending') \/ On(bb_to_consider, q)
       /\ \A n \in Nat : On(bb_to_consider', n) => On(bb_to_consider, n) \/ n \in Range(preds)
  BY <1>1, <1>6, <1>7 DEF ConsideredOK, Range
<1>11. /\ in'[b] = InAfter(b) /\ out'[b] = Joined(b)
       /\ \A q \in Blocks : q # b => in'[q] = in[q] /\ out'[q] = out[q]
  BY <1>1, <1>2, <1>3 DEF SetsOK
<1>12. \A q \in Range(preds) : q \in Range(pending') \/ q \in skipped'
  <2>1. \A q \in Range(preds) : q \in Nat
    BY <1>6, NBlocksAssumption DEF Range, Blocks
  <2> QED BY <1>1, <1>2, <1>10, <2>1 DEF BitsOK
<1>13. BitsOK'
  <2>1. \A q \in Range(preds) : q \in Range(pending') \/ q \in before
    <3>1. \A q \in Range(preds) : q \in Nat
      BY <1>6, NBlocksAssumption DEF Range, Blocks
    <3> QED BY <1>2, <1>10, <3>1 DEF BitsOK
  <2>2. ASSUME NEW n \in Nat, On(bb_to_consider', n)
        PROVE  n \in before \/ n \in Range(pending')
    BY <1>2, <1>10, <2>1, <2>2 DEF BitsOK
  <2>3. pos' # 0
    BY <1>1, <1>2
  <2> QED BY <1>1, <2>2, <2>3 DEF BitsOK, On
<1>14. GraphOK'
  BY <1>1, <1>2 DEF GraphOK
<1>15. SetsOK'
  BY <1>1, <1>2, <1>5 DEF SetsOK, Visited
<1>16. ListsOK'
  <2>1. AtFirst' = c
    <3>1. c = [list |-> c.list, bm |-> c.bm]
      BY <1>10 DEF PendingOK
    <3> QED BY <3>1, <1>1 DEF AtFirst
  <2>2. \A q : NoSucc(q)' <=> NoSucc(q)
    BY <1>1 DEF NoSucc
  <2>3. \A q \in Range(preds) : ~ NoSucc(q)
    BY <1>8, <1>9 DEF NoSucc, Range
  <2>4. NoStop(pending)'
    BY <1>2, <1>10, <2>2, <2>3 DEF NoStop, ListsOK
  <2>5. PendingOK(AtFirst)'
    BY <2>1, <1>10 DEF PendingOK, MemoryOK
  <2> QED BY <1>1, <1>2, <2>2, <2>4, <2>5 DEF ListsOK, NoStop
<1>17. \A q \in Blocks : q # b => (q \in Rest => q \in Rest') /\ (Awaits(q) => Awaits(q)')
  BY <1>1, <1>2, <1>10, RestSame DEF b
<1>18. ASSUME NEW q \in Blocks, FoundBehind(q, x)' PROVE FoundBehind(q, x) \/ q \in Range(preds)
  <2>1. PICK s \in Range(g.succs[q]) : x \in in'[s]
    BY <1>1, <1>18 DEF FoundBehind
  <2>2. s \in Blocks
    BY <1>2 DEF GraphOK, Range
  <2>3. CASE x \in in[s]
    BY <2>3 DEF FoundBehind
  <2>4. CASE x \notin in[s]
    <3>1. s = b /\ x \in InAfter(b)
      BY <2>1, <2>2, <2>4, <1>11
    <3>2. Changed(b)
      BY <3>1, <2>4, <1>5 DEF Visited
    <3> QED BY <3>1, <3>2, <1>8, <1>9
  <2> QED BY <2>3, <2>4
<1>19. ASSUME NEW q \in Blocks, FoundBehind(q, x)
       PROVE  (Found(q, x) \/ Awaits(q) \/ q \in skipped)'
  <2>1. CASE q = b
    <3>1. x \in Joined(b)
      BY <1>5, <1>19, <2>1 DEF Visited
    <3> QED BY <3>1, <2>1, <1>1, <1>5, <1>11 DEF Visited, Found
  <2>2. CASE q # b
    <3>1. Found(q, x) \/ Awaits(q) \/ q \in skipped
      BY <1>2, <1>19 DEF BlockOK
    <3> QED BY <3>1, <2>2, <1>1, <1>11, <1>17 DEF Found
  <2> QED BY <2>1, <2>2
<1>20. ASSUME NEW q \in Blocks PROVE BlockOK(q, x)'
  <2>1. q \in Nat
    BY NBlocksAssumption DEF Blocks
  <2>2. BlockOK(q, x)
    BY <1>2
  <2>3. (x \in ud.use[q] => x \in in[q] \/ (first /\ q \in Rest))'
    <3>1. CASE q = b
      BY <3>1, <1>1, <1>5, <1>11 DEF Visited
    <3>2. CASE q # b
      BY <3>2, <2>2, <1>1, <1>11, <1>17 DEF BlockOK
    <3> QED BY <3>1, <3>2
  <2>4. (x \in in[q] => x \in ud.use[q] \/ (x \in out[q] /\ x \notin ud.def[q]))'
    <3>1. CASE q = b
      BY <3>1, <1>1, <1>5, <1>11 DEF Visited
    <3>2. CASE q # b
      BY <3>2, <2>2, <1>1, <1>11 DEF BlockOK
    <3> QED BY <3>1, <3>2
  <2>5. (x \in out[q] => Found(q, x))'
    <3>1. CASE q = b
      BY <3>1, <1>1, <1>5, <1>11 DEF Visited, Found
    <3>2. CASE q # b
      BY <3>2, <2>2, <1>1, <1>11 DEF BlockOK, Found
    <3> QED BY <3>1, <3>2
  <2>6. (FoundBehind(q, x) => Found(q, x) \/ Awaits(q) \/ q \in skipped)'
    <3> SUFFICES ASSUME FoundBehind(q, x)' PROVE (Found(q, x) \/ Awaits(q) \/ q \in skipped)'
      OBVIOUS
    <3>1. CASE FoundBehind(q, x)
      BY <3>1, <1>19
    <3>2. CASE q \in Range(preds)
      <4>1. pos' # 0
        BY <1>1, <1>2
      <4> QED BY <3>2, <4>1, <1>12 DEF Awaits
    <3> QED BY <3>1, <3>2, <1>18
  <2> QED BY <2>3, <2>4, <2>5, <2>6 DEF BlockOK
<1> QED BY <1>14, <1>15, <1>16, <1>20, <1>13 DEF FoundOK

(* The steps that visit no block.                                          *)
LEMMA ListsKeep ==
    ASSUME NEW x, FoundOK(x), UNCHANGED <<g, ud, in, out, skipped>>, ListsOK', BitsOK',
           \A q \in Blocks : /\ first /\ q \in Rest => x \in in[q] \/ (first' /\ q \in Rest')
                             /\ Awaits(q) => Awaits(q)'
    PROVE  FoundOK(x)'
<1>1. GraphOK' /\ SetsOK'
  BY DEF FoundOK, GraphOK, SetsOK
<1>2. ASSUME NEW q \in Blocks PROVE BlockOK(q, x)'
  <2>1. BlockOK(q, x)
    BY DEF FoundOK
  <2>2. (Found(q, x)' <=> Found(q, x)) /\ (FoundBehind(q, x)' <=> FoundBehind(q, x))
    BY DEF Found, FoundBehind
  <2> QED BY <2>1, <2>2 DEF BlockOK
<1> QED BY <1>1, <1>2 DEF FoundOK

LEMMA StartKeeps ==
    ASSUME NEW x, FoundOK(x), StartIteration
    PROVE  FoundOK(x)'
<1>1. /\ UNCHANGED <<g, ud, in, out, before, skipped>>
      /\ first' = first /\ pos = 0 /\ pos' = 1 /\ pending' = <<>>
      /\ worklist' \in SortedByRpo(worklist) /\ bb_to_consider' = Clear(bb_to_consider)
  BY DEF StartIteration, vars, history
<1>2. worklist \in Seq(Blocks) /\ PendingOK(AtFirst) /\ first \in BOOLEAN /\ (first \/ NoStop(worklist))
  BY DEF FoundOK, ListsOK
<1>3. /\ worklist' \in [DOMAIN worklist -> Range(worklist)] /\ Range(worklist') = Range(worklist)
  BY <1>1 DEF SortedByRpo
<1>4. DOMAIN worklist = 1 .. Len(worklist) /\ Len(worklist) \in Nat /\ Range(worklist) \subseteq Blocks
  BY <1>2 DEF Range
<1>5. worklist' \in Seq(Blocks) /\ Len(worklist') = Len(worklist) /\ DOMAIN worklist' = 1 .. Len(worklist')
  BY <1>3, <1>4
<1>6. MemoryOK(bb_to_consider)
  BY <1>2 DEF PendingOK, AtFirst
<1>7. SameBits(bb_to_consider, bb_to_consider')
  BY <1>1, <1>6, ClearKeeps
<1>8. Rest = Range(worklist) /\ Rest' = Range(worklist')
  BY <1>1, <1>5 DEF Rest, Range
<1>9. ListsOK'
  <2>1. \A q : NoSucc(q)' <=> NoSucc(q)
    BY <1>1 DEF NoSucc
  <2>2. NoStop(pending)'
    BY <1>1 DEF NoStop, Range
  <2>3. first' \/ NoStop(worklist)'
    BY <1>1, <1>2, <1>3, <2>1 DEF NoStop
  <2>4. MemoryOK(bb_to_consider') /\ bb_to_consider' \in Memories
    BY <1>7 DEF SameBits, MemoryOK
  <2>5. AtFirst' = [list |-> <<>>, bm |-> bb_to_consider']
    BY <1>1 DEF AtFirst
  <2>6. PendingOK(AtFirst)'
    BY <2>4, <2>5 DEF PendingOK, MemoryOK
  <2>7. worklist' \in Seq(Blocks) /\ pos' \in Nat /\ first' \in BOOLEAN
    BY <1>1, <1>2, <1>5
  <2> QED BY <2>2, <2>3, <2>6, <2>7 DEF ListsOK
<1>10. \A q : (q \in Rest => q \in Rest') /\ (Awaits(q) => Awaits(q)')
  BY <1>1, <1>3, <1>8 DEF Awaits
<1>11. BitsOK'
  BY <1>1, <1>7 DEF FoundOK, BitsOK, SameBits, On
<1> QED BY <1>1, <1>9, <1>10, <1>11, ListsKeep

LEMMA EndKeeps ==
    ASSUME NEW x, FoundOK(x), EndIteration
    PROVE  FoundOK(x)'
<1>1. /\ UNCHANGED <<g, ud, in, out, skipped>> /\ before' = before \cup Range(pending)
      /\ first' = FALSE /\ pos' = 0 /\ pos > Len(worklist)
      /\ worklist' = pending /\ pending' = pending /\ bb_to_consider' = bb_to_consider
  BY DEF EndIteration, vars
<1>2. /\ worklist \in Seq(Blocks) /\ PendingOK(AtFirst) /\ NoStop(pending) /\ pos \in Nat
      /\ Len(worklist) \in Nat
  BY DEF FoundOK, ListsOK
<1>3. pos # 0 /\ \A k : k \notin pos .. Len(worklist)
  BY <1>1, <1>2
<1>4. Rest = {} /\ Rest' = Range(pending)
  BY <1>1, <1>3 DEF Rest
<1>5. BitsOK'
  BY <1>1 DEF FoundOK, BitsOK, On
<1>6. ListsOK'
  <2>1. \A q : NoSucc(q)' <=> NoSucc(q)
    BY <1>1 DEF NoSucc
  <2>2. NoStop(pending)' /\ NoStop(worklist)'
    BY <1>1, <1>2, <2>1 DEF NoStop
  <2>3. AtFirst' = AtFirst /\ pending \in Seq(Blocks)
    BY <1>1, <1>2 DEF AtFirst, PendingOK
  <2>4. PendingOK(AtFirst)'
    BY <1>2, <2>3 DEF PendingOK, MemoryOK
  <2> QED BY <1>1, <2>2, <2>3, <2>4 DEF ListsOK
<1>7. \A q : q \notin Rest /\ (Awaits(q) => Awaits(q)')
  BY <1>4 DEF Awaits
<1> QED BY <1>1, <1>5, <1>6, <1>7, ListsKeep

LEMMA OthersKeep ==
    ASSUME NEW x, FoundOK(x), UNCHANGED <<g, dfVars>>
    PROVE  FoundOK(x)'
<1>1. /\ UNCHANGED <<g, ud, in, out, before, skipped>>
      /\ worklist' = worklist /\ pending' = pending /\ pos' = pos
      /\ first' = first /\ bb_to_consider' = bb_to_consider
  BY DEF dfVars, history
<1>2. ListsOK'
  BY <1>1 DEF FoundOK, ListsOK, NoStop, NoSucc, PendingOK, MemoryOK, AtFirst
<1>3. BitsOK'
  BY <1>1 DEF FoundOK, BitsOK, On
<1>4. Rest' = Rest /\ \A q : Awaits(q)' <=> Awaits(q)
  BY <1>1 DEF Rest, Awaits
<1> QED BY <1>1, <1>2, <1>3, <1>4, ListsKeep

(* It holds at first, and every step keeps it.                             *)
LEMMA FoundInit ==
    ASSUME NEW x, DfInit
    PROVE  FoundOK(x)
<1>1. PICK lists \in [Blocks -> UNION Range(Lists)] :
          (\A b \in Blocks : lists[b] \in Lists[b]) /\ g = GraphOf(lists)
  BY DEF DfInit, Init
<1>2. g.succs = lists /\ \A b \in Blocks : g.preds[b] = Sources(lists, b)
  BY <1>1 DEF GraphOf
<1>3. GraphOK
  <2>1. \A b \in Blocks : lists[b] \in Seq(Blocks)
    BY <1>1, ListsAssumption
  <2> QED BY <1>2, <2>1, SourcesRight DEF GraphOK
<1>4. /\ ud \in UseDefs /\ in = [b \in Blocks |-> {}] /\ out = [b \in Blocks |-> {}]
      /\ worklist = [b \in Blocks |-> b] /\ pending = <<>> /\ bb_to_consider = Create(512)
      /\ pos = 0 /\ first = TRUE /\ skipped = {}
  BY DEF DfInit
<1>5. SetsOK
  BY <1>4, UseDefsAssumption DEF SetsOK
<1>6. worklist \in Seq(Blocks) /\ Range(worklist) = Blocks
  <2>1. NBlocks \in Nat
    BY NBlocksAssumption
  <2> QED BY <2>1, <1>4 DEF Blocks, Range
<1>7. ListsOK
  <2>1. MemoryOK(bb_to_consider) /\ bb_to_consider \in Memories
    BY <1>4, CreateEmpty DEF MemoryOK
  <2>2. AtFirst = [list |-> <<>>, bm |-> bb_to_consider]
    BY <1>4 DEF AtFirst
  <2>3. PendingOK(AtFirst)
    BY <2>1, <2>2 DEF PendingOK
  <2>4. NoStop(pending)
    BY <1>4 DEF NoStop, Range
  <2> QED BY <1>4, <1>6, <2>3, <2>4 DEF ListsOK
<1>8. ASSUME NEW b \in Blocks PROVE BlockOK(b, x)
  <2>1. b \in Rest
    BY <1>4, <1>6 DEF Rest
  <2>2. x \notin in[b] /\ x \notin out[b]
    BY <1>4
  <2>3. Awaits(b)
    BY <2>1 DEF Awaits
  <2> QED BY <1>4, <2>1, <2>2, <2>3 DEF BlockOK
<1>9. BitsOK
  BY <1>4, CreateEmpty DEF BitsOK, Range
<1> QED BY <1>3, <1>5, <1>7, <1>8, <1>9 DEF FoundOK

LEMMA FoundNext ==
    ASSUME NEW x, FoundOK(x), [DfNext]_<<vars, dfVars>>
    PROVE  FoundOK(x)'
<1>1. CASE Number
  BY <1>1, OthersKeep DEF Number, Step, Classify, Descend, PassEdge, Finish
<1>2. CASE StartIteration
  BY <1>2, StartKeeps
<1>3. CASE VisitBlock
  BY <1>3, VisitKeeps
<1>4. CASE EndIteration
  BY <1>4, EndKeeps
<1>5. CASE UNCHANGED <<vars, dfVars>>
  BY <1>5, OthersKeep DEF vars
<1> QED BY <1>1, <1>2, <1>3, <1>4, <1>5 DEF DfNext, DfStep, Over

(* When nothing is left to visit, the blocks where x is found are closed.  *)
LEMMA FoundAll ==
    ASSUME NEW x, FoundOK(x), Solved, skipped = {}, NEW b \in Blocks, LiveAtStart(x, b)
    PROVE  x \in in[b]
<1> DEFINE S == {c \in Blocks : x \in in[c]}
<1>1. pos = 0 /\ Range(worklist) = {}
  BY DEF Solved, Range
<1>2. \A c : c \notin Rest /\ ~ Awaits(c)
  BY <1>1 DEF Rest, Awaits
<1>3. \A c \in Blocks : x \in ud.use[c] => c \in S
  BY <1>2 DEF FoundOK, BlockOK
<1>4. ASSUME NEW e \in Edges(g), e[2] \in S, x \notin ud.def[e[1]]
      PROVE  e[1] \in S
  <2>1. e[1] \in Blocks /\ e[2] \in Range(g.succs[e[1]])
    BY DEF Edges
  <2>2. FoundBehind(e[1], x)
    BY <2>1, <1>4 DEF FoundBehind
  <2>3. BlockOK(e[1], x)
    BY <2>1 DEF FoundOK
  <2> QED BY <2>1, <2>2, <2>3, <1>2, <1>4 DEF BlockOK, Found
<1>5. S \in SUBSET Blocks
  OBVIOUS
<1> HIDE DEF S
<1>6. b \in S
  BY <1>3, <1>4, <1>5 DEF LiveAtStart
<1> QED BY <1>6 DEF S

(* Whatever the program, its graph and its variables, and in whatever      *)
(* order the blocks are visited, all that is live is found, around loops   *)
(* and in blocks that cannot be reached, unless a block that had been on   *)
(* pending in an earlier iteration should have been visited again and was  *)
(* not: what a bit that was not turned off costs is all there is to lose.  *)
THEOREM FoundUnlessSkipped == DfSpec => []LiveFound
<1> DEFINE AllFound == \A x \in Vars : FoundOK(x)
<1>1. DfInit => AllFound
  BY FoundInit
<1>2. AllFound /\ [DfNext]_<<vars, dfVars>> => AllFound'
  BY FoundNext
<1>3. AllFound => LiveFound
  BY FoundAll DEF LiveFound
<1> QED BY <1>1, <1>2, <1>3, PTL DEF DfSpec
=============================================================================
