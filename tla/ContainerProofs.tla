-------------------------- MODULE ContainerProofs ---------------------------
(***************************************************************************)
(* Proofs about the containers.                                            *)
(*                                                                         *)
(* HashTable, for any keys, data and hash function, and any sizes that fit *)
(* KnuthAssumption; then BitsetOps and Bitset, for words of any width, any *)
(* number of bit sets of any lengths, and any calls.                       *)
(***************************************************************************)
EXTENDS HashTable, Bitset, FiniteSetTheorems, WellFoundedInduction, TLAPS

-----------------------------------------------------------------------------
(* The inductive invariant, of a table t *)

Slots ==
    {FREE, DELETED} \cup [kind : {"present"}, key : Keys, data : Data]

Records(tables) ==
    [table : tables, size_index : DOMAIN HashSizes, entries : Int, deleted_entries : Int]

Typed(t) == t \in Records([Addresses(t) -> Slots])

DeletedIn(t) == {a \in Addresses(t) : t.table[a].kind = "deleted"}

(* Marks and entries together never exceed the limit.                      *)
Counted(t) ==
    /\ t.entries = Cardinality(PresentIn(t))
    /\ t.deleted_entries = Cardinality(DeletedIn(t))
    /\ t.entries + t.deleted_entries <= MaxEntries(t)

Single(t) ==
    \A a, b \in PresentIn(t) : t.table[a].key = t.table[b].key => a = b

(* No slot before that of an entry, in the order its key is searched for,  *)
(* is free.                                                                *)
Reached(t) ==
    \A a \in PresentIn(t) : \A n \in 1..Size(t) :
        Probes(t, t.table[a].key)[n] = a =>
            \A m \in 1..(n - 1) : t.table[Probes(t, t.table[a].key)[m]].kind # "free"

TableOK(t) == Typed(t) /\ Counted(t) /\ Single(t) /\ Reached(t)

IInv ==
    /\ TableOK(ht)
    /\ looping \in BOOLEAN /\ cursor \in Nat \cup {NONE}

(* What a table holds.                                                     *)
Holds(t, k, d) == \E a \in PresentIn(t) : t.table[a].key = k /\ t.table[a].data = d
HoldsKey(t, k) == \E a \in PresentIn(t) : t.table[a].key = k

-----------------------------------------------------------------------------
(* Numbers *)

(* Induction: a set of numbers, of counterexamples for instance, that is   *)
(* not empty has a least element.                                          *)
LEMMA LeastNumber ==
    ASSUME NEW T, T \subseteq Nat, T # {}
    PROVE  Min(T) \in T /\ \A y \in T : Min(T) <= y
<1> DEFINE R == OpToRel(<, Nat)
<1>1. IsWellFoundedOn(R, Nat)
  BY NatLessThanWellFounded
<1>2. \E x \in T : \A y \in T : ~ (<<y, x>> \in R)
  <2> HIDE DEF R
  <2> QED BY <1>1, WFMin
<1>3. \A x \in Nat, y \in Nat : y < x => <<y, x>> \in R
  BY DEF OpToRel
<1> HIDE DEF R
<1>4. PICK x \in T : \A y \in T : ~ (<<y, x>> \in R)
  BY <1>2
<1>5. \A y \in T : x <= y
  <2>1. \A y \in T : ~(y < x)
    BY <1>3, <1>4
  <2> QED BY <2>1
<1>6. \E z \in T : \A y \in T : z =< y
  BY <1>5
<1> QED BY <1>6 DEF Min

LEMMA DivMod ==
    ASSUME NEW x \in Int, NEW s \in Nat \ {0}
    PROVE  x = s * (x \div s) + (x % s) /\ x % s \in 0..(s - 1) /\ x \div s \in Int
OBVIOUS

LEMMA ModUnique ==
    ASSUME NEW q \in Int, NEW r \in Int, NEW s \in Nat \ {0}, 0 <= r, r < s
    PROVE  (s * q + r) % s = r
OBVIOUS

LEMMA ModSame ==
    ASSUME NEW x \in Int, NEW y \in Int, NEW s \in Nat \ {0}, x % s = y % s
    PROVE  (x - y) % s = 0
<1> DEFINE p == x \div s
           q == y \div s
           r == x % s
<1>1. x = s * p + r /\ y = s * q + r /\ p \in Int /\ q \in Int /\ r \in Int
  BY DivMod
<1> HIDE DEF p, q, r
<1>2. x - y = s * (p - q) + 0
  BY <1>1
<1> QED BY <1>1, <1>2, ModUnique

LEMMA Strides ==
    ASSUME NEW h \in Nat, NEW i \in Nat, NEW j \in Nat, NEW d \in Nat
    PROVE  (h + j * d) - (h + i * d) = (j - i) * d
OBVIOUS

LEMMA WholeRound ==
    ASSUME NEW h \in Nat, NEW d \in Nat, NEW s \in Nat \ {0}
    PROVE  (h + s * d) % s = (h + 0 * d) % s
<1> DEFINE q == h \div s
           r == h % s
<1>1. h = s * q + r /\ q \in Int /\ r \in 0..(s - 1)
  BY DivMod
<1> HIDE DEF q, r
<1>2. h + s * d = s * (q + d) + r
  BY <1>1
<1>3. (h + s * d) % s = r
  BY <1>1, <1>2, ModUnique
<1>4. h % s = r
  BY <1>1, ModUnique
<1> QED BY <1>3, <1>4

-----------------------------------------------------------------------------
(* The order in which the slots are searched *)

LEMMA ElementOf ==
    ASSUME NEW R, NEW f \in Seq(R), NEW i \in DOMAIN f
    PROVE  f[i] \in R
OBVIOUS

LEMMA Sizes ==
    ASSUME NEW i \in DOMAIN HashSizes
    PROVE  /\ HashSizes[i].size \in Nat \ {0} /\ HashSizes[i].rehash \in Nat \ {0}
           /\ HashSizes[i].max_entries \in Nat
           /\ HashSizes[i].max_entries < HashSizes[i].size
<1> DEFINE row == HashSizes[i]
<1>1. row \in [max_entries : Nat, size : Nat \ {0}, rehash : Nat \ {0}]
  BY HashSizesAssumption, ElementOf
<1>2. row.max_entries < row.size
  BY KnuthAssumption
<1> HIDE DEF row
<1>3. row.size \in Nat \ {0} /\ row.rehash \in Nat \ {0} /\ row.max_entries \in Nat
  BY <1>1
<1> QED BY <1>2, <1>3 DEF row

Stride(i, k) == 1 + (Hash[k] % HashSizes[i].rehash)
At(i, k, n) == (Hash[k] + n * Stride(i, k)) % HashSizes[i].size

LEMMA StrideType ==
    ASSUME NEW i \in DOMAIN HashSizes, NEW k \in Keys
    PROVE  Stride(i, k) \in 1..HashSizes[i].rehash /\ Stride(i, k) \in Nat /\ Hash[k] \in Nat
<1>1. HashSizes[i].rehash \in Nat \ {0} /\ Hash[k] \in Nat
  BY Sizes, HashAssumption
<1> DEFINE r == HashSizes[i].rehash
           h == Hash[k]
<1> HIDE DEF r, h
<1>2. r \in Nat \ {0} /\ h \in Nat
  BY <1>1 DEF r, h
<1>3. h % r \in 0..(r - 1)
  BY <1>2, DivMod
<1>4. 1 + (h % r) \in 1..r
  BY <1>2, <1>3
<1> QED BY <1>1, <1>2, <1>4 DEF Stride, r, h

LEMMA AtType ==
    ASSUME NEW i \in DOMAIN HashSizes, NEW k \in Keys, NEW n \in Nat
    PROVE  At(i, k, n) \in 0..(HashSizes[i].size - 1)
<1> DEFINE x == Hash[k] + n * Stride(i, k)
<1>1. x \in Int
  BY StrideType
<1> HIDE DEF x
<1>2. x % HashSizes[i].size \in 0..(HashSizes[i].size - 1)
  BY <1>1, Sizes, DivMod
<1> QED BY <1>2 DEF At, x

LEMMA Distinct ==
    ASSUME NEW i \in DOMAIN HashSizes, NEW k \in Keys,
           NEW m \in Nat, NEW n \in Nat, m < n, n - m < HashSizes[i].size
    PROVE  At(i, k, m) # At(i, k, n)
<1> DEFINE d == Stride(i, k)
           s == HashSizes[i].size
           h == Hash[k]
<1>1. d \in 1..HashSizes[i].rehash /\ d \in Nat /\ h \in Nat /\ s \in Nat \ {0}
  BY StrideType, Sizes
<1>2. n - m \in 1..(s - 1) /\ n - m \in Nat
  BY <1>1
<1>3. ((n - m) * d) % s # 0
  BY <1>1, <1>2, KnuthAssumption
<1> HIDE DEF d, s, h
<1>4. (h + n * d) - (h + m * d) = (n - m) * d
  BY <1>1, Strides
<1>5. h + n * d \in Int /\ h + m * d \in Int
  BY <1>1
<1>6. (h + n * d) % s # (h + m * d) % s
  BY <1>1, <1>3, <1>4, <1>5, ModSame
<1> QED BY <1>6 DEF At, d, s, h

LEMMA ProbesRight ==
    ASSUME NEW t, t.size_index \in DOMAIN HashSizes, NEW k \in Keys
    PROVE  Probes(t, k) = [n \in 1..Size(t) |-> At(t.size_index, k, n - 1)]
<1> DEFINE i == t.size_index
           Round(n) == At(i, k, n) = At(i, k, 0) /\ \A m \in 1..(n - 1) : At(i, k, m) # At(i, k, 0)
           round == CHOOSE n \in 1..Size(t) : Round(n)
<1>1. Size(t) \in Nat \ {0} /\ i \in DOMAIN HashSizes /\ Size(t) = HashSizes[i].size
  BY Sizes DEF Size
<1>2. Probes(t, k) = [n \in 1..round |-> At(i, k, n - 1)]
  BY DEF Probes, At, Stride, Size
<1> DEFINE s == Size(t)
<1> HIDE DEF i, s
<1>3. \A m \in 1..(s - 1) : At(i, k, m) # At(i, k, 0)
  BY <1>1, Distinct DEF s
<1>4. At(i, k, s) = At(i, k, 0)
  <2> DEFINE h == Hash[k]
             d == Stride(i, k)
  <2>1. h \in Nat /\ d \in Nat /\ s \in Nat \ {0} /\ s = HashSizes[i].size
    BY <1>1, StrideType DEF s
  <2> HIDE DEF h, d
  <2>2. (h + s * d) % s = (h + 0 * d) % s
    BY <2>1, WholeRound
  <2> QED BY <2>1, <2>2 DEF At, h, d
<1>5. s \in 1..s /\ Round(s) /\ s \in Nat
  BY <1>1, <1>3, <1>4 DEF s
<1>6. \A n \in 1..s : Round(n) => n = s
  BY <1>3, <1>5
<1> HIDE DEF Round
<1>7. round = s
  BY <1>5, <1>6 DEF s
<1> QED BY <1>2, <1>7 DEF i, s

(* A search goes through every slot, and through none twice.               *)
LEMMA ProbesAll ==
    ASSUME NEW t, t.size_index \in DOMAIN HashSizes, NEW k \in Keys
    PROVE  /\ Probes(t, k) \in [1..Size(t) -> Addresses(t)]
           /\ \A m, n \in 1..Size(t) : Probes(t, k)[m] = Probes(t, k)[n] => m = n
           /\ \A a \in Addresses(t) : \E n \in 1..Size(t) : Probes(t, k)[n] = a
<1> DEFINE f == Probes(t, k)
           s == Size(t)
<1>1. s \in Nat \ {0} /\ s = HashSizes[t.size_index].size /\ Addresses(t) = 0..(s - 1)
  BY Sizes DEF Size, Addresses
<1>2. f = [n \in 1..s |-> At(t.size_index, k, n - 1)]
  BY ProbesRight
<1> HIDE DEF f, s
<1>3. \A n \in 1..s : f[n] \in 0..(s - 1)
  BY <1>1, <1>2, AtType
<1>4. f \in [1..s -> 0..(s - 1)]
  BY <1>2, <1>3
<1>5. ASSUME NEW m \in 1..s, NEW n \in 1..s, m < n
      PROVE  f[m] # f[n]
  <2>1. m - 1 \in Nat /\ n - 1 \in Nat /\ m - 1 < n - 1 /\ (n - 1) - (m - 1) < s
    BY <1>1, <1>5
  <2>2. At(t.size_index, k, m - 1) # At(t.size_index, k, n - 1)
    BY <1>1, <2>1, Distinct
  <2> QED BY <1>2, <2>2
<1>6. \A m, n \in 1..s : f[m] = f[n] => m = n
  BY <1>1, <1>5
<1>7. f \in Injection(1..s, 0..(s - 1))
  BY <1>4, <1>6 DEF Injection, IsInjective
<1>8. /\ IsFiniteSet(1..s) /\ IsFiniteSet(0..(s - 1))
      /\ Cardinality(1..s) = Cardinality(0..(s - 1))
  <2>1. 0 \in Int /\ 1 \in Int /\ s \in Int /\ s - 1 \in Int /\ ~(1 > s) /\ ~(0 > s - 1)
    BY <1>1
  <2>2. IsFiniteSet(1..s) /\ Cardinality(1..s) = s - 1 + 1
    BY <2>1, FS_Interval
  <2>3. IsFiniteSet(0..(s - 1)) /\ Cardinality(0..(s - 1)) = (s - 1) - 0 + 1
    BY <2>1, FS_Interval
  <2> QED BY <2>1, <2>2, <2>3
<1>9. f \in Surjection(1..s, 0..(s - 1))
  BY <1>7, <1>8, FS_Injection
<1>10. \A a \in 0..(s - 1) : \E n \in 1..s : f[n] = a
  BY <1>9 DEF Surjection
<1> QED BY <1>1, <1>4, <1>6, <1>10 DEF f, s

-----------------------------------------------------------------------------
(* Searching *)

Put(f, a, slot) == [f EXCEPT ![a] = slot]

LEMMA Fields ==
    ASSUME NEW t, Typed(t)
    PROVE  /\ t \in Records([Addresses(t) -> Slots])
           /\ t.entries \in Int /\ t.deleted_entries \in Int
           /\ t.size_index \in DOMAIN HashSizes
           /\ t.table \in [Addresses(t) -> Slots]
           /\ \A a \in Addresses(t) : \A slot \in Slots :
                  Put(t.table, a, slot) \in [Addresses(t) -> Slots]
<1>1. t \in Records([Addresses(t) -> Slots])
  BY DEF Typed
<1> DEFINE T == [Addresses(t) -> Slots]
<1>2. t \in Records(T)
  BY <1>1
<1> HIDE DEF T
<1>3. /\ t.entries \in Int /\ t.deleted_entries \in Int
      /\ t.size_index \in DOMAIN HashSizes /\ t.table \in T
  BY <1>2 DEF Records
<1> DEFINE x == t.table
<1>4. x \in [Addresses(t) -> Slots]
  BY <1>3 DEF T
<1> HIDE DEF x
<1>5. \A a \in Addresses(t) : \A slot \in Slots : Put(x, a, slot) \in [Addresses(t) -> Slots]
  BY <1>4 DEF Put
<1> QED BY <1>1, <1>3, <1>5 DEF T, x

LEMMA Table ==
    ASSUME NEW t, Typed(t)
    PROVE  /\ Size(t) \in Nat \ {0} /\ MaxEntries(t) \in Nat /\ MaxEntries(t) < Size(t)
           /\ t.size_index \in DOMAIN HashSizes
           /\ IsFiniteSet(Addresses(t)) /\ Cardinality(Addresses(t)) = Size(t)
           /\ Addresses(t) \subseteq Nat
           /\ IsFiniteSet(PresentIn(t)) /\ IsFiniteSet(DeletedIn(t))
           /\ \A a \in Addresses(t) :
                  t.table[a] \in Slots /\ t.table[a].kind \in {"free", "deleted", "present"}
           /\ \A a \in PresentIn(t) :
                  a \in Addresses(t) /\ t.table[a].key \in Keys /\ t.table[a].data \in Data
<1>1. t.size_index \in DOMAIN HashSizes /\ t.table \in [Addresses(t) -> Slots]
  BY Fields
<1>2. Size(t) \in Nat \ {0} /\ MaxEntries(t) \in Nat /\ MaxEntries(t) < Size(t)
  BY <1>1, Sizes DEF Size, MaxEntries
<1> DEFINE s == Size(t)
<1>3. Addresses(t) = 0..(s - 1)
  BY DEF Addresses
<1> HIDE DEF s
<1>4. s \in Nat \ {0}
  BY <1>2 DEF s
<1>5. IsFiniteSet(Addresses(t)) /\ Cardinality(Addresses(t)) = s
  <2>1. 0 \in Int /\ s - 1 \in Int /\ ~(0 > s - 1)
    BY <1>4
  <2>2. IsFiniteSet(0..(s - 1)) /\ Cardinality(0..(s - 1)) = (s - 1) - 0 + 1
    BY <2>1, FS_Interval
  <2> QED BY <1>3, <1>4, <2>2
<1>6. IsFiniteSet(PresentIn(t)) /\ IsFiniteSet(DeletedIn(t))
  <2>1. PresentIn(t) \in SUBSET Addresses(t) /\ DeletedIn(t) \in SUBSET Addresses(t)
    BY DEF PresentIn, DeletedIn
  <2> QED BY <1>5, <2>1, FS_Subset
<1>7. ASSUME NEW a \in Addresses(t)
      PROVE  /\ t.table[a] \in Slots /\ t.table[a].kind \in {"free", "deleted", "present"}
             /\ t.table[a].kind = "present" => t.table[a].key \in Keys /\ t.table[a].data \in Data
  <2> DEFINE x == t.table[a]
  <2>1. x \in Slots
    BY <1>1
  <2> HIDE DEF x
  <2>2. CASE x \in {FREE, DELETED}
    BY <2>2 DEF FREE, DELETED, Slot, Slots, x
  <2>3. CASE x \in [kind : {"present"}, key : Keys, data : Data]
    BY <2>1, <2>3 DEF x
  <2> QED BY <2>1, <2>2, <2>3 DEF Slots
<1>8. Addresses(t) \subseteq Nat
  BY <1>3, <1>4
<1> QED BY <1>1, <1>2, <1>5, <1>6, <1>7, <1>8 DEF PresentIn, s

LEMMA FreeSlot ==
    ASSUME NEW t, Typed(t), Counted(t)
    PROVE  \E a \in Addresses(t) : t.table[a].kind = "free"
<1> SUFFICES ASSUME \A a \in Addresses(t) : t.table[a].kind # "free"
             PROVE  FALSE
  OBVIOUS
<1>1. Addresses(t) = PresentIn(t) \cup DeletedIn(t) /\ PresentIn(t) \cap DeletedIn(t) = {}
  BY Table DEF PresentIn, DeletedIn
<1>2. IsFiniteSet(PresentIn(t)) /\ IsFiniteSet(DeletedIn(t))
  BY Table
<1>3. Cardinality(PresentIn(t) \cup DeletedIn(t))
        = Cardinality(PresentIn(t)) + Cardinality(DeletedIn(t)) - Cardinality({})
  BY <1>1, <1>2, FS_Union
<1>4. Cardinality(PresentIn(t)) \in Nat /\ Cardinality(DeletedIn(t)) \in Nat
  BY <1>2, FS_CardinalityType
<1>5. Size(t) = Cardinality(PresentIn(t)) + Cardinality(DeletedIn(t))
  <2>1. Cardinality({}) = 0
    BY FS_EmptySet
  <2>2. Cardinality(Addresses(t)) = Size(t)
    BY Table
  <2>3. Size(t) = Cardinality(PresentIn(t)) + Cardinality(DeletedIn(t)) - 0
    BY <1>1, <1>3, <2>1, <2>2
  <2> QED BY <1>4, <2>3
<1> QED BY <1>4, <1>5, Table DEF Counted

Ends(t, k, n) ==
    LET slot == t.table[Probes(t, k)[n]] IN slot.kind = "free" \/ Matches(slot, k)

LEMMA StopRight ==
    ASSUME NEW t, Typed(t), NEW k \in Keys
    PROVE  /\ StopAt(t, k) \in 0..Size(t)
           /\ StopAt(t, k) # 0 => /\ Ends(t, k, StopAt(t, k))
                                  /\ \A m \in 1..(StopAt(t, k) - 1) : ~Ends(t, k, m)
           /\ StopAt(t, k) = 0 => \A m \in 1..Size(t) : ~Ends(t, k, m)
<1> DEFINE f == Probes(t, k)
           T == {n \in 1..Size(t) : Ends(t, k, n)}
<1>1. f \in [1..Size(t) -> Addresses(t)] /\ Size(t) \in Nat
  BY ProbesAll, Table
<1>2. Len(f) = Size(t)
  <2> HIDE DEF f
  <2> QED BY <1>1
<1>3. {n \in 1..Len(f) : t.table[f[n]].kind = "free" \/ Matches(t.table[f[n]], k)} = T
  BY <1>2 DEF Ends
<1> HIDE DEF T
<1>4. StopAt(t, k) = IF T # {} THEN Min(T) ELSE 0
  BY <1>3 DEF StopAt, SelectInSeq
<1>5. T \subseteq Nat /\ T \subseteq 1..Size(t)
  BY <1>1 DEF T
<1>6. CASE T = {}
  BY <1>1, <1>4, <1>6 DEF T
<1>7. CASE T # {}
  <2> DEFINE x == Min(T)
  <2>1. x \in T /\ \A y \in T : x <= y
    BY <1>5, <1>7, LeastNumber
  <2>2. StopAt(t, k) = x
    BY <1>4, <1>7
  <2> HIDE DEF x
  <2>3. x \in 1..Size(t) /\ Ends(t, k, x)
    BY <2>1 DEF T
  <2>4. \A m \in 1..(x - 1) : m \in 1..Size(t) /\ ~(x <= m)
    BY <1>1, <2>3
  <2>5. \A m \in 1..(x - 1) : ~Ends(t, k, m)
    BY <2>1, <2>4 DEF T
  <2> QED BY <1>1, <2>2, <2>3, <2>5
<1> QED BY <1>6, <1>7

(* A search finds the slot that holds the key, and nothing if none does.   *)
LEMMA SearchFinds ==
    ASSUME NEW t, TableOK(t), NEW k \in Keys
    PROVE  /\ \A a \in PresentIn(t) : t.table[a].key = k => search(t, k) = a
           /\ ~HoldsKey(t, k) => search(t, k) = NONE
<1> DEFINE f == Probes(t, k)
           s == StopAt(t, k)
<1>0. Typed(t) /\ Size(t) \in Nat /\ t.size_index \in DOMAIN HashSizes
  BY Table DEF TableOK
<1>1. /\ Typed(t) /\ f \in [1..Size(t) -> Addresses(t)] /\ Size(t) \in Nat
      /\ \A m, n \in 1..Size(t) : f[m] = f[n] => m = n
      /\ \A a \in Addresses(t) : \E n \in 1..Size(t) : f[n] = a
  BY <1>0, ProbesAll
<1>2. /\ s \in 0..Size(t)
      /\ s # 0 => Ends(t, k, s) /\ \A m \in 1..(s - 1) : ~Ends(t, k, m)
      /\ s = 0 => \A m \in 1..Size(t) : ~Ends(t, k, m)
  BY <1>1, StopRight
<1>3. search(t, k) = IF s # 0 /\ Matches(t.table[f[s]], k) THEN f[s] ELSE NONE
  BY DEF search
<1> HIDE DEF f, s
<1>4. ASSUME NEW a \in PresentIn(t), t.table[a].key = k
      PROVE  search(t, k) = a
  <2>1. a \in Addresses(t) /\ Matches(t.table[a], k)
    BY <1>4 DEF PresentIn, Matches
  <2>2. PICK n \in 1..Size(t) : f[n] = a
    BY <1>1, <2>1
  <2>3. Ends(t, k, n)
    BY <2>1, <2>2 DEF Ends, f
  <2>4. s # 0 /\ s \in 1..Size(t) /\ s <= n /\ n \in Nat /\ Ends(t, k, s)
    BY <1>1, <1>2, <2>2, <2>3
  <2>5. t.table[f[s]].kind # "free"
    <3>1. CASE s = n
      BY <2>1, <2>2, <3>1 DEF Matches
    <3>2. CASE s # n
      <4>1. s \in 1..(n - 1)
        BY <2>4, <3>2
      <4> QED BY <1>4, <2>2, <4>1 DEF TableOK, Reached, f
    <3> QED BY <3>1, <3>2
  <2>6. Matches(t.table[f[s]], k)
    BY <2>4, <2>5 DEF Ends, f
  <2>7. f[s] \in PresentIn(t)
    BY <1>1, <2>4, <2>6 DEF PresentIn, Matches
  <2>8. f[s] = a
    BY <1>4, <2>6, <2>7 DEF TableOK, Single, Matches
  <2> QED BY <1>3, <2>4, <2>6, <2>8
<1>5. ASSUME search(t, k) # NONE
      PROVE  HoldsKey(t, k)
  <2>1. s \in 1..Size(t) /\ Matches(t.table[f[s]], k)
    BY <1>1, <1>2, <1>3, <1>5
  <2> QED BY <1>1, <2>1 DEF HoldsKey, PresentIn, Matches
<1> QED BY <1>4, <1>5

-----------------------------------------------------------------------------
(* Storing an entry *)

(* n is the first place, on the way to slot a, without an entry.           *)
Available(t, k, n) ==
    /\ n \in 1..Size(t) /\ t.table[Probes(t, k)[n]].kind # "present"
    /\ \A m \in 1..(n - 1) : t.table[Probes(t, k)[m]].kind = "present"

Replaced(t, a, k, d) == [t EXCEPT !.table[a] = Slot("present", k, d)]

Added(t, a, k, d) ==
    [t EXCEPT !.table[a] = Slot("present", k, d),
              !.entries = @ + 1,
              !.deleted_entries = IF t.table[a].kind = "deleted" THEN @ - 1 ELSE @]

LEMMA PlaceFinds ==
    ASSUME NEW t, TableOK(t), NEW k \in Keys, NEW d
    PROVE  /\ \A a \in PresentIn(t) :
                  t.table[a].key = k => Place(t, k, d) = Replaced(t, a, k, d)
           /\ ~HoldsKey(t, k) =>
                  \E n : Available(t, k, n) /\ Place(t, k, d) = Added(t, Probes(t, k)[n], k, d)
<1> DEFINE f == Probes(t, k)
           s == StopAt(t, k)
           way == SubSeq(f, 1, IF s = 0 THEN Len(f) ELSE s)
<1>1. /\ Typed(t) /\ f \in [1..Size(t) -> Addresses(t)] /\ Size(t) \in Nat
      /\ \A a \in Addresses(t) : \E n \in 1..Size(t) : f[n] = a
      /\ Addresses(t) \subseteq Nat
  BY ProbesAll, Table DEF TableOK
<1>2. /\ s \in 0..Size(t)
      /\ s # 0 => Ends(t, k, s) /\ \A m \in 1..(s - 1) : ~Ends(t, k, m)
      /\ s = 0 => \A m \in 1..Size(t) : ~Ends(t, k, m)
  BY <1>1, StopRight
<1>3. ASSUME NEW a \in PresentIn(t), t.table[a].key = k
      PROVE  Place(t, k, d) = Replaced(t, a, k, d)
  <2>1. search(t, k) = a
    BY <1>3, SearchFinds
  <2>2. a # NONE
    BY <1>1 DEF PresentIn, NONE
  <2> QED BY <2>1, <2>2 DEF Place, Replaced
<1>4. ASSUME ~HoldsKey(t, k)
      PROVE  \E n : Available(t, k, n) /\ Place(t, k, d) = Added(t, f[n], k, d)
  <2>1. search(t, k) = NONE
    BY <1>4, SearchFinds
  <2>2. s \in 1..Size(t)
    <3>1. PICK a \in Addresses(t) : t.table[a].kind = "free"
      BY FreeSlot DEF TableOK
    <3>2. PICK n \in 1..Size(t) : f[n] = a
      BY <1>1
    <3>3. Ends(t, k, n)
      BY <3>1, <3>2 DEF Ends
    <3> QED BY <1>2, <3>3
  <2>3. way = SubSeq(f, 1, s) /\ Len(way) = s /\ \A m \in 1..s : way[m] = f[m]
    <3> HIDE DEF f, s
    <3>1. f \in Seq(Addresses(t)) /\ Len(f) = Size(t)
      BY <1>1
    <3> QED BY <1>1, <2>2, <3>1
  <2> DEFINE T == {n \in 1..Len(way) : t.table[way[n]].kind # "present"}
  <2>4. T = {n \in 1..s : t.table[f[n]].kind # "present"}
    BY <2>3
  <2>5. SelectInSeq(way, LAMBDA a : t.table[a].kind # "present") = IF T # {} THEN Min(T) ELSE 0
    BY DEF SelectInSeq
  <2> DEFINE n == SelectInSeq(way, LAMBDA a : t.table[a].kind # "present")
  <2>6. Place(t, k, d) = IF n # 0 THEN Added(t, way[n], k, d) ELSE t
    BY <2>1 DEF Place, Added
  <2> HIDE DEF T, n, way, f, s
  <2>7. s \in T
    <3>1. t.table[f[s]].kind # "present"
      <4> SUFFICES ASSUME t.table[f[s]].kind = "present"
                   PROVE  FALSE
        OBVIOUS
      <4>1. Matches(t.table[f[s]], k) /\ f[s] \in Addresses(t)
        BY <1>1, <1>2, <2>2 DEF Ends, f
      <4> QED BY <1>4, <4>1 DEF HoldsKey, PresentIn, Matches
    <3> QED BY <2>2, <2>4, <3>1
  <2>8. T \subseteq 1..s /\ T \subseteq Nat /\ T # {}
    BY <1>1, <2>2, <2>4, <2>7
  <2>9. n \in T /\ \A m \in T : n <= m
    <3>1. n = Min(T)
      BY <2>5, <2>8 DEF n
    <3> QED BY <2>8, <3>1, LeastNumber
  <2>10. n \in 1..s /\ n # 0 /\ n \in 1..Size(t) /\ t.table[f[n]].kind # "present"
    BY <1>1, <2>2, <2>4, <2>8, <2>9
  <2>11. \A m \in 1..(n - 1) : t.table[f[m]].kind = "present"
    <3>1. \A m \in 1..(n - 1) : m \in 1..s /\ ~(n <= m)
      BY <1>1, <2>2, <2>10
    <3> QED BY <2>4, <2>9, <3>1
  <2>12. Available(t, k, n)
    BY <2>10, <2>11 DEF Available, f
  <2> QED BY <2>3, <2>6, <2>10, <2>12
<1> QED BY <1>3, <1>4

(* What depends on the size of a table only. *)
LEMMA SameSize ==
    ASSUME NEW t, NEW u, u.size_index = t.size_index
    PROVE  /\ Size(u) = Size(t) /\ MaxEntries(u) = MaxEntries(t)
           /\ Addresses(u) = Addresses(t)
           /\ \A k : Probes(u, k) = Probes(t, k)
<1>1. Size(u) = Size(t) /\ MaxEntries(u) = MaxEntries(t)
  BY DEF Size, MaxEntries
<1> QED BY <1>1 DEF Addresses, Probes

(* A slot changed: the fields of the table after Place or remove_entry.    *)
Changed(t, u, a, slot) ==
    /\ u \in Records([Addresses(t) -> Slots])
    /\ u.size_index = t.size_index
    /\ u.table = Put(t.table, a, slot)

Stored(t, a, slot, e, d) ==
    [t EXCEPT !.table[a] = slot, !.entries = e, !.deleted_entries = d]

LEMMA ThreeFields ==
    ASSUME NEW T, NEW t \in Records(T), NEW a, NEW slot, Put(t.table, a, slot) \in T,
           NEW e \in Int, NEW d \in Int
    PROVE  LET u == Stored(t, a, slot, e, d)
           IN  /\ u \in Records(T) /\ u.size_index = t.size_index
               /\ u.table = Put(t.table, a, slot)
               /\ u.entries = e /\ u.deleted_entries = d
BY DEF Records, Stored, Put

StoredOnly(t, a, slot) == [t EXCEPT !.table[a] = slot]

LEMMA OneField ==
    ASSUME NEW T, NEW t \in Records(T), NEW a, NEW slot, Put(t.table, a, slot) \in T
    PROVE  LET u == StoredOnly(t, a, slot)
           IN  /\ u \in Records(T) /\ u.size_index = t.size_index
               /\ u.table = Put(t.table, a, slot)
               /\ u.entries = t.entries /\ u.deleted_entries = t.deleted_entries
BY DEF Records, StoredOnly, Put

LEMMA SlotKinds ==
    /\ DELETED \in Slots /\ FREE \in Slots
    /\ DELETED.kind = "deleted" /\ FREE.kind = "free"
    /\ \A k \in Keys, d \in Data :
           LET slot == Slot("present", k, d)
           IN  slot \in Slots /\ slot.kind = "present" /\ slot.key = k /\ slot.data = d
BY DEF Slots, FREE, DELETED, Slot

LEMMA ReplacedFields ==
    ASSUME NEW t, Typed(t), NEW a \in Addresses(t), NEW k \in Keys, NEW d \in Data
    PROVE  /\ Changed(t, Replaced(t, a, k, d), a, Slot("present", k, d))
           /\ Replaced(t, a, k, d).entries = t.entries
           /\ Replaced(t, a, k, d).deleted_entries = t.deleted_entries
<1> DEFINE slot == Slot("present", k, d)
           T == [Addresses(t) -> Slots]
<1>1. t \in Records(T)
  BY Fields
<1>2. slot \in Slots
  BY SlotKinds
<1>3. Put(t.table, a, slot) \in T
  BY <1>2, Fields
<1>4. Replaced(t, a, k, d) = StoredOnly(t, a, slot)
  BY DEF Replaced, StoredOnly
<1> HIDE DEF slot, T
<1>5. /\ Replaced(t, a, k, d) \in Records(T)
      /\ Replaced(t, a, k, d).size_index = t.size_index
      /\ Replaced(t, a, k, d).table = Put(t.table, a, slot)
      /\ Replaced(t, a, k, d).entries = t.entries
      /\ Replaced(t, a, k, d).deleted_entries = t.deleted_entries
  BY <1>1, <1>3, <1>4, OneField
<1> QED BY <1>5 DEF Changed, slot, T

LEMMA AddedFields ==
    ASSUME NEW t, Typed(t), NEW a \in Addresses(t), NEW k \in Keys, NEW d \in Data
    PROVE  /\ Changed(t, Added(t, a, k, d), a, Slot("present", k, d))
           /\ Added(t, a, k, d).entries = t.entries + 1
           /\ Added(t, a, k, d).deleted_entries
                = IF t.table[a].kind = "deleted" THEN t.deleted_entries - 1
                  ELSE t.deleted_entries
<1> DEFINE slot == Slot("present", k, d)
           e == t.entries + 1
           n == IF t.table[a].kind = "deleted" THEN t.deleted_entries - 1
                ELSE t.deleted_entries
<1>1. Added(t, a, k, d) = Stored(t, a, slot, e, n)
  BY DEF Added, Stored
<1>2. t.entries \in Int /\ t.deleted_entries \in Int
  BY Fields
<1>3. e \in Int /\ n \in Int
  BY <1>2
<1> DEFINE T == [Addresses(t) -> Slots]
<1>4. t \in Records(T) /\ slot \in Slots
  BY Fields, SlotKinds
<1>5. Put(t.table, a, slot) \in T
  BY <1>4, Fields
<1> HIDE DEF slot, e, n, T
<1>6. /\ Added(t, a, k, d) \in Records(T)
      /\ Added(t, a, k, d).size_index = t.size_index
      /\ Added(t, a, k, d).table = Put(t.table, a, slot)
      /\ Added(t, a, k, d).entries = e
      /\ Added(t, a, k, d).deleted_entries = n
  BY <1>1, <1>3, <1>4, <1>5, ThreeFields
<1> QED BY <1>6 DEF Changed, slot, e, n, T

LEMMA RemovedFields ==
    ASSUME NEW t, Typed(t), NEW a \in Addresses(t)
    PROVE  /\ Changed(t, remove_entry(t, a), a, DELETED)
           /\ remove_entry(t, a).entries = t.entries - 1
           /\ remove_entry(t, a).deleted_entries = t.deleted_entries + 1
<1> DEFINE e == t.entries - 1
           n == t.deleted_entries + 1
<1>1. remove_entry(t, a) = Stored(t, a, DELETED, e, n)
  BY DEF remove_entry, Stored
<1>2. t.entries \in Int /\ t.deleted_entries \in Int
  BY Fields
<1>3. e \in Int /\ n \in Int
  BY <1>2
<1> DEFINE T == [Addresses(t) -> Slots]
<1>4. t \in Records(T) /\ DELETED \in Slots
  BY Fields, SlotKinds
<1>5. Put(t.table, a, DELETED) \in T
  BY <1>4, Fields
<1> HIDE DEF e, n, T
<1>6. /\ remove_entry(t, a) \in Records(T)
      /\ remove_entry(t, a).size_index = t.size_index
      /\ remove_entry(t, a).table = Put(t.table, a, DELETED)
      /\ remove_entry(t, a).entries = e
      /\ remove_entry(t, a).deleted_entries = n
  BY <1>1, <1>3, <1>4, <1>5, ThreeFields
<1> QED BY <1>6 DEF Changed, e, n, T

Alike(t, u, a, slot) ==
    /\ Typed(u) /\ u.size_index = t.size_index
    /\ Addresses(u) = Addresses(t) /\ Size(u) = Size(t) /\ MaxEntries(u) = MaxEntries(t)
    /\ \A k : Probes(u, k) = Probes(t, k)
    /\ u.table[a] = slot
    /\ \A b \in Addresses(t) : b # a => u.table[b] = t.table[b]

LEMMA ChangedTyped ==
    ASSUME NEW t, Typed(t), NEW u, NEW a \in Addresses(t), NEW slot \in Slots,
           Changed(t, u, a, slot)
    PROVE  Alike(t, u, a, slot)
<1>1. /\ u.size_index = t.size_index
      /\ Addresses(u) = Addresses(t) /\ Size(u) = Size(t) /\ MaxEntries(u) = MaxEntries(t)
      /\ \A k : Probes(u, k) = Probes(t, k)
  BY SameSize DEF Changed
<1>2. u.table = [t.table EXCEPT ![a] = slot] /\ t.table \in [Addresses(t) -> Slots]
  BY Fields DEF Changed, Put
<1> DEFINE x == u.table
           y == t.table
<1>3. x = [y EXCEPT ![a] = slot] /\ y \in [Addresses(t) -> Slots]
  BY <1>2
<1> HIDE DEF x, y
<1>4. /\ x \in [Addresses(t) -> Slots] /\ x[a] = slot
      /\ \A b \in Addresses(t) : b # a => x[b] = y[b]
  BY <1>3
<1>5. Typed(u)
  BY <1>1 DEF Typed, Changed
<1> QED BY <1>1, <1>4, <1>5 DEF Alike, x, y

(* The same entries with other data. *)
LEMMA ReplacedKeeps ==
    ASSUME NEW t, TableOK(t), NEW k \in Keys, NEW d \in Data,
           NEW a \in PresentIn(t), t.table[a].key = k
    PROVE  /\ TableOK(Replaced(t, a, k, d))
           /\ \A j, e : Holds(Replaced(t, a, k, d), j, e)
                          <=> IF j = k THEN e = d ELSE Holds(t, j, e)
<1> DEFINE u == Replaced(t, a, k, d)
           slot == Slot("present", k, d)
<1>1. Typed(t) /\ a \in Addresses(t) /\ t.table[a].kind = "present"
  BY DEF TableOK, PresentIn
<1>2. Changed(t, u, a, slot) /\ u.entries = t.entries /\ u.deleted_entries = t.deleted_entries
  BY <1>1, ReplacedFields
<1>3. slot \in Slots /\ slot.kind = "present" /\ slot.key = k /\ slot.data = d
  BY SlotKinds
<1> HIDE DEF u, slot
<1>4. /\ Typed(u) /\ u.size_index = t.size_index
      /\ Addresses(u) = Addresses(t) /\ Size(u) = Size(t) /\ MaxEntries(u) = MaxEntries(t)
      /\ \A j : Probes(u, j) = Probes(t, j)
      /\ u.table[a] = slot
      /\ \A b \in Addresses(t) : b # a => u.table[b] = t.table[b]
  <2>1. Alike(t, u, a, slot)
    BY <1>1, <1>2, <1>3, ChangedTyped
  <2> QED BY <2>1 DEF Alike
<1>5. \A b \in Addresses(t) : u.table[b].kind = t.table[b].kind
  BY <1>1, <1>3, <1>4
<1>6. PresentIn(u) = PresentIn(t) /\ DeletedIn(u) = DeletedIn(t)
  BY <1>4, <1>5 DEF PresentIn, DeletedIn
<1>7. \A b \in PresentIn(t) : u.table[b].key = t.table[b].key
  BY <1>3, <1>4 DEF PresentIn
<1>8. Counted(u) /\ Single(u)
  BY <1>2, <1>4, <1>6, <1>7 DEF TableOK, Counted, Single
<1>9. Reached(u)
  <2> SUFFICES ASSUME NEW b \in PresentIn(u), NEW n \in 1..Size(u),
                      Probes(u, u.table[b].key)[n] = b, NEW m \in 1..(n - 1)
               PROVE  u.table[Probes(u, u.table[b].key)[m]].kind # "free"
    BY DEF Reached
  <2> DEFINE f == Probes(t, t.table[b].key)
  <2>1. t.table[b].key \in Keys /\ Size(t) \in Nat
    BY <1>1, <1>6, Table
  <2>2. f[m] \in Addresses(t)
    <3>1. t.size_index \in DOMAIN HashSizes
      BY <1>1, Table
    <3>2. f \in [1..Size(t) -> Addresses(t)]
      BY <2>1, <3>1, ProbesAll
    <3>3. m \in 1..Size(t)
      BY <1>4, <2>1
    <3> QED BY <3>2, <3>3
  <2>3. Probes(u, u.table[b].key) = f
    BY <1>4, <1>6, <1>7
  <2>4. t.table[f[m]].kind # "free"
    BY <1>4, <1>6, <2>3 DEF TableOK, Reached
  <2> QED BY <1>5, <2>2, <2>3, <2>4
<1>10. \A j, e : Holds(u, j, e) <=> IF j = k THEN e = d ELSE Holds(t, j, e)
  <2> TAKE j, e
  <2>1. CASE j = k
    <3>1. \A b \in PresentIn(t) : t.table[b].key = k => b = a
      BY DEF TableOK, Single
    <3>2. Holds(u, j, e) <=> u.table[a].data = e
      BY <1>3, <1>4, <1>6, <1>7, <2>1, <3>1 DEF Holds
    <3> QED BY <1>3, <1>4, <2>1, <3>2
  <2>2. CASE j # k
    <3>1. \A b \in PresentIn(t) : t.table[b].key = j => u.table[b] = t.table[b]
      BY <1>4, <2>2 DEF PresentIn
    <3> QED BY <1>6, <1>7, <2>2, <3>1 DEF Holds
  <2> QED BY <2>1, <2>2
<1> QED BY <1>4, <1>8, <1>9, <1>10 DEF TableOK, u

LEMMA Counts ==
    ASSUME NEW t, TableOK(t)
    PROVE  /\ t.entries \in Nat /\ t.deleted_entries \in Nat
           /\ t.entries = Cardinality(PresentIn(t)) /\ t.deleted_entries = Cardinality(DeletedIn(t))
           /\ t.entries + t.deleted_entries <= MaxEntries(t)
           /\ IsFiniteSet(PresentIn(t)) /\ IsFiniteSet(DeletedIn(t))
<1>1. IsFiniteSet(PresentIn(t)) /\ IsFiniteSet(DeletedIn(t))
  BY Table DEF TableOK
<1>2. Cardinality(PresentIn(t)) \in Nat /\ Cardinality(DeletedIn(t)) \in Nat
  BY <1>1, FS_CardinalityType
<1> QED BY <1>1, <1>2 DEF TableOK, Counted

(* One entry more, where a search for its key passes entries only. *)
LEMMA AddedKeeps ==
    ASSUME NEW t, TableOK(t), NEW k \in Keys, NEW d \in Data, ~HoldsKey(t, k),
           t.entries + t.deleted_entries < MaxEntries(t),
           NEW n, Available(t, k, n)
    PROVE  LET u == Added(t, Probes(t, k)[n], k, d)
           IN  /\ TableOK(u) /\ u.size_index = t.size_index
               /\ u.entries <= t.entries + 1 /\ u.deleted_entries <= t.deleted_entries
               /\ \A j, e : Holds(u, j, e) <=> IF j = k THEN e = d ELSE Holds(t, j, e)
<1> DEFINE f == Probes(t, k)
           a == f[n]
           u == Added(t, a, k, d)
           slot == Slot("present", k, d)
<1>1. /\ Typed(t) /\ Size(t) \in Nat
      /\ n \in 1..Size(t) /\ t.table[a].kind # "present"
      /\ \A m \in 1..(n - 1) : t.table[f[m]].kind = "present"
  BY Table DEF TableOK, Available
<1>2. t.size_index \in DOMAIN HashSizes
  BY <1>1, Table
<1>3. /\ f \in [1..Size(t) -> Addresses(t)]
      /\ \A m, o \in 1..Size(t) : f[m] = f[o] => m = o
  BY <1>2, ProbesAll
<1> HIDE DEF f
<1>4. a \in Addresses(t)
  BY <1>1, <1>3
<1> HIDE DEF a
<1>5. /\ Changed(t, u, a, slot) /\ u.entries = t.entries + 1
      /\ u.deleted_entries = IF t.table[a].kind = "deleted" THEN t.deleted_entries - 1
                             ELSE t.deleted_entries
  BY <1>1, <1>4, AddedFields
<1>6. slot \in Slots /\ slot.kind = "present" /\ slot.key = k /\ slot.data = d
  BY SlotKinds
<1> HIDE DEF u, slot
<1>7. /\ Typed(u) /\ u.size_index = t.size_index
      /\ Addresses(u) = Addresses(t) /\ Size(u) = Size(t) /\ MaxEntries(u) = MaxEntries(t)
      /\ \A j : Probes(u, j) = Probes(t, j)
      /\ u.table[a] = slot
      /\ \A b \in Addresses(t) : b # a => u.table[b] = t.table[b]
  <2>1. Alike(t, u, a, slot)
    BY <1>1, <1>4, <1>5, <1>6, ChangedTyped
  <2> QED BY <2>1 DEF Alike
<1>8. PresentIn(u) = PresentIn(t) \cup {a} /\ a \notin PresentIn(t)
  BY <1>1, <1>4, <1>6, <1>7 DEF PresentIn
<1>9. DeletedIn(u) = DeletedIn(t) \ {a}
  BY <1>1, <1>4, <1>6, <1>7 DEF DeletedIn
<1>10. /\ t.entries \in Nat /\ t.deleted_entries \in Nat
       /\ t.entries = Cardinality(PresentIn(t)) /\ t.deleted_entries = Cardinality(DeletedIn(t))
       /\ IsFiniteSet(PresentIn(t)) /\ IsFiniteSet(DeletedIn(t)) /\ MaxEntries(t) \in Nat
  BY <1>1, Counts, Table
<1>11. Counted(u)
  <2>1. Cardinality(PresentIn(u)) = Cardinality(PresentIn(t)) + 1
    BY <1>8, <1>10, FS_AddElement
  <2>2. Cardinality(DeletedIn(u)) = IF a \in DeletedIn(t) THEN Cardinality(DeletedIn(t)) - 1
                                    ELSE Cardinality(DeletedIn(t))
    BY <1>9, <1>10, FS_RemoveElement
  <2>3. a \in DeletedIn(t) <=> t.table[a].kind = "deleted"
    BY <1>4 DEF DeletedIn
  <2>4. u.entries = Cardinality(PresentIn(u)) /\ u.deleted_entries = Cardinality(DeletedIn(u))
    BY <1>5, <1>10, <2>1, <2>2, <2>3
  <2>5. u.entries + u.deleted_entries <= MaxEntries(u)
    BY <1>5, <1>7, <1>10
  <2> QED BY <2>4, <2>5 DEF Counted
<1>12. \A b \in PresentIn(t) : u.table[b] = t.table[b] /\ t.table[b].key # k /\ b # a
  BY <1>7, <1>8 DEF HoldsKey, PresentIn
<1>13. Single(u)
  BY <1>6, <1>7, <1>8, <1>12 DEF TableOK, Single
<1>14. Reached(u)
  <2> SUFFICES ASSUME NEW b \in PresentIn(u), NEW o \in 1..Size(u),
                      Probes(u, u.table[b].key)[o] = b, NEW m \in 1..(o - 1)
               PROVE  u.table[Probes(u, u.table[b].key)[m]].kind # "free"
    BY DEF Reached
  <2>1. m \in 1..Size(t) /\ o \in 1..Size(t)
    BY <1>1, <1>7
  <2>2. CASE b = a
    <3>1. Probes(u, u.table[b].key) = f
      BY <1>6, <1>7, <2>2 DEF f
    <3>2. f[o] = f[n]
      BY <2>2, <3>1 DEF a
    <3>3. o = n
      BY <1>1, <1>3, <2>1, <3>2
    <3>4. t.table[f[m]].kind = "present" /\ f[m] \in Addresses(t)
      BY <1>1, <1>3, <2>1, <3>3
    <3>5. f[m] \in PresentIn(t)
      BY <3>4 DEF PresentIn
    <3> QED BY <1>12, <3>1, <3>4, <3>5
  <2>3. CASE b # a
    <3> DEFINE h == Probes(t, t.table[b].key)
    <3>1. b \in PresentIn(t) /\ t.table[b].key \in Keys
      BY <1>1, <1>8, <2>3, Table
    <3>2. Probes(u, u.table[b].key) = h
      BY <1>7, <1>12, <3>1
    <3>3. h \in [1..Size(t) -> Addresses(t)]
      BY <1>2, <3>1, ProbesAll
    <3>4. h[m] \in Addresses(t)
      BY <2>1, <3>3
    <3>5. t.table[h[m]].kind # "free"
      BY <2>1, <3>1, <3>2 DEF TableOK, Reached
    <3> HIDE DEF h
    <3>6. u.table[h[m]].kind # "free"
      BY <1>6, <1>7, <3>4, <3>5
    <3> QED BY <3>2, <3>6
  <2> QED BY <2>2, <2>3
<1>15. \A j, e : Holds(u, j, e) <=> IF j = k THEN e = d ELSE Holds(t, j, e)
  <2> TAKE j, e
  <2>1. CASE j = k
    BY <1>6, <1>7, <1>8, <1>12, <2>1 DEF Holds
  <2>2. CASE j # k
    BY <1>6, <1>7, <1>8, <1>12, <2>2 DEF Holds
  <2> QED BY <2>1, <2>2
<1>16. u.entries <= t.entries + 1 /\ u.deleted_entries <= t.deleted_entries
  BY <1>5, <1>10
<1>17. TableOK(u)
  BY <1>7, <1>11, <1>13, <1>14 DEF TableOK
<1> QED BY <1>7, <1>15, <1>16, <1>17 DEF u, a, f

(* There is room for the key. *)
Room(t, k) == HoldsKey(t, k) \/ t.entries + t.deleted_entries < MaxEntries(t)

(* u holds what t does, and d under k. *)
HoldsToo(t, u, k, d) ==
    \A j, e : Holds(u, j, e) <=> IF j = k THEN e = d ELSE Holds(t, j, e)

LEMMA PlaceKeeps ==
    ASSUME NEW t, TableOK(t), NEW k \in Keys, NEW d \in Data, Room(t, k)
    PROVE  LET u == Place(t, k, d)
           IN  /\ TableOK(u) /\ u.size_index = t.size_index
               /\ u.entries <= t.entries + 1 /\ u.deleted_entries <= t.deleted_entries
               /\ HoldsToo(t, u, k, d)
<1> DEFINE u == Place(t, k, d)
<1>1. CASE HoldsKey(t, k)
  <2>1. PICK a \in PresentIn(t) : t.table[a].key = k
    BY <1>1 DEF HoldsKey
  <2>2. u = Replaced(t, a, k, d)
    BY <2>1, PlaceFinds
  <2>3. TableOK(u) /\ HoldsToo(t, u, k, d)
    BY <2>1, <2>2, ReplacedKeeps DEF HoldsToo
  <2>4. Typed(t) /\ a \in Addresses(t)
    BY DEF TableOK, PresentIn
  <2> DEFINE r == Replaced(t, a, k, d)
  <2>5. /\ u.size_index = t.size_index
        /\ u.entries = t.entries /\ u.deleted_entries = t.deleted_entries
    <3>1. /\ Changed(t, r, a, Slot("present", k, d))
          /\ r.entries = t.entries /\ r.deleted_entries = t.deleted_entries
      BY <2>4, ReplacedFields
    <3> HIDE DEF r
    <3>2. r.size_index = t.size_index
      BY <3>1 DEF Changed
    <3> QED BY <2>2, <3>1, <3>2 DEF r
  <2>6. t.entries \in Nat /\ t.deleted_entries \in Nat
    BY Counts
  <2> HIDE DEF u
  <2>7. u.entries <= t.entries + 1 /\ u.deleted_entries <= t.deleted_entries
    BY <2>5, <2>6
  <2> QED BY <2>3, <2>5, <2>7 DEF u
<1>2. CASE ~HoldsKey(t, k)
  <2>1. PICK n : Available(t, k, n) /\ u = Added(t, Probes(t, k)[n], k, d)
    BY <1>2, PlaceFinds
  <2>2. t.entries + t.deleted_entries < MaxEntries(t)
    BY <1>2 DEF Room
  <2> QED BY <1>2, <2>1, <2>2, AddedKeeps DEF HoldsToo
<1> QED BY <1>1, <1>2

LEMMA RemovedKeeps ==
    ASSUME NEW t, TableOK(t), NEW a \in PresentIn(t)
    PROVE  LET u == remove_entry(t, a)
           IN  /\ TableOK(u) /\ Addresses(u) = Addresses(t)
               /\ PresentIn(u) = PresentIn(t) \ {a}
               /\ \A b \in PresentIn(u) : u.table[b] = t.table[b]
<1> DEFINE u == remove_entry(t, a)
<1>1. Typed(t) /\ a \in Addresses(t) /\ t.table[a].kind = "present"
  BY DEF TableOK, PresentIn
<1>2. /\ Changed(t, u, a, DELETED)
      /\ u.entries = t.entries - 1 /\ u.deleted_entries = t.deleted_entries + 1
  BY <1>1, RemovedFields
<1>3. DELETED \in Slots /\ DELETED.kind = "deleted"
  BY SlotKinds
<1> HIDE DEF u
<1>4. /\ Typed(u) /\ u.size_index = t.size_index
      /\ Addresses(u) = Addresses(t) /\ Size(u) = Size(t) /\ MaxEntries(u) = MaxEntries(t)
      /\ \A j : Probes(u, j) = Probes(t, j)
      /\ u.table[a] = DELETED
      /\ \A b \in Addresses(t) : b # a => u.table[b] = t.table[b]
  <2>1. Alike(t, u, a, DELETED)
    BY <1>1, <1>2, <1>3, ChangedTyped
  <2> QED BY <2>1 DEF Alike
<1>5. PresentIn(u) = PresentIn(t) \ {a} /\ a \in PresentIn(t)
  BY <1>1, <1>3, <1>4 DEF PresentIn
<1>6. DeletedIn(u) = DeletedIn(t) \cup {a} /\ a \notin DeletedIn(t)
  BY <1>1, <1>3, <1>4 DEF DeletedIn
<1>7. \A b \in PresentIn(u) : b \in PresentIn(t) /\ u.table[b] = t.table[b]
  BY <1>4, <1>5 DEF PresentIn
<1>8. /\ t.entries \in Nat /\ t.deleted_entries \in Nat
      /\ t.entries = Cardinality(PresentIn(t)) /\ t.deleted_entries = Cardinality(DeletedIn(t))
      /\ IsFiniteSet(PresentIn(t)) /\ IsFiniteSet(DeletedIn(t)) /\ MaxEntries(t) \in Nat
      /\ t.entries + t.deleted_entries <= MaxEntries(t)
  BY <1>1, Counts, Table
<1>9. Counted(u)
  <2>1. Cardinality(PresentIn(u)) = Cardinality(PresentIn(t)) - 1
    BY <1>5, <1>8, FS_RemoveElement
  <2>2. Cardinality(DeletedIn(u)) = Cardinality(DeletedIn(t)) + 1
    BY <1>6, <1>8, FS_AddElement
  <2> QED BY <1>2, <1>4, <1>8, <2>1, <2>2 DEF Counted
<1>10. Single(u)
  BY <1>7 DEF TableOK, Single
<1>11. \A b \in Addresses(t) : t.table[b].kind # "free" => u.table[b].kind # "free"
  BY <1>3, <1>4
<1>12. Reached(u)
  <2> SUFFICES ASSUME NEW b \in PresentIn(u), NEW o \in 1..Size(u),
                      Probes(u, u.table[b].key)[o] = b, NEW m \in 1..(o - 1)
               PROVE  u.table[Probes(u, u.table[b].key)[m]].kind # "free"
    BY DEF Reached
  <2> DEFINE h == Probes(t, t.table[b].key)
  <2>1. b \in PresentIn(t) /\ t.table[b].key \in Keys /\ t.size_index \in DOMAIN HashSizes
    BY <1>1, <1>7, Table
  <2>2. Probes(u, u.table[b].key) = h
    BY <1>4, <1>7
  <2>3. h \in [1..Size(t) -> Addresses(t)]
    BY <2>1, ProbesAll
  <2>4. Size(t) \in Nat
    BY <1>1, Table
  <2>5. m \in 1..Size(t) /\ o \in 1..Size(t)
    BY <1>4, <2>4
  <2>6. h[m] \in Addresses(t)
    BY <2>3, <2>5
  <2>7. t.table[h[m]].kind # "free"
    BY <2>1, <2>2, <2>5 DEF TableOK, Reached
  <2> HIDE DEF h
  <2> QED BY <1>11, <2>2, <2>6, <2>7
<1> QED BY <1>4, <1>5, <1>7, <1>9, <1>10, <1>12 DEF TableOK, u

-----------------------------------------------------------------------------
(* Making room *)

LEMMA EmptyKeeps ==
    ASSUME NEW i \in DOMAIN HashSizes
    PROVE  LET u == EmptyTable(i)
           IN  /\ TableOK(u) /\ u.size_index = i /\ u.entries = 0 /\ u.deleted_entries = 0
               /\ PresentIn(u) = {}
<1> DEFINE u == EmptyTable(i)
           T == [a \in 0..(HashSizes[i].size - 1) |-> FREE]
<1>1. /\ u = [table |-> T, size_index |-> i, entries |-> 0, deleted_entries |-> 0]
  BY DEF EmptyTable
<1> HIDE DEF T, u
<1>2. u.table = T /\ u.size_index = i /\ u.entries = 0 /\ u.deleted_entries = 0
  BY <1>1
<1>3. Addresses(u) = 0..(HashSizes[i].size - 1)
  BY <1>2 DEF Addresses, Size
<1>4. T \in [Addresses(u) -> Slots] /\ \A a \in Addresses(u) : T[a] = FREE
  BY <1>3, SlotKinds DEF T
<1>5. Typed(u)
  <2> DEFINE R == [Addresses(u) -> Slots]
  <2>1. T \in R
    BY <1>4
  <2> HIDE DEF R
  <2>2. u \in Records(R)
    BY <1>1, <2>1 DEF Records
  <2> QED BY <2>2 DEF Typed, R
<1>6. PresentIn(u) = {} /\ DeletedIn(u) = {}
  BY <1>2, <1>4, SlotKinds DEF PresentIn, DeletedIn
<1>7. Counted(u)
  <2>1. MaxEntries(u) \in Nat
    BY <1>5, Table
  <2>2. Cardinality({}) = 0
    BY FS_EmptySet
  <2> QED BY <1>2, <1>6, <2>1, <2>2 DEF Counted
<1>8. Single(u) /\ Reached(u)
  BY <1>6 DEF Single, Reached
<1> QED BY <1>2, <1>5, <1>6, <1>7, <1>8 DEF TableOK, u

IsRehash(h, t, i, n) ==
    h = [m \in 0..n |->
            IF m = 0 THEN EmptyTable(i)
            ELSE IF m - 1 \in PresentIn(t)
                 THEN Place(h[m - 1], t.table[m - 1].key, t.table[m - 1].data)
                 ELSE h[m - 1]]

LEMMA RehashDefined ==
    ASSUME NEW t, NEW i, NEW n \in Nat
    PROVE  \E h : IsRehash(h, t, i, n)
<1> DEFINE T == {m \in Nat : ~\E h : IsRehash(h, t, i, m)}
<1>1. SUFFICES ASSUME T # {}
               PROVE  FALSE
  OBVIOUS
<1>2. PICK m \in T : \A y \in T : m <= y
  <2> HIDE DEF T
  <2>1. T \subseteq Nat
    BY DEF T
  <2> QED BY <1>1, <2>1, LeastNumber
<1>3. CASE m = 0
  <2>1. IsRehash([x \in 0..0 |-> EmptyTable(i)], t, i, 0)
    BY DEF IsRehash
  <2> QED BY <1>2, <1>3, <2>1
<1>4. CASE m # 0
  <2>1. m - 1 \in Nat /\ m - 1 \notin T
    BY <1>2, <1>4
  <2>2. PICK h : IsRehash(h, t, i, m - 1)
    BY <2>1
  <2> DEFINE Following(x, y) == IF x - 1 \in PresentIn(t)
                                THEN Place(y, t.table[x - 1].key, t.table[x - 1].data) ELSE y
             k == [x \in 0..m |-> IF x # m THEN h[x] ELSE Following(m, h[m - 1])]
  <2>3. \A x \in 0..(m - 1) : h[x] = IF x = 0 THEN EmptyTable(i) ELSE Following(x, h[x - 1])
    BY <2>2 DEF IsRehash
  <2> HIDE DEF Following
  <2>4. ASSUME NEW x \in 0..m
        PROVE  k[x] = IF x = 0 THEN EmptyTable(i) ELSE Following(x, k[x - 1])
    <3>1. m \in Nat /\ (x = m \/ x \in 0..(m - 1)) /\ (x = 0 \/ x - 1 \in 0..(m - 1))
      BY <1>2
    <3>2. \A y \in 0..(m - 1) : k[y] = h[y]
      BY <1>2
    <3>3. k[m] = Following(m, h[m - 1])
      BY <1>2
    <3> HIDE DEF k
    <3>4. CASE x = m
      BY <1>4, <3>1, <3>2, <3>3, <3>4
    <3>5. CASE x \in 0..(m - 1)
      BY <2>3, <3>1, <3>2, <3>5
    <3> QED BY <3>1, <3>4, <3>5
  <2>5. k = [x \in 0..m |-> k[x]]
    OBVIOUS
  <2> HIDE DEF k
  <2>6. k = [x \in 0..m |-> IF x = 0 THEN EmptyTable(i) ELSE Following(x, k[x - 1])]
    BY <2>4, <2>5
  <2>7. IsRehash(k, t, i, m)
    BY <2>6 DEF IsRehash, Following
  <2> QED BY <1>2, <2>7
<1> QED BY <1>3, <1>4

(* The entries in the slots before n. *)
Before(t, n) == {a \in PresentIn(t) : a < n}

(* The new table after the first n slots of the old one. *)
Moved(t, u, i, n) ==
    /\ TableOK(u) /\ u.size_index = i /\ u.deleted_entries = 0
    /\ u.entries <= Cardinality(Before(t, n))
    /\ \A j, e : Holds(u, j, e) <=> \E a \in Before(t, n) : t.table[a].key = j /\ t.table[a].data = e

LEMMA MovedNext ==
    ASSUME NEW t, TableOK(t), NEW i \in DOMAIN HashSizes, t.entries <= HashSizes[i].max_entries,
           NEW u, NEW n \in Nat, Moved(t, u, i, n), n \in PresentIn(t)
    PROVE  Moved(t, Place(u, t.table[n].key, t.table[n].data), i, n + 1)
<1> DEFINE k == t.table[n].key
           d == t.table[n].data
           v == Place(u, k, d)
<1>1. PresentIn(t) \subseteq Nat /\ k \in Keys /\ d \in Data /\ IsFiniteSet(PresentIn(t))
  BY Table DEF TableOK, PresentIn
<1>2. Before(t, n + 1) = Before(t, n) \cup {n} /\ n \notin Before(t, n)
  BY <1>1 DEF Before
<1>3. Before(t, n) \in SUBSET PresentIn(t) /\ Before(t, n + 1) \in SUBSET PresentIn(t)
  BY DEF Before
<1>4. /\ IsFiniteSet(Before(t, n)) /\ IsFiniteSet(Before(t, n + 1))
      /\ Cardinality(Before(t, n + 1)) <= Cardinality(PresentIn(t))
  BY <1>1, <1>3, FS_Subset
<1>5. Cardinality(Before(t, n + 1)) = Cardinality(Before(t, n)) + 1
  BY <1>2, <1>4, FS_AddElement
<1>6. Cardinality(Before(t, n)) \in Nat /\ HashSizes[i].max_entries \in Nat
  BY <1>4, FS_CardinalityType, Sizes
<1>7. /\ TableOK(u) /\ u.size_index = i /\ u.deleted_entries = 0 /\ u.entries \in Nat
      /\ u.entries <= Cardinality(Before(t, n)) /\ MaxEntries(u) = HashSizes[i].max_entries
  BY Counts DEF Moved, MaxEntries
<1>8. t.entries = Cardinality(PresentIn(t)) /\ t.entries \in Nat
  BY Counts
<1>9. u.entries + u.deleted_entries < MaxEntries(u)
  BY <1>4, <1>5, <1>6, <1>7, <1>8
<1> HIDE DEF v, k, d
<1>10. /\ TableOK(v) /\ v.size_index = i
       /\ v.entries <= u.entries + 1 /\ v.deleted_entries <= 0
       /\ HoldsToo(u, v, k, d)
  BY <1>1, <1>7, <1>9, PlaceKeeps DEF Room, v
<1>11. v.deleted_entries = 0 /\ v.entries <= Cardinality(Before(t, n + 1))
  BY <1>5, <1>6, <1>7, <1>10, Counts
<1>12. ASSUME NEW j, NEW e
       PROVE  Holds(v, j, e) <=>
                  \E a \in Before(t, n + 1) : t.table[a].key = j /\ t.table[a].data = e
  <2>1. CASE j = k
    <3>1. \A a \in Before(t, n + 1) : t.table[a].key = k => a = n
      BY <1>3 DEF TableOK, Single, k
    <3>2. Holds(v, j, e) <=> e = d
      BY <1>10, <2>1 DEF HoldsToo
    <3> QED BY <1>2, <2>1, <3>1, <3>2 DEF k, d
  <2>2. CASE j # k
    <3>1. Holds(v, j, e) <=> Holds(u, j, e)
      BY <1>10, <2>2 DEF HoldsToo
    <3> QED BY <1>2, <2>2, <3>1 DEF Moved, k
  <2> QED BY <2>1, <2>2
<1> QED BY <1>10, <1>11, <1>12 DEF Moved, v, k, d

(* A rehash keeps what the table holds and leaves no mark. *)
LEMMA RehashKeeps ==
    ASSUME NEW t, TableOK(t), NEW i \in DOMAIN HashSizes, t.entries <= HashSizes[i].max_entries
    PROVE  LET u == rehash(t, i)
           IN  /\ TableOK(u) /\ u.size_index = i
               /\ u.entries <= t.entries /\ u.deleted_entries = 0
               /\ \A j, e : Holds(u, j, e) <=> Holds(t, j, e)
<1> DEFINE s == Size(t)
           h == CHOOSE x : IsRehash(x, t, i, s)
           T == {m \in 0..s : ~Moved(t, h[m], i, m)}
<1>1. s \in Nat /\ PresentIn(t) \subseteq 0..(s - 1)
  BY Table DEF TableOK, PresentIn, Addresses
<1>2. rehash(t, i) = h[s]
  <2>1. ~(i > Len(HashSizes))
    BY HashSizesAssumption
  <2> QED BY <2>1 DEF rehash, IsRehash
<1>3. IsRehash(h, t, i, s)
  <2> HIDE DEF s
  <2> QED BY <1>1, RehashDefined
<1> HIDE DEF h, s
<1>4. \A m \in 0..s : Moved(t, h[m], i, m)
  <2> SUFFICES ASSUME T # {}
               PROVE  FALSE
    OBVIOUS
  <2>1. PICK m \in T : \A y \in T : m <= y
    <3>1. T \subseteq Nat
      BY <1>1
    <3> HIDE DEF T
    <3> QED BY <3>1, LeastNumber
  <2>2. m \in 0..s /\ ~Moved(t, h[m], i, m) /\ m \in Nat
    BY <1>1, <2>1
  <2>3. CASE m = 0
    <3>1. h[m] = EmptyTable(i)
      BY <1>3, <2>2, <2>3 DEF IsRehash
    <3>2. Before(t, m) = {}
      BY <1>1, <2>3 DEF Before
    <3>3. /\ TableOK(h[m]) /\ h[m].size_index = i /\ h[m].deleted_entries = 0
          /\ h[m].entries = 0 /\ PresentIn(h[m]) = {}
      BY <3>1, EmptyKeeps
    <3>4. Cardinality(Before(t, m)) = 0
      BY <3>2, FS_EmptySet
    <3> QED BY <2>2, <3>2, <3>3, <3>4 DEF Moved, Holds
  <2>4. CASE m # 0
    <3>1. m - 1 \in 0..s /\ m - 1 \notin T /\ m - 1 \in Nat /\ (m - 1) + 1 = m
      BY <1>1, <2>1, <2>2, <2>4
    <3>2. Moved(t, h[m - 1], i, m - 1)
      BY <3>1
    <3>3. h[m] = IF m - 1 \in PresentIn(t)
                 THEN Place(h[m - 1], t.table[m - 1].key, t.table[m - 1].data)
                 ELSE h[m - 1]
      BY <1>3, <2>2, <2>4 DEF IsRehash
    <3>4. CASE m - 1 \in PresentIn(t)
      BY <2>2, <3>1, <3>2, <3>3, <3>4, MovedNext
    <3>5. CASE m - 1 \notin PresentIn(t)
      <4>1. Before(t, m) = Before(t, m - 1)
        BY <1>1, <2>2, <3>5 DEF Before
      <4> QED BY <2>2, <3>2, <3>3, <3>5, <4>1 DEF Moved
    <3> QED BY <3>4, <3>5
  <2> QED BY <2>2, <2>3, <2>4
<1>5. Moved(t, h[s], i, s)
  BY <1>1, <1>4
<1>6. Before(t, s) = PresentIn(t)
  BY <1>1 DEF Before
<1>7. t.entries = Cardinality(PresentIn(t))
  BY Counts
<1> QED BY <1>2, <1>5, <1>6, <1>7 DEF Moved, Holds

(* A table with as many entries as there are keys holds every key. *)
LEMMA AllKeys ==
    ASSUME NEW t, TableOK(t), Cardinality(Keys) <= t.entries, NEW k \in Keys
    PROVE  HoldsKey(t, k)
<1> DEFINE P == PresentIn(t)
           f == [a \in P |-> t.table[a].key]
<1>1. \A a \in P : t.table[a].key \in Keys
  BY Table DEF TableOK
<1>2. \A a, b \in P : t.table[a].key = t.table[b].key => a = b
  BY DEF TableOK, Single
<1> HIDE DEF P
<1>3. f \in Injection(P, Keys)
  BY <1>1, <1>2 DEF Injection, IsInjective
<1>4. IsFiniteSet(P) /\ t.entries = Cardinality(P) /\ Cardinality(P) \in Nat
  BY Counts DEF P
<1>5. IsFiniteSet(Keys) /\ Cardinality(Keys) \in Nat
  BY HashAssumption, FS_CardinalityType
<1>6. /\ Cardinality(P) <= Cardinality(Keys)
      /\ Cardinality(P) = Cardinality(Keys) <=> f \in Surjection(P, Keys)
  <2> HIDE DEF f
  <2> QED BY <1>3, <1>5, FS_Injection
<1>7. f \in Surjection(P, Keys)
  BY <1>4, <1>5, <1>6
<1>8. \E a \in P : f[a] = k
  <2> HIDE DEF f
  <2> QED BY <1>7 DEF Surjection
<1> QED BY <1>8 DEF HoldsKey, P

LEMMA RoomIsMade ==
    ASSUME NEW t, TableOK(t), NEW k \in Keys
    PROVE  LET u == RoomMade(t)
           IN  TableOK(u) /\ Room(u, k) /\ \A j, e : Holds(u, j, e) <=> Holds(t, j, e)
<1> DEFINE u == RoomMade(t)
           i == t.size_index
<1>1. /\ i \in DOMAIN HashSizes /\ MaxEntries(t) = HashSizes[i].max_entries
      /\ MaxEntries(t) \in Nat /\ t.entries \in Nat /\ t.deleted_entries \in Nat
      /\ t.entries + t.deleted_entries <= MaxEntries(t)
  BY Table, Counts DEF TableOK, MaxEntries
<1>2. DOMAIN HashSizes = 1..Len(HashSizes) /\ Len(HashSizes) \in Nat
  BY HashSizesAssumption
<1>3. CASE t.entries >= MaxEntries(t) /\ i + 1 <= Len(HashSizes)
  <2>1. i + 1 \in DOMAIN HashSizes /\ i + 1 > 1 /\ (i + 1) - 1 = i
    BY <1>1, <1>2, <1>3
  <2>2. HashSizes[i].max_entries < HashSizes[i + 1].max_entries
    BY <2>1, KnuthAssumption
  <2>3. HashSizes[i + 1].max_entries \in Nat
    BY <2>1, Sizes
  <2>4. t.entries < HashSizes[i + 1].max_entries
    BY <1>1, <2>2, <2>3
  <2>5. u = rehash(t, i + 1)
    BY <1>3 DEF RoomMade
  <2> HIDE DEF u, i
  <2>6. /\ TableOK(u) /\ u.size_index = i + 1
        /\ u.entries <= t.entries /\ u.deleted_entries = 0
        /\ \A j, e : Holds(u, j, e) <=> Holds(t, j, e)
    BY <1>1, <2>1, <2>3, <2>4, <2>5, RehashKeeps
  <2>7. u.entries \in Nat
    BY <2>6, Counts
  <2>8. u.entries + u.deleted_entries < MaxEntries(u)
    BY <1>1, <2>3, <2>4, <2>6, <2>7 DEF MaxEntries
  <2> QED BY <2>6, <2>8 DEF Room, u
<1>4. CASE t.entries >= MaxEntries(t) /\ ~(i + 1 <= Len(HashSizes))
  <2>1. i = Len(HashSizes) /\ i + 1 > Len(HashSizes)
    BY <1>1, <1>2, <1>4
  <2>2. u = t
    BY <1>4, <2>1 DEF RoomMade, rehash
  <2>3. Cardinality(Keys) \in Nat
    BY HashAssumption, FS_CardinalityType
  <2>4. Cardinality(Keys) <= t.entries
    BY <1>1, <1>4, <2>1, <2>3, KnuthAssumption
  <2>5. HoldsKey(t, k)
    BY <2>4, AllKeys
  <2> QED BY <2>2, <2>5 DEF Room
<1>5. CASE ~(t.entries >= MaxEntries(t)) /\ t.deleted_entries + t.entries >= MaxEntries(t)
  <2>1. u = rehash(t, i)
    BY <1>5 DEF RoomMade
  <2> HIDE DEF u, i
  <2>2. t.entries <= HashSizes[i].max_entries /\ t.entries < MaxEntries(t)
    BY <1>1, <1>5
  <2>3. /\ TableOK(u) /\ u.size_index = i
        /\ u.entries <= t.entries /\ u.deleted_entries = 0
        /\ \A j, e : Holds(u, j, e) <=> Holds(t, j, e)
    BY <1>1, <2>1, <2>2, RehashKeeps
  <2>4. u.entries \in Nat /\ MaxEntries(u) = MaxEntries(t)
    BY <1>1, <2>3, Counts DEF MaxEntries
  <2>5. u.entries + u.deleted_entries < MaxEntries(u)
    BY <1>1, <2>2, <2>3, <2>4
  <2> QED BY <2>3, <2>5 DEF Room, u
<1>6. CASE ~(t.entries >= MaxEntries(t)) /\ ~(t.deleted_entries + t.entries >= MaxEntries(t))
  <2>1. u = t
    BY <1>6 DEF RoomMade
  <2>2. t.entries + t.deleted_entries < MaxEntries(t)
    BY <1>1, <1>6
  <2> QED BY <2>1, <2>2 DEF Room
<1> QED BY <1>3, <1>4, <1>5, <1>6

LEMMA InsertKeeps ==
    ASSUME NEW t, TableOK(t), NEW k \in Keys, NEW d \in Data
    PROVE  TableOK(insert(t, k, d)) /\ HoldsToo(t, insert(t, k, d), k, d)
<1> DEFINE r == RoomMade(t)
           u == Place(r, k, d)
<1>1. TableOK(r) /\ Room(r, k) /\ \A j, e : Holds(r, j, e) <=> Holds(t, j, e)
  BY RoomIsMade
<1>2. u = insert(t, k, d)
  BY DEF insert
<1> HIDE DEF r
<1>3. TableOK(u) /\ HoldsToo(r, u, k, d)
  BY <1>1, PlaceKeeps
<1> QED BY <1>1, <1>2, <1>3 DEF HoldsToo

LEMMA RemoveKeeps ==
    ASSUME NEW t, TableOK(t), NEW k \in Keys, search(t, k) # NONE
    PROVE  search(t, k) \in PresentIn(t) /\ t.table[search(t, k)].key = k
<1>1. PICK a \in PresentIn(t) : t.table[a].key = k
  BY SearchFinds DEF HoldsKey
<1> QED BY <1>1, SearchFinds

-----------------------------------------------------------------------------
(* The invariant *)

LEMMA InitIInv == Init => IInv
<1> SUFFICES ASSUME Init
             PROVE  IInv
  OBVIOUS
<1>1. 1 \in DOMAIN HashSizes
  BY HashSizesAssumption
<1>2. TableOK(ht)
  BY <1>1, EmptyKeeps DEF Init
<1> QED BY <1>2 DEF IInv, Init

LEMMA NextEntry ==
    ASSUME NEW t, TableOK(t), NEW a \in Nat \cup {NONE}
    PROVE  LET b == next_entry(t, a)
           IN  /\ b = NONE => ~\E c \in PresentIn(t) : c > a
               /\ b # NONE => /\ b \in PresentIn(t) /\ b > a /\ b \in Nat
                              /\ \A c \in PresentIn(t) : c > a => b <= c
<1> DEFINE after == {b \in PresentIn(t) : b > a}
<1>1. PresentIn(t) \subseteq Nat
  BY Table DEF TableOK, PresentIn
<1>2. next_entry(t, a) = IF after = {} THEN NONE ELSE Min(after)
  BY DEF next_entry
<1>3. CASE after = {}
  BY <1>2, <1>3
<1>4. CASE after # {}
  <2>1. after \subseteq Nat
    BY <1>1
  <2> DEFINE b == Min(after)
  <2>2. b \in after /\ \A c \in after : b <= c
    <3> HIDE DEF after
    <3> QED BY <1>4, <2>1, LeastNumber
  <2>3. next_entry(t, a) = b
    BY <1>2, <1>4
  <2> HIDE DEF b
  <2>4. b # NONE
    BY <2>1, <2>2 DEF NONE
  <2> QED BY <1>1, <2>2, <2>3, <2>4
<1> QED BY <1>3, <1>4

LEMMA NextIInv == IInv /\ [Next]_vars => IInv'
<1> SUFFICES ASSUME IInv, [Next]_vars
             PROVE  IInv'
  OBVIOUS
<1>1. TableOK(ht) /\ looping \in BOOLEAN /\ cursor \in Nat \cup {NONE}
  BY DEF IInv
<1>2. ASSUME NEW k \in Keys, RemoveKey(k)
      PROVE  IInv'
  <2>1. CASE search(ht, k) = NONE
    BY <1>1, <1>2, <2>1 DEF RemoveKey, IInv
  <2>2. CASE search(ht, k) # NONE
    <3>1. search(ht, k) \in PresentIn(ht)
      BY <1>1, <2>2, RemoveKeeps
    <3>2. ht' = remove_entry(ht, search(ht, k)) /\ UNCHANGED <<looping, cursor>>
      BY <1>2, <2>2 DEF RemoveKey
    <3>3. TableOK(ht')
      BY <1>1, <3>1, <3>2, RemovedKeeps
    <3> QED BY <1>1, <3>2, <3>3 DEF IInv
  <2> QED BY <2>1, <2>2
<1>3. ASSUME NEW k \in Keys, NEW d \in Data, InsertKey(k, d)
      PROVE  IInv'
  <2>1. TableOK(ht')
    BY <1>1, <1>3, InsertKeeps DEF InsertKey
  <2> QED BY <1>1, <1>3, <2>1 DEF InsertKey, IInv
<1>4. CASE Begin
  BY <1>1, <1>4 DEF Begin, IInv
<1>5. CASE Step
  BY <1>1, <1>5, NextEntry DEF Step, IInv
<1>6. CASE RemoveCurrent
  <2>1. TableOK(ht')
    BY <1>1, <1>6, RemovedKeeps DEF RemoveCurrent
  <2> QED BY <1>1, <1>6, <2>1 DEF RemoveCurrent, IInv
<1>7. CASE UNCHANGED vars
  BY <1>1, <1>7 DEF vars, IInv
<1> QED BY <1>2, <1>3, <1>4, <1>5, <1>6, <1>7 DEF Next

(* Calls in any order keep the table in order: counts, single keys and     *)
(* searches that reach every entry.                                        *)
THEOREM Invariant == Spec => []IInv
BY InitIInv, NextIInv, PTL DEF Spec

LEMMA CountsFollow == IInv => CountsRight
<1> SUFFICES ASSUME IInv
             PROVE  CountsRight
  OBVIOUS
<1>1. TableOK(ht)
  BY DEF IInv
<1>2. \E a \in Addresses(ht) : ht.table[a].kind = "free"
  BY <1>1, FreeSlot DEF TableOK
<1> QED BY <1>1, <1>2 DEF CountsRight, TableOK, Counted, Single, DeletedIn

(* For any number of keys, any hash function and any history: the counts   *)
(* of the table are those of its slots, a key is in one slot, and a slot   *)
(* is free, so a search that finds nothing stops before it is all round.   *)
THEOREM CountsKept == Spec => []CountsRight
BY Invariant, CountsFollow, PTL

LEMMA RandomFinds ==
    ASSUME NEW t, TableOK(t), NEW k, NEW start
    PROVE  LET a == random_entry(t, start, {k})
           IN  IF HoldsKey(t, k) THEN a \in PresentIn(t) /\ t.table[a].key = k ELSE a = NONE
<1> DEFINE fit == {a \in PresentIn(t) : t.table[a].key \in {k}}
           ahead == {a \in fit : a >= start}
<1>1. random_entry(t, start, {k})
        = IF fit = {} THEN NONE ELSE IF ahead # {} THEN Min(ahead) ELSE Min(fit)
  BY DEF random_entry
<1>2. fit \subseteq Nat /\ ahead \subseteq fit
  BY Table DEF TableOK, PresentIn
<1>3. HoldsKey(t, k) <=> fit # {}
  BY DEF HoldsKey
<1>4. \A a \in fit : a \in PresentIn(t) /\ t.table[a].key = k
  OBVIOUS
<1> HIDE DEF fit, ahead
<1>5. fit # {} => Min(fit) \in fit
  BY <1>2, LeastNumber
<1>6. ahead # {} => Min(ahead) \in fit
  <2>1. ahead \subseteq Nat
    BY <1>2
  <2> QED BY <1>2, <2>1, LeastNumber
<1> QED BY <1>1, <1>2, <1>3, <1>4, <1>5, <1>6

LEMMA SearchFollows == IInv => SearchRight
<1> SUFFICES ASSUME IInv, NEW k \in Keys
             PROVE  LET holding == {a \in PresentIn(ht) : ht.table[a].key = k}
                        finds(a) == IF holding = {} THEN a = NONE ELSE a \in holding
                    IN  /\ finds(search(ht, k))
                        /\ \A a \in Addresses(ht) : finds(random_entry(ht, a, {k}))
  BY DEF SearchRight
<1>1. TableOK(ht)
  BY DEF IInv
<1> DEFINE holding == {a \in PresentIn(ht) : ht.table[a].key = k}
<1>2. HoldsKey(ht, k) <=> holding # {}
  BY DEF HoldsKey
<1>3. IF holding = {} THEN search(ht, k) = NONE ELSE search(ht, k) \in holding
  BY <1>1, <1>2, SearchFinds
<1>4. \A a \in Addresses(ht) :
          IF holding = {} THEN random_entry(ht, a, {k}) = NONE
          ELSE random_entry(ht, a, {k}) \in holding
  BY <1>1, <1>2, RandomFinds
<1> QED BY <1>3, <1>4

(* Whatever was inserted, deleted and rehashed before, a search finds a    *)
(* key exactly when it is in the table, and so does the choice of a random *)
(* entry.                                                                  *)
THEOREM SearchFindsKeys == Spec => []SearchRight
BY Invariant, SearchFollows, PTL

-----------------------------------------------------------------------------
(* The table implements a map *)

KeysOf(t) == {t.table[a].key : a \in PresentIn(t)}

MapOf(t) ==
    [k \in KeysOf(t) |-> t.table[CHOOSE a \in PresentIn(t) : t.table[a].key = k].data]

PendingOf(t, loop, at) ==
    IF loop THEN {t.table[a].key : a \in {b \in PresentIn(t) : b > at}} ELSE {}

LEMMA MapHolds ==
    ASSUME NEW t, TableOK(t)
    PROVE  /\ DOMAIN MapOf(t) = KeysOf(t) /\ MapOf(t) = [k \in KeysOf(t) |-> MapOf(t)[k]]
           /\ \A k : k \in KeysOf(t) <=> \E d : Holds(t, k, d)
           /\ \A k \in KeysOf(t) : \A d : MapOf(t)[k] = d <=> Holds(t, k, d)
           /\ \A a \in PresentIn(t) : MapOf(t)[t.table[a].key] = t.table[a].data
<1>1. DOMAIN MapOf(t) = KeysOf(t) /\ MapOf(t) = [k \in KeysOf(t) |-> MapOf(t)[k]]
  BY DEF MapOf
<1>2. \A k : k \in KeysOf(t) <=> \E d : Holds(t, k, d)
  BY DEF KeysOf, Holds
<1>3. ASSUME NEW a \in PresentIn(t)
      PROVE  MapOf(t)[t.table[a].key] = t.table[a].data
  <2>1. t.table[a].key \in KeysOf(t)
    BY DEF KeysOf
  <2>2. (CHOOSE b \in PresentIn(t) : t.table[b].key = t.table[a].key) = a
    BY DEF TableOK, Single
  <2> QED BY <2>1, <2>2 DEF MapOf
<1>4. ASSUME NEW k \in KeysOf(t), NEW d
      PROVE  MapOf(t)[k] = d <=> Holds(t, k, d)
  <2>1. PICK a \in PresentIn(t) : t.table[a].key = k
    BY DEF KeysOf
  <2>2. MapOf(t)[k] = t.table[a].data
    BY <1>3, <2>1
  <2>3. \A b \in PresentIn(t) : t.table[b].key = k => b = a
    BY <2>1 DEF TableOK, Single
  <2> QED BY <2>1, <2>2, <2>3 DEF Holds
<1> QED BY <1>1, <1>2, <1>3, <1>4

Updated(map, k, d) == [j \in DOMAIN map \cup {k} |-> IF j = k THEN d ELSE map[j]]
Dropped(map, k) == [j \in DOMAIN map \ {k} |-> map[j]]

LEMMA InsertedMap ==
    ASSUME NEW t, TableOK(t), NEW u, TableOK(u), NEW k, NEW d, HoldsToo(t, u, k, d)
    PROVE  MapOf(u) = Updated(MapOf(t), k, d)
<1>1. \A j : j \in KeysOf(u) <=> j \in KeysOf(t) \/ j = k
  <2>1. \A j, e : Holds(u, j, e) <=> IF j = k THEN e = d ELSE Holds(t, j, e)
    BY DEF HoldsToo
  <2>2. \A j : j \in KeysOf(u) <=> \E e : Holds(u, j, e)
    BY MapHolds
  <2>3. \A j : j \in KeysOf(t) <=> \E e : Holds(t, j, e)
    BY MapHolds
  <2> QED BY <2>1, <2>2, <2>3
<1>2. KeysOf(u) = KeysOf(t) \cup {k}
  BY <1>1
<1>3. ASSUME NEW j \in KeysOf(u)
      PROVE  MapOf(u)[j] = IF j = k THEN d ELSE MapOf(t)[j]
  <2>1. CASE j = k
    <3>1. Holds(u, j, d)
      BY <2>1 DEF HoldsToo
    <3> QED BY <2>1, <3>1, MapHolds
  <2>2. CASE j # k
    <3>1. j \in KeysOf(t)
      BY <1>2, <2>2
    <3>2. Holds(t, j, MapOf(t)[j])
      BY <3>1, MapHolds
    <3>3. Holds(u, j, MapOf(t)[j])
      BY <2>2, <3>2 DEF HoldsToo
    <3> QED BY <2>2, <3>3, MapHolds
  <2> QED BY <2>1, <2>2
<1>4. MapOf(u) = [j \in KeysOf(u) |-> MapOf(u)[j]] /\ DOMAIN MapOf(t) = KeysOf(t)
  BY MapHolds
<1>5. [j \in KeysOf(u) |-> MapOf(u)[j]]
        = [j \in KeysOf(t) \cup {k} |-> IF j = k THEN d ELSE MapOf(t)[j]]
  BY <1>2, <1>3
<1> QED BY <1>4, <1>5 DEF Updated

LEMMA RemovedMap ==
    ASSUME NEW t, TableOK(t), NEW a \in PresentIn(t)
    PROVE  LET u == remove_entry(t, a)
               k == t.table[a].key
           IN  /\ MapOf(u) = Dropped(MapOf(t), k)
               /\ \A loop, at : PendingOf(u, loop, at) = PendingOf(t, loop, at) \ {k}
<1> DEFINE u == remove_entry(t, a)
           k == t.table[a].key
<1>1. /\ TableOK(u) /\ PresentIn(u) = PresentIn(t) \ {a}
      /\ \A b \in PresentIn(u) : u.table[b] = t.table[b]
  BY RemovedKeeps
<1> HIDE DEF u
<1>2. \A b \in PresentIn(t) : b # a => t.table[b].key # k
  BY DEF TableOK, Single
<1>3. KeysOf(u) = KeysOf(t) \ {k}
  BY <1>1, <1>2 DEF KeysOf
<1>4. ASSUME NEW j \in KeysOf(u)
      PROVE  MapOf(u)[j] = MapOf(t)[j]
  <2>1. PICK b \in PresentIn(u) : u.table[b].key = j
    BY DEF KeysOf
  <2>2. b \in PresentIn(t) /\ t.table[b] = u.table[b]
    BY <1>1
  <2>3. MapOf(u)[j] = u.table[b].data
    BY <1>1, <2>1, MapHolds
  <2>4. MapOf(t)[j] = t.table[b].data
    BY <2>1, <2>2, MapHolds
  <2> QED BY <2>2, <2>3, <2>4
<1>5. MapOf(u) = [j \in KeysOf(u) |-> MapOf(u)[j]] /\ DOMAIN MapOf(t) = KeysOf(t)
  BY <1>1, MapHolds
<1>6. [j \in KeysOf(u) |-> MapOf(u)[j]] = [j \in KeysOf(t) \ {k} |-> MapOf(t)[j]]
  BY <1>3, <1>4
<1>7. ASSUME NEW loop, NEW at
      PROVE  PendingOf(u, loop, at) = PendingOf(t, loop, at) \ {k}
  BY <1>1, <1>2 DEF PendingOf
<1> QED BY <1>5, <1>6, <1>7 DEF Dropped, u

LEMMA Mapping ==
    /\ Contents = MapOf(ht) /\ Contents' = MapOf(ht')
    /\ Pending = PendingOf(ht, looping, cursor)
    /\ Pending' = PendingOf(ht', looping', cursor')
BY DEF Contents, Pending, Key, MapOf, KeysOf, PendingOf

LEMMA MapInit == Init => AsMap!Init
<1> SUFFICES ASSUME Init
             PROVE  Contents = << >> /\ looping = FALSE /\ Pending = {}
  BY DEF AsMap!Init
<1>1. 1 \in DOMAIN HashSizes
  BY HashSizesAssumption
<1>2. PresentIn(ht) = {}
  BY <1>1, EmptyKeeps DEF Init
<1>3. KeysOf(ht) = {}
  BY <1>2 DEF KeysOf
<1>4. MapOf(ht) = << >>
  BY <1>3 DEF MapOf
<1>5. PendingOf(ht, looping, cursor) = {}
  BY DEF Init, PendingOf
<1> QED BY <1>4, <1>5, Mapping DEF Init

(* A search that finds nothing removes nothing. *)
LEMMA NotThere ==
    ASSUME NEW t, TableOK(t), NEW k, ~HoldsKey(t, k), NEW loop, NEW at
    PROVE  /\ MapOf(t) = Dropped(MapOf(t), k)
           /\ PendingOf(t, loop, at) = PendingOf(t, loop, at) \ {k}
<1>1. k \notin KeysOf(t)
  BY DEF KeysOf, HoldsKey
<1>2. DOMAIN MapOf(t) \ {k} = KeysOf(t) /\ MapOf(t) = [j \in KeysOf(t) |-> MapOf(t)[j]]
  BY <1>1, MapHolds
<1>3. k \notin PendingOf(t, loop, at)
  BY DEF PendingOf, HoldsKey
<1> QED BY <1>2, <1>3 DEF Dropped

LEMMA MapNext == IInv /\ [Next]_vars => [AsMap!Next]_AsMap!mapVars
<1> SUFFICES ASSUME IInv, [Next]_vars
             PROVE  [AsMap!Next]_AsMap!mapVars
  OBVIOUS
<1>1. TableOK(ht) /\ looping \in BOOLEAN /\ cursor \in Nat \cup {NONE}
  BY DEF IInv
<1>2. /\ Contents = MapOf(ht) /\ Contents' = MapOf(ht')
      /\ Pending = PendingOf(ht, looping, cursor)
      /\ Pending' = PendingOf(ht', looping', cursor')
  BY Mapping
<1>3. ASSUME NEW k \in Keys, RemoveKey(k)
      PROVE  AsMap!Next
  <2>1. /\ MapOf(ht') = Dropped(MapOf(ht), k)
        /\ PendingOf(ht', looping', cursor') = PendingOf(ht, looping, cursor) \ {k}
        /\ looping' = looping
    <3>1. looping' = looping /\ cursor' = cursor
      BY <1>3 DEF RemoveKey
    <3>2. CASE search(ht, k) = NONE
      <4>1. ~HoldsKey(ht, k)
        <5>1. PresentIn(ht) \subseteq Nat
          BY <1>1, Table DEF TableOK, PresentIn
        <5> QED BY <1>1, <3>2, <5>1, SearchFinds DEF HoldsKey, NONE
      <4>2. ht' = ht
        BY <1>3, <3>2 DEF RemoveKey
      <4>3. /\ MapOf(ht) = Dropped(MapOf(ht), k)
            /\ PendingOf(ht, looping, cursor) = PendingOf(ht, looping, cursor) \ {k}
        BY <1>1, <4>1, NotThere
      <4> QED BY <3>1, <4>2, <4>3
    <3>3. CASE search(ht, k) # NONE
      <4> DEFINE a == search(ht, k)
      <4>1. a \in PresentIn(ht) /\ ht.table[a].key = k
        BY <1>1, <3>3, RemoveKeeps
      <4>2. ht' = remove_entry(ht, a)
        BY <1>3, <3>3 DEF RemoveKey
      <4> HIDE DEF a
      <4> QED BY <1>1, <3>1, <4>1, <4>2, RemovedMap
    <3> QED BY <3>2, <3>3
  <2>2. AsMap!Remove(k)
    BY <1>2, <2>1 DEF AsMap!Remove, AsMap!Without, AsMap!Restrict, Dropped
  <2> QED BY <2>2 DEF AsMap!Next
<1>4. ASSUME NEW k \in Keys, NEW d \in Data, InsertKey(k, d)
      PROVE  AsMap!Next
  <2>1. ~looping /\ ht' = insert(ht, k, d) /\ looping' = looping /\ cursor' = cursor
    BY <1>4 DEF InsertKey
  <2>2. TableOK(ht') /\ HoldsToo(ht, ht', k, d)
    BY <1>1, <2>1, InsertKeeps
  <2>3. MapOf(ht') = Updated(MapOf(ht), k, d)
    BY <1>1, <2>2, InsertedMap
  <2>4. Pending' = Pending
    BY <1>2, <2>1 DEF PendingOf
  <2>5. AsMap!Insert(k, d)
    BY <1>2, <2>1, <2>3, <2>4 DEF AsMap!Insert, Updated
  <2> QED BY <2>5 DEF AsMap!Next
<1>5. CASE Begin
  <2>1. ~looping /\ looping' = TRUE /\ cursor' = NONE /\ ht' = ht
    BY <1>5 DEF Begin
  <2>2. PresentIn(ht) = {b \in PresentIn(ht) : b > NONE}
    <3>1. PresentIn(ht) \subseteq Nat
      BY <1>1, Table DEF TableOK, PresentIn
    <3> QED BY <3>1 DEF NONE
  <2>3. Pending' = KeysOf(ht)
    BY <1>2, <2>1, <2>2 DEF PendingOf, KeysOf
  <2>4. Pending' = DOMAIN Contents /\ Contents' = Contents
    BY <1>1, <1>2, <2>1, <2>3, MapHolds
  <2> QED BY <2>1, <2>4 DEF AsMap!Begin, AsMap!Next
<1>6. CASE Step
  <2> DEFINE n == next_entry(ht, cursor)
  <2>1. looping /\ looping' = (n # NONE) /\ cursor' = n /\ ht' = ht
    BY <1>6 DEF Step
  <2>2. /\ n = NONE => ~\E c \in PresentIn(ht) : c > cursor
        /\ n # NONE => /\ n \in PresentIn(ht) /\ n > cursor /\ n \in Nat
                       /\ \A c \in PresentIn(ht) : c > cursor => n <= c
    BY <1>1, NextEntry
  <2> HIDE DEF n
  <2>3. Contents' = Contents
    BY <1>2, <2>1
  <2>4. CASE n = NONE
    <3>1. Pending = {} /\ Pending' = {}
      BY <1>2, <2>1, <2>2, <2>4 DEF PendingOf
    <3> QED BY <2>1, <2>3, <2>4, <3>1 DEF AsMap!End, AsMap!Next
  <2>5. CASE n # NONE
    <3> DEFINE k == ht.table[n].key
    <3>1. k \in Keys /\ PresentIn(ht) \subseteq Nat
      BY <1>1, <2>2, <2>5, Table DEF TableOK, PresentIn
    <3>2. {b \in PresentIn(ht) : b > n} = {b \in PresentIn(ht) : b > cursor} \ {n}
      BY <1>1, <2>2, <2>5, <3>1 DEF NONE
    <3>3. n \in {b \in PresentIn(ht) : b > cursor}
      BY <2>2, <2>5
    <3>4. \A b \in PresentIn(ht) : b # n => ht.table[b].key # k
      BY <1>1, <2>2, <2>5 DEF TableOK, Single
    <3>5. looping' = TRUE
      BY <2>1, <2>5
    <3>6. Pending' = Pending \ {k} /\ k \in Pending
      BY <1>2, <2>1, <3>2, <3>3, <3>4, <3>5 DEF PendingOf
    <3>7. AsMap!Visit(k)
      BY <1>1, <2>1, <2>3, <3>5, <3>6 DEF AsMap!Visit
    <3> QED BY <3>1, <3>7 DEF AsMap!Next
  <2> QED BY <2>4, <2>5
<1>7. CASE RemoveCurrent
  <2>1. /\ cursor \in PresentIn(ht) /\ ht' = remove_entry(ht, cursor)
        /\ looping' = looping /\ cursor' = cursor
    BY <1>7 DEF RemoveCurrent
  <2> DEFINE k == ht.table[cursor].key
  <2>2. k \in Keys
    BY <1>1, <2>1, Table DEF TableOK
  <2>3. /\ MapOf(ht') = Dropped(MapOf(ht), k)
        /\ PendingOf(ht', looping', cursor') = PendingOf(ht, looping, cursor) \ {k}
    BY <1>1, <2>1, RemovedMap
  <2> HIDE DEF k
  <2>4. AsMap!Remove(k)
    BY <1>2, <2>1, <2>3 DEF AsMap!Remove, AsMap!Without, AsMap!Restrict, Dropped
  <2> QED BY <2>2, <2>4 DEF AsMap!Next
<1>8. CASE UNCHANGED vars
  <2>1. Contents' = Contents /\ Pending' = Pending /\ looping' = looping
    BY <1>2, <1>8 DEF vars
  <2> QED BY <2>1 DEF AsMap!mapVars
<1> QED BY <1>3, <1>4, <1>5, <1>6, <1>7, <1>8 DEF Next

(* The table of hash_table.c, with its marks, its rehashes and its loop by *)
(* address, is a map and a loop that reaches each key once, also when      *)
(* entries are deleted under it.                                           *)
THEOREM TableIsMap == Spec => ImplementsMap
BY Invariant, MapInit, MapNext, PTL DEF Spec, ImplementsMap, AsMap!Spec

-----------------------------------------------------------------------------
(* Numbers, words and bits *)

LEMMA Quotient ==
    ASSUME NEW a \in Nat, NEW b \in Nat \ {0}
    PROVE  /\ a \div b \in Nat /\ a % b \in 0..(b - 1)
           /\ a = b * (a \div b) + (a % b)
<1>1. a \div b \in Nat
  OBVIOUS
<1> QED BY <1>1, DivMod

(* There is one quotient and one remainder. *)
LEMMA Unique ==
    ASSUME NEW b \in Nat \ {0}, NEW q \in Nat, NEW r \in 0..(b - 1), NEW p \in Nat,
           NEW s \in 0..(b - 1), b * q + r = b * p + s
    PROVE  q = p /\ r = s
<1>1. b * (q - p) = s - r
  OBVIOUS
<1>2. ASSUME q > p PROVE FALSE
  <2>1. b * (q - p) >= b
    BY <1>2
  <2> QED BY <1>1, <2>1
<1>3. ASSUME p > q PROVE FALSE
  <2>1. b * (p - q) >= b
    BY <1>3
  <2>2. b * (p - q) = r - s
    OBVIOUS
  <2> QED BY <2>1, <2>2
<1>4. q = p
  BY <1>2, <1>3
<1> QED BY <1>4

(* A number is a bit of a word, ... *)
LEMMA WordAndBit ==
    ASSUME NEW n \in Nat
    PROVE  /\ WordOf(n) \in Nat \ {0} /\ BitOf(n) \in 0..(WordBits - 1)
           /\ n = (WordOf(n) - 1) * WordBits + BitOf(n)
<1>1. WordBits \in Nat \ {0}
  BY WordBitsAssumption
<1> DEFINE q == n \div WordBits
           r == n % WordBits
<1>2. WordOf(n) = q + 1 /\ BitOf(n) = r
  BY DEF WordOf, BitOf
<1>3. q \in Nat /\ r \in 0..(WordBits - 1) /\ n = WordBits * q + r
  BY <1>1, Quotient
<1> HIDE DEF q, r
<1> QED BY <1>1, <1>2, <1>3

(* ... and a bit of a word is a number. *)
LEMMA NumberOf ==
    ASSUME NEW w \in Nat \ {0}, NEW k \in 0..(WordBits - 1)
    PROVE  LET n == (w - 1) * WordBits + k
           IN  n \in Nat /\ WordOf(n) = w /\ BitOf(n) = k
<1> DEFINE n == (w - 1) * WordBits + k
           q == n \div WordBits
           r == n % WordBits
<1>1. WordBits \in Nat \ {0}
  BY WordBitsAssumption
<1>2. n \in Nat /\ n = WordBits * (w - 1) + k
  BY <1>1
<1>3. WordOf(n) = q + 1 /\ BitOf(n) = r
  BY DEF WordOf, BitOf
<1> HIDE DEF n
<1>4. q \in Nat /\ r \in 0..(WordBits - 1) /\ n = WordBits * q + r
  BY <1>1, <1>2, Quotient
<1> HIDE DEF q, r
<1>5. w - 1 \in Nat /\ WordBits * q + r = WordBits * (w - 1) + k
  BY <1>2, <1>4
<1>6. q = w - 1 /\ r = k
  BY <1>1, <1>4, <1>5, Unique
<1> QED BY <1>2, <1>3, <1>6 DEF n

(* n is within e words if its word is. *)
LEMMA BeforeEnd ==
    ASSUME NEW n \in Nat, NEW e \in Nat
    PROVE  n < WordBits * e <=> WordOf(n) <= e
<1>1. WordBits \in Nat \ {0}
  BY WordBitsAssumption
<1> DEFINE w == WordOf(n)
           k == BitOf(n)
<1>2. w \in Nat \ {0} /\ k \in 0..(WordBits - 1) /\ n = (w - 1) * WordBits + k
  BY WordAndBit
<1> HIDE DEF w, k
<1>3. CASE w <= e
  <2>1. WordBits * w <= WordBits * e
    BY <1>1, <1>2, <1>3
  <2>2. n < WordBits * w
    BY <1>1, <1>2
  <2> QED BY <1>1, <1>2, <1>3, <2>1, <2>2 DEF w
<1>4. CASE ~(w <= e)
  <2>1. w - 1 >= e
    BY <1>2, <1>4
  <2>2. WordBits * (w - 1) >= WordBits * e
    BY <1>1, <1>2, <2>1
  <2> QED BY <1>1, <1>2, <1>4, <2>2 DEF w
<1> QED BY <1>3, <1>4

(* The number of words for nbits bits. *)
LEMMA WordsFor ==
    ASSUME NEW nbits \in Nat
    PROVE  /\ Words(nbits) \in Nat
           /\ \A n \in Nat : n < nbits => WordOf(n) <= Words(nbits)
<1>1. WordBits \in Nat \ {0}
  BY WordBitsAssumption
<1> DEFINE m == nbits + WordBits - 1
           q == m \div WordBits
           r == m % WordBits
<1>2. m \in Nat
  BY <1>1
<1>3. Words(nbits) = q
  BY DEF Words
<1> HIDE DEF m
<1>4. q \in Nat /\ r \in 0..(WordBits - 1) /\ m = WordBits * q + r
  BY <1>1, <1>2, Quotient
<1> HIDE DEF q, r
<1>5. nbits <= WordBits * q
  BY <1>1, <1>4 DEF m
<1>6. \A n \in Nat : n < nbits => n < WordBits * q
  BY <1>1, <1>4, <1>5
<1> QED BY <1>3, <1>4, <1>6, BeforeEnd

(* Whole words need no word more. *)
LEMMA WordsExactly ==
    ASSUME NEW e \in Nat
    PROVE  Words(e * WordBits) = e
<1>1. WordBits \in Nat \ {0}
  BY WordBitsAssumption
<1> DEFINE m == e * WordBits + WordBits - 1
           q == m \div WordBits
           r == m % WordBits
           s == WordBits - 1
<1>2. m \in Nat /\ m = WordBits * e + s /\ s \in 0..(WordBits - 1)
  BY <1>1
<1>3. Words(e * WordBits) = q
  BY DEF Words
<1> HIDE DEF m, s
<1>4. q \in Nat /\ r \in 0..(WordBits - 1) /\ m = WordBits * q + r
  BY <1>1, <1>2, Quotient
<1> HIDE DEF q, r
<1>5. WordBits * q + r = WordBits * e + s
  BY <1>2, <1>4
<1>6. q = e
  BY <1>1, <1>2, <1>4, <1>5, Unique
<1> QED BY <1>3, <1>6

-----------------------------------------------------------------------------
(* Bit sets, word by word *)

Bits == 0..(WordBits - 1)
BitsetType == [els : Nat, varr : Seq(SUBSET Bits)]

BitsetOK(bm) == bm \in BitsetType /\ bm.els <= Len(bm.varr)

(* The whole memory of a set, as a set without anything behind its end,    *)
(* and the numbers in it.                                                  *)
Whole(bm) == [els |-> Len(bm.varr), varr |-> bm.varr]
Memory(bm) == Content(Whole(bm))

LEMMA FieldTypes ==
    ASSUME NEW bm, BitsetOK(bm)
    PROVE  /\ bm.els \in Nat /\ bm.varr \in Seq(SUBSET Bits) /\ Len(bm.varr) \in Nat
           /\ DOMAIN bm.varr = 1..Len(bm.varr) /\ bm.els <= Len(bm.varr)
           /\ \A w \in 1..Len(bm.varr) : bm.varr[w] \subseteq Bits
BY DEF BitsetOK, BitsetType

LEMMA OperandTypes ==
    ASSUME NEW bm, BitsetOK(bm), NEW w \in Nat \ {0}
    PROVE  Operand(bm, w) \subseteq Bits
BY FieldTypes DEF Operand

(* A number is in the set if its bit is on in its word. *)
LEMMA InContent ==
    ASSUME NEW bm, BitsetOK(bm)
    PROVE  /\ Content(bm) \subseteq Nat
           /\ \A n \in Nat : n \in Content(bm) <=> BitOf(n) \in Operand(bm, WordOf(n))
<1>1. /\ bm.els \in Nat /\ \A w \in 1..bm.els : bm.varr[w] \subseteq Bits
  BY FieldTypes
<1>2. ASSUME NEW n \in Content(bm)
      PROVE  n \in Nat /\ BitOf(n) \in Operand(bm, WordOf(n))
  <2>1. PICK w \in 1..bm.els : n \in {(w - 1) * WordBits + k : k \in bm.varr[w]}
    BY DEF Content
  <2>2. PICK k \in bm.varr[w] : n = (w - 1) * WordBits + k
    BY <2>1
  <2>3. w \in Nat \ {0} /\ k \in 0..(WordBits - 1)
    BY <1>1 DEF Bits
  <2>4. n \in Nat /\ WordOf(n) = w /\ BitOf(n) = k
    BY <2>2, <2>3, NumberOf
  <2>5. ~(w > bm.els)
    BY <1>1
  <2> QED BY <2>4, <2>5 DEF Operand
<1>3. ASSUME NEW n \in Nat, BitOf(n) \in Operand(bm, WordOf(n))
      PROVE  n \in Content(bm)
  <2>1. /\ WordOf(n) \in Nat \ {0}
        /\ n = (WordOf(n) - 1) * WordBits + BitOf(n)
    BY WordAndBit
  <2>2. ~(WordOf(n) > bm.els) /\ BitOf(n) \in bm.varr[WordOf(n)]
    BY <1>3 DEF Operand
  <2>3. WordOf(n) \in 1..bm.els
    BY <1>1, <2>1, <2>2
  <2> QED BY <2>1, <2>2, <2>3 DEF Content
<1> QED BY <1>2, <1>3

(* Bit sets stand for the same set if they have the same words. *)
LEMMA WordsDecide ==
    ASSUME NEW a, BitsetOK(a), NEW b, BitsetOK(b)
    PROVE  Content(a) = Content(b) <=> \A w \in Nat \ {0} : Operand(a, w) = Operand(b, w)
<1>1. ASSUME \A w \in Nat \ {0} : Operand(a, w) = Operand(b, w)
      PROVE  Content(a) = Content(b)
  <2>1. \A n \in Nat : n \in Content(a) <=> n \in Content(b)
    BY <1>1, InContent, WordAndBit
  <2> QED BY <2>1, InContent
<1>2. ASSUME Content(a) = Content(b), NEW w \in Nat \ {0}
      PROVE  Operand(a, w) = Operand(b, w)
  <2>1. ASSUME NEW k \in Bits
        PROVE  k \in Operand(a, w) <=> k \in Operand(b, w)
    <3> DEFINE n == (w - 1) * WordBits + k
    <3>1. n \in Nat /\ WordOf(n) = w /\ BitOf(n) = k
      BY NumberOf DEF Bits
    <3> HIDE DEF n
    <3> QED BY <1>2, <3>1, InContent
  <2>2. Operand(a, w) \subseteq Bits /\ Operand(b, w) \subseteq Bits
    BY OperandTypes
  <2> QED BY <2>1, <2>2
<1> QED BY <1>1, <1>2

(* The set with these words. *)
LEMMA StandsFor ==
    ASSUME NEW bm, BitsetOK(bm), NEW S, S \subseteq Nat,
           \A n \in Nat : n \in S <=> BitOf(n) \in Operand(bm, WordOf(n))
    PROVE  Content(bm) = S
BY InContent

LEMMA WholeRight ==
    ASSUME NEW bm, BitsetOK(bm)
    PROVE  /\ BitsetOK(Whole(bm)) /\ Whole(bm).els = Len(bm.varr) /\ Whole(bm).varr = bm.varr
           /\ \A w \in Nat \ {0} : Operand(bm, w) = IF w > bm.els THEN {} ELSE Operand(Whole(bm), w)
<1>1. bm.els \in Nat /\ bm.varr \in Seq(SUBSET Bits) /\ Len(bm.varr) \in Nat /\ bm.els <= Len(bm.varr)
  BY FieldTypes
<1>2. Whole(bm) = [els |-> Len(bm.varr), varr |-> bm.varr]
  BY DEF Whole
<1> QED BY <1>1, <1>2 DEF BitsetOK, BitsetType, Operand

LEMMA InMemory ==
    ASSUME NEW bm, BitsetOK(bm)
    PROVE  /\ Memory(bm) \subseteq Nat
           /\ \A n \in Nat : n \in Memory(bm) <=> BitOf(n) \in Operand(Whole(bm), WordOf(n))
BY WholeRight, InContent DEF Memory

LEMMA MemoriesDecide ==
    ASSUME NEW a, BitsetOK(a), NEW b, BitsetOK(b)
    PROVE  Memory(a) = Memory(b) <=> \A w \in Nat \ {0} : Operand(Whole(a), w) = Operand(Whole(b), w)
BY WholeRight, WordsDecide DEF Memory

(* A number is within w words if its word is.                              *)
LEMMA InWords ==
    ASSUME NEW S, S \subseteq Nat, NEW w \in Nat, NEW n \in Nat
    PROVE  /\ n \in Within(S, w) <=> n \in S /\ WordOf(n) <= w
           /\ n \in Beyond(S, w) <=> n \in S /\ ~(WordOf(n) <= w)
           /\ Within(S, w) \subseteq Nat /\ Beyond(S, w) \subseteq Nat
<1>1. n < WordBits * w <=> WordOf(n) <= w
  BY BeforeEnd
<1>2. w * WordBits = WordBits * w /\ w * WordBits \in Nat
  BY WordBitsAssumption
<1> DEFINE e == w * WordBits
<1>3. e \in Nat /\ (n < e <=> WordOf(n) <= w)
  BY <1>1, <1>2
<1>4. Within(S, w) = {m \in S : m < e} /\ Beyond(S, w) = {m \in S : m >= e}
  BY DEF Within, Beyond
<1> HIDE DEF e
<1>5. n \in Within(S, w) <=> n \in S /\ WordOf(n) <= w
  BY <1>3, <1>4
<1>6. n \in Beyond(S, w) <=> n \in S /\ ~(WordOf(n) <= w)
  <2>1. n >= e <=> ~(n < e)
    BY <1>3
  <2> QED BY <1>3, <1>4, <2>1
<1>7. Within(S, w) \subseteq Nat /\ Beyond(S, w) \subseteq Nat
  BY <1>4
<1> QED BY <1>5, <1>6, <1>7

(* A set stands for what its memory holds before its end.                  *)
LEMMA ContentIs ==
    ASSUME NEW bm, BitsetOK(bm)
    PROVE  Content(bm) = Within(Memory(bm), bm.els)
<1>1. bm.els \in Nat
  BY FieldTypes
<1>2. Content(bm) \subseteq Nat /\ Memory(bm) \subseteq Nat
  BY InContent, InMemory
<1>3. ASSUME NEW n \in Nat
      PROVE  n \in Content(bm) <=> n \in Within(Memory(bm), bm.els)
  <2>1. WordOf(n) \in Nat \ {0}
    BY WordAndBit
  <2>2. n \in Content(bm) <=> BitOf(n) \in Operand(bm, WordOf(n))
    BY InContent
  <2>3. n \in Memory(bm) <=> BitOf(n) \in Operand(Whole(bm), WordOf(n))
    BY InMemory
  <2>4. Operand(bm, WordOf(n)) = IF WordOf(n) > bm.els THEN {} ELSE Operand(Whole(bm), WordOf(n))
    BY <2>1, WholeRight
  <2>5. n \in Within(Memory(bm), bm.els) <=> n \in Memory(bm) /\ WordOf(n) <= bm.els
    BY <1>1, <1>2, InWords
  <2> QED BY <1>1, <2>1, <2>2, <2>3, <2>4, <2>5
<1>4. Within(Memory(bm), bm.els) \subseteq Nat
  BY <1>2 DEF Within
<1> QED BY <1>2, <1>3, <1>4

LEMMA LargerRight ==
    ASSUME NEW m \in Nat, NEW n \in Nat
    PROVE  /\ Larger(m, n) \in Nat /\ Larger(m, n) >= m /\ Larger(m, n) >= n
           /\ Larger(m, n) = m \/ Larger(m, n) = n
BY DEF Larger

LEMMA ZerosRight ==
    ASSUME NEW n \in Nat
    PROVE  /\ Zeros(n) \in Seq(SUBSET Bits) /\ Len(Zeros(n)) = n
           /\ \A w \in 1..n : Zeros(n)[w] = {}
BY DEF Zeros

LEMMA ConcatWords ==
    ASSUME NEW S, NEW u \in Seq(S), NEW v \in Seq(S)
    PROVE  /\ u \o v \in Seq(S) /\ Len(u \o v) = Len(u) + Len(v)
           /\ \A i \in 1..Len(u) : (u \o v)[i] = u[i]
           /\ \A i \in 1..Len(v) : (u \o v)[Len(u) + i] = v[i]
OBVIOUS

(* The set with room for more words. *)
Roomy(bm, e, room) ==
    /\ BitsetOK(e) /\ e.els = Larger(bm.els, room)
    /\ \A w \in Nat \ {0} : Operand(Whole(e), w) = Operand(Whole(bm), w)

(* bitset_expand() keeps the memory, and what it adds to it is zero.       *)
LEMMA ExpandRight ==
    ASSUME NEW bm, BitsetOK(bm), NEW nbits \in Nat
    PROVE  Roomy(bm, Expand(bm, nbits), Words(nbits))
<1> DEFINE m == Words(nbits)
           e == Expand(bm, nbits)
           len == Len(bm.varr)
<1>1. /\ bm.els \in Nat /\ bm.varr \in Seq(SUBSET Bits) /\ len \in Nat /\ bm.els <= len
  BY FieldTypes
<1>2. m \in Nat
  BY WordsFor
<1>3. CASE m <= bm.els
  <2>1. e = bm /\ bm.els = Larger(bm.els, m)
    BY <1>1, <1>2, <1>3 DEF Expand, Larger
  <2> QED BY <1>1, <2>1 DEF Roomy
<1>4. CASE ~(m <= bm.els)
  <2> DEFINE more == Larger(0, m - len)
             z == Zeros(more)
             v == bm.varr \o z
  <2>1. e = [els |-> m, varr |-> v]
    BY <1>4 DEF Expand
  <2>2. m = Larger(bm.els, m) /\ more \in Nat /\ more >= m - len
    BY <1>1, <1>2, <1>4 DEF Larger
  <2> HIDE DEF more
  <2>3. z \in Seq(SUBSET Bits) /\ Len(z) = more /\ \A w \in 1..more : z[w] = {}
    BY <2>2, ZerosRight
  <2> HIDE DEF z
  <2>4. /\ v \in Seq(SUBSET Bits) /\ Len(v) = len + more
        /\ \A w \in 1..len : v[w] = bm.varr[w]
        /\ \A i \in 1..more : v[len + i] = {}
    BY <1>1, <2>3, ConcatWords
  <2> HIDE DEF v, m, e
  <2>5. e.els = m /\ e.varr = v /\ e \in BitsetType
    BY <1>2, <2>1, <2>4 DEF BitsetType
  <2>6. BitsetOK(e)
    BY <1>1, <1>2, <2>2, <2>4, <2>5 DEF BitsetOK
  <2>7. Whole(e).els = len + more /\ Whole(e).varr = v /\ Whole(bm).els = len /\ Whole(bm).varr = bm.varr
    BY <2>4, <2>5 DEF Whole
  <2>8. ASSUME NEW w \in Nat \ {0}
        PROVE  Operand(Whole(e), w) = Operand(Whole(bm), w)
    <3>1. CASE w <= len
      BY <1>1, <2>2, <2>4, <2>7, <3>1 DEF Operand
    <3>2. CASE ~(w <= len) /\ w <= len + more
      <4>1. w - len \in 1..more /\ len + (w - len) = w
        BY <1>1, <2>2, <3>2
      <4>2. v[w] = {}
        BY <2>4, <4>1
      <4> QED BY <1>1, <2>2, <2>7, <3>2, <4>2 DEF Operand
    <3>3. CASE ~(w <= len + more)
      BY <1>1, <2>2, <2>7, <3>3 DEF Operand
    <3> QED BY <3>1, <3>2, <3>3
  <2>9. Roomy(bm, e, m)
    BY <2>2, <2>5, <2>6, <2>8 DEF Roomy
  <2> QED BY <2>9 DEF e, m
<1> QED BY <1>3, <1>4

(* What a call does to a set and its memory, and what it returns. *)
Effect(bm, r, S, w) ==
    /\ BitsetOK(r.bm) /\ Memory(r.bm) = S /\ r.bm.els = w
    /\ r.value \in BOOLEAN /\ (r.value <=> S # Memory(bm))

-----------------------------------------------------------------------------
(* One word *)

(* Storing a word changes no other. *)
LEMMA WordChanged ==
    ASSUME NEW bm, BitsetOK(bm), NEW w \in 1..bm.els, NEW word \in SUBSET Bits
    PROVE  LET c == [bm EXCEPT !.varr[w] = word]
           IN  /\ BitsetOK(c) /\ c.els = bm.els /\ Operand(Whole(c), w) = word
               /\ \A v \in Nat \ {0} : v # w => Operand(Whole(c), v) = Operand(Whole(bm), v)
<1> DEFINE c == [bm EXCEPT !.varr[w] = word]
           seq == [bm.varr EXCEPT ![w] = word]
<1>1. /\ bm.els \in Nat /\ bm.varr \in Seq(SUBSET Bits) /\ Len(bm.varr) \in Nat
      /\ bm.els <= Len(bm.varr) /\ bm \in BitsetType
  BY FieldTypes DEF BitsetOK
<1>2. w \in 1..Len(bm.varr)
  BY <1>1
<1>3. /\ seq \in Seq(SUBSET Bits) /\ Len(seq) = Len(bm.varr) /\ seq[w] = word
      /\ \A v \in 1..Len(bm.varr) : v # w => seq[v] = bm.varr[v]
  BY <1>1, <1>2
<1>4. c.els = bm.els /\ c.varr = seq /\ c \in BitsetType
  BY <1>1, <1>3 DEF BitsetType
<1> HIDE DEF c, seq
<1>5. BitsetOK(c)
  BY <1>1, <1>3, <1>4 DEF BitsetOK
<1>6. /\ Whole(c).els = Len(bm.varr) /\ Whole(c).varr = seq
      /\ Whole(bm).els = Len(bm.varr) /\ Whole(bm).varr = bm.varr
  BY <1>3, <1>4 DEF Whole
<1>7. Operand(Whole(c), w) = word
  BY <1>1, <1>2, <1>3, <1>6 DEF Operand
<1>8. ASSUME NEW v \in Nat \ {0}, v # w
      PROVE  Operand(Whole(c), v) = Operand(Whole(bm), v)
  BY <1>1, <1>3, <1>6, <1>8 DEF Operand
<1> QED BY <1>4, <1>5, <1>7, <1>8 DEF c

(* A number is in the set if its bit is on. *)
LEMMA BitIn ==
    ASSUME NEW bm, BitsetOK(bm), NEW n \in Nat
    PROVE  BitP(bm, n) <=> n \in Content(bm)
<1>1. bm.els \in Nat
  BY FieldTypes
<1>2. n < WordBits * bm.els <=> WordOf(n) <= bm.els
  BY <1>1, BeforeEnd
<1>3. WordOf(n) \in Nat \ {0}
  BY WordAndBit
<1>4. n \in Content(bm) <=> BitOf(n) \in Operand(bm, WordOf(n))
  BY InContent
<1>5. CASE WordOf(n) <= bm.els
  BY <1>1, <1>2, <1>3, <1>4, <1>5 DEF BitP, Operand
<1>6. CASE ~(WordOf(n) <= bm.els)
  BY <1>1, <1>2, <1>3, <1>4, <1>6 DEF BitP, Operand
<1> QED BY <1>5, <1>6

(* Setting or clearing the bit of a number changes that number only. *)
LEMMA OneBit ==
    ASSUME NEW bm, BitsetOK(bm), NEW n \in Nat, WordOf(n) \in 1..bm.els,
           NEW word \in SUBSET Bits,
           \A k \in Bits : k # BitOf(n) => (k \in word <=> k \in bm.varr[WordOf(n)])
    PROVE  LET c == [bm EXCEPT !.varr[WordOf(n)] = word]
           IN  /\ BitsetOK(c) /\ c.els = bm.els
               /\ \A m \in Nat : m # n => (m \in Memory(c) <=> m \in Memory(bm))
               /\ n \in Memory(c) <=> BitOf(n) \in word
               /\ n \in Memory(bm) <=> BitOf(n) \in bm.varr[WordOf(n)]
<1> DEFINE w == WordOf(n)
           c == [bm EXCEPT !.varr[w] = word]
<1>1. /\ BitsetOK(c) /\ c.els = bm.els /\ Operand(Whole(c), w) = word
      /\ \A v \in Nat \ {0} : v # w => Operand(Whole(c), v) = Operand(Whole(bm), v)
  BY WordChanged
<1>2. Operand(Whole(bm), w) = bm.varr[w]
  <2>1. bm.els \in Nat /\ Len(bm.varr) \in Nat /\ bm.els <= Len(bm.varr)
    BY FieldTypes
  <2>2. Whole(bm).els = Len(bm.varr) /\ Whole(bm).varr = bm.varr
    BY WholeRight
  <2> QED BY <2>1, <2>2 DEF Operand
<1> HIDE DEF c
<1>3. \A m \in Nat : m \in Memory(c) <=> BitOf(m) \in Operand(Whole(c), WordOf(m))
  BY <1>1, InMemory
<1>4. \A m \in Nat : m \in Memory(bm) <=> BitOf(m) \in Operand(Whole(bm), WordOf(m))
  BY InMemory
<1>5. ASSUME NEW m \in Nat, m # n
      PROVE  m \in Memory(c) <=> m \in Memory(bm)
  <2>1. /\ WordOf(m) \in Nat \ {0} /\ BitOf(m) \in Bits
        /\ m = (WordOf(m) - 1) * WordBits + BitOf(m)
    BY WordAndBit DEF Bits
  <2>2. n = (w - 1) * WordBits + BitOf(n)
    BY WordAndBit
  <2>3. CASE WordOf(m) # w
    BY <1>1, <1>3, <1>4, <2>1, <2>3
  <2>4. CASE WordOf(m) = w
    <3>1. BitOf(m) # BitOf(n)
      BY <1>5, <2>1, <2>2, <2>4
    <3>2. BitOf(m) \in word <=> BitOf(m) \in bm.varr[w]
      BY <2>1, <3>1
    <3> QED BY <1>1, <1>2, <1>3, <1>4, <2>4, <3>2
  <2> QED BY <2>3, <2>4
<1>6. n \in Memory(c) <=> BitOf(n) \in word
  BY <1>1, <1>3
<1>7. n \in Memory(bm) <=> BitOf(n) \in bm.varr[w]
  BY <1>2, <1>4
<1> QED BY <1>1, <1>5, <1>6, <1>7 DEF c

(* raviX_bitset_set_bit_p() adds the number and returns whether its bit was*)
(* off in memory.                                                          *)
LEMMA SetBitRight ==
    ASSUME NEW bm, BitsetOK(bm), NEW n \in Nat
    PROVE  Effect(bm, SetBitP(bm, n), Memory(bm) \cup {n}, Larger(bm.els, Words(n + 1)))
<1> DEFINE b == Expand(bm, n + 1)
           w == WordOf(n)
           word == b.varr[w] \cup {BitOf(n)}
           c == [b EXCEPT !.varr[w] = word]
           r == SetBitP(bm, n)
           room == Words(n + 1)
<1>1. n + 1 \in Nat /\ n < n + 1
  OBVIOUS
<1>2. Roomy(bm, b, room)
  BY <1>1, ExpandRight
<1>3. /\ w \in Nat \ {0} /\ BitOf(n) \in Bits /\ room \in Nat /\ w <= room
  BY <1>1, WordAndBit, WordsFor DEF Bits
<1>4. r.bm = c /\ r.value = (BitOf(n) \notin b.varr[w])
  BY DEF SetBitP, Result
<1> HIDE DEF b, r, room
<1>5. BitsetOK(b) /\ b.els = Larger(bm.els, room) /\ bm.els \in Nat
  BY <1>2, FieldTypes DEF Roomy
<1>6. w \in 1..b.els
  <2>1. b.els \in Nat /\ b.els >= room
    BY ONLY <1>3, <1>5 DEF Larger
  <2> HIDE DEF w
  <2> QED BY <1>3, <2>1
<1>7. Memory(b) = Memory(bm)
  BY <1>2, <1>5, MemoriesDecide DEF Roomy
<1>8. b.varr[w] \subseteq Bits
  <2>1. b.els \in Nat /\ b.els <= Len(b.varr) /\ Len(b.varr) \in Nat
    BY <1>5, FieldTypes
  <2> QED BY <1>5, <1>6, <2>1, FieldTypes
<1>9. word \in SUBSET Bits
  BY <1>3, <1>8
<1>10. \A k \in Bits : k # BitOf(n) => (k \in word <=> k \in b.varr[w])
  OBVIOUS
<1>11. BitOf(n) \in word
  OBVIOUS
<1> HIDE DEF word
<1>12. /\ BitsetOK(c) /\ c.els = b.els
       /\ \A m \in Nat : m # n => (m \in Memory(c) <=> m \in Memory(b))
       /\ n \in Memory(c) <=> BitOf(n) \in word
       /\ n \in Memory(b) <=> BitOf(n) \in b.varr[w]
  BY <1>5, <1>6, <1>9, <1>10, OneBit
<1> HIDE DEF c
<1>13. Memory(c) = Memory(bm) \cup {n}
  BY <1>5, <1>7, <1>11, <1>12, InMemory
<1>14. r.value \in BOOLEAN /\ (r.value <=> Memory(bm) \cup {n} # Memory(bm))
  BY <1>4, <1>7, <1>12
<1> QED BY <1>4, <1>5, <1>12, <1>13, <1>14 DEF Effect, r, room

(* raviX_bitset_clear_bit_p() removes it and returns whether it was there;  *)
(* behind the end it looks for nothing.                                    *)
LEMMA ClearBitRight ==
    ASSUME NEW bm, BitsetOK(bm), NEW n \in Nat
    PROVE  Effect(bm, ClearBitP(bm, n), Memory(bm) \ ({n} \cap Content(bm)), bm.els)
<1> DEFINE w == WordOf(n)
           word == bm.varr[w] \ {BitOf(n)}
           c == [bm EXCEPT !.varr[w] = word]
           r == ClearBitP(bm, n)
           S == Memory(bm) \ ({n} \cap Content(bm))
<1>1. /\ bm.els \in Nat /\ Len(bm.varr) \in Nat /\ bm.els <= Len(bm.varr)
      /\ w \in Nat \ {0} /\ BitOf(n) \in Bits
  BY FieldTypes, WordAndBit DEF Bits
<1>2. n < WordBits * bm.els <=> w <= bm.els
  BY <1>1, BeforeEnd
<1>3. WordBits * bm.els \in Nat
  BY <1>1, WordBitsAssumption
<1>4. CASE ~(w <= bm.els)
  <2>1. n >= WordBits * bm.els
    BY <1>2, <1>3, <1>4
  <2>2. r.bm = bm /\ r.value = FALSE
    BY <2>1 DEF ClearBitP, Result
  <2>3. n \notin Content(bm)
    BY <1>1, <1>4, InContent DEF Operand
  <2> HIDE DEF r
  <2>4. S = Memory(bm)
    BY <2>3
  <2> HIDE DEF S
  <2>5. Effect(bm, r, S, bm.els)
    BY <2>2, <2>4 DEF Effect
  <2> QED BY <2>5 DEF r, S
<1>5. CASE w <= bm.els
  <2>1. ~(n >= WordBits * bm.els)
    BY <1>2, <1>3, <1>5
  <2>2. r.bm = c /\ r.value = (BitOf(n) \in bm.varr[w])
    BY <2>1 DEF ClearBitP, Result
  <2> HIDE DEF r
  <2>3. w \in 1..bm.els /\ bm.varr[w] \subseteq Bits
    BY <1>1, <1>5, FieldTypes
  <2>4. /\ word \in SUBSET Bits /\ BitOf(n) \notin word
        /\ \A k \in Bits : k # BitOf(n) => (k \in word <=> k \in bm.varr[w])
    BY <2>3
  <2> HIDE DEF word
  <2>5. /\ BitsetOK(c) /\ c.els = bm.els
        /\ \A m \in Nat : m # n => (m \in Memory(c) <=> m \in Memory(bm))
        /\ n \in Memory(c) <=> BitOf(n) \in word
        /\ n \in Memory(bm) <=> BitOf(n) \in bm.varr[w]
    BY <2>3, <2>4, OneBit
  <2> HIDE DEF c
  <2>6. n \in Content(bm) <=> BitOf(n) \in bm.varr[w]
    BY <1>1, <1>5, InContent DEF Operand
  <2>7. S = Memory(bm) \ {n}
    BY <2>5, <2>6
  <2>8. Memory(c) = S
    BY <2>4, <2>5, <2>7, InMemory
  <2>9. n \in Memory(bm) <=> Memory(bm) \ {n} # Memory(bm)
    OBVIOUS
  <2> HIDE DEF S
  <2>10. r.value \in BOOLEAN /\ (r.value <=> S # Memory(bm))
    <3>1. r.value \in BOOLEAN
      BY ONLY <2>2
    <3>2. r.value <=> n \in Memory(bm)
      BY ONLY <2>2, <2>5
    <3>3. S # Memory(bm) <=> Memory(bm) \ {n} # Memory(bm)
      BY ONLY <2>7
    <3> QED BY ONLY <2>9, <3>1, <3>2, <3>3, Zenon
  <2>11. Effect(bm, r, S, bm.els)
    BY <2>2, <2>5, <2>8, <2>10 DEF Effect
  <2> QED BY <2>11 DEF r, S
<1> QED BY <1>4, <1>5

(* raviX_bitset_clear() leaves all in memory. *)
LEMMA ClearRight ==
    ASSUME NEW bm, BitsetOK(bm)
    PROVE  BitsetOK(Clear(bm)) /\ Clear(bm).els = 0 /\ Memory(Clear(bm)) = Memory(bm)
<1>1. Clear(bm).els = 0 /\ Clear(bm).varr = bm.varr /\ Clear(bm) \in BitsetType
  BY DEF Clear, BitsetOK, BitsetType
<1>2. BitsetOK(Clear(bm))
  BY <1>1, FieldTypes DEF BitsetOK
<1>3. Whole(Clear(bm)) = Whole(bm)
  BY <1>1 DEF Whole
<1> QED BY <1>1, <1>2, <1>3 DEF Memory

(* raviX_bitset_copy() makes the sets equal, whatever their lengths, and   *)
(* keeps what lies behind.                                                 *)
LEMMA CopyRight ==
    ASSUME NEW dst, BitsetOK(dst), NEW src, BitsetOK(src)
    PROVE  LET c == Copy(dst, src)
           IN  /\ BitsetOK(c) /\ c.els = src.els
               /\ Memory(c) = Beyond(Memory(dst), src.els) \cup Content(src)
<1> DEFINE d == IF dst.els >= src.els THEN [dst EXCEPT !.els = src.els]
                ELSE Expand(dst, src.els * WordBits)
           v == [w \in DOMAIN d.varr |-> IF w <= src.els THEN src.varr[w] ELSE d.varr[w]]
           c == [d EXCEPT !.varr = v]
<1>1. /\ src.els \in Nat /\ Len(src.varr) \in Nat /\ src.els <= Len(src.varr)
      /\ \A w \in 1..Len(src.varr) : src.varr[w] \subseteq Bits
      /\ dst.els \in Nat /\ Len(dst.varr) \in Nat /\ dst.els <= Len(dst.varr)
  BY FieldTypes
<1>2. /\ BitsetOK(d) /\ d.els = src.els
      /\ \A w \in Nat \ {0} : Operand(Whole(d), w) = Operand(Whole(dst), w)
  <2>1. CASE dst.els >= src.els
    <3>1. d.els = src.els /\ d.varr = dst.varr /\ d \in BitsetType
      BY <1>1, <2>1 DEF BitsetOK, BitsetType
    <3> HIDE DEF d
    <3>2. Whole(d) = Whole(dst)
      BY <3>1 DEF Whole
    <3> QED BY <1>1, <2>1, <3>1, <3>2 DEF BitsetOK
  <2>2. CASE ~(dst.els >= src.els)
    <3> DEFINE nbits == src.els * WordBits
    <3>1. nbits \in Nat
      BY <1>1, WordBitsAssumption
    <3>2. Words(nbits) = src.els
      BY <1>1, WordsExactly
    <3>3. d = Expand(dst, nbits)
      BY <2>2
    <3> HIDE DEF nbits, d
    <3>4. Roomy(dst, Expand(dst, nbits), Words(nbits))
      BY <3>1, ExpandRight
    <3>5. Roomy(dst, d, src.els)
      BY <3>2, <3>3, <3>4
    <3> QED BY <1>1, <2>2, <3>5 DEF Roomy, Larger
  <2> QED BY <2>1, <2>2
<1>3. Copy(dst, src) = c
  BY DEF Copy
<1> HIDE DEF d
<1>4. /\ d.varr \in Seq(SUBSET Bits) /\ Len(d.varr) \in Nat /\ DOMAIN d.varr = 1..Len(d.varr)
      /\ src.els <= Len(d.varr) /\ d \in BitsetType
      /\ \A w \in 1..Len(d.varr) : d.varr[w] \subseteq Bits
  BY <1>2, FieldTypes DEF BitsetOK
<1>5. /\ v \in Seq(SUBSET Bits) /\ Len(v) = Len(d.varr)
      /\ \A w \in 1..Len(d.varr) : v[w] = IF w <= src.els THEN src.varr[w] ELSE d.varr[w]
  <2>1. \A w \in 1..Len(d.varr) : v[w] \in SUBSET Bits
    BY <1>1, <1>4
  <2>2. v \in [1..Len(d.varr) -> SUBSET Bits]
    BY <1>4, <2>1
  <2> QED BY <1>1, <1>4, <2>2
<1> HIDE DEF v
<1>6. c.els = src.els /\ c.varr = v /\ c \in BitsetType
  BY <1>2, <1>4, <1>5 DEF BitsetType
<1> HIDE DEF c
<1>7. BitsetOK(c)
  BY <1>4, <1>5, <1>6 DEF BitsetOK
<1>8. /\ Whole(c).els = Len(d.varr) /\ Whole(c).varr = v
      /\ Whole(d).els = Len(d.varr) /\ Whole(d).varr = d.varr
  BY <1>5, <1>6 DEF Whole
<1>9. ASSUME NEW w \in Nat \ {0}
      PROVE  Operand(Whole(c), w) = IF w <= src.els THEN Operand(src, w) ELSE Operand(Whole(dst), w)
  <2>1. CASE w <= src.els
    BY <1>1, <1>4, <1>5, <1>8, <2>1 DEF Operand
  <2>2. CASE ~(w <= src.els)
    <3>1. Operand(Whole(c), w) = Operand(Whole(d), w)
      BY <1>1, <1>4, <1>5, <1>8, <2>2 DEF Operand
    <3> QED BY <1>2, <2>2, <3>1
  <2> QED BY <2>1, <2>2
<1>10. Memory(dst) \subseteq Nat /\ Content(src) \subseteq Nat /\ Memory(c) \subseteq Nat
  BY <1>7, InMemory, InContent
<1>11. ASSUME NEW n \in Nat
       PROVE  n \in Memory(c) <=> n \in Beyond(Memory(dst), src.els) \/ n \in Content(src)
  <2>1. WordOf(n) \in Nat \ {0}
    BY WordAndBit
  <2>2. n \in Memory(c) <=> BitOf(n) \in Operand(Whole(c), WordOf(n))
    BY <1>7, InMemory
  <2>3. n \in Memory(dst) <=> BitOf(n) \in Operand(Whole(dst), WordOf(n))
    BY InMemory
  <2>4. n \in Content(src) <=> BitOf(n) \in Operand(src, WordOf(n))
    BY InContent
  <2>5. n \in Beyond(Memory(dst), src.els) <=> n \in Memory(dst) /\ ~(WordOf(n) <= src.els)
    BY <1>1, <1>10, InWords
  <2>6. ~(WordOf(n) <= src.els) => Operand(src, WordOf(n)) = {}
    BY <1>1, <2>1 DEF Operand
  <2> QED BY <1>9, <2>1, <2>2, <2>3, <2>4, <2>5, <2>6
<1>12. Memory(c) = Beyond(Memory(dst), src.els) \cup Content(src)
  BY <1>10, <1>11 DEF Beyond
<1> QED BY <1>3, <1>6, <1>7, <1>12

-----------------------------------------------------------------------------

-----------------------------------------------------------------------------
(* A range of bits, a word at a time *)

(* The loop: what it starts with, and one word. *)
RangeStart(bm, n, len) ==
    [bm |-> Expand(bm, n + len), value |-> FALSE, n |-> n, len |-> len]

NewWord(s, set_p) ==
    IF set_p THEN s.bm.varr[WordOf(s.n)] \cup Mask(s.n, s.len)
    ELSE s.bm.varr[WordOf(s.n)] \ Mask(s.n, s.len)

RangeStep(s, set_p) ==
    IF s.len = 0 THEN s
    ELSE [bm |-> [s.bm EXCEPT !.varr[WordOf(s.n)] = NewWord(s, set_p)],
          value |-> (s.value \/ NewWord(s, set_p) # s.bm.varr[WordOf(s.n)]),
          n |-> s.n + Cardinality(Mask(s.n, s.len)),
          len |-> s.len - Cardinality(Mask(s.n, s.len))]

(* f is the sequence of the first m states of the loop. *)
RangeStates(f, a, m, set_p) ==
    f = [k \in 0..m |-> IF k = 0 THEN a ELSE RangeStep(f[k - 1], set_p)]

LEMMA LeastOf ==
    ASSUME NEW T, T \subseteq Nat, T # {}
    PROVE  \E x \in T : \A y \in T : x <= y
<1> DEFINE R == OpToRel(<, Nat)
<1>1. IsWellFoundedOn(R, Nat)
  BY NatLessThanWellFounded
<1>2. \E x \in T : \A y \in T : ~ (<<y, x>> \in R)
  <2> HIDE DEF R
  <2> QED BY <1>1, WFMin
<1>3. \A x \in Nat, y \in Nat : y < x => <<y, x>> \in R
  BY DEF OpToRel
<1> HIDE DEF R
<1>4. PICK x \in T : \A y \in T : ~ (<<y, x>> \in R)
  BY <1>2
<1>5. \A y \in T : ~(y < x)
  BY <1>3, <1>4
<1> QED BY <1>5

(* The loop has its states, ... *)
LEMMA StatesExist ==
    ASSUME NEW a, NEW set_p, NEW len \in Nat
    PROVE  \E f : RangeStates(f, a, len, set_p)
<1> DEFINE T == {m \in Nat : ~(\E f : RangeStates(f, a, m, set_p))}
<1> SUFFICES ASSUME T # {} PROVE FALSE
  OBVIOUS
<1>1. PICK m \in T : \A l \in T : m <= l
  BY LeastOf
<1>2. m # 0
  <2> DEFINE f == [k \in 0..0 |-> a]
  <2>1. RangeStates(f, a, 0, set_p)
    BY DEF RangeStates
  <2> QED BY <1>1, <2>1
<1>3. m - 1 \in Nat /\ m - 1 \notin T
  BY <1>1, <1>2
<1>4. PICK g : RangeStates(g, a, m - 1, set_p)
  BY <1>3
<1> DEFINE f == [k \in 0..m |-> IF k = m THEN RangeStep(g[m - 1], set_p) ELSE g[k]]
           h == [k \in 0..m |-> IF k = 0 THEN a ELSE RangeStep(f[k - 1], set_p)]
<1>5. ASSUME NEW k \in 0..m
      PROVE  f[k] = h[k]
  <2>1. CASE k = m
    <3>1. k - 1 \in 0..m /\ k - 1 # m /\ f[k - 1] = g[m - 1]
      BY <1>2, <1>3, <2>1
    <3>2. f[k] = RangeStep(g[m - 1], set_p)
      BY <2>1
    <3> QED BY <1>2, <2>1, <3>1, <3>2
  <2>2. CASE k # m
    <3>1. k \in 0..(m - 1) /\ f[k] = g[k]
      BY <1>3, <2>2
    <3>2. g[k] = IF k = 0 THEN a ELSE RangeStep(g[k - 1], set_p)
      BY <1>4, <3>1 DEF RangeStates
    <3>3. k # 0 => k - 1 \in 0..m /\ k - 1 # m /\ f[k - 1] = g[k - 1]
      BY <1>3, <3>1
    <3> QED BY <3>1, <3>2, <3>3
  <2> QED BY <2>1, <2>2
<1>6. f = h
  BY <1>5
<1>7. RangeStates(f, a, m, set_p)
  BY <1>6 DEF RangeStates
<1> QED BY <1>1, <1>7

(* ... and the function returns what is in the last. *)
LEMMA RangeRuns ==
    ASSUME NEW bm, NEW n \in Nat, NEW len \in Nat, NEW set_p
    PROVE  \E f : /\ RangeStates(f, RangeStart(bm, n, len), len, set_p)
                  /\ SetOrClearRangeP(bm, n, len, set_p) = Result(f[len].bm, f[len].value)
<1> DEFINE after == CHOOSE f : RangeStates(f, RangeStart(bm, n, len), len, set_p)
<1>1. RangeStates(after, RangeStart(bm, n, len), len, set_p)
  BY StatesExist
<1>2. SetOrClearRangeP(bm, n, len, set_p) = Result(after[len].bm, after[len].value)
  BY DEF SetOrClearRangeP, RangeStates, RangeStart, RangeStep, NewWord
<1> QED BY <1>1, <1>2

(* The bits of the first word of a range. *)
LEMMA MaskRight ==
    ASSUME NEW n \in Nat, NEW len \in Nat \ {0}
    PROVE  LET c == Cardinality(Mask(n, len))
           IN  /\ c \in 1..len /\ Mask(n, len) \subseteq Bits
               /\ \A m \in Nat : m \in n..(n + c - 1) <=>
                     WordOf(m) = WordOf(n) /\ BitOf(m) \in Mask(n, len)
<1> DEFINE w == WordOf(n)
           b == BitOf(n)
           c == IF len >= WordBits - b THEN WordBits - b ELSE len
<1>1. WordBits \in Nat \ {0}
  BY WordBitsAssumption
<1>2. w \in Nat \ {0} /\ b \in 0..(WordBits - 1) /\ n = (w - 1) * WordBits + b
  BY WordAndBit
<1>3. c \in 1..len /\ b + c <= WordBits /\ b + c \in Nat
  BY <1>1, <1>2
<1>4. Mask(n, len) = b..(b + c - 1)
  <2>1. CASE len >= WordBits - b
    BY <1>1, <1>2, <2>1 DEF Mask
  <2>2. CASE ~(len >= WordBits - b)
    <3>1. b + len \in 0..(WordBits - 1)
      BY <1>1, <1>2, <2>2
    <3>2. BitOf((w - 1) * WordBits + (b + len)) = b + len
      BY <1>2, <3>1, NumberOf
    <3>3. (w - 1) * WordBits \in Nat
      BY <1>1, <1>2
    <3>4. n + len = (w - 1) * WordBits + (b + len)
      BY <1>2, <3>3
    <3>5. (n + len) % WordBits = b + len
      BY <3>2, <3>4 DEF BitOf
    <3> HIDE DEF b
    <3>6. Mask(n, len) = b..(WordBits - 1 - (WordBits - (b + len)))
      BY <2>2, <3>5 DEF Mask, b
    <3> QED BY <1>1, <1>2, <2>2, <3>1, <3>6
  <2> QED BY <2>1, <2>2
<1> HIDE DEF w, b, c
<1>5. Cardinality(Mask(n, len)) = c
  <2>1. b \in Int /\ b + c - 1 \in Int /\ b <= b + c - 1
    BY <1>2, <1>3
  <2>2. Cardinality(b..(b + c - 1)) = (b + c - 1) - b + 1
    BY <2>1, FS_Interval
  <2> QED BY <1>2, <1>3, <1>4, <2>2
<1>6. Mask(n, len) \subseteq Bits
  BY <1>1, <1>2, <1>3, <1>4 DEF Bits
<1>7. ASSUME NEW m \in Nat, m \in n..(n + c - 1)
      PROVE  WordOf(m) = w /\ BitOf(m) \in Mask(n, len)
  <2> DEFINE k == b + (m - n)
  <2>1. k \in 0..(WordBits - 1) /\ k \in b..(b + c - 1)
    BY <1>1, <1>2, <1>3, <1>7
  <2>2. (w - 1) * WordBits \in Nat
    BY <1>1, <1>2
  <2>3. m = (w - 1) * WordBits + k
    BY <1>2, <2>2
  <2> HIDE DEF k
  <2>4. WordOf(m) = w /\ BitOf(m) = k
    BY <1>2, <2>1, <2>3, NumberOf
  <2> QED BY <1>4, <2>1, <2>4
<1>8. ASSUME NEW m \in Nat, WordOf(m) = w, BitOf(m) \in Mask(n, len)
      PROVE  m \in n..(n + c - 1)
  <2>1. m = (w - 1) * WordBits + BitOf(m)
    BY <1>8, WordAndBit
  <2>2. (w - 1) * WordBits \in Nat
    BY <1>1, <1>2
  <2>3. BitOf(m) \in b..(b + c - 1)
    BY <1>4, <1>8
  <2> QED BY <1>2, <1>3, <2>1, <2>2, <2>3
<1> QED BY <1>3, <1>5, <1>6, <1>7, <1>8 DEF w

-----------------------------------------------------------------------------
(* The words of the range before s.n are done. *)
Flipped(bm, set_p, m) == IF set_p THEN m \notin Memory(bm) ELSE m \in Memory(bm)

RangeOK(bm, n, len, set_p, s) ==
    /\ BitsetOK(s.bm) /\ s.n \in Nat /\ s.len \in Nat
    /\ s.n >= n /\ s.n + s.len = n + len
    /\ s.bm.els = Larger(bm.els, Words(n + len))
    /\ \A m \in Nat : m \in n..(s.n - 1) => (m \in Memory(s.bm) <=> set_p)
    /\ \A m \in Nat : m \notin n..(s.n - 1) => (m \in Memory(s.bm) <=> m \in Memory(bm))
    /\ s.value \in BOOLEAN
    /\ s.value <=> \E m \in n..(s.n - 1) : Flipped(bm, set_p, m)

(* This holds when the loop begins, ... *)
LEMMA StartRight ==
    ASSUME NEW bm, BitsetOK(bm), NEW n \in Nat, NEW len \in Nat,
           NEW set_p \in BOOLEAN
    PROVE  RangeOK(bm, n, len, set_p, RangeStart(bm, n, len))
<1> DEFINE e == Expand(bm, n + len)
           s == RangeStart(bm, n, len)
           room == Words(n + len)
<1>1. n + len \in Nat
  OBVIOUS
<1>2. Roomy(bm, e, room) /\ room \in Nat
  BY <1>1, ExpandRight, WordsFor
<1>3. s.bm = e /\ s.value = FALSE /\ s.n = n /\ s.len = len
  BY DEF RangeStart
<1> HIDE DEF e, s, room
<1>4. BitsetOK(e) /\ Memory(e) = Memory(bm)
  BY <1>2, MemoriesDecide DEF Roomy
<1>5. e.els = Larger(bm.els, room)
  BY <1>2 DEF Roomy
<1>6. n..(s.n - 1) = {}
  BY <1>3
<1>7. /\ BitsetOK(s.bm) /\ s.n \in Nat /\ s.len \in Nat
      /\ s.n >= n /\ s.n + s.len = n + len /\ s.bm.els = Larger(bm.els, room)
  BY <1>3, <1>4, <1>5
<1>8. /\ \A m \in Nat : m \in n..(s.n - 1) => (m \in Memory(s.bm) <=> set_p)
      /\ \A m \in Nat : m \notin n..(s.n - 1) => (m \in Memory(s.bm) <=> m \in Memory(bm))
  BY <1>3, <1>4, <1>6
<1>9. s.value \in BOOLEAN /\ (s.value <=> \E m \in n..(s.n - 1) : Flipped(bm, set_p, m))
  BY <1>3, <1>6
<1>10. RangeOK(bm, n, len, set_p, s)
  BY <1>7, <1>8, <1>9 DEF RangeOK, room
<1> QED BY <1>10 DEF s

(* ... after each word, and the range gets shorter. *)
LEMMA StepRight ==
    ASSUME NEW bm, BitsetOK(bm), NEW n \in Nat, NEW len \in Nat, NEW set_p \in BOOLEAN,
           NEW s, RangeOK(bm, n, len, set_p, s)
    PROVE  LET t == RangeStep(s, set_p)
           IN  RangeOK(bm, n, len, set_p, t) /\ (t.len < s.len \/ t.len = 0)
<1>1. CASE s.len = 0
  BY <1>1 DEF RangeStep
<1>2. CASE s.len # 0
  <2> DEFINE w == WordOf(s.n)
             old == s.bm.varr[w]
             mask == Mask(s.n, s.len)
             new == NewWord(s, set_p)
             d == [s.bm EXCEPT !.varr[w] = new]
             c == Cardinality(mask)
             t == RangeStep(s, set_p)
  <2>1. /\ t.bm = d /\ t.n = s.n + c /\ t.len = s.len - c
    BY <1>2 DEF RangeStep
  <2>2. t.value = (s.value \/ new # old)
    BY <1>2 DEF RangeStep
  <2>3. /\ BitsetOK(s.bm) /\ s.n \in Nat /\ s.len \in Nat
        /\ s.n >= n /\ s.n + s.len = n + len /\ s.bm.els = Larger(bm.els, Words(n + len))
        /\ s.value \in BOOLEAN
    BY DEF RangeOK
  <2>4. /\ c \in 1..s.len /\ mask \subseteq Bits
        /\ \A m \in Nat : m \in s.n..(s.n + c - 1) <=> WordOf(m) = w /\ BitOf(m) \in mask
    BY <1>2, <2>3, MaskRight
  <2>5. w \in 1..s.bm.els
    <3>1. n + len \in Nat /\ s.n < n + len
      BY <1>2, <2>3
    <3> DEFINE room == Words(n + len)
    <3>2. w <= room /\ room \in Nat /\ w \in Nat \ {0}
      BY <2>3, <3>1, WordsFor, WordAndBit
    <3>3. s.bm.els = Larger(bm.els, room) /\ bm.els \in Nat
      BY <2>3, FieldTypes
    <3> HIDE DEF w, room
    <3>4. s.bm.els \in Nat /\ s.bm.els >= room
      BY ONLY <3>2, <3>3 DEF Larger
    <3> QED BY <3>2, <3>4
  <2>6. old \subseteq Bits /\ Operand(Whole(s.bm), w) = old
    <3>1. s.bm.els \in Nat /\ Len(s.bm.varr) \in Nat /\ s.bm.els <= Len(s.bm.varr)
      BY <2>3, FieldTypes
    <3>2. w \in 1..Len(s.bm.varr) /\ ~(w > Len(s.bm.varr))
      BY <2>5, <3>1
    <3>3. Whole(s.bm).els = Len(s.bm.varr) /\ Whole(s.bm).varr = s.bm.varr
      BY <2>3, WholeRight
    <3> QED BY <2>3, <3>2, <3>3, FieldTypes DEF Operand
  <2>7. new = IF set_p THEN old \cup mask ELSE old \ mask
    BY DEF NewWord
  <2> HIDE DEF old, mask, new, t, c
  <2>8. new \in SUBSET Bits
    BY <2>4, <2>6, <2>7
  <2>9. /\ BitsetOK(d) /\ d.els = s.bm.els /\ Operand(Whole(d), w) = new
        /\ \A v \in Nat \ {0} : v # w => Operand(Whole(d), v) = Operand(Whole(s.bm), v)
    BY <2>3, <2>5, <2>8, WordChanged
  <2> HIDE DEF d, w
  <2>10. ASSUME NEW m \in Nat, m \in s.n..(s.n + c - 1)
         PROVE  m \in Memory(d) <=> set_p
    <3>1. WordOf(m) = w /\ BitOf(m) \in mask
      BY <2>4, <2>10
    <3>2. m \in Memory(d) <=> BitOf(m) \in new
      BY <2>9, <3>1, InMemory
    <3> QED BY <2>7, <3>1, <3>2
  <2>11. ASSUME NEW m \in Nat, m \notin s.n..(s.n + c - 1)
         PROVE  m \in Memory(d) <=> m \in Memory(s.bm)
    <3>1. WordOf(m) \in Nat \ {0}
      BY WordAndBit
    <3>2. m \in Memory(d) <=> BitOf(m) \in Operand(Whole(d), WordOf(m))
      BY <2>9, InMemory
    <3>3. m \in Memory(s.bm) <=> BitOf(m) \in Operand(Whole(s.bm), WordOf(m))
      BY <2>3, InMemory
    <3>4. CASE WordOf(m) # w
      BY <2>9, <3>1, <3>2, <3>3, <3>4
    <3>5. CASE WordOf(m) = w
      <4>1. BitOf(m) \notin mask
        BY <2>4, <2>11, <3>5
      <4> QED BY <2>6, <2>7, <2>9, <3>2, <3>3, <3>5, <4>1
    <3> QED BY <3>4, <3>5
  <2>12. n..(t.n - 1) = (n..(s.n - 1)) \cup (s.n..(s.n + c - 1))
    BY <2>1, <2>3, <2>4
  <2>13. t.n \in Nat /\ t.len \in Nat /\ t.n >= n /\ t.n + t.len = n + len /\ t.len < s.len
    BY <2>1, <2>3, <2>4
  <2>14. (n..(s.n - 1)) \cap (s.n..(s.n + c - 1)) = {}
    BY <2>3
  <2>15. ASSUME NEW m \in Nat, m \in n..(t.n - 1)
         PROVE  m \in Memory(t.bm) <=> set_p
    <3>1. CASE m \in s.n..(s.n + c - 1)
      BY <2>1, <2>10, <3>1
    <3>2. CASE m \notin s.n..(s.n + c - 1)
      <4>1. m \in n..(s.n - 1)
        BY <2>12, <2>15, <3>2
      <4>2. m \in Memory(s.bm) <=> set_p
        BY <4>1 DEF RangeOK
      <4>3. m \in Memory(d) <=> m \in Memory(s.bm)
        BY <2>11, <3>2
      <4> QED BY ONLY <2>1, <4>2, <4>3, Zenon
    <3> QED BY <3>1, <3>2
  <2>16. ASSUME NEW m \in Nat, m \notin n..(t.n - 1)
         PROVE  m \in Memory(t.bm) <=> m \in Memory(bm)
    <3>1. m \notin s.n..(s.n + c - 1) /\ m \notin n..(s.n - 1)
      BY <2>12, <2>16
    <3>2. m \in Memory(s.bm) <=> m \in Memory(bm)
      BY <3>1 DEF RangeOK
    <3>3. m \in Memory(d) <=> m \in Memory(s.bm)
      BY <2>11, <3>1
    <3> QED BY ONLY <2>1, <3>2, <3>3, Zenon
  <2>17. new # old <=> \E m \in s.n..(s.n + c - 1) : Flipped(bm, set_p, m)
    <3>1. ASSUME NEW m \in s.n..(s.n + c - 1)
          PROVE  /\ m \in Nat /\ BitOf(m) \in mask
                 /\ m \in Memory(bm) <=> BitOf(m) \in old
      <4>1. m \in Nat
        BY <2>3, <3>1
      <4>2. WordOf(m) = w /\ BitOf(m) \in mask
        BY <2>4, <4>1
      <4>3. m \in Memory(s.bm) <=> BitOf(m) \in old
        BY <2>3, <2>6, <4>1, <4>2, InMemory
      <4>4. m \notin n..(s.n - 1)
        BY <2>14
      <4>5. m \in Memory(s.bm) <=> m \in Memory(bm)
        BY <4>1, <4>4 DEF RangeOK
      <4> QED BY <4>1, <4>2, <4>3, <4>5
    <3>2. ASSUME NEW k \in mask
          PROVE  \E m \in s.n..(s.n + c - 1) : BitOf(m) = k
      <4> DEFINE m == (w - 1) * WordBits + k
      <4>1. k \in 0..(WordBits - 1) /\ w \in Nat \ {0}
        BY <2>4, <2>5, <3>2 DEF Bits
      <4>2. m \in Nat /\ WordOf(m) = w /\ BitOf(m) = k
        BY <4>1, NumberOf
      <4> HIDE DEF m
      <4>3. m \in s.n..(s.n + c - 1)
        BY <2>4, <3>2, <4>2
      <4> QED BY <4>2, <4>3
    <3>3. CASE set_p
      <4>1. new # old <=> \E k \in mask : k \notin old
        BY <2>7, <3>3
      <4>2. ASSUME NEW k \in mask, k \notin old
            PROVE  \E m \in s.n..(s.n + c - 1) : Flipped(bm, set_p, m)
        BY <3>1, <3>2, <3>3, <4>2 DEF Flipped
      <4>3. ASSUME NEW m \in s.n..(s.n + c - 1), Flipped(bm, set_p, m)
            PROVE  \E k \in mask : k \notin old
        BY <3>1, <3>3, <4>3 DEF Flipped
      <4> QED BY <4>1, <4>2, <4>3
    <3>4. CASE ~set_p
      <4>1. new # old <=> \E k \in mask : k \in old
        BY <2>7, <3>4
      <4>2. ASSUME NEW k \in mask, k \in old
            PROVE  \E m \in s.n..(s.n + c - 1) : Flipped(bm, set_p, m)
        BY <3>1, <3>2, <3>4, <4>2 DEF Flipped
      <4>3. ASSUME NEW m \in s.n..(s.n + c - 1), Flipped(bm, set_p, m)
            PROVE  \E k \in mask : k \in old
        BY <3>1, <3>4, <4>3 DEF Flipped
      <4> QED BY <4>1, <4>2, <4>3
    <3> QED BY <3>3, <3>4
  <2>18. s.value <=> \E m \in n..(s.n - 1) : Flipped(bm, set_p, m)
    BY DEF RangeOK
  <2>19. /\ t.value \in BOOLEAN
         /\ t.value <=> \E m \in n..(t.n - 1) : Flipped(bm, set_p, m)
    <3>1. t.value \in BOOLEAN
      BY ONLY <2>2
    <3>2. t.value <=> (s.value \/ new # old)
      BY ONLY <2>2
    <3> QED BY ONLY <2>12, <2>17, <2>18, <3>1, <3>2, Zenon
  <2>20. BitsetOK(t.bm) /\ t.bm.els = Larger(bm.els, Words(n + len))
    BY <2>1, <2>3, <2>9
  <2>21. RangeOK(bm, n, len, set_p, t)
    BY <2>13, <2>15, <2>16, <2>19, <2>20 DEF RangeOK
  <2> QED BY <2>13, <2>21 DEF t
<1> QED BY <1>1, <1>2

(* raviX_bitset_set_or_clear_bit_range_p() changes the numbers of the range*)
(* and no other, and returns whether there was one to change.              *)
LEMMA RangeRight ==
    ASSUME NEW bm, BitsetOK(bm), NEW n \in Nat, NEW len \in Nat,
           NEW set_p \in BOOLEAN, NEW S,
           S = IF set_p THEN Memory(bm) \cup (n..(n + len - 1))
               ELSE Memory(bm) \ (n..(n + len - 1))
    PROVE  Effect(bm, SetOrClearRangeP(bm, n, len, set_p), S, Larger(bm.els, Words(n + len)))
<1> DEFINE a == RangeStart(bm, n, len)
           r == SetOrClearRangeP(bm, n, len, set_p)
<1>1. PICK f : RangeStates(f, a, len, set_p) /\ r = Result(f[len].bm, f[len].value)
  BY RangeRuns
<1> DEFINE OK(k) == RangeOK(bm, n, len, set_p, f[k]) /\ f[k].len <= len - k
           T == {k \in 0..len : ~OK(k)}
<1>2. T = {}
  <2> SUFFICES ASSUME T # {} PROVE FALSE
    OBVIOUS
  <2>1. T \subseteq Nat
    OBVIOUS
  <2> HIDE DEF T
  <2>2. PICK k \in T : \A j \in T : k <= j
    BY <2>1, LeastOf
  <2>3. k \in 0..len /\ ~OK(k)
    BY <2>2 DEF T
  <2>4. CASE k = 0
    <3>1. f[0] = a
      BY <1>1 DEF RangeStates
    <3>2. RangeOK(bm, n, len, set_p, a) /\ a.len = len
      BY StartRight DEF RangeStart
    <3> HIDE DEF a
    <3> QED BY <2>3, <2>4, <3>1, <3>2
  <2>5. CASE k # 0
    <3> DEFINE s == f[k - 1]
    <3>1. k - 1 \in 0..len /\ k \in Nat
      BY <2>3, <2>5
    <3>2. k - 1 \notin T
      BY <2>2, <3>1
    <3>3. OK(k - 1)
      BY <3>1, <3>2 DEF T
    <3>4. f[k] = RangeStep(s, set_p)
      BY <1>1, <2>3, <2>5 DEF RangeStates
    <3>5. RangeOK(bm, n, len, set_p, s) /\ s.len <= len - (k - 1)
      BY <3>3
    <3> HIDE DEF s
    <3>6. RangeOK(bm, n, len, set_p, f[k]) /\ (f[k].len < s.len \/ f[k].len = 0)
      BY <3>4, <3>5, StepRight
    <3>7. f[k].len \in Nat /\ s.len \in Nat
      BY <3>5, <3>6 DEF RangeOK
    <3>8. f[k].len <= len - k
      BY <2>3, <3>1, <3>5, <3>6, <3>7
    <3> QED BY <2>3, <3>6, <3>8
  <2> QED BY <2>4, <2>5
<1>3. OK(len)
  BY <1>2
<1> DEFINE s == f[len]
<1>4. RangeOK(bm, n, len, set_p, s) /\ s.len <= 0
  BY <1>3
<1> HIDE DEF OK, T
<1>5. r.bm = s.bm /\ r.value = s.value
  BY <1>1 DEF Result
<1> HIDE DEF r, s
<1>6. /\ BitsetOK(s.bm) /\ s.n = n + len /\ s.value \in BOOLEAN
      /\ s.bm.els = Larger(bm.els, Words(n + len))
  BY <1>4 DEF RangeOK
<1>7. /\ \A m \in Nat : m \in n..(n + len - 1) => (m \in Memory(s.bm) <=> set_p)
      /\ \A m \in Nat : m \notin n..(n + len - 1) => (m \in Memory(s.bm) <=> m \in Memory(bm))
      /\ s.value <=> \E m \in n..(n + len - 1) : Flipped(bm, set_p, m)
  BY <1>4, <1>6 DEF RangeOK
<1>8. /\ n..(n + len - 1) \subseteq Nat /\ Memory(bm) \subseteq Nat /\ Memory(s.bm) \subseteq Nat
  BY <1>6, InMemory
<1> DEFINE range == n..(n + len - 1)
<1> HIDE DEF range
<1>9. Memory(s.bm) = S /\ (s.value <=> S # Memory(bm))
  <2>1. CASE set_p
    <3>1. S = Memory(bm) \cup range
      BY <2>1 DEF range
    <3>2. s.value <=> \E m \in range : m \notin Memory(bm)
      BY <1>7, <2>1 DEF range, Flipped
    <3>3. Memory(s.bm) = S
      BY <1>7, <1>8, <2>1, <3>1 DEF range
    <3>4. S # Memory(bm) <=> \E m \in range : m \notin Memory(bm)
      BY <3>1
    <3> QED BY ONLY <3>2, <3>3, <3>4, Zenon
  <2>2. CASE ~set_p
    <3>1. S = Memory(bm) \ range
      BY <2>2 DEF range
    <3>2. s.value <=> \E m \in range : m \in Memory(bm)
      BY <1>7, <2>2 DEF range, Flipped
    <3>3. Memory(s.bm) = S
      BY <1>7, <1>8, <2>2, <3>1 DEF range
    <3>4. S # Memory(bm) <=> \E m \in range : m \in Memory(bm)
      BY <3>1
    <3> QED BY ONLY <3>2, <3>3, <3>4, Zenon
  <2> QED BY <2>1, <2>2
<1>10. Effect(bm, r, S, Larger(bm.els, Words(n + len)))
  BY <1>5, <1>6, <1>9 DEF Effect
<1> QED BY <1>10 DEF r

-----------------------------------------------------------------------------
(* Operations on words *)

(* What StoreWords does with the words f. *)
Nonzero(len, f) == {w \in 1..len : f[w] # {}}
LastOf(T) == IF T = {} THEN 0 ELSE CHOOSE w \in T : \A v \in T : v <= w

StoredIn(dst, len, f, r) ==
    LET d == Expand(dst, len * WordBits)
    IN  /\ r.bm = [els |-> LastOf(Nonzero(len, f)),
                   varr |-> [w \in DOMAIN d.varr |-> IF w <= len THEN f[w] ELSE d.varr[w]]]
        /\ r.value \in BOOLEAN
        /\ r.value <=> \E w \in 1..len : f[w] # d.varr[w]

(* The last number of a set, 0 if there is none. *)
LEMMA LastRight ==
    ASSUME NEW len \in Nat, NEW T, T \subseteq 1..len
    PROVE  LastOf(T) \in 0..len /\ (\A w \in T : w <= LastOf(T)) /\ (T # {} => LastOf(T) \in T)
<1>1. CASE T = {}
  BY <1>1 DEF LastOf
<1>2. CASE T # {}
  <2> DEFINE R == {x \in 0..len : len - x \in T}
  <2>1. PICK w0 \in T : TRUE
    BY <1>2
  <2>2. w0 \in 1..len
    OBVIOUS
  <2>3. len - w0 \in 0..len /\ len - (len - w0) = w0
    BY <2>2
  <2>4. R \subseteq Nat /\ R # {}
    <3>1. len - (len - w0) \in T
      BY <2>3
    <3>2. len - w0 \in R
      BY <2>3, <3>1
    <3>3. \A y \in R : y \in Nat
      OBVIOUS
    <3> HIDE DEF R
    <3> QED BY <3>2, <3>3
  <2>5. PICK x \in R : \A y \in R : x <= y
    BY <2>4, LeastOf
  <2> DEFINE w == len - x
  <2>6. w \in T /\ x \in 0..len
    BY <2>5
  <2>7. ASSUME NEW v \in T PROVE v <= w
    <3>1. v \in 1..len
      OBVIOUS
    <3>2. len - v \in 0..len /\ len - (len - v) = v
      BY <3>1
    <3>3. len - v \in R
      BY <3>2
    <3>4. x <= len - v
      BY <2>5, <3>3
    <3> QED BY <2>6, <3>1, <3>4
  <2> HIDE DEF w, R
  <2>8. \E u \in T : \A v \in T : v <= u
    BY <2>6, <2>7
  <2>9. LastOf(T) \in T /\ \A v \in T : v <= LastOf(T)
    <3>1. LastOf(T) = CHOOSE u \in T : \A v \in T : v <= u
      BY <1>2 DEF LastOf
    <3> DEFINE Greatest(u) == u \in T /\ \A v \in T : v <= u
    <3>2. LastOf(T) = CHOOSE u : Greatest(u)
      BY <3>1
    <3>3. \E u : Greatest(u)
      BY <2>8
    <3> HIDE DEF Greatest
    <3>4. Greatest(LastOf(T))
      BY <3>2, <3>3
    <3> QED BY <3>4 DEF Greatest
  <2>10. LastOf(T) \in 0..len
    <3> DEFINE l == LastOf(T)
    <3>1. \A u \in T : u \in 0..len
      OBVIOUS
    <3>2. l \in T
      BY <2>9
    <3> HIDE DEF l
    <3> QED BY <3>1, <3>2 DEF l
  <2> QED BY <2>9, <2>10
<1> QED BY <1>1, <1>2

(* The words f stand for S, and r is what storing them in dst returns. *)
Stores(dst, len, f, r, S) ==
    /\ BitsetOK(dst) /\ len \in Nat /\ f \in [Nat \ {0} -> SUBSET Bits]
    /\ \A w \in Nat \ {0} : w > len => f[w] = {}
    /\ StoredIn(dst, len, f, r)
    /\ S \subseteq Nat
    /\ \A n \in Nat : n \in S <=> BitOf(n) \in f[WordOf(n)]

(* The words in use end at the last that is not zero. *)
LEMMA LastWordRight ==
    ASSUME NEW len \in Nat, NEW f, f \in [Nat \ {0} -> SUBSET Bits],
           \A w \in Nat \ {0} : w > len => f[w] = {},
           NEW S, S \subseteq Nat, \A n \in Nat : n \in S <=> BitOf(n) \in f[WordOf(n)]
    PROVE  LastWord(S) = LastOf(Nonzero(len, f))
<1> DEFINE used == {WordOf(n) : n \in S}
<1>1. ASSUME NEW n \in S
      PROVE  WordOf(n) \in Nonzero(len, f)
  <2> DEFINE w == WordOf(n)
  <2>1. n \in Nat /\ w \in Nat \ {0} /\ BitOf(n) \in f[w]
    BY WordAndBit
  <2> HIDE DEF w
  <2>2. ~(w > len) /\ w \in 1..len
    BY <2>1
  <2> QED BY <2>1, <2>2 DEF Nonzero, w
<1>2. ASSUME NEW w \in Nonzero(len, f)
      PROVE  \E n \in S : WordOf(n) = w
  <2>1. w \in Nat \ {0} /\ f[w] # {} /\ f[w] \subseteq Bits
    BY DEF Nonzero
  <2>2. PICK k \in f[w] : TRUE
    BY <2>1
  <2>3. k \in 0..(WordBits - 1)
    BY <2>1 DEF Bits
  <2> DEFINE n == (w - 1) * WordBits + k
  <2>4. n \in Nat /\ WordOf(n) = w /\ BitOf(n) = k
    BY <2>1, <2>3, NumberOf
  <2> HIDE DEF n
  <2> QED BY <2>4
<1>3. used = Nonzero(len, f)
  BY <1>1, <1>2
<1>4. LastWord(S) = LastOf(used)
  BY DEF LastWord, LastOf
<1> HIDE DEF used
<1> QED BY <1>3, <1>4

(* Then the first len words of the memory stand for S. *)
LEMMA StoredRight ==
    ASSUME NEW dst, NEW len, NEW f, NEW r, NEW S, Stores(dst, len, f, r, S)
    PROVE  Effect(dst, r, Beyond(Memory(dst), len) \cup S, LastWord(S))
<1>0. /\ BitsetOK(dst) /\ len \in Nat /\ f \in [Nat \ {0} -> SUBSET Bits]
      /\ \A w \in Nat \ {0} : w > len => f[w] = {}
      /\ StoredIn(dst, len, f, r) /\ S \subseteq Nat
      /\ \A n \in Nat : n \in S <=> BitOf(n) \in f[WordOf(n)]
  BY DEF Stores
<1> DEFINE nbits == len * WordBits
           d == Expand(dst, nbits)
           e == LastOf(Nonzero(len, f))
           v == [w \in DOMAIN d.varr |-> IF w <= len THEN f[w] ELSE d.varr[w]]
           bm == r.bm
           M == Beyond(Memory(dst), len) \cup S
<1>1. nbits \in Nat
  BY <1>0, WordBitsAssumption
<1>2. Words(nbits) = len
  BY <1>0, WordsExactly
<1>3. bm = [els |-> e, varr |-> v]
  BY <1>0 DEF StoredIn
<1>4. r.value \in BOOLEAN /\ (r.value <=> \E w \in 1..len : f[w] # d.varr[w])
  BY <1>0 DEF StoredIn
<1>5. Roomy(dst, Expand(dst, nbits), Words(nbits))
  BY <1>0, <1>1, ExpandRight
<1> HIDE DEF nbits
<1>6. Roomy(dst, d, len)
  BY <1>0, <1>2, <1>5
<1> HIDE DEF d
<1>7. /\ BitsetOK(d) /\ d.els = Larger(dst.els, len)
      /\ \A w \in Nat \ {0} : Operand(Whole(d), w) = Operand(Whole(dst), w)
  BY <1>0, <1>6 DEF Roomy
<1>8. /\ d.els \in Nat /\ d.varr \in Seq(SUBSET Bits) /\ Len(d.varr) \in Nat
      /\ DOMAIN d.varr = 1..Len(d.varr) /\ d.els <= Len(d.varr)
      /\ \A w \in 1..Len(d.varr) : d.varr[w] \subseteq Bits
  BY <1>0, <1>7, FieldTypes
<1>9. dst.els \in Nat /\ d.els >= len
  <2>1. dst.els \in Nat
    BY <1>0, FieldTypes
  <2> QED BY ONLY <1>0, <1>7, <2>1 DEF Larger
<1>10. len <= Len(d.varr)
  BY <1>0, <1>8, <1>9
<1>11. e \in 0..len
  <2>1. Nonzero(len, f) \subseteq 1..len
    BY DEF Nonzero
  <2> QED BY <1>0, <2>1, LastRight
<1>12. e = LastWord(S)
  BY <1>0, LastWordRight
<1> HIDE DEF e
<1>13. /\ v \in Seq(SUBSET Bits) /\ Len(v) = Len(d.varr)
       /\ \A w \in 1..Len(d.varr) : v[w] = IF w <= len THEN f[w] ELSE d.varr[w]
  <2>1. \A w \in 1..Len(d.varr) : v[w] \in SUBSET Bits
    BY <1>0, <1>8
  <2>2. v \in [1..Len(d.varr) -> SUBSET Bits]
    BY <1>0, <1>8, <2>1
  <2> QED BY <1>0, <1>8, <1>10, <2>2
<1> HIDE DEF v, bm
<1>14. bm.els = e /\ bm.varr = v /\ BitsetOK(bm)
  BY <1>0, <1>3, <1>8, <1>10, <1>11, <1>13 DEF BitsetOK, BitsetType
<1>15. /\ Whole(bm).els = Len(d.varr) /\ Whole(bm).varr = v
       /\ Whole(d).els = Len(d.varr) /\ Whole(d).varr = d.varr
  BY <1>13, <1>14 DEF Whole
<1>16. ASSUME NEW w \in Nat \ {0}
       PROVE  Operand(Whole(bm), w) = IF w <= len THEN f[w] ELSE Operand(Whole(dst), w)
  <2>1. CASE w <= len
    BY <1>0, <1>8, <1>10, <1>13, <1>15, <2>1 DEF Operand
  <2>2. CASE ~(w <= len)
    <3>1. Operand(Whole(bm), w) = Operand(Whole(d), w)
      BY <1>0, <1>8, <1>13, <1>15, <2>2 DEF Operand
    <3> QED BY <1>7, <2>2, <3>1
  <2> QED BY <2>1, <2>2
<1>17. Memory(dst) \subseteq Nat /\ Memory(bm) \subseteq Nat
  BY <1>0, <1>14, InMemory
<1>18. ASSUME NEW n \in Nat
       PROVE  n \in Memory(bm) <=> n \in Beyond(Memory(dst), len) \/ n \in S
  <2> DEFINE w == WordOf(n)
  <2>1. w \in Nat \ {0}
    BY WordAndBit
  <2>2. n \in Memory(bm) <=> BitOf(n) \in Operand(Whole(bm), w)
    BY <1>14, InMemory
  <2>3. n \in Memory(dst) <=> BitOf(n) \in Operand(Whole(dst), w)
    BY <1>0, InMemory
  <2>4. n \in S <=> BitOf(n) \in f[w]
    BY <1>0
  <2>5. n \in Beyond(Memory(dst), len) <=> n \in Memory(dst) /\ ~(w <= len)
    BY <1>0, <1>17, InWords
  <2> HIDE DEF w
  <2>6. ~(w <= len) => f[w] = {}
    BY <1>0, <2>1
  <2> QED BY <1>16, <2>1, <2>2, <2>3, <2>4, <2>5, <2>6
<1>19. Memory(bm) = M
  BY <1>0, <1>17, <1>18 DEF Beyond
<1>20. \A w \in 1..len : Operand(Whole(dst), w) = d.varr[w]
  <2>1. ASSUME NEW w \in 1..len PROVE Operand(Whole(d), w) = d.varr[w]
    <3>1. w \in Nat \ {0} /\ ~(w > Len(d.varr))
      BY <1>0, <1>8, <1>10
    <3> QED BY <1>15, <3>1 DEF Operand
  <2> QED BY <1>0, <1>7, <2>1
<1>21. Memory(bm) = Memory(dst)
          <=> \A w \in Nat \ {0} : Operand(Whole(bm), w) = Operand(Whole(dst), w)
  BY <1>0, <1>14, MemoriesDecide
<1>22. (\A w \in Nat \ {0} : Operand(Whole(bm), w) = Operand(Whole(dst), w))
          <=> \A w \in 1..len : f[w] = d.varr[w]
  <2>1. ASSUME NEW w \in 1..len, \A u \in Nat \ {0} : Operand(Whole(bm), u) = Operand(Whole(dst), u)
        PROVE  f[w] = d.varr[w]
    <3>1. w \in Nat \ {0} /\ w <= len
      BY <1>0
    <3>2. Operand(Whole(bm), w) = f[w]
      BY <1>16, <3>1
    <3>3. Operand(Whole(bm), w) = Operand(Whole(dst), w)
      BY <2>1, <3>1
    <3> QED BY <1>20, <3>2, <3>3
  <2>2. ASSUME NEW w \in Nat \ {0}, \A u \in 1..len : f[u] = d.varr[u]
        PROVE  Operand(Whole(bm), w) = Operand(Whole(dst), w)
    <3>1. CASE ~(w <= len)
      BY <1>16, <3>1
    <3>2. CASE w <= len
      <4>1. w \in 1..len
        BY <1>0, <3>2
      <4>2. Operand(Whole(bm), w) = f[w]
        BY <1>16, <3>2
      <4> QED BY <1>20, <2>2, <4>1, <4>2
    <3> QED BY <3>1, <3>2
  <2> QED BY <2>1, <2>2
<1> HIDE DEF M
<1>23. r.value <=> M # Memory(dst)
  BY ONLY <1>4, <1>19, <1>21, <1>22, Zenon
<1>24. r.value \in BOOLEAN
  BY <1>0, <1>4
<1>25. Effect(dst, r, M, LastWord(S))
  BY <1>12, <1>14, <1>19, <1>23, <1>24 DEF Effect, bm
<1> QED BY <1>25 DEF M

LEMMA ExpandedDomain ==
    ASSUME NEW bm, BitsetOK(bm), NEW len \in Nat
    PROVE  DOMAIN Expand(bm, len * WordBits).varr \subseteq Nat \ {0}
<1> DEFINE nbits == len * WordBits
           d == Expand(bm, nbits)
<1>1. nbits \in Nat
  BY WordBitsAssumption
<1> HIDE DEF nbits
<1>2. BitsetOK(d)
  BY <1>1, ExpandRight DEF Roomy
<1> HIDE DEF d
<1>3. DOMAIN d.varr = 1..Len(d.varr) /\ Len(d.varr) \in Nat
  BY <1>2, FieldTypes
<1> QED BY <1>3 DEF d, nbits

(* The five operations store the words they should. *)
LEMMA IntersectStored ==
    ASSUME NEW dst, BitsetOK(dst), NEW s1, NEW s2, NEW len \in Nat,
           len = Larger(s1.els, s2.els)
    PROVE  StoredIn(dst, len, [w \in Nat \ {0} |-> Operand(s1, w) \cap Operand(s2, w)],
                  Op2(dst, s1, s2, Intersect))
<1> DEFINE f == [w \in Nat \ {0} |-> Operand(s1, w) \cap Operand(s2, w)]
           d == Expand(dst, len * WordBits)
           Word(w) == Intersect(Operand(s1, w), Operand(s2, w))
           nonzero == {w \in 1..len : Word(w) # {}}
           v == [w \in DOMAIN d.varr |-> IF w <= len THEN Word(w) ELSE d.varr[w]]
           u == [w \in DOMAIN d.varr |-> IF w <= len THEN f[w] ELSE d.varr[w]]
           r == Op2(dst, s1, s2, Intersect)
<1>1. r = Result([els |-> LastOf(nonzero), varr |-> v], \E w \in 1..len : Word(w) # d.varr[w])
  BY DEF Op2, StoreWords, LastOf
<1>2. r.bm = [els |-> LastOf(nonzero), varr |-> v]
  BY <1>1 DEF Result
<1>3. r.value = (\E w \in 1..len : Word(w) # d.varr[w])
  BY <1>1 DEF Result
<1>4. \A w \in Nat \ {0} : f[w] = Word(w)
  BY DEF Intersect
<1>5. DOMAIN d.varr \subseteq Nat \ {0}
  BY ExpandedDomain
<1> HIDE DEF f, Word, d, r
<1>6. nonzero = Nonzero(len, f)
  BY <1>4 DEF Nonzero
<1>7. r.value \in BOOLEAN /\ (r.value <=> \E w \in 1..len : f[w] # d.varr[w])
  BY <1>3, <1>4
<1>8. v = u
  BY <1>4, <1>5
<1> HIDE DEF nonzero, v
<1>9. r.bm = [els |-> LastOf(Nonzero(len, f)), varr |-> u]
  BY <1>2, <1>6, <1>8
<1> QED BY <1>7, <1>9 DEF StoredIn, f, d, r

LEMMA AndComplStored ==
    ASSUME NEW dst, BitsetOK(dst), NEW s1, NEW s2, NEW len \in Nat,
           len = Larger(s1.els, s2.els)
    PROVE  StoredIn(dst, len, [w \in Nat \ {0} |-> Operand(s1, w) \ Operand(s2, w)],
                  Op2(dst, s1, s2, AndCompl))
<1> DEFINE f == [w \in Nat \ {0} |-> Operand(s1, w) \ Operand(s2, w)]
           d == Expand(dst, len * WordBits)
           Word(w) == AndCompl(Operand(s1, w), Operand(s2, w))
           nonzero == {w \in 1..len : Word(w) # {}}
           v == [w \in DOMAIN d.varr |-> IF w <= len THEN Word(w) ELSE d.varr[w]]
           u == [w \in DOMAIN d.varr |-> IF w <= len THEN f[w] ELSE d.varr[w]]
           r == Op2(dst, s1, s2, AndCompl)
<1>1. r = Result([els |-> LastOf(nonzero), varr |-> v], \E w \in 1..len : Word(w) # d.varr[w])
  BY DEF Op2, StoreWords, LastOf
<1>2. r.bm = [els |-> LastOf(nonzero), varr |-> v]
  BY <1>1 DEF Result
<1>3. r.value = (\E w \in 1..len : Word(w) # d.varr[w])
  BY <1>1 DEF Result
<1>4. \A w \in Nat \ {0} : f[w] = Word(w)
  BY DEF AndCompl
<1>5. DOMAIN d.varr \subseteq Nat \ {0}
  BY ExpandedDomain
<1> HIDE DEF f, Word, d, r
<1>6. nonzero = Nonzero(len, f)
  BY <1>4 DEF Nonzero
<1>7. r.value \in BOOLEAN /\ (r.value <=> \E w \in 1..len : f[w] # d.varr[w])
  BY <1>3, <1>4
<1>8. v = u
  BY <1>4, <1>5
<1> HIDE DEF nonzero, v
<1>9. r.bm = [els |-> LastOf(Nonzero(len, f)), varr |-> u]
  BY <1>2, <1>6, <1>8
<1> QED BY <1>7, <1>9 DEF StoredIn, f, d, r

LEMMA IorStored ==
    ASSUME NEW dst, BitsetOK(dst), NEW s1, NEW s2, NEW len \in Nat,
           len = Larger(s1.els, s2.els)
    PROVE  StoredIn(dst, len, [w \in Nat \ {0} |-> Operand(s1, w) \cup Operand(s2, w)],
                  Op2(dst, s1, s2, Ior))
<1> DEFINE f == [w \in Nat \ {0} |-> Operand(s1, w) \cup Operand(s2, w)]
           d == Expand(dst, len * WordBits)
           Word(w) == Ior(Operand(s1, w), Operand(s2, w))
           nonzero == {w \in 1..len : Word(w) # {}}
           v == [w \in DOMAIN d.varr |-> IF w <= len THEN Word(w) ELSE d.varr[w]]
           u == [w \in DOMAIN d.varr |-> IF w <= len THEN f[w] ELSE d.varr[w]]
           r == Op2(dst, s1, s2, Ior)
<1>1. r = Result([els |-> LastOf(nonzero), varr |-> v], \E w \in 1..len : Word(w) # d.varr[w])
  BY DEF Op2, StoreWords, LastOf
<1>2. r.bm = [els |-> LastOf(nonzero), varr |-> v]
  BY <1>1 DEF Result
<1>3. r.value = (\E w \in 1..len : Word(w) # d.varr[w])
  BY <1>1 DEF Result
<1>4. \A w \in Nat \ {0} : f[w] = Word(w)
  BY DEF Ior
<1>5. DOMAIN d.varr \subseteq Nat \ {0}
  BY ExpandedDomain
<1> HIDE DEF f, Word, d, r
<1>6. nonzero = Nonzero(len, f)
  BY <1>4 DEF Nonzero
<1>7. r.value \in BOOLEAN /\ (r.value <=> \E w \in 1..len : f[w] # d.varr[w])
  BY <1>3, <1>4
<1>8. v = u
  BY <1>4, <1>5
<1> HIDE DEF nonzero, v
<1>9. r.bm = [els |-> LastOf(Nonzero(len, f)), varr |-> u]
  BY <1>2, <1>6, <1>8
<1> QED BY <1>7, <1>9 DEF StoredIn, f, d, r

LEMMA IorAndStored ==
    ASSUME NEW dst, BitsetOK(dst), NEW s1, NEW s2, NEW s3, NEW len \in Nat,
           len = Larger(Larger(s1.els, s2.els), s3.els)
    PROVE  StoredIn(dst, len,
                  [w \in Nat \ {0} |-> Operand(s1, w) \cup (Operand(s2, w) \cap Operand(s3, w))],
                  Op3(dst, s1, s2, s3, IorAnd))
<1> DEFINE f == [w \in Nat \ {0} |-> Operand(s1, w) \cup (Operand(s2, w) \cap Operand(s3, w))]
           d == Expand(dst, len * WordBits)
           Word(w) == IorAnd(Operand(s1, w), Operand(s2, w), Operand(s3, w))
           nonzero == {w \in 1..len : Word(w) # {}}
           v == [w \in DOMAIN d.varr |-> IF w <= len THEN Word(w) ELSE d.varr[w]]
           u == [w \in DOMAIN d.varr |-> IF w <= len THEN f[w] ELSE d.varr[w]]
           r == Op3(dst, s1, s2, s3, IorAnd)
<1>1. r = Result([els |-> LastOf(nonzero), varr |-> v], \E w \in 1..len : Word(w) # d.varr[w])
  BY DEF Op3, StoreWords, LastOf
<1>2. r.bm = [els |-> LastOf(nonzero), varr |-> v]
  BY <1>1 DEF Result
<1>3. r.value = (\E w \in 1..len : Word(w) # d.varr[w])
  BY <1>1 DEF Result
<1>4. \A w \in Nat \ {0} : f[w] = Word(w)
  BY DEF IorAnd
<1>5. DOMAIN d.varr \subseteq Nat \ {0}
  BY ExpandedDomain
<1> HIDE DEF f, Word, d, r
<1>6. nonzero = Nonzero(len, f)
  BY <1>4 DEF Nonzero
<1>7. r.value \in BOOLEAN /\ (r.value <=> \E w \in 1..len : f[w] # d.varr[w])
  BY <1>3, <1>4
<1>8. v = u
  BY <1>4, <1>5
<1> HIDE DEF nonzero, v
<1>9. r.bm = [els |-> LastOf(Nonzero(len, f)), varr |-> u]
  BY <1>2, <1>6, <1>8
<1> QED BY <1>7, <1>9 DEF StoredIn, f, d, r

LEMMA IorAndComplStored ==
    ASSUME NEW dst, BitsetOK(dst), NEW s1, NEW s2, NEW s3, NEW len \in Nat,
           len = Larger(Larger(s1.els, s2.els), s3.els)
    PROVE  StoredIn(dst, len,
                  [w \in Nat \ {0} |-> Operand(s1, w) \cup (Operand(s2, w) \ Operand(s3, w))],
                  Op3(dst, s1, s2, s3, IorAndCompl))
<1> DEFINE f == [w \in Nat \ {0} |-> Operand(s1, w) \cup (Operand(s2, w) \ Operand(s3, w))]
           d == Expand(dst, len * WordBits)
           Word(w) == IorAndCompl(Operand(s1, w), Operand(s2, w), Operand(s3, w))
           nonzero == {w \in 1..len : Word(w) # {}}
           v == [w \in DOMAIN d.varr |-> IF w <= len THEN Word(w) ELSE d.varr[w]]
           u == [w \in DOMAIN d.varr |-> IF w <= len THEN f[w] ELSE d.varr[w]]
           r == Op3(dst, s1, s2, s3, IorAndCompl)
<1>1. r = Result([els |-> LastOf(nonzero), varr |-> v], \E w \in 1..len : Word(w) # d.varr[w])
  BY DEF Op3, StoreWords, LastOf
<1>2. r.bm = [els |-> LastOf(nonzero), varr |-> v]
  BY <1>1 DEF Result
<1>3. r.value = (\E w \in 1..len : Word(w) # d.varr[w])
  BY <1>1 DEF Result
<1>4. \A w \in Nat \ {0} : f[w] = Word(w)
  BY DEF IorAndCompl
<1>5. DOMAIN d.varr \subseteq Nat \ {0}
  BY ExpandedDomain
<1> HIDE DEF f, Word, d, r
<1>6. nonzero = Nonzero(len, f)
  BY <1>4 DEF Nonzero
<1>7. r.value \in BOOLEAN /\ (r.value <=> \E w \in 1..len : f[w] # d.varr[w])
  BY <1>3, <1>4
<1>8. v = u
  BY <1>4, <1>5
<1> HIDE DEF nonzero, v
<1>9. r.bm = [els |-> LastOf(Nonzero(len, f)), varr |-> u]
  BY <1>2, <1>6, <1>8
<1> QED BY <1>7, <1>9 DEF StoredIn, f, d, r

-----------------------------------------------------------------------------
(* Questions about bit sets *)

(* Sets of different lengths are equal if the words of the longer that the *)
(* other lacks are zero.                                                   *)
LEMMA EqualRight ==
    ASSUME NEW a, BitsetOK(a), NEW b, BitsetOK(b)
    PROVE  EqualP(a, b) <=> Content(a) = Content(b)
<1> DEFINE AlikeWords(s, l) ==
               /\ \A w \in 1..s.els : s.varr[w] = l.varr[w]
               /\ \A w \in (s.els + 1)..l.els : l.varr[w] = {}
<1>1. ASSUME NEW s, BitsetOK(s), NEW l, BitsetOK(l), s.els <= l.els
      PROVE  AlikeWords(s, l) <=> Content(s) = Content(l)
  <2>1. s.els \in Nat /\ l.els \in Nat
    BY <1>1, FieldTypes
  <2>2. ASSUME AlikeWords(s, l), NEW w \in Nat \ {0}
        PROVE  Operand(s, w) = Operand(l, w)
    <3>1. CASE w <= s.els
      <4>1. s.varr[w] = l.varr[w] /\ ~(w > s.els) /\ ~(w > l.els)
        BY <1>1, <2>1, <2>2, <3>1
      <4> QED BY <4>1 DEF Operand
    <3>2. CASE w > s.els /\ w <= l.els
      <4>1. w \in (s.els + 1)..l.els /\ ~(w > l.els)
        BY <2>1, <3>2
      <4>2. l.varr[w] = {}
        BY <2>2, <4>1
      <4> QED BY <3>2, <4>1, <4>2 DEF Operand
    <3>3. CASE w > l.els
      <4>1. w > s.els
        BY <1>1, <2>1, <3>3
      <4> QED BY <3>3, <4>1 DEF Operand
    <3> QED BY <2>1, <3>1, <3>2, <3>3
  <2>3. ASSUME \A w \in Nat \ {0} : Operand(s, w) = Operand(l, w)
        PROVE  AlikeWords(s, l)
    <3>1. ASSUME NEW w \in 1..s.els PROVE s.varr[w] = l.varr[w]
      <4>1. w \in Nat \ {0} /\ ~(w > s.els) /\ ~(w > l.els)
        BY <1>1, <2>1
      <4> QED BY <2>3, <4>1 DEF Operand
    <3>2. ASSUME NEW w \in (s.els + 1)..l.els PROVE l.varr[w] = {}
      <4>1. w \in Nat \ {0} /\ w > s.els /\ ~(w > l.els)
        BY <1>1, <2>1
      <4> QED BY <2>3, <4>1 DEF Operand
    <3> QED BY <3>1, <3>2
  <2> HIDE DEF AlikeWords
  <2>4. Content(s) = Content(l) <=> \A w \in Nat \ {0} : Operand(s, w) = Operand(l, w)
    BY <1>1, WordsDecide
  <2> QED BY <2>2, <2>3, <2>4
<1>2. a.els \in Nat /\ b.els \in Nat
  BY FieldTypes
<1>3. CASE a.els > b.els
  <2>1. EqualP(a, b) <=> AlikeWords(b, a)
    BY <1>3 DEF EqualP
  <2> HIDE DEF AlikeWords
  <2>2. AlikeWords(b, a) <=> Content(b) = Content(a)
    BY <1>1, <1>2, <1>3
  <2> QED BY <2>1, <2>2
<1>4. CASE ~(a.els > b.els)
  <2>1. EqualP(a, b) <=> AlikeWords(a, b)
    BY <1>4 DEF EqualP
  <2> HIDE DEF AlikeWords
  <2>2. AlikeWords(a, b) <=> Content(a) = Content(b)
    BY <1>1, <1>2, <1>4
  <2> QED BY <2>1, <2>2
<1> QED BY <1>3, <1>4

(* A word with a bit stands for a number. *)
LEMMA BitInContent ==
    ASSUME NEW bm, BitsetOK(bm), NEW w \in Nat \ {0}, NEW k \in Operand(bm, w)
    PROVE  LET n == (w - 1) * WordBits + k
           IN  n \in Nat /\ WordOf(n) = w /\ BitOf(n) = k /\ n \in Content(bm)
<1> DEFINE n == (w - 1) * WordBits + k
<1>1. k \in 0..(WordBits - 1)
  BY OperandTypes DEF Bits
<1>2. n \in Nat /\ WordOf(n) = w /\ BitOf(n) = k
  BY <1>1, NumberOf
<1> HIDE DEF n
<1>3. n \in Content(bm)
  BY <1>2, InContent
<1> QED BY <1>2, <1>3 DEF n

LEMMA EmptyRight ==
    ASSUME NEW bm, BitsetOK(bm)
    PROVE  EmptyP(bm) <=> Content(bm) = {}
<1>1. bm.els \in Nat
  BY FieldTypes
<1>2. ASSUME EmptyP(bm), NEW n \in Content(bm) PROVE FALSE
  <2>1. n \in Nat /\ BitOf(n) \in Operand(bm, WordOf(n)) /\ WordOf(n) \in Nat \ {0}
    BY InContent, WordAndBit
  <2>2. WordOf(n) \in 1..bm.els /\ BitOf(n) \in bm.varr[WordOf(n)]
    BY <1>1, <2>1 DEF Operand
  <2> QED BY <1>2, <2>2 DEF EmptyP
<1>3. ASSUME Content(bm) = {}, NEW w \in 1..bm.els PROVE bm.varr[w] = {}
  <2>1. w \in Nat \ {0} /\ Operand(bm, w) = bm.varr[w]
    BY <1>1 DEF Operand
  <2>2. ASSUME NEW k \in bm.varr[w] PROVE FALSE
    BY <1>3, <2>1, BitInContent
  <2> QED BY <2>2
<1> QED BY <1>2, <1>3 DEF EmptyP

LEMMA IntersectRight ==
    ASSUME NEW a, BitsetOK(a), NEW b, BitsetOK(b)
    PROVE  IntersectP(a, b) <=> Content(a) \cap Content(b) # {}
<1> DEFINE min == a.els + b.els - Larger(a.els, b.els)
<1>1. a.els \in Nat /\ b.els \in Nat
  BY FieldTypes
<1>2. min \in Nat /\ \A w \in Nat : w <= min <=> w <= a.els /\ w <= b.els
  BY <1>1 DEF Larger
<1>3. IntersectP(a, b) <=> \E w \in 1..min : a.varr[w] \cap b.varr[w] # {}
  BY DEF IntersectP
<1> HIDE DEF min
<1>4. ASSUME NEW n \in Content(a), n \in Content(b)
      PROVE  \E w \in 1..min : a.varr[w] \cap b.varr[w] # {}
  <2>1. /\ n \in Nat /\ WordOf(n) \in Nat \ {0}
        /\ BitOf(n) \in Operand(a, WordOf(n)) /\ BitOf(n) \in Operand(b, WordOf(n))
    BY <1>4, InContent, WordAndBit
  <2>2. /\ WordOf(n) <= a.els /\ BitOf(n) \in a.varr[WordOf(n)]
        /\ WordOf(n) <= b.els /\ BitOf(n) \in b.varr[WordOf(n)]
    BY <1>1, <2>1 DEF Operand
  <2>3. WordOf(n) \in 1..min
    BY <1>2, <2>1, <2>2
  <2> QED BY <2>2, <2>3
<1>5. ASSUME NEW w \in 1..min, a.varr[w] \cap b.varr[w] # {}
      PROVE  Content(a) \cap Content(b) # {}
  <2>1. w \in Nat \ {0} /\ w <= a.els /\ w <= b.els
    BY <1>2
  <2>2. Operand(a, w) = a.varr[w] /\ Operand(b, w) = b.varr[w]
    BY <1>1, <2>1 DEF Operand
  <2>3. PICK k \in Operand(a, w) : k \in Operand(b, w)
    BY <1>5, <2>2
  <2> DEFINE n == (w - 1) * WordBits + k
  <2>4. n \in Content(a)
    BY <2>1, BitInContent
  <2>5. n \in Content(b)
    BY <2>1, <2>3, BitInContent
  <2> QED BY <2>4, <2>5
<1> QED BY <1>3, <1>4, <1>5

-----------------------------------------------------------------------------
(* The program *)

(* Every bit set is well formed, and its memory and its length are what    *)
(* the calls should have left.                                             *)
BitIInv ==
    /\ bms \in [Names -> BitsetType] /\ memory \in [Names -> SUBSET Nat]
    /\ words \in [Names -> Nat]
    /\ \A x \in Names :
          BitsetOK(bms[x]) /\ Memory(bms[x]) = memory[x] /\ bms[x].els = words[x]

(* The last call told of a change if there was one. *)
ToldRight == answer' # "nothing" => (answer' = "changed" <=> memory' # memory)

LEMMA StateFacts ==
    ASSUME BitIInv, NEW x \in Names
    PROVE  /\ BitsetOK(bms[x]) /\ Memory(bms[x]) = memory[x] /\ bms[x].els = words[x]
           /\ memory[x] \subseteq Nat /\ words[x] \in Nat
           /\ Content(bms[x]) = Val(x) /\ Val(x) \subseteq Nat
<1>1. /\ BitsetOK(bms[x]) /\ Memory(bms[x]) = memory[x] /\ bms[x].els = words[x]
      /\ memory[x] \subseteq Nat /\ words[x] \in Nat
  BY DEF BitIInv
<1>2. Content(bms[x]) = Val(x)
  BY <1>1, ContentIs DEF Val
<1>3. Val(x) \subseteq Nat
  BY <1>1 DEF Val, Within
<1> QED BY <1>1, <1>2, <1>3

(* All sets are empty. *)
LEMMA BitInitInv == BitInit => BitIInv
<1> SUFFICES ASSUME BitInit PROVE BitIInv
  OBVIOUS
<1> DEFINE c == Create(0)
<1>1. /\ c.els = 0 /\ c \in BitsetType /\ \A w \in 1..Len(c.varr) : c.varr[w] = {}
  <2>1. Words(0) \in Nat
    BY WordsFor
  <2>2. /\ Zeros(Words(0)) \in Seq(SUBSET Bits) /\ Len(Zeros(Words(0))) = Words(0)
        /\ \A w \in 1..Words(0) : Zeros(Words(0))[w] = {}
    BY <2>1, ZerosRight
  <2> QED BY <2>2 DEF Create, BitsetType
<1>2. bms = [x \in Names |-> c] /\ memory = [x \in Names |-> {}] /\ words = [x \in Names |-> 0]
  BY DEF BitInit
<1> HIDE DEF c
<1>3. BitsetOK(c)
  BY <1>1 DEF BitsetOK, BitsetType
<1>4. Memory(c) = {}
  <2>1. Whole(c).els = Len(c.varr) /\ Whole(c).varr = c.varr
    BY DEF Whole
  <2> QED BY <1>1, <2>1 DEF Memory, Content
<1> QED BY <1>1, <1>2, <1>3, <1>4 DEF BitIInv

(* A call that leaves what it should. *)
LEMMA LeaveKeeps ==
    ASSUME BitIInv, NEW x \in Names, NEW bm, NEW S, S \subseteq Nat, NEW w \in Nat,
           Leave(x, bm, S, w), BitsetOK(bm), Memory(bm) = S, bm.els = w
    PROVE  BitIInv'
<1>1. /\ bms' = [bms EXCEPT ![x] = bm] /\ memory' = [memory EXCEPT ![x] = S]
      /\ words' = [words EXCEPT ![x] = w]
  BY DEF Leave
<1>2. bm \in BitsetType
  BY DEF BitsetOK
<1>3. /\ bms' \in [Names -> BitsetType] /\ memory' \in [Names -> SUBSET Nat]
      /\ words' \in [Names -> Nat]
  BY <1>1, <1>2 DEF BitIInv
<1>4. \A y \in Names : BitsetOK(bms'[y]) /\ Memory(bms'[y]) = memory'[y] /\ bms'[y].els = words'[y]
  BY <1>1 DEF BitIInv
<1> QED BY <1>3, <1>4 DEF BitIInv

LEMMA VoidKeeps ==
    ASSUME BitIInv, NEW x \in Names, NEW bm, NEW S, S \subseteq Nat, NEW w \in Nat,
           CallVoid(x, bm, S, w), BitsetOK(bm), Memory(bm) = S, bm.els = w
    PROVE  BitIInv' /\ ToldRight
<1>1. Leave(x, bm, S, w) /\ answer' = "nothing"
  BY DEF CallVoid
<1>2. BitIInv'
  BY <1>1, LeaveKeeps
<1> QED BY <1>1, <1>2 DEF ToldRight

LEMMA EffectKeeps ==
    ASSUME BitIInv, NEW x \in Names, NEW r, NEW S, S \subseteq Nat, NEW w \in Nat,
           Call(x, r, S, w), Effect(bms[x], r, S, w)
    PROVE  BitIInv' /\ ToldRight
<1>1. Leave(x, r.bm, S, w) /\ answer' = Told(r.value)
  BY DEF Call
<1>2. BitIInv'
  BY <1>1, LeaveKeeps DEF Effect
<1>3. r.value \in BOOLEAN /\ (r.value <=> S # memory[x])
  BY StateFacts DEF Effect
<1>4. S # memory[x] <=> memory' # memory
  BY <1>1 DEF Leave, BitIInv
<1>5. answer' = "changed" <=> r.value
  BY <1>1, <1>3 DEF Told
<1> QED BY <1>2, <1>3, <1>4, <1>5 DEF ToldRight

(* An operation on words, of operands that have len words together. *)
LEMMA CombineKeeps ==
    ASSUME BitIInv, NEW x \in Names, NEW len, NEW r, NEW S, CallCombine(x, len, r, S),
           NEW f, Stores(bms[x], len, f, r, S)
    PROVE  BitIInv' /\ ToldRight
<1> DEFINE T == Beyond(memory[x], len) \cup S
           w == LastWord(S)
<1>1. /\ len \in Nat /\ S \subseteq Nat /\ f \in [Nat \ {0} -> SUBSET Bits]
      /\ \A v \in Nat \ {0} : v > len => f[v] = {}
      /\ \A n \in Nat : n \in S <=> BitOf(n) \in f[WordOf(n)]
  BY DEF Stores
<1>2. Memory(bms[x]) = memory[x] /\ memory[x] \subseteq Nat
  BY StateFacts
<1>3. Effect(bms[x], r, T, w)
  BY <1>2, StoredRight
<1>4. T \subseteq Nat
  BY <1>1, <1>2 DEF Beyond
<1>5. w \in Nat
  <2>1. Nonzero(len, f) \subseteq 1..len
    BY DEF Nonzero
  <2>2. LastOf(Nonzero(len, f)) \in 0..len
    BY <1>1, <2>1, LastRight
  <2>3. w = LastOf(Nonzero(len, f))
    BY <1>1, LastWordRight
  <2> HIDE DEF w
  <2> QED BY <1>1, <2>2, <2>3
<1>6. Call(x, r, T, w)
  BY DEF CallCombine
<1> HIDE DEF T, w
<1> QED BY <1>3, <1>4, <1>5, <1>6, EffectKeeps

(* raviX_bitset_op2() and raviX_bitset_op3() with each operation. *)
LEMMA CombineStep ==
    ASSUME BitIInv, NEW x \in Names, NEW y \in Names, NEW z \in Names, Combine(x, y, z)
    PROVE  BitIInv' /\ ToldRight
<1> DEFINE a == bms[x]
           s1 == bms[y]
           s2 == bms[z]
           len == Larger(s1.els, s2.els)
<1>1. /\ BitsetOK(a) /\ BitsetOK(s1) /\ BitsetOK(s2)
      /\ Val(y) \subseteq Nat /\ Val(z) \subseteq Nat
      /\ Content(s1) = Val(y) /\ Content(s2) = Val(z)
  BY StateFacts
<1>2. /\ s1.els \in Nat /\ s2.els \in Nat
  BY <1>1, FieldTypes
<1>3. /\ len \in Nat /\ s1.els <= len /\ s2.els <= len
  BY <1>2, LargerRight
<1>5. \A w \in Nat \ {0} : Operand(s1, w) \subseteq Bits /\ Operand(s2, w) \subseteq Bits
  BY <1>1, OperandTypes
<1>6. \A w \in Nat \ {0} : w > len => Operand(s1, w) = {} /\ Operand(s2, w) = {}
  BY <1>2, <1>3 DEF Operand
<1>7. /\ \A n \in Nat : WordOf(n) \in Nat \ {0}
      /\ \A n \in Nat : n \in Val(y) <=> BitOf(n) \in Operand(s1, WordOf(n))
      /\ \A n \in Nat : n \in Val(z) <=> BitOf(n) \in Operand(s2, WordOf(n))
  <2>1. \A n \in Nat : n \in Val(y) <=> BitOf(n) \in Operand(s1, WordOf(n))
    BY <1>1, InContent
  <2>2. \A n \in Nat : n \in Val(z) <=> BitOf(n) \in Operand(s2, WordOf(n))
    BY <1>1, InContent
  <2> QED BY <2>1, <2>2, WordAndBit
<1>8. len = Larger(s1.els, s2.els)
  OBVIOUS
<1> HIDE DEF len
<1>9. ASSUME CallCombine(x, len, Op2(bms[x], bms[y], bms[z], Intersect), Val(y) \cap Val(z))
      PROVE  BitIInv' /\ ToldRight
  <2> DEFINE f == [w \in Nat \ {0} |-> Operand(s1, w) \cap Operand(s2, w)]
             S == Val(y) \cap Val(z)
             r == Op2(bms[x], bms[y], bms[z], Intersect)
  <2>1. StoredIn(bms[x], len, f, r)
    BY <1>1, <1>3, <1>8, IntersectStored
  <2>2. CallCombine(x, len, r, S)
    BY <1>9
  <2>3. f \in [Nat \ {0} -> SUBSET Bits] /\ \A w \in Nat \ {0} : w > len => f[w] = {}
    BY <1>5, <1>6
  <2>4. S \subseteq Nat
    BY <1>1
  <2>5. ASSUME NEW n \in Nat
        PROVE  n \in S <=> BitOf(n) \in f[WordOf(n)]
    <3> DEFINE w == WordOf(n)
    <3>1. w \in Nat \ {0}
      BY <1>7
    <3> HIDE DEF w
    <3>2. f[w] = Operand(s1, w) \cap Operand(s2, w)
      BY <3>1
    <3> QED BY <1>7, <3>2 DEF w
  <2> HIDE DEF f, r, S
  <2>6. Stores(bms[x], len, f, r, S)
    BY <1>1, <1>3, <2>1, <2>3, <2>4, <2>5 DEF Stores
  <2> QED BY <2>2, <2>6, CombineKeeps
<1>10. ASSUME CallCombine(x, len, Op2(bms[x], bms[y], bms[z], AndCompl), Val(y) \ Val(z))
      PROVE  BitIInv' /\ ToldRight
  <2> DEFINE f == [w \in Nat \ {0} |-> Operand(s1, w) \ Operand(s2, w)]
             S == Val(y) \ Val(z)
             r == Op2(bms[x], bms[y], bms[z], AndCompl)
  <2>1. StoredIn(bms[x], len, f, r)
    BY <1>1, <1>3, <1>8, AndComplStored
  <2>2. CallCombine(x, len, r, S)
    BY <1>10
  <2>3. f \in [Nat \ {0} -> SUBSET Bits] /\ \A w \in Nat \ {0} : w > len => f[w] = {}
    BY <1>5, <1>6
  <2>4. S \subseteq Nat
    BY <1>1
  <2>5. ASSUME NEW n \in Nat
        PROVE  n \in S <=> BitOf(n) \in f[WordOf(n)]
    <3> DEFINE w == WordOf(n)
    <3>1. w \in Nat \ {0}
      BY <1>7
    <3> HIDE DEF w
    <3>2. f[w] = Operand(s1, w) \ Operand(s2, w)
      BY <3>1
    <3> QED BY <1>7, <3>2 DEF w
  <2> HIDE DEF f, r, S
  <2>6. Stores(bms[x], len, f, r, S)
    BY <1>1, <1>3, <2>1, <2>3, <2>4, <2>5 DEF Stores
  <2> QED BY <2>2, <2>6, CombineKeeps
<1>11. ASSUME CallCombine(x, len, Op2(bms[x], bms[y], bms[z], Ior), Val(y) \cup Val(z))
      PROVE  BitIInv' /\ ToldRight
  <2> DEFINE f == [w \in Nat \ {0} |-> Operand(s1, w) \cup Operand(s2, w)]
             S == Val(y) \cup Val(z)
             r == Op2(bms[x], bms[y], bms[z], Ior)
  <2>1. StoredIn(bms[x], len, f, r)
    BY <1>1, <1>3, <1>8, IorStored
  <2>2. CallCombine(x, len, r, S)
    BY <1>11
  <2>3. f \in [Nat \ {0} -> SUBSET Bits] /\ \A w \in Nat \ {0} : w > len => f[w] = {}
    BY <1>5, <1>6
  <2>4. S \subseteq Nat
    BY <1>1
  <2>5. ASSUME NEW n \in Nat
        PROVE  n \in S <=> BitOf(n) \in f[WordOf(n)]
    <3> DEFINE w == WordOf(n)
    <3>1. w \in Nat \ {0}
      BY <1>7
    <3> HIDE DEF w
    <3>2. f[w] = Operand(s1, w) \cup Operand(s2, w)
      BY <3>1
    <3> QED BY <1>7, <3>2 DEF w
  <2> HIDE DEF f, r, S
  <2>6. Stores(bms[x], len, f, r, S)
    BY <1>1, <1>3, <2>1, <2>3, <2>4, <2>5 DEF Stores
  <2> QED BY <2>2, <2>6, CombineKeeps
<1>12. words[y] = s1.els /\ words[z] = s2.els
  BY StateFacts
<1> HIDE DEF s1, s2
<1> QED BY <1>8, <1>9, <1>10, <1>11, <1>12 DEF Combine

LEMMA Combine3Step ==
    ASSUME BitIInv, NEW x \in Names, NEW y \in Names, NEW z \in Names, NEW u \in Names,
           Combine3(x, y, z, u)
    PROVE  BitIInv' /\ ToldRight
<1> DEFINE a == bms[x]
           s1 == bms[y]
           s2 == bms[z]
           s3 == bms[u]
           len2 == Larger(s1.els, s2.els)
           len == Larger(len2, s3.els)
<1>1. /\ BitsetOK(a) /\ BitsetOK(s1) /\ BitsetOK(s2) /\ BitsetOK(s3)
      /\ Val(y) \subseteq Nat /\ Val(z) \subseteq Nat
      /\ Val(u) \subseteq Nat
      /\ Content(s1) = Val(y) /\ Content(s2) = Val(z) /\ Content(s3) = Val(u)
  BY StateFacts
<1>2. /\ s1.els \in Nat /\ s2.els \in Nat /\ s3.els \in Nat
  BY <1>1, FieldTypes
<1>3. /\ len \in Nat /\ s1.els <= len /\ s2.els <= len /\ s3.els <= len
  <2>1. len2 \in Nat /\ s1.els <= len2 /\ s2.els <= len2
    BY <1>2, LargerRight
  <2> HIDE DEF len2
  <2>2. len \in Nat /\ len2 <= len /\ s3.els <= len
    BY <1>2, <2>1, LargerRight
  <2> HIDE DEF len
  <2> QED BY <1>2, <2>1, <2>2
<1>5. \A w \in Nat \ {0} : /\ Operand(s1, w) \subseteq Bits /\ Operand(s2, w) \subseteq Bits
                            /\ Operand(s3, w) \subseteq Bits
  BY <1>1, OperandTypes
<1>8. len = Larger(Larger(s1.els, s2.els), s3.els)
  OBVIOUS
<1> HIDE DEF len, len2
<1>6. \A w \in Nat \ {0} : w > len => /\ Operand(s1, w) = {} /\ Operand(s2, w) = {}
                                        /\ Operand(s3, w) = {}
  BY <1>2, <1>3 DEF Operand
<1>7. /\ \A n \in Nat : WordOf(n) \in Nat \ {0}
      /\ \A n \in Nat : n \in Val(y) <=> BitOf(n) \in Operand(s1, WordOf(n))
      /\ \A n \in Nat : n \in Val(z) <=> BitOf(n) \in Operand(s2, WordOf(n))
      /\ \A n \in Nat : n \in Val(u) <=> BitOf(n) \in Operand(s3, WordOf(n))
  <2>1. \A n \in Nat : n \in Val(y) <=> BitOf(n) \in Operand(s1, WordOf(n))
    BY <1>1, InContent
  <2>2. \A n \in Nat : n \in Val(z) <=> BitOf(n) \in Operand(s2, WordOf(n))
    BY <1>1, InContent
  <2>3. \A n \in Nat : n \in Val(u) <=> BitOf(n) \in Operand(s3, WordOf(n))
    BY <1>1, InContent
  <2> QED BY <2>1, <2>2, <2>3, WordAndBit
<1>9. ASSUME CallCombine(x, len, Op3(bms[x], bms[y], bms[z], bms[u], IorAnd),
                          Val(y) \cup (Val(z) \cap Val(u)))
      PROVE  BitIInv' /\ ToldRight
  <2> DEFINE f == [w \in Nat \ {0} |-> Operand(s1, w) \cup (Operand(s2, w) \cap Operand(s3, w))]
             S == Val(y) \cup (Val(z) \cap Val(u))
             r == Op3(bms[x], bms[y], bms[z], bms[u], IorAnd)
  <2>1. StoredIn(bms[x], len, f, r)
    BY <1>1, <1>3, <1>8, IorAndStored
  <2>2. CallCombine(x, len, r, S)
    BY <1>9
  <2>3. f \in [Nat \ {0} -> SUBSET Bits] /\ \A w \in Nat \ {0} : w > len => f[w] = {}
    BY <1>5, <1>6
  <2>4. S \subseteq Nat
    BY <1>1
  <2>5. ASSUME NEW n \in Nat
        PROVE  n \in S <=> BitOf(n) \in f[WordOf(n)]
    <3> DEFINE w == WordOf(n)
    <3>1. w \in Nat \ {0}
      BY <1>7
    <3> HIDE DEF w
    <3>2. f[w] = Operand(s1, w) \cup (Operand(s2, w) \cap Operand(s3, w))
      BY <3>1
    <3> QED BY <1>7, <3>2 DEF w
  <2> HIDE DEF f, r, S
  <2>6. Stores(bms[x], len, f, r, S)
    BY <1>1, <1>3, <2>1, <2>3, <2>4, <2>5 DEF Stores
  <2> QED BY <2>2, <2>6, CombineKeeps
<1>10. ASSUME CallCombine(x, len, Op3(bms[x], bms[y], bms[z], bms[u], IorAndCompl),
                          Val(y) \cup (Val(z) \ Val(u)))
      PROVE  BitIInv' /\ ToldRight
  <2> DEFINE f == [w \in Nat \ {0} |-> Operand(s1, w) \cup (Operand(s2, w) \ Operand(s3, w))]
             S == Val(y) \cup (Val(z) \ Val(u))
             r == Op3(bms[x], bms[y], bms[z], bms[u], IorAndCompl)
  <2>1. StoredIn(bms[x], len, f, r)
    BY <1>1, <1>3, <1>8, IorAndComplStored
  <2>2. CallCombine(x, len, r, S)
    BY <1>10
  <2>3. f \in [Nat \ {0} -> SUBSET Bits] /\ \A w \in Nat \ {0} : w > len => f[w] = {}
    BY <1>5, <1>6
  <2>4. S \subseteq Nat
    BY <1>1
  <2>5. ASSUME NEW n \in Nat
        PROVE  n \in S <=> BitOf(n) \in f[WordOf(n)]
    <3> DEFINE w == WordOf(n)
    <3>1. w \in Nat \ {0}
      BY <1>7
    <3> HIDE DEF w
    <3>2. f[w] = Operand(s1, w) \cup (Operand(s2, w) \ Operand(s3, w))
      BY <3>1
    <3> QED BY <1>7, <3>2 DEF w
  <2> HIDE DEF f, r, S
  <2>6. Stores(bms[x], len, f, r, S)
    BY <1>1, <1>3, <2>1, <2>3, <2>4, <2>5 DEF Stores
  <2> QED BY <2>2, <2>6, CombineKeeps
<1>12. words[y] = s1.els /\ words[z] = s2.els /\ words[u] = s3.els
  BY StateFacts
<1> HIDE DEF s1, s2, s3
<1> QED BY <1>8, <1>9, <1>10, <1>12 DEF Combine3

(* Every call keeps the invariant and tells of a change. *)
LEMMA BitNextInv ==
    ASSUME BitIInv, [BitNext]_bitVars PROVE BitIInv' /\ [ToldRight]_bitVars
<1>1. CASE UNCHANGED bitVars
  BY <1>1 DEF bitVars, BitIInv
<1>2. ASSUME NEW x \in Names, NEW n \in Numbers, SetBit(x, n)
      PROVE  BitIInv' /\ ToldRight
  <2> DEFINE S == memory[x] \cup {n}
             room == Words(n + 1)
             w == Larger(words[x], room)
  <2>1. /\ n \in Nat /\ BitsetOK(bms[x]) /\ Memory(bms[x]) = memory[x] /\ bms[x].els = words[x]
        /\ memory[x] \subseteq Nat /\ words[x] \in Nat
    BY StateFacts, MaxBitsAssumption DEF Numbers
  <2>2. Effect(bms[x], SetBitP(bms[x], n), S, w)
    BY <2>1, SetBitRight
  <2>3. S \subseteq Nat
    BY <2>1
  <2>4. room \in Nat
    BY <2>1, WordsFor
  <2>5. Call(x, SetBitP(bms[x], n), S, w)
    BY <1>2 DEF SetBit
  <2> HIDE DEF room, S
  <2>6. w \in Nat
    BY <2>1, <2>4, LargerRight
  <2> QED BY <2>2, <2>3, <2>5, <2>6, EffectKeeps
<1>3. ASSUME NEW x \in Names, NEW n \in Numbers, ClearBit(x, n)
      PROVE  BitIInv' /\ ToldRight
  <2> DEFINE S == memory[x] \ ({n} \cap Val(x))
  <2>1. /\ n \in Nat /\ BitsetOK(bms[x]) /\ Memory(bms[x]) = memory[x] /\ bms[x].els = words[x]
        /\ memory[x] \subseteq Nat /\ words[x] \in Nat /\ Content(bms[x]) = Val(x)
    BY StateFacts, MaxBitsAssumption DEF Numbers
  <2>2. Effect(bms[x], ClearBitP(bms[x], n), S, words[x])
    BY <2>1, ClearBitRight
  <2>3. S \subseteq Nat
    BY <2>1
  <2>4. Call(x, ClearBitP(bms[x], n), S, words[x])
    BY <1>3 DEF ClearBit
  <2> HIDE DEF S
  <2> QED BY <2>1, <2>2, <2>3, <2>4, EffectKeeps
<1>4. ASSUME NEW x \in Names, NEW n \in Numbers, NEW len \in 0..MaxBits, SetRange(x, n, len)
      PROVE  BitIInv' /\ ToldRight
  <2> DEFINE S == memory[x] \cup (n..(n + len - 1))
             room == Words(n + len)
             w == Larger(words[x], room)
             r == SetOrClearRangeP(bms[x], n, len, TRUE)
  <2>1. /\ n \in Nat /\ len \in Nat /\ n + len \in Nat /\ BitsetOK(bms[x])
        /\ Memory(bms[x]) = memory[x] /\ bms[x].els = words[x]
        /\ memory[x] \subseteq Nat /\ words[x] \in Nat
    BY StateFacts, MaxBitsAssumption DEF Numbers
  <2>2. S \subseteq Nat
    BY <2>1
  <2>3. S = IF TRUE THEN Memory(bms[x]) \cup (n..(n + len - 1))
            ELSE Memory(bms[x]) \ (n..(n + len - 1))
    BY <2>1
  <2>4. Call(x, r, S, w)
    BY <1>4 DEF SetRange
  <2>5. room \in Nat
    BY <2>1, WordsFor
  <2> HIDE DEF S
  <2>6. Effect(bms[x], r, S, w)
    BY <2>1, <2>3, RangeRight
  <2> HIDE DEF r, room
  <2>7. w \in Nat
    BY <2>1, <2>5, LargerRight
  <2> QED BY <2>2, <2>4, <2>6, <2>7, EffectKeeps
<1>5. ASSUME NEW x \in Names, NEW n \in Numbers, NEW len \in 0..MaxBits, ClearRange(x, n, len)
      PROVE  BitIInv' /\ ToldRight
  <2> DEFINE S == memory[x] \ (n..(n + len - 1))
             room == Words(n + len)
             w == Larger(words[x], room)
             r == SetOrClearRangeP(bms[x], n, len, FALSE)
  <2>1. /\ n \in Nat /\ len \in Nat /\ n + len \in Nat /\ BitsetOK(bms[x])
        /\ Memory(bms[x]) = memory[x] /\ bms[x].els = words[x]
        /\ memory[x] \subseteq Nat /\ words[x] \in Nat
    BY StateFacts, MaxBitsAssumption DEF Numbers
  <2>2. S \subseteq Nat
    BY <2>1
  <2>3. S = IF FALSE THEN Memory(bms[x]) \cup (n..(n + len - 1))
            ELSE Memory(bms[x]) \ (n..(n + len - 1))
    BY <2>1
  <2>4. Call(x, r, S, w)
    BY <1>5 DEF ClearRange
  <2>5. room \in Nat
    BY <2>1, WordsFor
  <2> HIDE DEF S
  <2>6. Effect(bms[x], r, S, w)
    BY <2>1, <2>3, RangeRight
  <2> HIDE DEF r, room
  <2>7. w \in Nat
    BY <2>1, <2>5, LargerRight
  <2> QED BY <2>2, <2>4, <2>6, <2>7, EffectKeeps
<1>6. ASSUME NEW x \in Names, ClearAll(x)
      PROVE  BitIInv' /\ ToldRight
  <2>1. 0 \in Nat /\ BitsetOK(bms[x]) /\ Memory(bms[x]) = memory[x] /\ memory[x] \subseteq Nat
    BY StateFacts
  <2>2. BitsetOK(Clear(bms[x])) /\ Clear(bms[x]).els = 0 /\ Memory(Clear(bms[x])) = memory[x]
    BY <2>1, ClearRight
  <2> QED BY <1>6, <2>1, <2>2, VoidKeeps DEF ClearAll
<1>7. ASSUME NEW x \in Names, NEW y \in Names, CopyTo(x, y)
      PROVE  BitIInv' /\ ToldRight
  <2> DEFINE S == Beyond(memory[x], words[y]) \cup Val(y)
             c == Copy(bms[x], bms[y])
  <2>1. /\ BitsetOK(bms[x]) /\ Memory(bms[x]) = memory[x] /\ memory[x] \subseteq Nat
        /\ BitsetOK(bms[y]) /\ bms[y].els = words[y] /\ words[y] \in Nat
        /\ Content(bms[y]) = Val(y) /\ Val(y) \subseteq Nat
    BY StateFacts
  <2>2. BitsetOK(c) /\ c.els = words[y] /\ Memory(c) = S
    BY <2>1, CopyRight
  <2>3. S \subseteq Nat
    BY <2>1 DEF Beyond
  <2>4. CallVoid(x, c, S, words[y])
    BY <1>7 DEF CopyTo
  <2> HIDE DEF S, c
  <2> QED BY <2>1, <2>2, <2>3, <2>4, VoidKeeps
<1>8. CASE BitNext
  BY <1>2, <1>3, <1>4, <1>5, <1>6, <1>7, <1>8, CombineStep, Combine3Step DEF BitNext
<1> QED BY <1>1, <1>8

LEMMA InvAlways == BitSpec => []BitIInv
<1>1. BitIInv /\ [BitNext]_bitVars => BitIInv'
  BY BitNextInv
<1> QED BY <1>1, BitInitInv, PTL DEF BitSpec

LEMMA NumbersFollow == BitIInv => NumbersRight
BY StateFacts DEF NumbersRight

LEMMA QueriesFollow == BitIInv => QueriesRight
<1> SUFFICES ASSUME BitIInv PROVE QueriesRight
  OBVIOUS
<1>1. ASSUME NEW x \in Names, NEW y \in Names
      PROVE  /\ EqualP(bms[x], bms[y]) <=> Val(x) = Val(y)
             /\ IntersectP(bms[x], bms[y]) <=> Val(x) \cap Val(y) # {}
             /\ EmptyP(bms[x]) <=> Val(x) = {}
             /\ \A n \in Numbers : BitP(bms[x], n) <=> n \in Val(x)
  <2>1. /\ BitsetOK(bms[x]) /\ Content(bms[x]) = Val(x)
        /\ BitsetOK(bms[y]) /\ Content(bms[y]) = Val(y)
    BY StateFacts
  <2>2. EqualP(bms[x], bms[y]) <=> Val(x) = Val(y)
    BY <2>1, EqualRight
  <2>3. IntersectP(bms[x], bms[y]) <=> Val(x) \cap Val(y) # {}
    BY <2>1, IntersectRight
  <2>4. EmptyP(bms[x]) <=> Val(x) = {}
    BY <2>1, EmptyRight
  <2>5. ASSUME NEW n \in Numbers PROVE BitP(bms[x], n) <=> n \in Val(x)
    <3>1. n \in Nat
      BY MaxBitsAssumption DEF Numbers
    <3> QED BY <2>1, <3>1, BitIn
  <2> QED BY <2>2, <2>3, <2>4, <2>5
<1> QED BY <1>1 DEF QueriesRight

(* Whatever was called before, in whatever order and with operands of what *)
(* lengths, a bit set holds what its memory should hold before its end:    *)
(* every number put there and not taken out, those among them that an      *)
(* earlier call left behind the end and that came back as the set grew.    *)
(* raviX_bitset_equal_p(), raviX_bitset_intersect_p(),                     *)
(* raviX_bitset_empty_p() and raviX_bitset_bit_p() answer as these sets    *)
(* would.                                                                  *)
THEOREM ContentsKept == BitSpec => []ContentRight
<1>1. BitIInv => ContentRight
  BY NumbersFollow, QueriesFollow DEF ContentRight
<1> QED BY <1>1, InvAlways, PTL

(* A function that reports whether it changed its set reports whether it   *)
(* changed a bit of the memory: of the words an operation cuts off, or of  *)
(* bits that come back as the set grows, it says nothing.                  *)
THEOREM ChangesTold == BitSpec => ReturnsChange
<1>1. BitIInv /\ [BitNext]_bitVars => [ToldRight]_bitVars
  BY BitNextInv
<1> QED BY <1>1, InvAlways, PTL DEF BitSpec, ReturnsChange, ToldRight
=============================================================================
