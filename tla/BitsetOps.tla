----------------------------- MODULE BitsetOps ------------------------------
(***************************************************************************)
(* The bit sets of src/bitset.c.  A word is the set of its bits that are   *)
(* on.  varr is the memory of the set, zeroed when it is allocated; only   *)
(* its first els words are in use, and what lies behind them is kept.      *)
(***************************************************************************)
EXTENDS Integers, Sequences, FiniteSets

CONSTANT WordBits \* BITMAP_WORD_BITS

ASSUME WordBitsAssumption == WordBits \in Nat \ {0}

Words(nbits) == (nbits + WordBits - 1) \div WordBits
Zeros(n) == [w \in 1..n |-> {}]
Larger(m, n) == IF m < n THEN n ELSE m

(* Word number w and the bit in it that bit number n is. *)
WordOf(n) == n \div WordBits + 1
BitOf(n) == n % WordBits

Create(nbits) == [els |-> 0, varr |-> Zeros(Words(nbits))]

(* Only memory that was not there before is zero. *)
Expand(bm, nbits) ==
    IF Words(nbits) <= bm.els THEN bm
    ELSE [els |-> Words(nbits),
          varr |-> bm.varr \o Zeros(Larger(0, Words(nbits) - Len(bm.varr)))]

Clear(bm) == [bm EXCEPT !.els = 0]

(* An operation returns the set and what the function returns. *)
Result(bm, value) == [bm |-> bm, value |-> value]

BitP(bm, n) == n < WordBits * bm.els /\ BitOf(n) \in bm.varr[WordOf(n)]

(* Mutant: looks at the bit after setting it. *)
SetBitPLate(bm, n) ==
    LET b == Expand(bm, n + 1)
    IN  Result([b EXCEPT !.varr[WordOf(n)] = @ \cup {BitOf(n)}], FALSE)

SetBitP(bm, n) ==
    LET b == Expand(bm, n + 1)
    IN  Result([b EXCEPT !.varr[WordOf(n)] = @ \cup {BitOf(n)}],
               BitOf(n) \notin b.varr[WordOf(n)])

ClearBitP(bm, n) ==
    IF n >= WordBits * bm.els THEN Result(bm, FALSE)
    ELSE Result([bm EXCEPT !.varr[WordOf(n)] = @ \ {BitOf(n)}],
                BitOf(n) \in bm.varr[WordOf(n)])

(* Mutant: the last word is not cut off at the end of the range. *)
MaskWhole(n, len) == BitOf(n)..(WordBits - 1)

(* The bits of the first word of a range that belong to the range. *)
Mask(n, len) ==
    LET rsh == IF len >= WordBits - BitOf(n) THEN 0 ELSE WordBits - ((n + len) % WordBits)
    IN  BitOf(n)..(WordBits - 1 - rsh)

(* Sets or clears bits n .. n + len - 1, a word at a time: after[k] is the *)
(* state of the loop after k words.                                        *)
SetOrClearRangeP(bm, n, len, set_p) ==
    LET after[k \in 0..len] ==
            IF k = 0 THEN [bm |-> Expand(bm, n + len), value |-> FALSE, n |-> n, len |-> len]
            ELSE LET s == after[k - 1]
                     mask == Mask(s.n, s.len)
                     old == s.bm.varr[WordOf(s.n)]
                     new == IF set_p THEN old \cup mask ELSE old \ mask
                 IN  IF s.len = 0 THEN s
                     ELSE [bm |-> [s.bm EXCEPT !.varr[WordOf(s.n)] = new],
                           value |-> (s.value \/ new # old),
                           n |-> s.n + Cardinality(mask),
                           len |-> s.len - Cardinality(mask)]
    IN  Result(after[len].bm, after[len].value)

Copy(dst, src) ==
    LET d == IF dst.els >= src.els THEN [dst EXCEPT !.els = src.els]
             ELSE Expand(dst, src.els * WordBits)
    IN  [d EXCEPT !.varr = [w \in DOMAIN @ |-> IF w <= src.els THEN src.varr[w] ELSE @[w]]]

(* A word of an operand; operands are taken to be zero behind their end. *)
Operand(bm, w) == IF w > bm.els THEN {} ELSE bm.varr[w]

(* The words the operands have are computed into dst, which ends at the    *)
(* last of them that is not zero.                                          *)
StoreWords(dst, len, Word(_)) ==
    LET d == Expand(dst, len * WordBits)
        nonzero == {w \in 1..len : Word(w) # {}}
    IN  Result([els |-> IF nonzero = {} THEN 0 ELSE CHOOSE w \in nonzero : \A v \in nonzero : v <= w,
                varr |-> [w \in DOMAIN d.varr |-> IF w <= len THEN Word(w) ELSE d.varr[w]]],
               \E w \in 1..len : Word(w) # d.varr[w])

Op2(dst, src1, src2, Op(_, _)) ==
    LET Word(w) == Op(Operand(src1, w), Operand(src2, w))
    IN  StoreWords(dst, Larger(src1.els, src2.els), Word)

Op3(dst, src1, src2, src3, Op(_, _, _)) ==
    LET Word(w) == Op(Operand(src1, w), Operand(src2, w), Operand(src3, w))
    IN  StoreWords(dst, Larger(Larger(src1.els, src2.els), src3.els), Word)

Intersect(w1, w2) == w1 \cap w2
AndCompl(w1, w2) == w1 \ w2
Ior(w1, w2) == w1 \cup w2
IorAnd(w1, w2, w3) == w1 \cup (w2 \cap w3)
IorAndCompl(w1, w2, w3) == w1 \cup (w2 \ w3)

(* Mutant: only the words both have are compared. *)
EqualPShort(bm1, bm2) ==
    \A w \in 1..(bm1.els + bm2.els - Larger(bm1.els, bm2.els)) : bm1.varr[w] = bm2.varr[w]

EqualP(bm1, bm2) ==
    LET short == IF bm1.els > bm2.els THEN bm2 ELSE bm1
        long == IF bm1.els > bm2.els THEN bm1 ELSE bm2
    IN  /\ \A w \in 1..short.els : short.varr[w] = long.varr[w]
        /\ \A w \in (short.els + 1)..long.els : long.varr[w] = {}

IntersectP(bm1, bm2) ==
    \E w \in 1..(bm1.els + bm2.els - Larger(bm1.els, bm2.els)) :
        bm1.varr[w] \cap bm2.varr[w] # {}

EmptyP(bm) == \A w \in 1..bm.els : bm.varr[w] = {}

(* Bit numbers as the iterator returns them: the set the words stand for. *)
Content(bm) ==
    UNION {{(w - 1) * WordBits + k : k \in bm.varr[w]} : w \in 1..bm.els}
=============================================================================
