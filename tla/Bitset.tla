------------------------------- MODULE Bitset -------------------------------
(***************************************************************************)
(* Bit sets used in any order of calls, beside what they stand for: the    *)
(* numbers whose bits are on in the memory of the set, and how many words  *)
(* of it are in use.  Shrinking a bit set leaves its bits in memory, and   *)
(* they come back when it grows again.  Every call is described by sets of *)
(* numbers, whatever words they lie in.                                    *)
(***************************************************************************)
EXTENDS BitsetOps

CONSTANTS
    Names,  \* the bit sets of the program
    MaxBits \* bound on the bit numbers

ASSUME MaxBitsAssumption == MaxBits \in Nat

Numbers == 0..(MaxBits - 1)

VARIABLES
    bms,    \* the bit sets
    memory, \* the numbers in the memory of each, behind its end as well
    words,  \* the words of it in use
    answer  \* what the last call told of a change

bitVars == <<bms, memory, words, answer>>

(* The part of a set that lies in its first w words, and the rest.         *)
Within(S, w) == {n \in S : n < w * WordBits}
Beyond(S, w) == {n \in S : n >= w * WordBits}

(* What a bit set stands for. *)
Val(x) == Within(memory[x], words[x])

(* The number of the last word that holds a number of S, 0 without one.    *)
LastWord(S) ==
    LET used == {WordOf(n) : n \in S}
    IN  IF used = {} THEN 0 ELSE CHOOSE w \in used : \A v \in used : v <= w

Told(value) == IF value THEN "changed" ELSE "unchanged"

BitInit ==
    /\ bms = [x \in Names |-> Create(0)]
    /\ memory = [x \in Names |-> {}]
    /\ words = [x \in Names |-> 0]
    /\ answer = "nothing"

(* A call leaves bm in x, whose memory should now hold S in w words.       *)
Leave(x, bm, S, w) ==
    /\ bms' = [bms EXCEPT ![x] = bm]
    /\ memory' = [memory EXCEPT ![x] = S]
    /\ words' = [words EXCEPT ![x] = w]

(* Some functions return nothing, others whether they changed something.   *)
CallVoid(x, bm, S, w) == Leave(x, bm, S, w) /\ answer' = "nothing"
Call(x, r, S, w) == Leave(x, r.bm, S, w) /\ answer' = Told(r.value)

SetBit(x, n) ==
    Call(x, SetBitP(bms[x], n), memory[x] \cup {n}, Larger(words[x], Words(n + 1)))

(* A number behind the end is not looked for. *)
ClearBit(x, n) ==
    Call(x, ClearBitP(bms[x], n), memory[x] \ ({n} \cap Val(x)), words[x])

(* Clearing a range makes room for it as well. *)
SetRange(x, n, len) ==
    /\ n + len <= MaxBits
    /\ Call(x, SetOrClearRangeP(bms[x], n, len, TRUE),
            memory[x] \cup (n..(n + len - 1)), Larger(words[x], Words(n + len)))

ClearRange(x, n, len) ==
    /\ n + len <= MaxBits
    /\ Call(x, SetOrClearRangeP(bms[x], n, len, FALSE),
            memory[x] \ (n..(n + len - 1)), Larger(words[x], Words(n + len)))

ClearAll(x) == CallVoid(x, Clear(bms[x]), memory[x], 0)

CopyTo(x, y) ==
    CallVoid(x, Copy(bms[x], bms[y]), Beyond(memory[x], words[y]) \cup Val(y), words[y])

(* Operands of at most w words in use are combined to S: the first w words *)
(* of the destination are stored and compared, and those behind them kept. *)
CallCombine(x, w, r, S) ==
    Call(x, r, Beyond(memory[x], w) \cup S, LastWord(S))

(* The destination may be an operand as well, as in live_join_func(). *)
Combine(x, y, z) ==
    LET w == Larger(words[y], words[z])
    IN  \/ CallCombine(x, w, Op2(bms[x], bms[y], bms[z], Intersect), Val(y) \cap Val(z))
        \/ CallCombine(x, w, Op2(bms[x], bms[y], bms[z], AndCompl), Val(y) \ Val(z))
        \/ CallCombine(x, w, Op2(bms[x], bms[y], bms[z], Ior), Val(y) \cup Val(z))

Combine3(x, y, z, u) ==
    LET w == Larger(Larger(words[y], words[z]), words[u])
    IN  \/ CallCombine(x, w, Op3(bms[x], bms[y], bms[z], bms[u], IorAnd),
                       Val(y) \cup (Val(z) \cap Val(u)))
        \/ CallCombine(x, w, Op3(bms[x], bms[y], bms[z], bms[u], IorAndCompl),
                       Val(y) \cup (Val(z) \ Val(u)))

BitNext ==
    \E x \in Names :
        \/ \E n \in Numbers :
              \/ SetBit(x, n) \/ ClearBit(x, n)
              \/ \E len \in 0..MaxBits : SetRange(x, n, len) \/ ClearRange(x, n, len)
        \/ ClearAll(x)
        \/ \E y \in Names :
              \/ CopyTo(x, y)
              \/ \E z \in Names :
                    \/ Combine(x, y, z)
                    \/ \E u \in Names : Combine3(x, y, z, u)

BitSpec == BitInit /\ [][BitNext]_bitVars

-----------------------------------------------------------------------------
(* Properties *)

(* A bit set is the numbers it should hold, also when bits left behind by   *)
(* an earlier call come back as it grows; and the functions that ask about *)
(* bit sets answer as sets would, whatever the lengths of the bit sets.    *)
NumbersRight == \A x \in Names : Content(bms[x]) = Val(x)

QueriesRight ==
    \A x, y \in Names :
        /\ EqualP(bms[x], bms[y]) <=> Val(x) = Val(y)
        /\ IntersectP(bms[x], bms[y]) <=> Val(x) \cap Val(y) # {}
        /\ EmptyP(bms[x]) <=> Val(x) = {}
        /\ \A n \in Numbers : BitP(bms[x], n) <=> n \in Val(x)

ContentRight == NumbersRight /\ QueriesRight

(* What a function reports is whether it changed a bit in memory, no more  *)
(* and no less: neither a word that an operation cuts off without a look   *)
(* at it, nor a bit that comes back from behind the end, is a change.      *)
(* That is less than bitset.h promises, see TellsChange: where the set     *)
(* changes without a report, its end has moved and nothing else.           *)
ReturnsChange ==
    [][answer' # "nothing" => (answer' = "changed" <=> memory' # memory)]_bitVars

(* bitset.h:61 "Sets a bit ON and returns true if previously bit was not   *)
(* set", bitset.h:98 and bitset.h:105 "Return true if DST changed."         *)
TellsChange ==
    [][\A x \in Names :
        \/ \E n \in Numbers : SetBit(x, n)
        \/ \E y, z, u \in Names : Combine3(x, y, z, u)
        => (answer' = "changed" <=> Val(x)' # Val(x))]_bitVars
=============================================================================
