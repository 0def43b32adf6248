----------------------------- MODULE LuaNumbers -----------------------------
(* The numbers of Lua 5.3 and what its run-time library (luaO_arith(),        *)
(* luaV_equalobj(), luaV_lessthan(), luaV_lessequal(), the conversions of     *)
(* lvm.c) does with them.  The library is not part of the compiler; the code  *)
(* the compiler generates calls it.                                           *)
(*                                                                            *)
(* Integers have W bits and wrap around.  Floats are exact fractions n / d;   *)
(* with d = 0 they are the infinities and NaN.  They are not rounded, and     *)
(* there is one zero.                                                         *)
EXTENDS Integers, FiniteSetsExt

CONSTANT W   \* the width of lua_Integer

ASSUME WidthAssumption == W \in Nat /\ W > 1

Wrap(i) == ((i + 2 ^ (W - 1)) % 2 ^ W) - 2 ^ (W - 1)
Unsigned(i) == i % 2 ^ W
InRange(i) == i \in -(2 ^ (W - 1)) .. 2 ^ (W - 1) - 1

Sign(i) == IF i > 0 THEN 1 ELSE IF i < 0 THEN -1 ELSE 0
Abs(i) == IF i < 0 THEN -i ELSE i

Gcd[m \in Nat, n \in Nat] == IF n = 0 THEN m ELSE Gcd[n, m % n]

Fraction(n, d) ==
    IF d = 0 THEN [tag |-> "flt", n |-> Sign(n), d |-> 0]
    ELSE LET g == Gcd[Abs(n), Abs(d)]
         IN  [tag |-> "flt", n |-> Sign(d) * Sign(n) * (Abs(n) \div g), d |-> Abs(d) \div g]

Ival(i) == [tag |-> "int", n |-> Wrap(i), d |-> 1]
Fval(n) == Fraction(n, 1)
Bval(b) == [tag |-> "bool", n |-> IF b THEN 1 ELSE 0, d |-> 1]
Error == [tag |-> "error", n |-> 0, d |-> 1]
NaN == Fraction(0, 0)

IsNumber(v) == v.tag \in {"int", "flt"}
IsTrue(v)   == v # Bval(FALSE)
ToFlt(v)    == [v EXCEPT !.tag = "flt"]

(* lua_numbertointeger(): only what is whole and in range is an integer.      *)
HasInteger(v) == IsNumber(v) /\ v.d = 1 /\ InRange(v.n)

-----------------------------------------------------------------------------
(* Floats. *)
Plus(a, b) ==
    IF a.d = 0 /\ b.d = 0 THEN IF a = b THEN a ELSE NaN
    ELSE Fraction(a.n * b.d + b.n * a.d, a.d * b.d)

Negated(a)  == [a EXCEPT !.n = -@]
Times(a, b) == Fraction(a.n * b.n, a.d * b.d)

(* The inverse of zero is infinite, that of an infinity is zero.              *)
Reciprocal(a) == IF a.n = 0 THEN Fraction(a.d, 0) ELSE Fraction(Sign(a.n) * a.d, Abs(a.n))
Over(a, b)  == Times(a, Reciprocal(b))

Floor(a) == IF a.d = 0 THEN a ELSE Fval(a.n \div a.d)

(* luai_nummod(): fmod(), and b once more where the signs differ.             *)
Modulo(a, b) ==
    IF b.n = 0 \/ a.d = 0 THEN NaN
    ELSE IF b.d = 0 THEN IF a.n * b.n < 0 THEN b ELSE a
    ELSE Plus(a, Negated(Times(Floor(Over(a, b)), b)))

(* Powers with a whole exponent; others are not rational. *)
Power(a, b) ==
    CASE b.n = 0 -> Fval(1)
      [] b.n < 0 -> Reciprocal(Fraction(a.n ^ (-b.n), a.d ^ (-b.n)))
      [] OTHER   -> Fraction(a.n ^ b.n, a.d ^ b.n)

FltArith(op, a, b) ==
    CASE op = "add"  -> Plus(a, b)
      [] op = "sub"  -> Plus(a, Negated(b))
      [] op = "mul"  -> Times(a, b)
      [] op = "div"  -> Over(a, b)
      [] op = "idiv" -> Floor(Over(a, b))
      [] op = "mod"  -> Modulo(a, b)
      [] op = "pow"  -> Power(a, b)

-----------------------------------------------------------------------------
(* Integers.  Division rounds down, and the shift to the right is logical.    *)
FloorDiv(i, j) == IF j > 0 THEN i \div j ELSE (-i) \div (-j)

(* The bits of an integer that are set, and the integer they are set in.      *)
Bits(i) == {k \in 0 .. W - 1 : (Unsigned(i) \div 2 ^ k) % 2 = 1}
OfBits(bits) == Ival(MapThenSumSet(LAMBDA k : 2 ^ k, bits))

luaV_shiftl(i, k) ==
    IF Abs(k) >= W THEN 0 ELSE IF k >= 0 THEN i * 2 ^ k ELSE Unsigned(i) \div 2 ^ (-k)

IntArith(op, i, j) ==
    IF op \in {"idiv", "mod"} /\ j = 0 THEN Error ELSE
    CASE op = "add"  -> Ival(i + j)
      [] op = "sub"  -> Ival(i - j)
      [] op = "mul"  -> Ival(i * j)
      [] op = "idiv" -> Ival(FloorDiv(i, j))
      [] op = "mod"  -> Ival(i - FloorDiv(i, j) * j)
      [] op = "band" -> OfBits(Bits(i) \cap Bits(j))
      [] op = "bor"  -> OfBits(Bits(i) \cup Bits(j))
      [] op = "bxor" -> OfBits(SymDiff(Bits(i), Bits(j)))
      [] op = "shl"  -> Ival(luaV_shiftl(i, j))
      [] op = "shr"  -> Ival(luaV_shiftl(i, Wrap(-j)))

-----------------------------------------------------------------------------
(* Operators on any two values. *)
BitOperators  == {"band", "bor", "bxor", "shl", "shr"}
Comparisons   == {"eq", "ne", "lt", "le", "gt", "ge"}
Arithmetics   == {"add", "sub", "mul", "div", "idiv", "mod", "pow"} \cup BitOperators

luaO_arith(op, a, b) ==
    IF ~(IsNumber(a) /\ IsNumber(b)) THEN Error
    ELSE IF op \in BitOperators
    THEN IF HasInteger(a) /\ HasInteger(b) THEN IntArith(op, a.n, b.n) ELSE Error
    ELSE IF op \notin {"div", "pow"} /\ a.tag = "int" /\ b.tag = "int" THEN IntArith(op, a.n, b.n)
    ELSE FltArith(op, ToFlt(a), ToFlt(b))

IsNaN(a) == a.n = 0 /\ a.d = 0

(* Numbers compare by what they are, whatever their types.                    *)
Equal(a, b) ==
    IF IsNumber(a) /\ IsNumber(b) THEN ~IsNaN(a) /\ a.n = b.n /\ a.d = b.d ELSE a = b

Less(a, b) ==
    /\ ~IsNaN(a) /\ ~IsNaN(b)
    /\ IF a.d = 0 /\ b.d = 0 THEN a.n < b.n ELSE a.n * b.d < b.n * a.d

Compared(op, a, b) ==
    IF op \notin {"eq", "ne"} /\ ~(IsNumber(a) /\ IsNumber(b)) THEN Error ELSE
    CASE op = "eq" -> Bval(Equal(a, b))
      [] op = "ne" -> Bval(~Equal(a, b))
      [] op = "lt" -> Bval(Less(a, b))
      [] op = "le" -> Bval(Less(a, b) \/ Equal(a, b))
      [] op = "gt" -> Bval(Less(b, a))
      [] op = "ge" -> Bval(Less(b, a) \/ Equal(b, a))

Minus(a) ==
    CASE a.tag = "int" -> Ival(-a.n)
      [] a.tag = "flt" -> Negated(a)
      [] OTHER         -> Error

Complement(a) == IF HasInteger(a) THEN Ival(-a.n - 1) ELSE Error

(* What a variable of a type, or a cast to it, makes of a value.              *)
Converted(type, v) ==
    CASE type = "any" -> v
      [] type = "int" -> IF HasInteger(v) THEN Ival(v.n) ELSE Error
      [] type = "flt" -> IF IsNumber(v) THEN ToFlt(v) ELSE Error
=============================================================================
