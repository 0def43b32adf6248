-------------------------- MODULE ArithmeticProofs --------------------------
(* What is proved of Arithmetic: for integers of any width, for any literals  *)
(* and parameters and for expressions of any size, of which only those that   *)
(* are known not to be compiled right are left out, the types the passes go   *)
(* by are those of the values, and there is C code for every instruction.     *)
EXTENDS Arithmetic, SequenceTheorems, TLAPS

-----------------------------------------------------------------------------
(* Values: what matters of them here is their tag.                            *)
Tags == {"int", "flt", "bool"}

Tagged(v, tag) == v = [tag |-> tag, n |-> v.n, d |-> v.d]
IsValue(v)     == \E tag \in Tags : Tagged(v, tag)

(* A fraction is a float, whatever it is of.                                  *)
LEMMA FractionTagged == ASSUME NEW n, NEW d PROVE Tagged(Fraction(n, d), "flt")
<1>1. CASE d = 0
  BY <1>1 DEF Fraction, Tagged
<1>2. CASE d # 0
  BY <1>2 DEF Fraction, Tagged
<1> QED BY <1>1, <1>2

LEMMA IvalTagged == ASSUME NEW i PROVE Tagged(Ival(i), "int") /\ Ival(i).d = 1
BY DEF Ival, Tagged

LEMMA BvalTagged == ASSUME NEW b PROVE Tagged(Bval(b), "bool")
BY DEF Bval, Tagged

(* A value has one tag, and is neither an error nor aborted.                  *)
LEMMA TagOf ==
    ASSUME NEW v, NEW tag, Tagged(v, tag) PROVE v.tag = tag
BY DEF Tagged

LEMMA NoFailure ==
    ASSUME NEW v, IsValue(v) PROVE v.tag \in Tags /\ v # Error /\ v # Abort /\ Tagged(v, v.tag)
BY DEF IsValue, Tagged, Tags, Error, Abort

LEMMA ToFltTagged == ASSUME NEW v, IsValue(v) PROVE Tagged(ToFlt(v), "flt")
BY DEF IsValue, Tagged, ToFlt

LEMMA NegatedTagged ==
    ASSUME NEW a, Tagged(a, "flt") PROVE Tagged(Negated(a), "flt") /\ Negated(a).d = a.d
BY DEF Tagged, Negated

-----------------------------------------------------------------------------
(* Arithmetic of floats gives floats.                                         *)
LEMMA PlusTagged ==
    ASSUME NEW a, NEW b, Tagged(a, "flt") PROVE Tagged(Plus(a, b), "flt")
<1>1. Tagged(NaN, "flt")
  BY FractionTagged DEF NaN
<1>2. Tagged(Fraction(a.n * b.d + b.n * a.d, a.d * b.d), "flt")
  BY FractionTagged
<1> QED BY <1>1, <1>2 DEF Plus

LEMMA TimesTagged == ASSUME NEW a, NEW b PROVE Tagged(Times(a, b), "flt")
BY FractionTagged DEF Times

LEMMA OverTagged == ASSUME NEW a, NEW b PROVE Tagged(Over(a, b), "flt")
BY TimesTagged DEF Over

LEMMA ReciprocalTagged == ASSUME NEW a PROVE Tagged(Reciprocal(a), "flt")
<1>1. Tagged(Fraction(a.d, 0), "flt") /\ Tagged(Fraction(Sign(a.n) * a.d, Abs(a.n)), "flt")
  BY FractionTagged
<1> QED BY <1>1 DEF Reciprocal

LEMMA FvalTagged == ASSUME NEW n PROVE Tagged(Fval(n), "flt")
BY FractionTagged DEF Fval

LEMMA FloorTagged == ASSUME NEW a, Tagged(a, "flt") PROVE Tagged(Floor(a), "flt")
<1>1. Tagged(Fval(a.n \div a.d), "flt")
  BY FvalTagged
<1> QED BY <1>1 DEF Floor

LEMMA ModuloTagged ==
    ASSUME NEW a, NEW b, Tagged(a, "flt"), Tagged(b, "flt") PROVE Tagged(Modulo(a, b), "flt")
<1>1. Tagged(NaN, "flt")
  BY FractionTagged DEF NaN
<1>2. Tagged(Plus(a, Negated(Times(Floor(Over(a, b)), b))), "flt")
  BY PlusTagged
<1> QED BY <1>1, <1>2 DEF Modulo

LEMMA PowerTagged == ASSUME NEW a, NEW b PROVE Tagged(Power(a, b), "flt")
<1>1. Tagged(Fval(1), "flt")
  BY FvalTagged
<1>2. Tagged(Reciprocal(Fraction(a.n ^ (-b.n), a.d ^ (-b.n))), "flt")
  BY ReciprocalTagged
<1>3. Tagged(Fraction(a.n ^ b.n, a.d ^ b.n), "flt")
  BY FractionTagged
<1> QED BY <1>1, <1>2, <1>3 DEF Power

FloatOperators == {"add", "sub", "mul", "div", "idiv", "mod", "pow"}

LEMMA FltArithTagged ==
    ASSUME NEW op \in FloatOperators, NEW a, NEW b, Tagged(a, "flt"), Tagged(b, "flt")
    PROVE  Tagged(FltArith(op, a, b), "flt")
<1>1. Tagged(Plus(a, b), "flt") /\ Tagged(Plus(a, Negated(b)), "flt")
  BY PlusTagged
<1>2. Tagged(Times(a, b), "flt") /\ Tagged(Over(a, b), "flt")
  BY TimesTagged, OverTagged
<1>3. Tagged(Floor(Over(a, b)), "flt") /\ Tagged(Modulo(a, b), "flt") /\ Tagged(Power(a, b), "flt")
  BY <1>2, FloorTagged, ModuloTagged, PowerTagged
<1> QED BY <1>1, <1>2, <1>3 DEF FltArith, FloatOperators

(* That of integers gives integers, but for a division by zero.               *)
IntOperators == {"add", "sub", "mul", "idiv", "mod"} \cup BitOperators

LEMMA IntArithTagged ==
    ASSUME NEW op \in IntOperators, NEW i, NEW j
    PROVE  /\ IntArith(op, i, j) = Error \/ Tagged(IntArith(op, i, j), "int")
           /\ op \notin {"idiv", "mod"} => Tagged(IntArith(op, i, j), "int")
<1>1. /\ Tagged(Ival(i + j), "int") /\ Tagged(Ival(i - j), "int") /\ Tagged(Ival(i * j), "int")
      /\ Tagged(Ival(FloorDiv(i, j)), "int") /\ Tagged(Ival(i - FloorDiv(i, j) * j), "int")
      /\ Tagged(Ival(luaV_shiftl(i, j)), "int") /\ Tagged(Ival(luaV_shiftl(i, Wrap(-j))), "int")
  BY IvalTagged
<1>2. /\ Tagged(OfBits(Bits(i) \cap Bits(j)), "int") /\ Tagged(OfBits(Bits(i) \cup Bits(j)), "int")
      /\ Tagged(OfBits(SymDiff(Bits(i), Bits(j))), "int")
  BY IvalTagged DEF OfBits
<1> QED BY <1>1, <1>2 DEF IntArith, IntOperators, BitOperators

-----------------------------------------------------------------------------
(* What the operators of the run-time library give, by the tags.              *)
LEMMA ComparedTagged ==
    ASSUME NEW op \in Comparisons, NEW a, NEW b
    PROVE  /\ Compared(op, a, b) = Error \/ Tagged(Compared(op, a, b), "bool")
           /\ IsNumber(a) /\ IsNumber(b) => Tagged(Compared(op, a, b), "bool")
<1>1. /\ Tagged(Bval(Equal(a, b)), "bool") /\ Tagged(Bval(~Equal(a, b)), "bool")
      /\ Tagged(Bval(Less(a, b)), "bool") /\ Tagged(Bval(Less(b, a)), "bool")
      /\ Tagged(Bval(Less(a, b) \/ Equal(a, b)), "bool") /\ Tagged(Bval(Less(b, a) \/ Equal(b, a)), "bool")
  BY BvalTagged
<1> QED BY <1>1 DEF Compared, Comparisons

(* The tag of what an operator gives for two numbers.                         *)
ResultTag(op, t1, t2) ==
    IF op \in Comparisons THEN "bool"
    ELSE IF op \in BitOperators \/ (op \notin {"div", "pow"} /\ t1 = "int" /\ t2 = "int") THEN "int"
    ELSE "flt"

LEMMA ArithTagged ==
    ASSUME NEW op \in Arithmetics, NEW a, NEW b, IsValue(a), IsValue(b)
    PROVE  luaO_arith(op, a, b) = Error
           \/ (IsNumber(a) /\ IsNumber(b) /\ Tagged(luaO_arith(op, a, b), ResultTag(op, a.tag, b.tag)))
<1>1. op \in BitOperators => Tagged(IntArith(op, a.n, b.n), "int") \/ IntArith(op, a.n, b.n) = Error
  BY IntArithTagged DEF IntOperators
<1>2. op \in IntOperators => Tagged(IntArith(op, a.n, b.n), "int") \/ IntArith(op, a.n, b.n) = Error
  BY IntArithTagged
<1>3. op \in FloatOperators => Tagged(FltArith(op, ToFlt(a), ToFlt(b)), "flt")
  BY ToFltTagged, FltArithTagged
<1>4. op \in BitOperators \/ op \in FloatOperators
  BY DEF Arithmetics, FloatOperators
<1>5. op \in FloatOperators /\ op \notin {"div", "pow"} => op \in IntOperators
  BY DEF FloatOperators, IntOperators
<1>6. op \notin Comparisons
  BY DEF Arithmetics, Comparisons, BitOperators
<1>7. CASE ~(IsNumber(a) /\ IsNumber(b))
  BY <1>7 DEF luaO_arith, HasInteger, IsNumber
<1>8. CASE IsNumber(a) /\ IsNumber(b) /\ op \in BitOperators
  BY <1>1, <1>6, <1>8 DEF luaO_arith, ResultTag
<1>9. CASE IsNumber(a) /\ IsNumber(b) /\ op \notin BitOperators
  BY <1>2, <1>3, <1>4, <1>5, <1>6, <1>9 DEF luaO_arith, ResultTag
<1> QED BY <1>7, <1>8, <1>9

LEMMA RawArithTagged ==
    ASSUME NEW op \in Arithmetics, NEW a, NEW b, IsValue(a), IsValue(b)
    PROVE  luaO_rawarith(op, a, b) = Error
           \/ (IsNumber(a) /\ IsNumber(b) /\ Tagged(luaO_rawarith(op, a, b), ResultTag(op, a.tag, b.tag)))
<1>1. CASE ~(HasInteger(a) /\ HasInteger(b)) \/ op \notin {"shl", "shr"}
  BY <1>1, ArithTagged DEF luaO_rawarith
<1>2. CASE HasInteger(a) /\ HasInteger(b) /\ op \in {"shl", "shr"}
  <2>1. Tagged(Ival(FoldedShift(a.n, b.n)), "int") /\ Tagged(Ival(FoldedShift(a.n, Wrap(-b.n))), "int")
    BY IvalTagged
  <2>2. Tagged(luaO_rawarith(op, a, b), "int")
    BY <1>2, <2>1 DEF luaO_rawarith
  <2> QED BY <1>2, <2>2 DEF ResultTag, Comparisons, BitOperators, HasInteger
<1> QED BY <1>1, <1>2

LEMMA MinusTagged ==
    ASSUME NEW a, IsValue(a)
    PROVE  /\ a.tag = "bool" => Minus(a) = Error
           /\ a.tag # "bool" => Tagged(Minus(a), a.tag)
           /\ a.tag # "bool" /\ a.d # 0 => Minus(a).d # 0
<1>1. Tagged(Ival(-a.n), "int") /\ Ival(-a.n).d = 1
  BY IvalTagged
<1>2. Tagged(a, "flt") => Tagged(Negated(a), "flt") /\ Negated(a).d = a.d
  BY NegatedTagged
<1>3. a.tag \in Tags /\ Tagged(a, a.tag)
  BY NoFailure
<1> QED BY <1>1, <1>2, <1>3 DEF Minus, Tags

LEMMA ComplementTagged ==
    ASSUME NEW a
    PROVE  Complement(a) = Error \/ (Tagged(Complement(a), "int") /\ Complement(a).d = 1)
BY IvalTagged DEF Complement

LEMMA ConvertedTagged ==
    ASSUME NEW type \in Numeric, NEW v, IsValue(v)
    PROVE  Converted(type, v) = Error \/ Tagged(Converted(type, v), type)
BY IvalTagged, ToFltTagged DEF Converted, Numeric

-----------------------------------------------------------------------------
(* Where a value of some type is kept.                                        *)
TypeTags == {"any"} \cup Tags

LEMMA IntoPlace ==
    ASSUME NEW type, NEW v, type = "any" \/ type = v.tag \/ v.tag \in {"error", "abort"}
    PROVE  Into(TempOf(type), v) = v
BY DEF Into, TempOf

LEMMA TempsDiffer ==
    ASSUME NEW t \in TypeTags, NEW u \in TypeTags, TempOf(t) = TempOf(u)
    PROVE  t = u
BY DEF TempOf, TypeTags, Tags

(* What is kept of a value where only whole floats would be misread.          *)
LEMMA ToTypeTagged ==
    ASSUME NEW type \in {"any"} \cup Numeric, NEW v, IsValue(v), type = "int" => v.tag # "flt"
    PROVE  ToType(type, v) = Error \/ (IsValue(ToType(type, v)) /\ type \in {"any", ToType(type, v).tag})
<1>1. v.tag \in Tags /\ Tagged(v, v.tag)
  BY NoFailure
<1>2. CASE type = "any"
  BY <1>2 DEF ToType
<1>3. CASE type = "flt"
  <2>1. Converted("flt", v) = Error \/ Tagged(Converted("flt", v), "flt")
    BY ConvertedTagged DEF Numeric
  <2> QED BY <1>3, <2>1, TagOf DEF ToType, IsValue, Tags
<1>4. CASE type = "int"
  <2>1. HasInteger(v) => v.tag = "int"
    BY <1>4 DEF HasInteger, IsNumber
  <2>2. v.tag = "int" => Into("temp_int", v) = v
    BY IntoPlace DEF TempOf
  <2> QED BY <1>4, <2>1, <2>2 DEF ToType
<1> QED BY <1>2, <1>3, <1>4 DEF Numeric

-----------------------------------------------------------------------------
(* The invariant of an expression: its type, unless nothing is known of it,   *)
(* is that of its value and decides where it is kept, and only values that    *)
(* can be printed are constants.                                              *)
Known(e) ==
    /\ e = Expression(e.node, e.checked, e.place, e.value)
    /\ e.node \in {"literal", "folded", "other"}
    /\ IsValue(e.value)
    /\ e.checked \in {"any", e.value.tag}
    /\ e.node = "folded" => e.value.tag \in Numeric
    /\ e.place \in {"constant", "symbol", TempOf(Type(e))}
    /\ IsLiteral(e) => e.place = "constant"
    /\ e.place = "constant" => e.value.d # 0 /\ Type(e) = e.value.tag

(* What an operation makes is such an expression, unless it raises an error.  *)
Sound(e) == e.value = Error \/ Known(e)

LEMMA KnownType ==
    ASSUME NEW e, Known(e)
    PROVE  /\ Type(e) \in {"any", e.value.tag} /\ e.checked \in {"any", Type(e)}
           /\ e.value.tag \in Tags /\ Tagged(e.value, e.value.tag)
           /\ e.value # Error /\ e.value # Abort
           /\ ~Unprintable(e)
<1>1. e.value.tag \in Tags /\ e.value # Error /\ e.value # Abort /\ Tagged(e.value, e.value.tag)
  BY NoFailure DEF Known
<1> QED BY <1>1 DEF Known, Type, Unprintable

LEMMA OtherKnown ==
    ASSUME NEW type, NEW v, IsValue(v), type \in {"any", v.tag},
           NEW place \in {"symbol", TempOf(type)}
    PROVE  Known(Expression("other", type, place, v))
<1> DEFINE e == Expression("other", type, place, v)
<1>1. e.node = "other" /\ e.checked = type /\ e.place = place /\ e.value = v
  BY DEF Expression
<1>2. Type(e) = type
  BY <1>1 DEF Type
<1>3. place # "constant"
  BY DEF TempOf
<1> QED BY <1>1, <1>2, <1>3 DEF Known, IsLiteral, Expression

LEMMA OtherSound ==
    ASSUME NEW type, NEW v, v = Error \/ (IsValue(v) /\ type \in {"any", v.tag}),
           NEW place \in {"symbol", TempOf(type)}
    PROVE  Sound(Expression("other", type, place, v))
<1>1. CASE v = Error
  BY <1>1 DEF Sound, Expression
<1>2. CASE IsValue(v) /\ type \in {"any", v.tag}
  BY <1>2, OtherKnown DEF Sound
<1> QED BY <1>1, <1>2

LEMMA FoldedKnown ==
    ASSUME NEW checked, NEW v, NEW tag \in Numeric, Tagged(v, tag), checked \in {"any", tag}, v.d # 0
    PROVE  Known(Folded(checked, v))
<1> DEFINE e == Folded(checked, v)
<1>1. e.node = "folded" /\ e.checked = checked /\ e.place = "constant" /\ e.value = v
  BY DEF Folded, Expression
<1>2. v.tag = tag /\ IsValue(v)
  BY TagOf DEF IsValue, Tags, Numeric
<1> QED BY <1>1, <1>2 DEF Known, IsLiteral, Type, Expression, Folded

LEMMA LiteralKnown ==
    ASSUME NEW v \in Literals, "fold_inf" \in LeftOut
    PROVE  Known(Expression("literal", v.tag, "constant", v))
<1>1. IsValue(v) /\ v.d # 0
  BY ValuesAssumption DEF Literals, IsValue, Tagged, Tags
<1> QED BY <1>1 DEF Known, Expression, IsLiteral, Type

-----------------------------------------------------------------------------
(* Binary operators.                                                          *)
BinaryOperators == Arithmetics \cup Comparisons

LEMMA BinaryTypeRight ==
    ASSUME NEW op \in BinaryOperators, NEW t1 \in TypeTags, NEW t2 \in TypeTags
    PROVE  \/ BinaryType(op, t1, t2) = "any"
           \/ op \in Comparisons /\ BinaryType(op, t1, t2) = "bool"
           \/ /\ t1 \in Numeric /\ t2 \in Numeric
              /\ BinaryType(op, t1, t2) = ResultTag(op, t1, t2)
<1>1. CASE op \in Comparisons
  <2>1. op \notin Arithmetics
    BY <1>1 DEF Arithmetics, Comparisons, BitOperators
  <2> QED BY <1>1, <2>1 DEF BinaryType, Arithmetics, BitOperators
<1>2. CASE op \in BitOperators
  <2>1. op \notin Comparisons /\ op \notin {"add", "sub", "mul", "div", "idiv", "mod", "pow"}
    BY <1>2 DEF Comparisons, BitOperators
  <2> QED BY <1>2, <2>1 DEF BinaryType, ResultTag, Numeric
<1>3. CASE op \in FloatOperators
  <2>1. op \notin Comparisons /\ op \notin BitOperators
    BY <1>3 DEF FloatOperators, Comparisons, BitOperators
  <2>2. CASE op \in {"add", "sub", "mul"}
    BY <2>1, <2>2 DEF BinaryType, ResultTag, Numeric
  <2>3. CASE op \in {"idiv", "mod"}
    BY <2>1, <2>3 DEF BinaryType, ResultTag, Numeric
  <2>4. CASE op \in {"div", "pow"}
    BY <2>1, <2>4 DEF BinaryType, ResultTag, Numeric
  <2> QED BY <1>3, <2>2, <2>3, <2>4 DEF FloatOperators
<1> QED BY <1>1, <1>2, <1>3 DEF BinaryOperators, Arithmetics, FloatOperators

(* An operand that has a numeric type is found with its value.                *)
LEMMA OperandFound ==
    ASSUME NEW e, Known(e), Type(e) \in Numeric
    PROVE  emit_varname_or_constant(e) = e.value /\ e.value.tag = Type(e) /\ IsNumber(e.value)
<1>1. Type(e) = e.value.tag
  BY KnownType DEF Numeric
<1>2. e.place \in {"constant", "temp_int", "temp_flt", "symbol"}
  BY DEF Known, TempOf, Numeric
<1>3. e.place = "symbol" => e.checked = Type(e)
  BY DEF Known, Type, IsLiteral
<1> QED BY <1>1, <1>2, <1>3 DEF emit_varname_or_constant, Raw, Numeric, IsNumber

LEMMA SpecialisedTagged ==
    ASSUME NEW op \in BinaryOperators, NEW a, NEW b, IsValue(a), IsValue(b),
           a.tag \in Numeric, b.tag \in Numeric, Specialised(op, a.tag, b.tag),
           ~(op = "div" /\ a.tag = "int" /\ b.tag = "int")
    PROVE  Tagged(SpecialisedValue(op, a, b), ResultTag(op, a.tag, b.tag))
<1>1. Abort \notin {a, b} /\ IsNumber(a) /\ IsNumber(b)
  BY NoFailure DEF IsNumber, Numeric
<1>2. CASE op \in Comparisons
  BY <1>1, <1>2, ComparedTagged DEF SpecialisedValue, ResultTag
<1>3. CASE op \notin Comparisons
  <2>1. op \in {"add", "sub", "mul", "div"} \/ (op \in BitOperators /\ a.tag = "int" /\ b.tag = "int")
    BY <1>3 DEF Specialised
  <2>2. CASE ~(a.tag = "int" /\ b.tag = "int")
    <3>1. op \in FloatOperators /\ op \notin BitOperators
      BY <2>1, <2>2 DEF FloatOperators, BitOperators
    <3>2. Tagged(FltArith(op, ToFlt(a), ToFlt(b)), "flt")
      BY <3>1, ToFltTagged, FltArithTagged
    <3> QED BY <1>1, <1>3, <2>2, <3>1, <3>2 DEF SpecialisedValue, ResultTag
  <2>3. CASE a.tag = "int" /\ b.tag = "int"
    <3>1. op # "div"
      BY <2>3
    <3>2. op \in IntOperators /\ op \notin {"idiv", "mod", "pow"}
      BY <2>1, <3>1 DEF IntOperators, BitOperators
    <3>3. Tagged(IntArith(op, a.n, b.n), "int")
      BY <3>2, IntArithTagged
    <3> QED BY <1>1, <1>3, <2>3, <3>1, <3>2, <3>3 DEF SpecialisedValue, ResultTag
  <2> QED BY <2>2, <2>3
<1> QED BY <1>2, <1>3

(* The type of a target: of what is known of the operator and its operands.   *)
Fits(type, op, l, r) ==
    \/ type = "any"
    \/ op \in Comparisons /\ type = "bool"
    \/ /\ Type(l) \in Numeric /\ Type(r) \in Numeric
       /\ type = ResultTag(op, Type(l), Type(r))

LEMMA ExecutedSound ==
    ASSUME NEW op \in BinaryOperators, NEW l, NEW r, Known(l), Known(r),
           NEW type, Fits(type, op, l, r),
           ~(op = "div" /\ Type(l) = "int" /\ Type(r) = "int"), ~MinusMinus(op, l, r)
    PROVE  \/ Executed(op, l, r, TempOf(type)) = Error
           \/ /\ IsValue(Executed(op, l, r, TempOf(type)))
              /\ type \in {"any", Executed(op, l, r, TempOf(type)).tag}
              /\ op \in Comparisons => Executed(op, l, r, TempOf(type)).tag = "bool"
<1>1. IsValue(l.value) /\ IsValue(r.value)
  BY DEF Known
<1>2. Arithmetics \cap Comparisons = {}
  BY DEF Arithmetics, Comparisons, BitOperators
<1>3. \A t1, t2 : ResultTag(op, t1, t2) \in Tags
  BY DEF ResultTag, Tags
<1>4. CASE Specialised(op, Type(l), Type(r))
  <2>1. Type(l) \in Numeric /\ Type(r) \in Numeric
    BY <1>4 DEF Specialised, Numeric
  <2> DEFINE v == SpecialisedValue(op, l.value, r.value)
  <2>2. Tagged(v, ResultTag(op, Type(l), Type(r)))
    BY <1>1, <1>4, <2>1, OperandFound, SpecialisedTagged
  <2>3. v.tag = ResultTag(op, Type(l), Type(r)) /\ IsValue(v)
    BY <1>3, <2>2, TagOf DEF IsValue
  <2>4. op \in Comparisons => v.tag = "bool"
    BY <2>3 DEF ResultTag
  <2>5. type \in {"any", v.tag}
    BY <2>3, <2>4 DEF Fits
  <2>6. Executed(op, l, r, TempOf(type)) = Into(TempOf(type), v)
    BY <1>4, <2>1, OperandFound DEF Executed
  <2>7. Into(TempOf(type), v) = v
    BY <2>5, IntoPlace
  <2> QED BY <2>3, <2>4, <2>5, <2>6, <2>7
<1>5. CASE ~Specialised(op, Type(l), Type(r))
  <2>1. Executed(op, l, r, TempOf(type)) = GenericValue(op, l.value, r.value, TempOf(type))
    BY <1>5 DEF Executed, MinusMinus
  <2>2. Error.tag = "error"
    BY DEF Error
  <2>3. CASE op \in Comparisons
    <3> DEFINE v == Compared(op, l.value, r.value)
    <3>1. v = Error \/ Tagged(v, "bool")
      BY <2>3, ComparedTagged
    <3>2. type \in {"any", "bool"}
      BY <2>3 DEF Fits, ResultTag
    <3>3. v = Error \/ (IsValue(v) /\ v.tag = "bool")
      BY <3>1, TagOf DEF IsValue, Tags
    <3>4. Into(TempOf(type), v) = v
      BY <2>2, <3>2, <3>3, IntoPlace
    <3>5. GenericValue(op, l.value, r.value, TempOf(type)) = v
      BY <2>3, <3>4 DEF GenericValue, Comparisons
    <3> QED BY <2>1, <3>2, <3>3, <3>5
  <2>4. CASE op \in Arithmetics
    <3> DEFINE v == luaO_arith(op, l.value, r.value)
    <3>0. op \notin Comparisons
      BY <1>2, <2>4
    <3>1. v = Error \/ Tagged(v, ResultTag(op, l.value.tag, r.value.tag))
      BY <1>1, <2>4, ArithTagged
    <3>2. v = Error \/ (IsValue(v) /\ v.tag = ResultTag(op, l.value.tag, r.value.tag))
      BY <1>3, <3>1, TagOf DEF IsValue
    <3>3. type = "any" \/ type = ResultTag(op, l.value.tag, r.value.tag)
      BY <3>0, OperandFound DEF Fits
    <3>4. Into(TempOf(type), v) = v
      BY <2>2, <3>2, <3>3, IntoPlace
    <3>5. CASE op \notin {"add", "sub", "mul"}
      <4>1. GenericValue(op, l.value, r.value, TempOf(type)) = v
        BY <3>0, <3>4, <3>5 DEF GenericValue
      <4> QED BY <2>1, <3>0, <3>2, <3>3, <4>1
    <3>6. CASE op \in {"add", "sub", "mul"}
      <4>1. ~(Type(l) \in Numeric /\ Type(r) \in Numeric)
        BY <1>5, <3>6 DEF Specialised
      <4>2. type = "any" /\ TempOf(type) = "temp_any"
        BY <3>0, <4>1 DEF Fits, TempOf
      <4>3. GenericValue(op, l.value, r.value, TempOf(type)) = v
        BY <3>0, <3>4, <3>6, <4>2 DEF GenericValue
      <4> QED BY <2>1, <3>0, <3>2, <3>3, <4>3
    <3> QED BY <3>5, <3>6
  <2> QED BY <2>3, <2>4 DEF BinaryOperators
<1> QED BY <1>4, <1>5

LEMMA SwappedFits ==
    ASSUME NEW op \in BinaryOperators, NEW l, NEW r, NEW type, Fits(type, op, l, r)
    PROVE  /\ Opcode(op) \in BinaryOperators /\ (Opcode(op) \in Comparisons <=> op \in Comparisons)
           /\ Opcode(op) \in {"div", "shr"} => Opcode(op) = op
           /\ Fits(type, Opcode(op), l, r) /\ Fits(type, Opcode(op), r, l)
<1>1. CASE op \in Comparisons
  <2>1. Opcode(op) \in Comparisons /\ Opcode(op) \notin {"div", "shr"}
    BY <1>1 DEF Opcode, Comparisons
  <2> QED BY <1>1, <2>1 DEF BinaryOperators, Fits, ResultTag
<1>2. CASE op \notin Comparisons
  <2>1. Opcode(op) = op
    BY <1>2 DEF Opcode, Comparisons
  <2> QED BY <1>2, <2>1 DEF Fits, ResultTag
<1> QED BY <1>1, <1>2

LEMMA BinarySound ==
    ASSUME NEW op \in BinaryOperators, NEW l, NEW r, Known(l), Known(r),
           ~(op = "div" /\ Type(l) = "int" /\ Type(r) = "int"), ~MinusMinus(op, l, r)
    PROVE  Sound(linearize_binary_operator(op, l, r))
<1> DEFINE type == BinaryType(op, l.checked, r.checked)
           swap == Swapped(op, Type(l), Type(r))
           x == IF swap THEN r ELSE l
           y == IF swap THEN l ELSE r
           v == Executed(Opcode(op), x, y, TempOf(type))
           w == IF op = "ne" /\ v.tag = "bool" THEN Bval(~IsTrue(v)) ELSE v
<1>1. l.checked \in TypeTags /\ r.checked \in TypeTags
  BY KnownType DEF Known, TypeTags
<1>2. Fits(type, op, l, r)
  <2>1. l.checked \in Numeric => Type(l) = l.checked
    BY KnownType DEF Numeric
  <2>2. r.checked \in Numeric => Type(r) = r.checked
    BY KnownType DEF Numeric
  <2> QED BY <1>1, <2>1, <2>2, BinaryTypeRight DEF Fits
<1>3. /\ Opcode(op) \in BinaryOperators /\ (Opcode(op) \in Comparisons <=> op \in Comparisons)
      /\ Opcode(op) \in {"div", "shr"} => Opcode(op) = op
      /\ Fits(type, Opcode(op), l, r) /\ Fits(type, Opcode(op), r, l)
  BY <1>2, SwappedFits
<1>4. Known(x) /\ Known(y) /\ Fits(type, Opcode(op), x, y)
  BY <1>3
<1>5. ~(Opcode(op) = "div" /\ Type(x) = "int" /\ Type(y) = "int")
  BY <1>3
<1>6. ~MinusMinus(Opcode(op), x, y)
  <2>1. op = "shr" => ~swap
    BY DEF Swapped
  <2> QED BY <1>3, <2>1 DEF MinusMinus
<1>7. v = Error \/ (IsValue(v) /\ type \in {"any", v.tag} /\ (op \in Comparisons => v.tag = "bool"))
  BY <1>3, <1>4, <1>5, <1>6, ExecutedSound
<1>8. w = Error \/ (IsValue(w) /\ type \in {"any", w.tag})
  <2>1. CASE op = "ne" /\ v.tag = "bool"
    <3>1. Tagged(Bval(~IsTrue(v)), "bool")
      BY BvalTagged
    <3>2. IsValue(w) /\ w.tag = "bool"
      BY <2>1, <3>1, TagOf DEF IsValue, Tags
    <3>3. v # Error
      BY <2>1 DEF Error
    <3> QED BY <1>7, <2>1, <3>2, <3>3
  <2>2. CASE ~(op = "ne" /\ v.tag = "bool")
    BY <1>7, <2>2
  <2> QED BY <2>1, <2>2
<1>9. linearize_binary_operator(op, l, r) = Expression("other", type, TempOf(type), w)
  BY DEF linearize_binary_operator
<1> QED BY <1>8, <1>9, OtherSound

LEMMA UnarySound ==
    ASSUME NEW op \in {"minus", "bnot", "not"}, NEW e, Known(e)
    PROVE  Sound(linearize_unary_operator(op, e))
<1> DEFINE type == UnaryType(op, Type(e))
<1>1. IsValue(e.value) /\ Type(e) \in {"any", e.value.tag}
  BY KnownType DEF Known
<1>2. CASE op = "minus"
  <2> DEFINE v == Minus(IF type \in Numeric THEN Raw(e, type) ELSE e.value)
  <2>1. v = Minus(e.value)
    BY <1>1, <1>2 DEF UnaryType, Raw, Numeric
  <2>2. CASE e.value.tag = "bool"
    <3>1. v = Error
      BY <1>1, <2>1, <2>2, MinusTagged
    <3> QED BY <1>2, <3>1 DEF linearize_unary_operator, Sound, Expression
  <2>3. CASE e.value.tag # "bool"
    <3>1. Tagged(v, e.value.tag) /\ e.value.tag \in Tags
      BY <1>1, <2>1, <2>3, MinusTagged, NoFailure
    <3>2. IsValue(v) /\ v.tag = e.value.tag
      BY <3>1, TagOf DEF IsValue
    <3>3. type = Type(e)
      BY <1>1, <1>2, <2>3, <3>1 DEF UnaryType, Numeric, Tags
    <3>4. linearize_unary_operator(op, e) = Expression("other", type, TempOf(type), v)
      BY <1>2, <3>3 DEF linearize_unary_operator, MinusTemp
    <3> QED BY <1>1, <3>2, <3>3, <3>4, OtherSound
  <2> QED BY <2>2, <2>3
<1>3. CASE op = "bnot"
  <2>1. Complement(e.value) = Error \/ IsValue(Complement(e.value))
    BY ComplementTagged DEF IsValue, Tags
  <2>2. linearize_unary_operator(op, e) = Expression("other", "any", TempOf("any"), Complement(e.value))
    BY <1>3 DEF linearize_unary_operator, UnaryType, TempOf
  <2> QED BY <2>1, <2>2, OtherSound
<1>4. CASE op = "not"
  <2>1. IsValue(Bval(~IsTrue(e.value)))
    BY BvalTagged DEF IsValue, Tags
  <2>2. linearize_unary_operator(op, e) = Expression("other", "any", TempOf("any"), Bval(~IsTrue(e.value)))
    BY <1>4 DEF linearize_unary_operator, UnaryType, TempOf
  <2> QED BY <2>1, <2>2, OtherSound
<1> QED BY <1>2, <1>3, <1>4

(* The simplifier's literals.                                                 *)
LEMMA FoldedUnaryKnown ==
    ASSUME NEW op \in {"minus", "bnot"}, NEW e, Known(e), IsLiteral(e),
           NEW v, v = (IF op = "minus" THEN Minus(e.value) ELSE Complement(e.value)), v # Error
    PROVE  Known(Folded(UnaryType(op, e.checked), v))
<1>1. IsValue(e.value) /\ e.value.tag \in Tags /\ e.value.d # 0
  BY KnownType DEF Known
<1>2. e.checked \in {"any", e.value.tag}
  BY DEF Known
<1>3. CASE op = "minus"
  <2>1. e.value.tag \in Numeric /\ Tagged(v, e.value.tag) /\ v.d # 0
    BY <1>1, <1>3, MinusTagged DEF Numeric, Tags
  <2>2. UnaryType(op, e.checked) \in {"any", e.value.tag}
    BY <1>2 DEF UnaryType
  <2> QED BY <2>1, <2>2, FoldedKnown
<1>4. CASE op = "bnot"
  <2>1. Tagged(v, "int") /\ v.d # 0
    BY <1>4, ComplementTagged
  <2>2. UnaryType(op, e.checked) = "any"
    BY <1>4 DEF UnaryType
  <2> QED BY <2>1, <2>2, FoldedKnown DEF Numeric
<1> QED BY <1>3, <1>4

LEMMA FoldedBinaryKnown ==
    ASSUME NEW op \in Arithmetics, NEW l, NEW r, Known(l), Known(r),
           NEW v, v = luaO_rawarith(op, l.value, r.value), v # Error, v.d # 0
    PROVE  Known(Folded(BinaryType(op, l.checked, r.checked), v))
<1> DEFINE tag == ResultTag(op, l.value.tag, r.value.tag)
<1>1. op \notin Comparisons
  BY DEF Arithmetics, Comparisons, BitOperators
<1>2. Tagged(v, tag)
  BY RawArithTagged DEF Known
<1>3. tag \in Numeric
  BY <1>1 DEF ResultTag, Numeric
<1>4. l.checked \in {"any", l.value.tag} /\ r.checked \in {"any", r.value.tag}
      /\ l.checked \in TypeTags /\ r.checked \in TypeTags
  BY KnownType DEF Known, TypeTags
<1>5. BinaryType(op, l.checked, r.checked) \in {"any", tag}
  BY <1>1, <1>4, BinaryTypeRight DEF BinaryOperators, Numeric
<1> QED BY <1>2, <1>3, <1>5, FoldedKnown

-----------------------------------------------------------------------------
(* Casts and assignments.                                                     *)
LEMMA CastSound ==
    ASSUME NEW type \in Numeric, NEW e, Known(e), type = "int" => e.value.tag # "flt",
           Type(e) # type => e.place \notin (IF type = "int" THEN {"constant", "temp_flt"} ELSE {"temp_int"})
    PROVE  Sound(Cast(type, e))
<1>1. CASE Type(e) = type
  <2> DEFINE c == Expression("other", type, e.place, e.value)
  <2>1. Cast(type, e) = c
    BY <1>1 DEF Cast, Known, Expression
  <2>2. c.node = "other" /\ c.checked = type /\ c.place = e.place /\ c.value = e.value
    BY DEF Expression
  <2>3. Type(c) = type
    BY <2>2 DEF Type
  <2>4. type = e.value.tag
    BY <1>1, KnownType DEF Numeric
  <2>5. Known(c)
    BY <1>1, <2>2, <2>3, <2>4 DEF Known, IsLiteral, Expression
  <2> QED BY <2>1, <2>5 DEF Sound
<1>2. CASE Type(e) # type
  <2>1. Cast(type, e) = Expression("other", type, TempOf(type), ToType(type, e.value))
    BY <1>2 DEF Cast
  <2>2. ToType(type, e.value) = Error
        \/ (IsValue(ToType(type, e.value)) /\ type \in {"any", ToType(type, e.value).tag})
    BY ToTypeTagged DEF Known
  <2> QED BY <2>1, <2>2, OtherSound
<1> QED BY <1>1, <1>2

(* What the checker lets through can be cast.                                 *)
LEMMA CastablePlace ==
    ASSUME NEW type \in Numeric, NEW e, Known(e), Type(e) # type, Castable(type, e.checked),
           type = "int" => e.value.tag # "flt", ~(type = "flt" /\ Type(e) = "int")
    PROVE  e.place \notin (IF type = "int" THEN {"constant", "temp_flt"} ELSE {"temp_int"})
<1>1. e.place \in {"constant", "symbol", TempOf(Type(e))} /\ Type(e) \in {"any", e.value.tag} /\ e.value.tag \in Tags
  BY KnownType DEF Known
<1>2. CASE type = "int"
  <2>1. e.place # "temp_flt"
    BY <1>1, <1>2 DEF TempOf
  <2>2. e.place # "constant"
    <3>1. SUFFICES ASSUME e.place = "constant" PROVE FALSE
      OBVIOUS
    <3>2. Type(e) = "bool"
      BY <1>1, <1>2, <3>1 DEF Known, Tags
    <3>3. e.checked = "bool"
      BY <3>1, <3>2 DEF Known, Type, Numeric
    <3> QED BY <1>2, <3>3 DEF Castable
  <2> QED BY <1>2, <2>1, <2>2
<1>3. CASE type = "flt"
  BY <1>1, <1>3 DEF TempOf
<1> QED BY <1>2, <1>3 DEF Numeric

LEMMA StoreSound ==
    ASSUME NEW type \in {"any"} \cup Numeric, NEW e, Known(e),
           ~(type = "int" /\ Type(e) = "any" /\ e.value.tag = "flt")
    PROVE  linearize_store_var(type, e) = Error
           \/ /\ IsValue(linearize_store_var(type, e))
              /\ type \in {"any", linearize_store_var(type, e).tag}
<1>1. IsValue(e.value) /\ Type(e) \in {"any", e.value.tag}
  BY KnownType DEF Known
<1>2. CASE type = "any"
  BY <1>1, <1>2 DEF linearize_store_var
<1>3. CASE type # "any" /\ Type(e) = type
  <2>1. linearize_store_var(type, e) = e.value /\ type = e.value.tag
    BY <1>1, <1>3 DEF linearize_store_var, Raw
  <2> QED BY <1>1, <2>1
<1>4. CASE type # "any" /\ Type(e) = "any"
  <2>1. linearize_store_var(type, e) = ToType(type, e.value)
    BY <1>4 DEF linearize_store_var
  <2> QED BY <1>1, <1>4, <2>1, ToTypeTagged
<1>5. CASE type # "any" /\ Type(e) # type /\ Type(e) # "any"
  <2>1. linearize_store_var(type, e) = Converted(type, e.value)
    BY <1>5 DEF linearize_store_var
  <2>2. Converted(type, e.value) = Error \/ Tagged(Converted(type, e.value), type)
    BY <1>1, <1>5, ConvertedTagged
  <2> QED BY <1>5, <2>1, <2>2, TagOf DEF IsValue, Numeric, Tags
<1> QED BY <1>2, <1>3, <1>4, <1>5

-----------------------------------------------------------------------------
(* The inductive invariant: it says of each expression what the next passes   *)
(* need to know to make another of it.                                        *)
Inv ==
    /\ outcome # "aborted"
    /\ \E S : stack \in Seq(S)
    /\ \A i \in DOMAIN stack : Known(stack[i])

LEMMA KnownOnTop ==
    ASSUME Inv, stack # <<>>
    PROVE  Len(stack) \in Nat \ {0} /\ Known(Top) /\ (Len(stack) > 1 => Known(Left))
<1>1. PICK S : stack \in Seq(S)
  BY DEF Inv
<1>2. Len(stack) \in Nat \ {0} /\ DOMAIN stack = 1 .. Len(stack)
  BY <1>1
<1> QED BY <1>2 DEF Inv, Top, Left, Last

LEMMA StopKeeps ==
    ASSUME Inv, NEW how, how # "aborted", Stop(how) PROVE Inv'
BY DEF Inv, Stop

LEMMA PushKeeps ==
    ASSUME Inv, NEW n \in 0 .. 2, n <= Len(stack), NEW said, NEW e, Sound(e), Push(n, said, e)
    PROVE  Inv'
<1>1. PICK S : stack \in Seq(S)
  BY DEF Inv
<1>2. Len(stack) \in Nat /\ DOMAIN stack = 1 .. Len(stack)
  BY <1>1
<1>3. ~ \E i \in 1 .. n : Unprintable(stack[Len(stack) - n + i])
  <2> SUFFICES ASSUME NEW i \in 1 .. n PROVE ~Unprintable(stack[Len(stack) - n + i])
    OBVIOUS
  <2>1. Len(stack) - n + i \in DOMAIN stack
    BY <1>2
  <2> QED BY <2>1, KnownType DEF Inv
<1>4. CASE e.value = Error
  <2>1. e.value # Abort
    BY <1>4 DEF Error, Abort
  <2>2. outcome' = "raised" /\ stack' = stack
    BY <1>3, <1>4, <2>1 DEF Push
  <2> QED BY <2>2 DEF Inv
<1>5. CASE e.value # Error
  <2>1. Known(e) /\ e.value # Abort
    BY <1>5, KnownType DEF Sound
  <2> DEFINE kept == SubSeq(stack, 1, Len(stack) - n)
  <2>2. outcome' = outcome /\ stack' = Append(kept, e)
    BY <1>3, <1>5, <2>1 DEF Push
  <2>3. /\ kept \in Seq(S) /\ Len(kept) = Len(stack) - n
        /\ \A i \in 1 .. Len(kept) : kept[i] = stack[i]
    BY <1>1, <1>2
  <2> HIDE DEF kept
  <2>4. kept \in Seq(S \cup {e})
    BY <2>3
  <2>5. stack' \in Seq(S \cup {e})
    BY <2>2, <2>4
  <2>6. ASSUME NEW i \in DOMAIN stack' PROVE Known(stack'[i])
    <3>1. i \in 1 .. Len(kept) + 1 /\ Len(kept) \in Nat
      BY <2>2, <2>4, <2>6
    <3>2. CASE i = Len(kept) + 1
      BY <2>1, <2>2, <2>4, <3>2
    <3>3. CASE i \in 1 .. Len(kept)
      <4>1. stack'[i] = stack[i] /\ i \in DOMAIN stack
        BY <1>2, <2>2, <2>3, <2>4, <3>3
      <4> QED BY <4>1 DEF Inv
    <3> QED BY <3>1, <3>2, <3>3
  <2> QED BY <2>2, <2>5, <2>6 DEF Inv
<1> QED BY <1>4, <1>5

-----------------------------------------------------------------------------
(* The expressions that are known to break types or to have no C code, which  *)
(* the theorems leave out.                                                    *)
Miscompiled ==
    {"int_div", "fold_inf", "minus_minus", "float_as_int", "number_of_int", "number_condition",
     "header_cast"}

LEMMA LiteralKeeps == ASSUME Miscompiled \subseteq LeftOut, Inv, Literal PROVE Inv'
<1>1. "fold_inf" \in LeftOut
  BY DEF Miscompiled
<1>2. PICK v \in Literals : Push(0, <<"any", v>>, Expression("literal", v.tag, "constant", v))
  BY DEF Literal
<1>3. Sound(Expression("literal", v.tag, "constant", v))
  BY <1>1, LiteralKnown DEF Sound
<1>4. 0 <= Len(stack)
  BY DEF Inv
<1> QED BY <1>2, <1>3, <1>4, PushKeeps

LEMMA ParameterKeeps == ASSUME Miscompiled \subseteq LeftOut, Inv, Parameter PROVE Inv'
<1>1. PICK v \in Values, type \in {"any", "int", "flt"} :
        /\ "float_as_int" \in LeftOut => ~(type = "int" /\ v.tag = "flt")
        /\ Push(0, <<type, v>>, Expression("other", type, "symbol", ToType(type, v)))
  BY DEF Parameter
<1>2. IsValue(v) /\ (type = "int" => v.tag # "flt")
  BY <1>1, ValuesAssumption DEF IsValue, Tagged, Tags, Miscompiled
<1>3. ToType(type, v) = Error \/ (IsValue(ToType(type, v)) /\ type \in {"any", ToType(type, v).tag})
  BY <1>2, ToTypeTagged DEF Numeric
<1>4. Sound(Expression("other", type, "symbol", ToType(type, v)))
  BY <1>3, OtherSound
<1>5. 0 <= Len(stack)
  BY DEF Inv
<1> QED BY <1>1, <1>4, <1>5, PushKeeps

LEMMA UnaryKeeps == ASSUME Inv, Unary PROVE Inv'
<1>1. PICK op \in {"minus", "bnot", "not"} :
        LET v == IF op = "minus" THEN Minus(Top.value) ELSE Complement(Top.value) IN
        IF op # "not" /\ IsLiteral(Top) /\ v # Error
        THEN Push(1, <<op>>, Folded(UnaryType(op, Top.checked), v))
        ELSE Push(1, <<op>>, linearize_unary_operator(op, Top))
  BY DEF Unary
<1> DEFINE v == IF op = "minus" THEN Minus(Top.value) ELSE Complement(Top.value)
<1>2. Known(Top) /\ 1 <= Len(stack)
  BY KnownOnTop DEF Unary
<1>3. CASE op # "not" /\ IsLiteral(Top) /\ v # Error
  <2>1. Sound(Folded(UnaryType(op, Top.checked), v))
    BY <1>2, <1>3, FoldedUnaryKnown DEF Sound
  <2> QED BY <1>1, <1>2, <1>3, <2>1, PushKeeps
<1>4. CASE ~(op # "not" /\ IsLiteral(Top) /\ v # Error)
  <2>1. Sound(linearize_unary_operator(op, Top))
    BY <1>2, UnarySound
  <2> QED BY <1>1, <1>2, <1>4, <2>1, PushKeeps
<1> QED BY <1>3, <1>4

LEMMA ReadAgainKeeps == ASSUME Inv, ReadAgain PROVE Inv'
<1>1. stack # <<>> /\ 0 <= Len(stack) /\ Push(0, <<"again">>, Top)
  BY DEF ReadAgain, Inv
<1>2. Sound(Top)
  BY <1>1, KnownOnTop DEF Sound
<1> QED BY <1>1, <1>2, PushKeeps

(* The float that is written back is as good a value of the variable.         *)
LEMMA WrittenBackKnown ==
    ASSUME Known(Top), NEW type, WritesBack(type), Type(Top) # "int" PROVE Known(WrittenBack)
<1>1. Top.value.tag = "int" /\ Type(Top) = "any" /\ Tagged(Top.value, "int")
  BY KnownType DEF WritesBack
<1>2. ~IsLiteral(Top) /\ Top.node = "other" /\ Top.checked = "any" /\ Top.place \in {"symbol", "temp_any"}
  BY <1>1 DEF Known, IsLiteral, Type, TempOf
<1>3. Tagged(Converted("flt", Top.value), "flt")
  BY <1>1, FvalTagged DEF Converted, ToFlt, Tagged, IsNumber
<1>4. WrittenBack = Expression("other", "any", Top.place, Converted("flt", Top.value))
  BY <1>2 DEF WrittenBack, Known, Expression
<1>5. IsValue(Converted("flt", Top.value))
  BY <1>3 DEF IsValue, Tags
<1> QED BY <1>2, <1>4, <1>5, OtherKnown DEF TempOf

LEMMA WriteBackKeeps ==
    ASSUME Inv, stack # <<>>, NEW e, Known(e), Known(WrittenBack), UNCHANGED outcome,
           stack' = [stack EXCEPT ![Len(stack) - 1] = WrittenBack, ![Len(stack)] = e]
    PROVE  Inv'
<1>1. PICK S : stack \in Seq(S)
  BY DEF Inv
<1> DEFINE R == S \cup {WrittenBack, e}
<1>2. stack' \in Seq(R) /\ DOMAIN stack' = DOMAIN stack
  <2>1. Len(stack) \in Nat /\ DOMAIN stack = 1 .. Len(stack) /\ \A i \in DOMAIN stack : stack[i] \in R
    BY <1>1
  <2>2. stack = [i \in 1 .. Len(stack) |-> stack[i]]
    BY <1>1
  <2>3. stack' = [i \in 1 .. Len(stack) |-> stack'[i]] /\ \A i \in 1 .. Len(stack) : stack'[i] \in R
    BY <2>1, <2>2
  <2> HIDE DEF R
  <2>4. stack' \in [1 .. Len(stack) -> R]
    BY <2>3
  <2>5. Seq(R) = UNION {[1 .. n -> R] : n \in Nat}
    BY SeqDef
  <2>6. stack' \in Seq(R)
    BY <2>1, <2>4, <2>5, Zenon
  <2>7. DOMAIN stack' = 1 .. Len(stack)
    BY <2>4, Zenon
  <2> QED BY <2>1, <2>6, <2>7
<1>3. ASSUME NEW i \in DOMAIN stack' PROVE Known(stack'[i])
  <2>1. stack'[i] \in {WrittenBack, e, stack[i]} /\ i \in DOMAIN stack
    BY <1>1, <1>2
  <2> QED BY <2>1 DEF Inv
<1> QED BY <1>2, <1>3 DEF Inv

LEMMA CastToKeeps == ASSUME Miscompiled \subseteq LeftOut, Inv, CastTo PROVE Inv'
<1>1. PICK type \in Numeric :
        /\ "float_as_int" \in LeftOut => ~(type = "int" /\ Top.value.tag = "flt")
        /\ "number_of_int" \in LeftOut => ~(type = "flt" /\ Type(Top) = "int")
        /\ IF ~Castable(type, Top.checked) THEN Stop("rejected")
           ELSE IF ~WritesBack(type) THEN Push(1, <<type>>, Cast(type, Top))
           ELSE /\ stack' = [stack EXCEPT ![Len(stack) - 1] = WrittenBack,
                                         ![Len(stack)] = Cast(type, Top)]
                /\ last' = <<type>>
                /\ UNCHANGED <<outcome, result>>
  BY DEF CastTo
<1>2. Known(Top) /\ 1 <= Len(stack)
  BY KnownOnTop DEF CastTo
<1>3. CASE Castable(type, Top.checked)
  <2>1. (type = "int" => Top.value.tag # "flt") /\ ~(type = "flt" /\ Type(Top) = "int")
    BY <1>1 DEF Miscompiled
  <2>2. Type(Top) # type =>
           Top.place \notin (IF type = "int" THEN {"constant", "temp_flt"} ELSE {"temp_int"})
    BY <1>2, <1>3, <2>1, CastablePlace
  <2>3. Sound(Cast(type, Top))
    BY <1>2, <2>1, <2>2, CastSound
  <2>4. CASE ~WritesBack(type)
    BY <1>1, <1>2, <1>3, <2>3, <2>4, PushKeeps
  <2>5. CASE WritesBack(type)
    <3>1. type = "flt" /\ Top.value.tag = "int" /\ Type(Top) # "flt" /\ Type(Top) # "int"
      BY <2>1, <2>5 DEF WritesBack
    <3>2. Cast(type, Top) = Expression("other", "flt", TempOf("flt"), Converted("flt", Top.value))
      BY <2>2, <3>1 DEF Cast, ToType
    <3>3. Tagged(Converted("flt", Top.value), "flt")
      BY <1>2, <3>1, ConvertedTagged, NoFailure DEF Known, Converted, Error, IsNumber, ToFlt, Tagged
    <3>4. Known(Cast(type, Top))
      BY <3>2, <3>3, TagOf, OtherKnown DEF IsValue, Tags
    <3> QED BY <1>1, <1>2, <1>3, <2>5, <3>1, <3>4, WrittenBackKnown, WriteBackKeeps DEF CastTo
  <2> QED BY <2>4, <2>5
<1>4. CASE ~Castable(type, Top.checked)
  BY <1>1, <1>4, StopKeeps
<1> QED BY <1>3, <1>4

LEMMA FoldKeeps ==
    ASSUME Miscompiled \subseteq LeftOut, Inv, Len(stack) > 1, NEW op, Fold(op) PROVE Inv'
<1>1. CASE DividesByZero(op)
  BY <1>1, StopKeeps DEF Fold
<1>2. CASE ~DividesByZero(op)
  <2>1. PICK v \in {OfLiterals(op)} \ {Error} :
          /\ "fold_inf" \in LeftOut => v.d # 0
          /\ Push(2, <<op>>, Folded(BinaryType(op, Left.checked, Top.checked), v))
    BY <1>2 DEF Fold
  <2>2. v = luaO_rawarith(op, Left.value, Top.value) /\ v # Error /\ v.d # 0 /\ op \in Arithmetics
    BY <2>1 DEF OfLiterals, Miscompiled, Fold, Foldable
  <2>3. Known(Left) /\ Known(Top) /\ 2 <= Len(stack)
    BY KnownOnTop
  <2>4. Sound(Folded(BinaryType(op, Left.checked, Top.checked), v))
    BY <2>2, <2>3, FoldedBinaryKnown DEF Sound
  <2> QED BY <2>1, <2>3, <2>4, PushKeeps
<1> QED BY <1>1, <1>2

LEMMA ComputeKeeps ==
    ASSUME Miscompiled \subseteq LeftOut, Inv, Len(stack) > 1, NEW op \in BinaryOperators, Compute(op)
    PROVE  Inv'
<1>1. Known(Left) /\ Known(Top) /\ 2 <= Len(stack)
  BY KnownOnTop
<1>2. ~(op = "div" /\ Type(Left) = "int" /\ Type(Top) = "int") /\ ~MinusMinus(op, Left, Top)
  BY DEF Compute, Miscompiled
<1>3. Sound(linearize_binary_operator(op, Left, Top))
  BY <1>1, <1>2, BinarySound
<1>4. Push(2, <<op>>, linearize_binary_operator(op, Left, Top))
  BY DEF Compute
<1> QED BY <1>1, <1>3, <1>4, PushKeeps

LEMMA StoreKeeps == ASSUME Miscompiled \subseteq LeftOut, Inv, Store PROVE Inv'
<1>1. PICK declared \in {"any", "int", "flt"}, captured \in BOOLEAN :
        \E type \in {declared} \cup (IF declared = "any" /\ Top.node = "literal" /\ Top.checked \in Numeric
                                    THEN {Top.checked} ELSE {}) :
          /\ "float_as_int" \in LeftOut => ~(type = "int" /\ Type(Top) = "any" /\ Top.value.tag = "flt")
          /\ IF ~Assignable(type, Top) THEN Stop("rejected")
             ELSE Push(1, <<declared>>,
                       Expression("other", type, IF captured \/ type = "any" THEN "symbol" ELSE TempOf(type),
                                  linearize_store_var(type, Top)))
  BY DEF Store
<1>2. PICK type \in {"any"} \cup Numeric :
          /\ "float_as_int" \in LeftOut => ~(type = "int" /\ Type(Top) = "any" /\ Top.value.tag = "flt")
          /\ IF ~Assignable(type, Top) THEN Stop("rejected")
             ELSE Push(1, <<declared>>,
                       Expression("other", type, IF captured \/ type = "any" THEN "symbol" ELSE TempOf(type),
                                  linearize_store_var(type, Top)))
  BY <1>1 DEF Numeric
<1>3. Known(Top) /\ 1 <= Len(stack)
  BY KnownOnTop DEF Store
<1>4. CASE ~Assignable(type, Top)
  BY <1>2, <1>4, StopKeeps
<1>5. CASE Assignable(type, Top)
  <2> DEFINE v == linearize_store_var(type, Top)
             place == IF captured \/ type = "any" THEN "symbol" ELSE TempOf(type)
  <2>1. v = Error \/ (IsValue(v) /\ type \in {"any", v.tag})
    BY <1>2, <1>3, StoreSound DEF Miscompiled
  <2>2. place \in {"symbol", TempOf(type)}
    OBVIOUS
  <2>3. Sound(Expression("other", type, place, v))
    BY <2>1, <2>2, OtherSound
  <2> QED BY <1>2, <1>3, <1>5, <2>3, PushKeeps
<1> QED BY <1>4, <1>5

(* The statement around an expression takes it, and no stack is left.         *)
LEMMA FinishKeeps ==
    ASSUME Inv, NEW n, NEW said, NEW r, r # <<Abort>>, n = 1 => stack # <<>>, Finish(n, said, r)
    PROVE  Inv'
<1>1. n = 1 => ~Unprintable(Top)
  BY KnownOnTop, KnownType
<1>2. outcome' = outcome /\ stack' = <<>>
  BY <1>1 DEF Finish
<1>3. <<>> \in Seq({}) /\ DOMAIN <<>> = {}
  OBVIOUS
<1> QED BY <1>2, <1>3 DEF Inv

LEMMA ReturnKeeps == ASSUME Inv, Return PROVE Inv'
<1>1. Top.value # Abort /\ stack # <<>>
  BY KnownOnTop, KnownType DEF Return
<1>2. <<Top.value>> # <<Abort>>
  BY <1>1
<1> QED BY <1>1, <1>2, FinishKeeps DEF Return

LEMMA TestKeeps == ASSUME Miscompiled \subseteq LeftOut, Inv, Test PROVE Inv'
<1> DEFINE r == <<IF Top.place \in {"temp_int", "temp_flt"} THEN Abort ELSE Bval(IsTrue(Top.value))>>
<1>1. Top.place \notin {"temp_int", "temp_flt"} /\ stack # <<>>
  BY DEF Test, Miscompiled
<1>2. Bval(IsTrue(Top.value)) # Abort
  BY BvalTagged, NoFailure DEF IsValue, Tags
<1>3. r # <<Abort>>
  BY <1>1, <1>2
<1>4. Finish(1, <<"if">>, r)
  BY DEF Test
<1> QED BY <1>1, <1>3, <1>4, FinishKeeps

(* No expression in the header of a loop is without C code.                   *)
LEMMA HeaderCompiled ==
    ASSUME NEW header, \A i \in DOMAIN header : Known(header[i]), ~Miscast(header),
           \A i \in DOMAIN header : ~(Type(header[i]) = "any" /\ header[i].value.tag = "flt"),
           NEW i \in DOMAIN typecheck_for_num_statment(header)
    PROVE  typecheck_for_num_statment(header)[i].value # Abort
<1> DEFINE h == header[i]
           all == typecheck_for_num_statment(header)
<1>1. i \in DOMAIN header /\ all[i] \in {h, Cast("int", h)} /\ (all[i] # h => h.checked # "int")
  BY DEF typecheck_for_num_statment
<1>2. Known(h) /\ h.value # Abort
  BY <1>1, KnownType
<1>3. CASE all[i] = h
  BY <1>2, <1>3
<1>4. CASE all[i] # h
  <2>1. Type(h) # "int" => Type(h) \notin Numeric /\ h.place # "constant"
    BY <1>1, <1>4 DEF Miscast
  <2>2. Type(h) \in {"any", h.value.tag} /\ h.place \in {"constant", "symbol", TempOf(Type(h))}
    BY <1>2, KnownType DEF Known
  <2>3. h.value.tag # "flt"
    BY <1>1, <2>1, <2>2 DEF Numeric
  <2>4. Type(h) # "int" => h.place \notin {"constant", "temp_flt"}
    BY <2>1, <2>2 DEF TempOf, Numeric
  <2>5. Sound(Cast("int", h))
    BY <1>2, <2>3, <2>4, CastSound DEF Numeric
  <2>6. Error # Abort
    BY DEF Error, Abort
  <2> QED BY <1>1, <1>4, <2>5, <2>6, KnownType DEF Sound
<1> QED BY <1>3, <1>4

LEMMA TurnsAreIntegers ==
    ASSUME NEW header PROVE linearize_for_num_statement(header) # <<Abort>>
<1> DEFINE r == linearize_for_num_statement(header)
<1> DEFINE index == header[1].value.n
           limit == header[2].value.n
           step == IF Len(header) = 3 THEN header[3].value.n ELSE 1
           positive == StepKnownPositive(header) \/ 0 < step
           at[k \in 0 .. 2 ^ W] == IF k = 0 THEN IntArith("sub", index, step).n
                                   ELSE IntArith("add", at[k - 1], step).n
           stop(k) == IF positive THEN limit < at[k] ELSE at[k] < limit
           turns == CHOOSE k \in DOMAIN at :
                        /\ \A j \in 1 .. k : ~stop(j)
                        /\ k = 2 ^ W \/ stop(k + 1)
<1>1. r = [k \in 1 .. turns |-> Ival(at[k])]
  BY DEF linearize_for_num_statement
<1> HIDE DEF at, turns
<1>2. SUFFICES ASSUME r = <<Abort>> PROVE FALSE
  OBVIOUS
<1>3. 1 \in DOMAIN r /\ r[1] = Abort
  BY <1>2
<1>4. r[1] = Ival(at[1])
  BY <1>1, <1>3
<1>5. Ival(at[1]) # Abort
  BY IvalTagged, NoFailure DEF IsValue, Tags
<1> QED BY <1>3, <1>4, <1>5

LEMMA LoopKeeps ==
    ASSUME Miscompiled \subseteq LeftOut, Inv, NEW header, \A i \in DOMAIN header : Known(header[i]),
           NEW said, LoopOver(header, said)
    PROVE  Inv'
<1> DEFINE all == typecheck_for_num_statment(header)
           Some(v) == \E i \in DOMAIN all : all[i].value = v
<1>1. /\ ~Miscast(header)
      /\ \A i \in DOMAIN header : ~(Type(header[i]) = "any" /\ header[i].value.tag = "flt")
  BY DEF LoopOver, Miscompiled
<1>2. ~Some(Abort)
  BY <1>1, HeaderCompiled
<1>3. \/ Stop("rejected")
      \/ outcome' = "raised" /\ stack' = stack
      \/ Finish(2, said, linearize_for_num_statement(all))
  BY <1>2 DEF LoopOver
<1>4. CASE Stop("rejected")
  BY <1>4, StopKeeps
<1>5. CASE outcome' = "raised" /\ stack' = stack
  BY <1>5 DEF Inv
<1>6. CASE Finish(2, said, linearize_for_num_statement(all))
  BY <1>6, TurnsAreIntegers, FinishKeeps
<1> QED BY <1>3, <1>4, <1>5, <1>6

LEMMA LongerHeader ==
    ASSUME Inv, NEW e, Known(e)
    PROVE  \A i \in DOMAIN (<<e>> \o stack) : Known((<<e>> \o stack)[i])
<1>1. PICK S : stack \in Seq(S)
  BY DEF Inv
<1> DEFINE T == S \cup {e}
           one == <<e>>
           all == one \o stack
<1>2. one \in Seq(T) /\ Len(one) = 1 /\ one[1] = e
  OBVIOUS
<1>3. stack \in Seq(T) /\ Len(stack) \in Nat /\ DOMAIN stack = 1 .. Len(stack)
  BY <1>1
<1> HIDE DEF T, one
<1>4. /\ all \in Seq(T) /\ Len(all) = Len(one) + Len(stack)
      /\ \A i \in 1 .. Len(one) + Len(stack) : all[i] = IF i <= Len(one) THEN one[i] ELSE stack[i - Len(one)]
  BY <1>2, <1>3, ConcatProperties
<1> HIDE DEF all
<1>5. DOMAIN all = 1 .. Len(stack) + 1
  BY <1>2, <1>3, <1>4
<1>6. ASSUME NEW i \in DOMAIN all PROVE Known(all[i])
  <2>1. CASE i = 1
    BY <1>2, <1>3, <1>4, <2>1
  <2>2. CASE i # 1
    <3>1. all[i] = stack[i - 1]
      BY <1>2, <1>3, <1>4, <1>5, <2>2
    <3>2. i - 1 \in DOMAIN stack
      BY <1>3, <1>5, <2>2
    <3> QED BY <3>1, <3>2 DEF Inv
  <2> QED BY <2>1, <2>2
<1> QED BY <1>6 DEF one, all

LEMMA ForKeeps == ASSUME Miscompiled \subseteq LeftOut, Inv, For PROVE Inv'
<1>1. CASE LoopOver(stack, <<"for">>)
  BY <1>1, LoopKeeps DEF Inv
<1>2. CASE \E v \in Literals : LoopOver(<<Expression("literal", v.tag, "constant", v)>> \o stack, <<"for", v>>)
  <2>1. PICK v \in Literals : LoopOver(<<Expression("literal", v.tag, "constant", v)>> \o stack, <<"for", v>>)
    BY <1>2
  <2>2. Known(Expression("literal", v.tag, "constant", v))
    BY LiteralKnown DEF Miscompiled
  <2> QED BY <2>1, <2>2, LongerHeader, LoopKeeps
<1>3. CASE \E v \in Values : LoopOver(<<Expression("other", "any", "symbol", v)>> \o stack, <<"for", v>>)
  <2>1. PICK v \in Values : LoopOver(<<Expression("other", "any", "symbol", v)>> \o stack, <<"for", v>>)
    BY <1>3
  <2>2. IsValue(v)
    BY ValuesAssumption DEF IsValue, Tagged, Tags
  <2>3. Known(Expression("other", "any", "symbol", v))
    BY <2>2, OtherKnown
  <2> QED BY <2>1, <2>3, LongerHeader, LoopKeeps
<1> QED BY <1>1, <1>2, <1>3 DEF For

-----------------------------------------------------------------------------
LEMMA InvInit == Init => Inv
<1> SUFFICES ASSUME Init PROVE Inv
  OBVIOUS
<1>1. stack = <<>> /\ outcome = "going"
  BY DEF Init
<1>2. <<>> \in Seq({}) /\ DOMAIN <<>> = {}
  OBVIOUS
<1> QED BY <1>1, <1>2 DEF Inv

LEMMA InvNext ==
    ASSUME Miscompiled \subseteq LeftOut, Inv, [Next]_vars PROVE Inv'
<1>1. CASE Literal
  BY <1>1, LiteralKeeps
<1>2. CASE Parameter
  BY <1>2, ParameterKeeps
<1>3. CASE Unary
  BY <1>3, UnaryKeeps
<1>11. CASE ReadAgain
  BY <1>11, ReadAgainKeeps
<1>4. CASE CastTo
  BY <1>4, CastToKeeps
<1>5. CASE Binary
  <2>1. PICK op \in BinaryOperators : Fold(op) \/ Compute(op)
    BY <1>5 DEF Binary, BinaryOperators
  <2>2. Len(stack) > 1
    BY <1>5 DEF Binary
  <2> QED BY <2>1, <2>2, FoldKeeps, ComputeKeeps
<1>6. CASE Store
  BY <1>6, StoreKeeps
<1>7. CASE Return
  BY <1>7, ReturnKeeps
<1>8. CASE Test
  BY <1>8, TestKeeps
<1>9. CASE For
  BY <1>9, ForKeeps
<1>10. CASE UNCHANGED vars
  BY <1>10 DEF vars, Inv
<1> QED BY <1>1, <1>2, <1>3, <1>4, <1>5, <1>6, <1>7, <1>8, <1>9, <1>10, <1>11 DEF Next

LEMMA Invariance == ASSUME Miscompiled \subseteq LeftOut PROVE Spec => []Inv
<1>1. Inv /\ [Next]_vars => Inv'
  BY InvNext
<1> QED BY InvInit, <1>1, PTL DEF Spec

(* The types the passes go by are those of the values, for every width of an  *)
(* integer and expressions of every size: the checker, the simplifier that    *)
(* folds behind its back, and the linearizer agree on what the C code reads.  *)
THEOREM TypesAgree == ASSUME Miscompiled \subseteq LeftOut PROVE Spec => []TypesSound
<1>1. Inv => TypesSound
  <2> SUFFICES ASSUME Inv, NEW i \in DOMAIN stack
               PROVE  /\ Type(stack[i]) # "any" => stack[i].value.tag = Type(stack[i])
                      /\ stack[i].place \in {TempOf(t) : t \in Numeric \cup {"bool"}}
                            => stack[i].place = TempOf(stack[i].value.tag)
    BY DEF TypesSound
  <2> DEFINE e == stack[i]
  <2>1. Known(e)
    BY DEF Inv
  <2>2. Type(e) \in {"any", e.value.tag} /\ Type(e) \in TypeTags
    BY <2>1, KnownType DEF TypeTags
  <2>3. ASSUME NEW t \in Numeric \cup {"bool"}, e.place = TempOf(t) PROVE e.place = TempOf(e.value.tag)
    <3>1. e.place = TempOf(Type(e))
      BY <2>1, <2>3 DEF Known, TempOf
    <3>2. t = Type(e)
      BY <2>2, <2>3, <3>1, TempsDiffer DEF TypeTags, Tags, Numeric
    <3> QED BY <2>2, <3>1, <3>2 DEF Numeric
  <2> QED BY <2>2, <2>3
<1> QED BY <1>1, Invariance, PTL

(* Whatever is accepted is compiled: no instruction meets an operand or a     *)
(* target that the code generator has no C code for.                          *)
THEOREM CodeForAll == ASSUME Miscompiled \subseteq LeftOut PROVE Spec => []NothingAborted
<1>1. Inv => NothingAborted
  BY DEF Inv, NothingAborted
<1> QED BY <1>1, Invariance, PTL
=============================================================================
