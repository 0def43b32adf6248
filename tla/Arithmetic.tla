----------------------------- MODULE Arithmetic -----------------------------
(* How numeric expressions are compiled: the type checker types an expression *)
(* from its operands, the simplifier folds literals (and types them anew),    *)
(* the linearizer picks an instruction and a register for those types, and    *)
(* the code generator emits C that reads and writes C variables or Lua        *)
(* registers without checking what it was promised.  The model takes each     *)
(* expression through all four and executes what comes out.                   *)
EXTENDS LuaNumbers, Sequences, SequencesExt

CONSTANTS Values,    \* of the literals and the parameters
          LeftOut,   \* expressions that are not compiled right (see README)
          MaxSteps,  \* bound: operators, operands and stores
          MaxDepth,  \* bound: operands waiting for an operator
          MaxPart    \* bound: numerator and denominator of a float

ASSUME ValuesAssumption ==
    \A v \in Values : v = [tag |-> v.tag, n |-> v.n, d |-> v.d] /\ v.tag \in {"int", "flt", "bool"}
ASSUME BoundsAssumption == MaxSteps \in Nat /\ MaxDepth \in Nat /\ MaxPart \in Nat

VARIABLES stack,    \* the expressions whose value is not used yet
          outcome,  \* going, raised (run time), rejected (an error message of
                    \* the compiler), aborted (no C code, or none that compiles)
          result,   \* what the statement around the expressions got: a value, or
                    \* for a loop those of its variable, turn by turn
          last,     \* what the source said last: an operand, an operator, a
                    \* type to convert to or a statement
          steps

vars == <<stack, outcome, result, last, steps>>

(* An expression: a literal, a "folded" one or another "node"; the type the   *)
(* checker gave it; where its value is; the value that is found there.        *)
Expression(node, checked, place, value) ==
    [node |-> node, checked |-> checked, place |-> place, value |-> value]

Junk    == [tag |-> "junk", n |-> 0, d |-> 1]    \* the bits of another type
Abort   == [tag |-> "abort", n |-> 0, d |-> 1]

Numeric == {"int", "flt"}
IsLiteral(e) == e.node \in {"literal", "folded"}

(* Folding replaces the type as well, after the parent has been checked.      *)
Type(e) == IF e.node = "folded" THEN e.value.tag ELSE e.checked

Init == stack = <<>> /\ outcome = "going" /\ result = <<>> /\ last = <<>> /\ steps = 0

Ended(said) == said # <<>> /\ said[1] \in {"return", "if", "for"}

Stop(how) ==
    /\ outcome' = how
    /\ UNCHANGED <<stack, result, last>>

(* Infinities and NaN are written to the C code as no C compiler knows them.  *)
Unprintable(e) == e.place = "constant" /\ e.value.d = 0

(* The last n expressions become operands of e, as the source said. *)
Push(n, said, e) ==
    IF e.node # "folded" /\ \E i \in 1 .. n : Unprintable(stack[Len(stack) - n + i]) THEN Stop("aborted") ELSE
    CASE e.value = Error -> outcome' = "raised" /\ last' = said /\ UNCHANGED <<stack, result>>
      [] e.value = Abort -> Stop("aborted")
      [] OTHER ->
            /\ Abs(e.value.n) <= MaxPart /\ e.value.d <= MaxPart
            /\ stack' = Append(SubSeq(stack, 1, Len(stack) - n), e)
            /\ last' = said
            /\ UNCHANGED <<outcome, result>>

Top  == Last(stack)
Left == stack[Len(stack) - 1]

-----------------------------------------------------------------------------
(* Types. *)
UnaryType(op, t) == IF op = "minus" /\ t \in Numeric THEN t ELSE "any"

BinaryTypeGuessed(op, t1, t2) ==
    IF {t1, t2} \subseteq Numeric THEN IF op \in {"idiv", "mod"} THEN "int" ELSE "flt" ELSE "any"

BinaryType(op, t1, t2) ==
    LET numbers  == {t1, t2} \subseteq Numeric
        integers == {t1, t2} = {"int"}
    IN  CASE op \in {"add", "sub", "mul"} /\ numbers        -> IF integers THEN "int" ELSE "flt"
          [] op \in {"idiv", "mod"} /\ integers             -> "int"
          [] op = "mod" /\ {t1, t2} = Numeric               -> "flt"
          [] op \in {"div", "pow"} /\ numbers               -> "flt"
          [] op \in BitOperators /\ numbers                 -> "int"
          [] op \in Comparisons /\ {t1, t2} \subseteq Numeric \cup {"bool"} -> "bool"
          [] OTHER                                          -> "any"

(* What may be assigned to a variable of type t. *)
Assignable(t, e) == t = "any" \/ e.checked \in Numeric \cup {"any"}

(* What may be cast to a type. *)
Castable(type, t) == t \in {"any", "int", type}

-----------------------------------------------------------------------------
(* Folding.  The shift of the simplifier keeps the sign. *)
FoldedShift(i, k) ==
    IF Abs(k) >= W THEN 0 ELSE IF k >= 0 THEN i * 2 ^ k ELSE i \div 2 ^ (-k)

luaO_rawarith(op, a, b) ==
    IF ~(HasInteger(a) /\ HasInteger(b)) THEN luaO_arith(op, a, b) ELSE
    CASE op = "shl" -> Ival(FoldedShift(a.n, b.n))
      [] op = "shr" -> Ival(FoldedShift(a.n, Wrap(-b.n)))
      [] OTHER      -> luaO_arith(op, a, b)

Folded(checked, v) == Expression("folded", checked, "constant", v)

-----------------------------------------------------------------------------
(* Instructions. *)
TempOf(type) ==
    CASE type = "int"  -> "temp_int"
      [] type = "flt"  -> "temp_flt"
      [] type = "bool" -> "temp_bool"
      [] OTHER         -> "temp_any"

SwappedForTypes(op, t1, t2) == op \in {"add", "mul"} /\ t1 = "int" /\ t2 = "flt"

Swapped(op, t1, t2) ==
    \/ op \in {"add", "mul"} /\ t1 = "int" /\ t2 = "flt"
    \/ op \in {"gt", "ge"}

(* The opcode is the one with a suffix for the types of its operands. *)
Specialised(op, t1, t2) ==
    \/ op \in {"add", "sub", "mul", "div"} /\ {t1, t2} \subseteq Numeric
    \/ op \in BitOperators /\ {t1, t2} = {"int"}
    \/ op \in Comparisons /\ t1 = t2 /\ t1 \in Numeric

Opcode(op) ==
    CASE op = "gt" -> "lt"
      [] op = "ge" -> "le"
      [] op = "ne" -> "eq"
      [] OTHER     -> op

(* ivalue() and fltvalue() of a Lua register take what is there for the type. *)
Raw(e, type) == IF e.value.tag = type THEN e.value ELSE Junk

(* A C expression for an operand of a specialised instruction. *)
emit_varname_or_constant(e) ==
    CASE e.place \in {"constant", "temp_int", "temp_flt", "temp_bool"} -> e.value
      [] e.place = "symbol" /\ e.checked \in Numeric                     -> Raw(e, e.checked)
      [] OTHER                                                           -> Abort

(* Division of two integers is C's, which rounds towards zero. *)
CDiv(i, j) == IF j = 0 THEN Junk ELSE Fval(Sign(i) * Sign(j) * (Abs(i) \div Abs(j)))

SpecialisedValue(op, a, b) ==
    IF Abort \in {a, b} THEN Abort
    ELSE IF op \in Comparisons THEN Compared(op, a, b)
    ELSE IF ~(a.tag = "int" /\ b.tag = "int") THEN FltArith(op, ToFlt(a), ToFlt(b))
    ELSE IF op = "div" THEN CDiv(a.n, b.n) ELSE IntArith(op, a.n, b.n)

(* What is found in a temporary after v was written to it as it is. *)
Into(temp, v) ==
    IF v.tag \in {"error", "abort"} \/ temp = "temp_any" \/ temp = TempOf(v.tag) THEN v ELSE Junk

(* The generic instructions.  Addition, subtraction and multiplication write  *)
(* to a scratch value when the target is not a Lua register.                  *)
GenericValue(op, a, b, temp) ==
    CASE op \in Comparisons           -> Into(temp, Compared(op, a, b))
      [] op \in {"add", "sub", "mul"} -> Into("temp_any", IF temp = "temp_any" \/ luaO_arith(op, a, b) = Error
                                                          THEN luaO_arith(op, a, b) ELSE Junk)
      [] OTHER                        -> Into(temp, luaO_arith(op, a, b))

(* The shift to the right puts a minus before its operand, a second one for   *)
(* some constants.                                                            *)
MinusMinus(op, l, r) ==
    op = "shr" /\ Specialised(op, Type(l), Type(r)) /\ r.place = "constant" /\ r.value.n < 0

(* The value of the instruction for l op r in a temporary. *)
Executed(op, l, r, temp) ==
    CASE ~Specialised(op, Type(l), Type(r)) -> GenericValue(op, l.value, r.value, temp)
      [] MinusMinus(op, l, r)               -> Abort
      [] OTHER -> Into(temp, SpecialisedValue(op, emit_varname_or_constant(l), emit_varname_or_constant(r)))

linearize_binary_operator(op, l, r) ==
    LET type  == BinaryType(op, l.checked, r.checked)
        swap  == Swapped(op, Type(l), Type(r))
        NotIf(v) == IF op = "ne" /\ v.tag = "bool" THEN Bval(~IsTrue(v)) ELSE v
    IN  Expression("other", type, TempOf(type),
                   NotIf(Executed(Opcode(op), IF swap THEN r ELSE l, IF swap THEN l ELSE r, TempOf(type))))

(* Unary operators work on a temporary reserved for the type of the operand.  *)
MinusAnyTemp(type) == "temp_any"

MinusTemp(type) == TempOf(type)

linearize_unary_operator(op, e) ==
    LET type == UnaryType(op, Type(e)) IN
    CASE op = "minus" -> Expression("other", type, MinusTemp(Type(e)),
                                    Minus(IF type \in Numeric THEN Raw(e, type) ELSE e.value))
      [] op = "bnot"  -> Expression("other", type, "temp_any", Complement(e.value))
      [] op = "not"   -> Expression("other", type, "temp_any", Bval(~IsTrue(e.value)))

(* op_toint tests a Lua register and leaves it as it is, op_toflt converts    *)
(* it; a move to a C variable follows.                                        *)
ToType(type, v) ==
    CASE type = "int" -> IF ~HasInteger(v) THEN Error ELSE Into("temp_int", v)
      [] type = "flt" -> Converted("flt", v)
      [] OTHER        -> v

Cast(type, e) ==
    IF Type(e) = type THEN [e EXCEPT !.node = "other", !.checked = type]
    ELSE IF e.place \in (IF type = "int" THEN {"constant", "temp_flt"} ELSE {"temp_int"})
    THEN Expression("other", type, TempOf(type), Abort)
    ELSE Expression("other", type, TempOf(type), ToType(type, e.value))

(* What a variable of some type gets.  Values the checker knows nothing of    *)
(* are tested, and numbers of the other type are converted.                   *)
linearize_store_var(type, e) ==
    IF type = "any" THEN e.value ELSE
    CASE Type(e) = type    -> Raw(e, type)
      [] Type(e) = "any"   -> ToType(type, e.value)
      [] OTHER             -> Converted(type, e.value)

-----------------------------------------------------------------------------
(* The header of a loop.  Unless all of it is numbers for the checker, what   *)
(* is not an integer is cast to one, without being checked in turn.           *)
typecheck_for_num_statment(header) ==
    IF \A i \in DOMAIN header : header[i].checked \in Numeric THEN header
    ELSE [i \in DOMAIN header |->
             IF header[i].checked = "int" THEN header[i] ELSE Cast("int", header[i])]

(* Numbers that are no integers, and literals, cannot be cast.                *)
Miscast(header) ==
    \E i \in DOMAIN header :
        /\ header[i].checked # "int"
        /\ Type(header[i]) \in Numeric \/ header[i].place = "constant"
        /\ Type(header[i]) # "int"

(* Mutant: any literal counts as positive.                                    *)
StepKnown(header) == Len(header) = 3 => IsLiteral(header[3])

StepKnownPositive(header) ==
    Len(header) = 3 => IsLiteral(header[3]) /\ header[3].value.n > 0

(* The loop takes the step off the index, and adds it again before each test. *)
(* As the index has W bits, what lasts 2^W turns does not end.                *)
linearize_for_num_statement(header) ==
    LET index    == header[1].value.n
        limit    == header[2].value.n
        step     == IF Len(header) = 3 THEN header[3].value.n ELSE 1
        positive == StepKnownPositive(header) \/ 0 < step
        at[k \in 0 .. 2 ^ W] == IF k = 0 THEN IntArith("sub", index, step).n
                                ELSE IntArith("add", at[k - 1], step).n
        stop(k)  == IF positive THEN limit < at[k] ELSE at[k] < limit
        turns    == CHOOSE k \in DOMAIN at :
                        /\ \A j \in 1 .. k : ~stop(j)
                        /\ k = 2 ^ W \/ stop(k + 1)
    IN  [k \in 1 .. turns |-> Ival(at[k])]

-----------------------------------------------------------------------------
(* Actions. *)
Step == outcome = "going" /\ ~Ended(last) /\ steps < MaxSteps /\ steps' = steps + 1

(* The lexer makes an infinity of a literal that is too large. *)
Literals == {v \in Values : "fold_inf" \in LeftOut => v.d # 0}

Literal ==
    /\ Step /\ Len(stack) < MaxDepth
    /\ \E v \in Literals : Push(0, <<"any", v>>, Expression("literal", v.tag, "constant", v))

(* Parameters are converted to their type when the function starts.           *)
Parameter ==
    /\ Step /\ Len(stack) < MaxDepth
    /\ \E v \in Values, type \in {"any", "int", "flt"} :
         /\ "float_as_int" \in LeftOut => ~(type = "int" /\ v.tag = "flt")
         /\ Push(0, <<type, v>>, Expression("other", type, "symbol", ToType(type, v)))

(* Some literals cannot be folded: a boolean, a float that is not whole.      *)
Unary ==
    /\ Step /\ stack # <<>>
    /\ \E op \in {"minus", "bnot", "not"} :
         LET v == IF op = "minus" THEN Minus(Top.value) ELSE Complement(Top.value) IN
         IF op # "not" /\ IsLiteral(Top) /\ v # Error
         THEN Push(1, <<op>>, Folded(UnaryType(op, Top.checked), v))
         ELSE Push(1, <<op>>, linearize_unary_operator(op, Top))

(* A variable in a Lua register is read again, before its value is used.  An  *)
(* operand that is a variable is not copied.                                  *)
ReadAgain ==
    /\ Step /\ 0 < Len(stack) /\ Len(stack) < MaxDepth
    /\ Top.place = "symbol" /\ last # <<"again">>
    /\ Push(0, <<"again">>, Top)

(* op_toflt writes the float to the register that held the integer, that of   *)
(* the variable: who read the variable just before finds the float in it.     *)
WritesBack(type) ==
    /\ last = <<"again">>
    /\ type = "flt" /\ Type(Top) # "flt" /\ Top.value.tag = "int"

WrittenBack == [Top EXCEPT !.value = Converted("flt", @)]

CastTo ==
    /\ Step /\ stack # <<>>
    /\ \E type \in Numeric :
         /\ "float_as_int" \in LeftOut => ~(type = "int" /\ Top.value.tag = "flt")
         /\ "number_of_int" \in LeftOut => ~(type = "flt" /\ Type(Top) = "int")
         /\ "number_of_local" \in LeftOut => ~WritesBack(type)
         /\ IF ~Castable(type, Top.checked) THEN Stop("rejected")
            ELSE IF ~WritesBack(type) THEN Push(1, <<type>>, Cast(type, Top))
            ELSE /\ stack' = [stack EXCEPT ![Len(stack) - 1] = WrittenBack,
                                          ![Len(stack)] = Cast(type, Top)]
                 /\ last' = <<type>>
                 /\ UNCHANGED <<outcome, result>>

(* Both operands are literals and the operator is one the simplifier knows.   *)
Foldable(op) == op \in Arithmetics /\ IsLiteral(Left) /\ IsLiteral(Top)
OfLiterals(op) == luaO_rawarith(op, Left.value, Top.value)
DividesByZero(op) ==
    /\ Foldable(op) /\ op \in {"idiv", "mod"} /\ Left.value.tag = "int" /\ Top.value.tag = "int"
    /\ OfLiterals(op) = Error

Fold(op) ==
    /\ Step /\ Foldable(op)
    /\ "fold_shift" \in LeftOut =>
          ~(Left.value.n < 0 /\ op = (IF Top.value.n > 0 THEN "shr" ELSE "shl"))
    /\ IF DividesByZero(op) THEN Stop("rejected")
       ELSE \E v \in {OfLiterals(op)} \ {Error} :
             /\ "fold_inf" \in LeftOut => v.d # 0
             /\ Push(2, <<op>>, Folded(BinaryType(op, Left.checked, Top.checked), v))

(* What is not folded is compiled. *)
Compute(op) ==
    /\ Step
    /\ Foldable(op) => OfLiterals(op) = Error /\ ~DividesByZero(op)
    /\ "int_div" \in LeftOut => ~(op = "div" /\ Type(Left) = "int" /\ Type(Top) = "int")
    /\ "minus_minus" \in LeftOut => ~MinusMinus(op, Left, Top)
    /\ Push(2, <<op>>, linearize_binary_operator(op, Left, Top))

(* Powers stay within fractions. *)
Binary ==
    /\ Len(stack) > 1
    /\ \E op \in Arithmetics \cup Comparisons :
         /\ op = "pow" => Top.value.d = 1 /\ Abs(Top.value.n) <= 3
         /\ Fold(op) \/ Compute(op)

(* A local variable is given the expression, and is read next.  One that is   *)
(* declared with a literal and never assigned to has the literal's type.      *)
(* Only captured variables of a numeric type are kept in Lua registers.       *)
Store ==
    /\ Step /\ stack # <<>>
    /\ \E declared \in {"any", "int", "flt"}, captured \in BOOLEAN :
       \E type \in {declared} \cup (IF declared = "any" /\ Top.node = "literal" /\ Top.checked \in Numeric
                                   THEN {Top.checked} ELSE {}) :
         /\ "float_as_int" \in LeftOut => ~(type = "int" /\ Type(Top) = "any" /\ Top.value.tag = "flt")
         /\ IF ~Assignable(type, Top) THEN Stop("rejected")
            ELSE Push(1, <<declared>>,
                      Expression("other", type, IF captured \/ type = "any" THEN "symbol" ELSE TempOf(type),
                                 linearize_store_var(type, Top)))

Finish(n, said, r) ==
    /\ outcome = "going" /\ ~Ended(last) /\ Len(stack) = n
    /\ IF r = <<Abort>> \/ (n = 1 /\ Unprintable(Top)) THEN Stop("aborted")
       ELSE result' = r /\ last' = said /\ stack' = <<>> /\ UNCHANGED outcome
    /\ UNCHANGED steps

(* emit_move() to the caller's registers. *)
Return == stack # <<>> /\ Finish(1, <<"return">>, <<Top.value>>)

(* emit_op_cbr() knows constants, booleans and Lua registers. *)
Test ==
    /\ stack # <<>>
    /\ "number_condition" \in LeftOut => Top.place \notin {"temp_int", "temp_flt"}
    /\ Finish(1, <<"if">>, <<IF Top.place \in {"temp_int", "temp_flt"} THEN Abort ELSE Bval(IsTrue(Top.value))>>)

LoopOver(header, said) ==
    LET all    == typecheck_for_num_statment(header)
        Some(v) == \E i \in DOMAIN all : all[i].value = v
    IN  /\ outcome = "going" /\ ~Ended(last) /\ Len(stack) = 2
        /\ "float_as_int" \in LeftOut =>
              \A i \in DOMAIN header : ~(Type(header[i]) = "any" /\ header[i].value.tag = "flt")
        /\ "header_cast" \in LeftOut => ~Miscast(header)
        /\ "zero_step" \in LeftOut => ~(Len(header) = 3 /\ header[3].value = Ival(0))
        /\ IF \E i \in DOMAIN all : Type(all[i]) # "int" THEN Stop("rejected") /\ UNCHANGED steps
           ELSE IF Some(Abort) THEN Stop("aborted") /\ UNCHANGED steps
           ELSE IF Some(Error) THEN outcome' = "raised" /\ last' = said /\ UNCHANGED <<stack, result, steps>>
           ELSE Finish(2, said, linearize_for_num_statement(all))

(* Two expressions, and before them, if there is a step, a literal or a       *)
(* parameter.                                                                 *)
For ==
    \/ LoopOver(stack, <<"for">>)
    \/ \E v \in Literals : LoopOver(<<Expression("literal", v.tag, "constant", v)>> \o stack, <<"for", v>>)
    \/ \E v \in Values : LoopOver(<<Expression("other", "any", "symbol", v)>> \o stack, <<"for", v>>)

Next == Literal \/ Parameter \/ ReadAgain \/ Unary \/ CastTo \/ Binary \/ Store \/ Return \/ Test \/ For

Spec == Init /\ [][Next]_vars

-----------------------------------------------------------------------------
(* The types that the checker, the simplifier and the linearizer go by are    *)
(* those of the values: the C code reads int, double and Lua registers as     *)
(* what they hold.                                                            *)
TypesSound ==
    \A i \in DOMAIN stack :
        /\ Type(stack[i]) # "any" => stack[i].value.tag = Type(stack[i])
        /\ stack[i].place \in {TempOf(t) : t \in Numeric \cup {"bool"}}
               => stack[i].place = TempOf(stack[i].value.tag)

(* The code generator has code for every instruction the linearizer makes,    *)
(* with operands and targets in the places they are in.                       *)
NothingAborted == outcome # "aborted"

(* What the compiled code computes, and when it raises an error, is what Lua  *)
(* says of the expression.                                                    *)
Lua == INSTANCE LuaArithmetic WITH
    values <- [i \in DOMAIN stack |-> stack[i].value],
    raised <- outcome = "raised"

ImplementsLua == Lua!Spec
=============================================================================
