---------------------------- MODULE LuaArithmetic ---------------------------
(* What an expression over numbers and booleans means in Lua, with the typed  *)
(* variables and casts of Ravi: its operands are evaluated on a stack, and    *)
(* types matter only where a value is converted to one.                       *)
EXTENDS LuaNumbers, Sequences, SequencesExt

CONSTANT Values   \* the values the expressions start from

VARIABLES values,  \* of the operands
          raised,  \* an error was raised
          result,  \* what the statement around the expressions got
          last     \* what the source said last

vars == <<values, raised, result, last>>

Init == values = <<>> /\ raised = FALSE /\ result = <<>> /\ last = <<>>

Ended(said) == said # <<>> /\ said[1] \in {"return", "if", "for"}

(* The last n operands give way to v, unless v is an error. *)
Yield(n, said, v) ==
    /\ ~raised /\ ~Ended(last)
    /\ raised' = (v = Error)
    /\ values' = IF v = Error THEN values ELSE Append(SubSeq(values, 1, Len(values) - n), v)
    /\ last' = said
    /\ UNCHANGED result

Operand1 == Last(values)
Operand2 == values[Len(values) - 1]

(* A literal, or a parameter of some type. *)
Read == \E v \in Values, type \in {"any", "int", "flt"} : Yield(0, <<type, v>>, Converted(type, v))

(* A variable is read again. *)
ReadAgain == values # <<>> /\ Yield(0, <<"again">>, Operand1)

Unary ==
    /\ values # <<>>
    /\ \/ Yield(1, <<"minus">>, Minus(Operand1))
       \/ Yield(1, <<"bnot">>, Complement(Operand1))
       \/ Yield(1, <<"not">>, Bval(~IsTrue(Operand1)))

Binary ==
    /\ Len(values) > 1
    /\ \/ \E op \in Arithmetics : Yield(2, <<op>>, luaO_arith(op, Operand2, Operand1))
       \/ \E op \in Comparisons : Yield(2, <<op>>, Compared(op, Operand2, Operand1))

(* A cast, or an assignment to a variable that is read next. *)
Convert == values # <<>> /\ \E type \in {"any", "int", "flt"} : Yield(1, <<type>>, Converted(type, Operand1))

(* A return statement, or a condition. *)
Finish ==
    /\ ~raised /\ ~Ended(last) /\ Len(values) = 1
    /\ \/ last' = <<"return">> /\ result' = <<Operand1>>
       \/ last' = <<"if">> /\ result' = <<Bval(IsTrue(Operand1))>>
    /\ values' = <<>>
    /\ UNCHANGED raised

(* The values of the variable of "for v = index, limit, step", as far as they *)
(* do not repeat themselves, by the loop docs/linear-ir.md spells it out as.  *)
Turns(index, limit, step) ==
    LET var(k)   == Wrap(index + (k - 1) * step)
        break(k) == (step >= 0 /\ var(k) > limit) \/ (step < 0 /\ var(k) < limit)
    IN  [k \in {k \in 1 .. 2 ^ W : \A j \in 1 .. k : ~break(j)} |-> Ival(var(k))]

(* Loops run over integers only. *)
Loop(header) ==
    LET integers == [i \in 1 .. 3 |-> Converted("int", IF i \in DOMAIN header THEN header[i] ELSE Ival(1))] IN
    IF \E i \in 1 .. 3 : integers[i] = Error THEN raised' = TRUE /\ UNCHANGED <<values, result>>
    ELSE /\ result' = Turns(integers[1].n, integers[2].n, integers[3].n)
         /\ values' = <<>>
         /\ UNCHANGED raised

For ==
    /\ ~raised /\ ~Ended(last) /\ Len(values) = 2
    /\ \/ last' = <<"for">> /\ Loop(values)
       \/ \E v \in Values : last' = <<"for", v>> /\ Loop(<<v>> \o values)

Next == Read \/ ReadAgain \/ Unary \/ Binary \/ Convert \/ Finish \/ For

Spec == Init /\ [][Next]_vars
=============================================================================
