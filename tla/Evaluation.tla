----------------------------- MODULE Evaluation -----------------------------
(* What the code of one statement of a function does, stated without          *)
(* registers: expressions are evaluated in order, each construct in progress  *)
(* gathers the values of its operands, and a construct that has them all      *)
(* gives one value, or several, to the construct around it.  A value is       *)
(* symbolic, the sequence of what it was computed by and from.                *)
EXTENDS Naturals, Sequences, SequencesExt, FiniteSetsExt

CONSTANTS Results,  \* the number of results of a call that may return many
          MaxItems  \* bound on the items of a list of expressions

VARIABLES frames,  \* the constructs in progress, innermost last
          over,    \* the statement has ended
          locals,  \* the values of the variables
          effects  \* what the statement stored, returned or decided on

vars == <<frames, over, locals, effects>>

Statements == {"assign", "return", "condition", "repeat", "for", "function"}
Lists == {"call", "method", "return", "assign", "table"}

Variables == {"local", "local_int"}
Initially == [v \in Variables |-> <<v>>]

Nil == <<"nil">>
Result(i) == << <<"first", "second", "third">>[i] >>

(* A target of an assignment is a variable, or a place in some table.         *)
Targets == Variables \cup {"place"}

Frame(kind, left, wanted, targets) ==
    [kind |-> kind, left |-> left, values |-> <<>>, wanted |-> wanted, targets |-> targets]

Places(f) == Len(SelectSeq(f.targets, LAMBDA t : t = "place"))
Expressions(f) == Len(f.values) + f.left - Places(f)

(* The next operand of f is the last of a list, which what is called is not.  *)
EndsList(f) ==
    /\ f.left = 1 /\ f.kind \in Lists
    /\ f.kind \in {"call", "method"} => f.values # <<>>

(* The results a call gives to the construct f around it.                     *)
Wanted(f) ==
    CASE ~EndsList(f)      -> 1
      [] f.kind = "assign" -> Max({1, Len(f.targets) - Expressions(f) + 1})
      [] OTHER             -> Results

(* The next operand of f is where the value of an assignment goes.            *)
WantsPlace(f) ==
    \/ f.kind = "assign" /\ Len(f.values) < Places(f)
    \/ f.kind = "function"

(* The operand e is added to f: all of it where a list ends, else its first   *)
(* value.  "and" and "or" stop at the first operand or start over; a table    *)
(* grows item by item.                                                        *)
Taken(f, e) ==
    LET taken == IF EndsList(f) THEN e ELSE << e[1] >>
    IN  IF f.kind = "and_or"
        THEN {[f EXCEPT !.left = 0, !.values = << taken >>]}
                 \cup (IF f.left = 2 THEN {[f EXCEPT !.left = 1]} ELSE {})
        ELSE {[f EXCEPT !.left = @ - 1,
                        !.values = IF f.kind = "table"
                                   THEN << << FlattenSeq(FlattenSeq(@)) \o FlattenSeq(taken) >> >>
                                   ELSE Append(@, taken)]}

(* A method gets the value it is called on once more, as an argument.         *)
Made(f) ==
    LET operands == FlattenSeq(FlattenSeq(f.values))
    IN  CASE f.kind = "method"   -> <<"call", "method">> \o f.values[1][1] \o operands
          [] f.kind = "function" -> <<"function">> \o operands \o <<"closure">>
          [] OTHER               -> <<f.kind>> \o operands

(* What f gives when it has all its operands.                                 *)
Given(f) ==
    CASE f.kind \in {"call", "method"}      -> [i \in 1 .. f.wanted |-> Result(i) \o Made(f)]
      [] f.kind \in {"and_or", "assertion", "cast", "parentheses"} -> f.values[1]
      [] OTHER -> << Made(f) >>

-----------------------------------------------------------------------------
(* Target i of an assignment gets expression i, or what the last one has left *)
Adjusted(f, i) ==
    LET values == SubSeq(f.values, Places(f) + 1, Len(f.values))
        n      == Len(values)
    IN  IF i < n THEN values[i][1]
        ELSE IF n > 0 /\ i - n + 1 <= Len(values[n]) THEN values[n][i - n + 1]
        ELSE Nil

Place(f, i) == f.values[Len(SelectSeq(SubSeq(f.targets, 1, i), LAMBDA t : t = "place"))][1]

Stored(f) ==
    SelectSeq([i \in DOMAIN f.targets |->
                  IF f.targets[i] = "place" THEN Place(f, i) \o Adjusted(f, i) ELSE <<>>],
              LAMBDA s : s # <<>>)

(* A variable named twice keeps what it got last.                             *)
Assigned(f) ==
    [v \in Variables |->
        LET is == {i \in DOMAIN f.targets : f.targets[i] = v}
        IN  IF is = {} THEN locals[v] ELSE Adjusted(f, Max(is))]

-----------------------------------------------------------------------------
Init == frames = <<>> /\ over = FALSE /\ locals = Initially /\ effects = <<>>

Begin ==
    /\ frames = <<>> /\ ~over
    /\ \E kind \in Statements, left \in 0 .. 2 * MaxItems, targets \in SeqOf(Targets, MaxItems) :
           frames' = << Frame(kind, left, 1, targets) >>
    /\ UNCHANGED <<over, locals, effects>>

Open ==
    /\ frames # <<>> /\ Last(frames).left > 0
    /\ \E kind \in {"binary", "not_equal", "unary", "cast", "assertion", "parentheses", "and_or",
                    "concat", "table", "record", "index", "call", "method"}, left \in 0 .. MaxItems + 1 :
           frames' = Append(frames, Frame(kind, left, Wanted(Last(frames)), <<>>))
    /\ UNCHANGED <<over, locals, effects>>

Leaf ==
    /\ frames # <<>> /\ Last(frames).left > 0
    /\ \E v \in {<<"constant">>, <<"global">>, <<"closure">>, locals["local"], locals["local_int"]} :
           \E f \in Taken(Last(frames), << v >>) : frames' = Append(Front(frames), f)
    /\ UNCHANGED <<over, locals, effects>>

Close ==
    /\ Len(frames) > 1 /\ Last(frames).left = 0
    /\ \E f \in Taken(frames[Len(frames) - 1], Given(Last(frames))) :
           frames' = Append(SubSeq(frames, 1, Len(frames) - 2), f)
    /\ UNCHANGED <<over, locals, effects>>

End ==
    /\ Len(frames) = 1 /\ frames[1].left = 0
    /\ frames' = <<>>
    /\ IF frames[1].kind = "assign"
       THEN locals' = Assigned(frames[1]) /\ effects' = Stored(frames[1])
       ELSE locals' = locals /\ effects' = << Made(frames[1]) >>
    /\ over' = TRUE

(* The next statement is looked at on its own.                                *)
Again ==
    /\ over /\ over' = FALSE
    /\ locals' = Initially /\ effects' = <<>>
    /\ UNCHANGED frames

Next == Begin \/ Open \/ Leaf \/ Close \/ End \/ Again

Spec == Init /\ [][Next]_vars
=============================================================================
