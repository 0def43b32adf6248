---------------------------- MODULE Expressions -----------------------------
(* The expression half of the linearizer (src/linearizer.c): how the code of  *)
(* an expression is emitted into registers that are allocated and freed by    *)
(* hand, how loads from a table are put off until it is known that they are   *)
(* loads, and how a call hands its arguments and many results on.             *)
(*                                                                            *)
(* The statement is not fixed: each expression the walk meets is chosen when  *)
(* it is met.  An instruction is executed when it is emitted, on symbolic     *)
(* values, as the code of src/codegen.c would; where "and" or "or" stop at    *)
(* their first operand the code of the second is emitted and skipped.         *)
(*                                                                            *)
(* Two kinds of registers are kept apart: those on the Lua stack and those of *)
(* C variables, here the integers; floats have a third set of their own that  *)
(* is handled as the integers are.  A range_in_use has RangeBits bits.        *)
EXTENDS Integers, Sequences, SequencesExt, FiniteSetsExt

CONSTANTS Results,   \* the number of results of a call that may return many
          MaxNodes,  \* bound on the variables and expressions of a statement
          MaxDepth,  \* bound on their nesting
          MaxItems,  \* bound on the items of a list of expressions
          MaxReg,    \* bound on the registers that expressions so small need
          RangeBits, \* width of range_in_use
          LeftOut    \* the shapes of statements the statements may not have

Shapes == {"method_argument", "typed_callee", "pending_key", "typed_swap", "assertion_of_call",
           "place_without_value", "range_operand"}

ASSUME BoundsAssumption ==
    /\ Results \in 2 .. 3 /\ MaxNodes \in Nat /\ MaxDepth \in Nat /\ MaxItems \in Nat
    /\ MaxReg \in Nat /\ RangeBits \in Nat \ {0} /\ LeftOut \subseteq Shapes

VARIABLES proc,   \* struct Proc: its register sets, and what the registers hold
          frames, \* the linearize_* functions in progress, innermost last
          nodes   \* variables and expressions of the statement, those to come included

vars == <<proc, frames, nodes>>

-----------------------------------------------------------------------------
(* Pseudos.  An indexed one is an element that may become a load or a store.  *)
Temp(type, reg)  == [kind |-> "temp", type |-> type, reg |-> reg]
RangeFrom(reg)   == [kind |-> "range", type |-> "any", reg |-> reg]
Select(reg)      == [kind |-> "select", type |-> "any", reg |-> reg]
Local            == [kind |-> "symbol", type |-> "any", reg |-> 0]
TypedLocal       == [kind |-> "temp_for_local", type |-> "int", reg |-> 0]
Constant         == [kind |-> "constant", type |-> "any", reg |-> 0]
Indexed(container, key, type) ==
    [kind |-> "indexed", type |-> type, container |-> container, key |-> key]
Global == Indexed([Constant EXCEPT !.kind = "upvalue"], Constant, "any")

IsRange(p)   == p.kind = "range"
IsIndexed(p) == p.kind = "indexed"
ToTemp(p)    == IF IsRange(p) THEN Temp("any", p.reg) ELSE p

(* struct Proc.  skip is the frame at which execution goes on, 0 if it does;  *)
(* top is L->top, ok that no assertion of the code has failed and that there  *)
(* is code for what was emitted, over that the statement has ended.           *)
Junk == <<"junk">>
Types == {"any", "int"}
Registers == 0 .. MaxReg
InUse == [any |-> {}, int |-> {TypedLocal.reg}]
EmptyProc ==
    [used  |-> InUse,
     file  |-> [t \in Types |-> [r \in Registers |->
                  IF t = "int" /\ r = TypedLocal.reg THEN <<"local_int">> ELSE Junk]],
     local |-> <<"local">>, effects |-> <<>>, top |-> MaxReg + 1,
     picks |-> {}, skip |-> 0, ok |-> TRUE, over |-> FALSE]

Require(m, condition) == [m EXCEPT !.ok = @ /\ condition]

ReadOne(m, p) ==
    CASE p.kind = "symbol"   -> m.local
      [] p.kind = "constant" -> <<"constant">>
      [] OTHER               -> m.file[p.type][p.reg]

Read(m, p) ==
    IF p = Global THEN <<"global">>
    ELSE IF IsIndexed(p) THEN <<"index">> \o ReadOne(m, p.container) \o ReadOne(m, p.key)
    ELSE ReadOne(m, p)

(* The instruction just emitted gives p the value v. *)
Exec(m, p, v) ==
    CASE m.skip # 0        -> m
      [] p.kind = "symbol" -> [m EXCEPT !.local = v]
      [] OTHER             -> [m EXCEPT !.file[p.type][p.reg] = v]

Effect(m, v) == IF m.skip # 0 THEN m ELSE [m EXCEPT !.effects = Append(@, v)]

-----------------------------------------------------------------------------
(* Registers. *)
TopReg(regs) == Max(regs \cup {-1})

Allocate(m, type, r) == [m |-> [m EXCEPT !.used[type] = @ \cup {r}], p |-> Temp(type, r)]

(* Mutant: any free register is as good as the one at the top. *)
AllocateTempAnywhere(m, type) == Allocate(m, type, Min(Registers \ m.used[type]))

AllocateTemp(m, type) == Allocate(m, type, TopReg(m.used[type]) + 1)

(* The registers of a loop are the first free ones, not those at the top.     *)
AllocateFirstFree(m, type) == Allocate(m, type, Min(Registers \ m.used[type]))

(* The register just allocated gets the value v. *)
Into(a, v) == [m |-> Exec(a.m, a.p, v), p |-> a.p]

(* Mutant: the register of a local is freed with the expression it was in. *)
FreeOneLocal(m, p) ==
    CASE p.kind \in {"temp", "temp_for_local"} -> [m EXCEPT !.used[p.type] = @ \ {p.reg}]
      [] p.kind = "range"  -> Require([m EXCEPT !.used.any = @ \ {p.reg}], m.picks = {})
      [] p.kind = "select" -> [m EXCEPT !.picks = @ \ {p.reg % RangeBits}]
      [] OTHER             -> m

FreeOne(m, p) ==
    CASE p.kind = "temp"   -> [m EXCEPT !.used[p.type] = @ \ {p.reg}]
      [] p.kind = "range"  -> Require([m EXCEPT !.used.any = @ \ {p.reg}], m.picks = {})
      [] p.kind = "select" -> [m EXCEPT !.picks = @ \ {p.reg % RangeBits}]
      [] OTHER             -> m

Free(m, p) == IF IsIndexed(p) THEN FreeOne(FreeOne(m, p.key), p.container) ELSE FreeOne(m, p)
FreeAll(m, ps) == FoldLeft(Free, m, ps)

(* check_pseudo_is_top() *)
CheckTop(m, p) ==
    Require(m, p.kind \in {"temp", "range"} => TopReg(m.used[p.type]) \in {-1, p.reg})

Pick(m, range, i) ==
    LET bit == (range.reg + i) % RangeBits
    IN  [m |-> Require([m EXCEPT !.picks = @ \cup {bit}], bit \notin m.picks),
         p |-> Select(range.reg + i)]

-----------------------------------------------------------------------------
(* Loads.  The registers of the container and the key are free again before   *)
(* the register of the element is allocated, which may be one of them.        *)
IndexedLoad(m, p) == Into(AllocateTemp(Free(m, p), p.type), Read(m, p))

Resolved(m, p) == IF IsIndexed(p) THEN IndexedLoad(m, p) ELSE [m |-> m, p |-> p]
FreeLoaded(m, raw, loaded) == IF IsIndexed(raw) THEN Free(m, loaded) ELSE m

(* op_mov.  emit_move() takes a pick from a range but has no code for a range *)
(* itself: it reports an error, and nothing comes to the target.              *)
Moved(m, target, p) ==
    IF IsRange(p) THEN Exec(Require(m, FALSE), target, Junk) ELSE Exec(m, target, Read(m, p))

(* instruct_move() *)
Move(m, target, source) ==
    LET From(l) == FreeLoaded(Moved(l.m, target, l.p), source, l.p)
    IN  From(Resolved(m, source))

MoveTo(a, p) == [m |-> Move(a.m, a.p, p), p |-> a.p]

(* Mutant: a local is used where it is. *)
CopyNothing(m, p) == [m |-> m, p |-> p]

CopyToTempIfNecessary(m, p) ==
    IF p.kind = "symbol" THEN MoveTo(AllocateTemp(m, p.type), p) ELSE [m |-> m, p |-> p]

(* All the values of p, where the code goes on to L->top. *)
ReadAll(m, p) ==
    IF IsRange(p) THEN FlattenSeq([i \in 1 .. m.top - p.reg |-> m.file.any[p.reg + i - 1]])
    ELSE Read(m, p)

ReadEach(m, ps) == FlattenSeq([i \in DOMAIN ps |-> Read(m, ps[i])])

(* Of a list of operands the last may be a range. *)
ReadList(m, ps) ==
    IF ps = <<>> THEN <<>> ELSE ReadEach(m, Front(ps)) \o ReadAll(m, Last(ps))

(* emit_op_call(): the operands are copied to where the callee expects them,  *)
(* the last one first; the results come back to the same registers, and what  *)
(* was above them is lost to the callee.                                      *)
Copied(m, from, to) == [m EXCEPT !.file.any[to] = Read(m, from)]

CallMoves(m, target, operands) ==
    LET n     == Len(operands)
        last  == Last(operands)
        range == n > 1 /\ IsRange(last)
        many  == IF range THEN [i \in 1 .. m.top - last.reg |->
                                   <<Temp("any", m.top - i), target + n - 1 + m.top - i - last.reg>>]
                 ELSE <<>>
        one   == IF range THEN n - 1 ELSE n
    IN  many \o [i \in 1 .. one |-> <<operands[one - i + 1], target + one - i>>]

EmitCall(m, target, operands, wanted) ==
    LET moves == SelectSeq(CallMoves(m, target, operands), LAMBDA mv : mv[2] <= MaxReg)
        ready == FoldLeft(LAMBDA acc, mv : Copied(acc, mv[1], mv[2]), m, moves)
        n     == Len(operands)
        top   == IF n > 1 /\ IsRange(Last(operands))
                 THEN Min({target + n - 1 + m.top - Last(operands).reg, MaxReg + 1})
                 ELSE target + n
        made  == <<"call">> \o FlattenSeq([i \in 1 .. top - target |-> ready.file.any[target + i - 1]])
        name  == << <<"first">>, <<"second">>, <<"third">> >>
    IN  IF m.skip # 0 THEN m
        ELSE [m EXCEPT !.file.any = [r \in Registers |->
                            IF r < target THEN @[r]
                            ELSE IF r < target + wanted THEN name[r - target + 1] \o made ELSE Junk],
                       !.top = IF wanted = Results THEN target + wanted ELSE MaxReg + 1]

-----------------------------------------------------------------------------
(* The functions in progress.  left counts the expressions still to come,     *)
(* held the pseudos of those that came; raw are those loaded in the meantime. *)
Statements == {"assign", "return", "condition", "repeat", "for", "function"}
Lists == {"call", "method", "return", "assign", "table"}

Frame(kind, type, left, wanted, targets, reserved) ==
    [kind |-> kind, type |-> type, left |-> left, wanted |-> wanted, targets |-> targets,
     reserved |-> reserved, held |-> <<>>, raw |-> <<>>]

Top == Last(frames)
Places(f) == Len(SelectSeq(f.targets, LAMBDA t : t = "place"))
WantsPlace(f) == f.kind = "function" \/ (f.kind = "assign" /\ Len(f.held) < Places(f))

IsCallee(f) == f.kind \in {"call", "method"} /\ f.held = <<>>
EndsList(f) == f.left = 1 /\ f.kind \in Lists /\ ~IsCallee(f)

(* num_results: a call at the end of a list may give more than one, also the  *)
(* call in parentheses (has_function_call), which is one value all the same.  *)
NumResults(f) ==
    CASE f.kind = "parentheses" -> f.wanted
      [] ~EndsList(f)           -> 1
      [] f.kind = "assign"      -> Max({1, Len(f.targets) - (Len(f.held) + f.left - Places(f)) + 1})
      [] OTHER                  -> Results

Hold(f, p) == [f EXCEPT !.left = @ - 1, !.held = Append(@, p)]
Pair(m, f) == [m |-> m, f |-> f]
Held(f, l) == Pair(l.m, Hold(f, l.p))

OnlyOne(f, p) == IF f.left > 1 THEN ToTemp(p) ELSE p
Chained(m, p) == IF IsRange(p) THEN [m |-> m, p |-> ToTemp(p)] ELSE Resolved(m, p)

(* What is called moves to a register of the stack, for a method next to the  *)
(* object it is looked up in.                                                 *)
Callee(m, f, p) ==
    LET Called(c) ==
        CASE f.kind = "method" ->
                 LET h == Held(f, Into(AllocateTemp(c.m, "any"), <<"method">> \o Read(c.m, c.p)))
                 IN  [h EXCEPT !.f.held = Append(@, c.p)]
          [] f.kind = "call" /\ c.p.kind = "temp" /\ c.p.type = "any" -> Pair(CheckTop(c.m, c.p), Hold(f, c.p))
          [] OTHER -> Held(f, MoveTo(AllocateTemp(c.m, "any"), c.p))
    IN  Called(Chained(m, p))

Argument(m, f, p) == Held(f, Resolved(m, OnlyOne(f, p)))

(* The item goes into the table at once. *)
Item(m, f, p) ==
    LET table  == f.reserved[1]
        Put(l) == FreeLoaded(Exec(l.m, table, Read(l.m, table) \o ReadAll(l.m, l.p)), p, l.p)
    IN  Pair(Free(Put(Resolved(m, OnlyOne(f, p))), p), [f EXCEPT !.left = @ - 1])

(* Mutant: the value is pinned down where the assignment is done, not before. *)
RightHandSideShared(m, f, p) ==
    LET One(l) == Pair(l.m, Hold(f, OnlyOne(f, l.p))) IN One(Resolved(m, p))

RightHandSide(m, f, p) ==
    LET Pinned(l) == CopyToTempIfNecessary(l.m, l.p)
        One(c)     == Pair(c.m, Hold(f, OnlyOne(f, c.p)))
    IN  One(Pinned(Resolved(m, p)))

(* The operand of "and" or "or" goes to the register of the result, that of a *)
(* call as the range it is: only a call in parentheses is one value by then.  *)
Operand(m, f, p) ==
    Pair(Free(Move(m, f.reserved[1], p), p), [f EXCEPT !.left = @ - 1])

(* The header of a loop goes to registers of its own. *)
Header(m, f, p) ==
    Pair(Free(Move(m, f.reserved[4 - f.left], ToTemp(p)), ToTemp(p)), [f EXCEPT !.left = @ - 1])

Concatenated(m, f, p) == Held([f EXCEPT !.raw = Append(@, p)], Resolved(m, p))

(* linearize_expression() returned p to f: what f does before it goes on.     *)
Received(m, f, p) ==
    CASE f.kind \in {"call", "method"}       -> IF f.held = <<>> THEN Callee(m, f, p) ELSE Argument(m, f, p)
      [] f.kind = "return"                   -> Argument(m, f, p)
      [] f.kind = "assign" /\ ~WantsPlace(f) -> RightHandSide(m, f, p)
      [] f.kind = "table"                    -> Item(m, f, p)
      [] f.kind = "and_or"                   -> Operand(m, f, p)
      [] f.kind = "for"                      -> Header(m, f, p)
      [] f.kind = "concat"                   -> Concatenated(m, f, p)
      [] f.kind = "index"                    -> Held(f, IF f.held = <<>> THEN Chained(m, p) ELSE Resolved(m, p))
      [] f.kind \in {"condition", "repeat", "record"} -> Pair(m, Hold(f, ToTemp(p)))
      [] OTHER                               -> Pair(m, Hold(f, p))

-----------------------------------------------------------------------------
(* What each function does when all its expressions have come: the code it    *)
(* emits, what it frees, and the pseudo it returns.                           *)
Returned(m, p) == [m |-> m, p |-> p]

BinaryInto(m, f, target, name) ==
    LET Both(l1, l2) ==
            LET x == Exec(l2.m, target, name \o Read(l2.m, l1.p) \o Read(l2.m, l2.p))
            IN  FreeAll(FreeLoaded(FreeLoaded(x, f.held[1], l1.p), f.held[2], l2.p), f.held)
        First(l1) == Both(l1, Resolved(l1.m, f.held[2]))
    IN  First(Resolved(m, f.held[1]))

(* The register of an operand that was loaded already is free before the      *)
(* instruction is emitted, one that is loaded for it only after.              *)
UnaryInto(m, f, name) ==
    LET From(l) == FreeLoaded(Exec(Free(l.m, f.held[1]), f.reserved[1], name \o Read(l.m, l.p)),
                              f.held[1], l.p)
    IN  From(Resolved(m, f.held[1]))

UnaryOperator(m, f) == Returned(UnaryInto(m, f, <<"unary">>), f.reserved[1])

NotEqual(m, f) ==
    LET Negated(x) == Exec(Free(x, f.reserved[2]), f.reserved[1], <<"not_equal">> \o Read(x, f.reserved[2]))
    IN  Returned(Negated(BinaryInto(m, f, f.reserved[2], <<>>)), f.reserved[1])

Cast(m, f) ==
    LET From(l) == Free(Moved(l.m, f.reserved[1], l.p), l.p)
    IN  Returned(From(Resolved(m, f.held[1])), f.reserved[1])

Concat(m, f) ==
    Returned(FreeAll(Exec(m, f.reserved[1], <<"concat">> \o ReadEach(m, f.held)), f.raw \o f.held), f.reserved[1])

(* A key that is an element still is passed on as it is. *)
Record(m, f) ==
    LET table  == f.reserved[1]
        Put(l) == FreeLoaded(Exec(l.m, table, Read(l.m, table) \o Read(l.m, f.held[1]) \o Read(l.m, l.p)),
                             f.held[2], l.p)
    IN  Returned(FreeAll(Put(Resolved(Require(m, ~IsIndexed(f.held[1])), f.held[2])), f.held), table)

(* Mutant: what is called keeps its register, next to the results. *)
FunctionCallHolding(m, f) ==
    LET called == EmitCall(m, f.held[1].reg, f.held, f.wanted)
    IN  Returned(FreeAll(called, Reverse(Front(f.held))), RangeFrom(f.held[1].reg))

FunctionCall(m, f) ==
    LET called == EmitCall(m, f.held[1].reg, f.held, f.wanted)
    IN  Returned(FreeAll(called, Reverse(Tail(f.held))), RangeFrom(f.held[1].reg))

Finished(m, f) ==
    CASE f.kind = "binary"    -> Returned(BinaryInto(m, f, f.reserved[1], <<"binary">>), f.reserved[1])
      [] f.kind = "not_equal" -> NotEqual(m, f)
      [] f.kind = "unary"     -> UnaryOperator(m, f)
      [] f.kind = "cast"      -> Cast(m, f)
      [] f.kind = "assertion" -> Resolved(m, f.held[1])
      [] f.kind = "parentheses" -> Returned(m, ToTemp(f.held[1]))
      [] f.kind = "concat"    -> Concat(m, f)
      [] f.kind = "record"    -> Record(m, f)
      [] f.kind = "index"     -> Returned(m, Indexed(f.held[1], f.held[2], f.type))
      [] f.kind \in {"call", "method"}  -> FunctionCall(m, f)
      [] f.kind \in {"and_or", "table"} -> Returned(m, f.reserved[1])

-----------------------------------------------------------------------------
(* Statements.  An assignment has its places and values in the order they came. *)
StoreVar(m, target, p) ==
    IF IsIndexed(target) THEN Effect(m, Read(m, target) \o Read(m, p)) ELSE Exec(m, target, Read(m, p))

TargetPseudo(f, i) ==
    CASE f.targets[i] = "local"     -> Local
      [] f.targets[i] = "local_int" -> TypedLocal
      [] OTHER -> f.held[Len(SelectSeq(SubSeq(f.targets, 1, i), LAMBDA t : t = "place"))]

(* A target takes its value from the last range, one of its values each time. *)
StoreFrom(m, target, range, i) ==
    LET pick == Pick(m, range, i) IN Free(StoreVar(pick.m, target, pick.p), pick.p)

Assignment(m, f) ==
    LET values == SubSeq(f.held, Places(f) + 1, Len(f.held))
        ne     == Len(values)
        many   == ne > 0 /\ IsRange(values[ne])
        Store(acc, i) ==
            LET target == TargetPseudo(f, i)
            IN  IF i < ne \/ (i = ne /\ ~many) THEN Free(StoreVar(acc, target, values[i]), values[i])
                ELSE IF many THEN LET x == StoreFrom(acc, target, values[ne], i - ne)
                                  IN  IF i = ne THEN Free(x, values[ne]) ELSE x
                ELSE IF IsIndexed(target) THEN Require(acc, FALSE) ELSE Exec(acc, target, <<"nil">>)
        stored == FoldLeft(Store, m, [i \in DOMAIN f.targets |-> i])
        targets == [i \in DOMAIN f.targets |-> TargetPseudo(f, i)]
    IN  FreeAll(FreeAll(stored, Reverse(values)), Reverse(targets))

Condition(m, f) ==
    LET On(l) == FreeLoaded(Effect(l.m, <<"condition">> \o Read(l.m, l.p)), f.held[1], l.p)
    IN  Free(On(Resolved(m, f.held[1])), f.held[1])

RepeatCondition(m, f) ==
    LET On(n) == Free(Effect(n, <<"repeat">> \o Read(n, f.reserved[1])), f.reserved[1])
    IN  On(UnaryInto(m, f, <<>>))

FunctionStatement(m, f) ==
    LET Stored(c) == FreeAll(Effect(c.m, <<"function">> \o Read(c.m, f.held[1]) \o Read(c.m, c.p)),
                             <<f.held[1], c.p>>)
    IN  Stored(Into(AllocateTemp(m, "any"), <<"closure">>))

Ended(m, f) ==
    CASE f.kind = "assign"    -> Assignment(m, f)
      [] f.kind = "return"    -> FreeAll(Effect(m, <<"return">> \o ReadList(m, f.held)), Reverse(f.held))
      [] f.kind = "condition" -> Condition(m, f)
      [] f.kind = "repeat"    -> RepeatCondition(m, f)
      [] f.kind = "for"       -> FreeAll(Effect(m, <<"for">> \o ReadEach(m, SubSeq(f.reserved, 1, 3))),
                                         Reverse(f.reserved))
      [] f.kind = "function"  -> FunctionStatement(m, f)

-----------------------------------------------------------------------------
(* The expressions a statement may have where the innermost frame stands: by  *)
(* their types, by the grammar, and short of the shapes left out.             *)
LeavesOut(shape) == shape \in LeftOut

Needs(f) ==
    CASE f.kind = "for"                                              -> {"int"}
      [] f.kind \in {"binary", "unary", "not_equal"} /\ f.type = "int" -> {"int"}
      [] f.kind \in {"cast", "assertion"}                             -> {"any"}
      [] OTHER                                                       -> Types

IsKey(f)    == f.kind = "record" /\ f.left = 2

Welcome(f, kind, type) ==
    /\ type \in Needs(f)
    /\ WantsPlace(f) => kind \in {"global", "index"}
    /\ f.kind = "assign" /\ f.targets = <<>> => kind \in {"call", "method"}
    /\ f.kind = "parentheses" => kind \in {"call", "method"}
    /\ LeavesOut("typed_callee") /\ f.kind = "call" /\ IsCallee(f) =>
           type = "any" \/ kind = "local_int"
    /\ LeavesOut("pending_key") /\ IsKey(f) => kind \notin {"global", "index"}
    /\ LeavesOut("assertion_of_call") /\ f.kind = "assertion" => kind \notin {"call", "method"}
    /\ LeavesOut("range_operand") /\ f.kind \in {"and_or", "cast"} => kind \notin {"call", "method"}
    /\ LeavesOut("method_argument") /\ kind = "method" =>
           \A i \in DOMAIN frames : frames[i].kind \in {"call", "method"} => frames[i].held = <<>>

(* The operands a construct of some kind has. *)
Operands(kind) ==
    CASE kind \in {"unary", "cast", "assertion", "parentheses"}          -> {1}
      [] kind \in {"binary", "not_equal", "and_or", "index", "record"}   -> {2}
      [] kind = "concat"                                                 -> 2 .. MaxItems + 1
      [] kind = "table"                                                  -> 0 .. MaxItems
      [] kind \in {"call", "method"}                                     -> 1 .. MaxItems + 1

(* The targets an assignment may have, or a local statement with n values.    *)
TargetLists(n) ==
    {ts \in SeqOf({"local", "local_int", "place"}, MaxItems) :
        /\ n = 0 => ts # <<>> /\ IsInjective(ts) /\ "place" \notin ToSet(ts)
        /\ ts = <<>> => n = 1
        /\ LeavesOut("typed_swap") =>
               \A i \in DOMAIN ts : ts[i] = "local_int" => i = Len(ts)
        /\ LeavesOut("place_without_value") =>
               \A i \in DOMAIN ts : ts[i] = "place" => i <= n}

-----------------------------------------------------------------------------
Init == proc = EmptyProc /\ frames = <<>> /\ nodes = 0

(* The registers that a construct sets aside before its operands.             *)
Reserve(m, type, n) ==
    FoldLeft(LAMBDA acc, i : LET a == AllocateTemp(acc.m, type)
                             IN  [m |-> a.m, reserved |-> Append(acc.reserved, a.p)],
             [m |-> m, reserved |-> <<>>], [i \in 1 .. n |-> i])

ReserveForLoop(m) ==
    FoldLeft(LAMBDA acc, i : LET a == AllocateFirstFree(acc.m, "int")
                             IN  [m |-> a.m, reserved |-> Append(acc.reserved, a.p)],
             [m |-> m, reserved |-> <<>>], <<1, 2, 3, 4>>)

Start(kind, left, targets, r) ==
    /\ proc' = r.m
    /\ nodes' = left + Len(SelectSeq(targets, LAMBDA t : t # "place"))
    /\ nodes' <= MaxNodes
    /\ frames' = << Frame(kind, "any", left, 1, targets, r.reserved) >>

BeginStatement ==
    /\ frames = <<>> /\ ~proc.over
    /\ \/ \E n \in 0 .. MaxItems : \E ts \in TargetLists(n) :
             Start("assign", n + Len(SelectSeq(ts, LAMBDA t : t = "place")), ts, Reserve(proc, "any", 0))
       \/ \E n \in 0 .. MaxItems : Start("return", n, <<>>, Reserve(proc, "any", 0))
       \/ Start("condition", 1, <<>>, Reserve(proc, "any", 0))
       \/ Start("function", 1, <<>>, Reserve(proc, "any", 0))
       \/ Start("repeat", 1, <<>>, Reserve(proc, "int", 1))
       \/ Start("for", 3, <<>>, ReserveForLoop(proc))

(* linearize_expression() returns p to the innermost of the frames fs.  Where *)
(* "and" or "or" stop at their first operand the code of the second is        *)
(* emitted all the same, and execution goes on behind it.                     *)
Return(m, fs, p) ==
    \E r \in {Received(CheckTop(m, p), Last(fs), p)} :
        /\ frames' = Append(Front(fs), r.f)
        /\ \E on \in IF r.f.kind # "and_or" \/ r.m.skip \notin {0, Len(fs)} THEN {r.m.skip}
                     ELSE IF r.f.left = 0 THEN {0} ELSE {0, Len(fs)} :
               proc' = [r.m EXCEPT !.skip = on]

(* The leaves by kind and type, with what evaluating them does. *)
Leaves ==
    { <<"constant", "any", Returned(proc, Constant)>>, <<"constant", "int", Returned(proc, Constant)>>,
      <<"local", "any", Returned(proc, Local)>>, <<"local_int", "int", Returned(proc, TypedLocal)>>,
      <<"global", "any", Returned(proc, Global)>>,
      <<"closure", "any", Into(AllocateTemp(proc, "any"), <<"closure">>)>> }

Leaf ==
    /\ frames # <<>> /\ Top.left > 0
    /\ \E l \in Leaves : Welcome(Top, l[1], l[2]) /\ Return(l[3].m, frames, l[3].p)
    /\ UNCHANGED nodes

(* What kind of construct is opened decides what it sets aside: the register  *)
(* of its result, and of what "~=" negates; a constructor creates its table.  *)
Opened(kind, type) ==
    LET n == CASE kind = "not_equal" -> 2
               [] kind \in {"index", "assertion", "parentheses", "call", "method"} -> 0
               [] OTHER -> 1
        r == Reserve(proc, type, n)
    IN  IF kind \in {"table", "record"}
        THEN [r EXCEPT !.m = Exec(r.m, r.reserved[1], << kind >>)] ELSE r

TypesOf(kind) ==
    CASE kind \in {"binary", "unary", "not_equal", "index"} -> Types
      [] kind = "cast" -> {"int"}
      [] OTHER -> {"any"}

Constructs == {"binary", "not_equal", "unary", "cast", "assertion", "parentheses", "and_or",
               "concat", "table", "record", "index", "call", "method"}

OpenExpression ==
    /\ frames # <<>> /\ Top.left > 0 /\ Len(frames) < MaxDepth
    /\ \E kind \in Constructs : \E type \in TypesOf(kind), left \in Operands(kind) :
           /\ Welcome(Top, kind, type)
           /\ nodes' = nodes + left
           /\ nodes' <= MaxNodes
           /\ kind = "parentheses" => Len(frames) + 1 < MaxDepth /\ nodes' < MaxNodes
           /\ kind = "not_equal" => "any" \in Needs(Top)
           /\ \E r \in {Opened(kind, type)} :
                  /\ proc' = r.m
                  /\ frames' = Append(frames, Frame(kind, type, left, NumResults(Top), <<>>, r.reserved))

CloseExpression ==
    /\ Len(frames) > 1 /\ Top.left = 0
    /\ \E done \in {Finished(proc, Top)} : Return(done.m, Front(frames), done.p)
    /\ UNCHANGED nodes

(* The registers are those there were when the statement began.               *)
EndStatement ==
    /\ Len(frames) = 1 /\ Top.left = 0
    /\ \E done \in {Ended(proc, Top)} : proc' = [Require(done, done.used = InUse) EXCEPT !.over = TRUE]
    /\ frames' = <<>>
    /\ UNCHANGED nodes

(* The next statement is looked at on its own, from the same locals.          *)
NextStatement ==
    /\ proc.over
    /\ proc' = EmptyProc /\ nodes' = 0
    /\ UNCHANGED frames

Next ==
    \/ BeginStatement \/ Leaf \/ OpenExpression \/ CloseExpression \/ EndStatement \/ NextStatement

Spec == Init /\ [][Next]_vars

-----------------------------------------------------------------------------
(* The pseudos that have a value that is still needed, and their registers.   *)
RegisterOf(p) ==
    CASE p.kind = "temp"  -> << <<p.type, p.reg>> >>
      [] p.kind = "range" -> << <<"any", p.reg>> >>
      [] OTHER            -> <<>>

RegistersOf(p) ==
    IF IsIndexed(p) THEN RegisterOf(p.container) \o RegisterOf(p.key) ELSE RegisterOf(p)

Owned == FlattenSeq([i \in DOMAIN frames |->
             FlattenSeq([j \in DOMAIN frames[i].reserved |-> RegistersOf(frames[i].reserved[j])])
             \o FlattenSeq([j \in DOMAIN frames[i].held |-> RegistersOf(frames[i].held[j])])])

(* The state is one of the linearizer's: registers, frames that nest, pseudos *)
(* only where something holds them; the register of a typed local stays       *)
(* allocated, and nothing is picked from a range between two steps.           *)
TypeOK ==
    /\ \A t \in Types : proc.used[t] \subseteq Registers
    /\ TypedLocal.reg \in proc.used.int
    /\ proc.picks = {} /\ proc.top \in 0 .. MaxReg + 1
    /\ proc.skip \in 0 .. Len(frames)
    /\ nodes \in 0 .. MaxNodes
    /\ \A i \in DOMAIN frames : frames[i].kind \in (IF i = 1 THEN Statements ELSE Constructs)

(* Every register that is allocated belongs to exactly one value that is      *)
(* still needed, and every value that is still needed has its registers:      *)
(* none is freed early, handed out twice or forgotten on any path through the *)
(* linearize_* functions, each of which frees by hand.                        *)
RegistersOwned ==
    /\ IsInjective(Owned)
    /\ ToSet(Owned) = {<<t, r>> \in Types \X Registers : r \in proc.used[t] \ InUse[t]}

(* No assertion of the linearizer fails: a value that an expression returns   *)
(* is in the register at the top (check_pseudo_is_top), the registers are     *)
(* restored by the end of the statement (check_regs_restored), an indexed     *)
(* pseudo is never the target of an instruction, and no value of a range is   *)
(* picked twice or outlives it.  Nor does the code generator meet a range     *)
(* where it moves one value (emit_move).                                      *)
AssertsHold == proc.ok

(* docs/linear-ir.md:468 says of "and" and "or", in code: "result =           *)
(* eval(expr_left)", and then "result = eval(expr_right)".  Once an operand   *)
(* has been evaluated, its value is in the register of the result.            *)
OperandIsResult ==
    \A i \in DOMAIN frames :
        frames[i].kind = "and_or" /\ frames[i].left < 2 /\ (proc.skip = 0 \/ i <= proc.skip)
            => Read(proc, frames[i].reserved[1]) # Junk

-----------------------------------------------------------------------------
(* The values that the frames have gathered, wherever they are kept.          *)
RangeOf(f, reg) ==
    LET n == IF f.left > 0 \/ f.kind \notin Lists THEN 1
             ELSE IF f.kind = "assign" THEN Max({1, Len(f.targets) - (Len(f.held) - Places(f)) + 1})
             ELSE Results
    IN  [i \in 1 .. n |-> IF reg + i - 1 \in Registers THEN proc.file.any[reg + i - 1] ELSE Junk]

Operand1(f) == << << Read(proc, f.reserved[1]) >> >>

ValuesOf(f) ==
    CASE f.kind = "and_or" -> IF f.left = 0 THEN Operand1(f) ELSE <<>>
      [] f.kind = "table"  -> LET items == Tail(Read(proc, f.reserved[1]))
                              IN  IF items = <<>> THEN <<>> ELSE << << items >> >>
      [] f.kind = "for"    -> [i \in 1 .. 3 - f.left |-> << Read(proc, f.reserved[i]) >>]
      [] OTHER -> LET held == IF f.kind = "method" /\ f.held # <<>> THEN Tail(f.held) ELSE f.held
                  IN  [i \in DOMAIN held |-> IF IsRange(held[i]) THEN RangeOf(f, held[i].reg)
                                             ELSE << Read(proc, held[i]) >>]

(* Where the code that is emitted is skipped, "and" or "or" have their value. *)
Seen(i) ==
    LET f == frames[i]
    IN  [kind |-> f.kind, targets |-> f.targets,
         wanted |-> IF i > 1 /\ frames[i - 1].kind = "parentheses" THEN 1 ELSE f.wanted,
         left   |-> IF i = proc.skip THEN 0 ELSE f.left,
         values |-> IF i = proc.skip THEN Operand1(f) ELSE ValuesOf(f)]

Eval == INSTANCE Evaluation WITH
    frames  <- [i \in 1 .. (IF proc.skip = 0 THEN Len(frames) ELSE proc.skip) |-> Seen(i)],
    over    <- proc.over,
    locals  <- [local |-> proc.local, local_int |-> proc.file.int[TypedLocal.reg]],
    effects <- proc.effects

(* The code computes what the statement says: every operand is evaluated once *)
(* and in order, a value survives in its register until the construct around  *)
(* it takes it, a call gets its arguments and gives as many results as are    *)
(* wanted, an assignment stores what its right-hand side was before it.       *)
ImplementsEvaluation == Eval!Spec
=============================================================================
