----------------------------- MODULE Linearizer -----------------------------
(***************************************************************************)
(* The statement half of the linearizer (src/linearizer.c): the walk over  *)
(* the AST of one function that emits basic blocks of linear IR, tracks    *)
(* the current block, the current break target, the scopes and the stack   *)
(* registers of the locals, and decides where upvalues get closed.         *)
(*                                                                         *)
(* The function being compiled is not fixed: every statement the walk      *)
(* meets is chosen nondeterministically, so that the behaviours of the     *)
(* specification are the compilations of all functions the constants       *)
(* allow.  What the parser has already settled when the linearizer starts  *)
(* (the locals of a scope, which of them escaped into a closure, whether   *)
(* the scope declares a label) is chosen when the scope is entered, and    *)
(* the scope can only end after the statements that make it true were met. *)
(*                                                                         *)
(* Expressions are reduced to what they do to upvalues: nothing, creating  *)
(* a closure over an escaped local, or using an escaped local.             *)
(***************************************************************************)
EXTENDS Integers, Sequences, FiniteSets, Functions

CONSTANTS
    MaxStmts,   \* bound on the statements met, the obligatory ones apart
    MaxDepth,   \* bound on the nesting of scopes
    LocalLists, \* the lists of locals a scope may declare
    Grammar     \* the kinds of statement the function may contain

Kinds == {"local", "local_function", "do", "while", "repeat", "repeat_uses_locals", "for", "for_step",
          "for_escaped", "if", "elseif", "else", "break", "expr", "return",
          "return_in_do", "label", "goto_forward", "goto_forward_close",
          "goto_backward", "goto_backward_close", "undefined"}

ASSUME BoundsAssumption == MaxStmts \in Nat /\ MaxDepth \in Nat
ASSUME LocalsAssumption == LocalLists \subseteq Seq({"plain", "escaped"})
ASSUME GrammarAssumption == Grammar \subseteq Kinds

VARIABLES
    proc,     \* struct Proc: the blocks and the linearizer's cursor in them
    scopes,   \* struct Scope of every scope met so far, with its label symbol
    stack,    \* the linearize_* functions in progress, innermost last
    list,     \* the statement list in progress: nothing yet, open, or over
    captured, \* the escaped locals <<scope, register>> met in a closure
    stmts,    \* number of statements met
    failed    \* handle_error() was called: the compilation is abandoned

vars == <<proc, scopes, stack, list, captured, stmts, failed>>

-----------------------------------------------------------------------------
(* Blocks are numbered from 1 here, from 0 in the code. *)
ENTRY_BLOCK == 1
EXIT_BLOCK == 2
NoBlock == 0
NoScope == 0

(* An instruction: "op" is any instruction that neither branches nor       *)
(* touches an escaped local; reg is the local's register where there is    *)
(* one; scope is the scope whose code or local it is.                      *)
Opcodes == {"op", "init", "use", "closure", "close", "br", "cbr", "ret"}
Branches == {"br", "cbr", "ret"}
Insn(op, targets, reg, scope) ==
    [op |-> op, targets |-> targets, reg |-> reg, scope |-> scope]

IsBlockTerminated(p, b) ==
    /\ p.nodes[b] # <<>>
    /\ p.nodes[b][Len(p.nodes[b])].op \in Branches

AddCode(p, b, code) == [p EXCEPT !.nodes[b] = @ \o code]
AddInstruction(p, insn) == AddCode(p, p.current_bb, << insn >>)
Ops(p, insns) == AddCode(p, p.current_bb, insns)

NewBlock(p) == Len(p.nodes) + 1
CreateBlocks(p, n) == [p EXCEPT !.nodes = @ \o [i \in 1..n |-> <<>>]]

(* Mutant: moves without terminating the current block. *)
StartBlockNoBranch(p, b) == [p EXCEPT !.current_bb = b]

(* Terminates the current block with a branch if nothing did, then moves. *)
StartBlock(p, b) ==
    LET q == IF IsBlockTerminated(p, p.current_bb) THEN p
             ELSE AddInstruction(p, Insn("br", <<b>>, -1, p.current_scope))
    IN  [q EXCEPT !.current_bb = b]

(* Mutant: adds the branch wherever the walk is. *)
InstructBrSameBlock(p, b) ==
    AddInstruction(p, Insn("br", <<b>>, -1, p.current_scope))

(* A branch in a block that already ended goes to a block of its own. *)
InstructBr(p, b) ==
    LET q == IF IsBlockTerminated(p, p.current_bb)
             THEN StartBlock(CreateBlocks(p, 1), NewBlock(p))
             ELSE p
    IN  AddInstruction(q, Insn("br", <<b>>, -1, p.current_scope))

InstructCbr(p, t, f) ==
    AddInstruction(p, Insn("cbr", <<t, f>>, -1, p.current_scope))

-----------------------------------------------------------------------------
(* Scopes.  path lists the scope and its ancestors, outermost first: the   *)
(* parent pointers of the code.  base is the register of the first local.  *)
EscapedRegs(sc) ==
    {sc.base + i - 1 : i \in {j \in DOMAIN sc.locals : sc.locals[j] = "escaped"}}

NeedClose(sc) == EscapedRegs(sc) # {}

Minimum(S) == CHOOSE x \in S : \A y \in S : x <= y

(* An "escaped" local in scope->symbol_list is closed, with all above it. *)
InstructClose(p, b, s, sc) ==
    IF \/ ~NeedClose(sc)
       \/ p.nodes[b] # <<>> /\ p.nodes[b][Len(p.nodes[b])].op = "ret"
    THEN p
    ELSE AddCode(p, b, << Insn("close", <<>>, Minimum(EscapedRegs(sc)), s) >>)

TopReg(regs) ==
    IF regs = {} THEN -1 ELSE CHOOSE r \in regs : \A q \in regs : q <= r

Regs(sc) == sc.base .. (sc.base + Len(sc.locals) - 1)

(* Mutant: the first local shares the register on top of the stack. *)
NewScopeOnTop(p, path, locals, label) ==
    [path |-> path, base |-> TopReg(p.local_pseudos), locals |-> locals,
     label |-> label, label_block |-> NoBlock, placed |-> FALSE,
     declared |-> FALSE]

NewScope(p, path, locals, label) ==
    [path |-> path, base |-> TopReg(p.local_pseudos) + 1, locals |-> locals,
     label |-> label, label_block |-> NoBlock, placed |-> FALSE,
     declared |-> FALSE]

StartScope(p, s, sc) ==
    [p EXCEPT !.current_scope = s, !.local_pseudos = @ \cup Regs(sc)]

Parent(sc) == IF Len(sc.path) = 1 THEN NoScope ELSE sc.path[Len(sc.path) - 1]

(* Mutants: the registers are not freed; the upvalues are not closed. *)
EndScopeKeepRegs(p, s, sc) ==
    [InstructClose(p, p.current_bb, s, sc) EXCEPT !.current_scope = Parent(sc)]

EndScopeNoClose(p, s, sc) ==
    [p EXCEPT !.local_pseudos = @ \ Regs(sc), !.current_scope = Parent(sc)]

EndScope(p, s, sc) ==
    [InstructClose(p, p.current_bb, s, sc) EXCEPT
        !.local_pseudos = @ \ Regs(sc), !.current_scope = Parent(sc)]

(* Mutant: every scope of the function. *)
MinClosingScopeAny(s) ==
    LET path == scopes[proc.current_scope].path
        closing == {i \in DOMAIN path : NeedClose(scopes[path[i]])}
    IN  IF closing = {} THEN NoScope ELSE path[Minimum(closing)]

(* The oldest scope between the current one and s that has to be closed. *)
MinClosingScope(s) ==
    LET path == scopes[proc.current_scope].path
        closing == {i \in DOMAIN path : /\ \E j \in 1..i : path[j] = s
                                        /\ NeedClose(scopes[path[i]])}
    IN  IF closing = {} THEN NoScope ELSE path[Minimum(closing)]

(* Mutant: a jump closes nothing. *)
CloseInTargetNever(p, b, c) == p

CloseInTarget(p, b, c) ==
    IF c = NoScope THEN p ELSE InstructClose(p, b, c, scopes[c])

-----------------------------------------------------------------------------
(* The local variables of a linearize_* function that outlive the nested   *)
(* statement list: blocks still to be started, the saved break target.     *)
Frame(kind, head, arms, exit) ==
    [kind |-> kind, head |-> head, arms |-> arms, exit |-> exit,
     break_target |-> proc.current_break_target,
     break_scope |-> proc.current_break_scope]

Top == stack[Len(stack)]
Pop == SubSeq(stack, 1, Len(stack) - 1)
Current == scopes[proc.current_scope]

(* All that made the scope what it is was met in its statement list. *)
Complete(s, sc) ==
    /\ sc.locals # <<>> => sc.declared
    /\ sc.label => sc.placed
    /\ \A r \in EscapedRegs(sc) : <<s, r>> \in captured
    /\ Top.kind = "for" =>
          \A r \in EscapedRegs(scopes[proc.current_break_scope]) :
              <<proc.current_break_scope, r>> \in captured

CanMeet(kind) ==
    /\ kind \in Grammar
    /\ stack # <<>> /\ list # "ended" /\ ~failed
    /\ stmts < MaxStmts

Met(n) == stmts' = stmts + n /\ list' = "open"

(* A new scope below those of path, its statement list entered after q. *)
Enter(q, path, locals, label) ==
    LET s == Len(scopes) + 1
        sc == NewScope(q, Append(path, s), locals, label)
    IN  /\ Len(path) < MaxDepth
        /\ label => "label" \in Grammar
        /\ proc' = StartScope(q, s, sc)
        /\ scopes' = Append(scopes, sc)
        /\ list' = "empty"

AtListEnd(kind) ==
    /\ stack # <<>> /\ ~failed
    /\ Top.kind = kind
    /\ Complete(proc.current_scope, Current)

Init ==
    \E locals \in LocalLists, label \in BOOLEAN :
        LET empty == [nodes |-> << <<>>, <<>> >>, current_bb |-> ENTRY_BLOCK,
                      current_scope |-> NoScope, local_pseudos |-> {},
                      current_break_target |-> NoBlock,
                      current_break_scope |-> NoScope]
            main == NewScope(empty, <<1>>, locals, label)
        IN  /\ label => "label" \in Grammar
            /\ proc = StartScope(empty, 1, main)
            /\ scopes = <<main>>
            /\ stack = << [kind |-> "function", head |-> NoBlock, arms |-> <<>>,
                           exit |-> NoBlock, break_target |-> NoBlock,
                           break_scope |-> NoScope] >>
            /\ list = "empty"
            /\ captured = {} /\ stmts = 0 /\ failed = FALSE

-----------------------------------------------------------------------------
(* Statements without a statement list of their own. *)

(* local a, b, ...: all the locals of the scope are declared at once. *)
LinearizeLocalStatement ==
    /\ "local" \in Grammar
    /\ stack # <<>> /\ list # "ended" /\ ~failed
    /\ Current.locals # <<>> /\ ~Current.declared
    /\ proc' = Ops(proc, << Insn("init", <<>>, Current.base, proc.current_scope) >>)
    /\ scopes' = [scopes EXCEPT ![proc.current_scope] = [@ EXCEPT !.declared = TRUE]]
    /\ list' = "open"
    /\ UNCHANGED <<stack, captured, stmts, failed>>

(* local function f: f is in the scope of its own body, and escapes there. *)
LinearizeLocalFunction ==
    LET s == proc.current_scope
        regs == EscapedRegs(Current)
    IN  /\ "local_function" \in Grammar
        /\ stack # <<>> /\ list # "ended" /\ ~failed
        /\ Cardinality(regs) = 1 /\ ~Current.declared
        /\ proc' = Ops(proc, << Insn("closure", <<>>, Minimum(regs), s),
                                Insn("init", <<>>, Current.base, s) >>)
        /\ scopes' = [scopes EXCEPT ![s] = [@ EXCEPT !.declared = TRUE]]
        /\ captured' = captured \cup ({s} \X regs)
        /\ list' = "open"
        /\ UNCHANGED <<stack, stmts, failed>>

(* The escaped locals in sight of the current statement. *)
Visible ==
    UNION {{s} \X EscapedRegs(scopes[s]) :
              s \in {t \in DOMAIN scopes : /\ scopes[t].declared
                                          /\ \E i \in DOMAIN Current.path :
                                                Current.path[i] = t}}

(* A function expression that refers to v; the first one of v is owed. *)
LinearizeFunctionExpr(v) ==
    /\ "local" \in Grammar
    /\ stack # <<>> /\ list # "ended" /\ ~failed
    /\ v \in captured => CanMeet("expr")
    /\ proc' = Ops(proc, << Insn("closure", <<>>, v[2], v[1]) >>)
    /\ captured' = captured \cup {v}
    /\ Met(IF v \in captured THEN 1 ELSE 0)
    /\ UNCHANGED <<scopes, stack, failed>>

LinearizeExpressionStatement ==
    /\ CanMeet("expr")
    /\ \E insn \in {Insn("op", <<>>, -1, proc.current_scope)} \cup
                   {Insn("use", <<>>, v[2], v[1]) : v \in Visible} :
          proc' = Ops(proc, << insn >>)
    /\ Met(1)
    /\ UNCHANGED <<scopes, stack, captured, failed>>

(* The grammar ends the statement list after a return. *)
LinearizeReturn ==
    /\ CanMeet(IF Top.kind = "do" THEN "return_in_do" ELSE "return")
    /\ Complete(proc.current_scope, Current)
    /\ proc' = Ops(proc, << Insn("ret", <<EXIT_BLOCK>>, -1, proc.current_scope) >>)
    /\ list' = "ended"
    /\ stmts' = stmts + 1
    /\ UNCHANGED <<scopes, stack, captured, failed>>

(* Mutant: the block an earlier goto created for the label is forgotten. *)
LinearizeLabelStatementNewBlock ==
    LET s == proc.current_scope
        b == IF proc.nodes[proc.current_bb] = <<>> THEN proc.current_bb ELSE NewBlock(proc)
        q == IF b = NewBlock(proc) THEN CreateBlocks(proc, 1) ELSE proc
    IN  /\ stack # <<>> /\ list # "ended" /\ ~failed
        /\ Current.label /\ ~Current.placed
        /\ proc' = IF b = proc.current_bb THEN proc ELSE StartBlock(q, b)
        /\ scopes' = [scopes EXCEPT ![s] = [@ EXCEPT !.label_block = b, !.placed = TRUE]]
        /\ list' = "open"
        /\ UNCHANGED <<stack, captured, stmts, failed>>

(* A label starts the block an earlier goto created for it, or takes the   *)
(* current block if that is still empty, or starts a block of its own.     *)
LinearizeLabelStatement ==
    LET s == proc.current_scope
        b == IF Current.label_block # NoBlock THEN Current.label_block
             ELSE IF proc.nodes[proc.current_bb] = <<>> THEN proc.current_bb
             ELSE NewBlock(proc)
        q == IF b = NewBlock(proc) THEN CreateBlocks(proc, 1) ELSE proc
    IN  /\ stack # <<>> /\ list # "ended" /\ ~failed
        /\ Current.label /\ ~Current.placed
        /\ proc' = IF b = proc.current_bb THEN proc ELSE StartBlock(q, b)
        /\ scopes' = [scopes EXCEPT ![s] = [@ EXCEPT !.label_block = b, !.placed = TRUE]]
        /\ list' = "open"
        /\ UNCHANGED <<stack, captured, stmts, failed>>

(* goto to the label of the enclosing scope s.  Whatever has to be closed  *)
(* is closed in the block of the label, not in the one the goto ends.      *)
GotoKind(s, closing) ==
    IF scopes[s].placed
    THEN IF closing = NoScope THEN "goto_backward" ELSE "goto_backward_close"
    ELSE IF closing = s THEN "goto_forward_close" ELSE "goto_forward"

LinearizeGoto(s) ==
    LET closing == MinClosingScope(s)
        known == scopes[s].label_block # NoBlock
        b == IF known THEN scopes[s].label_block ELSE NewBlock(proc)
        q1 == InstructBr(IF known THEN proc ELSE CreateBlocks(proc, 1), b)
        q2 == StartBlock(CreateBlocks(q1, 1), NewBlock(q1))
    IN  /\ scopes[s].label
        /\ CanMeet(GotoKind(s, closing))
        /\ proc' = CloseInTarget(q2, b, closing)
        /\ scopes' = [scopes EXCEPT ![s] = [@ EXCEPT !.label_block = b]]
        /\ Met(1)
        /\ UNCHANGED <<stack, captured, failed>>

(* Mutant: what follows the break is added to the block the break ended. *)
LinearizeBreakSameBlock ==
    LET b == proc.current_break_target
        q1 == InstructBr(proc, b)
    IN  /\ CanMeet("break")
        /\ b # NoBlock
        /\ proc' = CloseInTarget(q1, b, MinClosingScope(proc.current_break_scope))
        /\ Met(1)
        /\ UNCHANGED <<scopes, stack, captured, failed>>

LinearizeBreak ==
    LET b == proc.current_break_target
        q1 == InstructBr(proc, b)
        q2 == StartBlock(CreateBlocks(q1, 1), NewBlock(q1))
    IN  /\ CanMeet("break")
        /\ b # NoBlock
        /\ proc' = CloseInTarget(q2, b, MinClosingScope(proc.current_break_scope))
        /\ Met(1)
        /\ UNCHANGED <<scopes, stack, captured, failed>>

(* break outside a loop, goto to a label that is not in sight: no code. *)
HandleError ==
    /\ CanMeet("undefined")
    /\ failed' = TRUE
    /\ UNCHANGED <<proc, scopes, stack, list, captured, stmts>>

-----------------------------------------------------------------------------
(* Statements with statement lists: the code up to the nested list. *)

LinearizeDo(locals, label) ==
    /\ CanMeet("do")
    /\ Enter(proc, Current.path, locals, label)
    /\ stack' = Append(stack, Frame("do", NoBlock, <<>>, NoBlock))
    /\ stmts' = stmts + 1
    /\ UNCHANGED <<captured, failed>>

InLoop(p, target, scope) ==
    [p EXCEPT !.current_break_target = target, !.current_break_scope = scope]

(* Starts block b with the evaluation of a condition and its branch. *)
TestCond(p, b, true, false) ==
    InstructCbr(Ops(StartBlock(p, b), << Insn("op", <<>>, -1, p.current_scope) >>),
                true, false)

LinearizeWhile(locals, label) ==
    LET test == NewBlock(proc)
        body == test + 1
        end == test + 2
        q1 == InLoop(CreateBlocks(proc, 3), end, Len(scopes) + 1)
        q2 == TestCond(q1, test, body, end)
    IN  /\ CanMeet("while")
        /\ Enter(StartBlock(q2, body), Current.path, locals, label)
        /\ stack' = Append(stack, Frame("loop", test, <<>>, end))
        /\ stmts' = stmts + 1
        /\ UNCHANGED <<captured, failed>>

(* What the condition of a repeat does: it is in the scope of the body.    *)
RepeatConditions(s, sc) ==
    {Insn("op", <<>>, -1, s)} \cup
    {Insn(op, <<>>, r, s) : op \in {"use", "closure"},
        r \in IF "repeat_uses_locals" \in Grammar THEN EscapedRegs(sc) ELSE {}}

(* The condition is linearized ahead of the body it is evaluated after. *)
LinearizeRepeat(locals, label) ==
    LET test == NewBlock(proc)
        body == test + 1
        end == test + 2
        s == Len(scopes) + 1
        q1 == InstructBr(InLoop(CreateBlocks(proc, 3), end, s), body)
        sc == NewScope(q1, Append(Current.path, s), locals, label)
        q2 == StartBlock(StartScope(q1, s, sc), test)
    IN  /\ CanMeet("repeat")
        /\ Len(Current.path) < MaxDepth
        /\ label => "label" \in Grammar
        /\ \E cond \in RepeatConditions(s, sc) :
              /\ proc' = StartBlock(InstructCbr(Ops(q2, << cond >>), body, end), body)
              /\ captured' = IF cond.op = "closure" THEN captured \cup {<<s, cond.reg>>}
                             ELSE captured
        /\ scopes' = Append(scopes, sc)
        /\ list' = "empty"
        /\ stack' = Append(stack, Frame("loop", test, <<>>, end))
        /\ stmts' = stmts + 1
        /\ UNCHANGED failed

(* A numeric for has a scope for its variable around that of the body; the *)
(* variable has a stack register only if it escaped.  With a step that is  *)
(* not known to be positive L1 branches on its sign to L2 or L3.           *)
LinearizeForNum(step, escaped, locals, label) ==
    LET s == Len(scopes) + 1
        var == [NewScope(proc, Append(Current.path, s),
                         IF escaped THEN <<"escaped">> ELSE <<>>, FALSE)
                    EXCEPT !.declared = TRUE]
        L1 == NewBlock(proc)
        L2 == L1 + 1
        L3 == L1 + 2
        Lbody == IF step = "positive" THEN L1 + 2 ELSE L1 + 3
        Lend == Lbody + 1
        Lcount == Lend - L1 + 1
        op == Insn("op", <<>>, -1, s)
        q1 == Ops(StartScope(proc, s, var), << op >>)
        q2 == InLoop(CreateBlocks(q1, Lcount), Lend, s)
        q3 == Ops(StartBlock(q2, L1), << op >>)
        q4 == IF step = "positive" THEN InstructBr(q3, L2) ELSE InstructCbr(q3, L2, L3)
        q5 == InstructCbr(Ops(StartBlock(q4, L2), << op >>), Lend, Lbody)
        q6 == IF step = "positive" THEN q5
              ELSE InstructCbr(Ops(StartBlock(q5, L3), << op >>), Lend, Lbody)
        q7 == Ops(StartBlock(q6, Lbody),
                  << IF escaped THEN Insn("init", <<>>, var.base, s) ELSE op >>)
        body == NewScope(q7, Append(var.path, s + 1), locals, label)
    IN  /\ CanMeet(IF step = "positive" THEN "for" ELSE "for_step")
        /\ escaped => "for_escaped" \in Grammar
        /\ label => "label" \in Grammar
        /\ Len(var.path) < MaxDepth
        /\ proc' = StartScope(q7, s + 1, body)
        /\ scopes' = scopes \o << var, body >>
        /\ list' = "empty"
        /\ stack' = Append(stack, Frame("for", L1, <<>>, Lend))
        /\ stmts' = stmts + 1
        /\ UNCHANGED <<captured, failed>>

(* One or two conditions (MaxArms), with or without an else.  All tests    *)
(* come first; the lists follow, each in a block of arms and a scope.      *)
MaxArms == 2
LinearizeIf(n, else, locals, label) ==
    LET if1 == NewBlock(proc)
        true == if1 + n
        last == IF else THEN true + n ELSE true + n - 1
        end == last + 1
        q1 == CreateBlocks(proc, end - if1 + 1)
        q2 == TestCond(q1, if1, true, IF n = 2 THEN if1 + 1 ELSE true + 1)
        q3 == IF n = 2 THEN TestCond(q2, if1 + 1, true + 1, true + 2) ELSE q2
    IN  /\ CanMeet("if")
        /\ n = 2 => "elseif" \in Grammar
        /\ else => "else" \in Grammar
        /\ Enter(StartBlock(q3, true), Current.path, locals, label)
        /\ stack' = Append(stack, Frame("if", IF else THEN last ELSE NoBlock,
                                        [i \in 1..(last - true) |-> true + i], end))
        /\ stmts' = stmts + 1
        /\ UNCHANGED <<captured, failed>>

-----------------------------------------------------------------------------
(* What follows the nested statement list. *)

EndDo ==
    /\ AtListEnd("do")
    /\ proc' = EndScope(proc, proc.current_scope, Current)
    /\ stack' = Pop
    /\ list' = "open"
    /\ UNCHANGED <<scopes, captured, stmts, failed>>

(* Mutant: the break target is restored, its scope is not. *)
RestoreBreakTarget(p) == [p EXCEPT !.current_break_target = Top.break_target]

RestoreBreak(p) ==
    [p EXCEPT !.current_break_target = Top.break_target,
              !.current_break_scope = Top.break_scope]

(* end_scope() has just closed the scope of the body; it is closed again.  *)
EndLoop ==
    LET s == proc.current_break_scope
        q1 == EndScope(proc, proc.current_scope, Current)
        q2 == InstructClose(q1, q1.current_bb, s, scopes[s])
        q3 == StartBlock(InstructBr(q2, Top.head), Top.exit)
    IN  /\ AtListEnd("loop")
        /\ proc' = RestoreBreak(q3)
        /\ stack' = Pop
        /\ list' = "open"
        /\ UNCHANGED <<scopes, captured, stmts, failed>>

(* The scope of the variable is closed before the branch back to L1, and   *)
(* once more after it by end_scope().                                      *)
EndForNum ==
    LET s == proc.current_break_scope
        q1 == EndScope(proc, proc.current_scope, Current)
        q2 == InstructClose(q1, q1.current_bb, s, scopes[s])
        q3 == EndScope(InstructBr(q2, Top.head), q1.current_scope,
                       scopes[q1.current_scope])
    IN  /\ AtListEnd("for")
        /\ proc' = RestoreBreak(StartBlock(q3, Top.exit))
        /\ stack' = Pop
        /\ list' = "open"
        /\ UNCHANGED <<scopes, captured, stmts, failed>>

(* The arm of an if ends with a branch past the if, if nothing ended it;   *)
(* the parser knows an else only by the statements in it.                  *)
EndedArm ==
    LET q == EndScope(proc, proc.current_scope, Current)
    IN  IF IsBlockTerminated(q, q.current_bb) THEN q ELSE InstructBr(q, Top.exit)

IsElse(rest) == Top.head # NoBlock /\ rest = <<>>

NextArm(locals, label) ==
    /\ AtListEnd("if")
    /\ Top.arms # <<>>
    /\ IsElse(Tail(Top.arms)) => locals # <<>> \/ label \/ stmts < MaxStmts
    /\ Enter(StartBlock(EndedArm, Head(Top.arms)), scopes[EndedArm.current_scope].path,
             locals, label)
    /\ stack' = [stack EXCEPT ![Len(stack)] = [Top EXCEPT !.arms = Tail(@)]]
    /\ UNCHANGED <<captured, stmts, failed>>

EndIf ==
    /\ AtListEnd("if")
    /\ Top.arms = <<>>
    /\ IsElse(Top.arms) => list # "empty"
    /\ proc' = StartBlock(EndedArm, Top.exit)
    /\ stack' = Pop
    /\ list' = "open"
    /\ UNCHANGED <<scopes, captured, stmts, failed>>

(* Mutant: no implicit return. *)
EndFunctionNoReturn ==
    /\ AtListEnd("function")
    /\ proc' = EndScope(proc, proc.current_scope, Current)
    /\ stack' = <<>>
    /\ UNCHANGED <<scopes, list, captured, stmts, failed>>

(* The end of linearize_function(): an implicit return. *)
EndFunction ==
    LET q == EndScope(proc, proc.current_scope, Current)
    IN  /\ AtListEnd("function")
        /\ proc' = IF IsBlockTerminated(q, q.current_bb) THEN q
                   ELSE AddInstruction(q, Insn("ret", <<EXIT_BLOCK>>, -1, NoScope))
        /\ stack' = <<>>
        /\ UNCHANGED <<scopes, list, captured, stmts, failed>>

Done == stack = <<>> \/ failed

(* The compilation is over: nothing happens any more. *)
Finished == Done /\ UNCHANGED vars

Simple ==
    \/ LinearizeLocalStatement
    \/ LinearizeLocalFunction
    \/ \E v \in Visible : LinearizeFunctionExpr(v)
    \/ LinearizeExpressionStatement
    \/ LinearizeReturn
    \/ LinearizeLabelStatement
    \/ \E i \in DOMAIN Current.path : LinearizeGoto(Current.path[i])
    \/ LinearizeBreak
    \/ HandleError

Compound ==
    \E locals \in LocalLists, label \in BOOLEAN :
        \/ LinearizeDo(locals, label)
        \/ LinearizeWhile(locals, label)
        \/ LinearizeRepeat(locals, label)
        \/ \E step \in {"positive", "unknown"}, escaped \in BOOLEAN :
              LinearizeForNum(step, escaped, locals, label)
        \/ \E n \in 1..MaxArms, else \in BOOLEAN : LinearizeIf(n, else, locals, label)
        \/ NextArm(locals, label)

EndOfList == EndDo \/ EndLoop \/ EndForNum \/ EndIf \/ EndFunction

Step == ~Done /\ (Simple \/ Compound \/ EndOfList)

Next == Step \/ Finished

Spec == Init /\ [][Next]_vars

-----------------------------------------------------------------------------
(* Properties *)

InsnType ==
    [op : Opcodes, targets : Seq(Nat \ {0}), reg : Int, scope : Nat]

ScopeType ==
    [path : Seq(Nat \ {0}), base : Nat, locals : Seq({"plain", "escaped"}),
     label : BOOLEAN, label_block : Nat, placed : BOOLEAN, declared : BOOLEAN]

FrameType ==
    [kind : {"function", "do", "loop", "for", "if"}, head : Nat,
     arms : Seq(Nat \ {0}), exit : Nat, break_target : Nat, break_scope : Nat]

ProcType ==
    [nodes : Seq(Seq(InsnType)), current_bb : Nat, current_scope : Nat,
     local_pseudos : SUBSET Int, current_break_target : Nat,
     current_break_scope : Nat]

(* The shape of struct Proc, of the scopes and of the C stack. *)
TypeOK ==
    /\ proc \in ProcType
    /\ scopes \in Seq(ScopeType)
    /\ stack \in Seq(FrameType)
    /\ list \in {"empty", "open", "ended"}
    /\ captured \subseteq Nat \X Int
    /\ stmts \in Nat
    /\ failed \in BOOLEAN

Blocks == 1..Len(proc.nodes)

(* The blocks some part of the walk still has to start: those held by the  *)
(* functions in progress, and those a goto made for a label to come.       *)
Held(frame) == {frame.exit} \cup Range(frame.arms)
Promised ==
    (UNION {Held(stack[i]) : i \in DOMAIN stack}) \cup
    {scopes[s].label_block : s \in {t \in DOMAIN scopes : ~scopes[t].placed}}

(* No block is lost: at any point of the walk a block other than the exit  *)
(* has its branch, or is the one being filled, or will still be started.   *)
NoBlockLost ==
    \A b \in Blocks \ {EXIT_BLOCK} :
        IsBlockTerminated(proc, b) \/ b = proc.current_bb \/ b \in Promised

(* When the walk is over every block but the exit ends with a branch.      *)
FinalInsnIsBranch ==
    stack = <<>> => \A b \in Blocks \ {EXIT_BLOCK} : IsBlockTerminated(proc, b)

(* A branch ends its block: nothing is ever added after one.               *)
BranchEndsBlock ==
    \A b \in Blocks : \A i \in DOMAIN proc.nodes[b] :
        proc.nodes[b][i].op \in Branches => i = Len(proc.nodes[b])

(* Locals live on a stack: the registers in use are those of the open      *)
(* scopes, and an inner scope is above an outer one, so that closing from  *)
(* the first escaped local of a scope closes all the scopes inside it.     *)
StackDiscipline ==
    proc.current_scope # NoScope =>
        LET path == Current.path
        IN  /\ proc.local_pseudos = UNION {Regs(scopes[path[i]]) : i \in DOMAIN path}
            /\ \A i, j \in DOMAIN path :
                  i < j => \A r \in Regs(scopes[path[i]]) : r < scopes[path[j]].base

(* A break leaves the innermost loop in progress, closing up to its scope. *)
BreakIsInnermost ==
    LET loops == {i \in DOMAIN stack : stack[i].kind \in {"loop", "for"}}
        inner == CHOOSE i \in loops : \A j \in loops : j <= i
    IN  IF loops = {}
        THEN proc.current_break_target = NoBlock
        ELSE /\ proc.current_break_target = stack[inner].exit
             /\ proc.current_break_scope \in Range(Current.path)

(* Whatever lists were entered and left, and however they ended, the next  *)
(* statement finds the registers, the break target and the block the walk  *)
(* should be at: what each handler saves in C locals it restores.          *)
ContextRestored == StackDiscipline /\ BreakIsInnermost /\ BranchEndsBlock
=============================================================================
