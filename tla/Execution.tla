----------------------------- MODULE Execution ------------------------------
(***************************************************************************)
(* The linear IR of Linearizer, executed: the meaning codegen.c gives the  *)
(* instructions that branch and that touch upvalues.  A behaviour compiles *)
(* one function and then runs it once, every condition going either way.   *)
(*                                                                         *)
(* An upvalue is open while closures share the local's stack register; it  *)
(* is closed, its value moved out of the stack, by luaF_close(), for every *)
(* register from the operand of the instruction upwards.                   *)
(***************************************************************************)
EXTENDS Linearizer

ASSUME LocalsComeFirst == "local_function" \notin Grammar

VARIABLES
    pc,       \* <<block, index>> of the next instruction
    open,     \* the locals <<scope, register>> with an open upvalue
    detached  \* the locals whose upvalue was closed since they were declared

runVars == <<pc, open, detached>>

NotRunning == <<0, 0>>

RunInit == Init /\ pc = NotRunning /\ open = {} /\ detached = {}

Compile == Step /\ UNCHANGED runVars

Call ==
    /\ stack = <<>> /\ pc = NotRunning
    /\ pc' = <<ENTRY_BLOCK, 1>>
    /\ UNCHANGED <<vars, open, detached>>

Running == pc # NotRunning /\ pc[1] # EXIT_BLOCK
Code == proc.nodes[pc[1]]
AtInsn == Running /\ pc[2] <= Len(Code)
Insn0 == Code[pc[2]]
Local == <<Insn0.scope, Insn0.reg>>

Advance == pc' = <<pc[1], pc[2] + 1>> /\ UNCHANGED vars

Execute(ops) == AtInsn /\ Insn0.op \in ops

RunOp ==
    /\ Execute({"op", "use"})
    /\ Advance
    /\ UNCHANGED <<open, detached>>

RunInitLocals ==
    /\ Execute({"init"})
    /\ Advance
    /\ detached' = {v \in detached : v[1] # Insn0.scope}
    /\ UNCHANGED open

RunClosure ==
    /\ Execute({"closure"})
    /\ Advance
    /\ open' = open \cup {Local}
    /\ UNCHANGED detached

RunClose ==
    LET closing == {v \in open : v[2] >= Insn0.reg}
    IN  /\ Execute({"close"})
        /\ Advance
        /\ open' = open \ closing
        /\ detached' = detached \cup closing

RunBranch ==
    /\ Execute({"br", "cbr"})
    /\ \E i \in DOMAIN Insn0.targets : pc' = <<Insn0.targets[i], 1>>
    /\ UNCHANGED <<vars, open, detached>>

(* OP_RET closes all the upvalues of the function and leaves. *)
RunReturn ==
    /\ Execute({"ret"})
    /\ pc' = <<EXIT_BLOCK, 1>>
    /\ open' = {}
    /\ UNCHANGED <<vars, detached>>

RunStep == RunOp \/ RunInitLocals \/ RunClosure \/ RunClose \/ RunBranch \/ RunReturn

(* The compilation failed, or the call has returned. *)
Over == (failed \/ pc[1] = EXIT_BLOCK) /\ UNCHANGED <<vars, runVars>>

RunNext == Compile \/ Call \/ RunStep \/ Over

RunSpec == RunInit /\ [][RunNext]_<<vars, runVars>>

-----------------------------------------------------------------------------
(* Properties *)

(* Control never runs off the end of a block. *)
NoFallThrough == Running => AtInsn

(* A local is declared on a register no closure still shares: the upvalues *)
(* of an earlier iteration, or of a scope that was left, are closed.       *)
FreshLocals ==
    Execute({"init"}) => \A v \in open : v[2] < Insn0.reg

(* Outside a scope none of its locals has an open upvalue. *)
ClosedOutsideScope ==
    Execute({"op"}) => \A v \in open : v[1] \in Range(scopes[Insn0.scope].path)

(* While a local is in scope its closures go on sharing it: nothing closes *)
(* its upvalue before the scope is left.                                   *)
SharedInScope == Execute({"use", "closure"}) => Local \notin detached

(* The graph raviX_construct_cfg() builds, from the last instruction of    *)
(* each block, has every edge the code takes.                              *)
CfgEdges ==
    {e \in Blocks \X Blocks :
        /\ IsBlockTerminated(proc, e[1])
        /\ e[2] \in Range(proc.nodes[e[1]][Len(proc.nodes[e[1]])].targets)}

TakenEdgesInCfg ==
    [][AtInsn /\ Insn0.op \in Branches => <<pc[1], pc'[1]>> \in CfgEdges]_<<vars, runVars>>
=============================================================================
