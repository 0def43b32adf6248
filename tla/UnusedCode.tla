----------------------------- MODULE UnusedCode -----------------------------
(***************************************************************************)
(* The control flow graphs of all functions of a chunk and the removal of  *)
(* unreachable blocks: src/cfg.c, src/opt_unusedcode.c and their driver,   *)
(* raviX_compile() of src/ravi_binding.c.                                  *)
(*                                                                         *)
(* A function is the last instruction of each of its blocks.  Functions    *)
(* are in the order of all_procs, those nested in a function right behind  *)
(* it; the recursion of raviX_construct_cfg() visits them in that order.   *)
(***************************************************************************)
EXTENDS FlowGraph

CONSTANTS
    NProcs,    \* number of functions
    CbrTargets \* the pairs of blocks a conditional branch may go to

Targets == Blocks \ {ENTRY_BLOCK}

ASSUME NProcsAssumption == NProcs \in Nat \ {0}
ASSUME CbrAssumption == CbrTargets \subseteq Targets \X Targets

Procs == 1..NProcs
Driver == 0  \* the caller of raviX_construct_cfg() that is no function's pass
NoGraph == [succs |-> <<>>, preds |-> <<>>]

VARIABLES
    code,    \* the functions as linearized
    last,    \* the last function nested in each, itself if there is none
    cfg,     \* Proc.cfg
    removed, \* the blocks whose instructions were removed
    phase,   \* what is running: "construct", "process_proc", the blocks
             \* ("sweep"), one that goes ("remove"), nothing ("done")
    caller,  \* during "construct": who called raviX_construct_cfg()
    p,       \* the function it runs on
    i,       \* its block
    g,       \* during "construct": the graph under construction
    todo,    \* targets not yet added, or successors not yet deleted, of i
    changed  \* a block was removed in this sweep

vars == <<code, last, cfg, removed, phase, caller, p, i, g, todo, changed>>

(* The last instruction of a block: a branch with its targets, none (the   *)
(* exit block), or one that is no branch.                                  *)
Branch(targets) == [kind |-> "branch", targets |-> targets]
NoInsn == [kind |-> "none", targets |-> <<>>]
OtherInsn == [kind |-> "other", targets |-> <<>>]

Branches == {Branch(<<b>>) : b \in Targets} \cup {Branch(c) : c \in CbrTargets}

Code ==
    {f \in [Blocks -> Branches \cup {NoInsn, OtherInsn}] :
        \A b \in Blocks : f[b] = NoInsn <=> b = EXIT_BLOCK}

(* How functions may be nested; the main function has all the others.      *)
Nestings ==
    {l \in [Procs -> Procs] :
        /\ l[1] = NProcs
        /\ \A q \in Procs : l[q] >= q /\ \A r \in q..l[q] : l[r] <= l[q]}

StartConstruct(by, q) ==
    /\ phase' = "construct" /\ caller' = by
    /\ p' = q /\ i' = 1 /\ g' = InitGraph /\ todo' = <<>>

Init ==
    /\ code \in [Procs -> Code]
    /\ last \in Nestings
    /\ cfg = [q \in Procs |-> NoGraph]
    /\ removed = [q \in Procs |-> {}]
    /\ phase = "construct" /\ caller = Driver
    /\ p = 1 /\ i = 1 /\ g = InitGraph /\ todo = <<>>
    /\ changed = FALSE

StartProc(q) ==
    /\ phase' = "process_proc"
    /\ p' = q /\ i' = 1 /\ todo' = <<>>
    /\ UNCHANGED <<caller, g>>

-----------------------------------------------------------------------------
(* raviX_construct_cfg() *)

Last == code[p][i]

ConstructBlock ==
    /\ phase = "construct" /\ todo = <<>> /\ i <= NBlocks
    /\ Last.kind # "other"
    /\ todo' = Last.targets
    /\ i' = IF Last.kind = "none" THEN i + 1 ELSE i
    /\ UNCHANGED <<code, last, cfg, removed, phase, caller, p, g, changed>>

ConstructEdge ==
    /\ phase = "construct" /\ todo # <<>>
    /\ g' = AddEdge(g, i, Head(todo))
    /\ todo' = Tail(todo)
    /\ i' = IF Tail(todo) = <<>> THEN i + 1 ELSE i
    /\ UNCHANGED <<code, last, cfg, removed, phase, caller, p, changed>>

(* The failure is passed up to the first caller.  The driver ignores it;   *)
(* process_proc() ends the whole pass.                                     *)
AfterFailure ==
    IF caller = Driver THEN StartProc(1)
    ELSE phase' = "done" /\ UNCHANGED <<caller, p, i, g, todo>>

AtOtherInsn ==
    phase = "construct" /\ todo = <<>> /\ i <= NBlocks /\ Last.kind = "other"

(* Mutant: Proc.cfg is set before the blocks are walked. *)
ConstructFailsHalfBuilt ==
    /\ AtOtherInsn
    /\ AfterFailure
    /\ cfg' = [cfg EXCEPT ![p] = g]
    /\ UNCHANGED <<code, last, removed, changed>>

ConstructFails ==
    /\ AtOtherInsn
    /\ AfterFailure
    /\ UNCHANGED <<code, last, cfg, removed, changed>>

(* The function raviX_construct_cfg() was called for. *)
Root == IF caller = Driver THEN 1 ELSE caller

ConstructDone ==
    /\ phase = "construct" /\ i > NBlocks
    /\ cfg' = [cfg EXCEPT ![p] = g]
    /\ IF p < last[Root] THEN StartConstruct(caller, p + 1)
       ELSE StartProc(Root)
    /\ UNCHANGED <<code, last, removed, changed>>

-----------------------------------------------------------------------------
(* raviX_remove_unreachable_blocks() and process_proc() *)

ProcessProc ==
    /\ phase = "process_proc"
    /\ IF cfg[p] = NoGraph THEN StartConstruct(p, p) /\ UNCHANGED changed
       ELSE phase' = "sweep" /\ changed' = FALSE /\ UNCHANGED <<caller, p, i, g, todo>>
    /\ UNCHANGED <<code, last, cfg, removed>>

(* Mutant: predecessors are not looked at. *)
UnusedAnyway(b) ==
    b \notin {ENTRY_BLOCK, EXIT_BLOCK} /\ cfg[p].succs[b] # <<>>

(* Mutant: a block that was removed is removed again. *)
UnusedEvenIfRemoved(b) ==
    b \notin {ENTRY_BLOCK, EXIT_BLOCK} /\ cfg[p].preds[b] = <<>>

(* process_block() removes this block. *)
Unused(b) ==
    /\ b \notin {ENTRY_BLOCK, EXIT_BLOCK}
    /\ cfg[p].preds[b] = <<>> /\ cfg[p].succs[b] # <<>>

KeepBlock ==
    /\ phase = "sweep" /\ i <= NBlocks /\ ~Unused(i)
    /\ i' = i + 1
    /\ UNCHANGED <<code, last, cfg, removed, phase, caller, p, g, todo, changed>>

(* The edges to be deleted are copied from the list they are deleted from. *)
RemoveBlock ==
    /\ phase = "sweep" /\ i <= NBlocks /\ Unused(i)
    /\ phase' = "remove"
    /\ todo' = cfg[p].succs[i]
    /\ UNCHANGED <<code, last, cfg, removed, caller, p, i, g, changed>>

RemoveEdge ==
    /\ phase = "remove" /\ todo # <<>>
    /\ cfg' = [cfg EXCEPT ![p] = DeleteEdge(@, i, Head(todo))]
    /\ todo' = Tail(todo)
    /\ UNCHANGED <<code, last, removed, phase, caller, p, i, g, changed>>

RemoveInsns ==
    /\ phase = "remove" /\ todo = <<>>
    /\ removed' = [removed EXCEPT ![p] = @ \cup {i}]
    /\ phase' = "sweep" /\ changed' = TRUE /\ i' = i + 1
    /\ UNCHANGED <<code, last, cfg, caller, p, g, todo>>

NextProc ==
    IF p < NProcs THEN StartProc(p + 1)
    ELSE phase' = "done" /\ UNCHANGED <<caller, p, i, g, todo>>

(* Mutant: the blocks are swept once only. *)
EndSweepOnce ==
    /\ phase = "sweep" /\ i > NBlocks
    /\ NextProc
    /\ UNCHANGED <<code, last, cfg, removed, changed>>

(* Mutant: the next sweep starts one block early. *)
EndSweepEarly ==
    /\ phase = "sweep" /\ i > NBlocks
    /\ IF changed THEN i' = 0 /\ changed' = FALSE /\ UNCHANGED <<phase, caller, p, g, todo>>
       ELSE NextProc /\ UNCHANGED changed
    /\ UNCHANGED <<code, last, cfg, removed>>

(* Sweeps until one removes nothing. *)
EndSweep ==
    /\ phase = "sweep" /\ i > NBlocks
    /\ IF changed THEN i' = 1 /\ changed' = FALSE /\ UNCHANGED <<phase, caller, p, g, todo>>
       ELSE NextProc /\ UNCHANGED changed
    /\ UNCHANGED <<code, last, cfg, removed>>

Step ==
    \/ ConstructBlock \/ ConstructEdge \/ ConstructFails \/ ConstructDone
    \/ ProcessProc \/ KeepBlock \/ RemoveBlock \/ RemoveEdge
    \/ RemoveInsns \/ EndSweep

Finished == phase = "done" /\ UNCHANGED vars

Next == Step \/ Finished

Spec == Init /\ [][Next]_vars

-----------------------------------------------------------------------------
(* Properties *)

(* The variables have their types. *)
TypeOK ==
    /\ code \in [Procs -> Code]
    /\ last \in Nestings
    /\ cfg \in [Procs -> Graphs \cup {NoGraph}]
    /\ removed \in [Procs -> SUBSET Blocks]
    /\ phase \in {"construct", "process_proc", "sweep", "remove", "done"}
    /\ caller \in Procs \cup {Driver}
    /\ p \in Procs
    /\ i \in 1..(NBlocks + 1)
    /\ g \in Graphs
    /\ todo \in Seq(Blocks)
    /\ changed \in BOOLEAN

CodeEdges(q) == {e \in Blocks \X Blocks : e[2] \in Range(code[q][e[1]].targets)}

(* No block that can be executed loses its instructions, whatever order    *)
(* blocks and functions are worked on, and also when a graph could not be  *)
(* built.                                                                  *)
NoReachableRemoved ==
    \A q \in Procs : \A b \in removed[q] : b \notin Reachable(CodeEdges(q))

(* The two lists of every node agree and are the edges of the code of the  *)
(* blocks that are left; of the block being removed, those still to go.    *)
InRemoval(q, b) == phase = "remove" /\ q = p /\ b = i
EdgesLeft(q) ==
    {e \in CodeEdges(q) :
        IF InRemoval(q, e[1]) THEN e[2] \in Range(todo) ELSE e[1] \notin removed[q]}
GraphRight ==
    \A q \in Procs :
        cfg[q] # NoGraph => Mirror(cfg[q]) /\ Edges(cfg[q]) = EdgesLeft(q)

(* The pass leaves a function only when every block it kept, the entry and *)
(* the exit apart, has a predecessor it kept.                              *)
Worked(q) == cfg[q] # NoGraph /\ (phase = "done" \/ (phase # "construct" /\ q < p))
NothingLeftToRemove ==
    \A q \in Procs : Worked(q) =>
        \A b \in Blocks \ (removed[q] \cup {ENTRY_BLOCK, EXIT_BLOCK}) :
            \E a \in Blocks \ removed[q] : <<a, b>> \in CodeEdges(q)

(* The pass ends: removing a block is not counted as a change for ever.    *)
Terminates == <>(phase = "done")
=============================================================================
