-------------------------- MODULE ExecutionProofs ---------------------------
(***************************************************************************)
(* The execution of a compiled function.  Every block ends with a branch   *)
(* and has no other, so a call never runs off the end of a block and       *)
(* follows the edges of the control flow graph.  The second half is about  *)
(* upvalues: the code is annotated, while it is linearized, with the       *)
(* scopes that may have open upvalues at each place of it; every handler   *)
(* keeps an annotation that fits, and the call stays within it.            *)
(***************************************************************************)
EXTENDS LinearizerProofs, Execution

(* The call is at an instruction of the compiled function, or has returned. *)
PcOK ==
    \/ pc = NotRunning
    \/ /\ stack = <<>>
       /\ \E b \in Blocks, i \in Nat \ {0} :
             pc = <<b, i>> /\ (b = EXIT_BLOCK \/ i <= Len(proc.nodes[b]))

(* The function is sound and the call is inside it. *)
RInv == IInv /\ CInv /\ PcOK

LEMMA CompiledCode ==
    ASSUME Structured, IInv, CInv, stack = <<>>, NEW b \in Blocks, b # EXIT_BLOCK
    PROVE  LET code == proc.nodes[b]
           IN  /\ code \in Seq(InsnType) /\ Len(code) \in Nat \ {0}
               /\ code[Len(code)].op \in Branches
               /\ IsBlockTerminated(proc, b)
               /\ \A i \in 1..Len(code) :
                     code[i].op \in Branches => i = Len(code) /\ BranchOK(Len(proc.nodes), code[i])
<1>1. FinalInsnIsBranch
  BY Implied DEF Structured
<1>2. IsBlockTerminated(proc, b)
  BY <1>1 DEF FinalInsnIsBranch
<1>3. /\ proc.nodes[b] \in Seq(InsnType) /\ CodeOK(proc)
  BY SoundTypes DEF CInv, Sound, Blocks
<1> DEFINE code == proc.nodes[b]
<1>4. code # <<>> /\ code[Len(code)].op \in Branches
  BY <1>2 DEF IsBlockTerminated
<1>5. \A i \in 1..Len(code) :
         code[i].op \in Branches => i = Len(code) /\ BranchOK(Len(proc.nodes), code[i])
  BY <1>3 DEF CodeOK, BlockOK, Blocks
<1>6. code \in Seq(InsnType)
  BY <1>3
<1> HIDE DEF code
<1>7. Len(code) \in Nat \ {0}
  BY <1>4, <1>6
<1> QED BY <1>2, <1>4, <1>5, <1>6, <1>7 DEF code

(* What is known when the call is at an instruction. *)
LEMMA AtInsnLemma ==
    ASSUME Structured, RInv, Running
    PROVE  /\ stack = <<>> /\ AtInsn /\ pc[1] \in Blocks /\ pc[1] # EXIT_BLOCK
           /\ pc[2] \in Nat \ {0} /\ pc[2] \in 1..Len(Code)
<1>1. PICK b \in Blocks, i \in Nat \ {0} :
         pc = <<b, i>> /\ (b = EXIT_BLOCK \/ i <= Len(proc.nodes[b]))
  BY DEF RInv, PcOK, Running
<1>2. stack = <<>> /\ pc[1] = b /\ pc[2] = i /\ b # EXIT_BLOCK
  BY <1>1 DEF RInv, PcOK, Running
<1>3. Len(proc.nodes[b]) \in Nat \ {0}
  BY <1>2, CompiledCode DEF RInv
<1> QED BY <1>1, <1>2, <1>3 DEF AtInsn, Code

LEMMA FirstInsn ==
    ASSUME Structured, IInv, CInv, stack = <<>>, NEW b \in Blocks
    PROVE  \E c \in Blocks, i \in Nat \ {0} :
             <<b, 1>> = <<c, i>> /\ (c = EXIT_BLOCK \/ i <= Len(proc.nodes[c]))
<1>1. b = EXIT_BLOCK \/ 1 <= Len(proc.nodes[b])
  <2>1. CASE b # EXIT_BLOCK
    <3>1. Len(proc.nodes[b]) \in Nat \ {0}
      BY <2>1, CompiledCode
    <3> QED BY <3>1
  <2> QED BY <2>1
<1>2. 1 \in Nat \ {0}
  OBVIOUS
<1> QED BY <1>1, <1>2

LEMMA EntryAndExit ==
    ASSUME IInv
    PROVE  ENTRY_BLOCK \in Blocks /\ EXIT_BLOCK \in Blocks
<1>1. ProcOK(proc)
  BY DEF IInv, StateOK
<1>2. Len(proc.nodes) \in Nat /\ Len(proc.nodes) >= 2
  BY <1>1 DEF ProcOK, ProcType
<1> QED BY <1>2 DEF Blocks, ENTRY_BLOCK, EXIT_BLOCK

(* An instruction that does not branch is not the last of its block. *)
LEMMA Advances ==
    ASSUME Structured, RInv, AtInsn, Insn0.op \notin Branches, Advance
    PROVE  RInv'
<1>1. /\ stack = <<>> /\ pc[1] \in Blocks /\ pc[1] # EXIT_BLOCK
      /\ pc[2] \in Nat \ {0} /\ pc[2] \in 1..Len(Code)
  BY AtInsnLemma DEF AtInsn
<1>2. Len(Code) \in Nat \ {0} /\ Code[Len(Code)].op \in Branches
  BY <1>1, CompiledCode DEF RInv, Code
<1>3. pc[2] # Len(Code)
  BY <1>2 DEF Insn0
<1>4. pc[2] + 1 \in Nat \ {0} /\ pc[2] + 1 <= Len(Code)
  BY <1>1, <1>2, <1>3
<1>5. pc' = <<pc[1], pc[2] + 1>> /\ UNCHANGED vars
  BY DEF Advance
<1>6. IInv' /\ CInv'
  BY <1>5 DEF RInv, vars, IInv, CountersOK, StateOK, CInv
<1> DEFINE b == pc[1]
           i == pc[2] + 1
<1>7. b \in Blocks /\ i \in Nat \ {0} /\ i <= Len(proc.nodes[b]) /\ pc' = <<b, i>>
  BY <1>1, <1>4, <1>5 DEF Code
<1> HIDE DEF b, i
<1>8. PcOK'
  BY <1>1, <1>5, <1>7 DEF PcOK, vars, Blocks
<1> QED BY <1>6, <1>8 DEF RInv

(* A branch is to the start of a block that is there. *)
LEMMA Jumps ==
    ASSUME Structured, RInv, stack = <<>>, UNCHANGED vars, NEW b \in Blocks, pc' = <<b, 1>>
    PROVE  RInv'
<1>1. IInv' /\ CInv'
  BY DEF RInv, vars, IInv, CountersOK, StateOK, CInv
<1>2. PcOK'
  BY FirstInsn DEF RInv, PcOK, vars, Blocks
<1> QED BY <1>1, <1>2 DEF RInv

LEMMA BranchTargets ==
    ASSUME Structured, RInv, Running, Insn0.op \in Branches
    PROVE  /\ \A k \in DOMAIN Insn0.targets :
                 Insn0.targets[k] \in Blocks /\ <<pc[1], Insn0.targets[k]>> \in CfgEdges
           /\ Insn0.op = "ret" => <<pc[1], EXIT_BLOCK>> \in CfgEdges
<1> DEFINE b == pc[1]
           n == Len(proc.nodes)
<1>1. /\ stack = <<>> /\ b \in Blocks /\ b # EXIT_BLOCK /\ pc[2] \in 1..Len(Code)
  BY AtInsnLemma
<1>2. /\ Code \in Seq(InsnType) /\ IsBlockTerminated(proc, b)
      /\ pc[2] = Len(Code) /\ BranchOK(n, Insn0)
  BY <1>1, CompiledCode DEF RInv, Code, Insn0
<1>3. Insn0 \in InsnType
  BY <1>1, <1>2 DEF Insn0
<1>4. DOMAIN Insn0.targets = 1..Len(Insn0.targets)
  BY <1>3 DEF InsnType
<1>5. Insn0 = proc.nodes[b][Len(proc.nodes[b])]
  BY <1>2 DEF Insn0, Code
<1>6. \A l \in DOMAIN Insn0.targets :
         Insn0.targets[l] \in Blocks /\ <<b, Insn0.targets[l]>> \in CfgEdges
  BY <1>1, <1>2, <1>4, <1>5 DEF BranchOK, Blocks, CfgEdges, Range
<1>7. Insn0.op = "ret" => \E l \in DOMAIN Insn0.targets : Insn0.targets[l] = EXIT_BLOCK
  BY <1>2, <1>4 DEF BranchOK
<1> QED BY <1>6, <1>7

LEMMA StepsOK ==
    ASSUME Structured, RInv, RunNext
    PROVE  RInv'
<1>1. CASE Compile
  <2>1. Step /\ UNCHANGED pc
    BY <1>1 DEF Compile, runVars
  <2>2. IInv' /\ CInv'
    BY <2>1, Preserved, KeptReady DEF RInv, Next
  <2>3. stack # <<>>
    BY <2>1 DEF Step, Done
  <2>4. pc' = NotRunning
    BY <2>1, <2>3 DEF RInv, PcOK
  <2> QED BY <2>2, <2>4 DEF RInv, PcOK
<1>2. CASE Call
  <2>1. ENTRY_BLOCK \in Blocks
    BY EntryAndExit DEF RInv
  <2> QED BY <1>2, <2>1, Jumps DEF Call, vars
<1>3. CASE RunStep
  <2>1. AtInsn /\ Running
    BY <1>3 DEF RunStep, RunOp, RunInitLocals, RunClosure, RunClose, RunBranch, RunReturn,
                Execute, AtInsn
  <2>2. CASE RunOp \/ RunInitLocals \/ RunClosure \/ RunClose
    <3>1. Advance /\ Insn0.op \notin Branches
      BY <2>2 DEF RunOp, RunInitLocals, RunClosure, RunClose, Execute, Branches
    <3> QED BY <2>1, <3>1, Advances
  <2>3. CASE RunBranch
    <3>1. Insn0.op \in Branches /\ UNCHANGED vars
      BY <2>3 DEF RunBranch, Execute, Branches, vars
    <3>2. PICK k \in DOMAIN Insn0.targets : pc' = <<Insn0.targets[k], 1>>
      BY <2>3 DEF RunBranch
    <3>3. Insn0.targets[k] \in Blocks /\ stack = <<>>
      BY <2>1, <3>1, BranchTargets, AtInsnLemma
    <3> QED BY <3>1, <3>2, <3>3, Jumps
  <2>4. CASE RunReturn
    <3>1. pc' = <<EXIT_BLOCK, 1>> /\ UNCHANGED vars
      BY <2>4 DEF RunReturn, vars
    <3>2. EXIT_BLOCK \in Blocks /\ stack = <<>>
      BY <2>1, EntryAndExit, AtInsnLemma DEF RInv
    <3> QED BY <3>1, <3>2, Jumps
  <2> QED BY <1>3, <2>2, <2>3, <2>4 DEF RunStep
<1>4. CASE Over
  BY <1>4 DEF Over, runVars, vars, RInv, PcOK, Blocks, IInv, CountersOK, StateOK, CInv
<1> QED BY <1>1, <1>2, <1>3, <1>4 DEF RunNext

LEMMA RInvKept ==
    ASSUME Structured
    PROVE  RunSpec => []RInv
<1>1. RunInit => RInv
  BY Initially, FirstReady DEF RunInit, RInv, PcOK
<1>2. RInv /\ [RunNext]_<<vars, runVars>> => RInv'
  <2>1. ASSUME RInv, UNCHANGED <<vars, runVars>> PROVE RInv'
    BY <2>1 DEF runVars, vars, RInv, PcOK, Blocks, IInv, CountersOK, StateOK, CInv
  <2> QED BY <2>1, StepsOK
<1> QED BY <1>1, <1>2, PTL DEF RunSpec

(* A call of a compiled function is at an instruction until it returns:    *)
(* whatever way the code of its statements is put together, control never  *)
(* runs off the end of a block into the block that the code generator      *)
(* happens to put behind it.  Functions with one of the three statements of*)
(* Structured are left out, as in ContextKept, on which this rests.        *)
THEOREM NeverFallsThrough ==
    ASSUME Structured
    PROVE  RunSpec => []NoFallThrough
<1>1. RInv => NoFallThrough
  BY AtInsnLemma DEF NoFallThrough
<1> QED BY <1>1, RInvKept, PTL

(* Every branch a call takes, and every return, is an edge of the graph    *)
(* that raviX_construct_cfg() builds from the last instruction of each     *)
(* block, in functions without the three statements of Structured.         *)
THEOREM BranchesAreEdges ==
    ASSUME Structured
    PROVE  RunSpec => TakenEdgesInCfg
<1>1. ASSUME RInv, RunNext, AtInsn, Insn0.op \in Branches
      PROVE  \/ <<pc[1], pc'[1]>> \in CfgEdges
             \/ UNCHANGED <<vars, runVars>>
  <2>1. Running /\ stack = <<>> /\ pc # NotRunning
    BY <1>1, AtInsnLemma DEF AtInsn, Running
  <2>2. ~Compile /\ ~Call
    BY <2>1 DEF Compile, Step, Done, Call
  <2>3. ~(RunOp \/ RunInitLocals \/ RunClosure \/ RunClose)
    BY <1>1 DEF RunOp, RunInitLocals, RunClosure, RunClose, Execute, Branches
  <2>4. CASE RunBranch
    <3>1. PICK k \in DOMAIN Insn0.targets : pc' = <<Insn0.targets[k], 1>>
      BY <2>4 DEF RunBranch
    <3>2. <<pc[1], Insn0.targets[k]>> \in CfgEdges
      BY <1>1, <2>1, BranchTargets
    <3>3. pc'[1] = Insn0.targets[k]
      BY <3>1
    <3> QED BY <3>2, <3>3
  <2>5. CASE RunReturn
    <3>1. pc'[1] = EXIT_BLOCK /\ Insn0.op = "ret"
      BY <2>5 DEF RunReturn, Execute
    <3> QED BY <1>1, <2>1, <3>1, BranchTargets
  <2>6. CASE Over
    BY <2>6 DEF Over
  <2> QED BY <1>1, <2>2, <2>3, <2>4, <2>5, <2>6 DEF RunNext, RunStep
<1>2. RInv /\ [RunNext]_<<vars, runVars>>
        => [AtInsn /\ Insn0.op \in Branches => <<pc[1], pc'[1]>> \in CfgEdges]_<<vars, runVars>>
  BY <1>1
<1> QED BY <1>2, RInvKept, PTL DEF RunSpec, TakenEdgesInCfg

-----------------------------------------------------------------------------
(* Upvalues.  Every place of the code is annotated with the scopes that    *)
(* are in force there: those in scope whose locals are declared and may    *)
(* have open upvalues.  E gives the scopes at the start of every block,    *)
(* and A those before every instruction of it and after the last one.      *)
BelowReg(sc, t, r) == \A q \in EscapedRegs(sc[t]) : q < r
AboveReg(sc, t, r) == \A q \in EscapedRegs(sc[t]) : q >= r

(* Entered at i, the code closes r before it does anything else. *)
ClosesFirst(code, i, r) ==
    \E j \in i..Len(code) : code[j].reg <= r /\ \A k \in i..j : code[k].op = "close"

WOK(p, W) ==
    \A w \in W : w[1] \in 1..Len(p.nodes) /\ ClosesFirst(p.nodes[w[1]], 1, w[2])

(* A branch to b leaves scopes only if b closes their locals: W has the    *)
(* blocks and the registers they close first.                              *)
EdgeOK(sc, E, W, b, X) ==
    /\ E[b] \subseteq X
    /\ \A s \in X \ E[b] : \A r \in EscapedRegs(sc[s]) : <<b, r>> \in W

(* An instruction has X in force before it and Y after it. *)
OpOK(sc, insn, X, Y) ==
    /\ insn.scope \in 1..Len(sc) /\ Y = X
    /\ \A t \in X : \E k \in 1..Len(sc[insn.scope].path) : sc[insn.scope].path[k] = t
UseOK(sc, insn, X, Y) ==
    insn.scope \in X /\ Y = X /\ insn.reg \in EscapedRegs(sc[insn.scope])
InitOK(sc, insn, X, Y) ==
    /\ \A t \in X : BelowReg(sc, t, insn.reg)
    /\ X \subseteq Y /\ Y \subseteq X \cup {insn.scope}
CloseOK(sc, insn, X, Y) ==
    /\ Y \subseteq X
    /\ \A t \in Y : BelowReg(sc, t, insn.reg)
    /\ \A t \in X \ Y : AboveReg(sc, t, insn.reg)
JumpOK(sc, E, W, insn, X) ==
    \A k \in 1..Len(insn.targets) : EdgeOK(sc, E, W, insn.targets[k], X)

InsnOK(sc, E, W, insn, X, Y) ==
    /\ insn.op = "op" => OpOK(sc, insn, X, Y)
    /\ insn.op \in {"use", "closure"} => UseOK(sc, insn, X, Y)
    /\ insn.op = "init" => InitOK(sc, insn, X, Y)
    /\ insn.op = "close" => CloseOK(sc, insn, X, Y)
    /\ insn.op \in {"br", "cbr"} => JumpOK(sc, E, W, insn, X)

Places == [Nat -> [Nat -> SUBSET Nat]]

(* A is right for block b with that code. *)
CodeFlow(sc, E, W, code, flow) ==
    /\ \A i \in 1..(Len(code) + 1) : flow[i] \subseteq 1..Len(sc)
    /\ \A i \in 1..Len(code) : InsnOK(sc, E, W, code[i], flow[i], flow[i + 1])

(* A block still to be started closes locals only, none of those in force. *)
Steady(code, flow) ==
    \A i \in 1..Len(code) : code[i].op = "close" /\ flow[i + 1] = flow[1]

Flow(p, sc, E, W, U, A) ==
    /\ A \in Places
    /\ \A b \in 1..Len(p.nodes) : A[b][1] = E[b] /\ CodeFlow(sc, E, W, p.nodes[b], A[b])
    /\ \A b \in U : Steady(p.nodes[b], A[b])
    /\ WOK(p, W)

(* The annotation fits, and X is in force where the walk is. *)
EndOf(p, A, b) == A[b][Len(p.nodes[b]) + 1]
EndsWith(p, A, X) == Open(p) => EndOf(p, A, p.current_bb) = X
Fits(p, sc, E, W, U, X) == \E A : Flow(p, sc, E, W, U, A) /\ EndsWith(p, A, X)

-----------------------------------------------------------------------------
LEMMA OneMore ==
    ASSUME NEW S, NEW u \in Seq(S), NEW x \in S
    PROVE  LET v == u \o <<x>>
           IN  /\ Len(v) = Len(u) + 1 /\ v[Len(u) + 1] = x
               /\ \A i \in 1..Len(u) : v[i] = u[i]
               /\ Len(u) \in Nat
OBVIOUS

Put(A, b, i, Y) == [A EXCEPT ![b] = [@ EXCEPT ![i] = Y]]

LEMMA PutLemma ==
    ASSUME NEW A \in Places, NEW b \in Nat, NEW i \in Nat, NEW Y \in SUBSET Nat
    PROVE  /\ Put(A, b, i, Y) \in Places
           /\ Put(A, b, i, Y)[b][i] = Y
           /\ \A j \in Nat : j # i => Put(A, b, i, Y)[b][j] = A[b][j]
           /\ \A c \in Nat : c # b => Put(A, b, i, Y)[c] = A[c]
<1>1. A[b] \in [Nat -> SUBSET Nat]
  BY DEF Places
<1>2. [A[b] EXCEPT ![i] = Y] \in [Nat -> SUBSET Nat]
  BY <1>1
<1> DEFINE f == [A[b] EXCEPT ![i] = Y]
<1>3. f \in [Nat -> SUBSET Nat] /\ f[i] = Y /\ \A j \in Nat : j # i => f[j] = A[b][j]
  BY <1>1, <1>2
<1>4. Put(A, b, i, Y) = [A EXCEPT ![b] = f]
  BY DEF Put
<1> HIDE DEF f
<1> QED BY <1>3, <1>4 DEF Places

(* One instruction more in a block without a branch. *)
LEMMA ClosesStay ==
    ASSUME NEW u \in Seq(InsnType), NEW v \in Seq(InsnType), NEW r, ClosesFirst(u, 1, r)
    PROVE  ClosesFirst(u \o v, 1, r)
<1> DEFINE w == u \o v
<1>1. /\ Len(w) = Len(u) + Len(v) /\ Len(u) \in Nat /\ Len(v) \in Nat
      /\ \A i \in 1..Len(u) : w[i] = u[i]
  BY ConcatFirst
<1> HIDE DEF w
<1>2. PICK j \in 1..Len(u) : u[j].reg <= r /\ \A k \in 1..j : u[k].op = "close"
  BY DEF ClosesFirst
<1>3. j \in 1..Len(w) /\ \A k \in 1..j : w[k] = u[k]
  BY <1>1
<1> QED BY <1>2, <1>3 DEF ClosesFirst, w

LEMMA CodeFlowGrows ==
    ASSUME NEW sc, Len(sc) \in Nat, NEW E, NEW W, NEW code \in Seq(InsnType), NEW insn \in InsnType,
           NEW f, NEW g, CodeFlow(sc, E, W, code, f),
           \A j \in Nat : j # Len(code) + 2 => g[j] = f[j],
           NEW X, X = f[Len(code) + 1], NEW Y, Y = g[Len(code) + 2], Y \subseteq 1..Len(sc),
           InsnOK(sc, E, W, insn, X, Y)
    PROVE  CodeFlow(sc, E, W, code \o <<insn>>, g)
<1> DEFINE n == Len(code)
           new == code \o <<insn>>
<1>1. /\ n \in Nat /\ Len(new) = n + 1 /\ new[n + 1] = insn
      /\ \A i \in 1..n : new[i] = code[i]
  BY OneMore
<1> HIDE DEF new
<1>2. n = Len(code)
  OBVIOUS
<1> HIDE DEF n
<1>3. ASSUME NEW i \in 1..(Len(new) + 1) PROVE g[i] \subseteq 1..Len(sc)
  <2>1. CASE i = n + 2
    BY <1>2, <2>1
  <2>2. CASE i # n + 2
    <3>1. i \in 1..(n + 1) /\ i \in Nat
      BY <1>1, <2>2
    <3> QED BY <1>2, <2>2, <3>1 DEF CodeFlow
  <2> QED BY <2>1, <2>2
<1>4. ASSUME NEW i \in 1..Len(new) PROVE InsnOK(sc, E, W, new[i], g[i], g[i + 1])
  <2>1. CASE i = n + 1
    <3>1. g[i] = X /\ g[i + 1] = Y
      <4>1. i \in Nat /\ i # n + 2 /\ i + 1 = n + 2
        BY <1>1, <2>1
      <4> QED BY <1>2, <2>1, <4>1
    <3> QED BY <1>1, <2>1, <3>1
  <2>2. CASE i # n + 1
    <3>1. i \in 1..n /\ i \in Nat /\ i + 1 \in Nat /\ i # n + 2 /\ i + 1 # n + 2
      BY <1>1, <2>2
    <3>2. g[i] = f[i] /\ g[i + 1] = f[i + 1] /\ new[i] = code[i]
      BY <1>1, <1>2, <3>1
    <3>3. InsnOK(sc, E, W, code[i], f[i], f[i + 1])
      BY <1>2, <3>1 DEF CodeFlow
    <3> QED BY <3>2, <3>3
  <2> QED BY <2>1, <2>2
<1> QED BY <1>3, <1>4 DEF CodeFlow, new

LEMMA SteadyGrows ==
    ASSUME NEW code \in Seq(InsnType), NEW insn \in InsnType, insn.op = "close",
           NEW f, NEW g, Steady(code, f),
           \A j \in Nat : j # Len(code) + 2 => g[j] = f[j], g[Len(code) + 2] = f[1]
    PROVE  Steady(code \o <<insn>>, g)
<1> DEFINE n == Len(code)
           new == code \o <<insn>>
<1>1. /\ n \in Nat /\ Len(new) = n + 1 /\ new[n + 1] = insn
      /\ \A i \in 1..n : new[i] = code[i]
  BY OneMore
<1> HIDE DEF new
<1>2. n = Len(code)
  OBVIOUS
<1> HIDE DEF n
<1>3. g[1] = f[1]
  BY <1>1, <1>2
<1>4. ASSUME NEW i \in 1..Len(new) PROVE new[i].op = "close" /\ g[i + 1] = g[1]
  <2>1. CASE i = n + 1
    <3>1. i + 1 = n + 2
      BY <1>1, <2>1
    <3> QED BY <1>1, <1>2, <1>3, <2>1, <3>1
  <2>2. CASE i # n + 1
    <3>1. i \in 1..n /\ i + 1 \in Nat /\ i + 1 # n + 2
      BY <1>1, <2>2
    <3>2. g[i + 1] = f[i + 1] /\ new[i] = code[i]
      BY <1>1, <1>2, <3>1
    <3>3. code[i].op = "close" /\ f[i + 1] = f[1]
      BY <1>2, <3>1 DEF Steady
    <3> QED BY <1>3, <3>2, <3>3
  <2> QED BY <2>1, <2>2
<1> QED BY <1>4 DEF Steady, new

(* One instruction more in block b, with Y in force after it. *)
CanAppend(p, sc, E, W, U, A, b, insn, Y) ==
    /\ Len(sc) \in Nat /\ Flow(p, sc, E, W, U, A) /\ U \subseteq 1..Len(p.nodes)
    /\ b \in 1..Len(p.nodes) /\ insn \in InsnType /\ Y \subseteq 1..Len(sc)
    /\ InsnOK(sc, E, W, insn, EndOf(p, A, b), Y)
    /\ b \in U => insn.op = "close" /\ Y = E[b]
Appended(p, sc, E, W, U, A, b, insn, Y) ==
    \E B : /\ Flow(AddCode(p, b, <<insn>>), sc, E, W, U, B)
           /\ EndOf(AddCode(p, b, <<insn>>), B, b) = Y
           /\ \A c \in Nat : c # b => B[c] = A[c]

LEMMA AppendFlow ==
    ASSUME NEW p, NEW V, Sound(p, V), NEW sc, NEW E, NEW W, NEW U, NEW A, NEW b, NEW insn,
           NEW Y, CanAppend(p, sc, E, W, U, A, b, insn, Y)
    PROVE  Appended(p, sc, E, W, U, A, b, insn, Y)
<1> USE DEF CanAppend
<1> DEFINE code == <<insn>>
           q == AddCode(p, b, code)
           n == Len(p.nodes[b])
           B == Put(A, b, n + 2, Y)
<1>1. /\ ProcOK(p) /\ p.nodes[b] \in Seq(InsnType) /\ code \in Seq(InsnType)
      /\ \A c \in 1..Len(p.nodes) : p.nodes[c] \in Seq(InsnType)
      /\ b \in Nat /\ n \in Nat /\ A \in Places /\ Len(p.nodes) \in Nat
  BY SoundTypes DEF Flow
<1> HIDE DEF code
<1>2. /\ Len(q.nodes) = Len(p.nodes) /\ q.nodes[b] = p.nodes[b] \o code
      /\ \A c \in 1..Len(p.nodes) : c # b => q.nodes[c] = p.nodes[c]
  BY <1>1, AppendCode
<1> HIDE DEF q
<1>3. Y \in SUBSET Nat /\ n + 2 \in Nat
  BY <1>1
<1>4. /\ B \in Places /\ B[b][n + 2] = Y
      /\ \A j \in Nat : j # n + 2 => B[b][j] = A[b][j]
      /\ \A c \in Nat : c # b => B[c] = A[c]
  BY <1>1, <1>3, PutLemma
<1> HIDE DEF B
<1>5. CodeFlow(sc, E, W, q.nodes[b], B[b])
  <2>1. CodeFlow(sc, E, W, p.nodes[b], A[b])
    BY DEF Flow
  <2> QED BY <1>1, <1>2, <1>4, <2>1, CodeFlowGrows DEF code, EndOf
<1>6. B[b][1] = E[b]
  <2>1. B[b][1] = A[b][1]
    BY <1>1, <1>4
  <2> QED BY <2>1 DEF Flow
<1>7. ASSUME NEW c \in 1..Len(q.nodes)
      PROVE  B[c][1] = E[c] /\ CodeFlow(sc, E, W, q.nodes[c], B[c])
  <2>1. CASE c = b
    BY <1>5, <1>6, <2>1
  <2>2. CASE c # b
    <3>1. A[c][1] = E[c] /\ CodeFlow(sc, E, W, p.nodes[c], A[c])
      BY <1>2 DEF Flow
    <3>2. c \in Nat /\ q.nodes[c] = p.nodes[c]
      BY <1>1, <1>2, <2>2
    <3> QED BY <1>4, <2>2, <3>1, <3>2
  <2> QED BY <2>1, <2>2
<1>8. ASSUME NEW c \in U
      PROVE  Steady(q.nodes[c], B[c])
  <2>1. Steady(p.nodes[c], A[c])
    BY DEF Flow
  <2>2. CASE c = b
    <3>1. A[b][1] = E[b]
      BY DEF Flow
    <3>2. insn.op = "close" /\ Y = A[b][1] /\ Steady(p.nodes[b], A[b])
      BY <2>1, <2>2, <3>1
    <3> DEFINE f == A[b]
               g == B[b]
               old == p.nodes[b]
    <3>3. /\ old \in Seq(InsnType) /\ insn \in InsnType /\ insn.op = "close" /\ Steady(old, f)
          /\ \A j \in Nat : j # Len(old) + 2 => g[j] = f[j]
          /\ g[Len(old) + 2] = f[1]
      BY <1>1, <1>4, <3>2
    <3> HIDE DEF f, g, old
    <3>4. Steady(old \o <<insn>>, g)
      BY ONLY <3>3, SteadyGrows
    <3>5. Steady(p.nodes[b] \o <<insn>>, B[b])
      BY <3>4 DEF old, g
    <3> QED BY <1>2, <2>2, <3>5 DEF code
  <2>3. CASE c # b
    <3>1. c \in 1..Len(p.nodes) /\ c \in Nat
      BY <1>1
    <3> QED BY <1>2, <1>4, <2>1, <2>3, <3>1
  <2> QED BY <2>2, <2>3
<1>9. Len(q.nodes[b]) + 1 = n + 2
  BY <1>1, <1>2, OneMore DEF code
<1>10. ASSUME NEW w \in W
       PROVE  w[1] \in 1..Len(q.nodes) /\ ClosesFirst(q.nodes[w[1]], 1, w[2])
  <2>1. w[1] \in 1..Len(p.nodes) /\ ClosesFirst(p.nodes[w[1]], 1, w[2])
    BY DEF Flow, WOK
  <2>2. CASE w[1] = b
    <3>1. ClosesFirst(p.nodes[b] \o code, 1, w[2])
      BY <1>1, <2>1, <2>2, ClosesStay DEF code
    <3> QED BY <1>2, <2>1, <2>2, <3>1
  <2>3. CASE w[1] # b
    BY <1>2, <2>1, <2>3
  <2> QED BY <2>2, <2>3
<1>11. Flow(q, sc, E, W, U, B) /\ EndOf(q, B, b) = Y
  BY <1>4, <1>7, <1>8, <1>9, <1>10 DEF Flow, WOK, EndOf
<1> QED BY <1>4, <1>11 DEF Appended, q, code

LEMMA FitsTypes ==
    ASSUME NEW p, NEW U, Sound(p, U), NEW sc, NEW E, NEW W, NEW X, Fits(p, sc, E, W, U, X)
    PROVE  /\ Open(p) => X \subseteq 1..Len(sc)
           /\ \A b \in 1..Len(p.nodes) : E[b] \subseteq 1..Len(sc)
<1>1. PICK A : Flow(p, sc, E, W, U, A) /\ EndsWith(p, A, X)
  BY DEF Fits
<1>2. ASSUME NEW b \in 1..Len(p.nodes), NEW i \in 1..(Len(p.nodes[b]) + 1)
      PROVE  A[b][i] \subseteq 1..Len(sc)
  BY <1>1 DEF Flow, CodeFlow
<1>3. /\ p.current_bb \in 1..Len(p.nodes)
      /\ \A b \in 1..Len(p.nodes) : p.nodes[b] \in Seq(InsnType)
  BY SoundTypes
<1>4. \A b \in 1..Len(p.nodes) : /\ 1 \in 1..(Len(p.nodes[b]) + 1)
                                 /\ Len(p.nodes[b]) + 1 \in 1..(Len(p.nodes[b]) + 1)
  BY <1>3
<1>5. Open(p) => X \subseteq 1..Len(sc)
  BY <1>1, <1>2, <1>3, <1>4 DEF EndsWith, EndOf
<1>6. \A b \in 1..Len(p.nodes) : E[b] \subseteq 1..Len(sc)
  BY <1>1, <1>2, <1>4 DEF Flow
<1> QED BY <1>5, <1>6

(* An instruction at the end of the current block. *)
LEMMA AddFits ==
    ASSUME NEW p, NEW U, Sound(p, U), Open(p), NEW sc, Len(sc) \in Nat, NEW E, NEW W, NEW X,
           Fits(p, sc, E, W, U, X), NEW insn \in InsnType,
           NEW Y, Y \subseteq 1..Len(sc), InsnOK(sc, E, W, insn, X, Y)
    PROVE  Fits(AddInstruction(p, insn), sc, E, W, U, Y)
<1> DEFINE b == p.current_bb
           q == AddCode(p, b, <<insn>>)
<1>1. PICK A : Flow(p, sc, E, W, U, A) /\ EndsWith(p, A, X)
  BY DEF Fits
<1>2. b \in 1..Len(p.nodes) /\ b \notin U /\ U \subseteq 1..Len(p.nodes)
  BY SoundTypes DEF Sound
<1>3. EndOf(p, A, b) = X
  BY <1>1 DEF EndsWith
<1>4. PICK B : Flow(q, sc, E, W, U, B) /\ EndOf(q, B, b) = Y
  <2>1. CanAppend(p, sc, E, W, U, A, b, insn, Y)
    BY <1>1, <1>2, <1>3 DEF CanAppend
  <2>2. Appended(p, sc, E, W, U, A, b, insn, Y)
    BY <2>1, AppendFlow
  <2> QED BY <2>2 DEF Appended
<1>5. q.current_bb = b
  <2>1. ProcOK(p) /\ <<insn>> \in Seq(InsnType)
    BY SoundTypes
  <2> QED BY <1>2, <2>1, AppendCode
<1>6. AddInstruction(p, insn) = q
  BY DEF AddInstruction
<1> HIDE DEF q
<1>7. EndsWith(q, B, Y)
  BY <1>4, <1>5 DEF EndsWith
<1> QED BY <1>4, <1>6, <1>7 DEF Fits

LEMMA OpFits ==
    ASSUME NEW p, NEW U, Sound(p, U), Open(p), NEW sc, Len(sc) \in Nat, NEW E, NEW W, NEW X,
           Fits(p, sc, E, W, U, X), NEW insn \in InsnType,
           NEW Y, Y \subseteq 1..Len(sc), InsnOK(sc, E, W, insn, X, Y)
    PROVE  Fits(Ops(p, <<insn>>), sc, E, W, U, Y)
<1>1. Ops(p, <<insn>>) = AddInstruction(p, insn)
  BY DEF Ops, AddInstruction
<1> QED BY <1>1, AddFits

(* Where the walk is nothing more is added: any scopes do. *)
LEMMA AnyScopes ==
    ASSUME NEW p, ~Open(p), NEW sc, NEW E, NEW W, NEW U, NEW X, NEW Y,
           Fits(p, sc, E, W, U, X)
    PROVE  Fits(p, sc, E, W, U, Y)
BY DEF Fits, EndsWith

LEMMA JumpFits ==
    ASSUME NEW p, NEW U, Sound(p, U), Open(p), NEW sc, Len(sc) \in Nat, NEW E, NEW W, NEW X,
           Fits(p, sc, E, W, U, X), NEW insn \in InsnType, insn.op \in Branches,
           BranchOK(Len(p.nodes), insn), insn.op # "ret" => JumpOK(sc, E, W, insn, X), NEW Y
    PROVE  Fits(AddInstruction(p, insn), sc, E, W, U, Y)
<1>1. X \subseteq 1..Len(sc)
  BY FitsTypes
<1>2. InsnOK(sc, E, W, insn, X, X)
  BY DEF InsnOK, Branches
<1>3. Fits(AddInstruction(p, insn), sc, E, W, U, X)
  BY <1>1, <1>2, AddFits
<1>4. ~Open(AddInstruction(p, insn))
  BY BranchSound
<1> QED BY <1>3, <1>4, AnyScopes

(* Only the entries of the blocks that are there matter. *)
SameEntries(p, E, F) == \A b \in 1..Len(p.nodes) : F[b] = E[b]

LEMMA EntriesFlow ==
    ASSUME NEW p, NEW U, Sound(p, U), NEW sc, NEW E, NEW F, NEW W, NEW X,
           Fits(p, sc, E, W, U, X), SameEntries(p, E, F)
    PROVE  Fits(p, sc, F, W, U, X)
<1>1. PICK A : Flow(p, sc, E, W, U, A) /\ EndsWith(p, A, X)
  BY DEF Fits
<1> DEFINE n == Len(p.nodes)
<1>2. ASSUME NEW insn \in InsnType, insn.op \in Branches => BranchOK(n, insn), NEW Y, NEW Z,
             InsnOK(sc, E, W, insn, Y, Z)
      PROVE  InsnOK(sc, F, W, insn, Y, Z)
  <2>1. ASSUME insn.op \in {"br", "cbr"} PROVE JumpOK(sc, F, W, insn, Y)
    <3>1. \A k \in 1..Len(insn.targets) : insn.targets[k] \in 1..n
      BY <1>2, <2>1 DEF BranchOK, Branches
    <3>2. JumpOK(sc, E, W, insn, Y)
      BY <1>2, <2>1 DEF InsnOK
    <3>3. ASSUME NEW k \in 1..Len(insn.targets) PROVE EdgeOK(sc, F, W, insn.targets[k], Y)
      <4>1. EdgeOK(sc, E, W, insn.targets[k], Y) /\ F[insn.targets[k]] = E[insn.targets[k]]
        BY <3>1, <3>2 DEF JumpOK, SameEntries
      <4> QED BY <4>1 DEF EdgeOK
    <3> QED BY <3>3 DEF JumpOK
  <2> QED BY <1>2, <2>1 DEF InsnOK
<1>3. \A b \in 1..n : p.nodes[b] \in Seq(InsnType) /\ BlockOK(n, p.nodes[b])
  BY SoundTypes DEF Sound, CodeOK
<1>4. ASSUME NEW b \in 1..n PROVE A[b][1] = F[b] /\ CodeFlow(sc, F, W, p.nodes[b], A[b])
  <2>1. A[b][1] = E[b] /\ CodeFlow(sc, E, W, p.nodes[b], A[b])
    BY <1>1 DEF Flow
  <2>2. ASSUME NEW i \in 1..Len(p.nodes[b])
        PROVE  InsnOK(sc, F, W, p.nodes[b][i], A[b][i], A[b][i + 1])
    <3>1. /\ p.nodes[b][i] \in InsnType
          /\ p.nodes[b][i].op \in Branches => BranchOK(n, p.nodes[b][i])
      BY <1>3 DEF BlockOK
    <3>2. InsnOK(sc, E, W, p.nodes[b][i], A[b][i], A[b][i + 1])
      BY <2>1 DEF CodeFlow
    <3> QED BY <1>2, <3>1, <3>2
  <2> QED BY <2>1, <2>2 DEF CodeFlow, SameEntries
<1>5. Flow(p, sc, F, W, U, A)
  BY <1>1, <1>4 DEF Flow
<1> QED BY <1>1, <1>5 DEF Fits

(* More blocks, all with the scopes Z in force at their start. *)
Extend(E, n, Z) == [b \in Nat |-> IF b > n THEN Z ELSE E[b]]

LEMMA ExtendSame ==
    ASSUME NEW p, Len(p.nodes) \in Nat, NEW E, NEW Z
    PROVE  /\ SameEntries(p, E, Extend(E, Len(p.nodes), Z))
           /\ \A b \in Nat : b > Len(p.nodes) => Extend(E, Len(p.nodes), Z)[b] = Z
BY DEF SameEntries, Extend

LEMMA FewerFits ==
    ASSUME NEW p, NEW sc, NEW E, NEW W, NEW U, NEW V, NEW X, Fits(p, sc, E, W, U, X),
           V \subseteq U
    PROVE  Fits(p, sc, E, W, V, X)
BY DEF Fits, Flow

LEMMA ContextFits ==
    ASSUME NEW p, NEW q, q.nodes = p.nodes, q.current_bb = p.current_bb,
           NEW sc, NEW E, NEW W, NEW U, NEW X, Fits(p, sc, E, W, U, X)
    PROVE  Fits(q, sc, E, W, U, X)
<1>1. Open(q) <=> Open(p)
  BY DEF Open, IsBlockTerminated
<1>2. PICK A : Flow(p, sc, E, W, U, A) /\ EndsWith(p, A, X)
  BY DEF Fits
<1>3. Flow(q, sc, E, W, U, A)
  BY <1>2 DEF Flow, WOK
<1>4. EndsWith(q, A, X)
  BY <1>1, <1>2 DEF EndsWith, EndOf
<1> QED BY <1>3, <1>4 DEF Fits

(* Scopes are added, and change only in their labels. *)
SameShape(sc, sd) ==
    /\ Len(sc) \in Nat /\ Len(sd) \in Nat /\ Len(sd) >= Len(sc)
    /\ \A s \in 1..Len(sc) : /\ sd[s].path = sc[s].path /\ sd[s].base = sc[s].base
                             /\ sd[s].locals = sc[s].locals

LEMMA ShapeInsn ==
    ASSUME NEW sc, NEW sd, SameShape(sc, sd), NEW E, NEW W, NEW insn,
           NEW X, X \subseteq 1..Len(sc), NEW Y, Y \subseteq 1..Len(sc),
           InsnOK(sc, E, W, insn, X, Y)
    PROVE  InsnOK(sd, E, W, insn, X, Y)
<1>1. \A s \in 1..Len(sc) : EscapedRegs(sd[s]) = EscapedRegs(sc[s])
  BY DEF SameShape, EscapedRegs
<1>2. insn.op = "op" => OpOK(sd, insn, X, Y)
  BY DEF InsnOK, OpOK, SameShape
<1>3. insn.op \in {"use", "closure"} => UseOK(sd, insn, X, Y)
  BY <1>1 DEF InsnOK, UseOK
<1>4. insn.op = "init" => InitOK(sd, insn, X, Y)
  BY <1>1 DEF InsnOK, InitOK, BelowReg
<1>5. insn.op = "close" => CloseOK(sd, insn, X, Y)
  BY <1>1 DEF InsnOK, CloseOK, BelowReg, AboveReg
<1>6. insn.op \in {"br", "cbr"} => JumpOK(sd, E, W, insn, X)
  <2>1. \A b : EdgeOK(sc, E, W, b, X) => EdgeOK(sd, E, W, b, X)
    BY <1>1 DEF EdgeOK
  <2> QED BY <2>1 DEF InsnOK, JumpOK
<1> QED BY <1>2, <1>3, <1>4, <1>5, <1>6 DEF InsnOK

LEMMA ShapeFits ==
    ASSUME NEW p, NEW sc, NEW sd, SameShape(sc, sd), NEW E, NEW W, NEW U, NEW X,
           Fits(p, sc, E, W, U, X), \A b \in 1..Len(p.nodes) : Len(p.nodes[b]) \in Nat
    PROVE  Fits(p, sd, E, W, U, X)
<1>1. PICK A : Flow(p, sc, E, W, U, A) /\ EndsWith(p, A, X)
  BY DEF Fits
<1>2. ASSUME NEW b \in 1..Len(p.nodes) PROVE CodeFlow(sd, E, W, p.nodes[b], A[b])
  <2>1. CodeFlow(sc, E, W, p.nodes[b], A[b])
    BY <1>1 DEF Flow
  <2>2. \A i \in 1..(Len(p.nodes[b]) + 1) : A[b][i] \subseteq 1..Len(sd)
    BY <2>1 DEF CodeFlow, SameShape
  <2>3. ASSUME NEW i \in 1..Len(p.nodes[b])
        PROVE  InsnOK(sd, E, W, p.nodes[b][i], A[b][i], A[b][i + 1])
    <3>0. i \in 1..(Len(p.nodes[b]) + 1) /\ i + 1 \in 1..(Len(p.nodes[b]) + 1)
      OBVIOUS
    <3>1. A[b][i] \subseteq 1..Len(sc) /\ A[b][i + 1] \subseteq 1..Len(sc)
      BY <2>1, <3>0 DEF CodeFlow
    <3>2. InsnOK(sc, E, W, p.nodes[b][i], A[b][i], A[b][i + 1])
      BY <2>1 DEF CodeFlow
    <3> QED BY <3>1, <3>2, ShapeInsn
  <2> QED BY <2>2, <2>3 DEF CodeFlow
<1>3. Flow(p, sd, E, W, U, A)
  BY <1>1, <1>2 DEF Flow
<1> QED BY <1>1, <1>3 DEF Fits

LEMMA CreateFits ==
    ASSUME NEW p, NEW U, Sound(p, U), NEW sc, NEW E, NEW W, NEW X,
           Fits(p, sc, E, W, U, X), NEW n \in Nat, NEW Z, Len(sc) \in Nat, Z \subseteq 1..Len(sc)
    PROVE  Fits(CreateBlocks(p, n), sc, Extend(E, Len(p.nodes), Z), W,
                U \cup ((Len(p.nodes) + 1)..(Len(p.nodes) + n)), X)
<1> DEFINE q == CreateBlocks(p, n)
           m == Len(p.nodes)
           F == Extend(E, m, Z)
           V == U \cup ((m + 1)..(m + n))
<1>0. m \in Nat /\ p.current_bb \in 1..m /\ U \subseteq 1..m
  BY SoundTypes DEF Sound
<1>1. /\ Len(q.nodes) = m + n /\ q.current_bb = p.current_bb /\ (Open(p) <=> Open(q))
      /\ \A b \in 1..m : q.nodes[b] = p.nodes[b]
  BY CreateSound
<1>2. \A b \in (m + 1)..(m + n) : q.nodes[b] = <<>>
  <2>1. q.nodes = p.nodes \o [i \in 1..n |-> <<>>] /\ p.nodes \in Seq(Seq(InsnType))
    BY SoundTypes DEF CreateBlocks, ProcOK, ProcType
  <2>2. [i \in 1..n |-> <<>>] \in Seq(Seq(InsnType))
    OBVIOUS
  <2> QED BY <1>0, <2>1, <2>2
<1> HIDE DEF q
<1>3. SameEntries(p, E, F) /\ \A b \in Nat : b > m => F[b] = Z
  BY <1>0, ExtendSame
<1>4. Fits(p, sc, F, W, U, X)
  BY <1>3, EntriesFlow
<1> HIDE DEF F
<1>5. PICK A : Flow(p, sc, F, W, U, A) /\ EndsWith(p, A, X)
  BY <1>4 DEF Fits
<1> DEFINE B == [b \in Nat |-> IF b > m THEN [i \in Nat |-> Z] ELSE A[b]]
<1>6. /\ B \in Places
      /\ \A b \in 1..m : B[b] = A[b]
      /\ \A b \in (m + 1)..(m + n) : B[b] = [i \in Nat |-> Z]
  BY <1>0, <1>5 DEF Flow, Places
<1> HIDE DEF B
<1>7. ASSUME NEW b \in 1..(m + n)
      PROVE  B[b][1] = F[b] /\ CodeFlow(sc, F, W, q.nodes[b], B[b])
  <2>1. CASE b \in 1..m
    BY <1>1, <1>5, <1>6, <2>1 DEF Flow
  <2>2. CASE b \notin 1..m
    <3>1. b \in (m + 1)..(m + n) /\ b \in Nat /\ b > m
      BY <1>0, <2>2
    <3>2. F[b] = Z /\ q.nodes[b] = <<>> /\ B[b] = [i \in Nat |-> Z]
      BY <1>2, <1>3, <1>6, <3>1
    <3>3. B[b][1] = Z
      BY <3>2
    <3>4. Len(q.nodes[b]) = 0
      BY <3>2
    <3>5. CodeFlow(sc, F, W, q.nodes[b], B[b])
      <4>1. \A i \in 1..(Len(q.nodes[b]) + 1) : i = 1
        BY <3>4
      <4>2. \A i \in 1..Len(q.nodes[b]) : FALSE
        BY <3>4
      <4>3. B[b][1] \subseteq 1..Len(sc)
        BY <3>3
      <4>4. \A i \in 1..(Len(q.nodes[b]) + 1) : B[b][i] \subseteq 1..Len(sc)
        BY <4>1, <4>3
      <4> QED BY <4>2, <4>4 DEF CodeFlow
    <3> QED BY <3>2, <3>3, <3>5
  <2> QED BY <2>1, <2>2
<1>8. ASSUME NEW b \in V PROVE Steady(q.nodes[b], B[b])
  <2>1. CASE b \in U
    <3>1. b \in 1..m
      BY <1>0, <2>1
    <3>2. Steady(p.nodes[b], A[b])
      BY <1>5, <2>1 DEF Flow
    <3> QED BY <1>1, <1>6, <3>1, <3>2
  <2>2. CASE b \notin U
    BY <1>2, <2>2 DEF Steady
  <2> QED BY <2>1, <2>2
<1>9. WOK(q, W)
  <2>1. ASSUME NEW w \in W
        PROVE  w[1] \in 1..Len(q.nodes) /\ ClosesFirst(q.nodes[w[1]], 1, w[2])
    <3>1. w[1] \in 1..m /\ ClosesFirst(p.nodes[w[1]], 1, w[2])
      BY <1>5 DEF Flow, WOK
    <3> QED BY <1>0, <1>1, <3>1
  <2> QED BY <2>1 DEF WOK
<1>10. Flow(q, sc, F, W, V, B)
  BY <1>1, <1>6, <1>7, <1>8, <1>9 DEF Flow
<1>11. EndsWith(q, B, X)
  BY <1>0, <1>1, <1>5, <1>6 DEF EndsWith, EndOf
<1>12. Fits(q, sc, F, W, V, X)
  BY <1>10, <1>11 DEF Fits
<1> QED BY <1>12 DEF q, F

(* The walk moves to a block that was to be started. *)
LEMMA MoveFits ==
    ASSUME NEW p, NEW q, NEW U, Sound(p, U), NEW b \in U, q = [p EXCEPT !.current_bb = b],
           NEW sc, NEW E, NEW W, NEW X, Fits(p, sc, E, W, U, X)
    PROVE  Fits(q, sc, E, W, U \ {b}, E[b])
<1>1. PICK A : Flow(p, sc, E, W, U, A)
  BY DEF Fits
<1>2. q.nodes = p.nodes /\ q.current_bb = b
  BY MoveSound
<1>3. b \in 1..Len(p.nodes) /\ p.nodes[b] \in Seq(InsnType)
  BY SoundTypes DEF Sound
<1>4. EndOf(p, A, b) = E[b]
  <2>1. A[b][1] = E[b] /\ Steady(p.nodes[b], A[b])
    BY <1>1, <1>3 DEF Flow
  <2>2. CASE Len(p.nodes[b]) = 0
    BY <2>1, <2>2 DEF EndOf
  <2>3. CASE Len(p.nodes[b]) # 0
    <3>1. Len(p.nodes[b]) \in 1..Len(p.nodes[b])
      BY <1>3, <2>3
    <3>2. A[b][Len(p.nodes[b]) + 1] = A[b][1]
      BY <2>1, <3>1 DEF Steady
    <3> QED BY <2>1, <3>2 DEF EndOf
  <2> QED BY <2>2, <2>3
<1>5. Flow(q, sc, E, W, U \ {b}, A)
  BY <1>1, <1>2 DEF Flow, WOK
<1>6. EndsWith(q, A, E[b])
  BY <1>2, <1>4 DEF EndsWith, EndOf
<1> QED BY <1>5, <1>6 DEF Fits

LEMMA BrJumps ==
    ASSUME NEW sc, NEW E, NEW W, NEW X, NEW b, EdgeOK(sc, E, W, b, X), NEW s
    PROVE  JumpOK(sc, E, W, Insn("br", <<b>>, -1, s), X)
BY DEF JumpOK, Insn

LEMMA BrOpenFits ==
    ASSUME NEW p, NEW U, Sound(p, U), Open(p), NEW sc, Len(sc) \in Nat, NEW E, NEW W, NEW X,
           Fits(p, sc, E, W, U, X), NEW b \in 1..Len(p.nodes), EdgeOK(sc, E, W, b, X), NEW Y
    PROVE  Fits(AddInstruction(p, Insn("br", <<b>>, -1, p.current_scope)), sc, E, W, U, Y)
<1> DEFINE insn == Insn("br", <<b>>, -1, p.current_scope)
<1>1. insn \in InsnType /\ insn.op \in Branches /\ BranchOK(Len(p.nodes), insn)
  BY SoundTypes, BrInsn
<1>2. JumpOK(sc, E, W, insn, X)
  BY BrJumps
<1> HIDE DEF insn
<1>3. Fits(AddInstruction(p, insn), sc, E, W, U, Y)
  BY <1>1, <1>2, JumpFits
<1> QED BY <1>3 DEF insn

LEMMA StartFits ==
    ASSUME NEW p, NEW U, Sound(p, U), NEW sc, Len(sc) \in Nat, NEW E, NEW W, NEW X,
           Fits(p, sc, E, W, U, X), NEW b \in U, Open(p) => EdgeOK(sc, E, W, b, X)
    PROVE  Fits(StartBlock(p, b), sc, E, W, U \ {b}, E[b])
<1> DEFINE insn == Insn("br", <<b>>, -1, p.current_scope)
           r == AddInstruction(p, insn)
<1>0. b \in 1..Len(p.nodes)
  BY DEF Sound
<1>1. CASE Open(p)
  <2>1. Fits(r, sc, E, W, U, X)
    BY <1>0, <1>1, BrOpenFits
  <2>2. Sound(r, U)
    <3>1. insn \in InsnType /\ insn.op \in Branches /\ BranchOK(Len(p.nodes), insn)
      BY <1>0, SoundTypes, BrInsn
    <3> HIDE DEF insn
    <3> QED BY <1>1, <3>1, BranchSound
  <2>3. StartBlock(p, b) = [r EXCEPT !.current_bb = b]
    BY <1>1 DEF StartBlock, Open
  <2> HIDE DEF r
  <2> QED BY <2>1, <2>2, <2>3, MoveFits
<1>2. CASE ~Open(p)
  <2>1. StartBlock(p, b) = [p EXCEPT !.current_bb = b]
    BY <1>2 DEF StartBlock, Open
  <2> QED BY <2>1, MoveFits
<1> QED BY <1>1, <1>2

LEMMA CbrFits ==
    ASSUME NEW p, NEW U, Sound(p, U), Open(p), NEW sc, Len(sc) \in Nat, NEW E, NEW W, NEW X,
           Fits(p, sc, E, W, U, X), NEW t \in 1..Len(p.nodes), NEW f \in 1..Len(p.nodes),
           EdgeOK(sc, E, W, t, X), EdgeOK(sc, E, W, f, X), NEW Y
    PROVE  Fits(InstructCbr(p, t, f), sc, E, W, U, Y)
<1> DEFINE targets == <<t, f>>
<1>1. targets \in Seq(Nat \ {0}) /\ Len(targets) = 2 /\ targets[1] = t /\ targets[2] = f
  BY SoundTypes
<1> HIDE DEF targets
<1> DEFINE insn == Insn("cbr", targets, -1, p.current_scope)
<1>2. insn \in InsnType /\ insn.op = "cbr" /\ insn.targets = targets
  BY <1>1, SoundTypes DEF Insn, InsnType, Opcodes
<1>3. InstructCbr(p, t, f) = AddInstruction(p, insn)
  BY DEF InstructCbr, targets
<1> HIDE DEF insn
<1>4. ASSUME NEW k \in 1..Len(insn.targets)
      PROVE  insn.targets[k] = t \/ insn.targets[k] = f
  <2>1. k \in 1..2
    BY <1>1, <1>2
  <2>2. k = 1 \/ k = 2
    BY <2>1
  <2> QED BY <1>1, <1>2, <2>2
<1>5. BranchOK(Len(p.nodes), insn)
  BY <1>2, <1>4 DEF BranchOK
<1>6. JumpOK(sc, E, W, insn, X)
  BY <1>4 DEF JumpOK
<1>7. insn.op \in Branches
  BY <1>2 DEF Branches
<1>8. Fits(AddInstruction(p, insn), sc, E, W, U, Y)
  BY <1>2, <1>5, <1>6, <1>7, JumpFits
<1> QED BY <1>3, <1>8

(* One block more, in force there Z, and the walk moves to it. *)
LEMMA NextFits ==
    ASSUME NEW p, NEW U, Sound(p, U), NEW sc, Len(sc) \in Nat, NEW E, NEW W, NEW X,
           Fits(p, sc, E, W, U, X), NEW Z, Z \subseteq 1..Len(sc), Open(p) => Z = X
    PROVE  Fits(StartBlock(CreateBlocks(p, 1), NewBlock(p)), sc, Extend(E, Len(p.nodes), Z),
                W, U, Z)
<1> DEFINE n == Len(p.nodes)
           m == n + 1
           r == CreateBlocks(p, 1)
           F == Extend(E, n, Z)
<1>1. n \in Nat /\ NewBlock(p) = m /\ (n + 1)..(n + 1) = {m}
  BY SoundTypes DEF NewBlock
<1>2. Sound(r, U \cup {m}) /\ (Open(p) <=> Open(r))
  <2>1. Sound(r, U \cup ((n + 1)..(n + 1))) /\ (Open(p) <=> Open(r))
    BY CreateSound
  <2> HIDE DEF r, n, m
  <2> QED BY <1>1, <2>1
<1>3. Fits(r, sc, F, W, U \cup {m}, X)
  <2>1. Fits(r, sc, F, W, U \cup ((n + 1)..(n + 1)), X)
    BY CreateFits
  <2> HIDE DEF r, n, m, F
  <2> QED BY <1>1, <2>1
<1>4. F[m] = Z
  <2>1. m \in Nat /\ m > n
    BY <1>1
  <2> HIDE DEF m, n
  <2> QED BY <2>1 DEF Extend
<1> HIDE DEF r, F, n
<1>5. Open(r) => EdgeOK(sc, F, W, m, X)
  BY <1>2, <1>4 DEF EdgeOK
<1>6. Fits(StartBlock(r, m), sc, F, W, (U \cup {m}) \ {m}, F[m])
  <2> HIDE DEF m
  <2> QED BY <1>2, <1>3, <1>5, StartFits
<1>7. U \subseteq (U \cup {m}) \ {m}
  <2>1. NewBlock(p) \notin U
    BY NextBlockSound
  <2> QED BY <1>1, <2>1
<1>8. Fits(StartBlock(r, m), sc, F, W, U, F[m])
  BY <1>6, <1>7, FewerFits
<1> QED BY <1>1, <1>4, <1>8 DEF r, F, n

LEMMA BrFits ==
    ASSUME NEW p, NEW U, Sound(p, U), NEW sc, Len(sc) \in Nat, NEW E, NEW W, NEW X,
           Fits(p, sc, E, W, U, X), NEW b \in 1..Len(p.nodes),
           Open(p) => EdgeOK(sc, E, W, b, X), NEW Y
    PROVE  Fits(InstructBr(p, b), sc, Extend(E, Len(p.nodes), E[b]), W, U, Y)
<1> DEFINE F == Extend(E, Len(p.nodes), E[b])
<1>1. Len(p.nodes) \in Nat /\ SameEntries(p, E, F) /\ F[b] = E[b]
  <2>1. Len(p.nodes) \in Nat
    BY SoundTypes
  <2>2. SameEntries(p, E, F)
    BY <2>1, ExtendSame
  <2> HIDE DEF F
  <2> QED BY <2>1, <2>2 DEF SameEntries
<1> HIDE DEF F
<1>2. CASE Open(p)
  <2>1. InstructBr(p, b) = AddInstruction(p, Insn("br", <<b>>, -1, p.current_scope))
    BY <1>2 DEF InstructBr, Open
  <2>2. Fits(p, sc, F, W, U, X)
    BY <1>1, EntriesFlow
  <2>3. EdgeOK(sc, F, W, b, X)
    BY <1>1, <1>2 DEF EdgeOK
  <2>4. Fits(InstructBr(p, b), sc, F, W, U, Y)
    BY <1>2, <2>1, <2>2, <2>3, BrOpenFits
  <2> QED BY <2>4 DEF F
<1>3. CASE ~Open(p)
  <2> DEFINE q == StartBlock(CreateBlocks(p, 1), NewBlock(p))
  <2>1. E[b] \subseteq 1..Len(sc)
    BY FitsTypes
  <2>2. Fits(q, sc, F, W, U, E[b])
    BY <1>3, <2>1, NextFits DEF F
  <2>3. Sound(q, U) /\ Open(q) /\ Len(q.nodes) = Len(p.nodes) + 1
    BY NextBlockSound
  <2>4. q.current_scope = p.current_scope
    <3>1. ProcOK(p) /\ NewBlock(p) \in 1..Len(CreateBlocks(p, 1).nodes)
      BY <1>1, SoundTypes, CreateBlocksLemma DEF NewBlock
    <3>2. ProcOK(CreateBlocks(p, 1)) /\ SameContext(p, CreateBlocks(p, 1))
      BY <3>1, CreateBlocksLemma
    <3> QED BY <3>1, <3>2, StartBlockLemma DEF SameContext
  <2>5. InstructBr(p, b) = AddInstruction(q, Insn("br", <<b>>, -1, q.current_scope))
    BY <1>3, <2>4 DEF InstructBr, Open
  <2> HIDE DEF q
  <2>6. b \in 1..Len(q.nodes) /\ EdgeOK(sc, F, W, b, E[b])
    BY <1>1, <2>3 DEF EdgeOK
  <2>7. Fits(InstructBr(p, b), sc, F, W, U, Y)
    BY <2>2, <2>3, <2>5, <2>6, BrOpenFits
  <2> QED BY <2>7 DEF F
<1> QED BY <1>2, <1>3

-----------------------------------------------------------------------------
(* Closing. *)

CloseInsn(s, sc) == Insn("close", <<>>, Minimum(EscapedRegs(sc)), s)

LEMMA CloseTyped ==
    ASSUME NEW sc \in ScopeType, NeedClose(sc), NEW s \in Nat
    PROVE  /\ CloseInsn(s, sc) \in InsnType /\ CloseInsn(s, sc).op = "close"
           /\ CloseInsn(s, sc).reg = Minimum(EscapedRegs(sc))
           /\ Minimum(EscapedRegs(sc)) \in Nat /\ Minimum(EscapedRegs(sc)) \in EscapedRegs(sc)
           /\ \A r \in EscapedRegs(sc) : Minimum(EscapedRegs(sc)) <= r
<1>1. /\ EscapedRegs(sc) \in SUBSET Nat /\ EscapedRegs(sc) # {}
      /\ Minimum(EscapedRegs(sc)) \in Int /\ Minimum(EscapedRegs(sc)) \in Nat
  BY EscapedRegsLemma DEF NeedClose
<1>2. <<>> \in Seq(Nat \ {0})
  OBVIOUS
<1> QED BY <1>1, <1>2, MinimumLemma DEF CloseInsn, Insn, InsnType, Opcodes

(* All the others in force are below the scope that is closed. *)
OthersBelow(sc, s, X) ==
    NeedClose(sc[s]) =>
        \A t \in X : t # s => BelowReg(sc, t, Minimum(EscapedRegs(sc[s])))

LEMMA CloseHereFits ==
    ASSUME NEW p, NEW U, Sound(p, U), Closable(p), NEW sc \in Seq(ScopeType), NEW E, NEW W,
           NEW X, Fits(p, sc, E, W, U, X), NEW s \in 1..Len(sc),
           s \in X => NeedClose(sc[s]), OthersBelow(sc, s, X)
    PROVE  Fits(InstructClose(p, p.current_bb, s, sc[s]), sc, E, W, U, X \ {s})
<1> DEFINE insn == CloseInsn(s, sc[s])
           q == InstructClose(p, p.current_bb, s, sc[s])
<1>1. CASE ~Open(p)
  <2>1. q = p
    BY <1>1 DEF InstructClose, Closable, LastIsRet
  <2> QED BY <1>1, <2>1, AnyScopes
<1>2. CASE Open(p) /\ ~NeedClose(sc[s])
  <2>1. q = p
    BY <1>2 DEF InstructClose
  <2>2. X \ {s} = X
    BY <1>2
  <2> QED BY <2>1, <2>2
<1>3. CASE Open(p) /\ NeedClose(sc[s])
  <2>1. q = AddInstruction(p, insn)
    BY <1>3 DEF InstructClose, CloseInsn, AddInstruction, Open, IsBlockTerminated, Branches
  <2>2. sc[s] \in ScopeType /\ s \in Nat /\ Len(sc) \in Nat
    OBVIOUS
  <2>3. /\ insn \in InsnType /\ insn.op = "close"
        /\ insn.reg = Minimum(EscapedRegs(sc[s]))
        /\ insn.reg \in Nat /\ \A r \in EscapedRegs(sc[s]) : insn.reg <= r
        /\ EscapedRegs(sc[s]) \subseteq Nat
    BY <1>3, <2>2, CloseTyped, EscapedRegsLemma
  <2>4. X \subseteq 1..Len(sc)
    BY <1>3, FitsTypes
  <2> HIDE DEF insn, q
  <2>5. CloseOK(sc, insn, X, X \ {s})
    <3>1. \A t \in X \ {s} : BelowReg(sc, t, insn.reg)
      BY <1>3, <2>3 DEF OthersBelow
    <3>2. AboveReg(sc, s, insn.reg)
      BY <2>3 DEF AboveReg
    <3> QED BY <3>1, <3>2 DEF CloseOK
  <2>6. InsnOK(sc, E, W, insn, X, X \ {s})
    BY <2>3, <2>5 DEF InsnOK
  <2>7. Fits(q, sc, E, W, U, X \ {s})
    BY <1>3, <2>1, <2>2, <2>3, <2>4, <2>6, AddFits
  <2> QED BY <2>7 DEF q
<1> QED BY <1>1, <1>2, <1>3

LEMMA SteadyEnd ==
    ASSUME NEW p, NEW U, Sound(p, U), NEW sc, NEW E, NEW W, NEW A,
           Flow(p, sc, E, W, U, A), NEW b, b \in U
    PROVE  EndOf(p, A, b) = E[b]
<1>0. b \in 1..Len(p.nodes)
  BY DEF Sound
<1>1. A[b][1] = E[b] /\ Steady(p.nodes[b], A[b])
  BY <1>0 DEF Flow
<1>2. p.nodes[b] \in Seq(InsnType)
  BY <1>0, SoundTypes
<1>3. CASE Len(p.nodes[b]) = 0
  BY <1>1, <1>3 DEF EndOf
<1>4. CASE Len(p.nodes[b]) # 0
  <2>1. Len(p.nodes[b]) \in 1..Len(p.nodes[b])
    BY <1>2, <1>4
  <2>2. A[b][Len(p.nodes[b]) + 1] = A[b][1]
    BY <1>1, <2>1 DEF Steady
  <2> QED BY <1>1, <2>2 DEF EndOf
<1> QED BY <1>3, <1>4

LEMMA MoreClosed ==
    ASSUME NEW p, NEW sc, NEW E, NEW W, NEW V, W \subseteq V, NEW U, NEW A,
           Flow(p, sc, E, W, U, A), WOK(p, V)
    PROVE  Flow(p, sc, E, V, U, A)
<1>1. \A b, X : EdgeOK(sc, E, W, b, X) => EdgeOK(sc, E, V, b, X)
  BY DEF EdgeOK
<1>2. \A insn, X, Y : InsnOK(sc, E, W, insn, X, Y) => InsnOK(sc, E, V, insn, X, Y)
  BY <1>1 DEF InsnOK, JumpOK
<1>3. \A code, flow : CodeFlow(sc, E, W, code, flow) => CodeFlow(sc, E, V, code, flow)
  BY <1>2 DEF CodeFlow
<1> QED BY <1>3 DEF Flow

(* A close added to a block still to be started: whoever branches there    *)
(* may leave the scopes it closes.                                         *)
FirstClosed(b, m) == {w \in Nat \X Nat : w[1] = b /\ w[2] >= m}
AllBelow(sc, X, m) == \A t \in X : BelowReg(sc, t, m)

LEMMA CloseThereFits ==
    ASSUME NEW p, NEW U, Sound(p, U), NEW sc \in Seq(ScopeType), NEW E, NEW W, NEW X,
           Fits(p, sc, E, W, U, X), NEW b \in U, NEW c \in 1..Len(sc), NeedClose(sc[c]),
           AllBelow(sc, E[b], Minimum(EscapedRegs(sc[c])))
    PROVE  Fits(AddCode(p, b, <<CloseInsn(c, sc[c])>>), sc, E,
                W \cup FirstClosed(b, Minimum(EscapedRegs(sc[c]))), U, X)
<1> DEFINE insn == CloseInsn(c, sc[c])
           q == AddCode(p, b, <<insn>>)
           m == Minimum(EscapedRegs(sc[c]))
           V == W \cup FirstClosed(b, m)
<1>0. Len(sc) \in Nat /\ sc[c] \in ScopeType /\ c \in Nat
  OBVIOUS
<1>1. insn \in InsnType /\ insn.op = "close" /\ insn.reg = m /\ m \in Nat
  BY <1>0, CloseTyped
<1>2. /\ U \subseteq 1..Len(p.nodes) /\ b # p.current_bb /\ b \in 1..Len(p.nodes)
      /\ E[b] \subseteq 1..Len(sc) /\ ProcOK(p) /\ p.current_bb \in 1..Len(p.nodes)
      /\ p.nodes[b] \in Seq(InsnType) /\ Len(p.nodes) \in Nat
  BY SoundTypes, FitsTypes DEF Sound
<1>3. PICK A : Flow(p, sc, E, W, U, A) /\ EndsWith(p, A, X)
  BY DEF Fits
<1>4. EndOf(p, A, b) = E[b]
  BY <1>2, <1>3, SteadyEnd
<1> HIDE DEF m
<1> HIDE DEF insn
<1>5. InsnOK(sc, E, W, insn, E[b], E[b])
  BY <1>1 DEF InsnOK, CloseOK, AllBelow, m
<1>6. CanAppend(p, sc, E, W, U, A, b, insn, E[b])
  BY <1>0, <1>1, <1>2, <1>3, <1>4, <1>5 DEF CanAppend
<1>7. Appended(p, sc, E, W, U, A, b, insn, E[b])
  BY <1>6, AppendFlow
<1>8. PICK B : Flow(q, sc, E, W, U, B) /\ \A d \in Nat : d # b => B[d] = A[d]
  BY <1>7 DEF Appended
<1>9. <<insn>> \in Seq(InsnType) /\ Len(<<insn>>) = 1 /\ <<insn>>[1] = insn
  BY <1>1
<1>10. /\ Len(q.nodes) = Len(p.nodes) /\ q.current_bb = p.current_bb
       /\ q.nodes[b] = p.nodes[b] \o <<insn>>
       /\ \A d \in 1..Len(p.nodes) : d # b => q.nodes[d] = p.nodes[d]
  BY <1>2, <1>9, AppendCode
<1>11. q.nodes[b][Len(q.nodes[b])] = insn /\ Len(q.nodes[b]) \in Nat \ {0}
  BY <1>1, <1>2, <1>10, OneMore
<1> HIDE DEF q
<1>12. ASSUME NEW w \in V
       PROVE  w[1] \in 1..Len(q.nodes) /\ ClosesFirst(q.nodes[w[1]], 1, w[2])
  <2>1. CASE w \in W
    BY <1>8, <2>1 DEF Flow, WOK
  <2>2. CASE w \in FirstClosed(b, m)
    <3>1. w[1] = b /\ w[2] >= m
      BY <2>2 DEF FirstClosed
    <3>2. \A i \in 1..Len(q.nodes[b]) : q.nodes[b][i].op = "close"
      BY <1>8 DEF Flow, Steady
    <3>3. Len(q.nodes[b]) \in 1..Len(q.nodes[b])
      BY <1>11
    <3>4. q.nodes[b][Len(q.nodes[b])].reg <= w[2]
      BY <1>1, <1>11, <3>1
    <3>5. ClosesFirst(q.nodes[b], 1, w[2])
      BY <3>2, <3>3, <3>4 DEF ClosesFirst
    <3> QED BY <1>2, <1>10, <3>1, <3>5
  <2> QED BY <2>1, <2>2
<1>13. Flow(q, sc, E, V, U, B)
  <2> HIDE DEF V
  <2>1. WOK(q, V)
    BY <1>12 DEF WOK
  <2>2. W \subseteq V
    BY DEF V
  <2> QED BY <1>8, <2>1, <2>2, MoreClosed
<1>14. EndsWith(q, B, X)
  <2>1. q.nodes[p.current_bb] = p.nodes[p.current_bb] /\ B[p.current_bb] = A[p.current_bb]
    BY <1>2, <1>8, <1>10
  <2> QED BY <1>3, <1>10, <2>1 DEF EndsWith, EndOf, Open, IsBlockTerminated
<1>15. Fits(q, sc, E, V, U, X)
  BY <1>13, <1>14 DEF Fits
<1> QED BY <1>15 DEF q, V, m, insn

-----------------------------------------------------------------------------
(* The close a jump adds to its target might as well be added before it.   *)
LEMMA ConcatBoth ==
    ASSUME NEW S, NEW u \in Seq(S), NEW v \in Seq(S)
    PROVE  /\ u \o v \in Seq(S) /\ Len(u \o v) = Len(u) + Len(v)
           /\ \A i \in 1..Len(u) : (u \o v)[i] = u[i]
           /\ \A i \in 1..Len(v) : (u \o v)[Len(u) + i] = v[i]
OBVIOUS

Commute(n, a, x, b, y, more) ==
    [([n EXCEPT ![a] = x] \o more) EXCEPT ![b] = y]
        = [[n EXCEPT ![b] = y] EXCEPT ![a] = x] \o more

LEMMA NodesCommute ==
    ASSUME NEW T, NEW n \in Seq(T), NEW a \in 1..Len(n), NEW b \in 1..Len(n), a # b,
           NEW x \in T, NEW y \in T, NEW more \in Seq(T)
    PROVE  Commute(n, a, x, b, y, more)
<1> DEFINE u1 == [n EXCEPT ![a] = x]
           u2 == u1 \o more
           u3 == [u2 EXCEPT ![b] = y]
           v1 == [n EXCEPT ![b] = y]
           v2 == [v1 EXCEPT ![a] = x]
           v3 == v2 \o more
           k == Len(n)
           l == Len(more)
<1>0. k \in Nat /\ l \in Nat /\ a \in 1..k /\ b \in 1..k
  OBVIOUS
<1>1. /\ u1 \in Seq(T) /\ Len(u1) = k /\ u1[a] = x
      /\ \A i \in 1..k : i # a => u1[i] = n[i]
  OBVIOUS
<1> HIDE DEF u1
<1>2. /\ u2 \in Seq(T) /\ Len(u2) = k + l /\ \A i \in 1..k : u2[i] = u1[i]
      /\ \A i \in 1..l : u2[k + i] = more[i]
  <2>1. u1 \in Seq(T) /\ more \in Seq(T)
    BY <1>1
  <2>2. /\ u2 \in Seq(T) /\ Len(u2) = Len(u1) + Len(more)
        /\ \A i \in 1..Len(u1) : u2[i] = u1[i]
        /\ \A i \in 1..Len(more) : u2[Len(u1) + i] = more[i]
    BY ONLY <2>1, ConcatBoth DEF u2
  <2> HIDE DEF k, u2
  <2> QED BY <1>1, <2>2
<1> HIDE DEF u2
<1>3. /\ u3 \in Seq(T) /\ Len(u3) = k + l /\ u3[b] = y
      /\ \A i \in 1..(k + l) : i # b => u3[i] = u2[i]
  BY <1>0, <1>2
<1> HIDE DEF u3
<1>4. /\ v1 \in Seq(T) /\ Len(v1) = k /\ v1[b] = y
      /\ \A i \in 1..k : i # b => v1[i] = n[i]
  OBVIOUS
<1> HIDE DEF v1
<1>5. /\ v2 \in Seq(T) /\ Len(v2) = k /\ v2[a] = x
      /\ \A i \in 1..k : i # a => v2[i] = v1[i]
  BY <1>0, <1>4
<1> HIDE DEF v2
<1>6. /\ v3 \in Seq(T) /\ Len(v3) = k + l /\ \A i \in 1..k : v3[i] = v2[i]
      /\ \A i \in 1..l : v3[k + i] = more[i]
  <2>1. v2 \in Seq(T) /\ more \in Seq(T)
    BY <1>5
  <2>2. /\ v3 \in Seq(T) /\ Len(v3) = Len(v2) + Len(more)
        /\ \A i \in 1..Len(v2) : v3[i] = v2[i]
        /\ \A i \in 1..Len(more) : v3[Len(v2) + i] = more[i]
    BY ONLY <2>1, ConcatBoth DEF v3
  <2> HIDE DEF k, v3
  <2> QED BY <1>5, <2>2
<1> HIDE DEF v3, k, l
<1>7. ASSUME NEW i \in 1..(k + l) PROVE u3[i] = v3[i]
  <2>1. CASE i = a
    BY <1>0, <1>1, <1>2, <1>3, <1>5, <1>6, <2>1
  <2>2. CASE i = b
    BY <1>0, <1>3, <1>4, <1>5, <1>6, <2>2
  <2>3. CASE i \in 1..k /\ i # a /\ i # b
    BY <1>0, <1>1, <1>2, <1>3, <1>4, <1>5, <1>6, <2>3
  <2>4. CASE i \notin 1..k
    <3>1. i - k \in 1..l /\ i = k + (i - k) /\ i # b
      BY <1>0, <2>4
    <3>2. u2[i] = more[i - k] /\ v3[i] = more[i - k]
      BY <1>2, <1>6, <3>1
    <3> QED BY <1>3, <3>1, <3>2
  <2> QED BY <2>1, <2>2, <2>3, <2>4
<1>8. u3 = v3
  <2>1. DOMAIN u3 = 1..(k + l) /\ DOMAIN v3 = 1..(k + l)
    BY <1>3, <1>6
  <2>2. u3 = [i \in DOMAIN u3 |-> u3[i]] /\ v3 = [i \in DOMAIN v3 |-> v3[i]]
    BY <1>3, <1>6
  <2> QED BY <1>7, <2>1, <2>2
<1> QED BY <1>8 DEF Commute, u3, u2, u1, v3, v2, v1

LEMMA JumpCommutes ==
    ASSUME NEW p, NEW U, Sound(p, U), Open(p), NEW b \in U, NEW c \in 1..Len(scopes),
           scopes[c] \in ScopeType, NeedClose(scopes[c])
    PROVE  LET r == AddCode(p, b, <<CloseInsn(c, scopes[c])>>)
               s == InstructBr(r, b)
           IN  JumpTo(p, b, c) = StartBlock(CreateBlocks(s, 1), NewBlock(s))
<1> DEFINE close == CloseInsn(c, scopes[c])
           br == Insn("br", <<b>>, -1, p.current_scope)
           a == p.current_bb
           n == p.nodes
           k == Len(n) + 1
           r == AddCode(p, b, <<close>>)
           s == InstructBr(r, b)
           q1 == InstructBr(p, b)
           q2 == StartBlock(CreateBlocks(q1, 1), NewBlock(q1))
           more == [i \in 1..1 |-> <<>>]
<1>1. /\ p \in ProcType /\ n \in Seq(Seq(InsnType)) /\ a \in 1..Len(n) /\ b \in 1..Len(n)
      /\ a # b /\ n[a] \in Seq(InsnType) /\ n[b] \in Seq(InsnType)
  BY SoundTypes DEF Sound, ProcOK, ProcType
<1>2. br \in InsnType /\ br.op \in Branches
  BY <1>1, SoundTypes, BrInsn
<1>3. close \in InsnType /\ close.op = "close"
  <2>1. c \in Nat
    OBVIOUS
  <2> QED BY <2>1, CloseTyped
<1> HIDE DEF close, br
<1> DEFINE na == n[a] \o <<br>>
           nb == n[b] \o <<close>>
<1>4. na \in Seq(InsnType) /\ nb \in Seq(InsnType) /\ na # <<>> /\ na[Len(na)] = br
  BY <1>1, <1>2, <1>3, OneMore
<1> HIDE DEF na, nb
<1>5. q1 = [p EXCEPT !.nodes = [n EXCEPT ![a] = na]]
  <2>1. q1 = AddInstruction(p, br)
    BY DEF InstructBr, Open, br
  <2> QED BY <1>1, <2>1 DEF AddInstruction, AddCode, ProcType, na
<1>6. r = [p EXCEPT !.nodes = [n EXCEPT ![b] = nb]]
  BY <1>1 DEF AddCode, ProcType, nb
<1>7. s = [p EXCEPT !.nodes = [[n EXCEPT ![b] = nb] EXCEPT ![a] = na]]
  <2> DEFINE nn == [n EXCEPT ![b] = nb]
  <2>0. nn[a] = n[a]
    BY <1>1
  <2>1. r.current_bb = a /\ r.nodes[a] = n[a] /\ r.current_scope = p.current_scope
    <3>1. r = [p EXCEPT !.nodes = nn]
      BY <1>6
    <3> HIDE DEF nn, r
    <3> QED BY <1>1, <2>0, <3>1 DEF ProcType
  <2>2. ~IsBlockTerminated(r, r.current_bb)
    BY <2>1 DEF Open, IsBlockTerminated
  <2>3. s = AddInstruction(r, br)
    BY <2>1, <2>2 DEF InstructBr, br
  <2> HIDE DEF s, r
  <2> QED BY <1>1, <1>6, <2>1, <2>3 DEF AddInstruction, AddCode, ProcType, na
<1> HIDE DEF r, s, q1
<1>8. q2 = [p EXCEPT !.nodes = [n EXCEPT ![a] = na] \o more, !.current_bb = k]
  <2> DEFINE t == CreateBlocks(q1, 1)
  <2>1. Len([n EXCEPT ![a] = na]) = Len(n)
    BY <1>1
  <2>2. t = [p EXCEPT !.nodes = [n EXCEPT ![a] = na] \o more] /\ NewBlock(q1) = k
    BY <1>1, <1>5, <2>1 DEF CreateBlocks, NewBlock, ProcType
  <2> DEFINE nn == [n EXCEPT ![a] = na] \o more
  <2>3. t.nodes[a] = na /\ t.current_bb = a
    <3>1. nn[a] = na
      <4>1. more \in Seq(Seq(InsnType)) /\ Len(n) \in Nat
        BY <1>1
      <4>2. /\ [n EXCEPT ![a] = na] \in Seq(Seq(InsnType))
            /\ Len([n EXCEPT ![a] = na]) = Len(n)
            /\ [n EXCEPT ![a] = na][a] = na
        BY <1>1, <1>4
      <4> HIDE DEF more
      <4> QED BY <1>1, <4>1, <4>2
    <3>2. t = [p EXCEPT !.nodes = nn]
      BY <2>2
    <3> HIDE DEF nn, t
    <3> QED BY <1>1, <3>1, <3>2 DEF ProcType
  <2>4. IsBlockTerminated(t, t.current_bb)
    BY <1>2, <1>4, <2>3 DEF IsBlockTerminated
  <2> HIDE DEF t
  <2>5. q2 = [t EXCEPT !.current_bb = k]
    BY <2>2, <2>4 DEF StartBlock, t
  <2> QED BY <1>1, <2>2, <2>5 DEF ProcType
<1>9. StartBlock(CreateBlocks(s, 1), NewBlock(s))
         = [p EXCEPT !.nodes = [[n EXCEPT ![b] = nb] EXCEPT ![a] = na] \o more,
                     !.current_bb = k]
  <2> DEFINE t == CreateBlocks(s, 1)
  <2>1. Len([[n EXCEPT ![b] = nb] EXCEPT ![a] = na]) = Len(n)
    BY <1>1
  <2>2. t = [p EXCEPT !.nodes = [[n EXCEPT ![b] = nb] EXCEPT ![a] = na] \o more]
        /\ NewBlock(s) = k
    BY <1>1, <1>7, <2>1 DEF CreateBlocks, NewBlock, ProcType
  <2> DEFINE nn == [[n EXCEPT ![b] = nb] EXCEPT ![a] = na] \o more
  <2>3. t.nodes[a] = na /\ t.current_bb = a
    <3>1. nn[a] = na
      <4>1. more \in Seq(Seq(InsnType)) /\ Len(n) \in Nat
        BY <1>1
      <4>2. /\ [[n EXCEPT ![b] = nb] EXCEPT ![a] = na] \in Seq(Seq(InsnType))
            /\ Len([[n EXCEPT ![b] = nb] EXCEPT ![a] = na]) = Len(n)
            /\ [[n EXCEPT ![b] = nb] EXCEPT ![a] = na][a] = na
        BY <1>1, <1>4
      <4> HIDE DEF more
      <4> QED BY <1>1, <4>1, <4>2
    <3>2. t = [p EXCEPT !.nodes = nn]
      BY <2>2
    <3> HIDE DEF nn, t
    <3> QED BY <1>1, <3>1, <3>2 DEF ProcType
  <2>4. IsBlockTerminated(t, t.current_bb)
    BY <1>2, <1>4, <2>3 DEF IsBlockTerminated
  <2> HIDE DEF t
  <2>5. StartBlock(t, NewBlock(s)) = [t EXCEPT !.current_bb = k]
    BY <2>2, <2>4 DEF StartBlock
  <2> QED BY <1>1, <2>2, <2>5 DEF ProcType, t
<1> HIDE DEF q2
<1>10. JumpTo(p, b, c) = [q2 EXCEPT !.nodes = [q2.nodes EXCEPT ![b] = nb]]
  <2>1. q2.nodes[b] = n[b]
    BY <1>1, <1>8 DEF ProcType
  <2>2. JumpTo(p, b, c) = InstructClose(q2, b, c, scopes[c])
    BY DEF JumpTo, CloseInTarget, NoScope, q2, q1
  <2>3. ~(q2.nodes[b] # <<>> /\ q2.nodes[b][Len(q2.nodes[b])].op = "ret")
    BY <2>1 DEF Sound, IsBlockTerminated, Branches
  <2>4. JumpTo(p, b, c) = AddCode(q2, b, <<close>>)
    BY <2>2, <2>3 DEF InstructClose, CloseInsn, close
  <2> QED BY <2>1, <2>4 DEF AddCode, nb
<1>11. [([n EXCEPT ![a] = na] \o more) EXCEPT ![b] = nb]
          = [[n EXCEPT ![b] = nb] EXCEPT ![a] = na] \o more
  <2>1. more \in Seq(Seq(InsnType))
    OBVIOUS
  <2> DEFINE T == Seq(InsnType)
  <2>2. n \in Seq(T) /\ na \in T /\ nb \in T /\ more \in Seq(T)
    BY <1>1, <1>4, <2>1
  <2>3. a \in 1..Len(n) /\ b \in 1..Len(n) /\ a # b
    BY <1>1
  <2> HIDE DEF T, more, a, n
  <2>4. Commute(n, a, na, b, nb, more)
    BY ONLY <2>2, <2>3, NodesCommute
  <2> QED BY <2>4 DEF Commute
<1> HIDE DEF more, k
<1>12. JumpTo(p, b, c)
          = [p EXCEPT !.nodes = [([n EXCEPT ![a] = na] \o more) EXCEPT ![b] = nb],
                      !.current_bb = k]
  BY <1>1, <1>8, <1>10 DEF ProcType
<1>13. JumpTo(p, b, c) = StartBlock(CreateBlocks(s, 1), NewBlock(s))
  BY <1>9, <1>11, <1>12
<1> QED BY <1>13 DEF s, r, close

LEMMA BrHere ==
    ASSUME NEW p, NEW U, Sound(p, U), Open(p), NEW sc, Len(sc) \in Nat, NEW E, NEW W, NEW X,
           Fits(p, sc, E, W, U, X), NEW b \in 1..Len(p.nodes), EdgeOK(sc, E, W, b, X), NEW Y
    PROVE  Fits(InstructBr(p, b), sc, E, W, U, Y)
<1>1. InstructBr(p, b) = AddInstruction(p, Insn("br", <<b>>, -1, p.current_scope))
  BY DEF InstructBr, Open
<1> QED BY <1>1, BrOpenFits

(* After a jump the walk is in a block nothing leads to yet. *)
LEMMA BrNextFits ==
    ASSUME NEW p, NEW U, Sound(p, U), Open(p), NEW sc, Len(sc) \in Nat, NEW E, NEW W, NEW X,
           Fits(p, sc, E, W, U, X), NEW b \in 1..Len(p.nodes), EdgeOK(sc, E, W, b, X)
    PROVE  LET q == InstructBr(p, b)
           IN  Fits(StartBlock(CreateBlocks(q, 1), NewBlock(q)), sc,
                    Extend(E, Len(p.nodes), X), W, U, X)
<1> DEFINE q == InstructBr(p, b)
<1>1. Sound(q, U) /\ ~Open(q) /\ Len(q.nodes) = Len(p.nodes)
  BY BrSound
<1>2. Fits(q, sc, E, W, U, X)
  BY BrHere
<1>3. X \subseteq 1..Len(sc)
  BY FitsTypes
<1> HIDE DEF q
<1>4. Fits(StartBlock(CreateBlocks(q, 1), NewBlock(q)), sc, Extend(E, Len(q.nodes), X), W, U, X)
  BY <1>1, <1>2, <1>3, NextFits
<1> QED BY <1>1, <1>4 DEF q

(* A jump to b leaves what is in force in X but not at the start of b; c   *)
(* is the oldest scope left, if any.                                       *)
Leaves(sc, X, Y, c) ==
    /\ Y \subseteq X
    /\ c = NoScope => Y = X
    /\ c # NoScope =>
          /\ NeedClose(sc[c])
          /\ AllBelow(sc, Y, Minimum(EscapedRegs(sc[c])))
          /\ \A t \in X \ Y : AboveReg(sc, t, Minimum(EscapedRegs(sc[c])))

LEMMA JumpToFits ==
    ASSUME NEW p, NEW U, Sound(p, U), Open(p), scopes \in Seq(ScopeType), NEW E, NEW W, NEW X,
           Fits(p, scopes, E, W, U, X), NEW b \in 1..Len(p.nodes), NEW c \in 0..Len(scopes),
           c # NoScope => b \in U, Leaves(scopes, X, E[b], c)
    PROVE  \E V : Fits(JumpTo(p, b, c), scopes, Extend(E, Len(p.nodes), X), V, U, X)
<1>0. Len(scopes) \in Nat
  OBVIOUS
<1>1. CASE c = NoScope
  <2>1. EdgeOK(scopes, E, W, b, X)
    BY <1>1 DEF Leaves, EdgeOK
  <2> DEFINE q == InstructBr(p, b)
             r == StartBlock(CreateBlocks(q, 1), NewBlock(q))
  <2>2. JumpTo(p, b, c) = r
    BY <1>1 DEF JumpTo, CloseInTarget
  <2>3. Fits(r, scopes, Extend(E, Len(p.nodes), X), W, U, X)
    BY <1>0, <2>1, BrNextFits
  <2> HIDE DEF r
  <2> QED BY <2>2, <2>3
<1>2. CASE c # NoScope
  <2> DEFINE m == Minimum(EscapedRegs(scopes[c]))
             r == AddCode(p, b, <<CloseInsn(c, scopes[c])>>)
             V == W \cup FirstClosed(b, m)
             q == InstructBr(r, b)
             s == StartBlock(CreateBlocks(q, 1), NewBlock(q))
  <2>1. c \in 1..Len(scopes) /\ c \in Nat /\ scopes[c] \in ScopeType /\ b \in U
    BY <1>2 DEF NoScope
  <2>2. NeedClose(scopes[c]) /\ AllBelow(scopes, E[b], m)
    BY <1>2 DEF Leaves
  <2>3. Fits(r, scopes, E, V, U, X)
    BY <2>1, <2>2, CloseThereFits
  <2>4. r = InstructClose(p, b, c, scopes[c])
    BY <2>1, <2>2 DEF InstructClose, CloseInsn, Sound, IsBlockTerminated, Branches
  <2>5. b # p.current_bb /\ ~IsBlockTerminated(p, b) /\ p.current_bb \in 1..Len(p.nodes)
    BY <2>1, SoundTypes DEF Sound
  <2>6. /\ Sound(r, U) /\ Len(r.nodes) = Len(p.nodes) /\ r.current_bb = p.current_bb
        /\ r.nodes[p.current_bb] = p.nodes[p.current_bb]
    BY <2>1, <2>4, <2>5, CloseSound
  <2>7. JumpTo(p, b, c) = s
    BY <2>1, <2>2, JumpCommutes
  <2>8. EdgeOK(scopes, E, V, b, X)
    <3>1. ASSUME NEW t \in X \ E[b], NEW x \in EscapedRegs(scopes[t])
          PROVE  <<b, x>> \in V
      <4>1. x >= m
        BY <1>2, <3>1 DEF Leaves, AboveReg
      <4>2. X \subseteq 1..Len(scopes) /\ b \in Nat
        BY FitsTypes
      <4>3. x \in Nat
        BY <3>1, <4>2, EscapedRegsLemma
      <4> QED BY <4>1, <4>2, <4>3 DEF FirstClosed
    <3> QED BY <3>1 DEF EdgeOK, Leaves
  <2> HIDE DEF r, V
  <2>9. Open(r)
    BY <2>6 DEF Open, IsBlockTerminated
  <2>10. Fits(s, scopes, Extend(E, Len(r.nodes), X), V, U, X)
    BY <1>0, <2>3, <2>6, <2>8, <2>9, BrNextFits
  <2> HIDE DEF s
  <2>11. Fits(JumpTo(p, b, c), scopes, Extend(E, Len(p.nodes), X), V, U, X)
    BY <2>6, <2>7, <2>10
  <2> QED BY <2>11
<1> QED BY <1>1, <1>2

-----------------------------------------------------------------------------
(* The code of conditions and loops. *)

(* An instruction of scope s that leaves upvalues alone. *)
Harmless(sc, s, X) ==
    s \in 1..Len(sc) /\ \A t \in X : \E k \in 1..Len(sc[s].path) : sc[s].path[k] = t

LEMMA HarmlessInsn ==
    ASSUME NEW sc, NEW s \in Nat, NEW X, Harmless(sc, s, X), NEW E, NEW W
    PROVE  LET insn == Insn("op", <<>>, -1, s)
           IN  insn \in InsnType /\ insn.op \notin Branches /\ InsnOK(sc, E, W, insn, X, X)
<1> DEFINE insn == Insn("op", <<>>, -1, s)
<1>1. insn \in InsnType /\ insn.op \notin Branches
  BY OpInsn
<1>2. insn.op = "op" /\ insn.scope = s
  BY DEF Insn
<1> HIDE DEF insn
<1>3. OpOK(sc, insn, X, X)
  BY <1>2 DEF Harmless, OpOK
<1>4. InsnOK(sc, E, W, insn, X, X)
  BY <1>2, <1>3 DEF InsnOK
<1> QED BY <1>1, <1>4 DEF insn

LEMMA StartOpFits ==
    ASSUME NEW p, NEW U, Sound(p, U), NEW sc, Len(sc) \in Nat, NEW E, NEW W, NEW X,
           Fits(p, sc, E, W, U, X), NEW b \in U, Open(p) => EdgeOK(sc, E, W, b, X),
           NEW insn \in InsnType, insn.op \notin Branches, NEW Y, Y \subseteq 1..Len(sc),
           InsnOK(sc, E, W, insn, E[b], Y)
    PROVE  Fits(StartOp(p, b, insn), sc, E, W, U \ {b}, Y)
<1> DEFINE q == StartBlock(p, b)
<1>1. Fits(q, sc, E, W, U \ {b}, E[b])
  BY StartFits
<1>2. Sound(q, U \ {b}) /\ Open(q)
  BY StartSound
<1> HIDE DEF q
<1>3. Fits(Ops(q, <<insn>>), sc, E, W, U \ {b}, Y)
  BY <1>1, <1>2, OpFits
<1> QED BY <1>3 DEF StartOp, q

LEMMA TestOpFits ==
    ASSUME NEW p, NEW U, Sound(p, U), NEW sc, Len(sc) \in Nat, NEW E, NEW W, NEW X,
           Fits(p, sc, E, W, U, X), NEW b \in U, Open(p) => EdgeOK(sc, E, W, b, X),
           NEW insn \in InsnType, insn.op \notin Branches,
           InsnOK(sc, E, W, insn, E[b], E[b]),
           NEW t \in 1..Len(p.nodes), NEW f \in 1..Len(p.nodes), E[t] = E[b], E[f] = E[b], NEW Y
    PROVE  Fits(TestOp(p, b, insn, t, f), sc, E, W, U \ {b}, Y)
<1> DEFINE q == StartOp(p, b, insn)
<1>0. E[b] \subseteq 1..Len(sc)
  BY FitsTypes DEF Sound
<1>1. Fits(q, sc, E, W, U \ {b}, E[b])
  BY <1>0, StartOpFits
<1>2. Sound(q, U \ {b}) /\ Open(q) /\ Len(q.nodes) = Len(p.nodes)
  BY StartOpSound
<1>3. EdgeOK(sc, E, W, t, E[b]) /\ EdgeOK(sc, E, W, f, E[b])
  BY DEF EdgeOK
<1>4. TestOp(p, b, insn, t, f) = InstructCbr(q, t, f)
  BY DEF TestOp, StartOp
<1> HIDE DEF q
<1>5. Fits(InstructCbr(q, t, f), sc, E, W, U \ {b}, Y)
  BY <1>1, <1>2, <1>3, CbrFits
<1> QED BY <1>4, <1>5

LEMMA TestCondFits ==
    ASSUME NEW p, NEW U, Sound(p, U), NEW sc, Len(sc) \in Nat, NEW E, NEW W, NEW X,
           Fits(p, sc, E, W, U, X), NEW b \in U, Open(p) => EdgeOK(sc, E, W, b, X),
           Harmless(sc, p.current_scope, E[b]),
           NEW t \in 1..Len(p.nodes), NEW f \in 1..Len(p.nodes), E[t] = E[b], E[f] = E[b], NEW Y
    PROVE  Fits(TestCond(p, b, t, f), sc, E, W, U \ {b}, Y)
<1> DEFINE insn == Insn("op", <<>>, -1, p.current_scope)
<1>1. insn \in InsnType /\ insn.op \notin Branches /\ InsnOK(sc, E, W, insn, E[b], E[b])
  BY SoundTypes, HarmlessInsn
<1>2. TestCond(p, b, t, f) = TestOp(p, b, insn, t, f)
  BY DEF TestCond, TestOp
<1> HIDE DEF insn
<1>3. Fits(TestOp(p, b, insn, t, f), sc, E, W, U \ {b}, Y)
  BY <1>1, TestOpFits
<1> QED BY <1>2, <1>3

(* The same, with what the code must be: ready and annotated. *)
Good(p, n, sc, E, W, U, X) ==
    /\ Sound(p, U) /\ Len(p.nodes) = n /\ Len(sc) \in Nat
    /\ Fits(p, sc, E, W, U, X)

(* Two blocks with the same in force. *)
Alike(n, E, b, t, f) == t \in 1..n /\ f \in 1..n /\ E[t] = E[b] /\ E[f] = E[b]

(* An instruction that leaves all in force as it is. *)
Quiet(sc, E, W, insn, X) ==
    insn \in InsnType /\ insn.op \notin Branches /\ InsnOK(sc, E, W, insn, X, X)

LEMMA SameEdge ==
    ASSUME NEW sc, NEW E, NEW W, NEW b
    PROVE  EdgeOK(sc, E, W, b, E[b])
BY DEF EdgeOK

LEMMA StartOpGood ==
    ASSUME NEW p, NEW n, NEW U, NEW sc, NEW E, NEW W, NEW X, Good(p, n, sc, E, W, U, X),
           NEW b, b \in U, Open(p) => X = E[b], NEW insn, Quiet(sc, E, W, insn, E[b])
    PROVE  Good(StartOp(p, b, insn), n, sc, E, W, U \ {b}, E[b]) /\ Open(StartOp(p, b, insn))
<1>1. /\ Sound(p, U) /\ Len(sc) \in Nat /\ Fits(p, sc, E, W, U, X) /\ b \in U
      /\ insn \in InsnType /\ insn.op \notin Branches /\ InsnOK(sc, E, W, insn, E[b], E[b])
      /\ Len(p.nodes) = n
  BY DEF Good, Quiet
<1>2. Open(p) => EdgeOK(sc, E, W, b, X)
  BY SameEdge
<1>3. E[b] \subseteq 1..Len(sc)
  BY <1>1, FitsTypes DEF Sound
<1>4. Fits(StartOp(p, b, insn), sc, E, W, U \ {b}, E[b])
  BY <1>1, <1>2, <1>3, StartOpFits
<1>5. /\ Sound(StartOp(p, b, insn), U \ {b}) /\ Open(StartOp(p, b, insn))
      /\ Len(StartOp(p, b, insn).nodes) = n
  BY <1>1, StartOpSound
<1> QED BY <1>1, <1>4, <1>5 DEF Good

LEMMA TestOpGood ==
    ASSUME NEW p, NEW n, NEW U, NEW sc, NEW E, NEW W, NEW X, Good(p, n, sc, E, W, U, X),
           NEW b, b \in U, Open(p) => X = E[b], NEW insn, Quiet(sc, E, W, insn, E[b]),
           NEW t, NEW f, Alike(n, E, b, t, f), NEW Y
    PROVE  Good(TestOp(p, b, insn, t, f), n, sc, E, W, U \ {b}, Y)
<1>1. /\ Sound(p, U) /\ Len(sc) \in Nat /\ Fits(p, sc, E, W, U, X) /\ b \in U
      /\ insn \in InsnType /\ insn.op \notin Branches /\ InsnOK(sc, E, W, insn, E[b], E[b])
      /\ Len(p.nodes) = n
  BY DEF Good, Quiet
<1>2. Open(p) => EdgeOK(sc, E, W, b, X)
  BY SameEdge
<1>3. t \in 1..Len(p.nodes) /\ f \in 1..Len(p.nodes) /\ E[t] = E[b] /\ E[f] = E[b]
  BY <1>1 DEF Alike
<1>4. Fits(TestOp(p, b, insn, t, f), sc, E, W, U \ {b}, Y)
  BY <1>1, <1>2, <1>3, TestOpFits
<1> DEFINE q == TestOp(p, b, insn, t, f)
<1>5. Sound(q, U \ {b}) /\ Len(q.nodes) = Len(p.nodes)
  <2>1. Sound(p, U) /\ b \in U /\ insn \in InsnType /\ insn.op \notin Branches
    BY <1>1
  <2>2. \A u \in 1..Len(p.nodes), v \in 1..Len(p.nodes) :
           /\ Sound(TestOp(p, b, insn, u, v), U \ {b})
           /\ Len(TestOp(p, b, insn, u, v).nodes) = Len(p.nodes)
    BY ONLY <2>1, TestOpSound
  <2> QED BY ONLY <1>3, <2>2 DEF q
<1> HIDE DEF q
<1>6. Good(q, n, sc, E, W, U \ {b}, Y)
  BY <1>1, <1>4, <1>5 DEF Good, q
<1> QED BY <1>6 DEF q

LEMMA ForCodeGood ==
    ASSUME NEW p, NEW U, NEW sc, NEW E, NEW W, NEW X,
           NEW step \in {"positive", "unknown"}, NEW L1 \in Nat \ {0},
           NEW Lbody, Lbody = (IF step = "positive" THEN L1 + 2 ELSE L1 + 3),
           Good(p, Lbody + 1, sc, E, W, U, X), L1..Lbody \subseteq U,
           \A b \in L1..(Lbody + 1) : E[b] = X,
           NEW op, Quiet(sc, E, W, op, X)
    PROVE  Good(ForCode(p, step, L1, Lbody, op, op), Lbody + 1, sc, E, W, U \ (L1..Lbody), X)
<1> DEFINE L2 == L1 + 1
           L3 == L1 + 2
           Lend == Lbody + 1
           q3 == StartOp(p, L1, op)
           q4 == IF step = "positive" THEN InstructBr(q3, L2) ELSE InstructCbr(q3, L2, L3)
           q5 == TestOp(q4, L2, op, Lend, Lbody)
           q6 == IF step = "positive" THEN q5 ELSE TestOp(q5, L3, op, Lend, Lbody)
           q == StartOp(q6, Lbody, op)
           U1 == U \ {L1}
           U2 == U1 \ {L2}
           U3 == IF step = "positive" THEN U2 ELSE U2 \ {L3}
           U4 == U3 \ {Lbody}
<1>0. Len(p.nodes) = Lend
  BY DEF Good
<1>1. q = ForCode(p, step, L1, Lbody, op, op)
  BY DEF ForCode, StartOp, TestOp
<1>2. /\ L2 \in 1..Lend /\ L3 \in 1..Lend /\ Lbody \in 1..Lend /\ Lend \in 1..Lend
      /\ L1 \in L1..Lbody /\ L2 \in L1..Lbody /\ Lbody \in L1..Lbody
      /\ step # "positive" => L3 \in L1..Lbody /\ L3 # Lbody
      /\ L1 # L2 /\ L1 # L3 /\ L2 # L3 /\ L1 # Lbody /\ L2 # Lbody
      /\ L1 \in L1..Lend /\ L2 \in L1..Lend /\ L3 \in L1..Lend
      /\ Lbody \in L1..Lend /\ Lend \in L1..Lend
  <2>1. CASE step = "positive"
    <3>1. Lbody = L1 + 2
      BY <2>1
    <3> QED BY <2>1, <3>1
  <2>2. CASE step # "positive"
    <3>1. Lbody = L1 + 3
      BY <2>2
    <3> QED BY <2>2, <3>1
  <2> QED BY <2>1, <2>2
<1> HIDE DEF L2, L3
<1>3. L1 \in U /\ L2 \in U /\ Lbody \in U /\ (step # "positive" => L3 \in U)
  BY <1>2
<1>4. E[L1] = X /\ E[L2] = X /\ E[L3] = X /\ E[Lbody] = X /\ E[Lend] = X
  BY <1>2
<1>5. Good(q3, Lend, sc, E, W, U1, X) /\ Open(q3)
  <2>1. /\ Good(p, Lend, sc, E, W, U, X) /\ L1 \in U /\ (Open(p) => X = E[L1])
        /\ Quiet(sc, E, W, op, E[L1])
    BY <1>3, <1>4
  <2> HIDE DEF q3, Lend
  <2>2. /\ Good(StartOp(p, L1, op), Lend, sc, E, W, U \ {L1}, E[L1])
        /\ Open(StartOp(p, L1, op))
    BY ONLY <2>1, StartOpGood
  <2> QED BY <1>4, <2>2 DEF q3
<1> HIDE DEF Lend
<1> HIDE DEF q3
<1>6. L2 \in U1 /\ Lbody \in U2 /\ Lbody \in U3 /\ (step # "positive" => L3 \in U2)
  BY <1>2, <1>3
<1> HIDE DEF U1
<1>7. Good(q4, Lend, sc, E, W, U1, X)
  <2>0. /\ Sound(q3, U1) /\ Fits(q3, sc, E, W, U1, X) /\ Len(sc) \in Nat
        /\ EdgeOK(sc, E, W, L2, X) /\ EdgeOK(sc, E, W, L3, X)
        /\ L2 \in 1..Len(q3.nodes) /\ L3 \in 1..Len(q3.nodes)
    BY <1>2, <1>4, <1>5, SameEdge DEF Good
  <2>1. CASE step = "positive"
    <3>1. q4 = InstructBr(q3, L2)
      BY <2>1
    <3> HIDE DEF q4
    <3>2. Sound(q4, U1) /\ Len(q4.nodes) = Lend
      BY <1>5, <2>0, <3>1, BrSound DEF Good
    <3>3. Fits(q4, sc, E, W, U1, X)
      BY <1>5, <2>0, <3>1, BrHere
    <3> QED BY <2>0, <3>2, <3>3 DEF Good
  <2>2. CASE step # "positive"
    <3>1. q4 = InstructCbr(q3, L2, L3)
      BY <2>2
    <3> HIDE DEF q4
    <3>2. Sound(q4, U1) /\ Len(q4.nodes) = Lend
      BY <1>5, <2>0, <3>1, CbrSound DEF Good
    <3>3. Fits(q4, sc, E, W, U1, X)
      BY <1>5, <2>0, <3>1, CbrFits
    <3> QED BY <2>0, <3>2, <3>3 DEF Good
  <2> QED BY <2>1, <2>2
<1> HIDE DEF q4
<1>8. Good(q5, Lend, sc, E, W, U2, X)
  <2>1. /\ Alike(Lend, E, L2, Lend, Lbody) /\ L2 \in U1
        /\ Good(q4, Lend, sc, E, W, U1, X) /\ X = E[L2] /\ Quiet(sc, E, W, op, E[L2])
    BY <1>2, <1>4, <1>6, <1>7 DEF Alike
  <2> HIDE DEF q5, q6, q, U2, U3, U4
  <2>2. Good(TestOp(q4, L2, op, Lend, Lbody), Lend, sc, E, W, U1 \ {L2}, X)
    BY ONLY <2>1, TestOpGood
  <2> QED BY <1>7, <2>2 DEF q5, U2
<1> HIDE DEF q5, U2
<1>9. Good(q6, Lend, sc, E, W, U3, X)
  <2>1. CASE step = "positive"
    BY <1>8, <2>1
  <2>2. CASE step # "positive"
    <3>1. q6 = TestOp(q5, L3, op, Lend, Lbody) /\ U3 = U2 \ {L3}
      BY <2>2
    <3> HIDE DEF q6, U3
    <3>2. /\ Alike(Lend, E, L3, Lend, Lbody) /\ L3 \in U2
          /\ Good(q5, Lend, sc, E, W, U2, X) /\ X = E[L3] /\ Quiet(sc, E, W, op, E[L3])
      BY <1>2, <1>4, <1>6, <1>8, <2>2 DEF Alike
    <3>3. Good(TestOp(q5, L3, op, Lend, Lbody), Lend, sc, E, W, U2 \ {L3}, X)
      BY ONLY <3>2, TestOpGood
    <3> QED BY <1>8, <3>1, <3>3
  <2> QED BY <2>1, <2>2
<1> HIDE DEF q6, U3
<1>10. Good(q, Lend, sc, E, W, U4, X)
  <2>1. /\ Good(q6, Lend, sc, E, W, U3, X) /\ Lbody \in U3 /\ X = E[Lbody]
        /\ Quiet(sc, E, W, op, E[Lbody])
    BY <1>4, <1>6, <1>9
  <2> HIDE DEF q
  <2>2. Good(StartOp(q6, Lbody, op), Lend, sc, E, W, U3 \ {Lbody}, E[Lbody])
    BY ONLY <2>1, StartOpGood
  <2> QED BY <1>4, <2>2 DEF q
<1> HIDE DEF q
<1>11. U \ (L1..Lbody) \subseteq U4
  BY <1>2 DEF U1, U2, U3
<1> HIDE DEF U4
<1> DEFINE V == U \ (L1..Lbody)
<1>12. V \subseteq U4
  BY <1>11
<1> HIDE DEF V
<1>13. Good(q, Lend, sc, E, W, V, X)
  BY <1>10, <1>12, FewerPromises, FewerFits DEF Good
<1> QED BY <1>1, <1>13 DEF V, Lend

(* The scopes on a path: each is met once, and nested ones are higher up.  *)
PathLengths(sc, path) == \A i \in 1..Len(path) : Len(sc[path[i]].path) = i

LEMMA PathDistinct ==
    ASSUME NEW sc, ScopesOK(sc), NEW s \in 1..Len(sc)
    PROVE  PathLengths(sc, sc[s].path)
<1> DEFINE Bad == {t \in 1..Len(sc) : ~PathLengths(sc, sc[t].path)}
           Lengths == {Len(sc[t].path) : t \in Bad}
<1>1. /\ sc \in Seq(ScopeType) /\ \A t \in 1..Len(sc) : ScopeOK(sc, t)
  BY DEF ScopesOK
<1>2. \A t \in 1..Len(sc) : sc[t].path \in Seq(Nat \ {0}) /\ Len(sc[t].path) \in Nat
  BY <1>1, ScopeFields
<1> SUFFICES ASSUME Bad # {} PROVE FALSE
  OBVIOUS
<1>3. Lengths \in SUBSET Nat /\ Lengths # {}
  BY <1>2
<1>4. PICK t \in Bad : \A u \in Bad : Len(sc[t].path) <= Len(sc[u].path)
  <2>1. PICK l \in Lengths : \A k \in Lengths : l <= k
    <3> HIDE DEF Lengths
    <3> QED BY <1>3, MinimumLemma
  <2> HIDE DEF Bad
  <2> QED BY <2>1
<1> DEFINE path == sc[t].path
           n == Len(path)
           r == path[n - 1]
           up == sc[r].path
<1>5. /\ t \in 1..Len(sc) /\ n \in Nat /\ n >= 1 /\ path[n] = t
      /\ \A i \in 1..n : path[i] \in 1..Len(sc)
      /\ n > 1 => Len(up) = n - 1 /\ \A i \in 1..(n - 1) : up[i] = path[i]
  BY <1>1, <1>2 DEF ScopeOK
<1>6. ASSUME NEW i \in 1..n PROVE Len(sc[path[i]].path) = i
  <2>1. CASE i = n
    BY <1>5, <2>1
  <2>2. CASE i # n
    <3>1. n > 1 /\ i \in 1..(n - 1) /\ n - 1 \in 1..n
      BY <1>5, <2>2
    <3>2. r \in 1..Len(sc) /\ Len(up) = n - 1 /\ up[i] = path[i]
      BY <1>5, <3>1
    <3>3. r \notin Bad
      <4>1. Len(sc[r].path) < Len(sc[t].path)
        BY <1>5, <3>2
      <4>2. Len(sc[r].path) \in Nat /\ Len(sc[t].path) \in Nat
        BY <1>2, <1>5, <3>2
      <4> HIDE DEF Bad, r
      <4> QED BY <1>4, <4>1, <4>2
    <3>4. PathLengths(sc, up)
      BY <3>2, <3>3
    <3> HIDE DEF up, path, n
    <3>5. Len(sc[up[i]].path) = i
      BY <3>1, <3>2, <3>4 DEF PathLengths
    <3> QED BY <3>2, <3>5
  <2> QED BY <2>1, <2>2
<1>7. PathLengths(sc, path)
  BY <1>6 DEF PathLengths
<1> QED BY <1>4, <1>7

LEMMA EscapedInRegs ==
    ASSUME NEW scope \in ScopeType
    PROVE  /\ EscapedRegs(scope) \subseteq Regs(scope) /\ EscapedRegs(scope) \subseteq Nat
           /\ \A r \in EscapedRegs(scope) : r >= scope.base
<1>1. /\ scope.base \in Nat /\ scope.locals \in Seq({"plain", "escaped"})
      /\ Len(scope.locals) \in Nat /\ DOMAIN scope.locals = 1..Len(scope.locals)
  BY DEF ScopeType
<1> DEFINE b == scope.base
           n == Len(scope.locals)
<1>2. \A i \in 1..n : b + i - 1 \in b..(b + n - 1) /\ b + i - 1 \in Nat /\ b + i - 1 >= b
  <2> HIDE DEF b, n
  <2>1. b \in Nat /\ n \in Nat
    BY <1>1 DEF b, n
  <2> QED BY <2>1
<1> QED BY <1>1, <1>2 DEF EscapedRegs, Regs

(* Whatever escaped on a path is below the scopes further down it. *)
LEMMA PathOrder ==
    ASSUME NEW sc, ScopesOK(sc), NEW s \in 1..Len(sc),
           NEW i \in 1..Len(sc[s].path), NEW j \in 1..Len(sc[s].path)
    PROVE  LET path == sc[s].path
           IN  /\ path[i] \in 1..Len(sc) /\ path[j] \in 1..Len(sc)
               /\ i # j => path[i] # path[j]
               /\ i < j => /\ BelowReg(sc, path[i], sc[path[j]].base)
                           /\ \A q \in EscapedRegs(sc[path[i]]), r \in EscapedRegs(sc[path[j]]) :
                                 q < r
<1> DEFINE path == sc[s].path
           a == sc[path[i]]
           b == sc[path[j]]
<1>1. path[i] \in 1..Len(sc) /\ path[j] \in 1..Len(sc) /\ sc \in Seq(ScopeType)
  BY DEF ScopesOK, ScopeOK
<1>2. a \in ScopeType /\ b \in ScopeType
  BY <1>1
<1>3. i # j => path[i] # path[j]
  BY PathDistinct DEF PathLengths
<1>4. ASSUME i < j
      PROVE  \A q \in EscapedRegs(a) : q < b.base /\ \A r \in EscapedRegs(b) : q < r
  <2>1. \A q \in Regs(a) : q < b.base
    BY <1>4, PathStacked DEF Stacked
  <2> HIDE DEF a, b
  <2>2. b.base \in Nat
    BY <1>2 DEF ScopeType
  <2> QED BY <1>2, <2>1, <2>2, EscapedInRegs
<1> QED BY <1>1, <1>3, <1>4 DEF BelowReg

(* A scope is live once its locals are declared, if any of them escaped.   *)
Live(scope) == scope.declared /\ NeedClose(scope)
LiveAt(sc, path, k) == {path[j] : j \in {i \in 1..k : Live(sc[path[i]])}}
LiveHere(p, sc) == LiveAt(sc, PathOf(p, sc), Len(PathOf(p, sc)))

(* The blocks a statement in progress still jumps to or starts: none of    *)
(* its own scopes is in force there.                                       *)
Led(f) == (Held(f) \cup (IF f.kind \in {"loop", "for"} THEN {f.head} ELSE {})) \ {NoBlock}
FrameLive(p, sc, st, E) ==
    \A i \in 1..Len(st) : \A b \in Led(st[i]) :
        E[b] = LiveAt(sc, PathOf(p, sc), Depth(st, i - 1))

(* Nor is one at the label of a scope, if nothing escaped from that scope. *)
LabelLive(p, sc, E) ==
    \A k \in 1..Len(PathOf(p, sc)) :
        LET s == PathOf(p, sc)[k]
        IN  /\ sc[s].label_block # NoBlock /\ ~NeedClose(sc[s]) =>
                  E[sc[s].label_block] = LiveAt(sc, PathOf(p, sc), k)
            /\ Owed(sc, s) => ~NeedClose(sc[s])

(* The scope a break closes up to is the outermost one of its loop.        *)
LoopScopes(p, sc, st) ==
    \A i \in Loops(st) : BreakScopeOf(p, st, i) = PathOf(p, sc)[Depth(st, i - 1) + 1]

Lives(p, sc, st, E) ==
    FrameLive(p, sc, st, E) /\ LabelLive(p, sc, E) /\ LoopScopes(p, sc, st)

Annotated(p, sc, st, E, W, X) ==
    /\ Fits(p, sc, E, W, Promises(sc, st), X)
    /\ E[ENTRY_BLOCK] = {}
    /\ st # <<>> => X = LiveHere(p, sc) /\ Lives(p, sc, st, E)

AInv == \E E, W, X : Annotated(proc, scopes, stack, E, W, X)

LEMMA LiveUnder ==
    ASSUME NEW sc, NEW sd, NEW path, NEW other, NEW k,
           \A i \in 1..k : other[i] = path[i] /\ (Live(sd[path[i]]) <=> Live(sc[path[i]]))
    PROVE  LiveAt(sd, other, k) = LiveAt(sc, path, k)
<1>1. {i \in 1..k : Live(sd[other[i]])} = {i \in 1..k : Live(sc[path[i]])}
  OBVIOUS
<1> DEFINE S == {i \in 1..k : Live(sc[path[i]])}
<1>2. \A i \in S : other[i] = path[i]
  OBVIOUS
<1> HIDE DEF S
<1>3. {other[j] : j \in S} = {path[j] : j \in S}
  BY <1>2
<1> QED BY <1>1, <1>3 DEF LiveAt, S

LEMMA LiveStep ==
    ASSUME NEW sc, NEW path, NEW k \in Nat
    PROVE  LiveAt(sc, path, k + 1) =
              LiveAt(sc, path, k) \cup (IF Live(sc[path[k + 1]]) THEN {path[k + 1]} ELSE {})
<1>1. 1..(k + 1) = 1..k \cup {k + 1}
  OBVIOUS
<1>2. {i \in 1..(k + 1) : Live(sc[path[i]])} =
         {i \in 1..k : Live(sc[path[i]])} \cup (IF Live(sc[path[k + 1]]) THEN {k + 1} ELSE {})
  BY <1>1
<1> QED BY <1>2 DEF LiveAt

LEMMA NotLive ==
    ASSUME NEW sc, NEW path, NEW k \in Nat \ {0}, ~Live(sc[path[k]])
    PROVE  LiveAt(sc, path, k) = LiveAt(sc, path, k - 1)
<1> DEFINE m == k - 1
<1>1. m \in Nat /\ m + 1 = k
  OBVIOUS
<1>2. LiveAt(sc, path, m + 1) =
         LiveAt(sc, path, m) \cup (IF Live(sc[path[m + 1]]) THEN {path[m + 1]} ELSE {})
  <2> HIDE DEF m
  <2> QED BY <1>1, LiveStep
<1> QED BY <1>1, <1>2

LEMMA LedRange ==
    ASSUME IInv, CInv, stack # <<>>, NEW i \in 1..Len(stack)
    PROVE  Led(stack[i]) \subseteq 1..Len(proc.nodes)
<1>1. Walking(proc, scopes, stack) /\ stack \in Seq(FrameType)
  BY Here
<1>2. FrameOK(proc, stack[i]) /\ stack[i] \in FrameType
  BY <1>1 DEF Walking, FramesOK
<1>3. ASSUME NEW b \in Held(stack[i]), b # NoBlock PROVE b \in 1..Len(proc.nodes)
  <2>1. b \in Promises(scopes, stack)
    BY <1>1, <1>3, HeldPromised
  <2> QED BY <2>1 DEF CInv, Sound
<1> QED BY <1>2, <1>3 DEF Led, FrameOK

LEMMA DepthBelow ==
    ASSUME IInv, stack # <<>>, NEW i \in 1..Len(stack)
    PROVE  /\ Depth(stack, i - 1) \in Nat
           /\ Depth(stack, i - 1) < Len(PathOf(proc, scopes))
           /\ Depth(stack, i - 1) + 1 \in 1..Len(PathOf(proc, scopes))
<1>1. Walking(proc, scopes, stack) /\ Len(stack) \in Nat
  BY Here
<1>2. i \in Nat \ {0}
  BY <1>1
<1>3. Depth(stack, i - 1) \in Nat /\ Depth(stack, i) \in Nat
      /\ Depth(stack, i) >= Depth(stack, i - 1) + 1
  <2>1. /\ Depth(stack, i) \in Nat /\ Depth(stack, i - 1) \in Nat
        /\ stack[i].kind = "for" => Depth(stack, i) = Depth(stack, i - 1) + 2
        /\ stack[i].kind # "for" => Depth(stack, i) = Depth(stack, i - 1) + 1
    BY <1>2, DepthStep
  <2> DEFINE d == Depth(stack, i)
             e == Depth(stack, i - 1)
  <2>2. d \in Nat /\ e \in Nat /\ (d = e + 2 \/ d = e + 1)
    BY <2>1
  <2> HIDE DEF d, e
  <2>3. d >= e + 1
    BY <2>2
  <2> QED BY <2>1, <2>3 DEF d, e
<1>4. Depth(stack, i) <= Len(PathOf(proc, scopes)) /\ Len(PathOf(proc, scopes)) \in Nat
  BY <1>1, FrameOnPath, WalkingTypes
<1> QED BY <1>3, <1>4

(* A statement without a list of its own.  The scopes keep their path, and *)
(* only the locals of the current scope can have been declared.            *)
OthersStay(p, sc, sd) ==
    \A t \in 1..Len(sc) : t # p.current_scope => (Live(sd[t]) <=> Live(sc[t]))

LEMMA SimpleUnder ==
    ASSUME IInv, stack # <<>>, NEW q, NEW sd, SameContext(proc, q), SameScopes(scopes, sd),
           OthersStay(proc, scopes, sd)
    PROVE  /\ PathOf(q, sd) = PathOf(proc, scopes)
           /\ \A k \in Nat : k < Len(PathOf(proc, scopes)) =>
                 LiveAt(sd, PathOf(q, sd), k) = LiveAt(scopes, PathOf(proc, scopes), k)
<1> DEFINE path == PathOf(proc, scopes)
<1>1. /\ Walking(proc, scopes, stack) /\ proc.current_scope \in 1..Len(scopes)
      /\ ScopesOK(scopes)
  BY Here
<1>2. PathOf(q, sd) = path
  BY <1>1 DEF SameContext, SameScopes, PathOf
<1>3. /\ Len(path) \in Nat \ {0} /\ path[Len(path)] = proc.current_scope
      /\ \A i \in 1..Len(path) : path[i] \in 1..Len(scopes)
  BY <1>1, WalkingTypes
<1>4. \A i \in 1..Len(path) : i # Len(path) => path[i] # proc.current_scope
  BY <1>1, <1>3, PathOrder DEF PathOf
<1>5. ASSUME NEW k \in Nat, k < Len(path)
      PROVE  LiveAt(sd, PathOf(q, sd), k) = LiveAt(scopes, path, k)
  <2>1. \A i \in 1..k : i \in 1..Len(path) /\ i # Len(path)
    <3> HIDE DEF path
    <3> QED BY <1>3, <1>5
  <2>2. \A i \in 1..k : PathOf(q, sd)[i] = path[i] /\ (Live(sd[path[i]]) <=> Live(scopes[path[i]]))
    <3> HIDE DEF path
    <3> QED BY <1>2, <1>3, <1>4, <2>1 DEF OthersStay
  <2> HIDE DEF path
  <2> QED BY <2>2, LiveUnder
<1> QED BY <1>2, <1>5

LEMMA SimpleLives ==
    ASSUME IInv, CInv, stack # <<>>, NEW q, NEW sd, SameContext(proc, q), SameScopes(scopes, sd),
           OthersStay(proc, scopes, sd), NEW E, NEW F, Lives(proc, scopes, stack, E),
           SameEntries(proc, E, F), LabelLive(q, sd, F)
    PROVE  Lives(q, sd, stack, F)
<1>1. PathOf(q, sd) = PathOf(proc, scopes)
  BY SimpleUnder
<1>2. \A k \in Nat : k < Len(PathOf(proc, scopes)) =>
                 LiveAt(sd, PathOf(q, sd), k) = LiveAt(scopes, PathOf(proc, scopes), k)
  BY SimpleUnder
<1>3. ASSUME NEW i \in 1..Len(stack), NEW b \in Led(stack[i])
      PROVE  F[b] = LiveAt(sd, PathOf(q, sd), Depth(stack, i - 1))
  <2>1. b \in 1..Len(proc.nodes)
    BY <1>3, LedRange
  <2>2. F[b] = LiveAt(scopes, PathOf(proc, scopes), Depth(stack, i - 1))
    BY <1>3, <2>1 DEF Lives, FrameLive, SameEntries
  <2> QED BY <2>2, <1>2, DepthBelow
<1>4. FrameLive(q, sd, stack, F)
  BY <1>3 DEF FrameLive
<1>5. LoopScopes(q, sd, stack)
  BY <1>1 DEF Lives, LoopScopes, BreakScopeOf, SameContext, SameBreak
<1> QED BY <1>4, <1>5 DEF Lives

LEMMA LabelsLive ==
    ASSUME IInv, CInv, stack # <<>>, NEW q, NEW sd, SameContext(proc, q), SameScopes(scopes, sd),
           SameLabels(scopes, sd),
           OthersStay(proc, scopes, sd), NEW E, NEW F, Lives(proc, scopes, stack, E),
           SameEntries(proc, E, F)
    PROVE  LabelLive(q, sd, F)
<1> DEFINE path == PathOf(proc, scopes)
<1>1. /\ Walking(proc, scopes, stack) /\ proc.current_scope \in 1..Len(scopes)
      /\ ScopesOK(scopes)
  BY Here
<1>2. /\ Len(path) \in Nat \ {0} /\ path[Len(path)] = proc.current_scope
      /\ \A i \in 1..Len(path) : path[i] \in 1..Len(scopes)
  BY <1>1, WalkingTypes
<1>3. /\ PathOf(q, sd) = path
      /\ \A k \in Nat : k < Len(path) => LiveAt(sd, PathOf(q, sd), k) = LiveAt(scopes, path, k)
  BY SimpleUnder
<1>4. \A s \in 1..Len(scopes) : NeedClose(sd[s]) <=> NeedClose(scopes[s])
  BY DEF SameScopes, NeedClose, EscapedRegs
<1>5. \A s \in 1..Len(scopes) : scopes[s].label_block \in 0..Len(proc.nodes)
  BY <1>1 DEF Walking, LabelsOK, LabelOK
<1>6. ASSUME NEW k \in 1..Len(path), ~NeedClose(scopes[path[k]])
      PROVE  LiveAt(sd, path, k) = LiveAt(scopes, path, k)
  <2>1. CASE k < Len(path)
    BY <1>2, <1>3, <2>1
  <2>2. CASE k = Len(path)
    <3>1. k \in Nat \ {0} /\ k - 1 \in Nat /\ k - 1 < Len(path)
      <4> HIDE DEF path
      <4> QED BY <1>2, <2>2
    <3>2. ~Live(scopes[path[k]]) /\ ~Live(sd[path[k]])
      BY <1>2, <1>4, <1>6 DEF Live
    <3>3. LiveAt(sd, path, k - 1) = LiveAt(scopes, path, k - 1)
      BY <1>3, <3>1
    <3>4. LiveAt(sd, path, k) = LiveAt(sd, path, k - 1)
      <4> HIDE DEF path
      <4> QED BY <3>1, <3>2, NotLive
    <3>5. LiveAt(scopes, path, k) = LiveAt(scopes, path, k - 1)
      <4> HIDE DEF path
      <4> QED BY <3>1, <3>2, NotLive
    <3> QED BY <3>3, <3>4, <3>5
  <2> HIDE DEF path
  <2> QED BY <1>2, <2>1, <2>2
<1>7. ASSUME NEW k \in 1..Len(path), NEW s, s = path[k]
      PROVE  /\ sd[s].label_block # NoBlock /\ ~NeedClose(sd[s]) =>
                   F[sd[s].label_block] = LiveAt(sd, path, k)
             /\ Owed(sd, s) => ~NeedClose(sd[s])
  <2>1. s \in 1..Len(scopes)
    BY <1>2, <1>7
  <2>2. /\ scopes[s].label_block # NoBlock /\ ~NeedClose(scopes[s]) =>
              E[scopes[s].label_block] = LiveAt(scopes, path, k)
        /\ Owed(scopes, s) => ~NeedClose(scopes[s])
    BY <1>7 DEF Lives, LabelLive
  <2>3. /\ sd[s].label_block = scopes[s].label_block /\ sd[s].placed = scopes[s].placed
    BY <2>1 DEF SameLabels
  <2>4. ASSUME scopes[s].label_block # NoBlock
        PROVE  F[scopes[s].label_block] = E[scopes[s].label_block]
    <3>1. scopes[s].label_block \in 1..Len(proc.nodes)
      BY <1>5, <2>1, <2>4 DEF NoBlock
    <3> QED BY <3>1 DEF SameEntries
  <2> HIDE DEF path
  <2> QED BY <1>4, <1>6, <1>7, <2>1, <2>2, <2>3, <2>4 DEF Owed
<1> QED BY <1>3, <1>7 DEF LabelLive

(* The depths of a stack that keeps the kinds of its frames. *)
SameKinds(st, su, n) == \A j \in 1..n : su[j].kind = st[j].kind

LEMMA DepthOfPrefix ==
    ASSUME NEW st, NEW su, NEW n \in Nat, SameKinds(st, su, n), NEW i \in 1..(n + 1)
    PROVE  Depth(su, i - 1) = Depth(st, i - 1)
<1> DEFINE m == i - 1
<1>1. m \in Nat /\ \A j \in 1..m : j \in 1..n
  OBVIOUS
<1>2. \A j \in 1..m : st[j].kind = su[j].kind
  BY <1>1 DEF SameKinds
<1> HIDE DEF m
<1>3. Depth(st, m) = Depth(su, m)
  BY <1>1, <1>2, DepthPrefix
<1> QED BY <1>3 DEF m

-----------------------------------------------------------------------------
(* A statement with a list of its own: its scopes are new, none is live.   *)
ForSize(f) == IF f.kind = "for" THEN 2 ELSE 1

PushedPath(p, sc, q, sd, f) ==
    LET n == Len(PathOf(p, sc))
        path == PathOf(q, sd)
    IN  /\ MoreScopes(sc, sd)
        /\ Len(path) = n + ForSize(f)
        /\ \A i \in 1..n : path[i] = PathOf(p, sc)[i]
        /\ \A k \in (n + 1)..(n + ForSize(f)) :
              path[k] \in (Len(sc) + 1)..Len(sd) /\ ~Live(sd[path[k]])

PushedFrame(p, sc, q, sd, f) ==
    /\ f \in FrameType /\ f.break_scope = p.current_break_scope
    /\ f.kind \in {"loop", "for"} =>
          q.current_break_scope = PathOf(q, sd)[Len(PathOf(p, sc)) + 1]

LEMMA PushUnder ==
    ASSUME IInv, stack # <<>>, NEW q, NEW sd, NEW f, PushedPath(proc, scopes, q, sd, f)
    PROVE  LET path == PathOf(proc, scopes)
               n == Len(PathOf(proc, scopes))
           IN  /\ \A k \in 1..n : LiveAt(sd, PathOf(q, sd), k) = LiveAt(scopes, path, k)
               /\ LiveAt(sd, PathOf(q, sd), 0) = LiveAt(scopes, path, 0)
               /\ \A k \in (n + 1)..(n + ForSize(f)) :
                     LiveAt(sd, PathOf(q, sd), k) = LiveHere(proc, scopes)
               /\ LiveHere(q, sd) = LiveHere(proc, scopes)
<1> DEFINE path == PathOf(proc, scopes)
           n == Len(PathOf(proc, scopes))
           new == PathOf(q, sd)
<1>1. /\ Walking(proc, scopes, stack) /\ ScopesOK(scopes)
  BY Here
<1>2. /\ n \in Nat \ {0} /\ \A i \in 1..n : path[i] \in 1..Len(scopes)
  BY <1>1, WalkingTypes
<1>3. /\ Len(new) = n + ForSize(f) /\ ForSize(f) \in {1, 2}
      /\ \A i \in 1..n : new[i] = path[i] /\ sd[path[i]] = scopes[path[i]]
      /\ \A k \in (n + 1)..(n + ForSize(f)) : ~Live(sd[new[k]])
  BY <1>2 DEF PushedPath, MoreScopes, ForSize
<1>4. ASSUME NEW k \in 0..n
      PROVE  LiveAt(sd, new, k) = LiveAt(scopes, path, k)
  <2>1. \A i \in 1..k : i \in 1..n
    <3> HIDE DEF path, n
    <3> QED BY <1>2
  <2>2. \A i \in 1..k : new[i] = path[i] /\ (Live(sd[path[i]]) <=> Live(scopes[path[i]]))
    <3> HIDE DEF path, n, new
    <3> QED BY <2>1, <1>3
  <2> HIDE DEF path, n, new
  <2> QED BY <2>2, LiveUnder
<1>5. LiveAt(sd, new, n) = LiveHere(proc, scopes)
  BY <1>2, <1>4 DEF LiveHere
<1>6. LiveAt(sd, new, n + 1) = LiveHere(proc, scopes)
  <2>1. ~Live(sd[new[n + 1]]) /\ n + 1 \in Nat \ {0} /\ (n + 1) - 1 = n
    <3> HIDE DEF n, new
    <3> QED BY <1>2, <1>3
  <2> HIDE DEF n, new
  <2> QED BY <2>1, <1>5, NotLive
<1>7. ForSize(f) = 2 => LiveAt(sd, new, n + 2) = LiveHere(proc, scopes)
  <2>1. SUFFICES ASSUME ForSize(f) = 2 PROVE LiveAt(sd, new, n + 2) = LiveHere(proc, scopes)
    OBVIOUS
  <2>2. ~Live(sd[new[n + 2]]) /\ n + 2 \in Nat \ {0} /\ (n + 2) - 1 = n + 1
    <3> HIDE DEF n, new
    <3> QED BY <1>2, <1>3, <2>1
  <2> HIDE DEF n, new
  <2> QED BY <2>2, <1>6, NotLive
<1>8. \A k \in (n + 1)..(n + ForSize(f)) : k = n + 1 \/ (ForSize(f) = 2 /\ k = n + 2)
  <2> HIDE DEF n, new
  <2> QED BY <1>2, <1>3
<1>9. \A k \in (n + 1)..(n + ForSize(f)) : LiveAt(sd, new, k) = LiveHere(proc, scopes)
  <2> HIDE DEF n, new
  <2> QED BY <1>6, <1>7, <1>8
<1>10. LiveHere(q, sd) = LiveHere(proc, scopes)
  <2>1. Len(new) \in (n + 1)..(n + ForSize(f))
    <3> HIDE DEF n, new
    <3> QED BY <1>2, <1>3
  <2>2. LiveHere(q, sd) = LiveAt(sd, new, Len(new))
    BY DEF LiveHere
  <2> QED BY <2>1, <2>2, <1>9
<1>11. 0 \in 0..n /\ \A k \in 1..n : k \in 0..n
  <2> HIDE DEF n
  <2> QED BY <1>2
<1> QED BY <1>4, <1>9, <1>10, <1>11

LEMMA PushLives ==
    ASSUME IInv, CInv, stack # <<>>, NEW q, NEW sd, NEW f, PushedPath(proc, scopes, q, sd, f),
           PushedFrame(proc, scopes, q, sd, f), f.kind \in {"loop", "for"} \/ SameBreak(proc, q),
           NEW E, NEW F, Lives(proc, scopes, stack, E), SameEntries(proc, E, F),
           \A b \in Led(f) : F[b] = LiveHere(proc, scopes)
    PROVE  Lives(q, sd, Append(stack, f), F)
<1> DEFINE path == PathOf(proc, scopes)
           n == Len(PathOf(proc, scopes))
           new == PathOf(q, sd)
           su == Append(stack, f)
           l == Len(stack)
<1>1. /\ Walking(proc, scopes, stack) /\ ScopesOK(scopes) /\ stack \in Seq(FrameType)
      /\ l \in Nat \ {0}
  BY Here
<1>2. /\ n \in Nat \ {0} /\ \A i \in 1..n : path[i] \in 1..Len(scopes)
  BY <1>1, WalkingTypes
<1>3. Depth(stack, l) = n
  BY <1>1 DEF Walking, DepthOK, PathOf
<1>4. /\ Len(su) = l + 1 /\ su[l + 1] = f /\ DOMAIN su = 1..(l + 1)
      /\ \A i \in 1..l : su[i] = stack[i]
  BY <1>1 DEF PushedFrame
<1>5. ASSUME NEW i \in 1..(l + 1) PROVE Depth(su, i - 1) = Depth(stack, i - 1)
  <2>1. SameKinds(stack, su, l)
    BY <1>4 DEF SameKinds
  <2> HIDE DEF su, l
  <2> QED BY <1>1, <2>1, DepthOfPrefix
<1>6. /\ \A k \in 1..n : LiveAt(sd, new, k) = LiveAt(scopes, path, k)
      /\ LiveAt(sd, new, 0) = LiveAt(scopes, path, 0)
      /\ \A k \in (n + 1)..(n + ForSize(f)) : LiveAt(sd, new, k) = LiveHere(proc, scopes)
  BY PushUnder
<1>7. LiveAt(sd, new, n) = LiveHere(proc, scopes)
  BY <1>2, <1>6 DEF LiveHere
<1>8. \A i \in 1..(l + 1) : i \in 1..l \/ (i = l + 1 /\ i - 1 = l /\ i \notin 1..l)
  <2> HIDE DEF l
  <2> QED BY <1>1
<1>9. ASSUME NEW i \in 1..Len(su), NEW b \in Led(su[i])
      PROVE  F[b] = LiveAt(sd, new, Depth(su, i - 1))
  <2>1. CASE i \in 1..l
    <3>1. su[i] = stack[i] /\ Depth(su, i - 1) = Depth(stack, i - 1)
      BY <1>4, <1>5, <1>8, <1>9, <2>1
    <3>2. Depth(stack, i - 1) \in 0..n
      BY <2>1, DepthBelow
    <3>3. b \in 1..Len(proc.nodes) /\ F[b] = E[b]
      BY <1>9, <3>1, <2>1, LedRange DEF SameEntries
    <3>4. E[b] = LiveAt(scopes, path, Depth(stack, i - 1))
      BY <1>9, <3>1, <2>1 DEF Lives, FrameLive
    <3>5. \A k \in 0..n : k = 0 \/ k \in 1..n
      <4> HIDE DEF n
      <4> QED BY <1>2
    <3> HIDE DEF su, path, n, new, l
    <3> QED BY <1>6, <3>1, <3>2, <3>3, <3>4, <3>5
  <2>2. CASE i \notin 1..l
    <3>1. i = l + 1 /\ Depth(su, i - 1) = n /\ su[i] = f
      <4>1. i = l + 1 /\ i - 1 = l
        BY <1>4, <1>8, <1>9, <2>2
      <4> HIDE DEF su, l
      <4> QED BY <1>3, <1>4, <1>5, <1>9, <4>1
    <3> HIDE DEF su, path, n, new, l
    <3> QED BY <1>7, <1>9, <3>1
  <2> QED BY <2>1, <2>2
<1>10. FrameLive(q, sd, su, F)
  BY <1>9 DEF FrameLive
<1>11. ASSUME NEW k \in 1..Len(new), NEW s, s = new[k]
       PROVE  /\ sd[s].label_block # NoBlock /\ ~NeedClose(sd[s]) =>
                    F[sd[s].label_block] = LiveAt(sd, new, k)
              /\ Owed(sd, s) => ~NeedClose(sd[s])
  <2>1. k \in 1..n \/ k \in (n + 1)..(n + ForSize(f))
    <3>1. Len(new) = n + ForSize(f)
      BY DEF PushedPath
    <3>2. ForSize(f) \in {1, 2}
      BY DEF ForSize
    <3> HIDE DEF new, n
    <3> QED BY <1>2, <3>1, <3>2, <1>11
  <2>2. CASE k \in 1..n
    <3>1. s = path[k] /\ s \in 1..Len(scopes) /\ sd[s] = scopes[s]
      BY <1>2, <1>11, <2>2 DEF PushedPath, MoreScopes
    <3>2. /\ scopes[s].label_block # NoBlock /\ ~NeedClose(scopes[s]) =>
                E[scopes[s].label_block] = LiveAt(scopes, path, k)
          /\ Owed(scopes, s) => ~NeedClose(scopes[s])
      BY <3>1, <2>2 DEF Lives, LabelLive
    <3>3. scopes[s].label_block \in 0..Len(proc.nodes)
      BY <1>1, <3>1 DEF Walking, LabelsOK, LabelOK
    <3>4. scopes[s].label_block # NoBlock => F[scopes[s].label_block] = E[scopes[s].label_block]
      BY <3>3 DEF SameEntries, NoBlock
    <3> HIDE DEF path, n, new
    <3> QED BY <1>6, <2>2, <3>1, <3>2, <3>4 DEF Owed
  <2>3. CASE k \in (n + 1)..(n + ForSize(f))
    <3>1. sd[s].label_block = 0
      BY <1>11, <2>3 DEF PushedPath, MoreScopes
    <3> QED BY <3>1 DEF NoBlock, Owed
  <2> QED BY <2>1, <2>2, <2>3
<1>12. LabelLive(q, sd, F)
  BY <1>11 DEF LabelLive
<1>13. ASSUME NEW i \in Loops(su)
       PROVE  BreakScopeOf(q, su, i) = new[Depth(su, i - 1) + 1]
  <2>1. i \in 1..(l + 1) /\ su[i].kind \in {"loop", "for"}
    BY <1>4, <1>13 DEF Loops
  <2>2. CASE i \in 1..l
    <3>1. i \in Loops(stack)
      BY <1>1, <1>4, <2>1, <2>2 DEF Loops
    <3>2. BreakScopeOf(proc, stack, i) = path[Depth(stack, i - 1) + 1]
      BY <3>1 DEF Lives, LoopScopes
    <3>3. BreakScopeOf(q, su, i) = BreakScopeOf(proc, stack, i)
      <4>1. i + 1 \in 1..l \/ (i = l /\ i # l + 1)
        <5> HIDE DEF l
        <5> QED BY <1>1, <2>2
      <4>2. i # Len(su) /\ Len(stack) = l
        BY <1>4, <1>8, <2>2
      <4>3. CASE i + 1 \in 1..l
        <5>1. su[i + 1] = stack[i + 1] /\ i # Len(stack)
          <6>1. i # l
            <7> HIDE DEF l
            <7> QED BY <1>1, <2>2, <4>3
          <6> QED BY <1>4, <4>3, <6>1
        <5> HIDE DEF su, l
        <5> QED BY <4>2, <5>1 DEF BreakScopeOf
      <4>4. CASE i = l
        <5>1. su[i + 1].break_scope = proc.current_break_scope
          BY <1>4, <4>4 DEF PushedFrame
        <5> HIDE DEF su, l
        <5> QED BY <4>2, <4>4, <5>1 DEF BreakScopeOf
      <4> QED BY <4>1, <4>3, <4>4
    <3>4. Depth(su, i - 1) = Depth(stack, i - 1)
      BY <1>5, <2>1
    <3>5. Depth(stack, i - 1) + 1 \in 1..n
      BY <2>2, DepthBelow
    <3>6. \A k \in 1..n : new[k] = path[k]
      BY DEF PushedPath
    <3> HIDE DEF su, path, n, new, l
    <3> QED BY <3>2, <3>3, <3>4, <3>5, <3>6
  <2>3. CASE i \notin 1..l
    <3>1. i = l + 1 /\ Depth(su, i - 1) = n /\ su[i] = f /\ Len(su) = i
      <4>1. i = l + 1 /\ i - 1 = l
        BY <1>8, <2>1, <2>3
      <4> HIDE DEF su, l
      <4> QED BY <1>3, <1>4, <1>5, <2>1, <4>1
    <3>2. q.current_break_scope = new[n + 1]
      BY <2>1, <3>1 DEF PushedFrame
    <3> HIDE DEF su, path, n, new, l
    <3> QED BY <3>1, <3>2 DEF BreakScopeOf
  <2> QED BY <2>2, <2>3
<1>14. LoopScopes(q, sd, su)
  BY <1>13 DEF LoopScopes
<1> QED BY <1>10, <1>12, <1>14 DEF Lives

-----------------------------------------------------------------------------
(* The end of a statement with a list of its own: its scopes are left.     *)
PoppedPath(p, sc, st, q) ==
    LET m == Depth(st, Len(st) - 1)
    IN  /\ Len(PathOf(q, sc)) = m
        /\ \A i \in 1..m : PathOf(q, sc)[i] = PathOf(p, sc)[i]
        /\ q.current_break_scope = st[Len(st)].break_scope

LEMMA PopUnder ==
    ASSUME IInv, stack # <<>>, Len(stack) > 1, NEW q, PoppedPath(proc, scopes, stack, q)
    PROVE  LET path == PathOf(proc, scopes)
               m == Depth(stack, Len(stack) - 1)
           IN  /\ m \in Nat /\ m < Len(path) /\ Len(stack) - 1 \in 1..Len(stack)
               /\ \A k \in 0..m : LiveAt(scopes, PathOf(q, scopes), k) = LiveAt(scopes, path, k)
               /\ LiveHere(q, scopes) = LiveAt(scopes, path, m)
<1> DEFINE path == PathOf(proc, scopes)
           m == Depth(stack, Len(stack) - 1)
           new == PathOf(q, scopes)
           l == Len(stack)
<1>1. l \in Nat \ {0} /\ l > 1
  BY Here
<1>2. l \in 1..l /\ l - 1 \in 1..l
  <2> HIDE DEF l
  <2> QED BY <1>1
<1>3. m \in Nat /\ m < Len(path)
  BY <1>2, DepthBelow
<1>4. ASSUME NEW k \in 0..m PROVE LiveAt(scopes, new, k) = LiveAt(scopes, path, k)
  <2>1. \A i \in 1..k : i \in 1..m
    <3> HIDE DEF m
    <3> QED BY <1>3
  <2>2. \A i \in 1..k : new[i] = path[i]
    BY <2>1 DEF PoppedPath
  <2> HIDE DEF path, m, new
  <2> QED BY <2>2, LiveUnder
<1>5. LiveHere(q, scopes) = LiveAt(scopes, new, m) /\ m \in 0..m
  BY <1>3 DEF PoppedPath, LiveHere
<1> HIDE DEF m, path, new
<1> QED BY <1>2, <1>3, <1>4, <1>5 DEF m, path, new

LEMMA PopLives ==
    ASSUME IInv, CInv, stack # <<>>, Len(stack) > 1, NEW q, PoppedPath(proc, scopes, stack, q),
           NEW E, NEW F, Lives(proc, scopes, stack, E), SameEntries(proc, E, F)
    PROVE  Lives(q, scopes, SubSeq(stack, 1, Len(stack) - 1), F)
<1> DEFINE path == PathOf(proc, scopes)
           n == Len(PathOf(proc, scopes))
           new == PathOf(q, scopes)
           su == SubSeq(stack, 1, Len(stack) - 1)
           l == Len(stack)
           m == Depth(stack, l - 1)
<1>1. /\ Walking(proc, scopes, stack) /\ ScopesOK(scopes) /\ stack \in Seq(FrameType)
      /\ l \in Nat \ {0} /\ l > 1
  BY Here
<1>2. /\ n \in Nat \ {0} /\ \A i \in 1..n : path[i] \in 1..Len(scopes)
  BY <1>1, WalkingTypes
<1>3. /\ m \in Nat /\ m < n /\ l - 1 \in 1..l
      /\ \A k \in 0..m : LiveAt(scopes, new, k) = LiveAt(scopes, path, k)
  BY <1>1, PopUnder
<1>4. /\ Len(su) = l - 1 /\ DOMAIN su = 1..(l - 1)
      /\ \A i \in 1..(l - 1) : su[i] = stack[i]
  BY <1>1
<1>5. ASSUME NEW i \in 1..(l - 1)
      PROVE  /\ i \in 1..l /\ Depth(su, i - 1) = Depth(stack, i - 1)
             /\ Depth(stack, i - 1) \in 0..m /\ Depth(stack, i - 1) + 1 \in 1..m
  <2>1. SameKinds(stack, su, l - 1)
    BY <1>4 DEF SameKinds
  <2>2. i \in 1..((l - 1) + 1) /\ l - 1 \in Nat /\ i \in 1..l
    <3> HIDE DEF su, l, m
    <3> QED BY <1>1
  <2>3. Depth(su, i - 1) = Depth(stack, i - 1)
    <3> DEFINE k == l - 1
    <3>1. SameKinds(stack, su, k) /\ k \in Nat /\ i \in 1..(k + 1)
      BY <2>1, <2>2
    <3> HIDE DEF su, k
    <3> QED BY <3>1, DepthOfPrefix
  <2>4. Depth(stack, i - 1) \in Nat /\ Depth(stack, i - 1) < m
    <3>1. i - 1 \in Nat /\ l - 1 \in Nat /\ i - 1 < l - 1
      <4> HIDE DEF l, m
      <4> QED BY <1>1
    <3>2. Depth(stack, i - 1) \in Nat
      BY <2>2, DepthBelow
    <3> HIDE DEF l
    <3> QED BY <3>1, <3>2, DepthMonotone
  <2>5. Depth(stack, i - 1) \in 0..m /\ Depth(stack, i - 1) + 1 \in 1..m
    <3> DEFINE d == Depth(stack, i - 1)
    <3>1. d \in Nat /\ d < m
      BY <2>4
    <3> HIDE DEF m, d
    <3>2. d \in 0..m /\ d + 1 \in 1..m
      BY <1>3, <3>1
    <3> QED BY <3>2 DEF d
  <2> QED BY <2>2, <2>3, <2>5
<1>6. ASSUME NEW i \in 1..Len(su), NEW b \in Led(su[i])
      PROVE  F[b] = LiveAt(scopes, new, Depth(su, i - 1))
  <2>1. i \in 1..(l - 1)
    BY <1>4, <1>6
  <2>2. su[i] = stack[i] /\ i \in 1..l /\ Depth(su, i - 1) = Depth(stack, i - 1)
        /\ Depth(stack, i - 1) \in 0..m
    BY <1>4, <1>5, <2>1
  <2>3. b \in 1..Len(proc.nodes) /\ F[b] = E[b]
    BY <1>6, <2>2, LedRange DEF SameEntries
  <2>4. E[b] = LiveAt(scopes, path, Depth(stack, i - 1))
    BY <1>6, <2>2 DEF Lives, FrameLive
  <2> HIDE DEF su, path, new, l, m
  <2> QED BY <1>3, <2>2, <2>3, <2>4
<1>7. FrameLive(q, scopes, su, F)
  BY <1>6 DEF FrameLive
<1>8. Len(new) = m /\ \A k \in 1..m : new[k] = path[k]
  BY DEF PoppedPath
<1>9. ASSUME NEW k \in 1..Len(new), NEW s, s = new[k]
      PROVE  /\ scopes[s].label_block # NoBlock /\ ~NeedClose(scopes[s]) =>
                    F[scopes[s].label_block] = LiveAt(scopes, new, k)
             /\ Owed(scopes, s) => ~NeedClose(scopes[s])
  <2>1. k \in 1..n /\ k \in 0..m /\ k \in 1..m
    <3>1. k \in 1..m
      BY <1>8, <1>9
    <3> HIDE DEF m, n, new
    <3> QED BY <1>2, <1>3, <3>1
  <2>2. s = path[k] /\ s \in 1..Len(scopes)
    BY <1>2, <1>8, <1>9, <2>1
  <2>3. /\ scopes[s].label_block # NoBlock /\ ~NeedClose(scopes[s]) =>
                E[scopes[s].label_block] = LiveAt(scopes, path, k)
        /\ Owed(scopes, s) => ~NeedClose(scopes[s])
    BY <2>1, <2>2 DEF Lives, LabelLive
  <2>4. scopes[s].label_block \in 0..Len(proc.nodes)
    BY <1>1, <2>2 DEF Walking, LabelsOK, LabelOK
  <2>5. scopes[s].label_block # NoBlock => F[scopes[s].label_block] = E[scopes[s].label_block]
    BY <2>4 DEF SameEntries, NoBlock
  <2> HIDE DEF path, n, new, m
  <2> QED BY <1>3, <2>1, <2>3, <2>5
<1>10. LabelLive(q, scopes, F)
  BY <1>9 DEF LabelLive
<1>11. ASSUME NEW i \in Loops(su)
       PROVE  BreakScopeOf(q, su, i) = new[Depth(su, i - 1) + 1]
  <2>1. i \in 1..(l - 1) /\ su[i].kind \in {"loop", "for"}
    BY <1>4, <1>11 DEF Loops
  <2>2. i \in 1..l /\ i \in Loops(stack)
    BY <1>1, <1>4, <1>5, <2>1 DEF Loops
  <2>3. BreakScopeOf(proc, stack, i) = path[Depth(stack, i - 1) + 1]
    BY <2>2 DEF Lives, LoopScopes
  <2>4. BreakScopeOf(q, su, i) = BreakScopeOf(proc, stack, i)
    <3>1. i # l /\ ((i # l - 1 /\ i + 1 \in 1..(l - 1)) \/ (i = l - 1 /\ i + 1 = l))
      <4> HIDE DEF l
      <4> QED BY <1>1, <2>1
    <3>2. BreakScopeOf(proc, stack, i) = stack[i + 1].break_scope
      BY <3>1 DEF BreakScopeOf
    <3>3. CASE i # l - 1 /\ i + 1 \in 1..(l - 1)
      <4>1. i # Len(su) /\ su[i + 1] = stack[i + 1]
        BY <1>4, <3>3
      <4> HIDE DEF su, l
      <4> QED BY <3>2, <4>1 DEF BreakScopeOf
    <3>4. CASE i = l - 1 /\ i + 1 = l
      <4>1. q.current_break_scope = stack[i + 1].break_scope
        BY <3>4 DEF PoppedPath
      <4>2. i = Len(su)
        BY <1>4, <3>4
      <4> HIDE DEF su, l
      <4> QED BY <3>2, <4>1, <4>2 DEF BreakScopeOf
    <3> QED BY <3>1, <3>3, <3>4
  <2>5. Depth(su, i - 1) = Depth(stack, i - 1) /\ Depth(stack, i - 1) + 1 \in 1..m
    BY <1>5, <2>1
  <2> HIDE DEF su, path, new, l, m
  <2> QED BY <1>8, <2>3, <2>4, <2>5
<1>12. LoopScopes(q, scopes, su)
  BY <1>11 DEF LoopScopes
<1> QED BY <1>7, <1>10, <1>12 DEF Lives

-----------------------------------------------------------------------------
(* The next arm of an if: its scope takes the place of the one before it.  *)
ArmPath(p, sc, q, sd) ==
    LET n == Len(PathOf(p, sc))
        path == PathOf(q, sd)
    IN  /\ MoreScopes(sc, sd) /\ Len(path) = n /\ SameBreak(p, q)
        /\ \A i \in 1..(n - 1) : path[i] = PathOf(p, sc)[i]
        /\ path[n] \in (Len(sc) + 1)..Len(sd) /\ ~Live(sd[path[n]])

ArmStack(st, su) ==
    /\ DOMAIN su = 1..Len(st) /\ Len(su) = Len(st)
    /\ \A i \in 1..Len(st) : SameFrame(st[i], su[i]) /\ Led(su[i]) \subseteq Led(st[i])

LEMMA ArmUnder ==
    ASSUME IInv, stack # <<>>, NEW q, NEW sd, ArmPath(proc, scopes, q, sd)
    PROVE  LET path == PathOf(proc, scopes)
               n == Len(path)
           IN  /\ \A k \in 0..(n - 1) : LiveAt(sd, PathOf(q, sd), k) = LiveAt(scopes, path, k)
               /\ LiveHere(q, sd) = LiveAt(scopes, path, n - 1)
<1> DEFINE path == PathOf(proc, scopes)
           n == Len(path)
           new == PathOf(q, sd)
<1>1. /\ Walking(proc, scopes, stack) /\ ScopesOK(scopes)
  BY Here
<1>2. /\ n \in Nat \ {0} /\ \A i \in 1..n : path[i] \in 1..Len(scopes)
  BY <1>1, WalkingTypes
<1>3. \A i \in 1..(n - 1) : i \in 1..n
  <2> HIDE DEF n
  <2> QED BY <1>2
<1>4. \A i \in 1..(n - 1) : new[i] = path[i] /\ sd[path[i]] = scopes[path[i]]
  BY <1>2, <1>3 DEF ArmPath, MoreScopes
<1>5. ASSUME NEW k \in 0..(n - 1) PROVE LiveAt(sd, new, k) = LiveAt(scopes, path, k)
  <2>1. \A i \in 1..k : i \in 1..(n - 1)
    <3> HIDE DEF n
    <3> QED BY <1>2
  <2>2. \A i \in 1..k : new[i] = path[i] /\ (Live(sd[path[i]]) <=> Live(scopes[path[i]]))
    BY <1>4, <2>1
  <2> HIDE DEF path, n, new
  <2> QED BY <2>2, LiveUnder
<1>6. LiveHere(q, sd) = LiveAt(sd, new, n) /\ ~Live(sd[new[n]])
  BY DEF ArmPath, LiveHere
<1>7. LiveAt(sd, new, n) = LiveAt(sd, new, n - 1)
  <2> HIDE DEF n, new
  <2> QED BY <1>2, <1>6, NotLive
<1>8. n - 1 \in 0..(n - 1)
  <2> HIDE DEF n
  <2> QED BY <1>2
<1> QED BY <1>5, <1>6, <1>7, <1>8

LEMMA ArmLives ==
    ASSUME IInv, CInv, stack # <<>>, NEW q, NEW sd, ArmPath(proc, scopes, q, sd),
           NEW su, ArmStack(stack, su), stack[Len(stack)].kind = "if",
           NEW E, NEW F, Lives(proc, scopes, stack, E), SameEntries(proc, E, F)
    PROVE  Lives(q, sd, su, F)
<1> DEFINE path == PathOf(proc, scopes)
           n == Len(path)
           new == PathOf(q, sd)
           l == Len(stack)
<1>1. /\ Walking(proc, scopes, stack) /\ ScopesOK(scopes) /\ stack \in Seq(FrameType)
      /\ l \in Nat \ {0}
  BY Here
<1>2. /\ n \in Nat \ {0} /\ \A i \in 1..n : path[i] \in 1..Len(scopes)
  BY <1>1, WalkingTypes
<1>3. \A k \in 0..(n - 1) : LiveAt(sd, new, k) = LiveAt(scopes, path, k)
  BY ArmUnder
<1>4. ASSUME NEW i \in 1..l
      PROVE  /\ Depth(su, i - 1) = Depth(stack, i - 1)
             /\ Depth(stack, i - 1) \in 0..(n - 1) /\ Depth(stack, i - 1) + 1 \in 1..n
  <2>1. SameKinds(stack, su, l)
    BY DEF SameKinds, ArmStack, SameFrame
  <2>2. i \in 1..(l + 1)
    <3> HIDE DEF l
    <3> QED BY <1>1
  <2>3. Depth(su, i - 1) = Depth(stack, i - 1)
    <3> HIDE DEF l
    <3> QED BY <1>1, <2>1, <2>2, DepthOfPrefix
  <2>4. Depth(stack, i - 1) \in Nat /\ Depth(stack, i - 1) < n
    BY DepthBelow
  <2> DEFINE d == Depth(stack, i - 1)
  <2>5. d \in 0..(n - 1) /\ d + 1 \in 1..n
    <3> HIDE DEF d, n
    <3> QED BY <1>2, <2>4 DEF d
  <2> QED BY <2>3, <2>5
<1>5. ASSUME NEW i \in 1..Len(su), NEW b \in Led(su[i])
      PROVE  F[b] = LiveAt(sd, new, Depth(su, i - 1))
  <2>1. i \in 1..l /\ b \in Led(stack[i])
    BY <1>5 DEF ArmStack
  <2>2. b \in 1..Len(proc.nodes) /\ F[b] = E[b]
    BY <2>1, LedRange DEF SameEntries
  <2>3. E[b] = LiveAt(scopes, path, Depth(stack, i - 1))
    BY <2>1 DEF Lives, FrameLive
  <2> HIDE DEF path, n, new, l
  <2> QED BY <1>3, <1>4, <2>1, <2>2, <2>3
<1>6. FrameLive(q, sd, su, F)
  BY <1>5 DEF FrameLive
<1>7. ASSUME NEW k \in 1..Len(new), NEW s, s = new[k]
      PROVE  /\ sd[s].label_block # NoBlock /\ ~NeedClose(sd[s]) =>
                    F[sd[s].label_block] = LiveAt(sd, new, k)
             /\ Owed(sd, s) => ~NeedClose(sd[s])
  <2>1. k = n \/ (k \in 1..(n - 1) /\ k \in 0..(n - 1) /\ k \in 1..n)
    <3>1. k \in 1..n
      BY <1>7 DEF ArmPath
    <3> HIDE DEF n, new
    <3> QED BY <1>2, <3>1
  <2>2. CASE k = n
    <3>1. sd[s].label_block = 0
      BY <1>7, <2>2 DEF ArmPath, MoreScopes
    <3> QED BY <3>1 DEF NoBlock, Owed
  <2>3. CASE k \in 1..(n - 1) /\ k \in 0..(n - 1) /\ k \in 1..n
    <3>1. s = path[k] /\ s \in 1..Len(scopes) /\ sd[s] = scopes[s]
      BY <1>2, <1>7, <2>3 DEF ArmPath, MoreScopes
    <3>2. /\ scopes[s].label_block # NoBlock /\ ~NeedClose(scopes[s]) =>
                E[scopes[s].label_block] = LiveAt(scopes, path, k)
          /\ Owed(scopes, s) => ~NeedClose(scopes[s])
      BY <2>3, <3>1 DEF Lives, LabelLive
    <3>3. scopes[s].label_block \in 0..Len(proc.nodes)
      BY <1>1, <3>1 DEF Walking, LabelsOK, LabelOK
    <3>4. scopes[s].label_block # NoBlock => F[scopes[s].label_block] = E[scopes[s].label_block]
      BY <3>3 DEF SameEntries, NoBlock
    <3> HIDE DEF path, n, new
    <3> QED BY <1>3, <2>3, <3>1, <3>2, <3>4 DEF Owed
  <2> QED BY <2>1, <2>2, <2>3
<1>8. LabelLive(q, sd, F)
  BY <1>7 DEF LabelLive
<1>9. ASSUME NEW i \in Loops(su)
       PROVE  BreakScopeOf(q, su, i) = new[Depth(su, i - 1) + 1]
  <2>1. i \in 1..l /\ i \in Loops(stack) /\ su[i].kind \in {"loop", "for"}
    BY <1>1, <1>9 DEF Loops, ArmStack, SameFrame
  <2>2. BreakScopeOf(proc, stack, i) = path[Depth(stack, i - 1) + 1]
    BY <2>1 DEF Lives, LoopScopes
  <2>3. BreakScopeOf(q, su, i) = BreakScopeOf(proc, stack, i)
    <3>1. i = l \/ i + 1 \in 1..l
      <4> HIDE DEF l
      <4> QED BY <1>1, <2>1
    <3>2. Len(su) = l /\ q.current_break_scope = proc.current_break_scope
      BY DEF ArmStack, ArmPath, SameBreak
    <3>3. i + 1 \in 1..l => su[i + 1].break_scope = stack[i + 1].break_scope
      BY DEF ArmStack, SameFrame
    <3> QED BY <3>1, <3>2, <3>3 DEF BreakScopeOf
  <2>4. Depth(stack, i - 1) + 1 \in 1..(n - 1)
    <3>1. i # l
      BY <2>1 DEF ArmStack, SameFrame
    <3>2. i - 1 \in Nat /\ l - 1 \in Nat /\ i - 1 < l - 1 /\ l \in 1..l
      <4> HIDE DEF l
      <4> QED BY <1>1, <2>1, <3>1
    <3> DEFINE d == Depth(stack, i - 1)
               e == Depth(stack, l - 1)
    <3>3. d \in Nat /\ e \in Nat /\ e < n
      BY <2>1, <3>2, DepthBelow
    <3>4. d < e
      <4> HIDE DEF l
      <4> QED BY <3>2, DepthMonotone
    <3>5. d + 1 \in 1..(n - 1)
      <4> HIDE DEF d, e, n
      <4> QED BY <1>2, <3>3, <3>4
    <3> QED BY <3>5
  <2>5. \A k \in 1..(n - 1) : new[k] = path[k]
    BY DEF ArmPath
  <2> HIDE DEF path, n, new, l
  <2> QED BY <1>4, <2>1, <2>2, <2>3, <2>4, <2>5
<1>10. LoopScopes(q, sd, su)
  BY <1>9 DEF LoopScopes
<1> QED BY <1>6, <1>8, <1>10 DEF Lives

-----------------------------------------------------------------------------
(* What closing from MinClosingScope() on does: it leaves the scope s and  *)
(* those inside it, and none around them.                                  *)
LEMMA LeavesScope ==
    ASSUME IInv, stack # <<>>, NEW k \in 1..Len(PathOf(proc, scopes)),
           NEW s, s = PathOf(proc, scopes)[k]
    PROVE  /\ Leaves(scopes, LiveHere(proc, scopes), LiveAt(scopes, PathOf(proc, scopes), k - 1),
                     MinClosingScope(s))
           /\ NeedClose(scopes[s]) => MinClosingScope(s) = s
<1> DEFINE path == PathOf(proc, scopes)
           n == Len(path)
           closing == {i \in DOMAIN path : /\ \E j \in 1..i : path[j] = s
                                           /\ NeedClose(scopes[path[i]])}
           X == LiveHere(proc, scopes)
           Y == LiveAt(scopes, path, k - 1)
           c == MinClosingScope(s)
<1>0. k \in 1..n /\ s = path[k]
  OBVIOUS
<1>1. /\ Walking(proc, scopes, stack) /\ ScopesOK(scopes) /\ scopes \in Seq(ScopeType)
      /\ proc.current_scope \in 1..Len(scopes) /\ Len(scopes) \in Nat
      /\ Current.path = path /\ DOMAIN path = 1..n
  BY Here
<1>2. n \in Nat \ {0} /\ \A i \in 1..n : path[i] \in 1..Len(scopes)
  BY <1>1, WalkingTypes
<1>3. \A i, j \in 1..n :
         /\ i # j => path[i] # path[j]
         /\ i < j => \A q \in EscapedRegs(scopes[path[i]]),
                        r \in EscapedRegs(scopes[path[j]]) : q < r
  BY <1>1, PathOrder DEF PathOf
<1>4. c = IF closing = {} THEN NoScope ELSE path[Minimum(closing)]
  BY <1>1 DEF MinClosingScope, Current, PathOf
<1>5. closing = {i \in 1..n : i >= k /\ NeedClose(scopes[path[i]])}
  <2>1. \A i \in 1..n : (\E j \in 1..i : path[j] = s) <=> i >= k
    <3>1. \A i \in 1..n : \A j \in 1..i : j \in 1..n
      <4> HIDE DEF n
      <4> QED BY <1>2
    <3>2. \A i \in 1..n : \A j \in 1..i : path[j] = s => j = k
      <4> HIDE DEF path, n
      <4> QED BY <1>0, <1>3, <3>1
    <3>3. \A i \in 1..n : (i >= k <=> k \in 1..i)
      <4> HIDE DEF n
      <4> QED BY <1>2 DEF n, path
    <3> HIDE DEF n
    <3> QED BY <3>2, <3>3
  <2> QED BY <1>1, <2>1
<1>6. X = {path[j] : j \in {i \in 1..n : Live(scopes[path[i]])}}
  BY DEF LiveHere, LiveAt
<1>7. Y = {path[j] : j \in {i \in 1..(k - 1) : Live(scopes[path[i]])}}
  BY DEF LiveAt
<1>8. \A i \in 1..n : (i \in 1..(k - 1) <=> ~(i >= k)) /\ i \in Nat
  <2> HIDE DEF n
  <2> QED BY <1>2 DEF n, path
<1>9. \A i \in 1..(k - 1) : i \in 1..n
  <2> HIDE DEF n
  <2> QED BY <1>2 DEF n, path
<1> HIDE DEF closing, X, Y, c
<1>10. Y \subseteq X
  <2> HIDE DEF path, n
  <2> QED BY <1>6, <1>7, <1>9
<1>11. ASSUME NEW t \in X, t \notin Y
       PROVE  \E j \in closing : t = path[j]
  <2>1. PICK j \in 1..n : t = path[j] /\ Live(scopes[path[j]])
    BY <1>6, <1>11
  <2>2. j >= k
    BY <1>7, <1>8, <1>11, <2>1
  <2> HIDE DEF path, n
  <2> QED BY <1>5, <2>1, <2>2 DEF Live
<1>a. c = NoScope => closing = {}
  <2> SUFFICES ASSUME closing # {} PROVE c # NoScope
    OBVIOUS
  <2>1. closing \in SUBSET Nat
    BY <1>5, <1>8
  <2>2. Minimum(closing) \in 1..n
    BY <1>5, <2>1, MinimumLemma
  <2>3. path[Minimum(closing)] \in 1..Len(scopes)
    BY <1>2, <2>2
  <2> HIDE DEF path
  <2> QED BY <1>1, <1>4, <2>3 DEF NoScope
<1>12. c = NoScope => X = Y
  BY <1>10, <1>11, <1>a
<1>13. ASSUME c # NoScope
       PROVE  /\ NeedClose(scopes[c])
              /\ AllBelow(scopes, Y, Minimum(EscapedRegs(scopes[c])))
              /\ \A t \in X \ Y : AboveReg(scopes, t, Minimum(EscapedRegs(scopes[c])))
              /\ NeedClose(scopes[s]) => c = s
  <2> DEFINE m == Minimum(closing)
             r == Minimum(EscapedRegs(scopes[c]))
  <2>1. closing # {} /\ c = path[m] /\ closing \in SUBSET Nat
    BY <1>4, <1>5, <1>8, <1>13
  <2>2. m \in closing /\ \A j \in closing : m <= j
    BY <2>1, MinimumLemma
  <2>3. m \in 1..n /\ m >= k /\ NeedClose(scopes[c]) /\ c \in 1..Len(scopes)
    BY <1>2, <1>5, <2>1, <2>2
  <2>4. /\ r \in EscapedRegs(scopes[c]) /\ \A q \in EscapedRegs(scopes[c]) : r <= q
        /\ EscapedRegs(scopes[c]) \subseteq Nat
    <3>1. scopes[c] \in ScopeType
      BY <1>1, <2>3
    <3>2. EscapedRegs(scopes[c]) \in SUBSET Nat
      BY <3>1, EscapedRegsLemma
    <3> QED BY <3>2, <2>3, MinimumLemma DEF NeedClose
  <2>5. AllBelow(scopes, Y, r)
    <3> SUFFICES ASSUME NEW t \in Y PROVE BelowReg(scopes, t, r)
      BY DEF AllBelow
    <3>1. PICK j \in 1..(k - 1) : t = path[j]
      BY <1>7
    <3>2. j \in 1..n /\ j < m
      <4>1. j \in 1..n
        BY <1>9, <3>1
      <4>2. m \in Nat /\ j \in Nat /\ k \in Nat /\ ~(j >= k)
        <5>1. ~(j >= k) /\ j \in Nat
          BY <1>8, <4>1, <3>1
        <5>2. m \in Nat /\ k \in Nat
          BY <1>8, <2>3
        <5> QED BY <5>1, <5>2
      <4> HIDE DEF m
      <4> QED BY <2>3, <4>1, <4>2
    <3>3. \A q \in EscapedRegs(scopes[path[j]]), z \in EscapedRegs(scopes[path[m]]) : q < z
      BY <1>3, <2>3, <3>2
    <3> HIDE DEF r, m, path
    <3> QED BY <2>1, <2>4, <3>1, <3>3 DEF BelowReg
  <2>6. ASSUME NEW t \in X \ Y PROVE AboveReg(scopes, t, r)
    <3>1. PICK j \in closing : t = path[j]
      BY <1>11
    <3>2. j \in 1..n /\ j >= m /\ j \in Nat /\ m \in Nat /\ j \in 1..n
      BY <1>5, <1>8, <2>2, <2>3, <3>1
    <3>3. CASE j = m
      <4> HIDE DEF r, m, path
      <4> QED BY <2>1, <2>4, <3>1, <3>3 DEF AboveReg
    <3>4. CASE j # m
      <4>1. m < j
        <5> HIDE DEF m
        <5> QED BY <3>2, <3>4
      <4>2. \A z \in EscapedRegs(scopes[path[m]]), q \in EscapedRegs(scopes[path[j]]) : z < q
        BY <1>3, <2>3, <3>2, <4>1
      <4>3. \A q \in EscapedRegs(scopes[path[j]]) : q \in Nat
        <5>1. path[j] \in 1..Len(scopes)
          BY <1>2, <3>2
        <5>2. scopes[path[j]] \in ScopeType
          BY <1>1, <5>1
        <5> QED BY <5>2, EscapedRegsLemma
      <4> HIDE DEF r, m, path
      <4> QED BY <2>1, <2>4, <3>1, <4>2, <4>3 DEF AboveReg
    <3> QED BY <3>3, <3>4
  <2>7. NeedClose(scopes[s]) => c = s
    <3> SUFFICES ASSUME NeedClose(scopes[s]) PROVE c = s
      OBVIOUS
    <3>1. k \in closing
      <4>1. k >= k /\ k \in 1..n /\ s = path[k]
        BY <1>8
      <4> HIDE DEF path, n
      <4> QED BY <1>5, <4>1
    <3>2. m = k
      <4>1. m <= k /\ m >= k /\ m \in Nat /\ k \in Nat
        BY <1>8, <2>2, <2>3, <3>1
      <4> HIDE DEF m
      <4> QED BY <4>1
    <3> QED BY <2>1, <3>2
  <2> QED BY <2>3, <2>5, <2>6, <2>7
<1>14. NeedClose(scopes[s]) => c # NoScope
  <2> SUFFICES ASSUME NeedClose(scopes[s]) PROVE k \in closing
    BY <1>a
  <2>1. k >= k
    BY <1>0, <1>8
  <2> HIDE DEF path, n
  <2> QED BY <1>0, <1>5, <2>1
<1>15. Leaves(scopes, X, Y, c)
  BY <1>10, <1>12, <1>13 DEF Leaves
<1> QED BY <1>13, <1>14, <1>15 DEF X, Y, c

-----------------------------------------------------------------------------
Valid(E, W) == Annotated(proc, scopes, stack, E, W, LiveHere(proc, scopes))

LEMMA AnnotatedNow ==
    ASSUME AInv, stack # <<>>
    PROVE  \E E, W : Valid(E, W)
BY DEF AInv, Annotated, Valid

LEMMA HereFacts ==
    ASSUME IInv, stack # <<>>
    PROVE  /\ LiveHere(proc, scopes) \subseteq 1..Len(scopes)
           /\ Harmless(scopes, proc.current_scope, LiveHere(proc, scopes))
           /\ \A t \in LiveHere(proc, scopes) :
                 /\ NeedClose(scopes[t])
                 /\ \E k \in 1..Len(PathOf(proc, scopes)) : t = PathOf(proc, scopes)[k]
<1>1. /\ Walking(proc, scopes, stack) /\ proc.current_scope \in 1..Len(scopes)
  BY Here
<1>2. \A i \in 1..Len(PathOf(proc, scopes)) : PathOf(proc, scopes)[i] \in 1..Len(scopes)
  BY <1>1, WalkingTypes
<1>3. \A t \in LiveHere(proc, scopes) :
         /\ NeedClose(scopes[t])
         /\ \E k \in 1..Len(PathOf(proc, scopes)) : t = PathOf(proc, scopes)[k]
  BY DEF LiveHere, LiveAt, Live
<1> QED BY <1>1, <1>2, <1>3 DEF Harmless, PathOf

LEMMA SimpleAnnotated ==
    ASSUME IInv, CInv, stack # <<>>, UNCHANGED stack, SameContext(proc, proc'),
           SameScopes(scopes, scopes'), OthersStay(proc, scopes, scopes'),
           NEW E, NEW F, NEW W, NEW U, Lives(proc, scopes, stack, E), E[ENTRY_BLOCK] = {},
           SameEntries(proc, E, F), LabelLive(proc', scopes', F),
           Fits(proc', scopes', F, W, U, LiveHere(proc', scopes')),
           Promises(scopes', stack) \subseteq U
    PROVE  AInv'
<1>1. Lives(proc', scopes', stack, F)
  BY SimpleLives
<1>2. Fits(proc', scopes', F, W, Promises(scopes', stack), LiveHere(proc', scopes'))
  BY FewerFits
<1>3. F[ENTRY_BLOCK] = {}
  <2>1. ENTRY_BLOCK \in 1..Len(proc.nodes)
    BY Here DEF ENTRY_BLOCK
  <2> QED BY <2>1 DEF SameEntries
<1>4. Annotated(proc', scopes', stack', F, W, LiveHere(proc', scopes'))
  BY <1>1, <1>2, <1>3 DEF Annotated
<1> QED BY <1>4 DEF AInv

LEMMA ShapeStays ==
    ASSUME NEW sc \in Seq(ScopeType), NEW sd, SameScopes(sc, sd)
    PROVE  SameShape(sc, sd)
BY DEF SameScopes, SameShape

LEMMA NodesTyped ==
    ASSUME NEW p, ProcOK(p)
    PROVE  \A b \in 1..Len(p.nodes) : Len(p.nodes[b]) \in Nat
BY DEF ProcOK, ProcType

LEMMA SameLive ==
    ASSUME IInv, stack # <<>>, NEW q, NEW sd, SameContext(proc, q), SameScopes(scopes, sd),
           \A t \in 1..Len(scopes) : Live(sd[t]) <=> Live(scopes[t])
    PROVE  LiveHere(q, sd) = LiveHere(proc, scopes)
<1>1. /\ Walking(proc, scopes, stack) /\ proc.current_scope \in 1..Len(scopes)
  BY Here
<1>2. \A i \in 1..Len(PathOf(proc, scopes)) : PathOf(proc, scopes)[i] \in 1..Len(scopes)
  BY <1>1, WalkingTypes
<1>3. PathOf(q, sd) = PathOf(proc, scopes)
  BY <1>1 DEF SameContext, SameScopes, PathOf
<1> DEFINE path == PathOf(proc, scopes)
           n == Len(path)
<1>4. LiveAt(sd, path, n) = LiveAt(scopes, path, n)
  <2>1. \A i \in 1..n : path[i] = path[i] /\ (Live(sd[path[i]]) <=> Live(scopes[path[i]]))
    BY <1>2
  <2> HIDE DEF path, n
  <2> QED BY <2>1, LiveUnder
<1> QED BY <1>3, <1>4 DEF LiveHere

LEMMA CodeAnnotated ==
    ASSUME IInv, CInv, AInv, stack # <<>>, UNCHANGED stack, list # "ended",
           NEW insn \in InsnType, insn.op \notin Branches, proc' = Ops(proc, <<insn>>),
           SameScopes(scopes, scopes'), SameLabels(scopes, scopes'),
           OthersStay(proc, scopes, scopes'), LiveHere(proc', scopes') \subseteq 1..Len(scopes),
           \A E, W : InsnOK(scopes, E, W, insn, LiveHere(proc, scopes), LiveHere(proc', scopes'))
    PROVE  AInv'
<1> DEFINE U == Promises(scopes, stack)
           X == LiveHere(proc, scopes)
           Y == LiveHere(proc', scopes')
<1>1. PICK E, W : Valid(E, W)
  BY AnnotatedNow
<1>2. /\ Fits(proc, scopes, E, W, U, X) /\ E[ENTRY_BLOCK] = {}
      /\ Lives(proc, scopes, stack, E)
  BY <1>1 DEF Valid, Annotated
<1>3. Sound(proc, U) /\ Open(proc)
  BY DEF CInv, ListOK
<1>4. Len(scopes) \in Nat /\ scopes \in Seq(ScopeType) /\ ProcOK(proc)
  BY Here
<1>5. Fits(proc', scopes, E, W, U, Y)
  <2> HIDE DEF U, X, Y
  <2>1. InsnOK(scopes, E, W, insn, X, Y) /\ Y \subseteq 1..Len(scopes)
    BY DEF X, Y
  <2> QED BY <1>2, <1>3, <1>4, <2>1, OpFits
<1>6. SameContext(proc, proc') /\ ProcOK(proc')
  <2>1. <<insn>> \in Seq(InsnType)
    BY OneInsn
  <2> QED BY <1>4, <2>1, OpsLemma
<1>7. Fits(proc', scopes', E, W, U, Y)
  <2>1. SameShape(scopes, scopes') /\ \A b \in 1..Len(proc'.nodes) : Len(proc'.nodes[b]) \in Nat
    BY <1>4, <1>6, ShapeStays, NodesTyped
  <2> HIDE DEF U, Y
  <2> QED BY ONLY <1>5, <2>1, ShapeFits
<1>8. SameEntries(proc, E, E)
  BY DEF SameEntries
<1>9. LabelLive(proc', scopes', E)
  BY <1>2, <1>6, <1>8, LabelsLive
<1>10. Promises(scopes', stack) \subseteq U
  <2>1. OwedLabels(scopes') = OwedLabels(scopes)
    BY LabelsUnchanged
  <2> QED BY <2>1 DEF Promises
<1> HIDE DEF U
<1> QED BY <1>2, <1>6, <1>7, <1>8, <1>9, <1>10, SimpleAnnotated

(* The scopes after local statements declared those of the current one.    *)
LEMMA DeclaredScopes ==
    ASSUME IInv, stack # <<>>,
           scopes' = [scopes EXCEPT ![proc.current_scope] = [@ EXCEPT !.declared = TRUE]]
    PROVE  /\ SameScopes(scopes, scopes') /\ OthersStay(proc, scopes, scopes')
           /\ NeedClose(scopes'[proc.current_scope]) <=> NeedClose(scopes[proc.current_scope])
           /\ scopes'[proc.current_scope].declared
<1> DEFINE s == proc.current_scope
           new == [Current EXCEPT !.declared = TRUE]
<1>1. /\ scopes \in Seq(ScopeType) /\ s \in 1..Len(scopes) /\ Current = scopes[s]
      /\ Current \in ScopeType /\ ScopesOK(scopes)
  BY Here
<1>2. /\ new \in ScopeType /\ new.declared
      /\ new.path = Current.path /\ new.base = Current.base
      /\ new.locals = Current.locals /\ new.label = Current.label
  BY <1>1 DEF ScopeType
<1>3. scopes' = [scopes EXCEPT ![s] = new]
  BY <1>1
<1> HIDE DEF new, s
<1> DEFINE sd == [scopes EXCEPT ![s] = new]
<1>4. SameScopes(scopes, sd) /\ sd[s] = new /\ \A t \in 1..Len(scopes) : t # s => sd[t] = scopes[t]
  <2>1. /\ s \in 1..Len(scopes) /\ ScopesOK(scopes) /\ new \in ScopeType
        /\ new.path = scopes[s].path /\ new.base = scopes[s].base
        /\ new.locals = scopes[s].locals /\ new.label = scopes[s].label
    BY <1>1, <1>2
  <2> QED BY ONLY <2>1, ScopeUpdate
<1>5. scopes' = sd
  BY <1>3
<1> HIDE DEF sd
<1>6. \A t \in 1..Len(scopes) : NeedClose(scopes'[t]) <=> NeedClose(scopes[t])
  BY <1>4, <1>5 DEF SameScopes, NeedClose, EscapedRegs
<1>7. OthersStay(proc, scopes, scopes')
  BY <1>4, <1>5 DEF OthersStay, s
<1> QED BY <1>1, <1>2, <1>4, <1>5, <1>6, <1>7 DEF s

LEMMA LocalStatementAnnotated ==
    ASSUME IInv, CInv, AInv, stack # <<>>, LinearizeLocalStatement
    PROVE  AInv'
<1> DEFINE s == proc.current_scope
           path == PathOf(proc, scopes)
           n == Len(path)
           insn == Insn("init", <<>>, Current.base, s)
           X == LiveHere(proc, scopes)
           Y == LiveHere(proc', scopes')
<1>1. /\ list # "ended" /\ UNCHANGED stack /\ proc' = Ops(proc, <<insn>>) /\ ~Current.declared
      /\ scopes' = [scopes EXCEPT ![s] = [@ EXCEPT !.declared = TRUE]]
  BY DEF LinearizeLocalStatement
<1>2. /\ SameScopes(scopes, scopes') /\ OthersStay(proc, scopes, scopes')
      /\ NeedClose(scopes'[s]) <=> NeedClose(scopes[s])
      /\ scopes'[s].declared /\ SameLabels(scopes, scopes')
  BY <1>1, DeclaredScopes, Declared
<1>3. /\ Walking(proc, scopes, stack) /\ ScopesOK(scopes) /\ scopes \in Seq(ScopeType)
      /\ s \in 1..Len(scopes) /\ Len(scopes) \in Nat /\ Current = scopes[s] /\ ProcOK(proc)
  BY Here
<1>4. /\ n \in Nat \ {0} /\ path[n] = s /\ \A i \in 1..n : path[i] \in 1..Len(scopes)
  BY <1>3, WalkingTypes
<1>5. insn \in InsnType /\ insn.op \notin Branches
  <2>1. Current.base \in Int /\ s \in Nat /\ "init" \in Opcodes \ Branches
    BY <1>3, Here, ScopeFields DEF Opcodes, Branches
  <2> QED BY <2>1, PlainInsn
<1>6. SameContext(proc, proc')
  <2>1. <<insn>> \in Seq(InsnType)
    <3> HIDE DEF insn
    <3> QED BY <1>5, OneInsn
  <2> HIDE DEF insn
  <2> QED BY <1>1, <1>3, <2>1, OpsLemma
<1>7. /\ PathOf(proc', scopes') = path
      /\ \A k \in Nat : k < n =>
            LiveAt(scopes', PathOf(proc', scopes'), k) = LiveAt(scopes, path, k)
  BY <1>2, <1>6, SimpleUnder
<1> DEFINE m == n - 1
<1>8. m \in Nat /\ m < n /\ m + 1 = n
  <2> HIDE DEF n
  <2> QED BY <1>4
<1>9. X = LiveAt(scopes, path, m)
  <2>1. ~Live(scopes[path[n]])
    BY <1>1, <1>3, <1>4 DEF Live
  <2>2. LiveAt(scopes, path, n) = LiveAt(scopes, path, n - 1)
    <3> HIDE DEF n, path
    <3> QED BY <1>4, <2>1, NotLive
  <2> QED BY <2>2 DEF LiveHere
<1>10. Y = X \cup (IF NeedClose(scopes[s]) THEN {s} ELSE {})
  <2>1. Y = LiveAt(scopes', path, m + 1)
    BY <1>7, <1>8 DEF LiveHere
  <2>2. LiveAt(scopes', path, m + 1) =
           LiveAt(scopes', path, m) \cup
               (IF Live(scopes'[path[m + 1]]) THEN {path[m + 1]} ELSE {})
    <3> HIDE DEF path, m
    <3> QED BY <1>8, LiveStep
  <2>3. LiveAt(scopes', path, m) = X
    BY <1>7, <1>8, <1>9
  <2>4. path[m + 1] = s /\ (Live(scopes'[s]) <=> NeedClose(scopes[s]))
    BY <1>2, <1>4, <1>8 DEF Live
  <2> HIDE DEF X, Y, path, m, s
  <2> QED BY <2>1, <2>2, <2>3, <2>4
<1>11. X \subseteq 1..Len(scopes)
  BY HereFacts
<1>12. \A t \in X : BelowReg(scopes, t, Current.base)
  <2> SUFFICES ASSUME NEW t \in X PROVE BelowReg(scopes, t, Current.base)
    OBVIOUS
  <2>1. PICK j \in 1..m : t = path[j]
    BY <1>9 DEF LiveAt
  <2>2. j \in 1..n /\ n \in 1..n /\ j < n
    <3> HIDE DEF n
    <3> QED BY <1>4 DEF m
  <2>3. BelowReg(scopes, path[j], scopes[path[n]].base)
    BY <1>3, <2>2, PathOrder DEF PathOf
  <2> QED BY <1>3, <1>4, <2>1, <2>3
<1>13. ASSUME NEW E, NEW W PROVE InsnOK(scopes, E, W, insn, X, Y)
  <2>1. InitOK(scopes, insn, X, Y)
    <3>1. insn.reg = Current.base /\ insn.scope = s
      BY DEF Insn
    <3> HIDE DEF insn, X, Y, s
    <3> QED BY <1>10, <1>12, <3>1 DEF InitOK
  <2>2. insn.op = "init"
    BY DEF Insn
  <2> HIDE DEF insn, X, Y
  <2> QED BY <2>1, <2>2 DEF InsnOK
<1>14. Y \subseteq 1..Len(scopes)
  <2> HIDE DEF X, Y
  <2> QED BY <1>3, <1>10, <1>11
<1> HIDE DEF insn
<1> QED BY <1>1, <1>2, <1>5, <1>13, <1>14, CodeAnnotated

(* A statement that leaves the scopes alone. *)
LEMMA SameAnnotated ==
    ASSUME IInv, CInv, AInv, stack # <<>>, UNCHANGED <<scopes, stack>>, list # "ended",
           NEW insn \in InsnType, insn.op \notin Branches, proc' = Ops(proc, <<insn>>),
           \A E, W : InsnOK(scopes, E, W, insn, LiveHere(proc, scopes), LiveHere(proc, scopes))
    PROVE  AInv'
<1>1. SameScopes(scopes, scopes') /\ SameLabels(scopes, scopes')
      /\ OthersStay(proc, scopes, scopes')
  BY ScopesStay, LabelsSame DEF OthersStay
<1>2. SameContext(proc, proc')
  BY OneInsn, Here, OpsLemma
<1>3. LiveHere(proc', scopes') = LiveHere(proc, scopes)
  BY <1>1, <1>2, SameLive
<1>4. LiveHere(proc', scopes') \subseteq 1..Len(scopes)
  BY <1>3, HereFacts
<1>5. \A E, W : InsnOK(scopes, E, W, insn, LiveHere(proc, scopes), LiveHere(proc', scopes'))
  BY <1>3
<1> QED BY <1>1, <1>4, <1>5, CodeAnnotated

LEMMA VisibleLive ==
    ASSUME IInv, stack # <<>>, NEW v \in Visible
    PROVE  /\ v[1] \in LiveHere(proc, scopes) /\ v[2] \in EscapedRegs(scopes[v[1]])
           /\ v[1] \in Nat /\ v[2] \in Nat
<1> DEFINE path == PathOf(proc, scopes)
<1>1. Current.path = path /\ DOMAIN Current.path = 1..Len(path) /\ scopes \in Seq(ScopeType)
  BY Here
<1>2. PICK s \in DOMAIN scopes, i \in DOMAIN Current.path :
         scopes[s].declared /\ Current.path[i] = s /\ v \in {s} \X EscapedRegs(scopes[s])
  BY DEF Visible
<1>3. v[1] = s /\ v[2] \in EscapedRegs(scopes[s])
  BY <1>2
<1>4. Live(scopes[s]) /\ i \in 1..Len(path) /\ s = path[i]
  BY <1>1, <1>2, <1>3 DEF Live, NeedClose
<1>5. s \in LiveAt(scopes, path, Len(path))
  <2> HIDE DEF path
  <2> QED BY <1>4 DEF LiveAt
<1> QED BY <1>3, <1>5, VisibleTypes DEF LiveHere

LEMMA UseInsn ==
    ASSUME IInv, stack # <<>>, NEW v \in Visible, NEW op \in {"use", "closure"}, NEW E, NEW W
    PROVE  LET insn == Insn(op, <<>>, v[2], v[1])
           IN  InsnOK(scopes, E, W, insn, LiveHere(proc, scopes), LiveHere(proc, scopes))
<1> DEFINE insn == Insn(op, <<>>, v[2], v[1])
<1>1. insn.op = op /\ insn.reg = v[2] /\ insn.scope = v[1]
  BY DEF Insn
<1> HIDE DEF insn
<1>2. UseOK(scopes, insn, LiveHere(proc, scopes), LiveHere(proc, scopes))
  BY <1>1, VisibleLive DEF UseOK
<1>3. InsnOK(scopes, E, W, insn, LiveHere(proc, scopes), LiveHere(proc, scopes))
  BY <1>1, <1>2 DEF InsnOK
<1> QED BY <1>3 DEF insn

LEMMA FunctionExprAnnotated ==
    ASSUME IInv, CInv, AInv, stack # <<>>, NEW v \in Visible, LinearizeFunctionExpr(v)
    PROVE  AInv'
<1> DEFINE insn == Insn("closure", <<>>, v[2], v[1])
<1>1. /\ list # "ended" /\ UNCHANGED <<scopes, stack>> /\ proc' = Ops(proc, <<insn>>)
  BY DEF LinearizeFunctionExpr, Met
<1>2. insn \in InsnType /\ insn.op \notin Branches
  BY VisibleTypes, PlainInsn DEF Opcodes, Branches
<1>3. \A E, W : InsnOK(scopes, E, W, insn, LiveHere(proc, scopes), LiveHere(proc, scopes))
  BY UseInsn
<1> HIDE DEF insn
<1> QED BY <1>1, <1>2, <1>3, SameAnnotated

LEMMA ExpressionStatementAnnotated ==
    ASSUME IInv, CInv, AInv, stack # <<>>, LinearizeExpressionStatement
    PROVE  AInv'
<1> DEFINE X == LiveHere(proc, scopes)
<1>1. PICK insn \in {Insn("op", <<>>, -1, proc.current_scope)} \cup
                    {Insn("use", <<>>, v[2], v[1]) : v \in Visible} :
         proc' = Ops(proc, << insn >>)
  BY DEF LinearizeExpressionStatement
<1>2. insn \in InsnType /\ insn.op \notin Branches
      /\ \A E, W : InsnOK(scopes, E, W, insn, X, X)
  <2>1. CASE insn = Insn("op", <<>>, -1, proc.current_scope)
    <3>1. proc.current_scope \in Nat /\ Harmless(scopes, proc.current_scope, X)
      BY Here, HereFacts
    <3> HIDE DEF X
    <3> QED BY <2>1, <3>1, HarmlessInsn
  <2>2. CASE \E v \in Visible : insn = Insn("use", <<>>, v[2], v[1])
    BY <2>2, VisibleTypes, PlainInsn, UseInsn DEF Opcodes, Branches
  <2> QED BY <1>1, <2>1, <2>2
<1>3. list # "ended" /\ UNCHANGED <<scopes, stack>>
  BY DEF LinearizeExpressionStatement, CanMeet, Met
<1> QED BY <1>1, <1>2, <1>3, SameAnnotated

LEMMA RetFits ==
    ASSUME NEW p, NEW U, Sound(p, U), Open(p), NEW s \in Nat, NEW sc, Len(sc) \in Nat,
           NEW E, NEW W, NEW X, Fits(p, sc, E, W, U, X), NEW Y
    PROVE  Fits(AddInstruction(p, Insn("ret", <<EXIT_BLOCK>>, -1, s)), sc, E, W, U, Y)
<1> DEFINE insn == Insn("ret", <<EXIT_BLOCK>>, -1, s)
           targets == <<EXIT_BLOCK>>
<1>1. targets \in Seq(Nat \ {0}) /\ Len(targets) = 1 /\ targets[1] = 2
  BY DEF EXIT_BLOCK
<1>2. insn.op = "ret" /\ insn.targets = targets
  BY DEF Insn
<1>3. insn \in InsnType
  <2> HIDE DEF targets
  <2> QED BY <1>1 DEF Insn, InsnType, Opcodes, targets
<1>4. Len(p.nodes) \in Nat /\ Len(p.nodes) >= 2
  BY SoundTypes
<1>5. BranchOK(Len(p.nodes), insn)
  <2>1. 1 \in 1..Len(targets) /\ \A k \in 1..Len(targets) : k = 1
    BY <1>1
  <2>2. 2 \in 1..Len(p.nodes)
    BY <1>4
  <2> HIDE DEF insn, targets
  <2> QED BY <1>1, <1>2, <2>1, <2>2 DEF BranchOK, EXIT_BLOCK
<1>6. insn.op \in Branches
  BY <1>2 DEF Branches
<1> HIDE DEF insn, targets
<1>7. Fits(AddInstruction(p, insn), sc, E, W, U, Y)
  BY <1>2, <1>3, <1>5, <1>6, JumpFits
<1> QED BY <1>7 DEF insn

LEMMA ReturnAnnotated ==
    ASSUME IInv, CInv, AInv, stack # <<>>, LinearizeReturn
    PROVE  AInv'
<1> DEFINE U == Promises(scopes, stack)
           X == LiveHere(proc, scopes)
           insn == Insn("ret", <<EXIT_BLOCK>>, -1, proc.current_scope)
<1>1. PICK E, W : Valid(E, W)
  BY AnnotatedNow
<1>2. /\ Fits(proc, scopes, E, W, U, X) /\ E[ENTRY_BLOCK] = {}
      /\ Lives(proc, scopes, stack, E)
  BY <1>1 DEF Valid, Annotated
<1>3. /\ proc' = Ops(proc, <<insn>>) /\ UNCHANGED <<scopes, stack>> /\ list # "ended"
  BY DEF LinearizeReturn, CanMeet
<1>4. Sound(proc, U) /\ Open(proc)
  BY <1>3 DEF CInv, ListOK
<1>5. /\ Len(scopes) \in Nat /\ scopes \in Seq(ScopeType) /\ ProcOK(proc)
      /\ proc.current_scope \in Nat
  BY Here
<1>6. proc' = AddInstruction(proc, insn)
  BY <1>3 DEF Ops, AddInstruction
<1>7. Fits(proc', scopes, E, W, U, X)
  <2> HIDE DEF U, X
  <2> QED BY <1>2, <1>4, <1>5, <1>6, RetFits
<1>8. SameContext(proc, proc')
  <2>1. insn \in InsnType
    <3> DEFINE targets == <<EXIT_BLOCK>>
    <3>1. targets \in Seq(Nat \ {0})
      BY DEF EXIT_BLOCK
    <3> HIDE DEF targets
    <3>2. Insn("ret", targets, -1, proc.current_scope) \in InsnType
      BY <1>5, <3>1 DEF Insn, InsnType, Opcodes
    <3> QED BY <3>2 DEF targets
  <2> HIDE DEF insn
  <2> QED BY <1>5, <1>6, <2>1, AddInstructionLemma
<1>9. SameScopes(scopes, scopes') /\ SameLabels(scopes, scopes')
      /\ OthersStay(proc, scopes, scopes')
  BY <1>3, ScopesStay, LabelsSame DEF OthersStay
<1>10. LiveHere(proc', scopes') = X
  BY <1>8, <1>9, <1>3, SameLive
<1>11. SameEntries(proc, E, E)
  BY DEF SameEntries
<1>12. LabelLive(proc', scopes', E)
  BY <1>2, <1>8, <1>9, <1>11, LabelsLive
<1>13. Fits(proc', scopes', E, W, U, LiveHere(proc', scopes'))
       /\ Promises(scopes', stack) \subseteq U
  BY <1>3, <1>7, <1>10
<1> HIDE DEF U
<1> QED BY <1>2, <1>3, <1>8, <1>9, <1>11, <1>12, <1>13, SimpleAnnotated

LEMMA HandleErrorAnnotated ==
    ASSUME AInv, HandleError
    PROVE  AInv'
BY DEF AInv, Annotated, HandleError

(* A function whose jumps close what they leave, and in which no condition *)
(* of a repeat refers to a local of its body.                              *)
Scoped == Structured /\ Grammar \cap {"goto_forward_close", "repeat_uses_locals"} = {}

-----------------------------------------------------------------------------
(* Labels and jumps to them. *)
LabelSet(sd, s, b, placed) ==
    /\ SameScopes(scopes, sd)
    /\ sd[s].declared = scopes[s].declared
    /\ sd[s].label_block = b /\ sd[s].placed = placed
    /\ \A t \in 1..Len(scopes) : t # s => sd[t] = scopes[t]

LEMMA LabelSetLive ==
    ASSUME NEW sd, NEW s \in 1..Len(scopes), NEW b, NEW placed, LabelSet(sd, s, b, placed)
    PROVE  \A t \in 1..Len(scopes) : /\ Live(sd[t]) <=> Live(scopes[t])
                                     /\ NeedClose(sd[t]) <=> NeedClose(scopes[t])
<1>1. \A t \in 1..Len(scopes) : sd[t].declared = scopes[t].declared
  BY DEF LabelSet
<1>2. \A t \in 1..Len(scopes) : NeedClose(sd[t]) <=> NeedClose(scopes[t])
  BY DEF LabelSet, SameScopes, NeedClose, EscapedRegs
<1> QED BY <1>1, <1>2 DEF Live

LEMMA LabelAdded ==
    ASSUME IInv, CInv, stack # <<>>, NEW q, NEW sd, SameContext(proc, q),
           NEW i \in 1..Len(PathOf(proc, scopes)), NEW s, s = PathOf(proc, scopes)[i],
           NEW b, b # NoBlock, NEW placed, LabelSet(sd, s, b, placed),
           NEW E, NEW F, Lives(proc, scopes, stack, E), SameEntries(proc, E, F),
           NeedClose(scopes[s]) \/ F[b] = LiveAt(scopes, PathOf(proc, scopes), i),
           placed \/ ~NeedClose(scopes[s])
    PROVE  /\ LabelLive(q, sd, F) /\ OthersStay(proc, scopes, sd)
           /\ LiveHere(q, sd) = LiveHere(proc, scopes)
<1> DEFINE path == PathOf(proc, scopes)
           n == Len(path)
<1>1. /\ Walking(proc, scopes, stack) /\ proc.current_scope \in 1..Len(scopes)
      /\ ScopesOK(scopes)
  BY Here
<1>2. /\ n \in Nat \ {0} /\ \A k \in 1..n : path[k] \in 1..Len(scopes)
  BY <1>1, WalkingTypes
<1>3. \A k, l \in 1..n : k # l => path[k] # path[l]
  BY <1>1, PathOrder DEF PathOf
<1>4. s \in 1..Len(scopes) /\ SameScopes(scopes, sd)
  BY <1>2 DEF LabelSet
<1>5. \A t \in 1..Len(scopes) : /\ Live(sd[t]) <=> Live(scopes[t])
                                /\ NeedClose(sd[t]) <=> NeedClose(scopes[t])
  BY <1>4, LabelSetLive
<1>6. OthersStay(proc, scopes, sd)
  BY <1>5 DEF OthersStay
<1>7. LiveHere(q, sd) = LiveHere(proc, scopes)
  BY <1>4, <1>5, SameLive
<1>8. PathOf(q, sd) = path
  BY <1>4, <1>6, SimpleUnder
<1>9. \A k \in 1..n : LiveAt(sd, path, k) = LiveAt(scopes, path, k)
  <2> SUFFICES ASSUME NEW k \in 1..n PROVE LiveAt(sd, path, k) = LiveAt(scopes, path, k)
    OBVIOUS
  <2>1. \A j \in 1..k : j \in 1..n
    <3> HIDE DEF n
    <3> QED BY <1>2
  <2>2. \A j \in 1..k : path[j] = path[j] /\ (Live(sd[path[j]]) <=> Live(scopes[path[j]]))
    BY <1>2, <1>5, <2>1
  <2> HIDE DEF path, n
  <2> QED BY <2>2, LiveUnder
<1>10. ASSUME NEW k \in 1..n, NEW t, t = path[k]
       PROVE  /\ sd[t].label_block # NoBlock /\ ~NeedClose(sd[t]) =>
                    F[sd[t].label_block] = LiveAt(sd, path, k)
              /\ Owed(sd, t) => ~NeedClose(sd[t])
  <2>1. t \in 1..Len(scopes)
    BY <1>2, <1>10
  <2>2. CASE k = i
    <3>1. t = s /\ sd[s].label_block = b /\ sd[s].placed = placed
      BY <1>10, <2>2 DEF LabelSet
    <3> HIDE DEF path, n
    <3> QED BY <1>5, <1>9, <2>1, <2>2, <3>1 DEF Owed, path
  <2>3. CASE k # i
    <3>1. t # s /\ sd[t] = scopes[t]
      BY <1>3, <1>10, <2>1, <2>3 DEF LabelSet
    <3>2. /\ scopes[t].label_block # NoBlock /\ ~NeedClose(scopes[t]) =>
                E[scopes[t].label_block] = LiveAt(scopes, path, k)
          /\ Owed(scopes, t) => ~NeedClose(scopes[t])
      BY <1>10 DEF Lives, LabelLive
    <3>3. scopes[t].label_block \in 0..Len(proc.nodes)
      BY <1>1, <2>1 DEF Walking, LabelsOK, LabelOK
    <3>4. scopes[t].label_block # NoBlock => F[scopes[t].label_block] = E[scopes[t].label_block]
      BY <3>3 DEF SameEntries, NoBlock
    <3> HIDE DEF path, n
    <3> QED BY <1>9, <1>10, <3>1, <3>2, <3>4 DEF Owed
  <2> QED BY <2>2, <2>3
<1>11. LabelLive(q, sd, F)
  BY <1>8, <1>10 DEF LabelLive
<1> QED BY <1>6, <1>7, <1>11

LEMMA EmptyHere ==
    ASSUME NEW p, Open(p), p.nodes[p.current_bb] = <<>>, NEW U, Sound(p, U),
           NEW sc, NEW E, NEW W, NEW X, Fits(p, sc, E, W, U, X)
    PROVE  E[p.current_bb] = X
<1>1. PICK A : Flow(p, sc, E, W, U, A) /\ EndOf(p, A, p.current_bb) = X
  BY DEF Fits, EndsWith
<1>2. p.current_bb \in 1..Len(p.nodes)
  BY SoundTypes
<1>3. Len(p.nodes[p.current_bb]) + 1 = 1
  OBVIOUS
<1> QED BY <1>1, <1>2, <1>3 DEF Flow, EndOf

LEMMA LabelStatementAnnotated ==
    ASSUME IInv, CInv, AInv, stack # <<>>, LinearizeLabelStatement
    PROVE  AInv'
<1> DEFINE s == proc.current_scope
           n == Len(proc.nodes)
           b == IF Current.label_block # NoBlock THEN Current.label_block
                ELSE IF proc.nodes[proc.current_bb] = <<>> THEN proc.current_bb
                ELSE NewBlock(proc)
           q == IF b = NewBlock(proc) THEN CreateBlocks(proc, 1) ELSE proc
           new == [Current EXCEPT !.label_block = b, !.placed = TRUE]
           U == Promises(scopes, stack)
           X == LiveHere(proc, scopes)
<1>1. /\ Current.label /\ ~Current.placed /\ list # "ended"
      /\ proc' = IF b = proc.current_bb THEN proc ELSE StartBlock(q, b)
      /\ scopes' = [scopes EXCEPT ![s] = new]
      /\ UNCHANGED stack
  BY DEF LinearizeLabelStatement, Current
<1>2. /\ n \in Nat /\ s \in 1..Len(scopes) /\ Current \in ScopeType
      /\ Current = scopes[s] /\ proc.current_bb \in 1..n /\ ScopesOK(scopes)
      /\ scopes \in Seq(ScopeType) /\ Len(scopes) \in Nat /\ ProcOK(proc)
      /\ Walking(proc, scopes, stack)
  BY Here DEF ProcOK
<1>3. Current.label_block \in 0..n
  BY <1>2, Here DEF Walking, LabelsOK, LabelOK
<1>4. Sound(proc, U) /\ Open(proc) /\ LabelsApart(scopes, stack)
  BY <1>1 DEF CInv, ListOK
<1>5. /\ b \in Nat /\ b # NoBlock /\ NewBlock(proc) = n + 1
      /\ \/ Current.label_block # NoBlock /\ Owed(scopes, s) /\ b = scopes[s].label_block
         \/ b = proc.current_bb /\ proc.nodes[proc.current_bb] = <<>>
         \/ b = n + 1
  <2>1. CASE Current.label_block # NoBlock
    <3>1. b = Current.label_block
      BY <2>1
    <3> HIDE DEF b, n
    <3> QED BY <1>1, <1>2, <1>3, <2>1, <3>1 DEF NewBlock, Owed, n
  <2>2. CASE Current.label_block = NoBlock /\ proc.nodes[proc.current_bb] = <<>>
    <3>1. b = proc.current_bb
      BY <2>2
    <3> HIDE DEF b, n
    <3> QED BY <1>2, <2>2, <3>1 DEF NewBlock, NoBlock, n
  <2>3. CASE Current.label_block = NoBlock /\ proc.nodes[proc.current_bb] # <<>>
    <3>1. b = NewBlock(proc)
      BY <2>3
    <3> HIDE DEF b, n
    <3> QED BY <1>2, <3>1 DEF NewBlock, NoBlock, n
  <2> QED BY <2>1, <2>2, <2>3
<1>6. /\ new \in ScopeType /\ new.path = Current.path /\ new.base = Current.base
      /\ new.locals = Current.locals /\ new.label = Current.label
      /\ new.label_block = b /\ new.placed /\ new.declared = Current.declared
  <2> HIDE DEF b
  <2> QED BY <1>2, <1>5 DEF ScopeType
<1> HIDE DEF b, new, U
<1>7. /\ SameScopes(scopes, scopes')
      /\ scopes'[s] = new /\ \A t \in 1..Len(scopes) : t # s => scopes'[t] = scopes[t]
  <2> DEFINE sd == [scopes EXCEPT ![s] = new]
  <2>1. /\ SameScopes(scopes, sd) /\ sd[s] = new
        /\ \A t \in 1..Len(scopes) : t # s => sd[t] = scopes[t]
    BY <1>2, <1>6, ScopeUpdate
  <2>2. scopes' = sd
    BY <1>1
  <2> HIDE DEF sd
  <2> QED BY <2>1, <2>2
<1>8. LabelSet(scopes', s, b, TRUE)
  BY <1>2, <1>6, <1>7 DEF LabelSet
<1>9. Promises(scopes', stack) \subseteq U \ {b}
  <2> HIDE DEF s
  <2>1. \/ Owed(scopes, s) /\ b = scopes[s].label_block
        \/ b \notin Promises(scopes, stack)
    BY <1>2, <1>4, <1>5 DEF U, Sound
  <2>2. scopes'[s].placed
    BY <1>6, <1>7
  <2>3. scopes' \in Seq(ScopeType) /\ Len(scopes') = Len(scopes)
    BY <1>7 DEF SameScopes
  <2> QED BY <1>2, <1>4, <1>7, <2>1, <2>2, <2>3, LabelMet DEF U
<1>10. PICK E, W : Valid(E, W)
  BY AnnotatedNow
<1>11. /\ Fits(proc, scopes, E, W, U, X) /\ E[ENTRY_BLOCK] = {}
       /\ Lives(proc, scopes, stack, E) /\ X \subseteq 1..Len(scopes)
  BY <1>10, HereFacts DEF Valid, Annotated, U
<1> DEFINE path == PathOf(proc, scopes)
           k == Len(path)
<1>12. k \in 1..k /\ s = path[k] /\ X = LiveAt(scopes, path, k)
  BY <1>2, WalkingTypes DEF LiveHere
<1>13. /\ Owed(scopes, s) => ~NeedClose(scopes[s]) /\ E[scopes[s].label_block] = X
  BY <1>11, <1>12 DEF Lives, LabelLive, Owed
<1> HIDE DEF k, path, X
<1>14. \E F : /\ SameEntries(proc, E, F) /\ F[b] = X
              /\ Fits(proc', scopes, F, W, U \ {b}, X)
              /\ SameContext(proc, proc') /\ ProcOK(proc')
  <2>1. CASE b = proc.current_bb
    <3>1. proc' = proc
      BY <1>1, <2>1
    <3>2. E[b] = X
      <4>1. CASE proc.nodes[proc.current_bb] = <<>>
        BY <1>4, <1>11, <2>1, <4>1, EmptyHere
      <4>2. CASE b = scopes[s].label_block /\ Owed(scopes, s)
        BY <1>13, <4>2
      <4> QED BY <1>2, <1>5, <2>1, <4>1, <4>2
    <3>3. SameEntries(proc, E, E)
      BY DEF SameEntries
    <3>4. Fits(proc', scopes, E, W, U \ {b}, X)
      <4> DEFINE V == U \ {b}
      <4>1. V \subseteq U
        OBVIOUS
      <4> HIDE DEF V
      <4>2. Fits(proc, scopes, E, W, V, X)
        BY <1>11, <4>1, FewerFits
      <4> QED BY <3>1, <4>2 DEF V
    <3>5. SameContext(proc, proc') /\ ProcOK(proc')
      BY <1>2, <3>1 DEF SameContext, SameBreak
    <3> QED BY <3>2, <3>3, <3>4, <3>5
  <2>2. CASE b # proc.current_bb /\ b = n + 1
    <3>1. proc' = StartBlock(CreateBlocks(proc, 1), NewBlock(proc))
      BY <1>1, <1>5, <2>2
    <3> DEFINE F == Extend(E, Len(proc.nodes), X)
    <3>2. SameEntries(proc, E, F) /\ F[b] = X
      <4>1. /\ SameEntries(proc, E, F)
            /\ \A c \in Nat : c > Len(proc.nodes) => F[c] = X
        BY <1>2, ExtendSame
      <4>2. b \in Nat /\ b > Len(proc.nodes)
        BY <1>2, <2>2
      <4> HIDE DEF F
      <4> QED BY <4>1, <4>2
    <3>3. Fits(proc', scopes, F, W, U, X)
      BY <1>2, <1>4, <1>11, <3>1, NextFits
    <3> HIDE DEF F
    <3>4. Fits(proc', scopes, F, W, U \ {b}, X)
      <4> DEFINE V == U \ {b}
      <4>1. V \subseteq U
        OBVIOUS
      <4> HIDE DEF V
      <4>2. Fits(proc', scopes, F, W, V, X)
        BY <3>3, <4>1, FewerFits
      <4> QED BY <4>2 DEF V
    <3>5. SameContext(proc, proc') /\ ProcOK(proc')
      <4> DEFINE r == CreateBlocks(proc, 1)
      <4>1. ProcOK(r) /\ SameContext(proc, r) /\ Len(r.nodes) = n + 1
        BY <1>2, CreateBlocksLemma
      <4>2. proc' = StartBlock(r, b) /\ b \in 1..Len(r.nodes)
        BY <1>2, <1>5, <2>2, <3>1, <4>1
      <4> HIDE DEF r
      <4>3. ProcOK(proc') /\ SameContext(r, proc')
        BY <4>1, <4>2, StartBlockLemma
      <4> QED BY <4>1, <4>3 DEF SameContext, SameBreak
    <3> QED BY <3>2, <3>4, <3>5
  <2>3. CASE b # proc.current_bb /\ b # n + 1
    <3>1. b \in U /\ E[b] = X
      BY <1>2, <1>5, <1>13, <2>3, OwedPromised DEF U
    <3>2. proc' = StartBlock(proc, b)
      BY <1>1, <1>5, <2>3
    <3>3. EdgeOK(scopes, E, W, b, X)
      BY <3>1, SameEdge
    <3>4. Fits(proc', scopes, E, W, U \ {b}, E[b])
      BY <1>2, <1>4, <1>11, <3>1, <3>2, <3>3, StartFits
    <3>5. b \in 1..Len(proc.nodes)
      BY <1>4, <3>1 DEF Sound
    <3>6. SameContext(proc, proc') /\ ProcOK(proc')
      BY <1>2, <3>2, <3>5, StartBlockLemma
    <3>7. SameEntries(proc, E, E)
      BY DEF SameEntries
    <3> QED BY <3>1, <3>4, <3>6, <3>7
  <2> QED BY <2>1, <2>2, <2>3
<1>15. PICK F : /\ SameEntries(proc, E, F) /\ F[b] = X
                /\ Fits(proc', scopes, F, W, U \ {b}, X)
                /\ SameContext(proc, proc') /\ ProcOK(proc')
  BY <1>14
<1>16. /\ LabelLive(proc', scopes', F) /\ OthersStay(proc, scopes, scopes')
       /\ LiveHere(proc', scopes') = LiveHere(proc, scopes)
  <2>1. k \in 1..Len(PathOf(proc, scopes)) /\ s = PathOf(proc, scopes)[k]
        /\ F[b] = LiveAt(scopes, PathOf(proc, scopes), k)
    BY <1>12, <1>15 DEF k, path
  <2> HIDE DEF s
  <2> QED BY <1>5, <1>8, <1>11, <1>15, <2>1, LabelAdded
<1>17. Fits(proc', scopes', F, W, U \ {b}, LiveHere(proc', scopes'))
  <2>1. SameShape(scopes, scopes') /\ \A c \in 1..Len(proc'.nodes) : Len(proc'.nodes[c]) \in Nat
    BY <1>2, <1>7, <1>15, ShapeStays, NodesTyped
  <2>2. LiveHere(proc', scopes') = X
    BY <1>16 DEF X
  <2> DEFINE V == U \ {b}
  <2>3. Fits(proc', scopes, F, W, V, X)
    BY <1>15
  <2> HIDE DEF V
  <2>4. Fits(proc', scopes', F, W, V, X)
    BY ONLY <2>1, <2>3, ShapeFits
  <2> QED BY <2>2, <2>4 DEF V
<1> DEFINE V == U \ {b}
<1>18. Fits(proc', scopes', F, W, V, LiveHere(proc', scopes'))
       /\ Promises(scopes', stack) \subseteq V
  BY <1>9, <1>17
<1> HIDE DEF V
<1> QED BY <1>1, <1>7, <1>11, <1>15, <1>16, <1>18, SimpleAnnotated

(* The block a break branches to is entered with the locals around the loop. *)
LEMMA BreakLive ==
    ASSUME IInv, CInv, stack # <<>>, proc.current_break_target # 0,
           NEW E, Lives(proc, scopes, stack, E)
    PROVE  \E k \in 1..Len(PathOf(proc, scopes)) :
               /\ proc.current_break_scope = PathOf(proc, scopes)[k]
               /\ E[proc.current_break_target] = LiveAt(scopes, PathOf(proc, scopes), k - 1)
<1>1. /\ Walking(proc, scopes, stack) /\ BreakOK(proc, scopes, stack)
      /\ Len(stack) \in Nat \ {0} /\ DOMAIN stack = 1..Len(stack)
      /\ stack \in Seq(FrameType)
  BY Here DEF Walking
<1>2. Loops(stack) # {}
  BY BreakIsInnermostHolds DEF BreakIsInnermost, Loops, NoBlock
<1>3. Loops(stack) \in SUBSET (1..Len(stack))
  BY <1>1 DEF Loops
<1>4. PICK m \in Loops(stack) : \A j \in Loops(stack) : j <= m
  BY <1>1, <1>2, <1>3, GreatestPosition
<1>5. m \in 1..Len(stack) /\ stack[m].kind \in {"loop", "for"}
  BY <1>1, <1>4 DEF Loops
<1>6. /\ proc.current_break_target = TargetOf(proc, stack, m)
      /\ proc.current_break_scope = BreakScopeOf(proc, stack, m)
  BY <1>1, <1>4, <1>5, BreakFromBelow
<1>7. proc.current_break_target = stack[m].exit
  BY <1>1, <1>5, <1>6 DEF BreakOK, BreakOKAt
<1>8. proc.current_break_scope = PathOf(proc, scopes)[Depth(stack, m - 1) + 1]
  BY <1>4, <1>6 DEF Lives, LoopScopes
<1>9. proc.current_break_target \in Led(stack[m])
  BY <1>7 DEF Led, Held, NoBlock
<1>10. E[proc.current_break_target] = LiveAt(scopes, PathOf(proc, scopes), Depth(stack, m - 1))
  BY <1>5, <1>9 DEF Lives, FrameLive
<1>11. /\ Depth(stack, m - 1) \in Nat
       /\ Depth(stack, m - 1) + 1 \in 1..Len(PathOf(proc, scopes))
  BY <1>5, DepthBelow
<1>12. (Depth(stack, m - 1) + 1) - 1 = Depth(stack, m - 1)
  BY <1>11
<1> QED BY <1>8, <1>10, <1>11, <1>12

LEMMA BreakAnnotated ==
    ASSUME IInv, CInv, AInv, stack # <<>>, LinearizeBreak
    PROVE  AInv'
<1> DEFINE b == proc.current_break_target
           c == MinClosingScope(proc.current_break_scope)
           U == Promises(scopes, stack)
           X == LiveHere(proc, scopes)
<1>1. /\ b # 0 /\ proc' = JumpTo(proc, b, c) /\ list # "ended"
      /\ UNCHANGED <<scopes, stack>>
  BY DEF LinearizeBreak, CanMeet, Met, JumpTo, NoBlock
<1>2. b \in 1..Len(proc.nodes) /\ b \in HeldBy(stack)
  BY <1>1, BreakTargetLemma
<1>3. /\ c \in 0..Len(scopes) /\ scopes \in Seq(ScopeType) /\ ProcOK(proc)
      /\ Len(proc.nodes) \in Nat /\ Len(scopes) \in Nat
  BY MinClosingScopeLemma, Here DEF ProcOK
<1>4. Sound(proc, U) /\ Open(proc)
  BY <1>1 DEF CInv, ListOK
<1>5. b \in U
  BY <1>1, <1>2 DEF Promises, NoBlock
<1>6. PICK E, W : Valid(E, W)
  BY AnnotatedNow
<1>7. /\ Fits(proc, scopes, E, W, U, X) /\ E[ENTRY_BLOCK] = {}
      /\ Lives(proc, scopes, stack, E) /\ X \subseteq 1..Len(scopes)
  BY <1>6, HereFacts DEF Valid, Annotated
<1>8. Leaves(scopes, X, E[b], c)
  <2>1. PICK k \in 1..Len(PathOf(proc, scopes)) :
               /\ proc.current_break_scope = PathOf(proc, scopes)[k]
               /\ E[b] = LiveAt(scopes, PathOf(proc, scopes), k - 1)
    BY <1>1, <1>7, BreakLive
  <2> QED BY <2>1, LeavesScope
<1>9. SameContext(proc, proc') /\ SameScopes(scopes, scopes')
  <2>1. SameContext(proc, JumpTo(proc, b, c))
    BY <1>2, <1>3, JumpLemma
  <2> QED BY <1>1, <1>3, <2>1 DEF SameScopes
<1> DEFINE F == Extend(E, Len(proc.nodes), X)
<1>10. SameEntries(proc, E, F)
  BY <1>3, ExtendSame
<1>11. PICK V : Fits(JumpTo(proc, b, c), scopes, F, V, U, X)
  <2> HIDE DEF b, c, U, X
  <2> QED BY <1>2, <1>3, <1>4, <1>5, <1>7, <1>8, JumpToFits
<1> HIDE DEF F, b, c
<1>12. OthersStay(proc, scopes, scopes') /\ SameLabels(scopes, scopes')
  BY <1>1, LabelsSame DEF OthersStay
<1>13. LiveHere(proc', scopes') = X
  BY <1>1, <1>9, SameLive
<1>14. LabelLive(proc', scopes', F)
  BY <1>7, <1>9, <1>10, <1>12, LabelsLive
<1>15. Fits(proc', scopes', F, V, U, LiveHere(proc', scopes'))
  BY <1>1, <1>11, <1>13
<1>16. Promises(scopes', stack) \subseteq U
  BY <1>1
<1> HIDE DEF U, X
<1> QED BY <1>1, <1>7, <1>9, <1>10, <1>12, <1>14, <1>15, <1>16, SimpleAnnotated

(* A goto leads to a scope that has nothing to be closed itself. *)
LEMMA GotoLeaves ==
    ASSUME Scoped, IInv, stack # <<>>, NEW i \in 1..Len(PathOf(proc, scopes)),
           NEW s, s = PathOf(proc, scopes)[i], CanMeet(GotoKind(s, MinClosingScope(s)))
    PROVE  /\ ~NeedClose(scopes[s])
           /\ Leaves(scopes, LiveHere(proc, scopes), LiveAt(scopes, PathOf(proc, scopes), i),
                     MinClosingScope(s))
           /\ LiveAt(scopes, PathOf(proc, scopes), i) \subseteq 1..Len(scopes)
<1>1. /\ Leaves(scopes, LiveHere(proc, scopes), LiveAt(scopes, PathOf(proc, scopes), i - 1),
                MinClosingScope(s))
      /\ NeedClose(scopes[s]) => MinClosingScope(s) = s
  BY LeavesScope
<1>2. Walking(proc, scopes, stack) /\ Len(PathOf(proc, scopes)) \in Nat
      /\ \A k \in 1..Len(PathOf(proc, scopes)) : PathOf(proc, scopes)[k] \in 1..Len(scopes)
  BY Here, WalkingTypes
<1>3. s # NoScope
  BY <1>2 DEF NoScope
<1>4. ~NeedClose(scopes[s])
  BY <1>1, <1>3 DEF GotoKind, CanMeet, Scoped, Structured
<1>5. i \in Nat \ {0} /\ ~Live(scopes[PathOf(proc, scopes)[i]])
  BY <1>2, <1>4 DEF Live
<1>6. LiveAt(scopes, PathOf(proc, scopes), i) = LiveAt(scopes, PathOf(proc, scopes), i - 1)
  BY <1>5, NotLive
<1>7. \A j \in 1..i : j \in 1..Len(PathOf(proc, scopes))
  BY <1>2
<1>8. LiveAt(scopes, PathOf(proc, scopes), i) \subseteq 1..Len(scopes)
  BY <1>2, <1>7 DEF LiveAt
<1> QED BY <1>1, <1>4, <1>6, <1>8

LEMMA GotoAnnotated ==
    ASSUME Scoped, IInv, CInv, AInv, stack # <<>>, NEW i \in DOMAIN Current.path,
           LinearizeGoto(Current.path[i])
    PROVE  AInv'
<1> DEFINE s == Current.path[i]
           n == Len(proc.nodes)
           c == MinClosingScope(s)
           known == scopes[s].label_block # NoBlock
           b == IF known THEN scopes[s].label_block ELSE NewBlock(proc)
           q == IF known THEN proc ELSE CreateBlocks(proc, 1)
           new == [scopes[s] EXCEPT !.label_block = b]
           U == Promises(scopes, stack)
           X == LiveHere(proc, scopes)
           Z == LiveAt(scopes, PathOf(proc, scopes), i)
<1>1. /\ CanMeet(GotoKind(s, c)) /\ list # "ended"
      /\ proc' = JumpTo(q, b, c)
      /\ scopes' = [scopes EXCEPT ![s] = new]
      /\ UNCHANGED stack
  BY DEF LinearizeGoto, Met, JumpTo, CanMeet
<1>2. /\ n \in Nat /\ ScopesOK(scopes) /\ scopes \in Seq(ScopeType) /\ ProcOK(proc)
      /\ i \in 1..Len(PathOf(proc, scopes)) /\ s = PathOf(proc, scopes)[i]
      /\ Walking(proc, scopes, stack) /\ Len(scopes) \in Nat
  BY Here DEF IInv, StateOK, ProcOK
<1>3. s \in 1..Len(scopes) /\ c \in 0..Len(scopes)
  BY <1>2, WalkingTypes, MinClosingScopeLemma
<1>4. scopes[s] \in ScopeType /\ scopes[s].label_block \in 0..n
  BY <1>2, <1>3 DEF Walking, LabelsOK, LabelOK
<1>5. /\ known => q = proc /\ b \in 1..n /\ b = scopes[s].label_block
      /\ ~known => q = CreateBlocks(proc, 1) /\ b = n + 1 /\ scopes[s].label_block = 0
  BY <1>2, <1>4 DEF NewBlock, NoBlock
<1>6. b \in Nat /\ b # NoBlock
  BY <1>2, <1>5 DEF NoBlock
<1>7. /\ new \in ScopeType /\ new.path = scopes[s].path /\ new.base = scopes[s].base
      /\ new.locals = scopes[s].locals /\ new.label = scopes[s].label
      /\ new.label_block = b /\ new.placed = scopes[s].placed
      /\ new.declared = scopes[s].declared
  <2> HIDE DEF b, s
  <2> QED BY <1>4, <1>6 DEF ScopeType
<1>8. Sound(proc, U) /\ Open(proc) /\ LabelsApart(scopes, stack)
  BY <1>1 DEF CInv, ListOK
<1>9. ~NeedClose(scopes[s]) /\ Leaves(scopes, X, Z, c) /\ Z \subseteq 1..Len(scopes)
  <2> HIDE DEF s
  <2> QED BY <1>1, <1>2, GotoLeaves DEF c
<1>10. PICK E, W : Valid(E, W)
  BY AnnotatedNow
<1>11. /\ Fits(proc, scopes, E, W, U, X) /\ E[ENTRY_BLOCK] = {}
       /\ Lives(proc, scopes, stack, E) /\ X \subseteq 1..Len(scopes)
  BY <1>10, HereFacts DEF Valid, Annotated
<1>12. known => E[b] = Z
  BY <1>2, <1>5, <1>6, <1>9, <1>11 DEF Lives, LabelLive
<1>13. known \/ ~known
  OBVIOUS
<1> HIDE DEF b, q, new, c, s, U, known, X, Z
<1>14. /\ SameScopes(scopes, scopes') /\ scopes' \in Seq(ScopeType) /\ Len(scopes') = Len(scopes)
       /\ scopes'[s] = new /\ \A t \in 1..Len(scopes) : t # s => scopes'[t] = scopes[t]
  <2> DEFINE sd == [scopes EXCEPT ![s] = new]
  <2>1. /\ SameScopes(scopes, sd) /\ sd[s] = new
        /\ \A t \in 1..Len(scopes) : t # s => sd[t] = scopes[t]
    BY <1>2, <1>3, <1>7, ScopeUpdate
  <2>2. scopes' = sd
    BY <1>1
  <2> HIDE DEF sd
  <2> QED BY <2>1, <2>2 DEF SameScopes
<1>15. LabelSet(scopes', s, b, scopes[s].placed)
  BY <1>3, <1>7, <1>14 DEF LabelSet
<1>16. \E F, V, W2 : /\ SameEntries(proc, E, F) /\ F[b] = Z
                     /\ Fits(proc', scopes, F, W2, V, X)
                     /\ Promises(scopes', stack) \subseteq V
                     /\ SameContext(proc, proc') /\ ProcOK(proc')
  <2>1. CASE known
    <3>1. c # NoScope => b \in U
      <4>1. CASE scopes[s].placed
        BY <1>1, <4>1 DEF CanMeet, GotoKind, Scoped, Structured
      <4>2. CASE ~scopes[s].placed
        <5>1. Owed(scopes, s)
          BY <1>5, <1>6, <2>1, <4>2 DEF Owed
        <5> QED BY <1>2, <1>3, <1>5, <2>1, <5>1, OwedPromised DEF U
      <4> QED BY <4>1, <4>2
    <3>2. q = proc /\ b \in 1..Len(proc.nodes) /\ proc' = JumpTo(proc, b, c)
      BY <1>1, <1>5, <2>1
    <3> DEFINE F == Extend(E, Len(proc.nodes), X)
    <3>3. SameEntries(proc, E, F)
      BY <1>2, ExtendSame
    <3>4. PICK V : Fits(JumpTo(proc, b, c), scopes, F, V, U, X)
      BY <1>2, <1>3, <1>8, <1>9, <1>11, <1>12, <2>1, <3>1, <3>2, JumpToFits
    <3> HIDE DEF F
    <3>5. F[b] = Z
      BY <1>12, <2>1, <3>2, <3>3 DEF SameEntries
    <3>6. SameContext(proc, proc') /\ ProcOK(proc')
      BY <1>2, <1>3, <3>2, JumpLemma
    <3>7. Promises(scopes', stack) \subseteq U
      <4>1. \A t \in 1..Len(scopes) : /\ scopes'[t].label_block = scopes[t].label_block
                                      /\ scopes'[t].placed = scopes[t].placed
        BY <1>5, <1>7, <1>14, <2>1
      <4>2. DOMAIN scopes = 1..Len(scopes) /\ DOMAIN scopes' = 1..Len(scopes)
        BY <1>2, <1>14
      <4>3. SameLabels(scopes, scopes')
        BY <1>14, <4>1, <4>2 DEF SameLabels
      <4> QED BY <4>3, LabelsUnchanged DEF Promises, U
    <3>8. Fits(proc', scopes, F, V, U, X)
      BY <3>2, <3>4
    <3> QED BY <3>3, <3>5, <3>6, <3>7, <3>8
  <2>2. CASE ~known
    <3>1. q = CreateBlocks(proc, 1) /\ b = Len(proc.nodes) + 1 /\ n = Len(proc.nodes)
      BY <1>5, <2>2
    <3> DEFINE r == CreateBlocks(proc, 1)
               E1 == Extend(E, Len(proc.nodes), Z)
    <3>2. (Len(proc.nodes) + 1)..(Len(proc.nodes) + 1) = {b}
      BY <1>2, <3>1, NewBlockRange
    <3>3. /\ Sound(r, U \cup ((Len(proc.nodes) + 1)..(Len(proc.nodes) + 1)))
          /\ Len(r.nodes) = Len(proc.nodes) + 1 /\ (Open(proc) => Open(r))
      BY <1>8, CreateSound
    <3>4. ProcOK(r) /\ SameContext(proc, r)
      BY <1>2, CreateBlocksLemma
    <3>5. Fits(r, scopes, E1, W, U \cup ((Len(proc.nodes) + 1)..(Len(proc.nodes) + 1)), X)
      BY <1>2, <1>8, <1>9, <1>11, CreateFits
    <3>6. SameEntries(proc, E, E1) /\ E1[b] = Z
      <4>1. /\ SameEntries(proc, E, E1)
            /\ \A d \in Nat : d > Len(proc.nodes) => E1[d] = Z
        BY <1>2, ExtendSame
      <4>2. b \in Nat /\ b > Len(proc.nodes)
        BY <1>2, <3>1
      <4> HIDE DEF E1
      <4> QED BY <4>1, <4>2
    <3> HIDE DEF r, E1
    <3>7. q = r
      BY <3>1 DEF r
    <3> DEFINE T == U \cup {b}
    <3>8. b \in T /\ Sound(q, T) /\ Fits(q, scopes, E1, W, T, X) /\ Open(q)
      BY <1>8, <3>2, <3>3, <3>5, <3>7
    <3>9. Promises(scopes', stack) \subseteq T
      <4>1. b \notin Promises(scopes, stack)
        BY <1>2, <1>8, <3>1 DEF Sound, U
      <4>2. scopes'[s].label_block = b
        BY <1>7, <1>14
      <4>3. Promises(scopes', stack) \subseteq Promises(scopes, stack) \cup {b}
        <5>1. scopes \in Seq(ScopeType) /\ scopes' \in Seq(ScopeType) /\ Len(scopes') = Len(scopes)
          BY <1>2, <1>14
        <5>2. /\ \A t \in 1..Len(scopes) : t # s => scopes'[t] = scopes[t]
              /\ s \in 1..Len(scopes) /\ LabelsApart(scopes, stack) /\ b # NoBlock
          BY <1>3, <1>6, <1>8, <1>14
        <5> QED BY ONLY <4>1, <4>2, <5>1, <5>2, LabelMade
      <4> QED BY <4>3 DEF U
    <3> HIDE DEF T
    <3>10. b \in 1..Len(q.nodes) /\ Len(q.nodes) = Len(proc.nodes) + 1
      BY <1>2, <3>1, <3>3, <3>7
    <3> DEFINE F == Extend(E1, Len(q.nodes), X)
    <3>11. SameEntries(q, E1, F)
      <4>1. Len(q.nodes) \in Nat
        BY <1>2, <3>10
      <4> QED BY <4>1, ExtendSame
    <3>12. PICK V : Fits(JumpTo(q, b, c), scopes, F, V, T, X)
      <4>1. Leaves(scopes, X, E1[b], c)
        BY <1>9, <3>6
      <4> QED BY <1>2, <1>3, <3>8, <3>10, <4>1, JumpToFits
    <3> HIDE DEF F
    <3>13. F[b] = Z
      BY <3>6, <3>10, <3>11 DEF SameEntries
    <3>14. SameEntries(proc, E, F)
      BY <1>2, <3>6, <3>10, <3>11 DEF SameEntries
    <3>15. SameContext(proc, proc') /\ ProcOK(proc')
      <4>1. SameContext(q, proc') /\ ProcOK(proc')
        BY <1>1, <1>2, <1>3, <3>4, <3>7, <3>10, JumpLemma
      <4> QED BY <3>4, <3>7, <4>1 DEF SameContext, SameBreak
    <3>16. Fits(proc', scopes, F, V, T, X)
      BY <1>1, <3>12
    <3> QED BY <3>9, <3>13, <3>14, <3>15, <3>16
  <2> QED BY <1>13, <2>1, <2>2
<1>17. PICK F, V, W2 : /\ SameEntries(proc, E, F) /\ F[b] = Z
                       /\ Fits(proc', scopes, F, W2, V, X)
                       /\ Promises(scopes', stack) \subseteq V
                       /\ SameContext(proc, proc') /\ ProcOK(proc')
  BY <1>16
<1>18. /\ LabelLive(proc', scopes', F) /\ OthersStay(proc, scopes, scopes')
       /\ LiveHere(proc', scopes') = LiveHere(proc, scopes)
  <2>1. F[b] = LiveAt(scopes, PathOf(proc, scopes), i)
    BY <1>17 DEF Z
  <2> QED BY <1>2, <1>6, <1>9, <1>11, <1>15, <1>17, <2>1, LabelAdded
<1>19. Fits(proc', scopes', F, W2, V, LiveHere(proc', scopes'))
  <2>1. SameShape(scopes, scopes') /\ \A d \in 1..Len(proc'.nodes) : Len(proc'.nodes[d]) \in Nat
    BY <1>2, <1>14, <1>17, ShapeStays, NodesTyped
  <2>2. LiveHere(proc', scopes') = X
    BY <1>18 DEF X
  <2>3. Fits(proc', scopes, F, W2, V, X)
    BY <1>17
  <2>4. Fits(proc', scopes', F, W2, V, X)
    BY ONLY <2>1, <2>3, ShapeFits
  <2> QED BY <2>2, <2>4
<1> QED BY <1>1, <1>11, <1>14, <1>17, <1>18, <1>19, SimpleAnnotated

(* A statement that enters a statement list. *)
MoreShape(sc, sd) == sc \in Seq(ScopeType) /\ sd \in Seq(ScopeType) /\ MoreScopes(sc, sd)

LEMMA MoreShapeSame ==
    ASSUME NEW sc, NEW sd, MoreShape(sc, sd)
    PROVE  SameShape(sc, sd)
<1>1. Len(sc) \in Nat /\ Len(sd) \in Nat
  BY DEF MoreShape
<1> QED BY <1>1 DEF MoreShape, MoreScopes, SameShape

LEMMA PushPromises ==
    ASSUME IInv, stack # <<>>, NEW sd, MoreShape(scopes, sd), NEW f \in FrameType, NEW V,
           Promises(scopes, stack) \cup (Held(f) \ {NoBlock}) \subseteq V
    PROVE  Promises(sd, Append(stack, f)) \subseteq V
<1>1. stack \in Seq(FrameType)
  BY Here
<1>2. HeldBy(Append(stack, f)) \subseteq HeldBy(stack) \cup Held(f)
  BY <1>1, HeldPushed
<1>3. OwedLabels(sd) \subseteq OwedLabels(scopes) \cup {NoBlock}
  BY OwedPushed DEF MoreShape
<1> QED BY <1>2, <1>3 DEF Promises

LEMMA PushAnnotated ==
    ASSUME IInv, CInv, stack # <<>>, NEW f \in FrameType, stack' = Append(stack, f),
           MoreShape(scopes, scopes'), ProcOK(proc'),
           PushedPath(proc, scopes, proc', scopes', f),
           PushedFrame(proc, scopes, proc', scopes', f),
           f.kind \in {"loop", "for"} \/ SameBreak(proc, proc'),
           NEW E, Lives(proc, scopes, stack, E), E[ENTRY_BLOCK] = {},
           NEW F, SameEntries(proc, E, F), \A b \in Led(f) : F[b] = LiveHere(proc, scopes),
           NEW W, NEW V, Fits(proc', scopes', F, W, V, LiveHere(proc, scopes)),
           Promises(scopes, stack) \cup (Held(f) \ {NoBlock}) \subseteq V
    PROVE  AInv'
<1>1. Promises(scopes', stack') \subseteq V
  BY PushPromises
<1>2. LiveHere(proc', scopes') = LiveHere(proc, scopes)
  BY PushUnder
<1>3. Lives(proc', scopes', stack', F)
  BY PushLives
<1>6. Fits(proc', scopes', F, W, Promises(scopes', stack'), LiveHere(proc', scopes'))
  BY <1>1, <1>2, FewerFits
<1>7. F[ENTRY_BLOCK] = {}
  <2>1. ENTRY_BLOCK \in 1..Len(proc.nodes)
    BY EntryAndExit DEF Blocks
  <2> QED BY <2>1 DEF SameEntries
<1>8. Annotated(proc', scopes', stack', F, W, LiveHere(proc', scopes'))
  BY <1>3, <1>6, <1>7 DEF Annotated
<1> QED BY <1>8 DEF AInv

EnterFrame(q, f) ==
    /\ f \in FrameType /\ f.break_scope = proc.current_break_scope
    /\ f.kind \in {"do", "loop", "if"}
    /\ IF f.kind = "loop" THEN q.current_break_scope = NextScope(scopes)
       ELSE SameBreak(proc, q)

EnterFlow(q, f, E, F, W, V) ==
    /\ Sound(q, V) /\ Open(q)
    /\ Lives(proc, scopes, stack, E) /\ E[ENTRY_BLOCK] = {}
    /\ SameEntries(proc, E, F) /\ \A b \in Led(f) : F[b] = LiveHere(proc, scopes)
    /\ Fits(q, scopes, F, W, V, LiveHere(proc, scopes))
    /\ Promises(scopes, stack) \cup (Held(f) \ {NoBlock}) \subseteq V

(* The path of the list that is entered ends with a scope that is not live. *)
LEMMA OneScopePath ==
    ASSUME NEW p, NEW sc \in Seq(ScopeType), NEW q, NEW sd, MoreScopes(sc, sd),
           PathOf(p, sc) \in Seq(Nat \ {0}),
           Len(sd) = NextScope(sc), PathOf(q, sd) = Append(PathOf(p, sc), NextScope(sc)),
           ~sd[NextScope(sc)].declared, NEW f, f.kind # "for"
    PROVE  /\ PushedPath(p, sc, q, sd, f)
           /\ PathOf(q, sd)[Len(PathOf(p, sc)) + 1] = NextScope(sc)
<1> DEFINE n == Len(PathOf(p, sc))
           path == PathOf(q, sd)
           s == NextScope(sc)
<1>1. n \in Nat /\ Len(sc) \in Nat /\ s = Len(sc) + 1
  BY DEF NextScope
<1>2. Len(path) = n + 1 /\ path[n + 1] = s /\ \A i \in 1..n : path[i] = PathOf(p, sc)[i]
  OBVIOUS
<1>3. ForSize(f) = 1
  BY DEF ForSize
<1>4. ~Live(sd[s])
  BY DEF Live
<1>5. s \in (Len(sc) + 1)..Len(sd)
  BY <1>1
<1>6. \A k \in (n + 1)..(n + 1) : k = n + 1
  BY <1>1
<1> HIDE DEF s
<1>7. PushedPath(p, sc, q, sd, f)
  BY <1>2, <1>3, <1>4, <1>5, <1>6 DEF PushedPath
<1> QED BY <1>2, <1>7 DEF s

LEMMA EnterAnnotated ==
    ASSUME IInv, CInv, stack # <<>>, NEW q, q.local_pseudos = proc.local_pseudos,
           NEW locals \in LocalLists, NEW label \in BOOLEAN,
           Enter(q, Current.path, locals, label),
           NEW f, stack' = Append(stack, f), EnterFrame(q, f),
           NEW E, NEW F, NEW W, NEW V, EnterFlow(q, f, E, F, W, V)
    PROVE  AInv'
<1> DEFINE s == NextScope(scopes)
           new == NewScope(q, Append(Current.path, s), locals, label)
           r == StartScope(q, s, new)
           sd == Append(scopes, new)
<1>1. proc' = r /\ scopes' = sd
  BY DEF Enter, NextScope
<1>2. ProcOK(q) /\ f \in FrameType
  BY SoundTypes DEF EnterFlow, EnterFrame
<1>3. /\ ProcOK(r) /\ SameBreak(q, r) /\ r.nodes = q.nodes
      /\ r.current_bb = q.current_bb
      /\ ScopesOK(sd) /\ MoreScopes(scopes, sd)
      /\ Len(sd) = s /\ sd[s] = new
      /\ PathOf(r, sd) = Append(PathOf(proc, scopes), s)
  BY <1>2, EnterHere
<1>4. ~new.declared
  BY DEF NewScope
<1> HIDE DEF new, r, sd
<1>5. scopes \in Seq(ScopeType) /\ PathOf(proc, scopes) \in Seq(Nat \ {0})
  <2>1. Walking(proc, scopes, stack) /\ proc.current_scope \in 1..Len(scopes)
        /\ scopes \in Seq(ScopeType)
    BY Here
  <2>2. scopes[proc.current_scope] \in ScopeType
    BY <2>1
  <2> QED BY <2>1, <2>2, ScopeFields DEF PathOf
<1>6. MoreShape(scopes, scopes') /\ ProcOK(proc')
  BY <1>1, <1>3, <1>5 DEF MoreShape, ScopesOK
<1>7. /\ PushedPath(proc, scopes, proc', scopes', f)
      /\ PathOf(proc', scopes')[Len(PathOf(proc, scopes)) + 1] = s
  <2>1. f.kind # "for" /\ ~scopes'[s].declared
    BY <1>1, <1>3, <1>4 DEF EnterFrame
  <2>2. /\ MoreScopes(scopes, scopes') /\ Len(scopes') = NextScope(scopes)
        /\ PathOf(proc', scopes') = Append(PathOf(proc, scopes), NextScope(scopes))
        /\ ~scopes'[NextScope(scopes)].declared
    BY <1>1, <1>3, <2>1
  <2> QED BY <1>5, <2>1, <2>2, OneScopePath
<1>8. PushedFrame(proc, scopes, proc', scopes', f)
  BY <1>1, <1>3, <1>7 DEF EnterFrame, PushedFrame, SameBreak
<1>9. f.kind \in {"loop", "for"} \/ SameBreak(proc, proc')
  BY <1>1, <1>3 DEF EnterFrame, SameBreak
<1>10. Fits(proc', scopes', F, W, V, LiveHere(proc, scopes))
  <2>1. Fits(proc', scopes, F, W, V, LiveHere(proc, scopes))
    BY <1>1, <1>3, ContextFits DEF EnterFlow
  <2>2. SameShape(scopes, scopes') /\ \A b \in 1..Len(proc'.nodes) : Len(proc'.nodes[b]) \in Nat
    BY <1>6, MoreShapeSame, NodesTyped
  <2> QED BY ONLY <2>1, <2>2, ShapeFits
<1>11. /\ Lives(proc, scopes, stack, E) /\ E[ENTRY_BLOCK] = {}
       /\ SameEntries(proc, E, F) /\ \A b \in Led(f) : F[b] = LiveHere(proc, scopes)
       /\ Promises(scopes, stack) \cup (Held(f) \ {NoBlock}) \subseteq V
  BY DEF EnterFlow
<1> QED BY <1>2, <1>6, <1>7, <1>8, <1>9, <1>10, <1>11, PushAnnotated

LEMMA DoAnnotated ==
    ASSUME IInv, CInv, AInv, stack # <<>>, NEW locals \in LocalLists, NEW label \in BOOLEAN,
           LinearizeDo(locals, label)
    PROVE  AInv'
<1> DEFINE f == Frame("do", NoBlock, <<>>, NoBlock)
           U == Promises(scopes, stack)
<1>1. /\ Enter(proc, Current.path, locals, label) /\ stack' = Append(stack, f)
      /\ list # "ended"
  BY DEF LinearizeDo, CanMeet
<1>2. /\ f \in FrameType /\ f.arms = <<>> /\ f.exit = NoBlock /\ f.kind = "do"
      /\ f.break_scope = proc.current_break_scope
  <2> DEFINE none == <<>>
  <2>1. none \in Seq(Nat \ {0}) /\ NoBlock \in Nat
    BY DEF NoBlock
  <2>2. f = Frame("do", NoBlock, none, NoBlock)
    OBVIOUS
  <2> HIDE DEF none, f
  <2>3. /\ f \in FrameType /\ f.arms = none /\ f.exit = NoBlock /\ f.kind = "do"
        /\ f.break_scope = proc.current_break_scope
    BY <2>1, <2>2, FrameLemma
  <2> QED BY <2>3 DEF none
<1> HIDE DEF f
<1>3. Held(f) = {NoBlock}
  BY <1>2, OneBlock
<1>4. Led(f) = {}
  BY <1>2, <1>3 DEF Led
<1>5. Sound(proc, U) /\ Open(proc)
  BY <1>1 DEF CInv, ListOK
<1>6. PICK E, W : Valid(E, W)
  BY AnnotatedNow
<1>7. EnterFlow(proc, f, E, E, W, U)
  BY <1>3, <1>4, <1>5, <1>6 DEF EnterFlow, Valid, Annotated, SameEntries
<1>8. EnterFrame(proc, f)
  BY <1>2 DEF EnterFrame, SameBreak
<1> QED BY <1>1, <1>7, <1>8, EnterAnnotated

(* The blocks of a statement are entered with the locals at hand. *)
NewBlocks(m) == (Len(proc.nodes) + 1)..(Len(proc.nodes) + m)

LEMMA NewBlocksGood ==
    ASSUME IInv, CInv, stack # <<>>, NEW E, NEW W, Valid(E, W), NEW m \in Nat
    PROVE  LET n == Len(proc.nodes)
               X == LiveHere(proc, scopes)
               F == Extend(E, n, X)
               q == CreateBlocks(proc, m)
           IN  /\ Good(q, n + m, scopes, F, W, Promises(scopes, stack) \cup NewBlocks(m), X)
               /\ SameEntries(proc, E, F) /\ E[ENTRY_BLOCK] = {} /\ Lives(proc, scopes, stack, E)
               /\ \A b \in Nat : b > n => F[b] = X
               /\ ProcOK(q) /\ SameContext(proc, q) /\ (Open(proc) <=> Open(q)) /\ n \in Nat
<1> DEFINE n == Len(proc.nodes)
           X == LiveHere(proc, scopes)
           F == Extend(E, n, X)
           q == CreateBlocks(proc, m)
           U == Promises(scopes, stack)
<1>1. ProcOK(proc) /\ n \in Nat /\ Len(scopes) \in Nat /\ Sound(proc, U)
  BY Here DEF CInv
<1>2. X \subseteq 1..Len(scopes)
  BY HereFacts
<1>3. Fits(proc, scopes, E, W, U, X) /\ E[ENTRY_BLOCK] = {} /\ Lives(proc, scopes, stack, E)
  BY DEF Valid, Annotated
<1>4. Fits(q, scopes, F, W, U \cup NewBlocks(m), X)
  BY <1>1, <1>2, <1>3, CreateFits DEF NewBlocks
<1>5. Sound(q, U \cup NewBlocks(m)) /\ Len(q.nodes) = n + m /\ (Open(proc) <=> Open(q))
  BY <1>1, CreateSound DEF NewBlocks
<1>6. SameEntries(proc, E, F) /\ \A b \in Nat : b > n => F[b] = X
  BY <1>1, ExtendSame
<1>7. ProcOK(q) /\ SameContext(proc, q)
  BY <1>1, CreateBlocksLemma
<1> HIDE DEF q, F, X, n
<1>8. Good(q, n + m, scopes, F, W, U \cup NewBlocks(m), X)
  BY <1>1, <1>4, <1>5 DEF Good
<1> QED BY <1>1, <1>3, <1>5, <1>6, <1>7, <1>8 DEF q, F, X, n

LEMMA InLoopGood ==
    ASSUME NEW p, NEW n, NEW U, NEW sc, NEW E, NEW W, NEW X, Good(p, n, sc, E, W, U, X),
           NEW target \in Nat, NEW scope \in Nat
    PROVE  LET q == InLoop(p, target, scope)
           IN  /\ Good(q, n, sc, E, W, U, X) /\ (Open(p) <=> Open(q))
               /\ q.current_scope = p.current_scope /\ q.local_pseudos = p.local_pseudos
               /\ q.current_break_scope = scope /\ q.current_break_target = target
<1> DEFINE q == InLoop(p, target, scope)
<1>1. ProcOK(p)
  BY SoundTypes DEF Good
<1>2. /\ q.nodes = p.nodes /\ q.current_bb = p.current_bb
      /\ q.current_scope = p.current_scope /\ q.local_pseudos = p.local_pseudos
      /\ q.current_break_scope = scope /\ q.current_break_target = target
  <2>1. p \in ProcType
    BY <1>1 DEF ProcOK
  <2> QED BY <2>1 DEF ProcType, InLoop
<1>3. Sound(q, U) /\ (Open(p) <=> Open(q))
  BY InLoopSound DEF Good
<1> HIDE DEF q
<1>4. Fits(q, sc, E, W, U, X)
  BY <1>2, ContextFits DEF Good
<1>5. Good(q, n, sc, E, W, U, X)
  BY <1>2, <1>3, <1>4 DEF Good
<1> QED BY <1>2, <1>3, <1>5 DEF q

LEMMA StartGood ==
    ASSUME NEW p, NEW n, NEW U, NEW sc, NEW E, NEW W, NEW X, Good(p, n, sc, E, W, U, X),
           NEW b, b \in U, Open(p) => X = E[b]
    PROVE  LET q == StartBlock(p, b)
           IN  Good(q, n, sc, E, W, U \ {b}, E[b]) /\ Open(q) /\ SameContext(p, q)
<1> DEFINE q == StartBlock(p, b)
           V == U \ {b}
<1>1. EdgeOK(sc, E, W, b, E[b])
  BY SameEdge
<1>2. Sound(q, V) /\ Open(q) /\ Len(q.nodes) = n
  BY StartSound DEF Good
<1>3. Fits(q, sc, E, W, V, E[b])
  BY <1>1, StartFits DEF Good
<1>4. SameContext(p, q)
  <2>1. ProcOK(p) /\ b \in 1..Len(p.nodes)
    BY SoundTypes DEF Good, Sound
  <2> QED BY <2>1, StartBlockLemma
<1> HIDE DEF q, V
<1>5. Good(q, n, sc, E, W, V, E[b])
  BY <1>2, <1>3 DEF Good
<1> QED BY <1>2, <1>4, <1>5 DEF q, V

LEMMA TestCondGood ==
    ASSUME NEW p, NEW n, NEW U, NEW sc, NEW E, NEW W, NEW X, Good(p, n, sc, E, W, U, X),
           NEW b, b \in U, Open(p) => X = E[b], Harmless(sc, p.current_scope, E[b]),
           NEW t, NEW f, Alike(n, E, b, t, f), NEW Y
    PROVE  LET q == TestCond(p, b, t, f)
           IN  Good(q, n, sc, E, W, U \ {b}, Y) /\ SameContext(p, q)
<1> DEFINE q == TestCond(p, b, t, f)
           V == U \ {b}
<1>1. EdgeOK(sc, E, W, b, E[b])
  BY SameEdge
<1>2. t \in 1..Len(p.nodes) /\ f \in 1..Len(p.nodes) /\ E[t] = E[b] /\ E[f] = E[b]
  BY DEF Alike, Good
<1>3. Sound(q, V) /\ Len(q.nodes) = n
  BY <1>2, TestCondSound DEF Good
<1>4. Fits(q, sc, E, W, V, Y)
  BY <1>1, <1>2, TestCondFits DEF Good
<1>5. SameContext(p, q)
  <2>1. ProcOK(p) /\ b \in 1..Len(p.nodes)
    BY SoundTypes DEF Good, Sound
  <2>2. t \in Nat \ {0} /\ f \in Nat \ {0}
    BY <1>2, SoundTypes DEF Good
  <2> QED BY <2>1, <2>2, TestCondLemma
<1> HIDE DEF q, V
<1>6. Good(q, n, sc, E, W, V, Y)
  BY <1>3, <1>4 DEF Good
<1> QED BY <1>5, <1>6 DEF q, V

(* Into the list of a loop. *)
LEMMA LoopFrameLed ==
    ASSUME IInv, stack # <<>>, NEW test \in Nat, NEW end \in Nat, NEW n \in Nat, end > n,
           NEW f, f = Frame("loop", test, <<>>, end)
    PROVE  /\ f \in FrameType /\ Held(f) = {end} /\ Led(f) \subseteq {test, end}
           /\ f.kind = "loop" /\ f.break_scope = proc.current_break_scope
<1>1. f \in FrameType /\ Held(f) = {end}
  BY LoopFrame
<1>2. f.kind = "loop" /\ f.head = test /\ f.break_scope = proc.current_break_scope
  BY DEF Frame
<1>3. Led(f) \subseteq {test, end}
  BY <1>1, <1>2 DEF Led
<1> QED BY <1>1, <1>2, <1>3

LEMMA WhileAnnotated ==
    ASSUME IInv, CInv, AInv, stack # <<>>, NEW locals \in LocalLists, NEW label \in BOOLEAN,
           LinearizeWhile(locals, label)
    PROVE  AInv'
<1> DEFINE n == Len(proc.nodes)
           test == n + 1
           body == n + 2
           end == n + 3
           q0 == CreateBlocks(proc, 3)
           q1 == InLoop(q0, end, NextScope(scopes))
           q2 == TestCond(q1, test, body, end)
           q == StartBlock(q2, body)
           f == Frame("loop", test, <<>>, end)
           U == Promises(scopes, stack)
           X == LiveHere(proc, scopes)
           V == U \cup NewBlocks(3)
<1>1. n \in Nat /\ NextScope(scopes) \in Nat
  BY Here DEF NextScope
<1>2. NewBlock(proc) = test /\ NewBlock(proc) + 1 = body /\ NewBlock(proc) + 2 = end
  BY <1>1, ThreeBlocks DEF NewBlock
<1>3. Enter(q, Current.path, locals, label) /\ stack' = Append(stack, f) /\ list # "ended"
  BY <1>2 DEF LinearizeWhile, NextScope, CanMeet
<1>4. Sound(proc, U) /\ Open(proc)
  BY <1>3 DEF CInv, ListOK
<1>5. U \subseteq 1..n
  BY <1>4 DEF Sound
<1>6. PICK E, W : Valid(E, W)
  BY AnnotatedNow
<1> DEFINE F == Extend(E, n, X)
<1>7. /\ Good(q0, n + 3, scopes, F, W, V, X)
      /\ SameEntries(proc, E, F) /\ E[ENTRY_BLOCK] = {} /\ Lives(proc, scopes, stack, E)
      /\ \A b \in Nat : b > n => F[b] = X
      /\ SameContext(proc, q0) /\ Open(q0)
  BY <1>4, <1>6, NewBlocksGood
<1>8. /\ test \in 1..(n + 3) /\ body \in 1..(n + 3) /\ end \in 1..(n + 3)
      /\ test \in Nat /\ body \in Nat /\ end \in Nat /\ test > n /\ body > n /\ end > n
      /\ test # end /\ body # end /\ body # test
      /\ test \in V /\ body \in V /\ end \in V /\ test \notin U /\ body \notin U
  BY <1>1, <1>5 DEF NewBlocks
<1> HIDE DEF q0, F, X
<1>9. F[test] = X /\ F[body] = X /\ F[end] = X
  BY <1>7, <1>8
<1> HIDE DEF test, body, end, V
<1>10. /\ Good(q1, n + 3, scopes, F, W, V, X) /\ Open(q1)
       /\ q1.current_scope = q0.current_scope /\ q1.local_pseudos = q0.local_pseudos
       /\ q1.current_break_scope = NextScope(scopes)
  <2>1. Good(q0, n + 3, scopes, F, W, V, X) /\ end \in Nat /\ NextScope(scopes) \in Nat
    BY <1>1, <1>7, <1>8
  <2> DEFINE m == n + 3
             k == NextScope(scopes)
             r == InLoop(q0, end, k)
  <2>2. Good(q0, m, scopes, F, W, V, X) /\ end \in Nat /\ k \in Nat
    BY <2>1
  <2> HIDE DEF m, k
  <2>3. /\ Good(r, m, scopes, F, W, V, X) /\ (Open(q0) <=> Open(r))
        /\ r.current_scope = q0.current_scope /\ r.local_pseudos = q0.local_pseudos
        /\ r.current_break_scope = k
    BY <2>2, InLoopGood
  <2> HIDE DEF r
  <2>4. q1 = r
    BY DEF r, k
  <2> HIDE DEF q1
  <2> QED BY <1>7, <2>3, <2>4 DEF m, k
<1> HIDE DEF q1
<1>11. Harmless(scopes, q1.current_scope, F[test])
  BY <1>7, <1>9, <1>10, HereFacts DEF SameContext, X
<1> DEFINE Y == F[body]
<1>12. Good(q2, n + 3, scopes, F, W, V \ {test}, Y) /\ SameContext(q1, q2)
  <2>1. Alike(n + 3, F, test, body, end)
    BY <1>8, <1>9 DEF Alike
  <2> HIDE DEF n, Y
  <2> QED BY <1>8, <1>9, <1>10, <1>11, <2>1, TestCondGood
<1> HIDE DEF q2, Y
<1> DEFINE V2 == V \ {test}
<1>13. body \in V2 /\ Good(q2, n + 3, scopes, F, W, V2, Y) /\ Y = F[body]
  BY <1>8, <1>12 DEF Y
<1> HIDE DEF V2
<1>14. Good(q, n + 3, scopes, F, W, V2 \ {body}, F[body]) /\ Open(q) /\ SameContext(q2, q)
  <2> HIDE DEF n
  <2> QED BY <1>13, StartGood
<1> HIDE DEF q
<1>15. U \cup {end} \subseteq V2 \ {body}
  BY <1>8 DEF V2, V
<1>16. /\ f \in FrameType /\ Held(f) = {end} /\ Led(f) \subseteq {test, end}
       /\ f.kind = "loop" /\ f.break_scope = proc.current_break_scope
  BY <1>1, <1>8, LoopFrameLed
<1> HIDE DEF f
<1>17. EnterFlow(q, f, E, F, W, V2 \ {body})
  <2>1. Sound(q, V2 \ {body}) /\ Fits(q, scopes, F, W, V2 \ {body}, X)
    BY <1>9, <1>14 DEF Good
  <2> QED BY <1>7, <1>9, <1>14, <1>15, <1>16, <2>1 DEF EnterFlow, X
<1>18. EnterFrame(q, f) /\ q.local_pseudos = proc.local_pseudos
  BY <1>7, <1>10, <1>12, <1>14, <1>16 DEF EnterFrame, SameContext, SameBreak
<1> DEFINE V3 == V2 \ {body}
<1>19. EnterFlow(q, f, E, F, W, V3)
  BY <1>17
<1> HIDE DEF V3
<1> QED BY <1>3, <1>18, <1>19, EnterAnnotated

LEMMA BrGood ==
    ASSUME NEW p, NEW n, NEW U, NEW sc, NEW E, NEW W, NEW X, Good(p, n, sc, E, W, U, X),
           Open(p), NEW b \in 1..n, E[b] = X, NEW Y
    PROVE  LET q == InstructBr(p, b)
           IN  Good(q, n, sc, E, W, U, Y) /\ ~Open(q) /\ SameContext(p, q)
<1> DEFINE q == InstructBr(p, b)
<1>1. EdgeOK(sc, E, W, b, X) /\ b \in 1..Len(p.nodes)
  BY SameEdge DEF Good
<1>2. Sound(q, U) /\ ~Open(q) /\ Len(q.nodes) = n
  BY <1>1, BrSound DEF Good
<1>3. Fits(q, sc, E, W, U, Y)
  BY <1>1, BrHere DEF Good
<1>4. SameContext(p, q)
  <2>1. ProcOK(p) /\ b \in Nat \ {0}
    BY <1>1, SoundTypes DEF Good
  <2> QED BY <2>1, InstructBrLemma
<1> HIDE DEF q
<1>5. Good(q, n, sc, E, W, U, Y)
  BY <1>2, <1>3 DEF Good
<1> QED BY <1>2, <1>4, <1>5 DEF q

LEMMA ContextGood ==
    ASSUME NEW p, NEW n, NEW U, NEW sc, NEW E, NEW W, NEW X, Good(p, n, sc, E, W, U, X),
           NEW q, ProcOK(q), q.nodes = p.nodes, q.current_bb = p.current_bb
    PROVE  Good(q, n, sc, E, W, U, X) /\ (Open(p) <=> Open(q))
<1>1. Sound(q, U) /\ (Open(p) <=> Open(q))
  BY SameCode DEF Good
<1>2. Fits(q, sc, E, W, U, X)
  BY ContextFits DEF Good
<1> QED BY <1>1, <1>2 DEF Good

LEMMA ShapeGood ==
    ASSUME NEW p, NEW n, NEW U, NEW sc, NEW E, NEW W, NEW X, Good(p, n, sc, E, W, U, X),
           NEW sd, MoreShape(sc, sd)
    PROVE  Good(p, n, sd, E, W, U, X)
<1>1. SameShape(sc, sd) /\ \A b \in 1..Len(p.nodes) : Len(p.nodes[b]) \in Nat
  BY MoreShapeSame, SoundTypes DEF Good
<1>2. Fits(p, sd, E, W, U, X)
  BY <1>1, ShapeFits DEF Good
<1>3. Len(sd) \in Nat
  BY DEF MoreShape
<1> QED BY <1>2, <1>3 DEF Good

(* What does no harm in a scope does none in a new scope inside it. *)
LEMMA HarmlessInside ==
    ASSUME NEW sc \in Seq(ScopeType), NEW s, NEW X, Harmless(sc, s, X),
           NEW sd, NEW t \in 1..Len(sd), sd[t].path = Append(sc[s].path, t)
    PROVE  Harmless(sd, t, X)
<1>1. sc[s].path \in Seq(Nat \ {0}) /\ Len(sc[s].path) \in Nat
  BY ScopeFields DEF Harmless
<1> DEFINE path == sc[s].path
<1>2. /\ Len(sd[t].path) = Len(path) + 1
      /\ \A k \in 1..Len(path) : k \in 1..Len(sd[t].path) /\ sd[t].path[k] = path[k]
  BY <1>1
<1> HIDE DEF path
<1> QED BY <1>2 DEF Harmless, path

LEMMA RepeatAnnotated ==
    ASSUME Scoped, IInv, CInv, AInv, stack # <<>>, NEW locals \in LocalLists,
           NEW label \in BOOLEAN, LinearizeRepeat(locals, label)
    PROVE  AInv'
<1> DEFINE n == Len(proc.nodes)
           test == n + 1
           body == n + 2
           end == n + 3
           s == NextScope(scopes)
           q0 == CreateBlocks(proc, 3)
           p1 == InLoop(q0, end, s)
           q1 == InstructBr(p1, body)
           sc == NewScope(q1, Append(Current.path, s), locals, label)
           p2 == StartScope(q1, s, sc)
           q2 == StartBlock(p2, test)
           cond == Insn("op", <<>>, -1, s)
           f == Frame("loop", test, <<>>, end)
           U == Promises(scopes, stack)
           X == LiveHere(proc, scopes)
           V == U \cup NewBlocks(3)
<1>1. /\ n \in Nat /\ s \in Nat /\ scopes \in Seq(ScopeType)
      /\ PathOf(proc, scopes) = Current.path
  BY Here DEF NextScope
<1>2. NewBlock(proc) = test /\ NewBlock(proc) + 1 = body /\ NewBlock(proc) + 2 = end
  BY <1>1, ThreeBlocks DEF NewBlock
<1>3. /\ scopes' = Append(scopes, sc) /\ stack' = Append(stack, f)
      /\ list # "ended"
  BY <1>2 DEF LinearizeRepeat, NextScope, CanMeet
<1>4. proc' = StartBlock(TestOp(p2, test, cond, body, end), body)
  <2>1. RepeatConditions(s, sc) = {cond}
    BY DEF RepeatConditions, Scoped
  <2>2. \E c \in RepeatConditions(s, sc) :
           proc' = StartBlock(InstructCbr(Ops(q2, << c >>), body, end), body)
    BY <1>2 DEF LinearizeRepeat, NextScope
  <2> HIDE DEF cond, q2, p2, s, sc, test, body, end
  <2>3. proc' = StartBlock(InstructCbr(Ops(q2, << cond >>), body, end), body)
    BY <2>1, <2>2
  <2> QED BY <2>3 DEF TestOp, q2
<1>5. Sound(proc, U) /\ Open(proc)
  BY <1>3 DEF CInv, ListOK
<1>6. U \subseteq 1..n
  BY <1>5 DEF Sound
<1>7. PICK E, W : Valid(E, W)
  BY AnnotatedNow
<1> DEFINE F == Extend(E, n, X)
<1>8. /\ Good(q0, n + 3, scopes, F, W, V, X)
      /\ SameEntries(proc, E, F) /\ E[ENTRY_BLOCK] = {} /\ Lives(proc, scopes, stack, E)
      /\ \A b \in Nat : b > n => F[b] = X
      /\ SameContext(proc, q0) /\ Open(q0)
  BY <1>5, <1>7, NewBlocksGood
<1>9. /\ test \in 1..(n + 3) /\ body \in 1..(n + 3) /\ end \in 1..(n + 3)
      /\ test \in Nat /\ body \in Nat /\ end \in Nat /\ test > n /\ body > n /\ end > n
      /\ test # end /\ body # end /\ body # test
      /\ test \in V /\ body \in V /\ end \in V /\ test \notin U /\ body \notin U
  BY <1>1, <1>6 DEF NewBlocks
<1> HIDE DEF q0, F, X
<1>10. F[test] = X /\ F[body] = X /\ F[end] = X
  BY <1>8, <1>9
<1> DEFINE m == n + 3
<1> HIDE DEF test, body, end, V, m
<1>11. Good(q0, m, scopes, F, W, V, X) /\ s \in Nat /\ end \in Nat
  BY <1>1, <1>8, <1>9 DEF m
<1> HIDE DEF s
<1>12. /\ Good(p1, m, scopes, F, W, V, X) /\ (Open(q0) <=> Open(p1))
       /\ p1.current_scope = q0.current_scope /\ p1.local_pseudos = q0.local_pseudos
       /\ p1.current_break_scope = s
  BY <1>11, InLoopGood
<1> HIDE DEF p1
<1>13. Good(q1, m, scopes, F, W, V, F[test]) /\ ~Open(q1) /\ SameContext(p1, q1)
  <2>1. Open(p1) /\ body \in 1..m /\ F[body] = X
    BY <1>8, <1>9, <1>10, <1>12 DEF m
  <2> DEFINE Y == F[test]
  <2> HIDE DEF Y
  <2>2. Good(q1, m, scopes, F, W, V, Y) /\ ~Open(q1) /\ SameContext(p1, q1)
    BY <1>12, <2>1, BrGood
  <2> QED BY <2>2 DEF Y
<1> HIDE DEF q1
<1>14. ProcOK(q1) /\ q1.local_pseudos = proc.local_pseudos
  BY <1>8, <1>12, <1>13, SoundTypes DEF Good, SameContext
<1>15. /\ ProcOK(p2) /\ SameBreak(q1, p2) /\ p2.nodes = q1.nodes
       /\ p2.current_bb = q1.current_bb
       /\ ScopesOK(scopes') /\ MoreScopes(scopes, scopes')
       /\ Len(scopes') = s /\ scopes'[s] = sc
       /\ p2.current_scope = s
       /\ PathOf(p2, scopes') = Append(PathOf(proc, scopes), s)
       /\ sc \in ScopeType
  <2> DEFINE sd == Append(scopes, sc)
  <2>1. /\ ProcOK(p2) /\ SameBreak(q1, p2) /\ p2.nodes = q1.nodes
        /\ p2.current_bb = q1.current_bb
        /\ ScopesOK(sd) /\ MoreScopes(scopes, sd)
        /\ Len(sd) = s /\ sd[s] = sc
        /\ p2.current_scope = s
        /\ PathOf(p2, sd) = Append(PathOf(proc, scopes), s)
        /\ sc \in ScopeType
    BY <1>14, EnterHere DEF s
  <2> QED BY <1>3, <2>1
<1>16. ~sc.declared /\ sc.path = Append(Current.path, s)
  BY DEF NewScope
<1> HIDE DEF p2, sc
<1>17. MoreShape(scopes, scopes')
  BY <1>1, <1>15 DEF MoreShape, ScopesOK
<1>18. Good(p2, m, scopes', F, W, V, F[test]) /\ ~Open(p2)
  <2>1. Good(p2, m, scopes, F, W, V, F[test]) /\ ~Open(p2)
    BY <1>13, <1>15, ContextGood
  <2> QED BY <1>17, <2>1, ShapeGood
<1>19. Quiet(scopes', F, W, cond, F[test])
  <2>1. Harmless(scopes, proc.current_scope, F[test])
    BY <1>10, HereFacts DEF X
  <2>2. scopes'[s].path = Append(scopes[proc.current_scope].path, s)
    BY <1>15, <1>16 DEF Current
  <2>3. s \in 1..Len(scopes')
    BY <1>11, <1>15, <1>1 DEF s, NextScope
  <2>4. Harmless(scopes', s, F[test])
    BY <1>1, <2>1, <2>2, <2>3, HarmlessInside
  <2> QED BY <1>11, <2>4, HarmlessInsn DEF Quiet
<1> HIDE DEF cond
<1> DEFINE q4 == TestOp(p2, test, cond, body, end)
           V2 == V \ {test}
<1>20. Good(q4, m, scopes', F, W, V2, F[body])
  <2>1. Alike(m, F, test, body, end)
    BY <1>9, <1>10 DEF Alike, m
  <2> DEFINE Y == F[body]
  <2> HIDE DEF Y
  <2>2. Good(q4, m, scopes', F, W, V2, Y)
    BY <1>9, <1>18, <1>19, <2>1, TestOpGood
  <2> QED BY <2>2 DEF Y
<1>21. proc' = StartBlock(q4, body)
  BY <1>4
<1>22. SameContext(p2, q4)
  <2>1. cond \in InsnType /\ ProcOK(p2) /\ test \in 1..Len(p2.nodes)
    BY <1>9, <1>15, <1>18, <1>19 DEF Quiet, Good, m
  <2>2. ProcOK(Ops(StartBlock(p2, test), <<cond>>))
        /\ SameContext(p2, Ops(StartBlock(p2, test), <<cond>>))
    BY <2>1, StartOpLemma
  <2>3. body \in Nat \ {0} /\ end \in Nat \ {0}
    BY <1>1, <1>9
  <2> DEFINE r == Ops(StartBlock(p2, test), <<cond>>)
  <2>4. q4 = InstructCbr(r, body, end)
    BY DEF TestOp
  <2> HIDE DEF r, q4
  <2>5. SameContext(r, q4)
    BY <2>2, <2>3, <2>4, InstructCbrLemma DEF r
  <2> QED BY <2>2, <2>5 DEF r, SameContext, SameBreak
<1> HIDE DEF q4
<1>23. body \in V2 /\ U \cup {end} \subseteq V2 \ {body}
  BY <1>9 DEF V2, V
<1> HIDE DEF V2
<1> DEFINE V3 == V2 \ {body}
<1>24. Good(proc', m, scopes', F, W, V3, X) /\ SameContext(q4, proc')
  <2> DEFINE r == StartBlock(q4, body)
  <2>1. Good(r, m, scopes', F, W, V2 \ {body}, F[body]) /\ SameContext(q4, r)
    BY <1>20, <1>23, StartGood
  <2> QED BY <1>10, <1>21, <2>1
<1> HIDE DEF V3
<1>25. /\ f \in FrameType /\ Held(f) = {end} /\ Led(f) \subseteq {test, end}
       /\ f.kind = "loop" /\ f.break_scope = proc.current_break_scope
  BY <1>1, <1>9, LoopFrameLed
<1> HIDE DEF f
<1>26. PathOf(proc', scopes') = Append(PathOf(proc, scopes), s)
  BY <1>15, <1>22, <1>24 DEF PathOf, SameContext
<1>27. /\ PushedPath(proc, scopes, proc', scopes', f)
       /\ PathOf(proc', scopes')[Len(PathOf(proc, scopes)) + 1] = s
  <2>1. f.kind # "for" /\ ~scopes'[s].declared
    BY <1>15, <1>16, <1>25
  <2>2. PathOf(proc, scopes) \in Seq(Nat \ {0})
    <3>1. scopes[proc.current_scope] \in ScopeType
      BY <1>1, Here
    <3> QED BY <3>1, ScopeFields DEF PathOf
  <2> QED BY <1>1, <1>15, <1>26, <2>1, <2>2, OneScopePath DEF s
<1>28. PushedFrame(proc, scopes, proc', scopes', f)
  <2>1. proc'.current_break_scope = s
    BY <1>12, <1>13, <1>15, <1>22, <1>24 DEF SameContext, SameBreak
  <2> QED BY <1>25, <1>27, <2>1 DEF PushedFrame
<1>29. \A b \in Led(f) : F[b] = LiveHere(proc, scopes)
  BY <1>10, <1>25 DEF X
<1>30. /\ Fits(proc', scopes', F, W, V3, LiveHere(proc, scopes)) /\ ProcOK(proc')
  BY <1>24, SoundTypes DEF Good, X
<1>31. Promises(scopes, stack) \cup (Held(f) \ {NoBlock}) \subseteq V3
  BY <1>23, <1>25 DEF U, V3
<1> QED BY <1>3, <1>8, <1>17, <1>25, <1>27, <1>28, <1>29, <1>30, <1>31, PushAnnotated

LEMMA OpGood ==
    ASSUME NEW p, NEW n, NEW U, NEW sc, NEW E, NEW W, NEW X, Good(p, n, sc, E, W, U, X),
           Open(p), NEW insn, Quiet(sc, E, W, insn, X)
    PROVE  Good(Ops(p, <<insn>>), n, sc, E, W, U, X) /\ Open(Ops(p, <<insn>>))
<1>1. /\ Sound(p, U) /\ Len(sc) \in Nat /\ Fits(p, sc, E, W, U, X)
      /\ insn \in InsnType /\ insn.op \notin Branches /\ InsnOK(sc, E, W, insn, X, X)
      /\ Len(p.nodes) = n
  BY DEF Good, Quiet
<1>2. X \subseteq 1..Len(sc)
  BY <1>1, FitsTypes
<1> DEFINE q == Ops(p, <<insn>>)
<1>3. Fits(q, sc, E, W, U, X)
  BY <1>1, <1>2, OpFits
<1>4. Sound(q, U) /\ Open(q) /\ Len(q.nodes) = n
  BY <1>1, OpSound
<1> HIDE DEF q
<1>5. Good(q, n, sc, E, W, U, X) /\ Open(q)
  BY <1>1, <1>3, <1>4 DEF Good
<1> QED BY <1>5 DEF q

LEMMA CreateGood ==
    ASSUME NEW p, NEW n, NEW U, NEW sc, NEW E, NEW W, NEW X, Good(p, n, sc, E, W, U, X),
           NEW m \in Nat, NEW Z, Z \subseteq 1..Len(sc)
    PROVE  LET q == CreateBlocks(p, m)
           IN  /\ Good(q, n + m, sc, Extend(E, n, Z), W, U \cup ((n + 1)..(n + m)), X)
               /\ Open(p) <=> Open(q)
<1> DEFINE q == CreateBlocks(p, m)
           k == Len(p.nodes)
           F == Extend(E, k, Z)
           V == U \cup ((k + 1)..(k + m))
<1>1. Sound(p, U) /\ Len(sc) \in Nat /\ Fits(p, sc, E, W, U, X) /\ k = n
  BY DEF Good
<1>2. Fits(q, sc, F, W, V, X)
  BY <1>1, CreateFits
<1>3. Sound(q, V) /\ Len(q.nodes) = k + m /\ (Open(p) <=> Open(q))
  BY <1>1, CreateSound
<1> HIDE DEF q, F, V, k
<1>4. Good(q, k + m, sc, F, W, V, X) /\ (Open(p) <=> Open(q))
  BY <1>1, <1>2, <1>3 DEF Good
<1> QED BY <1>1, <1>4 DEF q, F, V

LEMMA FirstGood ==
    ASSUME CInv, AInv, IInv, stack # <<>>, NEW E, NEW W, Valid(E, W), list # "ended"
    PROVE  /\ Good(proc, Len(proc.nodes), scopes, E, W, Promises(scopes, stack),
                   LiveHere(proc, scopes))
           /\ Open(proc) /\ E[ENTRY_BLOCK] = {} /\ Lives(proc, scopes, stack, E)
<1>1. Sound(proc, Promises(scopes, stack)) /\ Open(proc) /\ Len(scopes) \in Nat
  BY Here DEF CInv, ListOK
<1> QED BY <1>1 DEF Valid, Annotated, Good

LEMMA ForFrameLed ==
    ASSUME IInv, stack # <<>>, NEW head \in Nat, NEW end \in Nat, NEW n \in Nat, end > n
    PROVE  LET f == Frame("for", head, <<>>, end)
           IN  /\ f \in FrameType /\ Held(f) = {end} /\ Led(f) \subseteq {head, end}
               /\ f.kind = "for" /\ f.break_scope = proc.current_break_scope
<1> DEFINE f == Frame("for", head, <<>>, end)
<1>1. f \in FrameType /\ Held(f) = {end}
  BY ForFrame
<1>2. f.kind = "for" /\ f.head = head /\ f.break_scope = proc.current_break_scope
  BY DEF Frame
<1>3. Led(f) \subseteq {head, end}
  BY <1>1, <1>2 DEF Led
<1> QED BY <1>1, <1>2, <1>3

(* The path of the list of a for ends with two scopes that are not live. *)
LEMMA TwoScopesPath ==
    ASSUME NEW p, NEW sc \in Seq(ScopeType), NEW q, NEW sd, MoreScopes(sc, sd),
           PathOf(p, sc) \in Seq(Nat \ {0}), Len(sd) = NextScope(sc) + 1,
           PathOf(q, sd) = Append(Append(PathOf(p, sc), NextScope(sc)), NextScope(sc) + 1),
           ~Live(sd[NextScope(sc)]), ~Live(sd[NextScope(sc) + 1]), NEW f, f.kind = "for"
    PROVE  /\ PushedPath(p, sc, q, sd, f)
           /\ PathOf(q, sd)[Len(PathOf(p, sc)) + 1] = NextScope(sc)
<1> DEFINE s == NextScope(sc)
<1>0. s = Len(sc) + 1
  BY DEF NextScope
<1> HIDE DEF s
<1>a. /\ Len(sd) = s + 1 /\ PathOf(q, sd) = Append(Append(PathOf(p, sc), s), s + 1)
      /\ ~Live(sd[s]) /\ ~Live(sd[s + 1])
  BY DEF s
<1> DEFINE old == PathOf(p, sc)
           n == Len(old)
           path == PathOf(q, sd)
<1>1. n \in Nat /\ Len(sc) \in Nat /\ s \in Nat
  BY <1>0
<1>2. /\ Len(path) = n + 2 /\ path[n + 1] = s /\ path[n + 2] = s + 1
      /\ \A i \in 1..n : path[i] = old[i]
  <2> DEFINE mid == Append(old, s)
  <2>1. /\ mid \in Seq(Nat) /\ Len(mid) = n + 1 /\ mid[n + 1] = s
        /\ \A i \in 1..n : mid[i] = old[i]
    BY <1>1
  <2>2. path = Append(mid, s + 1) /\ old \in Seq(Nat)
    BY <1>a
  <2> HIDE DEF mid, path, old
  <2> QED BY <1>1, <2>1, <2>2
<1>3. ForSize(f) = 2
  BY DEF ForSize
<1>4. s \in (Len(sc) + 1)..Len(sd) /\ s + 1 \in (Len(sc) + 1)..Len(sd)
  BY <1>0, <1>1, <1>a
<1>5. \A k \in (n + 1)..(n + 2) : k = n + 1 \/ k = n + 2
  BY <1>1
<1>6. PushedPath(p, sc, q, sd, f)
  BY <1>a, <1>2, <1>3, <1>4, <1>5 DEF PushedPath
<1> QED BY <1>2, <1>6 DEF s

LEMMA ForNumAnnotated ==
    ASSUME Scoped, IInv, IInv', CInv, AInv, stack # <<>>, NEW locals \in LocalLists,
           NEW label \in BOOLEAN, NEW step \in {"positive", "unknown"}, NEW escaped \in BOOLEAN,
           LinearizeForNum(step, escaped, locals, label)
    PROVE  AInv'
<1> DEFINE s == NextScope(scopes)
           none == <<>>
           fresh == NewScope(proc, Append(Current.path, s), none, FALSE)
           var == [fresh EXCEPT !.declared = TRUE]
           n == Len(proc.nodes)
           L1 == n + 1
           Lbody == IF step = "positive" THEN L1 + 2 ELSE L1 + 3
           Lend == Lbody + 1
           Lcount == Lend - L1 + 1
           op == Insn("op", <<>>, -1, s)
           p1 == StartScope(proc, s, var)
           q1 == Ops(p1, << op >>)
           p2 == CreateBlocks(q1, Lcount)
           q2 == InLoop(p2, Lend, s)
           q7 == ForCode(q2, step, L1, Lbody, op, op)
           body == NewScope(q7, Append(var.path, s + 1), locals, label)
           f == Frame("for", L1, <<>>, Lend)
           U == Promises(scopes, stack)
           X == LiveHere(proc, scopes)
<1>0. escaped = FALSE
  BY DEF LinearizeForNum, Scoped, Structured
<1>1. /\ proc' = StartScope(q7, s + 1, body)
      /\ scopes' = scopes \o << var, body >>
      /\ stack' = Append(stack, f) /\ list # "ended"
  BY <1>0 DEF LinearizeForNum, ForCode, NewBlock, NextScope, CanMeet
<1>2. /\ n \in Nat /\ s \in Nat /\ scopes \in Seq(ScopeType) /\ s = Len(scopes) + 1
      /\ Len(scopes) \in Nat /\ PathOf(proc, scopes) = Current.path
      /\ PathOf(proc, scopes) \in Seq(Nat \ {0}) /\ Current \in ScopeType
      /\ proc.current_scope \in 1..Len(scopes) /\ Current = scopes[proc.current_scope]
  BY Here, WalkingTypes DEF NextScope
<1>3. /\ var \in ScopeType /\ var.label_block = 0 /\ var.locals = <<>>
      /\ var.path = Append(Current.path, s)
  <2>1. none \in Seq({"plain", "escaped"})
    OBVIOUS
  <2> HIDE DEF none
  <2>2. /\ fresh \in ScopeType /\ fresh.label_block = NoBlock /\ fresh.locals = none
        /\ fresh.path = Append(Current.path, s)
    BY <2>1, NewHere
  <2> HIDE DEF fresh
  <2> QED BY <2>2 DEF ScopeType, NoBlock, none
<1> HIDE DEF fresh, var, none
<1>4. body.label_block = 0 /\ ~body.declared /\ body.path = Append(var.path, s + 1)
  BY DEF NewScope, NoBlock
<1> HIDE DEF body
<1>5. MoreShape(scopes, scopes') /\ ProcOK(proc')
  <2>1. MoreScopes(scopes, scopes')
    BY <1>1, <1>2, <1>3, <1>4, TwoScopes
  <2> QED BY <1>2, <2>1 DEF MoreShape, IInv, StateOK, ScopesOK
<1>6. Len(scopes') = s + 1 /\ scopes'[s] = var /\ scopes'[s + 1] = body
  BY <1>1, <1>2
<1> HIDE DEF s
<1>7. Harmless(scopes', s, X)
  <2>1. Harmless(scopes, proc.current_scope, X)
    BY HereFacts
  <2>2. scopes'[s].path = Append(scopes[proc.current_scope].path, s)
    BY <1>2, <1>3, <1>6
  <2>3. s \in 1..Len(scopes')
    BY <1>2, <1>6
  <2> QED BY <1>2, <2>1, <2>2, <2>3, HarmlessInside
<1>8. \A D, W : Quiet(scopes', D, W, op, X)
  BY <1>2, <1>7, HarmlessInsn DEF Quiet
<1>9. X \subseteq 1..Len(scopes')
  <2>1. X \subseteq 1..Len(scopes)
    BY HereFacts
  <2> QED BY <1>2, <1>6, <2>1
<1>10. PICK E, W : Valid(E, W)
  BY AnnotatedNow
<1>11. /\ Good(proc, n, scopes, E, W, U, X) /\ Open(proc)
       /\ E[ENTRY_BLOCK] = {} /\ Lives(proc, scopes, stack, E)
  BY <1>1, <1>10, FirstGood
<1>12. U \subseteq 1..n
  BY <1>11 DEF Good, Sound
<1> HIDE DEF U, X, op
<1>13. /\ p1.nodes = proc.nodes /\ p1.current_bb = proc.current_bb
       /\ Sound(p1, U)
  <2>1. Sound(proc, U)
    BY <1>11 DEF Good
  <2>2. Sound(p1, U) /\ p1.nodes = proc.nodes
    BY <1>2, <1>3, <2>1, StartScopeSound
  <2>3. proc \in ProcType
    BY <2>1, SoundTypes DEF ProcOK
  <2> QED BY <2>2, <2>3 DEF StartScope, ProcType
<1> HIDE DEF p1
<1>14. Good(p1, n, scopes', E, W, U, X) /\ Open(p1)
  <2>1. ProcOK(p1)
    BY <1>13, SoundTypes
  <2>2. Good(p1, n, scopes, E, W, U, X) /\ Open(p1)
    BY <1>11, <1>13, <2>1, ContextGood
  <2> QED BY <1>5, <2>2, ShapeGood
<1>15. Good(q1, n, scopes', E, W, U, X) /\ Open(q1)
  <2> HIDE DEF n
  <2> QED BY <1>8, <1>14, OpGood
<1> HIDE DEF q1
<1>16. /\ Lcount \in Nat /\ Lend \in Nat /\ L1 \in Nat \ {0} /\ Lbody \in Nat \ {0}
       /\ n + Lcount = Lend /\ L1 = n + 1 /\ Lend = Lbody + 1 /\ Lend > n
       /\ (n + 1)..Lend = L1..Lbody \cup {Lend} /\ Lend \notin L1..Lbody
       /\ \A b \in 1..n : b \notin L1..Lbody
       /\ \A b \in L1..(Lbody + 1) : b \in Nat /\ b > n
       /\ L1 > n
  BY <1>2, SMTT(20), ZenonT(40)
<1>17. Lbody = IF step = "positive" THEN L1 + 2 ELSE L1 + 3
  OBVIOUS
<1> HIDE DEF Lcount, Lend, L1, Lbody
<1> DEFINE F == Extend(E, n, X)
           V == U \cup ((n + 1)..Lend)
<1>18. Good(p2, Lend, scopes', F, W, V, X)
  <2>1. Good(p2, n + Lcount, scopes', F, W, U \cup ((n + 1)..(n + Lcount)), X)
    BY <1>9, <1>15, <1>16, CreateGood
  <2> HIDE DEF p2, F
  <2> QED BY <1>16, <2>1
<1>19. /\ SameEntries(proc, E, F)
       /\ \A b \in Nat : b > n => F[b] = X
  BY <1>2, ExtendSame
<1> HIDE DEF p2, F
<1>20. L1..Lbody \subseteq V /\ U \cup {Lend} \subseteq V \ (L1..Lbody)
  BY <1>12, <1>16
<1> HIDE DEF V
<1>21. /\ Good(q2, Lend, scopes', F, W, V, X)
       /\ q2.current_break_scope = s
  <2>1. Lend \in Nat /\ s \in Nat
    BY <1>2, <1>16
  <2> QED BY <1>18, <2>1, InLoopGood
<1> HIDE DEF q2
<1> DEFINE V2 == V \ (L1..Lbody)
<1>22. Good(q7, Lend, scopes', F, W, V2, X)
  <2>1. Good(q2, Lbody + 1, scopes', F, W, V, X) /\ Quiet(scopes', F, W, op, X)
    BY <1>8, <1>16, <1>21
  <2>2. \A b \in L1..(Lbody + 1) : F[b] = X
    BY <1>16, <1>19
  <2>3. L1 \in Nat \ {0} /\ L1..Lbody \subseteq V
    BY <1>16, <1>20
  <2>4. Good(q7, Lbody + 1, scopes', F, W, V \ (L1..Lbody), X)
    BY <1>17, <2>1, <2>2, <2>3, ForCodeGood
  <2> HIDE DEF q7
  <2> QED BY <1>16, <2>4
<1>23. SameContext(q2, q7)
  <2>1. ProcOK(q2) /\ Len(q2.nodes) = Lbody + 1 /\ op \in InsnType
    BY <1>8, <1>16, <1>21, SoundTypes DEF Good, Quiet
  <2>2. L1 \in Nat \ {0}
    BY <1>16
  <2> QED BY <1>17, <2>1, <2>2, ForCodeLemma
<1> HIDE DEF q7, V2
<1>24. /\ proc'.nodes = q7.nodes /\ proc'.current_bb = q7.current_bb
       /\ proc'.current_scope = s + 1 /\ proc'.current_break_scope = q7.current_break_scope
  <2>1. q7 \in ProcType
    BY <1>22, SoundTypes DEF Good, ProcOK
  <2> QED BY <1>1, <2>1 DEF StartScope, ProcType
<1>25. Good(proc', Lend, scopes', F, W, V2, X)
  BY <1>5, <1>22, <1>24, ContextGood
<1>26. /\ f \in FrameType /\ Held(f) = {Lend} /\ Led(f) \subseteq {L1, Lend}
       /\ f.kind = "for" /\ f.break_scope = proc.current_break_scope
  <2>1. IInv /\ stack # <<>> /\ L1 \in Nat /\ Lend \in Nat /\ n \in Nat /\ Lend > n
    BY <1>2, <1>16
  <2> HIDE DEF n
  <2> QED BY ONLY <2>1, ForFrameLed
<1> HIDE DEF f
<1>27. PathOf(proc', scopes') = Append(Append(PathOf(proc, scopes), s), s + 1)
  BY <1>2, <1>3, <1>4, <1>6, <1>24 DEF PathOf
<1>28. ~Live(scopes'[s]) /\ ~Live(scopes'[s + 1])
  <2>1. EscapedRegs(scopes'[s]) = {}
    BY <1>3, <1>6 DEF EscapedRegs
  <2> QED BY <1>4, <1>6, <2>1 DEF Live, NeedClose
<1>29. /\ PushedPath(proc, scopes, proc', scopes', f)
       /\ PathOf(proc', scopes')[Len(PathOf(proc, scopes)) + 1] = s
  <2>0. s = NextScope(scopes)
    BY DEF s
  <2>1. /\ scopes \in Seq(ScopeType) /\ MoreScopes(scopes, scopes')
        /\ PathOf(proc, scopes) \in Seq(Nat \ {0})
        /\ Len(scopes') = NextScope(scopes) + 1
        /\ PathOf(proc', scopes')
              = Append(Append(PathOf(proc, scopes), NextScope(scopes)), NextScope(scopes) + 1)
        /\ ~Live(scopes'[NextScope(scopes)]) /\ ~Live(scopes'[NextScope(scopes) + 1])
        /\ f.kind = "for"
    BY <1>2, <1>5, <1>6, <1>26, <1>27, <1>28, <2>0 DEF MoreShape
  <2> QED BY ONLY <2>0, <2>1, TwoScopesPath
<1>30. PushedFrame(proc, scopes, proc', scopes', f)
  <2>1. proc'.current_break_scope = s
    BY <1>21, <1>23, <1>24 DEF SameContext, SameBreak
  <2> QED BY <1>26, <1>29, <2>1 DEF PushedFrame
<1>31. \A b \in Led(f) : F[b] = LiveHere(proc, scopes)
  <2>1. F[L1] = X /\ F[Lend] = X
    BY <1>16, <1>19
  <2> QED BY <1>26, <2>1 DEF X
<1>32. Fits(proc', scopes', F, W, V2, LiveHere(proc, scopes))
  BY <1>25 DEF Good, X
<1>33. Promises(scopes, stack) \cup (Held(f) \ {NoBlock}) \subseteq V2
  BY <1>20, <1>26 DEF U, V2
<1> QED BY <1>1, <1>5, <1>11, <1>19, <1>26, <1>29, <1>30, <1>31, <1>32, <1>33, PushAnnotated

LEMMA IfFrameLed ==
    ASSUME IInv, stack # <<>>, NEW len \in Nat, NEW arm \in Nat, NEW last \in Nat,
           arm > len, arm <= last, NEW head \in Nat, head = NoBlock \/ head = last
    PROVE  LET f == Frame("if", head, [i \in 1..(last - arm) |-> arm + i], last + 1)
           IN  /\ f \in FrameType /\ Held(f) \subseteq (arm + 1)..(last + 1)
               /\ Led(f) \subseteq (arm + 1)..(last + 1)
               /\ f.kind = "if" /\ f.break_scope = proc.current_break_scope
<1> DEFINE arms == [i \in 1..(last - arm) |-> arm + i]
           end == last + 1
           f == Frame("if", head, arms, end)
           R == (arm + 1)..(last + 1)
<1>2. f \in FrameType /\ Held(f) \subseteq R
  BY IfFrame
<1>3. f.kind = "if" /\ f.break_scope = proc.current_break_scope
  BY DEF Frame
<1> HIDE DEF f, R
<1>4. Led(f) \subseteq R
  BY <1>2, <1>3 DEF Led
<1>5. /\ f \in FrameType /\ Held(f) \subseteq R /\ Led(f) \subseteq R
      /\ f.kind = "if" /\ f.break_scope = proc.current_break_scope
  BY <1>2, <1>3, <1>4
<1> QED BY <1>5 DEF f, arms, end, R

(* Any number of tests in the blocks of an if, that all promise the same. *)
LEMMA TestGood ==
    ASSUME NEW p, NEW n \in Nat, NEW len \in Nat, NEW U, NEW sc, NEW E, NEW W, NEW X,
           Good(p, n, sc, E, W, U, X), Harmless(sc, p.current_scope, X),
           \A b \in Nat : b > len => E[b] = X,
           NEW b \in Nat, b > len, b \in U, NEW t \in 1..n, t > len, NEW f \in 1..n, f > len
    PROVE  LET q == TestCond(p, b, t, f)
           IN  Good(q, n, sc, E, W, U \ {b}, X) /\ SameContext(p, q)
<1>1. E[b] = X /\ E[t] = X /\ E[f] = X
  OBVIOUS
<1>2. Alike(n, E, b, t, f)
  BY <1>1 DEF Alike
<1> QED BY <1>1, <1>2, TestCondGood

LEMMA IfAnnotated ==
    ASSUME IInv, CInv, AInv, stack # <<>>, NEW locals \in LocalLists, NEW label \in BOOLEAN,
           NEW n \in 1..MaxArms, NEW else \in BOOLEAN,
           LinearizeIf(n, else, locals, label)
    PROVE  AInv'
<1> DEFINE len == Len(proc.nodes)
           if1 == len + 1
           true == if1 + n
           last == IF else THEN true + n ELSE true + n - 1
           end == last + 1
           count == end - if1 + 1
           f1 == IF n = 2 THEN if1 + 1 ELSE true + 1
           q1 == CreateBlocks(proc, count)
           q2 == TestCond(q1, if1, true, f1)
           q3 == IF n = 2 THEN TestCond(q2, if1 + 1, true + 1, true + 2) ELSE q2
           q == StartBlock(q3, true)
           head == IF else THEN last ELSE NoBlock
           arms == [i \in 1..(last - true) |-> true + i]
           f == Frame("if", head, arms, end)
           U == Promises(scopes, stack)
           X == LiveHere(proc, scopes)
<1>1. /\ Enter(q, Current.path, locals, label) /\ stack' = Append(stack, f)
      /\ list # "ended"
  BY DEF LinearizeIf, NewBlock, CanMeet
<1>2. len \in Nat
  BY Here
<1>3. Sound(proc, U) /\ Open(proc)
  BY <1>1 DEF CInv, ListOK
<1>4. U \subseteq 1..len
  BY <1>3 DEF Sound
<1>5. /\ n \in {1, 2}
      /\ if1 \in Nat \ {0} /\ true \in Nat \ {0} /\ last \in Nat /\ end \in Nat \ {0}
      /\ if1 > len /\ true > len /\ end > len /\ true <= last
      /\ count \in Nat /\ len + count = end
      /\ if1 \in 1..end /\ true \in 1..end /\ end \in 1..end /\ true + 1 \in 1..end
      /\ if1 # true
      /\ n = 2 => /\ if1 + 1 \in 1..end /\ true + 2 \in 1..end
                  /\ if1 + 1 # if1 /\ if1 + 1 # true /\ if1 + 1 > len
  <2> HIDE DEF len
  <2>1. IfLayout(len, n, else, if1, true, last, end)
    BY DEF IfLayout
  <2> HIDE DEF if1, true, last, end, q1, q2, q3, q, arms, f, f1, head
  <2>2. IfRanges(len, n, if1, true, last, end)
    BY <1>2, <2>1, IfBlocks
  <2> QED BY <2>2 DEF IfRanges
<1>6. f1 \in 1..end /\ f1 > len /\ true + 1 > len /\ true + 2 > len
  BY <1>2, <1>5
<1>6a. if1 = len + 1 /\ true = if1 + n /\ end = last + 1
  OBVIOUS
<1>7. head = NoBlock \/ head = last
  OBVIOUS
<1> HIDE DEF U, last, true, if1, f1, head, count
<1>8. /\ f \in FrameType /\ Held(f) \subseteq (true + 1)..end /\ Led(f) \subseteq (true + 1)..end
      /\ f.kind = "if" /\ f.break_scope = proc.current_break_scope
  <2> HIDE DEF len
  <2>1. /\ IInv /\ stack # <<>> /\ len \in Nat /\ true \in Nat /\ last \in Nat
        /\ true > len /\ true <= last /\ head \in Nat /\ (head = NoBlock \/ head = last)
    BY <1>2, <1>5, <1>7 DEF NoBlock
  <2> QED BY ONLY <2>1, IfFrameLed
<1> HIDE DEF f, arms, end
<1> DEFINE V == U \cup (if1..end)
           W1 == V \ {if1}
           W2 == IF n = 2 THEN W1 \ {if1 + 1} ELSE W1
           W3 == W2 \ {true}
<1>10. if1 \in V /\ true \in W2 /\ (n = 2 => if1 + 1 \in W1)
  BY <1>2, <1>5, <1>6a
<1>11. U \cup ((true + 1)..end) \subseteq W3
  <2>1. ASSUME NEW b \in (true + 1)..end
        PROVE  b \in if1..end /\ b # if1 /\ b # true /\ (n = 2 => b # if1 + 1)
    BY <1>2, <1>5, <1>6a
  <2>2. ASSUME NEW b \in U PROVE b # if1 /\ b # true /\ (n = 2 => b # if1 + 1)
    BY <1>2, <1>4, <1>5
  <2> QED BY <2>1, <2>2
<1> HIDE DEF W1, W2, W3
<1>12. PICK E, W : Valid(E, W)
  BY AnnotatedNow
<1> DEFINE G == Extend(E, len, X)
<1>13. /\ Good(q1, end, scopes, G, W, V, X)
       /\ SameEntries(proc, E, G) /\ E[ENTRY_BLOCK] = {} /\ Lives(proc, scopes, stack, E)
       /\ \A b \in Nat : b > len => G[b] = X
       /\ SameContext(proc, q1) /\ Open(q1)
  <2>1. count \in Nat /\ Valid(E, W)
    BY <1>5, <1>12
  <2>2. /\ Good(q1, len + count, scopes, G, W, U \cup NewBlocks(count), X)
        /\ SameEntries(proc, E, G) /\ E[ENTRY_BLOCK] = {} /\ Lives(proc, scopes, stack, E)
        /\ \A b \in Nat : b > len => G[b] = X
        /\ SameContext(proc, q1) /\ Open(q1)
    <3> HIDE DEF V
    <3> QED BY <1>3, <2>1, NewBlocksGood DEF U
  <2>3. NewBlocks(count) = if1..end
    BY <1>5, <1>6a DEF NewBlocks
  <2> HIDE DEF q1, G, X, len
  <2> QED BY <1>5, <2>2, <2>3
<1> HIDE DEF q1, G, V
<1>14. Harmless(scopes, q1.current_scope, X)
  BY <1>13, HereFacts DEF SameContext
<1> HIDE DEF X, len
<1>15. Good(q2, end, scopes, G, W, W1, X) /\ SameContext(q1, q2)
  <2>1. /\ if1 \in Nat /\ end \in Nat /\ len \in Nat /\ if1 > len /\ true > len /\ f1 > len
        /\ true \in 1..end /\ f1 \in 1..end
    BY <1>2, <1>5, <1>6
  <2>2. /\ Good(q1, end, scopes, G, W, V, X) /\ Harmless(scopes, q1.current_scope, X)
        /\ \A b \in Nat : b > len => G[b] = X
    BY <1>13, <1>14
  <2> HIDE DEF q2
  <2>3. /\ Good(TestCond(q1, if1, true, f1), end, scopes, G, W, V \ {if1}, X)
        /\ SameContext(q1, TestCond(q1, if1, true, f1))
    BY ONLY <1>10, <2>1, <2>2, TestGood
  <2> QED BY <2>3 DEF W1, q2
<1> HIDE DEF q2
<1>16. Good(q3, end, scopes, G, W, W2, X) /\ SameContext(q1, q3)
  <2>1. CASE n = 2
    <3> DEFINE if2 == if1 + 1
               t == true + 1
               u == true + 2
    <3>1. q3 = TestCond(q2, if2, t, u) /\ W2 = W1 \ {if2}
      BY <2>1 DEF W2
    <3>2. /\ if2 \in W1 /\ if2 \in Nat /\ if2 > len /\ end \in Nat
          /\ t \in 1..end /\ u \in 1..end /\ t > len /\ u > len
      BY <1>5, <1>6, <1>10, <2>1
    <3>3. Harmless(scopes, q2.current_scope, X)
      BY <1>14, <1>15 DEF SameContext
    <3> HIDE DEF if2, t, u, q3, q
    <3>4. /\ Good(TestCond(q2, if2, t, u), end, scopes, G, W, W1 \ {if2}, X)
          /\ SameContext(q2, TestCond(q2, if2, t, u))
      BY <1>2, <1>13, <1>15, <3>2, <3>3, TestGood
    <3> QED BY <1>15, <3>1, <3>4 DEF SameContext, SameBreak
  <2>2. CASE n # 2
    <3>1. q3 = q2 /\ W2 = W1
      BY <2>2 DEF W2
    <3> HIDE DEF q3
    <3> QED BY <1>15, <3>1
  <2> QED BY <2>1, <2>2
<1> HIDE DEF q3
<1>17. G[true] = X
  BY <1>5, <1>13
<1>18. Good(q, end, scopes, G, W, W3, X) /\ Open(q) /\ SameContext(q3, q)
  <2>1. true \in W2 /\ Open(q3) => X = G[true]
    BY <1>10, <1>17
  <2>2. Good(q, end, scopes, G, W, W2 \ {true}, G[true]) /\ Open(q) /\ SameContext(q3, q)
    BY <1>10, <1>16, <1>17, StartGood
  <2> QED BY <1>17, <2>2 DEF W3
<1> HIDE DEF q
<1>19. EnterFlow(q, f, E, G, W, W3)
  <2>1. Sound(q, W3) /\ Fits(q, scopes, G, W, W3, X)
    BY <1>18 DEF Good
  <2>2. U \cup (Held(f) \ {NoBlock}) \subseteq W3
    BY <1>8, <1>11
  <2>3. \A b \in Led(f) : G[b] = X
    <3>1. \A b \in (true + 1)..end : b \in Nat /\ b > len
      BY <1>2, <1>5
    <3> QED BY <1>8, <1>13, <3>1
  <2> QED BY <1>13, <1>18, <2>1, <2>2, <2>3 DEF EnterFlow, X, U
<1>20. EnterFrame(q, f) /\ q.local_pseudos = proc.local_pseudos
  BY <1>8, <1>13, <1>16, <1>18 DEF EnterFrame, SameContext, SameBreak
<1> QED BY <1>1, <1>19, <1>20, EnterAnnotated

-----------------------------------------------------------------------------
(* The ends of statement lists. *)

(* The scopes around a scope of the path have their registers below its own. *)
LEMMA ScopeAbove ==
    ASSUME IInv, stack # <<>>, NEW k \in 1..Len(PathOf(proc, scopes))
    PROVE  LET s == PathOf(proc, scopes)[k]
               X == LiveAt(scopes, PathOf(proc, scopes), k)
               Y == LiveAt(scopes, PathOf(proc, scopes), k - 1)
           IN  /\ s \in 1..Len(scopes) /\ s \notin Y /\ X \ {s} = Y
               /\ s \in X => NeedClose(scopes[s])
               /\ OthersBelow(scopes, s, X) /\ OthersBelow(scopes, s, Y)
<1> DEFINE path == PathOf(proc, scopes)
           s == path[k]
           X == LiveAt(scopes, path, k)
           Y == LiveAt(scopes, path, k - 1)
<1>1. /\ Walking(proc, scopes, stack) /\ ScopesOK(scopes) /\ scopes \in Seq(ScopeType)
      /\ proc.current_scope \in 1..Len(scopes)
  BY Here
<1>2. /\ Len(path) \in Nat \ {0} /\ \A i \in 1..Len(path) : path[i] \in 1..Len(scopes)
  BY <1>1, WalkingTypes
<1>3. \A i, j \in 1..Len(path) :
         /\ i # j => path[i] # path[j]
         /\ i < j => \A q \in EscapedRegs(scopes[path[i]]),
                        r \in EscapedRegs(scopes[path[j]]) : q < r
  BY <1>1, PathOrder DEF PathOf
<1>4. /\ k \in 1..Len(path) /\ k \in Nat \ {0} /\ k - 1 \in Nat /\ (k - 1) + 1 = k
      /\ \A i \in 1..k : i \in 1..Len(path) /\ (i # k => i < k)
      /\ \A i \in 1..(k - 1) : i \in 1..Len(path) /\ i # k
  <2> HIDE DEF path
  <2>1. k \in 1..Len(path) /\ Len(path) \in Nat
    BY <1>2 DEF path
  <2> QED BY <2>1
<1>5. X = Y \cup (IF Live(scopes[s]) THEN {s} ELSE {})
  <2>1. X = LiveAt(scopes, path, (k - 1) + 1) /\ s = path[(k - 1) + 1]
    BY <1>4
  <2> DEFINE j == k - 1
  <2>2. j \in Nat
    BY <1>4
  <2>3. LiveAt(scopes, path, j + 1) =
           LiveAt(scopes, path, j) \cup (IF Live(scopes[path[j + 1]]) THEN {path[j + 1]} ELSE {})
    <3> HIDE DEF j, path
    <3> QED BY <2>2, LiveStep
  <2> QED BY <2>1, <2>3
<1>6. s \notin Y
  BY <1>3, <1>4 DEF LiveAt
<1>7. s \in X => NeedClose(scopes[s])
  BY <1>5, <1>6 DEF Live
<1>8. OthersBelow(scopes, s, X)
  <2> SUFFICES ASSUME NeedClose(scopes[s]), NEW t \in X, t # s
               PROVE  BelowReg(scopes, t, Minimum(EscapedRegs(scopes[s])))
    BY DEF OthersBelow
  <2>1. PICK i \in 1..k : t = path[i]
    BY DEF LiveAt
  <2>2. i < k /\ i \in 1..Len(path)
    BY <1>4, <2>1
  <2>3. Minimum(EscapedRegs(scopes[s])) \in EscapedRegs(scopes[s])
    <3>1. scopes[s] \in ScopeType
      BY <1>1, <1>2, <1>4
    <3> DEFINE z == 0
    <3>2. z \in Nat
      OBVIOUS
    <3> QED BY <3>1, <3>2, CloseTyped
  <2> HIDE DEF path, X, Y
  <2>4. \A q \in EscapedRegs(scopes[t]) : q < Minimum(EscapedRegs(scopes[s]))
    <3>1. k \in 1..Len(path) /\ s = path[k] /\ t = path[i]
      BY <1>4, <2>1
    <3> HIDE DEF s
    <3> QED BY <1>3, <2>2, <2>3, <3>1
  <2> QED BY <2>4 DEF BelowReg
<1>9. s \in 1..Len(scopes)
  BY <1>2, <1>4
<1>10. X \ {s} = Y
  BY <1>5, <1>6
<1>11. OthersBelow(scopes, s, Y)
  BY <1>8, <1>10 DEF OthersBelow
<1> HIDE DEF s, X, Y, path
<1>12. /\ s \in 1..Len(scopes) /\ s \notin Y /\ X \ {s} = Y
       /\ s \in X => NeedClose(scopes[s])
       /\ OthersBelow(scopes, s, X) /\ OthersBelow(scopes, s, Y)
  BY <1>6, <1>7, <1>8, <1>9, <1>10, <1>11
<1> QED BY <1>12 DEF s, X, Y, path

(* Closing from a scope of the path leaves those around it. *)
LEMMA CloseScope ==
    ASSUME IInv, stack # <<>>, NEW k \in 1..Len(PathOf(proc, scopes)),
           NEW E, NEW W, NEW U, NEW p, Sound(p, U), Closable(p),
           Fits(p, scopes, E, W, U, LiveAt(scopes, PathOf(proc, scopes), k))
    PROVE  LET s == PathOf(proc, scopes)[k]
           IN  Fits(InstructClose(p, p.current_bb, s, scopes[s]), scopes, E, W, U,
                    LiveAt(scopes, PathOf(proc, scopes), k - 1))
<1> DEFINE path == PathOf(proc, scopes)
           s == path[k]
           X == LiveAt(scopes, path, k)
           Y == LiveAt(scopes, path, k - 1)
<1>1. /\ s \in 1..Len(scopes) /\ X \ {s} = Y /\ (s \in X => NeedClose(scopes[s]))
      /\ OthersBelow(scopes, s, X) /\ scopes \in Seq(ScopeType)
  BY ScopeAbove, Here
<1>2. Fits(p, scopes, E, W, U, X)
  OBVIOUS
<1> HIDE DEF s, X, Y, path
<1>3. Fits(InstructClose(p, p.current_bb, s, scopes[s]), scopes, E, W, U, X \ {s})
  BY <1>1, <1>2, CloseHereFits
<1>4. Fits(InstructClose(p, p.current_bb, s, scopes[s]), scopes, E, W, U, Y)
  BY <1>1, <1>3
<1> QED BY <1>4 DEF s, Y, path

(* How many scopes are left when the innermost function returns. *)
LEMMA TopDepth ==
    ASSUME IInv, stack # <<>>, NEW kind, AtListEnd(kind), kind # "function"
    PROVE  /\ Len(stack) \in 1..Len(stack) /\ Len(stack) > 1
           /\ Depth(stack, Len(stack) - 1)
                = Len(PathOf(proc, scopes)) - (IF kind = "for" THEN 2 ELSE 1)
<1> DEFINE n == Len(stack)
<1>1. /\ Top.kind = kind /\ Len(stack) > 1 /\ Top = stack[n]
      /\ Walking(proc, scopes, stack)
  BY AtEnd, Here
<1>2. n \in Nat \ {0} /\ n \in 1..n
  BY <1>1, WalkingTypes
<1>3. Depth(stack, n) = Len(PathOf(proc, scopes))
  BY <1>1 DEF Walking, DepthOK, PathOf
<1>4. n = Len(stack) /\ n > 1
  BY <1>1
<1> HIDE DEF n
<1>5. /\ Depth(stack, n) \in Nat /\ Depth(stack, n - 1) \in Nat
      /\ stack[n].kind = "for" => Depth(stack, n) = Depth(stack, n - 1) + 2
      /\ stack[n].kind # "for" => Depth(stack, n) = Depth(stack, n - 1) + 1
  BY <1>2, DepthStep
<1>6. Depth(stack, n - 1) = Len(PathOf(proc, scopes)) - (IF kind = "for" THEN 2 ELSE 1)
  BY <1>1, <1>3, <1>5
<1> QED BY <1>2, <1>4, <1>6

LEMMA PopAnnotated ==
    ASSUME IInv, CInv, stack # <<>>, Len(stack) > 1, UNCHANGED scopes, stack' = Pop,
           PoppedPath(proc, scopes, stack, proc'),
           NEW E, Lives(proc, scopes, stack, E), E[ENTRY_BLOCK] = {},
           NEW F, SameEntries(proc, E, F), NEW W, NEW V,
           Fits(proc', scopes, F, W, V,
                LiveAt(scopes, PathOf(proc, scopes), Depth(stack, Len(stack) - 1))),
           Promises(scopes, stack) \ Held(Top) \subseteq V
    PROVE  AInv'
<1>1. /\ stack \in Seq(FrameType) /\ scopes \in Seq(ScopeType) /\ Top = stack[Len(stack)]
      /\ Len(stack) \in Nat
  BY Here
<1>2. StackApart(stack) /\ LabelsApart(scopes, stack)
  BY DEF CInv
<1>3. Promises(scopes, stack') \subseteq Promises(scopes, stack) \ Held(Top)
  <2>1. /\ stack \in Seq(FrameType) /\ Len(stack) >= 1 /\ StackApart(stack)
        /\ scopes \in Seq(ScopeType) /\ LabelsApart(scopes, stack)
    BY <1>1, <1>2
  <2>2. Promises(scopes, SubSeq(stack, 1, Len(stack) - 1))
          \subseteq Promises(scopes, stack) \ Held(stack[Len(stack)])
    BY ONLY <2>1, PopPromises
  <2>3. stack' = SubSeq(stack, 1, Len(stack) - 1)
    BY DEF Pop
  <2> QED BY <1>1, <2>2, <2>3
<1>4. LiveHere(proc', scopes)
         = LiveAt(scopes, PathOf(proc, scopes), Depth(stack, Len(stack) - 1))
  BY PopUnder
<1>5. Fits(proc', scopes, F, W, Promises(scopes, stack'), LiveHere(proc', scopes))
  <2>1. Promises(scopes, stack') \subseteq V
    BY <1>3
  <2> QED BY <1>4, <2>1, FewerFits
<1>6. Lives(proc', scopes, stack', F)
  BY PopLives DEF Pop
<1>7. F[ENTRY_BLOCK] = {}
  <2>1. ENTRY_BLOCK \in 1..Len(proc.nodes)
    BY Here DEF ENTRY_BLOCK
  <2> QED BY <2>1 DEF SameEntries
<1>8. Annotated(proc', scopes', stack', F, W, LiveHere(proc', scopes'))
  BY <1>5, <1>6, <1>7 DEF Annotated
<1> QED BY <1>8 DEF AInv

(* The code and the path after end_scope(). *)
LEMMA EndScopeFits ==
    ASSUME IInv, CInv, stack # <<>>, NEW E, NEW W, Valid(E, W),
           ProcOK(EndScope(proc, proc.current_scope, Current))
    PROVE  Fits(EndScope(proc, proc.current_scope, Current), scopes, E, W, Promises(scopes, stack),
                LiveAt(scopes, PathOf(proc, scopes), Len(PathOf(proc, scopes)) - 1))
<1> DEFINE n == Len(PathOf(proc, scopes))
           s == proc.current_scope
           q == EndScope(proc, s, Current)
           r == InstructClose(proc, proc.current_bb, s, scopes[s])
           U == Promises(scopes, stack)
           X == LiveAt(scopes, PathOf(proc, scopes), n)
           Y == LiveAt(scopes, PathOf(proc, scopes), n - 1)
<1>1. /\ Walking(proc, scopes, stack) /\ Current \in ScopeType /\ Current = scopes[s]
      /\ s \in 1..Len(scopes)
  BY Here
<1>2. n \in Nat \ {0} /\ PathOf(proc, scopes)[n] = s
  BY <1>1, WalkingTypes
<1>3. Fits(proc, scopes, E, W, U, X)
  BY DEF Valid, Annotated, LiveHere
<1>4. Sound(proc, U) /\ Closable(proc)
  BY DEF CInv, ListOK, Closable
<1>5. n \in 1..n /\ n = Len(PathOf(proc, scopes))
  BY <1>2
<1>6. Fits(r, scopes, E, W, U, Y)
  <2> HIDE DEF U, n, s
  <2>1. n \in 1..Len(PathOf(proc, scopes)) /\ s = PathOf(proc, scopes)[n]
    BY <1>2, <1>5
  <2> QED BY <1>3, <1>4, <2>1, CloseScope
<1>7. /\ Sound(r, U) /\ q = [r EXCEPT !.local_pseudos = @ \ Regs(Current),
                                      !.current_scope = Parent(Current)]
  <2>1. s \in Nat
    BY <1>1
  <2>2. Sound(r, U)
    BY <1>1, <1>4, <2>1, CloseHereSound
  <2> QED BY <1>1, <2>2 DEF EndScope
<1> HIDE DEF r
<1>8. r \in ProcType
  BY <1>7, SoundTypes DEF ProcOK
<1>9. q.nodes = r.nodes /\ q.current_bb = r.current_bb
  <2> HIDE DEF q
  <2> QED BY <1>7, <1>8 DEF ProcType
<1> HIDE DEF q, Y, U
<1>10. Fits(q, scopes, E, W, U, Y)
  BY <1>6, <1>9, ContextFits
<1> QED BY <1>10 DEF q, Y, U

LEMMA EndDoAnnotated ==
    ASSUME IInv, CInv, AInv, stack # <<>>, EndDo
    PROVE  AInv'
<1> DEFINE q == EndScope(proc, proc.current_scope, Current)
           U == Promises(scopes, stack)
           m == Depth(stack, Len(stack) - 1)
<1>1. AtListEnd("do") /\ stack' = Pop /\ UNCHANGED scopes /\ proc' = q
  BY DEF EndDo
<1>2. /\ ProcOK(q) /\ SameBreak(proc, q)
      /\ Len(PathOf(q, scopes)) = Len(PathOf(proc, scopes)) - 1
      /\ \A i \in 1..Len(PathOf(q, scopes)) : PathOf(q, scopes)[i] = PathOf(proc, scopes)[i]
  BY <1>1, EndOfScope
<1>3. Len(stack) > 1 /\ m = Len(PathOf(proc, scopes)) - 1
  BY <1>1, TopDepth
<1>4. proc.current_break_scope = Top.break_scope /\ Top = stack[Len(stack)]
  BY <1>1, AtEnd DEF Top
<1>5. PICK E, W : Valid(E, W)
  BY AnnotatedNow
<1>6. Fits(q, scopes, E, W, U, LiveAt(scopes, PathOf(proc, scopes), m))
  BY <1>2, <1>3, <1>5, EndScopeFits
<1>7. PoppedPath(proc, scopes, stack, q)
  BY <1>2, <1>3, <1>4 DEF PoppedPath, SameBreak
<1>8. Lives(proc, scopes, stack, E) /\ E[ENTRY_BLOCK] = {} /\ SameEntries(proc, E, E)
  BY <1>5 DEF Valid, Annotated, SameEntries
<1>9. U \ Held(Top) \subseteq U
  OBVIOUS
<1> QED BY <1>1, <1>3, <1>6, <1>7, <1>8, <1>9, PopAnnotated

LEMMA CloseAgainFits ==
    ASSUME NEW p, NEW U, Sound(p, U), Closable(p), scopes \in Seq(ScopeType), NEW E, NEW W,
           NEW X, Fits(p, scopes, E, W, U, X), NEW s \in 1..Len(scopes), NEW Z, X \ {s} = Z,
           s \in X => NeedClose(scopes[s]), OthersBelow(scopes, s, X)
    PROVE  Fits(InstructClose(p, p.current_bb, s, scopes[s]), scopes, E, W, U, Z)
BY CloseHereFits

(* After the list of a loop: what was closed, and the branch back. *)
LEMMA BackFits ==
    ASSUME Structured, IInv, CInv, stack # <<>>, NEW kind, AtListEnd(kind),
           kind \in {"loop", "for"},
           NEW E, NEW W, Valid(E, W)
    PROVE  LET s == proc.current_break_scope
               q1 == EndScope(proc, proc.current_scope, Current)
               q2 == InstructClose(q1, q1.current_bb, s, scopes[s])
               q3 == InstructBr(q2, Top.head)
               F == Extend(E, Len(proc.nodes), E[Top.head])
               m == Depth(stack, Len(stack) - 1)
           IN  /\ Fits(q3, scopes, F, W, Promises(scopes, stack), F[Top.exit])
               /\ ~Open(q3) /\ SameEntries(proc, E, F)
               /\ F[Top.exit] = LiveAt(scopes, PathOf(proc, scopes), m)
<1> DEFINE n == Len(PathOf(proc, scopes))
           s == proc.current_break_scope
           q1 == EndScope(proc, proc.current_scope, Current)
           q2 == InstructClose(q1, q1.current_bb, s, scopes[s])
           q3 == InstructBr(q2, Top.head)
           F == Extend(E, Len(proc.nodes), E[Top.head])
           m == Depth(stack, Len(stack) - 1)
           U == Promises(scopes, stack)
           Y == LiveAt(scopes, PathOf(proc, scopes), n - 1)
           Z == LiveAt(scopes, PathOf(proc, scopes), m)
<1>1. /\ s \in 1..Len(scopes) /\ Top.exit \in 1..Len(proc.nodes)
      /\ Top.head \in 1..Len(proc.nodes) /\ Held(Top) = {Top.exit} /\ Top.kind = kind
      /\ kind = "for" => n > 2 /\ IsVariable(scopes[PathOf(proc, scopes)[n - 1]])
  BY AtEnd
<1>2. /\ scopes \in Seq(ScopeType) /\ Len(proc.nodes) \in Nat /\ Walking(proc, scopes, stack)
      /\ Top = stack[Len(stack)] /\ ProcOK(proc) /\ Len(scopes) \in Nat
  BY Here
<1>3. n \in Nat \ {0} /\ PathOf(proc, scopes)[n] = proc.current_scope
      /\ \A i \in 1..n : PathOf(proc, scopes)[i] \in 1..Len(scopes)
  BY <1>2, WalkingTypes
<1>4. Len(stack) \in 1..Len(stack) /\ m = n - (IF kind = "for" THEN 2 ELSE 1)
  BY TopDepth
<1>5. /\ Sound(q1, U) /\ Len(q1.nodes) = Len(proc.nodes) /\ Closable(q1)
  BY EndReady
<1>6. ProcOK(q1)
  BY EndOfScope
<1>7. Fits(q1, scopes, E, W, U, Y)
  BY <1>6, EndScopeFits
<1>8. Lives(proc, scopes, stack, E)
  BY DEF Valid, Annotated
<1>9. s = PathOf(proc, scopes)[m + 1]
  <2>1. Len(stack) \in Loops(stack)
    <3>1. DOMAIN stack = 1..Len(stack)
      BY <1>2 DEF Walking, FramesOK
    <3> QED BY <1>1, <1>2, <1>4, <3>1 DEF Loops
  <2>2. BreakScopeOf(proc, stack, Len(stack)) = s
    BY DEF BreakScopeOf
  <2> QED BY <1>8, <2>1, <2>2 DEF Lives, LoopScopes
<1>10. /\ m \in Nat
       /\ kind = "loop" => m = n - 1
       /\ kind = "for" => m = n - 2 /\ n - 1 \in 1..n /\ m + 1 = n - 1
       /\ n - 1 \in Nat /\ (kind = "loop" => m + 1 = n)
  <2> HIDE DEF m, n
  <2> QED BY <1>1, <1>3, <1>4
<1>11. E[Top.head] = Z /\ E[Top.exit] = Z
  <2>1. Top.head # NoBlock /\ Top.exit # NoBlock
    BY <1>1, <1>2 DEF NoBlock
  <2>2. Top.head \in Led(Top) /\ Top.exit \in Led(Top)
    BY <1>1, <2>1 DEF Led
  <2> QED BY <1>2, <1>4, <1>8, <2>2 DEF Lives, FrameLive
<1> HIDE DEF q1, U, m, n
<1>12. Z \subseteq 1..Len(scopes)
  <2>1. \A i \in 1..m : i \in 1..n
    BY <1>3, <1>10
  <2> QED BY <1>3, <2>1 DEF LiveAt
<1>13. Y \ {s} = Z /\ (s \in Y => NeedClose(scopes[s])) /\ OthersBelow(scopes, s, Y)
  <2>1. CASE kind = "loop"
    <3>1. Y = Z /\ s = proc.current_scope
      BY <1>3, <1>9, <1>10, <2>1
    <3>2. s = PathOf(proc, scopes)[n]
      BY <1>3, <3>1
    <3>3. s \notin Y /\ OthersBelow(scopes, s, Y)
      <4>1. n \in 1..Len(PathOf(proc, scopes))
        BY <1>3 DEF n
      <4> QED BY <3>2, <4>1, ScopeAbove
    <3> QED BY <3>1, <3>3
  <2>2. CASE kind = "for"
    <3>1. IsVariable(scopes[s])
      BY <1>1, <1>9, <1>10, <2>2
    <3>2. scopes[s].locals = <<>>
      BY <3>1 DEF IsVariable, Structured
    <3>3. ~NeedClose(scopes[s])
      <4>1. DOMAIN scopes[s].locals = {}
        BY <3>2
      <4> QED BY <4>1 DEF EscapedRegs, NeedClose
    <3>4. Y = Z
      <4> DEFINE k == n - 1
      <4>1. k \in Nat \ {0} /\ k - 1 = m /\ ~Live(scopes[PathOf(proc, scopes)[k]])
        BY <1>1, <1>3, <1>9, <1>10, <2>2, <3>3 DEF Live
      <4> HIDE DEF k
      <4>2. LiveAt(scopes, PathOf(proc, scopes), k) = LiveAt(scopes, PathOf(proc, scopes), k - 1)
        BY <4>1, NotLive
      <4> QED BY <4>1, <4>2 DEF k
    <3>5. s \notin Y
      BY <3>3 DEF LiveAt, Live
    <3> QED BY <3>3, <3>4, <3>5 DEF OthersBelow
  <2> QED BY <2>1, <2>2
<1>14. Fits(q2, scopes, E, W, U, Z)
  BY <1>1, <1>2, <1>5, <1>7, <1>13, CloseAgainFits
<1>15. /\ Sound(q2, U) /\ Len(q2.nodes) = Len(proc.nodes)
  <2>1. s \in Nat /\ scopes[s] \in ScopeType
    BY <1>1, <1>2
  <2> QED BY <1>5, <2>1, CloseHereSound
<1> HIDE DEF q2, Z, Y, s
<1>16. Fits(q3, scopes, F, W, U, F[Top.exit])
  <2> DEFINE h == Top.head
             V == F[Top.exit]
             G == Extend(E, Len(q2.nodes), E[h])
  <2>1. h \in 1..Len(q2.nodes) /\ Open(q2) => EdgeOK(scopes, E, W, h, Z)
    BY <1>1, <1>11, <1>15, SameEdge
  <2>2. h \in 1..Len(q2.nodes) /\ G = F
    BY <1>1, <1>15
  <2> HIDE DEF h, V, F
  <2>3. Fits(InstructBr(q2, h), scopes, G, W, U, V)
    BY <1>2, <1>14, <1>15, <2>1, <2>2, BrFits
  <2> QED BY <2>2, <2>3 DEF h, V
<1>17. ~Open(q3)
  <2>1. ProcOK(q2) /\ Top.head \in Nat \ {0}
    BY <1>1, <1>2, <1>15, SoundTypes
  <2> QED BY <2>1, InstructBrLemma DEF Open
<1>18. SameEntries(proc, E, F)
  BY <1>2, ExtendSame
<1> HIDE DEF F, q3
<1>19. F[Top.exit] = Z
  BY <1>1, <1>11, <1>18 DEF SameEntries
<1>20. /\ Fits(q3, scopes, F, W, U, F[Top.exit]) /\ ~Open(q3) /\ SameEntries(proc, E, F)
       /\ F[Top.exit] = Z
  BY <1>16, <1>17, <1>18, <1>19
<1> QED BY <1>20 DEF q1, q2, q3, F, Z, U, m, s

(* The break target is not part of the code. *)
LEMMA RestoreFits ==
    ASSUME IInv, stack # <<>>, NEW p, ProcOK(p), NEW E, NEW W, NEW U, NEW X,
           Fits(p, scopes, E, W, U, X)
    PROVE  LET q == RestoreBreak(p)
           IN  /\ Fits(q, scopes, E, W, U, X)
               /\ q.current_scope = p.current_scope /\ q.current_break_scope = Top.break_scope
<1> DEFINE q == RestoreBreak(p)
<1>1. p \in ProcType
  BY DEF ProcOK
<1>2. /\ q.nodes = p.nodes /\ q.current_bb = p.current_bb /\ q.current_scope = p.current_scope
      /\ q.current_break_scope = Top.break_scope
  BY <1>1 DEF RestoreBreak, ProcType
<1> HIDE DEF q
<1>3. Fits(q, scopes, E, W, U, X)
  BY <1>2, ContextFits
<1> QED BY <1>2, <1>3 DEF q

LEMMA EndLoopAnnotated ==
    ASSUME Structured, IInv, CInv, AInv, stack # <<>>, EndLoop
    PROVE  AInv'
<1> DEFINE s == proc.current_break_scope
           q1 == EndScope(proc, proc.current_scope, Current)
           q2 == InstructClose(q1, q1.current_bb, s, scopes[s])
           q3 == InstructBr(q2, Top.head)
           q4 == StartBlock(q3, Top.exit)
           U == Promises(scopes, stack)
           m == Depth(stack, Len(stack) - 1)
           Z == LiveAt(scopes, PathOf(proc, scopes), m)
<1>1. /\ AtListEnd("loop") /\ stack' = Pop /\ UNCHANGED scopes /\ proc' = RestoreBreak(q4)
  BY DEF EndLoop
<1>2. /\ Sound(q3, U) /\ Top.exit \in U /\ Len(stack) > 1 /\ U \ {Top.exit} = U \ Held(Top)
  BY <1>1, BackSound
<1>3. PICK E, W : Valid(E, W)
  BY AnnotatedNow
<1> DEFINE F == Extend(E, Len(proc.nodes), E[Top.head])
<1>4. /\ Fits(q3, scopes, F, W, U, F[Top.exit])
      /\ ~Open(q3) /\ SameEntries(proc, E, F) /\ F[Top.exit] = Z
  BY <1>1, <1>3, BackFits
<1> HIDE DEF F
<1>5. m = Len(PathOf(proc, scopes)) - 1
  BY <1>1, TopDepth
<1>6. /\ ProcOK(q1) /\ CursorOK(q1, scopes) /\ Len(q1.nodes) = Len(proc.nodes)
      /\ Len(PathOf(q1, scopes)) = m
      /\ \A i \in 1..m : PathOf(q1, scopes)[i] = PathOf(proc, scopes)[i]
  BY <1>1, <1>5, EndOfScope
<1>7. s \in 1..Len(scopes) /\ Top.head \in Nat \ {0} /\ Top = stack[Len(stack)]
      /\ scopes \in Seq(ScopeType) /\ Len(scopes) \in Nat
  BY <1>1, AtEnd, Here
<1> HIDE DEF q1, U, Z, m
<1>8. q3.current_scope = q1.current_scope /\ ProcOK(q3)
  <2>1. s \in Nat /\ scopes[s] \in ScopeType /\ q1.current_bb \in 1..Len(q1.nodes)
    BY <1>6, <1>7 DEF ProcOK
  <2>2. ProcOK(q2) /\ SameContext(q1, q2)
    BY <1>6, <2>1, InstructCloseLemma
  <2> HIDE DEF q2
  <2>3. ProcOK(q3) /\ SameContext(q2, q3)
    BY <1>7, <2>2, InstructBrLemma
  <2> QED BY <2>2, <2>3 DEF SameContext
<1> HIDE DEF q3
<1> DEFINE V == U \ {Top.exit}
<1>9. Fits(q4, scopes, F, W, V, Z)
  <2>1. Fits(q4, scopes, F, W, U \ {Top.exit}, F[Top.exit])
    BY <1>2, <1>4, <1>7, StartFits
  <2> QED BY <1>4, <2>1
<1>10. ProcOK(q4) /\ q4.current_scope = q3.current_scope
  <2>1. Top.exit \in 1..Len(q3.nodes)
    BY <1>2 DEF Sound
  <2> QED BY <1>8, <2>1, StartBlockLemma DEF SameContext
<1> HIDE DEF q4, V
<1>11. /\ Fits(proc', scopes, F, W, V, Z)
       /\ proc'.current_scope = q1.current_scope /\ proc'.current_break_scope = Top.break_scope
  BY <1>1, <1>8, <1>9, <1>10, RestoreFits
<1>12. PoppedPath(proc, scopes, stack, proc')
  BY <1>6, <1>7, <1>11 DEF PoppedPath, PathOf, m
<1>13. Lives(proc, scopes, stack, E) /\ E[ENTRY_BLOCK] = {}
  BY <1>3 DEF Valid, Annotated
<1>14. Promises(scopes, stack) \ Held(Top) \subseteq V
  BY <1>2 DEF U, V
<1> QED BY <1>1, <1>2, <1>4, <1>11, <1>12, <1>13, <1>14, PopAnnotated DEF Z, m

LEMMA EndForNumAnnotated ==
    ASSUME Structured, IInv, CInv, AInv, stack # <<>>, EndForNum
    PROVE  AInv'
<1> DEFINE s == proc.current_break_scope
           q1 == EndScope(proc, proc.current_scope, Current)
           q2 == InstructClose(q1, q1.current_bb, s, scopes[s])
           q3 == InstructBr(q2, Top.head)
           v == q1.current_scope
           q4 == EndScope(q3, v, scopes[v])
           q5 == StartBlock(q4, Top.exit)
           U == Promises(scopes, stack)
           n == Len(PathOf(proc, scopes))
           m == Depth(stack, Len(stack) - 1)
           Z == LiveAt(scopes, PathOf(proc, scopes), m)
<1>1. /\ AtListEnd("for") /\ stack' = Pop /\ UNCHANGED scopes /\ proc' = RestoreBreak(q5)
  BY DEF EndForNum
<1>2. /\ Sound(q3, U) /\ Top.exit \in U /\ Len(stack) > 1 /\ U \ {Top.exit} = U \ Held(Top)
  BY <1>1, BackSound
<1>3. PICK E, W : Valid(E, W)
  BY AnnotatedNow
<1> DEFINE F == Extend(E, Len(proc.nodes), E[Top.head])
<1>4. /\ Fits(q3, scopes, F, W, U, F[Top.exit])
      /\ ~Open(q3) /\ SameEntries(proc, E, F) /\ F[Top.exit] = Z
  BY <1>1, <1>3, BackFits
<1> HIDE DEF F
<1>5. m = n - 2
  BY <1>1, TopDepth
<1>6. /\ ProcOK(q1) /\ CursorOK(q1, scopes) /\ Len(q1.nodes) = Len(proc.nodes)
      /\ Len(PathOf(q1, scopes)) = n - 1
      /\ \A i \in 1..(n - 1) : PathOf(q1, scopes)[i] = PathOf(proc, scopes)[i]
  BY <1>1, EndOfScope
<1>7. /\ s \in 1..Len(scopes) /\ Top.head \in Nat \ {0} /\ Top = stack[Len(stack)]
      /\ scopes \in Seq(ScopeType) /\ Len(scopes) \in Nat /\ ScopesOK(scopes)
      /\ n > 2 /\ IsVariable(scopes[PathOf(proc, scopes)[n - 1]])
  BY <1>1, AtEnd, Here
<1>7a. n \in Nat
  BY Here, WalkingTypes
<1> HIDE DEF q1, U, Z, m, n
<1>8. /\ q3.current_scope = v /\ q3.local_pseudos = q1.local_pseudos /\ ProcOK(q3)
  <2>1. s \in Nat /\ scopes[s] \in ScopeType /\ q1.current_bb \in 1..Len(q1.nodes)
    BY <1>6, <1>7 DEF ProcOK
  <2>2. ProcOK(q2) /\ SameContext(q1, q2)
    BY <1>6, <2>1, InstructCloseLemma
  <2> HIDE DEF q2
  <2>3. ProcOK(q3) /\ SameContext(q2, q3)
    BY <1>7, <2>2, InstructBrLemma
  <2> QED BY <2>2, <2>3 DEF SameContext
<1> HIDE DEF q3
<1>9. v \in 1..Len(scopes) /\ PathOf(q1, scopes)[n - 1] = v
  <2>1. v \in 1..Len(scopes)
    BY <1>6 DEF CursorOK
  <2> QED BY <1>6, <1>7, <2>1 DEF ScopesOK, ScopeOK, PathOf
<1>10. scopes[v].locals = <<>>
  <2>1. n - 1 \in 1..(n - 1)
    BY <1>7, <1>7a
  <2> QED BY <1>6, <1>7, <1>9, <2>1 DEF IsVariable, Structured
<1>11. InstructClose(q3, q3.current_bb, v, scopes[v]) = q3
  BY <1>10, NothingToClose
<1>12. /\ ProcOK(q4) /\ Len(PathOf(q4, scopes)) = m
       /\ \A i \in 1..m : PathOf(q4, scopes)[i] = PathOf(proc, scopes)[i]
  <2>1. CursorOK(q3, scopes)
    BY <1>6, <1>8 DEF CursorOK
  <2>2. PathOf(q3, scopes) = PathOf(q1, scopes)
    BY <1>8 DEF PathOf
  <2>3. Len(PathOf(q3, scopes)) > 1
    BY <1>6, <1>7, <1>7a, <2>2
  <2>4. /\ ProcOK(q4) /\ Len(PathOf(q4, scopes)) = Len(PathOf(q3, scopes)) - 1
        /\ \A i \in 1..Len(PathOf(q4, scopes)) : PathOf(q4, scopes)[i] = PathOf(q3, scopes)[i]
    <3> HIDE DEF q4
    <3> QED BY <1>7, <1>8, <2>1, <2>3, LeaveLemma DEF q4
  <2>5. m = (n - 1) - 1 /\ \A i \in 1..m : i \in 1..(n - 1)
    BY <1>5, <1>7, <1>7a
  <2> HIDE DEF q4
  <2> QED BY <1>6, <2>2, <2>4, <2>5
<1>13. q4.nodes = q3.nodes /\ q4.current_bb = q3.current_bb
  <2>1. q3 \in ProcType
    BY <1>8 DEF ProcOK
  <2> QED BY <1>11, <2>1 DEF EndScope, ProcType
<1> HIDE DEF v, q4
<1>14. Sound(q4, U) /\ Fits(q4, scopes, F, W, U, F[Top.exit]) /\ ~Open(q4)
  <2>1. ~Open(q4)
    BY <1>4, <1>13 DEF Open, IsBlockTerminated
  <2> QED BY <1>2, <1>4, <1>12, <1>13, <2>1, SameCode, ContextFits
<1> DEFINE V == U \ {Top.exit}
<1>15. Fits(q5, scopes, F, W, V, Z)
  <2>1. Fits(q5, scopes, F, W, U \ {Top.exit}, F[Top.exit])
    BY <1>2, <1>7, <1>14, StartFits
  <2> QED BY <1>4, <2>1
<1>16. ProcOK(q5) /\ q5.current_scope = q4.current_scope
  <2>1. Top.exit \in 1..Len(q4.nodes)
    BY <1>2, <1>14 DEF Sound
  <2> QED BY <1>12, <2>1, StartBlockLemma DEF SameContext
<1> HIDE DEF q5, V
<1>17. /\ Fits(proc', scopes, F, W, V, Z)
       /\ proc'.current_scope = q4.current_scope /\ proc'.current_break_scope = Top.break_scope
  BY <1>1, <1>15, <1>16, RestoreFits
<1>18. PoppedPath(proc, scopes, stack, proc')
  BY <1>7, <1>12, <1>17 DEF PoppedPath, PathOf, m
<1>19. Lives(proc, scopes, stack, E) /\ E[ENTRY_BLOCK] = {}
  BY <1>3 DEF Valid, Annotated
<1>20. Promises(scopes, stack) \ Held(Top) \subseteq V
  BY <1>2 DEF U, V
<1> QED BY <1>1, <1>2, <1>4, <1>17, <1>18, <1>19, <1>20, PopAnnotated DEF Z, m

(* The end of an arm of an if: it leads to the end of the if. *)
LEMMA EndedArmFits ==
    ASSUME IInv, CInv, stack # <<>>, AtListEnd("if"), NEW E, NEW W, Valid(E, W), NEW X
    PROVE  /\ Sound(EndedArm, Promises(scopes, stack)) /\ ~Open(EndedArm)
           /\ Fits(EndedArm, scopes, E, W, Promises(scopes, stack), X)
<1> DEFINE q1 == EndScope(proc, proc.current_scope, Current)
           U == Promises(scopes, stack)
           n == Len(PathOf(proc, scopes))
           m == Depth(stack, Len(stack) - 1)
           Y == LiveAt(scopes, PathOf(proc, scopes), n - 1)
<1>1. /\ Sound(q1, U) /\ Len(q1.nodes) = Len(proc.nodes)
  BY EndReady
<1>2. Sound(EndedArm, U)
  BY EndedArmSound
<1>3. Top.exit \in 1..Len(proc.nodes) /\ Top = stack[Len(stack)] /\ Len(proc.nodes) \in Nat
      /\ Len(scopes) \in Nat
  <2>1. Top.kind = "if" /\ FrameOK(proc, Top)
    BY AtEnd
  <2> QED BY <2>1, Here DEF FrameOK
<1>4. Len(stack) \in 1..Len(stack) /\ m = n - 1
  BY TopDepth
<1>5. ProcOK(q1)
  BY EndOfScope
<1>6. Fits(q1, scopes, E, W, U, Y)
  BY <1>5, EndScopeFits
<1>7. E[Top.exit] = Y
  <2>1. Top.exit \in Led(Top)
    BY <1>3 DEF Led, Held, NoBlock
  <2>2. E[Top.exit] = LiveAt(scopes, PathOf(proc, scopes), m)
    BY <1>3, <1>4, <2>1 DEF Valid, Annotated, Lives, FrameLive
  <2> QED BY <1>4, <2>2
<1> HIDE DEF U, Y, m, n
<1>8. CASE IsBlockTerminated(q1, q1.current_bb)
  <2>1. EndedArm = q1
    BY <1>8 DEF EndedArm
  <2>2. ~Open(q1)
    BY <1>8 DEF Open
  <2> HIDE DEF q1
  <2>3. Fits(q1, scopes, E, W, U, X)
    BY <1>6, <2>2, AnyScopes
  <2> QED BY <1>2, <2>1, <2>2, <2>3 DEF U
<1>9. CASE ~IsBlockTerminated(q1, q1.current_bb)
  <2> DEFINE b == Top.exit
             r == InstructBr(q1, b)
  <2>1. EndedArm = r /\ Open(q1)
    BY <1>9 DEF EndedArm, Open
  <2>2. b \in 1..Len(q1.nodes) /\ b \in Nat \ {0} /\ E[b] = Y
    BY <1>1, <1>3, <1>7
  <2> HIDE DEF q1, b
  <2>3. EdgeOK(scopes, E, W, b, Y)
    BY <2>2, SameEdge
  <2>4. Fits(r, scopes, E, W, U, X)
    BY <1>1, <1>3, <1>6, <2>1, <2>2, <2>3, BrHere
  <2>5. ~Open(r)
    BY <1>5, <2>2, InstructBrLemma DEF Open
  <2> QED BY <1>2, <2>1, <2>4, <2>5 DEF U
<1> QED BY <1>8, <1>9

LEMMA EndIfAnnotated ==
    ASSUME IInv, CInv, AInv, stack # <<>>, EndIf
    PROVE  AInv'
<1> DEFINE e == EndedArm
           b == Top.exit
           q == StartBlock(e, b)
           U == Promises(scopes, stack)
           V == U \ {b}
           m == Depth(stack, Len(stack) - 1)
           Z == LiveAt(scopes, PathOf(proc, scopes), m)
<1>1. /\ AtListEnd("if") /\ stack' = Pop /\ UNCHANGED scopes /\ proc' = q
  BY DEF EndIf
<1>2. PICK E, W : Valid(E, W)
  BY AnnotatedNow
<1>3. Sound(e, U) /\ ~Open(e) /\ Fits(e, scopes, E, W, U, Z)
  BY <1>1, <1>2, EndedArmFits
<1>4. /\ Len(stack) > 1 /\ \A c \in Held(Top) : c # NoBlock => c \in U
      /\ b \in Held(Top) /\ Len(proc.nodes) \in Nat
  BY <1>1, EndReady
<1>5. b # NoBlock /\ Top = stack[Len(stack)] /\ proc.current_break_scope = Top.break_scope
  <2>1. /\ Top.kind = "if" /\ FrameOK(proc, Top) /\ Top = stack[Len(stack)]
        /\ proc.current_break_scope = Top.break_scope
    BY <1>1, AtEnd, Here
  <2> QED BY <1>4, <2>1 DEF FrameOK, NoBlock
<1>6. m = Len(PathOf(proc, scopes)) - 1 /\ Len(stack) \in 1..Len(stack)
  BY <1>1, TopDepth
<1>7. Lives(proc, scopes, stack, E) /\ E[ENTRY_BLOCK] = {} /\ SameEntries(proc, E, E)
  BY <1>2 DEF Valid, Annotated, SameEntries
<1>8. E[b] = Z
  <2>1. b \in Led(Top)
    BY <1>4, <1>5 DEF Led
  <2> QED BY <1>5, <1>6, <1>7, <2>1 DEF Lives, FrameLive
<1>9. /\ ProcOK(e) /\ SameBreak(proc, e) /\ Len(PathOf(e, scopes)) = m
      /\ \A i \in 1..m : PathOf(e, scopes)[i] = PathOf(proc, scopes)[i]
  BY <1>1, <1>6, EndedArmLemma
<1>10. b \in U /\ Len(scopes) \in Nat
  BY <1>4, <1>5, Here
<1>11. U \ Held(Top) \subseteq V
  BY <1>4
<1> HIDE DEF e, U, m, Z
<1>12. Fits(q, scopes, E, W, V, E[b])
  BY <1>3, <1>10, StartFits
<1>13. PoppedPath(proc, scopes, stack, q)
  <2>1. b \in 1..Len(e.nodes)
    BY <1>3, <1>10 DEF Sound
  <2>2. SameContext(e, q)
    BY <1>9, <2>1, StartBlockLemma
  <2> HIDE DEF q
  <2> QED BY <1>5, <1>9, <2>2 DEF PoppedPath, PathOf, SameContext, SameBreak, m
<1> HIDE DEF q, V
<1>14. Fits(proc', scopes, E, W, V,
            LiveAt(scopes, PathOf(proc, scopes), Depth(stack, Len(stack) - 1)))
  BY <1>1, <1>8, <1>12 DEF Z, m
<1> QED BY <1>1, <1>4, <1>7, <1>11, <1>13, <1>14, PopAnnotated DEF U

(* The new arm is in a scope of its own, beside that of the arm before it. *)
LEMMA ArmEntered ==
    ASSUME IInv, IInv', stack # <<>>, NEW locals \in LocalLists, NEW label \in BOOLEAN,
           NextArm(locals, label)
    PROVE  /\ ArmPath(proc, scopes, proc', scopes') /\ MoreShape(scopes, scopes') /\ ProcOK(proc')
           /\ proc'.nodes = StartBlock(EndedArm, Head(Top.arms)).nodes
           /\ proc'.current_bb = StartBlock(EndedArm, Head(Top.arms)).current_bb
<1> DEFINE e == EndedArm
           b == Head(Top.arms)
           q == StartBlock(e, b)
           s == NextScope(scopes)
           path == Append(PathOf(e, scopes), s)
           new == NewScope(q, path, locals, label)
           n == Len(PathOf(proc, scopes))
<1>1. /\ AtListEnd("if") /\ Top.arms # <<>>
      /\ proc' = StartScope(q, s, new) /\ scopes' = Append(scopes, new)
  BY DEF NextArm, Enter, NextScope, PathOf
<1>2. /\ ProcOK(e) /\ SameBreak(proc, e) /\ Len(e.nodes) >= Len(proc.nodes)
      /\ Len(e.nodes) \in Nat /\ CursorOK(e, scopes)
      /\ Len(PathOf(e, scopes)) = n - 1
      /\ \A i \in 1..(n - 1) : PathOf(e, scopes)[i] = PathOf(proc, scopes)[i]
  BY <1>1, EndedArmLemma
<1> HIDE DEF e
<1>3. /\ Top.kind = "if" /\ FrameOK(proc, Top) /\ Top \in FrameType /\ Len(proc.nodes) \in Nat
      /\ ScopesOK(scopes) /\ PlacedOK(scopes) /\ scopes \in Seq(ScopeType)
      /\ Walking(proc, scopes, stack) /\ Len(scopes) \in Nat
  BY <1>1, AtEnd, Here DEF IInv, StateOK
<1>4. n \in Nat \ {0}
  BY <1>3, WalkingTypes
<1>5. b \in 1..Len(e.nodes)
  <2>1. \E k \in 1..Len(Top.arms) : Top.arms[k] = b
    BY <1>1, <1>3, TailLemma
  <2>2. b \in 1..Len(proc.nodes)
    BY <1>3, <2>1 DEF FrameOK
  <2> QED BY <1>2, <1>3, <2>2
<1> HIDE DEF b
<1>6. ProcOK(q) /\ SameContext(e, q)
  BY <1>2, <1>5, StartBlockLemma
<1> HIDE DEF q
<1>7. CursorOK(q, scopes) /\ PathOf(q, scopes) = PathOf(e, scopes)
  BY <1>2, <1>6 DEF CursorOK, PathOf, SameContext
<1>8. /\ ProcOK(proc') /\ SameBreak(q, proc') /\ proc'.nodes = q.nodes
      /\ MoreScopes(scopes, scopes') /\ PathOf(proc', scopes') = path
  BY <1>1, <1>3, <1>6, <1>7, EnterBelow
<1>9. proc'.current_bb = q.current_bb
  <2>1. q \in ProcType
    BY <1>6 DEF ProcOK
  <2> QED BY <1>1, <2>1 DEF StartScope, ProcType
<1>10. scopes' \in Seq(ScopeType) /\ ~new.declared
  BY DEF IInv, StateOK, ScopesOK, NewScope
<1> HIDE DEF new
<1>11. s = Len(scopes) + 1 /\ s \in Nat /\ Len(scopes') = s /\ scopes'[s] = new
  BY <1>1, <1>3 DEF NextScope
<1> HIDE DEF s, n
<1>12. PathOf(e, scopes) \in Seq(Nat)
  <2>1. scopes[e.current_scope] \in ScopeType
    BY <1>2, <1>3 DEF CursorOK
  <2> QED BY <2>1 DEF ScopeType, PathOf
<1>13. /\ Len(path) = n /\ path[n] = s /\ \A i \in 1..(n - 1) : path[i] = PathOf(proc, scopes)[i]
  <2> DEFINE old == PathOf(e, scopes)
  <2>1. /\ old \in Seq(Nat) /\ path = Append(old, s) /\ Len(old) = n - 1 /\ n \in Nat \ {0}
    BY <1>2, <1>4, <1>12
  <2> HIDE DEF old, path
  <2>2. Len(path) = n /\ path[n] = s /\ \A i \in 1..(n - 1) : path[i] = old[i]
    BY <1>11, <2>1
  <2> QED BY <1>2, <2>2 DEF old
<1> HIDE DEF path
<1>14. s \in (Len(scopes) + 1)..Len(scopes') /\ ~Live(scopes'[s])
  BY <1>3, <1>10, <1>11 DEF Live
<1>15. ArmPath(proc, scopes, proc', scopes')
  <2>1. SameBreak(proc, proc')
    BY <1>2, <1>6, <1>8 DEF SameContext, SameBreak
  <2> QED BY <1>8, <1>13, <1>14, <2>1 DEF ArmPath, n
<1> QED BY <1>3, <1>8, <1>9, <1>10, <1>15 DEF MoreShape, q, e, b

LEMMA NextArmAnnotated ==
    ASSUME IInv, IInv', CInv, AInv, stack # <<>>, NEW locals \in LocalLists, NEW label \in BOOLEAN,
           NextArm(locals, label)
    PROVE  AInv'
<1> DEFINE e == EndedArm
           b == Head(Top.arms)
           q == StartBlock(e, b)
           g == [Top EXCEPT !.arms = Tail(@)]
           U == Promises(scopes, stack)
           V == U \ {b}
           n == Len(PathOf(proc, scopes))
           Z == LiveAt(scopes, PathOf(proc, scopes), n - 1)
<1>1. AtListEnd("if") /\ stack' = [stack EXCEPT ![Len(stack)] = g] /\ Top.arms # <<>>
  BY DEF NextArm
<1>2. PICK E, W : Valid(E, W)
  BY AnnotatedNow
<1>3. Sound(e, U) /\ ~Open(e) /\ Fits(e, scopes, E, W, U, Z)
  BY <1>1, <1>2, EndedArmFits
<1>4. /\ b \in U /\ b \in Held(Top) /\ b # NoBlock
      /\ Promises(scopes', stack') \subseteq V /\ Sound(proc', V)
      /\ Len(stack') = Len(stack) /\ stack' \in Seq(FrameType)
      /\ \A i \in 1..(Len(stack) - 1) : stack'[i] = stack[i]
      /\ Held(stack'[Len(stack)]) \subseteq Held(Top)
  BY ArmPromises
<1>5. /\ ArmPath(proc, scopes, proc', scopes') /\ MoreShape(scopes, scopes') /\ ProcOK(proc')
      /\ proc'.nodes = q.nodes /\ proc'.current_bb = q.current_bb
  BY ArmEntered
<1>6. /\ Top.kind = "if" /\ Top = stack[Len(stack)] /\ Top \in FrameType /\ Len(stack) \in Nat \ {0}
      /\ Len(scopes) \in Nat /\ scopes \in Seq(ScopeType)
  BY <1>1, AtEnd, Here
<1>7. Lives(proc, scopes, stack, E) /\ E[ENTRY_BLOCK] = {} /\ SameEntries(proc, E, E)
  BY <1>2 DEF Valid, Annotated, SameEntries
<1>8. Len(stack) \in 1..Len(stack) /\ Depth(stack, Len(stack) - 1) = n - 1
  BY <1>1, TopDepth
<1>9. E[b] = Z
  <2>1. b \in Led(Top)
    BY <1>4 DEF Led
  <2> QED BY <1>6, <1>7, <1>8, <2>1 DEF Lives, FrameLive
<1>10. stack'[Len(stack)] = g /\ SameFrame(Top, g)
  <2>1. SameFrame(Top, g)
    BY <1>1, <1>6, TailLemma
  <2>2. stack'[Len(stack)] = g
    <3> HIDE DEF g
    <3> QED BY <1>1, <1>6, <1>8, Here
  <2> QED BY <2>1, <2>2
<1> HIDE DEF e, b, g, U, V, Z
<1>11. ArmStack(stack, stack')
  <2>1. DOMAIN stack' = 1..Len(stack)
    BY <1>4, <1>6
  <2>2. Led(g) \subseteq Led(Top)
    BY <1>4, <1>6, <1>10 DEF Led, SameFrame
  <2>3. ASSUME NEW i \in 1..Len(stack)
        PROVE  SameFrame(stack[i], stack'[i]) /\ Led(stack'[i]) \subseteq Led(stack[i])
    <3>1. CASE i = Len(stack)
      BY <1>6, <1>10, <2>2, <3>1
    <3>2. CASE i # Len(stack)
      <4>1. i \in 1..(Len(stack) - 1)
        BY <1>6, <3>2
      <4>2. stack'[i] = stack[i]
        BY <1>4, <4>1
      <4> QED BY <4>2 DEF SameFrame
    <3> QED BY <3>1, <3>2
  <2> QED BY <1>4, <2>1, <2>3 DEF ArmStack
<1>12. Lives(proc', scopes', stack', E)
  BY <1>5, <1>6, <1>7, <1>11, ArmLives
<1>13. LiveHere(proc', scopes') = Z
  BY <1>5, ArmUnder DEF Z
<1>14. Fits(q, scopes, E, W, V, Z)
  <2>1. Fits(q, scopes, E, W, U \ {b}, E[b])
    BY <1>3, <1>4, <1>6, StartFits
  <2> QED BY <1>9, <2>1 DEF V
<1> HIDE DEF q
<1>15. Fits(proc', scopes, E, W, V, Z)
  BY <1>5, <1>14, ContextFits
<1>16. Fits(proc', scopes', E, W, V, Z)
  BY <1>5, <1>15, MoreShapeSame, NodesTyped, ShapeFits
<1>17. Fits(proc', scopes', E, W, Promises(scopes', stack'), LiveHere(proc', scopes'))
  BY <1>4, <1>13, <1>16, FewerFits
<1>18. Annotated(proc', scopes', stack', E, W, LiveHere(proc', scopes'))
  BY <1>7, <1>12, <1>17 DEF Annotated
<1> QED BY <1>18 DEF AInv

LEMMA EndFunctionAnnotated ==
    ASSUME IInv, CInv, AInv, stack # <<>>, EndFunction
    PROVE  AInv'
<1> DEFINE q == EndScope(proc, proc.current_scope, Current)
           ret == Insn("ret", <<EXIT_BLOCK>>, -1, NoScope)
           U == Promises(scopes, stack)
           Y == LiveAt(scopes, PathOf(proc, scopes), Len(PathOf(proc, scopes)) - 1)
<1>1. /\ AtListEnd("function") /\ stack' = <<>> /\ UNCHANGED scopes
      /\ proc' = IF IsBlockTerminated(q, q.current_bb) THEN q ELSE AddInstruction(q, ret)
  BY DEF EndFunction
<1>2. /\ ProcOK(proc) /\ ScopesOK(scopes) /\ Current \in ScopeType
      /\ Current = scopes[proc.current_scope] /\ CursorOK(proc, scopes)
      /\ proc.current_scope \in Nat /\ Len(scopes) \in Nat
  BY Here
<1>3. Parent(Current) = NoScope
  BY <1>1, AtEndOfFunction
<1>4. ProcOK(q)
  <2>1. proc.local_pseudos = 0..(Current.base + Len(Current.locals) - 1)
    BY <1>2 DEF CursorOK
  <2>2. Parent(Current) \in Nat /\ proc.current_scope \in Nat
    BY <1>2, <1>3 DEF NoScope
  <2> QED BY <1>2, <2>1, <2>2, EndScopeLemma
<1>5. Sound(proc, U) /\ Closable(proc)
  BY DEF CInv, ListOK, Closable
<1>6. PICK E, W : Valid(E, W)
  BY AnnotatedNow
<1>7. E[ENTRY_BLOCK] = {}
  BY <1>6 DEF Valid, Annotated
<1>8. Fits(q, scopes, E, W, U, Y)
  BY <1>4, <1>6, EndScopeFits
<1> HIDE DEF U, Y
<1>9. Sound(q, U)
  BY <1>2, <1>4, <1>5, EndScopeSound
<1> HIDE DEF q
<1>10. Fits(proc', scopes, E, W, U, Y)
  <2>1. CASE IsBlockTerminated(q, q.current_bb)
    BY <1>1, <1>8, <2>1
  <2>2. CASE ~IsBlockTerminated(q, q.current_bb)
    <3>1. Open(q) /\ NoScope \in Nat
      BY <2>2 DEF Open, NoScope
    <3>2. Fits(AddInstruction(q, ret), scopes, E, W, U, Y)
      BY <1>2, <1>8, <1>9, <3>1, RetFits
    <3> QED BY <1>1, <2>2, <3>2
  <2> QED BY <2>1, <2>2
<1>11. Promises(scopes', stack') \subseteq U
  <2>1. HeldBy(stack') = {}
    BY <1>1 DEF HeldBy
  <2> QED BY <1>1, <2>1 DEF Promises, U
<1>12. Fits(proc', scopes', E, W, Promises(scopes', stack'), Y)
  BY <1>1, <1>10, <1>11, FewerFits
<1> QED BY <1>1, <1>7, <1>12 DEF AInv, Annotated

(* No local is live at the start of the function. *)
LEMMA FirstAnnotated ==
    ASSUME Init, IInv, CInv
    PROVE  AInv
<1> DEFINE E == [b \in Nat |-> {}]
           A == [b \in Nat |-> [i \in Nat |-> {}]]
           U == Promises(scopes, stack)
<1>1. PICK locals \in LocalLists, label \in BOOLEAN :
        LET empty == [nodes |-> << <<>>, <<>> >>, current_bb |-> ENTRY_BLOCK,
                      current_scope |-> NoScope, local_pseudos |-> {},
                      current_break_target |-> NoBlock,
                      current_break_scope |-> NoScope]
            main == NewScope(empty, <<1>>, locals, label)
        IN  /\ proc = StartScope(empty, 1, main)
            /\ scopes = <<main>>
            /\ stack = << [kind |-> "function", head |-> NoBlock, arms |-> <<>>,
                           exit |-> NoBlock, break_target |-> NoBlock,
                           break_scope |-> NoScope] >>
  BY DEF Init
<1> DEFINE empty == [nodes |-> << <<>>, <<>> >>, current_bb |-> ENTRY_BLOCK,
                     current_scope |-> NoScope, local_pseudos |-> {},
                     current_break_target |-> NoBlock,
                     current_break_scope |-> NoScope]
           main == NewScope(empty, <<1>>, locals, label)
           path == <<1>>
           f == [kind |-> "function", head |-> NoBlock, arms |-> <<>>, exit |-> NoBlock,
                 break_target |-> NoBlock, break_scope |-> NoScope]
           nodes == << <<>>, <<>> >>
<1>2. proc = StartScope(empty, 1, main) /\ scopes = <<main>> /\ stack = <<f>>
  BY <1>1
<1>3. proc.nodes = nodes /\ proc.current_scope = 1
  BY <1>2 DEF StartScope
<1>4. main.label_block = NoBlock /\ ~main.declared /\ main.path = path
  BY DEF NewScope
<1>5. f.arms = <<>> /\ f.exit = NoBlock /\ f.kind = "function"
  OBVIOUS
<1> HIDE DEF empty, main, f
<1>6. Led(f) = {}
  <2>1. Held(f) = {NoBlock}
    BY <1>5, OneBlock
  <2> QED BY <1>5, <2>1 DEF Led
<1>7. Len(nodes) = 2 /\ \A b \in 1..2 : nodes[b] = <<>>
  OBVIOUS
<1> HIDE DEF nodes
<1>8. Len(proc.nodes) = 2 /\ \A b \in 1..2 : Len(proc.nodes[b]) = 0
  BY <1>3, <1>7
<1>9. Len(stack) = 1 /\ stack[1] = f /\ Len(scopes) = 1 /\ scopes[1] = main
  BY <1>2
<1>10. Len(path) = 1 /\ path[1] = 1
  OBVIOUS
<1> HIDE DEF path
<1>11. PathOf(proc, scopes) = path
  BY <1>3, <1>4, <1>9 DEF PathOf
<1>12. \A k \in 0..1 : LiveAt(scopes, path, k) = {}
  BY <1>4, <1>9, <1>10 DEF LiveAt, Live
<1>13. LiveHere(proc, scopes) = {}
  <2>1. Len(PathOf(proc, scopes)) = 1 /\ 1 \in 0..1
    BY <1>10, <1>11
  <2>2. LiveAt(scopes, PathOf(proc, scopes), 1) = {}
    BY <1>11, <1>12, <2>1
  <2> QED BY <2>1, <2>2 DEF LiveHere
<1>14. Lives(proc, scopes, stack, E)
  <2>1. FrameLive(proc, scopes, stack, E)
    <3>1. \A i \in 1..Len(stack) : i = 1
      BY <1>9
    <3> QED BY <1>6, <1>9, <3>1 DEF FrameLive
  <2>2. LabelLive(proc, scopes, E)
    <3>1. \A k \in 1..Len(path) : k = 1
      BY <1>10
    <3>2. \A k \in 1..Len(path) : scopes[path[k]].label_block = NoBlock
      BY <1>4, <1>9, <1>10, <3>1
    <3> QED BY <1>11, <3>2 DEF LabelLive, Owed
  <2>3. LoopScopes(proc, scopes, stack)
    <3>1. \A i \in DOMAIN stack : i = 1
      BY <1>2
    <3>2. Loops(stack) = {}
      BY <1>5, <1>9, <3>1 DEF Loops
    <3> QED BY <3>2 DEF LoopScopes
  <2> QED BY <2>1, <2>2, <2>3 DEF Lives
<1>15. E[ENTRY_BLOCK] = {}
  BY DEF ENTRY_BLOCK
<1>16. Flow(proc, scopes, E, {}, U, A)
  <2>1. A \in Places
    <3>1. A \in [Nat -> [Nat -> SUBSET Nat]]
      OBVIOUS
    <3> QED BY <3>1 DEF Places
  <2>2. \A b \in 1..Len(proc.nodes) : b \in Nat /\ A[b][1] = E[b]
    BY <1>8
  <2>3. \A b \in 1..Len(proc.nodes) : CodeFlow(scopes, E, {}, proc.nodes[b], A[b])
    BY <1>8 DEF CodeFlow
  <2>4. U \subseteq 1..Len(proc.nodes)
    BY DEF CInv, Sound
  <2>5. \A b \in U : Steady(proc.nodes[b], A[b])
    BY <1>8, <2>4 DEF Steady
  <2>6. WOK(proc, {})
    BY DEF WOK
  <2> HIDE DEF A, E, U
  <2> QED BY <2>1, <2>2, <2>3, <2>5, <2>6 DEF Flow
<1>17. EndsWith(proc, A, {})
  <2>1. proc.current_bb = ENTRY_BLOCK
    BY <1>2 DEF StartScope, empty
  <2>2. EndOf(proc, A, proc.current_bb) = {}
    BY <1>8, <2>1 DEF EndOf, ENTRY_BLOCK
  <2> QED BY <2>2 DEF EndsWith
<1> HIDE DEF A, E, U
<1>18. Fits(proc, scopes, E, {}, U, {})
  BY <1>16, <1>17 DEF Fits
<1>19. Annotated(proc, scopes, stack, E, {}, {})
  BY <1>13, <1>14, <1>15, <1>18 DEF Annotated, U
<1> QED BY <1>19 DEF AInv

(* Every step of the linearizer keeps an annotation. *)
LEMMA KeptAnnotated ==
    ASSUME Scoped, IInv, CInv, AInv, Next
    PROVE  AInv'
<1>1. CASE Finished
  BY <1>1 DEF Finished, vars, AInv
<1>2. CASE Step
  <2>1. stack # <<>> /\ IInv' /\ Structured
    BY <1>2, Preserved DEF Step, Done, Scoped
  <2>2. CASE Simple
    <3>1. CASE LinearizeLocalStatement
      BY <2>1, <3>1, LocalStatementAnnotated
    <3>2. ~LinearizeLocalFunction
      BY LocalsComeFirst DEF LinearizeLocalFunction, CanMeet
    <3>3. CASE \E v \in Visible : LinearizeFunctionExpr(v)
      BY <2>1, <3>3, FunctionExprAnnotated
    <3>4. CASE LinearizeExpressionStatement
      BY <2>1, <3>4, ExpressionStatementAnnotated
    <3>5. CASE LinearizeReturn
      BY <2>1, <3>5, ReturnAnnotated
    <3>6. CASE LinearizeLabelStatement
      BY <2>1, <3>6, LabelStatementAnnotated
    <3>7. CASE \E i \in DOMAIN Current.path : LinearizeGoto(Current.path[i])
      BY <2>1, <3>7, GotoAnnotated
    <3>8. CASE LinearizeBreak
      BY <2>1, <3>8, BreakAnnotated
    <3>9. CASE HandleError
      BY <2>1, <3>9, HandleErrorAnnotated
    <3> QED BY <2>2, <3>1, <3>2, <3>3, <3>4, <3>5, <3>6, <3>7, <3>8, <3>9 DEF Simple
  <2>3. CASE Compound
    <3>1. PICK locals \in LocalLists, label \in BOOLEAN :
            \/ LinearizeDo(locals, label)
            \/ LinearizeWhile(locals, label)
            \/ LinearizeRepeat(locals, label)
            \/ \E step \in {"positive", "unknown"}, escaped \in BOOLEAN :
                  LinearizeForNum(step, escaped, locals, label)
            \/ \E n \in 1..MaxArms, else \in BOOLEAN : LinearizeIf(n, else, locals, label)
            \/ NextArm(locals, label)
      BY <2>3 DEF Compound
    <3>2. CASE LinearizeDo(locals, label)
      BY <2>1, <3>2, DoAnnotated
    <3>3. CASE LinearizeWhile(locals, label)
      BY <2>1, <3>3, WhileAnnotated
    <3>4. CASE LinearizeRepeat(locals, label)
      BY <2>1, <3>4, RepeatAnnotated
    <3>5. CASE \E step \in {"positive", "unknown"}, escaped \in BOOLEAN :
                  LinearizeForNum(step, escaped, locals, label)
      BY <2>1, <3>5, ForNumAnnotated
    <3>6. CASE \E n \in 1..MaxArms, else \in BOOLEAN : LinearizeIf(n, else, locals, label)
      BY <2>1, <3>6, IfAnnotated
    <3>7. CASE NextArm(locals, label)
      BY <2>1, <3>7, NextArmAnnotated
    <3> QED BY <3>1, <3>2, <3>3, <3>4, <3>5, <3>6, <3>7
  <2>4. CASE EndOfList
    <3>1. EndDo => AInv'
      BY <2>1, EndDoAnnotated
    <3>2. EndLoop => AInv'
      BY <2>1, EndLoopAnnotated
    <3>3. EndForNum => AInv'
      BY <2>1, EndForNumAnnotated
    <3>4. EndIf => AInv'
      BY <2>1, EndIfAnnotated
    <3>5. EndFunction => AInv'
      BY <2>1, EndFunctionAnnotated
    <3> QED BY <2>4, <3>1, <3>2, <3>3, <3>4, <3>5 DEF EndOfList
  <2> QED BY <1>2, <2>2, <2>3, <2>4 DEF Step
<1> QED BY <1>1, <1>2 DEF Next

(* The annotation, at the instruction the call is at: an open upvalue is   *)
(* of a live local or is closed by the instructions that come next; that   *)
(* of a live local has not been closed.                                    *)
OpenOK(X) ==
    \A v \in open :
        /\ v[1] \in 1..Len(scopes) /\ v[2] \in EscapedRegs(scopes[v[1]])
        /\ v[1] \in X \/ ClosesFirst(Code, pc[2], v[2])

DetachedOK(X) == \A v \in detached : v[1] \notin X

Tracked(E, W, A) ==
    /\ Flow(proc, scopes, E, W, Promises(scopes, stack), A)
    /\ OpenOK(A[pc[1]][pc[2]]) /\ DetachedOK(A[pc[1]][pc[2]])

DInv ==
    /\ pc = NotRunning => open = {} /\ detached = {}
    /\ Running => \E E, W, A : Tracked(E, W, A)

UInv == RInv /\ AInv /\ DInv

(* What the annotation says of the instruction the call is at. *)
LEMMA InsnTracked ==
    ASSUME Scoped, UInv, Running, NEW E, NEW W, NEW A, Tracked(E, W, A)
    PROVE  LET X == A[pc[1]][pc[2]]
               Y == A[pc[1]][pc[2] + 1]
           IN  /\ InsnOK(scopes, E, W, Insn0, X, Y)
               /\ X \subseteq 1..Len(scopes) /\ Y \subseteq 1..Len(scopes)
               /\ stack = <<>> /\ AtInsn /\ pc[2] \in Nat \ {0} /\ pc[2] \in 1..Len(Code)
               /\ Code \in Seq(InsnType) /\ Insn0 \in InsnType /\ Len(Code) \in Nat
               /\ Insn0.op # "close" => \A v \in open : v[1] \in X
               /\ scopes \in Seq(ScopeType)
               /\ \A v \in open : v[2] \in Nat
<1> DEFINE b == pc[1]
           i == pc[2]
           X == A[b][i]
           Y == A[b][i + 1]
<1>1. RInv /\ Structured
  BY DEF UInv, Scoped
<1>2. /\ stack = <<>> /\ AtInsn /\ b \in Blocks /\ b # EXIT_BLOCK
      /\ i \in Nat \ {0} /\ i \in 1..Len(Code)
  BY <1>1, AtInsnLemma
<1>3. Code \in Seq(InsnType) /\ Len(Code) \in Nat
  BY <1>1, <1>2, CompiledCode DEF RInv, Code
<1>4. Insn0 \in InsnType
  BY <1>2, <1>3 DEF Insn0
<1>5. CodeFlow(scopes, E, W, Code, A[b])
  BY <1>2 DEF Tracked, Flow, Blocks, Code
<1>6. InsnOK(scopes, E, W, Insn0, X, Y)
  BY <1>2, <1>5 DEF CodeFlow, Insn0
<1>7. X \subseteq 1..Len(scopes) /\ Y \subseteq 1..Len(scopes)
  <2>1. i \in 1..(Len(Code) + 1) /\ i + 1 \in 1..(Len(Code) + 1)
    BY <1>2, <1>3
  <2> QED BY <1>5, <2>1 DEF CodeFlow
<1>8. Insn0.op # "close" => \A v \in open : v[1] \in X
  <2> SUFFICES ASSUME Insn0.op # "close", NEW v \in open
               PROVE  v[1] \in X
    OBVIOUS
  <2>1. ASSUME ClosesFirst(Code, i, v[2]) PROVE FALSE
    <3>1. PICK j \in i..Len(Code) : \A k \in i..j : Code[k].op = "close"
      BY <2>1 DEF ClosesFirst
    <3>2. i \in i..j
      BY <1>2, <1>3, <3>1
    <3> QED BY <3>1, <3>2 DEF Insn0
  <2> QED BY <2>1 DEF Tracked, OpenOK
<1>9. scopes \in Seq(ScopeType)
  BY <1>1 DEF RInv, IInv, StateOK, ScopesOK
<1>10. \A v \in open : v[2] \in Nat
  <2> SUFFICES ASSUME NEW v \in open PROVE v[2] \in Nat
    OBVIOUS
  <2>1. v[1] \in 1..Len(scopes) /\ v[2] \in EscapedRegs(scopes[v[1]])
    BY DEF Tracked, OpenOK
  <2>2. scopes[v[1]] \in ScopeType
    BY <1>9, <2>1
  <2> QED BY <2>1, <2>2, EscapedInRegs
<1> QED BY <1>2, <1>3, <1>4, <1>6, <1>7, <1>8, <1>9, <1>10

LEMMA SafeHere ==
    ASSUME Scoped, UInv
    PROVE  FreshLocals /\ ClosedOutsideScope /\ SharedInScope
<1>1. CASE ~Running
  BY <1>1 DEF FreshLocals, ClosedOutsideScope, SharedInScope, Execute, AtInsn
<1>2. CASE Running
  <2>1. PICK E, W, A : Tracked(E, W, A)
    BY <1>2 DEF UInv, DInv
  <2> DEFINE X == A[pc[1]][pc[2]]
             Y == A[pc[1]][pc[2] + 1]
  <2>2. /\ InsnOK(scopes, E, W, Insn0, X, Y) /\ scopes \in Seq(ScopeType)
        /\ Insn0.op # "close" => \A v \in open : v[1] \in X
    BY <1>2, <2>1, InsnTracked
  <2>3. OpenOK(X) /\ DetachedOK(X)
    BY <2>1 DEF Tracked
  <2> HIDE DEF X, Y
  <2>4. FreshLocals
    <3> SUFFICES ASSUME Insn0.op = "init", NEW v \in open
                 PROVE  v[2] < Insn0.reg
      BY DEF FreshLocals, Execute
    <3>1. InitOK(scopes, Insn0, X, Y) /\ v[1] \in X
      BY <2>2 DEF InsnOK
    <3>2. v[2] \in EscapedRegs(scopes[v[1]])
      BY <2>3 DEF OpenOK
    <3> QED BY <3>1, <3>2 DEF InitOK, BelowReg
  <2>5. ClosedOutsideScope
    <3> SUFFICES ASSUME Insn0.op = "op", NEW v \in open
                 PROVE  v[1] \in Range(scopes[Insn0.scope].path)
      BY DEF ClosedOutsideScope, Execute
    <3>1. OpOK(scopes, Insn0, X, Y) /\ v[1] \in X
      BY <2>2 DEF InsnOK
    <3>2. PICK k \in 1..Len(scopes[Insn0.scope].path) : scopes[Insn0.scope].path[k] = v[1]
      BY <3>1 DEF OpOK
    <3>3. Insn0.scope \in 1..Len(scopes)
      BY <3>1 DEF OpOK
    <3>4. scopes[Insn0.scope] \in ScopeType
      BY <2>2, <3>3
    <3>5. scopes[Insn0.scope].path \in Seq(Nat \ {0})
      BY <3>4 DEF ScopeType
    <3> QED BY <3>5, <3>2, <3>3 DEF Range
  <2>6. SharedInScope
    <3> SUFFICES ASSUME Insn0.op \in {"use", "closure"}, Local \in detached
                 PROVE  FALSE
      BY DEF SharedInScope, Execute
    <3>1. Insn0.scope \in X
      BY <2>2 DEF InsnOK, UseOK
    <3>2. Local[1] = Insn0.scope
      BY DEF Local
    <3> QED BY <2>3, <3>1, <3>2 DEF DetachedOK
  <2> QED BY <2>4, <2>5, <2>6
<1> QED BY <1>1, <1>2

(* What happens to the upvalues when an instruction is executed that does  *)
(* not branch.                                                             *)
LEMMA AdvanceOK ==
    ASSUME Scoped, UInv, Running, RunOp \/ RunInitLocals \/ RunClosure \/ RunClose,
           NEW E, NEW W, NEW A, Tracked(E, W, A)
    PROVE  Tracked(E, W, A)'
<1> DEFINE b == pc[1]
           i == pc[2]
           X == A[b][i]
           Y == A[b][i + 1]
           r == Insn0.reg
<1>1. /\ InsnOK(scopes, E, W, Insn0, X, Y)
      /\ X \subseteq 1..Len(scopes)
      /\ i \in Nat \ {0} /\ i \in 1..Len(Code) /\ Len(Code) \in Nat
      /\ Code \in Seq(InsnType) /\ Insn0 \in InsnType
      /\ Insn0.op # "close" => \A v \in open : v[1] \in X
      /\ \A v \in open : v[2] \in Nat
  BY InsnTracked
<1>2. OpenOK(X) /\ DetachedOK(X) /\ Flow(proc, scopes, E, W, Promises(scopes, stack), A)
  BY DEF Tracked
<1>3. pc' = <<b, i + 1>> /\ UNCHANGED <<proc, scopes, stack>> /\ Code' = Code
  <2>1. Advance
    BY DEF RunOp, RunInitLocals, RunClosure, RunClose
  <2> QED BY <2>1 DEF Advance, vars, Code
<1>4. A[pc'[1]][pc'[2]] = Y /\ pc'[2] = i + 1
  BY <1>3
<1>5. Flow(proc, scopes, E, W, Promises(scopes, stack), A)'
  BY <1>2, <1>3
<1> HIDE DEF X, Y
<1>6. SUFFICES /\ \A v \in open' : /\ v[1] \in 1..Len(scopes) /\ v[2] \in EscapedRegs(scopes[v[1]])
                                   /\ v[1] \in Y \/ ClosesFirst(Code, i + 1, v[2])
               /\ \A v \in detached' : v[1] \notin Y
  BY <1>3, <1>4, <1>5 DEF Tracked, OpenOK, DetachedOK
<1>7. CASE RunOp
  <2>1. Insn0.op \in {"op", "use"} /\ UNCHANGED <<open, detached>>
    BY <1>7 DEF RunOp, Execute
  <2>2. Y = X
    BY <1>1, <2>1 DEF InsnOK, OpOK, UseOK
  <2> QED BY <1>1, <1>2, <2>1, <2>2 DEF OpenOK, DetachedOK
<1>8. CASE RunInitLocals
  <2>1. Insn0.op = "init" /\ UNCHANGED open
        /\ detached' = {v \in detached : v[1] # Insn0.scope}
    BY <1>8 DEF RunInitLocals, Execute
  <2>2. X \subseteq Y /\ Y \subseteq X \cup {Insn0.scope}
    BY <1>1, <2>1 DEF InsnOK, InitOK
  <2> QED BY <1>1, <1>2, <2>1, <2>2 DEF OpenOK, DetachedOK
<1>9. CASE RunClosure
  <2>1. Insn0.op = "closure" /\ UNCHANGED detached /\ open' = open \cup {Local}
    BY <1>9 DEF RunClosure, Execute
  <2>2. Y = X /\ Insn0.scope \in X /\ r \in EscapedRegs(scopes[Insn0.scope])
    BY <1>1, <2>1 DEF InsnOK, UseOK
  <2>3. Local[1] = Insn0.scope /\ Local[2] = r
    BY DEF Local
  <2> QED BY <1>1, <1>2, <2>1, <2>2, <2>3 DEF OpenOK, DetachedOK
<1>10. CASE RunClose
  <2>1. /\ Insn0.op = "close"
        /\ open' = {v \in open : ~(v[2] >= r)}
        /\ detached' = detached \cup {v \in open : v[2] >= r}
    BY <1>10 DEF RunClose, Execute
  <2>2. /\ Y \subseteq X
        /\ \A t \in Y : BelowReg(scopes, t, r)
        /\ \A t \in X \ Y : AboveReg(scopes, t, r)
    BY <1>1, <2>1 DEF InsnOK, CloseOK
  <2>3. r \in Int
    BY <1>1 DEF InsnType
  <2>4. ASSUME NEW v \in open, v[2] >= r
        PROVE  v[1] \notin Y
    <3>1. v[2] \in EscapedRegs(scopes[v[1]]) /\ v[2] \in Nat
      BY <1>1, <1>2 DEF OpenOK
    <3> HIDE DEF r
    <3>2. v[1] \in Y => v[2] < r
      BY <2>2, <3>1 DEF BelowReg
    <3> QED BY <2>3, <2>4, <3>1, <3>2
  <2>5. ASSUME NEW v \in open, ~(v[2] >= r)
        PROVE  v[1] \in Y \/ ClosesFirst(Code, i + 1, v[2])
    <3>1. /\ v[2] \in EscapedRegs(scopes[v[1]]) /\ v[2] \in Nat
          /\ v[1] \in X \/ ClosesFirst(Code, i, v[2])
      BY <1>1, <1>2 DEF OpenOK
    <3>2. CASE v[1] \in X
      <4>1. v[1] \notin X \ Y
        BY <2>2, <2>5, <3>1 DEF AboveReg
      <4> QED BY <3>2, <4>1
    <3>3. CASE ClosesFirst(Code, i, v[2])
      <4>1. PICK j \in i..Len(Code) :
               Code[j].reg <= v[2] /\ \A k \in i..j : Code[k].op = "close"
        BY <3>3 DEF ClosesFirst
      <4>2. Code[i].reg = r
        BY DEF Insn0
      <4> HIDE DEF r
      <4>3. j # i
        BY <2>3, <2>5, <3>1, <4>1, <4>2
      <4>4. j \in (i + 1)..Len(Code) /\ \A k \in (i + 1)..j : k \in i..j
        BY <1>1, <4>1, <4>3
      <4> QED BY <4>1, <4>4 DEF ClosesFirst
    <3> QED BY <3>1, <3>2, <3>3
  <2> QED BY <1>1, <1>2, <2>1, <2>2, <2>4, <2>5 DEF OpenOK, DetachedOK
<1> QED BY <1>7, <1>8, <1>9, <1>10

LEMMA BranchTracked ==
    ASSUME Scoped, UInv, Running, RunBranch, NEW E, NEW W, NEW A, Tracked(E, W, A)
    PROVE  Tracked(E, W, A)'
<1> DEFINE X == A[pc[1]][pc[2]]
           U == Promises(scopes, stack)
<1>1. /\ InsnOK(scopes, E, W, Insn0, X, A[pc[1]][pc[2] + 1])
      /\ Insn0.op # "close" => \A v \in open : v[1] \in X
      /\ Insn0 \in InsnType
  BY InsnTracked
<1>2. OpenOK(X) /\ DetachedOK(X) /\ Flow(proc, scopes, E, W, U, A)
  BY DEF Tracked
<1>3. /\ Insn0.op \in {"br", "cbr"} /\ UNCHANGED <<open, detached, proc, scopes, stack>>
  BY DEF RunBranch, Execute, vars
<1>4. PICK k \in DOMAIN Insn0.targets : pc' = <<Insn0.targets[k], 1>>
  BY DEF RunBranch
<1> DEFINE c == Insn0.targets[k]
<1>5. JumpOK(scopes, E, W, Insn0, X)
  BY <1>1, <1>3 DEF InsnOK
<1>6. k \in 1..Len(Insn0.targets)
  BY <1>1 DEF InsnType
<1>7. EdgeOK(scopes, E, W, c, X)
  BY <1>5, <1>6 DEF JumpOK
<1>8. c \in Blocks
  BY <1>3, BranchTargets DEF UInv, Scoped, Branches
<1>9. A[c][1] = E[c] /\ WOK(proc, W)
  BY <1>2, <1>8 DEF Flow, Blocks
<1>10. pc'[1] = c /\ pc'[2] = 1 /\ Code' = proc.nodes[c]
  BY <1>3, <1>4 DEF Code
<1> HIDE DEF c
<1>11. A[pc'[1]][pc'[2]] = E[c]
  BY <1>9, <1>10
<1>12. Flow(proc, scopes, E, W, Promises(scopes, stack), A)'
  BY <1>2, <1>3
<1> HIDE DEF X, U
<1>13. \A v \in open : /\ v[1] \in 1..Len(scopes) /\ v[2] \in EscapedRegs(scopes[v[1]])
                       /\ v[1] \in E[c] \/ ClosesFirst(proc.nodes[c], 1, v[2])
  <2> SUFFICES ASSUME NEW v \in open
               PROVE  /\ v[1] \in 1..Len(scopes) /\ v[2] \in EscapedRegs(scopes[v[1]])
                      /\ v[1] \in E[c] \/ ClosesFirst(proc.nodes[c], 1, v[2])
    OBVIOUS
  <2>1. /\ v[1] \in 1..Len(scopes) /\ v[2] \in EscapedRegs(scopes[v[1]]) /\ v[1] \in X
    BY <1>1, <1>2, <1>3 DEF OpenOK
  <2>2. ASSUME v[1] \notin E[c] PROVE ClosesFirst(proc.nodes[c], 1, v[2])
    <3>1. <<c, v[2]>> \in W
      BY <1>7, <2>1, <2>2 DEF EdgeOK
    <3> QED BY <1>9, <3>1 DEF WOK
  <2> QED BY <2>1, <2>2
<1>14. \A v \in detached : v[1] \notin E[c]
  BY <1>2, <1>7 DEF DetachedOK, EdgeOK
<1> QED BY <1>3, <1>10, <1>11, <1>12, <1>13, <1>14 DEF Tracked, OpenOK, DetachedOK

LEMMA UpvaluesTracked ==
    ASSUME Scoped, UInv, [RunNext]_<<vars, runVars>>
    PROVE  UInv'
<1>1. RInv /\ AInv /\ DInv /\ Structured
  BY DEF UInv, Scoped
<1>2. CASE UNCHANGED <<vars, runVars>>
  <2>1. RInv' /\ AInv'
    BY <1>1, <1>2 DEF runVars, vars, RInv, PcOK, Blocks, IInv, CountersOK, StateOK, CInv, AInv
  <2>2. DInv'
    BY <1>1, <1>2 DEF runVars, vars, DInv, Running, Tracked, OpenOK, DetachedOK, Code
  <2> QED BY <2>1, <2>2 DEF UInv
<1>3. CASE RunNext
  <2>1. RInv'
    BY <1>1, <1>3, StepsOK
  <2>2. CASE Compile
    <3>1. Step /\ UNCHANGED <<pc, open, detached>>
      BY <2>2 DEF Compile, runVars
    <3>2. AInv'
      BY <1>1, <3>1, KeptAnnotated DEF RInv, Next
    <3>3. stack # <<>>
      BY <3>1 DEF Step, Done
    <3>4. pc = NotRunning
      BY <1>1, <3>3 DEF RInv, PcOK
    <3>5. DInv'
      BY <1>1, <3>1, <3>4 DEF DInv, Running
    <3> QED BY <2>1, <3>2, <3>5 DEF UInv
  <2>3. CASE Call
    <3>1. /\ pc' = <<ENTRY_BLOCK, 1>> /\ pc = NotRunning
          /\ UNCHANGED <<proc, scopes, stack, open, detached>>
      BY <2>3 DEF Call, vars
    <3>2. open' = {} /\ detached' = {} /\ pc' # NotRunning
      BY <1>1, <3>1 DEF DInv, NotRunning, ENTRY_BLOCK
    <3>3. PICK E, W, X : Annotated(proc, scopes, stack, E, W, X)
      BY <1>1 DEF AInv
    <3>4. AInv'
      BY <3>1, <3>3 DEF AInv
    <3>5. PICK A : Flow(proc, scopes, E, W, Promises(scopes, stack), A)
      BY <3>3 DEF Annotated, Fits
    <3>6. Tracked(E, W, A)'
      BY <3>1, <3>2, <3>5 DEF Tracked, OpenOK, DetachedOK
    <3>7. DInv'
      BY <3>2, <3>6 DEF DInv
    <3> QED BY <2>1, <3>4, <3>7 DEF UInv
  <2>4. CASE RunStep
    <3>1. Running /\ UNCHANGED <<proc, scopes, stack>> /\ pc # NotRunning
      BY <2>4 DEF RunStep, RunOp, RunInitLocals, RunClosure, RunClose, RunBranch, RunReturn,
                  Execute, AtInsn, Advance, vars, Running
    <3>2. AInv'
      BY <1>1, <3>1 DEF AInv
    <3>3. PICK E, W, A : Tracked(E, W, A)
      BY <1>1, <3>1 DEF DInv
    <3>4. pc' # NotRunning
      <4>1. /\ pc[1] \in Blocks /\ Blocks \subseteq Nat \ {0}
            /\ stack = <<>>
        BY <1>1, <3>1, AtInsnLemma DEF Blocks
      <4>2. CASE RunOp \/ RunInitLocals \/ RunClosure \/ RunClose
        <5>1. pc' = <<pc[1], pc[2] + 1>>
          BY <4>2 DEF RunOp, RunInitLocals, RunClosure, RunClose, Advance
        <5> QED BY <4>1, <5>1 DEF NotRunning
      <4>3. CASE RunBranch
        <5>1. PICK k \in DOMAIN Insn0.targets : pc' = <<Insn0.targets[k], 1>>
          BY <4>3 DEF RunBranch
        <5> QED BY <5>1 DEF NotRunning
      <4>4. CASE RunReturn
        BY <4>4 DEF RunReturn, NotRunning
      <4> QED BY <2>4, <4>2, <4>3, <4>4 DEF RunStep
    <3>5. CASE RunOp \/ RunInitLocals \/ RunClosure \/ RunClose
      BY <2>1, <3>1, <3>2, <3>3, <3>4, <3>5, AdvanceOK DEF UInv, DInv
    <3>6. CASE RunBranch
      BY <2>1, <3>1, <3>2, <3>3, <3>4, <3>6, BranchTracked DEF UInv, DInv
    <3>7. CASE RunReturn
      <4>1. ~Running'
        BY <3>7 DEF RunReturn, Running
      <4> QED BY <2>1, <3>2, <3>4, <4>1 DEF UInv, DInv
    <3> QED BY <2>4, <3>5, <3>6, <3>7 DEF RunStep
  <2>5. CASE Over
    <3>1. AInv'
      BY <1>1, <2>5 DEF Over, vars, AInv
    <3>2. DInv'
      BY <1>1, <2>5 DEF Over, runVars, vars, DInv, Running, Tracked, OpenOK, DetachedOK, Code
    <3> QED BY <2>1, <3>1, <3>2 DEF UInv
  <2> QED BY <1>3, <2>2, <2>3, <2>4, <2>5 DEF RunNext
<1> QED BY <1>2, <1>3

LEMMA UInvKept ==
    ASSUME Scoped
    PROVE  RunSpec => []UInv
<1>1. RunInit => UInv
  <2> SUFFICES ASSUME RunInit PROVE UInv
    OBVIOUS
  <2>1. /\ Init /\ pc = NotRunning /\ open = {} /\ detached = {}
    BY DEF RunInit
  <2>2. IInv /\ CInv
    BY <2>1, Initially, FirstReady
  <2>3. AInv
    BY <2>1, <2>2, FirstAnnotated
  <2> QED BY <2>1, <2>2, <2>3 DEF UInv, RInv, PcOK, DInv, Running
<1>2. UInv /\ [RunNext]_<<vars, runVars>> => UInv'
  BY UpvaluesTracked
<1> QED BY <1>1, <1>2, PTL DEF RunSpec

(* A local is declared on a register that no closure shares any more: an   *)
(* iteration of a loop, and a scope that reuses the registers of one that  *)
(* was left, by whatever way, find no upvalue open there: end_scope(), the *)
(* break and the goto have closed them.                                    *)
(* Left out are the functions for which the code does not do that: see     *)
(* Scoped.                                                                 *)
THEOREM LocalsFresh ==
    ASSUME Scoped
    PROVE  RunSpec => []FreshLocals
<1>1. UInv => FreshLocals
  BY SafeHere
<1> QED BY <1>1, UInvKept, PTL

(* Outside a scope no closure shares the register of one of its locals,    *)
(* however the scope was left: at its end, by break, by goto out of any    *)
(* number of scopes, or by the end of a loop that goes on.                 *)
THEOREM ClosedWhenLeft ==
    ASSUME Scoped
    PROVE  RunSpec => []ClosedOutsideScope
<1>1. UInv => ClosedOutsideScope
  BY SafeHere
<1> QED BY <1>1, UInvKept, PTL

(* The other half: what closes the locals that are left closes none that   *)
(* is still in scope, on no path through the code, so that the function    *)
(* and its closures go on sharing the variable.                            *)
THEOREM SharedWhileInScope ==
    ASSUME Scoped
    PROVE  RunSpec => []SharedInScope
<1>1. UInv => SharedInScope
  BY SafeHere
<1> QED BY <1>1, UInvKept, PTL
=============================================================================
