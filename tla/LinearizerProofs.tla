-------------------------- MODULE LinearizerProofs --------------------------
(***************************************************************************)
(* The inductive invariant of Linearizer, preserved by each action, and    *)
(* the theorems it gives: the types of the state, that the registers and   *)
(* the break target are always those of the scopes and loops in progress,  *)
(* that no block of a compiled function is left without the branch that    *)
(* ends it, and that nothing is appended behind a branch.  The lemmas      *)
(* about the operations on struct Proc come first; the last part is about  *)
(* the code of the blocks while it is made.                                *)
(***************************************************************************)
EXTENDS Linearizer, TLAPS, FiniteSetTheorems

-----------------------------------------------------------------------------
(* Lemmas about the operations on struct Proc.  A block waits when it has  *)
(* no branch yet and is not the one being filled: somebody must still      *)
(* start it.                                                               *)
Waiting(p) ==
    {b \in 1..Len(p.nodes) : ~IsBlockTerminated(p, b) /\ b # p.current_bb}

ProcOK(p) == p \in ProcType /\ Len(p.nodes) >= 2 /\ p.current_bb \in 1..Len(p.nodes)

SameBreak(p, q) ==
    /\ q.current_break_target = p.current_break_target
    /\ q.current_break_scope = p.current_break_scope

SameContext(p, q) ==
    /\ q.current_scope = p.current_scope
    /\ q.local_pseudos = p.local_pseudos
    /\ SameBreak(p, q)

LEMMA ConcatLast ==
    ASSUME NEW S, NEW u \in Seq(S), NEW v \in Seq(S), Len(v) > 0
    PROVE  /\ u \o v # <<>> /\ Len(u \o v) = Len(u) + Len(v)
           /\ (u \o v)[Len(u \o v)] = v[Len(v)]
OBVIOUS

LEMMA ConcatFirst ==
    ASSUME NEW S, NEW u \in Seq(S), NEW v \in Seq(S)
    PROVE  /\ u \o v \in Seq(S) /\ Len(u \o v) = Len(u) + Len(v)
           /\ \A i \in 1..Len(u) : (u \o v)[i] = u[i]
OBVIOUS

LEMMA InsnTyped ==
    ASSUME NEW op \in Opcodes, NEW targets \in Seq(Nat \ {0}), NEW reg \in Int,
           NEW scope \in Nat
    PROVE  /\ Insn(op, targets, reg, scope) \in InsnType
           /\ Insn(op, targets, reg, scope).op = op
BY DEF Insn, InsnType

(* Appending code to a block changes nothing else. *)
LEMMA AppendCode ==
    ASSUME NEW p, ProcOK(p), NEW b \in 1..Len(p.nodes), NEW code \in Seq(InsnType)
    PROVE  LET q == AddCode(p, b, code)
           IN  /\ ProcOK(q) /\ SameContext(p, q) /\ Len(q.nodes) = Len(p.nodes)
               /\ q.current_bb = p.current_bb
               /\ q.nodes[b] = p.nodes[b] \o code
               /\ \A c \in 1..Len(p.nodes) : c # b => q.nodes[c] = p.nodes[c]
<1> DEFINE q == AddCode(p, b, code)
<1> DEFINE nodes == [p.nodes EXCEPT ![b] = @ \o code]
<1>1. p.nodes \in Seq(Seq(InsnType)) /\ p.nodes[b] \o code \in Seq(InsnType)
  BY DEF ProcOK, ProcType
<1>2. /\ nodes \in Seq(Seq(InsnType)) /\ Len(nodes) = Len(p.nodes)
      /\ nodes[b] = p.nodes[b] \o code
      /\ \A c \in 1..Len(p.nodes) : c # b => nodes[c] = p.nodes[c]
  BY <1>1
<1>3. q = [p EXCEPT !.nodes = nodes]
  BY DEF AddCode, ProcOK, ProcType
<1> HIDE DEF nodes
<1>4. q \in ProcType /\ q.nodes = nodes /\ q.current_bb = p.current_bb /\ SameContext(p, q)
  BY <1>2, <1>3 DEF ProcOK, ProcType, SameContext, SameBreak
<1> QED BY <1>2, <1>4 DEF ProcOK

(* Whatever is added, no other block starts waiting, and this one does not *)
(* if it is current or the code ends with a branch.                        *)
LEMMA AppendWaiting ==
    ASSUME NEW p, ProcOK(p), NEW b \in 1..Len(p.nodes), NEW code \in Seq(InsnType)
    PROVE  LET q == AddCode(p, b, code)
           IN  /\ Waiting(q) \subseteq Waiting(p) \cup ({b} \ {p.current_bb})
               /\ (code # <<>> /\ code[Len(code)].op \in Branches) => IsBlockTerminated(q, b)
<1> DEFINE q == AddCode(p, b, code)
<1>1. /\ Len(q.nodes) = Len(p.nodes) /\ q.current_bb = p.current_bb
      /\ q.nodes[b] = p.nodes[b] \o code
      /\ \A c \in 1..Len(p.nodes) : c # b => q.nodes[c] = p.nodes[c]
  BY AppendCode
<1>2. p.nodes[b] \in Seq(InsnType)
  BY DEF ProcOK, ProcType
<1>3. Waiting(q) \subseteq Waiting(p) \cup ({b} \ {p.current_bb})
  BY <1>1 DEF Waiting, IsBlockTerminated
<1>4. ASSUME code # <<>>, code[Len(code)].op \in Branches
      PROVE  IsBlockTerminated(q, b)
  <2>1. Len(code) \in Nat \ {0}
    BY <1>4
  <2>2. /\ q.nodes[b] # <<>>
        /\ Len(q.nodes[b]) = Len(p.nodes[b]) + Len(code)
        /\ q.nodes[b][Len(q.nodes[b])] = code[Len(code)]
    BY <1>1, <1>2, <2>1, ConcatLast
  <2> QED BY <1>4, <2>2 DEF IsBlockTerminated
<1> QED BY <1>3, <1>4

LEMMA AddInstructionLemma ==
    ASSUME NEW p, ProcOK(p), NEW insn \in InsnType
    PROVE  LET q == AddInstruction(p, insn)
           IN  /\ ProcOK(q) /\ SameContext(p, q) /\ Len(q.nodes) = Len(p.nodes)
               /\ q.current_bb = p.current_bb
               /\ Waiting(q) \subseteq Waiting(p)
               /\ insn.op \in Branches => IsBlockTerminated(q, q.current_bb)
<1> DEFINE q == AddInstruction(p, insn)
<1> DEFINE b == p.current_bb
           code == << insn >>
<1>1. b \in 1..Len(p.nodes) /\ code \in Seq(InsnType)
  BY DEF ProcOK, ProcType
<1>3. q = AddCode(p, b, code)
  BY DEF AddInstruction
<1>4. code # <<>> /\ code[Len(code)] = insn
  OBVIOUS
<1> HIDE DEF b, code
<1>5. /\ ProcOK(q) /\ SameContext(p, q) /\ Len(q.nodes) = Len(p.nodes)
      /\ q.current_bb = p.current_bb
  BY <1>1, <1>3, AppendCode
<1>6. /\ Waiting(q) \subseteq Waiting(p) \cup ({b} \ {p.current_bb})
      /\ (code # <<>> /\ code[Len(code)].op \in Branches) => IsBlockTerminated(q, b)
  BY <1>1, <1>3, AppendWaiting
<1> QED BY <1>4, <1>5, <1>6 DEF b

LEMMA OpsLemma ==
    ASSUME NEW p, ProcOK(p), NEW code \in Seq(InsnType)
    PROVE  LET q == Ops(p, code)
           IN  /\ ProcOK(q) /\ SameContext(p, q) /\ Len(q.nodes) = Len(p.nodes)
               /\ q.current_bb = p.current_bb
               /\ Waiting(q) \subseteq Waiting(p)
               /\ code # <<>> /\ code[Len(code)].op \in Branches => IsBlockTerminated(q, q.current_bb)
<1> DEFINE q == Ops(p, code)
<1> DEFINE b == p.current_bb
<1>1. b \in 1..Len(p.nodes)
  BY DEF ProcOK
<1>2. q = AddCode(p, b, code)
  BY DEF Ops
<1> HIDE DEF b
<1>3. /\ ProcOK(q) /\ SameContext(p, q) /\ Len(q.nodes) = Len(p.nodes)
      /\ q.current_bb = p.current_bb
  BY <1>1, <1>2, AppendCode, SMTT(40)
<1>4. /\ Waiting(q) \subseteq Waiting(p) \cup ({b} \ {p.current_bb})
      /\ (code # <<>> /\ code[Len(code)].op \in Branches) => IsBlockTerminated(q, b)
  BY <1>1, <1>2, AppendWaiting
<1> QED BY <1>3, <1>4 DEF b

LEMMA CreateBlocksLemma ==
    ASSUME NEW p, ProcOK(p), NEW n \in Nat
    PROVE  LET q == CreateBlocks(p, n)
           IN  /\ ProcOK(q) /\ SameContext(p, q) /\ Len(q.nodes) = Len(p.nodes) + n
               /\ q.current_bb = p.current_bb
               /\ Waiting(q) \subseteq Waiting(p) \cup ((Len(p.nodes) + 1)..(Len(p.nodes) + n))
<1> DEFINE q == CreateBlocks(p, n)
<1> DEFINE new == [i \in 1..n |-> <<>>]
           nodes == p.nodes \o new
<1>1. p.nodes \in Seq(Seq(InsnType)) /\ new \in Seq(Seq(InsnType)) /\ Len(new) = n
  <2>1. <<>> \in Seq(InsnType)
    OBVIOUS
  <2> QED BY <2>1 DEF ProcOK, ProcType
<1> HIDE DEF new
<1>2. /\ nodes \in Seq(Seq(InsnType)) /\ Len(nodes) = Len(p.nodes) + n
      /\ \A b \in 1..Len(p.nodes) : nodes[b] = p.nodes[b]
  BY <1>1, ConcatFirst
<1>3. q = [p EXCEPT !.nodes = nodes]
  BY DEF CreateBlocks, ProcOK, ProcType, new
<1> HIDE DEF nodes
<1>4. q \in ProcType /\ q.nodes = nodes /\ q.current_bb = p.current_bb /\ SameContext(p, q)
  BY <1>2, <1>3 DEF ProcOK, ProcType, SameContext, SameBreak
<1>5. ProcOK(q) /\ Len(q.nodes) = Len(p.nodes) + n
  BY <1>1, <1>2, <1>4, SMTT(40) DEF ProcOK
<1>6. Waiting(q) \subseteq Waiting(p) \cup ((Len(p.nodes) + 1)..(Len(p.nodes) + n))
  <2>1. Len(p.nodes) \in Nat
    BY DEF ProcOK, ProcType
  <2>2. ASSUME NEW b \in 1..Len(p.nodes), IsBlockTerminated(p, b)
        PROVE  IsBlockTerminated(q, b)
    BY <1>2, <1>4, <2>2 DEF IsBlockTerminated
  <2> QED BY <1>4, <1>5, <2>1, <2>2 DEF Waiting
<1> QED BY <1>4, <1>5, <1>6

LEMMA StartBlockLemma ==
    ASSUME NEW p, ProcOK(p), NEW b \in 1..Len(p.nodes)
    PROVE  LET q == StartBlock(p, b)
           IN  /\ ProcOK(q) /\ SameContext(p, q) /\ Len(q.nodes) = Len(p.nodes)
               /\ q.current_bb = b
               /\ Waiting(q) \subseteq Waiting(p) \ {b}
<1> DEFINE q == StartBlock(p, b)
<1> DEFINE insn == Insn("br", <<b>>, -1, p.current_scope)
           r == IF IsBlockTerminated(p, p.current_bb) THEN p ELSE AddInstruction(p, insn)
<1>1. insn \in InsnType /\ insn.op = "br"
  <2>1. <<b>> \in Seq(Nat \ {0}) /\ p.current_scope \in Nat /\ "br" \in Opcodes
    BY DEF Opcodes, ProcOK, ProcType
  <2> QED BY <2>1 DEF Insn, InsnType
<1> HIDE DEF insn
<1>2. /\ ProcOK(r) /\ SameContext(p, r) /\ Len(r.nodes) = Len(p.nodes)
      /\ r.current_bb = p.current_bb
      /\ Waiting(r) \subseteq Waiting(p)
      /\ IsBlockTerminated(r, r.current_bb)
  BY <1>1, AddInstructionLemma DEF Branches, SameContext, SameBreak
<1>3. q = [r EXCEPT !.current_bb = b]
  BY DEF StartBlock, r, insn
<1> HIDE DEF r
<1>4. /\ q \in ProcType /\ q.nodes = r.nodes /\ q.current_bb = b /\ SameContext(r, q)
  <2>1. r \in ProcType /\ b \in Nat
    BY <1>2 DEF ProcOK, ProcType
  <2> QED BY <1>3, <2>1 DEF ProcType, SameContext, SameBreak
<1>5. Waiting(q) \subseteq Waiting(r) \ {b}
  BY <1>2, <1>4 DEF Waiting, IsBlockTerminated
<1> QED BY <1>2, <1>4, <1>5 DEF ProcOK, SameContext, SameBreak

LEMMA InstructBrLemma ==
    ASSUME NEW p, ProcOK(p), NEW b \in Nat \ {0}
    PROVE  LET q == InstructBr(p, b)
           IN  /\ ProcOK(q) /\ SameContext(p, q)
               /\ Len(q.nodes) >= Len(p.nodes)
               /\ IsBlockTerminated(q, q.current_bb)
               /\ Waiting(q) \subseteq Waiting(p)
<1> DEFINE q == InstructBr(p, b)
<1> DEFINE r == IF IsBlockTerminated(p, p.current_bb)
                THEN StartBlock(CreateBlocks(p, 1), NewBlock(p)) ELSE p
           insn == Insn("br", <<b>>, -1, p.current_scope)
<1>1. insn \in InsnType /\ insn.op = "br"
  <2>1. <<b>> \in Seq(Nat \ {0}) /\ p.current_scope \in Nat /\ "br" \in Opcodes
    BY DEF Opcodes, ProcOK, ProcType
  <2> QED BY <2>1 DEF Insn, InsnType
<1>2. /\ ProcOK(r) /\ SameContext(p, r) /\ Len(r.nodes) >= Len(p.nodes)
      /\ Waiting(r) \subseteq Waiting(p)
  <2>1. CASE ~IsBlockTerminated(p, p.current_bb)
    BY <2>1 DEF SameContext, SameBreak, ProcOK, ProcType
  <2>2. CASE IsBlockTerminated(p, p.current_bb)
    <3> DEFINE c == CreateBlocks(p, 1)
    <3>1. /\ ProcOK(c) /\ SameContext(p, c) /\ Len(c.nodes) = Len(p.nodes) + 1
          /\ Waiting(c) \subseteq Waiting(p) \cup ((Len(p.nodes) + 1)..(Len(p.nodes) + 1))
      BY CreateBlocksLemma
    <3>2. Len(p.nodes) \in Nat
      BY DEF ProcOK, ProcType
    <3>3. NewBlock(p) \in 1..Len(c.nodes)
      BY <3>1, <3>2 DEF NewBlock
    <3>4. r = StartBlock(c, NewBlock(p))
      BY <2>2
    <3> HIDE DEF c, r
    <3>5. /\ ProcOK(r) /\ SameContext(c, r) /\ Len(r.nodes) = Len(c.nodes)
          /\ Waiting(r) \subseteq Waiting(c) \ {NewBlock(p)}
      BY <3>1, <3>3, <3>4, StartBlockLemma
    <3> QED BY <3>1, <3>2, <3>5 DEF SameContext, SameBreak, NewBlock
  <2> QED BY <2>1, <2>2
<1>3. q = AddInstruction(r, insn)
  BY DEF InstructBr
<1> HIDE DEF r, insn
<1>4. /\ ProcOK(q) /\ SameContext(r, q) /\ Len(q.nodes) = Len(r.nodes)
      /\ Waiting(q) \subseteq Waiting(r) /\ IsBlockTerminated(q, q.current_bb)
  BY <1>1, <1>2, <1>3, AddInstructionLemma DEF Branches
<1> QED BY <1>2, <1>4 DEF SameContext, SameBreak

LEMMA InstructCbrLemma ==
    ASSUME NEW p, ProcOK(p), NEW t \in Nat \ {0}, NEW f \in Nat \ {0}
    PROVE  LET q == InstructCbr(p, t, f)
           IN  /\ ProcOK(q) /\ SameContext(p, q) /\ Len(q.nodes) = Len(p.nodes)
               /\ IsBlockTerminated(q, q.current_bb)
               /\ Waiting(q) \subseteq Waiting(p)
<1> DEFINE q == InstructCbr(p, t, f)
<1> DEFINE insn == Insn("cbr", <<t, f>>, -1, p.current_scope)
<1>1. insn \in InsnType /\ insn.op = "cbr"
  <2>1. <<t, f>> \in Seq(Nat \ {0}) /\ p.current_scope \in Nat /\ "cbr" \in Opcodes
    BY DEF Opcodes, ProcOK, ProcType
  <2> QED BY <2>1 DEF Insn, InsnType
<1>2. q = AddInstruction(p, insn)
  BY DEF InstructCbr
<1> HIDE DEF insn
<1> QED BY <1>1, <1>2, AddInstructionLemma DEF Branches

-----------------------------------------------------------------------------
(* Lemmas about registers and scopes. *)

(* A set of naturals has a minimum: the initial segments below its members *)
(* are well-founded by inclusion.                                          *)
LEMMA MinimumLemma ==
    ASSUME NEW T \in SUBSET Nat, T # {}
    PROVE  Minimum(T) \in T /\ \A y \in T : Minimum(T) <= y
<1> DEFINE I(x) == 0 .. x
           Segments == {I(x) : x \in T}
<1>1. IsWellFoundedOn(StrictSubsetOrdering(Nat), FiniteSubsetsOf(Nat))
  BY FS_StrictSubsetOrderingWellFounded
<1>2. Segments \subseteq FiniteSubsetsOf(Nat)
  <2>1. \A x \in T : I(x) \in SUBSET Nat /\ IsFiniteSet(I(x))
    BY FS_Interval
  <2> QED BY <2>1 DEF FiniteSubsetsOf
<1>3. Segments # {}
  OBVIOUS
<1> HIDE DEF Segments
<1>4. \E s \in Segments : \A t \in Segments :
          ~ (<<t, s>> \in StrictSubsetOrdering(Nat))
  BY <1>1, <1>2, <1>3, WFMin
<1>5. PICK x \in T : \A y \in T : ~ (<<I(y), I(x)>> \in StrictSubsetOrdering(Nat))
  BY <1>4 DEF Segments
<1>6. ASSUME NEW y \in T PROVE x <= y
  <2>1. SUFFICES ASSUME y < x PROVE FALSE
    OBVIOUS
  <2>2. I(y) \subseteq I(x) /\ I(y) # I(x) /\ I(x) \subseteq Nat /\ I(y) \subseteq Nat
    <3>1. x \in I(x) /\ x \notin I(y)
      BY <2>1
    <3> QED BY <3>1, <2>1
  <2> QED BY <1>5, <2>2 DEF StrictSubsetOrdering
<1>7. \E z \in T : \A y \in T : z <= y
  BY <1>6
<1> QED BY <1>7 DEF Minimum

LEMMA TopRegLemma ==
    ASSUME NEW n \in Nat
    PROVE  TopReg(0..(n - 1)) = n - 1
<1>1. CASE n = 0
  BY <1>1 DEF TopReg
<1>2. CASE n # 0
  <2> DEFINE R == 0..(n - 1)
  <2>1. n - 1 \in R /\ \A q \in R : q <= n - 1
    BY <1>2
  <2>2. \A r \in R : (\A q \in R : q <= r) => r = n - 1
    BY <2>1
  <2>3. R # {}
    BY <2>1
  <2> QED BY <2>1, <2>2, <2>3 DEF TopReg
<1> QED BY <1>1, <1>2

LEMMA EscapedRegsLemma ==
    ASSUME NEW sc \in ScopeType
    PROVE  /\ EscapedRegs(sc) \subseteq Nat
           /\ NeedClose(sc) => Minimum(EscapedRegs(sc)) \in Nat
<1>1. EscapedRegs(sc) \subseteq Nat
  BY DEF EscapedRegs, ScopeType
<1>2. NeedClose(sc) => Minimum(EscapedRegs(sc)) \in Nat
  BY <1>1, MinimumLemma DEF NeedClose
<1> QED BY <1>1, <1>2

LEMMA InstructCloseLemma ==
    ASSUME NEW p, ProcOK(p), NEW b \in 1..Len(p.nodes), NEW s \in Nat,
           NEW sc \in ScopeType
    PROVE  LET q == InstructClose(p, b, s, sc)
           IN  /\ ProcOK(q) /\ SameContext(p, q) /\ Len(q.nodes) = Len(p.nodes)
               /\ q.current_bb = p.current_bb
               /\ Waiting(q) \subseteq Waiting(p) \cup ({b} \ {p.current_bb})
<1> DEFINE q == InstructClose(p, b, s, sc)
           code == << Insn("close", <<>>, Minimum(EscapedRegs(sc)), s) >>
<1>1. CASE q = p
  BY <1>1 DEF ProcOK, ProcType, SameContext, SameBreak
<1>2. CASE q # p
  <2>1. NeedClose(sc) /\ q = AddCode(p, b, code)
    BY <1>2 DEF InstructClose
  <2>2. Insn("close", <<>>, Minimum(EscapedRegs(sc)), s) \in InsnType
    <3>1. Minimum(EscapedRegs(sc)) \in Int
      BY <2>1, EscapedRegsLemma
    <3> QED BY <3>1 DEF Insn, InsnType, Opcodes
  <2>3. code \in Seq(InsnType)
    BY <2>2
  <2> HIDE DEF code
  <2>4. /\ ProcOK(AddCode(p, b, code)) /\ SameContext(p, AddCode(p, b, code))
        /\ Len(AddCode(p, b, code).nodes) = Len(p.nodes)
        /\ AddCode(p, b, code).current_bb = p.current_bb
    BY <2>3, AppendCode
  <2>5. Waiting(AddCode(p, b, code)) \subseteq Waiting(p) \cup ({b} \ {p.current_bb})
    BY <2>3, AppendWaiting
  <2> QED BY <2>1, <2>4, <2>5
<1> QED BY <1>1, <1>2

Below(n) == 0..(n - 1)

LEMMA NewScopeLemma ==
    ASSUME NEW p, NEW n \in Nat, p.local_pseudos = Below(n),
           NEW path \in Seq(Nat \ {0}), NEW locals \in Seq({"plain", "escaped"}),
           NEW label \in BOOLEAN
    PROVE  LET sc == NewScope(p, path, locals, label)
           IN  /\ sc \in ScopeType
               /\ sc.path = path /\ sc.base = n /\ sc.locals = locals
               /\ sc.label = label /\ sc.label_block = NoBlock
               /\ ~sc.placed /\ ~sc.declared
<1>1. TopReg(p.local_pseudos) + 1 = n
  BY TopRegLemma DEF Below
<1> QED BY <1>1 DEF NewScope, ScopeType, NoBlock

(* Starting a scope on top of the registers in use. *)
LEMMA StartScopeLemma ==
    ASSUME NEW p, ProcOK(p), NEW s \in Nat, NEW sc \in ScopeType,
           p.local_pseudos = 0..(sc.base - 1)
    PROVE  LET q == StartScope(p, s, sc)
           IN  /\ ProcOK(q) /\ SameBreak(p, q) /\ q.nodes = p.nodes
               /\ q.current_bb = p.current_bb /\ q.current_scope = s
               /\ q.local_pseudos = 0..(sc.base + Len(sc.locals) - 1)
               /\ Waiting(q) = Waiting(p)
<1> DEFINE q == StartScope(p, s, sc)
<1>1. sc.base \in Nat /\ Len(sc.locals) \in Nat
  BY DEF ScopeType
<1>2. p.local_pseudos \cup Regs(sc) = 0..(sc.base + Len(sc.locals) - 1)
  BY <1>1 DEF Regs
<1>3. q = [p EXCEPT !.current_scope = s, !.local_pseudos = @ \cup Regs(sc)]
  BY DEF StartScope
<1>4. Regs(sc) \subseteq Int /\ p \in ProcType
  BY <1>1 DEF Regs, ProcOK
<1>5. /\ q \in ProcType /\ q.nodes = p.nodes /\ q.current_bb = p.current_bb
      /\ q.current_scope = s /\ q.local_pseudos = p.local_pseudos \cup Regs(sc)
      /\ SameBreak(p, q)
  BY <1>3, <1>4 DEF ProcType, SameBreak
<1> QED BY <1>2, <1>5 DEF ProcOK, Waiting, IsBlockTerminated

(* Ending the scope whose registers are on top. *)
LEMMA EndScopeLemma ==
    ASSUME NEW p, ProcOK(p), NEW s \in Nat, NEW sc \in ScopeType,
           p.local_pseudos = 0..(sc.base + Len(sc.locals) - 1), Parent(sc) \in Nat
    PROVE  LET q == EndScope(p, s, sc)
           IN  /\ ProcOK(q) /\ SameBreak(p, q) /\ Len(q.nodes) = Len(p.nodes)
               /\ q.current_bb = p.current_bb /\ q.current_scope = Parent(sc)
               /\ q.local_pseudos = 0..(sc.base - 1)
               /\ Waiting(q) \subseteq Waiting(p)
<1> DEFINE q == EndScope(p, s, sc)
           r == InstructClose(p, p.current_bb, s, sc)
<1>1. /\ ProcOK(r) /\ SameContext(p, r) /\ Len(r.nodes) = Len(p.nodes)
      /\ r.current_bb = p.current_bb /\ Waiting(r) \subseteq Waiting(p)
  <2>1. p.current_bb \in 1..Len(p.nodes)
    BY DEF ProcOK
  <2>2. Waiting(r) \subseteq Waiting(p) \cup ({p.current_bb} \ {p.current_bb})
    BY <2>1, InstructCloseLemma
  <2>3. /\ ProcOK(r) /\ SameContext(p, r) /\ Len(r.nodes) = Len(p.nodes)
        /\ r.current_bb = p.current_bb
    BY <2>1, InstructCloseLemma
  <2> QED BY <2>2, <2>3
<1>2. sc.base \in Nat /\ Len(sc.locals) \in Nat
  BY DEF ScopeType
<1>3. p.local_pseudos \ Regs(sc) = 0..(sc.base - 1)
  BY <1>2 DEF Regs
<1>4. q = [r EXCEPT !.local_pseudos = @ \ Regs(sc), !.current_scope = Parent(sc)]
  BY DEF EndScope
<1> HIDE DEF r
<1>5. /\ q \in ProcType /\ q.nodes = r.nodes /\ q.current_bb = r.current_bb
      /\ q.current_scope = Parent(sc) /\ q.local_pseudos = r.local_pseudos \ Regs(sc)
      /\ SameBreak(r, q)
  <2>1. r \in ProcType
    BY <1>1 DEF ProcOK
  <2> QED BY <1>4, <2>1 DEF ProcType, SameBreak
<1> QED BY <1>1, <1>3, <1>5 DEF ProcOK, Waiting, IsBlockTerminated, SameContext, SameBreak

(* Setting the break target. *)
LEMMA InLoopLemma ==
    ASSUME NEW p, ProcOK(p), NEW target, target \in Nat, NEW scope, scope \in Nat
    PROVE  LET q == InLoop(p, target, scope)
           IN  /\ ProcOK(q) /\ q.nodes = p.nodes /\ q.current_bb = p.current_bb
               /\ q.current_scope = p.current_scope /\ q.local_pseudos = p.local_pseudos
               /\ q.current_break_target = target /\ q.current_break_scope = scope
               /\ Waiting(q) = Waiting(p)
<1> DEFINE q == InLoop(p, target, scope)
<1>1. p \in ProcType
  BY DEF ProcOK
<1>2. /\ q \in ProcType /\ q.nodes = p.nodes /\ q.current_bb = p.current_bb
      /\ q.current_scope = p.current_scope /\ q.local_pseudos = p.local_pseudos
      /\ q.current_break_target = target /\ q.current_break_scope = scope
  BY <1>1 DEF ProcType, InLoop
<1> QED BY <1>2 DEF ProcOK, Waiting, IsBlockTerminated
-----------------------------------------------------------------------------
(* The inductive invariant.  It is stated over p, sc and st, which stand   *)
(* for proc, scopes and stack.                                             *)

(* The scopes form a tree of which each path is one branch, and a scope's  *)
(* registers start where its parent's end.                                 *)
ScopeOK(sc, s) ==
    LET path == sc[s].path
        parent == sc[path[Len(path) - 1]]
    IN  /\ Len(path) >= 1
        /\ path[Len(path)] = s
        /\ \A i \in 1..Len(path) : path[i] \in 1..Len(sc)
        /\ Len(path) = 1 => sc[s].base = 0
        /\ Len(path) > 1 =>
              /\ Len(parent.path) = Len(path) - 1
              /\ \A i \in 1..(Len(path) - 1) : parent.path[i] = path[i]
              /\ sc[s].base = parent.base + Len(parent.locals)

ScopesOK(sc) == sc \in Seq(ScopeType) /\ \A s \in 1..Len(sc) : ScopeOK(sc, s)

(* The current scope is one of them and its registers are on top. *)
CursorOK(p, sc) ==
    /\ p.current_scope \in 1..Len(sc)
    /\ p.local_pseudos =
          0..(sc[p.current_scope].base + Len(sc[p.current_scope].locals) - 1)

PathOf(p, sc) == sc[p.current_scope].path

(* The number of scopes the first i functions in progress have entered. *)
Fors(st, i) == {j \in 1..i : st[j].kind = "for"}
Depth(st, i) == i + Cardinality(Fors(st, i))

(* The scope of the variable of a for. *)
IsVariable(scope) ==
    ~scope.label /\ ("for_escaped" \notin Grammar => scope.locals = <<>>)

(* Every function in progress has its scope on the path; that of a for     *)
(* has a second one, of its variable.                                      *)
DepthOK(p, sc, st) ==
    LET path == sc[p.current_scope].path
    IN  /\ Depth(st, Len(st)) = Len(path)
        /\ \A i \in 1..Len(st) : st[i].kind = "for" => IsVariable(sc[path[Depth(st, i) - 1]])

FrameOK(p, f) ==
    /\ f.kind # "if" => f.arms = <<>>
    /\ f.kind \in {"loop", "for", "if"} => f.exit \in 1..Len(p.nodes)
    /\ f.kind \in {"function", "do"} => f.exit = 0
    /\ f.kind \in {"loop", "for"} => f.head \in 1..Len(p.nodes)
    /\ \A k \in 1..Len(f.arms) : f.arms[k] \in 1..Len(p.nodes)

FramesOK(p, st) ==
    /\ st \in Seq(FrameType)
    /\ Len(st) >= 1
    /\ \A i \in 1..Len(st) : FrameOK(p, st[i]) /\ (st[i].kind = "function" <=> i = 1)

(* The break target and scope in force in the statement list of frame i:   *)
(* what the next frame saved, or what is current.  A loop's scope is one   *)
(* of those on the path down to its own.                                   *)
TargetOf(p, st, i) ==
    IF i = Len(st) THEN p.current_break_target ELSE st[i + 1].break_target
BreakScopeOf(p, st, i) ==
    IF i = Len(st) THEN p.current_break_scope ELSE st[i + 1].break_scope

BreakOKAt(p, sc, st, i) ==
    /\ IF st[i].kind \in {"loop", "for"}
       THEN /\ TargetOf(p, st, i) = st[i].exit
            /\ \E k \in 1..Depth(st, i) : BreakScopeOf(p, st, i) = PathOf(p, sc)[k]
       ELSE /\ TargetOf(p, st, i) = st[i].break_target
            /\ BreakScopeOf(p, st, i) = st[i].break_scope
    /\ TargetOf(p, st, i) # 0 => \E j \in 1..i : TargetOf(p, st, i) = st[j].exit

BreakOK(p, sc, st) == \A i \in 1..Len(st) : BreakOKAt(p, sc, st, i)

(* A label's block exists; the label to come is in a scope in progress.    *)
LabelOK(p, sc, s) ==
    /\ sc[s].label_block \in 0..Len(p.nodes)
    /\ sc[s].label_block # 0 /\ ~sc[s].placed =>
          /\ sc[s].label
          /\ \E i \in 1..Len(sc[p.current_scope].path) : sc[p.current_scope].path[i] = s

LabelsOK(p, sc) == \A s \in 1..Len(sc) : LabelOK(p, sc, s)

Walking(p, sc, st) ==
    /\ ProcOK(p)
    /\ ScopesOK(sc)
    /\ CursorOK(p, sc)
    /\ FramesOK(p, st)
    /\ DepthOK(p, sc, st)
    /\ BreakOK(p, sc, st)
    /\ LabelsOK(p, sc)

HeldBy(st) == UNION {Held(st[i]) : i \in DOMAIN st}
OwedLabels(sc) == {sc[s].label_block : s \in {t \in DOMAIN sc : ~sc[t].placed}}

-----------------------------------------------------------------------------
(* Lemmas about the depth of the stack. *)

LEMMA ForsFinite ==
    ASSUME NEW st, NEW i \in Nat
    PROVE  IsFiniteSet(Fors(st, i)) /\ Cardinality(Fors(st, i)) \in Nat
<1>1. IsFiniteSet(1..i)
  BY FS_Interval
<1>2. Fors(st, i) \subseteq 1..i
  BY DEF Fors
<1>3. IsFiniteSet(Fors(st, i))
  BY <1>1, <1>2, FS_Subset
<1> QED BY <1>3, FS_CardinalityType

(* Each frame adds one scope, a for two. *)
LEMMA DepthStep ==
    ASSUME NEW st, NEW i \in Nat \ {0}
    PROVE  /\ Depth(st, i) \in Nat /\ Depth(st, i - 1) \in Nat
           /\ Depth(st, i) >= i
           /\ st[i].kind = "for" => Depth(st, i) = Depth(st, i - 1) + 2
           /\ st[i].kind # "for" => Depth(st, i) = Depth(st, i - 1) + 1
<1> DEFINE F == Fors(st, i)
           G == Fors(st, i - 1)
<1>1. IsFiniteSet(F) /\ Cardinality(F) \in Nat /\ IsFiniteSet(G) /\ Cardinality(G) \in Nat
  BY ForsFinite
<1>2. CASE st[i].kind = "for"
  <2>1. F = G \cup {i} /\ i \notin G
    BY <1>2 DEF Fors
  <2>2. Cardinality(F) = Cardinality(G) + 1
    BY <1>1, <2>1, FS_AddElement
  <2> QED BY <1>1, <1>2, <2>2 DEF Depth
<1>3. CASE st[i].kind # "for"
  <2>1. F = G
    BY <1>3 DEF Fors
  <2> QED BY <1>1, <1>3, <2>1 DEF Depth
<1> QED BY <1>2, <1>3

LEMMA DepthMonotone ==
    ASSUME NEW st, NEW i \in Nat, NEW j \in Nat, i < j
    PROVE  Depth(st, i) < Depth(st, j)
<1>1. /\ IsFiniteSet(Fors(st, j)) /\ Cardinality(Fors(st, i)) \in Nat
      /\ Cardinality(Fors(st, j)) \in Nat
  BY ForsFinite
<1>2. Fors(st, i) \subseteq Fors(st, j)
  BY DEF Fors
<1>3. Cardinality(Fors(st, i)) <= Cardinality(Fors(st, j))
  BY <1>1, <1>2, FS_Subset
<1> QED BY <1>1, <1>3 DEF Depth

LEMMA DepthPrefix ==
    ASSUME NEW st, NEW su, NEW i \in Nat, \A j \in 1..i : st[j].kind = su[j].kind
    PROVE  Depth(st, i) = Depth(su, i)
BY DEF Depth, Fors
-----------------------------------------------------------------------------
(* What a step of the walk has to do to keep the invariant.  The lemmas    *)
(* take the states before and after it apart: p, sc, st and q, sd, su.     *)

SameScopes(sc, sd) ==
    /\ sd \in Seq(ScopeType) /\ Len(sd) = Len(sc)
    /\ \A s \in 1..Len(sc) : /\ sd[s].path = sc[s].path /\ sd[s].base = sc[s].base
                             /\ sd[s].locals = sc[s].locals /\ sd[s].label = sc[s].label

MoreScopes(sc, sd) ==
    /\ Len(sd) >= Len(sc)
    /\ \A s \in 1..Len(sc) : sd[s] = sc[s]
    /\ \A s \in (Len(sc) + 1)..Len(sd) : sd[s].label_block = 0

LEMMA FrameOKGrows ==
    ASSUME NEW p, NEW q, NEW f, Len(p.nodes) \in Nat, Len(q.nodes) \in Nat,
           Len(q.nodes) >= Len(p.nodes), FrameOK(p, f)
    PROVE  FrameOK(q, f)
BY DEF FrameOK

LEMMA WalkingTypes ==
    ASSUME NEW p, NEW sc, NEW st, Walking(p, sc, st)
    PROVE  /\ Len(sc) \in Nat /\ Len(st) \in Nat \ {0} /\ Len(p.nodes) \in Nat
           /\ PathOf(p, sc) \in Seq(Nat \ {0})
           /\ Len(PathOf(p, sc)) \in Nat \ {0}
           /\ \A i \in 1..Len(PathOf(p, sc)) : PathOf(p, sc)[i] \in 1..Len(sc)
           /\ PathOf(p, sc)[Len(PathOf(p, sc))] = p.current_scope
<1>1. /\ sc \in Seq(ScopeType) /\ st \in Seq(FrameType) /\ Len(st) >= 1
      /\ p.current_scope \in 1..Len(sc) /\ ScopeOK(sc, p.current_scope)
  BY DEF Walking, ScopesOK, FramesOK, CursorOK
<1>2. Len(sc) \in Nat /\ Len(st) \in Nat \ {0}
  BY <1>1
<1>3. sc[p.current_scope] \in ScopeType
  BY <1>1
<1>4. PathOf(p, sc) \in Seq(Nat \ {0})
  BY <1>3 DEF ScopeType, PathOf
<1>5. Len(p.nodes) \in Nat
  BY DEF Walking, ProcOK, ProcType
<1> DEFINE path == PathOf(p, sc)
<1>6. /\ Len(path) >= 1
      /\ path[Len(path)] = p.current_scope
      /\ \A i \in 1..Len(path) : path[i] \in 1..Len(sc)
  BY <1>1 DEF ScopeOK, PathOf
<1> HIDE DEF path
<1>7. Len(path) \in Nat \ {0}
  BY <1>4, <1>6 DEF path
<1> QED BY <1>2, <1>4, <1>5, <1>6, <1>7 DEF path

(* The scope of a for's variable is on the path. *)
LEMMA ForOnPath ==
    ASSUME NEW p, NEW sc, NEW st, Walking(p, sc, st),
           NEW i \in 1..Len(st), st[i].kind = "for"
    PROVE  /\ Depth(st, i) \in Nat
           /\ Depth(st, i) - 1 \in 1..Len(PathOf(p, sc))
           /\ i < Len(st) => Depth(st, i) < Len(PathOf(p, sc))
<1>1. Len(st) \in Nat \ {0} /\ Len(PathOf(p, sc)) \in Nat
  BY WalkingTypes
<1>2. /\ Depth(st, i) \in Nat /\ Depth(st, i - 1) \in Nat
      /\ Depth(st, i) = Depth(st, i - 1) + 2
  BY <1>1, DepthStep
<1>3. Depth(st, Len(st)) = Len(PathOf(p, sc))
  BY DEF Walking, DepthOK, PathOf
<1>4. i < Len(st) => Depth(st, i) < Depth(st, Len(st))
  BY <1>1, DepthMonotone
<1> QED BY <1>1, <1>2, <1>3, <1>4

(* So are the scopes down to that of any function in progress. *)
LEMMA FrameOnPath ==
    ASSUME NEW p, NEW sc, NEW st, Walking(p, sc, st), NEW i \in 1..Len(st)
    PROVE  /\ Depth(st, i) \in Nat /\ Depth(st, i) <= Len(PathOf(p, sc))
           /\ i < Len(st) => Depth(st, i) < Len(PathOf(p, sc))
<1>1. Len(st) \in Nat \ {0} /\ Len(PathOf(p, sc)) \in Nat
  BY WalkingTypes
<1>2. Depth(st, i) \in Nat
  BY <1>1, DepthStep
<1>3. Depth(st, Len(st)) = Len(PathOf(p, sc))
  BY DEF Walking, DepthOK, PathOf
<1>4. i < Len(st) => Depth(st, i) < Depth(st, Len(st))
  BY <1>1, DepthMonotone
<1> QED BY <1>1, <1>2, <1>3, <1>4

(* A loop's break scope stays on the path if the path stays as deep as the *)
(* loop.                                                                   *)
LEMMA BreakScopeStays ==
    ASSUME NEW p, NEW q, NEW sc, NEW sd, NEW st, NEW su, NEW i \in Nat,
           Depth(su, i) = Depth(st, i),
           BreakScopeOf(q, su, i) = BreakScopeOf(p, st, i),
           \A k \in 1..Depth(st, i) : PathOf(q, sd)[k] = PathOf(p, sc)[k]
    PROVE  (\E k \in 1..Depth(st, i) : BreakScopeOf(p, st, i) = PathOf(p, sc)[k])
             => \E k \in 1..Depth(su, i) : BreakScopeOf(q, su, i) = PathOf(q, sd)[k]
OBVIOUS

(* A statement without a list of its own. *)
LEMMA SimpleStep ==
    ASSUME NEW p, NEW q, NEW sc, NEW sd, NEW st,
           Walking(p, sc, st), ProcOK(q), SameContext(p, q),
           Len(q.nodes) >= Len(p.nodes), SameScopes(sc, sd), LabelsOK(q, sd)
    PROVE  Walking(q, sd, st)
<1> USE DEF SameContext, SameBreak
<1>1. ScopesOK(sd)
  <2>1. ASSUME NEW s \in 1..Len(sd) PROVE ScopeOK(sd, s)
    <3>1. s \in 1..Len(sc) /\ ScopeOK(sc, s) /\ sc[s] \in ScopeType
      BY DEF SameScopes, Walking, ScopesOK
    <3>2. Len(sc[s].path) \in Nat
      BY <3>1 DEF ScopeType
    <3>3. Len(sc[s].path) > 1 => sc[s].path[Len(sc[s].path) - 1] \in 1..Len(sc)
      BY <3>1, <3>2 DEF ScopeOK
    <3>4. /\ sd[s].path = sc[s].path /\ sd[s].base = sc[s].base
          /\ Len(sd) = Len(sc)
      BY <3>1 DEF SameScopes
    <3>5. Len(sc[s].path) > 1 =>
             LET r == sc[s].path[Len(sc[s].path) - 1]
             IN  /\ sd[r].path = sc[r].path /\ sd[r].base = sc[r].base
                 /\ sd[r].locals = sc[r].locals
      BY <3>3 DEF SameScopes
    <3> QED BY <3>1, <3>2, <3>4, <3>5 DEF ScopeOK
  <2> QED BY <2>1 DEF ScopesOK, SameScopes
<1>2. CursorOK(q, sd)
  BY DEF CursorOK, Walking, SameScopes
<1>3. FramesOK(q, st)
  <2>1. Len(p.nodes) \in Nat /\ Len(q.nodes) \in Nat
    BY SMTT(40) DEF Walking, ProcOK, ProcType
  <2> QED BY <2>1, SMTT(20), ZenonT(40) DEF FramesOK, FrameOK, Walking
<1>4. DepthOK(q, sd, st)
  <2>1. PathOf(q, sd) = PathOf(p, sc)
    BY DEF PathOf, Walking, CursorOK, SameScopes
  <2>2. \A i \in 1..Len(st) : st[i].kind = "for" =>
            PathOf(p, sc)[Depth(st, i) - 1] \in 1..Len(sc)
    BY ForOnPath, WalkingTypes
  <2>3. /\ Depth(st, Len(st)) = Len(PathOf(p, sc))
        /\ \A i \in 1..Len(st) : st[i].kind = "for" => IsVariable(sc[PathOf(p, sc)[Depth(st, i) - 1]])
    BY DEF Walking, DepthOK, PathOf
  <2>4. /\ Depth(st, Len(st)) = Len(PathOf(q, sd))
        /\ \A i \in 1..Len(st) : st[i].kind = "for" => IsVariable(sd[PathOf(q, sd)[Depth(st, i) - 1]])
    BY <2>1, <2>2, <2>3 DEF SameScopes, IsVariable
  <2> QED BY <2>4 DEF DepthOK, PathOf
<1>5. BreakOK(q, sd, st)
  <2>1. PathOf(q, sd) = PathOf(p, sc)
    BY DEF PathOf, Walking, CursorOK, SameScopes
  <2> QED BY <2>1 DEF BreakOK, BreakOKAt, TargetOf, BreakScopeOf, Walking
<1> QED BY <1>1, <1>2, <1>3, <1>4, <1>5 DEF Walking

(* A statement that enters a statement list. *)
LEMMA PushStep ==
    ASSUME NEW p, NEW q, NEW sc, NEW sd, NEW st, NEW f \in FrameType,
           Walking(p, sc, st), ProcOK(q), Len(q.nodes) >= Len(p.nodes),
           ScopesOK(sd), MoreScopes(sc, sd), CursorOK(q, sd),
           \A i \in 1..Len(PathOf(p, sc)) : PathOf(q, sd)[i] = PathOf(p, sc)[i],
           Len(PathOf(q, sd)) = Len(PathOf(p, sc)) + (IF f.kind = "for" THEN 2 ELSE 1),
           f.kind = "for" => IsVariable(sd[PathOf(q, sd)[Len(PathOf(q, sd)) - 1]]),
           FrameOK(q, f), f.kind # "function",
           f.break_target = p.current_break_target,
           f.break_scope = p.current_break_scope,
           IF f.kind \in {"loop", "for"}
           THEN /\ q.current_break_target = f.exit
                /\ \E k \in 1..Len(PathOf(q, sd)) : q.current_break_scope = PathOf(q, sd)[k]
           ELSE SameBreak(p, q)
    PROVE  Walking(q, sd, Append(st, f))
<1> DEFINE su == Append(st, f)
           n == Len(st)
<1>1. /\ n \in Nat \ {0} /\ Len(sc) \in Nat /\ Len(sd) \in Nat
      /\ Len(PathOf(p, sc)) \in Nat \ {0}
      /\ \A i \in 1..Len(PathOf(p, sc)) : PathOf(p, sc)[i] \in 1..Len(sc)
      /\ Len(p.nodes) \in Nat /\ Len(q.nodes) \in Nat
      /\ PathOf(p, sc)[Len(PathOf(p, sc))] = p.current_scope
  <2>1. Len(sd) \in Nat
    BY DEF ScopesOK
  <2>2. Len(q.nodes) \in Nat
    BY DEF ProcOK, ProcType
  <2> QED BY <2>1, <2>2, WalkingTypes
<1>2. st \in Seq(FrameType)
  BY DEF Walking, FramesOK
<1>3. /\ su \in Seq(FrameType) /\ Len(su) = n + 1 /\ su[n + 1] = f
      /\ \A i \in 1..n : su[i] = st[i]
  BY <1>2
<1> HIDE DEF su, n
<1>4. FramesOK(q, su)
  <2>1. ASSUME NEW i \in 1..n PROVE FrameOK(q, su[i])
    <3>1. su[i] = st[i] /\ FrameOK(p, st[i])
      BY <1>3 DEF Walking, FramesOK, n
    <3> QED BY <1>1, <3>1, FrameOKGrows
  <2>2. \A i \in 1..n : su[i].kind = "function" <=> i = 1
    BY <1>3 DEF Walking, FramesOK, n
  <2> QED BY <1>1, <1>3, <2>1, <2>2, SMTT(20), ZenonT(40) DEF FramesOK
<1>5. DepthOK(q, sd, su)
  <2>1. ASSUME NEW i \in 1..n PROVE Depth(su, i) = Depth(st, i)
    <3>1. i \in Nat /\ \A j \in 1..i : su[j].kind = st[j].kind
      BY <1>1, <1>3
    <3> QED BY <3>1, DepthPrefix
  <2>2. Depth(st, n) = Len(PathOf(p, sc))
    BY DEF Walking, DepthOK, PathOf, n
  <2>3. /\ f.kind = "for" => Depth(su, n + 1) = Depth(su, n) + 2
        /\ f.kind # "for" => Depth(su, n + 1) = Depth(su, n) + 1
    <3>1. n + 1 \in Nat \ {0} /\ (n + 1) - 1 = n
      BY <1>1
    <3> QED BY <1>3, <3>1, DepthStep
  <2>4. Depth(su, n + 1) = Len(PathOf(q, sd))
    BY <1>1, <2>1, <2>2, <2>3
  <2>5. ASSUME NEW i \in 1..n, su[i].kind = "for"
        PROVE  IsVariable(sd[PathOf(q, sd)[Depth(su, i) - 1]])
    <3>1. st[i].kind = "for" /\ Depth(su, i) = Depth(st, i)
      BY <1>3, <2>1, <2>5
    <3>2. Depth(st, i) - 1 \in 1..Len(PathOf(p, sc))
      BY <3>1, ForOnPath DEF n
    <3>3. PathOf(q, sd)[Depth(su, i) - 1] = PathOf(p, sc)[Depth(st, i) - 1]
      BY <3>1, <3>2
    <3>4. IsVariable(sc[PathOf(p, sc)[Depth(st, i) - 1]])
      BY <3>1 DEF Walking, DepthOK, PathOf, n
    <3>5. PathOf(p, sc)[Depth(st, i) - 1] \in 1..Len(sc)
      BY <1>1, <3>2
    <3> QED BY <3>3, <3>4, <3>5 DEF MoreScopes
  <2>6. su[n + 1].kind = "for" => IsVariable(sd[PathOf(q, sd)[Depth(su, n + 1) - 1]])
    BY <1>3, <2>4
  <2>7. \A i \in 1..Len(su) : su[i].kind = "for" =>
            IsVariable(sd[PathOf(q, sd)[Depth(su, i) - 1]])
    BY <1>1, <1>3, <2>5, <2>6
  <2>8. Depth(su, Len(su)) = Len(PathOf(q, sd))
    BY <1>3, <2>4
  <2> QED BY <2>7, <2>8 DEF DepthOK, PathOf
<1>6. BreakOK(q, sd, su)
  <2>1. ASSUME NEW i \in 1..n
        PROVE  /\ TargetOf(q, su, i) = TargetOf(p, st, i)
               /\ BreakScopeOf(q, su, i) = BreakScopeOf(p, st, i)
    <3>1. i # Len(su) /\ su[n + 1] = f
      BY <1>1, <1>3
    <3>2. CASE i = n
      BY <3>1, <3>2 DEF TargetOf, BreakScopeOf, n
    <3>3. CASE i # n
      <4>1. su[i + 1] = st[i + 1]
        BY <1>1, <1>3, <3>3
      <4> QED BY <3>1, <3>3, <4>1 DEF TargetOf, BreakScopeOf, n
    <3> QED BY <3>2, <3>3
  <2>2. ASSUME NEW i \in 1..n PROVE BreakOKAt(q, sd, su, i)
    <3>1. BreakOKAt(p, sc, st, i)
      BY DEF Walking, BreakOK, n
    <3>2. /\ TargetOf(q, su, i) = TargetOf(p, st, i)
          /\ BreakScopeOf(q, su, i) = BreakScopeOf(p, st, i)
          /\ su[i] = st[i] /\ \A j \in 1..i : su[j] = st[j]
      BY <1>1, <1>3, <2>1
    <3>3. Depth(su, i) = Depth(st, i)
      <4>1. i \in Nat /\ \A j \in 1..i : su[j].kind = st[j].kind
        BY <1>1, <1>3
      <4> QED BY <4>1, DepthPrefix
    <3>4. (\E k \in 1..Depth(st, i) : BreakScopeOf(p, st, i) = PathOf(p, sc)[k])
            => \E k \in 1..Depth(su, i) : BreakScopeOf(q, su, i) = PathOf(q, sd)[k]
      <4>1. Depth(st, i) \in Nat /\ Depth(st, i) <= Len(PathOf(p, sc)) /\ i \in Nat
        BY <1>1, FrameOnPath DEF n
      <4>2. \A k \in 1..Depth(st, i) : PathOf(q, sd)[k] = PathOf(p, sc)[k]
        BY <1>1, <4>1
      <4> QED BY <3>2, <3>3, <4>1, <4>2, BreakScopeStays
    <3> QED BY <3>1, <3>2, <3>4 DEF BreakOKAt
  <2>3. /\ TargetOf(q, su, n + 1) = q.current_break_target
        /\ BreakScopeOf(q, su, n + 1) = q.current_break_scope
    BY <1>3 DEF TargetOf, BreakScopeOf
  <2>4. CASE f.kind \in {"loop", "for"}
    <3>1. q.current_break_target = su[n + 1].exit /\ n + 1 \in 1..(n + 1)
      BY <1>1, <1>3, <2>4
    <3>2. Depth(su, n + 1) = Len(PathOf(q, sd))
      BY <1>3, <1>5 DEF DepthOK, PathOf
    <3>3. \E k \in 1..Depth(su, n + 1) :
             BreakScopeOf(q, su, n + 1) = PathOf(q, sd)[k]
      BY <2>3, <2>4, <3>2
    <3>4. BreakOKAt(q, sd, su, n + 1)
      BY <1>3, <2>3, <2>4, <3>1, <3>3 DEF BreakOKAt
    <3> QED BY <1>1, <1>3, <2>2, <3>4 DEF BreakOK
  <2>5. CASE f.kind \notin {"loop", "for"}
    <3>1. /\ q.current_break_target = su[n + 1].break_target
          /\ q.current_break_scope = su[n + 1].break_scope
      BY <1>3, <2>5 DEF SameBreak
    <3>2. TargetOf(q, su, n) = q.current_break_target
      BY <1>1, <1>3, <2>1, <2>5 DEF TargetOf, SameBreak
    <3>3. q.current_break_target # 0 =>
             \E j \in 1..(n + 1) : q.current_break_target = su[j].exit
      <4>1. n \in 1..n /\ 1..n \subseteq 1..(n + 1)
        BY <1>1
      <4>2. BreakOKAt(q, sd, su, n)
        BY <2>2, <4>1
      <4> QED BY <3>2, <4>1, <4>2 DEF BreakOKAt
    <3>4. BreakOKAt(q, sd, su, n + 1)
      BY <1>3, <2>3, <2>5, <3>1, <3>3 DEF BreakOKAt
    <3> QED BY <1>1, <1>3, <2>2, <3>4 DEF BreakOK
  <2> QED BY <2>4, <2>5
<1>7. LabelsOK(q, sd)
  <2>1. ASSUME NEW s \in 1..Len(sd) PROVE LabelOK(q, sd, s)
    <3>1. CASE s \in 1..Len(sc)
      <4>1. LabelOK(p, sc, s) /\ sd[s] = sc[s]
        BY <3>1 DEF Walking, LabelsOK, MoreScopes
      <4>2. ASSUME NEW i \in 1..Len(PathOf(p, sc)), PathOf(p, sc)[i] = s
            PROVE  \E j \in 1..Len(PathOf(q, sd)) : PathOf(q, sd)[j] = s
        <5>1. i \in 1..Len(PathOf(q, sd))
          BY <1>1
        <5> QED BY <4>2, <5>1
      <4>3. sd[s].label_block \in 0..Len(q.nodes)
        BY <1>1, <4>1 DEF LabelOK
      <4>4. sd[s].label_block # 0 /\ ~sd[s].placed =>
              sd[s].label /\ \E i \in 1..Len(PathOf(p, sc)) : PathOf(p, sc)[i] = s
        BY <4>1 DEF LabelOK, PathOf
      <4>5. sd[s].label_block # 0 /\ ~sd[s].placed =>
              sd[s].label /\ \E i \in 1..Len(PathOf(q, sd)) : PathOf(q, sd)[i] = s
        BY <4>2, <4>4
      <4> QED BY <4>3, <4>5 DEF LabelOK, PathOf
    <3>2. CASE s \notin 1..Len(sc)
      <4>1. s \in (Len(sc) + 1)..Len(sd)
        BY <1>1, <3>2
      <4> QED BY <1>1, <4>1 DEF MoreScopes, LabelOK
    <3> QED BY <3>1, <3>2
  <2> QED BY <2>1 DEF LabelsOK
<1> QED BY <1>4, <1>5, <1>6, <1>7 DEF Walking, su
(* A function in progress whose statement list is over returns. *)
LEMMA PopStep ==
    ASSUME NEW p, NEW q, NEW sc, NEW st,
           Walking(p, sc, st), Len(st) > 1, ProcOK(q), Len(q.nodes) >= Len(p.nodes),
           CursorOK(q, sc),
           Len(PathOf(q, sc)) =
              Len(PathOf(p, sc)) - (IF st[Len(st)].kind = "for" THEN 2 ELSE 1),
           \A i \in 1..Len(PathOf(q, sc)) : PathOf(q, sc)[i] = PathOf(p, sc)[i],
           sc[p.current_scope].label => sc[p.current_scope].placed,
           q.current_break_target = st[Len(st)].break_target,
           q.current_break_scope = st[Len(st)].break_scope
    PROVE  Walking(q, sc, SubSeq(st, 1, Len(st) - 1))
<1> DEFINE su == SubSeq(st, 1, Len(st) - 1)
           n == Len(st)
<1>1. /\ n \in Nat \ {0} /\ Len(sc) \in Nat
      /\ Len(PathOf(p, sc)) \in Nat \ {0}
      /\ \A i \in 1..Len(PathOf(p, sc)) : PathOf(p, sc)[i] \in 1..Len(sc)
      /\ Len(p.nodes) \in Nat /\ Len(q.nodes) \in Nat
      /\ PathOf(p, sc)[Len(PathOf(p, sc))] = p.current_scope
  <2>1. Len(q.nodes) \in Nat
    BY DEF ProcOK, ProcType
  <2> QED BY <2>1, WalkingTypes
<1>2. st \in Seq(FrameType) /\ n > 1
  BY DEF Walking, FramesOK
<1>3. /\ su \in Seq(FrameType) /\ Len(su) = n - 1
      /\ \A i \in 1..(n - 1) : su[i] = st[i]
  BY <1>1, <1>2
<1> HIDE DEF su
<1>4. FramesOK(q, su)
  <2>1. ASSUME NEW i \in 1..(n - 1)
        PROVE  FrameOK(q, su[i]) /\ (su[i].kind = "function" <=> i = 1)
    <3>1. su[i] = st[i] /\ i \in 1..n
      BY <1>1, <1>3
    <3>2. FrameOK(p, st[i]) /\ (st[i].kind = "function" <=> i = 1)
      BY <3>1 DEF Walking, FramesOK
    <3> QED BY <1>1, <3>1, <3>2, FrameOKGrows
  <2> QED BY <1>1, <1>2, <1>3, <2>1 DEF FramesOK
<1>5. DepthOK(q, sc, su)
  <2>1. ASSUME NEW i \in 1..(n - 1) PROVE Depth(su, i) = Depth(st, i)
    <3>1. i \in Nat /\ \A j \in 1..i : su[j].kind = st[j].kind
      BY <1>1, <1>3
    <3> QED BY <3>1, DepthPrefix
  <2>2. Depth(st, n) = Len(PathOf(p, sc))
    BY DEF Walking, DepthOK, PathOf
  <2>3. /\ Depth(st, n - 1) \in Nat
        /\ st[n].kind = "for" => Depth(st, n) = Depth(st, n - 1) + 2
        /\ st[n].kind # "for" => Depth(st, n) = Depth(st, n - 1) + 1
    BY <1>1, DepthStep
  <2>4. Depth(su, n - 1) = Len(PathOf(q, sc))
    <3>1. n - 1 \in 1..(n - 1)
      BY <1>1, <1>2
    <3> QED BY <1>1, <2>1, <2>2, <2>3, <3>1, SMTT(40)
  <2>5. ASSUME NEW i \in 1..(n - 1), su[i].kind = "for"
        PROVE  IsVariable(sc[PathOf(q, sc)[Depth(su, i) - 1]])
    <3>1. i \in 1..n /\ st[i].kind = "for" /\ Depth(su, i) = Depth(st, i)
      BY <1>1, <1>3, <2>1, <2>5
    <3>2. Depth(st, i) \in Nat /\ Depth(st, i) - 1 \in 1..Len(PathOf(p, sc))
      BY <3>1, ForOnPath
    <3>3. Depth(st, i) <= Depth(st, n - 1)
      <4>1. CASE i = n - 1
        BY <3>2, <4>1
      <4>2. CASE i # n - 1
        <5>1. i \in Nat /\ n - 1 \in Nat /\ i < n - 1
          BY <1>1, <4>2
        <5>2. Depth(st, i) < Depth(st, n - 1)
          BY <5>1, DepthMonotone
        <5> QED BY <2>3, <3>2, <5>2
      <4> QED BY <4>1, <4>2
    <3>4. Depth(st, n - 1) = Len(PathOf(q, sc))
      BY <1>1, <2>2, <2>3, SMTT(40)
    <3>5. Depth(st, i) - 1 \in 1..Len(PathOf(q, sc))
      BY <2>3, <3>2, <3>3, <3>4
    <3>6. IsVariable(sc[PathOf(p, sc)[Depth(st, i) - 1]])
      BY <3>1 DEF Walking, DepthOK, PathOf
    <3> QED BY <3>1, <3>5, <3>6
  <2>6. /\ Depth(su, Len(su)) = Len(PathOf(q, sc))
        /\ \A i \in 1..Len(su) : su[i].kind = "for" =>
              IsVariable(sc[PathOf(q, sc)[Depth(su, i) - 1]])
    BY <1>3, <2>4, <2>5
  <2> QED BY <2>6 DEF DepthOK, PathOf
<1>6. BreakOK(q, sc, su)
  <2>1. ASSUME NEW i \in 1..(n - 1) PROVE BreakOKAt(q, sc, su, i)
    <3>1. i \in 1..n /\ BreakOKAt(p, sc, st, i)
      BY <1>1 DEF Walking, BreakOK
    <3>2. su[i] = st[i] /\ \A j \in 1..i : su[j] = st[j]
      BY <1>1, <1>3
    <3>3. /\ TargetOf(q, su, i) = TargetOf(p, st, i)
          /\ BreakScopeOf(q, su, i) = BreakScopeOf(p, st, i)
      <4>1. CASE i = n - 1
        BY <1>1, <1>3, <4>1 DEF TargetOf, BreakScopeOf
      <4>2. CASE i # n - 1
        <5>1. i # n /\ i + 1 \in 1..(n - 1)
          BY <1>1, <4>2
        <5> QED BY <1>3, <4>2, <5>1 DEF TargetOf, BreakScopeOf
      <4> QED BY <4>1, <4>2
    <3>4. Depth(su, i) = Depth(st, i)
      <4>1. i \in Nat /\ \A j \in 1..i : su[j].kind = st[j].kind
        BY <1>1, <3>2
      <4> QED BY <4>1, DepthPrefix
    <3>5. (\E k \in 1..Depth(st, i) : BreakScopeOf(p, st, i) = PathOf(p, sc)[k])
            => \E k \in 1..Depth(su, i) : BreakScopeOf(q, su, i) = PathOf(q, sc)[k]
      <4>1. Depth(st, n) = Len(PathOf(p, sc)) /\ i \in Nat /\ i <= n - 1 /\ n - 1 \in Nat
        BY <1>1 DEF Walking, DepthOK, PathOf
      <4>2. /\ Depth(st, n - 1) \in Nat /\ Depth(st, i) \in Nat
            /\ st[n].kind = "for" => Depth(st, n) = Depth(st, n - 1) + 2
            /\ st[n].kind # "for" => Depth(st, n) = Depth(st, n - 1) + 1
        BY <1>1, <3>1, DepthStep, FrameOnPath
      <4>3. i # n - 1 => Depth(st, i) < Depth(st, n - 1)
        BY <4>1, DepthMonotone
      <4>4. Depth(st, i) <= Depth(st, n - 1)
        BY <4>1, <4>2, <4>3
      <4>5. Depth(st, n - 1) = Len(PathOf(q, sc))
        <5> DEFINE long == Len(PathOf(p, sc))
                   short == Len(PathOf(q, sc))
                   d == Depth(st, n - 1)
        <5>1. long \in Nat /\ d \in Nat
          BY <1>1, <4>2
        <5>2. /\ st[n].kind = "for" => short = long - 2 /\ long = d + 2
              /\ st[n].kind # "for" => short = long - 1 /\ long = d + 1
          BY <4>1, <4>2
        <5> HIDE DEF long, short, d
        <5>3. d = short
          BY <5>1, <5>2
        <5> QED BY <5>3 DEF d, short
      <4>6. \A k \in 1..Depth(st, i) : PathOf(q, sc)[k] = PathOf(p, sc)[k]
        BY <4>2, <4>4, <4>5
      <4> QED BY <3>3, <3>4, <4>1, <4>6, BreakScopeStays
    <3> QED BY <3>1, <3>2, <3>3, <3>5 DEF BreakOKAt
  <2> QED BY <1>3, <2>1 DEF BreakOK
<1>7. LabelsOK(q, sc)
  <2>1. ASSUME NEW s \in 1..Len(sc) PROVE LabelOK(q, sc, s)
    <3>1. LabelOK(p, sc, s)
      BY DEF Walking, LabelsOK
    <3>2. sc[s].label_block \in 0..Len(q.nodes)
      BY <1>1, <3>1 DEF LabelOK
    <3>3. ASSUME sc[s].label_block # 0, ~sc[s].placed
          PROVE  sc[s].label /\ \E i \in 1..Len(PathOf(q, sc)) : PathOf(q, sc)[i] = s
      <4>1. sc[s].label
        BY <3>1, <3>3 DEF LabelOK
      <4>2. PICK i \in 1..Len(PathOf(p, sc)) : PathOf(p, sc)[i] = s
        BY <3>1, <3>3 DEF LabelOK, PathOf
      <4>3. i # Len(PathOf(p, sc))
        BY <1>1, <3>3, <4>1, <4>2
      <4>4. st[n].kind = "for" => i # Len(PathOf(p, sc)) - 1
        <5>1. SUFFICES ASSUME st[n].kind = "for"
                       PROVE  IsVariable(sc[PathOf(p, sc)[Len(PathOf(p, sc)) - 1]])
          BY <4>1, <4>2 DEF IsVariable
        <5>2. n \in 1..Len(st)
          BY <1>1
        <5> QED BY <5>1, <5>2 DEF Walking, DepthOK, PathOf
      <4>5. i \in 1..Len(PathOf(q, sc))
        BY <1>1, <4>3, <4>4
      <4> QED BY <4>1, <4>2, <4>5
    <3> QED BY <3>2, <3>3 DEF LabelOK, PathOf
  <2> QED BY <2>1 DEF LabelsOK
<1> QED BY <1>4, <1>5, <1>6, <1>7 DEF Walking, su

SameFrame(f, g) ==
    /\ g.kind = f.kind /\ g.exit = f.exit
    /\ g.break_target = f.break_target /\ g.break_scope = f.break_scope

(* The next statement list of an if: its scope replaces the last one. *)
LEMMA ArmStep ==
    ASSUME NEW p, NEW q, NEW sc, NEW sd, NEW st, NEW su,
           Walking(p, sc, st), ProcOK(q), Len(q.nodes) >= Len(p.nodes),
           ScopesOK(sd), MoreScopes(sc, sd), CursorOK(q, sd), SameBreak(p, q),
           Len(PathOf(q, sd)) = Len(PathOf(p, sc)),
           \A i \in 1..(Len(PathOf(p, sc)) - 1) : PathOf(q, sd)[i] = PathOf(p, sc)[i],
           sc[p.current_scope].label => sc[p.current_scope].placed,
           st[Len(st)].kind = "if",
           su \in Seq(FrameType), Len(su) = Len(st),
           \A i \in 1..(Len(st) - 1) : su[i] = st[i],
           FrameOK(q, su[Len(st)]),
           \A i \in 1..Len(st) : SameFrame(st[i], su[i])
    PROVE  Walking(q, sd, su)
<1> DEFINE n == Len(st)
<1>1. /\ n \in Nat \ {0} /\ Len(sc) \in Nat
      /\ Len(PathOf(p, sc)) \in Nat \ {0}
      /\ \A i \in 1..Len(PathOf(p, sc)) : PathOf(p, sc)[i] \in 1..Len(sc)
      /\ Len(p.nodes) \in Nat /\ Len(q.nodes) \in Nat
      /\ PathOf(p, sc)[Len(PathOf(p, sc))] = p.current_scope
  <2>1. Len(q.nodes) \in Nat
    BY DEF ProcOK, ProcType
  <2> QED BY <2>1, WalkingTypes
<1>4. su \in Seq(FrameType) /\ Len(su) = n /\ \A i \in 1..(n - 1) : su[i] = st[i]
  OBVIOUS
<1>5. \A i \in 1..n : /\ su[i].kind = st[i].kind /\ su[i].exit = st[i].exit
                      /\ su[i].break_target = st[i].break_target
                      /\ su[i].break_scope = st[i].break_scope
  BY DEF SameFrame
<1> HIDE DEF n
<1>6. FramesOK(q, su)
  <2>2. ASSUME NEW i \in 1..n
        PROVE  FrameOK(q, su[i]) /\ (su[i].kind = "function" <=> i = 1)
    <3>1. FrameOK(p, st[i]) /\ (st[i].kind = "function" <=> i = 1)
      BY DEF Walking, FramesOK, n
    <3>2. FrameOK(q, su[i])
      <4>1. CASE i = n
        BY <4>1 DEF n
      <4>2. CASE i # n
        <5>1. i \in 1..(n - 1)
          BY <1>1, <4>2
        <5> QED BY <1>1, <1>4, <3>1, <5>1, FrameOKGrows
      <4> QED BY <4>1, <4>2
    <3> QED BY <1>5, <3>1, <3>2
  <2> QED BY <1>1, <1>4, <2>2 DEF FramesOK
<1>7. DepthOK(q, sd, su)
  <2>1. ASSUME NEW i \in 1..n PROVE Depth(su, i) = Depth(st, i)
    <3>1. i \in Nat /\ \A j \in 1..i : su[j].kind = st[j].kind
      BY <1>1, <1>5
    <3> QED BY <3>1, DepthPrefix
  <2>2. Depth(su, n) = Len(PathOf(q, sd))
    <3>1. n \in 1..n /\ Depth(st, n) = Len(PathOf(p, sc))
      BY <1>1 DEF Walking, DepthOK, PathOf, n
    <3> QED BY <2>1, <3>1
  <2>3. ASSUME NEW i \in 1..n, su[i].kind = "for"
        PROVE  IsVariable(sd[PathOf(q, sd)[Depth(su, i) - 1]])
    <3>1. st[i].kind = "for" /\ Depth(su, i) = Depth(st, i)
      BY <1>5, <2>1, <2>3
    <3>1a. i < Len(st) /\ i \in 1..Len(st)
      <4>1. i # n
        BY <3>1 DEF n
      <4> QED BY <1>1, <4>1 DEF n
    <3>2. /\ Depth(st, i) \in Nat /\ Depth(st, i) - 1 \in 1..Len(PathOf(p, sc))
          /\ Depth(st, i) < Len(PathOf(p, sc))
      BY <3>1, <3>1a, ForOnPath
    <3>3. PathOf(q, sd)[Depth(st, i) - 1] = PathOf(p, sc)[Depth(st, i) - 1]
      BY <1>1, <3>2, SMTT(40)
    <3>4. IsVariable(sc[PathOf(p, sc)[Depth(st, i) - 1]])
      BY <3>1, <3>1a DEF Walking, DepthOK, PathOf
    <3>5. PathOf(p, sc)[Depth(st, i) - 1] \in 1..Len(sc)
      BY <1>1, <3>2
    <3> QED BY <3>1, <3>3, <3>4, <3>5 DEF MoreScopes
  <2> QED BY <1>4, <2>2, <2>3 DEF DepthOK, PathOf
<1>8. BreakOK(q, sd, su)
  <2>1. ASSUME NEW i \in 1..n PROVE BreakOKAt(q, sd, su, i)
    <3>1. BreakOKAt(p, sc, st, i)
      BY DEF Walking, BreakOK, n
    <3>2. /\ TargetOf(q, su, i) = TargetOf(p, st, i)
          /\ BreakScopeOf(q, su, i) = BreakScopeOf(p, st, i)
      <4>1. CASE i = n
        BY <1>4, <4>1 DEF TargetOf, BreakScopeOf, SameBreak, n
      <4>2. CASE i # n
        <5>1. i + 1 \in 1..n
          BY <1>1, <4>2
        <5> QED BY <1>4, <1>5, <4>2, <5>1 DEF TargetOf, BreakScopeOf, n
      <4> QED BY <4>1, <4>2
    <3>4. \A j \in 1..i : su[j].exit = st[j].exit
      BY <1>1, <1>5
    <3>5. /\ su[i].kind = st[i].kind /\ su[i].exit = st[i].exit
          /\ su[i].break_target = st[i].break_target
          /\ su[i].break_scope = st[i].break_scope
      BY <1>5
    <3>6. su[i].kind \in {"loop", "for"} =>
          ((\E k \in 1..Depth(st, i) : BreakScopeOf(p, st, i) = PathOf(p, sc)[k])
             => \E k \in 1..Depth(su, i) : BreakScopeOf(q, su, i) = PathOf(q, sd)[k])
      <4> SUFFICES ASSUME su[i].kind \in {"loop", "for"}
                   PROVE  (\E k \in 1..Depth(st, i) : BreakScopeOf(p, st, i) = PathOf(p, sc)[k])
                            => \E k \in 1..Depth(su, i) : BreakScopeOf(q, su, i) = PathOf(q, sd)[k]
        OBVIOUS
      <4>1. i < Len(st) /\ i \in 1..Len(st) /\ i \in Nat
        <5>1. i # n
          BY <3>5 DEF n
        <5> QED BY <1>1, <5>1 DEF n
      <4>2. Depth(st, i) \in Nat /\ Depth(st, i) < Len(PathOf(p, sc))
        BY <4>1, FrameOnPath
      <4>3. \A k \in 1..Depth(st, i) : PathOf(q, sd)[k] = PathOf(p, sc)[k]
        BY <1>1, <4>2
      <4>4. Depth(su, i) = Depth(st, i)
        <5>1. \A j \in 1..i : su[j].kind = st[j].kind
          BY <1>1, <1>5
        <5> QED BY <4>1, <5>1, DepthPrefix
      <4> QED BY <3>2, <4>1, <4>3, <4>4, BreakScopeStays
    <3> QED BY <3>1, <3>2, <3>4, <3>5, <3>6 DEF BreakOKAt
  <2> QED BY <1>4, <2>1 DEF BreakOK
<1>9. LabelsOK(q, sd)
  <2>1. ASSUME NEW s \in 1..Len(sd) PROVE LabelOK(q, sd, s)
    <3>1. CASE s \in 1..Len(sc)
      <4>1. LabelOK(p, sc, s) /\ sd[s] = sc[s]
        BY <3>1 DEF Walking, LabelsOK, MoreScopes
      <4>2. sd[s].label_block \in 0..Len(q.nodes)
        BY <1>1, <4>1 DEF LabelOK
      <4>3. ASSUME sd[s].label_block # 0, ~sd[s].placed
            PROVE  sd[s].label /\ \E i \in 1..Len(PathOf(q, sd)) : PathOf(q, sd)[i] = s
        <5>1. sc[s].label
          BY <4>1, <4>3 DEF LabelOK
        <5>2. PICK i \in 1..Len(PathOf(p, sc)) : PathOf(p, sc)[i] = s
          BY <4>1, <4>3 DEF LabelOK, PathOf
        <5>3. i # Len(PathOf(p, sc))
          BY <1>1, <4>1, <4>3, <5>1, <5>2
        <5>4. i \in 1..(Len(PathOf(p, sc)) - 1)
          BY <1>1, <5>3
        <5> QED BY <1>1, <4>1, <5>1, <5>2, <5>4
      <4> QED BY <4>2, <4>3 DEF LabelOK, PathOf
    <3>2. CASE s \notin 1..Len(sc)
      <4>1. s \in (Len(sc) + 1)..Len(sd) /\ Len(sd) \in Nat
        BY <1>1, <3>2 DEF ScopesOK
      <4> QED BY <1>1, <4>1 DEF MoreScopes, LabelOK
    <3> QED BY <3>1, <3>2
  <2> QED BY <2>1 DEF LabelsOK
<1> QED BY <1>6, <1>7, <1>8, <1>9 DEF Walking

(* A scope below an existing one, on top of its registers. *)
LEMMA ScopesGrow ==
    ASSUME NEW sc, ScopesOK(sc), NEW s \in 1..Len(sc), NEW new \in ScopeType,
           new.path = Append(sc[s].path, Len(sc) + 1),
           new.base = sc[s].base + Len(sc[s].locals),
           new.label_block = 0
    PROVE  LET sd == Append(sc, new)
           IN  /\ ScopesOK(sd) /\ MoreScopes(sc, sd) /\ Len(sd) = Len(sc) + 1
               /\ sd[Len(sc) + 1] = new
<1> DEFINE sd == Append(sc, new)
           m == Len(sc)
<1>1. sc \in Seq(ScopeType) /\ m \in Nat
  BY DEF ScopesOK
<1>2. /\ sd \in Seq(ScopeType) /\ Len(sd) = m + 1 /\ sd[m + 1] = new
      /\ \A t \in 1..m : sd[t] = sc[t]
  BY <1>1
<1> HIDE DEF sd, m
<1>3. MoreScopes(sc, sd)
  BY <1>1, <1>2 DEF MoreScopes, m
<1>4. ASSUME NEW t \in 1..m PROVE ScopeOK(sd, t)
  <2>1. ScopeOK(sc, t) /\ sc[t] \in ScopeType
    BY <1>1 DEF ScopesOK, m
  <2>2. Len(sc[t].path) \in Nat
    BY <2>1 DEF ScopeType
  <2>3. Len(sc[t].path) > 1 => sc[t].path[Len(sc[t].path) - 1] \in 1..m
    BY <2>1, <2>2 DEF ScopeOK, m
  <2>4. Len(sc[t].path) > 1 =>
           sd[sc[t].path[Len(sc[t].path) - 1]] = sc[sc[t].path[Len(sc[t].path) - 1]]
    BY <1>2, <2>3
  <2>5. sd[t] = sc[t]
    BY <1>2
  <2>6. \A i \in 1..Len(sc[t].path) : sc[t].path[i] \in 1..Len(sd)
    BY <1>1, <1>2, <2>1 DEF ScopeOK, m
  <2>7. Len(sd[t].path) >= 1 /\ sd[t].path[Len(sd[t].path)] = t
    BY <2>1, <2>5 DEF ScopeOK
  <2>8. \A i \in 1..Len(sd[t].path) : sd[t].path[i] \in 1..Len(sd)
    BY <2>5, <2>6
  <2>9. Len(sd[t].path) = 1 => sd[t].base = 0
    BY <2>1, <2>5 DEF ScopeOK
  <2>10. ASSUME Len(sd[t].path) > 1
         PROVE  LET r == sd[sd[t].path[Len(sd[t].path) - 1]]
                IN  /\ Len(r.path) = Len(sd[t].path) - 1
                    /\ \A i \in 1..(Len(sd[t].path) - 1) : r.path[i] = sd[t].path[i]
                    /\ sd[t].base = r.base + Len(r.locals)
    <3> DEFINE r == sc[sc[t].path[Len(sc[t].path) - 1]]
    <3>1. /\ Len(r.path) = Len(sc[t].path) - 1
          /\ \A i \in 1..(Len(sc[t].path) - 1) : r.path[i] = sc[t].path[i]
          /\ sc[t].base = r.base + Len(r.locals)
      BY <2>1, <2>5, <2>10 DEF ScopeOK
    <3>2. sd[sd[t].path[Len(sd[t].path) - 1]] = r
      BY <2>4, <2>5, <2>10
    <3> HIDE DEF r
    <3> QED BY <2>5, <3>1, <3>2
  <2> QED BY <2>7, <2>8, <2>9, <2>10 DEF ScopeOK
<1>5. ScopeOK(sd, m + 1)
  <2> DEFINE path == sc[s].path
             k == Len(path)
  <2>1. ScopeOK(sc, s) /\ sc[s] \in ScopeType /\ s \in 1..m
    BY <1>1 DEF ScopesOK, m
  <2>2. path \in Seq(Nat \ {0}) /\ k \in Nat /\ k >= 1 /\ path[k] = s
    BY <2>1 DEF ScopeType, ScopeOK
  <2>3. \A i \in 1..k : path[i] \in 1..m
    BY <2>1 DEF ScopeOK, m
  <2>4. /\ Len(new.path) = k + 1 /\ new.path[k + 1] = m + 1
        /\ \A i \in 1..k : new.path[i] = path[i]
    BY <1>1, <2>2 DEF m
  <2>5. sd[m + 1] = new /\ sd[s] = sc[s] /\ new.path[(k + 1) - 1] = s /\ k + 1 > 1
    BY <1>2, <2>1, <2>2, <2>4
  <2>6. \A i \in 1..(k + 1) : new.path[i] \in 1..(m + 1)
    <3> SUFFICES ASSUME NEW i \in 1..(k + 1) PROVE new.path[i] \in 1..(m + 1)
      OBVIOUS
    <3>1. CASE i = k + 1
      BY <1>1, <2>4, <3>1
    <3>2. CASE i # k + 1
      <4>1. i \in 1..k
        BY <2>2, <3>2
      <4> QED BY <1>1, <2>3, <2>4, <4>1
    <3> QED BY <3>1, <3>2
  <2> HIDE DEF k, path
  <2>7. /\ Len(sd[s].path) = (k + 1) - 1
        /\ \A i \in 1..((k + 1) - 1) : sd[s].path[i] = new.path[i]
        /\ new.base = sd[s].base + Len(sd[s].locals)
    BY <2>2, <2>4, <2>5 DEF k, path
  <2>8. /\ Len(new.path) >= 1 /\ Len(new.path) # 1 /\ new.path[Len(new.path)] = m + 1
        /\ new.path[Len(new.path) - 1] = s
        /\ \A i \in 1..Len(new.path) : new.path[i] \in 1..Len(sd)
    BY <1>2, <2>2, <2>4, <2>5, <2>6
  <2>9. Len(new.path) = k + 1
    BY <2>4
  <2>10. Len(sd[m + 1].path) >= 1 /\ sd[m + 1].path[Len(sd[m + 1].path)] = m + 1
    BY <2>5, <2>8
  <2>11. \A i \in 1..Len(sd[m + 1].path) : sd[m + 1].path[i] \in 1..Len(sd)
    BY <2>5, <2>8
  <2>12. Len(sd[m + 1].path) # 1
    BY <2>5, <2>8
  <2>13. sd[sd[m + 1].path[Len(sd[m + 1].path) - 1]] = sd[s]
    BY <2>5, <2>8
  <2>14. /\ Len(sd[s].path) = Len(sd[m + 1].path) - 1
         /\ \A i \in 1..(Len(sd[m + 1].path) - 1) : sd[s].path[i] = sd[m + 1].path[i]
         /\ sd[m + 1].base = sd[s].base + Len(sd[s].locals)
    BY <2>5, <2>7, <2>9, SMTT(20), ZenonT(40)
  <2> QED BY <2>10, <2>11, <2>12, <2>13, <2>14 DEF ScopeOK
<1>6. ScopesOK(sd)
  <2>1. ASSUME NEW t \in 1..(m + 1) PROVE ScopeOK(sd, t)
    BY <1>1, <1>4, <1>5
  <2> QED BY <1>2, <2>1 DEF ScopesOK
<1> QED BY <1>2, <1>3, <1>6 DEF sd, m

-----------------------------------------------------------------------------
(* The code of the blocks.  A branch leads to blocks there are, a return   *)
(* to the exit.                                                            *)
BranchOK(n, insn) ==
    /\ \A k \in 1..Len(insn.targets) : insn.targets[k] \in 1..n
    /\ insn.op = "ret" => \E k \in 1..Len(insn.targets) : insn.targets[k] = EXIT_BLOCK

BlockOK(n, code) ==
    \A i \in 1..Len(code) :
        code[i].op \in Branches => i = Len(code) /\ BranchOK(n, code[i])

CodeOK(p) == \A b \in 1..Len(p.nodes) : BlockOK(Len(p.nodes), p.nodes[b])

(* U are blocks still to be started: nobody has branched out of them, and  *)
(* none is the one being filled.                                           *)
Sound(p, U) ==
    /\ ProcOK(p) /\ CodeOK(p)
    /\ \A b \in U : b \in 1..Len(p.nodes) /\ b # p.current_bb /\ ~IsBlockTerminated(p, b)

Open(p) == ~IsBlockTerminated(p, p.current_bb)

LastIsRet(p, b) == p.nodes[b] # <<>> /\ p.nodes[b][Len(p.nodes[b])].op = "ret"

(* Whatever is closed in the current block does not end up after a branch. *)
Closable(p) == Open(p) \/ LastIsRet(p, p.current_bb)

Plain(code) == \A i \in 1..Len(code) : code[i].op \notin Branches

LEMMA FewerPromises ==
    ASSUME NEW p, NEW U, NEW V, Sound(p, U), V \subseteq U
    PROVE  Sound(p, V)
BY DEF Sound

LEMMA SameCode ==
    ASSUME NEW p, NEW q, NEW U, Sound(p, U), ProcOK(q), q.nodes = p.nodes,
           q.current_bb = p.current_bb
    PROVE  /\ Sound(q, U) /\ (Open(p) <=> Open(q)) /\ (Closable(p) <=> Closable(q))
           /\ LastIsRet(q, q.current_bb) <=> LastIsRet(p, p.current_bb)
BY DEF Sound, CodeOK, Open, Closable, LastIsRet, IsBlockTerminated

LEMMA SoundTypes ==
    ASSUME NEW p, NEW U, Sound(p, U)
    PROVE  /\ ProcOK(p) /\ Len(p.nodes) \in Nat /\ Len(p.nodes) >= 2
           /\ p.current_bb \in 1..Len(p.nodes)
           /\ \A b \in 1..Len(p.nodes) : p.nodes[b] \in Seq(InsnType)
           /\ p.current_scope \in Nat
BY DEF Sound, ProcOK, ProcType

LEMMA BlockGrows ==
    ASSUME NEW n, NEW u \in Seq(InsnType), NEW v \in Seq(InsnType),
           BlockOK(n, u), BlockOK(n, v), u # <<>> => u[Len(u)].op \notin Branches
    PROVE  /\ BlockOK(n, u \o v)
           /\ Plain(v) => (u \o v # <<>> => (u \o v)[Len(u \o v)].op \notin Branches)
<1> DEFINE w == u \o v
<1>1. /\ Len(u) \in Nat /\ Len(v) \in Nat /\ Len(w) = Len(u) + Len(v)
      /\ \A i \in 1..Len(u) : w[i] = u[i]
      /\ \A i \in 1..Len(v) : w[Len(u) + i] = v[i]
      /\ (Len(u) = 0 <=> u = <<>>) /\ (Len(w) = 0 <=> w = <<>>)
  OBVIOUS
<1> HIDE DEF w
<1>2. ASSUME NEW i \in 1..Len(w), w[i].op \in Branches
      PROVE  i = Len(w) /\ BranchOK(n, w[i])
  <2>1. CASE i <= Len(u)
    <3>1. i \in 1..Len(u) /\ w[i] = u[i]
      BY <1>1, <2>1
    <3>2. i = Len(u)
      BY <1>2, <3>1 DEF BlockOK
    <3> QED BY <1>1, <1>2, <3>1, <3>2
  <2>2. CASE i > Len(u)
    <3>1. PICK j \in 1..Len(v) : i = Len(u) + j
      <4>1. i - Len(u) \in 1..Len(v) /\ i = Len(u) + (i - Len(u))
        BY <1>1, <2>2
      <4> QED BY <4>1
    <3>2. w[i] = v[j]
      BY <1>1, <3>1
    <3>3. j = Len(v) /\ BranchOK(n, v[j])
      BY <1>2, <3>2 DEF BlockOK
    <3> QED BY <1>1, <3>1, <3>2, <3>3
  <2> QED BY <1>1, <2>1, <2>2
<1>3. BlockOK(n, w)
  BY <1>2 DEF BlockOK
<1>4. ASSUME Plain(v), w # <<>> PROVE w[Len(w)].op \notin Branches
  <2>1. CASE Len(v) = 0
    <3>1. Len(w) = Len(u) /\ u # <<>> /\ Len(w) \in 1..Len(u)
      BY <1>1, <1>4, <2>1
    <3> QED BY <1>1, <3>1
  <2>2. CASE Len(v) # 0
    <3>1. Len(v) \in 1..Len(v) /\ w[Len(w)] = v[Len(v)]
      BY <1>1, <2>2
    <3> QED BY <1>4, <3>1 DEF Plain
  <2> QED BY <2>1, <2>2
<1> QED BY <1>3, <1>4 DEF w

(* Code for a block nobody branched out of.                                *)
LEMMA AppendSound ==
    ASSUME NEW p, NEW U, Sound(p, U), NEW b \in 1..Len(p.nodes), ~IsBlockTerminated(p, b),
           NEW code \in Seq(InsnType), BlockOK(Len(p.nodes), code),
           Plain(code) \/ b \notin U
    PROVE  LET q == AddCode(p, b, code)
           IN  /\ Sound(q, U) /\ Len(q.nodes) = Len(p.nodes) /\ q.current_bb = p.current_bb
               /\ Plain(code) => ~IsBlockTerminated(q, b)
               /\ \A c \in 1..Len(p.nodes) : c # b => q.nodes[c] = p.nodes[c]
<1> DEFINE q == AddCode(p, b, code)
           n == Len(p.nodes)
           u == p.nodes[b]
<1>1. ProcOK(p) /\ CodeOK(p) /\ u \in Seq(InsnType)
  BY SoundTypes DEF Sound
<1>2. /\ ProcOK(q) /\ Len(q.nodes) = n /\ q.current_bb = p.current_bb
      /\ q.nodes[b] = u \o code
      /\ \A c \in 1..n : c # b => q.nodes[c] = p.nodes[c]
  BY <1>1, AppendCode
<1> HIDE DEF q
<1>3. BlockOK(n, u) /\ (u # <<>> => u[Len(u)].op \notin Branches)
  BY <1>1 DEF CodeOK, IsBlockTerminated
<1>4. /\ BlockOK(n, u \o code)
      /\ Plain(code) => (u \o code # <<>> => (u \o code)[Len(u \o code)].op \notin Branches)
  BY <1>1, <1>3, BlockGrows
<1>5. Plain(code) => ~IsBlockTerminated(q, b)
  BY <1>2, <1>4 DEF IsBlockTerminated
<1>6. CodeOK(q)
  BY <1>1, <1>2, <1>4 DEF CodeOK
<1>7. ASSUME NEW c \in U
      PROVE  c \in 1..n /\ c # p.current_bb /\ ~IsBlockTerminated(q, c)
  <2>1. c \in 1..n /\ c # p.current_bb /\ ~IsBlockTerminated(p, c)
    BY DEF Sound
  <2>2. CASE c = b
    BY <1>5, <2>1, <2>2
  <2>3. CASE c # b
    BY <1>2, <2>1, <2>3 DEF IsBlockTerminated
  <2> QED BY <2>1, <2>2, <2>3
<1>8. Sound(q, U)
  BY <1>2, <1>6, <1>7 DEF Sound
<1> QED BY <1>2, <1>5, <1>8 DEF q

LEMMA PlainOK ==
    ASSUME NEW n, NEW code, Plain(code)
    PROVE  BlockOK(n, code)
BY DEF Plain, BlockOK

LEMMA OneInsn ==
    ASSUME NEW insn \in InsnType
    PROVE  /\ <<insn>> \in Seq(InsnType)
           /\ insn.op \notin Branches => Plain(<<insn>>)
           /\ \A n : BranchOK(n, insn) => BlockOK(n, <<insn>>)
<1> DEFINE code == <<insn>>
<1>1. code \in Seq(InsnType) /\ Len(code) = 1 /\ code[1] = insn
  OBVIOUS
<1> HIDE DEF code
<1> QED BY <1>1 DEF Plain, BlockOK, code

(* Instructions of the current block. *)
LEMMA OpsSound ==
    ASSUME NEW p, NEW U, Sound(p, U), Open(p), NEW code \in Seq(InsnType), Plain(code)
    PROVE  LET q == Ops(p, code)
           IN  /\ Sound(q, U) /\ Open(q) /\ Len(q.nodes) = Len(p.nodes)
               /\ q.current_bb = p.current_bb
<1> DEFINE b == p.current_bb
<1>1. b \in 1..Len(p.nodes)
  BY SoundTypes
<1>2. Ops(p, code) = AddCode(p, b, code) /\ ~IsBlockTerminated(p, b)
  BY DEF Ops, Open
<1>3. BlockOK(Len(p.nodes), code)
  BY PlainOK
<1> HIDE DEF b
<1> DEFINE q == AddCode(p, b, code)
<1>4. /\ Sound(q, U) /\ Len(q.nodes) = Len(p.nodes) /\ q.current_bb = p.current_bb
      /\ ~IsBlockTerminated(q, b)
  BY <1>1, <1>2, <1>3, AppendSound
<1> QED BY <1>2, <1>4 DEF Open, b

LEMMA BranchSound ==
    ASSUME NEW p, NEW U, Sound(p, U), Open(p), NEW insn \in InsnType,
           BranchOK(Len(p.nodes), insn), insn.op \in Branches
    PROVE  LET q == AddInstruction(p, insn)
           IN  /\ Sound(q, U) /\ ~Open(q) /\ Len(q.nodes) = Len(p.nodes)
               /\ q.current_bb = p.current_bb
<1> DEFINE b == p.current_bb
           code == <<insn>>
<1>1. b \in 1..Len(p.nodes) /\ b \notin U
  BY SoundTypes DEF Sound
<1>2. AddInstruction(p, insn) = AddCode(p, b, code) /\ ~IsBlockTerminated(p, b)
  BY DEF AddInstruction, Open
<1>3. BlockOK(Len(p.nodes), code) /\ code \in Seq(InsnType)
  BY OneInsn
<1> HIDE DEF b, code
<1> DEFINE q == AddCode(p, b, code)
<1>4. /\ Sound(q, U) /\ Len(q.nodes) = Len(p.nodes) /\ q.current_bb = p.current_bb
  BY <1>1, <1>2, <1>3, AppendSound
<1>5. ~Open(AddInstruction(p, insn))
  BY AddInstructionLemma, SoundTypes DEF Open
<1> QED BY <1>2, <1>4, <1>5

LEMMA CreateSound ==
    ASSUME NEW p, NEW U, Sound(p, U), NEW n \in Nat
    PROVE  LET q == CreateBlocks(p, n)
           IN  /\ Sound(q, U \cup ((Len(p.nodes) + 1)..(Len(p.nodes) + n)))
               /\ Len(q.nodes) = Len(p.nodes) + n /\ q.current_bb = p.current_bb
               /\ Open(p) <=> Open(q)
               /\ \A b \in 1..Len(p.nodes) : q.nodes[b] = p.nodes[b]
<1> DEFINE q == CreateBlocks(p, n)
           new == [i \in 1..n |-> <<>>]
           m == Len(p.nodes)
<1>1. /\ ProcOK(p) /\ CodeOK(p) /\ m \in Nat /\ p.current_bb \in 1..m
      /\ p.nodes \in Seq(Seq(InsnType))
  BY SoundTypes DEF Sound, ProcOK, ProcType
<1>2. /\ ProcOK(q) /\ Len(q.nodes) = m + n /\ q.current_bb = p.current_bb
  BY <1>1, CreateBlocksLemma
<1>3. q.nodes = p.nodes \o new
  BY DEF CreateBlocks, ProcOK, ProcType
<1>4. /\ new \in Seq(Seq(InsnType)) /\ Len(new) = n
      /\ \A i \in 1..n : new[i] = <<>>
  <2>1. <<>> \in Seq(InsnType)
    OBVIOUS
  <2> QED BY <2>1
<1> HIDE DEF new, q
<1>5. /\ \A b \in 1..m : q.nodes[b] = p.nodes[b]
      /\ \A i \in 1..n : q.nodes[m + i] = new[i]
  BY <1>1, <1>3, <1>4
<1>6. \A b \in (m + 1)..(m + n) : q.nodes[b] = <<>>
  <2>1. ASSUME NEW b \in (m + 1)..(m + n) PROVE q.nodes[b] = <<>>
    <3>1. b - m \in 1..n /\ b = m + (b - m)
      BY <1>1
    <3> QED BY <1>4, <1>5, <3>1
  <2> QED BY <2>1
<1>7. ASSUME NEW b \in 1..(m + n) PROVE BlockOK(m + n, q.nodes[b])
  <2>1. CASE b \in 1..m
    <3>1. BlockOK(m, p.nodes[b]) /\ q.nodes[b] = p.nodes[b]
      BY <1>1, <1>5, <2>1 DEF CodeOK
    <3>2. \A insn : BranchOK(m, insn) => BranchOK(m + n, insn)
      BY <1>1 DEF BranchOK
    <3> QED BY <3>1, <3>2 DEF BlockOK
  <2>2. CASE b \notin 1..m
    <3>1. q.nodes[b] = <<>>
      BY <1>1, <1>6, <2>2
    <3> QED BY <3>1 DEF BlockOK
  <2> QED BY <2>1, <2>2
<1>8. CodeOK(q)
  BY <1>2, <1>7 DEF CodeOK
<1>9. ASSUME NEW b \in U \cup ((m + 1)..(m + n))
      PROVE  b \in 1..(m + n) /\ b # p.current_bb /\ ~IsBlockTerminated(q, b)
  <2>1. CASE b \in U
    <3>1. b \in 1..m /\ b # p.current_bb /\ ~IsBlockTerminated(p, b)
      BY <2>1 DEF Sound
    <3> QED BY <1>1, <1>5, <3>1 DEF IsBlockTerminated
  <2>2. CASE b \in (m + 1)..(m + n)
    BY <1>1, <1>6, <2>2 DEF IsBlockTerminated
  <2> QED BY <2>1, <2>2
<1>10. Sound(q, U \cup ((m + 1)..(m + n)))
  BY <1>2, <1>8, <1>9 DEF Sound
<1>11. Open(p) <=> Open(q)
  BY <1>1, <1>2, <1>5 DEF Open, IsBlockTerminated
<1> QED BY <1>2, <1>5, <1>10, <1>11 DEF q

(* Moving to a block that waited. *)
LEMMA MoveSound ==
    ASSUME NEW p, NEW q, NEW U, Sound(p, U), NEW b \in U,
           q = [p EXCEPT !.current_bb = b]
    PROVE  /\ Sound(q, U \ {b}) /\ Open(q) /\ Len(q.nodes) = Len(p.nodes)
           /\ q.current_bb = b /\ q.nodes = p.nodes
<1>1. ProcOK(p) /\ p \in ProcType /\ b \in 1..Len(p.nodes) /\ b \in Nat
  BY SoundTypes DEF Sound, ProcOK
<1>2. q \in ProcType /\ q.nodes = p.nodes /\ q.current_bb = b
  BY <1>1 DEF ProcType
<1> QED BY <1>1, <1>2 DEF Sound, ProcOK, CodeOK, Open, IsBlockTerminated

LEMMA BrInsn ==
    ASSUME NEW p, NEW U, Sound(p, U), NEW b \in 1..Len(p.nodes), NEW n \in Nat,
           n >= Len(p.nodes)
    PROVE  LET insn == Insn("br", <<b>>, -1, p.current_scope)
           IN  insn \in InsnType /\ insn.op \in Branches /\ BranchOK(n, insn)
<1> DEFINE targets == <<b>>
<1>1. targets \in Seq(Nat \ {0}) /\ Len(targets) = 1 /\ targets[1] = b
  BY SoundTypes
<1> HIDE DEF targets
<1> DEFINE insn == Insn("br", targets, -1, p.current_scope)
<1>2. insn \in InsnType /\ insn.op = "br" /\ insn.targets = targets
  BY <1>1, SoundTypes DEF Insn, InsnType, Opcodes
<1> HIDE DEF insn
<1>3. b \in 1..n
  BY SoundTypes
<1>4. BranchOK(n, insn)
  <2>1. ASSUME NEW k \in 1..Len(insn.targets) PROVE insn.targets[k] = b
    <3>1. k \in 1..1
      BY <1>1, <1>2
    <3>2. k = 1
      BY <3>1
    <3> QED BY <1>1, <1>2, <3>2
  <2> QED BY <1>2, <1>3, <2>1 DEF BranchOK
<1> QED BY <1>2, <1>4 DEF Branches, insn, targets

LEMMA StartSound ==
    ASSUME NEW p, NEW U, Sound(p, U), NEW b \in U
    PROVE  LET q == StartBlock(p, b)
           IN  /\ Sound(q, U \ {b}) /\ Open(q) /\ Len(q.nodes) = Len(p.nodes)
               /\ q.current_bb = b
<1> DEFINE insn == Insn("br", <<b>>, -1, p.current_scope)
           r == IF IsBlockTerminated(p, p.current_bb) THEN p ELSE AddInstruction(p, insn)
<1>1. b \in 1..Len(p.nodes) /\ Len(p.nodes) \in Nat
  BY SoundTypes DEF Sound
<1>2. insn \in InsnType /\ insn.op \in Branches /\ BranchOK(Len(p.nodes), insn)
  BY <1>1, BrInsn
<1>3. StartBlock(p, b) = [r EXCEPT !.current_bb = b]
  BY DEF StartBlock
<1> HIDE DEF insn
<1>4. Sound(r, U) /\ Len(r.nodes) = Len(p.nodes)
  <2>1. CASE IsBlockTerminated(p, p.current_bb)
    BY <2>1
  <2>2. CASE ~IsBlockTerminated(p, p.current_bb)
    BY <1>2, <2>2, BranchSound DEF Open
  <2> QED BY <2>1, <2>2
<1> HIDE DEF r
<1> QED BY <1>3, <1>4, MoveSound

LEMMA BrSound ==
    ASSUME NEW p, NEW U, Sound(p, U), NEW b \in 1..Len(p.nodes)
    PROVE  LET q == InstructBr(p, b)
           IN  /\ Sound(q, U) /\ ~Open(q) /\ Len(q.nodes) \in Nat
               /\ Len(q.nodes) >= Len(p.nodes)
               /\ Open(p) => Len(q.nodes) = Len(p.nodes)
<1> DEFINE c == CreateBlocks(p, 1)
           m == NewBlock(p)
           r == IF IsBlockTerminated(p, p.current_bb) THEN StartBlock(c, m) ELSE p
           insn == Insn("br", <<b>>, -1, p.current_scope)
<1>1. Len(p.nodes) \in Nat /\ m = Len(p.nodes) + 1
  BY SoundTypes DEF NewBlock
<1>2. InstructBr(p, b) = AddInstruction(r, insn)
  BY DEF InstructBr
<1>3. /\ insn \in InsnType /\ insn.op \in Branches
      /\ \A n \in Nat : n >= Len(p.nodes) => BranchOK(n, insn)
  BY BrInsn, <1>1
<1> HIDE DEF insn, m
<1>4. /\ Sound(c, U \cup {m}) /\ Len(c.nodes) = Len(p.nodes) + 1
  <2>1. /\ Sound(c, U \cup ((Len(p.nodes) + 1)..(Len(p.nodes) + 1)))
        /\ Len(c.nodes) = Len(p.nodes) + 1
    BY CreateSound
  <2> HIDE DEF c
  <2>2. (Len(p.nodes) + 1)..(Len(p.nodes) + 1) = {m}
    BY <1>1
  <2> QED BY <2>1, <2>2
<1> HIDE DEF c
<1>5. /\ Sound(r, U) /\ Open(r) /\ Len(r.nodes) \in Nat /\ Len(r.nodes) >= Len(p.nodes)
      /\ Open(p) => Len(r.nodes) = Len(p.nodes)
  <2>1. CASE IsBlockTerminated(p, p.current_bb)
    <3> DEFINE d == StartBlock(c, m)
    <3>1. /\ Sound(d, (U \cup {m}) \ {m}) /\ Open(d) /\ Len(d.nodes) = Len(c.nodes)
      BY <1>4, StartSound
    <3>2. r = d
      BY <2>1
    <3> HIDE DEF d, r
    <3>3. m \notin U
      BY <1>1 DEF Sound
    <3>4. (U \cup {m}) \ {m} = U
      BY <3>3
    <3>5. Sound(d, U)
      BY <3>1, <3>4
    <3>6. Sound(r, U) /\ Open(r) /\ Len(r.nodes) = Len(p.nodes) + 1
      BY <1>4, <3>1, <3>2, <3>5
    <3>7. ~Open(p)
      BY <2>1 DEF Open
    <3> QED BY <1>1, <3>6, <3>7
  <2>2. CASE ~IsBlockTerminated(p, p.current_bb)
    BY <1>1, <2>2 DEF Open
  <2> QED BY <2>1, <2>2
<1> HIDE DEF r
<1>6. BranchOK(Len(r.nodes), insn)
  BY <1>3, <1>5
<1> DEFINE q == AddInstruction(r, insn)
<1>7. Sound(q, U) /\ ~Open(q) /\ Len(q.nodes) = Len(r.nodes)
  BY <1>3, <1>5, <1>6, BranchSound
<1> QED BY <1>2, <1>5, <1>7

LEMMA CbrSound ==
    ASSUME NEW p, NEW U, Sound(p, U), Open(p),
           NEW t \in 1..Len(p.nodes), NEW f \in 1..Len(p.nodes)
    PROVE  LET q == InstructCbr(p, t, f)
           IN  Sound(q, U) /\ ~Open(q) /\ Len(q.nodes) = Len(p.nodes)
<1> DEFINE targets == <<t, f>>
<1>1. targets \in Seq(Nat \ {0}) /\ Len(targets) = 2 /\ targets[1] = t /\ targets[2] = f
  BY SoundTypes
<1> HIDE DEF targets
<1> DEFINE insn == Insn("cbr", targets, -1, p.current_scope)
<1>2. insn \in InsnType /\ insn.op = "cbr" /\ insn.targets = targets
  BY <1>1, SoundTypes DEF Insn, InsnType, Opcodes
<1>3. InstructCbr(p, t, f) = AddInstruction(p, insn)
  BY DEF InstructCbr, targets
<1> HIDE DEF insn
<1>4. BranchOK(Len(p.nodes), insn)
  <2>1. ASSUME NEW k \in 1..Len(insn.targets)
        PROVE  insn.targets[k] = t \/ insn.targets[k] = f
    <3>1. k \in 1..2
      BY <1>1, <1>2
    <3>2. k = 1 \/ k = 2
      BY <3>1
    <3> QED BY <1>1, <1>2, <3>2
  <2> QED BY <1>2, <2>1 DEF BranchOK
<1>5. insn.op \in Branches
  BY <1>2 DEF Branches
<1> QED BY <1>2, <1>3, <1>4, <1>5, BranchSound

(* Closing the upvalues of a scope in a block nobody branched out of. *)
LEMMA CloseSound ==
    ASSUME NEW p, NEW U, Sound(p, U), NEW b \in 1..Len(p.nodes), ~IsBlockTerminated(p, b),
           NEW s \in Nat, NEW sc \in ScopeType
    PROVE  LET q == InstructClose(p, b, s, sc)
           IN  /\ Sound(q, U) /\ Len(q.nodes) = Len(p.nodes) /\ q.current_bb = p.current_bb
               /\ ~IsBlockTerminated(q, b)
               /\ \A c \in 1..Len(p.nodes) : c # b => q.nodes[c] = p.nodes[c]
<1> DEFINE insn == Insn("close", <<>>, Minimum(EscapedRegs(sc)), s)
           code == <<insn>>
           add == AddCode(p, b, code)
           q == InstructClose(p, b, s, sc)
<1>1. q = p \/ (NeedClose(sc) /\ q = add)
  BY DEF InstructClose
<1>2. CASE q = p
  BY <1>2
<1>3. CASE NeedClose(sc) /\ q = add
  <2>1. insn \in InsnType /\ insn.op \notin Branches
    <3>1. <<>> \in Seq(Nat \ {0}) /\ Minimum(EscapedRegs(sc)) \in Int
      BY <1>3, EscapedRegsLemma
    <3> QED BY <3>1 DEF Insn, InsnType, Opcodes, Branches
  <2> HIDE DEF insn
  <2>2. code \in Seq(InsnType) /\ Plain(code)
    BY <2>1, OneInsn
  <2> HIDE DEF code
  <2>3. BlockOK(Len(p.nodes), code)
    BY <2>2, PlainOK
  <2>4. /\ Sound(add, U) /\ Len(add.nodes) = Len(p.nodes) /\ add.current_bb = p.current_bb
        /\ ~IsBlockTerminated(add, b)
        /\ \A c \in 1..Len(p.nodes) : c # b => add.nodes[c] = p.nodes[c]
    BY <2>2, <2>3, AppendSound
  <2> HIDE DEF add, q
  <2> QED BY <1>3, <2>4 DEF q
<1> QED BY <1>1, <1>2, <1>3

(* In the current block, also after a return: then nothing is added. *)
LEMMA CloseHereSound ==
    ASSUME NEW p, NEW U, Sound(p, U), Closable(p), NEW s \in Nat, NEW sc \in ScopeType
    PROVE  LET q == InstructClose(p, p.current_bb, s, sc)
           IN  /\ Sound(q, U) /\ Len(q.nodes) = Len(p.nodes) /\ q.current_bb = p.current_bb
               /\ Closable(q) /\ (Open(p) => Open(q))
<1> DEFINE b == p.current_bb
           q == InstructClose(p, b, s, sc)
<1>1. b \in 1..Len(p.nodes)
  BY SoundTypes
<1>2. CASE Open(p)
  <2>1. ~IsBlockTerminated(p, b)
    BY <1>2 DEF Open
  <2>2. /\ Sound(q, U) /\ Len(q.nodes) = Len(p.nodes) /\ q.current_bb = p.current_bb
        /\ ~IsBlockTerminated(q, b)
    BY <1>1, <2>1, CloseSound
  <2> HIDE DEF q
  <2> QED BY <2>2 DEF Open, Closable, q
<1>3. CASE ~Open(p)
  <2>1. q = p
    BY <1>3 DEF InstructClose, Closable, LastIsRet
  <2> QED BY <1>3, <2>1
<1> QED BY <1>2, <1>3

-----------------------------------------------------------------------------
(* The inductive invariant of the whole state. *)

(* Whoever waits is the exit, or held by a function in progress, or the    *)
(* block of a label to come.                                               *)
Kept(p, sc, st) == Waiting(p) \subseteq {EXIT_BLOCK} \cup HeldBy(st) \cup OwedLabels(sc)

(* A label that was met has its block. *)
PlacedOK(sc) == \A s \in 1..Len(sc) : sc[s].placed => sc[s].label_block # 0

(* The end of the function ended the last block and its scope, is in no    *)
(* loop, and met every label.                                              *)
EndedOK(p, sc) ==
    /\ IsBlockTerminated(p, p.current_bb)
    /\ p.current_scope = NoScope
    /\ p.current_break_target = NoBlock
    /\ OwedLabels(sc) \subseteq {0}

CountersOK ==
    /\ list \in {"empty", "open", "ended"}
    /\ captured \subseteq Nat \X Int
    /\ stmts \in Nat
    /\ failed \in BOOLEAN

StateOK(p, sc, st) ==
    /\ ProcOK(p)
    /\ ScopesOK(sc)
    /\ PlacedOK(sc)
    /\ st # <<>> => Walking(p, sc, st)
    /\ st = <<>> => EndedOK(p, sc)
    /\ "goto_backward_close" \notin Grammar => Kept(p, sc, st)

IInv == CountersOK /\ StateOK(proc, scopes, stack)

-----------------------------------------------------------------------------
(* Lemmas about the blocks that are held and owed. *)

LEMMA HeldPush ==
    ASSUME NEW st \in Seq(FrameType), NEW f \in FrameType
    PROVE  HeldBy(st) \cup Held(f) \subseteq HeldBy(Append(st, f))
<1> DEFINE su == Append(st, f)
<1>1. /\ DOMAIN st = 1..Len(st) /\ DOMAIN su = 1..(Len(st) + 1) /\ Len(st) \in Nat
      /\ su[Len(st) + 1] = f
      /\ \A i \in 1..Len(st) : su[i] = st[i]
  OBVIOUS
<1> HIDE DEF su
<1>2. \A i \in 1..Len(st) : Held(st[i]) \subseteq HeldBy(su)
  BY <1>1 DEF HeldBy
<1>3. Held(f) \subseteq HeldBy(su)
  BY <1>1 DEF HeldBy
<1>4. HeldBy(st) \subseteq HeldBy(su)
  BY <1>1, <1>2 DEF HeldBy
<1> QED BY <1>3, <1>4 DEF su

LEMMA HeldPop ==
    ASSUME NEW st \in Seq(FrameType), Len(st) >= 1
    PROVE  HeldBy(st) \subseteq HeldBy(SubSeq(st, 1, Len(st) - 1)) \cup Held(st[Len(st)])
<1> DEFINE su == SubSeq(st, 1, Len(st) - 1)
<1>1. /\ DOMAIN st = 1..Len(st) /\ DOMAIN su = 1..(Len(st) - 1) /\ Len(st) \in Nat
      /\ \A i \in 1..(Len(st) - 1) : su[i] = st[i]
  OBVIOUS
<1> HIDE DEF su
<1>2. ASSUME NEW i \in 1..Len(st), i # Len(st) PROVE Held(st[i]) \subseteq HeldBy(su)
  <2>1. i \in 1..(Len(st) - 1)
    <3>1. Len(st) \in Nat
      OBVIOUS
    <3> QED BY <3>1, <1>2
  <2> QED BY <1>1, <2>1 DEF HeldBy
<1>3. \A i \in 1..Len(st) : Held(st[i]) \subseteq HeldBy(su) \cup Held(st[Len(st)])
  BY <1>2
<1> QED BY <1>1, <1>3 DEF HeldBy, su

LEMMA OwedGrow ==
    ASSUME NEW sc \in Seq(ScopeType), NEW sd \in Seq(ScopeType), MoreScopes(sc, sd)
    PROVE  OwedLabels(sc) \subseteq OwedLabels(sd)
<1>1. DOMAIN sc = 1..Len(sc) /\ DOMAIN sd = 1..Len(sd) /\ Len(sc) \in Nat /\ Len(sd) \in Nat
  OBVIOUS
<1>2. \A s \in 1..Len(sc) : s \in 1..Len(sd) /\ sd[s] = sc[s]
  BY <1>1 DEF MoreScopes
<1> QED BY <1>1, <1>2 DEF OwedLabels

LEMMA WaitingNotZero ==
    ASSUME NEW p, ProcOK(p) PROVE 0 \notin Waiting(p)
BY DEF Waiting

-----------------------------------------------------------------------------
(* What is known at any step of the walk. *)
LEMMA Here ==
    ASSUME IInv, stack # <<>>
    PROVE  /\ ProcOK(proc) /\ ScopesOK(scopes) /\ Walking(proc, scopes, stack)
           /\ Len(proc.nodes) \in Nat /\ Len(proc.nodes) >= 2
           /\ scopes \in Seq(ScopeType) /\ Len(scopes) \in Nat
           /\ proc.current_scope \in 1..Len(scopes)
           /\ Current \in ScopeType /\ Current = scopes[proc.current_scope]
           /\ Current.path = PathOf(proc, scopes)
           /\ stack \in Seq(FrameType) /\ Len(stack) \in Nat \ {0}
           /\ Top = stack[Len(stack)] /\ Top \in FrameType
           /\ DOMAIN Current.path = 1..Len(Current.path)
           /\ CursorOK(proc, scopes)
<1>1. ProcOK(proc) /\ ScopesOK(scopes) /\ Walking(proc, scopes, stack)
  BY DEF IInv, StateOK
<1>2. /\ Len(proc.nodes) \in Nat /\ Len(proc.nodes) >= 2
  BY <1>1 DEF ProcOK, ProcType
<1>3. scopes \in Seq(ScopeType) /\ Len(scopes) \in Nat
  BY <1>1 DEF ScopesOK
<1>4. proc.current_scope \in 1..Len(scopes) /\ CursorOK(proc, scopes)
  BY <1>1 DEF Walking, CursorOK
<1>5. Current \in ScopeType /\ Current = scopes[proc.current_scope]
  BY <1>3, <1>4 DEF Current
<1>6. Current.path = PathOf(proc, scopes)
  BY DEF Current, PathOf
<1>7. stack \in Seq(FrameType) /\ Len(stack) >= 1
  BY <1>1 DEF Walking, FramesOK
<1>8. Len(stack) \in Nat \ {0}
  BY <1>7
<1>9. Top = stack[Len(stack)] /\ Top \in FrameType
  BY <1>7, <1>8 DEF Top
<1>10. Current.path \in Seq(Nat \ {0})
  BY <1>5 DEF ScopeType
<1>11. DOMAIN Current.path = 1..Len(Current.path)
  BY <1>10
<1> QED BY <1>1, <1>2, <1>3, <1>4, <1>5, <1>6, <1>7, <1>8, <1>9, <1>11

(* The scope whose locals a jump has to close is one of those in progress. *)
LEMMA MinClosingScopeLemma ==
    ASSUME IInv, stack # <<>>, NEW s
    PROVE  MinClosingScope(s) \in 0..Len(scopes)
<1> DEFINE path == Current.path
           closing == {i \in DOMAIN path : /\ \E j \in 1..i : path[j] = s
                                           /\ NeedClose(scopes[path[i]])}
<1>1. MinClosingScope(s) = IF closing = {} THEN NoScope ELSE path[Minimum(closing)]
  BY DEF MinClosingScope, Current
<1>2. DOMAIN path = 1..Len(path) /\ Len(scopes) \in Nat
  BY Here
<1>3. \A i \in 1..Len(path) : path[i] \in 1..Len(scopes)
  BY Here, WalkingTypes
<1>4. CASE closing = {}
  BY <1>1, <1>2, <1>4 DEF NoScope
<1>5. CASE closing # {}
  <2>1. closing \in SUBSET Nat /\ closing \subseteq 1..Len(path)
    BY <1>2
  <2> HIDE DEF closing
  <2>2. Minimum(closing) \in 1..Len(path)
    BY <1>5, <2>1, MinimumLemma
  <2>3. path[Minimum(closing)] \in 1..Len(scopes)
    BY <1>3, <2>2
  <2> QED BY <1>1, <1>2, <1>5, <2>3
<1> QED BY <1>4, <1>5

LEMMA CloseInTargetLemma ==
    ASSUME NEW p, ProcOK(p), NEW b \in 1..Len(p.nodes), NEW c \in 0..Len(scopes),
           scopes \in Seq(ScopeType)
    PROVE  LET q == CloseInTarget(p, b, c)
           IN  /\ ProcOK(q) /\ SameContext(p, q) /\ Len(q.nodes) = Len(p.nodes)
               /\ q.current_bb = p.current_bb
               /\ Waiting(q) \subseteq Waiting(p) \cup {b}
               /\ c = NoScope => q = p
<1> DEFINE q == CloseInTarget(p, b, c)
<1>1. CASE c = NoScope
  BY <1>1 DEF CloseInTarget, SameContext, SameBreak
<1>2. CASE c # NoScope
  <2>1. q = InstructClose(p, b, c, scopes[c])
    BY <1>2 DEF CloseInTarget
  <2>2. scopes[c] \in ScopeType /\ c \in Nat
    BY <1>2 DEF NoScope
  <2>3. /\ ProcOK(q) /\ SameContext(p, q) /\ Len(q.nodes) = Len(p.nodes)
        /\ q.current_bb = p.current_bb
        /\ Waiting(q) \subseteq Waiting(p) \cup ({b} \ {p.current_bb})
    BY <2>1, <2>2, InstructCloseLemma
  <2> QED BY <1>2, <2>3
<1> QED BY <1>1, <1>2

(* A condition evaluated in a block of its own. *)
LEMMA TestCondLemma ==
    ASSUME NEW p, ProcOK(p), NEW b \in 1..Len(p.nodes),
           NEW t \in Nat \ {0}, NEW f \in Nat \ {0}
    PROVE  LET q == TestCond(p, b, t, f)
           IN  /\ ProcOK(q) /\ SameContext(p, q) /\ Len(q.nodes) = Len(p.nodes)
               /\ Waiting(q) \subseteq Waiting(p) \ {b}
<1> DEFINE q == TestCond(p, b, t, f)
           insn == Insn("op", <<>>, -1, p.current_scope)
           code == << insn >>
           r1 == StartBlock(p, b)
           r2 == Ops(r1, code)
<1>1. code \in Seq(InsnType)
  <2>1. p.current_scope \in Nat /\ "op" \in Opcodes
    BY DEF ProcOK, ProcType, Opcodes
  <2>2. insn \in InsnType
    BY <2>1 DEF Insn, InsnType
  <2> QED BY <2>2
<1>2. q = InstructCbr(r2, t, f)
  BY DEF TestCond
<1> HIDE DEF code
<1>3. /\ ProcOK(r1) /\ SameContext(p, r1) /\ Len(r1.nodes) = Len(p.nodes)
      /\ Waiting(r1) \subseteq Waiting(p) \ {b}
  BY StartBlockLemma
<1> HIDE DEF r1
<1>4. /\ ProcOK(r2) /\ SameContext(r1, r2) /\ Len(r2.nodes) = Len(r1.nodes)
      /\ Waiting(r2) \subseteq Waiting(r1)
  BY <1>1, <1>3, OpsLemma
<1> HIDE DEF r2
<1>5. /\ ProcOK(q) /\ SameContext(r2, q) /\ Len(q.nodes) = Len(r2.nodes)
      /\ Waiting(q) \subseteq Waiting(r2)
  BY <1>2, <1>4, InstructCbrLemma
<1> QED BY <1>3, <1>4, <1>5 DEF SameContext, SameBreak
-----------------------------------------------------------------------------
(* Changing the label or the declaration of one scope. *)
LEMMA ScopeUpdate ==
    ASSUME NEW sc, ScopesOK(sc), NEW s \in 1..Len(sc), NEW new \in ScopeType,
           new.path = sc[s].path, new.base = sc[s].base,
           new.locals = sc[s].locals, new.label = sc[s].label
    PROVE  LET sd == [sc EXCEPT ![s] = new]
           IN  /\ SameScopes(sc, sd) /\ sd[s] = new
               /\ \A t \in 1..Len(sc) : t # s => sd[t] = sc[t]
<1> DEFINE sd == [sc EXCEPT ![s] = new]
<1>1. sc \in Seq(ScopeType)
  BY DEF ScopesOK
<1>2. sd \in Seq(ScopeType) /\ Len(sd) = Len(sc) /\ sd[s] = new
  BY <1>1
<1>3. \A t \in 1..Len(sc) : t # s => sd[t] = sc[t]
  BY <1>1
<1> HIDE DEF sd
<1>4. ASSUME NEW t \in 1..Len(sc)
      PROVE  /\ sd[t].path = sc[t].path /\ sd[t].base = sc[t].base
             /\ sd[t].locals = sc[t].locals /\ sd[t].label = sc[t].label
  <2>1. CASE t = s
    BY <1>2, <2>1
  <2>2. CASE t # s
    BY <1>3, <2>2
  <2> QED BY <2>1, <2>2
<1>5. SameScopes(sc, sd)
  BY <1>2, <1>4 DEF SameScopes
<1> QED BY <1>2, <1>3, <1>5 DEF sd

(* The step of a statement without a list of its own. *)
LEMMA SimpleKeeps ==
    ASSUME IInv, stack # <<>>, UNCHANGED stack, CountersOK',
           ProcOK(proc'), SameContext(proc, proc'),
           Len(proc'.nodes) >= Len(proc.nodes),
           SameScopes(scopes, scopes'), LabelsOK(proc', scopes'), PlacedOK(scopes'),
           "goto_backward_close" \notin Grammar => Kept(proc', scopes', stack)
    PROVE  IInv'
<1>1. Walking(proc, scopes, stack)
  BY Here
<1>2. Walking(proc', scopes', stack')
  BY <1>1, SimpleStep
<1>3. ScopesOK(scopes')
  BY <1>2 DEF Walking
<1> QED BY <1>2, <1>3 DEF IInv, StateOK

(* LabelsOK when the labels stay what they are. *)
LEMMA LabelsStay ==
    ASSUME IInv, stack # <<>>, NEW q, NEW sd, ProcOK(q), SameContext(proc, q),
           Len(q.nodes) >= Len(proc.nodes), SameScopes(scopes, sd),
           \A s \in 1..Len(scopes) : /\ sd[s].label_block = scopes[s].label_block
                                     /\ sd[s].placed = scopes[s].placed
    PROVE  LabelsOK(q, sd) /\ PlacedOK(sd) /\ OwedLabels(sd) = OwedLabels(scopes)
<1>1. /\ LabelsOK(proc, scopes) /\ PlacedOK(scopes) /\ proc.current_scope \in 1..Len(scopes)
      /\ scopes \in Seq(ScopeType) /\ Len(proc.nodes) \in Nat
  BY Here DEF IInv, StateOK, Walking
<1>2. /\ Len(q.nodes) \in Nat /\ q.current_scope = proc.current_scope
      /\ Len(sd) = Len(scopes) /\ sd \in Seq(ScopeType)
      /\ sd[q.current_scope].path = scopes[proc.current_scope].path
      /\ \A s \in 1..Len(scopes) : sd[s].label = scopes[s].label
  BY <1>1 DEF ProcOK, ProcType, SameContext, SameScopes
<1>3. ASSUME NEW s \in 1..Len(sd) PROVE LabelOK(q, sd, s)
  <2>1. LabelOK(proc, scopes, s) /\ s \in 1..Len(scopes)
    BY <1>1, <1>2 DEF LabelsOK
  <2>2. scopes[s].label_block \in 0..Len(q.nodes)
    BY <1>1, <1>2, <2>1 DEF LabelOK
  <2>3. /\ sd[s].label_block = scopes[s].label_block /\ sd[s].placed = scopes[s].placed
        /\ sd[s].label = scopes[s].label
    BY <1>2, <2>1
  <2> QED BY <1>2, <2>1, <2>2, <2>3 DEF LabelOK
<1>4. LabelsOK(q, sd)
  BY <1>3 DEF LabelsOK
<1>5. PlacedOK(sd)
  BY <1>1, <1>2 DEF PlacedOK
<1>6. DOMAIN scopes = 1..Len(scopes) /\ DOMAIN sd = 1..Len(scopes)
  BY <1>1, <1>2
<1>7. OwedLabels(sd) = OwedLabels(scopes)
  BY <1>6 DEF OwedLabels
<1> QED BY <1>4, <1>5, <1>7

(* The code of an expression or of a declaration in the current block. *)
LEMMA CodeKeeps ==
    ASSUME IInv, stack # <<>>, UNCHANGED stack, CountersOK',
           NEW code \in Seq(InsnType), proc' = Ops(proc, code),
           SameScopes(scopes, scopes'),
           \A s \in 1..Len(scopes) : /\ scopes'[s].label_block = scopes[s].label_block
                                     /\ scopes'[s].placed = scopes[s].placed
    PROVE  IInv'
<1>1. ProcOK(proc) /\ Len(proc.nodes) \in Nat
  BY Here
<1>2. /\ ProcOK(proc') /\ SameContext(proc, proc')
      /\ Len(proc'.nodes) = Len(proc.nodes) /\ Waiting(proc') \subseteq Waiting(proc)
  BY <1>1, OpsLemma
<1>3. Len(proc'.nodes) >= Len(proc.nodes)
  BY <1>1, <1>2
<1>4. LabelsOK(proc', scopes') /\ PlacedOK(scopes') /\ OwedLabels(scopes') = OwedLabels(scopes)
  BY <1>2, <1>3, LabelsStay
<1>5. "goto_backward_close" \notin Grammar => Kept(proc', scopes', stack)
  BY <1>2, <1>4 DEF IInv, StateOK, Kept
<1> QED BY <1>2, <1>3, <1>4, <1>5, SimpleKeeps

LEMMA ScopesStay ==
    ASSUME IInv, stack # <<>> PROVE SameScopes(scopes, scopes)
BY Here DEF SameScopes
-----------------------------------------------------------------------------
(* The statements without a list of their own, one lemma each. *)

LEMMA LocalStatementStep ==
    ASSUME IInv, stack # <<>>, LinearizeLocalStatement
    PROVE  IInv'
<1> DEFINE insn == Insn("init", <<>>, Current.base, proc.current_scope)
           code == << insn >>
           new == [Current EXCEPT !.declared = TRUE]
<1>1. proc.current_scope \in Nat /\ Current \in ScopeType
  BY Here
<1>2. code \in Seq(InsnType)
  <2>1. insn \in InsnType
    BY <1>1 DEF Insn, InsnType, Opcodes, ScopeType
  <2> QED BY <2>1
<1>3. /\ new \in ScopeType /\ new.path = Current.path /\ new.base = Current.base
      /\ new.locals = Current.locals /\ new.label = Current.label
      /\ new.label_block = Current.label_block /\ new.placed = Current.placed
  BY <1>1 DEF ScopeType
<1>4. /\ proc' = Ops(proc, code)
      /\ scopes' = [scopes EXCEPT ![proc.current_scope] = new]
      /\ list' = "open" /\ UNCHANGED <<stack, captured, stmts, failed>>
  BY DEF LinearizeLocalStatement, Current
<1> HIDE DEF code, new
<1>5. /\ SameScopes(scopes, scopes') /\ scopes'[proc.current_scope] = new
      /\ \A t \in 1..Len(scopes) : t # proc.current_scope => scopes'[t] = scopes[t]
  <2>1. /\ ScopesOK(scopes) /\ proc.current_scope \in 1..Len(scopes)
        /\ Current = scopes[proc.current_scope]
    BY Here
  <2>2. /\ new.path = scopes[proc.current_scope].path /\ new.base = scopes[proc.current_scope].base
        /\ new.locals = scopes[proc.current_scope].locals /\ new.label = scopes[proc.current_scope].label
    BY <1>3, <2>1
  <2> DEFINE sd == [scopes EXCEPT ![proc.current_scope] = new]
  <2>3. /\ SameScopes(scopes, sd) /\ sd[proc.current_scope] = new
        /\ \A t \in 1..Len(scopes) : t # proc.current_scope => sd[t] = scopes[t]
    BY <1>3, <2>1, <2>2, ScopeUpdate
  <2>4. scopes' = sd
    BY <1>4
  <2> HIDE DEF sd
  <2> QED BY <2>3, <2>4
<1>6. \A s \in 1..Len(scopes) : /\ scopes'[s].label_block = scopes[s].label_block
                                /\ scopes'[s].placed = scopes[s].placed
  BY <1>3, <1>5 DEF Current
<1>7. CountersOK'
  BY <1>4 DEF IInv, CountersOK
<1> QED BY <1>2, <1>4, <1>5, <1>6, <1>7, CodeKeeps

LEMMA LocalFunctionStep ==
    ASSUME IInv, stack # <<>>, LinearizeLocalFunction
    PROVE  IInv'
<1> DEFINE s == proc.current_scope
           regs == EscapedRegs(Current)
           i1 == Insn("closure", <<>>, Minimum(regs), s)
           i2 == Insn("init", <<>>, Current.base, s)
           code == << i1, i2 >>
           new == [Current EXCEPT !.declared = TRUE]
<1>1. s \in Nat /\ Current \in ScopeType
  BY Here
<1>2. regs \subseteq Nat /\ regs # {}
  <2>1. Cardinality(regs) = 1
    BY DEF LinearizeLocalFunction
  <2>2. regs # {}
    BY <2>1, FS_EmptySet
  <2> QED BY <1>1, <2>2, EscapedRegsLemma
<1>3. code \in Seq(InsnType)
  <2>1. Minimum(regs) \in Int
    BY <1>2, MinimumLemma
  <2>2. i1 \in InsnType
    BY <1>1, <2>1 DEF Insn, InsnType, Opcodes
  <2>3. i2 \in InsnType
    BY <1>1 DEF Insn, InsnType, Opcodes, ScopeType
  <2> HIDE DEF i1, i2
  <2> QED BY <2>2, <2>3
<1>4. /\ new \in ScopeType /\ new.path = Current.path /\ new.base = Current.base
      /\ new.locals = Current.locals /\ new.label = Current.label
      /\ new.label_block = Current.label_block /\ new.placed = Current.placed
  BY <1>1 DEF ScopeType
<1>5. /\ proc' = Ops(proc, code)
      /\ scopes' = [scopes EXCEPT ![s] = new]
      /\ captured' = captured \cup ({s} \X regs)
      /\ list' = "open" /\ UNCHANGED <<stack, stmts, failed>>
  BY DEF LinearizeLocalFunction, Current
<1> HIDE DEF code, new, regs
<1>6. /\ SameScopes(scopes, scopes') /\ scopes'[s] = new
      /\ \A t \in 1..Len(scopes) : t # s => scopes'[t] = scopes[t]
  <2>1. /\ ScopesOK(scopes) /\ s \in 1..Len(scopes)
        /\ Current = scopes[s]
    BY Here
  <2>2. /\ new.path = scopes[s].path /\ new.base = scopes[s].base
        /\ new.locals = scopes[s].locals /\ new.label = scopes[s].label
    BY <1>4, <2>1
  <2> DEFINE sd == [scopes EXCEPT ![s] = new]
  <2>3. /\ SameScopes(scopes, sd) /\ sd[s] = new
        /\ \A t \in 1..Len(scopes) : t # s => sd[t] = scopes[t]
    BY <1>4, <2>1, <2>2, ScopeUpdate
  <2>4. scopes' = sd
    BY <1>5
  <2> HIDE DEF sd
  <2> QED BY <2>3, <2>4
<1>7. \A t \in 1..Len(scopes) : /\ scopes'[t].label_block = scopes[t].label_block
                                /\ scopes'[t].placed = scopes[t].placed
  BY <1>4, <1>6 DEF Current
<1>8. CountersOK'
  <2>1. CountersOK
    BY DEF IInv
  <2>2. captured' \subseteq Nat \X Int
    <3>1. captured \subseteq Nat \X Int
      BY <2>1 DEF CountersOK
    <3>2. \A r \in regs : <<s, r>> \in Nat \X Int
      BY <1>1, <1>2
    <3>3. \A x \in {s} \X regs : \E r \in regs : x = <<s, r>>
      OBVIOUS
    <3>4. {s} \X regs \subseteq Nat \X Int
      BY <3>2, <3>3
    <3> HIDE DEF s
    <3> QED BY <1>5, <3>1, <3>4
  <2> QED BY <1>5, <2>1, <2>2 DEF CountersOK
<1> QED BY <1>3, <1>5, <1>6, <1>7, <1>8, CodeKeeps

(* The locals in sight are registers of scopes. *)
LEMMA VisibleTypes ==
    ASSUME IInv, stack # <<>>, NEW v \in Visible
    PROVE  v[1] \in Nat /\ v[2] \in Nat /\ v \in Nat \X Int
<1>1. PICK t \in DOMAIN scopes : v \in {t} \X EscapedRegs(scopes[t])
  BY DEF Visible
<1>2. scopes[t] \in ScopeType /\ t \in Nat
  BY <1>1, Here
<1>3. EscapedRegs(scopes[t]) \subseteq Nat
  BY <1>2, EscapedRegsLemma
<1> QED BY <1>1, <1>2, <1>3

LEMMA FunctionExprStep ==
    ASSUME IInv, stack # <<>>, NEW v \in Visible, LinearizeFunctionExpr(v)
    PROVE  IInv'
<1> DEFINE insn == Insn("closure", <<>>, v[2], v[1])
           code == << insn >>
<1>1. v[1] \in Nat /\ v[2] \in Nat /\ v \in Nat \X Int
  BY VisibleTypes
<1>2. code \in Seq(InsnType)
  <2>1. insn \in InsnType
    BY <1>1 DEF Insn, InsnType, Opcodes
  <2> QED BY <2>1
<1>3. /\ proc' = Ops(proc, code) /\ captured' = captured \cup {v}
      /\ stmts' = stmts + (IF v \in captured THEN 1 ELSE 0) /\ list' = "open"
      /\ UNCHANGED <<scopes, stack, failed>>
  BY DEF LinearizeFunctionExpr, Met
<1> HIDE DEF code
<1>4. CountersOK'
  BY <1>1, <1>3 DEF IInv, CountersOK
<1>5. SameScopes(scopes, scopes')
  BY <1>3, ScopesStay
<1> QED BY <1>2, <1>3, <1>4, <1>5, CodeKeeps

LEMMA ExpressionStatementStep ==
    ASSUME IInv, stack # <<>>, LinearizeExpressionStatement
    PROVE  IInv'
<1>1. PICK insn \in {Insn("op", <<>>, -1, proc.current_scope)} \cup
                    {Insn("use", <<>>, v[2], v[1]) : v \in Visible} :
         proc' = Ops(proc, << insn >>)
  BY DEF LinearizeExpressionStatement
<1> DEFINE code == << insn >>
<1>2. insn \in InsnType
  <2>1. CASE insn = Insn("op", <<>>, -1, proc.current_scope)
    <3>1. proc.current_scope \in Nat
      BY Here
    <3> QED BY <2>1, <3>1 DEF Insn, InsnType, Opcodes
  <2>2. CASE \E v \in Visible : insn = Insn("use", <<>>, v[2], v[1])
    <3>1. PICK v \in Visible : insn = Insn("use", <<>>, v[2], v[1])
      BY <2>2
    <3>2. v[1] \in Nat /\ v[2] \in Nat
      BY VisibleTypes
    <3> QED BY <3>1, <3>2 DEF Insn, InsnType, Opcodes
  <2> QED BY <2>1, <2>2
<1>3. code \in Seq(InsnType)
  BY <1>2
<1>4. /\ stmts' = stmts + 1 /\ list' = "open"
      /\ UNCHANGED <<scopes, stack, captured, failed>>
  BY DEF LinearizeExpressionStatement, Met
<1> HIDE DEF code
<1>5. CountersOK'
  BY <1>4 DEF IInv, CountersOK
<1>6. SameScopes(scopes, scopes')
  BY <1>4, ScopesStay
<1>7. proc' = Ops(proc, code)
  BY <1>1 DEF code
<1> QED BY <1>3, <1>4, <1>5, <1>6, <1>7, CodeKeeps

LEMMA ReturnStep ==
    ASSUME IInv, stack # <<>>, LinearizeReturn
    PROVE  IInv'
<1> DEFINE insn == Insn("ret", <<EXIT_BLOCK>>, -1, proc.current_scope)
           code == << insn >>
<1>1. code \in Seq(InsnType)
  <2>1. proc.current_scope \in Nat /\ <<EXIT_BLOCK>> \in Seq(Nat \ {0})
    BY Here DEF EXIT_BLOCK
  <2>2. insn \in InsnType
    BY <2>1 DEF Insn, InsnType, Opcodes
  <2> QED BY <2>2
<1>2. /\ proc' = Ops(proc, code) /\ stmts' = stmts + 1 /\ list' = "ended"
      /\ UNCHANGED <<scopes, stack, captured, failed>>
  BY DEF LinearizeReturn
<1> HIDE DEF code
<1>3. CountersOK'
  BY <1>2 DEF IInv, CountersOK
<1>4. SameScopes(scopes, scopes')
  BY <1>2, ScopesStay
<1> QED BY <1>1, <1>2, <1>3, <1>4, CodeKeeps
(* A label: starting its block discharges the promise to start it. *)
LEMMA LabelStatementStep ==
    ASSUME IInv, stack # <<>>, LinearizeLabelStatement
    PROVE  IInv'
<1> DEFINE s == proc.current_scope
           n == Len(proc.nodes)
           b == IF Current.label_block # NoBlock THEN Current.label_block
                ELSE IF proc.nodes[proc.current_bb] = <<>> THEN proc.current_bb
                ELSE NewBlock(proc)
           q == IF b = NewBlock(proc) THEN CreateBlocks(proc, 1) ELSE proc
           new == [Current EXCEPT !.label_block = b, !.placed = TRUE]
<1>1. /\ Current.label
      /\ proc' = IF b = proc.current_bb THEN proc ELSE StartBlock(q, b)
      /\ scopes' = [scopes EXCEPT ![s] = new]
      /\ list' = "open" /\ UNCHANGED <<stack, captured, stmts, failed>>
  BY DEF LinearizeLabelStatement, Current
<1>2. /\ ProcOK(proc) /\ n \in Nat /\ s \in 1..Len(scopes) /\ Current \in ScopeType
      /\ Current = scopes[s] /\ proc.current_bb \in 1..n /\ ScopesOK(scopes)
      /\ scopes \in Seq(ScopeType)
  BY Here DEF ProcOK
<1>3. Current.label_block \in 0..n
  BY <1>2, Here DEF Walking, LabelsOK, LabelOK
<1>4. b \in 1..(n + 1)
  BY <1>2, <1>3 DEF NewBlock, NoBlock
<1>5. Current.label_block = b \/ Current.label_block = 0
  BY DEF NoBlock
<1>6. /\ new \in ScopeType /\ new.path = Current.path /\ new.base = Current.base
      /\ new.locals = Current.locals /\ new.label = Current.label
      /\ new.label_block = b /\ new.placed
  <2>1. b \in Nat /\ b # 0
    BY <1>2, <1>4
  <2> HIDE DEF b
  <2> QED BY <1>2, <2>1 DEF ScopeType
<1> HIDE DEF b, new
<1>7. /\ SameScopes(scopes, scopes') /\ scopes'[s] = new
      /\ \A t \in 1..Len(scopes) : t # s => scopes'[t] = scopes[t]
  <2> DEFINE sd == [scopes EXCEPT ![s] = new]
  <2>1. /\ SameScopes(scopes, sd) /\ sd[s] = new
        /\ \A t \in 1..Len(scopes) : t # s => sd[t] = scopes[t]
    BY <1>2, <1>6, ScopeUpdate
  <2>2. scopes' = sd
    BY <1>1
  <2> HIDE DEF sd
  <2> QED BY <2>1, <2>2
<1>8. /\ ProcOK(proc') /\ SameContext(proc, proc') /\ Len(proc'.nodes) >= n
      /\ b \in 1..Len(proc'.nodes) /\ Waiting(proc') \subseteq Waiting(proc) \ {b}
  <2>1. CASE b = proc.current_bb
    <3>1. proc' = proc
      BY <1>1, <2>1
    <3>2. b \notin Waiting(proc)
      BY <2>1 DEF Waiting
    <3> QED BY <1>2, <2>1, <3>1, <3>2 DEF SameContext, SameBreak
  <2>2. CASE b # proc.current_bb
    <3>1. /\ ProcOK(q) /\ SameContext(proc, q) /\ Len(q.nodes) >= n
          /\ b \in 1..Len(q.nodes)
          /\ Waiting(q) \subseteq Waiting(proc) \cup {b}
      <4>1. CASE b = NewBlock(proc)
        <5>1. /\ ProcOK(q) /\ SameContext(proc, q) /\ Len(q.nodes) = n + 1
              /\ Waiting(q) \subseteq Waiting(proc) \cup ((n + 1)..(n + 1))
          BY <1>2, <4>1, CreateBlocksLemma
        <5>2. b = n + 1
          BY <4>1 DEF NewBlock
        <5> HIDE DEF q
        <5> QED BY <1>2, <5>1, <5>2
      <4>2. CASE b # NewBlock(proc)
        <5>1. q = proc /\ b \in 1..n
          BY <1>2, <1>4, <4>2 DEF NewBlock
        <5> QED BY <1>2, <5>1 DEF SameContext, SameBreak
      <4> QED BY <4>1, <4>2
    <3>2. proc' = StartBlock(q, b)
      BY <1>1, <2>2
    <3> HIDE DEF q
    <3>3. /\ ProcOK(proc') /\ SameContext(q, proc') /\ Len(proc'.nodes) = Len(q.nodes)
          /\ Waiting(proc') \subseteq Waiting(q) \ {b}
      BY <3>1, <3>2, StartBlockLemma
    <3> QED BY <3>1, <3>3 DEF SameContext, SameBreak
  <2> QED BY <2>1, <2>2
<1>9. LabelsOK(proc', scopes') /\ PlacedOK(scopes')
  <2>1. /\ Len(scopes') = Len(scopes) /\ Len(proc'.nodes) \in Nat
        /\ proc'.current_scope = s
    BY <1>7, <1>8 DEF SameScopes, SameContext, ProcOK, ProcType
  <2>2. scopes'[s].path = scopes[s].path
    BY <1>2, <1>6, <1>7
  <2>3. ASSUME NEW t \in 1..Len(scopes')
        PROVE  LabelOK(proc', scopes', t) /\ (scopes'[t].placed => scopes'[t].label_block # 0)
    <3>1. CASE t = s
      <4>1. /\ scopes'[t].label_block \in 0..Len(proc'.nodes)
            /\ scopes'[t].label_block # 0 /\ scopes'[t].placed
        BY <1>6, <1>7, <1>8, <2>1, <3>1
      <4> QED BY <4>1 DEF LabelOK
    <3>2. CASE t # s
      <4>1. scopes'[t] = scopes[t] /\ t \in 1..Len(scopes)
        BY <1>7, <2>1, <3>2
      <4>2. LabelOK(proc, scopes, t) /\ (scopes[t].placed => scopes[t].label_block # 0)
        BY <4>1, Here DEF Walking, LabelsOK, IInv, StateOK, PlacedOK
      <4>3. scopes[t].label_block \in 0..Len(proc'.nodes)
        BY <1>2, <1>8, <2>1, <4>2 DEF LabelOK
      <4> QED BY <2>1, <2>2, <4>1, <4>2, <4>3 DEF LabelOK
    <3> QED BY <3>1, <3>2
  <2> QED BY <2>3 DEF LabelsOK, PlacedOK
<1>10. ASSUME "goto_backward_close" \notin Grammar PROVE Kept(proc', scopes', stack)
  <2>1. Kept(proc, scopes, stack)
    BY <1>10 DEF IInv, StateOK
  <2>2. OwedLabels(scopes) \subseteq OwedLabels(scopes') \cup {0, b}
    <3>1. /\ DOMAIN scopes = 1..Len(scopes) /\ DOMAIN scopes' = 1..Len(scopes)
      BY <1>2, <1>7 DEF SameScopes
    <3>2. SUFFICES ASSUME NEW t \in 1..Len(scopes), ~scopes[t].placed
                   PROVE  scopes[t].label_block \in OwedLabels(scopes') \cup {0, b}
      BY <3>1 DEF OwedLabels
    <3>3. CASE t = s
      BY <1>2, <1>5, <3>3
    <3>4. CASE t # s
      BY <1>7, <3>1, <3>2, <3>4 DEF OwedLabels
    <3> QED BY <3>3, <3>4
  <2>3. 0 \notin Waiting(proc')
    BY <1>8, WaitingNotZero
  <2> QED BY <1>8, <2>1, <2>2, <2>3 DEF Kept
<1>11. CountersOK'
  BY <1>1 DEF IInv, CountersOK
<1> QED BY <1>1, <1>7, <1>8, <1>9, <1>10, <1>11, SimpleKeeps
(* A break target in force is the exit of a function in progress. *)
LEMMA BreakTargetLemma ==
    ASSUME IInv, stack # <<>>, proc.current_break_target # 0
    PROVE  /\ proc.current_break_target \in 1..Len(proc.nodes)
           /\ proc.current_break_target \in HeldBy(stack)
<1> DEFINE b == proc.current_break_target
           n == Len(stack)
<1>1. n \in Nat \ {0} /\ Walking(proc, scopes, stack) /\ stack \in Seq(FrameType)
  BY Here
<1>2. BreakOKAt(proc, scopes, stack, n) /\ TargetOf(proc, stack, n) = b
  BY <1>1 DEF Walking, BreakOK, TargetOf
<1>3. PICK j \in 1..n : b = stack[j].exit
  BY <1>2 DEF BreakOKAt
<1>4. FrameOK(proc, stack[j]) /\ stack[j] \in FrameType
  BY <1>1, <1>3 DEF Walking, FramesOK
<1>5. b \in 1..Len(proc.nodes)
  BY <1>3, <1>4 DEF FrameOK, FrameType
<1>6. j \in DOMAIN stack /\ b \in Held(stack[j])
  BY <1>1, <1>3 DEF Held
<1> QED BY <1>5, <1>6 DEF HeldBy

(* A jump to block b: b is branched to, and what follows gets a new block. *)
JumpTo(p, b, c) ==
    LET q1 == InstructBr(p, b)
        q2 == StartBlock(CreateBlocks(q1, 1), NewBlock(q1))
    IN  CloseInTarget(q2, b, c)

LEMMA JumpLemma ==
    ASSUME NEW p, ProcOK(p), NEW b \in 1..Len(p.nodes), NEW c \in 0..Len(scopes),
           scopes \in Seq(ScopeType)
    PROVE  LET q == JumpTo(p, b, c)
           IN  /\ ProcOK(q) /\ SameContext(p, q) /\ Len(q.nodes) >= Len(p.nodes)
               /\ Waiting(q) \subseteq Waiting(p) \cup {b}
               /\ c = NoScope => Waiting(q) \subseteq Waiting(p)
<1> DEFINE q == JumpTo(p, b, c)
           q1 == InstructBr(p, b)
           m == Len(q1.nodes)
           r == CreateBlocks(q1, 1)
           q2 == StartBlock(r, NewBlock(q1))
<1>0. q = CloseInTarget(q2, b, c) /\ Len(p.nodes) \in Nat
  BY DEF JumpTo, ProcOK, ProcType
<1>1. /\ ProcOK(q1) /\ SameContext(p, q1) /\ m >= Len(p.nodes)
      /\ Waiting(q1) \subseteq Waiting(p)
  BY InstructBrLemma
<1> HIDE DEF q1
<1>2. m \in Nat
  BY <1>1 DEF ProcOK, ProcType
<1>3. /\ ProcOK(r) /\ SameContext(q1, r) /\ Len(r.nodes) = m + 1
      /\ Waiting(r) \subseteq Waiting(q1) \cup ((m + 1)..(m + 1))
  BY <1>1, CreateBlocksLemma
<1> HIDE DEF r
<1>4. NewBlock(q1) = m + 1
  BY DEF NewBlock
<1>5. NewBlock(q1) \in 1..Len(r.nodes)
  BY <1>2, <1>3, <1>4
<1>6. /\ ProcOK(q2) /\ SameContext(r, q2) /\ Len(q2.nodes) = m + 1
      /\ Waiting(q2) \subseteq Waiting(r) \ {m + 1}
  BY <1>3, <1>4, <1>5, StartBlockLemma
<1> HIDE DEF q2, m
<1>7. b \in 1..Len(q2.nodes)
  BY <1>0, <1>1, <1>2, <1>6 DEF m
<1>8. /\ ProcOK(q) /\ SameContext(q2, q) /\ Len(q.nodes) = Len(q2.nodes)
      /\ Waiting(q) \subseteq Waiting(q2) \cup {b}
      /\ c = NoScope => q = q2
  BY <1>0, <1>6, <1>7, CloseInTargetLemma
<1>9. Waiting(q2) \subseteq Waiting(p)
  BY <1>1, <1>2, <1>3, <1>6
<1>10. SameContext(p, q)
  BY <1>1, <1>3, <1>6, <1>8 DEF SameContext, SameBreak
<1>11. Len(q.nodes) >= Len(p.nodes)
  BY <1>0, <1>1, <1>2, <1>6, <1>8 DEF m
<1> HIDE DEF q
<1> QED BY <1>8, <1>9, <1>10, <1>11 DEF q

LEMMA BreakStep ==
    ASSUME IInv, stack # <<>>, LinearizeBreak
    PROVE  IInv'
<1> DEFINE b == proc.current_break_target
           c == MinClosingScope(proc.current_break_scope)
<1>1. /\ b # 0 /\ proc' = JumpTo(proc, b, c)
      /\ stmts' = stmts + 1 /\ list' = "open"
      /\ UNCHANGED <<scopes, stack, captured, failed>>
  BY DEF LinearizeBreak, Met, JumpTo, NoBlock
<1>2. b \in 1..Len(proc.nodes) /\ b \in HeldBy(stack)
  BY <1>1, BreakTargetLemma
<1>3. c \in 0..Len(scopes) /\ ProcOK(proc) /\ scopes \in Seq(ScopeType)
  BY MinClosingScopeLemma, Here
<1> HIDE DEF b, c
<1>4. /\ ProcOK(proc') /\ SameContext(proc, proc') /\ Len(proc'.nodes) >= Len(proc.nodes)
      /\ Waiting(proc') \subseteq Waiting(proc) \cup {b}
  BY <1>1, <1>2, <1>3, JumpLemma
<1>5. SameScopes(scopes, scopes')
  BY <1>1, ScopesStay
<1>6. LabelsOK(proc', scopes') /\ PlacedOK(scopes') /\ OwedLabels(scopes') = OwedLabels(scopes)
  BY <1>1, <1>4, <1>5, LabelsStay
<1>7. "goto_backward_close" \notin Grammar => Kept(proc', scopes', stack)
  BY <1>2, <1>4, <1>6 DEF IInv, StateOK, Kept
<1>8. CountersOK'
  BY <1>1 DEF IInv, CountersOK
<1> QED BY <1>1, <1>4, <1>5, <1>6, <1>7, <1>8, SimpleKeeps

(* A goto may make the block of a label to come; a backward one that       *)
(* closes upvalues adds to a block that nobody starts any more.            *)
LEMMA GotoStep ==
    ASSUME IInv, stack # <<>>, NEW i \in DOMAIN Current.path,
           LinearizeGoto(Current.path[i])
    PROVE  IInv'
<1> DEFINE s == Current.path[i]
           n == Len(proc.nodes)
           c == MinClosingScope(s)
           known == scopes[s].label_block # NoBlock
           b == IF known THEN scopes[s].label_block ELSE NewBlock(proc)
           q == IF known THEN proc ELSE CreateBlocks(proc, 1)
           new == [scopes[s] EXCEPT !.label_block = b]
<1>1. /\ scopes[s].label /\ CanMeet(GotoKind(s, c))
      /\ proc' = JumpTo(q, b, c)
      /\ scopes' = [scopes EXCEPT ![s] = new]
      /\ stmts' = stmts + 1 /\ list' = "open"
      /\ UNCHANGED <<stack, captured, failed>>
  BY DEF LinearizeGoto, Met, JumpTo
<1>2. /\ ProcOK(proc) /\ n \in Nat /\ ScopesOK(scopes) /\ scopes \in Seq(ScopeType)
      /\ i \in 1..Len(PathOf(proc, scopes)) /\ s = PathOf(proc, scopes)[i]
      /\ Walking(proc, scopes, stack)
  BY Here
<1>3. s \in 1..Len(scopes) /\ c \in 0..Len(scopes)
  BY <1>2, WalkingTypes, MinClosingScopeLemma
<1>4. scopes[s] \in ScopeType
  BY <1>2, <1>3
<1>5. scopes[s].label_block \in 0..n
  BY <1>2, <1>3 DEF Walking, LabelsOK, LabelOK
<1>6. /\ known => q = proc /\ b \in 1..n
      /\ ~known => q = CreateBlocks(proc, 1) /\ b = n + 1
      /\ known => b = scopes[s].label_block
      /\ ~known => scopes[s].label_block = 0
  BY <1>2, <1>5 DEF NewBlock, NoBlock
<1>7. b \in Nat \ {0}
  BY <1>2, <1>6
<1>8. /\ new \in ScopeType /\ new.path = scopes[s].path /\ new.base = scopes[s].base
      /\ new.locals = scopes[s].locals /\ new.label = scopes[s].label
      /\ new.label_block = b /\ new.placed = scopes[s].placed
  <2> HIDE DEF b, s
  <2> QED BY <1>4, <1>7 DEF ScopeType
<1> HIDE DEF b, q, new, c, s
<1>9. /\ SameScopes(scopes, scopes') /\ scopes'[s] = new
      /\ \A t \in 1..Len(scopes) : t # s => scopes'[t] = scopes[t]
  <2> DEFINE sd == [scopes EXCEPT ![s] = new]
  <2>1. /\ SameScopes(scopes, sd) /\ sd[s] = new
        /\ \A t \in 1..Len(scopes) : t # s => sd[t] = scopes[t]
    BY <1>2, <1>3, <1>8, ScopeUpdate
  <2>2. scopes' = sd
    BY <1>1
  <2> HIDE DEF sd
  <2> QED BY <2>1, <2>2
<1>10. /\ ProcOK(q) /\ SameContext(proc, q) /\ Len(q.nodes) >= n
       /\ b \in 1..Len(q.nodes)
       /\ Waiting(q) \subseteq Waiting(proc) \cup {b}
       /\ known => q = proc
  <2>1. CASE known
    BY <1>2, <1>6, <2>1 DEF SameContext, SameBreak
  <2>2. CASE ~known
    <3>1. /\ ProcOK(q) /\ SameContext(proc, q) /\ Len(q.nodes) = n + 1
          /\ Waiting(q) \subseteq Waiting(proc) \cup ((n + 1)..(n + 1))
      BY <1>2, <1>6, <2>2, CreateBlocksLemma
    <3> QED BY <1>2, <1>6, <2>2, <3>1
  <2> QED BY <2>1, <2>2
<1>11. /\ ProcOK(proc') /\ SameContext(q, proc') /\ Len(proc'.nodes) >= Len(q.nodes)
       /\ Waiting(proc') \subseteq Waiting(q) \cup {b}
       /\ c = NoScope => Waiting(proc') \subseteq Waiting(q)
  BY <1>1, <1>2, <1>3, <1>10, JumpLemma
<1>12. /\ Len(proc'.nodes) \in Nat /\ Len(q.nodes) \in Nat
  <2>1. q \in ProcType /\ proc' \in ProcType
    BY <1>10, <1>11 DEF ProcOK
  <2> QED BY <2>1 DEF ProcType
<1>13. SameContext(proc, proc') /\ Len(proc'.nodes) >= n /\ b \in 1..Len(proc'.nodes)
  BY <1>2, <1>10, <1>11, <1>12 DEF SameContext, SameBreak
<1>14. LabelsOK(proc', scopes') /\ PlacedOK(scopes')
  <2>1. Len(scopes') = Len(scopes) /\ proc'.current_scope = proc.current_scope
    BY <1>9, <1>13 DEF SameScopes, SameContext
  <2>2. PathOf(proc', scopes') = PathOf(proc, scopes)
    BY <1>9, <2>1, Here DEF PathOf, SameScopes
  <2>3. ASSUME NEW t \in 1..Len(scopes')
        PROVE  LabelOK(proc', scopes', t) /\ (scopes'[t].placed => scopes'[t].label_block # 0)
    <3>1. CASE t = s
      <4>1. /\ scopes'[t].label_block \in 0..Len(proc'.nodes)
            /\ scopes'[t].label_block # 0 /\ scopes'[t].label
        <5>1. scopes[s].label /\ scopes'[s].label_block = b /\ scopes'[s].label = scopes[s].label
          BY <1>1, <1>8, <1>9
        <5> QED BY <1>7, <1>12, <1>13, <3>1, <5>1
      <4> QED BY <1>2, <2>2, <3>1, <4>1 DEF LabelOK, PathOf
    <3>2. CASE t # s
      <4>1. scopes'[t] = scopes[t] /\ t \in 1..Len(scopes)
        BY <1>9, <2>1, <3>2
      <4>2. LabelOK(proc, scopes, t) /\ (scopes[t].placed => scopes[t].label_block # 0)
        BY <4>1, Here DEF Walking, LabelsOK, IInv, StateOK, PlacedOK
      <4>3. scopes[t].label_block \in 0..Len(proc'.nodes)
        BY <1>2, <1>12, <1>13, <4>2 DEF LabelOK
      <4> QED BY <2>2, <4>1, <4>2, <4>3 DEF LabelOK, PathOf
    <3> QED BY <3>1, <3>2
  <2> QED BY <2>3 DEF LabelsOK, PlacedOK
<1>15. ASSUME "goto_backward_close" \notin Grammar PROVE Kept(proc', scopes', stack)
  <2>1. Kept(proc, scopes, stack) /\ 0 \notin Waiting(proc')
    BY <1>11, <1>15, WaitingNotZero DEF IInv, StateOK
  <2>2. DOMAIN scopes = 1..Len(scopes) /\ DOMAIN scopes' = 1..Len(scopes)
    BY <1>2, <1>9 DEF SameScopes
  <2>3. OwedLabels(scopes) \subseteq OwedLabels(scopes') \cup {0}
    <3>1. SUFFICES ASSUME NEW t \in 1..Len(scopes), ~scopes[t].placed
                   PROVE  scopes[t].label_block \in OwedLabels(scopes') \cup {0}
      BY <2>2 DEF OwedLabels
    <3>2. CASE t = s
      <4>1. ~scopes'[s].placed /\ scopes'[s].label_block = b
        BY <1>8, <1>9, <3>1, <3>2
      <4>2. b \in OwedLabels(scopes')
        BY <1>3, <2>2, <4>1 DEF OwedLabels
      <4> QED BY <1>6, <3>2, <4>2
    <3>3. CASE t # s
      BY <1>9, <2>2, <3>1, <3>3 DEF OwedLabels
    <3> QED BY <3>2, <3>3
  <2>4. CASE scopes[s].placed
    <3>1. known
      BY <1>3, <2>4 DEF IInv, StateOK, PlacedOK, NoBlock
    <3>2. c = NoScope
      BY <1>1, <1>15, <2>4 DEF CanMeet, GotoKind
    <3>3. Waiting(proc') \subseteq Waiting(proc)
      BY <1>10, <1>11, <3>1, <3>2
    <3> QED BY <2>1, <2>3, <3>3 DEF Kept
  <2>5. CASE ~scopes[s].placed
    <3>1. ~scopes'[s].placed /\ scopes'[s].label_block = b
      BY <1>8, <1>9, <2>5
    <3>2. b \in OwedLabels(scopes')
      BY <1>3, <2>2, <3>1 DEF OwedLabels
    <3>3. Waiting(proc') \subseteq Waiting(proc) \cup {b}
      BY <1>10, <1>11
    <3> QED BY <2>1, <2>3, <3>2, <3>3 DEF Kept
  <2> QED BY <2>4, <2>5
<1>16. CountersOK'
  BY <1>1 DEF IInv, CountersOK
<1> QED BY <1>1, <1>9, <1>11, <1>13, <1>14, <1>15, <1>16, SimpleKeeps

LEMMA HandleErrorStep ==
    ASSUME IInv, stack # <<>>, HandleError
    PROVE  IInv'
<1>1. failed' = TRUE /\ UNCHANGED <<proc, scopes, stack, list, captured, stmts>>
  BY DEF HandleError
<1>2. CountersOK'
  BY <1>1 DEF IInv, CountersOK
<1> QED BY <1>1, <1>2 DEF IInv
-----------------------------------------------------------------------------
(* Entering and leaving scopes. *)

LEMMA ScopeFields ==
    ASSUME NEW sc \in ScopeType
    PROVE  /\ sc.base \in Nat /\ Len(sc.locals) \in Nat
           /\ sc.path \in Seq(Nat \ {0}) /\ Len(sc.path) \in Nat
BY DEF ScopeType

(* The scope made by new_scope() below scope t, and started. *)
NextScope(sc) == Len(sc) + 1
OnTop(q, sc, t) == q.local_pseudos = 0..(sc[t].base + Len(sc[t].locals) - 1)

LEMMA EnterLemma ==
    ASSUME NEW sc, ScopesOK(sc), NEW t \in 1..Len(sc), NEW q, ProcOK(q),
           OnTop(q, sc, t), NEW new \in ScopeType,
           new.path = Append(sc[t].path, NextScope(sc)),
           new.base = sc[t].base + Len(sc[t].locals),
           new.label_block = 0
    PROVE  LET r == StartScope(q, NextScope(sc), new)
               sd == Append(sc, new)
           IN  /\ ProcOK(r) /\ SameBreak(q, r) /\ r.nodes = q.nodes
               /\ r.current_bb = q.current_bb /\ Waiting(r) = Waiting(q)
               /\ ScopesOK(sd) /\ MoreScopes(sc, sd) /\ CursorOK(r, sd)
               /\ Len(sd) = NextScope(sc) /\ sd[NextScope(sc)] = new
               /\ r.current_scope = NextScope(sc)
               /\ PathOf(r, sd) = new.path
<1> DEFINE m == NextScope(sc)
           r == StartScope(q, m, new)
           sd == Append(sc, new)
<1>1. m \in Nat /\ m \in 1..m /\ sc \in Seq(ScopeType)
  BY DEF ScopesOK, NextScope
<1>2. q.local_pseudos = 0..(new.base - 1)
  <2>1. sc[t] \in ScopeType
    BY <1>1
  <2>2. sc[t].base \in Nat /\ Len(sc[t].locals) \in Nat /\ new.base \in Nat
    BY <2>1 DEF ScopeType
  <2> DEFINE a == sc[t].base
             l == Len(sc[t].locals)
             b == new.base
  <2>3. q.local_pseudos = 0..(a + l - 1) /\ b = a + l /\ a \in Nat /\ l \in Nat /\ b \in Nat
    BY <2>2 DEF OnTop
  <2> HIDE DEF a, l, b
  <2>4. q.local_pseudos = 0..(b - 1)
    BY <2>3
  <2> QED BY <2>4 DEF b
<1>3. /\ ScopesOK(sd) /\ MoreScopes(sc, sd) /\ Len(sd) = m /\ sd[m] = new
  BY ScopesGrow DEF NextScope
<1> HIDE DEF m
<1> HIDE DEF sd
<1>4. /\ ProcOK(r) /\ SameBreak(q, r) /\ r.nodes = q.nodes
      /\ r.current_bb = q.current_bb /\ r.current_scope = m
      /\ r.local_pseudos = 0..(new.base + Len(new.locals) - 1)
      /\ Waiting(r) = Waiting(q)
  BY <1>1, <1>2, StartScopeLemma
<1> HIDE DEF r
<1>5. CursorOK(r, sd)
  BY <1>1, <1>3, <1>4 DEF CursorOK
<1>6. PathOf(r, sd) = new.path
  BY <1>3, <1>4 DEF PathOf
<1> QED BY <1>3, <1>4, <1>5, <1>6 DEF m, r, sd

(* end_scope() goes back to the parent, whose registers are then on top. *)
LEMMA LeaveLemma ==
    ASSUME NEW sc, ScopesOK(sc), NEW q, ProcOK(q), CursorOK(q, sc),
           Len(PathOf(q, sc)) > 1
    PROVE  LET r == EndScope(q, q.current_scope, sc[q.current_scope])
           IN  /\ ProcOK(r) /\ SameBreak(q, r) /\ Len(r.nodes) = Len(q.nodes)
               /\ r.current_bb = q.current_bb /\ Waiting(r) \subseteq Waiting(q)
               /\ CursorOK(r, sc)
               /\ Len(PathOf(r, sc)) = Len(PathOf(q, sc)) - 1
               /\ \A i \in 1..Len(PathOf(r, sc)) : PathOf(r, sc)[i] = PathOf(q, sc)[i]
<1> DEFINE s == q.current_scope
           this == sc[s]
           k == Len(this.path)
           t == this.path[k - 1]
           r == EndScope(q, s, this)
<1>1. /\ s \in 1..Len(sc) /\ sc \in Seq(ScopeType) /\ ScopeOK(sc, s) /\ this \in ScopeType
      /\ q.local_pseudos = 0..(this.base + Len(this.locals) - 1)
  BY DEF CursorOK, ScopesOK
<1>2. k \in Nat /\ k > 1 /\ PathOf(q, sc) = this.path
  BY <1>1, SMTT(20), ZenonT(40) DEF ScopeType, PathOf
<1>3. /\ t \in 1..Len(sc) /\ Len(sc[t].path) = k - 1
      /\ \A i \in 1..(k - 1) : sc[t].path[i] = this.path[i]
      /\ this.base = sc[t].base + Len(sc[t].locals)
  <2>1. \A j \in 1..k : this.path[j] \in 1..Len(sc)
    BY <1>1 DEF ScopeOK
  <2>2. k > 1 => /\ Len(sc[t].path) = k - 1
                 /\ \A i \in 1..(k - 1) : sc[t].path[i] = this.path[i]
                 /\ this.base = sc[t].base + Len(sc[t].locals)
    BY <1>1 DEF ScopeOK
  <2>3. k - 1 \in 1..k
    <3> HIDE DEF k
    <3> QED BY <1>2
  <2>4. t \in 1..Len(sc)
    BY <2>1, <2>3
  <2> HIDE DEF k, t, this
  <2> QED BY <1>2, <2>2, <2>4
<1>4. Parent(this) = t /\ t \in Nat /\ s \in Nat
  <2>1. k # 1
    <3> HIDE DEF k
    <3> QED BY <1>2
  <2>2. t \in 1..Len(sc) /\ s \in 1..Len(sc)
    BY <1>1, <1>3
  <2>3. t \in Nat /\ s \in Nat
    <3> HIDE DEF t, s
    <3> QED BY <2>2
  <2> QED BY <2>1, <2>3 DEF Parent
<1>5. /\ ProcOK(r) /\ SameBreak(q, r) /\ Len(r.nodes) = Len(q.nodes)
      /\ r.current_bb = q.current_bb /\ r.current_scope = t
      /\ r.local_pseudos = 0..(this.base - 1)
      /\ Waiting(r) \subseteq Waiting(q)
  <2> HIDE DEF s, t, this
  <2>1. Parent(this) \in Nat
    BY <1>4
  <2> QED BY <1>1, <1>4, <2>1, EndScopeLemma, SMTT(20), ZenonT(40)
<1> HIDE DEF r, t
<1>6. CursorOK(r, sc)
  <2>1. sc[t] \in ScopeType
    BY <1>1, <1>3
  <2> DEFINE a == sc[t].base
             l == Len(sc[t].locals)
             b == this.base
  <2>2. a \in Nat /\ l \in Nat /\ b \in Nat
    <3>1. this \in ScopeType
      BY <1>1
    <3> QED BY <2>1, <3>1, ScopeFields
  <2>3. r.local_pseudos = 0..(b - 1) /\ b = a + l
    BY <1>3, <1>5
  <2> HIDE DEF a, l, b
  <2>4. r.local_pseudos = 0..(a + l - 1)
    BY <2>2, <2>3
  <2>5. r.local_pseudos = 0..(sc[r.current_scope].base + Len(sc[r.current_scope].locals) - 1)
    BY <1>5, <2>4 DEF a, l
  <2> QED BY <1>3, <1>5, <2>5 DEF CursorOK
<1>7. PathOf(r, sc) = sc[t].path
  BY <1>5 DEF PathOf
<1>8. /\ Len(PathOf(r, sc)) = Len(PathOf(q, sc)) - 1
      /\ \A i \in 1..Len(PathOf(r, sc)) : PathOf(r, sc)[i] = PathOf(q, sc)[i]
  BY <1>2, <1>3, <1>7
<1> QED BY <1>5, <1>6, <1>8 DEF r, s, this

LEMMA PlacedPush ==
    ASSUME NEW sc \in Seq(ScopeType), PlacedOK(sc), NEW new \in ScopeType, ~new.placed
    PROVE  PlacedOK(Append(sc, new))
<1> DEFINE sd == Append(sc, new)
<1>1. /\ Len(sd) = Len(sc) + 1 /\ sd[Len(sc) + 1] = new /\ Len(sc) \in Nat
      /\ \A s \in 1..Len(sc) : sd[s] = sc[s]
  OBVIOUS
<1> HIDE DEF sd
<1>2. ASSUME NEW s \in 1..(Len(sc) + 1)
      PROVE  sd[s].placed => sd[s].label_block # 0
  <2>1. CASE s = Len(sc) + 1
    BY <1>1, <2>1
  <2>2. CASE s # Len(sc) + 1
    <3>1. s \in 1..Len(sc)
      BY <1>1, <2>2
    <3> QED BY <1>1, <3>1 DEF PlacedOK
  <2> QED BY <2>1, <2>2
<1> QED BY <1>1, <1>2 DEF PlacedOK, sd

(* A scope on top of the current one. *)
LEMMA EnterTop ==
    ASSUME IInv, stack # <<>>, NEW q, ProcOK(q),
           q.local_pseudos = proc.local_pseudos, NEW new \in ScopeType,
           new.path = Append(Current.path, NextScope(scopes)),
           new.base = Current.base + Len(Current.locals),
           new.label_block = 0, ~new.placed
    PROVE  LET r == StartScope(q, NextScope(scopes), new)
               sd == Append(scopes, new)
           IN  /\ ProcOK(r) /\ SameBreak(q, r) /\ r.nodes = q.nodes
               /\ r.current_bb = q.current_bb /\ Waiting(r) = Waiting(q)
               /\ ScopesOK(sd) /\ MoreScopes(scopes, sd) /\ CursorOK(r, sd)
               /\ Len(sd) = NextScope(scopes) /\ sd[NextScope(scopes)] = new
               /\ r.current_scope = NextScope(scopes)
               /\ PathOf(r, sd) = Append(PathOf(proc, scopes), NextScope(scopes))
               /\ PlacedOK(sd)
<1> DEFINE m == NextScope(scopes)
           sd == Append(scopes, new)
           r == StartScope(q, m, new)
<1>1. /\ ScopesOK(scopes) /\ scopes \in Seq(ScopeType)
      /\ proc.current_scope \in 1..Len(scopes)
      /\ Current = scopes[proc.current_scope] /\ Current.path = PathOf(proc, scopes)
      /\ CursorOK(proc, scopes)
  BY Here
<1>2. new.path = Append(scopes[proc.current_scope].path, NextScope(scopes))
  BY <1>1
<1>3. new.base = scopes[proc.current_scope].base + Len(scopes[proc.current_scope].locals)
  BY <1>1
<1>4. OnTop(q, scopes, proc.current_scope)
  <2>1. proc.local_pseudos = 0..(Current.base + Len(Current.locals) - 1)
    BY <1>1 DEF CursorOK
  <2> QED BY <1>1, <2>1 DEF OnTop
<1>5. PlacedOK(sd)
  BY <1>1, PlacedPush DEF IInv, StateOK
<1>6. /\ ProcOK(r) /\ SameBreak(q, r) /\ r.nodes = q.nodes
      /\ r.current_bb = q.current_bb /\ Waiting(r) = Waiting(q)
      /\ ScopesOK(sd) /\ MoreScopes(scopes, sd) /\ CursorOK(r, sd)
      /\ Len(sd) = m /\ sd[m] = new
      /\ r.current_scope = m
      /\ PathOf(r, sd) = new.path
  <2> HIDE DEF sd
  <2> QED BY <1>1, <1>2, <1>3, <1>4, EnterLemma, SMTT(40) DEF sd
<1>7. new.path = Append(PathOf(proc, scopes), m)
  BY <1>1
<1> HIDE DEF sd, m, r
<1> QED BY <1>5, <1>6, <1>7 DEF sd, m, r

(* What new_scope() makes of the registers in use. *)
LEMMA NewHere ==
    ASSUME IInv, stack # <<>>, NEW q, q.local_pseudos = proc.local_pseudos,
           NEW locals \in Seq({"plain", "escaped"}), NEW label \in BOOLEAN
    PROVE  LET new == NewScope(q, Append(Current.path, NextScope(scopes)), locals, label)
           IN  /\ new \in ScopeType
               /\ new.path = Append(Current.path, NextScope(scopes))
               /\ new.base = Current.base + Len(Current.locals)
               /\ new.locals = locals /\ new.label = label
               /\ new.label_block = NoBlock /\ ~new.placed
<1> DEFINE m == NextScope(scopes)
           path == Append(Current.path, m)
           n == Current.base + Len(Current.locals)
<1>1. /\ Len(scopes) \in Nat /\ Current \in ScopeType /\ CursorOK(proc, scopes)
  BY Here
<1>2. Current.base \in Nat /\ Len(Current.locals) \in Nat /\ Current.path \in Seq(Nat \ {0})
  BY <1>1, ScopeFields
<1>3. n \in Nat
  BY <1>2
<1>4. q.local_pseudos = Below(n)
  <2>1. proc.local_pseudos = 0..(Current.base + Len(Current.locals) - 1)
    BY <1>1 DEF CursorOK, Current
  <2> QED BY <1>2, <2>1 DEF Below
<1>5. path \in Seq(Nat \ {0})
  <2>1. m \in Nat \ {0}
    BY <1>1 DEF NextScope
  <2> HIDE DEF m
  <2> QED BY <1>2, <2>1
<1> HIDE DEF path, n
<1>6. LET new == NewScope(q, path, locals, label)
      IN  /\ new \in ScopeType /\ new.path = path /\ new.base = n
          /\ new.locals = locals /\ new.label = label
          /\ new.label_block = NoBlock /\ ~new.placed
  BY <1>3, <1>4, <1>5, NewScopeLemma
<1> QED BY <1>6 DEF path, n

(* The scope a statement makes below the current one. *)
LEMMA EnterHere ==
    ASSUME IInv, stack # <<>>, NEW q, ProcOK(q),
           q.local_pseudos = proc.local_pseudos,
           NEW locals \in LocalLists, NEW label \in BOOLEAN
    PROVE  LET new == NewScope(q, Append(Current.path, NextScope(scopes)), locals, label)
               r == StartScope(q, NextScope(scopes), new)
               sd == Append(scopes, new)
           IN  /\ ProcOK(r) /\ SameBreak(q, r) /\ r.nodes = q.nodes
               /\ r.current_bb = q.current_bb /\ Waiting(r) = Waiting(q)
               /\ ScopesOK(sd) /\ MoreScopes(scopes, sd) /\ CursorOK(r, sd)
               /\ Len(sd) = NextScope(scopes) /\ sd[NextScope(scopes)] = new
               /\ r.current_scope = NextScope(scopes)
               /\ PathOf(r, sd) = Append(PathOf(proc, scopes), NextScope(scopes))
               /\ PlacedOK(sd) /\ new \in ScopeType
<1> DEFINE new == NewScope(q, Append(Current.path, NextScope(scopes)), locals, label)
<1>1. locals \in Seq({"plain", "escaped"})
  BY LocalsAssumption
<1>2. /\ new \in ScopeType
      /\ new.path = Append(Current.path, NextScope(scopes))
      /\ new.base = Current.base + Len(Current.locals)
      /\ new.label_block = 0 /\ ~new.placed
  BY <1>1, NewHere DEF NoBlock
<1> HIDE DEF new
<1> QED BY <1>2, EnterTop DEF new

-----------------------------------------------------------------------------
(* The statements that enter a statement list. *)

LEMMA PushKeeps ==
    ASSUME IInv, stack # <<>>, NEW f \in FrameType, stack' = Append(stack, f),
           CountersOK', ProcOK(proc'), Len(proc'.nodes) >= Len(proc.nodes),
           ScopesOK(scopes'), PlacedOK(scopes'), MoreScopes(scopes, scopes'),
           CursorOK(proc', scopes'),
           \A i \in 1..Len(PathOf(proc, scopes)) :
               PathOf(proc', scopes')[i] = PathOf(proc, scopes)[i],
           Len(PathOf(proc', scopes')) =
               Len(PathOf(proc, scopes)) + (IF f.kind = "for" THEN 2 ELSE 1),
           f.kind = "for" =>
               IsVariable(scopes'[PathOf(proc', scopes')[Len(PathOf(proc', scopes')) - 1]]),
           FrameOK(proc', f), f.kind # "function",
           f.break_target = proc.current_break_target,
           f.break_scope = proc.current_break_scope,
           IF f.kind \in {"loop", "for"}
           THEN /\ proc'.current_break_target = f.exit
                /\ \E k \in 1..Len(PathOf(proc', scopes')) :
                       proc'.current_break_scope = PathOf(proc', scopes')[k]
           ELSE SameBreak(proc, proc'),
           Waiting(proc') \subseteq Waiting(proc) \cup Held(f)
    PROVE  IInv'
<1>1. /\ Walking(proc, scopes, stack) /\ stack \in Seq(FrameType)
      /\ scopes \in Seq(ScopeType)
  BY Here
<1>2. Walking(proc', scopes', Append(stack, f))
  BY <1>1, PushStep
<1>3. HeldBy(stack) \cup Held(f) \subseteq HeldBy(stack')
  BY <1>1, HeldPush
<1>4. OwedLabels(scopes) \subseteq OwedLabels(scopes')
  BY <1>1, OwedGrow DEF ScopesOK
<1>5. "goto_backward_close" \notin Grammar => Kept(proc', scopes', stack')
  BY <1>3, <1>4 DEF IInv, StateOK, Kept
<1>6. stack' # <<>>
  BY <1>1
<1> QED BY <1>2, <1>5, <1>6 DEF IInv, StateOK

LEMMA EnterKeeps ==
    ASSUME IInv, stack # <<>>, NEW q, ProcOK(q), Len(q.nodes) >= Len(proc.nodes),
           q.local_pseudos = proc.local_pseudos,
           NEW locals \in LocalLists, NEW label \in BOOLEAN,
           Enter(q, Current.path, locals, label),
           NEW f \in FrameType, stack' = Append(stack, f),
           f.kind \in {"do", "loop", "if"}, FrameOK(q, f),
           f.break_target = proc.current_break_target,
           f.break_scope = proc.current_break_scope,
           IF f.kind = "loop"
           THEN q.current_break_target = f.exit /\ q.current_break_scope = NextScope(scopes)
           ELSE SameBreak(proc, q),
           Waiting(q) \subseteq Waiting(proc) \cup Held(f),
           stmts' = stmts + 1, UNCHANGED <<captured, failed>>
    PROVE  IInv'
<1> DEFINE new == NewScope(q, Append(Current.path, NextScope(scopes)), locals, label)
           k == Len(PathOf(proc, scopes))
<1>1. /\ proc' = StartScope(q, NextScope(scopes), new)
      /\ scopes' = Append(scopes, new) /\ list' = "empty"
  BY DEF Enter, NextScope
<1>2. /\ ProcOK(proc') /\ SameBreak(q, proc') /\ proc'.nodes = q.nodes
      /\ Waiting(proc') = Waiting(q)
      /\ ScopesOK(scopes') /\ MoreScopes(scopes, scopes') /\ CursorOK(proc', scopes')
      /\ Len(scopes') = NextScope(scopes)
      /\ PathOf(proc', scopes') = Append(PathOf(proc, scopes), NextScope(scopes))
      /\ PlacedOK(scopes')
  BY <1>1, EnterHere
<1>3. PathOf(proc, scopes) \in Seq(Nat \ {0}) /\ k \in Nat
  BY Here, WalkingTypes
<1>4. /\ Len(PathOf(proc', scopes')) = k + 1
      /\ \A i \in 1..k : PathOf(proc', scopes')[i] = PathOf(proc, scopes)[i]
  BY <1>2, <1>3
<1> HIDE DEF new
<1>5. FrameOK(proc', f)
  BY <1>2 DEF FrameOK
<1>6. CountersOK'
  BY <1>1 DEF IInv, CountersOK
<1>7. IF f.kind \in {"loop", "for"}
      THEN /\ proc'.current_break_target = f.exit
           /\ \E i \in 1..Len(PathOf(proc', scopes')) :
                  proc'.current_break_scope = PathOf(proc', scopes')[i]
      ELSE SameBreak(proc, proc')
  <2>1. k + 1 \in 1..(k + 1) /\ PathOf(proc', scopes')[k + 1] = NextScope(scopes)
    BY <1>2, <1>3
  <2> QED BY <1>2, <1>4, <2>1 DEF SameBreak
<1>8. /\ ProcOK(proc') /\ Len(proc'.nodes) >= Len(proc.nodes)
      /\ ScopesOK(scopes') /\ PlacedOK(scopes') /\ MoreScopes(scopes, scopes')
      /\ CursorOK(proc', scopes') /\ Waiting(proc') \subseteq Waiting(proc) \cup Held(f)
  BY <1>2
<1>9. f.kind # "for" /\ f.kind # "function"
  OBVIOUS
<1> HIDE DEF k
<1>10. Len(PathOf(proc', scopes')) = k + (IF f.kind = "for" THEN 2 ELSE 1)
  BY <1>4, <1>9
<1> QED BY <1>4, <1>5, <1>6, <1>7, <1>8, <1>9, <1>10, PushKeeps DEF k

(* The frame of a statement. *)
LEMMA FrameLemma ==
    ASSUME IInv, stack # <<>>, NEW kind, kind \in {"do", "loop", "for", "if"},
           NEW head, head \in Nat, NEW arms, arms \in Seq(Nat \ {0}),
           NEW exit, exit \in Nat
    PROVE  LET f == Frame(kind, head, arms, exit)
           IN  /\ f \in FrameType /\ f.kind = kind /\ f.head = head
               /\ f.arms = arms /\ f.exit = exit
               /\ f.break_target = proc.current_break_target
               /\ f.break_scope = proc.current_break_scope
<1>1. proc.current_break_target \in Nat /\ proc.current_break_scope \in Nat
  BY Here DEF ProcOK, ProcType
<1> QED BY <1>1 DEF Frame, FrameType

LEMMA DoStep ==
    ASSUME IInv, stack # <<>>, NEW locals \in LocalLists, NEW label \in BOOLEAN,
           LinearizeDo(locals, label)
    PROVE  IInv'
<1> DEFINE f == Frame("do", NoBlock, <<>>, NoBlock)
<1>1. /\ Enter(proc, Current.path, locals, label)
      /\ stack' = Append(stack, f)
      /\ stmts' = stmts + 1 /\ UNCHANGED <<captured, failed>>
  BY DEF LinearizeDo
<1>2. /\ f \in FrameType /\ f.kind = "do" /\ f.arms = <<>> /\ f.exit = 0
      /\ f.break_target = proc.current_break_target
      /\ f.break_scope = proc.current_break_scope
  <2> DEFINE none == <<>>
  <2>1. none \in Seq(Nat \ {0}) /\ NoBlock \in Nat /\ NoBlock = 0
    BY DEF NoBlock
  <2>2. f = Frame("do", NoBlock, none, NoBlock)
    OBVIOUS
  <2> HIDE DEF none, f
  <2>3. /\ f \in FrameType /\ f.kind = "do" /\ f.arms = none /\ f.exit = NoBlock
        /\ f.break_target = proc.current_break_target
        /\ f.break_scope = proc.current_break_scope
    BY <2>1, <2>2, FrameLemma
  <2> QED BY <2>1, <2>3 DEF none
<1> HIDE DEF f
<1>3. ProcOK(proc) /\ FrameOK(proc, f) /\ SameBreak(proc, proc) /\ Len(proc.nodes) >= Len(proc.nodes)
  BY <1>2, Here DEF FrameOK, SameBreak
<1> QED BY <1>1, <1>2, <1>3, EnterKeeps

LEMMA WhileStep ==
    ASSUME IInv, stack # <<>>, NEW locals \in LocalLists, NEW label \in BOOLEAN,
           LinearizeWhile(locals, label)
    PROVE  IInv'
<1> DEFINE n == Len(proc.nodes)
           test == n + 1
           body == test + 1
           end == test + 2
           q0 == CreateBlocks(proc, 3)
           q1 == InLoop(q0, end, NextScope(scopes))
           q2 == TestCond(q1, test, body, end)
           q == StartBlock(q2, body)
           f == Frame("loop", test, <<>>, end)
<1>1. /\ Enter(q, Current.path, locals, label)
      /\ stack' = Append(stack, f)
      /\ stmts' = stmts + 1 /\ UNCHANGED <<captured, failed>>
  BY DEF LinearizeWhile, NewBlock, NextScope
<1>2. /\ ProcOK(proc) /\ n \in Nat /\ NextScope(scopes) \in Nat \ {0}
  BY Here DEF NextScope
<1>3. /\ ProcOK(q0) /\ SameContext(proc, q0) /\ Len(q0.nodes) = n + 3
      /\ Waiting(q0) \subseteq Waiting(proc) \cup ((n + 1)..(n + 3))
  BY <1>2, CreateBlocksLemma
<1> HIDE DEF q0
<1>4. /\ ProcOK(q1) /\ q1.nodes = q0.nodes /\ q1.local_pseudos = q0.local_pseudos
      /\ q1.current_break_target = end /\ q1.current_break_scope = NextScope(scopes)
      /\ Waiting(q1) = Waiting(q0)
  <2>1. end \in Nat /\ NextScope(scopes) \in Nat
    BY <1>2
  <2>2. ProcOK(q0)
    BY <1>3
  <2> HIDE DEF end
  <2> QED BY <2>1, <2>2, InLoopLemma
<1> HIDE DEF q1
<1>5. /\ test \in 1..Len(q1.nodes) /\ body \in 1..Len(q1.nodes) /\ end \in 1..Len(q1.nodes)
      /\ body \in Nat \ {0} /\ end \in Nat \ {0} /\ test \in Nat \ {0}
  BY <1>2, <1>3, <1>4
<1>6. /\ ProcOK(q2) /\ SameContext(q1, q2) /\ Len(q2.nodes) = Len(q1.nodes)
      /\ Waiting(q2) \subseteq Waiting(q1) \ {test}
  BY <1>4, <1>5, TestCondLemma
<1> HIDE DEF q2
<1>7. /\ ProcOK(q) /\ SameContext(q2, q) /\ Len(q.nodes) = Len(q2.nodes)
      /\ Waiting(q) \subseteq Waiting(q2) \ {body}
  BY <1>5, <1>6, StartBlockLemma
<1> HIDE DEF q
<1>8. Waiting(q) \subseteq Waiting(proc) \cup {end}
  BY <1>2, <1>3, <1>4, <1>6, <1>7
<1>9. /\ f \in FrameType /\ f.kind = "loop" /\ f.head = test /\ f.arms = <<>> /\ f.exit = end
      /\ f.break_target = proc.current_break_target
      /\ f.break_scope = proc.current_break_scope
  <2> DEFINE none == <<>>
  <2>1. none \in Seq(Nat \ {0}) /\ test \in Nat /\ end \in Nat
    BY <1>5
  <2>2. f = Frame("loop", test, none, end)
    OBVIOUS
  <2> HIDE DEF none, f, test, end
  <2>3. /\ f \in FrameType /\ f.kind = "loop" /\ f.head = test /\ f.arms = none
        /\ f.exit = end
        /\ f.break_target = proc.current_break_target
        /\ f.break_scope = proc.current_break_scope
    BY <2>1, <2>2, FrameLemma
  <2> QED BY <2>3 DEF none
<1>10. Len(q.nodes) = n + 3 /\ end \in 1..Len(q.nodes) /\ test \in 1..Len(q.nodes)
  BY <1>2, <1>3, <1>4, <1>5, <1>6, <1>7
<1> HIDE DEF f, test, end
<1>11. FrameOK(q, f) /\ Waiting(q) \subseteq Waiting(proc) \cup Held(f)
  BY <1>8, <1>9, <1>10 DEF FrameOK, Held
<1>12. /\ q.local_pseudos = proc.local_pseudos /\ q.current_break_target = f.exit
       /\ q.current_break_scope = NextScope(scopes) /\ Len(q.nodes) >= Len(proc.nodes)
  BY <1>2, <1>3, <1>4, <1>6, <1>7, <1>9, <1>10 DEF SameContext, SameBreak
<1> QED BY <1>1, <1>7, <1>9, <1>11, <1>12, EnterKeeps
(* One instruction that is not a branch. *)
LEMMA OpLemma ==
    ASSUME NEW p, ProcOK(p), NEW insn \in InsnType
    PROVE  LET q == Ops(p, << insn >>)
           IN  /\ ProcOK(q) /\ SameContext(p, q) /\ Len(q.nodes) = Len(p.nodes)
               /\ Waiting(q) \subseteq Waiting(p)
<1> DEFINE code == << insn >>
<1>1. code \in Seq(InsnType)
  OBVIOUS
<1> HIDE DEF code
<1>2. LET q == Ops(p, code)
      IN  /\ ProcOK(q) /\ SameContext(p, q) /\ Len(q.nodes) = Len(p.nodes)
          /\ Waiting(q) \subseteq Waiting(p)
  BY <1>1, OpsLemma
<1> QED BY <1>2 DEF code

(* The code of a repeat: the condition first, then the body. *)
LEMMA RepeatStep ==
    ASSUME IInv, stack # <<>>, NEW locals \in LocalLists, NEW label \in BOOLEAN,
           LinearizeRepeat(locals, label)
    PROVE  IInv'
<1> DEFINE n == Len(proc.nodes)
           k == Len(PathOf(proc, scopes))
           test == n + 1
           body == test + 1
           end == test + 2
           s == NextScope(scopes)
           q0 == CreateBlocks(proc, 3)
           p1 == InLoop(q0, end, s)
           q1 == InstructBr(p1, body)
           sc == NewScope(q1, Append(Current.path, s), locals, label)
           p2 == StartScope(q1, s, sc)
           q2 == StartBlock(p2, test)
           f == Frame("loop", test, <<>>, end)
<1>1. \E cond \in RepeatConditions(s, sc) :
         /\ proc' = StartBlock(InstructCbr(Ops(q2, << cond >>), body, end), body)
         /\ captured' = IF cond.op = "closure" THEN captured \cup {<<s, cond.reg>>}
                        ELSE captured
  BY DEF LinearizeRepeat, NewBlock, NextScope
<1>2. /\ scopes' = Append(scopes, sc) /\ list' = "empty"
      /\ stack' = Append(stack, f) /\ stmts' = stmts + 1 /\ UNCHANGED failed
  BY DEF LinearizeRepeat, NewBlock, NextScope
<1>3. /\ ProcOK(proc) /\ n \in Nat /\ s \in Nat \ {0} /\ Len(scopes) \in Nat
  BY Here DEF NextScope
<1>4. /\ ProcOK(q0) /\ SameContext(proc, q0) /\ Len(q0.nodes) = n + 3
      /\ Waiting(q0) \subseteq Waiting(proc) \cup ((n + 1)..(n + 3))
  BY <1>3, CreateBlocksLemma
<1> HIDE DEF q0
<1>5. /\ test \in Nat \ {0} /\ body \in Nat \ {0} /\ end \in Nat \ {0}
      /\ test \in 1..(n + 3) /\ body \in 1..(n + 3) /\ end \in 1..(n + 3)
      /\ (n + 1)..(n + 3) = {test, body, end}
  BY <1>3
<1>6. /\ ProcOK(p1) /\ p1.nodes = q0.nodes /\ p1.local_pseudos = q0.local_pseudos
      /\ p1.current_break_target = end /\ p1.current_break_scope = s
      /\ Waiting(p1) = Waiting(q0)
  <2>1. end \in Nat /\ s \in Nat
    BY <1>3, <1>5
  <2>2. ProcOK(q0)
    BY <1>4
  <2> HIDE DEF end, s
  <2> QED BY <2>1, <2>2, InLoopLemma
<1> HIDE DEF p1
<1>7. /\ ProcOK(q1) /\ SameContext(p1, q1) /\ Len(q1.nodes) >= Len(p1.nodes)
      /\ Waiting(q1) \subseteq Waiting(p1)
  BY <1>5, <1>6, InstructBrLemma
<1> HIDE DEF q1
<1>8. q1.local_pseudos = proc.local_pseudos
  BY <1>4, <1>6, <1>7 DEF SameContext
<1>9. /\ ProcOK(p2) /\ SameBreak(q1, p2) /\ p2.nodes = q1.nodes /\ Waiting(p2) = Waiting(q1)
      /\ ScopesOK(scopes') /\ MoreScopes(scopes, scopes') /\ CursorOK(p2, scopes')
      /\ Len(scopes') = s /\ scopes'[s] = sc /\ p2.current_scope = s
      /\ PathOf(p2, scopes') = Append(PathOf(proc, scopes), s)
      /\ PlacedOK(scopes') /\ sc \in ScopeType
  BY <1>2, <1>7, <1>8, EnterHere
<1> HIDE DEF p2, sc, s
<1>10. Len(p2.nodes) \in Nat /\ Len(p2.nodes) >= n + 3
  <2>1. p2 \in ProcType
    BY <1>9 DEF ProcOK
  <2>2. Len(p2.nodes) \in Nat
    BY <2>1 DEF ProcType
  <2> QED BY <2>2, <1>4, <1>6, <1>7, <1>9
<1>11. test \in 1..Len(p2.nodes) /\ body \in 1..Len(p2.nodes) /\ end \in 1..Len(p2.nodes)
  BY <1>3, <1>10
<1> HIDE DEF test, body, end
<1>12. /\ ProcOK(q2) /\ SameContext(p2, q2) /\ Len(q2.nodes) = Len(p2.nodes)
       /\ Waiting(q2) \subseteq Waiting(p2) \ {test}
  BY <1>9, <1>11, StartBlockLemma
<1> HIDE DEF q2
<1>30. PICK cond \in RepeatConditions(s, sc) :
         /\ proc' = StartBlock(InstructCbr(Ops(q2, << cond >>), body, end), body)
         /\ captured' = IF cond.op = "closure" THEN captured \cup {<<s, cond.reg>>}
                        ELSE captured
  BY <1>1
<1>13. cond \in InsnType /\ (cond.op = "closure" => cond.reg \in Nat)
  <2>1. EscapedRegs(sc) \subseteq Nat /\ s \in Nat
    BY <1>3, <1>9, EscapedRegsLemma
  <2>2. CASE cond = Insn("op", <<>>, -1, s)
    BY <2>1, <2>2 DEF Insn, InsnType, Opcodes
  <2>3. CASE cond # Insn("op", <<>>, -1, s)
    <3>1. PICK op \in {"use", "closure"}, r \in EscapedRegs(sc) : cond = Insn(op, <<>>, r, s)
      BY <2>3 DEF RepeatConditions
    <3> QED BY <2>1, <3>1 DEF Insn, InsnType, Opcodes
  <2> QED BY <2>2, <2>3
<1> DEFINE q3 == Ops(q2, << cond >>)
           q4 == InstructCbr(q3, body, end)
<1>14. /\ ProcOK(q3) /\ SameContext(q2, q3) /\ Len(q3.nodes) = Len(q2.nodes)
       /\ Waiting(q3) \subseteq Waiting(q2)
  BY <1>12, <1>13, OpLemma
<1>15. proc' = StartBlock(q4, body)
  BY <1>30
<1> HIDE DEF q3
<1>16. /\ ProcOK(q4) /\ SameContext(q3, q4) /\ Len(q4.nodes) = Len(q3.nodes)
       /\ Waiting(q4) \subseteq Waiting(q3)
  BY <1>5, <1>14, InstructCbrLemma
<1> HIDE DEF q4
<1>17. /\ ProcOK(proc') /\ SameContext(q4, proc') /\ Len(proc'.nodes) = Len(q4.nodes)
       /\ Waiting(proc') \subseteq Waiting(q4) \ {body}
  BY <1>11, <1>12, <1>14, <1>15, <1>16, StartBlockLemma
<1>18. SameContext(p2, proc') /\ Len(proc'.nodes) = Len(p2.nodes)
  BY <1>12, <1>14, <1>16, <1>17 DEF SameContext, SameBreak
<1>19. Waiting(proc') \subseteq Waiting(proc) \cup {end}
  BY <1>4, <1>5, <1>6, <1>7, <1>9, <1>12, <1>14, <1>16, <1>17
<1>20. /\ f \in FrameType /\ f.kind = "loop" /\ f.head = test /\ f.arms = <<>>
       /\ f.exit = end
       /\ f.break_target = proc.current_break_target
       /\ f.break_scope = proc.current_break_scope
  <2> DEFINE none == <<>>
  <2>1. none \in Seq(Nat \ {0}) /\ test \in Nat /\ end \in Nat
    BY <1>5
  <2>2. f = Frame("loop", test, none, end)
    OBVIOUS
  <2> HIDE DEF none, f
  <2>3. /\ f \in FrameType /\ f.kind = "loop" /\ f.head = test /\ f.arms = none
        /\ f.exit = end
        /\ f.break_target = proc.current_break_target
        /\ f.break_scope = proc.current_break_scope
    BY <2>1, <2>2, FrameLemma
  <2> QED BY <2>3 DEF none
<1> HIDE DEF f
<1>21. FrameOK(proc', f)
  BY <1>5, <1>11, <1>18, <1>20 DEF FrameOK
<1>22. Waiting(proc') \subseteq Waiting(proc) \cup Held(f)
  BY <1>19, <1>20 DEF Held
<1>23. PathOf(proc', scopes') = Append(PathOf(proc, scopes), s) /\ CursorOK(proc', scopes')
  BY <1>9, <1>18 DEF PathOf, CursorOK, SameContext
<1>24. PathOf(proc, scopes) \in Seq(Nat \ {0}) /\ k \in Nat
  BY Here, WalkingTypes
<1>25. /\ Len(PathOf(proc', scopes')) = k + 1
       /\ \A i \in 1..k : PathOf(proc', scopes')[i] = PathOf(proc, scopes)[i]
  BY <1>23, <1>24
<1>26. /\ proc'.current_break_target = f.exit
       /\ \E i \in 1..Len(PathOf(proc', scopes')) :
              proc'.current_break_scope = PathOf(proc', scopes')[i]
  <2>1. proc'.current_break_target = end /\ proc'.current_break_scope = s
    BY <1>6, <1>7, <1>9, <1>18 DEF SameContext, SameBreak
  <2>2. k + 1 \in 1..(k + 1) /\ PathOf(proc', scopes')[k + 1] = s
    BY <1>23, <1>24
  <2> QED BY <1>20, <1>25, <2>1, <2>2
<1>27. CountersOK'
  <2>1. CountersOK
    BY DEF IInv
  <2>2. captured \subseteq Nat \X Int /\ s \in Nat
    BY <1>3, <2>1 DEF CountersOK
  <2>3. captured' \subseteq Nat \X Int
    BY <1>13, <1>30, <2>2
  <2> QED BY <1>2, <2>1, <2>3 DEF CountersOK
<1> HIDE DEF k
<1>28. Len(PathOf(proc', scopes')) = k + (IF f.kind = "for" THEN 2 ELSE 1)
  BY <1>20, <1>25
<1>29. Len(proc'.nodes) >= Len(proc.nodes)
  BY <1>3, <1>10, <1>18
<1> QED BY <1>2, <1>9, <1>17, <1>20, <1>21, <1>22, <1>23, <1>25, <1>26, <1>27, <1>28,
           <1>29, PushKeeps DEF k
(* The tests of a numeric for, from the block L1 to the block of the body. *)
ForCode(p, step, L1, Lbody, op, first) ==
    LET L2 == L1 + 1
        L3 == L1 + 2
        Lend == Lbody + 1
        q3 == Ops(StartBlock(p, L1), << op >>)
        q4 == IF step = "positive" THEN InstructBr(q3, L2) ELSE InstructCbr(q3, L2, L3)
        q5 == InstructCbr(Ops(StartBlock(q4, L2), << op >>), Lend, Lbody)
        q6 == IF step = "positive" THEN q5
              ELSE InstructCbr(Ops(StartBlock(q5, L3), << op >>), Lend, Lbody)
    IN  Ops(StartBlock(q6, Lbody), << first >>)

LEMMA StartOpLemma ==
    ASSUME NEW p, ProcOK(p), NEW b \in 1..Len(p.nodes), NEW insn \in InsnType
    PROVE  LET q == Ops(StartBlock(p, b), << insn >>)
           IN  /\ ProcOK(q) /\ SameContext(p, q) /\ Len(q.nodes) = Len(p.nodes)
               /\ Waiting(q) \subseteq Waiting(p) \ {b}
<1> DEFINE r == StartBlock(p, b)
<1>1. /\ ProcOK(r) /\ SameContext(p, r) /\ Len(r.nodes) = Len(p.nodes)
      /\ Waiting(r) \subseteq Waiting(p) \ {b}
  BY StartBlockLemma
<1> DEFINE q == Ops(r, << insn >>)
<1> HIDE DEF r
<1>2. /\ ProcOK(q) /\ SameContext(r, q) /\ Len(q.nodes) = Len(r.nodes)
      /\ Waiting(q) \subseteq Waiting(r)
  BY <1>1, OpLemma
<1> HIDE DEF q
<1>3. SameContext(p, q)
  BY <1>1, <1>2 DEF SameContext, SameBreak
<1> QED BY <1>1, <1>2, <1>3 DEF q, r

(* Of the blocks made for the loop only its end still waits. *)
LEMMA ForCodeLemma ==
    ASSUME NEW p, ProcOK(p), NEW step \in {"positive", "unknown"},
           NEW L1, L1 \in Nat \ {0},
           NEW Lbody, Lbody = (IF step = "positive" THEN L1 + 2 ELSE L1 + 3),
           Len(p.nodes) = Lbody + 1,
           NEW op \in InsnType, NEW first \in InsnType
    PROVE  LET q == ForCode(p, step, L1, Lbody, op, first)
           IN  /\ ProcOK(q) /\ SameContext(p, q) /\ Len(q.nodes) >= Len(p.nodes)
               /\ Waiting(q) \subseteq Waiting(p) \ L1..Lbody
<1> DEFINE L2 == L1 + 1
           L3 == L1 + 2
           Lend == Lbody + 1
           q3 == Ops(StartBlock(p, L1), << op >>)
           q4 == IF step = "positive" THEN InstructBr(q3, L2) ELSE InstructCbr(q3, L2, L3)
           q5 == InstructCbr(Ops(StartBlock(q4, L2), << op >>), Lend, Lbody)
           q6 == IF step = "positive" THEN q5
                 ELSE InstructCbr(Ops(StartBlock(q5, L3), << op >>), Lend, Lbody)
           q == Ops(StartBlock(q6, Lbody), << first >>)
<1>1. q = ForCode(p, step, L1, Lbody, op, first)
  BY DEF ForCode
<1>2. /\ L1 \in 1..Lend /\ L2 \in 1..Lend /\ L3 \in 1..Lend /\ Lbody \in 1..Lend
      /\ L2 \in Nat \ {0} /\ L3 \in Nat \ {0} /\ Lbody \in Nat \ {0} /\ Lend \in Nat \ {0}
  OBVIOUS
<1>3. L1..Lbody = IF step = "positive" THEN {L1, L2, Lbody} ELSE {L1, L2, L3, Lbody}
  <2>1. CASE step = "positive"
    <3>1. Lbody = L1 + 2
      BY <2>1
    <3> QED BY <2>1, <3>1
  <2>2. CASE step # "positive"
    <3>1. Lbody = L1 + 3
      BY <2>2
    <3> QED BY <2>2, <3>1
  <2> QED BY <2>1, <2>2
<1>4. Len(p.nodes) = Lend
  OBVIOUS
<1> HIDE DEF L2, L3, Lend
<1>5. /\ ProcOK(q3) /\ SameContext(p, q3) /\ Len(q3.nodes) = Lend
      /\ Waiting(q3) \subseteq Waiting(p) \ {L1}
  BY <1>2, <1>4, StartOpLemma
<1> HIDE DEF q3
<1>6. /\ ProcOK(q4) /\ SameContext(q3, q4) /\ Len(q4.nodes) >= Lend
      /\ Waiting(q4) \subseteq Waiting(q3)
  <2>1. CASE step = "positive"
    <3>1. q4 = InstructBr(q3, L2)
      BY <2>1
    <3> HIDE DEF q4
    <3> QED BY <1>2, <1>5, <3>1, InstructBrLemma
  <2>2. CASE step # "positive"
    <3>1. q4 = InstructCbr(q3, L2, L3)
      BY <2>2
    <3> HIDE DEF q4
    <3>2. /\ ProcOK(q4) /\ SameContext(q3, q4) /\ Len(q4.nodes) = Len(q3.nodes)
          /\ Waiting(q4) \subseteq Waiting(q3)
      BY <1>2, <1>5, <3>1, InstructCbrLemma
    <3> QED BY <1>2, <1>5, <3>2
  <2> QED BY <2>1, <2>2
<1> HIDE DEF q4
<1>7. Len(q4.nodes) \in Nat
  <2>1. q4 \in ProcType
    BY <1>6 DEF ProcOK
  <2> QED BY <2>1 DEF ProcType
<1>8. /\ L2 \in 1..Len(q4.nodes) /\ L3 \in 1..Len(q4.nodes) /\ Lbody \in 1..Len(q4.nodes)
  BY <1>2, <1>6, <1>7
<1>9. /\ ProcOK(q5) /\ SameContext(q4, q5) /\ Len(q5.nodes) = Len(q4.nodes)
      /\ Waiting(q5) \subseteq Waiting(q4) \ {L2}
  <2>1. ProcOK(q4) /\ L2 \in 1..Len(q4.nodes)
    BY <1>6, <1>8
  <2>2. Lend \in Nat \ {0} /\ Lbody \in Nat \ {0}
    BY <1>2
  <2> DEFINE r == Ops(StartBlock(q4, L2), << op >>)
  <2>3. /\ ProcOK(r) /\ SameContext(q4, r) /\ Len(r.nodes) = Len(q4.nodes)
        /\ Waiting(r) \subseteq Waiting(q4) \ {L2}
    BY <2>1, StartOpLemma
  <2> HIDE DEF r
  <2>4. ProcOK(r)
    BY <2>3
  <2>5. /\ ProcOK(q5) /\ SameContext(r, q5) /\ Len(q5.nodes) = Len(r.nodes)
        /\ Waiting(q5) \subseteq Waiting(r)
    BY <2>2, <2>4, InstructCbrLemma DEF r
  <2>6. SameContext(q4, q5)
    BY <2>3, <2>5 DEF SameContext, SameBreak
  <2> QED BY <2>3, <2>5, <2>6
<1> HIDE DEF q5
<1>10. /\ ProcOK(q6) /\ SameContext(q5, q6) /\ Len(q6.nodes) = Len(q4.nodes)
       /\ Waiting(q6) \subseteq Waiting(q5)
       /\ step # "positive" => L3 \notin Waiting(q6)
  <2>1. CASE step = "positive"
    BY <1>9, <2>1 DEF SameContext, SameBreak
  <2>2. CASE step # "positive"
    <3>1. q6 = InstructCbr(Ops(StartBlock(q5, L3), << op >>), Lend, Lbody)
      BY <2>2
    <3>2. L3 \in 1..Len(q5.nodes)
      BY <1>8, <1>9
    <3> HIDE DEF q6
    <3>3. /\ ProcOK(q6) /\ SameContext(q5, q6) /\ Len(q6.nodes) = Len(q5.nodes)
          /\ Waiting(q6) \subseteq Waiting(q5) \ {L3}
      <4>1. ProcOK(q5)
        BY <1>9
      <4>2. Lend \in Nat \ {0} /\ Lbody \in Nat \ {0}
        BY <1>2
      <4> DEFINE r == Ops(StartBlock(q5, L3), << op >>)
      <4>3. /\ ProcOK(r) /\ SameContext(q5, r) /\ Len(r.nodes) = Len(q5.nodes)
            /\ Waiting(r) \subseteq Waiting(q5) \ {L3}
        BY <3>2, <4>1, StartOpLemma
      <4> HIDE DEF r
      <4>4. ProcOK(r)
        BY <4>3
      <4>5. /\ ProcOK(q6) /\ SameContext(r, q6) /\ Len(q6.nodes) = Len(r.nodes)
            /\ Waiting(q6) \subseteq Waiting(r)
        BY <3>1, <4>2, <4>4, InstructCbrLemma DEF r
      <4>6. SameContext(q5, q6)
        BY <4>3, <4>5 DEF SameContext, SameBreak
      <4> QED BY <4>3, <4>5, <4>6
    <3> QED BY <1>9, <3>3
  <2> QED BY <2>1, <2>2
<1> HIDE DEF q6
<1>11. Lbody \in 1..Len(q6.nodes)
  BY <1>8, <1>10
<1>12. /\ ProcOK(q) /\ SameContext(q6, q) /\ Len(q.nodes) = Len(q6.nodes)
       /\ Waiting(q) \subseteq Waiting(q6) \ {Lbody}
  BY <1>10, <1>11, StartOpLemma
<1> HIDE DEF q
<1>13. SameContext(p, q)
  BY <1>5, <1>6, <1>9, <1>10, <1>12 DEF SameContext, SameBreak
<1>14. Len(q.nodes) >= Len(p.nodes)
  BY <1>4, <1>6, <1>10, <1>12
<1>15. Waiting(q) \subseteq Waiting(p) \ L1..Lbody
  <2>1. Waiting(q) \subseteq Waiting(p) /\ L1 \notin Waiting(q) /\ L2 \notin Waiting(q)
        /\ Lbody \notin Waiting(q) /\ (step # "positive" => L3 \notin Waiting(q))
    BY <1>5, <1>6, <1>9, <1>10, <1>12
  <2> QED BY <1>3, <2>1
<1> QED BY <1>1, <1>12, <1>13, <1>14, <1>15
LEMMA MoreScopesTwice ==
    ASSUME NEW sc \in Seq(ScopeType), NEW sd \in Seq(ScopeType), NEW se \in Seq(ScopeType),
           MoreScopes(sc, sd), MoreScopes(sd, se)
    PROVE  MoreScopes(sc, se)
<1>1. Len(sc) \in Nat /\ Len(sd) \in Nat /\ Len(se) \in Nat
  OBVIOUS
<1>2. /\ Len(sd) >= Len(sc) /\ Len(se) >= Len(sd)
      /\ \A s \in 1..Len(sc) : sd[s] = sc[s]
      /\ \A s \in 1..Len(sd) : se[s] = sd[s]
      /\ \A s \in (Len(sc) + 1)..Len(sd) : sd[s].label_block = 0
      /\ \A s \in (Len(sd) + 1)..Len(se) : se[s].label_block = 0
  BY DEF MoreScopes
<1>3. \A s \in 1..Len(sc) : se[s] = sc[s]
  BY <1>1, <1>2
<1>4. ASSUME NEW s \in (Len(sc) + 1)..Len(se) PROVE se[s].label_block = 0
  <2>1. CASE s \in 1..Len(sd)
    <3>1. s \in (Len(sc) + 1)..Len(sd)
      BY <1>1, <2>1
    <3> QED BY <1>2, <2>1, <3>1
  <2>2. CASE s \notin 1..Len(sd)
    <3>1. s \in (Len(sd) + 1)..Len(se)
      BY <1>1, <2>2
    <3> QED BY <1>2, <3>1
  <2> QED BY <2>1, <2>2
<1>5. Len(se) >= Len(sc)
  BY <1>1, <1>2
<1> QED BY <1>3, <1>4, <1>5 DEF MoreScopes

(* A numeric for: two scopes, one below the other. *)
LEMMA ForNumStep ==
    ASSUME IInv, stack # <<>>, NEW locals \in LocalLists, NEW label \in BOOLEAN,
           NEW step \in {"positive", "unknown"}, NEW escaped \in BOOLEAN,
           LinearizeForNum(step, escaped, locals, label)
    PROVE  IInv'
<1> DEFINE s == NextScope(scopes)
           lv == IF escaped THEN <<"escaped">> ELSE <<>>
           fresh == NewScope(proc, Append(Current.path, s), lv, FALSE)
           var == [fresh EXCEPT !.declared = TRUE]
           n == Len(proc.nodes)
           L1 == n + 1
           Lbody == IF step = "positive" THEN L1 + 2 ELSE L1 + 3
           Lend == Lbody + 1
           Lcount == Lend - L1 + 1
           op == Insn("op", <<>>, -1, s)
           first == IF escaped THEN Insn("init", <<>>, var.base, s) ELSE op
           p1 == StartScope(proc, s, var)
           q1 == Ops(p1, << op >>)
           p2 == CreateBlocks(q1, Lcount)
           q2 == InLoop(p2, Lend, s)
           q7 == ForCode(q2, step, L1, Lbody, op, first)
           body == NewScope(q7, Append(var.path, s + 1), locals, label)
           mid == Append(scopes, var)
           f == Frame("for", L1, <<>>, Lend)
<1>1. /\ proc' = StartScope(q7, s + 1, body)
      /\ scopes' = scopes \o << var, body >>
      /\ list' = "empty"
      /\ stack' = Append(stack, f)
      /\ stmts' = stmts + 1
      /\ UNCHANGED <<captured, failed>>
      /\ escaped => "for_escaped" \in Grammar
  BY DEF LinearizeForNum, ForCode, NewBlock, NextScope
<1>2. /\ ProcOK(proc) /\ n \in Nat /\ s \in Nat \ {0} /\ Len(scopes) \in Nat
      /\ s = Len(scopes) + 1 /\ ScopesOK(scopes) /\ scopes \in Seq(ScopeType)
      /\ PlacedOK(scopes)
  BY Here DEF NextScope, IInv, StateOK
<1>3. /\ var \in ScopeType /\ var.path = Append(Current.path, s)
      /\ var.base = Current.base + Len(Current.locals)
      /\ var.label = FALSE /\ var.label_block = 0 /\ ~var.placed
      /\ ~escaped => var.locals = <<>>
  <2>1. lv \in Seq({"plain", "escaped"})
    <3>1. <<"escaped">> \in Seq({"plain", "escaped"}) /\ <<>> \in Seq({"plain", "escaped"})
      OBVIOUS
    <3>2. CASE escaped
      BY <3>1, <3>2
    <3>3. CASE ~escaped
      BY <3>1, <3>3
    <3> QED BY <3>2, <3>3
  <2> HIDE DEF lv
  <2>2. /\ fresh \in ScopeType /\ fresh.path = Append(Current.path, s)
        /\ fresh.base = Current.base + Len(Current.locals)
        /\ fresh.label = FALSE /\ fresh.label_block = NoBlock /\ ~fresh.placed
        /\ fresh.locals = lv
    BY <2>1, NewHere
  <2> HIDE DEF fresh
  <2>3. ~escaped => lv = <<>>
    BY DEF lv
  <2> QED BY <2>2, <2>3 DEF ScopeType, NoBlock
<1> HIDE DEF fresh, var, lv
<1>4. /\ ProcOK(p1) /\ SameBreak(proc, p1) /\ p1.nodes = proc.nodes /\ Waiting(p1) = Waiting(proc)
      /\ ScopesOK(mid) /\ MoreScopes(scopes, mid) /\ CursorOK(p1, mid)
      /\ Len(mid) = s /\ mid[s] = var /\ p1.current_scope = s
      /\ PlacedOK(mid)
  BY <1>2, <1>3, EnterTop
<1> HIDE DEF p1
<1>5. op \in InsnType /\ first \in InsnType
  <2>1. op \in InsnType
    BY <1>2 DEF Insn, InsnType, Opcodes
  <2>2. var.base \in Nat
    BY <1>3, ScopeFields
  <2>3. Insn("init", <<>>, var.base, s) \in InsnType
    BY <1>2, <2>2 DEF Insn, InsnType, Opcodes
  <2> QED BY <2>1, <2>3
<1> HIDE DEF op, first
<1>6. /\ ProcOK(q1) /\ SameContext(p1, q1) /\ Len(q1.nodes) = n
      /\ Waiting(q1) \subseteq Waiting(proc)
  BY <1>4, <1>5, OpLemma
<1> HIDE DEF q1
<1>7. /\ Lcount \in Nat /\ Lend \in Nat \ {0} /\ L1 \in Nat \ {0} /\ Lbody \in Nat \ {0}
      /\ n + Lcount = Lend /\ L1 = n + 1 /\ Lend = Lbody + 1
      /\ (n + 1)..Lend = L1..Lbody \cup {Lend}
  BY <1>2, SMTT(20), ZenonT(40)
<1>8. Lbody = IF step = "positive" THEN L1 + 2 ELSE L1 + 3
  OBVIOUS
<1> HIDE DEF Lcount, Lend, L1, Lbody
<1>9. /\ ProcOK(p2) /\ SameContext(q1, p2) /\ Len(p2.nodes) = Lend
      /\ Waiting(p2) \subseteq Waiting(proc) \cup (L1..Lbody \cup {Lend})
  <2>1. /\ ProcOK(p2) /\ SameContext(q1, p2) /\ Len(p2.nodes) = Len(q1.nodes) + Lcount
        /\ Waiting(p2) \subseteq Waiting(q1) \cup
                                 ((Len(q1.nodes) + 1)..(Len(q1.nodes) + Lcount))
    BY <1>6, <1>7, CreateBlocksLemma
  <2> HIDE DEF p2
  <2> QED BY <1>6, <1>7, <2>1
<1> HIDE DEF p2
<1>10. /\ ProcOK(q2) /\ q2.nodes = p2.nodes
       /\ q2.current_scope = p2.current_scope /\ q2.local_pseudos = p2.local_pseudos
       /\ q2.current_break_target = Lend /\ q2.current_break_scope = s
       /\ Waiting(q2) = Waiting(p2)
  <2>1. Lend \in Nat /\ s \in Nat
    BY <1>2, <1>7
  <2>2. ProcOK(p2)
    BY <1>9
  <2> HIDE DEF s
  <2> QED BY <2>1, <2>2, InLoopLemma
<1> HIDE DEF q2
<1>11. /\ ProcOK(q7) /\ SameContext(q2, q7) /\ Len(q7.nodes) >= Len(q2.nodes)
       /\ Waiting(q7) \subseteq Waiting(q2) \ L1..Lbody
  <2>1. ProcOK(q2) /\ Len(q2.nodes) = Lbody + 1
    BY <1>7, <1>9, <1>10
  <2>2. L1 \in Nat \ {0}
    BY <1>7
  <2> QED BY <1>5, <1>8, <2>1, <2>2, ForCodeLemma
<1> HIDE DEF q7
<1>12. /\ q7.local_pseudos = p1.local_pseudos /\ q7.current_break_target = Lend
       /\ q7.current_break_scope = s /\ Waiting(q7) \subseteq Waiting(proc) \cup {Lend}
  BY <1>6, <1>9, <1>10, <1>11 DEF SameContext, SameBreak
<1>13. q7.local_pseudos = Below(var.base + Len(var.locals)) /\ OnTop(q7, mid, s)
  <2>1. var.base \in Nat /\ Len(var.locals) \in Nat
    BY <1>3, ScopeFields
  <2>2. p1.local_pseudos = 0..(var.base + Len(var.locals) - 1)
    BY <1>4 DEF CursorOK
  <2>3. mid[s] = var
    BY <1>4
  <2> HIDE DEF s, mid
  <2> QED BY <1>12, <2>1, <2>2, <2>3 DEF Below, OnTop
<1>14. /\ body \in ScopeType /\ body.path = Append(var.path, s + 1)
       /\ body.base = var.base + Len(var.locals) /\ body.label_block = 0 /\ ~body.placed
  <2> DEFINE path == Append(var.path, s + 1)
             base == var.base + Len(var.locals)
  <2>1. path \in Seq(Nat \ {0}) /\ base \in Nat
    <3>1. /\ var.path \in Seq(Nat \ {0}) /\ var.base \in Nat /\ Len(var.locals) \in Nat
      BY <1>3, ScopeFields
    <3>2. s + 1 \in Nat \ {0}
      BY <1>2
    <3> HIDE DEF s
    <3> QED BY <3>1, <3>2
  <2>2. locals \in Seq({"plain", "escaped"})
    BY LocalsAssumption
  <2>3. q7.local_pseudos = Below(base)
    BY <1>13
  <2>5. body = NewScope(q7, path, locals, label)
    OBVIOUS
  <2> HIDE DEF path, base, body
  <2>4. /\ body \in ScopeType /\ body.path = path /\ body.base = base
        /\ body.label_block = NoBlock /\ ~body.placed
    BY <2>1, <2>2, <2>3, <2>5, NewScopeLemma
  <2> QED BY <2>4 DEF path, base, NoBlock
<1> HIDE DEF body
<1>15. scopes' = Append(mid, body)
  BY <1>1, <1>2, <1>3, <1>14, SMTT(40)
<1>16. NextScope(mid) = s + 1 /\ s \in 1..Len(mid) /\ mid \in Seq(ScopeType)
  BY <1>2, <1>4 DEF NextScope, ScopesOK
<1>17. /\ ProcOK(proc') /\ SameBreak(q7, proc') /\ proc'.nodes = q7.nodes
       /\ Waiting(proc') = Waiting(q7)
       /\ ScopesOK(scopes') /\ MoreScopes(mid, scopes') /\ CursorOK(proc', scopes')
       /\ Len(scopes') = s + 1
       /\ PathOf(proc', scopes') = body.path
  <2>1. ScopesOK(mid) /\ ProcOK(q7) /\ mid[s] = var
    BY <1>4, <1>11
  <2>2. body.path = Append(mid[s].path, NextScope(mid))
    BY <1>14, <1>16, <2>1
  <2>3. body.base = mid[s].base + Len(mid[s].locals)
    BY <1>14, <2>1
  <2>4. proc' = StartScope(q7, NextScope(mid), body)
    BY <1>1, <1>16
  <2>5. /\ body \in ScopeType /\ body.label_block = 0 /\ OnTop(q7, mid, s) /\ s \in 1..Len(mid)
    BY <1>13, <1>14, <1>16
  <2> HIDE DEF s, mid
  <2>6. /\ ProcOK(proc') /\ SameBreak(q7, proc') /\ proc'.nodes = q7.nodes
        /\ Waiting(proc') = Waiting(q7)
        /\ ScopesOK(scopes') /\ MoreScopes(mid, scopes') /\ CursorOK(proc', scopes')
        /\ Len(scopes') = NextScope(mid)
        /\ PathOf(proc', scopes') = body.path
    BY <1>15, <2>1, <2>2, <2>3, <2>4, <2>5, EnterLemma, SMTT(40)
  <2> QED BY <1>16, <2>6
<1>18. PlacedOK(scopes')
  BY <1>4, <1>14, <1>15, <1>16, PlacedPush
<1>19. MoreScopes(scopes, scopes')
  BY <1>2, <1>4, <1>16, <1>17, MoreScopesTwice DEF ScopesOK
<1> DEFINE k == Len(PathOf(proc, scopes))
<1>20. PathOf(proc, scopes) \in Seq(Nat \ {0}) /\ k \in Nat /\ Current.path = PathOf(proc, scopes)
  BY Here, WalkingTypes
<1>21. PathOf(proc', scopes') = Append(Append(PathOf(proc, scopes), s), s + 1)
  BY <1>3, <1>14, <1>17, <1>20
<1>22. /\ Len(PathOf(proc', scopes')) = k + 2
       /\ PathOf(proc', scopes')[k + 1] = s
       /\ \A i \in 1..k : PathOf(proc', scopes')[i] = PathOf(proc, scopes)[i]
  <2> HIDE DEF s
  <2> QED BY <1>2, <1>20, <1>21
<1>23. IsVariable(scopes'[s])
  <2>1. scopes'[s] = var
    <3>1. mid[s] = var
      BY <1>4
    <3> HIDE DEF mid, s
    <3> QED BY <1>16, <1>17, <3>1 DEF MoreScopes
  <2> QED BY <1>1, <1>3, <2>1 DEF IsVariable
<1>24. /\ f \in FrameType /\ f.kind = "for" /\ f.head = L1 /\ f.arms = <<>>
       /\ f.exit = Lend
       /\ f.break_target = proc.current_break_target
       /\ f.break_scope = proc.current_break_scope
  <2> DEFINE none == <<>>
  <2>1. none \in Seq(Nat \ {0}) /\ L1 \in Nat /\ Lend \in Nat
    BY <1>7
  <2>2. f = Frame("for", L1, none, Lend)
    OBVIOUS
  <2> HIDE DEF none, f
  <2>3. /\ f \in FrameType /\ f.kind = "for" /\ f.head = L1 /\ f.arms = none
        /\ f.exit = Lend
        /\ f.break_target = proc.current_break_target
        /\ f.break_scope = proc.current_break_scope
    BY <2>1, <2>2, FrameLemma
  <2> QED BY <2>3 DEF none
<1> HIDE DEF f
<1>25. Len(q7.nodes) \in Nat /\ Len(q7.nodes) >= Lend /\ Lend >= n
  <2>1. q7 \in ProcType
    BY <1>11 DEF ProcOK
  <2>2. Len(q7.nodes) \in Nat
    BY <2>1 DEF ProcType
  <2> QED BY <1>2, <1>7, <1>8, <1>9, <1>10, <1>11, <2>2
<1>26. FrameOK(proc', f) /\ Len(proc'.nodes) >= Len(proc.nodes)
  <2>1. Lend \in 1..Len(proc'.nodes) /\ L1 \in 1..Len(proc'.nodes)
    BY <1>7, <1>17, <1>25
  <2>2. Len(proc'.nodes) >= n
    BY <1>2, <1>7, <1>17, <1>25
  <2> QED BY <1>24, <2>1, <2>2 DEF FrameOK
<1>27. Waiting(proc') \subseteq Waiting(proc) \cup Held(f)
  BY <1>12, <1>17, <1>24 DEF Held
<1>28. /\ proc'.current_break_target = f.exit
       /\ \E i \in 1..Len(PathOf(proc', scopes')) :
              proc'.current_break_scope = PathOf(proc', scopes')[i]
  <2>1. proc'.current_break_target = f.exit /\ proc'.current_break_scope = s
    BY <1>12, <1>17, <1>24 DEF SameBreak
  <2>2. k + 1 \in 1..(k + 2)
    BY <1>20
  <2> HIDE DEF s, k
  <2> QED BY <1>22, <2>1, <2>2
<1>29. CountersOK'
  BY <1>1 DEF IInv, CountersOK
<1> HIDE DEF k, s
<1>30. Len(PathOf(proc', scopes')) = k + (IF f.kind = "for" THEN 2 ELSE 1)
  BY <1>22, <1>24
<1>31. IsVariable(scopes'[PathOf(proc', scopes')[Len(PathOf(proc', scopes')) - 1]])
  <2>1. Len(PathOf(proc', scopes')) - 1 = k + 1
    BY <1>20, <1>22
  <2> QED BY <1>22, <1>23, <2>1
<1> QED BY <1>1, <1>17, <1>18, <1>19, <1>22, <1>24, <1>26, <1>27, <1>28, <1>29, <1>30,
           <1>31, PushKeeps DEF k
(* An if: all the tests come first; the arms still to come wait. *)
LEMMA IfStep ==
    ASSUME IInv, stack # <<>>, NEW locals \in LocalLists, NEW label \in BOOLEAN,
           NEW n \in 1..MaxArms, NEW else \in BOOLEAN,
           LinearizeIf(n, else, locals, label)
    PROVE  IInv'
<1> DEFINE len == Len(proc.nodes)
           if1 == len + 1
           true == if1 + n
           last == IF else THEN true + n ELSE true + n - 1
           end == last + 1
           count == end - if1 + 1
           f1 == IF n = 2 THEN if1 + 1 ELSE true + 1
           q1 == CreateBlocks(proc, count)
           q2 == TestCond(q1, if1, true, f1)
           q3 == IF n = 2 THEN TestCond(q2, if1 + 1, true + 1, true + 2) ELSE q2
           q == StartBlock(q3, true)
           head == IF else THEN last ELSE NoBlock
           arms == [i \in 1..(last - true) |-> true + i]
           f == Frame("if", head, arms, end)
<1>1. /\ Enter(q, Current.path, locals, label)
      /\ stack' = Append(stack, f)
      /\ stmts' = stmts + 1 /\ UNCHANGED <<captured, failed>>
  BY DEF LinearizeIf, NewBlock
<1>2. /\ ProcOK(proc) /\ len \in Nat /\ n \in {1, 2}
  BY Here DEF MaxArms
<1>3. /\ if1 \in Nat \ {0} /\ true \in Nat \ {0} /\ last \in Nat /\ end \in Nat \ {0}
      /\ count \in Nat /\ len + count = end /\ f1 \in Nat \ {0}
      /\ true + 1 \in Nat \ {0} /\ true + 2 \in Nat \ {0} /\ if1 + 1 \in Nat \ {0}
      /\ if1 <= end /\ true <= last /\ end = last + 1 /\ if1 = len + 1
      /\ true = if1 + n /\ if1 + 1 <= end
  <2>1. CASE n = 1
    BY <1>2, <2>1
  <2>2. CASE n = 2
    BY <1>2, <2>2, SMTT(40)
  <2> QED BY <1>2, <2>1, <2>2
<1> HIDE DEF last, end, count, f1, true, if1, head
<1>4. /\ ProcOK(q1) /\ SameContext(proc, q1) /\ Len(q1.nodes) = end
      /\ Waiting(q1) \subseteq Waiting(proc) \cup (if1..end)
  <2>1. /\ ProcOK(q1) /\ SameContext(proc, q1) /\ Len(q1.nodes) = len + count
        /\ Waiting(q1) \subseteq Waiting(proc) \cup ((len + 1)..(len + count))
    BY <1>2, <1>3, CreateBlocksLemma
  <2> HIDE DEF q1
  <2> QED BY <1>3, <2>1
<1> HIDE DEF q1
<1>5. if1 \in 1..end /\ if1 + 1 \in 1..end /\ true \in 1..end /\ end \in 1..end
  BY <1>2, <1>3
<1>6. /\ ProcOK(q2) /\ SameContext(q1, q2) /\ Len(q2.nodes) = end
      /\ Waiting(q2) \subseteq Waiting(q1) \ {if1}
  <2>1. ProcOK(q1) /\ if1 \in 1..Len(q1.nodes) /\ true \in Nat \ {0} /\ f1 \in Nat \ {0}
    BY <1>3, <1>4, <1>5
  <2> QED BY <1>4, <2>1, TestCondLemma
<1> HIDE DEF q2
<1>7. /\ ProcOK(q3) /\ SameContext(q2, q3) /\ Len(q3.nodes) = end
      /\ Waiting(q3) \subseteq Waiting(q2)
      /\ n = 2 => if1 + 1 \notin Waiting(q3)
  <2>1. CASE n = 2
    <3> DEFINE if2 == if1 + 1
               t == true + 1
               u == true + 2
    <3>1. q3 = TestCond(q2, if2, t, u)
      BY <2>1
    <3>2. ProcOK(q2) /\ if2 \in 1..Len(q2.nodes) /\ t \in Nat \ {0} /\ u \in Nat \ {0}
      BY <1>3, <1>5, <1>6
    <3> HIDE DEF if2, t, u, q3
    <3>3. /\ ProcOK(q3) /\ SameContext(q2, q3) /\ Len(q3.nodes) = Len(q2.nodes)
          /\ Waiting(q3) \subseteq Waiting(q2) \ {if2}
      BY <3>1, <3>2, TestCondLemma
    <3> QED BY <1>6, <3>3 DEF if2
  <2>2. CASE n # 2
    <3>1. q3 = q2
      BY <2>2
    <3> HIDE DEF q3
    <3> QED BY <1>6, <2>2, <3>1 DEF SameContext, SameBreak
  <2> QED BY <2>1, <2>2
<1> HIDE DEF q3
<1>8. /\ ProcOK(q) /\ SameContext(q3, q) /\ Len(q.nodes) = end
      /\ Waiting(q) \subseteq Waiting(q3) \ {true}
  <2>1. true \in 1..Len(q3.nodes)
    BY <1>5, <1>7
  <2> QED BY <1>7, <2>1, StartBlockLemma
<1> HIDE DEF q
<1>9. Waiting(q) \subseteq Waiting(proc) \cup ((true + 1)..end)
  <2>1. /\ Waiting(q) \subseteq Waiting(proc) \cup (if1..end)
        /\ if1 \notin Waiting(q) /\ true \notin Waiting(q)
        /\ n = 2 => if1 + 1 \notin Waiting(q)
    BY <1>4, <1>6, <1>7, <1>8
  <2>2. \A b \in if1..end : b = if1 \/ b = true \/ (n = 2 /\ b = if1 + 1) \/ b \in (true + 1)..end
    BY <1>2, <1>3, SMTT(20), ZenonT(40)
  <2> QED BY <2>1, <2>2
<1>10. /\ arms \in Seq(Nat \ {0}) /\ Len(arms) = last - true
       /\ \A i \in 1..(last - true) : arms[i] = true + i
  <2>1. \A i \in 1..(last - true) : true + i \in Nat \ {0}
    BY <1>3, SMTT(20), ZenonT(40)
  <2>2. last - true \in Nat
    BY <1>3
  <2> QED BY <2>1, <2>2
<1>11. head \in Nat
  BY <1>3 DEF head, NoBlock
<1> HIDE DEF arms
<1>12. /\ f \in FrameType /\ f.kind = "if" /\ f.arms = arms /\ f.exit = end
       /\ f.break_target = proc.current_break_target
       /\ f.break_scope = proc.current_break_scope
  <2>1. end \in Nat
    BY <1>3
  <2> QED BY <1>10, <1>11, <2>1, FrameLemma
<1> HIDE DEF f
<1>13. FrameOK(q, f)
  <2>1. ASSUME NEW i \in 1..Len(arms) PROVE arms[i] \in 1..end
    <3>1. i \in 1..(last - true) /\ arms[i] = true + i
      BY <1>10
    <3>2. true \in Nat /\ last \in Nat /\ end = last + 1 /\ end \in Nat
      BY <1>3
    <3>3. true + i \in 1..end
      BY <3>1, <3>2
    <3> QED BY <3>1, <3>3
  <2>2. f.exit \in 1..Len(q.nodes) /\ \A i \in 1..Len(f.arms) : f.arms[i] \in 1..Len(q.nodes)
    BY <1>5, <1>8, <1>12, <2>1
  <2> QED BY <1>12, <2>2 DEF FrameOK
<1>14. Waiting(q) \subseteq Waiting(proc) \cup Held(f)
  <2>1. ASSUME NEW b \in (true + 1)..end PROVE b \in Held(f)
    <3>1. CASE b = end
      BY <1>12, <3>1 DEF Held
    <3>2. CASE b # end
      <4>5. true \in Nat /\ last \in Nat /\ end = last + 1
        BY <1>3
      <4>1. b - true \in 1..(last - true) /\ b = true + (b - true)
        BY <3>2, <4>5
      <4>2. arms[b - true] = b
        BY <1>10, <4>1
      <4>3. b - true \in DOMAIN arms
        BY <1>10, <4>1
      <4>4. b \in Range(arms)
        BY <4>2, <4>3 DEF Range
      <4> QED BY <1>12, <4>4 DEF Held
    <3> QED BY <3>1, <3>2
  <2> QED BY <1>9, <2>1
<1>15. /\ q.local_pseudos = proc.local_pseudos /\ SameBreak(proc, q)
  BY <1>4, <1>6, <1>7, <1>8 DEF SameContext, SameBreak
<1>16. Len(q.nodes) >= Len(proc.nodes)
  BY <1>2, <1>3, <1>8
<1> QED BY <1>1, <1>8, <1>12, <1>13, <1>14, <1>15, <1>16, EnterKeeps
-----------------------------------------------------------------------------
(* The code that follows a nested statement list. *)

(* What is known of the function in progress at the end of its list. *)
LEMMA AtEnd ==
    ASSUME IInv, stack # <<>>, NEW kind, AtListEnd(kind), kind # "function"
    PROVE  /\ Top.kind = kind /\ Len(stack) > 1 /\ FrameOK(proc, Top)
           /\ Len(PathOf(proc, scopes)) > 1
           /\ kind = "for" =>
                 /\ Len(PathOf(proc, scopes)) > 2
                 /\ IsVariable(scopes[PathOf(proc, scopes)[Len(PathOf(proc, scopes)) - 1]])
           /\ Current.label => Current.placed
           /\ kind \in {"loop", "for"} =>
                 /\ proc.current_break_scope \in 1..Len(scopes)
                 /\ Top.exit \in 1..Len(proc.nodes)
                 /\ Top.head \in Nat \ {0} /\ Top.head \in 1..Len(proc.nodes)
           /\ kind \notin {"loop", "for"} =>
                 /\ proc.current_break_target = Top.break_target
                 /\ proc.current_break_scope = Top.break_scope
           /\ kind # "if" => Held(Top) = {Top.exit}
<1> DEFINE n == Len(stack)
<1>1. Top.kind = kind /\ (Current.label => Current.placed)
  BY DEF AtListEnd, Complete
<1>2. n \in Nat \ {0} /\ Walking(proc, scopes, stack) /\ Top = stack[n] /\ Top \in FrameType
  BY Here
<1>3. FrameOK(proc, Top) /\ (Top.kind = "function" <=> n = 1)
  <2>1. n \in 1..Len(stack)
    BY <1>2
  <2>2. FrameOK(proc, stack[n]) /\ (stack[n].kind = "function" <=> n = 1)
    BY <1>2, <2>1 DEF Walking, FramesOK
  <2> QED BY <1>2, <2>2
<1>4. n > 1
  <2>1. n # 1
    BY <1>1, <1>3
  <2>2. n \in Nat /\ n # 0
    BY <1>2
  <2> HIDE DEF n
  <2> QED BY <2>1, <2>2
<1>5. /\ Depth(stack, n) = Len(PathOf(proc, scopes))
  BY <1>2 DEF Walking, DepthOK, PathOf
<1>6. /\ Depth(stack, n) \in Nat /\ Depth(stack, n) >= n
      /\ Depth(stack, n - 1) \in Nat
      /\ kind = "for" => Depth(stack, n) = Depth(stack, n - 1) + 2
  BY <1>1, <1>2, DepthStep
<1>7. Depth(stack, n - 1) >= n - 1
  <2>1. n - 1 \in Nat \ {0}
    BY <1>2, <1>4
  <2> HIDE DEF n
  <2> QED BY <2>1, DepthStep
<1>8. Len(PathOf(proc, scopes)) > 1 /\ (kind = "for" => Len(PathOf(proc, scopes)) > 2)
  <2> DEFINE d == Depth(stack, n)
             e == Depth(stack, n - 1)
  <2>1. /\ d \in Nat /\ e \in Nat /\ d >= n /\ e >= n - 1 /\ n \in Nat /\ n > 1
        /\ (kind = "for" => d = e + 2) /\ d = Len(PathOf(proc, scopes))
    BY <1>2, <1>4, <1>5, <1>6, <1>7
  <2> HIDE DEF d, e, n
  <2> QED BY <2>1
<1>9. BreakOKAt(proc, scopes, stack, n) /\ TargetOf(proc, stack, n) = proc.current_break_target
      /\ BreakScopeOf(proc, stack, n) = proc.current_break_scope
  BY <1>2 DEF Walking, BreakOK, TargetOf, BreakScopeOf
<1>10. kind \in {"loop", "for"} =>
          /\ proc.current_break_scope \in 1..Len(scopes)
          /\ Top.exit \in 1..Len(proc.nodes)
          /\ Top.head \in Nat \ {0} /\ Top.head \in 1..Len(proc.nodes)
  <2> SUFFICES ASSUME kind \in {"loop", "for"}
               PROVE  /\ proc.current_break_scope \in 1..Len(scopes)
                      /\ Top.exit \in 1..Len(proc.nodes)
                      /\ Top.head \in Nat \ {0} /\ Top.head \in 1..Len(proc.nodes)
    OBVIOUS
  <2>1. PICK k \in 1..Depth(stack, n) : proc.current_break_scope = PathOf(proc, scopes)[k]
    BY <1>1, <1>2, <1>9 DEF BreakOKAt
  <2>2. PathOf(proc, scopes)[k] \in 1..Len(scopes)
    BY <1>2, <1>5, WalkingTypes
  <2>3. Len(proc.nodes) \in Nat
    BY <1>2, WalkingTypes
  <2> QED BY <1>1, <1>2, <1>3, <2>1, <2>2, <2>3 DEF FrameOK, FrameType
<1>11. kind \notin {"loop", "for"} =>
          /\ proc.current_break_target = Top.break_target
          /\ proc.current_break_scope = Top.break_scope
  BY <1>1, <1>2, <1>9 DEF BreakOKAt
<1>12. kind # "if" => Held(Top) = {Top.exit}
  <2>1. kind # "if" => Top.arms = <<>>
    BY <1>1, <1>3 DEF FrameOK
  <2>2. kind # "if" => Range(Top.arms) = {}
    BY <2>1 DEF Range
  <2> QED BY <2>2 DEF Held
<1>13. kind = "for" => IsVariable(scopes[PathOf(proc, scopes)[Len(PathOf(proc, scopes)) - 1]])
  <2>1. n \in 1..Len(stack)
    BY <1>2
  <2>2. stack[n].kind = "for" => IsVariable(scopes[PathOf(proc, scopes)[Depth(stack, n) - 1]])
    BY <1>2, <2>1 DEF Walking, DepthOK, PathOf
  <2> QED BY <1>1, <1>2, <1>5, <2>2
<1> QED BY <1>1, <1>3, <1>4, <1>8, <1>10, <1>11, <1>12, <1>13

LEMMA PopKeeps ==
    ASSUME IInv, stack # <<>>, NEW kind, AtListEnd(kind), kind # "function",
           stack' = Pop, UNCHANGED scopes, CountersOK',
           ProcOK(proc'), Len(proc'.nodes) >= Len(proc.nodes), CursorOK(proc', scopes),
           Len(PathOf(proc', scopes)) =
               Len(PathOf(proc, scopes)) - (IF kind = "for" THEN 2 ELSE 1),
           \A i \in 1..Len(PathOf(proc', scopes)) :
               PathOf(proc', scopes)[i] = PathOf(proc, scopes)[i],
           proc'.current_break_target = Top.break_target,
           proc'.current_break_scope = Top.break_scope,
           Waiting(proc') \cap Held(Top) = {},
           Waiting(proc') \subseteq Waiting(proc)
    PROVE  IInv'
<1>1. /\ Walking(proc, scopes, stack) /\ stack \in Seq(FrameType) /\ Len(stack) \in Nat
      /\ Top = stack[Len(stack)] /\ ScopesOK(scopes) /\ PlacedOK(scopes)
      /\ Current = scopes[proc.current_scope]
  BY Here DEF IInv, StateOK
<1>2. Top.kind = kind /\ Len(stack) > 1 /\ (Current.label => Current.placed)
  BY AtEnd
<1>3. stack' = SubSeq(stack, 1, Len(stack) - 1)
  BY DEF Pop
<1>4. Walking(proc', scopes', stack')
  BY <1>1, <1>2, <1>3, PopStep, SMTT(40)
<1>5. HeldBy(stack) \subseteq HeldBy(stack') \cup Held(Top)
  BY <1>1, <1>2, <1>3, HeldPop
<1>6. "goto_backward_close" \notin Grammar => Kept(proc', scopes', stack')
  BY <1>5 DEF IInv, StateOK, Kept
<1>7. stack' # <<>>
  <2>1. Len(stack') = Len(stack) - 1
    BY <1>1, <1>2, <1>3
  <2>2. Len(stack') # 0
    BY <1>1, <1>2, <2>1
  <2> QED BY <2>2
<1> QED BY <1>1, <1>4, <1>6, <1>7 DEF IInv, StateOK

(* The scope of the list ends. *)
LEMMA EndOfScope ==
    ASSUME IInv, stack # <<>>, NEW kind, AtListEnd(kind), kind # "function"
    PROVE  LET q == EndScope(proc, proc.current_scope, Current)
           IN  /\ ProcOK(q) /\ SameBreak(proc, q) /\ Len(q.nodes) = Len(proc.nodes)
               /\ Waiting(q) \subseteq Waiting(proc)
               /\ CursorOK(q, scopes)
               /\ Len(PathOf(q, scopes)) = Len(PathOf(proc, scopes)) - 1
               /\ \A i \in 1..Len(PathOf(q, scopes)) :
                     PathOf(q, scopes)[i] = PathOf(proc, scopes)[i]
<1>1. /\ ScopesOK(scopes) /\ ProcOK(proc) /\ CursorOK(proc, scopes)
      /\ Current = scopes[proc.current_scope] /\ Len(PathOf(proc, scopes)) > 1
  BY Here, AtEnd
<1> QED BY <1>1, LeaveLemma

LEMMA EndDoStep ==
    ASSUME IInv, stack # <<>>, EndDo
    PROVE  IInv'
<1> DEFINE q == EndScope(proc, proc.current_scope, Current)
<1>1. /\ AtListEnd("do") /\ proc' = q /\ stack' = Pop /\ list' = "open"
      /\ UNCHANGED <<scopes, captured, stmts, failed>>
  BY DEF EndDo
<1>2. /\ ProcOK(q) /\ SameBreak(proc, q) /\ Len(q.nodes) = Len(proc.nodes)
      /\ Waiting(q) \subseteq Waiting(proc)
      /\ CursorOK(q, scopes)
      /\ Len(PathOf(q, scopes)) = Len(PathOf(proc, scopes)) - 1
      /\ \A i \in 1..Len(PathOf(q, scopes)) : PathOf(q, scopes)[i] = PathOf(proc, scopes)[i]
  BY <1>1, EndOfScope
<1> HIDE DEF q
<1>3. /\ Top.kind = "do" /\ FrameOK(proc, Top) /\ Held(Top) = {Top.exit}
      /\ proc.current_break_target = Top.break_target
      /\ proc.current_break_scope = Top.break_scope
  BY <1>1, AtEnd
<1>4. Waiting(q) \cap Held(Top) = {}
  BY <1>2, <1>3, WaitingNotZero DEF FrameOK
<1>5. CountersOK'
  BY <1>1 DEF IInv, CountersOK
<1>6. Len(proc.nodes) \in Nat
  BY Here
<1>7. /\ proc'.current_break_target = Top.break_target
      /\ proc'.current_break_scope = Top.break_scope
  BY <1>1, <1>2, <1>3 DEF SameBreak
<1>8. Len(proc'.nodes) >= Len(proc.nodes)
  BY <1>1, <1>2, <1>6
<1>9. Len(PathOf(proc', scopes)) =
         Len(PathOf(proc, scopes)) - (IF "do" = "for" THEN 2 ELSE 1)
  BY <1>1, <1>2
<1>10. UNCHANGED scopes /\ "do" # "function"
  BY <1>1
<1> QED BY <1>1, <1>2, <1>4, <1>5, <1>7, <1>8, <1>9, <1>10, PopKeeps

(* The end of a loop: its exit is started, the break target restored. *)
LEMMA EndLoopStep ==
    ASSUME IInv, stack # <<>>, EndLoop
    PROVE  IInv'
<1> DEFINE s == proc.current_break_scope
           q1 == EndScope(proc, proc.current_scope, Current)
           q2 == InstructClose(q1, q1.current_bb, s, scopes[s])
           q3 == InstructBr(q2, Top.head)
           q4 == StartBlock(q3, Top.exit)
<1>1. /\ AtListEnd("loop") /\ proc' = InLoop(q4, Top.break_target, Top.break_scope)
      /\ stack' = Pop /\ list' = "open"
      /\ UNCHANGED <<scopes, captured, stmts, failed>>
  BY DEF EndLoop, RestoreBreak, InLoop
<1>2. /\ ProcOK(q1) /\ SameBreak(proc, q1) /\ Len(q1.nodes) = Len(proc.nodes)
      /\ Waiting(q1) \subseteq Waiting(proc)
      /\ CursorOK(q1, scopes)
      /\ Len(PathOf(q1, scopes)) = Len(PathOf(proc, scopes)) - 1
      /\ \A i \in 1..Len(PathOf(q1, scopes)) : PathOf(q1, scopes)[i] = PathOf(proc, scopes)[i]
  BY <1>1, EndOfScope
<1> HIDE DEF q1
<1>3. /\ s \in 1..Len(scopes) /\ Held(Top) = {Top.exit}
      /\ Top.exit \in 1..Len(proc.nodes) /\ Top.head \in Nat \ {0}
  BY <1>1, AtEnd
<1>4. /\ s \in Nat /\ scopes[s] \in ScopeType /\ Top \in FrameType /\ Len(proc.nodes) \in Nat
  BY <1>3, Here
<1>5. /\ ProcOK(q2) /\ SameContext(q1, q2) /\ Len(q2.nodes) = Len(q1.nodes)
      /\ Waiting(q2) \subseteq Waiting(q1)
  <2>1. ProcOK(q1) /\ q1.current_bb \in 1..Len(q1.nodes)
    BY <1>2 DEF ProcOK
  <2>2. /\ ProcOK(q2) /\ SameContext(q1, q2) /\ Len(q2.nodes) = Len(q1.nodes)
        /\ Waiting(q2) \subseteq Waiting(q1) \cup ({q1.current_bb} \ {q1.current_bb})
    BY <1>4, <2>1, InstructCloseLemma
  <2> QED BY <2>2
<1> HIDE DEF q2
<1>6. /\ ProcOK(q3) /\ SameContext(q2, q3) /\ Len(q3.nodes) >= Len(q2.nodes)
      /\ Waiting(q3) \subseteq Waiting(q2)
  BY <1>3, <1>5, InstructBrLemma
<1> HIDE DEF q3
<1>7. Len(q3.nodes) \in Nat
  <2>1. q3 \in ProcType
    BY <1>6 DEF ProcOK
  <2> QED BY <2>1 DEF ProcType
<1>8. Top.exit \in 1..Len(q3.nodes)
  BY <1>2, <1>3, <1>4, <1>5, <1>6, <1>7
<1>9. /\ ProcOK(q4) /\ SameContext(q3, q4) /\ Len(q4.nodes) = Len(q3.nodes)
      /\ Waiting(q4) \subseteq Waiting(q3) \ {Top.exit}
  BY <1>6, <1>8, StartBlockLemma
<1> HIDE DEF q4
<1>10. /\ ProcOK(proc') /\ proc'.nodes = q4.nodes
       /\ proc'.current_scope = q4.current_scope /\ proc'.local_pseudos = q4.local_pseudos
       /\ proc'.current_break_target = Top.break_target
       /\ proc'.current_break_scope = Top.break_scope
       /\ Waiting(proc') = Waiting(q4)
  <2>1. Top.break_target \in Nat /\ Top.break_scope \in Nat
    BY <1>4 DEF FrameType
  <2>2. ProcOK(q4) /\ proc' = InLoop(q4, Top.break_target, Top.break_scope)
    BY <1>1, <1>9
  <2> QED BY <2>1, <2>2, InLoopLemma
<1>11. proc'.current_scope = q1.current_scope /\ proc'.local_pseudos = q1.local_pseudos
  BY <1>5, <1>6, <1>9, <1>10 DEF SameContext
<1>12. CursorOK(proc', scopes) /\ PathOf(proc', scopes) = PathOf(q1, scopes)
  BY <1>2, <1>11 DEF CursorOK, PathOf
<1>13. /\ Waiting(proc') \subseteq Waiting(proc) /\ Waiting(proc') \cap Held(Top) = {}
  BY <1>2, <1>3, <1>5, <1>6, <1>9, <1>10
<1>14. Len(proc'.nodes) >= Len(proc.nodes)
  BY <1>2, <1>4, <1>5, <1>6, <1>7, <1>9, <1>10
<1>15. CountersOK'
  BY <1>1 DEF IInv, CountersOK
<1>16. Len(PathOf(proc', scopes)) =
         Len(PathOf(proc, scopes)) - (IF "loop" = "for" THEN 2 ELSE 1)
  BY <1>2, <1>12
<1>17. UNCHANGED scopes /\ "loop" # "function"
  BY <1>1
<1> QED BY <1>1, <1>2, <1>10, <1>12, <1>13, <1>14, <1>15, <1>16, <1>17, PopKeeps
(* The end of a numeric for: the scope of its variable ends as well. *)
LEMMA EndForNumStep ==
    ASSUME IInv, stack # <<>>, EndForNum
    PROVE  IInv'
<1> DEFINE s == proc.current_break_scope
           q1 == EndScope(proc, proc.current_scope, Current)
           q2 == InstructClose(q1, q1.current_bb, s, scopes[s])
           q3 == InstructBr(q2, Top.head)
           q4 == EndScope(q3, q3.current_scope, scopes[q3.current_scope])
           q5 == StartBlock(q4, Top.exit)
<1>1. /\ AtListEnd("for") /\ stack' = Pop /\ list' = "open"
      /\ proc' = RestoreBreak(StartBlock(EndScope(q3, q1.current_scope,
                                                  scopes[q1.current_scope]), Top.exit))
      /\ UNCHANGED <<scopes, captured, stmts, failed>>
  BY DEF EndForNum
<1>2. /\ ProcOK(q1) /\ SameBreak(proc, q1) /\ Len(q1.nodes) = Len(proc.nodes)
      /\ Waiting(q1) \subseteq Waiting(proc)
      /\ CursorOK(q1, scopes)
      /\ Len(PathOf(q1, scopes)) = Len(PathOf(proc, scopes)) - 1
      /\ \A i \in 1..Len(PathOf(q1, scopes)) : PathOf(q1, scopes)[i] = PathOf(proc, scopes)[i]
  BY <1>1, EndOfScope
<1> HIDE DEF q1
<1>3. /\ s \in 1..Len(scopes) /\ Held(Top) = {Top.exit} /\ Len(PathOf(proc, scopes)) > 2
      /\ Top.exit \in 1..Len(proc.nodes) /\ Top.head \in Nat \ {0}
  BY <1>1, AtEnd
<1>4. /\ s \in Nat /\ scopes[s] \in ScopeType /\ Top \in FrameType /\ Len(proc.nodes) \in Nat
      /\ ScopesOK(scopes)
  BY <1>3, Here
<1>4a. Len(PathOf(proc, scopes)) \in Nat
  BY Here, WalkingTypes
<1>5. /\ ProcOK(q2) /\ SameContext(q1, q2) /\ Len(q2.nodes) = Len(q1.nodes)
      /\ Waiting(q2) \subseteq Waiting(q1)
  <2>1. ProcOK(q1) /\ q1.current_bb \in 1..Len(q1.nodes)
    BY <1>2 DEF ProcOK
  <2>2. /\ ProcOK(q2) /\ SameContext(q1, q2) /\ Len(q2.nodes) = Len(q1.nodes)
        /\ Waiting(q2) \subseteq Waiting(q1) \cup ({q1.current_bb} \ {q1.current_bb})
    BY <1>4, <2>1, InstructCloseLemma
  <2> QED BY <2>2
<1> HIDE DEF q2
<1>6. /\ ProcOK(q3) /\ SameContext(q2, q3) /\ Len(q3.nodes) >= Len(q2.nodes)
      /\ Waiting(q3) \subseteq Waiting(q2)
  BY <1>3, <1>5, InstructBrLemma
<1> HIDE DEF q3
<1>7. Len(q3.nodes) \in Nat
  <2>1. q3 \in ProcType
    BY <1>6 DEF ProcOK
  <2> QED BY <2>1 DEF ProcType
<1>8. /\ q3.current_scope = q1.current_scope /\ CursorOK(q3, scopes)
      /\ PathOf(q3, scopes) = PathOf(q1, scopes)
  <2>1. q3.current_scope = q1.current_scope /\ q3.local_pseudos = q1.local_pseudos
    BY <1>5, <1>6 DEF SameContext
  <2> QED BY <1>2, <2>1 DEF CursorOK, PathOf
<1>9. /\ ProcOK(q4) /\ SameBreak(q3, q4) /\ Len(q4.nodes) = Len(q3.nodes)
      /\ Waiting(q4) \subseteq Waiting(q3) /\ CursorOK(q4, scopes)
      /\ Len(PathOf(q4, scopes)) = Len(PathOf(q3, scopes)) - 1
      /\ \A i \in 1..Len(PathOf(q4, scopes)) : PathOf(q4, scopes)[i] = PathOf(q3, scopes)[i]
  <2>1. Len(PathOf(q3, scopes)) > 1
    BY <1>2, <1>3, <1>4a, <1>8
  <2>2. ScopesOK(scopes) /\ ProcOK(q3) /\ CursorOK(q3, scopes)
    BY <1>4, <1>6, <1>8
  <2> QED BY <2>1, <2>2, LeaveLemma
<1>9a. proc' = InLoop(q5, Top.break_target, Top.break_scope)
  BY <1>1, <1>8 DEF RestoreBreak, InLoop
<1> HIDE DEF q4
<1>10. Top.exit \in 1..Len(q4.nodes)
  BY <1>2, <1>3, <1>4, <1>5, <1>6, <1>7, <1>9
<1>11. /\ ProcOK(q5) /\ SameContext(q4, q5) /\ Len(q5.nodes) = Len(q4.nodes)
       /\ Waiting(q5) \subseteq Waiting(q4) \ {Top.exit}
  BY <1>9, <1>10, StartBlockLemma
<1> HIDE DEF q5
<1>12. /\ ProcOK(proc') /\ proc'.nodes = q5.nodes
       /\ proc'.current_scope = q5.current_scope /\ proc'.local_pseudos = q5.local_pseudos
       /\ proc'.current_break_target = Top.break_target
       /\ proc'.current_break_scope = Top.break_scope
       /\ Waiting(proc') = Waiting(q5)
  <2>1. Top.break_target \in Nat /\ Top.break_scope \in Nat
    BY <1>4 DEF FrameType
  <2>2. ProcOK(q5) /\ proc' = InLoop(q5, Top.break_target, Top.break_scope)
    BY <1>9a, <1>11
  <2> QED BY <2>1, <2>2, InLoopLemma
<1>13. proc'.current_scope = q4.current_scope /\ proc'.local_pseudos = q4.local_pseudos
  BY <1>11, <1>12 DEF SameContext
<1>14. CursorOK(proc', scopes) /\ PathOf(proc', scopes) = PathOf(q4, scopes)
  BY <1>9, <1>13 DEF CursorOK, PathOf
<1>15. /\ Waiting(proc') \subseteq Waiting(proc) /\ Waiting(proc') \cap Held(Top) = {}
  BY <1>2, <1>3, <1>5, <1>6, <1>9, <1>11, <1>12
<1>16. Len(proc'.nodes) >= Len(proc.nodes)
  BY <1>2, <1>4, <1>5, <1>6, <1>7, <1>9, <1>11, <1>12
<1>17. CountersOK'
  BY <1>1 DEF IInv, CountersOK
<1>18. Len(PathOf(proc', scopes)) =
         Len(PathOf(proc, scopes)) - (IF "for" = "for" THEN 2 ELSE 1)
  <2>1. Len(PathOf(proc', scopes)) = Len(PathOf(proc, scopes)) - 2
    BY <1>2, <1>4a, <1>8, <1>9, <1>14
  <2> QED BY <2>1
<1>19. \A i \in 1..Len(PathOf(proc', scopes)) :
          PathOf(proc', scopes)[i] = PathOf(proc, scopes)[i]
  <2>1. Len(PathOf(q4, scopes)) \in Nat /\ Len(PathOf(q1, scopes)) = Len(PathOf(q4, scopes)) + 1
    BY <1>2, <1>3, <1>4a, <1>8, <1>9
  <2> QED BY <1>2, <1>8, <1>9, <1>14, <2>1
<1>20. UNCHANGED scopes /\ "for" # "function"
  BY <1>1
<1> QED BY <1>1, <1>12, <1>14, <1>15, <1>16, <1>17, <1>18, <1>19, <1>20, PopKeeps

(* The end of an arm of an if: its scope ends, and it branches past the if. *)
LEMMA EndedArmLemma ==
    ASSUME IInv, stack # <<>>, AtListEnd("if")
    PROVE  LET q == EndedArm
           IN  /\ ProcOK(q) /\ SameBreak(proc, q) /\ Len(q.nodes) >= Len(proc.nodes)
               /\ Len(q.nodes) \in Nat
               /\ Waiting(q) \subseteq Waiting(proc)
               /\ CursorOK(q, scopes)
               /\ Len(PathOf(q, scopes)) = Len(PathOf(proc, scopes)) - 1
               /\ \A i \in 1..Len(PathOf(q, scopes)) :
                     PathOf(q, scopes)[i] = PathOf(proc, scopes)[i]
<1> DEFINE q1 == EndScope(proc, proc.current_scope, Current)
           q2 == InstructBr(q1, Top.exit)
<1>1. EndedArm = IF IsBlockTerminated(q1, q1.current_bb) THEN q1 ELSE q2
  BY DEF EndedArm
<1>2. /\ ProcOK(q1) /\ SameBreak(proc, q1) /\ Len(q1.nodes) = Len(proc.nodes)
      /\ Waiting(q1) \subseteq Waiting(proc)
      /\ CursorOK(q1, scopes)
      /\ Len(PathOf(q1, scopes)) = Len(PathOf(proc, scopes)) - 1
      /\ \A i \in 1..Len(PathOf(q1, scopes)) : PathOf(q1, scopes)[i] = PathOf(proc, scopes)[i]
  BY EndOfScope
<1> HIDE DEF q1
<1>3. Len(proc.nodes) \in Nat
  BY Here
<1>4. CASE EndedArm = q1
  BY <1>2, <1>3, <1>4
<1>5. CASE EndedArm = q2
  <2>1. Top.exit \in Nat \ {0}
    <3>1. Top.kind = "if" /\ FrameOK(proc, Top)
      BY AtEnd
    <3> QED BY <1>3, <3>1 DEF FrameOK
  <2>2. /\ ProcOK(q2) /\ SameContext(q1, q2) /\ Len(q2.nodes) >= Len(q1.nodes)
        /\ Waiting(q2) \subseteq Waiting(q1)
    BY <1>2, <2>1, InstructBrLemma
  <2> HIDE DEF q2
  <2>3. q2 \in ProcType
    BY <2>2 DEF ProcOK
  <2>4. Len(q2.nodes) \in Nat
    BY <2>3 DEF ProcType
  <2>5. q2.current_scope = q1.current_scope /\ q2.local_pseudos = q1.local_pseudos
        /\ SameBreak(proc, q2)
    BY <1>2, <2>2 DEF SameContext, SameBreak
  <2>6. CursorOK(q2, scopes) /\ PathOf(q2, scopes) = PathOf(q1, scopes)
    BY <1>2, <2>5 DEF CursorOK, PathOf
  <2>7. Len(q2.nodes) >= Len(proc.nodes) /\ Waiting(q2) \subseteq Waiting(proc)
    BY <1>2, <1>3, <2>2, <2>4
  <2> QED BY <1>2, <1>5, <2>2, <2>4, <2>5, <2>6, <2>7
<1> QED BY <1>1, <1>4, <1>5

(* The end of an if: no arm is left, its exit is started. *)
LEMMA EndIfStep ==
    ASSUME IInv, stack # <<>>, EndIf
    PROVE  IInv'
<1> DEFINE q == EndedArm
<1>1. /\ AtListEnd("if") /\ Top.arms = <<>> /\ proc' = StartBlock(q, Top.exit)
      /\ stack' = Pop /\ list' = "open"
      /\ UNCHANGED <<scopes, captured, stmts, failed>>
  BY DEF EndIf
<1>2. /\ ProcOK(q) /\ SameBreak(proc, q) /\ Len(q.nodes) >= Len(proc.nodes)
      /\ Len(q.nodes) \in Nat
      /\ Waiting(q) \subseteq Waiting(proc)
      /\ CursorOK(q, scopes)
      /\ Len(PathOf(q, scopes)) = Len(PathOf(proc, scopes)) - 1
      /\ \A i \in 1..Len(PathOf(q, scopes)) : PathOf(q, scopes)[i] = PathOf(proc, scopes)[i]
  BY <1>1, EndedArmLemma
<1> HIDE DEF q
<1>3. /\ Top.kind = "if" /\ FrameOK(proc, Top)
      /\ proc.current_break_target = Top.break_target
      /\ proc.current_break_scope = Top.break_scope
  BY <1>1, AtEnd
<1>4. Len(proc.nodes) \in Nat
  BY Here
<1>5. Top.exit \in 1..Len(q.nodes)
  BY <1>2, <1>3, <1>4 DEF FrameOK
<1>6. Held(Top) = {Top.exit}
  <2>1. Range(Top.arms) = {}
    BY <1>1 DEF Range
  <2> QED BY <2>1 DEF Held
<1>7. /\ ProcOK(proc') /\ SameContext(q, proc') /\ Len(proc'.nodes) = Len(q.nodes)
      /\ Waiting(proc') \subseteq Waiting(q) \ {Top.exit}
  BY <1>1, <1>2, <1>5, StartBlockLemma
<1>8. CursorOK(proc', scopes) /\ PathOf(proc', scopes) = PathOf(q, scopes)
  BY <1>2, <1>7 DEF CursorOK, PathOf, SameContext
<1>9. /\ Waiting(proc') \subseteq Waiting(proc) /\ Waiting(proc') \cap Held(Top) = {}
  BY <1>2, <1>6, <1>7
<1>10. Len(proc'.nodes) >= Len(proc.nodes)
  BY <1>2, <1>7
<1>11. CountersOK'
  BY <1>1 DEF IInv, CountersOK
<1>12. Len(PathOf(proc', scopes)) =
         Len(PathOf(proc, scopes)) - (IF "if" = "for" THEN 2 ELSE 1)
  BY <1>2, <1>8
<1>13. UNCHANGED scopes /\ "if" # "function"
  BY <1>1
<1>14. /\ proc'.current_break_target = Top.break_target
       /\ proc'.current_break_scope = Top.break_scope
  BY <1>2, <1>3, <1>7 DEF SameContext, SameBreak
<1> QED BY <1>1, <1>2, <1>7, <1>8, <1>9, <1>10, <1>11, <1>12, <1>13, <1>14, PopKeeps
(* A scope below the current scope of q. *)
LEMMA EnterBelow ==
    ASSUME ScopesOK(scopes), PlacedOK(scopes), NEW q, ProcOK(q), CursorOK(q, scopes),
           NEW locals \in LocalLists, NEW label \in BOOLEAN
    PROVE  LET path == Append(PathOf(q, scopes), NextScope(scopes))
               new == NewScope(q, path, locals, label)
               r == StartScope(q, NextScope(scopes), new)
               sd == Append(scopes, new)
           IN  /\ ProcOK(r) /\ SameBreak(q, r) /\ r.nodes = q.nodes
               /\ Waiting(r) = Waiting(q)
               /\ ScopesOK(sd) /\ MoreScopes(scopes, sd) /\ CursorOK(r, sd)
               /\ PathOf(r, sd) = path /\ PlacedOK(sd)
<1> DEFINE m == NextScope(scopes)
           t == q.current_scope
           path == Append(PathOf(q, scopes), m)
           new == NewScope(q, path, locals, label)
           sd == Append(scopes, new)
           r == StartScope(q, m, new)
           n == scopes[t].base + Len(scopes[t].locals)
<1>1. /\ scopes \in Seq(ScopeType) /\ t \in 1..Len(scopes) /\ scopes[t] \in ScopeType
      /\ q.local_pseudos = 0..(scopes[t].base + Len(scopes[t].locals) - 1)
      /\ m \in Nat \ {0} /\ PathOf(q, scopes) = scopes[t].path
  BY DEF ScopesOK, CursorOK, NextScope, PathOf
<1>2. /\ scopes[t].base \in Nat /\ Len(scopes[t].locals) \in Nat
      /\ scopes[t].path \in Seq(Nat \ {0})
  BY <1>1, ScopeFields
<1>3. n \in Nat
  BY <1>2
<1>4. q.local_pseudos = Below(n)
  BY <1>1, <1>2, SMTT(40) DEF Below
<1>5. path \in Seq(Nat \ {0}) /\ path = Append(scopes[t].path, m)
  <2> HIDE DEF m, t
  <2> QED BY <1>1, <1>2
<1>6. locals \in Seq({"plain", "escaped"})
  BY LocalsAssumption
<1> HIDE DEF path, n
<1>7. /\ new \in ScopeType /\ new.path = path /\ new.base = n
      /\ new.label_block = NoBlock /\ ~new.placed
  <2>1. path \in Seq(Nat \ {0})
    BY <1>5
  <2> HIDE DEF m, t
  <2> QED BY <1>3, <1>4, <1>6, <2>1, NewScopeLemma
<1> HIDE DEF new
<1>8. PlacedOK(sd)
  BY <1>1, <1>7, PlacedPush
<1>9. OnTop(q, scopes, t)
  BY <1>1 DEF OnTop
<1>10. /\ new.path = Append(scopes[t].path, m)
       /\ new.base = scopes[t].base + Len(scopes[t].locals)
       /\ new.label_block = 0
  BY <1>5, <1>7 DEF n, NoBlock
<1>11. /\ ProcOK(r) /\ SameBreak(q, r) /\ r.nodes = q.nodes /\ Waiting(r) = Waiting(q)
       /\ ScopesOK(sd) /\ MoreScopes(scopes, sd) /\ CursorOK(r, sd)
       /\ PathOf(r, sd) = new.path
  <2>1. t \in 1..Len(scopes) /\ new \in ScopeType
    BY <1>1, <1>7
  <2> HIDE DEF t
  <2> QED BY <1>9, <1>10, <2>1, EnterLemma
<1> HIDE DEF m, r, sd
<1> QED BY <1>7, <1>8, <1>11 DEF m, r, sd, new, path

LEMMA HeldReplace ==
    ASSUME NEW st \in Seq(FrameType), NEW su \in Seq(FrameType), NEW X,
           Len(su) = Len(st), \A i \in 1..(Len(st) - 1) : su[i] = st[i],
           Held(st[Len(st)]) \subseteq Held(su[Len(st)]) \cup X
    PROVE  HeldBy(st) \subseteq HeldBy(su) \cup X
<1>1. DOMAIN st = 1..Len(st) /\ DOMAIN su = 1..Len(st) /\ Len(st) \in Nat
  OBVIOUS
<1>2. ASSUME NEW i \in 1..Len(st) PROVE Held(st[i]) \subseteq HeldBy(su) \cup X
  <2>1. Held(su[i]) \subseteq HeldBy(su)
    BY <1>1 DEF HeldBy
  <2>2. CASE i = Len(st)
    BY <2>1, <2>2
  <2>3. CASE i # Len(st)
    <3>1. i \in 1..(Len(st) - 1)
      BY <1>1, <2>3
    <3> QED BY <2>1, <3>1
  <2> QED BY <2>2, <2>3
<1> QED BY <1>1, <1>2 DEF HeldBy

(* The frame of an if whose next arm was started. *)
LEMMA TailLemma ==
    ASSUME NEW f, f \in FrameType, f.arms # <<>>
    PROVE  LET g == [f EXCEPT !.arms = Tail(@)]
           IN  /\ g \in FrameType /\ SameFrame(f, g) /\ g.arms = Tail(f.arms)
               /\ Head(f.arms) \in Nat \ {0}
               /\ \E k \in 1..Len(f.arms) : f.arms[k] = Head(f.arms)
               /\ \A k \in 1..Len(g.arms) : \E j \in 1..Len(f.arms) : g.arms[k] = f.arms[j]
               /\ Held(f) \subseteq Held(g) \cup {Head(f.arms)}
<1> DEFINE a == f.arms
           b == Tail(a)
           g == [f EXCEPT !.arms = Tail(@)]
<1>1. a \in Seq(Nat \ {0}) /\ a # <<>>
  BY DEF FrameType
<1>2. /\ b \in Seq(Nat \ {0}) /\ Len(a) \in Nat /\ Len(a) >= 1 /\ Len(b) = Len(a) - 1
      /\ Head(a) = a[1] /\ Head(a) \in Nat \ {0}
      /\ \A k \in 1..Len(b) : b[k] = a[k + 1]
  <2> HIDE DEF a
  <2> QED BY <1>1
<1>3. g = [f EXCEPT !.arms = b]
  BY DEF FrameType
<1>4. g \in FrameType /\ g.arms = b /\ SameFrame(f, g)
  <2> HIDE DEF b
  <2> QED BY <1>2, <1>3 DEF FrameType, SameFrame
<1> HIDE DEF g
<1>5. DOMAIN a = 1..Len(a) /\ DOMAIN b = 1..Len(b)
  <2> HIDE DEF a, b
  <2> QED BY <1>1, <1>2
<1> HIDE DEF b
<1>6. \A k \in 1..Len(b) : k + 1 \in 1..Len(a)
  <2> HIDE DEF a
  <2> QED BY <1>2
<1>7. ASSUME NEW k \in 1..Len(a), k # 1 PROVE a[k] \in Range(b)
  <2>1. k - 1 \in 1..Len(b) /\ b[k - 1] = a[k]
    <3> HIDE DEF a
    <3>1. k - 1 \in 1..Len(b)
      BY <1>2, <1>7
    <3>2. b[k - 1] = a[(k - 1) + 1] /\ (k - 1) + 1 = k
      BY <1>2, <3>1
    <3> QED BY <3>1, <3>2
  <2> QED BY <1>5, <2>1 DEF Range
<1>8. Range(a) \subseteq Range(b) \cup {Head(a)}
  <2> HIDE DEF a
  <2> QED BY <1>2, <1>5, <1>7 DEF Range
<1>9. Held(f) \subseteq Held(g) \cup {Head(a)}
  BY <1>4, <1>8 DEF Held, SameFrame
<1>10. \E k \in 1..Len(a) : a[k] = Head(a)
  <2>1. 1 \in 1..Len(a)
    BY <1>2
  <2> QED BY <1>2, <2>1
<1>11. \A k \in 1..Len(b) : \E j \in 1..Len(a) : b[k] = a[j]
  BY <1>2, <1>6
<1> QED BY <1>2, <1>4, <1>9, <1>10, <1>11 DEF g, b

(* The next arm of an if. *)
LEMMA NextArmStep ==
    ASSUME IInv, stack # <<>>, NEW locals \in LocalLists, NEW label \in BOOLEAN,
           NextArm(locals, label)
    PROVE  IInv'
<1> DEFINE e == EndedArm
           b == Head(Top.arms)
           q == StartBlock(e, b)
           n == Len(stack)
           g == [Top EXCEPT !.arms = Tail(@)]
           path == Append(PathOf(e, scopes), NextScope(scopes))
           new == NewScope(q, path, locals, label)
<1>1. /\ AtListEnd("if") /\ Top.arms # <<>>
      /\ proc' = StartScope(q, NextScope(scopes), new)
      /\ scopes' = Append(scopes, new) /\ list' = "empty"
      /\ UNCHANGED <<captured, stmts, failed>>
  BY DEF NextArm, Enter, NextScope, PathOf
<1>2. /\ ProcOK(e) /\ SameBreak(proc, e) /\ Len(e.nodes) >= Len(proc.nodes)
      /\ Len(e.nodes) \in Nat
      /\ Waiting(e) \subseteq Waiting(proc)
      /\ CursorOK(e, scopes)
      /\ Len(PathOf(e, scopes)) = Len(PathOf(proc, scopes)) - 1
      /\ \A i \in 1..Len(PathOf(e, scopes)) : PathOf(e, scopes)[i] = PathOf(proc, scopes)[i]
  BY <1>1, EndedArmLemma
<1> HIDE DEF e
<1>3. /\ Top.kind = "if" /\ FrameOK(proc, Top) /\ (Current.label => Current.placed)
  BY <1>1, AtEnd
<1>4. /\ Len(proc.nodes) \in Nat /\ Top = stack[n] /\ Top \in FrameType /\ n \in Nat \ {0}
      /\ stack \in Seq(FrameType) /\ ScopesOK(scopes) /\ scopes \in Seq(ScopeType)
      /\ Walking(proc, scopes, stack) /\ Current = scopes[proc.current_scope]
      /\ PlacedOK(scopes)
  BY Here DEF IInv, StateOK
<1>5. /\ g \in FrameType /\ SameFrame(Top, g) /\ g.arms = Tail(Top.arms)
      /\ b \in Nat \ {0} /\ \E k \in 1..Len(Top.arms) : Top.arms[k] = b
      /\ \A k \in 1..Len(g.arms) : \E j \in 1..Len(Top.arms) : g.arms[k] = Top.arms[j]
      /\ Held(Top) \subseteq Held(g) \cup {b}
  <2>1. Top \in FrameType /\ Top.arms # <<>>
    BY <1>1, <1>4
  <2> QED BY <2>1, TailLemma
<1>6. stack' = [stack EXCEPT ![n] = g]
  BY DEF NextArm
<1> HIDE DEF g, b
<1>7. b \in 1..Len(e.nodes)
  <2>1. b \in 1..Len(proc.nodes)
    BY <1>3, <1>5 DEF FrameOK
  <2> QED BY <1>2, <1>4, <2>1
<1>8. /\ ProcOK(q) /\ SameContext(e, q) /\ Len(q.nodes) = Len(e.nodes)
      /\ Waiting(q) \subseteq Waiting(e) \ {b}
  BY <1>2, <1>7, StartBlockLemma
<1> HIDE DEF q
<1>9. CursorOK(q, scopes) /\ PathOf(q, scopes) = PathOf(e, scopes)
  BY <1>2, <1>8 DEF CursorOK, PathOf, SameContext
<1>10. /\ ProcOK(proc') /\ SameBreak(q, proc') /\ proc'.nodes = q.nodes
       /\ Waiting(proc') = Waiting(q)
       /\ ScopesOK(scopes') /\ MoreScopes(scopes, scopes') /\ CursorOK(proc', scopes')
       /\ PathOf(proc', scopes') = path /\ PlacedOK(scopes')
  BY <1>1, <1>4, <1>8, <1>9, EnterBelow
<1> HIDE DEF new
<1>11. /\ PathOf(proc, scopes) \in Seq(Nat \ {0}) /\ Len(PathOf(proc, scopes)) \in Nat
       /\ Len(PathOf(proc, scopes)) # 0 /\ PathOf(e, scopes) \in Seq(Nat \ {0})
  <2>1. scopes[e.current_scope] \in ScopeType
    BY <1>2, <1>4 DEF CursorOK
  <2>2. PathOf(e, scopes) \in Seq(Nat \ {0})
    BY <2>1 DEF ScopeType, PathOf
  <2> QED BY <1>4, <2>2, WalkingTypes
<1>12. /\ Len(PathOf(proc', scopes')) = Len(PathOf(proc, scopes))
       /\ \A i \in 1..(Len(PathOf(proc, scopes)) - 1) :
             PathOf(proc', scopes')[i] = PathOf(proc, scopes)[i]
  <2>1. /\ Len(path) = Len(PathOf(e, scopes)) + 1
        /\ \A i \in 1..Len(PathOf(e, scopes)) : path[i] = PathOf(e, scopes)[i]
    BY <1>11
  <2> HIDE DEF path
  <2> QED BY <1>2, <1>10, <1>11, <2>1
<1>13. /\ stack' \in Seq(FrameType) /\ Len(stack') = n /\ stack'[n] = g
       /\ \A i \in 1..(n - 1) : stack'[i] = stack[i]
  BY <1>4, <1>5, <1>6
<1>14. FrameOK(proc', g)
  <2>1. g.kind = "if" /\ g.exit = Top.exit
    BY <1>3, <1>5 DEF SameFrame
  <2>2. Len(proc'.nodes) \in Nat /\ Len(proc'.nodes) >= Len(proc.nodes)
    BY <1>2, <1>8, <1>10
  <2>3. \A k \in 1..Len(g.arms) : g.arms[k] \in 1..Len(proc.nodes)
    BY <1>3, <1>5 DEF FrameOK
  <2>4. Top.exit \in 1..Len(proc.nodes)
    BY <1>3 DEF FrameOK
  <2> QED BY <1>4, <2>1, <2>2, <2>3, <2>4, SMTT(40) DEF FrameOK
<1>15. \A i \in 1..n : SameFrame(stack[i], stack'[i])
  <2> SUFFICES ASSUME NEW i \in 1..n PROVE SameFrame(stack[i], stack'[i])
    OBVIOUS
  <2>1. CASE i = n
    BY <1>4, <1>5, <1>13, <2>1
  <2>2. CASE i # n
    <3>1. i \in 1..(n - 1)
      BY <1>4, <2>2
    <3> QED BY <1>13, <3>1 DEF SameFrame
  <2> QED BY <2>1, <2>2
<1>16. Walking(proc', scopes', stack')
  <2>1. SameBreak(proc, proc') /\ Len(proc'.nodes) >= Len(proc.nodes)
    BY <1>2, <1>8, <1>10 DEF SameContext, SameBreak
  <2>2. scopes[proc.current_scope].label => scopes[proc.current_scope].placed
    BY <1>3, <1>4
  <2>3. stack[n].kind = "if" /\ FrameOK(proc', stack'[n])
    BY <1>3, <1>4, <1>13, <1>14
  <2> QED BY <1>4, <1>10, <1>12, <1>13, <1>15, <2>1, <2>2, <2>3, ArmStep
<1>17. HeldBy(stack) \subseteq HeldBy(stack') \cup {b}
  BY <1>4, <1>5, <1>13, HeldReplace
<1>18. OwedLabels(scopes) \subseteq OwedLabels(scopes')
  BY <1>4, <1>10, OwedGrow DEF ScopesOK
<1>19. "goto_backward_close" \notin Grammar => Kept(proc', scopes', stack')
  <2>1. Waiting(proc') \subseteq Waiting(proc) \ {b}
    BY <1>2, <1>8, <1>10
  <2> QED BY <1>17, <1>18, <2>1 DEF IInv, StateOK, Kept
<1>20. CountersOK'
  BY <1>1 DEF IInv, CountersOK
<1>21. stack' # <<>>
  BY <1>4, <1>13
<1> QED BY <1>10, <1>16, <1>19, <1>20, <1>21 DEF IInv, StateOK
(* At the end of the function its scope is the only one in progress, and   *)
(* no label is owed: a label to come would be one of that scope.           *)
LEMMA AtEndOfFunction ==
    ASSUME IInv, stack # <<>>, AtListEnd("function")
    PROVE  /\ Len(stack) = 1 /\ FrameOK(proc, Top) /\ Top.kind = "function"
           /\ Parent(Current) = NoScope
           /\ OwedLabels(scopes) \subseteq {0}
           /\ HeldBy(stack) \subseteq {0}
           /\ proc.current_break_target = NoBlock
<1> DEFINE n == Len(stack)
           path == PathOf(proc, scopes)
<1>1. Top.kind = "function" /\ (Current.label => Current.placed)
  BY DEF AtListEnd, Complete
<1>2. /\ n \in Nat \ {0} /\ Walking(proc, scopes, stack) /\ Top = stack[n]
      /\ Current = scopes[proc.current_scope] /\ Current.path = path
      /\ stack \in Seq(FrameType) /\ scopes \in Seq(ScopeType)
  BY Here
<1>3. FrameOK(proc, Top) /\ n = 1
  <2>1. n \in 1..Len(stack)
    BY <1>2
  <2>2. FrameOK(proc, stack[n]) /\ (stack[n].kind = "function" <=> n = 1)
    BY <1>2, <2>1 DEF Walking, FramesOK
  <2> QED BY <1>1, <1>2, <2>2
<1>4. Depth(stack, 1) = 1
  <2>1. Fors(stack, 1) = {}
    BY <1>1, <1>2, <1>3 DEF Fors
  <2> QED BY <2>1, FS_EmptySet DEF Depth
<1>5. Len(path) = 1
  BY <1>2, <1>3, <1>4 DEF Walking, DepthOK, PathOf
<1>6. path[1] = proc.current_scope
  BY <1>2, <1>5, WalkingTypes
<1>7. Parent(Current) = NoScope
  BY <1>2, <1>5 DEF Parent
<1>8. ASSUME NEW s \in 1..Len(scopes), ~scopes[s].placed
      PROVE  scopes[s].label_block = 0
  <2>1. LabelOK(proc, scopes, s)
    BY <1>2 DEF Walking, LabelsOK
  <2>2. SUFFICES ASSUME scopes[s].label_block # 0 PROVE FALSE
    OBVIOUS
  <2>3. scopes[s].label /\ \E i \in 1..Len(path) : path[i] = s
    BY <1>8, <2>1, <2>2 DEF LabelOK, PathOf
  <2>4. s = proc.current_scope
    BY <1>5, <1>6, <2>3
  <2> QED BY <1>1, <1>2, <1>8, <2>3, <2>4
<1>9. OwedLabels(scopes) \subseteq {0}
  <2>1. DOMAIN scopes = 1..Len(scopes)
    BY <1>2
  <2> QED BY <1>8, <2>1 DEF OwedLabels
<1>10. Held(Top) = {0}
  <2>1. Top.exit = 0 /\ Top.arms = <<>>
    BY <1>1, <1>3 DEF FrameOK
  <2>2. Range(Top.arms) = {}
    BY <2>1 DEF Range
  <2> QED BY <2>1, <2>2 DEF Held
<1>11. HeldBy(stack) \subseteq {0}
  <2>1. DOMAIN stack = {1}
    BY <1>2, <1>3
  <2> QED BY <1>2, <1>3, <1>10, <2>1 DEF HeldBy
<1>12. proc.current_break_target = NoBlock
  <2>1. BreakOKAt(proc, scopes, stack, 1) /\ TargetOf(proc, stack, 1) = proc.current_break_target
    BY <1>2, <1>3 DEF Walking, BreakOK, TargetOf
  <2>2. stack[1].exit = 0
    BY <1>1, <1>2, <1>3 DEF FrameOK
  <2>3. proc.current_break_target # 0 =>
           \E j \in 1..1 : proc.current_break_target = stack[j].exit
    BY <2>1 DEF BreakOKAt
  <2> QED BY <2>2, <2>3 DEF NoBlock
<1> QED BY <1>1, <1>3, <1>7, <1>9, <1>11, <1>12

LEMMA EndFunctionStep ==
    ASSUME IInv, stack # <<>>, EndFunction
    PROVE  IInv'
<1> DEFINE q == EndScope(proc, proc.current_scope, Current)
           ret == Insn("ret", <<EXIT_BLOCK>>, -1, NoScope)
<1>1. /\ AtListEnd("function") /\ stack' = <<>>
      /\ proc' = IF IsBlockTerminated(q, q.current_bb) THEN q ELSE AddInstruction(q, ret)
      /\ UNCHANGED <<scopes, list, captured, stmts, failed>>
  BY DEF EndFunction
<1>2. /\ ProcOK(proc) /\ ScopesOK(scopes) /\ Current \in ScopeType
      /\ Current = scopes[proc.current_scope] /\ CursorOK(proc, scopes)
      /\ proc.current_scope \in 1..Len(scopes) /\ PlacedOK(scopes)
  BY Here DEF IInv, StateOK
<1>3. /\ Parent(Current) = NoScope /\ OwedLabels(scopes) \subseteq {0}
      /\ HeldBy(stack) \subseteq {0} /\ proc.current_break_target = NoBlock
  BY <1>1, AtEndOfFunction
<1>4. /\ ProcOK(q) /\ Waiting(q) \subseteq Waiting(proc)
      /\ q.current_scope = Parent(Current) /\ SameBreak(proc, q)
  <2>1. proc.local_pseudos = 0..(Current.base + Len(Current.locals) - 1)
    BY <1>2 DEF CursorOK
  <2>2. Parent(Current) \in Nat /\ proc.current_scope \in Nat
    BY <1>2, <1>3 DEF NoScope
  <2> QED BY <1>2, <2>1, <2>2, EndScopeLemma
<1> HIDE DEF q
<1>5. ret \in InsnType /\ ret.op = "ret"
  <2>1. <<EXIT_BLOCK>> \in Seq(Nat \ {0}) /\ NoScope \in Nat /\ "ret" \in Opcodes
    BY DEF EXIT_BLOCK, NoScope, Opcodes
  <2> QED BY <2>1 DEF Insn, InsnType
<1> HIDE DEF ret
<1>6. /\ ProcOK(proc') /\ Waiting(proc') \subseteq Waiting(q)
      /\ IsBlockTerminated(proc', proc'.current_bb)
      /\ proc'.current_scope = q.current_scope /\ SameBreak(q, proc')
  <2>1. CASE IsBlockTerminated(q, q.current_bb)
    BY <1>1, <1>4, <2>1 DEF SameBreak
  <2>2. CASE ~IsBlockTerminated(q, q.current_bb)
    <3> DEFINE r == AddInstruction(q, ret)
    <3>1. /\ ProcOK(r) /\ Waiting(r) \subseteq Waiting(q) /\ SameContext(q, r)
          /\ ret.op \in Branches => IsBlockTerminated(r, r.current_bb)
      BY <1>4, <1>5, AddInstructionLemma
    <3>2. proc' = r
      BY <1>1, <2>2
    <3> QED BY <1>5, <3>1, <3>2 DEF Branches, SameContext
  <2> QED BY <2>1, <2>2
<1>7. "goto_backward_close" \notin Grammar => Kept(proc', scopes, <<>>)
  <2>1. 0 \notin Waiting(proc)
    BY <1>2, WaitingNotZero
  <2> QED BY <1>3, <1>4, <1>6, <2>1 DEF IInv, StateOK, Kept
<1>8. CountersOK'
  BY <1>1 DEF IInv, CountersOK
<1>9. proc'.current_scope = NoScope /\ proc'.current_break_target = NoBlock
  BY <1>3, <1>4, <1>6 DEF SameBreak
<1> QED BY <1>1, <1>2, <1>3, <1>6, <1>7, <1>8, <1>9 DEF IInv, StateOK, EndedOK

-----------------------------------------------------------------------------
(* The induction. *)

LEMMA Initially ==
    ASSUME Init
    PROVE  IInv
<1>1. PICK locals \in LocalLists, label \in BOOLEAN :
        LET empty == [nodes |-> << <<>>, <<>> >>, current_bb |-> ENTRY_BLOCK,
                      current_scope |-> NoScope, local_pseudos |-> {},
                      current_break_target |-> NoBlock,
                      current_break_scope |-> NoScope]
            main == NewScope(empty, <<1>>, locals, label)
        IN  /\ proc = StartScope(empty, 1, main)
            /\ scopes = <<main>>
            /\ stack = << [kind |-> "function", head |-> NoBlock, arms |-> <<>>,
                           exit |-> NoBlock, break_target |-> NoBlock,
                           break_scope |-> NoScope] >>
            /\ list = "empty"
            /\ captured = {} /\ stmts = 0 /\ failed = FALSE
  BY DEF Init
<1> DEFINE empty == [nodes |-> << <<>>, <<>> >>, current_bb |-> ENTRY_BLOCK,
                     current_scope |-> NoScope, local_pseudos |-> {},
                     current_break_target |-> NoBlock,
                     current_break_scope |-> NoScope]
           main == NewScope(empty, <<1>>, locals, label)
           f == [kind |-> "function", head |-> NoBlock, arms |-> <<>>, exit |-> NoBlock,
                 break_target |-> NoBlock, break_scope |-> NoScope]
<1>2. /\ proc = StartScope(empty, 1, main) /\ scopes = <<main>> /\ stack = <<f>>
      /\ list = "empty" /\ captured = {} /\ stmts = 0 /\ failed = FALSE
  BY <1>1
<1>3. CountersOK
  BY <1>2 DEF CountersOK
<1>4. /\ ProcOK(empty) /\ Waiting(empty) \subseteq {EXIT_BLOCK}
      /\ empty.local_pseudos = Below(0) /\ empty.current_break_target = 0
      /\ empty.current_break_scope = 0 /\ Len(empty.nodes) = 2
  <2> DEFINE nodes == << <<>>, <<>> >>
  <2>1. nodes \in Seq(Seq(InsnType)) /\ Len(nodes) = 2
    <3>1. <<>> \in Seq(InsnType)
      OBVIOUS
    <3> QED BY <3>1
  <2>2. empty.nodes = nodes
    OBVIOUS
  <2>3. empty \in ProcType
    <3> HIDE DEF nodes
    <3>1. empty.nodes \in Seq(Seq(InsnType))
      BY <2>1, <2>2
    <3> QED BY <3>1 DEF ProcType, ENTRY_BLOCK, NoScope, NoBlock
  <2>4. ProcOK(empty)
    BY <2>1, <2>2, <2>3 DEF ProcOK, ENTRY_BLOCK
  <2>5. Waiting(empty) \subseteq {EXIT_BLOCK}
    BY <2>1, <2>2 DEF Waiting, ENTRY_BLOCK, EXIT_BLOCK
  <2>6. empty.local_pseudos = Below(0)
    BY DEF Below
  <2> QED BY <2>1, <2>2, <2>4, <2>5, <2>6 DEF NoBlock, NoScope
<1> HIDE DEF empty
<1>5. /\ main \in ScopeType /\ main.path = <<1>> /\ main.base = 0
      /\ main.label_block = 0 /\ ~main.placed
  <2> DEFINE path == <<1>>
  <2>1. locals \in Seq({"plain", "escaped"}) /\ path \in Seq(Nat \ {0}) /\ 0 \in Nat
    BY LocalsAssumption
  <2>2. empty.local_pseudos = Below(0)
    BY <1>4
  <2>3. main = NewScope(empty, path, locals, label)
    OBVIOUS
  <2> HIDE DEF path, main
  <2>4. /\ main \in ScopeType /\ main.path = path /\ main.base = 0
        /\ main.label_block = NoBlock /\ ~main.placed
    BY <2>1, <2>2, <2>3, NewScopeLemma
  <2> QED BY <2>4 DEF NoBlock, path
<1> HIDE DEF main
<1>6. /\ ProcOK(proc) /\ SameBreak(empty, proc) /\ proc.nodes = empty.nodes
      /\ proc.current_scope = 1 /\ Waiting(proc) = Waiting(empty)
      /\ proc.local_pseudos = 0..(main.base + Len(main.locals) - 1)
  <2>1. empty.local_pseudos = 0..(main.base - 1)
    BY <1>4, <1>5 DEF Below
  <2>2. proc = StartScope(empty, 1, main) /\ main \in ScopeType /\ ProcOK(empty) /\ 1 \in Nat
    BY <1>2, <1>4, <1>5
  <2> DEFINE r == StartScope(empty, 1, main)
  <2>3. /\ ProcOK(r) /\ SameBreak(empty, r) /\ r.nodes = empty.nodes
        /\ r.current_scope = 1 /\ Waiting(r) = Waiting(empty)
        /\ r.local_pseudos = 0..(main.base + Len(main.locals) - 1)
    BY <2>1, <2>2, StartScopeLemma
  <2> HIDE DEF r
  <2> QED BY <2>2, <2>3 DEF r
<1>7. /\ scopes \in Seq(ScopeType) /\ Len(scopes) = 1 /\ scopes[1] = main
  BY <1>2, <1>5
<1>8. ScopesOK(scopes) /\ PlacedOK(scopes) /\ CursorOK(proc, scopes)
  <2>1. ScopeOK(scopes, 1)
    <3>1. Len(main.path) = 1 /\ main.path[1] = 1
      BY <1>5
    <3>2. \A i \in 1..Len(main.path) : main.path[i] \in 1..Len(scopes)
      BY <1>7, <3>1
    <3>3. main.base = 0
      BY <1>5
    <3> QED BY <1>7, <3>1, <3>2, <3>3 DEF ScopeOK
  <2>2. ScopesOK(scopes)
    BY <1>7, <2>1 DEF ScopesOK
  <2>3. PlacedOK(scopes)
    BY <1>5, <1>7 DEF PlacedOK
  <2>4. CursorOK(proc, scopes)
    BY <1>6, <1>7 DEF CursorOK
  <2> QED BY <2>2, <2>3, <2>4
<1>9. /\ f \in FrameType /\ stack \in Seq(FrameType) /\ Len(stack) = 1 /\ stack[1] = f
      /\ f.kind = "function" /\ f.exit = 0 /\ f.arms = <<>> /\ f.head = 0
      /\ f.break_target = 0 /\ f.break_scope = 0
  <2>1. /\ f \in FrameType /\ f.kind = "function" /\ f.exit = 0 /\ f.arms = <<>>
        /\ f.head = 0 /\ f.break_target = 0 /\ f.break_scope = 0
    <3>1. <<>> \in Seq(Nat \ {0})
      OBVIOUS
    <3> QED BY <3>1 DEF FrameType, NoBlock, NoScope
  <2> HIDE DEF f
  <2> QED BY <1>2, <2>1
<1> HIDE DEF f
<1>10. Walking(proc, scopes, stack)
  <2>1. FramesOK(proc, stack)
    BY <1>9 DEF FramesOK, FrameOK
  <2>2. DepthOK(proc, scopes, stack)
    <3>1. Fors(stack, 1) = {}
      BY <1>9 DEF Fors
    <3>2. Depth(stack, 1) = 1
      BY <3>1, FS_EmptySet DEF Depth
    <3>3. scopes[proc.current_scope].path = <<1>>
      BY <1>5, <1>6, <1>7
    <3> QED BY <1>9, <3>2, <3>3 DEF DepthOK
  <2>3. BreakOK(proc, scopes, stack)
    BY <1>4, <1>6, <1>9 DEF BreakOK, BreakOKAt, TargetOf, BreakScopeOf, SameBreak
  <2>4. LabelsOK(proc, scopes)
    BY <1>4, <1>5, <1>6, <1>7 DEF LabelsOK, LabelOK
  <2> QED BY <1>6, <1>8, <2>1, <2>2, <2>3, <2>4 DEF Walking
<1>11. Kept(proc, scopes, stack)
  BY <1>4, <1>6 DEF Kept
<1>12. stack # <<>>
  <2>1. Len(stack) # 0
    BY <1>9
  <2> QED BY <2>1
<1> QED BY <1>3, <1>6, <1>8, <1>10, <1>11, <1>12 DEF IInv, StateOK

LEMMA Preserved ==
    ASSUME IInv, [Next]_vars
    PROVE  IInv'
<1>1. CASE UNCHANGED vars
  BY <1>1 DEF vars, IInv, CountersOK, StateOK
<1>2. CASE Finished
  BY <1>2 DEF Finished, vars, IInv, CountersOK, StateOK
<1>3. CASE Step
  <2>1. stack # <<>>
    BY <1>3 DEF Step, Done
  <2>2. CASE Simple
    <3>1. CASE LinearizeLocalStatement
      BY <2>1, <3>1, LocalStatementStep
    <3>2. CASE LinearizeLocalFunction
      BY <2>1, <3>2, LocalFunctionStep
    <3>3. CASE \E v \in Visible : LinearizeFunctionExpr(v)
      BY <2>1, <3>3, FunctionExprStep
    <3>4. CASE LinearizeExpressionStatement
      BY <2>1, <3>4, ExpressionStatementStep
    <3>5. CASE LinearizeReturn
      BY <2>1, <3>5, ReturnStep
    <3>6. CASE LinearizeLabelStatement
      BY <2>1, <3>6, LabelStatementStep
    <3>7. CASE \E i \in DOMAIN Current.path : LinearizeGoto(Current.path[i])
      BY <2>1, <3>7, GotoStep
    <3>8. CASE LinearizeBreak
      BY <2>1, <3>8, BreakStep
    <3>9. CASE HandleError
      BY <2>1, <3>9, HandleErrorStep
    <3> QED BY <2>2, <3>1, <3>2, <3>3, <3>4, <3>5, <3>6, <3>7, <3>8, <3>9 DEF Simple
  <2>3. CASE Compound
    <3>1. PICK locals \in LocalLists, label \in BOOLEAN :
            \/ LinearizeDo(locals, label)
            \/ LinearizeWhile(locals, label)
            \/ LinearizeRepeat(locals, label)
            \/ \E step \in {"positive", "unknown"}, escaped \in BOOLEAN :
                  LinearizeForNum(step, escaped, locals, label)
            \/ \E n \in 1..MaxArms, else \in BOOLEAN : LinearizeIf(n, else, locals, label)
            \/ NextArm(locals, label)
      BY <2>3 DEF Compound
    <3>2. CASE LinearizeDo(locals, label)
      BY <2>1, <3>2, DoStep
    <3>3. CASE LinearizeWhile(locals, label)
      BY <2>1, <3>3, WhileStep
    <3>4. CASE LinearizeRepeat(locals, label)
      BY <2>1, <3>4, RepeatStep
    <3>5. CASE \E step \in {"positive", "unknown"}, escaped \in BOOLEAN :
                  LinearizeForNum(step, escaped, locals, label)
      BY <2>1, <3>5, ForNumStep
    <3>6. CASE \E n \in 1..MaxArms, else \in BOOLEAN : LinearizeIf(n, else, locals, label)
      BY <2>1, <3>6, IfStep
    <3>7. CASE NextArm(locals, label)
      BY <2>1, <3>7, NextArmStep
    <3> QED BY <3>1, <3>2, <3>3, <3>4, <3>5, <3>6, <3>7
  <2>4. CASE EndOfList
    BY <2>1, <2>4, EndDoStep, EndLoopStep, EndForNumStep, EndIfStep, EndFunctionStep
       DEF EndOfList
  <2> QED BY <1>3, <2>2, <2>3, <2>4 DEF Step
<1> QED BY <1>1, <1>2, <1>3 DEF Next

LEMMA Implied ==
    ASSUME IInv
    PROVE  /\ stack # <<>> => TypeOK
           /\ "goto_backward_close" \notin Grammar => NoBlockLost /\ FinalInsnIsBranch
<1>1. ProcOK(proc) /\ ScopesOK(scopes) /\ CountersOK /\ Len(proc.nodes) >= 2
  BY DEF IInv, StateOK, ProcOK
<1>2. ASSUME stack # <<>> PROVE TypeOK
  <2>1. stack \in Seq(FrameType)
    BY <1>2, Here
  <2> QED BY <1>1, <2>1 DEF TypeOK, ProcOK, ScopesOK, CountersOK
<1>3. ASSUME "goto_backward_close" \notin Grammar
      PROVE  NoBlockLost /\ FinalInsnIsBranch
  <2>1. Waiting(proc) \subseteq {EXIT_BLOCK} \cup Promised
    <3>1. Waiting(proc) \subseteq {EXIT_BLOCK} \cup HeldBy(stack) \cup OwedLabels(scopes)
      BY <1>3 DEF IInv, StateOK, Kept
    <3>2. Promised = HeldBy(stack) \cup OwedLabels(scopes)
      BY DEF Promised, HeldBy, OwedLabels
    <3> QED BY <3>1, <3>2
  <2>2. NoBlockLost
    BY <2>1 DEF NoBlockLost, Blocks, Waiting
  <2>3. FinalInsnIsBranch
    <3> SUFFICES ASSUME stack = <<>>, NEW b \in Blocks \ {EXIT_BLOCK}
                 PROVE  IsBlockTerminated(proc, b)
      BY DEF FinalInsnIsBranch
    <3>1. Promised \subseteq {0}
      <4>1. OwedLabels(scopes) \subseteq {0}
        BY DEF IInv, StateOK, EndedOK
      <4>2. Promised = OwedLabels(scopes)
        BY DEF Promised, OwedLabels
      <4> QED BY <4>1, <4>2
    <3>2. IsBlockTerminated(proc, proc.current_bb) /\ b # 0
      BY DEF IInv, StateOK, EndedOK, Blocks
    <3> QED BY <2>2, <3>1, <3>2 DEF NoBlockLost
  <2> QED BY <2>2, <2>3
<1> QED BY <1>2, <1>3

-----------------------------------------------------------------------------
(* The registers of the scopes in progress. *)

After(scope) == scope.base + Len(scope.locals)

(* Along a path the registers are those below the end of the last scope,   *)
(* each scope's above the ones of the scopes around it.                    *)
Stacked(sc, path) ==
    /\ UNION {Regs(sc[path[i]]) : i \in 1..Len(path)} = Below(After(sc[path[Len(path)]]))
    /\ \A i, j \in 1..Len(path) :
          i < j => \A r \in Regs(sc[path[i]]) : r < sc[path[j]].base

LEMMA PathStacked ==
    ASSUME NEW sc, ScopesOK(sc), NEW s \in 1..Len(sc)
    PROVE  Stacked(sc, sc[s].path)
<1> DEFINE Bad == {t \in 1..Len(sc) : ~Stacked(sc, sc[t].path)}
           Lengths == {Len(sc[t].path) : t \in Bad}
<1>1. /\ sc \in Seq(ScopeType) /\ \A t \in 1..Len(sc) : ScopeOK(sc, t)
  BY DEF ScopesOK
<1>2. \A t \in 1..Len(sc) : /\ sc[t].path \in Seq(Nat \ {0}) /\ Len(sc[t].path) \in Nat
                            /\ sc[t].base \in Nat /\ Len(sc[t].locals) \in Nat
  BY <1>1, ScopeFields
<1> SUFFICES ASSUME Bad # {} PROVE FALSE
  OBVIOUS
<1>3. Lengths \in SUBSET Nat /\ Lengths # {}
  BY <1>2
<1>4. PICK t \in Bad : \A u \in Bad : Len(sc[t].path) <= Len(sc[u].path)
  <2>1. PICK l \in Lengths : \A k \in Lengths : l <= k
    <3> HIDE DEF Lengths
    <3> QED BY <1>3, MinimumLemma
  <2> HIDE DEF Bad
  <2> QED BY <2>1
<1> DEFINE path == sc[t].path
           n == Len(path)
           r == path[n - 1]
           up == sc[r].path
<1>5. /\ t \in 1..Len(sc) /\ path \in Seq(Nat \ {0}) /\ n \in Nat /\ n >= 1 /\ path[n] = t
      /\ \A i \in 1..n : path[i] \in 1..Len(sc)
      /\ n = 1 => sc[t].base = 0
      /\ n > 1 => /\ Len(up) = n - 1 /\ \A i \in 1..(n - 1) : up[i] = path[i]
                  /\ sc[t].base = After(sc[r])
  BY <1>1, <1>2 DEF ScopeOK, After
<1>6. /\ sc[t].base \in Nat /\ Len(sc[t].locals) \in Nat
      /\ Regs(sc[t]) = sc[t].base..(After(sc[t]) - 1)
  <2>1. Regs(sc[t]) = sc[t].base..(After(sc[t]) - 1)
    <3>1. t \in 1..Len(sc)
      BY <1>5
    <3>2. sc[t].base \in Nat /\ Len(sc[t].locals) \in Nat
      BY ONLY <1>2, <3>1
    <3>3. \A a, b \in Nat : (a + b) - 1 = a + (b - 1)
      OBVIOUS
    <3> DEFINE base0 == sc[t].base
               len0 == Len(sc[t].locals)
    <3>4. (base0 + len0) - 1 = base0 + (len0 - 1)
      <4> HIDE DEF base0, len0
      <4>1. base0 \in Nat /\ len0 \in Nat
        BY <3>2 DEF base0, len0
      <4> QED BY <3>3, <4>1
    <3>5. After(sc[t]) - 1 = sc[t].base + (Len(sc[t].locals) - 1)
      BY ONLY <3>4 DEF After
    <3> QED BY <3>5 DEF Regs
  <2> QED BY <1>2, <1>5, <2>1
<1> DEFINE R(i) == Regs(sc[path[i]])
           base == sc[t].base
           end == After(sc[t])
<1>7. base \in Nat /\ end \in Nat /\ base <= end /\ R(n) = base..(end - 1)
  BY <1>5, <1>6 DEF After
<1>8. CASE n = 1
  <2>1. {R(i) : i \in 1..n} = {R(n)}
    BY <1>8
  <2>2. UNION {R(i) : i \in 1..n} = R(n)
    BY <2>1
  <2>3. R(n) = Below(end)
    <3> HIDE DEF R, end, base
    <3> QED BY <1>5, <1>7, <1>8 DEF Below, base
  <2>4. Stacked(sc, path)
    BY <1>5, <1>8, <2>2, <2>3 DEF Stacked
  <2> QED BY <1>4, <2>4
<1>9. CASE n > 1
  <2>1. r \in 1..Len(sc) /\ n - 1 \in 1..n /\ n - 1 \in Nat
    BY <1>5, <1>9
  <2>2. Stacked(sc, up)
    <3>1. r \notin Bad
      <4>1. Len(sc[r].path) < Len(sc[t].path)
        BY <1>5, <1>9
      <4>2. Len(sc[r].path) \in Nat /\ Len(sc[t].path) \in Nat
        BY <1>2, <1>5, <2>1
      <4> HIDE DEF Bad, r
      <4> QED BY <1>4, <4>1, <4>2
    <3> QED BY <2>1, <3>1
  <2>3. up[n - 1] = r
    <3>1. n - 1 \in 1..(n - 1)
      BY <1>5, <1>9
    <3> HIDE DEF up, n
    <3> QED BY <1>5, <1>9, <3>1 DEF r
  <2>4. UNION {R(i) : i \in 1..(n - 1)} = Below(base)
    <3>1. UNION {Regs(sc[up[i]]) : i \in 1..Len(up)} = Below(After(sc[up[Len(up)]]))
      BY <2>2 DEF Stacked
    <3>2. {Regs(sc[up[i]]) : i \in 1..(n - 1)} = {R(i) : i \in 1..(n - 1)}
      BY <1>5, <1>9
    <3> QED BY <1>5, <1>9, <2>3, <3>1, <3>2
  <2>5. \A i, j \in 1..(n - 1) : i < j => \A q \in R(i) : q < sc[path[j]].base
    BY <1>5, <1>9, <2>2 DEF Stacked
  <2>6. UNION {R(i) : i \in 1..n} = Below(end)
    <3> HIDE DEF R, n, base, end
    <3>1. 1..n = 1..(n - 1) \cup {n}
      BY <1>5 DEF n
    <3>2. UNION {R(i) : i \in 1..n} = Below(base) \cup R(n)
      BY <2>4, <3>1
    <3> QED BY <1>7, <3>2 DEF Below
  <2>7. ASSUME NEW i \in 1..(n - 1) PROVE \A q \in R(i) : q < base
    <3>1. R(i) \subseteq Below(base)
      BY <2>4
    <3> HIDE DEF R, base
    <3> QED BY <1>7, <3>1 DEF Below
  <2>8. ASSUME NEW i \in 1..n, NEW j \in 1..n, i < j
        PROVE  \A q \in R(i) : q < sc[path[j]].base
    <3>1. i \in 1..(n - 1)
      BY <1>5, <2>8
    <3>2. CASE j = n
      BY <1>5, <2>7, <3>1, <3>2
    <3>3. CASE j # n
      <4>1. j \in 1..(n - 1)
        BY <1>5, <3>3
      <4> QED BY <2>5, <2>8, <3>1, <4>1
    <3> QED BY <3>2, <3>3
  <2>9. Stacked(sc, path)
    BY <1>5, <2>6, <2>8 DEF Stacked
  <2> QED BY <1>4, <2>9
<1>10. n = 1 \/ n > 1
  <2>1. n \in Nat /\ n >= 1
    BY <1>5
  <2> HIDE DEF n
  <2> QED BY <2>1
<1> QED BY <1>8, <1>9, <1>10

LEMMA StackDisciplineHolds ==
    ASSUME IInv
    PROVE  StackDiscipline
<1> SUFFICES ASSUME proc.current_scope # NoScope PROVE StackDiscipline
  BY DEF StackDiscipline
<1>1. stack # <<>>
  BY DEF IInv, StateOK, EndedOK
<1>2. /\ ScopesOK(scopes) /\ CursorOK(proc, scopes) /\ proc.current_scope \in 1..Len(scopes)
      /\ Current = scopes[proc.current_scope] /\ Walking(proc, scopes, stack)
      /\ Current.path = PathOf(proc, scopes) /\ DOMAIN Current.path = 1..Len(Current.path)
  BY <1>1, Here
<1>3. Stacked(scopes, Current.path)
  BY <1>2, PathStacked
<1>4. Current.path[Len(Current.path)] = proc.current_scope
  BY <1>2, WalkingTypes
<1>5. proc.local_pseudos = Below(After(Current))
  <2>1. proc.local_pseudos = 0..(Current.base + Len(Current.locals) - 1)
    BY <1>2 DEF CursorOK
  <2>2. Current.base \in Nat /\ Len(Current.locals) \in Nat
    BY <1>1, Here, ScopeFields
  <2>3. After(Current) - 1 = Current.base + (Len(Current.locals) - 1)
    BY <2>2 DEF After
  <2> QED BY <2>1, <2>3 DEF Below
<1> QED BY <1>2, <1>3, <1>4, <1>5 DEF StackDiscipline, Stacked

-----------------------------------------------------------------------------
(* The break target. *)

Loops(st) == {i \in DOMAIN st : st[i].kind \in {"loop", "for"}}

(* Above frame m, if no other is of a loop, all have the break of frame m. *)
LEMMA BreakFromBelow ==
    ASSUME NEW p, NEW sc, NEW st, BreakOK(p, sc, st), Len(st) \in Nat,
           DOMAIN st = 1..Len(st),
           NEW m \in 1..Len(st), \A i \in Loops(st) : i <= m
    PROVE  /\ p.current_break_target = TargetOf(p, st, m)
           /\ p.current_break_scope = BreakScopeOf(p, st, m)
<1> DEFINE Bad == {i \in m..Len(st) : ~ /\ TargetOf(p, st, i) = TargetOf(p, st, m)
                                        /\ BreakScopeOf(p, st, i) = BreakScopeOf(p, st, m)}
<1>1. Bad = {}
  <2> SUFFICES ASSUME Bad # {} PROVE FALSE
    OBVIOUS
  <2>1. Bad \in SUBSET Nat
    OBVIOUS
  <2>2. PICK i \in Bad : \A j \in Bad : i <= j
    BY <2>1, MinimumLemma
  <2>3. i \in m..Len(st) /\ i # m
    BY <2>2
  <2>4. i - 1 \in m..Len(st) /\ i - 1 \notin Bad /\ i - 1 # Len(st) /\ i > m
    BY <2>2, <2>3
  <2>5. /\ TargetOf(p, st, i - 1) = st[i].break_target
        /\ BreakScopeOf(p, st, i - 1) = st[i].break_scope
    <3>1. (i - 1) + 1 = i
      BY <2>3
    <3> QED BY <2>4, <3>1 DEF TargetOf, BreakScopeOf
  <2>6. st[i].kind \notin {"loop", "for"}
    <3>1. i \in DOMAIN st
      BY <2>3
    <3>2. i \notin Loops(st)
      BY <2>3, <2>4
    <3> QED BY <3>1, <3>2 DEF Loops
  <2>7. /\ TargetOf(p, st, i) = st[i].break_target
        /\ BreakScopeOf(p, st, i) = st[i].break_scope
    <3>1. BreakOKAt(p, sc, st, i)
      BY <2>3 DEF BreakOK
    <3> QED BY <2>6, <3>1 DEF BreakOKAt
  <2> QED BY <2>2, <2>4, <2>5, <2>7
<1>2. Len(st) \in m..Len(st)
  OBVIOUS
<1>3. /\ TargetOf(p, st, Len(st)) = TargetOf(p, st, m)
      /\ BreakScopeOf(p, st, Len(st)) = BreakScopeOf(p, st, m)
  BY <1>1, <1>2
<1> QED BY <1>3 DEF TargetOf, BreakScopeOf

(* A nonempty set of positions in a sequence has a greatest one. *)
LEMMA GreatestPosition ==
    ASSUME NEW n \in Nat, NEW S \in SUBSET (1..n), S # {}
    PROVE  \E i \in S : \A j \in S : j <= i
<1> DEFINE T == {n - i : i \in S}
<1>1. T \in SUBSET Nat /\ T # {}
  <2>1. \A i \in S : n - i \in Nat
    OBVIOUS
  <2> QED BY <2>1
<1>2. PICK k \in T : \A l \in T : k <= l
  <2> HIDE DEF T
  <2> QED BY <1>1, MinimumLemma
<1>3. PICK i \in S : k = n - i
  OBVIOUS
<1>4. ASSUME NEW j \in S PROVE j <= i
  <2>1. k <= n - j
    BY <1>2
  <2> QED BY <1>3, <2>1
<1> QED BY <1>4

LEMMA BreakIsInnermostHolds ==
    ASSUME IInv
    PROVE  BreakIsInnermost
<1> DEFINE inner == CHOOSE i \in Loops(stack) : \A j \in Loops(stack) : j <= i
<1>1. CASE stack = <<>>
  <2>1. Loops(stack) = {}
    BY <1>1 DEF Loops
  <2> QED BY <1>1, <2>1 DEF IInv, StateOK, EndedOK, BreakIsInnermost, Loops
<1>2. CASE stack # <<>>
  <2>1. /\ Walking(proc, scopes, stack) /\ BreakOK(proc, scopes, stack)
        /\ Len(stack) \in Nat \ {0} /\ DOMAIN stack = 1..Len(stack)
        /\ FramesOK(proc, stack)
        /\ Current.path = PathOf(proc, scopes) /\ DOMAIN Current.path = 1..Len(Current.path)
    BY <1>2, Here DEF Walking
  <2>2. CASE Loops(stack) = {}
    <3>1. 1 \in 1..Len(stack)
      BY <2>1
    <3>2. proc.current_break_target = TargetOf(proc, stack, 1)
      BY <2>1, <2>2, <3>1, BreakFromBelow
    <3>3. stack[1].exit = 0
      BY <2>1, <3>1 DEF FramesOK, FrameOK
    <3>4. TargetOf(proc, stack, 1) # 0 => \E j \in 1..1 : TargetOf(proc, stack, 1) = stack[j].exit
      BY <2>1, <3>1 DEF BreakOK, BreakOKAt
    <3>5. TargetOf(proc, stack, 1) = 0
      BY <3>3, <3>4
    <3> QED BY <2>2, <3>2, <3>5 DEF BreakIsInnermost, Loops, NoBlock
  <2>3. CASE Loops(stack) # {}
    <3>1. Loops(stack) \in SUBSET (1..Len(stack))
      BY <2>1 DEF Loops
    <3>2. inner \in Loops(stack) /\ \A j \in Loops(stack) : j <= inner
      BY <2>1, <2>3, <3>1, GreatestPosition
    <3> HIDE DEF inner
    <3>3. inner \in 1..Len(stack) /\ stack[inner].kind \in {"loop", "for"}
      BY <2>1, <3>2 DEF Loops
    <3>4. /\ proc.current_break_target = TargetOf(proc, stack, inner)
          /\ proc.current_break_scope = BreakScopeOf(proc, stack, inner)
      BY <2>1, <3>2, <3>3, BreakFromBelow
    <3>5. BreakOKAt(proc, scopes, stack, inner)
      BY <2>1, <3>3 DEF BreakOK
    <3>6. proc.current_break_target = stack[inner].exit
      BY <3>3, <3>4, <3>5 DEF BreakOKAt
    <3>7. PICK k \in 1..Depth(stack, inner) : proc.current_break_scope = PathOf(proc, scopes)[k]
      BY <3>3, <3>4, <3>5 DEF BreakOKAt
    <3>8. Depth(stack, inner) \in Nat /\ Depth(stack, inner) <= Len(PathOf(proc, scopes))
      BY <2>1, <3>3, FrameOnPath
    <3>9. k \in DOMAIN Current.path /\ proc.current_break_scope = Current.path[k]
      <4>1. Len(PathOf(proc, scopes)) \in Nat
        BY <2>1, WalkingTypes
      <4> QED BY <2>1, <3>7, <3>8, <4>1
    <3>10. proc.current_break_scope \in Range(Current.path)
      BY <3>9 DEF Range
    <3> QED BY <2>3, <3>6, <3>10 DEF BreakIsInnermost, Loops, inner
  <2> QED BY <2>2, <2>3
<1> QED BY <1>1, <1>2

-----------------------------------------------------------------------------
(* The theorems. *)

(* The state always has the types of struct Proc, of the scopes and of the *)
(* C stack, whatever function is compiled.                                 *)
THEOREM TypeCorrect == Spec => []TypeOK
<1>1. IInv => TypeOK
  <2>1. ASSUME IInv, stack = <<>> PROVE TypeOK
    <3>1. stack \in Seq(FrameType)
      BY <2>1
    <3> QED BY <2>1, <3>1 DEF IInv, StateOK, TypeOK, ProcOK, ScopesOK, CountersOK
  <2> QED BY <2>1, Implied
<1> QED BY <1>1, Initially, Preserved, PTL DEF Spec

(* The registers in use are those of the scopes in progress, each scope's  *)
(* above those around it, and a break leaves the innermost loop: what the  *)
(* handlers save of Proc in C locals when they enter a list they put back  *)
(* when they leave it, in every function.                                  *)
THEOREM ContextInForce == Spec => [](StackDiscipline /\ BreakIsInnermost)
<1>1. IInv => StackDiscipline /\ BreakIsInnermost
  BY StackDisciplineHolds, BreakIsInnermostHolds
<1> QED BY <1>1, Initially, Preserved, PTL DEF Spec

(* The walk loses no block: each has its branch, or is being filled, or is *)
(* held by a statement in progress or by a goto whose label is to come.    *)
(* Functions in which a goto jumps back over locals that must be closed    *)
(* are left out: start_block() is not called for the close they append.    *)
THEOREM BlocksKept ==
    ASSUME "goto_backward_close" \notin Grammar
    PROVE  Spec => []NoBlockLost
<1>1. IInv => NoBlockLost
  BY Implied
<1> QED BY <1>1, Initially, Preserved, PTL DEF Spec

(* In the compiled function every block but the exit ends with a branch,   *)
(* which the construction of the control flow graph relies on.             *)
THEOREM BlocksBranch ==
    ASSUME "goto_backward_close" \notin Grammar
    PROVE  Spec => []FinalInsnIsBranch
<1>1. IInv => FinalInsnIsBranch
  BY Implied
<1> QED BY <1>1, Initially, Preserved, PTL DEF Spec

-----------------------------------------------------------------------------
(* The promises: the blocks held by the functions in progress and those of *)
(* labels to come.  No two of them are the same block.                     *)
Promises(sc, st) == (HeldBy(st) \cup OwedLabels(sc)) \ {NoBlock}

(* A function in progress holds each of its blocks once. *)
FrameApart(f) ==
    /\ \A k, l \in 1..Len(f.arms) : k # l => f.arms[k] # f.arms[l]
    /\ \A k \in 1..Len(f.arms) : f.arms[k] # f.exit

StackApart(st) ==
    /\ \A i \in 1..Len(st) : FrameApart(st[i])
    /\ \A i, j \in 1..Len(st) : i # j => Held(st[i]) \cap Held(st[j]) \subseteq {NoBlock}

(* The label of s was jumped to and is still to come. *)
Owed(sc, s) == ~sc[s].placed /\ sc[s].label_block # NoBlock

LabelsApart(sc, st) ==
    \A s \in 1..Len(sc) : Owed(sc, s) =>
        /\ sc[s].label_block \notin HeldBy(st)
        /\ \A t \in 1..Len(sc) :
              Owed(sc, t) /\ t # s => sc[t].label_block # sc[s].label_block

(* The block being filled is open, unless a return ended its list. *)
ListOK(p, st, l) ==
    IF l = "ended" THEN LastIsRet(p, p.current_bb) /\ st[Len(st)].kind # "do" ELSE Open(p)

(* The invariant of the code: every block is sound (Sound), a promised one *)
(* is empty, no two promises are of the same block, and the block being    *)
(* filled takes more code unless a return ended the list.                  *)
CInv ==
    /\ Sound(proc, Promises(scopes, stack))
    /\ stack # <<>> => /\ StackApart(stack) /\ LabelsApart(scopes, stack)
                       /\ ListOK(proc, stack, list)

(* Three statements after which the linearizer appends code to a block     *)
(* that ends with a branch already: a goto back over locals that must be   *)
(* closed, as they are closed in the block of the label; a return at the   *)
(* end of a do, whose list goes on; and a for whose variable is captured,  *)
(* as it is closed in the block that has the branch back.                  *)
Structured == Grammar \cap {"goto_backward_close", "return_in_do", "for_escaped"} = {}

-----------------------------------------------------------------------------
(* Promises are kept or passed on; statements without a list. *)

LEMMA OwedPromised ==
    ASSUME NEW sc \in Seq(ScopeType), NEW st, NEW s \in 1..Len(sc), Owed(sc, s)
    PROVE  sc[s].label_block \in Promises(sc, st)
BY DEF Owed, Promises, OwedLabels

LEMMA HeldPromised ==
    ASSUME NEW sc, NEW st \in Seq(FrameType), NEW i \in 1..Len(st),
           NEW b \in Held(st[i]), b # NoBlock
    PROVE  b \in Promises(sc, st)
BY DEF Promises, HeldBy

(* Changes to the scopes that leave the labels alone. *)
SameLabels(sc, sd) ==
    /\ Len(sd) = Len(sc) /\ DOMAIN sc = 1..Len(sc) /\ DOMAIN sd = 1..Len(sc)
    /\ \A s \in 1..Len(sc) : /\ sd[s].label_block = sc[s].label_block
                             /\ sd[s].placed = sc[s].placed

LEMMA LabelsUnchanged ==
    ASSUME NEW sc, NEW sd, NEW st, SameLabels(sc, sd)
    PROVE  /\ OwedLabels(sd) = OwedLabels(sc)
           /\ LabelsApart(sc, st) => LabelsApart(sd, st)
BY DEF SameLabels, OwedLabels, LabelsApart, Owed

(* A statement without a list, and a list that goes on after it. *)
LEMMA CodeReady ==
    ASSUME CInv, stack # <<>>, UNCHANGED stack, list # "ended", list' = "open",
           NEW code \in Seq(InsnType), Plain(code), proc' = Ops(proc, code),
           SameLabels(scopes, scopes')
    PROVE  CInv'
<1>1. Sound(proc, Promises(scopes, stack)) /\ Open(proc)
  BY DEF CInv, ListOK
<1>2. Sound(proc', Promises(scopes, stack)) /\ Open(proc')
  BY <1>1, OpsSound
<1>3. /\ OwedLabels(scopes') = OwedLabels(scopes)
      /\ LabelsApart(scopes, stack) => LabelsApart(scopes', stack)
  BY LabelsUnchanged
<1>4. Promises(scopes', stack) = Promises(scopes, stack)
  BY <1>3 DEF Promises
<1> QED BY <1>2, <1>3, <1>4 DEF CInv, ListOK

LEMMA PlainInsn ==
    ASSUME NEW op \in Opcodes \ Branches, NEW reg \in Int, NEW scope \in Nat
    PROVE  LET insn == Insn(op, <<>>, reg, scope)
           IN  insn \in InsnType /\ insn.op \notin Branches
<1> DEFINE none == <<>>
<1>1. none \in Seq(Nat \ {0})
  OBVIOUS
<1> HIDE DEF none
<1>2. LET insn == Insn(op, none, reg, scope)
      IN  insn \in InsnType /\ insn.op \notin Branches
  BY <1>1 DEF Insn, InsnType
<1> QED BY <1>2 DEF none

LEMMA Declared ==
    ASSUME IInv, stack # <<>>,
           scopes' = [scopes EXCEPT ![proc.current_scope] = [@ EXCEPT !.declared = TRUE]]
    PROVE  SameLabels(scopes, scopes')
<1> DEFINE s == proc.current_scope
           new == [Current EXCEPT !.declared = TRUE]
<1>1. /\ scopes \in Seq(ScopeType) /\ s \in 1..Len(scopes) /\ Current = scopes[s]
      /\ Current \in ScopeType
  BY Here
<1>2. /\ new \in ScopeType /\ new.label_block = Current.label_block /\ new.placed = Current.placed
      /\ new.path = Current.path /\ new.base = Current.base
      /\ new.locals = Current.locals /\ new.label = Current.label
  BY <1>1 DEF ScopeType
<1>3. scopes' = [scopes EXCEPT ![s] = new]
  BY <1>1
<1> HIDE DEF new, s
<1> DEFINE sd == [scopes EXCEPT ![s] = new]
<1>4. DOMAIN scopes = 1..Len(scopes) /\ ScopesOK(scopes)
  BY <1>1, Here
<1>5. SameScopes(scopes, sd) /\ sd[s] = new /\ \A t \in 1..Len(scopes) : t # s => sd[t] = scopes[t]
  BY <1>1, <1>2, <1>4, ScopeUpdate
<1>6. scopes' = sd
  BY <1>3
<1> HIDE DEF sd
<1>7. DOMAIN scopes' = 1..Len(scopes) /\ Len(scopes') = Len(scopes)
  BY <1>5, <1>6 DEF SameScopes
<1>8. ASSUME NEW t \in 1..Len(scopes)
      PROVE  scopes'[t].label_block = scopes[t].label_block /\ scopes'[t].placed = scopes[t].placed
  BY <1>1, <1>2, <1>5, <1>6
<1> QED BY <1>4, <1>7, <1>8 DEF SameLabels

LEMMA LocalStatementReady ==
    ASSUME IInv, CInv, stack # <<>>, LinearizeLocalStatement
    PROVE  CInv'
<1> DEFINE insn == Insn("init", <<>>, Current.base, proc.current_scope)
           code == <<insn>>
<1>1. /\ list # "ended" /\ list' = "open" /\ UNCHANGED stack /\ proc' = Ops(proc, code)
      /\ SameLabels(scopes, scopes')
  BY Declared DEF LinearizeLocalStatement
<1>2. insn \in InsnType /\ insn.op \notin Branches
  <2>1. Current.base \in Int /\ proc.current_scope \in Nat /\ "init" \in Opcodes \ Branches
    BY Here, ScopeFields DEF Opcodes, Branches
  <2> QED BY <2>1, PlainInsn
<1> HIDE DEF insn
<1>3. code \in Seq(InsnType) /\ Plain(code)
  BY <1>2, OneInsn
<1> HIDE DEF code
<1> QED BY <1>1, <1>3, CodeReady

LEMMA LocalFunctionReady ==
    ASSUME IInv, CInv, stack # <<>>, LinearizeLocalFunction
    PROVE  CInv'
<1> DEFINE s == proc.current_scope
           regs == EscapedRegs(Current)
           i1 == Insn("closure", <<>>, Minimum(regs), s)
           i2 == Insn("init", <<>>, Current.base, s)
           code == << i1, i2 >>
<1>1. /\ list # "ended" /\ list' = "open" /\ UNCHANGED stack /\ proc' = Ops(proc, code)
      /\ SameLabels(scopes, scopes')
  BY Declared DEF LinearizeLocalFunction
<1>2. regs \subseteq Nat /\ regs # {}
  <2>1. Cardinality(regs) = 1
    BY DEF LinearizeLocalFunction
  <2>2. regs # {}
    BY <2>1, FS_EmptySet
  <2> QED BY <2>2, Here, EscapedRegsLemma
<1>3. Minimum(regs) \in Int
  BY <1>2, MinimumLemma
<1>4. s \in Nat /\ Current.base \in Int
  BY Here, ScopeFields
<1> HIDE DEF s, regs
<1>5. i1 \in InsnType /\ i1.op \notin Branches /\ i2 \in InsnType /\ i2.op \notin Branches
  BY <1>3, <1>4, PlainInsn DEF Opcodes, Branches
<1> HIDE DEF i1, i2
<1>6. code \in Seq(InsnType) /\ Len(code) = 2 /\ code[1] = i1 /\ code[2] = i2
  BY <1>5
<1>7. Plain(code)
  <2> HIDE DEF code
  <2>1. \A i \in 1..2 : i = 1 \/ i = 2
    OBVIOUS
  <2> QED BY <1>5, <1>6, <2>1 DEF Plain
<1> HIDE DEF code
<1> QED BY <1>1, <1>6, <1>7, CodeReady

LEMMA LabelsSame ==
    ASSUME IInv, stack # <<>>
    PROVE  SameLabels(scopes, scopes)
BY Here DEF SameLabels

LEMMA FunctionExprReady ==
    ASSUME IInv, CInv, stack # <<>>, NEW v \in Visible, LinearizeFunctionExpr(v)
    PROVE  CInv'
<1> DEFINE insn == Insn("closure", <<>>, v[2], v[1])
           code == <<insn>>
<1>1. /\ list # "ended" /\ list' = "open" /\ UNCHANGED <<scopes, stack>>
      /\ proc' = Ops(proc, code)
  BY DEF LinearizeFunctionExpr, Met
<1>2. insn \in InsnType /\ insn.op \notin Branches
  BY VisibleTypes, PlainInsn DEF Opcodes, Branches
<1> HIDE DEF insn
<1>3. code \in Seq(InsnType) /\ Plain(code)
  BY <1>2, OneInsn
<1> HIDE DEF code
<1>4. SameLabels(scopes, scopes')
  BY <1>1, LabelsSame
<1> QED BY <1>1, <1>3, <1>4, CodeReady

LEMMA ExpressionStatementReady ==
    ASSUME IInv, CInv, stack # <<>>, LinearizeExpressionStatement
    PROVE  CInv'
<1>1. PICK insn \in {Insn("op", <<>>, -1, proc.current_scope)} \cup
                    {Insn("use", <<>>, v[2], v[1]) : v \in Visible} :
         proc' = Ops(proc, << insn >>)
  BY DEF LinearizeExpressionStatement
<1>2. insn \in InsnType /\ insn.op \notin Branches
  <2>1. CASE insn = Insn("op", <<>>, -1, proc.current_scope)
    BY <2>1, Here, PlainInsn DEF Opcodes, Branches
  <2>2. CASE \E v \in Visible : insn = Insn("use", <<>>, v[2], v[1])
    BY <2>2, VisibleTypes, PlainInsn DEF Opcodes, Branches
  <2> QED BY <2>1, <2>2
<1> DEFINE code == <<insn>>
<1>3. code \in Seq(InsnType) /\ Plain(code)
  BY <1>2, OneInsn
<1>4. /\ list # "ended" /\ list' = "open" /\ UNCHANGED <<scopes, stack>>
      /\ proc' = Ops(proc, code)
  BY <1>1 DEF LinearizeExpressionStatement, CanMeet, Met
<1> HIDE DEF code
<1>5. SameLabels(scopes, scopes')
  BY <1>4, LabelsSame
<1> QED BY <1>3, <1>4, <1>5, CodeReady

(* A return ends the block for good. *)
LEMMA RetSound ==
    ASSUME NEW p, NEW U, Sound(p, U), Open(p), NEW s \in Nat
    PROVE  LET q == AddInstruction(p, Insn("ret", <<EXIT_BLOCK>>, -1, s))
           IN  /\ Sound(q, U) /\ Len(q.nodes) = Len(p.nodes) /\ q.current_bb = p.current_bb
               /\ LastIsRet(q, q.current_bb)
<1> DEFINE targets == <<EXIT_BLOCK>>
           b == p.current_bb
<1>1. /\ targets \in Seq(Nat \ {0}) /\ Len(targets) = 1 /\ targets[1] = EXIT_BLOCK
      /\ EXIT_BLOCK \in 1..Len(p.nodes)
  BY SoundTypes DEF EXIT_BLOCK
<1> HIDE DEF targets
<1> DEFINE insn == Insn("ret", targets, -1, s)
           code == <<insn>>
           q == AddInstruction(p, insn)
<1>2. insn \in InsnType /\ insn.op = "ret" /\ insn.targets = targets
  BY <1>1 DEF Insn, InsnType, Opcodes
<1> HIDE DEF insn
<1>3. BranchOK(Len(p.nodes), insn) /\ insn.op \in Branches
  <2>1. ASSUME NEW k \in 1..Len(insn.targets) PROVE insn.targets[k] = EXIT_BLOCK
    <3>1. k \in 1..1
      BY <1>1, <1>2
    <3>2. k = 1
      BY <3>1
    <3> QED BY <1>1, <1>2, <3>2
  <2>2. 1 \in 1..Len(insn.targets)
    BY <1>1, <1>2
  <2> QED BY <1>1, <1>2, <2>1, <2>2 DEF BranchOK, Branches
<1>4. Sound(q, U) /\ Len(q.nodes) = Len(p.nodes) /\ q.current_bb = b
  BY <1>2, <1>3, BranchSound
<1>5. /\ b \in 1..Len(p.nodes) /\ p.nodes[b] \in Seq(InsnType) /\ ProcOK(p)
      /\ code \in Seq(InsnType) /\ Len(code) = 1 /\ code[1] = insn
  BY <1>2, SoundTypes
<1>6. q = AddCode(p, b, code)
  BY DEF AddInstruction
<1> HIDE DEF code, q, b
<1>7. q.nodes[b] = p.nodes[b] \o code
  BY <1>5, <1>6, AppendCode
<1>8. q.nodes[b] # <<>> /\ q.nodes[b][Len(q.nodes[b])] = insn
  <2>1. Len(code) > 0
    BY <1>5
  <2> QED BY <1>5, <1>7, <2>1, ConcatLast
<1>9. LastIsRet(q, q.current_bb)
  BY <1>2, <1>4, <1>8 DEF LastIsRet
<1> QED BY <1>4, <1>9 DEF q, b, insn, targets

LEMMA ReturnReady ==
    ASSUME Structured, IInv, CInv, stack # <<>>, LinearizeReturn
    PROVE  CInv'
<1> DEFINE insn == Insn("ret", <<EXIT_BLOCK>>, -1, proc.current_scope)
           q == AddInstruction(proc, insn)
<1>1. /\ list # "ended" /\ list' = "ended" /\ UNCHANGED <<scopes, stack>>
      /\ proc' = Ops(proc, <<insn>>)
      /\ (IF Top.kind = "do" THEN "return_in_do" ELSE "return") \in Grammar
  BY DEF LinearizeReturn, CanMeet
<1>2. proc' = q
  BY <1>1 DEF Ops, AddInstruction
<1>3. Sound(proc, Promises(scopes, stack)) /\ Open(proc) /\ proc.current_scope \in Nat
  BY <1>1, SoundTypes DEF CInv, ListOK
<1>4. Sound(q, Promises(scopes, stack)) /\ LastIsRet(q, q.current_bb)
  BY <1>3, RetSound
<1> HIDE DEF q
<1>5. stack[Len(stack)].kind # "do"
  BY <1>1 DEF Structured, Top
<1> QED BY <1>1, <1>2, <1>4, <1>5 DEF CInv, ListOK

(* A statement that changes the blocks and the label of a scope. *)
LEMMA SimpleReady ==
    ASSUME IInv, CInv, stack # <<>>, UNCHANGED stack, list' = "open", NEW U,
           Sound(proc', U), Open(proc'), Promises(scopes', stack) \subseteq U,
           LabelsApart(scopes', stack)
    PROVE  CInv'
<1>1. Sound(proc', Promises(scopes', stack))
  BY FewerPromises
<1> QED BY <1>1 DEF CInv, ListOK

LEMMA HandleErrorReady ==
    ASSUME IInv, CInv, stack # <<>>, HandleError
    PROVE  CInv'
BY DEF HandleError, CInv

-----------------------------------------------------------------------------
(* Labels and jumps. *)

(* A label that is met is owed no more. *)
LEMMA LabelMet ==
    ASSUME NEW sc \in Seq(ScopeType), NEW sd \in Seq(ScopeType), Len(sd) = Len(sc),
           NEW st, NEW s \in 1..Len(sc), sd[s].placed,
           \A t \in 1..Len(sc) : t # s => sd[t] = sc[t], LabelsApart(sc, st), NEW b,
           \/ Owed(sc, s) /\ b = sc[s].label_block
           \/ b \notin Promises(sc, st)
    PROVE  Promises(sd, st) \subseteq Promises(sc, st) \ {b} /\ LabelsApart(sd, st)
<1>1. DOMAIN sc = 1..Len(sc) /\ DOMAIN sd = 1..Len(sc)
  OBVIOUS
<1>2. ASSUME NEW t \in 1..Len(sc), Owed(sd, t)
      PROVE  t # s /\ sd[t] = sc[t] /\ Owed(sc, t)
  BY <1>2 DEF Owed
<1>3. LabelsApart(sd, st)
  BY <1>2 DEF LabelsApart
<1>4. ASSUME NEW x \in Promises(sd, st)
      PROVE  x \in Promises(sc, st) \ {b}
  <2>1. x # NoBlock
    BY DEF Promises
  <2>2. CASE x \in HeldBy(st)
    <3>1. x \in Promises(sc, st)
      BY <2>1, <2>2 DEF Promises
    <3>2. Owed(sc, s) => x # sc[s].label_block
      BY <2>2 DEF LabelsApart
    <3> QED BY <3>1, <3>2
  <2>3. CASE x \in OwedLabels(sd)
    <3>1. PICK t \in 1..Len(sc) : ~sd[t].placed /\ x = sd[t].label_block
      BY <1>1, <2>3 DEF OwedLabels
    <3>2. Owed(sd, t)
      BY <2>1, <3>1 DEF Owed
    <3>3. t # s /\ sd[t] = sc[t] /\ Owed(sc, t)
      BY <1>2, <3>2
    <3>4. x \in Promises(sc, st)
      BY <3>1, <3>3, OwedPromised
    <3>5. Owed(sc, s) => x # sc[s].label_block
      BY <3>1, <3>3 DEF LabelsApart
    <3> QED BY <3>4, <3>5
  <2> QED BY <2>2, <2>3 DEF Promises
<1> QED BY <1>3, <1>4

LEMMA NewBlockRange ==
    ASSUME NEW n \in Nat
    PROVE  (n + 1)..(n + 1) = {n + 1}
OBVIOUS

(* One block more, and the walk moves to it. *)
LEMMA NextBlockSound ==
    ASSUME NEW p, NEW U, Sound(p, U)
    PROVE  LET q == StartBlock(CreateBlocks(p, 1), NewBlock(p))
           IN  /\ Sound(q, U) /\ Open(q) /\ Len(q.nodes) = Len(p.nodes) + 1
               /\ NewBlock(p) \notin U
<1> DEFINE m == Len(p.nodes) + 1
           r == CreateBlocks(p, 1)
           q == StartBlock(r, m)
<1>1. Len(p.nodes) \in Nat /\ NewBlock(p) = m
  BY SoundTypes DEF NewBlock
<1>2. Sound(r, U \cup ((Len(p.nodes) + 1)..(Len(p.nodes) + 1))) /\ Len(r.nodes) = m
  BY CreateSound
<1> HIDE DEF r
<1>3. Sound(r, U \cup {m})
  BY <1>1, <1>2, NewBlockRange
<1>4. m \notin U
  BY <1>1 DEF Sound
<1> HIDE DEF m
<1>5. Sound(q, (U \cup {m}) \ {m}) /\ Open(q) /\ Len(q.nodes) = Len(r.nodes)
  BY <1>3, StartSound
<1>6. (U \cup {m}) \ {m} = U
  BY <1>4
<1> HIDE DEF q
<1>7. Sound(q, U)
  BY <1>5, <1>6
<1> QED BY <1>1, <1>2, <1>4, <1>5, <1>7 DEF q, r, m

LEMMA LabelStatementReady ==
    ASSUME IInv, CInv, stack # <<>>, LinearizeLabelStatement
    PROVE  CInv'
<1> DEFINE s == proc.current_scope
           n == Len(proc.nodes)
           b == IF Current.label_block # NoBlock THEN Current.label_block
                ELSE IF proc.nodes[proc.current_bb] = <<>> THEN proc.current_bb
                ELSE NewBlock(proc)
           q == IF b = NewBlock(proc) THEN CreateBlocks(proc, 1) ELSE proc
           new == [Current EXCEPT !.label_block = b, !.placed = TRUE]
           U == Promises(scopes, stack)
<1>1. /\ Current.label /\ ~Current.placed /\ list # "ended"
      /\ proc' = IF b = proc.current_bb THEN proc ELSE StartBlock(q, b)
      /\ scopes' = [scopes EXCEPT ![s] = new]
      /\ list' = "open" /\ UNCHANGED <<stack, captured, stmts, failed>>
  BY DEF LinearizeLabelStatement, Current
<1>2. /\ n \in Nat /\ s \in 1..Len(scopes) /\ Current \in ScopeType
      /\ Current = scopes[s] /\ proc.current_bb \in 1..n /\ ScopesOK(scopes)
      /\ scopes \in Seq(ScopeType) /\ Len(scopes) \in Nat
  BY Here DEF ProcOK
<1>3. Current.label_block \in 0..n
  BY <1>2, Here DEF Walking, LabelsOK, LabelOK
<1>4. Sound(proc, U) /\ Open(proc) /\ LabelsApart(scopes, stack)
  BY <1>1 DEF CInv, ListOK
<1>5. /\ b \in Nat /\ NewBlock(proc) = n + 1
      /\ \/ Owed(scopes, s) /\ b = scopes[s].label_block
         \/ b = proc.current_bb \/ b = n + 1
  BY <1>1, <1>2, <1>3 DEF NewBlock, NoBlock, Owed
<1>6. /\ new \in ScopeType /\ new.path = Current.path /\ new.base = Current.base
      /\ new.locals = Current.locals /\ new.label = Current.label
      /\ new.label_block = b /\ new.placed
  <2> HIDE DEF b
  <2> QED BY <1>2, <1>5 DEF ScopeType
<1> HIDE DEF b, new, U
<1>7. /\ scopes' \in Seq(ScopeType) /\ Len(scopes') = Len(scopes)
      /\ scopes'[s] = new /\ \A t \in 1..Len(scopes) : t # s => scopes'[t] = scopes[t]
  <2> DEFINE sd == [scopes EXCEPT ![s] = new]
  <2>1. /\ SameScopes(scopes, sd) /\ sd[s] = new
        /\ \A t \in 1..Len(scopes) : t # s => sd[t] = scopes[t]
    BY <1>2, <1>6, ScopeUpdate
  <2>2. scopes' = sd
    BY <1>1
  <2> HIDE DEF sd
  <2> QED BY <2>1, <2>2 DEF SameScopes
<1>8. b = proc.current_bb \/ b = n + 1 => b \notin U
  BY <1>2, <1>4 DEF Sound
<1>9. Promises(scopes', stack) \subseteq U \ {b} /\ LabelsApart(scopes', stack)
  <2> HIDE DEF s
  <2>1. \/ Owed(scopes, s) /\ b = scopes[s].label_block
        \/ b \notin Promises(scopes, stack)
    BY <1>5, <1>8 DEF U
  <2>2. scopes'[s].placed
    BY <1>6, <1>7
  <2> QED BY <1>2, <1>4, <1>7, <2>1, <2>2, LabelMet DEF U
<1>10. Sound(proc', U \ {b}) /\ Open(proc')
  <2>1. CASE b = proc.current_bb
    <3>1. proc' = proc
      BY <1>1, <2>1
    <3> QED BY <1>4, <3>1, FewerPromises
  <2>2. CASE b # proc.current_bb /\ b = n + 1
    <3>1. proc' = StartBlock(CreateBlocks(proc, 1), NewBlock(proc))
      BY <1>1, <1>5, <2>2
    <3>2. Sound(proc', U) /\ Open(proc')
      BY <1>4, <3>1, NextBlockSound
    <3> QED BY <3>2, FewerPromises
  <2>3. CASE b # proc.current_bb /\ b # n + 1
    <3>1. b \in U
      BY <1>2, <1>5, <2>3, OwedPromised DEF U
    <3>2. proc' = StartBlock(proc, b)
      BY <1>1, <1>5, <2>3
    <3> QED BY <1>4, <3>1, <3>2, StartSound
  <2> QED BY <2>1, <2>2, <2>3
<1>11. list' = "open" /\ UNCHANGED stack
  BY <1>1
<1> QED BY <1>9, <1>10, <1>11, SimpleReady

(* A jump: what is closed is closed in a block that waits. *)
LEMMA JumpSound ==
    ASSUME NEW p, NEW U, Sound(p, U), NEW b \in 1..Len(p.nodes), NEW c \in 0..Len(scopes),
           scopes \in Seq(ScopeType), c = NoScope \/ b \in U
    PROVE  LET q == JumpTo(p, b, c)
           IN  Sound(q, U) /\ Open(q)
<1> DEFINE q1 == InstructBr(p, b)
           q2 == StartBlock(CreateBlocks(q1, 1), NewBlock(q1))
           q == CloseInTarget(q2, b, c)
<1>1. Sound(q1, U)
  BY BrSound
<1> HIDE DEF q1
<1>2. Sound(q2, U) /\ Open(q2)
  BY <1>1, NextBlockSound
<1>3. q = JumpTo(p, b, c)
  BY DEF JumpTo, q1
<1> HIDE DEF q2
<1>4. CASE c = NoScope
  BY <1>2, <1>3, <1>4 DEF CloseInTarget
<1>5. CASE c # NoScope
  <2>1. q = InstructClose(q2, b, c, scopes[c])
    BY <1>5 DEF CloseInTarget
  <2>2. scopes[c] \in ScopeType /\ c \in Nat
    BY <1>5 DEF NoScope
  <2>3. b \in 1..Len(q2.nodes) /\ b # q2.current_bb /\ ~IsBlockTerminated(q2, b)
    BY <1>2, <1>5 DEF Sound
  <2> HIDE DEF q
  <2>4. /\ Sound(q, U) /\ Len(q.nodes) = Len(q2.nodes) /\ q.current_bb = q2.current_bb
        /\ \A d \in 1..Len(q2.nodes) : d # b => q.nodes[d] = q2.nodes[d]
    BY <1>2, <2>1, <2>2, <2>3, CloseSound
  <2>5. q2.current_bb \in 1..Len(q2.nodes)
    BY <1>2, SoundTypes
  <2>6. Open(q)
    BY <1>2, <2>3, <2>4, <2>5 DEF Open, IsBlockTerminated
  <2> QED BY <1>3, <2>4, <2>6
<1> QED BY <1>4, <1>5

LEMMA BreakReady ==
    ASSUME IInv, CInv, stack # <<>>, LinearizeBreak
    PROVE  CInv'
<1> DEFINE b == proc.current_break_target
           c == MinClosingScope(proc.current_break_scope)
           U == Promises(scopes, stack)
<1>1. /\ b # 0 /\ proc' = JumpTo(proc, b, c) /\ list # "ended" /\ list' = "open"
      /\ UNCHANGED <<scopes, stack, captured, failed>>
  BY DEF LinearizeBreak, CanMeet, Met, JumpTo, NoBlock
<1>2. b \in 1..Len(proc.nodes) /\ b \in HeldBy(stack)
  BY <1>1, BreakTargetLemma
<1>3. c \in 0..Len(scopes) /\ scopes \in Seq(ScopeType)
  BY MinClosingScopeLemma, Here
<1>4. Sound(proc, U) /\ LabelsApart(scopes, stack)
  BY DEF CInv
<1>5. b \in U
  BY <1>1, <1>2 DEF Promises, NoBlock
<1> HIDE DEF b, c, U
<1>6. Sound(proc', U) /\ Open(proc')
  BY <1>1, <1>2, <1>3, <1>4, <1>5, JumpSound
<1>7. Promises(scopes', stack) \subseteq U /\ LabelsApart(scopes', stack)
  BY <1>1, <1>4 DEF U
<1> QED BY <1>1, <1>6, <1>7, SimpleReady

(* The block of a label to come is made by the first goto to it. *)
LEMMA LabelMade ==
    ASSUME NEW sc \in Seq(ScopeType), NEW sd \in Seq(ScopeType), Len(sd) = Len(sc),
           NEW st, NEW s \in 1..Len(sc), NEW b, sd[s].label_block = b,
           b \notin Promises(sc, st), b # NoBlock,
           \A t \in 1..Len(sc) : t # s => sd[t] = sc[t], LabelsApart(sc, st)
    PROVE  Promises(sd, st) \subseteq Promises(sc, st) \cup {b} /\ LabelsApart(sd, st)
<1>1. DOMAIN sc = 1..Len(sc) /\ DOMAIN sd = 1..Len(sc)
  OBVIOUS
<1>2. \A t \in 1..Len(sc) : t # s => (Owed(sd, t) <=> Owed(sc, t)) /\ sd[t].label_block = sc[t].label_block
  BY DEF Owed
<1>3. Promises(sd, st) \subseteq Promises(sc, st) \cup {b}
  <2>1. ASSUME NEW t \in 1..Len(sc), ~sd[t].placed
        PROVE  sd[t].label_block \in OwedLabels(sc) \cup {b}
    <3>1. CASE t = s
      BY <3>1
    <3>2. CASE t # s
      BY <1>1, <2>1, <3>2 DEF OwedLabels
    <3> QED BY <3>1, <3>2
  <2>2. OwedLabels(sd) \subseteq OwedLabels(sc) \cup {b}
    BY <1>1, <2>1 DEF OwedLabels
  <2> QED BY <2>2 DEF Promises
<1>4. b \notin HeldBy(st)
  BY DEF Promises
<1>5. ASSUME NEW t \in 1..Len(sc), t # s, Owed(sd, t)
      PROVE  sd[t].label_block # b /\ sd[t].label_block \notin HeldBy(st)
  <2>1. Owed(sc, t) /\ sd[t].label_block = sc[t].label_block
    BY <1>2, <1>5
  <2>2. sc[t].label_block \in Promises(sc, st)
    BY <2>1, OwedPromised
  <2> QED BY <2>1, <2>2 DEF LabelsApart
<1>6. ASSUME NEW t \in 1..Len(sc), NEW u \in 1..Len(sc), Owed(sd, t), Owed(sd, u), u # t
      PROVE  sd[u].label_block # sd[t].label_block
  <2>1. CASE t = s
    BY <1>5, <1>6, <2>1
  <2>2. CASE u = s
    BY <1>5, <1>6, <2>2
  <2>3. CASE t # s /\ u # s
    BY <1>2, <1>6, <2>3 DEF LabelsApart
  <2> QED BY <2>1, <2>2, <2>3
<1>7. LabelsApart(sd, st)
  BY <1>4, <1>5, <1>6 DEF LabelsApart
<1> QED BY <1>3, <1>7

LEMMA GotoReady ==
    ASSUME Structured, IInv, CInv, stack # <<>>, NEW i \in DOMAIN Current.path,
           LinearizeGoto(Current.path[i])
    PROVE  CInv'
<1> DEFINE s == Current.path[i]
           n == Len(proc.nodes)
           c == MinClosingScope(s)
           known == scopes[s].label_block # NoBlock
           b == IF known THEN scopes[s].label_block ELSE NewBlock(proc)
           q == IF known THEN proc ELSE CreateBlocks(proc, 1)
           new == [scopes[s] EXCEPT !.label_block = b]
           U == Promises(scopes, stack)
<1>1. /\ CanMeet(GotoKind(s, c)) /\ list # "ended"
      /\ proc' = JumpTo(q, b, c)
      /\ scopes' = [scopes EXCEPT ![s] = new]
      /\ list' = "open" /\ UNCHANGED <<stack, captured, failed>>
  BY DEF LinearizeGoto, Met, JumpTo, CanMeet
<1>2. /\ n \in Nat /\ ScopesOK(scopes) /\ scopes \in Seq(ScopeType)
      /\ i \in 1..Len(PathOf(proc, scopes)) /\ s = PathOf(proc, scopes)[i]
      /\ Walking(proc, scopes, stack) /\ PlacedOK(scopes)
  BY Here DEF IInv, StateOK
<1>3. s \in 1..Len(scopes) /\ c \in 0..Len(scopes)
  BY <1>2, WalkingTypes, MinClosingScopeLemma
<1>4. scopes[s] \in ScopeType /\ scopes[s].label_block \in 0..n
  BY <1>2, <1>3 DEF Walking, LabelsOK, LabelOK
<1>5. /\ known => q = proc /\ b \in 1..n /\ b = scopes[s].label_block
      /\ ~known => q = CreateBlocks(proc, 1) /\ b = n + 1 /\ scopes[s].label_block = 0
  BY <1>2, <1>4 DEF NewBlock, NoBlock
<1>6. b \in Nat /\ b # NoBlock
  BY <1>2, <1>5 DEF NoBlock
<1>7. /\ new \in ScopeType /\ new.path = scopes[s].path /\ new.base = scopes[s].base
      /\ new.locals = scopes[s].locals /\ new.label = scopes[s].label
      /\ new.label_block = b /\ new.placed = scopes[s].placed
  <2> HIDE DEF b, s
  <2> QED BY <1>4, <1>6 DEF ScopeType
<1>8. Sound(proc, U) /\ LabelsApart(scopes, stack)
  BY DEF CInv
<1>9. known \/ ~known
  OBVIOUS
<1> HIDE DEF b, q, new, c, s, U, known
<1>10. /\ scopes' \in Seq(ScopeType) /\ Len(scopes') = Len(scopes)
       /\ scopes'[s] = new /\ \A t \in 1..Len(scopes) : t # s => scopes'[t] = scopes[t]
  <2> DEFINE sd == [scopes EXCEPT ![s] = new]
  <2>1. /\ SameScopes(scopes, sd) /\ sd[s] = new
        /\ \A t \in 1..Len(scopes) : t # s => sd[t] = scopes[t]
    BY <1>2, <1>3, <1>7, ScopeUpdate
  <2>2. scopes' = sd
    BY <1>1
  <2> HIDE DEF sd
  <2> QED BY <2>1, <2>2 DEF SameScopes
<1>11. CASE known
  <2>1. c = NoScope \/ b \in U
    <3>1. CASE scopes[s].placed
      BY <1>1, <3>1 DEF CanMeet, GotoKind, Structured
    <3>2. CASE ~scopes[s].placed
      <4>1. Owed(scopes, s)
        BY <1>5, <1>6, <1>11, <3>2 DEF Owed
      <4> QED BY <1>2, <1>3, <1>5, <1>11, <4>1, OwedPromised DEF U
    <3> QED BY <3>1, <3>2
  <2>2. Sound(proc', U) /\ Open(proc')
    BY <1>1, <1>2, <1>3, <1>5, <1>8, <1>11, <2>1, JumpSound
  <2>3. SameLabels(scopes, scopes')
    <3>1. DOMAIN scopes = 1..Len(scopes) /\ DOMAIN scopes' = 1..Len(scopes)
      BY <1>2, <1>10
    <3>2. ASSUME NEW t \in 1..Len(scopes)
          PROVE  /\ scopes'[t].label_block = scopes[t].label_block
                 /\ scopes'[t].placed = scopes[t].placed
      BY <1>5, <1>7, <1>10, <1>11
    <3> QED BY <1>10, <3>1, <3>2 DEF SameLabels
  <2>4. /\ OwedLabels(scopes') = OwedLabels(scopes) /\ LabelsApart(scopes', stack)
    BY <1>8, <2>3, LabelsUnchanged
  <2>5. Promises(scopes', stack) \subseteq U
    BY <2>4 DEF Promises, U
  <2> QED BY <1>1, <2>2, <2>4, <2>5, SimpleReady
<1>12. CASE ~known
  <2>1. q = CreateBlocks(proc, 1) /\ b = Len(proc.nodes) + 1 /\ n = Len(proc.nodes)
    BY <1>5, <1>12
  <2> DEFINE r == CreateBlocks(proc, 1)
  <2>2. /\ Sound(r, U \cup ((Len(proc.nodes) + 1)..(Len(proc.nodes) + 1)))
        /\ Len(r.nodes) = Len(proc.nodes) + 1
    BY <1>8, CreateSound
  <2> HIDE DEF r
  <2>3. q = r
    BY <2>1 DEF r
  <2>4. (Len(proc.nodes) + 1)..(Len(proc.nodes) + 1) = {b}
    BY <1>2, <2>1, NewBlockRange
  <2> DEFINE V == U \cup {b}
  <2>5. b \in V /\ Sound(q, V) /\ b \in 1..Len(q.nodes)
    BY <1>2, <2>1, <2>2, <2>3, <2>4
  <2> HIDE DEF V
  <2>6. Sound(proc', V) /\ Open(proc')
    BY <1>1, <1>2, <1>3, <2>5, JumpSound
  <2>7. b \notin U
    BY <1>2, <1>8, <2>1 DEF Sound
  <2>8. b \notin Promises(scopes, stack)
    BY <2>7 DEF U
  <2>9. scopes'[s].label_block = b
    BY <1>7, <1>10
  <2>10. Promises(scopes', stack) \subseteq Promises(scopes, stack) \cup {b} /\ LabelsApart(scopes', stack)
    <3>1. scopes \in Seq(ScopeType) /\ scopes' \in Seq(ScopeType) /\ Len(scopes') = Len(scopes)
      BY <1>2, <1>10
    <3>2. /\ \A t \in 1..Len(scopes) : t # s => scopes'[t] = scopes[t]
          /\ s \in 1..Len(scopes) /\ LabelsApart(scopes, stack) /\ b # NoBlock
      BY <1>3, <1>6, <1>8, <1>10
    <3> QED BY ONLY <2>8, <2>9, <3>1, <3>2, LabelMade
  <2>11. Promises(scopes', stack) \subseteq V
    BY <2>10 DEF U, V
  <2> QED BY <1>1, <2>6, <2>10, <2>11, SimpleReady
<1> QED BY <1>9, <1>11, <1>12

-----------------------------------------------------------------------------
(* A statement that enters a statement list. *)

LEMMA HeldPushed ==
    ASSUME NEW st \in Seq(FrameType), NEW f \in FrameType
    PROVE  /\ HeldBy(Append(st, f)) \subseteq HeldBy(st) \cup Held(f)
           /\ \A i \in 1..Len(st) : Held(st[i]) \subseteq HeldBy(st)
<1> DEFINE su == Append(st, f)
<1>1. /\ DOMAIN st = 1..Len(st) /\ DOMAIN su = 1..(Len(st) + 1) /\ Len(st) \in Nat
      /\ su[Len(st) + 1] = f
      /\ \A i \in 1..Len(st) : su[i] = st[i]
  OBVIOUS
<1> HIDE DEF su
<1>2. \A i \in 1..Len(st) : Held(st[i]) \subseteq HeldBy(st)
  BY <1>1 DEF HeldBy
<1>3. ASSUME NEW i \in 1..(Len(st) + 1) PROVE Held(su[i]) \subseteq HeldBy(st) \cup Held(f)
  <2>1. CASE i = Len(st) + 1
    BY <1>1, <2>1
  <2>2. CASE i # Len(st) + 1
    <3>1. i \in 1..Len(st)
      BY <1>1, <2>2
    <3> QED BY <1>1, <1>2, <3>1
  <2> QED BY <2>1, <2>2
<1>4. HeldBy(su) \subseteq HeldBy(st) \cup Held(f)
  BY <1>1, <1>3 DEF HeldBy
<1> QED BY <1>2, <1>4 DEF su

LEMMA OwedPushed ==
    ASSUME NEW sc \in Seq(ScopeType), NEW sd \in Seq(ScopeType), MoreScopes(sc, sd)
    PROVE  /\ OwedLabels(sd) \subseteq OwedLabels(sc) \cup {NoBlock}
           /\ \A s \in 1..Len(sd) : Owed(sd, s) =>
                 s \in 1..Len(sc) /\ Owed(sc, s) /\ sd[s] = sc[s]
<1>1. DOMAIN sc = 1..Len(sc) /\ DOMAIN sd = 1..Len(sd) /\ Len(sc) \in Nat /\ Len(sd) \in Nat
  OBVIOUS
<1>2. ASSUME NEW s \in 1..Len(sd), s \notin 1..Len(sc)
      PROVE  sd[s].label_block = NoBlock
  <2>1. s \in (Len(sc) + 1)..Len(sd)
    BY <1>1, <1>2
  <2> QED BY <2>1 DEF MoreScopes, NoBlock
<1>3. \A s \in 1..Len(sc) : s \in 1..Len(sd) /\ sd[s] = sc[s]
  BY <1>1 DEF MoreScopes
<1>4. OwedLabels(sd) \subseteq OwedLabels(sc) \cup {NoBlock}
  <2>1. ASSUME NEW s \in 1..Len(sd), ~sd[s].placed
        PROVE  sd[s].label_block \in OwedLabels(sc) \cup {NoBlock}
    <3>1. CASE s \in 1..Len(sc)
      BY <1>1, <1>3, <2>1, <3>1 DEF OwedLabels
    <3>2. CASE s \notin 1..Len(sc)
      BY <1>2, <3>2
    <3> QED BY <3>1, <3>2
  <2> QED BY <1>1, <2>1 DEF OwedLabels
<1>5. ASSUME NEW s \in 1..Len(sd), Owed(sd, s)
      PROVE  s \in 1..Len(sc) /\ Owed(sc, s) /\ sd[s] = sc[s]
  <2>1. s \in 1..Len(sc)
    BY <1>2, <1>5 DEF Owed
  <2> QED BY <1>3, <1>5, <2>1 DEF Owed
<1> QED BY <1>4, <1>5

(* The frame's own blocks are new. *)
Fresh(f, n) == \A b \in Held(f) : b = NoBlock \/ (b \in Nat /\ b > n)

LEMMA StackPushed ==
    ASSUME NEW st \in Seq(FrameType), StackApart(st), NEW f \in FrameType, FrameApart(f),
           NEW n \in Nat, HeldBy(st) \subseteq 0..n, Fresh(f, n)
    PROVE  StackApart(Append(st, f))
<1> DEFINE su == Append(st, f)
           m == Len(st)
<1>1. /\ m \in Nat /\ Len(su) = m + 1 /\ su[m + 1] = f
      /\ \A i \in 1..m : su[i] = st[i]
  OBVIOUS
<1> HIDE DEF su
<1>2. ASSUME NEW i \in 1..m PROVE Held(st[i]) \cap Held(f) \subseteq {NoBlock}
  <2>1. Held(st[i]) \subseteq 0..n
    BY HeldPushed
  <2> QED BY <2>1 DEF Fresh
<1> HIDE DEF m
<1>3. \A i \in 1..(m + 1) : i = m + 1 \/ i \in 1..m
  BY <1>1
<1>4. \A i \in 1..(m + 1) : FrameApart(su[i])
  BY <1>1, <1>3 DEF StackApart, m
<1>5. ASSUME NEW i \in 1..(m + 1), NEW j \in 1..(m + 1), i # j
      PROVE  Held(su[i]) \cap Held(su[j]) \subseteq {NoBlock}
  <2>1. CASE i = m + 1
    <3>1. j \in 1..m
      BY <1>3, <1>5, <2>1
    <3> QED BY <1>1, <1>2, <2>1, <3>1
  <2>2. CASE j = m + 1
    <3>1. i \in 1..m
      BY <1>3, <1>5, <2>2
    <3> QED BY <1>1, <1>2, <2>2, <3>1
  <2>3. CASE i \in 1..m /\ j \in 1..m
    BY <1>1, <1>5, <2>3 DEF StackApart, m
  <2> QED BY <1>3, <2>1, <2>2, <2>3
<1> QED BY <1>1, <1>4, <1>5 DEF StackApart, su

LEMMA LabelsPushed ==
    ASSUME NEW sc \in Seq(ScopeType), NEW sd \in Seq(ScopeType), MoreScopes(sc, sd),
           NEW st, NEW su, LabelsApart(sc, st), NEW f, NEW n \in Nat,
           HeldBy(su) \subseteq HeldBy(st) \cup Held(f), Fresh(f, n),
           Promises(sc, st) \subseteq 1..n
    PROVE  LabelsApart(sd, su)
<1>1. ASSUME NEW s \in 1..Len(sd), Owed(sd, s)
      PROVE  s \in 1..Len(sc) /\ Owed(sc, s) /\ sd[s] = sc[s]
  BY <1>1, OwedPushed
<1>2. ASSUME NEW s \in 1..Len(sd), Owed(sd, s)
      PROVE  sd[s].label_block \notin HeldBy(su)
  <2>1. s \in 1..Len(sc) /\ Owed(sc, s) /\ sd[s].label_block = sc[s].label_block
    BY <1>1, <1>2
  <2>2. sc[s].label_block \notin HeldBy(st)
    BY <2>1 DEF LabelsApart
  <2>3. sc[s].label_block \in 1..n
    BY <2>1, OwedPromised
  <2>4. sc[s].label_block \notin Held(f)
    BY <2>3 DEF Fresh, NoBlock
  <2> QED BY <2>1, <2>2, <2>4
<1>3. ASSUME NEW s \in 1..Len(sd), Owed(sd, s), NEW t \in 1..Len(sd), Owed(sd, t), t # s
      PROVE  sd[t].label_block # sd[s].label_block
  BY <1>1, <1>3 DEF LabelsApart
<1> QED BY <1>2, <1>3 DEF LabelsApart

LEMMA PushReady ==
    ASSUME IInv, CInv, stack # <<>>, scopes' \in Seq(ScopeType), MoreScopes(scopes, scopes'),
           NEW f \in FrameType, stack' = Append(stack, f), list' = "empty",
           FrameApart(f), Fresh(f, Len(proc.nodes)),
           NEW V, Sound(proc', V), Open(proc'),
           Promises(scopes, stack) \cup (Held(f) \ {NoBlock}) \subseteq V
    PROVE  CInv'
<1> DEFINE n == Len(proc.nodes)
<1>1. stack \in Seq(FrameType) /\ n \in Nat /\ scopes \in Seq(ScopeType)
  BY Here
<1>2. /\ Sound(proc, Promises(scopes, stack)) /\ StackApart(stack) /\ LabelsApart(scopes, stack)
  BY DEF CInv
<1>3. Promises(scopes, stack) \subseteq 1..n
  BY <1>2 DEF Sound
<1>4. HeldBy(stack) \subseteq 0..n
  BY <1>1, <1>3 DEF Promises, NoBlock
<1> HIDE DEF n
<1>5. Fresh(f, n)
  BY DEF n
<1>6. StackApart(stack')
  BY <1>1, <1>2, <1>4, <1>5, StackPushed
<1>7. HeldBy(stack') \subseteq HeldBy(stack) \cup Held(f)
  BY <1>1, HeldPushed
<1>8. LabelsApart(scopes', stack')
  BY <1>1, <1>2, <1>3, <1>5, <1>7, LabelsPushed
<1>9. Promises(scopes', stack') \subseteq V
  <2>1. OwedLabels(scopes') \subseteq OwedLabels(scopes) \cup {NoBlock}
    BY <1>1, OwedPushed
  <2> QED BY <1>7, <2>1 DEF Promises
<1>10. Sound(proc', Promises(scopes', stack'))
  BY <1>9, FewerPromises
<1> QED BY <1>6, <1>8, <1>10 DEF CInv, ListOK

LEMMA EnterCode ==
    ASSUME NEW q, NEW V, Sound(q, V), Open(q), NEW path, NEW locals, NEW label,
           Enter(q, path, locals, label), scopes \in Seq(ScopeType), ProcOK(proc'),
           scopes' \in Seq(ScopeType)
    PROVE  Sound(proc', V) /\ Open(proc') /\ MoreScopes(scopes, scopes') /\ list' = "empty"
<1> DEFINE s == Len(scopes) + 1
           sc == NewScope(q, Append(path, s), locals, label)
<1>1. /\ proc' = StartScope(q, s, sc) /\ scopes' = Append(scopes, sc) /\ list' = "empty"
  BY DEF Enter
<1>2. sc.label_block = 0
  BY DEF NewScope, NoBlock
<1> HIDE DEF sc
<1>3. proc'.nodes = q.nodes /\ proc'.current_bb = q.current_bb
  <2>1. q \in ProcType
    BY SoundTypes DEF ProcOK
  <2> QED BY <1>1, <2>1 DEF StartScope, ProcType
<1>4. Sound(proc', V) /\ Open(proc')
  BY <1>3, SameCode
<1>5. MoreScopes(scopes, scopes')
  <2>1. /\ Len(scopes) \in Nat /\ Len(scopes') = Len(scopes) + 1 /\ scopes'[Len(scopes) + 1] = sc
        /\ \A t \in 1..Len(scopes) : scopes'[t] = scopes[t]
    BY <1>1
  <2>2. \A t \in (Len(scopes) + 1)..(Len(scopes) + 1) : t = Len(scopes) + 1
    BY <2>1
  <2> QED BY <1>2, <2>1, <2>2 DEF MoreScopes
<1> QED BY <1>1, <1>4, <1>5

LEMMA EnterReady ==
    ASSUME IInv, IInv', CInv, stack # <<>>, NEW q, NEW V, Sound(q, V), Open(q),
           NEW path, NEW locals, NEW label, Enter(q, path, locals, label),
           NEW f \in FrameType, stack' = Append(stack, f),
           FrameApart(f), Fresh(f, Len(proc.nodes)),
           Promises(scopes, stack) \cup (Held(f) \ {NoBlock}) \subseteq V
    PROVE  CInv'
<1>1. ProcOK(proc') /\ scopes' \in Seq(ScopeType) /\ scopes \in Seq(ScopeType)
  BY Here DEF IInv, StateOK, ScopesOK
<1>2. Sound(proc', V) /\ Open(proc') /\ MoreScopes(scopes, scopes') /\ list' = "empty"
  BY <1>1, EnterCode
<1> QED BY <1>1, <1>2, PushReady

(* A frame without arms. *)
LEMMA OneBlock ==
    ASSUME NEW f, f.arms = <<>>
    PROVE  /\ FrameApart(f) /\ Held(f) = {f.exit}
           /\ \A n : f.exit = NoBlock \/ (f.exit \in Nat /\ f.exit > n) => Fresh(f, n)
<1>1. Held(f) = {f.exit}
  BY DEF Held, Range
<1>2. FrameApart(f)
  <2>1. Len(f.arms) = 0
    OBVIOUS
  <2> QED BY <2>1 DEF FrameApart
<1> QED BY <1>1, <1>2 DEF Fresh

LEMMA DoReady ==
    ASSUME IInv, IInv', CInv, stack # <<>>, NEW locals \in LocalLists, NEW label \in BOOLEAN,
           LinearizeDo(locals, label)
    PROVE  CInv'
<1> DEFINE f == Frame("do", NoBlock, <<>>, NoBlock)
<1>1. /\ Enter(proc, Current.path, locals, label) /\ stack' = Append(stack, f)
      /\ list # "ended"
  BY DEF LinearizeDo, CanMeet
<1>2. f \in FrameType /\ f.arms = <<>> /\ f.exit = NoBlock
  <2> DEFINE none == <<>>
  <2>1. none \in Seq(Nat \ {0}) /\ NoBlock \in Nat
    BY DEF NoBlock
  <2>2. f = Frame("do", NoBlock, none, NoBlock)
    OBVIOUS
  <2> HIDE DEF none, f
  <2>3. f \in FrameType /\ f.arms = none /\ f.exit = NoBlock
    BY <2>1, <2>2, FrameLemma
  <2> QED BY <2>3 DEF none
<1> HIDE DEF f
<1>3. FrameApart(f) /\ Held(f) = {NoBlock} /\ Fresh(f, Len(proc.nodes))
  BY <1>2, OneBlock
<1>4. Sound(proc, Promises(scopes, stack)) /\ Open(proc)
  BY <1>1 DEF CInv, ListOK
<1>5. Promises(scopes, stack) \cup (Held(f) \ {NoBlock}) \subseteq Promises(scopes, stack)
  BY <1>3
<1> QED BY <1>1, <1>2, <1>3, <1>4, <1>5, EnterReady

-----------------------------------------------------------------------------
(* Loops. *)

(* One instruction, in the current block or in one of its own. *)
LEMMA OpSound ==
    ASSUME NEW p, NEW U, Sound(p, U), Open(p), NEW insn \in InsnType,
           insn.op \notin Branches
    PROVE  LET q == Ops(p, << insn >>)
           IN  Sound(q, U) /\ Open(q) /\ Len(q.nodes) = Len(p.nodes)
<1> DEFINE code == <<insn>>
<1>1. code \in Seq(InsnType) /\ Plain(code)
  BY OneInsn
<1> HIDE DEF code
<1>2. LET q == Ops(p, code)
      IN  Sound(q, U) /\ Open(q) /\ Len(q.nodes) = Len(p.nodes)
  BY <1>1, OpsSound
<1> QED BY <1>2 DEF code

StartOp(p, b, insn) == Ops(StartBlock(p, b), << insn >>)
TestOp(p, b, insn, t, f) == InstructCbr(Ops(StartBlock(p, b), << insn >>), t, f)

LEMMA StartOpSound ==
    ASSUME NEW p, NEW U, Sound(p, U), NEW b \in U, NEW insn \in InsnType,
           insn.op \notin Branches
    PROVE  LET q == StartOp(p, b, insn)
           IN  Sound(q, U \ {b}) /\ Open(q) /\ Len(q.nodes) = Len(p.nodes)
<1> DEFINE r == StartBlock(p, b)
           V == U \ {b}
<1>1. Sound(r, V) /\ Open(r) /\ Len(r.nodes) = Len(p.nodes)
  BY StartSound
<1> HIDE DEF r, V
<1>2. LET q == Ops(r, << insn >>)
      IN  Sound(q, V) /\ Open(q) /\ Len(q.nodes) = Len(r.nodes)
  BY <1>1, OpSound
<1>3. StartOp(p, b, insn) = Ops(r, << insn >>)
  BY DEF StartOp, r
<1> DEFINE q == StartOp(p, b, insn)
<1>4. Sound(q, V) /\ Open(q) /\ Len(q.nodes) = Len(p.nodes)
  BY <1>1, <1>2, <1>3
<1> QED BY <1>4 DEF V

LEMMA TestOpSound ==
    ASSUME NEW p, NEW U, Sound(p, U), NEW b \in U, NEW insn \in InsnType,
           insn.op \notin Branches,
           NEW t \in 1..Len(p.nodes), NEW f \in 1..Len(p.nodes)
    PROVE  LET q == TestOp(p, b, insn, t, f)
           IN  Sound(q, U \ {b}) /\ Len(q.nodes) = Len(p.nodes)
<1> DEFINE r == StartOp(p, b, insn)
           V == U \ {b}
<1>1. Sound(r, V) /\ Open(r) /\ Len(r.nodes) = Len(p.nodes)
  BY StartOpSound
<1> HIDE DEF r, V
<1>2. t \in 1..Len(r.nodes) /\ f \in 1..Len(r.nodes)
  BY <1>1
<1>3. LET q == InstructCbr(r, t, f)
      IN  Sound(q, V) /\ Len(q.nodes) = Len(r.nodes)
  BY <1>1, <1>2, CbrSound
<1>4. TestOp(p, b, insn, t, f) = InstructCbr(r, t, f)
  BY DEF r, TestOp, StartOp
<1> DEFINE q == TestOp(p, b, insn, t, f)
<1>5. Sound(q, V) /\ Len(q.nodes) = Len(p.nodes)
  BY <1>1, <1>3, <1>4
<1> QED BY <1>5 DEF V

LEMMA OpInsn ==
    ASSUME NEW s \in Nat
    PROVE  LET insn == Insn("op", <<>>, -1, s)
           IN  insn \in InsnType /\ insn.op \notin Branches
<1>1. "op" \in Opcodes \ Branches /\ -1 \in Int
  BY DEF Opcodes, Branches
<1> QED BY <1>1, PlainInsn

LEMMA TestCondSound ==
    ASSUME NEW p, NEW U, Sound(p, U), NEW b \in U,
           NEW t \in 1..Len(p.nodes), NEW f \in 1..Len(p.nodes)
    PROVE  LET q == TestCond(p, b, t, f)
           IN  Sound(q, U \ {b}) /\ Len(q.nodes) = Len(p.nodes)
<1> DEFINE insn == Insn("op", <<>>, -1, p.current_scope)
<1>1. insn \in InsnType /\ insn.op \notin Branches
  <2>1. p.current_scope \in Nat
    BY SoundTypes
  <2> QED BY <2>1, OpInsn
<1>2. TestCond(p, b, t, f) = TestOp(p, b, insn, t, f)
  BY DEF TestCond, TestOp
<1>3. PICK i \in InsnType : i = insn /\ i.op \notin Branches
  BY <1>1
<1> DEFINE q == TestOp(p, b, i, t, f)
<1>4. Sound(q, U \ {b}) /\ Len(q.nodes) = Len(p.nodes)
  BY <1>3, TestOpSound
<1>5. TestCond(p, b, t, f) = q
  BY <1>2, <1>3
<1> HIDE DEF q
<1> QED BY <1>4, <1>5

LEMMA InLoopSound ==
    ASSUME NEW p, NEW U, Sound(p, U), NEW target \in Nat, NEW scope \in Nat
    PROVE  LET q == InLoop(p, target, scope)
           IN  Sound(q, U) /\ q.nodes = p.nodes /\ (Open(p) <=> Open(q))
<1> DEFINE q == InLoop(p, target, scope)
<1>1. ProcOK(p)
  BY SoundTypes
<1>2. ProcOK(q) /\ q.nodes = p.nodes
  BY <1>1, InLoopLemma
<1>3. q.current_bb = p.current_bb
  BY <1>1 DEF InLoop, ProcOK, ProcType
<1> HIDE DEF q
<1> QED BY <1>2, <1>3, SameCode DEF q

(* The blocks of a loop: test, body and end. *)
LEMMA LoopBlocks ==
    ASSUME NEW p, NEW U, Sound(p, U), NEW test, NEW body, NEW end,
           test = Len(p.nodes) + 1, body = Len(p.nodes) + 2, end = Len(p.nodes) + 3
    PROVE  LET q == CreateBlocks(p, 3)
           IN  /\ Sound(q, U \cup {test, body, end}) /\ Len(q.nodes) = end
               /\ Open(p) <=> Open(q)
<1> DEFINE q == CreateBlocks(p, 3)
           new == (Len(p.nodes) + 1)..(Len(p.nodes) + 3)
<1>1. Sound(q, U \cup new) /\ Len(q.nodes) = Len(p.nodes) + 3 /\ (Open(p) <=> Open(q))
  BY CreateSound
<1>2. new = {test, body, end}
  BY SoundTypes
<1> HIDE DEF q, new
<1> QED BY <1>1, <1>2 DEF q

LEMMA ThreeBlocks ==
    ASSUME NEW n \in Nat
    PROVE  /\ (n + 1)..(n + 3) = {n + 1, n + 2, n + 3}
           /\ (n + 1) + 1 = n + 2 /\ (n + 1) + 2 = n + 3
           /\ n + 1 \in 1..(n + 3) /\ n + 2 \in 1..(n + 3) /\ n + 3 \in 1..(n + 3)
           /\ n + 1 \in Nat /\ n + 3 \in Nat /\ n + 3 > n
OBVIOUS

LEMMA LoopFrame ==
    ASSUME IInv, stack # <<>>, NEW test \in Nat, NEW end \in Nat, NEW n \in Nat, end > n
    PROVE  LET f == Frame("loop", test, <<>>, end)
           IN  f \in FrameType /\ FrameApart(f) /\ Held(f) = {end} /\ Fresh(f, n)
<1> DEFINE none == <<>>
           f == Frame("loop", test, none, end)
<1>1. none \in Seq(Nat \ {0})
  OBVIOUS
<1> HIDE DEF none
<1>2. f \in FrameType /\ f.arms = none /\ f.exit = end
  BY <1>1, FrameLemma
<1> HIDE DEF f
<1>3. f.arms = <<>>
  BY <1>2 DEF none
<1>4. FrameApart(f) /\ Held(f) = {end} /\ Fresh(f, n)
  BY <1>2, <1>3, OneBlock
<1> QED BY <1>2, <1>4 DEF f, none

LEMMA WhileReady ==
    ASSUME IInv, IInv', CInv, stack # <<>>, NEW locals \in LocalLists, NEW label \in BOOLEAN,
           LinearizeWhile(locals, label)
    PROVE  CInv'
<1> DEFINE n == Len(proc.nodes)
           test == n + 1
           body == n + 2
           end == n + 3
           q0 == CreateBlocks(proc, 3)
           q1 == InLoop(q0, end, NextScope(scopes))
           q2 == TestCond(q1, test, body, end)
           q == StartBlock(q2, body)
           f == Frame("loop", test, <<>>, end)
           U == Promises(scopes, stack)
<1>1. n \in Nat /\ NextScope(scopes) \in Nat
  BY Here DEF NextScope
<1>2. NewBlock(proc) = test /\ NewBlock(proc) + 1 = body /\ NewBlock(proc) + 2 = end
  BY <1>1, ThreeBlocks DEF NewBlock
<1>3. Enter(q, Current.path, locals, label) /\ stack' = Append(stack, f)
  BY <1>2 DEF LinearizeWhile, NextScope
<1>4. Sound(proc, U)
  BY DEF CInv
<1>5. U \subseteq 1..n
  BY <1>4 DEF Sound
<1>6. Sound(q0, U \cup {test, body, end}) /\ Len(q0.nodes) = end
  <2> HIDE DEF U
  <2>1. test = Len(proc.nodes) + 1 /\ body = Len(proc.nodes) + 2 /\ end = Len(proc.nodes) + 3
    OBVIOUS
  <2> HIDE DEF test, body, end, n
  <2> QED BY <1>4, <2>1, LoopBlocks
<1> HIDE DEF U, q0
<1>7. /\ test \in 1..end /\ body \in 1..end /\ end \in 1..end /\ test \in Nat /\ end \in Nat
      /\ test \notin U /\ body \notin U /\ end \notin U /\ end > n /\ test # end /\ body # end
      /\ body # test
  BY <1>1, <1>5
<1> HIDE DEF test, body, end
<1>8. Sound(q1, U \cup {test, body, end}) /\ Len(q1.nodes) = end
  BY <1>1, <1>6, <1>7, InLoopSound
<1> HIDE DEF q1
<1> DEFINE W == U \cup {test, body, end}
<1>9. test \in W /\ Sound(q1, W)
  BY <1>8
<1> HIDE DEF W
<1>10. Sound(q2, W \ {test}) /\ Len(q2.nodes) = end
  <2>1. body \in 1..Len(q1.nodes) /\ end \in 1..Len(q1.nodes)
    BY <1>7, <1>8
  <2> QED BY <1>8, <1>9, <2>1, TestCondSound
<1> HIDE DEF q2
<1> DEFINE X == W \ {test}
<1>11. body \in X /\ Sound(q2, X)
  BY <1>7, <1>10 DEF W
<1> HIDE DEF X
<1>12. Sound(q, X \ {body}) /\ Open(q)
  BY <1>11, StartSound
<1> HIDE DEF q
<1>13. U \cup {end} \subseteq X \ {body}
  BY <1>7 DEF X, W
<1>14. f \in FrameType /\ FrameApart(f) /\ Held(f) = {end} /\ Fresh(f, n)
  BY <1>1, <1>7, LoopFrame
<1> HIDE DEF f
<1>15. Promises(scopes, stack) \cup (Held(f) \ {NoBlock}) \subseteq X \ {body}
  BY <1>13, <1>14 DEF U
<1> QED BY <1>3, <1>12, <1>14, <1>15, EnterReady

LEMMA RepeatReady ==
    ASSUME IInv, IInv', CInv, stack # <<>>, NEW locals \in LocalLists, NEW label \in BOOLEAN,
           LinearizeRepeat(locals, label)
    PROVE  CInv'
<1> DEFINE n == Len(proc.nodes)
           test == n + 1
           body == n + 2
           end == n + 3
           s == NextScope(scopes)
           q0 == CreateBlocks(proc, 3)
           p1 == InLoop(q0, end, s)
           q1 == InstructBr(p1, body)
           sc == NewScope(q1, Append(Current.path, s), locals, label)
           p2 == StartScope(q1, s, sc)
           q2 == StartBlock(p2, test)
           f == Frame("loop", test, <<>>, end)
           U == Promises(scopes, stack)
           W == U \cup {test, body, end}
<1>1. n \in Nat /\ s \in Nat /\ stack \in Seq(FrameType) /\ scopes \in Seq(ScopeType)
  BY Here DEF NextScope
<1>2. NewBlock(proc) = test /\ NewBlock(proc) + 1 = body /\ NewBlock(proc) + 2 = end
  BY <1>1, ThreeBlocks DEF NewBlock
<1>3. /\ scopes' = Append(scopes, sc) /\ list' = "empty" /\ stack' = Append(stack, f)
      /\ list # "ended"
  BY <1>2 DEF LinearizeRepeat, NextScope, CanMeet
<1>4. \E cond \in RepeatConditions(s, sc) :
         proc' = StartBlock(InstructCbr(Ops(q2, << cond >>), body, end), body)
  BY <1>2 DEF LinearizeRepeat, NextScope
<1>5. Sound(proc, U) /\ Open(proc)
  BY <1>3 DEF CInv, ListOK
<1>6. U \subseteq 1..n
  BY <1>5 DEF Sound
<1>7. Sound(q0, W) /\ Len(q0.nodes) = end /\ Open(q0)
  <2> HIDE DEF U
  <2>1. test = Len(proc.nodes) + 1 /\ body = Len(proc.nodes) + 2 /\ end = Len(proc.nodes) + 3
    OBVIOUS
  <2> HIDE DEF test, body, end, n
  <2> QED BY <1>5, <2>1, LoopBlocks
<1> HIDE DEF U, q0
<1>8. /\ test \in 1..end /\ body \in 1..end /\ end \in 1..end /\ test \in Nat /\ end \in Nat
      /\ test \notin U /\ body \notin U /\ end \notin U /\ end > n /\ test # end /\ body # end
      /\ body # test
  BY <1>1, <1>6
<1>9. test \in W
  OBVIOUS
<1> HIDE DEF test, body, end, W
<1>10. Sound(p1, W) /\ Len(p1.nodes) = end /\ Open(p1)
  BY <1>1, <1>7, <1>8, InLoopSound
<1> HIDE DEF p1
<1>11. Sound(q1, W) /\ Len(q1.nodes) = end
  BY <1>8, <1>10, BrSound
<1>12. ProcOK(q0) /\ ProcOK(p1) /\ ProcOK(q1)
  BY <1>7, <1>10, <1>11, SoundTypes
<1>13. q1.local_pseudos = proc.local_pseudos
  <2>1. SameContext(proc, q0)
    BY CreateBlocksLemma, Here DEF q0
  <2>2. p1.local_pseudos = q0.local_pseudos
    <3>1. q0 \in ProcType
      BY <1>12 DEF ProcOK
    <3> QED BY <3>1 DEF p1, InLoop, ProcType
  <2>3. SameContext(p1, q1)
    BY <1>8, <1>12, InstructBrLemma
  <2> QED BY <2>1, <2>2, <2>3 DEF SameContext
<1> HIDE DEF q1
<1>14. /\ ProcOK(p2) /\ p2.nodes = q1.nodes /\ p2.current_bb = q1.current_bb
       /\ MoreScopes(scopes, scopes') /\ ScopesOK(scopes') /\ sc \in ScopeType
  BY <1>3, <1>12, <1>13, EnterHere
<1>15. Sound(p2, W)
  BY <1>11, <1>14, SameCode
<1> HIDE DEF p2, sc, s
<1>16. PICK cond \in RepeatConditions(s, sc) :
          proc' = StartBlock(InstructCbr(Ops(q2, << cond >>), body, end), body)
  BY <1>4
<1>17. cond \in InsnType /\ cond.op \notin Branches
  <2>1. EscapedRegs(sc) \subseteq Nat
    BY <1>14, EscapedRegsLemma
  <2>2. CASE cond = Insn("op", <<>>, -1, s)
    BY <1>1, <2>2, OpInsn
  <2>3. CASE cond # Insn("op", <<>>, -1, s)
    <3>1. PICK op \in {"use", "closure"}, r \in EscapedRegs(sc) : cond = Insn(op, <<>>, r, s)
      BY <2>3 DEF RepeatConditions
    <3>2. op \in Opcodes \ Branches /\ r \in Int
      BY <2>1 DEF Opcodes, Branches
    <3> QED BY <1>1, <3>1, <3>2, PlainInsn
  <2> QED BY <2>2, <2>3
<1> DEFINE q4 == TestOp(p2, test, cond, body, end)
<1>18. Sound(q4, W \ {test}) /\ Len(q4.nodes) = Len(p2.nodes)
  <2>1. body \in 1..Len(p2.nodes) /\ end \in 1..Len(p2.nodes)
    BY <1>8, <1>11, <1>14
  <2> QED BY <1>9, <1>15, <1>17, <2>1, TestOpSound
<1>18a. proc' = StartBlock(q4, body)
  BY <1>16 DEF TestOp
<1> HIDE DEF q4
<1> DEFINE X == W \ {test}
<1>19. body \in X /\ Sound(q4, X)
  BY <1>8, <1>18 DEF W
<1> HIDE DEF X
<1>20. Sound(proc', X \ {body}) /\ Open(proc')
  BY <1>18a, <1>19, StartSound
<1>21. U \cup {end} \subseteq X \ {body}
  BY <1>8 DEF X, W
<1>22. f \in FrameType /\ FrameApart(f) /\ Held(f) = {end} /\ Fresh(f, n)
  BY <1>1, <1>8, LoopFrame
<1> HIDE DEF f
<1>23. Promises(scopes, stack) \cup (Held(f) \ {NoBlock}) \subseteq X \ {body}
  BY <1>21, <1>22 DEF U
<1>24. scopes' \in Seq(ScopeType)
  BY <1>14 DEF ScopesOK
<1> HIDE DEF X
<1> QED BY <1>3, <1>14, <1>20, <1>22, <1>23, <1>24, PushReady

(* The blocks of a numeric for but its end are started and end. *)
LEMMA ForCodeSound ==
    ASSUME NEW p, NEW U, Sound(p, U), NEW step \in {"positive", "unknown"},
           NEW L1 \in Nat \ {0},
           NEW Lbody, Lbody = (IF step = "positive" THEN L1 + 2 ELSE L1 + 3),
           Len(p.nodes) = Lbody + 1, L1..Lbody \subseteq U,
           NEW op \in InsnType, op.op \notin Branches,
           NEW first \in InsnType, first.op \notin Branches
    PROVE  LET q == ForCode(p, step, L1, Lbody, op, first)
           IN  Sound(q, U \ (L1..Lbody)) /\ Open(q)
<1> DEFINE L2 == L1 + 1
           L3 == L1 + 2
           Lend == Lbody + 1
           q3 == StartOp(p, L1, op)
           q4 == IF step = "positive" THEN InstructBr(q3, L2) ELSE InstructCbr(q3, L2, L3)
           q5 == TestOp(q4, L2, op, Lend, Lbody)
           q6 == IF step = "positive" THEN q5 ELSE TestOp(q5, L3, op, Lend, Lbody)
           q == StartOp(q6, Lbody, first)
           U1 == U \ {L1}
           U2 == U1 \ {L2}
           U3 == IF step = "positive" THEN U2 ELSE U2 \ {L3}
           U4 == U3 \ {Lbody}
<1>1. q = ForCode(p, step, L1, Lbody, op, first)
  BY DEF ForCode, StartOp, TestOp
<1>2. /\ L2 \in 1..Lend /\ L3 \in 1..Lend /\ Lbody \in 1..Lend /\ Lend \in 1..Lend
      /\ Len(p.nodes) = Lend
      /\ L1 \in L1..Lbody /\ L2 \in L1..Lbody /\ Lbody \in L1..Lbody
      /\ step # "positive" => L3 \in L1..Lbody /\ L3 # Lbody
      /\ L1 # L2 /\ L1 # L3 /\ L2 # L3 /\ L1 # Lbody /\ L2 # Lbody
  <2>1. CASE step = "positive"
    <3>1. Lbody = L1 + 2
      BY <2>1
    <3> QED BY <2>1, <3>1
  <2>2. CASE step # "positive"
    <3>1. Lbody = L1 + 3
      BY <2>2
    <3> QED BY <2>2, <3>1
  <2> QED BY <2>1, <2>2
<1> HIDE DEF L2, L3, Lend
<1>3. L1 \in U /\ L2 \in U /\ Lbody \in U /\ (step # "positive" => L3 \in U)
  BY <1>2
<1>4. Sound(q3, U1) /\ Open(q3) /\ Len(q3.nodes) = Lend
  <2>1. Sound(p, U) /\ L1 \in U /\ op \in InsnType /\ op.op \notin Branches
    BY <1>3
  <2>2. /\ Sound(StartOp(p, L1, op), U \ {L1}) /\ Open(StartOp(p, L1, op))
        /\ Len(StartOp(p, L1, op).nodes) = Len(p.nodes)
    BY ONLY <2>1, StartOpSound
  <2> QED BY <1>2, <2>2
<1> HIDE DEF q3
<1>5. L2 \in U1 /\ Lbody \in U2 /\ Lbody \in U3 /\ (step # "positive" => L3 \in U2)
  BY <1>2, <1>3
<1> HIDE DEF U1
<1>6. Sound(q4, U1) /\ Len(q4.nodes) = Lend
  <2>1. CASE step = "positive"
    <3>1. q4 = InstructBr(q3, L2)
      BY <2>1
    <3> HIDE DEF q4
    <3>2. L2 \in 1..Len(q3.nodes)
      BY <1>2, <1>4
    <3> QED BY <1>4, <3>1, <3>2, BrSound
  <2>2. CASE step # "positive"
    <3>1. q4 = InstructCbr(q3, L2, L3)
      BY <2>2
    <3> HIDE DEF q4
    <3>2. L2 \in 1..Len(q3.nodes) /\ L3 \in 1..Len(q3.nodes)
      BY <1>2, <1>4
    <3> QED BY <1>4, <3>1, <3>2, CbrSound
  <2> QED BY <2>1, <2>2
<1> HIDE DEF q4
<1>7. Sound(q5, U2) /\ Len(q5.nodes) = Lend
  <2>1. Lend \in 1..Len(q4.nodes) /\ Lbody \in 1..Len(q4.nodes)
    BY <1>2, <1>6
  <2>2. Sound(q4, U1) /\ L2 \in U1 /\ op \in InsnType /\ op.op \notin Branches
    BY <1>5, <1>6
  <2> HIDE DEF q5, q6, q, U2, U3, U4
  <2>3. /\ Sound(TestOp(q4, L2, op, Lend, Lbody), U1 \ {L2})
        /\ Len(TestOp(q4, L2, op, Lend, Lbody).nodes) = Len(q4.nodes)
    <3> HIDE DEF TestOp
    <3>1. \A t \in 1..Len(q4.nodes), f \in 1..Len(q4.nodes) :
             /\ Sound(TestOp(q4, L2, op, t, f), U1 \ {L2})
             /\ Len(TestOp(q4, L2, op, t, f).nodes) = Len(q4.nodes)
      BY ONLY <2>2, TestOpSound
    <3> QED BY ONLY <2>1, <3>1
  <2> QED BY <1>6, <2>3 DEF q5, U2
<1> HIDE DEF q5, U2
<1>8. Sound(q6, U3) /\ Len(q6.nodes) = Lend
  <2>1. CASE step = "positive"
    BY <1>7, <2>1
  <2>2. CASE step # "positive"
    <3>1. q6 = TestOp(q5, L3, op, Lend, Lbody) /\ U3 = U2 \ {L3}
      BY <2>2
    <3> HIDE DEF q6, U3
    <3>2. Lend \in 1..Len(q5.nodes) /\ Lbody \in 1..Len(q5.nodes) /\ L3 \in U2
      BY <1>2, <1>5, <1>7, <2>2
    <3>3. Sound(q5, U2) /\ op \in InsnType /\ op.op \notin Branches
      BY <1>7
    <3>4. /\ Sound(TestOp(q5, L3, op, Lend, Lbody), U2 \ {L3})
          /\ Len(TestOp(q5, L3, op, Lend, Lbody).nodes) = Len(q5.nodes)
      BY ONLY <3>2, <3>3, TestOpSound
    <3> QED BY <1>7, <3>1, <3>4
  <2> QED BY <2>1, <2>2
<1> HIDE DEF q6, U3
<1>9. Sound(q, U4) /\ Open(q)
  BY <1>5, <1>8, StartOpSound
<1> HIDE DEF q
<1>10. U \ (L1..Lbody) \subseteq U4
  BY <1>2 DEF U1, U2, U3
<1> HIDE DEF U4
<1> DEFINE V == U \ (L1..Lbody)
<1>11. V \subseteq U4
  BY <1>10
<1> HIDE DEF V
<1>12. Sound(q, V)
  BY <1>9, <1>11, FewerPromises
<1> QED BY <1>1, <1>9, <1>12 DEF V

LEMMA StartScopeSound ==
    ASSUME NEW p, NEW U, Sound(p, U), NEW s \in Nat, NEW new \in ScopeType
    PROVE  LET q == StartScope(p, s, new)
           IN  /\ Sound(q, U) /\ q.nodes = p.nodes /\ (Open(p) <=> Open(q))
               /\ q.local_pseudos = p.local_pseudos \cup Regs(new)
<1> DEFINE q == StartScope(p, s, new)
<1>1. ProcOK(p) /\ p \in ProcType
  BY SoundTypes DEF ProcOK
<1>2. Regs(new) \subseteq Int
  <2>1. new.base \in Nat /\ Len(new.locals) \in Nat
    BY ScopeFields
  <2> DEFINE a == new.base
             l == Len(new.locals)
  <2> HIDE DEF a, l
  <2>2. a \in Nat /\ l \in Nat
    BY <2>1 DEF a, l
  <2>3. a..(a + l - 1) \subseteq Int
    BY <2>2
  <2> QED BY <2>3 DEF Regs, a, l
<1>3. /\ q \in ProcType /\ q.nodes = p.nodes /\ q.current_bb = p.current_bb
      /\ q.local_pseudos = p.local_pseudos \cup Regs(new)
  <2> DEFINE regs == Regs(new)
  <2>1. q = [p EXCEPT !.current_scope = s, !.local_pseudos = @ \cup regs]
    BY DEF StartScope
  <2>2. regs \subseteq Int
    BY <1>2
  <2> HIDE DEF regs, q
  <2>3. /\ q \in ProcType /\ q.nodes = p.nodes /\ q.current_bb = p.current_bb
        /\ q.local_pseudos = p.local_pseudos \cup regs
    BY <1>1, <2>1, <2>2 DEF ProcType
  <2> QED BY <2>3 DEF regs
<1>4. ProcOK(q)
  BY <1>1, <1>3 DEF ProcOK
<1> HIDE DEF q
<1>5. Sound(q, U) /\ (Open(p) <=> Open(q))
  BY <1>3, <1>4, SameCode
<1> QED BY <1>3, <1>5 DEF q

LEMMA ForFrame ==
    ASSUME IInv, stack # <<>>, NEW head \in Nat, NEW end \in Nat, NEW n \in Nat, end > n
    PROVE  LET f == Frame("for", head, <<>>, end)
           IN  f \in FrameType /\ FrameApart(f) /\ Held(f) = {end} /\ Fresh(f, n)
<1> DEFINE none == <<>>
           f == Frame("for", head, none, end)
<1>1. none \in Seq(Nat \ {0})
  OBVIOUS
<1> HIDE DEF none
<1>2. f \in FrameType /\ f.arms = none /\ f.exit = end
  BY <1>1, FrameLemma
<1> HIDE DEF f
<1>3. f.arms = <<>>
  BY <1>2 DEF none
<1>4. FrameApart(f) /\ Held(f) = {end} /\ Fresh(f, n)
  BY <1>2, <1>3, OneBlock
<1> QED BY <1>2, <1>4 DEF f, none

(* Two scopes without a label block. *)
LEMMA TwoScopes ==
    ASSUME NEW sc \in Seq(ScopeType), NEW var, NEW body, var.label_block = 0,
           body.label_block = 0
    PROVE  MoreScopes(sc, sc \o << var, body >>)
<1> DEFINE sd == sc \o << var, body >>
           n == Len(sc)
<1>1. /\ n \in Nat /\ Len(sd) = n + 2 /\ sd[n + 1] = var /\ sd[n + 2] = body
      /\ \A s \in 1..n : sd[s] = sc[s]
  OBVIOUS
<1> HIDE DEF sd, n
<1>2. \A s \in (n + 1)..(n + 2) : s = n + 1 \/ s = n + 2
  BY <1>1
<1>3. \A s \in (n + 1)..Len(sd) : sd[s].label_block = 0
  BY <1>1, <1>2
<1>4. Len(sd) >= n
  BY <1>1
<1> QED BY <1>1, <1>3, <1>4 DEF MoreScopes, sd, n

LEMMA ForNumReady ==
    ASSUME IInv, IInv', CInv, stack # <<>>, NEW locals \in LocalLists, NEW label \in BOOLEAN,
           NEW step \in {"positive", "unknown"}, NEW escaped \in BOOLEAN,
           LinearizeForNum(step, escaped, locals, label)
    PROVE  CInv'
<1> DEFINE s == NextScope(scopes)
           lv == IF escaped THEN <<"escaped">> ELSE <<>>
           fresh == NewScope(proc, Append(Current.path, s), lv, FALSE)
           var == [fresh EXCEPT !.declared = TRUE]
           n == Len(proc.nodes)
           L1 == n + 1
           Lbody == IF step = "positive" THEN L1 + 2 ELSE L1 + 3
           Lend == Lbody + 1
           Lcount == Lend - L1 + 1
           op == Insn("op", <<>>, -1, s)
           first == IF escaped THEN Insn("init", <<>>, var.base, s) ELSE op
           p1 == StartScope(proc, s, var)
           q1 == Ops(p1, << op >>)
           p2 == CreateBlocks(q1, Lcount)
           q2 == InLoop(p2, Lend, s)
           q7 == ForCode(q2, step, L1, Lbody, op, first)
           body == NewScope(q7, Append(var.path, s + 1), locals, label)
           f == Frame("for", L1, <<>>, Lend)
           U == Promises(scopes, stack)
<1>1. /\ proc' = StartScope(q7, s + 1, body)
      /\ scopes' = scopes \o << var, body >>
      /\ list' = "empty" /\ stack' = Append(stack, f) /\ list # "ended"
  BY DEF LinearizeForNum, ForCode, NewBlock, NextScope, CanMeet
<1>2. /\ n \in Nat /\ s \in Nat /\ scopes \in Seq(ScopeType)
  BY Here DEF NextScope
<1>3. var \in ScopeType /\ var.label_block = 0
  <2>1. lv \in Seq({"plain", "escaped"})
    <3>1. <<"escaped">> \in Seq({"plain", "escaped"}) /\ <<>> \in Seq({"plain", "escaped"})
      OBVIOUS
    <3>2. CASE escaped
      BY <3>1, <3>2
    <3>3. CASE ~escaped
      BY <3>1, <3>3
    <3> QED BY <3>2, <3>3
  <2> HIDE DEF lv
  <2>2. fresh \in ScopeType /\ fresh.label_block = NoBlock
    BY <2>1, NewHere
  <2> HIDE DEF fresh
  <2> QED BY <2>2 DEF ScopeType, NoBlock
<1> HIDE DEF fresh, var, lv
<1>4. body.label_block = 0
  BY DEF NewScope, NoBlock
<1>5. MoreScopes(scopes, scopes')
  <2> HIDE DEF body
  <2> QED BY <1>1, <1>2, <1>3, <1>4, TwoScopes
<1> HIDE DEF body
<1>6. Sound(proc, U) /\ Open(proc)
  BY <1>1 DEF CInv, ListOK
<1>7. U \subseteq 1..n
  BY <1>6 DEF Sound
<1> HIDE DEF U
<1>8. Sound(p1, U) /\ p1.nodes = proc.nodes /\ Open(p1)
  BY <1>2, <1>3, <1>6, StartScopeSound
<1> HIDE DEF p1
<1>9. op \in InsnType /\ op.op \notin Branches
  BY <1>2, OpInsn
<1>10. first \in InsnType /\ first.op \notin Branches
  <2>1. var.base \in Int /\ "init" \in Opcodes \ Branches
    BY <1>3, ScopeFields DEF Opcodes, Branches
  <2> DEFINE i == Insn("init", <<>>, var.base, s)
  <2>2. i \in InsnType /\ i.op \notin Branches
    BY <1>2, <2>1, PlainInsn
  <2> HIDE DEF i, op
  <2>3. first = i \/ first = op
    BY DEF i
  <2> QED BY <1>9, <2>2, <2>3
<1> HIDE DEF op, first
<1>11. Sound(q1, U) /\ Open(q1) /\ Len(q1.nodes) = n
  BY <1>8, <1>9, OpSound
<1> HIDE DEF q1
<1>12. /\ Lcount \in Nat /\ Lend \in Nat /\ L1 \in Nat \ {0} /\ Lbody \in Nat \ {0}
       /\ n + Lcount = Lend /\ L1 = n + 1 /\ Lend = Lbody + 1 /\ Lend > n
       /\ (n + 1)..Lend = L1..Lbody \cup {Lend} /\ Lend \notin L1..Lbody
       /\ \A b \in 1..n : b \notin L1..Lbody
  BY <1>2, SMTT(20), ZenonT(40)
<1>13. Lbody = IF step = "positive" THEN L1 + 2 ELSE L1 + 3
  OBVIOUS
<1> HIDE DEF Lcount, Lend, L1, Lbody
<1> DEFINE W == U \cup (L1..Lbody \cup {Lend})
<1>14. Sound(p2, W) /\ Len(p2.nodes) = Lend
  <2> DEFINE m == Len(q1.nodes)
             new == (m + 1)..(m + Lcount)
  <2>1. Sound(p2, U \cup new) /\ Len(p2.nodes) = m + Lcount
    BY <1>11, <1>12, CreateSound
  <2>2. new = L1..Lbody \cup {Lend} /\ m + Lcount = Lend
    BY <1>11, <1>12
  <2> HIDE DEF p2, new, m
  <2> QED BY <2>1, <2>2
<1>15. L1..Lbody \subseteq W
  OBVIOUS
<1>16. U \cup {Lend} \subseteq W \ (L1..Lbody)
  BY <1>7, <1>12
<1> HIDE DEF p2, W
<1>17. Sound(q2, W) /\ Len(q2.nodes) = Lend
  BY <1>2, <1>12, <1>14, InLoopSound
<1> HIDE DEF q2
<1>18. Sound(q7, W \ (L1..Lbody)) /\ Open(q7)
  <2>1. Len(q2.nodes) = Lbody + 1 /\ L1 \in Nat \ {0}
    BY <1>12, <1>17
  <2> QED BY <1>9, <1>10, <1>13, <1>15, <1>17, <2>1, ForCodeSound
<1> HIDE DEF q7
<1> DEFINE V == W \ (L1..Lbody)
<1>19. Sound(q7, V) /\ Open(q7) /\ U \cup {Lend} \subseteq V
  BY <1>16, <1>18
<1> HIDE DEF V
<1>20. ProcOK(proc') /\ scopes' \in Seq(ScopeType)
  BY DEF IInv, StateOK, ScopesOK
<1>21. proc'.nodes = q7.nodes /\ proc'.current_bb = q7.current_bb
  <2>1. q7 \in ProcType
    BY <1>19, SoundTypes DEF ProcOK
  <2> QED BY <1>1, <2>1 DEF StartScope, ProcType
<1>22. Sound(proc', V) /\ Open(proc')
  BY <1>19, <1>20, <1>21, SameCode
<1>23. f \in FrameType /\ FrameApart(f) /\ Held(f) = {Lend} /\ Fresh(f, n)
  BY <1>2, <1>12, ForFrame
<1> HIDE DEF f
<1>24. Promises(scopes, stack) \cup (Held(f) \ {NoBlock}) \subseteq V
  BY <1>19, <1>23 DEF U
<1> QED BY <1>1, <1>5, <1>20, <1>22, <1>23, <1>24, PushReady

-----------------------------------------------------------------------------
(* The if. *)

(* The blocks of an if: its tests, its lists, its end. *)
IfLayout(len, n, else, if1, arm, last, end) ==
    /\ if1 = len + 1 /\ arm = if1 + n
    /\ last = (IF else THEN arm + n ELSE arm + n - 1)
    /\ end = last + 1

IfRanges(len, n, if1, arm, last, end) ==
    /\ n \in {1, 2}
    /\ if1 \in Nat \ {0} /\ arm \in Nat \ {0} /\ last \in Nat /\ end \in Nat \ {0}
    /\ if1 > len /\ arm > len /\ end > len /\ arm <= last
    /\ end - if1 + 1 \in Nat /\ len + (end - if1 + 1) = end
    /\ if1 \in 1..end /\ arm \in 1..end /\ end \in 1..end /\ arm + 1 \in 1..end
    /\ if1 # arm
    /\ n = 2 => /\ if1 + 1 \in 1..end /\ arm + 2 \in 1..end
                /\ if1 + 1 # if1 /\ if1 + 1 # arm /\ if1 + 1 > len

LEMMA IfBlocks ==
    ASSUME NEW len \in Nat, NEW n \in 1..MaxArms, NEW else \in BOOLEAN, NEW if1,
           NEW arm, NEW last, NEW end, IfLayout(len, n, else, if1, arm, last, end)
    PROVE  IfRanges(len, n, if1, arm, last, end)
<1>0. /\ if1 = len + 1 /\ arm = if1 + n
      /\ last = (IF else THEN arm + n ELSE arm + n - 1)
      /\ end = last + 1
  BY DEF IfLayout
<1>1. n = 1 \/ n = 2
  BY DEF MaxArms
<1>2. if1 \in Nat /\ arm \in Nat /\ if1 = len + 1 /\ arm = if1 + n
  BY <1>0, <1>1
<1>3. last = arm + n \/ last = arm + n - 1
  BY <1>0, Zenon
<1>4. end = last + 1
  BY <1>0
<1>5. last = arm + n \/ last = arm + (n - 1)
  BY <1>1, <1>2, <1>3
<1>6. CASE n = 1
  <2>1. last = arm + 1 \/ last = arm
    BY <1>2, <1>5, <1>6
  <2> QED BY <1>2, <1>4, <1>6, <2>1 DEF IfRanges
<1>7. CASE n = 2
  <2>1. last = arm + 2 \/ last = arm + 1
    BY <1>2, <1>5, <1>7
  <2> QED BY <1>2, <1>4, <1>7, <2>1 DEF IfRanges
<1> QED BY <1>1, <1>6, <1>7

(* The blocks of the lists of an if that are still to be started. *)
LEMMA IfFrame ==
    ASSUME IInv, stack # <<>>, NEW len \in Nat, NEW arm \in Nat, NEW last \in Nat,
           arm > len, arm <= last, NEW head \in Nat
    PROVE  LET f == Frame("if", head, [i \in 1..(last - arm) |-> arm + i], last + 1)
           IN  /\ f \in FrameType /\ FrameApart(f) /\ Fresh(f, len)
               /\ Held(f) \subseteq (arm + 1)..(last + 1)
<1> DEFINE n == last - arm
           end == last + 1
           arms == [i \in 1..n |-> arm + i]
           f == Frame("if", head, arms, end)
<1>1. n \in Nat /\ arm + n = last /\ end \in Nat /\ end = last + 1
  OBVIOUS
<1> HIDE DEF n, end
<1>2. \A i \in 1..n : /\ arm + i \in Nat \ {0} /\ arm + i \in (arm + 1)..end
                      /\ arm + i # end /\ arm + i > len
  BY <1>1
<1>3. /\ arms \in Seq(Nat \ {0}) /\ Len(arms) = n /\ DOMAIN arms = 1..n
      /\ \A i \in 1..n : arms[i] = arm + i
  BY <1>1, <1>2
<1> HIDE DEF arms
<1>4. f \in FrameType /\ f.arms = arms /\ f.exit = end
  BY <1>1, <1>3, FrameLemma
<1> HIDE DEF f
<1>5. \A k, l \in 1..n : k # l => arm + k # arm + l
  BY <1>1
<1>6. FrameApart(f)
  BY <1>2, <1>3, <1>4, <1>5 DEF FrameApart
<1>7. \A b \in Held(f) : b = end \/ \E i \in 1..n : b = arm + i
  BY <1>3, <1>4 DEF Held, Range
<1>8. Held(f) \subseteq (arm + 1)..end
  BY <1>1, <1>2, <1>7
<1>9. Fresh(f, len)
  <2>1. end > len /\ end \in Nat
    BY <1>1
  <2> QED BY <1>2, <1>7, <2>1 DEF Fresh
<1>10. /\ f \in FrameType /\ FrameApart(f) /\ Fresh(f, len)
       /\ Held(f) \subseteq (arm + 1)..(last + 1)
  BY <1>4, <1>6, <1>8, <1>9 DEF end
<1> QED BY <1>10 DEF f, arms, n, end

LEMMA IfReady ==
    ASSUME IInv, IInv', CInv, stack # <<>>, NEW locals \in LocalLists, NEW label \in BOOLEAN,
           NEW n \in 1..MaxArms, NEW else \in BOOLEAN,
           LinearizeIf(n, else, locals, label)
    PROVE  CInv'
<1> DEFINE len == Len(proc.nodes)
           if1 == len + 1
           true == if1 + n
           last == IF else THEN true + n ELSE true + n - 1
           end == last + 1
           count == end - if1 + 1
           f1 == IF n = 2 THEN if1 + 1 ELSE true + 1
           q1 == CreateBlocks(proc, count)
           q2 == TestCond(q1, if1, true, f1)
           q3 == IF n = 2 THEN TestCond(q2, if1 + 1, true + 1, true + 2) ELSE q2
           q == StartBlock(q3, true)
           head == IF else THEN last ELSE NoBlock
           arms == [i \in 1..(last - true) |-> true + i]
           f == Frame("if", head, arms, end)
           U == Promises(scopes, stack)
<1>1. /\ Enter(q, Current.path, locals, label) /\ stack' = Append(stack, f)
      /\ list # "ended"
  BY DEF LinearizeIf, NewBlock, CanMeet
<1>2. len \in Nat
  BY Here
<1>3. Sound(proc, U)
  BY DEF CInv
<1>4. U \subseteq 1..len
  BY <1>3 DEF Sound
<1>5. /\ n \in {1, 2}
      /\ if1 \in Nat \ {0} /\ true \in Nat \ {0} /\ last \in Nat /\ end \in Nat \ {0}
      /\ if1 > len /\ true > len /\ end > len /\ true <= last
      /\ count \in Nat /\ len + count = end
      /\ if1 \in 1..end /\ true \in 1..end /\ end \in 1..end /\ true + 1 \in 1..end
      /\ if1 # true
      /\ n = 2 => /\ if1 + 1 \in 1..end /\ true + 2 \in 1..end
                  /\ if1 + 1 # if1 /\ if1 + 1 # true /\ if1 + 1 > len
  <2> HIDE DEF len
  <2>1. IfLayout(len, n, else, if1, true, last, end)
    BY DEF IfLayout
  <2> HIDE DEF if1, true, last, end, q1, q2, q3, q, arms, f, f1, head
  <2>2. IfRanges(len, n, if1, true, last, end)
    BY <1>2, <2>1, IfBlocks
  <2> QED BY <2>2 DEF IfRanges
<1>6. f1 \in 1..end
  BY <1>5
<1>6a. if1 = len + 1 /\ true = if1 + n /\ end = last + 1
  OBVIOUS
<1>7. head \in Nat
  BY <1>5 DEF NoBlock
<1> HIDE DEF U, last, true, if1, f1, head, count
<1>8. f \in FrameType /\ FrameApart(f) /\ Fresh(f, len) /\ Held(f) \subseteq (true + 1)..end
  <2> HIDE DEF len
  <2>1. true \in Nat
    BY <1>5
  <2> QED BY <1>2, <1>5, <1>7, <2>1, IfFrame
<1> HIDE DEF f, arms, end
<1> DEFINE W == U \cup (if1..end)
           W1 == W \ {if1}
           W2 == IF n = 2 THEN W1 \ {if1 + 1} ELSE W1
           W3 == W2 \ {true}
<1>9. Sound(q1, W) /\ Len(q1.nodes) = end
  <2> HIDE DEF q1
  <2>1. Sound(q1, U \cup ((Len(proc.nodes) + 1)..(Len(proc.nodes) + count)))
        /\ Len(q1.nodes) = Len(proc.nodes) + count
    BY <1>3, <1>5, CreateSound DEF q1
  <2>2. Len(proc.nodes) + 1 = if1 /\ Len(proc.nodes) + count = end
    BY <1>5, <1>6a
  <2> QED BY <2>1, <2>2
<1>10. if1 \in W /\ true \in W2 /\ (n = 2 => if1 + 1 \in W1)
  BY <1>2, <1>5, <1>6a
<1>11. U \cup ((true + 1)..end) \subseteq W3
  <2>1. ASSUME NEW b \in (true + 1)..end
        PROVE  b \in if1..end /\ b # if1 /\ b # true /\ (n = 2 => b # if1 + 1)
    BY <1>2, <1>5, <1>6a
  <2>2. ASSUME NEW b \in U PROVE b # if1 /\ b # true /\ (n = 2 => b # if1 + 1)
    BY <1>2, <1>4, <1>5
  <2> QED BY <2>1, <2>2
<1> HIDE DEF q1, W
<1>12. Sound(q2, W1) /\ Len(q2.nodes) = end
  <2>1. /\ Sound(q1, W) /\ if1 \in W /\ true \in 1..Len(q1.nodes) /\ f1 \in 1..Len(q1.nodes)
    BY <1>5, <1>6, <1>9, <1>10
  <2> HIDE DEF q3, q, W2, W3
  <2>2. /\ Sound(TestCond(q1, if1, true, f1), W \ {if1})
        /\ Len(TestCond(q1, if1, true, f1).nodes) = Len(q1.nodes)
    BY ONLY <2>1, TestCondSound
  <2> QED BY <1>9, <2>2
<1> HIDE DEF q2, W1
<1>13. Sound(q3, W2) /\ Len(q3.nodes) = end
  <2>1. CASE n = 2
    <3> DEFINE if2 == if1 + 1
               t == true + 1
               u == true + 2
    <3>1. q3 = TestCond(q2, if2, t, u) /\ W2 = W1 \ {if2}
      BY <2>1
    <3>2. Sound(q2, W1) /\ if2 \in W1 /\ t \in 1..Len(q2.nodes) /\ u \in 1..Len(q2.nodes)
      BY <1>5, <1>10, <1>12, <2>1
    <3> HIDE DEF if2, t, u, q3, q, W2, W3
    <3>3. /\ Sound(TestCond(q2, if2, t, u), W1 \ {if2})
          /\ Len(TestCond(q2, if2, t, u).nodes) = Len(q2.nodes)
      BY ONLY <3>2, TestCondSound
    <3> QED BY <1>12, <3>1, <3>3
  <2>2. CASE n # 2
    <3>1. q3 = q2 /\ W2 = W1
      BY <2>2
    <3> HIDE DEF q3, W2
    <3> QED BY <1>12, <3>1
  <2> QED BY <2>1, <2>2
<1> HIDE DEF q3, W2
<1>14. Sound(q, W3) /\ Open(q)
  BY <1>10, <1>13, StartSound
<1> HIDE DEF q, W3
<1>15. Promises(scopes, stack) \cup (Held(f) \ {NoBlock}) \subseteq W3
  BY <1>8, <1>11 DEF U
<1>16. FrameApart(f) /\ Fresh(f, Len(proc.nodes))
  BY <1>8
<1> QED BY <1>1, <1>8, <1>14, <1>15, <1>16, EnterReady

-----------------------------------------------------------------------------
(* The ends of statement lists. *)

(* The code at the end of a scope is that of its upvalue closing. *)
LEMMA EndScopeSound ==
    ASSUME NEW p, NEW U, Sound(p, U), Closable(p), NEW s \in Nat, NEW sc \in ScopeType,
           ProcOK(EndScope(p, s, sc))
    PROVE  LET q == EndScope(p, s, sc)
           IN  /\ Sound(q, U) /\ Len(q.nodes) = Len(p.nodes)
               /\ Closable(q) /\ (Open(p) => Open(q))
<1> DEFINE r == InstructClose(p, p.current_bb, s, sc)
           q == EndScope(p, s, sc)
<1>1. /\ Sound(r, U) /\ Len(r.nodes) = Len(p.nodes) /\ Closable(r) /\ (Open(p) => Open(r))
  BY CloseHereSound
<1>2. q = [r EXCEPT !.local_pseudos = @ \ Regs(sc), !.current_scope = Parent(sc)]
  BY DEF EndScope
<1> HIDE DEF r
<1>3. r \in ProcType
  BY <1>1, SoundTypes DEF ProcOK
<1>4. q.nodes = r.nodes /\ q.current_bb = r.current_bb
  <2> HIDE DEF q
  <2> QED BY <1>2, <1>3 DEF ProcType
<1>5. ProcOK(q)
  OBVIOUS
<1> HIDE DEF q
<1>6. Sound(q, U) /\ (Open(r) <=> Open(q)) /\ (Closable(r) <=> Closable(q))
  BY <1>1, <1>4, <1>5, SameCode
<1> QED BY <1>1, <1>4, <1>6 DEF q

(* What the function in progress holds nobody else does. *)
LEMMA HeldApart ==
    ASSUME NEW st \in Seq(FrameType), Len(st) >= 1, StackApart(st),
           NEW sc, NEW i \in 1..(Len(st) - 1)
    PROVE  /\ Held(st[i]) \subseteq HeldBy(st)
           /\ Held(st[i]) \cap Held(st[Len(st)]) \subseteq {NoBlock}
<1>1. /\ DOMAIN st = 1..Len(st) /\ i \in 1..Len(st) /\ Len(st) \in 1..Len(st) /\ i # Len(st)
  OBVIOUS
<1> QED BY <1>1 DEF StackApart, HeldBy

LEMMA LabelsNotHeld ==
    ASSUME NEW st \in Seq(FrameType), NEW sc \in Seq(ScopeType), LabelsApart(sc, st)
    PROVE  OwedLabels(sc) \cap HeldBy(st) \subseteq {NoBlock}
<1>1. DOMAIN sc = 1..Len(sc)
  OBVIOUS
<1>2. ASSUME NEW s \in 1..Len(sc), ~sc[s].placed, sc[s].label_block # NoBlock
      PROVE  sc[s].label_block \notin HeldBy(st)
  BY <1>2 DEF LabelsApart, Owed
<1> QED BY <1>1, <1>2 DEF OwedLabels

(* With the function in progress goes all it held. *)
LEMMA PopPromises ==
    ASSUME NEW st \in Seq(FrameType), Len(st) >= 1, StackApart(st),
           NEW sc \in Seq(ScopeType), LabelsApart(sc, st)
    PROVE  LET su == SubSeq(st, 1, Len(st) - 1)
           IN  /\ Promises(sc, su) \subseteq Promises(sc, st) \ Held(st[Len(st)])
               /\ StackApart(su) /\ LabelsApart(sc, su)
<1> DEFINE n == Len(st) - 1
           su == SubSeq(st, 1, n)
           top == st[Len(st)]
<1>1. /\ DOMAIN st = 1..Len(st) /\ n \in Nat /\ Len(st) \in 1..Len(st)
      /\ Len(su) = n /\ DOMAIN su = 1..n
      /\ \A i \in 1..n : su[i] = st[i] /\ i \in 1..Len(st)
  <2>1. DOMAIN st = 1..Len(st) /\ Len(st) \in Nat /\ n \in Nat /\ Len(st) \in 1..Len(st)
        /\ Len(st) = n + 1
    OBVIOUS
  <2>2. \A i \in 1..n : i \in 1..Len(st)
    BY <2>1
  <2>3. DOMAIN su = 1..n /\ Len(su) = n /\ \A i \in 1..n : su[i] = st[i]
    <3>1. SubSeq(st, 1, n) = [i \in 1..n |-> st[i]]
      BY <2>1
    <3>2. n \in Nat /\ su = [i \in 1..n |-> st[i]]
      BY <2>1, <3>1
    <3> HIDE DEF su, n
    <3> QED BY <3>2
  <2> HIDE DEF su, n
  <2> QED BY <2>1, <2>2, <2>3
<1>2. \A i \in 1..n : /\ Held(st[i]) \subseteq HeldBy(st)
                      /\ Held(st[i]) \cap Held(top) \subseteq {NoBlock}
  BY HeldApart
<1>3. Held(top) \subseteq HeldBy(st)
  BY <1>1 DEF HeldBy
<1>4. OwedLabels(sc) \cap HeldBy(st) \subseteq {NoBlock}
  BY LabelsNotHeld
<1> HIDE DEF su, top, n
<1>5. HeldBy(su) \subseteq HeldBy(st) /\ HeldBy(su) \cap Held(top) \subseteq {NoBlock}
  BY <1>1, <1>2 DEF HeldBy
<1>6. Promises(sc, su) \subseteq Promises(sc, st) \ Held(top)
  BY <1>3, <1>4, <1>5 DEF Promises
<1>7. StackApart(su)
  BY <1>1 DEF StackApart
<1>8. LabelsApart(sc, su)
  BY <1>5 DEF LabelsApart
<1> QED BY <1>6, <1>7, <1>8 DEF su, n, top

LEMMA PopReady ==
    ASSUME IInv, CInv, stack # <<>>, Len(stack) > 1, UNCHANGED scopes, stack' = Pop,
           list' = "open", Open(proc'), NEW U, Promises(scopes, stack) \ Held(Top) \subseteq U,
           Sound(proc', U)
    PROVE  CInv'
<1>1. /\ stack \in Seq(FrameType) /\ scopes \in Seq(ScopeType) /\ Top = stack[Len(stack)]
      /\ Len(stack) \in Nat
  BY Here
<1>2. StackApart(stack) /\ LabelsApart(scopes, stack)
  BY DEF CInv
<1>3. /\ Promises(scopes, stack') \subseteq Promises(scopes, stack) \ Held(Top)
      /\ StackApart(stack') /\ LabelsApart(scopes, stack')
  BY <1>1, <1>2, PopPromises DEF Pop
<1>4. Sound(proc', Promises(scopes, stack'))
  <2>1. Promises(scopes, stack') \subseteq U
    BY <1>3
  <2> QED BY <2>1, FewerPromises
<1> QED BY <1>3, <1>4 DEF CInv, ListOK

(* What is known when a statement list that is not the function's ends. *)
LEMMA EndReady ==
    ASSUME IInv, CInv, stack # <<>>, NEW kind, AtListEnd(kind), kind # "function"
    PROVE  LET q == EndScope(proc, proc.current_scope, Current)
               U == Promises(scopes, stack)
           IN  /\ Sound(q, U) /\ Len(q.nodes) = Len(proc.nodes) /\ Closable(q)
               /\ kind = "do" => Open(q)
               /\ Len(stack) > 1 /\ Len(proc.nodes) \in Nat
               /\ \A b \in Held(Top) : b # NoBlock => b \in U
               /\ Top.exit \in Held(Top)
<1> DEFINE q == EndScope(proc, proc.current_scope, Current)
           U == Promises(scopes, stack)
<1>1. /\ Len(stack) > 1 /\ Top.kind = kind
  BY AtEnd
<1>2. /\ stack \in Seq(FrameType) /\ Top = stack[Len(stack)] /\ Len(stack) \in Nat \ {0}
      /\ proc.current_scope \in Nat /\ Current \in ScopeType /\ Len(proc.nodes) \in Nat
  BY Here
<1>3. Sound(proc, U) /\ ListOK(proc, stack, list)
  BY DEF CInv
<1>4. Closable(proc) /\ (kind = "do" => Open(proc))
  BY <1>1, <1>2, <1>3 DEF ListOK, Closable
<1>5. ProcOK(q)
  BY EndOfScope
<1> HIDE DEF U
<1>6. Sound(q, U) /\ Len(q.nodes) = Len(proc.nodes) /\ Closable(q) /\ (Open(proc) => Open(q))
  BY <1>2, <1>3, <1>4, <1>5, EndScopeSound
<1>7. \A b \in Held(Top) : b # NoBlock => b \in U
  <2>1. Len(stack) \in 1..Len(stack)
    BY <1>2
  <2> QED BY <1>2, <2>1, HeldPromised DEF U
<1>8. Top.exit \in Held(Top)
  BY DEF Held
<1> HIDE DEF q
<1> QED BY <1>1, <1>2, <1>4, <1>6, <1>7, <1>8 DEF q, U

LEMMA EndDoReady ==
    ASSUME IInv, CInv, stack # <<>>, EndDo
    PROVE  CInv'
<1> DEFINE U == Promises(scopes, stack)
<1>1. /\ AtListEnd("do") /\ stack' = Pop /\ list' = "open" /\ UNCHANGED scopes
      /\ proc' = EndScope(proc, proc.current_scope, Current)
  BY DEF EndDo
<1>2. /\ Sound(proc', U) /\ Open(proc') /\ Len(stack) > 1
  BY <1>1, EndReady
<1>3. Promises(scopes, stack) \ Held(Top) \subseteq U
  OBVIOUS
<1> HIDE DEF U
<1> QED BY <1>1, <1>2, <1>3, PopReady

(* The break target is not part of the code. *)
LEMMA RestoreSound ==
    ASSUME IInv, stack # <<>>, NEW p, NEW U, Sound(p, U)
    PROVE  LET q == RestoreBreak(p)
           IN  Sound(q, U) /\ (Open(p) <=> Open(q))
<1>1. Top.break_target \in Nat /\ Top.break_scope \in Nat
  BY Here DEF FrameType
<1>2. RestoreBreak(p) = InLoop(p, Top.break_target, Top.break_scope)
  BY DEF RestoreBreak, InLoop
<1> DEFINE t == Top.break_target
           u == Top.break_scope
<1>3. t \in Nat /\ u \in Nat /\ RestoreBreak(p) = InLoop(p, t, u)
  BY <1>1, <1>2
<1> HIDE DEF t, u
<1>4. Sound(InLoop(p, t, u), U) /\ (Open(p) <=> Open(InLoop(p, t, u)))
  BY <1>3, InLoopSound
<1> QED BY <1>3, <1>4

(* A loop ends with a branch back; its exit is started. *)
LEMMA BackSound ==
    ASSUME IInv, CInv, stack # <<>>, NEW kind, AtListEnd(kind), kind \in {"loop", "for"}
    PROVE  LET s == proc.current_break_scope
               q1 == EndScope(proc, proc.current_scope, Current)
               q2 == InstructClose(q1, q1.current_bb, s, scopes[s])
               q3 == InstructBr(q2, Top.head)
               U == Promises(scopes, stack)
           IN  /\ Sound(q3, U) /\ Top.exit \in U /\ Len(stack) > 1
               /\ U \ {Top.exit} = U \ Held(Top)
<1> DEFINE s == proc.current_break_scope
           q1 == EndScope(proc, proc.current_scope, Current)
           q2 == InstructClose(q1, q1.current_bb, s, scopes[s])
           q3 == InstructBr(q2, Top.head)
           U == Promises(scopes, stack)
<1>1. /\ s \in 1..Len(scopes) /\ Top.exit \in 1..Len(proc.nodes)
      /\ Top.head \in 1..Len(proc.nodes) /\ Held(Top) = {Top.exit}
  BY AtEnd
<1>2. scopes \in Seq(ScopeType) /\ Len(proc.nodes) \in Nat
  BY Here
<1>3. /\ Sound(q1, U) /\ Len(q1.nodes) = Len(proc.nodes) /\ Closable(q1) /\ Len(stack) > 1
      /\ \A b \in Held(Top) : b # NoBlock => b \in U
  BY EndReady
<1> HIDE DEF q1, U
<1>4. s \in Nat /\ scopes[s] \in ScopeType
  BY <1>1, <1>2
<1>5. Sound(q2, U) /\ Len(q2.nodes) = Len(q1.nodes)
  BY <1>3, <1>4, CloseHereSound
<1> HIDE DEF q2
<1>6. Sound(q3, U)
  <2>1. Top.head \in 1..Len(q2.nodes)
    BY <1>1, <1>3, <1>5
  <2> QED BY <1>5, <2>1, BrSound
<1>7. Top.exit \in U
  BY <1>1, <1>2, <1>3 DEF NoBlock
<1> QED BY <1>1, <1>3, <1>6, <1>7 DEF q2, q1, U

LEMMA EndLoopReady ==
    ASSUME IInv, CInv, stack # <<>>, EndLoop
    PROVE  CInv'
<1> DEFINE s == proc.current_break_scope
           q1 == EndScope(proc, proc.current_scope, Current)
           q2 == InstructClose(q1, q1.current_bb, s, scopes[s])
           q3 == InstructBr(q2, Top.head)
           q4 == StartBlock(q3, Top.exit)
           U == Promises(scopes, stack)
<1>1. /\ AtListEnd("loop") /\ stack' = Pop /\ list' = "open" /\ UNCHANGED scopes
      /\ proc' = RestoreBreak(q4)
  BY DEF EndLoop
<1>2. /\ Sound(q3, U) /\ Top.exit \in U /\ Len(stack) > 1 /\ U \ {Top.exit} = U \ Held(Top)
  BY <1>1, BackSound
<1> HIDE DEF q3
<1>3. Sound(q4, U \ {Top.exit}) /\ Open(q4)
  BY <1>2, StartSound
<1> HIDE DEF q4, U
<1> DEFINE V == U \ {Top.exit}
<1>4. Sound(q4, V)
  BY <1>3
<1>5. Promises(scopes, stack) \ Held(Top) \subseteq V
  BY <1>2 DEF U
<1> HIDE DEF V
<1>6. Sound(proc', V) /\ Open(proc')
  BY <1>1, <1>3, <1>4, RestoreSound
<1> QED BY <1>1, <1>2, <1>5, <1>6, PopReady

(* Nothing is closed for a scope without locals. *)
LEMMA NothingToClose ==
    ASSUME NEW p, NEW b, NEW s, NEW sc, sc.locals = <<>>
    PROVE  InstructClose(p, b, s, sc) = p
<1>1. DOMAIN sc.locals = {}
  OBVIOUS
<1>2. EscapedRegs(sc) = {}
  BY <1>1 DEF EscapedRegs
<1> QED BY <1>2 DEF InstructClose, NeedClose

LEMMA EndForNumReady ==
    ASSUME Structured, IInv, CInv, stack # <<>>, EndForNum
    PROVE  CInv'
<1> DEFINE s == proc.current_break_scope
           q1 == EndScope(proc, proc.current_scope, Current)
           q2 == InstructClose(q1, q1.current_bb, s, scopes[s])
           q3 == InstructBr(q2, Top.head)
           v == q1.current_scope
           q4 == EndScope(q3, v, scopes[v])
           q5 == StartBlock(q4, Top.exit)
           U == Promises(scopes, stack)
<1>1. /\ AtListEnd("for") /\ stack' = Pop /\ list' = "open" /\ UNCHANGED scopes
      /\ proc' = RestoreBreak(q5)
  BY DEF EndForNum
<1>2. /\ Sound(q3, U) /\ Top.exit \in U /\ Len(stack) > 1 /\ U \ {Top.exit} = U \ Held(Top)
  BY <1>1, BackSound
<1>3. /\ CursorOK(q1, scopes)
      /\ Len(PathOf(q1, scopes)) = Len(PathOf(proc, scopes)) - 1
      /\ \A i \in 1..Len(PathOf(q1, scopes)) : PathOf(q1, scopes)[i] = PathOf(proc, scopes)[i]
      /\ ProcOK(q1)
  BY <1>1, EndOfScope
<1>4. /\ Len(PathOf(proc, scopes)) > 2 /\ s \in 1..Len(scopes) /\ Top.head \in Nat \ {0}
      /\ IsVariable(scopes[PathOf(proc, scopes)[Len(PathOf(proc, scopes)) - 1]])
  BY <1>1, AtEnd
<1>5. Len(PathOf(proc, scopes)) \in Nat /\ ScopesOK(scopes) /\ scopes \in Seq(ScopeType)
  BY Here, WalkingTypes
<1>6. q3.current_scope = v /\ q3.local_pseudos = q1.local_pseudos /\ ProcOK(q3)
  <2> HIDE DEF q1
  <2>1. s \in Nat /\ scopes[s] \in ScopeType /\ q1.current_bb \in 1..Len(q1.nodes)
    BY <1>3, <1>4, <1>5 DEF ProcOK
  <2>2. ProcOK(q2) /\ SameContext(q1, q2)
    BY <1>3, <2>1, InstructCloseLemma
  <2> HIDE DEF q2
  <2>3. ProcOK(q3) /\ SameContext(q2, q3)
    BY <1>4, <2>2, InstructBrLemma
  <2> QED BY <2>2, <2>3 DEF SameContext
<1> HIDE DEF q1, q2, q3
<1>7. v \in 1..Len(scopes) /\ PathOf(q1, scopes)[Len(PathOf(q1, scopes))] = v
  <2>1. v \in 1..Len(scopes)
    BY <1>3 DEF CursorOK
  <2> QED BY <1>5, <2>1 DEF ScopesOK, ScopeOK, PathOf
<1>8. IsVariable(scopes[v])
  <2> DEFINE m == Len(PathOf(proc, scopes))
  <2>1. m \in Nat /\ m > 2 /\ Len(PathOf(q1, scopes)) = m - 1 /\ m - 1 \in 1..(m - 1)
    BY <1>3, <1>4, <1>5
  <2>2. PathOf(proc, scopes)[m - 1] = v
    BY <1>3, <1>7, <2>1
  <2> QED BY <1>4, <2>2
<1>9. scopes[v].locals = <<>>
  BY <1>8 DEF IsVariable, Structured
<1>10. InstructClose(q3, q3.current_bb, v, scopes[v]) = q3
  BY <1>9, NothingToClose
<1>11. ProcOK(q4)
  <2>1. CursorOK(q3, scopes)
    BY <1>3, <1>6 DEF CursorOK
  <2>2. Len(PathOf(q3, scopes)) > 1
    BY <1>3, <1>4, <1>5, <1>6 DEF PathOf
  <2> QED BY <1>5, <1>6, <2>1, <2>2, LeaveLemma
<1>12. q4.nodes = q3.nodes /\ q4.current_bb = q3.current_bb
  <2>1. q3 \in ProcType
    BY <1>6 DEF ProcOK
  <2> QED BY <1>10, <2>1 DEF EndScope, ProcType
<1> HIDE DEF v, q4
<1>13. Sound(q4, U)
  BY <1>2, <1>11, <1>12, SameCode
<1>14. Sound(q5, U \ {Top.exit}) /\ Open(q5)
  BY <1>2, <1>13, StartSound
<1> HIDE DEF q5, U
<1> DEFINE V == U \ {Top.exit}
<1>15. Sound(q5, V)
  BY <1>14
<1>16. Promises(scopes, stack) \ Held(Top) \subseteq V
  BY <1>2 DEF U
<1> HIDE DEF V
<1>17. Sound(proc', V) /\ Open(proc')
  BY <1>1, <1>14, <1>15, RestoreSound
<1> QED BY <1>1, <1>2, <1>16, <1>17, PopReady

LEMMA EndedArmSound ==
    ASSUME IInv, CInv, stack # <<>>, AtListEnd("if")
    PROVE  Sound(EndedArm, Promises(scopes, stack))
<1> DEFINE q1 == EndScope(proc, proc.current_scope, Current)
           U == Promises(scopes, stack)
<1>1. /\ Sound(q1, U) /\ Len(q1.nodes) = Len(proc.nodes)
  BY EndReady
<1>2. EndedArm = q1 \/ EndedArm = InstructBr(q1, Top.exit)
  BY DEF EndedArm
<1>3. Top.exit \in 1..Len(proc.nodes)
  <2>1. Top.kind = "if" /\ FrameOK(proc, Top)
    BY AtEnd
  <2> QED BY <2>1 DEF FrameOK
<1> HIDE DEF q1, U
<1>4. Sound(InstructBr(q1, Top.exit), U)
  <2>1. Top.exit \in 1..Len(q1.nodes)
    BY <1>1, <1>3
  <2> QED BY <1>1, <2>1, BrSound
<1>5. Sound(EndedArm, U)
  BY <1>1, <1>2, <1>4
<1> QED BY <1>5 DEF U

LEMMA EndIfReady ==
    ASSUME IInv, CInv, stack # <<>>, EndIf
    PROVE  CInv'
<1> DEFINE q == EndedArm
           U == Promises(scopes, stack)
           V == U \ {Top.exit}
<1>1. /\ AtListEnd("if") /\ stack' = Pop /\ list' = "open" /\ UNCHANGED scopes
      /\ Top.arms = <<>> /\ proc' = StartBlock(q, Top.exit)
  BY DEF EndIf
<1>2. Sound(q, U)
  BY <1>1, EndedArmSound
<1>3. /\ Len(stack) > 1 /\ \A b \in Held(Top) : b # NoBlock => b \in U
      /\ Top.exit \in Held(Top)
  BY <1>1, EndReady
<1>4. Top.exit # NoBlock
  <2>1. Top.kind = "if" /\ FrameOK(proc, Top)
    BY <1>1, AtEnd
  <2>2. Len(proc.nodes) \in Nat
    BY Here
  <2> QED BY <2>1, <2>2 DEF FrameOK, NoBlock
<1>5. Promises(scopes, stack) \ Held(Top) \subseteq V
  BY <1>3
<1> HIDE DEF q, U
<1>6. Sound(proc', V) /\ Open(proc')
  BY <1>1, <1>2, <1>3, <1>4, StartSound
<1> HIDE DEF V
<1> QED BY <1>1, <1>3, <1>5, <1>6, PopReady

(* The block of the arm that is started is held no more. *)
LEMMA TailHeld ==
    ASSUME NEW f \in FrameType, FrameApart(f), f.arms # <<>>
    PROVE  LET g == [f EXCEPT !.arms = Tail(@)]
           IN  /\ FrameApart(g) /\ Held(g) \subseteq Held(f) \ {Head(f.arms)}
               /\ Head(f.arms) \in Held(f) /\ Head(f.arms) # NoBlock
<1> DEFINE a == f.arms
           t == Tail(a)
           g == [f EXCEPT !.arms = Tail(@)]
           h == Head(a)
<1>1. /\ a \in Seq(Nat \ {0}) /\ a # <<>>
      /\ \A k, l \in 1..Len(a) : k # l => a[k] # a[l]
      /\ \A k \in 1..Len(a) : a[k] # f.exit
  BY DEF FrameType, FrameApart
<1>2. g.arms = t /\ g.exit = f.exit
  <2>1. g.arms = t /\ SameFrame(f, g)
    BY TailLemma
  <2> QED BY <2>1 DEF SameFrame
<1>3. /\ DOMAIN a = 1..Len(a) /\ Len(a) \in Nat \ {0} /\ h = a[1] /\ h \in Nat \ {0}
      /\ DOMAIN t = 1..Len(t) /\ Len(t) = Len(a) - 1 /\ \A k \in 1..Len(t) : t[k] = a[k + 1]
  <2> HIDE DEF a
  <2> QED BY <1>1
<1> HIDE DEF a, t, g, h
<1>4. /\ 1 \in 1..Len(a)
      /\ \A k \in 1..Len(t) : k + 1 \in 1..Len(a) /\ k + 1 # 1
      /\ \A k, l \in 1..Len(t) : k # l => k + 1 # l + 1
  BY <1>3
<1>5. FrameApart(g)
  BY <1>1, <1>2, <1>3, <1>4 DEF FrameApart
<1>6. h \in Held(f)
  <2>1. h \in Range(a)
    BY <1>3, <1>4 DEF Range
  <2> QED BY <2>1 DEF Held, a
<1>7. Range(t) \subseteq Range(a) \ {h}
  <2>1. ASSUME NEW k \in 1..Len(t) PROVE t[k] \in Range(a) /\ t[k] # h
    BY <1>1, <1>3, <1>4 DEF Range
  <2> QED BY <1>3, <2>1 DEF Range
<1>8. f.exit # h
  BY <1>1, <1>3, <1>4
<1>9. Held(g) \subseteq Held(f) \ {h}
  BY <1>2, <1>7, <1>8 DEF Held, a
<1>10. h # NoBlock
  BY <1>3 DEF NoBlock
<1> QED BY <1>5, <1>6, <1>9, <1>10 DEF g, h, a

(* The top of the stack gives up a block. *)
LEMMA StackGives ==
    ASSUME NEW st \in Seq(FrameType), Len(st) >= 1, StackApart(st),
           NEW su \in Seq(FrameType), Len(su) = Len(st),
           \A i \in 1..(Len(st) - 1) : su[i] = st[i], FrameApart(su[Len(st)]), NEW b,
           Held(su[Len(st)]) \subseteq Held(st[Len(st)]) \ {b},
           b \in Held(st[Len(st)]), b # NoBlock
    PROVE  StackApart(su) /\ HeldBy(su) \subseteq HeldBy(st) \ {b}
<1> DEFINE n == Len(st)
<1>1. /\ n \in Nat /\ n \in 1..n /\ DOMAIN st = 1..n /\ DOMAIN su = 1..n /\ Len(su) = n
      /\ Len(st) = n
  OBVIOUS
<1>2. \A i \in 1..n : i # n => su[i] = st[i]
  <2>1. ASSUME NEW i \in 1..n, i # n PROVE i \in 1..(n - 1)
    <3>1. n \in Nat /\ i \in 1..n
      OBVIOUS
    <3> HIDE DEF n
    <3> QED BY <2>1, <3>1
  <2> QED BY <2>1
<1>3. FrameApart(su[n]) /\ Held(su[n]) \subseteq Held(st[n]) \ {b} /\ b \in Held(st[n])
  OBVIOUS
<1> HIDE DEF n
<1>4. \A i \in 1..n : Held(su[i]) \subseteq Held(st[i]) /\ FrameApart(su[i])
  BY <1>1, <1>2, <1>3 DEF StackApart
<1>5. \A i \in 1..n : b \notin Held(su[i])
  <2> SUFFICES ASSUME NEW i \in 1..n PROVE b \notin Held(su[i])
    OBVIOUS
  <2>1. CASE i = n
    BY <1>3, <2>1
  <2>2. CASE i # n
    <3>1. Held(st[i]) \cap Held(st[n]) \subseteq {NoBlock}
      BY <1>1, <2>2 DEF StackApart
    <3> QED BY <1>2, <1>3, <2>2, <3>1
  <2> QED BY <2>1, <2>2
<1>6. StackApart(su)
  <2>1. \A i, j \in 1..n : i # j => Held(st[i]) \cap Held(st[j]) \subseteq {NoBlock}
    BY <1>1 DEF StackApart
  <2>2. \A i, j \in 1..n : i # j => Held(su[i]) \cap Held(su[j]) \subseteq {NoBlock}
    BY <1>4, <2>1
  <2> QED BY <1>1, <1>4, <2>2 DEF StackApart
<1>7. HeldBy(su) \subseteq HeldBy(st) \ {b}
  BY <1>1, <1>4, <1>5 DEF HeldBy
<1> QED BY <1>6, <1>7

(* What the stack promises once the next arm of an if is started. *)
LEMMA ArmPromises ==
    ASSUME IInv, IInv', CInv, stack # <<>>, NEW locals \in LocalLists, NEW label \in BOOLEAN,
           NextArm(locals, label)
    PROVE  LET b == Head(Top.arms)
               U == Promises(scopes, stack)
           IN  /\ b \in U /\ b \in Held(Top) /\ b # NoBlock
               /\ Promises(scopes', stack') \subseteq U \ {b}
               /\ Sound(proc', U \ {b}) /\ ListOK(proc', stack', list')
               /\ StackApart(stack') /\ LabelsApart(scopes', stack')
               /\ MoreScopes(scopes, scopes')
               /\ Len(stack') = Len(stack) /\ stack' \in Seq(FrameType)
               /\ \A i \in 1..(Len(stack) - 1) : stack'[i] = stack[i]
               /\ Held(stack'[Len(stack)]) \subseteq Held(Top)
<1> DEFINE e == EndedArm
           b == Head(Top.arms)
           q == StartBlock(e, b)
           path == scopes[e.current_scope].path
           n == Len(stack)
           g == [Top EXCEPT !.arms = Tail(@)]
           U == Promises(scopes, stack)
           V == U \ {b}
<1>1. /\ AtListEnd("if") /\ Top.arms # <<>> /\ Enter(q, path, locals, label)
      /\ stack' = [stack EXCEPT ![n] = g]
  BY DEF NextArm
<1>2. Sound(e, U)
  BY <1>1, EndedArmSound
<1>3. \A c \in Held(Top) : c # NoBlock => c \in U
  BY <1>1, EndReady
<1>4. /\ Len(proc.nodes) \in Nat /\ Top = stack[n] /\ Top \in FrameType /\ n \in Nat \ {0}
      /\ stack \in Seq(FrameType) /\ scopes \in Seq(ScopeType)
  BY Here
<1>5. /\ StackApart(stack) /\ LabelsApart(scopes, stack) /\ Sound(proc, U)
  BY DEF CInv
<1>6. FrameApart(Top)
  <2>1. n \in 1..n
    BY <1>4
  <2> QED BY <1>4, <1>5, <2>1 DEF StackApart
<1>7. g \in FrameType
  BY <1>1, <1>4, TailLemma
<1>8. /\ FrameApart(g) /\ Held(g) \subseteq Held(Top) \ {b} /\ b \in Held(Top) /\ b # NoBlock
  BY <1>1, <1>4, <1>6, TailHeld
<1> HIDE DEF e, b, g, U, path
<1>9. b \in U
  BY <1>3, <1>8
<1>10. Sound(q, V) /\ Open(q)
  BY <1>2, <1>9, StartSound
<1> HIDE DEF q
<1>11. ProcOK(proc') /\ scopes' \in Seq(ScopeType)
  BY DEF IInv, StateOK, ScopesOK
<1> HIDE DEF V
<1>12. Sound(proc', V) /\ Open(proc') /\ MoreScopes(scopes, scopes') /\ list' = "empty"
  BY <1>1, <1>4, <1>10, <1>11, EnterCode
<1>13. /\ stack' \in Seq(FrameType) /\ Len(stack') = n /\ stack'[n] = g
       /\ \A i \in 1..(n - 1) : stack'[i] = stack[i]
  BY <1>1, <1>4, <1>7
<1>14. StackApart(stack') /\ HeldBy(stack') \subseteq HeldBy(stack) \ {b}
  <2>1. n >= 1 /\ n = Len(stack)
    BY <1>4
  <2>2. FrameApart(stack'[n]) /\ Held(stack'[n]) \subseteq Held(stack[n]) \ {b}
        /\ b \in Held(stack[n])
    BY <1>4, <1>8, <1>13
  <2> HIDE DEF n
  <2>3. /\ Len(stack') = Len(stack) /\ \A i \in 1..(Len(stack) - 1) : stack'[i] = stack[i]
        /\ FrameApart(stack'[Len(stack)]) /\ b \in Held(stack[Len(stack)])
        /\ Held(stack'[Len(stack)]) \subseteq Held(stack[Len(stack)]) \ {b}
        /\ Len(stack) >= 1
    BY <1>13, <2>1, <2>2
  <2> QED BY <1>4, <1>5, <1>8, <1>13, <2>3, StackGives
<1>15. b \in HeldBy(stack)
  <2>1. DOMAIN stack = 1..n /\ n \in 1..n
    BY <1>4
  <2> QED BY <1>4, <1>8, <2>1 DEF HeldBy
<1>16. LabelsApart(scopes', stack')
  <2> DEFINE none == [arms |-> <<>>, exit |-> NoBlock]
             m == Len(proc.nodes)
  <2>1. none.arms = <<>> /\ none.exit = NoBlock
    OBVIOUS
  <2> HIDE DEF none
  <2>2. Held(none) = {NoBlock} /\ Fresh(none, m)
    BY <2>1, OneBlock
  <2>3. HeldBy(stack') \subseteq HeldBy(stack) \cup Held(none)
    BY <1>14
  <2>4. Promises(scopes, stack) \subseteq 1..m /\ m \in Nat
    BY <1>4, <1>5 DEF Sound, U
  <2> HIDE DEF m
  <2> QED BY <1>4, <1>5, <1>11, <1>12, <2>2, <2>3, <2>4, LabelsPushed
<1>17. Promises(scopes', stack') \subseteq V
  <2>1. OwedLabels(scopes') \subseteq OwedLabels(scopes) \cup {NoBlock}
    BY <1>4, <1>11, <1>12, OwedPushed
  <2>2. b \notin OwedLabels(scopes)
    BY <1>4, <1>5, <1>8, <1>15, LabelsNotHeld
  <2> QED BY <1>14, <2>1, <2>2 DEF Promises, U, V
<1>18. /\ b \in U /\ b \in Held(Top) /\ b # NoBlock /\ g \in FrameType
       /\ Held(g) \subseteq Held(Top) /\ stack'[n] = g
  BY <1>7, <1>8, <1>9, <1>13
<1>19. ListOK(proc', stack', list')
  BY <1>12 DEF ListOK
<1> QED BY <1>12, <1>13, <1>14, <1>16, <1>17, <1>18, <1>19 DEF b, U, V, n

LEMMA NextArmReady ==
    ASSUME IInv, IInv', CInv, stack # <<>>, NEW locals \in LocalLists, NEW label \in BOOLEAN,
           NextArm(locals, label)
    PROVE  CInv'
<1>1. Sound(proc', Promises(scopes', stack'))
  BY ArmPromises, FewerPromises
<1> QED BY <1>1, ArmPromises DEF CInv

LEMMA EndFunctionReady ==
    ASSUME IInv, IInv', CInv, stack # <<>>, EndFunction
    PROVE  CInv'
<1> DEFINE q == EndScope(proc, proc.current_scope, Current)
           ret == Insn("ret", <<EXIT_BLOCK>>, -1, NoScope)
           U == Promises(scopes, stack)
<1>1. /\ AtListEnd("function") /\ stack' = <<>> /\ UNCHANGED scopes
      /\ proc' = IF IsBlockTerminated(q, q.current_bb) THEN q ELSE AddInstruction(q, ret)
  BY DEF EndFunction
<1>2. /\ ProcOK(proc) /\ ScopesOK(scopes) /\ Current \in ScopeType
      /\ Current = scopes[proc.current_scope] /\ CursorOK(proc, scopes)
      /\ proc.current_scope \in Nat
  BY Here
<1>3. Parent(Current) = NoScope
  BY <1>1, AtEndOfFunction
<1>4. ProcOK(q)
  <2>1. proc.local_pseudos = 0..(Current.base + Len(Current.locals) - 1)
    BY <1>2 DEF CursorOK
  <2>2. Parent(Current) \in Nat /\ proc.current_scope \in Nat
    BY <1>2, <1>3 DEF NoScope
  <2> QED BY <1>2, <2>1, <2>2, EndScopeLemma
<1>5. Sound(proc, U) /\ Closable(proc)
  BY DEF CInv, ListOK, Closable
<1> HIDE DEF U
<1>6. Sound(q, U)
  BY <1>2, <1>4, <1>5, EndScopeSound
<1> HIDE DEF q
<1>7. Sound(proc', U)
  <2>1. CASE IsBlockTerminated(q, q.current_bb)
    BY <1>1, <1>6, <2>1
  <2>2. CASE ~IsBlockTerminated(q, q.current_bb)
    <3>1. Open(q) /\ NoScope \in Nat
      BY <2>2 DEF Open, NoScope
    <3>2. Sound(AddInstruction(q, ret), U)
      BY <1>6, <3>1, RetSound
    <3> QED BY <1>1, <2>2, <3>2
  <2> QED BY <2>1, <2>2
<1>8. Promises(scopes', stack') \subseteq U
  <2>1. HeldBy(stack') = {}
    BY <1>1 DEF HeldBy
  <2> QED BY <1>1, <2>1 DEF Promises, U
<1>9. Sound(proc', Promises(scopes', stack'))
  BY <1>7, <1>8, FewerPromises
<1> QED BY <1>1, <1>9 DEF CInv

-----------------------------------------------------------------------------
(* The induction. *)

LEMMA FirstReady ==
    ASSUME Init, IInv
    PROVE  CInv
<1>1. PICK locals \in LocalLists, label \in BOOLEAN :
        LET empty == [nodes |-> << <<>>, <<>> >>, current_bb |-> ENTRY_BLOCK,
                      current_scope |-> NoScope, local_pseudos |-> {},
                      current_break_target |-> NoBlock,
                      current_break_scope |-> NoScope]
            main == NewScope(empty, <<1>>, locals, label)
        IN  /\ proc = StartScope(empty, 1, main)
            /\ scopes = <<main>>
            /\ stack = << [kind |-> "function", head |-> NoBlock, arms |-> <<>>,
                           exit |-> NoBlock, break_target |-> NoBlock,
                           break_scope |-> NoScope] >>
            /\ list = "empty"
  BY DEF Init
<1> DEFINE empty == [nodes |-> << <<>>, <<>> >>, current_bb |-> ENTRY_BLOCK,
                     current_scope |-> NoScope, local_pseudos |-> {},
                     current_break_target |-> NoBlock,
                     current_break_scope |-> NoScope]
           main == NewScope(empty, <<1>>, locals, label)
           f == [kind |-> "function", head |-> NoBlock, arms |-> <<>>, exit |-> NoBlock,
                 break_target |-> NoBlock, break_scope |-> NoScope]
           nodes == << <<>>, <<>> >>
<1>2. /\ proc = StartScope(empty, 1, main) /\ scopes = <<main>> /\ stack = <<f>>
      /\ list = "empty"
  BY <1>1
<1>3. proc.nodes = nodes /\ proc.current_bb = ENTRY_BLOCK
  BY <1>2 DEF StartScope
<1>4. main.label_block = NoBlock
  BY DEF NewScope
<1>5. f.arms = <<>> /\ f.exit = NoBlock
  OBVIOUS
<1> HIDE DEF empty, main, f
<1>6. Held(f) = {NoBlock} /\ FrameApart(f)
  BY <1>5, OneBlock
<1>7. /\ Len(nodes) = 2 /\ \A b \in 1..2 : nodes[b] = <<>>
  OBVIOUS
<1> HIDE DEF nodes
<1>8. \A b \in 1..2 : Len(nodes[b]) = 0 /\ proc.nodes[b] = <<>>
  BY <1>3, <1>7
<1>9. Promises(scopes, stack) = {}
  <2>1. DOMAIN scopes = {1} /\ scopes[1] = main /\ DOMAIN stack = {1} /\ stack[1] = f
    BY <1>2
  <2>2. HeldBy(stack) = {NoBlock}
    BY <1>6, <2>1 DEF HeldBy
  <2>3. OwedLabels(scopes) \subseteq {NoBlock}
    BY <1>4, <2>1 DEF OwedLabels
  <2> QED BY <2>2, <2>3 DEF Promises
<1>10. ProcOK(proc)
  BY DEF IInv, StateOK
<1>11. CodeOK(proc)
  BY <1>3, <1>7, <1>8 DEF CodeOK, BlockOK
<1>12. Sound(proc, Promises(scopes, stack))
  BY <1>9, <1>10, <1>11 DEF Sound
<1>13. StackApart(stack)
  <2>1. Len(stack) = 1 /\ stack[1] = f
    BY <1>2
  <2>2. \A i \in 1..Len(stack) : i = 1
    BY <2>1
  <2> QED BY <1>6, <2>1, <2>2 DEF StackApart
<1>14. LabelsApart(scopes, stack)
  <2>1. Len(scopes) = 1 /\ scopes[1] = main
    BY <1>2
  <2>2. \A s \in 1..Len(scopes) : ~Owed(scopes, s)
    BY <1>4, <2>1 DEF Owed
  <2> QED BY <2>2 DEF LabelsApart
<1>15. ListOK(proc, stack, list)
  <2>1. ENTRY_BLOCK \in 1..2
    BY DEF ENTRY_BLOCK
  <2>2. Open(proc)
    BY <1>3, <1>8, <2>1 DEF Open, IsBlockTerminated
  <2> QED BY <1>2, <2>2 DEF ListOK
<1> QED BY <1>12, <1>13, <1>14, <1>15 DEF CInv

LEMMA KeptReady ==
    ASSUME Structured, IInv, CInv, [Next]_vars
    PROVE  CInv'
<1>1. CASE UNCHANGED vars
  BY <1>1 DEF vars, CInv
<1>2. CASE Finished
  BY <1>2 DEF Finished, vars, CInv
<1>3. CASE Step
  <2>1. stack # <<>> /\ IInv'
    BY <1>3, Preserved DEF Step, Done
  <2>2. CASE Simple
    <3>1. CASE LinearizeLocalStatement
      BY <2>1, <3>1, LocalStatementReady
    <3>2. CASE LinearizeLocalFunction
      BY <2>1, <3>2, LocalFunctionReady
    <3>3. CASE \E v \in Visible : LinearizeFunctionExpr(v)
      BY <2>1, <3>3, FunctionExprReady
    <3>4. CASE LinearizeExpressionStatement
      BY <2>1, <3>4, ExpressionStatementReady
    <3>5. CASE LinearizeReturn
      BY <2>1, <3>5, ReturnReady
    <3>6. CASE LinearizeLabelStatement
      BY <2>1, <3>6, LabelStatementReady
    <3>7. CASE \E i \in DOMAIN Current.path : LinearizeGoto(Current.path[i])
      BY <2>1, <3>7, GotoReady
    <3>8. CASE LinearizeBreak
      BY <2>1, <3>8, BreakReady
    <3>9. CASE HandleError
      BY <2>1, <3>9, HandleErrorReady
    <3> QED BY <2>2, <3>1, <3>2, <3>3, <3>4, <3>5, <3>6, <3>7, <3>8, <3>9 DEF Simple
  <2>3. CASE Compound
    <3>1. PICK locals \in LocalLists, label \in BOOLEAN :
            \/ LinearizeDo(locals, label)
            \/ LinearizeWhile(locals, label)
            \/ LinearizeRepeat(locals, label)
            \/ \E step \in {"positive", "unknown"}, escaped \in BOOLEAN :
                  LinearizeForNum(step, escaped, locals, label)
            \/ \E n \in 1..MaxArms, else \in BOOLEAN : LinearizeIf(n, else, locals, label)
            \/ NextArm(locals, label)
      BY <2>3 DEF Compound
    <3>2. CASE LinearizeDo(locals, label)
      BY <2>1, <3>2, DoReady
    <3>3. CASE LinearizeWhile(locals, label)
      BY <2>1, <3>3, WhileReady
    <3>4. CASE LinearizeRepeat(locals, label)
      BY <2>1, <3>4, RepeatReady
    <3>5. CASE \E step \in {"positive", "unknown"}, escaped \in BOOLEAN :
                  LinearizeForNum(step, escaped, locals, label)
      BY <2>1, <3>5, ForNumReady
    <3>6. CASE \E n \in 1..MaxArms, else \in BOOLEAN : LinearizeIf(n, else, locals, label)
      BY <2>1, <3>6, IfReady
    <3>7. CASE NextArm(locals, label)
      BY <2>1, <3>7, NextArmReady
    <3> QED BY <3>1, <3>2, <3>3, <3>4, <3>5, <3>6, <3>7
  <2>4. CASE EndOfList
    <3>1. EndDo => CInv'
      BY <2>1, EndDoReady
    <3>2. EndLoop => CInv'
      BY <2>1, EndLoopReady
    <3>3. EndForNum => CInv'
      BY <2>1, EndForNumReady
    <3>4. EndIf => CInv'
      BY <2>1, EndIfReady
    <3>5. EndFunction => CInv'
      BY <2>1, EndFunctionReady
    <3> QED BY <2>4, <3>1, <3>2, <3>3, <3>4, <3>5 DEF EndOfList
  <2> QED BY <1>3, <2>2, <2>3, <2>4 DEF Step
<1> QED BY <1>1, <1>2, <1>3 DEF Next

LEMMA BranchEndsBlockHolds ==
    ASSUME IInv, CInv
    PROVE  BranchEndsBlock
<1>1. CodeOK(proc) /\ \A b \in 1..Len(proc.nodes) : proc.nodes[b] \in Seq(InsnType)
  BY SoundTypes DEF CInv, Sound
<1>2. \A b \in 1..Len(proc.nodes) : DOMAIN proc.nodes[b] = 1..Len(proc.nodes[b])
  BY <1>1
<1> QED BY <1>1, <1>2 DEF BranchEndsBlock, Blocks, CodeOK, BlockOK

(* Whatever lists were entered and left, and however they ended, the next  *)
(* statement is linearized with the registers, the break target and the    *)
(* block it should be, and nothing is appended behind a branch.  Functions *)
(* with one of the three statements of Structured are left out: the        *)
(* registers and the break target are right for them too (ContextInForce), *)
(* but the code they append behind a branch is not.                        *)
THEOREM ContextKept ==
    ASSUME Structured
    PROVE  Spec => []ContextRestored
<1> DEFINE Inv == IInv /\ CInv
<1>1. Init => Inv
  BY Initially, FirstReady
<1>2. Inv /\ [Next]_vars => Inv'
  BY Preserved, KeptReady
<1>3. Inv => ContextRestored
  BY StackDisciplineHolds, BreakIsInnermostHolds, BranchEndsBlockHolds DEF ContextRestored
<1> HIDE DEF Inv
<1> QED BY <1>1, <1>2, <1>3, PTL DEF Spec
=============================================================================
