--------------------------- MODULE ResolverProofs ---------------------------
(***************************************************************************)
(* Proofs about Resolver, for any names and any bounds: programs of any    *)
(* size.  First the invariants, then that it implements Scoping.           *)
(***************************************************************************)
EXTENDS Resolver, WellFoundedInduction, TLAPS

-----------------------------------------------------------------------------
(* The inductive invariant.  It is stated over t, which stands for the     *)
(* tree, op for the constructs still open and at for the scopes they are   *)
(* in.                                                                     *)

FunctionType == [parent : Nat, upvalues : Seq(Nat), need_close : BOOLEAN]
ScopeType ==
    [function : Nat, parent : Nat, symbol_list : Seq(Nat), need_close : BOOLEAN]
VariableType ==
    [name : Names, block : Nat, escaped : BOOLEAN, modified : BOOLEAN, literal : BOOLEAN]

Typed(t) ==
    /\ t.functions \in Seq(FunctionType)
    /\ t.scopes \in Seq(ScopeType)
    /\ t.variables \in Seq(VariableType)

(* The variables of the program, of which the first one, _ENV, is none.    *)
Locals(t) == DOMAIN t.variables \ {1}

(* A variable that a name may mean.                                        *)
InScope(t, v) ==
    v \in Locals(t) /\ v \in ToSet(t.scopes[t.variables[v].block].symbol_list)

FunctionsLinked(t) ==
    /\ 1 \in DOMAIN t.functions /\ 1 \in ToSet(t.functions[1].upvalues)
    /\ \A f \in DOMAIN t.functions :
           /\ t.functions[f].parent \in 0 .. f - 1
           /\ ToSet(t.functions[f].upvalues) \subseteq DOMAIN t.variables

ScopesLinked(t) ==
    \A s \in DOMAIN t.scopes :
        /\ t.scopes[s].function \in DOMAIN t.functions
        /\ t.scopes[s].parent \in 0 .. s - 1
        /\ t.scopes[s].parent = NULL => t.scopes[s].function = 1
        /\ \A v \in ToSet(t.scopes[s].symbol_list) :
               v \in Locals(t) /\ t.variables[v].block = s

VariablesLinked(t) ==
    /\ 1 \in DOMAIN t.variables
    /\ t.variables[1].name = ENV /\ t.variables[1].block = NULL
    /\ \A v \in Locals(t) : t.variables[v].block \in DOMAIN t.scopes

(* The functions and the scopes are trees, a variable in a scope knows it, *)
(* and the chunk has _ENV.                                                 *)
Linked(t) == FunctionsLinked(t) /\ ScopesLinked(t) /\ VariablesLinked(t)

IsCaptured(t, v) == \E f \in DOMAIN t.functions : v \in ToSet(t.functions[f].upvalues)

VariablesMarked(t) ==
    \A v \in Locals(t) :
        /\ t.variables[v].escaped <=> IsCaptured(t, v)
        /\ t.variables[v].escaped => InScope(t, v)

ScopesMarked(t) ==
    \A s \in DOMAIN t.scopes :
        t.scopes[s].need_close <=>
            \E v \in ToSet(t.scopes[s].symbol_list) : t.variables[v].escaped

FunctionsMarked(t) ==
    \A f \in DOMAIN t.functions :
        t.functions[f].need_close <=>
            \E s \in DOMAIN t.scopes : t.scopes[s].function = f /\ t.scopes[s].need_close

Marked(t) == VariablesMarked(t) /\ ScopesMarked(t) /\ FunctionsMarked(t)

TreeOK(t) == Typed(t) /\ Linked(t) /\ Marked(t)

Reference ==
    [type : {"SYM_LOCAL"}, variable : Nat] \cup [type : {"SYM_UPVALUE"}, function : Nat, index : Nat]
Symbol == Reference \cup [type : {"SYM_GLOBAL"}, env : Reference]

Construct ==
    [kind : {"function", "body"}] \cup [kind : {"block"}, scopes : {1, 2}]
        \cup [kind : {"expressions"}, declares : Seq(Nat), updates : Seq(Symbol), loop : BOOLEAN]

(* A construct o that is open leads from scope a into scope b.             *)
Into(t, o, a, b) ==
    LET up == t.scopes[b].parent
        same == t.scopes[b].function = t.scopes[a].function
    IN  \/ /\ o.kind = "function" /\ up = a
           /\ t.functions[t.scopes[b].function].parent = t.scopes[a].function
        \/ o.kind = "block" /\ o.scopes = 1 /\ up = a /\ same
        \/ /\ o.kind = "block" /\ o.scopes = 2 /\ same
           /\ up \in DOMAIN t.scopes /\ t.scopes[up].parent = a
        \/ o.kind = "body" /\ b = a
        \/ o.kind = "expressions" /\ o.loop = TRUE /\ up = a /\ same
        \/ o.kind = "expressions" /\ o.loop = FALSE /\ b = a

(* The variables a construct will declare.                                 *)
Pending(o) == IF o.kind = "expressions" THEN ToSet(o.declares) ELSE {}
PendingIn(op) == UNION {Pending(op[i]) : i \in DOMAIN op}

(* The symbols it will update.                                             *)
SymbolOK(t, s) ==
    /\ s.type = "SYM_LOCAL" => s.variable \in DOMAIN t.variables
    /\ s.type = "SYM_UPVALUE" =>
           s.function \in DOMAIN t.functions /\ s.index \in DOMAIN t.functions[s.function].upvalues

OpenOK(t, o, b) ==
    /\ \A v \in Pending(o) : v \in Locals(t) /\ t.variables[v].block = b /\ ~InScope(t, v)
    /\ o.kind = "expressions" => \A s \in ToSet(o.updates) : SymbolOK(t, s)

Nested(t, op, at) ==
    /\ \A i \in DOMAIN op : OpenOK(t, op[i], at[i])
    /\ \A i \in DOMAIN op \ {1} : Into(t, op[i], at[i - 1], at[i])
    /\ \A i, j \in DOMAIN op : i # j => Pending(op[i]) \cap Pending(op[j]) = {}

(* The constructs, of which the first is the chunk and the innermost is in *)
(* scope b.                                                                *)
Context(t, op, b) ==
    /\ op # <<>> /\ op[1] = [kind |-> "function"]
    /\ \E at \in [DOMAIN op -> DOMAIN t.scopes] : Nested(t, op, at) /\ at[Len(op)] = b

AssignedOK(t, vs) == \A v \in vs : v \in DOMAIN t.variables /\ t.variables[v].modified

Tree == [functions |-> functions, scopes |-> scopes, variables |-> variables]

IInv ==
    /\ TreeOK(Tree)
    /\ open \in Seq(Construct)
    /\ Context(Tree, open, current_scope)
    /\ current_function = scopes[current_scope].function
    /\ AssignedOK(Tree, assigned)

-----------------------------------------------------------------------------
(* Looking a name up *)

LEMMA LeastNumber ==
    ASSUME NEW T, T \subseteq Nat, T # {}
    PROVE  \E x \in T : \A y \in T : x <= y
<1> DEFINE R == OpToRel(<, Nat)
<1>1. IsWellFoundedOn(R, Nat)
  BY NatLessThanWellFounded
<1>2. \E x \in T : \A y \in T : ~ (<<y, x>> \in R)
  <2> HIDE DEF R
  <2> QED BY <1>1, WFMin
<1>3. \A x \in Nat, y \in Nat : y < x => <<y, x>> \in R
  BY DEF OpToRel
<1> HIDE DEF R
<1>4. PICK x \in T : \A y \in T : ~ (<<y, x>> \in R)
  BY <1>2
<1>5. \A y \in T : ~(y < x)
  BY <1>3, <1>4
<1> QED BY <1>5

(* Least and greatest places at which something was found.                 *)
LEMMA LeastPlace ==
    ASSUME NEW m \in Nat, NEW T, T \subseteq 1 .. m, T # {}
    PROVE  Min(T) \in T
<1>1. T \subseteq Nat
  OBVIOUS
<1> QED BY <1>1, LeastNumber DEF Min

LEMMA GreatestPlace ==
    ASSUME NEW m \in Nat, NEW T, T \subseteq 1 .. m, T # {}
    PROVE  Max(T) \in T /\ \A y \in T : y <= Max(T)
<1> DEFINE U == {k \in Nat : m - k \in T}
<1>1. U \subseteq Nat /\ U # {}
  <2>1. PICK x \in T : TRUE
    OBVIOUS
  <2>2. m - x \in Nat /\ m - (m - x) = x
    BY <2>1
  <2> QED BY <2>1, <2>2
<1>2. PICK k \in U : \A y \in U : k <= y
  <2> HIDE DEF U
  <2> QED BY <1>1, LeastNumber
<1>3. m - k \in T /\ k \in Nat
  BY <1>2
<1>4. ASSUME NEW y \in T
      PROVE  m - k >= y
  <2>1. m - y \in U /\ y \in Nat
    OBVIOUS
  <2>2. k <= m - y
    BY <1>2, <2>1
  <2> QED BY <1>3, <2>1, <2>2
<1> HIDE DEF U
<1>5. Max(T) \in T /\ \A y \in T : Max(T) >= y
  BY <1>3, <1>4 DEF Max
<1>6. T \subseteq Nat
  OBVIOUS
<1>7. \A y \in T : y \in Nat /\ Max(T) \in Nat
  BY <1>5, <1>6
<1> QED BY <1>5, <1>7

LEMMA FoundInScope ==
    ASSUME Typed(Tree), NEW s \in DOMAIN scopes, NEW n
    PROVE  LET i == search_for_variable_in_block(s, n)
           IN  i # 0 => /\ scopes[s].symbol_list[i] \in ToSet(scopes[s].symbol_list)
                        /\ variables[scopes[s].symbol_list[i]].name = n
<1> DEFINE l == scopes[s].symbol_list
           I == {i \in 1 .. Len(l) : variables[l[i]].name = n}
<1>1. scopes[s] \in ScopeType
  BY DEF Typed, Tree
<1>2. Len(l) \in Nat /\ DOMAIN l = 1 .. Len(l)
  BY <1>1 DEF ScopeType
<1>3. search_for_variable_in_block(s, n) = IF I # {} THEN Max(I) ELSE 0
  BY DEF search_for_variable_in_block, SelectLastInSeq
<1>4. I # {} => Max(I) \in I
  BY <1>2, GreatestPlace
<1>5. ASSUME I # {}
      PROVE  Max(I) \in 1 .. Len(l) /\ variables[l[Max(I)]].name = n
  BY <1>4, <1>5
<1>6. \A i \in 1 .. Len(l) : l[i] \in ToSet(l)
  BY <1>2 DEF ToSet
<1> HIDE DEF l, I
<1> QED BY <1>3, <1>5, <1>6 DEF l

LEMMA FoundInFunction ==
    ASSUME NEW fs, NEW f, NEW n, fs[f].upvalues \in Seq(Nat)
    PROVE  LET u == search_upvalue_in_function(fs, f, n)
           IN  /\ u # 0 => u \in DOMAIN fs[f].upvalues /\ variables[fs[f].upvalues[u]].name = n
               /\ (\E v \in ToSet(fs[f].upvalues) : variables[v].name = n) => u # 0
<1> DEFINE l == fs[f].upvalues
           I == {i \in 1 .. Len(l) : variables[l[i]].name = n}
<1>1. Len(l) \in Nat /\ DOMAIN l = 1 .. Len(l)
  OBVIOUS
<1>2. search_upvalue_in_function(fs, f, n) = IF I # {} THEN Min(I) ELSE 0
  BY DEF search_upvalue_in_function, SelectInSeq
<1>3. I # {} => Min(I) \in I
  BY <1>1, LeastPlace
<1>4. (\E v \in ToSet(l) : variables[v].name = n) => I # {}
  <2>1. \A v \in ToSet(l) : \E i \in 1 .. Len(l) : v = l[i]
    BY <1>1 DEF ToSet
  <2> QED BY <2>1
<1>5. ASSUME I # {}
      PROVE  Min(I) \in 1 .. Len(l) /\ variables[l[Min(I)]].name = n
  BY <1>3, <1>5
<1> HIDE DEF l, I
<1> QED BY <1>1, <1>2, <1>4, <1>5 DEF l

LEMMA FoundVariable ==
    ASSUME NEW f, NEW v, functions[f].upvalues \in Seq(Nat)
    PROVE  upvalue_of_variable(f, v) # 0 <=> v \in ToSet(functions[f].upvalues)
<1> DEFINE l == functions[f].upvalues
           I == {i \in 1 .. Len(l) : l[i] = v}
<1>1. Len(l) \in Nat /\ DOMAIN l = 1 .. Len(l)
  OBVIOUS
<1>2. upvalue_of_variable(f, v) = IF I # {} THEN Min(I) ELSE 0
  BY DEF upvalue_of_variable, IndexOf, SelectInSeq
<1>3. I # {} => Min(I) \in I
  BY <1>1, LeastPlace
<1>4. v \in ToSet(l) <=> I # {}
  BY <1>1 DEF ToSet
<1> HIDE DEF l
<1> QED BY <1>1, <1>2, <1>3, <1>4 DEF l

(* The recursion from a scope outwards.                                    *)
SearchAt(h, n, s) ==
    IF s = NULL THEN NoSymbol
    ELSE LET i == search_for_variable_in_block(s, n)
             f == scopes[s].function
             p == scopes[s].parent
             u == search_upvalue_in_function(functions, f, n)
         IN  CASE i # 0 -> Local(scopes[s].symbol_list[i])
               [] i = 0 /\ p # NULL /\ scopes[p].function = f -> h[p]
               [] i = 0 /\ ~(p # NULL /\ scopes[p].function = f) /\ u # 0 -> Upvalue(f, u)
               [] OTHER -> h[p]

IsSearch(h, n, m) == h = [s \in 0 .. m |-> SearchAt(h, n, s)]

LEMMA SearchIs ==
    ASSUME NEW n
    PROVE  search_for_variable(n) = (CHOOSE h : IsSearch(h, n, Len(scopes)))[current_scope]
BY DEF search_for_variable, IsSearch, SearchAt

(* The recursion has a result: a scope has a smaller number than those in  *)
(* it.                                                                     *)
LEMMA SearchDefined ==
    ASSUME Typed(Tree), ScopesLinked(Tree), NEW n
    PROVE  \E h : IsSearch(h, n, Len(scopes))
<1> DEFINE N == Len(scopes)
           T == {m \in Nat : m <= N /\ ~ \E h : IsSearch(h, n, m)}
<1>1. N \in Nat /\ DOMAIN scopes = 1 .. N
  BY DEF Typed, Tree
<1>2. \A s \in 1 .. N : scopes[s].parent \in 0 .. s - 1
  BY <1>1 DEF ScopesLinked, Tree
<1>3. T = {}
  <2>1. SUFFICES ASSUME T # {} PROVE FALSE
    OBVIOUS
  <2>2. PICK m \in T : \A y \in T : m <= y
    <3>1. T \subseteq Nat
      OBVIOUS
    <3> HIDE DEF T
    <3> QED BY <2>1, <3>1, LeastNumber
  <2>3. m \in Nat /\ m <= N /\ ~ \E h : IsSearch(h, n, m)
    OBVIOUS
  <2>4. CASE m = 0
    <3> DEFINE h == [s \in 0 .. 0 |-> NoSymbol]
    <3>1. \A s \in 0 .. 0 : SearchAt(h, n, s) = NoSymbol
      BY DEF SearchAt, NULL
    <3>2. h = [s \in 0 .. 0 |-> SearchAt(h, n, s)]
      <4> DEFINE k == [s \in 0 .. 0 |-> SearchAt(h, n, s)]
      <4> HIDE DEF h
      <4>1. \A s \in 0 .. 0 : k[s] = NoSymbol
        BY <3>1
      <4> QED BY <4>1 DEF h
    <3> HIDE DEF h
    <3>3. IsSearch(h, n, m)
      BY <3>2, <2>4 DEF IsSearch
    <3> QED BY <3>3, <2>3
  <2>5. CASE m # 0
    <3>1. m - 1 \in Nat /\ m - 1 < m /\ m \in 1 .. N
      BY <2>3, <2>5, <1>1
    <3>2. m - 1 \notin T
      <4> HIDE DEF T
      <4> QED BY <2>2, <2>3, <3>1
    <3>3. PICK h : IsSearch(h, n, m - 1)
      BY <3>1, <3>2, <2>3
    <3> DEFINE k == [s \in 0 .. m |-> IF s = m THEN SearchAt(h, n, m) ELSE h[s]]
    <3>4. \A s \in 0 .. m - 1 : h[s] = SearchAt(h, n, s)
      BY <3>3 DEF IsSearch
    <3>5. \A s \in 0 .. m - 1 : k[s] = h[s]
      BY <2>3
    <3>6. \A s \in 0 .. m : SearchAt(k, n, s) = SearchAt(h, n, s)
      <4>1. ASSUME NEW s \in 0 .. m, s # NULL
            PROVE  k[scopes[s].parent] = h[scopes[s].parent]
        <5>1. s \in 1 .. N /\ s <= m
          BY <4>1, <2>3, <1>1 DEF NULL
        <5>2. scopes[s].parent \in 0 .. m - 1
          BY <5>1, <1>2, <2>3
        <5> HIDE DEF k
        <5> QED BY <5>2, <3>5
      <4> HIDE DEF k
      <4> QED BY <4>1 DEF SearchAt
    <3>7. \A s \in 0 .. m : k[s] = SearchAt(h, n, s)
      BY <2>3, <3>4
    <3>8. k = [s \in 0 .. m |-> SearchAt(k, n, s)]
      <4> DEFINE j == [s \in 0 .. m |-> SearchAt(k, n, s)]
      <4>1. DOMAIN k = 0 .. m
        OBVIOUS
      <4>2. k = [s \in 0 .. m |-> k[s]]
        OBVIOUS
      <4> HIDE DEF k
      <4>3. \A s \in 0 .. m : j[s] = k[s]
        BY <3>6, <3>7
      <4> QED BY <4>2, <4>3
    <3> HIDE DEF k
    <3>9. IsSearch(k, n, m)
      BY <3>8 DEF IsSearch
    <3> QED BY <3>9, <2>3
  <2> QED BY <2>4, <2>5
<1>4. N \notin T
  BY <1>3
<1> QED BY <1>1, <1>4

(* What a name may resolve to: a variable in scope, or an upvalue.         *)
Found(s, n) ==
    \/ \E v \in DOMAIN variables : s = Local(v) /\ InScope(Tree, v) /\ variables[v].name = n
    \/ \E f \in DOMAIN functions : \E i \in DOMAIN functions[f].upvalues :
           s = Upvalue(f, i) /\ variables[functions[f].upvalues[i]].name = n

(* A lookup finds what it may, and _ENV always: the chunk has it.          *)
LEMMA SearchRight ==
    ASSUME Typed(Tree), Linked(Tree), current_scope \in DOMAIN scopes, NEW n
    PROVE  LET s == search_for_variable(n)
           IN  /\ s = NoSymbol \/ Found(s, n)
               /\ n = ENV => s # NoSymbol
<1> DEFINE N == Len(scopes)
           h == CHOOSE h : IsSearch(h, n, N)
           Right(r) == (r = NoSymbol \/ Found(r, n)) /\ (n = ENV => r # NoSymbol)
           T == {s \in 1 .. N : ~Right(h[s])}
<1>1. N \in Nat /\ DOMAIN scopes = 1 .. N
  BY DEF Typed, Tree
<1>2. IsSearch(h, n, N)
  BY SearchDefined DEF Linked
<1>3. search_for_variable(n) = h[current_scope]
  BY SearchIs
<1> HIDE DEF h
<1>4. \A s \in 1 .. N : h[s] = SearchAt(h, n, s)
  BY <1>1, <1>2 DEF IsSearch
<1>5. ASSUME NEW s \in 1 .. N, scopes[s].parent # NULL => Right(h[scopes[s].parent])
      PROVE  Right(h[s])
  <2> DEFINE i == search_for_variable_in_block(s, n)
             f == scopes[s].function
             p == scopes[s].parent
             u == search_upvalue_in_function(functions, f, n)
  <2>1. s # NULL /\ f \in DOMAIN functions /\ (p = NULL => f = 1)
    BY <1>1 DEF Linked, ScopesLinked, Tree, NULL
  <2>2. functions[f].upvalues \in Seq(Nat)
    <3>1. functions \in Seq(FunctionType)
      BY DEF Typed, Tree
    <3> HIDE DEF f
    <3>2. functions[f] \in FunctionType
      BY <2>1, <3>1
    <3> QED BY <3>2 DEF FunctionType
  <2>3. /\ u # 0 => u \in DOMAIN functions[f].upvalues /\ variables[functions[f].upvalues[u]].name = n
        /\ (\E v \in ToSet(functions[f].upvalues) : variables[v].name = n) => u # 0
    BY <2>2, FoundInFunction
  <2>4. i # 0 => /\ scopes[s].symbol_list[i] \in ToSet(scopes[s].symbol_list)
                 /\ variables[scopes[s].symbol_list[i]].name = n
    BY <1>1, FoundInScope
  <2>5. h[s] = CASE i # 0 -> Local(scopes[s].symbol_list[i])
                 [] i = 0 /\ p # NULL /\ scopes[p].function = f -> h[p]
                 [] i = 0 /\ ~(p # NULL /\ scopes[p].function = f) /\ u # 0 -> Upvalue(f, u)
                 [] OTHER -> h[p]
    BY <1>4, <2>1 DEF SearchAt
  <2>6. CASE i # 0
    <3> DEFINE v == scopes[s].symbol_list[i]
    <3>1. v \in Locals(Tree) /\ variables[v].block = s /\ v \in ToSet(scopes[s].symbol_list)
      BY <1>1, <2>4, <2>6 DEF Linked, ScopesLinked, Tree
    <3>2. h[s] = Local(v) /\ variables[v].name = n
      BY <2>4, <2>5, <2>6
    <3> HIDE DEF v
    <3>3. v \in DOMAIN variables /\ InScope(Tree, v)
      BY <3>1 DEF InScope, Locals, Tree
    <3>4. Local(v) # NoSymbol
      BY DEF Local, NoSymbol
    <3> QED BY <3>2, <3>3, <3>4 DEF Found
  <2>7. CASE i = 0 /\ ~(p # NULL /\ scopes[p].function = f) /\ u # 0
    <3>1. h[s] = Upvalue(f, u)
      BY <2>5, <2>7
    <3>2. Upvalue(f, u) # NoSymbol
      BY DEF Upvalue, NoSymbol
    <3>3. Found(h[s], n)
      BY <3>1, <2>1, <2>3, <2>7 DEF Found
    <3> QED BY <3>1, <3>2, <3>3
  <2>8. CASE i = 0 /\ ~(~(p # NULL /\ scopes[p].function = f) /\ u # 0) /\ p # NULL
    <3>1. h[s] = h[p]
      BY <2>5, <2>8
    <3> QED BY <3>1, <2>8, <1>5
  <2>9. CASE i = 0 /\ ~(~(p # NULL /\ scopes[p].function = f) /\ u # 0) /\ p = NULL
    <3>1. u = 0 /\ f = 1
      BY <2>9, <2>1
    <3>2. h[s] = h[0]
      BY <2>5, <2>9 DEF NULL
    <3>3. h[0] = NoSymbol
      <4>1. 0 \in 0 .. N
        BY <1>1
      <4> QED BY <4>1, <1>2 DEF IsSearch, SearchAt, NULL
    <3>4. n # ENV
      <4>1. 1 \in ToSet(functions[1].upvalues) /\ variables[1].name = ENV
        BY DEF Linked, FunctionsLinked, VariablesLinked, Tree
      <4> QED BY <4>1, <3>1, <2>3
    <3> QED BY <3>2, <3>3, <3>4
  <2> HIDE DEF i, f, p, u
  <2> QED BY <2>6, <2>7, <2>8, <2>9
<1>6. T = {}
  <2>1. SUFFICES ASSUME T # {} PROVE FALSE
    OBVIOUS
  <2>2. T \subseteq Nat
    BY <1>1
  <2>3. PICK s \in T : \A y \in T : s <= y
    <3> HIDE DEF T
    <3> QED BY <2>1, <2>2, LeastNumber
  <2>4. s \in 1 .. N /\ ~Right(h[s])
    <3> HIDE DEF Right
    <3> QED OBVIOUS
  <2>5. scopes[s].parent \in 0 .. s - 1
    BY <1>1, <2>4 DEF Linked, ScopesLinked, Tree
  <2> DEFINE p == scopes[s].parent
  <2>6. p # NULL => p \in 1 .. N /\ p < s
    BY <1>1, <2>4, <2>5 DEF NULL
  <2> HIDE DEF p
  <2>7. p # NULL => p \notin T
    <3> HIDE DEF T
    <3> QED BY <2>2, <2>3, <2>6, <2>4, <1>1
  <2>8. p # NULL => Right(h[p])
    <3> HIDE DEF Right
    <3> QED BY <2>6, <2>7
  <2> HIDE DEF Right
  <2> QED BY <2>4, <2>8, <1>5 DEF p
<1>7. Right(h[current_scope])
  <2> HIDE DEF Right
  <2> QED BY <1>1, <1>6
<1> QED BY <1>3, <1>7

-----------------------------------------------------------------------------
(* How an action changes the tree *)

(* Nothing is taken away, and what is there keeps its place.               *)
Keeps(t, u) ==
    /\ \A f \in DOMAIN t.functions :
           /\ f \in DOMAIN u.functions
           /\ u.functions[f].parent = t.functions[f].parent
           /\ DOMAIN t.functions[f].upvalues \subseteq DOMAIN u.functions[f].upvalues
    /\ \A s \in DOMAIN t.scopes :
           /\ s \in DOMAIN u.scopes
           /\ u.scopes[s].function = t.scopes[s].function
           /\ u.scopes[s].parent = t.scopes[s].parent
    /\ \A v \in DOMAIN t.variables :
           /\ v \in DOMAIN u.variables
           /\ u.variables[v].name = t.variables[v].name
           /\ u.variables[v].block = t.variables[v].block
           /\ t.variables[v].modified => u.variables[v].modified

LEMMA KeepsSame ==
    ASSUME NEW t
    PROVE  Keeps(t, t)
BY DEF Keeps

(* New functions, scopes and variables, and declarations of variables that *)
(* are not captured.                                                       *)
FunctionsExtended(t, u) ==
    /\ DOMAIN t.functions \subseteq DOMAIN u.functions
    /\ \A f \in DOMAIN t.functions : u.functions[f] = t.functions[f]
    /\ \A f \in DOMAIN u.functions \ DOMAIN t.functions :
           /\ u.functions[f].parent \in 0 .. f - 1
           /\ u.functions[f].upvalues = <<>>
           /\ u.functions[f].need_close = FALSE

ScopesExtended(t, u) ==
    /\ DOMAIN t.scopes \subseteq DOMAIN u.scopes
    /\ \A s \in DOMAIN t.scopes :
           /\ u.scopes[s].function = t.scopes[s].function
           /\ u.scopes[s].parent = t.scopes[s].parent
           /\ u.scopes[s].need_close = t.scopes[s].need_close
           /\ ToSet(t.scopes[s].symbol_list) \subseteq ToSet(u.scopes[s].symbol_list)
    /\ \A s \in DOMAIN u.scopes \ DOMAIN t.scopes :
           /\ u.scopes[s].function \in DOMAIN u.functions
           /\ u.scopes[s].parent \in 1 .. s - 1
           /\ u.scopes[s].need_close = FALSE

VariablesExtended(t, u) ==
    /\ DOMAIN t.variables \subseteq DOMAIN u.variables
    /\ \A v \in DOMAIN t.variables :
           /\ u.variables[v].name = t.variables[v].name
           /\ u.variables[v].block = t.variables[v].block
           /\ u.variables[v].escaped = t.variables[v].escaped
           /\ t.variables[v].modified => u.variables[v].modified
    /\ \A v \in DOMAIN u.variables \ DOMAIN t.variables :
           /\ u.variables[v].block \in DOMAIN u.scopes
           /\ u.variables[v].escaped = FALSE

Declared(t, u) ==
    \A s \in DOMAIN u.scopes : \A v \in ToSet(u.scopes[s].symbol_list) :
        \/ s \in DOMAIN t.scopes /\ v \in ToSet(t.scopes[s].symbol_list)
        \/ v \in Locals(u) /\ u.variables[v].block = s /\ u.variables[v].escaped = FALSE

Extended(t, u) ==
    FunctionsExtended(t, u) /\ ScopesExtended(t, u) /\ VariablesExtended(t, u) /\ Declared(t, u)

LEMMA ExtendedKeeps ==
    ASSUME NEW t, NEW u, Extended(t, u)
    PROVE  Keeps(t, u)
BY DEF Keeps, Extended, FunctionsExtended, ScopesExtended, VariablesExtended

LEMMA ExtendKeeps ==
    ASSUME NEW t, NEW u, TreeOK(t), Typed(u), Extended(t, u)
    PROVE  TreeOK(u)
<1>1. FunctionsLinked(u)
  <2>1. ToSet(<<>>) = {}
    BY DEF ToSet
  <2> QED BY <2>1 DEF FunctionsLinked, TreeOK, Linked, Extended, FunctionsExtended, VariablesExtended
<1>2. \A s \in DOMAIN t.scopes : \A v \in ToSet(t.scopes[s].symbol_list) :
          v \in Locals(t) /\ t.variables[v].block = s
  BY DEF TreeOK, Linked, ScopesLinked
<1>3. Locals(t) \subseteq Locals(u)
  BY DEF Locals, Extended, VariablesExtended
<1>4. ScopesLinked(u)
  <2>1. ASSUME NEW s \in DOMAIN u.scopes
        PROVE  /\ u.scopes[s].function \in DOMAIN u.functions
               /\ u.scopes[s].parent \in 0 .. s - 1
               /\ u.scopes[s].parent = NULL => u.scopes[s].function = 1
    <3>1. CASE s \in DOMAIN t.scopes
      BY <3>1 DEF TreeOK, Linked, ScopesLinked, Extended, ScopesExtended, FunctionsExtended
    <3>2. CASE s \notin DOMAIN t.scopes
      <4>1. u.scopes[s].function \in DOMAIN u.functions /\ u.scopes[s].parent \in 1 .. s - 1
        BY <3>2 DEF Extended, ScopesExtended
      <4>2. s \in Nat
        BY DEF Typed
      <4> QED BY <4>1, <4>2 DEF NULL
    <3> QED BY <3>1, <3>2
  <2>2. ASSUME NEW s \in DOMAIN u.scopes, NEW v \in ToSet(u.scopes[s].symbol_list)
        PROVE  v \in Locals(u) /\ u.variables[v].block = s
    <3>1. CASE s \in DOMAIN t.scopes /\ v \in ToSet(t.scopes[s].symbol_list)
      BY <3>1, <1>2, <1>3 DEF Extended, VariablesExtended, Locals
    <3>2. CASE v \in Locals(u) /\ u.variables[v].block = s
      BY <3>2
    <3> QED BY <3>1, <3>2 DEF Extended, Declared
  <2> QED BY <2>1, <2>2 DEF ScopesLinked
<1>5. VariablesLinked(u)
  <2>1. ASSUME NEW v \in Locals(u)
        PROVE  u.variables[v].block \in DOMAIN u.scopes
    <3>1. CASE v \in Locals(t)
      BY <3>1 DEF TreeOK, Linked, VariablesLinked, Extended, VariablesExtended, ScopesExtended, Locals
    <3>2. CASE v \notin Locals(t)
      BY <3>2 DEF Extended, VariablesExtended, Locals
    <3> QED BY <3>1, <3>2
  <2>2. /\ 1 \in DOMAIN u.variables
        /\ u.variables[1].name = ENV /\ u.variables[1].block = NULL
    BY DEF TreeOK, Linked, VariablesLinked, Extended, VariablesExtended
  <2> QED BY <2>1, <2>2 DEF VariablesLinked
<1>6. \A v : IsCaptured(u, v) <=> IsCaptured(t, v)
  <2>1. ToSet(<<>>) = {}
    BY DEF ToSet
  <2> QED BY <2>1 DEF IsCaptured, Extended, FunctionsExtended
<1>7. \A v : IsCaptured(t, v) => v \in DOMAIN t.variables
  BY DEF IsCaptured, TreeOK, Linked, FunctionsLinked
<1>8. VariablesMarked(u)
  <2>1. ASSUME NEW v \in Locals(u)
        PROVE  /\ u.variables[v].escaped <=> IsCaptured(u, v)
               /\ u.variables[v].escaped => InScope(u, v)
    <3>1. CASE v \in Locals(t)
      <4>1. u.variables[v].escaped = t.variables[v].escaped /\ u.variables[v].block = t.variables[v].block
        BY <3>1 DEF Extended, VariablesExtended, Locals
      <4>2. t.variables[v].block \in DOMAIN t.scopes
        BY <3>1 DEF TreeOK, Linked, VariablesLinked
      <4>3. InScope(t, v) => InScope(u, v)
        BY <4>1, <4>2 DEF InScope, Extended, ScopesExtended
      <4> QED BY <3>1, <4>1, <4>3, <1>6 DEF TreeOK, Marked, VariablesMarked
    <3>2. CASE v \notin Locals(t)
      <4>1. v \notin DOMAIN t.variables /\ v \in DOMAIN u.variables
        BY <3>2 DEF Locals
      <4>2. u.variables[v].escaped = FALSE
        BY <4>1 DEF Extended, VariablesExtended
      <4> QED BY <4>1, <4>2, <1>6, <1>7
    <3> QED BY <3>1, <3>2
  <2> QED BY <2>1 DEF VariablesMarked
<1>9. ScopesMarked(u)
  <2>1. ASSUME NEW s \in DOMAIN t.scopes
        PROVE  u.scopes[s].need_close <=>
                   \E v \in ToSet(u.scopes[s].symbol_list) : u.variables[v].escaped
    <3>1. \A v \in ToSet(t.scopes[s].symbol_list) :
              v \in ToSet(u.scopes[s].symbol_list) /\ u.variables[v].escaped = t.variables[v].escaped
      BY <1>2 DEF Extended, ScopesExtended, VariablesExtended, Locals
    <3>2. \A v \in ToSet(u.scopes[s].symbol_list) :
              v \in ToSet(t.scopes[s].symbol_list) \/ u.variables[v].escaped = FALSE
      BY DEF Extended, ScopesExtended, Declared
    <3>3. u.scopes[s].need_close = t.scopes[s].need_close
      BY DEF Extended, ScopesExtended
    <3>4. t.scopes[s].need_close <=>
              \E v \in ToSet(t.scopes[s].symbol_list) : t.variables[v].escaped
      BY DEF TreeOK, Marked, ScopesMarked
    <3> QED BY <3>1, <3>2, <3>3, <3>4
  <2>2. ASSUME NEW s \in DOMAIN u.scopes, s \notin DOMAIN t.scopes
        PROVE  ~u.scopes[s].need_close /\ \A v \in ToSet(u.scopes[s].symbol_list) : ~u.variables[v].escaped
    BY <2>2 DEF Extended, ScopesExtended, Declared
  <2> QED BY <2>1, <2>2 DEF ScopesMarked
<1>10. FunctionsMarked(u)
  <2>1. \A s \in DOMAIN t.scopes :
            /\ s \in DOMAIN u.scopes /\ u.scopes[s].function = t.scopes[s].function
            /\ u.scopes[s].need_close = t.scopes[s].need_close /\ t.scopes[s].function \in DOMAIN t.functions
    BY DEF Extended, ScopesExtended, TreeOK, Linked, ScopesLinked
  <2>2. \A s \in DOMAIN u.scopes : s \in DOMAIN t.scopes \/ u.scopes[s].need_close = FALSE
    BY DEF Extended, ScopesExtended
  <2>3. ASSUME NEW f \in DOMAIN t.functions
        PROVE  u.functions[f].need_close <=>
                   \E s \in DOMAIN u.scopes : u.scopes[s].function = f /\ u.scopes[s].need_close
    <3>1. u.functions[f].need_close = t.functions[f].need_close
      BY DEF Extended, FunctionsExtended
    <3>2. t.functions[f].need_close <=>
              \E s \in DOMAIN t.scopes : t.scopes[s].function = f /\ t.scopes[s].need_close
      BY DEF TreeOK, Marked, FunctionsMarked
    <3> QED BY <3>1, <3>2, <2>1, <2>2
  <2>4. ASSUME NEW f \in DOMAIN u.functions, f \notin DOMAIN t.functions
        PROVE  ~u.functions[f].need_close /\ 
                   ~ \E s \in DOMAIN u.scopes : u.scopes[s].function = f /\ u.scopes[s].need_close
    <3>1. u.functions[f].need_close = FALSE
      BY <2>4 DEF Extended, FunctionsExtended
    <3> QED BY <3>1, <2>1, <2>2, <2>4
  <2> QED BY <2>3, <2>4 DEF FunctionsMarked
<1> QED BY <1>1, <1>4, <1>5, <1>8, <1>9, <1>10 DEF TreeOK, Linked, Marked

-----------------------------------------------------------------------------
(* Using a variable of an outer function *)

(* The recursion of add_upvalue_in_levels_upto, outwards from a function.  *)
LevelAt(h, var_function, v, g) ==
    IF g \in {NULL, var_function} \/ upvalue_of_variable(g, v) # 0 THEN {}
    ELSE {g} \cup h[functions[g].parent]

IsLevels(h, var_function, v, m) == h = [g \in 0 .. m |-> LevelAt(h, var_function, v, g)]

LEMMA LevelsIs ==
    ASSUME NEW f, NEW g, NEW v
    PROVE  add_upvalue_in_levels_upto(f, g, v) = (CHOOSE h : IsLevels(h, g, v, Len(functions)))[f]
BY DEF add_upvalue_in_levels_upto, IsLevels, LevelAt

LEMMA LevelsDefined ==
    ASSUME Typed(Tree), FunctionsLinked(Tree), NEW q, NEW v
    PROVE  \E h : IsLevels(h, q, v, Len(functions))
<1> DEFINE N == Len(functions)
           T == {m \in Nat : m <= N /\ ~ \E h : IsLevels(h, q, v, m)}
<1>0. \A h, m : IsLevels(h, q, v, m) <=> h = [g \in 0 .. m |-> LevelAt(h, q, v, g)]
  BY DEF IsLevels
<1>1. N \in Nat /\ DOMAIN functions = 1 .. N
  BY DEF Typed, Tree
<1>2. \A g \in 1 .. N : functions[g].parent \in 0 .. g - 1
  BY <1>1 DEF FunctionsLinked, Tree
<1>3. T = {}
  <2>1. SUFFICES ASSUME T # {} PROVE FALSE
    OBVIOUS
  <2>2. PICK m \in T : \A y \in T : m <= y
    <3>1. T \subseteq Nat
      OBVIOUS
    <3> HIDE DEF T
    <3> QED BY <2>1, <3>1, LeastNumber
  <2>3. m \in Nat /\ m <= N /\ ~ \E h : IsLevels(h, q, v, m)
    OBVIOUS
  <2>4. CASE m = 0
    <3> DEFINE h == [g \in 0 .. 0 |-> {}]
               k == [g \in 0 .. 0 |-> LevelAt(h, q, v, g)]
    <3>1. \A g \in 0 .. 0 : LevelAt(h, q, v, g) = {}
      BY DEF LevelAt, NULL
    <3>2. h = k
      <4> HIDE DEF h
      <4>1. \A g \in 0 .. 0 : k[g] = {}
        BY <3>1
      <4> QED BY <4>1 DEF h
    <3> HIDE DEF h
    <3>3. IsLevels(h, q, v, m)
      BY <3>2, <2>4, <1>0
    <3> QED BY <3>3, <2>3
  <2>5. CASE m # 0
    <3>1. m - 1 \in Nat /\ m - 1 < m /\ m \in 1 .. N
      BY <2>3, <2>5, <1>1
    <3>2. m - 1 \notin T
      <4> HIDE DEF T
      <4> QED BY <2>2, <2>3, <3>1
    <3>3. PICK h : IsLevels(h, q, v, m - 1)
      BY <3>1, <3>2, <2>3
    <3> DEFINE k == [g \in 0 .. m |-> IF g = m THEN LevelAt(h, q, v, m) ELSE h[g]]
    <3>4. \A g \in 0 .. m - 1 : h[g] = LevelAt(h, q, v, g)
      <4>1. h = [g \in 0 .. m - 1 |-> LevelAt(h, q, v, g)]
        BY <3>3, <1>0
      <4> DEFINE j == [g \in 0 .. m - 1 |-> LevelAt(h, q, v, g)]
      <4>2. \A g \in 0 .. m - 1 : j[g] = LevelAt(h, q, v, g)
        OBVIOUS
      <4> QED BY <4>1, <4>2
    <3>5. \A g \in 0 .. m - 1 : k[g] = h[g]
      BY <2>3
    <3>6. \A g \in 0 .. m : LevelAt(k, q, v, g) = LevelAt(h, q, v, g)
      <4>1. ASSUME NEW g \in 0 .. m, g # NULL
            PROVE  k[functions[g].parent] = h[functions[g].parent]
        <5>1. g \in 1 .. N /\ g <= m
          BY <4>1, <2>3, <1>1 DEF NULL
        <5>2. functions[g].parent \in 0 .. m - 1
          BY <5>1, <1>2, <2>3
        <5> HIDE DEF k
        <5> QED BY <5>2, <3>5
      <4> HIDE DEF k
      <4> QED BY <4>1 DEF LevelAt
    <3>7. \A g \in 0 .. m : k[g] = LevelAt(h, q, v, g)
      BY <2>3, <3>4
    <3>8. k = [g \in 0 .. m |-> LevelAt(k, q, v, g)]
      <4> DEFINE j == [g \in 0 .. m |-> LevelAt(k, q, v, g)]
      <4>2. k = [g \in 0 .. m |-> k[g]]
        OBVIOUS
      <4> HIDE DEF k
      <4>3. \A g \in 0 .. m : j[g] = k[g]
        BY <3>6, <3>7
      <4> QED BY <4>2, <4>3
    <3> HIDE DEF k
    <3>9. IsLevels(k, q, v, m)
      BY <3>8, <1>0
    <3> QED BY <3>9, <2>3
  <2> QED BY <2>4, <2>5
<1>4. N \notin T
  BY <1>3
<1> QED BY <1>1, <1>4

(* They are functions, and f is one of them if it lacks the upvalue.       *)
LEMMA LevelsRight ==
    ASSUME Typed(Tree), FunctionsLinked(Tree), NEW f \in DOMAIN functions, NEW q, NEW v
    PROVE  LET fs == add_upvalue_in_levels_upto(f, q, v)
           IN  /\ fs \subseteq DOMAIN functions
               /\ f # q => f \in fs \/ v \in ToSet(functions[f].upvalues)
<1> DEFINE N == Len(functions)
           h == CHOOSE h : IsLevels(h, q, v, N)
           T == {g \in 0 .. N : ~(h[g] \subseteq 1 .. N)}
<1>1. N \in Nat /\ DOMAIN functions = 1 .. N
  BY DEF Typed, Tree
<1>2. IsLevels(h, q, v, N)
  BY LevelsDefined
<1>3. add_upvalue_in_levels_upto(f, q, v) = h[f]
  BY LevelsIs
<1> HIDE DEF h
<1>4. \A g \in 0 .. N : h[g] = LevelAt(h, q, v, g)
  BY <1>2 DEF IsLevels, LevelAt
<1>5. \A g \in 1 .. N : functions[g].parent \in 0 .. g - 1
  BY <1>1 DEF FunctionsLinked, Tree
<1>6. T = {}
  <2>1. SUFFICES ASSUME T # {} PROVE FALSE
    OBVIOUS
  <2>2. T \subseteq Nat
    BY <1>1
  <2>3. PICK g \in T : \A y \in T : g <= y
    <3> HIDE DEF T
    <3> QED BY <2>1, <2>2, LeastNumber
  <2>4. g \in 0 .. N /\ ~(h[g] \subseteq 1 .. N)
    OBVIOUS
  <2>5. CASE g = 0
    BY <1>1, <1>4, <2>4, <2>5 DEF LevelAt, NULL
  <2>6. CASE g # 0
    <3> DEFINE p == functions[g].parent
    <3>1. g \in 1 .. N /\ p \in 0 .. N /\ p < g
      BY <1>1, <1>5, <2>4, <2>6
    <3>2. p \notin T
      <4> HIDE DEF T, p
      <4> QED BY <2>2, <2>3, <3>1, <1>1
    <3>3. h[p] \subseteq 1 .. N
      BY <3>1, <3>2
    <3> QED BY <1>4, <2>4, <3>1, <3>3 DEF LevelAt
  <2> QED BY <2>5, <2>6
<1>7. h[f] \subseteq 1 .. N
  BY <1>1, <1>6
<1>8. functions[f].upvalues \in Seq(Nat)
  <2>1. functions[f] \in FunctionType
    BY DEF Typed, Tree
  <2> QED BY <2>1 DEF FunctionType
<1>9. ASSUME f # q, v \notin ToSet(functions[f].upvalues)
      PROVE  f \in h[f]
  <2>1. upvalue_of_variable(f, v) = 0
    BY <1>8, <1>9, FoundVariable
  <2>2. f # NULL /\ f \in 0 .. N
    BY <1>1 DEF NULL
  <2> QED BY <1>4, <1>9, <2>1, <2>2 DEF LevelAt
<1> QED BY <1>1, <1>3, <1>7, <1>9

LEMMA ToSetAppend ==
    ASSUME NEW S, NEW l \in Seq(S), NEW x \in S
    PROVE  /\ Append(l, x) \in Seq(S)
           /\ ToSet(Append(l, x)) = ToSet(l) \cup {x}
           /\ DOMAIN l \subseteq DOMAIN Append(l, x)
<1>1. /\ Append(l, x) \in Seq(S) /\ Len(Append(l, x)) = Len(l) + 1 /\ Len(l) \in Nat
      /\ \A i \in 1 .. Len(l) : Append(l, x)[i] = l[i]
      /\ Append(l, x)[Len(l) + 1] = x
  OBVIOUS
<1>2. DOMAIN Append(l, x) = 1 .. Len(l) + 1 /\ DOMAIN l = 1 .. Len(l)
  BY <1>1
<1>3. \A y : y \in ToSet(Append(l, x)) <=> \E i \in 1 .. Len(l) + 1 : y = Append(l, x)[i]
  BY <1>2 DEF ToSet
<1>4. \A y : y \in ToSet(l) <=> \E i \in 1 .. Len(l) : y = l[i]
  BY <1>2 DEF ToSet
<1>5. 1 .. Len(l) + 1 = 1 .. Len(l) \cup {Len(l) + 1}
  BY <1>1
<1> HIDE DEF ToSet
<1> QED BY <1>1, <1>2, <1>3, <1>4, <1>5

(* The upvalue is added, and what has to be marked is.                     *)
LEMMA AddKeeps ==
    ASSUME TreeOK(Tree), NEW fs, fs \subseteq DOMAIN functions,
           NEW v \in DOMAIN variables, v = 1 \/ InScope(Tree, v)
    PROVE  LET t == add_upvalue_in_function(fs, v)
           IN  /\ TreeOK(t) /\ Keeps(Tree, t)
               /\ DOMAIN t.scopes = DOMAIN scopes
               /\ DOMAIN t.functions = DOMAIN functions
               /\ DOMAIN t.variables = DOMAIN variables
               /\ \A s \in DOMAIN scopes : t.scopes[s].symbol_list = scopes[s].symbol_list
               /\ \A f \in fs : v \in ToSet(t.functions[f].upvalues)
<1> DEFINE t == add_upvalue_in_function(fs, v)
           block == variables[v].block
           esc == fs # {} /\ block # NULL
<1>1. /\ functions \in Seq(FunctionType) /\ scopes \in Seq(ScopeType) /\ variables \in Seq(VariableType)
      /\ Len(functions) \in Nat /\ DOMAIN functions = 1 .. Len(functions)
      /\ Len(scopes) \in Nat /\ DOMAIN scopes = 1 .. Len(scopes)
      /\ Len(variables) \in Nat /\ DOMAIN variables = 1 .. Len(variables)
  BY DEF TreeOK, Typed, Tree
<1>2. /\ \A g \in DOMAIN functions : functions[g] \in FunctionType
      /\ \A s \in DOMAIN scopes : scopes[s] \in ScopeType
      /\ \A w \in DOMAIN variables : variables[w] \in VariableType
  BY <1>1
<1>3. /\ v = 1 => block = NULL
      /\ v # 1 => block \in DOMAIN scopes /\ block # NULL
                  /\ v \in Locals(Tree) /\ v \in ToSet(scopes[block].symbol_list)
                  /\ scopes[block].function \in DOMAIN functions
  <2>1. block \in DOMAIN scopes => block # NULL
    BY <1>1 DEF NULL
  <2> QED BY <2>1 DEF TreeOK, Linked, VariablesLinked, ScopesLinked, Locals, InScope, Tree
<1>4. t = [functions |-> t.functions, scopes |-> t.scopes, variables |-> t.variables]
  BY DEF add_upvalue_in_function
<1>5. t.functions = [g \in DOMAIN functions |->
             [functions[g] EXCEPT
                 !.upvalues = IF g \in fs THEN Append(@, v) ELSE @,
                 !.need_close = @ \/ (esc /\ g = scopes[block].function)]]
  BY DEF add_upvalue_in_function
<1>6. t.scopes = [s \in DOMAIN scopes |->
             [scopes[s] EXCEPT !.need_close = @ \/ (esc /\ s = block)]]
  BY DEF add_upvalue_in_function
<1>7. t.variables = [variables EXCEPT ![v].escaped = @ \/ esc]
  BY DEF add_upvalue_in_function
<1> HIDE DEF t
<1>8. /\ DOMAIN t.functions = DOMAIN functions
      /\ \A g \in DOMAIN functions :
             /\ t.functions[g] \in FunctionType
             /\ t.functions[g].parent = functions[g].parent
             /\ ToSet(t.functions[g].upvalues) =
                    ToSet(functions[g].upvalues) \cup (IF g \in fs THEN {v} ELSE {})
             /\ DOMAIN functions[g].upvalues \subseteq DOMAIN t.functions[g].upvalues
             /\ t.functions[g].need_close <=>
                    functions[g].need_close \/ (esc /\ g = scopes[block].function)
  <2>1. DOMAIN t.functions = DOMAIN functions
    BY <1>5
  <2>2. ASSUME NEW g \in DOMAIN functions
        PROVE  /\ t.functions[g] \in FunctionType
               /\ t.functions[g].parent = functions[g].parent
               /\ ToSet(t.functions[g].upvalues) =
                      ToSet(functions[g].upvalues) \cup (IF g \in fs THEN {v} ELSE {})
               /\ DOMAIN functions[g].upvalues \subseteq DOMAIN t.functions[g].upvalues
               /\ t.functions[g].need_close <=>
                      functions[g].need_close \/ (esc /\ g = scopes[block].function)
    <3> DEFINE l == functions[g].upvalues
               l2 == IF g \in fs THEN Append(l, v) ELSE l
               c == functions[g].need_close \/ (esc /\ g = scopes[block].function)
    <3>1. functions[g] = [parent |-> functions[g].parent, upvalues |-> l, need_close |-> functions[g].need_close]
          /\ functions[g].parent \in Nat /\ l \in Seq(Nat)
      BY <1>2 DEF FunctionType
    <3>2. t.functions[g] = [functions[g] EXCEPT !.upvalues = l2, !.need_close = c]
      BY <1>5
    <3>3. v \in Nat
      BY <1>1
    <3>4. /\ l2 \in Seq(Nat) /\ DOMAIN l \subseteq DOMAIN l2
          /\ ToSet(l2) = ToSet(l) \cup (IF g \in fs THEN {v} ELSE {})
      <4>1. CASE g \in fs
        <5> HIDE DEF l
        <5> QED BY <4>1, <3>1, <3>3, ToSetAppend
      <4>2. CASE g \notin fs
        BY <4>2, <3>1
      <4> QED BY <4>1, <4>2
    <3>5. c \in BOOLEAN
      OBVIOUS
    <3> HIDE DEF l2, c
    <3>6. t.functions[g].parent = functions[g].parent /\ t.functions[g].upvalues = l2 /\ t.functions[g].need_close = c
          /\ t.functions[g] \in FunctionType
      <4>1. t.functions[g] = [parent |-> functions[g].parent, upvalues |-> l2, need_close |-> c]
        <5> HIDE DEF l
        <5> QED BY <3>1, <3>2
      <4> QED BY <4>1, <3>1, <3>4, <3>5 DEF FunctionType
    <3> QED BY <3>4, <3>6 DEF c
  <2> QED BY <2>1, <2>2
<1>9. /\ DOMAIN t.scopes = DOMAIN scopes
      /\ \A s \in DOMAIN scopes :
             /\ t.scopes[s] \in ScopeType
             /\ t.scopes[s].function = scopes[s].function
             /\ t.scopes[s].parent = scopes[s].parent
             /\ t.scopes[s].symbol_list = scopes[s].symbol_list
             /\ t.scopes[s].need_close <=> scopes[s].need_close \/ (esc /\ s = block)
  <2>1. DOMAIN t.scopes = DOMAIN scopes
    BY <1>6
  <2>2. ASSUME NEW s \in DOMAIN scopes
        PROVE  /\ t.scopes[s] \in ScopeType
               /\ t.scopes[s].function = scopes[s].function
               /\ t.scopes[s].parent = scopes[s].parent
               /\ t.scopes[s].symbol_list = scopes[s].symbol_list
               /\ t.scopes[s].need_close <=> scopes[s].need_close \/ (esc /\ s = block)
    <3> DEFINE c == scopes[s].need_close \/ (esc /\ s = block)
               r == scopes[s]
    <3>1. r \in ScopeType
      BY <1>2
    <3>2. t.scopes[s] = [r EXCEPT !.need_close = c]
      BY <1>6
    <3>3. c \in BOOLEAN
      OBVIOUS
    <3> HIDE DEF c, r
    <3>4. [r EXCEPT !.need_close = c] \in ScopeType
      BY <3>1, <3>3 DEF ScopeType
    <3>5. /\ t.scopes[s].function = r.function /\ t.scopes[s].parent = r.parent
          /\ t.scopes[s].symbol_list = r.symbol_list /\ t.scopes[s].need_close = c
      BY <3>1, <3>2 DEF ScopeType
    <3> QED BY <3>2, <3>4, <3>5 DEF r, c
  <2> QED BY <2>1, <2>2
<1>10. /\ DOMAIN t.variables = DOMAIN variables
       /\ \A w \in DOMAIN variables :
             /\ t.variables[w] \in VariableType
             /\ t.variables[w].name = variables[w].name
             /\ t.variables[w].block = variables[w].block
             /\ t.variables[w].modified = variables[w].modified
             /\ t.variables[w].escaped <=> variables[w].escaped \/ (esc /\ w = v)
  <2>1. DOMAIN t.variables = DOMAIN variables
    BY <1>7
  <2>2. ASSUME NEW w \in DOMAIN variables
        PROVE  /\ t.variables[w] \in VariableType
               /\ t.variables[w].name = variables[w].name
               /\ t.variables[w].block = variables[w].block
               /\ t.variables[w].modified = variables[w].modified
               /\ t.variables[w].escaped <=> variables[w].escaped \/ (esc /\ w = v)
    <3> DEFINE c == variables[v].escaped \/ esc
               r == variables[v]
    <3>1. r \in VariableType /\ variables[w] \in VariableType
      BY <1>2
    <3>2. t.variables[w] = IF w = v THEN [r EXCEPT !.escaped = c] ELSE variables[w]
      BY <1>7
    <3>3. c \in BOOLEAN
      OBVIOUS
    <3> HIDE DEF c, r
    <3>4. [r EXCEPT !.escaped = c] \in VariableType
      BY <3>1, <3>3 DEF VariableType
    <3>5. w = v => /\ t.variables[w].name = r.name /\ t.variables[w].block = r.block
                   /\ t.variables[w].modified = r.modified /\ t.variables[w].escaped = c
      BY <3>1, <3>2 DEF VariableType
    <3>6. CASE w = v
      BY <3>2, <3>4, <3>5, <3>6 DEF r, c
    <3>7. CASE w # v
      BY <3>2, <3>1, <3>7
    <3> QED BY <3>6, <3>7
  <2> QED BY <2>1, <2>2
<1>11. Typed(t)
  <2>1. t.functions \in Seq(FunctionType)
    <3> DEFINE n == Len(functions)
    <3>1. t.functions = [g \in 1 .. n |-> t.functions[g]]
      BY <1>1, <1>5, <1>8
    <3> HIDE DEF n
    <3>2. n \in Nat /\ \A g \in 1 .. n : t.functions[g] \in FunctionType
      BY <1>1, <1>8 DEF n
    <3> QED BY <3>1, <3>2
  <2>2. t.scopes \in Seq(ScopeType)
    <3> DEFINE n == Len(scopes)
    <3>1. t.scopes = [s \in 1 .. n |-> t.scopes[s]]
      BY <1>1, <1>6, <1>9
    <3> HIDE DEF n
    <3>2. n \in Nat /\ \A s \in 1 .. n : t.scopes[s] \in ScopeType
      BY <1>1, <1>9 DEF n
    <3> QED BY <3>1, <3>2
  <2>3. t.variables \in Seq(VariableType)
    <3> DEFINE n == Len(variables)
    <3>1. t.variables = [w \in 1 .. n |-> t.variables[w]]
      BY <1>1, <1>7, <1>10
    <3> HIDE DEF n
    <3>2. n \in Nat /\ \A w \in 1 .. n : t.variables[w] \in VariableType
      BY <1>1, <1>10 DEF n
    <3> QED BY <3>1, <3>2
  <2> QED BY <2>1, <2>2, <2>3 DEF Typed
<1>12. Linked(t)
  <2>1. FunctionsLinked(Tree) /\ ScopesLinked(Tree) /\ VariablesLinked(Tree)
    BY DEF TreeOK, Linked
  <2>2. Locals(t) = Locals(Tree)
    BY <1>10 DEF Locals, Tree
  <2>3. FunctionsLinked(t)
    <3>1. /\ 1 \in DOMAIN functions /\ 1 \in ToSet(functions[1].upvalues)
          /\ \A f \in DOMAIN functions :
                 /\ functions[f].parent \in 0 .. f - 1
                 /\ ToSet(functions[f].upvalues) \subseteq DOMAIN variables
      BY <2>1 DEF FunctionsLinked, Tree
    <3>2. \A f \in DOMAIN functions : ToSet(t.functions[f].upvalues) \subseteq DOMAIN variables
      BY <3>1, <1>8
    <3>3. 1 \in ToSet(t.functions[1].upvalues)
      BY <3>1, <1>8
    <3> QED BY <3>1, <3>2, <3>3, <1>8, <1>10 DEF FunctionsLinked
  <2>4. ScopesLinked(t)
    BY <2>1, <2>2, <1>8, <1>9, <1>10 DEF ScopesLinked, Tree, Locals
  <2>5. VariablesLinked(t)
    BY <2>1, <2>2, <1>9, <1>10 DEF VariablesLinked, Tree, Locals
  <2> QED BY <2>3, <2>4, <2>5 DEF Linked
<1>13. \A w : IsCaptured(t, w) <=> IsCaptured(Tree, w) \/ (fs # {} /\ w = v)
  BY <1>8 DEF IsCaptured, Tree
<1>14. \A w : InScope(t, w) <=> InScope(Tree, w)
  <2>1. \A w \in Locals(Tree) : variables[w].block \in DOMAIN scopes
    BY DEF TreeOK, Linked, VariablesLinked, Tree
  <2>2. Locals(t) = Locals(Tree) /\ Locals(Tree) \subseteq DOMAIN variables
    BY <1>10 DEF Locals, Tree
  <2> QED BY <2>1, <2>2, <1>9, <1>10 DEF InScope, Tree
<1>15. VariablesMarked(t)
  <2>1. ASSUME NEW w \in Locals(Tree)
        PROVE  /\ t.variables[w].escaped <=> IsCaptured(t, w)
               /\ t.variables[w].escaped => InScope(t, w)
    <3>1. w \in DOMAIN variables /\ w # 1
      BY DEF Locals, Tree
    <3>2. /\ variables[w].escaped <=> IsCaptured(Tree, w)
          /\ variables[w].escaped => InScope(Tree, w)
      BY DEF TreeOK, Marked, VariablesMarked, Tree
    <3>3. w = v => block # NULL /\ InScope(Tree, w)
      BY <3>1, <1>3
    <3> QED BY <3>1, <3>2, <3>3, <1>10, <1>13, <1>14
  <2>2. Locals(t) = Locals(Tree)
    BY <1>10 DEF Locals, Tree
  <2> QED BY <2>1, <2>2 DEF VariablesMarked
<1>16. ScopesMarked(t)
  <2>1. ASSUME NEW s \in DOMAIN scopes
        PROVE  t.scopes[s].need_close <=>
                   \E w \in ToSet(t.scopes[s].symbol_list) : t.variables[w].escaped
    <3>1. scopes[s].need_close <=> \E w \in ToSet(scopes[s].symbol_list) : variables[w].escaped
      BY DEF TreeOK, Marked, ScopesMarked, Tree
    <3>2. \A w \in ToSet(scopes[s].symbol_list) : w \in DOMAIN variables /\ w # 1 /\ variables[w].block = s
      BY DEF TreeOK, Linked, ScopesLinked, Locals, Tree
    <3>3. \A w \in ToSet(scopes[s].symbol_list) :
              t.variables[w].escaped <=> variables[w].escaped \/ (esc /\ w = v)
      BY <3>2, <1>10
    <3>4. esc => (v \in ToSet(scopes[s].symbol_list) <=> s = block)
      BY <3>2, <1>3
    <3>5. t.scopes[s].symbol_list = scopes[s].symbol_list
          /\ (t.scopes[s].need_close <=> scopes[s].need_close \/ (esc /\ s = block))
      BY <1>9
    <3> HIDE DEF esc
    <3> QED BY <3>1, <3>3, <3>4, <3>5
  <2> QED BY <2>1, <1>9 DEF ScopesMarked
<1>17. FunctionsMarked(t)
  <2>1. ASSUME NEW f \in DOMAIN functions
        PROVE  t.functions[f].need_close <=>
                   \E s \in DOMAIN scopes : scopes[s].function = f /\ t.scopes[s].need_close
    <3>1. functions[f].need_close <=> \E s \in DOMAIN scopes : scopes[s].function = f /\ scopes[s].need_close
      BY DEF TreeOK, Marked, FunctionsMarked, Tree
    <3>2. esc => block \in DOMAIN scopes
      BY <1>3
    <3>3. t.functions[f].need_close <=> functions[f].need_close \/ (esc /\ f = scopes[block].function)
      BY <1>8
    <3>4. \A s \in DOMAIN scopes : t.scopes[s].need_close <=> scopes[s].need_close \/ (esc /\ s = block)
      BY <1>9
    <3> HIDE DEF esc
    <3> QED BY <3>1, <3>2, <3>3, <3>4
  <2> QED BY <2>1, <1>8, <1>9 DEF FunctionsMarked
<1>18. Keeps(Tree, t)
  BY <1>8, <1>9, <1>10 DEF Keeps, Tree
<1>19. TreeOK(t)
  BY <1>11, <1>12, <1>15, <1>16, <1>17 DEF TreeOK, Marked
<1>20. \A f \in fs : v \in ToSet(t.functions[f].upvalues)
  BY <1>8
<1> QED BY <1>8, <1>9, <1>10, <1>18, <1>19, <1>20 DEF t

(* The tree t after a name was resolved: no declaration has changed.       *)
Recorded(t) ==
    /\ TreeOK(t) /\ Keeps(Tree, t)
    /\ DOMAIN t.scopes = DOMAIN scopes
    /\ DOMAIN t.variables = DOMAIN variables
    /\ \A v : InScope(t, v) => InScope(Tree, v)

LEMMA ReachedRight ==
    ASSUME TreeOK(Tree), current_function \in DOMAIN functions,
           NEW n, NEW s, Found(s, n)
    PROVE  LET r == Reached(s, n)
           IN  /\ r.tree = [functions |-> r.tree.functions, scopes |-> r.tree.scopes,
                            variables |-> r.tree.variables]
               /\ Recorded(r.tree)
               /\ r.symbol \in Reference /\ SymbolOK(r.tree, r.symbol)
<1> DEFINE v == Target(s)
           fs == add_upvalue_in_levels_upto(current_function, Owner(s), v)
           t == add_upvalue_in_function(fs, v)
           u == search_upvalue_in_function(t.functions, current_function, n)
<1>0. /\ functions \in Seq(FunctionType) /\ variables \in Seq(VariableType)
      /\ \A f \in DOMAIN functions : functions[f].upvalues \in Seq(Nat)
  <2>1. functions \in Seq(FunctionType) /\ variables \in Seq(VariableType)
    BY DEF TreeOK, Typed, Tree
  <2>2. \A f \in DOMAIN functions : functions[f] \in FunctionType
    BY <2>1
  <2> QED BY <2>1, <2>2 DEF FunctionType
<1>1. s \in Reference /\ SymbolOK(Tree, s)
  <2>1. CASE \E w \in DOMAIN variables : s = Local(w) /\ InScope(Tree, w) /\ variables[w].name = n
    BY <1>0, <2>1 DEF Local, Reference, SymbolOK, Tree
  <2>2. CASE \E f \in DOMAIN functions : \E i \in DOMAIN functions[f].upvalues :
                 s = Upvalue(f, i) /\ variables[functions[f].upvalues[i]].name = n
    <3>1. PICK f \in DOMAIN functions : \E i \in DOMAIN functions[f].upvalues :
                 s = Upvalue(f, i) /\ variables[functions[f].upvalues[i]].name = n
      BY <2>2
    <3>2. PICK i \in DOMAIN functions[f].upvalues :
                 s = Upvalue(f, i) /\ variables[functions[f].upvalues[i]].name = n
      BY <3>1
    <3>3. f \in Nat /\ i \in Nat
      BY <1>0
    <3> QED BY <3>2, <3>3 DEF Upvalue, Reference, SymbolOK, Tree
  <2> QED BY <2>1, <2>2 DEF Found
<1>2. /\ v \in DOMAIN variables /\ variables[v].name = n
      /\ v = 1 \/ InScope(Tree, v)
  <2>1. CASE \E w \in DOMAIN variables : s = Local(w) /\ InScope(Tree, w) /\ variables[w].name = n
    BY <2>1 DEF Local, Target
  <2>2. CASE \E f \in DOMAIN functions : \E i \in DOMAIN functions[f].upvalues :
                 s = Upvalue(f, i) /\ variables[functions[f].upvalues[i]].name = n
    <3>1. PICK f \in DOMAIN functions : \E i \in DOMAIN functions[f].upvalues :
                 s = Upvalue(f, i) /\ variables[functions[f].upvalues[i]].name = n
      BY <2>2
    <3>2. PICK i \in DOMAIN functions[f].upvalues :
                 s = Upvalue(f, i) /\ variables[functions[f].upvalues[i]].name = n
      BY <3>1
    <3>3. v = functions[f].upvalues[i]
      BY <3>2 DEF Upvalue, Target
    <3>4. v \in ToSet(functions[f].upvalues)
      BY <3>3 DEF ToSet
    <3>5. v \in DOMAIN variables
      BY <3>4 DEF TreeOK, Linked, FunctionsLinked, Tree
    <3>6. v # 1 => InScope(Tree, v)
      <4>1. v # 1 => v \in Locals(Tree) /\ IsCaptured(Tree, v)
        BY <3>4, <3>5 DEF Locals, IsCaptured, Tree
      <4> QED BY <4>1 DEF TreeOK, Marked, VariablesMarked
    <3> QED BY <3>2, <3>3, <3>5, <3>6
  <2> QED BY <2>1, <2>2 DEF Found
<1>3. CASE Owner(s) = current_function
  <2>1. Reached(s, n) = [tree |-> Tree, symbol |-> s]
    BY <1>3 DEF Reached, Tree
  <2>2. Recorded(Tree)
    BY KeepsSame DEF Recorded, Tree
  <2>3. Tree = [functions |-> Tree.functions, scopes |-> Tree.scopes, variables |-> Tree.variables]
    BY DEF Tree
  <2> QED BY <1>1, <2>1, <2>2, <2>3
<1>4. CASE Owner(s) # current_function
  <2>1. Reached(s, n) = [tree |-> t, symbol |-> Upvalue(current_function, u)]
    BY <1>4 DEF Reached
  <2>2. /\ fs \subseteq DOMAIN functions
        /\ current_function \in fs \/ v \in ToSet(functions[current_function].upvalues)
    BY <1>4, LevelsRight DEF TreeOK, Linked
  <2> HIDE DEF v, fs
  <2>3. /\ TreeOK(t) /\ Keeps(Tree, t)
        /\ DOMAIN t.scopes = DOMAIN scopes
        /\ DOMAIN t.functions = DOMAIN functions
        /\ DOMAIN t.variables = DOMAIN variables
        /\ \A b \in DOMAIN scopes : t.scopes[b].symbol_list = scopes[b].symbol_list
        /\ \A f \in fs : v \in ToSet(t.functions[f].upvalues)
    BY <1>2, <2>2, AddKeeps
  <2>4. t = [functions |-> t.functions, scopes |-> t.scopes, variables |-> t.variables]
    BY DEF add_upvalue_in_function
  <2>5. v \in ToSet(t.functions[current_function].upvalues)
    <3>1. CASE current_function \in fs
      BY <3>1, <2>3
    <3>2. CASE current_function \notin fs
      <4>1. t.functions[current_function].upvalues = functions[current_function].upvalues
        <5>1. functions[current_function] \in FunctionType
          BY <1>0
        <5> QED BY <3>2, <5>1 DEF add_upvalue_in_function, FunctionType
      <4> QED BY <4>1, <3>2, <2>2
    <3> QED BY <3>1, <3>2
  <2>6. t.functions[current_function].upvalues \in Seq(Nat)
    <3>1. t.functions[current_function] \in FunctionType
      BY <2>3 DEF TreeOK, Typed
    <3> QED BY <3>1 DEF FunctionType
  <2> HIDE DEF t
  <2>7. u \in DOMAIN t.functions[current_function].upvalues
    BY <2>5, <2>6, <1>2, FoundInFunction
  <2>8. u \in Nat /\ current_function \in Nat
    BY <2>6, <2>7, <1>0
  <2> HIDE DEF u
  <2>9. Upvalue(current_function, u) \in Reference /\ SymbolOK(t, Upvalue(current_function, u))
    BY <2>3, <2>7, <2>8 DEF Upvalue, Reference, SymbolOK
  <2>10. Recorded(t)
    <3>1. ASSUME NEW w, InScope(t, w)
          PROVE  InScope(Tree, w)
      <4>1. w \in Locals(Tree)
        BY <3>1, <2>3 DEF InScope, Locals, Tree
      <4>2. t.variables[w].block = variables[w].block /\ variables[w].block \in DOMAIN scopes
        BY <4>1, <2>3 DEF Keeps, TreeOK, Linked, VariablesLinked, Tree, Locals
      <4> QED BY <3>1, <4>1, <4>2, <2>3 DEF InScope, Tree
    <3> QED BY <3>1, <2>3 DEF Recorded
  <2> QED BY <2>1, <2>4, <2>9, <2>10
<1> QED BY <1>3, <1>4

LEMMA ReferenceRight ==
    ASSUME TreeOK(Tree), current_scope \in DOMAIN scopes,
           current_function = scopes[current_scope].function, NEW n
    PROVE  LET r == new_symbol_reference(n)
           IN  /\ r.tree = [functions |-> r.tree.functions, scopes |-> r.tree.scopes,
                            variables |-> r.tree.variables]
               /\ Recorded(r.tree)
               /\ r.symbol \in Symbol /\ SymbolOK(r.tree, r.symbol)
<1> DEFINE s == search_for_variable(n)
           e == Reached(search_for_variable(ENV), ENV)
<1>1. current_function \in DOMAIN functions
  BY DEF TreeOK, Linked, ScopesLinked, Tree
<1>2. Typed(Tree) /\ Linked(Tree)
  BY DEF TreeOK
<1>3. CASE s # NoSymbol
  <2>1. Found(s, n)
    BY <1>2, <1>3, SearchRight
  <2>2. new_symbol_reference(n) = Reached(s, n)
    BY <1>3 DEF new_symbol_reference
  <2> HIDE DEF s
  <2>3. /\ Reached(s, n).tree = [functions |-> Reached(s, n).tree.functions,
              scopes |-> Reached(s, n).tree.scopes, variables |-> Reached(s, n).tree.variables]
        /\ Recorded(Reached(s, n).tree)
        /\ Reached(s, n).symbol \in Reference /\ SymbolOK(Reached(s, n).tree, Reached(s, n).symbol)
    BY <1>1, <2>1, ReachedRight
  <2> QED BY <2>2, <2>3 DEF Symbol
<1>4. CASE s = NoSymbol
  <2>1. Found(search_for_variable(ENV), ENV)
    BY <1>2, SearchRight
  <2>2. /\ e.tree = [functions |-> e.tree.functions, scopes |-> e.tree.scopes,
                     variables |-> e.tree.variables]
        /\ Recorded(e.tree) /\ e.symbol \in Reference
    BY <1>1, <2>1, ReachedRight
  <2>3. e = [tree |-> e.tree, symbol |-> e.symbol]
    BY DEF Reached
  <2>4. new_symbol_reference(n) = [e EXCEPT !.symbol = Global(e.symbol)]
    BY <1>4 DEF new_symbol_reference
  <2> HIDE DEF e
  <2>5. new_symbol_reference(n) = [tree |-> e.tree, symbol |-> Global(e.symbol)]
    BY <2>3, <2>4
  <2>6. Global(e.symbol) \in Symbol /\ SymbolOK(e.tree, Global(e.symbol))
    BY <2>2 DEF Global, Symbol, SymbolOK
  <2> QED BY <2>2, <2>5, <2>6
<1> QED BY <1>3, <1>4

-----------------------------------------------------------------------------
(* How an action changes the constructs *)

LEMMA IntoKeeps ==
    ASSUME NEW t, NEW u, Keeps(t, u), ScopesLinked(t), NEW o,
           NEW a \in DOMAIN t.scopes, NEW b \in DOMAIN t.scopes, Into(t, o, a, b)
    PROVE  Into(u, o, a, b)
<1>1. /\ u.scopes[b].parent = t.scopes[b].parent
      /\ u.scopes[b].function = t.scopes[b].function
      /\ u.scopes[a].function = t.scopes[a].function
      /\ u.functions[t.scopes[b].function].parent = t.functions[t.scopes[b].function].parent
  BY DEF Keeps, ScopesLinked
<1>2. t.scopes[b].parent \in DOMAIN t.scopes =>
          /\ t.scopes[b].parent \in DOMAIN u.scopes
          /\ u.scopes[t.scopes[b].parent].parent = t.scopes[t.scopes[b].parent].parent
  BY DEF Keeps
<1> QED BY <1>1, <1>2 DEF Into

LEMMA SymbolKeeps ==
    ASSUME NEW t, NEW u, Keeps(t, u), NEW s, SymbolOK(t, s)
    PROVE  SymbolOK(u, s)
BY DEF Keeps, SymbolOK

LEMMA OpenKeeps ==
    ASSUME NEW t, NEW u, Keeps(t, u), NEW o, NEW b, OpenOK(t, o, b),
           \A v \in Pending(o) : ~InScope(u, v)
    PROVE  OpenOK(u, o, b)
<1>1. \A v \in Pending(o) : v \in Locals(u) /\ u.variables[v].block = b /\ ~InScope(u, v)
  BY DEF OpenOK, Locals, Keeps
<1>2. o.kind = "expressions" => \A s \in ToSet(o.updates) : SymbolOK(u, s)
  BY SymbolKeeps DEF OpenOK
<1> QED BY <1>1, <1>2 DEF OpenOK

(* No pending variable is declared: the constructs stay.                   *)
LEMMA ContextKeeps ==
    ASSUME NEW t, NEW u, Keeps(t, u), ScopesLinked(t),
           NEW op \in Seq(Construct), NEW b, Context(t, op, b),
           \A v \in PendingIn(op) : ~InScope(u, v)
    PROVE  Context(u, op, b)
<1>1. PICK at \in [DOMAIN op -> DOMAIN t.scopes] : Nested(t, op, at) /\ at[Len(op)] = b
  BY DEF Context
<1>2. at \in [DOMAIN op -> DOMAIN u.scopes]
  BY DEF Keeps
<1>3. \A i \in DOMAIN op : OpenOK(u, op[i], at[i])
  <2>1. ASSUME NEW i \in DOMAIN op
        PROVE  OpenOK(u, op[i], at[i])
    <3>1. OpenOK(t, op[i], at[i])
      BY <1>1 DEF Nested
    <3>2. \A v \in Pending(op[i]) : ~InScope(u, v)
      BY DEF PendingIn
    <3> QED BY <3>1, <3>2, OpenKeeps
  <2> QED BY <2>1
<1>4. \A i \in DOMAIN op \ {1} : Into(u, op[i], at[i - 1], at[i])
  <2>1. ASSUME NEW i \in DOMAIN op \ {1}
        PROVE  Into(u, op[i], at[i - 1], at[i])
    <3>1. Into(t, op[i], at[i - 1], at[i])
      BY <1>1 DEF Nested
    <3>2. i \in DOMAIN op /\ i - 1 \in DOMAIN op
      OBVIOUS
    <3>3. at[i] \in DOMAIN t.scopes /\ at[i - 1] \in DOMAIN t.scopes
      BY <3>2
    <3> QED BY <3>1, <3>3, IntoKeeps
  <2> QED BY <2>1
<1>5. Nested(u, op, at)
  BY <1>1, <1>3, <1>4 DEF Nested
<1> QED BY <1>1, <1>2, <1>5 DEF Context

(* A construct is opened.                                                  *)
LEMMA ContextPush ==
    ASSUME NEW t, NEW op \in Seq(Construct), NEW o \in Construct, NEW a, NEW b \in DOMAIN t.scopes,
           Context(t, op, a), OpenOK(t, o, b), Into(t, o, a, b),
           Pending(o) \cap PendingIn(op) = {}
    PROVE  Append(op, o) \in Seq(Construct) /\ Context(t, Append(op, o), b)
<1> DEFINE q == Append(op, o)
           n == Len(op)
<1>1. PICK at \in [DOMAIN op -> DOMAIN t.scopes] : Nested(t, op, at) /\ at[n] = a
  BY DEF Context
<1>2. n \in Nat /\ DOMAIN op = 1 .. n /\ n > 0 /\ op # <<>>
  BY DEF Context
<1>3. /\ q \in Seq(Construct) /\ Len(q) = n + 1 /\ DOMAIN q = 1 .. n + 1 /\ q # <<>>
      /\ \A i \in 1 .. n : q[i] = op[i]
      /\ q[n + 1] = o
  OBVIOUS
<1> HIDE DEF q, n
<1> DEFINE bt == [i \in 1 .. n + 1 |-> IF i = n + 1 THEN b ELSE at[i]]
<1>4. /\ bt \in [1 .. n + 1 -> DOMAIN t.scopes]
      /\ \A i \in 1 .. n : bt[i] = at[i]
      /\ bt[n + 1] = b
  BY <1>2
<1> HIDE DEF bt
<1>5. 1 .. n + 1 = 1 .. n \cup {n + 1}
  BY <1>2
<1>6. \A i \in 1 .. n + 1 : OpenOK(t, q[i], bt[i])
  BY <1>1, <1>2, <1>3, <1>4, <1>5 DEF Nested
<1>7. ASSUME NEW i \in 1 .. n + 1, i # 1
      PROVE  Into(t, q[i], bt[i - 1], bt[i])
  <2>1. CASE i = n + 1
    <3>1. i - 1 = n /\ n \in 1 .. n
      BY <2>1, <1>2
    <3>2. bt[i - 1] = a /\ bt[i] = b /\ q[i] = o
      BY <3>1, <2>1, <1>1, <1>3, <1>4
    <3> QED BY <3>2
  <2>2. CASE i # n + 1
    <3>1. i \in 1 .. n /\ i - 1 \in 1 .. n
      BY <2>2, <1>2, <1>7
    <3>2. Into(t, op[i], at[i - 1], at[i])
      BY <3>1, <1>1, <1>2, <1>7 DEF Nested
    <3> QED BY <3>1, <3>2, <1>3, <1>4
  <2> QED BY <2>1, <2>2
<1>8. ASSUME NEW i \in 1 .. n + 1, NEW j \in 1 .. n + 1, i # j
      PROVE  Pending(q[i]) \cap Pending(q[j]) = {}
  <2>1. \A k \in 1 .. n : Pending(op[k]) \subseteq PendingIn(op)
    BY <1>2 DEF PendingIn
  <2>2. CASE i = n + 1
    <3>1. j \in 1 .. n
      BY <2>2, <1>5, <1>8
    <3> QED BY <3>1, <2>1, <2>2, <1>3
  <2>3. CASE j = n + 1
    <3>1. i \in 1 .. n
      BY <2>3, <1>5, <1>8
    <3> QED BY <3>1, <2>1, <2>3, <1>3
  <2>4. CASE i # n + 1 /\ j # n + 1
    <3>1. i \in 1 .. n /\ j \in 1 .. n
      BY <2>4, <1>5
    <3>2. Pending(op[i]) \cap Pending(op[j]) = {}
      BY <3>1, <1>1, <1>2, <1>8 DEF Nested
    <3> QED BY <3>1, <3>2, <1>3
  <2> QED BY <2>2, <2>3, <2>4
<1>9. Nested(t, q, bt)
  BY <1>3, <1>6, <1>7, <1>8 DEF Nested
<1>10. q[1] = [kind |-> "function"]
  <2>1. 1 \in 1 .. n
    BY <1>2
  <2>2. op[1] = [kind |-> "function"]
    BY DEF Context
  <2> QED BY <2>1, <2>2, <1>3
<1>11. Context(t, q, b)
  BY <1>3, <1>4, <1>9, <1>10 DEF Context
<1> QED BY <1>3, <1>11 DEF q

(* The innermost construct; and what is left when it is closed.            *)
LEMMA ContextTop ==
    ASSUME NEW t, NEW op \in Seq(Construct), NEW b, Context(t, op, b)
    PROVE  /\ Last(op) \in Construct /\ OpenOK(t, Last(op), b) /\ b \in DOMAIN t.scopes
           /\ Last(op).kind # "function" => Len(op) > 1
           /\ Pending(Last(op)) \subseteq PendingIn(op)
<1>1. PICK at \in [DOMAIN op -> DOMAIN t.scopes] : Nested(t, op, at) /\ at[Len(op)] = b
  BY DEF Context
<1>2. Len(op) \in Nat /\ Len(op) > 0 /\ Len(op) \in DOMAIN op
  BY DEF Context
<1>3. Last(op) = op[Len(op)]
  BY DEF Last
<1>4. op[1].kind = "function"
  BY DEF Context
<1>5. Len(op) = 1 => Last(op).kind = "function"
  BY <1>3, <1>4
<1>6. OpenOK(t, Last(op), b)
  BY <1>1, <1>2, <1>3 DEF Nested
<1>7. Pending(Last(op)) \subseteq PendingIn(op)
  BY <1>2, <1>3 DEF PendingIn
<1>8. b \in DOMAIN t.scopes
  BY <1>1, <1>2
<1>9. Last(op) \in Construct
  BY <1>2, <1>3
<1>10. Last(op).kind # "function" => Len(op) > 1
  <2>1. CASE Len(op) = 1
    BY <2>1, <1>5
  <2>2. CASE Len(op) # 1
    <3>1. \A m \in Nat : m > 0 /\ m # 1 => m > 1
      OBVIOUS
    <3>2. Len(op) > 1
      <4> DEFINE m == Len(op)
      <4>1. m \in Nat /\ m > 0 /\ m # 1
        BY <2>2, <1>2
      <4> HIDE DEF m
      <4>2. m > 1
        BY <4>1, <3>1
      <4> QED BY <4>2 DEF m
    <3> QED BY <3>2
  <2> QED BY <2>1, <2>2
<1> QED BY <1>6, <1>7, <1>8, <1>9, <1>10

LEMMA ContextPop ==
    ASSUME NEW t, NEW op \in Seq(Construct), NEW b, Context(t, op, b), Len(op) > 1
    PROVE  /\ Front(op) \in Seq(Construct)
           /\ PendingIn(Front(op)) \subseteq PendingIn(op)
           /\ Pending(Last(op)) \cap PendingIn(Front(op)) = {}
           /\ \E a \in DOMAIN t.scopes : Into(t, Last(op), a, b) /\ Context(t, Front(op), a)
<1> DEFINE q == Front(op)
           n == Len(op) - 1
<1>1. PICK at \in [DOMAIN op -> DOMAIN t.scopes] : Nested(t, op, at) /\ at[Len(op)] = b
  BY DEF Context
<1>2. n \in Nat /\ n > 0 /\ DOMAIN op = 1 .. n + 1 /\ Len(op) = n + 1
  OBVIOUS
<1>3. Last(op) = op[n + 1]
  BY <1>2 DEF Last
<1>4. q \in Seq(Construct) /\ Len(q) = n /\ DOMAIN q = 1 .. n /\ \A i \in 1 .. n : q[i] = op[i]
  <2>1. q = SubSeq(op, 1, n)
    BY DEF Front
  <2> HIDE DEF q, n
  <2>2. \A i \in 1 .. n : op[i] \in Construct
    BY <1>2
  <2>3. SubSeq(op, 1, n) = [i \in 1 .. n |-> op[i]]
    BY <1>2
  <2> QED BY <1>2, <2>1, <2>2, <2>3
<1> HIDE DEF q, n
<1>5. 1 .. n \subseteq 1 .. n + 1 /\ n + 1 \in 1 .. n + 1 /\ n + 1 \notin 1 .. n /\ 1 \in 1 .. n /\ n \in 1 .. n
  BY <1>2
<1>6. PendingIn(q) \subseteq PendingIn(op)
  BY <1>2, <1>4, <1>5 DEF PendingIn
<1>7. Pending(Last(op)) \cap PendingIn(q) = {}
  <2>1. \A i \in 1 .. n : Pending(op[n + 1]) \cap Pending(op[i]) = {}
    BY <1>1, <1>2, <1>5 DEF Nested
  <2> QED BY <2>1, <1>3, <1>4 DEF PendingIn
<1> DEFINE bt == [i \in 1 .. n |-> at[i]]
<1>8. bt \in [1 .. n -> DOMAIN t.scopes] /\ \A i \in 1 .. n : bt[i] = at[i]
  BY <1>2, <1>5
<1> HIDE DEF bt
<1>9. Nested(t, q, bt)
  <2>1. \A i \in 1 .. n : OpenOK(t, q[i], bt[i])
    BY <1>1, <1>2, <1>4, <1>5, <1>8 DEF Nested
  <2>2. ASSUME NEW i \in 1 .. n \ {1}
        PROVE  Into(t, q[i], bt[i - 1], bt[i])
    <3>1. i - 1 \in 1 .. n /\ i \in 1 .. n + 1 /\ i # 1
      BY <1>2
    <3>2. Into(t, op[i], at[i - 1], at[i])
      BY <3>1, <1>1, <1>2 DEF Nested
    <3> QED BY <3>1, <3>2, <1>4, <1>8
  <2>3. ASSUME NEW i \in 1 .. n, NEW j \in 1 .. n, i # j
        PROVE  Pending(q[i]) \cap Pending(q[j]) = {}
    <3>1. Pending(op[i]) \cap Pending(op[j]) = {}
      BY <2>3, <1>1, <1>2, <1>5 DEF Nested
    <3> QED BY <3>1, <1>4
  <2> QED BY <2>1, <2>2, <2>3, <1>4 DEF Nested
<1>10. q # <<>> /\ q[1] = [kind |-> "function"]
  BY <1>2, <1>4, <1>5 DEF Context
<1>11. Context(t, q, at[n])
  BY <1>4, <1>5, <1>8, <1>9, <1>10 DEF Context
<1>12. Into(t, Last(op), at[n], b)
  <2>1. n + 1 \in DOMAIN op \ {1} /\ (n + 1) - 1 = n
    BY <1>2
  <2>2. Into(t, op[n + 1], at[(n + 1) - 1], at[n + 1])
    BY <2>1, <1>1 DEF Nested
  <2> QED BY <2>1, <2>2, <1>1, <1>2, <1>3
<1>13. at[n] \in DOMAIN t.scopes
  BY <1>2, <1>5
<1> QED BY <1>4, <1>6, <1>7, <1>11, <1>12, <1>13 DEF q

LEMMA PendingNotInScope ==
    ASSUME NEW t, NEW op, NEW b, Context(t, op, b)
    PROVE  \A v \in PendingIn(op) : v \in Locals(t) /\ ~InScope(t, v)
BY DEF Context, Nested, OpenOK, PendingIn

-----------------------------------------------------------------------------
(* Longer sequences *)

LEMMA Concatenation ==
    ASSUME NEW S, NEW l \in Seq(S), NEW m \in Seq(S)
    PROVE  /\ l \o m \in Seq(S)
           /\ ToSet(l \o m) = ToSet(l) \cup ToSet(m)
           /\ DOMAIN l \subseteq DOMAIN (l \o m)
           /\ \A i \in DOMAIN l : (l \o m)[i] = l[i]
           /\ \A i \in DOMAIN m : /\ Len(l) + i \in DOMAIN (l \o m) \ DOMAIN l
                                  /\ (l \o m)[Len(l) + i] = m[i]
           /\ \A i \in DOMAIN (l \o m) \ DOMAIN l : \E j \in DOMAIN m : i = Len(l) + j
<1> DEFINE c == l \o m
<1>1. /\ c \in Seq(S) /\ Len(c) = Len(l) + Len(m) /\ Len(l) \in Nat /\ Len(m) \in Nat
      /\ \A i \in 1 .. Len(l) + Len(m) : c[i] = IF i <= Len(l) THEN l[i] ELSE m[i - Len(l)]
  OBVIOUS
<1>2. DOMAIN c = 1 .. Len(c) /\ DOMAIN l = 1 .. Len(l) /\ DOMAIN m = 1 .. Len(m)
  BY <1>1
<1> HIDE DEF c
<1>3. DOMAIN l \subseteq DOMAIN c /\ \A i \in DOMAIN l : c[i] = l[i]
  BY <1>1, <1>2
<1>4. ASSUME NEW i \in DOMAIN m
      PROVE  Len(l) + i \in DOMAIN c \ DOMAIN l /\ c[Len(l) + i] = m[i]
  <2>1. i \in 1 .. Len(m) /\ Len(l) + i \in 1 .. Len(l) + Len(m) /\ ~(Len(l) + i <= Len(l))
        /\ (Len(l) + i) - Len(l) = i
    BY <1>1, <1>2
  <2>2. c[Len(l) + i] = m[(Len(l) + i) - Len(l)]
    BY <2>1, <1>1
  <2> QED BY <2>1, <2>2, <1>1, <1>2
<1>5. ASSUME NEW i \in DOMAIN c \ DOMAIN l
      PROVE  \E j \in DOMAIN m : i = Len(l) + j
  <2>1. i - Len(l) \in 1 .. Len(m) /\ i = Len(l) + (i - Len(l))
    BY <1>1, <1>2
  <2> QED BY <2>1, <1>2
<1>6. ToSet(c) = ToSet(l) \cup ToSet(m)
  <2>1. \A q, x : x \in ToSet(q) <=> \E i \in DOMAIN q : x = q[i]
    BY DEF ToSet
  <2>2. ASSUME NEW x \in ToSet(c)
        PROVE  x \in ToSet(l) \/ x \in ToSet(m)
    <3>1. PICK i \in DOMAIN c : x = c[i]
      BY <2>1, <2>2
    <3>2. CASE i \in DOMAIN l
      BY <3>1, <3>2, <2>1, <1>3
    <3>3. CASE i \notin DOMAIN l
      <4>1. PICK j \in DOMAIN m : i = Len(l) + j
        BY <3>3, <1>5
      <4> QED BY <4>1, <3>1, <2>1, <1>4
    <3> QED BY <3>2, <3>3
  <2>3. ASSUME NEW x \in ToSet(l)
        PROVE  x \in ToSet(c)
    BY <2>1, <2>3, <1>3
  <2>4. ASSUME NEW x \in ToSet(m)
        PROVE  x \in ToSet(c)
    <3>1. PICK i \in DOMAIN m : x = m[i]
      BY <2>1, <2>4
    <3>2. Len(l) + i \in DOMAIN c /\ c[Len(l) + i] = x
      BY <3>1, <1>4
    <3> QED BY <3>2, <2>1
  <2> QED BY <2>2, <2>3, <2>4
<1> QED BY <1>1, <1>3, <1>4, <1>5, <1>6 DEF c

LEMMA AppendedTo ==
    ASSUME NEW S, NEW l \in Seq(S), NEW x \in S
    PROVE  /\ Append(l, x) \in Seq(S)
           /\ DOMAIN Append(l, x) = 1 .. Len(l) + 1
           /\ \A i \in 1 .. Len(l) : Append(l, x)[i] = l[i]
           /\ Append(l, x)[Len(l) + 1] = x
OBVIOUS

LEMMA Replaced ==
    ASSUME NEW S, NEW l \in Seq(S), NEW s \in DOMAIN l, NEW x \in S
    PROVE  [l EXCEPT ![s] = x] \in Seq(S)
<1>1. Len(l) \in Nat /\ DOMAIN l = 1 .. Len(l) /\ \A i \in DOMAIN l : l[i] \in S
  OBVIOUS
<1>2. [l EXCEPT ![s] = x] = [i \in 1 .. Len(l) |-> IF i = s THEN x ELSE l[i]]
  BY <1>1
<1> QED BY <1>1, <1>2

LEMMA AppendedOne ==
    ASSUME NEW S, NEW l \in Seq(S), NEW x \in S
    PROVE  /\ Append(l, x) = l \o <<x>>
           /\ <<x>> \in Seq(S) /\ ToSet(<<x>>) = {x}
           /\ DOMAIN <<x>> = {1} /\ <<x>>[1] = x
<1>1. Append(l, x) = l \o <<x>>
  OBVIOUS
<1>2. <<x>> \in Seq(S) /\ DOMAIN <<x>> = 1 .. 1 /\ <<x>>[1] = x
  OBVIOUS
<1>3. 1 .. 1 = {1}
  OBVIOUS
<1>4. ToSet(<<x>>) = {x}
  BY <1>2, <1>3 DEF ToSet
<1> QED BY <1>1, <1>2, <1>3, <1>4

LEMMA EmptySet == ToSet(<<>>) = {}
BY DEF ToSet

(* The variables created have the next numbers.                            *)
Numbered(t, u, new) ==
    \A i \in DOMAIN new :
        /\ Len(t.variables) + i \in Nat
        /\ Len(t.variables) + i \in Locals(u) \ DOMAIN t.variables
        /\ u.variables[Len(t.variables) + i] = new[i]

(* Variables are created.                                                  *)
LEMMA MoreVariables ==
    ASSUME NEW t, NEW u, TreeOK(t), NEW new \in Seq(VariableType),
           u.variables = t.variables \o new,
           \A i \in DOMAIN new : new[i].block \in DOMAIN u.scopes /\ new[i].escaped = FALSE
    PROVE  /\ u.variables \in Seq(VariableType) /\ VariablesExtended(t, u)
           /\ Numbered(t, u, new)
<1> DEFINE l == t.variables
<1>1. l \in Seq(VariableType) /\ 1 \in DOMAIN l
  BY DEF TreeOK, Typed, Linked, VariablesLinked
<1>2. Len(l) \in Nat
  BY <1>1
<1>3. \A i \in DOMAIN new : i \in Nat /\ Len(l) + i \in Nat
  <2> HIDE DEF l
  <2> QED BY <1>2
<1> HIDE DEF l
<1>4. /\ l \o new \in Seq(VariableType)
      /\ DOMAIN l \subseteq DOMAIN (l \o new)
      /\ \A i \in DOMAIN l : (l \o new)[i] = l[i]
      /\ \A i \in DOMAIN new : /\ Len(l) + i \in DOMAIN (l \o new) \ DOMAIN l
                               /\ (l \o new)[Len(l) + i] = new[i]
      /\ \A i \in DOMAIN (l \o new) \ DOMAIN l : \E j \in DOMAIN new : i = Len(l) + j
  BY <1>1, Concatenation
<1>5. u.variables = l \o new
  BY DEF l
<1> DEFINE c == l \o new
<1> HIDE DEF c
<1>6. ASSUME NEW v \in DOMAIN c \ DOMAIN l
      PROVE  c[v].block \in DOMAIN u.scopes /\ c[v].escaped = FALSE
  <2>1. PICK j \in DOMAIN new : v = Len(l) + j
    BY <1>4 DEF c
  <2>2. c[v] = new[j]
    BY <2>1, <1>4 DEF c
  <2> QED BY <2>2
<1>7. VariablesExtended(t, u)
  BY <1>4, <1>5, <1>6 DEF VariablesExtended, l, c
<1>8. \A i \in DOMAIN new : Len(l) + i \in Locals(u) \ DOMAIN l
  BY <1>1, <1>4, <1>5 DEF Locals
<1>9. Numbered(t, u, new)
  BY <1>3, <1>4, <1>5, <1>8 DEF Numbered, l
<1> QED BY <1>4, <1>5, <1>7, <1>9

LEMMA OneMoreVariable ==
    ASSUME NEW t, NEW u, TreeOK(t), NEW x \in VariableType,
           u.variables = Append(t.variables, x),
           x.block \in DOMAIN u.scopes, x.escaped = FALSE
    PROVE  LET k == Len(t.variables) + 1
           IN  /\ u.variables \in Seq(VariableType) /\ VariablesExtended(t, u)
               /\ k \in Nat /\ k \in Locals(u) \ DOMAIN t.variables
               /\ u.variables[k] = x
<1>1. t.variables \in Seq(VariableType)
  BY DEF TreeOK, Typed
<1>2. u.variables = t.variables \o <<x>> /\ <<x>> \in Seq(VariableType)
      /\ DOMAIN <<x>> = {1} /\ <<x>>[1] = x
  BY <1>1, AppendedOne
<1> DEFINE new == <<x>>
<1> HIDE DEF new
<1>3. /\ new \in Seq(VariableType) /\ u.variables = t.variables \o new
      /\ \A i \in DOMAIN new : new[i].block \in DOMAIN u.scopes /\ new[i].escaped = FALSE
      /\ 1 \in DOMAIN new /\ new[1] = x
  BY <1>2 DEF new
<1> HIDE DEF new
<1>4. Numbered(t, u, new)
  BY <1>3, MoreVariables
<1>5. u.variables \in Seq(VariableType) /\ VariablesExtended(t, u)
  BY <1>3, MoreVariables
<1> QED BY <1>3, <1>4, <1>5 DEF Numbered

(* Variables are declared in a scope.                                      *)
LEMMA MoreDeclared ==
    ASSUME NEW t, NEW u, TreeOK(t), NEW s \in DOMAIN t.scopes, NEW vs \in Seq(Nat),
           u.scopes = [t.scopes EXCEPT ![s].symbol_list = @ \o vs],
           \A v \in ToSet(vs) : v \in Locals(u) /\ u.variables[v].block = s /\ u.variables[v].escaped = FALSE
    PROVE  /\ u.scopes \in Seq(ScopeType) /\ DOMAIN u.scopes = DOMAIN t.scopes
           /\ ScopesExtended(t, u) /\ Declared(t, u)
           /\ \A b \in DOMAIN t.scopes :
                  ToSet(u.scopes[b].symbol_list) \subseteq ToSet(t.scopes[b].symbol_list) \cup ToSet(vs)
<1> DEFINE r == t.scopes[s]
           l == r.symbol_list
           q == [r EXCEPT !.symbol_list = l \o vs]
<1>1. t.scopes \in Seq(ScopeType) /\ r \in ScopeType /\ l \in Seq(Nat)
  <2>1. t.scopes \in Seq(ScopeType)
    BY DEF TreeOK, Typed
  <2>2. r \in ScopeType
    BY <2>1
  <2> QED BY <2>1, <2>2 DEF ScopeType
<1>2. u.scopes = [t.scopes EXCEPT ![s] = q]
  OBVIOUS
<1> HIDE DEF l
<1>3. l \o vs \in Seq(Nat) /\ ToSet(l \o vs) = ToSet(l) \cup ToSet(vs)
  BY <1>1, Concatenation
<1>4. /\ q \in ScopeType /\ q.symbol_list = l \o vs
      /\ q.function = r.function /\ q.parent = r.parent /\ q.need_close = r.need_close
  <2> DEFINE c == l \o vs
  <2> HIDE DEF c, r
  <2> QED BY <1>1, <1>3 DEF ScopeType, c
<1> HIDE DEF q
<1>5. /\ u.scopes \in Seq(ScopeType) /\ DOMAIN u.scopes = DOMAIN t.scopes
      /\ \A b \in DOMAIN t.scopes : u.scopes[b] = IF b = s THEN q ELSE t.scopes[b]
  <2> DEFINE g == t.scopes
             n == Len(g)
  <2>1. g \in Seq(ScopeType) /\ s \in DOMAIN g /\ u.scopes = [g EXCEPT ![s] = q] /\ q \in ScopeType
    BY <1>1, <1>2, <1>4
  <2> HIDE DEF g
  <2>2. n \in Nat /\ DOMAIN g = 1 .. n /\ \A b \in DOMAIN g : g[b] \in ScopeType
    BY <2>1
  <2>3. DOMAIN u.scopes = DOMAIN g /\ \A b \in DOMAIN g : u.scopes[b] = IF b = s THEN q ELSE g[b]
    BY <2>1, <2>2
  <2>4. [g EXCEPT ![s] = q] \in Seq(ScopeType)
    BY <2>1, Replaced
  <2>5. u.scopes \in Seq(ScopeType)
    BY <2>1, <2>4
  <2> QED BY <2>3, <2>5 DEF g
<1>6. \A b \in DOMAIN t.scopes :
          /\ u.scopes[b].function = t.scopes[b].function
          /\ u.scopes[b].parent = t.scopes[b].parent
          /\ u.scopes[b].need_close = t.scopes[b].need_close
          /\ ToSet(u.scopes[b].symbol_list) =
                 ToSet(t.scopes[b].symbol_list) \cup (IF b = s THEN ToSet(vs) ELSE {})
  <2>1. ASSUME NEW b \in DOMAIN t.scopes, b = s
        PROVE  /\ u.scopes[b].function = t.scopes[b].function
               /\ u.scopes[b].parent = t.scopes[b].parent
               /\ u.scopes[b].need_close = t.scopes[b].need_close
               /\ ToSet(u.scopes[b].symbol_list) = ToSet(t.scopes[b].symbol_list) \cup ToSet(vs)
    BY <1>3, <1>4, <1>5, <2>1 DEF l
  <2>2. ASSUME NEW b \in DOMAIN t.scopes, b # s
        PROVE  u.scopes[b] = t.scopes[b]
    BY <1>5, <2>2
  <2> QED BY <2>1, <2>2
<1>7. ScopesExtended(t, u)
  BY <1>5, <1>6 DEF ScopesExtended
<1>8. Declared(t, u)
  BY <1>5, <1>6 DEF Declared
<1>9. \A b \in DOMAIN t.scopes :
          ToSet(u.scopes[b].symbol_list) \subseteq ToSet(t.scopes[b].symbol_list) \cup ToSet(vs)
  BY <1>6
<1> QED BY <1>5, <1>7, <1>8, <1>9

LEMMA ScopesSame ==
    ASSUME NEW t, NEW u, TreeOK(t), u.scopes = t.scopes
    PROVE  /\ u.scopes \in Seq(ScopeType)
           /\ ScopesExtended(t, u) /\ Declared(t, u)
           /\ \A b \in DOMAIN t.scopes :
                  ToSet(u.scopes[b].symbol_list) \subseteq ToSet(t.scopes[b].symbol_list) \cup {}
BY DEF ScopesExtended, Declared, TreeOK, Typed

Created(t, u, f, p, vs) == u.scopes = Append(t.scopes, [Scope(f, p) EXCEPT !.symbol_list = vs])

Declarable(u, s, vs) ==
    \A v \in ToSet(vs) :
        v \in Locals(u) /\ u.variables[v].block = s /\ u.variables[v].escaped = FALSE

HasScope(u, s, f, p) ==
    s \in DOMAIN u.scopes /\ u.scopes[s].function = f /\ u.scopes[s].parent = p

ListsWithin(t, u, D) ==
    \A b \in DOMAIN t.scopes :
        ToSet(u.scopes[b].symbol_list) \subseteq ToSet(t.scopes[b].symbol_list) \cup D

(* A scope is created.                                                     *)
LEMMA MoreScopes ==
    ASSUME NEW t, NEW u, TreeOK(t), NEW f \in Nat, f \in DOMAIN u.functions,
           NEW p \in DOMAIN t.scopes, NEW vs \in Seq(Nat),
           Created(t, u, f, p, vs), Declarable(u, Len(t.scopes) + 1, vs)
    PROVE  /\ u.scopes \in Seq(ScopeType)
           /\ ScopesExtended(t, u) /\ Declared(t, u) /\ ListsWithin(t, u, {})
           /\ HasScope(u, Len(t.scopes) + 1, f, p)
<1> DEFINE l == t.scopes
           k == Len(l) + 1
           x == [Scope(f, p) EXCEPT !.symbol_list = vs]
<1>1. l \in Seq(ScopeType) /\ Len(l) \in Nat /\ DOMAIN l = 1 .. Len(l) /\ p \in Nat
  BY DEF TreeOK, Typed
<1>2. /\ Scope(f, p) \in ScopeType
      /\ Scope(f, p).function = f /\ Scope(f, p).parent = p /\ Scope(f, p).need_close = FALSE
  <2>1. <<>> \in Seq(Nat)
    OBVIOUS
  <2> QED BY <2>1, <1>1 DEF Scope, ScopeType
<1>3. x \in ScopeType /\ x.function = f /\ x.parent = p /\ x.symbol_list = vs /\ x.need_close = FALSE
  <2> DEFINE r == Scope(f, p)
  <2>1. r \in ScopeType /\ r.function = f /\ r.parent = p /\ r.need_close = FALSE
    BY <1>2
  <2>2. x = [r EXCEPT !.symbol_list = vs]
    OBVIOUS
  <2> HIDE DEF r, x
  <2> QED BY <2>1, <2>2 DEF ScopeType
<1>4. u.scopes = Append(l, x)
  BY DEF x, Created
<1> HIDE DEF l
<1>5. /\ u.scopes \in Seq(ScopeType) /\ DOMAIN u.scopes = 1 .. k
      /\ \A b \in 1 .. Len(l) : u.scopes[b] = l[b]
      /\ u.scopes[k] = x
  <2>1. x \in ScopeType
    BY <1>3
  <2> HIDE DEF x
  <2> DEFINE c == Append(l, x)
  <2>2. /\ c \in Seq(ScopeType) /\ DOMAIN c = 1 .. k
        /\ \A b \in 1 .. Len(l) : c[b] = l[b]
        /\ c[k] = x
    BY <1>1, <2>1, AppendedTo
  <2>3. u.scopes = c
    BY <1>4
  <2> HIDE DEF c
  <2> QED BY <2>2, <2>3
<1>6. k \in 1 .. k /\ 1 .. k = 1 .. Len(l) \cup {k} /\ p \in 1 .. k - 1
  <2>1. p \in DOMAIN l
    BY DEF l
  <2>2. p \in 1 .. Len(l) /\ Len(l) \in Nat
    BY <2>1, <1>1
  <2> DEFINE n == Len(l)
  <2>3. p \in 1 .. n /\ n \in Nat
    BY <2>2
  <2> HIDE DEF n
  <2>4. n + 1 \in 1 .. n + 1 /\ 1 .. n + 1 = 1 .. n \cup {n + 1} /\ p \in 1 .. (n + 1) - 1
    BY <2>3
  <2> QED BY <2>4 DEF n
<1>7. ScopesExtended(t, u)
  <2>1. DOMAIN u.scopes \ DOMAIN t.scopes \subseteq {k}
    BY <1>1, <1>5, <1>6 DEF l
  <2> QED BY <2>1, <1>1, <1>3, <1>5, <1>6 DEF ScopesExtended, l
<1>8. Declared(t, u)
  <2>1. ASSUME NEW s \in 1 .. k, NEW v \in ToSet(u.scopes[s].symbol_list)
        PROVE  \/ s \in DOMAIN t.scopes /\ v \in ToSet(t.scopes[s].symbol_list)
               \/ v \in Locals(u) /\ u.variables[v].block = s /\ u.variables[v].escaped = FALSE
    <3>1. CASE s = k
      BY <3>1, <2>1, <1>3, <1>5 DEF l, Declarable
    <3>2. CASE s \in 1 .. Len(l)
      BY <3>2, <2>1, <1>1, <1>5 DEF l
    <3> QED BY <3>1, <3>2, <1>6
  <2> QED BY <2>1, <1>5 DEF Declared
<1>9. \A b \in DOMAIN t.scopes : u.scopes[b] = t.scopes[b]
  BY <1>1, <1>5 DEF l
<1>10. ListsWithin(t, u, {})
  BY <1>9 DEF ListsWithin
<1>11. HasScope(u, Len(t.scopes) + 1, f, p)
  BY <1>3, <1>5, <1>6 DEF HasScope, l
<1> QED BY <1>5, <1>7, <1>8, <1>10, <1>11

LEMMA FunctionsSame ==
    ASSUME NEW t, NEW u, TreeOK(t), u.functions = t.functions
    PROVE  u.functions \in Seq(FunctionType) /\ FunctionsExtended(t, u)
BY DEF FunctionsExtended, TreeOK, Typed

HasFunction(u, f, p) == f \in Nat /\ f \in DOMAIN u.functions /\ u.functions[f].parent = p

LEMMA MoreFunctions ==
    ASSUME NEW t, NEW u, TreeOK(t), NEW p \in DOMAIN t.functions,
           u.functions = Append(t.functions, Function(p))
    PROVE  /\ u.functions \in Seq(FunctionType) /\ FunctionsExtended(t, u)
           /\ HasFunction(u, Len(t.functions) + 1, p)
<1> DEFINE l == t.functions
           k == Len(l) + 1
           x == Function(p)
<1>1. l \in Seq(FunctionType) /\ Len(l) \in Nat /\ DOMAIN l = 1 .. Len(l) /\ p \in Nat
  BY DEF TreeOK, Typed
<1>2. <<>> \in Seq(Nat)
  OBVIOUS
<1>3. x \in FunctionType /\ x.parent = p /\ x.upvalues = <<>> /\ x.need_close = FALSE
  BY <1>1, <1>2 DEF FunctionType, Function
<1>4. u.functions = Append(l, x)
  OBVIOUS
<1> HIDE DEF l, x
<1>5. /\ u.functions \in Seq(FunctionType) /\ DOMAIN u.functions = 1 .. k
      /\ \A b \in 1 .. Len(l) : u.functions[b] = l[b]
      /\ u.functions[k] = x
  BY <1>1, <1>3, <1>4
<1>6. k \in 1 .. k /\ 1 .. k = 1 .. Len(l) \cup {k} /\ p \in 0 .. k - 1 /\ k \in Nat
  BY <1>1 DEF l
<1>7. FunctionsExtended(t, u)
  <2>1. DOMAIN u.functions \ DOMAIN t.functions \subseteq {k}
    BY <1>1, <1>5, <1>6 DEF l
  <2> QED BY <2>1, <1>1, <1>3, <1>5, <1>6 DEF FunctionsExtended, l
<1>8. HasFunction(u, Len(t.functions) + 1, p)
  BY <1>3, <1>5, <1>6 DEF HasFunction, l
<1> QED BY <1>5, <1>7, <1>8

(* What an extension of the tree leaves as it was.                         *)
LEMMA ExtendContext ==
    ASSUME NEW t, NEW u, TreeOK(t), Typed(u), Extended(t, u),
           NEW op \in Seq(Construct), NEW b, Context(t, op, b), NEW D,
           \A s \in DOMAIN t.scopes :
               ToSet(u.scopes[s].symbol_list) \subseteq ToSet(t.scopes[s].symbol_list) \cup D,
           D \cap PendingIn(op) = {}
    PROVE  TreeOK(u) /\ Keeps(t, u) /\ Context(u, op, b)
<1>1. TreeOK(u) /\ Keeps(t, u)
  BY ExtendKeeps, ExtendedKeeps
<1>2. ASSUME NEW v \in PendingIn(op)
      PROVE  ~InScope(u, v)
  <2>1. v \in Locals(t) /\ ~InScope(t, v)
    BY PendingNotInScope
  <2>2. u.variables[v].block = t.variables[v].block /\ t.variables[v].block \in DOMAIN t.scopes
    BY <2>1 DEF TreeOK, Linked, VariablesLinked, Extended, VariablesExtended, Locals
  <2>3. v \notin D
    BY <1>2
  <2> QED BY <2>1, <2>2, <2>3 DEF InScope
<1>3. Context(u, op, b)
  BY <1>1, <1>2, ContextKeeps DEF TreeOK, Linked
<1> QED BY <1>1, <1>3

LEMMA AssignedKeeps ==
    ASSUME NEW t, NEW u, Keeps(t, u), NEW A, AssignedOK(t, A)
    PROVE  AssignedOK(u, A)
BY DEF Keeps, AssignedOK

(* Variables are marked as modified.                                       *)
LEMMA MarkUpdates ==
    ASSUME TreeOK(Tree), NEW u, NEW ss, \A s \in ToSet(ss) : SymbolOK(Tree, s),
           u.variables = detect_local_updates(ss), DOMAIN scopes \subseteq DOMAIN u.scopes
    PROVE  /\ u.variables \in Seq(VariableType) /\ VariablesExtended(Tree, u)
           /\ DOMAIN u.variables = DOMAIN variables
           /\ \A v \in Updated(ss) : v \in DOMAIN variables /\ u.variables[v].modified
<1> DEFINE U == Updated(ss)
<1>1. variables \in Seq(VariableType) /\ Len(variables) \in Nat
      /\ DOMAIN variables = 1 .. Len(variables)
      /\ \A v \in DOMAIN variables : variables[v] \in VariableType
  <2>1. variables \in Seq(VariableType)
    BY DEF TreeOK, Typed, Tree
  <2> QED BY <2>1
<1>2. \A v \in U : v \in DOMAIN variables
  <2>1. ASSUME NEW s \in ToSet(ss), s.type \in {"SYM_LOCAL", "SYM_UPVALUE"}
        PROVE  Target(s) \in DOMAIN variables
    <3>1. SymbolOK(Tree, s)
      OBVIOUS
    <3>2. CASE s.type = "SYM_LOCAL"
      BY <3>1, <3>2 DEF SymbolOK, Target, Tree
    <3>3. CASE s.type = "SYM_UPVALUE"
      <4>1. s.function \in DOMAIN functions /\ s.index \in DOMAIN functions[s.function].upvalues
        BY <3>1, <3>3 DEF SymbolOK, Tree
      <4>2. Target(s) = functions[s.function].upvalues[s.index]
        BY <3>3 DEF Target
      <4>3. Target(s) \in ToSet(functions[s.function].upvalues)
        BY <4>1, <4>2 DEF ToSet
      <4> QED BY <4>1, <4>3 DEF TreeOK, Linked, FunctionsLinked, Tree
    <3> QED BY <2>1, <3>2, <3>3
  <2> QED BY <2>1 DEF Updated
<1>3. u.variables = [v \in DOMAIN variables |->
          [variables[v] EXCEPT !.modified = @ \/ v \in U]]
  BY DEF detect_local_updates
<1> HIDE DEF U
<1>4. DOMAIN u.variables = DOMAIN variables
  BY <1>3
<1>5. ASSUME NEW v \in DOMAIN variables
      PROVE  /\ u.variables[v] \in VariableType
             /\ u.variables[v].name = variables[v].name
             /\ u.variables[v].block = variables[v].block
             /\ u.variables[v].escaped = variables[v].escaped
             /\ u.variables[v].modified <=> variables[v].modified \/ v \in U
  <2> DEFINE r == variables[v]
             c == r.modified \/ v \in U
  <2>1. r \in VariableType
    BY <1>1
  <2>2. u.variables[v] = [r EXCEPT !.modified = c]
    BY <1>3
  <2>3. c \in BOOLEAN
    OBVIOUS
  <2> HIDE DEF r, c
  <2>4. [r EXCEPT !.modified = c] \in VariableType
    BY <2>1, <2>3 DEF VariableType
  <2>5. /\ u.variables[v].name = r.name /\ u.variables[v].block = r.block
        /\ u.variables[v].escaped = r.escaped /\ u.variables[v].modified = c
    BY <2>1, <2>2 DEF VariableType
  <2> QED BY <2>2, <2>4, <2>5 DEF r, c
<1>6. u.variables \in Seq(VariableType)
  <2> DEFINE n == Len(variables)
  <2>1. u.variables = [v \in 1 .. n |-> u.variables[v]]
    BY <1>1, <1>3, <1>4
  <2> HIDE DEF n
  <2>2. n \in Nat /\ \A v \in 1 .. n : u.variables[v] \in VariableType
    BY <1>1, <1>5 DEF n
  <2> QED BY <2>1, <2>2
<1>7. VariablesExtended(Tree, u)
  BY <1>4, <1>5 DEF VariablesExtended, Tree
<1> QED BY <1>2, <1>4, <1>5, <1>6, <1>7 DEF U

-----------------------------------------------------------------------------
(* The actions *)

LEMMA InvFacts ==
    ASSUME IInv
    PROVE  /\ TreeOK(Tree) /\ Linked(Tree) /\ ScopesLinked(Tree)
           /\ open \in Seq(Construct) /\ Context(Tree, open, current_scope)
           /\ current_scope \in DOMAIN scopes /\ current_scope \in Nat
           /\ current_function = scopes[current_scope].function
           /\ current_function \in DOMAIN functions /\ current_function \in Nat
           /\ Len(variables) \in Nat /\ Len(scopes) \in Nat /\ Len(functions) \in Nat
           /\ Top \in Construct /\ OpenOK(Tree, Top, current_scope)
           /\ Top.kind # "function" => Len(open) > 1
           /\ PendingIn(open) \subseteq DOMAIN variables
           /\ AssignedOK(Tree, assigned)
<1>1. TreeOK(Tree) /\ Linked(Tree) /\ ScopesLinked(Tree) /\ Typed(Tree)
  BY DEF IInv, TreeOK, Linked
<1>2. /\ functions \in Seq(FunctionType) /\ scopes \in Seq(ScopeType) /\ variables \in Seq(VariableType)
  BY <1>1 DEF Typed, Tree
<1>3. open \in Seq(Construct) /\ Context(Tree, open, current_scope)
      /\ current_function = scopes[current_scope].function /\ AssignedOK(Tree, assigned)
  BY DEF IInv
<1>4. /\ Top \in Construct /\ OpenOK(Tree, Top, current_scope) /\ current_scope \in DOMAIN scopes
      /\ Top.kind # "function" => Len(open) > 1
  BY <1>3, ContextTop DEF Top, Tree
<1>5. current_function \in DOMAIN functions
  BY <1>1, <1>3, <1>4 DEF ScopesLinked, Tree
<1>6. PendingIn(open) \subseteq DOMAIN variables
  BY <1>3, PendingNotInScope DEF Locals, Tree
<1> QED BY <1>1, <1>2, <1>3, <1>4, <1>5, <1>6

LEMMA TreePrime ==
    ASSUME TRUE
    PROVE  /\ Tree'.functions = functions' /\ Tree'.scopes = scopes' /\ Tree'.variables = variables'
           /\ Tree.functions = functions /\ Tree.scopes = scopes /\ Tree.variables = variables
BY DEF Tree

(* Constructs that wait for expressions.                                   *)
LEMMA ExpressionsOpen ==
    ASSUME NEW d \in Seq(Nat), NEW w \in Seq(Symbol), NEW l \in BOOLEAN
    PROVE  LET o == Expressions(d, w, l)
           IN  /\ o \in Construct /\ o.kind = "expressions" /\ o.loop = l /\ o.updates = w
               /\ Pending(o) = ToSet(d)
BY DEF Expressions, Construct, Pending

LEMMA OtherOpen ==
    /\ \A k \in {1, 2} : /\ Block(k) \in Construct /\ Pending(Block(k)) = {}
                         /\ Block(k).kind = "block" /\ Block(k).scopes = k
    /\ Body \in Construct /\ Pending(Body) = {} /\ Body.kind = "body"
    /\ [kind |-> "function"] \in Construct /\ Pending([kind |-> "function"]) = {}
    /\ [kind |-> "function"].kind = "function"
BY DEF Block, Body, Construct, Pending

LEMMA NothingPending ==
    ASSUME NEW t, NEW o, NEW b, Pending(o) = {},
           o.kind = "expressions" => \A s \in ToSet(o.updates) : SymbolOK(t, s)
    PROVE  OpenOK(t, o, b)
BY DEF OpenOK

LEMMA InvNext ==
    ASSUME TreeOK(Tree'), open' \in Seq(Construct), Context(Tree', open', current_scope'),
           current_function' = scopes'[current_scope'].function,
           AssignedOK(Tree', assigned')
    PROVE  IInv'
BY DEF IInv

(* A name is resolved.                                                     *)
LEMMA ReferenceStep ==
    ASSUME IInv, NEW n, BecomeTree(new_symbol_reference(n).tree)
    PROVE  /\ TreeOK(Tree') /\ Context(Tree', open, current_scope)
           /\ current_function = scopes'[current_scope].function
           /\ current_scope \in DOMAIN scopes'
           /\ AssignedOK(Tree', assigned)
           /\ new_symbol_reference(n).symbol \in Symbol
           /\ SymbolOK(Tree', new_symbol_reference(n).symbol)
<1> DEFINE r == new_symbol_reference(n)
<1>1. /\ r.tree = [functions |-> r.tree.functions, scopes |-> r.tree.scopes,
                            variables |-> r.tree.variables]
      /\ Recorded(r.tree)
      /\ r.symbol \in Symbol /\ SymbolOK(r.tree, r.symbol)
  BY InvFacts, ReferenceRight
<1>2. Tree' = r.tree
  <2>1. functions' = r.tree.functions /\ scopes' = r.tree.scopes /\ variables' = r.tree.variables
    BY DEF BecomeTree
  <2>2. Tree' = [functions |-> functions', scopes |-> scopes', variables |-> variables']
    BY DEF Tree
  <2> HIDE DEF r
  <2> QED BY <1>1, <2>1, <2>2
<1> HIDE DEF r
<1>3. TreeOK(Tree') /\ Keeps(Tree, Tree') /\ \A v : InScope(Tree', v) => InScope(Tree, v)
  BY <1>1, <1>2 DEF Recorded
<1>4. Context(Tree', open, current_scope)
  <2>1. \A v \in PendingIn(open) : ~InScope(Tree', v)
    BY <1>3, InvFacts, PendingNotInScope
  <2> QED BY <1>3, <2>1, InvFacts, ContextKeeps
<1>5. AssignedOK(Tree', assigned)
  BY <1>3, InvFacts, AssignedKeeps
<1>6. current_scope \in DOMAIN scopes' /\ current_function = scopes'[current_scope].function
  BY <1>3, InvFacts, TreePrime DEF Keeps
<1> QED BY <1>1, <1>2, <1>3, <1>4, <1>5, <1>6 DEF r

LEMMA AssignmentKeeps ==
    ASSUME IInv, NEW n, parse_assignment(n)
    PROVE  IInv'
<1> DEFINE s == new_symbol_reference(n).symbol
           o == Expressions(<<>>, <<s>>, FALSE)
<1>1. /\ BecomeTree(new_symbol_reference(n).tree) /\ open' = Append(open, o)
      /\ UNCHANGED <<current_function, current_scope, assigned>>
  BY DEF parse_assignment
<1>2. /\ TreeOK(Tree') /\ Context(Tree', open, current_scope)
      /\ current_function = scopes'[current_scope].function
      /\ current_scope \in DOMAIN Tree'.scopes
      /\ AssignedOK(Tree', assigned)
      /\ s \in Symbol /\ SymbolOK(Tree', s)
  BY <1>1, ReferenceStep, TreePrime
<1> HIDE DEF s
<1>3. /\ o \in Construct /\ o.kind = "expressions" /\ o.loop = FALSE /\ o.updates = <<s>>
      /\ Pending(o) = {} /\ ToSet(<<s>>) = {s}
  <2>1. <<s>> \in Seq(Symbol) /\ <<>> \in Seq(Nat) /\ ToSet(<<s>>) = {s}
    <3>1. <<>> \in Seq(Nat)
      OBVIOUS
    <3>2. <<>> \in Seq(Symbol)
      OBVIOUS
    <3> QED BY <1>2, <3>1, <3>2, AppendedOne
  <2> QED BY <2>1, ExpressionsOpen, EmptySet
<1> HIDE DEF o
<1>4. OpenOK(Tree', o, current_scope) /\ Into(Tree', o, current_scope, current_scope)
  BY <1>2, <1>3, NothingPending DEF Into
<1>5. open' \in Seq(Construct) /\ Context(Tree', open', current_scope)
  <2>1. open \in Seq(Construct)
    BY InvFacts
  <2>2. Append(open, o) \in Seq(Construct) /\ Context(Tree', Append(open, o), current_scope)
    BY <1>2, <1>3, <1>4, <2>1, ContextPush
  <2> QED BY <1>1, <2>2
<1> QED BY <1>1, <1>2, <1>5, InvNext

LEMMA NameKeeps ==
    ASSUME IInv, NEW n, parse_name(n)
    PROVE  IInv'
<1>1. /\ BecomeTree(new_symbol_reference(n).tree)
      /\ UNCHANGED <<current_function, current_scope, open, assigned>>
  BY DEF parse_name
<1>2. /\ TreeOK(Tree') /\ Context(Tree', open, current_scope)
      /\ current_function = scopes'[current_scope].function
      /\ AssignedOK(Tree', assigned)
  BY <1>1, ReferenceStep
<1> QED BY <1>1, <1>2, InvNext, InvFacts

LEMMA FunctionStatementKeeps ==
    ASSUME IInv, NEW n, parse_function_statement(n)
    PROVE  IInv'
<1>1. /\ BecomeTree(new_symbol_reference(n).tree) /\ open' = Append(open, Body)
      /\ UNCHANGED <<current_function, current_scope, assigned>>
  BY DEF parse_function_statement
<1>2. /\ TreeOK(Tree') /\ Context(Tree', open, current_scope)
      /\ current_function = scopes'[current_scope].function
      /\ current_scope \in DOMAIN Tree'.scopes
      /\ AssignedOK(Tree', assigned)
  BY <1>1, ReferenceStep, TreePrime
<1>3. OpenOK(Tree', Body, current_scope) /\ Into(Tree', Body, current_scope, current_scope)
  BY OtherOpen, NothingPending DEF Into
<1>4. open' \in Seq(Construct) /\ Context(Tree', open', current_scope)
  <2>1. open \in Seq(Construct)
    BY InvFacts
  <2>2. Append(open, Body) \in Seq(Construct) /\ Context(Tree', Append(open, Body), current_scope)
    BY <1>2, <1>3, <2>1, OtherOpen, ContextPush
  <2> QED BY <1>1, <2>2
<1> QED BY <1>1, <1>2, <1>4, InvNext

LEMMA ExpressionsKeep ==
    ASSUME IInv, parse_expressions
    PROVE  IInv'
<1> DEFINE o == Expressions(<<>>, <<>>, FALSE)
<1>1. /\ open' = Append(open, o)
      /\ UNCHANGED <<functions, scopes, variables, current_function, current_scope, assigned>>
  BY DEF parse_expressions, tree
<1>2. Tree' = Tree
  BY <1>1 DEF Tree
<1>3. /\ o \in Construct /\ o.kind = "expressions" /\ o.loop = FALSE /\ o.updates = <<>>
      /\ Pending(o) = {}
  <2>1. <<>> \in Seq(Nat)
    OBVIOUS
  <2>2. <<>> \in Seq(Symbol)
    OBVIOUS
  <2> QED BY <2>1, <2>2, ExpressionsOpen, EmptySet
<1> HIDE DEF o
<1>4. OpenOK(Tree, o, current_scope) /\ Into(Tree, o, current_scope, current_scope)
  BY <1>3, NothingPending, EmptySet DEF Into
<1>5. open' \in Seq(Construct) /\ Context(Tree, open', current_scope)
  <2>1. open \in Seq(Construct) /\ Context(Tree, open, current_scope) /\ current_scope \in DOMAIN Tree.scopes
    BY InvFacts, TreePrime
  <2>2. Append(open, o) \in Seq(Construct) /\ Context(Tree, Append(open, o), current_scope)
    BY <1>3, <1>4, <2>1, ContextPush
  <2> QED BY <1>1, <2>2
<1> QED BY <1>1, <1>2, <1>5, InvNext, InvFacts

(* The tree grows, while the constructs op stay open in scope b.           *)
LEMMA TreeGrows ==
    ASSUME IInv, NEW D, NEW op \in Seq(Construct), NEW b, Context(Tree, op, b),
           functions' \in Seq(FunctionType), FunctionsExtended(Tree, Tree'),
           scopes' \in Seq(ScopeType), ScopesExtended(Tree, Tree'), Declared(Tree, Tree'),
           variables' \in Seq(VariableType), VariablesExtended(Tree, Tree'),
           \A s \in DOMAIN scopes :
               ToSet(scopes'[s].symbol_list) \subseteq ToSet(scopes[s].symbol_list) \cup D,
           D \cap PendingIn(op) = {}
    PROVE  /\ TreeOK(Tree') /\ Context(Tree', op, b) /\ AssignedOK(Tree', assigned)
           /\ \A s \in DOMAIN scopes : /\ s \in DOMAIN scopes'
                                       /\ scopes'[s].function = scopes[s].function
                                       /\ scopes'[s].parent = scopes[s].parent
<1>1. TreeOK(Tree)
  BY InvFacts
<1>2. Typed(Tree')
  BY TreePrime DEF Typed
<1>3. Extended(Tree, Tree')
  BY DEF Extended
<1>4. \A s \in DOMAIN Tree.scopes :
          ToSet(Tree'.scopes[s].symbol_list) \subseteq ToSet(Tree.scopes[s].symbol_list) \cup D
  BY TreePrime
<1>5. TreeOK(Tree') /\ Keeps(Tree, Tree') /\ Context(Tree', op, b)
  BY <1>1, <1>2, <1>3, <1>4, ExtendContext
<1>6. AssignedOK(Tree', assigned)
  BY <1>5, InvFacts, AssignedKeeps
<1>7. \A s \in DOMAIN scopes : /\ s \in DOMAIN scopes'
                               /\ scopes'[s].function = scopes[s].function
                               /\ scopes'[s].parent = scopes[s].parent
  BY <1>5, TreePrime DEF Keeps
<1> QED BY <1>5, <1>6, <1>7

LEMMA NewSymbol ==
    ASSUME NEW n \in Names, NEW b \in Nat, NEW l \in BOOLEAN
    PROVE  LET x == new_local_symbol(n, b, l)
           IN  x \in VariableType /\ x.block = b /\ x.escaped = FALSE
BY DEF new_local_symbol, VariableType

(* A variable is created and declared in the current scope at once.        *)
LEMMA DeclareStep ==
    ASSUME IInv, NEW n \in Names, NEW l \in BOOLEAN,
           variables' = Append(variables, new_local_symbol(n, current_scope, l)),
           scopes' = [scopes EXCEPT ![current_scope].symbol_list = Append(@, NewVariable)],
           functions' = functions
    PROVE  /\ TreeOK(Tree') /\ Context(Tree', open, current_scope) /\ AssignedOK(Tree', assigned)
           /\ current_scope \in DOMAIN scopes'
           /\ scopes'[current_scope].function = current_function
<1> DEFINE x == new_local_symbol(n, current_scope, l)
           k == NewVariable
           g == scopes[current_scope].symbol_list
<1>1. /\ TreeOK(Tree) /\ current_scope \in DOMAIN scopes /\ current_scope \in Nat
      /\ open \in Seq(Construct) /\ Context(Tree, open, current_scope)
      /\ PendingIn(open) \subseteq DOMAIN variables
      /\ current_function = scopes[current_scope].function
  BY InvFacts
<1>2. scopes \in Seq(ScopeType) /\ g \in Seq(Nat)
  <2>1. scopes \in Seq(ScopeType)
    BY <1>1, TreePrime DEF TreeOK, Typed
  <2>2. scopes[current_scope] \in ScopeType
    BY <1>1, <2>1
  <2> QED BY <2>1, <2>2 DEF ScopeType
<1>3. DOMAIN scopes' = DOMAIN scopes
  BY <1>2
<1>4. x \in VariableType /\ x.block = current_scope /\ x.escaped = FALSE
  BY <1>1, NewSymbol
<1> HIDE DEF x
<1>5. x.block \in DOMAIN Tree'.scopes /\ Tree'.variables = Append(Tree.variables, x)
  BY <1>1, <1>3, <1>4, TreePrime DEF x
<1>6. LET k0 == Len(Tree.variables) + 1
      IN  /\ Tree'.variables \in Seq(VariableType) /\ VariablesExtended(Tree, Tree')
          /\ k0 \in Nat /\ k0 \in Locals(Tree') \ DOMAIN Tree.variables
          /\ Tree'.variables[k0] = x
  BY <1>1, <1>4, <1>5, OneMoreVariable
<1>7. /\ variables' \in Seq(VariableType) /\ VariablesExtended(Tree, Tree')
      /\ k \in Nat /\ k \in Locals(Tree') /\ k \notin DOMAIN variables
      /\ Tree'.variables[k] = x
  BY <1>6, TreePrime DEF NewVariable
<1> HIDE DEF k
<1>8. /\ <<k>> \in Seq(Nat) /\ ToSet(<<k>>) = {k} /\ Append(g, k) = g \o <<k>>
  <2>1. g \in Seq(Nat) /\ k \in Nat
    BY <1>2, <1>7
  <2> HIDE DEF g
  <2> QED BY <2>1, AppendedOne
<1>9. Tree'.scopes = [Tree.scopes EXCEPT ![current_scope].symbol_list = @ \o <<k>>]
  <2>1. scopes' = [scopes EXCEPT ![current_scope] = [scopes[current_scope] EXCEPT !.symbol_list = Append(g, k)]]
    BY DEF k
  <2>2. scopes' = [scopes EXCEPT ![current_scope] = [scopes[current_scope] EXCEPT !.symbol_list = g \o <<k>>]]
    BY <2>1, <1>8
  <2> QED BY <2>2, TreePrime
<1> DEFINE vs == <<k>>
<1>10. vs \in Seq(Nat) /\ \A v \in ToSet(vs) : v \in Locals(Tree') /\ Tree'.variables[v].block = current_scope
                          /\ Tree'.variables[v].escaped = FALSE
  BY <1>4, <1>7, <1>8
<1>11. ToSet(vs) = {k} /\ Tree'.scopes = [Tree.scopes EXCEPT ![current_scope].symbol_list = @ \o vs]
  BY <1>8, <1>9
<1> HIDE DEF vs
<1>12. /\ Tree'.scopes \in Seq(ScopeType) /\ DOMAIN Tree'.scopes = DOMAIN Tree.scopes
       /\ ScopesExtended(Tree, Tree') /\ Declared(Tree, Tree')
       /\ \A b \in DOMAIN Tree.scopes :
              ToSet(Tree'.scopes[b].symbol_list) \subseteq ToSet(Tree.scopes[b].symbol_list) \cup ToSet(vs)
  <2>1. current_scope \in DOMAIN Tree.scopes
    BY <1>1, TreePrime
  <2> QED BY <1>1, <1>10, <1>11, <2>1, MoreDeclared
<1>13. functions' \in Seq(FunctionType) /\ FunctionsExtended(Tree, Tree')
  BY <1>1, FunctionsSame, TreePrime
<1>14. ToSet(vs) \cap PendingIn(open) = {}
  BY <1>1, <1>7, <1>11
<1>15. /\ scopes' \in Seq(ScopeType)
       /\ \A s \in DOMAIN scopes :
              ToSet(scopes'[s].symbol_list) \subseteq ToSet(scopes[s].symbol_list) \cup ToSet(vs)
  BY <1>12, TreePrime
<1>16. /\ TreeOK(Tree') /\ Context(Tree', open, current_scope) /\ AssignedOK(Tree', assigned)
       /\ \A s \in DOMAIN scopes : /\ s \in DOMAIN scopes'
                                   /\ scopes'[s].function = scopes[s].function
                                   /\ scopes'[s].parent = scopes[s].parent
  BY <1>1, <1>7, <1>12, <1>13, <1>14, <1>15, TreeGrows
<1> QED BY <1>1, <1>16

LEMMA LocalFunctionKeeps ==
    ASSUME IInv, NEW n \in Names, parse_local_function_statement(n)
    PROVE  IInv'
<1>1. /\ variables' = Append(variables, new_local_symbol(n, current_scope, FALSE))
      /\ scopes' = [scopes EXCEPT ![current_scope].symbol_list = Append(@, NewVariable)]
      /\ open' = Append(open, Body)
      /\ UNCHANGED <<functions, current_function, current_scope, assigned>>
  BY DEF parse_local_function_statement
<1>2. /\ TreeOK(Tree') /\ Context(Tree', open, current_scope) /\ AssignedOK(Tree', assigned)
      /\ current_scope \in DOMAIN scopes'
      /\ scopes'[current_scope].function = current_function
  BY <1>1, DeclareStep
<1>3. OpenOK(Tree', Body, current_scope) /\ Into(Tree', Body, current_scope, current_scope)
  BY OtherOpen, NothingPending DEF Into
<1>4. open' \in Seq(Construct) /\ Context(Tree', open', current_scope)
  <2>1. open \in Seq(Construct) /\ current_scope \in DOMAIN Tree'.scopes
    BY <1>2, InvFacts, TreePrime
  <2>2. Append(open, Body) \in Seq(Construct) /\ Context(Tree', Append(open, Body), current_scope)
    BY <1>2, <1>3, <2>1, OtherOpen, ContextPush
  <2> QED BY <1>1, <2>2
<1> QED BY <1>1, <1>2, <1>4, InvNext

LEMMA LocalKeeps ==
    ASSUME IInv, NEW n \in Names, NEW literal \in BOOLEAN, parse_local_statement(n, literal)
    PROVE  IInv'
<1>1. /\ variables' = Append(variables, new_local_symbol(n, current_scope, literal))
      /\ UNCHANGED <<functions, current_function, current_scope, assigned>>
  BY DEF parse_local_statement
<1>2. CASE literal
  <2>1. scopes' = [scopes EXCEPT ![current_scope].symbol_list = Append(@, NewVariable)] /\ open' = open
    BY <1>2 DEF parse_local_statement
  <2>2. /\ TreeOK(Tree') /\ Context(Tree', open, current_scope) /\ AssignedOK(Tree', assigned)
        /\ scopes'[current_scope].function = current_function
    BY <1>1, <2>1, DeclareStep
  <2> QED BY <1>1, <2>1, <2>2, InvFacts, InvNext
<1>3. CASE ~literal
  <2> DEFINE x == new_local_symbol(n, current_scope, literal)
             k == NewVariable
             o == Expressions(<<k>>, <<>>, FALSE)
  <2>1. scopes' = scopes /\ open' = Append(open, o)
    BY <1>3 DEF parse_local_statement
  <2>2. /\ TreeOK(Tree) /\ current_scope \in DOMAIN scopes /\ current_scope \in Nat
        /\ open \in Seq(Construct) /\ Context(Tree, open, current_scope)
        /\ PendingIn(open) \subseteq DOMAIN variables
        /\ current_function = scopes[current_scope].function
        /\ ScopesLinked(Tree)
    BY InvFacts
  <2>3. x \in VariableType /\ x.block = current_scope /\ x.escaped = FALSE
    BY <2>2, NewSymbol
  <2> HIDE DEF x
  <2>4. x.block \in DOMAIN Tree'.scopes /\ Tree'.variables = Append(Tree.variables, x)
    BY <1>1, <2>1, <2>2, <2>3, TreePrime DEF x
  <2>5. LET k0 == Len(Tree.variables) + 1
        IN  /\ Tree'.variables \in Seq(VariableType) /\ VariablesExtended(Tree, Tree')
            /\ k0 \in Nat /\ k0 \in Locals(Tree') \ DOMAIN Tree.variables
            /\ Tree'.variables[k0] = x
    BY <2>2, <2>3, <2>4, OneMoreVariable
  <2>6. /\ variables' \in Seq(VariableType) /\ VariablesExtended(Tree, Tree')
        /\ k \in Nat /\ k \in Locals(Tree') /\ k \notin DOMAIN variables
        /\ Tree'.variables[k] = x
    BY <2>5, TreePrime DEF NewVariable
  <2> HIDE DEF k
  <2>7. /\ scopes' \in Seq(ScopeType) /\ ScopesExtended(Tree, Tree') /\ Declared(Tree, Tree')
        /\ \A s \in DOMAIN scopes :
               ToSet(scopes'[s].symbol_list) \subseteq ToSet(scopes[s].symbol_list) \cup {}
    BY <2>1, <2>2, ScopesSame, TreePrime
  <2>8. functions' \in Seq(FunctionType) /\ FunctionsExtended(Tree, Tree')
    BY <1>1, <2>2, FunctionsSame, TreePrime
  <2>9. TreeOK(Tree') /\ Context(Tree', open, current_scope) /\ AssignedOK(Tree', assigned)
    <3>1. {} \cap PendingIn(open) = {}
      OBVIOUS
    <3> QED BY <2>2, <2>6, <2>7, <2>8, <3>1, TreeGrows
  <2>10. /\ o \in Construct /\ o.kind = "expressions" /\ o.loop = FALSE /\ o.updates = <<>>
         /\ Pending(o) = {k}
    <3>1. <<k>> \in Seq(Nat) /\ ToSet(<<k>>) = {k}
      <4>1. <<>> \in Seq(Nat)
        OBVIOUS
      <4> QED BY <2>6, <4>1, AppendedOne
    <3>2. <<>> \in Seq(Symbol)
      OBVIOUS
    <3> QED BY <3>1, <3>2, ExpressionsOpen
  <2> HIDE DEF o
  <2>11. ~InScope(Tree', k)
    <3>1. Tree'.variables[k].block = current_scope /\ Tree'.scopes = scopes
      BY <2>1, <2>3, <2>6, TreePrime
    <3>2. k \notin ToSet(scopes[current_scope].symbol_list)
      BY <2>2, <2>6, TreePrime DEF ScopesLinked, Locals
    <3> QED BY <3>1, <3>2 DEF InScope
  <2>12. OpenOK(Tree', o, current_scope)
    BY <2>3, <2>6, <2>10, <2>11, EmptySet DEF OpenOK
  <2>13. Into(Tree', o, current_scope, current_scope)
    BY <2>10 DEF Into
  <2>14. Pending(o) \cap PendingIn(open) = {}
    BY <2>2, <2>6, <2>10
  <2>15. open' \in Seq(Construct) /\ Context(Tree', open', current_scope)
    <3>1. current_scope \in DOMAIN Tree'.scopes
      BY <2>1, <2>2, TreePrime
    <3>2. Append(open, o) \in Seq(Construct) /\ Context(Tree', Append(open, o), current_scope)
      BY <2>2, <2>9, <2>10, <2>12, <2>13, <2>14, <3>1, ContextPush
    <3> QED BY <2>1, <3>2
  <2> QED BY <1>1, <2>1, <2>2, <2>9, <2>15, InvNext
<1> QED BY <1>2, <1>3

LEMMA EndExpressionsKeeps ==
    ASSUME IInv, end_expressions
    PROVE  IInv'
<1> DEFINE vs == Top.declares
           ss == Top.updates
<1>1. /\ Top.kind = "expressions" /\ ~Top.loop
      /\ variables' = detect_local_updates(ss)
      /\ assigned' = assigned \cup Updated(ss)
      /\ scopes' = [scopes EXCEPT ![current_scope].symbol_list = @ \o vs]
      /\ open' = Front(open)
      /\ UNCHANGED <<functions, current_function, current_scope>>
  BY DEF end_expressions, AtExpression
<1>2. /\ TreeOK(Tree) /\ current_scope \in DOMAIN scopes
      /\ open \in Seq(Construct) /\ Context(Tree, open, current_scope)
      /\ current_function = scopes[current_scope].function
      /\ Top \in Construct /\ OpenOK(Tree, Top, current_scope) /\ Len(open) > 1
  BY <1>1, InvFacts
<1>3. vs \in Seq(Nat) /\ Top.loop = FALSE /\ Pending(Top) = ToSet(vs)
  BY <1>1, <1>2 DEF Construct, Pending
<1>4. PICK a \in DOMAIN Tree.scopes : Into(Tree, Top, a, current_scope) /\ Context(Tree, Front(open), a)
  BY <1>2, ContextPop DEF Top
<1>5. /\ Front(open) \in Seq(Construct) /\ Pending(Top) \cap PendingIn(Front(open)) = {}
      /\ Context(Tree, Front(open), current_scope)
  <2>1. a = current_scope
    BY <1>1, <1>3, <1>4 DEF Into
  <2> QED BY <1>2, <1>4, <2>1, ContextPop DEF Top
<1>6. /\ \A s \in ToSet(ss) : SymbolOK(Tree, s)
      /\ \A v \in ToSet(vs) : v \in Locals(Tree) /\ Tree.variables[v].block = current_scope /\ ~InScope(Tree, v)
  BY <1>1, <1>2, <1>3 DEF OpenOK
<1>7. Tree'.scopes = [Tree.scopes EXCEPT ![current_scope].symbol_list = @ \o vs]
      /\ Tree'.variables = detect_local_updates(ss) /\ Tree'.functions = Tree.functions
  BY <1>1, TreePrime
<1> HIDE DEF vs, ss
<1>8. DOMAIN scopes \subseteq DOMAIN Tree'.scopes
  BY <1>7, TreePrime
<1>9. /\ Tree'.variables \in Seq(VariableType) /\ VariablesExtended(Tree, Tree')
      /\ DOMAIN Tree'.variables = DOMAIN variables
      /\ \A v \in Updated(ss) : v \in DOMAIN variables /\ Tree'.variables[v].modified
  BY <1>2, <1>6, <1>7, <1>8, MarkUpdates
<1>10. \A v \in ToSet(vs) : v \in Locals(Tree') /\ Tree'.variables[v].block = current_scope
                               /\ Tree'.variables[v].escaped = FALSE
  <2>1. ASSUME NEW v \in ToSet(vs)
        PROVE  v \in Locals(Tree') /\ Tree'.variables[v].block = current_scope
                               /\ Tree'.variables[v].escaped = FALSE
    <3>1. v \in Locals(Tree) /\ Tree.variables[v].block = current_scope /\ ~InScope(Tree, v)
      BY <1>6
    <3>2. ~Tree.variables[v].escaped
      BY <1>2, <3>1 DEF TreeOK, Marked, VariablesMarked
    <3>3. v \in DOMAIN Tree.variables /\ v # 1 /\ Tree.variables \in Seq(VariableType)
      BY <1>2, <3>1 DEF Locals, TreeOK, Typed
    <3>4. Tree.variables[v].escaped = FALSE
      <4>1. Tree.variables[v] \in VariableType
        BY <3>3
      <4>2. Tree.variables[v].escaped \in BOOLEAN
        BY <4>1 DEF VariableType
      <4> QED BY <3>2, <4>2
    <3> QED BY <1>9, <3>1, <3>3, <3>4 DEF VariablesExtended, Locals
  <2> QED BY <2>1
<1>11. /\ Tree'.scopes \in Seq(ScopeType) /\ DOMAIN Tree'.scopes = DOMAIN Tree.scopes
       /\ ScopesExtended(Tree, Tree') /\ Declared(Tree, Tree')
       /\ \A b \in DOMAIN Tree.scopes :
              ToSet(Tree'.scopes[b].symbol_list) \subseteq ToSet(Tree.scopes[b].symbol_list) \cup ToSet(vs)
  <2>1. current_scope \in DOMAIN Tree.scopes
    BY <1>2, TreePrime
  <2> QED BY <1>2, <1>3, <1>7, <1>10, <2>1, MoreDeclared
<1>12. functions' \in Seq(FunctionType) /\ FunctionsExtended(Tree, Tree')
  BY <1>2, <1>7, FunctionsSame, TreePrime
<1>13. /\ scopes' \in Seq(ScopeType) /\ variables' \in Seq(VariableType)
       /\ \A s \in DOMAIN scopes :
              ToSet(scopes'[s].symbol_list) \subseteq ToSet(scopes[s].symbol_list) \cup ToSet(vs)
       /\ ToSet(vs) \cap PendingIn(Front(open)) = {}
  BY <1>3, <1>5, <1>9, <1>11, TreePrime
<1>14. /\ TreeOK(Tree') /\ Context(Tree', Front(open), current_scope) /\ AssignedOK(Tree', assigned)
       /\ \A s \in DOMAIN scopes : /\ s \in DOMAIN scopes'
                                   /\ scopes'[s].function = scopes[s].function
                                   /\ scopes'[s].parent = scopes[s].parent
  BY <1>5, <1>9, <1>11, <1>12, <1>13, TreeGrows
<1>15. AssignedOK(Tree', assigned')
  BY <1>1, <1>9, <1>14 DEF AssignedOK
<1> QED BY <1>1, <1>2, <1>5, <1>14, <1>15, InvNext

LEMMA UnchangedStep ==
    ASSUME IInv, UNCHANGED <<functions, scopes, variables>>
    PROVE  Tree' = Tree /\ TreeOK(Tree') /\ AssignedOK(Tree', assigned)
<1>1. Tree' = Tree
  BY DEF Tree
<1> QED BY <1>1, InvFacts

LEMMA EndBlockKeeps ==
    ASSUME IInv, end_block
    PROVE  IInv'
<1>1. /\ Top.kind = "block" /\ open' = Front(open)
      /\ current_scope' = IF Top.scopes = 1 THEN scopes[current_scope].parent
                          ELSE scopes[scopes[current_scope].parent].parent
      /\ UNCHANGED <<functions, scopes, variables, current_function, assigned>>
  BY DEF end_block, end_scope, tree
<1>2. /\ open \in Seq(Construct) /\ Context(Tree, open, current_scope)
      /\ current_function = scopes[current_scope].function
      /\ Len(open) > 1
  BY <1>1, InvFacts
<1>3. PICK a \in DOMAIN Tree.scopes : Into(Tree, Top, a, current_scope) /\ Context(Tree, Front(open), a)
  BY <1>2, ContextPop DEF Top
<1>4. Front(open) \in Seq(Construct)
  BY <1>2, ContextPop
<1>5. current_scope' = a /\ scopes[a].function = current_function
  BY <1>1, <1>2, <1>3, TreePrime DEF Into
<1>6. /\ Tree' = Tree /\ TreeOK(Tree') /\ AssignedOK(Tree', assigned)
  BY <1>1, UnchangedStep
<1> QED BY <1>1, <1>3, <1>4, <1>5, <1>6, InvNext

LEMMA EndFunctionKeeps ==
    ASSUME IInv, end_function
    PROVE  IInv'
<1>1. /\ Top.kind = "function" /\ Len(open) > 1 /\ open' = Front(open)
      /\ current_scope' = scopes[current_scope].parent
      /\ current_function' = functions[current_function].parent
      /\ UNCHANGED <<functions, scopes, variables, assigned>>
  BY DEF end_function, end_scope, tree
<1>2. /\ open \in Seq(Construct) /\ Context(Tree, open, current_scope)
      /\ current_function = scopes[current_scope].function
  BY InvFacts
<1>3. PICK a \in DOMAIN Tree.scopes : Into(Tree, Top, a, current_scope) /\ Context(Tree, Front(open), a)
  BY <1>1, <1>2, ContextPop DEF Top
<1>4. Front(open) \in Seq(Construct)
  BY <1>1, <1>2, ContextPop
<1>5. current_scope' = a /\ current_function' = scopes[a].function
  BY <1>1, <1>2, <1>3, TreePrime DEF Into
<1>6. /\ Tree' = Tree /\ TreeOK(Tree') /\ AssignedOK(Tree', assigned)
  BY <1>1, UnchangedStep
<1> QED BY <1>1, <1>3, <1>4, <1>5, <1>6, InvNext

(* A scope without declarations is opened.                                 *)
LEMMA NewScopeStep ==
    ASSUME IInv, NEW op \in Seq(Construct), NEW b, Context(Tree, op, b),
           new_scope(current_function, <<>>),
           UNCHANGED <<functions, variables>>
    PROVE  /\ TreeOK(Tree') /\ Context(Tree', op, b) /\ AssignedOK(Tree', assigned)
           /\ current_scope' \in DOMAIN scopes'
           /\ scopes'[current_scope'].function = current_function
           /\ scopes'[current_scope'].parent = current_scope
           /\ \A s \in DOMAIN scopes : /\ s \in DOMAIN scopes'
                                       /\ scopes'[s].function = scopes[s].function
                                       /\ scopes'[s].parent = scopes[s].parent
<1> DEFINE vs == <<>>
<1>1. /\ scopes' = Append(scopes, [Scope(current_function, current_scope) EXCEPT !.symbol_list = vs])
      /\ current_scope' = Len(scopes) + 1
  BY DEF new_scope, NewScope
<1>2. /\ TreeOK(Tree) /\ current_scope \in DOMAIN Tree.scopes
      /\ current_function \in Nat /\ current_function \in DOMAIN functions
  BY InvFacts, TreePrime
<1>3. vs \in Seq(Nat) /\ ToSet(vs) = {}
  BY EmptySet
<1> HIDE DEF vs
<1>4. /\ Created(Tree, Tree', current_function, current_scope, vs)
      /\ current_function \in DOMAIN Tree'.functions
      /\ Declarable(Tree', Len(Tree.scopes) + 1, vs)
  <2>1. Declarable(Tree', Len(Tree.scopes) + 1, vs)
    BY <1>3 DEF Declarable
  <2>2. Created(Tree, Tree', current_function, current_scope, vs)
    BY <1>1, TreePrime DEF Created
  <2>3. current_function \in DOMAIN Tree'.functions
    BY <1>2, TreePrime
  <2> QED BY <2>1, <2>2, <2>3
<1>5. /\ Tree'.scopes \in Seq(ScopeType)
      /\ ScopesExtended(Tree, Tree') /\ Declared(Tree, Tree') /\ ListsWithin(Tree, Tree', {})
      /\ HasScope(Tree', Len(Tree.scopes) + 1, current_function, current_scope)
  BY <1>2, <1>3, <1>4, MoreScopes
<1>6. functions' \in Seq(FunctionType) /\ FunctionsExtended(Tree, Tree')
  BY <1>2, FunctionsSame, TreePrime
<1>7. variables' \in Seq(VariableType) /\ VariablesExtended(Tree, Tree')
  BY <1>2, TreePrime DEF VariablesExtended, TreeOK, Typed
<1>8. /\ scopes' \in Seq(ScopeType) /\ {} \cap PendingIn(op) = {}
      /\ \A s \in DOMAIN scopes :
             ToSet(scopes'[s].symbol_list) \subseteq ToSet(scopes[s].symbol_list) \cup {}
      /\ Len(scopes) + 1 \in DOMAIN scopes'
      /\ scopes'[Len(scopes) + 1].function = current_function
      /\ scopes'[Len(scopes) + 1].parent = current_scope
  BY <1>5, TreePrime DEF ListsWithin, HasScope
<1>9. /\ TreeOK(Tree') /\ Context(Tree', op, b) /\ AssignedOK(Tree', assigned)
      /\ \A s \in DOMAIN scopes : /\ s \in DOMAIN scopes'
                                  /\ scopes'[s].function = scopes[s].function
                                  /\ scopes'[s].parent = scopes[s].parent
  BY <1>5, <1>6, <1>7, <1>8, TreeGrows
<1> QED BY <1>1, <1>8, <1>9

LEMMA BlockKeeps ==
    ASSUME IInv, parse_block
    PROVE  IInv'
<1> DEFINE o == Block(1)
<1>1. /\ new_scope(current_function, <<>>) /\ open' = Append(open, o)
      /\ UNCHANGED <<functions, variables, current_function, assigned>>
  BY DEF parse_block
<1>2. /\ open \in Seq(Construct) /\ Context(Tree, open, current_scope)
      /\ current_function = scopes[current_scope].function /\ current_scope \in DOMAIN scopes
  BY InvFacts
<1>3. /\ TreeOK(Tree') /\ Context(Tree', open, current_scope) /\ AssignedOK(Tree', assigned)
      /\ current_scope' \in DOMAIN scopes'
      /\ scopes'[current_scope'].function = current_function
      /\ scopes'[current_scope'].parent = current_scope
      /\ scopes'[current_scope].function = scopes[current_scope].function
  BY <1>1, <1>2, NewScopeStep
<1>4. o \in Construct /\ Pending(o) = {} /\ o.kind = "block" /\ o.scopes = 1
  BY OtherOpen
<1> HIDE DEF o
<1>5. Into(Tree', o, current_scope, current_scope')
  BY <1>2, <1>3, <1>4, TreePrime DEF Into
<1>6. OpenOK(Tree', o, current_scope')
  BY <1>4, NothingPending
<1>7. open' \in Seq(Construct) /\ Context(Tree', open', current_scope')
  <2>1. current_scope' \in DOMAIN Tree'.scopes
    BY <1>3, TreePrime
  <2>2. Append(open, o) \in Seq(Construct) /\ Context(Tree', Append(open, o), current_scope')
    BY <1>2, <1>3, <1>4, <1>5, <1>6, <2>1, ContextPush
  <2> QED BY <1>1, <2>2
<1> QED BY <1>1, <1>3, <1>7, InvNext

LEMMA ForBodyKeeps ==
    ASSUME IInv, parse_forbody
    PROVE  IInv'
<1> DEFINE o == Block(2)
<1>1. /\ Top.kind = "expressions" /\ Top.loop
      /\ new_scope(current_function, <<>>) /\ open' = Append(Front(open), o)
      /\ UNCHANGED <<functions, variables, current_function, assigned>>
  BY DEF parse_forbody, AtExpression
<1>2. /\ open \in Seq(Construct) /\ Context(Tree, open, current_scope)
      /\ current_function = scopes[current_scope].function /\ current_scope \in DOMAIN scopes
      /\ Len(open) > 1 /\ Top \in Construct
  BY <1>1, InvFacts
<1>3. Top.loop = TRUE
  BY <1>1, <1>2 DEF Construct
<1>4. PICK a \in DOMAIN Tree.scopes : Into(Tree, Top, a, current_scope) /\ Context(Tree, Front(open), a)
  BY <1>2, ContextPop DEF Top
<1>5. Front(open) \in Seq(Construct)
  BY <1>2, ContextPop
<1>6. /\ scopes[current_scope].parent = a /\ a \in DOMAIN scopes
      /\ scopes[current_scope].function = scopes[a].function
  BY <1>1, <1>3, <1>4, TreePrime DEF Into
<1>7. /\ TreeOK(Tree') /\ Context(Tree', Front(open), a) /\ AssignedOK(Tree', assigned)
      /\ current_scope' \in DOMAIN scopes'
      /\ scopes'[current_scope'].function = current_function
      /\ scopes'[current_scope'].parent = current_scope
      /\ current_scope \in DOMAIN scopes'
      /\ scopes'[current_scope].parent = scopes[current_scope].parent
      /\ scopes'[a].function = scopes[a].function
  BY <1>1, <1>2, <1>4, <1>5, <1>6, NewScopeStep
<1>8. o \in Construct /\ Pending(o) = {} /\ o.kind = "block" /\ o.scopes = 2
  BY OtherOpen
<1> HIDE DEF o
<1>9. Into(Tree', o, a, current_scope')
  BY <1>2, <1>6, <1>7, <1>8, TreePrime DEF Into
<1>10. OpenOK(Tree', o, current_scope')
  BY <1>8, NothingPending
<1>11. open' \in Seq(Construct) /\ Context(Tree', open', current_scope')
  <2>1. current_scope' \in DOMAIN Tree'.scopes
    BY <1>7, TreePrime
  <2>2. Pending(o) \cap PendingIn(Front(open)) = {}
    BY <1>8
  <2>3. Append(Front(open), o) \in Seq(Construct) /\ Context(Tree', Append(Front(open), o), current_scope')
    BY <1>5, <1>7, <1>8, <1>9, <1>10, <2>1, <2>2, ContextPush
  <2> QED BY <1>1, <2>3
<1> QED BY <1>1, <1>7, <1>11, InvNext

LEMMA EmbeddedCKeeps ==
    ASSUME IInv, NEW n, parse_embedded_C(n)
    PROVE  IInv'
<1> DEFINE s == search_for_variable(n)
<1>1. /\ s.type = "SYM_LOCAL"
      /\ variables' = detect_local_updates(<<s>>)
      /\ assigned' = assigned \cup {s.variable}
      /\ UNCHANGED <<functions, scopes, current_function, current_scope, open>>
  BY DEF parse_embedded_C
<1>2. /\ TreeOK(Tree) /\ current_scope \in DOMAIN scopes /\ Linked(Tree) /\ Typed(Tree)
      /\ open \in Seq(Construct) /\ Context(Tree, open, current_scope)
      /\ current_function = scopes[current_scope].function
  BY InvFacts DEF TreeOK
<1>3. s = NoSymbol \/ Found(s, n)
  BY <1>2, SearchRight
<1> HIDE DEF s
<1>4. PICK v \in DOMAIN variables : s = Local(v) /\ InScope(Tree, v)
  BY <1>1, <1>3 DEF NoSymbol, Found, Upvalue
<1>5. v # 1 /\ s.variable = v /\ Target(s) = v
  BY <1>1, <1>4 DEF InScope, Locals, Local, Target
<1>6. ToSet(<<s>>) = {s}
  <2>1. s \in {s} /\ <<>> \in Seq({s})
    OBVIOUS
  <2> QED BY <2>1, AppendedOne
<1>7. Updated(<<s>>) = {v} /\ \A r \in ToSet(<<s>>) : SymbolOK(Tree, r)
  BY <1>1, <1>4, <1>5, <1>6, TreePrime DEF Updated, SymbolOK
<1> DEFINE ss == <<s>>
<1>8. /\ Updated(ss) = {v} /\ \A r \in ToSet(ss) : SymbolOK(Tree, r)
      /\ Tree'.variables = detect_local_updates(ss) /\ Tree'.scopes = Tree.scopes
      /\ Tree'.functions = Tree.functions
      /\ DOMAIN scopes \subseteq DOMAIN Tree'.scopes
  BY <1>1, <1>7, TreePrime
<1> HIDE DEF ss
<1>9. /\ Tree'.variables \in Seq(VariableType) /\ VariablesExtended(Tree, Tree')
      /\ DOMAIN Tree'.variables = DOMAIN variables
      /\ \A w \in Updated(ss) : w \in DOMAIN variables /\ Tree'.variables[w].modified
  BY <1>2, <1>8, MarkUpdates
<1>10. /\ scopes' \in Seq(ScopeType) /\ ScopesExtended(Tree, Tree') /\ Declared(Tree, Tree')
       /\ \A b \in DOMAIN scopes :
              ToSet(scopes'[b].symbol_list) \subseteq ToSet(scopes[b].symbol_list) \cup {}
  BY <1>2, <1>8, ScopesSame, TreePrime
<1>11. functions' \in Seq(FunctionType) /\ FunctionsExtended(Tree, Tree')
  BY <1>2, <1>8, FunctionsSame, TreePrime
<1>12. variables' \in Seq(VariableType) /\ {} \cap PendingIn(open) = {}
  BY <1>9, TreePrime
<1>13. TreeOK(Tree') /\ Context(Tree', open, current_scope) /\ AssignedOK(Tree', assigned)
  BY <1>2, <1>9, <1>10, <1>11, <1>12, TreeGrows
<1>14. AssignedOK(Tree', assigned')
  BY <1>1, <1>5, <1>8, <1>9, <1>13 DEF AssignedOK
<1> QED BY <1>1, <1>2, <1>13, <1>14, InvNext

LEMMA ForKeeps ==
    ASSUME IInv, NEW n \in Names, parse_for_statement(n)
    PROVE  IInv'
<1> DEFINE y == new_local_symbol(n, NewScope, FALSE)
           x == [y EXCEPT !.modified = TRUE]
           vs == <<NewVariable>>
           o == Expressions(<<>>, <<>>, TRUE)
<1>1. /\ variables' = Append(variables, x)
      /\ scopes' = Append(scopes, [Scope(current_function, current_scope) EXCEPT !.symbol_list = vs])
      /\ current_scope' = NewScope
      /\ open' = Append(open, o)
      /\ UNCHANGED <<functions, current_function, assigned>>
  BY DEF parse_for_statement, new_scope
<1>2. /\ TreeOK(Tree) /\ current_scope \in DOMAIN scopes
      /\ current_function \in Nat /\ current_function \in DOMAIN functions
      /\ open \in Seq(Construct) /\ Context(Tree, open, current_scope)
      /\ PendingIn(open) \subseteq DOMAIN variables
      /\ current_function = scopes[current_scope].function
      /\ Len(scopes) \in Nat /\ Len(variables) \in Nat
  BY InvFacts
<1>3. NewScope \in Nat /\ NewVariable \in Nat
  BY <1>2 DEF NewScope, NewVariable
<1>4. x \in VariableType /\ x.block = NewScope /\ x.escaped = FALSE
  <2>1. y \in VariableType /\ y.block = NewScope /\ y.escaped = FALSE
    BY <1>3, NewSymbol
  <2> HIDE DEF y
  <2> QED BY <2>1 DEF VariableType
<1>5. NewScope \in DOMAIN scopes'
  <2> DEFINE z == [Scope(current_function, current_scope) EXCEPT !.symbol_list = vs]
  <2>1. scopes' = Append(scopes, z)
    BY <1>1
  <2> HIDE DEF z
  <2>2. scopes \in Seq(ScopeType)
    BY <1>2, TreePrime DEF TreeOK, Typed
  <2>3. scopes' \in Seq(ScopeType \cup {z}) /\ Len(scopes') = Len(scopes) + 1
    BY <2>1, <2>2
  <2> QED BY <2>3, <1>2 DEF NewScope
<1> HIDE DEF x
<1>6. LET k0 == Len(Tree.variables) + 1
      IN  /\ Tree'.variables \in Seq(VariableType) /\ VariablesExtended(Tree, Tree')
          /\ k0 \in Nat /\ k0 \in Locals(Tree') \ DOMAIN Tree.variables
          /\ Tree'.variables[k0] = x
  <2>1. x.block \in DOMAIN Tree'.scopes /\ Tree'.variables = Append(Tree.variables, x)
    BY <1>1, <1>4, <1>5, TreePrime
  <2> QED BY <1>2, <1>4, <2>1, OneMoreVariable
<1>7. /\ variables' \in Seq(VariableType) /\ VariablesExtended(Tree, Tree')
      /\ NewVariable \in Locals(Tree') /\ NewVariable \notin DOMAIN variables
      /\ Tree'.variables[NewVariable] = x
  BY <1>6, TreePrime DEF NewVariable
<1>8. vs \in Seq(Nat) /\ ToSet(vs) = {NewVariable}
  <2>1. <<>> \in Seq(Nat)
    OBVIOUS
  <2> QED BY <1>3, <2>1, AppendedOne
<1> HIDE DEF vs
<1>9. Declarable(Tree', Len(Tree.scopes) + 1, vs)
  BY <1>4, <1>7, <1>8, TreePrime DEF Declarable, NewScope
<1>10. /\ Created(Tree, Tree', current_function, current_scope, vs)
       /\ current_function \in DOMAIN Tree'.functions /\ current_scope \in DOMAIN Tree.scopes
  BY <1>1, <1>2, TreePrime DEF Created
<1>11. /\ Tree'.scopes \in Seq(ScopeType)
       /\ ScopesExtended(Tree, Tree') /\ Declared(Tree, Tree') /\ ListsWithin(Tree, Tree', {})
       /\ HasScope(Tree', Len(Tree.scopes) + 1, current_function, current_scope)
  BY <1>2, <1>8, <1>9, <1>10, MoreScopes
<1>12. functions' \in Seq(FunctionType) /\ FunctionsExtended(Tree, Tree')
  BY <1>1, <1>2, FunctionsSame, TreePrime
<1>13. /\ scopes' \in Seq(ScopeType) /\ {} \cap PendingIn(open) = {}
       /\ \A s \in DOMAIN scopes :
              ToSet(scopes'[s].symbol_list) \subseteq ToSet(scopes[s].symbol_list) \cup {}
       /\ current_scope' \in DOMAIN scopes'
       /\ scopes'[current_scope'].function = current_function
       /\ scopes'[current_scope'].parent = current_scope
  BY <1>1, <1>11, TreePrime DEF ListsWithin, HasScope, NewScope
<1>14. /\ TreeOK(Tree') /\ Context(Tree', open, current_scope) /\ AssignedOK(Tree', assigned)
       /\ \A s \in DOMAIN scopes : /\ s \in DOMAIN scopes'
                                   /\ scopes'[s].function = scopes[s].function
                                   /\ scopes'[s].parent = scopes[s].parent
  BY <1>2, <1>7, <1>11, <1>12, <1>13, TreeGrows
<1>15. /\ o \in Construct /\ o.kind = "expressions" /\ o.loop = TRUE /\ o.updates = <<>>
       /\ Pending(o) = {}
  <2>1. <<>> \in Seq(Nat)
    OBVIOUS
  <2>2. <<>> \in Seq(Symbol)
    OBVIOUS
  <2> QED BY <2>1, <2>2, ExpressionsOpen, EmptySet
<1> HIDE DEF o
<1>16. OpenOK(Tree', o, current_scope')
  BY <1>15, NothingPending, EmptySet
<1>17. Into(Tree', o, current_scope, current_scope')
  BY <1>2, <1>13, <1>14, <1>15, TreePrime DEF Into
<1>18. open' \in Seq(Construct) /\ Context(Tree', open', current_scope')
  <2>1. current_scope' \in DOMAIN Tree'.scopes
    BY <1>13, TreePrime
  <2>2. Append(open, o) \in Seq(Construct) /\ Context(Tree', Append(open, o), current_scope')
    BY <1>2, <1>14, <1>15, <1>16, <1>17, <2>1, ContextPush
  <2> QED BY <1>1, <2>2
<1> QED BY <1>1, <1>13, <1>14, <1>18, InvNext

LEMMA FunctionKeeps ==
    ASSUME IInv, NEW params, new_function(params),
           params \in {<<>>} \cup {<<n>> : n \in Names}
    PROVE  IInv'
<1> DEFINE o == [kind |-> "function"]
           op == IF Top = Body THEN Front(open) ELSE open
           f == Len(functions) + 1
           new == [i \in DOMAIN params |-> new_local_symbol(params[i], NewScope, FALSE)]
           vs == [i \in DOMAIN params |-> Len(variables) + i]
<1>1. /\ Top.kind \in {"expressions", "body"}
      /\ variables' = variables \o new
      /\ functions' = Append(functions, Function(current_function))
      /\ current_function' = f
      /\ scopes' = Append(scopes, [Scope(f, current_scope) EXCEPT !.symbol_list = vs])
      /\ current_scope' = NewScope
      /\ open' = Append(op, o)
      /\ assigned' = assigned
  BY DEF new_function, new_scope
<1>2. /\ TreeOK(Tree) /\ current_scope \in DOMAIN scopes
      /\ current_function \in Nat /\ current_function \in DOMAIN functions
      /\ open \in Seq(Construct) /\ Context(Tree, open, current_scope)
      /\ PendingIn(open) \subseteq DOMAIN variables
      /\ current_function = scopes[current_scope].function
      /\ Len(scopes) \in Nat /\ Len(variables) \in Nat /\ Len(functions) \in Nat
      /\ Len(open) > 1 /\ Top \in Construct
  BY <1>1, InvFacts
<1>3. /\ op \in Seq(Construct) /\ Context(Tree, op, current_scope)
      /\ PendingIn(op) \subseteq DOMAIN variables
  <2>1. CASE Top = Body
    <3>1. PICK a \in DOMAIN Tree.scopes : Into(Tree, Top, a, current_scope) /\ Context(Tree, Front(open), a)
      BY <1>2, ContextPop DEF Top
    <3>2. a = current_scope
      BY <2>1, <3>1 DEF Into, Body
    <3>3. Front(open) \in Seq(Construct) /\ PendingIn(Front(open)) \subseteq PendingIn(open)
      BY <1>2, ContextPop
    <3> QED BY <1>2, <2>1, <3>1, <3>2, <3>3
  <2>2. CASE Top # Body
    BY <1>2, <2>2
  <2> QED BY <2>1, <2>2
<1> HIDE DEF op
<1>4. f \in Nat /\ NewScope \in Nat
  BY <1>2 DEF NewScope
<1>5. /\ Tree'.functions \in Seq(FunctionType) /\ FunctionsExtended(Tree, Tree')
      /\ f \in DOMAIN Tree'.functions /\ Tree'.functions[f].parent = current_function
  <2>1. Tree'.functions = Append(Tree.functions, Function(current_function))
        /\ current_function \in DOMAIN Tree.functions
    BY <1>1, <1>2, TreePrime
  <2>2. /\ Tree'.functions \in Seq(FunctionType) /\ FunctionsExtended(Tree, Tree')
        /\ HasFunction(Tree', Len(Tree.functions) + 1, current_function)
    BY <1>2, <2>1, MoreFunctions
  <2> QED BY <2>2, TreePrime DEF HasFunction
<1> HIDE DEF f
<1>6. /\ DOMAIN new = DOMAIN params /\ DOMAIN vs = DOMAIN params
      /\ new \in Seq(VariableType) /\ vs \in Seq(Nat)
      /\ \A i \in DOMAIN new : new[i].block = NewScope /\ new[i].escaped = FALSE
  <2> DEFINE m == Len(params)
  <2>1. m \in Nat /\ DOMAIN params = 1 .. m /\ \A i \in 1 .. m : params[i] \in Names
    <3>1. CASE params = <<>>
      BY <3>1
    <3>2. CASE params \in {<<n>> : n \in Names}
      <4>1. PICK n \in Names : params = <<n>>
        BY <3>2
      <4>2. m = 1 /\ DOMAIN params = 1 .. 1 /\ params[1] = n
        BY <4>1
      <4> QED BY <4>2
    <3> QED BY <3>1, <3>2
  <2> HIDE DEF m
  <2>2. \A i \in 1 .. m : /\ new_local_symbol(params[i], NewScope, FALSE) \in VariableType
                          /\ new_local_symbol(params[i], NewScope, FALSE).block = NewScope
                          /\ new_local_symbol(params[i], NewScope, FALSE).escaped = FALSE
    BY <1>4, <2>1, NewSymbol
  <2>3. new = [i \in 1 .. m |-> new_local_symbol(params[i], NewScope, FALSE)]
        /\ vs = [i \in 1 .. m |-> Len(variables) + i]
    BY <2>1
  <2>4. new \in Seq(VariableType)
    <3> DEFINE G(i) == new_local_symbol(params[i], NewScope, FALSE)
    <3>1. new = [i \in 1 .. m |-> G(i)] /\ \A i \in 1 .. m : G(i) \in VariableType
      BY <2>2, <2>3
    <3> HIDE DEF G, new
    <3> QED BY <3>1, <2>1
  <2>5. vs \in Seq(Nat)
    <3> DEFINE c == Len(variables)
    <3>1. vs = [i \in 1 .. m |-> c + i] /\ c \in Nat
      BY <2>3, <1>2
    <3> HIDE DEF c, vs
    <3>2. \A i \in 1 .. m : c + i \in Nat
      BY <3>1, <2>1
    <3> QED BY <3>1, <3>2, <2>1
  <2> QED BY <2>1, <2>2, <2>3, <2>4, <2>5
<1>7. NewScope \in DOMAIN scopes'
  <2> DEFINE z == [Scope(f, current_scope) EXCEPT !.symbol_list = vs]
  <2>1. scopes' = Append(scopes, z)
    BY <1>1
  <2> HIDE DEF z
  <2>2. scopes \in Seq(ScopeType)
    BY <1>2, TreePrime DEF TreeOK, Typed
  <2>3. scopes' \in Seq(ScopeType \cup {z}) /\ Len(scopes') = Len(scopes) + 1
    BY <2>1, <2>2
  <2> QED BY <2>3, <1>2 DEF NewScope
<1>8. \A i \in DOMAIN vs : vs[i] = Len(variables) + i
  BY <1>6
<1> HIDE DEF new, vs
<1>9. /\ Tree'.variables \in Seq(VariableType) /\ VariablesExtended(Tree, Tree')
      /\ Numbered(Tree, Tree', new)
  <2>1. Tree'.variables = Tree.variables \o new
        /\ \A i \in DOMAIN new : new[i].block \in DOMAIN Tree'.scopes /\ new[i].escaped = FALSE
    BY <1>1, <1>6, <1>7, TreePrime
  <2> QED BY <1>2, <1>6, <2>1, MoreVariables
<1>10. Declarable(Tree', Len(Tree.scopes) + 1, vs)
  <2>1. ASSUME NEW v \in ToSet(vs)
        PROVE  v \in Locals(Tree') /\ Tree'.variables[v].block = NewScope /\ Tree'.variables[v].escaped = FALSE
    <3>1. PICK i \in DOMAIN vs : v = vs[i]
      BY DEF ToSet
    <3>2. i \in DOMAIN new /\ v = Len(Tree.variables) + i
      BY <3>1, <1>6, <1>8, TreePrime
    <3> QED BY <3>2, <1>6, <1>9 DEF Numbered
  <2> QED BY <2>1, TreePrime DEF Declarable, NewScope
<1>11. /\ Created(Tree, Tree', f, current_scope, vs) /\ current_scope \in DOMAIN Tree.scopes
  BY <1>1, <1>2, TreePrime DEF Created
<1>12. /\ Tree'.scopes \in Seq(ScopeType)
       /\ ScopesExtended(Tree, Tree') /\ Declared(Tree, Tree') /\ ListsWithin(Tree, Tree', {})
       /\ HasScope(Tree', Len(Tree.scopes) + 1, f, current_scope)
  BY <1>2, <1>4, <1>5, <1>6, <1>10, <1>11, MoreScopes
<1>13. /\ functions' \in Seq(FunctionType) /\ variables' \in Seq(VariableType)
       /\ scopes' \in Seq(ScopeType) /\ {} \cap PendingIn(op) = {}
       /\ \A s \in DOMAIN scopes :
              ToSet(scopes'[s].symbol_list) \subseteq ToSet(scopes[s].symbol_list) \cup {}
       /\ current_scope' \in DOMAIN scopes'
       /\ scopes'[current_scope'].function = current_function'
       /\ scopes'[current_scope'].parent = current_scope
  BY <1>1, <1>5, <1>9, <1>12, TreePrime DEF ListsWithin, HasScope, NewScope
<1>14. /\ TreeOK(Tree') /\ Context(Tree', op, current_scope) /\ AssignedOK(Tree', assigned)
       /\ \A s \in DOMAIN scopes : /\ s \in DOMAIN scopes'
                                   /\ scopes'[s].function = scopes[s].function
                                   /\ scopes'[s].parent = scopes[s].parent
  BY <1>3, <1>5, <1>9, <1>12, <1>13, TreeGrows
<1>15. o \in Construct /\ Pending(o) = {} /\ o.kind = "function"
  BY OtherOpen
<1> HIDE DEF o
<1>16. OpenOK(Tree', o, current_scope')
  BY <1>15, NothingPending
<1>17. Into(Tree', o, current_scope, current_scope')
  BY <1>1, <1>2, <1>5, <1>13, <1>14, <1>15, TreePrime DEF Into
<1>18. open' \in Seq(Construct) /\ Context(Tree', open', current_scope')
  <2>1. current_scope' \in DOMAIN Tree'.scopes
    BY <1>13, TreePrime
  <2>2. Append(op, o) \in Seq(Construct) /\ Context(Tree', Append(op, o), current_scope')
    BY <1>3, <1>14, <1>15, <1>16, <1>17, <2>1, ContextPush
  <2> QED BY <1>1, <2>2
<1> QED BY <1>1, <1>13, <1>14, <1>18, InvNext

LEMMA InitInv ==
    ASSUME Init
    PROVE  IInv
<1> DEFINE t == Tree
           fn == [Function(NULL) EXCEPT !.upvalues = <<1>>]
           sc == Scope(1, NULL)
           va == new_local_symbol(ENV, NULL, FALSE)
           o == [kind |-> "function"]
           at == [i \in {1} |-> 1]
<1>1. /\ functions = <<fn>> /\ scopes = <<sc>> /\ variables = <<va>>
      /\ current_function = 1 /\ current_scope = 1 /\ open = <<o>> /\ assigned = {}
  BY DEF Init
<1>2. fn \in FunctionType /\ fn.parent = 0 /\ fn.upvalues = <<1>> /\ fn.need_close = FALSE
  <2> DEFINE r == Function(NULL)
             l == <<1>>
  <2>1. <<>> \in Seq(Nat)
    OBVIOUS
  <2>2. r \in FunctionType /\ r.parent = 0 /\ r.need_close = FALSE
    BY <2>1 DEF Function, NULL, FunctionType
  <2>3. l \in Seq(Nat) /\ fn = [r EXCEPT !.upvalues = l]
    OBVIOUS
  <2> HIDE DEF r, l, fn
  <2>4. fn \in FunctionType /\ fn.parent = r.parent /\ fn.upvalues = l /\ fn.need_close = r.need_close
    BY <2>2, <2>3 DEF FunctionType
  <2> QED BY <2>2, <2>4 DEF l
<1>3. sc = [function |-> 1, parent |-> 0, symbol_list |-> <<>>, need_close |-> FALSE]
      /\ sc \in ScopeType
  <2>1. <<>> \in Seq(Nat)
    OBVIOUS
  <2> QED BY <2>1 DEF Scope, NULL, ScopeType
<1>4. va \in VariableType /\ va.name = ENV /\ va.block = NULL
  BY ResolverAssumption DEF new_local_symbol, VariableType, NULL
<1>5. fn.parent = 0 /\ fn.upvalues = <<1>> /\ fn.need_close = FALSE
      /\ sc.function = 1 /\ sc.parent = 0 /\ sc.symbol_list = <<>> /\ sc.need_close = FALSE
  BY <1>2, <1>3
<1>6. ToSet(<<1>>) = {1} /\ ToSet(<<>>) = {}
  <2>1. <<>> \in Seq(Nat) /\ 1 \in Nat
    OBVIOUS
  <2> QED BY <2>1, AppendedOne, EmptySet
<1> HIDE DEF fn, sc, va
<1>7. /\ t.functions = <<fn>> /\ t.scopes = <<sc>> /\ t.variables = <<va>>
      /\ DOMAIN t.functions = {1} /\ DOMAIN t.scopes = {1} /\ DOMAIN t.variables = {1}
      /\ t.functions[1] = fn /\ t.scopes[1] = sc /\ t.variables[1] = va
  <2>1. DOMAIN <<fn>> = {1} /\ DOMAIN <<sc>> = {1} /\ DOMAIN <<va>> = {1}
    OBVIOUS
  <2> QED BY <1>1, <2>1, TreePrime
<1>8. Typed(t)
  BY <1>2, <1>3, <1>4, <1>7 DEF Typed
<1>9. Linked(t)
  <2>1. FunctionsLinked(t)
    BY <1>5, <1>6, <1>7 DEF FunctionsLinked
  <2>2. ScopesLinked(t)
    <3>1. 0 \in 0 .. 1 - 1 /\ 1 \in DOMAIN t.functions
      BY <1>7
    <3>2. \A v \in ToSet(sc.symbol_list) : FALSE
      BY <1>5, <1>6
    <3> QED BY <1>5, <1>7, <3>1, <3>2 DEF ScopesLinked
  <2>3. VariablesLinked(t)
    BY <1>4, <1>7 DEF VariablesLinked, Locals
  <2> QED BY <2>1, <2>2, <2>3 DEF Linked
<1>10. Marked(t)
  BY <1>5, <1>6, <1>7 DEF Marked, VariablesMarked, ScopesMarked, FunctionsMarked, Locals
<1>11. open \in Seq(Construct) /\ open # <<>> /\ DOMAIN open = {1} /\ open[1] = o /\ Len(open) = 1
  BY <1>1, OtherOpen
<1>12. Nested(t, open, at)
  <2>1. OpenOK(t, open[1], at[1])
    BY <1>11, OtherOpen, NothingPending
  <2> QED BY <1>11, <2>1 DEF Nested
<1>13. Context(t, open, current_scope)
  <2>1. at \in [DOMAIN open -> DOMAIN t.scopes] /\ at[Len(open)] = current_scope
    BY <1>1, <1>7, <1>11
  <2> QED BY <1>11, <1>12, <2>1 DEF Context
<1>14. current_function = scopes[current_scope].function
  BY <1>1, <1>5
<1>15. AssignedOK(t, assigned)
  BY <1>1 DEF AssignedOK
<1> QED BY <1>8, <1>9, <1>10, <1>11, <1>13, <1>14, <1>15 DEF IInv, TreeOK

LEMMA NextInv ==
    ASSUME IInv, [Next]_vars
    PROVE  IInv'
<1>1. CASE Next
  <2>1. CASE \E n \in Names, literal \in BOOLEAN : parse_local_statement(n, literal)
    BY <2>1, LocalKeeps
  <2>2. CASE \E n \in Names : parse_assignment(n)
    BY <2>2, AssignmentKeeps
  <2>3. CASE \E n \in Names : parse_for_statement(n)
    BY <2>3, ForKeeps
  <2>4. CASE \E n \in Names : parse_local_function_statement(n)
    BY <2>4, LocalFunctionKeeps
  <2>5. CASE \E n \in Names : parse_function_statement(n)
    BY <2>5, FunctionStatementKeeps
  <2>6. CASE \E n \in Names : parse_embedded_C(n)
    BY <2>6, EmbeddedCKeeps
  <2>7. CASE parse_expressions
    BY <2>7, ExpressionsKeep
  <2>8. CASE parse_block
    BY <2>8, BlockKeeps
  <2>9. CASE end_block
    BY <2>9, EndBlockKeeps
  <2>10. CASE \E n \in Names : parse_name(n)
    BY <2>10, NameKeeps
  <2>11. CASE \E params \in {<<>>} \cup {<<n>> : n \in Names} : new_function(params)
    BY <2>11, FunctionKeeps
  <2>12. CASE parse_forbody
    BY <2>12, ForBodyKeeps
  <2>13. CASE end_expressions
    BY <2>13, EndExpressionsKeeps
  <2>14. CASE end_function
    BY <2>14, EndFunctionKeeps
  <2> QED BY <1>1, <2>1, <2>2, <2>3, <2>4, <2>5, <2>6, <2>7, <2>8, <2>9, <2>10, <2>11, <2>12,
             <2>13, <2>14 DEF Next, Statement, Expression
<1>2. CASE UNCHANGED vars
  BY <1>2 DEF vars, IInv, Tree
<1> QED BY <1>1, <1>2

LEMMA AlwaysInv == Spec => []IInv
<1>1. Init => IInv
  BY InitInv
<1>2. IInv /\ [Next]_vars => IInv'
  BY NextInv
<1> QED BY <1>1, <1>2, PTL DEF Spec

-----------------------------------------------------------------------------
(* What follows *)

(* The tree of functions, scopes and variables that the parser links up    *)
(* keeps its shape, and the current function is that of the current scope  *)
(* (parser.c start_scope, end_scope, start_function, end_function).        *)
THEOREM TypeCorrect == Spec => []TypeOK
<1>1. IInv => TypeOK
  <2> SUFFICES ASSUME IInv PROVE TypeOK
    OBVIOUS
  <2>1. FunctionsLinked(Tree) /\ ScopesLinked(Tree)
    BY InvFacts DEF Linked
  <2>2. \A s \in DOMAIN scopes : ToSet(scopes[s].symbol_list) \subseteq DOMAIN variables
    BY <2>1, TreePrime DEF ScopesLinked, Locals
  <2>3. /\ current_function \in DOMAIN functions /\ current_scope \in DOMAIN scopes
        /\ scopes[current_scope].function = current_function
    BY InvFacts
  <2>4. \A f \in DOMAIN functions :
            /\ functions[f].parent \in 0 .. f - 1
            /\ ToSet(functions[f].upvalues) \subseteq DOMAIN variables
    BY <2>1, TreePrime DEF FunctionsLinked
  <2>5. \A s \in DOMAIN scopes :
            /\ scopes[s].function \in DOMAIN functions
            /\ scopes[s].parent \in 0 .. s - 1
    BY <2>1, TreePrime DEF ScopesLinked
  <2> QED BY <2>2, <2>3, <2>4, <2>5 DEF TypeOK
<1> QED BY <1>1, AlwaysInv, PTL

(* A local is marked as escaped exactly when a function has it as an       *)
(* upvalue, a scope as to be closed exactly when one of its locals is, and *)
(* a function exactly when one of its scopes is (parser.c                  *)
(* add_upvalue_in_function), whatever the program.                         *)
THEOREM CapturedMarked == Spec => []ClosedWhereCaptured
<1>1. IInv => ClosedWhereCaptured
  <2> SUFFICES ASSUME IInv PROVE ClosedWhereCaptured
    OBVIOUS
  <2>1. VariablesMarked(Tree) /\ ScopesMarked(Tree) /\ FunctionsMarked(Tree)
    BY InvFacts DEF TreeOK, Marked
  <2>2. \A v \in DOMAIN variables \ {1} :
            variables[v].escaped <=> \E f \in DOMAIN functions : v \in ToSet(functions[f].upvalues)
    BY <2>1, TreePrime DEF VariablesMarked, IsCaptured, Locals
  <2>3. \A s \in DOMAIN scopes :
            scopes[s].need_close <=> \E v \in ToSet(scopes[s].symbol_list) : variables[v].escaped
    BY <2>1, TreePrime DEF ScopesMarked
  <2>4. \A f \in DOMAIN functions :
            functions[f].need_close <=>
                \E s \in DOMAIN scopes : scopes[s].function = f /\ scopes[s].need_close
    BY <2>1, TreePrime DEF FunctionsMarked
  <2> QED BY <2>2, <2>3, <2>4 DEF ClosedWhereCaptured
<1> QED BY <1>1, AlwaysInv, PTL

(* No variable that an assignment or embedded C writes to is replaced by   *)
(* the literal it was initialised with (parser.c detect_local_updates,     *)
(* linearizer.c is_replaceable_upvalue).                                   *)
THEOREM LiteralsStay == Spec => []LiteralsNeverAssigned
<1>1. IInv => LiteralsNeverAssigned
  BY InvFacts, TreePrime DEF AssignedOK, LiteralsNeverAssigned, is_replaceable_upvalue
<1> QED BY <1>1, AlwaysInv, PTL

-----------------------------------------------------------------------------
(* The scopes implement Scoping.  A path leads from outside the program,   *)
(* scope 0 with its one variable _ENV, to a scope: its positions are those *)
(* of the frames of the environment there.                                 *)

(* Induction over an interval.                                             *)
LEMMA Along ==
    ASSUME NEW a \in Nat, NEW b \in Nat, NEW S, a \in S,
           \A l \in a .. b : l < b /\ l \in S => l + 1 \in S
    PROVE  \A l \in a .. b : l \in S
<1> DEFINE T == {l \in a .. b : l \notin S}
<1>1. SUFFICES ASSUME T # {} PROVE FALSE
  OBVIOUS
<1>2. PICK m \in T : \A y \in T : m <= y
  <2>1. T \subseteq Nat
    OBVIOUS
  <2> HIDE DEF T
  <2> QED BY <1>1, <2>1, LeastNumber
<1>3. m \in a .. b /\ m \notin S
  OBVIOUS
<1>4. m # a /\ m - 1 \in a .. b /\ m - 1 < b
  BY <1>3
<1>5. m - 1 \notin T
  <2> HIDE DEF T
  <2> QED BY <1>2, <1>3, <1>4
<1>6. m - 1 \in S
  BY <1>4, <1>5
<1>7. (m - 1) + 1 \in S
  BY <1>4, <1>6
<1> QED BY <1>3, <1>7

(* A recursion from the scopes outwards has a result.                      *)
RecursionAt(h, up, z, G, s) == IF s = NULL THEN z ELSE G[<<s, h[up[s]]>>]

Recursive(N, up, V, z, G) ==
    /\ N \in Nat /\ \A s \in 1 .. N : up[s] \in 0 .. s - 1
    /\ z \in V /\ \A s \in 1 .. N : \A x \in V : G[<<s, x>>] \in V

(* The functions such definitions define exist.                            *)
LEMMA Recursion ==
    ASSUME NEW N, NEW up, NEW V, NEW z, NEW G, Recursive(N, up, V, z, G)
    PROVE  \E h \in [0 .. N -> V] : \A s \in 0 .. N : h[s] = RecursionAt(h, up, z, G, s)
<1> USE DEF Recursive
<1> DEFINE Solved(h, m) == \A s \in 0 .. m : h[s] = RecursionAt(h, up, z, G, s)
           S == {m \in 0 .. N : \E h \in [0 .. m -> V] : Solved(h, m)}
<1>1. 0 \in S
  <2> DEFINE h == [s \in 0 .. 0 |-> z]
  <2>1. h \in [0 .. 0 -> V] /\ h[0] = z
    OBVIOUS
  <2> HIDE DEF h
  <2>2. Solved(h, 0)
    BY <2>1 DEF RecursionAt, NULL
  <2> QED BY <2>1, <2>2
<1>2. \A m \in 0 .. N : m < N /\ m \in S => m + 1 \in S
  <2> SUFFICES ASSUME NEW m \in 0 .. N, m < N, m \in S
               PROVE  m + 1 \in S
    OBVIOUS
  <2>1. PICK h \in [0 .. m -> V] : Solved(h, m)
    OBVIOUS
  <2> DEFINE k == [s \in 0 .. m + 1 |-> IF s = m + 1 THEN G[<<m + 1, h[up[m + 1]]>>] ELSE h[s]]
  <2>2. m + 1 \in 1 .. N /\ m + 1 # 0
    OBVIOUS
  <2>3. up[m + 1] \in 0 .. m
    BY <2>2
  <2>4. G[<<m + 1, h[up[m + 1]]>>] \in V
    BY <2>1, <2>2, <2>3
  <2>5. k \in [0 .. m + 1 -> V]
    BY <2>1, <2>4
  <2>6. (\A s \in 0 .. m : k[s] = h[s]) /\ k[m + 1] = G[<<m + 1, h[up[m + 1]]>>]
    OBVIOUS
  <2> HIDE DEF k
  <2>7. ASSUME NEW s \in 0 .. m + 1 PROVE k[s] = RecursionAt(k, up, z, G, s)
    <3>1. CASE s = m + 1
      <4>1. k[up[m + 1]] = h[up[m + 1]]
        BY <2>3, <2>6
      <4> QED BY <4>1, <3>1, <2>2, <2>6 DEF RecursionAt, NULL
    <3>2. CASE s # m + 1
      <4>1. s \in 0 .. m
        BY <3>2
      <4>2. k[s] = RecursionAt(h, up, z, G, s)
        BY <4>1, <2>1, <2>6
      <4>3. CASE s = 0
        BY <4>2, <4>3 DEF RecursionAt, NULL
      <4>4. CASE s # 0
        <5>1. s \in 1 .. N
          BY <4>1, <4>4
        <5>2. up[s] \in 0 .. m
          BY <5>1, <4>1
        <5>3. k[up[s]] = h[up[s]]
          BY <5>2, <2>6
        <5> QED BY <5>3, <4>2 DEF RecursionAt
      <4> QED BY <4>3, <4>4
    <3> QED BY <3>1, <3>2
  <2> QED BY <2>2, <2>5, <2>7
<1>3. \A m \in 0 .. N : m \in S
  <2> HIDE DEF S
  <2> QED BY <1>1, <1>2, Along
<1>4. N \in S
  <2>1. N \in 0 .. N
    OBVIOUS
  <2> QED BY <2>1, <1>3
<1> QED BY <1>4

-----------------------------------------------------------------------------
(* The variables of a frame.                                               *)
Entries(t, s) == IF s = NULL THEN <<1>> ELSE t.scopes[s].symbol_list

(* q leads from outside the program to scope c.                            *)
IsPath(t, q, c) ==
    /\ q \in Seq(Nat) /\ Len(q) >= 2 /\ q[1] = NULL /\ q[Len(q)] = c
    /\ \A l \in 2 .. Len(q) : q[l] \in DOMAIN t.scopes /\ t.scopes[q[l]].parent = q[l - 1]

(* The function of a position.                                             *)
FunctionAt(t, q, l) == t.scopes[q[l]].function

(* Where a function begins.                                                *)
IsRoot(t, q, l) == l = 2 \/ FunctionAt(t, q, l - 1) # FunctionAt(t, q, l)

(* The definitions of Resolver over any scopes and variables.              *)
FrameOf(sc, vs, s) ==
    LET list == sc[s].symbol_list
        p    == sc[s].parent
    IN  [function |-> p = NULL \/ sc[p].function # sc[s].function,
         names |-> [i \in DOMAIN list |-> vs[list[i]].name],
         captured |-> {i \in DOMAIN list : vs[list[i]].escaped}]

(* The frame of the chunk's _ENV.                                          *)
Outside == [function |-> TRUE, names |-> <<ENV>>, captured |-> {1}]

ChainAt(h, sc, vs, s) ==
    IF s = NULL THEN <<Outside>> ELSE Append(h[sc[s].parent], FrameOf(sc, vs, s))

FramesOf(sc, vs, c) ==
    (CHOOSE h : h = [s \in 0 .. Len(sc) |-> ChainAt(h, sc, vs, s)])[c]

DepthAt(h, sc, s) == IF s = NULL THEN 1 ELSE 1 + h[sc[s].parent]

DepthOf(sc, s) == (CHOOSE h : h = [t \in 0 .. Len(sc) |-> DepthAt(h, sc, t)])[s]

PlaceIn(sc, vs, v) ==
    IF v = 1 THEN <<1, 1>>
    ELSE <<DepthOf(sc, vs[v].block), IndexOf(sc[vs[v].block].symbol_list, v)>>

(* Frames and the meaning of a symbol in those words, before and after a   *)
(* step.                                                                   *)
LEMMA FramesAre ==
    /\ Frames = FramesOf(scopes, variables, current_scope)
    /\ Frames' = FramesOf(scopes', variables', current_scope')
<1>1. Frames = FramesOf(scopes, variables, current_scope)
  BY DEF Frames, FramesOf, ChainAt, Outside, Frame, FrameOf
<1>2. Frames' = FramesOf(scopes', variables', current_scope')
  BY DEF Frames, FramesOf, ChainAt, Outside, Frame, FrameOf
<1> QED BY <1>1, <1>2

IndexIn(fs, g, v) == IndexOf(fs[g].upvalues, v)

(* A step of a closure that looks for its j-th upvalue.                    *)
DescriptionIn(fs, sc, vs, g, j) ==
    LET v      == fs[g].upvalues[j]
        parent == fs[g].parent
        block  == vs[v].block
    IN  CASE block # NULL /\ sc[block].function = parent -> [in_stack |-> TRUE, idx |-> v]
          [] ~(block # NULL /\ sc[block].function = parent) /\ parent = NULL
                -> [in_stack |-> TRUE, idx |-> 1]
          [] OTHER -> [in_stack |-> FALSE, idx |-> IndexIn(fs, parent, v)]

ReachAt(h, fs, sc, vs, g, j) ==
    IF g = NULL \/ j = 0 \/ j > Len(fs[g].upvalues) THEN NULL
    ELSE LET d == DescriptionIn(fs, sc, vs, g, j)
         IN  IF d.in_stack THEN d.idx ELSE h[<<fs[g].parent, d.idx>>]

ReachedIn(fs, sc, vs, f, i) ==
    (CHOOSE h : h = [at \in (0 .. Len(fs)) \X Nat |-> ReachAt(h, fs, sc, vs, at[1], at[2])])[<<f, i>>]

MeantIn(fs, sc, vs, s) ==
    CASE s.type = "SYM_LOCAL"   -> PlaceIn(sc, vs, s.variable)
      [] s.type = "SYM_UPVALUE" -> IF ReachedIn(fs, sc, vs, s.function, s.index) = NULL THEN <<0, 1>>
                                   ELSE PlaceIn(sc, vs, ReachedIn(fs, sc, vs, s.function, s.index))
      [] OTHER                  -> <<0, 0>>

MeaningIn(fs, sc, vs, s) ==
    [variable |-> MeantIn(fs, sc, vs, s),
     env |-> IF s.type = "SYM_GLOBAL" THEN MeantIn(fs, sc, vs, s.env) ELSE <<0, 0>>]

Meaning ==
    [variable |-> PlaceMeant(var),
     env |-> IF var.type = "SYM_GLOBAL" THEN PlaceMeant(var.env) ELSE <<0, 0>>]

(* What a name means, before and after a step.                             *)
LEMMA MeaningIs ==
    /\ Meaning = MeaningIn(functions, scopes, variables, var)
    /\ Meaning' = MeaningIn(functions', scopes', variables', var')
<1>1. Meaning = MeaningIn(functions, scopes, variables, var)
  BY DEF Meaning, MeaningIn, PlaceMeant, MeantIn, PlaceOf, PlaceIn, Depth, DepthOf, DepthAt, ReachedVariable,
         ReachedIn, ReachAt, DescriptionIn, get_upvalue_idx, upvalue_of_variable, IndexIn
<1>2. Meaning' = MeaningIn(functions', scopes', variables', var')
  BY DEF Meaning, MeaningIn, PlaceMeant, MeantIn, PlaceOf, PlaceIn, Depth, DepthOf, DepthAt, ReachedVariable,
         ReachedIn, ReachAt, DescriptionIn, get_upvalue_idx, upvalue_of_variable, IndexIn
<1> QED BY <1>1, <1>2

-----------------------------------------------------------------------------
(* Frames and places along a path.                                         *)

(* The frame of a scope, or of NULL, and the frames of a path.             *)
FrameAt(t, s) == IF s = NULL THEN Outside ELSE FrameOf(t.scopes, t.variables, s)

Environment(t, q) == [l \in 1 .. Len(q) |-> FrameAt(t, q[l])]

(* A scope declares a variable once.                                       *)
Lists(t) ==
    \A s \in DOMAIN t.scopes : \A i, j \in DOMAIN t.scopes[s].symbol_list :
        t.scopes[s].symbol_list[i] = t.scopes[s].symbol_list[j] => i = j

(* A path and the scopes on it.                                            *)
LEMMA PathFacts ==
    ASSUME NEW t, Typed(t), NEW q, NEW c, IsPath(t, q, c)
    PROVE  /\ q \in Seq(Nat) /\ Len(q) \in Nat /\ Len(q) >= 2 /\ DOMAIN q = 1 .. Len(q)
           /\ Len(t.scopes) \in Nat /\ DOMAIN t.scopes = 1 .. Len(t.scopes)
           /\ q[1] = NULL /\ q[Len(q)] = c /\ c \in DOMAIN t.scopes
           /\ \A l \in 1 .. Len(q) : q[l] \in 0 .. Len(t.scopes)
           /\ \A l \in 2 .. Len(q) : /\ q[l] # NULL /\ q[l] \in DOMAIN t.scopes
                                     /\ l - 1 \in 1 .. Len(q) /\ t.scopes[q[l]].parent = q[l - 1]
<1>1. q \in Seq(Nat) /\ Len(q) >= 2 /\ q[1] = NULL /\ q[Len(q)] = c
  BY DEF IsPath
<1>2. Len(q) \in Nat /\ DOMAIN q = 1 .. Len(q)
  BY <1>1
<1>3. Len(t.scopes) \in Nat /\ DOMAIN t.scopes = 1 .. Len(t.scopes)
  BY DEF Typed
<1>4. \A l \in 2 .. Len(q) : q[l] \in DOMAIN t.scopes /\ t.scopes[q[l]].parent = q[l - 1]
  BY DEF IsPath
<1>5. \A l \in 2 .. Len(q) : q[l] # NULL /\ l - 1 \in 1 .. Len(q)
  BY <1>2, <1>3, <1>4 DEF NULL
<1>6. Len(q) \in 2 .. Len(q)
  BY <1>1, <1>2
<1>7. \A l \in 1 .. Len(q) : q[l] \in 0 .. Len(t.scopes)
  <2> SUFFICES ASSUME NEW l \in 1 .. Len(q) PROVE q[l] \in 0 .. Len(t.scopes)
    OBVIOUS
  <2>1. CASE l = 1
    BY <2>1, <1>1, <1>3 DEF NULL
  <2>2. CASE l # 1
    <3>1. l \in 2 .. Len(q)
      BY <2>2, <1>2
    <3> QED BY <3>1, <1>3, <1>4
  <2> QED BY <2>1, <2>2
<1> QED BY <1>1, <1>2, <1>3, <1>4, <1>5, <1>6, <1>7

(* The depth of a scope is its position on a path.                         *)
LEMMA DepthRight ==
    ASSUME NEW t, Typed(t), ScopesLinked(t), NEW q, NEW c, IsPath(t, q, c)
    PROVE  \A l \in 1 .. Len(q) : DepthOf(t.scopes, q[l]) = l
<1> DEFINE N == Len(t.scopes)
           up == [s \in 1 .. N |-> t.scopes[s].parent]
           G == [p \in (1 .. N) \X Nat |-> 1 + p[2]]
           IsDepth(h) == h = [s \in 0 .. N |-> DepthAt(h, t.scopes, s)]
<1>1. /\ N \in Nat /\ DOMAIN t.scopes = 1 .. N
      /\ \A s \in 1 .. N : up[s] = t.scopes[s].parent /\ up[s] \in 0 .. s - 1
  BY DEF Typed, ScopesLinked
<1>2. \A s \in 1 .. N : \A x \in Nat : G[<<s, x>>] = 1 + x
  OBVIOUS
<1>3. \E h : IsDepth(h)
  <2>1. 1 \in Nat /\ \A s \in 1 .. N : \A x \in Nat : G[<<s, x>>] \in Nat
    BY <1>2
  <2> HIDE DEF N, up, G
  <2>2. PICK h \in [0 .. N -> Nat] : \A s \in 0 .. N : h[s] = RecursionAt(h, up, 1, G, s)
    <3>1. Recursive(N, up, Nat, 1, G)
      BY <1>1, <2>1 DEF Recursive
    <3> QED BY <3>1, Recursion
  <2>3. ASSUME NEW s \in 0 .. N PROVE h[s] = DepthAt(h, t.scopes, s)
    <3>1. CASE s = NULL
      BY <3>1, <2>2 DEF RecursionAt, DepthAt
    <3>2. CASE s # NULL
      <4>1. s \in 1 .. N
        BY <3>2, <1>1 DEF NULL
      <4>2. up[s] \in 0 .. N /\ up[s] = t.scopes[s].parent
        BY <4>1, <1>1
      <4>3. h[up[s]] \in Nat
        BY <4>2, <2>2
      <4> QED BY <4>1, <4>2, <4>3, <2>2, <1>2, <3>2 DEF RecursionAt, DepthAt
    <3> QED BY <3>1, <3>2
  <2>4. h = [s \in 0 .. N |-> h[s]]
    BY <2>2
  <2> QED BY <2>3, <2>4
<1> DEFINE h == CHOOSE h : IsDepth(h)
<1>4. IsDepth(h)
  <2> HIDE DEF IsDepth
  <2> QED BY <1>3
<1>5. \A s : DepthOf(t.scopes, s) = h[s]
  BY DEF DepthOf
<1> HIDE DEF h
<1>6. \A s \in 0 .. N : h[s] = DepthAt(h, t.scopes, s)
  BY <1>4
<1> HIDE DEF IsDepth, G, up, N
<1> DEFINE S == {l \in 1 .. Len(q) : h[q[l]] = l}
<1>7. /\ Len(q) \in Nat /\ q[1] = NULL /\ Len(q) >= 2
      /\ \A l \in 1 .. Len(q) : q[l] \in 0 .. N
      /\ \A l \in 2 .. Len(q) : q[l] # NULL /\ l - 1 \in 1 .. Len(q) /\ t.scopes[q[l]].parent = q[l - 1]
  BY PathFacts DEF N
<1>8. 1 \in S
  BY <1>6, <1>7 DEF DepthAt
<1>9. \A l \in 1 .. Len(q) : l < Len(q) /\ l \in S => l + 1 \in S
  <2> SUFFICES ASSUME NEW l \in 1 .. Len(q), l < Len(q), l \in S PROVE l + 1 \in S
    OBVIOUS
  <2>1. l + 1 \in 2 .. Len(q) /\ l + 1 \in 1 .. Len(q) /\ (l + 1) - 1 = l
    BY <1>7
  <2>2. q[l + 1] # NULL /\ t.scopes[q[l + 1]].parent = q[l] /\ q[l + 1] \in 0 .. N
    BY <1>7, <2>1
  <2>3. h[q[l + 1]] = 1 + l
    BY <1>6, <2>2 DEF DepthAt
  <2> QED BY <2>1, <2>3
<1>10. \A l \in 1 .. Len(q) : l \in S
  <2> HIDE DEF S
  <2>1. 1 \in Nat
    OBVIOUS
  <2> QED BY <1>7, <1>8, <1>9, <2>1, Along
<1> QED BY <1>5, <1>10

(* The environment is the frames on a path.                                *)
LEMMA FramesRight ==
    ASSUME NEW t, Typed(t), ScopesLinked(t), NEW q, NEW c, IsPath(t, q, c)
    PROVE  FramesOf(t.scopes, t.variables, c) = Environment(t, q)
<1> DEFINE N == Len(t.scopes)
           up == [s \in 1 .. N |-> t.scopes[s].parent]
           A == {FrameAt(t, s) : s \in 0 .. N}
           V == Seq(A)
           G == [p \in (1 .. N) \X V |-> Append(p[2], FrameAt(t, p[1]))]
           IsChain(h) == h = [s \in 0 .. N |-> ChainAt(h, t.scopes, t.variables, s)]
<1>1. /\ N \in Nat /\ DOMAIN t.scopes = 1 .. N
      /\ \A s \in 1 .. N : up[s] = t.scopes[s].parent /\ up[s] \in 0 .. s - 1
  BY DEF Typed, ScopesLinked
<1>2. \A s \in 1 .. N : \A x \in V : G[<<s, x>>] = Append(x, FrameAt(t, s))
  <2> HIDE DEF V
  <2> QED OBVIOUS
<1>a. /\ \A s \in 0 .. N : FrameAt(t, s) \in A
      /\ FrameAt(t, NULL) = Outside
      /\ \A s : s # NULL => FrameAt(t, s) = FrameOf(t.scopes, t.variables, s)
  BY DEF FrameAt
<1>b. Outside \in A
  BY <1>1, <1>a DEF NULL
<1> HIDE DEF A
<1>c. <<Outside>> \in V /\ \A s \in 1 .. N : \A x \in V : Append(x, FrameAt(t, s)) \in V
  BY <1>1, <1>a, <1>b
<1>3. \E h : h \in [0 .. N -> V] /\ IsChain(h)
  <2>1. \A s \in 1 .. N : \A x \in V : G[<<s, x>>] \in V
    BY <1>2, <1>c, Zenon
  <2> HIDE DEF N, up, G, V
  <2>2. PICK h \in [0 .. N -> V] : \A s \in 0 .. N : h[s] = RecursionAt(h, up, <<Outside>>, G, s)
    <3>1. Recursive(N, up, V, <<Outside>>, G)
      BY <1>1, <1>c, <2>1 DEF Recursive
    <3> QED BY <3>1, Recursion
  <2>3. ASSUME NEW s \in 0 .. N PROVE h[s] = ChainAt(h, t.scopes, t.variables, s)
    <3>1. CASE s = NULL
      BY <3>1, <2>2 DEF RecursionAt, ChainAt
    <3>2. CASE s # NULL
      <4>1. s \in 1 .. N
        BY <3>2, <1>1 DEF NULL
      <4>2. up[s] \in 0 .. N /\ up[s] = t.scopes[s].parent
        BY <4>1, <1>1
      <4>3. h[up[s]] \in V
        BY <4>2, <2>2
      <4>4. h[s] = G[<<s, h[up[s]]>>]
        BY <2>2, <3>2 DEF RecursionAt
      <4>5. h[s] = Append(h[up[s]], FrameOf(t.scopes, t.variables, s))
        BY <4>1, <4>3, <4>4, <1>2, <1>a, <3>2
      <4> QED BY <4>2, <4>5, <3>2 DEF ChainAt
    <3> QED BY <3>1, <3>2
  <2>4. h = [s \in 0 .. N |-> h[s]]
    BY <2>2
  <2> QED BY <2>2, <2>3, <2>4
<1> DEFINE h == CHOOSE h : IsChain(h)
<1>4. IsChain(h)
  <2> HIDE DEF IsChain
  <2> QED BY <1>3
<1>5. FramesOf(t.scopes, t.variables, c) = h[c]
  BY DEF FramesOf
<1> HIDE DEF h
<1>6. \A s \in 0 .. N : h[s] = ChainAt(h, t.scopes, t.variables, s)
  BY <1>4
<1> HIDE DEF IsChain, G, up, N, V
<1> DEFINE E(l) == [k \in 1 .. l |-> FrameAt(t, q[k])]
           S == {l \in 1 .. Len(q) : h[q[l]] = E(l)}
<1>7. /\ Len(q) \in Nat /\ q[1] = NULL /\ Len(q) >= 2 /\ q[Len(q)] = c
      /\ \A l \in 1 .. Len(q) : q[l] \in 0 .. N
      /\ \A l \in 2 .. Len(q) : q[l] # NULL /\ l - 1 \in 1 .. Len(q) /\ t.scopes[q[l]].parent = q[l - 1]
  BY PathFacts DEF N
<1>8. 1 \in S
  <2>1. h[q[1]] = <<Outside>>
    BY <1>6, <1>7 DEF ChainAt
  <2>2. E(1) = <<Outside>>
    BY <1>7, <1>a
  <2> QED BY <2>1, <2>2, <1>7
<1>9. \A l \in 1 .. Len(q) : l < Len(q) /\ l \in S => l + 1 \in S
  <2> SUFFICES ASSUME NEW l \in 1 .. Len(q), l < Len(q), l \in S PROVE l + 1 \in S
    OBVIOUS
  <2>1. l + 1 \in 2 .. Len(q) /\ l + 1 \in 1 .. Len(q) /\ (l + 1) - 1 = l
    BY <1>7
  <2>2. q[l + 1] # NULL /\ t.scopes[q[l + 1]].parent = q[l] /\ q[l + 1] \in 0 .. N
    BY <1>7, <2>1
  <2>3. h[q[l + 1]] = Append(E(l), FrameAt(t, q[l + 1]))
    <3>1. h[q[l + 1]] = Append(h[q[l]], FrameAt(t, q[l + 1]))
      BY <1>6, <1>a, <2>2 DEF ChainAt
    <3>2. h[q[l]] = E(l)
      OBVIOUS
    <3> HIDE DEF E
    <3> QED BY <3>1, <3>2
  <2>4. Append(E(l), FrameAt(t, q[l + 1])) = E(l + 1)
    <3>1. /\ E(l) \in Seq({FrameAt(t, q[k]) : k \in 1 .. l + 1}) /\ Len(E(l)) = l
          /\ \A k \in 1 .. l : E(l)[k] = FrameAt(t, q[k])
      OBVIOUS
    <3>2. DOMAIN E(l + 1) = 1 .. l + 1 /\ \A k \in 1 .. l + 1 : E(l + 1)[k] = FrameAt(t, q[k])
      OBVIOUS
    <3>3. E(l + 1) \in Seq({FrameAt(t, q[k]) : k \in 1 .. l + 1})
      OBVIOUS
    <3> HIDE DEF E
    <3> QED BY <3>1, <3>2, <3>3
  <2>5. h[q[l + 1]] = E(l + 1)
    BY <2>3, <2>4
  <2> HIDE DEF E
  <2> QED BY <2>1, <2>5
<1>10. \A l \in 1 .. Len(q) : l \in S
  <2> HIDE DEF S
  <2>1. 1 \in Nat
    OBVIOUS
  <2> QED BY <1>7, <1>8, <1>9, <2>1, Along
<1>11. h[c] = E(Len(q))
  <2>1. Len(q) \in S
    <3>1. Len(q) \in 1 .. Len(q)
      BY <1>7
    <3> HIDE DEF S
    <3> QED BY <3>1, <1>10
  <2> HIDE DEF E
  <2> QED BY <2>1, <1>7
<1> QED BY <1>5, <1>11 DEF Environment

(* A position of a list.                                                   *)
LEMMA InList ==
    ASSUME NEW list \in Seq(Nat), NEW k \in DOMAIN list
    PROVE  /\ Len(list) \in Nat /\ k \in Nat /\ k # 0 /\ k <= Len(list) /\ ~(k > Len(list))
           /\ list[k] \in Nat /\ list[k] \in ToSet(list)
BY DEF ToSet

(* Where n stands in the frames of a path, and where it stands last.       *)
Stands(t, q, n, l, i) ==
    i \in DOMAIN Entries(t, q[l]) /\ t.variables[Entries(t, q[l])[i]].name = n

IsLatest(t, q, m, n, k, j) ==
    /\ k \in 1 .. m /\ Stands(t, q, n, k, j)
    /\ \A l \in k .. m : \A i : Stands(t, q, n, l, i) => l = k /\ i <= j

(* No frame of the first m has the name.                                   *)
Undeclared(t, q, m, n) == \A l \in 1 .. m : \A i : ~ Stands(t, q, n, l, i)

(* A variable of a frame knows the frame it is in.                         *)
EntryAt(t, s, v) ==
    /\ v \in DOMAIN t.variables
    /\ s = NULL => v = 1
    /\ s # NULL => v # 1 /\ t.variables[v].block = s

(* The variables of the l-th frame.                                        *)
LEMMA EntriesFacts ==
    ASSUME NEW t, Typed(t), Linked(t), NEW q, NEW c, IsPath(t, q, c), NEW l \in 1 .. Len(q)
    PROVE  /\ Entries(t, q[l]) \in Seq(Nat)
           /\ DOMAIN Entries(t, q[l]) = 1 .. Len(Entries(t, q[l])) /\ Len(Entries(t, q[l])) \in Nat
           /\ \A i \in DOMAIN Entries(t, q[l]) : EntryAt(t, q[l], Entries(t, q[l])[i])
           /\ l = 1 => q[l] = NULL /\ Entries(t, q[l]) = <<1>>
           /\ l # 1 => q[l] \in DOMAIN t.scopes /\ Entries(t, q[l]) = t.scopes[q[l]].symbol_list
<1>1. CASE l = 1
  <2>1. q[l] = NULL
    BY <1>1, PathFacts
  <2>2. Entries(t, q[l]) = <<1>>
    BY <2>1 DEF Entries
  <2>3. 1 \in DOMAIN t.variables
    BY DEF Linked, VariablesLinked
  <2> QED BY <1>1, <2>1, <2>2, <2>3 DEF EntryAt
<1>2. CASE l # 1
  <2>1. l \in 2 .. Len(q)
    BY <1>2, PathFacts
  <2>2. q[l] \in DOMAIN t.scopes /\ q[l] # NULL
    BY <2>1, PathFacts
  <2>3. Entries(t, q[l]) = t.scopes[q[l]].symbol_list
    BY <2>2 DEF Entries
  <2>4. t.scopes[q[l]].symbol_list \in Seq(Nat)
    <3>1. t.scopes[q[l]] \in ScopeType
      BY <2>2 DEF Typed
    <3> QED BY <3>1 DEF ScopeType
  <2>5. \A v \in ToSet(t.scopes[q[l]].symbol_list) :
            v \in DOMAIN t.variables /\ v # 1 /\ t.variables[v].block = q[l]
    BY <2>2 DEF Linked, ScopesLinked, Locals
  <2>6. \A i \in DOMAIN Entries(t, q[l]) : Entries(t, q[l])[i] \in ToSet(t.scopes[q[l]].symbol_list)
    BY <2>3 DEF ToSet
  <2>7. \A i \in DOMAIN Entries(t, q[l]) : EntryAt(t, q[l], Entries(t, q[l])[i])
    BY <2>2, <2>5, <2>6 DEF EntryAt
  <2>8. Len(Entries(t, q[l])) \in Nat /\ DOMAIN Entries(t, q[l]) = 1 .. Len(Entries(t, q[l]))
    BY <2>3, <2>4
  <2> QED BY <1>2, <2>2, <2>3, <2>4, <2>7, <2>8
<1> QED BY <1>1, <1>2

(* The l-th frame of an environment, in terms of the tree.                 *)
FrameIs(F, t, q, l) ==
    /\ F = FrameAt(t, q[l])
    /\ DOMAIN F.names = DOMAIN Entries(t, q[l])
    /\ \A i \in DOMAIN F.names : F.names[i] = t.variables[Entries(t, q[l])[i]].name
    /\ F.function <=> l = 1 \/ IsRoot(t, q, l)
    /\ F.captured = IF l = 1 THEN {1}
                    ELSE {i \in DOMAIN Entries(t, q[l]) : t.variables[Entries(t, q[l])[i]].escaped}

(* The frames of a path are those of the tree.                             *)
LEMMA FrameRight ==
    ASSUME NEW t, Typed(t), Linked(t), NEW q, NEW c, IsPath(t, q, c), NEW l \in 1 .. Len(q)
    PROVE  FrameIs(Environment(t, q)[l], t, q, l)
<1> DEFINE F == FrameAt(t, q[l])
<1>0. Environment(t, q)[l] = F
  BY DEF Environment
<1>1. CASE l = 1
  <2>1. q[l] = NULL /\ Entries(t, q[l]) = <<1>>
    BY <1>1, EntriesFacts
  <2>2. F = Outside
    BY <2>1 DEF FrameAt
  <2>3. F.names = <<ENV>> /\ F.captured = {1} /\ F.function = TRUE
    BY <2>2 DEF Outside
  <2>4. t.variables[1].name = ENV
    BY DEF Linked, VariablesLinked
  <2> HIDE DEF F
  <2>5. /\ DOMAIN F.names = DOMAIN Entries(t, q[l])
        /\ \A i \in DOMAIN F.names : F.names[i] = t.variables[Entries(t, q[l])[i]].name
    BY <2>1, <2>3, <2>4
  <2>6. F.function <=> l = 1 \/ IsRoot(t, q, l)
    BY <1>1, <2>3
  <2> QED BY <1>0, <1>1, <2>3, <2>5, <2>6 DEF F, FrameIs
<1>2. CASE l # 1
  <2>1. l \in 2 .. Len(q)
    BY <1>2, PathFacts
  <2>2. q[l] # NULL /\ Entries(t, q[l]) = t.scopes[q[l]].symbol_list
    <3>1. q[l] # NULL
      BY <2>1, PathFacts
    <3> QED BY <3>1 DEF Entries
  <2>3. F = FrameOf(t.scopes, t.variables, q[l])
    BY <2>2 DEF FrameAt
  <2> HIDE DEF F
  <2>4. /\ F.names = [i \in DOMAIN Entries(t, q[l]) |-> t.variables[Entries(t, q[l])[i]].name]
        /\ F.captured = {i \in DOMAIN Entries(t, q[l]) : t.variables[Entries(t, q[l])[i]].escaped}
    BY <2>2, <2>3, ZenonT(30) DEF FrameOf
  <2>5. F.function <=> t.scopes[q[l]].parent = NULL
                       \/ t.scopes[t.scopes[q[l]].parent].function # t.scopes[q[l]].function
    BY <2>3, Zenon DEF FrameOf
  <2>6. t.scopes[q[l]].parent = q[l - 1]
    BY <2>1, PathFacts
  <2>7. q[l - 1] = NULL <=> l = 2
    <3>1. CASE l = 2
      <4>1. l - 1 = 1
        BY <3>1
      <4> QED BY <3>1, <4>1, PathFacts
    <3>2. CASE l # 2
      <4>1. l - 1 \in 2 .. Len(q)
        BY <2>1, <3>2, PathFacts
      <4> QED BY <4>1, <3>2, PathFacts
    <3> QED BY <3>1, <3>2
  <2>8. F.function <=> IsRoot(t, q, l)
    BY <2>5, <2>6, <2>7 DEF IsRoot, FunctionAt
  <2>9. /\ DOMAIN F.names = DOMAIN Entries(t, q[l])
        /\ \A i \in DOMAIN F.names : F.names[i] = t.variables[Entries(t, q[l])[i]].name
    BY <2>4
  <2> QED BY <1>0, <1>2, <2>4, <2>8, <2>9 DEF F, FrameIs
<1> QED BY <1>1, <1>2

(* The places of a name are those where it stands on the path.             *)
LEMMA PlacesRight ==
    ASSUME NEW t, Typed(t), Linked(t), NEW q, NEW c, IsPath(t, q, c), NEW n
    PROVE  /\ \A p \in Abstract!Places(Environment(t, q), n) :
                  \E l \in 1 .. Len(q), i \in Nat : p = <<l, i>> /\ Stands(t, q, n, l, i)
           /\ \A l \in 1 .. Len(q) : \A i :
                  Stands(t, q, n, l, i) => i \in Nat /\ <<l, i>> \in Abstract!Places(Environment(t, q), n)
<1> DEFINE e == Environment(t, q)
           At(l) == {<<l, i>> : i \in {j \in DOMAIN e[l].names : e[l].names[j] = n}}
<1>1. Abstract!Places(e, n) = UNION {At(l) : l \in 1 .. Len(q)}
  <2>1. DOMAIN e = 1 .. Len(q)
    BY DEF Environment
  <2> HIDE DEF e
  <2> QED BY <2>1 DEF Abstract!Places
<1>2. ASSUME NEW l \in 1 .. Len(q), NEW i
      PROVE  /\ i \in DOMAIN e[l].names /\ e[l].names[i] = n <=> Stands(t, q, n, l, i)
             /\ i \in DOMAIN e[l].names => i \in Nat
  <2>1. /\ DOMAIN e[l].names = DOMAIN Entries(t, q[l])
        /\ \A j \in DOMAIN e[l].names : e[l].names[j] = t.variables[Entries(t, q[l])[j]].name
    <3>1. FrameIs(e[l], t, q, l)
      BY FrameRight
    <3> HIDE DEF e
    <3> QED BY <3>1 DEF FrameIs
  <2>2. DOMAIN Entries(t, q[l]) = 1 .. Len(Entries(t, q[l])) /\ Len(Entries(t, q[l])) \in Nat
    BY EntriesFacts
  <2> HIDE DEF e
  <2> QED BY <2>1, <2>2 DEF Stands
<1> HIDE DEF e
<1>3. ASSUME NEW p \in Abstract!Places(e, n)
      PROVE  \E l \in 1 .. Len(q), i \in Nat : p = <<l, i>> /\ Stands(t, q, n, l, i)
  <2>1. PICK l \in 1 .. Len(q) : p \in At(l)
    BY <1>1, <1>3
  <2>2. PICK i \in DOMAIN e[l].names : p = <<l, i>> /\ e[l].names[i] = n
    BY <2>1
  <2> QED BY <2>2, <1>2
<1>4. ASSUME NEW l \in 1 .. Len(q), NEW i, Stands(t, q, n, l, i)
      PROVE  i \in Nat /\ <<l, i>> \in Abstract!Places(e, n)
  <2>1. i \in DOMAIN e[l].names /\ e[l].names[i] = n /\ i \in Nat
    BY <1>2, <1>4
  <2>2. <<l, i>> \in At(l)
    BY <2>1
  <2> QED BY <1>1, <2>1, <2>2
<1> QED BY <1>3, <1>4 DEF e

(* Where it stands last is its innermost declaration.                      *)
LEMMA InnermostFound ==
    ASSUME NEW t, Typed(t), Linked(t), NEW q, NEW c, IsPath(t, q, c), NEW n, NEW k, NEW j,
           IsLatest(t, q, Len(q), n, k, j)
    PROVE  Abstract!Innermost(Environment(t, q), n) = <<k, j>>
<1> DEFINE P == Abstract!Places(Environment(t, q), n)
           Last1(p) == \A r \in P \ {p} : Abstract!Inside(r, p)
<1>1. /\ \A p \in P : \E l \in 1 .. Len(q), i \in Nat : p = <<l, i>> /\ Stands(t, q, n, l, i)
      /\ \A l \in 1 .. Len(q) : \A i : Stands(t, q, n, l, i) => i \in Nat /\ <<l, i>> \in P
  BY PlacesRight
<1> HIDE DEF P
<1>2. Len(q) \in Nat
  BY PathFacts
<1>3. k \in 1 .. Len(q) /\ j \in Nat /\ <<k, j>> \in P
  BY <1>1 DEF IsLatest
<1>4. ASSUME NEW p \in P, p # <<k, j>>
      PROVE  Abstract!Inside(p, <<k, j>>) /\ ~ Abstract!Inside(<<k, j>>, p)
  <2>1. PICK l \in 1 .. Len(q), i \in Nat : p = <<l, i>> /\ Stands(t, q, n, l, i)
    BY <1>1, <1>4
  <2>2. p[1] = l /\ p[2] = i /\ <<k, j>>[1] = k /\ <<k, j>>[2] = j
    BY <2>1
  <2>3. l >= k => l = k /\ i <= j
    <3>1. l >= k => l \in k .. Len(q)
      BY <1>2, <1>3
    <3> QED BY <2>1, <3>1 DEF IsLatest
  <2>4. l = k => i # j
    BY <2>1, <1>4
  <2>5. l < k \/ (l = k /\ i < j)
    BY <2>3, <2>4, <1>3, <1>2
  <2>6. Abstract!Inside(p, <<k, j>>) <=> p[1] < <<k, j>>[1] \/ (p[1] = <<k, j>>[1] /\ p[2] < <<k, j>>[2])
    BY DEF Abstract!Inside
  <2>7. Abstract!Inside(<<k, j>>, p) <=> <<k, j>>[1] < p[1] \/ (p[1] = <<k, j>>[1] /\ <<k, j>>[2] < p[2])
    BY DEF Abstract!Inside
  <2> QED BY <2>2, <2>5, <2>6, <2>7, <1>2, <1>3
<1>5. Last1(<<k, j>>)
  BY <1>4
<1>6. \A p \in P : Last1(p) => p = <<k, j>>
  <2> SUFFICES ASSUME NEW p \in P, Last1(p), p # <<k, j>> PROVE FALSE
    OBVIOUS
  <2>1. Abstract!Inside(<<k, j>>, p)
    BY <1>3
  <2> QED BY <2>1, <1>4
<1>7. Abstract!Innermost(Environment(t, q), n) = CHOOSE p \in P : Last1(p)
  BY <1>3 DEF Abstract!Innermost, P
<1>8. (CHOOSE p \in P : Last1(p)) = <<k, j>>
  <2> HIDE DEF Last1
  <2> QED BY <1>3, <1>5, <1>6
<1> QED BY <1>7, <1>8

(* A name that stands nowhere has none.                                    *)
LEMMA InnermostNone ==
    ASSUME NEW t, Typed(t), Linked(t), NEW q, NEW c, IsPath(t, q, c), NEW n,
           Undeclared(t, q, Len(q), n)
    PROVE  Abstract!Innermost(Environment(t, q), n) = <<0, 0>>
<1>1. Abstract!Places(Environment(t, q), n) = {}
  BY PlacesRight DEF Undeclared
<1> QED BY <1>1 DEF Abstract!Innermost, Abstract!NOWHERE

(* The index of a variable in a list without repetitions.                  *)
LEMMA IndexRight ==
    ASSUME NEW list \in Seq(Nat), NEW v
    PROVE  /\ IndexOf(list, v) \in Nat
           /\ v \in ToSet(list) => IndexOf(list, v) \in DOMAIN list /\ list[IndexOf(list, v)] = v
           /\ v \notin ToSet(list) => IndexOf(list, v) = 0
<1> DEFINE I == {i \in 1 .. Len(list) : list[i] = v}
<1>1. Len(list) \in Nat /\ DOMAIN list = 1 .. Len(list)
  OBVIOUS
<1>2. IndexOf(list, v) = IF I # {} THEN Min(I) ELSE 0
  BY DEF IndexOf, SelectInSeq
<1>3. I # {} => Min(I) \in I
  BY <1>1, LeastPlace
<1>4. v \in ToSet(list) <=> I # {}
  BY <1>1 DEF ToSet
<1>5. \A i \in I : i \in DOMAIN list /\ i \in Nat /\ list[i] = v
  BY <1>1
<1> HIDE DEF I
<1> QED BY <1>2, <1>3, <1>4, <1>5

(* A variable of the frames is where it stands in them.                    *)
LEMMA PlaceRight ==
    ASSUME NEW t, Typed(t), Linked(t), Lists(t), NEW q, NEW c, IsPath(t, q, c),
           NEW l \in 1 .. Len(q), NEW i \in DOMAIN Entries(t, q[l])
    PROVE  PlaceIn(t.scopes, t.variables, Entries(t, q[l])[i]) = <<l, i>>
<1> DEFINE v == Entries(t, q[l])[i]
<1>1. CASE l = 1
  <2>1. Entries(t, q[l]) = <<1>>
    BY <1>1, EntriesFacts
  <2>2. i = 1 /\ v = 1
    BY <2>1
  <2> QED BY <1>1, <2>2 DEF PlaceIn
<1>2. CASE l # 1
  <2>1. /\ v # 1 /\ t.variables[v].block = q[l]
        /\ q[l] \in DOMAIN t.scopes /\ Entries(t, q[l]) = t.scopes[q[l]].symbol_list
        /\ Entries(t, q[l]) \in Seq(Nat)
    <3>1. Entries(t, q[l]) \in Seq(Nat)
      BY EntriesFacts
    <3>2. q[l] \in DOMAIN t.scopes /\ Entries(t, q[l]) = t.scopes[q[l]].symbol_list
      BY <1>2, EntriesFacts
    <3>3. v # 1 /\ t.variables[v].block = q[l]
      <4>1. EntryAt(t, q[l], v)
        BY EntriesFacts
      <4>2. q[l] # NULL
        <5>1. l \in 2 .. Len(q)
          BY <1>2, PathFacts
        <5> QED BY <5>1, PathFacts
      <4> QED BY <4>1, <4>2 DEF EntryAt
    <3> QED BY <3>1, <3>2, <3>3
  <2>2. DepthOf(t.scopes, q[l]) = l
    BY DepthRight DEF Linked
  <2>3. v \in ToSet(Entries(t, q[l]))
    BY DEF ToSet
  <2>4. LET k == IndexOf(Entries(t, q[l]), v)
        IN  k \in DOMAIN Entries(t, q[l]) /\ Entries(t, q[l])[k] = Entries(t, q[l])[i]
    <3> HIDE DEF v
    <3>1. LET k == IndexOf(Entries(t, q[l]), v)
          IN  k \in DOMAIN Entries(t, q[l]) /\ Entries(t, q[l])[k] = v
      BY <2>1, <2>3, IndexRight
    <3> QED BY <3>1 DEF v
  <2>5. IndexOf(Entries(t, q[l]), v) = i
    <3> HIDE DEF v
    <3> QED BY <2>1, <2>4 DEF Lists
  <2> HIDE DEF v
  <2>6. PlaceIn(t.scopes, t.variables, v) = <<l, i>>
    BY <2>1, <2>2, <2>5 DEF PlaceIn
  <2> QED BY <2>6 DEF v
<1> QED BY <1>1, <1>2

-----------------------------------------------------------------------------
(* A closure finds its upvalues: the parent of its function owns the variable *)
(* or has it as an upvalue.                                                *)

(* Only the chunk has no parent, and a scope that begins a function lies   *)
(* in its parent.                                                          *)
Parents(t) ==
    /\ \A f \in DOMAIN t.functions \ {1} : t.functions[f].parent # NULL
    /\ \A s \in DOMAIN t.scopes :
           LET p == t.scopes[s].parent
           IN  p # NULL /\ t.scopes[p].function # t.scopes[s].function
                   => t.functions[t.scopes[s].function].parent = t.scopes[p].function

(* v is a local of function f.                                             *)
OwnedBy(t, v, f) == v # 1 /\ t.scopes[t.variables[v].block].function = f

(* An upvalue of a function is a local or an upvalue of its parent.        *)
Chained(t) ==
    \A f \in DOMAIN t.functions : \A v \in ToSet(t.functions[f].upvalues) :
        /\ f = 1 => v = 1
        /\ f # 1 => \/ OwnedBy(t, v, t.functions[f].parent)
                    \/ v \in ToSet(t.functions[t.functions[f].parent].upvalues)

(* What the j-th upvalue of g stands for.                                  *)
UpvalueAt(t, g, j) ==
    IF g = NULL \/ j = 0 \/ j > Len(t.functions[g].upvalues) THEN NULL
    ELSE t.functions[g].upvalues[j]

(* One step of a closure, from a function that knows how to go on.         *)
LEMMA ReachStep ==
    ASSUME NEW t, Typed(t), Linked(t), Parents(t), Chained(t),
           NEW g \in 0 .. Len(t.functions), NEW j \in Nat, NEW h,
           g # NULL => \A i \in Nat :
               h[<<t.functions[g].parent, i>>] = UpvalueAt(t, t.functions[g].parent, i)
    PROVE  ReachAt(h, t.functions, t.scopes, t.variables, g, j) = UpvalueAt(t, g, j)
<1> DEFINE fs == t.functions
           d == DescriptionIn(fs, t.scopes, t.variables, g, j)
           v == fs[g].upvalues[j]
           p == fs[g].parent
           b == t.variables[v].block
<1>1. CASE g = NULL \/ j = 0 \/ j > Len(fs[g].upvalues)
  BY <1>1 DEF ReachAt, UpvalueAt
<1>2. CASE ~(g = NULL \/ j = 0 \/ j > Len(fs[g].upvalues))
  <2>1. /\ g \in DOMAIN fs /\ g # NULL /\ fs[g] \in FunctionType
        /\ Len(fs) \in Nat /\ DOMAIN fs = 1 .. Len(fs)
    <3>1. Len(fs) \in Nat /\ DOMAIN fs = 1 .. Len(fs)
      BY DEF Typed
    <3>2. g \in DOMAIN fs
      BY <1>2, <3>1 DEF NULL
    <3> QED BY <1>2, <3>1, <3>2 DEF Typed
  <2>2. fs[g].upvalues \in Seq(Nat) /\ p \in 0 .. g - 1
    BY <2>1 DEF FunctionType, Linked, FunctionsLinked
  <2>3. j \in DOMAIN fs[g].upvalues
    BY <1>2, <2>2, SMTT(30)
  <2>4. v \in ToSet(fs[g].upvalues)
    BY <2>3 DEF ToSet
  <2>5. v \in DOMAIN t.variables
    BY <2>1, <2>4 DEF Linked, FunctionsLinked
  <2>6. v = 1 => b = NULL
    BY DEF Linked, VariablesLinked
  <2>7. v # 1 => b # NULL
    <3>1. v # 1 => b \in DOMAIN t.scopes
      BY <2>5 DEF Linked, VariablesLinked, Locals
    <3>2. DOMAIN t.scopes = 1 .. Len(t.scopes)
      BY DEF Typed
    <3> QED BY <3>1, <3>2 DEF NULL
  <2>8. UpvalueAt(t, g, j) = v
    BY <1>2 DEF UpvalueAt
  <2>9. ReachAt(h, fs, t.scopes, t.variables, g, j) = IF d.in_stack THEN d.idx ELSE h[<<p, d.idx>>]
    BY <1>2 DEF ReachAt
  <2>10. p \in Nat /\ (p = NULL <=> g = 1)
    <3>1. g = 1 => p = 0
      BY <2>2
    <3>2. g # 1 => p # NULL
      BY <2>1 DEF Parents
    <3> QED BY <3>1, <3>2, <2>1, <2>2 DEF NULL
  <2> HIDE DEF d
  <2>11. CASE b # NULL /\ t.scopes[b].function = p
    <3>1. d = [in_stack |-> TRUE, idx |-> v]
      BY <2>11, Zenon DEF d, DescriptionIn
    <3> QED BY <3>1, <2>8, <2>9
  <2>12. CASE ~(b # NULL /\ t.scopes[b].function = p) /\ p = NULL
    <3>1. d = [in_stack |-> TRUE, idx |-> 1]
      BY <2>12, ZenonT(30) DEF d, DescriptionIn
    <3>2. v = 1
      BY <2>1, <2>4, <2>10, <2>12, Zenon DEF Chained
    <3> QED BY <3>1, <3>2, <2>8, <2>9
  <2>13. CASE ~(b # NULL /\ t.scopes[b].function = p) /\ p # NULL
    <3> DEFINE k == IndexIn(fs, p, v)
    <3>1. d = [in_stack |-> FALSE, idx |-> k]
      BY <2>13, ZenonT(30) DEF d, DescriptionIn
    <3>2. ~ OwnedBy(t, v, p)
      BY <2>13, <2>7, ZenonT(30) DEF OwnedBy
    <3>3. v \in ToSet(fs[p].upvalues)
      BY <2>1, <2>4, <2>10, <2>13, <3>2, Zenon DEF Chained
    <3>4. p \in DOMAIN fs
      <4>1. g \in 1 .. Len(fs) /\ p \in 0 .. g - 1 /\ p # 0
        BY <2>1, <2>2, <2>13, Zenon DEF NULL
      <4> HIDE DEF p, fs
      <4>2. p \in 1 .. Len(fs)
        BY <4>1, <2>1
      <4> QED BY <4>2, <2>1
    <3>5. fs[p].upvalues \in Seq(Nat)
      <4>1. fs[p] \in FunctionType
        BY <3>4 DEF Typed
      <4> QED BY <4>1 DEF FunctionType
    <3>6. k \in Nat /\ k \in DOMAIN fs[p].upvalues /\ fs[p].upvalues[k] = v
      BY <3>3, <3>5, IndexRight DEF IndexIn
    <3> HIDE DEF k
    <3>7. UpvalueAt(t, p, k) = v
      <4>2. k # 0 /\ ~(k > Len(fs[p].upvalues))
        BY <3>5, <3>6, InList
      <4> QED BY <3>6, <4>2, <2>13, Zenon DEF UpvalueAt
    <3>8. h[<<p, k>>] = UpvalueAt(t, p, k)
      BY <3>6, <2>1
    <3>9. d.in_stack = FALSE /\ d.idx = k
      BY <3>1
    <3> QED BY <3>7, <3>8, <3>9, <2>8, <2>9
  <2> QED BY <2>11, <2>12, <2>13, Zenon
<1> QED BY <1>1, <1>2

(* Following the descriptions outwards ends at the variable the upvalue    *)
(* stands for.                                                             *)
LEMMA UpvalueReached ==
    ASSUME NEW t, Typed(t), Linked(t), Parents(t), Chained(t),
           NEW f \in DOMAIN t.functions, NEW i \in DOMAIN t.functions[f].upvalues
    PROVE  ReachedIn(t.functions, t.scopes, t.variables, f, i) = t.functions[f].upvalues[i]
<1> DEFINE N == Len(t.functions)
           At(h, g, j) == ReachAt(h, t.functions, t.scopes, t.variables, g, j)
           IsReach(h) == h = [at \in (0 .. N) \X Nat |-> At(h, at[1], at[2])]
           R == [at \in (0 .. N) \X Nat |-> UpvalueAt(t, at[1], at[2])]
<1>1. /\ N \in Nat /\ DOMAIN t.functions = 1 .. N
      /\ \A g \in 1 .. N : t.functions[g].parent \in 0 .. g - 1 /\ t.functions[g].parent \in 0 .. N
  BY DEF Typed, Linked, FunctionsLinked
<1>2. \A g \in 0 .. N : \A j \in Nat : R[<<g, j>>] = UpvalueAt(t, g, j)
  OBVIOUS
<1>3. ASSUME NEW g \in 0 .. N, NEW j \in Nat PROVE At(R, g, j) = UpvalueAt(t, g, j)
  <2>1. g # NULL => \A k \in Nat : R[<<t.functions[g].parent, k>>] = UpvalueAt(t, t.functions[g].parent, k)
    <3>1. g # NULL => t.functions[g].parent \in 0 .. N
      BY <1>1 DEF NULL
    <3> HIDE DEF R
    <3> QED BY <1>2, <3>1
  <2> HIDE DEF R
  <2> QED BY <2>1, ReachStep
<1>4. IsReach(R)
  <2> HIDE DEF At
  <2> QED BY <1>3
<1> DEFINE h == CHOOSE h : IsReach(h)
<1>5. IsReach(h)
  <2> HIDE DEF IsReach, R
  <2> QED BY <1>4
<1>6. ReachedIn(t.functions, t.scopes, t.variables, f, i) = h[<<f, i>>]
  BY DEF ReachedIn
<1> HIDE DEF h, R
<1>7. \A g \in 0 .. N : \A j \in Nat : h[<<g, j>>] = At(h, g, j)
  <2> HIDE DEF At
  <2> QED BY <1>5
<1> HIDE DEF IsReach, At
<1> DEFINE S == {m \in 0 .. N : \A g \in 0 .. m : \A j \in Nat : h[<<g, j>>] = UpvalueAt(t, g, j)}
<1>8. 0 \in S
  <2>1. \A j \in Nat : At(h, 0, j) = UpvalueAt(t, 0, j)
    BY DEF At, ReachAt, UpvalueAt, NULL
  <2>2. 0 \in 0 .. N
    BY <1>1
  <2>3. \A j \in Nat : h[<<0, j>>] = UpvalueAt(t, 0, j)
    BY <2>1, <2>2, <1>7
  <2> QED BY <2>2, <2>3
<1>9. \A m \in 0 .. N : m < N /\ m \in S => m + 1 \in S
  <2> SUFFICES ASSUME NEW m \in 0 .. N, m < N, m \in S PROVE m + 1 \in S
    OBVIOUS
  <2>1. m + 1 \in 1 .. N /\ m + 1 \in 0 .. N /\ m + 1 # NULL
    BY <1>1 DEF NULL
  <2>2. t.functions[m + 1].parent \in 0 .. m
    BY <2>1, <1>1
  <2>3. \A k \in Nat : h[<<t.functions[m + 1].parent, k>>] = UpvalueAt(t, t.functions[m + 1].parent, k)
    BY <2>2
  <2>4. \A j \in Nat : At(h, m + 1, j) = UpvalueAt(t, m + 1, j)
    BY <2>1, <2>3, ReachStep DEF At
  <2>5. \A j \in Nat : h[<<m + 1, j>>] = UpvalueAt(t, m + 1, j)
    BY <2>1, <2>4, <1>7
  <2>6. \A g \in 0 .. m + 1 : g \in 0 .. m \/ g = m + 1
    BY <1>1
  <2> QED BY <2>1, <2>5, <2>6
<1>10. \A m \in 0 .. N : m \in S
  <2>1. 0 \in Nat
    OBVIOUS
  <2> HIDE DEF S
  <2> QED BY <1>1, <1>8, <1>9, <2>1, Along
<1>11. f \in 1 .. N /\ f \in 0 .. f /\ f \in 0 .. N /\ f # NULL
  BY <1>1 DEF NULL
<1>12. f \in S
  <2> HIDE DEF S
  <2> QED BY <1>10, <1>11
<1>13. t.functions[f].upvalues \in Seq(Nat)
  <2>1. t.functions[f] \in FunctionType
    BY DEF Typed
  <2> QED BY <2>1 DEF FunctionType
<1>14. i \in Nat /\ UpvalueAt(t, f, i) = t.functions[f].upvalues[i]
  BY <1>11, <1>13 DEF UpvalueAt
<1>15. h[<<f, i>>] = UpvalueAt(t, f, i)
  BY <1>11, <1>12, <1>14
<1> QED BY <1>6, <1>14, <1>15

-----------------------------------------------------------------------------
(* The upvalues of a function on the path mean the declarations that their *)
(* names have outside of it.                                               *)

(* v is the last declaration of its name in the first m frames.            *)
DeclaredLast(t, q, m, v) ==
    \E k \in 1 .. m, j \in Nat :
        IsLatest(t, q, m, t.variables[v].name, k, j) /\ Entries(t, q[k])[j] = v

(* The upvalues of the functions on the path are such declarations,        *)
(* outside of the function.                                                *)
OuterOn(t, q) ==
    \A m \in 2 .. Len(q) : IsRoot(t, q, m) =>
        \A v \in ToSet(t.functions[FunctionAt(t, q, m)].upvalues) : DeclaredLast(t, q, m - 1, v)

(* A name is found at its last declaration; the functions further in than its  *)
(* owner, which position a belongs to, have no upvalue of that name.       *)
NoUpvalueAt(q, n, m) ==
    \A v \in ToSet(functions[FunctionAt(Tree, q, m)].upvalues) : variables[v].name # n

Resolved(q, n, l, r, k, j, a) ==
    /\ k \in 1 .. a /\ j \in Nat /\ a \in 2 .. l
    /\ IsLatest(Tree, q, l, n, k, j) /\ Target(r) = Entries(Tree, q[k])[j]
    /\ Owner(r) = FunctionAt(Tree, q, a)
    /\ \/ r = Local(Entries(Tree, q[k])[j]) /\ k = a
       \/ /\ k < a /\ IsRoot(Tree, q, a)
          /\ \E i \in DOMAIN functions[FunctionAt(Tree, q, a)].upvalues : r = Upvalue(FunctionAt(Tree, q, a), i)
    /\ \A m \in a + 1 .. l : IsRoot(Tree, q, m) => NoUpvalueAt(q, n, m)

(* What looking n up from position l finds.                                *)
Outcome(q, n, l, r) ==
    \/ r = NoSymbol /\ Undeclared(Tree, q, l, n)
    \/ \E k, j, a : Resolved(q, n, l, r, k, j, a)

(* The search in one scope finds the last declaration.                     *)
LEMMA LastInBlock ==
    ASSUME Typed(Tree), NEW s \in DOMAIN scopes, NEW n
    PROVE  LET i == search_for_variable_in_block(s, n)
               l == scopes[s].symbol_list
           IN  /\ i # 0 => /\ i \in DOMAIN l /\ i \in Nat /\ variables[l[i]].name = n
                           /\ \A j \in DOMAIN l : variables[l[j]].name = n => j <= i
               /\ i = 0 => \A j \in DOMAIN l : variables[l[j]].name # n
<1> DEFINE l == scopes[s].symbol_list
           I == {i \in 1 .. Len(l) : variables[l[i]].name = n}
<1>1. Len(l) \in Nat /\ DOMAIN l = 1 .. Len(l)
  <2>1. scopes[s] \in ScopeType
    BY DEF Typed, Tree
  <2>2. l \in Seq(Nat)
    BY <2>1 DEF ScopeType
  <2> QED BY <2>2
<1>2. search_for_variable_in_block(s, n) = IF I # {} THEN Max(I) ELSE 0
  BY DEF search_for_variable_in_block, SelectLastInSeq
<1>3. I # {} => Max(I) \in I /\ \A j \in I : j <= Max(I)
  BY <1>1, GreatestPlace
<1>4. \A j \in I : j \in DOMAIN l /\ j \in Nat /\ j # 0 /\ variables[l[j]].name = n
  BY <1>1
<1>5. \A j \in DOMAIN l : variables[l[j]].name = n => j \in I
  BY <1>1
<1> HIDE DEF I
<1>6. CASE I # {}
  <2> DEFINE i == Max(I)
  <2>1. i \in DOMAIN l /\ i \in Nat /\ i # 0 /\ variables[l[i]].name = n
    BY <1>3, <1>4, <1>6
  <2>2. \A j \in DOMAIN l : variables[l[j]].name = n => j <= i
    BY <1>3, <1>5, <1>6
  <2>3. search_for_variable_in_block(s, n) = i
    BY <1>2, <1>6
  <2> HIDE DEF i
  <2> QED BY <2>1, <2>2, <2>3
<1>7. CASE I = {}
  <2>1. search_for_variable_in_block(s, n) = 0
    BY <1>2, <1>7
  <2>2. \A j \in DOMAIN l : variables[l[j]].name # n
    BY <1>5, <1>7
  <2> QED BY <2>1, <2>2
<1> QED BY <1>6, <1>7

(* The kinds of symbols.                                                   *)
LEMMA SymbolFacts ==
    /\ \A v : Target(Local(v)) = v /\ Owner(Local(v)) = scopes[variables[v].block].function
    /\ \A f, i : Target(Upvalue(f, i)) = functions[f].upvalues[i] /\ Owner(Upvalue(f, i)) = f
    /\ \A v : Local(v) # NoSymbol /\ Local(v).type = "SYM_LOCAL" /\ Local(v).variable = v
    /\ \A f, i : /\ Upvalue(f, i) # NoSymbol /\ Upvalue(f, i).type = "SYM_UPVALUE"
                 /\ Upvalue(f, i).function = f /\ Upvalue(f, i).index = i
    /\ \A e : Global(e) # NoSymbol /\ Global(e).type = "SYM_GLOBAL" /\ Global(e).env = e
    /\ NoSymbol.type = "NULL"
<1>1. /\ \A v : Local(v).type = "SYM_LOCAL" /\ Local(v).variable = v
      /\ \A f, i : /\ Upvalue(f, i).type = "SYM_UPVALUE"
                   /\ Upvalue(f, i).function = f /\ Upvalue(f, i).index = i
      /\ \A e : Global(e).type = "SYM_GLOBAL" /\ Global(e).env = e
      /\ NoSymbol.type = "NULL"
  BY DEF Local, Upvalue, Global, NoSymbol
<1>2. /\ \A v : Target(Local(v)) = v /\ Owner(Local(v)) = scopes[variables[v].block].function
      /\ \A f, i : Target(Upvalue(f, i)) = functions[f].upvalues[i] /\ Owner(Upvalue(f, i)) = f
  BY <1>1 DEF Target, Owner
<1>3. /\ \A v : Local(v) # NoSymbol
      /\ \A f, i : Upvalue(f, i) # NoSymbol
      /\ \A e : Global(e) # NoSymbol
  BY <1>1
<1> QED BY <1>1, <1>2, <1>3

(* What is declared last stays so where the next frame does not declare it.    *)
LEMMA LatestFurther ==
    ASSUME NEW t, NEW q, NEW l \in Nat, NEW n, \A i : ~ Stands(t, q, n, l + 1, i)
    PROVE  /\ \A k, j : IsLatest(t, q, l, n, k, j) => IsLatest(t, q, l + 1, n, k, j)
           /\ Undeclared(t, q, l, n) => Undeclared(t, q, l + 1, n)
<1>1. ASSUME NEW k, NEW j, IsLatest(t, q, l, n, k, j)
      PROVE  IsLatest(t, q, l + 1, n, k, j)
  <2>1. k \in 1 .. l /\ k \in 1 .. l + 1 /\ Stands(t, q, n, k, j)
    BY <1>1 DEF IsLatest
  <2>2. ASSUME NEW m \in k .. l + 1, NEW i, Stands(t, q, n, m, i)
        PROVE  m = k /\ i <= j
    <3>1. m # l + 1
      BY <2>2
    <3>2. m \in k .. l
      BY <2>1, <3>1
    <3> QED BY <3>2, <2>2, <1>1 DEF IsLatest
  <2> QED BY <2>1, <2>2 DEF IsLatest
<1>2. ASSUME Undeclared(t, q, l, n)
      PROVE  Undeclared(t, q, l + 1, n)
  <2>1. \A m \in 1 .. l + 1 : m \in 1 .. l \/ m = l + 1
    OBVIOUS
  <2> QED BY <1>2, <2>1 DEF Undeclared
<1> QED BY <1>1, <1>2

(* Nor does the outcome change.                                            *)
LEMMA OutcomeFurther ==
    ASSUME NEW q, NEW n, NEW l \in Nat, NEW r, Outcome(q, n, l, r),
           \A i : ~ Stands(Tree, q, n, l + 1, i),
           IsRoot(Tree, q, l + 1) => NoUpvalueAt(q, n, l + 1)
    PROVE  Outcome(q, n, l + 1, r)
<1>1. CASE r = NoSymbol /\ Undeclared(Tree, q, l, n)
  BY <1>1, LatestFurther DEF Outcome
<1>2. CASE \E k, j, a : Resolved(q, n, l, r, k, j, a)
  <2>1. PICK k, j, a : Resolved(q, n, l, r, k, j, a)
    BY <1>2
  <2>2. a \in 2 .. l /\ a \in 2 .. l + 1
    BY <2>1 DEF Resolved
  <2>3. IsLatest(Tree, q, l + 1, n, k, j)
    BY <2>1, LatestFurther DEF Resolved
  <2>4. \A m \in a + 1 .. l + 1 : IsRoot(Tree, q, m) => NoUpvalueAt(q, n, m)
    <3>1. \A m \in a + 1 .. l + 1 : m \in a + 1 .. l \/ m = l + 1
      BY <2>2
    <3> QED BY <2>1, <3>1 DEF Resolved
  <2>5. Resolved(q, n, l + 1, r, k, j, a)
    BY <2>1, <2>2, <2>3, <2>4 DEF Resolved
  <2> QED BY <2>5 DEF Outcome
<1> QED BY <1>1, <1>2 DEF Outcome

(* One step of the search, from the outcome in the scope around.           *)
LEMMA SearchStep ==
    ASSUME Typed(Tree), Linked(Tree), NEW q, NEW c, IsPath(Tree, q, c), OuterOn(Tree, q),
           NEW n, NEW h, h[NULL] = NoSymbol, NEW l \in 2 .. Len(q),
           l > 2 => Outcome(q, n, l - 1, h[q[l - 1]])
    PROVE  Outcome(q, n, l, SearchAt(h, n, q[l]))
<1> DEFINE s == q[l]
           i == search_for_variable_in_block(s, n)
           f == scopes[s].function
           p == scopes[s].parent
           u == search_upvalue_in_function(functions, f, n)
           r == SearchAt(h, n, s)
<1>1. /\ s \in DOMAIN scopes /\ s # NULL /\ p = q[l - 1] /\ l \in Nat /\ l - 1 \in Nat
      /\ l \in 1 .. Len(q) /\ l - 1 \in 1 .. Len(q) /\ l >= 2 /\ l # 1 /\ (l - 1) + 1 = l
      /\ Len(q) \in Nat
  BY PathFacts, SMTT(30) DEF Tree
<1>2. Entries(Tree, s) = scopes[s].symbol_list
  BY <1>1 DEF Entries, Tree
<1>3. f = FunctionAt(Tree, q, l)
  BY DEF FunctionAt, Tree
<1>4. /\ i # 0 => r = Local(scopes[s].symbol_list[i])
      /\ i = 0 /\ p # NULL /\ scopes[p].function = f => r = h[p]
      /\ i = 0 /\ ~(p # NULL /\ scopes[p].function = f) /\ u # 0 => r = Upvalue(f, u)
      /\ i = 0 /\ ~(p # NULL /\ scopes[p].function = f) /\ u = 0 => r = h[p]
  BY <1>1 DEF SearchAt
<1>5. l > 2 <=> p # NULL
  <2>1. CASE l = 2
    <3>1. q[1] = NULL /\ l - 1 = 1
      BY <2>1, PathFacts
    <3> QED BY <3>1, <2>1, <1>1
  <2>2. CASE l # 2
    <3>1. l - 1 \in 2 .. Len(q) /\ l > 2
      BY <2>2, <1>1
    <3>2. q[l - 1] # NULL
      BY <3>1, PathFacts
    <3> QED BY <3>1, <3>2, <1>1
  <2> QED BY <2>1, <2>2
<1>6. IsRoot(Tree, q, l) <=> ~(p # NULL /\ scopes[p].function = f)
  BY <1>1, <1>3, <1>5 DEF IsRoot, FunctionAt, Tree
<1> HIDE DEF r
<1>7. CASE i # 0
  <2>1. /\ i \in DOMAIN scopes[s].symbol_list /\ i \in Nat
        /\ variables[scopes[s].symbol_list[i]].name = n
        /\ \A j \in DOMAIN scopes[s].symbol_list :
               variables[scopes[s].symbol_list[j]].name = n => j <= i
    BY <1>1, <1>7, LastInBlock
  <2> DEFINE v == Entries(Tree, s)[i]
  <2>2. v = scopes[s].symbol_list[i] /\ r = Local(v)
    BY <1>2, <1>4, <1>7
  <2>3. EntryAt(Tree, s, v)
    <3> HIDE DEF i
    <3>1. i \in DOMAIN Entries(Tree, q[l])
      BY <2>1, <1>2
    <3> QED BY <3>1, <1>1, EntriesFacts
  <2>4. variables[v].block = s
    BY <2>3, <1>1 DEF EntryAt, Tree
  <2>5. Target(r) = v /\ Owner(r) = f
    BY <2>2, <2>4, SymbolFacts
  <2> HIDE DEF i, v
  <2>6. Stands(Tree, q, n, l, i)
    BY <2>1, <1>2 DEF Stands, Tree
  <2>7. \A m \in l .. l : \A j : Stands(Tree, q, n, m, j) => m = l /\ j <= i
    <3>1. \A m \in l .. l : m = l
      BY <1>1
    <3>2. \A j : Stands(Tree, q, n, l, j) => j <= i
      BY <2>1, <1>2 DEF Stands, Tree
    <3> QED BY <3>1, <3>2
  <2>8. IsLatest(Tree, q, l, n, l, i)
    BY <2>6, <2>7, <1>1 DEF IsLatest
  <2>9. \A m \in l + 1 .. l : FALSE
    BY <1>1
  <2>10. Resolved(q, n, l, r, l, i, l)
    BY <2>1, <2>2, <2>5, <2>8, <2>9, <1>1, <1>3 DEF Resolved, v
  <2> QED BY <2>10 DEF Outcome, r
<1>8. ASSUME i = 0 PROVE \A j : ~ Stands(Tree, q, n, l, j)
  <2>1. \A j \in DOMAIN scopes[s].symbol_list : variables[scopes[s].symbol_list[j]].name # n
    BY <1>1, <1>8, LastInBlock
  <2> QED BY <2>1, <1>2 DEF Stands, Tree
<1>9. /\ f \in DOMAIN functions /\ functions[f].upvalues \in Seq(Nat)
  <2>1. f \in DOMAIN functions
    BY <1>1 DEF Linked, ScopesLinked, Tree
  <2>2. functions[f] \in FunctionType
    BY <2>1 DEF Typed, Tree
  <2> QED BY <2>1, <2>2 DEF FunctionType
<1>10. /\ u # 0 => u \in DOMAIN functions[f].upvalues /\ variables[functions[f].upvalues[u]].name = n
       /\ (\E v \in ToSet(functions[f].upvalues) : variables[v].name = n) => u # 0
  BY <1>9, FoundInFunction
<1>11. u = 0 => NoUpvalueAt(q, n, l)
  BY <1>3, <1>10 DEF NoUpvalueAt
<1> HIDE DEF i, u
<1>12. CASE i = 0 /\ IsRoot(Tree, q, l) /\ u # 0
  <2>1. r = Upvalue(f, u)
    BY <1>4, <1>6, <1>12
  <2> DEFINE v == functions[f].upvalues[u]
  <2>2. v \in ToSet(functions[f].upvalues) /\ variables[v].name = n
    BY <1>10, <1>12 DEF ToSet
  <2>3. DeclaredLast(Tree, q, l - 1, v)
    BY <2>2, <1>3, <1>12 DEF OuterOn, Tree
  <2>4. PICK k \in 1 .. l - 1, j \in Nat :
            IsLatest(Tree, q, l - 1, n, k, j) /\ Entries(Tree, q[k])[j] = v
    BY <2>2, <2>3, Zenon DEF DeclaredLast, Tree
  <2>5. IsLatest(Tree, q, l, n, k, j)
    BY <2>4, <1>1, <1>8, <1>12, LatestFurther
  <2>6. Target(r) = v /\ Owner(r) = f
    BY <2>1, SymbolFacts
  <2> HIDE DEF v
  <2>7. \A m \in l + 1 .. l : FALSE
    BY <1>1
  <2>8. k \in 1 .. l /\ k < l
    BY <1>1
  <2>9. \E w \in DOMAIN functions[f].upvalues : r = Upvalue(f, w)
    BY <2>1, <1>10, <1>12
  <2>10. Resolved(q, n, l, r, k, j, l)
    BY <2>4, <2>5, <2>6, <2>7, <2>8, <2>9, <1>1, <1>3, <1>12 DEF Resolved
  <2> QED BY <2>10 DEF Outcome, r
<1>13. CASE i = 0 /\ ~(IsRoot(Tree, q, l) /\ u # 0)
  <2>1. r = h[p] /\ (IsRoot(Tree, q, l) => NoUpvalueAt(q, n, l)) /\ (IsRoot(Tree, q, l) => u = 0)
    BY <1>4, <1>6, <1>11, <1>13
  <2>2. CASE l > 2
    <3>1. Outcome(q, n, l - 1, r)
      BY <2>1, <2>2, <1>1
    <3>2. Outcome(q, n, (l - 1) + 1, r)
      BY <3>1, <2>1, <1>1, <1>8, <1>13, OutcomeFurther
    <3> QED BY <3>2, <1>1 DEF r
  <2>3. CASE ~(l > 2)
    <3>1. l = 2 /\ p = NULL /\ r = NoSymbol
      BY <2>1, <2>3, <1>1, <1>5
    <3>2. u = 0
      BY <2>1, <3>1 DEF IsRoot
    <3>3. f = 1
      BY <3>1, <1>1 DEF Linked, ScopesLinked, Tree
    <3>4. 1 \in ToSet(functions[1].upvalues) /\ variables[1].name = ENV
      BY DEF Linked, FunctionsLinked, VariablesLinked, Tree
    <3>5. n # ENV
      BY <3>2, <3>3, <3>4, <1>10
    <3>6. Entries(Tree, q[1]) = <<1>>
      BY <1>1, EntriesFacts
    <3>7. Undeclared(Tree, q, 1, n)
      BY <3>4, <3>5, <3>6 DEF Undeclared, Stands, Tree
    <3>8. Undeclared(Tree, q, 1 + 1, n)
      BY <3>1, <3>7, <1>8, <1>13, LatestFurther, SMTT(30)
    <3>9. Undeclared(Tree, q, l, n)
      BY <3>1, <3>8
    <3> QED BY <3>1, <3>9 DEF Outcome, r
  <2> QED BY <2>2, <2>3
<1> QED BY <1>7, <1>12, <1>13 DEF r

(* The search finds the last declaration, as a local or as an upvalue of   *)
(* some function on the path.                                              *)
LEMMA SearchPlace ==
    ASSUME Typed(Tree), Linked(Tree), NEW q, IsPath(Tree, q, current_scope), OuterOn(Tree, q), NEW n
    PROVE  Outcome(q, n, Len(q), search_for_variable(n))
<1> DEFINE h == CHOOSE h : IsSearch(h, n, Len(scopes))
           S == {l \in 2 .. Len(q) : Outcome(q, n, l, h[q[l]])}
<1>1. IsSearch(h, n, Len(scopes))
  BY SearchDefined DEF Linked
<1>2. search_for_variable(n) = h[current_scope]
  BY SearchIs
<1> HIDE DEF h
<1>3. \A s \in 0 .. Len(scopes) : h[s] = SearchAt(h, n, s)
  BY <1>1 DEF IsSearch
<1>4. /\ Len(q) \in Nat /\ Len(q) >= 2 /\ q[Len(q)] = current_scope
      /\ \A l \in 1 .. Len(q) : q[l] \in 0 .. Len(scopes)
      /\ Len(scopes) \in Nat
  BY PathFacts DEF Tree
<1>5. h[NULL] = NoSymbol
  BY <1>3, <1>4 DEF SearchAt, NULL
<1>6. ASSUME NEW l \in 2 .. Len(q), l > 2 => Outcome(q, n, l - 1, h[q[l - 1]])
      PROVE  Outcome(q, n, l, h[q[l]])
  <2>1. Outcome(q, n, l, SearchAt(h, n, q[l]))
    BY <1>5, <1>6, SearchStep
  <2>2. q[l] \in 0 .. Len(scopes)
    BY <1>4
  <2> QED BY <2>1, <2>2, <1>3
<1>7. 2 \in S
  <2>1. 2 \in 2 .. Len(q) /\ ~(2 > 2)
    BY <1>4
  <2> QED BY <2>1, <1>6
<1>8. \A l \in 2 .. Len(q) : l < Len(q) /\ l \in S => l + 1 \in S
  <2> SUFFICES ASSUME NEW l \in 2 .. Len(q), l < Len(q), l \in S PROVE l + 1 \in S
    OBVIOUS
  <2>1. l + 1 \in 2 .. Len(q) /\ (l + 1) - 1 = l
    BY <1>4
  <2>2. Outcome(q, n, l + 1, h[q[l + 1]])
    BY <2>1, <1>6
  <2> QED BY <2>1, <2>2
<1>9. \A l \in 2 .. Len(q) : l \in S
  <2>1. 2 \in Nat
    OBVIOUS
  <2> HIDE DEF S
  <2> QED BY <1>4, <1>7, <1>8, <2>1, Along
<1>10. Len(q) \in S
  <2>1. Len(q) \in 2 .. Len(q)
    BY <1>4
  <2> HIDE DEF S
  <2> QED BY <2>1, <1>9
<1> QED BY <1>2, <1>4, <1>10

-----------------------------------------------------------------------------
(* The functions on a path: each one's parent is the function around it, so    *)
(* that they all differ.                                                   *)

(* A function on the path lies in the function before it.                  *)
Rooted(t, q, m) ==
    /\ FunctionAt(t, q, m - 1) \in DOMAIN t.functions
    /\ t.functions[FunctionAt(t, q, m)].parent = FunctionAt(t, q, m - 1)
    /\ FunctionAt(t, q, m - 1) < FunctionAt(t, q, m)
    /\ FunctionAt(t, q, m) # 1

(* The functions along a path.                                             *)
LEMMA FunctionsAlong ==
    ASSUME NEW t, Typed(t), Linked(t), Parents(t), NEW q, NEW c, IsPath(t, q, c)
    PROVE  /\ \A l \in 2 .. Len(q) : /\ FunctionAt(t, q, l) \in DOMAIN t.functions
                                     /\ FunctionAt(t, q, l) \in Nat /\ FunctionAt(t, q, l) # NULL
           /\ \A m \in 3 .. Len(q) : IsRoot(t, q, m) => Rooted(t, q, m)
<1>1. ASSUME NEW l \in 2 .. Len(q)
      PROVE  /\ FunctionAt(t, q, l) \in DOMAIN t.functions
             /\ FunctionAt(t, q, l) \in Nat /\ FunctionAt(t, q, l) # NULL
             /\ q[l] \in DOMAIN t.scopes /\ q[l] # NULL /\ t.scopes[q[l]].parent = q[l - 1]
  <2>1. q[l] \in DOMAIN t.scopes /\ q[l] # NULL /\ t.scopes[q[l]].parent = q[l - 1]
    BY PathFacts
  <2>2. FunctionAt(t, q, l) \in DOMAIN t.functions
    BY <2>1 DEF FunctionAt, Linked, ScopesLinked
  <2>3. DOMAIN t.functions = 1 .. Len(t.functions) /\ Len(t.functions) \in Nat
    BY DEF Typed
  <2> QED BY <2>1, <2>2, <2>3 DEF NULL
<1>2. ASSUME NEW m \in 3 .. Len(q), IsRoot(t, q, m)
      PROVE  Rooted(t, q, m)
  <2>1. m - 1 \in 2 .. Len(q) /\ m \in 2 .. Len(q) /\ m # 2
    BY PathFacts
  <2>2. FunctionAt(t, q, m - 1) # FunctionAt(t, q, m)
    BY <1>2, <2>1 DEF IsRoot
  <2>3. q[m - 1] # NULL /\ t.scopes[q[m]].parent = q[m - 1] /\ q[m] \in DOMAIN t.scopes
    BY <1>1, <2>1
  <2>4. t.functions[FunctionAt(t, q, m)].parent = FunctionAt(t, q, m - 1)
    BY <2>2, <2>3 DEF Parents, FunctionAt
  <2>5. /\ FunctionAt(t, q, m) \in DOMAIN t.functions /\ FunctionAt(t, q, m) \in Nat
        /\ FunctionAt(t, q, m - 1) \in DOMAIN t.functions /\ FunctionAt(t, q, m - 1) \in Nat
        /\ FunctionAt(t, q, m - 1) # 0
    BY <1>1, <2>1 DEF NULL
  <2>6. t.functions[FunctionAt(t, q, m)].parent \in 0 .. FunctionAt(t, q, m) - 1
    BY <2>5 DEF Linked, FunctionsLinked
  <2>7. FunctionAt(t, q, m - 1) < FunctionAt(t, q, m) /\ FunctionAt(t, q, m) # 1
    BY <2>4, <2>5, <2>6
  <2> QED BY <2>4, <2>5, <2>7 DEF Rooted
<1> QED BY <1>1, <1>2

(* Function numbers grow along a path, and change only where a function    *)
(* begins.                                                                 *)
RootsFrom(t, q, k, l) ==
    /\ FunctionAt(t, q, k) <= FunctionAt(t, q, l)
    /\ \A m \in k + 1 .. l : IsRoot(t, q, m) => FunctionAt(t, q, k) < FunctionAt(t, q, l)
    /\ FunctionAt(t, q, k) # FunctionAt(t, q, l) =>
           \E m \in k + 1 .. l : IsRoot(t, q, m) /\ FunctionAt(t, q, m) = FunctionAt(t, q, l)

(* So it is between any two positions.                                     *)
LEMMA RootsBetween ==
    ASSUME NEW t, Typed(t), Linked(t), Parents(t), NEW q, NEW c, IsPath(t, q, c),
           NEW k \in 2 .. Len(q)
    PROVE  \A l \in k .. Len(q) : RootsFrom(t, q, k, l)
<1> DEFINE F(l) == FunctionAt(t, q, l)
           S == {l \in k .. Len(q) : RootsFrom(t, q, k, l)}
<1>1. /\ \A l \in 2 .. Len(q) : F(l) \in Nat
      /\ \A m \in 3 .. Len(q) : IsRoot(t, q, m) => F(m - 1) < F(m)
      /\ Len(q) \in Nat
  BY FunctionsAlong, PathFacts DEF Rooted
<1>2. k \in S
  <2>1. F(k) \in Nat /\ (\A m \in k + 1 .. k : FALSE) /\ k \in k .. Len(q)
    BY <1>1
  <2> HIDE DEF F
  <2> QED BY <2>1 DEF RootsFrom, F
<1>3. \A l \in k .. Len(q) : l < Len(q) /\ l \in S => l + 1 \in S
  <2> SUFFICES ASSUME NEW l \in k .. Len(q), l < Len(q), l \in S PROVE l + 1 \in S
    OBVIOUS
  <2>1. /\ l + 1 \in k .. Len(q) /\ l + 1 \in 3 .. Len(q) /\ l \in 2 .. Len(q) /\ l + 1 \in 2 .. Len(q)
        /\ (l + 1) - 1 = l /\ l + 1 # 2 /\ l + 1 \in k + 1 .. l + 1 /\ k \in Nat /\ l \in Nat
        /\ \A m \in k + 1 .. l + 1 : m \in k + 1 .. l \/ m = l + 1
        /\ \A m \in k + 1 .. l : m \in k + 1 .. l + 1
    BY <1>1
  <2>2. /\ F(k) <= F(l)
        /\ \A m \in k + 1 .. l : IsRoot(t, q, m) => F(k) < F(l)
        /\ F(k) # F(l) => \E m \in k + 1 .. l : IsRoot(t, q, m) /\ F(m) = F(l)
    BY DEF RootsFrom
  <2>3. F(k) \in Nat /\ F(l) \in Nat /\ F(l + 1) \in Nat
    BY <1>1, <2>1
  <2>4. CASE IsRoot(t, q, l + 1)
    <3>1. F(l) < F(l + 1)
      BY <1>1, <2>1, <2>4
    <3> HIDE DEF F
    <3>2. F(k) < F(l + 1) /\ F(k) <= F(l + 1)
      BY <3>1, <2>2, <2>3
    <3>3. \E m \in k + 1 .. l + 1 : IsRoot(t, q, m) /\ F(m) = F(l + 1)
      BY <2>1, <2>4
    <3>4. RootsFrom(t, q, k, l + 1)
      BY <3>2, <3>3 DEF RootsFrom, F
    <3> QED BY <3>4, <2>1
  <2>5. CASE ~ IsRoot(t, q, l + 1)
    <3>1. F(l + 1) = F(l)
      BY <2>1, <2>5 DEF IsRoot
    <3> HIDE DEF F
    <3>2. \A m \in k + 1 .. l + 1 : IsRoot(t, q, m) => F(k) < F(l + 1)
      BY <2>1, <2>2, <2>5, <3>1
    <3>3. F(k) # F(l + 1) => \E m \in k + 1 .. l + 1 : IsRoot(t, q, m) /\ F(m) = F(l + 1)
      BY <2>1, <2>2, <3>1
    <3>4. RootsFrom(t, q, k, l + 1)
      BY <2>2, <3>1, <3>2, <3>3 DEF RootsFrom, F
    <3> QED BY <3>4, <2>1
  <2> QED BY <2>4, <2>5
<1>4. \A l \in k .. Len(q) : l \in S
  <2>1. k \in Nat
    BY <1>1
  <2> HIDE DEF S
  <2> QED BY <1>1, <1>2, <1>3, <2>1, Along
<1> QED BY <1>4

(* The functions that come to have v as an upvalue: those on the path from the *)
(* owner at position a inwards, each one in a function that has it.        *)
GetsFrom(q, a, v, fs, m) ==
    \/ FunctionAt(Tree, q, m - 1) \in fs \cup {FunctionAt(Tree, q, a)}
    \/ v \in ToSet(functions[FunctionAt(Tree, q, m - 1)].upvalues)

(* The functions that get the upvalue lie on the path, inwards of its      *)
(* owner.                                                                  *)
LevelsOn(q, a, l, v, fs) ==
    \A g \in fs : \E m \in a + 1 .. l :
        IsRoot(Tree, q, m) /\ FunctionAt(Tree, q, m) = g /\ GetsFrom(q, a, v, fs, m)

(* So it is for those the code gives it to.                                *)
LEMMA LevelsPlace ==
    ASSUME Typed(Tree), Linked(Tree), Parents(Tree), NEW q, NEW c, IsPath(Tree, q, c),
           NEW a \in 2 .. Len(q), NEW l \in a .. Len(q), NEW v
    PROVE  LevelsOn(q, a, l, v, add_upvalue_in_levels_upto(FunctionAt(Tree, q, l), FunctionAt(Tree, q, a), v))
<1> DEFINE F(m) == FunctionAt(Tree, q, m)
           h == CHOOSE h : IsLevels(h, F(a), v, Len(functions))
           S == {m \in a .. Len(q) : LevelsOn(q, a, m, v, h[F(m)])}
<1>1. IsLevels(h, F(a), v, Len(functions))
  <2> HIDE DEF F
  <2> QED BY LevelsDefined DEF Linked
<1>2. \A f : add_upvalue_in_levels_upto(f, F(a), v) = h[f]
  BY LevelsIs
<1> HIDE DEF h
<1>3. \A g \in 0 .. Len(functions) : h[g] = LevelAt(h, F(a), v, g)
  <2> HIDE DEF F
  <2> QED BY <1>1 DEF IsLevels
<1>4. /\ Len(q) \in Nat
      /\ \A m \in 2 .. Len(q) : F(m) \in 0 .. Len(functions) /\ F(m) # NULL /\ F(m) \in DOMAIN functions
      /\ \A m \in 3 .. Len(q) : IsRoot(Tree, q, m) => functions[F(m)].parent = F(m - 1)
  <2>1. DOMAIN functions = 1 .. Len(functions) /\ Len(functions) \in Nat
    BY DEF Typed, Tree
  <2>2. /\ \A m \in 2 .. Len(q) : F(m) \in DOMAIN functions /\ F(m) # NULL
        /\ \A m \in 3 .. Len(q) : IsRoot(Tree, q, m) => functions[F(m)].parent = F(m - 1)
    BY FunctionsAlong DEF Rooted, Tree
  <2> HIDE DEF F
  <2> QED BY <2>1, <2>2, PathFacts
<1>5. a \in S
  <2>1. a \in 2 .. Len(q) /\ a \in a .. Len(q)
    BY <1>4
  <2>2. h[F(a)] = LevelAt(h, F(a), v, F(a))
    BY <1>3, <1>4
  <2> HIDE DEF F
  <2>3. h[F(a)] = {}
    BY <2>2 DEF LevelAt
  <2>4. LevelsOn(q, a, a, v, h[F(a)])
    BY <2>3 DEF LevelsOn
  <2> QED BY <2>1, <2>4
<1>6. \A m \in a .. Len(q) : m < Len(q) /\ m \in S => m + 1 \in S
  <2> SUFFICES ASSUME NEW m \in a .. Len(q), m < Len(q), m \in S PROVE m + 1 \in S
    OBVIOUS
  <2>1. /\ m + 1 \in a .. Len(q) /\ m + 1 \in 3 .. Len(q) /\ m \in 2 .. Len(q) /\ m + 1 \in 2 .. Len(q)
        /\ (m + 1) - 1 = m /\ m + 1 # 2 /\ m + 1 \in a + 1 .. m + 1
        /\ \A i \in a + 1 .. m : i \in a + 1 .. m + 1
    BY <1>4
  <2>2. ASSUME NEW g \in h[F(m)]
        PROVE  \E i \in a + 1 .. m + 1 : IsRoot(Tree, q, i) /\ F(i) = g /\ GetsFrom(q, a, v, h[F(m)], i)
    <3>1. \E i \in a + 1 .. m : IsRoot(Tree, q, i) /\ F(i) = g /\ GetsFrom(q, a, v, h[F(m)], i)
      BY <2>2 DEF LevelsOn
    <3> HIDE DEF F
    <3> QED BY <3>1, <2>1
  <2>3. CASE ~ IsRoot(Tree, q, m + 1)
    <3>1. F(m + 1) = F(m)
      BY <2>1, <2>3 DEF IsRoot
    <3>2. LevelsOn(q, a, m + 1, v, h[F(m)])
      BY <2>2 DEF LevelsOn
    <3> HIDE DEF F
    <3> QED BY <2>1, <3>1, <3>2
  <2>4. CASE IsRoot(Tree, q, m + 1)
    <3>1. functions[F(m + 1)].parent = F(m)
      BY <1>4, <2>1, <2>4
    <3>2. h[F(m)] = LevelAt(h, F(a), v, F(m)) /\ h[F(m + 1)] = LevelAt(h, F(a), v, F(m + 1))
      BY <1>3, <1>4, <2>1
    <3>3. F(m) # NULL /\ F(m + 1) # NULL /\ F(m) \in DOMAIN functions
      BY <1>4, <2>1
    <3>4. h[F(m + 1)] = {} \/ h[F(m + 1)] = {F(m + 1)} \cup h[F(m)]
      <4> HIDE DEF F
      <4> QED BY <3>1, <3>2 DEF LevelAt
    <3>5. F(m) = F(a) \/ F(m) \in h[F(m)] \/ v \in ToSet(functions[F(m)].upvalues)
      <4>1. F(m) = F(a) \/ F(m) \in h[F(m)] \/ upvalue_of_variable(F(m), v) # 0
        <5> HIDE DEF F
        <5> QED BY <3>2, <3>3 DEF LevelAt
      <4>2. functions[F(m)].upvalues \in Seq(Nat)
        <5>1. functions[F(m)] \in FunctionType
          <6> HIDE DEF F
          <6> QED BY <3>3 DEF Typed, Tree
        <5> QED BY <5>1 DEF FunctionType
      <4> HIDE DEF F
      <4> QED BY <4>1, <4>2, FoundVariable
    <3>6. CASE h[F(m + 1)] = {}
      <4>1. LevelsOn(q, a, m + 1, v, h[F(m + 1)])
        <5> HIDE DEF F
        <5> QED BY <3>6 DEF LevelsOn
      <4> QED BY <4>1, <2>1
    <3>7. CASE h[F(m + 1)] = {F(m + 1)} \cup h[F(m)]
      <4>1. ASSUME NEW g \in h[F(m)]
            PROVE  \E i \in a + 1 .. m + 1 :
                       IsRoot(Tree, q, i) /\ F(i) = g /\ GetsFrom(q, a, v, h[F(m + 1)], i)
        <5>1. PICK i \in a + 1 .. m + 1 : IsRoot(Tree, q, i) /\ F(i) = g /\ GetsFrom(q, a, v, h[F(m)], i)
          BY <2>2, <4>1
        <5>2. GetsFrom(q, a, v, h[F(m + 1)], i)
          BY <5>1, <3>7 DEF GetsFrom
        <5> QED BY <5>1, <5>2
      <4>2. GetsFrom(q, a, v, h[F(m + 1)], m + 1)
        BY <3>5, <3>7, <2>1 DEF GetsFrom
      <4>3. \E i \in a + 1 .. m + 1 :
                IsRoot(Tree, q, i) /\ F(i) = F(m + 1) /\ GetsFrom(q, a, v, h[F(m + 1)], i)
        BY <2>1, <2>4, <4>2
      <4>4. LevelsOn(q, a, m + 1, v, h[F(m + 1)])
        BY <4>1, <4>3, <3>7 DEF LevelsOn
      <4> QED BY <4>4, <2>1
    <3> QED BY <3>4, <3>6, <3>7
  <2> QED BY <2>3, <2>4
<1>7. \A m \in a .. Len(q) : m \in S
  <2>1. a \in Nat
    BY <1>4
  <2> HIDE DEF S
  <2> QED BY <1>4, <1>5, <1>6, <2>1, Along
<1>8. l \in S
  <2> HIDE DEF S
  <2> QED BY <1>7
<1> QED BY <1>2, <1>8

-----------------------------------------------------------------------------
(* A reference: what the symbol means, and how the tree changes.           *)

(* What giving the upvalue v to the functions fs changes.                  *)
LEMMA AddFacts ==
    ASSUME Typed(Tree), NEW fs, NEW v \in DOMAIN variables
    PROVE  LET t == add_upvalue_in_function(fs, v)
           IN  /\ \A g \in DOMAIN functions :
                      t.functions[g].upvalues = IF g \in fs THEN Append(functions[g].upvalues, v)
                                                ELSE functions[g].upvalues
               /\ \A w \in DOMAIN variables :
                      t.variables[w].escaped <=>
                          variables[w].escaped \/ (w = v /\ fs # {} /\ variables[v].block # NULL)
<1> DEFINE t == add_upvalue_in_function(fs, v)
           block == variables[v].block
           esc == fs # {} /\ block # NULL
<1>1. /\ \A g \in DOMAIN functions : functions[g] \in FunctionType
      /\ \A w \in DOMAIN variables : variables[w] \in VariableType
  BY DEF Typed, Tree
<1>2. t.functions = [g \in DOMAIN functions |->
             [functions[g] EXCEPT
                 !.upvalues = IF g \in fs THEN Append(@, v) ELSE @,
                 !.need_close = @ \/ (esc /\ g = scopes[block].function)]]
  BY DEF add_upvalue_in_function
<1>3. t.variables = [variables EXCEPT ![v].escaped = @ \/ esc]
  BY DEF add_upvalue_in_function
<1> HIDE DEF t
<1>4. ASSUME NEW g \in DOMAIN functions
      PROVE  t.functions[g].upvalues = IF g \in fs THEN Append(functions[g].upvalues, v)
                                       ELSE functions[g].upvalues
  <2> DEFINE l == functions[g].upvalues
             l2 == IF g \in fs THEN Append(l, v) ELSE l
             c == functions[g].need_close \/ (esc /\ g = scopes[block].function)
  <2>1. functions[g] = [parent |-> functions[g].parent, upvalues |-> l, need_close |-> functions[g].need_close]
    BY <1>1 DEF FunctionType
  <2>2. t.functions[g] = [functions[g] EXCEPT !.upvalues = l2, !.need_close = c]
    BY <1>2, Zenon
  <2> HIDE DEF l2, c
  <2>3. t.functions[g].upvalues = l2
    <3> HIDE DEF l
    <3> QED BY <2>1, <2>2
  <2> QED BY <2>3 DEF l2
<1>5. ASSUME NEW w \in DOMAIN variables
      PROVE  t.variables[w].escaped <=> variables[w].escaped \/ (w = v /\ esc)
  <2>1. variables[w] \in VariableType
    BY <1>1
  <2> HIDE DEF esc
  <2>2. CASE w = v
    <3>1. t.variables[v] = [variables[v] EXCEPT !.escaped = @ \/ esc]
      BY <1>3
    <3>2. t.variables[v].escaped = (variables[v].escaped \/ esc)
      BY <3>1, <2>1, <2>2 DEF VariableType
    <3> QED BY <3>2, <2>2
  <2>3. CASE w # v
    <3>1. t.variables[w] = variables[w]
      BY <1>3, <2>3
    <3> QED BY <3>1, <2>3
  <2> QED BY <2>2, <2>3
<1> QED BY <1>4, <1>5 DEF t

(* The tree keeps its shape.                                               *)
SameShape(t, u) ==
    /\ DOMAIN u.functions = DOMAIN t.functions
    /\ DOMAIN u.scopes = DOMAIN t.scopes
    /\ DOMAIN u.variables = DOMAIN t.variables
    /\ \A s \in DOMAIN t.scopes : u.scopes[s].symbol_list = t.scopes[s].symbol_list

(* A function begins between position k and the end.                       *)
InnerRoot(t, q, k) == \E m \in k + 1 .. Len(q) : IsRoot(t, q, m)

(* v is marked when it is used from a function further in.                 *)
Escapes(t, u, q, k, v) ==
    \A w \in DOMAIN t.variables :
        u.variables[w].escaped <=> t.variables[w].escaped \/ (w = v /\ v # 1 /\ InnerRoot(t, q, k))

(* The function at m gets v, which the one around it owns or has.          *)
GainsAt(t, u, q, k, v, m) ==
    /\ m \in k + 1 .. Len(q) /\ m \in 3 .. Len(q) /\ IsRoot(t, q, m)
    /\ \/ OwnedBy(t, v, FunctionAt(t, q, m - 1))
       \/ v \in ToSet(u.functions[FunctionAt(t, q, m - 1)].upvalues)

(* Functions get v as an upvalue, or nothing.                              *)
Gains(t, u, q, k, v) ==
    \A f \in DOMAIN t.functions :
        \/ u.functions[f].upvalues = t.functions[f].upvalues
        \/ /\ u.functions[f].upvalues = Append(t.functions[f].upvalues, v)
           /\ \E m : GainsAt(t, u, q, k, v, m) /\ FunctionAt(t, q, m) = f

(* A symbol through which a closure reaches v.                             *)
Reaches(t, s, v) ==
    \/ s = Local(v)
    \/ \E f \in DOMAIN t.functions : \E i \in DOMAIN t.functions[f].upvalues :
           s = Upvalue(f, i) /\ t.functions[f].upvalues[i] = v

(* The tree and the symbol after a reference to v, declared in the k-th    *)
(* frame.                                                                  *)
Referred(u, q, k, v, s) ==
    /\ SameShape(Tree, u) /\ Escapes(Tree, u, q, k, v) /\ Gains(Tree, u, q, k, v)
    /\ Reaches(u, s, v)

(* Where the variable belongs to the current function, or is an upvalue there. *)
LEMMA ReferredHere ==
    ASSUME TreeOK(Tree), Parents(Tree), NEW q, IsPath(Tree, q, current_scope), OuterOn(Tree, q),
           current_function = FunctionAt(Tree, q, Len(q)),
           NEW n, NEW s, NEW k, NEW j, NEW a, Resolved(q, n, Len(q), s, k, j, a),
           Owner(s) = current_function
    PROVE  Referred(Tree, q, k, Entries(Tree, q[k])[j], s)
<1> DEFINE v == Entries(Tree, q[k])[j]
           F(l) == FunctionAt(Tree, q, l)
<1>1. /\ Typed(Tree) /\ Linked(Tree) /\ Len(q) \in Nat /\ Len(q) >= 2
  BY PathFacts DEF TreeOK
<1>2. /\ k \in 1 .. a /\ j \in Nat /\ a \in 2 .. Len(q)
      /\ Target(s) = v /\ Owner(s) = F(a) /\ Stands(Tree, q, n, k, j)
      /\ \/ s = Local(v) /\ k = a
         \/ k < a /\ IsRoot(Tree, q, a) /\ \E i \in DOMAIN functions[F(a)].upvalues : s = Upvalue(F(a), i)
  BY DEF Resolved, IsLatest
<1>3. F(a) = F(Len(q))
  BY <1>2
<1>4. SameShape(Tree, Tree) /\ Gains(Tree, Tree, q, k, v)
  BY DEF SameShape, Gains
<1>5. CASE s = Local(v) /\ k = a
  <2>1. a \in 2 .. Len(q) /\ Len(q) \in a .. Len(q)
    BY <1>1, <1>2
  <2>2. RootsFrom(Tree, q, a, Len(q))
    BY <2>1, <1>1, RootsBetween
  <2>3. F(a) \in Nat
    BY <1>1, <1>2, FunctionsAlong
  <2>4. ~ InnerRoot(Tree, q, k)
    BY <1>3, <1>5, <2>2, <2>3 DEF RootsFrom, InnerRoot
  <2> HIDE DEF v
  <2>5. Escapes(Tree, Tree, q, k, v)
    BY <2>4 DEF Escapes
  <2>6. Reaches(Tree, s, v)
    BY <1>5 DEF Reaches
  <2> QED BY <1>4, <2>5, <2>6 DEF Referred, v
<1>6. CASE k < a /\ IsRoot(Tree, q, a) /\ \E i \in DOMAIN functions[F(a)].upvalues : s = Upvalue(F(a), i)
  <2>1. PICK i \in DOMAIN functions[F(a)].upvalues : s = Upvalue(F(a), i)
    BY <1>6
  <2>2. F(a) \in DOMAIN functions
    BY <1>1, <1>2, FunctionsAlong DEF Tree
  <2>3. functions[F(a)].upvalues[i] = v
    BY <2>1, <1>2, SymbolFacts
  <2>4. v \in ToSet(functions[F(a)].upvalues)
    BY <2>3 DEF ToSet
  <2> HIDE DEF v, F
  <2>5. v \in DOMAIN variables
    BY <2>2, <2>4, <1>1 DEF Linked, FunctionsLinked, Tree
  <2>6. v # 1 => variables[v].escaped
    BY <2>2, <2>4, <2>5 DEF TreeOK, Marked, VariablesMarked, IsCaptured, Locals, Tree
  <2>7. Escapes(Tree, Tree, q, k, v)
    BY <2>6 DEF Escapes, Tree
  <2>8. Reaches(Tree, s, v)
    BY <2>1, <2>2, <2>3 DEF Reaches, Tree
  <2> QED BY <1>4, <2>7, <2>8 DEF Referred, v
<1> QED BY <1>2, <1>5, <1>6

(* Where functions on the path have to get it first.                       *)
LEMMA ReferredOutside ==
    ASSUME TreeOK(Tree), Parents(Tree), NEW q, IsPath(Tree, q, current_scope), OuterOn(Tree, q),
           current_function = FunctionAt(Tree, q, Len(q)),
           NEW n, NEW s, NEW k, NEW j, NEW a, Resolved(q, n, Len(q), s, k, j, a),
           Owner(s) # current_function
    PROVE  Referred(Reached(s, n).tree, q, k, Entries(Tree, q[k])[j], Reached(s, n).symbol)
<1> DEFINE v == Entries(Tree, q[k])[j]
           F(l) == FunctionAt(Tree, q, l)
           fs == add_upvalue_in_levels_upto(current_function, Owner(s), v)
           t == add_upvalue_in_function(fs, v)
           u == search_upvalue_in_function(t.functions, current_function, n)
<1>1. /\ Typed(Tree) /\ Linked(Tree) /\ Len(q) \in Nat /\ Len(q) >= 2
  BY PathFacts DEF TreeOK
<1>2. /\ k \in 1 .. a /\ j \in Nat /\ a \in 2 .. Len(q)
      /\ Target(s) = v /\ Owner(s) = F(a) /\ Stands(Tree, q, n, k, j)
      /\ \/ s = Local(v) /\ k = a
         \/ k < a /\ IsRoot(Tree, q, a) /\ \E i \in DOMAIN functions[F(a)].upvalues : s = Upvalue(F(a), i)
      /\ \A m \in a + 1 .. Len(q) : IsRoot(Tree, q, m) => NoUpvalueAt(q, n, m)
  BY DEF Resolved, IsLatest
<1>3. /\ k \in 1 .. Len(q) /\ a \in Nat /\ k \in Nat /\ k <= a /\ Len(q) \in a .. Len(q)
  BY <1>1, <1>2
<1>4. current_function = F(Len(q)) /\ F(a) # F(Len(q))
  BY <1>2
<1>5. j \in DOMAIN Entries(Tree, q[k]) /\ variables[v].name = n
  BY <1>2 DEF Stands, Tree
<1>6. EntryAt(Tree, q[k], v)
  BY <1>1, <1>3, <1>5, EntriesFacts
<1>7. /\ v \in DOMAIN variables
      /\ v = 1 \/ InScope(Tree, v)
      /\ v = 1 <=> variables[v].block = NULL
  <2>1. v \in DOMAIN variables
    BY <1>6 DEF EntryAt, Tree
  <2>2. CASE q[k] = NULL
    <3>1. v = 1
      BY <1>6, <2>2 DEF EntryAt
    <3>2. variables[1].block = NULL
      BY <1>1 DEF Linked, VariablesLinked, Tree
    <3> HIDE DEF v
    <3> QED BY <2>1, <3>1, <3>2
  <2>3. CASE q[k] # NULL
    <3>1. v # 1 /\ variables[v].block = q[k]
      BY <1>6, <2>3 DEF EntryAt, Tree
    <3>2. v \in ToSet(scopes[q[k]].symbol_list)
      BY <1>5, <2>3 DEF Entries, ToSet, Tree
    <3> HIDE DEF v
    <3>3. InScope(Tree, v)
      BY <2>1, <3>1, <3>2 DEF InScope, Locals, Tree
    <3> QED BY <2>1, <2>3, <3>1, <3>3
  <2> QED BY <2>2, <2>3
<1>8. PICK r \in a + 1 .. Len(q) : IsRoot(Tree, q, r) /\ F(r) = F(Len(q))
  <2>1. RootsFrom(Tree, q, a, Len(q))
    BY <1>1, <1>2, <1>3, RootsBetween
  <2> QED BY <2>1, <1>4 DEF RootsFrom
<1>9. InnerRoot(Tree, q, k)
  <2>1. r \in k + 1 .. Len(q)
    BY <1>3
  <2> QED BY <2>1, <1>8 DEF InnerRoot
<1> HIDE DEF v
<1>10. \A w \in ToSet(functions[current_function].upvalues) : variables[w].name # n
  BY <1>2, <1>4, <1>8 DEF NoUpvalueAt
<1>11. v \notin ToSet(functions[current_function].upvalues)
  BY <1>5, <1>10
<1>12. current_function \in DOMAIN functions
  <2>1. Len(q) \in 2 .. Len(q)
    BY <1>1
  <2>2. F(Len(q)) \in DOMAIN functions
    BY <1>1, <2>1, FunctionsAlong DEF Tree
  <2> HIDE DEF F
  <2> QED BY <2>2, <1>4
<1>13. fs \subseteq DOMAIN functions /\ current_function \in fs
  <2>1. Owner(s) # current_function
    OBVIOUS
  <2>2. /\ fs \subseteq DOMAIN functions
        /\ current_function \in fs \/ v \in ToSet(functions[current_function].upvalues)
    BY <1>1, <1>12, <2>1, LevelsRight DEF Linked
  <2> QED BY <2>2, <1>11
<1>14. LevelsOn(q, a, Len(q), v, fs)
  <2>1. LevelsOn(q, a, Len(q), v, add_upvalue_in_levels_upto(F(Len(q)), F(a), v))
    BY <1>1, <1>2, <1>3, LevelsPlace
  <2> HIDE DEF F
  <2> QED BY <2>1, <1>2, <1>4
<1> HIDE DEF fs
<1>15. /\ TreeOK(t) /\ Keeps(Tree, t)
       /\ DOMAIN t.scopes = DOMAIN scopes
       /\ DOMAIN t.functions = DOMAIN functions
       /\ DOMAIN t.variables = DOMAIN variables
       /\ \A b \in DOMAIN scopes : t.scopes[b].symbol_list = scopes[b].symbol_list
       /\ \A f \in fs : v \in ToSet(t.functions[f].upvalues)
  BY <1>7, <1>13, AddKeeps
<1>16. /\ \A g \in DOMAIN functions :
              t.functions[g].upvalues = IF g \in fs THEN Append(functions[g].upvalues, v)
                                        ELSE functions[g].upvalues
       /\ \A w \in DOMAIN variables :
              t.variables[w].escaped <=>
                  variables[w].escaped \/ (w = v /\ fs # {} /\ variables[v].block # NULL)
  BY <1>1, <1>7, AddFacts
<1>17. /\ Reached(s, n).tree = t
       /\ Reached(s, n).symbol = Upvalue(current_function, u)
  BY <1>2 DEF Reached, fs
<1> HIDE DEF t
<1>18. SameShape(Tree, t)
  BY <1>15 DEF SameShape, Tree
<1>19. Escapes(Tree, t, q, k, v)
  <2>1. fs # {}
    BY <1>13
  <2> QED BY <2>1, <1>7, <1>9, <1>16 DEF Escapes, Tree
<1>20. \A g \in DOMAIN functions : functions[g].upvalues \in Seq(Nat)
  <2>1. \A g \in DOMAIN functions : functions[g] \in FunctionType
    BY <1>1 DEF Typed, Tree
  <2> QED BY <2>1 DEF FunctionType
<1>21. v \in Nat
  <2>1. DOMAIN variables = 1 .. Len(variables)
    BY <1>1 DEF Typed, Tree
  <2> QED BY <2>1, <1>7
<1>22. ASSUME NEW g \in fs
       PROVE  \E m : GainsAt(Tree, t, q, k, v, m) /\ F(m) = g
  <2>1. PICK m \in a + 1 .. Len(q) : IsRoot(Tree, q, m) /\ F(m) = g /\ GetsFrom(q, a, v, fs, m)
    BY <1>14 DEF LevelsOn
  <2>2. m \in k + 1 .. Len(q) /\ m \in 3 .. Len(q) /\ m - 1 \in 2 .. Len(q)
    BY <1>2, <1>3
  <2>3. F(m - 1) \in DOMAIN functions
    BY <2>2, <1>1, FunctionsAlong DEF Tree
  <2>4. \/ OwnedBy(Tree, v, F(m - 1))
        \/ v \in ToSet(t.functions[F(m - 1)].upvalues)
    <3>1. CASE F(m - 1) \in fs
      BY <3>1, <1>15
    <3>2. v \in ToSet(functions[F(m - 1)].upvalues) => v \in ToSet(t.functions[F(m - 1)].upvalues)
      <4> DEFINE l == functions[F(m - 1)].upvalues
      <4>1. l \in Seq(Nat)
        BY <1>20, <2>3
      <4>2. t.functions[F(m - 1)].upvalues = Append(l, v) \/ t.functions[F(m - 1)].upvalues = l
        BY <1>16, <2>3
      <4> HIDE DEF l
      <4>3. ToSet(Append(l, v)) = ToSet(l) \cup {v}
        BY <4>1, <1>21, ToSetAppend
      <4>4. v \in ToSet(l) => v \in ToSet(t.functions[F(m - 1)].upvalues)
        BY <4>2, <4>3
      <4> QED BY <4>4 DEF l
    <3>3. CASE F(m - 1) = F(a)
      <4>1. CASE s = Local(v) /\ k = a
        <5>1. Owner(s) = scopes[variables[v].block].function
          BY <4>1, SymbolFacts
        <5>2. q[k] # NULL
          BY <4>1, <1>1, <1>2, PathFacts
        <5>3. v # 1
          BY <1>6, <5>2 DEF EntryAt, v
        <5>4. OwnedBy(Tree, v, F(m - 1))
          <6> HIDE DEF F
          <6> QED BY <5>1, <5>3, <3>3, <1>2 DEF OwnedBy, Tree
        <5> QED BY <5>4
      <4>2. CASE \E i \in DOMAIN functions[F(a)].upvalues : s = Upvalue(F(a), i)
        <5>1. PICK i \in DOMAIN functions[F(a)].upvalues : s = Upvalue(F(a), i)
          BY <4>2
        <5>2. functions[F(a)].upvalues[i] = v
          BY <5>1, <1>2, SymbolFacts
        <5>3. v \in ToSet(functions[F(a)].upvalues)
          BY <5>2 DEF ToSet
        <5> HIDE DEF F
        <5> QED BY <5>3, <3>2, <3>3
      <4> QED BY <4>1, <4>2, <1>2
    <3>4. F(m - 1) \in fs \cup {F(a)} \/ v \in ToSet(functions[F(m - 1)].upvalues)
      BY <2>1 DEF GetsFrom
    <3> HIDE DEF F
    <3> QED BY <3>1, <3>2, <3>3, <3>4
  <2>5. GainsAt(Tree, t, q, k, v, m)
    BY <2>1, <2>2, <2>4 DEF GainsAt
  <2> QED BY <2>1, <2>5
<1>23. Gains(Tree, t, q, k, v)
  <2>1. ASSUME NEW g \in DOMAIN functions
        PROVE  \/ t.functions[g].upvalues = functions[g].upvalues
               \/ /\ t.functions[g].upvalues = Append(functions[g].upvalues, v)
                  /\ \E m : GainsAt(Tree, t, q, k, v, m) /\ FunctionAt(Tree, q, m) = g
    <3>1. CASE g \in fs
      BY <3>1, <1>16, <1>22
    <3>2. CASE g \notin fs
      BY <3>2, <1>16
    <3> QED BY <3>1, <3>2
  <2> QED BY <2>1 DEF Gains, Tree
<1>24. Reaches(t, Upvalue(current_function, u), v)
  <2> DEFINE l == functions[current_function].upvalues
             l2 == t.functions[current_function].upvalues
  <2>1. l \in Seq(Nat) /\ l2 = Append(l, v)
    BY <1>12, <1>13, <1>16, <1>20
  <2> HIDE DEF l
  <2>2. /\ l2 \in Seq(Nat) /\ ToSet(l2) = ToSet(l) \cup {v} /\ Len(l) \in Nat
        /\ DOMAIN l2 = 1 .. Len(l) + 1 /\ l2[Len(l) + 1] = v
        /\ \A i \in 1 .. Len(l) : l2[i] = l[i] /\ l[i] \in ToSet(l)
    <3>1. Append(l, v) \in Seq(Nat) /\ ToSet(Append(l, v)) = ToSet(l) \cup {v}
      BY <2>1, <1>21, ToSetAppend
    <3>2. /\ DOMAIN Append(l, v) = 1 .. Len(l) + 1 /\ Append(l, v)[Len(l) + 1] = v
          /\ \A i \in 1 .. Len(l) : Append(l, v)[i] = l[i]
      BY <2>1, <1>21, AppendedTo
    <3>3. Len(l) \in Nat /\ \A i \in 1 .. Len(l) : l[i] \in ToSet(l)
      BY <2>1 DEF ToSet
    <3> HIDE DEF l2
    <3> QED BY <3>1, <3>2, <3>3, <2>1
  <2>3. u \in DOMAIN l2 /\ variables[l2[u]].name = n
    <3>1. v \in ToSet(l2) /\ variables[v].name = n
      BY <2>2, <1>5 DEF v
    <3>2. /\ u # 0 => u \in DOMAIN l2 /\ variables[l2[u]].name = n
          /\ (\E w \in ToSet(l2) : variables[w].name = n) => u # 0
      BY <2>2, FoundInFunction, SMTT(30)
    <3> HIDE DEF l2, u
    <3> QED BY <3>1, <3>2
  <2> HIDE DEF u, l2
  <2>4. \A i \in 1 .. Len(l) : variables[l2[i]].name # n
    BY <2>2, <1>10 DEF l
  <2>5. l2[u] = v
    BY <2>2, <2>3, <2>4
  <2> QED BY <2>3, <2>5, <1>12, <1>15 DEF Reaches, l2
<1>25. Referred(t, q, k, v, Upvalue(current_function, u))
  BY <1>18, <1>19, <1>23, <1>24 DEF Referred
<1> HIDE DEF u
<1> QED BY <1>17, <1>25 DEF v

-----------------------------------------------------------------------------
(* What does not change with the tree.                                     *)

(* The first m frames declare the same.                                    *)
FramesKept(t, u, q, m) ==
    \A l \in 1 .. m :
        /\ Entries(u, q[l]) = Entries(t, q[l])
        /\ \A i \in DOMAIN Entries(t, q[l]) :
               u.variables[Entries(t, q[l])[i]].name = t.variables[Entries(t, q[l])[i]].name

(* Their last declarations are then the same.                              *)
LEMMA LatestKept ==
    ASSUME NEW t, NEW u, NEW q, NEW m \in Nat, FramesKept(t, u, q, m)
    PROVE  /\ \A n, k, j : IsLatest(t, q, m, n, k, j) => IsLatest(u, q, m, n, k, j)
           /\ \A v : DeclaredLast(t, q, m, v) /\ u.variables[v].name = t.variables[v].name
                         => DeclaredLast(u, q, m, v)
<1>1. \A n : \A l \in 1 .. m : \A i : Stands(u, q, n, l, i) <=> Stands(t, q, n, l, i)
  BY DEF Stands, FramesKept
<1>2. ASSUME NEW n, NEW k, NEW j, IsLatest(t, q, m, n, k, j)
      PROVE  IsLatest(u, q, m, n, k, j)
  <2>1. k \in 1 .. m /\ Stands(t, q, n, k, j)
    BY <1>2 DEF IsLatest
  <2>2. \A l \in k .. m : l \in 1 .. m
    BY <2>1
  <2>3. \A l \in k .. m : \A i : Stands(t, q, n, l, i) => l = k /\ i <= j
    BY <1>2 DEF IsLatest
  <2> QED BY <1>1, <2>1, <2>2, <2>3 DEF IsLatest
<1>3. ASSUME NEW v, DeclaredLast(t, q, m, v), u.variables[v].name = t.variables[v].name
      PROVE  DeclaredLast(u, q, m, v)
  <2>1. PICK k \in 1 .. m, j \in Nat :
            IsLatest(t, q, m, t.variables[v].name, k, j) /\ Entries(t, q[k])[j] = v
    BY <1>3 DEF DeclaredLast
  <2>2. IsLatest(u, q, m, u.variables[v].name, k, j)
    BY <2>1, <1>2, <1>3
  <2>3. Entries(u, q[k])[j] = v
    BY <2>1 DEF FramesKept
  <2> QED BY <2>2, <2>3 DEF DeclaredLast
<1> QED BY <1>2, <1>3

(* The variables of a scope that are captured.                             *)
CapturedIn(t, s) ==
    {i \in DOMAIN t.scopes[s].symbol_list : t.variables[t.scopes[s].symbol_list[i]].escaped}

(* A scope that keeps its place and its declarations.                      *)
ScopeKept(t, u, s) ==
    /\ s \in DOMAIN t.scopes
    /\ u.scopes[s].function = t.scopes[s].function
    /\ u.scopes[s].parent = t.scopes[s].parent
    /\ u.scopes[s].symbol_list = t.scopes[s].symbol_list
    /\ t.scopes[s].parent # NULL =>
           u.scopes[t.scopes[s].parent].function = t.scopes[t.scopes[s].parent].function
    /\ \A v \in ToSet(t.scopes[s].symbol_list) : u.variables[v].name = t.variables[v].name

(* Its variables are marked alike.                                         *)
EscapedAlike(t, u, s) ==
    \A v \in ToSet(t.scopes[s].symbol_list) : u.variables[v].escaped <=> t.variables[v].escaped

(* Its frame stays, up to the captured variables.                          *)
FrameAs(t, u, s) ==
    /\ FrameOf(u.scopes, u.variables, s)
           = [FrameOf(t.scopes, t.variables, s) EXCEPT !.captured = CapturedIn(u, s)]
    /\ FrameOf(t.scopes, t.variables, s).captured = CapturedIn(t, s)
    /\ EscapedAlike(t, u, s) =>
           FrameOf(u.scopes, u.variables, s) = FrameOf(t.scopes, t.variables, s)

(* A scope that is kept has its frame.                                     *)
LEMMA FrameKept ==
    ASSUME NEW t, NEW u, NEW s, ScopeKept(t, u, s)
    PROVE  FrameAs(t, u, s)
<1> DEFINE B(w) == w.scopes[s].parent = NULL \/ w.scopes[w.scopes[s].parent].function # w.scopes[s].function
           N(w) == [i \in DOMAIN w.scopes[s].symbol_list |-> w.variables[w.scopes[s].symbol_list[i]].name]
<1>1. /\ FrameOf(t.scopes, t.variables, s)
            = [function |-> B(t), names |-> N(t), captured |-> CapturedIn(t, s)]
      /\ FrameOf(u.scopes, u.variables, s)
            = [function |-> B(u), names |-> N(u), captured |-> CapturedIn(u, s)]
  BY DEF FrameOf, CapturedIn
<1>2. B(u) = B(t)
  <2>1. B(u) \in BOOLEAN /\ B(t) \in BOOLEAN
    OBVIOUS
  <2>2. B(u) <=> B(t)
    BY DEF ScopeKept
  <2> HIDE DEF B
  <2> QED BY <2>1, <2>2
<1>3. u.scopes[s].symbol_list = t.scopes[s].symbol_list
  BY DEF ScopeKept
<1>4. \A i \in DOMAIN t.scopes[s].symbol_list :
          u.variables[t.scopes[s].symbol_list[i]].name = t.variables[t.scopes[s].symbol_list[i]].name
  BY DEF ScopeKept, ToSet
<1>5. N(u) = N(t)
  BY <1>3, <1>4
<1> HIDE DEF B, N
<1>a. FrameOf(t.scopes, t.variables, s)
          = [function |-> B(t), names |-> N(t), captured |-> CapturedIn(t, s)]
  BY <1>1
<1>b. FrameOf(u.scopes, u.variables, s)
          = [function |-> B(t), names |-> N(t), captured |-> CapturedIn(u, s)]
  <2>1. FrameOf(u.scopes, u.variables, s)
            = [function |-> B(u), names |-> N(u), captured |-> CapturedIn(u, s)]
    BY <1>1
  <2> QED BY <2>1, <1>2, <1>5
<1>6. FrameOf(u.scopes, u.variables, s)
          = [FrameOf(t.scopes, t.variables, s) EXCEPT !.captured = CapturedIn(u, s)]
  BY <1>a, <1>b
<1>7. FrameOf(t.scopes, t.variables, s).captured = CapturedIn(t, s)
  BY <1>a
<1>8. ASSUME EscapedAlike(t, u, s)
      PROVE  FrameOf(u.scopes, u.variables, s) = FrameOf(t.scopes, t.variables, s)
  <2>1. \A i \in DOMAIN t.scopes[s].symbol_list :
            u.variables[t.scopes[s].symbol_list[i]].escaped <=> t.variables[t.scopes[s].symbol_list[i]].escaped
    BY <1>8 DEF EscapedAlike, ToSet
  <2>2. CapturedIn(u, s) = CapturedIn(t, s)
    BY <2>1, <1>3 DEF CapturedIn
  <2> QED BY <2>2, <1>a, <1>b
<1> QED BY <1>6, <1>7, <1>8 DEF FrameAs

-----------------------------------------------------------------------------
(* What a reference leaves true, and what it does to the environment.      *)

(* What holds of the path to the current scope, in every state.            *)
Scoped(t, q, c) ==
    /\ IsPath(t, q, c) /\ OuterOn(t, q)
    /\ Lists(t) /\ Parents(t) /\ Chained(t)

(* The tree u after a reference to n, which means v, the j-th of frame k.  *)
AfterReference(u, q, k, j, v, n) ==
    /\ TreeOK(Tree) /\ TreeOK(u) /\ Keeps(Tree, u)
    /\ Scoped(Tree, q, current_scope)
    /\ IsLatest(Tree, q, Len(q), n, k, j) /\ v = Entries(Tree, q[k])[j]
    /\ SameShape(Tree, u) /\ Escapes(Tree, u, q, k, v) /\ Gains(Tree, u, q, k, v)

(* What stays through a reference.                                         *)
LEMMA AfterFacts ==
    ASSUME NEW u, NEW q, NEW k, NEW j, NEW v, NEW n, AfterReference(u, q, k, j, v, n)
    PROVE  /\ Typed(Tree) /\ Linked(Tree) /\ Typed(u) /\ Linked(u) /\ Keeps(Tree, u) /\ SameShape(Tree, u)
           /\ IsPath(Tree, q, current_scope) /\ OuterOn(Tree, q)
           /\ Lists(Tree) /\ Parents(Tree) /\ Chained(Tree)
           /\ IsPath(u, q, current_scope) /\ Len(q) \in Nat /\ Len(q) >= 2
           /\ FramesKept(Tree, u, q, Len(q))
           /\ \A l \in 2 .. Len(q) : FunctionAt(u, q, l) = FunctionAt(Tree, q, l)
           /\ \A l \in 2 .. Len(q) : IsRoot(u, q, l) <=> IsRoot(Tree, q, l)
           /\ k \in 1 .. Len(q) /\ j \in DOMAIN Entries(Tree, q[k]) /\ j \in Nat
           /\ v = Entries(Tree, q[k])[j] /\ Tree.variables[v].name = n /\ v \in DOMAIN Tree.variables
<1>1. /\ Typed(Tree) /\ Linked(Tree) /\ Typed(u) /\ Linked(u) /\ Keeps(Tree, u) /\ SameShape(Tree, u)
      /\ IsPath(Tree, q, current_scope) /\ OuterOn(Tree, q)
      /\ Lists(Tree) /\ Parents(Tree) /\ Chained(Tree)
  BY DEF AfterReference, TreeOK, Scoped
<1>2. Len(q) \in Nat /\ Len(q) >= 2
  BY <1>1, PathFacts
<1>3. IsPath(u, q, current_scope)
  BY <1>1 DEF IsPath, Keeps, SameShape
<1>4. ASSUME NEW l \in 1 .. Len(q)
      PROVE  /\ Entries(u, q[l]) = Entries(Tree, q[l])
             /\ \A i \in DOMAIN Entries(Tree, q[l]) :
                    u.variables[Entries(Tree, q[l])[i]].name = Tree.variables[Entries(Tree, q[l])[i]].name
  <2>1. l = 1 => q[l] = NULL
    BY <1>1, PathFacts
  <2>2. l # 1 => q[l] \in DOMAIN Tree.scopes
    <3>1. l # 1 => l \in 2 .. Len(q)
      BY <1>2
    <3> QED BY <1>1, <3>1, PathFacts
  <2>3. Entries(u, q[l]) = Entries(Tree, q[l])
    BY <2>1, <2>2, <1>1 DEF Entries, SameShape
  <2>4. \A i \in DOMAIN Entries(Tree, q[l]) : EntryAt(Tree, q[l], Entries(Tree, q[l])[i])
    BY <1>1, EntriesFacts
  <2>5. \A i \in DOMAIN Entries(Tree, q[l]) : Entries(Tree, q[l])[i] \in DOMAIN Tree.variables
    BY <2>4 DEF EntryAt
  <2> QED BY <2>3, <2>5, <1>1 DEF Keeps
<1>5. FramesKept(Tree, u, q, Len(q))
  BY <1>4 DEF FramesKept
<1>6. \A l \in 2 .. Len(q) : FunctionAt(u, q, l) = FunctionAt(Tree, q, l)
  <2>1. \A l \in 2 .. Len(q) : q[l] \in DOMAIN Tree.scopes
    BY <1>1, PathFacts
  <2> QED BY <2>1, <1>1 DEF FunctionAt, Keeps
<1>7. \A l \in 2 .. Len(q) : IsRoot(u, q, l) <=> IsRoot(Tree, q, l)
  <2>1. \A l \in 2 .. Len(q) : l = 2 \/ l - 1 \in 2 .. Len(q)
    BY <1>2
  <2> QED BY <1>6, <2>1 DEF IsRoot
<1>8. /\ k \in 1 .. Len(q) /\ j \in DOMAIN Entries(Tree, q[k])
      /\ v = Entries(Tree, q[k])[j] /\ Tree.variables[v].name = n
  BY DEF AfterReference, IsLatest, Stands
<1>9. j \in Nat
  <2>1. DOMAIN Entries(Tree, q[k]) = 1 .. Len(Entries(Tree, q[k])) /\ Len(Entries(Tree, q[k])) \in Nat
    BY <1>1, <1>8, EntriesFacts
  <2> QED BY <1>8, <2>1
<1>10. v \in DOMAIN Tree.variables
  <2>1. EntryAt(Tree, q[k], v)
    BY <1>1, <1>8, EntriesFacts
  <2> QED BY <2>1 DEF EntryAt
<1> QED BY <1>1, <1>2, <1>3, <1>5, <1>6, <1>7, <1>8, <1>9, <1>10

(* The upvalues of a function grow by v at most.                           *)
LEMMA AfterUpvalues ==
    ASSUME NEW u, NEW q, NEW k, NEW j, NEW v, NEW n, AfterReference(u, q, k, j, v, n),
           NEW f \in DOMAIN Tree.functions
    PROVE  /\ ToSet(Tree.functions[f].upvalues) \subseteq ToSet(u.functions[f].upvalues)
           /\ \A w \in ToSet(u.functions[f].upvalues) :
                  \/ w \in ToSet(Tree.functions[f].upvalues)
                  \/ w = v /\ \E m : GainsAt(Tree, u, q, k, v, m) /\ FunctionAt(Tree, q, m) = f
<1>1. CASE u.functions[f].upvalues = Tree.functions[f].upvalues
  BY <1>1
<1>2. CASE /\ u.functions[f].upvalues = Append(Tree.functions[f].upvalues, v)
           /\ \E m : GainsAt(Tree, u, q, k, v, m) /\ FunctionAt(Tree, q, m) = f
  <2>1. Tree.functions[f].upvalues \in Seq(Nat)
    <3>1. Tree.functions[f] \in FunctionType
      BY AfterFacts DEF Typed
    <3> QED BY <3>1 DEF FunctionType
  <2>2. v \in Nat
    <3>1. v \in DOMAIN Tree.variables /\ Typed(Tree)
      BY AfterFacts
    <3>2. DOMAIN Tree.variables = 1 .. Len(Tree.variables)
      BY <3>1 DEF Typed
    <3> QED BY <3>1, <3>2
  <2>3. ToSet(u.functions[f].upvalues) = ToSet(Tree.functions[f].upvalues) \cup {v}
    BY <1>2, <2>1, <2>2, ToSetAppend
  <2> QED BY <2>3, <1>2
<1> QED BY <1>1, <1>2 DEF AfterReference, Gains

(* The upvalues stay chained.                                              *)
LEMMA AfterChained ==
    ASSUME NEW u, NEW q, NEW k, NEW j, NEW v, NEW n, AfterReference(u, q, k, j, v, n)
    PROVE  Lists(u) /\ Parents(u) /\ Chained(u)
<1>1. /\ Typed(Tree) /\ Linked(Tree) /\ Keeps(Tree, u) /\ SameShape(Tree, u)
      /\ IsPath(Tree, q, current_scope) /\ Lists(Tree) /\ Parents(Tree) /\ Chained(Tree)
      /\ Len(q) \in Nat
  BY AfterFacts
<1>2. Lists(u)
  BY <1>1 DEF Lists, SameShape
<1>3. Parents(u)
  <2>1. \A f \in DOMAIN u.functions \ {1} : u.functions[f].parent # NULL
    BY <1>1 DEF Parents, Keeps, SameShape
  <2>2. ASSUME NEW s \in DOMAIN u.scopes, u.scopes[s].parent # NULL,
               u.scopes[u.scopes[s].parent].function # u.scopes[s].function
        PROVE  u.functions[u.scopes[s].function].parent = u.scopes[u.scopes[s].parent].function
    <3>1. s \in DOMAIN Tree.scopes /\ u.scopes[s].parent = Tree.scopes[s].parent
          /\ u.scopes[s].function = Tree.scopes[s].function
      BY <1>1 DEF Keeps, SameShape
    <3>2. Tree.scopes[s].parent \in DOMAIN Tree.scopes
      <4>1. Tree.scopes[s].parent \in 0 .. s - 1 /\ Tree.scopes[s].parent # 0
        BY <1>1, <2>2, <3>1 DEF Linked, ScopesLinked, NULL
      <4>2. DOMAIN Tree.scopes = 1 .. Len(Tree.scopes) /\ Len(Tree.scopes) \in Nat
        BY <1>1 DEF Typed
      <4> QED BY <3>1, <4>1, <4>2
    <3>3. u.scopes[Tree.scopes[s].parent].function = Tree.scopes[Tree.scopes[s].parent].function
      BY <1>1, <3>2 DEF Keeps
    <3>4. Tree.functions[Tree.scopes[s].function].parent = Tree.scopes[Tree.scopes[s].parent].function
      BY <1>1, <2>2, <3>1, <3>3 DEF Parents
    <3>5. Tree.scopes[s].function \in DOMAIN Tree.functions
      BY <1>1, <3>1 DEF Linked, ScopesLinked
    <3>6. u.functions[Tree.scopes[s].function].parent = Tree.functions[Tree.scopes[s].function].parent
      BY <1>1, <3>5 DEF Keeps
    <3> QED BY <3>1, <3>3, <3>4, <3>6
  <2> QED BY <2>1, <2>2 DEF Parents
<1>4. Chained(u)
  <2> SUFFICES ASSUME NEW f \in DOMAIN u.functions, NEW w \in ToSet(u.functions[f].upvalues)
               PROVE  /\ f = 1 => w = 1
                      /\ f # 1 => \/ OwnedBy(u, w, u.functions[f].parent)
                                  \/ w \in ToSet(u.functions[u.functions[f].parent].upvalues)
    BY DEF Chained
  <2> DEFINE p == Tree.functions[f].parent
  <2>1. f \in DOMAIN Tree.functions /\ u.functions[f].parent = p
    BY <1>1 DEF Keeps, SameShape
  <2>2. \A x \in DOMAIN Tree.variables : \A g : OwnedBy(Tree, x, g) => OwnedBy(u, x, g)
    <3> SUFFICES ASSUME NEW x \in DOMAIN Tree.variables, NEW g, OwnedBy(Tree, x, g)
                 PROVE  OwnedBy(u, x, g)
      OBVIOUS
    <3>1. x # 1 /\ Tree.scopes[Tree.variables[x].block].function = g
      BY DEF OwnedBy
    <3>2. Tree.variables[x].block \in DOMAIN Tree.scopes
      BY <1>1, <3>1 DEF Linked, VariablesLinked, Locals
    <3>3. u.variables[x].block = Tree.variables[x].block
      BY <1>1 DEF Keeps
    <3>4. u.scopes[Tree.variables[x].block].function = Tree.scopes[Tree.variables[x].block].function
      BY <1>1, <3>2 DEF Keeps
    <3> QED BY <3>1, <3>3, <3>4 DEF OwnedBy
  <2>3. f # 1 => p \in DOMAIN Tree.functions
    <3>1. f # 1 => p \in 0 .. f - 1 /\ p # 0
      BY <1>1, <2>1 DEF Linked, FunctionsLinked, Parents, NULL
    <3>2. DOMAIN Tree.functions = 1 .. Len(Tree.functions) /\ Len(Tree.functions) \in Nat
      BY <1>1 DEF Typed
    <3> HIDE DEF p
    <3> QED BY <3>1, <3>2, <2>1
  <2>4. CASE w \in ToSet(Tree.functions[f].upvalues)
    <3>1. w \in DOMAIN Tree.variables
      BY <1>1, <2>1, <2>4 DEF Linked, FunctionsLinked
    <3>2. f = 1 => w = 1
      BY <1>1, <2>1, <2>4 DEF Chained
    <3>3. f # 1 => OwnedBy(Tree, w, p) \/ w \in ToSet(Tree.functions[p].upvalues)
      BY <1>1, <2>1, <2>4 DEF Chained
    <3> HIDE DEF p
    <3>4. ASSUME f # 1
          PROVE  ToSet(Tree.functions[p].upvalues) \subseteq ToSet(u.functions[p].upvalues)
      <4>1. p \in DOMAIN Tree.functions
        BY <2>3, <3>4
      <4> QED BY <4>1, AfterUpvalues
    <3> QED BY <3>1, <3>2, <3>3, <3>4, <2>1, <2>2
  <2>5. CASE w = v /\ \E m : GainsAt(Tree, u, q, k, v, m) /\ FunctionAt(Tree, q, m) = f
    <3>1. PICK m : GainsAt(Tree, u, q, k, v, m) /\ FunctionAt(Tree, q, m) = f
      BY <2>5
    <3>2. m \in 3 .. Len(q) /\ IsRoot(Tree, q, m)
      BY <3>1 DEF GainsAt
    <3>3. Rooted(Tree, q, m)
      BY <1>1, <3>2, FunctionsAlong
    <3>4. f # 1 /\ p = FunctionAt(Tree, q, m - 1)
      BY <3>1, <3>3 DEF Rooted
    <3>5. OwnedBy(Tree, v, p) \/ v \in ToSet(u.functions[p].upvalues)
      BY <3>1, <3>4 DEF GainsAt
    <3>6. v \in DOMAIN Tree.variables
      BY AfterFacts
    <3> HIDE DEF p
    <3> QED BY <3>4, <3>5, <3>6, <2>1, <2>2, <2>5
  <2> QED BY <2>1, <2>4, <2>5, AfterUpvalues
<1> QED BY <1>2, <1>3, <1>4

(* The upvalues on the path stay last declarations.                        *)
LEMMA AfterOuter ==
    ASSUME NEW u, NEW q, NEW k, NEW j, NEW v, NEW n, AfterReference(u, q, k, j, v, n)
    PROVE  OuterOn(u, q)
<1>1. /\ Typed(Tree) /\ Linked(Tree) /\ Keeps(Tree, u) /\ Parents(Tree)
      /\ IsPath(Tree, q, current_scope) /\ OuterOn(Tree, q)
      /\ Len(q) \in Nat /\ Len(q) >= 2 /\ FramesKept(Tree, u, q, Len(q))
      /\ k \in 1 .. Len(q) /\ v \in DOMAIN Tree.variables /\ j \in Nat
      /\ v = Entries(Tree, q[k])[j] /\ Tree.variables[v].name = n
  BY AfterFacts
<1>2. IsLatest(Tree, q, Len(q), n, k, j)
  BY DEF AfterReference
<1> SUFFICES ASSUME NEW m \in 2 .. Len(q), IsRoot(u, q, m),
                    NEW w \in ToSet(u.functions[FunctionAt(u, q, m)].upvalues)
             PROVE  DeclaredLast(u, q, m - 1, w)
  BY DEF OuterOn
<1>3. m \in Nat /\ m - 1 \in Nat /\ m - 1 \in 1 .. Len(q) /\ m - 1 <= Len(q)
  BY <1>1
<1>4. IsRoot(Tree, q, m) /\ FunctionAt(u, q, m) = FunctionAt(Tree, q, m)
  BY AfterFacts
<1>5. FunctionAt(Tree, q, m) \in DOMAIN Tree.functions
  BY <1>1, FunctionsAlong
<1>6. w \in DOMAIN Tree.variables /\ DeclaredLast(Tree, q, m - 1, w)
  <2>1. CASE w \in ToSet(Tree.functions[FunctionAt(Tree, q, m)].upvalues)
    <3>1. w \in DOMAIN Tree.variables
      BY <1>1, <1>5, <2>1 DEF Linked, FunctionsLinked
    <3> QED BY <1>1, <1>4, <2>1, <3>1 DEF OuterOn
  <2>2. CASE w = v /\ \E x : GainsAt(Tree, u, q, k, v, x) /\ FunctionAt(Tree, q, x) = FunctionAt(Tree, q, m)
    <3>1. PICK x : GainsAt(Tree, u, q, k, v, x) /\ FunctionAt(Tree, q, x) = FunctionAt(Tree, q, m)
      BY <2>2
    <3>2. x \in k + 1 .. Len(q) /\ x \in 3 .. Len(q) /\ IsRoot(Tree, q, x)
      BY <3>1 DEF GainsAt
    <3>3. FunctionAt(Tree, q, m) \in Nat /\ FunctionAt(Tree, q, x) \in Nat
      BY <1>1, <3>2, FunctionsAlong
    <3>4. ~ (x < m)
      <4> SUFFICES ASSUME x < m PROVE FALSE
        OBVIOUS
      <4>1. x \in 2 .. Len(q) /\ m \in x .. Len(q) /\ m \in x + 1 .. m
        BY <3>2, <1>3
      <4>2. RootsFrom(Tree, q, x, m)
        BY <1>1, <4>1, RootsBetween
      <4>3. FunctionAt(Tree, q, x) < FunctionAt(Tree, q, m)
        BY <4>1, <4>2, <1>4 DEF RootsFrom
      <4> QED BY <4>3, <3>1, <3>3
    <3>5. ~ (m < x)
      <4> SUFFICES ASSUME m < x PROVE FALSE
        OBVIOUS
      <4>1. m \in 2 .. Len(q) /\ x \in m .. Len(q) /\ x \in m + 1 .. x
        BY <3>2, <1>3
      <4>2. RootsFrom(Tree, q, m, x)
        BY <1>1, <4>1, RootsBetween
      <4>3. FunctionAt(Tree, q, m) < FunctionAt(Tree, q, x)
        BY <4>1, <4>2, <3>2 DEF RootsFrom
      <4> QED BY <4>3, <3>1, <3>3
    <3>6. k \in 1 .. m - 1
      <4>1. x = m
        BY <3>4, <3>5, <3>2, <1>3
      <4> QED BY <4>1, <3>2, <1>1, <1>3
    <3>7. IsLatest(Tree, q, m - 1, n, k, j)
      <4>1. \A l \in k .. m - 1 : l \in k .. Len(q)
        BY <1>1, <1>3, <3>6
      <4> QED BY <4>1, <1>2, <3>6 DEF IsLatest
    <3> QED BY <3>6, <3>7, <1>1, <2>2 DEF DeclaredLast
  <2>3. \/ w \in ToSet(Tree.functions[FunctionAt(Tree, q, m)].upvalues)
        \/ w = v /\ \E x : GainsAt(Tree, u, q, k, v, x) /\ FunctionAt(Tree, q, x) = FunctionAt(Tree, q, m)
    BY <1>4, <1>5, AfterUpvalues
  <2> QED BY <2>1, <2>2, <2>3
<1>7. FramesKept(Tree, u, q, m - 1)
  <2>1. \A l \in 1 .. m - 1 : l \in 1 .. Len(q)
    BY <1>1, <1>3
  <2> QED BY <2>1, <1>1 DEF FramesKept
<1>8. u.variables[w].name = Tree.variables[w].name
  BY <1>1, <1>6 DEF Keeps
<1> QED BY <1>3, <1>6, <1>7, <1>8, LatestKept

(* The path stays one.                                                     *)
LEMMA AfterScoped ==
    ASSUME NEW u, NEW q, NEW k, NEW j, NEW v, NEW n, AfterReference(u, q, k, j, v, n)
    PROVE  Scoped(u, q, current_scope)
BY AfterFacts, AfterOuter, AfterChained DEF Scoped

(* Capturing one place.                                                    *)
WithCaptured(e, m, k, j, b) ==
    [l \in 1 .. m |-> [e[l] EXCEPT !.captured = @ \cup IF l = k /\ b THEN {j} ELSE {}]]

(* This is what Captured of Scoping does with one place.                   *)
LEMMA CapturedOne ==
    ASSUME NEW e, NEW m \in Nat, DOMAIN e = 1 .. m, Len(e) = m, NEW k \in Nat, NEW j \in Nat,
           NEW b \in BOOLEAN, b <=> \E l \in k + 1 .. m : e[l].function
    PROVE  Abstract!Captured(e, {<<k, j>>}) = WithCaptured(e, m, k, j, b)
<1> DEFINE C == {p \in {<<k, j>>} : \E l \in p[1] + 1 .. Len(e) : e[l].function}
<1>1. Abstract!Captured(e, {<<k, j>>}) =
          [l \in 1 .. m |-> [e[l] EXCEPT !.captured = @ \cup {p[2] : p \in {x \in C : x[1] = l}}]]
  BY DEF Abstract!Captured
<1>2. C = IF b THEN {<<k, j>>} ELSE {}
  <2>1. \A p \in {<<k, j>>} : (\E l \in p[1] + 1 .. Len(e) : e[l].function) <=> b
    OBVIOUS
  <2> QED BY <2>1
<1> HIDE DEF C
<1>3. ASSUME NEW l \in 1 .. m
      PROVE  {p[2] : p \in {x \in C : x[1] = l}} = IF l = k /\ b THEN {j} ELSE {}
  <2>1. CASE l = k /\ b
    <3>1. {x \in C : x[1] = l} = {<<k, j>>}
      BY <1>2, <2>1
    <3>2. {p[2] : p \in {<<k, j>>}} = {j}
      OBVIOUS
    <3> QED BY <3>1, <3>2, <2>1
  <2>2. CASE ~ (l = k /\ b)
    <3>1. {x \in C : x[1] = l} = {}
      BY <1>2, <2>2
    <3>2. {p[2] : p \in {}} = {}
      OBVIOUS
    <3> QED BY <3>1, <3>2, <2>2
  <2> QED BY <2>1, <2>2
<1> QED BY <1>1, <1>3 DEF WithCaptured

(* Every variable on the path has its place.                               *)
Placed(t, q) ==
    \A l \in 1 .. Len(q) : \A i \in DOMAIN Entries(t, q[l]) :
        PlaceIn(t.scopes, t.variables, Entries(t, q[l])[i]) = <<l, i>>

LEMMA PlacesOn ==
    ASSUME NEW t, Typed(t), Linked(t), Lists(t), NEW q, NEW c, IsPath(t, q, c)
    PROVE  Placed(t, q)
<1> SUFFICES ASSUME NEW l \in 1 .. Len(q), NEW i \in DOMAIN Entries(t, q[l])
             PROVE  PlaceIn(t.scopes, t.variables, Entries(t, q[l])[i]) = <<l, i>>
  BY DEF Placed
<1> QED BY PlaceRight

(* The variables of the l-th frame, in terms of the scope.                 *)
ListAt(t, q, l) ==
    /\ DOMAIN Entries(t, q[l]) = 1 .. Len(Entries(t, q[l])) /\ Len(Entries(t, q[l])) \in Nat
    /\ \A i \in DOMAIN Entries(t, q[l]) : EntryAt(t, q[l], Entries(t, q[l])[i])
    /\ l # 1 => Entries(t, q[l]) = t.scopes[q[l]].symbol_list

(* So it is for every frame of a path.                                     *)
LEMMA ListOn ==
    ASSUME NEW t, Typed(t), Linked(t), NEW q, NEW c, IsPath(t, q, c), NEW l \in 1 .. Len(q)
    PROVE  ListAt(t, q, l)
<1>1. DOMAIN Entries(t, q[l]) = 1 .. Len(Entries(t, q[l])) /\ Len(Entries(t, q[l])) \in Nat
  BY EntriesFacts
<1>2. \A i \in DOMAIN Entries(t, q[l]) : EntryAt(t, q[l], Entries(t, q[l])[i])
  BY EntriesFacts
<1>3. l # 1 => Entries(t, q[l]) = t.scopes[q[l]].symbol_list
  BY EntriesFacts
<1> QED BY <1>1, <1>2, <1>3 DEF ListAt

(* The environment after a reference has the place captured, where a       *)
(* function lies in between.                                               *)
LEMMA AfterEnvironment ==
    ASSUME NEW u, NEW q, NEW k, NEW j, NEW v, NEW n, AfterReference(u, q, k, j, v, n)
    PROVE  Environment(u, q) = Abstract!Captured(Environment(Tree, q), {<<k, j>>})
<1>1. /\ Typed(Tree) /\ Linked(Tree) /\ Typed(u) /\ Linked(u) /\ Keeps(Tree, u) /\ SameShape(Tree, u)
      /\ IsPath(Tree, q, current_scope) /\ Lists(Tree)
      /\ Len(q) \in Nat /\ Len(q) >= 2 /\ k \in 1 .. Len(q) /\ k \in Nat /\ j \in Nat
      /\ j \in DOMAIN Entries(Tree, q[k]) /\ v = Entries(Tree, q[k])[j]
  BY AfterFacts
<1>p. Placed(Tree, q)
  <2>1. Typed(Tree) /\ Linked(Tree) /\ Lists(Tree) /\ IsPath(Tree, q, current_scope)
    BY <1>1
  <2> QED BY <2>1, PlacesOn
<1> DEFINE e == Environment(Tree, q)
           b == InnerRoot(Tree, q, k)
<1>2. DOMAIN e = 1 .. Len(q) /\ Len(e) = Len(q)
  BY <1>1 DEF Environment
<1>3. b \in BOOLEAN
  BY DEF InnerRoot
<1>4. b <=> \E l \in k + 1 .. Len(q) : e[l].function
  <2>1. \A l \in k + 1 .. Len(q) : l \in 1 .. Len(q) /\ l # 1
    BY <1>1
  <2>2. \A l \in k + 1 .. Len(q) : e[l].function <=> IsRoot(Tree, q, l)
    BY <2>1, <1>1, FrameRight DEF FrameIs
  <2> QED BY <2>2 DEF InnerRoot
<1> HIDE DEF e, b
<1>5. Abstract!Captured(e, {<<k, j>>}) = WithCaptured(e, Len(q), k, j, b)
  <2>1. Len(q) \in Nat /\ k \in Nat /\ j \in Nat
    BY <1>1
  <2> QED BY <2>1, <1>2, <1>3, <1>4, CapturedOne
<1>6. ASSUME NEW l \in 1 .. Len(q)
      PROVE  FrameAt(u, q[l]) = [e[l] EXCEPT !.captured = @ \cup IF l = k /\ b THEN {j} ELSE {}]
  <2>1. e[l] = FrameAt(Tree, q[l])
    BY DEF e, Environment
  <2>2. CASE l = 1
    <3>1. q[l] = NULL /\ e[l] = Outside /\ FrameAt(u, q[l]) = Outside
      BY <2>1, <2>2, <1>1, PathFacts DEF FrameAt
    <3>2. l = k => j = 1
      <4>1. Entries(Tree, q[1]) = <<1>>
        BY <1>1, EntriesFacts
      <4> QED BY <4>1, <2>2, <1>1
    <3>3. {1} \cup (IF l = k /\ b THEN {j} ELSE {}) = {1}
      BY <3>2
    <3>4. [Outside EXCEPT !.captured = {1}] = Outside
      <4>1. \A F, N : [[function |-> F, names |-> N, captured |-> {1}] EXCEPT !.captured = {1}]
                          = [function |-> F, names |-> N, captured |-> {1}]
        OBVIOUS
      <4> QED BY <4>1 DEF Outside
    <3>5. Outside.captured = {1}
      BY DEF Outside
    <3> QED BY <3>1, <3>3, <3>4, <3>5
  <2>3. CASE l # 1
    <3>1. l \in 2 .. Len(q) /\ q[l] # NULL /\ q[l] \in DOMAIN Tree.scopes
      BY <2>3, <1>1, PathFacts
    <3>2. /\ Entries(Tree, q[l]) = Tree.scopes[q[l]].symbol_list
          /\ \A i \in DOMAIN Entries(Tree, q[l]) : EntryAt(Tree, q[l], Entries(Tree, q[l])[i])
          /\ DOMAIN Entries(Tree, q[l]) \subseteq Nat
      <4>1. Typed(Tree) /\ Linked(Tree) /\ IsPath(Tree, q, current_scope)
        BY <1>1
      <4>2. ListAt(Tree, q, l)
        BY <4>1, ListOn
      <4> QED BY <4>2, <2>3 DEF ListAt
    <3>3. \A i \in DOMAIN Entries(Tree, q[l]) :
              /\ Entries(Tree, q[l])[i] \in DOMAIN Tree.variables
              /\ Entries(Tree, q[l])[i] # 1
      BY <3>1, <3>2 DEF EntryAt
    <3>4. ScopeKept(Tree, u, q[l])
      <4>1. Tree.scopes[q[l]].parent # NULL => Tree.scopes[q[l]].parent \in DOMAIN Tree.scopes
        <5>1. Tree.scopes[q[l]].parent \in 0 .. q[l] - 1
          BY <1>1, <3>1 DEF Linked, ScopesLinked
        <5>2. DOMAIN Tree.scopes = 1 .. Len(Tree.scopes) /\ Len(Tree.scopes) \in Nat
          BY <1>1 DEF Typed
        <5> QED BY <5>1, <5>2, <3>1 DEF NULL
      <4>2. \A x \in ToSet(Tree.scopes[q[l]].symbol_list) : u.variables[x].name = Tree.variables[x].name
        BY <3>2, <3>3, <1>1 DEF ToSet, Keeps
      <4> QED BY <3>1, <4>1, <4>2, <1>1 DEF ScopeKept, Keeps, SameShape
    <3>5. \A i \in DOMAIN Entries(Tree, q[l]) : Entries(Tree, q[l])[i] = v <=> l = k /\ i = j
      <4> SUFFICES ASSUME NEW i \in DOMAIN Entries(Tree, q[l])
                   PROVE  Entries(Tree, q[l])[i] = v <=> l = k /\ i = j
        OBVIOUS
      <4>1. PlaceIn(Tree.scopes, Tree.variables, Entries(Tree, q[l])[i]) = <<l, i>>
        BY <1>p DEF Placed
      <4>2. PlaceIn(Tree.scopes, Tree.variables, v) = <<k, j>>
        BY <1>1, <1>p DEF Placed
      <4> QED BY <4>1, <4>2, <1>1
    <3>6. \A i \in DOMAIN Entries(Tree, q[l]) :
              u.variables[Entries(Tree, q[l])[i]].escaped <=>
                  Tree.variables[Entries(Tree, q[l])[i]].escaped \/ (l = k /\ i = j /\ b)
      <4>1. Escapes(Tree, u, q, k, v)
        BY DEF AfterReference
      <4> QED BY <4>1, <3>3, <3>5 DEF Escapes, b
    <3>7. CapturedIn(u, q[l]) = CapturedIn(Tree, q[l]) \cup IF l = k /\ b THEN {j} ELSE {}
      <4>1. u.scopes[q[l]].symbol_list = Entries(Tree, q[l])
        BY <3>1, <3>2, <1>1 DEF SameShape
      <4> QED BY <4>1, <3>2, <3>6, <1>1, Zenon DEF CapturedIn
    <3>8. /\ FrameAt(u, q[l]) = [e[l] EXCEPT !.captured = CapturedIn(u, q[l])]
          /\ e[l].captured = CapturedIn(Tree, q[l])
      BY <2>1, <3>1, <3>4, FrameKept DEF FrameAt, FrameAs
    <3> QED BY <3>7, <3>8
  <2> QED BY <2>2, <2>3
<1> QED BY <1>5, <1>6 DEF Environment, WithCaptured, e

(* What a symbol then means.                                               *)
LEMMA MeantRight ==
    ASSUME NEW u, NEW q, NEW k, NEW j, NEW v, NEW n, AfterReference(u, q, k, j, v, n),
           NEW s, Reaches(u, s, v)
    PROVE  MeantIn(u.functions, u.scopes, u.variables, s) = <<k, j>>
<1>1. /\ Typed(u) /\ Linked(u) /\ IsPath(u, q, current_scope) /\ Len(q) \in Nat
      /\ k \in 1 .. Len(q) /\ FramesKept(Tree, u, q, Len(q))
      /\ j \in DOMAIN Entries(Tree, q[k]) /\ v = Entries(Tree, q[k])[j]
      /\ Typed(Tree) /\ v \in DOMAIN Tree.variables
  BY AfterFacts
<1>2. Lists(u) /\ Parents(u) /\ Chained(u)
  BY AfterChained
<1>3. PlaceIn(u.scopes, u.variables, v) = <<k, j>>
  <2>1. Entries(u, q[k]) = Entries(Tree, q[k])
    BY <1>1 DEF FramesKept
  <2>2. Placed(u, q)
    <3>1. Typed(u) /\ Linked(u) /\ Lists(u) /\ IsPath(u, q, current_scope)
      BY <1>1, <1>2
    <3> QED BY <3>1, PlacesOn
  <2> QED BY <2>1, <2>2, <1>1 DEF Placed
<1>4. v # NULL
  <2>1. DOMAIN Tree.variables = 1 .. Len(Tree.variables)
    BY <1>1 DEF Typed
  <2> QED BY <2>1, <1>1 DEF NULL
<1>5. CASE s = Local(v)
  BY <1>5, <1>3, SymbolFacts DEF MeantIn
<1>6. CASE \E f \in DOMAIN u.functions : \E i \in DOMAIN u.functions[f].upvalues :
               s = Upvalue(f, i) /\ u.functions[f].upvalues[i] = v
  <2>1. PICK f \in DOMAIN u.functions : \E i \in DOMAIN u.functions[f].upvalues :
               s = Upvalue(f, i) /\ u.functions[f].upvalues[i] = v
    BY <1>6
  <2>2. PICK i \in DOMAIN u.functions[f].upvalues : s = Upvalue(f, i) /\ u.functions[f].upvalues[i] = v
    BY <2>1
  <2>3. ReachedIn(u.functions, u.scopes, u.variables, f, i) = v
    BY <1>1, <1>2, <2>2, UpvalueReached
  <2>4. s.type = "SYM_UPVALUE" /\ s.function = f /\ s.index = i
    BY <2>2, SymbolFacts
  <2> QED BY <2>3, <2>4, <1>3, <1>4 DEF MeantIn
<1> QED BY <1>5, <1>6 DEF Reaches

-----------------------------------------------------------------------------
(* A reference is Abstract!Refer.                                          *)

(* The reference r points at a declaration of n.                           *)
Points(q, n, r) ==
    \E k, j : /\ AfterReference(r.tree, q, k, j, Entries(Tree, q[k])[j], n)
              /\ Reaches(r.tree, r.symbol, Entries(Tree, q[k])[j])
              /\ r.symbol \in Reference

(* A reference to a name that the search finds does.                       *)
LEMMA ReachedPoints ==
    ASSUME TreeOK(Tree), NEW q, Scoped(Tree, q, current_scope), current_scope \in DOMAIN scopes,
           current_function = scopes[current_scope].function,
           NEW n, search_for_variable(n) # NoSymbol
    PROVE  Points(q, n, Reached(search_for_variable(n), n))
<1> DEFINE s == search_for_variable(n)
<1>1. /\ Typed(Tree) /\ Linked(Tree) /\ IsPath(Tree, q, current_scope) /\ OuterOn(Tree, q)
      /\ Lists(Tree) /\ Parents(Tree) /\ Chained(Tree)
  BY DEF TreeOK, Scoped
<1>2. PICK k, j, a : Resolved(q, n, Len(q), s, k, j, a)
  BY <1>1, SearchPlace DEF Outcome
<1>3. current_function = FunctionAt(Tree, q, Len(q))
  BY <1>1 DEF IsPath, FunctionAt, Tree
<1>4. current_function \in DOMAIN functions
  BY <1>1 DEF Linked, ScopesLinked, Tree
<1>5. Found(s, n)
  BY <1>1, SearchRight
<1> HIDE DEF s
<1>6. Recorded(Reached(s, n).tree) /\ Reached(s, n).symbol \in Reference
  BY <1>4, <1>5, ReachedRight
<1>7. CASE Owner(s) = current_function
  <2>1. Reached(s, n) = [tree |-> Tree, symbol |-> s]
    BY <1>7 DEF Reached, Tree
  <2>2. Referred(Tree, q, k, Entries(Tree, q[k])[j], s)
    BY <1>1, <1>2, <1>3, <1>7, ReferredHere
  <2>3. Reached(s, n).tree = Tree /\ Reached(s, n).symbol = s
    BY <2>1
  <2> QED BY <2>2, <2>3, <1>2, <1>6 DEF Points, AfterReference, Referred, Recorded, Resolved, s
<1>8. CASE Owner(s) # current_function
  <2>1. Referred(Reached(s, n).tree, q, k, Entries(Tree, q[k])[j], Reached(s, n).symbol)
    BY <1>1, <1>2, <1>3, <1>8, ReferredOutside
  <2> QED BY <2>1, <1>2, <1>6 DEF Points, AfterReference, Referred, Recorded, Resolved, s
<1> QED BY <1>7, <1>8 DEF s

(* The tree after a reference.                                             *)
LEMMA TreeBecomes ==
    ASSUME IInv, NEW n, BecomeTree(new_symbol_reference(n).tree)
    PROVE  Tree' = new_symbol_reference(n).tree
<1> DEFINE r == new_symbol_reference(n)
<1>1. r.tree = [functions |-> r.tree.functions, scopes |-> r.tree.scopes,
                variables |-> r.tree.variables]
  BY InvFacts, ReferenceRight
<1>2. functions' = r.tree.functions /\ scopes' = r.tree.scopes /\ variables' = r.tree.variables
  BY DEF BecomeTree
<1>3. Tree' = [functions |-> functions', scopes |-> scopes', variables |-> variables']
  BY DEF Tree
<1> HIDE DEF r
<1>4. Tree' = r.tree
  BY <1>1, <1>2, <1>3
<1> QED BY <1>4 DEF r

(* The frames before and after a step.                                     *)
LEMMA FramesNow ==
    ASSUME TreeOK(Tree), NEW q, IsPath(Tree, q, current_scope)
    PROVE  Frames = Environment(Tree, q)
<1>1. Typed(Tree) /\ ScopesLinked(Tree)
  BY DEF TreeOK, Linked
<1>2. FramesOf(Tree.scopes, Tree.variables, current_scope) = Environment(Tree, q)
  BY <1>1, FramesRight
<1> QED BY <1>2, FramesAre DEF Tree

(* Afterwards.                                                             *)
LEMMA FramesNext ==
    ASSUME NEW u, Tree' = u, TreeOK(u), NEW q, IsPath(u, q, current_scope')
    PROVE  Frames' = Environment(u, q)
<1>1. Typed(u) /\ ScopesLinked(u)
  BY DEF TreeOK, Linked
<1>2. FramesOf(u.scopes, u.variables, current_scope') = Environment(u, q)
  BY <1>1, FramesRight
<1>3. u.scopes = scopes' /\ u.variables = variables'
  BY TreePrime
<1> QED BY <1>2, <1>3, FramesAre

(* Refer of Scoping, written out.                                          *)
LEMMA Refers ==
    ASSUME NEW n \in Names, NEW v, NEW g, v = Abstract!Innermost(Frames, n),
           g = IF v = <<0, 0>> THEN Abstract!Innermost(Frames, ENV) ELSE <<0, 0>>,
           Meaning' = [variable |-> v, env |-> g],
           Frames' = Abstract!Captured(Frames, {v, g} \ {<<0, 0>>})
    PROVE  Abstract!Refer
BY DEF Abstract!Refer, Abstract!NOWHERE, Meaning

(* A reference to the declaration (k, j) captures that place, which is     *)
(* the innermost one.                                                      *)
LEMMA ReferencePoints ==
    ASSUME IInv, NEW q, Scoped(Tree, q, current_scope), NEW n \in Names,
           NEW m, NEW k, NEW j, current_scope' = current_scope,
           AfterReference(Tree', q, k, j, Entries(Tree, q[k])[j], m)
    PROVE  /\ Scoped(Tree', q, current_scope)
           /\ Frames' = Abstract!Captured(Frames, {<<k, j>>})
           /\ Abstract!Innermost(Frames, m) = <<k, j>>
           /\ <<k, j>> # <<0, 0>>
<1> DEFINE v == Entries(Tree, q[k])[j]
<1>1. /\ IsPath(Tree, q, current_scope) /\ Typed(Tree) /\ Linked(Tree) /\ TreeOK(Tree)
      /\ IsLatest(Tree, q, Len(q), m, k, j)
  BY InvFacts DEF Scoped, TreeOK, AfterReference
<1>2. Scoped(Tree', q, current_scope)
  BY AfterScoped
<1>3. Environment(Tree', q) = Abstract!Captured(Environment(Tree, q), {<<k, j>>})
  BY AfterEnvironment
<1>4. Frames = Environment(Tree, q)
  BY <1>1, FramesNow
<1>5. Abstract!Innermost(Environment(Tree, q), m) = <<k, j>>
  BY <1>1, InnermostFound
<1>6. k # 0
  <2>1. k \in 1 .. Len(q) /\ Len(q) \in Nat
    BY AfterFacts
  <2> QED BY <2>1
<1>7. <<k, j>> # <<0, 0>>
  BY <1>6
<1>8. Frames' = Environment(Tree', q)
  <2>1. IsPath(Tree', q, current_scope) /\ TreeOK(Tree') /\ current_scope' = current_scope
    BY <1>2 DEF Scoped, AfterReference
  <2> QED BY <2>1, FramesNext
<1> QED BY <1>2, <1>3, <1>4, <1>5, <1>7, <1>8

(* A name that has a declaration means it; one that has none is a field    *)
(* of _ENV.                                                                *)
LEMMA ReferStep ==
    ASSUME IInv, NEW q, Scoped(Tree, q, current_scope), NEW n \in Names,
           BecomeTree(new_symbol_reference(n).tree), var' = new_symbol_reference(n).symbol,
           current_scope' = current_scope
    PROVE  Scoped(Tree', q, current_scope') /\ Abstract!Refer
<1> DEFINE r == new_symbol_reference(n)
           s == search_for_variable(n)
           e == Reached(search_for_variable(ENV), ENV)
<1>1. /\ TreeOK(Tree) /\ current_scope \in DOMAIN scopes
      /\ current_function = scopes[current_scope].function
      /\ Typed(Tree) /\ Linked(Tree) /\ IsPath(Tree, q, current_scope) /\ OuterOn(Tree, q)
      /\ ENV \in Names
  BY InvFacts, ResolverAssumption DEF Scoped, TreeOK
<1>2. Tree' = r.tree /\ var' = r.symbol
  BY TreeBecomes
<1>3. TreeOK(Tree') /\ current_scope \in DOMAIN scopes'
  BY ReferenceStep
<1>4. Tree'.functions = functions' /\ Tree'.scopes = scopes' /\ Tree'.variables = variables'
  BY TreePrime
<1>5. CASE s # NoSymbol
  <2>1. r = Reached(s, n)
    BY <1>5 DEF new_symbol_reference
  <2>2. Points(q, n, Reached(s, n))
    BY <1>1, <1>5, ReachedPoints
  <2> HIDE DEF r, s, e
  <2>3. PICK k, j : /\ AfterReference(r.tree, q, k, j, Entries(Tree, q[k])[j], n)
                    /\ Reaches(r.tree, r.symbol, Entries(Tree, q[k])[j])
                    /\ r.symbol \in Reference
    BY <2>1, <2>2 DEF Points
  <2>4. /\ AfterReference(Tree', q, k, j, Entries(Tree, q[k])[j], n)
        /\ Reaches(Tree', var', Entries(Tree, q[k])[j]) /\ var' \in Reference
    BY <2>3, <1>2
  <2>5. /\ Scoped(Tree', q, current_scope)
        /\ Frames' = Abstract!Captured(Frames, {<<k, j>>})
        /\ Abstract!Innermost(Frames, n) = <<k, j>> /\ <<k, j>> # <<0, 0>>
    BY <2>4, <1>1, ReferencePoints
  <2>6. MeantIn(Tree'.functions, Tree'.scopes, Tree'.variables, var') = <<k, j>>
    BY <2>4, MeantRight
  <2>7. var'.type # "SYM_GLOBAL"
    BY <2>4 DEF Reference
  <2>8. Meaning' = [variable |-> <<k, j>>, env |-> <<0, 0>>]
    BY <2>6, <2>7, <1>4, MeaningIs DEF MeaningIn
  <2>9. {<<k, j>>, <<0, 0>>} \ {<<0, 0>>} = {<<k, j>>}
    BY <2>5
  <2>10. Abstract!Refer
    BY <2>5, <2>8, <2>9, Refers
  <2> QED BY <2>5, <2>10
<1>6. CASE s = NoSymbol
  <2>1. search_for_variable(ENV) # NoSymbol
    BY <1>1, SearchRight
  <2>2. Points(q, ENV, e)
    BY <1>1, <2>1, ReachedPoints
  <2>3. e = [tree |-> e.tree, symbol |-> e.symbol]
    BY DEF Reached
  <2>4. r = [e EXCEPT !.symbol = Global(e.symbol)]
    BY <1>6 DEF new_symbol_reference
  <2>5. Abstract!Innermost(Frames, n) = <<0, 0>>
    <3>1. Outcome(q, n, Len(q), s)
      BY <1>1, SearchPlace
    <3>2. \A k, j, a : ~ Resolved(q, n, Len(q), s, k, j, a)
      BY <1>6, SymbolFacts DEF Resolved
    <3>3. Undeclared(Tree, q, Len(q), n)
      BY <3>1, <3>2 DEF Outcome
    <3>4. Abstract!Innermost(Environment(Tree, q), n) = <<0, 0>>
      BY <1>1, <3>3, InnermostNone
    <3> QED BY <3>4, <1>1, FramesNow
  <2> HIDE DEF r, s, e
  <2>6. r.tree = e.tree /\ r.symbol = Global(e.symbol)
    BY <2>3, <2>4
  <2>7. PICK k, j : /\ AfterReference(e.tree, q, k, j, Entries(Tree, q[k])[j], ENV)
                    /\ Reaches(e.tree, e.symbol, Entries(Tree, q[k])[j])
    BY <2>2 DEF Points
  <2>8. /\ AfterReference(Tree', q, k, j, Entries(Tree, q[k])[j], ENV)
        /\ Reaches(Tree', e.symbol, Entries(Tree, q[k])[j])
    BY <2>7, <2>6, <1>2
  <2>9. /\ Scoped(Tree', q, current_scope)
        /\ Frames' = Abstract!Captured(Frames, {<<k, j>>})
        /\ Abstract!Innermost(Frames, ENV) = <<k, j>> /\ <<k, j>> # <<0, 0>>
    BY <2>8, <1>1, ReferencePoints
  <2>10. MeantIn(Tree'.functions, Tree'.scopes, Tree'.variables, e.symbol) = <<k, j>>
    BY <2>8, MeantRight
  <2>11. var'.type = "SYM_GLOBAL" /\ var'.env = e.symbol
    BY <2>6, <1>2, SymbolFacts
  <2>12. MeantIn(Tree'.functions, Tree'.scopes, Tree'.variables, var') = <<0, 0>>
    BY <2>11 DEF MeantIn
  <2>13. Meaning' = [variable |-> <<0, 0>>, env |-> <<k, j>>]
    BY <2>10, <2>11, <2>12, <1>4, MeaningIs DEF MeaningIn
  <2>14. {<<0, 0>>, <<k, j>>} \ {<<0, 0>>} = {<<k, j>>}
    BY <2>9
  <2>15. Abstract!Refer
    BY <2>5, <2>9, <2>13, <2>14, Refers
  <2> QED BY <2>9, <2>15
<1> QED BY <1>5, <1>6

-----------------------------------------------------------------------------
(* What every other action leaves as it is.                                *)

(* Variables keep their names, scopes and marks.                           *)
VariablesStay(t, u) ==
    \A v \in DOMAIN t.variables :
        /\ v \in DOMAIN u.variables
        /\ u.variables[v].name = t.variables[v].name
        /\ u.variables[v].block = t.variables[v].block
        /\ u.variables[v].escaped = t.variables[v].escaped

(* Scopes keep their places.                                               *)
ScopesStay(t, u) ==
    \A s \in DOMAIN t.scopes :
        /\ s \in DOMAIN u.scopes
        /\ u.scopes[s].function = t.scopes[s].function
        /\ u.scopes[s].parent = t.scopes[s].parent

(* Functions stay, and new ones have no upvalues.                          *)
FunctionsStay(t, u) ==
    /\ \A f \in DOMAIN t.functions : f \in DOMAIN u.functions /\ u.functions[f] = t.functions[f]
    /\ \A f \in DOMAIN u.functions \ DOMAIN t.functions :
           u.functions[f].upvalues = <<>> /\ u.functions[f].parent # NULL

(* So does the tree.                                                       *)
Stays(t, u) == VariablesStay(t, u) /\ ScopesStay(t, u) /\ FunctionsStay(t, u)

(* The upvalues stay chained.                                              *)
LEMMA StaysChained ==
    ASSUME NEW t, NEW u, TreeOK(t), Stays(t, u), Parents(t), Chained(t)
    PROVE  Chained(u)
<1>0. Typed(t) /\ Linked(t)
  BY DEF TreeOK
<1> SUFFICES ASSUME NEW f \in DOMAIN u.functions, NEW w \in ToSet(u.functions[f].upvalues)
             PROVE  /\ f = 1 => w = 1
                    /\ f # 1 => \/ OwnedBy(u, w, u.functions[f].parent)
                                \/ w \in ToSet(u.functions[u.functions[f].parent].upvalues)
  BY DEF Chained
<1>1. f \in DOMAIN t.functions /\ u.functions[f] = t.functions[f]
  <2>1. f \notin DOMAIN t.functions => u.functions[f].upvalues = <<>>
    BY DEF Stays, FunctionsStay
  <2>2. f \in DOMAIN t.functions
    BY <2>1, EmptySet
  <2> QED BY <2>2 DEF Stays, FunctionsStay
<1>2. w \in ToSet(t.functions[f].upvalues) /\ w \in DOMAIN t.variables
  BY <1>0, <1>1 DEF Linked, FunctionsLinked
<1>3. f = 1 => w = 1
  BY <1>1, <1>2 DEF Chained
<1>4. f # 1 => \/ OwnedBy(t, w, t.functions[f].parent)
               \/ w \in ToSet(t.functions[t.functions[f].parent].upvalues)
  BY <1>1, <1>2 DEF Chained
<1>5. f # 1 => t.functions[f].parent \in DOMAIN t.functions
  <2>1. f # 1 => t.functions[f].parent \in 0 .. f - 1 /\ t.functions[f].parent # 0
    BY <1>0, <1>1 DEF Linked, FunctionsLinked, Parents, NULL
  <2>2. DOMAIN t.functions = 1 .. Len(t.functions) /\ Len(t.functions) \in Nat
    BY <1>0 DEF Typed
  <2> QED BY <2>1, <2>2, <1>1
<1>6. f # 1 => u.functions[t.functions[f].parent] = t.functions[t.functions[f].parent]
  BY <1>5 DEF Stays, FunctionsStay
<1>7. OwnedBy(t, w, t.functions[f].parent) => OwnedBy(u, w, t.functions[f].parent)
  <2> SUFFICES ASSUME OwnedBy(t, w, t.functions[f].parent)
               PROVE  OwnedBy(u, w, t.functions[f].parent)
    OBVIOUS
  <2>1. w # 1 /\ t.scopes[t.variables[w].block].function = t.functions[f].parent
    BY DEF OwnedBy
  <2>2. t.variables[w].block \in DOMAIN t.scopes
    BY <1>0, <1>2, <2>1 DEF Linked, VariablesLinked, Locals
  <2>3. u.variables[w].block = t.variables[w].block
    BY <1>2 DEF Stays, VariablesStay
  <2>4. u.scopes[t.variables[w].block].function = t.scopes[t.variables[w].block].function
    BY <2>2 DEF Stays, ScopesStay
  <2> QED BY <2>1, <2>3, <2>4 DEF OwnedBy
<1> QED BY <1>1, <1>3, <1>4, <1>6, <1>7

(* A path w that follows q for m frames, and has at most one frame more.   *)
Follows(t, u, q, w, m) ==
    /\ m \in 2 .. Len(q) /\ Len(w) \in {m, m + 1}
    /\ \A l \in 1 .. m : w[l] = q[l]
    /\ Len(w) = m + 1 /\ IsRoot(u, w, m + 1) => u.functions[FunctionAt(u, w, m + 1)].upvalues = <<>>

(* Last declarations are the same on it.                                   *)
LEMMA DeclaredFollows ==
    ASSUME NEW t, NEW q, NEW w, NEW m \in Nat, \A l \in 1 .. m : w[l] = q[l],
           NEW v, DeclaredLast(t, q, m, v)
    PROVE  DeclaredLast(t, w, m, v)
<1>1. PICK k \in 1 .. m, j \in Nat :
          IsLatest(t, q, m, t.variables[v].name, k, j) /\ Entries(t, q[k])[j] = v
  BY DEF DeclaredLast
<1> DEFINE n == t.variables[v].name
<1>2. \A l \in 1 .. m : \A i : Stands(t, w, n, l, i) <=> Stands(t, q, n, l, i)
  BY DEF Stands
<1>3. Stands(t, q, n, k, j) /\ \A l \in k .. m : \A i : Stands(t, q, n, l, i) => l = k /\ i <= j
  BY <1>1 DEF IsLatest
<1> HIDE DEF n
<1>4. \A l \in k .. m : l \in 1 .. m
  BY <1>1
<1>5. IsLatest(t, w, m, n, k, j)
  BY <1>1, <1>2, <1>3, <1>4 DEF IsLatest
<1>6. Entries(t, w[k])[j] = v
  BY <1>1
<1> QED BY <1>5, <1>6 DEF DeclaredLast, n

(* So are the upvalues of the functions on it.                             *)
LEMMA StaysOuter ==
    ASSUME NEW t, NEW u, TreeOK(t), Stays(t, u), Parents(t), NEW q, NEW c, IsPath(t, q, c), OuterOn(t, q),
           NEW w, NEW m, Follows(t, u, q, w, m), FramesKept(t, u, q, m - 1)
    PROVE  OuterOn(u, w)
<1>0. /\ Typed(t) /\ Linked(t) /\ Len(q) \in Nat /\ Len(q) >= 2
      /\ m \in 2 .. Len(q) /\ m \in Nat /\ Len(w) \in {m, m + 1}
      /\ \A l \in 1 .. m : w[l] = q[l]
      /\ \A l \in 2 .. Len(q) : q[l] \in DOMAIN t.scopes
  <2>1. Typed(t) /\ Linked(t)
    BY DEF TreeOK
  <2> QED BY <2>1, PathFacts DEF Follows
<1> SUFFICES ASSUME NEW r \in 2 .. Len(w), IsRoot(u, w, r),
                    NEW v \in ToSet(u.functions[FunctionAt(u, w, r)].upvalues)
             PROVE  DeclaredLast(u, w, r - 1, v)
  BY DEF OuterOn
<1>1. r \in 2 .. m
  <2>1. r = m + 1 => Len(w) = m + 1 /\ u.functions[FunctionAt(u, w, m + 1)].upvalues = <<>>
    BY <1>0 DEF Follows
  <2>2. r # m + 1
    BY <2>1, EmptySet
  <2> QED BY <2>2, <1>0
<1>2. \A l \in 2 .. m : FunctionAt(u, w, l) = FunctionAt(t, q, l)
  <2>1. \A l \in 2 .. m : l \in 1 .. m /\ l \in 2 .. Len(q)
    BY <1>0
  <2> QED BY <2>1, <1>0 DEF FunctionAt, Stays, ScopesStay
<1>3. IsRoot(t, q, r)
  <2>1. r = 2 \/ r - 1 \in 2 .. m
    BY <1>0, <1>1
  <2> QED BY <2>1, <1>1, <1>2 DEF IsRoot
<1>4. FunctionAt(t, q, r) \in DOMAIN t.functions /\ r \in 2 .. Len(q)
  <2>1. r \in 2 .. Len(q)
    BY <1>0, <1>1
  <2> QED BY <2>1, <1>0, FunctionsAlong
<1>5. v \in ToSet(t.functions[FunctionAt(t, q, r)].upvalues)
  BY <1>1, <1>2, <1>4 DEF Stays, FunctionsStay
<1>6. v \in DOMAIN t.variables /\ u.variables[v].name = t.variables[v].name
  BY <1>0, <1>4, <1>5 DEF Linked, FunctionsLinked, Stays, VariablesStay
<1>7. DeclaredLast(t, q, r - 1, v)
  BY <1>3, <1>4, <1>5 DEF OuterOn
<1>8. r - 1 \in Nat /\ FramesKept(t, u, q, r - 1) /\ \A l \in 1 .. r - 1 : w[l] = q[l]
  <2>1. r - 1 \in Nat /\ \A l \in 1 .. r - 1 : l \in 1 .. m - 1 /\ l \in 1 .. m
    BY <1>0, <1>1
  <2> QED BY <2>1, <1>0 DEF FramesKept
<1>9. DeclaredLast(u, q, r - 1, v)
  BY <1>6, <1>7, <1>8, LatestKept
<1> QED BY <1>8, <1>9, DeclaredFollows

(* A scope with the same list has the same frame.                          *)
LEMMA FrameStays ==
    ASSUME NEW t, NEW u, TreeOK(t), Stays(t, u), NEW s \in DOMAIN t.scopes,
           u.scopes[s].symbol_list = t.scopes[s].symbol_list
    PROVE  FrameAt(u, s) = FrameAt(t, s)
<1>0. Typed(t) /\ Linked(t)
  BY DEF TreeOK
<1>1. DOMAIN t.scopes = 1 .. Len(t.scopes) /\ Len(t.scopes) \in Nat
  BY <1>0 DEF Typed
<1>2. t.scopes[s].parent # NULL => t.scopes[s].parent \in DOMAIN t.scopes
  <2>1. t.scopes[s].parent \in 0 .. s - 1
    BY <1>0 DEF Linked, ScopesLinked
  <2> QED BY <2>1, <1>1 DEF NULL
<1>3. \A v \in ToSet(t.scopes[s].symbol_list) : v \in DOMAIN t.variables
  BY <1>0 DEF Linked, ScopesLinked, Locals
<1>4. ScopeKept(t, u, s)
  BY <1>2, <1>3 DEF ScopeKept, Stays, ScopesStay, VariablesStay
<1>5. EscapedAlike(t, u, s)
  BY <1>3 DEF Stays, VariablesStay, EscapedAlike
<1>6. s # NULL
  BY <1>1 DEF NULL
<1>7. FrameOf(u.scopes, u.variables, s) = FrameOf(t.scopes, t.variables, s)
  <2>1. FrameAs(t, u, s)
    BY <1>4, FrameKept
  <2> QED BY <2>1, <1>5 DEF FrameAs
<1> QED BY <1>6, <1>7 DEF FrameAt

(* A new scope that begins a function lies in the parent of the function.  *)
NewParents(t, u) ==
    \A s \in DOMAIN u.scopes \ DOMAIN t.scopes :
        LET p == u.scopes[s].parent
        IN  p # NULL /\ u.scopes[p].function # u.scopes[s].function
                => u.functions[u.scopes[s].function].parent = u.scopes[p].function

(* The functions stay nested.                                              *)
LEMMA StaysParents ==
    ASSUME NEW t, NEW u, TreeOK(t), Stays(t, u), Parents(t), NewParents(t, u)
    PROVE  Parents(u)
<1>0. Typed(t) /\ Linked(t)
  BY DEF TreeOK
<1>1. ASSUME NEW f \in DOMAIN u.functions \ {1}
      PROVE  u.functions[f].parent # NULL
  <2>1. CASE f \in DOMAIN t.functions
    BY <2>1 DEF Parents, Stays, FunctionsStay
  <2>2. CASE f \notin DOMAIN t.functions
    BY <2>2 DEF Stays, FunctionsStay
  <2> QED BY <2>1, <2>2
<1>2. ASSUME NEW s \in DOMAIN u.scopes, u.scopes[s].parent # NULL,
             u.scopes[u.scopes[s].parent].function # u.scopes[s].function
      PROVE  u.functions[u.scopes[s].function].parent = u.scopes[u.scopes[s].parent].function
  <2>1. CASE s \in DOMAIN t.scopes
    <3>1. u.scopes[s].parent = t.scopes[s].parent /\ u.scopes[s].function = t.scopes[s].function
      BY <2>1 DEF Stays, ScopesStay
    <3>2. t.scopes[s].parent \in DOMAIN t.scopes
      <4>1. t.scopes[s].parent \in 0 .. s - 1 /\ t.scopes[s].parent # 0
        BY <1>0, <1>2, <2>1, <3>1 DEF Linked, ScopesLinked, NULL
      <4>2. DOMAIN t.scopes = 1 .. Len(t.scopes) /\ Len(t.scopes) \in Nat
        BY <1>0 DEF Typed
      <4> QED BY <2>1, <4>1, <4>2
    <3>3. u.scopes[t.scopes[s].parent].function = t.scopes[t.scopes[s].parent].function
      BY <3>2 DEF Stays, ScopesStay
    <3>4. t.functions[t.scopes[s].function].parent = t.scopes[t.scopes[s].parent].function
      BY <1>2, <2>1, <3>1, <3>3 DEF Parents
    <3>5. t.scopes[s].function \in DOMAIN t.functions
      BY <1>0, <2>1 DEF Linked, ScopesLinked
    <3>6. u.functions[t.scopes[s].function] = t.functions[t.scopes[s].function]
      BY <3>5 DEF Stays, FunctionsStay
    <3> QED BY <3>1, <3>3, <3>4, <3>6
  <2>2. CASE s \notin DOMAIN t.scopes
    BY <1>2, <2>2 DEF NewParents
  <2> QED BY <2>1, <2>2
<1> QED BY <1>1, <1>2 DEF Parents

(* A path stays one.                                                       *)
LEMMA StaysPath ==
    ASSUME NEW t, NEW u, Stays(t, u), NEW q, NEW c, IsPath(t, q, c)
    PROVE  IsPath(u, q, c)
BY DEF IsPath, Stays, ScopesStay

(* A scope keeps its list.                                                 *)
ListKept(t, u, s) == u.scopes[s].symbol_list = t.scopes[s].symbol_list

(* The frames with the same entries, those up to the m-th.                 *)
LEMMA StaysFrames ==
    ASSUME NEW t, NEW u, TreeOK(t), Stays(t, u), NEW q, NEW c, IsPath(t, q, c), NEW m \in 1 .. Len(q),
           \A l \in 2 .. m : ListKept(t, u, q[l])
    PROVE  /\ FramesKept(t, u, q, m)
           /\ \A l \in 1 .. m : FrameAt(u, q[l]) = FrameAt(t, q[l])
<1>0. /\ Typed(t) /\ Linked(t) /\ Len(q) \in Nat /\ q[1] = NULL
      /\ \A l \in 2 .. Len(q) : q[l] # NULL /\ q[l] \in DOMAIN t.scopes
  <2>1. Typed(t) /\ Linked(t)
    BY DEF TreeOK
  <2>2. Len(q) \in Nat /\ q[1] = NULL
    BY <2>1, PathFacts
  <2>3. \A l \in 2 .. Len(q) : q[l] # NULL /\ q[l] \in DOMAIN t.scopes
    BY <2>1, PathFacts
  <2> QED BY <2>1, <2>2, <2>3
<1> SUFFICES ASSUME NEW l \in 1 .. m
             PROVE  /\ Entries(u, q[l]) = Entries(t, q[l])
                    /\ \A i \in DOMAIN Entries(t, q[l]) :
                           u.variables[Entries(t, q[l])[i]].name = t.variables[Entries(t, q[l])[i]].name
                    /\ FrameAt(u, q[l]) = FrameAt(t, q[l])
  BY DEF FramesKept
<1>1. l = 1 \/ (l \in 2 .. m /\ l \in 2 .. Len(q))
  BY <1>0
<1>2. Entries(u, q[l]) = Entries(t, q[l])
  BY <1>0, <1>1 DEF Entries, ListKept
<1>3. \A i \in DOMAIN Entries(t, q[l]) : Entries(t, q[l])[i] \in DOMAIN t.variables
  <2>1. l \in 1 .. Len(q)
    BY <1>0
  <2>2. ListAt(t, q, l)
    BY <1>0, <2>1, ListOn
  <2> QED BY <2>2 DEF ListAt, EntryAt
<1>4. FrameAt(u, q[l]) = FrameAt(t, q[l])
  <2>1. CASE l = 1
    BY <1>0, <2>1 DEF FrameAt
  <2>2. CASE l # 1
    <3>1. q[l] \in DOMAIN t.scopes /\ u.scopes[q[l]].symbol_list = t.scopes[q[l]].symbol_list
      BY <1>0, <1>1, <2>2 DEF ListKept
    <3> QED BY <3>1, FrameStays
  <2> QED BY <2>1, <2>2
<1> QED BY <1>2, <1>3, <1>4 DEF Stays, VariablesStay

(* An action that declares nothing.                                        *)
PassTree(t, u) ==
    /\ Stays(t, u) /\ DOMAIN u.scopes = DOMAIN t.scopes
    /\ \A s \in DOMAIN t.scopes : ListKept(t, u, s)

(* The environment stays.                                                  *)
LEMMA PassScoped ==
    ASSUME NEW t, NEW u, TreeOK(t), PassTree(t, u), NEW q, NEW c, Scoped(t, q, c)
    PROVE  Scoped(u, q, c) /\ Environment(u, q) = Environment(t, q)
<1>1. /\ Typed(t) /\ Linked(t) /\ Stays(t, u)
      /\ IsPath(t, q, c) /\ OuterOn(t, q) /\ Lists(t) /\ Parents(t) /\ Chained(t)
  BY DEF TreeOK, PassTree, Scoped
<1>2. Len(q) \in Nat /\ Len(q) >= 2 /\ \A l \in 2 .. Len(q) : q[l] \in DOMAIN t.scopes
  BY <1>1, PathFacts
<1>3. \A l \in 2 .. Len(q) : ListKept(t, u, q[l])
  BY <1>2 DEF PassTree
<1>4. FramesKept(t, u, q, Len(q)) /\ \A l \in 1 .. Len(q) : FrameAt(u, q[l]) = FrameAt(t, q[l])
  <2>1. Len(q) \in 1 .. Len(q)
    BY <1>2
  <2> QED BY <1>1, <1>3, <2>1, StaysFrames
<1>5. IsPath(u, q, c)
  BY <1>1, StaysPath
<1>6. Parents(u)
  <2>1. NewParents(t, u)
    BY DEF NewParents, PassTree
  <2> QED BY <1>1, <2>1, StaysParents
<1>7. Chained(u)
  BY <1>1, StaysChained
<1>8. Lists(u)
  BY <1>1 DEF Lists, PassTree, ListKept
<1>9. OuterOn(u, q)
  <2> DEFINE m == Len(q)
  <2>1. Follows(t, u, q, q, m)
    BY <1>2 DEF Follows
  <2>2. FramesKept(t, u, q, m - 1)
    <3>1. \A l \in 1 .. m - 1 : l \in 1 .. m
      BY <1>2
    <3> QED BY <3>1, <1>4 DEF FramesKept
  <2> HIDE DEF m
  <2> QED BY <1>1, <2>1, <2>2, StaysOuter
<1> QED BY <1>4, <1>5, <1>6, <1>7, <1>8, <1>9 DEF Scoped, Environment

(* An action that declares a variable in the scope c.                      *)
DeclareTree(t, u, c, v) ==
    /\ Stays(t, u) /\ DOMAIN u.scopes = DOMAIN t.scopes
    /\ \A s \in DOMAIN t.scopes \ {c} : ListKept(t, u, s)
    /\ u.scopes[c].symbol_list = Append(t.scopes[c].symbol_list, v)
    /\ v \in Nat /\ v \notin ToSet(t.scopes[c].symbol_list)
    /\ ~ u.variables[v].escaped

(* A frame with one more name.                                             *)
Naming(F, n) == [function |-> F.function, names |-> Append(F.names, n), captured |-> F.captured]

(* The frame of c gets the name of v.                                      *)
NameAdded(t, u, c, v) == FrameAt(u, c) = Naming(FrameAt(t, c), u.variables[v].name)

(* So it is when v is declared in it.                                      *)
LEMMA DeclaredFrame ==
    ASSUME NEW t, NEW u, TreeOK(t), NEW c \in DOMAIN t.scopes, NEW v, DeclareTree(t, u, c, v)
    PROVE  NameAdded(t, u, c, v)
<1> DEFINE list == t.scopes[c].symbol_list
           more == u.scopes[c].symbol_list
           p == t.scopes[c].parent
           n == u.variables[v].name
           B(w) == w.scopes[c].parent = NULL \/ w.scopes[w.scopes[c].parent].function # w.scopes[c].function
           N(w) == [i \in DOMAIN w.scopes[c].symbol_list |-> w.variables[w.scopes[c].symbol_list[i]].name]
<1>0. /\ Typed(t) /\ Linked(t) /\ Stays(t, u) /\ more = Append(list, v) /\ v \in Nat /\ ~ u.variables[v].escaped
  BY DEF TreeOK, DeclareTree
<1>1. DOMAIN t.scopes = 1 .. Len(t.scopes) /\ Len(t.scopes) \in Nat
  BY <1>0 DEF Typed
<1>2. c # NULL
  BY <1>1 DEF NULL
<1>3. list \in Seq(Nat)
  <2>1. t.scopes[c] \in ScopeType
    BY <1>0 DEF Typed
  <2> QED BY <2>1 DEF ScopeType
<1>4. \A i \in DOMAIN list : list[i] \in DOMAIN t.variables
  BY <1>0 DEF Linked, ScopesLinked, Locals, ToSet
<1>5. /\ DOMAIN list = 1 .. Len(list) /\ Len(list) \in Nat
      /\ DOMAIN more = 1 .. Len(list) + 1
      /\ \A i \in 1 .. Len(list) : more[i] = list[i]
      /\ more[Len(list) + 1] = v
  <2> HIDE DEF list, more
  <2>1. DOMAIN list = 1 .. Len(list) /\ Len(list) \in Nat
    BY <1>3
  <2> QED BY <1>0, <1>3, <2>1, AppendedTo
<1>6. B(u) = B(t)
  <2>1. B(u) \in BOOLEAN /\ B(t) \in BOOLEAN
    OBVIOUS
  <2>2. p # NULL => p \in DOMAIN t.scopes
    <3>1. p \in 0 .. c - 1
      BY <1>0 DEF Linked, ScopesLinked
    <3> HIDE DEF p
    <3> QED BY <3>1, <1>1 DEF NULL
  <2>3. B(u) <=> B(t)
    BY <1>0, <2>2 DEF Stays, ScopesStay
  <2> HIDE DEF B
  <2> QED BY <2>1, <2>3
<1>7. CapturedIn(u, c) = CapturedIn(t, c)
  <2>1. \A i \in DOMAIN list : u.variables[list[i]].escaped = t.variables[list[i]].escaped
    BY <1>0, <1>4 DEF Stays, VariablesStay
  <2>2. CapturedIn(u, c) = {i \in DOMAIN more : u.variables[more[i]].escaped}
        /\ CapturedIn(t, c) = {i \in DOMAIN list : t.variables[list[i]].escaped}
    BY DEF CapturedIn
  <2> HIDE DEF list, more
  <2> QED BY <1>0, <1>5, <2>1, <2>2
<1>8. \A i \in DOMAIN list : u.variables[list[i]].name = t.variables[list[i]].name
  BY <1>0, <1>4 DEF Stays, VariablesStay
<1>9. N(u) = Append(N(t), n)
  <2> DEFINE a == N(t)
             l == Len(list)
             S == {t.variables[list[i]].name : i \in 1 .. l} \cup {n}
  <2>1. N(u) = [i \in DOMAIN more |-> u.variables[more[i]].name]
        /\ a = [i \in DOMAIN list |-> t.variables[list[i]].name]
    OBVIOUS
  <2> HIDE DEF N, list, more, a, n
  <2>2. a = [i \in 1 .. l |-> t.variables[list[i]].name] /\ l \in Nat
    BY <1>5, <2>1
  <2>3. \A i \in 1 .. l : t.variables[list[i]].name \in S
    OBVIOUS
  <2>4. n \in S
    OBVIOUS
  <2> HIDE DEF S, l
  <2>5. a \in Seq(S) /\ Len(a) = l
    BY <2>2, <2>3
  <2>6. /\ Append(a, n) \in Seq(S) /\ DOMAIN Append(a, n) = 1 .. l + 1
        /\ \A i \in 1 .. l : Append(a, n)[i] = a[i]
        /\ Append(a, n)[l + 1] = n
    BY <2>4, <2>5, AppendedTo
  <2>7. \A i \in 1 .. l + 1 : Append(a, n)[i] = u.variables[more[i]].name
    <3>1. \A i \in 1 .. l : a[i] = t.variables[list[i]].name
      BY <2>2
    <3> QED BY <2>2, <2>6, <3>1, <1>5, <1>8 DEF l, n
  <2>8. Append(a, n) = [i \in 1 .. l + 1 |-> Append(a, n)[i]]
    <3> DEFINE b == Append(a, n)
    <3>1. b \in Seq(S) /\ DOMAIN b = 1 .. l + 1
      BY <2>6
    <3> HIDE DEF b
    <3>2. b = [i \in DOMAIN b |-> b[i]]
      BY <3>1
    <3>3. b = [i \in 1 .. l + 1 |-> b[i]]
      BY <3>1, <3>2
    <3> QED BY <3>3 DEF b
  <2>9. DOMAIN more = 1 .. l + 1
    BY <1>5 DEF l
  <2>10. N(u) = Append(a, n)
    BY <2>1, <2>7, <2>8, <2>9, Zenon
  <2> QED BY <2>10 DEF a
<1>10. FrameAt(u, c) = [function |-> B(u), names |-> N(u), captured |-> CapturedIn(u, c)]
       /\ FrameAt(t, c) = [function |-> B(t), names |-> N(t), captured |-> CapturedIn(t, c)]
  BY <1>2 DEF FrameAt, FrameOf, CapturedIn
<1> HIDE DEF B, N, n
<1> QED BY <1>6, <1>7, <1>9, <1>10 DEF NameAdded, Naming, n

(* A list without repetitions, and one more element.                       *)
LEMMA Injective ==
    ASSUME NEW l \in Seq(Nat), NEW v \in Nat, v \notin ToSet(l),
           \A i, j \in DOMAIN l : l[i] = l[j] => i = j
    PROVE  \A i, j \in DOMAIN Append(l, v) : Append(l, v)[i] = Append(l, v)[j] => i = j
<1>1. /\ DOMAIN Append(l, v) = 1 .. Len(l) + 1 /\ DOMAIN l = 1 .. Len(l) /\ Len(l) \in Nat
      /\ \A i \in 1 .. Len(l) : Append(l, v)[i] = l[i]
      /\ Append(l, v)[Len(l) + 1] = v
  BY AppendedTo
<1>2. \A i \in 1 .. Len(l) : l[i] # v
  BY <1>1 DEF ToSet
<1> DEFINE a == Append(l, v)
<1> HIDE DEF a
<1>3. /\ DOMAIN a = 1 .. Len(l) + 1 /\ \A i \in 1 .. Len(l) : a[i] = l[i] /\ a[Len(l) + 1] = v
  BY <1>1 DEF a
<1>4. a[Len(l) + 1] = v
  BY <1>1 DEF a
<1>5. \A i, j \in DOMAIN a : a[i] = a[j] => i = j
  BY <1>1, <1>2, <1>3, <1>4
<1> QED BY <1>5 DEF a

(* Only the innermost frame changes.                                       *)
DeclaredIn(t, u, q, v) ==
    /\ Len(q) \in Nat /\ Len(q) >= 2
    /\ \A l \in 1 .. Len(q) :
           FrameAt(u, q[l]) = IF l = Len(q) THEN Naming(FrameAt(t, q[l]), u.variables[v].name)
                              ELSE FrameAt(t, q[l])

(* The environment after a declaration.                                    *)
LEMMA DeclareScoped ==
    ASSUME NEW t, NEW u, TreeOK(t), NEW q, NEW c, Scoped(t, q, c), NEW v, DeclareTree(t, u, c, v)
    PROVE  Scoped(u, q, c) /\ DeclaredIn(t, u, q, v)
<1>1. /\ Typed(t) /\ Linked(t) /\ Stays(t, u)
      /\ IsPath(t, q, c) /\ OuterOn(t, q) /\ Lists(t) /\ Parents(t) /\ Chained(t)
  BY DEF TreeOK, DeclareTree, Scoped
<1> DEFINE m == Len(q) - 1
<1>2. /\ Len(q) \in Nat /\ Len(q) >= 2 /\ q[Len(q)] = c /\ c \in DOMAIN t.scopes
      /\ \A l \in 2 .. Len(q) : q[l] \in DOMAIN t.scopes
      /\ m \in 1 .. Len(q)
  <2>1. Len(q) \in Nat /\ Len(q) >= 2 /\ q[Len(q)] = c /\ c \in DOMAIN t.scopes
    BY <1>1, PathFacts
  <2>2. \A l \in 2 .. Len(q) : q[l] \in DOMAIN t.scopes
    BY <1>1, PathFacts
  <2> QED BY <2>1, <2>2
<1>3. \A l \in 2 .. m : ListKept(t, u, q[l])
  <2> SUFFICES ASSUME NEW l \in 2 .. m PROVE ListKept(t, u, q[l])
    OBVIOUS
  <2>1. l \in 1 .. Len(q) /\ Len(q) \in 1 .. Len(q) /\ l # Len(q) /\ l \in 2 .. Len(q)
    BY <1>2
  <2>2. DepthOf(t.scopes, q[l]) = l /\ DepthOf(t.scopes, q[Len(q)]) = Len(q)
    BY <1>1, <2>1, DepthRight DEF Linked
  <2>3. q[l] # c
    BY <1>2, <2>1, <2>2
  <2> QED BY <1>2, <2>1, <2>3 DEF DeclareTree
<1>4. FramesKept(t, u, q, m) /\ \A l \in 1 .. m : FrameAt(u, q[l]) = FrameAt(t, q[l])
  <2> HIDE DEF m
  <2> QED BY <1>1, <1>2, <1>3, StaysFrames
<1>5. IsPath(u, q, c)
  BY <1>1, StaysPath
<1>6. Parents(u)
  <2>1. NewParents(t, u)
    BY DEF NewParents, DeclareTree
  <2> QED BY <1>1, <2>1, StaysParents
<1>7. Chained(u)
  BY <1>1, StaysChained
<1>8. Lists(u)
  <2> SUFFICES ASSUME NEW s \in DOMAIN u.scopes
               PROVE  \A i, j \in DOMAIN u.scopes[s].symbol_list :
                          u.scopes[s].symbol_list[i] = u.scopes[s].symbol_list[j] => i = j
    BY DEF Lists
  <2>1. s \in DOMAIN t.scopes
    BY DEF DeclareTree
  <2>2. \A i, j \in DOMAIN t.scopes[s].symbol_list :
            t.scopes[s].symbol_list[i] = t.scopes[s].symbol_list[j] => i = j
    BY <1>1, <2>1 DEF Lists
  <2>3. CASE s # c
    BY <2>1, <2>2, <2>3 DEF DeclareTree, ListKept
  <2>4. CASE s = c
    <3>1. t.scopes[s] \in ScopeType
      BY <1>1, <2>1 DEF Typed
    <3>2. t.scopes[s].symbol_list \in Seq(Nat)
      BY <3>1 DEF ScopeType
    <3>3. u.scopes[s].symbol_list = Append(t.scopes[s].symbol_list, v) /\ v \in Nat
          /\ v \notin ToSet(t.scopes[s].symbol_list)
      BY <2>4 DEF DeclareTree
    <3> DEFINE l == t.scopes[s].symbol_list
    <3>4. l \in Seq(Nat) /\ v \in Nat /\ v \notin ToSet(l) /\ \A i, j \in DOMAIN l : l[i] = l[j] => i = j
      BY <2>2, <3>2, <3>3
    <3> HIDE DEF l
    <3>5. \A i, j \in DOMAIN Append(l, v) : Append(l, v)[i] = Append(l, v)[j] => i = j
      BY <3>4, Injective
    <3> QED BY <3>3, <3>5 DEF l
  <2> QED BY <2>3, <2>4
<1>9. OuterOn(u, q)
  <2> DEFINE k == Len(q)
  <2>1. Follows(t, u, q, q, k)
    BY <1>2 DEF Follows
  <2>2. FramesKept(t, u, q, k - 1)
    BY <1>4
  <2> HIDE DEF k
  <2> QED BY <1>1, <2>1, <2>2, StaysOuter
<1>10. FrameAt(u, c) = Naming(FrameAt(t, c), u.variables[v].name)
  <2>1. c \in DOMAIN t.scopes
    BY <1>2
  <2>2. NameAdded(t, u, c, v)
    BY <2>1, DeclaredFrame
  <2> QED BY <2>2 DEF NameAdded
<1>11. \A l \in 1 .. Len(q) : l = Len(q) \/ l \in 1 .. m
  BY <1>2
<1> QED BY <1>2, <1>4, <1>5, <1>6, <1>7, <1>8, <1>9, <1>10, <1>11 DEF Scoped, DeclaredIn

(* An action that opens the scope s in the scope c, with one name or none. *)
OneOrNone(u, list) ==
    \/ list = <<>>
    \/ \E v : list = <<v>> /\ ~ u.variables[v].escaped /\ u.variables[v].name \in Names

OpenTree(t, u, c, s) ==
    /\ Stays(t, u) /\ s \in Nat \ {NULL} /\ s \notin DOMAIN t.scopes /\ DOMAIN u.scopes = DOMAIN t.scopes \cup {s}
    /\ \A b \in DOMAIN t.scopes : ListKept(t, u, b)
    /\ u.scopes[s].parent = c /\ OneOrNone(u, u.scopes[s].symbol_list)
    /\ \/ u.scopes[s].function = t.scopes[c].function
       \/ /\ u.scopes[s].function \in DOMAIN u.functions \ DOMAIN t.functions
          /\ u.functions[u.scopes[s].function].parent = t.scopes[c].function

(* A frame with at most one name and nothing captured.                     *)
NewFrame(F) ==
    \E f \in BOOLEAN : \E ns \in {<<>>} \cup {<<n>> : n \in Names} :
        F = [function |-> f, names |-> ns, captured |-> {}]

(* The frame of a scope that opens is one.                                 *)
LEMMA OpenedFrame ==
    ASSUME NEW t, NEW u, NEW c, NEW s, OpenTree(t, u, c, s)
    PROVE  NewFrame(FrameAt(u, s))
<1> DEFINE list == u.scopes[s].symbol_list
           p == u.scopes[s].parent
           f == p = NULL \/ u.scopes[p].function # u.scopes[s].function
           N == [i \in DOMAIN list |-> u.variables[list[i]].name]
           C == {i \in DOMAIN list : u.variables[list[i]].escaped}
<1>1. FrameAt(u, s) = [function |-> f, names |-> N, captured |-> C]
  BY DEF FrameAt, FrameOf, OpenTree
<1>2. f \in BOOLEAN
  OBVIOUS
<1>3. OneOrNone(u, list)
  BY DEF OpenTree
<1>4. N \in {<<>>} \cup {<<n>> : n \in Names} /\ C = {}
  <2>1. CASE list = <<>>
    <3>1. DOMAIN list = {}
      BY <2>1
    <3> HIDE DEF list
    <3>2. N = <<>> /\ C = {}
      BY <3>1
    <3> QED BY <3>2
  <2>2. CASE \E v : list = <<v>> /\ ~ u.variables[v].escaped /\ u.variables[v].name \in Names
    <3>1. PICK v : list = <<v>> /\ ~ u.variables[v].escaped /\ u.variables[v].name \in Names
      BY <2>2
    <3>2. DOMAIN list = 1 .. 1 /\ list[1] = v
      BY <3>1
    <3> HIDE DEF list
    <3>3. C = {}
      BY <3>1, <3>2
    <3>4. N = <<u.variables[v].name>>
      BY <3>2
    <3> QED BY <3>1, <3>3, <3>4
  <2> QED BY <1>3, <2>1, <2>2, Zenon DEF OneOrNone
<1> HIDE DEF f, N, C
<1> QED BY <1>1, <1>2, <1>4 DEF NewFrame

(* A path with one more position.                                          *)
LEMMA Extend ==
    ASSUME NEW q \in Seq(Nat), NEW s \in Nat
    PROVE  /\ Append(q, s) \in Seq(Nat) /\ Len(Append(q, s)) = Len(q) + 1
           /\ \A l \in 1 .. Len(q) : Append(q, s)[l] = q[l]
           /\ Append(q, s)[Len(q) + 1] = s
OBVIOUS

(* The environment with one more frame.                                    *)
Opened(t, u, q, w, s) ==
    /\ Len(q) \in Nat /\ Len(q) >= 2 /\ Len(w) = Len(q) + 1 /\ w[Len(q) + 1] = s
    /\ \A l \in 1 .. Len(q) : FrameAt(u, w[l]) = FrameAt(t, q[l])

(* The environment in a scope that opens.                                  *)
LEMMA OpenScoped ==
    ASSUME NEW t, NEW u, TreeOK(t), NEW q, NEW c, Scoped(t, q, c), NEW s, OpenTree(t, u, c, s)
    PROVE  Scoped(u, Append(q, s), s) /\ Opened(t, u, q, Append(q, s), s)
<1> DEFINE w == Append(q, s)
           m == Len(q)
<1>1. /\ Typed(t) /\ Linked(t) /\ Stays(t, u)
      /\ IsPath(t, q, c) /\ OuterOn(t, q) /\ Lists(t) /\ Parents(t) /\ Chained(t)
  BY DEF TreeOK, OpenTree, Scoped
<1>2. /\ q \in Seq(Nat) /\ m \in Nat /\ m >= 2 /\ q[m] = c /\ q[1] = NULL /\ c \in DOMAIN t.scopes
      /\ m \in 1 .. m /\ \A l \in 2 .. m : q[l] \in DOMAIN t.scopes
  <2>1. q \in Seq(Nat) /\ m \in Nat /\ m >= 2 /\ q[m] = c /\ q[1] = NULL /\ c \in DOMAIN t.scopes
    BY <1>1, PathFacts
  <2>2. \A l \in 2 .. m : q[l] \in DOMAIN t.scopes
    BY <1>1, PathFacts
  <2> QED BY <2>1, <2>2
<1>3. s \in Nat /\ s \in DOMAIN u.scopes /\ u.scopes[s].parent = c
  BY DEF OpenTree
<1>4. /\ w \in Seq(Nat) /\ Len(w) = m + 1
      /\ \A l \in 1 .. m : w[l] = q[l]
      /\ w[m + 1] = s
  BY <1>2, <1>3, Extend
<1> HIDE DEF w
<1>5. FramesKept(t, u, q, m) /\ \A l \in 1 .. m : FrameAt(u, q[l]) = FrameAt(t, q[l])
  <2>1. \A l \in 2 .. m : ListKept(t, u, q[l])
    BY <1>2 DEF OpenTree
  <2> QED BY <1>1, <1>2, <2>1, StaysFrames
<1>6. IsPath(u, w, s)
  <2>1. IsPath(u, q, c)
    BY <1>1, StaysPath
  <2>2. ASSUME NEW l \in 2 .. Len(w)
        PROVE  w[l] \in DOMAIN u.scopes /\ u.scopes[w[l]].parent = w[l - 1]
    <3>1. CASE l = m + 1
      <4>1. w[l - 1] = c
        BY <3>1, <1>2, <1>4
      <4> QED BY <3>1, <4>1, <1>3, <1>4
    <3>2. CASE l # m + 1
      <4>1. l \in 2 .. m /\ l \in 1 .. m /\ l - 1 \in 1 .. m
        BY <3>2, <1>2, <1>4
      <4>2. w[l] = q[l] /\ w[l - 1] = q[l - 1]
        BY <4>1, <1>4
      <4>3. q[l] \in DOMAIN u.scopes /\ u.scopes[q[l]].parent = q[l - 1]
        BY <2>1, <4>1 DEF IsPath
      <4> QED BY <4>2, <4>3
    <3> QED BY <3>1, <3>2
  <2>3. w[1] = NULL /\ w[Len(w)] = s /\ Len(w) >= 2
    BY <1>2, <1>4
  <2> QED BY <1>4, <2>2, <2>3 DEF IsPath
<1>7. u.scopes[c].function = t.scopes[c].function
  BY <1>1, <1>2 DEF Stays, ScopesStay
<1>8. Parents(u)
  <2>1. NewParents(t, u)
    BY <1>7 DEF NewParents, OpenTree
  <2> QED BY <1>1, <2>1, StaysParents
<1>9. Chained(u)
  BY <1>1, StaysChained
<1>10. Lists(u)
  <2> SUFFICES ASSUME NEW b \in DOMAIN u.scopes
               PROVE  \A i, j \in DOMAIN u.scopes[b].symbol_list :
                          u.scopes[b].symbol_list[i] = u.scopes[b].symbol_list[j] => i = j
    BY DEF Lists
  <2>1. CASE b \in DOMAIN t.scopes
    <3>1. u.scopes[b].symbol_list = t.scopes[b].symbol_list
      BY <2>1 DEF OpenTree, ListKept
    <3> QED BY <1>1, <2>1, <3>1 DEF Lists
  <2>2. CASE b = s
    <3> DEFINE list == u.scopes[s].symbol_list
    <3>1. OneOrNone(u, list)
      BY DEF OpenTree
    <3> HIDE DEF list
    <3>2. DOMAIN list = {} \/ DOMAIN list = 1 .. 1
      BY <3>1 DEF OneOrNone
    <3>3. \A i, j \in DOMAIN list : i = j
      BY <3>2
    <3> QED BY <2>2, <3>3 DEF list
  <2> QED BY <2>1, <2>2 DEF OpenTree
<1>11. OuterOn(u, w)
  <2>1. Follows(t, u, q, w, m)
    <3>1. ASSUME IsRoot(u, w, m + 1)
          PROVE  u.functions[FunctionAt(u, w, m + 1)].upvalues = <<>>
      <4>1. FunctionAt(u, w, m + 1) = u.scopes[s].function
        BY <1>4 DEF FunctionAt
      <4>2. FunctionAt(u, w, m) = t.scopes[c].function
        BY <1>2, <1>4, <1>7 DEF FunctionAt
      <4>3. m + 1 # 2 /\ (m + 1) - 1 = m
        BY <1>2
      <4>4. u.scopes[s].function # t.scopes[c].function
        BY <3>1, <4>1, <4>2, <4>3 DEF IsRoot
      <4>5. u.scopes[s].function \in DOMAIN u.functions \ DOMAIN t.functions
        BY <4>4 DEF OpenTree
      <4> QED BY <4>1, <4>5, <1>1 DEF Stays, FunctionsStay
    <3>2. m \in 2 .. Len(q) /\ Len(w) \in {m, m + 1}
      BY <1>2, <1>4
    <3> QED BY <3>1, <3>2, <1>4 DEF Follows
  <2>2. FramesKept(t, u, q, m - 1)
    <3>1. \A l \in 1 .. m - 1 : l \in 1 .. m
      BY <1>2
    <3> QED BY <3>1, <1>5 DEF FramesKept
  <2> HIDE DEF m
  <2> QED BY <1>1, <2>1, <2>2, StaysOuter
<1>12. Opened(t, u, q, w, s)
  BY <1>2, <1>4, <1>5 DEF Opened
<1> QED BY <1>6, <1>8, <1>9, <1>10, <1>11, <1>12 DEF Scoped, w

(* An action that leaves the last scopes.                                  *)
LEMMA Prefix ==
    ASSUME NEW q \in Seq(Nat), NEW m \in 1 .. Len(q)
    PROVE  /\ SubSeq(q, 1, m) \in Seq(Nat) /\ Len(SubSeq(q, 1, m)) = m
           /\ \A l \in 1 .. m : SubSeq(q, 1, m)[l] = q[l]
OBVIOUS

(* The environment in a scope further out.                                 *)
LEMMA CloseScoped ==
    ASSUME NEW t, TreeOK(t), NEW q, NEW c, Scoped(t, q, c), NEW m \in 2 .. Len(q)
    PROVE  /\ Scoped(t, SubSeq(q, 1, m), q[m])
           /\ Len(SubSeq(q, 1, m)) = m /\ \A l \in 1 .. m : SubSeq(q, 1, m)[l] = q[l]
<1> DEFINE w == SubSeq(q, 1, m)
<1>1. /\ Typed(t) /\ IsPath(t, q, c) /\ OuterOn(t, q) /\ Lists(t) /\ Parents(t) /\ Chained(t)
  BY DEF TreeOK, Scoped
<1>2. q \in Seq(Nat) /\ Len(q) \in Nat /\ m \in 1 .. Len(q) /\ m \in Nat /\ q[1] = NULL
  <2>1. q \in Seq(Nat) /\ Len(q) \in Nat /\ q[1] = NULL
    BY <1>1, PathFacts
  <2> QED BY <2>1
<1>3. w \in Seq(Nat) /\ Len(w) = m /\ \A l \in 1 .. m : w[l] = q[l]
  BY <1>2, Prefix
<1> HIDE DEF w
<1>4. IsPath(t, w, q[m])
  <2>1. ASSUME NEW l \in 2 .. Len(w)
        PROVE  w[l] \in DOMAIN t.scopes /\ t.scopes[w[l]].parent = w[l - 1]
    <3>1. l \in 2 .. Len(q) /\ l \in 1 .. m /\ l - 1 \in 1 .. m
      BY <1>2, <1>3
    <3>2. w[l] = q[l] /\ w[l - 1] = q[l - 1]
      BY <1>3, <3>1
    <3> QED BY <1>1, <3>1, <3>2 DEF IsPath
  <2>2. Len(w) >= 2 /\ w[1] = NULL /\ w[Len(w)] = q[m]
    BY <1>2, <1>3
  <2> QED BY <1>3, <2>1, <2>2 DEF IsPath
<1>5. OuterOn(t, w)
  <2>1. Stays(t, t)
    BY DEF Stays, VariablesStay, ScopesStay, FunctionsStay
  <2>2. Follows(t, t, q, w, m)
    BY <1>2, <1>3 DEF Follows
  <2>3. FramesKept(t, t, q, m - 1)
    BY DEF FramesKept
  <2> QED BY <1>1, <2>1, <2>2, <2>3, StaysOuter
<1>6. Scoped(t, w, q[m])
  BY <1>1, <1>4, <1>5 DEF Scoped
<1> QED BY <1>3, <1>6 DEF w

-----------------------------------------------------------------------------
(* The other actions are those of Scoping.                                 *)

(* No name was just read.                                                  *)
LEMMA MeansNothing ==
    ASSUME var' = NoSymbol
    PROVE  Meaning' = [variable |-> <<0, 0>>, env |-> <<0, 0>>]
<1>1. var'.type = "NULL"
  BY SymbolFacts
<1> QED BY <1>1, MeaningIs DEF MeaningIn, MeantIn

(* The trees of two states of the invariant.                               *)
LEMMA InvTree ==
    ASSUME IInv, IInv'
    PROVE  TreeOK(Tree) /\ TreeOK(Tree')
BY DEF IInv

(* An action that leaves the environment as it is.                         *)
LEMMA PassStep ==
    ASSUME IInv, IInv', NEW q, Scoped(Tree, q, current_scope), PassTree(Tree, Tree'),
           current_scope' = current_scope, var' = NoSymbol
    PROVE  Scoped(Tree', q, current_scope') /\ Abstract!Pass
<1>1. TreeOK(Tree) /\ TreeOK(Tree')
  BY InvTree
<1>2. Scoped(Tree', q, current_scope) /\ Environment(Tree', q) = Environment(Tree, q)
  BY <1>1, PassScoped
<1>3. IsPath(Tree, q, current_scope) /\ IsPath(Tree', q, current_scope')
  BY <1>2 DEF Scoped
<1>4. Frames = Environment(Tree, q)
  BY <1>1, <1>3, FramesNow
<1>5. Frames' = Environment(Tree', q)
  BY <1>1, <1>3, FramesNext
<1>6. Meaning' = [variable |-> <<0, 0>>, env |-> <<0, 0>>]
  BY MeansNothing
<1>7. Abstract!Pass
  BY <1>2, <1>4, <1>5, <1>6 DEF Abstract!Pass, Abstract!NoName, Abstract!NOWHERE, Meaning
<1> QED BY <1>2, <1>7

(* A record with the fields of a frame.                                    *)
IsFrame(F) == F = [function |-> F.function, names |-> F.names, captured |-> F.captured]

(* Frames are.                                                             *)
LEMMA AllFrames ==
    ASSUME NEW t, NEW s
    PROVE  IsFrame(FrameAt(t, s))
<1>1. \A f, n, c : IsFrame([function |-> f, names |-> n, captured |-> c])
  BY DEF IsFrame
<1>2. IsFrame(Outside)
  BY <1>1, SMTT(30) DEF Outside
<1>3. IsFrame(FrameOf(t.scopes, t.variables, s))
  BY <1>1 DEF FrameOf
<1> QED BY <1>2, <1>3 DEF FrameAt

(* Declare of Scoping: the last frame gets a name.                         *)
Named(e, n) == [e EXCEPT ![Len(e)].names = Append(@, n)]

(* The names of a frame replaced.                                          *)
WithNames(F, names) == [F EXCEPT !.names = names]

(* The other fields stay.                                                  *)
LEMMA WithNamesIs ==
    ASSUME NEW F, IsFrame(F), NEW y
    PROVE  WithNames(F, y) = [function |-> F.function, names |-> y, captured |-> F.captured]
<1>1. \A f, x, c : WithNames([function |-> f, names |-> x, captured |-> c], y)
                     = [function |-> f, names |-> y, captured |-> c]
  BY DEF WithNames
<1>2. F = [function |-> F.function, names |-> F.names, captured |-> F.captured]
  BY DEF IsFrame
<1>3. WithNames(F, y) = WithNames([function |-> F.function, names |-> F.names, captured |-> F.captured], y)
  BY <1>2
<1>4. WithNames([function |-> F.function, names |-> F.names, captured |-> F.captured], y)
        = [function |-> F.function, names |-> y, captured |-> F.captured]
  BY <1>1
<1> QED BY <1>3, <1>4

(* The environment in which the last frame got a name, by positions.       *)
LEMMA NamedLast ==
    ASSUME NEW e, NEW m \in Nat \ {0}, e = [l \in 1 .. m |-> e[l]], Len(e) = m, IsFrame(e[m]), NEW n
    PROVE  Named(e, n) = [l \in 1 .. m |-> IF l = m THEN Naming(e[l], n) ELSE e[l]]
<1> DEFINE F == WithNames(e[m], Append(e[m].names, n))
<1>2. F = Naming(e[m], n)
  BY WithNamesIs DEF Naming
<1>3. Named(e, n) = [e EXCEPT ![m] = F]
  BY DEF Named, WithNames
<1> HIDE DEF F
<1>4. [e EXCEPT ![m] = F] = [l \in 1 .. m |-> IF l = m THEN F ELSE e[l]]
  OBVIOUS
<1>5. [l \in 1 .. m |-> IF l = m THEN F ELSE e[l]]
          = [l \in 1 .. m |-> IF l = m THEN Naming(e[l], n) ELSE e[l]]
  BY <1>2
<1> QED BY <1>3, <1>4, <1>5

(* An action that declares a variable in the current scope.                *)
LEMMA DeclareOneStep ==
    ASSUME IInv, IInv', NEW q, Scoped(Tree, q, current_scope), NEW v,
           DeclareTree(Tree, Tree', current_scope, v), Tree'.variables[v].name \in Names,
           current_scope' = current_scope, var' = NoSymbol
    PROVE  Scoped(Tree', q, current_scope') /\ Abstract!Declare
<1> DEFINE m == Len(q)
           e == Environment(Tree, q)
           n == Tree'.variables[v].name
<1>1. TreeOK(Tree) /\ TreeOK(Tree')
  BY InvTree
<1>2. /\ Scoped(Tree', q, current_scope) /\ m \in Nat /\ m >= 2
      /\ \A l \in 1 .. m :
             FrameAt(Tree', q[l]) = IF l = m THEN Naming(FrameAt(Tree, q[l]), n) ELSE FrameAt(Tree, q[l])
  <2>1. Scoped(Tree', q, current_scope) /\ DeclaredIn(Tree, Tree', q, v)
    BY <1>1, DeclareScoped
  <2> QED BY <2>1 DEF DeclaredIn
<1>3. IsPath(Tree, q, current_scope) /\ IsPath(Tree', q, current_scope')
  BY <1>2 DEF Scoped
<1>4. Frames = e
  BY <1>1, <1>3, FramesNow
<1>5. Frames' = Environment(Tree', q)
  BY <1>1, <1>3, FramesNext
<1>6. e = [l \in 1 .. m |-> e[l]] /\ Len(e) = m /\ IsFrame(e[m]) /\ \A l \in 1 .. m : e[l] = FrameAt(Tree, q[l])
  <2>1. e = [l \in 1 .. m |-> e[l]] /\ Len(e) = m /\ \A l \in 1 .. m : e[l] = FrameAt(Tree, q[l])
    BY <1>2 DEF Environment
  <2>2. m \in 1 .. m
    BY <1>2
  <2> QED BY <2>1, <2>2, AllFrames
<1> HIDE DEF e, n
<1>7. Named(e, n) = [l \in 1 .. m |-> IF l = m THEN Naming(e[l], n) ELSE e[l]]
  <2>1. m \in Nat \ {0}
    BY <1>2
  <2> HIDE DEF m
  <2> QED BY <2>1, <1>6, NamedLast
<1>8. Environment(Tree', q) = [l \in 1 .. m |-> IF l = m THEN Naming(e[l], n) ELSE e[l]]
  <2>1. \A l \in 1 .. m : FrameAt(Tree', q[l]) = IF l = m THEN Naming(e[l], n) ELSE e[l]
    BY <1>2, <1>6
  <2> QED BY <2>1 DEF Environment
<1>9. Frames' = Named(Frames, n)
  BY <1>4, <1>5, <1>7, <1>8
<1>10. n \in Names
  BY DEF n
<1>11. Meaning' = [variable |-> <<0, 0>>, env |-> <<0, 0>>]
  BY MeansNothing
<1>12. Abstract!Declare
  BY <1>9, <1>10, <1>11 DEF Abstract!Declare, Abstract!NoName, Abstract!NOWHERE, Meaning, Named
<1> QED BY <1>2, <1>12

(* The environment with one more frame, by positions.                      *)
LEMMA Appended ==
    ASSUME NEW m \in Nat, NEW e, e = [l \in 1 .. m |-> e[l]], NEW F, NEW d,
           d = [l \in 1 .. m + 1 |-> IF l = m + 1 THEN F ELSE e[l]]
    PROVE  d = Append(e, F)
<1> DEFINE S == {e[l] : l \in 1 .. m} \cup {F}
           b == Append(e, F)
<1>1. F \in S /\ \A l \in 1 .. m : e[l] \in S
  OBVIOUS
<1> HIDE DEF S
<1>2. e \in Seq(S) /\ Len(e) = m
  BY <1>1
<1>3. /\ b \in Seq(S) /\ DOMAIN b = 1 .. m + 1
      /\ \A l \in 1 .. m : b[l] = e[l]
      /\ b[m + 1] = F
  BY <1>1, <1>2, AppendedTo
<1> HIDE DEF b
<1>4. b = [l \in DOMAIN b |-> b[l]]
  BY <1>3
<1>5. \A l \in 1 .. m + 1 : b[l] = IF l = m + 1 THEN F ELSE e[l]
  <2>1. \A l \in 1 .. m + 1 : l = m + 1 \/ l \in 1 .. m
    OBVIOUS
  <2> QED BY <1>3, <2>1
<1>6. b = [l \in 1 .. m + 1 |-> IF l = m + 1 THEN F ELSE e[l]]
  BY <1>3, <1>4, <1>5
<1> QED BY <1>6 DEF b

(* An action that opens a scope.                                           *)
LEMMA OpenStep ==
    ASSUME IInv, IInv', NEW q, Scoped(Tree, q, current_scope),
           OpenTree(Tree, Tree', current_scope, current_scope'), var' = NoSymbol
    PROVE  (\E w : Scoped(Tree', w, current_scope')) /\ Abstract!Open
<1> DEFINE m == Len(q)
           e == Environment(Tree, q)
           s == current_scope'
           w == Append(q, s)
           F == FrameAt(Tree', s)
<1>1. TreeOK(Tree) /\ TreeOK(Tree')
  BY InvTree
<1>2. Scoped(Tree', w, s) /\ Opened(Tree, Tree', q, w, s)
  BY <1>1, OpenScoped
<1>3. IsPath(Tree, q, current_scope) /\ IsPath(Tree', w, s)
  BY <1>2 DEF Scoped
<1> HIDE DEF w
<1>4. Frames = e
  BY <1>1, <1>3, FramesNow
<1>5. Frames' = Environment(Tree', w)
  BY <1>1, <1>3, FramesNext
<1>6. NewFrame(F)
  BY OpenedFrame
<1>7. Frames' = Append(e, F)
  <2>1. m \in Nat /\ Len(w) = m + 1 /\ w[m + 1] = s /\ \A l \in 1 .. m : FrameAt(Tree', w[l]) = FrameAt(Tree, q[l])
    BY <1>2 DEF Opened
  <2>2. e = [l \in 1 .. m |-> e[l]] /\ \A l \in 1 .. m : e[l] = FrameAt(Tree, q[l])
    BY DEF Environment
  <2> HIDE DEF e, m
  <2>3. \A l \in 1 .. m + 1 : FrameAt(Tree', w[l]) = IF l = m + 1 THEN F ELSE e[l]
    <3>1. \A l \in 1 .. m + 1 : l = m + 1 \/ l \in 1 .. m
      BY <2>1
    <3> QED BY <2>1, <2>2, <3>1
  <2> HIDE DEF F
  <2>4. Environment(Tree', w) = [l \in 1 .. m + 1 |-> IF l = m + 1 THEN F ELSE e[l]]
    BY <2>1, <2>3 DEF Environment
  <2>5. Environment(Tree', w) = Append(e, F)
    BY <2>1, <2>2, <2>4, Appended
  <2> QED BY <1>5, <2>5
<1>8. Meaning' = [variable |-> <<0, 0>>, env |-> <<0, 0>>]
  BY MeansNothing
<1> HIDE DEF F
<1>9. Abstract!Open
  <2>1. PICK f \in BOOLEAN : \E ns \in {<<>>} \cup {<<n>> : n \in Names} :
            F = [function |-> f, names |-> ns, captured |-> {}]
    BY <1>6 DEF NewFrame
  <2>2. PICK ns \in {<<>>} \cup {<<n>> : n \in Names} : F = [function |-> f, names |-> ns, captured |-> {}]
    BY <2>1
  <2>3. Frames' = Append(Frames, Abstract!Frame(f, ns, {}))
    BY <1>4, <1>7, <2>2 DEF Abstract!Frame
  <2>4. Frames' \in {Append(Frames, Abstract!Frame(g, ms, {})) :
                         g \in BOOLEAN, ms \in {<<>>} \cup {<<n>> : n \in Names}}
    BY <2>3
  <2>5. Meaning' = Abstract!NoName
    BY <1>8 DEF Abstract!NoName, Abstract!NOWHERE
  <2> QED BY <2>4, <2>5 DEF Abstract!Open, Meaning
<1> QED BY <1>2, <1>9

(* An action that leaves one scope or two.                                 *)
LEMMA CloseStep ==
    ASSUME IInv, IInv', NEW q, Scoped(Tree, q, current_scope), Tree' = Tree, NEW k \in 1 .. 2,
           Len(q) - k >= 2, current_scope' = q[Len(q) - k], var' = NoSymbol
    PROVE  (\E w : Scoped(Tree', w, current_scope')) /\ Abstract!Close
<1> DEFINE m == Len(q) - k
           e == Environment(Tree, q)
           w == SubSeq(q, 1, m)
<1>1. TreeOK(Tree) /\ TreeOK(Tree')
  BY InvTree
<1>2. IsPath(Tree, q, current_scope) /\ Typed(Tree)
  BY <1>1 DEF Scoped, TreeOK
<1>3. Len(q) \in Nat /\ m \in 2 .. Len(q) /\ m \in Nat
  <2>1. Len(q) \in Nat
    BY <1>2, PathFacts
  <2> QED BY <2>1
<1>4. Scoped(Tree, w, q[m]) /\ Len(w) = m /\ \A l \in 1 .. m : w[l] = q[l]
  <2> HIDE DEF m
  <2> QED BY <1>1, <1>3, CloseScoped
<1> HIDE DEF w
<1>5. Scoped(Tree', w, current_scope') /\ IsPath(Tree', w, current_scope')
  BY <1>4 DEF Scoped
<1>6. Frames = e
  BY <1>1, <1>2, FramesNow
<1>7. Frames' = Environment(Tree', w)
  BY <1>1, <1>5, FramesNext
<1>8. Environment(Tree', w) = SubSeq(e, 1, m)
  <2>1. Environment(Tree', w) = [l \in 1 .. m |-> FrameAt(Tree, q[l])]
    BY <1>4 DEF Environment
  <2>2. Len(e) = Len(q) /\ \A l \in 1 .. Len(q) : e[l] = FrameAt(Tree, q[l])
    BY <1>3 DEF Environment
  <2>3. SubSeq(e, 1, m) = [l \in 1 .. m |-> e[l]]
    <3> DEFINE S == {e[l] : l \in 1 .. Len(q)}
    <3>1. e = [l \in 1 .. Len(q) |-> e[l]] /\ \A l \in 1 .. Len(q) : e[l] \in S
      BY DEF Environment
    <3> HIDE DEF S, e, m
    <3>2. e \in Seq(S) /\ Len(e) = Len(q)
      BY <3>1, <1>3
    <3> DEFINE b == SubSeq(e, 1, m)
    <3>3. b \in Seq(S) /\ DOMAIN b = 1 .. m /\ \A l \in 1 .. m : b[l] = e[l]
      BY <3>2, <1>3
    <3> HIDE DEF b
    <3>4. b = [l \in DOMAIN b |-> b[l]]
      BY <3>3
    <3>5. b = [l \in 1 .. m |-> e[l]]
      BY <3>3, <3>4
    <3> QED BY <3>5 DEF b
  <2> HIDE DEF e, m
  <2>4. \A l \in 1 .. m : l \in 1 .. Len(q)
    BY <1>3
  <2> QED BY <2>1, <2>2, <2>3, <2>4
<1>9. Len(e) = Len(q)
  BY <1>3 DEF Environment
<1>10. Frames' = SubSeq(Frames, 1, Len(Frames) - k)
  BY <1>6, <1>7, <1>8, <1>9
<1>11. Meaning' = [variable |-> <<0, 0>>, env |-> <<0, 0>>]
  BY MeansNothing
<1>12. Abstract!Close
  BY <1>10, <1>11 DEF Abstract!Close, Abstract!NoName, Abstract!NOWHERE, Meaning
<1> QED BY <1>5, <1>12

-----------------------------------------------------------------------------
(* What the actions do to the tree.                                        *)

(* A list and one more element, of whatever kind.                          *)
LEMMA SequenceGrows ==
    ASSUME NEW S, NEW l \in Seq(S), NEW x
    PROVE  /\ Len(l) \in Nat /\ DOMAIN l = 1 .. Len(l)
           /\ DOMAIN Append(l, x) = DOMAIN l \cup {Len(l) + 1}
           /\ Len(l) + 1 \in Nat \ {0} /\ Len(l) + 1 \notin DOMAIN l
           /\ \A i \in DOMAIN l : Append(l, x)[i] = l[i]
           /\ Append(l, x)[Len(l) + 1] = x
<1> DEFINE T == S \cup {x}
<1>1. l \in Seq(T) /\ x \in T
  OBVIOUS
<1> HIDE DEF T
<1>2. /\ DOMAIN Append(l, x) = 1 .. Len(l) + 1
      /\ \A i \in 1 .. Len(l) : Append(l, x)[i] = l[i]
      /\ Append(l, x)[Len(l) + 1] = x
  BY <1>1, AppendedTo
<1> QED BY <1>2

(* Variables that do not change stay.                                      *)
LEMMA VariablesSame ==
    ASSUME NEW t, NEW u, u.variables = t.variables
    PROVE  VariablesStay(t, u)
BY DEF VariablesStay

(* They stay when one more is created,                                     *)
LEMMA VariableAdded ==
    ASSUME NEW t, NEW u, Typed(t), NEW x, u.variables = Append(t.variables, x)
    PROVE  /\ VariablesStay(t, u)
           /\ Len(t.variables) + 1 \in Nat /\ Len(t.variables) + 1 \notin DOMAIN t.variables
           /\ u.variables[Len(t.variables) + 1] = x
<1> DEFINE l == t.variables
<1>1. l \in Seq(VariableType)
  BY DEF Typed
<1> HIDE DEF l
<1>2. /\ DOMAIN Append(l, x) = DOMAIN l \cup {Len(l) + 1}
      /\ Len(l) + 1 \in Nat /\ Len(l) + 1 \notin DOMAIN l
      /\ \A i \in DOMAIN l : Append(l, x)[i] = l[i]
      /\ Append(l, x)[Len(l) + 1] = x
  BY <1>1, SequenceGrows
<1> QED BY <1>2 DEF VariablesStay, l

(* when more are,                                                          *)
LEMMA VariablesAdded ==
    ASSUME NEW t, NEW u, Typed(t), NEW new \in Seq(VariableType), u.variables = t.variables \o new
    PROVE  /\ VariablesStay(t, u)
           /\ \A i \in DOMAIN new : u.variables[Len(t.variables) + i] = new[i]
<1> DEFINE l == t.variables
<1>1. l \in Seq(VariableType)
  BY DEF Typed
<1> HIDE DEF l
<1>2. /\ DOMAIN l \subseteq DOMAIN (l \o new)
      /\ \A i \in DOMAIN l : (l \o new)[i] = l[i]
      /\ \A i \in DOMAIN new : (l \o new)[Len(l) + i] = new[i]
  BY <1>1, Concatenation
<1>3. u.variables = l \o new
  BY DEF l
<1> QED BY <1>2, <1>3 DEF VariablesStay, l

(* and when some are marked as modified.                                   *)
LEMMA VariablesMark ==
    ASSUME Typed(Tree), NEW ss, variables' = detect_local_updates(ss)
    PROVE  VariablesStay(Tree, Tree')
<1> DEFINE U == Updated(ss)
<1>1. variables' = [v \in DOMAIN variables |-> [variables[v] EXCEPT !.modified = @ \/ v \in U]]
  BY DEF detect_local_updates
<1> HIDE DEF U
<1>2. ASSUME NEW v \in DOMAIN variables
      PROVE  /\ v \in DOMAIN variables'
             /\ variables'[v].name = variables[v].name
             /\ variables'[v].block = variables[v].block
             /\ variables'[v].escaped = variables[v].escaped
  <2> DEFINE r == variables[v]
             c == r.modified \/ v \in U
  <2>1. r \in VariableType
    <3>1. variables \in Seq(VariableType)
      BY TreePrime DEF Typed
    <3> QED BY <3>1
  <2>2. variables'[v] = [r EXCEPT !.modified = c] /\ v \in DOMAIN variables'
    BY <1>1
  <2> HIDE DEF r, c
  <2>3. variables'[v].name = r.name /\ variables'[v].block = r.block /\ variables'[v].escaped = r.escaped
    BY <2>1, <2>2 DEF VariableType
  <2> QED BY <2>2, <2>3 DEF r
<1> QED BY <1>2, TreePrime DEF VariablesStay

(* Scopes that do not change stay.                                         *)
LEMMA ScopesSameStay ==
    ASSUME NEW t, NEW u, u.scopes = t.scopes
    PROVE  ScopesStay(t, u) /\ \A s \in DOMAIN t.scopes : ListKept(t, u, s)
BY DEF ScopesStay, ListKept

(* They stay when one more opens.                                          *)
LEMMA ScopeAdded ==
    ASSUME NEW t, NEW u, Typed(t), NEW z, u.scopes = Append(t.scopes, z)
    PROVE  LET s == Len(t.scopes) + 1
           IN  /\ ScopesStay(t, u) /\ \A b \in DOMAIN t.scopes : ListKept(t, u, b)
               /\ s \in Nat \ {NULL} /\ s \notin DOMAIN t.scopes /\ DOMAIN u.scopes = DOMAIN t.scopes \cup {s}
               /\ u.scopes[s] = z
<1> DEFINE l == t.scopes
<1>1. l \in Seq(ScopeType)
  BY DEF Typed
<1> HIDE DEF l
<1>2. /\ DOMAIN Append(l, z) = DOMAIN l \cup {Len(l) + 1}
      /\ Len(l) + 1 \in Nat \ {0} /\ Len(l) + 1 \notin DOMAIN l
      /\ \A i \in DOMAIN l : Append(l, z)[i] = l[i]
      /\ Append(l, z)[Len(l) + 1] = z
  BY <1>1, SequenceGrows
<1> QED BY <1>2 DEF ScopesStay, ListKept, NULL, l

(* Only the list of scope c changes.                                       *)
ListBecomes(t, u, c, l) ==
    /\ ScopesStay(t, u) /\ DOMAIN u.scopes = DOMAIN t.scopes
    /\ \A s \in DOMAIN t.scopes \ {c} : ListKept(t, u, s)
    /\ u.scopes[c].symbol_list = l

(* So it is when it is replaced.                                           *)
LEMMA ListReplaced ==
    ASSUME NEW t, NEW u, Typed(t), NEW c, c \in DOMAIN t.scopes, NEW l,
           u.scopes = [t.scopes EXCEPT ![c].symbol_list = l]
    PROVE  ListBecomes(t, u, c, l)
<1>1. t.scopes \in Seq(ScopeType)
  BY DEF Typed
<1> DEFINE g == t.scopes[c]
           z == [g EXCEPT !.symbol_list = l]
<1>2. g \in ScopeType
  BY <1>1
<1>3. u.scopes = [t.scopes EXCEPT ![c] = z]
  OBVIOUS
<1>4. z.function = g.function /\ z.parent = g.parent /\ z.symbol_list = l
  <2> HIDE DEF g
  <2> QED BY <1>2 DEF ScopeType
<1> HIDE DEF z
<1>5. DOMAIN u.scopes = DOMAIN t.scopes /\ u.scopes[c] = z
      /\ \A s \in DOMAIN t.scopes \ {c} : u.scopes[s] = t.scopes[s]
  BY <1>1, <1>3
<1> QED BY <1>4, <1>5 DEF ListBecomes, ScopesStay, ListKept

(* Functions that do not change stay.                                      *)
LEMMA FunctionsSameStay ==
    ASSUME NEW t, NEW u, u.functions = t.functions
    PROVE  FunctionsStay(t, u)
BY DEF FunctionsStay

(* They stay when one more begins.                                         *)
LEMMA FunctionAdded ==
    ASSUME NEW t, NEW u, Typed(t), NEW p \in Nat \ {NULL}, u.functions = Append(t.functions, Function(p))
    PROVE  LET f == Len(t.functions) + 1
           IN  /\ FunctionsStay(t, u)
               /\ f \in DOMAIN u.functions \ DOMAIN t.functions /\ u.functions[f].parent = p
<1> DEFINE l == t.functions
           z == Function(p)
<1>1. l \in Seq(FunctionType)
  BY DEF Typed
<1>2. z.parent = p /\ z.upvalues = <<>>
  BY DEF Function
<1> HIDE DEF l, z
<1>3. /\ DOMAIN Append(l, z) = DOMAIN l \cup {Len(l) + 1}
      /\ Len(l) + 1 \in Nat /\ Len(l) + 1 \notin DOMAIN l
      /\ \A i \in DOMAIN l : Append(l, z)[i] = l[i]
      /\ Append(l, z)[Len(l) + 1] = z
  BY <1>1, SequenceGrows
<1>4. u.functions = Append(l, z)
  BY DEF l, z
<1> QED BY <1>2, <1>3, <1>4 DEF FunctionsStay, NULL, l

-----------------------------------------------------------------------------
(* Every step of Resolver is one of Scoping.                               *)

(* A construct waits with at most one variable to declare.                 *)
DeclaresOne(o) == o.kind = "expressions" => o.declares = <<>> \/ \E v : o.declares = <<v>>
DeclareOne == \A i \in DOMAIN open : DeclaresOne(open[i])

(* The step is one of Scoping, and the current scope has a path again.     *)
Simulated == (\E w : Scoped(Tree', w, current_scope')) /\ Abstract!Next

(* Names that are read, or written to.                                     *)
LEMMA ReferSimulated ==
    ASSUME IInv, NEW q, Scoped(Tree, q, current_scope), NEW n \in Names,
           parse_assignment(n) \/ parse_name(n) \/ parse_function_statement(n)
    PROVE  Simulated
<1>1. /\ BecomeTree(new_symbol_reference(n).tree) /\ var' = new_symbol_reference(n).symbol
      /\ current_scope' = current_scope
  BY DEF parse_assignment, parse_name, parse_function_statement
<1>2. Scoped(Tree', q, current_scope') /\ Abstract!Refer
  BY <1>1, ReferStep
<1> QED BY <1>2 DEF Simulated, Abstract!Next

(* Actions that change no scope.                                           *)
LEMMA PassSimulated ==
    ASSUME IInv, IInv', NEW q, Scoped(Tree, q, current_scope), VariablesStay(Tree, Tree'),
           functions' = functions, scopes' = scopes, current_scope' = current_scope, var' = NoSymbol
    PROVE  Simulated
<1>1. FunctionsStay(Tree, Tree')
  BY FunctionsSameStay, TreePrime
<1>2. ScopesStay(Tree, Tree') /\ \A s \in DOMAIN Tree.scopes : ListKept(Tree, Tree', s)
  BY ScopesSameStay, TreePrime
<1>3. PassTree(Tree, Tree')
  BY <1>1, <1>2, TreePrime DEF PassTree, Stays
<1>4. Scoped(Tree', q, current_scope') /\ Abstract!Pass
  BY <1>3, PassStep
<1> QED BY <1>4 DEF Simulated, Abstract!Next

(* Statements that only wait for their expressions,                        *)
LEMMA ExpressionsSimulated ==
    ASSUME IInv, IInv', NEW q, Scoped(Tree, q, current_scope), parse_expressions
    PROVE  Simulated
<1>1. /\ variables' = variables /\ functions' = functions /\ scopes' = scopes
      /\ current_scope' = current_scope /\ var' = NoSymbol
  BY DEF parse_expressions, tree
<1>2. VariablesStay(Tree, Tree')
  BY <1>1, VariablesSame, TreePrime
<1> QED BY <1>1, <1>2, PassSimulated

(* and embedded C, which marks a variable.                                 *)
LEMMA EmbeddedCSimulated ==
    ASSUME IInv, IInv', NEW q, Scoped(Tree, q, current_scope), NEW n, parse_embedded_C(n)
    PROVE  Simulated
<1> DEFINE ss == <<search_for_variable(n)>>
<1>1. /\ variables' = detect_local_updates(ss) /\ functions' = functions /\ scopes' = scopes
      /\ current_scope' = current_scope /\ var' = NoSymbol
  BY DEF parse_embedded_C
<1> HIDE DEF ss
<1>2. Typed(Tree)
  BY InvFacts DEF TreeOK
<1>3. VariablesStay(Tree, Tree')
  BY <1>1, <1>2, VariablesMark
<1> QED BY <1>1, <1>3, PassSimulated

(* Of the variables that are new, and those that wait for their expressions.   *)
LEMMA DeclareSimulated ==
    ASSUME IInv, IInv', NEW q, Scoped(Tree, q, current_scope), VariablesStay(Tree, Tree'),
           NEW v \in Nat, v \in DOMAIN variables', ~ variables'[v].escaped,
           v \notin ToSet(scopes[current_scope].symbol_list),
           scopes' = [scopes EXCEPT ![current_scope].symbol_list = Append(@, v)],
           functions' = functions, current_scope' = current_scope, var' = NoSymbol
    PROVE  Simulated
<1>1. FunctionsStay(Tree, Tree')
  BY FunctionsSameStay, TreePrime
<1> DEFINE l == Append(scopes[current_scope].symbol_list, v)
<1>2. Typed(Tree) /\ current_scope \in DOMAIN Tree.scopes
  BY InvFacts, TreePrime DEF TreeOK
<1>3. Tree'.scopes = [Tree.scopes EXCEPT ![current_scope].symbol_list = l]
  BY TreePrime
<1> HIDE DEF l
<1>4. ListBecomes(Tree, Tree', current_scope, l)
  BY <1>2, <1>3, ListReplaced
<1>5. DeclareTree(Tree, Tree', current_scope, v)
  BY <1>1, <1>4, TreePrime DEF DeclareTree, ListBecomes, Stays, l
<1>6. Tree'.variables[v].name \in Names
  <2>1. variables' \in Seq(VariableType)
    BY TreePrime DEF IInv, TreeOK, Typed
  <2>2. variables'[v] \in VariableType
    BY <2>1
  <2> QED BY <2>2, TreePrime DEF VariableType
<1>7. Scoped(Tree', q, current_scope') /\ Abstract!Declare
  BY <1>5, <1>6, DeclareOneStep
<1> QED BY <1>7 DEF Simulated, Abstract!Next

(* A variable is created and declared at once.                             *)
LEMMA NewSimulated ==
    ASSUME IInv, IInv', NEW q, Scoped(Tree, q, current_scope), NEW x, ~ x.escaped,
           variables' = Append(variables, x),
           scopes' = [scopes EXCEPT ![current_scope].symbol_list = Append(@, NewVariable)],
           functions' = functions, current_scope' = current_scope, var' = NoSymbol
    PROVE  Simulated
<1>1. /\ Typed(Tree) /\ ScopesLinked(Tree) /\ current_scope \in DOMAIN Tree.scopes
      /\ Typed(Tree')
  BY InvFacts, TreePrime DEF IInv, TreeOK
<1>2. Tree'.variables = Append(Tree.variables, x)
  BY TreePrime
<1>3. /\ VariablesStay(Tree, Tree')
      /\ Len(Tree.variables) + 1 \in Nat /\ Len(Tree.variables) + 1 \notin DOMAIN Tree.variables
      /\ Tree'.variables[Len(Tree.variables) + 1] = x
  BY <1>1, <1>2, VariableAdded
<1>4. /\ NewVariable \in Nat /\ NewVariable \notin DOMAIN variables /\ variables'[NewVariable] = x
      /\ NewVariable \in DOMAIN variables'
  <2>1. variables \in Seq(VariableType)
    BY <1>1, TreePrime DEF Typed
  <2>2. DOMAIN Append(variables, x) = DOMAIN variables \cup {Len(variables) + 1}
    BY <2>1, SequenceGrows
  <2> QED BY <1>3, <2>2, TreePrime DEF NewVariable
<1>5. NewVariable \notin ToSet(scopes[current_scope].symbol_list)
  BY <1>1, <1>4, TreePrime DEF ScopesLinked, Locals
<1> QED BY <1>3, <1>4, <1>5, DeclareSimulated

(* A local statement declares its variable at once or not yet,             *)
LEMMA LocalSimulated ==
    ASSUME IInv, IInv', NEW q, Scoped(Tree, q, current_scope),
           NEW n \in Names, NEW literal \in BOOLEAN, parse_local_statement(n, literal)
    PROVE  Simulated
<1> DEFINE x == new_local_symbol(n, current_scope, literal)
<1>1. /\ variables' = Append(variables, x) /\ functions' = functions
      /\ current_scope' = current_scope /\ var' = NoSymbol
  BY DEF parse_local_statement
<1>2. ~ x.escaped
  BY DEF new_local_symbol
<1> HIDE DEF x
<1>3. CASE literal
  <2>1. scopes' = [scopes EXCEPT ![current_scope].symbol_list = Append(@, NewVariable)]
    BY <1>3 DEF parse_local_statement
  <2> QED BY <1>1, <1>2, <2>1, NewSimulated
<1>4. CASE ~literal
  <2>1. scopes' = scopes
    BY <1>4 DEF parse_local_statement
  <2>2. Typed(Tree) /\ Tree'.variables = Append(Tree.variables, x)
    BY <1>1, InvFacts, TreePrime DEF TreeOK
  <2>3. VariablesStay(Tree, Tree')
    BY <2>2, VariableAdded
  <2> QED BY <1>1, <2>1, <2>3, PassSimulated
<1> QED BY <1>3, <1>4

(* a local function before its body,                                       *)
LEMMA LocalFunctionSimulated ==
    ASSUME IInv, IInv', NEW q, Scoped(Tree, q, current_scope),
           NEW n \in Names, parse_local_function_statement(n)
    PROVE  Simulated
<1> DEFINE x == new_local_symbol(n, current_scope, FALSE)
<1>1. /\ variables' = Append(variables, x) /\ functions' = functions
      /\ current_scope' = current_scope /\ var' = NoSymbol
      /\ scopes' = [scopes EXCEPT ![current_scope].symbol_list = Append(@, NewVariable)]
  BY DEF parse_local_function_statement
<1>2. ~ x.escaped
  BY DEF new_local_symbol
<1> HIDE DEF x
<1> QED BY <1>1, <1>2, NewSimulated

(* and a local statement with expressions after them.                      *)
LEMMA EndExpressionsSimulated ==
    ASSUME IInv, IInv', DeclareOne, NEW q, Scoped(Tree, q, current_scope), end_expressions
    PROVE  Simulated
<1> DEFINE vs == Top.declares
           ss == Top.updates
<1>1. /\ Top.kind = "expressions"
      /\ variables' = detect_local_updates(ss)
      /\ scopes' = [scopes EXCEPT ![current_scope].symbol_list = @ \o vs]
      /\ functions' = functions /\ current_scope' = current_scope /\ var' = NoSymbol
  BY DEF end_expressions, AtExpression
<1>2. /\ TreeOK(Tree) /\ Typed(Tree) /\ current_scope \in DOMAIN scopes
      /\ open \in Seq(Construct) /\ Len(open) > 1
      /\ Top \in Construct /\ OpenOK(Tree, Top, current_scope)
  BY <1>1, InvFacts DEF TreeOK
<1>3. VariablesStay(Tree, Tree')
  <2> HIDE DEF ss
  <2> QED BY <1>1, <1>2, VariablesMark
<1>4. vs = <<>> \/ \E v : vs = <<v>>
  <2>1. Len(open) \in DOMAIN open /\ Top = open[Len(open)]
    BY <1>2 DEF Top, Last
  <2> QED BY <1>1, <2>1 DEF DeclareOne, DeclaresOne
<1>5. vs \in Seq(Nat) /\ Pending(Top) = ToSet(vs)
  BY <1>1, <1>2 DEF Construct, Pending
<1>6. \A v \in ToSet(vs) : v \in Locals(Tree) /\ Tree.variables[v].block = current_scope /\ ~InScope(Tree, v)
  BY <1>2, <1>5 DEF OpenOK
<1> DEFINE g == scopes[current_scope].symbol_list
<1>7. g \in Seq(Nat) /\ scopes \in Seq(ScopeType)
  <2>1. scopes \in Seq(ScopeType)
    BY <1>2, TreePrime DEF Typed
  <2>2. scopes[current_scope] \in ScopeType
    BY <1>2, <2>1
  <2> QED BY <2>1, <2>2 DEF ScopeType
<1> HIDE DEF vs, ss
<1>8. scopes' = [scopes EXCEPT ![current_scope].symbol_list = g \o vs]
  BY <1>1
<1>9. CASE vs = <<>>
  <2>1. g \o vs = g
    <3> HIDE DEF g
    <3> QED BY <1>7, <1>9
  <2> DEFINE r == scopes[current_scope]
             z == [r EXCEPT !.symbol_list = r.symbol_list]
  <2>2. z = r
    <3>1. r \in ScopeType
      BY <1>2, <1>7
    <3> HIDE DEF r
    <3> QED BY <3>1 DEF ScopeType
  <2>3. scopes' = [scopes EXCEPT ![current_scope] = z]
    BY <1>8, <2>1
  <2> HIDE DEF z
  <2>4. scopes' = scopes
    BY <1>7, <2>2, <2>3
  <2> QED BY <1>1, <1>3, <2>4, PassSimulated
<1>10. ASSUME NEW v, vs = <<v>>
       PROVE  Simulated
  <2>1. ToSet(vs) = {v} /\ v \in Nat
    <3>1. v = vs[1] /\ 1 \in DOMAIN vs
      BY <1>10
    <3>2. v \in Nat
      BY <1>5, <3>1
    <3>3. <<>> \in Seq(Nat)
      OBVIOUS
    <3> QED BY <1>10, <3>2, <3>3, AppendedOne
  <2>2. v \in Locals(Tree) /\ Tree.variables[v].block = current_scope /\ ~InScope(Tree, v)
    BY <1>6, <2>1
  <2>3. v \notin ToSet(scopes[current_scope].symbol_list)
    BY <2>2, TreePrime DEF InScope
  <2>4. ~ Tree.variables[v].escaped /\ v \in DOMAIN Tree.variables
    BY <1>2, <2>2 DEF TreeOK, Marked, VariablesMarked, Locals
  <2>5. v \in DOMAIN variables' /\ ~ variables'[v].escaped
    BY <1>3, <2>4, TreePrime DEF VariablesStay
  <2>6. g \o vs = Append(g, v)
    <3> HIDE DEF g
    <3> QED BY <1>7, <1>10, <2>1, AppendedOne
  <2>7. scopes' = [scopes EXCEPT ![current_scope].symbol_list = Append(@, v)]
    BY <1>8, <2>6
  <2> QED BY <1>1, <1>3, <2>1, <2>3, <2>5, <2>7, DeclareSimulated
<1> QED BY <1>4, <1>9, <1>10 DEF vs

(* A scope opens, of the current function or of one that begins with it.   *)
LEMMA OpenSimulated ==
    ASSUME IInv, IInv', NEW q, Scoped(Tree, q, current_scope), VariablesStay(Tree, Tree'),
           NEW f, NEW vs, OneOrNone(Tree', vs),
           scopes' = Append(scopes, [Scope(f, current_scope) EXCEPT !.symbol_list = vs]),
           current_scope' = NewScope, var' = NoSymbol,
           \/ f = current_function /\ functions' = functions
           \/ f = Len(functions) + 1 /\ functions' = Append(functions, Function(current_function))
    PROVE  Simulated
<1>1. /\ TreeOK(Tree) /\ Typed(Tree) /\ FunctionsLinked(Tree) /\ current_scope \in DOMAIN Tree.scopes
      /\ current_function = Tree.scopes[current_scope].function
      /\ current_function \in DOMAIN functions /\ current_function \in Nat
  BY InvFacts, TreePrime DEF TreeOK, Linked
<1> DEFINE z == [Scope(f, current_scope) EXCEPT !.symbol_list = vs]
           s == Len(Tree.scopes) + 1
<1>2. z.function = f /\ z.parent = current_scope /\ z.symbol_list = vs
  BY DEF Scope
<1>3. Tree'.scopes = Append(Tree.scopes, z)
  BY TreePrime
<1> HIDE DEF z
<1>4. /\ ScopesStay(Tree, Tree') /\ \A b \in DOMAIN Tree.scopes : ListKept(Tree, Tree', b)
      /\ s \in Nat \ {NULL} /\ s \notin DOMAIN Tree.scopes
      /\ DOMAIN Tree'.scopes = DOMAIN Tree.scopes \cup {s} /\ Tree'.scopes[s] = z
  BY <1>1, <1>3, ScopeAdded
<1>5. /\ FunctionsStay(Tree, Tree')
      /\ \/ Tree'.scopes[s].function = Tree.scopes[current_scope].function
         \/ /\ Tree'.scopes[s].function \in DOMAIN Tree'.functions \ DOMAIN Tree.functions
            /\ Tree'.functions[Tree'.scopes[s].function].parent = Tree.scopes[current_scope].function
  <2>1. CASE f = current_function /\ functions' = functions
    BY <1>1, <1>2, <1>4, <2>1, FunctionsSameStay, TreePrime
  <2>2. CASE f = Len(functions) + 1 /\ functions' = Append(functions, Function(current_function))
    <3> DEFINE p == current_function
    <3>1. p \in Nat \ {NULL}
      <4>1. functions \in Seq(FunctionType)
        BY <1>1, TreePrime DEF Typed
      <4> QED BY <1>1, <4>1 DEF NULL
    <3>2. Tree'.functions = Append(Tree.functions, Function(p)) /\ f = Len(Tree.functions) + 1
      BY <2>2, TreePrime
    <3> HIDE DEF p
    <3>3. /\ FunctionsStay(Tree, Tree')
          /\ f \in DOMAIN Tree'.functions \ DOMAIN Tree.functions /\ Tree'.functions[f].parent = p
      BY <1>1, <3>1, <3>2, FunctionAdded, SMTT(30)
    <3> QED BY <1>1, <1>2, <1>4, <3>3 DEF p
  <2> QED BY <2>1, <2>2
<1>6. Tree'.scopes[s].parent = current_scope /\ Tree'.scopes[s].symbol_list = vs
  BY <1>2, <1>4
<1>7. OpenTree(Tree, Tree', current_scope, current_scope')
  <2>1. current_scope' = s
    BY TreePrime DEF NewScope
  <2> HIDE DEF s
  <2>2. Stays(Tree, Tree')
    BY <1>4, <1>5 DEF Stays
  <2> QED BY <1>4, <1>5, <1>6, <2>1, <2>2 DEF OpenTree
<1>8. (\E w : Scoped(Tree', w, current_scope')) /\ Abstract!Open
  BY <1>7, OpenStep
<1> QED BY <1>8 DEF Simulated, Abstract!Next

(* Blocks open a scope of the function,                                    *)
LEMMA BlockSimulated ==
    ASSUME IInv, IInv', NEW q, Scoped(Tree, q, current_scope), parse_block \/ parse_forbody
    PROVE  Simulated
<1> DEFINE f == current_function
           vs == <<>>
<1>1. /\ scopes' = Append(scopes, [Scope(f, current_scope) EXCEPT !.symbol_list = vs])
      /\ current_scope' = NewScope /\ var' = NoSymbol
      /\ variables' = variables /\ functions' = functions
  BY DEF parse_block, parse_forbody, new_scope
<1>2. OneOrNone(Tree', vs)
  BY DEF OneOrNone
<1>3. VariablesStay(Tree, Tree')
  BY <1>1, VariablesSame, TreePrime
<1> HIDE DEF vs
<1> QED BY <1>1, <1>2, <1>3, OpenSimulated

(* a for loop one with its variable,                                       *)
LEMMA ForSimulated ==
    ASSUME IInv, IInv', NEW q, Scoped(Tree, q, current_scope),
           NEW n \in Names, parse_for_statement(n)
    PROVE  Simulated
<1> DEFINE y == new_local_symbol(n, NewScope, FALSE)
           x == [y EXCEPT !.modified = TRUE]
           f == current_function
           vs == <<NewVariable>>
<1>1. /\ variables' = Append(variables, x)
      /\ scopes' = Append(scopes, [Scope(f, current_scope) EXCEPT !.symbol_list = vs])
      /\ current_scope' = NewScope /\ var' = NoSymbol /\ functions' = functions
  BY DEF parse_for_statement, new_scope
<1>2. x.name = n /\ ~ x.escaped
  BY DEF new_local_symbol
<1> HIDE DEF x
<1>3. Typed(Tree) /\ Tree'.variables = Append(Tree.variables, x)
  BY <1>1, InvFacts, TreePrime DEF TreeOK
<1>4. VariablesStay(Tree, Tree') /\ Tree'.variables[Len(Tree.variables) + 1] = x
  BY <1>3, VariableAdded
<1>5. Tree'.variables[NewVariable] = x
  BY <1>4, TreePrime DEF NewVariable
<1>6. OneOrNone(Tree', vs)
  BY <1>2, <1>5 DEF OneOrNone
<1> HIDE DEF vs
<1> QED BY <1>1, <1>4, <1>6, OpenSimulated

(* and a function one with its parameter.                                  *)
LEMMA FunctionSimulated ==
    ASSUME IInv, IInv', NEW q, Scoped(Tree, q, current_scope),
           NEW params, new_function(params), params \in {<<>>} \cup {<<n>> : n \in Names}
    PROVE  Simulated
<1> DEFINE new == [i \in DOMAIN params |-> new_local_symbol(params[i], NewScope, FALSE)]
           vs == [i \in DOMAIN params |-> Len(variables) + i]
           f == Len(functions) + 1
<1>1. /\ variables' = variables \o new
      /\ functions' = Append(functions, Function(current_function))
      /\ scopes' = Append(scopes, [Scope(f, current_scope) EXCEPT !.symbol_list = vs])
      /\ current_scope' = NewScope /\ var' = NoSymbol
  BY DEF new_function, new_scope
<1>2. Typed(Tree) /\ Len(scopes) \in Nat /\ Len(variables) \in Nat /\ NewScope \in Nat
  BY InvFacts DEF TreeOK, NewScope
<1>3. CASE params = <<>>
  <2>1. new = <<>> /\ vs = <<>>
    BY <1>3
  <2>2. new \in Seq(VariableType)
    BY <2>1
  <2> HIDE DEF new, vs, f
  <2>3. VariablesStay(Tree, Tree')
    BY <1>1, <1>2, <2>2, VariablesAdded, TreePrime
  <2>4. OneOrNone(Tree', vs)
    BY <2>1 DEF OneOrNone
  <2> QED BY <1>1, <2>3, <2>4, OpenSimulated DEF f
<1>4. ASSUME NEW n \in Names, params = <<n>>
      PROVE  Simulated
  <2> DEFINE x == new_local_symbol(n, NewScope, FALSE)
             k == Len(variables) + 1
  <2>1. x \in VariableType
    BY <1>2, NewSymbol
  <2>2. x.name = n /\ ~ x.escaped
    BY DEF new_local_symbol
  <2> HIDE DEF x
  <2>3. new = <<x>> /\ vs = <<k>>
    <3>1. DOMAIN params = {1} /\ params[1] = n
      BY <1>4
    <3> HIDE DEF k
    <3>2. new = [i \in {1} |-> x] /\ vs = [i \in {1} |-> k]
      BY <3>1 DEF x, k
    <3>3. \A e : [i \in {1} |-> e] = <<e>>
      OBVIOUS
    <3> QED BY <3>2, <3>3
  <2> HIDE DEF new, vs, f
  <2>8. <<x>> \in Seq(VariableType) /\ 1 \in DOMAIN <<x>> /\ <<x>>[1] = x
    BY <2>1
  <2>4. new \in Seq(VariableType) /\ 1 \in DOMAIN new /\ new[1] = x
    BY <2>3, <2>8
  <2>5. VariablesStay(Tree, Tree') /\ \A i \in DOMAIN new : Tree'.variables[Len(Tree.variables) + i] = new[i]
    <3>1. Tree'.variables = Tree.variables \o new
      BY <1>1, TreePrime
    <3> QED BY <1>2, <2>4, <3>1, VariablesAdded
  <2>6. Tree'.variables[k] = x
    BY <2>4, <2>5, TreePrime
  <2>7. OneOrNone(Tree', vs)
    BY <2>2, <2>3, <2>6 DEF OneOrNone
  <2> QED BY <1>1, <2>5, <2>7, OpenSimulated DEF f
<1> QED BY <1>3, <1>4

(* One or two scopes end.                                                  *)
LEMMA PathUp ==
    ASSUME NEW t, Linked(t), Typed(t), NEW q, NEW c, IsPath(t, q, c), NEW a \in DOMAIN t.scopes
    PROVE  /\ t.scopes[c].parent = a => Len(q) - 1 >= 2 /\ q[Len(q) - 1] = a
           /\ \A p \in DOMAIN t.scopes :
                  t.scopes[c].parent = p /\ t.scopes[p].parent = a
                      => Len(q) - 2 >= 2 /\ q[Len(q) - 2] = a
<1>1. /\ Len(q) \in Nat /\ Len(q) >= 2 /\ q[1] = NULL /\ q[Len(q)] = c
      /\ \A l \in 2 .. Len(q) : q[l] \in DOMAIN t.scopes /\ t.scopes[q[l]].parent = q[l - 1]
  BY DEF IsPath
<1>2. NULL \notin DOMAIN t.scopes
  <2>1. t.scopes \in Seq(ScopeType)
    BY DEF Typed
  <2> QED BY <2>1 DEF NULL
<1>3. ASSUME NEW l \in 2 .. Len(q), NEW p \in DOMAIN t.scopes, t.scopes[q[l]].parent = p
      PROVE  l - 1 \in 2 .. Len(q) /\ q[l - 1] = p
  <2>1. q[l - 1] = p
    BY <1>1, <1>3
  <2>2. l - 1 # 1
    BY <1>1, <1>2, <2>1
  <2> QED BY <1>1, <2>1, <2>2
<1>4. Len(q) \in 2 .. Len(q)
  BY <1>1
<1>5. ASSUME NEW p \in DOMAIN t.scopes, t.scopes[c].parent = p
      PROVE  Len(q) - 1 \in 2 .. Len(q) /\ q[Len(q) - 1] = p
  BY <1>1, <1>3, <1>4, <1>5
<1>6. ASSUME NEW p \in DOMAIN t.scopes, t.scopes[c].parent = p, t.scopes[p].parent = a
      PROVE  Len(q) - 2 >= 2 /\ q[Len(q) - 2] = a
  <2> DEFINE l == Len(q) - 1
  <2>1. l \in 2 .. Len(q) /\ t.scopes[q[l]].parent = a
    BY <1>5, <1>6
  <2> HIDE DEF l
  <2>2. l - 1 \in 2 .. Len(q) /\ q[l - 1] = a
    BY <1>3, <2>1
  <2> QED BY <1>1, <2>2 DEF l
<1> QED BY <1>1, <1>5, <1>6

(* An action that goes back to a scope further out.                        *)
LEMMA CloseSimulated ==
    ASSUME IInv, IInv', NEW q, Scoped(Tree, q, current_scope), NEW k \in 1 .. 2,
           Len(q) - k >= 2, current_scope' = q[Len(q) - k],
           functions' = functions, scopes' = scopes, variables' = variables, var' = NoSymbol
    PROVE  Simulated
<1>1. Tree' = Tree
  BY DEF Tree
<1>2. (\E w : Scoped(Tree', w, current_scope')) /\ Abstract!Close
  BY <1>1, CloseStep
<1> QED BY <1>2 DEF Simulated, Abstract!Next

(* The ends of blocks and functions.                                       *)
LEMMA EndSimulated ==
    ASSUME IInv, IInv', NEW q, Scoped(Tree, q, current_scope), end_block \/ end_function
    PROVE  Simulated
<1>1. /\ functions' = functions /\ scopes' = scopes /\ variables' = variables /\ var' = NoSymbol
      /\ Top.kind \in {"block", "function"}
      /\ Len(open) > 1
  BY InvFacts DEF end_block, end_function, tree
<1>2. /\ TreeOK(Tree) /\ Linked(Tree) /\ Typed(Tree) /\ open \in Seq(Construct)
      /\ Context(Tree, open, current_scope)
  BY InvFacts DEF TreeOK
<1>3. PICK a \in DOMAIN Tree.scopes : Into(Tree, Top, a, current_scope)
  BY <1>1, <1>2, ContextPop DEF Top
<1>4. IsPath(Tree, q, current_scope) /\ Len(q) \in Nat
  BY DEF Scoped, IsPath
<1> DEFINE p == Tree.scopes[current_scope].parent
<1>5. \/ p = a /\ current_scope' = a
      \/ p \in DOMAIN Tree.scopes /\ Tree.scopes[p].parent = a /\ current_scope' = a
  <2>1. CASE end_function
    BY <1>3, <2>1, TreePrime DEF Into, end_function, end_scope
  <2>2. CASE end_block
    <3>1. Top.kind = "block" /\ current_scope' = IF Top.scopes = 1 THEN p ELSE Tree.scopes[p].parent
      BY <2>2, TreePrime DEF end_block, end_scope
    <3> QED BY <1>3, <3>1 DEF Into
  <2> QED BY <2>1, <2>2
<1> HIDE DEF p
<1>6. PICK k \in 1 .. 2 : Len(q) - k >= 2 /\ current_scope' = q[Len(q) - k]
  <2>1. CASE p = a /\ current_scope' = a
    <3>1. Len(q) - 1 >= 2 /\ q[Len(q) - 1] = a
      BY <1>2, <1>3, <1>4, <2>1, PathUp DEF p
    <3>2. 1 \in 1 .. 2
      OBVIOUS
    <3> QED BY <2>1, <3>1, <3>2
  <2>2. CASE p \in DOMAIN Tree.scopes /\ Tree.scopes[p].parent = a /\ current_scope' = a
    <3>1. Len(q) - 2 >= 2 /\ q[Len(q) - 2] = a
      BY <1>2, <1>3, <1>4, <2>2, PathUp DEF p
    <3>2. 2 \in 1 .. 2
      OBVIOUS
    <3> QED BY <2>2, <3>1, <3>2
  <2> QED BY <1>5, <2>1, <2>2
<1> QED BY <1>1, <1>6, CloseSimulated

-----------------------------------------------------------------------------
(* A construct waits with at most one variable to declare.                 *)

(* The constructs that open are of this kind.                              *)
LEMMA DeclaresNothing ==
    /\ \A ss, l : DeclaresOne(Expressions(<<>>, ss, l))
    /\ \A v, ss, l : DeclaresOne(Expressions(<<v>>, ss, l))
    /\ \A k : DeclaresOne(Block(k))
    /\ DeclaresOne(Body) /\ DeclaresOne([kind |-> "function"])
BY DEF DeclaresOne, Expressions, Block, Body

(* A construct opens.                                                      *)
LEMMA PushOne ==
    ASSUME NEW op \in Seq(Construct), \A i \in DOMAIN op : DeclaresOne(op[i]),
           NEW o, DeclaresOne(o), open' = Append(op, o)
    PROVE  DeclareOne'
<1>1. /\ DOMAIN Append(op, o) = DOMAIN op \cup {Len(op) + 1}
      /\ \A i \in DOMAIN op : Append(op, o)[i] = op[i]
      /\ Append(op, o)[Len(op) + 1] = o
  BY SequenceGrows
<1>2. \A i \in DOMAIN open' : DeclaresOne(open'[i])
  BY <1>1
<1> QED BY <1>2 DEF DeclareOne, DeclaresOne

(* One ends.                                                               *)
LEMMA PopOne ==
    ASSUME IInv, DeclareOne, Len(open) > 1
    PROVE  Front(open) \in Seq(Construct) /\ \A i \in DOMAIN Front(open) : DeclaresOne(Front(open)[i])
<1>1. open \in Seq(Construct) /\ Context(Tree, open, current_scope)
  BY InvFacts
<1>2. Front(open) \in Seq(Construct)
  BY <1>1, ContextPop
<1>3. \A i \in DOMAIN Front(open) : i \in DOMAIN open /\ Front(open)[i] = open[i]
  BY <1>1 DEF Front
<1> QED BY <1>2, <1>3 DEF DeclareOne

(* The constructs stay.                                                    *)
LEMMA SameOne ==
    ASSUME DeclareOne, open' = open
    PROVE  DeclareOne'
BY DEF DeclareOne, DeclaresOne

(* The innermost one ends and nothing else.                                *)
LEMMA OnlyFront ==
    ASSUME IInv, DeclareOne, Len(open) > 1, open' = Front(open)
    PROVE  DeclareOne'
<1>1. \A i \in DOMAIN Front(open) : DeclaresOne(Front(open)[i])
  BY PopOne
<1> QED BY <1>1 DEF DeclareOne, DeclaresOne

(* Every step keeps it so.                                                 *)
LEMMA DeclareOneKept ==
    ASSUME IInv, DeclareOne, [Next]_vars
    PROVE  DeclareOne'
<1>1. open \in Seq(Construct) /\ \A i \in DOMAIN open : DeclaresOne(open[i])
  BY InvFacts DEF DeclareOne
<1>2. Top.kind # "function" => Len(open) > 1
  BY InvFacts
<1>3. ASSUME NEW n, NEW literal, parse_local_statement(n, literal)
      PROVE  DeclareOne'
  <2>1. CASE literal
    BY <1>3, <2>1, SameOne DEF parse_local_statement
  <2>2. CASE ~literal
    <3>1. open' = Append(open, Expressions(<<NewVariable>>, <<>>, FALSE))
      BY <1>3, <2>2 DEF parse_local_statement
    <3> QED BY <1>1, <3>1, PushOne, DeclaresNothing
  <2> QED BY <2>1, <2>2
<1>4. ASSUME NEW n, parse_assignment(n)
      PROVE  DeclareOne'
  <2>1. open' = Append(open, Expressions(<<>>, <<new_symbol_reference(n).symbol>>, FALSE))
    BY <1>4 DEF parse_assignment
  <2> QED BY <1>1, <2>1, PushOne, DeclaresNothing
<1>5. ASSUME NEW n, parse_for_statement(n)
      PROVE  DeclareOne'
  <2>1. open' = Append(open, Expressions(<<>>, <<>>, TRUE))
    BY <1>5 DEF parse_for_statement
  <2> QED BY <1>1, <2>1, PushOne, DeclaresNothing
<1>6. ASSUME NEW n, parse_local_function_statement(n) \/ parse_function_statement(n)
      PROVE  DeclareOne'
  <2>1. open' = Append(open, Body)
    BY <1>6 DEF parse_local_function_statement, parse_function_statement
  <2> QED BY <1>1, <2>1, PushOne, DeclaresNothing
<1>7. ASSUME NEW n, parse_embedded_C(n) \/ parse_name(n)
      PROVE  DeclareOne'
  BY <1>7, SameOne DEF parse_embedded_C, parse_name
<1>8. CASE parse_expressions
  <2>1. open' = Append(open, Expressions(<<>>, <<>>, FALSE))
    BY <1>8 DEF parse_expressions
  <2> QED BY <1>1, <2>1, PushOne, DeclaresNothing
<1>9. CASE parse_block
  <2>1. open' = Append(open, Block(1))
    BY <1>9 DEF parse_block
  <2> QED BY <1>1, <2>1, PushOne, DeclaresNothing
<1>10. CASE end_block \/ end_expressions \/ end_function
  <2>1. open' = Front(open) /\ Len(open) > 1
    BY <1>2, <1>10 DEF end_block, end_expressions, end_function, AtExpression
  <2> QED BY <2>1, OnlyFront
<1>11. ASSUME NEW params, new_function(params)
       PROVE  DeclareOne'
  <2> DEFINE op == IF Top = Body THEN Front(open) ELSE open
  <2>1. open' = Append(op, [kind |-> "function"]) /\ Len(open) > 1
    BY <1>2, <1>11 DEF new_function
  <2>2. op \in Seq(Construct) /\ \A i \in DOMAIN op : DeclaresOne(op[i])
    BY <1>1, <2>1, PopOne
  <2> HIDE DEF op
  <2> QED BY <2>1, <2>2, PushOne, DeclaresNothing
<1>12. CASE parse_forbody
  <2>1. open' = Append(Front(open), Block(2)) /\ Len(open) > 1
    BY <1>2, <1>12 DEF parse_forbody, AtExpression
  <2>2. Front(open) \in Seq(Construct) /\ \A i \in DOMAIN Front(open) : DeclaresOne(Front(open)[i])
    BY <2>1, PopOne
  <2> QED BY <2>1, <2>2, PushOne, DeclaresNothing
<1>13. CASE UNCHANGED vars
  BY <1>13, SameOne DEF vars
<1> QED BY <1>3, <1>4, <1>5, <1>6, <1>7, <1>8, <1>9, <1>10, <1>11, <1>12, <1>13
        DEF Next, Statement, Expression

-----------------------------------------------------------------------------
(* The first states.                                                       *)

(* The chunk, with its one scope.                                          *)
LEMMA FirstFacts ==
    ASSUME Init
    PROVE  /\ DOMAIN functions = {1} /\ functions[1].upvalues = <<1>>
           /\ Len(scopes) = 1 /\ DOMAIN scopes = {1} /\ scopes[1].function = 1
           /\ scopes[1].parent = NULL /\ scopes[1].symbol_list = <<>>
           /\ current_scope = 1 /\ var = NoSymbol
           /\ open = << [kind |-> "function"] >>
<1> DEFINE fn == [Function(NULL) EXCEPT !.upvalues = <<1>>]
           sc == Scope(1, NULL)
<1>1. /\ functions = <<fn>> /\ scopes = <<sc>> /\ current_scope = 1 /\ var = NoSymbol
      /\ open = << [kind |-> "function"] >>
  BY DEF Init
<1>2. fn.upvalues = <<1>>
  BY DEF Function
<1>3. sc.function = 1 /\ sc.parent = NULL /\ sc.symbol_list = <<>>
  BY DEF Scope
<1> HIDE DEF fn, sc
<1>4. /\ DOMAIN functions = {1} /\ functions[1] = fn
      /\ Len(scopes) = 1 /\ DOMAIN scopes = {1} /\ scopes[1] = sc
  BY <1>1
<1> QED BY <1>1, <1>2, <1>3, <1>4

(* The path to the scope of the chunk.                                     *)
LEMMA InitScoped ==
    ASSUME Init
    PROVE  Scoped(Tree, <<0, 1>>, current_scope)
<1> DEFINE q == <<0, 1>>
<1>1. /\ DOMAIN Tree.functions = {1} /\ Tree.functions[1].upvalues = <<1>>
      /\ DOMAIN Tree.scopes = {1} /\ Tree.scopes[1].parent = NULL /\ Tree.scopes[1].symbol_list = <<>>
      /\ Tree.scopes[1].function = 1 /\ current_scope = 1
  BY FirstFacts, TreePrime
<1>2. q \in Seq(Nat) /\ Len(q) = 2 /\ q[1] = 0 /\ q[2] = 1
  OBVIOUS
<1> HIDE DEF q
<1>3. ToSet(Tree.functions[1].upvalues) = {1} /\ DOMAIN Tree.scopes[1].symbol_list = {}
  <2>1. <<>> \in Seq(Nat) /\ 1 \in Nat
    OBVIOUS
  <2>2. ToSet(<<1>>) = {1}
    BY <2>1, AppendedOne
  <2>3. DOMAIN <<>> = {}
    OBVIOUS
  <2> QED BY <1>1, <2>2, <2>3
<1>4. IsPath(Tree, q, current_scope)
  BY <1>1, <1>2 DEF IsPath, NULL
<1>5. OuterOn(Tree, q)
  <2>1. FunctionAt(Tree, q, 2) = 1
    BY <1>1, <1>2 DEF FunctionAt
  <2>2. DeclaredLast(Tree, q, 1, 1)
    <3>1. Entries(Tree, q[1]) = <<1>> /\ Tree.variables[1].name = ENV
      <4>1. Linked(Tree)
        BY InitInv, InvFacts
      <4> QED BY <1>2, <4>1 DEF Entries, NULL, Linked, VariablesLinked
    <3>2. DOMAIN <<1>> = {1} /\ <<1>>[1] = 1
      OBVIOUS
    <3>3. IsLatest(Tree, q, 1, ENV, 1, 1)
      BY <3>1, <3>2 DEF IsLatest, Stands
    <3> QED BY <3>1, <3>2, <3>3 DEF DeclaredLast
  <2>3. \A m \in 2 .. Len(q) : m = 2
    BY <1>2
  <2> QED BY <1>3, <2>1, <2>2, <2>3 DEF OuterOn
<1>6. Lists(Tree)
  BY <1>1, <1>3 DEF Lists
<1>7. Parents(Tree)
  BY <1>1 DEF Parents
<1>8. Chained(Tree)
  BY <1>1, <1>3 DEF Chained
<1> QED BY <1>4, <1>5, <1>6, <1>7, <1>8 DEF Scoped, q

(* The first states are first states of Scoping.                           *)
LEMMA InitScoping == Init => Abstract!Init
<1> SUFFICES ASSUME Init PROVE Abstract!Init
  OBVIOUS
<1> DEFINE q == <<0, 1>>
           a == [function |-> TRUE, names |-> <<ENV>>, captured |-> {1}]
           b == [function |-> TRUE, names |-> <<>>, captured |-> {}]
<1>1. Scoped(Tree, q, current_scope) /\ TreeOK(Tree)
  BY InitScoped, InitInv, InvFacts
<1>2. Len(q) = 2 /\ q[1] = NULL /\ q[2] = 1
  BY DEF NULL
<1> HIDE DEF q
<1>3. Frames = Environment(Tree, q)
  BY <1>1, FramesNow DEF Scoped
<1>4. FrameAt(Tree, q[1]) = a
  BY <1>2 DEF FrameAt, Outside
<1>5. FrameAt(Tree, q[2]) = b
  <2>1. /\ Tree.scopes[1].parent = NULL /\ Tree.scopes[1].symbol_list = <<>>
    BY FirstFacts, TreePrime
  <2>2. FrameAt(Tree, 1) = FrameOf(Tree.scopes, Tree.variables, 1)
    BY DEF FrameAt, NULL
  <2>3. DOMAIN <<>> = {} /\ \A e : [i \in {} |-> e[i]] = <<>>
    OBVIOUS
  <2> DEFINE list == Tree.scopes[1].symbol_list
             ns == [i \in DOMAIN list |-> Tree.variables[list[i]].name]
             cs == {i \in DOMAIN list : Tree.variables[list[i]].escaped}
  <2>4. DOMAIN list = {}
    BY <2>1, <2>3
  <2>5. ns = <<>> /\ cs = {}
    BY <2>4
  <2>6. FrameOf(Tree.scopes, Tree.variables, 1) = [function |-> TRUE, names |-> ns, captured |-> cs]
    BY <2>1 DEF FrameOf
  <2> QED BY <1>2, <2>2, <2>5, <2>6, Zenon
<1> HIDE DEF a, b
<1>6. Frames = <<a, b>>
  <2>1. Frames = [l \in 1 .. 2 |-> FrameAt(Tree, q[l])]
    BY <1>2, <1>3 DEF Environment
  <2>2. \A l \in 1 .. 2 : FrameAt(Tree, q[l]) = <<a, b>>[l]
    BY <1>4, <1>5
  <2>3. <<a, b>> = [l \in 1 .. 2 |-> <<a, b>>[l]]
    OBVIOUS
  <2> QED BY <2>1, <2>2, <2>3
<1>7. Meaning = [variable |-> <<0, 0>>, env |-> <<0, 0>>]
  <2>1. var = NoSymbol
    BY FirstFacts
  <2>2. var.type = "NULL"
    BY <2>1, SymbolFacts
  <2> QED BY <2>2, MeaningIs DEF MeaningIn, MeantIn
<1> QED BY <1>6, <1>7 DEF Abstract!Init, Abstract!Frame, Abstract!NoName, Abstract!NOWHERE, Meaning, a, b

-----------------------------------------------------------------------------
(* The inductive invariant of the refinement, and the refinement.          *)

(* The upvalues of the open functions are last declarations, chained       *)
(* outwards.                                                               *)
ScopedInv == IInv /\ DeclareOne /\ \E q : Scoped(Tree, q, current_scope)

(* It holds at first.                                                      *)
LEMMA InitScopedInv == Init => ScopedInv
<1> SUFFICES ASSUME Init PROVE ScopedInv
  OBVIOUS
<1>1. IInv /\ \E q : Scoped(Tree, q, current_scope)
  BY InitInv, InitScoped
<1>2. DeclareOne
  <2>1. \A i \in DOMAIN open : open[i] = [kind |-> "function"]
    BY FirstFacts
  <2> QED BY <2>1, DeclaresNothing DEF DeclareOne
<1> QED BY <1>1, <1>2 DEF ScopedInv

(* Every action is one of Scoping.                                         *)
LEMMA NextSimulated ==
    ASSUME IInv, IInv', DeclareOne, NEW q, Scoped(Tree, q, current_scope), Next
    PROVE  Simulated
<1>1. CASE \E n \in Names, literal \in BOOLEAN : parse_local_statement(n, literal)
  BY <1>1, LocalSimulated
<1>2. CASE \E n \in Names : parse_assignment(n) \/ parse_name(n) \/ parse_function_statement(n)
  BY <1>2, ReferSimulated
<1>3. CASE \E n \in Names : parse_for_statement(n)
  BY <1>3, ForSimulated
<1>4. CASE \E n \in Names : parse_local_function_statement(n)
  BY <1>4, LocalFunctionSimulated
<1>5. CASE \E n \in Names : parse_embedded_C(n)
  BY <1>5, EmbeddedCSimulated
<1>6. CASE parse_expressions
  BY <1>6, ExpressionsSimulated
<1>7. CASE parse_block \/ parse_forbody
  BY <1>7, BlockSimulated
<1>8. CASE end_block \/ end_function
  BY <1>8, EndSimulated
<1>9. CASE \E params \in {<<>>} \cup {<<n>> : n \in Names} : new_function(params)
  BY <1>9, FunctionSimulated
<1>10. CASE end_expressions
  BY <1>10, EndExpressionsSimulated
<1> QED BY <1>1, <1>2, <1>3, <1>4, <1>5, <1>6, <1>7, <1>8, <1>9, <1>10
        DEF Next, Statement, Expression

(* A step that changes nothing changes nothing of Scoping's either.        *)
LEMMA StutterScoped ==
    ASSUME UNCHANGED vars
    PROVE  /\ Tree' = Tree /\ current_scope' = current_scope
           /\ Frames' = Frames /\ Meaning' = Meaning
<1>1. /\ functions' = functions /\ scopes' = scopes /\ variables' = variables
      /\ current_scope' = current_scope /\ var' = var
  BY DEF vars
<1>2. Frames' = Frames
  BY <1>1, FramesAre
<1>3. Meaning' = Meaning
  BY <1>1, MeaningIs
<1> QED BY <1>1, <1>2, <1>3 DEF Tree

(* Every step keeps the invariant, and is one of Scoping or a stutter.     *)
LEMMA NextScopedInv == ScopedInv /\ [Next]_vars => ScopedInv' /\ [Abstract!Next]_Abstract!vars
<1> SUFFICES ASSUME ScopedInv, [Next]_vars
             PROVE  ScopedInv' /\ [Abstract!Next]_Abstract!vars
  OBVIOUS
<1>1. IInv /\ DeclareOne
  BY DEF ScopedInv
<1>2. PICK q : Scoped(Tree, q, current_scope)
  BY DEF ScopedInv
<1>3. IInv' /\ DeclareOne'
  BY <1>1, NextInv, DeclareOneKept
<1>4. CASE Next
  <2>1. Simulated
    BY <1>1, <1>2, <1>3, <1>4, NextSimulated
  <2>2. (\E w : Scoped(Tree', w, current_scope')) /\ Abstract!Next
    BY <2>1 DEF Simulated
  <2>3. (\E w : Scoped(Tree, w, current_scope))'
    BY <2>2 DEF Scoped, Lists, Parents, Chained, OuterOn, IsPath
  <2> QED BY <1>3, <2>2, <2>3 DEF ScopedInv
<1>5. CASE UNCHANGED vars
  <2>1. /\ Tree' = Tree /\ current_scope' = current_scope
        /\ Frames' = Frames /\ Meaning' = Meaning
    BY <1>5, StutterScoped
  <2>2. Scoped(Tree', q, current_scope')
    BY <1>2, <2>1
  <2>3. ScopedInv'
    BY <1>3, <2>2 DEF ScopedInv
  <2>4. UNCHANGED Abstract!vars
    BY <2>1 DEF Abstract!vars, Meaning
  <2> QED BY <2>3, <2>4
<1> QED BY <1>4, <1>5

(* The scopes and upvalues of the parser implement Scoping, whatever the   *)
(* program: every name it resolves, followed through the upvalues as the   *)
(* closures follow them, is the innermost declaration of that name, and    *)
(* exactly the variables used from an inner function are marked as         *)
(* escaped (parser.c search_for_variable, add_upvalue_in_levels_upto,      *)
(* codegen.c get_upvalue_idx).                                             *)
THEOREM ScopesResolve == Spec => ImplementsScoping
BY InitScoping, InitScopedInv, NextScopedInv, PTL DEF Spec, ImplementsScoping, Abstract!Spec
=============================================================================
