------------------------------ MODULE Resolver ------------------------------
(* The symbols of the parser (parser.c): scopes chained through the functions, *)
(* local variables, and the upvalue lists of the functions, through which a    *)
(* variable of an outer function is reached.  With them the two later readers  *)
(* of what the parser leaves: the code generator's description of an upvalue   *)
(* (codegen.c get_upvalue_idx) and the replacement of upvalues by the literal  *)
(* their variable was initialised with (linearizer.c).                         *)
(*                                                                             *)
(* An action is what the parser does between two tokens that matter here: the  *)
(* constructs still open are a stack.                                          *)
EXTENDS Naturals, Sequences, FiniteSets, SequencesExt

CONSTANTS Names, ENV,       \* the names of the program, and _ENV, one of them
          MaxFunctions, MaxScopes, MaxVariables   \* bounds

ASSUME ResolverAssumption ==
    /\ ENV \in Names
    /\ {MaxFunctions, MaxScopes, MaxVariables} \subseteq Nat

VARIABLES functions, scopes, variables,   \* the AST nodes the parser links up
          current_function, current_scope,
          open,                           \* the constructs being parsed
          var,                            \* symbol_expr.var of the name just parsed
          assigned, redefined             \* variables `x =' and `function x' write to

tree == <<functions, scopes, variables>>
vars == <<functions, scopes, variables, current_function, current_scope, open, var,
          assigned, redefined>>

NULL == 0
Local(v)      == [type |-> "SYM_LOCAL", variable |-> v]
Upvalue(f, i) == [type |-> "SYM_UPVALUE", function |-> f, index |-> i]
Global(e)     == [type |-> "SYM_GLOBAL", env |-> e]
NoSymbol      == [type |-> "NULL"]

new_local_symbol(n, block, literal) ==
    [name |-> n, block |-> block, escaped |-> FALSE, modified |-> FALSE, literal |-> literal]

Scope(f, parent) == [function |-> f, parent |-> parent, symbol_list |-> <<>>, need_close |-> FALSE]

Function(parent) == [parent |-> parent, upvalues |-> <<>>, need_close |-> FALSE]

-----------------------------------------------------------------------------
(* Looking a name up.                                                         *)

(* A variant: the earliest declaration first.                                 *)
search_for_variable_in_block_forwards(s, n) ==
    SelectInSeq(scopes[s].symbol_list, LAMBDA v : variables[v].name = n)

(* The place of a name in a scope, latest first, or 0.                        *)
search_for_variable_in_block(s, n) ==
    SelectLastInSeq(scopes[s].symbol_list, LAMBDA v : variables[v].name = n)

(* The place of a name, or of a variable, among the upvalues of a function.   *)
search_upvalue_in_function(fs, f, n) ==
    SelectInSeq(fs[f].upvalues, LAMBDA v : variables[v].name = n)

IndexOf(list, v) == SelectInSeq(list, LAMBDA u : u = v)

upvalue_of_variable(f, v) == IndexOf(functions[f].upvalues, v)

search_for_variable(n) ==
    LET search[s \in 0 .. Len(scopes)] ==
            IF s = NULL THEN NoSymbol
            ELSE LET i == search_for_variable_in_block(s, n)
                     f == scopes[s].function
                     p == scopes[s].parent
                     u == search_upvalue_in_function(functions, f, n)
                 IN  CASE i # 0 -> Local(scopes[s].symbol_list[i])
                       [] i = 0 /\ p # NULL /\ scopes[p].function = f -> search[p]
                       [] i = 0 /\ ~(p # NULL /\ scopes[p].function = f) /\ u # 0 -> Upvalue(f, u)
                       [] OTHER -> search[p]
    IN  search[current_scope]

Target(s) == IF s.type = "SYM_LOCAL" THEN s.variable ELSE functions[s.function].upvalues[s.index]

Owner(s) == IF s.type = "SYM_LOCAL" THEN scopes[variables[s.variable].block].function ELSE s.function

-----------------------------------------------------------------------------
(* Using a variable of an outer function.                                     *)

(* The functions from f outwards that come to have v as an upvalue.           *)
add_upvalue_in_levels_upto(f, var_function, v) ==
    LET levels[g \in 0 .. Len(functions)] ==
            IF g \in {NULL, var_function} \/ upvalue_of_variable(g, v) # 0 THEN {}
            ELSE {g} \cup levels[functions[g].parent]
    IN  levels[f]

(* A variant: the mark goes to the function that uses the variable.           *)
add_upvalue_in_function_closing_user(fs, v) ==
    LET block   == variables[v].block
        escapes == fs # {} /\ block # NULL
    IN  [functions |-> [g \in DOMAIN functions |->
             [functions[g] EXCEPT
                 !.upvalues = IF g \in fs THEN Append(@, v) ELSE @,
                 !.need_close = @ \/ (escapes /\ g = current_function)]],
         scopes |-> [s \in DOMAIN scopes |->
             [scopes[s] EXCEPT !.need_close = @ \/ (escapes /\ s = block)]],
         variables |-> [variables EXCEPT ![v].escaped = @ \/ escapes]]

(* The tree once each of the functions fs has v as an upvalue: a local that   *)
(* gets one is marked as escaped, its block and its function as to be closed. *)
add_upvalue_in_function(fs, v) ==
    LET block   == variables[v].block
        escapes == fs # {} /\ block # NULL
    IN  [functions |-> [g \in DOMAIN functions |->
             [functions[g] EXCEPT
                 !.upvalues = IF g \in fs THEN Append(@, v) ELSE @,
                 !.need_close = @ \/ (escapes /\ g = scopes[block].function)]],
         scopes |-> [s \in DOMAIN scopes |->
             [scopes[s] EXCEPT !.need_close = @ \/ (escapes /\ s = block)]],
         variables |-> [variables EXCEPT ![v].escaped = @ \/ escapes]]

(* A reference to symbol s from the current function: the tree, and what the   *)
(* name n then resolves to there.                                             *)
Reached(s, n) ==
    IF Owner(s) = current_function
    THEN [tree |-> [functions |-> functions, scopes |-> scopes, variables |-> variables], symbol |-> s]
    ELSE LET v == Target(s)
             t == add_upvalue_in_function(
                      add_upvalue_in_levels_upto(current_function, Owner(s), v), v)
         IN  [tree |-> t,
              symbol |-> Upvalue(current_function,
                                 search_upvalue_in_function(t.functions, current_function, n))]

(* A global is a field of _ENV, which is looked up in its turn.               *)
new_symbol_reference(n) ==
    LET s == search_for_variable(n)
        e == Reached(search_for_variable(ENV), ENV)
    IN  IF s # NoSymbol THEN Reached(s, n)
        ELSE [e EXCEPT !.symbol = Global(e.symbol)]

BecomeTree(t) == functions' = t.functions /\ scopes' = t.scopes /\ variables' = t.variables

-----------------------------------------------------------------------------
(* The chunk is a function with an upvalue for _ENV, a symbol of no scope.    *)
Init ==
    /\ functions = << [Function(NULL) EXCEPT !.upvalues = <<1>>] >>
    /\ scopes = << Scope(1, NULL) >>
    /\ variables = << new_local_symbol(ENV, NULL, FALSE) >>
    /\ current_function = 1
    /\ current_scope = 1
    /\ open = << [kind |-> "function"] >>
    /\ var = NoSymbol
    /\ assigned = {} /\ redefined = {}

(* A construct closes the last one or two scopes, or waits for its expressions: *)
(* the variable a local statement will declare, the symbol an assignment        *)
(* updates, whether the loop body follows.                                      *)
Block(n) == [kind |-> "block", scopes |-> n]
Body == [kind |-> "body"]
Expressions(declares, updates, loop) ==
    [kind |-> "expressions", declares |-> declares, updates |-> updates, loop |-> loop]

Top == Last(open)
AtStatement  == Top.kind \in {"function", "block"}
AtExpression == Top.kind = "expressions"

NewVariable == Len(variables) + 1
NewScope == Len(scopes) + 1
Room == Len(variables) < MaxVariables

new_scope(f, symbols) ==
    /\ Len(scopes) < MaxScopes
    /\ scopes' = Append(scopes, [Scope(f, current_scope) EXCEPT !.symbol_list = symbols])
    /\ current_scope' = NewScope

(* A variant: one scope whatever was opened.                                  *)
end_scope_once(n) == current_scope' = scopes[current_scope].parent

end_scope(n) ==
    current_scope' = IF n = 1 THEN scopes[current_scope].parent
                     ELSE scopes[scopes[current_scope].parent].parent

(* `local x = 1' declares at once; otherwise the variable exists while its     *)
(* expressions are parsed, and is added to the scope after them.               *)
parse_local_statement(n, literal) ==
    /\ AtStatement /\ Room
    /\ variables' = Append(variables, new_local_symbol(n, current_scope, literal))
    /\ IF literal
       THEN /\ scopes' = [scopes EXCEPT ![current_scope].symbol_list = Append(@, NewVariable)]
            /\ UNCHANGED open
       ELSE /\ open' = Append(open, Expressions(<<NewVariable>>, <<>>, FALSE))
            /\ UNCHANGED scopes
    /\ var' = NoSymbol
    /\ UNCHANGED <<functions, current_function, current_scope, assigned, redefined>>

(* `x = ...', or expressions of any other statement.                           *)
parse_assignment(n) ==
    /\ AtStatement
    /\ LET r == new_symbol_reference(n)
       IN  /\ BecomeTree(r.tree)
           /\ var' = r.symbol
           /\ open' = Append(open, Expressions(<<>>, <<r.symbol>>, FALSE))
    /\ UNCHANGED <<current_function, current_scope, assigned, redefined>>

parse_expressions ==
    /\ AtStatement
    /\ open' = Append(open, Expressions(<<>>, <<>>, FALSE))
    /\ var' = NoSymbol
    /\ UNCHANGED <<tree, current_function, current_scope, assigned, redefined>>

parse_name(n) ==
    /\ AtExpression
    /\ LET r == new_symbol_reference(n)
       IN  BecomeTree(r.tree) /\ var' = r.symbol
    /\ UNCHANGED <<current_function, current_scope, open, assigned, redefined>>

(* The variables of symbols ss that are locals of some function.              *)
Updated(ss) == {Target(s) : s \in {t \in ToSet(ss) : t.type \in {"SYM_LOCAL", "SYM_UPVALUE"}}} \ {1}

(* A variant that looks at the locals of the current function only.           *)
detect_local_updates_here(ss) ==
    [v \in DOMAIN variables |->
        [variables[v] EXCEPT !.modified = @ \/ v \in Updated(SelectSeq(ss, LAMBDA s : s.type = "SYM_LOCAL"))]]

detect_local_updates(ss) ==
    [v \in DOMAIN variables |-> [variables[v] EXCEPT !.modified = @ \/ v \in Updated(ss)]]

end_expressions ==
    /\ AtExpression /\ ~Top.loop
    /\ variables' = detect_local_updates(Top.updates)
    /\ assigned' = assigned \cup Updated(Top.updates)
    /\ scopes' = [scopes EXCEPT ![current_scope].symbol_list = @ \o Top.declares]
    /\ open' = Front(open)
    /\ var' = NoSymbol
    /\ UNCHANGED <<functions, current_function, current_scope, redefined>>

(* The blocks of do, while, repeat and if.                                     *)
parse_block ==
    /\ AtStatement
    /\ new_scope(current_function, <<>>)
    /\ open' = Append(open, Block(1))
    /\ var' = NoSymbol
    /\ UNCHANGED <<functions, variables, current_function, assigned, redefined>>

end_block ==
    /\ Top.kind = "block"
    /\ end_scope(Top.scopes)
    /\ open' = Front(open)
    /\ var' = NoSymbol
    /\ UNCHANGED <<tree, current_function, assigned, redefined>>

(* The variable of a for loop is declared before the expressions of its header *)
(* are parsed, and counts as modified; the body is a block of its own.          *)
parse_for_statement(n) ==
    /\ AtStatement /\ Room
    /\ variables' = Append(variables, [new_local_symbol(n, NewScope, FALSE) EXCEPT !.modified = TRUE])
    /\ new_scope(current_function, <<NewVariable>>)
    /\ open' = Append(open, Expressions(<<>>, <<>>, TRUE))
    /\ var' = NoSymbol
    /\ UNCHANGED <<functions, current_function, assigned, redefined>>

parse_forbody ==
    /\ AtExpression /\ Top.loop
    /\ new_scope(current_function, <<>>)
    /\ open' = Append(Front(open), Block(2))
    /\ var' = NoSymbol
    /\ UNCHANGED <<functions, variables, current_function, assigned, redefined>>

(* A function, with at most one parameter, where an expression or the body of  *)
(* a function statement is due.                                                *)
new_function(params) ==
    /\ Top.kind \in {"expressions", "body"}
    /\ Len(functions) < MaxFunctions
    /\ Len(variables) + Len(params) <= MaxVariables
    /\ variables' = variables \o [i \in DOMAIN params |-> new_local_symbol(params[i], NewScope, FALSE)]
    /\ functions' = Append(functions, Function(current_function))
    /\ current_function' = Len(functions) + 1
    /\ new_scope(Len(functions) + 1, [i \in DOMAIN params |-> Len(variables) + i])
    /\ open' = Append(IF Top = Body THEN Front(open) ELSE open, [kind |-> "function"])
    /\ var' = NoSymbol
    /\ UNCHANGED <<assigned, redefined>>

end_function ==
    /\ Top.kind = "function" /\ Len(open) > 1
    /\ end_scope(1)
    /\ current_function' = functions[current_function].parent
    /\ open' = Front(open)
    /\ var' = NoSymbol
    /\ UNCHANGED <<tree, assigned, redefined>>

parse_local_function_statement(n) ==
    /\ AtStatement /\ Room
    /\ variables' = Append(variables, new_local_symbol(n, current_scope, FALSE))
    /\ scopes' = [scopes EXCEPT ![current_scope].symbol_list = Append(@, NewVariable)]
    /\ open' = Append(open, Body)
    /\ var' = NoSymbol
    /\ UNCHANGED <<functions, current_function, current_scope, assigned, redefined>>

(* `function x() ... end' stores a closure in x: nothing marks x as modified.  *)
parse_function_statement(n) ==
    /\ AtStatement
    /\ LET r == new_symbol_reference(n)
       IN  /\ BecomeTree(r.tree)
           /\ var' = r.symbol
           /\ redefined' = redefined \cup Updated(<<search_for_variable(n)>>)
    /\ open' = Append(open, Body)
    /\ UNCHANGED <<current_function, current_scope, assigned>>

(* C code may write to the locals it names, which must be the function's own.  *)
parse_embedded_C(n) ==
    LET s == search_for_variable(n)
    IN  /\ AtStatement
        /\ s.type = "SYM_LOCAL" /\ Owner(s) = current_function
        /\ variables' = detect_local_updates(<<s>>)
        /\ assigned' = assigned \cup {s.variable}
        /\ var' = NoSymbol
        /\ UNCHANGED <<functions, scopes, current_function, current_scope, open, redefined>>

Statement ==
    \/ \E n \in Names, literal \in BOOLEAN : parse_local_statement(n, literal)
    \/ \E n \in Names : \/ parse_assignment(n)
                        \/ parse_for_statement(n)
                        \/ parse_local_function_statement(n)
                        \/ parse_function_statement(n)
                        \/ parse_embedded_C(n)
    \/ parse_expressions
    \/ parse_block
    \/ end_block

Expression ==
    \/ \E n \in Names : parse_name(n)
    \/ \E params \in {<<>>} \cup {<<n>> : n \in Names} : new_function(params)
    \/ parse_forbody
    \/ end_expressions
    \/ end_function

Next == Statement \/ Expression

Spec == Init /\ [][Next]_vars

-----------------------------------------------------------------------------
(* The readers of the tree.                                                   *)

(* Where the closure of f finds its i-th upvalue: in the stack of its parent, *)
(* among its parent's upvalues, or, for the chunk, outside.                   *)
get_upvalue_idx(f, i) ==
    LET v      == functions[f].upvalues[i]
        parent == functions[f].parent
        block  == variables[v].block
    IN  CASE block # NULL /\ scopes[block].function = parent -> [in_stack |-> TRUE, idx |-> v]
          [] ~(block # NULL /\ scopes[block].function = parent) /\ parent = NULL
                -> [in_stack |-> TRUE, idx |-> 1]
          [] OTHER -> [in_stack |-> FALSE, idx |-> upvalue_of_variable(parent, v)]

(* The variable a closure then reaches, following the descriptions outwards.  *)
ReachedVariable(f, i) ==
    LET reach[at \in (0 .. Len(functions)) \X Nat] ==
            LET g == at[1]
                j == at[2]
            IN  IF g = NULL \/ j = 0 \/ j > Len(functions[g].upvalues) THEN NULL
                ELSE LET d == get_upvalue_idx(g, j)
                     IN  IF d.in_stack THEN d.idx ELSE reach[<<functions[g].parent, d.idx>>]
    IN  reach[<<f, i>>]

is_replaceable_upvalue(v) == variables[v].escaped /\ variables[v].literal /\ ~variables[v].modified

-----------------------------------------------------------------------------
(* Type correctness of what the parser links up.                              *)
TypeOK ==
    /\ \A f \in DOMAIN functions :
          /\ functions[f].parent \in 0 .. f - 1
          /\ ToSet(functions[f].upvalues) \subseteq DOMAIN variables
    /\ \A s \in DOMAIN scopes :
          /\ scopes[s].function \in DOMAIN functions
          /\ scopes[s].parent \in 0 .. s - 1
          /\ ToSet(scopes[s].symbol_list) \subseteq DOMAIN variables
    /\ current_function \in DOMAIN functions
    /\ current_scope \in DOMAIN scopes
    /\ scopes[current_scope].function = current_function

(* The mark that makes the linearizer close a block, or a function, is set    *)
(* exactly where a variable was captured, and a variable is marked exactly    *)
(* when some function has it as an upvalue (parser.c:325-329): a missing mark *)
(* leaves an upvalue open on a dead register.                                 *)
ClosedWhereCaptured ==
    /\ \A v \in DOMAIN variables \ {1} :
          variables[v].escaped <=> \E f \in DOMAIN functions : v \in ToSet(functions[f].upvalues)
    /\ \A s \in DOMAIN scopes :
          scopes[s].need_close <=> \E v \in ToSet(scopes[s].symbol_list) : variables[v].escaped
    /\ \A f \in DOMAIN functions :
          functions[f].need_close <=>
              \E s \in DOMAIN scopes : scopes[s].function = f /\ scopes[s].need_close

(* An upvalue that is replaced by the literal its variable was initialised     *)
(* with (linearizer.c:3153) is one no assignment and no C code writes to, in   *)
(* whichever function it stands.                                               *)
LiteralsNeverAssigned ==
    \A v \in assigned : ~is_replaceable_upvalue(v)

(* parser.h:189 says of the mark the replacement looks at: "There is an update *)
(* to the variable post initialization".  A function statement that names the  *)
(* variable is such an update.                                                 *)
ModifiedWhenUpdated ==
    \A v \in assigned \cup redefined : variables[v].modified

-----------------------------------------------------------------------------
(* The scopes implement Scoping: every name the parser resolves, followed      *)
(* through the upvalues as the running closures will follow them, is the       *)
(* innermost declaration, and exactly the captured variables are marked.       *)
Frame(s) ==
    LET list == scopes[s].symbol_list
        p    == scopes[s].parent
    IN  [function |-> p = NULL \/ scopes[p].function # scopes[s].function,
         names |-> [i \in DOMAIN list |-> variables[list[i]].name],
         captured |-> {i \in DOMAIN list : variables[list[i]].escaped}]

Frames ==
    LET chain[s \in 0 .. Len(scopes)] ==
            IF s = NULL THEN <<[function |-> TRUE, names |-> <<ENV>>, captured |-> {1}]>>
            ELSE Append(chain[scopes[s].parent], Frame(s))
    IN  chain[current_scope]

Depth(s) ==
    LET depth[t \in 0 .. Len(scopes)] == IF t = NULL THEN 1 ELSE 1 + depth[scopes[t].parent]
    IN  depth[s]

PlaceOf(v) ==
    IF v = 1 THEN <<1, 1>>
    ELSE <<Depth(variables[v].block), IndexOf(scopes[variables[v].block].symbol_list, v)>>

PlaceMeant(s) ==
    CASE s.type = "SYM_LOCAL"   -> PlaceOf(s.variable)
      [] s.type = "SYM_UPVALUE" -> IF ReachedVariable(s.function, s.index) = NULL THEN <<0, 1>>
                                   ELSE PlaceOf(ReachedVariable(s.function, s.index))
      [] OTHER                  -> <<0, 0>>

Abstract == INSTANCE Scoping WITH
    env <- Frames,
    meaning <- [variable |-> PlaceMeant(var),
                env |-> IF var.type = "SYM_GLOBAL" THEN PlaceMeant(var.env) ELSE <<0, 0>>]

ImplementsScoping == Abstract!Spec
=============================================================================
