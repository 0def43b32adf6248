# A TLA+ model of the Ravi compiler

`ravi-compiler` translates a function of Lua, or of its typed dialect Ravi, into
a C function that runs inside the Lua VM. This directory holds TLA+ modules that
model parts of the compiler, TLC configurations that check them on small
instances, and theorems about them proved with TLAPS.

The compiler is one thread and keeps nothing on disk. What makes it hard is not
interleaving but *protocol*: dozens of handlers, each correct on its own, that
leave behind a current block, a break target, a set of registers, an owed label,
and that are called in whatever order the program being compiled dictates. The
modules therefore do not fix a program. Each statement or expression the compiler
meets is chosen nondeterministically, so a behaviour of the specification is the
compilation of one function, and an invariant speaks of every function within
the bounds. Where the meaning of what is compiled matters, the instructions are
executed in the model and the result is compared with an abstract specification that
knows nothing of registers, blocks or symbols.

## Inventory

The driver (`src/ravi_binding.c`, `tests/trun.c`) calls the passes in order; each
works on structures of the previous one and none is re-entered.

    source -> lexer -> parser -> ast_lower -> typechecker -> ast_simplify
           -> linearizer -> cfg -> opt_unusedcode -> optimize_upvalues -> codegen -> C

| Component | State it keeps | Operations | What must be right |
|---|---|---|---|
| Lexer, `lexer.c` | input position, current and look-ahead token, interned strings | `next`, `lookahead`, interning | one token of look-ahead is never lost or read twice; equal names are one object |
| Parser, `parser.c` | chain of `FunctionState`, tree of `Scope` with symbol lists, labels, upvalue lists | one procedure per production; `search_for_variable`, `add_upvalue_in_function` | a name resolves to the innermost visible local; every function between the use and the local gets the upvalue; `escaped` and `need_close` are set whenever a closure refers to a local; `modified` whenever it is assigned |
| AST lowering, `ast_lower.c` | the AST, rewritten | generic `for` becomes a `while` over locals | the order of evaluation, and the scopes of the new locals |
| Type checker, `typechecker.c` | types on expressions and symbols | one procedure per node | an inferred type is one the value can have, as the code generator reads raw bits by it |
| Simplifier, `ast_simplify.c` | the AST, rewritten | constant folding | the folded value is the one the program would compute |
| Linearizer, `linearizer.c` | per function a `Proc`: basic blocks, current block, current scope, current break target and break scope, register sets, constants | one procedure per statement and expression | see below |
| Graphs, `graph.c`, `cfg.c` | nodes with predecessor and successor lists; DFS numbering | add and delete edges, classify, sort | successor and predecessor lists mirror each other; the graph has every edge the code takes |
| Unused code, `opt_unusedcode.c` | the same lists | delete blocks without predecessors until none is left | no reachable block is deleted |
| Dominators, data flow, `dominator.c`, `dataflow_framework.c`, `df_liveness.c` | arrays over nodes | iterate to a fixpoint | it ends, and the fixpoint is the definition |
| Upvalue optimisation, `linearizer.c` | upvalues that stand for literals | replace loads | only if the variable is never assigned |
| Code generator, `codegen.c` | text | one procedure per instruction | the C code computes what the instruction means wherever its operands are; jumps and upvalue descriptors name what the IR means |
| Containers, `ptrlist.c`, `set.c`, `hash_table.c`, `bitset.c`, `membuf.c` | blocks of entries with deletion marks; open addressing with tombstones; words of bits; a growing buffer | add, delete, iterate, pack, rehash | they are a sequence, a set, a map, a set of small numbers, a string |
| chibicc, `src/chibicc` | C AST | parse embedded C | third-party code, left aside |
| AST walker and printers | none | read the AST | nothing changes |

Interactions: the parser's `Scope` and `LuaSymbol` objects are shared by all later
passes, and the linearizer writes registers and blocks into them; the linearizer's
blocks are shared with the graph through their index; `raviX_construct_cfg()` reads
only the *last* instruction of a block, which is why the linearizer must end every
block with a branch; `opt_unusedcode.c` deletes blocks by index; and the code
generator turns `op_close` into a call of `luaF_close()`, whose meaning decides
whether the closes the linearizer placed are right.

Hard behaviours: blocks created before they are started; a jump whose target does
not exist yet; code after a jump in the same list; closes that belong to a jump but
are placed at its target; break targets saved on the C stack; registers of locals reused
from scope to scope, and registers of temporaries freed by hand while a deferred load
still needs them; types decided before constants are folded and trusted after; a list
changed under an iterator; a pass that gives up half way while the next one continues.
`PROJECT.json` lists each with its line under `hazards`.

## Modules

### Linearizer

The statement half of `linearizer.c`. State and code:

| Variable | Code |
|---|---|
| `proc.nodes`, `proc.current_bb` | `Proc.nodes`, `Proc.current_bb`; the entry block is 1 and the exit 2 (0 and 1 in the code) |
| `proc.current_scope`, `proc.local_pseudos` | `Proc.current_scope`, `Proc.local_pseudos` |
| `proc.current_break_target`, `.current_break_scope` | the fields of the same name |
| `scopes[s].path, base, locals` | `Scope.parent` chain, the `PSEUDO_SYMBOL` registers of `Scope.symbol_list`, `escaped` of each local |
| `scopes[s].label, label_block, placed` | the label symbol of the scope, `LabelSymbol.block`, whether the label statement was met |
| `stack` | the C stack: one frame for each `linearize_*` call that is inside a nested statement list, with the blocks it still has to start and the break target it saved |
| `captured`, `stmts`, `list` | history that makes the parser's marks true: an `escaped` local has been captured by the time its scope ends |
| `failed` | `raviX_handle_error()` abandoned the compilation |

Each action is the whole of one handler up to the nested list it calls, or from
that list to its end: `LinearizeWhile` and `EndLoop` are the two halves of
`linearize_while_statment()`. Helpers keep the names of the code
(`StartBlock`, `InstructBr`, `EndScope`, `InstructClose`).

Abstractions. An expression is one opaque instruction, a use of an escaped local,
or a closure over one; conditions may go either way. All locals of a scope are
declared by one statement; a scope has at most one label; an `if` has at most two
conditions, which is where `elseif` first matters. `Grammar` says which statements
a run admits, so that the states stay few and each run has a subject.

### Execution

Extends `Linearizer` with the machine the generated C implements: a program counter,
the open upvalues, and the upvalues that were closed. A behaviour first compiles a
function and then runs it; every condition goes either way. `RunClose` closes all
open upvalues from a register upwards, as `luaF_close()` does. `CfgEdges` is the
graph `raviX_construct_cfg()` derives.

### LinearizerProofs, ExecutionProofs

`LinearizerProofs`: lemmas about the operations on `Proc`, scopes and the stack; the inductive
invariant of the walk; the invariant of the code of the blocks; the theorems about `Linearizer`.
`ExecutionProofs`: what follows for the execution of the compiled function, and the annotation
of its code that the theorems about upvalues rest on.

### FlowGraph

The node lists of `graph.c` as operators, without state: a graph is a record of the
successor and the predecessor list of each node. `AddEdge` and `DeleteEdge` keep the
code's order (an edge is appended if it is not there; deleting shifts the rest). What the
two do to lists that mirror each other is proved where it is used, in `UnusedCodeProofs`
and `DominatorsProofs`.

### UnusedCode, UnusedCodeProofs

`raviX_construct_cfg()` for all functions of a chunk, called by the driver and again
by the pass that needs a missing graph, then `raviX_remove_unreachable_blocks()`.
`code[p][b]` is the last instruction of block `b` of function `p`, chosen once;
`cfg[p]` is `Proc.cfg`, `NoGraph` standing for `NULL`. `phase`, `p`, `i`, `todo` say where
the thread is: within one block of one function. Each edge added or deleted is a step,
so the lists are seen half changed. `removed` are the blocks whose instructions are
gone. `last` is how the functions are nested: any tree, in the order of `all_procs`.

### DepthFirst

`raviX_classify_edges()`, with the recursion of `DFS_classify()` as a stack of
activations (node and position in its successor list). `pre`, `rpost` and `edge_type` are
the fields of the nodes and links and stay between calls; edges may be deleted
(`RemoveEdge`) and the graph classified again.

### Dominators, DominatorsProofs

Extends `DepthFirst`: once the graph is numbered, `raviX_calculate_dominator_tree()`
sorts the nodes (`Start` chooses among the orders `qsort()` may return for equal
numbers) and sweeps (`Visit`, one node a step). `Intersect` is a recursive function.
The proofs are of both modules.

### BitsetOps, Bitset; ContainerProofs

`BitsetOps` has one operator per function of `bitset.c`, on a bit set that is its
length and its words, *including the words beyond the length*, which the code leaves
as they are. `Bitset` calls them in any order, and says beside it in sets of numbers what
each call means: `memory` is the numbers whose bits are on, behind the end as well, `words`
how far the set goes, and `Val` the numbers before that end. Clearing, copying a shorter set
and combining shorter ones move the end; a call that moves it back finds the old numbers in the
set again. `answer` is what the last call told of a change.

### Dataflow, DataflowProofs

`raviX_solve_dataflow()` with the join and transfer functions of `df_liveness.c`, on any
control flow graph and any use and def sets. The pending list is a list, and
`bb_to_consider` a bit set of `BitsetOps`, whose behaviour after a clear decides whether
the solver reaches the fixpoint. Two history variables say what that behaviour costs:
`before` has the blocks that were pending in an earlier iteration, whose bits are on in
memory, and `skipped` those of them that a change has asked for again since their last visit.

### PtrList, implementing EntryList

`ptrlist.c`, the list all passes keep everything in. `blocks` is the ring from the head on;
a block is its slots and `rm_`, the number of slots marked as deleted. `iter` is the
iterator of the one loop that is under way, `standing` says that the loop's variable holds
an entry: the loop body may then replace, delete, mark or insert, each splitting and moving
slots under the iterator. `EntryList` is a sequence with a cursor; the refinement mapping
drops the marks and adds up the blocks before the iterator.

The code has preconditions it does not check, and the guards state them, each with its
reason: functions that return or move raw slots are called on a list without marks; `first`
and `last` on one without empty blocks; removal through an iterator in forward loops only;
a backward loop must not make a new last block, as it knows the end of the list by the block
it began at. Splitting a block that has marks forgets `rm_`.

### HashTable, implementing KeyMap; ContainerProofs

`hash_table.c`, and `set.c`, which is the same algorithm without data. A table is a record
of its slots and three numbers. `ht` is the table, `looping` and `cursor` a loop over it,
during which entries may be removed and nothing is inserted, as `hash_table.h` asks. Insert
is the whole function: rehash to the next size, or to the same one to get rid of marks,
then probe. `KeyMap` is a function with a loop that reaches each key once in no order.
`KnuthAssumption` is what the comment on `hash_sizes[]` says of its rows: a table has more
slots than it takes entries, and its size shares no factor with a step of a search. All 31
rows of the code satisfy it; the last row bounds the number of keys, as a table beyond
it does not grow.

### Resolver, implementing Scoping; ResolverProofs

The symbols of `parser.c`. `functions`, `scopes` and `variables` are what the parser builds,
`current_function` and `current_scope` its two cursors, `open` the constructs it is inside of
(its C stack), `var` the symbol just found. `assigned` and `redefined` record what the program
does to a variable, `x = ...` and `function x ...`. The variable of the scope around the chunk
is `_ENV`. The two readers of the tree are operators: the descriptors `codegen.c` makes of
upvalues (`get_upvalue_idx()`), followed from function to function as the VM follows them
when it creates closures, and `is_replaceable_upvalue()` of the linearizer. A local statement
declares one variable, a function has at most one parameter, and `function x` is a
reference to `x` and a body. `Scoping` is a stack of frames with names, in which a name
means its latest declaration in the innermost frame that has one; the order in which the
compiler makes names visible (the variable of a `for` in its own header) is part of it.

### Expressions, implementing Evaluation

The expression half of `linearizer.c`. The state is `proc` (the register sets of the two
kinds of temporaries, the contents of registers, what was stored), `frames` (the
`linearize_*` functions in progress, with the pseudos each holds) and the number of
`nodes`, a bound. An instruction is executed on symbolic values when it is emitted, as its C
code would do it: calls copy their operands one by one (`codegen.c`), results of unknown
number are kept at the top of the stack, stores take a range from there. Where `and` and `or`
stop at the first operand, the second is emitted and skipped. A call in parentheses is a
construct of its own, as its range of results is turned into one value there
(`truncate_results`). `AssertsHold` says that none of the assertions of the code
fails and that no range reaches a move of one value, for which there is no code (`Moved`). `Evaluation` has the constructs in progress and the
values of their operands.

Seven shapes of statement are not compiled right, and left out (`LeftOut`); see below.

### Arithmetic, implementing LuaArithmetic; LuaNumbers; ArithmeticProofs

Numeric expressions through the whole pipeline. An expression on `stack` carries what each
pass knows of it: the kind of node, the type the checker gave it, the place the linearizer
put it in, and the value the C code finds there, which is `Junk` when bits of one type are
read as another. `Unary`, `CastTo`, `Binary`, `Store` and `For` type it, fold it or choose an
instruction, and execute the C code. `last` is what the source said, so that the abstract
specification must do the same operation and not just any that fits. `ReadAgain` names a variable
a second time: both operands are then the variable's register and not copies of it, so that an
instruction that writes to its operand (`op_toflt`) changes both.

`LuaNumbers` is the run-time library of Lua, which the generated code calls and which is not
part of the repository: integers of `W` bits, floats as exact fractions with infinities and
NaN. `LuaArithmetic` evaluates on a stack of values with those operations; the numeric `for`
is the loop `docs/linear-ir.md:550` spells out. Floats are not rounded and have one zero;
exponents are whole and small; metamethods and strings that are numbers are
not modelled, so an operator on something else than numbers is an error. Signed overflow,
which is undefined in the C code the compiler generates, wraps around.

Ten cases are not compiled right, and left out (`LeftOut`); see below.

### Modules whose name begins with MC

Values of the constants for TLC, a bound on the size of what is compiled (`MCLinearizer`,
`MCExecution`, `MCResolver`, `MCExpressions`), the choice of functions (`MCUnusedCode`) and the symmetry of
the bit sets (`MCBitset`).

## What is checked

| Run | Question | Bounds |
|---|---|---|
| `Linearizer` | no block is lost, and every block ends with a branch and nothing after it; each list restores the break target, the scope and the registers of the one around it | every kind of statement, 2 statements beyond the obligatory ones, scopes 4 deep, 10 blocks, two locals a scope |
| `Execution` | upvalues are closed on every way out of a scope and not before; locals are fresh in each iteration; the graph has every edge taken | 2 statements, 3 deep, 10 blocks, one local a scope |
| `UnusedCode` | only unreachable blocks go, the graphs keep the edges of the rest, nothing that could go stays; a function without a graph does not spoil the others; the pass ends | 3 functions, one of them any function of 4 blocks; conditional branches have ascending targets |
| `Dominators` | edge types, spanning tree and reverse postorder; immediate dominators against their definition; `intersect()` stays in the tree; the sweeps end | all graphs of 4 nodes with up to 2 successors each and none after the exit, also after an edge was deleted |
| `Bitset` | contents and queries against sets, reported changes against changes in memory | 2 bit sets, words of 2 bits, numbers up to 4, all functions |
| `Liveness` | what is live is found unless a visit was skipped, and nothing else; the solver ends | 2 variables, each used in one block, one of them defined in at most one, 4 blocks |
| `PtrList` | the list is a sequence under every order of calls and loops that change it; counts and queries | 3 entries of which 2 compare as equal, blocks of 2 slots, 4 slots, 3 blocks |
| `HashTable` | the table is a map through collisions, marks and rehashes, and so is a loop that deletes; every search ends | 5 keys that meet in the first sizes of `hash_sizes[]` |
| `Resolver` | names mean what the scopes say; what is captured is closed and passed down by the right descriptors; what is replaced by a literal is never assigned | 3 functions, 4 scopes, 3 variables, names `x` and `_ENV`, 5 constructs open, `MaxSize` 11 |
| `Expressions` | each register has one owner and is freed once; assertions hold; statements compute, store and return what the expressions say | 5 nodes for the return of one value, 4 for other statements, lists of 2, masks of 2 bits, 2 results of a call |
| `Arithmetic` | types are those of the values; there is C code for every instruction; it computes what Lua does | 5 literals, parameters, variables read again, operators, casts or assignments, 2 operands waiting, integers of 4 bits, 6 values |

`Execution` is the largest with 6.7 million states; `Expressions` has 630,000, `Resolver`
283,000, `Liveness` 209,000, the others fewer.

The bounds of `Linearizer` and `Execution` count statements *beyond* those a scope needs to
be well formed (the declaration of its locals, the closures that make them `escaped`, its
label), so two statements are functions of about seven. Three nested scopes are enough
for a jump to leave an outer scope that needs closing, an inner one that does not, and one
it stays in; the fourth level in `Linearizer` lets the numeric `for`, which has two
scopes, contain a loop. One escaped local a scope tells an open upvalue of one scope
from that of another; two (`TwoLocals`) separate the first *escaped* register from
the first register, which the stack discipline and the operand of `op_close` depend on.
Ten blocks are two loops, or a loop and an `if` with `elseif` and `else`, in each other.

Four blocks are the entry, the exit and two others: a chain against the order of the
sweep, which needs a second sweep, or a loop. Four nodes have every kind of edge, a
node that is reached on two ways, and an irreducible loop. Three words, the last with
one number in use, are enough for a range to end at, before and after a word's
boundary and to cover a word between others, and for a set to shrink by one word or two and grow
again. Four blocks make the solver go around a loop and beyond it; with the second variable one block
can change in three iterations, so that a visit is skipped.

Three blocks of two slots are a first, a middle and a last one, each empty, half full or
full; four slots let a split in the middle meet a block it can pack into. The five keys fill
the smallest table, make chains of three in the next, and force rehashes to the next size and
to the same one. Three functions are the one that declares a variable, one that passes its
upvalue on and one that uses it; `MaxSize` counts scopes double, so that a program deep in
one respect is small in the others. Five nodes are a call in a call beside a deferred
load; a mask of two bits lets a range be longer than its mask. Two operands with five steps
are `(a op b) op c`, or one operator with a cast, an assignment or a minus on an operand or on
the result; four bits leave room for both signs, for a shift by more than the width and for
overflow, and the values for a fraction, infinity and NaN. The index of a loop goes round
after sixteen turns; a loop that lasts as long does not end.

Liveness is checked of the passes that iterate: `UnusedCode`, `Dominators` and
`Liveness` assume weak fairness of the step as a whole, which is that the compiler's
one thread does not stop in the middle. Among the steps it does not choose; deleting
an edge between two classifications is not one of them. The walk over the AST ends
because the AST is finite, and the model cannot say more than that; no fairness is
assumed of it.

Deadlock is checked, with two exceptions: `Resolver`, where the bounds on functions and
variables can leave nothing to do, and `Arithmetic`, where a behaviour ends with its
statement. In the others the end of the compilation is the only state in which
nothing is left to do.

### Refinements

Five detailed modules implement an abstract one: `PtrList` a list with a loop
(`ImplementsList`), `HashTable` a map (`ImplementsMap`), `Resolver` the scoping rules
(`ImplementsScoping`), `Expressions` the order of evaluation (`ImplementsEvaluation`),
`Arithmetic` the meaning of expressions and loops (`ImplementsLua`). The mappings are at the
end of the detailed modules. The abstract specifications are written from what the header,
the documentation or the language says, and share no operator with the detailed ones but
those of the external library (`LuaNumbers`).

### Where the code disagrees with its documentation

One run expects a violation:

* `DocGotoBackward`. "The final instruction of a block must always be a branch
  instruction" (`src/linearizer.c:36`). A `goto` back to a label out of a scope with an
  escaped local appends the close to the label's block, which has already ended.

The other configurations whose names begin with `Doc` are counterexamples to run by hand;
each checks one statement of a comment or a document, and TLC finds it violated:

* `DocReturnInDo` (`MCExecution`). "all returns jump to the exit block"
  (`docs/linear-ir.md:108`). What follows `do return end` is added to the block the return
  ended; the graph has no edge for the return.
* `DocGotoForward` (`MCExecution`). `need_close` asks "When we exit scope of this block do the
  upvalues need to be closed?" (`src/parser.h:219`). A `goto` to a label further down its own
  scope closes the scope's upvalues although the scope is not left.
* `DocRepeat` (`MCExecution`). The condition of a `repeat` is read "inside scope block"
  (`src/parser.c:1355`), but the upvalues of the body are closed before it is evaluated.
* `DocChange` (`Bitset`). `raviX_bitset_set_bit_p()` "returns true if previously bit was not set"
  (`src/bitset.h:61`), the operations "Return true if DST changed" (`src/bitset.h:98`). After
  `raviX_bitset_clear()`, which only sets the length to 0, an old bit is back when the set grows, and
  the first answers false for a bit that was not in the set. `op2()` and `op3()` compare only the
  words the operands have; a longer destination is cut off without a report.
* `DocLiveness` (`MCDataflow`). "out[n] = Union of in[s]" (`src/df_liveness.c:92`). The solver asks
  `raviX_bitset_set_bit_p()` whether a block is on the pending list already; the old bit that
  comes back makes it leave out a block that was there in an earlier iteration. With two variables it stops
  before the fixpoint.
* `DocCallOperand` (`MCExpressions`). "result = eval(expr_left)" (`docs/linear-ir.md:468`). A call as operand of `and`
  or `or` is handed to `op_mov` as the range of its results (`src/linearizer.c:972`), for which
  `emit_move()` has no code (`src/codegen.c:1291`): `_soft = rawget(_G, "_soft") or false`
  (`tests/input/t02_locals.in:19`) cannot be translated to C. The counterexample admits this one
  shape, `range_operand`, and no other.
* `DocModified` (`MCResolver`). The mark `modified` says "There is an update to the variable post
  initialization" (`src/parser.h:189`), but `function f() end` on a local `f` does not set it
  (`src/parser.c:1635`). After `local f = 1` the optimisation replaces `f` by 1 in nested
  functions although `f` has become a function. `LiteralsNeverAssigned` speaks of assignments
  only.

The kinds of statement in `Grammar` that name these cases, and `for_escaped`, are left
out of the passing runs for which they make a property false. `for_escaped` is a numeric
`for` whose variable is captured: `end_scope()` emits a close after the branch back to
the loop's test (`src/linearizer.c:2707`), dead code behind the branch of its block.

`Expressions` leaves out seven shapes. Take one out of `LeftOut` and the run ends with a
counterexample:

* `method_argument`: a method call on a temporary leaves its result one register above
  the slot its caller copies it from (`src/codegen.c:1525`, `1591`).
* `typed_swap`: `i, j = j, i` on integer locals. Values are copied before the first store
  (`src/linearizer.c:1806`) if they are locals in Lua registers, but not if they are C
  variables.
* `typed_callee`: `(i + 1)()` leaks the integer temporary, and the check that all registers are
  free again fails (`src/linearizer.c:225`).
* `pending_key`: `{[x] = 2}` with a global key, and `{[t.x] = 2}`, hand a deferred load to
  the store; an assertion fails (`src/linearizer.c:403`).
* `assertion_of_call`: a type assertion on a call, `return @table f()`, keeps the range of
  the call's results although it has one result.
* `place_without_value`: `t.x, t.y = 1` stores a range into the second place; the same
  assertion fails.
* `range_operand`: a call not in parentheses as operand of `and` or `or`, or under `@integer` or
  `@number`, is moved as a range (`src/linearizer.c:972`, `981`, `882`); the code generator reports an error
  (`src/codegen.c:1177`, `1209`, `1291`).

`Arithmetic` leaves out ten cases:

* `int_div`: `/` on two integers is the division of C integers (`src/codegen.c:1743`), which
  rounds, and traps for a zero.
* `fold_shift`: a folded shift to the right of a negative number keeps its sign
  (`src/ast_simplify.c:223`).
* `fold_inf`: an infinity or NaN that comes out of folding, or of a literal too large for a
  float, is printed as a word that is no C constant.
* `minus_minus`: a typed shift to the right by a negative constant prints `--`
  (`src/codegen.c:1774`).
* `float_as_int`: `op_toint` accepts a float that is whole, leaves it in its register, and
  its bits are read as an integer (`src/codegen.c:2005`): parameters, casts, assignments and
  loops.
* `number_of_int`: `@number(i)` where the type of `i` is integer: for a C variable no code is made, and a
  constant is converted in place.
* `number_of_local`: `x + @number(x)` and the like, where `x` has no static type and holds an integer:
  `op_toflt` writes the float back to the register of `x` (`src/codegen.c:2045`), and the operand before it, which is that
  register, is a float as well.
* `number_condition`: `if i then` for a number in a C variable: no code is made.
* `header_cast`: if one expression in the header of a loop has no static type, the others are
  cast to integers without a check (`src/typechecker.c:474`): for a float there is no code,
  or its bits are read as an integer; for a literal that is no integer there is no code.
* `zero_step`: `docs/linear-ir.md:564` lets a loop with step 0 count upwards, the code
  downwards (`0 < step`, `src/linearizer.c:2668`), as does Lua 5.3 itself.

Other places where a comment or document promises more than the code does, met while
reading, for which there is no run:

* The removal of unused code removes blocks without predecessors, so an unreachable loop
  stays ("Remove blocks that are unreachable", `src/optimizer.h:28`); `NothingLeftToRemove`
  speaks of predecessors.
* A node that cannot be reached has no predecessor with a dominator (`src/dominator.c:98`
  says there is always one; the assert that follows would fail); `DominatorsRight` says it is
  left without one.
* `array_push()` (`src/allocate.h:81`) stores the new capacity before it hands it to
  `raviX_realloc_array()` as the old one, where `assert(new_n > old_n)` fails at the first
  push. With assertions the data flow solver, its only user, cannot run; without them
  the array is right except that its new part is not zeroed, and no user reads that.
  `Dataflow` models the arrays as sequences.
* The table of constants (`src/linearizer.c:288`) takes 0.0 and -0.0 for one constant, never
  finds a NaN again, and hashes a float by converting it to an unsigned integer, which is
  undefined for a negative one.
* A global below a local called `_ENV` fails an assertion (`src/linearizer.c:456`);
  "users can define a local `_ENV` variable that overrides the default"
  (`docs/linear-ir.md:219`).
* `1 // 0` and `1 % 0` are rejected by the compiler; Lua raises the error when the
  expression is evaluated.
* `flatten_concat()` asks twice whether an operand is a float and never whether it is an
  integer (`src/ast_simplify.c:400`).
* Nothing checks that a register fits the 256 bits of a register set, nor an upvalue index
  its field.

## What is proved

Every theorem holds for all values of the constants that satisfy the assumptions of the
modules (below): functions, graphs, programs and tables of any size.

| Module | Theorems |
|---|---|
| `LinearizerProofs` | `TypeCorrect`; `BlocksKept` (`NoBlockLost`) and `BlocksBranch` (`FinalInsnIsBranch`), if no `goto` jumps back over locals that must be closed; `ContextInForce` (`StackDiscipline`, `BreakIsInnermost`); `ContextKept` (`ContextRestored`), if the function is `Structured` |
| `ExecutionProofs` | `NeverFallsThrough` (`NoFallThrough`), `BranchesAreEdges` (`TakenEdgesInCfg`), if the function is `Structured`; `LocalsFresh` (`FreshLocals`), `ClosedWhenLeft` (`ClosedOutsideScope`), `SharedWhileInScope` (`SharedInScope`), if it is `Scoped` |
| `UnusedCodeProofs` | `TypeCorrect`, `GraphsRight` (`GraphRight`), `ReachableStays` (`NoReachableRemoved`), `NothingLeft` (`NothingLeftToRemove`) |
| `DominatorsProofs` | `Classifies` (`ClassificationRight`), `Topological` (`RpoTopological`), `DominatorsFound` (`DominatorsRight`) |
| `DataflowProofs` | `NothingTooLive` (`NotTooLive`), `FoundUnlessSkipped` (`LiveFound`) |
| `ContainerProofs` | of bit sets `ContentsKept` (`ContentRight`), `ChangesTold` (`ReturnsChange`); of the hash table `CountsKept` (`CountsRight`), `SearchFindsKeys` (`SearchRight`), and the refinement `TableIsMap` (`ImplementsMap`) |
| `ResolverProofs` | `TypeCorrect`, `CapturedMarked` (`ClosedWhereCaptured`), `LiteralsStay` (`LiteralsNeverAssigned`), and the refinement `ScopesResolve` (`ImplementsScoping`) |
| `ArithmeticProofs` | `TypesAgree` (`TypesSound`) and `CodeForAll` (`NothingAborted`), if the expressions in `Miscompiled` are left out |

### The linearizer

`BlocksKept` and `BlocksBranch` assume `"goto_backward_close" \notin Grammar`;
`DocGotoBackward` shows that they are false without. `NoBlockLost` is not inductive. That
the exit block of a loop is started needs the frame of the loop to be popped when the
loop ends; that a block created by a forward `goto` is started needs its label to be
met, which holds because the scope of the label is still in progress, which needs the
frames on the stack to match the scopes on the path. `IInv` says all of it:

* `ProcOK`, `CountersOK`: types, and the current block exists.
* `ScopesOK`: the paths of the scopes form a tree, and a scope's registers begin where
  its parent's end. `CursorOK`: the registers in use are exactly those up to the top of
  the current scope, so `new_scope()` hands out the next ones.
* `Walking`, while the walk is on: each frame holds blocks that exist (`FramesOK`); the
  path is as long as the stack is deep, a `for` counting twice (`DepthOK`); the break
  target in force in each frame's list is that loop's exit or the one inherited
  (`BreakOK`); a label with a block and no statement yet belongs to a scope on the path
  (`LabelsOK`).
* `PlacedOK`: a label that was met has its block.
* `Kept`: a block without a branch that is not current is the exit, or held by a frame,
  or owed to a label. This is where `"goto_backward_close"` is excluded.
* `EndedOK`: when the walk is over the last block ended and no label is owed.

The proof has a lemma for each action. Statements without a nested list keep the
stack; those with one push a frame (`PushKeeps`), whose blocks include all that were
created and not yet started; the ends of lists pop it (`PopKeeps`) after starting the
block it held. The depth lemmas (`DepthStep`, `DepthMonotone`) replace an induction over
the stack: they compare cardinalities of sets of frames.

`ContextInForce` follows from `IInv` alone: along the path of the current scope the registers
are stacked (`PathStacked`, by the least counterexample, as a path is one scope longer than that of
its parent), and the chain of break targets in `BreakOK` leads to the innermost loop.

### The code and its execution

`ContextRestored` also says that nothing is appended behind a branch (`BranchEndsBlock`). The linearizer
does append there in three cases: a `goto` back over locals that must be closed, a `return` at the
end of a `do`, and a `for` whose variable is captured. `Structured` excludes these three kinds of
statement and nothing else. `CInv` is the invariant needed beside `IInv`:

* `Sound`: a branch is the last instruction of its block, its targets exist, a return leads
  to the exit; and a promised block (`Promises`: held by a frame or owed to a label) is empty. Without the
  last, starting a block would continue one that has ended.
* `StackApart`, `LabelsApart`: nobody is promised the block of another, else starting it for one
  would fill that of the other.
* `ListOK`: the current block has no branch while its list is open; after a `return` its last
  instruction is that return.

Each handler has a lemma (`...Ready`): the code it makes before its list, after it, and for
each arm of an `if`. In the compiled function `FinalInsnIsBranch` and `Sound` together say that every block is
a run of plain instructions with one branch at the end. So the program counter of `Execution` stays
on an instruction (`PcOK`), which is `NoFallThrough`; and the branch it takes is the one
`raviX_construct_cfg()` reads, which is `TakenEdgesInCfg`.

### Upvalues

`FreshLocals`, `ClosedOutsideScope` and `SharedInScope` speak of a path through the compiled code, the
handlers of one statement after the other. What connects them is an annotation of the code. A
scope is *live* at a place if its locals are declared there and closures may share them; `E` has the
live scopes at the start of each block, `A` those before each instruction. It fits (`Flow`) if

* an ordinary instruction of a scope finds only scopes of its path live, and a use or a closure
  finds the scope of its local live (`OpOK`, `UseOK`);
* a declaration finds the escaped locals of all live scopes below its registers, and makes its own
  scope live (`InitOK`);
* a close has the escaped locals of the scopes that stay live below its operand and those of the
  scopes that cease to be live above it (`CloseOK`);
* a branch leads to a block with no more live scopes than it comes with, and if with fewer, the
  block first closes theirs (`EdgeOK`, `ClosesFirst`). That is the code of a `break` or a `goto` out of
  a scope: `CloseInTarget` puts the close at the head of the target, before the block is started.

Each handler keeps a fitting annotation (`...Annotated`). That needs to know of the blocks not yet
started what will be live there (`Lives`): at the blocks a frame holds, and at the test of a loop, the scopes
outside the frame's (`FrameLive`); at a label's block, those up to the scope of the label (`LabelLive`);
and the break scope is the first scope of the loop (`LoopScopes`). A block that others have been told
to close something in contains only closes that end nothing live there (`Steady`), so several jumps can add
theirs. A scope's registers are above those of the scopes around it (`PathOrder`), so closing from the first escaped
register of the outermost scope left upwards closes what is left and nothing else.

`UInv` is the invariant of `RunSpec`: an open upvalue is of a live scope, or is about to be closed by
the closes the call is in front of; one that was closed is of a scope not live (`OpenOK`,
`DetachedOK`). The three properties follow at the instruction they speak of.

`Scoped` leaves out, beside the three kinds of `Structured`, `goto_forward_close` and
`repeat_uses_locals`: a forward `goto` closes upvalues of the scope it stays in, and the condition of a
`repeat` is evaluated after the locals it uses were closed. Both make `SharedInScope` false
(`DocGotoForward`, `DocRepeat`).

### Graphs, unused code, dominators, liveness

The lemmas `EdgeAdded` and `EdgeDeleted` say of `AddEdge` and `DeleteEdge` that the successor and
predecessor lists go on mirroring each other without repetition, and which edges there are then.

The `IInv` of `UnusedCodeProofs` has the state of the construction (`Constructed`: the graph has
the edges of the blocks before `i`, and with those in `todo` those of `i`), which functions
have a graph at all (`GraphsInOrder`: those before the first for which the construction
failed), and of the removal that a block that is gone, or going, is entered from such
blocks only (`Removal`). `NoReachableRemoved` follows: what is left is closed under the
branches. `Swept` says that a sweep without a change has seen an edge from a block that is
left into each block behind it, which at its end is `NothingLeftToRemove`.

`DominatorsProofs` first proves the depth-first search. In `IInv`, a node that is numbered and
not finished is on the stack, and the stack is in preorder (`Stack`); no number is given
twice and there are enough (`Numbers`); an edge that was looked at has a type that fits the
numbers of its ends, on the stack and after (`Types`); tree edges span what was reached, and
what was reached after a node still open is below it (`Spanning`). The last one decides
forward edges from cross edges. For the dominators, `Computing` adds: the sweep is in
ascending order of `rpost`, every `IDOM` is nearer to the entry (`IDomTree`), and what
dominates a node dominates its `IDOM` (`Sound`). `Intersect` is recursive; that what it
returns is on the chains of both nodes, and dominated by all that dominates both, is proved
by the least counterexample. Where a whole sweep has changed nothing (`Swept`), each `IDOM` is
what all predecessors have in common, and then it dominates. Irreducible graphs need no case
of their own.

The `DfIInv` of `DataflowProofs` adds to `NotTooLive` that what is found at the end of a block is live
at the start of a successor. It does not matter in which order blocks are visited, nor what
the bit set of pending blocks holds.

That all that is live is found is false in general (`DocLiveness`): `raviX_bitset_clear()` leaves the bits in
memory, so a block that was pending once is not put on the list of pending blocks again. `LiveFound` says that
this is the only thing that goes wrong, and `FoundUnlessSkipped` that it is so for any graph and any
variables. `FoundOK` takes one variable at a time and says of each block: if the variable is found at the start of
a successor, it is found at the start of the block, or defined in it, or the block is still to be visited, or
it is in `skipped`. That needs the memory of the bit set: the bits that are on (`On`), in use
or not, are those of the blocks in `before` and on the pending list (`BitsOK`), so a block that should be put there and is not
is one that was there before. When the work list is empty and `skipped` as well, the blocks where the variable is found are
closed in the sense of `LiveAtStart` (`FoundAll`).

### Symbols

The `IInv` of `ResolverProofs` says of the tree (`TreeOK`) that functions and scopes are linked
to what is older, that a variable in a scope knows that scope, and that the marks are
right. A mark can only be right if `add_upvalue_in_function()` reaches all functions on the
way to the declaration, so the constructs that are open must match the chain of scopes
(`Context`): between the scope of the function that captures and that of the variable lie
the functions that `search_for_variable()` passed. The variables of a construct
that are not yet declared cannot be found, so they are in no upvalue list; the symbols an
assignment still has to mark are of variables that exist (`OpenOK`). `AssignedOK` is then
what `LiteralsNeverAssigned` needs. The lookup is recursive over scopes and functions; its
lemmas are proved by the least counterexample.

`ScopesResolve` is the refinement: every step of the parser maps to one of `Scoping` or to a
stutter. Its invariant, `ScopedInv`, adds to `IInv` a path (`Scoped`): the scopes from outside
the program to the current one, whose positions are the frames of the abstract stack
(`FramesRight`). What could go wrong is that a function is given an upvalue and a declaration
made later should have had the name instead, for `search_for_variable()` takes an upvalue the
function has before it looks further out. `OuterOn` says why it cannot: each upvalue of a
function still open is the last declaration of its name outside of that function, and while the
function is open no declaration is added outside of it. `Chained` says that an upvalue is a
local of the enclosing function or one of its upvalues, which makes `get_upvalue_idx()` find it
at every level, so that the descriptors end at the variable meant (`UpvalueReached`);
`Parents`, that enclosing scopes of another function are those of the function's parent;
`Lists`, that a variable is in a symbol list once, so that it has one place; `DeclareOne`, that
the statements about to declare something declare at most one variable, as the abstract
`Declare` does.

A name is looked up along the path (`SearchPlace`): the result is the latest declaration in the
innermost scope that has one, and its `Owner` is the innermost open function that has the
variable or an upvalue for it. `LevelsPlace` then shows that the functions
`add_upvalue_in_levels_upto()` visits are those whose bodies begin on the path between that
function and the current one, `AfterEnvironment` that the variable is marked escaped exactly
when there is one, and `AfterScoped` that the longer upvalue lists are chained and last
declarations again. The recursive functions of the lookup, of the descriptors and of the
mapping have the values their definitions give because such a function exists (`Recursion`: by
induction on the scopes).

### The hash table

The `IInv` of `ContainerProofs` is `TableOK`: the counts are those of the slots, and entries and marks
together do not exceed the limit of the row (`Counted`); a key is in one slot (`Single`);
and no slot before that of an entry, in the order in which its key is searched for, is
free (`Reached`). Deleting keeps `Reached` because it leaves a mark, inserting because it takes the
first free slot or a mark before it, rehashing because the new table is built by insertions.
That a search meets every slot is arithmetic: no multiple of its step is a multiple of the size
(`KnuthAssumption`). `Counted` with `max_entries < size` leaves a free slot, so each search ends.

The refinement maps a table to the function from its keys to its data (`Contents`) and the
cursor of a loop to the keys in slots the cursor has not reached (`Pending`). Each action maps
to one of `KeyMap`; a rehash inside an insertion changes no key.

### Bit sets

`ContainerProofs` takes words of any width. A number is in the set if its bit is on in its word
(`InContent`), words behind the end counting as empty (`Operand`), so that two sets are equal when
all their words are (`WordsDecide`). The memory of a set is looked at as a set that has no end before
that of its words (`Whole`), and the set itself is the part of it before its end (`ContentIs`). Each function is then a lemma
about words, and says what memory holds afterwards, where the set ends and what is returned (`Effect`):
`ExpandRight` (memory stays as it is and only grows by zeros), `SetBitRight`, `ClearBitRight`, `ClearRight`, `CopyRight`; `RangeRight`,
whose loop keeps that the range before the number it is at is done and no other number has changed (`RangeOK`);
`StoredRight` for `raviX_bitset_op2()` and `op3()`, with a lemma for each of the five operations that it stores the
words it should. `BitIInv` says that every set is well formed, that its memory holds the numbers in
`memory`, and that it ends where `words` says. Nothing needs to be assumed of what is behind the end: old bits
are numbers of `memory` like the others. `ChangesTold` speaks of memory for the same reason, and not of the set,
of which it would be false (`DocChange`).

### Numeric expressions

Four passes hand on what they know of an expression, and each trusts the one before: the checker's
type (`checked`), the type the simplifier leaves on a literal it folded, the linearizer's choice of
register, and the instruction, which reads raw bits by all of them. `Known` says what holds of
an expression between two operators:

* its type, unless nothing is known, is the tag of its value, and so is what the checker thought
  before folding: a node that was retyped was retyped to what its parent had been told, or its
  parent had been told nothing;
* the type decides the place (`TempOf`): a C variable holds a value of its own type;
* a folded expression is a number, and a constant is neither infinite nor NaN.

`Inv` is `Known` of all expressions on the stack, and that nothing was aborted. Each operator has a
lemma that it makes a `Known` expression of such, or raises an error (`Sound`). Only tags matter, so the lemmas about
`LuaNumbers` say what an operation gives, an integer or a float, and not how much; the result of `Gcd`
is never looked at, and the width of integers is any. `Miscompiled` has the seven cases without which the theorems are
false; TLC refutes one or the other if any of them is admitted. The other three, `fold_shift`, `zero_step` and `number_of_local`, make a
wrong value of the right type, and are admitted by the theorems. Beside tags, the
proofs need of a case that there is C code: no `-` before a negative constant of a shift, no constant or
C variable of a float cast to an integer (`HeaderCompiled`), no number in a C variable as a condition.

### Assumptions

The proofs assume what the modules assume and nothing else. Most assumptions are the types of the
constants: `BoundsAssumption`, `LocalsAssumption` and `GrammarAssumption` (`Linearizer`),
`NBlocksAssumption` (a function has an entry and an exit), `NProcsAssumption`, `CbrAssumption`,
`ChangesAssumption`, `UseDefsAssumption`, `WordSizeAssumption`, `ResolverAssumption`, `HashAssumption`,
`WordBitsAssumption`, `MaxBitsAssumption`, `WidthAssumption` (of `lua_Integer`) and `ValuesAssumption` (of
`Arithmetic`: a value is an integer, a float or a boolean). Three say more.
`ListsAssumption`: a successor list has no node twice, which `node_list_add()` sees to. `HashSizesAssumption` and
`KnuthAssumption`: what the rows of `hash_sizes[]` have in common.

### Only model-checked

* `PtrList` with its refinement, whose operations are folds over chunks: what a fold computes is
  induction over data. `Expressions` with its refinement.
* `ImplementsLua`, the refinement of `Arithmetic`: it speaks of values where the theorems speak of
  tags. That `Swapped` and the folded operations compute the same value is arithmetic of powers and
  fractions with a recursive `Gcd`, and a loop is a recursion over its passes.
* Liveness, which is out of the prover's reach, as is `ENABLED`.

Recursive functions are within reach where their argument is a number: the set of arguments for
which a lemma fails has a least element if it is not empty (`LeastNumber`, from the library's
well-founded induction).

## Plan

Done: `Linearizer` and `Execution` with the proofs of both; the graph passes, dominators,
bit sets and data flow, and the proofs of all; the containers with their
refinements, that of `HashTable` proved; `Resolver` with the literal optimisation, the proofs of
its invariants and the proof that it implements the scoping rules; `Expressions` and `Arithmetic` with their refinements,
and the proof that the types of `Arithmetic` are those of its values.

Left, in this order:

1. `PtrList` implements `EntryList`: step lemmas about splitting and packing.
2. Composing `Resolver` with `Linearizer`: the locals and marks of a scope, which `Linearizer`
   chooses, would be those the parser left.
3. The growth arithmetic of the text buffer; the look-ahead of the lexer; typed arrays, tables
   and strings in the type checker and the code generator.

## What is not modelled, and why

The lexer: its tokens are characters put together, which no property here tells apart; of
its state only one token of look-ahead and the table of strings remain, and the table is a
`HashTable`. AST lowering: it turns a generic `for` into `do`, `while`, `if` and `break`
in scopes of their own, all of which `Linearizer` and `Execution` admit in every nesting, so
that what is compiled is checked, but the rewrite itself is not. The text of the generated C, of the AST and of
the IR dumps: output without state. The text buffer and the allocators: a thin layer
over the C library; memory exhaustion is reported by aborting, which no property speaks of.
Of the code generator: arrays, tables and globals, whose instructions call the run-time
library with operands where they are; embedded C. `chibicc`, `tests/ravi_alloc.c`:
third-party. `examples/`: generated output.

## Running

    tlc -config Linearizer.cfg MCLinearizer
    tlc -config Execution.cfg MCExecution
    tlc -config UnusedCode.cfg MCUnusedCode
    tlc -config Dominators.cfg MCDominators
    tlc -config Bitset.cfg MCBitset
    tlc -config Liveness.cfg MCDataflow
    tlc -config PtrList.cfg MCPtrList
    tlc -config HashTable.cfg MCHashTable
    tlc -config Resolver.cfg MCResolver
    tlc -config Expressions.cfg MCExpressions
    tlc -config Arithmetic.cfg MCArithmetic
    tlc -config DocGotoBackward.cfg MCLinearizer
    tlapm LinearizerProofs.tla
    tlapm ExecutionProofs.tla
    tlapm UnusedCodeProofs.tla
    tlapm DominatorsProofs.tla
    tlapm DataflowProofs.tla
    tlapm ContainerProofs.tla
    tlapm ResolverProofs.tla
    tlapm ArithmeticProofs.tla
