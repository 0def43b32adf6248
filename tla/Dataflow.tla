------------------------------ MODULE Dataflow ------------------------------
(***************************************************************************)
(* The worklist solver of src/dataflow_framework.c with its one client,    *)
(* the liveness of variables of src/df_liveness.c: a backward problem.     *)
(* Which variables a block uses and defines is not computed by the code    *)
(* yet; it is chosen here.                                                 *)
(***************************************************************************)
EXTENDS DepthFirst

CONSTANTS
    Vars,    \* the variables
    UseDefs, \* the pairs of uses and definitions the program may have
    WordBits \* BITMAP_WORD_BITS

ASSUME UseDefsAssumption ==
    UseDefs \subseteq [use : [Blocks -> SUBSET Vars], def : [Blocks -> SUBSET Vars]]
ASSUME WordSizeAssumption == WordBits \in Nat \ {0}

INSTANCE BitsetOps

VARIABLES
    ud,             \* the uses and definitions
    in, out,        \* the variables live at the start and the end of a block
    worklist,       \* the blocks of this iteration
    pending,        \* the blocks of the next
    bb_to_consider, \* bit set of the blocks in pending
    pos,            \* position in worklist; 0 between two iterations
    first,          \* this is iteration 0
    before,         \* history: the blocks put on pending in earlier iterations
    skipped         \* history: those of them that should have been put there
                    \* again, until their next visit

history == <<before, skipped>>
dfVars == <<ud, in, out, worklist, pending, bb_to_consider, pos, first, history>>

DfInit ==
    /\ Init
    /\ ud \in UseDefs
    /\ in = [b \in Blocks |-> {}] /\ out = [b \in Blocks |-> {}]
    /\ worklist = [b \in Blocks |-> b]
    /\ pending = <<>>
    /\ bb_to_consider = Create(512)
    /\ pos = 0 /\ first = TRUE
    /\ before = {} /\ skipped = {}

Number == Step /\ UNCHANGED dfVars

(* qsort() puts the blocks in ascending order of their numbers; those that *)
(* were not reached all have the number 0, in any order.                   *)
SortedByRpo(l) ==
    {s \in [DOMAIN l -> Range(l)] :
        /\ Range(s) = Range(l)
        /\ \A k \in 1..(Len(s) - 1) : rpost[s[k]] <= rpost[s[k + 1]]}

(* Mutant: the count of pending is not reset. *)
StartIterationNoReset ==
    /\ Classified /\ pos = 0 /\ worklist # <<>>
    /\ worklist' \in SortedByRpo(worklist)
    /\ bb_to_consider' = Clear(bb_to_consider)
    /\ pending' = pending
    /\ pos' = 1
    /\ UNCHANGED <<vars, ud, in, out, first, history>>

StartIteration ==
    /\ Classified /\ pos = 0 /\ worklist # <<>>
    /\ worklist' \in SortedByRpo(worklist)
    /\ bb_to_consider' = Clear(bb_to_consider)
    /\ pending' = <<>>
    /\ pos' = 1
    /\ UNCHANGED <<vars, ud, in, out, first, history>>

(* live_join_func(): a block without successors starts from nothing, the   *)
(* others collect what is live at the start of their successors.           *)
NoSucc(b) == g.succs[b] = <<>>

Collected(b) == out[b] \cup UNION {in[s] : s \in Range(g.succs[b])}
Joined(b) == IF NoSucc(b) THEN out[b] ELSE Collected(b)
InBefore(b) == IF NoSucc(b) THEN {} ELSE in[b]

(* Mutant: the first iteration is like the others. *)
AppliesAfterChange(b) == Joined(b) # out[b]

(* The transfer function runs on the blocks of iteration 0 and on those    *)
(* where the join changed something.                                       *)
Applies(b) == first \/ Joined(b) # out[b]

(* Mutant: definitions are left out. *)
LiveNoKill(b) == ud.use[b] \cup Joined(b)

(* live_transfer_func() *)
Live(b) == ud.use[b] \cup (Joined(b) \ ud.def[b])
InAfter(b) == IF Applies(b) THEN Live(b) ELSE InBefore(b)
Changed(b) == InAfter(b) # InBefore(b)

(* The predecessors of a block whose bit was not set yet go to pending. *)
Consider(preds) ==
    LET after[k \in 0..Len(preds)] ==
            IF k = 0 THEN [list |-> pending, bm |-> bb_to_consider]
            ELSE LET s == after[k - 1]
                     r == SetBitP(s.bm, preds[k])
                 IN  [list |-> IF r.value THEN Append(s.list, preds[k]) ELSE s.list, bm |-> r.bm]
    IN  after[Len(preds)]

AtBlock == pos \in 1..Len(worklist)

VisitBlock ==
    /\ AtBlock
    /\ LET b == worklist[pos]
           preds == IF Changed(b) THEN g.preds[b] ELSE <<>>
           considered == Consider(preds)
       IN  /\ out' = [out EXCEPT ![b] = Joined(b)]
           /\ in' = [in EXCEPT ![b] = InAfter(b)]
           /\ pending' = considered.list
           /\ bb_to_consider' = considered.bm
           /\ skipped' = (skipped \ {b}) \cup (Range(preds) \cap before)
    /\ pos' = pos + 1
    /\ UNCHANGED <<vars, ud, worklist, first, before>>

(* worklist and pending are swapped. *)
EndIteration ==
    /\ pos > Len(worklist)
    /\ worklist' = pending
    /\ pos' = 0 /\ first' = FALSE
    /\ before' = before \cup Range(pending)
    /\ UNCHANGED <<vars, ud, in, out, pending, bb_to_consider, skipped>>

DfStep == Number \/ StartIteration \/ VisitBlock \/ EndIteration

Solved == pos = 0 /\ worklist = <<>>

Over == Solved /\ UNCHANGED <<vars, dfVars>>

DfNext == DfStep \/ Over

(* One thread, which does not stop in the middle. *)
DfSpec == DfInit /\ [][DfNext]_<<vars, dfVars>> /\ WF_<<vars, dfVars>>(DfStep)

-----------------------------------------------------------------------------
(* Properties *)

(* v may be used after the start of b before it is defined again: b is in  *)
(* every set of blocks that has the uses of v and with a block those of    *)
(* its predecessors that do not define v.                                  *)
LiveAtStart(v, b) ==
    \A S \in SUBSET Blocks :
        /\ \A c \in Blocks : v \in ud.use[c] => c \in S
        /\ \A e \in Edges(g) : e[2] \in S /\ v \notin ud.def[e[1]] => e[1] \in S
        => b \in S

(* No variable is found live that is not. *)
NotTooLive == \A b \in Blocks : \A v \in in[b] : LiveAtStart(v, b)

(* In the end all the variables that are live are found, also around loops *)
(* and in blocks that cannot be reached, if no block is left to be visited *)
(* again that was on pending in an earlier iteration: its bit is still on. *)
LiveFound ==
    Solved /\ skipped = {} =>
        \A b \in Blocks : \A v \in Vars : LiveAtStart(v, b) => v \in in[b]

(* The iterations come to an end. *)
DfTerminates == <>Solved

(* df_liveness.c:92 "out[n] = Union of in[s] where s in succ[n]" *)
OutIsUnion ==
    Solved => \A b \in Blocks : out[b] = UNION {in[s] : s \in Range(g.succs[b])}
=============================================================================
