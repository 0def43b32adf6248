------------------------------- MODULE PtrList ------------------------------
(***************************************************************************)
(* The list the compiler keeps everything in (ptrlist.c): a ring of blocks *)
(* of at most NodeNr entries, entered at its head, with an iterator that   *)
(* holds a block and an index and that the loop body changes the list      *)
(* under.  The ring is the sequence of its blocks from the head on; the    *)
(* pointer of an empty list is NULL.                                       *)
(*                                                                         *)
(* `standing' is the loop's own: its variable holds an entry of the list.  *)
(* What a user may do when is in the guards, each with its reason.         *)
(***************************************************************************)
EXTENDS Integers, Sequences, SequencesExt

CONSTANTS
    Values,    \* the entries
    Key,       \* what the comparison function of a sort looks at
    NodeNr,    \* LIST_NODE_NR
    NULL,      \* what stands in for an entry marked as deleted
    MaxSize,   \* bound on the slots of the list
    MaxBlocks  \* bound on its blocks

ASSUME KeyAssumption == Key \in [Values -> Int]
ASSUME NodeNrAssumption == NodeNr \in 1..127
ASSUME NullAssumption == NULL \notin Values

VARIABLES
    blocks,    \* the blocks: the slots in use of list_[], and rm_
    iter,      \* the iterator: its direction, __head, __list and __nr
    standing   \* the loop variable holds an entry

vars == <<blocks, iter, standing>>

NoLoop == [dir |-> "idle", head |-> 0, list |-> 0, nr |-> 0]
Block(entries, removed) == [list_ |-> entries, rm_ |-> removed]
(* Mutant: a block takes one entry more than it has room for. *)
FullLate(block) == Len(block.list_) > NodeNr

Full(block) == Len(block.list_) >= NodeNr

Init == blocks = <<>> /\ iter = NoLoop /\ standing = FALSE

-----------------------------------------------------------------------------
(* Preconditions *)

NotLooping == iter.dir = "idle"

(* Nothing takes a marked slot out again: what returns or moves raw slots  *)
(* sees the NULL.                                                          *)
Unmarked == \A b \in DOMAIN blocks : blocks[b].rm_ = 0

(* "empty blocks upset the walking code": first() and last() read slot 0   *)
(* and slot -1 of one.                                                     *)
Packed == \A b \in DOMAIN blocks : blocks[b].list_ # <<>>

Content(bs) == FlattenSeq([b \in DOMAIN bs |-> bs[b].list_])

Slots == Content(blocks)

Bounded(bs) == Len(Content(bs)) <= MaxSize /\ Len(bs) <= MaxBlocks

(* A new last block would not be the one a backward loop began at, where   *)
(* it ends.                                                                *)
MayGrow ==
    iter.dir = "backward" => blocks # <<>> /\ ~Full(blocks[Len(blocks)])

-----------------------------------------------------------------------------
(* Operations on the whole list *)

Added(bs, v) ==
    IF bs = <<>> \/ Full(bs[Len(bs)])
    THEN Append(bs, Block(<<v>>, 0))
    ELSE [bs EXCEPT ![Len(bs)].list_ = Append(@, v)]

AddedAll(bs, other) == FoldLeft(Added, bs, other)

ptrlist_pack(bs) == SelectSeq(bs, LAMBDA block : block.list_ # <<>>)

List(bs) == blocks' = bs /\ UNCHANGED <<iter, standing>>

ptrlist_add(v) == MayGrow /\ Bounded(Added(blocks, v)) /\ List(Added(blocks, v))

(* Mutant: marked entries are counted. *)
SizeOfAll == FoldLeft(LAMBDA n, block : n + Len(block.list_), 0, blocks)

ptrlist_size == FoldLeft(LAMBDA n, block : n + Len(block.list_) - block.rm_, 0, blocks)

ptrlist_nth_entry(k) == IF k < Len(Slots) THEN Slots[k + 1] ELSE NULL

(* The first slot of the head block, and the last one in use of the block  *)
(* before it in the ring, whatever is there.                               *)
ptrlist_first == IF blocks = <<>> THEN NULL ELSE blocks[1].list_[1]

ptrlist_last ==
    IF blocks = <<>> THEN NULL
    ELSE LET entries == blocks[Len(blocks)].list_ IN entries[Len(entries)]

ptrlist_linearize(max) == SubSeq(Slots, 1, IF max < Len(Slots) THEN max ELSE Len(Slots))

(* The slots <<block, index>> of the first `count' entries equal to v in   *)
(* the order a forward loop meets them; of all, for 0.                     *)
Before(s, t) == s[1] < t[1] \/ (s[1] = t[1] /\ s[2] < t[2])

SlotsOf(v) ==
    {s \in (DOMAIN blocks) \X (1..NodeNr) :
        s[2] <= Len(blocks[s[1]].list_) /\ blocks[s[1]].list_[s[2]] = v}

Found(v, count) ==
    {s \in SlotsOf(v) : count = 0 \/ Cardinality({t \in SlotsOf(v) : Before(t, s)}) < count}

(* A count that is not reached fails an assertion. *)
Enough(v, count) == count <= Cardinality(SlotsOf(v))

ptrlist_remove(v, count) ==
    LET kept(b) ==
            SelectSeq([i \in DOMAIN blocks[b].list_ |-> <<b, i>>],
                      LAMBDA s : s \notin Found(v, count))
        left(b) == Block([k \in DOMAIN kept(b) |-> blocks[b].list_[kept(b)[k][2]]], blocks[b].rm_)
    IN  /\ NotLooping /\ Enough(v, count)
        /\ List(ptrlist_pack([b \in DOMAIN blocks |-> left(b)]))

ptrlist_replace(v, w, count) ==
    LET now(b, i) == IF <<b, i>> \in Found(v, count) THEN w ELSE blocks[b].list_[i]
    IN  /\ NotLooping /\ Enough(v, count)
        /\ List([b \in DOMAIN blocks |->
                    [blocks[b] EXCEPT !.list_ = [i \in DOMAIN @ |-> now(b, i)]]])

(* The last entry goes; its block stays, empty or not. *)
ptrlist_undo_last ==
    LET b == CHOOSE c \in DOMAIN blocks :
                /\ blocks[c].list_ # <<>>
                /\ \A d \in (c + 1)..Len(blocks) : blocks[d].list_ = <<>>
    IN  /\ NotLooping /\ Unmarked /\ Slots # <<>>
        /\ List([blocks EXCEPT ![b].list_ = Front(@)])

(* Of an empty last block only the block goes: the caller has packed. *)
ptrlist_delete_last ==
    /\ NotLooping /\ Unmarked /\ Packed /\ blocks # <<>>
    /\ List(IF Len(blocks[Len(blocks)].list_) = 1 THEN Front(blocks)
            ELSE [blocks EXCEPT ![Len(blocks)].list_ = Front(@)])

ptrlist_remove_all == NotLooping /\ List(<<>>)

PackList == NotLooping /\ List(ptrlist_pack(blocks))

ptrlist_concat(other) ==
    NotLooping /\ Bounded(AddedAll(blocks, other)) /\ List(AddedAll(blocks, other))

-----------------------------------------------------------------------------
(* Sorting: each block by insertion, then runs of blocks merged in passes  *)

(* Mutant: p goes in front of the entries equal to it. *)
InsertedFirst(sorted, p) ==
    LET place == Cardinality({i \in DOMAIN sorted :
                                \E j \in i..Len(sorted) : Key[sorted[j]] < Key[p]})
    IN  InsertAt(sorted, place + 1, p)

(* p goes behind the last entry that it is not less than. *)
Inserted(sorted, p) ==
    LET place == Cardinality({i \in DOMAIN sorted :
                                \E j \in i..Len(sorted) : Key[sorted[j]] <= Key[p]})
    IN  InsertAt(sorted, place + 1, p)

array_sort(entries) == FoldLeft(Inserted, <<>>, entries)

(* The merge of x and y: which of the two each entry is taken from. *)
Merge(x, y) ==
    LET from[i \in 1..(Len(x) + 1), j \in 1..(Len(y) + 1)] ==
            IF i > Len(x) /\ j > Len(y) THEN <<>>
            ELSE IF j > Len(y) \/ (i <= Len(x) /\ Key[x[i]] <= Key[y[j]])
                 THEN <<<<1, i>>>> \o from[i + 1, j]
                 ELSE <<<<2, j>>>> \o from[i, j + 1]
    IN  from[1, 1]

(* A block goes behind those used up before it, and is filled with the     *)
(* next entries of the merge, as many as it had.                           *)
merge_block_seqs(b1, b2) ==
    LET x == Content(b1)
        y == Content(b2)
        merged == Merge(x, y)
        length(bs, k) == Len(Content(SubSeq(bs, 1, k)))
        ends == [p \in DOMAIN merged |->
                    {k \in DOMAIN (IF merged[p][1] = 1 THEN b1 ELSE b2) :
                        merged[p][2] = length(IF merged[p][1] = 1 THEN b1 ELSE b2, k)}]
        cuts == SetToSortSeq({p \in DOMAIN merged : ends[p] # {}}, <)
        sizeAt(c) == LET side == IF merged[cuts[c]][1] = 1 THEN b1 ELSE b2
                     IN  Len(side[CHOOSE k \in ends[cuts[c]] : TRUE].list_)
        filled == [c \in 0..Len(cuts) |-> FoldLeft(LAMBDA n, k : n + sizeAt(k), 0, [k \in 1..c |-> k])]
        entry(p) == IF merged[p][1] = 1 THEN x[merged[p][2]] ELSE y[merged[p][2]]
        all == [p \in DOMAIN merged |-> entry(p)]
    IN  [c \in DOMAIN cuts |-> Block(SubSeq(all, filled[c - 1] + 1, filled[c]), 0)]

(* Runs of w blocks are merged two by two. *)
MergePass(bs, w) ==
    LET upTo(n) == IF n < Len(bs) THEN n ELSE Len(bs)
        pairs == (Len(bs) + 2 * w - 1) \div (2 * w)
        pair(g) == merge_block_seqs(SubSeq(bs, 2 * w * (g - 1) + 1, upTo(2 * w * g - w)),
                                    SubSeq(bs, 2 * w * g - w + 1, upTo(2 * w * g)))
    IN  FlattenSeq([g \in 1..pairs |-> pair(g)])

ptrlist_sort ==
    LET runs == [b \in DOMAIN blocks |-> Block(array_sort(blocks[b].list_), 0)]
        pass[k \in 0..Len(blocks)] == IF k = 0 THEN runs ELSE MergePass(pass[k - 1], 2^(k - 1))
    IN  NotLooping /\ Unmarked /\ Packed /\ List(pass[Len(blocks)])

-----------------------------------------------------------------------------
(* The loop *)

Move(bs, it, at) ==
    blocks' = bs /\ iter' = it /\ standing' = at

ptrlist_forward_iterator ==
    /\ NotLooping /\ blocks # <<>>
    /\ Move(blocks, [dir |-> "forward", head |-> 1, list |-> 1, nr |-> 0], FALSE)

ptrlist_reverse_iterator ==
    LET last == Len(blocks)
    IN  /\ NotLooping /\ blocks # <<>>
        /\ Move(blocks, [dir |-> "backward", head |-> last, list |-> last,
                         nr |-> Len(blocks[last].list_) + 1], FALSE)

(* The slots the iterator still has before it: the rest of its block, then *)
(* the blocks round the ring until __head is next.                         *)
Ahead ==
    LET n == Len(blocks)
        forward == iter.dir = "forward"
        ring(i) == ((i - 1) % n) + 1
        count == ring(IF forward THEN iter.head - iter.list ELSE iter.list - iter.head)
        block(j) == ring(IF forward THEN iter.list + j - 1 ELSE iter.list - j + 1)
        slots(b) == LET len == Len(blocks[b].list_)
                    IN  IF forward THEN [i \in 1..len |-> <<b, i>>] ELSE [i \in 1..len |-> <<b, len + 1 - i>>]
        visited(j) == slots(block(j))
        left(s) == IF forward THEN s[2] > iter.nr ELSE s[2] < iter.nr
    IN  SelectSeq(visited(1), left) \o FlattenSeq([j \in 1..(count - 1) |-> visited(j + 1)])

Entry(s) == blocks[s[1]].list_[s[2]]

(* Marked slots are passed over; NULL ends the loop. *)
Skipped(s) == Entry(s) = NULL /\ blocks[s[1]].rm_ > 0

Step ==
    LET left == SelectSeq(Ahead, LAMBDA s : ~Skipped(s))
        s == Head(left)
    IN  IF left = <<>> \/ Entry(s) = NULL
        THEN Move(blocks, NoLoop, FALSE)
        ELSE Move(blocks, [iter EXCEPT !.list = s[1], !.nr = s[2]], TRUE)

ptrlist_iter_next == iter.dir = "forward" /\ Step
ptrlist_iter_prev == iter.dir = "backward" /\ Step

(* `break' in the body of the loop. *)
LeaveLoop == ~NotLooping /\ Move(blocks, NoLoop, FALSE)

ptrlist_iter_set(v) ==
    /\ standing
    /\ Move([blocks EXCEPT ![iter.list].list_[iter.nr] = v], iter, TRUE)

ptrlist_iter_mark_deleted ==
    /\ standing
    /\ Move([blocks EXCEPT ![iter.list].list_[iter.nr] = NULL, ![iter.list].rm_ = @ + 1], iter, FALSE)

(* Mutant: the index stays, on the entry that moved up. *)
RemoveStaying ==
    /\ standing /\ iter.dir = "forward"
    /\ Move([blocks EXCEPT ![iter.list].list_ = RemoveAt(@, iter.nr)], iter, FALSE)

(* A backward loop would pass over the entry that moves up. *)
ptrlist_iter_remove ==
    /\ standing /\ iter.dir = "forward"
    /\ Move([blocks EXCEPT ![iter.list].list_ = RemoveAt(@, iter.nr)],
            [iter EXCEPT !.nr = @ - 1], FALSE)

(* The upper half of the block goes to a new one behind it; the count of   *)
(* marked slots stays.                                                     *)
ptrlist_split_node(b) ==
    LET entries == blocks[b].list_
        old == Len(entries) - Len(entries) \div 2
    IN  SubSeq(blocks, 1, b - 1)
        \o <<Block(SubSeq(entries, 1, old), blocks[b].rm_), Block(SubSeq(entries, old + 1, Len(entries)), 0)>>
        \o SubSeq(blocks, b + 1, Len(blocks))

ptrlist_iter_insert(v) ==
    LET full == Len(blocks[iter.list].list_) = NodeNr
        bs == IF full THEN ptrlist_split_node(iter.list) ELSE blocks
        old == Len(bs[iter.list].list_)
        moved == full /\ iter.nr > old
        it == [iter EXCEPT !.head = IF full /\ @ > iter.list THEN @ + 1 ELSE @,
                           !.list = IF moved THEN @ + 1 ELSE @,
                           !.nr = IF moved THEN @ - old ELSE @]
    IN  /\ standing /\ Len(Slots) < MaxSize /\ Len(bs) <= MaxBlocks
        /\ full => blocks[iter.list].rm_ = 0 /\ ~(iter.dir = "backward" /\ iter.list = iter.head)
        /\ Move([bs EXCEPT ![it.list].list_ = InsertAt(@, it.nr, v)], it, TRUE)

Next ==
    \/ \E v \in Values : ptrlist_add(v) \/ ptrlist_iter_set(v) \/ ptrlist_iter_insert(v)
    \/ \E v \in Values, count \in 0..MaxSize :
          \/ ptrlist_remove(v, count)
          \/ \E w \in Values : ptrlist_replace(v, w, count)
    \/ ptrlist_undo_last \/ ptrlist_delete_last \/ ptrlist_remove_all
    \/ PackList \/ ptrlist_sort
    \/ \E v, w \in Values : ptrlist_concat(<<v>>) \/ ptrlist_concat(<<v, w>>)
    \/ ptrlist_forward_iterator \/ ptrlist_reverse_iterator
    \/ ptrlist_iter_next \/ ptrlist_iter_prev \/ LeaveLoop
    \/ ptrlist_iter_mark_deleted \/ ptrlist_iter_remove

Spec == Init /\ [][Next]_vars

-----------------------------------------------------------------------------
(* Properties *)

(* Every block holds at most NodeNr slots, and its rm_ is the number of    *)
(* its slots that are marked: a count that drifts makes size() wrong and   *)
(* ends a loop at a mark.                                                  *)
CountsRight ==
    \A b \in DOMAIN blocks :
        /\ Len(blocks[b].list_) <= NodeNr
        /\ blocks[b].rm_ = Cardinality({i \in DOMAIN blocks[b].list_ : blocks[b].list_[i] = NULL})

(* The ring of blocks behaves as a plain list: the entries are the slots   *)
(* that are not marked, and the loop has passed those up to its slot.      *)
Live(b, upTo) ==
    Cardinality({i \in DOMAIN blocks[b].list_ : i <= upTo /\ blocks[b].list_[i] # NULL})

Passed(b, i) ==
    Live(b, i) + FoldLeft(LAMBDA n, c : n + Live(c, Len(blocks[c].list_)), 0, [c \in 1..(b - 1) |-> c])

Place ==
    CASE iter.dir = "idle" -> 0
      [] iter.dir = "forward" -> Passed(iter.list, iter.nr)
      [] iter.dir = "backward" -> Passed(iter.list, iter.nr - 1) + 1

AsList == INSTANCE EntryList WITH
    items  <- SelectSeq(Slots, LAMBDA v : v # NULL),
    cursor <- [dir |-> iter.dir, at |-> Place, on |-> standing]

ImplementsList == AsList!Spec

(* What the list is asked, in whatever state loops, marks and removals     *)
(* left its blocks, is answered as by the plain list: size() always, the   *)
(* others where nothing is marked, first() and last() where no block is    *)
(* empty.                                                                  *)
QueriesRight ==
    /\ ptrlist_size = AsList!Size
    /\ Unmarked => \A k \in 0..MaxSize : /\ ptrlist_nth_entry(k) = AsList!Nth(k, NULL)
                                        /\ ptrlist_linearize(k) = AsList!Linearize(k)
    /\ Unmarked /\ Packed => /\ ptrlist_first = AsList!Nth(0, NULL)
                            /\ ptrlist_last = AsList!LastEntry(NULL)
=============================================================================
