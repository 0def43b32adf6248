----------------------------- MODULE EntryList ------------------------------
(***************************************************************************)
(* What ptrlist.h promises its users: a list of entries, read by position, *)
(* grown at the end, walked by one loop (FOR_EACH_PTR and its reverse)     *)
(* whose body may replace, delete or insert at the current entry, searched *)
(* and sorted.  No block appears here: PtrList implements this.            *)
(*                                                                         *)
(* The loop's place is the number of entries it has passed, counted from   *)
(* the front ("forward") or, its own included, from the back ("backward"): *)
(* `on' says that it stands on an entry, which it does not before its      *)
(* first step nor after it has deleted the entry it was on.                *)
(***************************************************************************)
EXTENDS Integers, Sequences, SequencesExt

CONSTANTS
    Values,   \* the entries
    Key       \* what the comparison function of a sort looks at

VARIABLES
    items,   \* the entries, in order
    cursor   \* the loop over them

listVars == <<items, cursor>>

Idle == [dir |-> "idle", at |-> 0, on |-> FALSE]

Init == items = <<>> /\ cursor = Idle

Change(seq) == items' = seq /\ UNCHANGED cursor

Stay(seq, at, on) ==
    /\ items' = seq
    /\ cursor' = [cursor EXCEPT !.at = at, !.on = on]

Add(v) == Change(Append(items, v))

(* What a list is asked; `none' where there is no entry.                   *)
Size == Len(items)

Nth(k, none) == IF k < Len(items) THEN items[k + 1] ELSE none

LastEntry(none) == IF items = <<>> THEN none ELSE items[Len(items)]

Linearize(max) == SubSeq(items, 1, IF max < Len(items) THEN max ELSE Len(items))

(* The positions of the first `count' entries equal to v; all, for 0.      *)
Chosen(v, count) ==
    {i \in DOMAIN items :
        /\ items[i] = v
        /\ \/ count = 0
           \/ Cardinality({j \in 1..(i - 1) : items[j] = v}) < count}

RemoveEntry(v, count) ==
    LET kept == SetToSortSeq(DOMAIN items \ Chosen(v, count), <)
    IN  Change([i \in DOMAIN kept |-> items[kept[i]]])

ReplaceEntry(v, w, count) ==
    Change([i \in DOMAIN items |-> IF i \in Chosen(v, count) THEN w ELSE items[i]])

DropLast == items # <<>> /\ Change(Front(items))

RemoveAll == Change(<<>>)

Concat(other) == Change(items \o other)

(* The one ascending arrangement that leaves entries with equal keys in    *)
(* the order they had.                                                     *)
Rank(i) ==
    Cardinality({j \in DOMAIN items :
                    \/ Key[items[j]] < Key[items[i]]
                    \/ (Key[items[j]] = Key[items[i]] /\ j <= i)})

Sort == Change([p \in DOMAIN items |-> items[CHOOSE i \in DOMAIN items : Rank(i) = p]])

Begin(dir) ==
    /\ cursor' = [dir |-> dir, on |-> FALSE,
                  at |-> IF dir = "forward" THEN 0 ELSE Len(items) + 1]
    /\ UNCHANGED items

(* The loop goes to the entry after, or before, and ends past the last.    *)
Advance ==
    LET next == IF cursor.dir = "forward" THEN cursor.at + 1 ELSE cursor.at - 1
    IN  /\ cursor # Idle
        /\ UNCHANGED items
        /\ IF next \in DOMAIN items
           THEN cursor' = [cursor EXCEPT !.at = next, !.on = TRUE]
           ELSE cursor' = Idle

Leave == cursor' = Idle /\ UNCHANGED items

SetCurrent(v) == cursor.on /\ Stay([items EXCEPT ![cursor.at] = v], cursor.at, TRUE)

DeleteCurrent ==
    /\ cursor.on
    /\ Stay(RemoveAt(items, cursor.at),
            IF cursor.dir = "forward" THEN cursor.at - 1 ELSE cursor.at, FALSE)

(* The new entry goes in front of the current one and becomes current.     *)
InsertCurrent(v) == cursor.on /\ Stay(InsertAt(items, cursor.at, v), cursor.at, TRUE)

Next ==
    \/ \E v \in Values : Add(v) \/ SetCurrent(v) \/ InsertCurrent(v)
    \/ \E v \in Values, count \in 0..Len(items) :
          \/ RemoveEntry(v, count)
          \/ \E w \in Values : ReplaceEntry(v, w, count)
    \/ DropLast \/ RemoveAll \/ Sort
    \/ \E v, w \in Values : Concat(<<v>>) \/ Concat(<<v, w>>)
    \/ \E dir \in {"forward", "backward"} : Begin(dir)
    \/ Advance \/ Leave \/ DeleteCurrent

Spec == Init /\ [][Next]_listVars
=============================================================================
