----------------------------- MODULE HashTable ------------------------------
(***************************************************************************)
(* The hash table of hash_table.c, and the set of set.c, which is the same *)
(* without data: open addressing with double hashing, slots of deleted     *)
(* entries marked and passed over by searches, and a rehash, to the same   *)
(* or to the next size, when entries and marks together reach a limit.     *)
(*                                                                         *)
(* A table is a record, so that what uses one (the interned strings, the   *)
(* constants of a function) can hold its own.                              *)
(***************************************************************************)
EXTENDS Integers, Sequences, SequencesExt

CONSTANTS
    Keys,        \* the keys; equal keys are one
    Data,        \* what is stored with a key
    Hash,        \* hash_function
    HashSizes    \* hash_sizes[], as far as Keys can fill it

ASSUME HashAssumption == IsFiniteSet(Keys) /\ Hash \in [Keys -> Nat]
ASSUME HashSizesAssumption ==
    /\ HashSizes \in Seq([max_entries : Nat, size : Nat \ {0}, rehash : Nat \ {0}])
    /\ HashSizes # <<>>

(* "From Knuth": a size is prime and greater than the rehash value, so no  *)
(* stride has a multiple in common with it.  Each size has room to spare,  *)
(* and the next one more; the last one has room for all keys.              *)
ASSUME KnuthAssumption ==
    /\ \A i \in DOMAIN HashSizes :
           /\ HashSizes[i].max_entries < HashSizes[i].size
           /\ \A d \in 1..HashSizes[i].rehash, n \in 1..(HashSizes[i].size - 1) :
                  (n * d) % HashSizes[i].size # 0
           /\ i > 1 => HashSizes[i - 1].max_entries < HashSizes[i].max_entries
    /\ Cardinality(Keys) <= HashSizes[Len(HashSizes)].max_entries

VARIABLES
    ht,       \* the table
    looping,  \* a loop over the table is under way
    cursor    \* its address; before the first slot it is -1

vars == <<ht, looping, cursor>>

NONE == -1

-----------------------------------------------------------------------------
(* A table: its slots, the index of its size, and its two counts *)

Slot(kind, key, data) == [kind |-> kind, key |-> key, data |-> data]
FREE == Slot("free", NONE, NONE)
DELETED == Slot("deleted", NONE, NONE)

EmptyTable(index) ==
    [table           |-> [a \in 0..(HashSizes[index].size - 1) |-> FREE],
     size_index      |-> index,
     entries         |-> 0,
     deleted_entries |-> 0]

Size(t) == HashSizes[t.size_index].size
MaxEntries(t) == HashSizes[t.size_index].max_entries
Addresses(t) == 0..(Size(t) - 1)

PresentIn(t) == {a \in Addresses(t) : t.table[a].kind = "present"}

Matches(slot, key) == slot.kind = "present" /\ slot.key = key

(* The slots a search for the key looks at, until it is back at the first. *)
Probes(t, key) ==
    LET double_hash == 1 + (Hash[key] % HashSizes[t.size_index].rehash)
        at(n) == (Hash[key] + n * double_hash) % Size(t)
        round == CHOOSE n \in 1..Size(t) : at(n) = at(0) /\ \A m \in 1..(n - 1) : at(m) # at(0)
    IN  [n \in 1..round |-> at(n - 1)]

(* Mutant: a mark ends the search as a free slot does. *)
StopAtMark(t, key) ==
    SelectInSeq(Probes(t, key), LAMBDA a : t.table[a].kind # "present" \/ Matches(t.table[a], key))

(* The place of the first of them that ends the search; 0 if none does. *)
StopAt(t, key) ==
    SelectInSeq(Probes(t, key), LAMBDA a : t.table[a].kind = "free" \/ Matches(t.table[a], key))

search(t, key) ==
    LET n == StopAt(t, key)
        a == Probes(t, key)[n]
    IN  IF n # 0 /\ Matches(t.table[a], key) THEN a ELSE NONE

(* A matching entry gets the new data; otherwise the first slot on the way *)
(* that holds no entry is used; without one nothing happens.               *)
Place(t, key, data) ==
    LET probes == Probes(t, key)
        found == search(t, key)
        way == SubSeq(probes, 1, IF StopAt(t, key) = 0 THEN Len(probes) ELSE StopAt(t, key))
        n == SelectInSeq(way, LAMBDA a : t.table[a].kind # "present")
    IN  CASE found # NONE -> [t EXCEPT !.table[found] = Slot("present", key, data)]
          [] found = NONE /\ n # 0 ->
                [t EXCEPT !.table[way[n]] = Slot("present", key, data),
                          !.entries = @ + 1,
                          !.deleted_entries =
                                IF t.table[way[n]].kind = "deleted" THEN @ - 1 ELSE @]
          [] OTHER -> t

(* The entries go, in the order of their slots, into a new table. *)
rehash(t, index) ==
    LET new[n \in 0..Size(t)] ==
            IF n = 0 THEN EmptyTable(index)
            ELSE IF n - 1 \in PresentIn(t)
                 THEN Place(new[n - 1], t.table[n - 1].key, t.table[n - 1].data)
                 ELSE new[n - 1]
    IN  IF index > Len(HashSizes) THEN t ELSE new[Size(t)]

(* Mutant: the marks do not count, so that they may fill the table. *)
RoomMadeLate(t) ==
    IF t.entries >= MaxEntries(t) THEN rehash(t, t.size_index + 1) ELSE t

RoomMade(t) ==
    IF t.entries >= MaxEntries(t) THEN rehash(t, t.size_index + 1)
    ELSE IF t.deleted_entries + t.entries >= MaxEntries(t) THEN rehash(t, t.size_index)
    ELSE t

insert(t, key, data) == Place(RoomMade(t), key, data)

remove_entry(t, a) ==
    [t EXCEPT !.table[a] = DELETED, !.entries = @ - 1, !.deleted_entries = @ + 1]

(* Mutant: the loop ends at the first slot without an entry. *)
next_entry_adjacent(t, a) == IF a + 1 \in PresentIn(t) THEN a + 1 ELSE NONE

(* The first entry behind the address; NONE at the end. *)
next_entry(t, a) ==
    LET after == {b \in PresentIn(t) : b > a}
    IN  IF after = {} THEN NONE ELSE Min(after)

(* The first entry at or behind the slot, and round, that the predicate    *)
(* (a set of keys) allows.                                                 *)
random_entry(t, start, allowed) ==
    LET fit == {a \in PresentIn(t) : t.table[a].key \in allowed}
        ahead == {a \in fit : a >= start}
    IN  IF fit = {} THEN NONE ELSE IF ahead # {} THEN Min(ahead) ELSE Min(fit)

-----------------------------------------------------------------------------
(* The operations *)

Init == ht = EmptyTable(1) /\ looping = FALSE /\ cursor = NONE

(* Entries may be moved: not under a loop. *)
InsertKey(key, data) ==
    /\ ~looping
    /\ ht' = insert(ht, key, data)
    /\ UNCHANGED <<looping, cursor>>

RemoveKey(key) ==
    LET a == search(ht, key)
    IN  /\ ht' = IF a = NONE THEN ht ELSE remove_entry(ht, a)
        /\ UNCHANGED <<looping, cursor>>

Begin == ~looping /\ looping' = TRUE /\ cursor' = NONE /\ UNCHANGED ht

Step ==
    /\ looping
    /\ looping' = (next_entry(ht, cursor) # NONE)
    /\ cursor' = next_entry(ht, cursor)
    /\ UNCHANGED ht

(* The body deletes the entry the loop has reached. *)
RemoveCurrent ==
    /\ looping /\ cursor \in PresentIn(ht)
    /\ ht' = remove_entry(ht, cursor)
    /\ UNCHANGED <<looping, cursor>>

Next ==
    \/ \E k \in Keys : RemoveKey(k) \/ \E d \in Data : InsertKey(k, d)
    \/ Begin \/ Step \/ RemoveCurrent

Spec == Init /\ [][Next]_vars

-----------------------------------------------------------------------------
(* Properties *)

(* The counts agree with the slots, a key is in one slot only, and a slot  *)
(* is free: a search for a key that is not there ends before it has been   *)
(* all round.                                                              *)
CountsRight ==
    /\ ht.entries = Cardinality(PresentIn(ht))
    /\ ht.deleted_entries = Cardinality({a \in Addresses(ht) : ht.table[a].kind = "deleted"})
    /\ \A a, b \in PresentIn(ht) : ht.table[a].key = ht.table[b].key => a = b
    /\ \E a \in Addresses(ht) : ht.table[a].kind = "free"

(* Whatever was inserted, deleted and rehashed before, a search finds a    *)
(* key exactly when a slot holds it, and so does the choice of a random    *)
(* entry, wherever it starts.                                              *)
SearchRight ==
    \A k \in Keys :
        LET holding == {a \in PresentIn(ht) : ht.table[a].key = k}
            finds(a) == IF holding = {} THEN a = NONE ELSE a \in holding
        IN  finds(search(ht, k)) /\ \A a \in Addresses(ht) : finds(random_entry(ht, a, {k}))

(* The table behaves as a map: the loop, too, reaches every entry once,    *)
(* though entries are deleted under it.                                    *)
Key(a) == ht.table[a].key

Contents ==
    [k \in {Key(a) : a \in PresentIn(ht)} |->
        ht.table[CHOOSE a \in PresentIn(ht) : Key(a) = k].data]

Pending == IF looping THEN {Key(a) : a \in {b \in PresentIn(ht) : b > cursor}} ELSE {}

AsMap == INSTANCE KeyMap WITH map <- Contents, pending <- Pending

ImplementsMap == AsMap!Spec
=============================================================================
