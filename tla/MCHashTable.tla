---------------------------- MODULE MCHashTable -----------------------------
(* Values of the constants of HashTable for TLC. *)
EXTENDS HashTable

(* The first three rows of hash_sizes[]. *)
FirstSizes ==
    << [max_entries |-> 2, size |-> 5, rehash |-> 3],
       [max_entries |-> 4, size |-> 7, rehash |-> 5],
       [max_entries |-> 8, size |-> 13, rehash |-> 11] >>

(* In the smallest table 0 and 35 meet, and the five reach all its slots;  *)
(* in the next one 0, 7 and 35 meet.                                       *)
FiveKeys == {0, 1, 4, 7, 35}
OwnHash == [k \in FiveKeys |-> k]
=============================================================================
