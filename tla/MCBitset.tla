------------------------------ MODULE MCBitset ------------------------------
(* Values of the constants of Bitset for TLC. *)
EXTENDS Bitset, TLC

(* The bit sets are interchangeable. *)
Interchange == Permutations(Names)
=============================================================================
