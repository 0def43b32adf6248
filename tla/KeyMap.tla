------------------------------- MODULE KeyMap -------------------------------
(***************************************************************************)
(* What hash_table.h promises its users: a map from keys to data, and a    *)
(* loop over its keys that reaches each of them once, deletes as it goes   *)
(* and comes in no particular order.                                       *)
(***************************************************************************)
EXTENDS Functions

CONSTANTS Keys, Data

VARIABLES
    map,      \* the data of each key in the table
    looping,  \* a loop over the table is under way
    pending   \* the keys it has yet to reach

mapVars == <<map, looping, pending>>

Init == map = << >> /\ looping = FALSE /\ pending = {}

Without(k) == Restrict(map, DOMAIN map \ {k})

Insert(k, d) ==
    /\ ~looping
    /\ map' = [j \in DOMAIN map \cup {k} |-> IF j = k THEN d ELSE map[j]]
    /\ UNCHANGED <<looping, pending>>

Remove(k) ==
    /\ map' = Without(k)
    /\ pending' = pending \ {k}
    /\ UNCHANGED looping

Begin ==
    /\ ~looping
    /\ looping' = TRUE
    /\ pending' = DOMAIN map
    /\ UNCHANGED map

Visit(k) ==
    /\ looping /\ k \in pending
    /\ pending' = pending \ {k}
    /\ UNCHANGED <<map, looping>>

End ==
    /\ looping /\ pending = {}
    /\ looping' = FALSE
    /\ UNCHANGED <<map, pending>>

Next ==
    \/ \E k \in Keys : Remove(k) \/ Visit(k) \/ \E d \in Data : Insert(k, d)
    \/ Begin \/ End

Spec == Init /\ [][Next]_mapVars
=============================================================================
