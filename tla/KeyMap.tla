------------------------------- MODULE KeyMap --------------------------------
(***************************************************************************)
(* What app/sys/key_list.c promises: a table with at most one value per    *)
(* key.  Adding refuses a key that is there, editing and deleting one that *)
(* is not.                                                                 *)
(***************************************************************************)
EXTENDS Integers, Functions

CONSTANTS Keys, Values

VARIABLES
    map,     \* a function from the keys that are present to their values
    count    \* what key_list_count returns

vars == <<map, count>>

Put(k, v) == map' = [x \in DOMAIN map \cup {k} |-> IF x = k THEN v ELSE map[x]]

Add(k, v) ==
    /\ k \notin DOMAIN map
    /\ Put(k, v)
    /\ count' = count + 1

Edit(k, v) ==
    /\ k \in DOMAIN map
    /\ Put(k, v)
    /\ UNCHANGED count

Delete(k) ==
    /\ k \in DOMAIN map
    /\ map' = Restrict(map, DOMAIN map \ {k})
    /\ count' = count - 1

Clear == map' = << >> /\ count' = 0

Init == map = << >> /\ count = 0

Next ==
    \/ \E k \in Keys, v \in Values : Add(k, v) \/ Edit(k, v)
    \/ \E k \in Keys : Delete(k)
    \/ Clear

Spec == Init /\ [][Next]_vars
=============================================================================
