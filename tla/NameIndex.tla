----------------------------- MODULE NameIndex -----------------------------
(***************************************************************************)
(* What the hash map of src/src/cg_hashmap.c promises its callers: a       *)
(* partial function from names to positions of a list, and a deletion      *)
(* that closes the gap in the list by lowering every larger position.      *)
(***************************************************************************)
EXTENDS Integers

CONSTANTS Key, Value, NULL

VARIABLE index      \* NULL before the map is made, else a partial function

Make == /\ index = NULL
        /\ index' = [k \in {} |-> 0]

Put(k, v) ==
    /\ index # NULL
    /\ index' = [x \in DOMAIN index \cup {k} |-> IF x = k THEN v ELSE index[x]]

DeleteAndShift(k) ==
    /\ index # NULL
    /\ k \in DOMAIN index
    /\ index' = [x \in DOMAIN index \ {k} |->
                    IF index[x] > index[k] THEN index[x] - 1 ELSE index[x]]

Dispose == index # NULL /\ index' = NULL

Init == index = NULL
Next == \/ Make
        \/ \E k \in Key, v \in Value : Put(k, v)
        \/ \E k \in Key : DeleteAndShift(k)
        \/ Dispose
Spec == Init /\ [][Next]_index
============================================================================
