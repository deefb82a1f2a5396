------------------------------ MODULE UniqueIds ------------------------------
(***************************************************************************)
(* What the child-id allocator promises its callers: an id is owned by one *)
(* caller at a time, an owner may lose an id it has not kept, and a kept   *)
(* id is its owner's for ever.                                             *)
(***************************************************************************)
EXTENDS Naturals

CONSTANT Callers

VARIABLES
    id,     \* the number a caller owns, 0 for none
    kept    \* callers whose id is theirs for good

Init == id = [a \in Callers |-> 0] /\ kept = {}

\* A caller comes to own a number nobody owns.
Obtain(a, n) ==
    /\ id[a] = 0 /\ n > 0
    /\ \A b \in Callers : id[b] # n
    /\ id' = [id EXCEPT ![a] = n]
    /\ UNCHANGED kept

Keep(a) ==
    /\ id[a] > 0
    /\ kept' = kept \cup {a}
    /\ UNCHANGED id

\* Some callers lose what they have not kept.
Lose(S) ==
    /\ S \subseteq Callers \ kept
    /\ id' = [a \in Callers |-> IF a \in S THEN 0 ELSE id[a]]
    /\ UNCHANGED kept

Next ==
    \/ \E a \in Callers : Obtain(a, id'[a]) \/ Keep(a)
    \/ \E S \in SUBSET Callers : Lose(S)

Spec == Init /\ [][Next]_<<id, kept>>
==============================================================================
