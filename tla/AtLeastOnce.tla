---------------------------- MODULE AtLeastOnce ----------------------------
(***************************************************************************)
(* What the relay queue promises for every envelope: once admitted it is   *)
(* owed to the member it is for until that member has handled it, or until *)
(* its TTL has passed, and either end is final.  Handling may come late,   *)
(* after the row has expired, and may be repeated; it never comes before   *)
(* the admission.                                                          *)
(***************************************************************************)
CONSTANT Envelopes

VARIABLES
    fate,     \* of each envelope
    handled   \* envelopes handled at least once

Init ==
    /\ fate = [e \in Envelopes |-> "unknown"]
    /\ handled = {}

Becomes(e, f) == fate' = [fate EXCEPT ![e] = f]

Admit(e) ==
    /\ fate[e] = "unknown"
    /\ Becomes(e, "owed")
    /\ UNCHANGED handled

Handle(e) ==
    /\ fate[e] # "unknown"
    /\ handled' = handled \cup {e}
    /\ UNCHANGED fate

Retire(e) ==
    /\ fate[e] = "owed"
    /\ e \in handled
    /\ Becomes(e, "retired")
    /\ UNCHANGED handled

Expire(e) ==
    /\ fate[e] = "owed"
    /\ Becomes(e, "expired")
    /\ UNCHANGED handled

Next == \E e \in Envelopes : Admit(e) \/ Handle(e) \/ Retire(e) \/ Expire(e)

Spec == Init /\ [][Next]_<<fate, handled>>
=============================================================================
