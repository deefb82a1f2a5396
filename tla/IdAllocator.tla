----------------------------- MODULE IdAllocator -----------------------------
(***************************************************************************)
(* The child-id allocator: allocate / confirm / release over a persisted   *)
(* document, leases, the sweep, failed writes, crashes and restarts.  It   *)
(* is implemented twice, in the supervisor (id-allocator.mjs) and in the   *)
(* fleet server (sprint-coordination.ts); this module is both.             *)
(*                                                                         *)
(* One parent bead is modelled: parents share nothing but the order in     *)
(* which their snapshots are written.  A call is one allocate() and stands *)
(* for the token it mints.  Whether a lease has run out is a choice of the *)
(* environment (LeaseLapses), so any timing of calls and leases is covered.*)
(***************************************************************************)
EXTENDS Naturals, Sequences

CONSTANTS
    Calls,        \* allocate() calls
    PidOf,        \* the pid each call recorded
    MaxFloor,     \* bound on the floor a caller passes (0: none known)
    MaxCrashes    \* bound on server crashes

ASSUME BoundsAssumption == MaxFloor \in Nat /\ MaxCrashes \in Nat

VARIABLES
    doc,       \* the parent's state in memory
    disk,      \* the parent's state in the file
    writes,    \* persistChain: snapshots not yet written, each with its caller
    call,      \* how far each caller is with its token
    seq,       \* the number each call was assigned, 0 before
    lapsed,    \* calls whose reservation is past expiresAt
    dead,      \* pids that no longer answer the probe
    up,        \* the server runs and has loaded its file
    crashes

vars == <<doc, disk, writes, call, seq, lapsed, dead, up, crashes>>

Pids == {PidOf[a] : a \in Calls}

\* highWater, the free pool and the reservations (0: none).  used and base
\* are history: the numbers confirmed, and the highest floor seen.
Docs == [highWater: Nat, free: SUBSET Nat, reserved: [Calls -> Nat],
         used: SUBSET Nat, base: Nat]

Ops == {"allocate", "confirm", "release"}

CallStates == {"idle", "allocating", "held", "confirming", "kept",
               "releasing", "over"}

TypeOK ==
    /\ doc \in Docs
    /\ disk \in Docs
    /\ writes \in Seq([doc: Docs, caller: Calls \X Ops \cup {<<>>}])
    /\ call \in [Calls -> CallStates]
    /\ seq \in [Calls -> Nat]
    /\ lapsed \in SUBSET Calls
    /\ dead \in SUBSET Pids
    /\ up \in BOOLEAN
    /\ crashes \in Nat

emptyDoc == [highWater |-> 0, free |-> {}, reserved |-> [a \in Calls |-> 0],
             used |-> {}, base |-> 0]

Init ==
    /\ doc = emptyDoc
    /\ disk = emptyDoc
    /\ writes = <<>>
    /\ call = [a \in Calls |-> "idle"]
    /\ seq = [a \in Calls |-> 0]
    /\ lapsed = {}
    /\ dead = {}
    /\ up = TRUE
    /\ crashes = 0

Alive(a) == PidOf[a] \notin dead

------------------------------------------------------------------------------
\* Faulty variants (the names with an underscore, here and below) are slips
\* this code could have; they are used only to test the properties.
persist_Unattributed(d, caller) == writes' = Append(writes, [doc |-> d])

\* persist(): queue a snapshot; its caller is answered when it is written.
persist(d, caller) == writes' = Append(writes, [doc |-> d, caller |-> caller])

Abandoned_PidOnly(d) == {a \in Calls : d.reserved[a] > 0 /\ ~Alive(a)}

Abandoned(d) == {a \in Calls : d.reserved[a] > 0 /\ (a \in lapsed \/ ~Alive(a))}

\* reclaimExpired(): abandoned reservations go back to the free pool.
reclaimExpired(d) ==
    [d EXCEPT !.reserved = [a \in Calls |-> IF a \in Abandoned(d) THEN 0
                                            ELSE d.reserved[a]],
              !.free = d.free \cup {d.reserved[a] : a \in Abandoned(d)}]

\* The floor lifts highWater and empties the pool up to it.
applyFloor(d, floor) ==
    [d EXCEPT !.highWater = IF floor > @ THEN floor ELSE @,
              !.base = IF floor > @ THEN floor ELSE @,
              !.free = {n \in @ : n > floor}]

\* The smallest pooled number, or the next one above highWater.
IsNext(d, n) ==
    \/ n \in d.free /\ \A m \in d.free : n <= m
    \/ d.free = {} /\ n = d.highWater + 1

reserve(d, a, n) ==
    [d EXCEPT !.highWater = IF n > @ THEN n ELSE @,
              !.free = @ \ {n},
              !.reserved[a] = n]

\* allocate(): reclaim, floor, assign and reserve without a pause; the caller
\* waits for the write.
allocate(a, floor) ==
    /\ up /\ Alive(a) /\ call[a] = "idle"
    /\ LET d == applyFloor(reclaimExpired(doc), floor) IN
          \E n \in 1..(d.highWater + 1) :
             /\ IsNext(d, n)
             /\ doc' = reserve(d, a, n)
             /\ seq' = [seq EXCEPT ![a] = n]
             /\ persist(reserve(d, a, n), <<a, "allocate">>)
    /\ call' = [call EXCEPT ![a] = "allocating"]
    /\ UNCHANGED <<disk, lapsed, dead, up, crashes>>

consumed(d, a) == [d EXCEPT !.reserved[a] = 0, !.used = @ \cup {d.reserved[a]}]

pooled_StillReserved(d, a) == [d EXCEPT !.free = @ \cup {d.reserved[a]}]

pooled(d, a) == [d EXCEPT !.reserved[a] = 0, !.free = @ \cup {d.reserved[a]}]

\* confirm(token) and release(token).  A token without a reservation is
\* answered false at once.
confirm(a) ==
    /\ up /\ Alive(a) /\ call[a] = "held"
    /\ \/ /\ doc.reserved[a] > 0
          /\ doc' = consumed(doc, a)
          /\ persist(consumed(doc, a), <<a, "confirm">>)
          /\ call' = [call EXCEPT ![a] = "confirming"]
       \/ /\ doc.reserved[a] = 0
          /\ call' = [call EXCEPT ![a] = "over"]
          /\ UNCHANGED <<doc, writes>>
    /\ UNCHANGED <<disk, seq, lapsed, dead, up, crashes>>

release(a) ==
    /\ up /\ Alive(a) /\ call[a] = "held"
    /\ \/ /\ doc.reserved[a] > 0
          /\ doc' = pooled(doc, a)
          /\ persist(pooled(doc, a), <<a, "release">>)
          /\ call' = [call EXCEPT ![a] = "releasing"]
       \/ /\ doc.reserved[a] = 0
          /\ call' = [call EXCEPT ![a] = "over"]
          /\ UNCHANGED <<doc, writes>>
    /\ UNCHANGED <<disk, seq, lapsed, dead, up, crashes>>

\* The caller never gets to confirm or release: it failed, or its call or
\* the answer it waits for was lost.
CallerGivesUp(a) ==
    /\ call[a] = "held"
    /\ call' = [call EXCEPT ![a] = "over"]
    /\ UNCHANGED <<doc, disk, writes, seq, lapsed, dead, up, crashes>>

\* The sweep timer.
Sweep ==
    /\ up /\ Abandoned(doc) # {}
    /\ doc' = reclaimExpired(doc)
    /\ persist(reclaimExpired(doc), <<>>)
    /\ UNCHANGED <<disk, call, seq, lapsed, dead, up, crashes>>

\* What the caller of a settled write is told.
Answered(caller, ok) ==
    IF caller = <<>> THEN call
    ELSE [call EXCEPT ![caller[1]] =
            IF ok /\ caller[2] = "allocate" THEN "held"
            ELSE IF ok /\ caller[2] = "confirm" THEN "kept"
            ELSE "over"]

\* The next snapshot reaches the file (temp file, then rename).
WriteLands ==
    /\ up /\ writes # <<>>
    /\ disk' = Head(writes).doc
    /\ writes' = Tail(writes)
    /\ call' = Answered(Head(writes).caller, TRUE)
    /\ UNCHANGED <<doc, seq, lapsed, dead, up, crashes>>

WriteFails_Silently ==
    /\ up /\ writes # <<>>
    /\ writes' = Tail(writes)
    /\ call' = Answered(Head(writes).caller, TRUE)
    /\ UNCHANGED <<doc, disk, seq, lapsed, dead, up, crashes>>

\* It does not; its caller is told, memory keeps what it says.
WriteFails ==
    /\ up /\ writes # <<>>
    /\ writes' = Tail(writes)
    /\ call' = Answered(Head(writes).caller, FALSE)
    /\ UNCHANGED <<doc, disk, seq, lapsed, dead, up, crashes>>

\* The server ends, perhaps just after a rename; waiting callers get errors.
Crash ==
    /\ up /\ crashes < MaxCrashes
    /\ up' = FALSE
    /\ crashes' = crashes + 1
    /\ writes' = <<>>
    /\ disk' = disk \/ (writes # <<>> /\ disk' = Head(writes).doc)
    /\ call' = [a \in Calls |->
                  IF call[a] \in {"allocating", "confirming", "releasing"}
                  THEN "over" ELSE call[a]]
    /\ doc' = emptyDoc
    /\ UNCHANGED <<seq, lapsed, dead>>

\* start() -> load().
Restart ==
    /\ ~up
    /\ up' = TRUE
    /\ doc' = disk
    /\ UNCHANGED <<disk, writes, call, seq, lapsed, dead, crashes>>

LeaseLapses(a) ==
    /\ a \notin lapsed /\ (doc.reserved[a] > 0 \/ disk.reserved[a] > 0)
    /\ lapsed' = lapsed \cup {a}
    /\ UNCHANGED <<doc, disk, writes, call, seq, dead, up, crashes>>

CallerDies(p) ==
    /\ p \notin dead
    /\ dead' = dead \cup {p}
    /\ UNCHANGED <<doc, disk, writes, call, seq, lapsed, up, crashes>>

Next ==
    \/ \E a \in Calls :
          \/ \E floor \in 0..MaxFloor : allocate(a, floor)
          \/ confirm(a) \/ release(a) \/ CallerGivesUp(a) \/ LeaseLapses(a)
    \/ Sweep \/ WriteLands \/ WriteFails \/ Crash \/ Restart
    \/ \E p \in Pids : CallerDies(p)

\* Timers fire, writes settle, leases run out, a crashed server comes back.
Fairness ==
    /\ WF_vars(Sweep) /\ WF_vars(WriteLands \/ WriteFails) /\ WF_vars(Restart)
    /\ \A a \in Calls : WF_vars(LeaseLapses(a))

Spec == Init /\ [][Next]_vars /\ Fairness

------------------------------------------------------------------------------
Reserved(d) == {d.reserved[a] : a \in Calls} \ {0}

\* A document is consistent: no number is reserved twice, none is at once
\* reserved, pooled or used, none is above highWater, and every number up to
\* highWater that no floor skipped is accounted for.
Consistent(d) ==
    /\ \A a, b \in Calls : d.reserved[a] = d.reserved[b] => a = b \/ d.reserved[a] = 0
    /\ d.free \cap Reserved(d) = {}
    /\ d.used \cap (d.free \cup Reserved(d)) = {}
    /\ d.free \cup Reserved(d) \cup d.used \subseteq 1..d.highWater
    /\ \A n \in 1..d.highWater :
          n <= d.base \/ n \in d.free \cup Reserved(d) \cup d.used

\* Memory, file and every snapshot on its way are consistent: an abandoned
\* reservation leaves no gap and a used id never returns to the pool,
\* whatever writes fail and wherever a crash falls (id-allocator.mjs header).
DocumentsConsistent ==
    /\ Consistent(doc)
    /\ Consistent(disk)
    /\ \A i \in 1..Len(writes) : Consistent(writes[i].doc)

\* A caller owns its id from the answer of allocate() until it gives it up,
\* and for good once confirm() has answered true.
Owns(a) ==
    \/ call[a] \in {"confirming", "kept"}
    \/ call[a] = "held" /\ a \notin lapsed /\ Alive(a)

\* The refinement mapping: the number each caller owns, and who keeps one.
OwnedId == [a \in Calls |-> IF Owns(a) THEN seq[a] ELSE 0]

Keepers == {a \in Calls : call[a] = "kept"}

\* What callers are promised: UniqueIds, seen through the ids they own.
Promise == INSTANCE UniqueIds WITH Callers <- Calls, id <- OwnedId, kept <- Keepers

\* The allocator keeps that promise through leases, failed writes and crashes
\* ("a restarted supervisor never re-mints an id it already handed out").
KeepsPromise == Promise!Spec

\* No permanent gap: the reservation of a caller that is over or dead ends.
ReservationsEnd ==
    \A a \in Calls :
       (call[a] = "over" \/ ~Alive(a)) ~> (doc.reserved[a] = 0)
==============================================================================
