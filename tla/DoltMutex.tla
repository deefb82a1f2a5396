------------------------------ MODULE DoltMutex ------------------------------
(***************************************************************************)
(* The global dolt push mutex: one holder, a FIFO queue of waiters, leases *)
(* and dead-pid reclaim.  The same object is implemented twice, by         *)
(* createDoltMutex in the apra-fleet-se supervisor (dolt-mutex.mjs) and by *)
(* its port in the fleet server (sprint-coordination.ts); this module is   *)
(* both.  PushBracket and TicketedMutex put the two transports around it.  *)
(*                                                                         *)
(* A request is one call of acquire().  nextToken() never repeats a token  *)
(* and an acquire() is granted at most once, so the request also stands    *)
(* for the token of its grant.  A lease is kept as the time left on it     *)
(* (expiresAt - now, 0 when now >= expiresAt), so that time has no bound.  *)
(* The waiters array is kept as each waiter's arrival number: shift() takes*)
(* the least, splice() out of the middle leaves the order of the others.   *)
(***************************************************************************)
EXTENDS Naturals

CONSTANTS
    Requests,   \* the acquire() calls
    SprintOf,   \* the sprintId a request was made for
    PidOf,      \* the pid it recorded, or NoPid
    NoPid,
    LeaseMs,    \* leaseMs, in ticks
    None        \* holder === null

ASSUME NoneAssumption == None \notin [req: Requests, ttl: 0..LeaseMs]
ASSUME LeaseAssumption == LeaseMs \in Nat \ {0}

VARIABLES
    holder,     \* the current grant, or None
    pos,        \* arrival number of a queued waiter, 0 when not queued
    arrivals,   \* number of acquire() calls so far
    result,     \* the promise each acquire() returned
    dead        \* pids that no longer answer the liveness probe

mutexVars == <<holder, pos, arrivals, result>>
vars == <<mutexVars, dead>>

Pids == {PidOf[r] : r \in Requests} \ {NoPid}

TypeOK ==
    /\ holder \in [req: Requests, ttl: 0..LeaseMs] \cup {None}
    /\ pos \in [Requests -> Nat]
    /\ arrivals \in Nat
    /\ result \in [Requests -> {"unsent", "waiting", "granted", "rejected"}]
    /\ dead \in SUBSET Pids

Init ==
    /\ holder = None
    /\ pos = [r \in Requests |-> 0]
    /\ arrivals = 0
    /\ result = [r \in Requests |-> "unsent"]
    /\ dead = {}

------------------------------------------------------------------------------
\* The process a request came from still answers the liveness probe.
Alive(r) == PidOf[r] \notin dead

Holds(r) == holder # None /\ holder.req = r

Queued(p) == {r \in Requests : p[r] > 0}

\* Faulty variants (the names with an underscore, here and below) are slips
\* this code could have; they are used only to test the properties.
IsFront_Newest(r, p) == r \in Queued(p) /\ \A q \in Queued(p) : p[r] >= p[q]

IsFront(r, p) == r \in Queued(p) /\ \A q \in Queued(p) : p[r] <= p[q]

grant_LongLease(r) == [req |-> r, ttl |-> LeaseMs + 1]

grant(r) == [req |-> r, ttl |-> LeaseMs]

\* Leave h as the holder, p as the queue and res as the promises, and grant
\* the front waiter if the mutex is free.
pump(h, p, res) ==
    \/ /\ h # None \/ Queued(p) = {}
       /\ holder' = h
       /\ pos' = p
       /\ result' = res
    \/ /\ h = None
       /\ \E r \in Requests :
             /\ IsFront(r, p)
             /\ holder' = grant(r)
             /\ pos' = [p EXCEPT ![r] = 0]
             /\ result' = [res EXCEPT ![r] = "granted"]

leaseExpired_Never == FALSE

leaseExpired == holder.ttl = 0

pidDead == PidOf[holder.req] \in dead

Reclaimable == holder # None /\ (leaseExpired \/ pidDead)

\* reclaimExpired() as the sweep timer calls it.
reclaimExpired ==
    /\ Reclaimable
    /\ pump(None, pos, result)
    /\ UNCHANGED arrivals

\* acquire(): a wedged holder is reclaimed first (which serves the front
\* waiter, if any), then the caller queues, then the queue is pumped.
acquire(r) ==
    /\ result[r] = "unsent"
    /\ arrivals' = arrivals + 1
    /\ pump(IF Reclaimable THEN None ELSE holder,
            [pos EXCEPT ![r] = arrivals + 1],
            [result EXCEPT ![r] = "waiting"])

release_NoPump(r) ==
    /\ Holds(r)
    /\ holder' = None
    /\ UNCHANGED <<pos, arrivals, result>>

release_AnyToken(r) ==
    /\ holder # None
    /\ pump(None, pos, result)
    /\ UNCHANGED arrivals

\* release(token) with the current holder's token.
release(r) ==
    /\ Holds(r)
    /\ pump(None, pos, result)
    /\ UNCHANGED arrivals

\* renew(token) with the current holder's token.
renew(r) ==
    /\ Holds(r)
    /\ holder' = [holder EXCEPT !.ttl = LeaseMs]
    /\ UNCHANGED <<pos, arrivals, result>>

\* release(token) and renew(token) with any other token return false.
Refused(r) == ~Holds(r) /\ UNCHANGED mutexVars

Dropped(s) == {r \in Queued(pos) : SprintOf[r] = s}

cancelWaiter_Dangling(s) ==
    /\ pos' = [r \in Requests |-> IF r \in Dropped(s) THEN 0 ELSE pos[r]]
    /\ UNCHANGED <<holder, arrivals, result>>

\* cancelWaiter(sprintId): every queued waiter of the sprint is rejected.
cancelWaiter(s) ==
    /\ pos' = [r \in Requests |-> IF r \in Dropped(s) THEN 0 ELSE pos[r]]
    /\ result' = [r \in Requests |->
                    IF r \in Dropped(s) THEN "rejected" ELSE result[r]]
    /\ UNCHANGED <<holder, arrivals>>

\* stop(): every waiter is rejected; the holder is left alone.
stop ==
    /\ pos' = [r \in Requests |-> 0]
    /\ result' = [r \in Requests |->
                    IF r \in Queued(pos) THEN "rejected" ELSE result[r]]
    /\ UNCHANGED <<holder, arrivals>>

\* Time passes: the holder's lease runs down.
LeaseRunsDown ==
    /\ holder' = IF holder # None /\ holder.ttl > 0
                 THEN [holder EXCEPT !.ttl = @ - 1] ELSE holder
    /\ UNCHANGED <<pos, arrivals, result>>

\* A client process exits without releasing anything.
Exit(p) == p \notin dead /\ dead' = dead \cup {p}

------------------------------------------------------------------------------
Tick == holder # None /\ holder.ttl > 0 /\ LeaseRunsDown

Next ==
    \/ \E r \in Requests : acquire(r) /\ UNCHANGED dead
    \/ \E r \in Requests : release(r) /\ UNCHANGED dead
    \/ \E r \in Requests : renew(r) /\ UNCHANGED dead
    \/ \E r \in Requests : cancelWaiter(SprintOf[r]) /\ UNCHANGED dead
    \/ reclaimExpired /\ UNCHANGED dead
    \/ stop /\ UNCHANGED dead
    \/ Tick /\ UNCHANGED dead
    \/ \E p \in Pids : Exit(p) /\ UNCHANGED mutexVars

Spec == Init /\ [][Next]_vars

------------------------------------------------------------------------------
\* The promises agree with the queue and the holder: exactly the queued
\* requests are waiting, no two share a place, and the holder was granted.
\* (createDoltMutex: waiters, holder and the resolve/reject of each waiter.)
PromisesMatchQueue ==
    /\ \A r \in Requests :
          /\ result[r] = "waiting" <=> pos[r] > 0
          /\ pos[r] <= arrivals
    /\ \A q, r \in Queued(pos) : pos[q] = pos[r] => q = r
    /\ holder # None => result[holder.req] = "granted"

\* The mutex is never free while somebody waits: every path that clears the
\* holder (release, reclaim) or queues a waiter ends in pump().
NeverIdleWithWaiters == holder = None => Queued(pos) = {}

\* FIFO fairness: when a waiter is granted, nobody who queued before it is
\* left waiting; a new acquirer never jumps the queue.
FifoStep ==
    \A r \in Requests :
       result'[r] = "granted" /\ result[r] # "granted" =>
          \A q \in Queued(pos) :
             r \notin Queued(pos) \/ pos[q] < pos[r] => pos'[q] = 0

\* FIFO fairness as a property of every step (acquire, pump, reclaimExpired).
FifoGrants == [][FifoStep]_vars
==============================================================================
