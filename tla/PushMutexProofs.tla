--------------------------- MODULE PushMutexProofs ---------------------------
(***************************************************************************)
(* Proofs about the two topologies the dolt push mutex is used in:         *)
(* TicketedMutex (fleet server, polled tickets) and PushBracket            *)
(* (supervisor, HTTP brackets).  Both put transport state around the       *)
(* mutex, so the invariant Inv of DoltMutexProofs and the lemmas about     *)
(* pump() carry over; PumpNewly adds who is granted in a step.             *)
(***************************************************************************)
EXTENDS TicketedMutex, PushBracket, DoltMutexProofs

\* The requests whose promise is res before and granted after the step.
Newly(res) == {r \in Requests : res[r] # "granted" /\ result'[r] = "granted"}

\* pump() leaves a holder alone; if there is none, whoever is newly granted
\* is the holder and left the queue, and no other promise changes.
LEMMA PumpNewly ==
    ASSUME NEW h \in Holders, NEW p \in [Requests -> Nat], NEW n \in Nat,
           NEW res \in [Requests -> Results], pump(h, p, res),
           QueueAgrees(p, n, res)
    PROVE  /\ h # None => holder' = h /\ Newly(res) = {}
           /\ h = None => {r \in Requests : Holds(r)'} = Newly(res)
           /\ \A r \in Newly(res) : p[r] > 0 /\ holder' = grant(r)
           /\ \A r \in Requests : pos'[r] = IF r \in Newly(res) THEN 0 ELSE p[r]
           /\ \A r \in Requests \ Newly(res) : result'[r] = res[r]
<1>1. CASE (h # None \/ Queued(p) = {}) /\ holder' = h /\ pos' = p /\ result' = res
  BY <1>1 DEF Newly, Holds
<1>2. CASE h = None /\ \E r \in Requests : /\ IsFront(r, p)
                               /\ holder' = grant(r)
                               /\ pos' = [p EXCEPT ![r] = 0]
                               /\ result' = [res EXCEPT ![r] = "granted"]
  <2>1. PICK r \in Requests : /\ IsFront(r, p)
                              /\ holder' = grant(r)
                              /\ pos' = [p EXCEPT ![r] = 0]
                              /\ result' = [res EXCEPT ![r] = "granted"]
    BY <1>2
  <2>2. holder' # None /\ holder'.req = r
    BY <2>1, NoneAssumption, LeaseAssumption DEF grant
  <2>3. p[r] > 0 /\ res[r] = "waiting"
    BY <2>1 DEF IsFront, Queued, QueueAgrees
  <2>4. Newly(res) = {r}
    BY <2>1, <2>3 DEF Newly, Results
  <2>5. {q \in Requests : Holds(q)'} = {r}
    BY <2>2 DEF Holds
  <2> QED BY <1>2, <2>1, <2>3, <2>4, <2>5
<1> QED BY <1>1, <1>2 DEF pump

\* What acquire() hands to pump() still agrees: the caller queues last.
LEMMA AcquireQueue ==
    ASSUME Inv, NEW r \in Requests, result[r] = "unsent"
    PROVE  /\ [pos EXCEPT ![r] = arrivals + 1] \in [Requests -> Nat]
           /\ [result EXCEPT ![r] = "waiting"] \in [Requests -> Results]
           /\ QueueAgrees([pos EXCEPT ![r] = arrivals + 1], arrivals + 1,
                          [result EXCEPT ![r] = "waiting"])
<1> DEFINE p == [pos EXCEPT ![r] = arrivals + 1]
           res == [result EXCEPT ![r] = "waiting"]
<1>a. /\ pos \in [Requests -> Nat] /\ arrivals \in Nat /\ result \in [Requests -> Results]
      /\ QueueAgrees(pos, arrivals, result)
  BY DEF Inv, TypeOK, PromisesMatchQueue, QueueAgrees, Results
<1>1. p \in [Requests -> Nat] /\ res \in [Requests -> Results]
  BY <1>a DEF Results
<1>2. \A q \in Requests : (res[q] = "waiting" <=> p[q] > 0) /\ p[q] <= arrivals + 1
  BY <1>a DEF QueueAgrees
<1>3. \A q, u \in Queued(p) : p[q] = p[u] => q = u
  BY <1>a DEF QueueAgrees, Queued
<1> QED BY <1>1, <1>2, <1>3 DEF QueueAgrees

------------------------------------------------------------------------------
(***************************************************************************)
(* The ticketed mutex.                                                     *)
(***************************************************************************)

\* Every operation of the ticket layer is one operation of the mutex, or
\* leaves it alone.
LEMMA TicketStepIsMutexStep == [TicketNext]_ticketVars => [Next]_vars
<1> SUFFICES ASSUME [TicketNext]_ticketVars PROVE [Next]_vars
  OBVIOUS
<1>1. ASSUME NEW r \in Requests, acquireTicket(r) PROVE Next
  BY <1>1 DEF acquireTicket, Next
<1>2. ASSUME NEW r \in Requests, poll(r) \/ CallFails(r) PROVE UNCHANGED vars
  BY <1>2 DEF poll, CallFails
<1>3. ASSUME NEW r \in Requests, DeadlinePasses(r) PROVE [Next]_vars
  BY <1>3 DEF DeadlinePasses, cancel, Refused, Next, vars
<1>4. ASSUME NEW r \in Requests, renewTicket(r) \/ BracketEnds(r) PROVE [Next]_vars
  BY <1>4 DEF renewTicket, BracketEnds, releaseTicket, Refused, Next, vars
<1>5. ASSUME SweepTickets \/ ServerTimePasses PROVE Next
  BY <1>5 DEF SweepTickets, ServerTimePasses, Next
<1>6. ASSUME NEW p \in Pids, ClientDies(p) PROVE Next
  BY <1>6 DEF ClientDies, Next
<1>7. CASE UNCHANGED ticketVars
  BY <1>7 DEF ticketVars
<1> QED BY <1>1, <1>2, <1>3, <1>4, <1>5, <1>6, <1>7 DEF TicketNext

\* The ticket layer implements the mutex it wraps, so everything proved of
\* the mutex holds of the fleet server's port (createTicketedMutex).
THEOREM TicketsImplementMutex == TicketSpec => Spec
<1>1. TicketInit => Init
  BY DEF TicketInit
<1> QED BY <1>1, TicketStepIsMutexStep, PTL DEF TicketSpec, Spec

\* What the two maps need to be inductive: each other's shape, the types, and
\* the agreement of promises, queue and holder.
TicketInv ==
    /\ Inv
    /\ tickets \in SUBSET Requests
    /\ ByTokenIsHolder
    /\ TicketsMatchMutex

LEMMA TicketInitInv == TicketInit => TicketInv
BY InitInv DEF TicketInit, TicketInv, ByTokenIsHolder, TicketsMatchMutex, Holds, Init

\* The request a step takes down when it passes h to pump() as the holder.
Vacated(h) == IF h = None THEN {r \in Requests : Holds(r)} ELSE {}

\* p and res are the queue and the promises with the requests Q queued.
Enqueues(Q, p, res) ==
    /\ \A q \in Q : result[q] = "unsent" /\ res[q] = "waiting"
    /\ \A r \in Requests \ Q : res[r] = result[r] /\ p[r] = pos[r]

\* Dropping the reclaimed or released holder h from both maps, taking q (if
\* any) in and noting the grant that pump() makes keeps the maps in step.
LEMMA GrantKeepsMaps ==
    ASSUME TicketInv, NEW h \in {None, holder}, NEW n \in Nat,
           NEW p \in [Requests -> Nat], NEW res \in [Requests -> Results],
           pump(h, p, res), QueueAgrees(p, n, res),
           NEW Q \in SUBSET Requests, Enqueues(Q, p, res),
           tickets' = (tickets \ Vacated(h)) \cup Q,
           byToken' = (byToken \ Vacated(h)) \cup Granted
    PROVE  /\ tickets' \in SUBSET Requests
           /\ ByTokenIsHolder'
           /\ TicketsMatchMutex'
<1> DEFINE Gone == Vacated(h)
<1> USE DEF Enqueues, Vacated
<1>a. /\ holder \in Holders /\ pos \in [Requests -> Nat] /\ result \in [Requests -> Results]
      /\ \A r \in Requests : result[r] = "waiting" <=> pos[r] > 0
      /\ holder # None => result[holder.req] = "granted"
  BY DEF TicketInv, Inv, TypeOK, PromisesMatchQueue, Holders, Results
<1>b. h \in Holders /\ (h # None => res[h.req] = "granted")
  BY <1>a DEF Holders
<1>c. \A r \in Requests : res[r] = "waiting" <=> p[r] > 0
  BY DEF QueueAgrees
<1>1. /\ h # None => holder' = h /\ Newly(res) = {}
      /\ h = None => {r \in Requests : Holds(r)'} = Newly(res)
      /\ \A r \in Newly(res) : p[r] > 0 /\ holder' = grant(r)
      /\ \A r \in Requests : pos'[r] = IF r \in Newly(res) THEN 0 ELSE p[r]
      /\ \A r \in Requests \ Newly(res) : result'[r] = res[r]
  BY <1>b, PumpNewly
<1>2. Granted = Newly(res)
  BY <1>a DEF Granted, Newly
<1>3. tickets' \in SUBSET Requests
  BY DEF TicketInv
<1>4. ByTokenIsHolder'
  <2>1. byToken = {r \in Requests : Holds(r)}
    BY DEF TicketInv, ByTokenIsHolder
  <2>2. CASE h # None
    BY <1>1, <1>2, <2>1, <2>2 DEF ByTokenIsHolder, Holds
  <2>3. CASE h = None
    BY <1>1, <1>2, <2>1, <2>3 DEF ByTokenIsHolder
  <2> QED BY <2>2, <2>3
<1>5. TicketsMatchMutex'
  <2> DEFINE Held == {r \in Requests : Holds(r)}
             HeldNow == {r \in Requests : Holds(r)'}
  <2>1. HeldNow = (Held \ Gone) \cup Newly(res)
    <3>1. CASE h # None
      BY <1>1, <3>1 DEF Holds
    <3>2. CASE h = None
      BY <1>1, <3>2
    <3> QED BY <3>1, <3>2
  <2>2. \A r \in Held : result[r] = "granted" /\ pos[r] = 0
    BY <1>a DEF Holds, Holders
  <2>3. \A r \in Requests :
           r \in tickets /\ result[r] # "rejected" <=> pos[r] > 0 \/ r \in Held
    BY DEF TicketInv, TicketsMatchMutex
  <2>4. Gone \subseteq Held
    OBVIOUS
  <2>5. Newly(res) \subseteq Requests /\ \A r \in Newly(res) : result'[r] = "granted"
    BY DEF Newly
  <2>6. \A r \in Requests :
           r \in tickets' /\ result'[r] # "rejected" <=> pos'[r] > 0 \/ r \in HeldNow
    <3> SUFFICES ASSUME NEW r \in Requests
                 PROVE  r \in tickets' /\ result'[r] # "rejected" <=> pos'[r] > 0 \/ r \in HeldNow
      OBVIOUS
    <3> HIDE DEF Held, HeldNow
    <3>1. CASE r \in Newly(res)
      <4>1. r \in Q \/ pos[r] > 0
        BY <1>1, <3>1
      <4> QED BY <1>a, <2>1, <2>2, <2>3, <2>4, <2>5, <3>1, <4>1
    <3>2. CASE r \notin Newly(res) /\ r \in Q
      BY <1>1, <1>c, <3>2
    <3>3. CASE r \notin Newly(res) /\ r \notin Q
      <4>1. result'[r] = result[r] /\ pos'[r] = pos[r]
        BY <1>1, <3>3
      <4> QED BY <1>a, <2>1, <2>2, <2>3, <2>4, <3>3, <4>1
    <3> QED BY <3>1, <3>2, <3>3
  <2> QED BY <1>3, <2>6 DEF TicketsMatchMutex
<1> QED BY <1>3, <1>4, <1>5

LEMMA TicketNextInv == TicketInv /\ [TicketNext]_ticketVars => TicketInv'
<1> SUFFICES ASSUME TicketInv, [TicketNext]_ticketVars PROVE TicketInv'
  OBVIOUS
<1> DEFINE Maps == /\ tickets \in SUBSET Requests
                   /\ ByTokenIsHolder
                   /\ TicketsMatchMutex
<1>a. Inv'
  BY NextInv, TicketStepIsMutexStep DEF TicketInv
<1>b. /\ holder \in Holders /\ pos \in [Requests -> Nat] /\ arrivals \in Nat
      /\ result \in [Requests -> Results] /\ None \in Holders
  BY DEF TicketInv, Inv, TypeOK, Holders, Results
<1>c. QueueAgrees(pos, arrivals, result)
  BY DEF TicketInv, Inv, PromisesMatchQueue, QueueAgrees
<1>d. byToken = {r \in Requests : Holds(r)}
  BY DEF TicketInv, ByTokenIsHolder
<1>e. holder # None => holder.req \in Requests
  BY <1>b DEF Holders
<1>f. onReclaim = IF Reclaimable THEN {r \in Requests : Holds(r)} ELSE {}
  BY <1>d, <1>e DEF onReclaim, Reclaimed, Reclaimable, Holds
<1>1. ASSUME UNCHANGED <<mutexVars, tickets, byToken>> PROVE Maps'
  BY <1>1 DEF TicketInv, ByTokenIsHolder, TicketsMatchMutex, mutexVars, Holds
<1>2. ASSUME NEW G, G = {r \in Requests : Holds(r)}, pump(None, pos, result),
             tickets' = tickets \ G, byToken' = (byToken \ G) \cup Granted
      PROVE  Maps'
  <2>1. G = Vacated(None)
    BY <1>2 DEF Vacated
  <2>2. /\ tickets' = (tickets \ Vacated(None)) \cup {}
        /\ byToken' = (byToken \ Vacated(None)) \cup Granted
        /\ None \in {None, holder} /\ {} \in SUBSET Requests
    BY <1>2, <2>1
  <2>3. Enqueues({}, pos, result)
    BY DEF Enqueues
  <2> QED BY <1>2, <1>b, <1>c, <2>2, <2>3, GrantKeepsMaps
<1>3. ASSUME NEW r \in Requests, acquireTicket(r) PROVE Maps'
  <2> DEFINE h == IF Reclaimable THEN None ELSE holder
             p == [pos EXCEPT ![r] = arrivals + 1]
             res == [result EXCEPT ![r] = "waiting"]
             n == arrivals + 1
             Q == {r}
  <2>1. pump(h, p, res) /\ result[r] = "unsent"
    BY <1>3 DEF acquireTicket, acquire
  <2>2. p \in [Requests -> Nat] /\ res \in [Requests -> Results] /\ h \in {None, holder}
    BY <1>b DEF Results
  <2>3. QueueAgrees(p, n, res)
    BY <2>1, AcquireQueue DEF TicketInv
  <2>4. /\ res[r] = "waiting"
        /\ \A q \in Requests \ Q : res[q] = result[q] /\ p[q] = pos[q]
    BY <1>b
  <2>5. onReclaim = Vacated(h)
    BY <1>f DEF Holds, Reclaimable, Vacated
  <2>6. /\ tickets' = (tickets \ Vacated(h)) \cup Q
        /\ byToken' = (byToken \ Vacated(h)) \cup Granted
    BY <1>3, <2>5 DEF acquireTicket
  <2>7. Q \in SUBSET Requests /\ n \in Nat
    BY <1>b
  <2>8. Enqueues(Q, p, res)
    BY <2>1, <2>4 DEF Enqueues
  <2>9. pump(h, p, res)
    BY <2>1
  <2> HIDE DEF h, p, res, n, Q
  <2> QED BY <2>2, <2>3, <2>6, <2>7, <2>8, <2>9, GrantKeepsMaps
<1>4. ASSUME NEW r \in Requests, DeadlinePasses(r) PROVE Maps'
  <2>1. CASE /\ r \in tickets /\ result[r] = "granted"
             /\ release(r) \/ Refused(r)
             /\ tickets' = tickets \ {r}
             /\ byToken' = (byToken \ {r}) \cup Granted
    <3>1. Holds(r)
      <4>1. pos[r] = 0
        BY <1>b, <1>c, <2>1 DEF QueueAgrees
      <4> QED BY <2>1, <4>1 DEF TicketInv, TicketsMatchMutex
    <3>2. {q \in Requests : Holds(q)} = {r}
      BY <3>1 DEF Holds
    <3> QED BY <1>2, <2>1, <3>1, <3>2 DEF release, Refused
  <2>2. CASE /\ r \in tickets /\ result[r] # "granted"
             /\ cancelWaiter(SprintOf[r])
             /\ tickets' = tickets \ {r}
             /\ UNCHANGED byToken
    <3>1. ~Holds(r)
      BY <2>2 DEF TicketInv, Inv, PromisesMatchQueue, Holds
    <3>2. pos'[r] = 0
      BY <1>b, <2>2 DEF cancelWaiter, Dropped, Queued
    <3>3. ByTokenIsHolder'
      BY <2>2, <1>d DEF cancelWaiter, ByTokenIsHolder, Holds
    <3>4. \A q \in Requests : Holds(q)' <=> Holds(q)
      BY <2>2 DEF cancelWaiter, Holds
    <3>5. \A q \in Requests \ {r} :
             q \in tickets' /\ result'[q] # "rejected" <=> pos'[q] > 0 \/ Holds(q)'
      <4> SUFFICES ASSUME NEW q \in Requests \ {r}
                   PROVE  q \in tickets' /\ result'[q] # "rejected" <=> pos'[q] > 0 \/ Holds(q)'
        OBVIOUS
      <4>1. q \in tickets /\ result[q] # "rejected" <=> pos[q] > 0 \/ Holds(q)
        BY DEF TicketInv, TicketsMatchMutex
      <4>2. Holds(q) => pos[q] = 0
        BY <1>b, <1>c DEF QueueAgrees, TicketInv, Inv, PromisesMatchQueue, Holds
      <4> QED BY <1>b, <2>2, <3>4, <4>1, <4>2 DEF cancelWaiter, Dropped, Queued
    <3>6. tickets' \in SUBSET Requests
      BY <2>2 DEF TicketInv
    <3> QED BY <2>2, <3>1, <3>2, <3>3, <3>4, <3>5, <3>6 DEF TicketsMatchMutex
  <2> QED BY <1>4, <1>1, <2>1, <2>2 DEF DeadlinePasses, cancel
<1>5. ASSUME NEW r \in Requests, renewTicket(r) PROVE Maps'
  <2>1. CASE renew(r)
    <3>1. \A q \in Requests : Holds(q)' <=> Holds(q)
      <4>1. holder' # None /\ holder'.req = holder.req
        BY <2>1, HolderIsGrant, LeaseAssumption, NoneAssumption DEF renew, Holds, TicketInv, Inv
      <4> QED BY <2>1, <4>1 DEF renew, Holds
    <3> QED BY <1>5, <2>1, <3>1 DEF renewTicket, renew, TicketInv, ByTokenIsHolder, TicketsMatchMutex
  <2> QED BY <1>1, <1>5, <2>1 DEF renewTicket, Refused
<1>6. ASSUME NEW r \in Requests, BracketEnds(r) PROVE Maps'
  <2>1. CASE Holds(r) /\ releaseTicket(r)
    <3>1. {q \in Requests : Holds(q)} = {r} /\ byToken \cap {r} = {r}
      BY <1>d, <2>1 DEF Holds
    <3> QED BY <1>2, <2>1, <3>1 DEF releaseTicket, release, Refused
  <2>2. CASE ~Holds(r) /\ releaseTicket(r)
    <3>1. Granted = {} /\ UNCHANGED mutexVars
      BY <2>2 DEF releaseTicket, release, Refused, Granted, mutexVars
    <3>2. r \notin byToken
      BY <1>d, <2>2
    <3> QED BY <1>1, <2>2, <3>1, <3>2 DEF releaseTicket
  <2> QED BY <1>1, <1>6, <2>1, <2>2 DEF BracketEnds
<1>7. ASSUME SweepTickets PROVE Maps'
  BY <1>2, <1>7, <1>f DEF SweepTickets, reclaimExpired
<1>8. ASSUME ServerTimePasses PROVE Maps'
  <2>1. holder' # None /\ holder # None /\ holder'.req = holder.req /\ UNCHANGED <<pos, result>>
    BY <1>8, HolderIsGrant, LeaseAssumption, NoneAssumption
       DEF ServerTimePasses, Tick, LeaseRunsDown, TicketInv, Inv
  <2>2. \A q \in Requests : Holds(q)' <=> Holds(q)
    BY <2>1 DEF Holds
  <2> QED BY <1>8, <2>1, <2>2 DEF ServerTimePasses, TicketInv, ByTokenIsHolder, TicketsMatchMutex
<1>9. Maps'
  BY <1>1, <1>3, <1>4, <1>5, <1>6, <1>7, <1>8
     DEF TicketNext, poll, CallFails, ClientDies, ticketVars, vars
<1> QED BY <1>a, <1>9 DEF TicketInv

\* byToken always knows the current grant and no other, so onReclaim finds
\* the ticket of every holder it takes down (createTicketedMutex).
THEOREM ByTokenAlwaysHolder == TicketSpec => []ByTokenIsHolder
<1>1. TicketInv => ByTokenIsHolder
  BY DEF TicketInv
<1> QED BY TicketInitInv, TicketNextInv, <1>1, PTL DEF TicketSpec

\* The tickets map never loses a waiter or the holder, and never keeps the
\* ticket of a grant that is over (createTicketedMutex).
THEOREM TicketsAlwaysMatch == TicketSpec => []TicketsMatchMutex
<1>1. TicketInv => TicketsMatchMutex
  BY DEF TicketInv
<1> QED BY TicketInitInv, TicketNextInv, <1>1, PTL DEF TicketSpec

------------------------------------------------------------------------------
(***************************************************************************)
(* The push bracket.                                                       *)
(***************************************************************************)

\* How the phase of a bracket, its route and its promise go together.
RoutesMatchPhases ==
    \A r \in Requests :
       /\ phase[r] = "idle" => conn[r] = "none"
       /\ conn[r] = "none" => result[r] = "unsent"
       /\ phase[r] \in {"pushing", "releasing"} => result[r] = "granted" /\ conn[r] = "ended"
       /\ cmd[r] => phase[r] = "pushing"
       /\ conn[r] = "gone" => ~Alive(r) \/ phase[r] = "done"

\* The part of a grant's lease that can have run down unrenewed: the slip,
\* and the ticks since renewTimer was last set.
Spent(r) == slip[r] + (IF phase[r] = "pushing" THEN RenewMs - timer[r] ELSE 0)

\* A living bracket whose lease cannot have run out is the holder, with at
\* least the rest of its lease left.
LeasesCovered ==
    restarts = 0 =>
       \A r \in Requests :
          /\ Alive(r)
          /\ result[r] = "granted" /\ phase[r] \in {"posting", "pushing"}
          /\ Spent(r) < LeaseMs
          => Holds(r) /\ holder.ttl + Spent(r) >= LeaseMs

\* The inductive invariant of the bracket.
BracketInv == Inv /\ BracketTypeOK /\ RoutesMatchPhases /\ LeasesCovered

LEMMA BracketInitInv == BracketInit => BracketInv
<1> SUFFICES ASSUME BracketInit PROVE BracketInv
  OBVIOUS
<1>1. Inv
  BY InitInv DEF BracketInit
<1>2. BracketTypeOK
  BY <1>1, LeaseAssumption, RenewAssumption DEF BracketInit, BracketTypeOK, Inv
<1>3. RoutesMatchPhases /\ LeasesCovered
  BY DEF BracketInit, Init, RoutesMatchPhases, LeasesCovered
<1> QED BY <1>1, <1>2, <1>3 DEF BracketInv

\* A supervisor that ends leaves an empty mutex and no caller waiting.
LEMMA SupervisorEndsInv == Inv /\ SupervisorEnds => Inv'
<1> SUFFICES ASSUME Inv, SupervisorEnds PROVE Inv'
  OBVIOUS
<1>1. TypeOK'
  BY DEF Inv, SupervisorEnds, TypeOK, Pids
<1>2. PromisesMatchQueue' /\ NeverIdleWithWaiters'
  BY DEF Inv, SupervisorEnds, TypeOK, PromisesMatchQueue, NeverIdleWithWaiters, Queued
<1> QED BY <1>1, <1>2 DEF Inv

\* Every other step is an operation of the mutex, or leaves it alone.
LEMMA BracketStepIsMutexStep ==
    ASSUME [BracketNext]_allVars, ~SupervisorEnds
    PROVE  [Next]_vars
<1>1. ASSUME NEW r \in Requests, Step(r) PROVE [Next]_vars
  <2>1. CASE PostAcquire(r) \/ FetchFails(r) \/ ReceiveAnswer(r) \/ CommandEnds(r)
    BY <2>1 DEF PostAcquire, FetchFails, ReceiveAnswer, CommandEnds
  <2>2. CASE ServeAcquire(r) \/ HangUp(r)
    BY <2>2 DEF ServeAcquire, HangUp, Next, vars
  <2>3. CASE AnswerGrant(r) \/ Renew(r) \/ ReleaseMutex(r)
    BY <2>3 DEF AnswerGrant, Renew, ReleaseMutex, Refused, Next, vars
  <2> QED BY <1>1, <2>1, <2>2, <2>3 DEF Step
<1>2. CASE Sweep
  BY <1>2 DEF Sweep, Next
<1>3. CASE TimePasses
  BY <1>3 DEF TimePasses, LeaseRunsDown, Tick, Next, vars, mutexVars
<1>4. CASE \E p \in Pids : ProcessDies(p)
  BY <1>4 DEF ProcessDies, Next
<1>5. CASE SupervisorStarts \/ UNCHANGED allVars
  BY <1>5 DEF SupervisorStarts, allVars
<1> QED BY <1>1, <1>2, <1>3, <1>4, <1>5 DEF BracketNext

LEMMA CappedType == \A n \in Nat : Capped(n) \in 0..LeaseMs /\ Capped(n) <= n
BY LeaseAssumption DEF Capped

\* The bracket's own variables keep their types.
LEMMA BracketTypeStep ==
    ASSUME BracketTypeOK, TypeOK', [BracketNext]_allVars
    PROVE  BracketTypeOK'
<1> USE LeaseAssumption, RenewAssumption
<1>1. ASSUME NEW r \in Requests, PostAcquire(r) \/ ServeAcquire(r) \/ AnswerGrant(r) \/ FetchFails(r)
      PROVE  BracketTypeOK'
  BY <1>1 DEF PostAcquire, ServeAcquire, AnswerGrant, FetchFails, BracketTypeOK
<1>2. ASSUME NEW r \in Requests, HangUp(r) \/ ReceiveAnswer(r) \/ CommandEnds(r) \/ ReleaseMutex(r)
      PROVE  BracketTypeOK'
  <2>1. CASE HangUp(r) \/ ReleaseMutex(r)
    BY <2>1 DEF HangUp, ReleaseMutex, BracketTypeOK
  <2>2. CASE ReceiveAnswer(r)
    <3>1. cmd' \in [Requests -> BOOLEAN]
      BY <2>2 DEF ReceiveAnswer, BracketTypeOK
    <3>2. timer' \in [Requests -> 0..RenewMs]
      BY <2>2 DEF ReceiveAnswer, BracketTypeOK
    <3> QED BY <2>2, <3>1, <3>2 DEF ReceiveAnswer, BracketTypeOK
  <2>3. CASE CommandEnds(r)
    <3>1. cmd' \in [Requests -> BOOLEAN]
      BY <2>3 DEF CommandEnds, BracketTypeOK
    <3>2. timer' \in [Requests -> 0..RenewMs] /\ slip' \in [Requests -> 0..LeaseMs]
      BY <2>3 DEF CommandEnds, BracketTypeOK
    <3>3. phase' \in [Requests -> {"idle", "posting", "pushing", "releasing", "done"}]
      BY <2>3 DEF CommandEnds, BracketTypeOK
    <3> QED BY <2>3, <3>1, <3>2, <3>3 DEF CommandEnds, BracketTypeOK
  <2> QED BY <1>2, <2>1, <2>2, <2>3
<1>3. ASSUME NEW r \in Requests, Renew(r) PROVE BracketTypeOK'
  <2>1. Capped(slip[r] + RenewMs) \in 0..LeaseMs
    BY CappedType DEF BracketTypeOK
  <2>2. slip' \in [Requests -> 0..LeaseMs]
    BY <1>3, <2>1 DEF Renew, BracketTypeOK
  <2> QED BY <1>3, <2>2 DEF Renew, BracketTypeOK
<1>4. ASSUME TimePasses PROVE BracketTypeOK'
  <2>1. \A r \in Requests : Capped(slip[r] + 1) \in 0..LeaseMs
    BY CappedType DEF BracketTypeOK
  <2>2. slip' \in [Requests -> 0..LeaseMs]
    BY <1>4, <2>1 DEF TimePasses, BracketTypeOK
  <2>3. timer' \in [Requests -> 0..RenewMs]
    BY <1>4 DEF TimePasses, BracketTypeOK
  <2> QED BY <1>4, <2>2, <2>3 DEF TimePasses, BracketTypeOK
<1>5. ASSUME NEW p \in Pids, ProcessDies(p) PROVE BracketTypeOK'
  BY <1>5 DEF ProcessDies, BracketTypeOK
<1>6. CASE Sweep \/ SupervisorStarts \/ UNCHANGED allVars
  BY <1>6 DEF Sweep, SupervisorStarts, allVars, bracketVars, BracketTypeOK
<1>7. CASE SupervisorEnds
  <2>1. restarts < MaxRestarts /\ restarts' = restarts + 1 /\ up' = FALSE
    BY <1>7 DEF SupervisorEnds
  <2>2. restarts \in 0..MaxRestarts
    BY DEF BracketTypeOK
  <2>3. restarts' \in 0..MaxRestarts
    BY <2>1, <2>2
  <2> QED BY <1>7, <2>1, <2>3 DEF SupervisorEnds, bracketVars, BracketTypeOK
<1> QED BY <1>1, <1>2, <1>3, <1>4, <1>5, <1>6, <1>7 DEF BracketNext, Step

\* A granted promise stays granted, and only acquire() settles a new one.
LEMMA PromiseSteps ==
    ASSUME Inv, [Next]_vars, NEW r \in Requests
    PROVE  /\ result[r] = "granted" => result'[r] = "granted"
           /\ result[r] = "unsent" => result'[r] = "unsent" \/ acquire(r)
<1>a. /\ pos \in [Requests -> Nat] /\ arrivals \in Nat
      /\ holder \in Holders /\ result \in [Requests -> Results] /\ None \in Holders
      /\ QueueAgrees(pos, arrivals, result)
  BY DEF Inv, TypeOK, PromisesMatchQueue, QueueAgrees, Holders, Results
<1>1. ASSUME NEW q \in Requests, acquire(q), q # r
      PROVE  /\ result[r] = "granted" => result'[r] = "granted"
             /\ result[r] = "unsent" => result'[r] = "unsent"
  <2> DEFINE h == IF Reclaimable THEN None ELSE holder
             p == [pos EXCEPT ![q] = arrivals + 1]
             res == [result EXCEPT ![q] = "waiting"]
             n == arrivals + 1
  <2>1. pump(h, p, res) /\ result[q] = "unsent"
    BY <1>1 DEF acquire
  <2>2. /\ h \in Holders /\ n \in Nat
        /\ p \in [Requests -> Nat] /\ res \in [Requests -> Results] /\ QueueAgrees(p, n, res)
    BY <1>a, <2>1, AcquireQueue
  <2>3. /\ res[r] = result[r]
        /\ res[r] = "waiting" <=> p[r] > 0
    BY <1>a, <1>1, <2>2 DEF QueueAgrees
  <2>4. /\ \A u \in Newly(res) : p[u] > 0
        /\ \A u \in Requests \ Newly(res) : result'[u] = res[u]
    <3> HIDE DEF h, p, res, n
    <3> QED BY <2>1, <2>2, PumpNewly
  <2> QED BY <2>3, <2>4 DEF Newly
<1>2. ASSUME pump(None, pos, result)
      PROVE  /\ result[r] = "granted" => result'[r] = "granted"
             /\ result[r] = "unsent" => result'[r] = "unsent"
  <2>1. /\ \A u \in Newly(result) : pos[u] > 0
        /\ \A u \in Requests \ Newly(result) : result'[u] = result[u]
    BY <1>a, <1>2, PumpNewly
  <2> QED BY <1>a, <2>1 DEF Newly, QueueAgrees
<1>3. ASSUME stop \/ \E q \in Requests : cancelWaiter(SprintOf[q])
      PROVE  /\ result[r] = "granted" => result'[r] = "granted"
             /\ result[r] = "unsent" => result'[r] = "unsent"
  BY <1>a, <1>3 DEF stop, cancelWaiter, Dropped, Queued, QueueAgrees
<1>4. ASSUME acquire(r) PROVE result[r] = "unsent"
  BY <1>4 DEF acquire
<1> QED
  BY <1>1, <1>2, <1>3, <1>4
     DEF Next, release, reclaimExpired, renew, Tick, LeaseRunsDown, vars, mutexVars

\* Phases, routes and promises stay in step.
LEMMA RoutesStep ==
    ASSUME BracketInv, [BracketNext]_allVars
    PROVE  RoutesMatchPhases'
<1>a. /\ phase \in [Requests -> {"idle", "posting", "pushing", "releasing", "done"}]
      /\ conn \in [Requests -> {"none", "sent", "open", "gone", "ended"}]
      /\ cmd \in [Requests -> BOOLEAN]
  BY DEF BracketInv, BracketTypeOK
<1>b. /\ pos \in [Requests -> Nat] /\ arrivals \in Nat
      /\ holder \in Holders /\ result \in [Requests -> Results]
      /\ QueueAgrees(pos, arrivals, result)
  BY DEF BracketInv, Inv, TypeOK, PromisesMatchQueue, QueueAgrees, Holders, Results
<1>c. RoutesMatchPhases
  BY DEF BracketInv
<1>1. ASSUME NEW r \in Requests,
             PostAcquire(r) \/ FetchFails(r) \/ ReceiveAnswer(r) \/ CommandEnds(r)
      PROVE  RoutesMatchPhases'
  <2> USE <1>a, <1>c DEF RoutesMatchPhases, Alive, vars, mutexVars
  <2>1. CASE PostAcquire(r)
    BY <2>1 DEF PostAcquire
  <2>2. CASE FetchFails(r)
    BY <2>2 DEF FetchFails
  <2>3. CASE ReceiveAnswer(r)
    BY <2>3 DEF ReceiveAnswer
  <2>4. CASE CommandEnds(r)
    BY <2>4 DEF CommandEnds
  <2> QED BY <1>1, <2>1, <2>2, <2>3, <2>4
<1>2. ASSUME NEW r \in Requests, ServeAcquire(r) PROVE RoutesMatchPhases'
  <2>1. [Next]_vars
    BY <1>2, BracketStepIsMutexStep DEF ServeAcquire, Next
  <2>2. \A q \in Requests :
           /\ result[q] = "granted" => result'[q] = "granted"
           /\ result[q] = "unsent" => result'[q] = "unsent" \/ acquire(q)
    BY <2>1, PromiseSteps DEF BracketInv
  <2>3. \A q \in Requests \ {r} : ~acquire(q)
    <3> SUFFICES ASSUME NEW q \in Requests \ {r}, acquire(q), acquire(r) PROVE FALSE
      BY <1>2 DEF ServeAcquire
    <3>1. ~(result'[q] = "unsent") /\ result[q] = "unsent" /\ result[r] = "unsent"
      BY <1>b DEF acquire, pump, Results
    <3> QED BY <1>b, <3>1 DEF acquire, pump, IsFront, Queued, Results
  <2> QED BY <1>2, <1>a, <1>c, <2>2, <2>3 DEF ServeAcquire, RoutesMatchPhases, Alive
<1>3. ASSUME [Next]_vars, UNCHANGED arrivals, NEW r \in Requests
      PROVE  /\ result[r] = "granted" => result'[r] = "granted"
             /\ result[r] = "unsent" => result'[r] = "unsent"
  <2>1. ~acquire(r)
    BY <1>3, <1>b DEF acquire
  <2> QED BY <1>3, <2>1, PromiseSteps DEF BracketInv
<1>4. ASSUME NEW r \in Requests, AnswerGrant(r) \/ HangUp(r) PROVE RoutesMatchPhases'
  <2>1. [Next]_vars /\ UNCHANGED arrivals
    BY <1>4 DEF AnswerGrant, HangUp, Refused, Next, vars, mutexVars, release, cancelWaiter
  <2>2. \A q \in Requests : /\ result[q] = "granted" => result'[q] = "granted"
                            /\ result[q] = "unsent" => result'[q] = "unsent"
    BY <1>3, <2>1
  <2>3. CASE AnswerGrant(r)
    BY <2>3, <1>a, <1>c, <2>2 DEF AnswerGrant, RoutesMatchPhases, Alive
  <2>4. CASE HangUp(r)
    BY <2>4, <1>a, <1>c, <2>2 DEF HangUp, RoutesMatchPhases, Alive
  <2> QED BY <1>4, <2>3, <2>4
<1>5. ASSUME NEW r \in Requests, Renew(r) \/ ReleaseMutex(r) PROVE RoutesMatchPhases'
  <2>1. [Next]_vars /\ UNCHANGED arrivals
    BY <1>5 DEF Renew, ReleaseMutex, Refused, Next, vars, mutexVars, release, renew
  <2>2. \A q \in Requests : /\ result[q] = "granted" => result'[q] = "granted"
                            /\ result[q] = "unsent" => result'[q] = "unsent"
    BY <1>3, <2>1
  <2>3. CASE Renew(r)
    BY <2>3, <1>a, <1>c, <2>2 DEF Renew, RoutesMatchPhases, Alive
  <2>4. CASE ReleaseMutex(r)
    BY <2>4, <1>a, <1>c, <2>2 DEF ReleaseMutex, RoutesMatchPhases, Alive
  <2> QED BY <1>5, <2>3, <2>4
<1>6. ASSUME Sweep PROVE RoutesMatchPhases'
  <2>1. [Next]_vars /\ UNCHANGED arrivals
    BY <1>6 DEF Sweep, Next, reclaimExpired
  <2>2. \A q \in Requests : /\ result[q] = "granted" => result'[q] = "granted"
                            /\ result[q] = "unsent" => result'[q] = "unsent"
    BY <1>3, <2>1
  <2> QED BY <1>6, <1>c, <2>2 DEF Sweep, RoutesMatchPhases, Alive, bracketVars
<1>7. ASSUME TimePasses PROVE RoutesMatchPhases'
  BY <1>7, <1>c DEF TimePasses, LeaseRunsDown, RoutesMatchPhases, Alive
<1>8. ASSUME NEW p \in Pids, ProcessDies(p) PROVE RoutesMatchPhases'
  BY <1>8, <1>c DEF ProcessDies, Exit, RoutesMatchPhases, Alive, mutexVars
<1>9. ASSUME SupervisorEnds PROVE RoutesMatchPhases'
  BY <1>9, <1>b, <1>c DEF SupervisorEnds, RoutesMatchPhases, Alive, bracketVars
<1>10. CASE SupervisorStarts \/ UNCHANGED allVars
  BY <1>10, <1>c DEF SupervisorStarts, allVars, bracketVars, vars, mutexVars, RoutesMatchPhases, Alive
<1> QED BY <1>1, <1>2, <1>4, <1>5, <1>6, <1>7, <1>8, <1>9, <1>10 DEF BracketNext, Step

\* An operation of the mutex that is not the release of r itself.
SparesHolder(r) ==
    \/ \E q \in Requests : acquire(q) \/ renew(q) \/ cancelWaiter(SprintOf[q])
    \/ \E q \in Requests \ {r} : release(q)
    \/ reclaimExpired
    \/ UNCHANGED mutexVars

\* Such an operation leaves r with what it had of its lease, if r lives and
\* the lease has not run out; and a new grant comes with a whole lease.
LEMMA OthersSpareHolder ==
    ASSUME Inv, NEW r \in Requests, SparesHolder(r), result'[r] = "granted"
    PROVE  \/ Holds(r)' /\ holder'.ttl = LeaseMs
           \/ /\ result[r] = "granted"
              /\ Holds(r) /\ Alive(r) /\ holder.ttl > 0 => Holds(r)' /\ holder'.ttl >= holder.ttl
<1> DEFINE Goal == \/ Holds(r)' /\ holder'.ttl = LeaseMs
                   \/ /\ result[r] = "granted"
                      /\ Holds(r) /\ Alive(r) /\ holder.ttl > 0
                         => Holds(r)' /\ holder'.ttl >= holder.ttl
<1>a. /\ pos \in [Requests -> Nat] /\ arrivals \in Nat
      /\ holder \in Holders /\ result \in [Requests -> Results] /\ None \in Holders
      /\ QueueAgrees(pos, arrivals, result)
  BY DEF Inv, TypeOK, PromisesMatchQueue, QueueAgrees, Holders, Results
<1>b. holder # None => holder.ttl \in 0..LeaseMs
  BY <1>a DEF Holders
<1>c. grant(r) # None /\ grant(r).req = r /\ grant(r).ttl = LeaseMs
  BY NoneAssumption, LeaseAssumption DEF grant
<1>1. ASSUME NEW h \in {None, holder}, NEW p \in [Requests -> Nat], NEW n \in Nat,
             NEW res \in [Requests -> Results], pump(h, p, res), QueueAgrees(p, n, res),
             res[r] = "granted" => result[r] = "granted",
             Holds(r) /\ Alive(r) /\ holder.ttl > 0 => h = holder
      PROVE  Goal
  <2>1. h \in Holders
    BY <1>a, <1>1
  <2>2. /\ h # None => holder' = h /\ Newly(res) = {}
        /\ \A u \in Newly(res) : holder' = grant(u)
        /\ \A u \in Requests \ Newly(res) : result'[u] = res[u]
    BY <1>1, <2>1, PumpNewly
  <2>3. CASE r \in Newly(res)
    BY <1>c, <2>2, <2>3 DEF Holds
  <2>4. CASE r \notin Newly(res)
    <3>1. result[r] = "granted"
      BY <1>1, <2>2, <2>4
    <3> QED BY <1>1, <1>b, <2>2, <3>1, LeaseAssumption DEF Holds
  <2> QED BY <2>3, <2>4
<1>2. ASSUME NEW q \in Requests, acquire(q) PROVE Goal
  <2> DEFINE h == IF Reclaimable THEN None ELSE holder
             p == [pos EXCEPT ![q] = arrivals + 1]
             res == [result EXCEPT ![q] = "waiting"]
             n == arrivals + 1
  <2>1. pump(h, p, res) /\ result[q] = "unsent"
    BY <1>2 DEF acquire
  <2>2. /\ h \in {None, holder} /\ n \in Nat
        /\ p \in [Requests -> Nat] /\ res \in [Requests -> Results] /\ QueueAgrees(p, n, res)
    BY <1>a, <2>1, AcquireQueue
  <2>3. res[r] = "granted" => result[r] = "granted"
    BY <1>a
  <2>4. Holds(r) /\ Alive(r) /\ holder.ttl > 0 => h = holder
    BY <1>b DEF Holds, Alive, Reclaimable, leaseExpired, pidDead
  <2> HIDE DEF h, p, res, n
  <2> QED BY <1>1, <2>1, <2>2, <2>3, <2>4
<1>3. ASSUME NEW q \in Requests \ {r}, release(q) PROVE Goal
  <2>1. ~Holds(r) /\ pump(None, pos, result)
    BY <1>3 DEF release, Holds
  <2> QED BY <1>1, <1>a, <2>1
<1>4. ASSUME reclaimExpired PROVE Goal
  <2>1. ~(Holds(r) /\ Alive(r) /\ holder.ttl > 0) /\ pump(None, pos, result)
    BY <1>4, <1>b DEF reclaimExpired, Reclaimable, leaseExpired, pidDead, Holds, Alive
  <2> QED BY <1>1, <1>a, <2>1
<1>5. ASSUME NEW q \in Requests, renew(q) PROVE Goal
  <2>1. holder' \in [req: Requests, ttl: 0..LeaseMs] /\ holder'.req = holder.req /\ holder'.ttl = LeaseMs
    BY <1>5, HolderIsGrant, LeaseAssumption DEF renew, Holds, Inv
  <2> QED BY <1>5, <1>b, <2>1, NoneAssumption, LeaseAssumption DEF renew, Holds
<1>6. ASSUME NEW q \in Requests, cancelWaiter(SprintOf[q]) PROVE Goal
  <2>1. result[r] = "granted"
    BY <1>6, <1>a DEF cancelWaiter
  <2> QED BY <1>6, <1>b, <2>1, LeaseAssumption DEF cancelWaiter, Holds
<1>7. CASE UNCHANGED mutexVars
  BY <1>7, <1>b, LeaseAssumption DEF mutexVars, Holds
<1> QED BY <1>2, <1>3, <1>4, <1>5, <1>6, <1>7 DEF SparesHolder

\* The lease accounting survives every step.
LEMMA LeasesStep ==
    ASSUME BracketInv, [BracketNext]_allVars
    PROVE  LeasesCovered'
<1>a. /\ phase \in [Requests -> {"idle", "posting", "pushing", "releasing", "done"}]
      /\ timer \in [Requests -> 0..RenewMs] /\ slip \in [Requests -> 0..LeaseMs]
      /\ restarts \in 0..MaxRestarts
  BY DEF BracketInv, BracketTypeOK
<1>b. holder \in Holders /\ (holder # None => holder.ttl \in 0..LeaseMs)
  BY DEF BracketInv, Inv, TypeOK, Holders
<1>c. RoutesMatchPhases /\ Inv /\ LeasesCovered
  BY DEF BracketInv
<1>d. Inv' /\ BracketTypeOK'
  <2>1. Inv'
    BY <1>c, SupervisorEndsInv, BracketStepIsMutexStep, NextInv
  <2> QED BY <2>1, BracketTypeStep DEF BracketInv, Inv
<1>e. \A r \in Requests : Spent(r) \in Nat /\ Spent(r)' \in Nat
  <2>1. \A r \in Requests : slip[r] \in Nat /\ RenewMs - timer[r] \in Nat
    BY <1>a, LeaseAssumption, RenewAssumption
  <2>2. \A r \in Requests : slip'[r] \in Nat /\ RenewMs - timer'[r] \in Nat
    BY <1>d, LeaseAssumption, RenewAssumption DEF BracketTypeOK
  <2> QED BY <2>1, <2>2 DEF Spent
\* It is enough to look at one bracket that lives through the step.
<1>f. ASSUME \A r \in Requests :
                /\ Alive(r) /\ restarts = 0
                /\ result'[r] = "granted" /\ phase'[r] \in {"posting", "pushing"}
                /\ Spent(r)' < LeaseMs
                => Holds(r)' /\ holder'.ttl + Spent(r)' >= LeaseMs,
             restarts' = restarts, dead \subseteq dead'
      PROVE  LeasesCovered'
  BY <1>f DEF LeasesCovered, Alive
\* Steps that spend nothing and at most spare the holder.
<1>g. ASSUME NEW r \in Requests, SparesHolder(r), Alive(r), restarts = 0,
             result'[r] = "granted", phase'[r] \in {"posting", "pushing"},
             phase[r] \in {"posting", "pushing"},
             Spent(r)' = Spent(r), Spent(r)' < LeaseMs
      PROVE  Holds(r)' /\ holder'.ttl + Spent(r)' >= LeaseMs
  <2>1. CASE Holds(r)' /\ holder'.ttl = LeaseMs
    BY <1>e, <2>1, LeaseAssumption
  <2>2. CASE /\ result[r] = "granted"
             /\ Holds(r) /\ Alive(r) /\ holder.ttl > 0 => Holds(r)' /\ holder'.ttl >= holder.ttl
    <3>1. Holds(r) /\ holder.ttl + Spent(r) >= LeaseMs
      BY <1>c, <1>g, <2>2 DEF LeasesCovered
    <3>2. holder.ttl \in Nat /\ holder.ttl > 0
      BY <1>b, <1>e, <1>g, <3>1, LeaseAssumption DEF Holds
    <3>3. Holds(r)' /\ holder'.ttl >= holder.ttl
      BY <1>g, <2>2, <3>1, <3>2
    <3>4. holder'.ttl \in Nat
      BY <1>d, <3>3, LeaseAssumption DEF Inv, TypeOK, Holds
    <3> QED BY <1>e, <1>g, <3>1, <3>2, <3>3, <3>4, LeaseAssumption
  <2> QED BY <1>c, <1>g, <2>1, <2>2, OthersSpareHolder
<1>1. ASSUME NEW q \in Requests,
             PostAcquire(q) \/ FetchFails(q) \/ ReceiveAnswer(q)
      PROVE  LeasesCovered'
  <2>1. restarts' = restarts /\ dead \subseteq dead' /\ UNCHANGED mutexVars
    BY <1>1 DEF PostAcquire, FetchFails, ReceiveAnswer, vars
  <2>2. SUFFICES ASSUME NEW r \in Requests, Alive(r), restarts = 0,
                        result'[r] = "granted", phase'[r] \in {"posting", "pushing"},
                        Spent(r)' < LeaseMs
                 PROVE  Holds(r)' /\ holder'.ttl + Spent(r)' >= LeaseMs
    BY <1>f, <2>1
  <2>3. phase[r] \in {"posting", "pushing"}
    BY <1>1, <1>a, <1>c, <2>1, <2>2
       DEF PostAcquire, FetchFails, ReceiveAnswer, RoutesMatchPhases, mutexVars
  <2>4. Spent(r)' = Spent(r)
    <3>1. CASE PostAcquire(q) \/ FetchFails(q)
      BY <1>a, <2>2, <2>3, <3>1 DEF PostAcquire, FetchFails, Spent
    <3>2. CASE ReceiveAnswer(q)
      BY <1>a, <2>2, <2>3, <3>2, RenewAssumption DEF ReceiveAnswer, Spent
    <3> QED BY <1>1, <3>1, <3>2
  <2> QED BY <1>g, <2>1, <2>2, <2>3, <2>4 DEF SparesHolder
<1>2. ASSUME NEW q \in Requests, ServeAcquire(q) \/ AnswerGrant(q) \/ HangUp(q) \/ ReleaseMutex(q)
      PROVE  LeasesCovered'
  <2>1. restarts' = restarts /\ dead \subseteq dead' /\ UNCHANGED <<timer, slip>>
    BY <1>2 DEF ServeAcquire, AnswerGrant, HangUp, ReleaseMutex
  <2>2. SUFFICES ASSUME NEW r \in Requests, Alive(r), restarts = 0,
                        result'[r] = "granted", phase'[r] \in {"posting", "pushing"},
                        Spent(r)' < LeaseMs
                 PROVE  Holds(r)' /\ holder'.ttl + Spent(r)' >= LeaseMs
    BY <1>f, <2>1
  <2>3. phase[r] = phase'[r]
    BY <1>2, <1>a, <2>2 DEF ServeAcquire, AnswerGrant, HangUp, ReleaseMutex
  <2>4. Spent(r)' = Spent(r)
    BY <2>1, <2>3 DEF Spent
  <2>5. SparesHolder(r)
    <3>1. CASE ServeAcquire(q)
      BY <3>1 DEF ServeAcquire, SparesHolder
    <3>2. CASE AnswerGrant(q)
      <4>1. CASE conn[q] = "gone" /\ release(q)
        <5>1. q # r
          BY <1>c, <2>2, <2>3, <4>1 DEF RoutesMatchPhases
        <5> QED BY <4>1, <5>1 DEF SparesHolder
      <4> QED BY <3>2, <4>1 DEF AnswerGrant, Refused, SparesHolder
    <3>3. CASE HangUp(q)
      BY <3>3 DEF HangUp, SparesHolder
    <3>4. CASE ReleaseMutex(q)
      <4>1. q # r
        BY <2>2, <2>3, <3>4 DEF ReleaseMutex
      <4> QED BY <3>4, <4>1 DEF ReleaseMutex, Refused, SparesHolder
    <3> QED BY <1>2, <3>1, <3>2, <3>3, <3>4
  <2> QED BY <1>g, <2>2, <2>3, <2>4, <2>5
<1>3. ASSUME NEW q \in Requests, Renew(q) PROVE LeasesCovered'
  <2>1. restarts' = restarts /\ dead \subseteq dead' /\ UNCHANGED phase
    BY <1>3 DEF Renew
  <2>2. SUFFICES ASSUME NEW r \in Requests, Alive(r), restarts = 0,
                        result'[r] = "granted", phase'[r] \in {"posting", "pushing"},
                        Spent(r)' < LeaseMs
                 PROVE  Holds(r)' /\ holder'.ttl + Spent(r)' >= LeaseMs
    BY <1>f, <2>1
  <2>3. SparesHolder(r)
    BY <1>3 DEF Renew, Refused, SparesHolder
  <2>4. CASE renew(q) /\ q = r
    <3>1. Holds(r)' /\ holder'.ttl = LeaseMs
      <4>1. holder' \in [req: Requests, ttl: 0..LeaseMs] /\ holder'.req = r /\ holder'.ttl = LeaseMs
        BY <1>c, <2>4, HolderIsGrant, LeaseAssumption DEF renew, Holds, Inv
      <4> QED BY <4>1, NoneAssumption DEF Holds
    <3> QED BY <1>e, <3>1, LeaseAssumption
  <2>5. CASE ~(renew(q) /\ q = r)
    <3>1. Spent(r)' = Spent(r)
      <4>1. CASE q # r
        BY <1>3, <1>a, <2>1, <4>1 DEF Renew, Spent
      <4>2. CASE q = r
        <5>1. /\ phase[r] = "pushing" /\ timer[r] = 0 /\ timer'[r] = RenewMs
              /\ slip'[r] = Capped(slip[r] + RenewMs)
          BY <1>3, <1>a, <2>5, <4>2 DEF Renew, Renewing
        <5>2. Spent(r) = slip[r] + RenewMs /\ Spent(r)' = Capped(slip[r] + RenewMs)
          BY <1>a, <1>d, <2>1, <5>1, RenewAssumption DEF Spent, BracketTypeOK
        <5> QED BY <1>a, <2>2, <5>2, RenewAssumption, LeaseAssumption DEF Capped
      <4> QED BY <4>1, <4>2
    <3> QED BY <1>g, <2>1, <2>2, <2>3, <3>1
  <2> QED BY <2>4, <2>5
<1>4. ASSUME NEW q \in Requests, CommandEnds(q) PROVE LeasesCovered'
  <2>1. restarts' = restarts /\ dead \subseteq dead' /\ UNCHANGED mutexVars
    BY <1>4 DEF CommandEnds, vars
  <2>2. SUFFICES ASSUME NEW r \in Requests, Alive(r), restarts = 0,
                        result'[r] = "granted", phase'[r] \in {"posting", "pushing"},
                        Spent(r)' < LeaseMs
                 PROVE  Holds(r)' /\ holder'.ttl + Spent(r)' >= LeaseMs
    BY <1>f, <2>1
  <2>3. q # r
    BY <1>4, <1>a, <2>2 DEF CommandEnds
  <2>4. Spent(r)' = Spent(r) /\ phase'[r] = phase[r]
    BY <1>4, <1>a, <2>3 DEF CommandEnds, Spent
  <2> QED BY <1>g, <2>1, <2>2, <2>4 DEF SparesHolder
<1>5. ASSUME Sweep PROVE LeasesCovered'
  <2>1. restarts' = restarts /\ dead \subseteq dead' /\ UNCHANGED <<phase, timer, slip>>
    BY <1>5 DEF Sweep, bracketVars
  <2>2. \A r \in Requests : SparesHolder(r) /\ Spent(r)' = Spent(r)
    BY <1>5, <2>1 DEF Sweep, SparesHolder, Spent
  <2> QED BY <1>f, <1>g, <2>1, <2>2
<1>6. ASSUME TimePasses PROVE LeasesCovered'
  <2>1. restarts' = restarts /\ dead \subseteq dead' /\ UNCHANGED <<phase, result>>
    BY <1>6 DEF TimePasses, LeaseRunsDown
  <2>2. SUFFICES ASSUME NEW r \in Requests, Alive(r), restarts = 0,
                        result'[r] = "granted", phase'[r] \in {"posting", "pushing"},
                        Spent(r)' < LeaseMs
                 PROVE  Holds(r)' /\ holder'.ttl + Spent(r)' >= LeaseMs
    BY <1>f, <2>1
  <2>3. Spent(r)' = Spent(r) + 1
    <3>1. CASE phase[r] = "posting"
      <4>1. slip'[r] = Capped(slip[r] + 1) /\ Spent(r) = slip[r] /\ Spent(r)' = slip'[r]
        BY <1>6, <1>a, <1>d, <2>1, <2>2, <3>1, LeaseAssumption DEF TimePasses, Spent, BracketTypeOK
      <4> QED BY <1>a, <2>2, <4>1, LeaseAssumption DEF Capped
    <3>2. CASE phase[r] = "pushing"
      <4>1. slip'[r] = slip[r] /\ timer'[r] = timer[r] - 1
        BY <1>6, <1>a, <2>2, <3>2 DEF TimePasses, Renewing
      <4>2. timer[r] \in Nat /\ slip[r] \in Nat
        BY <1>a, RenewAssumption, LeaseAssumption
      <4> QED BY <2>1, <3>2, <4>1, <4>2, RenewAssumption DEF Spent
    <3> QED BY <2>1, <2>2, <3>1, <3>2
  <2>4. Holds(r) /\ holder.ttl + Spent(r) >= LeaseMs
    <3>1. Spent(r) < LeaseMs
      BY <1>e, <2>2, <2>3, LeaseAssumption
    <3> QED BY <1>c, <2>1, <2>2, <3>1 DEF LeasesCovered
  <2>5. holder \in [req: Requests, ttl: 0..LeaseMs] /\ holder.ttl > 0
    BY <1>b, <1>e, <2>2, <2>3, <2>4, LeaseAssumption DEF Holds, Holders
  <2>6. /\ holder' \in [req: Requests, ttl: 0..LeaseMs]
        /\ holder'.req = r /\ holder'.ttl = holder.ttl - 1
    BY <1>6, <2>4, <2>5, LeaseAssumption, NoneAssumption DEF TimePasses, LeaseRunsDown, Holds
  <2> QED BY <1>e, <2>3, <2>4, <2>5, <2>6, NoneAssumption, LeaseAssumption DEF Holds
<1>7. ASSUME NEW p \in Pids, ProcessDies(p) PROVE LeasesCovered'
  <2>1. restarts' = restarts /\ UNCHANGED <<mutexVars, phase>> /\ dead' = dead \cup {p}
    BY <1>7 DEF ProcessDies, Exit
  <2>2. ASSUME NEW r \in Requests, Alive(r)' PROVE Alive(r) /\ Spent(r)' = Spent(r)
    <3>1. Alive(r) /\ PidOf[r] # p
      BY <2>1, <2>2 DEF Alive
    <3>2. slip'[r] = slip[r] /\ timer'[r] = timer[r]
      BY <1>7, <3>1 DEF ProcessDies
    <3> QED BY <2>1, <3>1, <3>2 DEF Spent
  <2> QED BY <1>c, <2>1, <2>2 DEF LeasesCovered, mutexVars, Holds
<1>8. ASSUME SupervisorEnds PROVE LeasesCovered'
  <2>1. restarts' # 0
    BY <1>8, <1>a, RenewAssumption DEF SupervisorEnds
  <2> QED BY <2>1 DEF LeasesCovered
<1>9. CASE SupervisorStarts \/ UNCHANGED allVars
  BY <1>9, <1>c DEF SupervisorStarts, allVars, bracketVars, vars, mutexVars, LeasesCovered, Spent,
     Holds, Alive
<1> QED BY <1>1, <1>2, <1>3, <1>4, <1>5, <1>6, <1>7, <1>8, <1>9 DEF BracketNext, Step

LEMMA BracketNextInv == BracketInv /\ [BracketNext]_allVars => BracketInv'
<1> SUFFICES ASSUME BracketInv, [BracketNext]_allVars PROVE BracketInv'
  OBVIOUS
<1>1. Inv'
  BY SupervisorEndsInv, BracketStepIsMutexStep, NextInv DEF BracketInv
<1>2. BracketTypeOK'
  BY <1>1, BracketTypeStep DEF BracketInv, Inv
<1> QED BY <1>1, <1>2, RoutesStep, LeasesStep DEF BracketInv

\* Type correctness of the brackets, the supervisor and the mutex it serves.
THEOREM BracketTypeCorrect == BracketSpec => []BracketTypeOK
<1>1. BracketInv => BracketTypeOK
  BY DEF BracketInv
<1> QED BY BracketInitInv, BracketNextInv, <1>1, PTL DEF BracketSpec

\* A bracket that renews in time keeps the mutex while its command runs, as
\* long as the supervisor lives (doltPushAfter, the LEASE RENEWAL comment).
THEOREM TimelyRenewalKeepsIt == BracketSpec => []TimelyRenewalKeepsMutex
<1>1. ASSUME BracketInv, restarts = 0, NEW r \in Requests, cmd[r], Timely(r) PROVE Holds(r)
  <2>1. phase[r] = "pushing" /\ result[r] = "granted" /\ Alive(r)
    BY <1>1 DEF BracketInv, RoutesMatchPhases, Timely
  <2>2. timer[r] \in 0..RenewMs /\ slip[r] \in 0..LeaseMs
    BY <1>1 DEF BracketInv, BracketTypeOK
  <2>3. Spent(r) < LeaseMs
    BY <1>1, <2>1, <2>2, RenewAssumption, LeaseAssumption DEF Spent, Timely
  <2> QED BY <1>1, <2>1, <2>3 DEF BracketInv, LeasesCovered
<1>2. BracketInv => TimelyRenewalKeepsMutex
  BY <1>1 DEF TimelyRenewalKeepsMutex
<1> QED BY BracketInitInv, BracketNextInv, <1>2, PTL DEF BracketSpec

\* Without a restart of the supervisor, two pushes whose brackets live and
\* renew in time never overlap, of one sprint or of two (the header of
\* dolt-mutex.mjs): the restart is the only way to what the run
\* push_restart shows.
THEOREM TimelyPushesExclude ==
    BracketSpec => [](restarts = 0 =>
       \A q, r \in Requests : cmd[q] /\ cmd[r] /\ Timely(q) /\ Timely(r) => q = r)
<1>1. TimelyRenewalKeepsMutex =>
        (restarts = 0 =>
           \A q, r \in Requests : cmd[q] /\ cmd[r] /\ Timely(q) /\ Timely(r) => q = r)
  BY DEF TimelyRenewalKeepsMutex, Holds
<1> QED BY TimelyRenewalKeepsIt, <1>1, PTL
==============================================================================
