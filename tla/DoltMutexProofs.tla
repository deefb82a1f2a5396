--------------------------- MODULE DoltMutexProofs ---------------------------
(***************************************************************************)
(* Proofs about DoltMutex for any set of requests and any lease length.    *)
(* pump() is the only place a grant is made, so PumpType, PumpQueue and    *)
(* PumpFifo carry the argument: what pump() makes of a holder h, a queue p *)
(* and promises res that already agree with each other.                    *)
(***************************************************************************)
EXTENDS DoltMutex, TLAPS

Results == {"unsent", "waiting", "granted", "rejected"}

Holders == [req: Requests, ttl: 0..LeaseMs] \cup {None}

\* The queue p, filled by n arrivals, agrees with the promises res.
QueueAgrees(p, n, res) ==
    /\ \A r \in Requests : (res[r] = "waiting" <=> p[r] > 0) /\ p[r] <= n
    /\ \A q, r \in Queued(p) : p[q] = p[r] => q = r

\* The inductive invariant: PromisesMatchQueue needs the type of every
\* variable, and nothing else.
Inv == TypeOK /\ PromisesMatchQueue /\ NeverIdleWithWaiters

\* pump() keeps the types (createDoltMutex's pump and grant).
LEMMA PumpType ==
    ASSUME NEW h \in Holders, NEW p \in [Requests -> Nat],
           NEW res \in [Requests -> Results], pump(h, p, res)
    PROVE  /\ holder' \in Holders
           /\ pos' \in [Requests -> Nat]
           /\ result' \in [Requests -> Results]
<1>1. CASE holder' = h /\ pos' = p /\ result' = res
  BY <1>1
<1>2. CASE \E r \in Requests : /\ holder' = grant(r)
                               /\ pos' = [p EXCEPT ![r] = 0]
                               /\ result' = [res EXCEPT ![r] = "granted"]
  <2>1. PICK r \in Requests : /\ holder' = grant(r)
                              /\ pos' = [p EXCEPT ![r] = 0]
                              /\ result' = [res EXCEPT ![r] = "granted"]
    BY <1>2
  <2>2. LeaseMs \in 0..LeaseMs
    BY LeaseAssumption
  <2> QED BY <2>1, <2>2 DEF grant, Holders, Results
<1> QED BY <1>1, <1>2 DEF pump

\* pump() never leaves the mutex free while somebody waits, and keeps the
\* promises in agreement with the queue and the holder.
LEMMA PumpQueue ==
    ASSUME NEW h \in Holders, NEW p \in [Requests -> Nat], NEW n \in Nat,
           NEW res \in [Requests -> Results], pump(h, p, res),
           QueueAgrees(p, n, res), h # None => res[h.req] = "granted"
    PROVE  /\ QueueAgrees(pos', n, result')
           /\ holder' # None => result'[holder'.req] = "granted"
           /\ holder' = None => Queued(pos') = {}
<1>1. CASE (h # None \/ Queued(p) = {}) /\ holder' = h /\ pos' = p /\ result' = res
  BY <1>1
<1>2. CASE \E r \in Requests : /\ IsFront(r, p)
                               /\ holder' = grant(r)
                               /\ pos' = [p EXCEPT ![r] = 0]
                               /\ result' = [res EXCEPT ![r] = "granted"]
  <2>1. PICK r \in Requests : /\ IsFront(r, p)
                              /\ holder' = grant(r)
                              /\ pos' = [p EXCEPT ![r] = 0]
                              /\ result' = [res EXCEPT ![r] = "granted"]
    BY <1>2
  <2>2. holder' # None /\ holder'.req = r
    BY <2>1, NoneAssumption, LeaseAssumption DEF grant
  <2>3. result'[r] = "granted"
    BY <2>1 DEF Results
  <2>4. QueueAgrees(pos', n, result')
    BY <2>1 DEF QueueAgrees, Queued, Results
  <2> QED BY <2>2, <2>3, <2>4
<1> QED BY <1>1, <1>2 DEF pump

\* A holder that is not None is a grant.
LEMMA HolderIsGrant ==
    ASSUME TypeOK, holder # None
    PROVE  holder \in [req: Requests, ttl: 0..LeaseMs]
BY DEF TypeOK

LEMMA InitInv == Init => Inv
BY LeaseAssumption DEF Init, Inv, TypeOK, PromisesMatchQueue, NeverIdleWithWaiters, Queued

\* Every operation of the mutex preserves the invariant.
LEMMA NextInv == Inv /\ [Next]_vars => Inv'
<1> SUFFICES ASSUME Inv, [Next]_vars PROVE Inv'
  OBVIOUS
<1> USE DEF Inv
<1>a. /\ holder \in Holders /\ pos \in [Requests -> Nat] /\ arrivals \in Nat
      /\ result \in [Requests -> Results] /\ dead \in SUBSET Pids
  BY DEF TypeOK, Holders, Results
<1>b. QueueAgrees(pos, arrivals, result)
  BY DEF PromisesMatchQueue, QueueAgrees
<1>c. ASSUME pos' \in [Requests -> Nat], holder' \in Holders, arrivals' \in Nat,
             result' \in [Requests -> Results], dead' \in SUBSET Pids,
             QueueAgrees(pos', arrivals', result'),
             holder' # None => result'[holder'.req] = "granted",
             holder' = None => Queued(pos') = {}
      PROVE  Inv'
  BY <1>c DEF TypeOK, PromisesMatchQueue, NeverIdleWithWaiters, QueueAgrees, Holders, Results, Pids
<1>1. ASSUME NEW r \in Requests, acquire(r), UNCHANGED dead PROVE Inv'
  <2> DEFINE h == IF Reclaimable THEN None ELSE holder
             p == [pos EXCEPT ![r] = arrivals + 1]
             res == [result EXCEPT ![r] = "waiting"]
  <2>1. pump(h, p, res) /\ arrivals' = arrivals + 1 /\ result[r] = "unsent"
    BY <1>1 DEF acquire
  <2>2. h \in Holders /\ p \in [Requests -> Nat] /\ res \in [Requests -> Results]
    BY <1>a DEF Holders, Results
  <2>3. QueueAgrees(p, arrivals + 1, res)
    <3>1. \A q \in Requests : (res[q] = "waiting" <=> p[q] > 0) /\ p[q] <= arrivals + 1
      BY <1>a, <1>b DEF QueueAgrees
    <3>2. \A q, u \in Queued(p) : p[q] = p[u] => q = u
      BY <1>a, <1>b DEF QueueAgrees, Queued
    <3> QED BY <3>1, <3>2 DEF QueueAgrees
  <2>4. h # None => res[h.req] = "granted"
    BY <1>a, <2>1 DEF PromisesMatchQueue, Holders
  <2>5. /\ QueueAgrees(pos', arrivals + 1, result')
        /\ holder' # None => result'[holder'.req] = "granted"
        /\ holder' = None => Queued(pos') = {}
    <3> HIDE DEF h, p, res
    <3> QED BY <1>a, <2>1, <2>2, <2>3, <2>4, PumpQueue
  <2>6. holder' \in Holders /\ pos' \in [Requests -> Nat] /\ result' \in [Requests -> Results]
    <3> HIDE DEF h, p, res
    <3> QED BY <2>1, <2>2, PumpType
  <2> QED BY <1>a, <1>c, <1>1, <2>1, <2>5, <2>6
<1>2. ASSUME pump(None, pos, result), UNCHANGED <<arrivals, dead>> PROVE Inv'
  <2>1. None \in Holders
    BY DEF Holders
  <2>2. holder' \in Holders /\ pos' \in [Requests -> Nat] /\ result' \in [Requests -> Results]
    BY <1>a, <1>2, <2>1, PumpType
  <2>3. /\ QueueAgrees(pos', arrivals, result')
        /\ holder' # None => result'[holder'.req] = "granted"
        /\ holder' = None => Queued(pos') = {}
    BY <1>a, <1>b, <1>2, <2>1, PumpQueue
  <2> QED BY <1>a, <1>c, <1>2, <2>2, <2>3
<1>3. ASSUME NEW r \in Requests, renew(r), UNCHANGED dead PROVE Inv'
  <2>1. holder' \in [req: Requests, ttl: 0..LeaseMs] /\ holder'.req = holder.req
    BY <1>3, HolderIsGrant, LeaseAssumption DEF renew, Holds
  <2> QED BY <1>a, <1>b, <1>c, <1>3, <2>1, NoneAssumption
          DEF renew, Holds, Holders, PromisesMatchQueue
<1>4. ASSUME NEW r \in Requests, cancelWaiter(SprintOf[r]), UNCHANGED dead PROVE Inv'
  <2>1. QueueAgrees(pos', arrivals, result')
    BY <1>a, <1>b, <1>4 DEF cancelWaiter, Dropped, QueueAgrees, Queued
  <2>2. pos' \in [Requests -> Nat] /\ result' \in [Requests -> Results]
    BY <1>a, <1>4 DEF cancelWaiter, Results
  <2>3. holder # None => result'[holder.req] = "granted"
    BY <1>a, <1>b, <1>4 DEF cancelWaiter, Dropped, Queued, QueueAgrees, PromisesMatchQueue, Holders
  <2>4. holder = None => Queued(pos') = {}
    BY <1>a, <1>4 DEF cancelWaiter, Queued, NeverIdleWithWaiters
  <2> QED BY <1>a, <1>c, <1>4, <2>1, <2>2, <2>3, <2>4 DEF cancelWaiter
<1>5. ASSUME stop, UNCHANGED dead PROVE Inv'
  <2>1. QueueAgrees(pos', arrivals, result')
    BY <1>a, <1>b, <1>5 DEF stop, QueueAgrees, Queued
  <2>2. pos' \in [Requests -> Nat] /\ result' \in [Requests -> Results]
    BY <1>a, <1>5 DEF stop, Results
  <2>3. holder # None => result'[holder.req] = "granted"
    BY <1>a, <1>b, <1>5 DEF stop, Queued, QueueAgrees, PromisesMatchQueue, Holders
  <2>4. Queued(pos') = {}
    BY <1>5 DEF stop, Queued
  <2> QED BY <1>a, <1>c, <1>5, <2>1, <2>2, <2>3, <2>4 DEF stop
<1>6. ASSUME Tick, UNCHANGED dead PROVE Inv'
  <2>1. holder' \in [req: Requests, ttl: 0..LeaseMs] /\ holder'.req = holder.req
    BY <1>6, HolderIsGrant, LeaseAssumption DEF Tick, LeaseRunsDown
  <2> QED BY <1>a, <1>b, <1>c, <1>6, <2>1, NoneAssumption
          DEF Tick, LeaseRunsDown, Holders, PromisesMatchQueue
<1>7. ASSUME NEW p \in Pids, Exit(p), UNCHANGED mutexVars PROVE Inv'
  BY <1>a, <1>b, <1>c, <1>7 DEF Exit, mutexVars, PromisesMatchQueue, NeverIdleWithWaiters
<1>8. CASE UNCHANGED vars
  BY <1>a, <1>b, <1>c, <1>8 DEF vars, mutexVars, PromisesMatchQueue, NeverIdleWithWaiters
<1> QED BY <1>1, <1>2, <1>3, <1>4, <1>5, <1>6, <1>7, <1>8 DEF Next, release, reclaimExpired

\* Type correctness of the mutex, for any number of callers and any lease.
THEOREM TypeCorrect == Spec => []TypeOK
<1>1. Inv => TypeOK
  BY DEF Inv
<1> QED BY InitInv, NextInv, <1>1, PTL DEF Spec

\* The promises handed to callers always agree with holder and queue.
THEOREM PromisesAlwaysMatch == Spec => []PromisesMatchQueue
<1>1. Inv => PromisesMatchQueue
  BY DEF Inv
<1> QED BY InitInv, NextInv, <1>1, PTL DEF Spec

\* No path of the mutex leaves it free while a caller waits.
THEOREM NeverIdle == Spec => []NeverIdleWithWaiters
<1>1. Inv => NeverIdleWithWaiters
  BY DEF Inv
<1> QED BY InitInv, NextInv, <1>1, PTL DEF Spec

\* pump() grants nobody but the front of the queue it is given.
LEMMA PumpGrants ==
    ASSUME NEW h, NEW p \in [Requests -> Nat], NEW res \in [Requests -> Results],
           pump(h, p, res), NEW r \in Requests, result'[r] = "granted", res[r] # "granted"
    PROVE  IsFront(r, p)
BY DEF pump, Results

\* One step never grants a request ahead of one that queued before it.
LEMMA NextFifo == Inv /\ [Next]_vars => [FifoStep]_vars
<1> SUFFICES ASSUME Inv, Next, NEW r \in Requests,
                    result'[r] = "granted", result[r] # "granted",
                    NEW q \in Queued(pos), r \notin Queued(pos) \/ pos[q] < pos[r]
             PROVE  FALSE
  BY DEF FifoStep
<1>a. /\ pos \in [Requests -> Nat] /\ arrivals \in Nat
      /\ result \in [Requests -> Results]
  BY DEF Inv, TypeOK, Results
<1>b. QueueAgrees(pos, arrivals, result)
  BY DEF Inv, PromisesMatchQueue, QueueAgrees
<1>1. ASSUME NEW u \in Requests, acquire(u) PROVE FALSE
  <2> DEFINE p == [pos EXCEPT ![u] = arrivals + 1]
             res == [result EXCEPT ![u] = "waiting"]
  <2>1. /\ pump(IF Reclaimable THEN None ELSE holder, p, res)
        /\ result[u] = "unsent"
    BY <1>1 DEF acquire
  <2>2. p \in [Requests -> Nat] /\ res \in [Requests -> Results] /\ res[r] # "granted"
    BY <1>a DEF Results
  <2>3. IsFront(r, p)
    <3> HIDE DEF p, res
    <3> QED BY <2>1, <2>2, PumpGrants
  <2>4. q \in Queued(p) /\ p[q] = pos[q] /\ pos[q] <= arrivals
    BY <1>a, <1>b, <2>1 DEF Queued, QueueAgrees
  <2>5. p[r] <= pos[q]
    BY <2>3, <2>4 DEF IsFront
  <2> QED BY <1>a, <2>3, <2>4, <2>5 DEF IsFront, Queued
<1>2. ASSUME pump(None, pos, result) PROVE FALSE
  <2>1. IsFront(r, pos)
    BY <1>a, <1>2, PumpGrants
  <2> QED BY <1>a, <2>1 DEF IsFront, Queued
<1>3. result' # result /\ ~(\E s : cancelWaiter(s)) /\ ~stop
  BY <1>a DEF cancelWaiter, stop, Results
<1> QED
  BY <1>1, <1>2, <1>3
     DEF Next, release, reclaimExpired, renew, Tick, LeaseRunsDown, mutexVars

\* FIFO fairness: a grant never overtakes a request that queued earlier.
THEOREM FifoAlways == Spec => FifoGrants
<1>1. Spec => []Inv
  BY InitInv, NextInv, PTL DEF Spec
<1> QED BY <1>1, NextFifo, PTL DEF Spec, FifoGrants
==============================================================================
