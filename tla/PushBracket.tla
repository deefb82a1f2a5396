----------------------------- MODULE PushBracket -----------------------------
(***************************************************************************)
(* The dolt push mutex in the supervisor topology: sprint processes bracket*)
(* each `bd dolt push` with acquire / renew / release over HTTP            *)
(* (doltPushAfter in dolt-sync.mjs, createHttpDoltPushMutexClient in       *)
(* coordination.mjs), the supervisor serves the three routes               *)
(* (registerDoltMutexRoutes in dolt-mutex.mjs) and may restart, which      *)
(* loses the mutex it keeps in memory only.                                *)
(*                                                                         *)
(* A request is one doltPushAfter() bracket.  Everything the bracket runs  *)
(* on the member between acquire and release (push, reconcile pull, settle)*)
(* is one command that starts when the grant arrives and ends some time    *)
(* later; it keeps running on the member if the sprint process dies.       *)
(***************************************************************************)
EXTENDS DoltMutex

CONSTANTS
    RenewMs,      \* renewIntervalMs, in ticks
    MaxRestarts   \* bound on supervisor restarts

ASSUME RenewAssumption == RenewMs \in Nat \ {0} /\ MaxRestarts \in Nat

VARIABLES
    phase,     \* where the bracket is in doltPushAfter()
    conn,      \* the acquire route's request/response pair
    cmd,       \* the push command is running on the member
    timer,     \* ticks until renewTimer fires
    slip,      \* how far renewal has slipped: ticks the grant spent on the
               \* way, plus RenewMs for each renewal in a row that missed
    up,        \* the supervisor is running
    restarts

bracketVars == <<phase, conn, cmd, timer, slip>>
allVars == <<vars, bracketVars, up, restarts>>

BracketTypeOK ==
    /\ TypeOK
    /\ phase \in [Requests -> {"idle", "posting", "pushing", "releasing", "done"}]
    /\ conn \in [Requests -> {"none", "sent", "open", "gone", "ended"}]
    /\ cmd \in [Requests -> BOOLEAN]
    /\ timer \in [Requests -> 0..RenewMs]
    /\ slip \in [Requests -> 0..LeaseMs]
    /\ up \in BOOLEAN
    /\ restarts \in 0..MaxRestarts

BracketInit ==
    /\ Init
    /\ phase = [r \in Requests |-> "idle"]
    /\ conn = [r \in Requests |-> "none"]
    /\ cmd = [r \in Requests |-> FALSE]
    /\ timer = [r \in Requests |-> RenewMs]
    /\ slip = [r \in Requests |-> 0]
    /\ up = TRUE
    /\ restarts = 0

Capped(n) == IF n > LeaseMs THEN LeaseMs ELSE n

Renewing(r) == Alive(r) /\ phase[r] = "pushing"

\* A grant whose route handler has not resumed yet.  The handler resumes
\* in the microtask after the grant: no other event comes in between.
Settling == \E r \in Requests : result[r] = "granted" /\ conn[r] \in {"open", "gone"}

\* The supervisor can run an event handler.
Serving == up /\ ~Settling

------------------------------------------------------------------------------
\* mutex.acquire(): the bracket POSTs and waits; a supervisor that is down
\* refuses the connection and the bracket throws.
PostAcquire(r) ==
    /\ Alive(r) /\ phase[r] = "idle"
    /\ \/ /\ up
          /\ phase' = [phase EXCEPT ![r] = "posting"]
          /\ conn' = [conn EXCEPT ![r] = "sent"]
       \/ /\ ~up
          /\ phase' = [phase EXCEPT ![r] = "done"]
          /\ UNCHANGED conn
    /\ UNCHANGED <<vars, cmd, timer, slip, up, restarts>>

\* The acquire route: register the close listener, queue the request.  A
\* client that left while the body was being read is queued all the same.
ServeAcquire(r) ==
    /\ Serving /\ conn[r] \in {"sent", "gone"}
    /\ acquire(r)
    /\ conn' = [conn EXCEPT ![r] = IF @ = "sent" THEN "open" ELSE @]
    /\ UNCHANGED <<dead, phase, cmd, timer, slip, up, restarts>>

\* The route resumes with a grant: answer, or release it if nobody is there.
AnswerGrant(r) ==
    /\ up /\ result[r] = "granted"
    /\ \/ conn[r] = "open" /\ UNCHANGED mutexVars
       \/ conn[r] = "gone" /\ (release(r) \/ Refused(r))
    /\ conn' = [conn EXCEPT ![r] = "ended"]
    /\ UNCHANGED <<dead, phase, cmd, timer, slip, up, restarts>>

\* The client's fetch fails (timeout, reset) and the bracket throws.
FetchFails(r) ==
    /\ Alive(r) /\ phase[r] = "posting"
    /\ phase' = [phase EXCEPT ![r] = "done"]
    /\ UNCHANGED <<vars, conn, cmd, timer, slip, up, restarts>>

\* res 'close' before the answer: cancelWaiter(sprintId).  Before the route
\* has registered its listener the event is missed.
HangUp(r) ==
    /\ Serving
    /\ ~Alive(r) \/ phase[r] = "done"
    /\ \/ conn[r] = "sent" /\ UNCHANGED mutexVars
       \/ conn[r] = "open" /\ cancelWaiter(SprintOf[r])
    /\ conn' = [conn EXCEPT ![r] = "gone"]
    /\ UNCHANGED <<dead, phase, cmd, timer, slip, up, restarts>>

\* The answer arrives: { error } makes the bracket throw, a grant starts the
\* renew timer and the push.
ReceiveAnswer(r) ==
    /\ Alive(r) /\ phase[r] = "posting"
    /\ \/ /\ result[r] = "rejected"
          /\ phase' = [phase EXCEPT ![r] = "done"]
          /\ conn' = [conn EXCEPT ![r] = "ended"]
          /\ UNCHANGED <<cmd, timer>>
       \/ /\ result[r] = "granted" /\ conn[r] = "ended"
          /\ phase' = [phase EXCEPT ![r] = "pushing"]
          /\ cmd' = [cmd EXCEPT ![r] = TRUE]
          /\ timer' = [timer EXCEPT ![r] = RenewMs]
          /\ UNCHANGED conn
    /\ UNCHANGED <<vars, slip, up, restarts>>

\* renewTimer fires: the call lands and extends the lease, or it is refused,
\* or it never reaches the supervisor.  The bracket only logs the last two.
Renew(r) ==
    /\ Renewing(r) /\ timer[r] = 0
    /\ timer' = [timer EXCEPT ![r] = RenewMs]
    /\ \/ /\ Serving /\ renew(r)
          /\ slip' = [slip EXCEPT ![r] = 0]
       \/ /\ (Serving /\ Refused(r)) \/ UNCHANGED mutexVars
          /\ slip' = [slip EXCEPT ![r] = Capped(@ + RenewMs)]
    /\ UNCHANGED <<dead, phase, conn, cmd, up, restarts>>

\* The command ends (its own timeout bounds it); the bracket, if its process
\* lives, clears renewTimer and goes on to release.  A lock-held step, where
\* the bracket returns to its caller while the command still runs, keeps the
\* mutex and its renewal until this same point.
CommandEnds(r) ==
    /\ cmd[r]
    /\ cmd' = [cmd EXCEPT ![r] = FALSE]
    /\ phase' = [phase EXCEPT ![r] = IF Alive(r) THEN "releasing" ELSE @]
    /\ timer' = [timer EXCEPT ![r] = RenewMs]
    /\ slip' = [slip EXCEPT ![r] = 0]
    /\ UNCHANGED <<vars, conn, up, restarts>>

\* releaseMutex(): the call lands or is lost; the bracket is over either way.
ReleaseMutex(r) ==
    /\ Alive(r) /\ phase[r] = "releasing"
    /\ phase' = [phase EXCEPT ![r] = "done"]
    /\ (Serving /\ (release(r) \/ Refused(r))) \/ UNCHANGED mutexVars
    /\ UNCHANGED <<dead, conn, cmd, timer, slip, up, restarts>>

Sweep ==
    /\ Serving
    /\ reclaimExpired
    /\ UNCHANGED <<dead, bracketVars, up, restarts>>

\* One tick; no renewTimer of a running bracket is left unfired.
TimePasses ==
    /\ \A r \in Requests : Renewing(r) => timer[r] > 0
    /\ LeaseRunsDown
    /\ timer' = [r \in Requests |-> IF Renewing(r) THEN timer[r] - 1 ELSE timer[r]]
    /\ slip' = [r \in Requests |->
                  IF Alive(r) /\ phase[r] = "posting" /\ result[r] = "granted"
                  THEN Capped(slip[r] + 1) ELSE slip[r]]
    /\ UNCHANGED <<dead, phase, conn, cmd, up, restarts>>

\* A sprint process dies, its timers with it; commands on members run on.
ProcessDies(p) ==
    /\ Exit(p)
    /\ timer' = [r \in Requests |-> IF PidOf[r] = p THEN RenewMs ELSE timer[r]]
    /\ slip' = [r \in Requests |-> IF PidOf[r] = p THEN 0 ELSE slip[r]]
    /\ UNCHANGED <<mutexVars, phase, conn, cmd, up, restarts>>

\* The supervisor process ends (stop() or a crash): holder and queue are
\* gone, every unanswered acquire fails.
SupervisorEnds ==
    /\ up /\ restarts < MaxRestarts
    /\ up' = FALSE
    /\ restarts' = restarts + 1
    /\ holder' = None
    /\ pos' = [r \in Requests |-> 0]
    /\ result' = [r \in Requests |->
                    IF result[r] = "waiting" \/ conn[r] \in {"sent", "open", "gone"}
                    THEN "rejected" ELSE result[r]]
    /\ UNCHANGED <<arrivals, dead, bracketVars>>

SupervisorStarts ==
    /\ ~up
    /\ up' = TRUE
    /\ UNCHANGED <<vars, bracketVars, restarts>>

Step(r) ==
    \/ PostAcquire(r) \/ ServeAcquire(r) \/ AnswerGrant(r) \/ FetchFails(r)
    \/ HangUp(r) \/ ReceiveAnswer(r) \/ Renew(r)
    \/ CommandEnds(r) \/ ReleaseMutex(r)

BracketNext ==
    \/ \E r \in Requests : Step(r)
    \/ Sweep \/ TimePasses
    \/ \E p \in Pids : ProcessDies(p)
    \/ SupervisorEnds \/ SupervisorStarts

\* Event handlers run, answers arrive, timers fire, commands end (each has a
\* command timeout) and time passes.  Nobody is obliged to POST, die or restart.
Fairness ==
    /\ WF_allVars(Sweep)
    /\ WF_allVars(TimePasses)
    /\ \A r \in Requests :
          /\ WF_allVars(ServeAcquire(r)) /\ WF_allVars(AnswerGrant(r))
          /\ WF_allVars(HangUp(r)) /\ WF_allVars(ReceiveAnswer(r))
          /\ WF_allVars(Renew(r)) /\ WF_allVars(CommandEnds(r))
          /\ WF_allVars(ReleaseMutex(r))

BracketSpec == BracketInit /\ [][BracketNext]_allVars /\ Fairness

------------------------------------------------------------------------------
\* The lease of a bracket whose process lives has not been able to run out:
\* the grant arrived and renewals landed often enough.
Timely(r) == Alive(r) /\ slip[r] + RenewMs < LeaseMs

\* A bracket that renews in time keeps the mutex for as long as its command
\* runs, whatever other sprints, their late releases and renewals, hang-ups
\* and the sweep do (the LEASE RENEWAL comment of doltPushAfter), as long as
\* the supervisor process lives.
TimelyRenewalKeepsMutex ==
    restarts = 0 => \A r \in Requests : cmd[r] /\ Timely(r) => Holds(r)

\* Two sprints never execute a dolt push at the same time unless one of them
\* died or let its lease lapse (the header of dolt-mutex.mjs).
TimelyPushesNeverOverlap ==
    \A q, r \in Requests :
       cmd[q] /\ cmd[r] /\ SprintOf[q] # SprintOf[r] => ~Timely(q) \/ ~Timely(r)

\* Every acquire a living bracket has sent is eventually answered: the queue
\* moves on past dead, silent and hung-up holders.
AcquireAnswered ==
    \A r \in Requests : phase[r] = "posting" ~> (phase[r] # "posting" \/ ~Alive(r))

\* A bracket that is over, or whose process died, does not keep the mutex:
\* a lost release or a crash is made good by the lease or the pid probe.
MutexNeverWedged ==
    \A r \in Requests : (Holds(r) /\ (phase[r] = "done" \/ ~Alive(r))) ~> ~Holds(r)
==============================================================================
