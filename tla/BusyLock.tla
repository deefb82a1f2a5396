------------------------------ MODULE BusyLock ------------------------------
(***************************************************************************)
(* execute_prompt on one member: the busy lock (inFlightAgents), the       *)
(* stored pid, the stall detector's entry, and everything that touches     *)
(* them: concurrent dispatches, the self-heal of a stale lock, retries,    *)
(* client cancels, confirmed stalls, late channel events and stop_prompt.  *)
(*                                                                         *)
(* All of that state is keyed by the member id, so members are independent *)
(* and one is modelled: not local-interactive, with a provider that lets   *)
(* the caller mint session ids and whose log path is known, reached over   *)
(* SSH (a local member's probe is no command; a relayed member has no pid  *)
(* and ignores the abort signal).  Reservations are a pre-check that       *)
(* changes nothing here.                                                   *)
(*                                                                         *)
(* A pid is <<d, n>>: the n-th attempt of dispatch d.  A process may end   *)
(* at any time (Exit), so a kill is just what it does to the stored pid:   *)
(* whether the process then goes is Exit's choice, as kill errors are      *)
(* swallowed.  Timers fire whenever their wait may end.                    *)
(***************************************************************************)
EXTENDS Naturals

CONSTANTS
    Dispatches,    \* execute_prompt calls
    Stops,         \* stop_prompt calls
    Cancellers,    \* dispatches whose MCP client may cancel
    Retriers,      \* those with allowFreshSessionFallback
    MaxAttempts,   \* bound on the attempts of one dispatch
    None

ASSUME AttemptsAssumption == MaxAttempts \in Nat \ {0}
ASSUME CancellersAssumption == Cancellers \subseteq Dispatches
ASSUME RetriersAssumption == Retriers \subseteq Dispatches

VARIABLES
    inFlight,        \* the member is in inFlightAgents
    phase,           \* where each dispatch is
    probed,          \* the pid a dispatch's liveness probe asks about
    attempt,         \* attempts made so far
    cancelled,       \* dispatches whose MCP client cancelled
    clearedByStall,  \* dispatches whose onStall has run
    storedPid,       \* _activePids of the member
    alive,           \* processes running on the member
    channel,         \* each process's exec channel
    entry,           \* stallCheckList of the member
    polled,          \* the entry a stall poll awaits a probe for
    stop,            \* where each stop_prompt call is
    breached         \* history: a step freed a lock that was not its own

vars == <<inFlight, phase, probed, attempt, cancelled, clearedByStall,
          storedPid, alive, channel, entry, polled, stop, breached>>

Pids == Dispatches \X (1..MaxAttempts)

\* What a dispatch awaits: the probe of a lock; preflight and provisioning;
\* the checks under the stall watch; the prompt file and the connection; a
\* retry's kill and connection; the attempt; the handling of its result; the
\* bookkeeping of a landed turn.  "released": terminalMismatchFailure has
\* given the lock back.  Code between two awaits is one step: Node runs it
\* to completion, promise continuations included.
Phases == {"new", "probing", "setup", "staged", "ready", "retry", "running",
           "returned", "landed", "released", "done"}

Claimed == {"setup", "staged", "ready", "retry", "running", "returned",
            "landed"}

\* From stallDetector.add() on.
Watched == Claimed \ {"setup"}

Entries == [dispatch: Dispatches, log: Dispatches, stallReported: BOOLEAN]

TypeOK ==
    /\ inFlight \in BOOLEAN
    /\ phase \in [Dispatches -> Phases]
    /\ probed \in [Dispatches -> Pids \cup {None}]
    /\ attempt \in [Dispatches -> 0..MaxAttempts]
    /\ cancelled \in SUBSET Dispatches
    /\ clearedByStall \in SUBSET Dispatches
    /\ storedPid \in Pids \cup {None}
    /\ alive \in SUBSET Pids
    /\ channel \in [Pids -> {"none", "open", "marked", "closed"}]
    /\ entry \in Entries \cup {None}
    /\ polled \in Entries \cup {None}
    /\ stop \in [Stops -> {"idle", "noPid", "killing", "polling", "done"}]
    /\ breached \in BOOLEAN

Init ==
    /\ inFlight = FALSE
    /\ phase = [d \in Dispatches |-> "new"]
    /\ probed = [d \in Dispatches |-> None]
    /\ attempt = [d \in Dispatches |-> 0]
    /\ cancelled = {}
    /\ clearedByStall = {}
    /\ storedPid = None
    /\ alive = {}
    /\ channel = [p \in Pids |-> "none"]
    /\ entry = None
    /\ polled = None
    /\ stop = [s \in Stops |-> "idle"]
    /\ breached = FALSE

\* d owns the lock as far as its own control flow knows.
Holding(d) == phase[d] \in Claimed /\ d \notin clearedByStall

Goto(d, p) == phase' = [phase EXCEPT ![d] = p]

Aborted == cancelled \cup clearedByStall

\* tryKillPid(): forgets the stored pid, whoever's it is, and kills it.
tryKillPid == storedPid' = None

\* stallDetector.update() with d's session log, on whatever entry is there.
WatchLog(d) == entry' = IF entry = None THEN None
                        ELSE [entry EXCEPT !.log = d]

processVars == <<storedPid, alive, channel>>
callVars == <<probed, attempt, cancelled>>

------------------------------------------------------------------------------
\* Takes the lock before the first await of the set-up.
claim(d) == Goto(d, "setup") /\ inFlight' = TRUE

CallFree(d) ==
    /\ phase[d] = "new"
    /\ ~inFlight
    /\ claim(d)
    /\ UNCHANGED <<callVars, clearedByStall, processVars, entry, polled, stop,
                   breached>>

\* A lock without a stored pid is honoured as it is.
CallBusy(d) ==
    /\ phase[d] = "new"
    /\ inFlight
    /\ storedPid = None
    /\ Goto(d, "done")
    /\ UNCHANGED <<inFlight, callVars, clearedByStall, processVars, entry,
                   polled, stop, breached>>

\* findDeadLockPid() asks whether the stored pid is alive.
CallProbe(d) ==
    /\ phase[d] = "new"
    /\ inFlight
    /\ storedPid # None
    /\ Goto(d, "probing")
    /\ probed' = [probed EXCEPT ![d] = storedPid]
    /\ UNCHANGED <<inFlight, attempt, cancelled, clearedByStall, processVars,
                   entry, polled, stop, breached>>

\* The answers isRemoteProcessAlive() may give: a probe that fails reads as
\* dead.
isRemoteProcessAlive(p) == {FALSE, (p \in alive)}

\* The probe's channel has closed, which clears the stored pid.
ProbeSaysAlive(d) ==
    /\ phase[d] = "probing"
    /\ TRUE \in isRemoteProcessAlive(probed[d])
    /\ Goto(d, "done")
    /\ probed' = [probed EXCEPT ![d] = None]
    /\ storedPid' = None
    /\ UNCHANGED <<inFlight, attempt, cancelled, clearedByStall, alive,
                   channel, entry, polled, stop, breached>>

\* Releases the lock found before the await and its watch, and goes on to
\* claim.  A probe that failed may have left the stored pid alone.
SelfHeal(d) ==
    /\ phase[d] = "probing"
    /\ FALSE \in isRemoteProcessAlive(probed[d])
    /\ claim(d)
    /\ probed' = [probed EXCEPT ![d] = None]
    /\ storedPid' \in {storedPid, None}
    /\ entry' = None
    /\ breached' = TRUE
    /\ UNCHANGED <<attempt, cancelled, clearedByStall, alive, channel, polled,
                   stop>>

------------------------------------------------------------------------------
\* Faulty variants (the names with an underscore, here and below) are slips
\* this code could have; they are used only to test the properties.
SetupRejects_Locked(d) ==
    /\ phase[d] = "setup"
    /\ Goto(d, "done")
    /\ entry' \in {entry, None}
    /\ UNCHANGED <<inFlight, callVars, clearedByStall, processVars, polled,
                   stop, breached>>

\* Preflight says no, or the agy project cannot be provisioned; or the session
\* to resume or fork, or the local agent file, is missing, which is found in
\* the step that adds the watch and takes it away again.
SetupRejects(d) ==
    /\ phase[d] = "setup"
    /\ Goto(d, "done")
    /\ inFlight' = FALSE
    /\ entry' \in {entry, None}
    /\ UNCHANGED <<callVars, clearedByStall, processVars, polled, stop,
                   breached>>

\* stallDetector.add(): from here d is watched, any old entry overwritten.
\* The update() with d's session log follows in the same step.
Watch(d) ==
    /\ phase[d] = "setup"
    /\ Goto(d, "staged")
    /\ entry' = [dispatch |-> d, log |-> d, stallReported |-> FALSE]
    /\ UNCHANGED <<inFlight, callVars, clearedByStall, processVars, polled,
                   stop, breached>>

\* Remote agent file, headroom, budget or secret delivery rejected: the lock
\* and the watch go, also when a stall has already cleared them.
StagedRejects(d) ==
    /\ phase[d] = "staged"
    /\ Goto(d, "done")
    /\ inFlight' = FALSE
    /\ entry' = None
    /\ breached' = (breached \/ d \in clearedByStall)
    /\ UNCHANGED <<callVars, clearedByStall, processVars, polled, stop>>

GuardedThrow_Watched(d) ==
    /\ phase[d] \in {"setup", "staged", "ready"}
    /\ Goto(d, "done")
    /\ inFlight' = (inFlight /\ d \in clearedByStall)
    /\ UNCHANGED <<callVars, clearedByStall, processVars, entry, polled, stop,
                   breached>>

\* Anything thrown under the claim guard, which a stall disarms.
GuardedThrow(d) ==
    /\ phase[d] \in {"setup", "staged", "ready"}
    /\ Goto(d, "done")
    /\ IF d \in clearedByStall
         THEN UNCHANGED <<inFlight, entry>>
         ELSE inFlight' = FALSE /\ entry' = None
    /\ UNCHANGED <<callVars, clearedByStall, processVars, polled, stop,
                   breached>>

\* Kills what an earlier dispatch left behind, then writes the prompt file.
KillLeftover(d) ==
    /\ phase[d] = "staged"
    /\ Goto(d, "ready")
    /\ tryKillPid
    /\ UNCHANGED <<inFlight, callVars, clearedByStall, alive, channel, entry,
                   polled, stop, breached>>

------------------------------------------------------------------------------
finally_Clobbers(d) ==
    /\ Goto(d, "done")
    /\ inFlight' = FALSE
    /\ entry' = None
    /\ breached' = (breached \/ phase[d] = "released")

\* The finally block: the lock goes unless a stall has already cleared it,
\* the watch goes in any case.
finally(d) ==
    /\ Goto(d, "done")
    /\ inFlight' = (inFlight /\ d \in clearedByStall)
    /\ entry' = None
    /\ breached' = (breached \/ phase[d] = "released")

\* dispatchAttempt(): the command runs on the member.  A signal that has
\* already fired ends the dispatch at once, with the command just started.
StartAttempt(d) ==
    LET n == attempt[d] + 1 IN
    /\ phase[d] \in {"ready", "retry"}
    /\ n <= MaxAttempts
    /\ attempt' = [attempt EXCEPT ![d] = n]
    /\ alive' = alive \cup {<<d, n>>}
    /\ channel' = [channel EXCEPT ![<<d, n>>] = "open"]
    /\ \/ /\ d \notin Aborted
          /\ Goto(d, "running")
          /\ UNCHANGED <<inFlight, entry, breached>>
       \/ /\ d \in Aborted
          /\ finally(d)
    /\ UNCHANGED <<probed, cancelled, clearedByStall, storedPid, polled, stop>>

\* The first attempt's exception is retried once, in a fresh session, unless
\* the caller named the session.
retryAfterThrow(d) ==
    /\ attempt'[d] = 1
    /\ MaxAttempts > 1
    /\ d \in Retriers \ Aborted
    /\ Goto(d, "retry")
    /\ tryKillPid
    /\ UNCHANGED <<inFlight, entry, breached>>

\* No budget left or no connection: nothing was started.
AttemptFails(d) ==
    /\ phase[d] \in {"ready", "retry"}
    /\ attempt[d] < MaxAttempts
    /\ attempt' = [attempt EXCEPT ![d] = @ + 1]
    /\ retryAfterThrow(d) \/ (finally(d) /\ UNCHANGED storedPid)
    /\ UNCHANGED <<probed, cancelled, clearedByStall, alive, channel, polled,
                   stop>>

\* An inactivity or max_total_s timer gives the attempt up.  Its channel
\* will still report.
AttemptTimesOut(d) ==
    /\ phase[d] = "running"
    /\ UNCHANGED attempt
    /\ retryAfterThrow(d) \/ (finally(d) /\ UNCHANGED storedPid)
    /\ UNCHANGED <<probed, cancelled, clearedByStall, alive, channel, polled,
                   stop>>

CapturePid_Unparsed(p) ==
    /\ channel[p] = "open"
    /\ channel' = [channel EXCEPT ![p] = "marked"]
    /\ storedPid' = "FLEET_PID"
    /\ WatchLog(p[1])
    /\ UNCHANGED <<inFlight, phase, callVars, clearedByStall, alive, polled,
                   stop, breached>>

\* The FLEET_PID line arrives, perhaps after the attempt was given up.
CapturePid(p) ==
    /\ channel[p] = "open"
    /\ channel' = [channel EXCEPT ![p] = "marked"]
    /\ storedPid' = p
    /\ WatchLog(p[1])
    /\ UNCHANGED <<inFlight, phase, callVars, clearedByStall, alive, polled,
                   stop, breached>>

\* p's attempt is the one its dispatch awaits.
Awaited(p) == phase[p[1]] = "running" /\ attempt[p[1]] = p[2]

\* The channel closes, whether or not the process has ended, perhaps long
\* after its attempt was given up.  The stored pid is cleared whoever's it
\* is.
ChannelCloses(p) ==
    /\ channel[p] \in {"open", "marked"}
    /\ channel' = [channel EXCEPT ![p] = "closed"]
    /\ storedPid' = None
    /\ phase' = IF Awaited(p) THEN [phase EXCEPT ![p[1]] = "returned"]
                ELSE phase
    /\ UNCHANGED <<inFlight, callVars, clearedByStall, alive, entry, polled,
                   stop, breached>>

\* The channel of the awaited attempt fails.
ChannelFails(p) ==
    /\ channel[p] \in {"open", "marked"}
    /\ Awaited(p)
    /\ channel' = [channel EXCEPT ![p] = "closed"]
    /\ UNCHANGED attempt
    /\ storedPid' = None
    /\ retryAfterThrow(p[1]) \/ finally(p[1])
    /\ UNCHANGED <<probed, cancelled, clearedByStall, alive, polled, stop>>

\* Stale session, overloaded server, or healed workspace trust.
RetryAfterResult(d) ==
    /\ phase[d] = "returned"
    /\ d \in Retriers
    /\ attempt[d] < MaxAttempts
    /\ Goto(d, "retry")
    /\ tryKillPid
    /\ UNCHANGED <<inFlight, callVars, clearedByStall, alive, channel, entry,
                   polled, stop, breached>>

\* The turn succeeded: its session is recorded, its pid forgotten.
Land(d) ==
    /\ phase[d] = "returned"
    /\ Goto(d, "landed")
    /\ storedPid' = None
    /\ WatchLog(d)
    /\ UNCHANGED <<inFlight, callVars, clearedByStall, alive, channel, polled,
                   stop, breached>>

\* terminalMismatchFailure(): gives everything back, then records usage.
MismatchFails(d) ==
    /\ phase[d] = "returned"
    /\ Goto(d, "released")
    /\ inFlight' = FALSE
    /\ entry' = None
    /\ storedPid' = None
    /\ breached' = (breached \/ d \in clearedByStall)
    /\ UNCHANGED <<callVars, clearedByStall, alive, channel, polled, stop>>

\* The dispatch returns: with its result, or with what became of it.
Return(d) ==
    /\ phase[d] \in {"returned", "landed", "released"}
    /\ finally(d)
    /\ UNCHANGED <<callVars, clearedByStall, processVars, polled, stop>>

------------------------------------------------------------------------------
\* The MCP client cancels.  abortHandler is installed before the first
\* attempt connects and removed by the finally block; an awaited attempt is rejected,
\* which ends the dispatch.
Cancel(d) ==
    /\ phase[d] \in Claimed \cup {"released"}
    /\ d \in Cancellers \ cancelled
    /\ cancelled' = cancelled \cup {d}
    /\ \/ /\ phase[d] = "running"
          /\ tryKillPid
          /\ finally(d)
       \/ /\ phase[d] # "running"
          /\ \/ phase[d] \in {"setup", "staged", "ready"}
                /\ UNCHANGED storedPid
             \/ phase[d] \notin {"setup", "staged"}
                /\ tryKillPid
          /\ UNCHANGED <<inFlight, phase, entry, breached>>
    /\ UNCHANGED <<probed, attempt, clearedByStall, alive, channel, polled,
                   stop>>

\* The channel of any other command the server runs on the member closes: a
\* set-up check, a kill, a log poll of the stall detector, a clean-up, or
\* another tool's.  It clears the stored pid, as every channel does.
CommandCloses ==
    /\ storedPid # None
    /\ storedPid' = None
    /\ UNCHANGED <<inFlight, phase, callVars, clearedByStall, alive, channel,
                   entry, polled, stop, breached>>

\* A process of the member ends, by itself or killed.
Exit(p) ==
    /\ p \in alive
    /\ alive' = alive \ {p}
    /\ UNCHANGED <<inFlight, phase, callVars, clearedByStall, storedPid,
                   channel, entry, polled, stop, breached>>

------------------------------------------------------------------------------
\* _poll() takes the entry and awaits a probe of the member.
PollStarts ==
    /\ polled = None
    /\ entry # None
    /\ polled' = entry
    /\ UNCHANGED <<inFlight, phase, callVars, clearedByStall, processVars,
                   entry, stop, breached>>

isStale_Never == FALSE

\* The entry was removed or replaced during the await.  (The code compares
\* objects: there, an update that changes nothing also makes a result stale.)
isStale == polled # entry

\* The result is stale, or no stall is due; activity in the log re-arms a
\* reported entry.
PollPasses ==
    /\ polled # None
    /\ polled' = None
    /\ \/ UNCHANGED entry
       \/ /\ ~isStale
          /\ entry # None
          /\ entry' = [entry EXCEPT !.stallReported = FALSE]
    /\ UNCHANGED <<inFlight, phase, callVars, clearedByStall, processVars,
                   stop, breached>>

\* onStall(): frees the lock, kills the stored pid and aborts.  An awaited
\* attempt is rejected, which ends the dispatch: its finally block leaves the
\* lock alone and drops the watch.
onStall(d) ==
    /\ inFlight' = FALSE
    /\ clearedByStall' = clearedByStall \cup {d}
    /\ tryKillPid
    /\ breached' = (breached \/ d \in clearedByStall)
    /\ IF phase[d] = "running"
         THEN Goto(d, "done") /\ entry' = None
         ELSE /\ UNCHANGED phase
              /\ entry' = IF entry = None THEN None
                          ELSE [entry EXCEPT !.stallReported = TRUE]

PollStalls ==
    /\ polled # None
    /\ ~isStale
    /\ ~polled.stallReported
    /\ polled' = None
    /\ onStall(polled.dispatch)
    /\ UNCHANGED <<callVars, alive, channel, stop>>

------------------------------------------------------------------------------
\* stop_prompt kills the stored pid, if there is one.
StopKills(s) ==
    /\ stop[s] = "idle"
    /\ stop' = [stop EXCEPT ![s] = IF storedPid = None THEN "noPid"
                                   ELSE "killing"]
    /\ tryKillPid
    /\ UNCHANGED <<inFlight, phase, callVars, clearedByStall, alive, channel,
                   entry, polled, breached>>

\* A killed dispatch gets two seconds to clean up after itself.
StopWaits(s) ==
    /\ stop[s] = "killing"
    /\ stop' = [stop EXCEPT ![s] = "polling"]
    /\ entry' = None
    /\ UNCHANGED <<inFlight, phase, callVars, clearedByStall, processVars,
                   polled, breached>>

\* Then, or at once without a pid, the busy state is cleared unconditionally.
StopClears(s) ==
    /\ stop[s] \in {"noPid", "polling"}
    /\ stop' = [stop EXCEPT ![s] = "done"]
    /\ inFlight' = FALSE
    /\ entry' = IF stop[s] = "noPid" THEN None ELSE entry
    /\ breached' = (breached \/ inFlight)
    /\ UNCHANGED <<phase, callVars, clearedByStall, processVars, polled>>

------------------------------------------------------------------------------
DispatchStep(d) ==
    \/ CallFree(d) \/ CallBusy(d) \/ CallProbe(d)
    \/ ProbeSaysAlive(d) \/ SelfHeal(d)
    \/ SetupRejects(d) \/ Watch(d) \/ StagedRejects(d) \/ GuardedThrow(d)
    \/ KillLeftover(d) \/ StartAttempt(d) \/ AttemptFails(d)
    \/ AttemptTimesOut(d) \/ RetryAfterResult(d)
    \/ Land(d) \/ MismatchFails(d) \/ Return(d)

Next ==
    \/ \E d \in Dispatches : DispatchStep(d) \/ Cancel(d)
    \/ \E p \in Pids : \/ CapturePid(p) \/ ChannelCloses(p)
                       \/ ChannelFails(p) \/ Exit(p)
    \/ CommandCloses
    \/ PollStarts \/ PollPasses \/ PollStalls
    \/ \E s \in Stops : StopKills(s) \/ StopWaits(s) \/ StopClears(s)

Spec == Init /\ [][Next]_vars

\* Every await of a dispatch has a timeout, so a dispatch once called keeps
\* moving.  Nothing is assumed of processes, channels, clients or the stall
\* detector.
LiveSpec ==
    Spec /\ \A d \in Dispatches : WF_vars(phase[d] # "new" /\ DispatchStep(d))

------------------------------------------------------------------------------
\* A busy member has a dispatch that will free it: no mix of rejections,
\* exceptions, stalls, stops and self-heals strands the lock (the exit paths
\* (a) to (h) listed above findDeadLockPid in execute-prompt.ts).
LockHasOwner == inFlight => \E d \in Dispatches : Holding(d)

\* Two dispatches never own the member at once, unless a self-heal, a
\* stop_prompt, the rejection or second stall of a dispatch a stall has
\* already cleared, or the second release of a mismatched session has freed
\* a lock that was not its own.  Stalls followed by late returns are not
\* among these exceptions (clearedByStall).
ExclusiveUnlessBreached ==
    ~breached => \A d, e \in Dispatches : Holding(d) /\ Holding(e) => d = e

\* The stall entry of a dispatch that has not stalled yet is gone once the
\* dispatch is: every exit path of execute_prompt takes its watch along.  (A
\* throw after a stall leaves the reported entry behind.)
WatchHasOwner ==
    entry # None /\ entry.dispatch \notin clearedByStall =>
        phase[entry.dispatch] \in Watched

\* A stall is declared only of a dispatch that is under way, although the
\* probe behind the verdict was awaited (isStale in stall-detector.ts).
StallHitsTheWatched ==
    [][\A d \in clearedByStall' \ clearedByStall : phase[d] \in Watched]_vars

\* The member does not stay busy for ever.
LockFreed == inFlight ~> ~inFlight
==============================================================================
