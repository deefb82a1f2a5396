---------------------------- MODULE PauseResume ----------------------------
(***************************************************************************)
(* The cooperative pause of a sprint: the engine's pause gate and resume   *)
(* barrier (packages/apra-fleet-workflow/src/workflow/index.mjs), the open *)
(* sync bracket guard (fleet-sprint/git-sync.mjs), the usage-limit         *)
(* controller that pauses and resumes by itself                            *)
(* (usage-limit-controller.mjs), the hand-back and re-reservation of the   *)
(* members around a pause (bin/cli.mjs, coordination.mjs) and the fleet    *)
(* server's member_reservation tool.                                       *)
(*                                                                         *)
(* One step is one turn of the event loop with its microtasks: what runs   *)
(* between two answers of the network or two timers.                       *)
(***************************************************************************)
EXTENDS Naturals, Sequences, FiniteSets

CONSTANTS
    Branches,       \* concurrent strands of the sprint script
    Limited,        \* branches whose role is armed with usageLimitPause
    MemberList,     \* the sprint's members, in the order the loops visit them
    Contended,      \* the members that another sprint wants too
    Operator,       \* the dashboard's /pause, /resume and /stop
    This,           \* the sprint id of the modelled sprint
    Other,          \* another sprint that wants the same members
    None,
    MaxCalls,       \* bound: agent()/command() calls of one branch
    MaxPauses,      \* bound: pauses that are requested
    MaxLimits,      \* bound: usage-limit answers of the provider
    MaxFaults       \* bound: reservation calls whose answer is an error

Members == {MemberList[i] : i \in DOMAIN MemberList}
Resumers == Limited \cup {Operator}
Steps == {"none", "reserve", "handback", "resync"}

ASSUME PauseConstants ==
    /\ MemberList \in Seq(Members)
    /\ MemberList # << >> /\ Contended \subseteq Members
    /\ IsFiniteSet(Branches) /\ Limited \subseteq Branches
    /\ Operator \notin Branches
    /\ This # Other /\ This # None /\ Other # None
    /\ MaxCalls \in Nat /\ MaxPauses \in Nat /\ MaxLimits \in Nat /\ MaxFaults \in Nat

VARIABLES
    pauseRequested, \* _pauseRequested
    paused,         \* _paused
    stopped,        \* the runs' AbortControllers are aborted
    at,             \* branch -> where it is: running script code, blocked at the
                    \*   gate, in flight, asleep in the usage-limit controller,
                    \*   awaiting requestResume(), finished
    probing,        \* branch -> its call is the controller's re-probe
    bracket,        \* branch -> "none", "open" (no call has gone out yet) or "mid"
    calls,          \* branch -> calls made
    hook,           \* resumer -> the pre-resume hook it awaits
    handback,       \* pause number -> next index of its release loop, 0 before it
    reservedBy,     \* member -> sprint id (agent.reservedBy on the fleet server)
    late,           \* ghost: members this sprint handed back although a resume had
                    \*   already re-reserved them or the run was not paused
    pauses, limits, faults

engine == <<pauseRequested, paused, stopped>>
script == <<at, probing, bracket, calls>>
vars == <<engine, script, hook, handback, reservedBy, late, pauses, limits, faults>>

NoHook == [step |-> "none", i |-> 1, got |-> {}, missing |-> {}]

TypeOK ==
    /\ pauseRequested \in BOOLEAN /\ paused \in BOOLEAN /\ stopped \in BOOLEAN
    /\ at \in [Branches -> {"script", "gate", "flight", "asleep", "resuming", "done"}]
    /\ probing \in [Branches -> BOOLEAN]
    /\ bracket \in [Branches -> {"none", "open", "mid"}]
    /\ calls \in [Branches -> 0..MaxCalls]
    /\ hook \in [Resumers -> [step : Steps, i : 1..(Len(MemberList) + 1),
                              got : SUBSET Members, missing : SUBSET Members]]
    /\ handback \in [1..MaxPauses -> 0..(Len(MemberList) + 1)]
    /\ reservedBy \in [Members -> {None, This, Other}]
    /\ late \in SUBSET Members
    /\ pauses \in 0..MaxPauses /\ limits \in 0..MaxLimits /\ faults \in 0..MaxFaults

(* The members were reserved before the script started (reserveForLaunch). *)
Init ==
    /\ pauseRequested = FALSE /\ paused = FALSE /\ stopped = FALSE
    /\ at = [b \in Branches |-> "script"]
    /\ probing = [b \in Branches |-> FALSE]
    /\ bracket = [b \in Branches |-> "none"]
    /\ calls = [b \in Branches |-> 0]
    /\ hook = [w \in Resumers |-> NoHook]
    /\ handback = [k \in 1..MaxPauses |-> 0]
    /\ reservedBy = [m \in Members |-> This]
    /\ late = {}
    /\ pauses = 0 /\ limits = 0 /\ faults = 0

----------------------------------------------------------------------------
(* The engine's pause primitive. *)

(* Mutant: the engine's own zero-in-flight test without the script's guard. *)
AtBoundaryUnguarded(where, open) == \A b \in Branches : where[b] # "flight"

(* A requested pause may take effect: nothing in flight, no open bracket. *)
AtBoundary(where, open) ==
    /\ \A b \in Branches : where[b] # "flight"
    /\ \A b \in Branches : open[b] = "none"

(* _maybeEngagePause() at the end of a step that leaves the branches at
   `where' with the brackets `open': 'paused' starts one release loop. *)
maybeEngagePause(requested, count, where, open) ==
    /\ paused' = (paused \/ (requested /\ AtBoundary(where, open)))
    /\ handback' = IF paused' /\ ~paused THEN [handback EXCEPT ![count] = 1] ELSE handback

(* requestPause() followed by its _maybeEngagePause(). *)
requestPause(where, open) ==
    IF paused \/ pauseRequested
    THEN /\ UNCHANGED <<pauseRequested, pauses>>
         /\ maybeEngagePause(pauseRequested, pauses, where, open)
    ELSE /\ pauses < MaxPauses
         /\ pauses' = pauses + 1
         /\ pauseRequested' = TRUE
         /\ maybeEngagePause(TRUE, pauses + 1, where, open)

(* The gate lets a call through unless the pause is engaged, possibly by this
   very arrival; the call of a stopped run is refused by its abort signal. *)
Admit == IF stopped THEN "done" ELSE "flight"

OpenBracket(b) ==
    /\ at[b] = "script" /\ bracket[b] = "none" /\ calls[b] < MaxCalls
    /\ bracket' = [bracket EXCEPT ![b] = "open"]
    /\ UNCHANGED <<engine, at, probing, calls, hook, handback, reservedBy, late, pauses, limits, faults>>

(* Mutant: closing the last bracket does not make the engine look again. *)
CloseBracketSilent(b) ==
    /\ at[b] = "script" /\ bracket[b] = "mid"
    /\ bracket' = [bracket EXCEPT ![b] = "none"]
    /\ UNCHANGED <<engine, at, probing, calls, hook, handback, reservedBy, late, pauses, limits, faults>>

(* withOpenSyncBracket's finally: the last close re-registers the guard, which
   lets a deferred pause engage. A bracket makes at least one call. The error
   of a close that crosses another bracket of its exclusiveKey is left out: that
   other bracket is still open, so nothing engages, and only the script sees it. *)
CloseBracket(b) ==
    /\ at[b] = "script" /\ bracket[b] = "mid"
    /\ bracket' = [bracket EXCEPT ![b] = "none"]
    /\ maybeEngagePause(pauseRequested, pauses, at, bracket')
    /\ UNCHANGED <<pauseRequested, stopped, at, probing, calls, hook, reservedBy, late, pauses, limits, faults>>

(* agent()/command(): the gate, then _enterActivity(). *)
Call(b) ==
    LET blocked == paused \/ (pauseRequested /\ AtBoundary(at, bracket))
    IN  /\ at[b] = "script" /\ calls[b] < MaxCalls
        /\ calls' = [calls EXCEPT ![b] = @ + 1]
        /\ at' = [at EXCEPT ![b] = IF blocked THEN "gate" ELSE Admit]
        /\ bracket' = [bracket EXCEPT ![b] = IF at'[b] = "done" THEN "none" ELSE @]
        /\ maybeEngagePause(pauseRequested, pauses, at', bracket')
        /\ UNCHANGED <<pauseRequested, stopped, probing, hook, reservedBy, late, pauses, limits, faults>>

(* A call settles: _exitActivity() may complete a deferred pause. An aborted
   call unwinds the branch and with it the branch's bracket. A re-probe that
   answers, or fails for another reason than the limit, ends the controller. *)
Settle(b) ==
    /\ at[b] = "flight"
    /\ at' = [at EXCEPT ![b] = IF stopped THEN "done" ELSE "script"]
    /\ bracket' = [bracket EXCEPT ![b] = IF stopped \/ @ = "none" THEN "none" ELSE "mid"]
    /\ probing' = [probing EXCEPT ![b] = FALSE]
    /\ maybeEngagePause(pauseRequested, pauses, at', bracket')
    /\ UNCHANGED <<pauseRequested, stopped, calls, hook, reservedBy, late, pauses, limits, faults>>

(* The branch has no more work. *)
Return(b) ==
    /\ at[b] = "script" /\ bracket[b] = "none"
    /\ at' = [at EXCEPT ![b] = "done"]
    /\ UNCHANGED <<engine, probing, bracket, calls, hook, handback, reservedBy, late, pauses, limits, faults>>

----------------------------------------------------------------------------
(* The usage-limit controller, onUsageLimit(). *)

(* The provider answers a call with its usage limit: the bracket skips its push
   and closes, the controller requests a pause and goes to sleep. *)
HitLimit(b) ==
    /\ at[b] = "flight" /\ b \in Limited /\ ~stopped /\ limits < MaxLimits
    /\ limits' = limits + 1
    /\ at' = [at EXCEPT ![b] = "asleep"]
    /\ bracket' = [bracket EXCEPT ![b] = "none"]
    /\ probing' = [probing EXCEPT ![b] = FALSE]
    /\ requestPause(at', bracket')
    /\ UNCHANGED <<stopped, calls, hook, reservedBy, late, faults>>

(* A re-probe meets the limit with the wait budget spent: the branch fails. *)
GiveUp(b) ==
    /\ at[b] = "flight" /\ probing[b] /\ ~stopped /\ limits > 0
    /\ at' = [at EXCEPT ![b] = "done"]
    /\ probing' = [probing EXCEPT ![b] = FALSE]
    /\ maybeEngagePause(pauseRequested, pauses, at', bracket)
    /\ UNCHANGED <<pauseRequested, stopped, bracket, calls, hook, reservedBy, late, pauses, limits, faults>>

(* Mutant: the loop over the members starts one too early. *)
startHookZero(w) == hook' = [hook EXCEPT ![w] = [NoHook EXCEPT !.step = "reserve", !.i = 0]]

(* requestResume(): a no-op unless a pause is engaged or requested, else the
   pre-resume hook starts. *)
Parked == paused \/ pauseRequested
startHook(w) == hook' = [hook EXCEPT ![w] = [NoHook EXCEPT !.step = "reserve"]]

(* The sleep ends: resume, or straight to the re-probe if somebody else has. *)
Wake(b) ==
    /\ b \in Limited /\ at[b] = "asleep"
    /\ IF Parked
       THEN /\ startHook(b)
            /\ at' = [at EXCEPT ![b] = "resuming"]
            /\ UNCHANGED probing
       ELSE /\ at' = [at EXCEPT ![b] = Admit]
            /\ probing' = [probing EXCEPT ![b] = TRUE]
            /\ UNCHANGED hook
    /\ UNCHANGED <<engine, bracket, calls, handback, reservedBy, late, pauses, limits, faults>>

----------------------------------------------------------------------------
(* The dashboard's endpoints. *)

OperatorPause ==
    /\ ~Parked
    /\ requestPause(at, bracket)
    /\ UNCHANGED <<stopped, script, hook, reservedBy, late, limits, faults>>

OperatorResume ==
    /\ Parked /\ hook[Operator].step = "none"
    /\ startHook(Operator)
    /\ UNCHANGED <<engine, script, handback, reservedBy, late, pauses, limits, faults>>

(* requestStop(): a stop supersedes a pause; the calls at the gate reject and
   unwind their branches. *)
OperatorStop ==
    /\ ~stopped
    /\ stopped' = TRUE /\ paused' = FALSE /\ pauseRequested' = FALSE
    /\ at' = [b \in Branches |-> IF at[b] = "gate" THEN "done" ELSE at[b]]
    /\ bracket' = [b \in Branches |-> IF at[b] = "gate" THEN "none" ELSE bracket[b]]
    /\ UNCHANGED <<probing, calls, hook, handback, reservedBy, late, pauses, limits, faults>>

----------------------------------------------------------------------------
(* member_reservation on the fleet server. *)

Free(m) == reservedBy[m] \in {None, This}
reserve(m) ==
    /\ reservedBy' = [reservedBy EXCEPT ![m] = This]
    /\ late' = late \ {m}

(* Somebody counts on the member: the run is not parked, or a resume has
   re-reserved it and not failed. *)
Wanted(m) == ~paused \/ \E w \in Resumers : m \in hook[w].got /\ hook[w].step # "handback"

(* Only the owner's reservation is removed. *)
release(m) ==
    /\ reservedBy' = [reservedBy EXCEPT ![m] = IF @ = This THEN None ELSE @]
    /\ late' = IF reservedBy[m] = This /\ Wanted(m) THEN late \cup {m} ELSE late

Fault == faults < MaxFaults /\ faults' = faults + 1

(* The 'paused' listener's un-awaited loop over the members. *)
ReleaseNext(k) ==
    /\ handback[k] \in DOMAIN MemberList
    /\ handback' = [handback EXCEPT ![k] = @ + 1]
    /\ \/ release(MemberList[handback[k]]) /\ UNCHANGED faults
       \/ Fault /\ UNCHANGED <<reservedBy, late>>
    /\ UNCHANGED <<engine, script, hook, pauses, limits>>

OtherReserve(m) ==
    /\ reservedBy[m] = None
    /\ reservedBy' = [reservedBy EXCEPT ![m] = Other]
    /\ UNCHANGED <<engine, script, hook, handback, late, pauses, limits, faults>>

OtherRelease(m) ==
    /\ reservedBy[m] = Other
    /\ reservedBy' = [reservedBy EXCEPT ![m] = None]
    /\ UNCHANGED <<engine, script, hook, handback, late, pauses, limits, faults>>

----------------------------------------------------------------------------
(* The pre-resume hook: reReserveForResume(). *)

(* Mutant: unavailable members are logged and the resume goes on. *)
nextStepSwallow(h) ==
    IF h.i <= Len(MemberList) THEN h ELSE [h EXCEPT !.step = "resync", !.i = 1]

(* What the loop does once every member has answered. *)
nextStep(h) ==
    IF h.i <= Len(MemberList) THEN h
    ELSE [h EXCEPT !.step = IF h.missing = {} THEN "resync" ELSE "handback", !.i = 1]

(* One member's reserve call: granted, rejected for its owner, or failed on the
   way, before or after the server acted. *)
ReserveNext(w) ==
    LET h == hook[w]
        m == MemberList[h.i]
        Granted == hook' = [hook EXCEPT ![w] = nextStep([h EXCEPT !.i = @ + 1, !.got = @ \cup {m}])]
        Refused == hook' = [hook EXCEPT ![w] = nextStep([h EXCEPT !.i = @ + 1, !.missing = @ \cup {m}])]
    IN  /\ h.step = "reserve"
        /\ \/ Free(m) /\ reserve(m) /\ Granted /\ UNCHANGED faults
           \/ ~Free(m) /\ Refused /\ UNCHANGED <<reservedBy, late, faults>>
           \/ Free(m) /\ Fault /\ reserve(m) /\ Refused
           \/ Free(m) /\ Fault /\ Refused /\ UNCHANGED <<reservedBy, late>>
        /\ UNCHANGED <<engine, script, handback, pauses, limits>>

(* A failed resume hands back the members it did get. *)
HandBackNext(w) ==
    /\ hook[w].step = "handback"
    /\ \E i \in DOMAIN MemberList :
         /\ MemberList[i] \in hook[w].got
         /\ \A j \in 1..(i - 1) : MemberList[j] \notin hook[w].got
         /\ release(MemberList[i])
         /\ hook' = [hook EXCEPT ![w].got = @ \ {MemberList[i]}]
    /\ UNCHANGED <<engine, script, handback, pauses, limits, faults>>

(* reReserveOnResume() re-parks the run and rethrows: the operator sees an
   error, a controller's branch fails. *)
hookFails(w) ==
    /\ hook' = [hook EXCEPT ![w] = NoHook]
    /\ at' = [b \in Branches |-> IF b = w THEN "done" ELSE at[b]]
    /\ requestPause(at', bracket)
    /\ UNCHANGED <<stopped, probing, bracket, calls, reservedBy, late, limits>>

ResumeFails(w) ==
    /\ hook[w].step = "handback" /\ hook[w].got = {}
    /\ hookFails(w)
    /\ UNCHANGED faults

(* resyncReacquiredMember(): fetch, branch checkout and beads pull on a member. *)
ResyncNext(w) ==
    /\ hook[w].step = "resync" /\ hook[w].i <= Len(MemberList)
    /\ \/ /\ hook' = [hook EXCEPT ![w].i = @ + 1]
          /\ UNCHANGED <<engine, script, handback, reservedBy, late, pauses, limits, faults>>
       \/ Fault /\ hookFails(w)

(* Mutant: the list of waiters is cleared and nobody is told. *)
ResumedForgetful(w) ==
    /\ hook[w].step = "resync" /\ hook[w].i > Len(MemberList)
    /\ hook' = [hook EXCEPT ![w] = NoHook]
    /\ paused' = FALSE /\ pauseRequested' = FALSE
    /\ at' = [b \in Branches |-> IF b = w THEN Admit ELSE at[b]]
    /\ probing' = [b \in Branches |-> IF b = w THEN TRUE ELSE probing[b]]
    /\ UNCHANGED <<stopped, bracket, calls, handback, reservedBy, late, pauses, limits, faults>>

(* The barrier is passed: the pause ends, the calls at the gate go out, and a
   controller goes on to its re-probe. *)
Resumed(w) ==
    /\ hook[w].step = "resync" /\ hook[w].i > Len(MemberList)
    /\ hook' = [hook EXCEPT ![w] = NoHook]
    /\ paused' = FALSE /\ pauseRequested' = FALSE
    /\ at' = [b \in Branches |-> IF at[b] = "gate" \/ b = w THEN Admit ELSE at[b]]
    /\ bracket' = [b \in Branches |-> IF at'[b] = "done" THEN "none" ELSE bracket[b]]
    /\ probing' = [b \in Branches |-> IF b = w THEN TRUE ELSE probing[b]]
    /\ UNCHANGED <<stopped, calls, handback, reservedBy, late, pauses, limits, faults>>

----------------------------------------------------------------------------
Script(b) == OpenBracket(b) \/ CloseBracket(b) \/ Call(b) \/ Return(b)
Answer(b) == Settle(b) \/ HitLimit(b) \/ GiveUp(b)
Hook(w) == ReserveNext(w) \/ HandBackNext(w) \/ ResumeFails(w) \/ ResyncNext(w) \/ Resumed(w)

Next ==
    \/ \E b \in Branches : Script(b) \/ Answer(b) \/ Wake(b)
    \/ OperatorPause \/ OperatorResume \/ OperatorStop
    \/ \E w \in Resumers : Hook(w)
    \/ \E k \in 1..MaxPauses : ReleaseNext(k)
    \/ \E m \in Contended : OtherReserve(m) \/ OtherRelease(m)

Spec == Init /\ [][Next]_vars

(* The event loop runs while a call's answer (each has a timeout), a timer or
   script code is due, and an operator who sees a paused run keeps pressing
   Resume. Nothing makes anyone pause, stop, reserve or release. *)
EventLoop == (\E b \in Branches : Script(b) \/ Answer(b) \/ Wake(b)) \/ \E w \in Resumers : Hook(w)
LiveSpec == Spec /\ WF_vars(EventLoop) /\ SF_vars(OperatorResume)

----------------------------------------------------------------------------
(* A paused run is quiet: no agent() or command() is in flight, and no sync
   bracket is between two of its calls (index.mjs: 'paused' only at zero
   in-flight activities; git-sync.mjs: a pause never lands mid-sync). A branch
   may still open a bracket while the run is parked, but its first call waits. *)
PausedIsQuiet ==
    paused => \A b \in Branches : at[b] # "flight" /\ bracket[b] # "mid"

(* A requested pause is not stranded: whenever nothing is in flight and no
   bracket is open, it is engaged (the re-check at every exit, gate and bracket
   close of index.mjs and git-sync.mjs). *)
BoundaryEngages ==
    pauseRequested /\ AtBoundary(at, bracket) => paused

(* A running sprint holds every member, except those that one of its own
   hand-backs took away behind a resume's back. *)
RunsReserved ==
    ~paused /\ ~stopped => \A m \in Members : reservedBy[m] = This \/ m \in late

(* No call is left at the gate for good: every resume and every stop empties it
   (requestResume, requestStop), and only another sprint that took a member in
   the meantime can keep a resume from succeeding. *)
GateOpens ==
    \A b \in Branches :
        at[b] = "gate" ~> at[b] # "gate" \/ \E m \in Members : reservedBy[m] = Other
=============================================================================
