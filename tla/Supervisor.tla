----------------------------- MODULE Supervisor -----------------------------
(***************************************************************************)
(* The always-on supervisor of fleet sprints: the launch handler and its   *)
(* overlap guards, the spawner, the reservation ledger, the watchdog and   *)
(* the dashboard's use of it, the sprint history, force-release, and what  *)
(* a restart does: reload, prime, reconcile, re-adopt.                     *)
(*                                                                         *)
(* A sprint is one launch request.  Its child is a detached process that   *)
(* outlives the supervisor.  The ledger and the history are files written  *)
(* by rename behind a transaction chain; the ledger's memory always equals *)
(* its file once loaded, so it is one variable, while the history, which   *)
(* is loaded later, keeps both.  Events form a set: the order of the log   *)
(* is left out.  A clean shutdown drops what is in flight as a crash does. *)
(* Crashes, writes that fail and kills that fail draw on one budget,       *)
(* MaxFaults.                                                              *)
(***************************************************************************)
EXTENDS Naturals, FiniteSets

CONSTANTS
    Sprints,          \* launch requests
    Pids,             \* process ids the system hands out
    Ports,            \* viewer ports
    MemberConflicts,  \* pairs {s, t} that want a common member
    ScopeConflicts,   \* pairs {s, t} whose issue scopes overlap
    Watchers,         \* callers of classifySprint
    Timer,            \* the watchdog's own interval, one of them
    MaxFaults,        \* bound on crashes, failed writes and failed kills
    Forceable,        \* bound: sprints an operator may force-release
    Reusable,         \* bound: pids another process may take over
    Foreign,          \* a process that is no sprint
    None

ASSUME TimerAssumption == Timer \in Watchers
ASSUME FaultsAssumption == MaxFaults \in Nat
ASSUME ForeignAssumption == Foreign \notin Sprints /\ None \notin Sprints
                            /\ Foreign # None
ASSUME NoneAssumption == None \notin Pids /\ None \notin Ports

VARIABLES
    boot,         \* how far bin/serve.mjs has come
    request,      \* where each launch request is
    excluded,     \* the ports a request's allocation skips
    proc,         \* what runs under each pid
    pid, port,    \* of each sprint's child, from its spawn on
    viewer,       \* children whose viewer is bound to its port
    terminal,     \* sprints with a persisted terminal run state
    live,         \* spawner: pid -> port
    listeners,    \* sprints whose exit this instance will be told of
    exiting,      \* sprints whose onChildExit awaits its history record
    ledger,       \* sprints holding a reservation
    exited,       \* reservations annotated by recordExit
    watch,        \* where each watcher's classification is
    marker,       \* the port it resolved when it began
    sawExit,      \* the exits its ledger snapshot showed
    forcing,      \* force-releases between the kill and the release
    toReconcile,  \* reloaded entries still to probe
    toAdopt,      \* retained entries still to re-adopt
    disk,         \* sprint-history.json
    events,       \* the history in memory
    queued,       \* records waiting on the history's chain
    draft,        \* the list the record at its head is writing
    reading,      \* what history.load() has read
    said,         \* how often this instance has recorded each verdict
    spoiled,      \* history: a record was begun before the log was loaded
    lost,         \* history: events whose write failed
    spared,       \* history: sprints a force-release failed to kill
    faults        \* crashes, and writes and kills that failed

launchVars == <<request, excluded>>
childVars == <<proc, pid, port, viewer, terminal>>
spawnerVars == <<live, listeners, exiting>>
ledgerVars == <<ledger, exited>>
watchVars == <<watch, marker, sawExit>>
bootVars == <<boot, toReconcile, toAdopt, reading>>
logVars == <<disk, events, draft, spoiled>>
recordVars == <<queued, said>>
faultVars == <<lost, spared, faults>>

vars == <<launchVars, childVars, spawnerVars, ledgerVars, watchVars, bootVars,
          logVars, recordVars, forcing, faultVars>>

Kinds == {"CHILD_EXITED", "FINISHED", "LAUNCH_FAILED", "AUTO_RELEASED",
          "ABORTED_BY_RESTART", "FORCE_RELEASED"}

Events == Sprints \X Kinds

Verdicts == Sprints \X {"FINISHED", "LAUNCH_FAILED", "AUTO_RELEASED"}

TypeOK ==
    /\ boot \in {"down", "priming", "listening", "loading", "reconciling",
                 "up"}
    /\ request \in [Sprints -> {"idle", "scoping", "probing", "claiming",
                                "done", "refused", "failed", "cut"}]
    /\ excluded \in [Sprints -> SUBSET Ports]
    /\ proc \in [Pids -> Sprints \cup {Foreign, None}]
    /\ pid \in [Sprints -> Pids \cup {None}]
    /\ port \in [Sprints -> Ports \cup {None}]
    /\ viewer \subseteq Sprints
    /\ terminal \subseteq Sprints
    /\ live \in [Pids -> Ports \cup {None}]
    /\ listeners \subseteq Sprints
    /\ exiting \subseteq Sprints
    /\ ledger \subseteq Sprints
    /\ exited \subseteq ledger
    /\ watch \in [Watchers -> [Sprints -> {"idle", "probing", "releasing"}]]
    /\ marker \in [Watchers -> [Sprints -> Ports \cup {None}]]
    /\ sawExit \in [Watchers -> SUBSET Sprints]
    /\ forcing \subseteq Sprints
    /\ toReconcile \subseteq Sprints
    /\ toAdopt \subseteq Sprints
    /\ disk \subseteq Events
    /\ events \subseteq Events
    /\ queued \subseteq Events
    /\ draft \in (SUBSET Events) \cup {None}
    /\ reading \subseteq Events
    /\ said \in [Verdicts -> 0..2]
    /\ spoiled \in BOOLEAN
    /\ lost \subseteq Events
    /\ spared \subseteq Sprints
    /\ faults \in 0..MaxFaults

NoChild == [s \in Sprints |-> None]
NotWatching == [w \in Watchers |-> [s \in Sprints |-> "idle"]]
NoMarkers == [w \in Watchers |-> [s \in Sprints |-> None]]
NothingSeen == [w \in Watchers |-> {}]
NothingSaid == [e \in Verdicts |-> 0]

Init ==
    /\ boot = "down"
    /\ request = [s \in Sprints |-> "idle"]
    /\ excluded = [s \in Sprints |-> {}]
    /\ proc = [p \in Pids |-> None]
    /\ pid = NoChild /\ port = NoChild
    /\ viewer = {} /\ terminal = {}
    /\ live = [p \in Pids |-> None]
    /\ listeners = {} /\ exiting = {}
    /\ ledger = {} /\ exited = {}
    /\ watch = NotWatching /\ marker = NoMarkers /\ sawExit = NothingSeen
    /\ forcing = {} /\ toReconcile = {} /\ toAdopt = {}
    /\ disk = {} /\ events = {} /\ queued = {} /\ draft = None /\ reading = {}
    /\ said = NothingSaid /\ spoiled = FALSE
    /\ lost = {} /\ spared = {} /\ faults = 0

\* The HTTP server answers and the watchdog's interval runs.
Serving == boot \in {"listening", "loading", "reconciling", "up"}

Loaded == boot \in {"reconciling", "up"}

\* The child of s is still running.
Running(s) == pid[s] # None /\ proc[pid[s]] = s

\* The process crashes, or a write or a kill fails.
Fault == faults < MaxFaults /\ faults' = faults + 1

------------------------------------------------------------------------------
(***************************************************************************)
(* The history log                                                         *)
(***************************************************************************)

\* history.record() of all of E: behind the chain, not awaited here.
record(E) ==
    /\ queued' = queued \cup E
    /\ said' = [e \in Verdicts |->
                  IF e \in E /\ said[e] < 2 THEN said[e] + 1 ELSE said[e]]

\* Mutant: the file is replaced by the new event alone.
AppendLatest ==
    /\ Loaded
    /\ draft = None
    /\ \E e \in queued :
        /\ queued' = queued \ {e}
        /\ disk' = {e}
        /\ events' = events \cup {e}
    /\ UNCHANGED <<launchVars, childVars, spawnerVars, ledgerVars, watchVars,
                   bootVars, draft, spoiled, said, forcing, faultVars>>

\* A transaction appends one event to the list in memory, replaces the file
\* and commits.  The chain runs one at a time, so it is one step.  A write that
\* fails changes neither: the record is rejected, its caller logs that and
\* goes on.  (The restart does not: the rejection of its own record ends the
\* process, which is a Crash.)  So it is ...
Append ==
    /\ Loaded
    /\ draft = None
    /\ \E e \in queued :
        /\ queued' = queued \ {e}
        /\ \/ /\ disk' = events \cup {e}
              /\ events' = events \cup {e}
              /\ UNCHANGED <<lost, faults>>
           \/ /\ e[2] # "ABORTED_BY_RESTART"
              /\ Fault
              /\ lost' = lost \cup {e}
              /\ UNCHANGED <<disk, events>>
    /\ UNCHANGED <<launchVars, childVars, spawnerVars, ledgerVars, watchVars,
                   bootVars, draft, spoiled, said, forcing, spared>>

\* ... but for load(), which is not on the chain: until it is done, the list
\* a transaction began with may no longer be the one in memory.
AppendBegin ==
    /\ ~Loaded
    /\ draft = None
    /\ \E e \in queued :
        /\ queued' = queued \ {e}
        /\ draft' = events \cup {e}
    /\ spoiled' = TRUE
    /\ UNCHANGED <<launchVars, childVars, spawnerVars, ledgerVars, watchVars,
                   bootVars, disk, events, said, forcing, faultVars>>

AppendEnd ==
    /\ draft # None
    /\ draft' = None
    /\ \/ disk' = draft /\ events' = draft /\ UNCHANGED <<lost, faults>>
       \/ /\ Fault
          /\ lost' = lost \cup (draft \ events)
          /\ UNCHANGED <<disk, events>>
    /\ UNCHANGED <<launchVars, childVars, spawnerVars, ledgerVars, watchVars,
                   bootVars, spoiled, recordVars, forcing, spared>>

\* record(e) has not resolved yet.
Recording(e) == e \in queued \/ (draft # None /\ e \in draft \ events)

------------------------------------------------------------------------------
(***************************************************************************)
(* Launching a sprint                                                      *)
(***************************************************************************)

Goto(s, r) == request' = [request EXCEPT ![s] = r]

\* defaultMemberOverlapGuard and checkLaunch(): no active reservation has a
\* member, or an issue scope, in common with s.
MembersFree(s) == \A t \in ledger : {s, t} \notin MemberConflicts
ScopesFree(s) == \A t \in ledger : {s, t} \notin ScopeConflicts

\* launch() up to the await of the issue-scope check: the member guard reads
\* the ledger.  A request may be refused for reasons outside this model
\* (validation, the relaunch gate, a member reserved at the fleet server).
Launch(s) ==
    /\ Serving
    /\ request[s] = "idle"
    /\ \/ Goto(s, "refused")
       \/ MembersFree(s) /\ Goto(s, "scoping")
    /\ UNCHANGED <<excluded, childVars, spawnerVars, ledgerVars, watchVars,
                   bootVars, logVars, recordVars, forcing, faultVars>>

\* checkLaunch() reads the ledger again, or cannot decide; spawnSprint() then
\* takes the ports of the live set before its first await.
ScopeChecked(s) ==
    /\ request[s] = "scoping"
    /\ \/ Goto(s, "refused") /\ UNCHANGED excluded
       \/ /\ ScopesFree(s)
          /\ Goto(s, "probing")
          /\ excluded' = [excluded EXCEPT ![s] = {live[p] : p \in Pids}
                                                 \ {None}]
    /\ UNCHANGED <<childVars, spawnerVars, ledgerVars, watchVars, bootVars,
                   logVars, recordVars, forcing, faultVars>>

\* Ports the OS reports as available: no viewer is bound to them.
Available == Ports \ {port[s] : s \in viewer}

\* The probes have answered: spawn, track the pid, listen for its exit.  The
\* spawn may also fail, as may the search for a port.
Spawn(s) ==
    /\ request[s] = "probing"
    /\ \/ Goto(s, "refused") /\ UNCHANGED <<childVars, spawnerVars>>
       \/ \E p \in Pids, o \in Available \ excluded[s] :
            /\ proc[p] = None
            /\ proc' = [proc EXCEPT ![p] = s]
            /\ pid' = [pid EXCEPT ![s] = p]
            /\ port' = [port EXCEPT ![s] = o]
            /\ live' = [live EXCEPT ![p] = o]
            /\ listeners' = listeners \cup {s}
            /\ Goto(s, "claiming")
            /\ UNCHANGED <<viewer, terminal, exiting>>
    /\ excluded' = [excluded EXCEPT ![s] = {}]
    /\ UNCHANGED <<ledgerVars, watchVars, bootVars, logVars, recordVars,
                   forcing, faultVars>>

\* ledger.claim().
claim(s) == ledger' = ledger \cup {s}

\* The launch claims after the spawn; the transaction may fail.
Claim(s) ==
    /\ request[s] = "claiming"
    /\ \/ Goto(s, "done") /\ claim(s)
       \/ Goto(s, "failed") /\ UNCHANGED ledger
    /\ UNCHANGED <<excluded, childVars, spawnerVars, exited, watchVars,
                   bootVars, logVars, recordVars, forcing, faultVars>>

------------------------------------------------------------------------------
(***************************************************************************)
(* The child and other processes                                           *)
(***************************************************************************)

\* The end of s's child as the supervisor sees it: the spawner forgets the
\* pid and onChildExit records the exit, if this instance spawned it.
Gone(s) ==
    /\ proc' = [proc EXCEPT ![pid[s]] = None]
    /\ viewer' = viewer \ {s}
    /\ IF s \in listeners
       THEN /\ live' = [live EXCEPT ![pid[s]] = None]
            /\ listeners' = listeners \ {s}
            /\ exiting' = exiting \cup {s}
            /\ record({<<s, "CHILD_EXITED">>})
       ELSE UNCHANGED <<spawnerVars, recordVars>>

\* The child opens its viewer, and gives up when its port is taken.
OpenViewer(s) ==
    /\ Running(s)
    /\ s \notin viewer
    /\ \/ /\ port[s] \in Available
          /\ viewer' = viewer \cup {s}
          /\ UNCHANGED <<proc, spawnerVars, recordVars>>
       \/ port[s] \notin Available /\ Gone(s)
    /\ UNCHANGED <<launchVars, pid, port, terminal, ledgerVars, watchVars,
                   bootVars, logVars, forcing, faultVars>>

\* The run ends and its terminal state is persisted; the process lingers.
Finish(s) ==
    /\ Running(s)
    /\ s \in viewer
    /\ s \notin terminal
    /\ terminal' = terminal \cup {s}
    /\ UNCHANGED <<launchVars, proc, pid, port, viewer, spawnerVars,
                   ledgerVars, watchVars, bootVars, logVars, recordVars,
                   forcing, faultVars>>

\* The process ends, with or without a terminal state.
Exit(s) ==
    /\ Running(s)
    /\ Gone(s)
    /\ UNCHANGED <<launchVars, pid, port, terminal, ledgerVars, watchVars,
                   bootVars, logVars, forcing, faultVars>>

\* ledger.recordExit(): annotates the reservation, or fails if there is none.
recordExit(s) == exited' = IF s \in ledger THEN exited \cup {s} ELSE exited

\* Mutant: the reservation is annotated without waiting for the history.
RecordExitEarly(s) ==
    /\ s \in exiting
    /\ exiting' = exiting \ {s}
    /\ recordExit(s)
    /\ UNCHANGED <<launchVars, childVars, live, listeners, ledger, watchVars,
                   bootVars, logVars, recordVars, forcing, faultVars>>

\* onChildExit goes on once history has the event, or has failed to write it;
\* the ledger's own write may fail as well.
RecordExit(s) ==
    /\ s \in exiting
    /\ ~Recording(<<s, "CHILD_EXITED">>)
    /\ exiting' = exiting \ {s}
    /\ \/ recordExit(s) /\ UNCHANGED faults
       \/ Fault /\ UNCHANGED exited
    /\ UNCHANGED <<launchVars, childVars, live, listeners, ledger, watchVars,
                   bootVars, logVars, recordVars, forcing, lost, spared>>

\* The system gives the pid of an ended child to a process of its own.
ForeignStart(p) ==
    /\ p \in Reusable
    /\ proc[p] = None
    /\ \E s \in Sprints : pid[s] = p
    /\ proc' = [proc EXCEPT ![p] = Foreign]
    /\ UNCHANGED <<launchVars, pid, port, viewer, terminal, spawnerVars,
                   ledgerVars, watchVars, bootVars, logVars, recordVars,
                   forcing, faultVars>>

------------------------------------------------------------------------------
(***************************************************************************)
(* The watchdog                                                            *)
(***************************************************************************)

\* classifyAll(): a snapshot of the ledger, and the port of each entry's pid.
classifyAll(w) ==
    /\ watch' = [watch EXCEPT ![w] =
                   [s \in Sprints |-> IF s \in ledger THEN "probing"
                                                      ELSE "idle"]]
    /\ marker' = [marker EXCEPT ![w] =
                   [s \in Sprints |-> IF s \in ledger THEN live[pid[s]]
                                                      ELSE None]]
    /\ sawExit' = [sawExit EXCEPT ![w] = exited]

\* A tick, skipped while the last one is in flight; or a page that polls.
Poll(w) ==
    /\ Serving
    /\ ledger # {}
    /\ \A s \in Sprints : watch[w][s] = "idle"
    /\ classifyAll(w)
    /\ UNCHANGED <<launchVars, childVars, spawnerVars, ledgerVars, bootVars,
                   logVars, recordVars, forcing, faultVars>>

\* Mutant: a command line that cannot be read counts as dead.
isChildAliveStrict(p, m) ==
    IF proc[p] = None THEN {FALSE}
    ELSE IF m = None THEN {TRUE}
    ELSE {FALSE, proc[p] # Foreign /\ port[proc[p]] = m}

\* What makeChildPidProbe() may answer.  With a port known, the command line
\* must carry it; one that cannot be read counts as alive.
isChildAlive(p, m) ==
    IF proc[p] = None THEN {FALSE}
    ELSE IF m = None THEN {TRUE}
    ELSE {TRUE, proc[p] # Foreign /\ port[proc[p]] = m}

\* The classification of s by w goes on, or is over and forgotten.
Releasing(w, s) == watch' = [watch EXCEPT ![w][s] = "releasing"]
                   /\ UNCHANGED <<marker, sawExit>>
Classified(w, s) == /\ watch' = [watch EXCEPT ![w][s] = "idle"]
                    /\ marker' = [marker EXCEPT ![w][s] = None]
                    /\ sawExit' = [sawExit EXCEPT ![w] = @ \ {s}]

\* The events a classification as dead records, each once per instance.  An
\* exit in the snapshot may lie within the launch window.
verdict(w, s) ==
    LET once(k) == IF said[<<s, k>>] = 0 THEN {<<s, k>>} ELSE {}
    IN IF s \in terminal THEN {once("FINISHED")}
       ELSE {{}} \cup (IF s \in sawExit[w] THEN {once("LAUNCH_FAILED")}
                                           ELSE {})

\* Mutant: only a finished sprint is released.
ProbedFinished(w, s) ==
    /\ watch[w][s] = "probing"
    /\ \E alive \in isChildAlive(pid[s], marker[w][s]) :
        \/ /\ alive \/ s \notin terminal
           /\ Classified(w, s)
           /\ UNCHANGED recordVars
        \/ /\ ~alive /\ s \in terminal
           /\ Releasing(w, s)
           /\ \E E \in verdict(w, s) : record(E)
    /\ UNCHANGED <<launchVars, childVars, spawnerVars, ledgerVars, bootVars,
                   logVars, forcing, faultVars>>

\* classifySprint() after the pid probe.
Probed(w, s) ==
    /\ watch[w][s] = "probing"
    /\ \E alive \in isChildAlive(pid[s], marker[w][s]) :
        \/ alive /\ Classified(w, s) /\ UNCHANGED recordVars
        \/ /\ ~alive
           /\ Releasing(w, s)
           /\ \E E \in verdict(w, s) : record(E)
    /\ UNCHANGED <<launchVars, childVars, spawnerVars, ledgerVars, bootVars,
                   logVars, forcing, faultVars>>

\* Mutant: the annotation of the exit outlives the entry.
releaseEntry(s) ==
    /\ ledger' = ledger \ {s}
    /\ exited' = exited

\* ledger.release(): deletes the entry, annotations and all.
release(s) ==
    /\ ledger' = ledger \ {s}
    /\ exited' = exited \ {s}

\* Mutant: the audit event whether or not the entry was still held.
ReleaseTerminalAlways(w, s) ==
    /\ watch[w][s] = "releasing"
    /\ Classified(w, s)
    /\ release(s)
    /\ record({<<s, "AUTO_RELEASED">>})
    /\ UNCHANGED <<launchVars, childVars, spawnerVars, bootVars, logVars,
                   forcing, faultVars>>

\* releaseTerminalReservation(): the audit event only if it was still held.  A
\* write that fails leaves the entry to the next tick.
ReleaseTerminal(w, s) ==
    /\ watch[w][s] = "releasing"
    /\ Classified(w, s)
    /\ \/ /\ release(s)
          /\ record(IF s \in ledger THEN {<<s, "AUTO_RELEASED">>} ELSE {})
          /\ UNCHANGED faults
       \/ Fault /\ UNCHANGED <<ledgerVars, recordVars>>
    /\ UNCHANGED <<launchVars, childVars, spawnerVars, bootVars, logVars,
                   forcing, lost, spared>>

------------------------------------------------------------------------------
(***************************************************************************)
(* Force-release                                                           *)
(***************************************************************************)

\* forceRelease() up to its first await: kills whatever runs under the
\* recorded pid.  killPid() answers false when it may not (EPERM), and the
\* release that follows does not look at the answer.
ForceKill(s) ==
    /\ Serving
    /\ s \in Forceable
    /\ s \in ledger \ forcing
    /\ forcing' = forcing \cup {s}
    /\ LET victim == proc[pid[s]]
       IN \/ victim \in Sprints /\ Gone(victim) /\ UNCHANGED faultVars
          \/ /\ victim \notin Sprints
             /\ proc' = [proc EXCEPT ![pid[s]] = None]
             /\ UNCHANGED <<viewer, spawnerVars, recordVars, faultVars>>
          \/ /\ victim # None
             /\ Fault
             /\ spared' = spared \cup {s}
             /\ UNCHANGED <<proc, viewer, spawnerVars, recordVars, lost>>
    /\ UNCHANGED <<launchVars, pid, port, terminal, ledgerVars, watchVars,
                   bootVars, logVars>>

\* The rest of it: a write that fails leaves the entry.
ForceRelease(s) ==
    /\ s \in forcing
    /\ forcing' = forcing \ {s}
    /\ \/ /\ release(s)
          /\ record({<<s, "FORCE_RELEASED">>})
          /\ UNCHANGED faults
       \/ Fault /\ UNCHANGED <<ledgerVars, recordVars>>
    /\ UNCHANGED <<launchVars, childVars, spawnerVars, watchVars, bootVars,
                   logVars, lost, spared>>

------------------------------------------------------------------------------
(***************************************************************************)
(* Start, crash and restart                                                *)
(***************************************************************************)

\* supervisor.start(): the ledger loads, the watchdog primes its snapshot.
Start ==
    /\ boot = "down"
    /\ boot' = "priming"
    /\ classifyAll(Timer)
    /\ UNCHANGED <<launchVars, childVars, spawnerVars, ledgerVars,
                   toReconcile, toAdopt, reading, logVars, recordVars,
                   forcing, faultVars>>

\* The prime is done; the server binds.
Listen ==
    /\ boot = "priming"
    /\ \A s \in Sprints : watch[Timer][s] = "idle"
    /\ boot' = "listening"
    /\ UNCHANGED <<launchVars, childVars, spawnerVars, ledgerVars, watchVars,
                   toReconcile, toAdopt, reading, logVars,
                   recordVars, forcing, faultVars>>

\* history.start(), outside the transaction chain: the file is read ...
LoadRead ==
    /\ boot = "listening"
    /\ boot' = "loading"
    /\ reading' = disk
    /\ UNCHANGED <<launchVars, childVars, spawnerVars, ledgerVars, watchVars,
                   toReconcile, toAdopt, logVars, recordVars,
                   forcing, faultVars>>

\* ... and replaces what is in memory; reconcile() lists the ledger.
LoadAssign ==
    /\ boot = "loading"
    /\ boot' = "reconciling"
    /\ events' = reading
    /\ reading' = {}
    /\ toReconcile' = ledger
    /\ UNCHANGED <<launchVars, childVars, spawnerVars, ledgerVars, watchVars,
                   toAdopt, disk, draft, spoiled, recordVars,
                   forcing, faultVars>>

\* One entry: retained when its pid exists, else released and marked.  The
\* loop awaits each record before the next entry; a write that fails ends the
\* process, which is a Crash.
Reconcile(s) ==
    /\ s \in toReconcile
    /\ \A t \in Sprints : ~Recording(<<t, "ABORTED_BY_RESTART">>)
    /\ toReconcile' = toReconcile \ {s}
    /\ \/ /\ proc[pid[s]] # None
          /\ toAdopt' = toAdopt \cup {s}
          /\ UNCHANGED <<ledgerVars, recordVars>>
       \/ /\ proc[pid[s]] = None
          /\ release(s)
          /\ record({<<s, "ABORTED_BY_RESTART">>})
          /\ UNCHANGED toAdopt
    /\ UNCHANGED <<boot, reading, launchVars, childVars,
                   spawnerVars, watchVars, logVars, forcing, faultVars>>

\* readopt(): the port is parsed from the command line found under the pid,
\* when the entry is still there and the line can be read.
Adopt(s) ==
    /\ boot = "reconciling"
    /\ toReconcile = {}
    /\ s \in toAdopt
    /\ toAdopt' = toAdopt \ {s}
    /\ \/ UNCHANGED live
       \/ /\ s \in ledger
          /\ proc[pid[s]] \in Sprints
          /\ live' = [live EXCEPT ![pid[s]] = port[proc[pid[s]]]]
    /\ UNCHANGED <<boot, toReconcile, reading, launchVars,
                   childVars, listeners, exiting, ledgerVars, watchVars,
                   logVars, recordVars, forcing, faultVars>>

Ready ==
    /\ boot = "reconciling"
    /\ toReconcile = {} /\ toAdopt = {}
    /\ boot' = "up"
    /\ UNCHANGED <<toReconcile, toAdopt, reading, launchVars,
                   childVars, spawnerVars, ledgerVars, watchVars, logVars,
                   recordVars, forcing, faultVars>>

\* The process goes, with everything in memory; the files and the children
\* stay.
Crash ==
    /\ boot # "down"
    /\ Fault
    /\ boot' = "down"
    /\ request' = [s \in Sprints |->
                     IF request[s] \in {"scoping", "probing", "claiming"}
                     THEN "cut" ELSE request[s]]
    /\ excluded' = [s \in Sprints |-> {}]
    /\ live' = [p \in Pids |-> None]
    /\ listeners' = {} /\ exiting' = {} /\ forcing' = {}
    /\ watch' = NotWatching /\ marker' = NoMarkers /\ sawExit' = NothingSeen
    /\ toReconcile' = {} /\ toAdopt' = {} /\ reading' = {}
    /\ events' = {} /\ queued' = {} /\ draft' = None /\ said' = NothingSaid
    /\ UNCHANGED <<childVars, ledgerVars, disk, spoiled, lost, spared>>

------------------------------------------------------------------------------
LaunchStep(s) == Launch(s) \/ ScopeChecked(s) \/ Spawn(s) \/ Claim(s)

ChildStep(s) == OpenViewer(s) \/ Finish(s) \/ Exit(s)

WatchStep(w) == Poll(w) \/ \E s \in Sprints : Probed(w, s)
                                              \/ ReleaseTerminal(w, s)

BootStep == Start \/ Listen \/ LoadRead \/ LoadAssign \/ Ready
            \/ \E s \in Sprints : Reconcile(s) \/ Adopt(s)

Next ==
    \/ BootStep
    \/ Crash
    \/ Append \/ AppendBegin \/ AppendEnd
    \/ \E s \in Sprints : LaunchStep(s) \/ ChildStep(s) \/ RecordExit(s)
                          \/ ForceKill(s) \/ ForceRelease(s)
    \/ \E w \in Watchers : WatchStep(w)
    \/ \E p \in Pids : ForeignStart(p)

Spec == Init /\ [][Next]_vars

\* The event loop runs what it has queued, the interval keeps ticking, and
\* the operator starts a supervisor that went down.
LiveSpec ==
    /\ Spec
    /\ WF_vars(BootStep)
    /\ WF_vars(Append) /\ WF_vars(AppendBegin) /\ WF_vars(AppendEnd)
    /\ WF_vars(Poll(Timer))
    /\ \A s \in Sprints : /\ WF_vars(Probed(Timer, s))
                          /\ WF_vars(ReleaseTerminal(Timer, s))

------------------------------------------------------------------------------
(***************************************************************************)
(* Properties                                                              *)
(***************************************************************************)

\* A sprint whose launch returned keeps its reservation for as long as its
\* child runs, through restarts, re-used pids, polls and failing writes; only
\* a force-release that could not kill the child takes it away.
RunningIsReserved ==
    \A s \in Sprints :
        request[s] = "done" /\ Running(s) => s \in ledger \cup spared

\* "the ledger shows an exitCode" implies "history already carries
\* CHILD_EXITED" (serve.mjs), once the log is loaded, if nothing was recorded
\* before that, and unless the write of that very event failed.
ExitIsInHistory ==
    ~spoiled /\ Loaded =>
        \A s \in exited : <<s, "CHILD_EXITED">> \in events \cup lost

\* However many callers classify a sprint at once, each verdict and each
\* automatic release is put on record once.
VerdictsOnce == \A e \in Verdicts : said[e] < 2

\* The log only grows, if nothing is recorded before it is loaded.
GrowsOnceLoaded == [][spoiled' \/ disk \subseteq disk']_vars

\* The reservation of a dead child is released, by the watchdog or by the
\* restart, unless another process now has its pid: a release whose write
\* fails is tried again.
DeadIsReleased ==
    \A s \in Sprints :
        (s \in ledger /\ ~Running(s)) ~> (s \notin ledger
                                          \/ proc[pid[s]] # None)

\* api.mjs: a member held by another active reservation "rejects the ENTIRE
\* launch".
NoOverlap ==
    \A s, t \in ledger : {s, t} \notin MemberConflicts \cup ScopeConflicts
==============================================================================
