-------------------------- MODULE SupervisorProofs --------------------------
(***************************************************************************)
(* Proofs about Supervisor: the types of its state, that a running sprint  *)
(* keeps its reservation, that an annotated exit is in the history, that   *)
(* verdicts are recorded once, and that the history only grows.            *)
(***************************************************************************)
EXTENDS Supervisor, TLAPS

\* A reservation is that of a launch that returned, and of a child.
Reserved ==
    \A s \in ledger \cup forcing \cup toReconcile \cup toAdopt :
        request[s] = "done" /\ pid[s] # None

\* A child is spawned once, by its own request, before it is claimed.
SpawnedOnce ==
    \A s \in Sprints :
        /\ request[s] \in {"idle", "scoping", "probing"} => pid[s] = None
        /\ request[s] = "claiming" => pid[s] # None

\* A sprint that runs under a pid has it as its own.
OwnPid == \A p \in Pids : proc[p] \in Sprints => pid[proc[p]] = p

\* The port the spawner knows for a running child is the child's.
LivePorts ==
    \A s \in Sprints : Running(s) => live[pid[s]] \in {None, port[s]}

\* What a watcher is about is a child; the port it resolved for one that still
\* runs is the child's, and it releases no child that runs.
Watching ==
    \A w \in Watchers, s \in Sprints :
        watch[w][s] # "idle" =>
            /\ pid[s] # None
            /\ Running(s) => watch[w][s] = "probing" /\ marker[w][s] \in {None, port[s]}

\* A force-release has killed the child first, or could not.
Killed == \A s \in forcing : ~Running(s) \/ s \in spared

Children == /\ Reserved /\ SpawnedOnce /\ OwnPid /\ LivePorts /\ Watching
            /\ Killed /\ RunningIsReserved

\* Unless a record was begun too early, memory and file are the same list once
\* loaded, and an exit is queued, in it or lost before the ledger shows it.
LogInStep ==
    ~spoiled =>
        /\ draft = None
        /\ events = IF Loaded THEN disk ELSE {}
        /\ boot = "loading" => reading = disk
        /\ \A s \in exiting : <<s, "CHILD_EXITED">> \in queued \cup events \cup lost
        /\ \A s \in exited : <<s, "CHILD_EXITED">> \in disk \cup lost

\* A reservation once released on record does not come back.
ReleasedOnce ==
    \A s \in Sprints : said[<<s, "AUTO_RELEASED">>] # 0 =>
                         s \notin ledger /\ request[s] = "done"

SupInv == TypeOK /\ Children /\ LogInStep /\ ReleasedOnce /\ VerdictsOnce

USE DEF launchVars, childVars, spawnerVars, ledgerVars, watchVars, bootVars,
        logVars, recordVars, faultVars

------------------------------------------------------------------------------
(***************************************************************************)
(* What the parts of the invariant depend on                               *)
(***************************************************************************)

\* The reservations and the children do not depend on the records.
LEMMA ChildrenFrame ==
    ASSUME SupInv, UNCHANGED <<request, proc, pid, port, live, ledger, watch, marker,
                               forcing, toReconcile, toAdopt, spared>>
    PROVE  Children'
  BY DEF SupInv, Children, Reserved, SpawnedOnce, OwnPid, LivePorts, Watching,
         Killed, RunningIsReserved, Running

\* Once-only records depend on the counts and on what is reserved.
LEMMA SaidFrame ==
    ASSUME SupInv, UNCHANGED <<said, request>>, ledger' \subseteq ledger
    PROVE  ReleasedOnce' /\ VerdictsOnce'
  BY DEF SupInv, ReleasedOnce, VerdictsOnce

\* The log stays in step when records are queued and annotations deleted.
LEMMA LogFrame ==
    ASSUME SupInv, UNCHANGED <<spoiled, draft, events, disk, reading, boot, lost>>,
           queued \subseteq queued', exited' \subseteq exited,
           \A s \in exiting' \ exiting : <<s, "CHILD_EXITED">> \in queued'
    PROVE  LogInStep'
  BY DEF SupInv, LogInStep, Loaded

\* No part that a step leaves alone is disturbed by how far the boot has come.
LEMMA BootFrame ==
    ASSUME SupInv, UNCHANGED <<spoiled, draft, events, disk, reading, exiting, exited,
                               queued, lost>>,
           Loaded' <=> Loaded, boot' # "loading"
    PROVE  LogInStep'
  BY DEF SupInv, LogInStep

\* Faults are counted within their bound.
LEMMA FaultType ==
    ASSUME SupInv, Fault
    PROVE  faults' \in 0..MaxFaults
  BY FaultsAssumption DEF Fault, SupInv, TypeOK

\* Three of the kinds of event are verdicts; the others are not.
LEMMA EventParts ==
    ASSUME NEW s \in Sprints
    PROVE  /\ \A k \in Kinds : <<s, k>> \in Events
           /\ \A k \in {"FINISHED", "LAUNCH_FAILED", "AUTO_RELEASED"} : <<s, k>> \in Verdicts
           /\ \A k \in {"CHILD_EXITED", "ABORTED_BY_RESTART", "FORCE_RELEASED"} :
                <<s, k>> \notin Verdicts
  BY DEF Events, Verdicts, Kinds

\* Recording verdicts that were not recorded before keeps them recorded once.
LEMMA RecordParts ==
    ASSUME SupInv, NEW E \in SUBSET Events, record(E),
           \A e \in Verdicts : e \in E => said[e] = 0
    PROVE  /\ queued' = queued \cup E /\ queued' \subseteq Events
           /\ said' \in [Verdicts -> 0..2] /\ VerdictsOnce'
           /\ \A e \in Verdicts : said'[e] # 0 => said[e] # 0 \/ e \in E
<1>1. queued' = queued \cup E /\ queued' \subseteq Events
  BY DEF record, SupInv, TypeOK
<1>2. /\ said \in [Verdicts -> 0..2] /\ \A e \in Verdicts : said[e] < 2
      /\ said' = [e \in Verdicts |-> IF e \in E /\ said[e] < 2 THEN said[e] + 1 ELSE said[e]]
  BY DEF record, SupInv, TypeOK, VerdictsOnce
<1>3. \A e \in Verdicts : said'[e] = IF e \in E THEN 1 ELSE said[e]
  BY <1>2
<1> QED BY <1>1, <1>2, <1>3 DEF VerdictsOnce

\* Recording anything else leaves their counts alone.
LEMMA RecordOther ==
    ASSUME SupInv, NEW s \in Sprints,
           NEW k \in {"CHILD_EXITED", "ABORTED_BY_RESTART", "FORCE_RELEASED"},
           record({<<s, k>>})
    PROVE  queued' = queued \cup {<<s, k>>} /\ queued' \subseteq Events /\ said' = said
<1>1. <<s, k>> \in Events /\ <<s, k>> \notin Verdicts
  BY EventParts DEF Kinds
<1>2. said' = [e \in Verdicts |-> said[e]]
  BY <1>1 DEF record
<1>3. said' = said
  BY <1>2 DEF SupInv, TypeOK
<1> QED BY <1>1, <1>3 DEF record, SupInv, TypeOK

------------------------------------------------------------------------------
(***************************************************************************)
(* Launching                                                               *)
(***************************************************************************)

\* A request that has no child yet moves on, or is refused.
LEMMA GotoInv ==
    ASSUME SupInv, NEW s \in Sprints, NEW r \in {"refused", "scoping", "probing"},
           request[s] \in {"idle", "scoping", "probing"}, Goto(s, r),
           excluded' \in [Sprints -> SUBSET Ports],
           UNCHANGED <<childVars, spawnerVars, ledgerVars, watchVars, bootVars,
                       logVars, recordVars, forcing, faultVars>>
    PROVE  SupInv'
<1>1. /\ request' \in [Sprints -> {"idle", "scoping", "probing", "claiming", "done",
                                   "refused", "failed", "cut"}]
      /\ request'[s] = r /\ \A t \in Sprints : t # s => request'[t] = request[t]
  BY DEF Goto, SupInv, TypeOK
<1>2. TypeOK'
  BY <1>1 DEF SupInv, TypeOK
<1>3. ledger \cup forcing \cup toReconcile \cup toAdopt \subseteq Sprints
  BY DEF SupInv, TypeOK
<1>4. Reserved' /\ SpawnedOnce'
  BY <1>1, <1>3 DEF SupInv, Children, Reserved, SpawnedOnce
<1>5. OwnPid' /\ LivePorts' /\ Watching' /\ Killed'
  BY DEF SupInv, Children, OwnPid, LivePorts, Watching, Killed, Running
<1>6. RunningIsReserved'
  BY <1>1 DEF SupInv, Children, RunningIsReserved, Running
<1>7. ReleasedOnce' /\ VerdictsOnce'
  BY <1>1 DEF SupInv, ReleasedOnce, VerdictsOnce
<1> QED BY <1>2, <1>4, <1>5, <1>6, <1>7, LogFrame DEF SupInv, Children

\* The member guard.
LEMMA LaunchInv ==
    ASSUME SupInv, NEW s \in Sprints, Launch(s)
    PROVE  SupInv'
<1>1. /\ request[s] = "idle" /\ (Goto(s, "refused") \/ Goto(s, "scoping"))
      /\ excluded' \in [Sprints -> SUBSET Ports]
      /\ UNCHANGED <<childVars, spawnerVars, ledgerVars, watchVars, bootVars,
                     logVars, recordVars, forcing, faultVars>>
  BY DEF Launch, SupInv, TypeOK
<1> QED BY <1>1, GotoInv

\* The scope guard.
LEMMA ScopeCheckedInv ==
    ASSUME SupInv, NEW s \in Sprints, ScopeChecked(s)
    PROVE  SupInv'
<1> DEFINE taken == {live[p] : p \in Pids} \ {None}
<1>1. taken \in SUBSET Ports
  BY DEF SupInv, TypeOK
<1>2. excluded' = excluded \/ excluded' = [excluded EXCEPT ![s] = taken]
  BY DEF ScopeChecked
<1> HIDE DEF taken
<1>3. excluded' \in [Sprints -> SUBSET Ports]
  BY <1>1, <1>2 DEF SupInv, TypeOK
<1>4. /\ request[s] = "scoping" /\ (Goto(s, "refused") \/ Goto(s, "probing"))
      /\ UNCHANGED <<childVars, spawnerVars, ledgerVars, watchVars, bootVars,
                     logVars, recordVars, forcing, faultVars>>
  BY DEF ScopeChecked
<1> QED BY <1>3, <1>4, GotoInv

\* The child starts under a free pid, which was never a sprint's that runs.
LEMMA SpawnInv ==
    ASSUME SupInv, NEW s \in Sprints, Spawn(s)
    PROVE  SupInv'
<1>1. /\ request[s] = "probing" /\ excluded' \in [Sprints -> SUBSET Ports]
      /\ UNCHANGED <<ledgerVars, watchVars, bootVars, logVars, recordVars, forcing, faultVars>>
  BY DEF Spawn, SupInv, TypeOK
<1>2. CASE Goto(s, "refused") /\ UNCHANGED <<childVars, spawnerVars>>
  BY <1>1, <1>2, GotoInv
<1>3. ASSUME NEW p \in Pids, NEW o \in Ports, proc[p] = None,
             proc' = [proc EXCEPT ![p] = s], pid' = [pid EXCEPT ![s] = p],
             port' = [port EXCEPT ![s] = o], live' = [live EXCEPT ![p] = o],
             listeners' = listeners \cup {s}, Goto(s, "claiming"),
             UNCHANGED <<viewer, terminal, exiting>>
      PROVE  SupInv'
  <2>1. /\ proc \in [Pids -> Sprints \cup {Foreign, None}]
        /\ pid \in [Sprints -> Pids \cup {None}] /\ port \in [Sprints -> Ports \cup {None}]
        /\ live \in [Pids -> Ports \cup {None}] /\ listeners \subseteq Sprints
        /\ ledger \cup forcing \cup toReconcile \cup toAdopt \subseteq Sprints
    BY DEF SupInv, TypeOK
  <2>2. /\ request' \in [Sprints -> {"idle", "scoping", "probing", "claiming", "done",
                                     "refused", "failed", "cut"}]
        /\ request'[s] = "claiming" /\ \A t \in Sprints : t # s => request'[t] = request[t]
    BY <1>3 DEF Goto, SupInv, TypeOK
  <2>3. /\ proc' \in [Pids -> Sprints \cup {Foreign, None}]
        /\ pid' \in [Sprints -> Pids \cup {None}] /\ port' \in [Sprints -> Ports \cup {None}]
        /\ live' \in [Pids -> Ports \cup {None}] /\ listeners' \subseteq Sprints
    BY <1>3, <2>1
  <2>4. TypeOK'
    BY <1>1, <1>3, <2>2, <2>3 DEF SupInv, TypeOK
  <2>5. /\ proc'[p] = s /\ \A q \in Pids : q # p => proc'[q] = proc[q] /\ live'[q] = live[q]
        /\ live'[p] = o /\ pid'[s] = p /\ port'[s] = o
        /\ \A t \in Sprints : t # s => pid'[t] = pid[t] /\ port'[t] = port[t]
    BY <1>3, <2>1
  <2>6. pid[s] = None /\ \A w \in Watchers : watch[w][s] = "idle"
    BY <1>1 DEF SupInv, Children, SpawnedOnce, Watching
  <2>7. s \notin ledger \cup forcing \cup toReconcile \cup toAdopt
    BY <2>6 DEF SupInv, Children, Reserved
  <2>8. \A t \in Sprints : t # s /\ Running(t)' => Running(t) /\ pid[t] # p
    BY <2>1, <2>5, ForeignAssumption DEF Running
  <2>9. Reserved' /\ SpawnedOnce'
    BY <1>1, <2>1, <2>2, <2>5, <2>7, NoneAssumption DEF SupInv, Children, Reserved, SpawnedOnce
  <2>10. OwnPid'
    BY <1>3, <2>1, <2>5, <2>6, NoneAssumption DEF SupInv, Children, OwnPid
  <2>11. LivePorts'
    <3> SUFFICES ASSUME NEW t \in Sprints, Running(t)' PROVE live'[pid'[t]] \in {None, port'[t]}
      BY DEF LivePorts
    <3>1. CASE t = s
      BY <2>5, <3>1
    <3>2. CASE t # s
      BY <2>1, <2>5, <2>8, <3>2 DEF SupInv, Children, LivePorts, Running
    <3> QED BY <3>1, <3>2
  <2>12. Watching'
    <3> SUFFICES ASSUME NEW w \in Watchers, NEW t \in Sprints, watch[w][t] # "idle"
                 PROVE  /\ pid'[t] # None
                        /\ Running(t)' => /\ watch[w][t] = "probing"
                                          /\ marker[w][t] \in {None, port'[t]}
      BY <1>1 DEF Watching
    <3>1. t # s
      BY <2>6
    <3> QED BY <2>5, <2>8, <3>1 DEF SupInv, Children, Watching
  <2>13. Killed'
    BY <1>1, <2>1, <2>7, <2>8 DEF SupInv, Children, Killed
  <2>14. RunningIsReserved'
    BY <1>1, <2>2, <2>8 DEF SupInv, Children, RunningIsReserved
  <2>15. ReleasedOnce' /\ VerdictsOnce'
    BY <1>1, <2>2 DEF SupInv, ReleasedOnce, VerdictsOnce
  <2>16. LogInStep'
    BY <1>1, <1>3, LogFrame
  <2> QED BY <2>4, <2>9, <2>10, <2>11, <2>12, <2>13, <2>14, <2>15, <2>16 DEF SupInv, Children
<1> QED BY <1>2, <1>3 DEF Spawn, Available

\* The claim follows the spawn, so what it reserves is a child.
LEMMA ClaimInv ==
    ASSUME SupInv, NEW s \in Sprints, Claim(s)
    PROVE  SupInv'
<1>1. /\ request[s] = "claiming" /\ exited' = exited
      /\ UNCHANGED <<excluded, childVars, spawnerVars, watchVars, bootVars, logVars,
                     recordVars, forcing, faultVars>>
      /\ \/ Goto(s, "done") /\ ledger' = ledger \cup {s}
         \/ Goto(s, "failed") /\ ledger' = ledger
  BY DEF Claim, claim
<1>2. /\ request' \in [Sprints -> {"idle", "scoping", "probing", "claiming", "done",
                                   "refused", "failed", "cut"}]
      /\ \A t \in Sprints : t # s => request'[t] = request[t]
      /\ \/ request'[s] = "done" /\ ledger' = ledger \cup {s}
         \/ request'[s] = "failed" /\ ledger' = ledger
  BY <1>1 DEF Goto, SupInv, TypeOK
<1>3. pid[s] # None /\ s \notin ledger \cup forcing \cup toReconcile \cup toAdopt
  BY <1>1 DEF SupInv, Children, Reserved, SpawnedOnce
<1>4. ledger \cup forcing \cup toReconcile \cup toAdopt \subseteq Sprints
  BY DEF SupInv, TypeOK
<1>5. TypeOK'
  BY <1>1, <1>2, <1>4 DEF SupInv, TypeOK
<1>6. Reserved' /\ SpawnedOnce'
  BY <1>1, <1>2, <1>3, <1>4 DEF SupInv, Children, Reserved, SpawnedOnce
<1>7. OwnPid' /\ LivePorts' /\ Watching' /\ Killed'
  BY <1>1 DEF SupInv, Children, OwnPid, LivePorts, Watching, Killed, Running
<1>8. RunningIsReserved'
  BY <1>1, <1>2 DEF SupInv, Children, RunningIsReserved, Running
<1>9. ReleasedOnce' /\ VerdictsOnce'
  BY <1>1, <1>2 DEF SupInv, ReleasedOnce, VerdictsOnce
<1>10. LogInStep'
  BY <1>1, LogFrame
<1> QED BY <1>5, <1>6, <1>7, <1>8, <1>9, <1>10 DEF SupInv, Children

------------------------------------------------------------------------------
(***************************************************************************)
(* The children and other processes                                        *)
(***************************************************************************)

\* Processes end, the spawner forgets pids, and force-releases begin for
\* entries under whose pid no sprint runs any more.
LEMMA ShrinkChildren ==
    ASSUME SupInv,
           UNCHANGED <<request, pid, port, ledger, watch, marker, toReconcile, toAdopt,
                       spared>>,
           \A p \in Pids : proc'[p] \in Sprints => proc'[p] = proc[p],
           \A p \in Pids : live'[p] \in {live[p], None},
           forcing' \subseteq forcing \cup ledger,
           \A t \in forcing' \ forcing : proc'[pid[t]] \notin Sprints
    PROVE  Children'
<1>1. /\ pid \in [Sprints -> Pids \cup {None}] /\ ledger \subseteq Sprints
      /\ forcing \subseteq Sprints
  BY DEF SupInv, TypeOK
<1>2. \A t \in Sprints : Running(t)' => Running(t)
  BY <1>1 DEF Running
<1>3. Reserved' /\ SpawnedOnce'
  BY DEF SupInv, Children, Reserved, SpawnedOnce
<1>4. OwnPid'
  BY DEF SupInv, Children, OwnPid
<1>5. LivePorts'
  BY <1>1, <1>2 DEF SupInv, Children, LivePorts, Running
<1>6. Watching'
  BY <1>2 DEF SupInv, Children, Watching
<1>7. Killed'
  <2> SUFFICES ASSUME NEW t \in forcing', Running(t)', t \notin spared PROVE FALSE
    BY DEF Killed
  <2>1. t \in Sprints
    BY <1>1
  <2>2. t \notin forcing
    BY <1>2, <2>1 DEF SupInv, Children, Killed
  <2> QED BY <2>1, <2>2 DEF Running
<1>8. RunningIsReserved'
  BY <1>2 DEF SupInv, Children, RunningIsReserved
<1> QED BY <1>3, <1>4, <1>5, <1>6, <1>7, <1>8 DEF Children

\* The end of a running child, on its own or by a force-release.
LEMMA GoneInv ==
    ASSUME SupInv, NEW s \in Sprints, Running(s), Gone(s),
           UNCHANGED <<launchVars, pid, port, terminal, ledgerVars, watchVars,
                       bootVars, logVars, faultVars>>,
           forcing' \subseteq forcing \cup ledger,
           \A t \in forcing' \ forcing : pid[t] = pid[s]
    PROVE  SupInv'
<1>1. /\ proc \in [Pids -> Sprints \cup {Foreign, None}] /\ pid[s] \in Pids
      /\ pid \in [Sprints -> Pids \cup {None}] /\ live \in [Pids -> Ports \cup {None}]
      /\ viewer \subseteq Sprints /\ listeners \subseteq Sprints /\ exiting \subseteq Sprints
      /\ queued \subseteq Events /\ said \in [Verdicts -> 0..2]
      /\ forcing \subseteq Sprints /\ ledger \subseteq Sprints
  BY DEF SupInv, TypeOK, Running
<1>2. /\ proc' \in [Pids -> Sprints \cup {Foreign, None}] /\ proc'[pid[s]] = None
      /\ \A p \in Pids : proc'[p] \in {proc[p], None}
  BY <1>1 DEF Gone
<1>3. /\ live' \in [Pids -> Ports \cup {None}] /\ \A p \in Pids : live'[p] \in {live[p], None}
      /\ viewer' \subseteq Sprints /\ listeners' \subseteq Sprints /\ exiting' \subseteq Sprints
  BY <1>1 DEF Gone
<1>4. /\ queued \subseteq queued' /\ queued' \subseteq Events /\ said' = said
      /\ \A t \in exiting' \ exiting : <<t, "CHILD_EXITED">> \in queued'
  <2>1. CASE s \in listeners
    <3>1. record({<<s, "CHILD_EXITED">>}) /\ exiting' = exiting \cup {s}
      BY <2>1 DEF Gone
    <3>2. queued' = queued \cup {<<s, "CHILD_EXITED">>} /\ queued' \subseteq Events /\ said' = said
      BY <3>1, RecordOther
    <3> QED BY <3>1, <3>2
  <2>2. CASE s \notin listeners
    BY <1>1, <2>2 DEF Gone
  <2> QED BY <2>1, <2>2
<1>5. TypeOK'
  BY <1>1, <1>2, <1>3, <1>4 DEF SupInv, TypeOK
<1>6. Children'
  <2>1. \A p \in Pids : proc'[p] \in Sprints => proc'[p] = proc[p]
    BY <1>2, ForeignAssumption
  <2>2. \A t \in forcing' \ forcing : proc'[pid[t]] \notin Sprints
    BY <1>2, ForeignAssumption
  <2> QED BY <1>3, <2>1, <2>2, ShrinkChildren
<1>7. LogInStep'
  BY <1>4, LogFrame
<1> QED BY <1>4, <1>5, <1>6, <1>7, SaidFrame DEF SupInv

\* The viewer opens, or the child gives up its taken port.
LEMMA OpenViewerInv ==
    ASSUME SupInv, NEW s \in Sprints, OpenViewer(s)
    PROVE  SupInv'
<1>1. Running(s) /\ UNCHANGED <<launchVars, pid, port, terminal, ledgerVars, watchVars,
                                bootVars, logVars, forcing, faultVars>>
  BY DEF OpenViewer
<1>2. CASE Gone(s)
  BY <1>1, <1>2, GoneInv
<1>3. CASE viewer' = viewer \cup {s} /\ UNCHANGED <<proc, spawnerVars, recordVars>>
  <2>1. TypeOK'
    BY <1>1, <1>3 DEF SupInv, TypeOK
  <2> QED BY <1>1, <1>3, <2>1, ChildrenFrame, LogFrame, SaidFrame DEF SupInv
<1> QED BY <1>2, <1>3 DEF OpenViewer

\* The run ends.
LEMMA FinishInv ==
    ASSUME SupInv, NEW s \in Sprints, Finish(s)
    PROVE  SupInv'
<1>1. TypeOK'
  BY DEF Finish, SupInv, TypeOK
<1>2. UNCHANGED <<launchVars, proc, pid, port, viewer, spawnerVars, ledgerVars, watchVars,
                  bootVars, logVars, recordVars, forcing, faultVars>>
  BY DEF Finish
<1> QED BY <1>1, <1>2, ChildrenFrame, LogFrame, SaidFrame DEF SupInv

\* The process ends.
LEMMA ExitInv ==
    ASSUME SupInv, NEW s \in Sprints, Exit(s)
    PROVE  SupInv'
  BY GoneInv DEF Exit

\* The ledger shows the exit only after the history has it or lost it.
LEMMA RecordExitInv ==
    ASSUME SupInv, NEW s \in Sprints, RecordExit(s)
    PROVE  SupInv'
<1>1. /\ s \in exiting /\ exiting' = exiting \ {s} /\ exited' \subseteq (exited \cup {s})
      /\ exited' \subseteq ledger /\ <<s, "CHILD_EXITED">> \notin queued
      /\ UNCHANGED <<launchVars, childVars, live, listeners, ledger, watchVars, bootVars,
                     logVars, recordVars, forcing, lost, spared>>
  BY DEF RecordExit, recordExit, Recording, SupInv, TypeOK
<1>2. TypeOK'
  <2>1. faults' \in 0..MaxFaults
    BY FaultType DEF RecordExit, SupInv, TypeOK
  <2> QED BY <1>1, <2>1 DEF SupInv, TypeOK
<1>3. LogInStep'
  BY <1>1 DEF SupInv, LogInStep, Loaded
<1> QED BY <1>1, <1>2, <1>3, ChildrenFrame, SaidFrame DEF SupInv

\* A pid no sprint runs under changes hands.
LEMMA OtherProcessInv ==
    ASSUME SupInv, NEW p \in Pids, NEW v \in {Foreign, None}, proc[p] \notin Sprints,
           proc' = [proc EXCEPT ![p] = v],
           UNCHANGED <<launchVars, pid, port, viewer, terminal, spawnerVars, ledgerVars,
                       watchVars, bootVars, logVars, recordVars, faultVars>>,
           forcing' \subseteq forcing \cup ledger,
           \A t \in forcing' \ forcing : pid[t] = p
    PROVE  SupInv'
<1>1. /\ proc' \in [Pids -> Sprints \cup {Foreign, None}] /\ proc'[p] = v
      /\ \A q \in Pids : proc'[q] \in {proc[q], v}
      /\ forcing \subseteq Sprints /\ ledger \subseteq Sprints
  BY DEF SupInv, TypeOK
<1>2. TypeOK'
  BY <1>1 DEF SupInv, TypeOK
<1>3. \A q \in Pids : proc'[q] \in Sprints => proc'[q] = proc[q]
  BY <1>1, ForeignAssumption
<1>4. \A t \in forcing' \ forcing : proc'[pid[t]] \notin Sprints
  BY <1>1, ForeignAssumption
<1>5. \A q \in Pids : live'[q] \in {live[q], None}
  OBVIOUS
<1>6. Children'
  BY <1>3, <1>4, <1>5, ShrinkChildren
<1> QED BY <1>2, <1>6, LogFrame, SaidFrame DEF SupInv

\* A freed pid goes to a process that is no sprint.
LEMMA ForeignStartInv ==
    ASSUME SupInv, NEW p \in Pids, ForeignStart(p)
    PROVE  SupInv'
<1>1. proc[p] = None /\ None \notin Sprints
  BY ForeignAssumption DEF ForeignStart
<1> QED BY <1>1, OtherProcessInv DEF ForeignStart

------------------------------------------------------------------------------
(***************************************************************************)
(* Force-release                                                           *)
(***************************************************************************)

\* Whatever runs under the recorded pid is gone, so the sprint is; or the kill
\* failed, which is on record.
LEMMA ForceKillInv ==
    ASSUME SupInv, NEW s \in Sprints, ForceKill(s)
    PROVE  SupInv'
<1>1. /\ s \in ledger /\ forcing' = forcing \cup {s}
      /\ UNCHANGED <<launchVars, pid, port, terminal, ledgerVars, watchVars, bootVars, logVars>>
  BY DEF ForceKill
<1>2. pid[s] \in Pids
  BY <1>1 DEF SupInv, TypeOK, Children, Reserved
<1>3. /\ forcing' \subseteq forcing \cup ledger
      /\ \A t \in forcing' \ forcing : pid[t] = pid[s]
  BY <1>1
<1>4. CASE proc[pid[s]] \in Sprints /\ Gone(proc[pid[s]]) /\ UNCHANGED faultVars
  <2>1. PICK t \in Sprints : t = proc[pid[s]]
    BY <1>4
  <2>2. pid[t] = pid[s]
    BY <1>2, <2>1 DEF SupInv, Children, OwnPid
  <2>3. Running(t) /\ Gone(t)
    BY <1>2, <1>4, <2>1, <2>2, NoneAssumption DEF Running
  <2>4. \A u \in forcing' \ forcing : pid[u] = pid[t]
    BY <1>3, <2>2
  <2> QED BY <1>1, <1>3, <1>4, <2>3, <2>4, GoneInv
<1>5. CASE /\ proc[pid[s]] \notin Sprints /\ proc' = [proc EXCEPT ![pid[s]] = None]
           /\ UNCHANGED <<viewer, spawnerVars, recordVars, faultVars>>
  <2>1. PICK p \in Pids : p = pid[s]
    BY <1>2
  <2> QED BY <1>1, <1>3, <1>5, <2>1, OtherProcessInv
<1>6. CASE /\ Fault /\ spared' = spared \cup {s}
           /\ UNCHANGED <<proc, viewer, spawnerVars, recordVars, lost>>
  <2>1. faults' \in 0..MaxFaults /\ ledger \subseteq Sprints
    BY <1>6, FaultType DEF SupInv, TypeOK
  <2>2. TypeOK'
    BY <1>1, <1>6, <2>1 DEF SupInv, TypeOK
  <2>3. Reserved' /\ SpawnedOnce' /\ OwnPid' /\ LivePorts' /\ Watching'
    BY <1>1, <1>6 DEF SupInv, Children, Reserved, SpawnedOnce, OwnPid, LivePorts, Watching, Running
  <2>4. Killed' /\ RunningIsReserved'
    BY <1>1, <1>6 DEF SupInv, Children, Killed, RunningIsReserved, Running
  <2> QED BY <1>1, <1>6, <2>2, <2>3, <2>4, LogFrame, SaidFrame DEF SupInv, Children
<1> QED BY <1>4, <1>5, <1>6 DEF ForceKill

\* A reservation is given up for a child that does not run, or was spared.
LEMMA ReleaseChildren ==
    ASSUME SupInv, NEW s \in Sprints, ~Running(s) \/ s \in spared, release(s), Watching',
           UNCHANGED <<request, proc, pid, port, live, spared>>,
           forcing' \subseteq forcing, toReconcile' \subseteq toReconcile,
           toAdopt' \subseteq toAdopt
    PROVE  Children'
<1>1. ledger' \subseteq ledger /\ ledger' = ledger \ {s}
  BY DEF release
<1>2. Reserved' /\ SpawnedOnce'
  BY <1>1 DEF SupInv, Children, Reserved, SpawnedOnce
<1>3. OwnPid' /\ LivePorts' /\ Killed'
  BY DEF SupInv, Children, OwnPid, LivePorts, Killed, Running
<1>4. RunningIsReserved'
  BY <1>1 DEF SupInv, Children, RunningIsReserved, Running
<1> QED BY <1>2, <1>3, <1>4 DEF Children

\* The release after the kill.
LEMMA ForceReleaseInv ==
    ASSUME SupInv, NEW s \in Sprints, ForceRelease(s)
    PROVE  SupInv'
<1>1. /\ s \in forcing /\ forcing' = forcing \ {s}
      /\ UNCHANGED <<launchVars, childVars, spawnerVars, watchVars, bootVars, logVars, lost,
                     spared>>
  BY DEF ForceRelease
<1>2. Watching'
  BY <1>1 DEF SupInv, Children, Watching, Running
<1>3. CASE release(s) /\ record({<<s, "FORCE_RELEASED">>}) /\ faults' = faults
  <2>1. queued' = queued \cup {<<s, "FORCE_RELEASED">>} /\ queued' \subseteq Events /\ said' = said
    BY <1>3, RecordOther
  <2>2. ledger' = ledger \ {s} /\ exited' = exited \ {s}
    BY <1>3 DEF release
  <2>3. TypeOK'
    BY <1>1, <1>3, <2>1, <2>2 DEF SupInv, TypeOK
  <2>4. ~Running(s) \/ s \in spared
    BY <1>1 DEF SupInv, Children, Killed
  <2>5. Children'
    BY <1>1, <1>2, <1>3, <2>4, ReleaseChildren
  <2> QED BY <1>1, <2>1, <2>2, <2>3, <2>5, LogFrame, SaidFrame DEF SupInv
<1>4. CASE Fault /\ UNCHANGED <<ledgerVars, recordVars>>
  <2>1. TypeOK'
    BY <1>1, <1>4, FaultType DEF SupInv, TypeOK
  <2>2. Children'
    BY <1>1, <1>2, <1>4 DEF SupInv, Children, Reserved, SpawnedOnce, OwnPid, LivePorts, Killed,
                            RunningIsReserved, Running
  <2> QED BY <1>1, <1>4, <2>1, <2>2, LogFrame, SaidFrame DEF SupInv
<1> QED BY <1>3, <1>4 DEF ForceRelease

------------------------------------------------------------------------------
(***************************************************************************)
(* The watchdog                                                            *)
(***************************************************************************)

\* A snapshot has the ports of the children that run.
LEMMA ClassifyParts ==
    ASSUME SupInv, NEW w \in Watchers, classifyAll(w),
           UNCHANGED <<request, proc, pid, port, live, ledger, exited, forcing,
                       toReconcile, toAdopt, spared>>
    PROVE  /\ watch' \in [Watchers -> [Sprints -> {"idle", "probing", "releasing"}]]
           /\ marker' \in [Watchers -> [Sprints -> Ports \cup {None}]]
           /\ sawExit' \in [Watchers -> SUBSET Sprints]
           /\ Children'
<1> DEFINE probes == [s \in Sprints |-> IF s \in ledger THEN "probing" ELSE "idle"]
           ports == [s \in Sprints |-> IF s \in ledger THEN live[pid[s]] ELSE None]
<1>1. /\ watch \in [Watchers -> [Sprints -> {"idle", "probing", "releasing"}]]
      /\ marker \in [Watchers -> [Sprints -> Ports \cup {None}]]
      /\ sawExit \in [Watchers -> SUBSET Sprints] /\ exited \subseteq Sprints
      /\ ledger \subseteq Sprints /\ live \in [Pids -> Ports \cup {None}]
      /\ pid \in [Sprints -> Pids \cup {None}]
  BY DEF SupInv, TypeOK
<1>2. \A s \in ledger : pid[s] \in Pids /\ pid[s] # None
  BY <1>1 DEF SupInv, Children, Reserved
<1>3. /\ probes \in [Sprints -> {"idle", "probing", "releasing"}]
      /\ ports \in [Sprints -> Ports \cup {None}]
  BY <1>1, <1>2
<1>4. /\ watch' = [watch EXCEPT ![w] = probes] /\ marker' = [marker EXCEPT ![w] = ports]
      /\ sawExit' = [sawExit EXCEPT ![w] = exited]
  BY DEF classifyAll
<1>5. \A s \in Sprints : /\ probes[s] # "idle" => s \in ledger
                         /\ s \in ledger => probes[s] = "probing" /\ ports[s] = live[pid[s]]
  OBVIOUS
<1> HIDE DEF probes, ports
<1>6. /\ watch' \in [Watchers -> [Sprints -> {"idle", "probing", "releasing"}]]
      /\ marker' \in [Watchers -> [Sprints -> Ports \cup {None}]]
      /\ sawExit' \in [Watchers -> SUBSET Sprints]
  BY <1>1, <1>3, <1>4
<1>7. Watching'
  <2> SUFFICES ASSUME NEW x \in Watchers, NEW s \in Sprints, watch'[x][s] # "idle"
               PROVE  /\ pid[s] # None
                      /\ Running(s) => /\ watch'[x][s] = "probing"
                                       /\ marker'[x][s] \in {None, port[s]}
    BY DEF Watching, Running
  <2>1. CASE x = w
    <3>1. watch'[x] = probes /\ marker'[x] = ports
      BY <1>1, <1>4, <2>1
    <3>2. s \in ledger /\ watch'[x][s] = "probing" /\ marker'[x][s] = live[pid[s]]
      BY <1>5, <3>1
    <3> QED BY <1>2, <3>2 DEF SupInv, Children, LivePorts
  <2>2. CASE x # w
    <3>1. watch'[x] = watch[x] /\ marker'[x] = marker[x]
      BY <1>1, <1>4, <2>2
    <3> QED BY <3>1 DEF SupInv, Children, Watching
  <2> QED BY <2>1, <2>2
<1>8. Reserved' /\ SpawnedOnce' /\ OwnPid' /\ LivePorts' /\ Killed' /\ RunningIsReserved'
  BY DEF SupInv, Children, Reserved, SpawnedOnce, OwnPid, LivePorts, Killed,
         RunningIsReserved, Running
<1> QED BY <1>6, <1>7, <1>8 DEF Children

\* A classification goes on to release a child that does not run, or is over.
LEMMA WatchParts ==
    ASSUME SupInv, NEW w \in Watchers, NEW s \in Sprints,
           Classified(w, s) \/ (Releasing(w, s) /\ ~Running(s) /\ pid[s] # None),
           UNCHANGED <<proc, pid, port>>
    PROVE  /\ watch' \in [Watchers -> [Sprints -> {"idle", "probing", "releasing"}]]
           /\ marker' \in [Watchers -> [Sprints -> Ports \cup {None}]]
           /\ sawExit' \in [Watchers -> SUBSET Sprints]
           /\ Watching'
<1>1. /\ watch \in [Watchers -> [Sprints -> {"idle", "probing", "releasing"}]]
      /\ marker \in [Watchers -> [Sprints -> Ports \cup {None}]]
      /\ sawExit \in [Watchers -> SUBSET Sprints]
  BY DEF SupInv, TypeOK
<1>2. CASE Classified(w, s)
  <2>1. /\ watch' = [watch EXCEPT ![w][s] = "idle"]
        /\ marker' = [marker EXCEPT ![w][s] = None]
        /\ sawExit' = [sawExit EXCEPT ![w] = @ \ {s}]
    BY <1>2 DEF Classified
  <2>2. \A x \in Watchers, t \in Sprints :
           \/ x = w /\ t = s /\ watch'[x][t] = "idle"
           \/ watch'[x][t] = watch[x][t] /\ marker'[x][t] = marker[x][t]
    BY <1>1, <2>1
  <2>3. Watching'
    BY <2>2 DEF SupInv, Children, Watching, Running
  <2> QED BY <1>1, <2>1, <2>3
<1>3. CASE Releasing(w, s) /\ ~Running(s) /\ pid[s] # None
  <2>1. watch' = [watch EXCEPT ![w][s] = "releasing"] /\ UNCHANGED <<marker, sawExit>>
    BY <1>3 DEF Releasing
  <2>2. \A x \in Watchers, t \in Sprints :
           (x = w /\ t = s) \/ watch'[x][t] = watch[x][t]
    BY <1>1, <2>1
  <2>3. Watching'
    BY <1>3, <2>1, <2>2 DEF SupInv, Children, Watching, Running
  <2> QED BY <1>1, <2>1, <2>3
<1> QED BY <1>2, <1>3

\* A poll takes a snapshot.
LEMMA PollInv ==
    ASSUME SupInv, NEW w \in Watchers, Poll(w)
    PROVE  SupInv'
<1>1. classifyAll(w) /\ UNCHANGED <<launchVars, childVars, spawnerVars, ledgerVars, bootVars,
                                    logVars, recordVars, forcing, faultVars>>
  BY DEF Poll
<1>2. /\ watch' \in [Watchers -> [Sprints -> {"idle", "probing", "releasing"}]]
      /\ marker' \in [Watchers -> [Sprints -> Ports \cup {None}]]
      /\ sawExit' \in [Watchers -> SUBSET Sprints] /\ Children'
  BY <1>1, ClassifyParts
<1>3. TypeOK'
  BY <1>1, <1>2 DEF SupInv, TypeOK
<1> QED BY <1>1, <1>2, <1>3, LogFrame, SaidFrame DEF SupInv

\* A probe that knows the right port, or none, never takes a child that runs
\* for dead.
LEMMA DeadIsDead ==
    ASSUME SupInv, NEW w \in Watchers, NEW s \in Sprints, watch[w][s] = "probing",
           FALSE \in isChildAlive(pid[s], marker[w][s])
    PROVE  ~Running(s)
<1> SUFFICES ASSUME Running(s) PROVE FALSE
  OBVIOUS
<1>1. proc[pid[s]] = s /\ s # None /\ s # Foreign /\ marker[w][s] \in {None, port[s]}
  BY ForeignAssumption DEF SupInv, Children, Watching, Running
<1>2. isChildAlive(pid[s], marker[w][s]) = {TRUE}
  BY <1>1 DEF isChildAlive
<1> QED BY <1>2

\* A verdict is recorded only if it was not, and is never a release.
LEMMA VerdictParts ==
    ASSUME NEW w \in Watchers, NEW s \in Sprints, NEW E \in verdict(w, s)
    PROVE  /\ E \in SUBSET Events /\ \A e \in E : said[e] = 0
           /\ \A t \in Sprints : <<t, "AUTO_RELEASED">> \notin E
<1>1. E \subseteq {e \in {<<s, "FINISHED">>, <<s, "LAUNCH_FAILED">>} : said[e] = 0}
  BY DEF verdict
<1>2. <<s, "FINISHED">> \in Events /\ <<s, "LAUNCH_FAILED">> \in Events
  BY EventParts DEF Kinds
<1> QED BY <1>1, <1>2

\* The classification after the probe.
LEMMA ProbedInv ==
    ASSUME SupInv, NEW w \in Watchers, NEW s \in Sprints, Probed(w, s)
    PROVE  SupInv'
<1>1. /\ watch[w][s] = "probing"
      /\ UNCHANGED <<launchVars, childVars, spawnerVars, ledgerVars, bootVars, logVars,
                     forcing, faultVars>>
  BY DEF Probed
<1>2. \/ Classified(w, s) /\ UNCHANGED recordVars
      \/ /\ FALSE \in isChildAlive(pid[s], marker[w][s]) /\ Releasing(w, s)
         /\ \E E \in verdict(w, s) : record(E)
  BY DEF Probed, isChildAlive
<1>3. Classified(w, s) \/ (Releasing(w, s) /\ ~Running(s) /\ pid[s] # None)
  BY <1>1, <1>2, DeadIsDead DEF SupInv, Children, Watching
<1>4. /\ watch' \in [Watchers -> [Sprints -> {"idle", "probing", "releasing"}]]
      /\ marker' \in [Watchers -> [Sprints -> Ports \cup {None}]]
      /\ sawExit' \in [Watchers -> SUBSET Sprints] /\ Watching'
  BY <1>1, <1>3, WatchParts
<1> DEFINE Recorded ==
             /\ queued \subseteq queued' /\ queued' \subseteq Events
             /\ said' \in [Verdicts -> 0..2] /\ VerdictsOnce'
             /\ \A t \in Sprints :
                  said'[<<t, "AUTO_RELEASED">>] # 0 => said[<<t, "AUTO_RELEASED">>] # 0
<1>5. Recorded
  <2>1. CASE UNCHANGED recordVars
    BY <2>1 DEF SupInv, TypeOK, VerdictsOnce
  <2>2. ASSUME NEW E \in verdict(w, s), record(E) PROVE Recorded
    <3>1. /\ E \in SUBSET Events /\ \A e \in E : said[e] = 0
          /\ \A t \in Sprints : <<t, "AUTO_RELEASED">> \notin E
      BY VerdictParts
    <3>2. /\ queued' = queued \cup E /\ queued' \subseteq Events
          /\ said' \in [Verdicts -> 0..2] /\ VerdictsOnce'
          /\ \A e \in Verdicts : said'[e] # 0 => said[e] # 0 \/ e \in E
      BY <2>2, <3>1, RecordParts
    <3> QED BY <3>1, <3>2, EventParts
  <2> QED BY <1>2, <2>1, <2>2
<1>6. TypeOK'
  BY <1>1, <1>4, <1>5 DEF SupInv, TypeOK
<1>7. Children'
  BY <1>1, <1>4 DEF SupInv, Children, Reserved, SpawnedOnce, OwnPid, LivePorts, Killed,
                    RunningIsReserved, Running
<1>8. ReleasedOnce'
  BY <1>1, <1>5 DEF SupInv, ReleasedOnce
<1>9. LogInStep'
  BY <1>1, <1>5, LogFrame
<1> QED BY <1>5, <1>6, <1>7, <1>8, <1>9 DEF SupInv

\* The automatic release, on record only if the entry was still held.
LEMMA ReleaseTerminalInv ==
    ASSUME SupInv, NEW w \in Watchers, NEW s \in Sprints, ReleaseTerminal(w, s)
    PROVE  SupInv'
<1>1. /\ watch[w][s] = "releasing" /\ Classified(w, s)
      /\ UNCHANGED <<launchVars, childVars, spawnerVars, bootVars, logVars, forcing, lost,
                     spared>>
  BY DEF ReleaseTerminal
<1>2. /\ watch' \in [Watchers -> [Sprints -> {"idle", "probing", "releasing"}]]
      /\ marker' \in [Watchers -> [Sprints -> Ports \cup {None}]]
      /\ sawExit' \in [Watchers -> SUBSET Sprints] /\ Watching'
  BY <1>1, WatchParts
<1> DEFINE E == IF s \in ledger THEN {<<s, "AUTO_RELEASED">>} ELSE {}
<1>3. \/ release(s) /\ record(E) /\ faults' = faults
      \/ Fault /\ UNCHANGED <<ledgerVars, recordVars>>
  BY DEF ReleaseTerminal
<1>4. E \in SUBSET Events /\ \A e \in E : e = <<s, "AUTO_RELEASED">> /\ s \in ledger
  BY EventParts DEF Kinds
<1> HIDE DEF E
<1>5. CASE release(s) /\ record(E) /\ faults' = faults
  <2>1. \A e \in Verdicts : e \in E => said[e] = 0
    BY <1>4 DEF SupInv, ReleasedOnce
  <2>2. /\ queued' = queued \cup E /\ queued' \subseteq Events
        /\ said' \in [Verdicts -> 0..2] /\ VerdictsOnce'
        /\ \A e \in Verdicts : said'[e] # 0 => said[e] # 0 \/ e \in E
    BY <1>4, <1>5, <2>1, RecordParts
  <2>3. ledger' = ledger \ {s} /\ exited' = exited \ {s}
    BY <1>5 DEF release
  <2>4. TypeOK'
    BY <1>1, <1>2, <1>5, <2>2, <2>3 DEF SupInv, TypeOK
  <2>5. Children'
    <3>1. ~Running(s)
      BY <1>1 DEF SupInv, Children, Watching
    <3> QED BY <1>1, <1>2, <1>5, <3>1, ReleaseChildren
  <2>6. ReleasedOnce'
    <3> SUFFICES ASSUME NEW t \in Sprints, said'[<<t, "AUTO_RELEASED">>] # 0
                 PROVE  t \notin ledger' /\ request[t] = "done"
      BY <1>1 DEF ReleasedOnce
    <3>1. said[<<t, "AUTO_RELEASED">>] # 0 \/ <<t, "AUTO_RELEASED">> \in E
      BY <2>2, EventParts
    <3>2. CASE said[<<t, "AUTO_RELEASED">>] # 0
      BY <2>3, <3>2 DEF SupInv, ReleasedOnce
    <3>3. CASE <<t, "AUTO_RELEASED">> \in E
      <4>1. t = s /\ s \in ledger
        BY <1>4, <3>3
      <4> QED BY <2>3, <4>1 DEF SupInv, Children, Reserved
    <3> QED BY <3>1, <3>2, <3>3
  <2>7. LogInStep'
    BY <1>1, <2>2, <2>3, LogFrame
  <2> QED BY <2>2, <2>4, <2>5, <2>6, <2>7 DEF SupInv
<1>6. CASE Fault /\ UNCHANGED <<ledgerVars, recordVars>>
  <2>1. TypeOK'
    BY <1>1, <1>2, <1>6, FaultType DEF SupInv, TypeOK
  <2>2. Children'
    BY <1>1, <1>2, <1>6 DEF SupInv, Children, Reserved, SpawnedOnce, OwnPid, LivePorts, Killed,
                            RunningIsReserved, Running
  <2> QED BY <1>1, <1>6, <2>1, <2>2, LogFrame, SaidFrame DEF SupInv
<1> QED BY <1>3, <1>5, <1>6

------------------------------------------------------------------------------
(***************************************************************************)
(* The history log                                                         *)
(***************************************************************************)

\* A transaction after the load appends to the file what memory had, or fails
\* and changes neither.
LEMMA AppendInv ==
    ASSUME SupInv, Append
    PROVE  SupInv'
<1>1. PICK e \in queued :
        /\ queued' = queued \ {e}
        /\ \/ disk' = events \cup {e} /\ events' = events \cup {e} /\ UNCHANGED <<lost, faults>>
           \/ Fault /\ lost' = lost \cup {e} /\ UNCHANGED <<disk, events>>
  BY DEF Append
<1>2. Loaded /\ UNCHANGED <<launchVars, childVars, spawnerVars, ledgerVars, watchVars,
                            bootVars, draft, spoiled, said, forcing, spared>>
  BY DEF Append
<1>3. TypeOK'
  <2>1. /\ faults' \in 0..MaxFaults /\ disk' \subseteq Events /\ events' \subseteq Events
        /\ queued' \subseteq Events /\ lost' \subseteq Events
    BY <1>1, FaultType DEF SupInv, TypeOK
  <2> QED BY <1>2, <2>1 DEF SupInv, TypeOK
<1>4. LogInStep'
  BY <1>1, <1>2 DEF SupInv, LogInStep, Loaded
<1> QED BY <1>2, <1>3, <1>4, ChildrenFrame, SaidFrame DEF SupInv

\* A record begun before the load spoils the log.
LEMMA AppendBeginInv ==
    ASSUME SupInv, AppendBegin
    PROVE  SupInv'
<1>1. PICK e \in queued : queued' = queued \ {e} /\ draft' = events \cup {e}
  BY DEF AppendBegin
<1>2. spoiled' = TRUE /\ UNCHANGED <<launchVars, childVars, spawnerVars, ledgerVars, watchVars,
                                     bootVars, disk, events, said, forcing, faultVars>>
  BY DEF AppendBegin
<1>3. TypeOK'
  BY <1>1, <1>2 DEF SupInv, TypeOK
<1>4. LogInStep'
  BY <1>2 DEF LogInStep
<1> QED BY <1>2, <1>3, <1>4, ChildrenFrame, SaidFrame DEF SupInv

\* Only such a record is ever pending, so its end finds the log spoiled.
LEMMA AppendEndInv ==
    ASSUME SupInv, AppendEnd
    PROVE  SupInv'
<1>1. /\ draft # None /\ draft' = None
      /\ \/ disk' = draft /\ events' = draft /\ UNCHANGED <<lost, faults>>
         \/ Fault /\ lost' = lost \cup (draft \ events) /\ UNCHANGED <<disk, events>>
      /\ UNCHANGED <<launchVars, childVars, spawnerVars, ledgerVars, watchVars, bootVars,
                     spoiled, recordVars, forcing, spared>>
  BY DEF AppendEnd
<1>2. TypeOK'
  <2>1. /\ faults' \in 0..MaxFaults /\ disk' \subseteq Events /\ events' \subseteq Events
        /\ lost' \subseteq Events
    BY <1>1, FaultType DEF SupInv, TypeOK
  <2> QED BY <1>1, <2>1 DEF SupInv, TypeOK
<1>3. LogInStep'
  BY <1>1 DEF SupInv, LogInStep
<1> QED BY <1>1, <1>2, <1>3, ChildrenFrame, SaidFrame DEF SupInv

------------------------------------------------------------------------------
(***************************************************************************)
(* Start, crash and restart                                                *)
(***************************************************************************)

\* The watchdog primes its snapshot.
LEMMA StartInv ==
    ASSUME SupInv, Start
    PROVE  SupInv'
<1>1. /\ boot = "down" /\ boot' = "priming" /\ classifyAll(Timer)
      /\ UNCHANGED <<launchVars, childVars, spawnerVars, ledgerVars, toReconcile,
                     toAdopt, reading, logVars, recordVars, forcing, faultVars>>
  BY DEF Start
<1>2. /\ watch' \in [Watchers -> [Sprints -> {"idle", "probing", "releasing"}]]
      /\ marker' \in [Watchers -> [Sprints -> Ports \cup {None}]]
      /\ sawExit' \in [Watchers -> SUBSET Sprints] /\ Children'
  BY <1>1, TimerAssumption, ClassifyParts
<1>3. TypeOK'
  BY <1>1, <1>2 DEF SupInv, TypeOK
<1>4. LogInStep'
  BY <1>1, BootFrame DEF Loaded
<1> QED BY <1>1, <1>2, <1>3, <1>4, SaidFrame DEF SupInv

\* The server binds, and is up in the end.
LEMMA ListenReadyInv ==
    ASSUME SupInv, Listen \/ Ready
    PROVE  SupInv'
<1>1. /\ (boot = "priming" /\ boot' = "listening") \/ (boot = "reconciling" /\ boot' = "up")
      /\ UNCHANGED <<launchVars, childVars, spawnerVars, ledgerVars, watchVars, 
                     toReconcile, toAdopt, reading, logVars, recordVars, forcing, faultVars>>
  BY DEF Listen, Ready
<1>2. TypeOK'
  BY <1>1 DEF SupInv, TypeOK
<1>3. LogInStep'
  BY <1>1, BootFrame DEF Loaded
<1> QED BY <1>1, <1>2, <1>3, ChildrenFrame, SaidFrame DEF SupInv

\* The history is read ...
LEMMA LoadReadInv ==
    ASSUME SupInv, LoadRead
    PROVE  SupInv'
<1>1. /\ boot = "listening" /\ boot' = "loading" /\ reading' = disk
      /\ UNCHANGED <<launchVars, childVars, spawnerVars, ledgerVars, watchVars, 
                     toReconcile, toAdopt, logVars, recordVars, forcing, faultVars>>
  BY DEF LoadRead
<1>2. TypeOK'
  BY <1>1 DEF SupInv, TypeOK
<1>3. LogInStep'
  BY <1>1 DEF SupInv, LogInStep, Loaded
<1> QED BY <1>1, <1>2, <1>3, ChildrenFrame, SaidFrame DEF SupInv

\* ... and becomes what is in memory; what is reserved is to be probed.
LEMMA LoadAssignInv ==
    ASSUME SupInv, LoadAssign
    PROVE  SupInv'
<1>1. /\ boot = "loading" /\ boot' = "reconciling" /\ events' = reading /\ reading' = {}
      /\ toReconcile' = ledger
      /\ UNCHANGED <<launchVars, childVars, spawnerVars, ledgerVars, watchVars, 
                     toAdopt, disk, draft, spoiled, recordVars, forcing, faultVars>>
  BY DEF LoadAssign
<1>2. TypeOK'
  BY <1>1 DEF SupInv, TypeOK
<1>3. LogInStep'
  BY <1>1 DEF SupInv, LogInStep, Loaded
<1>4. Reserved'
  BY <1>1 DEF SupInv, Children, Reserved
<1>5. SpawnedOnce' /\ OwnPid' /\ LivePorts' /\ Watching' /\ Killed' /\ RunningIsReserved'
  BY <1>1 DEF SupInv, Children, SpawnedOnce, OwnPid, LivePorts, Watching, Killed,
              RunningIsReserved, Running
<1> QED BY <1>1, <1>2, <1>3, <1>4, <1>5, SaidFrame DEF SupInv, Children

\* An entry is released only if nothing runs under its pid.
LEMMA ReconcileInv ==
    ASSUME SupInv, NEW s \in Sprints, Reconcile(s)
    PROVE  SupInv'
<1>1. /\ s \in toReconcile /\ toReconcile' = toReconcile \ {s}
      /\ UNCHANGED <<boot, reading, launchVars, childVars, spawnerVars, watchVars,
                     logVars, forcing, faultVars>>
  BY DEF Reconcile
<1>2. Watching'
  BY <1>1 DEF SupInv, Children, Watching, Running
<1>3. CASE toAdopt' = toAdopt \cup {s} /\ UNCHANGED <<ledgerVars, recordVars>>
  <2>1. TypeOK'
    BY <1>1, <1>3 DEF SupInv, TypeOK
  <2>2. Reserved'
    BY <1>1, <1>3 DEF SupInv, Children, Reserved
  <2>3. SpawnedOnce' /\ OwnPid' /\ LivePorts' /\ Killed' /\ RunningIsReserved'
    BY <1>1, <1>3 DEF SupInv, Children, SpawnedOnce, OwnPid, LivePorts, Killed,
                      RunningIsReserved, Running
  <2> QED BY <1>1, <1>2, <1>3, <2>1, <2>2, <2>3, LogFrame, SaidFrame DEF SupInv, Children
<1>4. CASE /\ proc[pid[s]] = None /\ release(s) /\ record({<<s, "ABORTED_BY_RESTART">>})
           /\ UNCHANGED toAdopt
  <2>1. ledger' = ledger \ {s} /\ exited' = exited \ {s}
    BY <1>4 DEF release
  <2>2. /\ queued' = queued \cup {<<s, "ABORTED_BY_RESTART">>} /\ queued' \subseteq Events
        /\ said' = said
    BY <1>4, RecordOther
  <2>3. TypeOK'
    BY <1>1, <1>4, <2>1, <2>2 DEF SupInv, TypeOK
  <2>4. ~Running(s)
    BY <1>4, ForeignAssumption DEF Running
  <2>5. Children'
    BY <1>1, <1>2, <1>4, <2>4, ReleaseChildren
  <2> QED BY <1>1, <2>1, <2>2, <2>3, <2>5, LogFrame, SaidFrame DEF SupInv
<1> QED BY <1>3, <1>4 DEF Reconcile

\* The port taken from the command line under a pid is that of whoever runs
\* there, even if that is another sprint than the entry's.
LEMMA AdoptInv ==
    ASSUME SupInv, NEW s \in Sprints, Adopt(s)
    PROVE  SupInv'
<1>1. /\ s \in toAdopt /\ toAdopt' = toAdopt \ {s}
      /\ UNCHANGED <<boot, toReconcile, reading, launchVars, childVars, listeners,
                     exiting, ledgerVars, watchVars, logVars, recordVars, forcing, faultVars>>
      /\ \/ live' = live
         \/ /\ proc[pid[s]] \in Sprints
            /\ live' = [live EXCEPT ![pid[s]] = port[proc[pid[s]]]]
  BY DEF Adopt
<1>2. /\ live \in [Pids -> Ports \cup {None}] /\ port \in [Sprints -> Ports \cup {None}]
      /\ pid \in [Sprints -> Pids \cup {None}]
  BY DEF SupInv, TypeOK
<1>3. live' \in [Pids -> Ports \cup {None}]
  BY <1>1, <1>2
<1>4. TypeOK'
  BY <1>1, <1>3 DEF SupInv, TypeOK
<1>5. LivePorts'
  <2> SUFFICES ASSUME NEW t \in Sprints, Running(t) PROVE live'[pid[t]] \in {None, port[t]}
    BY <1>1 DEF LivePorts, Running
  <2>1. pid[t] \in Pids /\ proc[pid[t]] = t /\ live[pid[t]] \in {None, port[t]}
    BY <1>2 DEF SupInv, Children, LivePorts, Running
  <2>2. CASE pid[t] = pid[s]
    BY <1>1, <1>2, <2>1, <2>2
  <2>3. CASE pid[t] # pid[s]
    BY <1>1, <1>2, <2>1, <2>3
  <2> QED BY <2>2, <2>3
<1>6. Reserved' /\ SpawnedOnce' /\ OwnPid' /\ Watching' /\ Killed' /\ RunningIsReserved'
  BY <1>1 DEF SupInv, Children, Reserved, SpawnedOnce, OwnPid, Watching, Killed,
              RunningIsReserved, Running
<1> QED BY <1>1, <1>4, <1>5, <1>6, LogFrame, SaidFrame DEF SupInv, Children

\* A crash forgets what is in memory; the files and the children stay.
LEMMA CrashInv ==
    ASSUME SupInv, Crash
    PROVE  SupInv'
<1>1. /\ boot' = "down" /\ live' = [p \in Pids |-> None]
      /\ UNCHANGED <<childVars, ledgerVars, disk, spoiled, lost, spared>>
      /\ listeners' = {} /\ exiting' = {} /\ forcing' = {}
      /\ toReconcile' = {} /\ toAdopt' = {} /\ reading' = {}
      /\ events' = {} /\ queued' = {} /\ draft' = None
  BY DEF Crash
<1>2. /\ request' \in [Sprints -> {"idle", "scoping", "probing", "claiming", "done",
                                   "refused", "failed", "cut"}]
      /\ \A s \in Sprints : \/ request'[s] = request[s] /\ request[s] # "claiming"
                            \/ request[s] # "done" /\ request'[s] = "cut"
  BY DEF Crash, SupInv, TypeOK
<1>3. excluded' \in [Sprints -> SUBSET Ports] /\ faults' \in 0..MaxFaults
  BY FaultType DEF Crash, SupInv, TypeOK
<1>4. /\ watch' \in [Watchers -> [Sprints -> {"idle", "probing", "releasing"}]]
      /\ marker' \in [Watchers -> [Sprints -> Ports \cup {None}]]
      /\ sawExit' \in [Watchers -> SUBSET Sprints]
      /\ \A w \in Watchers, s \in Sprints : watch'[w][s] = "idle"
  BY DEF Crash, NotWatching, NoMarkers, NothingSeen
<1>5. said' \in [Verdicts -> 0..2] /\ \A e \in Verdicts : said'[e] = 0
  BY DEF Crash, NothingSaid
<1>6. TypeOK'
  BY <1>1, <1>2, <1>3, <1>4, <1>5 DEF SupInv, TypeOK
<1>7. Reserved' /\ SpawnedOnce'
  BY <1>1, <1>2 DEF SupInv, TypeOK, Children, Reserved, SpawnedOnce
<1>8. LivePorts'
  BY <1>1 DEF SupInv, TypeOK, LivePorts, Running
<1>9. OwnPid' /\ Watching' /\ Killed' /\ RunningIsReserved'
  BY <1>1, <1>2, <1>4 DEF SupInv, Children, OwnPid, Watching, Killed, RunningIsReserved, Running
<1>10. LogInStep'
  BY <1>1 DEF SupInv, LogInStep, Loaded
<1>11. ReleasedOnce' /\ VerdictsOnce'
  <2>1. \A s \in Sprints : <<s, "AUTO_RELEASED">> \in Verdicts
    BY EventParts
  <2> QED BY <1>5, <2>1 DEF ReleasedOnce, VerdictsOnce
<1> QED BY <1>6, <1>7, <1>8, <1>9, <1>10, <1>11 DEF SupInv, Children

------------------------------------------------------------------------------
(***************************************************************************)
(* Theorems                                                                *)
(***************************************************************************)

\* The supervisor starts within the invariant.
LEMMA InitSup == Init => SupInv
<1> SUFFICES ASSUME Init PROVE SupInv
  OBVIOUS
<1>1. TypeOK
  <2>1. /\ NoChild \in [Sprints -> Pids \cup {None}] /\ NoChild \in [Sprints -> Ports \cup {None}]
        /\ NothingSaid \in [Verdicts -> 0..2] /\ NothingSeen \in [Watchers -> SUBSET Sprints]
    BY DEF NoChild, NothingSaid, NothingSeen
  <2>2. /\ NotWatching \in [Watchers -> [Sprints -> {"idle", "probing", "releasing"}]]
        /\ NoMarkers \in [Watchers -> [Sprints -> Ports \cup {None}]]
    BY DEF NotWatching, NoMarkers
  <2>3. faults \in 0..MaxFaults
    BY FaultsAssumption DEF Init
  <2> QED BY <2>1, <2>2, <2>3 DEF Init, TypeOK
<1>2. Reserved /\ SpawnedOnce /\ OwnPid /\ LivePorts
  BY ForeignAssumption DEF Init, Reserved, SpawnedOnce, OwnPid, LivePorts, Running, NoChild
<1>3. Watching /\ Killed /\ RunningIsReserved
  BY DEF Init, Watching, Killed, RunningIsReserved, NotWatching, Running, NoChild
<1>4. LogInStep
  BY DEF Init, LogInStep, Loaded
<1>5. ReleasedOnce /\ VerdictsOnce
  <2>1. \A s \in Sprints : <<s, "AUTO_RELEASED">> \in Verdicts
    BY EventParts
  <2>2. \A e \in Verdicts : said[e] = 0
    BY DEF Init, NothingSaid
  <2> QED BY <2>1, <2>2 DEF ReleasedOnce, VerdictsOnce
<1> QED BY <1>1, <1>2, <1>3, <1>4, <1>5 DEF SupInv, Children

\* Every step keeps the invariant.
LEMMA NextSup == SupInv /\ [Next]_vars => SupInv'
<1> SUFFICES ASSUME SupInv, [Next]_vars PROVE SupInv'
  OBVIOUS
<1>1. CASE BootStep
  BY <1>1, StartInv, ListenReadyInv, LoadReadInv, LoadAssignInv, ReconcileInv, AdoptInv
     DEF BootStep
<1>2. CASE Crash \/ Append \/ AppendBegin \/ AppendEnd
  BY <1>2, CrashInv, AppendInv, AppendBeginInv, AppendEndInv
<1>3. ASSUME NEW s \in Sprints,
             LaunchStep(s) \/ ChildStep(s) \/ RecordExit(s) \/ ForceKill(s) \/ ForceRelease(s)
      PROVE  SupInv'
  BY <1>3, LaunchInv, ScopeCheckedInv, SpawnInv, ClaimInv, OpenViewerInv, FinishInv, ExitInv,
     RecordExitInv, ForceKillInv, ForceReleaseInv DEF LaunchStep, ChildStep
<1>4. ASSUME NEW w \in Watchers, WatchStep(w) PROVE SupInv'
  BY <1>4, PollInv, ProbedInv, ReleaseTerminalInv DEF WatchStep
<1>5. ASSUME NEW p \in Pids, ForeignStart(p) PROVE SupInv'
  BY <1>5, ForeignStartInv
<1>6. CASE UNCHANGED vars
  <2>1. TypeOK'
    BY <1>6 DEF vars, SupInv, TypeOK
  <2> QED BY <1>6, <2>1, ChildrenFrame, LogFrame, SaidFrame DEF vars, SupInv
<1> QED BY <1>1, <1>2, <1>3, <1>4, <1>5, <1>6 DEF Next

\* The invariant holds throughout.
LEMMA SupInvariant == Spec => []SupInv
  BY InitSup, NextSup, PTL DEF Spec

\* The state of the supervisor, its files and its children keeps its types;
\* in particular every reservation that is probed, killed or re-adopted has
\* the pid of a child.
THEOREM SupervisorTypeCorrect == Spec => []TypeOK
<1>1. SupInv => TypeOK
  BY DEF SupInv
<1> QED BY <1>1, SupInvariant, PTL

\* A sprint whose launch returned keeps its reservation while its child runs:
\* neither the watchdog (whose probe is handed the child's own port, or none),
\* nor the reconciliation after a restart, nor a write that fails gives it up,
\* even when pids are re-used by other sprints or processes.  A force-release
\* gives it up only with the child, or when the child could not be killed.
THEOREM RunningAlwaysReserved == Spec => []RunningIsReserved
<1>1. SupInv => RunningIsReserved
  BY DEF SupInv, Children
<1> QED BY <1>1, SupInvariant, PTL

\* An exit the ledger shows is in the history, once the log is loaded and if
\* nothing was recorded before that, unless the write of its event failed:
\* onChildExit awaits the record, or its rejection, first, and the file and
\* the list in memory are then one.
THEOREM ExitAlwaysInHistory == Spec => []ExitIsInHistory
<1>1. SupInv => ExitIsInHistory
  BY DEF SupInv, LogInStep, ExitIsInHistory
<1> QED BY <1>1, SupInvariant, PTL

\* However many callers classify a sprint at once, an instance records each
\* verdict and each automatic release once.
THEOREM VerdictsAlwaysOnce == Spec => []VerdictsOnce
<1>1. SupInv => VerdictsOnce
  BY DEF SupInv
<1> QED BY <1>1, SupInvariant, PTL

\* The history file only grows, if nothing is recorded before it is loaded: a
\* transaction replaces the file by the list in memory, which is the file.
THEOREM HistoryGrows == Spec => GrowsOnceLoaded
<1>1. SupInv /\ [Next]_vars => [spoiled' \/ disk \subseteq disk']_vars
  <2> SUFFICES ASSUME SupInv, [Next]_vars PROVE spoiled' \/ disk \subseteq disk'
    OBVIOUS
  <2>1. CASE Append
    BY <2>1 DEF Append, SupInv, LogInStep
  <2>2. CASE AppendEnd
    BY <2>2 DEF AppendEnd, SupInv, LogInStep
  <2>3. CASE AppendBegin
    BY <2>3 DEF AppendBegin
  <2>4. CASE BootStep \/ Crash
    BY <2>4 DEF BootStep, Start, Listen, LoadRead, LoadAssign, Ready, Reconcile, Adopt, Crash
  <2>5. ASSUME NEW s \in Sprints,
               LaunchStep(s) \/ ChildStep(s) \/ RecordExit(s) \/ ForceKill(s) \/ ForceRelease(s)
        PROVE  disk' = disk
    BY <2>5 DEF LaunchStep, Launch, ScopeChecked, Spawn, Claim, ChildStep, OpenViewer, Finish,
                Exit, RecordExit, ForceKill, ForceRelease
  <2>6. ASSUME NEW w \in Watchers, WatchStep(w) PROVE disk' = disk
    BY <2>6 DEF WatchStep, Poll, Probed, ReleaseTerminal
  <2>7. ASSUME NEW p \in Pids, ForeignStart(p) PROVE disk' = disk
    BY <2>7 DEF ForeignStart
  <2>8. CASE UNCHANGED vars
    BY <2>8 DEF vars
  <2> QED BY <2>1, <2>2, <2>3, <2>4, <2>5, <2>6, <2>7, <2>8 DEF Next
<1> QED BY <1>1, SupInvariant, PTL DEF Spec, GrowsOnceLoaded
=============================================================================
