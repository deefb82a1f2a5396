--------------------------- MODULE BusyLockProofs ---------------------------
(***************************************************************************)
(* BusyLock for any number of dispatches, stops and attempts: the lock is  *)
(* never stranded, the watch leaves with its dispatch, a stall only hits a *)
(* dispatch under way, and two dispatches own the member at once only      *)
(* after one of the breaches the model names.                              *)
(***************************************************************************)
EXTENDS BusyLock, TLAPS

\* A stall has only cleared dispatches that were watched.
StalledWasWatched ==
    \A d \in clearedByStall : phase[d] \notin {"new", "probing", "setup"}

\* A dispatch that has stalled, too, is past its set-up while an entry
\* bears its name.
EntryWasAdded ==
    entry # None => phase[entry.dispatch] \notin {"new", "probing", "setup"}

\* As long as nothing was breached, whoever owns the member has the lock.
OwnerHasLock ==
    ~breached => \A d \in Dispatches : Holding(d) => inFlight

Rest ==
    /\ StalledWasWatched
    /\ EntryWasAdded
    /\ WatchHasOwner
    /\ LockHasOwner
    /\ OwnerHasLock
    /\ ExclusiveUnlessBreached

\* The inductive invariant.
IInv == TypeOK /\ Rest

\* Every step keeps the types.
LEMMA TypeStep == TypeOK /\ [Next]_vars => TypeOK'
<1> SUFFICES ASSUME TypeOK, [Next]_vars PROVE TypeOK'
  OBVIOUS
<1> USE DEF TypeOK, Phases, Pids, callVars, processVars
<1> USE AttemptsAssumption
<1>1. ASSUME NEW d \in Dispatches, CallFree(d) PROVE TypeOK'
  BY <1>1 DEF CallFree, claim, Goto
<1>2. ASSUME NEW d \in Dispatches, CallBusy(d) PROVE TypeOK'
  BY <1>2 DEF CallBusy, Goto
<1>3. ASSUME NEW d \in Dispatches, CallProbe(d) PROVE TypeOK'
  BY <1>3 DEF CallProbe, Goto
<1>4. ASSUME NEW d \in Dispatches, ProbeSaysAlive(d) PROVE TypeOK'
  BY <1>4 DEF ProbeSaysAlive, Goto
<1>5. ASSUME NEW d \in Dispatches, SelfHeal(d) PROVE TypeOK'
  BY <1>5 DEF SelfHeal, claim, Goto
<1>6. ASSUME NEW d \in Dispatches, SetupRejects(d) PROVE TypeOK'
  BY <1>6 DEF SetupRejects, Goto
<1>7. ASSUME NEW d \in Dispatches, Watch(d) PROVE TypeOK'
  BY <1>7 DEF Watch, Goto, Entries
<1>8. ASSUME NEW d \in Dispatches, StagedRejects(d) PROVE TypeOK'
  BY <1>8 DEF StagedRejects, Goto
<1>9. ASSUME NEW d \in Dispatches, GuardedThrow(d) PROVE TypeOK'
  BY <1>9 DEF GuardedThrow, Goto
<1>10. ASSUME NEW d \in Dispatches, KillLeftover(d) PROVE TypeOK'
  BY <1>10 DEF KillLeftover, Goto, tryKillPid
<1>11. ASSUME NEW d \in Dispatches, StartAttempt(d) PROVE TypeOK'
  <2> DEFINE n == attempt[d] + 1
  <2>1. n \in 1..MaxAttempts /\ <<d, n>> \in Pids
    BY <1>11 DEF StartAttempt, TypeOK, Pids
  <2>2. phase' \in [Dispatches -> Phases] /\ inFlight' \in BOOLEAN
        /\ breached' \in BOOLEAN /\ entry' \in Entries \cup {None}
    BY <1>11 DEF StartAttempt, Goto, finally, TypeOK, Phases
  <2>3. attempt' \in [Dispatches -> 0..MaxAttempts]
    BY <1>11, <2>1 DEF StartAttempt, TypeOK
  <2>4. alive' \in SUBSET Pids
        /\ channel' \in [Pids -> {"none", "open", "marked", "closed"}]
    BY <1>11, <2>1 DEF StartAttempt, TypeOK
  <2> QED BY <1>11, <2>2, <2>3, <2>4 DEF StartAttempt, TypeOK
<1>12. ASSUME NEW d \in Dispatches, AttemptFails(d) PROVE TypeOK'
  <2>1. attempt' \in [Dispatches -> 0..MaxAttempts]
    BY <1>12 DEF AttemptFails, TypeOK
  <2>2. phase' \in [Dispatches -> Phases] /\ inFlight' \in BOOLEAN
        /\ breached' \in BOOLEAN /\ entry' \in Entries \cup {None}
        /\ storedPid' \in Pids \cup {None}
    BY <1>12 DEF AttemptFails, Goto, finally, retryAfterThrow, tryKillPid,
             TypeOK, Phases
  <2> QED BY <1>12, <2>1, <2>2 DEF AttemptFails, TypeOK
<1>13. ASSUME NEW d \in Dispatches, AttemptTimesOut(d) PROVE TypeOK'
  BY <1>13 DEF AttemptTimesOut, Goto, finally, retryAfterThrow, tryKillPid
<1>14. ASSUME NEW d \in Dispatches, RetryAfterResult(d) PROVE TypeOK'
  BY <1>14 DEF RetryAfterResult, Goto, tryKillPid
<1>15. ASSUME NEW d \in Dispatches, Land(d) PROVE TypeOK'
  BY <1>15 DEF Land, Goto, WatchLog, Entries
<1>16. ASSUME NEW d \in Dispatches, MismatchFails(d) PROVE TypeOK'
  BY <1>16 DEF MismatchFails, Goto
<1>17. ASSUME NEW d \in Dispatches, Return(d) PROVE TypeOK'
  BY <1>17 DEF Return, Goto, finally
<1>18. ASSUME NEW d \in Dispatches, Cancel(d) PROVE TypeOK'
  BY <1>18 DEF Cancel, Goto, finally, tryKillPid
<1>19. ASSUME NEW p \in Pids, CapturePid(p) PROVE TypeOK'
  BY <1>19 DEF CapturePid, WatchLog, Entries
<1>20. ASSUME NEW p \in Pids, ChannelCloses(p) PROVE TypeOK'
  BY <1>20 DEF ChannelCloses, Awaited
<1>21. ASSUME NEW p \in Pids, ChannelFails(p) PROVE TypeOK'
  <2>1. p[1] \in Dispatches
    BY DEF Pids
  <2>2. phase' \in [Dispatches -> Phases] /\ inFlight' \in BOOLEAN
        /\ breached' \in BOOLEAN /\ entry' \in Entries \cup {None}
    BY <1>21, <2>1 DEF ChannelFails, Goto, finally, retryAfterThrow, TypeOK,
                   Phases
  <2>3. channel' \in [Pids -> {"none", "open", "marked", "closed"}]
    BY <1>21 DEF ChannelFails, TypeOK
  <2> QED BY <1>21, <2>2, <2>3 DEF ChannelFails, TypeOK
<1>22. ASSUME NEW p \in Pids, Exit(p) PROVE TypeOK'
  BY <1>22 DEF Exit
<1>23. CASE PollStarts
  BY <1>23 DEF PollStarts
<1>24. CASE PollPasses
  BY <1>24 DEF PollPasses, isStale, Entries
<1>25. CASE PollStalls
  <2>1. polled.dispatch \in Dispatches
    BY <1>25 DEF PollStalls, TypeOK, Entries
  <2>2. entry' \in Entries \cup {None}
    BY <1>25 DEF PollStalls, onStall, TypeOK, Entries
  <2>3. phase' \in [Dispatches -> Phases]
    BY <1>25, <2>1 DEF PollStalls, onStall, Goto, TypeOK, Phases
  <2>4. clearedByStall' \in SUBSET Dispatches
    BY <1>25, <2>1 DEF PollStalls, onStall, TypeOK
  <2>5. inFlight' \in BOOLEAN /\ breached' \in BOOLEAN
        /\ storedPid' \in Pids \cup {None}
    BY <1>25 DEF PollStalls, onStall, tryKillPid, TypeOK
  <2> QED BY <1>25, <2>2, <2>3, <2>4, <2>5
          DEF PollStalls, TypeOK, callVars
<1>26. ASSUME NEW s \in Stops, StopKills(s) PROVE TypeOK'
  BY <1>26 DEF StopKills, tryKillPid
<1>27. ASSUME NEW s \in Stops, StopWaits(s) PROVE TypeOK'
  BY <1>27 DEF StopWaits
<1>28. ASSUME NEW s \in Stops, StopClears(s) PROVE TypeOK'
  BY <1>28 DEF StopClears
<1>29. CASE CommandCloses
  BY <1>29 DEF CommandCloses
<1>30. CASE UNCHANGED vars
  BY <1>30 DEF vars
<1> QED BY <1>1, <1>2, <1>3, <1>4, <1>5, <1>6, <1>7, <1>8, <1>9, <1>10,
           <1>11, <1>12, <1>13, <1>14, <1>15, <1>16, <1>17, <1>18, <1>19,
           <1>20, <1>21, <1>22, <1>23, <1>24, <1>25, <1>26, <1>27, <1>28,
           <1>29, <1>30
       DEF Next, DispatchStep

\* Past the stall watch's registration, before the end.
Late == {"ready", "retry", "running", "returned", "landed", "released"}

\* The finally block keeps the invariant: it frees the lock of the one
\* dispatch that owned it, or leaves it to somebody else.
LEMMA FinallyKeeps ==
    ASSUME IInv, NEW d \in Dispatches, phase[d] \in Late, finally(d),
           UNCHANGED clearedByStall
    PROVE  Rest'
<1>1. phase' = [phase EXCEPT ![d] = "done"] /\ entry' = None
      /\ clearedByStall' = clearedByStall
  BY DEF finally, Goto
<1>2. StalledWasWatched' /\ EntryWasAdded' /\ WatchHasOwner'
  BY <1>1 DEF IInv, Rest, TypeOK, StalledWasWatched, EntryWasAdded,
              WatchHasOwner
<1>3. \A e \in Dispatches : Holding(e)' <=> Holding(e) /\ e # d
  BY <1>1 DEF Holding, Claimed, IInv, TypeOK
<1>4. LockHasOwner'
  BY <1>3 DEF LockHasOwner, IInv, Rest, finally, Holding
<1>5. OwnerHasLock' /\ ExclusiveUnlessBreached'
  BY <1>3 DEF OwnerHasLock, ExclusiveUnlessBreached, IInv, Rest, finally,
              Holding, Late, Claimed
<1> QED BY <1>2, <1>4, <1>5 DEF Rest

\* Moving on within the owner's phases keeps the invariant.
LEMMA GotoKeeps ==
    ASSUME IInv, NEW d \in Dispatches, NEW p \in {"running", "retry"},
           phase[d] \in Late \ {"released"}, Goto(d, p),
           UNCHANGED <<inFlight, entry, breached, clearedByStall>>
    PROVE  Rest'
<1>1. phase' = [phase EXCEPT ![d] = p] /\ clearedByStall' = clearedByStall
      /\ entry' = entry /\ inFlight' = inFlight /\ breached' = breached
  BY DEF Goto
<1>2. StalledWasWatched' /\ EntryWasAdded'
  BY <1>1 DEF IInv, Rest, TypeOK, StalledWasWatched, EntryWasAdded
<1>3. WatchHasOwner'
  BY <1>1 DEF IInv, Rest, TypeOK, WatchHasOwner, Watched, Claimed
<1>4. \A e \in Dispatches : Holding(e)' <=> Holding(e)
  BY <1>1 DEF Holding, Claimed, Late, IInv, TypeOK
<1>5. LockHasOwner' /\ OwnerHasLock' /\ ExclusiveUnlessBreached'
  BY <1>1, <1>4 DEF LockHasOwner, OwnerHasLock, ExclusiveUnlessBreached,
                    IInv, Rest
<1> QED BY <1>2, <1>3, <1>5 DEF Rest

\* So does the retry of an exception.
LEMMA RetryKeeps ==
    ASSUME IInv, NEW d \in Dispatches, phase[d] \in Late \ {"released"},
           retryAfterThrow(d), UNCHANGED clearedByStall
    PROVE  Rest'
  BY GotoKeeps DEF retryAfterThrow

\* Every step keeps the invariant.
LEMMA InvStep == IInv /\ [Next]_vars => Rest'
<1> SUFFICES ASSUME IInv, [Next]_vars PROVE Rest'
  OBVIOUS
<1> USE DEF IInv, Rest, TypeOK, Pids, StalledWasWatched, EntryWasAdded,
            WatchHasOwner, LockHasOwner, OwnerHasLock,
            ExclusiveUnlessBreached, Holding, Claimed, Watched, callVars,
            processVars
<1>1. ASSUME NEW d \in Dispatches, CallFree(d) PROVE Rest'
  BY <1>1 DEF CallFree, claim, Goto
<1>2. ASSUME NEW d \in Dispatches, CallBusy(d) PROVE Rest'
  BY <1>2 DEF CallBusy, Goto
<1>3. ASSUME NEW d \in Dispatches, CallProbe(d) PROVE Rest'
  BY <1>3 DEF CallProbe, Goto
<1>4. ASSUME NEW d \in Dispatches, ProbeSaysAlive(d) PROVE Rest'
  BY <1>4 DEF ProbeSaysAlive, Goto
<1>5. ASSUME NEW d \in Dispatches, SelfHeal(d) PROVE Rest'
  BY <1>5 DEF SelfHeal, claim, Goto
<1>6. ASSUME NEW d \in Dispatches, SetupRejects(d) PROVE Rest'
  BY <1>6 DEF SetupRejects, Goto
<1>7. ASSUME NEW d \in Dispatches, Watch(d) PROVE Rest'
  BY <1>7 DEF Watch, Goto, Entries
<1>8. ASSUME NEW d \in Dispatches, StagedRejects(d) PROVE Rest'
  BY <1>8 DEF StagedRejects, Goto
<1>9. ASSUME NEW d \in Dispatches, GuardedThrow(d) PROVE Rest'
  BY <1>9 DEF GuardedThrow, Goto
<1>10. ASSUME NEW d \in Dispatches, KillLeftover(d) PROVE Rest'
  BY <1>10 DEF KillLeftover, Goto, tryKillPid
<1>11. ASSUME NEW d \in Dispatches, StartAttempt(d) PROVE Rest'
  <2>1. CASE finally(d)
    BY <1>11, <2>1, FinallyKeeps DEF StartAttempt, Late
  <2>2. CASE Goto(d, "running") /\ UNCHANGED <<inFlight, entry, breached>>
    BY <1>11, <2>2, GotoKeeps DEF StartAttempt, Late
  <2> QED BY <1>11, <2>1, <2>2 DEF StartAttempt
<1>12. ASSUME NEW d \in Dispatches, AttemptFails(d) PROVE Rest'
  <2>1. CASE finally(d)
    BY <1>12, <2>1, FinallyKeeps DEF AttemptFails, Late
  <2>2. CASE retryAfterThrow(d)
    BY <1>12, <2>2, RetryKeeps DEF AttemptFails, Late
  <2> QED BY <1>12, <2>1, <2>2 DEF AttemptFails
<1>13. ASSUME NEW d \in Dispatches, AttemptTimesOut(d) PROVE Rest'
  <2>1. CASE finally(d)
    BY <1>13, <2>1, FinallyKeeps DEF AttemptTimesOut, Late
  <2>2. CASE retryAfterThrow(d)
    BY <1>13, <2>2, RetryKeeps DEF AttemptTimesOut, Late
  <2> QED BY <1>13, <2>1, <2>2 DEF AttemptTimesOut
<1>14. ASSUME NEW d \in Dispatches, RetryAfterResult(d) PROVE Rest'
  BY <1>14 DEF RetryAfterResult, Goto, tryKillPid
<1>15. ASSUME NEW d \in Dispatches, Land(d) PROVE Rest'
  BY <1>15 DEF Land, Goto, WatchLog, Entries
<1>16. ASSUME NEW d \in Dispatches, MismatchFails(d) PROVE Rest'
  BY <1>16 DEF MismatchFails, Goto
<1>17. ASSUME NEW d \in Dispatches, Return(d) PROVE Rest'
  BY <1>17 DEF Return, Goto, finally
<1>18. ASSUME NEW d \in Dispatches, Cancel(d) PROVE Rest'
  <2>1. CASE phase[d] = "running"
    BY <1>18, <2>1, FinallyKeeps DEF Cancel, Late
  <2>2. CASE phase[d] # "running"
    BY <1>18, <2>2 DEF Cancel, IInv, Rest, TypeOK, StalledWasWatched,
       EntryWasAdded, WatchHasOwner, LockHasOwner, OwnerHasLock,
       ExclusiveUnlessBreached, Holding
  <2> QED BY <2>1, <2>2
<1>19. ASSUME NEW p \in Pids, CapturePid(p) PROVE Rest'
  BY <1>19 DEF CapturePid, WatchLog, Entries
<1>20. ASSUME NEW p \in Pids, ChannelCloses(p) PROVE Rest'
  BY <1>20 DEF ChannelCloses, Awaited
<1>21. ASSUME NEW p \in Pids, ChannelFails(p) PROVE Rest'
  <2> p[1] \in Dispatches
    BY DEF Pids
  <2>1. CASE finally(p[1])
    BY <1>21, <2>1, FinallyKeeps DEF ChannelFails, Late, Awaited
  <2>2. CASE retryAfterThrow(p[1])
    BY <1>21, <2>2, RetryKeeps DEF ChannelFails, Late, Awaited
  <2> QED BY <1>21, <2>1, <2>2 DEF ChannelFails
<1>22. ASSUME NEW p \in Pids, Exit(p) PROVE Rest'
  BY <1>22 DEF Exit
<1>23. CASE PollStarts
  BY <1>23 DEF PollStarts
<1>24. CASE PollPasses
  BY <1>24 DEF PollPasses, isStale, Entries
<1>25. CASE PollStalls
  BY <1>25 DEF PollStalls, isStale, onStall, Goto, tryKillPid, Entries
<1>26. ASSUME NEW s \in Stops, StopKills(s) PROVE Rest'
  BY <1>26 DEF StopKills, tryKillPid
<1>27. ASSUME NEW s \in Stops, StopWaits(s) PROVE Rest'
  BY <1>27 DEF StopWaits
<1>28. ASSUME NEW s \in Stops, StopClears(s) PROVE Rest'
  BY <1>28 DEF StopClears
<1>29. CASE CommandCloses
  BY <1>29 DEF CommandCloses
<1>30. CASE UNCHANGED vars
  BY <1>30 DEF vars
<1> QED BY <1>1, <1>2, <1>3, <1>4, <1>5, <1>6, <1>7, <1>8, <1>9, <1>10,
           <1>11, <1>12, <1>13, <1>14, <1>15, <1>16, <1>17, <1>18, <1>19,
           <1>20, <1>21, <1>22, <1>23, <1>24, <1>25, <1>26, <1>27, <1>28,
           <1>29, <1>30
       DEF Next, DispatchStep

\* The initial state satisfies the invariant.
LEMMA InvInit == Init => IInv
<1> SUFFICES ASSUME Init PROVE IInv
  OBVIOUS
<1>1. TypeOK
  <2>1. 0 \in 0..MaxAttempts
    BY AttemptsAssumption
  <2>2. phase \in [Dispatches -> Phases]
    BY DEF Init, Phases
  <2>3. attempt \in [Dispatches -> 0..MaxAttempts]
    BY <2>1 DEF Init
  <2>4. /\ probed \in [Dispatches -> Pids \cup {None}]
        /\ channel \in [Pids -> {"none", "open", "marked", "closed"}]
        /\ stop \in [Stops -> {"idle", "noPid", "killing", "polling", "done"}]
    BY DEF Init
  <2> QED BY <2>2, <2>3, <2>4 DEF Init, TypeOK
<1>2. Rest
  BY DEF Init, Rest, StalledWasWatched, EntryWasAdded, WatchHasOwner,
         LockHasOwner, OwnerHasLock, ExclusiveUnlessBreached, Holding, Claimed
<1> QED BY <1>1, <1>2 DEF IInv

LEMMA Invariance == Spec => []IInv
<1>1. IInv /\ [Next]_vars => IInv'
  BY TypeStep, InvStep DEF IInv
<1> QED BY <1>1, InvInit, PTL DEF Spec

\* Every variable of the busy lock keeps its type.
THEOREM BusyTypeCorrect == Spec => []TypeOK
  BY Invariance, PTL DEF IInv

\* inFlightAgents never keeps a member busy without a dispatch that will
\* free it, whatever execute_prompt, stop_prompt and the stall detector do.
THEOREM LockNeverStranded == Spec => []LockHasOwner
  BY Invariance, PTL DEF IInv, Rest

\* Without one of the named breaches, execute_prompt never has two
\* dispatches that both believe they own the member.
THEOREM OneOwnerUnlessBreached == Spec => []ExclusiveUnlessBreached
  BY Invariance, PTL DEF IInv, Rest

\* Every exit path of execute_prompt takes its stall entry along.
THEOREM WatchNeverOutlives == Spec => []WatchHasOwner
  BY Invariance, PTL DEF IInv, Rest

\* The stall detector declares a stall only of a dispatch that is under way,
\* although it awaited the probe: isStale() compares the entries.
THEOREM StallsHitTheWatched == Spec => StallHitsTheWatched
<1>1. IInv /\ [Next]_vars =>
        [\A d \in clearedByStall' \ clearedByStall : phase[d] \in Watched]_vars
  <2> SUFFICES ASSUME IInv, Next, NEW d \in clearedByStall' \ clearedByStall
               PROVE  phase[d] \in Watched
    OBVIOUS
  <2>1. PollStalls
    BY DEF Next, DispatchStep, CallFree, CallBusy, CallProbe, ProbeSaysAlive,
           SelfHeal, SetupRejects, Watch, StagedRejects, GuardedThrow,
           KillLeftover, StartAttempt, AttemptFails, AttemptTimesOut,
           RetryAfterResult, Land, MismatchFails, Return, Cancel, CapturePid,
           ChannelCloses, ChannelFails, CommandCloses, Exit, PollStarts, PollPasses,
           StopKills, StopWaits, StopClears
  <2>2. entry # None /\ d = entry.dispatch
    BY <2>1 DEF PollStalls, isStale, onStall
  <2> QED BY <2>2 DEF IInv, Rest, WatchHasOwner
<1> QED BY <1>1, Invariance, PTL DEF Spec, StallHitsTheWatched
==============================================================================
