-------------------------- MODULE PauseResumeProofs --------------------------
(***************************************************************************)
(* Proofs about PauseResume, for any number of branches and members: the   *)
(* types, the quiet of a paused run, that a requested pause is never       *)
(* stranded, and that a running sprint holds its members.                  *)
(***************************************************************************)
EXTENDS PauseResume, TLAPS

(* The re-reservation loop has asked for exactly the members before its index;
   a hook that resyncs got all of them; what a live hook got is still reserved
   or was handed back late. *)
LoopProgress(w) ==
    /\ hook[w].step = "reserve" =>
         /\ hook[w].i \in DOMAIN MemberList
         /\ \A j \in 1..(hook[w].i - 1) : MemberList[j] \in hook[w].got \cup hook[w].missing
    /\ hook[w].step = "resync" => \A m \in Members : m \in hook[w].got
StillHeld(w) ==
    hook[w].step \in {"reserve", "resync"} =>
        \A m \in hook[w].got : reservedBy[m] = This \/ m \in late

HookInv == \A w \in Resumers : LoopProgress(w) /\ StillHeld(w)
EngineInv == PausedIsQuiet /\ BoundaryEngages
IInv == TypeOK /\ EngineInv /\ HookInv /\ RunsReserved

(* The loops of the sprint visit a non-empty, finite list. *)
LEMMA MemberFacts ==
    /\ Len(MemberList) \in Nat /\ Len(MemberList) >= 1
    /\ DOMAIN MemberList = 1..Len(MemberList)
    /\ \A i \in 1..Len(MemberList) : MemberList[i] \in Members
    /\ \A m \in Members : \E i \in 1..Len(MemberList) : m = MemberList[i]
BY PauseConstants DEF Members

HookType == [step : Steps, i : 1..(Len(MemberList) + 1),
             got : SUBSET Members, missing : SUBSET Members]

(* A hook that is not running. *)
LEMMA NoHookFacts ==
    /\ NoHook \in HookType
    /\ NoHook.step = "none" /\ NoHook.i = 1 /\ NoHook.got = {} /\ NoHook.missing = {}
    /\ [NoHook EXCEPT !.step = "reserve"] \in HookType
    /\ [NoHook EXCEPT !.step = "reserve"].step = "reserve"
    /\ [NoHook EXCEPT !.step = "reserve"].i = 1
    /\ [NoHook EXCEPT !.step = "reserve"].got = {}
    /\ [NoHook EXCEPT !.step = "reserve"].missing = {}
<1>1. 1 \in 1..(Len(MemberList) + 1)
  BY MemberFacts
<1>2. {} \in SUBSET Members
  OBVIOUS
<1>3. "none" \in Steps /\ "reserve" \in Steps
  BY DEF Steps
<1> QED BY <1>1, <1>2, <1>3 DEF NoHook, HookType

(* The initial state satisfies the inductive invariant. *)
LEMMA InitIInv == Init => IInv
<1> SUFFICES ASSUME Init PROVE IInv
  OBVIOUS
<1>1. TypeOK
  <2>1. at \in [Branches -> {"script", "gate", "flight", "asleep", "resuming", "done"}]
    BY DEF Init
  <2>2. bracket \in [Branches -> {"none", "open", "mid"}]
    BY DEF Init
  <2>3. calls \in [Branches -> 0..MaxCalls]
    BY PauseConstants DEF Init
  <2>4. hook \in [Resumers -> HookType]
    BY NoHookFacts DEF Init
  <2>5. handback \in [1..MaxPauses -> 0..(Len(MemberList) + 1)]
    BY MemberFacts DEF Init
  <2>6. reservedBy \in [Members -> {None, This, Other}]
    BY DEF Init
  <2>7. pauses \in 0..MaxPauses /\ limits \in 0..MaxLimits /\ faults \in 0..MaxFaults
    BY PauseConstants DEF Init
  <2>8. probing \in [Branches -> BOOLEAN]
    BY DEF Init
  <2> QED BY <2>1, <2>2, <2>3, <2>4, <2>5, <2>6, <2>7, <2>8 DEF TypeOK, HookType, Init
<1>2. EngineInv
  BY DEF EngineInv, PausedIsQuiet, BoundaryEngages, Init
<1>3. HookInv
  BY NoHookFacts DEF HookInv, LoopProgress, StillHeld, Init
<1>4. RunsReserved
  BY DEF RunsReserved, Init
<1> QED BY <1>1, <1>2, <1>3, <1>4 DEF IInv

(* What the end of a step does to the pause: it engages at a boundary only, and
   at a boundary always. *)
LEMMA EngageFacts ==
    ASSUME TypeOK, NEW requested \in BOOLEAN, NEW count, NEW where, NEW open,
           maybeEngagePause(requested, count, where, open)
    PROVE  /\ paused' \in BOOLEAN
           /\ paused => paused'
           /\ requested /\ AtBoundary(where, open) => paused'
           /\ paused' => paused \/ AtBoundary(where, open)
           /\ handback' \in [1..MaxPauses -> 0..(Len(MemberList) + 1)]
<1>1. paused \in BOOLEAN /\ handback \in [1..MaxPauses -> 0..(Len(MemberList) + 1)]
  BY DEF TypeOK
<1>2. paused' = (paused \/ (requested /\ AtBoundary(where, open)))
  BY DEF maybeEngagePause
<1>3. handback' = handback \/ handback' = [handback EXCEPT ![count] = 1]
  BY DEF maybeEngagePause
<1>4. 1 \in 0..(Len(MemberList) + 1)
  BY MemberFacts
<1>5. handback' \in [1..MaxPauses -> 0..(Len(MemberList) + 1)]
  BY <1>1, <1>3, <1>4
<1> QED BY <1>1, <1>2, <1>5, Zenon

(* requestPause() leaves a pause requested, engaged exactly as above. *)
LEMMA RequestFacts ==
    ASSUME TypeOK, NEW where, NEW open, requestPause(where, open)
    PROVE  /\ pauseRequested' \in BOOLEAN /\ paused' \in BOOLEAN
           /\ pauses' \in 0..MaxPauses
           /\ paused => paused'
           /\ AtBoundary(where, open) => paused'
           /\ paused' => paused \/ AtBoundary(where, open)
           /\ handback' \in [1..MaxPauses -> 0..(Len(MemberList) + 1)]
<1>0. pauseRequested \in BOOLEAN /\ paused \in BOOLEAN /\ pauses \in 0..MaxPauses
  BY DEF TypeOK
<1>1. CASE paused \/ pauseRequested
  <2>1. /\ pauseRequested' = pauseRequested /\ pauses' = pauses
        /\ maybeEngagePause(pauseRequested, pauses, where, open)
    BY <1>1 DEF requestPause
  <2> QED BY <1>0, <1>1, <2>1, EngageFacts, Zenon
<1>2. CASE ~(paused \/ pauseRequested)
  <2>1. /\ pauses < MaxPauses /\ pauses' = pauses + 1 /\ pauseRequested' = TRUE
        /\ maybeEngagePause(TRUE, pauses + 1, where, open)
    BY <1>2 DEF requestPause
  <2>2. pauses' \in 0..MaxPauses
    BY <1>0, <2>1, PauseConstants
  <2> QED BY <1>0, <2>1, <2>2, EngageFacts, Zenon
<1> QED BY <1>1, <1>2

----------------------------------------------------------------------------
(* Steps that touch neither the hooks nor the reservations keep what is said
   about them, provided they do not resume the run. *)
LEMMA HooksKept ==
    ASSUME IInv, UNCHANGED <<hook, reservedBy, late>>, paused => paused', stopped => stopped'
    PROVE  HookInv' /\ RunsReserved'
<1>1. HookInv'
  BY DEF IInv, HookInv, LoopProgress, StillHeld
<1>2. RunsReserved'
  BY DEF IInv, RunsReserved
<1> QED BY <1>1, <1>2

(* Steps that only end at a boundary check keep the engine's invariant. *)
LEMMA EngineKept ==
    ASSUME IInv, paused => paused',
           \A b \in Branches : at'[b] = "flight" => at[b] = "flight" \/ ~paused,
           \A b \in Branches : bracket'[b] = "mid" => bracket[b] = "mid" \/ ~paused,
           paused' => paused \/ AtBoundary(at', bracket'),
           pauseRequested' /\ AtBoundary(at', bracket') => paused'
    PROVE  EngineInv'
<1>1. PausedIsQuiet'
  BY DEF IInv, EngineInv, PausedIsQuiet, AtBoundary
<1>2. BoundaryEngages'
  BY DEF BoundaryEngages, AtBoundary
<1> QED BY <1>1, <1>2 DEF EngineInv

(* The script's own steps. *)
LEMMA ScriptStep == ASSUME IInv, NEW b \in Branches, Script(b) PROVE IInv'
<1>0. TypeOK
  BY DEF IInv
<1>1. CASE OpenBracket(b)
  <2>1. TypeOK'
    BY <1>0, <1>1 DEF TypeOK, OpenBracket, engine
  <2>2. EngineInv'
    BY <1>0, <1>1 DEF TypeOK, OpenBracket, engine, IInv, EngineInv, PausedIsQuiet, BoundaryEngages, AtBoundary
  <2>3. HookInv' /\ RunsReserved'
    BY <1>1, HooksKept DEF OpenBracket, engine
  <2> QED BY <2>1, <2>2, <2>3 DEF IInv
<1>2. CASE CloseBracket(b)
  <2>1. maybeEngagePause(pauseRequested, pauses, at, bracket') /\ pauseRequested \in BOOLEAN
    BY <1>0, <1>2 DEF CloseBracket, TypeOK
  <2>2. /\ paused' \in BOOLEAN /\ (paused => paused')
        /\ (pauseRequested /\ AtBoundary(at, bracket') => paused')
        /\ (paused' => paused \/ AtBoundary(at, bracket'))
        /\ handback' \in [1..MaxPauses -> 0..(Len(MemberList) + 1)]
    BY <1>0, <2>1, EngageFacts
  <2>3. TypeOK'
    BY <1>0, <1>2, <2>2 DEF TypeOK, CloseBracket
  <2>4. EngineInv'
    BY <1>0, <1>2, <2>2, EngineKept DEF TypeOK, CloseBracket, AtBoundary
  <2>5. HookInv' /\ RunsReserved'
    BY <1>2, <2>2, HooksKept DEF CloseBracket
  <2> QED BY <2>3, <2>4, <2>5 DEF IInv
<1>3. CASE Call(b)
  <2>1. maybeEngagePause(pauseRequested, pauses, at', bracket') /\ pauseRequested \in BOOLEAN
    BY <1>0, <1>3 DEF Call, TypeOK
  <2>2. /\ paused' \in BOOLEAN /\ (paused => paused')
        /\ (pauseRequested /\ AtBoundary(at', bracket') => paused')
        /\ (paused' => paused \/ AtBoundary(at', bracket'))
        /\ handback' \in [1..MaxPauses -> 0..(Len(MemberList) + 1)]
    BY <1>0, <2>1, EngageFacts
  <2>3. TypeOK'
    <3>1. calls' \in [Branches -> 0..MaxCalls]
      BY <1>0, <1>3, PauseConstants DEF TypeOK, Call
    <3>2. at' \in [Branches -> {"script", "gate", "flight", "asleep", "resuming", "done"}]
      BY <1>0, <1>3 DEF TypeOK, Call, Admit
    <3>3. bracket' \in [Branches -> {"none", "open", "mid"}]
      BY <1>0, <1>3 DEF TypeOK, Call
    <3> QED BY <1>0, <1>3, <2>2, <3>1, <3>2, <3>3 DEF TypeOK, Call
  <2>4. EngineInv'
    BY <1>0, <1>3, <2>2, EngineKept DEF TypeOK, Call, Admit
  <2>5. HookInv' /\ RunsReserved'
    BY <1>3, <2>2, HooksKept DEF Call
  <2> QED BY <2>3, <2>4, <2>5 DEF IInv
<1>4. CASE Return(b)
  <2>1. TypeOK'
    BY <1>0, <1>4 DEF TypeOK, Return, engine
  <2>2. EngineInv'
    BY <1>0, <1>4 DEF TypeOK, Return, engine, IInv, EngineInv, PausedIsQuiet, BoundaryEngages, AtBoundary
  <2>3. HookInv' /\ RunsReserved'
    BY <1>4, HooksKept DEF Return, engine
  <2> QED BY <2>1, <2>2, <2>3 DEF IInv
<1> QED BY <1>1, <1>2, <1>3, <1>4 DEF Script

(* A resume starts its hook at the first member, with nothing re-reserved. *)
LEMMA StartHookStep ==
    ASSUME IInv, NEW w \in Resumers, startHook(w),
           at' \in [Branches -> {"script", "gate", "flight", "asleep", "resuming", "done"}],
           UNCHANGED <<engine, probing, bracket, calls, handback, reservedBy, late, pauses, limits, faults>>
    PROVE  TypeOK' /\ HookInv'
<1>0. TypeOK /\ hook \in [Resumers -> HookType]
  BY DEF IInv, TypeOK, HookType
<1> DEFINE h0 == [NoHook EXCEPT !.step = "reserve"]
<1>1. hook' = [hook EXCEPT ![w] = h0]
  BY DEF startHook
<1>2. h0 \in HookType /\ h0.step = "reserve" /\ h0.i = 1 /\ h0.got = {}
  BY NoHookFacts
<1> HIDE DEF h0
<1>3. hook' \in [Resumers -> HookType]
  BY <1>0, <1>1, <1>2
<1>4. TypeOK'
  BY <1>0, <1>3 DEF TypeOK, HookType, engine
<1>5. ASSUME NEW v \in Resumers PROVE (LoopProgress(v) /\ StillHeld(v))'
  <2>1. CASE v = w
    BY <1>0, <1>1, <1>2, <2>1, MemberFacts DEF LoopProgress, StillHeld
  <2>2. CASE v # w
    <3>1. hook'[v] = hook[v]
      BY <1>0, <1>1, <2>2
    <3> QED BY <3>1 DEF IInv, HookInv, LoopProgress, StillHeld
  <2> QED BY <2>1, <2>2
<1> QED BY <1>4, <1>5 DEF HookInv

(* A call's answer, a re-probe that gives up, and the controller's timer. *)
LEMMA AnswerStep == ASSUME IInv, NEW b \in Branches, Answer(b) \/ Wake(b) PROVE IInv'
<1>0. TypeOK
  BY DEF IInv
<1>1. CASE Settle(b)
  <2>1. maybeEngagePause(pauseRequested, pauses, at', bracket') /\ pauseRequested \in BOOLEAN
    BY <1>0, <1>1 DEF Settle, TypeOK
  <2>2. /\ paused' \in BOOLEAN /\ (paused => paused')
        /\ (pauseRequested /\ AtBoundary(at', bracket') => paused')
        /\ (paused' => paused \/ AtBoundary(at', bracket'))
        /\ handback' \in [1..MaxPauses -> 0..(Len(MemberList) + 1)]
    BY <1>0, <2>1, EngageFacts
  <2>3. TypeOK'
    BY <1>0, <1>1, <2>2 DEF TypeOK, Settle
  <2>4. ~paused
    BY <1>1 DEF Settle, IInv, EngineInv, PausedIsQuiet
  <2>5. EngineInv'
    BY <1>0, <1>1, <2>2, <2>4, EngineKept DEF TypeOK, Settle
  <2>6. HookInv' /\ RunsReserved'
    BY <1>1, <2>2, HooksKept DEF Settle
  <2> QED BY <2>3, <2>5, <2>6 DEF IInv
<1>2. CASE HitLimit(b)
  <2>1. requestPause(at', bracket')
    BY <1>2 DEF HitLimit
  <2>2. /\ pauseRequested' \in BOOLEAN /\ paused' \in BOOLEAN
        /\ pauses' \in 0..MaxPauses /\ (paused => paused')
        /\ (AtBoundary(at', bracket') => paused')
        /\ (paused' => paused \/ AtBoundary(at', bracket'))
        /\ handback' \in [1..MaxPauses -> 0..(Len(MemberList) + 1)]
    BY <1>0, <2>1, RequestFacts
  <2>3. TypeOK'
    <3>1. limits' \in 0..MaxLimits
      BY <1>0, <1>2, PauseConstants DEF TypeOK, HitLimit
    <3> QED BY <1>0, <1>2, <2>2, <3>1 DEF TypeOK, HitLimit
  <2>4. EngineInv'
    BY <1>0, <1>2, <2>2, EngineKept DEF TypeOK, HitLimit
  <2>5. HookInv' /\ RunsReserved'
    BY <1>2, <2>2, HooksKept DEF HitLimit
  <2> QED BY <2>3, <2>4, <2>5 DEF IInv
<1>3. CASE GiveUp(b)
  <2>1. maybeEngagePause(pauseRequested, pauses, at', bracket) /\ pauseRequested \in BOOLEAN
    BY <1>0, <1>3 DEF GiveUp, TypeOK
  <2>2. /\ paused' \in BOOLEAN /\ (paused => paused')
        /\ (pauseRequested /\ AtBoundary(at', bracket) => paused')
        /\ (paused' => paused \/ AtBoundary(at', bracket))
        /\ handback' \in [1..MaxPauses -> 0..(Len(MemberList) + 1)]
    BY <1>0, <2>1, EngageFacts
  <2>3. TypeOK'
    BY <1>0, <1>3, <2>2 DEF TypeOK, GiveUp
  <2>4. EngineInv'
    BY <1>0, <1>3, <2>2, EngineKept DEF TypeOK, GiveUp, AtBoundary
  <2>5. HookInv' /\ RunsReserved'
    BY <1>3, <2>2, HooksKept DEF GiveUp
  <2> QED BY <2>3, <2>4, <2>5 DEF IInv
<1>4. CASE Wake(b) /\ Parked
  <2>1. /\ b \in Resumers /\ at[b] = "asleep" /\ startHook(b)
        /\ at' = [at EXCEPT ![b] = "resuming"] /\ UNCHANGED probing
        /\ UNCHANGED <<engine, bracket, calls, handback, reservedBy, late, pauses, limits, faults>>
    BY <1>4 DEF Wake, Resumers
  <2>2. TypeOK' /\ HookInv'
    <3>1. at' \in [Branches -> {"script", "gate", "flight", "asleep", "resuming", "done"}]
      BY <1>0, <2>1 DEF TypeOK
    <3> QED BY <2>1, <3>1, StartHookStep
  <2>4. EngineInv'
    BY <1>0, <2>1 DEF TypeOK, engine, IInv, EngineInv, PausedIsQuiet, BoundaryEngages, AtBoundary
  <2>5. RunsReserved'
    BY <2>1 DEF IInv, RunsReserved, engine
  <2> QED BY <2>2, <2>4, <2>5 DEF IInv
<1>5. CASE Wake(b) /\ ~Parked
  <2>1. /\ at' = [at EXCEPT ![b] = Admit] /\ probing' = [probing EXCEPT ![b] = TRUE]
        /\ UNCHANGED hook /\ ~paused /\ ~pauseRequested
        /\ UNCHANGED <<engine, bracket, calls, handback, reservedBy, late, pauses, limits, faults>>
    BY <1>5 DEF Wake, Parked
  <2>2. TypeOK'
    BY <1>0, <2>1 DEF TypeOK, Admit, engine
  <2>3. EngineInv'
    BY <2>1 DEF engine, EngineInv, PausedIsQuiet, BoundaryEngages
  <2>4. HookInv' /\ RunsReserved'
    BY <2>1, HooksKept DEF engine
  <2> QED BY <2>2, <2>3, <2>4 DEF IInv
<1> QED BY <1>1, <1>2, <1>3, <1>4, <1>5 DEF Answer

(* The dashboard's pause, resume and stop. *)
LEMMA OperatorStep ==
    ASSUME IInv, OperatorPause \/ OperatorResume \/ OperatorStop
    PROVE  IInv'
<1>0. TypeOK
  BY DEF IInv
<1>1. CASE OperatorPause
  <2>1. requestPause(at, bracket) /\ UNCHANGED <<stopped, script, hook, reservedBy, late, limits, faults>>
    BY <1>1 DEF OperatorPause
  <2>2. /\ pauseRequested' \in BOOLEAN /\ paused' \in BOOLEAN
        /\ pauses' \in 0..MaxPauses /\ (paused => paused')
        /\ (AtBoundary(at, bracket) => paused')
        /\ (paused' => paused \/ AtBoundary(at, bracket))
        /\ handback' \in [1..MaxPauses -> 0..(Len(MemberList) + 1)]
    BY <1>0, <2>1, RequestFacts
  <2>3. TypeOK'
    BY <1>0, <2>1, <2>2 DEF TypeOK, script
  <2>4. EngineInv'
    BY <2>1, <2>2, EngineKept DEF AtBoundary, script
  <2>5. HookInv' /\ RunsReserved'
    BY <2>1, <2>2, HooksKept
  <2> QED BY <2>3, <2>4, <2>5 DEF IInv
<1>2. CASE OperatorResume
  <2>1. /\ Operator \in Resumers /\ startHook(Operator)
        /\ UNCHANGED <<engine, script, handback, reservedBy, late, pauses, limits, faults>>
    BY <1>2 DEF OperatorResume, Resumers
  <2>2. TypeOK' /\ HookInv'
    <3>1. at' \in [Branches -> {"script", "gate", "flight", "asleep", "resuming", "done"}]
      BY <1>0, <2>1 DEF TypeOK, script
    <3> QED BY <2>1, <3>1, StartHookStep DEF script
  <2>3. EngineInv' /\ RunsReserved'
    BY <2>1 DEF IInv, EngineInv, PausedIsQuiet, BoundaryEngages, AtBoundary, RunsReserved, engine, script
  <2> QED BY <2>2, <2>3 DEF IInv
<1>3. CASE OperatorStop
  <2>1. TypeOK'
    BY <1>0, <1>3 DEF TypeOK, OperatorStop
  <2>2. EngineInv'
    BY <1>3 DEF OperatorStop, EngineInv, PausedIsQuiet, BoundaryEngages
  <2>3. HookInv'
    BY <1>3 DEF OperatorStop, IInv, HookInv, LoopProgress, StillHeld
  <2>4. RunsReserved'
    BY <1>3 DEF OperatorStop, RunsReserved
  <2> QED BY <2>1, <2>2, <2>3, <2>4 DEF IInv
<1> QED BY <1>1, <1>2, <1>3

----------------------------------------------------------------------------
(* A release takes a member from a run that counts on it only into `late'. *)
LEMMA ReleaseFacts ==
    ASSUME IInv, NEW m \in Members, release(m)
    PROVE  /\ reservedBy' \in [Members -> {None, This, Other}]
           /\ late' \in SUBSET Members
           /\ \A n \in Members : reservedBy[n] = This \/ n \in late =>
                \/ reservedBy'[n] = This \/ n \in late'
                \/ n = m /\ ~Wanted(m)
<1>1. TypeOK
  BY DEF IInv
<1> QED BY <1>1 DEF TypeOK, release

(* The release loop of a pause, and another sprint's reservations. *)
LEMMA ReservationStep ==
    ASSUME IInv,
           \/ \E k \in 1..MaxPauses : ReleaseNext(k)
           \/ \E m \in Contended : OtherReserve(m) \/ OtherRelease(m)
    PROVE  IInv'
<1>0. TypeOK
  BY DEF IInv
<1>1. ASSUME NEW k \in 1..MaxPauses, ReleaseNext(k) PROVE IInv'
  <2>1. /\ handback[k] \in DOMAIN MemberList /\ handback' = [handback EXCEPT ![k] = @ + 1]
        /\ UNCHANGED <<engine, script, hook, pauses, limits>>
    BY <1>1 DEF ReleaseNext
  <2>2. handback' \in [1..MaxPauses -> 0..(Len(MemberList) + 1)]
    BY <1>0, <2>1, MemberFacts DEF TypeOK
  <2>3. EngineInv'
    BY <2>1 DEF IInv, EngineInv, PausedIsQuiet, BoundaryEngages, AtBoundary, engine, script
  <2>4. CASE release(MemberList[handback[k]]) /\ UNCHANGED faults
    <3> DEFINE m == MemberList[handback[k]]
    <3>0. m \in Members /\ release(m)
      BY <2>1, <2>4, MemberFacts
    <3> HIDE DEF m
    <3>1. /\ reservedBy' \in [Members -> {None, This, Other}] /\ late' \in SUBSET Members
          /\ \A n \in Members : reservedBy[n] = This \/ n \in late =>
               reservedBy'[n] = This \/ n \in late' \/ (n = m /\ ~Wanted(m))
      BY <3>0, ReleaseFacts
    <3>2. TypeOK'
      BY <1>0, <2>1, <2>2, <2>4, <3>1 DEF TypeOK, engine, script
    <3>3. HookInv'
      <4> SUFFICES ASSUME NEW w \in Resumers PROVE (LoopProgress(w) /\ StillHeld(w))'
        BY DEF HookInv
      <4>1. LoopProgress(w)'
        BY <2>1 DEF IInv, HookInv, LoopProgress
      <4>2. StillHeld(w)'
        BY <1>0, <2>1, <3>1 DEF IInv, HookInv, StillHeld, Wanted, TypeOK
      <4> QED BY <4>1, <4>2
    <3>4. RunsReserved'
      BY <2>1, <3>1 DEF IInv, RunsReserved, Wanted, engine
    <3> QED BY <2>3, <3>2, <3>3, <3>4 DEF IInv
  <2>5. CASE Fault /\ UNCHANGED <<reservedBy, late>>
    <3>1. faults' \in 0..MaxFaults
      BY <1>0, <2>5, PauseConstants DEF TypeOK, Fault
    <3>2. TypeOK'
      BY <1>0, <2>1, <2>2, <2>5, <3>1 DEF TypeOK, engine, script
    <3>3. HookInv' /\ RunsReserved'
      BY <2>1, <2>5, HooksKept DEF engine
    <3> QED BY <2>3, <3>2, <3>3 DEF IInv
  <2> QED BY <1>1, <2>4, <2>5 DEF ReleaseNext
<1>2. ASSUME NEW m \in Contended, OtherReserve(m) \/ OtherRelease(m) PROVE IInv'
  <2>0. m \in Members
    BY PauseConstants
  <2>1. /\ reservedBy[m] # This
        /\ \E x \in {None, Other} : reservedBy' = [reservedBy EXCEPT ![m] = x]
        /\ UNCHANGED <<engine, script, hook, handback, late, pauses, limits, faults>>
    BY <1>2, PauseConstants DEF OtherReserve, OtherRelease
  <2>2. TypeOK'
    BY <1>0, <2>1 DEF TypeOK, engine, script
  <2>3. EngineInv'
    BY <2>1 DEF IInv, EngineInv, PausedIsQuiet, BoundaryEngages, AtBoundary, engine, script
  <2>4. \A n \in Members : reservedBy[n] = This => reservedBy'[n] = This
    BY <1>0, <2>1 DEF TypeOK
  <2>5. HookInv'
    BY <1>0, <2>1, <2>4 DEF IInv, HookInv, LoopProgress, StillHeld, TypeOK
  <2>6. RunsReserved'
    BY <2>1, <2>4 DEF IInv, RunsReserved, engine
  <2> QED BY <2>2, <2>3, <2>5, <2>6 DEF IInv
<1> QED BY <1>1, <1>2

----------------------------------------------------------------------------
(* After an answered reserve call the loop goes on, turns to the resync when
   nobody is missing, or to the hand-back. *)
LEMMA NextStepFacts ==
    ASSUME NEW h \in HookType
    PROVE  /\ nextStep(h) \in HookType
           /\ nextStep(h).got = h.got /\ nextStep(h).missing = h.missing
           /\ h.i <= Len(MemberList) => nextStep(h) = h
           /\ h.i > Len(MemberList) => nextStep(h).step = IF h.missing = {} THEN "resync" ELSE "handback"
<1>0. h.i \in Nat /\ Len(MemberList) \in Nat /\ 1 \in 1..(Len(MemberList) + 1)
  BY MemberFacts DEF HookType
<1>1. CASE h.i <= Len(MemberList)
  <2>1. nextStep(h) = h
    BY <1>1 DEF nextStep
  <2> QED BY <1>0, <1>1, <2>1
<1>2. CASE ~(h.i <= Len(MemberList))
  <2> DEFINE s == IF h.missing = {} THEN "resync" ELSE "handback"
             g == [h EXCEPT !.step = s, !.i = 1]
  <2>1. nextStep(h) = g
    BY <1>2 DEF nextStep
  <2>2. s \in Steps
    BY DEF Steps
  <2> HIDE DEF s
  <2>3. g \in HookType /\ g.got = h.got /\ g.missing = h.missing /\ g.step = s
    BY <1>0, <2>2 DEF HookType
  <2> HIDE DEF g
  <2> QED BY <1>0, <1>2, <2>1, <2>3 DEF s
<1> QED BY <1>1, <1>2

(* One answered reserve call: the hook's members grow by the granted one, which
   is now reserved, or by the missing one. *)
LEMMA ReserveStep == ASSUME IInv, NEW w \in Resumers, ReserveNext(w) PROVE IInv'
<1>0. TypeOK /\ hook \in [Resumers -> HookType]
  BY DEF IInv, TypeOK, HookType
<1> DEFINE h == hook[w]
           m == MemberList[h.i]
           hGot == [h EXCEPT !.i = @ + 1, !.got = @ \cup {m}]
           hMissing == [h EXCEPT !.i = @ + 1, !.missing = @ \cup {m}]
<1>1. /\ h \in HookType /\ h.step = "reserve" /\ h.i \in 1..Len(MemberList) /\ m \in Members
      /\ \A j \in 1..(h.i - 1) : MemberList[j] \in h.got \cup h.missing
      /\ \A n \in h.got : reservedBy[n] = This \/ n \in late
  BY <1>0, MemberFacts DEF ReserveNext, IInv, HookInv, LoopProgress, StillHeld
<1>2. /\ hGot \in HookType /\ hGot.step = "reserve" /\ hGot.i = h.i + 1
      /\ hGot.got = h.got \cup {m} /\ hGot.missing = h.missing
  <2> DEFINE i1 == h.i + 1
             M1 == h.got \cup {m}
  <2>1. i1 \in 1..(Len(MemberList) + 1) /\ M1 \in SUBSET Members
    BY <1>1, MemberFacts DEF HookType
  <2>2. hGot = [h EXCEPT !.i = i1, !.got = M1]
    OBVIOUS
  <2> HIDE DEF h, m, i1, M1, hGot
  <2>3. /\ hGot \in HookType /\ hGot.step = "reserve" /\ hGot.i = i1
        /\ hGot.got = M1 /\ hGot.missing = h.missing
    BY <1>1, <2>1, <2>2 DEF HookType
  <2> QED BY <2>3 DEF i1, M1
<1>3. /\ hMissing \in HookType /\ hMissing.step = "reserve" /\ hMissing.i = h.i + 1
      /\ hMissing.got = h.got /\ hMissing.missing = h.missing \cup {m}
  <2> DEFINE i1 == h.i + 1
             M1 == h.missing \cup {m}
  <2>1. i1 \in 1..(Len(MemberList) + 1) /\ M1 \in SUBSET Members
    BY <1>1, MemberFacts DEF HookType
  <2>2. hMissing = [h EXCEPT !.i = i1, !.missing = M1]
    OBVIOUS
  <2> HIDE DEF h, m, i1, M1, hMissing
  <2>3. /\ hMissing \in HookType /\ hMissing.step = "reserve" /\ hMissing.i = i1
        /\ hMissing.got = h.got /\ hMissing.missing = M1
    BY <1>1, <2>1, <2>2 DEF HookType
  <2> QED BY <2>3 DEF i1, M1
<1>4. PICK g \in {hGot, hMissing} :
        /\ hook' = [hook EXCEPT ![w] = nextStep(g)]
        /\ \/ reserve(m)
           \/ g = hMissing /\ UNCHANGED <<reservedBy, late>>
        /\ UNCHANGED faults \/ Fault
        /\ UNCHANGED <<engine, script, handback, pauses, limits>>
  BY DEF ReserveNext
<1> HIDE DEF hGot, hMissing
<1>5. /\ g \in HookType /\ g.step = "reserve" /\ g.i = h.i + 1
      /\ g.got \cup g.missing = h.got \cup h.missing \cup {m}
      /\ g.got \subseteq h.got \cup {m}
      /\ g = hMissing => g.got = h.got
  BY <1>2, <1>3
<1>6. /\ reservedBy' \in [Members -> {None, This, Other}] /\ late' \in SUBSET Members
      /\ \A n \in Members : reservedBy[n] = This \/ n \in late => reservedBy'[n] = This \/ n \in late'
      /\ \A n \in g.got : reservedBy'[n] = This \/ n \in late'
  <2>1. CASE reserve(m)
    BY <1>0, <1>1, <1>5, <2>1 DEF TypeOK, reserve, HookType
  <2>2. CASE g = hMissing /\ UNCHANGED <<reservedBy, late>>
    BY <1>0, <1>1, <1>5, <2>2 DEF TypeOK
  <2> QED BY <1>4, <2>1, <2>2
<1> DEFINE n == nextStep(g)
<1>7. /\ n \in HookType /\ n.got = g.got /\ n.missing = g.missing
      /\ g.i <= Len(MemberList) => n = g
      /\ g.i > Len(MemberList) => n.step = IF g.missing = {} THEN "resync" ELSE "handback"
  BY <1>5, NextStepFacts
<1> HIDE DEF n, h, m
<1>8. hook' \in [Resumers -> HookType] /\ hook'[w] = n /\ \A v \in Resumers \ {w} : hook'[v] = hook[v]
  BY <1>0, <1>4, <1>7 DEF n
<1>9. faults' \in 0..MaxFaults
  BY <1>0, <1>4, PauseConstants DEF TypeOK, Fault
<1>10. TypeOK'
  BY <1>0, <1>4, <1>6, <1>8, <1>9 DEF TypeOK, HookType, engine, script
<1>11. EngineInv'
  BY <1>4 DEF IInv, EngineInv, PausedIsQuiet, BoundaryEngages, AtBoundary, engine, script
<1>12. RunsReserved'
  BY <1>4, <1>6 DEF IInv, RunsReserved, engine
<1>13. ASSUME NEW v \in Resumers PROVE (LoopProgress(v) /\ StillHeld(v))'
  <2>1. CASE v = w
    <3>1. StillHeld(v)'
      BY <1>6, <1>7, <1>8, <2>1 DEF StillHeld
    <3>2. LoopProgress(v)'
      <4>0. Len(MemberList) \in Nat /\ h.i \in 1..Len(MemberList) /\ MemberList[h.i] = m
        BY <1>1, MemberFacts DEF m
      <4>1. CASE h.i < Len(MemberList)
        <5>1. n = g /\ n.step = "reserve" /\ n.i = h.i + 1 /\ n.i \in 1..Len(MemberList)
          BY <1>5, <1>7, <4>0, <4>1
        <5>2. \A j \in 1..(n.i - 1) : MemberList[j] \in n.got \cup n.missing
          BY <1>1, <1>5, <4>0, <5>1
        <5> QED BY <1>8, <2>1, <5>1, <5>2, MemberFacts DEF LoopProgress
      <4>2. CASE h.i = Len(MemberList)
        <5>1. n.step = IF n.missing = {} THEN "resync" ELSE "handback"
          BY <1>5, <1>7, <4>0, <4>2
        <5>2. \A i \in 1..Len(MemberList) : MemberList[i] \in n.got \cup n.missing
          BY <1>1, <1>5, <1>7, <4>0, <4>2
        <5>3. \A p \in Members : p \in n.got \cup n.missing
          BY <5>2, MemberFacts
        <5> QED BY <1>8, <2>1, <5>1, <5>3 DEF LoopProgress
      <4> QED BY <4>0, <4>1, <4>2
    <3> QED BY <3>1, <3>2
  <2>2. CASE v # w
    <3>1. hook'[v] = hook[v] /\ hook[v].got \subseteq Members
      BY <1>0, <1>8, <2>2 DEF HookType
    <3> QED BY <1>6, <3>1 DEF IInv, HookInv, LoopProgress, StillHeld
  <2> QED BY <2>1, <2>2
<1> QED BY <1>10, <1>11, <1>12, <1>13 DEF IInv, HookInv

(* A failed resume hands back one member: no other resume loses it silently. *)
LEMMA HandBackStep == ASSUME IInv, NEW w \in Resumers, HandBackNext(w) PROVE IInv'
<1>0. TypeOK /\ hook \in [Resumers -> HookType]
  BY DEF IInv, TypeOK, HookType
<1>1. PICK m \in Members :
        release(m) /\ hook' = [hook EXCEPT ![w].got = @ \ {m}]
  BY MemberFacts DEF HandBackNext
<1>2. /\ hook[w].step = "handback"
      /\ UNCHANGED <<engine, script, handback, pauses, limits, faults>>
  BY DEF HandBackNext
<1>3. /\ reservedBy' \in [Members -> {None, This, Other}] /\ late' \in SUBSET Members
      /\ \A n \in Members : reservedBy[n] = This \/ n \in late =>
           reservedBy'[n] = This \/ n \in late' \/ (n = m /\ ~Wanted(m))
  BY <1>1, ReleaseFacts
<1> DEFINE h == hook[w]
           M1 == h.got \ {m}
           g == [h EXCEPT !.got = M1]
<1>4. h \in HookType /\ M1 \in SUBSET Members /\ hook' = [hook EXCEPT ![w] = g]
  BY <1>0, <1>1 DEF HookType
<1>5. g \in HookType /\ g.step = h.step
  <2> HIDE DEF h, M1
  <2> QED BY <1>4 DEF HookType
<1> HIDE DEF M1, g
<1>6. /\ hook' \in [Resumers -> HookType] /\ hook'[w].step = "handback"
      /\ \A v \in Resumers \ {w} : hook'[v] = hook[v]
  BY <1>0, <1>2, <1>4, <1>5
<1>7. TypeOK'
  BY <1>0, <1>2, <1>3, <1>6 DEF TypeOK, HookType, engine, script
<1>8. EngineInv'
  BY <1>2 DEF IInv, EngineInv, PausedIsQuiet, BoundaryEngages, AtBoundary, engine, script
<1>9. ASSUME NEW v \in Resumers PROVE (LoopProgress(v) /\ StillHeld(v))'
  <2>1. CASE v = w
    BY <1>6, <2>1 DEF LoopProgress, StillHeld
  <2>2. CASE v # w
    <3>1. hook'[v] = hook[v] /\ hook[v].got \subseteq Members
      BY <1>0, <1>6, <2>2 DEF HookType
    <3>2. LoopProgress(v)'
      BY <3>1 DEF IInv, HookInv, LoopProgress
    <3>3. StillHeld(v)'
      BY <1>3, <3>1 DEF IInv, HookInv, StillHeld, Wanted
    <3> QED BY <3>2, <3>3
  <2> QED BY <2>1, <2>2
<1>10. RunsReserved'
  BY <1>2, <1>3 DEF IInv, RunsReserved, Wanted, engine
<1> QED BY <1>7, <1>8, <1>9, <1>10 DEF IInv, HookInv

(* A hook that fails parks the run again. *)
LEMMA HookFailsStep ==
    ASSUME IInv, NEW w \in Resumers, hookFails(w), UNCHANGED faults \/ Fault
    PROVE  IInv'
<1>0. TypeOK /\ hook \in [Resumers -> HookType]
  BY DEF IInv, TypeOK, HookType
<1>1. /\ hook' = [hook EXCEPT ![w] = NoHook]
      /\ at' = [b \in Branches |-> IF b = w THEN "done" ELSE at[b]]
      /\ requestPause(at', bracket)
      /\ UNCHANGED <<stopped, probing, bracket, calls, reservedBy, late, limits>>
  BY DEF hookFails
<1>2. /\ pauseRequested' \in BOOLEAN /\ paused' \in BOOLEAN
      /\ pauses' \in 0..MaxPauses /\ (paused => paused')
      /\ (AtBoundary(at', bracket) => paused')
      /\ (paused' => paused \/ AtBoundary(at', bracket))
      /\ handback' \in [1..MaxPauses -> 0..(Len(MemberList) + 1)]
  BY <1>0, <1>1, RequestFacts
<1>3. faults' \in 0..MaxFaults
  BY <1>0, PauseConstants DEF TypeOK, Fault
<1>4. /\ hook' \in [Resumers -> HookType] /\ hook'[w] = NoHook
      /\ \A v \in Resumers \ {w} : hook'[v] = hook[v]
  BY <1>0, <1>1, NoHookFacts
<1>5. TypeOK'
  <2>1. at' \in [Branches -> {"script", "gate", "flight", "asleep", "resuming", "done"}]
    BY <1>0, <1>1 DEF TypeOK
  <2> QED BY <1>0, <1>1, <1>2, <1>3, <1>4, <2>1 DEF TypeOK, HookType
<1>6. EngineInv'
  BY <1>0, <1>1, <1>2, EngineKept DEF AtBoundary
<1>7. ASSUME NEW v \in Resumers PROVE (LoopProgress(v) /\ StillHeld(v))'
  <2>1. CASE v = w
    BY <1>4, <2>1, NoHookFacts DEF LoopProgress, StillHeld
  <2>2. CASE v # w
    BY <1>1, <1>4, <2>2 DEF IInv, HookInv, LoopProgress, StillHeld
  <2> QED BY <2>1, <2>2
<1>8. RunsReserved'
  BY <1>1, <1>2 DEF IInv, RunsReserved
<1> QED BY <1>5, <1>6, <1>7, <1>8 DEF IInv, HookInv

(* One member is back in step. *)
LEMMA ResyncStep == ASSUME IInv, NEW w \in Resumers, ResyncNext(w) PROVE IInv'
<1>0. TypeOK /\ hook \in [Resumers -> HookType]
  BY DEF IInv, TypeOK, HookType
<1>1. CASE Fault /\ hookFails(w)
  BY <1>1, HookFailsStep
<1>2. CASE /\ hook' = [hook EXCEPT ![w].i = @ + 1]
           /\ UNCHANGED <<engine, script, handback, reservedBy, late, pauses, limits, faults>>
  <2> DEFINE h == hook[w]
             i1 == h.i + 1
             g == [h EXCEPT !.i = i1]
  <2>1. /\ h \in HookType /\ h.step = "resync" /\ i1 \in 1..(Len(MemberList) + 1)
        /\ hook' = [hook EXCEPT ![w] = g]
    BY <1>0, <1>2, MemberFacts DEF ResyncNext, HookType
  <2>2. g \in HookType /\ g.step = "resync" /\ g.got = h.got
    <3> HIDE DEF h, i1
    <3> QED BY <2>1 DEF HookType
  <2> HIDE DEF g, i1
  <2>3. /\ hook' \in [Resumers -> HookType] /\ hook'[w] = g
        /\ \A v \in Resumers \ {w} : hook'[v] = hook[v]
    BY <1>0, <2>1, <2>2
  <2>4. TypeOK'
    BY <1>0, <1>2, <2>3 DEF TypeOK, HookType, engine, script
  <2>5. EngineInv' /\ RunsReserved'
    BY <1>2 DEF IInv, EngineInv, PausedIsQuiet, BoundaryEngages, AtBoundary, RunsReserved, engine, script
  <2>6. ASSUME NEW v \in Resumers PROVE (LoopProgress(v) /\ StillHeld(v))'
    <3>1. CASE v = w
      BY <1>2, <2>1, <2>2, <2>3, <3>1 DEF IInv, HookInv, LoopProgress, StillHeld
    <3>2. CASE v # w
      BY <1>2, <2>3, <3>2 DEF IInv, HookInv, LoopProgress, StillHeld
    <3> QED BY <3>1, <3>2
  <2> QED BY <2>4, <2>5, <2>6 DEF IInv, HookInv
<1> QED BY <1>1, <1>2 DEF ResyncNext

(* The barrier is passed: every member was re-reserved, and is still held or
   was handed back behind the resume's back. *)
LEMMA ResumedStep == ASSUME IInv, NEW w \in Resumers, Resumed(w) PROVE IInv'
<1>0. TypeOK /\ hook \in [Resumers -> HookType]
  BY DEF IInv, TypeOK, HookType
<1>1. /\ hook' = [hook EXCEPT ![w] = NoHook] /\ hook[w].step = "resync"
      /\ UNCHANGED <<stopped, calls, handback, reservedBy, late, pauses, limits, faults>>
      /\ paused' = FALSE /\ pauseRequested' = FALSE
  BY DEF Resumed
<1>2. /\ hook' \in [Resumers -> HookType] /\ hook'[w] = NoHook
      /\ \A v \in Resumers \ {w} : hook'[v] = hook[v]
  BY <1>0, <1>1, NoHookFacts
<1>3. TypeOK'
  <2>1. at' \in [Branches -> {"script", "gate", "flight", "asleep", "resuming", "done"}]
    BY <1>0 DEF TypeOK, Resumed, Admit
  <2>2. bracket' \in [Branches -> {"none", "open", "mid"}]
    BY <1>0 DEF TypeOK, Resumed
  <2>3. probing' \in [Branches -> BOOLEAN]
    BY <1>0 DEF TypeOK, Resumed
  <2> QED BY <1>0, <1>1, <1>2, <2>1, <2>2, <2>3 DEF TypeOK, HookType
<1>4. EngineInv'
  BY <1>1 DEF EngineInv, PausedIsQuiet, BoundaryEngages
<1>5. ASSUME NEW v \in Resumers PROVE (LoopProgress(v) /\ StillHeld(v))'
  <2>1. CASE v = w
    BY <1>2, <2>1, NoHookFacts DEF LoopProgress, StillHeld
  <2>2. CASE v # w
    BY <1>1, <1>2, <2>2 DEF IInv, HookInv, LoopProgress, StillHeld
  <2> QED BY <2>1, <2>2
<1>6. RunsReserved'
  BY <1>1 DEF IInv, HookInv, LoopProgress, StillHeld, RunsReserved
<1> QED BY <1>3, <1>4, <1>5, <1>6 DEF IInv, HookInv

----------------------------------------------------------------------------
(* The invariant is inductive. *)
LEMMA NextIInv == ASSUME IInv, [Next]_vars PROVE IInv'
<1>1. ASSUME NEW b \in Branches, Script(b) \/ Answer(b) \/ Wake(b) PROVE IInv'
  BY <1>1, ScriptStep, AnswerStep
<1>2. CASE OperatorPause \/ OperatorResume \/ OperatorStop
  BY <1>2, OperatorStep
<1>3. ASSUME NEW w \in Resumers, Hook(w) PROVE IInv'
  <2>1. CASE ResumeFails(w)
    BY <2>1, HookFailsStep DEF ResumeFails
  <2> QED BY <1>3, <2>1, ReserveStep, HandBackStep, ResyncStep, ResumedStep DEF Hook
<1>4. CASE \E k \in 1..MaxPauses : ReleaseNext(k)
  BY <1>4, ReservationStep
<1>5. CASE \E m \in Contended : OtherReserve(m) \/ OtherRelease(m)
  BY <1>5, ReservationStep
<1>6. CASE UNCHANGED vars
  <2>1. TypeOK'
    BY <1>6 DEF IInv, TypeOK, vars, engine, script
  <2>2. EngineInv'
    BY <1>6 DEF IInv, EngineInv, PausedIsQuiet, BoundaryEngages, AtBoundary, vars, engine, script
  <2>3. HookInv' /\ RunsReserved'
    BY <1>6, HooksKept DEF vars, engine
  <2> QED BY <2>1, <2>2, <2>3 DEF IInv
<1> QED BY <1>1, <1>2, <1>3, <1>4, <1>5, <1>6 DEF Next

(* The inductive invariant holds in every reachable state. *)
LEMMA Invariance == Spec => []IInv
BY InitIInv, NextIInv, PTL DEF Spec

(* The pause machinery keeps its types: no loop index leaves the list of
   members, and no counter its bound. *)
THEOREM PauseTypeCorrect == Spec => []TypeOK
<1>1. IInv => TypeOK
  BY DEF IInv
<1> QED BY <1>1, Invariance, PTL

(* For any number of branches: a paused run has no call in flight and no sync
   bracket between two of its calls (index.mjs _maybeEngagePause, git-sync.mjs
   withOpenSyncBracket). *)
THEOREM PausedRunsAreQuiet == Spec => []PausedIsQuiet
<1>1. IInv => PausedIsQuiet
  BY DEF IInv, EngineInv
<1> QED BY <1>1, Invariance, PTL

(* A requested pause is never stranded at a boundary: every path that can reach
   one looks again. *)
THEOREM PauseNeverStranded == Spec => []BoundaryEngages
<1>1. IInv => BoundaryEngages
  BY DEF IInv, EngineInv
<1> QED BY <1>1, Invariance, PTL

(* A running sprint holds every member of the list, but for the ones that a
   late hand-back of its own gave away (bin/cli.mjs, the 'paused' listener). *)
THEOREM RunningHoldsMembers == Spec => []RunsReserved
<1>1. IInv => RunsReserved
  BY DEF IInv
<1> QED BY <1>1, Invariance, PTL
=============================================================================
