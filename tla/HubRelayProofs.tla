--------------------------- MODULE HubRelayProofs ---------------------------
(***************************************************************************)
(* Proofs about HubRelay: the types of its state, that a request is        *)
(* handled again only if its target has forgotten it, that what a caller   *)
(* is told has happened, and that the queue keeps the promise of           *)
(* AtLeastOnce.                                                            *)
(***************************************************************************)
EXTENDS HubRelay, TLAPS

ReqOf(r) == env(r, "request", 1)

\* What must have happened before e can be in the system at all.
Founded(e) ==
    /\ e.kind \in {"update", "result", "second"} => runs[e.request] > 0
    /\ e.kind = "ttlFailed" => status[ReqOf(e.request)] = "expired"

\* Nothing is submitted or queued without its reason.
Provenance ==
    \A e \in Envelopes : post[e] # "none" \/ status[e] # "none" => Founded(e)

\* The sweep has failures to send for expired requests only.
Sweeps == \A e \in sweeping : e.kind = "request" /\ status[e] = "expired"

\* A spoke reads, handles and acknowledges rows of the queue that are for it,
\* and acknowledges only what it has handled.
Admitted ==
    /\ \A e \in wire : status[e] # "none"
    /\ \A m \in Spokes : handling[m] # None =>
                           to(handling[m]) = m /\ status[handling[m]] # "none"
    /\ \A m \in acking : handling[m] # None /\ handling[m] \in handled

\* The executor works on the request its loop is handling.
Executing ==
    exec # "idle" => /\ handling[Target] # None /\ Target \notin acking
                     /\ runs[handling[Target].request] > 0

\* Beyond the handlings the target has forgotten, a request was handled only
\* if the target remembers it.
RunsCovered ==
    \A r \in Requests :
        runs[r] <= forgotten[r] + (IF ReqOf(r) \in seen[Target] THEN 1 ELSE 0)

HubInv == /\ TypeOK /\ Provenance /\ Sweeps /\ Admitted /\ Executing
          /\ RunsCovered /\ AnswersAreFounded

\* The envelopes the model names are envelopes, with the parts they are made of.
LEMMA EnvParts ==
    ASSUME NEW r \in Requests, NEW k \in Kinds, NEW n \in 1..MaxRuns,
           k \in {"request", "ttlFailed"} => n = 1
    PROVE  /\ env(r, k, n) \in Envelopes
           /\ env(r, k, n).request = r /\ env(r, k, n).kind = k
  BY DEF env, Envelopes

\* What is known of any envelope; the only one for the target is a request.
LEMMA EnvelopeParts ==
    ASSUME NEW e \in Envelopes
    PROVE  /\ e.request \in Requests /\ e.kind \in Kinds /\ e # None
           /\ to(e) \in Spokes /\ (to(e) = Target <=> e.kind = "request")
           /\ e.kind = "request" => e = ReqOf(e.request)
<1>1. e.request \in Requests /\ e.kind \in Kinds /\ e.run \in 1..MaxRuns
  BY DEF Envelopes
<1>2. e = env(e.request, e.kind, e.run)
  BY DEF Envelopes, env
<1>3. e.kind = "request" => e.run = 1
  BY DEF Envelopes
<1>4. e # None
  BY NoneAssumption
<1>5. to(e) \in Spokes /\ (to(e) = Target <=> e.kind = "request")
  BY SpokesAssumption DEF to, Spokes
<1> QED BY <1>1, <1>2, <1>3, <1>4, <1>5 DEF ReqOf

\* The request of a relayed command is an envelope like any other.
LEMMA ReqParts ==
    ASSUME NEW r \in Requests
    PROVE  /\ ReqOf(r) \in Envelopes /\ ReqOf(r).request = r
           /\ ReqOf(r).kind = "request" /\ to(ReqOf(r)) = Target
<1>1. "request" \in Kinds /\ 1 \in 1..MaxRuns
  BY RunsAssumption DEF Kinds
<1> QED BY <1>1, EnvParts DEF ReqOf, to

\* While the executor is busy its loop handles a request that has been run.
LEMMA ExecutorParts ==
    ASSUME HubInv, exec # "idle"
    PROVE  /\ handling[Target] \in Envelopes /\ Target \notin acking
           /\ Now \in Requests /\ runs[Now] \in 1..MaxRuns
<1>1. handling[Target] \in Envelopes /\ Target \notin acking /\ runs[Now] > 0
  BY DEF HubInv, TypeOK, Executing, Spokes, Now
<1>2. Now \in Requests
  BY <1>1, EnvelopeParts DEF Now
<1> QED BY <1>1, <1>2, RunsAssumption DEF HubInv, TypeOK

\* What the executor posts is an envelope, and has its reason.
LEMMA Outbound ==
    ASSUME HubInv, exec # "idle", NEW k \in {"update", "result", "second"}
    PROVE  \E f \in Envelopes : f = env(Now, k, runs[Now]) /\ Founded(f)
<1>1. k \in Kinds /\ Now \in Requests /\ runs[Now] \in 1..MaxRuns
  BY ExecutorParts DEF Kinds
<1>2. /\ env(Now, k, runs[Now]) \in Envelopes
      /\ env(Now, k, runs[Now]).request = Now /\ env(Now, k, runs[Now]).kind = k
  BY <1>1, EnvParts
<1>3. runs[Now] > 0
  BY <1>1, RunsAssumption
<1>4. Founded(env(Now, k, runs[Now]))
  BY <1>2, <1>3 DEF Founded
<1> QED BY <1>2, <1>4

\* What a cache loses keeps its types, and is counted.
LEMMA ForgetType ==
    ASSUME HubInv, NEW m \in Spokes, NEW E, Forget(m, E)
    PROVE  seen' \in [Spokes -> SUBSET Envelopes] /\ forgotten' \in [Requests -> Nat]
<1>1. seen' \in [Spokes -> SUBSET Envelopes]
  BY DEF Forget, HubInv, TypeOK
<1>2. forgotten' \in [Requests -> Nat]
  BY DEF Forget, HubInv, TypeOK
<1> QED BY <1>1, <1>2

LEMMA ForgetCovered ==
    ASSUME HubInv, NEW m \in Spokes, NEW E, Forget(m, E), runs' = runs
    PROVE  RunsCovered'
<1> SUFFICES ASSUME NEW r \in Requests
             PROVE  runs[r] <= forgotten'[r]
                                + (IF ReqOf(r) \in seen'[Target] THEN 1 ELSE 0)
  BY DEF RunsCovered, ReqOf, env
<1>1. /\ runs[r] \in Nat /\ forgotten[r] \in Nat /\ Target \in Spokes
      /\ runs[r] <= forgotten[r] + (IF ReqOf(r) \in seen[Target] THEN 1 ELSE 0)
  BY RunsAssumption DEF HubInv, TypeOK, RunsCovered, Spokes
<1>2. seen'[Target] = IF m = Target THEN seen[m] \ E ELSE seen[Target]
  BY <1>1 DEF Forget, HubInv, TypeOK
<1>3. forgotten'[r] = IF m = Target /\ ReqOf(r) \in seen[m] \cap E
                      THEN forgotten[r] + 1 ELSE forgotten[r]
  BY DEF Forget, ReqOf
<1>4. CASE m = Target /\ ReqOf(r) \in seen[m] \cap E
  BY <1>1, <1>2, <1>3, <1>4
<1>5. CASE ~(m = Target /\ ReqOf(r) \in seen[m] \cap E)
  BY <1>1, <1>2, <1>3, <1>5
<1> QED BY <1>4, <1>5

\* A submission arrives: its envelope had its reason before it was posted.
LEMMA ReceiveInv ==
    ASSUME HubInv, NEW e \in Envelopes, Receive(e)
    PROVE  HubInv'
<1>1. TypeOK'
  BY FaultsAssumption DEF HubInv, TypeOK, Receive, enqueue, insert, Ended,
       Posted, Fault, queueVars, streamVars, loopVars
<1>2. Provenance'
  BY EnvelopeParts, ReqParts DEF HubInv, TypeOK, Provenance, Founded, Receive,
       enqueue, insert, Ended, Posted, Fault, queueVars, streamVars, loopVars
<1>3. Sweeps' /\ Admitted' /\ Executing' /\ RunsCovered'
  BY DEF HubInv, TypeOK, Sweeps, Admitted, Executing, RunsCovered, Receive,
       enqueue, insert, Ended, Posted, Fault, queueVars, streamVars, loopVars
<1>4. AnswersAreFounded'
  BY ReqParts DEF HubInv, TypeOK, AnswersAreFounded, ReqOf, Receive, enqueue,
       insert, Ended, Posted, Fault, queueVars, streamVars, loopVars
<1> QED BY <1>1, <1>2, <1>3, <1>4 DEF HubInv

\* Delivery moves an admitted row, and admits none.
LEMMA PollInv ==
    ASSUME HubInv, NEW e \in Envelopes, Poll(e)
    PROVE  HubInv'
<1>1. TypeOK'
  BY FaultsAssumption DEF HubInv, TypeOK, Poll, Deliverable, Live, Fault,
       queueVars, streamVars, loopVars
<1>2. Provenance' /\ Sweeps' /\ Admitted' /\ Executing' /\ RunsCovered' /\ AnswersAreFounded'
  BY DEF HubInv, Provenance, Founded, Sweeps, Admitted, Executing, TypeOK,
       RunsCovered, AnswersAreFounded, Poll, Deliverable, Live, Fault,
       queueVars, streamVars, loopVars
<1> QED BY <1>1, <1>2 DEF HubInv

\* A row expires; what was told of an expiry stays true.
LEMMA SweepInv ==
    ASSUME HubInv, NEW e \in Envelopes, Sweep(e)
    PROVE  HubInv'
<1>1. TypeOK'
  BY DEF HubInv, TypeOK, Sweep, Live, queueVars, streamVars, loopVars
<1>2. Provenance' /\ Sweeps' /\ Admitted' /\ Executing' /\ RunsCovered' /\ AnswersAreFounded'
  BY DEF HubInv, Provenance, Founded, TypeOK, Sweeps, Admitted, Executing,
       RunsCovered, AnswersAreFounded, Sweep, Live, queueVars, streamVars,
       loopVars
<1> QED BY <1>1, <1>2 DEF HubInv

\* The failure is queued for a request that has expired.
LEMMA SweepAnswerInv ==
    ASSUME HubInv, NEW e \in Envelopes, SweepAnswer(e)
    PROVE  HubInv'
<1>1. TypeOK'
  BY DEF HubInv, TypeOK, SweepAnswer, enqueue, insert, queueVars, streamVars,
       loopVars
<1>2. Provenance'
  <2>1. e.kind = "request" /\ status[e] = "expired" /\ e = ReqOf(e.request)
    BY EnvelopeParts DEF SweepAnswer, HubInv, Sweeps
  <2>2. 1 \in 1..MaxRuns /\ "ttlFailed" \in Kinds /\ e.request \in Requests
    BY RunsAssumption, EnvelopeParts DEF Kinds
  <2>3. PICK f \in Envelopes : /\ f = env(e.request, "ttlFailed", 1)
                               /\ f.kind = "ttlFailed" /\ f.request = e.request
    BY <2>2, EnvParts
  <2>4. Founded(f)
    BY <2>1, <2>3 DEF Founded
  <2>5. /\ status' = [status EXCEPT ![f] = IF @ = "none" THEN "pending" ELSE @]
           \/ UNCHANGED status
        /\ UNCHANGED <<post, runs>>
    BY <2>3 DEF SweepAnswer, enqueue, insert
  <2> QED BY <2>4, <2>5, ReqParts, EnvelopeParts DEF HubInv, TypeOK, Provenance, Founded
<1>3. Sweeps' /\ Admitted' /\ Executing' /\ RunsCovered'
  BY DEF HubInv, TypeOK, Sweeps, Admitted, Executing, RunsCovered,
       SweepAnswer, enqueue, insert, queueVars, streamVars, loopVars
<1>4. AnswersAreFounded'
  BY ReqParts DEF HubInv, TypeOK, AnswersAreFounded, ReqOf, SweepAnswer,
       enqueue, insert, queueVars, streamVars, loopVars
<1> QED BY <1>1, <1>2, <1>3, <1>4 DEF HubInv

\* A duplicate is dropped.
LEMMA SkipInv ==
    ASSUME HubInv, NEW e \in Envelopes, Skip(e)
    PROVE  HubInv'
<1>1. TypeOK'
  BY DEF HubInv, TypeOK, Skip, queueVars, streamVars, loopVars
<1>2. Provenance' /\ Sweeps' /\ Admitted' /\ Executing' /\ RunsCovered' /\ AnswersAreFounded'
  BY DEF HubInv, Provenance, Founded, Sweeps, Admitted, Executing,
       RunsCovered, AnswersAreFounded, Skip, queueVars, streamVars, loopVars
<1> QED BY <1>1, <1>2 DEF HubInv

\* An entry of a cache lapses; if it was a request's, the handling it stood for
\* counts as forgotten.
LEMMA EvictInv ==
    ASSUME HubInv, NEW e \in Envelopes, Evict(e)
    PROVE  HubInv'
<1>1. TypeOK'
  <2>1. to(e) \in Spokes
    BY EnvelopeParts
  <2>2. seen' \in [Spokes -> SUBSET Envelopes] /\ forgotten' \in [Requests -> Nat]
    BY <2>1, ForgetType DEF Evict, HubInv
  <2>3. faults' \in 0..MaxFaults
    BY FaultsAssumption DEF Evict, Fault, HubInv, TypeOK
  <2> QED BY <2>2, <2>3 DEF Evict, HubInv, TypeOK, queueVars, streamVars
<1>2. RunsCovered'
  <2>1. to(e) \in Spokes /\ runs' = runs
    BY EnvelopeParts DEF Evict
  <2> QED BY <2>1, ForgetCovered DEF Evict
<1>3. Provenance' /\ Sweeps' /\ Admitted' /\ Executing' /\ AnswersAreFounded'
  BY DEF HubInv, Provenance, Founded, Sweeps, Admitted, Executing,
       AnswersAreFounded, Evict, queueVars, streamVars
<1> QED BY <1>1, <1>2, <1>3 DEF HubInv

\* An unseen envelope is marked, and executed or handed to its caller.
LEMMA ConsumeInv ==
    ASSUME HubInv, NEW e \in Envelopes, Consume(e)
    PROVE  HubInv'
<1>1. TypeOK'
  <2>1. to(e) \in Spokes /\ e.request \in Requests /\ Origin \in Spokes
    BY EnvelopeParts DEF Spokes
  <2>2. CASE to(e) = Target
    <3>1. runs' \in [Requests -> 0..MaxRuns] /\ UNCHANGED <<caller, acking, handled>>
      BY <2>1, <2>2, RunsAssumption DEF Consume, execute, HubInv, TypeOK
    <3>2. post' \in [Envelopes -> {"none", "sent", "answered", "error"}]
      BY <2>2 DEF Consume, execute, Posted, HubInv, TypeOK
    <3>3. exec' \in {"idle", "running", "reported", "result", "caught", "second"}
      BY <2>2 DEF Consume, execute
    <3> QED BY <2>1, <3>1, <3>2, <3>3 DEF Consume, HubInv, TypeOK, queueVars
  <2>3. CASE to(e) # Target
    <3>1. /\ acking' \subseteq Spokes /\ handled' \subseteq Envelopes
          /\ UNCHANGED <<post, exec, runs>>
      BY <2>1, <2>3 DEF Consume, resolve, HubInv, TypeOK
    <3>2. e.kind \in {"update", "result", "second", "ttlFailed"}
      BY <2>3, EnvelopeParts DEF Kinds
    <3>3. caller' \in [Requests -> {"idle", "waiting", "result", "update",
                                    "ttlFailed", "gaveUp"}]
      BY <2>1, <2>3, <3>2 DEF Consume, resolve, HubInv, TypeOK
    <3> QED BY <2>1, <3>1, <3>3 DEF Consume, HubInv, TypeOK, queueVars
  <2> QED BY <2>2, <2>3
<1>2. Provenance'
  <2>1. e.request \in Requests /\ UNCHANGED status
    BY EnvelopeParts DEF Consume, queueVars
  <2>2. CASE to(e) = Target
    <3>1. /\ runs' = [runs EXCEPT ![e.request] = @ + 1]
          /\ runs[e.request] < MaxRuns /\ runs \in [Requests -> 0..MaxRuns]
          /\ \/ UNCHANGED post
             \/ Posted(env(e.request, "result", runs[e.request] + 1), "sent")
      BY <2>2 DEF Consume, execute, HubInv, TypeOK
    <3>2. \A r \in Requests : runs[r] > 0 => runs'[r] > 0
      BY <2>1, <3>1, RunsAssumption
    <3>3. runs'[e.request] > 0 /\ runs[e.request] + 1 \in 1..MaxRuns
      BY <2>1, <3>1, RunsAssumption
    <3>4. PICK f \in Envelopes : /\ f = env(e.request, "result", runs[e.request] + 1)
                                 /\ f.kind = "result" /\ f.request = e.request
      BY <2>1, <3>3, EnvParts DEF Kinds
    <3>5. post' = post \/ post' = [post EXCEPT ![f] = "sent"]
      BY <3>1, <3>4 DEF Posted
    <3> QED BY <2>1, <3>2, <3>3, <3>4, <3>5, EnvelopeParts DEF HubInv, TypeOK, Provenance, Founded
  <2>3. CASE to(e) # Target
    BY <2>1, <2>3 DEF Consume, resolve, HubInv, Provenance, Founded
  <2> QED BY <2>2, <2>3
<1>3. Sweeps' /\ AnswersAreFounded'
  BY DEF HubInv, Sweeps, TypeOK, AnswersAreFounded, ReqOf, Provenance,
       Founded, Admitted, Consume, execute, resolve, Posted, queueVars,
       streamVars, loopVars
<1>4. Admitted'
  <2>1. /\ to(e) \in Spokes /\ e # None /\ status[e] # "none" /\ handling[to(e)] = None
        /\ wire' \subseteq wire /\ UNCHANGED status
        /\ handling' = [handling EXCEPT ![to(e)] = e]
        /\ handling \in [Spokes -> Envelopes \cup {None}] /\ acking \subseteq Spokes
    BY EnvelopeParts DEF Consume, queueVars, HubInv, TypeOK, Admitted
  <2>2. to(e) \notin acking
    BY <2>1 DEF HubInv, Admitted
  <2>3. \/ acking' = acking /\ handled' = handled
        \/ acking' = acking \cup {to(e)} /\ handled' = handled \cup {e}
    BY DEF Consume, execute, resolve, to
  <2>4. \A m \in Spokes : handling'[m] = IF m = to(e) THEN e ELSE handling[m]
    BY <2>1
  <2>5. \A m \in Spokes : handling'[m] # None =>
            to(handling'[m]) = m /\ status'[handling'[m]] # "none"
    BY <2>1, <2>4 DEF HubInv, Admitted
  <2>6. \A m \in acking' : handling'[m] # None /\ handling'[m] \in handled'
    BY <2>1, <2>2, <2>3, <2>4 DEF HubInv, Admitted
  <2>7. \A x \in wire' : status'[x] # "none"
    BY <2>1 DEF HubInv, Admitted
  <2> QED BY <2>5, <2>6, <2>7 DEF Admitted, to
<1>5. Executing'
  BY EnvelopeParts, SpokesAssumption DEF HubInv, TypeOK, Executing, Admitted,
       Consume, execute, resolve, Posted, queueVars, streamVars, loopVars
<1>6. RunsCovered'
  BY EnvelopeParts DEF HubInv, TypeOK, RunsCovered, Consume, execute, resolve,
       Posted, queueVars, streamVars, loopVars
<1> QED BY <1>1, <1>2, <1>3, <1>4, <1>5, <1>6 DEF HubInv

\* A stream opens.
LEMMA ConnectInv ==
    ASSUME HubInv, NEW m \in Spokes, Connect(m)
    PROVE  HubInv'
<1>1. TypeOK'
  BY DEF HubInv, TypeOK, Connect, queueVars, streamVars, loopVars
<1>2. Provenance' /\ Sweeps' /\ Admitted' /\ Executing' /\ RunsCovered' /\ AnswersAreFounded'
  BY DEF HubInv, Provenance, Founded, Sweeps, Admitted, Executing,
       RunsCovered, AnswersAreFounded, Connect, queueVars, streamVars,
       loopVars
<1> QED BY <1>1, <1>2 DEF HubInv

\* A stream breaks.
LEMMA DropInv ==
    ASSUME HubInv, NEW m \in Spokes, Drop(m)
    PROVE  HubInv'
<1>1. TypeOK'
  BY FaultsAssumption DEF HubInv, TypeOK, Drop, Hangup, Fault, queueVars,
       streamVars, loopVars
<1>2. Provenance' /\ Sweeps' /\ Admitted' /\ Executing' /\ RunsCovered' /\ AnswersAreFounded'
  BY DEF HubInv, Provenance, Founded, Sweeps, Admitted, Executing, TypeOK,
       RunsCovered, AnswersAreFounded, Drop, Hangup, Fault, queueVars,
       streamVars, loopVars
<1> QED BY <1>1, <1>2 DEF HubInv

\* An acknowledgement retires what was handled, or is lost.
LEMMA AckInv ==
    ASSUME HubInv, NEW m \in Spokes, Ack(m)
    PROVE  HubInv'
<1>1. TypeOK'
  BY FaultsAssumption DEF HubInv, TypeOK, Ack, retire, Live, Thrown, Hangup,
       Fault, queueVars, streamVars, loopVars
<1>2. Provenance'
  BY EnvelopeParts, ReqParts DEF HubInv, TypeOK, Provenance, Founded, Ack,
       retire, Live, Thrown, Hangup, Fault, queueVars, streamVars, loopVars
<1>3. Sweeps' /\ Admitted' /\ RunsCovered'
  BY DEF HubInv, TypeOK, Sweeps, Admitted, RunsCovered, Ack, retire, Live,
       Thrown, Hangup, Fault, queueVars, streamVars, loopVars
<1>4. Executing'
  BY EnvelopeParts, ReqParts DEF HubInv, TypeOK, Executing, Ack, retire, Live,
       Thrown, Hangup, Fault, queueVars, streamVars, loopVars
<1>5. AnswersAreFounded'
  BY ReqParts DEF HubInv, TypeOK, AnswersAreFounded, ReqOf, Ack, retire, Live,
       Thrown, Hangup, Fault, queueVars, streamVars, loopVars
<1> QED BY <1>1, <1>2, <1>3, <1>4, <1>5 DEF HubInv

\* A restart forgets what was seen, and is itself a fault.
LEMMA SpokeRestartInv ==
    ASSUME HubInv, NEW m \in Spokes, SpokeRestart(m)
    PROVE  HubInv'
<1>1. TypeOK'
  <2>1. seen' \in [Spokes -> SUBSET Envelopes] /\ forgotten' \in [Requests -> Nat]
    BY ForgetType DEF SpokeRestart
  <2>2. faults' \in 0..MaxFaults
    BY FaultsAssumption DEF SpokeRestart, Fault, HubInv, TypeOK
  <2> QED BY <2>1, <2>2 DEF SpokeRestart, Thrown, Hangup, HubInv, TypeOK, queueVars
<1>2. RunsCovered'
  BY ForgetCovered DEF SpokeRestart
<1>3. Provenance' /\ Sweeps' /\ Admitted' /\ Executing' /\ AnswersAreFounded'
  BY DEF HubInv, Provenance, Founded, Sweeps, Admitted, Executing, TypeOK,
       AnswersAreFounded, SpokeRestart, Thrown, Hangup, queueVars
<1> QED BY <1>1, <1>2, <1>3 DEF HubInv

\* A request is posted, which needs no reason.
LEMMA SubmitInv ==
    ASSUME HubInv, NEW r \in Requests, Submit(r)
    PROVE  HubInv'
<1>1. TypeOK'
  BY DEF HubInv, TypeOK, Submit, Posted, queueVars, streamVars, loopVars
<1>2. Provenance'
  <2>1. ReqOf(r) \in Envelopes /\ ReqOf(r).kind = "request"
    BY ReqParts
  <2>2. post' = [post EXCEPT ![ReqOf(r)] = "sent"] /\ UNCHANGED <<status, runs>>
    BY DEF Submit, Posted, ReqOf, queueVars
  <2> QED BY <2>1, <2>2 DEF HubInv, TypeOK, Provenance, Founded
<1>3. Sweeps' /\ Admitted' /\ Executing' /\ RunsCovered' /\ AnswersAreFounded'
  BY DEF HubInv, Sweeps, Admitted, Executing, RunsCovered, AnswersAreFounded,
       Submit, Posted, queueVars, streamVars, loopVars
<1> QED BY <1>1, <1>2, <1>3 DEF HubInv

\* A caller stops waiting.
LEMMA GiveUpInv ==
    ASSUME HubInv, NEW r \in Requests, GiveUp(r)
    PROVE  HubInv'
<1>1. TypeOK'
  BY DEF HubInv, TypeOK, GiveUp, queueVars, streamVars, loopVars
<1>2. Provenance' /\ Sweeps' /\ Admitted' /\ Executing' /\ RunsCovered' /\ AnswersAreFounded'
  BY DEF HubInv, Provenance, Founded, Sweeps, Admitted, Executing,
       RunsCovered, AnswersAreFounded, GiveUp, queueVars, streamVars, loopVars
<1> QED BY <1>1, <1>2 DEF HubInv

\* The hub restarts; its table stays.
LEMMA HubRestartInv ==
    ASSUME HubInv, HubRestart
    PROVE  HubInv'
<1>1. TypeOK'
  BY FaultsAssumption DEF HubInv, TypeOK, HubRestart, Fault, queueVars,
       streamVars, loopVars
<1>2. Provenance' /\ Sweeps' /\ Admitted' /\ Executing' /\ RunsCovered' /\ AnswersAreFounded'
  BY DEF HubInv, Provenance, Founded, Sweeps, Admitted, Executing, TypeOK,
       RunsCovered, AnswersAreFounded, HubRestart, Fault, queueVars,
       streamVars, loopVars
<1> QED BY <1>1, <1>2 DEF HubInv

\* An update is posted by a command that runs.
LEMMA UpdateInv ==
    ASSUME HubInv, Update
    PROVE  HubInv'
<1>1. TypeOK'
  BY DEF HubInv, TypeOK, Update, Posted, Now, queueVars, streamVars, loopVars
<1>2. Provenance'
  <2>1. PICK f \in Envelopes : f = env(Now, "update", runs[Now]) /\ Founded(f)
    BY Outbound DEF Update
  <2>2. post' = [post EXCEPT ![f] = "sent"] /\ UNCHANGED <<status, runs>>
    BY <2>1 DEF Update, Posted, queueVars
  <2> QED BY <2>1, <2>2 DEF HubInv, TypeOK, Provenance, Founded
<1>3. Sweeps' /\ Admitted' /\ Executing' /\ RunsCovered' /\ AnswersAreFounded'
  BY DEF HubInv, Sweeps, Admitted, Executing, RunsCovered, AnswersAreFounded,
       Update, Posted, Now, queueVars, streamVars, loopVars
<1> QED BY <1>1, <1>2, <1>3 DEF HubInv

\* A result is posted by a command that ran.
LEMMA FinishInv ==
    ASSUME HubInv, Finish
    PROVE  HubInv'
<1>1. TypeOK'
  BY DEF HubInv, TypeOK, Finish, Posted, Now, queueVars, streamVars, loopVars
<1>2. Provenance'
  <2>1. PICK f \in Envelopes : f = env(Now, "result", runs[Now]) /\ Founded(f)
    BY Outbound DEF Finish
  <2>2. post' = [post EXCEPT ![f] = "sent"] /\ UNCHANGED <<status, runs>>
    BY <2>1 DEF Finish, Posted, queueVars
  <2> QED BY <2>1, <2>2 DEF HubInv, TypeOK, Provenance, Founded
<1>3. Sweeps' /\ Admitted' /\ Executing' /\ RunsCovered' /\ AnswersAreFounded'
  BY DEF HubInv, Sweeps, Admitted, Executing, RunsCovered, AnswersAreFounded,
       Finish, Posted, Now, queueVars, streamVars, loopVars
<1> QED BY <1>1, <1>2, <1>3 DEF HubInv

\* The executor is done: its request is handled and may be acknowledged.
LEMMA SubmittedInv ==
    ASSUME HubInv, Submitted
    PROVE  HubInv'
<1>1. TypeOK'
  <2>1. handling[Target] \in Envelopes
    BY ExecutorParts DEF Submitted, Awaiting
  <2>2. post' \in [Envelopes -> {"none", "sent", "answered", "error"}]
    BY DEF Submitted, Posted, HubInv, TypeOK
  <2>3. handled' \subseteq Envelopes /\ acking' \subseteq Spokes /\ exec' = "idle"
    BY <2>1 DEF Submitted, HubInv, TypeOK, Spokes
  <2> QED BY <2>2, <2>3 DEF Submitted, HubInv, TypeOK, queueVars, streamVars
<1>2. Provenance' /\ Sweeps' /\ Executing' /\ RunsCovered' /\ AnswersAreFounded'
  BY DEF HubInv, Provenance, Founded, Sweeps, Executing, RunsCovered,
       AnswersAreFounded, Submitted, Posted, Now, Outgoing, Awaiting,
       queueVars, streamVars, loopVars
<1>3. Admitted'
  <2>1. handling[Target] \in Envelopes
    BY ExecutorParts DEF Submitted, Awaiting
  <2>2. handling[Target] # None
    BY <2>1, NoneAssumption
  <2> QED BY <2>2 DEF Submitted, HubInv, Admitted, queueVars, streamVars, to
<1> QED BY <1>1, <1>2, <1>3 DEF HubInv

\* A second result replaces the first one, which was lost.
LEMMA CatchInv ==
    ASSUME HubInv, Catch
    PROVE  HubInv'
<1>1. TypeOK'
  BY DEF HubInv, TypeOK, Catch, Posted, Now, Outgoing, queueVars, streamVars,
       loopVars
<1>2. Provenance'
  <2>1. PICK f \in Envelopes : f = env(Now, "second", runs[Now]) /\ Founded(f)
    BY Outbound DEF Catch
  <2>2. post' = [post EXCEPT ![Outgoing] = "none", ![f] = "sent"] /\ UNCHANGED <<status, runs>>
    BY <2>1 DEF Catch, queueVars
  <2> HIDE DEF Outgoing
  <2> QED BY <2>1, <2>2 DEF HubInv, TypeOK, Provenance, Founded
<1>3. Sweeps' /\ Admitted' /\ Executing' /\ RunsCovered' /\ AnswersAreFounded'
  BY DEF HubInv, Sweeps, Admitted, Executing, RunsCovered, AnswersAreFounded,
       Catch, Posted, Now, Outgoing, queueVars, streamVars, loopVars
<1> QED BY <1>1, <1>2, <1>3 DEF HubInv

\* The executor gives up on its request, and on the stream.
LEMMA FailInv ==
    ASSUME HubInv, Fail
    PROVE  HubInv'
<1>1. TypeOK'
  BY DEF HubInv, TypeOK, Fail, Posted, Now, Outgoing, Thrown, Hangup,
       queueVars, streamVars, loopVars
<1>2. Provenance' /\ Sweeps' /\ Executing' /\ RunsCovered' /\ AnswersAreFounded'
  BY DEF HubInv, Provenance, Founded, Sweeps, Executing, RunsCovered,
       AnswersAreFounded, Fail, Posted, Now, Outgoing, Thrown, Hangup,
       queueVars, streamVars, loopVars
<1>3. Admitted'
  <2>1. Target \notin acking /\ Target \in Spokes
    BY ExecutorParts DEF Fail, Spokes
  <2>2. /\ handling' = [handling EXCEPT ![Target] = None] /\ wire' \subseteq wire
        /\ UNCHANGED <<status, acking, handled>>
    BY DEF Fail, Thrown, Hangup, queueVars
  <2>3. handling \in [Spokes -> Envelopes \cup {None}] /\ acking \subseteq Spokes
    BY DEF HubInv, TypeOK
  <2>4. \A m \in Spokes : handling'[m] = IF m = Target THEN None ELSE handling[m]
    BY <2>2, <2>3
  <2>5. \A m \in Spokes : handling'[m] # None =>
            to(handling'[m]) = m /\ status'[handling'[m]] # "none"
    BY <2>2, <2>4 DEF HubInv, Admitted
  <2>6. \A m \in acking' : handling'[m] # None /\ handling'[m] \in handled'
    BY <2>1, <2>2, <2>3, <2>4 DEF HubInv, Admitted
  <2>7. \A x \in wire' : status'[x] # "none"
    BY <2>2 DEF HubInv, Admitted
  <2> QED BY <2>5, <2>6, <2>7 DEF Admitted, to
<1> QED BY <1>1, <1>2, <1>3 DEF HubInv

\* The relay starts within the invariant.
LEMMA InitHub == Init => HubInv
<1> SUFFICES ASSUME Init PROVE HubInv
  OBVIOUS
<1>1. TypeOK
  BY FaultsAssumption, RunsAssumption DEF Init, TypeOK
<1>2. Provenance /\ Sweeps /\ Admitted /\ Executing
  BY DEF Init, Provenance, Sweeps, Admitted, Executing
<1>3. RunsCovered /\ AnswersAreFounded
  BY DEF Init, RunsCovered, AnswersAreFounded
<1> QED BY <1>1, <1>2, <1>3 DEF HubInv

\* Every step keeps the invariant.
LEMMA NextHub == HubInv /\ [Next]_vars => HubInv'
<1> SUFFICES ASSUME HubInv, [Next]_vars PROVE HubInv'
  OBVIOUS
<1>1. ASSUME NEW e \in Envelopes, EnvelopeStep(e) PROVE HubInv'
  BY <1>1, ReceiveInv, PollInv, SweepInv, SweepAnswerInv, SkipInv, ConsumeInv,
     EvictInv DEF EnvelopeStep
<1>2. ASSUME NEW m \in Spokes, SpokeStep(m) PROVE HubInv'
  BY <1>2, ConnectInv, DropInv, AckInv, SpokeRestartInv DEF SpokeStep
<1>3. ASSUME NEW r \in Requests, Submit(r) \/ GiveUp(r) PROVE HubInv'
  BY <1>3, SubmitInv, GiveUpInv
<1>4. CASE ExecStep
  BY <1>4, UpdateInv, FinishInv, SubmittedInv, CatchInv, FailInv DEF ExecStep
<1>5. CASE UNCHANGED vars
  BY <1>5 DEF vars, queueVars, streamVars, loopVars, HubInv, TypeOK, Provenance,
              Founded, Sweeps, Admitted, Executing, RunsCovered, AnswersAreFounded
<1> QED BY <1>1, <1>2, <1>3, <1>4, <1>5, HubRestartInv DEF Next

(***************************************************************************)
(* The promise                                                             *)
(***************************************************************************)

\* A step that leaves the rows and what was handled alone leaves the promise.
LEMMA QuietPromise ==
    ASSUME UNCHANGED <<status, handled>>
    PROVE  UNCHANGED <<Fates, handled>>
  BY DEF Fates, Fate

\* A row may be admitted, delivered, expired, or retired once it is handled.
LEMMA RowPromise ==
    ASSUME HubInv, NEW e \in Envelopes, NEW v, UNCHANGED handled,
           status' = [status EXCEPT ![e] = v],
           \/ v = status[e]
           \/ status[e] = "none" /\ v = "pending"
           \/ Live(e) /\ v \in {"delivered", "expired"}
           \/ Live(e) /\ v = "acked" /\ e \in handled
    PROVE  [Promise!Next]_<<Fates, handled>>
<1>1. status'[e] = v /\ \A f \in Envelopes : f # e => status'[f] = status[f]
  BY DEF HubInv, TypeOK
<1>2. \A f \in Envelopes : f # e => Fate(f)' = Fate(f)
  BY <1>1 DEF Fate
<1>3. ASSUME NEW w, Fate(e)' = w PROVE Fates' = [Fates EXCEPT ![e] = w]
  BY <1>2, <1>3 DEF Fates
<1>4. CASE status[e] = "none" /\ v = "pending"
  <2>1. Fate(e)' = "owed" /\ Fates[e] = "unknown"
    BY <1>1, <1>4 DEF Fates, Fate
  <2>2. Promise!Admit(e)
    BY <1>3, <2>1 DEF Promise!Admit, Promise!Becomes
  <2> QED BY <2>2 DEF Promise!Next
<1>5. CASE Live(e) /\ v = "expired"
  <2>1. Fate(e)' = "expired" /\ Fates[e] = "owed"
    BY <1>1, <1>5 DEF Live, Fates, Fate
  <2>2. Promise!Expire(e)
    BY <1>3, <2>1 DEF Promise!Expire, Promise!Becomes
  <2> QED BY <2>2 DEF Promise!Next
<1>6. CASE Live(e) /\ v = "acked" /\ e \in handled
  <2>1. Fate(e)' = "retired" /\ Fates[e] = "owed"
    BY <1>1, <1>6 DEF Live, Fates, Fate
  <2>2. Promise!Retire(e)
    BY <1>3, <1>6, <2>1 DEF Promise!Retire, Promise!Becomes
  <2> QED BY <2>2 DEF Promise!Next
<1>7. CASE v = status[e] \/ (Live(e) /\ v = "delivered")
  <2>1. Fate(e)' = Fate(e)
    BY <1>1, <1>7 DEF Live, Fate
  <2>2. Fates' = Fates
    BY <1>2, <2>1 DEF Fates
  <2> QED BY <2>2
<1> QED BY <1>4, <1>5, <1>6, <1>7

\* A spoke handles what was admitted.
LEMMA HandlePromise ==
    ASSUME NEW e \in Envelopes, status[e] # "none", UNCHANGED status,
           handled' = handled \cup {e}
    PROVE  Promise!Next
<1>1. Fates' = Fates /\ Fates[e] # "unknown"
  BY DEF Fates, Fate
<1>2. Promise!Handle(e)
  BY <1>1 DEF Promise!Handle
<1> QED BY <1>2 DEF Promise!Next

\* Queueing an envelope admits it, or changes nothing.
LEMMA EnqueuePromise ==
    ASSUME HubInv, NEW e \in Envelopes, enqueue(e), UNCHANGED handled
    PROVE  [Promise!Next]_<<Fates, handled>>
<1> DEFINE v == IF status[e] = "none" THEN "pending" ELSE status[e]
<1>1. status' = [status EXCEPT ![e] = v] \/ UNCHANGED status
  BY DEF enqueue, insert
<1>2. v = status[e] \/ (status[e] = "none" /\ v = "pending")
  OBVIOUS
<1> HIDE DEF v
<1> QED BY <1>1, <1>2, RowPromise, QuietPromise

\* Acknowledging an envelope that was handled retires it, or changes nothing.
LEMMA RetirePromise ==
    ASSUME HubInv, NEW e \in Envelopes, e \in handled, retire(e), UNCHANGED handled
    PROVE  [Promise!Next]_<<Fates, handled>>
<1> DEFINE v == IF Live(e) THEN "acked" ELSE status[e]
<1>1. status' = [status EXCEPT ![e] = v]
  BY DEF retire
<1>2. v = status[e] \/ (Live(e) /\ v = "acked" /\ e \in handled)
  OBVIOUS
<1> HIDE DEF v
<1> QED BY <1>1, <1>2, RowPromise

\* Every step of the relay is a step of the promise, or none.
LEMMA StepPromise == HubInv /\ [Next]_vars => [Promise!Next]_<<Fates, handled>>
<1> SUFFICES ASSUME HubInv, [Next]_vars PROVE [Promise!Next]_<<Fates, handled>>
  OBVIOUS
<1>1. ASSUME NEW e \in Envelopes, Receive(e) PROVE [Promise!Next]_<<Fates, handled>>
  <2>1. (enqueue(e) \/ UNCHANGED status) /\ UNCHANGED handled
    BY <1>1 DEF Receive
  <2> QED BY <2>1, EnqueuePromise, QuietPromise
<1>2. ASSUME NEW e \in Envelopes, Poll(e) PROVE [Promise!Next]_<<Fates, handled>>
  <2>1. Live(e) /\ status' = [status EXCEPT ![e] = "delivered"] /\ UNCHANGED handled
    BY <1>2 DEF Poll, Deliverable
  <2> QED BY <2>1, RowPromise
<1>3. ASSUME NEW e \in Envelopes, Sweep(e) PROVE [Promise!Next]_<<Fates, handled>>
  <2>1. Live(e) /\ status' = [status EXCEPT ![e] = "expired"] /\ UNCHANGED handled
    BY <1>3 DEF Sweep
  <2> QED BY <2>1, RowPromise
<1>4. ASSUME NEW e \in Envelopes, SweepAnswer(e) PROVE [Promise!Next]_<<Fates, handled>>
  <2>1. e.request \in Requests /\ "ttlFailed" \in Kinds /\ 1 \in 1..MaxRuns
    BY EnvelopeParts, RunsAssumption DEF Kinds
  <2>2. PICK f \in Envelopes : f = env(e.request, "ttlFailed", 1)
    BY <2>1, EnvParts
  <2>3. enqueue(f) /\ UNCHANGED handled
    BY <1>4, <2>2 DEF SweepAnswer
  <2> QED BY <2>3, EnqueuePromise
<1>5. ASSUME NEW e \in Envelopes, Consume(e) PROVE [Promise!Next]_<<Fates, handled>>
  <2>1. status[e] # "none" /\ UNCHANGED status
    BY <1>5 DEF Consume, queueVars, HubInv, Admitted
  <2>2. handled' = handled \/ handled' = handled \cup {e}
    BY <1>5 DEF Consume, execute, resolve
  <2> QED BY <2>1, <2>2, HandlePromise, QuietPromise
<1>6. ASSUME NEW m \in Spokes, Ack(m) PROVE [Promise!Next]_<<Fates, handled>>
  <2>1. PICK f \in Envelopes : f = handling[m] /\ f \in handled
    BY <1>6 DEF Ack, HubInv, TypeOK, Admitted
  <2>2. (retire(f) \/ UNCHANGED status) /\ UNCHANGED handled
    BY <1>6, <2>1 DEF Ack
  <2> QED BY <2>1, <2>2, RetirePromise, QuietPromise
<1>7. CASE Submitted
  <2>1. PICK f \in Envelopes : f = handling[Target] /\ status[f] # "none"
    BY <1>7, ExecutorParts, NoneAssumption DEF Submitted, Awaiting, HubInv, Admitted, Spokes
  <2>2. handled' = handled \cup {f} /\ UNCHANGED status
    BY <1>7, <2>1 DEF Submitted, queueVars
  <2> QED BY <2>1, <2>2, HandlePromise
<1>8. ASSUME \/ \E e \in Envelopes : Skip(e) \/ Evict(e)
             \/ \E m \in Spokes : Connect(m) \/ Drop(m) \/ SpokeRestart(m)
             \/ \E r \in Requests : Submit(r) \/ GiveUp(r)
             \/ HubRestart \/ Update \/ Finish \/ Catch \/ Fail \/ UNCHANGED vars
      PROVE  [Promise!Next]_<<Fates, handled>>
  <2>1. UNCHANGED <<status, handled>>
    BY <1>8 DEF Skip, Evict, Connect, Drop, SpokeRestart, Submit, GiveUp, HubRestart,
                Update, Finish, Catch, Fail, vars, queueVars
  <2> QED BY <2>1, QuietPromise
<1> QED BY <1>1, <1>2, <1>3, <1>4, <1>5, <1>6, <1>7, <1>8
        DEF Next, EnvelopeStep, SpokeStep, ExecStep

(***************************************************************************)
(* Theorems                                                                *)
(***************************************************************************)

\* The invariant holds throughout.
LEMMA HubInvariant == Spec => []HubInv
  BY InitHub, NextHub, PTL DEF Spec

\* The state of the queue, the streams, both spokes and the executor keeps its
\* types: in particular the executor never posts for a request it does not
\* have, and the loop never acknowledges nothing.
THEOREM RelayTypeCorrect == Spec => []TypeOK
<1>1. HubInv => TypeOK
  BY DEF HubInv
<1> QED BY <1>1, HubInvariant, PTL

\* A request is handled once, and once more for each time its target forgot
\* it, by a restart or by the lapse of its cache entry, however often its row
\* is redelivered: the cache is marked before the handler is called, so a
\* target that remembers a request never handles it again.
THEOREM RequestsHandledOncePerMemory == Spec => []HandledOncePerMemory
<1>1. HubInv => HandledOncePerMemory
  BY DEF HubInv, TypeOK, RunsCovered, HandledOncePerMemory
<1> QED BY <1>1, HubInvariant, PTL

\* A caller that is handed a result or an update had its request handled, and
\* one that is handed a TTL failure had its request expire, whatever was lost,
\* redelivered or restarted on the way.
THEOREM AnswersAlwaysFounded == Spec => []AnswersAreFounded
<1>1. HubInv => AnswersAreFounded
  BY DEF HubInv
<1> QED BY <1>1, HubInvariant, PTL

\* The relay keeps the promise of the queue: an admitted envelope is owed
\* until its member has handled it or its TTL has passed, is retired only
\* once handled, and is neither retired nor expired twice.
THEOREM RelayKeepsPromise == Spec => PromiseSpec
<1>1. Init => Promise!Init
  BY DEF Init, Promise!Init, Fates, Fate
<1>2. HubInv /\ [Next]_vars => [Promise!Next]_<<Fates, handled>>
  BY StepPromise
<1> QED BY <1>1, <1>2, HubInvariant, PTL DEF Spec, PromiseSpec, Promise!Spec
============================================================================
