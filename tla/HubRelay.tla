------------------------------ MODULE HubRelay ------------------------------
(***************************************************************************)
(* A command relayed through the hub: the originating spoke submits an     *)
(* execute_command.request, the hub queues it, streams it to the target    *)
(* spoke until it is acknowledged, the target runs it and posts its        *)
(* updates and result, which travel back through the same queue.           *)
(*                                                                         *)
(* Each side is one spoke hosting one member.  The queue is a table, so it *)
(* survives the hub; streams, the spokes' seen-envelope cache and their    *)
(* pending requests do not survive theirs.  Clocks are left out: a row or  *)
(* a cache entry may pass its TTL, and an acknowledgement its timeout, at  *)
(* any time.  Rows are delivered, read and expired one by one and in any   *)
(* order: nothing here depends on the batches or on the order of the       *)
(* queue.  Every fault, and every lapse of a cache entry, draws on one     *)
(* budget, MaxFaults.                                                      *)
(***************************************************************************)
EXTENDS Naturals, FiniteSets

CONSTANTS
    Requests,   \* relayed commands
    Origin,     \* the spoke that asks
    Target,     \* the spoke that runs
    QueueCap,   \* MAX_QUEUE_DEPTH
    Large,      \* the kinds of envelope that may reach MAX_QUEUE_BYTES
    MaxRuns,    \* bound on the handlings of one request
    MaxUpdates, \* bound on those of them that report their pid
    MaxFaults,  \* bound on lost calls, dropped streams, restarts, lapses
    Expiring,   \* bound: the kinds of envelope that may pass their TTL
    None

ASSUME SpokesAssumption == Origin # Target
ASSUME CapAssumption == QueueCap \in Nat \ {0}
ASSUME RunsAssumption == MaxRuns \in Nat \ {0}
ASSUME UpdatesAssumption == MaxUpdates \in Nat
ASSUME FaultsAssumption == MaxFaults \in Nat

Spokes == {Origin, Target}

\* Envelope ids, by the request they belong to and the handling of it that
\* made them.  A "second" is the result posted when posting the first threw.
Kinds == {"request", "update", "result", "second", "ttlFailed"}
Envelopes ==
    {e \in [request: Requests, kind: Kinds, run: 1..MaxRuns] :
        e.kind \in {"request", "ttlFailed"} => e.run = 1}

ASSUME NoneAssumption == None \notin Envelopes

env(r, k, n) == [request |-> r, kind |-> k, run |-> n]

\* Requests go to the target, everything else back to the origin.
to(e) == IF e.kind = "request" THEN Target ELSE Origin

VARIABLES
    status,     \* relay_queue: the status column
    post,       \* the submission of each envelope, and its answer
    sweeping,   \* expired requests the sweep has yet to answer
    connected,  \* spokes whose stream is open
    wire,       \* what the streams carry unread
    seen,       \* SeenEnvelopeCache
    forgotten,  \* history: how often the target's cache lost each request
    handling,   \* the envelope each spoke's loop awaits onEnvelope for
    acking,     \* spokes whose loop awaits the acknowledgement of it
    exec,       \* where the target's executor is
    runs,       \* handlings of each request: its command was started, or
                \* reported as one that cannot be
    caller,     \* what the originator of each request knows
    handled,    \* history: envelopes whose onEnvelope resolved
    faults

queueVars == <<status, sweeping>>
streamVars == <<connected, wire>>
loopVars == <<seen, forgotten, handling, acking>>
vars == <<queueVars, post, streamVars, loopVars, exec, runs, caller, handled,
          faults>>

TypeOK ==
    /\ status \in [Envelopes -> {"none", "pending", "delivered", "acked",
                                 "expired"}]
    /\ post \in [Envelopes -> {"none", "sent", "answered", "error"}]
    /\ sweeping \subseteq Envelopes
    /\ connected \subseteq Spokes
    /\ wire \subseteq Envelopes
    /\ seen \in [Spokes -> SUBSET Envelopes]
    /\ forgotten \in [Requests -> Nat]
    /\ handling \in [Spokes -> Envelopes \cup {None}]
    /\ acking \subseteq Spokes
    /\ exec \in {"idle", "running", "reported", "result", "caught",
                "second"}
    /\ runs \in [Requests -> 0..MaxRuns]
    /\ caller \in [Requests -> {"idle", "waiting", "result", "update",
                                "ttlFailed", "gaveUp"}]
    /\ handled \subseteq Envelopes
    /\ faults \in 0..MaxFaults

Init ==
    /\ status = [e \in Envelopes |-> "none"]
    /\ post = [e \in Envelopes |-> "none"]
    /\ sweeping = {}
    /\ connected = {}
    /\ wire = {}
    /\ seen = [m \in Spokes |-> {}]
    /\ forgotten = [r \in Requests |-> 0]
    /\ handling = [m \in Spokes |-> None]
    /\ acking = {}
    /\ exec = "idle"
    /\ runs = [r \in Requests |-> 0]
    /\ caller = [r \in Requests |-> "idle"]
    /\ handled = {}
    /\ faults = 0

Live(e) == status[e] \in {"pending", "delivered"}

Fault == faults < MaxFaults /\ faults' = faults + 1

Posted(e, p) == post' = [post EXCEPT ![e] = p]

\* The submission of e is over.  How it ended is kept for the executor, which
\* awaits it for its results; the originator may give up at any time.
Ended(e, p) == Posted(e, IF e.kind \in {"result", "second"} THEN p ELSE "none")

\* The stream of m is gone, with what it carried.
Hangup(m) ==
    /\ connected' = connected \ {m}
    /\ wire' = {e \in wire : to(e) # m}

------------------------------------------------------------------------------
(***************************************************************************)
(* The hub                                                                 *)
(***************************************************************************)

\* The depth query of enqueue(): rows of the same target still owed.
Depth(e) == Cardinality({f \in Envelopes : f # e /\ to(f) = to(e) /\ Live(f)})

\* The byte total of the same rows, and of the new one, may reach its cap.
Heavy(e) ==
    \E f \in Envelopes : /\ f.kind \in Large
                         /\ f = e \/ (to(f) = to(e) /\ Live(f))

\* INSERT ... ON CONFLICT DO NOTHING.
insert(e) == status' = [status EXCEPT ![e] = IF @ = "none" THEN "pending"
                                                           ELSE @]

\* enqueue(): a full queue refuses, but the query of what is queued precedes
\* the INSERT, so an admission may also come after the queue has filled.
enqueue(e) ==
    \/ insert(e)
    \/ (Depth(e) >= QueueCap \/ Heavy(e)) /\ UNCHANGED status

\* A submission is enqueued and answered, or it or its answer is lost.
Receive(e) ==
    /\ post[e] = "sent"
    /\ \/ enqueue(e) /\ Ended(e, "answered") /\ UNCHANGED faults
       \/ enqueue(e) /\ Ended(e, "error") /\ Fault
       \/ UNCHANGED status /\ Ended(e, "error") /\ Fault
    /\ UNCHANGED <<sweeping, streamVars, loopVars, exec, runs, caller,
                   handled>>

\* Mutant: nothing is ever redelivered.
DeliverableOnce(e) == status[e] = "pending"

\* What fetchDeliverable() may return: rows still owed, those delivered
\* before once their acknowledgement is overdue.
Deliverable(e) == Live(e)

\* A row is fetched and pushed down the stream, or down an older stream of
\* the spoke that the hub has not yet found closed.
Poll(e) ==
    /\ to(e) \in connected
    /\ Deliverable(e)
    /\ e \notin wire
    /\ status' = [status EXCEPT ![e] = "delivered"]
    /\ \/ wire' = wire \cup {e} /\ UNCHANGED faults
       \/ UNCHANGED wire /\ Fault
    /\ UNCHANGED <<sweeping, post, connected, loopVars, exec, runs, caller,
                   handled>>

\* Mutant: the failure is sent while the row is still being delivered.
SweepEarly(e) ==
    /\ Live(e)
    /\ e.kind = "request"
    /\ sweeping' = sweeping \cup {e}
    /\ UNCHANGED <<status, post, streamVars, loopVars, exec, runs, caller,
                   handled, faults>>

\* sweepExpiredToFailures(): a row past its TTL expires; a request among them
\* is to be answered.
Sweep(e) ==
    /\ Live(e)
    /\ e.kind \in Expiring
    /\ status' = [status EXCEPT ![e] = "expired"]
    /\ sweeping' = sweeping \cup (IF e.kind = "request" THEN {e} ELSE {})
    /\ UNCHANGED <<post, streamVars, loopVars, exec, runs, caller, handled,
                   faults>>

\* The synthetic failure, whose admission nobody looks at.
SweepAnswer(e) ==
    /\ e \in sweeping
    /\ sweeping' = sweeping \ {e}
    /\ enqueue(env(e.request, "ttlFailed", 1))
    /\ UNCHANGED <<post, streamVars, loopVars, exec, runs, caller, handled,
                   faults>>

\* The hub process restarts: the table stays, streams and calls do not.
HubRestart ==
    /\ Fault
    /\ sweeping' = {}
    /\ connected' = {}
    /\ wire' = {}
    /\ post' = [e \in Envelopes |->
                  IF post[e] # "sent" THEN post[e]
                  ELSE IF e.kind \in {"result", "second"} THEN "error"
                  ELSE "none"]
    /\ UNCHANGED <<status, loopVars, exec, runs, caller, handled>>

------------------------------------------------------------------------------
(***************************************************************************)
(* The hub-client of a spoke                                               *)
(***************************************************************************)

\* connectOnce(): announce and open the stream, once the last one is done.
Connect(m) ==
    /\ m \notin connected
    /\ handling[m] = None
    /\ connected' = connected \cup {m}
    /\ UNCHANGED <<queueVars, post, wire, loopVars, exec, runs, caller,
                   handled, faults>>

\* The stream breaks; what it carried is gone, what is being handled is not.
Drop(m) ==
    /\ m \in connected
    /\ Fault
    /\ Hangup(m)
    /\ UNCHANGED <<queueVars, post, loopVars, exec, runs, caller, handled>>

\* Mutant: the caller is handed the envelope as it comes.
resolveRaw(e) ==
    /\ caller' = [caller EXCEPT ![e.request] = e.kind]
    /\ acking' = acking \cup {Origin}
    /\ handled' = handled \cup {e}
    /\ UNCHANGED <<post, exec, runs>>

\* What resolveFromEnvelope() hands a waiting caller: whatever envelope
\* carries its correlation id first.  It does so without awaiting anything.
resolve(e) ==
    /\ caller' = [caller EXCEPT ![e.request] =
                    IF @ # "waiting" THEN @
                    ELSE IF e.kind = "second" THEN "result" ELSE e.kind]
    /\ acking' = acking \cup {Origin}
    /\ handled' = handled \cup {e}
    /\ UNCHANGED <<post, exec, runs>>

\* The executor's handler up to its first await: the command is started, or a
\* request it cannot read or a member it does not know is reported.
execute(e) ==
    /\ runs[e.request] < MaxRuns
    /\ runs' = [runs EXCEPT ![e.request] = @ + 1]
    /\ \/ exec' = "running" /\ UNCHANGED post
       \/ /\ exec' = "caught"
          /\ Posted(env(e.request, "result", runs[e.request] + 1), "sent")
    /\ UNCHANGED <<caller, acking, handled>>

\* ack(): idempotent.
retire(e) == status' = [status EXCEPT ![e] = IF Live(e) THEN "acked" ELSE @]

\* Mutant: a duplicate is acknowledged, however its first handling ended.
SkipAcking(e) ==
    /\ e \in wire
    /\ handling[to(e)] = None
    /\ e \in seen[to(e)]
    /\ wire' = wire \ {e}
    /\ retire(e)
    /\ UNCHANGED <<sweeping, post, connected, loopVars, exec, runs, caller,
                   handled, faults>>

\* consumeStream(): an envelope seen before is skipped, and not acknowledged
\* again ...
Skip(e) ==
    /\ e \in wire
    /\ handling[to(e)] = None
    /\ e \in seen[to(e)]
    /\ wire' = wire \ {e}
    /\ UNCHANGED <<queueVars, post, connected, loopVars, exec, runs, caller,
                   handled, faults>>

\* The entries the cache of m loses, those of requests counted.
Forget(m, E) ==
    /\ seen' = [seen EXCEPT ![m] = @ \ E]
    /\ forgotten' = [r \in Requests |->
                       IF m = Target /\ env(r, "request", 1) \in seen[m] \cap E
                       THEN forgotten[r] + 1 ELSE forgotten[r]]

\* evict(): an entry has passed its TTL.  What it stands for may still be
\* handled, or lie unread behind what is.
Evict(e) ==
    /\ e \in seen[to(e)]
    /\ Fault
    /\ Forget(to(e), {e})
    /\ UNCHANGED <<queueVars, post, streamVars, handling, acking, exec, runs,
                   caller, handled>>

\* Mutant: the envelope is never marked as seen.
ConsumeUnmarked(e) ==
    /\ e \in wire
    /\ handling[to(e)] = None
    /\ wire' = wire \ {e}
    /\ handling' = [handling EXCEPT ![to(e)] = e]
    /\ IF to(e) = Target THEN execute(e) ELSE resolve(e)
    /\ UNCHANGED <<queueVars, seen, forgotten, connected, faults>>

\* ... and a new one is marked, then handled.
Consume(e) ==
    /\ e \in wire
    /\ handling[to(e)] = None
    /\ e \notin seen[to(e)]
    /\ wire' = wire \ {e}
    /\ seen' = [seen EXCEPT ![to(e)] = @ \cup {e}]
    /\ handling' = [handling EXCEPT ![to(e)] = e]
    /\ IF to(e) = Target THEN execute(e) ELSE resolve(e)
    /\ UNCHANGED <<queueVars, forgotten, connected, faults>>

\* onEnvelope or the acknowledgement threw: the stream is given up.
Thrown(m) ==
    /\ handling' = [handling EXCEPT ![m] = None]
    /\ Hangup(m)

\* ackEnvelope(): the call or its answer may be lost, or be refused, which the
\* loop does not look at.
Ack(m) ==
    /\ m \in acking
    /\ acking' = acking \ {m}
    /\ \/ /\ retire(handling[m])
          /\ handling' = [handling EXCEPT ![m] = None]
          /\ UNCHANGED <<streamVars, faults>>
       \/ retire(handling[m]) /\ Thrown(m) /\ Fault
       \/ UNCHANGED status /\ Thrown(m) /\ Fault
       \/ /\ UNCHANGED <<status, streamVars>>
          /\ handling' = [handling EXCEPT ![m] = None]
          /\ Fault
    /\ UNCHANGED <<sweeping, post, seen, forgotten, exec, runs, caller,
                   handled>>

------------------------------------------------------------------------------
(***************************************************************************)
(* The originator                                                          *)
(***************************************************************************)

\* submitAndAwaitResult(): register, then submit.
Submit(r) ==
    /\ caller[r] = "idle"
    /\ caller' = [caller EXCEPT ![r] = "waiting"]
    /\ Posted(env(r, "request", 1), "sent")
    /\ UNCHANGED <<queueVars, streamVars, loopVars, exec, runs, handled,
                   faults>>

\* The submission was refused or lost, or the timer fired.
GiveUp(r) ==
    /\ caller[r] = "waiting"
    /\ caller' = [caller EXCEPT ![r] = "gaveUp"]
    /\ UNCHANGED <<queueVars, post, streamVars, loopVars, exec, runs, handled,
                   faults>>

------------------------------------------------------------------------------
(***************************************************************************)
(* The executor on the target                                              *)
(***************************************************************************)

Now == handling[Target].request

\* The pid is known: an update is posted, and not awaited.
Update ==
    /\ exec = "running"
    /\ runs[Now] <= MaxUpdates
    /\ exec' = "reported"
    /\ Posted(env(Now, "update", runs[Now]), "sent")
    /\ UNCHANGED <<queueVars, streamVars, loopVars, runs, caller, handled,
                   faults>>

\* The command ended, or threw: its result is posted, from the try block or
\* from the catch block.
Finish ==
    /\ exec \in {"running", "reported"}
    /\ exec' \in {"result", "caught"}
    /\ Posted(env(Now, "result", runs[Now]), "sent")
    /\ UNCHANGED <<queueVars, streamVars, loopVars, runs, caller, handled,
                   faults>>

\* The result the executor awaits the submission of.
Outgoing == env(Now, IF exec = "second" THEN exec ELSE "result", runs[Now])

Awaiting == exec \in {"result", "caught", "second"}

\* The submission returned, whatever its status.
Submitted ==
    /\ Awaiting
    /\ post[Outgoing] = "answered"
    /\ exec' = "idle"
    /\ Posted(Outgoing, "none")
    /\ acking' = acking \cup {Target}
    /\ handled' = handled \cup {handling[Target]}
    /\ UNCHANGED <<queueVars, streamVars, seen, forgotten, handling, runs,
                   caller, faults>>

\* It threw within the try block: the catch block posts another result.
Catch ==
    /\ exec = "result"
    /\ post[Outgoing] = "error"
    /\ exec' = "second"
    /\ post' = [post EXCEPT ![Outgoing] = "none",
                            ![env(Now, "second", runs[Now])] = "sent"]
    /\ UNCHANGED <<queueVars, streamVars, loopVars, runs, caller, handled,
                   faults>>

\* It threw outside the try block: so does the handler.
Fail ==
    /\ exec \in {"caught", "second"}
    /\ post[Outgoing] = "error"
    /\ exec' = "idle"
    /\ Posted(Outgoing, "none")
    /\ Thrown(Target)
    /\ UNCHANGED <<queueVars, seen, forgotten, acking, runs, caller, handled,
                   faults>>

------------------------------------------------------------------------------
\* A spoke process restarts: its cache and its pending requests are gone.
SpokeRestart(m) ==
    /\ Fault
    /\ Forget(m, seen[m])
    /\ acking' = acking \ {m}
    /\ Thrown(m)
    /\ exec' = IF m = Target THEN "idle" ELSE exec
    /\ caller' = [r \in Requests |->
                    IF m = Origin /\ caller[r] = "waiting" THEN "gaveUp"
                                                           ELSE caller[r]]
    /\ UNCHANGED <<queueVars, post, runs, handled>>

ExecStep == Update \/ Finish \/ Submitted \/ Catch \/ Fail

EnvelopeStep(e) == Receive(e) \/ Poll(e) \/ Sweep(e)
                   \/ SweepAnswer(e) \/ Skip(e) \/ Consume(e) \/ Evict(e)

SpokeStep(m) == Connect(m) \/ Drop(m) \/ Ack(m) \/ SpokeRestart(m)

Next ==
    \/ \E e \in Envelopes : EnvelopeStep(e)
    \/ \E m \in Spokes : SpokeStep(m)
    \/ \E r \in Requests : Submit(r) \/ GiveUp(r)
    \/ HubRestart \/ ExecStep

Spec == Init /\ [][Next]_vars

\* Calls are answered, the target reconnects, its stream is polled and read in
\* order (so whatever it carries is reached), and commands end.  Nothing
\* obliges a row to expire.
Fairness ==
    /\ \A r \in Requests : /\ WF_vars(Poll(env(r, "request", 1)))
                           /\ SF_vars(Consume(env(r, "request", 1)))
    /\ WF_vars(Connect(Target) \/ Ack(Target))
    /\ WF_vars(\E e \in Envelopes : Receive(e))
    /\ WF_vars(Finish \/ Submitted \/ Catch \/ Fail)

LiveSpec == Spec /\ Fairness

------------------------------------------------------------------------------
(***************************************************************************)
(* Properties                                                              *)
(***************************************************************************)

Fate(e) == CASE status[e] = "none" -> "unknown"
             [] status[e] = "acked" -> "retired"
             [] status[e] = "expired" -> "expired"
             [] OTHER -> "owed"

Fates == [e \in Envelopes |-> Fate(e)]

Promise == INSTANCE AtLeastOnce WITH fate <- Fates

\* "a briefly disconnected spoke must not silently lose a queued
\* execute_command" (relay-queue.ts): whatever is lost, dropped or restarted,
\* an admitted envelope stays owed until its member has handled it or its TTL
\* has passed, and a retired or expired one never comes back.
PromiseSpec == Promise!Spec

\* However often a request is redelivered, for a late or lost acknowledgement,
\* over a new stream or after a restart of the hub, it is handled again only
\* if the target has meanwhile forgotten it: because its process restarted, or
\* because the entry in its cache had passed its five minutes.
HandledOncePerMemory == \A r \in Requests : runs[r] <= 1 + forgotten[r]

\* A caller is told of a result only if the target has handled its request,
\* and of an expiry only if the request did expire.
AnswersAreFounded ==
    \A r \in Requests :
        /\ caller[r] \in {"result", "update"} => runs[r] > 0
        /\ caller[r] = "ttlFailed"
             => status[env(r, "request", 1)] = "expired"

\* An admitted request is handled in the end, unless it expires first: a lost
\* push, a dropped stream or a restart only delays it.
RunOrExpired ==
    \A r \in Requests :
        (status[env(r, "request", 1)] = "pending")
            ~> (runs[r] > 0 \/ status[env(r, "request", 1)] = "expired")

\* relay-strategy.ts: the pid of a relayed command surfaces in an update, "not
\* this synchronous return path"; relay-request.ts: the caller "resolves with
\* the correlated result payload".
UpdateIsNoAnswer == \A r \in Requests : caller[r] # "update"
==============================================================================
