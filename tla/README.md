# apra-fleet: specifications of the coordination core

This directory holds TLA+ specifications of the parts of apra-fleet in which
several processes share state: who may push to the beads remote, who owns a
child id, who may dispatch to a member, which sprint holds which members, what
happens to a request when the server behind it goes away.  TLC checks them on
small instances, TLAPS proves the central facts for instances of any size.

## The system

A *fleet server* (`src/src`, one MCP/HTTP process per user) registers *members*
(local, SSH or cloud machines with an LLM CLI) and dispatches prompts and
commands to them.  A *sprint* (`src/packages/apra-fleet-se/fleet-sprint`) is an
orchestrator process that drives members through plan, develop, review and
publish phases and keeps its work items as *beads* in a dolt database that every
member clones and pushes.  Sprints are launched either by a *supervisor*
(`src/packages/apra-fleet-se/src/supervisor`), an HTTP service that spawns each
sprint as a detached child, or standalone from the command line.  The workflow
engine (`apra-fleet-workflow`) runs the orchestration script; the client package
(`apra-fleet-client`) connects it to the fleet server.  A *hub*
(`src/src/hub-service`) relays envelopes between fleets of several machines.

Two objects keep concurrent sprints apart, each implemented twice (in the
supervisor and in the fleet server): a global **dolt push mutex** and a **child-id
allocator**.  Whatever they get wrong ends in two conflicting writes to the same
dolt row, which wedges every clone.  In the fleet server, the **busy lock** of
`execute_prompt`, together with the stored pid and the stall detector's entry,
keeps dispatches to one member apart.  Around them, the **supervisor** decides
which sprint runs and holds members, through crashes of its own; the **pause**
machinery parks a sprint and gives its members back; the **client transport**
carries every call of a sprint to a server that may restart; and the **hub
relay** carries commands between machines that come and go.

### Inventory

| Component | State it keeps | Operations | Shared with | What is hard | What makes it correct |
|---|---|---|---|---|---|
| Dolt push mutex (`dolt-mutex.mjs`, `sprint-coordination.ts`) | holder with lease and pid, FIFO queue of promises (memory only) | acquire, release, renew, cancelWaiter, sweep, stop | every sprint | leases against long pushes, dead holders, stale tokens | no dangling promise, never idle with waiters, FIFO, timely holder keeps it |
| HTTP routes and push bracket (`dolt-mutex.mjs`, `coordination.mjs`, `dolt-sync.mjs`) | open long polls, renew timer, running command | POST acquire/release/renew, hang-up, restart | mutex, member's dolt clone | lost calls, hang-ups during a grant, restarts | every acquire answered, mutex never wedged |
| Ticketed mutex (`sprint-coordination.ts`, `dolt-push-mutex.ts`) | tickets and byToken maps | acquire, poll, cancel, release, onReclaim | mutex, polling clients | deadlines racing grants, reclaim behind the maps' back | maps agree with the mutex, tickets drain |
| Child-id allocator (`id-allocator.mjs`, `sprint-coordination.ts`) | per parent: highWater, free pool, reservations; file and write chain | allocate, confirm, release, sweep, load | every sprint | crash between memory and file, failed writes, lapsed leases | no id owned twice, no permanent gap |
| Child bead creation (`beads-children.mjs`) | beads in each clone, reservation token | probe floor, allocate, create, confirm/release | allocator, dolt | lost confirm, half-known create | no id minted for an existing bead |
| Dolt sync ladder (`dolt-sync.mjs`, `dolt-settle.mjs`) | last synced tip, landed check | pull, push, reconcile, settle | mutex, members | retry after an unknown outcome | a push reported landed did land |
| Dispatch and busy lock (`execute-prompt.ts`, `stop-prompt.ts`) | inFlightAgents, stored pid, stall entry, stopped marker | dispatch, self-heal, stall, stop, retry | members, stall detector | locks deleted after an await, late finally blocks | one turn per member at a time |
| Stall detector (`stall/`) | entry per running dispatch | add, poll, update, remove | busy lock | stale log probes | a live turn is not killed, a dead one is noticed |
| Member reservation (`member-reservation.ts`), ledger (`ledger.mjs`) | reservedBy per member; reservations per sprint on disk | reserve, release, force release, claim | supervisor, fleet server | two records of one fact, guards read before an await | a running sprint holds its members |
| Restart reconcile, re-adopt, watchdog, history (`reconcile.mjs`, `readopt.mjs`, `watchdog.mjs`, `history.mjs`) | history file and list, classifications under way | pid probe, classify, release, record | ledger, spawner | pid reuse, probe races, records before the load | a live child keeps its reservation, a dead one loses it, each verdict once |
| Spawner (`spawner.mjs`) | live children and viewer ports | spawn, exit, re-adopt | ledger | port chosen across awaits | a port per child |
| Sprint lock (`sprint-lock.mjs`) | pidfile | acquire, reclaim, release | sprints on one machine | stale pidfile taken by two | one engine per sprint |
| Workflow engine pause, usage-limit controller (`workflow/index.mjs`, `usage-limit-controller.mjs`, `git-sync.mjs`, `cli.mjs`) | pause flags, gate, open brackets, pre-resume hook, release loops | pause, resume, stop, call, re-probe | sprint script, member reservation | pause racing dispatch, hand-back racing re-reservation | a paused run is quiet, a pause is never stranded, nobody is left at the gate |
| Workflow journal and budget (`workflow/`) | journal, cached results | run, replay | sprint | crash between effect and record | replay does not repeat effects |
| Client transport (`apra-fleet-client/src/client`) | pending requests, current session, shared reconnect | request, re-post, reconnect, stop | fleet server's sessions | 404 against lost answers, two reconnects | a tool runs once, every request settles |
| Server singleton and auto-start (`singleton.ts`, `auto-start.mjs`) | pidfile, start lock | probe, start, stop | clients | stale locks | one server |
| Hub relay queue and spokes (`hub-service/`, `hub-client.ts`, `relay-*.ts`) | envelopes with status in SQL, streams, seen cache, pending requests | submit, deliver, ack, expire, run, answer | spokes | duplicates, lost acks, TTL racing a run | at-least-once, handled once per memory of the target, founded answers |
| Cloud idle manager, knowledge bank, providers, OS commands, credentials, installers, dashboards | files, SQL rows, cloud instances | mostly single-step I/O | - | - | - |

`PROJECT.json` lists every component with its sources and status, and the
hazards with the line where each one bites.

## Modules

| Module | Models |
|---|---|
| `DoltMutex` | the mutex object, both copies |
| `DoltMutexProofs` | its theorems |
| `PushBracket` | the mutex behind the supervisor's HTTP routes, with the brackets that use it |
| `TicketedMutex` | the mutex behind tickets in the fleet server, with the polling client |
| `PushMutexProofs` | theorems of both topologies of the mutex |
| `IdAllocator` | the child-id allocator with its file, both copies |
| `UniqueIds` | what the allocator promises its callers (abstract) |
| `IdAllocatorProofs` | theorems of the allocator, its refinement of `UniqueIds` among them |
| `BusyLock` | execute_prompt, stop_prompt and the stall detector on one member |
| `BusyLockProofs` | its theorems |
| `Supervisor` | launch, spawner, ledger, watchdog, history, force-release and restart of the supervisor |
| `SupervisorProofs` | its theorems |
| `PauseResume` | the engine's pause gate, sync brackets, usage-limit controller, and the members' hand-back and re-reservation |
| `PauseResumeProofs` | its theorems |
| `HubRelay` | a relayed command: hub queue, streams, both spokes, executor and caller |
| `AtLeastOnce` | what the queue promises of an envelope (abstract) |
| `HubRelayProofs` | theorems of the relay, its refinement of `AtLeastOnce` among them |
| `ClientTransport` | the MCP client of a sprint against a server that restarts |
| `ClientTransportProofs` | its theorems |
| `MC*` | instances for TLC |

`PushBracket` and `TicketedMutex` extend `DoltMutex`: their actions are its
operations conjoined with what the transport does around them.  `IdAllocator`
implements `UniqueIds` under the mapping in its `Promise` instance, and `HubRelay`
implements `AtLeastOnce` in the same way.  Names with an underscore
(`release_NoPump`) and definitions whose comment begins with *Mutant* are
deliberately faulty variants of the definition that follows them; no
specification uses them, they exist to show that a property notices the slip.

### DoltMutex

A request is one call of `acquire()`; since a token is minted per grant and a
request is granted at most once, the request also stands for its token.
`holder` carries the request and the time left on its lease; `pos` is the waiters
array as arrival numbers; `result` is the promise each call returned; `dead` is
what the pid probe sees.  `pump(h, p, res)` is the common tail of `acquire`,
`release` and `reclaimExpired`.  `acquire` includes the opportunistic reclaim that
precedes it.  When that reclaim frees the mutex with others waiting, the first
pump serves the front waiter and the second finds the mutex taken; when none
waits, the second pump serves the caller: both are one pump over the queue with
the caller at its end, which is how the action is written.  Calls with a wrong
type of argument are rejected before any state changes and are left out.

### PushBracket

A request is one `doltPushAfter()` bracket.  `phase` is where the bracket is,
`conn` the response object of its acquire route (`sent`: body not read yet,
`open`: close listener registered, `gone`: client left, `ended`: answered), `cmd`
whether something the bracket started still runs on the member.  JavaScript runs
to completion: a route that was awaiting `mutex.acquire()` resumes in the
microtask after the grant, so no other event of the supervisor comes between
(`Settling`, `Serving`).  `Renew`, `ReleaseMutex`, `PostAcquire` may lose their
call; a lost renewal and a refused one are only logged.  `SupervisorEnds` drops
the in-memory mutex (by `stop()` or by a crash), which fails every unanswered
acquire; children and commands go on.

`slip` is a history variable that measures what the properties need: how long
the grant was on its way plus how much renewal time has been missed.  A bracket
is `Timely` while that cannot have exhausted the lease.

### TicketedMutex

`tickets` and `byToken` are the key sets of the two maps, the ticket's state is
the request's promise, and the client is `idle`, `polling`, `pushing` or `done`.
The callbacks of `acquire().then` run in the microtask after the grant, so they
belong to the step that grants (`Granted`).  `onReclaim` belongs to the step that
reclaims.

### IdAllocator and UniqueIds

One parent bead: parents share only the writer.  `doc` is memory, `disk` the
file, `writes` the chain of snapshots on their way, each with the caller waiting
for it.  `used` and `base` are history (numbers confirmed; highest floor seen).
Leases are not counted: `LeaseLapses` may happen to any reservation at any time,
which covers every timing.  `WriteLands` is the rename; `Crash` may fall before or
just after a rename; `Restart` is `load()`.  `UniqueIds` says: a number is owned by
one caller at a time, and a kept number is its owner's for ever.

### BusyLock

Everything here is keyed by the member id, so one member is enough.  A dispatch is
one `execute_prompt` call; its `phase` names what it awaits, and the code between
two awaits is one step.

| State | Code |
|---|---|
| `inFlight` | the member is in `inFlightAgents` |
| `phase`, `probed`, `attempt` | the call's control: preflight and provisioning (`setup`), the checks under the watch (`staged`), prompt file and connection (`ready`), an attempt (`running`), its result (`returned`), bookkeeping (`landed`), a retry's kill (`retry`) |
| `cancelled`, `clearedByStall` | the two abort signals; `clearedByStall` also is the flag of that name and disarms `claimGuardActive` |
| `storedPid` | `_activePids` |
| `alive`, `channel` | processes on the member and the exec channel of each: `marked` once its FLEET_PID line has been read |
| `entry`, `polled` | the stall detector's entry, and the one a poll holds across its await |
| `stop` | where each stop_prompt call is |
| `breached` | history: some step freed a lock that was not its own |

A pid names the attempt it was started for, so the model can tell whose process
is stored, probed and killed although the code cannot.  A kill only clears the
stored pid: whether the process then ends is `Exit`'s choice.  Channels outlive
their attempts: a FLEET_PID line or a close may come after the timer has given the
attempt up, and a close clears the stored pid whoever's it is.  That holds of
every command the server runs on the member (`finalize` in `ssh.ts`), so
`CommandCloses` may clear it at any time; an answered liveness probe has always
done so.  A probe that fails reads as dead (`isRemoteProcessAlive`), although the
comment on `findDeadLockPid` promises a definitive reading.  The stall detector's
thresholds are a free choice of verdict; what is kept is that the verdict comes
after an await and passes `isStale`.

The code frees the lock by member id, with no owner, so several steps can free a
lock that is not their own: a self-heal, the end of stop_prompt, a rejection in
the set-up, a mismatched session or a second stall of a dispatch that a stall has
already cleared, and the finally block after `terminalMismatchFailure`.  `breached` records that one of
these happened, and `ExclusiveUnlessBreached` says that they are all there are.

### Supervisor

A sprint is one launch request, and its child a process under one of `Pids`, which
another process may take over later (`Reusable`).

| State | Code |
|---|---|
| `boot` | how far `bin/serve.mjs` has come: watchdog prime, listen, history load, reconcile and re-adopt |
| `request`, `excluded` | the launch handler between its awaits: scope check, port probes, claim |
| `live`, `listeners`, `exiting` | the spawner's map, the exit listeners, `onChildExit` awaiting its record |
| `ledger`, `exited` | reservations on disk and the exit annotation; memory equals the file once loaded |
| `watch`, `marker`, `sawExit` | each `classifySprint` under way with the snapshot it began with |
| `disk`, `events`, `queued`, `draft`, `reading` | the history file, the list in memory, the transaction chain, and a `load()` that is not on the chain |
| `said` | verdicts this instance has put on record |
| `spoiled` | history: a record was begun before the log was loaded |
| `lost`, `spared` | history: events whose write failed; sprints that a force-release failed to kill |
| `faults` | how much of the budget of crashes, failed writes and failed kills is used |

Every write to the two files may fail.  A rejected history record changes neither
the file nor the list, its caller logs that and goes on: `onChildExit` then
annotates the ledger all the same, and a ledger write that fails leaves the entry,
to the next tick if it was the watchdog's.  A write that fails during the restart
ends the process, so it is a `Crash`.  `killPid()` may answer false (EPERM), and
the force-release then takes the reservation of a child that goes on running.

`isChildAlive` is the set of answers the pid probe may give: a command line that
cannot be read counts as alive.  A crash drops everything in memory and cuts the
launches under way; the children go on.  Refusals of a launch for reasons outside
the model (validation, relaunch gate, fleet-server reservations) are one choice.

### PauseResume

A branch is one strand of the sprint script, one step one turn of the event loop
with its microtasks.  `at` says where the branch is (script code, the gate, in
flight, asleep in the usage-limit controller, awaiting `requestResume()`),
`bracket` whether it is inside a sync bracket and has made a call in it.  A pause
that is requested engages at a boundary: nothing in flight, no bracket between two
calls (`AtBoundary`).  `hook` is the pre-resume hook of each resumer: the
re-reservation loop with its index, the hand-back of what it got when a member is
missing, the resync of every member, and then the wake-up of the gate.  `handback`
is the release loop of each pause, which the code starts and does not await; it
may therefore hand a member back after a resume has re-reserved it, and `late`
records exactly those members.  `reservedBy` is the fleet server's record; another
sprint may take and leave the `Contended` members.

### HubRelay and AtLeastOnce

One spoke asks, one runs.  An envelope is named by its request, its kind (request,
update, result, second result, synthetic TTL failure) and the handling that made
it.  `runs` counts handlings: an executor that cannot read a request, or does not know
its member, reports that without running anything.  `status` is the queue table and survives the hub; `connected` and `wire` are the streams; `seen`,
`handling` and `acking` are a spoke's loop with its seen-envelope cache; `exec` is
the executor; `caller` is the pending request.  An envelope is marked seen before
it is handled and acknowledged, and a redelivered one is skipped without an
acknowledgement.  Clocks are free: a row or a cache entry may pass its TTL, and an
acknowledgement its timeout, at any time.  `Evict` is the lapse of a cache entry,
which may still be on the wire or in the executor's hands; `forgotten` counts, for
each request, how often the target's cache has lost it, by a lapse or by a restart.
Admission has two caps: the depth is counted, while of the bytes only is known
which kinds (`Large`) can be big enough to reach theirs.  `AtLeastOnce` says: an admitted envelope is owed until
it has been handled or has expired, and either end is final.

### ClientTransport

A request is one `McpClient.request()`.  `send` is where its `send()` is, through
both transports: awaiting the shared reconnect, a POST on the way, accepted by the
server but without response headers, in the re-post delay, its response stream
being read, or over; `via` is the inner transport that carries it, `tries` the
re-posts on it, `resent` whether the one retry on a new session is used up.
`outcome` is the promise.  The two are separate because an `error` of any stream
rejects every pending promise while the other `send()`s go on.  Inner transports
are numbered, and the number stands for the session id; `sessions` is the server's
table, which a stop empties.  The server has one configured port (a busy port is a
hard error), so an old session id reaches the new process and is answered 404.
Waiters of a reconnect continue in the microtasks after it ends, so they belong
to `Open` and `ReconnectFails`.  The stream that fails five times in a row is
`GiveUp`: it needs a session the server has forgotten, since any success resets
the count.  `resets` counts POSTs lost after the server had accepted them.

## Runs

| Run | Question | Result |
|---|---|---|
| `push_bracket` | without a restart, does a bracket that renews in time keep the mutex while its command runs; with one, is every acquire answered and the mutex never wedged | holds |
| `push_restart` | can two pushes of living, renewing sprints overlap when the supervisor restarts | they can (finding) |
| `ticketed_mutex` | do promises, queue and holder agree, is the mutex ever idle with waiters, is it FIFO; do tickets and tokens agree with it; do clients stop polling; do tickets drain | holds |
| `id_allocator` | are memory, file and queued snapshots consistent at all times; does the allocator implement `UniqueIds`; does every abandoned reservation end | holds |
| `busy_lock` | is there always a dispatch that will free the lock; can two own it other than through a named breach; does a stall watch outlive its dispatch; can a stall verdict hit one that has ended | holds |
| `busy_live` | does a busy member become free | holds |
| `supervisor` | does a running child keep its reservation and a dead one lose it, through a crash, a failed write or a failed kill at any point; is an exit in the history before the ledger shows it; is each verdict recorded once; does the log only grow | holds |
| `launch_overlap` | can two launches end up with the same member | they can (finding) |
| `pause_resume` | is a paused run quiet; is a requested pause ever stranded; does a run that goes on hold its members; does everyone leave the gate | holds |
| `hub_relay` | does the queue implement `AtLeastOnce`; is a request handled again by a target that remembers it; is what a caller is told true; is an admitted request handled unless it expires | holds |
| `relay_answer` | is a caller answered with the result of its command | not always (finding) |
| `client_transport` | is a tool run again only for an accepted POST that was lost; does every request settle without its timer unless its transport was replaced | holds |

Deadlock checking is off in every run: each instance has finitely many requests
and rests when all are done.

### Findings

*Restart.*  The header of `dolt-mutex.mjs` says two sprints must never execute a
push at the same time.  The mutex is kept in memory only, children are detached
by design, and a refused renewal is only logged: after a restart the next
acquirer is granted while a living child still pushes.

*Launch overlap.*  The guards of a launch read the ledger; the claim comes after
the spawn, several awaits later, and does not check again.  Two launches for one
member both pass, although the guard's comment says that a held member rejects
the entire launch.

*Relayed pid.*  The pid update of a relayed command carries the request's id as
its correlation id, and the first envelope with that id resolves the caller: it
reads `{ status: 'started' }` as a failed command, and the result is dropped.

### Other disagreements met while modelling

No run of this project states these; the model contains each behaviour, and the
properties above are stated so that they hold with it.

* `dolt-push-mutex.ts:28`: cancelling a ticket fails every queued ticket of its
  sprint, since the cancel goes by sprint id.
* `execute-prompt.ts:480`: two dispatches that meet a stale lock probe the same pid,
  and the second deletes the claim the first has just made (`breached`).
* `docs/mcp-tools.md:396`: the close of any command on a member clears its stored
  pid, so stop_prompt may find nothing to kill while a session runs.
* `execute-prompt.ts:2316`: the finally block of a stalled dispatch removes the stall
  entry of the next one.
* `history.mjs:5` (append-only): the watchdog's prime may record before the history
  is loaded, and such a record can be lost (`spoiled`).  `serve.mjs:370`: an exit
  annotation may then be in the ledger without its event.
* `serve.mjs:371-373` (an exit code in the ledger implies the event in the history):
  `onChildExit` catches the rejection of its history record and annotates the ledger
  nevertheless, so one failed write leaves an exit that the history never had
  (`lost`).
* `reconcile.mjs:186-191`: a force-release whose kill fails releases the reservation
  anyway, as `supervisor-reconcile.test.mjs` expects; the child then runs on members
  that the next launch may take (`spared`).
* `spawner.mjs:169`: two launches may choose one viewer port; the second child ends.
* `reconcile.mjs:34`: a force-release kills whatever runs under the recorded pid.
* `workflow/index.mjs:720-723`: a resume of a pause that is only requested runs the
  pre-resume hook with calls in flight, so the resync moves a checkout under them.
* `cli.mjs:1071-1076`: the hand-back of a pause is not awaited and may undo the
  re-reservation of a later resume (`late`).
* `relay-queue.ts:209` (never dropped silently): the synthetic failure of an
  expired request may itself be refused by a full queue or expire.
* `hub-client.ts:68-72` (a duplicate is not executed again): the cache forgets an
  envelope five minutes after it was marked, before its handler was called, and the
  loop reads nothing while a handler is awaited; redeliveries of a command that
  runs longer wait behind it and are then executed again by the same process
  (`Evict`, `forgotten`).  `hub-spoke-wire-protocol.md:221-224` names the five minutes.
* `reconnecting-transport.mjs:102` (concurrent senders share one reconnect): a
  sender whose 404 arrives after a reconnect has ended starts another, which
  replaces a healthy transport; the answers it carries are dropped and their
  requests wait for the timer (`Superseded`).
* `reconnecting-transport.mjs:6-13` (re-sent only when provably never delivered): the
  inner transport re-posts after any lost connection, and the 404 of a restarted
  server proves only that the last POST did not run; a request the old server had
  accepted is then run a second time (`resets`).

### Bounds

* `PushBracket`: two brackets, lease 5 and renewal 2, so that one renewal may be
  missed and two may not, and `MaxRestarts` = 1: a second restart meets the state
  the first one meets.
* `TicketedMutex`: four requests of two sprints, one without a pid, lease of two
  ticks.  Two requests of one sprint are needed for `cancelWaiter` to drop
  several, three queued ones for FIFO to be able to go wrong; the theorems about
  the mutex cover every other size.
* `IdAllocator`: two calls of two processes, `MaxFloor` 2, one crash: a lapsed
  number is pooled, reused by the other call, and then confirmed or released late.
* `BusyLock`: three dispatches and one stop_prompt with one attempt each for safety
  (one dispatch stalls, one takes over, one interferes); two dispatches, one of
  which may retry and the other be cancelled, for liveness.  In the first run
  dispatches are interchangeable, so symmetry is sound for its invariants and its
  action property.  `MaxAttempts` 2 stands for the code's up to four retries, which
  all have the same shape; the theorems have no bound.
* `Supervisor`: one sprint with one pid that may be re-used, two classifiers (the
  interval and a page), one force-release, one fault (a crash, a failed write or a
  failed kill).  Combinations of faults are left to the theorems, which have no bound.
  The components that two
  sprints share are the guards and the ports; the `launch_overlap` run has two
  sprints for them.
* `PauseResume`: two branches, one armed with the usage limit; two members in the
  order of the loops, the second wanted by another sprint, so that a
  re-reservation can fail after one success; two pauses, so that the release loop
  of the first can meet the resume of the second; one usage limit, one failed
  reservation call.  The theorems have no bound.
* `HubRelay`: one request, one fault (a lost call, a dropped stream, a restart or the
  lapse of a cache entry), two handlings, a queue of depth one, so that the result of
  a command already meets a full queue, and requests and results large enough to be
  refused by an empty one.  The `relay_answer` run has neither fault nor large
  envelopes.
* `ClientTransport`: two requests (one can replace the transport of the other),
  two re-posts as in the code, one stop of the server, one lost connection.

### Fairness

Weak fairness is assumed of the event loop (handlers whose event has arrived, the
sweep timer, the renew timer, the write chain), of time, of commands ending
(each has a command timeout), of living clients going on after an answer, and of a
crashed allocator server or supervisor being started again.  A dispatch once called
keeps moving, since each of its awaits has a timeout of its own; of processes,
channels, clients and the stall detector nothing is assumed.  Nobody is obliged to
start a push, to die, to hang up, to lose a call or to renew; in `PushBracket` a
supervisor that is down is not obliged to come back.

`Supervisor`: the watchdog's interval keeps ticking and its own classifications
end; the pages that poll need not.  `PauseResume`: the event loop runs while an
answer, a timer or script code is due, and an operator who sees a paused run keeps
pressing Resume (strong fairness, since a failed resume disables it for a while).
`HubRelay`: the hub takes in what is posted and polls its table for the request, the
target reconnects and acknowledges, and the executor ends; strong fairness of the
target reading a request stands for a push that is not lost for ever.
`ClientTransport`: a POST is answered or fails, a reconnect ends, and a stream that has
lost its session counts to five; the request's own timer is not relied upon.

## Proofs

Every invariant, every action property and both refinements that a passing run
checks are proved, for every value of the constants that satisfies the named
assumptions of the modules; TLC evaluates those assumptions in the runs.

| Module | Theorems about | Inductive invariant |
|---|---|---|
| `DoltMutexProofs` | promises and queue agree, never idle with waiters, FIFO | `Inv` |
| `PushMutexProofs` | the two topologies: implementation of the mutex, tickets, tokens, leases | `TicketInv`, `BracketInv` |
| `IdAllocatorProofs` | consistent documents, refinement of `UniqueIds` | `IdInv` |
| `BusyLockProofs` | lock, watch and stall of a dispatch | the run's invariants and three more |
| `SupervisorProofs` | reservations, history, verdicts | `SupInv` |
| `PauseResumeProofs` | quiet pause, no stranded pause, members held | with the progress of the hook |
| `HubRelayProofs` | handlings per memory of the target, founded answers, refinement of `AtLeastOnce` | `HubInv` |
| `ClientTransportProofs` | runs are accounted for | `Unanswered`, `FreshIsIdle` |

### The mutex

`DoltMutexProofs` proves of `DoltMutex!Spec`, for every set of requests, every
assignment of sprints and pids and every positive lease: `TypeCorrect`,
`PromisesAlwaysMatch`, `NeverIdle`, `FifoAlways`.  The assumptions are
`NoneAssumption` (no grant is `None`) and `LeaseAssumption` (the lease is a
positive natural); TLC evaluates both in every run.

The inductive invariant is `TypeOK /\ PromisesMatchQueue /\ NeverIdleWithWaiters`.
`PromisesMatchQueue` needs that a queued request's arrival number is at most
`arrivals` (so the next one is new) and that places are distinct.
`NeverIdleWithWaiters` needs the agreement of promises and queue: an acquire may
only be queued once.  Since `acquire`, `release` and `reclaimExpired` all end in
`pump`, three lemmas say once what a pump preserves (`PumpType`, `PumpQueue`,
`PumpGrants`), and each action supplies their hypotheses.  `FifoAlways` is an
action property: only a pump grants, it grants the front of the queue it is
given, and that queue is the old one, with at most the caller of `acquire` at its
end.

`PushMutexProofs` carries this to the two topologies.  `TicketsImplementMutex` says that
`TicketSpec` implies `DoltMutex!Spec`: every step of a ticket, a client or a sweep
is a step of the mutex or leaves it alone, so the theorems above hold of the fleet
server too.  `ByTokenAlwaysHolder` and `TicketsAlwaysMatch` need each other and
`Inv`: whether a reclaim may drop a ticket depends on which request the pump then
serves.

For the supervisor's brackets `BracketTypeCorrect`, `TimelyRenewalKeepsIt` and
`TimelyPushesExclude` are proved for any lease and any renewal interval
(`RenewAssumption`).  `TimelyRenewalKeepsMutex` is not inductive, since it says
nothing of how much of the lease is left.  `LeasesCovered` does: with `Spent(r)` the slip
of the bracket plus the ticks since its renew timer was set, the time left on the
lease and `Spent(r)` together are at least the lease, from the grant (while the
answer is on its way) to the end of the command.  `RoutesMatchPhases` ties the
bracket's phase to its connection and its promise, so that a granted request that
pushes is not one whose client hung up.  `TimelyPushesExclude` follows: as long as
the supervisor has not restarted, two timely brackets do not push at once.  The
restart of the `push_restart` finding is therefore the only way to such an overlap.

### The allocator

`IdAllocatorProofs` proves of `IdAllocator!Spec`, for any calls and processes, any
bound on floors and crashes (`BoundsAssumption`): `AllocatorTypeCorrect`,
`DocumentsAlwaysConsistent` and `AllocatorKeepsPromise`, the refinement of
`UniqueIds`.  One lemma per operation on a document (`ReclaimSound`, `FloorSound`,
`ReserveSound`, `SettleSound`) says that it keeps `Consistent` and what it does to
the parts; consistency of all documents needs nothing else.  The refinement needs
more: that what a caller was told is in the file, in every write on its way and in
memory (`Backing`), since a crash may fall between any two of them; that a queued
write and all later ones carry what its caller waits to be told (`Queueing`), so
that landing it makes the telling true; and that a document knows a call under no
number but its own (`Numbered`).  `OwnersDiffer`, the promise itself, then follows for
an answered allocation because the number stands in a consistent document next to
everything told before.

### The busy lock

`BusyLockProofs` proves of `BusyLock!Spec`, for any sets of dispatches, stops,
cancellers and retriers and any positive number of attempts (`AttemptsAssumption`,
`CancellersAssumption`, `RetriersAssumption`): `BusyTypeCorrect`, `LockNeverStranded`,
`OneOwnerUnlessBreached`, `WatchNeverOutlives` and `StallsHitTheWatched`.  The
inductive invariant adds three facts to the invariants of the runs: a dispatch
cleared by a stall has been watched (`StalledWasWatched`), the dispatch of an
entry has got as far as adding it (`EntryWasAdded`), and without a breach an owner
has the lock (`OwnerHasLock`).  The exclusion is not inductive without the last:
a claim that finds the lock free must be able to conclude that nobody owns the
member.  `LockHasOwner` needs the first, or a new claim might already count as
cleared.  The three ways a dispatch ends or goes round (finally block,
change of phase, retry) are lemmas of their own (`FinallyKeeps`, `GotoKeeps`,
`RetryKeeps`); the actions cite them.

### The supervisor

`SupervisorProofs` proves of `Supervisor!Spec`, for any sprints, pids, ports, watchers
and bounds (`TimerAssumption`, `FaultsAssumption`, `ForeignAssumption`,
`NoneAssumption`): `SupervisorTypeCorrect`, `RunningAlwaysReserved`,
`ExitAlwaysInHistory`, `VerdictsAlwaysOnce` and the action property `HistoryGrows`.  The
run has one sprint; the theorems have any number, which matters where pids are
re-used between sprints.

`RunningIsReserved` rests on the pid probe.  A watcher releases what its probe calls
dead, and the probe compares a port taken before an await: `Watching` says that
the port a watcher holds for a child that runs is the child's own or none, which
needs `LivePorts` (the spawner's map is right for every child that runs) and that
in turn `OwnPid` (a sprint running under a pid has it as its own, so a re-adoption
under a re-used pid stores the port of whoever runs there).  `Killed` covers the
window of a force-release (nothing runs, or the kill failed and the sprint is
`spared`), `Reserved` and `SpawnedOnce` exclude that a released
sprint is spawned or claimed afterwards.  `LogInStep` says that unless a record was
begun too early the file and the list in memory are one once loaded, and that an
exit is queued, in the list or lost to a failed write before the ledger is annotated;
both history theorems follow.  `ReleasedOnce` makes `VerdictsOnce` inductive: a reservation
released on record does not come back.

### The pause

`PauseResumeProofs` proves of `PauseResume!Spec`, for any branches, any list of
members and any bounds (`PauseConstants`): `PauseTypeCorrect`, `PausedRunsAreQuiet`,
`PauseNeverStranded` and `RunningHoldsMembers`.  The last is not inductive: while a
resume is under way the run is still paused, and what makes it hold afterwards is
the progress of the hook.  `LoopProgress` says that the re-reservation loop has
asked exactly the members before its index and that a hook in its resync got all
of them; `StillHeld` says that what a live hook got is still reserved, or was handed
back late.

### The hub relay

`HubRelayProofs` proves of `HubRelay!Spec`, for any requests, queue depth, kinds that
expire or are large, and bounds on handlings, updates and faults: `RelayTypeCorrect`,
`RequestsHandledOncePerMemory`, `AnswersAlwaysFounded` and `RelayKeepsPromise`, the
refinement of `AtLeastOnce`.  `RunsCovered` sharpens the count: beyond the handlings the
target has forgotten, a request was handled only if it is in the target's cache,
which is what a redelivery meets; `ForgetCovered` says so for a lapse and a restart.  `AnswersAreFounded` needs to know of envelopes before they
are read: nothing is submitted or queued without its reason (`Provenance`), and the
sweep has failures to send for expired requests only (`Sweeps`).  The refinement needs
that a spoke acknowledges only what it handles, has handled, and was admitted
(`Admitted`, `Executing`); the lemmas `RowPromise` and `HandlePromise` say which change of a
row is which step of the promise, and every action is one of them or a stutter.

### The client

`ClientTransportProofs` proves of `ClientTransport!Spec`, for any set of requests, any
number of re-posts, server stops and lost connections (`ClientConstants`):
`ClientTypeCorrect` and `RerunsArePaidFor`.  The strengthening is that a `send()`
which may still post has had every earlier run of its request paid for by a lost
POST (`Unanswered`), and that a request is sent only once (`FreshIsIdle`); the two
failure paths are lemmas of their own (`SendFailsEffect`, `FetchFailsEffect`).

### What stays with TLC

Liveness under fairness, which is out of the prover's reach: `AcquireAnswered`,
`MutexNeverWedged`, `PollingEnds`, `TicketsDrain`, `ReservationsEnd`, `LockFreed`,
`DeadIsReleased`, `GateOpens`, `RunOrExpired` and `Settles`.  The three violations are
TLC's as well: a counterexample needs no proof.

## Not modelled

The components marked `not_modelled` in `PROJECT.json`, with the reason.  Most of
the code by volume is of this kind: installers, providers, OS command builders,
the knowledge bank's SQL, credentials, dashboards and the phases of the sprint
script are long sequences of single-step I/O by one actor, in which TLC would
re-enact the text and find nothing.

Inside modelled components: logging, HTTP status codes and JSON shapes, the
heartbeat bytes of the long poll, `status()` snapshots, argument validation, the
`nullDoltPushMutexClient`, a reservation without a pid in the allocator (every
creator passes its pid), and corrupt allocator files (a hard error at start).  In
`BusyLock`: interactive, local and relayed members, the durable output recovery,
the statusline, the pid an execute_command stores, overlapping stall polls,
entries without a log path (provisional), and the stall detector's thresholds.  In
`Supervisor`: `driveServerReservation` (the fleet server's copy of a reservation),
the order of the event log, the launch window's clock, the orphaned dolt server
sweep.  In `PauseResume`: the force_release tool, the release at the end of a run and
on SIGINT, the watchdog that abandons a call at the gate, and what the resync does to
a checkout; the error of sync brackets of one `exclusiveKey` that cross.  In `HubRelay`:
presence heartbeats, relayed file transfers, the sizes of batches.  In `ClientTransport`: the stdio transport, `close()`
of short-lived clients, authentication, HTTP errors other than 404 (they settle their
request as failed and nobody sends it again), an already aborted signal, the lock
between clients that start the server.

## Plan

1. *Done*: `DoltMutex`, `PushBracket`, `TicketedMutex`, `IdAllocator`, `BusyLock`,
   `Supervisor`, `PauseResume`, `HubRelay`, `ClientTransport`.
2. `StartLock`: the lock files of auto-start, singleton and sprint (stale lock taken
   by two).
3. `ChildBeads` on `IdAllocator`: clones, floor probe, create, lost confirm;
   `AllocatorSingleton`: lazy creation in the fleet server.
4. `Journal`: replay of the workflow engine after a crash.
5. `DoltSync`: pull/push/settle ladder with the landed check.
6. `BusyLock` with execute_command's pid and its own busy marker; `Supervisor` with
   the fleet server's reservations.
7. Proofs: *done* for every safety property of the runs.  Left: the invariants
   behind the liveness properties (that whatever a caller waits for is still under
   way, as in `Settles` and `ReservationsEnd`), which are safety and can be proved.
