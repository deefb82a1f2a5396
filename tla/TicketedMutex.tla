---------------------------- MODULE TicketedMutex ----------------------------
(***************************************************************************)
(* The dolt push mutex in the fleet-server topology: createTicketedMutex   *)
(* (sprint-coordination.ts) parks each acquire() behind a ticket, the      *)
(* dolt_push_mutex tool exposes it, and createMcpDoltPushMutexClient       *)
(* (coordination.mjs) polls the ticket until it is granted or its own      *)
(* deadline passes.                                                        *)
(*                                                                         *)
(* A request stands for its ticket and, once granted, for its token.  The  *)
(* .then() callbacks of acquire() run in the microtask after the grant or  *)
(* the rejection, so a ticket's state is the request's promise: pending is *)
(* "waiting", granted is "granted", failed is "rejected".                  *)
(***************************************************************************)
EXTENDS DoltMutex

VARIABLES
    tickets,   \* keys of the tickets map
    byToken,   \* keys of the byToken map
    client     \* where the client of each request is

ticketVars == <<vars, tickets, byToken, client>>

TicketInit ==
    /\ Init
    /\ tickets = {}
    /\ byToken = {}
    /\ client = [r \in Requests |-> "idle"]

\* What reclaimExpired() takes away, and what onReclaim drops with it.
Reclaimed == IF Reclaimable THEN {holder.req} ELSE {}

onReclaim_Unsubscribed == {}

onReclaim == Reclaimed \cap byToken

\* The acquire().then() callback of a request granted in this step.
Granted == {r \in Requests : result[r] # "granted" /\ result'[r] = "granted"}

Becomes(r, c) == client' = [client EXCEPT ![r] = c]

------------------------------------------------------------------------------
\* The tool's "acquire": a new ticket, one enqueue.
acquireTicket(r) ==
    /\ Alive(r) /\ client[r] = "idle"
    /\ acquire(r)
    /\ tickets' = (tickets \ onReclaim) \cup {r}
    /\ byToken' = (byToken \ onReclaim) \cup Granted
    /\ Becomes(r, "polling")
    /\ UNCHANGED dead

\* The tool's answer to "acquire" or "poll" for a settled or unknown ticket.
\* A pending one changes nothing: the client polls again.
poll(r) ==
    /\ Alive(r) /\ client[r] = "polling"
    /\ \/ r \in tickets /\ result[r] = "granted" /\ Becomes(r, "pushing")
       \/ (r \notin tickets \/ result[r] = "rejected") /\ Becomes(r, "done")
    /\ UNCHANGED <<vars, tickets, byToken>>

\* A tool call fails in transport: the client's acquire() throws, without a
\* cancel.
CallFails(r) ==
    /\ Alive(r) /\ client[r] = "polling"
    /\ Becomes(r, "done")
    /\ UNCHANGED <<vars, tickets, byToken>>

cancel_LeavesWaiter(r) ==
    /\ r \in tickets
    /\ tickets' = tickets \ {r}
    /\ UNCHANGED <<mutexVars, byToken>>

\* The tool's "cancel".
cancel(r) ==
    \/ r \notin tickets /\ UNCHANGED <<mutexVars, tickets, byToken>>
    \/ /\ r \in tickets /\ result[r] = "granted"
       /\ release(r) \/ Refused(r)
       /\ tickets' = tickets \ {r}
       /\ byToken' = (byToken \ {r}) \cup Granted
    \/ /\ r \in tickets /\ result[r] # "granted"
       /\ cancelWaiter(SprintOf[r])
       /\ tickets' = tickets \ {r}
       /\ UNCHANGED byToken

\* The client's deadline passes before it has seen a grant: it cancels, best
\* effort, and throws.
DeadlinePasses(r) ==
    /\ Alive(r) /\ client[r] = "polling"
    /\ cancel(r) \/ UNCHANGED <<mutexVars, tickets, byToken>>
    /\ Becomes(r, "done")
    /\ UNCHANGED dead

\* The tool's "renew".
renewTicket(r) ==
    /\ Alive(r) /\ client[r] = "pushing"
    /\ renew(r) \/ Refused(r)
    /\ UNCHANGED <<dead, tickets, byToken, client>>

\* The tool's "release".
releaseTicket(r) ==
    /\ release(r) \/ Refused(r)
    /\ tickets' = tickets \ (byToken \cap {r})
    /\ byToken' = (byToken \ {r}) \cup Granted

\* The bracket ends: its release lands or is lost.
BracketEnds(r) ==
    /\ Alive(r) /\ client[r] = "pushing"
    /\ releaseTicket(r) \/ UNCHANGED <<mutexVars, tickets, byToken>>
    /\ Becomes(r, "done")
    /\ UNCHANGED dead

\* The sweep timer of the underlying mutex.
SweepTickets ==
    /\ reclaimExpired
    /\ tickets' = tickets \ onReclaim
    /\ byToken' = (byToken \ onReclaim) \cup Granted
    /\ UNCHANGED <<dead, client>>

ServerTimePasses == Tick /\ UNCHANGED <<dead, tickets, byToken, client>>

ClientDies(p) == Exit(p) /\ UNCHANGED <<mutexVars, tickets, byToken, client>>

TicketNext ==
    \/ \E r \in Requests :
          \/ acquireTicket(r) \/ poll(r) \/ CallFails(r) \/ DeadlinePasses(r)
          \/ renewTicket(r) \/ BracketEnds(r)
    \/ SweepTickets \/ ServerTimePasses
    \/ \E p \in Pids : ClientDies(p)

\* The server's timers fire, living clients poll and finish their push, time
\* passes.  Deadlines, failed calls, renewals and deaths may never happen.
TicketFairness ==
    /\ WF_ticketVars(SweepTickets)
    /\ WF_ticketVars(ServerTimePasses)
    /\ \A r \in Requests : WF_ticketVars(poll(r)) /\ WF_ticketVars(BracketEnds(r))

TicketSpec == TicketInit /\ [][TicketNext]_ticketVars /\ TicketFairness

------------------------------------------------------------------------------
\* byToken knows the current grant and no other: a grant that is released,
\* cancelled or reclaimed leaves no entry behind, and onReclaim can always
\* find the ticket of the holder it takes down.
ByTokenIsHolder == byToken = {r \in Requests : Holds(r)}

\* Apart from failed tickets, the map holds exactly the requests that wait or
\* hold: no waiter can reach the front with nobody able to poll it, and no
\* ticket outlives its grant.
TicketsMatchMutex ==
    {r \in tickets : result[r] # "rejected"} =
       {r \in Requests : pos[r] > 0 \/ Holds(r)}

\* Every living client stops polling: it is granted, or told that it failed.
PollingEnds ==
    \A r \in Requests : client[r] = "polling" ~> (client[r] # "polling" \/ ~Alive(r))

\* The tickets of finished or dead clients drain from the map, except failed
\* ones: lost releases, lost cancels and crashes do not accumulate.
TicketsDrain ==
    \A r \in Requests :
       (client[r] = "done" \/ ~Alive(r)) ~> (r \notin tickets \/ result[r] = "rejected")
==============================================================================
