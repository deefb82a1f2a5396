--------------------------- MODULE ClientTransport ---------------------------
(***************************************************************************)
(* The MCP client of a long-lived run (McpClient over                      *)
(* ReconnectingHttpTransport over StreamableHttpTransport) against a shared *)
(* fleet server that may stop and be started again under it.               *)
(*                                                                         *)
(* Every request has its own POST: the inner transport re-posts it after a *)
(* connection-level failure, and the reconnecting transport re-sends it    *)
(* once, on a new session, when the failure proves that it never reached a *)
(* tool. The server forgets every session when it stops, and it always     *)
(* listens on one configured port, so a POST of an old session reaches the *)
(* new server and is answered 404. Inner transports are numbered in the    *)
(* order they are opened; the number stands for the session id. HTTP       *)
(* errors other than 404 are left out: they come from authentication and   *)
(* malformed requests, are sent again by nobody, and settle their request  *)
(* as failed.                                                              *)
(***************************************************************************)
EXTENDS Naturals, FiniteSets

CONSTANTS
    Requests,       \* the requests of the run
    SendRetries,    \* re-posts of one inner send (SEND_RETRY_DELAYS_MS)
    MaxStops,       \* bound: times the server stops
    MaxFaults       \* bound: connections lost while the server lives

ASSUME ClientConstants ==
    /\ SendRetries \in Nat
    /\ MaxStops \in Nat
    /\ MaxFaults \in Nat

VARIABLES
    up,             \* the server listens
    sessions,       \* the server's sessions, by the inner transport that opened them
    runs,           \* times the server ran the tool of a request
    stops,          \* times the server stopped
    faults,         \* connections lost while the server lived
    inner,          \* the current inner transport
    stale,          \* the current connection is known to be dead
    stopped,        \* stop() was called
    recon,          \* the shared reconnect: "no", "relocate" or "open"
    loop,           \* the current inner's persistent stream loop is running
    closing,        \* a stopped inner's loop has yet to emit 'close'
    send,           \* per request: where its send() is
    outcome,        \* per request: the promise of request()
    resets          \* per request: POSTs lost after the server had accepted them

server == <<up, sessions, stops>>
transport == <<inner, stale, stopped, recon, loop, closing>>
vars == <<server, runs, faults, transport, send, outcome, resets>>

Pcs == {"idle", "await", "post", "accepted", "backoff", "stream", "done"}

Pending(r) == outcome[r] = "pending"

-----------------------------------------------------------------------------
(* McpClient: one promise settles, or an event settles them all. *)
Reject(R) == [r \in Requests |-> IF r \in R /\ Pending(r) THEN "failed" ELSE outcome[r]]

(* _reconnect(): joins the reconnect that is under way, or starts one. *)
joined == IF recon = "no" THEN "relocate" ELSE recon

(* A POST on inner transport t. *)
posting(s, t) == [pc |-> "post", via |-> t, tries |-> 0, resent |-> s.resent]

(* isNeverDeliveredError() *)
isNeverDelivered(code) == code \in {"ECONNREFUSED", "404"}

(* The inner send() of r has thrown. *)
SendFails(r, code) ==
    IF isNeverDelivered(code) /\ ~send[r].resent
    THEN /\ send' = [send EXCEPT ![r].pc = "await", ![r].resent = TRUE]
         /\ recon' = joined
         /\ UNCHANGED outcome
    ELSE /\ send' = [send EXCEPT ![r].pc = "done"]
         /\ outcome' = Reject({r})
         /\ UNCHANGED recon

(* Mutant: one delay more than the list holds. *)
FetchFailsOnceMore(r, code) ==
    IF send[r].tries <= SendRetries
    THEN /\ send' = [send EXCEPT ![r].pc = "backoff", ![r].tries = @ + 1]
         /\ UNCHANGED <<recon, outcome>>
    ELSE SendFails(r, code)

(* fetch() has rejected: a connection-level failure is posted again. *)
FetchFails(r, code) ==
    IF send[r].tries < SendRetries
    THEN /\ send' = [send EXCEPT ![r].pc = "backoff", ![r].tries = @ + 1]
         /\ UNCHANGED <<recon, outcome>>
    ELSE SendFails(r, code)

-----------------------------------------------------------------------------
Init ==
    /\ up = TRUE /\ sessions = {1} /\ stops = 0 /\ faults = 0
    /\ runs = [r \in Requests |-> 0]
    /\ inner = 1 /\ stale = FALSE /\ stopped = FALSE /\ recon = "no"
    /\ loop = TRUE /\ closing = FALSE
    /\ send = [r \in Requests |-> [pc |-> "idle", via |-> 1, tries |-> 0, resent |-> FALSE]]
    /\ outcome = [r \in Requests |-> "none"]
    /\ resets = [r \in Requests |-> 0]

(* request(): the promise is registered, and send() runs to its first await. *)
Request(r) ==
    /\ outcome[r] = "none"
    /\ IF stopped
       THEN /\ outcome' = [outcome EXCEPT ![r] = "failed"]
            /\ send' = [send EXCEPT ![r].pc = "done"]
            /\ UNCHANGED recon
       ELSE /\ outcome' = [outcome EXCEPT ![r] = "pending"]
            /\ IF recon # "no" \/ stale
               THEN send' = [send EXCEPT ![r].pc = "await"] /\ recon' = joined
               ELSE send' = [send EXCEPT ![r] = posting(@, inner)] /\ UNCHANGED recon
    /\ UNCHANGED <<server, runs, faults, inner, stale, stopped, loop, closing, resets>>

(* The timer of request(), or its abort signal. send() goes on. *)
TimeOut(r) ==
    /\ Pending(r)
    /\ outcome' = Reject({r})
    /\ UNCHANGED <<server, runs, faults, transport, send, resets>>

-----------------------------------------------------------------------------
(* relocate(): the probe finds the server, or starts it when it is gone. *)
Relocate ==
    /\ recon = "relocate"
    /\ up' = TRUE /\ recon' = "open"
    /\ UNCHANGED <<sessions, stops, runs, faults, inner, stale, stopped, loop, closing, send, outcome, resets>>

(* The probe, the start or the opening of the session has thrown: so does
   everyone who awaits the reconnect. The old inner transport stays. *)
ReconnectFails ==
    /\ recon = "relocate" \/ (recon = "open" /\ ~up)
    /\ recon' = "no"
    /\ LET waiting == {r \in Requests : send[r].pc = "await"} IN
       /\ send' = [r \in Requests |-> IF r \in waiting THEN [send[r] EXCEPT !.pc = "done"] ELSE send[r]]
       /\ outcome' = Reject(waiting)
    /\ UNCHANGED <<server, runs, faults, inner, stale, stopped, loop, closing, resets>>

(* _open(): a new session takes over, and everyone who awaits it posts on it. *)
Open ==
    /\ recon = "open" /\ up
    /\ sessions' = sessions \cup {inner + 1}
    /\ inner' = inner + 1 /\ stale' = FALSE /\ recon' = "no" /\ loop' = TRUE
    /\ send' = [r \in Requests |->
                  IF send[r].pc = "await" THEN posting(send[r], inner + 1) ELSE send[r]]
    /\ UNCHANGED <<up, stops, runs, faults, stopped, closing, outcome, resets>>

-----------------------------------------------------------------------------
(* The POST of r reaches a server that knows its session: the tool runs. *)
Accept(r) ==
    /\ send[r].pc = "post" /\ up /\ send[r].via \in sessions
    /\ runs' = [runs EXCEPT ![r] = @ + 1]
    /\ send' = [send EXCEPT ![r].pc = "accepted"]
    /\ UNCHANGED <<server, faults, transport, outcome, resets>>

(* Mutant: the session is looked up after the tool has been run. *)
NotFoundRan(r) ==
    /\ send[r].pc = "post" /\ up /\ send[r].via \notin sessions
    /\ runs' = [runs EXCEPT ![r] = @ + 1]
    /\ SendFails(r, "404")
    /\ UNCHANGED <<server, faults, inner, stale, stopped, loop, closing, resets>>

(* The router answers 404: the session is not one of this server process. *)
NotFound(r) ==
    /\ send[r].pc = "post" /\ up /\ send[r].via \notin sessions
    /\ SendFails(r, "404")
    /\ UNCHANGED <<server, runs, faults, inner, stale, stopped, loop, closing, resets>>

(* Nobody listens. *)
Refused(r) ==
    /\ send[r].pc = "post" /\ ~up
    /\ FetchFails(r, "ECONNREFUSED")
    /\ UNCHANGED <<server, runs, faults, inner, stale, stopped, loop, closing, resets>>

(* The connection is lost before a response: on the way to the server, or after
   the server has accepted the request, which a stop of that server forces. *)
Reset(r) ==
    /\ \/ send[r].pc = "accepted" /\ send[r].via \notin sessions /\ UNCHANGED faults
       \/ send[r].pc \in {"post", "accepted"} /\ faults < MaxFaults /\ faults' = faults + 1
    /\ resets' = [resets EXCEPT ![r] = IF send[r].pc = "accepted" THEN @ + 1 ELSE @]
    /\ FetchFails(r, "ECONNRESET")
    /\ UNCHANGED <<server, runs, inner, stale, stopped, loop, closing>>

(* The delay before the next post is over. The old session id is used again. *)
Repost(r) ==
    /\ send[r].pc = "backoff"
    /\ send' = [send EXCEPT ![r].pc = "post"]
    /\ UNCHANGED <<server, runs, faults, transport, outcome, resets>>

(* The response begins: send() returns and the stream is read on. *)
Respond(r) ==
    /\ send[r].pc = "accepted" /\ send[r].via \in sessions
    /\ send' = [send EXCEPT ![r].pc = "stream"]
    /\ UNCHANGED <<server, runs, faults, transport, outcome, resets>>

(* The answer arrives; one of a transport that was replaced is dropped. *)
Answer(r) ==
    /\ send[r].pc = "stream" /\ send[r].via \in sessions
    /\ send' = [send EXCEPT ![r].pc = "done"]
    /\ outcome' = [outcome EXCEPT ![r] = IF Pending(r) /\ send[r].via = inner THEN "resolved" ELSE @]
    /\ UNCHANGED <<server, runs, faults, transport, resets>>

(* Mutant: the error of a response stream is swallowed. *)
StreamDiesQuietly(r) ==
    /\ send[r].pc = "stream"
    /\ \/ send[r].via \notin sessions /\ UNCHANGED faults
       \/ faults < MaxFaults /\ faults' = faults + 1
    /\ send' = [send EXCEPT ![r].pc = "done"]
    /\ stale' = (stale \/ send[r].via = inner)
    /\ UNCHANGED <<server, runs, inner, stopped, recon, loop, closing, outcome, resets>>

(* The response stream breaks: 'error' rejects every pending request. One of a
   transport that was replaced is dropped. *)
StreamDies(r) ==
    /\ send[r].pc = "stream"
    /\ \/ send[r].via \notin sessions /\ UNCHANGED faults
       \/ faults < MaxFaults /\ faults' = faults + 1
    /\ send' = [send EXCEPT ![r].pc = "done"]
    /\ IF send[r].via = inner
       THEN stale' = TRUE /\ outcome' = Reject(Requests)
       ELSE UNCHANGED <<stale, outcome>>
    /\ UNCHANGED <<server, runs, inner, stopped, recon, loop, closing, resets>>

(* A server that closes in order ends its streams without an answer or an error. *)
StreamEnds(r) ==
    /\ send[r].pc = "stream" /\ send[r].via \notin sessions
    /\ send' = [send EXCEPT ![r].pc = "done"]
    /\ UNCHANGED <<server, runs, faults, transport, outcome, resets>>

-----------------------------------------------------------------------------
(* The fifth failure in a row of the persistent stream: 'error', then 'close'. *)
GiveUp ==
    /\ loop /\ inner \notin sessions
    /\ loop' = FALSE /\ stale' = TRUE
    /\ outcome' = Reject(Requests)
    /\ UNCHANGED <<server, runs, faults, inner, stopped, recon, closing, send, resets>>

(* stop(): the loop is aborted, and reports it with a 'close'. *)
Stop ==
    /\ ~stopped /\ stopped' = TRUE
    /\ loop' = FALSE /\ closing' = loop
    /\ UNCHANGED <<server, runs, faults, inner, stale, recon, send, outcome, resets>>

Close ==
    /\ closing /\ closing' = FALSE
    /\ outcome' = Reject(Requests)
    /\ UNCHANGED <<server, runs, faults, inner, stale, stopped, recon, loop, send, resets>>

(* The server crashes or is stopped, and somebody else starts it again. *)
ServerStops ==
    /\ up /\ stops < MaxStops
    /\ up' = FALSE /\ sessions' = {} /\ stops' = stops + 1
    /\ UNCHANGED <<runs, faults, transport, send, outcome, resets>>

ServerStarts ==
    /\ ~up /\ up' = TRUE
    /\ UNCHANGED <<sessions, stops, runs, faults, transport, send, outcome, resets>>

-----------------------------------------------------------------------------
(* What the network, the server and the client's event loop do for one request. *)
Progress(r) ==
    \/ Accept(r) \/ NotFound(r) \/ Refused(r) \/ Repost(r)
    \/ Respond(r) \/ Answer(r) \/ Reset(r) \/ StreamDies(r) \/ StreamEnds(r)
Reconnect == Relocate \/ ReconnectFails \/ Open

Next ==
    \/ \E r \in Requests : Request(r) \/ TimeOut(r) \/ Progress(r)
    \/ Reconnect \/ GiveUp \/ Stop \/ Close
    \/ ServerStops \/ ServerStarts

Spec == Init /\ [][Next]_vars

(* A POST is answered or fails, a reconnect ends, and a loop that has lost its
   session counts to five. The timer of a request is not relied upon. *)
LiveSpec ==
    /\ Spec
    /\ \A r \in Requests : WF_vars(Progress(r))
    /\ WF_vars(Reconnect) /\ WF_vars(GiveUp) /\ WF_vars(Close)

-----------------------------------------------------------------------------
(* Types of the client's and the server's state. *)
TypeOK ==
    /\ up \in BOOLEAN /\ inner \in Nat \ {0} /\ sessions \subseteq 1..inner
    /\ stops \in 0..MaxStops /\ faults \in 0..MaxFaults
    /\ runs \in [Requests -> Nat] /\ resets \in [Requests -> Nat]
    /\ stale \in BOOLEAN /\ stopped \in BOOLEAN /\ loop \in BOOLEAN /\ closing \in BOOLEAN
    /\ recon \in {"no", "relocate", "open"}
    /\ send \in [Requests -> [pc : Pcs, via : 1..inner, tries : 0..SendRetries, resent : BOOLEAN]]
    /\ outcome \in [Requests -> {"none", "pending", "resolved", "failed"}]

(* A tool runs a second time for one request only if the connection of an
   accepted POST was lost before its response began: neither the 404 retry on a
   new session, nor a re-post, nor a rejected promise whose send() goes on, runs
   it again (reconnecting-transport.mjs send(), transport.mjs send()). *)
RunsAreAccounted == \A r \in Requests : runs[r] <= 1 + resets[r]

(* A request whose response was begun on a transport that has been replaced. *)
Superseded(r) == send[r].pc \in {"stream", "done"} /\ send[r].via # inner

(* Without its timer every request still settles, by its answer, by the error of
   a stream or by the loop that gives up, unless a later reconnect has replaced
   the transport that carries it (client.mjs 'error' and 'close' handlers). *)
Settles == \A r \in Requests : Pending(r) ~> (~Pending(r) \/ Superseded(r))
==============================================================================
