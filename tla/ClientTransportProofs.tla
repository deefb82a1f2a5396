------------------------ MODULE ClientTransportProofs ------------------------
(***************************************************************************)
(* A request is run at most once more than its accepted POSTs were lost,   *)
(* for every set of requests, every number of re-posts and any number of   *)
(* server restarts.                                                        *)
(*                                                                         *)
(* RunsAreAccounted is not inductive: that a POST may be sent again says   *)
(* nothing of how often the tool has run before. Unanswered adds it: a     *)
(* send() that may still post has had every earlier run of its request     *)
(* paid for by a loss, and FreshIsIdle that a request is sent only once.   *)
(***************************************************************************)
EXTENDS ClientTransport, TLAPS

(* The states of a send() from which a POST may still be accepted. *)
MayPost == {"idle", "await", "post", "backoff"}

Unanswered == \A r \in Requests : send[r].pc \in MayPost => runs[r] <= resets[r]
FreshIsIdle == \A r \in Requests : outcome[r] = "none" => send[r].pc = "idle"

IInv == TypeOK /\ RunsAreAccounted /\ Unanswered /\ FreshIsIdle

(* Rejecting promises keeps their type and makes none of them fresh. *)
LEMMA RejectKeepsOutcomes ==
    ASSUME TypeOK, NEW R
    PROVE  /\ Reject(R) \in [Requests -> {"none", "pending", "resolved", "failed"}]
           /\ \A r \in Requests : Reject(R)[r] = "none" => outcome[r] = "none"
BY DEF Reject, TypeOK, Pending

(* A failed inner send() waits for a reconnect or is over. *)
LEMMA SendFailsEffect ==
    ASSUME TypeOK, FreshIsIdle, NEW r \in Requests, NEW code, SendFails(r, code),
           send[r].pc \in {"post", "accepted"}
    PROVE  /\ send' \in [Requests -> [pc : Pcs, via : 1..inner, tries : 0..SendRetries, resent : BOOLEAN]]
           /\ outcome' \in [Requests -> {"none", "pending", "resolved", "failed"}]
           /\ recon' \in {"no", "relocate", "open"}
           /\ \A q \in Requests : q # r => send'[q] = send[q]
           /\ send'[r].pc \in {"await", "done"}
           /\ FreshIsIdle'
<1>1. CASE isNeverDelivered(code) /\ ~send[r].resent
  BY <1>1 DEF SendFails, TypeOK, FreshIsIdle, joined, Pcs
<1>2. CASE ~(isNeverDelivered(code) /\ ~send[r].resent)
  <2>1. /\ send' = [send EXCEPT ![r].pc = "done"]
        /\ outcome' = Reject({r})
        /\ UNCHANGED recon
    BY <1>2 DEF SendFails
  <2> QED BY <2>1, RejectKeepsOutcomes DEF TypeOK, FreshIsIdle, Pcs
<1> QED BY <1>1, <1>2

(* A rejected fetch() is posted again, waits for a reconnect or is over. *)
LEMMA FetchFailsEffect ==
    ASSUME TypeOK, FreshIsIdle, NEW r \in Requests, NEW code, FetchFails(r, code),
           send[r].pc \in {"post", "accepted"}
    PROVE  /\ send' \in [Requests -> [pc : Pcs, via : 1..inner, tries : 0..SendRetries, resent : BOOLEAN]]
           /\ outcome' \in [Requests -> {"none", "pending", "resolved", "failed"}]
           /\ recon' \in {"no", "relocate", "open"}
           /\ \A q \in Requests : q # r => send'[q] = send[q]
           /\ send'[r].pc \in {"backoff", "await", "done"}
           /\ FreshIsIdle'
<1>1. CASE send[r].tries < SendRetries
  BY <1>1, ClientConstants DEF FetchFails, TypeOK, FreshIsIdle, Pcs
<1>2. CASE ~(send[r].tries < SendRetries)
  BY <1>2, SendFailsEffect DEF FetchFails
<1> QED BY <1>1, <1>2

-----------------------------------------------------------------------------
LEMMA InitHolds == Init => IInv
<1> SUFFICES ASSUME Init PROVE IInv
  OBVIOUS
<1>1. send \in [Requests -> [pc : Pcs, via : 1..1, tries : 0..SendRetries, resent : BOOLEAN]]
  BY ClientConstants DEF Init, Pcs
<1>2. TypeOK
  <2>1. inner = 1 /\ inner \in Nat \ {0} /\ sessions \subseteq 1..inner
    BY DEF Init
  <2>2. /\ stops \in 0..MaxStops /\ faults \in 0..MaxFaults
        /\ runs \in [Requests -> Nat] /\ resets \in [Requests -> Nat]
        /\ outcome \in [Requests -> {"none", "pending", "resolved", "failed"}]
    BY ClientConstants DEF Init
  <2>3. /\ up \in BOOLEAN /\ stale \in BOOLEAN /\ stopped \in BOOLEAN
        /\ loop \in BOOLEAN /\ closing \in BOOLEAN /\ recon \in {"no", "relocate", "open"}
    BY DEF Init
  <2> QED BY <1>1, <2>1, <2>2, <2>3 DEF TypeOK
<1>3. RunsAreAccounted /\ Unanswered /\ FreshIsIdle
  BY DEF Init, RunsAreAccounted, Unanswered, FreshIsIdle
<1> QED BY <1>2, <1>3 DEF IInv

LEMMA StepKeeps == IInv /\ [Next]_vars => IInv'
<1> SUFFICES ASSUME IInv, [Next]_vars PROVE IInv'
  OBVIOUS
<1> USE ClientConstants
<1>1. ASSUME NEW r \in Requests, Request(r) PROVE IInv'
  <2>1. /\ send[r].pc = "idle" /\ outcome[r] = "none"
        /\ UNCHANGED <<server, runs, faults, inner, stale, stopped, loop, closing, resets>>
    BY <1>1 DEF Request, IInv, FreshIsIdle
  <2>2. /\ send' \in [Requests -> [pc : Pcs, via : 1..inner, tries : 0..SendRetries, resent : BOOLEAN]]
        /\ \A q \in Requests : q # r => send'[q] = send[q]
    <3>1. PICK pc \in Pcs, via \in 1..inner, tries \in 0..SendRetries :
            send' = [send EXCEPT ![r] = [pc |-> pc, via |-> via, tries |-> tries, resent |-> send[r].resent]]
      <4>1. CASE stopped
        <5>1. send' = [send EXCEPT ![r] = [pc |-> "done", via |-> send[r].via,
                                           tries |-> send[r].tries, resent |-> send[r].resent]]
          BY <1>1, <4>1 DEF Request, IInv, TypeOK
        <5> QED BY <5>1 DEF IInv, TypeOK, Pcs
      <4>2. CASE ~stopped /\ (recon # "no" \/ stale)
        <5>1. send' = [send EXCEPT ![r] = [pc |-> "await", via |-> send[r].via,
                                           tries |-> send[r].tries, resent |-> send[r].resent]]
          BY <1>1, <4>2 DEF Request, IInv, TypeOK
        <5> QED BY <5>1 DEF IInv, TypeOK, Pcs
      <4>3. CASE ~stopped /\ ~(recon # "no" \/ stale)
        <5>1. send' = [send EXCEPT ![r] = [pc |-> "post", via |-> inner,
                                           tries |-> 0, resent |-> send[r].resent]]
          <6>1. send' = [send EXCEPT ![r] = posting(send[r], inner)]
            BY <1>1, <4>3 DEF Request
          <6> QED BY <6>1 DEF posting
        <5>2. "post" \in Pcs /\ inner \in 1..inner /\ 0 \in 0..SendRetries
          BY DEF IInv, TypeOK, Pcs
        <5> QED BY <5>1, <5>2
      <4> QED BY <4>1, <4>2, <4>3
    <3> QED BY <3>1 DEF IInv, TypeOK
  <2>3. /\ outcome' \in [Requests -> {"none", "pending", "resolved", "failed"}]
        /\ outcome'[r] # "none" /\ \A q \in Requests : q # r => outcome'[q] = outcome[q]
    BY <1>1 DEF Request, IInv, TypeOK
  <2>4. recon' \in {"no", "relocate", "open"}
    BY <1>1 DEF Request, joined, IInv, TypeOK
  <2>5. TypeOK'
    BY <2>1, <2>2, <2>3, <2>4 DEF IInv, TypeOK, server
  <2>6. RunsAreAccounted' /\ Unanswered' /\ FreshIsIdle'
    BY <2>1, <2>2, <2>3 DEF IInv, RunsAreAccounted, Unanswered, FreshIsIdle, MayPost
  <2> QED BY <2>5, <2>6 DEF IInv
<1>2. ASSUME NEW r \in Requests, TimeOut(r) PROVE IInv'
  BY <1>2, RejectKeepsOutcomes
     DEF IInv, TypeOK, RunsAreAccounted, Unanswered, FreshIsIdle, TimeOut, server, transport
<1>3. ASSUME NEW r \in Requests, Accept(r) PROVE IInv'
  BY <1>3 DEF IInv, TypeOK, RunsAreAccounted, Unanswered, FreshIsIdle, MayPost, Pcs,
              Accept, server, transport
<1>4. ASSUME NEW r \in Requests, NotFound(r) PROVE IInv'
  <2>1. SendFails(r, "404") /\ send[r].pc = "post"
    BY <1>4 DEF NotFound
  <2> QED BY <1>4, <2>1, SendFailsEffect
     DEF IInv, TypeOK, RunsAreAccounted, Unanswered, MayPost, NotFound, server
<1>5. ASSUME NEW r \in Requests, Refused(r) PROVE IInv'
  <2>1. FetchFails(r, "ECONNREFUSED") /\ send[r].pc = "post"
    BY <1>5 DEF Refused
  <2> QED BY <1>5, <2>1, FetchFailsEffect
     DEF IInv, TypeOK, RunsAreAccounted, Unanswered, MayPost, Refused, server
<1>6. ASSUME NEW r \in Requests, Reset(r) PROVE IInv'
  <2>1. FetchFails(r, "ECONNRESET") /\ send[r].pc \in {"post", "accepted"}
    BY <1>6 DEF Reset
  <2>2. FreshIsIdle'
    BY <2>1, FetchFailsEffect DEF IInv
  <2>3. TypeOK'
    BY <1>6, <2>1, FetchFailsEffect DEF IInv, TypeOK, Reset, server
  <2>4. runs[r] <= resets'[r] /\ \A q \in Requests : q # r => resets'[q] = resets[q]
    BY <1>6, <2>1 DEF IInv, TypeOK, RunsAreAccounted, Unanswered, MayPost, Reset
  <2>5. RunsAreAccounted' /\ Unanswered'
    BY <1>6, <2>1, <2>3, <2>4, FetchFailsEffect
       DEF IInv, TypeOK, RunsAreAccounted, Unanswered, Reset
  <2> QED BY <2>2, <2>3, <2>5 DEF IInv
<1>7. ASSUME NEW r \in Requests, Repost(r) PROVE IInv'
  BY <1>7 DEF IInv, TypeOK, RunsAreAccounted, Unanswered, FreshIsIdle, MayPost, Pcs,
              Repost, server, transport
<1>8. ASSUME NEW r \in Requests, Respond(r) PROVE IInv'
  BY <1>8 DEF IInv, TypeOK, RunsAreAccounted, Unanswered, FreshIsIdle, MayPost, Pcs,
              Respond, server, transport
<1>9. ASSUME NEW r \in Requests, Answer(r) PROVE IInv'
  BY <1>9 DEF IInv, TypeOK, RunsAreAccounted, Unanswered, FreshIsIdle, MayPost, Pcs,
              Answer, server, transport
<1>10. ASSUME NEW r \in Requests, StreamDies(r) PROVE IInv'
  <2>1. /\ outcome' \in [Requests -> {"none", "pending", "resolved", "failed"}]
        /\ \A q \in Requests : outcome'[q] = "none" => outcome[q] = "none"
        /\ stale' \in BOOLEAN
    <3>1. CASE send[r].via = inner
      <4>1. stale' = TRUE /\ outcome' = Reject(Requests)
        BY <1>10, <3>1 DEF StreamDies
      <4> QED BY <4>1, RejectKeepsOutcomes DEF IInv
    <3>2. CASE send[r].via # inner
      BY <1>10, <3>2 DEF StreamDies, IInv, TypeOK
    <3> QED BY <3>1, <3>2
  <2>2. /\ send' = [send EXCEPT ![r].pc = "done"] /\ send[r].pc = "stream"
        /\ faults' \in 0..MaxFaults
        /\ UNCHANGED <<server, runs, inner, stopped, recon, loop, closing, resets>>
    BY <1>10 DEF StreamDies, IInv, TypeOK
  <2> QED BY <2>1, <2>2 DEF IInv, TypeOK, RunsAreAccounted, Unanswered, FreshIsIdle, MayPost, Pcs, server
<1>11. ASSUME NEW r \in Requests, StreamEnds(r) PROVE IInv'
  BY <1>11 DEF IInv, TypeOK, RunsAreAccounted, Unanswered, FreshIsIdle, MayPost, Pcs,
               StreamEnds, server, transport
<1>12. CASE Relocate
  BY <1>12 DEF IInv, TypeOK, RunsAreAccounted, Unanswered, FreshIsIdle, Relocate
<1>13. CASE ReconnectFails
  <2> DEFINE waiting == {r \in Requests : send[r].pc = "await"}
  <2>1. /\ send' = [r \in Requests |-> IF r \in waiting THEN [send[r] EXCEPT !.pc = "done"] ELSE send[r]]
        /\ outcome' = Reject(waiting) /\ recon' = "no"
        /\ UNCHANGED <<server, runs, faults, inner, stale, stopped, loop, closing, resets>>
    BY <1>13 DEF ReconnectFails
  <2>2. /\ outcome' \in [Requests -> {"none", "pending", "resolved", "failed"}]
        /\ \A q \in Requests : outcome'[q] = "none" => outcome[q] = "none"
    BY <2>1, RejectKeepsOutcomes DEF IInv
  <2> QED BY <2>1, <2>2
     DEF IInv, TypeOK, RunsAreAccounted, Unanswered, FreshIsIdle, MayPost, Pcs, server
<1>14. CASE Open
  <2>1. /\ inner' = inner + 1 /\ sessions' = sessions \cup {inner + 1}
        /\ stale' = FALSE /\ recon' = "no" /\ loop' = TRUE
        /\ send' = [r \in Requests |->
                      IF send[r].pc = "await" THEN posting(send[r], inner + 1) ELSE send[r]]
        /\ UNCHANGED <<up, stops, runs, faults, stopped, closing, outcome, resets>>
    BY <1>14 DEF Open
  <2>2. /\ inner' \in Nat \ {0} /\ sessions' \subseteq 1..inner'
        /\ \A t \in 1..inner : t \in 1..inner'
    BY <2>1 DEF IInv, TypeOK
  <2>3. ASSUME NEW r \in Requests
        PROVE  /\ send'[r] \in [pc : Pcs, via : 1..inner', tries : 0..SendRetries, resent : BOOLEAN]
               /\ send'[r].pc \in MayPost => send[r].pc \in MayPost
               /\ send[r].pc = "idle" => send'[r].pc = "idle"
    <3>0. send[r] \in [pc : Pcs, via : 1..inner, tries : 0..SendRetries, resent : BOOLEAN]
      BY DEF IInv, TypeOK
    <3>1. CASE send[r].pc = "await"
      <4>1. send'[r] = posting(send[r], inner + 1)
        BY <2>1, <3>1
      <4>2. send'[r] = [pc |-> "post", via |-> inner + 1, tries |-> 0, resent |-> send[r].resent]
        BY <4>1 DEF posting
      <4>3. inner + 1 \in 1..inner' /\ 0 \in 0..SendRetries /\ send[r].resent \in BOOLEAN
        BY <2>1, <3>0 DEF IInv, TypeOK
      <4> QED BY <3>1, <4>2, <4>3 DEF Pcs, MayPost
    <3>2. CASE send[r].pc # "await"
      BY <2>1, <2>2, <3>0, <3>2
    <3> QED BY <3>1, <3>2
  <2>4. send' \in [Requests -> [pc : Pcs, via : 1..inner', tries : 0..SendRetries, resent : BOOLEAN]]
    BY <2>1, <2>3
  <2>5. TypeOK'
    BY <2>1, <2>2, <2>4 DEF IInv, TypeOK
  <2> QED BY <2>1, <2>3, <2>5 DEF IInv, RunsAreAccounted, Unanswered, FreshIsIdle
<1>15. CASE GiveUp
  BY <1>15, RejectKeepsOutcomes
     DEF IInv, TypeOK, RunsAreAccounted, Unanswered, FreshIsIdle, GiveUp, server
<1>16. CASE Stop
  BY <1>16 DEF IInv, TypeOK, RunsAreAccounted, Unanswered, FreshIsIdle, Stop, server
<1>17. CASE Close
  BY <1>17, RejectKeepsOutcomes
     DEF IInv, TypeOK, RunsAreAccounted, Unanswered, FreshIsIdle, Close, server
<1>18. CASE ServerStops
  <2>1. up' = FALSE /\ sessions' = {} /\ stops' \in 0..MaxStops
    BY <1>18 DEF IInv, TypeOK, ServerStops
  <2> QED BY <1>18, <2>1
     DEF IInv, TypeOK, RunsAreAccounted, Unanswered, FreshIsIdle, ServerStops, transport
<1>19. CASE ServerStarts
  BY <1>19 DEF IInv, TypeOK, RunsAreAccounted, Unanswered, FreshIsIdle, ServerStarts, transport
<1>20. CASE UNCHANGED vars
  BY <1>20 DEF IInv, TypeOK, RunsAreAccounted, Unanswered, FreshIsIdle, vars, server, transport
<1> QED
  BY <1>1, <1>2, <1>3, <1>4, <1>5, <1>6, <1>7, <1>8, <1>9, <1>10, <1>11, <1>12, <1>13, <1>14,
     <1>15, <1>16, <1>17, <1>18, <1>19, <1>20 DEF Next, Progress, Reconnect

LEMMA Invariance == Spec => []IInv
BY InitHolds, StepKeeps, PTL DEF Spec

(* The client's and the server's state keep their types, whatever the network
   and the server do (client.mjs, reconnecting-transport.mjs, transport.mjs). *)
THEOREM ClientTypeCorrect == Spec => []TypeOK
<1>1. IInv => TypeOK
  BY DEF IInv
<1> QED BY <1>1, Invariance, PTL

(* A tool runs a second time for one request only if the connection of an
   accepted POST was lost before its response began (send() of
   reconnecting-transport.mjs and of transport.mjs). *)
THEOREM RerunsArePaidFor == Spec => []RunsAreAccounted
<1>1. IInv => RunsAreAccounted
  BY DEF IInv
<1> QED BY <1>1, Invariance, PTL
==============================================================================
