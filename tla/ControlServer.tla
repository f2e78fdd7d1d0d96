---------------------------- MODULE ControlServer ----------------------------
(***************************************************************************)
(* The control socket between the web process and the daemon               *)
(* (internal/localcontrol): clients that connect, send one request, wait   *)
(* for one response and give up after a deadline, and a server that takes  *)
(* one connection after the other, executes its request, writes an audit   *)
(* record and answers.  A client that gave up cannot take its request      *)
(* back: it stays in the connection, and the connection in the listen      *)
(* queue.                                                                  *)
(***************************************************************************)
EXTENDS Naturals, Sequences, FiniteSets, Functions

CONSTANTS
  Calls,        \* the connections made to the socket, each at most once
  Requests,     \* the kinds of request that are sent
  Nobody,       \* no connection
  Backlog,      \* connections the kernel queues for the listener
  MaxStarts     \* bound on the starts of the daemon

ASSUME CallsAssumption == Nobody \notin Calls

\* What a connection asks for.  Client.Call sends only requests that
\* DecodeRequest accepts; other users of the socket may send anything:
\*   "read"      list, read or settings read
\*   "alert"     create, write, convert or delete
\*   "settings"  settings replace
\*   "rejected"  names a mutation but fails validateRequest
\*   "garbage"   is not a request
ASSUME RequestsAssumption ==
  Requests \subseteq {"read", "alert", "settings", "rejected", "garbage"}

ASSUME LimitsAssumption == Backlog \in Nat \ {0} /\ MaxStarts \in Nat

VARIABLES
  state,      \* call -> "idle", "waiting", "answered" or "failed": the client's view
  request,    \* call -> its request, once it is connected
  wire,       \* call -> "none", "open", "sent" or "closed": what the server can read
  answer,     \* call -> the response code that came for it
  backlog,    \* the connections waiting for Accept
  listening,  \* the listener is open
  stopping,   \* the daemon's context is cancelled
  storeOpen,  \* alertstore.Close has not run
  pc,         \* the server's next step
  cur,        \* the connection it handles
  response,   \* the response it will send
  dialed,     \* observed: the calls in the order they connected
  executed,   \* observed: the calls in the order they were dispatched
  applied,    \* observed: the mutations that took effect
  audit,      \* the audit records written
  starts      \* daemons started so far

clients == <<state, request, wire, answer>>
queue == <<backlog, listening, dialed>>
effects == <<executed, applied>>
vars == <<clients, queue, stopping, storeOpen, pc, cur, response, effects, audit, starts>>

\* DecodeRequest accepts the line.
Valid(r) == r \in {"read", "alert", "settings"}

IsMutation(r) == r \in {"alert", "settings", "rejected"}
Queued == Range(backlog)

-----------------------------------------------------------------------------
(* Clients. *)

\* connect(2) succeeds when the listener's queue has room.
Dial(c, r) ==
  /\ state[c] = "idle"
  /\ \/ /\ listening /\ Len(backlog) < Backlog
        /\ state' = [state EXCEPT ![c] = "waiting"]
        /\ request' = [request EXCEPT ![c] = r]
        /\ wire' = [wire EXCEPT ![c] = "open"]
        /\ backlog' = Append(backlog, c)
        /\ dialed' = Append(dialed, c)
     \/ /\ ~(listening /\ Len(backlog) < Backlog)
        /\ state' = [state EXCEPT ![c] = "failed"]
        /\ UNCHANGED <<request, wire, backlog, dialed>>
  /\ UNCHANGED <<answer, listening, stopping, storeOpen, pc, cur, response, effects, audit, starts>>

\* The whole line is in the socket buffer, whether or not it was accepted yet.
Send(c) ==
  /\ state[c] = "waiting"
  /\ wire[c] = "open"
  /\ wire' = [wire EXCEPT ![c] = "sent"]
  /\ UNCHANGED <<state, request, answer, queue, stopping, storeOpen, pc, cur, response, effects,
                 audit, starts>>

\* The deadline passes or the caller's context ends: the client closes its
\* end, also when a response has come in the meantime.  What it has sent stays
\* readable.
GiveUp(c) ==
  /\ state[c] = "waiting"
  /\ state' = [state EXCEPT ![c] = "failed"]
  /\ answer' = [answer EXCEPT ![c] = "none"]
  /\ wire' = [wire EXCEPT ![c] = IF @ = "open" THEN "closed" ELSE @]
  /\ UNCHANGED <<request, queue, stopping, storeOpen, pc, cur, response, effects, audit, starts>>

\* readResponse and decodeResponse find a response; a connection closed
\* without one is ErrInvalidResponse.
Delivered(c) == answer[c] # "none"

\* The server has closed the connection: decodeTypedResult makes a result or a
\* RemoteError of its response.  A list may exceed MaxResponseBytes.
Receive(c) ==
  /\ state[c] = "waiting"
  /\ wire[c] = "none"
  /\ \/ /\ Delivered(c)
        /\ state' = [state EXCEPT ![c] = "answered"]
        /\ UNCHANGED answer
     \/ /\ ~Delivered(c) \/ request[c] = "read"
        /\ state' = [state EXCEPT ![c] = "failed"]
        /\ answer' = [answer EXCEPT ![c] = "none"]
  /\ UNCHANGED <<request, wire, queue, stopping, storeOpen, pc, cur, response, effects, audit,
                 starts>>

-----------------------------------------------------------------------------
(* The server: one connection at a time. *)

Serving == UNCHANGED <<listening, dialed, stopping, storeOpen, starts>>

\* Mutant: the newest connection is taken first.
AcceptNewest ==
  /\ pc = "accept"
  /\ listening
  /\ backlog # <<>>
  /\ cur' = backlog[Len(backlog)]
  /\ backlog' = SubSeq(backlog, 1, Len(backlog) - 1)
  /\ pc' = "read"
  /\ UNCHANGED <<clients, response, effects, audit>>
  /\ Serving

Accept ==
  /\ pc = "accept"
  /\ listening
  /\ backlog # <<>>
  /\ cur' = Head(backlog)
  /\ backlog' = Tail(backlog)
  /\ pc' = "read"
  /\ UNCHANGED <<clients, response, effects, audit>>
  /\ Serving

\* readRequest and DecodeRequest.  A connection that is closed, or does not
\* deliver its line before the read deadline, is an invalid request.
ReadRequest ==
  /\ pc = "read"
  /\ wire[cur] # "open"
  /\ LET r == IF wire[cur] = "sent" THEN request[cur] ELSE "garbage" IN
       /\ response' = IF Valid(r) THEN "none" ELSE "invalid"
       /\ pc' = IF r = "garbage" THEN "respond" ELSE IF r = "rejected" THEN "audit" ELSE "dispatch"
  /\ UNCHANGED <<clients, backlog, cur, effects, audit>>
  /\ Serving

\* Mutant: the connection has no read deadline.
NoReadTimeout ==
  /\ pc = "read"
  /\ wire[cur] = "open"
  /\ state[cur] # "waiting"
  /\ response' = "invalid"
  /\ pc' = "respond"
  /\ UNCHANGED <<clients, backlog, cur, effects, audit>>
  /\ Serving

ReadTimeout ==
  /\ pc = "read"
  /\ wire[cur] = "open"
  /\ response' = "invalid"
  /\ pc' = "respond"
  /\ UNCHANGED <<clients, backlog, cur, effects, audit>>
  /\ Serving

\* The store or the settings manager has executed the request.
Executed ==
  /\ pc = "dispatch"
  /\ executed' = Append(executed, cur)
  /\ pc' = "audit"
  /\ UNCHANGED <<clients, backlog, cur, audit>>
  /\ Serving

\* The store refuses with nothing done; but an internal error may come before
\* or after the change, when only its last steps failed.
DispatchAlert ==
  /\ Executed
  /\ request[cur] # "settings"
  /\ \/ /\ response' \in {"ok", "failed"}
        /\ applied' = applied \cup {c \in {cur} : IsMutation(request[c])}
     \/ /\ response' \in {"refused", "failed"}
        /\ UNCHANGED applied

\* Mutant: a settings file that was replaced, but not for sure durably, is
\* reported like one that was not replaced.
DispatchHidesWarning ==
  /\ Executed
  /\ request[cur] = "settings"
  /\ \/ /\ response' \in {"ok", "refused"}
        /\ applied' = applied \cup {cur}
     \/ /\ response' \in {"refused", "failed"}
        /\ UNCHANGED applied

\* A settings file that was replaced while its directory could not be synced
\* has a code of its own.
DispatchSettings ==
  /\ Executed
  /\ request[cur] = "settings"
  /\ \/ /\ response' \in {"ok", "uncertain"}
        /\ applied' = applied \cup {cur}
     \/ /\ response' \in {"refused", "failed"}
        /\ UNCHANGED applied

\* Mutant: every error is a failure.
OutcomeOfError == IF response = "ok" THEN "success" ELSE "failure"

Outcome ==
  IF response = "ok" THEN "success"
  ELSE IF response = "uncertain" THEN "applied_with_warning"
  ELSE "failure"

\* writeMutationAudit and writeRejectedMutationAudit.
WriteAudit ==
  /\ pc = "audit"
  /\ audit' = IF IsMutation(request[cur])
              THEN Append(audit, [call |-> cur, outcome |-> Outcome])
              ELSE audit
  /\ pc' = "respond"
  /\ UNCHANGED <<clients, backlog, cur, response, effects>>
  /\ Serving

\* The response is written, unless the write fails, and the connection closed.
Respond ==
  /\ pc = "respond"
  /\ \/ /\ state[cur] = "waiting"
        /\ answer' = [answer EXCEPT ![cur] = response]
     \/ UNCHANGED answer
  /\ wire' = [wire EXCEPT ![cur] = "none"]
  /\ pc' = "accept"
  /\ cur' = Nobody
  /\ response' = "none"
  /\ UNCHANGED <<state, request, backlog, effects, audit>>
  /\ Serving

-----------------------------------------------------------------------------
(* Starting and stopping. *)

\* Connections that were never accepted are reset with their listener.
Reset(S) ==
  /\ state' = [c \in Calls |-> IF c \in S /\ state[c] = "waiting" THEN "failed" ELSE state[c]]
  /\ wire' = [c \in Calls |-> IF c \in S THEN "none" ELSE wire[c]]
  /\ UNCHANGED <<request, answer, dialed>>

CloseListener ==
  /\ Reset(Queued)
  /\ listening' = FALSE
  /\ backlog' = <<>>

\* SIGTERM cancels the context.
Cancel ==
  /\ pc # "down"
  /\ ~stopping
  /\ stopping' = TRUE
  /\ UNCHANGED <<clients, queue, storeOpen, pc, cur, response, effects, audit, starts>>

\* Mutant: the connections are dropped but the listener stays open.
WatchLeavesListener ==
  /\ stopping
  /\ listening
  /\ Reset(Queued)
  /\ backlog' = <<>>
  /\ UNCHANGED <<listening, stopping, storeOpen, pc, cur, response, effects, audit, starts>>

\* The goroutine that watches the context closes the listener at any time,
\* also while a request is being handled.
Watch ==
  /\ stopping
  /\ listening
  /\ CloseListener
  /\ UNCHANGED <<stopping, storeOpen, pc, cur, response, effects, audit, starts>>

\* Accept fails: the server returns, and its deferred Close runs.
AcceptFails ==
  /\ pc = "accept"
  /\ CloseListener
  /\ pc' = "returned"
  /\ UNCHANGED <<stopping, storeOpen, cur, response, effects, audit, starts>>

\* Mutant: main closes the store without waiting for the server.
CloseStoreAtOnce ==
  /\ stopping
  /\ storeOpen
  /\ storeOpen' = FALSE
  /\ UNCHANGED <<clients, queue, stopping, pc, cur, response, effects, audit, starts>>

\* main closes the store after the server has returned, and exits.
CloseStore ==
  /\ pc = "returned"
  /\ storeOpen' = FALSE
  /\ pc' = "down"
  /\ UNCHANGED <<clients, queue, stopping, cur, response, effects, audit, starts>>

\* The daemon is killed: every connection it had is reset.
Kill ==
  /\ pc # "down"
  /\ Reset(Queued \cup {cur})
  /\ listening' = FALSE
  /\ backlog' = <<>>
  /\ storeOpen' = FALSE
  /\ pc' = "down"
  /\ cur' = Nobody
  /\ response' = "none"
  /\ UNCHANGED <<stopping, effects, audit, starts>>

Start ==
  /\ pc = "down"
  /\ starts < MaxStarts
  /\ starts' = starts + 1
  /\ listening' = TRUE
  /\ stopping' = FALSE
  /\ storeOpen' = TRUE
  /\ pc' = "accept"
  /\ UNCHANGED <<clients, backlog, dialed, cur, response, effects, audit>>

-----------------------------------------------------------------------------
Init ==
  /\ state = [c \in Calls |-> "idle"]
  /\ request = [c \in Calls |-> "none"]
  /\ wire = [c \in Calls |-> "none"]
  /\ answer = [c \in Calls |-> "none"]
  /\ backlog = <<>>
  /\ listening = FALSE
  /\ stopping = FALSE
  /\ storeOpen = FALSE
  /\ pc = "down"
  /\ cur = Nobody
  /\ response = "none"
  /\ dialed = <<>>
  /\ executed = <<>>
  /\ applied = {}
  /\ audit = <<>>
  /\ starts = 0

Client == \E c \in Calls : (\E r \in Requests : Dial(c, r)) \/ Send(c) \/ GiveUp(c) \/ Receive(c)

Server ==
  \/ Accept \/ ReadRequest \/ ReadTimeout \/ DispatchAlert \/ DispatchSettings
  \/ WriteAudit \/ Respond

Next == Client \/ Server \/ Cancel \/ Watch \/ AcceptFails \/ CloseStore \/ Kill \/ Start

Spec == Init /\ [][Next]_vars

\* The server's goroutine and the watching goroutine are scheduled, deadlines
\* pass, Accept on a closed listener returns and main then closes the store.
\* Nothing is assumed of the clients.
FairSpec ==
  /\ Spec
  /\ WF_vars(Server)
  /\ WF_vars(Watch)
  /\ WF_vars(AcceptFails /\ ~listening)
  /\ WF_vars(CloseStore)

-----------------------------------------------------------------------------
(* Properties. *)

Responses == {"none", "ok", "refused", "failed", "uncertain", "invalid"}

\* The type of every variable.
TypeOK ==
  /\ state \in [Calls -> {"idle", "waiting", "answered", "failed"}]
  /\ request \in [Calls -> Requests \cup {"none"}]
  /\ wire \in [Calls -> {"none", "open", "sent", "closed"}]
  /\ answer \in [Calls -> Responses]
  /\ backlog \in Seq(Calls)
  /\ listening \in BOOLEAN
  /\ stopping \in BOOLEAN
  /\ storeOpen \in BOOLEAN
  /\ pc \in {"down", "accept", "read", "dispatch", "audit", "respond", "returned"}
  /\ cur \in Calls \cup {Nobody}
  /\ response \in Responses
  /\ dialed \in Seq(Calls)
  /\ executed \in Seq(Calls)
  /\ applied \in SUBSET Calls
  /\ audit \in Seq([call : Calls, outcome : {"success", "applied_with_warning", "failure"}])
  /\ starts \in 0 .. MaxStarts

\* Requests are executed at most once and in the order their connections were
\* made: an abandoned request whose client gave up may still be executed, but
\* never after a request of a later connection, so it cannot undo what a
\* retry or a later edit has done.
ExecutedInOrder ==
  \A i, j \in DOMAIN executed :
    i < j => \E k, l \in DOMAIN dialed :
               k < l /\ dialed[k] = executed[i] /\ dialed[l] = executed[j]

\* A response tells its own client what became of its own request: done,
\* refused with nothing done, or never executed.  Only "failed" (an internal
\* error) leaves open whether the change was made.
AnswersAreTrue ==
  \A c \in Calls :
    state[c] = "answered" =>
      /\ answer[c] = "ok" => c \in Range(executed) /\ (IsMutation(request[c]) => c \in applied)
      /\ answer[c] = "refused" => c \notin applied
      /\ answer[c] = "uncertain" => c \in applied /\ request[c] = "settings"
      /\ answer[c] = "invalid" => c \notin Range(executed)

Records(c) == {i \in DOMAIN audit : audit[i].call = c}
Unaudited == {c \in Range(executed) : IsMutation(request[c]) /\ Records(c) = {}}

\* "Successful and failed mutations must produce an audit record": exactly
\* one, written before the answer, also when the client is gone.  Only a kill
\* between execution and record loses one, and each daemon at most one.
AuditIsComplete ==
  /\ \A c \in Calls : Cardinality(Records(c)) <= 1
  /\ \A c \in Unaudited : answer[c] = "none"
  /\ Cardinality(Unaudited \ {cur}) <= IF pc = "down" THEN starts ELSE starts - 1

\* What the audit calls applied was applied; for settings, what it calls a
\* failure was not.
AuditIsTrue ==
  \A i \in DOMAIN audit :
    /\ audit[i].outcome # "failure" => audit[i].call \in applied
    /\ audit[i].outcome = "failure" /\ audit[i].call \in applied =>
         request[audit[i].call] = "alert"

\* The types, and an audit log that is complete and true (writeMutationAudit).
AuditInv == TypeOK /\ AuditIsComplete /\ AuditIsTrue

\* No request meets a store that main has already closed, however late the
\* context is cancelled.
StoreOutlivesRequests == pc \in {"read", "dispatch"} => storeOpen

\* A connection that sends nothing, or stalls, does not keep the ones behind
\* it from being served.
QueueDrains == \A c \in Calls : c \in Queued ~> c \notin Queued

\* A cancelled daemon comes down, finishing the request it works on.
StopCompletes == stopping ~> pc = "down"
=============================================================================
