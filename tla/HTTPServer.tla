------------------------------ MODULE HTTPServer ------------------------------
(***************************************************************************)
(* The web process's HTTP server (internal/minihttp/server.go) and the     *)
(* function that runs and stops it (internal/webadmin/server.go).          *)
(*                                                                         *)
(* The accept loop, one goroutine per connection and the main goroutine,   *)
(* which on SIGTERM shuts the server down, waits and in the end loses      *)
(* patience, share the server's state.  s.mu protects the                  *)
(* table of connections and the closed flag; the flag that says that a     *)
(* connection's handler has started is an atomic outside it.               *)
(***************************************************************************)
EXTENDS Naturals, FiniteSets

CONSTANTS
  Conns,           \* the connections clients make, each one at most once
  Nobody,          \* no connection
  MaxConnections   \* the capacity of slots

ASSUME ConnsAssumption == Nobody \notin Conns
ASSUME CapacityAssumption == MaxConnections \in Nat \ {0}

VARIABLES
  client,     \* conn -> "idle", "connected", "sent" (its request) or "gone"
  answer,     \* conn -> what the client received
  open,       \* the connections whose server end is open
  loop,       \* the accept loop's next step
  next,       \* the connection it has in hand
  slots,      \* the tokens in the slots channel
  stage,      \* conn -> the next step of its goroutine
  conns,      \* the keys of s.conns
  started,    \* the connections whose started flag is set
  wg,         \* the counter of s.wg
  known,      \* s.listener is set
  listening,  \* the listener is open
  closed,     \* s.closed
  cancelled,  \* the process got its signal
  main,       \* the main goroutine's next step
  scan,       \* connections its loop over s.conns has still to visit
  victim,     \* the connection it is about to close
  running     \* observed: connections whose handler had started at Shutdown

clients == <<client, answer>>
table == <<conns, wg>>
flags == <<known, listening, closed, cancelled>>
stopper == <<main, scan, victim, running>>
vars == <<clients, open, loop, next, slots, stage, table, started, flags, stopper>>

Queued == {c \in Conns : stage[c] = "queued"}

\* Shutdown and Close hold s.mu while they walk through s.conns.
Unlocked == main \notin {"scan", "closeAll"}

-----------------------------------------------------------------------------
(* Clients. *)

Connect(c) ==
  /\ client[c] = "idle"
  /\ listening
  /\ client' = [client EXCEPT ![c] = "connected"]
  /\ stage' = [stage EXCEPT ![c] = "queued"]
  /\ open' = open \cup {c}
  /\ UNCHANGED <<answer, loop, next, slots, table, started, flags, stopper>>

Send(c) ==
  /\ client[c] = "connected"
  /\ client' = [client EXCEPT ![c] = "sent"]
  /\ UNCHANGED <<answer, open, loop, next, slots, stage, table, started, flags, stopper>>

Leave(c) ==
  /\ client[c] \in {"connected", "sent"}
  /\ client' = [client EXCEPT ![c] = "gone"]
  /\ UNCHANGED <<answer, open, loop, next, slots, stage, table, started, flags, stopper>>

\* A client that is still there receives r on an open connection (the text of
\* a refusal or the buffered response of a handler), or nothing when the write
\* fails or times out.
Answer(c, r) ==
  \/ UNCHANGED answer
  \/ /\ c \in open
     /\ client[c] # "gone"
     /\ answer' = [answer EXCEPT ![c] = r]

-----------------------------------------------------------------------------
(* Serve: the accept loop. *)

\* A server that was closed before it served closes the listener itself.
Begin ==
  /\ loop = "begin"
  /\ Unlocked
  /\ \/ /\ ~closed
        /\ known' = TRUE
        /\ loop' = "accept"
        /\ UNCHANGED <<listening, stage, open>>
     \/ /\ closed
        /\ listening' = FALSE
        /\ stage' = [c \in Conns |-> IF c \in Queued THEN "end" ELSE stage[c]]
        /\ open' = open \ Queued
        /\ loop' = "returned"
        /\ UNCHANGED known
  /\ UNCHANGED <<clients, next, slots, table, started, closed, cancelled, stopper>>

Accept ==
  /\ loop = "accept"
  /\ listening
  /\ \E c \in Queued :
       /\ next' = c
       /\ stage' = [stage EXCEPT ![c] = "taken"]
  /\ loop' = "slot"
  /\ UNCHANGED <<clients, open, slots, table, started, flags, stopper>>

\* Accept on a closed listener: ErrServerClosed.
AcceptClosed ==
  /\ loop = "accept"
  /\ Unlocked
  /\ ~listening
  /\ loop' = "returned"
  /\ UNCHANGED <<clients, open, next, slots, stage, table, started, flags, stopper>>

\* Accept fails for another reason.
AcceptFails ==
  /\ loop = "accept"
  /\ Unlocked
  /\ listening
  /\ loop' = "failed"
  /\ UNCHANGED <<clients, open, next, slots, stage, table, started, flags, stopper>>

\* The channel of slots is full: rejectBusy answers on the accept loop.
TakeSlot ==
  /\ loop = "slot"
  /\ \/ /\ slots < MaxConnections
        /\ slots' = slots + 1
        /\ loop' = "register"
        /\ UNCHANGED <<answer, open, next, stage>>
     \/ /\ slots = MaxConnections
        /\ Answer(next, "busy")
        /\ open' = open \ {next}
        /\ stage' = [stage EXCEPT ![next] = "end"]
        /\ next' = Nobody
        /\ loop' = "accept"
        /\ UNCHANGED slots
  /\ UNCHANGED <<client, table, started, flags, stopper>>

\* Mutant: the closed flag is not looked at again before a connection is
\* registered.
RegisterAnyway ==
  /\ loop = "register"
  /\ Unlocked
  /\ conns' = conns \cup {next}
  /\ wg' = wg + 1
  /\ stage' = [stage EXCEPT ![next] = "read"]
  /\ loop' = "accept"
  /\ next' = Nobody
  /\ UNCHANGED <<clients, open, slots, started, flags, stopper>>

\* s.closed is looked at under s.mu before wg.Add.
Register ==
  /\ loop = "register"
  /\ Unlocked
  /\ \/ /\ ~closed
        /\ conns' = conns \cup {next}
        /\ wg' = wg + 1
        /\ stage' = [stage EXCEPT ![next] = "read"]
        /\ loop' = "accept"
        /\ UNCHANGED <<slots, open>>
     \/ /\ closed
        /\ slots' = slots - 1
        /\ open' = open \ {next}
        /\ stage' = [stage EXCEPT ![next] = "end"]
        /\ loop' = "returned"
        /\ UNCHANGED table
  /\ next' = Nobody
  /\ UNCHANGED <<clients, started, flags, stopper>>

Loop == Begin \/ Accept \/ AcceptClosed \/ AcceptFails \/ TakeSlot \/ Register

-----------------------------------------------------------------------------
(* The goroutine of a connection. *)

Goto(c, step) == stage' = [stage EXCEPT ![c] = step]

ReadRequest(c) ==
  /\ stage[c] = "read"
  /\ c \in open
  /\ client[c] = "sent"
  /\ Goto(c, "parsed")
  /\ UNCHANGED <<clients, open, loop, next, slots, table, started, flags, stopper>>

\* Mutant: a failed read leaves its slot taken.
ReadFailsKeepsSlot(c) ==
  /\ stage[c] = "read"
  /\ open' = open \ {c}
  /\ Goto(c, "forget")
  /\ UNCHANGED <<clients, loop, next, slots, table, started, flags, stopper>>

\* Mutant: reading the header has no deadline.
ReadFailsWithoutDeadline(c) ==
  /\ stage[c] = "read"
  /\ c \notin open \/ client[c] = "gone"
  /\ open' = open \ {c}
  /\ Goto(c, "release")
  /\ UNCHANGED <<clients, loop, next, slots, table, started, flags, stopper>>

\* The connection is closed, the client is gone, the header's deadline has
\* passed, or the request is malformed: only the last is answered.
ReadFails(c) ==
  /\ stage[c] = "read"
  /\ IF client[c] = "sent" THEN Answer(c, "error") ELSE UNCHANGED answer
  /\ open' = open \ {c}
  /\ Goto(c, "release")
  /\ UNCHANGED <<client, loop, next, slots, table, started, flags, stopper>>

StartHandler(c) ==
  /\ stage[c] = "parsed"
  /\ started' = started \cup {c}
  /\ Goto(c, "handler")
  /\ UNCHANGED <<clients, open, loop, next, slots, table, flags, stopper>>

\* The handler returns or panics; either way there is a response to write.
HandlerReturns(c) ==
  /\ stage[c] = "handler"
  /\ Goto(c, "finish")
  /\ UNCHANGED <<clients, open, loop, next, slots, table, started, flags, stopper>>

\* writer.finish, then the deferred Close.
Finish(c) ==
  /\ stage[c] = "finish"
  /\ Answer(c, "response")
  /\ open' = open \ {c}
  /\ Goto(c, "release")
  /\ UNCHANGED <<client, loop, next, slots, table, started, flags, stopper>>

ReleaseSlot(c) ==
  /\ stage[c] = "release"
  /\ slots' = slots - 1
  /\ Goto(c, "forget")
  /\ UNCHANGED <<clients, open, loop, next, table, started, flags, stopper>>

Forget(c) ==
  /\ stage[c] = "forget"
  /\ Unlocked
  /\ conns' = conns \ {c}
  /\ Goto(c, "done")
  /\ UNCHANGED <<clients, open, loop, next, slots, wg, started, flags, stopper>>

Done(c) ==
  /\ stage[c] = "done"
  /\ wg' = wg - 1
  /\ Goto(c, "end")
  /\ UNCHANGED <<clients, open, loop, next, slots, conns, started, flags, stopper>>

Goroutine(c) ==
  \/ ReadRequest(c) \/ ReadFails(c) \/ StartHandler(c) \/ HandlerReturns(c)
  \/ Finish(c) \/ ReleaseSlot(c) \/ Forget(c) \/ Done(c)

-----------------------------------------------------------------------------
(* webadmin.Serve, Shutdown and Close: the main goroutine. *)

Cancel ==
  /\ ~cancelled
  /\ cancelled' = TRUE
  /\ UNCHANGED <<clients, open, loop, next, slots, stage, table, started, known, listening,
                 closed, stopper>>

\* Serve returned by itself: so does webadmin.Serve.
ServeReturned ==
  /\ main = "serving"
  /\ loop \in {"returned", "failed"}
  /\ main' = "failed"
  /\ UNCHANGED <<clients, open, loop, next, slots, stage, table, started, flags, scan, victim,
                 running>>

\* Mutant: Shutdown leaves the listener open.
ShutdownLeavesListener ==
  /\ main = "serving"
  /\ cancelled
  /\ closed' = TRUE
  /\ main' = "scan"
  /\ scan' = conns
  /\ running' = {c \in started : stage[c] \in {"handler", "finish"}}
  /\ UNCHANGED <<clients, open, loop, next, slots, stage, table, started, known, listening,
                 cancelled, victim>>

\* Shutdown takes s.mu, closes the listener and starts its loop over s.conns.
\* Connections nobody accepted are reset with the listener.
Shutdown ==
  /\ main = "serving"
  /\ cancelled
  /\ closed' = TRUE
  /\ listening' = (listening /\ ~known)
  /\ stage' = [c \in Conns |-> IF known /\ c \in Queued THEN "end" ELSE stage[c]]
  /\ open' = IF known THEN open \ Queued ELSE open
  /\ main' = "scan"
  /\ scan' = conns
  /\ running' = {c \in started : stage[c] \in {"handler", "finish"}}
  /\ UNCHANGED <<clients, loop, next, slots, table, started, known, cancelled, victim>>

\* Mutant: Shutdown closes every connection.
ScanAll(c) ==
  /\ main = "scan"
  /\ victim = Nobody
  /\ c \in scan
  /\ scan' = scan \ {c}
  /\ victim' = c
  /\ UNCHANGED <<clients, open, loop, next, slots, stage, table, started, flags, main, running>>

\* started.Load() of one connection.
Scan(c) ==
  /\ main = "scan"
  /\ victim = Nobody
  /\ c \in scan
  /\ scan' = scan \ {c}
  /\ victim' = IF c \in started THEN Nobody ELSE c
  /\ UNCHANGED <<clients, open, loop, next, slots, stage, table, started, flags, main, running>>

\* conn.Close() of the connection that had not started.
CloseVictim ==
  /\ main = "scan"
  /\ victim # Nobody
  /\ open' = open \ {victim}
  /\ victim' = Nobody
  /\ UNCHANGED <<clients, loop, next, slots, stage, table, started, flags, main, scan, running>>

\* The loop ends and s.mu is released.
EndScan ==
  /\ main = "scan"
  /\ scan = {}
  /\ victim = Nobody
  /\ main' = "wait"
  /\ UNCHANGED <<clients, open, loop, next, slots, stage, table, started, flags, scan, victim,
                 running>>

\* Mutant: Shutdown does not wait for the connections.
ShutdownAtOnce ==
  /\ main = "wait"
  /\ main' = "join"
  /\ UNCHANGED <<clients, open, loop, next, slots, stage, table, started, flags, scan, victim,
                 running>>

\* s.wg.Wait() returned in time.
ShutdownDone ==
  /\ main = "wait"
  /\ wg = 0
  /\ main' = "join"
  /\ UNCHANGED <<clients, open, loop, next, slots, stage, table, started, flags, scan, victim,
                 running>>

\* webadmin.Serve waits for the accept loop to return too.
Join ==
  /\ main = "join"
  /\ loop \in {"returned", "failed"}
  /\ main' = IF loop = "returned" THEN "stopped" ELSE "failed"
  /\ UNCHANGED <<clients, open, loop, next, slots, stage, table, started, flags, scan, victim,
                 running>>

\* The five seconds are over: Close closes every connection.
ShutdownExpired ==
  /\ main = "wait"
  /\ main' = "closeAll"
  /\ UNCHANGED <<clients, open, loop, next, slots, stage, table, started, flags, scan, victim,
                 running>>

Close ==
  /\ main = "closeAll"
  /\ open' = open \ conns
  /\ main' = "drain"
  /\ UNCHANGED <<clients, loop, next, slots, stage, table, started, flags, scan, victim, running>>

\* Close waits for every goroutine, without a limit.
Drained ==
  /\ main = "drain"
  /\ wg = 0
  /\ main' = "expired"
  /\ UNCHANGED <<clients, open, loop, next, slots, stage, table, started, flags, scan, victim,
                 running>>

Main ==
  \/ ServeReturned \/ Shutdown \/ (\E c \in Conns : Scan(c)) \/ CloseVictim \/ EndScan
  \/ ShutdownDone \/ Join \/ ShutdownExpired \/ Close \/ Drained

Exited == main \in {"stopped", "expired", "failed"}

-----------------------------------------------------------------------------
Init ==
  /\ client = [c \in Conns |-> "idle"]
  /\ answer = [c \in Conns |-> "none"]
  /\ open = {}
  /\ loop = "begin"
  /\ next = Nobody
  /\ slots = 0
  /\ stage = [c \in Conns |-> "none"]
  /\ conns = {}
  /\ started = {}
  /\ wg = 0
  /\ known = FALSE
  /\ listening = TRUE
  /\ closed = FALSE
  /\ cancelled = FALSE
  /\ main = "serving"
  /\ scan = {}
  /\ victim = Nobody
  /\ running = {}

\* The process ends with its main goroutine.
Next ==
  /\ ~Exited
  /\ \/ \E c \in Conns : Connect(c) \/ Send(c) \/ Leave(c) \/ Goroutine(c)
     \/ Loop
     \/ Cancel
     \/ Main

Spec == Init /\ [][Next]_vars

\* Every goroutine is scheduled: reads and writes have deadlines, and every
\* handler returns, since its calls to the daemon and to the node have
\* deadlines too.  Nothing is assumed of clients and signals.
FairSpec ==
  /\ Spec
  /\ WF_vars(~Exited /\ (Begin \/ Accept \/ AcceptClosed \/ TakeSlot \/ Register))
  /\ \A c \in Conns : WF_vars(~Exited /\ Goroutine(c))
  /\ WF_vars(Main)

-----------------------------------------------------------------------------
(* Properties. *)

\* The stages of a goroutine that holds a slot, one that has a key in s.conns
\* and one that s.wg waits for.
Serving == {"read", "parsed", "handler", "finish", "release"}
Tabled == Serving \cup {"forget"}
Alive == Tabled \cup {"done"}

\* The type of every variable.
TypeOK ==
  /\ client \in [Conns -> {"idle", "connected", "sent", "gone"}]
  /\ answer \in [Conns -> {"none", "busy", "error", "response"}]
  /\ open \subseteq Conns
  /\ loop \in {"begin", "accept", "slot", "register", "returned", "failed"}
  /\ next \in Conns \cup {Nobody}
  /\ slots \in 0 .. MaxConnections
  /\ stage \in [Conns -> Alive \cup {"none", "queued", "taken", "end"}]
  /\ conns \subseteq Conns
  /\ started \subseteq Conns
  /\ wg \in Nat
  /\ known \in BOOLEAN
  /\ listening \in BOOLEAN
  /\ closed \in BOOLEAN
  /\ cancelled \in BOOLEAN
  /\ main \in {"serving", "scan", "wait", "join", "closeAll", "drain", "stopped", "expired",
              "failed"}
  /\ scan \subseteq Conns
  /\ victim \in Conns \cup {Nobody}
  /\ running \subseteq Conns

\* Slots, s.conns and s.wg count exactly the goroutines there are, on every
\* path through serveConn and through the accept loop: a slot that is lost is
\* lost for the life of the process, and after maxConnections losses every
\* client is told that the server is busy.
Accounting ==
  /\ slots = Cardinality({c \in Conns : stage[c] \in Serving}) + (IF loop = "register" THEN 1 ELSE 0)
  /\ conns = {c \in Conns : stage[c] \in Tabled}
  /\ wg = Cardinality({c \in Conns : stage[c] \in Alive})

\* "Header and body sizes, connection count and timeouts are bounded": besides
\* maxConnections connections being served, only the one that the accept loop
\* has in hand is open.
ConnectionsBounded == Cardinality(open \ (Queued \cup {next})) <= MaxConnections

\* The types, exact accounting and the bound (Serve, serveConn).
SlotsInv == TypeOK /\ Accounting /\ ConnectionsBounded

\* sync.WaitGroup must not be increased from zero while someone waits: no
\* goroutine is added once Shutdown waits, however late the accept loop got
\* its last connection.
NoAddDuringWait == [][(main \in {"wait", "drain"}) => wg' <= wg]_vars

\* When webadmin.Serve returns after a signal, no handler runs any more; and
\* if it reports no error, every connection is closed.
StoppedIsQuiet ==
  /\ main \in {"stopped", "expired"} => \A c \in Conns : stage[c] \notin Alive
  /\ main = "stopped" => open = {}

\* "waits for running handlers until ctx expires": a connection whose handler
\* runs when Shutdown is called is closed only with its response, or by Close.
RunningNotCutShort ==
  [][\A c \in running : c \in open /\ c \notin open' =>
       stage[c] = "finish" \/ main = "closeAll"]_vars

\* "abandons connections that have not yet delivered a request": no other.
AbandonsOnlyUndelivered ==
  [][\A c \in open : main = "scan" /\ c \notin open' => stage[c] \notin {"parsed", "handler"}]_vars

\* A connection is served, refused or closed, whatever other clients do.
ConnectionsEnd == \A c \in Conns : stage[c] = "queued" ~> stage[c] = "end" \/ Exited

\* A signalled process comes down.
StopCompletes == cancelled ~> Exited
===============================================================================
