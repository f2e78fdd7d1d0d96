---------------------------- MODULE ControlSocket ----------------------------
(***************************************************************************)
(* How a daemon takes the path of the control socket, and how it gives it  *)
(* back (internal/localcontrol/server.go).  A daemon that was killed       *)
(* leaves its socket behind; the next one probes it and removes it when    *)
(* nobody answers.  Every check and every removal goes by the path, which  *)
(* another daemon may have taken in the meantime.                          *)
(***************************************************************************)
EXTENDS Naturals

CONSTANTS
  Daemons,   \* processes that may run the daemon
  Nothing,   \* no entry under the path
  Foreign,   \* an entry that is no socket
  MaxBinds   \* bound on the sockets ever bound

ASSUME PathAssumption == Nothing # Foreign /\ {Nothing, Foreign} \cap Nat = {}
ASSUME BoundAssumption == MaxBinds \in Nat

VARIABLES
  path,       \* the entry under the path: Nothing, Foreign or a socket's inode
  listening,  \* the inodes of sockets someone listens on
  binds,      \* the inodes made so far are 1 .. binds
  pc,         \* daemon -> its next step
  seen,       \* daemon -> the inode its first Lstat found
  own,        \* daemon -> the inode of its listener, or Nothing
  overlapped  \* observes: two daemons were starting at the same time

vars == <<path, listening, binds, pc, seen, own, overlapped>>

IsSocket(e) == e \notin {Nothing, Foreign}

\* No process, or one that could not start and exited.
Gone == {"down", "failed"}

\* On the way to a socket that someone listens on.
Starting == {"inspect", "probe", "reinspect", "remove", "bind", "listen"}

\* Behind listen(2) and before the close of the listener.
Listening == {"secure", "serve", "unlink", "close"}

Goto(d, step) == pc' = [pc EXCEPT ![d] = step]

-----------------------------------------------------------------------------
\* procd runs one instance and starts it again when it has ended; a shell can
\* start another at any moment.
Start(d) ==
  /\ pc[d] \in Gone
  /\ Goto(d, "inspect")
  /\ overlapped' = \/ \E e \in Daemons : pc[e] \in Starting
                   \/ overlapped /\ \E e \in Daemons : pc[e] \notin Gone
  /\ UNCHANGED <<path, listening, binds, seen, own>>

\* The first Lstat of prepareSocketPath.
Inspect(d) ==
  /\ pc[d] = "inspect"
  /\ Goto(d, IF path = Nothing THEN "bind" ELSE IF path = Foreign THEN "failed" ELSE "probe")
  /\ seen' = [seen EXCEPT ![d] = path]
  /\ UNCHANGED <<path, listening, binds, own, overlapped>>

\* Mutant: a refused connection counts as a sign of life.
ProbeNeverRefused(d) ==
  /\ pc[d] = "probe"
  /\ Goto(d, IF path = Nothing THEN "bind" ELSE "failed")
  /\ UNCHANGED <<path, listening, binds, seen, own, overlapped>>

\* DialTimeout: someone answers, there is nothing any more, or the connection
\* is refused.  With a full backlog nobody answers in time, which is no refusal.
Probe(d) ==
  /\ pc[d] = "probe"
  /\ Goto(d, IF path \in listening THEN "failed" ELSE IF path = Nothing THEN "bind" ELSE "reinspect")
  /\ UNCHANGED <<path, listening, binds, seen, own, overlapped>>

\* The second Lstat must find the same file.
Reinspect(d) ==
  /\ pc[d] = "reinspect"
  /\ Goto(d, IF path = Nothing THEN "bind"
             ELSE IF IsSocket(path) /\ path = seen[d] THEN "remove"
             ELSE "failed")
  /\ UNCHANGED <<path, listening, binds, seen, own, overlapped>>

\* Remove takes away what is there by now.
Remove(d) ==
  /\ pc[d] = "remove"
  /\ Goto(d, IF path = Nothing THEN "failed" ELSE "bind")
  /\ path' = Nothing
  /\ UNCHANGED <<listening, binds, seen, own, overlapped>>

\* bind(2) makes the entry, listen(2) comes after it.
Bind(d) ==
  /\ pc[d] = "bind"
  /\ \/ /\ path = Nothing
        /\ binds < MaxBinds
        /\ binds' = binds + 1
        /\ path' = binds'
        /\ own' = [own EXCEPT ![d] = binds']
        /\ Goto(d, "listen")
     \/ /\ path # Nothing
        /\ Goto(d, "failed")
        /\ UNCHANGED <<path, binds, own>>
  /\ UNCHANGED <<listening, seen, overlapped>>

Listen(d) ==
  /\ pc[d] = "listen"
  /\ listening' = listening \cup {own[d]}
  /\ Goto(d, "secure")
  /\ UNCHANGED <<path, binds, seen, own, overlapped>>

\* Chmod and validateSocket look the path up again.  A failure closes the
\* listener, as every return does.
Secure(d) ==
  /\ pc[d] = "secure"
  /\ Goto(d, IF IsSocket(path) THEN "serve" ELSE "unlink")
  /\ UNCHANGED <<path, listening, binds, seen, own, overlapped>>

\* Mutant: the listener is closed before its path is removed.
StopClosesFirst(d) ==
  /\ pc[d] = "serve"
  /\ listening' = listening \ {own[d]}
  /\ Goto(d, "unlink")
  /\ UNCHANGED <<path, binds, seen, own, overlapped>>

\* The context is cancelled or Accept fails: the listener is closed.
Stop(d) ==
  /\ pc[d] = "serve"
  /\ Goto(d, "unlink")
  /\ UNCHANGED <<path, listening, binds, seen, own, overlapped>>

\* SetUnlinkOnClose: Close removes the path first, whoever has it.
Unlink(d) ==
  /\ pc[d] = "unlink"
  /\ path' = Nothing
  /\ Goto(d, "close")
  /\ UNCHANGED <<listening, binds, seen, own, overlapped>>

CloseListener(d) ==
  /\ pc[d] = "close"
  /\ listening' = listening \ {own[d]}
  /\ own' = [own EXCEPT ![d] = Nothing]
  /\ Goto(d, "down")
  /\ UNCHANGED <<path, binds, seen, overlapped>>

\* The daemon is killed and its socket stays under the path.
Kill(d) ==
  /\ pc[d] \notin Gone
  /\ listening' = listening \ {own[d]}
  /\ own' = [own EXCEPT ![d] = Nothing]
  /\ Goto(d, "down")
  /\ UNCHANGED <<path, binds, seen, overlapped>>

Init ==
  /\ path \in {Nothing, Foreign}
  /\ listening = {}
  /\ binds = 0
  /\ pc = [d \in Daemons |-> "down"]
  /\ seen = [d \in Daemons |-> Nothing]
  /\ own = [d \in Daemons |-> Nothing]
  /\ overlapped = FALSE

Startup(d) ==
  \/ Inspect(d) \/ Probe(d) \/ Reinspect(d) \/ Remove(d) \/ Bind(d) \/ Listen(d) \/ Secure(d)

Shutdown(d) == Unlink(d) \/ CloseListener(d)

Next == \E d \in Daemons : Start(d) \/ Startup(d) \/ Stop(d) \/ Shutdown(d) \/ Kill(d)

Spec == Init /\ [][Next]_vars

-----------------------------------------------------------------------------
(* Properties. *)

\* The type of every variable.
TypeOK ==
  /\ path \in {Nothing, Foreign} \cup 1 .. binds
  /\ listening \subseteq 1 .. binds
  /\ binds \in 0 .. MaxBinds
  /\ pc \in [Daemons -> Gone \cup Starting \cup Listening]
  /\ seen \in [Daemons -> {Nothing, Foreign} \cup 1 .. binds]
  /\ own \in [Daemons -> {Nothing} \cup 1 .. binds]
  /\ overlapped \in BOOLEAN

\* A daemon that listens is the one its clients reach until it removes the path
\* itself, whatever daemons that came later found there, unless daemons started at
\* once (TestServeDoesNotRemoveActiveSocket).
ServingIsReachable ==
  \A d \in Daemons :
    ~overlapped /\ pc[d] \in {"secure", "serve", "unlink"} => path = own[d] /\ path \in listening

\* Each listener belongs to one daemon, and only a daemon that has come as far as
\* listen(2) is listening (Listen, Close of the listener).
ListenersAreOwned ==
  /\ \A d \in Daemons :
       /\ own[d] # Nothing <=> pc[d] \in {"listen"} \cup Listening
       /\ pc[d] \in Listening => own[d] \in listening
       /\ own[d] \in listening => pc[d] \in Listening
  /\ \A i \in listening : \E d \in Daemons : own[d] = i
  /\ \A d, e \in Daemons : own[d] = own[e] /\ own[d] # Nothing => d = e

\* What the one starting daemon has learnt of the path is still so at its next
\* step: its checks and its removal concern the same entry (prepareSocketPath).
ChecksAreCurrent ==
  ~overlapped =>
    \A d \in Daemons :
      /\ \A e \in Daemons : pc[d] \in Starting /\ pc[e] \in Starting => d = e
      /\ pc[d] = "probe" => IsSocket(seen[d]) /\ path \in {Nothing, seen[d]}
      /\ pc[d] \in {"reinspect", "remove"} => IsSocket(path) /\ path = seen[d] /\ path \notin listening
      /\ pc[d] = "bind" => path = Nothing
      /\ pc[d] = "listen" => path = own[d]

\* The types, a reachable daemon, and what the two rest on (prepareSocketPath, Close
\* of the listener).
SocketInv == TypeOK /\ ServingIsReachable /\ ListenersAreOwned /\ ChecksAreCurrent

\* What a killed daemon left behind does not keep the next one from starting:
\* a daemon that is alone gives up only to an entry that is no socket.
StaleNeverBlocks ==
  [][\A d \in Daemons :
       ~overlapped /\ pc[d] # "failed" /\ pc'[d] = "failed" =>
         path = Foreign \/ \E e \in Daemons \ {d} : pc[e] \notin Gone]_vars
=============================================================================
