------------------------ MODULE ControlSocketProofs ------------------------
(***************************************************************************)
(* SocketInv of ControlSocket is inductive, so a listening daemon stays    *)
(* reachable, and a socket left behind never keeps a daemon from starting, *)
(* for any number of daemons and of sockets ever bound.  One lemma per     *)
(* action.                                                                 *)
(***************************************************************************)
EXTENDS ControlSocket, TLAPS

USE PathAssumption, BoundAssumption DEF IsSocket, Gone, Starting, Listening, Goto

\* The absence of an entry is no inode.
LEMMA NothingIsNoInode == \A n \in Nat : Nothing \notin 1 .. n
  OBVIOUS

\* The initial states satisfy the invariant.
LEMMA InitHolds == ASSUME Init PROVE SocketInv
<1>1. TypeOK
  <2>1. path \in {Nothing, Foreign} \cup 1 .. binds
    BY DEF Init
  <2>5. listening \subseteq 1 .. binds
    BY DEF Init
  <2>2. binds \in 0 .. MaxBinds
    BY DEF Init
  <2>6. overlapped \in BOOLEAN
    BY DEF Init
  <2>3. pc \in [Daemons -> Gone \cup Starting \cup Listening]
    BY DEF Init
  <2>4. /\ seen \in [Daemons -> {Nothing, Foreign} \cup 1 .. binds]
        /\ own \in [Daemons -> {Nothing} \cup 1 .. binds]
    BY DEF Init
  <2> QED
    BY <2>1, <2>2, <2>3, <2>4, <2>5, <2>6 DEF TypeOK
<1>2. ServingIsReachable /\ ListenersAreOwned /\ ChecksAreCurrent
  BY DEF Init, ServingIsReachable, ListenersAreOwned, ChecksAreCurrent
<1> QED
  BY <1>1, <1>2 DEF SocketInv

\* A daemon that starts finds the others where they are: when it starts alone it
\* is the only one on the way to the path.
LEMMA StartKeeps == ASSUME SocketInv, NEW d \in Daemons, Start(d) PROVE SocketInv'
<1> USE DEF SocketInv, TypeOK, Start
<1>1. TypeOK'
  OBVIOUS
<1>2. ListenersAreOwned'
  BY DEF ListenersAreOwned
<1>3. ServingIsReachable' /\ ChecksAreCurrent'
  BY DEF ServingIsReachable, ListenersAreOwned, ChecksAreCurrent
<1> QED
  BY <1>1, <1>2, <1>3

\* The steps of prepareSocketPath change nothing but where the daemon stands.
LEMMA PrepareKeeps ==
  ASSUME SocketInv, NEW d \in Daemons, Inspect(d) \/ Probe(d) \/ Reinspect(d)
  PROVE  SocketInv'
<1> USE DEF SocketInv, TypeOK
<1>1. CASE Inspect(d)
  <2> USE <1>1 DEF Inspect
  <2>1. TypeOK'
    OBVIOUS
  <2>2. ListenersAreOwned'
    BY DEF ListenersAreOwned
  <2>3. ServingIsReachable' /\ ChecksAreCurrent'
    BY DEF ServingIsReachable, ChecksAreCurrent
  <2> QED
    BY <2>1, <2>2, <2>3
<1>2. CASE Probe(d)
  <2> USE <1>2 DEF Probe
  <2>1. TypeOK'
    OBVIOUS
  <2>2. ListenersAreOwned'
    BY DEF ListenersAreOwned
  <2>3. ServingIsReachable' /\ ChecksAreCurrent'
    BY DEF ServingIsReachable, ChecksAreCurrent
  <2> QED
    BY <2>1, <2>2, <2>3
<1>3. CASE Reinspect(d)
  <2> USE <1>3 DEF Reinspect
  <2>1. TypeOK'
    OBVIOUS
  <2>2. ListenersAreOwned'
    BY DEF ListenersAreOwned
  <2>3. ServingIsReachable' /\ ChecksAreCurrent'
    BY DEF ServingIsReachable, ChecksAreCurrent
  <2> QED
    BY <2>1, <2>2, <2>3
<1> QED
  BY <1>1, <1>2, <1>3

\* What a lone daemon removes is nobody's listener.
LEMMA RemoveKeeps == ASSUME SocketInv, NEW d \in Daemons, Remove(d) PROVE SocketInv'
<1> USE DEF SocketInv, TypeOK, Remove
<1>1. TypeOK'
  OBVIOUS
<1>2. ListenersAreOwned'
  BY DEF ListenersAreOwned
<1>3. ServingIsReachable' /\ ChecksAreCurrent'
  BY DEF ServingIsReachable, ChecksAreCurrent
<1> QED
  BY <1>1, <1>2, <1>3

\* A bound socket is new: no other daemon owns it and nobody listens on it.
LEMMA BindKeeps == ASSUME SocketInv, NEW d \in Daemons, Bind(d) PROVE SocketInv'
<1> USE DEF SocketInv, TypeOK, Bind
<1>1. CASE path = Nothing
  <2> USE <1>1
  <2>1. /\ binds' = binds + 1 /\ path' = binds + 1 /\ own' = [own EXCEPT ![d] = binds + 1]
        /\ pc[d] = "bind" /\ pc' = [pc EXCEPT ![d] = "listen"] /\ binds < MaxBinds
        /\ UNCHANGED <<listening, seen, overlapped>>
    OBVIOUS
  <2>2. TypeOK'
    BY <2>1
  <2>3. binds + 1 \notin listening /\ \A e \in Daemons : own[e] # binds + 1
    BY <2>1
  <2>4. ListenersAreOwned'
    BY <2>1, <2>3 DEF ListenersAreOwned
  <2>5. ServingIsReachable' /\ ChecksAreCurrent'
    BY <2>1, <2>3 DEF ServingIsReachable, ChecksAreCurrent, ListenersAreOwned
  <2> QED
    BY <2>2, <2>4, <2>5
<1>2. CASE path # Nothing
  <2> USE <1>2
  <2>1. TypeOK'
    OBVIOUS
  <2>2. ListenersAreOwned'
    BY DEF ListenersAreOwned
  <2>3. ServingIsReachable' /\ ChecksAreCurrent'
    BY DEF ServingIsReachable, ChecksAreCurrent
  <2> QED
    BY <2>1, <2>2, <2>3
<1> QED
  BY <1>1, <1>2

\* listen(2) makes the daemon reachable under the path it has just bound.
LEMMA ListenKeeps == ASSUME SocketInv, NEW d \in Daemons, Listen(d) PROVE SocketInv'
<1> USE DEF SocketInv, TypeOK, Listen
<1>1. own[d] \in 1 .. binds
  BY DEF ListenersAreOwned
<1>2. TypeOK'
  BY <1>1
<1>3. ListenersAreOwned'
  BY <1>1 DEF ListenersAreOwned
<1>4. ServingIsReachable' /\ ChecksAreCurrent'
  BY <1>1 DEF ServingIsReachable, ChecksAreCurrent, ListenersAreOwned
<1> QED
  BY <1>2, <1>3, <1>4

\* The steps of a daemon that serves, up to the removal of its path.
LEMMA ServeKeeps ==
  ASSUME SocketInv, NEW d \in Daemons, Secure(d) \/ Stop(d) \/ Unlink(d)
  PROVE  SocketInv'
<1> USE DEF SocketInv, TypeOK
<1>1. /\ pc[d] \in {"secure", "serve", "unlink"} /\ UNCHANGED <<listening, binds, seen, own, overlapped>>
      /\ \/ path' = path /\ \E step \in {"serve", "unlink"} : pc' = [pc EXCEPT ![d] = step]
         \/ path' = Nothing /\ pc[d] = "unlink" /\ pc' = [pc EXCEPT ![d] = "close"]
  <2>1. CASE Secure(d)
    BY <2>1 DEF Secure
  <2>2. CASE Stop(d)
    BY <2>2 DEF Stop
  <2>3. CASE Unlink(d)
    BY <2>3 DEF Unlink
  <2> QED
    BY <2>1, <2>2, <2>3
<1>2. TypeOK'
  BY <1>1
<1>3. ListenersAreOwned'
  BY <1>1 DEF ListenersAreOwned
<1>4. ServingIsReachable' /\ ChecksAreCurrent'
  BY <1>1 DEF ServingIsReachable, ChecksAreCurrent, ListenersAreOwned
<1> QED
  BY <1>2, <1>3, <1>4

\* A daemon that ends takes its own listener with it and no other one.
LEMMA EndKeeps ==
  ASSUME SocketInv, NEW d \in Daemons, CloseListener(d) \/ Kill(d)
  PROVE  SocketInv'
<1> USE DEF SocketInv, TypeOK
<1>1. /\ pc' = [pc EXCEPT ![d] = "down"]
      /\ listening' = listening \ {own[d]} /\ own' = [own EXCEPT ![d] = Nothing]
      /\ UNCHANGED <<path, binds, seen, overlapped>>
  <2>1. CASE CloseListener(d)
    BY <2>1 DEF CloseListener
  <2>2. CASE Kill(d)
    BY <2>2 DEF Kill
  <2> QED
    BY <2>1, <2>2
<1>2. TypeOK'
  BY <1>1
<1>3. ListenersAreOwned'
  <2>1. \A e \in Daemons : e # d => own'[e] = own[e] /\ pc'[e] = pc[e]
    BY <1>1
  <2>2. own'[d] = Nothing /\ pc'[d] = "down" /\ Nothing \notin listening
    <3>1. Nothing \notin listening
      <4>1. binds \in Nat /\ listening \subseteq 1 .. binds
        OBVIOUS
      <4> QED
        BY <4>1, NothingIsNoInode
    <3>2. own'[d] = Nothing /\ pc'[d] = "down"
      BY <1>1
    <3> QED
      BY <3>1, <3>2
  <2>3. \A e \in Daemons : e # d /\ own[e] # Nothing => own[e] # own[d]
    BY DEF ListenersAreOwned
  <2>4. \A e \in Daemons : own[e] # Nothing /\ e # d => (own[e] \in listening <=> own[e] \in listening')
    BY <1>1, <2>3
  <2>5. \A e \in Daemons :
          /\ own'[e] # Nothing <=> pc'[e] \in {"listen"} \cup Listening
          /\ pc'[e] \in Listening => own'[e] \in listening'
          /\ own'[e] \in listening' => pc'[e] \in Listening
    BY <1>1, <2>1, <2>2, <2>4 DEF ListenersAreOwned
  <2>6. \A i \in listening' : \E e \in Daemons : own'[e] = i
    BY <1>1, <2>1 DEF ListenersAreOwned
  <2>7. \A e, f \in Daemons : own'[e] = own'[f] /\ own'[e] # Nothing => e = f
    BY <2>1, <2>2 DEF ListenersAreOwned
  <2> QED
    BY <2>5, <2>6, <2>7 DEF ListenersAreOwned
<1>4. ServingIsReachable' /\ ChecksAreCurrent'
  BY <1>1 DEF ServingIsReachable, ChecksAreCurrent, ListenersAreOwned
<1> QED
  BY <1>2, <1>3, <1>4

\* A daemon that listens keeps its path until it removes it, as long as no two
\* daemons start at once, and no daemon acts on what it knew of another entry.
THEOREM ServingStaysReachable == Spec => []SocketInv
<1>1. SocketInv /\ [Next]_vars => SocketInv'
  <2> SUFFICES ASSUME SocketInv, [Next]_vars PROVE SocketInv'
    OBVIOUS
  <2>1. ASSUME NEW d \in Daemons,
               Start(d) \/ Startup(d) \/ Stop(d) \/ Shutdown(d) \/ Kill(d)
        PROVE  SocketInv'
    BY <2>1, StartKeeps, PrepareKeeps, RemoveKeeps, BindKeeps, ListenKeeps, ServeKeeps, EndKeeps
    DEF Startup, Shutdown
  <2>2. CASE UNCHANGED vars
    BY <2>2 DEF vars, SocketInv, TypeOK, ServingIsReachable, ListenersAreOwned, ChecksAreCurrent
  <2> QED
    BY <2>1, <2>2 DEF Next
<1> QED
  BY <1>1, InitHolds, PTL DEF Spec

\* A daemon that is alone gives up only to an entry that is no socket: what a
\* killed daemon left behind is removed, whenever it was killed.
THEOREM StaleSocketsAreReplaced == Spec => StaleNeverBlocks
<1> DEFINE Blocked(d) == ~overlapped /\ pc[d] # "failed" /\ pc'[d] = "failed"
           Excused(d) == path = Foreign \/ \E e \in Daemons \ {d} : pc[e] \notin Gone
<1>1. SocketInv /\ [Next]_vars => [\A d \in Daemons : Blocked(d) => Excused(d)]_vars
  <2> SUFFICES ASSUME SocketInv, Next, NEW d \in Daemons, Blocked(d) PROVE Excused(d)
    OBVIOUS
  <2> USE DEF SocketInv, TypeOK
  <2>1. PICK f \in Daemons : Start(f) \/ Startup(f) \/ Stop(f) \/ Shutdown(f) \/ Kill(f)
    BY DEF Next
  <2>2. f = d /\ (Inspect(d) \/ Probe(d) \/ Reinspect(d) \/ Remove(d) \/ Bind(d))
    BY <2>1 DEF Startup, Shutdown, Start, Inspect, Probe, Reinspect, Remove, Bind, Listen, Secure,
       Stop, Unlink, CloseListener, Kill
  <2>3. CASE Inspect(d)
    BY <2>3 DEF Inspect
  <2>4. CASE Probe(d)
    BY <2>4 DEF Probe, ListenersAreOwned, ChecksAreCurrent
  <2>5. CASE Reinspect(d) \/ Remove(d) \/ Bind(d)
    BY <2>5 DEF Reinspect, Remove, Bind, ChecksAreCurrent
  <2> QED
    BY <2>2, <2>3, <2>4, <2>5
<1> QED
  BY <1>1, ServingStaysReachable, PTL DEF Spec, StaleNeverBlocks
=============================================================================
