-------------------------- MODULE HTTPServerProofs --------------------------
(***************************************************************************)
(* The accounting of slots and goroutines, the quiet end of the server and *)
(* what Shutdown may and may not do, for any number of connections and any *)
(* capacity.                                                               *)
(***************************************************************************)
EXTENDS HTTPServer, FiniteSetTheorems, TLAPS

\* The connections that the stages f put into one of the stages S.
At(f, S) == {c \in Conns : f[c] \in S}

\* The accept loop has at most one connection in hand, and a client that has not
\* connected has none.
InHand ==
  /\ next # Nobody <=> loop \in {"slot", "register"}
  /\ \A c \in Conns : stage[c] = "taken" <=> c = next
  /\ \A c \in Conns : client[c] = "idle" => stage[c] = "none"

\* A connection is closed before its goroutine gives its slot back.
OpenIsServed ==
  \A c \in open : stage[c] \in {"queued", "taken", "read", "parsed", "handler", "finish"}

\* A closed listener has no queue, and the listener of a closed server that
\* Serve knows of, or has returned from, is closed.
ListenerCloses ==
  /\ ~listening => Queued = {}
  /\ loop \notin {"begin", "returned"} => known
  /\ closed /\ known => ~listening
  /\ loop = "returned" => ~listening

\* Shutdown has set the closed flag before it waits, and behind the wait there is
\* no goroutine.
StopSteps ==
  /\ main = "serving" => ~closed /\ running = {} /\ victim = Nobody
  /\ main \notin {"serving", "failed"} => closed
  /\ main \in {"join", "stopped", "expired"} => At(stage, Alive) = {}
  /\ main = "stopped" => loop = "returned"

\* A connection whose handler ran at Shutdown stays marked as started, so that it
\* is never chosen to be closed.
RunningIsStarted ==
  /\ running \subseteq started
  /\ victim \notin running
  /\ \A c \in running : stage[c] \in {"handler", "finish", "release", "forget", "done", "end"}

IInv ==
  /\ TypeOK /\ Accounting /\ IsFiniteSet(At(stage, Alive)) /\ InHand /\ OpenIsServed
  /\ ListenerCloses /\ StopSteps /\ RunningIsStarted

Steps == Alive \cup {"none", "queued", "taken", "end"}

-----------------------------------------------------------------------------
(* Counting connections. *)

\* Whether s is one of the stages S, as a number.
In(s, S) == IF s \in S THEN 1 ELSE 0

\* One connection that moves enters or leaves the set of those at stages S.
LEMMA MoveFacts ==
  ASSUME NEW c \in Conns, \A d \in Conns : d # c => stage'[d] = stage[d],
         NEW S, IsFiniteSet(At(stage, S))
  PROVE  /\ IsFiniteSet(At(stage', S))
         /\ Cardinality(At(stage', S)) = Cardinality(At(stage, S)) + In(stage'[c], S) - In(stage[c], S)
         /\ (stage'[c] \in S => stage[c] \in S) => At(stage', S) \subseteq At(stage, S)
<1>0. Cardinality(At(stage, S)) \in Nat
  BY FS_CardinalityType
<1>1. CASE stage'[c] \in S <=> stage[c] \in S
  <2>1. At(stage', S) = At(stage, S)
    BY <1>1 DEF At
  <2> QED
    BY <1>0, <1>1, <2>1 DEF In
<1>2. CASE stage'[c] \in S /\ stage[c] \notin S
  <2>1. At(stage', S) = At(stage, S) \cup {c} /\ c \notin At(stage, S)
    BY <1>2 DEF At
  <2>2. IsFiniteSet(At(stage', S)) /\ Cardinality(At(stage', S)) = Cardinality(At(stage, S)) + 1
    BY <2>1, FS_AddElement
  <2> QED
    BY <1>0, <1>2, <2>2 DEF In
<1>3. CASE stage'[c] \notin S /\ stage[c] \in S
  <2>1. At(stage', S) = At(stage, S) \ {c} /\ c \in At(stage, S)
    BY <1>3 DEF At
  <2>2. IsFiniteSet(At(stage', S)) /\ Cardinality(At(stage', S)) = Cardinality(At(stage, S)) - 1
    BY <2>1, FS_RemoveElement
  <2> QED
    BY <1>0, <1>3, <2>1, <2>2 DEF In
<1> QED
  BY <1>1, <1>2, <1>3

\* Fewer stages, fewer connections; and the counters are natural numbers.
LEMMA CountFacts ==
  ASSUME IInv
  PROVE  /\ stage \in [Conns -> Steps]
         /\ IsFiniteSet(At(stage, Serving)) /\ Cardinality(At(stage, Serving)) \in Nat
         /\ IsFiniteSet(At(stage, Alive)) /\ Cardinality(At(stage, Alive)) \in Nat
         /\ slots = Cardinality(At(stage, Serving)) + (IF loop = "register" THEN 1 ELSE 0)
         /\ conns = At(stage, Tabled) /\ wg = Cardinality(At(stage, Alive))
         /\ wg = 0 => At(stage, Alive) = {}
         /\ \A c \in Conns : stage[c] \in Serving => Cardinality(At(stage, Serving)) > 0
<1>1. IsFiniteSet(At(stage, Alive)) /\ stage \in [Conns -> Steps]
  BY DEF IInv, TypeOK, Steps
<1>2. At(stage, Serving) \in SUBSET At(stage, Alive)
  BY DEF At, Alive, Tabled
<1>3. IsFiniteSet(At(stage, Serving))
  BY <1>1, <1>2, FS_Subset
<1>4. Cardinality(At(stage, Serving)) \in Nat /\ Cardinality(At(stage, Alive)) \in Nat
  BY <1>1, <1>3, FS_CardinalityType
<1>5. /\ slots = Cardinality(At(stage, Serving)) + (IF loop = "register" THEN 1 ELSE 0)
      /\ conns = At(stage, Tabled) /\ wg = Cardinality(At(stage, Alive))
  BY DEF IInv, Accounting, At
<1>6. wg = 0 => At(stage, Alive) = {}
  BY <1>1, <1>5, FS_EmptySet
<1>7. ASSUME NEW c \in Conns, stage[c] \in Serving PROVE Cardinality(At(stage, Serving)) > 0
  <2>1. At(stage, Serving) # {}
    BY <1>7 DEF At
  <2>2. Cardinality(At(stage, Serving)) # 0
    BY <1>3, <2>1, FS_EmptySet
  <2> QED
    BY <1>4, <2>2
<1> QED
  BY <1>1, <1>3, <1>4, <1>5, <1>6, <1>7

\* The slot of a connection that the accept loop is about to register.
Reserved(l) == IF l = "register" THEN 1 ELSE 0

\* c moves to stage t, and the counters change by what it enters and leaves.
Moves(c, t) ==
  /\ stage' = [stage EXCEPT ![c] = t]
  /\ slots' = slots + In(t, Serving) - In(stage[c], Serving) + Reserved(loop') - Reserved(loop)
  /\ conns' = IF t \in Tabled THEN conns \cup {c} ELSE conns \ {c}
  /\ wg' = wg + In(t, Alive) - In(stage[c], Alive)

\* A step that moves one connection keeps the accounting.
LEMMA Recount ==
  ASSUME IInv, NEW c \in Conns, NEW t \in Steps, Moves(c, t)
  PROVE  /\ Accounting' /\ IsFiniteSet(At(stage, Alive))'
         /\ (t \in Alive => stage[c] \in Alive) => At(stage', Alive) \subseteq At(stage, Alive)
<1>1. /\ stage \in [Conns -> Steps]
      /\ IsFiniteSet(At(stage, Serving)) /\ Cardinality(At(stage, Serving)) \in Nat
      /\ IsFiniteSet(At(stage, Alive)) /\ Cardinality(At(stage, Alive)) \in Nat
      /\ slots = Cardinality(At(stage, Serving)) + (IF loop = "register" THEN 1 ELSE 0)
      /\ conns = At(stage, Tabled) /\ wg = Cardinality(At(stage, Alive))
  BY CountFacts
<1>0. stage'[c] = t /\ \A d \in Conns : d # c => stage'[d] = stage[d]
  BY <1>1 DEF Moves
<1>2. Cardinality(At(stage', Serving)) = Cardinality(At(stage, Serving)) + In(t, Serving) - In(stage[c], Serving)
  BY <1>0, <1>1, MoveFacts
<1>3. /\ Cardinality(At(stage', Alive)) = Cardinality(At(stage, Alive)) + In(t, Alive) - In(stage[c], Alive)
      /\ IsFiniteSet(At(stage', Alive))
      /\ (t \in Alive => stage[c] \in Alive) => At(stage', Alive) \subseteq At(stage, Alive)
  BY <1>0, <1>1, MoveFacts
<1>4. conns' = At(stage', Tabled)
  BY <1>0, <1>1 DEF At, Moves
<1>5. /\ In(t, Serving) \in {0, 1} /\ In(stage[c], Serving) \in {0, 1}
      /\ Reserved(loop) \in {0, 1} /\ Reserved(loop') \in {0, 1}
  BY DEF In, Reserved
<1>6. slots' = Cardinality(At(stage', Serving)) + Reserved(loop')
  BY <1>1, <1>2, <1>5 DEF Reserved, Moves
<1>7. wg' = Cardinality(At(stage', Alive))
  BY <1>1, <1>3 DEF Moves
<1>8. Accounting'
  BY <1>4, <1>6, <1>7 DEF Accounting, At, Reserved
<1> QED
  BY <1>3, <1>8

\* A step that moves no connection, takes no slot and has none reserved.
LEMMA SameCount ==
  ASSUME IInv, UNCHANGED <<stage, slots, conns, wg>>, loop' = "register" <=> loop = "register"
  PROVE  Accounting' /\ IsFiniteSet(At(stage, Alive))'
<1>1. Accounting'
  BY DEF IInv, Accounting
<1>2. IsFiniteSet(At(stage, Alive))'
  BY DEF IInv, At
<1> QED
  BY <1>1, <1>2

-----------------------------------------------------------------------------
(* Clients and the accept loop. *)

\* The initial states satisfy the invariant.
LEMMA InitHolds == ASSUME Init PROVE IInv
<1> USE DEF Init
<1>1. /\ client \in [Conns -> {"idle", "connected", "sent", "gone"}]
      /\ answer \in [Conns -> {"none", "busy", "error", "response"}]
      /\ stage \in [Conns -> Alive \cup {"none", "queued", "taken", "end"}]
  OBVIOUS
<1>2. slots \in 0 .. MaxConnections /\ wg \in Nat
  BY CapacityAssumption
<1>3. known \in BOOLEAN /\ listening \in BOOLEAN /\ closed \in BOOLEAN /\ cancelled \in BOOLEAN
  OBVIOUS
<1>4. TypeOK
  BY <1>1, <1>2, <1>3 DEF TypeOK
<1>5. At(stage, Serving) = {} /\ At(stage, Tabled) = {} /\ At(stage, Alive) = {}
  BY DEF At, Alive, Tabled, Serving
<1>6. Accounting /\ IsFiniteSet(At(stage, Alive))
  BY <1>5, FS_EmptySet DEF Accounting, At
<1>7. InHand /\ OpenIsServed /\ ListenerCloses
  BY ConnsAssumption DEF InHand, OpenIsServed, ListenerCloses, Queued
<1>8. StopSteps /\ RunningIsStarted
  BY DEF StopSteps, RunningIsStarted
<1> QED
  BY <1>4, <1>6, <1>7, <1>8 DEF IInv

\* A client connects while the listener is open.
LEMMA ConnectKeeps == ASSUME IInv, NEW c \in Conns, Connect(c) PROVE IInv'
<1>1. /\ stage[c] = "none" /\ listening /\ stage' = [stage EXCEPT ![c] = "queued"]
      /\ client' = [client EXCEPT ![c] = "connected"] /\ open' = open \cup {c}
      /\ UNCHANGED <<answer, loop, next, slots, conns, wg, started, known, listening, closed,
                     cancelled, main, scan, victim, running>>
  BY DEF Connect, table, flags, stopper, IInv, InHand
<1> USE <1>1
<1>2. c \notin conns
  BY CountFacts DEF At, Tabled, Serving
<1>3. /\ Accounting' /\ IsFiniteSet(At(stage, Alive))' /\ At(stage', Alive) \subseteq At(stage, Alive)
  <2>1. "queued" \notin Alive /\ "queued" \notin Serving /\ "queued" \notin Tabled /\ "queued" \in Steps
    BY DEF Alive, Tabled, Serving, Steps
  <2>2. stage[c] \notin Alive /\ stage[c] \notin Serving
    BY DEF Alive, Tabled, Serving
  <2>3. slots \in Nat /\ wg \in Nat
    BY CapacityAssumption DEF IInv, TypeOK
  <2>4. Moves(c, "queued")
    BY <1>2, <2>1, <2>2, <2>3 DEF Moves, In, Reserved
  <2> QED
    BY <2>1, <2>4, Recount
<1>4. TypeOK'
  BY DEF IInv, TypeOK
<1>5. InHand' /\ OpenIsServed'
  BY ConnsAssumption DEF IInv, TypeOK, InHand, OpenIsServed
<1>6. ListenerCloses' /\ RunningIsStarted'
  BY DEF IInv, TypeOK, ListenerCloses, RunningIsStarted
<1>7. StopSteps'
  BY <1>3 DEF IInv, StopSteps
<1> QED
  BY <1>3, <1>4, <1>5, <1>6, <1>7 DEF IInv

\* A client sends or leaves.
LEMMA ClientKeeps == ASSUME IInv, NEW c \in Conns, Send(c) \/ Leave(c) PROVE IInv'
<1>1. /\ client' \in [Conns -> {"idle", "connected", "sent", "gone"}]
      /\ \A d \in Conns : client'[d] = "idle" => client[d] = "idle"
      /\ UNCHANGED <<answer, open, loop, next, slots, stage, conns, wg, started, known, listening,
                     closed, cancelled, main, scan, victim, running>>
  BY DEF Send, Leave, table, flags, stopper, IInv, TypeOK
<1> USE <1>1
<1>2. Accounting' /\ IsFiniteSet(At(stage, Alive))'
  BY SameCount
<1>3. TypeOK' /\ InHand' /\ OpenIsServed'
  BY DEF IInv, TypeOK, InHand, OpenIsServed
<1>4. ListenerCloses' /\ StopSteps' /\ RunningIsStarted'
  BY DEF IInv, ListenerCloses, Queued, StopSteps, RunningIsStarted
<1> QED
  BY <1>2, <1>3, <1>4 DEF IInv

\* What Answer leaves in the client's hands.
LEMMA AnswerType ==
  ASSUME IInv, NEW c \in Conns, NEW r \in {"busy", "error", "response"}, Answer(c, r)
  PROVE  answer' \in [Conns -> {"none", "busy", "error", "response"}]
  BY DEF Answer, IInv, TypeOK

\* Serve registers its listener, or closes it when the server was closed before.
LEMMA BeginKeeps == ASSUME IInv, Begin PROVE IInv'
<1>1. CASE ~closed
  <2>1. /\ loop = "begin" /\ loop' = "accept" /\ known' = TRUE
        /\ UNCHANGED <<client, answer, open, next, slots, stage, conns, wg, started, listening, closed,
                       cancelled, main, scan, victim, running>>
    BY <1>1 DEF Begin, clients, table, stopper
  <2> USE <1>1, <2>1
  <2>2. Accounting' /\ IsFiniteSet(At(stage, Alive))'
    BY SameCount
  <2>3. TypeOK' /\ InHand' /\ OpenIsServed'
    BY DEF IInv, TypeOK, InHand, OpenIsServed
  <2>4. ListenerCloses' /\ StopSteps' /\ RunningIsStarted'
    BY DEF IInv, ListenerCloses, Queued, StopSteps, RunningIsStarted
  <2> QED
    BY <2>2, <2>3, <2>4 DEF IInv
<1>2. CASE closed
  <2>1. /\ loop = "begin" /\ loop' = "returned" /\ listening' = FALSE
        /\ stage' = [c \in Conns |-> IF c \in Queued THEN "end" ELSE stage[c]] /\ open' = open \ Queued
        /\ UNCHANGED <<client, answer, next, slots, conns, wg, started, known, closed, cancelled, main,
                       scan, victim, running>>
    BY <1>2 DEF Begin, clients, table, stopper
  <2> USE <1>2, <2>1
  <2>2. /\ At(stage', Serving) = At(stage, Serving) /\ At(stage', Tabled) = At(stage, Tabled)
        /\ At(stage', Alive) = At(stage, Alive)
    BY DEF At, Queued, Alive, Tabled, Serving
  <2>3. Accounting' /\ IsFiniteSet(At(stage, Alive))'
    BY <2>2 DEF IInv, Accounting, At
  <2>4. TypeOK'
    BY DEF IInv, TypeOK
  <2>5. InHand' /\ OpenIsServed'
    BY DEF IInv, TypeOK, InHand, OpenIsServed, Queued
  <2>6. ListenerCloses' /\ RunningIsStarted'
    BY DEF IInv, TypeOK, ListenerCloses, RunningIsStarted, Queued
  <2>7. StopSteps'
    BY <2>2 DEF IInv, StopSteps
  <2> QED
    BY <2>3, <2>4, <2>5, <2>6, <2>7 DEF IInv
<1> QED
  BY <1>1, <1>2

\* The accept loop takes a queued connection in hand.
LEMMA AcceptKeeps == ASSUME IInv, Accept PROVE IInv'
<1>1. PICK c \in Queued : next' = c /\ stage' = [stage EXCEPT ![c] = "taken"]
  BY DEF Accept
<1>2. /\ loop = "accept" /\ loop' = "slot" /\ listening /\ c \in Conns /\ stage[c] = "queued" /\ next = Nobody
      /\ UNCHANGED <<client, answer, open, slots, conns, wg, started, known, listening, closed,
                     cancelled, main, scan, victim, running>>
  BY DEF Accept, clients, table, flags, stopper, Queued, IInv, InHand
<1> USE <1>1, <1>2
<1>3. c \notin conns /\ slots \in Nat /\ wg \in Nat
  BY CountFacts, CapacityAssumption DEF At, Tabled, Serving, IInv, TypeOK
<1>4. Moves(c, "taken") /\ "taken" \in Steps /\ "taken" \notin Alive
  BY <1>3 DEF Moves, In, Reserved, Alive, Tabled, Serving, Steps
<1>5. Accounting' /\ IsFiniteSet(At(stage, Alive))' /\ At(stage', Alive) \subseteq At(stage, Alive)
  BY <1>4, Recount
<1>6. TypeOK'
  BY DEF IInv, TypeOK
<1>7. InHand' /\ OpenIsServed'
  BY ConnsAssumption DEF IInv, TypeOK, InHand, OpenIsServed
<1>8. ListenerCloses' /\ RunningIsStarted'
  BY DEF IInv, TypeOK, ListenerCloses, RunningIsStarted, Queued
<1>9. StopSteps'
  BY <1>5 DEF IInv, StopSteps
<1> QED
  BY <1>5, <1>6, <1>7, <1>8, <1>9 DEF IInv

\* Accept fails, on a closed listener or for another reason.
LEMMA AcceptEndKeeps == ASSUME IInv, AcceptClosed \/ AcceptFails PROVE IInv'
<1>1. /\ loop = "accept" /\ ((loop' = "returned" /\ ~listening) \/ loop' = "failed")
      /\ UNCHANGED <<client, answer, open, next, slots, stage, conns, wg, started, known, listening,
                     closed, cancelled, main, scan, victim, running>>
  BY DEF AcceptClosed, AcceptFails, clients, table, flags, stopper
<1> USE <1>1
<1>2. Accounting' /\ IsFiniteSet(At(stage, Alive))'
  BY SameCount
<1>3. TypeOK' /\ InHand' /\ OpenIsServed'
  BY DEF IInv, TypeOK, InHand, OpenIsServed
<1>4. ListenerCloses' /\ StopSteps' /\ RunningIsStarted'
  BY DEF IInv, ListenerCloses, Queued, StopSteps, RunningIsStarted
<1> QED
  BY <1>2, <1>3, <1>4 DEF IInv

\* A slot is taken for the connection in hand, or it is refused and closed.
LEMMA TakeSlotKeeps == ASSUME IInv, TakeSlot PROVE IInv'
<1>1. loop = "slot" /\ next \in Conns /\ stage[next] = "taken" /\ slots \in 0 .. MaxConnections /\ wg \in Nat
  BY ConnsAssumption DEF TakeSlot, IInv, InHand, TypeOK
<1>2. CASE slots < MaxConnections
  <2>1. /\ loop' = "register" /\ slots' = slots + 1
        /\ UNCHANGED <<client, answer, open, next, stage, conns, wg, started, known, listening, closed,
                       cancelled, main, scan, victim, running>>
    BY <1>1, <1>2, CapacityAssumption DEF TakeSlot, table, flags, stopper
  <2> USE <1>1, <1>2, <2>1
  <2>2. slots' \in 0 .. MaxConnections
    BY CapacityAssumption
  <2>3. Accounting' /\ IsFiniteSet(At(stage, Alive))'
    BY CountFacts DEF IInv, Accounting, At
  <2>4. TypeOK' /\ InHand' /\ OpenIsServed'
    BY <2>2 DEF IInv, TypeOK, InHand, OpenIsServed
  <2>5. ListenerCloses' /\ StopSteps' /\ RunningIsStarted'
    BY DEF IInv, ListenerCloses, Queued, StopSteps, RunningIsStarted
  <2> QED
    BY <2>3, <2>4, <2>5 DEF IInv
<1>3. CASE slots = MaxConnections
  <2>1. /\ loop' = "accept" /\ next' = Nobody /\ slots' = slots /\ open' = open \ {next}
        /\ stage' = [stage EXCEPT ![next] = "end"] /\ Answer(next, "busy")
        /\ UNCHANGED <<client, conns, wg, started, known, listening, closed, cancelled, main, scan,
                       victim, running>>
    BY <1>1, <1>3, CapacityAssumption DEF TakeSlot, table, flags, stopper
  <2> USE <1>1, <1>3, <2>1
  <2>2. next \notin conns /\ slots \in Nat
    BY CountFacts, CapacityAssumption DEF At, Tabled, Serving
  <2>3. Moves(next, "end") /\ "end" \in Steps /\ "end" \notin Alive
    BY <2>2 DEF Moves, In, Reserved, Alive, Tabled, Serving, Steps
  <2>4. Accounting' /\ IsFiniteSet(At(stage, Alive))' /\ At(stage', Alive) \subseteq At(stage, Alive)
    BY <2>3, Recount
  <2>5. TypeOK'
    BY AnswerType DEF IInv, TypeOK
  <2>6. InHand' /\ OpenIsServed'
    BY ConnsAssumption DEF IInv, TypeOK, InHand, OpenIsServed
  <2>7. ListenerCloses' /\ RunningIsStarted'
    BY DEF IInv, TypeOK, ListenerCloses, RunningIsStarted, Queued
  <2>8. StopSteps'
    BY <2>4 DEF IInv, StopSteps
  <2> QED
    BY <2>4, <2>5, <2>6, <2>7, <2>8 DEF IInv
<1> QED
  BY <1>1, <1>2, <1>3, CapacityAssumption

\* The connection in hand gets its goroutine, or is given up with its slot when
\* the server has been closed in the meantime.
LEMMA RegisterKeeps == ASSUME IInv, Register PROVE IInv'
<1>1. loop = "register" /\ next \in Conns /\ stage[next] = "taken" /\ slots \in Nat /\ wg \in Nat
  BY ConnsAssumption, CapacityAssumption DEF Register, IInv, InHand, TypeOK
<1>2. slots > 0 /\ next \notin conns
  BY <1>1, CountFacts DEF At, Tabled, Serving
<1>3. CASE ~closed
  <2>1. /\ conns' = conns \cup {next} /\ wg' = wg + 1 /\ stage' = [stage EXCEPT ![next] = "read"]
        /\ loop' = "accept" /\ next' = Nobody /\ slots' = slots /\ open' = open
        /\ UNCHANGED <<client, answer, started, known, listening, closed, cancelled, main, scan, victim,
                       running>>
    BY <1>3 DEF Register, clients, flags, stopper
  <2> USE <1>1, <1>2, <1>3, <2>1
  <2>2. Moves(next, "read") /\ "read" \in Steps
    BY DEF Moves, In, Reserved, Alive, Tabled, Serving, Steps
  <2>3. Accounting' /\ IsFiniteSet(At(stage, Alive))'
    BY <2>2, Recount
  <2>4. TypeOK'
    BY DEF IInv, TypeOK, Alive, Tabled, Serving
  <2>5. InHand' /\ OpenIsServed'
    BY ConnsAssumption DEF IInv, TypeOK, InHand, OpenIsServed
  <2>6. ListenerCloses' /\ RunningIsStarted'
    BY DEF IInv, TypeOK, ListenerCloses, RunningIsStarted, Queued
  <2>7. StopSteps'
    BY DEF IInv, StopSteps, TypeOK
  <2> QED
    BY <2>3, <2>4, <2>5, <2>6, <2>7 DEF IInv
<1>4. CASE closed
  <2>1. /\ slots' = slots - 1 /\ open' = open \ {next} /\ stage' = [stage EXCEPT ![next] = "end"]
        /\ loop' = "returned" /\ next' = Nobody
        /\ UNCHANGED <<client, answer, conns, wg, started, known, listening, closed, cancelled, main,
                       scan, victim, running>>
    BY <1>4 DEF Register, clients, flags, stopper, table
  <2> USE <1>1, <1>2, <1>4, <2>1
  <2>2. Moves(next, "end") /\ "end" \in Steps /\ "end" \notin Alive
    BY DEF Moves, In, Reserved, Alive, Tabled, Serving, Steps
  <2>3. Accounting' /\ IsFiniteSet(At(stage, Alive))' /\ At(stage', Alive) \subseteq At(stage, Alive)
    BY <2>2, Recount
  <2>4. slots' \in 0 .. MaxConnections
    BY CapacityAssumption DEF IInv, TypeOK
  <2>5. TypeOK'
    BY <2>4 DEF IInv, TypeOK
  <2>6. InHand' /\ OpenIsServed'
    BY ConnsAssumption DEF IInv, TypeOK, InHand, OpenIsServed
  <2>7. ListenerCloses' /\ RunningIsStarted'
    BY DEF IInv, TypeOK, ListenerCloses, RunningIsStarted, Queued
  <2>8. StopSteps'
    BY <2>3 DEF IInv, StopSteps
  <2> QED
    BY <2>3, <2>5, <2>6, <2>7, <2>8 DEF IInv
<1> QED
  BY <1>3, <1>4

-----------------------------------------------------------------------------
(* The goroutine of a connection. *)

\* A step of serveConn that keeps its slot, its key and its count.
LEMMA ServeKeeps ==
  ASSUME IInv, NEW c \in Conns, NEW t, stage' = [stage EXCEPT ![c] = t],
         <<stage[c], t>> \in {<<"read", "parsed">>, <<"read", "release">>, <<"parsed", "handler">>,
                             <<"handler", "finish">>, <<"finish", "release">>},
         open' = (IF t = "release" THEN open \ {c} ELSE open),
         started \subseteq started' /\ started' \subseteq Conns,
         answer' \in [Conns -> {"none", "busy", "error", "response"}],
         UNCHANGED <<client, loop, next, slots, conns, wg, known, listening, closed, cancelled, main,
                     scan, victim, running>>
  PROVE  IInv'
<1>1. stage[c] \in Serving /\ t \in Serving /\ slots \in Nat /\ wg \in Nat
  BY CapacityAssumption DEF Serving, IInv, TypeOK
<1>2. t \in Steps /\ t \in Tabled /\ t \in Alive /\ stage[c] \in Alive /\ c \in conns
  BY <1>1, CountFacts DEF Steps, Alive, Tabled, At
<1>3. Moves(c, t)
  BY <1>1, <1>2 DEF Moves, In, Reserved
<1>4. Accounting' /\ IsFiniteSet(At(stage, Alive))' /\ At(stage', Alive) \subseteq At(stage, Alive)
  BY <1>2, <1>3, Recount
<1>5. TypeOK'
  <2>1. stage' \in [Conns -> Alive \cup {"none", "queued", "taken", "end"}]
    BY <1>2 DEF IInv, TypeOK
  <2>2. open' \subseteq Conns
    BY DEF IInv, TypeOK
  <2> QED
    BY <2>1, <2>2 DEF IInv, TypeOK
<1>6. InHand' /\ OpenIsServed'
  BY ConnsAssumption DEF IInv, TypeOK, InHand, OpenIsServed
<1>7. ListenerCloses' /\ RunningIsStarted'
  BY DEF IInv, TypeOK, ListenerCloses, RunningIsStarted, Queued
<1>8. StopSteps'
  BY <1>4 DEF IInv, StopSteps
<1> QED
  BY <1>4, <1>5, <1>6, <1>7, <1>8 DEF IInv

\* Reading the request, running the handler and writing its response.
LEMMA RequestKeeps ==
  ASSUME IInv, NEW c \in Conns,
         \/ ReadRequest(c) \/ ReadFails(c) \/ StartHandler(c) \/ HandlerReturns(c) \/ Finish(c)
  PROVE  IInv'
<1> USE DEF Goto, clients, table, flags, stopper
<1>0. answer \in [Conns -> {"none", "busy", "error", "response"}] /\ started \subseteq Conns
  BY DEF IInv, TypeOK
<1>1. CASE ReadRequest(c)
  BY <1>0, <1>1, ServeKeeps DEF ReadRequest
<1>2. CASE ReadFails(c)
  <2>1. answer' \in [Conns -> {"none", "busy", "error", "response"}]
    BY <1>0, <1>2, AnswerType DEF ReadFails
  <2> QED
    BY <1>0, <1>2, <2>1, ServeKeeps DEF ReadFails
<1>3. CASE StartHandler(c)
  BY <1>0, <1>3, ServeKeeps DEF StartHandler
<1>4. CASE HandlerReturns(c)
  BY <1>0, <1>4, ServeKeeps DEF HandlerReturns
<1>5. CASE Finish(c)
  <2>1. answer' \in [Conns -> {"none", "busy", "error", "response"}]
    BY <1>5, AnswerType DEF Finish
  <2> QED
    BY <1>0, <1>5, <2>1, ServeKeeps DEF Finish
<1> QED
  BY <1>1, <1>2, <1>3, <1>4, <1>5

\* The deferred steps give back the slot, the key and the count, in this order.
LEMMA DeferredKeeps ==
  ASSUME IInv, NEW c \in Conns, ReleaseSlot(c) \/ Forget(c) \/ Done(c)
  PROVE  IInv'
<1>1. PICK t \in {"forget", "done", "end"} :
        /\ stage' = [stage EXCEPT ![c] = t]
        /\ <<stage[c], t>> \in {<<"release", "forget">>, <<"forget", "done">>, <<"done", "end">>}
        /\ slots' = (IF t = "forget" THEN slots - 1 ELSE slots)
        /\ conns' = (IF t = "done" THEN conns \ {c} ELSE conns)
        /\ wg' = (IF t = "end" THEN wg - 1 ELSE wg)
        /\ UNCHANGED <<client, answer, open, loop, next, started, known, listening, closed, cancelled,
                       main, scan, victim, running>>
  <2> USE DEF Goto, clients, table, flags, stopper
  <2>1. CASE ReleaseSlot(c)
    BY <2>1 DEF ReleaseSlot
  <2>2. CASE Forget(c)
    BY <2>2 DEF Forget
  <2>3. CASE Done(c)
    BY <2>3 DEF Done
  <2> QED
    BY <2>1, <2>2, <2>3
<1> USE <1>1
<1>2. /\ slots \in Nat /\ wg \in Nat /\ t \in Steps /\ stage[c] \in Alive
      /\ stage[c] \in Serving <=> t = "forget"
      /\ t \in Tabled <=> t = "forget"
      /\ t \in Alive <=> t # "end"
      /\ t \notin Serving
  BY CapacityAssumption DEF IInv, TypeOK, Steps, Alive, Tabled, Serving
<1>3. c \in conns <=> t # "end"
  BY CountFacts DEF At, Tabled, Serving
<1>4. Moves(c, t)
  BY <1>2, <1>3 DEF Moves, In, Reserved
<1>5. Accounting' /\ IsFiniteSet(At(stage, Alive))' /\ At(stage', Alive) \subseteq At(stage, Alive)
  BY <1>2, <1>4, Recount
<1>6. slots' \in 0 .. MaxConnections /\ wg' \in Nat
  <2>1. t = "forget" => slots > 0
    BY <1>2, CountFacts
  <2>2. t = "end" => wg > 0
    <3>1. At(stage, Alive) # {}
      BY <1>2 DEF At
    <3> QED
      BY <1>2, <3>1, CountFacts
  <2> QED
    BY <1>2, <2>1, <2>2, CapacityAssumption DEF IInv, TypeOK
<1>7. TypeOK'
  BY <1>2, <1>6 DEF IInv, TypeOK, Steps
<1>8. InHand' /\ OpenIsServed'
  BY ConnsAssumption DEF IInv, TypeOK, InHand, OpenIsServed
<1>9. ListenerCloses' /\ RunningIsStarted'
  BY DEF IInv, TypeOK, ListenerCloses, RunningIsStarted, Queued
<1>10. StopSteps'
  BY <1>5 DEF IInv, StopSteps
<1> QED
  BY <1>5, <1>7, <1>8, <1>9, <1>10 DEF IInv

-----------------------------------------------------------------------------
(* The main goroutine. *)

\* Shutdown sets the closed flag, and with its listener the queue goes.
LEMMA ShutdownKeeps == ASSUME IInv, Shutdown PROVE IInv'
<1>1. /\ main = "serving" /\ main' = "scan" /\ closed' = TRUE /\ listening' = (listening /\ ~known)
      /\ stage' = [c \in Conns |-> IF known /\ c \in Queued THEN "end" ELSE stage[c]]
      /\ open' = IF known THEN open \ Queued ELSE open
      /\ scan' = conns
      /\ running' = {c \in started : stage[c] \in {"handler", "finish"}}
      /\ UNCHANGED <<client, answer, loop, next, slots, conns, wg, started, known, cancelled, victim>>
  BY DEF Shutdown, clients, table
<1> USE <1>1
<1>2. /\ At(stage', Serving) = At(stage, Serving) /\ At(stage', Tabled) = At(stage, Tabled)
      /\ At(stage', Alive) = At(stage, Alive)
  BY DEF At, Queued, Alive, Tabled, Serving
<1>3. Accounting' /\ IsFiniteSet(At(stage, Alive))'
  BY <1>2 DEF IInv, Accounting, At
<1>4. TypeOK'
  <2>1. listening' \in BOOLEAN /\ closed' \in BOOLEAN
    BY DEF IInv, TypeOK
  <2> QED
    BY <2>1 DEF IInv, TypeOK
<1>5. InHand' /\ OpenIsServed'
  BY DEF IInv, TypeOK, InHand, OpenIsServed, Queued
<1>6. ListenerCloses'
  BY DEF IInv, TypeOK, ListenerCloses, Queued
<1>7. RunningIsStarted'
  BY ConnsAssumption DEF IInv, TypeOK, RunningIsStarted, StopSteps, Queued
<1>8. StopSteps'
  BY DEF IInv, StopSteps
<1> QED
  BY <1>3, <1>4, <1>5, <1>6, <1>7, <1>8 DEF IInv

\* The loop over s.conns chooses and closes connections that have not started.
LEMMA ScanKeeps ==
  ASSUME IInv, (\E c \in Conns : Scan(c)) \/ CloseVictim \/ Close
  PROVE  IInv'
<1>0. Nobody \notin running /\ running \subseteq started /\ victim \notin running
  BY ConnsAssumption DEF IInv, TypeOK, RunningIsStarted
<1>1. /\ open' \subseteq open /\ scan' \subseteq scan
      /\ victim' \in Conns \cup {Nobody} /\ victim' \notin running
      /\ \/ main = "scan" /\ main' = "scan"
         \/ main = "closeAll" /\ main' = "drain"
      /\ UNCHANGED <<client, answer, loop, next, slots, stage, conns, wg, started, known, listening,
                     closed, cancelled, running>>
  <2> USE <1>0 DEF clients, table, flags
  <2>0. victim \in Conns \cup {Nobody}
    BY DEF IInv, TypeOK
  <2>1. CASE \E c \in Conns : Scan(c)
    BY <2>1 DEF Scan
  <2>2. CASE CloseVictim
    BY <2>2 DEF CloseVictim
  <2>3. CASE Close
    BY <2>0, <2>3 DEF Close
  <2> QED
    BY <2>1, <2>2, <2>3
<1> USE <1>1
<1>2. Accounting' /\ IsFiniteSet(At(stage, Alive))'
  BY SameCount
<1>3. TypeOK' /\ InHand' /\ OpenIsServed'
  BY DEF IInv, TypeOK, InHand, OpenIsServed
<1>4. ListenerCloses' /\ StopSteps' /\ RunningIsStarted'
  BY DEF IInv, ListenerCloses, Queued, StopSteps, RunningIsStarted
<1> QED
  BY <1>2, <1>3, <1>4 DEF IInv

\* The steps of the main goroutine that only wait or return: behind the wait no
\* goroutine is left.
LEMMA WaitKeeps ==
  ASSUME IInv,
         Cancel \/ ServeReturned \/ EndScan \/ ShutdownDone \/ Join \/ ShutdownExpired \/ Drained
  PROVE  IInv'
<1>1. /\ \/ main' = main
         \/ main' = "failed"
         \/ main = "scan" /\ main' = "wait"
         \/ main = "wait" /\ main' = "join" /\ wg = 0
         \/ main = "join" /\ main' = "stopped" /\ loop = "returned"
         \/ main = "wait" /\ main' = "closeAll"
         \/ main = "drain" /\ main' = "expired" /\ wg = 0
      /\ cancelled' \in {cancelled, TRUE}
      /\ UNCHANGED <<client, answer, open, loop, next, slots, stage, conns, wg, started, known, listening,
                     closed, scan, victim, running>>
  BY DEF Cancel, ServeReturned, EndScan, ShutdownDone, Join, ShutdownExpired, Drained, clients, table,
     flags, stopper
<1> USE <1>1
<1>2. Accounting' /\ IsFiniteSet(At(stage, Alive))'
  BY SameCount
<1>3. cancelled' \in BOOLEAN
  BY DEF IInv, TypeOK
<1>4. TypeOK' /\ InHand' /\ OpenIsServed'
  BY <1>3 DEF IInv, TypeOK, InHand, OpenIsServed
<1>5. ListenerCloses' /\ RunningIsStarted'
  BY DEF IInv, ListenerCloses, Queued, RunningIsStarted
<1>6. StopSteps'
  BY CountFacts DEF IInv, StopSteps
<1> QED
  BY <1>2, <1>4, <1>5, <1>6 DEF IInv

-----------------------------------------------------------------------------
(* The theorems. *)

\* Every state of the server satisfies the inductive invariant.
THEOREM Invariance == Spec => []IInv
<1>1. IInv /\ [Next]_vars => IInv'
  <2> SUFFICES ASSUME IInv, [Next]_vars PROVE IInv'
    OBVIOUS
  <2>1. ASSUME NEW c \in Conns, Connect(c) \/ Send(c) \/ Leave(c) \/ Goroutine(c) PROVE IInv'
    BY <2>1, ConnectKeeps, ClientKeeps, RequestKeeps, DeferredKeeps DEF Goroutine
  <2>2. CASE Loop
    BY <2>2, BeginKeeps, AcceptKeeps, AcceptEndKeeps, TakeSlotKeeps, RegisterKeeps DEF Loop
  <2>3. CASE Cancel \/ Main
    BY <2>3, ShutdownKeeps, ScanKeeps, WaitKeeps DEF Main
  <2>4. CASE UNCHANGED vars
    <3> USE <2>4 DEF vars, clients, table, flags, stopper
    <3>1. Accounting' /\ IsFiniteSet(At(stage, Alive))'
      BY SameCount
    <3>2. TypeOK' /\ InHand' /\ OpenIsServed'
      BY DEF IInv, TypeOK, InHand, OpenIsServed
    <3>3. ListenerCloses' /\ StopSteps' /\ RunningIsStarted'
      BY DEF IInv, ListenerCloses, Queued, StopSteps, RunningIsStarted
    <3> QED
      BY <3>1, <3>2, <3>3 DEF IInv
  <2> QED
    BY <2>1, <2>2, <2>3, <2>4 DEF Next
<1> QED
  BY <1>1, InitHolds, PTL DEF Spec

\* No path through serveConn or the accept loop loses a slot, a key of s.conns or
\* a count of s.wg, and no more than maxConnections connections are served.
THEOREM SlotsAreExact == Spec => []SlotsInv
<1>1. IInv => SlotsInv
  <2> SUFFICES ASSUME IInv PROVE SlotsInv
    OBVIOUS
  <2>1. open \ (Queued \cup {next}) \in SUBSET At(stage, Serving)
    BY DEF IInv, TypeOK, OpenIsServed, InHand, Queued, At, Serving
  <2>2. /\ IsFiniteSet(At(stage, Serving)) /\ Cardinality(At(stage, Serving)) \in Nat
        /\ slots = Cardinality(At(stage, Serving)) + (IF loop = "register" THEN 1 ELSE 0)
    BY CountFacts
  <2>3. /\ IsFiniteSet(open \ (Queued \cup {next}))
        /\ Cardinality(open \ (Queued \cup {next})) <= Cardinality(At(stage, Serving))
    BY <2>1, <2>2, FS_Subset
  <2>4. Cardinality(open \ (Queued \cup {next})) \in Nat
    BY <2>3, FS_CardinalityType
  <2>5. slots <= MaxConnections /\ slots \in Nat
    BY CapacityAssumption DEF IInv, TypeOK
  <2>6. ConnectionsBounded
    BY <2>2, <2>3, <2>4, <2>5, CapacityAssumption DEF ConnectionsBounded
  <2> QED
    BY <2>6 DEF IInv, SlotsInv
<1> QED
  BY <1>1, Invariance, PTL

\* A process that reports a stop runs no handler any more, and one that reports no
\* error has closed every connection, also those that came while it stopped.
THEOREM StopIsQuiet == Spec => []StoppedIsQuiet
<1>1. IInv => StoppedIsQuiet
  <2> SUFFICES ASSUME IInv PROVE StoppedIsQuiet
    OBVIOUS
  <2>1. main \in {"stopped", "expired"} => \A c \in Conns : stage[c] \notin Alive
    BY DEF IInv, StopSteps, At
  <2>2. ASSUME main = "stopped", NEW c \in open PROVE FALSE
    <3>1. c \in Conns /\ stage[c] \notin Alive /\ loop = "returned"
      BY <2>1, <2>2 DEF IInv, TypeOK, StopSteps
    <3>2. stage[c] \in {"queued", "taken"}
      BY <2>2, <3>1 DEF IInv, OpenIsServed, Alive, Tabled, Serving
    <3>3. stage[c] # "queued"
      BY <3>1 DEF IInv, ListenerCloses, Queued
    <3>4. stage[c] # "taken"
      BY <3>1, ConnsAssumption DEF IInv, InHand
    <3> QED
      BY <3>2, <3>3, <3>4
  <2> QED
    BY <2>1, <2>2 DEF StoppedIsQuiet
<1> QED
  BY <1>1, Invariance, PTL

\* Once Shutdown or Close waits for s.wg, nothing is added to it.
THEOREM WaitIsSafe == Spec => NoAddDuringWait
<1>1. IInv /\ [Next]_vars => [(main \in {"wait", "drain"} => wg' <= wg)]_vars
  <2> SUFFICES ASSUME IInv, Next, main \in {"wait", "drain"} PROVE wg' <= wg
    OBVIOUS
  <2>1. wg \in Nat /\ closed
    BY DEF IInv, TypeOK, StopSteps
  <2> USE DEF table
  <2>2. ASSUME NEW c \in Conns, Connect(c) \/ Send(c) \/ Leave(c) PROVE wg' <= wg
    BY <2>1, <2>2 DEF Connect, Send, Leave
  <2>3. ASSUME NEW c \in Conns, Goroutine(c) PROVE wg' <= wg
    BY <2>1, <2>3 DEF Goroutine, ReadRequest, ReadFails, StartHandler, HandlerReturns, Finish,
       ReleaseSlot, Forget, Done
  <2>4. CASE Loop
    <3>1. CASE Register
      <4>1. wg' = wg
        BY <2>1, <3>1 DEF Register
      <4> QED
        BY <2>1, <4>1
    <3>2. CASE Begin \/ Accept \/ AcceptClosed \/ AcceptFails \/ TakeSlot
      <4>1. wg' = wg
        BY <3>2 DEF Begin, Accept, AcceptClosed, AcceptFails, TakeSlot
      <4> QED
        BY <2>1, <4>1
    <3> QED
      BY <2>4, <3>1, <3>2 DEF Loop
  <2>5. CASE Cancel \/ Main
    <3>1. wg' = wg
      BY <2>5 DEF Cancel, Main, ServeReturned, Shutdown, Scan, CloseVictim, EndScan, ShutdownDone,
         Join, ShutdownExpired, Close, Drained
    <3> QED
      BY <2>1, <3>1
  <2> QED
    BY <2>2, <2>3, <2>4, <2>5 DEF Next
<1> QED
  BY <1>1, Invariance, PTL DEF Spec, NoAddDuringWait

\* A connection whose handler runs when Shutdown is called is closed only with its
\* response, or when the time for it is over.
THEOREM RunningHandlersFinish == Spec => RunningNotCutShort
<1> DEFINE Cut(c) == c \in open /\ c \notin open'
           Excused(c) == stage[c] = "finish" \/ main = "closeAll"
<1>1. IInv /\ [Next]_vars => [\A c \in running : Cut(c) => Excused(c)]_vars
  <2> SUFFICES ASSUME IInv, Next, NEW c \in running, Cut(c) PROVE Excused(c)
    OBVIOUS
  <2>1. /\ stage[c] \in {"handler", "finish", "release", "forget", "done", "end"}
        /\ c \in Conns /\ c # victim /\ running # {}
    BY DEF IInv, TypeOK, RunningIsStarted
  <2>2. ASSUME NEW d \in Conns, Connect(d) \/ Send(d) \/ Leave(d) PROVE Excused(c)
    BY <2>2 DEF Connect, Send, Leave
  <2>3. ASSUME NEW d \in Conns, Goroutine(d) PROVE Excused(c)
    BY <2>1, <2>3 DEF Goroutine, ReadRequest, ReadFails, StartHandler, HandlerReturns, Finish,
       ReleaseSlot, Forget, Done
  <2>4. CASE Loop
    <3>1. loop \in {"slot", "register"} => next \in Conns /\ stage[next] = "taken"
      BY ConnsAssumption DEF IInv, TypeOK, InHand
    <3> QED
      BY <2>1, <2>4, <3>1 DEF Loop, Begin, Accept, AcceptClosed, AcceptFails, TakeSlot, Register, Queued
  <2>5. CASE Cancel \/ Main
    <3>1. main # "serving"
      BY <2>1 DEF IInv, StopSteps
    <3> QED
      BY <2>1, <2>5, <3>1 DEF Cancel, Main, ServeReturned, Shutdown, Scan, CloseVictim, EndScan,
         ShutdownDone, Join, ShutdownExpired, Close, Drained
  <2> QED
    BY <2>2, <2>3, <2>4, <2>5 DEF Next
<1> QED
  BY <1>1, Invariance, PTL DEF Spec, RunningNotCutShort
=============================================================================
