------------------------ MODULE ControlServerProofs ------------------------
(***************************************************************************)
(* The order of execution, the truth of the answers and of the audit log   *)
(* and the life of the store, for any number of connections, any length of *)
(* the listen queue and any number of starts.                              *)
(***************************************************************************)
EXTENDS ControlServer, FiniteSetTheorems, TLAPS

Busy == {"read", "dispatch", "audit", "respond"}

\* The server has a connection in hand exactly while it handles one; a closed
\* listener queues nothing; a process that runs has its store; a connection has
\* its request.
ServerSteps ==
  /\ cur # Nobody <=> pc \in Busy
  /\ ~listening => backlog = <<>>
  /\ pc \in {"down", "returned"} => ~listening
  /\ pc # "down" => storeOpen
  /\ pc \in {"down", "accept", "read", "dispatch", "returned"} <=> response = "none"
  /\ pc = "dispatch" => Valid(request[cur])
  /\ \A c \in Range(dialed) : request[c] \in Requests

\* a comes before b in the sequence s.
Before(s, a, b) == \E k, l \in DOMAIN s : k < l /\ s[k] = a /\ s[l] = b

\* What was executed, what is in hand and what is queued follow each other in
\* the order of the connections, and no call is there twice.
InOrder ==
  /\ \A k, l \in DOMAIN dialed : dialed[k] = dialed[l] => k = l
  /\ Range(executed) \cup Queued \subseteq Range(dialed)
  /\ cur # Nobody => cur \in Range(dialed)
  /\ \A i, j \in DOMAIN executed : i < j => Before(dialed, executed[i], executed[j])
  /\ \A c \in Range(executed), d \in Queued : Before(dialed, c, d)
  /\ pc \in {"read", "dispatch"} => \A c \in Range(executed) : Before(dialed, c, cur)
  /\ cur # Nobody => \A d \in Queued : Before(dialed, cur, d)
  /\ \A i, j \in DOMAIN backlog : i < j => Before(dialed, backlog[i], backlog[j])
  /\ \A i, j \in DOMAIN backlog : backlog[i] = backlog[j] => i = j
  /\ cur \notin Queued

\* Nothing has been done for c.
Untouched(c) ==
  answer[c] = "none" /\ c \notin Range(executed) /\ c \notin applied /\ Records(c) = {}

\* Calls that the server has not dispatched have left no trace, and the one in
\* hand has no answer yet.
TracesAreLate ==
  /\ \A c \in Calls : state[c] = "idle" => c \notin Range(dialed) /\ Untouched(c)
  /\ \A c \in Queued : Untouched(c)
  /\ pc \in {"read", "dispatch"} => Untouched(cur)
  /\ pc = "audit" => Records(cur) = {}
  /\ cur # Nobody => answer[cur] = "none"

\* What response r says of call c.
Truth(c, r) ==
  /\ r = "ok" => c \in Range(executed) /\ (IsMutation(request[c]) => c \in applied)
  /\ r = "refused" => c \notin applied
  /\ r = "uncertain" => c \in applied /\ request[c] = "settings"
  /\ r = "invalid" => c \notin Range(executed)
  /\ r = "failed" /\ c \in applied => request[c] = "alert"

\* The answers given and the one in hand are true.
AnswersHold ==
  /\ applied \subseteq Range(executed)
  /\ \A c \in Calls : Truth(c, answer[c])
  /\ pc \in {"audit", "respond"} => Truth(cur, response)

\* A call has at most one record, and one that was executed has it before its
\* answer.
RecordsPrecedeAnswers ==
  /\ \A i, j \in DOMAIN audit : audit[i].call = audit[j].call => i = j
  /\ \A c \in Unaudited : answer[c] = "none"
  /\ pc = "respond" => cur \notin Unaudited

\* Each daemon that was killed has lost at most one record.
LostRecords == Cardinality(Unaudited \ {cur}) <= IF pc = "down" THEN starts ELSE starts - 1

IInv ==
  /\ TypeOK /\ ServerSteps /\ InOrder /\ TracesAreLate /\ AnswersHold
  /\ RecordsPrecedeAnswers /\ AuditIsTrue /\ LostRecords

-----------------------------------------------------------------------------
(* Sequences and finite sets. *)

\* What Append adds to a sequence.
LEMMA AppendFacts ==
  ASSUME NEW S, NEW s \in Seq(S), NEW e \in S
  PROVE  /\ Append(s, e) \in Seq(S)
         /\ Range(Append(s, e)) = Range(s) \cup {e}
         /\ DOMAIN Append(s, e) = 1 .. Len(s) + 1 /\ DOMAIN s = 1 .. Len(s) /\ Len(s) \in Nat
         /\ \A i \in DOMAIN s : i \in DOMAIN Append(s, e) /\ i < Len(s) + 1 /\ Append(s, e)[i] = s[i]
         /\ Append(s, e)[Len(s) + 1] = e
<1>1. /\ Append(s, e) \in Seq(S)
      /\ DOMAIN Append(s, e) = 1 .. Len(s) + 1 /\ DOMAIN s = 1 .. Len(s) /\ Len(s) \in Nat
      /\ \A i \in DOMAIN s : i \in DOMAIN Append(s, e) /\ i < Len(s) + 1 /\ Append(s, e)[i] = s[i]
      /\ Append(s, e)[Len(s) + 1] = e
  OBVIOUS
<1>2. Range(Append(s, e)) = Range(s) \cup {e}
  BY <1>1 DEF Range
<1> QED
  BY <1>1, <1>2

\* The head and the tail of a sequence without repetitions.
LEMMA TailFacts ==
  ASSUME NEW S, NEW s \in Seq(S), s # <<>>,
         \A i, j \in DOMAIN s : s[i] = s[j] => i = j
  PROVE  /\ Tail(s) \in Seq(S) /\ Head(s) \in S /\ Head(s) \in Range(s)
         /\ 1 \in DOMAIN s /\ Head(s) = s[1]
         /\ \A i \in DOMAIN Tail(s) : i + 1 \in DOMAIN s /\ 1 < i + 1 /\ Tail(s)[i] = s[i + 1]
         /\ \A i, j \in DOMAIN Tail(s) : i < j => i + 1 < j + 1
         /\ \A i, j \in DOMAIN Tail(s) : Tail(s)[i] = Tail(s)[j] => i = j
         /\ Range(Tail(s)) \subseteq Range(s) /\ Head(s) \notin Range(Tail(s))
<1>1. /\ Tail(s) \in Seq(S) /\ Head(s) \in S
      /\ 1 \in DOMAIN s /\ Head(s) = s[1]
      /\ DOMAIN Tail(s) = 1 .. Len(s) - 1 /\ DOMAIN s = 1 .. Len(s) /\ Len(s) \in Nat
      /\ \A i \in DOMAIN Tail(s) : i + 1 \in DOMAIN s /\ 1 < i + 1 /\ Tail(s)[i] = s[i + 1]
  OBVIOUS
<1>2. \A i, j \in DOMAIN Tail(s) : i < j => i + 1 < j + 1
  BY <1>1
<1>3. \A i, j \in DOMAIN Tail(s) : Tail(s)[i] = Tail(s)[j] => i = j
  BY <1>1
<1>4. Range(Tail(s)) \subseteq Range(s) /\ Head(s) \in Range(s) /\ Head(s) \notin Range(Tail(s))
  BY <1>1 DEF Range
<1> QED
  BY <1>1, <1>2, <1>3, <1>4

\* A sequence has finitely many elements.
LEMMA RangeIsFinite ==
  ASSUME NEW S, NEW s \in Seq(S)
  PROVE  IsFiniteSet(Range(s))
<1>1. DOMAIN s = 1 .. Len(s) /\ Len(s) \in Nat
  OBVIOUS
<1>2. IsFiniteSet(1 .. Len(s))
  BY <1>1, FS_Interval
<1>3. s \in Surjection(1 .. Len(s), Range(s))
  BY <1>1 DEF Range, Surjection
<1> QED
  BY <1>2, <1>3, FS_Surjection

\* A set without two elements.
LEMMA AtMostOne ==
  ASSUME NEW S, \A x, y \in S : x = y
  PROVE  IsFiniteSet(S) /\ Cardinality(S) <= 1
<1>1. CASE S = {}
  BY <1>1, FS_EmptySet
<1>2. ASSUME NEW x \in S PROVE IsFiniteSet(S) /\ Cardinality(S) <= 1
  <2>1. S = {x}
    BY <1>2
  <2>2. IsFiniteSet({x}) /\ Cardinality({x}) = 1
    BY FS_Singleton
  <2> QED
    BY <2>1, <2>2
<1> QED
  BY <1>1, <1>2

-----------------------------------------------------------------------------
(* The clients. *)

\* The initial states satisfy the invariant.
LEMMA InitHolds == ASSUME Init PROVE IInv
<1> USE DEF Init
<1>1. Range(executed) = {} /\ Range(dialed) = {} /\ Queued = {} /\ DOMAIN audit = {}
  BY DEF Range, Queued
<1>2. Unaudited = {} /\ \A c \in Calls : Records(c) = {}
  BY <1>1 DEF Unaudited, Records
<1>3. TypeOK
  <2>1. /\ state \in [Calls -> {"idle", "waiting", "answered", "failed"}]
        /\ request \in [Calls -> Requests \cup {"none"}]
        /\ wire \in [Calls -> {"none", "open", "sent", "closed"}]
        /\ answer \in [Calls -> Responses]
    BY DEF Responses
  <2>2. starts \in 0 .. MaxStarts
    BY LimitsAssumption
  <2>3. backlog \in Seq(Calls) /\ dialed \in Seq(Calls) /\ executed \in Seq(Calls)
    OBVIOUS
  <2>4. audit \in Seq([call : Calls, outcome : {"success", "applied_with_warning", "failure"}])
    OBVIOUS
  <2>5. listening \in BOOLEAN /\ stopping \in BOOLEAN /\ storeOpen \in BOOLEAN
    OBVIOUS
  <2>6. /\ pc \in {"down", "accept", "read", "dispatch", "audit", "respond", "returned"}
        /\ cur \in Calls \cup {Nobody} /\ response \in Responses /\ applied \in SUBSET Calls
    BY DEF Responses
  <2> QED
    BY <2>1, <2>2, <2>3, <2>4, <2>5, <2>6 DEF TypeOK
<1>4. ServerSteps
  BY <1>1 DEF ServerSteps, Busy
<1>5. InOrder /\ TracesAreLate /\ AnswersHold
  BY <1>1, <1>2, CallsAssumption DEF InOrder, TracesAreLate, AnswersHold, Untouched, Truth
<1>6. RecordsPrecedeAnswers /\ AuditIsTrue
  BY <1>1, <1>2 DEF RecordsPrecedeAnswers, AuditIsTrue
<1>7. LostRecords
  BY <1>2, FS_EmptySet DEF LostRecords
<1> QED
  BY <1>3, <1>4, <1>5, <1>6, <1>7 DEF IInv

\* A client that only looks at its own end: what the server has done stays.
LEMMA ClientEndKeeps ==
  ASSUME IInv, NEW c \in Calls,
         Send(c) \/ GiveUp(c) \/ Receive(c)
  PROVE  IInv'
<1>1. /\ UNCHANGED <<request, queue, stopping, storeOpen, pc, cur, response, effects, audit, starts>>
      /\ state' \in [Calls -> {"idle", "waiting", "answered", "failed"}]
      /\ wire' \in [Calls -> {"none", "open", "sent", "closed"}]
      /\ answer' \in [Calls -> Responses]
      /\ \A d \in Calls : state'[d] = "idle" => state[d] = "idle"
      /\ \A d \in Calls : answer'[d] \in {"none", answer[d]}
  <2> USE DEF IInv, TypeOK, Responses
  <2>1. CASE Send(c)
    BY <2>1 DEF Send
  <2>2. CASE GiveUp(c)
    BY <2>2 DEF GiveUp
  <2>3. CASE Receive(c)
    BY <2>3 DEF Receive
  <2> QED
    BY <2>1, <2>2, <2>3
<1> USE <1>1 DEF IInv, queue, effects
<1>2. TypeOK'
  BY DEF TypeOK
<1>3. ServerSteps' /\ InOrder' /\ AuditIsTrue' /\ LostRecords'
  BY DEF ServerSteps, InOrder, Before, Queued, AuditIsTrue, LostRecords, Unaudited, Records
<1>4. \A d : Untouched(d) /\ d \in Calls => Untouched(d)'
  BY DEF Untouched, Records
<1>5. TracesAreLate'
  <2>1. Queued \subseteq Calls /\ (cur = Nobody \/ cur \in Calls)
    BY DEF TypeOK, Queued, Range
  <2>2. Queued' = Queued /\ Records(cur)' = Records(cur)
    BY DEF Queued, Records
  <2> QED
    BY <1>4, <2>1, <2>2 DEF TracesAreLate, ServerSteps, Busy
<1>6. AnswersHold'
  BY DEF AnswersHold, Truth
<1>7. RecordsPrecedeAnswers'
  <2>1. Unaudited' = Unaudited /\ Unaudited \subseteq Calls
    BY DEF Unaudited, Records, TypeOK, Range
  <2> QED
    BY <2>1 DEF RecordsPrecedeAnswers
<1> QED
  BY <1>2, <1>3, <1>5, <1>6, <1>7

\* A new connection comes after all the others; one that is refused is nowhere.
LEMMA DialKeeps == ASSUME IInv, NEW c \in Calls, NEW r \in Requests, Dial(c, r) PROVE IInv'
<1> USE DEF IInv
<1>1. c \notin Range(dialed) /\ Untouched(c) /\ state[c] = "idle"
  BY DEF Dial, TracesAreLate
<1>2. c \notin Queued /\ c \notin Range(executed) /\ c # cur
  BY <1>1, CallsAssumption DEF InOrder
<1>3. CASE listening /\ Len(backlog) < Backlog
  <2> USE <1>3
  <2>1. /\ state' = [state EXCEPT ![c] = "waiting"]
        /\ request' = [request EXCEPT ![c] = r]
        /\ wire' = [wire EXCEPT ![c] = "open"]
        /\ backlog' = Append(backlog, c)
        /\ dialed' = Append(dialed, c)
        /\ UNCHANGED <<answer, listening, stopping, storeOpen, pc, cur, response, executed,
                       applied, audit, starts>>
    BY DEF Dial, effects
  <2> HIDE DEF IInv
  <2> USE <2>1
  <2>2. TypeOK'
    BY AppendFacts DEF IInv, TypeOK
  <2>3. /\ Range(dialed') = Range(dialed) \cup {c} /\ Queued' = Queued \cup {c}
        /\ DOMAIN backlog' = 1 .. Len(backlog) + 1 /\ DOMAIN backlog = 1 .. Len(backlog)
        /\ Len(backlog) \in Nat /\ backlog'[Len(backlog) + 1] = c
        /\ \A i \in DOMAIN backlog : backlog'[i] = backlog[i]
    BY AppendFacts DEF IInv, TypeOK, Queued
  <2>4. /\ \A k \in DOMAIN dialed : k \in DOMAIN dialed' /\ k < Len(dialed) + 1 /\ dialed'[k] = dialed[k]
        /\ Len(dialed) + 1 \in DOMAIN dialed' /\ dialed'[Len(dialed) + 1] = c
        /\ \A k \in DOMAIN dialed' : k \in DOMAIN dialed \/ k = Len(dialed) + 1
    BY AppendFacts DEF IInv, TypeOK
  <2>5. \A a, b : Before(dialed, a, b) => Before(dialed', a, b)
    BY <2>4 DEF Before
  <2>6. \A a \in Range(dialed) : Before(dialed', a, c)
    BY <2>4 DEF Before, Range
  <2>7. \A d \in Calls : d # c => request'[d] = request[d] /\ state'[d] = state[d]
    BY DEF IInv, TypeOK
  <2>8. ServerSteps'
    BY <1>2, <2>3, <2>7, CallsAssumption DEF IInv, ServerSteps, TypeOK, Busy, Range
  <2>9. InOrder'
    <3>1. /\ Range(executed') \cup Queued' \subseteq Range(dialed')
          /\ cur' # Nobody => cur' \in Range(dialed')
          /\ cur' \notin Queued'
      BY <1>2, <2>3 DEF IInv, InOrder
    <3>2. \A i, j \in DOMAIN executed' : i < j => Before(dialed', executed'[i], executed'[j])
      BY <2>5 DEF IInv, InOrder
    <3>3. \A a \in Range(executed'), d \in Queued' : Before(dialed', a, d)
      BY <2>3, <2>5, <2>6 DEF IInv, InOrder
    <3>4. /\ pc' \in {"read", "dispatch"} => \A a \in Range(executed') : Before(dialed', a, cur')
          /\ cur' # Nobody => \A d \in Queued' : Before(dialed', cur', d)
      BY <2>3, <2>5, <2>6 DEF IInv, InOrder
    <3>5. \A i, j \in DOMAIN backlog' : i < j => Before(dialed', backlog'[i], backlog'[j])
      <4> SUFFICES ASSUME NEW i \in DOMAIN backlog', NEW j \in DOMAIN backlog', i < j
                   PROVE  Before(dialed', backlog'[i], backlog'[j])
        OBVIOUS
      <4>1. i \in DOMAIN backlog /\ backlog[i] \in Range(dialed)
        <5>1. i \in DOMAIN backlog
          BY <2>3
        <5>2. backlog[i] \in Queued /\ Queued \subseteq Range(dialed)
          BY <5>1 DEF IInv, InOrder, Queued, Range
        <5> QED
          BY <5>1, <5>2
      <4>2. CASE j = Len(backlog) + 1
        BY <4>1, <4>2, <2>3, <2>6
      <4>3. CASE j \in DOMAIN backlog
        BY <4>1, <4>3, <2>3, <2>5 DEF IInv, InOrder
      <4> QED
        BY <4>2, <4>3, <2>3
    <3>6. \A i, j \in DOMAIN backlog' : backlog'[i] = backlog'[j] => i = j
      BY <1>2, <2>3 DEF IInv, InOrder, Queued, Range
    <3>7. \A k, l \in DOMAIN dialed' : dialed'[k] = dialed'[l] => k = l
      BY <1>1, <2>4 DEF IInv, InOrder, Range
    <3> QED
      BY <3>1, <3>2, <3>3, <3>4, <3>5, <3>6, <3>7 DEF InOrder
  <2>10. TracesAreLate'
    BY <1>1, <1>2, <2>3, <2>7 DEF IInv, TracesAreLate, Untouched, Records, TypeOK
  <2>11. AnswersHold'
    BY <1>1, <1>2, <2>7 DEF IInv, AnswersHold, Truth, Untouched, TypeOK
  <2>12. Unaudited' = Unaudited
    BY <1>2, <2>7, AppendFacts DEF IInv, Unaudited, Records, TypeOK, Range
  <2>13. RecordsPrecedeAnswers' /\ LostRecords'
    BY <2>12 DEF IInv, RecordsPrecedeAnswers, LostRecords
  <2>14. AuditIsTrue'
    BY <1>1, <2>7 DEF IInv, AuditIsTrue, Untouched, Records, TypeOK
  <2> QED
    BY <2>2, <2>8, <2>9, <2>10, <2>11, <2>13, <2>14 DEF IInv
<1>4. CASE ~(listening /\ Len(backlog) < Backlog)
  <2> USE <1>4 DEF Dial, effects
  <2>1. TypeOK'
    BY DEF TypeOK
  <2>2. Queued' = Queued /\ Unaudited' = Unaudited
    BY DEF Queued, Unaudited, Records
  <2>4. ServerSteps' /\ InOrder' /\ RecordsPrecedeAnswers' /\ LostRecords'
    BY <2>2 DEF ServerSteps, InOrder, RecordsPrecedeAnswers, LostRecords
  <2>5. AnswersHold' /\ AuditIsTrue'
    BY DEF AnswersHold, Truth, AuditIsTrue
  <2>3. TracesAreLate'
    BY DEF TracesAreLate, Untouched, Records, Queued, TypeOK
  <2> QED
    BY <2>1, <2>3, <2>4, <2>5
<1> QED
  BY <1>3, <1>4

-----------------------------------------------------------------------------
(* The server. *)

\* The connection that is taken comes before the ones still queued, and nothing
\* has been done for it.
LEMMA AcceptKeeps == ASSUME IInv, Accept PROVE IInv'
<1>1. /\ pc = "accept" /\ backlog # <<>> /\ cur' = Head(backlog) /\ backlog' = Tail(backlog)
      /\ pc' = "read" /\ cur = Nobody
      /\ UNCHANGED <<state, request, wire, answer, response, executed, applied, audit, listening,
                     dialed, stopping, storeOpen, starts>>
  BY DEF Accept, Serving, clients, effects, IInv, ServerSteps, Busy
<1>2. backlog \in Seq(Calls) /\ \A i, j \in DOMAIN backlog : backlog[i] = backlog[j] => i = j
  BY DEF IInv, TypeOK, InOrder
<1>3. /\ Tail(backlog) \in Seq(Calls) /\ Head(backlog) \in Calls /\ Head(backlog) \in Range(backlog)
      /\ 1 \in DOMAIN backlog /\ Head(backlog) = backlog[1]
      /\ \A i \in DOMAIN Tail(backlog) :
           i + 1 \in DOMAIN backlog /\ 1 < i + 1 /\ Tail(backlog)[i] = backlog[i + 1]
      /\ \A i, j \in DOMAIN Tail(backlog) : i < j => i + 1 < j + 1
      /\ \A i, j \in DOMAIN Tail(backlog) : Tail(backlog)[i] = Tail(backlog)[j] => i = j
      /\ Range(Tail(backlog)) \subseteq Range(backlog) /\ Head(backlog) \notin Range(Tail(backlog))
  BY <1>1, <1>2, TailFacts
<1> USE <1>1 DEF IInv
<1>4. cur' \in Queued /\ cur' \in Calls /\ cur' # Nobody /\ Queued' \subseteq Queued /\ cur' \notin Queued'
  BY <1>3, CallsAssumption DEF Queued
<1>5. TypeOK'
  BY <1>3 DEF TypeOK
<1>6. ServerSteps'
  BY <1>4 DEF ServerSteps, Busy
<1>7. InOrder'
  <2>1. \A d \in Queued' : Before(dialed, cur', d)
    BY <1>3 DEF InOrder, Queued, Range
  <2>2. \A i, j \in DOMAIN backlog' : i < j => Before(dialed, backlog'[i], backlog'[j])
    BY <1>3 DEF InOrder
  <2> QED
    BY <1>3, <1>4, <2>1, <2>2 DEF InOrder
<1>8. TracesAreLate'
  BY <1>4 DEF TracesAreLate, Untouched, Records
<1>9. AnswersHold' /\ AuditIsTrue'
  BY DEF AnswersHold, Truth, AuditIsTrue
<1>10. Unaudited' = Unaudited /\ Unaudited \ {cur'} = Unaudited \ {cur}
  BY <1>4, CallsAssumption DEF Unaudited, Records, TracesAreLate, Untouched, TypeOK, Range
<1>11. RecordsPrecedeAnswers' /\ LostRecords'
  BY <1>10 DEF RecordsPrecedeAnswers, LostRecords
<1> QED
  BY <1>5, <1>6, <1>7, <1>8, <1>9, <1>11

\* A request is dispatched only when it is valid; every other one gets an answer
\* that says so, and has not been executed.
LEMMA ReadKeeps == ASSUME IInv, ReadRequest \/ ReadTimeout PROVE IInv'
<1>1. /\ pc = "read"
      /\ \/ pc' = "dispatch" /\ response' = "none" /\ Valid(request[cur])
         \/ pc' \in {"audit", "respond"} /\ response' = "invalid"
      /\ UNCHANGED <<state, request, wire, answer, backlog, cur, executed, applied, audit, listening,
                     dialed, stopping, storeOpen, starts>>
  <2>1. CASE ReadTimeout
    BY <2>1 DEF ReadTimeout, Serving, clients, effects
  <2>2. CASE ReadRequest
    <3>1. cur \in Calls /\ pc = "read" /\ request[cur] \in Requests \cup {"none"}
      BY <2>2 DEF ReadRequest, IInv, TypeOK, ServerSteps, Busy
    <3>2. request[cur] # "none"
      BY <3>1, RequestsAssumption DEF IInv, ServerSteps, InOrder, Busy
    <3> QED
      BY <2>2, <3>1, <3>2, RequestsAssumption DEF ReadRequest, Serving, clients, effects, Valid
  <2> QED
    BY <2>1, <2>2
<1> USE <1>1 DEF IInv
<1>2. TypeOK' /\ ServerSteps'
  BY DEF TypeOK, Responses, ServerSteps, Busy
<1>3. Queued' = Queued /\ Unaudited' = Unaudited /\ cur \notin Unaudited
  BY DEF Queued, Unaudited, Records, TracesAreLate, Untouched
<1>4. InOrder'
  BY <1>3 DEF InOrder
<1>5. TracesAreLate' /\ AnswersHold'
  BY <1>3 DEF TracesAreLate, Untouched, Records, AnswersHold, Truth
<1>6. RecordsPrecedeAnswers' /\ AuditIsTrue' /\ LostRecords'
  BY <1>3 DEF RecordsPrecedeAnswers, AuditIsTrue, LostRecords
<1> QED
  BY <1>2, <1>4, <1>5, <1>6

\* What was dispatched is executed after everything dispatched before, and its
\* response says what became of it.
LEMMA DispatchKeeps == ASSUME IInv, DispatchAlert \/ DispatchSettings PROVE IInv'
<1>1. /\ pc = "dispatch" /\ pc' = "audit" /\ executed' = Append(executed, cur)
      /\ applied \subseteq applied' /\ applied' \subseteq applied \cup {cur}
      /\ response' \in {"ok", "failed", "refused", "uncertain"}
      /\ response' = "ok" /\ IsMutation(request[cur]) => cur \in applied'
      /\ response' = "refused" => applied' = applied
      /\ response' = "uncertain" => cur \in applied' /\ request[cur] = "settings"
      /\ response' = "failed" => applied' = applied \/ request[cur] = "alert"
      /\ UNCHANGED <<state, request, wire, answer, backlog, cur, audit, listening, dialed, stopping,
                     storeOpen, starts>>
  <2>0. pc = "dispatch" => Valid(request[cur])
    BY DEF IInv, ServerSteps
  <2>1. CASE DispatchAlert
    BY <2>0, <2>1 DEF DispatchAlert, Executed, Serving, clients, Valid, IsMutation
  <2>2. CASE DispatchSettings
    BY <2>2 DEF DispatchSettings, Executed, Serving, clients, IsMutation
  <2> QED
    BY <2>1, <2>2
<1> USE <1>1 DEF IInv
<1>2. cur \in Calls /\ cur # Nobody /\ Untouched(cur) /\ cur \notin Queued /\ executed \in Seq(Calls)
  BY DEF TypeOK, ServerSteps, Busy, TracesAreLate, InOrder
<1>3. /\ executed' \in Seq(Calls) /\ Range(executed') = Range(executed) \cup {cur}
      /\ DOMAIN executed' = 1 .. Len(executed) + 1 /\ DOMAIN executed = 1 .. Len(executed)
      /\ Len(executed) \in Nat /\ executed'[Len(executed) + 1] = cur
      /\ \A i \in DOMAIN executed : executed'[i] = executed[i]
  BY <1>2, AppendFacts
<1>4. TypeOK' /\ ServerSteps'
  BY <1>2, <1>3 DEF TypeOK, Responses, ServerSteps, Busy
<1>5. Queued' = Queued /\ \A c : Records(c)' = Records(c)
  BY DEF Queued, Records
<1>6. InOrder'
  <2>1. \A i, j \in DOMAIN executed' : i < j => Before(dialed, executed'[i], executed'[j])
    <3> SUFFICES ASSUME NEW i \in DOMAIN executed', NEW j \in DOMAIN executed', i < j
                 PROVE  Before(dialed, executed'[i], executed'[j])
      OBVIOUS
    <3>1. i \in DOMAIN executed
      BY <1>3
    <3>2. CASE j = Len(executed) + 1
      BY <1>3, <3>1, <3>2 DEF InOrder, Range
    <3>3. CASE j \in DOMAIN executed
      BY <1>3, <3>1, <3>3 DEF InOrder
    <3> QED
      BY <1>3, <3>2, <3>3
  <2> QED
    BY <1>2, <1>3, <1>5, <2>1 DEF InOrder
<1>7. TracesAreLate'
  <2>1. \A c : c # cur /\ Untouched(c) => Untouched(c)'
    BY <1>3, <1>5 DEF Untouched
  <2>2. \A c \in Calls : state[c] = "idle" => c # cur
    BY <1>2 DEF TracesAreLate, InOrder
  <2> QED
    BY <1>2, <1>5, <2>1, <2>2 DEF TracesAreLate, Untouched
<1>8. AnswersHold'
  <2>1. \A c \in Calls : Truth(c, answer[c])'
    BY <1>2, <1>3 DEF AnswersHold, Truth, Untouched
  <2>2. Truth(cur, response)'
    BY <1>2, <1>3 DEF Truth, Untouched
  <2> QED
    BY <1>3, <2>1, <2>2 DEF AnswersHold
<1>9. Unaudited \ {cur} = Unaudited' \ {cur} /\ Unaudited' \subseteq Unaudited \cup {cur}
  BY <1>3, <1>5 DEF Unaudited
<1>10. RecordsPrecedeAnswers' /\ LostRecords'
  BY <1>2, <1>9 DEF RecordsPrecedeAnswers, LostRecords, Untouched
<1>11. AuditIsTrue'
  BY <1>2 DEF AuditIsTrue, Untouched, Records
<1> QED
  BY <1>4, <1>6, <1>7, <1>8, <1>10, <1>11

\* The record says what the response in hand says, and is the first one of its
\* call.
LEMMA WriteAuditKeeps == ASSUME IInv, WriteAudit PROVE IInv'
<1> DEFINE record == [call |-> cur, outcome |-> Outcome]
           AuditRecords == [call : Calls, outcome : {"success", "applied_with_warning", "failure"}]
<1>1. /\ pc = "audit" /\ pc' = "respond"
      /\ audit' = IF IsMutation(request[cur]) THEN Append(audit, record) ELSE audit
      /\ UNCHANGED <<state, request, wire, answer, backlog, cur, response, executed, applied,
                     listening, dialed, stopping, storeOpen, starts>>
  BY DEF WriteAudit, Serving, clients, effects
<1> USE <1>1 DEF IInv
<1>2. cur \in Calls /\ cur # Nobody /\ Records(cur) = {} /\ answer[cur] = "none" /\ response # "none"
  BY DEF TypeOK, ServerSteps, Busy, TracesAreLate
<1>3. cur \in Range(dialed) /\ cur \notin Queued /\ state[cur] # "idle"
  BY <1>2 DEF InOrder, TracesAreLate
<1>4. record \in AuditRecords /\ record.call = cur /\ record.outcome = Outcome
  BY <1>2 DEF Outcome
<1>5. /\ audit' \in Seq(AuditRecords)
      /\ \A i \in DOMAIN audit : i \in DOMAIN audit' /\ audit'[i] = audit[i]
      /\ \A i \in DOMAIN audit' \ DOMAIN audit :
           i = Len(audit) + 1 /\ audit'[i] = record /\ IsMutation(request[cur])
      /\ IsMutation(request[cur]) => Len(audit) + 1 \in DOMAIN audit' /\ audit'[Len(audit) + 1] = record
  <2>1. audit \in Seq(AuditRecords)
    BY DEF TypeOK
  <2> HIDE DEF record, AuditRecords
  <2>2. CASE IsMutation(request[cur])
    BY <1>4, <2>1, <2>2, AppendFacts
  <2>3. CASE ~IsMutation(request[cur])
    BY <2>1, <2>3
  <2> QED
    BY <2>2, <2>3
<1>6. /\ \A c : c # cur => Records(c)' = Records(c)
      /\ IsMutation(request[cur]) => Records(cur)' # {}
      /\ Queued' = Queued
  BY <1>4, <1>5 DEF Records, Queued
<1>7. TypeOK' /\ ServerSteps'
  BY <1>5 DEF TypeOK, ServerSteps, Busy
<1>8. InOrder'
  BY <1>6 DEF InOrder
<1>9. TracesAreLate'
  <2>1. \A c : c # cur /\ Untouched(c) => Untouched(c)'
    BY <1>6 DEF Untouched
  <2> QED
    BY <1>2, <1>3, <1>6, <2>1 DEF TracesAreLate
<1>10. AnswersHold'
  BY DEF AnswersHold, Truth
<1>11. Unaudited' = Unaudited \ {cur}
  <2>1. \A c \in Range(executed) : c # cur => (c \in Unaudited' <=> c \in Unaudited)
    BY <1>6 DEF Unaudited
  <2>2. cur \notin Unaudited'
    BY <1>6 DEF Unaudited
  <2> QED
    BY <2>1, <2>2 DEF Unaudited
<1>12. RecordsPrecedeAnswers'
  <2>1. \A i, j \in DOMAIN audit' : audit'[i].call = audit'[j].call => i = j
    <3>1. \A i \in DOMAIN audit : audit[i].call # cur
      BY <1>2 DEF Records
    <3> QED
      BY <1>4, <1>5, <3>1 DEF RecordsPrecedeAnswers
  <2> QED
    BY <1>11, <2>1 DEF RecordsPrecedeAnswers
<1>13. LostRecords'
  <2>1. Unaudited' \ {cur'} = Unaudited \ {cur}
    BY <1>11
  <2> QED
    BY <2>1 DEF LostRecords
<1>14. AuditIsTrue'
  <2>1. /\ IsMutation(request[cur]) /\ Outcome # "failure" => cur \in applied
        /\ IsMutation(request[cur]) /\ Outcome = "failure" /\ cur \in applied => request[cur] = "alert"
    BY <1>2 DEF AnswersHold, Truth, Outcome, TypeOK, Responses
  <2> QED
    BY <1>4, <1>5, <2>1 DEF AuditIsTrue
<1> QED
  BY <1>7, <1>8, <1>9, <1>10, <1>12, <1>13, <1>14

\* The client, if it still waits, gets the response in hand.
LEMMA RespondKeeps == ASSUME IInv, Respond PROVE IInv'
<1>1. /\ pc = "respond" /\ pc' = "accept" /\ cur' = Nobody /\ response' = "none"
      /\ wire' = [wire EXCEPT ![cur] = "none"]
      /\ answer' = [answer EXCEPT ![cur] = response] \/ answer' = answer
      /\ UNCHANGED <<state, request, backlog, executed, applied, audit, listening, dialed, stopping,
                     storeOpen, starts>>
  BY DEF Respond, Serving, effects
<1> USE <1>1 DEF IInv
<1>2. cur \in Calls /\ cur # Nobody /\ cur \notin Queued /\ state[cur] # "idle" /\ cur \notin Unaudited
  BY DEF TypeOK, ServerSteps, Busy, InOrder, TracesAreLate, RecordsPrecedeAnswers
<1>3. \A c \in Calls : c # cur => answer'[c] = answer[c]
  BY <1>2 DEF TypeOK
<1>4. answer'[cur] \in {response, answer[cur]}
  BY <1>2 DEF TypeOK
<1>5. TypeOK'
  BY <1>2 DEF TypeOK, Responses
<1>6. ServerSteps'
  BY <1>2 DEF ServerSteps, Busy
<1>7. Queued' = Queued /\ Unaudited' = Unaudited /\ Queued \subseteq Calls /\ Nobody \notin Queued
  BY CallsAssumption DEF Queued, Unaudited, Records, TypeOK, Range
<1>8. InOrder'
  BY <1>7 DEF InOrder
<1>9. TracesAreLate'
  <2>1. \A c \in Calls : c # cur /\ Untouched(c) => Untouched(c)'
    BY <1>3 DEF Untouched, Records
  <2> QED
    BY <1>2, <1>7, <2>1 DEF TracesAreLate
<1>10. AnswersHold'
  <2>1. Truth(cur, answer[cur]) /\ Truth(cur, response)
    BY <1>2 DEF AnswersHold
  <2> QED
    BY <1>2, <1>3, <1>4, <2>1 DEF AnswersHold, Truth
<1>11. RecordsPrecedeAnswers' /\ LostRecords'
  <2>1. Unaudited \subseteq Calls /\ Nobody \notin Unaudited
    BY CallsAssumption DEF Unaudited, TypeOK, Range
  <2>2. Unaudited' \ {cur'} = Unaudited \ {cur}
    BY <1>2, <1>7, <2>1
  <2> QED
    BY <1>2, <1>3, <1>7, <2>1, <2>2 DEF RecordsPrecedeAnswers, LostRecords
<1>12. AuditIsTrue'
  BY DEF AuditIsTrue
<1> QED
  BY <1>5, <1>6, <1>8, <1>9, <1>10, <1>11, <1>12

-----------------------------------------------------------------------------
(* Starting and stopping. *)

\* A cancelled context, a closed listener, a returned server: the queue may be
\* lost, and nothing that was done changes.
LEMMA StopKeeps == ASSUME IInv, Cancel \/ Watch \/ AcceptFails \/ CloseStore PROVE IInv'
<1>1. /\ UNCHANGED <<request, answer, dialed, cur, response, executed, applied, audit, starts>>
      /\ state' \in [Calls -> {"idle", "waiting", "answered", "failed"}]
      /\ wire' \in [Calls -> {"none", "open", "sent", "closed"}]
      /\ \A c \in Calls : state'[c] = "idle" => state[c] = "idle"
      /\ backlog' \in {backlog, <<>>}
      /\ ~listening' => backlog' = <<>>
      /\ listening' => listening
      /\ \/ pc' = pc /\ storeOpen' = storeOpen
         \/ pc = "accept" /\ pc' = "returned" /\ storeOpen' = storeOpen /\ ~listening'
         \/ pc = "returned" /\ pc' = "down" /\ storeOpen' = FALSE
  <2> USE DEF IInv, TypeOK, ServerSteps
  <2>1. CASE Cancel
    BY <2>1 DEF Cancel, clients, queue, effects
  <2>2. CASE Watch
    BY <2>2 DEF Watch, CloseListener, Reset, effects
  <2>3. CASE AcceptFails
    BY <2>3 DEF AcceptFails, CloseListener, Reset, effects
  <2>4. CASE CloseStore
    BY <2>4 DEF CloseStore, clients, queue, effects
  <2> QED
    BY <2>1, <2>2, <2>3, <2>4
<1>2. listening' \in BOOLEAN /\ stopping' \in BOOLEAN /\ storeOpen' \in BOOLEAN
  BY DEF IInv, TypeOK, Cancel, Watch, AcceptFails, CloseStore, CloseListener, queue
<1> USE <1>1 DEF IInv
<1>3. TypeOK'
  <2>1. backlog' \in Seq(Calls)
    <3>1. backlog \in Seq(Calls) /\ <<>> \in Seq(Calls)
      BY DEF TypeOK
    <3>2. CASE backlog' = backlog
      BY <3>1, <3>2
    <3>3. CASE backlog' = <<>>
      BY <3>1, <3>3
    <3> QED
      BY <3>2, <3>3
  <2>2. pc' \in {"down", "accept", "read", "dispatch", "audit", "respond", "returned"}
    BY DEF TypeOK
  <2> QED
    BY <1>2, <2>1, <2>2 DEF TypeOK
<1>4. ServerSteps'
  BY DEF ServerSteps, Busy
<1>5. Queued' \subseteq Queued /\ Unaudited' = Unaudited /\ \A c : Records(c)' = Records(c)
  BY DEF Queued, Range, Unaudited, Records
<1>6. InOrder'
  <2>1. /\ \A i, j \in DOMAIN backlog' : i < j => Before(dialed, backlog'[i], backlog'[j])
        /\ \A i, j \in DOMAIN backlog' : backlog'[i] = backlog'[j] => i = j
    <3>1. CASE backlog' = backlog
      BY <3>1 DEF InOrder
    <3>2. CASE backlog' = <<>>
      BY <3>2
    <3> QED
      BY <3>1, <3>2
  <2>2. pc' \in {"read", "dispatch"} => pc' = pc
    OBVIOUS
  <2> QED
    BY <1>5, <2>1, <2>2 DEF InOrder
<1>7. TracesAreLate' /\ AnswersHold'
  BY <1>5 DEF TracesAreLate, Untouched, AnswersHold, Truth
<1>8. RecordsPrecedeAnswers' /\ AuditIsTrue'
  BY <1>5 DEF RecordsPrecedeAnswers, AuditIsTrue
<1>9. LostRecords'
  <2>1. Unaudited \in SUBSET Range(executed)
    BY DEF Unaudited
  <2>2. IsFiniteSet(Unaudited \ {cur})
    BY <2>1, RangeIsFinite, FS_Subset, FS_RemoveElement DEF TypeOK
  <2>3. Cardinality(Unaudited \ {cur}) \in Nat /\ starts \in Nat
    BY <2>2, FS_CardinalityType DEF TypeOK
  <2> QED
    BY <1>5, <2>3 DEF LostRecords
<1> QED
  BY <1>3, <1>4, <1>6, <1>7, <1>8, <1>9

\* A kill loses the queue, the call in hand and at most its record.
LEMMA KillKeeps == ASSUME IInv, Kill PROVE IInv'
<1>1. /\ pc # "down" /\ pc' = "down" /\ ~listening' /\ backlog' = <<>> /\ cur' = Nobody
      /\ response' = "none" /\ storeOpen' = FALSE /\ listening' = FALSE
      /\ UNCHANGED <<request, answer, dialed, stopping, executed, applied, audit, starts>>
      /\ state' \in [Calls -> {"idle", "waiting", "answered", "failed"}]
      /\ wire' \in [Calls -> {"none", "open", "sent", "closed"}]
      /\ \A c \in Calls : state'[c] = "idle" => state[c] = "idle"
  BY DEF Kill, Reset, effects, IInv, TypeOK
<1> USE <1>1 DEF IInv
<1>2. TypeOK'
  <2>1. backlog' \in Seq(Calls) /\ cur' \in Calls \cup {Nobody} /\ response' \in Responses
    BY DEF Responses
  <2>2. listening' \in BOOLEAN /\ storeOpen' \in BOOLEAN
    OBVIOUS
  <2> QED
    BY <2>1, <2>2 DEF TypeOK
<1>3. ServerSteps'
  BY DEF ServerSteps, Busy
<1>4. Queued' = {} /\ Unaudited' = Unaudited /\ \A c : Records(c)' = Records(c)
  BY DEF Queued, Range, Unaudited, Records
<1>5. InOrder'
  BY <1>4 DEF InOrder
<1>6. TracesAreLate' /\ AnswersHold'
  BY <1>4 DEF TracesAreLate, Untouched, AnswersHold, Truth
<1>7. RecordsPrecedeAnswers' /\ AuditIsTrue'
  BY <1>4 DEF RecordsPrecedeAnswers, AuditIsTrue
<1>8. LostRecords'
  <2>1. Unaudited \in SUBSET Range(executed) /\ IsFiniteSet(Range(executed))
    BY RangeIsFinite DEF Unaudited, TypeOK
  <2>2. IsFiniteSet(Unaudited)
    BY <2>1, FS_Subset
  <2>3. Cardinality(Unaudited) \in Nat
    BY <2>2, FS_CardinalityType
  <2>5. Cardinality(Unaudited \ {cur}) = IF cur \in Unaudited THEN Cardinality(Unaudited) - 1
                                        ELSE Cardinality(Unaudited)
    BY <2>2, FS_RemoveElement
  <2>6. starts \in Nat /\ Cardinality(Unaudited \ {cur}) <= starts - 1
    BY DEF TypeOK, LostRecords
  <2>4. Unaudited' \ {cur'} = Unaudited
    BY <1>4, CallsAssumption DEF Unaudited, TypeOK, Range
  <2>7. Cardinality(Unaudited) <= starts
    BY <2>3, <2>5, <2>6
  <2> QED
    BY <2>4, <2>7 DEF LostRecords
<1> QED
  BY <1>2, <1>3, <1>5, <1>6, <1>7, <1>8

\* A new daemon begins with an empty queue and an open store.
LEMMA StartKeeps == ASSUME IInv, Start PROVE IInv'
<1>1. /\ pc = "down" /\ pc' = "accept" /\ starts < MaxStarts /\ starts' = starts + 1
      /\ listening' = TRUE /\ stopping' = FALSE /\ storeOpen' = TRUE
      /\ UNCHANGED <<state, request, wire, answer, backlog, dialed, cur, response, executed, applied,
                     audit>>
  BY DEF Start, clients, effects
<1> USE <1>1 DEF IInv
<1>2. starts' \in 0 .. MaxStarts /\ starts \in Nat
  BY LimitsAssumption DEF TypeOK
<1>3. TypeOK'
  BY <1>2 DEF TypeOK
<1>4. ServerSteps'
  BY DEF ServerSteps, Busy
<1>5. Queued' = Queued /\ Unaudited' = Unaudited /\ \A c : Records(c)' = Records(c)
  BY DEF Queued, Unaudited, Records
<1>6. InOrder'
  BY <1>5 DEF InOrder
<1>7. TracesAreLate' /\ AnswersHold'
  BY <1>5 DEF TracesAreLate, Untouched, AnswersHold, Truth
<1>8. RecordsPrecedeAnswers' /\ AuditIsTrue'
  BY <1>5 DEF RecordsPrecedeAnswers, AuditIsTrue
<1>9. LostRecords'
  BY <1>2, <1>5 DEF LostRecords
<1> QED
  BY <1>3, <1>4, <1>6, <1>7, <1>8, <1>9

-----------------------------------------------------------------------------
(* The theorems. *)

\* Every state of the socket and its server satisfies the inductive invariant.
THEOREM Invariance == Spec => []IInv
<1>1. IInv /\ [Next]_vars => IInv'
  <2> SUFFICES ASSUME IInv, [Next]_vars PROVE IInv'
    OBVIOUS
  <2>1. CASE Client
    BY <2>1, DialKeeps, ClientEndKeeps DEF Client
  <2>2. CASE Server
    BY <2>2, AcceptKeeps, ReadKeeps, DispatchKeeps, WriteAuditKeeps, RespondKeeps DEF Server
  <2>3. CASE Cancel \/ Watch \/ AcceptFails \/ CloseStore \/ Kill \/ Start
    BY <2>3, StopKeeps, KillKeeps, StartKeeps
  <2>4. CASE UNCHANGED vars
    <3> USE <2>4 DEF vars, clients, queue, effects
    <3>1. Queued' = Queued /\ Unaudited' = Unaudited /\ \A c : Records(c)' = Records(c)
      BY DEF Queued, Unaudited, Records
    <3>2. TypeOK' /\ ServerSteps' /\ InOrder'
      BY <3>1 DEF IInv, TypeOK, ServerSteps, InOrder
    <3>3. TracesAreLate' /\ AnswersHold'
      BY <3>1 DEF IInv, TracesAreLate, Untouched, AnswersHold, Truth
    <3>4. RecordsPrecedeAnswers' /\ AuditIsTrue' /\ LostRecords'
      BY <3>1 DEF IInv, RecordsPrecedeAnswers, AuditIsTrue, LostRecords
    <3> QED
      BY <3>2, <3>3, <3>4 DEF IInv
  <2> QED
    BY <2>1, <2>2, <2>3, <2>4 DEF Next
<1> QED
  BY <1>1, InitHolds, PTL DEF Spec

\* A request of an earlier connection is never executed after one of a later
\* connection, also when its client has long given up.
THEOREM OrderOfExecution == Spec => []ExecutedInOrder
<1>1. IInv => ExecutedInOrder
  BY DEF IInv, InOrder, Before, ExecutedInOrder
<1> QED
  BY <1>1, Invariance, PTL

\* No connection's request is executed twice: a restart does not find it again.
THEOREM ExecutedOnce == Spec => [](\A i, j \in DOMAIN executed : executed[i] = executed[j] => i = j)
<1>1. IInv => \A i, j \in DOMAIN executed : executed[i] = executed[j] => i = j
  <2> SUFFICES ASSUME IInv, NEW i \in DOMAIN executed, NEW j \in DOMAIN executed,
                      executed[i] = executed[j]
               PROVE  i = j
    OBVIOUS
  <2>1. i \in Nat /\ j \in Nat /\ \A k \in DOMAIN dialed : k \in Nat
    BY DEF IInv, TypeOK
  <2>2. ~ Before(dialed, executed[i], executed[j])
    BY <2>1 DEF IInv, InOrder, Before
  <2>3. i < j => Before(dialed, executed[i], executed[j])
    BY DEF IInv, InOrder
  <2>4. j < i => Before(dialed, executed[j], executed[i])
    BY DEF IInv, InOrder
  <2> QED
    BY <2>1, <2>2, <2>3, <2>4
<1> QED
  BY <1>1, Invariance, PTL

\* What a client is told is what became of its own request.
THEOREM AnswersTrue == Spec => []AnswersAreTrue
<1>1. IInv => AnswersAreTrue
  BY DEF IInv, AnswersHold, Truth, AnswersAreTrue
<1> QED
  BY <1>1, Invariance, PTL

\* The audit log has one true record of every mutation before its client has the
\* answer, and each kill loses at most one.
THEOREM AuditHolds == Spec => []AuditInv
<1>1. IInv => AuditInv
  <2> SUFFICES ASSUME IInv PROVE AuditInv
    OBVIOUS
  <2>1. ASSUME NEW c \in Calls PROVE Cardinality(Records(c)) <= 1
    <3>1. \A i, j \in Records(c) : i = j
      BY DEF IInv, RecordsPrecedeAnswers, Records
    <3> QED
      BY <3>1, AtMostOne
  <2>2. AuditIsComplete
    BY <2>1 DEF IInv, RecordsPrecedeAnswers, LostRecords, AuditIsComplete
  <2> QED
    BY <2>2 DEF IInv, AuditInv
<1> QED
  BY <1>1, Invariance, PTL

\* The store is closed only when no request can reach it any more.
THEOREM StoreStaysOpen == Spec => []StoreOutlivesRequests
<1>1. IInv => StoreOutlivesRequests
  BY DEF IInv, ServerSteps, StoreOutlivesRequests
<1> QED
  BY <1>1, Invariance, PTL
=============================================================================
