--------------------------- MODULE WebAdminProofs ---------------------------
(***************************************************************************)
(* The safety properties of WebAdmin, for any users, alerts and contents   *)
(* and any number of requests, outside changes and deaths.  They follow    *)
(* from one inductive invariant, IInv, which says what requests, calls and *)
(* changes have to do with each other: where a request may have a call in  *)
(* the queue or a change in the log, which form the two come from, and     *)
(* which requests had their answer when the form was sent.                 *)
(***************************************************************************)
EXTENDS WebAdmin, SequenceTheorems, TLAPS

-----------------------------------------------------------------------------
(* The inductive invariant. *)

Kinds == Mutating \cup {"read", "list", "settings"}
Origins == {"none", "other", "same"}
Filled == Messages \cup {Absent}
Answers == Contents \cup {None, "ok", "internal", "broken", "already_exists", "source_changed",
                          "managed", "legacy", "oversized", "unsafe", "not_found"}

\* A request that is under way.
Live == [stage : {"cgi", "auth", "handler", "wait"}, user : Users, method : Methods,
         route : Routes, target : Targets, msg : Filled, seen : Contents \cup {None},
         origin : Origins, before : SUBSET Nat, whole : BOOLEAN, verified : BOOLEAN,
         call : Kinds \cup {"none"}, entry : Contents \cup {None}, answer : Answers]
Done == [stage : {"done"}, status : Statuses]

Forms == [method : Methods, route : Routes, origin : Origins, verified : BOOLEAN, msg : Filled,
          seen : Contents \cup {None}, before : SUBSET Nat]
Calls == [id : Nat, kind : Kinds, target : Targets, msg : Filled, form : Forms \cup {None}]
Changes == [id : Nat, kind : Mutating, msg : Filled, replaced : Contents, archived : BOOLEAN,
            form : Forms \cup {None}]
Shown == [route : {"new", "alert", "convert", "delete"}, target : Targets, seen : Contents]

\* The types of the variables, in full.
Types ==
  /\ store \in [Targets -> Contents]
  /\ daemon \in {"up", "down"}
  /\ queue \in Seq(Calls)
  /\ log \in Seq(Changes)
  /\ page \in [Users -> {None} \cup Shown]
  /\ req \in Seq(Live \cup Done)
  /\ outside \in 0 .. MaxOutside
  /\ deaths \in 0 .. MaxDeaths

\* A change comes from a form that allows it and is what the form says.
Rightful(kind, msg, form) ==
  /\ form \in Forms
  /\ form.verified /\ form.method = "POST" /\ form.origin = "same"
  /\ kind = Operation(form.route)
  /\ msg = form.msg

\* What is queued and what was changed is rightful, and the store took it.
FormsHold ==
  /\ \A i \in DOMAIN queue :
       queue[i].kind \in Mutating => Rightful(queue[i].kind, queue[i].msg, queue[i].form)
  /\ \A i \in DOMAIN log :
       /\ Rightful(log[i].kind, log[i].msg, log[i].form)
       /\ KindOf(log[i].replaced) \in Takes(log[i].kind)
       /\ log[i].archived <=> log[i].kind \in Destructive

\* What a request has behind it, by its stage.
RequestHolds(r) ==
  /\ req[r].stage \in {"handler", "wait"} => req[r].verified
  /\ req[r].origin = "same" /\ req[r].route = "delete" => req[r].msg = Absent
  /\ req[r].stage = "wait" /\ req[r].call \in {"list", "settings"}
       /\ req[r].route \in {"alert", "delete"} => req[r].entry \in Contents
  /\ \A k \in req[r].before : k \in Ids /\ Answered(k)
RequestsHold == \A r \in Ids : ~Answered(r) => RequestHolds(r)

\* A request with a call in the queue waits for its answer, or nobody does any
\* more; one with a change in the log has been answered as far as the daemon
\* is concerned.  No request has two of either.
InHand ==
  /\ \A i \in DOMAIN queue :
       /\ queue[i].id \in Ids
       /\ \/ req[queue[i].id].stage = "done"
          \/ /\ req[queue[i].id].stage = "wait" /\ req[queue[i].id].answer = None
             /\ req[queue[i].id].call = queue[i].kind
  /\ \A i \in DOMAIN log :
       /\ log[i].id \in Ids
       /\ \/ req[log[i].id].stage = "done"
          \/ /\ req[log[i].id].stage = "wait" /\ req[log[i].id].call \in Mutating
             /\ req[log[i].id].answer \in {"ok", "internal", "broken"}
  /\ \A i, j \in DOMAIN queue : queue[i].id = queue[j].id => i = j
  /\ AppliedOnce

\* Answers of the daemon and pages of the handlers tell what became of a form.
AnswersHold ==
  \A r \in Ids :
    /\ req[r].stage = "wait" /\ req[r].call \in Mutating /\ req[r].answer # None
         /\ req[r].answer = "ok" => Applied(r)
    /\ Answered(r) /\ req[r].status = "303" => Applied(r)
    /\ Answered(r) /\ req[r].status \in Refusals =>
         ~Applied(r) /\ \A i \in DOMAIN queue : queue[i].id # r

\* Whoever had the answer when a form was sent is ahead of it.
Ordered ==
  /\ \A i \in DOMAIN queue :
       queue[i].kind \in Mutating =>
         /\ \A k \in queue[i].form.before : k \in Ids /\ Answered(k)
         /\ \A j \in DOMAIN queue : i < j => queue[j].id \notin queue[i].form.before
  /\ \A i \in DOMAIN log :
       /\ \A k \in log[i].form.before : k \in Ids /\ Answered(k)
       /\ \A j \in DOMAIN queue : queue[j].id \notin log[i].form.before
       /\ \A j \in DOMAIN log : i < j => log[j].id \notin log[i].form.before

\* The inductive invariant.
IInv == Types /\ FormsHold /\ RequestsHold /\ InHand /\ AnswersHold /\ Ordered

-----------------------------------------------------------------------------
(* The operators of the model. *)

\* What the store takes of what it finds.
LEMMA KindFacts ==
  ASSUME NEW c \in Contents
  PROVE  /\ KindOf(c) \in {"managed", "legacy", "oversized", "unsafe", "not_found"}
         /\ KindOf(c) = "managed" => c \in Messages
         /\ KindOf(c) = "not_found" => c = Absent
  BY DEF KindOf, Contents

\* An alert that Create takes is none, and one that Write takes is none or
\* managed.
LEMMA TakesFacts ==
  /\ Takes("create") = {"not_found"}
  /\ Takes("write") = {"managed", "not_found"}
  BY DEF Takes

\* Each form is for one operation.
LEMMA OperationFacts ==
  /\ Operation("new") = "create"
  /\ Operation("alert") = "write"
  /\ Operation("convert") = "convert"
  /\ Operation("delete") = "delete"
  BY DEF Operation

\* Only the pages of an alert have a form that shows what was read.
LEMMA FormFacts ==
  ASSUME NEW route, NEW c
  PROVE  /\ FormFor(route, c) \in {"new", "delete", "alert", "convert", "none"}
         /\ FormFor(route, c) \in {"delete", "alert", "convert"} => route \in {"alert", "delete"}
  BY DEF FormFor

\* The page of a message or of a legacy alert has a form.
LEMMA PageForms ==
  ASSUME NEW c \in Messages \cup Legacy
  PROVE  /\ FormFor("new", Absent) = "new"
         /\ FormFor("delete", c) = "delete"
         /\ FormFor("alert", c) \in {"alert", "convert"}
<1>1. KindOf(c) \in {"managed", "legacy"}
  BY KindsDisjoint DEF KindOf
<1>2. FormFor("new", Absent) = "new"
  BY DEF FormFor
<1>3. FormFor("delete", c) = "delete"
  BY DEF FormFor
<1>4. FormFor("alert", c) \in {"alert", "convert"}
  BY <1>1 DEF FormFor
<1> QED
  BY <1>2, <1>3, <1>4

\* A failure that leaves the outcome open is no refusal, and only success is
\* reported as success.
LEMMA StatusFacts ==
  ASSUME NEW call, NEW result
  PROVE  /\ ChangeStatus(call, result) \in {"303", "404", "409", "503"}
         /\ ChangeStatus(call, result) = "303" => result = "ok"
         /\ result \in {"ok", "internal", "broken"} => ChangeStatus(call, result) \in {"303", "503"}
<1>1. CreateError(result) \in {"409", "503"} /\ (result \in {"internal", "broken"} => CreateError(result) = "503")
  BY DEF CreateError
<1>2. /\ DeleteError(result) \in {"404", "409", "503"}
      /\ result \in {"internal", "broken"} => DeleteError(result) = "503"
  BY DEF DeleteError
<1>3. /\ MutationError(result) \in {"404", "409", "503"}
      /\ result \in {"internal", "broken"} => MutationError(result) = "503"
  BY DEF MutationError
<1> QED
  BY <1>1, <1>2, <1>3 DEF ChangeStatus

\* The daemon takes the first call off its queue.
LEMMA FirstLeaves ==
  ASSUME NEW S, NEW s \in Seq(S), s # <<>>
  PROVE  /\ RemoveAt(s, NextCall) \in Seq(S)
         /\ Len(RemoveAt(s, NextCall)) = Len(s) - 1
         /\ \A i \in 1 .. Len(s) - 1 : RemoveAt(s, NextCall)[i] = s[i + 1]
         /\ 1 \in DOMAIN s
<1>1. Len(s) \in Nat \ {0} /\ DOMAIN s = 1 .. Len(s) /\ \A i \in 1 .. Len(s) : s[i] \in S
  OBVIOUS
<1> DEFINE h == SubSeq(s, 1, 0)
           t == SubSeq(s, 2, Len(s))
<1>2. h \in Seq(S) /\ Len(h) = 0
  BY SubSeqProperties
<1>3. t \in Seq(S) /\ Len(t) = Len(s) - 1 /\ \A i \in 1 .. Len(s) - 1 : t[i] = s[i + 1]
  <2>1. /\ t \in Seq(S)
        /\ Len(t) = IF 2 <= Len(s) THEN Len(s) - 2 + 1 ELSE 0
        /\ \A i \in 1 .. Len(s) - 2 + 1 : t[i] = s[2 + i - 1]
    BY <1>1, SubSeqProperties
  <2>2. \A i \in 1 .. Len(s) - 1 : 2 + i - 1 = i + 1 /\ i \in 1 .. Len(s) - 2 + 1
    BY <1>1
  <2> HIDE DEF t
  <2>3. Len(t) = Len(s) - 1
    <3> DEFINE n == Len(s)
    <3>1. Len(t) = IF 2 <= n THEN n - 2 + 1 ELSE 0
      BY <2>1
    <3>2. n \in Nat /\ n # 0
      BY <1>1
    <3> HIDE DEF n
    <3>3. Len(t) = n - 1
      BY <3>1, <3>2
    <3> QED
      BY <3>3 DEF n
  <2>4. \A i \in 1 .. Len(s) - 1 : t[i] = s[i + 1]
    BY <2>1, <2>2
  <2> QED
    BY <2>1, <2>3, <2>4
<1> HIDE DEF h, t
<1>4. /\ h \o t \in Seq(S)
      /\ Len(h \o t) = Len(h) + Len(t)
      /\ \A i \in 1 .. Len(h) + Len(t) :
           (h \o t)[i] = IF i <= Len(h) THEN h[i] ELSE t[i - Len(h)]
  BY <1>2, <1>3, ConcatProperties
<1>5. \A i \in 1 .. Len(s) - 1 : (h \o t)[i] = t[i]
  BY <1>1, <1>2, <1>3, <1>4
<1>6. RemoveAt(s, NextCall) = h \o t
  BY DEF RemoveAt, NextCall, h, t
<1>7. Len(h \o t) = Len(s) - 1
  BY <1>1, <1>2, <1>3, <1>4
<1>8. 1 \in DOMAIN s
  BY <1>1
<1> QED
  BY <1>3, <1>4, <1>5, <1>6, <1>7, <1>8

-----------------------------------------------------------------------------
(* The steps of requests. *)

\* Nobody has yet sent anything to the daemon for the request, or everything
\* that was sent has been answered.
Free(r) == \A i \in DOMAIN queue : queue[i].id # r

\* The response: it must be true of what became of the form.
LEMMA FinishKeeps ==
  ASSUME IInv, NEW r \in Ids, ~Answered(r), NEW status \in Statuses,
         NEW form \in {"none", "new", "alert", "convert", "delete"}, Finish(r, status, form),
         status = "303" => Applied(r),
         status \in Refusals => Free(r) /\ ~Applied(r),
         form \in {"alert", "convert", "delete"} => req[r].entry \in Contents
  PROVE  IInv'
<1> DEFINE d == [stage |-> "done", status |-> status]
<1>1. d \in Done /\ d.stage = "done" /\ d.status = status
  BY DEF Done
<1>2. req[r] \in Live
  BY DEF IInv, Types, Ids, Answered, Done
<1>3. req' = [req EXCEPT ![r] = d] /\ UNCHANGED <<store, daemon, queue, log, outside, deaths>>
  BY DEF Finish, Set
<1> HIDE DEF d
<1>4. /\ req' \in Seq(Live \cup Done) /\ Ids' = Ids
      /\ req'[r] = d /\ \A k \in Ids : k # r => req'[k] = req[k]
  BY <1>1, <1>3 DEF IInv, Types, Ids
<1>5. \A k \in Ids : Answered(k)' <=> Answered(k) \/ k = r
  BY <1>1, <1>4 DEF Answered, Ids
<1>6. page' \in [Users -> {None} \cup Shown]
  <2>1. CASE form = "none"
    BY <2>1 DEF Finish, IInv, Types
  <2>2. CASE form # "none"
    <3> DEFINE p == [route |-> form, target |-> req[r].target, seen |-> SeenOn(r, form)]
    <3>1. SeenOn(r, form) \in Contents
      BY <2>2 DEF SeenOn, Contents
    <3>2. p \in Shown
      BY <1>2, <2>2, <3>1 DEF Shown, Live
    <3>3. page' = [page EXCEPT ![req[r].user] = p]
      BY <2>2 DEF Finish
    <3> HIDE DEF p
    <3> QED
      BY <3>2, <3>3 DEF IInv, Types
  <2> QED
    BY <2>1, <2>2
<1>7. Types'
  BY <1>3, <1>4, <1>6 DEF IInv, Types
<1>8. FormsHold'
  BY <1>3 DEF IInv, FormsHold
<1>9. RequestsHold'
  <2> SUFFICES ASSUME NEW k \in Ids, ~Answered(k), k # r PROVE RequestHolds(k)'
    BY <1>4, <1>5 DEF RequestsHold
  <2>1. RequestHolds(k) /\ req'[k] = req[k]
    BY <1>4 DEF IInv, RequestsHold
  <2>2. \A x \in req[k].before : x \in Ids' /\ Answered(x)'
    BY <1>4, <1>5, <2>1 DEF RequestHolds
  <2> QED
    BY <2>1, <2>2 DEF RequestHolds
<1>10. InHand'
  BY <1>1, <1>3, <1>4 DEF IInv, InHand, AppliedOnce
<1>11. AnswersHold'
  <2>1. \A k \in Ids : Applied(k)' <=> Applied(k)
    BY <1>3 DEF Applied
  <2>2. ASSUME NEW k \in Ids, k # r
        PROVE  /\ req'[k].stage = "wait" /\ req'[k].call \in Mutating /\ req'[k].answer # None
                    /\ req'[k].answer = "ok" => Applied(k)
               /\ Answered(k)' /\ req'[k].status = "303" => Applied(k)
               /\ Answered(k)' /\ req'[k].status \in Refusals => ~Applied(k) /\ Free(k)
    BY <1>4, <1>5, <2>2 DEF IInv, AnswersHold, Free
  <2>3. /\ req'[r].stage = "done" /\ req'[r].status = status
        /\ status = "303" => Applied(r)
        /\ status \in Refusals => ~Applied(r) /\ Free(r)
    BY <1>1, <1>4
  <2> QED
    BY <1>3, <1>4, <2>1, <2>2, <2>3 DEF AnswersHold, Free
<1>12. Ordered'
  BY <1>3, <1>4, <1>5 DEF IInv, Ordered
<1> QED
  BY <1>7, <1>8, <1>9, <1>10, <1>11, <1>12 DEF IInv

\* A request moves on to the next stage before it has called the daemon.
LEMMA AdvanceKeeps ==
  ASSUME IInv, NEW r \in Ids, req[r].stage \in {"cgi", "auth"},
         NEW new \in Live, new.stage \in {"auth", "handler"},
         new.stage = "handler" => new.verified,
         <<new.origin, new.route, new.msg, new.before>>
           = <<req[r].origin, req[r].route, req[r].msg, req[r].before>>,
         Set(r, new), UNCHANGED <<store, daemon, queue, log, page, outside, deaths>>
  PROVE  IInv'
<1>1. req' = [req EXCEPT ![r] = new]
  BY DEF Set
<1>2. /\ req' \in Seq(Live \cup Done) /\ Ids' = Ids
      /\ req'[r] = new /\ \A k \in Ids : k # r => req'[k] = req[k]
  BY <1>1 DEF IInv, Types, Ids
<1>3. \A k \in Ids : Answered(k)' <=> Answered(k)
  BY <1>2 DEF Answered, Ids
<1>4. ~Answered(r) /\ RequestHolds(r)
  BY DEF Answered, IInv, RequestsHold
<1>5. Free(r) /\ ~Applied(r)
  BY <1>4 DEF Free, Applied, IInv, InHand
<1>6. Types' /\ FormsHold'
  BY <1>2 DEF IInv, Types, FormsHold
<1>7. RequestsHold'
  <2> SUFFICES ASSUME NEW k \in Ids, ~Answered(k) PROVE RequestHolds(k)'
    BY <1>2, <1>3 DEF RequestsHold
  <2>1. RequestHolds(k)
    BY DEF IInv, RequestsHold
  <2>2. \A x \in req[k].before : x \in Ids' /\ Answered(x)'
    BY <1>2, <1>3, <2>1 DEF RequestHolds
  <2>3. CASE k = r
    BY <1>2, <1>4, <2>2, <2>3 DEF RequestHolds
  <2>4. CASE k # r
    BY <1>2, <2>1, <2>2, <2>4 DEF RequestHolds
  <2> QED
    BY <2>3, <2>4
<1>8. InHand'
  BY <1>2, <1>3, <1>5 DEF IInv, InHand, AppliedOnce, Free, Applied
<1>9. AnswersHold'
  BY <1>2, <1>3, <1>4 DEF IInv, AnswersHold, Applied
<1>10. Ordered'
  BY <1>2, <1>3 DEF IInv, Ordered
<1> QED
  BY <1>6, <1>7, <1>8, <1>9, <1>10 DEF IInv

\* What a handler may ask of the daemon for a request.
MayCall(r, kind, msg, entry) ==
  /\ ~Answered(r) /\ Free(r) /\ ~Applied(r)
  /\ req[r].verified
  /\ kind \in Kinds /\ msg \in Filled /\ entry \in Contents \cup {None}
  /\ kind \in Mutating =>
       /\ req[r].method = "POST" /\ req[r].origin = "same"
       /\ kind = Operation(req[r].route) /\ msg = req[r].msg
  /\ kind \in {"list", "settings"} /\ req[r].route \in {"alert", "delete"} => entry \in Contents

\* A call joins the end of the queue: whoever had the answer before the form
\* was sent is ahead of it, and the form waits.
LEMMA SendKeeps ==
  ASSUME IInv, NEW r \in Ids, NEW kind, NEW msg, NEW entry, MayCall(r, kind, msg, entry),
         queue' = Append(queue, [id |-> r, kind |-> kind, target |-> req[r].target, msg |-> msg,
                                 form |-> IF kind \in Mutating THEN FormOf(r) ELSE None]),
         Set(r, [req[r] EXCEPT !.stage = "wait", !.call = kind, !.entry = entry, !.answer = None]),
         UNCHANGED <<store, daemon, log, page, outside, deaths>>
  PROVE  IInv'
<1> DEFINE new == [req[r] EXCEPT !.stage = "wait", !.call = kind, !.entry = entry, !.answer = None]
           form == IF kind \in Mutating THEN FormOf(r) ELSE None
           c == [id |-> r, kind |-> kind, target |-> req[r].target, msg |-> msg, form |-> form]
<1>1. req[r] \in Live /\ r \in Nat
  BY DEF MayCall, IInv, Types, Ids, Answered, Done
<1>2. /\ new \in Live /\ new.stage = "wait" /\ new.call = kind /\ new.entry = entry
      /\ new.answer = None /\ new.verified = req[r].verified /\ new.origin = req[r].origin
      /\ new.route = req[r].route /\ new.msg = req[r].msg /\ new.before = req[r].before
  BY <1>1 DEF Live, MayCall, Answers
<1>3. kind \in Mutating => form \in Forms /\ Rightful(kind, msg, form) /\ form.before = req[r].before
  BY <1>1 DEF Forms, Live, FormOf, Rightful, MayCall
<1>4. c \in Calls /\ c.id = r /\ c.kind = kind /\ c.msg = msg /\ c.form = form
  BY <1>1, <1>3 DEF Calls, MayCall, Live
<1>5. queue' = Append(queue, c) /\ req' = [req EXCEPT ![r] = new]
  BY DEF Set
<1> HIDE DEF new, form, c
<1>6. /\ req' \in Seq(Live \cup Done) /\ Ids' = Ids
      /\ req'[r] = new /\ \A k \in Ids : k # r => req'[k] = req[k]
  BY <1>2, <1>5 DEF IInv, Types, Ids
<1>7. \A k \in Ids : Answered(k)' <=> Answered(k)
  BY <1>2, <1>6 DEF Answered, Ids, MayCall
<1> DEFINE n == Len(queue) + 1
<1>8. /\ queue' \in Seq(Calls) /\ n \in Nat /\ DOMAIN queue = 1 .. n - 1 /\ DOMAIN queue' = 1 .. n
      /\ queue'[n] = c /\ \A i \in DOMAIN queue : queue'[i] = queue[i]
  BY <1>4, <1>5, AppendProperties DEF IInv, Types
<1> HIDE DEF n
<1>9. \A i \in DOMAIN queue' : i = n \/ (i \in DOMAIN queue /\ i # n /\ queue'[i] = queue[i])
  BY <1>8
<1>10. Types'
  BY <1>6, <1>8 DEF IInv, Types
<1>11. FormsHold'
  <2>1. \A i \in DOMAIN queue' :
          queue'[i].kind \in Mutating => Rightful(queue'[i].kind, queue'[i].msg, queue'[i].form)
    BY <1>3, <1>4, <1>8, <1>9 DEF IInv, FormsHold
  <2> QED
    BY <2>1 DEF IInv, FormsHold
<1>12. RequestsHold'
  <2> SUFFICES ASSUME NEW k \in Ids, ~Answered(k) PROVE RequestHolds(k)'
    BY <1>6, <1>7 DEF RequestsHold
  <2>1. RequestHolds(k)
    BY DEF IInv, RequestsHold
  <2>2. \A x \in req[k].before : x \in Ids' /\ Answered(x)'
    BY <1>6, <1>7, <2>1 DEF RequestHolds
  <2>3. CASE k = r
    BY <1>2, <1>6, <2>1, <2>2, <2>3 DEF RequestHolds, MayCall
  <2>4. CASE k # r
    BY <1>6, <2>1, <2>2, <2>4 DEF RequestHolds
  <2> QED
    BY <2>3, <2>4
<1>13. InHand'
  <2>1. ASSUME NEW i \in DOMAIN queue'
        PROVE  /\ queue'[i].id \in Ids'
               /\ \/ req'[queue'[i].id].stage = "done"
                  \/ /\ req'[queue'[i].id].stage = "wait" /\ req'[queue'[i].id].answer = None
                     /\ req'[queue'[i].id].call = queue'[i].kind
    <3>1. CASE i = n
      BY <1>2, <1>4, <1>6, <1>8, <3>1
    <3>2. CASE i \in DOMAIN queue
      <4>1. queue'[i] = queue[i] /\ queue[i].id # r
        BY <1>8, <3>2 DEF MayCall, Free
      <4> QED
        BY <1>6, <1>7, <3>2, <4>1 DEF IInv, InHand
    <3> QED
      BY <1>9, <3>1, <3>2
  <2>2. \A i \in DOMAIN log :
          /\ log[i].id \in Ids'
          /\ \/ req'[log[i].id].stage = "done"
             \/ /\ req'[log[i].id].stage = "wait" /\ req'[log[i].id].call \in Mutating
                /\ req'[log[i].id].answer \in {"ok", "internal", "broken"}
    BY <1>6, <1>7 DEF IInv, InHand, MayCall, Applied
  <2>3. \A i, j \in DOMAIN queue' : queue'[i].id = queue'[j].id => i = j
    BY <1>4, <1>8, <1>9 DEF IInv, InHand, MayCall, Free
  <2>4. AppliedOnce'
    <3>1. \A i \in DOMAIN log, j \in DOMAIN queue' : log[i].id # queue'[j].id
      BY <1>4, <1>8, <1>9 DEF IInv, InHand, AppliedOnce, MayCall, Applied
    <3> QED
      BY <3>1 DEF AppliedOnce, IInv, InHand
  <2> QED
    BY <2>1, <2>2, <2>3, <2>4 DEF InHand
<1>14. AnswersHold'
  <2>1. ASSUME NEW k \in Ids, k # r, Answered(k)', req'[k].status \in Refusals
        PROVE  \A i \in DOMAIN queue' : queue'[i].id # k
    BY <1>4, <1>6, <1>7, <1>8, <1>9, <2>1 DEF IInv, AnswersHold
  <2>2. \A k \in Ids : Applied(k)' <=> Applied(k)
    BY DEF Applied
  <2>3. ASSUME NEW k \in Ids, k # r
        PROVE  /\ req'[k].stage = "wait" /\ req'[k].call \in Mutating /\ req'[k].answer # None
                    /\ req'[k].answer = "ok" => Applied(k)
               /\ Answered(k)' /\ req'[k].status = "303" => Applied(k)
               /\ Answered(k)' /\ req'[k].status \in Refusals => ~Applied(k)
    BY <1>6, <1>7, <2>3 DEF IInv, AnswersHold
  <2>4. ~Answered(r)' /\ req'[r].answer = None
    BY <1>2, <1>6, <1>7 DEF MayCall
  <2> QED
    BY <1>6, <2>1, <2>2, <2>3, <2>4 DEF AnswersHold
<1>15. Ordered'
  <2>1. ~Answered(r)
    BY DEF MayCall
  <2>2. ASSUME NEW i \in DOMAIN queue', queue'[i].kind \in Mutating
        PROVE  /\ \A k \in queue'[i].form.before : k \in Ids' /\ Answered(k)'
               /\ \A j \in DOMAIN queue' : i < j => queue'[j].id \notin queue'[i].form.before
    <3>1. CASE i = n
      <4>1. \A k \in req[r].before : k \in Ids /\ Answered(k)
        BY <2>1 DEF IInv, RequestsHold, RequestHolds
      <4>2. \A j \in DOMAIN queue' : ~(n < j)
        BY <1>8
      <4> QED
        BY <1>3, <1>4, <1>6, <1>7, <1>8, <2>2, <3>1, <4>1, <4>2
    <3>2. CASE i \in DOMAIN queue
      <4>1. /\ queue'[i] = queue[i]
            /\ \A k \in queue[i].form.before : k \in Ids /\ Answered(k)
            /\ \A j \in DOMAIN queue : i < j => queue[j].id \notin queue[i].form.before
        BY <1>8, <2>2, <3>2 DEF IInv, Ordered
      <4>2. r \notin queue[i].form.before
        BY <2>1, <4>1
      <4> QED
        BY <1>4, <1>6, <1>7, <1>8, <1>9, <4>1, <4>2
    <3> QED
      BY <1>9, <3>1, <3>2
  <2>3. ASSUME NEW i \in DOMAIN log
        PROVE  /\ \A k \in log[i].form.before : k \in Ids' /\ Answered(k)'
               /\ \A j \in DOMAIN queue' : queue'[j].id \notin log[i].form.before
    <3>1. /\ \A k \in log[i].form.before : k \in Ids /\ Answered(k)
          /\ \A j \in DOMAIN queue : queue[j].id \notin log[i].form.before
      BY DEF IInv, Ordered
    <3>2. r \notin log[i].form.before
      BY <2>1, <3>1
    <3> QED
      BY <1>4, <1>6, <1>7, <1>8, <1>9, <3>1, <3>2
  <2>4. \A i, j \in DOMAIN log : i < j => log[j].id \notin log[i].form.before
    BY DEF IInv, Ordered
  <2> QED
    BY <2>2, <2>3, <2>4 DEF Ordered
<1> QED
  BY <1>10, <1>11, <1>12, <1>13, <1>14, <1>15 DEF IInv

\* Client.Call: the call is sent, or the page is a 503.
LEMMA CallKeeps ==
  ASSUME IInv, NEW r \in Ids, NEW kind, NEW msg, NEW entry, MayCall(r, kind, msg, entry),
         Call(r, kind, msg, entry)
  PROVE  IInv'
<1>1. CASE Respond(r, "503")
  BY <1>1, FinishKeeps DEF Respond, Statuses, Refusals, MayCall
<1>2. CASE ~Respond(r, "503")
  BY <1>2, SendKeeps DEF Call
<1> QED
  BY <1>1, <1>2

\* A new request.
LEMMA SubmitKeeps ==
  ASSUME IInv, NEW u \in Users, NEW method \in Methods, NEW route \in Routes, NEW t \in Targets,
         NEW msg \in Filled, NEW seen \in Contents \cup {None}, NEW origin \in Origins,
         origin = "same" /\ route = "delete" => msg = Absent,
         Submit(u, method, route, t, msg, seen, origin)
  PROVE  IInv'
<1> DEFINE answered == {k \in Ids : Answered(k)}
           new == [stage |-> "cgi", user |-> u, method |-> method, route |-> route, target |-> t,
                   msg |-> msg, seen |-> seen, origin |-> origin, before |-> answered,
                   whole |-> TRUE, verified |-> FALSE, call |-> "none", entry |-> None,
                   answer |-> None]
<1>1. answered \in SUBSET Nat
  BY DEF IInv, Types, Ids
<1> HIDE DEF answered
<1>2. /\ new \in Live /\ new.stage = "cgi" /\ new.origin = origin /\ new.route = route
      /\ new.msg = msg /\ new.before = answered
  BY <1>1 DEF Live, Answers
<1>3. req' = Append(req, new) /\ UNCHANGED <<store, daemon, queue, log, page, outside, deaths>>
  BY DEF Submit, answered
<1> HIDE DEF new
<1>4. PICK n \in Nat \ {0} : n = Len(req) + 1
  BY DEF IInv, Types
<1>5. /\ req' \in Seq(Live \cup Done)
      /\ req'[n] = new /\ \A k \in Ids : req'[k] = req[k]
  BY <1>2, <1>3, <1>4, AppendProperties DEF IInv, Types, Ids
<1>6. Ids' = Ids \cup {n} /\ n \notin Ids
  <2>1. Ids = 1 .. n - 1 /\ Ids' = 1 .. n
    BY <1>2, <1>3, <1>4, AppendProperties DEF IInv, Types, Ids
  <2> QED
    BY <2>1
<1>7. \A k \in Ids : Answered(k)' <=> Answered(k)
  BY <1>5 DEF Answered, Ids
<1>8. Types' /\ FormsHold'
  BY <1>3, <1>5 DEF IInv, Types, FormsHold
<1>9. RequestsHold'
  <2> SUFFICES ASSUME NEW k \in Ids', ~Answered(k)' PROVE RequestHolds(k)'
    BY DEF RequestsHold
  <2>1. CASE k = n
    <3>1. \A x \in answered : x \in Ids' /\ Answered(x)'
      BY <1>6, <1>7 DEF answered
    <3> QED
      BY <1>2, <1>5, <2>1, <3>1 DEF RequestHolds
  <2>2. CASE k \in Ids
    <3>1. RequestHolds(k) /\ req'[k] = req[k]
      BY <1>5, <1>7, <2>2 DEF IInv, RequestsHold
    <3>2. \A x \in req[k].before : x \in Ids' /\ Answered(x)'
      BY <1>6, <1>7, <3>1 DEF RequestHolds
    <3> QED
      BY <3>1, <3>2 DEF RequestHolds
  <2> QED
    BY <1>6, <2>1, <2>2
<1>10. InHand'
  <2>1. \A i \in DOMAIN queue : queue[i].id \in Ids' /\ req'[queue[i].id] = req[queue[i].id]
    BY <1>5, <1>6 DEF IInv, InHand
  <2>2. \A i \in DOMAIN log : log[i].id \in Ids' /\ req'[log[i].id] = req[log[i].id]
    BY <1>5, <1>6 DEF IInv, InHand
  <2>3. AppliedOnce'
    BY <1>3 DEF IInv, InHand, AppliedOnce
  <2>4. \A i \in DOMAIN queue :
          \/ req'[queue[i].id].stage = "done"
          \/ /\ req'[queue[i].id].stage = "wait" /\ req'[queue[i].id].answer = None
             /\ req'[queue[i].id].call = queue[i].kind
    BY <2>1 DEF IInv, InHand
  <2>5. \A i \in DOMAIN log :
          \/ req'[log[i].id].stage = "done"
          \/ /\ req'[log[i].id].stage = "wait" /\ req'[log[i].id].call \in Mutating
             /\ req'[log[i].id].answer \in {"ok", "internal", "broken"}
    BY <2>2 DEF IInv, InHand
  <2>6. \A i, j \in DOMAIN queue : queue[i].id = queue[j].id => i = j
    BY DEF IInv, InHand
  <2> HIDE DEF Ids
  <2> QED
    BY <1>3, <2>1, <2>2, <2>3, <2>4, <2>5, <2>6 DEF InHand
<1>11. AnswersHold'
  <2>1. \A k \in Ids' : Applied(k)' <=> Applied(k)
    BY <1>3 DEF Applied
  <2>2. req'[n].stage = "cgi" /\ ~Answered(n)'
    BY <1>2, <1>5 DEF Answered
  <2> SUFFICES ASSUME NEW k \in Ids'
               PROVE  /\ req'[k].stage = "wait" /\ req'[k].call \in Mutating /\ req'[k].answer # None
                           /\ req'[k].answer = "ok" => Applied(k)'
                      /\ Answered(k)' /\ req'[k].status = "303" => Applied(k)'
                      /\ Answered(k)' /\ req'[k].status \in Refusals =>
                           ~Applied(k)' /\ \A i \in DOMAIN queue' : queue'[i].id # k
    BY DEF AnswersHold
  <2>3. CASE k = n
    BY <2>2, <2>3
  <2>4. CASE k \in Ids
    <3>1. req'[k] = req[k] /\ queue' = queue /\ (Answered(k)' <=> Answered(k)) /\ (Applied(k)' <=> Applied(k))
      BY <1>3, <1>5, <1>7, <2>1, <2>4
    <3> QED
      BY <2>4, <3>1 DEF IInv, AnswersHold
  <2> QED
    BY <1>6, <2>3, <2>4
<1>12. Ordered'
  BY <1>3, <1>6, <1>7 DEF IInv, Ordered
<1> QED
  BY <1>8, <1>9, <1>10, <1>11, <1>12 DEF IInv

\* The web process dies with its handlers: their calls stay in the queue.
LEMMA WebDiesKeeps == ASSUME IInv, WebDies PROVE IInv'
<1> DEFINE d == [stage |-> "done", status |-> "bad gateway"]
<1>1. d \in Done /\ d.stage = "done" /\ d.status = "bad gateway"
  BY DEF Done, Statuses
<1>2. /\ req' = [r \in Ids |-> IF req[r].stage \in {"cgi", "done"} THEN req[r] ELSE d]
      /\ UNCHANGED <<store, daemon, queue, log, page, outside>>
  BY DEF WebDies
<1> HIDE DEF d
<1>3. \A r \in Ids : req'[r] = req[r] \/ (req'[r] = d /\ req[r].stage \notin {"cgi", "done"})
  BY <1>2
<1>4. req' \in Seq(Live \cup Done) /\ Ids' = Ids
  <2>1. Ids = 1 .. Len(req) /\ Len(req) \in Nat
    BY DEF IInv, Types, Ids
  <2>2. \A r \in Ids : req[r] \in Live \cup Done
    BY DEF IInv, Types, Ids
  <2>3. req' \in [1 .. Len(req) -> Live \cup Done]
    BY <1>1, <1>2, <2>1, <2>2
  <2>4. DOMAIN req' = Ids
    BY <1>2
  <2> QED
    BY <2>1, <2>3, <2>4 DEF Ids
<1>5. \A r \in Ids : Answered(r) => Answered(r)' /\ req'[r] = req[r]
  BY <1>3 DEF Answered
<1>6. deaths' \in 0 .. MaxDeaths
  <2>1. MaxDeaths \in Nat
    BY WebBounds
  <2>2. deaths \in 0 .. MaxDeaths /\ deaths < MaxDeaths /\ deaths' = deaths + 1
    BY DEF WebDies, IInv, Types
  <2> QED
    BY <2>1, <2>2
<1>7. Types' /\ FormsHold'
  BY <1>2, <1>4, <1>6 DEF IInv, Types, FormsHold
<1>8. RequestsHold'
  <2> SUFFICES ASSUME NEW k \in Ids, ~Answered(k)' PROVE RequestHolds(k)'
    BY <1>4 DEF RequestsHold
  <2>1. req'[k] = req[k] /\ ~Answered(k)
    BY <1>1, <1>3, <1>5 DEF Answered
  <2>2. RequestHolds(k)
    BY <2>1 DEF IInv, RequestsHold
  <2>3. \A x \in req[k].before : x \in Ids' /\ Answered(x)'
    BY <1>4, <1>5, <2>2 DEF RequestHolds
  <2> QED
    BY <2>1, <2>2, <2>3 DEF RequestHolds
<1>9. InHand'
  BY <1>1, <1>2, <1>3, <1>4 DEF IInv, InHand, AppliedOnce
<1>10. AnswersHold'
  <2>1. \A k \in Ids : Applied(k)' <=> Applied(k)
    BY <1>2 DEF Applied
  <2> QED
    BY <1>1, <1>2, <1>3, <1>4, <2>1 DEF IInv, AnswersHold, Answered, Refusals
<1>11. Ordered'
  BY <1>2, <1>4, <1>5 DEF IInv, Ordered
<1> QED
  BY <1>7, <1>8, <1>9, <1>10, <1>11 DEF IInv

\* What neither requests nor calls notice.
LEMMA QuietKeeps ==
  ASSUME IInv, UNCHANGED <<queue, log, page, req>>, store' \in [Targets -> Contents],
         daemon' \in {"up", "down"}, outside' \in 0 .. MaxOutside, deaths' \in 0 .. MaxDeaths
  PROVE  IInv'
<1>1. Types' /\ FormsHold'
  BY DEF IInv, Types, FormsHold
<1>2. Ids' = Ids /\ \A k : Answered(k)' <=> Answered(k)
  BY DEF Ids, Answered
<1>3. RequestsHold'
  BY <1>2 DEF IInv, RequestsHold, RequestHolds
<1>4. InHand' /\ AnswersHold'
  BY <1>2 DEF IInv, InHand, AppliedOnce, AnswersHold, Applied
<1>5. Ordered'
  BY <1>2 DEF IInv, Ordered
<1> QED
  BY <1>1, <1>3, <1>4, <1>5 DEF IInv

-----------------------------------------------------------------------------
(* The steps of the daemon. *)

\* What the daemon may add to the log: the change of the first call.
LogGrows ==
  /\ log' \in Seq(Changes)
  /\ \A i \in DOMAIN log : i \in DOMAIN log' /\ log'[i] = log[i]
  /\ \A i \in DOMAIN log' \ DOMAIN log :
       /\ 1 \in DOMAIN queue /\ queue[1].kind \in Mutating
       /\ log'[i].id = queue[1].id /\ log'[i].form = queue[1].form
       /\ Rightful(log'[i].kind, log'[i].msg, log'[i].form)
       /\ KindOf(log'[i].replaced) \in Takes(log'[i].kind)
       /\ log'[i].archived <=> log'[i].kind \in Destructive
       /\ \A j \in DOMAIN log : j < i
       /\ \A j \in DOMAIN log' : j \in DOMAIN log \/ j = i

\* The first call, or all of them, leave the queue.
QueueShrinks ==
  /\ queue' \in Seq(Calls)
  /\ \A i \in DOMAIN queue' :
       i \in Nat /\ i + 1 \in DOMAIN queue /\ queue'[i] = queue[i + 1] /\ i + 1 # 1

\* Whoever waits for a call that has left may get the answer.
Heard(k, answer) ==
  /\ req[k].stage = "wait" /\ req[k].answer = None
  /\ req'[k] = [req[k] EXCEPT !.answer = answer]
  /\ \A i \in DOMAIN queue' : queue'[i].id # k
  /\ answer = "broken" \/ (1 \in DOMAIN queue /\ queue[1].id = k)
AnswersCome(answer) ==
  /\ req' \in Seq(Live \cup Done) /\ Ids' = Ids
  /\ \A k \in Ids : req'[k] = req[k] \/ Heard(k, answer)

\* The effect of a call that the store accepts.
LEMMA EffectGrows ==
  ASSUME IInv, queue # <<>>, queue[NextCall].kind \in Mutating, Accepts(queue[NextCall]),
         Effect(queue[NextCall])
  PROVE  LogGrows /\ store' \in [Targets -> Contents] /\ \E i \in DOMAIN log' : i \notin DOMAIN log
<1> DEFINE c == queue[NextCall]
           e == [id |-> c.id, kind |-> c.kind, msg |-> c.msg, replaced |-> store[c.target],
                 archived |-> c.kind \in Destructive, form |-> c.form]
<1>1. 1 \in DOMAIN queue /\ c = queue[1] /\ c \in Calls
  BY FirstLeaves DEF IInv, Types, NextCall
<1>2. store[c.target] \in Contents /\ store' \in [Targets -> Contents]
  BY <1>1 DEF IInv, Types, Calls, Effect, Filled, Contents
<1>3. Rightful(c.kind, c.msg, c.form) /\ KindOf(store[c.target]) \in Takes(c.kind)
  BY <1>1 DEF IInv, FormsHold, Accepts
<1>4. /\ e \in Changes /\ e.id = c.id /\ e.kind = c.kind /\ e.msg = c.msg /\ e.form = c.form
      /\ e.replaced = store[c.target] /\ (e.archived <=> c.kind \in Destructive)
  <2>1. /\ c.id \in Nat /\ c.kind \in Mutating /\ c.msg \in Filled /\ c.form \in Forms \cup {None}
        /\ (c.kind \in Destructive) \in BOOLEAN
    BY <1>1 DEF Calls
  <2>2. e \in Changes
    BY <1>2, <2>1 DEF Changes
  <2> QED
    BY <2>2
<1>5. log' = Append(log, e)
  BY DEF Effect
<1> HIDE DEF e, c
<1>6. PICK n \in Nat \ {0} : n = Len(log) + 1
  BY DEF IInv, Types
<1>7. log' \in Seq(Changes) /\ log'[n] = e /\ \A i \in DOMAIN log : log'[i] = log[i]
  BY <1>4, <1>5, <1>6, AppendProperties DEF IInv, Types
<1>8. DOMAIN log = 1 .. n - 1 /\ DOMAIN log' = 1 .. n
  BY <1>4, <1>5, <1>6, AppendProperties DEF IInv, Types
<1>9. /\ \A i \in DOMAIN log : i \in DOMAIN log' /\ i < n
      /\ \A i \in DOMAIN log' : i \in DOMAIN log \/ i = n
      /\ n \in DOMAIN log' /\ n \notin DOMAIN log
  BY <1>8
<1>10. queue[1].kind \in Mutating
  BY <1>1 DEF c
<1>11. LogGrows
  BY <1>1, <1>3, <1>4, <1>7, <1>9, <1>10 DEF LogGrows
<1> QED
  BY <1>2, <1>9, <1>11

\* A daemon that answers the first call, or dies, keeps the invariant, if it
\* says "ok" of nothing that it has not done.
LEMMA DaemonKeeps ==
  ASSUME IInv, LogGrows, QueueShrinks, NEW answer \in Answers, AnswersCome(answer),
         store' \in [Targets -> Contents], UNCHANGED page, daemon' \in {"up", "down"},
         outside' \in 0 .. MaxOutside, deaths' \in 0 .. MaxDeaths,
         \A i \in DOMAIN log' \ DOMAIN log :
           /\ answer \in {"ok", "internal", "broken"}
           /\ Answered(queue[1].id) \/ Heard(queue[1].id, answer),
         ASSUME NEW k \in Ids, req[k].call \in Mutating, Heard(k, answer), answer = "ok"
         PROVE  Applied(k)'
  PROVE  IInv'
<1>1. Ids' = Ids /\ req' \in Seq(Live \cup Done)
  BY DEF AnswersCome
<1>2. ASSUME NEW k \in Ids
      PROVE  \/ req'[k] = req[k]
             \/ /\ Heard(k, answer) /\ req'[k].answer = answer /\ req'[k].stage = "wait"
                /\ req[k].stage = "wait" /\ req'[k].verified = req[k].verified
                /\ req'[k].origin = req[k].origin /\ req'[k].route = req[k].route
                /\ req'[k].msg = req[k].msg /\ req'[k].call = req[k].call
                /\ req'[k].entry = req[k].entry /\ req'[k].before = req[k].before
  <2>1. CASE Heard(k, answer)
    <3>1. req[k] \in Live
      BY <2>1 DEF Heard, IInv, Types, Ids, Done
    <3> QED
      BY <2>1, <3>1 DEF Heard, Live
  <2> QED
    BY <2>1 DEF AnswersCome
<1>3. \A k \in Ids : Answered(k)' <=> Answered(k)
  BY <1>2 DEF Answered
<1>4. Types'
  BY <1>1 DEF IInv, Types, LogGrows, QueueShrinks
<1>5. FormsHold'
  <2>1. \A i \in DOMAIN queue' :
          queue'[i].kind \in Mutating => Rightful(queue'[i].kind, queue'[i].msg, queue'[i].form)
    BY DEF IInv, FormsHold, QueueShrinks
  <2>2. ASSUME NEW i \in DOMAIN log'
        PROVE  /\ Rightful(log'[i].kind, log'[i].msg, log'[i].form)
               /\ KindOf(log'[i].replaced) \in Takes(log'[i].kind)
               /\ log'[i].archived <=> log'[i].kind \in Destructive
    BY DEF IInv, FormsHold, LogGrows
  <2> QED
    BY <2>1, <2>2 DEF FormsHold
<1>6. RequestsHold'
  <2> SUFFICES ASSUME NEW k \in Ids, ~Answered(k) PROVE RequestHolds(k)'
    BY <1>1, <1>3 DEF RequestsHold
  <2>1. RequestHolds(k)
    BY DEF IInv, RequestsHold
  <2>2. \A x \in req[k].before : x \in Ids' /\ Answered(x)'
    BY <1>1, <1>3, <2>1 DEF RequestHolds
  <2> QED
    BY <1>2, <2>1, <2>2 DEF RequestHolds
<1>7. InHand'
  <2>1. ASSUME NEW i \in DOMAIN queue'
        PROVE  /\ queue'[i].id \in Ids'
               /\ \/ req'[queue'[i].id].stage = "done"
                  \/ /\ req'[queue'[i].id].stage = "wait" /\ req'[queue'[i].id].answer = None
                     /\ req'[queue'[i].id].call = queue'[i].kind
    <3>1. i + 1 \in DOMAIN queue /\ queue'[i] = queue[i + 1]
      BY DEF QueueShrinks
    <3>2. queue'[i].id \in Ids /\ req'[queue'[i].id] = req[queue'[i].id]
      BY <3>1 DEF IInv, InHand, AnswersCome, Heard
    <3> QED
      BY <1>1, <3>1, <3>2 DEF IInv, InHand
  <2>2. ASSUME NEW i \in DOMAIN log'
        PROVE  /\ log'[i].id \in Ids'
               /\ \/ req'[log'[i].id].stage = "done"
                  \/ /\ req'[log'[i].id].stage = "wait" /\ req'[log'[i].id].call \in Mutating
                     /\ req'[log'[i].id].answer \in {"ok", "internal", "broken"}
    <3>1. CASE i \in DOMAIN log
      <4> DEFINE k == log[i].id
      <4>1. /\ log'[i] = log[i] /\ k \in Ids
            /\ \/ req[k].stage = "done"
               \/ /\ req[k].stage = "wait" /\ req[k].call \in Mutating
                  /\ req[k].answer \in {"ok", "internal", "broken"}
        BY <3>1 DEF IInv, InHand, LogGrows
      <4>2. CASE req'[k] = req[k]
        BY <1>1, <4>1, <4>2
      <4>3. CASE Heard(k, answer)
        <5>1. req[k].call \in Mutating /\ req'[k].stage = "wait" /\ req'[k].call = req[k].call
          BY <1>2, <4>1, <4>3 DEF Heard
        <5>2. req'[k].answer = answer
          BY <4>1, <4>3 DEF Heard, IInv, Types, Ids, Live, Done
        <5>3. answer = "broken"
          BY <3>1, <4>3 DEF Heard, IInv, InHand, AppliedOnce
        <5> QED
          BY <1>1, <4>1, <5>1, <5>2, <5>3
      <4> QED
        BY <4>1, <4>2, <4>3 DEF AnswersCome
    <3>2. CASE i \notin DOMAIN log
      <4>1. /\ log'[i].id = queue[1].id /\ 1 \in DOMAIN queue /\ queue[1].kind \in Mutating
            /\ answer \in {"ok", "internal", "broken"}
            /\ Answered(queue[1].id) \/ Heard(queue[1].id, answer)
        BY <3>2 DEF LogGrows
      <4>2. queue[1].id \in Ids
        BY <4>1 DEF IInv, InHand
      <4>3. CASE Answered(queue[1].id)
        BY <1>1, <1>3, <4>1, <4>2, <4>3 DEF Answered
      <4>4. CASE Heard(queue[1].id, answer)
        <5>1. req[queue[1].id].call = queue[1].kind
          BY <4>1, <4>4 DEF IInv, InHand, Heard
        <5>2. req'[queue[1].id].stage = "wait" /\ req'[queue[1].id].answer = answer
              /\ req'[queue[1].id].call = req[queue[1].id].call
          BY <4>2, <4>4 DEF Heard, IInv, Types, Ids, Live, Done
        <5> QED
          BY <1>1, <4>1, <4>2, <5>1, <5>2
      <4> QED
        BY <4>1, <4>3, <4>4
    <3> QED
      BY <3>1, <3>2
  <2>3. \A i, j \in DOMAIN queue' : queue'[i].id = queue'[j].id => i = j
    <3> SUFFICES ASSUME NEW i \in DOMAIN queue', NEW j \in DOMAIN queue',
                        queue'[i].id = queue'[j].id
                 PROVE  i = j
      OBVIOUS
    <3>1. i + 1 = j + 1
      BY DEF QueueShrinks, IInv, InHand
    <3> QED
      BY <3>1 DEF QueueShrinks
  <2>4. AppliedOnce'
    <3>1. ASSUME NEW i \in DOMAIN log', NEW j \in DOMAIN log', log'[i].id = log'[j].id PROVE i = j
      <4>1. \A x \in DOMAIN log, y \in DOMAIN log : log[x].id = log[y].id => x = y
        BY DEF IInv, InHand, AppliedOnce
      <4>2. 1 \in DOMAIN queue => \A x \in DOMAIN log : log[x].id # queue[1].id
        BY DEF IInv, InHand, AppliedOnce
      <4> QED
        BY <3>1, <4>1, <4>2 DEF LogGrows
    <3>2. ASSUME NEW i \in DOMAIN log', NEW j \in DOMAIN queue' PROVE log'[i].id # queue'[j].id
      <4>1. j + 1 \in DOMAIN queue /\ queue'[j] = queue[j + 1] /\ j + 1 # 1
        BY DEF QueueShrinks
      <4>2. 1 \in DOMAIN queue => queue[1].id # queue[j + 1].id
        BY <4>1 DEF IInv, InHand
      <4>3. \A x \in DOMAIN log : log[x].id # queue[j + 1].id
        BY <4>1 DEF IInv, InHand, AppliedOnce
      <4> QED
        BY <4>1, <4>2, <4>3 DEF LogGrows
    <3> QED
      BY <3>1, <3>2 DEF AppliedOnce
  <2> QED
    BY <2>1, <2>2, <2>3, <2>4 DEF InHand
<1>8. AnswersHold'
  <2>1. \A k \in Ids : Applied(k) => Applied(k)'
    BY DEF Applied, LogGrows
  <2>2. \A k \in Ids : Free(k) /\ ~Applied(k) => Free(k)' /\ ~Applied(k)'
    BY DEF Free, Applied, LogGrows, QueueShrinks
  <2> SUFFICES ASSUME NEW k \in Ids
               PROVE  /\ req'[k].stage = "wait" /\ req'[k].call \in Mutating /\ req'[k].answer # None
                           /\ req'[k].answer = "ok" => Applied(k)'
                      /\ Answered(k)' /\ req'[k].status = "303" => Applied(k)'
                      /\ Answered(k)' /\ req'[k].status \in Refusals => ~Applied(k)' /\ Free(k)'
    BY <1>1 DEF AnswersHold, Free
  <2>3. CASE req'[k] = req[k]
    BY <1>3, <2>1, <2>2, <2>3 DEF IInv, AnswersHold, Free, Answered
  <2>4. CASE Heard(k, answer)
    <3>1. ~Answered(k)'
      BY <1>3, <2>4 DEF Answered, Heard
    <3>2. req[k] \in Live
      BY <2>4 DEF Heard, IInv, Types, Ids, Done
    <3>3. req'[k].call = req[k].call /\ req'[k].answer = answer
      BY <2>4, <3>2 DEF Heard, Live
    <3> QED
      BY <2>4, <3>1, <3>3
  <2> QED
    BY <2>3, <2>4 DEF AnswersCome
<1>9. Ordered'
  <2>1. ASSUME NEW i \in DOMAIN queue', queue'[i].kind \in Mutating
        PROVE  /\ \A k \in queue'[i].form.before : k \in Ids' /\ Answered(k)'
               /\ \A j \in DOMAIN queue' : i < j => queue'[j].id \notin queue'[i].form.before
    <3>1. i + 1 \in DOMAIN queue /\ queue'[i] = queue[i + 1] /\ i \in Nat
      BY DEF QueueShrinks
    <3>2. \A k \in queue[i + 1].form.before : k \in Ids /\ Answered(k)
      BY <2>1, <3>1 DEF IInv, Ordered
    <3>3. \A j \in DOMAIN queue : i + 1 < j => queue[j].id \notin queue[i + 1].form.before
      BY <2>1, <3>1 DEF IInv, Ordered
    <3>4. \A j \in DOMAIN queue' : /\ j + 1 \in DOMAIN queue /\ queue'[j] = queue[j + 1]
                                   /\ i < j => i + 1 < j + 1
      BY <3>1 DEF QueueShrinks
    <3> QED
      BY <1>1, <1>3, <3>1, <3>2, <3>3, <3>4
  <2>2. ASSUME NEW i \in DOMAIN log, NEW j \in DOMAIN log', i < j
        PROVE  log'[j].id \notin log[i].form.before
    BY <2>2 DEF IInv, Ordered, LogGrows
  <2>3. ASSUME NEW i \in DOMAIN log, NEW j \in DOMAIN queue' PROVE queue'[j].id \notin log[i].form.before
    BY DEF IInv, Ordered, QueueShrinks
  <2>4. ASSUME NEW i \in DOMAIN log' \ DOMAIN log
        PROVE  /\ \A k \in log'[i].form.before : k \in Ids' /\ Answered(k)'
               /\ \A j \in DOMAIN queue' : queue'[j].id \notin log'[i].form.before
               /\ \A j \in DOMAIN log' : ~(i < j)
    <3>1. /\ 1 \in DOMAIN queue /\ queue[1].kind \in Mutating /\ log'[i].form = queue[1].form
          /\ \A j \in DOMAIN log : j < i
          /\ \A j \in DOMAIN log' : j \in DOMAIN log \/ j = i
      BY DEF LogGrows
    <3>2. /\ \A k \in queue[1].form.before : k \in Ids /\ Answered(k)
          /\ \A j \in DOMAIN queue : 1 < j => queue[j].id \notin queue[1].form.before
      BY <3>1 DEF IInv, Ordered
    <3>3. \A j \in DOMAIN queue' : j + 1 \in DOMAIN queue /\ queue'[j] = queue[j + 1] /\ 1 < j + 1
      BY DEF QueueShrinks, IInv, Types
    <3>4. i \in Nat /\ DOMAIN log \subseteq Nat
      BY DEF LogGrows, IInv, Types
    <3>5. \A j \in DOMAIN log' : ~(i < j)
      BY <3>1, <3>4
    <3> QED
      BY <1>1, <1>3, <3>1, <3>2, <3>3, <3>5
  <2>5. ASSUME NEW i \in DOMAIN log PROVE log'[i] = log[i] /\ \A k \in log[i].form.before : k \in Ids' /\ Answered(k)'
    BY <1>1, <1>3 DEF IInv, Ordered, LogGrows
  <2> QED
    BY <2>1, <2>2, <2>3, <2>4, <2>5 DEF Ordered
<1> QED
  BY <1>4, <1>5, <1>6, <1>7, <1>8, <1>9 DEF IInv

\* The call leaves, and its client hears of it if it is still there.
LEMMA ReplyFacts ==
  ASSUME IInv, queue # <<>>, NEW answer, Reply(queue[NextCall], answer), answer \in Answers
  PROVE  /\ 1 \in DOMAIN queue /\ queue[1] = queue[NextCall] /\ queue[1] \in Calls
         /\ QueueShrinks /\ AnswersCome(answer)
         /\ Answered(queue[1].id) \/ Heard(queue[1].id, answer)
<1>1. 1 \in DOMAIN queue /\ queue[1] = queue[NextCall] /\ queue[1] \in Calls
  BY FirstLeaves DEF IInv, Types, NextCall
<1>2. /\ queue' \in Seq(Calls) /\ Len(queue') = Len(queue) - 1
      /\ \A i \in 1 .. Len(queue) - 1 : queue'[i] = queue[i + 1]
  BY FirstLeaves DEF IInv, Types, Reply
<1>3. Len(queue) \in Nat /\ DOMAIN queue = 1 .. Len(queue) /\ DOMAIN queue' = 1 .. Len(queue')
  BY <1>2 DEF IInv, Types
<1>4. QueueShrinks
  <2> DEFINE n == Len(queue)
             m == Len(queue')
  <2>1. n \in Nat /\ DOMAIN queue = 1 .. n /\ DOMAIN queue' = 1 .. m /\ m = n - 1
    BY <1>2, <1>3
  <2>2. \A i \in 1 .. n - 1 : queue'[i] = queue[i + 1]
    BY <1>2
  <2> HIDE DEF n, m
  <2>3. \A i \in DOMAIN queue' : i \in Nat /\ i + 1 \in DOMAIN queue /\ i + 1 # 1 /\ i \in 1 .. n - 1
    BY <2>1
  <2> QED
    BY <1>2, <2>2, <2>3 DEF QueueShrinks
<1> DEFINE r == queue[1].id
<1>5. /\ r \in Ids
      /\ req[r].stage = "done" \/ (req[r].stage = "wait" /\ req[r].answer = None)
  BY <1>1 DEF IInv, InHand
<1>6. \A i \in DOMAIN queue' : queue'[i].id # r
  BY <1>1, <1>4 DEF QueueShrinks, IInv, InHand
<1>7. CASE req[r].stage = "wait"
  <2> DEFINE new == [req[r] EXCEPT !.answer = answer]
  <2>1. req[r] \in Live
    BY <1>5, <1>7 DEF IInv, Types, Ids, Done
  <2>2. new \in Live
    BY <2>1 DEF Live
  <2>3. req' = [req EXCEPT ![r] = new]
    BY <1>1, <1>7 DEF Reply
  <2> HIDE DEF new
  <2>4. req' \in Seq(Live \cup Done) /\ Ids' = Ids /\ req'[r] = new /\ \A k \in Ids : k # r => req'[k] = req[k]
    BY <1>5, <2>2, <2>3 DEF IInv, Types, Ids
  <2>5. Heard(r, answer)
    BY <1>1, <1>5, <1>6, <1>7, <2>4 DEF Heard, new
  <2> QED
    BY <1>1, <1>4, <2>4, <2>5 DEF AnswersCome
<1>8. CASE req[r].stage # "wait"
  <2>1. req' = req /\ Ids' = Ids
    BY <1>1, <1>8 DEF Reply, Ids
  <2> QED
    BY <1>1, <1>4, <1>5, <1>8, <2>1 DEF AnswersCome, Answered, IInv, Types
<1> QED
  BY <1>7, <1>8

\* A step that adds nothing to the log.
LEMMA NoGrowth == ASSUME IInv, UNCHANGED log PROVE LogGrows /\ DOMAIN log' \ DOMAIN log = {}
  BY DEF LogGrows, IInv, Types

\* The daemon serves the first call.
LEMMA ServeKeeps == ASSUME IInv, ServeChange \/ ServeRefusal \/ ServeRead PROVE IInv'
<1>1. queue # <<>>
  BY DEF ServeChange, ServeRefusal, ServeRead
<1>2. 1 \in DOMAIN queue /\ queue[1] = queue[NextCall] /\ queue[1] \in Calls
  BY <1>1, FirstLeaves DEF IInv, Types, NextCall
<1>3. store[queue[1].target] \in Contents
  BY <1>2 DEF IInv, Types, Calls
<1>4. CASE ServeChange
  <2>1. /\ queue[NextCall].kind \in Mutating /\ Accepts(queue[NextCall])
        /\ UNCHANGED <<daemon, page, deaths, outside>>
    BY <1>4 DEF ServeChange, Reply
  <2>2. CASE Effect(queue[NextCall]) /\ \E answer \in {"ok", "internal"} : Reply(queue[NextCall], answer)
    <3>1. PICK answer \in {"ok", "internal"} : Reply(queue[NextCall], answer)
      BY <2>2
    <3>2. answer \in Answers
      BY DEF Answers
    <3>3. /\ QueueShrinks /\ AnswersCome(answer)
          /\ Answered(queue[1].id) \/ Heard(queue[1].id, answer)
      BY <1>1, <3>1, <3>2, ReplyFacts
    <3>4. /\ LogGrows /\ store' \in [Targets -> Contents]
          /\ \E i \in DOMAIN log' : i \notin DOMAIN log
      BY <1>1, <2>1, <2>2, EffectGrows
    <3>5. ASSUME NEW k \in Ids, req[k].call \in Mutating, Heard(k, answer), answer = "ok"
          PROVE  Applied(k)'
      BY <3>4, <3>5 DEF Heard, LogGrows, Applied
    <3>6. daemon' \in {"up", "down"} /\ outside' \in 0 .. MaxOutside /\ deaths' \in 0 .. MaxDeaths
      BY <2>1 DEF IInv, Types
    <3> QED
      BY <2>1, <3>2, <3>3, <3>4, <3>5, <3>6, DaemonKeeps
  <2>3. CASE Reply(queue[NextCall], "internal") /\ UNCHANGED <<store, log>>
    <3>1. "internal" \in Answers
      BY DEF Answers
    <3>2. QueueShrinks /\ AnswersCome("internal")
      BY <1>1, <2>3, <3>1, ReplyFacts
    <3>3. LogGrows /\ DOMAIN log' \ DOMAIN log = {}
      BY <2>3, NoGrowth
    <3>4. /\ store' \in [Targets -> Contents] /\ daemon' \in {"up", "down"}
          /\ outside' \in 0 .. MaxOutside /\ deaths' \in 0 .. MaxDeaths
      BY <2>1, <2>3 DEF IInv, Types
    <3> QED
      BY <2>1, <3>1, <3>2, <3>3, <3>4, DaemonKeeps
  <2> QED
    BY <1>4, <2>2, <2>3 DEF ServeChange
<1>5. CASE ServeRefusal
  <2>1. queue[1].kind \in Mutating /\ UNCHANGED <<daemon, page, deaths, log>>
    BY <1>2, <1>5 DEF ServeRefusal, Reply
  <2>2. PICK answer \in {"already_exists", "source_changed", "managed", "legacy", "oversized",
                         "unsafe", "not_found"} : Reply(queue[NextCall], answer)
    BY <1>2, <1>3, <1>5, KindFacts DEF ServeRefusal
  <2>3. answer \in Answers /\ answer # "ok"
    BY DEF Answers
  <2>4. QueueShrinks /\ AnswersCome(answer)
    BY <1>1, <2>2, <2>3, ReplyFacts
  <2>5. LogGrows /\ DOMAIN log' \ DOMAIN log = {}
    BY <2>1, NoGrowth
  <2>6. store' \in [Targets -> Contents]
    BY <1>2, <1>5 DEF ServeRefusal, Written, Calls, IInv, Types
  <2>7. outside' \in 0 .. MaxOutside
    <3>1. MaxOutside \in Nat
      BY WebBounds
    <3>2. outside \in 0 .. MaxOutside
      BY DEF IInv, Types
    <3>3. outside' = outside \/ (outside < MaxOutside /\ outside' = outside + 1)
      BY <1>5 DEF ServeRefusal
    <3> QED
      BY <3>1, <3>2, <3>3
  <2>8. daemon' \in {"up", "down"} /\ deaths' \in 0 .. MaxDeaths
    BY <2>1 DEF IInv, Types
  <2> QED
    BY <2>1, <2>3, <2>4, <2>5, <2>6, <2>7, <2>8, DaemonKeeps
<1>6. CASE ServeRead
  <2>1. queue[1].kind \notin Mutating /\ UNCHANGED <<store, daemon, page, deaths, log, outside>>
    BY <1>2, <1>6 DEF ServeRead, Reply, Mutating, Destructive
  <2>2. PICK answer \in Answers : Reply(queue[NextCall], answer)
    BY <1>2, <1>3, <1>6, KindFacts DEF ServeRead, Answers
  <2>3. QueueShrinks /\ AnswersCome(answer)
    BY <1>1, <2>2, ReplyFacts
  <2>4. LogGrows /\ DOMAIN log' \ DOMAIN log = {}
    BY <2>1, NoGrowth
  <2>5. ASSUME NEW k \in Ids, req[k].call \in Mutating, Heard(k, answer), answer = "ok"
        PROVE  Applied(k)'
    <3>1. 1 \in DOMAIN queue /\ queue[1].id = k /\ req[k].stage = "wait"
      BY <2>5 DEF Heard
    <3>2. req[k].call = queue[1].kind
      BY <3>1 DEF IInv, InHand
    <3> QED
      BY <2>1, <2>5, <3>2
  <2>6. /\ store' \in [Targets -> Contents] /\ daemon' \in {"up", "down"}
        /\ outside' \in 0 .. MaxOutside /\ deaths' \in 0 .. MaxDeaths
    BY <2>1 DEF IInv, Types
  <2> QED
    BY <2>1, <2>2, <2>3, <2>4, <2>5, <2>6, DaemonKeeps
<1> QED
  BY <1>4, <1>5, <1>6

\* The daemon dies: what was queued is lost, and everyone who waits finds out.
LEMMA KillKeeps == ASSUME IInv, Kill PROVE IInv'
<1>1. "broken" \in Answers
  BY DEF Answers
<1>2. queue' = <<>> /\ queue' \in Seq(Calls) /\ DOMAIN queue' = {}
  BY DEF Kill
<1>3. QueueShrinks
  BY <1>2 DEF QueueShrinks
<1>4. /\ Ids' = Ids
      /\ req' = [r \in Ids |-> IF req[r].stage = "wait" /\ req[r].answer = None
                               THEN [req[r] EXCEPT !.answer = "broken"] ELSE req[r]]
  BY DEF Kill, Ids
<1>5. ASSUME NEW k \in Ids
      PROVE  req'[k] \in Live \cup Done /\ (req'[k] = req[k] \/ Heard(k, "broken"))
  <2>1. req[k] \in Live \cup Done
    BY DEF IInv, Types, Ids
  <2>2. CASE req[k].stage = "wait" /\ req[k].answer = None
    <3>1. req'[k] = [req[k] EXCEPT !.answer = "broken"] /\ req[k] \in Live
      BY <1>4, <2>1, <2>2 DEF Done
    <3> QED
      BY <1>1, <1>2, <2>2, <3>1 DEF Heard, Live
  <2>3. CASE ~(req[k].stage = "wait" /\ req[k].answer = None)
    BY <1>4, <2>1, <2>3
  <2> QED
    BY <2>2, <2>3
<1>6. req' \in Seq(Live \cup Done)
  <2>1. Ids = 1 .. Len(req) /\ Len(req) \in Nat
    BY DEF IInv, Types, Ids
  <2>2. req' \in [1 .. Len(req) -> Live \cup Done]
    BY <1>4, <1>5, <2>1
  <2> QED
    BY <2>1, <2>2
<1>7. AnswersCome("broken")
  BY <1>4, <1>5, <1>6 DEF AnswersCome
<1>8. LogGrows /\ store' \in [Targets -> Contents] /\ (DOMAIN log' \ DOMAIN log # {} => queue # <<>>)
  <2>1. CASE UNCHANGED <<store, log>>
    BY <2>1, NoGrowth DEF IInv, Types
  <2>2. CASE ~UNCHANGED <<store, log>>
    BY <2>2, EffectGrows DEF Kill
  <2> QED
    BY <2>1, <2>2
<1>9. ASSUME queue # <<>> PROVE Answered(queue[1].id) \/ Heard(queue[1].id, "broken")
  <2>1. 1 \in DOMAIN queue
    BY <1>9, FirstLeaves DEF IInv, Types
  <2>2. /\ queue[1].id \in Ids
        /\ \/ req[queue[1].id].stage = "done"
           \/ req[queue[1].id].stage = "wait" /\ req[queue[1].id].answer = None
    BY <2>1 DEF IInv, InHand
  <2>3. CASE req[queue[1].id].stage = "done"
    BY <2>3 DEF Answered
  <2>4. CASE req[queue[1].id].stage = "wait" /\ req[queue[1].id].answer = None
    BY <1>2, <1>4, <2>2, <2>4 DEF Heard
  <2> QED
    BY <2>2, <2>3, <2>4
<1>10. deaths' \in 0 .. MaxDeaths
  <2>1. MaxDeaths \in Nat
    BY WebBounds
  <2>2. deaths \in 0 .. MaxDeaths /\ deaths < MaxDeaths /\ deaths' = deaths + 1
    BY DEF Kill, IInv, Types
  <2> QED
    BY <2>1, <2>2
<1>11. daemon' \in {"up", "down"} /\ outside' \in 0 .. MaxOutside /\ UNCHANGED page
  BY DEF Kill, IInv, Types
<1> QED
  BY <1>1, <1>3, <1>7, <1>8, <1>9, <1>10, <1>11, DaemonKeeps

-----------------------------------------------------------------------------
(* The handlers. *)

\* What a request that has not called the daemon, or has its answer, may rely on.
LEMMA Untouched ==
  ASSUME IInv, NEW r \in Ids
  PROVE  /\ req[r].stage \in {"cgi", "auth", "handler"} =>
              ~Answered(r) /\ Free(r) /\ ~Applied(r)
         /\ req[r].stage = "wait" => ~Answered(r) /\ req[r].verified
         /\ req[r].stage = "wait" /\ req[r].answer # None => Free(r)
         /\ req[r].stage = "wait" /\ req[r].call \notin Mutating => ~Applied(r)
         /\ req[r].stage = "wait" /\ req[r].answer \notin {"ok", "internal", "broken"} => ~Applied(r)
         /\ req[r].stage = "handler" => req[r].verified
<1>1. Answered(r) <=> req[r].stage = "done"
  BY DEF Answered
<1>2. ~Answered(r) => RequestHolds(r)
  BY DEF IInv, RequestsHold
<1>3. Free(r) \/ req[r].stage = "done" \/ (req[r].stage = "wait" /\ req[r].answer = None)
  BY DEF Free, IInv, InHand
<1>4. \/ ~Applied(r) \/ req[r].stage = "done"
      \/ /\ req[r].stage = "wait" /\ req[r].call \in Mutating
         /\ req[r].answer \in {"ok", "internal", "broken"}
  BY DEF Applied, IInv, InHand
<1> QED
  BY <1>1, <1>2, <1>3, <1>4 DEF RequestHolds

\* A response without a form, at a point where the form has changed nothing.
LEMMA RespondKeeps ==
  ASSUME IInv, NEW r \in Ids, req[r].stage # "done", NEW status \in Statuses \ {"303"},
         status \in Refusals => Free(r) /\ ~Applied(r), Respond(r, status)
  PROVE  IInv'
<1>1. ~Answered(r)
  BY DEF Answered
<1> QED
  BY <1>1, FinishKeeps DEF Respond

\* The bridge and the administrator check.
LEMMA BridgeKeeps ==
  ASSUME IInv, NEW r \in Ids, Forward(r) \/ BridgeFails(r) \/ RequireAdmin(r)
  PROVE  IInv'
<1>1. req[r].stage \in {"cgi", "auth"}
  BY DEF Forward, BridgeFails, RequireAdmin
<1>2. req[r] \in Live /\ ~Answered(r) /\ Free(r) /\ ~Applied(r)
  BY <1>1, Untouched DEF IInv, Types, Ids, Done
<1>3. ASSUME NEW status \in {"bad gateway", "401", "503"}, Respond(r, status) PROVE IInv'
  <2>1. status \in Statuses \ {"303"} /\ req[r].stage # "done"
    BY <1>1 DEF Statuses
  <2> QED
    BY <1>2, <1>3, <2>1, RespondKeeps
<1>4. CASE Forward(r)
  <2>1. PICK whole \in BOOLEAN : Set(r, [req[r] EXCEPT !.stage = "auth", !.whole = whole])
    BY <1>4 DEF Forward
  <2> DEFINE new == [req[r] EXCEPT !.stage = "auth", !.whole = whole]
  <2>2. /\ new \in Live /\ new.stage = "auth"
        /\ new.origin = req[r].origin /\ new.route = req[r].route
        /\ new.msg = req[r].msg /\ new.before = req[r].before
    BY <1>2 DEF Live
  <2>3. Set(r, new) /\ UNCHANGED <<store, daemon, queue, log, page, outside, deaths>>
    BY <1>4, <2>1 DEF Forward
  <2> HIDE DEF new
  <2> QED
    BY <1>1, <2>2, <2>3, AdvanceKeeps
<1>5. CASE BridgeFails(r)
  BY <1>3, <1>5 DEF BridgeFails
<1>6. CASE RequireAdmin(r)
  <2> DEFINE new == [req[r] EXCEPT !.stage = "handler", !.verified = TRUE]
  <2>1. \/ Respond(r, "401") \/ Respond(r, "503")
        \/ Set(r, new) /\ UNCHANGED <<store, daemon, queue, log, page, outside, deaths>>
    BY <1>6 DEF RequireAdmin
  <2>2. /\ new \in Live /\ new.stage = "handler" /\ new.verified
        /\ new.origin = req[r].origin /\ new.route = req[r].route
        /\ new.msg = req[r].msg /\ new.before = req[r].before
    BY <1>2 DEF Live
  <2> HIDE DEF new
  <2>3. CASE Set(r, new) /\ UNCHANGED <<store, daemon, queue, log, page, outside, deaths>>
    BY <1>1, <2>2, <2>3, AdvanceKeeps
  <2> QED
    BY <1>3, <2>1, <2>3
<1> QED
  BY <1>4, <1>5, <1>6

\* The handlers before any call: what they refuse, what they send, what they
\* show.
LEMMA HandlerKeeps ==
  ASSUME IInv, NEW r \in Ids, Refuse(r) \/ BadForm(r) \/ Change(r) \/ Show(r)
  PROVE  IInv'
<1>1. req[r].stage = "handler"
  BY DEF Refuse, BadForm, Change, Show, Handling, HandleAlertCreate, HandleAlertWrite,
         HandleAlertConvert, HandleAlertDelete, HandleLocalNodes, ShowSettings, ShowList,
         ShowNew, ShowAlert, HandleDeleteConfirmation
<1>2. /\ req[r] \in Live /\ ~Answered(r) /\ Free(r) /\ ~Applied(r) /\ req[r].verified
      /\ RequestHolds(r)
  BY <1>1, Untouched DEF IInv, Types, Ids, Done, RequestsHold
<1>3. ASSUME NEW status \in Statuses \ {"303"}, Respond(r, status) PROVE IInv'
  BY <1>1, <1>2, <1>3, RespondKeeps
<1>4. CASE Refuse(r)
  <2>1. {"403", "404", "405"} \subseteq Statuses \ {"303"}
    BY DEF Statuses
  <2>2. Respond(r, "405") \/ Respond(r, "403") \/ Respond(r, "404")
    BY <1>4 DEF Refuse
  <2> QED
    BY <1>3, <2>1, <2>2
<1>5. CASE BadForm(r)
  BY <1>3, <1>5 DEF BadForm, Statuses
<1>6. CASE Change(r)
  <2>1. ASSUME NEW kind \in Mutating, NEW route, Handling(r, route, {"POST"}),
               kind = Operation(route), Call(r, kind, req[r].msg, None)
        PROVE  IInv'
    <3>1. req[r].method = "POST" /\ req[r].origin = "same" /\ kind = Operation(req[r].route)
      BY <2>1 DEF Handling, SameOrigin
    <3>2. req[r].msg \in Filled
      BY <1>2 DEF Live
    <3>3. MayCall(r, kind, req[r].msg, None)
      BY <1>2, <3>1, <3>2 DEF MayCall, Kinds, Mutating, Destructive
    <3> QED
      BY <2>1, <3>3, CallKeeps
  <2>2. {"create", "write", "convert", "delete"} = Mutating
    BY DEF Mutating, Destructive
  <2>3. CASE HandleAlertCreate(r)
    BY <2>1, <2>2, <2>3, OperationFacts DEF HandleAlertCreate, ParseForm, Create
  <2>4. CASE HandleAlertWrite(r)
    BY <2>1, <2>2, <2>4, OperationFacts DEF HandleAlertWrite, ParseForm, Write
  <2>5. CASE HandleAlertConvert(r)
    BY <2>1, <2>2, <2>5, OperationFacts DEF HandleAlertConvert, ParseForm, Convert
  <2>6. CASE HandleAlertDelete(r)
    <3>1. Handling(r, "delete", {"POST"}) /\ Call(r, "delete", Absent, None)
      BY <2>6 DEF HandleAlertDelete, Delete
    <3>2. req[r].msg = Absent
      BY <1>2, <3>1 DEF Handling, SameOrigin, RequestHolds
    <3> QED
      BY <2>1, <2>2, <3>1, <3>2, OperationFacts
  <2> QED
    BY <1>6, <2>3, <2>4, <2>5, <2>6 DEF Change
<1>7. CASE Show(r)
  <2>1. {"200", "503"} \subseteq Statuses \ {"303"}
    BY DEF Statuses
  <2>2. ASSUME NEW kind \in {"read", "list", "settings"}, Call(r, kind, Absent, None),
               kind # "read" => req[r].route \notin {"alert", "delete"}
        PROVE  IInv'
    <3>1. kind \in Kinds /\ kind \notin Mutating
      BY DEF Kinds, Mutating, Destructive
    <3>2. MayCall(r, kind, Absent, None)
      BY <1>2, <2>2, <3>1 DEF MayCall, Filled
    <3> QED
      BY <2>2, <3>2, CallKeeps
  <2>3. CASE HandleLocalNodes(r)
    BY <1>3, <2>1, <2>3 DEF HandleLocalNodes
  <2>4. CASE ShowSettings(r)
    BY <1>3, <2>1, <2>2, <2>4 DEF ShowSettings, Handling, SettingsRead
  <2>5. CASE ShowList(r)
    BY <2>2, <2>5 DEF ShowList, Handling, List
  <2>6. CASE ShowNew(r)
    BY <1>3, <2>1, <2>2, <2>6 DEF ShowNew, Handling, List
  <2>7. CASE ShowAlert(r)
    BY <2>2, <2>7 DEF ShowAlert, Handling, Read
  <2>8. CASE HandleDeleteConfirmation(r)
    BY <2>2, <2>8 DEF HandleDeleteConfirmation, Handling, Read
  <2> QED
    BY <1>7, <2>3, <2>4, <2>5, <2>6, <2>7, <2>8 DEF Show
<1> QED
  BY <1>4, <1>5, <1>6, <1>7

\* The handlers after a call: the answer comes, or the time is over.
LEMMA ReceiveKeeps ==
  ASSUME IInv, NEW r \in Ids,
         ReceiveChange(r) \/ ReceiveEntry(r) \/ ReceivePage(r) \/ GiveUp(r)
  PROVE  IInv'
<1>1. req[r].stage = "wait"
  BY DEF ReceiveChange, ReceiveEntry, ReceivePage, GiveUp
<1>2. /\ req[r] \in Live /\ ~Answered(r) /\ RequestHolds(r) /\ req[r].verified
      /\ req[r].stage # "done"
  BY <1>1, Untouched DEF IInv, Types, Ids, Done, RequestsHold
<1>3. CASE ReceiveChange(r)
  <2> DEFINE status == ChangeStatus(req[r].call, req[r].answer)
  <2>1. /\ status \in {"303", "404", "409", "503"}
        /\ status = "303" => req[r].answer = "ok"
        /\ req[r].answer \in {"ok", "internal", "broken"} => status \in {"303", "503"}
    BY StatusFacts
  <2>2. Finish(r, status, "none") /\ Free(r) /\ req[r].call \in Mutating /\ req[r].answer # None
    BY <1>1, <1>3, Untouched DEF ReceiveChange, Respond
  <2> HIDE DEF status
  <2>3. status \in Statuses
    BY <2>1 DEF Statuses
  <2>4. status = "303" => Applied(r)
    BY <1>1, <2>1, <2>2 DEF IInv, AnswersHold
  <2>5. status \in Refusals => Free(r) /\ ~Applied(r)
    BY <1>1, <2>1, <2>2, Untouched DEF Refusals
  <2> QED
    BY <1>2, <2>2, <2>3, <2>4, <2>5, FinishKeeps
<1>4. CASE ReceiveEntry(r)
  <2>1. req[r].call = "read" /\ req[r].answer # None /\ "read" \notin Mutating
    BY <1>4 DEF ReceiveEntry, Mutating, Destructive
  <2>2. Free(r) /\ ~Applied(r)
    BY <1>1, <2>1, Untouched
  <2>3. {"200", "404", "409", "503"} \subseteq Statuses \ {"303"}
    BY DEF Statuses
  <2>4. \/ \E status \in {"200", "404", "409", "503"} : Respond(r, status)
        \/ req[r].answer \in Contents /\ List(r, req[r].answer)
    BY <1>4 DEF ReceiveEntry
  <2>5. CASE \E status \in {"200", "404", "409", "503"} : Respond(r, status)
    BY <1>2, <2>2, <2>3, <2>5, RespondKeeps
  <2>6. CASE req[r].answer \in Contents /\ List(r, req[r].answer)
    <3>1. "list" \in Kinds /\ "list" \notin Mutating
      BY DEF Kinds, Mutating, Destructive
    <3>2. MayCall(r, "list", Absent, req[r].answer)
      BY <1>2, <2>2, <2>6, <3>1 DEF MayCall, Filled
    <3>3. Call(r, "list", Absent, req[r].answer)
      BY <2>6 DEF List
    <3> QED
      BY <3>2, <3>3, CallKeeps
  <2> QED
    BY <2>4, <2>5, <2>6
<1>5. CASE ReceivePage(r)
  <2> DEFINE form == IF req[r].method = "GET" THEN FormFor(req[r].route, req[r].entry) ELSE "none"
  <2>1. req[r].call \in {"list", "settings"} /\ (Respond(r, "503") \/ Finish(r, "200", form))
    BY <1>5 DEF ReceivePage
  <2>2. /\ form \in {"none", "new", "alert", "convert", "delete"}
        /\ form \in {"alert", "convert", "delete"} => req[r].route \in {"alert", "delete"}
    BY FormFacts
  <2> HIDE DEF form
  <2>3. form \in {"alert", "convert", "delete"} => req[r].entry \in Contents
    BY <1>1, <1>2, <2>1, <2>2 DEF RequestHolds
  <2>4. "200" \in Statuses \ {"303"} /\ "503" \in Statuses \ {"303"}
        /\ "200" \notin Refusals /\ "503" \notin Refusals
    BY DEF Statuses, Refusals
  <2>5. CASE Respond(r, "503")
    BY <1>2, <2>4, <2>5, RespondKeeps
  <2>6. CASE Finish(r, "200", form)
    BY <1>2, <2>2, <2>3, <2>4, <2>6, FinishKeeps
  <2> QED
    BY <2>1, <2>5, <2>6
<1>6. CASE GiveUp(r)
  <2>1. "503" \in Statuses \ {"303"} /\ "503" \notin Refusals /\ Respond(r, "503")
    BY <1>6 DEF Statuses, Refusals, GiveUp
  <2> QED
    BY <1>2, <2>1, RespondKeeps
<1> QED
  BY <1>3, <1>4, <1>5, <1>6

-----------------------------------------------------------------------------
(* The browsers, and every step. *)

\* A browser sends a form of this node, a form of another site, or none.
LEMMA BrowserKeeps == ASSUME IInv, NEW u \in Users, Browser(u) PROVE IInv'
<1>1. PICK t \in Targets :
        \/ \E method \in Methods, route \in Routes : Visit(u, method, route, t)
        \/ \E m \in Messages \cap Written :
             Save(u, t, m) \/ \E route \in Routes, origin \in {"none", "other"} : SubmitForeign(u, route, t, m, origin)
  BY DEF Browser
<1>2. ASSUME NEW method \in Methods, NEW route \in Routes, Visit(u, method, route, t) PROVE IInv'
  <2>1. Absent \in Filled /\ "none" \in Origins
    BY DEF Filled, Origins
  <2> QED
    BY <1>2, <2>1, SubmitKeeps DEF Visit
<1>3. ASSUME NEW m \in Messages, Save(u, t, m) PROVE IInv'
  <2>1. page[u] \in Shown
    BY <1>3 DEF Save, IInv, Types
  <2> DEFINE msg == IF page[u].route = "delete" THEN Absent ELSE m
  <2>2. page[u].route \in Routes /\ page[u].seen \in Contents \cup {None}
    BY <2>1 DEF Shown, Routes
  <2>3. msg \in Filled /\ (page[u].route = "delete" => msg = Absent)
    BY DEF Filled
  <2>4. Submit(u, "POST", page[u].route, t, msg, page[u].seen, "same")
    BY <1>3 DEF Save
  <2>5. "POST" \in Methods /\ "same" \in Origins
    BY DEF Methods, Origins
  <2> HIDE DEF msg
  <2> QED
    BY <2>2, <2>3, <2>4, <2>5, SubmitKeeps
<1>4. ASSUME NEW m \in Messages, NEW route \in Routes, NEW origin \in {"none", "other"},
             SubmitForeign(u, route, t, m, origin)
      PROVE  IInv'
  <2>1. m \in Filled /\ origin \in Origins /\ origin # "same" /\ "POST" \in Methods
    BY DEF Filled, Origins, Methods
  <2>2. Submit(u, "POST", route, t, m, None, origin)
    BY <1>4 DEF SubmitForeign
  <2> QED
    BY <2>1, <2>2, SubmitKeeps
<1> QED
  BY <1>1, <1>2, <1>3, <1>4

\* The invariant holds at the start, whatever forms the browsers still show.
LEMMA InitHolds == Init => IInv
<1> SUFFICES ASSUME Init PROVE IInv
  OBVIOUS
<1>1. /\ queue = <<>> /\ log = <<>> /\ req = <<>>
      /\ queue \in Seq(Calls) /\ log \in Seq(Changes) /\ req \in Seq(Live \cup Done)
      /\ DOMAIN queue = {} /\ DOMAIN log = {} /\ DOMAIN req = {}
  BY DEF Init
<1>2. \A t \in Targets : Pages(t) \subseteq Shown
  <2> SUFFICES ASSUME NEW t \in Targets, NEW p \in Pages(t) PROVE p \in Shown
    OBVIOUS
  <2>1. CASE p = [route |-> FormFor("new", Absent), target |-> t, seen |-> Absent]
    <3>1. FormFor("new", Absent) = "new"
      BY DEF FormFor
    <3> QED
      BY <2>1, <3>1 DEF Shown, Contents
  <2>2. ASSUME NEW route \in {"alert", "delete"}, NEW c \in Messages \cup Legacy,
               p = [route |-> FormFor(route, c), target |-> t, seen |-> c]
        PROVE  p \in Shown
    <3>1. FormFor(route, c) \in {"alert", "convert", "delete"}
      BY PageForms
    <3> QED
      BY <2>2, <3>1 DEF Shown, Contents
  <2> QED
    BY <2>1, <2>2 DEF Pages
<1>3. page \in [Users -> {None} \cup Shown]
  BY <1>2 DEF Init
<1>4. store \in [Targets -> Contents] /\ daemon \in {"up", "down"}
  BY DEF Init, Written
<1>5. outside \in 0 .. MaxOutside /\ deaths \in 0 .. MaxDeaths
  BY WebBounds DEF Init
<1>6. Types
  BY <1>1, <1>3, <1>4, <1>5 DEF Types
<1> QED
  BY <1>1, <1>6 DEF IInv, FormsHold, RequestsHold, InHand, AppliedOnce, AnswersHold, Ordered, Ids

\* Every step keeps the invariant.
LEMMA NextKeeps == IInv /\ [Next]_vars => IInv'
<1> SUFFICES ASSUME IInv, [Next]_vars PROVE IInv'
  OBVIOUS
<1>1. store \in [Targets -> Contents] /\ daemon \in {"up", "down"}
      /\ outside \in 0 .. MaxOutside /\ deaths \in 0 .. MaxDeaths
  BY DEF IInv, Types
<1>2. ASSUME NEW u \in Users, Browser(u) PROVE IInv'
  BY <1>2, BrowserKeeps
<1>3. ASSUME NEW r \in Ids, Process(r) \/ BridgeFails(r) PROVE IInv'
  BY <1>3, BridgeKeeps, HandlerKeeps, ReceiveKeeps DEF Process
<1>4. CASE Daemon
  <2>1. CASE Start
    BY <1>1, <2>1, QuietKeeps DEF Start
  <2> QED
    BY <1>4, <2>1, ServeKeeps DEF Daemon
<1>5. CASE Kill
  BY <1>5, KillKeeps
<1>6. CASE WebDies
  BY <1>6, WebDiesKeeps
<1>7. ASSUME NEW t \in Targets, NEW c \in Written, OutsideChange(t, c) PROVE IInv'
  <2>1. store' \in [Targets -> Contents]
    BY <1>1, <1>7 DEF OutsideChange, Written
  <2>2. outside' \in 0 .. MaxOutside
    <3>1. outside < MaxOutside /\ outside' = outside + 1
      BY <1>7 DEF OutsideChange
    <3> QED
      BY <1>1, <3>1, WebBounds
  <2>3. UNCHANGED <<daemon, queue, log, page, req, deaths>>
    BY <1>7 DEF OutsideChange
  <2> QED
    BY <1>1, <2>1, <2>2, <2>3, QuietKeeps
<1>8. CASE UNCHANGED vars
  BY <1>1, <1>8, QuietKeeps DEF vars
<1> QED
  BY <1>2, <1>3, <1>4, <1>5, <1>6, <1>7, <1>8 DEF Next

-----------------------------------------------------------------------------
(* The theorems. *)

\* The inductive invariant holds in every state: where each request stands, what
\* it has sent to the daemon and what became of it always fit together.
THEOREM Invariance == Spec => []IInv
  BY InitHolds, NextKeeps, PTL DEF Spec

\* Alerts change only by a form of an administrator whom the node confirmed in
\* that request, sent from a page of this node, by the operation that the form
\* is for and with the message that was sent (RequireAdmin, sameOrigin and the
\* handlers), with every variable of its type.
THEOREM ChangesAreRightful == Spec => []ChangesInv
<1>1. IInv => TypeOK
  <2> SUFFICES ASSUME IInv PROVE TypeOK
    OBVIOUS
  <2>1. \A i \in DOMAIN queue : queue[i].id \in Ids /\ queue[i].msg \in Messages \cup {Absent}
    <3>1. \A i \in DOMAIN queue : queue[i] \in Calls
      BY DEF IInv, Types
    <3> QED
      BY <3>1 DEF IInv, InHand, Calls, Filled
  <2>2. \A i \in DOMAIN log : log[i].id \in Ids /\ log[i].replaced \in Contents
    <3>1. \A i \in DOMAIN log : log[i] \in Changes
      BY DEF IInv, Types
    <3> QED
      BY <3>1 DEF IInv, InHand, Changes
  <2>3. \A u \in Users : page[u] # None => page[u].seen \in Contents
    BY DEF IInv, Types, Shown
  <2>4. \A r \in Ids : \/ req[r].stage \in {"cgi", "auth", "handler", "wait"}
                       \/ req[r].stage = "done" /\ req[r].status \in Statuses
    <3>1. \A r \in Ids : req[r] \in Live \cup Done
      BY DEF IInv, Types, Ids
    <3> QED
      BY <3>1 DEF Live, Done
  <2> QED
    BY <2>1, <2>2, <2>3, <2>4 DEF TypeOK, IInv, Types
<1>2. IInv => OnlyAdministratorsChange /\ ChangesAreAsSent
  BY DEF IInv, FormsHold, Rightful, OnlyAdministratorsChange, ChangesAreAsSent
<1>3. IInv => ChangesInv
  BY <1>1, <1>2 DEF ChangesInv
<1> QED
  BY <1>3, Invariance, PTL

\* A request changes the alerts at most once, and none that has changed them
\* still has a call in the queue (Client.Call sends once and never again).
THEOREM RequestsApplyOnce == Spec => []AppliedOnce
<1>1. IInv => AppliedOnce
  BY DEF IInv, InHand
<1> QED
  BY <1>1, Invariance, PTL

\* A 303 means that the change was made, a 4xx that it was not and will not be
\* (the handlers' statuses for the daemon's answers).
THEOREM StatusesAreTrue == Spec => []PagesAreTrue
<1>1. IInv => PagesAreTrue
  BY DEF IInv, AnswersHold, Answered, PagesAreTrue, WillApply
<1> QED
  BY <1>1, Invariance, PTL

\* What a stale form destroys unseen is archived or was a managed message (what
\* Create, Write, Convert and Delete of the store take).
THEOREM StaleFormsDestroyNothing == Spec => []UnseenIsKept
<1>1. IInv => UnseenIsKept
  <2> SUFFICES ASSUME IInv, NEW i \in DOMAIN log, log[i].replaced \notin {log[i].form.seen, Absent},
                      ~log[i].archived
               PROVE  log[i].kind = "write" /\ log[i].replaced \in Messages
    BY DEF UnseenIsKept
  <2>1. log[i] \in Changes
    BY DEF IInv, Types
  <2>2. log[i].kind \in {"create", "write"} /\ KindOf(log[i].replaced) \in Takes(log[i].kind)
    BY <2>1 DEF IInv, FormsHold, Changes, Mutating
  <2>3. log[i].replaced \in Contents
    BY <2>1 DEF Changes
  <2> QED
    BY <2>2, <2>3, KindFacts, TakesFacts
<1> QED
  BY <1>1, Invariance, PTL

\* A form whose answer the user had before sending another is never applied
\* over that other one (the daemon serves one call after the other, in order).
THEOREM AnsweredComesFirst == Spec => []AnsweredMeansOrdered
<1>1. IInv => AnsweredMeansOrdered
  BY DEF IInv, Ordered, AnsweredMeansOrdered
<1> QED
  BY <1>1, Invariance, PTL
=============================================================================
