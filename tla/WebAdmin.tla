------------------------------ MODULE WebAdmin ------------------------------
(***************************************************************************)
(* Administration from end to end: the forms that users' browsers show,    *)
(* the CGI bridge that carries each request to the web process, the        *)
(* administrator check, the handlers, the typed control client, and the    *)
(* daemon that serves one call after the other.                            *)
(*                                                                         *)
(* The alert store appears as AtomicAlerts promises it (AlertStoreAtomic   *)
(* shows that the code keeps the promise), the daemon's queue as the one   *)
(* of ControlServer, reduced to its order and to calls that nobody waits   *)
(* for any more.  Requests are numbered in the order of their submission.  *)
(***************************************************************************)
EXTENDS AlertKinds, Naturals, Sequences, FiniteSets, SequencesExt

CONSTANTS
  Users,        \* who has a browser
  Cut,          \* the message in a form that arrived in part: nobody sends it
  None,         \* no form, no answer, nobody
  Visits,       \* the requests without a form that are made: method and route
  Foreign,      \* the forms that come from pages of other sites: route and Origin header
  MaxRequests,  \* bound on the requests
  MaxVisits,    \* bound on visits and foreign forms: only so many of the first requests
  MaxOutside,   \* bound on changes to the alert directory by others
  MaxDeaths     \* bound on deaths of the daemon or of the web process

\* The patterns that newHandler registers.
Routes == {"list", "new", "alert", "delete", "convert", "settings", "nodes"}

\* The store classifies an alert as one kind only.
ASSUME KindsDisjoint ==
  /\ Messages \cap Legacy = {}
  /\ {Big, Unsafe, Absent} \cap (Messages \cup Legacy) = {}

ASSUME WebBounds ==
  /\ MaxRequests \in Nat /\ MaxVisits \in Nat /\ MaxOutside \in Nat /\ MaxDeaths \in Nat
  /\ Cut \in Messages
  /\ Visits \subseteq {"GET", "HEAD"} \X Routes
  /\ Foreign \subseteq Routes \X {"none", "other"}

VARIABLES
  store,      \* target -> content of the alert
  daemon,     \* the daemon is "up" or "down"
  queue,      \* calls delivered to the daemon and not yet served
  log,        \* observed: the changes made to the store, in order
  page,       \* user -> the form in the browser and the content it was made from
  req,        \* the requests so far
  outside,    \* changes by others so far
  deaths      \* deaths so far

vars == <<store, daemon, queue, log, page, req, outside, deaths>>

-----------------------------------------------------------------------------
(* Requests and forms. *)

Methods == {"GET", "HEAD", "POST"}

\* The switch on request.Method at the head of each handler.
Allows(route) ==
  CASE route \in {"list", "settings"}         -> {"GET", "HEAD"}
    [] route = "nodes"                        -> {"GET"}
    [] route = "convert"                      -> {"POST"}
    [] route \in {"new", "alert", "delete"}   -> Methods

\* The form that the page of an alert offers for what Read returned.
FormFor(route, c) ==
  CASE route = "new"                               -> "new"
    [] route = "delete"                            -> "delete"
    [] route = "alert" /\ KindOf(c) = "managed"    -> "alert"
    [] route = "alert" /\ KindOf(c) = "legacy"     -> "convert"
    [] OTHER                                       -> "none"

\* What somebody writes or has written, in a form or into the directory.
Written == Contents \ {Cut}

\* The forms that pages of a target may have had, by what was read for them.
Pages(t) ==
  {[route |-> FormFor("new", Absent), target |-> t, seen |-> Absent]}
  \cup {[route |-> FormFor(route, c), target |-> t, seen |-> c] :
          route \in {"alert", "delete"}, c \in Written \cap (Messages \cup Legacy)}

Ids == DOMAIN req
Answered(r) == req[r].stage = "done"

\* A browser sends a request.  msg is what the user filled in, seen the content
\* that the page was made from, origin what the Origin header says.
Submit(u, method, route, t, msg, seen, origin) ==
  /\ Len(req) < MaxRequests
  /\ req' = Append(req,
       [stage |-> "cgi", user |-> u, method |-> method, route |-> route, target |-> t,
        msg |-> msg, seen |-> seen, origin |-> origin, before |-> {k \in Ids : Answered(k)},
        whole |-> TRUE, verified |-> FALSE, call |-> "none", entry |-> None, answer |-> None])
  /\ UNCHANGED <<store, daemon, queue, log, page, outside, deaths>>

\* A user follows a link.
Visit(u, method, route, t) ==
  /\ Len(req) < MaxVisits
  /\ <<method, route>> \in Visits
  /\ Submit(u, method, route, t, Absent, None, "none")

\* A user sends the form in the browser, perhaps not for the first time.
Save(u, t, m) ==
  /\ page[u] # None
  /\ page[u].route = "new" \/ t = page[u].target
  /\ Submit(u, "POST", page[u].route, t,
            IF page[u].route = "delete" THEN Absent ELSE m, page[u].seen, "same")

\* The browser sends a form of another site, with the user's cookies.
SubmitForeign(u, route, t, m, origin) ==
  /\ Len(req) < MaxVisits
  /\ <<route, origin>> \in Foreign
  /\ Submit(u, "POST", route, t, m, None, origin)

-----------------------------------------------------------------------------
(* The way of a request: cgi, auth, handler, wait while the control client   *)
(* waits for the daemon, and done.                                           *)

Set(r, values) == req' = [req EXCEPT ![r] = values]

\* What the page with a form shows of the alert.
SeenOn(r, form) == IF form = "new" THEN Absent ELSE req[r].entry

\* The response.  The page that it carries takes the place of the one before.
\* The handler comes to this point also when the bridge is gone; that nobody
\* then gets the response is no case of its own, for users act on their pages
\* or do not.
Finish(r, status, form) ==
  /\ Set(r, [stage |-> "done", status |-> status])
  /\ page' = IF form = "none" THEN page
             ELSE [page EXCEPT ![req[r].user] =
                     [route |-> form, target |-> req[r].target,
                      seen |-> SeenOn(r, form)]]
  /\ UNCHANGED <<store, daemon, queue, log, outside, deaths>>

Respond(r, status) == Finish(r, status, "none")

\* cgibridge.Run: newRequest refuses the environment, the browser's body ends
\* early, or there is no web process: the web server reports the failure.
\* Nothing was sent.
BridgeFails(r) == req[r].stage = "cgi" /\ Respond(r, "bad gateway")

\* Client.Do of the bridge: request and body are sent in one piece, with the
\* length that the browser declared.  The bridge may be killed half way.
Forward(r) ==
  /\ req[r].stage = "cgi"
  /\ \E whole \in BOOLEAN :
       /\ req[r].method # "POST" => whole
       /\ Set(r, [req[r] EXCEPT !.stage = "auth", !.whole = whole])
  /\ UNCHANGED <<store, daemon, queue, log, page, outside, deaths>>

\* The node's answer about the session, and what VerifySession makes of it: an
\* error when the node is not reached in time, or answers without a clear yes
\* or no, or without a name; the answer itself is read as AnswerReader says.
\* Sessions begin and end at any time.
VerifySession == {"administrator", "nobody", "error"}

\* Mutant: a session that cannot be verified is let through.
AuthFailsOpen(r) ==
  /\ req[r].stage = "auth"
  /\ \E session \in VerifySession :
       IF session = "nobody" THEN Respond(r, "401")
       ELSE /\ Set(r, [req[r] EXCEPT !.stage = "handler", !.verified = session = "administrator"])
            /\ UNCHANGED <<store, daemon, queue, log, page, outside, deaths>>

\* RequireAdmin: each request is verified anew, and goes on with its identity.
\* A request without the bridge's address header gets 503 as well.
RequireAdmin(r) ==
  /\ req[r].stage = "auth"
  /\ \E session \in VerifySession :
       \/ session = "nobody" /\ Respond(r, "401")
       \/ session \in {"administrator", "error"} /\ Respond(r, "503")
       \/ /\ session = "administrator"
          /\ Set(r, [req[r] EXCEPT !.stage = "handler", !.verified = TRUE])
          /\ UNCHANGED <<store, daemon, queue, log, page, outside, deaths>>

-----------------------------------------------------------------------------
(* The handlers and the typed control client. *)

\* Observed: the request that a change comes from, before it is forgotten.
FormOf(r) ==
  [method |-> req[r].method, route |-> req[r].route, origin |-> req[r].origin,
   verified |-> req[r].verified, msg |-> req[r].msg, seen |-> req[r].seen,
   before |-> req[r].before]

\* Client.Call: the connection is made and the request written; or the daemon
\* cannot be reached or the request is too large, and the page is a 503.
Call(r, kind, msg, entry) ==
  \/ /\ daemon = "up"
     /\ queue' = Append(queue, [id |-> r, kind |-> kind, target |-> req[r].target, msg |-> msg,
                               form |-> IF kind \in Mutating THEN FormOf(r) ELSE None])
     /\ Set(r, [req[r] EXCEPT !.stage = "wait", !.call = kind, !.entry = entry, !.answer = None])
     /\ UNCHANGED <<store, daemon, log, page, outside, deaths>>
  \/ Respond(r, "503")

\* The methods of the typed client.
Create(r, m) == Call(r, "create", m, None)
Write(r, m) == Call(r, "write", m, None)
Convert(r, m) == Call(r, "convert", m, None)
Delete(r) == Call(r, "delete", Absent, None)
Read(r) == Call(r, "read", Absent, None)
List(r, entry) == Call(r, "list", Absent, entry)
SettingsRead(r) == Call(r, "settings", Absent, None)

\* sameOrigin: the Origin header names this node.
SameOrigin(r) == req[r].origin = "same"

\* The handler of a route has a request with a method that it allows.
Handling(r, route, methods) ==
  /\ req[r].stage = "handler"
  /\ req[r].route = route
  /\ req[r].method \in methods
  /\ req[r].method \in Allows(route)
  /\ req[r].method = "POST" => SameOrigin(r)

\* The heads of the handlers: method, origin, and what was typed as a target.
Refuse(r) ==
  /\ req[r].stage = "handler"
  /\ \/ req[r].method \notin Allows(req[r].route) /\ Respond(r, "405")
     \/ req[r].method = "POST" /\ "POST" \in Allows(req[r].route) /\ ~SameOrigin(r) /\ Respond(r, "403")
     \/ \E route \in {"alert", "convert", "delete"} : Handling(r, route, Methods) /\ Respond(r, "404")
     \/ req[r].route = "list" /\ Respond(r, "404")

\* ParseForm on a MaxBytesReader (BodyReader): a body that ended early is an
\* error, never a shorter form.
ParseForm(r) == IF req[r].whole THEN {req[r].msg} ELSE {}

\* mutationMessage, and its like in Create and Delete, which want the target or
\* its confirmation, too.  The client refuses, as invalid, a message that the
\* daemon would not take.
BadForm(r) ==
  /\ \E route \in {"new", "alert", "convert", "delete"} : Handling(r, route, {"POST"})
  /\ Respond(r, "400")

HandleAlertCreate(r) == Handling(r, "new", {"POST"}) /\ \E m \in ParseForm(r) : Create(r, m)

HandleAlertWrite(r) == Handling(r, "alert", {"POST"}) /\ \E m \in ParseForm(r) : Write(r, m)

HandleAlertConvert(r) == Handling(r, "convert", {"POST"}) /\ \E m \in ParseForm(r) : Convert(r, m)

HandleAlertDelete(r) == Handling(r, "delete", {"POST"}) /\ ParseForm(r) # {} /\ Delete(r)

\* The node list is read from files of the node, without a call.
HandleLocalNodes(r) == Handling(r, "nodes", {"GET"}) /\ \E status \in {"200", "503"} : Respond(r, status)

ShowSettings(r) ==
  \/ Handling(r, "settings", {"HEAD"}) /\ Respond(r, "200")
  \/ Handling(r, "settings", {"GET"}) /\ SettingsRead(r)

ShowList(r) == Handling(r, "list", {"GET", "HEAD"}) /\ List(r, None)

ShowNew(r) ==
  \/ Handling(r, "new", {"HEAD"}) /\ Respond(r, "200")
  \/ Handling(r, "new", {"GET"}) /\ List(r, None)

ShowAlert(r) == Handling(r, "alert", {"GET", "HEAD"}) /\ Read(r)

HandleDeleteConfirmation(r) == Handling(r, "delete", {"GET", "HEAD"}) /\ Read(r)

Show(r) ==
  HandleLocalNodes(r) \/ ShowSettings(r) \/ ShowList(r) \/ ShowNew(r) \/ ShowAlert(r)
  \/ HandleDeleteConfirmation(r)

Change(r) == HandleAlertCreate(r) \/ HandleAlertWrite(r) \/ HandleAlertConvert(r) \/ HandleAlertDelete(r)

\* Mutant: an answer that the handler does not know is taken for a conflict.
MutationConflict(answer) == IF answer = "not_found" THEN "404" ELSE "409"

\* handleMutationError of Write and Convert.
MutationError(answer) ==
  CASE answer = "not_found" -> "404"
    [] answer \in {"legacy", "managed", "oversized", "source_changed"} -> "409"
    [] OTHER -> "503"

CreateError(answer) == IF answer = "already_exists" THEN "409" ELSE "503"

DeleteError(answer) ==
  CASE answer = "not_found" -> "404"
    [] answer \in {"oversized", "source_changed"} -> "409"
    [] OTHER -> "503"

\* The status for the answer to a mutation: a redirect to the list, or the
\* error's page.
ChangeStatus(call, result) ==
  IF result = "ok" THEN "303"
  ELSE IF call = "create" THEN CreateError(result)
  ELSE IF call = "delete" THEN DeleteError(result)
  ELSE MutationError(result)

ReceiveChange(r) ==
  /\ req[r].stage = "wait"
  /\ req[r].call \in Mutating
  /\ req[r].answer # None
  /\ Respond(r, ChangeStatus(req[r].call, req[r].answer))

\* The answer to Read, for the page of an alert or of its deletion: HEAD is
\* complete, a GET lists the rest, and an oversized alert cannot be deleted.
ReceiveEntry(r) ==
  LET result == req[r].answer
      refused == result = Big /\ req[r].route = "delete" IN
  /\ req[r].stage = "wait"
  /\ req[r].call = "read"
  /\ result # None
  /\ \/ result = "not_found" /\ Respond(r, "404")
     \/ result \notin Contents \cup {"not_found"} /\ Respond(r, "503")
     \/ refused /\ Respond(r, "409")
     \/ /\ result \in Contents /\ ~refused
        /\ IF req[r].method = "HEAD" THEN Respond(r, "200")
           ELSE List(r, result)

\* The answer to List or SettingsRead: the page and its form.
ReceivePage(r) ==
  /\ req[r].stage = "wait"
  /\ req[r].call \in {"list", "settings"}
  /\ req[r].answer # None
  /\ \/ req[r].answer # "ok" /\ Respond(r, "503")
     \/ /\ req[r].answer = "ok"
        /\ Finish(r, "200", IF req[r].method = "GET" THEN FormFor(req[r].route, req[r].entry)
                             ELSE "none")

\* Mutant: the client tries again, once, before it gives up.
GiveUpRetries(r) ==
  /\ req[r].stage = "wait"
  /\ Cardinality({i \in DOMAIN queue : queue[i].id = r}) < 2
  /\ Call(r, req[r].call, req[r].msg, req[r].entry)

\* Mutant: the client waits for the daemon as long as it takes.
GiveUpNever(r) == FALSE /\ Respond(r, "503")

\* The client's five seconds are over, even if an answer has come.  A call
\* that is in the daemon's queue stays there.
GiveUp(r) == req[r].stage = "wait" /\ Respond(r, "503")

-----------------------------------------------------------------------------
(* The daemon: one call after the other. *)

\* Mutant: the newest call is served first.
NewestCall == Len(queue)

NextCall == 1

\* The call leaves the queue; its client, if still there, has the answer.
Reply(call, answer) ==
  /\ queue' = RemoveAt(queue, NextCall)
  /\ req' = IF req[call.id].stage = "wait" THEN [req EXCEPT ![call.id].answer = answer] ELSE req
  /\ UNCHANGED <<daemon, page, deaths>>

\* The call takes effect.
Effect(call) ==
  /\ store' = [store EXCEPT ![call.target] = call.msg]
  /\ log' = Append(log, [id |-> call.id, kind |-> call.kind, msg |-> call.msg,
                         replaced |-> store[call.target],
                         archived |-> call.kind \in Destructive, form |-> call.form])

Accepts(call) == KindOf(store[call.target]) \in Takes(call.kind)

\* Applied and so answered; an error of the file system may come before the
\* effect or after it.
ServeChange ==
  /\ daemon = "up" /\ queue # <<>>
  /\ LET call == queue[NextCall] IN
       /\ call.kind \in Mutating
       /\ Accepts(call)
       /\ \/ Effect(call) /\ \E answer \in {"ok", "internal"} : Reply(call, answer)
          \/ Reply(call, "internal") /\ UNCHANGED <<store, log>>
  /\ UNCHANGED outside

\* Refused as the alert stands, or because somebody else changed it meanwhile.
ServeRefusal ==
  /\ daemon = "up" /\ queue # <<>>
  /\ LET call == queue[NextCall]
         t == call.target IN
       /\ call.kind \in Mutating
       /\ \/ /\ ~Accepts(call)
             /\ Reply(call, IF call.kind = "create" THEN "already_exists" ELSE KindOf(store[t]))
             /\ UNCHANGED <<store, outside>>
          \/ /\ Accepts(call) /\ call.kind \in Destructive
             /\ outside < MaxOutside
             /\ outside' = outside + 1
             /\ \E c \in Written \ {store[t]} : store' = [store EXCEPT ![t] = c]
             /\ Reply(call, "source_changed")
  /\ UNCHANGED log

\* Read returns what it found; a listing or the settings may fail.
ServeRead ==
  /\ daemon = "up" /\ queue # <<>>
  /\ LET call == queue[NextCall]
         c == store[call.target] IN
       \/ call.kind = "read" /\ Reply(call, IF c \in {Absent, Unsafe} THEN KindOf(c) ELSE c)
       \/ call.kind \in {"list", "settings"} /\ \E answer \in {"ok", "internal"} : Reply(call, answer)
  /\ UNCHANGED <<store, log, outside>>

\* The daemon is killed, perhaps right after the effect of a call: everyone
\* waiting finds the connection closed without an answer.
Kill ==
  /\ daemon = "up"
  /\ deaths < MaxDeaths
  /\ deaths' = deaths + 1
  /\ daemon' = "down"
  /\ queue' = <<>>
  /\ req' = [r \in Ids |-> IF req[r].stage = "wait" /\ req[r].answer = None
                            THEN [req[r] EXCEPT !.answer = "broken"] ELSE req[r]]
  /\ \/ UNCHANGED <<store, log>>
     \/ /\ queue # <<>>
        /\ queue[NextCall].kind \in Mutating
        /\ Accepts(queue[NextCall])
        /\ Effect(queue[NextCall])
  /\ UNCHANGED <<page, outside>>

Start ==
  /\ daemon = "down"
  /\ daemon' = "up"
  /\ UNCHANGED <<store, queue, log, page, req, outside, deaths>>

\* The web process dies with all its handlers and is started again.  Calls that
\* are in the daemon's queue stay there.
WebDies ==
  /\ deaths < MaxDeaths
  /\ deaths' = deaths + 1
  /\ req' = [r \in Ids |->
       IF req[r].stage \in {"cgi", "done"} THEN req[r]
       ELSE [stage |-> "done", status |-> "bad gateway"]]
  /\ UNCHANGED <<store, daemon, queue, log, page, outside>>

\* Somebody else writes into the alert directory.
OutsideChange(t, c) ==
  /\ outside < MaxOutside
  /\ c # store[t]
  /\ outside' = outside + 1
  /\ store' = [store EXCEPT ![t] = c]
  /\ UNCHANGED <<daemon, queue, log, page, req, deaths>>

-----------------------------------------------------------------------------
\* Any alerts, and in each browser no form or one from an earlier visit.
Init ==
  /\ store \in [Targets -> Written]
  /\ daemon = "up"
  /\ queue = <<>>
  /\ log = <<>>
  /\ page \in [Users -> {None} \cup UNION {Pages(t) : t \in Targets}]
  /\ req = <<>>
  /\ outside = 0
  /\ deaths = 0

Browser(u) ==
  \E t \in Targets :
    \/ \E method \in Methods, route \in Routes : Visit(u, method, route, t)
    \/ \E m \in Messages \cap Written :
         Save(u, t, m) \/ \E route \in Routes, origin \in {"none", "other"} : SubmitForeign(u, route, t, m, origin)

\* The steps of the bridge and of the web process for a request.
Process(r) ==
  \/ Forward(r) \/ RequireAdmin(r) \/ Refuse(r) \/ BadForm(r) \/ Show(r) \/ Change(r)
  \/ ReceiveChange(r) \/ ReceiveEntry(r) \/ ReceivePage(r) \/ GiveUp(r)

Daemon == ServeChange \/ ServeRefusal \/ ServeRead \/ Start

Next ==
  \/ \E u \in Users : Browser(u)
  \/ \E r \in Ids : Process(r) \/ BridgeFails(r)
  \/ Daemon \/ Kill \/ WebDies
  \/ \E t \in Targets, c \in Written : OutsideChange(t, c)

Spec == Init /\ [][Next]_vars

\* Every request is a goroutine of its own, and every wait in it has a
\* deadline.  Nothing is assumed of the daemon.
FairSpec == Spec /\ \A r \in 1 .. MaxRequests : WF_vars(r \in Ids /\ Process(r))

-----------------------------------------------------------------------------
(* Properties. *)

Statuses == {"200", "303", "400", "401", "403", "404", "405", "409", "503", "bad gateway"}

\* The type of every variable.
TypeOK ==
  /\ store \in [Targets -> Contents]
  /\ daemon \in {"up", "down"}
  /\ \A i \in DOMAIN queue : queue[i].id \in Ids /\ queue[i].msg \in Messages \cup {Absent}
  /\ \A i \in DOMAIN log : log[i].id \in Ids /\ log[i].replaced \in Contents
  /\ \A u \in Users : page[u] # None => page[u].seen \in Contents
  /\ \A r \in Ids :
       \/ req[r].stage \in {"cgi", "auth", "handler", "wait"}
       \/ req[r].stage = "done" /\ req[r].status \in Statuses
  /\ outside \in 0 .. MaxOutside /\ deaths \in 0 .. MaxDeaths

\* The mutation that a form is for.
Operation(route) ==
  CASE route = "new"     -> "create"
    [] route = "alert"   -> "write"
    [] route = "convert" -> "convert"
    [] route = "delete"  -> "delete"
    [] OTHER             -> "none"

\* Whatever happens between the check of the session and the change, the alerts
\* change only by a form that an administrator whom the node confirmed during
\* this very request sent from a page of this node, and the change is the one
\* that the form is for.
OnlyAdministratorsChange ==
  \A i \in DOMAIN log :
    LET form == log[i].form IN
    form.verified /\ form.method = "POST" /\ form.origin = "same"
                  /\ log[i].kind = Operation(form.route)

\* A change is what its form said, as a whole, also when the bridge died while
\* it sent the form.
ChangesAreAsSent == \A i \in DOMAIN log : log[i].msg = log[i].form.msg

\* The types, and changes that are an administrator's own and as they were sent
\* (RequireAdmin, sameOrigin, ParseForm and the handlers).
ChangesInv == TypeOK /\ OnlyAdministratorsChange /\ ChangesAreAsSent

\* A request changes the alerts at most once: when its client has given up or
\* its handler died, nothing sends the call a second time.
AppliedOnce ==
  /\ \A i, j \in DOMAIN log : log[i].id = log[j].id => i = j
  /\ \A i \in DOMAIN log, j \in DOMAIN queue : log[i].id # queue[j].id

Applied(r) == \E i \in DOMAIN log : log[i].id = r
WillApply(r) == \E i \in DOMAIN queue : queue[i].id = r /\ queue[i].kind \in Mutating
Refusals == {"400", "401", "403", "404", "405", "409"}

\* The page tells the truth: a redirect (303) means that the change was made, a
\* refusal (4xx) that it was not made and will not be made later.  Only 503 and
\* the web server's own error leave it open.
PagesAreTrue ==
  \A r \in Ids :
    req[r].stage = "done" =>
      /\ req[r].status = "303" => Applied(r)
      /\ req[r].status \in Refusals => ~Applied(r) /\ ~WillApply(r)

\* A form may be older than the alert.  What its change destroys without the
\* user having seen it is archived, or was a message that AAMM-NG itself wrote:
\* a stale form never costs a file that somebody else made.
UnseenIsKept ==
  \A i \in DOMAIN log :
    log[i].replaced \notin {log[i].form.seen, Absent} =>
      log[i].archived \/ (log[i].kind = "write" /\ log[i].replaced \in Messages)

\* A user who has the handler's answer, be it 503, and then sends another form,
\* need not fear the first one: if it is still to be applied it is applied
\* before the second, never over it.  (A request whose bridge was killed or ran
\* out of time has no such answer: its handler may still be at work.)
AnsweredMeansOrdered ==
  \A i, j \in DOMAIN log : i < j => log[j].id \notin log[i].form.before

\* Every request comes to its end, even when the daemon hangs or is down.
EveryRequestEnds ==
  \A r \in 1 .. MaxRequests : r \in Ids ~> (r \in Ids /\ req[r].stage = "done")
=============================================================================
