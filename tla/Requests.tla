------------------------------ MODULE Requests -------------------------------
(***************************************************************************)
(* The parts of a request that are computed in one go: the page that its   *)
(* path reaches, the listing on it, the lengths of the message in its form *)
(* and where it came from; and those that are read piece by piece: its     *)
(* body, and the node's answer about the session.  A behaviour is one      *)
(* input of one of them; a browser that is redirected asks again.          *)
(***************************************************************************)
EXTENDS MessageSizes, Mux, Attribution, Listing, BodyReader, AnswerReader

CONSTANTS
  Paths,       \* escaped paths
  Samples,     \* messages, as the number of characters of each class
  Lengths,     \* lengths of control requests and of files
  Records,     \* sequences of sections
  RouteTables, \* sequences of routes
  Directories, \* alert directories
  LeaseFiles,  \* sequences of DHCP leases
  Source,      \* the address of the browser
  Identity     \* the node whose administrator it is

ASSUME InputAssumption == Samples \subseteq [Classes -> Nat] /\ Lengths \subseteq Nat

IsSequence(s) == s \in Seq(Range(s))

\* What the parsers of host records and routes return.
ASSUME RecordAssumption ==
  /\ \A sections \in Records :
       /\ IsSequence(sections)
       /\ \A i \in DOMAIN sections : IsSequence(sections[i].entries)
  /\ \A routes \in RouteTables : routes \in Seq([bits : Nat, net : Nat])

\* A path has parts, and each decodes to one or more.
EscapedPaths == Seq(Seq(Texts) \ {<<>>}) \ {<<>>}

ASSUME PathAssumption == Paths \subseteq EscapedPaths

\* What readEntry finds, for each of the finitely many files.
ASSUME DirectoryAssumption ==
  \A dir \in Directories :
    IsFiniteSet(DOMAIN dir) /\ DOMAIN dir \subseteq FileNames /\ dir \in [DOMAIN dir -> Findings]

VARIABLE input

Routings == [of : {"path"}, path : Paths]
Sized == [of : {"message"}, message : Samples, length : Lengths]
Traced == [of : {"source"}, sections : Records, routes : RouteTables, leases : LeaseFiles]
Browsed == [of : {"directory"}, directory : Directories]

vars == <<input, bodyVars, answerVars>>

\* No body is read.
NoBody ==
  /\ declared = 0 /\ arrives = 0 /\ limit = 0 /\ left = 0 /\ budget = 0 /\ got = 0
  /\ status = "done"

\* No answer is read.
NoAnswer ==
  /\ answer = [chunked |-> FALSE, items |-> <<>>, whole |-> 0, complete |-> TRUE]
  /\ wire = <<>> /\ chunk = 0 /\ last = FALSE /\ room = 0 /\ have = 0
  /\ outcome = "done"

Init ==
  \/ NoBody /\ NoAnswer /\ (input \in Routings \/ input \in Sized \/ input \in Traced \/ input \in Browsed)
  \/ BodyInit /\ NoAnswer /\ input = [of |-> "body"]
  \/ NoBody /\ AnswerInit /\ input = [of |-> "answer"]

\* The browser follows a redirect, through the bridge.
Follow ==
  /\ input.of = "path"
  /\ IsRedirect(input.path)
  /\ input' = [input EXCEPT !.path = Followed(@)]
  /\ UNCHANGED <<bodyVars, answerVars>>

\* The handler, or the administrator check, reads on.
ReadOn ==
  \/ ReadBody /\ UNCHANGED <<input, answerVars>>
  \/ ReadAnswer /\ UNCHANGED <<input, bodyVars>>

Next == Follow \/ ReadOn

Spec == Init /\ [][Next]_vars

\* Read deadlines make every Read return.
FairSpec == Spec /\ WF_vars(ReadOn)

-----------------------------------------------------------------------------
(* Properties: those of the modules, for every input. *)

\* A path reaches the page and the alert that it names, whatever the order of
\* the patterns (ServeMux.match).
PathsReachTheirPages == input.of = "path" => ReachesItsPage(input.path)

\* No path sends a browser in circles or astray (ServeMux.ServeHTTP, cleanPath,
\* and rewriteLocation and requestPath of the bridge).
RedirectsArrive == input.of = "path" => RedirectsEnd(input.path)

\* Paths and redirects arrive at their pages (ServeMux, and the bridge's paths).
PathsArrive == PathsReachTheirPages /\ RedirectsArrive

\* A listing shows the alerts that Read returns, once each, and every other file
\* as an issue (Store.List).
ListingsAreComplete == input.of = "directory" => ListsWhatReads(input.directory)

\* Two listings of one directory have the same order (the comparisons of
\* Store.List).
ListingsAreOrdered == input.of = "directory" => ListsOneOrder(input.directory)

\* A directory has one listing, and it is complete (Store.List).
ListingsAreExact == ListingsAreComplete /\ ListingsAreOrdered

\* A message within its limit passes the limit of the form (MaxBytesReader).
FormsFit == input.of = "message" => FormFits(input.message)

\* An alert written from a message is read back as a managed one, and its form
\* can be sent again (readEntry, ParseManagedHTML).
AlertsStayManaged == input.of = "message" => ReadsBackManaged(input.message)

\* What the control client sends the server reads (DecodeRequest, readRequest).
ControlLimitsAgree == input.of = "message" => LimitsAgree(input.length)

\* The answer to Read, and a listing of up to 40 alerts and 18 issues, fit in a
\* response (readResponse of the client, listingResult).
ControlAnswersFit == input.of = "message" => AnswersFit(input.message, input.length)

\* A message of up to 2000 bytes always fits in a control request.
SmallMessagesFit == input.of = "message" => SmallRequestFits(input.message)

\* What one limit lets through passes the ones behind it: form, message, file,
\* control request up to 2000 bytes, answer.
LimitsFit ==
  FormsFit /\ AlertsStayManaged /\ ControlLimitsAgree /\ ControlAnswersFit /\ SmallMessagesFit

\* Every message within its limit fits in a control request (README.md:264).
MessagesFit == input.of = "message" => RequestFits(input.message)

\* The audit log never names a guess (Resolve).
SourcesNeverGuessed == input.of = "source" => NeverGuesses(Source, input.routes, input.sections)

\* The audit log names nodes that the list of nodes has (NodesFromHostRecords).
SourcesAreListed == input.of = "source" => NamesListedNodes(Source, input.routes, input.sections)

\* What the audit log says of the source is what the records agree on, and a
\* node of the list (Resolve, NodesFromHostRecords).
SourcesAreTrue == SourcesNeverGuessed /\ SourcesAreListed

\* Attribution never stops a change (validateMutationAudit).
SourcesNeverBlock ==
  input.of = "source" => NeverBlocks(Identity, Source, input.routes, input.sections, input.leases)

\* Reading a body ends, for each length, limit and cut (io.ReadAll on the
\* readers of BodyReader).
BodiesEnd == status = "reading" ~> status # "reading"

\* Reading an answer ends, wherever the connection does (chunkedReader.Read).
AnswersEnd == outcome = "reading" ~> outcome # "reading"

\* No reader goes on for ever (io.ReadAll on the readers of both modules).
ReadsEnd == BodiesEnd /\ AnswersEnd
=============================================================================
