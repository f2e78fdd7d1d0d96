-------------------------------- MODULE Mux ---------------------------------
(***************************************************************************)
(* Which handler a path reaches: ServeMux.ServeHTTP with the patterns of   *)
(* newHandler, and what the handlers of "/" and "/alerts/" then make of    *)
(* the path.                                                               *)
(*                                                                         *)
(* A path is the sequence of what stands between its slashes, an empty     *)
(* last part for a slash at its end.  Each part of the escaped path is the *)
(* sequence of the parts it decodes to, more than one where %2F stands for *)
(* a slash.                                                                *)
(***************************************************************************)
EXTENDS Naturals, Sequences, SequencesExt, FiniteSets

CONSTANTS
  Texts,    \* what may stand between two slashes
  TargetOf  \* alerttarget.Parse: the target, in lower case, of each text that it takes

\* Between two slashes, and after one at the end of a path.
Empty == ""

\* The texts that name an alert, among them perhaps "new".
Names == DOMAIN TargetOf

\* alerttarget.Parse refuses an empty target.
ASSUME TextAssumption == Empty \in Texts /\ Empty \notin Names

Wild == "{target}"

\* The patterns in the order of their registration.
Patterns ==
  << [page |-> "nodes",    segs |-> <<"api", "local-nodes">>,      subtree |-> FALSE],
     [page |-> "settings", segs |-> <<"settings">>,                subtree |-> FALSE],
     [page |-> "list",     segs |-> <<>>,                          subtree |-> TRUE],
     [page |-> "delete",   segs |-> <<"alerts", Wild, "delete">>,  subtree |-> FALSE],
     [page |-> "convert",  segs |-> <<"alerts", Wild, "convert">>, subtree |-> FALSE],
     [page |-> "new",      segs |-> <<"alerts", "new">>,           subtree |-> FALSE],
     [page |-> "alert",    segs |-> <<"alerts">>,                  subtree |-> TRUE] >>

Score(pattern) ==
  Len(pattern.segs) + 10 * Cardinality({i \in DOMAIN pattern.segs : pattern.segs[i] # Wild})
  + IF pattern.subtree THEN 0 ELSE 1000

\* URL.Path of an escaped path.
Decoded(escaped) == FlattenSeq(escaped)

\* The path that a Location header gives is not escaped.
Plain(path) == [i \in DOMAIN path |-> <<path[i]>>]

\* One part on the stack that path.Clean keeps.
CleanPart(kept, part) ==
  IF part \in {Empty, "."} THEN kept
  ELSE IF part = ".." THEN (IF kept = <<>> THEN kept ELSE Front(kept))
  ELSE Append(kept, part)

\* path.Clean, and the slash at the end is put back.
CleanPath(path) ==
  LET kept == FoldLeft(CleanPart, <<>>, path) IN
  IF kept = <<>> \/ Last(path) = Empty THEN Append(kept, Empty) ELSE kept

\* A part with %2F in it is no literal and no target.
Matches(pattern, parts) ==
  /\ IF pattern.subtree THEN pattern.segs = <<>> \/ Len(parts) >= Len(pattern.segs) + 1
     ELSE Len(parts) = Len(pattern.segs)
  /\ \A i \in DOMAIN pattern.segs :
       IF pattern.segs[i] = Wild THEN parts[i] # <<Empty>> ELSE parts[i] = <<pattern.segs[i]>>

\* The loop of match, one pattern at a time.
BetterMatch(best, pattern, parts) ==
  IF Matches(pattern, parts) /\ (best = <<>> \/ Score(pattern) > Score(best[1]))
  THEN <<pattern>> ELSE best

Match(parts) == FoldLeft(LAMBDA best, pattern : BetterMatch(best, pattern, parts), <<>>, Patterns)

\* The pattern whose text is the path with a slash at its end.
Directory(path) == {p \in Range(Patterns) : p.subtree /\ p.segs = path}

Answer(page, target) == [page |-> page, target |-> target]
NotFound == Answer("404", Empty)

\* PathValue and the rest after "/alerts/" both go through alerttarget.Parse.
ForTarget(page, parts) ==
  IF Len(parts[2]) = 1 /\ parts[2][1] \in Names THEN Answer(page, TargetOf[parts[2][1]]) ELSE NotFound

\* What the handler of a pattern makes of the path.
Handle(page, escaped) ==
  IF page = "list" THEN IF Decoded(escaped) = <<Empty>> THEN Answer("list", Empty) ELSE NotFound
  ELSE IF page = "alert" THEN IF Len(Decoded(escaped)) = 2 THEN ForTarget("alert", escaped) ELSE NotFound
  ELSE IF page \in {"delete", "convert"} THEN ForTarget(page, escaped)
  ELSE Answer(page, Empty)

\* The path that ServeHTTP redirects to, or the path itself.
Redirected(escaped) ==
  LET path == Decoded(escaped)
      best == Match(escaped) IN
  IF CleanPath(path) # path THEN Plain(CleanPath(path))
  ELSE IF best # <<>> /\ best[1].subtree /\ Last(path) # Empty /\ Directory(path) \ Range(best) # {}
       THEN Plain(Append(path, Empty))
  ELSE escaped

IsRedirect(escaped) == Redirected(escaped) # escaped

\* The page for a path that is not redirected.
Serve(escaped) == IF Match(escaped) = <<>> THEN NotFound ELSE Handle(Match(escaped)[1].page, escaped)

\* Where the application lives in the paths of the node's web server.
ExternalBasePath == <<"cgi-bin", "apps", "AAMM-NG", "admin">>

\* Mutant: redirects leave the application.
RewriteNothing(path) == path

\* rewriteLocation of the bridge.
RewriteLocation(path) == ExternalBasePath \o path

\* requestPath of the bridge: what follows the base in the decoded URI.
\* PATH_INFO holds the same where the web server sets it.
RequestPath(uri) ==
  IF uri \in {ExternalBasePath, Append(ExternalBasePath, Empty)} THEN <<Empty>>
  ELSE IF IsStrictPrefix(ExternalBasePath, uri) THEN SubSeq(uri, Len(ExternalBasePath) + 1, Len(uri))
  ELSE <<"outside", "application">>

\* The path that comes back when a browser follows a redirect.
Followed(escaped) ==
  IF IsRedirect(escaped) THEN Plain(RequestPath(RewriteLocation(Decoded(Redirected(escaped)))))
  ELSE escaped

-----------------------------------------------------------------------------
(* Properties. *)

\* What the paths mean to the pages that link to them.
Meaning(path) ==
  IF path = <<Empty>> THEN Answer("list", Empty)
  ELSE IF path = <<"settings">> THEN Answer("settings", Empty)
  ELSE IF path = <<"api", "local-nodes">> THEN Answer("nodes", Empty)
  ELSE IF path = <<"alerts", "new">> THEN Answer("new", Empty)
  ELSE IF Len(path) = 2 /\ path[1] = "alerts" /\ path[2] \in Names THEN Answer("alert", TargetOf[path[2]])
  ELSE IF Len(path) = 3 /\ path[1] = "alerts" /\ path[2] \in Names /\ path[3] \in {"delete", "convert"}
       THEN Answer(path[3], TargetOf[path[2]])
  ELSE NotFound

\* A path reaches the page and the alert that it names, in whatever order the
\* patterns were registered, and a path with an encoded slash reaches none.
\* (The name "new" is a valid target: the page of an alert of that name cannot
\* be reached but with a capital in it, its deletion can.)
ReachesItsPage(escaped) ==
  ~IsRedirect(escaped) =>
    Serve(escaped) = IF escaped = Plain(Decoded(escaped)) THEN Meaning(Decoded(escaped)) ELSE NotFound

\* A browser that follows redirects gets, after at most two of them and through
\* the bridge, to the page that the cleaned path names.
RedirectsEnd(escaped) ==
  LET last == Followed(Followed(escaped)) IN
  IsRedirect(escaped) => ~IsRedirect(last) /\ Serve(last) = Meaning(CleanPath(Decoded(escaped)))
=============================================================================
