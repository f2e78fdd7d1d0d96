# A TLA+ model of AAMM-NG

AAMM-NG manages the alert messages that an AREDN node shows to its users. It is
two programs. The daemon `aamm-ng` owns the alert directory, the backups and the
settings, and is reached through a unix socket only. The web process
`aamm-ng-web` serves the administration pages on a loopback port, checks with the
node that the user is an administrator, and asks the daemon for everything it
shows or changes. The same binary with `--cgi` is the bridge that the node's web
server runs for each request.

    browser -> uhttpd -> CGI bridge -> web process (minihttp, webadmin)
                                           | unix socket, one request per connection
                                           v
                                       control server -> alert store -> /www/aam, backups
                                           |         -> settings    -> config.json
                                           v
                                       audit record on stdout

procd starts both programs and starts them again when they end. Other programs
write to the alert directory too (it belongs to root and is writable by the
group), so the daemon's mutex does not keep it still.

## Inventory

| Component | State | Operations | What is hard | What makes it correct |
|---|---|---|---|---|
| alert store (`internal/alertstore`) | alert files, backups, temporary files, a mutex | Create, Write, ConvertLegacy, Delete, Read, List, Open, Close | check and change are two system calls; outside writers; errors half way; kill and loss of power between any two steps; retention at its limit | files are whole; nothing foreign is replaced; nothing is destroyed that is not in a durable backup; success is durable |
| control server and client (`internal/localcontrol`, `cmd/aamm-ng`) | listen queue, the connection in hand, audit log | accept, read, dispatch, audit, answer; cancel, stop, start | one connection at a time against clients with a deadline; requests nobody waits for any more; kill between change and audit record; stop during a request | order of execution; answers and audit records are true and complete; the store outlives requests; nobody blocks the queue |
| control socket path (`localcontrol/server.go`) | the path, its inode, who listens | inspect, probe, remove, bind, listen, unlink | everything goes by the path; stale sockets; two daemons | a serving daemon is reachable; an active socket is not taken away; a stale one does not block |
| settings (`internal/appconfig`) | the file, the loaded value | OpenManager, Replace, Current | loss of power during a replacement; committed but not durable | the daemon can always start again; Replace tells the truth |
| HTTP server (`internal/minihttp/server.go`, `webadmin/server.go`) | slots, table of connections, wait group, closed flag, started flags | Serve, Shutdown, Close, serveConn | accept loop, connection goroutines and main interleave; stop at any moment | exact accounting; bounded connections; no handler after the return; stop completes |
| HTTP parsing, routing, client (`internal/minihttp`) | none across requests | readRequest, mux, Do | limits at their boundary, bodies and answers that end early, pattern precedence | routing equals its reference; what is read is whole or an error; reading ends |
| web handlers, administrator check, origin check (`internal/webadmin`, `internal/arednauth`) | none across requests | pages and forms | the page is older than the alert it changes; the daemon's answer may be lost | changes only by verified administrators, once, as sent and in order; the page tells what happened; a stale form costs no file of others |
| CGI bridge (`internal/cgibridge`) | none | one request | truncated bodies, loopback trust | forwards what it got or what cannot pass for it; redirects come back to their page |
| source attribution (`internal/arednsource`, `arednhosts`, `aredndhcp`) | files and routes of the node, read once per request | Resolve | files that change between two reads, overlapping routes | what all records agree on, or nothing; never in the way of a change |
| messages and targets (`internal/alertmessage`, `alerttarget`) | none | Parse, EscapedHTML, ParseManagedHTML | sizes in several encodings, a limit for each | what one limit lets through passes the others; a written alert is read back as managed |

## Modules

| Module | Models | Used by |
|---|---|---|
| `AlertKinds` | contents of an alert, and which operation takes which | `AtomicAlerts`, `WebAdmin` |
| `AtomicAlerts` | what the store promises its callers | `AlertStoreAtomic` |
| `AlertStore` | the alert store, outside writers, crashes, power | `AlertStoreAtomic`, `AlertStoreProofs` |
| `AlertStoreAtomic` | the refinement mapping from `AlertStore` to `AtomicAlerts` | `MCAlertStore`, `AlertStoreAtomicProofs` |
| `ControlServer` | clients, control server, daemon life cycle | `MCControlServer`, `ControlServerProofs` |
| `ControlSocket` | the socket path and the daemons that want it | `MCControlSocket`, `ControlSocketProofs` |
| `SettingsManager` | the settings file and its manager | `MCSettingsManager`, `SettingsManagerProofs` |
| `HTTPServer` | accept loop, connections, shutdown | `MCHTTPServer`, `HTTPServerProofs` |
| `WebAdmin` | composition: browsers, bridge, administrator check, handlers, control client, daemon | `MCWebAdmin`, `WebAdminProofs` |
| `Mux` | patterns, redirects, the bridge's paths | `Requests` |
| `MessageSizes` | a message's length in each encoding, and the limits | `Requests` |
| `Attribution` | source attribution and node list | `Requests` |
| `Listing` | `Store.List` | `Requests` |
| `BodyReader`, `AnswerReader` | the readers of a form's body and of the node's answers | `Requests` |
| `Requests` | composition of the six above: one input of one of them | `MCRequests`, `RequestsProofs` |

Operators that carry the comment "Mutant:" are plausible errors in the definition
that follows them. No specification uses them; each stands for a change of the
code that one of the properties has to notice.

### AlertStore

One file operation of the code (or a few that no other process can tell apart)
is one action; `pc` is the place in the code and is named after it.

- `alerts[t]` is the entry every process sees, `aDisk[t]` the set of entries that
  a loss of power may leave. A rename or removal adds to the set; syncing the
  directory makes it a singleton. `backups` and `bDisk` are the same for the
  backup directory. A file that is named before it was synced may survive as
  `Torn`.
- An entry is a stamp (everything `os.SameFile` and `ModTime` see) and a body:
  a managed message, a legacy content, `Big`, `Unsafe` or `Torn`. Two different
  files may have the same stamp.
- `Create`, `Write`, `ConvertLegacy`, `Delete` and `Read` take the mutex and go
  through `Precheck`/`Recheck` (`ensureManagedWritable`), `Inspect` to
  `SyncPruned` (`backupAlert`, `pruneBackups`), `Verify`
  (`verifySourceUnchanged`), `MakeTemp`, `SyncTemp`, `Rename`, `Link`, `Unlink`,
  `Remove` and `SyncAlerts`. `IOError` lets any of them fail. `Return` includes
  the deferred functions that remove temporary files.
- Every operation holds the mutex throughout, so there is one `pc`. Readers
  share the lock, change nothing and do not notice each other; one reader stands
  for all of them.
- `OutsideReplace`, `OutsideEdit`, `Crash` and `PowerLoss` may happen between any
  two steps. Outside writers are taken to write whole files and not to touch the
  store's temporary names (random, with the suffix `.tmp`). Temporary files of a
  dead daemon are never read again and never removed; the model forgets them.
- `raced` and `committed` only observe: whether an outside writer changed the
  target since the operation's last check, and whether the operation has changed
  the alert directory.
- Backup names are numbers in their sort order; when all of them are in use, no
  conversion or deletion begins, which is a bound and not a rule of the code. A new name may sort anywhere
  among the old ones, as when the node's clock is set back.

### AtomicAlerts and the refinement

`AtomicAlerts` knows no files, stamps, temporary names or backup directory. An
operation begins (`Begin`), may look at its target again (`Look`), takes effect in
one step that also archives what it destroys (`Apply`), and then succeeds, refuses
truthfully or fails. `disturbed` says that an outside writer touched the target
since the last look; only then may `Apply` replace something that the operation
would have refused, and only then may a refusal be untrue by the time it is given.
`Create` has no such excuse: it finds the name free in the very step that takes it.

`AlertStoreAtomic` maps `AlertStore` to it: `content` is the body of the entry,
`durable` the bodies a loss of power may leave, `saved` what it may leave of the
operation's backup, `phase` is "applied" from the step that sets `committed`,
`disturbed` is `raced`. All steps of a backup, of retention, of temporary files and
of verification are stutters or `Look`. `Apply` requires `saved` to be a singleton:
that is the backup being durable at the moment of the change.

### ControlServer

Clients connect (`Dial`), send (`Send`), take their response (`Receive`) and give up
(`GiveUp`, also with the response already there) in any order; a
request that was sent stays readable after its client has gone. The server's
actions follow `handleConnectionWithSettings`: `Accept`, `ReadRequest` or
`ReadTimeout`, `DispatchAlert` or `DispatchSettings`, `WriteAudit`, `Respond`. The
store and the settings manager are reduced to their outcomes: done; refused with
nothing done; an internal error before or after the change; settings applied with
uncertain durability. `AlertStore` and `SettingsManager` justify these outcomes.
The audit writer is taken to succeed. `Cancel`, `Watch`, `AcceptFails`,
`CloseStore`, `Kill` and `Start` are the life of the daemon (`cmd/aamm-ng/main.go`).

### ControlSocket

`Inspect`, `Probe`, `Reinspect` and `Remove` are `prepareSocketPath`; `Bind` and
`Listen` are the two system calls in `net.ListenUnix`; `Secure` is the chmod and
`validateSocket`, which look at the path again; `Unlink` and `CloseListener` are
the two halves of closing a listener with `SetUnlinkOnClose`. procd runs one
instance at a time, but a shell can start another at any moment, so `Start` has no
guard; `overlapped` observes whether two daemons were on their way to the socket at
the same time since the last moment at which none ran. Then nothing is claimed: the
removal in `prepareSocketPath` goes by the path some time after the refused
probe and can hit a socket on which the other daemon has just begun to listen
(without `~overlapped`, TLC finds a violation of `ServingIsReachable` and of `StaleNeverBlocks`).
Inodes are not reused while a daemon starts (`/run` is a tmpfs). The checks of the
runtime directory are taken to succeed.

### SettingsManager

The file, what a loss of power may leave of it, and the steps of
`saveWithDirectorySync`. A configuration is its version, as in the code; a file
that is cut short is one that does not decode. `Replace` tells four outcomes
apart: ok, uncertain, failed, invalid.

### HTTPServer

`loop` is the accept loop, `stage[c]` the goroutine of connection `c`, `main` the
goroutine that runs `webadmin.Serve`. `s.mu` is held by `main` while it walks
through `s.conns`; the other critical sections are single actions. The started flag
is read and the connection closed in two actions, since the flag is an atomic
outside the mutex. A handler is one step that takes as long as it likes.

### WebAdmin

A request is a record that goes through the stages `cgi`, `auth`, `handler`, `wait`
and `done`; requests are numbered in the order of their submission and may be under
way at the same time. `page[u]` is the form in a user's browser with the content it
was made from; the user may send it at any time, more than once, after the alert has
changed. One action per handler: `HandleAlertCreate`, `HandleAlertWrite`,
`HandleAlertConvert`, `HandleAlertDelete`, `HandleDeleteConfirmation`,
`HandleLocalNodes`, `ShowList`, `ShowNew`, `ShowAlert`, `ShowSettings`; `Refuse` and
`BadForm` are the early returns that they share; `ReceiveChange`, `ReceiveEntry` and
`ReceivePage` continue them after the control client's answer. `BridgeFails` and
`Forward` are the bridge, which may die while it sends a form; `RequireAdmin` is the
administrator check, whose outcome is free for each request.

The daemon is the store as `AtomicAlerts` promises it behind the queue of
`ControlServer`: `ServeChange`, `ServeRefusal` and `ServeRead` take the first call,
whether or not its client still waits. `GiveUp` is the control client's deadline,
`Kill`, `Start` and `WebDies` end and begin processes. `log` and the field `form` of
a call only observe. Sizes of messages, paths, and the readers of forms and answers
are not repeated here; `Requests` has them.

### Requests and its parts

A behaviour of `Requests` is one input of one part. The parts that compute in one go
(`Mux`, `MessageSizes`, `Attribution`, `Listing`) are operators that follow the loops
of the code, compared with a reference definition that says what they are for. The
parts that read (`BodyReader`, `AnswerReader`) take several steps, with buffers and
pieces of any size, on a connection that may end anywhere.

- `Mux`: a path is the sequence of its segments (`Texts` are what they may be), a segment with an encoded slash
  is a sequence of several. `Match` scores patterns in their order of registration,
  `Redirected` is the cleaned path or the one with a slash added; `RewriteLocation`
  and `RequestPath` are the bridge's ways out and in. `TargetOf` is
  `alerttarget.Parse`: it takes some of the texts, in capitals too, and gives the
  target in lower case. The reference (`Meaning`) is what the pages link to.
- `MessageSizes`: a message is the number of its characters of each class (plain,
  encoded in forms, escaped in JSON, markup, newline, ...), which is all that its
  lengths depend on. The lengths around it are upper bounds. A listing has entries and
  issues; an issue has its file name as a field and, in quotes, in its error, and JSON
  makes at most six bytes of each byte of either (`IssueBytes`).
- `Attribution`: host records, routes and leases after parsing. A name is a kind, a label
  and a spelling. `NodeOf`, `Candidate` and the leases keep the spelling of the records,
  `ListedNodes` gives lower case (`Lower`), LAN names and the administrator's own node
  are recognised in any spelling (`EqualFold`), and `Meet`, the treatment of a second
  answer, tells spellings apart. The reference (`Supported`) is the set of all answers
  that some record supports, without order. `NamesListedNodes` compares in lower case.
- `Listing`: a directory is a function from names to what `readEntry` finds; a
  listing is any order that the comparisons leave, since the sort is not stable.
- `BodyReader`: `io.ReadAll` on `maxBytesReader` on `bodyReader`.
- `AnswerReader`: `io.ReadAll` on a `LimitReader` on `chunkedReader` or on the
  connection. The wire is a sequence of size lines, bytes, line ends and trailers
  (`IsChunkStream`), which may end after any of them.

## Runs

States are distinct states, times on two cores.

| Run | Configuration | Result | Shows |
|---|---|---|---|
| `store_outside` | 1 target, 2 stamps, 2 outside changes | passes, 1.0 M, 95 s | `ReplacesOnlyItsOwn`, `DestroyedIsArchived`, `OperationsAreAtomic`, `IInv` |
| `store_power` | 1 target, 3 backup names, `MaxBackups` 1, 2 crashes or losses of power | passes, 109 k, 15 s | `IInv` (the inductive invariant, with `TypeOK`), `WholeFiles`, `BackupSurvives`, `RetentionBeforeChange`, `SuccessIsDurable`, `OperationsAreAtomic` |
| `control_server` | 3 connections with mutations, backlog 2, 2 starts | passes, 2.6 M, 90 s | `AuditInv` (`TypeOK`, `AuditIsComplete`, `AuditIsTrue`), `ExecutedInOrder`, `AnswersAreTrue`, `StoreOutlivesRequests` |
| `control_liveness` | 2 connections with any request, 1 start, fair | passes, 0.1 M, 20 s | `QueueDrains`, `StopCompletes` |
| `socket_path` | 3 daemons, 4 binds | passes, 124 k, 5 s | `SocketInv` (`TypeOK`, `ServingIsReachable`, `ListenersAreOwned`, `ChecksAreCurrent`), `StaleNeverBlocks` |
| `settings` | 2 versions, 3 crashes | passes, 180 | `RepliesAreTrue`, `StartsAgain` |
| `http_server` | 3 connections, 2 slots | passes, 1.2 M, 35 s | `SlotsInv` (`TypeOK`, `Accounting`, `ConnectionsBounded`), `StoppedIsQuiet`, `NoAddDuringWait`, `RunningNotCutShort` |
| `http_liveness` | 2 connections, 1 slot, fair | passes, 71 k, 20 s | `ConnectionsEnd`, `StopCompletes` |
| `http_abandon` | 1 connection | violated | a connection whose request was read is abandoned |
| `web_admin` | 1 target, 2 requests, 1 death, 1 outside change, fair | passes, 337 k, 135 s | `ChangesInv` (`TypeOK`, `OnlyAdministratorsChange`, `ChangesAreAsSent`), `AppliedOnce`, `PagesAreTrue`, `UnseenIsKept`, `AnsweredMeansOrdered`, `EveryRequestEnds` |
| `requests` | inputs of every part, fair | passes, 230 k, 105 s | `PathsArrive`; `ListingsAreExact`; `LimitsFit` (`FormsFit`, `AlertsStayManaged`, `ControlLimitsAgree`, `ControlAnswersFit`, `SmallMessagesFit`); `SourcesAreTrue`, `SourcesNeverBlock`; `BodiesAreWhole`; `AnswersAreWhole`; `ReadsEnd` |
| `message_size` | the same messages | violated | a message within its limit exceeds a control request |

Why the bounds are enough to be interesting. In the store, one operation runs at a
time and touches one alert and the backups, so one target is enough for all but one
case (a directory sync settles all entries at once), and the proofs have any number; a third
backup name matters for retention with `MaxBackups = 1`: there, two conversions reach the
limit, and the new name may sort before, between or after the others. Two crashes
allow one during the operation that follows another. Two outside changes
allow one to be undone by the next (the case in which metadata agree and contents do
not). Contents with one stamp are told apart as soon as there are a managed, a legacy
and an oversized one. In the control server, three connections give one in hand and a
full backlog of two. Three daemons give one that serves and two that start. In
the HTTP server, three connections for two slots give one refusal. In `web_admin`,
two requests are what every property relates: a form and what was there before, a
request given up and the one that follows it, two forms from the same page; one
death falls on the daemon or on the web process, between any two steps of either
request; `Cut` is a message that nobody sends, so that a form which arrived in part
shows. The first request may be a visit or a form of another site, the second is a
form. `requests` has all paths of up to four segments over the words that patterns and
`path.Clean` know, the lengths at, below and above each limit in every pair of
classes, all host records of two sections with up to three entries over two nodes, one
of them in two spellings, a node whose own name has a third one,
bodies up to six bytes with every cut, limit and buffer, and chunked answers of up to
three chunks around a limit of five, cut after every item.

Symmetry is used for targets, legacy contents, stamps, connections and daemons, which are
interchangeable, and in safety runs only. Deadlock is checked in the store and
for the socket path; the other systems may come to rest (all connections
made, all starts used, all requests answered, the process gone), which their
configurations allow.

## Disagreements between documentation and code

Shown by runs that end in a violation:

- `http_abandon`. Comment on `Shutdown` (`internal/minihttp/server.go:132`):
  "abandons connections that have not yet delivered a request". The started flag is
  set after the request has been read (`server.go:200`, `210`), so a delivered
  request can lose its connection while its handler runs, and a mutation be made
  whose answer nobody gets. `RunningNotCutShort` is what holds.
- `message_size`. README.md:264: "The maximum managed message size is 4096 bytes."
  JSON makes six bytes of each `&`, `<` and `>`, and a control request has 16384: a
  message of 2731 of these characters passes the form and `alertmessage.Parse` and
  then fails with `ErrRequestTooLarge`, which the page reports as 503. `SmallMessagesFit`
  is what holds: messages of up to 2000 bytes, and messages that JSON at most
  doubles, always fit.

Seen while modelling, with the property that does hold:

- README.md:350: "AAMM-NG does not silently rewrite an alert file that it does not
  recognize." `Write` checks and renames in two steps (`store.go:575`, `579`).
  `ReplacesOnlyItsOwn` is what holds: only a file put there in that window is
  rewritten, and `Create` has no such window, since `Link` fails on a name in use.
  Conversion and deletion have the same window between verification and change
  (`delete.go:37`, `50`); `DestroyedIsArchived` is what holds of them.
- `.gitar/review/aamm-ng-security.md`: "maximum of 16 managed backup files". The new backup is
  published before retention runs (`conversion.go:262`, `280`); a failure in between
  leaves 17 until a later conversion or deletion succeeds. `RetentionBeforeChange` is
  what holds: no alert is changed while there are too many.
- `new` is a valid target, and `/alerts/new` is the page for a new alert
  (`handler.go:259`): the page of an alert of that name cannot be reached (only
  `/alerts/NEW` shows it, since patterns tell capitals apart and targets do not), its
  deletion can. The reference in `Mux` says so.
- A listing carries every managed message; beyond some number of alerts (about 250
  of 4096 plain bytes) it exceeds the megabyte of a response and each page with a
  listing is a 503. Files ending in `.txt` that are no alerts use up the same megabyte,
  since each is an issue that has its name twice (`results.go:114`, `list.go:71`).
  `ControlAnswersFit` holds for up to 40 alerts and 18 issues, whatever is in them.
- The audit log names a node as its host record spells it (`resolver.go:212`;
  `resolver_test.go:41` expects `TEST-NODE-B`), the list of nodes has it in lower case
  (`hosts.go:31`; `hosts_test.go:38` expects `test-node-b`). `SourcesAreTrue` holds with the
  lower case of the one. Two records that spell one node or host differently
  count as two answers and leave the source unnamed (`resolver.go:88`, `120`).
- The bridge's own 35 seconds may end before the handler does: the user has the web
  server's error while the handler is still at work. `AnsweredMeansOrdered` therefore
  speaks of requests that the handler has answered.

## Fairness

- `ControlServer`: the server's goroutine is scheduled, and its reads end because
  of the read deadline (`WF(Server)` includes `ReadTimeout`); the goroutine that
  watches the context is scheduled; `Accept` on a closed listener returns; `main`
  goes on after the server. Clients are not assumed to do anything.
- `HTTPServer`: each connection's goroutine, the accept loop and `main` are
  scheduled. Reads end by deadline, and handlers end because their calls to the
  daemon (five seconds) and to the node have deadlines. Without that, `Close` would
  wait for ever, since `s.wg.Wait()` has no limit. Clients and signals are not
  assumed.
- `WebAdmin`: each request is a process of its own (bridge and handler) and every wait in it has a
  deadline, so `WF(Process(r))`. Nothing is assumed of the daemon, which may hang or be
  down for ever.
- `Requests`: `WF(ReadOn)`, because read deadlines make every `Read` return.

## Proofs

Every safety property that a passing run checks is also a theorem, for every value
of the constants. Each inductive invariant was checked with TLC on the instance of
the component's run before it was proved.

| Module | Theorem | States |
|---|---|---|
| `AlertStoreProofs` | `Invariance` | `Spec => []IInv` |
| | `TypeCorrect` | `Spec => []TypeOK` |
| | `FilesAreWhole` | `Spec => []WholeFiles` |
| | `BackupsSurvive` | `Spec => []BackupSurvives` |
| | `SuccessesAreDurable` | `Spec => []SuccessIsDurable` |
| | `OnlyItsOwnReplaced` | `Spec => ReplacesOnlyItsOwn` |
| | `DestructionIsArchived` | `Spec => DestroyedIsArchived` |
| | `RetentionComesFirst` | `Spec => []RetentionBeforeChange` |
| `AlertStoreAtomicProofs` | `Refinement` | `Spec => OperationsAreAtomic` |
| `ControlServerProofs` | `OrderOfExecution` | `Spec => []ExecutedInOrder` |
| | `ExecutedOnce` | no request is executed twice |
| | `AnswersTrue` | `Spec => []AnswersAreTrue` |
| | `AuditHolds` | `Spec => []AuditInv` |
| | `StoreStaysOpen` | `Spec => []StoreOutlivesRequests` |
| `ControlSocketProofs` | `ServingStaysReachable` | `Spec => []SocketInv` |
| | `StaleSocketsAreReplaced` | `Spec => StaleNeverBlocks` |
| `SettingsManagerProofs` | `RepliesTrue` | `Spec => []RepliesAreTrue` |
| | `StaysLoadable` | `Spec => StartsAgain` |
| `HTTPServerProofs` | `SlotsAreExact` | `Spec => []SlotsInv` |
| | `StopIsQuiet` | `Spec => []StoppedIsQuiet` |
| | `WaitIsSafe` | `Spec => NoAddDuringWait` |
| | `RunningHandlersFinish` | `Spec => RunningNotCutShort` |
| `WebAdminProofs` | `ChangesAreRightful` | `Spec => []ChangesInv` |
| | `RequestsApplyOnce` | `Spec => []AppliedOnce` |
| | `StatusesAreTrue` | `Spec => []PagesAreTrue` |
| | `StaleFormsDestroyNothing` | `Spec => []UnseenIsKept` |
| | `AnsweredComesFirst` | `Spec => []AnsweredMeansOrdered` |
| `RequestsProofs` | `LimitsAlwaysFit` | `Spec => []LimitsFit` |
| | `BodyCountsAgree` | `Spec => []BodyInv` |
| | `BodiesAlwaysWhole` | `Spec => []BodiesAreWhole` |
| | `AttributionNeverBlocks` | `Spec => []SourcesNeverBlock` |
| | `PathsAlwaysArrive` | `Spec => []PathsArrive` |
| | `AnswersAlwaysWhole` | `Spec => []AnswersAreWhole` |
| | `SourcesAlwaysTrue` | `Spec => []SourcesAreTrue` |
| | `ListingsAlwaysExact` | `Spec => []ListingsAreExact` |

The assumptions are those that the modules state of their constants: kinds of
contents are disjoint and `Absent` is no file (`ContentsDisjoint`,
`AbsentIsNoFile`, `KindsDisjoint`), `Nobody` is no connection (`CallsAssumption`,
`ConnsAssumption`), no entry and a foreign one are no inodes (`PathAssumption`), a
server has at least one slot (`CapacityAssumption`), and bounds are numbers. In
particular `Conns`, `Calls`, `Daemons`, `Users` and `Targets` may be of any size, even
infinite: what is finite about them (connections being served, backups on the disk,
records lost) is part of the invariants.

`Requests` assumes of its inputs what the code before them guarantees or what the
formats are. A path has at least one part, each part decodes to at least one, and an
empty text is no target (`PathAssumption`, `TextAssumption`); which texts are, and of
which targets, is open (`TargetOf`). Host records and routes
are sequences, with a number of bits and a network for each route (`RecordAssumption`).
A directory has finitely many files, whose stems and spellings are in a linear order,
that of numbers (`DirectoryAssumption`, `NameAssumption`). An answer is the beginning
of a stream in chunked coding, all of it if it is complete: from each size line to the
next there is what it announces, as far as it arrived, and behind the last chunk there
are trailers and an empty line (`IsChunkStream`, `Arrives`, `AnswerAssumption`). How
many chunks, records, routes, files and parts of a path there are is open, and so are
the texts in a path.

**The store.** None of the properties is inductive by itself. `WholeFiles` needs to know
that the temporary file about to be named is synced (`TempReady`, `CopyReady`).
`BackupSurvives` needs the backup's way from copy to durable file, step by step
(`CopyReady`, `BackupReady`), that `expired` never holds the operation's own
backup, and that nothing is committed before (`CommittedLate`).
`DestroyedIsArchived` needs that after the last check the alert still is what was
checked unless an outside writer came by (`CheckHolds`), and that only a legacy
alert is on its way to be converted (`ConvertsLegacy`). `IInv` is the conjunction
of these; the proof has one lemma per action.

`RetentionBeforeChange` has an invariant of its own on top of `IInv`, `Retained`: there
are finitely many backups, what `pruneBackups` chose to remove leaves at most
`MaxBackups`, and behind the sync no removed backup can come back. That the choice is
large enough (`ExpiredIsEnough`) is a statement about ranks: the names that are kept
map to the number of the names before them, and no two to the same number.

**The refinement.** The mapping is the one of `AlertStoreAtomic`. Initial states map to
initial states, and there is one lemma per action that says which step of
`AtomicAlerts` it is, or that it is a stutter. `IInv` and `CommittedLate` give the steps
that take effect; that a refusal is true needs `SourceKnown` in addition: as long as
no outside writer came by, the alert is what the operation's snapshot says, and the
open file is the one under the name.

**The control server.** `InOrder` puts what was executed, the call in hand and the backlog
in one order, that of the connections; `ExecutedInOrder` alone says nothing of calls
still to come. `TracesAreLate` says that a call which was not dispatched has left no
trace, which is what makes `Truth` of an answer last. `LostRecords` counts the mutations
without a record against the number of starts, the call in hand apart: one kill
loses one record.

**The socket path.** `SocketInv` is inductive with `ListenersAreOwned` and
`ChecksAreCurrent`: while starts do not overlap, what the one starting daemon has
learnt of the path (a socket that refuses, the same inode twice, nothing) is still so
at its next step. This is exactly what a second starting daemon breaks.

**The HTTP server.** `Accounting` counts goroutines by their stage; a step moves one
connection from one stage to the next (`MoveFacts`), so every count changes by at most
one. `StopSteps` says that behind the wait there is no goroutine: this holds because
the accept loop does not register after the closed flag was set. `RunningIsStarted`
keeps the connections that Shutdown must spare apart from those it may choose.

**Administration from end to end.** `IInv` of `WebAdminProofs` has four ideas. A call in
the queue, and a change in the log, comes from a form that allows it (`FormsHold`). A
request with a call in the queue waits for it with no answer yet, or is done; one with
a change in the log was answered `ok`, `internal` or `broken`, or is done; and neither is
there twice (`InHand`). So a request before its call, or with the answer to it, has
nothing in the queue (`Untouched`), and statuses that claim a refusal are true
(`AnswersHold`). The requests in `before` of a form were done when it was sent; done is
for ever and a request that is done sends nothing, so they are never behind that form in the queue
(`Ordered`).

**Messages, bodies, attribution.** `LimitsFit` rests on a lemma that bounds every encoding
by the length that `Parse` checks, on one that bounds the products in a listing
(`Product_bound`), and on `InputInv`: inputs stay inputs, so that
messages are functions to the natural numbers (`InputAssumption`). `BodyInv` is
inductive: what the connection gave, what `bodyReader` has left, what `maxBytesReader`
has left and what `ReadAll` has are one count seen from four sides. `BodiesAreWhole`
alone is not, since it says nothing while the body is being read. `SourcesNeverBlock`
holds whatever the loops over records, routes and leases find.

**Loops.** The other theorems of `RequestsProofs` are about loops over paths, records and
routes, which the model writes as folds. The library's induction rules are of no use to
the provers here, since they take an operator as a parameter. What replaces them is
proved once. A set of numbers has a least element (`Least`), so a set that has 0 and
the successor of each of its numbers has all of them (`Induct`), and what holds of the
beginning of a loop and is kept by each of its steps holds at its end (`Count_up`). A
fold is a value that a function chosen by its definition has at the end; that there is
such a function is `Fold_exists`, for finite sets of numbers, and `Loop_exists` for the
indices of a sequence. `FlattenSeq`, `Match`, `path.Clean`, `Meet` and the loop of
`NodesFromHostRecords` are then sequences of values with a known first one and a known
step.

**Paths.** `Match_is` finds the pattern that wins, for every path: seven steps of the loop
on the scores, which puts both subtrees behind the patterns within them. A path with an
encoded slash decodes to one with more parts (`Decoded_longer`) and reaches no page; every
other one reaches what it means (`Reaches_its_page`). For redirects: what `path.Clean` keeps
has no empty part and no dots (`Kept_proper`), so cleaning it again changes nothing
(`Clean_clean`); a location written by the bridge comes back as the same path
(`Comes_back`); and the only clean path with a redirect is that of the alerts without its slash
(`Redirect_clean`). So a second redirect is the last (`Redirects_end`). `InputInv` keeps
the path of a browser that follows redirects one with parts.

**Answers.** `AnswerInv` says where in the stream the reader is: the wire is the rest of
the answer's items, what it has is the number of data bytes before that place, with the
room left it is the limit, a chunk in hand ends where its size line says, and between
chunks a size line comes next. `AnswersAreWhole` is about the end only and is not
inductive. The proof has one lemma for each way to go on: a size line, the last
chunk with its trailers, bytes of a chunk with or without its end, bytes without
chunks, the end.

**Attribution.** A loop of `Meet` ends with the value that all its values are, or ambiguous
(`Meet_loop`). The positions that the loops look at have exactly the answers of the
reference, which is a set without order (`Exact_answers`, `Routed_answers`); for
routes this needs that the narrowest one is found and that two routes of the same length
around an address are one (`Longest_route`, `Same_network`). The two loops that choose
the name of a section choose the same, one of them its lower case (`Same_choice`).

**Listings.** The place of an element in a finite linear order is the number of elements
before it. Places are a bijection with the numbers up to the size of the set
(`Place_bijection`), and in every sequence that the comparisons allow the index of an
element is its place (`Index_is_place`), so there is such a sequence and only one (`One_order`). The
comparison of issues is linear because names that agree in lower case differ in
their spelling (`Shown_order`).

**The settings.** The invariant is that a manager has loaded its file, and that everything a loss of
power may leave of a loadable file is loadable.

Only model-checked:

- Liveness: `QueueDrains`, both `StopCompletes`, `ConnectionsEnd`, `EveryRequestEnds`,
  `ReadsEnd`. The prover has no rules for fairness.
- The deadlock freedom of the store and the socket path, which is a statement about
  `ENABLED`.

## What is not modelled

- The syntax of request lines, header fields, cookies, JSON and host records, and the
  classes of Unicode characters in messages and targets: sequential parsing of bytes,
  without state between calls. Where it may refuse, the refusal is an outcome of the
  action that calls it.
- The copying of headers by the bridge, page layout, the text of issues and errors (of an
  issue, its length is in `MessageSizes`).
- The readers of host, lease and route files and the route command: plain I/O, whose
  failure counts as nothing found (`SourceAttribution`).
- Packaging and shell scripts, file modes and ownership. Of the init script only that
  procd starts the programs again is modelled.
- Space: full disks, and what abandoned temporary files take.
- The loss of power may take unsynced directory entries one by one, which is more than
  most filesystems do, and never damages what was synced.

## Plan

1. Done: `AlertStore`, `ControlServer`, `ControlSocket`, `SettingsManager`,
   `HTTPServer`; `AtomicAlerts` and the refinement; `WebAdmin`; `Requests` and its
   parts.
2. Done: proofs of the safety properties of all components, and of the refinement.
3. Open: the liveness properties, which stay with TLC, and the parsers of
   request lines, header fields and records, of which only the outcomes are modelled.
