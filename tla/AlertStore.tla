----------------------------- MODULE AlertStore -----------------------------
(***************************************************************************)
(* The alert store of AAMM-NG (internal/alertstore): the files it keeps in *)
(* the alert directory, one per target, and the backups it takes before a  *)
(* conversion or a deletion.                                               *)
(*                                                                         *)
(* Every operation holds the store's mutex from its first look at the      *)
(* directory to its return, so at most one is under way: pc says how far   *)
(* the holder has come.  The mutex does not keep others out of the         *)
(* directory (the node's own scripts and its operators write there), and   *)
(* neither a killed daemon nor a loss of power waits for an operation to   *)
(* end: those are actions of their own, free to happen between two steps.  *)
(***************************************************************************)
EXTENDS Naturals, FiniteSets

CONSTANTS
  Targets,      \* alert names accepted by alerttarget.Parse
  Messages,     \* managed messages, standing for their rendered HTML
  Legacy,       \* file contents AAMM-NG did not render
  Big,          \* a content of more than MaxLegacyBytes bytes
  Unsafe,       \* an entry that is no regular file (a symbolic link)
  Torn,         \* what is left of a content that never reached the disk whole
  Absent,       \* no entry under the name
  Stamps,       \* what os.SameFile and ModTime see of a file's identity
  Names,        \* backup names in their sort order (time stamp first)
  MaxBackups,   \* maxBackupFiles
  MaxOutside,   \* bound on the changes made by outside writers
  MaxCrashes    \* bound on the deaths of the daemon and losses of power

ASSUME ContentsDisjoint ==
  /\ Messages \cap Legacy = {}
  /\ {Big, Unsafe, Torn, Absent} \cap (Messages \cup Legacy) = {}
  /\ Big \notin {Unsafe, Torn, Absent}
  /\ Unsafe \notin {Torn, Absent}
  /\ Torn # Absent

ASSUME BoundsAssumption ==
  /\ Names \subseteq Nat \ {0}
  /\ MaxBackups \in Nat \ {0}
  /\ MaxOutside \in Nat
  /\ MaxCrashes \in Nat

VARIABLES
  alerts,     \* target -> the entry every process sees in the alert directory
  aDisk,      \* target -> the entries a loss of power may leave there
  backups,    \* name -> the content seen in the backup directory
  bDisk,      \* name -> the contents a loss of power may leave there
  daemon,     \* its Store is open ("up") or "closed", or there is no daemon ("down")
  pc,         \* the next step of the operation that holds the mutex
  call,       \* its arguments
  snap,       \* its sourceSnapshot
  unlinked,   \* the file it has open, once another file took its name
  temp,       \* its temporary alert: what is written and whether it is synced
  copy,       \* the same for its temporary backup
  bname,      \* the name under which it published its backup, or 0
  expired,    \* the backups pruneBackups has still to remove
  reply,      \* what the last operation returned
  raced,      \* observed: an outside writer changed the target since the check
  committed,  \* observed: the operation changed the alert directory
  outside,    \* changes made by outside writers so far
  crashes     \* daemon deaths and losses of power so far

alertDir == <<alerts, aDisk>>
backupDir == <<backups, bDisk>>
observed == <<raced, committed>>
faults == <<outside, crashes>>
work == <<snap, unlinked, temp, copy, bname, expired>>
vars == <<alertDir, backupDir, daemon, pc, call, work, reply, observed, faults>>

-----------------------------------------------------------------------------
(* Files. *)

Bodies == Messages \cup Legacy \cup {Big, Unsafe, Torn}
Entries == [stamp : Stamps, body : Bodies]
Slots == Entries \cup {Absent}
Contents == Bodies \cup {Absent}
Files == [body : Bodies, synced : BOOLEAN]
Temps == Files \cup {Absent}

ASSUME AbsentIsNoFile == Absent \notin Entries \cup Files

\* What ParseManagedHTML, the file mode and the size say of a file.
KindOfBody(b) ==
  CASE b \in Messages -> "managed"
    [] b = Big        -> "oversized"
    [] b = Unsafe     -> "unsafe"
    [] OTHER          -> "legacy"

\* The kind readEntry finds, or the error it returns.
Kind(e) == IF e = Absent THEN "not_found" ELSE KindOfBody(e.body)

\* os.SameFile, Size and ModTime agree.  They may do so for different files
\* (an inode is reused, two changes fall into one clock tick), but never for
\* one within the size limit and one above it.
SameInfo(e, f) ==
  /\ e # Absent
  /\ f # Absent
  /\ e.stamp = f.stamp
  /\ e.body = Big <=> f.body = Big

\* What a loss of power may leave of the temporary file f once it has a name.
Survivors(f) == {f.body} \cup (IF f.synced THEN {} ELSE {Torn})

\* newBackupName never returns a name in use (it ends in a random token), but
\* its time stamp may sort anywhere among the others: clocks are set back.
\* Names bounds the backups there can be: no conversion or deletion begins when
\* it is used up.
FreshName(n) == bDisk[n] = {Absent} /\ backups[n] = Absent

-----------------------------------------------------------------------------
(* Calls and returns. *)

\* The operation gives up the mutex.  Its deferred functions close and remove
\* the temporary files it did not publish.
Return(result) ==
  /\ pc' = "idle"
  /\ reply' = result
  /\ unlinked' = Absent
  /\ temp' = Absent
  /\ copy' = Absent
  /\ expired' = {}
  /\ UNCHANGED <<daemon, call, snap, bname, faults>>

\* The operation goes on.
Goto(step) == pc' = step /\ UNCHANGED <<daemon, call, reply, faults>>

\* An operation takes the mutex; on a closed store it returns at once.
Begin(kind, t, m, step) ==
  /\ pc = "idle"
  /\ daemon # "down"
  /\ call' = [kind |-> kind, target |-> t, msg |-> m]
  /\ snap' = Absent
  /\ bname' = 0
  /\ raced' = FALSE
  /\ committed' = FALSE
  /\ pc' = IF daemon = "up" THEN step ELSE "idle"
  /\ reply' = IF daemon = "up" THEN "none" ELSE "closed"
  /\ UNCHANGED <<alertDir, backupDir, daemon, unlinked, temp, copy, expired, faults>>

Create(t, m) == Begin("create", t, m, "mktemp")
Write(t, m) == Begin("write", t, m, "precheck")
ConvertLegacy(t, m) == (\E n \in Names : FreshName(n)) /\ Begin("convert", t, m, "inspect")
Delete(t) == (\E n \in Names : FreshName(n)) /\ Begin("delete", t, Absent, "inspect")
Read(t) == Begin("read", t, Absent, "read")

\* List reads every entry of the directory the way Read reads one.
ReadEntry ==
  /\ pc = "read"
  /\ Return(Kind(alerts[call.target]))
  /\ UNCHANGED <<alertDir, backupDir, observed>>

Close ==
  /\ pc = "idle"
  /\ daemon = "up"
  /\ daemon' = "closed"
  /\ UNCHANGED <<alertDir, backupDir, pc, call, work, reply, observed, faults>>

\* A new daemon opens the two directories, the one before it gone.
Open ==
  /\ daemon # "up"
  /\ daemon' = "up"
  /\ UNCHANGED <<alertDir, backupDir, pc, call, work, reply, observed, faults>>

-----------------------------------------------------------------------------
(* backupAlert: the first half of ConvertLegacy and Delete. *)

\* What the descriptor of the source file shows.
Source == IF unlinked = Absent THEN alerts[call.target] ELSE unlinked

\* Lstat, open and Stat the source.
Inspect ==
  /\ pc = "inspect"
  /\ LET e == alerts[call.target] IN
       \/ /\ Kind(e) \in {"managed", "legacy"}
          /\ snap' = e
          /\ Goto("copy")
          /\ UNCHANGED <<unlinked, temp, copy, bname, expired>>
       \/ /\ Kind(e) \notin {"managed", "legacy"}
          /\ Return(Kind(e))
  /\ UNCHANGED <<alertDir, backupDir, observed>>

\* Create the temporary backup and copy the source into it and into memory.
CopySource ==
  /\ pc = "copy"
  /\ \/ /\ Kind(Source) # "oversized"
        /\ snap' = [stamp |-> snap.stamp, body |-> Source.body]
        /\ copy' = [body |-> Source.body, synced |-> FALSE]
        /\ Goto("restat")
        /\ UNCHANGED <<unlinked, temp, bname, expired>>
     \/ /\ Kind(Source) = "oversized"
        /\ Return("oversized")
  /\ UNCHANGED <<alertDir, backupDir, observed>>

\* Stat the source again; only Delete takes a managed one.
Restat ==
  /\ pc = "restat"
  /\ \/ /\ ~SameInfo(snap, Source)
        /\ Return("source_changed")
     \/ /\ SameInfo(snap, Source)
        /\ call.kind = "convert" /\ Kind(snap) = "managed"
        /\ Return("managed")
     \/ /\ SameInfo(snap, Source)
        /\ ~(call.kind = "convert" /\ Kind(snap) = "managed")
        /\ Goto("syncCopy")
        /\ UNCHANGED work
  /\ UNCHANGED <<alertDir, backupDir, observed>>

SyncCopy ==
  /\ pc = "syncCopy"
  /\ copy' = [body |-> copy.body, synced |-> TRUE]
  /\ Goto("publishBackup")
  /\ UNCHANGED <<alertDir, backupDir, snap, unlinked, temp, bname, expired, observed>>

PublishBackup ==
  /\ pc = "publishBackup"
  /\ \E n \in Names :
       /\ FreshName(n)
       /\ bname' = n
       /\ backups' = [backups EXCEPT ![n] = copy.body]
       /\ bDisk' = [bDisk EXCEPT ![n] = @ \cup Survivors(copy)]
  /\ copy' = Absent
  /\ Goto("syncBackup")
  /\ UNCHANGED <<alertDir, snap, unlinked, temp, expired, observed>>

\* syncDirectory on the backup directory.
SyncBackupDir == bDisk' = [n \in Names |-> {backups[n]}] /\ UNCHANGED backups

\* Mutant: the backup directory is not synced before the alert is changed.
NoSyncBackup ==
  /\ pc = "syncBackup"
  /\ Goto("list")
  /\ UNCHANGED <<alertDir, backupDir, work, observed>>

SyncBackup ==
  /\ pc = "syncBackup"
  /\ SyncBackupDir
  /\ Goto("list")
  /\ UNCHANGED <<alertDir, work, observed>>

BackupNames == {n \in Names : backups[n] # Absent}

\* Mutant: retention keeps one backup too many.
ExpiredOffByOne(names, protected) ==
  {n \in names \ {protected} :
     Cardinality({k \in names \ {protected} : k < n}) + MaxBackups + 1 < Cardinality(names)}

\* Mutant: retention does not spare the protected name.
ExpiredUnprotected(names, protected) ==
  {n \in names : Cardinality({k \in names : k < n}) + MaxBackups < Cardinality(names)}

\* The first Cardinality(names) - MaxBackups names in sort order, passing
\* over the protected one.
Expired(names, protected) ==
  {n \in names \ {protected} :
     Cardinality({k \in names \ {protected} : k < n}) + MaxBackups < Cardinality(names)}

\* The step after a successful backup.
AfterBackup == IF call.kind = "convert" THEN "mktemp" ELSE "verify"

ListBackups ==
  /\ pc = "list"
  /\ \/ /\ Cardinality(BackupNames) <= MaxBackups
        /\ Goto(AfterBackup)
        /\ UNCHANGED work
     \/ /\ Cardinality(BackupNames) > MaxBackups
        /\ expired' = Expired(BackupNames, bname)
        /\ Goto("prune")
        /\ UNCHANGED <<snap, unlinked, temp, copy, bname>>
  /\ UNCHANGED <<alertDir, backupDir, observed>>

PruneOne ==
  /\ pc = "prune"
  /\ \E n \in expired :
       /\ \A k \in expired : n <= k
       /\ backups' = [backups EXCEPT ![n] = Absent]
       /\ bDisk' = [bDisk EXCEPT ![n] = @ \cup {Absent}]
       /\ expired' = expired \ {n}
  /\ Goto("prune")
  /\ UNCHANGED <<alertDir, snap, unlinked, temp, copy, bname, observed>>

SyncPruned ==
  /\ pc = "prune"
  /\ expired = {}
  /\ SyncBackupDir
  /\ Goto(AfterBackup)
  /\ UNCHANGED <<alertDir, work, observed>>

-----------------------------------------------------------------------------
(* Publishing and removing alerts. *)

\* ensureManagedWritable, before Write prepares its file.
Precheck ==
  /\ pc = "precheck"
  /\ \/ /\ Kind(alerts[call.target]) \in {"managed", "not_found"}
        /\ Goto("mktemp")
        /\ UNCHANGED work
     \/ /\ Kind(alerts[call.target]) \notin {"managed", "not_found"}
        /\ Return(Kind(alerts[call.target]))
  /\ UNCHANGED <<alertDir, backupDir, observed>>

\* createTemporaryAlert and the write of the rendered message.
MakeTemp ==
  /\ pc = "mktemp"
  /\ temp' = [body |-> call.msg, synced |-> FALSE]
  /\ Goto("syncTemp")
  /\ UNCHANGED <<alertDir, backupDir, snap, unlinked, copy, bname, expired, observed>>

\* Mutant: Create publishes its file the way Write does.
CreateRenames ==
  CASE call.kind \in {"create", "write"} -> "recheck"
    [] call.kind = "convert"             -> "verify"

AfterTemp ==
  CASE call.kind = "create"  -> "link"
    [] call.kind = "write"   -> "recheck"
    [] call.kind = "convert" -> "verify"

\* Mutant: the temporary alert is published without a sync.
NoSyncTemp ==
  /\ pc = "syncTemp"
  /\ Goto(AfterTemp)
  /\ UNCHANGED <<alertDir, backupDir, work, observed>>

\* Sync, Chmod, Sync and Close.
SyncTemp ==
  /\ pc = "syncTemp"
  /\ temp' = [body |-> temp.body, synced |-> TRUE]
  /\ Goto(AfterTemp)
  /\ UNCHANGED <<alertDir, backupDir, snap, unlinked, copy, bname, expired, observed>>

\* Mutant: Write trusts its first check.
NoRecheck ==
  /\ pc = "recheck"
  /\ raced' = FALSE
  /\ Goto("rename")
  /\ UNCHANGED <<alertDir, backupDir, work, committed>>

\* ensureManagedWritable again, immediately before the rename.
Recheck ==
  /\ pc = "recheck"
  /\ \/ /\ Kind(alerts[call.target]) \in {"managed", "not_found"}
        /\ raced' = FALSE
        /\ Goto("rename")
        /\ UNCHANGED <<work, committed>>
     \/ /\ Kind(alerts[call.target]) \notin {"managed", "not_found"}
        /\ Return(Kind(alerts[call.target]))
        /\ UNCHANGED observed
  /\ UNCHANGED <<alertDir, backupDir>>

\* Mutant: the source is compared by its metadata only.
SameMetadata(e) == SameInfo(snap, e)

\* verifySourceUnchanged compares identity and bytes with the snapshot.
Unchanged(e) == SameInfo(snap, e) /\ e.body = snap.body

Verify ==
  /\ pc = "verify"
  /\ \/ /\ Unchanged(alerts[call.target])
        /\ raced' = FALSE
        /\ Goto(IF call.kind = "delete" THEN "remove" ELSE "rename")
        /\ UNCHANGED <<work, committed>>
     \/ /\ ~Unchanged(alerts[call.target])
        /\ Return("source_changed")
        /\ UNCHANGED observed
  /\ UNCHANGED <<alertDir, backupDir>>

\* The temporary file becomes the entry of the target.
Publish ==
  \E s \in Stamps :
    /\ alerts' = [alerts EXCEPT ![call.target] = [stamp |-> s, body |-> temp.body]]
    /\ aDisk' = [aDisk EXCEPT ![call.target] = @ \cup {[stamp |-> s, body |-> b] : b \in Survivors(temp)}]

\* Rename replaces whatever is there.
Rename ==
  /\ pc = "rename"
  /\ Publish
  /\ temp' = Absent
  /\ committed' = TRUE
  /\ Goto("syncAlerts")
  /\ UNCHANGED <<backupDir, snap, unlinked, copy, bname, expired, raced>>

\* Mutant: Link replaces what is there, as Rename does.
LinkReplaces ==
  /\ pc = "link"
  /\ Publish
  /\ raced' = FALSE
  /\ committed' = TRUE
  /\ Goto("unlink")
  /\ UNCHANGED <<backupDir, work>>

\* Link fails when the name exists.
Link ==
  /\ pc = "link"
  /\ \/ /\ alerts[call.target] = Absent
        /\ Publish
        /\ raced' = FALSE
        /\ committed' = TRUE
        /\ Goto("unlink")
        /\ UNCHANGED work
     \/ /\ alerts[call.target] # Absent
        /\ Return("already_exists")
        /\ UNCHANGED <<alertDir, observed>>
  /\ UNCHANGED backupDir

\* Create removes the temporary name of the file it linked.
Unlink ==
  /\ pc = "unlink"
  /\ temp' = Absent
  /\ Goto("syncAlerts")
  /\ UNCHANGED <<alertDir, backupDir, snap, unlinked, copy, bname, expired, observed>>

Remove ==
  /\ pc = "remove"
  /\ \/ /\ alerts[call.target] # Absent
        /\ alerts' = [alerts EXCEPT ![call.target] = Absent]
        /\ aDisk' = [aDisk EXCEPT ![call.target] = @ \cup {Absent}]
        /\ committed' = TRUE
        /\ Goto("syncAlerts")
        /\ UNCHANGED <<work, raced>>
     \/ /\ alerts[call.target] = Absent
        /\ Return("not_found")
        /\ UNCHANGED <<alertDir, observed>>
  /\ UNCHANGED backupDir

\* Mutant: success is returned without syncing the alert directory.
NoSyncAlerts ==
  /\ pc = "syncAlerts"
  /\ Return("ok")
  /\ UNCHANGED <<alertDir, backupDir, observed>>

\* syncDirectory on the alert directory, then the operation has succeeded.
SyncAlerts ==
  /\ pc = "syncAlerts"
  /\ aDisk' = [t \in Targets |-> {alerts[t]}]
  /\ Return("ok")
  /\ UNCHANGED <<alerts, backupDir, observed>>

\* Any file operation may fail, with the effect of none: out of space, a
\* media error.  A file replaced between Lstat and Open is ErrUnsafeFile.
IOError ==
  /\ pc # "idle"
  /\ \/ Return("io_error")
     \/ pc \in {"read", "inspect", "precheck", "recheck"} /\ Return("unsafe")
  /\ UNCHANGED <<alertDir, backupDir, observed>>

-----------------------------------------------------------------------------
(* Outside writers, crashes, power. *)

OutsideChange(t, e) ==
  /\ outside < MaxOutside
  /\ outside' = outside + 1
  /\ alerts' = [alerts EXCEPT ![t] = e]
  /\ aDisk' = [aDisk EXCEPT ![t] = @ \cup {e}]
  /\ raced' = (raced \/ t = call.target)
  /\ UNCHANGED <<backupDir, daemon, pc, call, snap, temp, copy, bname, expired, reply,
                 committed, crashes>>

\* Another process creates, replaces or removes a file.  A descriptor of the
\* old file keeps showing the old file.
OutsideReplace(t, e) ==
  /\ e # alerts[t]
  /\ OutsideChange(t, e)
  /\ unlinked' = IF t = call.target /\ pc \in {"copy", "restat"} THEN Source ELSE unlinked

\* Another process writes into a file in place.
OutsideEdit(t, e) ==
  /\ Kind(alerts[t]) \in {"managed", "legacy", "oversized"}
  /\ Kind(e) \in {"managed", "legacy", "oversized"}
  /\ e.body # alerts[t].body
  /\ OutsideChange(t, e)
  /\ UNCHANGED unlinked

\* The daemon dies where it stands; what it saw of the directories stays.
Stop ==
  /\ crashes < MaxCrashes
  /\ crashes' = crashes + 1
  /\ daemon' = "down"
  /\ pc' = "idle"
  /\ unlinked' = Absent
  /\ temp' = Absent
  /\ copy' = Absent
  /\ expired' = {}
  /\ UNCHANGED <<call, snap, bname, reply, observed, outside>>

Crash == daemon # "down" /\ Stop /\ UNCHANGED <<alertDir, backupDir>>

\* One of the possible choices from each of the sets S[x].
Choices(S) == {f \in [DOMAIN S -> UNION {S[x] : x \in DOMAIN S}] : \A x \in DOMAIN S : f[x] \in S[x]}

PowerLoss ==
  /\ Stop
  /\ alerts' \in Choices(aDisk)
  /\ aDisk' = [t \in Targets |-> {alerts'[t]}]
  /\ backups' \in Choices(bDisk)
  /\ bDisk' = [n \in Names |-> {backups'[n]}]

-----------------------------------------------------------------------------
Init ==
  /\ alerts \in [Targets -> {e \in Slots : e = Absent \/ e.body # Torn}]
  /\ aDisk = [t \in Targets |-> {alerts[t]}]
  /\ backups = [n \in Names |-> Absent]
  /\ bDisk = [n \in Names |-> {Absent}]
  /\ daemon = "up"
  /\ pc = "idle"
  /\ call = [kind |-> "none", target |-> Absent, msg |-> Absent]
  /\ snap = Absent
  /\ unlinked = Absent
  /\ temp = Absent
  /\ copy = Absent
  /\ bname = 0
  /\ expired = {}
  /\ reply = "none"
  /\ raced = FALSE
  /\ committed = FALSE
  /\ outside = 0
  /\ crashes = 0

Invoke ==
  \/ \E t \in Targets, m \in Messages : Create(t, m) \/ Write(t, m) \/ ConvertLegacy(t, m)
  \/ \E t \in Targets : Delete(t) \/ Read(t)

BackupStep ==
  \/ Inspect \/ CopySource \/ Restat \/ SyncCopy \/ PublishBackup
  \/ SyncBackup \/ ListBackups \/ PruneOne \/ SyncPruned

AlertStep ==
  \/ ReadEntry \/ Precheck \/ MakeTemp \/ SyncTemp \/ Recheck \/ Verify
  \/ Rename \/ Link \/ Unlink \/ Remove \/ SyncAlerts

Step == BackupStep \/ AlertStep \/ IOError

\* Outside writers write whole files: Torn is not theirs to write.
Outside ==
  \E t \in Targets, e \in {e \in Slots : e = Absent \/ e.body # Torn} :
    OutsideReplace(t, e) \/ OutsideEdit(t, e)

Next == Invoke \/ Close \/ Open \/ Step \/ Outside \/ Crash \/ PowerLoss

Spec == Init /\ [][Next]_vars

-----------------------------------------------------------------------------
(* Properties. *)

Steps == {"idle", "read", "inspect", "copy", "restat", "syncCopy", "publishBackup",
          "syncBackup", "list", "prune", "precheck", "mktemp", "syncTemp", "recheck",
          "verify", "rename", "link", "unlink", "remove", "syncAlerts"}

Replies == {"none", "ok", "closed", "managed", "legacy", "oversized", "unsafe", "not_found",
            "already_exists", "source_changed", "io_error"}

Calls == [kind : {"none", "create", "write", "convert", "delete", "read"},
          target : Targets \cup {Absent},
          msg : Messages \cup {Absent}]

\* The type of every variable.
TypeOK ==
  /\ alerts \in [Targets -> Slots]
  /\ aDisk \in [Targets -> SUBSET Slots]
  /\ backups \in [Names -> Contents]
  /\ bDisk \in [Names -> SUBSET Contents]
  /\ daemon \in {"up", "closed", "down"}
  /\ pc \in Steps
  /\ call \in Calls
  /\ snap \in Slots
  /\ unlinked \in Slots
  /\ temp \in Temps
  /\ copy \in Temps
  /\ bname \in Names \cup {0}
  /\ expired \in SUBSET Names
  /\ reply \in Replies
  /\ raced \in BOOLEAN
  /\ committed \in BOOLEAN
  /\ outside \in 0 .. MaxOutside
  /\ crashes \in 0 .. MaxCrashes

\* No reader, and no daemon started after a loss of power, finds a file that
\* was cut short: neither an alert nor a backup has a name before all of it
\* is on the disk (createManagedExclusive, writeManagedChecked, backupAlert).
WholeFiles ==
  /\ \A t \in Targets : \A e \in aDisk[t] \cup {alerts[t]} : e = Absent \/ e.body # Torn
  /\ \A n \in Names : Torn \notin bDisk[n] \cup {backups[n]}

\* A step of the operation that holds the mutex.
StoreStep == pc # "idle" /\ <<outside, crashes>>' = <<outside, crashes>>

\* Whatever the store replaces without a backup is nobody's or its own: Create
\* gives a name only to a name without entry, whoever else creates entries
\* meanwhile, and Write replaces nothing but a managed alert, unless an
\* outside writer put it there after the last check.
ReplacesOnlyItsOwn ==
  [][\A t \in Targets :
       StoreStep /\ alerts'[t] # alerts[t] /\ call.kind \in {"create", "write"} =>
         /\ t = call.target
         /\ call.kind = "create" => alerts[t] = Absent
         /\ raced \/ Kind(alerts[t]) \in {"managed", "not_found"}]_vars

\* An alert that a conversion replaces or a deletion removes is, byte for
\* byte, in a backup that a loss of power cannot take away any more, unless an
\* outside writer changed the alert between verifySourceUnchanged and the
\* change; and a conversion replaces nothing managed.
DestroyedIsArchived ==
  [][\A t \in Targets :
       StoreStep /\ alerts'[t] # alerts[t] /\ call.kind \in {"convert", "delete"} /\ ~raced =>
         /\ alerts[t] # Absent
         /\ bDisk[bname] = {alerts[t].body}
         /\ backups[bname] = alerts[t].body
         /\ call.kind = "convert" => Kind(alerts[t]) = "legacy"]_vars

\* From the moment a conversion or deletion has taken effect, the backup of
\* what it destroyed is there and stays there, through crashes, losses of
\* power and restarts, until another operation begins (whose retention may
\* choose it): retention never removes the operation's own backup.
BackupSurvives ==
  committed /\ call.kind \in {"convert", "delete"} =>
    /\ bname # 0
    /\ backups[bname] = snap.body
    /\ bDisk[bname] = {snap.body}

\* "No source mutation if retention fails": a conversion or deletion that took
\* effect left at most maxBackupFiles backups, also after a loss of power.
RetentionBeforeChange ==
  committed /\ call.kind \in {"convert", "delete"} => Cardinality(BackupNames) <= MaxBackups

\* What an alert holds for sure: the same in memory and after a loss of power.
Settled(t, b) == \A e \in aDisk[t] \cup {alerts[t]} : b = IF e = Absent THEN Absent ELSE e.body

\* An operation that returned no error has taken effect and a loss of power
\* does not undo it; only an outside writer can have changed the alert since.
SuccessIsDurable ==
  reply = "ok" /\ ~raced => committed /\ Settled(call.target, call.msg)

-----------------------------------------------------------------------------
(* The inductive invariant behind the safety properties: what the running  *)
(* operation may rely on at each of its steps.                             *)

BackupSteps == {"inspect", "copy", "restat", "syncCopy", "publishBackup", "syncBackup",
                "list", "prune"}

\* Which operation takes which step, and with which arguments.
CallsMatchSteps ==
  /\ pc # "idle" \/ committed => call.target \in Targets
  /\ call.kind \in {"create", "write", "convert"} => call.msg \in Messages
  /\ call.kind = "delete" => call.msg = Absent
  /\ pc = "read" => call.kind = "read"
  /\ pc \in BackupSteps \cup {"verify"} => call.kind \in {"convert", "delete"}
  /\ pc \in {"mktemp", "syncTemp"} => call.kind \in {"create", "write", "convert"}
  /\ pc \in {"precheck", "recheck"} => call.kind = "write"
  /\ pc \in {"link", "unlink"} => call.kind = "create"
  /\ pc = "rename" => call.kind \in {"write", "convert"}
  /\ pc = "remove" => call.kind = "delete"
  /\ pc = "syncAlerts" => call.kind \in {"create", "write", "convert", "delete"}

\* The temporary alert holds the whole message, synced before it is named.
TempReady ==
  /\ pc = "syncTemp" => temp.body = call.msg
  /\ pc \in {"recheck", "rename", "link"} \/ (pc = "verify" /\ call.kind = "convert") =>
       temp.body = call.msg /\ temp.synced

Regular(e) == e \in Entries /\ e.body \notin {Unsafe, Torn}

\* The open source is a regular file, and what was read of it is what the
\* temporary backup holds.
CopyReady ==
  /\ unlinked # Absent => Regular(unlinked)
  /\ pc \in {"copy", "restat"} => Regular(Source)
  /\ pc = "copy" => Regular(snap)
  /\ pc \in {"restat", "syncCopy", "publishBackup"} =>
       Regular(snap) /\ snap.body # Big /\ copy.body = snap.body
  /\ pc = "publishBackup" => copy.synced

\* Only a legacy alert is on its way to be converted.
ConvertsLegacy ==
  call.kind = "convert"
    /\ pc \in {"syncCopy", "publishBackup", "syncBackup", "list", "prune", "mktemp", "syncTemp",
               "verify", "rename"} => Regular(snap) /\ snap.body \notin Messages \cup {Big}

\* The steps of a conversion or deletion that follow the durable backup.
Backed == pc \in {"list", "prune", "mktemp", "syncTemp", "verify", "rename", "remove",
                  "syncAlerts"} \/ committed

\* The operation's own backup is published, then durable, and never expired.
BackupReady ==
  call.kind \in {"convert", "delete"} =>
    /\ pc = "syncBackup" \/ Backed => bname \in Names /\ Regular(snap) /\ backups[bname] = snap.body
    /\ Backed => bDisk[bname] = {snap.body}
    /\ pc = "prune" => bname \notin expired

\* What the last check saw is still there unless an outside writer came by.
CheckHolds ==
  ~raced =>
    /\ pc = "rename" /\ call.kind = "write" =>
         Kind(alerts[call.target]) \in {"managed", "not_found"}
    /\ pc = "remove" \/ (pc = "rename" /\ call.kind = "convert") =>
         alerts[call.target] # Absent /\ alerts[call.target].body = snap.body
    /\ pc \in {"unlink", "syncAlerts"} =>
         call.msg = IF alerts[call.target] = Absent THEN Absent ELSE alerts[call.target].body

\* Nothing is changed before the operation's last steps.
CommittedLate ==
  /\ committed => pc \in {"idle", "unlink", "syncAlerts"}
  /\ pc \in {"unlink", "syncAlerts"} => committed
  /\ pc # "idle" => reply = "none"

\* The inductive invariant.
IInv ==
  /\ TypeOK
  /\ WholeFiles
  /\ CallsMatchSteps
  /\ TempReady
  /\ CopyReady
  /\ ConvertsLegacy
  /\ BackupReady
  /\ CheckHolds
  /\ CommittedLate
  /\ SuccessIsDurable
=============================================================================
