-------------------------- MODULE AlertStoreProofs --------------------------
(***************************************************************************)
(* IInv of AlertStore is inductive, so the safety properties hold for any  *)
(* targets, messages, contents and backup names and any number of outside  *)
(* changes, crashes and losses of power.  One lemma per action; a branch   *)
(* that gives the operation up is covered by ReturnKeeps.                  *)
(***************************************************************************)
EXTENDS AlertStore, FiniteSetTheorems, TLAPS

\* What each kind readEntry reports says about the entry.
LEMMA KindFacts ==
  ASSUME NEW e
  PROVE  /\ Kind(e) \in {"managed", "not_found"} <=> e = Absent \/ e.body \in Messages
         /\ Kind(e) \in {"managed", "legacy"} <=> e # Absent /\ e.body \notin {Big, Unsafe}
         /\ Kind(e) \in {"managed", "legacy", "oversized"} <=> e # Absent /\ e.body # Unsafe
         /\ Kind(e) = "managed" <=> e # Absent /\ e.body \in Messages
         /\ Kind(e) = "legacy" <=> e # Absent /\ e.body \notin Messages \cup {Big, Unsafe}
         /\ Kind(e) = "oversized" <=> e # Absent /\ e.body = Big
         /\ Kind(e) \in {"managed", "legacy", "oversized", "unsafe", "not_found"}
  BY ContentsDisjoint DEF Kind, KindOfBody

\* A record with a stamp and a body is an entry, and an entry is not Absent.
LEMMA EntryFacts ==
  ASSUME NEW s \in Stamps, NEW b \in Bodies
  PROVE  [stamp |-> s, body |-> b] \in Entries /\ [stamp |-> s, body |-> b] # Absent
<1>1. [stamp |-> s, body |-> b] \in Entries
  BY DEF Entries
<1> QED
  BY <1>1, AbsentIsNoFile

\* The same for a temporary file.
LEMMA FileFacts ==
  ASSUME NEW b \in Bodies, NEW synced \in BOOLEAN
  PROVE  [body |-> b, synced |-> synced] \in Files
  BY DEF Files

\* The initial states satisfy the invariant.
LEMMA InitHolds == ASSUME Init PROVE IInv
<1>1. alerts \in [Targets -> Slots] /\ aDisk \in [Targets -> SUBSET Slots]
  BY DEF Init
<1>2. backups \in [Names -> Contents] /\ bDisk \in [Names -> SUBSET Contents]
  BY DEF Init, Contents
<1>3. call \in Calls
  BY DEF Init, Calls
<1>4. outside \in 0 .. MaxOutside /\ crashes \in 0 .. MaxCrashes
  BY BoundsAssumption DEF Init
<1>5. TypeOK
  BY <1>1, <1>2, <1>3, <1>4 DEF Init, TypeOK, Slots, Temps, Steps, Replies
<1>6. WholeFiles
  BY ContentsDisjoint DEF Init, WholeFiles
<1> QED
  BY <1>5, <1>6 DEF Init, IInv, CallsMatchSteps, BackupSteps, TempReady, CopyReady,
     ConvertsLegacy, BackupReady, Backed, CheckHolds, CommittedLate, SuccessIsDurable

\* An operation that begins, on an open or on a closed store.
LEMMA BeginKeeps ==
  ASSUME IInv, NEW kind, NEW t \in Targets, NEW m \in Messages \cup {Absent}, NEW step,
         <<kind, step>> \in {<<"create", "mktemp">>, <<"write", "precheck">>,
                             <<"convert", "inspect">>, <<"delete", "inspect">>,
                             <<"read", "read">>},
         kind \in {"create", "write", "convert"} => m \in Messages,
         kind = "delete" => m = Absent,
         Begin(kind, t, m, step)
  PROVE  IInv'
<1> USE DEF IInv, Begin, alertDir, backupDir, faults
<1>1. TypeOK'
  BY DEF TypeOK, Temps, Slots, Steps, Calls, Replies
<1>2. WholeFiles'
  BY DEF WholeFiles
<1>3. CallsMatchSteps'
  BY DEF CallsMatchSteps, BackupSteps
<1>4. TempReady' /\ ConvertsLegacy' /\ CheckHolds' /\ CommittedLate'
  BY DEF TempReady, ConvertsLegacy, CheckHolds, CommittedLate
<1>5. CopyReady' /\ SuccessIsDurable'
  BY DEF CopyReady, SuccessIsDurable
<1>6. BackupReady'
  BY DEF BackupReady, Backed
<1> QED
  BY <1>1, <1>2, <1>3, <1>4, <1>5, <1>6

\* An operation that ends without success leaves the directories as they are.
LEMMA ReturnKeeps ==
  ASSUME IInv, pc # "idle", NEW r \in Replies \ {"ok"}, Return(r),
         UNCHANGED <<alertDir, backupDir, observed>>
  PROVE  IInv'
<1> USE DEF IInv, Return, alertDir, backupDir, observed, faults
<1>1. TypeOK'
  BY DEF TypeOK, Temps, Slots, Steps
<1>2. WholeFiles'
  BY DEF WholeFiles
<1>3. CallsMatchSteps' /\ TempReady' /\ ConvertsLegacy' /\ CheckHolds' /\ CommittedLate'
  BY DEF CallsMatchSteps, BackupSteps, TempReady, ConvertsLegacy, CheckHolds, CommittedLate
<1>4. CopyReady' /\ SuccessIsDurable'
  BY DEF CopyReady, SuccessIsDurable
<1>5. BackupReady'
  BY DEF BackupReady, Backed, Regular
<1> QED
  BY <1>1, <1>2, <1>3, <1>4, <1>5

-----------------------------------------------------------------------------
(* The steps of backupAlert. *)

\* backupAlert opens a regular file within the size limit, or gives up.
LEMMA InspectKeeps == ASSUME IInv, Inspect PROVE IInv'
<1> DEFINE e == alerts[call.target]
<1>1. CASE Kind(e) \notin {"managed", "legacy"}
  BY <1>1, ReturnKeeps, KindFacts DEF Inspect, Replies
<1>2. CASE Kind(e) \in {"managed", "legacy"}
  <2> USE <1>2 DEF IInv, Inspect, Goto, alertDir, backupDir, observed, faults
  <2>1. Regular(e) /\ snap' = e
    BY KindFacts DEF Regular, TypeOK, Slots, WholeFiles, CallsMatchSteps, BackupSteps
  <2>2. TypeOK'
    BY <2>1 DEF TypeOK, Steps, Slots, Regular
  <2>3. CopyReady'
    BY <2>1 DEF CopyReady, Source, Regular
  <2>4. WholeFiles' /\ CallsMatchSteps' /\ TempReady' /\ ConvertsLegacy' /\ CheckHolds'
    BY DEF WholeFiles, CallsMatchSteps, BackupSteps, TempReady, ConvertsLegacy, CheckHolds
  <2>5. CommittedLate' /\ SuccessIsDurable' /\ BackupReady'
    BY DEF CommittedLate, SuccessIsDurable, BackupReady, Backed
  <2> QED
    BY <2>2, <2>3, <2>4, <2>5
<1> QED
  BY <1>1, <1>2

\* The copy and the snapshot hold what the open descriptor shows.
LEMMA CopySourceKeeps == ASSUME IInv, CopySource PROVE IInv'
<1>1. CASE Kind(Source) = "oversized"
  BY <1>1, ReturnKeeps DEF CopySource, Replies
<1>2. CASE Kind(Source) # "oversized"
  <2> USE <1>2 DEF IInv, CopySource, Goto, alertDir, backupDir, observed, faults
  <2>1. Source \in Entries /\ snap \in Entries /\ Source.body \notin {Unsafe, Torn, Big}
    BY KindFacts, AbsentIsNoFile DEF CopyReady, Regular
  <2>2. snap.stamp \in Stamps /\ Source.body \in Bodies
    BY <2>1 DEF Entries
  <2>3. snap' \in Entries /\ snap'.body = Source.body
    BY <2>2, EntryFacts
  <2>4. copy' = [body |-> Source.body, synced |-> FALSE] /\ pc' = "restat"
    OBVIOUS
  <2>5. copy' \in Files
    BY <2>2, <2>4, FileFacts
  <2>6. TypeOK'
    BY <2>3, <2>4, <2>5 DEF TypeOK, Steps, Slots, Temps
  <2>7. Regular(Source')
    BY DEF CopyReady, Source, Regular
  <2>8. CopyReady'
    BY <2>1, <2>3, <2>7 DEF CopyReady, Regular
  <2>9. WholeFiles' /\ CallsMatchSteps' /\ TempReady' /\ ConvertsLegacy' /\ CheckHolds'
    BY DEF WholeFiles, CallsMatchSteps, BackupSteps, TempReady, ConvertsLegacy, CheckHolds
  <2>10. CommittedLate' /\ SuccessIsDurable' /\ BackupReady'
    BY DEF CommittedLate, SuccessIsDurable, BackupReady, Backed
  <2> QED
    BY <2>6, <2>8, <2>9, <2>10
<1> QED
  BY <1>1, <1>2

\* A managed source, or one that changed during the copy, ends a conversion.
LEMMA RestatKeeps == ASSUME IInv, Restat PROVE IInv'
<1>1. CASE Return("source_changed") \/ Return("managed")
  BY <1>1, ReturnKeeps DEF Restat, Replies
<1>2. CASE ~(call.kind = "convert" /\ Kind(snap) = "managed") /\ Goto("syncCopy") /\ UNCHANGED work
  <2> USE <1>2 DEF IInv, Restat, Goto, alertDir, backupDir, observed, faults, work
  <2>1. TypeOK'
    BY DEF TypeOK, Steps
  <2>2. CopyReady'
    BY DEF CopyReady, Regular
  <2>3. ConvertsLegacy'
    BY KindFacts, AbsentIsNoFile DEF ConvertsLegacy, CopyReady, Regular
  <2>4. WholeFiles' /\ CallsMatchSteps' /\ TempReady' /\ CheckHolds'
    BY DEF WholeFiles, CallsMatchSteps, BackupSteps, TempReady, CheckHolds
  <2>5. CommittedLate' /\ SuccessIsDurable' /\ BackupReady'
    BY DEF CommittedLate, SuccessIsDurable, BackupReady, Backed
  <2> QED
    BY <2>1, <2>2, <2>3, <2>4, <2>5
<1> QED
  BY <1>1, <1>2 DEF Restat

\* The temporary backup is on the disk before it is named.
LEMMA SyncCopyKeeps == ASSUME IInv, SyncCopy PROVE IInv'
<1> USE DEF IInv, SyncCopy, Goto, alertDir, backupDir, observed, faults
<1>1. TypeOK'
  BY DEF TypeOK, Steps, Temps, Files, CopyReady, Regular, Entries
<1>2. CopyReady'
  BY DEF CopyReady, Regular
<1>3. WholeFiles' /\ CallsMatchSteps' /\ TempReady' /\ CheckHolds' /\ ConvertsLegacy'
  BY DEF WholeFiles, CallsMatchSteps, BackupSteps, TempReady, CheckHolds, ConvertsLegacy, Regular
<1>4. CommittedLate' /\ SuccessIsDurable' /\ BackupReady'
  BY DEF CommittedLate, SuccessIsDurable, BackupReady, Backed
<1> QED
  BY <1>1, <1>2, <1>3, <1>4

\* The operation's backup appears whole under a name of its own.
LEMMA PublishBackupKeeps == ASSUME IInv, PublishBackup PROVE IInv'
<1> USE DEF IInv, PublishBackup, FreshName, Goto, alertDir, observed, faults
<1>1. snap \in Entries /\ copy.body = snap.body /\ copy.body \in Bodies /\ copy.body # Torn
  BY DEF CopyReady, Regular, Entries
<1>2. Survivors(copy) = {copy.body}
  BY DEF CopyReady, Survivors
<1>3. PICK n \in Names : /\ bname' = n
                         /\ backups' = [backups EXCEPT ![n] = copy.body]
                         /\ bDisk' = [bDisk EXCEPT ![n] = @ \cup {copy.body}]
  BY <1>2
<1>4. TypeOK'
  BY <1>1, <1>3 DEF TypeOK, Steps, Contents, Temps
<1>5. WholeFiles'
  BY <1>1, <1>3 DEF WholeFiles, TypeOK
<1>6. BackupReady'
  BY <1>1, <1>3 DEF BackupReady, Backed, CommittedLate, TypeOK, CopyReady, Regular
<1>7. CopyReady' /\ CallsMatchSteps' /\ TempReady' /\ CheckHolds' /\ ConvertsLegacy'
  BY DEF CopyReady, CallsMatchSteps, BackupSteps, TempReady, CheckHolds, ConvertsLegacy, Regular
<1>8. CommittedLate' /\ SuccessIsDurable'
  BY DEF CommittedLate, SuccessIsDurable
<1> QED
  BY <1>4, <1>5, <1>6, <1>7, <1>8

\* Syncing the backup directory leaves one possible content per name.
LEMMA SyncBackupDirFacts ==
  ASSUME IInv, SyncBackupDir
  PROVE  /\ bDisk' \in [Names -> SUBSET Contents]
         /\ \A n \in Names : bDisk'[n] = {backups[n]} /\ Torn \notin bDisk'[n]
  BY DEF SyncBackupDir, IInv, TypeOK, WholeFiles

\* From here on a loss of power cannot take the backup away.
LEMMA SyncBackupKeeps == ASSUME IInv, SyncBackup PROVE IInv'
<1> USE DEF IInv, SyncBackup, Goto, alertDir, observed, faults, work
<1>1. backups' = backups
  BY DEF SyncBackupDir
<1>2. TypeOK' /\ WholeFiles'
  BY <1>1, SyncBackupDirFacts DEF TypeOK, Steps, WholeFiles
<1>3. BackupReady'
  BY <1>1, SyncBackupDirFacts DEF BackupReady, CallsMatchSteps, BackupSteps
<1>4. CopyReady' /\ CallsMatchSteps' /\ TempReady' /\ CheckHolds' /\ ConvertsLegacy'
  BY DEF CopyReady, CallsMatchSteps, BackupSteps, TempReady, CheckHolds, ConvertsLegacy, Regular
<1>5. CommittedLate' /\ SuccessIsDurable'
  BY DEF CommittedLate, SuccessIsDurable
<1> QED
  BY <1>2, <1>3, <1>4, <1>5

\* Retention never marks the operation's own backup.
LEMMA ListBackupsKeeps == ASSUME IInv, ListBackups PROVE IInv'
<1> USE DEF IInv, ListBackups, Goto, AfterBackup, alertDir, backupDir, observed, faults, work
<1>1. call.kind \in {"convert", "delete"} /\ pc' \in {"mktemp", "verify", "prune"}
  BY DEF CallsMatchSteps, BackupSteps
<1>2. expired' \in SUBSET Names /\ (pc' = "prune" => bname \notin expired')
  BY DEF TypeOK, Expired, BackupNames
<1>3. TypeOK'
  BY <1>1, <1>2 DEF TypeOK, Steps
<1>4. BackupReady'
  BY <1>1, <1>2 DEF BackupReady, Backed, Regular
<1>5. CallsMatchSteps' /\ TempReady'
  BY <1>1 DEF CallsMatchSteps, BackupSteps, TempReady
<1>6. WholeFiles' /\ CopyReady' /\ CheckHolds' /\ ConvertsLegacy'
  BY <1>1 DEF WholeFiles, CopyReady, CheckHolds, ConvertsLegacy, Regular
<1>7. CommittedLate' /\ SuccessIsDurable'
  BY <1>1 DEF CommittedLate, SuccessIsDurable
<1> QED
  BY <1>3, <1>4, <1>5, <1>6, <1>7

\* Removing an expired backup leaves the operation's own one alone.
LEMMA PruneOneKeeps == ASSUME IInv, PruneOne PROVE IInv'
<1> USE DEF IInv, PruneOne, Goto, alertDir, observed, faults
<1>1. PICK n \in expired : /\ backups' = [backups EXCEPT ![n] = Absent]
                           /\ bDisk' = [bDisk EXCEPT ![n] = @ \cup {Absent}]
                           /\ expired' = expired \ {n}
  OBVIOUS
<1>2. n \in Names
  BY DEF TypeOK
<1>3. TypeOK'
  BY <1>1, <1>2 DEF TypeOK, Steps, Contents
<1>4. WholeFiles'
  BY <1>1, <1>2, ContentsDisjoint DEF WholeFiles, TypeOK
<1>5. n # bname /\ BackupReady'
  BY <1>1, <1>2 DEF BackupReady, Backed, CallsMatchSteps, BackupSteps, TypeOK, Regular
<1>6. CopyReady' /\ CallsMatchSteps' /\ TempReady' /\ CheckHolds' /\ ConvertsLegacy'
  BY DEF CopyReady, CallsMatchSteps, BackupSteps, TempReady, CheckHolds, ConvertsLegacy, Regular
<1>7. CommittedLate' /\ SuccessIsDurable'
  BY DEF CommittedLate, SuccessIsDurable
<1> QED
  BY <1>3, <1>4, <1>5, <1>6, <1>7

\* Retention ends with the backup directory synced.
LEMMA SyncPrunedKeeps == ASSUME IInv, SyncPruned PROVE IInv'
<1> USE DEF IInv, SyncPruned, Goto, AfterBackup, alertDir, observed, faults, work
<1>1. backups' = backups
  BY DEF SyncBackupDir
<1>2. call.kind \in {"convert", "delete"} /\ pc' \in {"mktemp", "verify"}
  BY DEF CallsMatchSteps, BackupSteps
<1>3. TypeOK' /\ WholeFiles'
  BY <1>1, <1>2, SyncBackupDirFacts DEF TypeOK, Steps, WholeFiles
<1>4. BackupReady'
  BY <1>1, <1>2, SyncBackupDirFacts DEF BackupReady, Backed, Regular
<1>5. CallsMatchSteps' /\ TempReady'
  BY <1>2 DEF CallsMatchSteps, BackupSteps, TempReady
<1>6. CopyReady' /\ CheckHolds' /\ ConvertsLegacy'
  BY <1>2 DEF CopyReady, CheckHolds, ConvertsLegacy, Regular
<1>7. CommittedLate' /\ SuccessIsDurable'
  BY <1>2 DEF CommittedLate, SuccessIsDurable
<1> QED
  BY <1>3, <1>4, <1>5, <1>6, <1>7

-----------------------------------------------------------------------------
(* The steps that publish and remove alerts. *)

\* Write goes on only over a managed alert or none.
LEMMA PrecheckKeeps == ASSUME IInv, Precheck PROVE IInv'
<1>1. CASE Kind(alerts[call.target]) \notin {"managed", "not_found"}
  BY <1>1, ReturnKeeps, KindFacts DEF Precheck, Replies
<1>2. CASE Kind(alerts[call.target]) \in {"managed", "not_found"}
  <2> USE <1>2 DEF IInv, Precheck, Goto, alertDir, backupDir, observed, faults, work
  <2>1. TypeOK' /\ WholeFiles'
    BY DEF TypeOK, Steps, WholeFiles
  <2>2. CopyReady' /\ CallsMatchSteps' /\ TempReady' /\ CheckHolds' /\ ConvertsLegacy'
    BY DEF CopyReady, CallsMatchSteps, BackupSteps, TempReady, CheckHolds, ConvertsLegacy, Regular
  <2>3. CommittedLate' /\ SuccessIsDurable' /\ BackupReady'
    BY DEF CommittedLate, SuccessIsDurable, BackupReady, CallsMatchSteps
  <2> QED
    BY <2>1, <2>2, <2>3
<1> QED
  BY <1>1, <1>2

\* The temporary alert holds the whole message.
LEMMA MakeTempKeeps == ASSUME IInv, MakeTemp PROVE IInv'
<1> USE DEF IInv, MakeTemp, Goto, alertDir, backupDir, observed, faults
<1>1. TypeOK'
  BY DEF TypeOK, Steps, Temps, Files, Bodies, CallsMatchSteps
<1>2. WholeFiles' /\ CopyReady' /\ CallsMatchSteps' /\ TempReady' /\ CheckHolds'
  BY DEF WholeFiles, CopyReady, CallsMatchSteps, BackupSteps, TempReady, CheckHolds, Regular
<1>3. ConvertsLegacy' /\ BackupReady'
  BY DEF ConvertsLegacy, BackupReady, Backed, Regular
<1>4. CommittedLate' /\ SuccessIsDurable'
  BY DEF CommittedLate, SuccessIsDurable
<1> QED
  BY <1>1, <1>2, <1>3, <1>4

\* It is on the disk before the step that gives it the target's name.
LEMMA SyncTempKeeps == ASSUME IInv, SyncTemp PROVE IInv'
<1> USE DEF IInv
<1>1. \/ call.kind = "create" /\ pc' = "link"
      \/ call.kind = "write" /\ pc' = "recheck"
      \/ call.kind = "convert" /\ pc' = "verify"
  BY DEF SyncTemp, Goto, AfterTemp, CallsMatchSteps
<1>2. pc = "syncTemp" /\ UNCHANGED <<alerts, aDisk, backups, bDisk, daemon, call, snap, unlinked,
        copy, bname, expired, reply, raced, committed, outside, crashes>>
  BY DEF SyncTemp, Goto, alertDir, backupDir, observed, faults
<1>3. temp' = [body |-> temp.body, synced |-> TRUE]
  BY DEF SyncTemp
<1>4. TypeOK'
  BY <1>1, <1>2, <1>3 DEF TypeOK, Steps, Temps, Files, Bodies, CallsMatchSteps, TempReady
<1>5. TempReady'
  BY <1>2, <1>3 DEF TempReady
<1>6. WholeFiles' /\ CopyReady' /\ CallsMatchSteps'
  BY <1>1, <1>2 DEF WholeFiles, CopyReady, CallsMatchSteps, BackupSteps, Regular
<1>7. CheckHolds' /\ ConvertsLegacy' /\ BackupReady'
  BY <1>1, <1>2 DEF CheckHolds, ConvertsLegacy, BackupReady, Backed, Regular
<1>8. CommittedLate' /\ SuccessIsDurable'
  BY <1>1, <1>2 DEF CommittedLate, SuccessIsDurable
<1> QED
  BY <1>4, <1>5, <1>6, <1>7, <1>8

\* The check before Write's rename starts a new watch for outside writers.
LEMMA RecheckKeeps == ASSUME IInv, Recheck PROVE IInv'
<1>1. CASE Kind(alerts[call.target]) \notin {"managed", "not_found"}
  BY <1>1, ReturnKeeps, KindFacts DEF Recheck, Replies
<1>2. CASE Kind(alerts[call.target]) \in {"managed", "not_found"}
  <2> USE <1>2 DEF IInv, Recheck, Goto, alertDir, backupDir, faults, work
  <2>1. TypeOK' /\ WholeFiles'
    BY DEF TypeOK, Steps, WholeFiles
  <2>2. CheckHolds'
    BY DEF CheckHolds, CallsMatchSteps
  <2>3. CopyReady' /\ CallsMatchSteps' /\ TempReady' /\ ConvertsLegacy'
    BY DEF CopyReady, CallsMatchSteps, BackupSteps, TempReady, ConvertsLegacy, Regular
  <2>4. CommittedLate' /\ SuccessIsDurable' /\ BackupReady'
    BY DEF CommittedLate, SuccessIsDurable, BackupReady, CallsMatchSteps
  <2> QED
    BY <2>1, <2>2, <2>3, <2>4
<1> QED
  BY <1>1, <1>2

\* So does the comparison with the snapshot before a conversion or deletion.
LEMMA VerifyKeeps == ASSUME IInv, Verify PROVE IInv'
<1>1. CASE ~Unchanged(alerts[call.target])
  BY <1>1, ReturnKeeps DEF Verify, Replies
<1>2. CASE Unchanged(alerts[call.target])
  <2> USE <1>2 DEF IInv, Verify, Goto, alertDir, backupDir, faults, work
  <2>1. \/ call.kind = "delete" /\ pc' = "remove"
        \/ call.kind = "convert" /\ pc' = "rename"
    BY DEF CallsMatchSteps
  <2>2. TypeOK' /\ WholeFiles'
    BY <2>1 DEF TypeOK, Steps, WholeFiles
  <2>3. CheckHolds'
    BY <2>1 DEF CheckHolds, Unchanged, SameInfo
  <2>4. CallsMatchSteps' /\ TempReady'
    BY <2>1 DEF CallsMatchSteps, BackupSteps, TempReady
  <2>5. CopyReady' /\ ConvertsLegacy' /\ BackupReady'
    BY <2>1 DEF CopyReady, ConvertsLegacy, BackupReady, Backed, Regular
  <2>6. CommittedLate' /\ SuccessIsDurable'
    BY <2>1 DEF CommittedLate, SuccessIsDurable
  <2> QED
    BY <2>2, <2>3, <2>4, <2>5, <2>6
<1> QED
  BY <1>1, <1>2

\* Publishing a synced temporary file that holds the message gives the target
\* the whole message, now and after a loss of power.
LEMMA PublishFacts ==
  ASSUME IInv, call.target \in Targets, call.msg \in Messages,
         temp.body = call.msg, temp.synced, Publish
  PROVE  /\ alerts' \in [Targets -> Slots]
         /\ aDisk' \in [Targets -> SUBSET Slots]
         /\ alerts'[call.target] # Absent /\ alerts'[call.target].body = call.msg
         /\ \A t \in Targets : \A e \in aDisk'[t] \cup {alerts'[t]} : e = Absent \/ e.body # Torn
<1> USE DEF IInv
<1>1. call.msg \in Bodies /\ call.msg # Torn
  BY ContentsDisjoint DEF Bodies
<1>2. Survivors(temp) = {call.msg}
  BY DEF Survivors
<1>3. PICK s \in Stamps :
        /\ alerts' = [alerts EXCEPT ![call.target] = [stamp |-> s, body |-> call.msg]]
        /\ aDisk' = [aDisk EXCEPT ![call.target] = @ \cup {[stamp |-> s, body |-> call.msg]}]
  <2>1. PICK s \in Stamps :
          /\ alerts' = [alerts EXCEPT ![call.target] = [stamp |-> s, body |-> temp.body]]
          /\ aDisk' = [aDisk EXCEPT ![call.target] =
                         @ \cup {[stamp |-> s, body |-> b] : b \in Survivors(temp)}]
    BY DEF Publish
  <2>2. {[stamp |-> s, body |-> b] : b \in {call.msg}} = {[stamp |-> s, body |-> call.msg]}
    OBVIOUS
  <2> QED
    BY <1>2, <2>1, <2>2
<1> DEFINE new == [stamp |-> s, body |-> call.msg]
<1>5. new \in Slots /\ new # Absent /\ new.body = call.msg
  BY <1>1, EntryFacts DEF Slots
<1> HIDE DEF new
<1>6. /\ alerts' = [alerts EXCEPT ![call.target] = new]
      /\ aDisk' = [aDisk EXCEPT ![call.target] = @ \cup {new}]
  BY <1>3 DEF new
<1>7. alerts' \in [Targets -> Slots] /\ aDisk' \in [Targets -> SUBSET Slots]
  BY <1>5, <1>6 DEF TypeOK
<1>8. alerts'[call.target] = new
  BY <1>6 DEF TypeOK
<1>9. \A t \in Targets : \A e \in aDisk'[t] \cup {alerts'[t]} : e = Absent \/ e.body # Torn
  BY <1>1, <1>5, <1>6 DEF TypeOK, WholeFiles
<1> QED
  BY <1>5, <1>7, <1>8, <1>9

\* Rename publishes a whole file, over whatever is there.
LEMMA RenameKeeps == ASSUME IInv, Rename PROVE IInv'
<1> USE DEF IInv, Rename, Goto, backupDir, faults
<1>1. call.target \in Targets /\ call.msg \in Messages /\ temp.body = call.msg /\ temp.synced
  BY DEF CallsMatchSteps, TempReady
<1>2. /\ alerts' \in [Targets -> Slots] /\ aDisk' \in [Targets -> SUBSET Slots]
      /\ alerts'[call.target] # Absent /\ alerts'[call.target].body = call.msg
      /\ \A t \in Targets : \A e \in aDisk'[t] \cup {alerts'[t]} : e = Absent \/ e.body # Torn
  BY <1>1, PublishFacts
<1>3. TypeOK'
  BY <1>2 DEF TypeOK, Steps, Temps
<1>4. WholeFiles'
  BY <1>2 DEF WholeFiles
<1>5. CheckHolds'
  BY <1>2 DEF CheckHolds
<1>6. CallsMatchSteps' /\ TempReady' /\ CopyReady' /\ ConvertsLegacy'
  BY DEF CallsMatchSteps, BackupSteps, TempReady, CopyReady, ConvertsLegacy, Regular
<1>7. BackupReady'
  BY DEF BackupReady, Backed, Regular
<1>8. CommittedLate' /\ SuccessIsDurable'
  BY DEF CommittedLate, SuccessIsDurable
<1> QED
  BY <1>3, <1>4, <1>5, <1>6, <1>7, <1>8

\* Link publishes a whole file, over nothing.
LEMMA LinkKeeps == ASSUME IInv, Link PROVE IInv'
<1>1. CASE alerts[call.target] # Absent
  BY <1>1, ReturnKeeps DEF Link, Replies
<1>2. CASE alerts[call.target] = Absent
  <2> USE <1>2 DEF IInv, Link, Goto, backupDir, faults, work
  <2>1. call.target \in Targets /\ call.msg \in Messages /\ temp.body = call.msg /\ temp.synced
    BY DEF CallsMatchSteps, TempReady
  <2>2. /\ alerts' \in [Targets -> Slots] /\ aDisk' \in [Targets -> SUBSET Slots]
        /\ alerts'[call.target] # Absent /\ alerts'[call.target].body = call.msg
        /\ \A t \in Targets : \A e \in aDisk'[t] \cup {alerts'[t]} : e = Absent \/ e.body # Torn
    BY <2>1, PublishFacts
  <2>3. TypeOK'
    BY <2>2 DEF TypeOK, Steps
  <2>4. WholeFiles'
    BY <2>2 DEF WholeFiles
  <2>5. CheckHolds'
    BY <2>2 DEF CheckHolds
  <2>6. CallsMatchSteps' /\ TempReady' /\ CopyReady' /\ ConvertsLegacy'
    BY DEF CallsMatchSteps, BackupSteps, TempReady, CopyReady, ConvertsLegacy, Regular
  <2>7. CommittedLate' /\ SuccessIsDurable' /\ BackupReady'
    BY DEF CommittedLate, SuccessIsDurable, BackupReady, CallsMatchSteps
  <2> QED
    BY <2>3, <2>4, <2>5, <2>6, <2>7
<1> QED
  BY <1>1, <1>2

\* Removing Create's temporary name leaves the published file alone.
LEMMA UnlinkKeeps == ASSUME IInv, Unlink PROVE IInv'
<1> USE DEF IInv, Unlink, Goto, alertDir, backupDir, observed, faults
<1>1. TypeOK' /\ WholeFiles'
  BY DEF TypeOK, Steps, Temps, WholeFiles
<1>2. CheckHolds'
  BY DEF CheckHolds, CallsMatchSteps
<1>3. CallsMatchSteps' /\ TempReady' /\ CopyReady' /\ ConvertsLegacy'
  BY DEF CallsMatchSteps, BackupSteps, TempReady, CopyReady, ConvertsLegacy, Regular
<1>4. CommittedLate' /\ SuccessIsDurable' /\ BackupReady'
  BY DEF CommittedLate, SuccessIsDurable, BackupReady, CallsMatchSteps
<1> QED
  BY <1>1, <1>2, <1>3, <1>4

\* Remove takes away the alert whose backup is durable.
LEMMA RemoveKeeps == ASSUME IInv, Remove PROVE IInv'
<1>1. CASE alerts[call.target] = Absent
  BY <1>1, ReturnKeeps DEF Remove, Replies
<1>2. CASE alerts[call.target] # Absent
  <2> USE <1>2 DEF IInv, Remove, Goto, backupDir, faults, work
  <2>1. call.target \in Targets /\ call.kind = "delete" /\ call.msg = Absent
    BY DEF CallsMatchSteps
  <2>2. TypeOK'
    <3>1. alerts' \in [Targets -> Slots] /\ aDisk' \in [Targets -> SUBSET Slots]
      BY <2>1 DEF TypeOK, Slots
    <3> QED
      BY <3>1 DEF TypeOK, Steps
  <2>3. WholeFiles'
    BY <2>1 DEF WholeFiles, TypeOK
  <2>4. CheckHolds'
    BY <2>1 DEF CheckHolds, TypeOK
  <2>5. CallsMatchSteps' /\ TempReady' /\ CopyReady' /\ ConvertsLegacy'
    BY <2>1 DEF CallsMatchSteps, BackupSteps, TempReady, CopyReady, ConvertsLegacy, Regular
  <2>6. BackupReady'
    BY DEF BackupReady, Backed, Regular
  <2>7. CommittedLate' /\ SuccessIsDurable'
    BY DEF CommittedLate, SuccessIsDurable
  <2> QED
    BY <2>2, <2>3, <2>4, <2>5, <2>6, <2>7
<1> QED
  BY <1>1, <1>2

\* Success is returned only when the alert directory is synced.
LEMMA SyncAlertsKeeps == ASSUME IInv, SyncAlerts PROVE IInv'
<1> USE DEF IInv, SyncAlerts, Return, backupDir, observed, faults
<1>1. TypeOK' /\ WholeFiles'
  BY DEF TypeOK, Steps, Replies, Temps, Slots, WholeFiles
<1>2. SuccessIsDurable'
  <2>1. committed' /\ call.target \in Targets
    BY DEF CommittedLate, CallsMatchSteps
  <2>2. aDisk'[call.target] \cup {alerts[call.target]} = {alerts[call.target]}
    BY <2>1
  <2>3. ~raced => Settled(call.target, call.msg)'
    BY <2>2 DEF CheckHolds, Settled
  <2> QED
    BY <2>1, <2>3 DEF SuccessIsDurable
<1>3. CallsMatchSteps' /\ TempReady' /\ CopyReady' /\ ConvertsLegacy' /\ CheckHolds'
  BY DEF CallsMatchSteps, BackupSteps, TempReady, CopyReady, ConvertsLegacy, CheckHolds
<1>4. CommittedLate' /\ BackupReady'
  BY DEF CommittedLate, BackupReady, Backed, Regular
<1> QED
  BY <1>1, <1>2, <1>3, <1>4

-----------------------------------------------------------------------------
(* Opening and closing, outside writers, crashes, power. *)

\* Opening and closing a store touches no file.
LEMMA OpenCloseKeeps == ASSUME IInv, Open \/ Close PROVE IInv'
<1>1. /\ daemon' \in {"up", "closed", "down"}
      /\ UNCHANGED <<alertDir, backupDir, pc, call, work, reply, observed, faults>>
  BY DEF Open, Close
<1> USE <1>1 DEF IInv, alertDir, backupDir, work, observed, faults
<1>2. TypeOK' /\ WholeFiles'
  BY DEF TypeOK, WholeFiles
<1>3. CallsMatchSteps' /\ TempReady' /\ ConvertsLegacy'
  BY DEF CallsMatchSteps, BackupSteps, TempReady, ConvertsLegacy, Regular
<1>4. CopyReady' /\ BackupReady'
  BY DEF CopyReady, Source, BackupReady, Backed, Regular
<1>5. CheckHolds' /\ CommittedLate' /\ SuccessIsDurable'
  BY DEF CheckHolds, CommittedLate, SuccessIsDurable, Settled
<1> QED
  BY <1>2, <1>3, <1>4, <1>5

\* An outside writer changes one entry to a whole file or to nothing, and the
\* operation knows the race by raced.  What is left to show is that the open
\* source stays a regular file.
LEMMA OutsideKeeps ==
  ASSUME IInv, NEW t \in Targets, NEW e \in Slots, e = Absent \/ e.body # Torn,
         OutsideChange(t, e), unlinked' \in Slots, CopyReady'
  PROVE  IInv'
<1> USE DEF IInv, OutsideChange, backupDir
<1>1. TypeOK'
  <2>1. outside' \in 0 .. MaxOutside
    BY BoundsAssumption DEF TypeOK
  <2>2. alerts' \in [Targets -> Slots] /\ aDisk' \in [Targets -> SUBSET Slots]
    BY DEF TypeOK
  <2> QED
    BY <2>1, <2>2 DEF TypeOK
<1>2. WholeFiles'
  BY DEF WholeFiles, TypeOK
<1>3. CallsMatchSteps' /\ TempReady' /\ ConvertsLegacy' /\ CommittedLate'
  BY DEF CallsMatchSteps, BackupSteps, TempReady, ConvertsLegacy, Regular, CommittedLate
<1>4. BackupReady'
  BY DEF BackupReady, Backed, Regular
<1>5. ~raced' => ~raced /\ t # call.target
  BY DEF TypeOK
<1>6. ~raced' => alerts'[call.target] = alerts[call.target] /\ aDisk'[call.target] = aDisk[call.target]
  BY <1>5 DEF TypeOK
<1>7. CheckHolds'
  BY <1>5, <1>6 DEF CheckHolds
<1>8. SuccessIsDurable'
  BY <1>5, <1>6 DEF SuccessIsDurable, Settled
<1> QED
  BY <1>1, <1>2, <1>3, <1>4, <1>7, <1>8

\* The descriptor of the source keeps showing the file it was opened on.
LEMMA OutsideReplaceKeeps ==
  ASSUME IInv, NEW t \in Targets, NEW e \in Slots, e = Absent \/ e.body # Torn,
         OutsideReplace(t, e)
  PROVE  IInv'
<1> USE DEF IInv
<1>1. OutsideChange(t, e)
  BY DEF OutsideReplace
<1>2. pc' = pc /\ snap' = snap /\ copy' = copy /\ call' = call
  BY <1>1 DEF OutsideChange
<1>3. CASE t = call.target /\ pc \in {"copy", "restat"}
  <2>1. Regular(Source) /\ unlinked' = Source
    BY <1>3 DEF OutsideReplace, CopyReady
  <2>2. unlinked' \in Slots /\ Regular(unlinked') /\ unlinked' # Absent
    BY <2>1, AbsentIsNoFile DEF Regular, Slots
  <2>3. CopyReady'
    BY <1>2, <2>2 DEF CopyReady, Source, Regular
  <2> QED
    BY <1>1, <2>2, <2>3, OutsideKeeps
<1>4. CASE ~(t = call.target /\ pc \in {"copy", "restat"})
  <2>1. unlinked' = unlinked
    BY <1>4 DEF OutsideReplace
  <2>2. pc \in {"copy", "restat"} => alerts'[call.target] = alerts[call.target]
    BY <1>1, <1>4 DEF OutsideChange, TypeOK
  <2>3. CopyReady'
    BY <1>2, <2>1, <2>2 DEF CopyReady, Source, Regular
  <2> QED
    BY <1>1, <2>1, <2>3, OutsideKeeps DEF TypeOK
<1> QED
  BY <1>3, <1>4

\* An edit in place shows through the descriptor, but leaves a regular file.
LEMMA OutsideEditKeeps ==
  ASSUME IInv, NEW t \in Targets, NEW e \in Slots, e = Absent \/ e.body # Torn,
         OutsideEdit(t, e)
  PROVE  IInv'
<1> USE DEF IInv
<1>1. OutsideChange(t, e) /\ unlinked' = unlinked
  BY DEF OutsideEdit
<1>2. pc' = pc /\ snap' = snap /\ copy' = copy /\ call' = call
  BY <1>1 DEF OutsideChange
<1>3. Regular(e)
  BY KindFacts DEF OutsideEdit, Regular, Slots
<1>4. call.target \in Targets => alerts'[call.target] \in {e, alerts[call.target]}
  BY <1>1 DEF OutsideChange, TypeOK
<1>5. CopyReady'
  BY <1>1, <1>2, <1>3, <1>4 DEF CopyReady, Source, Regular, CallsMatchSteps
<1> QED
  BY <1>1, <1>5, OutsideKeeps DEF TypeOK

\* A choice function for a family of sets takes its values in them.
LEMMA ChoiceFacts ==
  ASSUME NEW S, NEW X, NEW V, S \in [X -> SUBSET V], NEW f \in Choices(S)
  PROVE  f \in [X -> V] /\ \A x \in X : f[x] \in S[x]
  BY DEF Choices

\* A daemon that dies leaves nothing but the directories.
LEMMA StopKeeps ==
  ASSUME IInv, Stop, TypeOK', WholeFiles', BackupReady', SuccessIsDurable'
  PROVE  IInv'
<1> USE DEF IInv, Stop, observed
<1>1. CallsMatchSteps' /\ TempReady' /\ ConvertsLegacy' /\ CheckHolds'
  BY DEF CallsMatchSteps, BackupSteps, TempReady, ConvertsLegacy, CheckHolds
<1>2. CopyReady' /\ CommittedLate'
  BY DEF CopyReady, CommittedLate
<1> QED
  BY <1>1, <1>2

\* A daemon may die at any step.
LEMMA CrashKeeps == ASSUME IInv, Crash PROVE IInv'
<1> USE DEF IInv, Crash, Stop, alertDir, backupDir, observed
<1>1. TypeOK'
  <2>1. crashes' \in 0 .. MaxCrashes
    BY BoundsAssumption DEF TypeOK
  <2> QED
    BY <2>1 DEF TypeOK, Steps, Slots, Temps
<1>2. WholeFiles' /\ SuccessIsDurable'
  BY DEF WholeFiles, SuccessIsDurable, Settled
<1>3. BackupReady'
  BY DEF BackupReady, Backed, Regular
<1> QED
  BY <1>1, <1>2, <1>3, StopKeeps

\* So may the node: what is found afterwards is among what may survive.
LEMMA PowerLossKeeps == ASSUME IInv, PowerLoss PROVE IInv'
<1> USE DEF IInv, PowerLoss
<1>1. alerts' \in [Targets -> Slots] /\ \A t \in Targets : alerts'[t] \in aDisk[t]
  BY ChoiceFacts DEF TypeOK
<1>2. backups' \in [Names -> Contents] /\ \A n \in Names : backups'[n] \in bDisk[n]
  BY ChoiceFacts DEF TypeOK
<1>3. aDisk' \in [Targets -> SUBSET Slots] /\ \A t \in Targets : aDisk'[t] = {alerts'[t]}
  BY <1>1
<1>4. bDisk' \in [Names -> SUBSET Contents] /\ \A n \in Names : bDisk'[n] = {backups'[n]}
  BY <1>2
<1> USE DEF Stop, observed
<1>5. crashes' \in 0 .. MaxCrashes
  BY BoundsAssumption DEF TypeOK
<1>6. TypeOK'
  BY <1>1, <1>2, <1>3, <1>4, <1>5 DEF TypeOK, Steps, Slots, Temps
<1>7. WholeFiles'
  BY <1>1, <1>2, <1>3, <1>4 DEF WholeFiles
<1>8. BackupReady'
  BY <1>2, <1>4 DEF BackupReady, Backed, Regular
<1>9. SuccessIsDurable'
  <2>1. SUFFICES ASSUME reply = "ok", ~raced
                 PROVE  committed /\ Settled(call.target, call.msg)'
    BY DEF SuccessIsDurable
  <2>2. committed /\ Settled(call.target, call.msg)
    BY <2>1 DEF SuccessIsDurable
  <2>3. call.target \in Targets
    BY <2>2 DEF CallsMatchSteps
  <2> QED
    BY <1>1, <1>3, <2>2, <2>3 DEF Settled
<1> QED
  BY <1>6, <1>7, <1>8, <1>9, StopKeeps

-----------------------------------------------------------------------------
(* The theorems. *)

\* Every step of the specification keeps the invariant.
LEMMA NextKeeps == ASSUME IInv, [Next]_vars PROVE IInv'
<1>1. CASE Invoke
  BY <1>1, BeginKeeps DEF Invoke, Create, Write, ConvertLegacy, Delete, Read
<1>2. CASE Open \/ Close
  BY <1>2, OpenCloseKeeps
<1>3. CASE BackupStep
  BY <1>3, InspectKeeps, CopySourceKeeps, RestatKeeps, SyncCopyKeeps, PublishBackupKeeps,
     SyncBackupKeeps, ListBackupsKeeps, PruneOneKeeps, SyncPrunedKeeps DEF BackupStep
<1>4. CASE ReadEntry \/ IOError
  BY <1>4, ReturnKeeps, KindFacts DEF ReadEntry, IOError, Replies
<1>5. CASE AlertStep
  BY <1>4, <1>5, PrecheckKeeps, MakeTempKeeps, SyncTempKeeps, RecheckKeeps, VerifyKeeps,
     RenameKeeps, LinkKeeps, UnlinkKeeps, RemoveKeeps, SyncAlertsKeeps DEF AlertStep
<1>6. CASE Outside
  BY <1>6, OutsideReplaceKeeps, OutsideEditKeeps DEF Outside
<1>7. CASE Crash \/ PowerLoss
  BY <1>7, CrashKeeps, PowerLossKeeps
<1>8. CASE UNCHANGED vars
  <2> USE <1>8 DEF IInv, vars, alertDir, backupDir, work, observed, faults
  <2>1. TypeOK' /\ WholeFiles'
    BY DEF TypeOK, WholeFiles
  <2>2. CallsMatchSteps' /\ TempReady' /\ ConvertsLegacy'
    BY DEF CallsMatchSteps, BackupSteps, TempReady, ConvertsLegacy, Regular
  <2>3. CopyReady' /\ BackupReady'
    BY DEF CopyReady, Source, BackupReady, Backed, Regular
  <2>4. CheckHolds' /\ CommittedLate' /\ SuccessIsDurable'
    BY DEF CheckHolds, CommittedLate, SuccessIsDurable, Settled
  <2> QED
    BY <2>1, <2>2, <2>3, <2>4
<1> QED
  BY <1>1, <1>2, <1>3, <1>4, <1>5, <1>6, <1>7, <1>8 DEF Next, Step

\* IInv is an invariant of the store.
THEOREM Invariance == Spec => []IInv
<1>1. Init => IInv
  BY InitHolds
<1>2. IInv /\ [Next]_vars => IInv'
  BY NextKeeps
<1> QED
  BY <1>1, <1>2, PTL DEF Spec

\* Every variable keeps its type.
THEOREM TypeCorrect == Spec => []TypeOK
<1>1. IInv => TypeOK
  BY DEF IInv
<1> QED
  BY <1>1, Invariance, PTL

\* No interrupted operation leaves a cut file under a name, in any order of
\* crashes, losses of power and outside changes.
THEOREM FilesAreWhole == Spec => []WholeFiles
<1>1. IInv => WholeFiles
  BY DEF IInv
<1> QED
  BY <1>1, Invariance, PTL

\* Once a conversion or deletion has taken effect its backup cannot be lost.
THEOREM BackupsSurvive == Spec => []BackupSurvives
<1>1. IInv => BackupSurvives
  BY BoundsAssumption DEF IInv, BackupReady, Backed, BackupSurvives
<1> QED
  BY <1>1, Invariance, PTL

\* A reported success is durable.
THEOREM SuccessesAreDurable == Spec => []SuccessIsDurable
<1>1. IInv => SuccessIsDurable
  BY DEF IInv
<1> QED
  BY <1>1, Invariance, PTL

\* A step of the store that changes an alert is one of the three that publish
\* or remove.
LEMMA ChangingSteps ==
  ASSUME IInv, [Next]_vars, StoreStep, NEW t \in Targets, alerts'[t] # alerts[t]
  PROVE  (Rename \/ Link \/ Remove) /\ t = call.target
<1>1. CASE Rename \/ Link \/ Remove
  BY <1>1 DEF Rename, Link, Remove, Publish, IInv, TypeOK, alertDir
<1>2. ~(Invoke \/ Outside \/ Crash \/ PowerLoss)
  BY DEF StoreStep, Invoke, Create, Write, ConvertLegacy, Delete, Read, Begin, Outside,
     OutsideReplace, OutsideEdit, OutsideChange, Crash, PowerLoss, Stop, IInv, TypeOK
<1>3. ~(Open \/ Close \/ BackupStep \/ IOError \/ UNCHANGED vars)
  BY DEF Open, Close, BackupStep, IOError, Inspect, CopySource, Restat, SyncCopy, PublishBackup,
     SyncBackup, ListBackups, PruneOne, SyncPruned, vars, alertDir
<1>4. ~(ReadEntry \/ Precheck \/ MakeTemp \/ SyncTemp \/ Recheck \/ Verify \/ Unlink \/ SyncAlerts)
  BY DEF ReadEntry, Precheck, MakeTemp, SyncTemp, Recheck, Verify, Unlink, SyncAlerts, alertDir
<1> QED
  BY <1>1, <1>2, <1>3, <1>4 DEF Next, Step, AlertStep

\* Create overwrites nothing and Write only what the last check allowed.
THEOREM OnlyItsOwnReplaced == Spec => ReplacesOnlyItsOwn
<1> DEFINE A == \A t \in Targets :
       StoreStep /\ alerts'[t] # alerts[t] /\ call.kind \in {"create", "write"} =>
         /\ t = call.target
         /\ call.kind = "create" => alerts[t] = Absent
         /\ raced \/ Kind(alerts[t]) \in {"managed", "not_found"}
<1>1. IInv /\ [Next]_vars => [A]_vars
  <2>1. SUFFICES ASSUME IInv, [Next]_vars, NEW t \in Targets,
                        StoreStep, alerts'[t] # alerts[t], call.kind \in {"create", "write"}
                 PROVE  /\ t = call.target
                        /\ call.kind = "create" => alerts[t] = Absent
                        /\ raced \/ Kind(alerts[t]) \in {"managed", "not_found"}
    OBVIOUS
  <2>2. (Rename \/ Link \/ Remove) /\ t = call.target
    BY <2>1, ChangingSteps
  <2>3. CASE Link
    BY <2>1, <2>2, <2>3, KindFacts DEF Link, alertDir
  <2>4. CASE Rename
    BY <2>1, <2>2, <2>4 DEF Rename, IInv, CheckHolds, CallsMatchSteps
  <2>5. ~Remove
    BY <2>1 DEF Remove, IInv, CallsMatchSteps
  <2> QED
    BY <2>2, <2>3, <2>4, <2>5
<1> QED
  BY <1>1, Invariance, PTL DEF Spec, ReplacesOnlyItsOwn

\* What a conversion or deletion destroys is in a durable backup.
THEOREM DestructionIsArchived == Spec => DestroyedIsArchived
<1> DEFINE A == \A t \in Targets :
       StoreStep /\ alerts'[t] # alerts[t] /\ call.kind \in {"convert", "delete"} /\ ~raced =>
         /\ alerts[t] # Absent
         /\ bDisk[bname] = {alerts[t].body}
         /\ backups[bname] = alerts[t].body
         /\ call.kind = "convert" => Kind(alerts[t]) = "legacy"
<1>1. IInv /\ [Next]_vars => [A]_vars
  <2>1. SUFFICES ASSUME IInv, [Next]_vars, NEW t \in Targets, StoreStep,
                        alerts'[t] # alerts[t], call.kind \in {"convert", "delete"}, ~raced
                 PROVE  /\ alerts[t] # Absent
                        /\ bDisk[bname] = {alerts[t].body}
                        /\ backups[bname] = alerts[t].body
                        /\ call.kind = "convert" => Kind(alerts[t]) = "legacy"
    OBVIOUS
  <2>2. (Rename \/ Link \/ Remove) /\ t = call.target
    BY <2>1, ChangingSteps
  <2>3. pc = "remove" \/ (pc = "rename" /\ call.kind = "convert")
    BY <2>1, <2>2 DEF Rename, Link, Remove, IInv, CallsMatchSteps
  <2>4. alerts[t] # Absent /\ alerts[t].body = snap.body
    BY <2>1, <2>2, <2>3 DEF IInv, CheckHolds
  <2>5. bDisk[bname] = {snap.body} /\ backups[bname] = snap.body
    BY <2>1, <2>3 DEF IInv, BackupReady, Backed
  <2>6. call.kind = "convert" => snap.body \notin Messages \cup {Big, Unsafe}
    BY <2>1, <2>3 DEF IInv, ConvertsLegacy, CallsMatchSteps, Regular
  <2> QED
    BY <2>4, <2>5, <2>6, KindFacts
<1> QED
  BY <1>1, Invariance, PTL DEF Spec, DestroyedIsArchived

-----------------------------------------------------------------------------
(* Retention.  IInv says nothing of how many backups there are, so a second *)
(* invariant, kept on top of it, follows their number through pruneBackups. *)

\* What is seen in the backup directory is what a loss of power leaves.
BackupsSynced == \A n \in Names : bDisk[n] = {backups[n]}

\* The conversion or deletion has come past its retention.
PastRetention ==
  /\ call.kind \in {"convert", "delete"}
  /\ pc \in {"mktemp", "syncTemp", "verify", "rename", "remove", "syncAlerts"} \/ committed

\* There are finitely many backups, pruneBackups leaves at most maxBackupFiles
\* of them once it has removed what it chose, and none of those it removed can
\* come back once the alert may be changed.
Retained ==
  /\ \A n \in Names : backups[n] \in bDisk[n]
  /\ IsFiniteSet({n \in Names : bDisk[n] # {Absent}})
  /\ pc = "list" => BackupsSynced
  /\ pc = "prune" => Cardinality(BackupNames \ expired) <= MaxBackups
  /\ PastRetention => BackupsSynced /\ Cardinality(BackupNames) <= MaxBackups

\* The number of the other names that sort before a name tells names apart.
LEMMA RanksDiffer ==
  ASSUME NEW S, S \subseteq Nat, IsFiniteSet(S), NEW n \in S, NEW m \in S, n < m
  PROVE  Cardinality({k \in S : k < n}) < Cardinality({k \in S : k < m})
<1> DEFINE N == {k \in S : k < n}
           M == {k \in S : k < m}
<1>1. IsFiniteSet(M) /\ Cardinality(M) \in Nat
  BY FS_Subset, FS_CardinalityType
<1>2. N \in SUBSET M /\ n \in M /\ n \notin N
  <2>1. n \in Nat /\ m \in Nat
    OBVIOUS
  <2>2. \A k \in Nat : k < n => k < m
    BY <2>1
  <2>3. \A k \in N : k \in M
    BY <2>2
  <2>4. n \in M /\ n \notin N
    BY <2>1
  <2> QED
    BY <2>3, <2>4
<1>3. IsFiniteSet(N) /\ Cardinality(N) <= Cardinality(M) /\ Cardinality(N) # Cardinality(M)
  BY <1>1, <1>2, FS_Subset
<1>4. Cardinality(N) \in Nat
  BY <1>3, FS_CardinalityType
<1> QED
  BY <1>1, <1>3, <1>4

\* The names that pruneBackups chooses to remove are enough: at most
\* maxBackupFiles are left, the protected one among them.
LEMMA ExpiredIsEnough ==
  ASSUME NEW names, names \subseteq Nat, IsFiniteSet(names), NEW protected,
         Cardinality(names) > MaxBackups
  PROVE  Cardinality(names \ Expired(names, protected)) <= MaxBackups
<1> DEFINE S == names \ {protected}
           N == Cardinality(names)
           Rank(n) == Cardinality({k \in S : k < n})
           Kept == {n \in S : Rank(n) + MaxBackups >= N}
           last == Cardinality(S) - 1
           first == N - MaxBackups
<1>1. N \in Nat /\ MaxBackups \in Nat \ {0}
  BY FS_CardinalityType, BoundsAssumption
<1>2. IsFiniteSet(S) /\ Cardinality(S) = IF protected \in names THEN N - 1 ELSE N
  BY FS_RemoveElement
<1>3. \A n \in S : Rank(n) \in Nat /\ Rank(n) <= last
  <2> TAKE n \in S
  <2>1. {k \in S : k < n} \in SUBSET S /\ {k \in S : k < n} # S
    OBVIOUS
  <2>2. IsFiniteSet({k \in S : k < n}) /\ Rank(n) <= Cardinality(S) /\ Rank(n) # Cardinality(S)
    BY <1>2, <2>1, FS_Subset
  <2>3. Rank(n) \in Nat
    BY <2>2, FS_CardinalityType
  <2> QED
    BY <1>1, <1>2, <2>2, <2>3
<1>4. first \in Int /\ last \in Int
  BY <1>1, <1>2
<1>5. \A n \in S : n \in Expired(names, protected) <=> n \notin Kept
  <2>1. \A n \in S : n \in Expired(names, protected) <=> Rank(n) + MaxBackups < N
    BY DEF Expired
  <2>2. \A n \in S : n \in Kept <=> Rank(n) + MaxBackups >= N
    OBVIOUS
  <2> HIDE DEF S, N, Rank, Kept
  <2> QED
    BY <1>1, <1>3, <2>1, <2>2
<1>6. Expired(names, protected) \subseteq S
  BY DEF Expired
<1>7. Cardinality(Kept) <= Cardinality(first .. last)
  <2> DEFINE f == [n \in Kept |-> Rank(n)]
  <2>1. f \in [Kept -> first .. last]
    <3>1. \A n \in Kept : n \in S /\ Rank(n) + MaxBackups >= N
      OBVIOUS
    <3> HIDE DEF S, N, Rank, Kept
    <3>2. \A n \in Kept : Rank(n) \in first .. last
      BY <1>1, <1>2, <1>3, <3>1
    <3> QED
      BY <3>2
  <2>2. \A n, m \in Kept : n < m => Rank(n) < Rank(m)
    BY <1>2, RanksDiffer
  <2>3. \A n, m \in Kept : f[n] = f[m] => n = m
    <3> SUFFICES ASSUME NEW n \in Kept, NEW m \in Kept, Rank(n) = Rank(m) PROVE n = m
      OBVIOUS
    <3>1. n \in Nat /\ m \in Nat /\ Rank(n) \in Nat /\ Rank(m) \in Nat
      BY <1>3
    <3>2. ~(n < m) /\ ~(m < n)
      BY <2>2, <3>1
    <3> QED
      BY <3>1, <3>2
  <2>4. f \in Injection(Kept, first .. last)
    BY <2>1, <2>3 DEF Injection, IsInjective
  <2>5. IsFiniteSet(first .. last)
    BY <1>4, FS_Interval
  <2> QED
    BY <2>4, <2>5, FS_Injection
<1>8. IsFiniteSet(Kept) /\ Cardinality(Kept) \in Nat
  BY <1>2, FS_Subset, FS_CardinalityType
<1>9. Cardinality(Kept) <= IF protected \in names THEN MaxBackups - 1 ELSE MaxBackups
  <2>1. Cardinality(first .. last) = IF first > last THEN 0 ELSE last - first + 1
    BY <1>4, FS_Interval
  <2> QED
    BY <1>1, <1>2, <1>7, <1>8, <2>1
<1>10. CASE protected \in names
  <2>1. names \ Expired(names, protected) = Kept \cup {protected}
    BY <1>5, <1>6, <1>10
  <2>2. Cardinality(Kept \cup {protected}) = Cardinality(Kept) + 1
    BY <1>8, FS_AddElement
  <2> HIDE DEF S, N, Rank, Kept
  <2> QED
    BY <1>1, <1>8, <1>9, <1>10, <2>1, <2>2
<1>11. CASE protected \notin names
  <2>1. names \ Expired(names, protected) = Kept
    BY <1>5, <1>6, <1>11
  <2> QED
    BY <1>9, <1>11, <2>1
<1> QED
  BY <1>10, <1>11

\* There are only finitely many backups at any time.
LEMMA BackupsAreFinite ==
  ASSUME IInv, Retained
  PROVE  IsFiniteSet(BackupNames) /\ BackupNames \subseteq Nat
<1>1. BackupNames \in SUBSET {n \in Names : bDisk[n] # {Absent}}
  BY DEF BackupNames, Retained
<1>2. IsFiniteSet({n \in Names : bDisk[n] # {Absent}})
  BY DEF Retained
<1>3. IsFiniteSet(BackupNames)
  BY <1>1, <1>2, FS_Subset
<1>4. BackupNames \subseteq Nat
  BY BoundsAssumption DEF BackupNames
<1> QED
  BY <1>3, <1>4

\* A step that leaves the backup directory alone and does not come out of
\* retention by itself.
LEMMA QuietRetains ==
  ASSUME Retained, UNCHANGED backupDir,
         pc' \in {"list", "prune"} => UNCHANGED <<pc, expired>>,
         PastRetention' => PastRetention
  PROVE  Retained'
<1> USE DEF Retained, backupDir
<1>1. BackupNames' = BackupNames /\ (BackupsSynced => BackupsSynced')
  BY DEF BackupNames, BackupsSynced
<1>2. IsFiniteSet({n \in Names : bDisk[n] # {Absent}})'
  OBVIOUS
<1> QED
  BY <1>1, <1>2

\* The new backup is one more name.
LEMMA PublishBackupRetains == ASSUME IInv, Retained, PublishBackup PROVE Retained'
<1>1. PICK n \in Names : /\ backups' = [backups EXCEPT ![n] = copy.body]
                         /\ bDisk' = [bDisk EXCEPT ![n] = @ \cup Survivors(copy)]
  BY DEF PublishBackup
<1>2. \A k \in Names : backups'[k] \in bDisk'[k]
  BY <1>1 DEF Survivors, Retained, IInv, TypeOK
<1>3. IsFiniteSet({k \in Names : bDisk[k] # {Absent}} \cup {n})
  BY FS_AddElement DEF Retained
<1>4. {k \in Names : bDisk'[k] # {Absent}} \in SUBSET ({k \in Names : bDisk[k] # {Absent}} \cup {n})
  BY <1>1 DEF IInv, TypeOK
<1>5. IsFiniteSet({k \in Names : bDisk'[k] # {Absent}})
  BY <1>3, <1>4, FS_Subset
<1>6. pc' = "syncBackup" /\ ~PastRetention'
  BY DEF PublishBackup, Goto, PastRetention, IInv, CommittedLate, observed
<1> QED
  BY <1>2, <1>5, <1>6 DEF Retained

\* Syncing the backup directory.
LEMMA SyncBackupDirRetains ==
  ASSUME IInv, Retained, SyncBackupDir
  PROVE  /\ BackupsSynced' /\ BackupNames' = BackupNames
         /\ \A n \in Names : backups'[n] \in bDisk'[n]
         /\ IsFiniteSet({n \in Names : bDisk'[n] # {Absent}})
<1>1. \A n \in Names : bDisk'[n] = {backups[n]} /\ backups'[n] = backups[n]
  BY DEF SyncBackupDir
<1>2. BackupsSynced' /\ BackupNames' = BackupNames
  BY <1>1 DEF BackupsSynced, BackupNames
<1>3. {n \in Names : bDisk'[n] # {Absent}} = BackupNames
  BY <1>1 DEF BackupNames
<1> QED
  BY <1>1, <1>2, <1>3, BackupsAreFinite

\* Retention starts from a synced directory.
LEMMA SyncBackupRetains == ASSUME IInv, Retained, SyncBackup PROVE Retained'
<1>1. pc' = "list" /\ ~PastRetention'
  BY DEF SyncBackup, Goto, PastRetention, IInv, CommittedLate, observed
<1> QED
  BY <1>1, SyncBackupDirRetains DEF SyncBackup, Retained

\* Retention has nothing to do, or chooses enough.
LEMMA ListBackupsRetains == ASSUME IInv, Retained, ListBackups PROVE Retained'
<1>1. pc = "list" /\ UNCHANGED <<backups, bDisk>> /\ BackupsSynced
  BY DEF ListBackups, backupDir, Retained
<1>2. BackupNames' = BackupNames /\ BackupsSynced'
  BY <1>1 DEF BackupNames, BackupsSynced
<1>3. /\ \A n \in Names : backups'[n] \in bDisk'[n]
      /\ IsFiniteSet({n \in Names : bDisk'[n] # {Absent}})
  BY <1>1 DEF Retained
<1>4. CASE Cardinality(BackupNames) <= MaxBackups
  <2>1. Cardinality(BackupNames) \in Nat /\ MaxBackups \in Nat
    BY BackupsAreFinite, FS_CardinalityType, BoundsAssumption
  <2>2. pc' \in {"mktemp", "verify"}
    BY <1>4, <2>1 DEF ListBackups, Goto, AfterBackup
  <2> QED
    BY <1>2, <1>3, <1>4, <2>2 DEF Retained
<1>5. CASE Cardinality(BackupNames) > MaxBackups
  <2>1. ~(Cardinality(BackupNames) <= MaxBackups)
    BY <1>5, BackupsAreFinite, FS_CardinalityType, BoundsAssumption
  <2>2. pc' = "prune" /\ expired' = Expired(BackupNames, bname) /\ ~PastRetention'
    BY <2>1 DEF ListBackups, Goto, PastRetention, IInv, CommittedLate, observed
  <2>3. Cardinality(BackupNames \ expired') <= MaxBackups
    BY <1>5, <2>2, BackupsAreFinite, ExpiredIsEnough
  <2> QED
    BY <1>2, <1>3, <2>2, <2>3 DEF Retained
<1> QED
  BY <1>4, <1>5 DEF ListBackups

\* One chosen name fewer, and one backup fewer.
LEMMA PruneOneRetains == ASSUME IInv, Retained, PruneOne PROVE Retained'
<1>1. PICK n \in expired : /\ backups' = [backups EXCEPT ![n] = Absent]
                           /\ bDisk' = [bDisk EXCEPT ![n] = @ \cup {Absent}]
                           /\ expired' = expired \ {n}
  BY DEF PruneOne
<1>2. n \in Names /\ pc = "prune" /\ pc' = "prune" /\ ~PastRetention'
  BY DEF PruneOne, Goto, PastRetention, IInv, CommittedLate, TypeOK, observed
<1>3. \A k \in Names : backups'[k] \in bDisk'[k]
  BY <1>1 DEF Retained, IInv, TypeOK
<1>4. BackupNames' \ expired' = BackupNames \ expired
  BY <1>1, <1>2 DEF BackupNames, IInv, TypeOK
<1>5. IsFiniteSet({k \in Names : bDisk'[k] # {Absent}})
  <2>1. {k \in Names : bDisk'[k] # {Absent}} \in SUBSET ({k \in Names : bDisk[k] # {Absent}} \cup {n})
    BY <1>1 DEF IInv, TypeOK
  <2>2. IsFiniteSet({k \in Names : bDisk[k] # {Absent}} \cup {n})
    BY FS_AddElement DEF Retained
  <2> QED
    BY <2>1, <2>2, FS_Subset
<1> QED
  BY <1>2, <1>3, <1>4, <1>5 DEF Retained

\* Retention is over when nothing that it chose is left.
LEMMA SyncPrunedRetains == ASSUME IInv, Retained, SyncPruned PROVE Retained'
<1>1. pc = "prune" /\ expired = {} /\ pc' \in {"mktemp", "verify"}
  BY DEF SyncPruned, Goto, AfterBackup
<1>2. BackupNames \ expired = BackupNames
  BY <1>1
<1>3. Cardinality(BackupNames) <= MaxBackups
  BY <1>1, <1>2 DEF Retained
<1> QED
  BY <1>1, <1>3, SyncBackupDirRetains DEF SyncPruned, Retained

\* After a loss of power there are the backups that were there for sure.
LEMMA PowerLossRetains == ASSUME IInv, Retained, PowerLoss PROVE Retained'
<1>1. backups' \in [Names -> Contents] /\ \A n \in Names : backups'[n] \in bDisk[n]
  BY ChoiceFacts DEF PowerLoss, IInv, TypeOK
<1>2. \A n \in Names : bDisk'[n] = {backups'[n]}
  BY DEF PowerLoss
<1>3. BackupsSynced' /\ \A n \in Names : backups'[n] \in bDisk'[n]
  BY <1>2 DEF BackupsSynced
<1>4. IsFiniteSet({n \in Names : bDisk'[n] # {Absent}})
  <2>1. {n \in Names : bDisk'[n] # {Absent}} \in SUBSET {n \in Names : bDisk[n] # {Absent}}
    BY <1>1, <1>2
  <2> QED
    BY <2>1, FS_Subset DEF Retained
<1>5. pc' = "idle" /\ (PastRetention' => PastRetention)
  BY DEF PowerLoss, Stop, PastRetention, observed
<1>6. BackupsSynced => BackupNames' = BackupNames
  BY <1>1 DEF BackupsSynced, BackupNames
<1> QED
  BY <1>3, <1>4, <1>5, <1>6 DEF Retained

\* Every step keeps the number of backups in hand.
LEMMA NextRetains == ASSUME IInv, Retained, [Next]_vars PROVE Retained'
<1>1. CASE Invoke
  <2>1. pc' \notin {"list", "prune"} /\ ~PastRetention' /\ UNCHANGED backupDir
    BY <1>1 DEF Invoke, Create, Write, ConvertLegacy, Delete, Read, Begin, PastRetention
  <2> QED
    BY <2>1, QuietRetains
<1>2. CASE Open \/ Close \/ Outside \/ UNCHANGED vars
  <2>1. UNCHANGED <<backupDir, pc, expired, call, committed>>
    BY <1>2 DEF Open, Close, Outside, OutsideReplace, OutsideEdit, OutsideChange, vars, work, observed
  <2>2. PastRetention' => PastRetention
    BY <2>1 DEF PastRetention
  <2> QED
    BY <2>1, <2>2, QuietRetains
<1>3. CASE IOError \/ ReadEntry \/ Crash
  <2>1. pc' = "idle" /\ UNCHANGED <<backupDir, call, committed>>
    BY <1>3 DEF IOError, ReadEntry, Crash, Stop, Return, observed
  <2>2. PastRetention' => PastRetention
    BY <2>1 DEF PastRetention
  <2> QED
    BY <2>1, <2>2, QuietRetains
<1>4. CASE Inspect \/ CopySource \/ Restat \/ SyncCopy
  <2>1. pc' \in {"idle", "copy", "restat", "syncCopy", "publishBackup"}
        /\ UNCHANGED <<backupDir, call, committed>>
    BY <1>4 DEF Inspect, CopySource, Restat, SyncCopy, Return, Goto, observed
  <2>2. PastRetention' => PastRetention
    BY <2>1 DEF PastRetention
  <2> QED
    BY <2>1, <2>2, QuietRetains
<1>5. CASE PublishBackup \/ SyncBackup \/ ListBackups \/ PruneOne \/ SyncPruned
  BY <1>5, PublishBackupRetains, SyncBackupRetains, ListBackupsRetains, PruneOneRetains,
     SyncPrunedRetains
<1>6. CASE Precheck \/ MakeTemp \/ SyncTemp \/ Recheck \/ Verify
  <2>1. /\ pc \in {"precheck", "mktemp", "syncTemp", "recheck", "verify"}
        /\ UNCHANGED <<backupDir, call, committed>>
    BY <1>6 DEF Precheck, MakeTemp, SyncTemp, Recheck, Verify, Return, Goto, observed
  <2>2. pc' \in {"idle", "mktemp", "syncTemp", "link", "recheck", "verify", "rename", "remove"}
    BY <1>6, <2>1 DEF Precheck, MakeTemp, SyncTemp, Recheck, Verify, Return, Goto, AfterTemp,
       IInv, CallsMatchSteps
  <2>3. PastRetention' => PastRetention
    BY <2>1, <2>2 DEF PastRetention, IInv, CallsMatchSteps
  <2> QED
    BY <2>2, <2>1, <2>3, QuietRetains
<1>7. CASE Rename \/ Link \/ Unlink \/ Remove \/ SyncAlerts
  <2>1. /\ pc \in {"rename", "link", "unlink", "remove", "syncAlerts"}
        /\ pc' \in {"idle", "unlink", "syncAlerts"}
        /\ UNCHANGED <<backupDir, call>>
    BY <1>7 DEF Rename, Link, Unlink, Remove, SyncAlerts, Return, Goto
  <2>2. PastRetention' => PastRetention
    BY <2>1 DEF PastRetention, IInv, CallsMatchSteps
  <2> QED
    BY <2>1, <2>2, QuietRetains
<1>8. CASE PowerLoss
  BY <1>8, PowerLossRetains
<1> QED
  BY <1>1, <1>2, <1>3, <1>4, <1>5, <1>6, <1>7, <1>8 DEF Next, Step, BackupStep, AlertStep

\* A conversion or deletion takes effect only after retention has brought the
\* backups down to maxBackupFiles, and no loss of power brings more back.
THEOREM RetentionComesFirst == Spec => []RetentionBeforeChange
<1>1. Init => Retained
  <2> SUFFICES ASSUME Init PROVE Retained
    OBVIOUS
  <2>1. {n \in Names : bDisk[n] # {Absent}} = {}
    BY DEF Init
  <2>2. IsFiniteSet({n \in Names : bDisk[n] # {Absent}})
    BY <2>1, FS_EmptySet
  <2> QED
    BY <2>2 DEF Init, Retained, PastRetention
<1>2. IInv /\ Retained /\ [Next]_vars => Retained'
  BY NextRetains
<1>3. Retained => RetentionBeforeChange
  BY DEF Retained, PastRetention, RetentionBeforeChange
<1> QED
  BY <1>1, <1>2, <1>3, Invariance, PTL DEF Spec
=============================================================================
