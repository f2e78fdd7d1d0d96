----------------------- MODULE AlertStoreAtomicProofs -----------------------
(***************************************************************************)
(* The alert store implements AtomicAlerts, for any targets, contents and  *)
(* backup names and any number of outside changes, crashes and losses of   *)
(* power: initial states are initial states of the abstract specification, *)
(* and every step is a step of it or leaves its variables alone.  IInv of  *)
(* AlertStore is not enough for this: that a refusal is true takes         *)
(* SourceKnown, what an operation that nobody disturbed knows of its file. *)
(***************************************************************************)
EXTENDS AlertStoreAtomic, AlertStoreProofs

-----------------------------------------------------------------------------
(* What an operation knows of its source. *)

\* The steps between the first look at the source and the last one.
Looking ==
  \/ pc \in {"copy", "restat", "syncCopy", "publishBackup", "syncBackup", "list", "prune", "verify"}
  \/ pc \in {"mktemp", "syncTemp"} /\ call.kind = "convert"

\* The source is what the snapshot says, and the open file the one under the
\* name, unless an outside writer came by; and nothing too large is deleted.
SourceKnown ==
  /\ pc \in {"idle", "inspect"} => unlinked = Absent
  /\ pc \in {"copy", "restat"} /\ unlinked # Absent => raced
  /\ Looking /\ ~raced => alerts[call.target] = snap
  /\ pc \in {"syncBackup", "list", "prune", "verify", "remove"} => Regular(snap) /\ snap.body # Big

\* A step that ends the operation, or kills it, forgets the source.
LEMMA EndingKeepsSource ==
  ASSUME pc' = "idle", unlinked' = Absent
  PROVE  SourceKnown'
  BY DEF SourceKnown, Looking

\* A step after the first look that changes neither the alert directory nor
\* the snapshot, with the operation's call still the same.
LEMMA GoingOnKeepsSource ==
  ASSUME SourceKnown, UNCHANGED <<alerts, call, snap, unlinked, raced>>,
         pc' \notin {"idle", "inspect", "copy", "restat"},
         Looking' => Looking,
         pc' \in {"list", "prune", "verify", "remove"} => Regular(snap) /\ snap.body # Big,
         pc' # "syncBackup"
  PROVE  SourceKnown'
  BY DEF SourceKnown, Regular

\* The first look takes the snapshot, and opens the file under the name.
LEMMA InspectKeepsSource == ASSUME IInv, SourceKnown, Inspect PROVE SourceKnown'
<1>1. CASE Kind(alerts[call.target]) \in {"managed", "legacy"}
  <2>1. /\ pc = "inspect" /\ pc' = "copy" /\ snap' = alerts[call.target]
        /\ UNCHANGED <<alerts, call, unlinked, raced>>
    BY <1>1 DEF Inspect, Goto, alertDir, observed
  <2> QED
    BY <2>1 DEF SourceKnown
<1>2. CASE Kind(alerts[call.target]) \notin {"managed", "legacy"}
  BY <1>2, EndingKeepsSource DEF Inspect, Return
<1> QED
  BY <1>1, <1>2

\* An undisturbed copy is the source as the snapshot has it.
LEMMA CopySourceKeepsSource == ASSUME IInv, SourceKnown, CopySource PROVE SourceKnown'
<1>1. CASE Kind(Source) = "oversized"
  BY <1>1, EndingKeepsSource DEF CopySource, Return
<1>2. CASE Kind(Source) # "oversized"
  <2>1. /\ pc = "copy" /\ pc' = "restat" /\ snap' = [stamp |-> snap.stamp, body |-> Source.body]
        /\ UNCHANGED <<alerts, call, unlinked, raced>>
    BY <1>2 DEF CopySource, Goto, alertDir, observed
  <2>2. unlinked # Absent => raced
    BY <2>1 DEF SourceKnown
  <2>3. ~raced => alerts[call.target] = snap'
    <3> SUFFICES ASSUME ~raced PROVE alerts[call.target] = snap'
      OBVIOUS
    <3>1. Source = snap /\ alerts[call.target] = snap
      BY <2>1, <2>2 DEF SourceKnown, Looking, Source
    <3>2. snap \in Entries
      BY <2>1 DEF IInv, CopyReady, Regular
    <3> QED
      BY <2>1, <3>1, <3>2 DEF Entries
  <2> QED
    BY <2>1, <2>2, <2>3 DEF SourceKnown
<1> QED
  BY <1>1, <1>2

\* The rest of backupAlert leaves the source alone.
LEMMA BackupStepKeepsSource == ASSUME IInv, SourceKnown, BackupStep PROVE SourceKnown'
<1> USE DEF Goto, alertDir, observed, work
<1>1. CASE Inspect
  BY <1>1, InspectKeepsSource
<1>2. CASE CopySource
  BY <1>2, CopySourceKeepsSource
<1>3. CASE Restat
  <2>1. CASE pc' = "idle"
    BY <1>3, <2>1, EndingKeepsSource DEF Restat, Return
  <2>2. CASE pc' # "idle"
    <3>1. pc = "restat" /\ pc' = "syncCopy" /\ UNCHANGED <<alerts, call, snap, unlinked, raced>>
      BY <1>3, <2>2 DEF Restat, Return
    <3> QED
      BY <3>1, GoingOnKeepsSource DEF Looking
  <2> QED
    BY <2>1, <2>2
<1>4. CASE SyncCopy
  <2>1. pc = "syncCopy" /\ pc' = "publishBackup" /\ UNCHANGED <<alerts, call, snap, unlinked, raced>>
    BY <1>4 DEF SyncCopy
  <2> QED
    BY <2>1, GoingOnKeepsSource DEF Looking
<1>5. CASE PublishBackup
  <2>1. /\ pc = "publishBackup" /\ pc' = "syncBackup"
        /\ UNCHANGED <<alerts, call, snap, unlinked, raced>>
    BY <1>5 DEF PublishBackup
  <2>2. Regular(snap) /\ snap.body # Big
    BY <2>1 DEF IInv, CopyReady
  <2> QED
    BY <2>1, <2>2 DEF SourceKnown, Looking, Regular
<1>6. CASE SyncBackup \/ ListBackups \/ PruneOne \/ SyncPruned
  <2>1. /\ pc \in {"syncBackup", "list", "prune"}
        /\ UNCHANGED <<alerts, call, snap, unlinked, raced>>
        /\ pc' \in {"list", "prune", "mktemp", "verify"}
    BY <1>6 DEF SyncBackup, ListBackups, PruneOne, SyncPruned, AfterBackup
  <2>2. Looking /\ Regular(snap) /\ snap.body # Big
    BY <2>1 DEF SourceKnown, Looking
  <2> QED
    BY <2>1, <2>2, GoingOnKeepsSource
<1> QED
  BY <1>1, <1>2, <1>3, <1>4, <1>5, <1>6 DEF BackupStep

\* The steps that publish and remove.
LEMMA AlertStepKeepsSource == ASSUME IInv, SourceKnown, AlertStep \/ IOError PROVE SourceKnown'
<1> USE DEF Goto, alertDir, observed, work
<1>1. CASE pc' = "idle"
  <2>1. unlinked' = Absent
    BY <1>1 DEF AlertStep, IOError, ReadEntry, Precheck, MakeTemp, SyncTemp, Recheck, Verify,
       Rename, Link, Unlink, Remove, SyncAlerts, Return, AfterTemp, IInv, CallsMatchSteps
  <2> QED
    BY <1>1, <2>1, EndingKeepsSource
<1>2. CASE pc' # "idle" /\ (Precheck \/ MakeTemp \/ SyncTemp)
  <2>1. /\ pc \in {"precheck", "mktemp", "syncTemp"}
        /\ UNCHANGED <<alerts, call, snap, unlinked, raced>>
    BY <1>2 DEF Precheck, MakeTemp, SyncTemp, Return
  <2>2. /\ pc = "precheck" => pc' = "mktemp" /\ call.kind = "write"
        /\ pc = "mktemp" => pc' = "syncTemp"
        /\ pc = "syncTemp" => pc' \in {"link", "recheck"} \/ (pc' = "verify" /\ call.kind = "convert")
    BY <1>2 DEF Precheck, MakeTemp, SyncTemp, AfterTemp, Return, IInv, CallsMatchSteps
  <2>3. pc' = "verify" => Regular(snap) /\ snap.body # Big
    BY <2>1, <2>2 DEF IInv, ConvertsLegacy
  <2>4. Looking' => Looking
    BY <2>1, <2>2 DEF Looking
  <2> QED
    BY <2>1, <2>2, <2>3, <2>4, GoingOnKeepsSource
<1>3. CASE pc' # "idle" /\ (Recheck \/ Rename \/ Link \/ Unlink)
  <2>1. pc' \in {"rename", "syncAlerts", "unlink"}
    BY <1>3 DEF Recheck, Rename, Link, Unlink, Return
  <2> QED
    BY <2>1 DEF SourceKnown, Looking
<1>4. CASE pc' # "idle" /\ (Verify \/ Remove)
  <2>1. pc' \in {"rename", "syncAlerts"} \/ (pc = "verify" /\ pc' = "remove" /\ UNCHANGED snap)
    BY <1>4 DEF Verify, Remove, Return
  <2> QED
    BY <2>1 DEF SourceKnown, Looking, Regular
<1>5. CASE ReadEntry \/ SyncAlerts \/ IOError
  BY <1>1, <1>5 DEF ReadEntry, SyncAlerts, IOError, Return
<1> QED
  BY <1>1, <1>2, <1>3, <1>4, <1>5 DEF AlertStep

\* An outside writer who touches the target is noticed.
LEMMA OutsideKeepsSource == ASSUME IInv, SourceKnown, Outside PROVE SourceKnown'
<1>1. PICK t \in Targets, e \in Slots : OutsideReplace(t, e) \/ OutsideEdit(t, e)
  BY DEF Outside
<1>2. /\ alerts' = [alerts EXCEPT ![t] = e] /\ raced' = (raced \/ t = call.target)
      /\ UNCHANGED <<pc, call, snap>>
  BY <1>1 DEF OutsideReplace, OutsideEdit, OutsideChange
<1>3. unlinked' = unlinked \/ (t = call.target /\ pc \in {"copy", "restat"})
  BY <1>1 DEF OutsideReplace, OutsideEdit
<1>4. CASE t = call.target
  <2>1. raced'
    BY <1>2, <1>4
  <2> QED
    BY <1>2, <1>3, <2>1 DEF SourceKnown, Regular
<1>5. CASE t # call.target
  <2>1. unlinked' = unlinked /\ (raced' <=> raced)
    BY <1>2, <1>3, <1>5 DEF IInv, TypeOK
  <2>2. pc # "idle" => alerts'[call.target] = alerts[call.target]
    BY <1>2, <1>5 DEF IInv, TypeOK, CallsMatchSteps
  <2> QED
    BY <1>2, <2>1, <2>2 DEF SourceKnown, Looking, Regular
<1> QED
  BY <1>4, <1>5

\* SourceKnown is kept by every step.
LEMMA NextKeepsSource == ASSUME IInv, SourceKnown, [Next]_vars PROVE SourceKnown'
<1>1. CASE Invoke
  <2>1. /\ pc = "idle" /\ UNCHANGED unlinked
        /\ \/ pc' \in {"idle", "inspect", "precheck", "read"}
           \/ pc' = "mktemp" /\ call'.kind = "create"
    BY <1>1 DEF Invoke, Create, Write, ConvertLegacy, Delete, Read, Begin
  <2> QED
    BY <2>1 DEF SourceKnown, Looking
<1>2. CASE Open \/ Close \/ UNCHANGED vars
  <2>1. UNCHANGED <<alerts, pc, call, snap, unlinked, raced>>
    BY <1>2 DEF Open, Close, vars, alertDir, work, observed
  <2> QED
    BY <2>1 DEF SourceKnown, Looking, Regular
<1>3. CASE Crash \/ PowerLoss
  BY <1>3, EndingKeepsSource DEF Crash, PowerLoss, Stop
<1> QED
  BY <1>1, <1>2, <1>3, BackupStepKeepsSource, AlertStepKeepsSource, OutsideKeepsSource
     DEF Next, Step

-----------------------------------------------------------------------------
(* The abstract view of the store. *)

\* What is in the alert directory, as readers see it.
LEMMA ViewFacts ==
  ASSUME IInv, NEW t \in Targets
  PROVE  /\ Content[t] = Body(alerts[t])
         /\ Abstract!KindOf(Content[t]) = Kind(alerts[t])
         /\ Content[t] \in Abstract!Contents
         /\ Content[t] = Absent <=> alerts[t] = Absent
<1>1. alerts[t] \in Slots /\ (alerts[t] = Absent \/ alerts[t].body # Torn)
  BY DEF IInv, TypeOK, WholeFiles
<1>2. Content[t] = Body(alerts[t])
  BY DEF Content
<1>3. CASE alerts[t] = Absent
  <2>1. Body(alerts[t]) = Absent /\ Kind(alerts[t]) = "not_found"
    BY <1>3 DEF Body, Kind
  <2>2. Abstract!KindOf(Absent) = "not_found" /\ Absent \in Abstract!Contents
    BY ContentsDisjoint DEF Abstract!KindOf, Abstract!Contents
  <2> QED
    BY <1>2, <1>3, <2>1, <2>2
<1>4. CASE alerts[t] # Absent
  <2>1. /\ Body(alerts[t]) = alerts[t].body /\ Kind(alerts[t]) = KindOfBody(alerts[t].body)
        /\ alerts[t].body \in Messages \cup Legacy \cup {Big, Unsafe}
    BY <1>1, <1>4 DEF Body, Kind, Slots, Entries, Bodies
  <2>2. \A b \in Messages \cup Legacy \cup {Big, Unsafe} :
          KindOfBody(b) = Abstract!KindOf(b) /\ b \in Abstract!Contents /\ b # Absent
    BY ContentsDisjoint DEF KindOfBody, Abstract!KindOf, Abstract!Contents
  <2> QED
    BY <1>2, <1>4, <2>1, <2>2
<1> QED
  BY <1>3, <1>4

\* Which kind of alert each operation takes.
LEMMA TakesFacts ==
  /\ Abstract!Takes("create") = {"not_found"}
  /\ Abstract!Takes("write") = {"managed", "not_found"}
  /\ Abstract!Takes("convert") = {"legacy"}
  /\ Abstract!Takes("delete") = {"managed", "legacy"}
  /\ Abstract!Takes("read") = {}
  BY DEF Abstract!Takes

\* The operation's target is acceptable by what the store sees of it.
LEMMA AcceptableFacts ==
  ASSUME IInv, call.target \in Targets
  PROVE  /\ call.kind = "create" => (Abstract!Acceptable <=> alerts[call.target] = Absent)
         /\ call.kind = "write" =>
              (Abstract!Acceptable <=> Kind(alerts[call.target]) \in {"managed", "not_found"})
         /\ call.kind = "convert" => (Abstract!Acceptable <=> Kind(alerts[call.target]) = "legacy")
         /\ call.kind = "delete" =>
              (Abstract!Acceptable <=> Kind(alerts[call.target]) \in {"managed", "legacy"})
         /\ call.kind = "read" => ~Abstract!Acceptable
<1>1. Abstract!KindOf(Content[call.target]) = Kind(alerts[call.target])
  BY ViewFacts
<1>2. Kind(alerts[call.target]) = "not_found" <=> alerts[call.target] = Absent
  BY KindFacts DEF Kind
<1>3. Abstract!Acceptable <=> Kind(alerts[call.target]) \in Abstract!Takes(call.kind)
  BY <1>1 DEF Abstract!Acceptable
<1> QED
  BY <1>2, <1>3, TakesFacts

\* A step that shows nothing: neither the alert directory, nor whether the
\* operation is under way, applied or answered.
LEMMA HiddenStep ==
  ASSUME UNCHANGED <<alerts, aDisk, call, reply, raced, committed>>,
         pc' = "idle" <=> pc = "idle",
         committed /\ call.kind \in {"convert", "delete"} => UNCHANGED <<bDisk, bname>>
  PROVE  UNCHANGED Abstract!vars
<1>1. UNCHANGED <<Content, Durable, Phase>>
  BY DEF Content, Durable, Phase
<1>2. UNCHANGED Saved
  BY DEF Saved
<1> QED
  BY <1>1, <1>2 DEF Abstract!vars

\* A step that ends an operation without a further effect.
LEMMA EndingView ==
  ASSUME UNCHANGED <<alerts, aDisk, bDisk, bname, call, raced, committed>>, pc' = "idle"
  PROVE  UNCHANGED <<Content, Durable, Saved>> /\ Phase' = "idle"
  BY DEF Content, Durable, Saved, Phase

\* The same for a Return of the store.
LEMMA ReturnView ==
  ASSUME NEW r, Return(r), UNCHANGED <<alertDir, backupDir, observed>>
  PROVE  /\ UNCHANGED <<Content, Durable, Saved, call, raced>>
         /\ Phase' = "idle" /\ reply' = r
  BY EndingView DEF Return, alertDir, backupDir, observed

\* A refusal of the store is one of the abstract specification.
LEMMA RefusalView ==
  ASSUME IInv, pc # "idle", ~committed, call.target \in Targets, NEW r, Return(r),
         UNCHANGED <<alertDir, backupDir, observed>>,
         \/ r = Kind(alerts[call.target]) /\ ~Abstract!Acceptable
         \/ r = "already_exists" /\ call.kind = "create" /\ alerts[call.target] # Absent
         \/ r \in {"source_changed", "oversized", "managed", "not_found"} /\ raced
  PROVE  Abstract!Next
<1>1. Phase = "pending"
  BY DEF Phase
<1>2. r \in {"managed", "legacy", "oversized", "unsafe", "not_found", "already_exists",
             "source_changed", "io_error"}
  BY KindFacts
<1>3. Abstract!Refuse(r)
  BY <1>1, ReturnView, ViewFacts DEF Abstract!Refuse
<1> QED
  BY <1>2, <1>3 DEF Abstract!Next

\* So is a second look that the operation may rely on.
LEMMA LookView ==
  ASSUME IInv, pc # "idle", pc' # "idle", ~committed, Abstract!Acceptable, raced' = FALSE,
         UNCHANGED <<alerts, aDisk, bDisk, bname, call, reply, committed>>
  PROVE  Abstract!Next
<1>1. Phase = "pending" /\ UNCHANGED <<Content, Durable, Saved, Phase>>
  BY DEF Phase, Content, Durable, Saved
<1>2. Abstract!Look
  BY <1>1 DEF Abstract!Look
<1> QED
  BY <1>2 DEF Abstract!Next

-----------------------------------------------------------------------------
(* Every step of the store is a step of AtomicAlerts, or is not seen. *)

\* The initial states.
LEMMA InitView == ASSUME Init PROVE Abstract!Init
<1>1. Content \in [Targets -> Abstract!Contents]
  <2>1. \A t \in Targets : Content[t] \in Abstract!Contents
    BY InitHolds, ViewFacts
  <2> QED
    BY <2>1 DEF Content
<1>2. Durable = [t \in Targets |-> {Content[t]}]
  BY DEF Init, Durable, Content
<1> QED
  BY <1>1, <1>2 DEF Init, Saved, Phase, Abstract!Init

\* Every call begins an operation.
LEMMA BeginView == ASSUME IInv, Invoke PROVE Abstract!Next
<1>1. PICK t \in Targets, kind \in {"create", "write", "convert", "delete", "read"},
           m \in Messages \cup {Absent}, step \in Steps :
        /\ Begin(kind, t, m, step)
        /\ \/ kind \in {"create", "write", "convert"} /\ m \in Messages
           \/ kind \in {"delete", "read"} /\ m = Absent
        /\ step # "idle"
  BY DEF Invoke, Create, Write, ConvertLegacy, Delete, Read, Steps
<1>2. Phase = "idle" /\ UNCHANGED <<Content, Durable>> /\ Saved' = {}
  BY <1>1 DEF Begin, Phase, Content, Durable, Saved, alertDir
<1>3. \/ Phase' = "pending" /\ reply' = "none"
      \/ Phase' = "idle" /\ reply' = "closed"
  BY <1>1 DEF Begin, Phase
<1>4. Abstract!Begin(kind, t, m)
  BY <1>1, <1>2, <1>3 DEF Begin, Abstract!Begin
<1> QED
  BY <1>1, <1>4 DEF Abstract!Next

\* backupAlert is not seen, except for its refusals.
LEMMA BackupView ==
  ASSUME IInv, SourceKnown, BackupStep
  PROVE  Abstract!Next \/ UNCHANGED Abstract!vars
<1>1. /\ pc \in BackupSteps /\ ~committed
      /\ call.kind \in {"convert", "delete"} /\ call.target \in Targets
  BY DEF BackupStep, Inspect, CopySource, Restat, SyncCopy, PublishBackup, SyncBackup,
     ListBackups, PruneOne, SyncPruned, BackupSteps, IInv, CallsMatchSteps, CommittedLate
<1>2. pc # "idle"
  BY <1>1 DEF BackupSteps
<1>3. UNCHANGED <<alerts, aDisk, call, raced, committed>>
  BY DEF BackupStep, Inspect, CopySource, Restat, SyncCopy, PublishBackup, SyncBackup,
     ListBackups, PruneOne, SyncPruned, Goto, Return, alertDir, observed
<1>4. CASE pc' # "idle" /\ UNCHANGED reply
  BY <1>1, <1>2, <1>3, <1>4, HiddenStep
<1>5. CASE Inspect /\ Kind(alerts[call.target]) \notin {"managed", "legacy"}
  <2>1. Return(Kind(alerts[call.target])) /\ UNCHANGED <<alertDir, backupDir, observed>>
    BY <1>5 DEF Inspect
  <2>2. ~Abstract!Acceptable
    BY <1>1, <1>5, AcceptableFacts
  <2> QED
    BY <1>1, <1>2, <2>1, <2>2, RefusalView
<1>6. CASE CopySource /\ Kind(Source) = "oversized"
  <2>1. pc = "copy" /\ Return("oversized") /\ UNCHANGED <<alertDir, backupDir, observed>>
    BY <1>6 DEF CopySource
  <2>2. CASE raced
    BY <1>1, <1>2, <2>1, <2>2, RefusalView
  <2>3. CASE ~raced
    <3>1. Kind(alerts[call.target]) = "oversized"
      BY <1>6, <2>1, <2>3 DEF SourceKnown, Source
    <3>2. ~Abstract!Acceptable
      BY <1>1, <3>1, AcceptableFacts
    <3> QED
      BY <1>1, <1>2, <2>1, <3>1, <3>2, RefusalView
  <2> QED
    BY <2>2, <2>3
<1>7. CASE Restat
  <2>1. pc = "restat" /\ UNCHANGED <<alertDir, backupDir, observed>>
    BY <1>7 DEF Restat
  <2>2. ~raced => SameInfo(snap, Source) /\ alerts[call.target] = snap
    <3> SUFFICES ASSUME ~raced PROVE SameInfo(snap, Source) /\ alerts[call.target] = snap
      OBVIOUS
    <3>1. alerts[call.target] = snap /\ Source = snap
      BY <2>1 DEF SourceKnown, Looking, Source
    <3>2. snap # Absent
      BY <2>1, AbsentIsNoFile DEF IInv, CopyReady, Regular
    <3> QED
      BY <3>1, <3>2 DEF SameInfo
  <2>3. CASE Return("source_changed") /\ ~SameInfo(snap, Source)
    BY <1>1, <1>2, <2>1, <2>2, <2>3, RefusalView DEF IInv, TypeOK
  <2>4. CASE Return("managed") /\ call.kind = "convert" /\ Kind(snap) = "managed"
    <3>1. CASE raced
      BY <1>1, <1>2, <2>1, <2>4, <3>1, RefusalView
    <3>2. CASE ~raced
      <4>1. Kind(alerts[call.target]) = "managed" /\ ~Abstract!Acceptable
        BY <1>1, <2>2, <2>4, <3>2, AcceptableFacts
      <4> QED
        BY <1>1, <1>2, <2>1, <2>4, <4>1, RefusalView
    <3> QED
      BY <3>1, <3>2
  <2>5. CASE Goto("syncCopy")
    BY <1>4, <2>5 DEF Goto
  <2> QED
    BY <1>7, <2>3, <2>4, <2>5 DEF Restat
<1>8. CASE Inspect \/ CopySource
  BY <1>4, <1>5, <1>6, <1>8 DEF Inspect, CopySource, Goto
<1>9. CASE SyncCopy \/ PublishBackup \/ SyncBackup \/ ListBackups \/ PruneOne \/ SyncPruned
  BY <1>4, <1>9 DEF SyncCopy, PublishBackup, SyncBackup, ListBackups, PruneOne, SyncPruned, Goto,
     AfterBackup
<1> QED
  BY <1>7, <1>8, <1>9 DEF BackupStep

\* The checks and the preparation of the temporary alert.
LEMMA PrepareView ==
  ASSUME IInv, SourceKnown, Precheck \/ MakeTemp \/ SyncTemp \/ Recheck \/ Verify
  PROVE  Abstract!Next \/ UNCHANGED Abstract!vars
<1>1. /\ pc \in {"precheck", "mktemp", "syncTemp", "recheck", "verify"} /\ ~committed
      /\ call.target \in Targets
  BY DEF Precheck, MakeTemp, SyncTemp, Recheck, Verify, IInv, CallsMatchSteps, CommittedLate
<1>2. CASE MakeTemp \/ SyncTemp
  <2>1. pc' # "idle"
    BY <1>1, <1>2 DEF MakeTemp, SyncTemp, Goto, AfterTemp, IInv, CallsMatchSteps
  <2>2. UNCHANGED <<alerts, aDisk, call, reply, raced, committed>>
    BY <1>2 DEF MakeTemp, SyncTemp, Goto, alertDir, observed
  <2> QED
    BY <1>1, <2>1, <2>2, HiddenStep
<1>3. CASE Precheck \/ Recheck
  <2>1. pc \in {"precheck", "recheck"} /\ call.kind = "write" /\ UNCHANGED <<alertDir, backupDir>>
    BY <1>3 DEF Precheck, Recheck, IInv, CallsMatchSteps
  <2>2. CASE Kind(alerts[call.target]) \notin {"managed", "not_found"}
    <3>1. Return(Kind(alerts[call.target])) /\ UNCHANGED observed
      BY <1>3, <2>2 DEF Precheck, Recheck
    <3>2. ~Abstract!Acceptable
      BY <1>1, <2>1, <2>2, AcceptableFacts
    <3> QED
      BY <1>1, <2>1, <3>1, <3>2, RefusalView
  <2>3. CASE Kind(alerts[call.target]) \in {"managed", "not_found"}
    <3>1. /\ UNCHANGED <<call, reply, committed, bname>> /\ pc' \in {"mktemp", "rename"}
          /\ UNCHANGED raced \/ raced' = FALSE
      BY <1>3, <2>3 DEF Precheck, Recheck, Goto, work, observed
    <3>2. Abstract!Acceptable
      BY <1>1, <2>1, <2>3, AcceptableFacts
    <3>3. UNCHANGED <<alerts, aDisk, bDisk>>
      BY <2>1 DEF alertDir, backupDir
    <3>4. CASE raced' = FALSE
      BY <1>1, <3>1, <3>2, <3>3, <3>4, LookView
    <3>5. CASE UNCHANGED raced
      BY <1>1, <3>1, <3>3, <3>5, HiddenStep
    <3> QED
      BY <3>1, <3>4, <3>5
  <2> QED
    BY <2>2, <2>3
<1>4. CASE Verify
  <2>1. /\ pc = "verify" /\ call.kind \in {"convert", "delete"} /\ UNCHANGED <<alertDir, backupDir>>
        /\ Regular(snap) /\ snap.body # Big
    BY <1>4 DEF Verify, SourceKnown, IInv, CallsMatchSteps
  <2>2. CASE Unchanged(alerts[call.target])
    <3>1. /\ raced' = FALSE /\ pc' \in {"remove", "rename"}
          /\ UNCHANGED <<call, reply, committed, bname>>
      BY <1>4, <2>2 DEF Verify, Goto, work
    <3>2. alerts[call.target] # Absent /\ alerts[call.target].body = snap.body
      BY <2>2 DEF Unchanged, SameInfo
    <3>3. call.kind = "convert" => snap.body \notin Messages
      BY <2>1 DEF IInv, ConvertsLegacy
    <3>4. Abstract!Acceptable
      BY <1>1, <2>1, <3>2, <3>3, KindFacts, AcceptableFacts DEF Regular
    <3>5. UNCHANGED <<alerts, aDisk, bDisk>>
      BY <2>1 DEF alertDir, backupDir
    <3> QED
      BY <1>1, <3>1, <3>4, <3>5, LookView
  <2>3. CASE ~Unchanged(alerts[call.target])
    <3>1. Return("source_changed") /\ UNCHANGED observed
      BY <1>4, <2>3 DEF Verify
    <3>2. snap # Absent
      BY <2>1, AbsentIsNoFile DEF Regular
    <3>3. raced
      BY <2>1, <2>3, <3>2 DEF SourceKnown, Looking, Unchanged, SameInfo
    <3> QED
      BY <1>1, <2>1, <3>1, <3>3, RefusalView
  <2> QED
    BY <2>2, <2>3
<1> QED
  BY <1>2, <1>3, <1>4

\* The step that publishes gives the target the message, for every reader.
LEMMA PublishView ==
  ASSUME IInv, call.target \in Targets, call.msg \in Messages,
         temp.body = call.msg, temp.synced, Publish
  PROVE  /\ Content' = [Content EXCEPT ![call.target] = call.msg]
         /\ Durable' = [Durable EXCEPT ![call.target] = @ \cup {call.msg}]
<1>1. call.msg \in Bodies
  BY DEF Bodies
<1>2. PICK s \in Stamps :
        /\ alerts' = [alerts EXCEPT ![call.target] = [stamp |-> s, body |-> temp.body]]
        /\ aDisk' = [aDisk EXCEPT ![call.target] =
                       @ \cup {[stamp |-> s, body |-> b] : b \in Survivors(temp)}]
  BY DEF Publish
<1> DEFINE new == [stamp |-> s, body |-> call.msg]
<1>3. new # Absent /\ new.body = call.msg
  BY <1>1, EntryFacts
<1>4. {[stamp |-> s, body |-> b] : b \in Survivors(temp)} = {new}
  BY DEF Survivors
<1> HIDE DEF new
<1>5. Body(new) = call.msg
  BY <1>3 DEF Body
<1>6. alerts' = [alerts EXCEPT ![call.target] = new]
  BY <1>2 DEF new
<1>7. aDisk' = [aDisk EXCEPT ![call.target] = @ \cup {new}]
  BY <1>2, <1>4
<1>8. Content' = [Content EXCEPT ![call.target] = call.msg]
  BY <1>5, <1>6 DEF Content, IInv, TypeOK
<1>9. {Body(e) : e \in aDisk[call.target] \cup {new}}
        = {Body(e) : e \in aDisk[call.target]} \cup {call.msg}
  BY <1>5
<1>10. Durable' = [Durable EXCEPT ![call.target] = @ \cup {call.msg}]
  BY <1>7, <1>9 DEF Durable, IInv, TypeOK
<1> QED
  BY <1>8, <1>10

\* Rename is the step in which Write and ConvertLegacy take effect.
LEMMA RenameView == ASSUME IInv, Rename PROVE Abstract!Next
<1>1. /\ pc = "rename" /\ call.kind \in {"write", "convert"} /\ ~committed
      /\ call.target \in Targets /\ call.msg \in Messages /\ temp.body = call.msg /\ temp.synced
  BY DEF Rename, IInv, CallsMatchSteps, CommittedLate, TempReady
<1>2. /\ Content' = [Content EXCEPT ![call.target] = call.msg]
      /\ Durable' = [Durable EXCEPT ![call.target] = @ \cup {call.msg}]
  BY <1>1, PublishView DEF Rename
<1>3. Phase = "pending" /\ Phase' = "applied" /\ UNCHANGED <<call, reply, raced>>
  BY <1>1 DEF Rename, Goto, Phase
<1>4. call.kind = "write" /\ ~raced => Abstract!Acceptable
  BY <1>1, AcceptableFacts DEF IInv, CheckHolds
<1>5. call.kind = "convert" =>
        /\ Saved' = {snap.body} /\ snap.body \in Abstract!Contents
        /\ snap.body \notin Messages \cup {Big, Unsafe}
  <2> SUFFICES ASSUME call.kind = "convert"
               PROVE  /\ Saved' = {snap.body} /\ snap.body \in Abstract!Contents
                      /\ snap.body \notin Messages \cup {Big, Unsafe}
    OBVIOUS
  <2>1. bDisk[bname] = {snap.body} /\ Regular(snap) /\ snap.body \notin Messages \cup {Big}
    BY <1>1 DEF IInv, BackupReady, Backed, ConvertsLegacy
  <2>2. Saved' = bDisk[bname]
    BY DEF Rename, Goto, Saved, backupDir
  <2>3. snap.body \in Bodies \ {Unsafe, Torn}
    BY <2>1 DEF Regular, Entries
  <2> QED
    BY <2>1, <2>2, <2>3 DEF Bodies, Abstract!Contents
<1>6. call.kind = "convert" /\ ~raced => Abstract!Acceptable /\ Content[call.target] = snap.body
  <2> SUFFICES ASSUME call.kind = "convert", ~raced
               PROVE  Abstract!Acceptable /\ Content[call.target] = snap.body
    OBVIOUS
  <2>1. alerts[call.target] # Absent /\ alerts[call.target].body = snap.body
    BY <1>1 DEF IInv, CheckHolds
  <2>2. Kind(alerts[call.target]) = "legacy"
    BY <1>5, <2>1, KindFacts
  <2>3. Abstract!Acceptable
    BY <1>1, <2>2, AcceptableFacts
  <2>4. Content[call.target] = snap.body
    BY <1>1, <2>1, ViewFacts DEF Body
  <2> QED
    BY <2>3, <2>4
<1>7. call.kind = "write" => Saved' = {}
  BY DEF Rename, Goto, Saved
<1>8. raced' = (raced /\ call.kind # "create")
  BY <1>1, <1>3 DEF IInv, TypeOK
<1>9. \/ call.kind \notin {"convert", "delete"} /\ Saved' = {}
      \/ call.kind \in {"convert", "delete"} /\ ~raced /\ Saved' = {Content[call.target]}
      \/ call.kind \in {"convert", "delete"} /\ raced /\ \E c \in Abstract!Contents : Saved' = {c}
  BY <1>1, <1>5, <1>6, <1>7
<1>10. Abstract!Apply
  BY <1>1, <1>2, <1>3, <1>4, <1>6, <1>8, <1>9
     DEF Abstract!Apply, Abstract!Mutating, Abstract!Destructive
<1> QED
  BY <1>10 DEF Abstract!Next

\* Link is the step in which Create takes effect, or refuses.
LEMMA LinkView == ASSUME IInv, Link PROVE Abstract!Next
<1>1. /\ pc = "link" /\ call.kind = "create" /\ ~committed
      /\ call.target \in Targets /\ call.msg \in Messages /\ temp.body = call.msg /\ temp.synced
  BY DEF Link, IInv, CallsMatchSteps, CommittedLate, TempReady
<1>2. CASE alerts[call.target] # Absent
  <2>1. Return("already_exists") /\ UNCHANGED <<alertDir, backupDir, observed>>
    BY <1>2 DEF Link
  <2> QED
    BY <1>1, <1>2, <2>1, RefusalView
<1>3. CASE alerts[call.target] = Absent
  <2>1. /\ Content' = [Content EXCEPT ![call.target] = call.msg]
        /\ Durable' = [Durable EXCEPT ![call.target] = @ \cup {call.msg}]
    BY <1>1, <1>3, PublishView DEF Link
  <2>2. Phase = "pending" /\ Phase' = "applied" /\ raced' = FALSE /\ UNCHANGED <<call, reply>>
    BY <1>1, <1>3 DEF Link, Goto, Phase
  <2>3. Saved' = {} /\ Abstract!Acceptable
    BY <1>1, <1>3, <2>2, AcceptableFacts DEF Saved
  <2>4. Abstract!Apply
    BY <1>1, <2>1, <2>2, <2>3 DEF Abstract!Apply, Abstract!Mutating, Abstract!Destructive
  <2> QED
    BY <2>4 DEF Abstract!Next
<1> QED
  BY <1>2, <1>3

\* Remove is the step in which Delete takes effect, unless the alert is gone.
LEMMA RemoveView == ASSUME IInv, SourceKnown, Remove PROVE Abstract!Next
<1>1. /\ pc = "remove" /\ call.kind = "delete" /\ ~committed
      /\ call.target \in Targets /\ call.msg = Absent
      /\ Regular(snap) /\ snap.body # Big
  BY DEF Remove, IInv, CallsMatchSteps, CommittedLate, SourceKnown
<1>2. ~raced => alerts[call.target] # Absent /\ alerts[call.target].body = snap.body
  BY <1>1 DEF IInv, CheckHolds
<1>3. CASE alerts[call.target] = Absent
  <2>1. Return("not_found") /\ UNCHANGED <<alertDir, backupDir, observed>>
    BY <1>3 DEF Remove
  <2> QED
    BY <1>1, <1>2, <1>3, <2>1, RefusalView
<1>4. CASE alerts[call.target] # Absent
  <2>1. /\ alerts' = [alerts EXCEPT ![call.target] = Absent]
        /\ aDisk' = [aDisk EXCEPT ![call.target] = @ \cup {Absent}]
        /\ committed' = TRUE /\ pc' = "syncAlerts"
        /\ UNCHANGED <<call, reply, raced, bDisk, bname>>
    BY <1>4 DEF Remove, Goto, work, backupDir
  <2>2. Content' = [Content EXCEPT ![call.target] = call.msg]
    BY <1>1, <2>1 DEF Content, Body, IInv, TypeOK
  <2>3. {Body(e) : e \in aDisk[call.target] \cup {Absent}}
          = {Body(e) : e \in aDisk[call.target]} \cup {Absent}
    BY DEF Body
  <2>4. Durable' = [Durable EXCEPT ![call.target] = @ \cup {call.msg}]
    BY <1>1, <2>1, <2>3 DEF Durable, IInv, TypeOK
  <2>5. Phase = "pending" /\ Phase' = "applied"
    BY <1>1, <2>1 DEF Phase
  <2>6. Saved' = {snap.body}
    BY <1>1, <2>1 DEF Saved, IInv, BackupReady, Backed
  <2>7. snap.body \in Abstract!Contents /\ snap.body \notin {Big, Unsafe}
    BY <1>1 DEF Regular, Entries, Bodies, Abstract!Contents
  <2>8. ~raced => Abstract!Acceptable /\ Content[call.target] = snap.body
    <3> SUFFICES ASSUME ~raced PROVE Abstract!Acceptable /\ Content[call.target] = snap.body
      OBVIOUS
    <3>1. Kind(alerts[call.target]) \in {"managed", "legacy"}
      BY <1>2, <2>7, KindFacts
    <3>2. Abstract!Acceptable
      BY <1>1, <3>1, AcceptableFacts
    <3>3. Content[call.target] = snap.body
      BY <1>1, <1>2, ViewFacts DEF Body
    <3> QED
      BY <3>2, <3>3
  <2>9. raced' = (raced /\ call.kind # "create")
    BY <1>1, <2>1 DEF IInv, TypeOK
  <2>10. Abstract!Apply
    BY <1>1, <2>1, <2>2, <2>4, <2>5, <2>6, <2>7, <2>8, <2>9
       DEF Abstract!Apply, Abstract!Mutating, Abstract!Destructive
  <2> QED
    BY <2>10 DEF Abstract!Next
<1> QED
  BY <1>3, <1>4

\* Success is reported once the alert directory is synced; an answer to Read
\* is what is there; and an error says nothing.
LEMMA AnswerView ==
  ASSUME IInv, ReadEntry \/ SyncAlerts \/ IOError
  PROVE  Abstract!Next
<1>1. CASE ReadEntry
  <2>1. pc = "read" /\ call.kind = "read" /\ ~committed /\ call.target \in Targets
    BY <1>1 DEF ReadEntry, IInv, CallsMatchSteps, CommittedLate
  <2>2. ~Abstract!Acceptable
    BY <2>1, AcceptableFacts
  <2> QED
    BY <1>1, <2>1, <2>2, RefusalView DEF ReadEntry
<1>2. CASE SyncAlerts
  <2>1. /\ pc = "syncAlerts" /\ committed /\ aDisk' = [t \in Targets |-> {alerts[t]}]
        /\ pc' = "idle" /\ reply' = "ok"
        /\ UNCHANGED <<alerts, bDisk, bname, call, raced, committed>>
    BY <1>2 DEF SyncAlerts, Return, backupDir, observed, IInv, CommittedLate
  <2>2. Durable' = [t \in Targets |-> {Content[t]}]
    BY <2>1 DEF Durable, Content
  <2>3. UNCHANGED <<Content, Saved>> /\ Phase = "applied" /\ Phase' = "idle"
    BY <2>1 DEF Content, Saved, Phase
  <2>4. Abstract!Succeed
    BY <2>1, <2>2, <2>3 DEF Abstract!Succeed
  <2> QED
    BY <2>4 DEF Abstract!Next
<1>3. CASE IOError
  <2>1. PICK r \in {"io_error", "unsafe"} :
          /\ Return(r) /\ UNCHANGED <<alertDir, backupDir, observed>>
          /\ r = "unsafe" => pc \in {"read", "inspect", "precheck", "recheck"}
    BY <1>3 DEF IOError
  <2>2. Phase # "idle" /\ (r = "unsafe" => Phase = "pending")
    BY <1>3, <2>1 DEF IOError, Phase, IInv, CommittedLate
  <2>3. Abstract!Fail(r)
    BY <2>1, <2>2, ReturnView DEF Abstract!Fail
  <2> QED
    BY <2>3 DEF Abstract!Next
<1> QED
  BY <1>1, <1>2, <1>3

\* An outside change is one there, too.
LEMMA OutsideView == ASSUME IInv, Outside PROVE Abstract!Next
<1>1. PICK t \in Targets, e \in {e \in Slots : e = Absent \/ e.body # Torn} :
        OutsideReplace(t, e) \/ OutsideEdit(t, e)
  BY DEF Outside
<1>2. /\ alerts' = [alerts EXCEPT ![t] = e] /\ aDisk' = [aDisk EXCEPT ![t] = @ \cup {e}]
      /\ raced' = (raced \/ t = call.target)
      /\ UNCHANGED <<pc, call, reply, committed, bDisk, bname>>
  BY <1>1 DEF OutsideReplace, OutsideEdit, OutsideChange, backupDir
<1>3. Body(e) \in Abstract!Contents
  BY DEF Body, Slots, Entries, Bodies, Abstract!Contents
<1>4. Content' = [Content EXCEPT ![t] = Body(e)]
  BY <1>2 DEF Content, IInv, TypeOK
<1>5. {Body(x) : x \in aDisk[t] \cup {e}} = {Body(x) : x \in aDisk[t]} \cup {Body(e)}
  OBVIOUS
<1>6. Durable' = [Durable EXCEPT ![t] = @ \cup {Body(e)}]
  BY <1>2, <1>5 DEF Durable, IInv, TypeOK
<1>7. UNCHANGED <<Saved, Phase>>
  BY <1>2 DEF Saved, Phase
<1>8. Abstract!OutsideChange(t, Body(e))
  BY <1>2, <1>4, <1>6, <1>7 DEF Abstract!OutsideChange
<1> QED
  BY <1>3, <1>8 DEF Abstract!Next

\* A daemon that dies leaves what was applied, and a loss of power one of the
\* contents that were not settled, with the archived one still there.
LEMMA DeathView == ASSUME IInv, Crash \/ PowerLoss PROVE Abstract!Next
<1>1. CASE Crash
  <2>1. /\ pc' = "idle"
        /\ UNCHANGED <<alerts, aDisk, bDisk, bname, call, reply, raced, committed>>
    BY <1>1 DEF Crash, Stop, alertDir, backupDir, observed
  <2>2. Abstract!Crash
    BY <2>1, EndingView DEF Abstract!Crash
  <2> QED
    BY <2>2 DEF Abstract!Next
<1>2. CASE PowerLoss
  <2>1. pc' = "idle" /\ UNCHANGED <<bname, call, reply, raced, committed, snap>>
    BY <1>2 DEF PowerLoss, Stop, observed
  <2>2. alerts' \in [Targets -> Slots] /\ \A t \in Targets : alerts'[t] \in aDisk[t]
    BY <1>2, ChoiceFacts DEF PowerLoss, IInv, TypeOK
  <2>3. Content' \in [Targets -> Abstract!Contents]
    <3>1. IInv'
      BY <1>2, PowerLossKeeps
    <3>2. \A t \in Targets : Body(alerts'[t]) \in Abstract!Contents
      <4> TAKE t \in Targets
      <4>1. alerts'[t] \in Slots /\ (alerts'[t] = Absent \/ alerts'[t].body # Torn)
        BY <3>1 DEF IInv, TypeOK, WholeFiles
      <4> QED
        BY <4>1 DEF Body, Slots, Entries, Bodies, Abstract!Contents
    <3> QED
      BY <3>2 DEF Content
  <2>4. \A t \in Targets : Content'[t] \in Durable[t]
    BY <2>2 DEF Content, Durable
  <2>5. Durable' = [t \in Targets |-> {Content'[t]}]
    BY <1>2 DEF PowerLoss, Durable, Content
  <2>6. UNCHANGED Saved
    <3>1. CASE committed /\ call.kind \in {"convert", "delete"}
      <4>1. bname \in Names /\ bDisk[bname] = {snap.body}
        BY <3>1 DEF IInv, BackupReady, Backed
      <4>2. backups'[bname] \in bDisk[bname] /\ bDisk'[bname] = {backups'[bname]}
        BY <1>2, <4>1, ChoiceFacts DEF PowerLoss, IInv, TypeOK
      <4> QED
        BY <2>1, <3>1, <4>1, <4>2 DEF Saved
    <3>2. CASE ~(committed /\ call.kind \in {"convert", "delete"})
      BY <2>1, <3>2 DEF Saved
    <3> QED
      BY <3>1, <3>2
  <2>7. Phase' = "idle"
    BY <2>1 DEF Phase
  <2>8. Abstract!PowerLoss
    BY <2>1, <2>3, <2>4, <2>5, <2>6, <2>7 DEF Abstract!PowerLoss
  <2> QED
    BY <2>8 DEF Abstract!Next
<1> QED
  BY <1>1, <1>2

\* Every step of the store, seen from outside.
LEMMA NextView ==
  ASSUME IInv, SourceKnown, [Next]_vars
  PROVE  [Abstract!Next]_(Abstract!vars)
<1>1. CASE Invoke \/ Outside \/ Crash \/ PowerLoss
  BY <1>1, BeginView, OutsideView, DeathView
<1>2. CASE Open \/ Close \/ UNCHANGED vars
  <2>1. UNCHANGED <<alerts, aDisk, bDisk, bname, pc, call, reply, raced, committed>>
    BY <1>2 DEF Open, Close, vars, alertDir, backupDir, work, observed
  <2> QED
    BY <2>1, HiddenStep
<1>3. CASE BackupStep
  BY <1>3, BackupView
<1>4. CASE Precheck \/ MakeTemp \/ SyncTemp \/ Recheck \/ Verify
  BY <1>4, PrepareView
<1>5. CASE Rename \/ Link \/ Remove \/ ReadEntry \/ SyncAlerts \/ IOError
  BY <1>5, RenameView, LinkView, RemoveView, AnswerView
<1>6. CASE Unlink
  <2>1. /\ pc = "unlink" /\ pc' = "syncAlerts"
        /\ UNCHANGED <<alerts, aDisk, bDisk, bname, call, reply, raced, committed>>
    BY <1>6 DEF Unlink, Goto, alertDir, backupDir, observed
  <2> QED
    BY <2>1, HiddenStep
<1> QED
  BY <1>1, <1>2, <1>3, <1>4, <1>5, <1>6 DEF Next, Step, AlertStep

\* The alert store implements AtomicAlerts: whatever interrupts or disturbs its
\* file operations, its callers see operations that take effect in one step or
\* not at all, archive what they destroy in that step, and answer truthfully.
THEOREM Refinement == Spec => OperationsAreAtomic
<1>1. Init => Abstract!Init /\ SourceKnown
  BY InitView DEF Init, SourceKnown, Looking
<1>2. IInv /\ SourceKnown /\ [Next]_vars => SourceKnown'
  BY NextKeepsSource
<1>3. IInv /\ SourceKnown /\ [Next]_vars => [Abstract!Next]_(Abstract!vars)
  BY NextView
<1> QED
  BY <1>1, <1>2, <1>3, Invariance, PTL DEF Spec, OperationsAreAtomic, Abstract!Spec
=============================================================================
