--------------------------- MODULE SettingsManager ---------------------------
(***************************************************************************)
(* The application settings (internal/appconfig): the daemon loads them    *)
(* from their file when it starts and refuses to start when it cannot      *)
(* decode them; a replacement goes through a temporary file, a rename and  *)
(* a sync of the directory, under the manager's mutex.                     *)
(***************************************************************************)
EXTENDS Naturals

CONSTANTS
  Versions,        \* the configurations a request can carry: Config.Version
  CurrentVersion,  \* the one that Validate accepts
  Absent,          \* no file
  Garbage,         \* contents that do not decode; also a file cut short
  None,            \* no manager
  MaxCrashes       \* bound on the deaths of the daemon and losses of power

ASSUME VersionsAssumption ==
  /\ CurrentVersion \in Versions
  /\ {Absent, Garbage, None} \cap Versions = {}
  /\ Absent # Garbage
ASSUME CrashesAssumption == MaxCrashes \in Nat

VARIABLES
  file,     \* what every process finds under the path
  disk,     \* what a loss of power may leave there
  current,  \* manager.current, or None while no manager is open
  pc,       \* the next step of the Replace that holds the mutex
  config,   \* its argument
  temp,     \* its temporary file: Absent, Garbage (not synced) or its contents
  reply,    \* what the last Replace returned
  before,   \* observed: file and disk when that Replace began
  crashes   \* deaths and losses of power so far

storage == <<file, disk>>
vars == <<storage, current, pc, config, temp, reply, before, crashes>>

Contents == Versions \cup {Absent, Garbage}

\* Load accepts a missing file and a file that decodes and validates.
Loadable(f) == f \in {Absent, CurrentVersion}

\* Defaults, for a missing file.
Load(f) == IF f = Absent THEN CurrentVersion ELSE f

-----------------------------------------------------------------------------
\* OpenManager; a daemon that cannot load its settings exits.
OpenManager ==
  /\ current = None
  /\ Loadable(file)
  /\ current' = Load(file)
  /\ UNCHANGED <<storage, pc, config, temp, reply, before, crashes>>

\* Replace takes the mutex; saveWithDirectorySync validates first.
Replace(v) ==
  /\ current # None
  /\ pc = "idle"
  /\ config' = v
  /\ before' = storage
  /\ pc' = IF v = CurrentVersion THEN "write" ELSE "idle"
  /\ reply' = IF v = CurrentVersion THEN "none" ELSE "invalid"
  /\ UNCHANGED <<storage, current, temp, crashes>>

\* CreateTemp, Chmod and Write.
WriteTemp ==
  /\ pc = "write"
  /\ temp' = Garbage
  /\ pc' = "sync"
  /\ UNCHANGED <<storage, current, config, reply, before, crashes>>

\* Mutant: the temporary file is not synced.
NoSyncTemp ==
  /\ pc = "sync"
  /\ pc' = "rename"
  /\ UNCHANGED <<storage, current, config, temp, reply, before, crashes>>

\* Sync and Close.
SyncTemp ==
  /\ pc = "sync"
  /\ temp' = config
  /\ pc' = "rename"
  /\ UNCHANGED <<storage, current, config, reply, before, crashes>>

\* Everyone sees the whole file; a loss of power may keep the old one, or
\* what is on the disk of the new one.
Rename ==
  /\ pc = "rename"
  /\ file' = config
  /\ disk' = disk \cup {temp}
  /\ temp' = Absent
  /\ pc' = "syncDir"
  /\ UNCHANGED <<current, config, reply, before, crashes>>

\* The directory is synced, or cannot be opened or synced.  Either way the
\* replacement is committed and the manager takes it over.
SyncDir ==
  /\ pc = "syncDir"
  /\ \/ /\ disk' = {file}
        /\ reply' = "ok"
     \/ /\ UNCHANGED disk
        /\ reply' = "uncertain"
  /\ current' = config
  /\ pc' = "idle"
  /\ UNCHANGED <<file, config, temp, before, crashes>>

\* Mutant: an error after the rename is an error like the others.
SaveFailsLate ==
  /\ pc \in {"write", "sync", "rename", "syncDir"}
  /\ temp' = Absent
  /\ reply' = "failed"
  /\ pc' = "idle"
  /\ UNCHANGED <<storage, current, config, before, crashes>>

\* An error before the rename: the temporary file is removed.
SaveFails ==
  /\ pc \in {"write", "sync", "rename"}
  /\ temp' = Absent
  /\ reply' = "failed"
  /\ pc' = "idle"
  /\ UNCHANGED <<storage, current, config, before, crashes>>

-----------------------------------------------------------------------------
Stop ==
  /\ crashes < MaxCrashes
  /\ crashes' = crashes + 1
  /\ current' = None
  /\ pc' = "idle"
  /\ temp' = Absent
  /\ reply' = "none"
  /\ UNCHANGED <<config, before>>

Crash == current # None /\ Stop /\ UNCHANGED storage

PowerLoss ==
  /\ Stop
  /\ file' \in disk
  /\ disk' = {file'}

Init ==
  /\ file \in Contents
  /\ disk = {file}
  /\ current = None
  /\ pc = "idle"
  /\ config = CurrentVersion
  /\ temp = Absent
  /\ reply = "none"
  /\ before = storage
  /\ crashes = 0

Next ==
  \/ OpenManager
  \/ \E v \in Versions : Replace(v)
  \/ WriteTemp \/ SyncTemp \/ Rename \/ SyncDir \/ SaveFails
  \/ Crash \/ PowerLoss

Spec == Init /\ [][Next]_vars

-----------------------------------------------------------------------------
(* Properties. *)

\* The type of every variable.
TypeOK ==
  /\ file \in Contents
  /\ disk \in SUBSET Contents
  /\ current \in {CurrentVersion, None}
  /\ pc \in {"idle", "write", "sync", "rename", "syncDir"}
  /\ config \in Versions
  /\ temp \in Contents
  /\ reply \in {"none", "ok", "uncertain", "failed", "invalid"}
  /\ before \in Contents \X SUBSET Contents
  /\ crashes \in 0 .. MaxCrashes

\* A daemon that could start once can start again: neither its own writes nor
\* a loss of power at any moment of them leaves a settings file that Load
\* refuses.
StartsAgain == [][Loadable(file) => Loadable(file')]_vars

\* What Replace reports is what happened to the file: "ok" is there and a loss
\* of power does not take it away, "uncertain" is there and may be lost to the
\* file before it, and after an error everything is as it was.
RepliesAreTrue ==
  /\ reply = "ok" => file = config /\ disk = {config}
  /\ reply = "uncertain" => file = config /\ disk = before[2] \cup {config}
  /\ reply \in {"failed", "invalid"} => storage = before

\* The inductive invariant: a manager has loaded its file, what may be left of
\* a loadable file is loadable, and how far the running Replace has come.
IInv ==
  /\ TypeOK
  /\ current # None => Loadable(file)
  /\ Loadable(file) => \A f \in disk : Loadable(f)
  /\ pc # "idle" => current # None /\ config = CurrentVersion /\ reply = "none"
  /\ pc \in {"write", "sync", "rename"} => storage = before
  /\ pc = "rename" => temp = config
  /\ pc = "syncDir" => file = config /\ disk = before[2] \cup {config}
  /\ RepliesAreTrue
=============================================================================
