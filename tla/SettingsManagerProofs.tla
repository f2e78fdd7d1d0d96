------------------------ MODULE SettingsManagerProofs ------------------------
(***************************************************************************)
(* Proofs about the settings file, for every set of versions and any       *)
(* number of crashes.                                                      *)
(***************************************************************************)
EXTENDS SettingsManager, TLAPS

\* Every state of the settings file satisfies the inductive invariant.
THEOREM Invariance == Spec => []IInv
<1> USE VersionsAssumption, CrashesAssumption
<1>1. Init => IInv
  BY DEF Init, IInv, TypeOK, RepliesAreTrue, Contents, Loadable, storage
<1>2. IInv /\ [Next]_vars => IInv'
  <2> SUFFICES ASSUME IInv, [Next]_vars PROVE IInv'
    OBVIOUS
  <2> USE DEF IInv, TypeOK, RepliesAreTrue, Contents, Loadable, storage
  <2>1. CASE OpenManager
    BY <2>1 DEF OpenManager, Load
  <2>2. ASSUME NEW v \in Versions, Replace(v) PROVE IInv'
    BY <2>2 DEF Replace
  <2>3. CASE WriteTemp
    BY <2>3 DEF WriteTemp
  <2>4. CASE SyncTemp
    BY <2>4 DEF SyncTemp
  <2>5. CASE Rename
    BY <2>5 DEF Rename
  <2>6. CASE SyncDir
    BY <2>6 DEF SyncDir
  <2>7. CASE SaveFails
    BY <2>7 DEF SaveFails
  <2>8. CASE Crash
    BY <2>8 DEF Crash, Stop
  <2>9. CASE PowerLoss
    BY <2>9 DEF PowerLoss, Stop
  <2>10. CASE UNCHANGED vars
    BY <2>10 DEF vars
  <2> QED
    BY <2>1, <2>2, <2>3, <2>4, <2>5, <2>6, <2>7, <2>8, <2>9, <2>10 DEF Next
<1> QED
  BY <1>1, <1>2, PTL DEF Spec

\* What Replace reports is always what happened to the file.
THEOREM RepliesTrue == Spec => []RepliesAreTrue
<1>1. IInv => RepliesAreTrue
  BY DEF IInv
<1> QED
  BY <1>1, Invariance, PTL

\* No step, and no loss of power, turns a settings file that a daemon can load
\* into one that it cannot.
THEOREM StaysLoadable == Spec => StartsAgain
<1>1. IInv /\ [Next]_vars => [Loadable(file) => Loadable(file')]_vars
  <2> SUFFICES ASSUME IInv, Next, Loadable(file) PROVE Loadable(file')
    OBVIOUS
  <2>1. CASE Rename
    BY <2>1 DEF Rename, IInv, Loadable
  <2>2. CASE PowerLoss
    BY <2>2 DEF PowerLoss, IInv
  <2>3. CASE ~Rename /\ ~PowerLoss
    <3>1. UNCHANGED file
      BY <2>3 DEF Next, OpenManager, Replace, WriteTemp, SyncTemp, SyncDir, SaveFails, Crash, storage
    <3> QED
      BY <3>1 DEF Loadable
  <2> QED
    BY <2>1, <2>2, <2>3
<1> QED
  BY <1>1, Invariance, PTL DEF Spec, StartsAgain
==============================================================================
