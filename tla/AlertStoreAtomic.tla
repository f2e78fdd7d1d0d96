-------------------------- MODULE AlertStoreAtomic --------------------------
(***************************************************************************)
(* The alert store implements AtomicAlerts: the place in the code, the     *)
(* temporary files and the backup directory disappear, and what is left of *)
(* an operation is one step.                                               *)
(***************************************************************************)
EXTENDS AlertStore

\* An entry without what only the store looks at.
Body(e) == IF e = Absent THEN Absent ELSE e.body

\* What readers find, and what a loss of power may leave.
Content == [t \in Targets |-> Body(alerts[t])]
Durable == [t \in Targets |-> {Body(e) : e \in aDisk[t]}]

\* The operation's own backup counts from the moment it destroys its source.
Saved == IF committed /\ call.kind \in {"convert", "delete"} THEN bDisk[bname] ELSE {}

\* What the place in the code says about the effect.
Phase == IF pc = "idle" THEN "idle" ELSE IF committed THEN "applied" ELSE "pending"

Abstract == INSTANCE AtomicAlerts WITH
  content   <- Content,
  durable   <- Durable,
  saved     <- Saved,
  op        <- call,
  phase     <- Phase,
  result    <- reply,
  disturbed <- raced

\* Whatever the file operations, the crashes and the losses of power, callers
\* see operations that take effect at once or not at all, archive what they
\* destroy in the same step, and answer truthfully (createManagedExclusive,
\* writeManagedChecked, ConvertLegacy, Delete, backupAlert).
OperationsAreAtomic == Abstract!Spec
=============================================================================
