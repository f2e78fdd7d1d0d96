---------------------------- MODULE AtomicAlerts ----------------------------
(***************************************************************************)
(* What the alert store promises its callers (the documented behaviour of  *)
(* Store.Create, Write, ConvertLegacy, Delete and Read), without saying    *)
(* how: an operation takes effect in one step or not at all, the step      *)
(* archives what it destroys, a success is durable, and a refusal is true  *)
(* of the alert at the moment it is given.  Only an outside writer that    *)
(* touches the target while the operation is under way (disturbed) makes   *)
(* the promise weaker.                                                     *)
(***************************************************************************)
EXTENDS AlertKinds

VARIABLES
  content,    \* target -> what every reader finds
  durable,    \* target -> the contents that a loss of power may leave
  saved,      \* what a loss of power may leave of the last archived content
  op,         \* the operation under way, or the last one
  phase,      \* it is "pending", has been "applied", or is over ("idle")
  result,     \* its answer
  disturbed   \* an outside writer touched its target since it looked

vars == <<content, durable, saved, op, phase, result, disturbed>>

Acceptable == KindOf(content[op.target]) \in Takes(op.kind)

Init ==
  /\ content \in [Targets -> Contents]
  /\ durable = [t \in Targets |-> {content[t]}]
  /\ saved = {}
  /\ op = [kind |-> "none", target |-> Absent, msg |-> Absent]
  /\ phase = "idle"
  /\ result = "none"
  /\ disturbed = FALSE

\* An operation begins; a closed store answers at once.
Begin(kind, t, m) ==
  /\ phase = "idle"
  /\ op' = [kind |-> kind, target |-> t, msg |-> m]
  /\ saved' = {}
  /\ disturbed' = FALSE
  /\ \/ phase' = "pending" /\ result' = "none"
     \/ phase' = "idle" /\ result' = "closed"
  /\ UNCHANGED <<content, durable>>

\* The operation looks at its target again and accepts it.
Look ==
  /\ phase = "pending"
  /\ Acceptable
  /\ disturbed' = FALSE
  /\ UNCHANGED <<content, durable, saved, op, phase, result>>

\* The one step in which the operation takes effect.  A creation finds the
\* name free in this very step; the others may rely on their last look.
Apply ==
  /\ phase = "pending"
  /\ op.kind \in Mutating
  /\ Acceptable \/ (disturbed /\ op.kind # "create")
  /\ content' = [content EXCEPT ![op.target] = op.msg]
  /\ durable' = [durable EXCEPT ![op.target] = @ \cup {op.msg}]
  /\ \/ op.kind \notin Destructive /\ saved' = {}
     \/ op.kind \in Destructive /\ ~disturbed /\ saved' = {content[op.target]}
     \/ op.kind \in Destructive /\ disturbed /\ \E c \in Contents : saved' = {c}
  /\ disturbed' = (disturbed /\ op.kind # "create")
  /\ phase' = "applied"
  /\ UNCHANGED <<op, result>>

\* Success: what was applied is durable.
Succeed ==
  /\ phase = "applied"
  /\ durable' = [t \in Targets |-> {content[t]}]
  /\ phase' = "idle"
  /\ result' = "ok"
  /\ UNCHANGED <<content, saved, op, disturbed>>

\* A refusal, or the answer to a Read.  Nothing was changed and the answer is
\* true, unless an outside writer is to blame for it.
Refuse(answer) ==
  /\ phase = "pending"
  /\ \/ answer = KindOf(content[op.target]) /\ ~Acceptable
     \/ answer = "already_exists" /\ op.kind = "create" /\ content[op.target] # Absent
     \/ answer \in {"source_changed", "oversized", "managed", "not_found"} /\ disturbed
  /\ phase' = "idle"
  /\ result' = answer
  /\ UNCHANGED <<content, durable, saved, op, disturbed>>

\* An error of the file system leaves open whether the operation was applied.
Fail(answer) ==
  /\ phase # "idle"
  /\ answer = "io_error" \/ (answer = "unsafe" /\ phase = "pending")
  /\ phase' = "idle"
  /\ result' = answer
  /\ UNCHANGED <<content, durable, saved, op, disturbed>>

\* Somebody else writes into the alert directory.
OutsideChange(t, c) ==
  /\ content' = [content EXCEPT ![t] = c]
  /\ durable' = [durable EXCEPT ![t] = @ \cup {c}]
  /\ disturbed' = (disturbed \/ t = op.target)
  /\ UNCHANGED <<saved, op, phase, result>>

\* The daemon is killed.
Crash == phase' = "idle" /\ UNCHANGED <<content, durable, saved, op, result, disturbed>>

\* The node loses power: what was not settled is settled now.
PowerLoss ==
  /\ phase' = "idle"
  /\ content' \in [Targets -> Contents]
  /\ \A t \in Targets : content'[t] \in durable[t]
  /\ durable' = [t \in Targets |-> {content'[t]}]
  /\ UNCHANGED <<saved, op, result, disturbed>>

Next ==
  \/ \E t \in Targets :
       \/ \E m \in Messages, kind \in {"create", "write", "convert"} : Begin(kind, t, m)
       \/ \E kind \in {"delete", "read"} : Begin(kind, t, Absent)
       \/ \E c \in Contents : OutsideChange(t, c)
  \/ Look \/ Apply \/ Succeed
  \/ \E answer \in {"managed", "legacy", "oversized", "unsafe", "not_found", "already_exists",
                    "source_changed", "io_error"} : Refuse(answer) \/ Fail(answer)
  \/ Crash \/ PowerLoss

Spec == Init /\ [][Next]_vars
=============================================================================
