----------------------------- MODULE AlertKinds -----------------------------
(* The contents an alert can have, and which operation takes which of them. *)
CONSTANTS
  Targets,    \* alert names
  Messages,   \* managed contents
  Legacy,     \* contents AAMM-NG did not render
  Big,        \* a content that is too large
  Unsafe,     \* no regular file
  Absent      \* no alert

Contents == Messages \cup Legacy \cup {Big, Unsafe, Absent}
Destructive == {"convert", "delete"}
Mutating == {"create", "write"} \cup Destructive

KindOf(c) ==
  CASE c \in Messages -> "managed"
    [] c \in Legacy   -> "legacy"
    [] c = Big        -> "oversized"
    [] c = Unsafe     -> "unsafe"
    [] OTHER          -> "not_found"

\* Mutant: Write takes a file it did not render.
TakesLegacy(kind) ==
  CASE kind = "create"  -> {"not_found"}
    [] kind = "write"   -> {"managed", "legacy", "not_found"}
    [] kind = "convert" -> {"legacy"}
    [] kind = "delete"  -> {"managed", "legacy"}
    [] OTHER            -> {}

\* What an operation takes as it finds it.
Takes(kind) ==
  CASE kind = "create"  -> {"not_found"}
    [] kind = "write"   -> {"managed", "not_found"}
    [] kind = "convert" -> {"legacy"}
    [] kind = "delete"  -> {"managed", "legacy"}
    [] OTHER            -> {}
=============================================================================
