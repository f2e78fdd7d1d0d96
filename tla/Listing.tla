------------------------------ MODULE Listing -------------------------------
(***************************************************************************)
(* Store.List: what the pages show of the alert directory.  A directory is *)
(* a function from file names to what readEntry finds under them.  Files   *)
(* come in the order of the directory and the sort is not a stable one, so *)
(* a listing is one of the orders that the comparisons allow.              *)
(*                                                                         *)
(* A file name is a stem (a number, for the order of the stems in lower    *)
(* case), its spelling (capital letters sort before the small ones of      *)
(* Canonical), and whether it ends in .txt.                                *)
(***************************************************************************)
EXTENDS Naturals, Sequences, SequencesExt, FiniteSets

CONSTANTS
  Stems,       \* the stems of file names
  Valid,       \* those that alerttarget.Parse takes
  Spellings,   \* numbers of the ways to spell a stem
  Canonical    \* the spelling in lower case

ASSUME NameAssumption == Stems \subseteq Nat /\ Spellings \subseteq Nat

FileNames == [stem : Stems, spelling : Spellings, txt : BOOLEAN]
Findings == {"entry", "unsafe", "failed"}

\* The body of the loop.
Classify(name, found) ==
  IF ~name.txt THEN "skipped"
  ELSE IF name.stem \notin Valid \/ name.spelling # Canonical THEN "malformed"
  ELSE found

Entries(dir) == {name \in DOMAIN dir : Classify(name, dir[name]) = "entry"}
Issues(dir) == {name \in DOMAIN dir : Classify(name, dir[name]) \in {"malformed", "unsafe", "failed"}}

\* Entries have the target of their file, in lower case.
EntryBefore(a, b) == a.stem <= b.stem

\* Mutant: issues are compared in lower case only.
IssueBeforeLower(a, b) == a.stem <= b.stem

\* Issues are compared in lower case, then as they are.
IssueBefore(a, b) == a.stem < b.stem \/ (a.stem = b.stem /\ a.spelling <= b.spelling)

\* The two calls of slices.SortFunc, which is not stable: any order in which no two stand the wrong way round.
SortedEntries(dir) ==
  {s \in SetToSeqs(Entries(dir)) : \A i, j \in DOMAIN s : i < j => EntryBefore(s[i], s[j])}

SortedIssues(dir) ==
  {s \in SetToSeqs(Issues(dir)) : \A i, j \in DOMAIN s : i < j => IssueBefore(s[i], s[j])}

Listings(dir) == SortedEntries(dir) \X SortedIssues(dir)

-----------------------------------------------------------------------------
(* Properties. *)

\* A listing has, once each, the alerts that Read would return, and every other
\* .txt file among its issues: a file whose name differs in case is not taken
\* for the alert of that target.
ListsWhatReads(dir) ==
  \A listing \in Listings(dir) :
    /\ \A t \in Valid :
         LET name == [stem |-> t, spelling |-> Canonical, txt |-> TRUE]
             readable == name \in DOMAIN dir /\ dir[name] = "entry" IN
         Cardinality({i \in DOMAIN listing[1] : listing[1][i].stem = t}) = IF readable THEN 1 ELSE 0
    /\ Len(listing[1]) + Len(listing[2]) = Cardinality({name \in DOMAIN dir : name.txt})

\* The comparisons leave one order: two listings of the same directory are equal.
ListsOneOrder(dir) == Cardinality(Listings(dir)) = 1
=============================================================================
