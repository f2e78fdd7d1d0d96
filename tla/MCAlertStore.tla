---------------------------- MODULE MCAlertStore ----------------------------
(* Small alert directories for TLC. *)
EXTENDS AlertStoreAtomic, TLC

TwoNames == 1 .. 2
ThreeNames == 1 .. 3

Symmetry == Permutations(Targets) \cup Permutations(Legacy) \cup Permutations(Stamps)
=============================================================================
