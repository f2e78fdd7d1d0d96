--------------------------- MODULE MCControlServer ---------------------------
(* A few connections to a daemon that is restarted once, for TLC. *)
EXTENDS ControlServer, TLC

Symmetry == Permutations(Calls)
==============================================================================
