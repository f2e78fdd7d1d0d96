--------------------------- MODULE MCControlSocket ---------------------------
(* Three daemons and one path, for TLC. *)
EXTENDS ControlSocket, TLC

Symmetry == Permutations(Daemons)
==============================================================================
