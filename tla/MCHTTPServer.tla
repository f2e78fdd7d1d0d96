---------------------------- MODULE MCHTTPServer ----------------------------
(* A few connections to a server with few slots, for TLC. *)
EXTENDS HTTPServer, TLC

Symmetry == Permutations(Conns)
=============================================================================
