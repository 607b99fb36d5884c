---------------------------- MODULE MCConnections ----------------------------
(***************************************************************************)
(* Connections on small instances.                                         *)
(***************************************************************************)
EXTENDS Connections, TLC

Symmetry == Permutations(Writer) \cup Permutations(Request)
=============================================================================
