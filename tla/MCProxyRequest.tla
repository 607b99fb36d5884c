--------------------------- MODULE MCProxyRequest ---------------------------
(***************************************************************************)
(* Instances of ProxyRequest for TLC.                                      *)
(***************************************************************************)
EXTENDS ProxyRequest, TLC

MCEvent == Req \X Decision

\* Two lines of one byte fill a file; a line of three is larger than one.
MCLineSize == [e \in MCEvent |-> IF e[2] = "error" THEN 3 ELSE 1]

Symmetry == Permutations(Req) \cup Permutations(Setting)
=============================================================================
