--------------------------- MODULE MCOpReferences ---------------------------
(***************************************************************************)
(* OpReferences on small instances.                                        *)
(***************************************************************************)
EXTENDS OpReferences, TLC

Symmetry == Permutations(Caller) \cup Permutations(Ref)
=============================================================================
