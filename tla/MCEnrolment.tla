----------------------------- MODULE MCEnrolment -----------------------------
(***************************************************************************)
(* Enrolment on small instances.                                           *)
(***************************************************************************)
EXTENDS Enrolment, TLC

Symmetry == Permutations(Caller) \cup Permutations(Name)
=============================================================================
