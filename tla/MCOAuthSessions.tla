-------------------------- MODULE MCOAuthSessions --------------------------
(***************************************************************************)
(* Instances of OAuthSessions for TLC.                                     *)
(***************************************************************************)
EXTENDS OAuthSessions, TLC

Symmetry == Permutations(Request) \cup Permutations(Operator)
=============================================================================
