-------------------------- MODULE MCCredentialStore --------------------------
(***************************************************************************)
(* CredentialStore on a small instance: one registration and one agent     *)
(* that may override it, two concurrent calls, two sealed values.  Writers *)
(* are not symmetric: the run has a liveness property.                     *)
(***************************************************************************)
EXTENDS CredentialStore
=============================================================================
