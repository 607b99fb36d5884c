------------------------------ MODULE MCDaemon ------------------------------
(***************************************************************************)
(* Instances of Daemon for TLC.                                            *)
(***************************************************************************)
EXTENDS Daemon

CONSTANTS agent, https, audit

MCOrder == <<audit, agent, https>>

\* The agents' listener with or without mTLS; that of HTTPS likewise
MCKinds ==
    {k \in [Listener -> Kind] : /\ k[agent] \in {"graceful", "detached"}
                                /\ k[https] \in {"timed", "detached"}}

=============================================================================
