------------------------------- MODULE Gateway -------------------------------
(***************************************************************************)
(* What the proxy promises about a request, whatever happens inside it: it *)
(* is passed on at most once, and only before its outcome is settled; the  *)
(* outcome fits what was done, is settled once, and is what the agent is   *)
(* answered with.  ProxyRequest implements this.                           *)
(***************************************************************************)
CONSTANTS Req           \* requests

VARIABLES phase,        \* phase[r]: where the request is
          told          \* told[r]: the outcome that is settled

vars == <<phase, told>>

\* Before the upstream is called, and after
Early == {"refused"}

Late == {"failed", "withheld", "relayed"}

Phase == {"idle", "open", "sent", "rejected", "gone"} \cup Early \cup Late

Pending == {"open", "sent"}

Init ==
    /\ phase = [r \in Req |-> "idle"]
    /\ told = [r \in Req |-> "nothing"]

Arrive(r) ==
    /\ phase[r] = "idle"
    /\ phase' = [phase EXCEPT ![r] = "open"]
    /\ UNCHANGED told

\* Not authenticated: no outcome of the proxy is settled.
Reject(r) ==
    /\ phase[r] = "open"
    /\ told[r] = "nothing"
    /\ phase' = [phase EXCEPT ![r] = "rejected"]
    /\ UNCHANGED told

\* The request, with a credential, goes to the upstream.
Send(r) ==
    /\ phase[r] = "open"
    /\ told[r] = "nothing"
    /\ phase' = [phase EXCEPT ![r] = "sent"]
    /\ UNCHANGED told

Tell(r, v) ==
    /\ told[r] = "nothing"
    /\ \/ phase[r] = "open" /\ v \in Early
       \/ phase[r] = "sent" /\ v \in Late
    /\ told' = [told EXCEPT ![r] = v]
    /\ UNCHANGED phase

Answer(r) ==
    /\ told[r] # "nothing"
    /\ phase[r] \in Pending
    /\ phase' = [phase EXCEPT ![r] = told[r]]
    /\ UNCHANGED told

\* The agent hangs up, or the daemon stops.
Abandon(R) ==
    /\ \A r \in R : phase[r] \in Pending
    /\ phase' = [r \in Req |-> IF r \in R THEN "gone" ELSE phase[r]]
    /\ UNCHANGED told

Next ==
    \/ \E r \in Req : Arrive(r) \/ Reject(r) \/ Send(r) \/ Answer(r)
    \/ \E r \in Req, v \in Early \cup Late : Tell(r, v)
    \/ \E R \in (SUBSET Req) \ {{}} : Abandon(R)

Spec == Init /\ [][Next]_vars
=============================================================================
