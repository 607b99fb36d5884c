------------------------------ MODULE Enrolment ------------------------------
(***************************************************************************)
(* Agents and the bootstrap tokens they register with: the tables agents   *)
(* and bootstrap_tokens, the registration of an agent (admin/service.rs    *)
(* register_agent), the rotation of its secret (repo/agent.rs rotate), and *)
(* the triggers of migration 0009, which withdraw grants when the          *)
(* connection they were reviewed for is deleted or replaced.               *)
(*                                                                         *)
(* Every step is one SQL statement.  A grant is the name of a connection   *)
(* together with the epoch of the connection the operator saw when the     *)
(* grant was made; the code stores only the name.  Secrets are numbers.    *)
(***************************************************************************)
EXTENDS Naturals, Sequences, Functions, FiniteSetsExt

CONSTANTS Name,         \* names agents may have; UNIQUE, never freed
          Token,        \* public ids of bootstrap tokens
          Conn,         \* names of HTTP connections (tools and models)
          Caller,       \* concurrent register and rotate calls
          Expiry,       \* expires_at values of tokens, or None
          Faults,       \* which of "cancel", "db" may happen
          MaxTime,      \* bound: the clock stops here
          MaxRotations, \* bound: rotations in all
          MaxEpoch,     \* bound: replacements of one connection
          None

ASSUME BoundsAssumption ==
    /\ MaxTime \in Nat /\ MaxRotations \in Nat /\ MaxEpoch \in Nat
    /\ Expiry \subseteq Nat \cup {None}
    /\ None \notin Nat

ASSUME NamesAssumption ==
    None \notin Name \cup Token \cup Conn

VARIABLES now,
          reg,          \* reg[c]: "absent", "enabled" or "disabled"
          epoch,        \* epoch[c]: how often c was created or redirected
          agents,       \* agents[n]: the row of that name, or None
          tokens,       \* tokens[t]: the row of that token, or None
          pc, job       \* where each call is, and its local variables

vars == <<now, reg, epoch, agents, tokens, pc, job>>

-----------------------------------------------------------------------------
(***************************************************************************)
(* State.                                                                  *)
(***************************************************************************)

Grant == [conn : Conn, epoch : Nat]

\* An agent's secrets are numbered from 1: replaced[i] is the one that secret
\* i + 1 replaced.  first: what became of the first; "lost" when a fault ended
\* the registration.  The code keeps only the hash of the last one.
AgentRow ==
    [replaced : Seq(Nat), allow : SUBSET Grant, revoked : BOOLEAN,
     from : Token \cup {None}, first : {"pending", "handed", "lost"}]

\* spent: used_at or revoked_at is set.  The difference is only audited.
TokenRow ==
    [scope : SUBSET Grant, exp : Nat \cup {None}, single : BOOLEAN,
     spent : BOOLEAN]

\* No row is the absence of one.
ASSUME RowsAssumption == None \notin AgentRow \cup TokenRow

Job == [name : Name \cup {None}, token : Token \cup {None},
        preview : SUBSET Grant, snap : SUBSET Conn, secret : Nat]

NoJob == [name |-> None, token |-> None, preview |-> {}, snap |-> {},
          secret |-> 0]

\* The control points between the agent's row and the end of the registration.
Registering == {"fetch", "verify", "consume", "undo", "return"}

PC == Registering \cup {"idle", "create", "swap"}

\* The seed's connections are there before anyone enrols.
Init ==
    /\ now = 0
    /\ reg = [c \in Conn |-> "enabled"]
    /\ epoch = [c \in Conn |-> 0]
    /\ agents = [n \in Name |-> None]
    /\ tokens = [t \in Token |-> None]
    /\ pc = [w \in Caller |-> "idle"]
    /\ job = [w \in Caller |-> NoJob]

Conns(G) == {g.conn : g \in G}

\* What the operator sees now.
Reviewed(C) == {[conn |-> c, epoch |-> epoch[c]] : c \in C}

\* NOT EXISTS (a name without an enabled registration)
AllEnabled(C) == \A c \in C : reg[c] = "enabled"

\* The triggers take a name out of every allowlist and every scope.
Without(G, c) == {g \in G : g.conn # c}

Prune(c) ==
    /\ agents' = [n \in Name |->
                    IF agents[n] = None THEN None
                    ELSE [agents[n] EXCEPT !.allow = Without(@, c)]]
    /\ tokens' = [t \in Token |->
                    IF tokens[t] = None THEN None
                    ELSE [tokens[t] EXCEPT !.scope = Without(@, c)]]

Active(n) == agents[n] # None /\ ~agents[n].revoked

\* The current secret
Secret(n) == Len(agents[n].replaced) + 1

Rotations == MapThenSumSet(LAMBDA n : IF agents[n] = None THEN 0 ELSE Len(agents[n].replaced),
                           Name)

\* The agent's credential has reached its caller.
Handed(n) == agents[n].first = "handed"

Goto(w, l) == pc' = [pc EXCEPT ![w] = l]

\* What is left of the call's locals once the token was consumed or refused.
KeepName(w) == job' = [job EXCEPT ![w] = [NoJob EXCEPT !.name = job[w].name]]

\* The call returns.
Done(w) == Goto(w, "idle") /\ job' = [job EXCEPT ![w] = NoJob]

-----------------------------------------------------------------------------
(***************************************************************************)
(* Connections, as far as grants depend on them.                           *)
(***************************************************************************)

\* op_put of a new name, or of another upstream or egress for an old one.
Replace(c) ==
    /\ epoch[c] < MaxEpoch
    /\ epoch' = [epoch EXCEPT ![c] = @ + 1]
    /\ reg' = [reg EXCEPT ![c] = IF @ = "absent" THEN "enabled" ELSE @]
    /\ Prune(c)
    /\ UNCHANGED <<now, pc, job>>

\* op_delete of an operator's registration
Delete(c) ==
    /\ reg[c] # "absent"
    /\ reg' = [reg EXCEPT ![c] = "absent"]
    /\ Prune(c)
    /\ UNCHANGED <<now, epoch, pc, job>>

\* set_disabled keeps the grants.
SetDisabled(c, d) ==
    /\ reg[c] \in {"enabled", "disabled"} \ {d}
    /\ reg' = [reg EXCEPT ![c] = d]
    /\ UNCHANGED <<now, epoch, agents, tokens, pc, job>>

-----------------------------------------------------------------------------
(***************************************************************************)
(* The operator's calls.                                                   *)
(***************************************************************************)

\* mint_bootstrap_token
Mint(t, C, e, single) ==
    /\ tokens[t] = None
    /\ AllEnabled(C)
    /\ tokens' = [tokens EXCEPT ![t] =
                    [scope |-> Reviewed(C), exp |-> e, single |-> single,
                     spent |-> FALSE]]
    /\ UNCHANGED <<now, reg, epoch, agents, pc, job>>

RevokeToken(t) ==
    /\ tokens[t] # None
    /\ tokens' = [tokens EXCEPT ![t].spent = TRUE]
    /\ UNCHANGED <<now, reg, epoch, agents, pc, job>>

\* create_inner: one statement checks the grants and inserts the row.
Insert(n, G, from, first) ==
    agents' = [agents EXCEPT ![n] =
                 [replaced |-> <<>>, allow |-> G, revoked |-> FALSE,
                  from |-> from, first |-> first]]

\* create_agent_as_operator
CreateAgent(n, C) ==
    /\ agents[n] = None
    /\ AllEnabled(C)
    /\ Insert(n, Reviewed(C), None, "handed")
    /\ UNCHANGED <<now, reg, epoch, tokens, pc, job>>

\* modify_agent with an allowlist; revoked agents are not excepted.
ModifyAgent(n, C) ==
    /\ agents[n] # None
    /\ AllEnabled(C)
    /\ agents' = [agents EXCEPT ![n].allow = Reviewed(C)]
    /\ UNCHANGED <<now, reg, epoch, tokens, pc, job>>

\* revoke_agent, and deregister_agent by the agent itself
RevokeAgent(n) ==
    /\ Active(n)
    /\ agents' = [agents EXCEPT ![n].revoked = TRUE]
    /\ UNCHANGED <<now, reg, epoch, tokens, pc, job>>

-----------------------------------------------------------------------------
(***************************************************************************)
(* register_agent: preview, create, fetch, verify, consume, return.        *)
(***************************************************************************)

\* The token is there and was neither used nor revoked.
Unspent(t) == tokens[t] # None /\ ~tokens[t].spent

\* Both reads of the token take one that expires this second for valid.
NotExpired(t) == tokens[t].exp # None => tokens[t].exp >= now

\* InvalidBootstrap.  Diagnosing it reads the token once more, for the audit row.
Invalid(w) == Done(w)

\* preview_scope
Register(w, t, n) ==
    /\ pc[w] = "idle"
    /\ \/ /\ Unspent(t) /\ NotExpired(t)
          /\ job' = [job EXCEPT ![w] = [NoJob EXCEPT !.name = n, !.token = t,
                                        !.preview = tokens[t].scope]]
          /\ Goto(w, "create")
       \/ /\ tokens[t] # None
          /\ ~(Unspent(t) /\ NotExpired(t))
          /\ Invalid(w)
    /\ UNCHANGED <<now, reg, epoch, agents, tokens>>

\* create_reviewed with the previewed scope: 400, 409 or a new row.
Create(w) ==
    LET j == job[w] IN
    /\ pc[w] = "create"
    /\ \/ /\ agents[j.name] = None
          /\ AllEnabled(Conns(j.preview))
          /\ Insert(j.name, j.preview, j.token, "pending")
          /\ Goto(w, "fetch") /\ UNCHANGED job
       \/ /\ agents[j.name] # None \/ ~AllEnabled(Conns(j.preview))
          /\ Done(w)
          /\ UNCHANGED agents
    /\ UNCHANGED <<now, reg, epoch, tokens>>

\* get_active_by_public_id; an agent revoked meanwhile is not found.
Fetch(w) ==
    /\ pc[w] = "fetch"
    /\ IF Active(job[w].name) THEN Goto(w, "verify") /\ UNCHANGED job ELSE Done(w)
    /\ UNCHANGED <<now, reg, epoch, agents, tokens>>

\* Mutant: a token that fails verification leaves the agent as it is.
VerifyNoUndo(w) ==
    LET t == job[w].token IN
    /\ pc[w] = "verify"
    /\ \/ /\ Unspent(t) /\ NotExpired(t)
          /\ job' = [job EXCEPT ![w].snap = Conns(tokens[t].scope)]
          /\ Goto(w, "consume")
       \/ Invalid(w)
    /\ UNCHANGED <<now, reg, epoch, agents, tokens>>

\* consume: the first read, and the verification of the secret, which the
\* caller may not know: a good token may be refused too.
Verify(w) ==
    LET t == job[w].token IN
    /\ pc[w] = "verify"
    /\ \/ /\ Unspent(t) /\ NotExpired(t)
          /\ job' = [job EXCEPT ![w].snap = Conns(tokens[t].scope)]
          /\ Goto(w, "consume")
       \/ Goto(w, "undo") /\ KeepName(w)
    /\ UNCHANGED <<now, reg, epoch, agents, tokens>>

\* Mutant: the UPDATE does not ask whether the token was used meanwhile.
ConsumableUsed(t, snap) == Conns(tokens[t].scope) = snap

\* The committing UPDATE's WHERE clause.  Expiry is strict here.
Consumable(t, snap) ==
    /\ Unspent(t)
    /\ Conns(tokens[t].scope) = snap
    /\ tokens[t].exp # None => tokens[t].exp > now

\* Mutant: the consumed scope is not compared with the preview.
AnyScope(w) == w \in Caller

\* Ok(scope) if scope == scope_preview
SameScope(w) == job[w].snap = Conns(job[w].preview)

\* consume: the UPDATE, then the comparison with the preview.
Consume(w) ==
    LET t == job[w].token IN
    /\ pc[w] = "consume"
    /\ \/ /\ Consumable(t, job[w].snap)
          /\ tokens' = [tokens EXCEPT ![t].spent = tokens[t].single]
          /\ Goto(w, IF SameScope(w) THEN "return" ELSE "undo")
       \/ /\ ~Consumable(t, job[w].snap)
          /\ Goto(w, "undo")
          /\ UNCHANGED tokens
    /\ KeepName(w)
    /\ UNCHANGED <<now, reg, epoch, agents>>

\* A fault ends the registration after the agent was inserted.
Interrupt(w) ==
    agents' = IF pc[w] \in Registering
              THEN [agents EXCEPT ![job[w].name].first = "lost"]
              ELSE agents

\* The agent is revoked again; an error is dropped.
Undo(w) ==
    /\ pc[w] = "undo"
    /\ \/ agents' = [agents EXCEPT ![job[w].name].revoked = TRUE]
       \/ "db" \in Faults /\ Interrupt(w)
    /\ Invalid(w)
    /\ UNCHANGED <<now, reg, epoch, tokens>>

\* The secret reaches the caller.
Return(w) ==
    /\ pc[w] = "return"
    /\ agents' = [agents EXCEPT ![job[w].name].first = "handed"]
    /\ Done(w)
    /\ UNCHANGED <<now, reg, epoch, tokens>>

\* A statement fails: up to fetch the call ends where it is, then it undoes.
DbError(w) ==
    /\ "db" \in Faults
    /\ \/ pc[w] \in {"create", "fetch", "swap"} /\ Interrupt(w) /\ Done(w)
       \/ /\ pc[w] \in {"verify", "consume"}
          /\ Goto(w, "undo") /\ KeepName(w)
          /\ UNCHANGED agents
    /\ UNCHANGED <<now, reg, epoch, tokens>>

-----------------------------------------------------------------------------
(***************************************************************************)
(* rotate: read and verify, then compare-and-swap.                         *)
(***************************************************************************)

\* An agent presents its current secret.
StartRotate(w, n) ==
    /\ pc[w] = "idle"
    /\ Active(n) /\ Handed(n)
    /\ job' = [job EXCEPT ![w] = [NoJob EXCEPT !.name = n,
                                               !.secret = Secret(n)]]
    /\ Goto(w, "swap")
    /\ UNCHANGED <<now, reg, epoch, agents, tokens>>

\* Mutants: the swap does not compare the hash; it does not ask for revoked_at.
SwappableActive(n, s) == Active(n)

SwappableRevoked(n, s) == Secret(n) = s

Swappable(n, s) == Active(n) /\ Secret(n) = s

Swap(w) ==
    LET n == job[w].name
        s == job[w].secret IN
    /\ pc[w] = "swap"
    /\ \/ /\ Swappable(n, s)
          /\ Rotations < MaxRotations
          /\ agents' = [agents EXCEPT ![n].replaced = Append(@, s)]
       \/ /\ ~Swappable(n, s)
          /\ UNCHANGED <<agents>>
    /\ Done(w)
    /\ UNCHANGED <<now, reg, epoch, tokens>>

-----------------------------------------------------------------------------

\* The handler is dropped at an await, or the daemon stops there.
Cancel(w) ==
    /\ "cancel" \in Faults
    /\ pc[w] # "idle"
    /\ Interrupt(w)
    /\ Done(w)
    /\ UNCHANGED <<now, reg, epoch, tokens>>

Advance ==
    /\ now < MaxTime
    /\ now' = now + 1
    /\ UNCHANGED <<reg, epoch, agents, tokens, pc, job>>

Operate ==
    \/ \E c \in Conn : Replace(c) \/ Delete(c)
    \/ \E c \in Conn, d \in {"enabled", "disabled"} : SetDisabled(c, d)
    \/ \E t \in Token, C \in SUBSET Conn, e \in Expiry, single \in BOOLEAN :
         Mint(t, C, e, single)
    \/ \E t \in Token : RevokeToken(t)
    \/ \E n \in Name, C \in SUBSET Conn : CreateAgent(n, C) \/ ModifyAgent(n, C)
    \/ \E n \in Name : RevokeAgent(n)

Call(w) ==
    \/ \E t \in Token, n \in Name : Register(w, t, n)
    \/ \E n \in Name : StartRotate(w, n)
    \/ Create(w) \/ Fetch(w) \/ Verify(w) \/ Consume(w) \/ Undo(w) \/ Return(w)
    \/ Swap(w) \/ DbError(w) \/ Cancel(w)

Next == Operate \/ (\E w \in Caller : Call(w)) \/ Advance

Spec == Init /\ [][Next]_vars

-----------------------------------------------------------------------------
(***************************************************************************)
(* Properties.                                                             *)
(***************************************************************************)

TypeOK ==
    /\ now \in Nat
    /\ reg \in [Conn -> {"absent", "enabled", "disabled"}]
    /\ epoch \in [Conn -> Nat]
    /\ agents \in [Name -> AgentRow \cup {None}]
    /\ tokens \in [Token -> TokenRow \cup {None}]
    /\ pc \in [Caller -> PC]
    /\ job \in [Caller -> Job]

Stale(g) == reg[g.conn] = "absent" \/ g.epoch # epoch[g.conn]

\* An agent that holds its credential is never authorised for a connection the
\* operator did not review for it: not when the connection was deleted,
\* re-created or redirected while the agent was registering from a preview of
\* the token's scope (register_agent_inner, the triggers of migration 0009).  The
\* lists the triggers rewrite remain lists of grants (TypeOK).
GrantsAreReviewed ==
    /\ TypeOK
    /\ \A n \in Name :
         Active(n) /\ Handed(n) => \A g \in agents[n].allow : ~Stale(g)

\* The agents a token's credential was handed out for.
Enrolled(t) ==
    {n \in Name : agents[n] # None /\ agents[n].from = t /\ Handed(n)}

\* A single-use token yields at most one credential, however many calls race,
\* are cancelled or find their cleanup failing (consume).
SingleUse ==
    \A t \in Token :
        tokens[t] # None /\ tokens[t].single => \A n, m \in Enrolled(t) : n = m

\* A refused registration leaves no active agent behind: an active agent from a
\* token is being registered, has got its credential, or lost it to a fault
\* that ended its own registration (the cleanup in register_agent_inner).
NoStrayAgent ==
    \A n \in Name :
        Active(n) /\ agents[n].from # None /\ agents[n].first = "pending" =>
            \E w \in Caller : pc[w] \in Registering /\ job[w].name = n

\* Rotation is first committer wins: of the calls that present one secret at
\* most one succeeds, so the secrets of an agent form a chain (rotate).
RotationIsAChain ==
    \A n \in Name :
        agents[n] # None => IsInjective(agents[n].replaced)

\* Revocation is final, and wins against a rotation that read the row before:
\* a revoked agent stays revoked and gets no new secret (revoke, rotate).
Frozen ==
    \A n \in Name :
        agents[n] # None /\ agents[n].revoked =>
            /\ agents'[n] # None
            /\ agents'[n].revoked
            /\ agents'[n].replaced = agents[n].replaced

RevokedIsFrozen == [][Frozen]_vars
=============================================================================
