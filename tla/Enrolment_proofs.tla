--------------------------- MODULE Enrolment_proofs ---------------------------
(***************************************************************************)
(* Proofs about Enrolment, for any names, tokens, connections and callers. *)
(*                                                                         *)
(* The inductive invariant: the types; Owned: whoever registers an agent   *)
(* is alone in it; NoStrayAgent; Current: a grant that went stale has left *)
(* the token's scope, and is in an allowlist only while the caller still   *)
(* compares the scope with its preview; Unique: a single-use token with a  *)
(* winner is spent; Chain: the i-th secret replaced is secret i.           *)
(***************************************************************************)
EXTENDS Enrolment, TLAPS

\* The token is still to be consumed.
Working == {"create", "fetch", "verify", "consume"}

Fresh(G) == \A g \in G : ~Stale(g)

\* A registration's agent and token are there, the agent is pending, and no one
\* else registers it; an agent's token stays.
Owned ==
    /\ \A w \in Caller :
         /\ pc[w] # "idle" => job[w].name \in Name
         /\ pc[w] \in Working =>
              job[w].token \in Token /\ tokens[job[w].token] # None
         /\ pc[w] \in Registering =>
              /\ agents[job[w].name] # None
              /\ agents[job[w].name].first = "pending"
              /\ pc[w] \in Working => agents[job[w].name].from = job[w].token
         /\ pc[w] = "swap" => agents[job[w].name] # None
    /\ \A v, w \in Caller :
         pc[v] \in Registering /\ pc[w] \in Registering /\ job[v].name = job[w].name
            => v = w
    /\ \A n \in Name :
         agents[n] # None /\ agents[n].from # None => tokens[agents[n].from] # None

Current ==
    /\ \A n \in Name : agents[n] # None /\ agents[n].first = "handed" => Fresh(agents[n].allow)
    /\ \A t \in Token : tokens[t] # None => Fresh(tokens[t].scope)
    /\ \A w \in Caller :
         /\ pc[w] \in Working =>
              \A g \in job[w].preview : Stale(g) => g.conn \notin Conns(tokens[job[w].token].scope)
         /\ pc[w] \in Working \ {"create"} =>
              \A g \in agents[job[w].name].allow : Stale(g) => g \in job[w].preview
         /\ pc[w] = "return" => Fresh(agents[job[w].name].allow)

\* The agent has its credential, or is about to get it.
Winner(n) ==
    /\ agents[n] # None
    /\ agents[n].first = "handed" \/ \E w \in Caller : pc[w] = "return" /\ job[w].name = n

Unique ==
    \A t \in Token : tokens[t] # None /\ tokens[t].single =>
        /\ \A n \in Name : Winner(n) /\ agents[n].from = t => tokens[t].spent
        /\ \A n, m \in Name :
             Winner(n) /\ Winner(m) /\ agents[n].from = t /\ agents[m].from = t => n = m

Chain ==
    \A n \in Name : agents[n] # None =>
        \A i \in DOMAIN agents[n].replaced : agents[n].replaced[i] = i

IInv == TypeOK /\ Owned /\ NoStrayAgent /\ Current /\ Unique /\ Chain

-----------------------------------------------------------------------------
(***************************************************************************)
(* What an update of one row, or of one call's locals, changes.            *)
(***************************************************************************)

\* An agent's row gets another allowlist.
LEMMA SetAllow ==
  ASSUME agents \in [Name -> AgentRow \cup {None}], NEW n \in Name, agents[n] # None,
         NEW G \in SUBSET Grant
  PROVE  LET r == [agents[n] EXCEPT !.allow = G] IN
         /\ r \in AgentRow /\ r.allow = G
         /\ r.replaced = agents[n].replaced /\ r.revoked = agents[n].revoked
         /\ r.from = agents[n].from /\ r.first = agents[n].first
<1>1. agents[n] \in AgentRow
  BY Zenon
<1> QED BY Zenon, <1>1 DEF AgentRow

\* An agent's row is revoked.
LEMMA SetRevoked ==
  ASSUME agents \in [Name -> AgentRow \cup {None}], NEW n \in Name, agents[n] # None
  PROVE  LET r == [agents[n] EXCEPT !.revoked = TRUE] IN
         /\ r \in AgentRow /\ r.revoked
         /\ r.replaced = agents[n].replaced /\ r.allow = agents[n].allow
         /\ r.from = agents[n].from /\ r.first = agents[n].first
<1>1. agents[n] \in AgentRow
  BY Zenon
<1> QED BY Zenon, <1>1 DEF AgentRow

\* It is known what became of an agent's first secret.
LEMMA SetFirst ==
  ASSUME agents \in [Name -> AgentRow \cup {None}], NEW n \in Name, agents[n] # None,
         NEW f \in {"handed", "lost"}
  PROVE  LET r == [agents[n] EXCEPT !.first = f] IN
         /\ r \in AgentRow /\ r.first = f
         /\ r.replaced = agents[n].replaced /\ r.allow = agents[n].allow
         /\ r.from = agents[n].from /\ r.revoked = agents[n].revoked
<1>1. agents[n] \in AgentRow
  BY Zenon
<1> QED BY Zenon, <1>1 DEF AgentRow

\* An agent's secret is replaced.
LEMMA SetReplaced ==
  ASSUME agents \in [Name -> AgentRow \cup {None}], NEW n \in Name, agents[n] # None,
         NEW s \in Nat
  PROVE  LET r == [agents[n] EXCEPT !.replaced = Append(@, s)] IN
         /\ r \in AgentRow /\ r.replaced = Append(agents[n].replaced, s)
         /\ r.first = agents[n].first /\ r.allow = agents[n].allow
         /\ r.from = agents[n].from /\ r.revoked = agents[n].revoked
<1>1. agents[n] \in AgentRow /\ agents[n].replaced \in Seq(Nat)
  BY Zenon DEF AgentRow
<1>2. Append(agents[n].replaced, s) \in Seq(Nat)
  BY <1>1
<1> QED BY Zenon, <1>1, <1>2 DEF AgentRow

\* A token is spent, or not yet.
LEMMA SetSpent ==
  ASSUME tokens \in [Token -> TokenRow \cup {None}], NEW t \in Token, tokens[t] # None,
         NEW b \in BOOLEAN
  PROVE  LET r == [tokens[t] EXCEPT !.spent = b] IN
         /\ r \in TokenRow /\ r.spent = b
         /\ r.scope = tokens[t].scope /\ r.exp = tokens[t].exp
         /\ r.single = tokens[t].single
<1>1. tokens[t] \in TokenRow
  BY Zenon
<1> QED BY Zenon, <1>1 DEF TokenRow

\* A token's scope shrinks.
LEMMA SetScope ==
  ASSUME tokens \in [Token -> TokenRow \cup {None}], NEW t \in Token, tokens[t] # None,
         NEW G \in SUBSET Grant
  PROVE  LET r == [tokens[t] EXCEPT !.scope = G] IN
         /\ r \in TokenRow /\ r.scope = G
         /\ r.spent = tokens[t].spent /\ r.exp = tokens[t].exp
         /\ r.single = tokens[t].single
<1>1. tokens[t] \in TokenRow
  BY Zenon
<1> QED BY Zenon, <1>1 DEF TokenRow

\* The locals of a call, as they are set up and changed.
LEMMA JobOf ==
  /\ NoJob \in Job
  /\ \A n \in Name, t \in Token, G \in SUBSET Grant :
       LET j == [NoJob EXCEPT !.name = n, !.token = t, !.preview = G] IN
       j \in Job /\ j.name = n /\ j.token = t /\ j.preview = G
  /\ \A n \in Name : LET j == [NoJob EXCEPT !.name = n] IN j \in Job /\ j.name = n
  /\ \A n \in Name, s \in Nat :
       LET j == [NoJob EXCEPT !.name = n, !.secret = s] IN
       j \in Job /\ j.name = n /\ j.secret = s
  /\ \A j \in Job, C \in SUBSET Conn :
       LET i == [j EXCEPT !.snap = C] IN
       /\ i \in Job /\ i.snap = C
       /\ i.name = j.name /\ i.token = j.token /\ i.preview = j.preview
       /\ i.secret = j.secret
<1>1. NoJob \in Job
  BY Zenon DEF NoJob, Job
<1>2. ASSUME NEW n \in Name, NEW t \in Token, NEW G \in SUBSET Grant
      PROVE  LET j == [NoJob EXCEPT !.name = n, !.token = t, !.preview = G] IN
             j \in Job /\ j.name = n /\ j.token = t /\ j.preview = G
  BY Zenon DEF NoJob, Job
<1>3. ASSUME NEW n \in Name
      PROVE  LET j == [NoJob EXCEPT !.name = n] IN j \in Job /\ j.name = n
  BY Zenon DEF NoJob, Job
<1>4. ASSUME NEW n \in Name, NEW s \in Nat
      PROVE  LET j == [NoJob EXCEPT !.name = n, !.secret = s] IN
             j \in Job /\ j.name = n /\ j.secret = s
  BY Zenon DEF NoJob, Job
<1>5. ASSUME NEW j \in Job, NEW C \in SUBSET Conn
      PROVE  LET i == [j EXCEPT !.snap = C] IN
             /\ i \in Job /\ i.snap = C
             /\ i.name = j.name /\ i.token = j.token /\ i.preview = j.preview
             /\ i.secret = j.secret
  BY Zenon DEF Job
<1> QED BY Zenon, <1>1, <1>2, <1>3, <1>4, <1>5

\* The triggers change allowlists and scopes, and nothing else of a row.
LEMMA PruneDoes ==
  ASSUME TypeOK, NEW c, Prune(c)
  PROVE  /\ agents' \in [Name -> AgentRow \cup {None}]
         /\ tokens' \in [Token -> TokenRow \cup {None}]
         /\ \A n \in Name :
              /\ agents[n] = None => agents'[n] = None
              /\ agents[n] # None =>
                   /\ agents'[n] # None
                   /\ agents'[n].allow = Without(agents[n].allow, c)
                   /\ agents'[n].replaced = agents[n].replaced
                   /\ agents'[n].revoked = agents[n].revoked
                   /\ agents'[n].from = agents[n].from
                   /\ agents'[n].first = agents[n].first
         /\ \A t \in Token :
              /\ tokens[t] = None => tokens'[t] = None
              /\ tokens[t] # None =>
                   /\ tokens'[t] # None
                   /\ tokens'[t].scope = Without(tokens[t].scope, c)
                   /\ tokens'[t].spent = tokens[t].spent
                   /\ tokens'[t].exp = tokens[t].exp
                   /\ tokens'[t].single = tokens[t].single
<1>a. agents \in [Name -> AgentRow \cup {None}] /\ tokens \in [Token -> TokenRow \cup {None}]
  BY Zenon DEF TypeOK
<1>1. ASSUME NEW n \in Name, agents[n] # None
      PROVE  /\ agents'[n] \in AgentRow
             /\ agents'[n].allow = Without(agents[n].allow, c)
             /\ agents'[n].replaced = agents[n].replaced
             /\ agents'[n].revoked = agents[n].revoked
             /\ agents'[n].from = agents[n].from
             /\ agents'[n].first = agents[n].first
  <2>1. Without(agents[n].allow, c) \in SUBSET Grant
    BY Zenon, <1>1 DEF TypeOK, AgentRow, Without
  <2>2. agents'[n] = [agents[n] EXCEPT !.allow = Without(agents[n].allow, c)]
    BY Zenon, <1>1 DEF Prune
  <2> QED BY <1>a, <1>1, <2>1, <2>2, SetAllow
<1>2. ASSUME NEW t \in Token, tokens[t] # None
      PROVE  /\ tokens'[t] \in TokenRow
             /\ tokens'[t].scope = Without(tokens[t].scope, c)
             /\ tokens'[t].spent = tokens[t].spent
             /\ tokens'[t].exp = tokens[t].exp
             /\ tokens'[t].single = tokens[t].single
  <2>1. Without(tokens[t].scope, c) \in SUBSET Grant
    BY Zenon, <1>2 DEF TypeOK, TokenRow, Without
  <2>2. tokens'[t] = [tokens[t] EXCEPT !.scope = Without(tokens[t].scope, c)]
    BY Zenon, <1>2 DEF Prune
  <2> QED BY <1>a, <1>2, <2>1, <2>2, SetScope
<1>3. /\ \A n \in Name : agents[n] = None => agents'[n] = None
      /\ \A t \in Token : tokens[t] = None => tokens'[t] = None
      /\ agents' = [n \in Name |-> agents'[n]]
      /\ tokens' = [t \in Token |-> tokens'[t]]
  BY Zenon DEF Prune
<1>4. agents' \in [Name -> AgentRow \cup {None}]
  BY Zenon, <1>1, <1>3
<1>5. tokens' \in [Token -> TokenRow \cup {None}]
  BY Zenon, <1>2, <1>3
<1> QED BY Zenon, <1>1, <1>2, <1>3, <1>4, <1>5, RowsAssumption

-----------------------------------------------------------------------------
(***************************************************************************)
(* What each step does, and that it keeps the types.                       *)
(***************************************************************************)

\* The other names' rows stay as they are.
Only(n) == \A m \in Name : m # n => agents'[m] = agents[m]

\* Agent n keeps its row; who registered it, and how far that came, is the same.
Keeps(n) ==
    /\ agents[n] # None /\ agents'[n] # None
    /\ agents'[n].from = agents[n].from /\ agents'[n].first = agents[n].first

\* The call goes on at l; the others stay where they are.
Moves(w, l) ==
    /\ pc'[w] = l
    /\ \A v \in Caller : v # w => pc'[v] = pc[v] /\ job'[v] = job[v]

\* One agent's row is replaced.
LEMMA Put ==
  ASSUME agents \in [Name -> AgentRow \cup {None}], NEW n \in Name, NEW r \in AgentRow,
         agents' = [agents EXCEPT ![n] = r]
  PROVE  /\ agents' \in [Name -> AgentRow \cup {None}]
         /\ agents'[n] = r /\ agents'[n] # None /\ Only(n)
  BY Zenon, RowsAssumption DEF Only

\* One token's row is replaced.
LEMMA PutToken ==
  ASSUME tokens \in [Token -> TokenRow \cup {None}], NEW t \in Token, NEW r \in TokenRow,
         tokens' = [tokens EXCEPT ![t] = r]
  PROVE  /\ tokens' \in [Token -> TokenRow \cup {None}]
         /\ tokens'[t] = r /\ tokens'[t] # None
         /\ \A u \in Token : u # t => tokens'[u] = tokens[u]
  BY Zenon, RowsAssumption

\* A call moves on, or returns.
LEMMA MoveDoes ==
  ASSUME TypeOK, NEW w \in Caller
  PROVE  /\ \A l \in PC, j \in Job :
              Goto(w, l) /\ job' = [job EXCEPT ![w] = j] =>
                /\ pc' \in [Caller -> PC] /\ job' \in [Caller -> Job]
                /\ Moves(w, l) /\ job'[w] = j
         /\ \A l \in PC :
              Goto(w, l) /\ job' = job =>
                pc' \in [Caller -> PC] /\ job' \in [Caller -> Job] /\ Moves(w, l)
         /\ Done(w) => /\ pc' \in [Caller -> PC] /\ job' \in [Caller -> Job]
                       /\ Moves(w, "idle") /\ job'[w] = NoJob
         /\ \A l \in PC :
              Goto(w, l) /\ KeepName(w) /\ job[w].name \in Name =>
                /\ pc' \in [Caller -> PC] /\ job' \in [Caller -> Job]
                /\ Moves(w, l) /\ job'[w].name = job[w].name
<1>a. pc \in [Caller -> PC] /\ job \in [Caller -> Job]
  BY Zenon DEF TypeOK
<1>1. ASSUME NEW l \in PC, NEW j \in Job, Goto(w, l), job' = [job EXCEPT ![w] = j]
      PROVE  /\ pc' \in [Caller -> PC] /\ job' \in [Caller -> Job]
             /\ Moves(w, l) /\ job'[w] = j
  BY Zenon, <1>a, <1>1 DEF Goto, Moves
<1>2. ASSUME NEW l \in PC, Goto(w, l), job' = job
      PROVE  pc' \in [Caller -> PC] /\ job' \in [Caller -> Job] /\ Moves(w, l)
  BY Zenon, <1>a, <1>2 DEF Goto, Moves
<1>3. Done(w) => /\ pc' \in [Caller -> PC] /\ job' \in [Caller -> Job]
                 /\ Moves(w, "idle") /\ job'[w] = NoJob
  BY Zenon, <1>1, JobOf DEF Done, PC
<1>4. ASSUME NEW l \in PC, Goto(w, l), KeepName(w), job[w].name \in Name
      PROVE  /\ pc' \in [Caller -> PC] /\ job' \in [Caller -> Job]
             /\ Moves(w, l) /\ job'[w].name = job[w].name
  BY <1>1, <1>4, JobOf DEF KeepName
<1> QED BY Zenon, <1>1, <1>2, <1>3, <1>4

\* A connection is replaced or deleted.
LEMMA ConnDoes ==
  ASSUME TypeOK, NEW c \in Conn, Replace(c) \/ Delete(c)
  PROVE  /\ TypeOK' /\ Prune(c) /\ UNCHANGED <<pc, job>>
         /\ \A d \in Conn : d # c => reg'[d] = reg[d] /\ epoch'[d] = epoch[d]
<1>1. Prune(c) /\ UNCHANGED <<now, pc, job>>
  BY Zenon DEF Replace, Delete
<1>2. reg' \in [Conn -> {"absent", "enabled", "disabled"}] /\ epoch' \in [Conn -> Nat]
  BY DEF Replace, Delete, TypeOK
<1>3. \A d \in Conn : d # c => reg'[d] = reg[d] /\ epoch'[d] = epoch[d]
  BY Zenon DEF Replace, Delete, TypeOK
<1> QED BY Zenon, <1>1, <1>2, <1>3, PruneDoes DEF TypeOK

\* Disabling and enabling keep the grants.
LEMMA SetDisabledDoes ==
  ASSUME TypeOK, NEW c \in Conn, NEW d \in {"enabled", "disabled"}, SetDisabled(c, d)
  PROVE  /\ TypeOK' /\ UNCHANGED <<agents, tokens, epoch, pc, job>>
         /\ \A k \in Conn : reg'[k] = "absent" <=> reg[k] = "absent"
<1>1. UNCHANGED <<now, agents, tokens, epoch, pc, job>>
  BY Zenon DEF SetDisabled
<1>2. reg' \in [Conn -> {"absent", "enabled", "disabled"}]
  BY Zenon DEF SetDisabled, TypeOK
<1>3. \A k \in Conn : reg'[k] = "absent" <=> reg[k] = "absent"
  BY Zenon DEF SetDisabled, TypeOK
<1> QED BY Zenon, <1>1, <1>2, <1>3 DEF TypeOK

\* What the operator sees are grants of connections that are there.
LEMMA ReviewedIsFresh ==
  ASSUME TypeOK, NEW C \in SUBSET Conn, AllEnabled(C)
  PROVE  Reviewed(C) \in SUBSET Grant /\ Fresh(Reviewed(C))
  BY DEF TypeOK, Reviewed, Grant, Fresh, Stale, AllEnabled

\* A token is minted.
LEMMA MintDoes ==
  ASSUME TypeOK, NEW t \in Token, NEW C \in SUBSET Conn, NEW e \in Expiry,
         NEW single \in BOOLEAN, Mint(t, C, e, single)
  PROVE  /\ TypeOK' /\ UNCHANGED <<reg, epoch, agents, pc, job>>
         /\ tokens[t] = None /\ tokens'[t] # None /\ Fresh(tokens'[t].scope)
         /\ \A u \in Token : u # t => tokens'[u] = tokens[u]
<1> DEFINE r == [scope |-> Reviewed(C), exp |-> e, single |-> single, spent |-> FALSE]
<1>1. UNCHANGED <<now, reg, epoch, agents, pc, job>> /\ tokens[t] = None
      /\ tokens' = [tokens EXCEPT ![t] = r]
  BY Zenon DEF Mint
<1>2. r \in TokenRow /\ r.scope = Reviewed(C)
  BY Zenon, ReviewedIsFresh, BoundsAssumption DEF Mint, TokenRow
<1>3. Fresh(Reviewed(C))
  BY Zenon, ReviewedIsFresh DEF Mint
<1> HIDE DEF r
<1>4. tokens \in [Token -> TokenRow \cup {None}]
  BY Zenon DEF TypeOK
<1>5. /\ tokens' \in [Token -> TokenRow \cup {None}]
      /\ tokens'[t] = r /\ tokens'[t] # None
      /\ \A u \in Token : u # t => tokens'[u] = tokens[u]
  BY Zenon, <1>1, <1>2, <1>4, PutToken
<1> QED BY Zenon, <1>1, <1>2, <1>3, <1>5 DEF TypeOK

\* A token's spent flag is written.
LEMMA SpentDoes ==
  ASSUME TypeOK, NEW t \in Token, tokens[t] # None, NEW b \in BOOLEAN,
         tokens' = [tokens EXCEPT ![t].spent = b]
  PROVE  /\ tokens' \in [Token -> TokenRow \cup {None}]
         /\ tokens'[t] # None /\ tokens'[t].spent = b
         /\ tokens'[t].scope = tokens[t].scope /\ tokens'[t].single = tokens[t].single
         /\ \A u \in Token : u # t => tokens'[u] = tokens[u]
<1> DEFINE r == [tokens[t] EXCEPT !.spent = b]
<1>1. tokens \in [Token -> TokenRow \cup {None}]
  BY Zenon DEF TypeOK
<1>2. /\ r \in TokenRow /\ r.spent = b
      /\ r.scope = tokens[t].scope /\ r.single = tokens[t].single
  BY Zenon, <1>1, SetSpent
<1>3. tokens' = [tokens EXCEPT ![t] = r]
  BY Zenon
<1> HIDE DEF r
<1> QED BY Zenon, <1>1, <1>2, <1>3, PutToken

\* An agent is inserted.
LEMMA InsertDoes ==
  ASSUME TypeOK, NEW n \in Name, NEW G \in SUBSET Grant, NEW from \in Token \cup {None},
         NEW first \in {"pending", "handed"}, Insert(n, G, from, first)
  PROVE  /\ agents' \in [Name -> AgentRow \cup {None}] /\ Only(n)
         /\ agents'[n] # None /\ agents'[n].allow = G /\ agents'[n].from = from
         /\ agents'[n].first = first /\ agents'[n].replaced = <<>>
<1> DEFINE r == [replaced |-> <<>>, allow |-> G, revoked |-> FALSE,
                 from |-> from, first |-> first]
<1>1. r \in AgentRow /\ r.allow = G /\ r.from = from /\ r.first = first
      /\ r.replaced = <<>>
  BY DEF AgentRow
<1>2. agents \in [Name -> AgentRow \cup {None}] /\ agents' = [agents EXCEPT ![n] = r]
  BY Zenon DEF TypeOK, Insert
<1> HIDE DEF r
<1> QED BY Zenon, <1>1, <1>2, Put

\* An agent gets another allowlist, is revoked, or its first secret is handed
\* out or lost, or its secret is replaced: nothing else of the row changes.
LEMMA RowDoes ==
  ASSUME TypeOK, NEW n \in Name, agents[n] # None
  PROVE  /\ \A G \in SUBSET Grant : agents' = [agents EXCEPT ![n].allow = G] =>
              /\ agents' \in [Name -> AgentRow \cup {None}] /\ Only(n) /\ Keeps(n)
              /\ agents'[n].allow = G /\ agents'[n].revoked = agents[n].revoked
              /\ agents'[n].replaced = agents[n].replaced
         /\ agents' = [agents EXCEPT ![n].revoked = TRUE] =>
              /\ agents' \in [Name -> AgentRow \cup {None}] /\ Only(n) /\ Keeps(n)
              /\ agents'[n].allow = agents[n].allow /\ agents'[n].revoked
              /\ agents'[n].replaced = agents[n].replaced
         /\ \A f \in {"handed", "lost"} : agents' = [agents EXCEPT ![n].first = f] =>
              /\ agents' \in [Name -> AgentRow \cup {None}] /\ Only(n)
              /\ agents'[n] # None
              /\ agents'[n].from = agents[n].from /\ agents'[n].first = f
              /\ agents'[n].allow = agents[n].allow
              /\ agents'[n].revoked = agents[n].revoked
              /\ agents'[n].replaced = agents[n].replaced
         /\ \A s \in Nat : agents' = [agents EXCEPT ![n].replaced = Append(@, s)] =>
              /\ agents' \in [Name -> AgentRow \cup {None}] /\ Only(n) /\ Keeps(n)
              /\ agents'[n].allow = agents[n].allow
              /\ agents'[n].revoked = agents[n].revoked
              /\ agents'[n].replaced = Append(agents[n].replaced, s)
<1>a. agents \in [Name -> AgentRow \cup {None}]
  BY Zenon DEF TypeOK
<1>1. ASSUME NEW G \in SUBSET Grant, agents' = [agents EXCEPT ![n].allow = G]
      PROVE  /\ agents' \in [Name -> AgentRow \cup {None}] /\ Only(n) /\ Keeps(n)
             /\ agents'[n].allow = G /\ agents'[n].revoked = agents[n].revoked
             /\ agents'[n].replaced = agents[n].replaced
  <2> DEFINE r == [agents[n] EXCEPT !.allow = G]
  <2>1. agents' = [agents EXCEPT ![n] = r]
    BY Zenon, <1>1
  <2>2. /\ r \in AgentRow /\ r.allow = G
        /\ r.replaced = agents[n].replaced /\ r.revoked = agents[n].revoked
        /\ r.from = agents[n].from /\ r.first = agents[n].first
    BY Zenon, <1>a, SetAllow
  <2> HIDE DEF r
  <2> QED BY Zenon, <1>a, <2>1, <2>2, Put DEF Keeps
<1>2. ASSUME agents' = [agents EXCEPT ![n].revoked = TRUE]
      PROVE  /\ agents' \in [Name -> AgentRow \cup {None}] /\ Only(n) /\ Keeps(n)
             /\ agents'[n].allow = agents[n].allow /\ agents'[n].revoked
             /\ agents'[n].replaced = agents[n].replaced
  <2> DEFINE r == [agents[n] EXCEPT !.revoked = TRUE]
  <2>1. agents' = [agents EXCEPT ![n] = r]
    BY Zenon, <1>2
  <2>2. /\ r \in AgentRow /\ r.revoked
        /\ r.replaced = agents[n].replaced /\ r.allow = agents[n].allow
        /\ r.from = agents[n].from /\ r.first = agents[n].first
    BY Zenon, <1>a, SetRevoked
  <2> HIDE DEF r
  <2> QED BY Zenon, <1>a, <2>1, <2>2, Put DEF Keeps
<1>3. ASSUME NEW f \in {"handed", "lost"}, agents' = [agents EXCEPT ![n].first = f]
      PROVE  /\ agents' \in [Name -> AgentRow \cup {None}] /\ Only(n)
             /\ agents'[n] # None
             /\ agents'[n].from = agents[n].from /\ agents'[n].first = f
             /\ agents'[n].allow = agents[n].allow
             /\ agents'[n].revoked = agents[n].revoked
             /\ agents'[n].replaced = agents[n].replaced
  <2> DEFINE r == [agents[n] EXCEPT !.first = f]
  <2>1. agents' = [agents EXCEPT ![n] = r]
    BY Zenon, <1>3
  <2>2. /\ r \in AgentRow /\ r.first = f
        /\ r.replaced = agents[n].replaced /\ r.allow = agents[n].allow
        /\ r.from = agents[n].from /\ r.revoked = agents[n].revoked
    BY Zenon, <1>a, SetFirst
  <2> HIDE DEF r
  <2> QED BY Zenon, <1>a, <2>1, <2>2, Put
<1>4. ASSUME NEW s \in Nat, agents' = [agents EXCEPT ![n].replaced = Append(@, s)]
      PROVE  /\ agents' \in [Name -> AgentRow \cup {None}] /\ Only(n) /\ Keeps(n)
             /\ agents'[n].allow = agents[n].allow
             /\ agents'[n].revoked = agents[n].revoked
             /\ agents'[n].replaced = Append(agents[n].replaced, s)
  <2> DEFINE r == [agents[n] EXCEPT !.replaced = Append(@, s)]
  <2>1. agents' = [agents EXCEPT ![n] = r]
    BY Zenon, <1>4
  <2>2. /\ r \in AgentRow /\ r.replaced = Append(agents[n].replaced, s)
        /\ r.first = agents[n].first /\ r.allow = agents[n].allow
        /\ r.from = agents[n].from /\ r.revoked = agents[n].revoked
    BY Zenon, <1>a, SetReplaced
  <2> HIDE DEF r
  <2> QED BY Zenon, <1>a, <2>1, <2>2, Put DEF Keeps
<1> QED BY Zenon, <1>1, <1>2, <1>3, <1>4

\* The locals of a call that is under way.
LEMMA JobType ==
  ASSUME TypeOK, Owned, NEW w \in Caller
  PROVE  /\ pc[w] \in PC /\ job[w] \in Job
         /\ job[w].preview \in SUBSET Grant /\ job[w].snap \in SUBSET Conn
         /\ job[w].secret \in Nat
         /\ pc[w] # "idle" => job[w].name \in Name
         /\ pc[w] \in Working => job[w].token \in Token /\ tokens[job[w].token] # None
  BY Zenon DEF TypeOK, Job, Owned

\* A token's scope names connections.
LEMMA ScopeType ==
  ASSUME TypeOK, NEW t \in Token, tokens[t] # None
  PROVE  /\ tokens[t].scope \in SUBSET Grant /\ Conns(tokens[t].scope) \in SUBSET Conn
         /\ tokens[t].single \in BOOLEAN
  BY DEF TypeOK, TokenRow, Conns, Grant

\* A registration starts from a preview of the token's scope, or is refused.
LEMMA RegisterDoes ==
  ASSUME TypeOK, Owned, NEW w \in Caller, NEW t \in Token, NEW n \in Name, Register(w, t, n)
  PROVE  /\ TypeOK' /\ UNCHANGED <<reg, epoch, agents, tokens>> /\ pc[w] = "idle"
         /\ \/ Moves(w, "idle")
            \/ /\ Moves(w, "create") /\ tokens[t] # None
               /\ job'[w].name = n /\ job'[w].token = t /\ job'[w].preview = tokens[t].scope
<1>0. UNCHANGED <<now, reg, epoch, agents, tokens>> /\ pc[w] = "idle"
  BY Zenon DEF Register
<1>1. CASE Invalid(w)
  <2>1. pc' \in [Caller -> PC] /\ job' \in [Caller -> Job] /\ Moves(w, "idle")
    BY Zenon, <1>1, MoveDoes DEF Invalid
  <2> QED BY Zenon, <1>0, <2>1 DEF TypeOK
<1>2. CASE ~Invalid(w)
  <2> DEFINE j == [NoJob EXCEPT !.name = n, !.token = t, !.preview = tokens[t].scope]
  <2>1. Unspent(t) /\ job' = [job EXCEPT ![w] = j] /\ Goto(w, "create")
    BY Zenon, <1>2 DEF Register
  <2>2. tokens[t] # None /\ tokens[t].scope \in SUBSET Grant
    BY Zenon, <2>1, ScopeType DEF Unspent
  <2>3. j \in Job /\ j.name = n /\ j.token = t /\ j.preview = tokens[t].scope
    BY Zenon, <2>2 DEF NoJob, Job
  <2> HIDE DEF j
  <2>4. "create" \in PC
    BY Zenon DEF PC
  <2>5. /\ pc' \in [Caller -> PC] /\ job' \in [Caller -> Job]
        /\ Moves(w, "create") /\ job'[w] = j
    BY Zenon, <2>1, <2>3, <2>4, MoveDoes
  <2> QED BY Zenon, <1>0, <2>2, <2>3, <2>5 DEF TypeOK
<1> QED BY Zenon, <1>1, <1>2

\* The agent is inserted with the previewed scope, or the call is refused.
LEMMA CreateDoes ==
  ASSUME TypeOK, Owned, NEW w \in Caller, Create(w)
  PROVE  LET n == job[w].name IN
         /\ TypeOK' /\ UNCHANGED <<reg, epoch, tokens>> /\ pc[w] = "create"
         /\ \/ Moves(w, "idle") /\ UNCHANGED agents
            \/ /\ Moves(w, "fetch") /\ job' = job
               /\ agents[n] = None /\ Only(n) /\ agents'[n] # None
               /\ agents'[n].allow = job[w].preview /\ agents'[n].from = job[w].token
               /\ agents'[n].first = "pending" /\ agents'[n].replaced = <<>>
<1> DEFINE n == job[w].name
<1>0. UNCHANGED <<now, reg, epoch, tokens>> /\ pc[w] = "create"
  BY Zenon DEF Create
<1>a. n \in Name /\ job[w].preview \in SUBSET Grant /\ job[w].token \in Token
  BY Zenon, <1>0, JobType DEF Working
<1>1. CASE Done(w) /\ UNCHANGED agents
  <2>1. pc' \in [Caller -> PC] /\ job' \in [Caller -> Job] /\ Moves(w, "idle")
    BY Zenon, <1>1, MoveDoes
  <2> QED BY Zenon, <1>0, <1>1, <2>1 DEF TypeOK
<1>2. CASE ~(Done(w) /\ UNCHANGED agents)
  <2>1. /\ agents[n] = None /\ Insert(n, job[w].preview, job[w].token, "pending")
        /\ Goto(w, "fetch") /\ job' = job
    BY Zenon, <1>2 DEF Create
  <2>2. /\ agents' \in [Name -> AgentRow \cup {None}] /\ Only(n)
        /\ agents'[n] # None /\ agents'[n].allow = job[w].preview
        /\ agents'[n].from = job[w].token
        /\ agents'[n].first = "pending" /\ agents'[n].replaced = <<>>
    <3>1. Insert(n, job[w].preview, job[w].token, "pending")
          /\ job[w].token \in Token \cup {None} /\ "pending" \in {"pending", "handed"}
      BY Zenon, <1>a, <2>1
    <3> HIDE DEF n
    <3> QED BY Zenon, <1>a, <3>1, InsertDoes
  <2>3. "fetch" \in PC
    BY Zenon DEF PC, Registering
  <2>4. pc' \in [Caller -> PC] /\ job' \in [Caller -> Job] /\ Moves(w, "fetch")
    BY Zenon, <2>1, <2>3, MoveDoes
  <2> QED BY Zenon, <1>0, <2>1, <2>2, <2>4 DEF TypeOK
<1> QED BY Zenon, <1>1, <1>2

\* The row is read back.
LEMMA FetchDoes ==
  ASSUME TypeOK, Owned, NEW w \in Caller, Fetch(w)
  PROVE  /\ TypeOK' /\ UNCHANGED <<reg, epoch, agents, tokens>> /\ pc[w] = "fetch"
         /\ \/ Moves(w, "idle") /\ ~Active(job[w].name)
            \/ Moves(w, "verify") /\ job' = job
<1>0. UNCHANGED <<now, reg, epoch, agents, tokens>> /\ pc[w] = "fetch"
  BY Zenon DEF Fetch
<1>1. CASE Active(job[w].name)
  <2>1. Goto(w, "verify") /\ job' = job
    BY Zenon, <1>1 DEF Fetch
  <2>2. "verify" \in PC
    BY Zenon DEF PC, Registering
  <2>3. pc' \in [Caller -> PC] /\ job' \in [Caller -> Job] /\ Moves(w, "verify")
    BY Zenon, <2>1, <2>2, MoveDoes
  <2> QED BY Zenon, <1>0, <2>1, <2>3 DEF TypeOK
<1>2. CASE ~Active(job[w].name)
  <2>1. Done(w)
    BY Zenon, <1>2 DEF Fetch
  <2>2. pc' \in [Caller -> PC] /\ job' \in [Caller -> Job] /\ Moves(w, "idle")
    BY Zenon, <2>1, MoveDoes
  <2> QED BY Zenon, <1>0, <1>2, <2>2 DEF TypeOK
<1> QED BY Zenon, <1>1, <1>2

\* The token is verified and its scope read again, or the agent is undone.
LEMMA VerifyDoes ==
  ASSUME TypeOK, Owned, NEW w \in Caller, Verify(w)
  PROVE  /\ TypeOK' /\ UNCHANGED <<reg, epoch, agents, tokens>> /\ pc[w] = "verify"
         /\ job'[w].name = job[w].name
         /\ \/ Moves(w, "undo")
            \/ /\ Moves(w, "consume") /\ job'[w].token = job[w].token
               /\ job'[w].preview = job[w].preview
<1> DEFINE t == job[w].token
<1>0. UNCHANGED <<now, reg, epoch, agents, tokens>> /\ pc[w] = "verify"
  BY Zenon DEF Verify
<1>a. job[w] \in Job /\ job[w].name \in Name /\ t \in Token /\ tokens[t] # None
  BY Zenon, <1>0, JobType DEF Working
<1>b. "undo" \in PC /\ "consume" \in PC
  BY Zenon DEF PC, Registering
<1>1. CASE Goto(w, "undo") /\ KeepName(w)
  <2>1. /\ pc' \in [Caller -> PC] /\ job' \in [Caller -> Job]
        /\ Moves(w, "undo") /\ job'[w].name = job[w].name
    BY Zenon, <1>1, <1>a, <1>b, MoveDoes
  <2> QED BY Zenon, <1>0, <2>1 DEF TypeOK
<1>2. CASE ~(Goto(w, "undo") /\ KeepName(w))
  <2> DEFINE j == [job[w] EXCEPT !.snap = Conns(tokens[t].scope)]
  <2>1. job' = [job EXCEPT ![w] = j] /\ Goto(w, "consume")
    BY Zenon, <1>2 DEF Verify
  <2>2. Conns(tokens[t].scope) \in SUBSET Conn
    BY Zenon, <1>a, ScopeType
  <2>3. /\ j \in Job /\ j.name = job[w].name /\ j.token = job[w].token
        /\ j.preview = job[w].preview
    BY Zenon, <1>a, <2>2 DEF Job
  <2> HIDE DEF j
  <2>4. /\ pc' \in [Caller -> PC] /\ job' \in [Caller -> Job]
        /\ Moves(w, "consume") /\ job'[w] = j
    BY Zenon, <2>1, <2>3, <1>b, MoveDoes
  <2> QED BY Zenon, <1>0, <2>3, <2>4 DEF TypeOK
<1> QED BY Zenon, <1>1, <1>2

\* The token is consumed, and only its spent flag written: the call succeeds
\* when the scope it consumed is the one it previewed.
LEMMA ConsumeDoes ==
  ASSUME TypeOK, Owned, NEW w \in Caller, Consume(w)
  PROVE  LET t == job[w].token IN
         /\ TypeOK' /\ UNCHANGED <<reg, epoch, agents>> /\ pc[w] = "consume"
         /\ job'[w].name = job[w].name
         /\ \/ Moves(w, "undo") /\ UNCHANGED tokens
            \/ /\ Moves(w, "undo") \/ (Moves(w, "return") /\ SameScope(w))
               /\ Consumable(t, job[w].snap)
               /\ tokens'[t] # None /\ tokens'[t].spent = tokens[t].single
               /\ tokens'[t].scope = tokens[t].scope /\ tokens'[t].single = tokens[t].single
               /\ \A u \in Token : u # t => tokens'[u] = tokens[u]
<1> DEFINE t == job[w].token
<1>0. UNCHANGED <<now, reg, epoch, agents>> /\ pc[w] = "consume" /\ KeepName(w)
  BY Zenon DEF Consume
<1>a. job[w].name \in Name /\ t \in Token /\ tokens[t] # None
  BY Zenon, <1>0, JobType DEF Working
<1>b. "undo" \in PC /\ "return" \in PC
  BY Zenon DEF PC, Registering
<1>1. CASE ~Consumable(t, job[w].snap)
  <2>1. Goto(w, "undo") /\ UNCHANGED tokens
    BY Zenon, <1>1 DEF Consume
  <2>2. /\ pc' \in [Caller -> PC] /\ job' \in [Caller -> Job]
        /\ Moves(w, "undo") /\ job'[w].name = job[w].name
    BY Zenon, <1>0, <1>a, <1>b, <2>1, MoveDoes
  <2> QED BY Zenon, <1>0, <2>1, <2>2 DEF TypeOK
<1>2. CASE Consumable(t, job[w].snap)
  <2> DEFINE l == IF SameScope(w) THEN "return" ELSE "undo"
  <2>1. Goto(w, l) /\ tokens' = [tokens EXCEPT ![t].spent = tokens[t].single]
    BY Zenon, <1>2 DEF Consume
  <2>2. /\ tokens' \in [Token -> TokenRow \cup {None}]
        /\ tokens'[t] # None /\ tokens'[t].spent = tokens[t].single
        /\ tokens'[t].scope = tokens[t].scope /\ tokens'[t].single = tokens[t].single
        /\ \A u \in Token : u # t => tokens'[u] = tokens[u]
    BY Zenon, <1>a, <2>1, SpentDoes, ScopeType
  <2>3. l \in PC
    BY Zenon, <1>b
  <2>4. l = "undo" \/ (l = "return" /\ SameScope(w))
    BY Zenon
  <2> HIDE DEF l
  <2>5. /\ pc' \in [Caller -> PC] /\ job' \in [Caller -> Job]
        /\ Moves(w, l) /\ job'[w].name = job[w].name
    BY Zenon, <1>0, <1>a, <2>1, <2>3, MoveDoes
  <2> QED BY Zenon, <1>0, <1>2, <2>2, <2>4, <2>5 DEF TypeOK
<1> QED BY Zenon, <1>1, <1>2

\* A fault ends the call; the agent it was registering loses its secret.
LEMMA InterruptDoes ==
  ASSUME TypeOK, Owned, NEW w \in Caller, pc[w] # "idle", Interrupt(w), Done(w),
         UNCHANGED <<now, reg, epoch, tokens>>
  PROVE  LET n == job[w].name IN
         /\ TypeOK' /\ Moves(w, "idle")
         /\ \/ pc[w] \notin Registering /\ UNCHANGED agents
            \/ /\ pc[w] \in Registering /\ Only(n) /\ agents'[n] # None
               /\ agents'[n].from = agents[n].from /\ agents'[n].first = "lost"
               /\ agents'[n].allow = agents[n].allow
               /\ agents'[n].revoked = agents[n].revoked
               /\ agents'[n].replaced = agents[n].replaced
<1> DEFINE n == job[w].name
<1>1. pc' \in [Caller -> PC] /\ job' \in [Caller -> Job] /\ Moves(w, "idle")
  BY Zenon, MoveDoes
<1>2. CASE pc[w] \notin Registering
  <2>1. UNCHANGED agents
    BY Zenon, <1>2 DEF Interrupt
  <2> QED BY Zenon, <1>1, <1>2, <2>1 DEF TypeOK
<1>3. CASE pc[w] \in Registering
  <2>1. n \in Name /\ agents[n] # None /\ agents' = [agents EXCEPT ![n].first = "lost"]
    BY Zenon, <1>3, JobType DEF Owned, Interrupt
  <2>2. /\ agents' \in [Name -> AgentRow \cup {None}] /\ Only(n)
        /\ agents'[n] # None
        /\ agents'[n].from = agents[n].from /\ agents'[n].first = "lost"
        /\ agents'[n].allow = agents[n].allow
        /\ agents'[n].revoked = agents[n].revoked
        /\ agents'[n].replaced = agents[n].replaced
    BY Zenon, <2>1, RowDoes
  <2> QED BY Zenon, <1>1, <1>3, <2>2 DEF TypeOK
<1> QED BY Zenon, <1>2, <1>3

\* The agent is revoked again, or the error is dropped.
LEMMA UndoDoes ==
  ASSUME TypeOK, Owned, NEW w \in Caller, Undo(w)
  PROVE  LET n == job[w].name IN
         /\ TypeOK' /\ UNCHANGED <<reg, epoch, tokens>> /\ pc[w] = "undo"
         /\ Moves(w, "idle") /\ Only(n) /\ agents'[n] # None
         /\ agents'[n].from = agents[n].from
         /\ agents'[n].first # "handed"
         /\ agents'[n].first = "pending" => agents'[n].revoked
         /\ agents'[n].allow = agents[n].allow
         /\ agents[n].revoked => agents'[n].revoked
         /\ agents'[n].replaced = agents[n].replaced
<1> DEFINE n == job[w].name
<1>0. UNCHANGED <<now, reg, epoch, tokens>> /\ pc[w] = "undo" /\ Done(w)
  BY Zenon DEF Undo, Invalid
<1>1. /\ pc[w] \in Registering /\ n \in Name
      /\ agents[n] # None /\ agents[n].first = "pending"
  BY Zenon, <1>0, JobType DEF Owned, Registering
<1>2. CASE Interrupt(w)
  BY Zenon, <1>0, <1>1, <1>2, InterruptDoes
<1>3. CASE ~Interrupt(w)
  <2>1. agents' = [agents EXCEPT ![n].revoked = TRUE]
    BY Zenon, <1>3 DEF Undo
  <2> HIDE DEF n
  <2>2. /\ agents' \in [Name -> AgentRow \cup {None}] /\ Only(n) /\ Keeps(n)
        /\ agents'[n].allow = agents[n].allow /\ agents'[n].revoked
        /\ agents'[n].replaced = agents[n].replaced
    BY Zenon, <1>1, <2>1, RowDoes
  <2>3. pc' \in [Caller -> PC] /\ job' \in [Caller -> Job] /\ Moves(w, "idle")
    BY Zenon, <1>0, MoveDoes
  <2>4. TypeOK'
    BY Zenon, <1>0, <2>2, <2>3 DEF TypeOK
  <2> QED BY Zenon, <1>0, <1>1, <2>2, <2>3, <2>4 DEF n, Keeps
<1> QED BY Zenon, <1>2, <1>3

\* The caller gets the agent's first secret.
LEMMA ReturnDoes ==
  ASSUME TypeOK, Owned, NEW w \in Caller, Return(w)
  PROVE  LET n == job[w].name IN
         /\ TypeOK' /\ UNCHANGED <<reg, epoch, tokens>> /\ pc[w] = "return"
         /\ Moves(w, "idle") /\ Only(n) /\ agents'[n] # None
         /\ agents'[n].from = agents[n].from /\ agents'[n].first = "handed"
         /\ agents'[n].allow = agents[n].allow
         /\ agents'[n].revoked = agents[n].revoked
         /\ agents'[n].replaced = agents[n].replaced
<1> DEFINE n == job[w].name
<1>0. /\ UNCHANGED <<now, reg, epoch, tokens>> /\ pc[w] = "return" /\ Done(w)
      /\ agents' = [agents EXCEPT ![n].first = "handed"]
  BY Zenon DEF Return
<1>1. n \in Name /\ agents[n] # None
  BY Zenon, <1>0, JobType DEF Owned, Registering
<1> HIDE DEF n
<1>2. /\ agents' \in [Name -> AgentRow \cup {None}] /\ Only(n)
      /\ agents'[n] # None
      /\ agents'[n].from = agents[n].from /\ agents'[n].first = "handed"
      /\ agents'[n].allow = agents[n].allow
      /\ agents'[n].revoked = agents[n].revoked
      /\ agents'[n].replaced = agents[n].replaced
  BY Zenon, <1>0, <1>1, RowDoes
<1>3. pc' \in [Caller -> PC] /\ job' \in [Caller -> Job] /\ Moves(w, "idle")
  BY Zenon, <1>0, MoveDoes
<1>4. TypeOK'
  BY Zenon, <1>0, <1>2, <1>3 DEF TypeOK
<1> QED BY Zenon, <1>0, <1>2, <1>3, <1>4 DEF n

\* A statement failed while the token was checked: the agent is undone.
LEMMA FailDoes ==
  ASSUME TypeOK, Owned, NEW w \in Caller, pc[w] \in {"verify", "consume"},
         Goto(w, "undo"), KeepName(w), UNCHANGED <<now, reg, epoch, agents, tokens>>
  PROVE  TypeOK' /\ Moves(w, "undo") /\ job'[w].name = job[w].name
<1>1. job[w].name \in Name /\ "undo" \in PC
  BY Zenon, JobType DEF PC, Registering
<1>2. /\ pc' \in [Caller -> PC] /\ job' \in [Caller -> Job]
      /\ Moves(w, "undo") /\ job'[w].name = job[w].name
  BY Zenon, <1>1, MoveDoes
<1> QED BY Zenon, <1>2 DEF TypeOK

\* An agent's row and its secret's number are read.
LEMMA StartRotateDoes ==
  ASSUME TypeOK, Owned, NEW w \in Caller, NEW n \in Name, StartRotate(w, n)
  PROVE  /\ TypeOK' /\ UNCHANGED <<reg, epoch, agents, tokens>> /\ pc[w] = "idle"
         /\ Moves(w, "swap") /\ job'[w].name = n /\ agents[n] # None
<1> DEFINE j == [NoJob EXCEPT !.name = n, !.secret = Secret(n)]
<1>1. /\ UNCHANGED <<now, reg, epoch, agents, tokens>> /\ pc[w] = "idle"
      /\ Active(n) /\ Goto(w, "swap") /\ job' = [job EXCEPT ![w] = j]
  BY Zenon DEF StartRotate
<1>2. agents[n] # None /\ agents[n] \in AgentRow
  BY Zenon, <1>1 DEF Active, TypeOK
<1>3. Secret(n) \in Nat /\ "swap" \in PC
  BY <1>2 DEF Secret, AgentRow, PC
<1>4. j \in Job /\ j.name = n
  BY Zenon, <1>3 DEF NoJob, Job
<1> HIDE DEF j
<1>5. /\ pc' \in [Caller -> PC] /\ job' \in [Caller -> Job]
      /\ Moves(w, "swap") /\ job'[w] = j
  BY Zenon, <1>1, <1>3, <1>4, MoveDoes
<1>6. TypeOK'
  BY Zenon, <1>1, <1>5 DEF TypeOK
<1> QED BY Zenon, <1>1, <1>2, <1>4, <1>5, <1>6

\* The secret is replaced when it is still the current one of an active agent.
LEMMA SwapDoes ==
  ASSUME TypeOK, Owned, NEW w \in Caller, Swap(w)
  PROVE  LET n == job[w].name IN
         /\ TypeOK' /\ UNCHANGED <<reg, epoch, tokens>> /\ pc[w] = "swap"
         /\ Moves(w, "idle")
         /\ \/ UNCHANGED agents
            \/ /\ Active(n) /\ Only(n) /\ Keeps(n)
               /\ agents'[n].allow = agents[n].allow
               /\ agents'[n].revoked = agents[n].revoked
               /\ agents'[n].replaced = Append(agents[n].replaced, Secret(n))
<1> DEFINE n == job[w].name
           s == job[w].secret
<1>0. UNCHANGED <<now, reg, epoch, tokens>> /\ pc[w] = "swap" /\ Done(w)
  BY Zenon DEF Swap
<1>1. n \in Name /\ agents[n] # None /\ s \in Nat
  BY Zenon, <1>0, JobType DEF Owned
<1>2. pc' \in [Caller -> PC] /\ job' \in [Caller -> Job] /\ Moves(w, "idle")
  BY Zenon, <1>0, MoveDoes
<1>3. CASE UNCHANGED agents
  BY Zenon, <1>0, <1>2, <1>3 DEF TypeOK
<1>4. CASE ~UNCHANGED agents
  <2>1. /\ Active(n) /\ Secret(n) = s
        /\ agents' = [agents EXCEPT ![n].replaced = Append(@, s)]
    BY Zenon, <1>4 DEF Swap, Swappable
  <2> HIDE DEF n, s
  <2>2. /\ agents' \in [Name -> AgentRow \cup {None}] /\ Only(n) /\ Keeps(n)
        /\ agents'[n].allow = agents[n].allow
        /\ agents'[n].revoked = agents[n].revoked
        /\ agents'[n].replaced = Append(agents[n].replaced, s)
    BY Zenon, <1>1, <2>1, RowDoes
  <2>3. TypeOK'
    BY Zenon, <1>0, <1>2, <2>2 DEF TypeOK
  <2> QED BY Zenon, <1>0, <1>2, <2>1, <2>2, <2>3 DEF n
<1> QED BY Zenon, <1>3, <1>4

\* The operator creates an agent, changes its allowlist or revokes it.
LEMMA OperatorDoes ==
  ASSUME TypeOK, NEW n \in Name, NEW C \in SUBSET Conn,
         CreateAgent(n, C) \/ ModifyAgent(n, C) \/ RevokeAgent(n)
  PROVE  /\ TypeOK' /\ UNCHANGED <<reg, epoch, tokens, pc, job>> /\ Only(n)
         /\ \/ /\ agents[n] = None /\ agents'[n] # None
               /\ agents'[n].from = None /\ Fresh(agents'[n].allow)
               /\ agents'[n].replaced = <<>>
            \/ /\ Keeps(n) /\ agents'[n].replaced = agents[n].replaced
               /\ agents[n].revoked => agents'[n].revoked
               /\ agents'[n].allow = agents[n].allow \/ Fresh(agents'[n].allow)
<1>0. UNCHANGED <<now, reg, epoch, tokens, pc, job>>
  BY Zenon DEF CreateAgent, ModifyAgent, RevokeAgent
<1>1. CASE CreateAgent(n, C)
  <2>1. AllEnabled(C) /\ agents[n] = None /\ Insert(n, Reviewed(C), None, "handed")
    BY Zenon, <1>1 DEF CreateAgent
  <2>2. Reviewed(C) \in SUBSET Grant /\ Fresh(Reviewed(C))
    BY Zenon, <2>1, ReviewedIsFresh
  <2>3. None \in Token \cup {None} /\ "handed" \in {"pending", "handed"}
    BY Zenon
  <2>4. /\ agents' \in [Name -> AgentRow \cup {None}] /\ Only(n)
        /\ agents'[n] # None /\ agents'[n].allow = Reviewed(C) /\ agents'[n].from = None
        /\ agents'[n].replaced = <<>>
    BY <2>1, <2>2, <2>3, InsertDoes
  <2>5. TypeOK'
    BY Zenon, <1>0, <2>4 DEF TypeOK
  <2> QED BY Zenon, <1>0, <2>1, <2>2, <2>4, <2>5
<1>2. CASE ModifyAgent(n, C)
  <2>1. /\ AllEnabled(C) /\ agents[n] # None
        /\ agents' = [agents EXCEPT ![n].allow = Reviewed(C)]
    BY Zenon, <1>2 DEF ModifyAgent
  <2>2. Reviewed(C) \in SUBSET Grant /\ Fresh(Reviewed(C))
    BY Zenon, <2>1, ReviewedIsFresh
  <2>3. /\ agents' \in [Name -> AgentRow \cup {None}] /\ Only(n) /\ Keeps(n)
        /\ agents'[n].allow = Reviewed(C) /\ agents'[n].revoked = agents[n].revoked
        /\ agents'[n].replaced = agents[n].replaced
    BY Zenon, <2>1, <2>2, RowDoes
  <2>4. TypeOK'
    BY Zenon, <1>0, <2>3 DEF TypeOK
  <2> QED BY Zenon, <1>0, <2>2, <2>3, <2>4
<1>3. CASE RevokeAgent(n)
  <2>1. agents[n] # None /\ agents' = [agents EXCEPT ![n].revoked = TRUE]
    BY Zenon, <1>3 DEF RevokeAgent, Active
  <2>2. /\ agents' \in [Name -> AgentRow \cup {None}] /\ Only(n) /\ Keeps(n)
        /\ agents'[n].allow = agents[n].allow /\ agents'[n].revoked
        /\ agents'[n].replaced = agents[n].replaced
    BY Zenon, <2>1, RowDoes
  <2>3. TypeOK'
    BY Zenon, <1>0, <2>2 DEF TypeOK
  <2> QED BY Zenon, <1>0, <2>2, <2>3
<1> QED BY Zenon, <1>1, <1>2, <1>3

\* A token is revoked.
LEMMA RevokeTokenDoes ==
  ASSUME TypeOK, NEW t \in Token, RevokeToken(t)
  PROVE  /\ TypeOK' /\ UNCHANGED <<reg, epoch, agents, pc, job>>
         /\ tokens[t] # None /\ tokens'[t] # None /\ tokens'[t].spent
         /\ tokens'[t].scope = tokens[t].scope /\ tokens'[t].single = tokens[t].single
         /\ \A u \in Token : u # t => tokens'[u] = tokens[u]
<1>1. /\ UNCHANGED <<now, reg, epoch, agents, pc, job>> /\ tokens[t] # None
      /\ tokens' = [tokens EXCEPT ![t].spent = TRUE]
  BY Zenon DEF RevokeToken
<1>2. /\ tokens' \in [Token -> TokenRow \cup {None}]
      /\ tokens'[t] # None /\ tokens'[t].spent
      /\ tokens'[t].scope = tokens[t].scope /\ tokens'[t].single = tokens[t].single
      /\ \A u \in Token : u # t => tokens'[u] = tokens[u]
  BY Zenon, <1>1, SpentDoes
<1> QED BY Zenon, <1>1, <1>2 DEF TypeOK

-----------------------------------------------------------------------------
(***************************************************************************)
(* The invariant is inductive: one lemma per step, one leaf per part.      *)
(***************************************************************************)

\* Register reads a scope that is fresh.
LEMMA RegisterKeeps ==
  ASSUME IInv, NEW w \in Caller, NEW t \in Token, NEW n \in Name, Register(w, t, n)
  PROVE  IInv'
<1>0. TypeOK /\ Owned /\ NoStrayAgent /\ Current /\ Unique /\ Chain
  BY Zenon DEF IInv
<1>1. /\ TypeOK' /\ UNCHANGED <<reg, epoch, agents, tokens>> /\ pc[w] = "idle"
      /\ \/ Moves(w, "idle")
         \/ /\ Moves(w, "create") /\ tokens[t] # None
            /\ job'[w].name = n /\ job'[w].token = t /\ job'[w].preview = tokens[t].scope
  BY Zenon, <1>0, RegisterDoes
<1>2. Owned'
  BY <1>0, <1>1 DEF Owned, Moves, Registering, Working
<1>3. NoStrayAgent'
  BY <1>0, <1>1 DEF NoStrayAgent, Active, Moves, Registering
<1>4. Current'
  BY <1>0, <1>1 DEF Current, Fresh, Stale, Moves, Working
<1>5. Unique'
  BY <1>0, <1>1 DEF Unique, Winner, Moves
<1>6. Chain'
  BY Zenon, <1>0, <1>1 DEF Chain
<1> QED BY Zenon, <1>1, <1>2, <1>3, <1>4, <1>5, <1>6 DEF IInv

\* Create inserts a pending agent that the caller alone registers.
LEMMA CreateKeeps ==
  ASSUME IInv, NEW w \in Caller, Create(w)
  PROVE  IInv'
<1> DEFINE n == job[w].name
<1>0. TypeOK /\ Owned /\ NoStrayAgent /\ Current /\ Unique /\ Chain
  BY Zenon DEF IInv
<1>1. /\ TypeOK' /\ UNCHANGED <<reg, epoch, tokens>> /\ pc[w] = "create"
      /\ \/ Moves(w, "idle") /\ UNCHANGED agents
         \/ /\ Moves(w, "fetch") /\ job' = job
            /\ agents[n] = None /\ Only(n) /\ agents'[n] # None
            /\ agents'[n].allow = job[w].preview /\ agents'[n].from = job[w].token
            /\ agents'[n].first = "pending" /\ agents'[n].replaced = <<>>
  BY Zenon, <1>0, CreateDoes
<1>a. n \in Name /\ pc \in [Caller -> PC] /\ pc' \in [Caller -> PC]
  BY Zenon, <1>0, <1>1, JobType DEF TypeOK
<1>2. Owned'
  <2>1. CASE Moves(w, "idle") /\ UNCHANGED agents
    BY <1>0, <1>1, <2>1 DEF Owned, Moves, Registering, Working
  <2>2. CASE Moves(w, "fetch") /\ job' = job
    <3>1. \A v \in Caller : pc[v] \in Registering \cup {"swap"} => job[v].name # n
      BY Zenon, <1>0, <1>1, <2>2 DEF Owned, Moves
    <3>2. \A v \in Caller :
            v # w /\ pc[v] # "idle" => job[v].name \in Name
      BY Zenon, <1>0 DEF Owned
    <3> QED BY <1>0, <1>1, <1>a, <2>2, <3>1 DEF Owned, Moves, Only, Registering, Working
  <2> QED BY Zenon, <1>1, <2>1, <2>2
<1>3. NoStrayAgent'
  <2>1. CASE Moves(w, "idle") /\ UNCHANGED agents
    BY <1>0, <1>1, <2>1 DEF NoStrayAgent, Active, Moves, Registering
  <2>2. CASE Moves(w, "fetch") /\ job' = job
    <3>1. pc'[w] \in Registering /\ job'[w].name = n
      BY Zenon, <2>2 DEF Moves, Registering
    <3>2. \A v \in Caller : pc[v] \in Registering => pc'[v] \in Registering /\ job'[v] = job[v]
      BY Zenon, <1>1, <2>2, <3>1 DEF Moves, Registering
    <3> QED BY Zenon, <1>0, <1>1, <3>1, <3>2 DEF NoStrayAgent, Active, Only
  <2> QED BY Zenon, <1>1, <2>1, <2>2
<1>4. Current'
  <2>1. CASE Moves(w, "idle") /\ UNCHANGED agents
    BY <1>0, <1>1, <2>1 DEF Current, Fresh, Stale, Moves, Working
  <2>2. CASE Moves(w, "fetch") /\ job' = job /\ agents[n] = None
    <3>1. \A v \in Caller : pc[v] \in Registering => job[v].name # n /\ job[v].name \in Name
      BY Zenon, <1>0, <2>2 DEF Owned, Registering
    <3> HIDE DEF n
    <3>2. \A v \in Caller : v # w /\ pc[v] \in Registering =>
            agents'[job[v].name] = agents[job[v].name]
      BY Zenon, <1>1, <2>2, <3>1 DEF Only, n
    <3>3. \A m \in Name : agents'[m] # None /\ agents'[m].first = "handed" =>
            agents'[m] = agents[m]
      BY Zenon, <1>1, <2>2 DEF Only, n
    <3>4. \A v \in Caller : pc'[v] \in Working \ {"create"} =>
            \A g \in agents'[job[v].name].allow : Stale(g) => g \in job[v].preview
      BY Zenon, <1>0, <1>1, <2>2, <3>2 DEF Current, Moves, Working, Registering, n
    <3>5. \A v \in Caller : pc'[v] = "return" => Fresh(agents'[job[v].name].allow)
      BY Zenon, <1>0, <1>1, <2>2, <3>2 DEF Current, Moves, Registering
    <3>6. \A v \in Caller : pc'[v] \in Working => pc[v] \in Working
      BY Zenon, <1>1, <2>2 DEF Moves, Working
    <3>7. \A v \in Caller : pc'[v] \in Working =>
            \A g \in job[v].preview : Stale(g) => g.conn \notin Conns(tokens[job[v].token].scope)
      BY Zenon, <1>0, <3>6 DEF Current
    <3>8. \A m \in Name : agents'[m] # None /\ agents'[m].first = "handed" =>
            Fresh(agents'[m].allow)
      BY Zenon, <1>0, <3>3 DEF Current
    <3>9. \A t \in Token : tokens[t] # None => Fresh(tokens[t].scope)
      BY Zenon, <1>0 DEF Current
    <3>10. UNCHANGED <<reg, epoch, tokens, job>>
      BY Zenon, <1>1, <2>2
    <3> QED BY <3>4, <3>5, <3>7, <3>8, <3>9, <3>10 DEF Current, Fresh, Stale
  <2> QED BY Zenon, <1>1, <2>1, <2>2
<1>5. Unique'
  <2>1. \A m \in Name : Winner(m)' => Winner(m) /\ agents'[m] = agents[m]
    <3>1. CASE Moves(w, "idle") /\ UNCHANGED agents
      BY Zenon, <1>1, <3>1 DEF Winner, Moves
    <3>2. CASE Moves(w, "fetch") /\ job' = job /\ agents[n] = None
      <4>1. \A v \in Caller : pc'[v] = "return" => pc[v] = "return" /\ job[v].name # n
        BY Zenon, <1>0, <1>1, <3>2 DEF Moves, Owned, Registering
      <4>2. ~Winner(n)'
        BY Zenon, <1>1, <3>2, <4>1 DEF Winner
      <4> QED BY Zenon, <1>1, <3>2, <4>1, <4>2 DEF Winner, Only
    <3> QED BY Zenon, <1>1, <3>1, <3>2
  <2> QED BY Zenon, <1>0, <1>1, <2>1 DEF Unique
<1>6. Chain'
  BY <1>0, <1>1 DEF Chain, Only
<1> QED BY Zenon, <1>1, <1>2, <1>3, <1>4, <1>5, <1>6 DEF IInv

\* No one new gets a credential from a token: at most one still does.
LEMMA UniqueAside ==
  ASSUME Unique,
         \A t \in Token : tokens'[t] # None /\ tokens'[t].single =>
            tokens[t] # None /\ tokens[t].single /\ (tokens[t].spent => tokens'[t].spent),
         \A m \in Name : Winner(m)' /\ agents'[m].from \in Token =>
            Winner(m) /\ agents[m].from = agents'[m].from
  PROVE  Unique'
  BY DEF Unique

\* The operator's steps leave the registrations to whoever runs them.
LEMMA OwnedAside ==
  ASSUME Owned, UNCHANGED <<pc, job>>,
         \A n \in Name : \/ agents[n] # None /\ Keeps(n)
                         \/ agents[n] = None /\ (agents'[n] = None \/ agents'[n].from = None),
         \A t \in Token : tokens[t] # None => tokens'[t] # None,
         \A n \in Name : agents[n] # None => agents[n].from \in Token \cup {None}
  PROVE  Owned'
  BY Zenon DEF Owned, Keeps, Registering, Working

\* They leave no agent pending that was not.
LEMMA NoStrayAside ==
  ASSUME NoStrayAgent, UNCHANGED <<pc, job>>,
         \A n \in Name : \/ Keeps(n) /\ (agents[n].revoked => agents'[n].revoked)
                         \/ agents'[n] = None \/ agents'[n].from = None
  PROVE  NoStrayAgent'
  BY Zenon DEF NoStrayAgent, Keeps, Active

\* Who has or gets a credential does not depend on the allowlists.
LEMMA WinnerAside ==
  ASSUME UNCHANGED <<pc, job>>, NEW n \in Name, Keeps(n), Winner(n)'
  PROVE  Winner(n) /\ agents[n].from = agents'[n].from
  BY Zenon DEF Winner, Keeps

\* A row of the agents' table.
LEMMA AgentType ==
  ASSUME TypeOK, NEW n \in Name, agents[n] # None
  PROVE  /\ agents[n].from \in Token \cup {None} /\ agents[n].allow \in SUBSET Grant
         /\ agents[n].replaced \in Seq(Nat) /\ agents[n].revoked \in BOOLEAN
  BY Zenon DEF TypeOK, AgentRow

\* Replacing or deleting a connection makes grants stale, and the triggers take
\* exactly those out of the allowlists and the scopes.
LEMMA ConnKeeps ==
  ASSUME IInv, NEW c \in Conn, Replace(c) \/ Delete(c)
  PROVE  IInv'
<1>0. TypeOK /\ Owned /\ NoStrayAgent /\ Current /\ Unique /\ Chain
  BY Zenon DEF IInv
<1>1. /\ TypeOK' /\ Prune(c) /\ UNCHANGED <<pc, job>>
      /\ \A d \in Conn : d # c => reg'[d] = reg[d] /\ epoch'[d] = epoch[d]
  BY Zenon, <1>0, ConnDoes
<1>2. \A n \in Name :
        \/ agents[n] = None /\ agents'[n] = None
        \/ /\ agents[n] # None /\ Keeps(n)
           /\ agents'[n].allow = Without(agents[n].allow, c)
           /\ agents'[n].replaced = agents[n].replaced
           /\ agents'[n].revoked = agents[n].revoked
  BY Zenon, <1>0, <1>1, PruneDoes DEF Keeps
<1>3. \A t \in Token :
        \/ tokens[t] = None /\ tokens'[t] = None
        \/ /\ tokens[t] # None /\ tokens'[t] # None
           /\ tokens'[t].scope = Without(tokens[t].scope, c)
           /\ tokens'[t].spent = tokens[t].spent
           /\ tokens'[t].single = tokens[t].single
  BY Zenon, <1>0, <1>1, PruneDoes
<1>4. Owned'
  BY Zenon, <1>0, <1>1, <1>2, <1>3, OwnedAside, AgentType
<1>5. NoStrayAgent'
  BY Zenon, <1>0, <1>1, <1>2, NoStrayAside
<1>6. Current'
  <2>1. \A g \in Grant : g.conn # c => (Stale(g)' <=> Stale(g))
    BY Zenon, <1>1 DEF Stale, Grant
  <2>2. \A n \in Name : agents'[n] # None => agents'[n].allow \in SUBSET Grant
    BY Zenon, <1>1, AgentType DEF TypeOK, AgentRow
  <2>3. \A n \in Name : agents'[n] # None =>
          /\ agents[n] # None /\ agents'[n].first = agents[n].first
          /\ \A g \in agents'[n].allow :
               g \in agents[n].allow /\ (Stale(g)' <=> Stale(g))
    BY <1>2, <2>1, <2>2 DEF Without, Keeps
  <2>4. \A t \in Token : tokens'[t] # None =>
          /\ tokens[t] # None /\ c \notin Conns(tokens'[t].scope)
          /\ Conns(tokens'[t].scope) \subseteq Conns(tokens[t].scope)
          /\ \A g \in tokens'[t].scope : g \in tokens[t].scope /\ (Stale(g)' <=> Stale(g))
    <3> SUFFICES ASSUME NEW t \in Token, tokens'[t] # None
                 PROVE  /\ tokens[t] # None /\ c \notin Conns(tokens'[t].scope)
                        /\ Conns(tokens'[t].scope) \subseteq Conns(tokens[t].scope)
                        /\ \A g \in tokens'[t].scope :
                             g \in tokens[t].scope /\ (Stale(g)' <=> Stale(g))
      BY Zenon
    <3>1. tokens[t] # None /\ tokens[t].scope \in SUBSET Grant
          /\ tokens'[t].scope = Without(tokens[t].scope, c)
      BY Zenon, <1>0, <1>3, ScopeType
    <3> QED BY Zenon, <2>1, <3>1 DEF Without, Conns
  <2>5. \A n \in Name : agents'[n] # None /\ agents'[n].first = "handed" =>
          \A g \in agents'[n].allow : ~Stale(g)'
    BY <1>0, <2>3 DEF Current, Fresh
  <2>6. \A t \in Token : tokens'[t] # None => \A g \in tokens'[t].scope : ~Stale(g)'
    BY Zenon, <1>0, <2>4 DEF Current, Fresh
  <2>7. ASSUME NEW w \in Caller, pc[w] \in Working, NEW g \in job[w].preview, Stale(g)'
        PROVE  g.conn \notin Conns(tokens'[job[w].token].scope)
    <3>1. /\ g \in Grant /\ job[w].token \in Token
          /\ tokens[job[w].token] # None /\ tokens'[job[w].token] # None
      BY Zenon, <1>0, <1>3, <2>7, JobType
    <3> QED BY Zenon, <1>0, <2>1, <2>4, <2>7, <3>1 DEF Current
  <2>8. ASSUME NEW w \in Caller, pc[w] \in Registering
        PROVE  job[w].name \in Name /\ agents'[job[w].name] # None
    BY Zenon, <1>0, <1>2, <2>8 DEF Owned, Keeps, Registering
  <2>9. ASSUME NEW w \in Caller, pc[w] \in Working \ {"create"},
               NEW g \in agents'[job[w].name].allow, Stale(g)'
        PROVE  g \in job[w].preview
    BY Zenon, <1>0, <2>3, <2>8, <2>9 DEF Current, Working, Registering
  <2>10. ASSUME NEW w \in Caller, pc[w] = "return"
         PROVE  \A g \in agents'[job[w].name].allow : ~Stale(g)'
    BY Zenon, <1>0, <2>3, <2>8, <2>10 DEF Current, Fresh, Registering
  <2> QED BY Zenon, <1>1, <2>5, <2>6, <2>7, <2>9, <2>10 DEF Current, Fresh
<1>7. Unique'
  BY Zenon, <1>0, <1>1, <1>2, <1>3, UniqueAside, WinnerAside DEF Winner
<1>8. Chain'
  BY Zenon, <1>0, <1>2 DEF Chain
<1> QED BY Zenon, <1>1, <1>4, <1>5, <1>6, <1>7, <1>8 DEF IInv

\* Disabling makes no grant stale.
LEMMA SetDisabledKeeps ==
  ASSUME IInv, NEW c \in Conn, NEW d \in {"enabled", "disabled"}, SetDisabled(c, d)
  PROVE  IInv'
<1>0. TypeOK /\ Owned /\ NoStrayAgent /\ Current /\ Unique /\ Chain
  BY Zenon DEF IInv
<1>1. /\ TypeOK' /\ UNCHANGED <<agents, tokens, epoch, pc, job>>
      /\ \A k \in Conn : reg'[k] = "absent" <=> reg[k] = "absent"
  BY Zenon, <1>0, SetDisabledDoes
<1>2. Owned' /\ NoStrayAgent' /\ Unique' /\ Chain'
  BY <1>0, <1>1 DEF Owned, NoStrayAgent, Active, Unique, Winner, Chain
<1>3. Current'
  <2>1. \A g \in Grant : Stale(g)' <=> Stale(g)
    BY Zenon, <1>1 DEF Stale, Grant
  <2>2. \A n \in Name : agents[n] # None => agents[n].allow \in SUBSET Grant
    BY Zenon, <1>0, AgentType
  <2>3. \A t \in Token : tokens[t] # None => tokens[t].scope \in SUBSET Grant
    BY Zenon, <1>0, ScopeType
  <2>4. \A w \in Caller :
          /\ job[w].preview \in SUBSET Grant
          /\ pc[w] \in Registering => job[w].name \in Name /\ agents[job[w].name] # None
    BY Zenon, <1>0, JobType DEF Owned, Registering
  <2>5. \A n \in Name : agents[n] # None /\ agents[n].first = "handed" =>
          \A g \in agents[n].allow : ~Stale(g)'
    BY Zenon, <1>0, <2>1, <2>2 DEF Current, Fresh
  <2>6. \A t \in Token : tokens[t] # None => \A g \in tokens[t].scope : ~Stale(g)'
    BY Zenon, <1>0, <2>1, <2>3 DEF Current, Fresh
  <2>7. \A w \in Caller : pc[w] \in Working =>
          \A g \in job[w].preview : Stale(g)' => g.conn \notin Conns(tokens[job[w].token].scope)
    BY Zenon, <1>0, <2>1, <2>4 DEF Current
  <2>8. \A w \in Caller : pc[w] \in Working \ {"create"} =>
          \A g \in agents[job[w].name].allow : Stale(g)' => g \in job[w].preview
    BY Zenon, <1>0, <2>1, <2>2, <2>4 DEF Current, Working, Registering
  <2>9. \A w \in Caller : pc[w] = "return" =>
          \A g \in agents[job[w].name].allow : ~Stale(g)'
    BY Zenon, <1>0, <2>1, <2>2, <2>4 DEF Current, Fresh, Registering
  <2> QED BY Zenon, <1>1, <2>5, <2>6, <2>7, <2>8, <2>9 DEF Current, Fresh, Conns
<1> QED BY Zenon, <1>1, <1>2, <1>3 DEF IInv

\* No agent is from a token that is only now minted.
LEMMA MintKeeps ==
  ASSUME IInv, NEW t \in Token, NEW C \in SUBSET Conn, NEW e \in Expiry,
         NEW single \in BOOLEAN, Mint(t, C, e, single)
  PROVE  IInv'
<1>0. TypeOK /\ Owned /\ NoStrayAgent /\ Current /\ Unique /\ Chain
  BY Zenon DEF IInv
<1>1. /\ TypeOK' /\ UNCHANGED <<reg, epoch, agents, pc, job>>
      /\ tokens[t] = None /\ tokens'[t] # None /\ Fresh(tokens'[t].scope)
      /\ \A u \in Token : u # t => tokens'[u] = tokens[u]
  BY Zenon, <1>0, MintDoes
<1>2. \A n \in Name : agents[n] # None => agents[n].from # t
  BY Zenon, <1>0, <1>1, NamesAssumption DEF Owned
<1>3. \A n \in Name : agents[n] # None => agents[n].from \in Token \cup {None}
  BY Zenon, <1>0, AgentType
<1>4. Owned'
  BY Zenon, <1>0, <1>1, <1>3 DEF Owned
<1>5. NoStrayAgent' /\ Chain'
  BY Zenon, <1>0, <1>1 DEF NoStrayAgent, Active, Chain
<1>6. Current'
  <2>1. \A w \in Caller : pc[w] \in Working =>
          job[w].token \in Token /\ tokens'[job[w].token] = tokens[job[w].token]
    BY Zenon, <1>0, <1>1, JobType
  <2>2. \A u \in Token : tokens'[u] # None => Fresh(tokens'[u].scope)
    BY Zenon, <1>0, <1>1 DEF Current
  <2> QED BY Zenon, <1>0, <1>1, <2>1, <2>2 DEF Current, Fresh, Stale
<1>7. Unique'
  <2>1. \A n \in Name : Winner(n)' <=> Winner(n)
    BY Zenon, <1>1 DEF Winner
  <2>2. \A n \in Name : Winner(n) => agents[n].from # t
    BY Zenon, <1>2 DEF Winner
  <2> QED BY Zenon, <1>0, <1>1, <2>1, <2>2 DEF Unique
<1> QED BY Zenon, <1>1, <1>4, <1>5, <1>6, <1>7 DEF IInv

\* A revoked token is spent, and still has its scope.
LEMMA RevokeTokenKeeps ==
  ASSUME IInv, NEW t \in Token, RevokeToken(t)
  PROVE  IInv'
<1>0. TypeOK /\ Owned /\ NoStrayAgent /\ Current /\ Unique /\ Chain
  BY Zenon DEF IInv
<1>1. /\ TypeOK' /\ UNCHANGED <<reg, epoch, agents, pc, job>>
      /\ tokens[t] # None /\ tokens'[t] # None /\ tokens'[t].spent
      /\ tokens'[t].scope = tokens[t].scope /\ tokens'[t].single = tokens[t].single
      /\ \A u \in Token : u # t => tokens'[u] = tokens[u]
  BY Zenon, <1>0, RevokeTokenDoes
<1>2. \A u \in Token :
        /\ tokens'[u] # None <=> tokens[u] # None
        /\ tokens'[u].scope = tokens[u].scope
        /\ tokens'[u].single = tokens[u].single
        /\ tokens[u].spent => tokens'[u].spent
  BY Zenon, <1>1
<1>3. Owned'
  BY Zenon, <1>0, <1>1, <1>2, AgentType DEF Owned
<1>4. NoStrayAgent' /\ Chain'
  BY Zenon, <1>0, <1>1 DEF NoStrayAgent, Active, Chain
<1>5. Current'
  BY <1>0, <1>1, <1>2, JobType DEF Current, Fresh, Stale
<1>6. Unique'
  BY Zenon, <1>0, <1>1, <1>2, UniqueAside DEF Winner
<1> QED BY Zenon, <1>1, <1>3, <1>4, <1>5, <1>6 DEF IInv

\* The operator grants what they see, which is fresh.
LEMMA OperatorKeeps ==
  ASSUME IInv, NEW n \in Name, NEW C \in SUBSET Conn,
         CreateAgent(n, C) \/ ModifyAgent(n, C) \/ RevokeAgent(n)
  PROVE  IInv'
<1>0. TypeOK /\ Owned /\ NoStrayAgent /\ Current /\ Unique /\ Chain
  BY Zenon DEF IInv
<1>1. /\ TypeOK' /\ UNCHANGED <<reg, epoch, tokens, pc, job>> /\ Only(n)
      /\ \/ /\ agents[n] = None /\ agents'[n] # None
            /\ agents'[n].from = None /\ Fresh(agents'[n].allow)
            /\ agents'[n].replaced = <<>>
         \/ /\ Keeps(n) /\ agents'[n].replaced = agents[n].replaced
            /\ agents[n].revoked => agents'[n].revoked
            /\ agents'[n].allow = agents[n].allow \/ Fresh(agents'[n].allow)
  BY Zenon, <1>0, OperatorDoes
<1>2. \A m \in Name : m # n /\ agents[m] # None => Keeps(m)
  BY Zenon, <1>1 DEF Only, Keeps
<1>3. \A m \in Name : agents[m] # None => Keeps(m)
  BY Zenon, <1>1, <1>2
<1>4. \A m \in Name : agents[m] = None => agents'[m] = None \/ agents'[m].from = None
  BY Zenon, <1>1 DEF Only, Keeps
<1>5. \A m \in Name : agents[m] # None => agents[m].from \in Token \cup {None}
  BY Zenon, <1>0, AgentType
<1>6. Owned'
  BY Zenon, <1>0, <1>1, <1>3, <1>4, <1>5, OwnedAside
<1>7. NoStrayAgent'
  <2>1. \A m \in Name : agents[m] # None /\ agents[m].revoked => agents'[m].revoked
    BY Zenon, <1>1 DEF Only
  <2> QED BY Zenon, <1>0, <1>1, <1>3, <1>4, <2>1, NoStrayAside
<1>8. Current'
  <2>1. \A m \in Name : agents'[m] # None =>
          (agents[m] # None /\ agents'[m].allow = agents[m].allow) \/ Fresh(agents'[m].allow)
    BY Zenon, <1>1 DEF Only, Keeps
  <2>2. \A m \in Name : agents'[m] # None /\ agents'[m].first = "handed" =>
          Fresh(agents'[m].allow)
    BY Zenon, <1>0, <1>3, <2>1 DEF Current, Keeps
  <2>3. \A w \in Caller : pc[w] \in Registering =>
          job[w].name \in Name /\ agents[job[w].name] # None /\ agents'[job[w].name] # None
    BY Zenon, <1>0, <1>3 DEF Owned, Keeps, Registering
  <2>4. \A w \in Caller : pc[w] = "return" => Fresh(agents'[job[w].name].allow)
    BY Zenon, <1>0, <2>1, <2>3 DEF Current, Registering
  <2>5. \A w \in Caller : pc[w] \in Working \ {"create"} =>
          \A g \in agents'[job[w].name].allow : Stale(g) => g \in job[w].preview
    BY Zenon, <1>0, <2>1, <2>3 DEF Current, Fresh, Working, Registering
  <2> QED BY Zenon, <1>0, <1>1, <2>2, <2>4, <2>5 DEF Current, Fresh, Stale
<1>9. Unique'
  <2>1. \A m \in Name : Winner(m)' /\ agents'[m].from \in Token =>
          Winner(m) /\ agents[m].from = agents'[m].from
    BY Zenon, <1>1, <1>3, <1>4, WinnerAside, NamesAssumption DEF Winner
  <2> QED BY Zenon, <1>0, <1>1, <2>1, UniqueAside
<1>10. Chain'
  BY <1>0, <1>1 DEF Chain, Only, Keeps
<1> QED BY Zenon, <1>1, <1>6, <1>7, <1>8, <1>9, <1>10 DEF IInv

\* A call that ends without touching a row leaves no active agent behind.
LEMMA StopKeeps ==
  ASSUME IInv, TypeOK', NEW w \in Caller, Moves(w, "idle"),
         UNCHANGED <<reg, epoch, agents, tokens>>,
         pc[w] \in Registering => ~Active(job[w].name)
  PROVE  IInv'
<1>0. TypeOK /\ Owned /\ NoStrayAgent /\ Current /\ Unique /\ Chain
  BY Zenon DEF IInv
<1>1. Owned'
  BY <1>0 DEF Owned, Moves, Registering, Working
<1>2. NoStrayAgent'
  <2>1. \A v \in Caller : pc[v] \in Registering /\ Active(job[v].name) =>
          pc'[v] \in Registering /\ job'[v] = job[v]
    BY Zenon DEF Moves
  <2> QED BY <1>0, <2>1 DEF NoStrayAgent, Active
<1>a. \A v \in Caller : pc'[v] \in Working \cup {"return"} => pc'[v] = pc[v] /\ job'[v] = job[v]
  BY DEF Moves, Working
<1>3. Current'
  <2>1. \A v \in Caller : pc'[v] \in Working =>
          \A g \in job'[v].preview :
            Stale(g) => g.conn \notin Conns(tokens[job'[v].token].scope)
    BY Zenon, <1>0, <1>a DEF Current
  <2>2. \A v \in Caller : pc'[v] \in Working \ {"create"} =>
          \A g \in agents[job'[v].name].allow : Stale(g) => g \in job'[v].preview
    BY Zenon, <1>0, <1>a DEF Current
  <2>3. \A v \in Caller : pc'[v] = "return" => Fresh(agents[job'[v].name].allow)
    BY Zenon, <1>0, <1>a DEF Current
  <2> QED BY Zenon, <1>0, <2>1, <2>2, <2>3 DEF Current, Fresh, Stale
<1>4. Unique'
  <2>1. \A m \in Name : Winner(m)' => Winner(m)
    BY Zenon, <1>a DEF Winner
  <2> QED BY Zenon, <1>0, <2>1 DEF Unique
<1>5. Chain'
  BY Zenon, <1>0 DEF Chain
<1> QED BY Zenon, <1>1, <1>2, <1>3, <1>4, <1>5 DEF IInv

\* A registration that ends hands out the secret of its agent, or the agent is
\* revoked or its secret lost.
LEMMA LeaveKeeps ==
  ASSUME IInv, TypeOK', NEW w \in Caller, Moves(w, "idle"),
         UNCHANGED <<reg, epoch, tokens>>, pc[w] \in Registering,
         NEW n \in Name, n = job[w].name, Only(n), agents'[n] # None,
         agents'[n].from = agents[n].from, agents'[n].allow = agents[n].allow,
         agents'[n].replaced = agents[n].replaced,
         agents'[n].first = "pending" => agents'[n].revoked,
         agents'[n].first = "handed" => pc[w] = "return"
  PROVE  IInv'
<1>0. TypeOK /\ Owned /\ NoStrayAgent /\ Current /\ Unique /\ Chain
  BY Zenon DEF IInv
<1>1. agents[n] # None
  BY Zenon, <1>0 DEF Owned
<1>2. \A v \in Caller : v # w /\ pc[v] \in Registering => job[v].name \in Name \ {n}
  BY Zenon, <1>0 DEF Owned, Registering
<1>3. \A m \in Name : agents'[m] # None <=> agents[m] # None
  BY Zenon, <1>1 DEF Only
<1>4. Owned'
  <2>1. \A m \in Name : agents'[m] # None => agents'[m].from = agents[m].from
    BY Zenon DEF Only
  <2>2. \A v \in Caller : v # w /\ pc[v] \in Registering =>
          agents'[job[v].name] = agents[job[v].name]
    BY Zenon, <1>2 DEF Only
  <2>3. pc'[w] = "idle" /\ \A v \in Caller : v # w => pc'[v] = pc[v] /\ job'[v] = job[v]
    BY Zenon DEF Moves
  <2>4. \A v \in Caller : pc'[v] # "idle" => v # w /\ pc'[v] = pc[v] /\ job'[v] = job[v]
    BY Zenon, <2>3
  <2>5. \A v \in Caller : pc'[v] \in Registering \cup Working \cup {"swap"} => pc'[v] # "idle"
    BY Zenon DEF Registering, Working
  <2>6. \A v \in Caller : pc'[v] \in Registering =>
          /\ agents'[job'[v].name] = agents[job[v].name]
          /\ pc[v] \in Registering /\ pc'[v] = pc[v] /\ job'[v] = job[v]
    BY <2>2, <2>4, <2>5
  <2>b. \A v \in Caller : pc[v] = "swap" => job[v].name \in Name /\ agents[job[v].name] # None
    BY Zenon, <1>0 DEF Owned
  <2>7. \A v \in Caller : pc'[v] = "swap" => agents'[job'[v].name] # None
    BY <1>3, <2>4, <2>b
  <2>8. \A m \in Name :
          agents'[m] # None /\ agents'[m].from # None => tokens[agents'[m].from] # None
    BY Zenon, <1>0, <1>3, <2>1 DEF Owned
  <2>9. \A v \in Caller : pc'[v] \in Working =>
          job'[v].token \in Token /\ tokens[job'[v].token] # None
    <3>1. \A v \in Caller : pc[v] \in Working =>
            job[v].token \in Token /\ tokens[job[v].token] # None
      BY Zenon, <1>0 DEF Owned
    <3> QED BY <2>4, <2>5, <3>1
  <2>10. \A v \in Caller : pc'[v] # "idle" => job'[v].name \in Name
    BY Zenon, <1>0, <2>4 DEF Owned
  <2>a. \A v \in Caller : pc[v] \in Registering =>
          /\ agents[job[v].name] # None
          /\ agents[job[v].name].first = "pending"
          /\ pc[v] \in Working => agents[job[v].name].from = job[v].token
    BY Zenon, <1>0 DEF Owned
  <2>11. \A v \in Caller : pc'[v] \in Registering =>
           /\ agents'[job'[v].name] # None
           /\ agents'[job'[v].name].first = "pending"
           /\ pc'[v] \in Working => agents'[job'[v].name].from = job'[v].token
    BY <2>a, <2>6
  <2>12. \A v, u \in Caller :
           pc'[v] \in Registering /\ pc'[u] \in Registering /\ job'[v].name = job'[u].name
             => v = u
    <3>1. \A v, u \in Caller :
            pc[v] \in Registering /\ pc[u] \in Registering /\ job[v].name = job[u].name
              => v = u
      BY Zenon, <1>0 DEF Owned
    <3> QED BY <2>6, <3>1
  <2> QED BY Zenon, <2>7, <2>8, <2>9, <2>10, <2>11, <2>12 DEF Owned
<1>5. NoStrayAgent'
  <2>1. ~(Active(n)' /\ agents'[n].first = "pending")
    BY Zenon DEF Active
  <2>2. \A v \in Caller : pc[v] \in Registering /\ job[v].name # n =>
          pc'[v] \in Registering /\ job'[v] = job[v]
    BY Zenon DEF Moves
  <2> QED BY <1>0, <2>1, <2>2 DEF NoStrayAgent, Active, Only
<1>6. Current'
  <2>1. \A m \in Name : agents'[m] # None => agents'[m].allow = agents[m].allow
    BY Zenon DEF Only
  <2>2. \A m \in Name : agents'[m] # None /\ agents'[m].first = "handed" =>
          Fresh(agents'[m].allow)
    <3>1. agents'[n].first = "handed" => Fresh(agents'[n].allow)
      BY Zenon, <1>0 DEF Current
    <3>2. \A m \in Name : m # n /\ agents'[m] # None /\ agents'[m].first = "handed" =>
            Fresh(agents'[m].allow)
      BY Zenon, <1>0 DEF Current, Only
    <3> QED BY Zenon, <3>1, <3>2
  <2>3. pc'[w] = "idle" /\ \A v \in Caller : v # w => pc'[v] = pc[v] /\ job'[v] = job[v]
    BY Zenon DEF Moves
  <2>4. \A v \in Caller : v # w /\ pc[v] \in Registering =>
          agents'[job[v].name] = agents[job[v].name]
    BY Zenon, <1>2 DEF Only
  <2>5. \A v \in Caller : pc'[v] \in Working \cup {"return"} =>
          pc'[v] = pc[v] /\ job'[v] = job[v] /\ v # w
    BY Zenon, <2>3 DEF Working
  <2>6. \A v \in Caller : pc'[v] \in Working \ {"create"} =>
          \A g \in agents'[job'[v].name].allow : Stale(g) => g \in job'[v].preview
    BY <1>0, <2>4, <2>5 DEF Current, Working, Registering
  <2>7. \A v \in Caller : pc'[v] = "return" => Fresh(agents'[job'[v].name].allow)
    BY <1>0, <2>4, <2>5 DEF Current, Registering
  <2>8. \A v \in Caller : pc'[v] \in Working =>
          \A g \in job'[v].preview :
            Stale(g) => g.conn \notin Conns(tokens[job'[v].token].scope)
    BY Zenon, <1>0, <2>5 DEF Current
  <2> QED BY Zenon, <1>0, <2>2, <2>6, <2>7, <2>8 DEF Current, Fresh, Stale
<1>7. Unique'
  <2>1. \A m \in Name : Winner(m)' => Winner(m) /\ agents[m].from = agents'[m].from
    <3>1. Winner(n)' => pc[w] = "return"
      BY <1>2 DEF Winner, Moves, Registering
    <3>2. Winner(n)' => Winner(n)
      BY Zenon, <1>1, <3>1 DEF Winner
    <3>3. \A m \in Name : m # n /\ Winner(m)' => Winner(m) /\ agents'[m] = agents[m]
      BY DEF Winner, Moves, Only
    <3> QED BY Zenon, <3>2, <3>3
  <2> QED BY Zenon, <1>0, <2>1, UniqueAside
<1>8. Chain'
  BY Zenon, <1>0, <1>1 DEF Chain, Only
<1> QED BY Zenon, <1>4, <1>5, <1>6, <1>7, <1>8 DEF IInv

\* A call that goes on with its registration.  When it has consumed the token
\* the agent's grants are fresh, and no one had won with a single-use token.
LEMMA GoOnKeeps ==
  ASSUME IInv, TypeOK', NEW w \in Caller, NEW l \in {"verify", "consume", "undo", "return"},
         Moves(w, l), UNCHANGED <<reg, epoch, agents>>,
         pc[w] \in Working \ {"create"}, job'[w].name = job[w].name,
         l \in Working => job'[w].token = job[w].token /\ job'[w].preview = job[w].preview,
         \A t \in Token :
            /\ tokens'[t] # None <=> tokens[t] # None
            /\ tokens'[t].scope = tokens[t].scope
            /\ tokens'[t].single = tokens[t].single
            /\ tokens[t].single /\ tokens[t].spent => tokens'[t].spent,
         l = "return" =>
            /\ Fresh(agents[job[w].name].allow)
            /\ tokens[job[w].token].single =>
                 /\ tokens'[job[w].token].spent
                 /\ \A m \in Name : Winner(m) => agents[m].from # job[w].token
  PROVE  IInv'
<1>0. TypeOK /\ Owned /\ NoStrayAgent /\ Current /\ Unique /\ Chain
  BY Zenon DEF IInv
<1>1. pc[w] \in Registering /\ pc'[w] \in Registering
  BY Zenon DEF Moves, Working, Registering
<1>2. \A v \in Caller : v # w => pc'[v] = pc[v] /\ job'[v] = job[v]
  BY Zenon DEF Moves
<1>3. \A v \in Caller : pc[v] # "idle" => job'[v].name = job[v].name
  BY Zenon, <1>2
<1>4. Owned'
  <2>1. \A m \in Name : agents[m] # None => agents[m].from \in Token \cup {None}
    BY Zenon, <1>0, AgentType
  <2>2. \A v \in Caller : pc'[v] \in Working => pc[v] \in Working /\ job'[v].token = job[v].token
    BY Zenon, <1>2 DEF Moves, Working
  <2>3. \A v \in Caller : pc'[v] \in Registering <=> pc[v] \in Registering
    BY Zenon, <1>1, <1>2
  <2>4. \A v \in Caller : pc'[v] = "swap" => pc[v] = "swap"
    BY Zenon, <1>1, <1>2 DEF Registering
  <2>5. \A v \in Caller : pc'[v] # "idle" => pc[v] # "idle"
    BY Zenon, <1>1, <1>2 DEF Registering
  <2> QED BY <1>0, <1>3, <2>1, <2>2, <2>3, <2>4, <2>5 DEF Owned, Registering
<1>5. NoStrayAgent'
  <2>1. \A v \in Caller : pc[v] \in Registering =>
          pc'[v] \in Registering /\ job'[v].name = job[v].name
    BY Zenon, <1>1, <1>2
  <2> QED BY <1>0, <2>1 DEF NoStrayAgent, Active
<1>6. Current'
  <2>1. \A v \in Caller : pc'[v] \in Working =>
          /\ pc[v] \in Working /\ (pc[v] = "create" => pc'[v] = "create")
          /\ job'[v].token = job[v].token /\ job'[v].preview = job[v].preview
          /\ job'[v].name = job[v].name /\ job[v].token \in Token
    BY Zenon, <1>0, <1>2, JobType DEF Moves, Working
  <2>2. \A v \in Caller : pc'[v] = "return" => Fresh(agents[job'[v].name].allow)
    BY Zenon, <1>0, <1>2 DEF Current, Moves
  <2> QED BY <1>0, <2>1, <2>2 DEF Current, Fresh, Stale
<1>7. Unique'
  <2>1. \A m \in Name : Winner(m)' => Winner(m) \/ (l = "return" /\ m = job[w].name)
    BY <1>2 DEF Winner, Moves
  <2>2. CASE l # "return"
    BY Zenon, <1>0, <2>1, <2>2 DEF Unique
  <2>3. CASE l = "return"
    <3>1. job[w].token \in Token /\ agents[job[w].name].from = job[w].token
      BY Zenon, <1>0, <1>1 DEF Owned
    <3> QED BY <1>0, <2>1, <2>3, <3>1 DEF Unique
  <2> QED BY Zenon, <2>2, <2>3
<1>8. Chain'
  BY Zenon, <1>0 DEF Chain
<1> QED BY Zenon, <1>4, <1>5, <1>6, <1>7, <1>8 DEF IInv

\* Fetch goes on, or finds the agent revoked.
LEMMA FetchKeeps ==
  ASSUME IInv, NEW w \in Caller, Fetch(w)
  PROVE  IInv'
<1>0. TypeOK /\ Owned
  BY Zenon DEF IInv
<1>1. /\ TypeOK' /\ UNCHANGED <<reg, epoch, agents, tokens>> /\ pc[w] = "fetch"
      /\ \/ Moves(w, "idle") /\ ~Active(job[w].name)
         \/ Moves(w, "verify") /\ job' = job
  BY Zenon, <1>0, FetchDoes
<1>2. CASE Moves(w, "idle") /\ ~Active(job[w].name)
  BY Zenon, <1>1, <1>2, StopKeeps
<1>3. CASE Moves(w, "verify") /\ job' = job
  BY Zenon, <1>1, <1>3, GoOnKeeps DEF Working
<1> QED BY Zenon, <1>1, <1>2, <1>3

\* Verify goes on, or the agent is undone.
LEMMA VerifyKeeps ==
  ASSUME IInv, NEW w \in Caller, Verify(w)
  PROVE  IInv'
<1>0. TypeOK /\ Owned
  BY Zenon DEF IInv
<1>1. /\ TypeOK' /\ UNCHANGED <<reg, epoch, agents, tokens>> /\ pc[w] = "verify"
      /\ job'[w].name = job[w].name
      /\ \/ Moves(w, "undo")
         \/ /\ Moves(w, "consume") /\ job'[w].token = job[w].token
            /\ job'[w].preview = job[w].preview
  BY Zenon, <1>0, VerifyDoes
<1> QED BY Zenon, <1>1, GoOnKeeps DEF Working

\* The scope that was consumed is the previewed one, so the agent's grants are
\* fresh: a stale one has left the scope, and its name with it.
LEMMA ConsumeKeeps ==
  ASSUME IInv, NEW w \in Caller, Consume(w)
  PROVE  IInv'
<1> DEFINE t == job[w].token
           n == job[w].name
<1>0. TypeOK /\ Owned /\ Current /\ Unique
  BY Zenon DEF IInv
<1>1. /\ TypeOK' /\ UNCHANGED <<reg, epoch, agents>> /\ pc[w] = "consume"
      /\ job'[w].name = job[w].name
      /\ \/ Moves(w, "undo") /\ UNCHANGED tokens
         \/ /\ Moves(w, "undo") \/ (Moves(w, "return") /\ SameScope(w))
            /\ Consumable(t, job[w].snap)
            /\ tokens'[t] # None /\ tokens'[t].spent = tokens[t].single
            /\ tokens'[t].scope = tokens[t].scope /\ tokens'[t].single = tokens[t].single
            /\ \A u \in Token : u # t => tokens'[u] = tokens[u]
  BY Zenon, <1>0, ConsumeDoes
<1>2. t \in Token /\ tokens[t] # None
  BY Zenon, <1>0, <1>1, JobType DEF Working
<1>3. \A u \in Token :
        /\ tokens'[u] # None <=> tokens[u] # None
        /\ tokens'[u].scope = tokens[u].scope
        /\ tokens'[u].single = tokens[u].single
        /\ tokens[u].single /\ tokens[u].spent => tokens'[u].spent
  BY Zenon, <1>1, <1>2
<1>4. CASE Moves(w, "undo")
  BY Zenon, <1>1, <1>3, <1>4, GoOnKeeps DEF Working
<1>5. CASE ~Moves(w, "undo")
  <2>1. /\ Moves(w, "return") /\ SameScope(w) /\ Consumable(t, job[w].snap)
        /\ tokens'[t].spent = tokens[t].single
    BY Zenon, <1>1, <1>5
  <2>2. Conns(tokens[t].scope) = Conns(job[w].preview) /\ ~tokens[t].spent
    BY Zenon, <2>1 DEF Consumable, SameScope, Unspent
  <2>3. ASSUME NEW g \in agents[n].allow, Stale(g)
        PROVE  FALSE
    <3>1. g \in job[w].preview
      BY Zenon, <1>0, <1>1, <2>3 DEF Current, Working
    <3>2. g.conn \notin Conns(tokens[t].scope)
      BY Zenon, <1>0, <1>1, <2>3, <3>1 DEF Current, Working
    <3>3. g.conn \in Conns(job[w].preview)
      BY Zenon, <3>1 DEF Conns
    <3> QED BY Zenon, <2>2, <3>2, <3>3
  <2>4. Fresh(agents[n].allow)
    BY Zenon, <2>3 DEF Fresh
  <2>5. tokens[t].single =>
          /\ tokens'[t].spent /\ \A m \in Name : Winner(m) => agents[m].from # t
    BY Zenon, <1>0, <1>2, <2>1, <2>2 DEF Unique
  <2> QED BY Zenon, <1>1, <1>3, <2>1, <2>4, <2>5, GoOnKeeps DEF Working
<1> QED BY Zenon, <1>4, <1>5

\* Undo leaves the agent revoked, or its secret lost.
LEMMA UndoKeeps ==
  ASSUME IInv, NEW w \in Caller, Undo(w)
  PROVE  IInv'
<1> DEFINE n == job[w].name
<1>0. TypeOK /\ Owned
  BY Zenon DEF IInv
<1>1. /\ TypeOK' /\ UNCHANGED <<reg, epoch, tokens>> /\ pc[w] = "undo"
      /\ Moves(w, "idle") /\ Only(n) /\ agents'[n] # None
      /\ agents'[n].from = agents[n].from
      /\ agents'[n].first # "handed"
      /\ agents'[n].first = "pending" => agents'[n].revoked
      /\ agents'[n].allow = agents[n].allow
      /\ agents'[n].replaced = agents[n].replaced
  BY Zenon, <1>0, UndoDoes
<1>2. n \in Name /\ pc[w] \in Registering
  BY Zenon, <1>0, <1>1, JobType DEF Registering
<1> HIDE DEF n
<1> QED BY Zenon, <1>1, <1>2, LeaveKeeps DEF n

\* Return hands the secret of a fresh agent out.
LEMMA ReturnKeeps ==
  ASSUME IInv, NEW w \in Caller, Return(w)
  PROVE  IInv'
<1> DEFINE n == job[w].name
<1>0. TypeOK /\ Owned
  BY Zenon DEF IInv
<1>1. /\ TypeOK' /\ UNCHANGED <<reg, epoch, tokens>> /\ pc[w] = "return"
      /\ Moves(w, "idle") /\ Only(n) /\ agents'[n] # None
      /\ agents'[n].from = agents[n].from /\ agents'[n].first = "handed"
      /\ agents'[n].allow = agents[n].allow
      /\ agents'[n].replaced = agents[n].replaced
  BY Zenon, <1>0, ReturnDoes
<1>2. n \in Name /\ pc[w] \in Registering
  BY Zenon, <1>0, <1>1, JobType DEF Registering
<1> HIDE DEF n
<1> QED BY Zenon, <1>1, <1>2, LeaveKeeps DEF n

\* A call that a fault ends.
LEMMA InterruptKeeps ==
  ASSUME IInv, NEW w \in Caller, pc[w] # "idle", Interrupt(w), Done(w),
         UNCHANGED <<now, reg, epoch, tokens>>
  PROVE  IInv'
<1> DEFINE n == job[w].name
<1>0. TypeOK /\ Owned
  BY Zenon DEF IInv
<1>1. /\ TypeOK' /\ Moves(w, "idle")
      /\ \/ pc[w] \notin Registering /\ UNCHANGED agents
         \/ /\ pc[w] \in Registering /\ Only(n) /\ agents'[n] # None
            /\ agents'[n].from = agents[n].from /\ agents'[n].first = "lost"
            /\ agents'[n].allow = agents[n].allow
            /\ agents'[n].revoked = agents[n].revoked
            /\ agents'[n].replaced = agents[n].replaced
  BY Zenon, <1>0, InterruptDoes
<1>2. n \in Name
  BY Zenon, <1>0, JobType
<1>3. CASE pc[w] \notin Registering
  BY Zenon, <1>1, <1>3, StopKeeps
<1>4. CASE pc[w] \in Registering
  <2> HIDE DEF n
  <2> QED BY Zenon, <1>1, <1>2, <1>4, LeaveKeeps DEF n
<1> QED BY Zenon, <1>3, <1>4

\* A failing statement, wherever it fails.
LEMMA DbErrorKeeps ==
  ASSUME IInv, NEW w \in Caller, DbError(w)
  PROVE  IInv'
<1>0. TypeOK /\ Owned
  BY Zenon DEF IInv
<1>1. UNCHANGED <<now, reg, epoch, tokens>>
  BY Zenon DEF DbError
<1>2. CASE pc[w] \in {"create", "fetch", "swap"} /\ Interrupt(w) /\ Done(w)
  BY Zenon, <1>1, <1>2, InterruptKeeps
<1>3. CASE /\ pc[w] \in {"verify", "consume"}
           /\ Goto(w, "undo") /\ KeepName(w) /\ UNCHANGED agents
  <2>1. TypeOK' /\ Moves(w, "undo") /\ job'[w].name = job[w].name
    BY Zenon, <1>0, <1>1, <1>3, FailDoes
  <2> QED BY Zenon, <1>1, <1>3, <2>1, GoOnKeeps DEF Working
<1> QED BY Zenon, <1>2, <1>3 DEF DbError

\* A rotation starts with a row that is there, and stays.
LEMMA StartRotateKeeps ==
  ASSUME IInv, NEW w \in Caller, NEW n \in Name, StartRotate(w, n)
  PROVE  IInv'
<1>0. TypeOK /\ Owned /\ NoStrayAgent /\ Current /\ Unique /\ Chain
  BY Zenon DEF IInv
<1>1. /\ TypeOK' /\ UNCHANGED <<reg, epoch, agents, tokens>> /\ pc[w] = "idle"
      /\ Moves(w, "swap") /\ job'[w].name = n /\ agents[n] # None
  BY Zenon, <1>0, StartRotateDoes
<1>2. Owned'
  BY <1>0, <1>1 DEF Owned, Moves, Registering, Working
<1>3. NoStrayAgent'
  BY <1>0, <1>1 DEF NoStrayAgent, Active, Moves, Registering
<1>4. Current'
  BY <1>0, <1>1 DEF Current, Fresh, Stale, Moves, Working
<1>5. Unique'
  BY <1>0, <1>1 DEF Unique, Winner, Moves
<1>6. Chain'
  BY Zenon, <1>0, <1>1 DEF Chain
<1> QED BY Zenon, <1>1, <1>2, <1>3, <1>4, <1>5, <1>6 DEF IInv

\* The secret a rotation replaces is the last of the chain.
LEMMA SwapKeeps ==
  ASSUME IInv, NEW w \in Caller, Swap(w)
  PROVE  IInv'
<1> DEFINE n == job[w].name
<1>0. TypeOK /\ Owned /\ NoStrayAgent /\ Current /\ Unique /\ Chain
  BY Zenon DEF IInv
<1>1. /\ TypeOK' /\ UNCHANGED <<reg, epoch, tokens>> /\ pc[w] = "swap"
      /\ Moves(w, "idle")
      /\ \/ UNCHANGED agents
         \/ /\ Active(n) /\ Only(n) /\ Keeps(n)
            /\ agents'[n].allow = agents[n].allow
            /\ agents'[n].revoked = agents[n].revoked
            /\ agents'[n].replaced = Append(agents[n].replaced, Secret(n))
  BY Zenon, <1>0, SwapDoes
<1>a. n \in Name
  BY Zenon, <1>0, <1>1, JobType
<1>2. CASE UNCHANGED agents
  BY Zenon, <1>1, <1>2, StopKeeps DEF Registering
<1>3. CASE ~UNCHANGED agents
  <2> HIDE DEF n
  <2>0. agents[n] # None /\ agents'[n] # None
    BY Zenon, <1>1, <1>3 DEF Keeps
  <2>1. \A m \in Name :
          /\ agents'[m] # None <=> agents[m] # None
          /\ agents'[m].from = agents[m].from /\ agents'[m].first = agents[m].first
          /\ agents'[m].allow = agents[m].allow /\ agents'[m].revoked = agents[m].revoked
    BY Zenon, <1>1, <1>3 DEF Keeps, Only
  <2>2. \A v \in Caller : pc'[v] # "idle" => v # w /\ pc'[v] = pc[v] /\ job'[v] = job[v]
    BY Zenon, <1>1 DEF Moves
  <2>3. \A v \in Caller : pc[v] \in Registering => pc'[v] = pc[v] /\ job'[v] = job[v]
    BY Zenon, <1>1 DEF Moves, Registering
  <2>4. \A v \in Caller : pc[v] # "idle" => job[v].name \in Name
    BY Zenon, <1>0, JobType
  <2>a. \A v \in Caller : pc'[v] \in Registering \cup Working \cup {"swap"} =>
          /\ pc'[v] = pc[v] /\ job'[v] = job[v] /\ job[v].name \in Name
          /\ agents'[job[v].name] # None <=> agents[job[v].name] # None
          /\ agents'[job[v].name].from = agents[job[v].name].from
          /\ agents'[job[v].name].first = agents[job[v].name].first
          /\ agents'[job[v].name].allow = agents[job[v].name].allow
    BY Zenon, <2>1, <2>2, <2>4 DEF Registering, Working
  <2>5. Owned'
    <3>1. \A v \in Caller :
            /\ pc'[v] # "idle" => job'[v].name \in Name
            /\ pc'[v] \in Working =>
                 job'[v].token \in Token /\ tokens[job'[v].token] # None
      BY Zenon, <1>0, <2>2 DEF Owned, Working
    <3>2. \A v \in Caller : pc'[v] \in Registering =>
            /\ agents'[job'[v].name] # None
            /\ agents'[job'[v].name].first = "pending"
            /\ pc'[v] \in Working => agents'[job'[v].name].from = job'[v].token
      BY <1>0, <2>a DEF Owned
    <3>3. \A v \in Caller : pc'[v] = "swap" => agents'[job'[v].name] # None
      BY <1>0, <2>a DEF Owned
    <3>4. \A v, u \in Caller :
            pc'[v] \in Registering /\ pc'[u] \in Registering /\ job'[v].name = job'[u].name
              => v = u
      BY Zenon, <1>0, <2>a DEF Owned
    <3>5. \A m \in Name :
            agents'[m] # None /\ agents'[m].from # None => tokens[agents'[m].from] # None
      BY Zenon, <1>0, <2>1 DEF Owned
    <3> QED BY Zenon, <1>1, <3>1, <3>2, <3>3, <3>4, <3>5 DEF Owned
  <2>6. NoStrayAgent'
    BY <1>0, <2>1, <2>3 DEF NoStrayAgent, Active
  <2>7. Current'
    <3>1. \A v \in Caller : pc'[v] \in Working =>
            \A g \in job'[v].preview :
              Stale(g) => g.conn \notin Conns(tokens[job'[v].token].scope)
      BY Zenon, <1>0, <2>a DEF Current
    <3>2. \A v \in Caller : pc'[v] \in Working \ {"create"} =>
            \A g \in agents'[job'[v].name].allow : Stale(g) => g \in job'[v].preview
      BY Zenon, <1>0, <2>a DEF Current
    <3>3. \A v \in Caller : pc'[v] = "return" => Fresh(agents'[job'[v].name].allow)
      BY <1>0, <2>a DEF Current, Registering
    <3>4. \A m \in Name : agents'[m] # None /\ agents'[m].first = "handed" =>
            Fresh(agents'[m].allow)
      BY Zenon, <1>0, <2>1 DEF Current
    <3> QED BY <1>0, <1>1, <3>1, <3>2, <3>3, <3>4 DEF Current, Fresh, Stale
  <2>8. Unique'
    BY Zenon, <1>0, <1>1, <2>1, <2>2, UniqueAside DEF Winner
  <2>9. Chain'
    <3> DEFINE s == agents[n].replaced
    <3>1. s \in Seq(Nat) /\ \A i \in DOMAIN s : s[i] = i
      BY Zenon, <1>0, <1>a, <2>0, AgentType DEF Chain
    <3>2. agents'[n].replaced = Append(s, Len(s) + 1)
      BY Zenon, <1>1, <1>3 DEF Secret
    <3> HIDE DEF s
    <3>3. \A i \in DOMAIN Append(s, Len(s) + 1) : Append(s, Len(s) + 1)[i] = i
      BY <3>1
    <3> QED BY Zenon, <1>0, <1>1, <1>3, <3>2, <3>3 DEF Chain, Only
  <2> QED BY Zenon, <1>1, <2>5, <2>6, <2>7, <2>8, <2>9 DEF IInv
<1> QED BY Zenon, <1>2, <1>3

\* Time passes, or nothing happens.
LEMMA AsideKeeps ==
  ASSUME IInv, UNCHANGED <<reg, epoch, agents, tokens, pc, job>>, now' \in Nat
  PROVE  IInv'
<1>1. TypeOK' /\ NoStrayAgent' /\ Chain'
  BY DEF IInv, TypeOK, NoStrayAgent, Active, Chain
<1>a. Owned'
  BY Zenon DEF IInv, Owned
<1>b. Unique'
  BY DEF IInv, Unique, Winner
<1>2. Current'
  BY Zenon DEF IInv, Current, Fresh, Stale, Conns
<1> QED BY Zenon, <1>1, <1>2, <1>a, <1>b DEF IInv

-----------------------------------------------------------------------------
(***************************************************************************)
(* The theorems.                                                           *)
(***************************************************************************)

\* Nobody registers and nothing is minted at the start.
LEMMA InitInv == Init => IInv
<1> SUFFICES ASSUME Init PROVE IInv
  BY Zenon
<1>1. NoJob \in Job /\ "idle" \in PC
  BY Zenon, JobOf DEF PC
<1>2. TypeOK
  BY Zenon, <1>1 DEF Init, TypeOK
<1>3. (\A n \in Name : agents[n] = None) /\ (\A t \in Token : tokens[t] = None)
      /\ \A w \in Caller : pc[w] = "idle"
  BY Zenon DEF Init
<1>4. Owned /\ NoStrayAgent /\ Current /\ Unique /\ Chain
  BY Zenon, <1>3
    DEF Owned, NoStrayAgent, Active, Current, Unique, Winner, Chain, Registering, Working
<1> QED BY Zenon, <1>2, <1>4 DEF IInv

\* Every step keeps the invariant.
LEMMA StepInv == IInv /\ [Next]_vars => IInv'
<1> SUFFICES ASSUME IInv, [Next]_vars PROVE IInv'
  BY Zenon
<1>1. CASE Operate
  <2>1. ASSUME NEW c \in Conn, Replace(c) \/ Delete(c) PROVE IInv'
    BY Zenon, <2>1, ConnKeeps
  <2>2. ASSUME NEW c \in Conn, NEW d \in {"enabled", "disabled"}, SetDisabled(c, d) PROVE IInv'
    BY Zenon, <2>2, SetDisabledKeeps
  <2>3. ASSUME NEW t \in Token, NEW C \in SUBSET Conn, NEW e \in Expiry,
               NEW single \in BOOLEAN, Mint(t, C, e, single) PROVE IInv'
    BY Zenon, <2>3, MintKeeps
  <2>4. ASSUME NEW t \in Token, RevokeToken(t) PROVE IInv'
    BY Zenon, <2>4, RevokeTokenKeeps
  <2>5. ASSUME NEW n \in Name, NEW C \in SUBSET Conn,
               CreateAgent(n, C) \/ ModifyAgent(n, C) PROVE IInv'
    BY Zenon, <2>5, OperatorKeeps
  <2>6. ASSUME NEW n \in Name, RevokeAgent(n) PROVE IInv'
    BY Zenon, <2>6, OperatorKeeps
  <2> QED BY Zenon, <1>1, <2>1, <2>2, <2>3, <2>4, <2>5, <2>6 DEF Operate
<1>2. ASSUME NEW w \in Caller, Call(w) PROVE IInv'
  <2>1. ASSUME NEW t \in Token, NEW n \in Name, Register(w, t, n) PROVE IInv'
    BY Zenon, <2>1, RegisterKeeps
  <2>2. ASSUME NEW n \in Name, StartRotate(w, n) PROVE IInv'
    BY Zenon, <2>2, StartRotateKeeps
  <2>3. CASE Cancel(w)
    BY Zenon, <2>3, InterruptKeeps DEF Cancel
  <2>4. CASE Create(w) \/ Fetch(w) \/ Verify(w) \/ Consume(w)
    BY Zenon, <2>4, CreateKeeps, FetchKeeps, VerifyKeeps, ConsumeKeeps
  <2>5. CASE Undo(w) \/ Return(w) \/ Swap(w) \/ DbError(w)
    BY Zenon, <2>5, UndoKeeps, ReturnKeeps, SwapKeeps, DbErrorKeeps
  <2> QED BY Zenon, <1>2, <2>1, <2>2, <2>3, <2>4, <2>5 DEF Call
<1>3. CASE Advance
  <2>1. now' \in Nat
    BY <1>3 DEF Advance, IInv, TypeOK
  <2> QED BY Zenon, <1>3, <2>1, AsideKeeps DEF Advance
<1>4. CASE UNCHANGED vars
  <2>1. now' \in Nat
    BY Zenon, <1>4 DEF vars, IInv, TypeOK
  <2> QED BY Zenon, <1>4, <2>1, AsideKeeps DEF vars
<1> QED BY Zenon, <1>1, <1>2, <1>3, <1>4 DEF Next

\* The inductive invariant holds throughout.
LEMMA Invariant == Spec => []IInv
  BY InitInv, StepInv, PTL DEF Spec

\* An agent that holds its credential is authorised only for connections that
\* the operator reviewed, whatever happened to them between the preview, the
\* insertion and the consumption of the token (register_agent_inner and the
\* triggers of migration 0009).
THEOREM GrantsHold == Spec => []GrantsAreReviewed
<1>1. IInv => GrantsAreReviewed
  BY Zenon DEF IInv, Current, Fresh, GrantsAreReviewed, Active, Handed
<1> QED BY <1>1, Invariant, PTL

\* A single-use token yields at most one credential (consume's UPDATE).
THEOREM OneAgentPerToken == Spec => []SingleUse
<1>1. IInv => SingleUse
  BY Zenon DEF IInv, Unique, Winner, SingleUse, Enrolled, Handed
<1> QED BY <1>1, Invariant, PTL

\* No refused registration leaves an active agent (the cleanup in
\* register_agent_inner).
THEOREM NoAgentStrays == Spec => []NoStrayAgent
<1>1. IInv => NoStrayAgent
  BY Zenon DEF IInv
<1> QED BY <1>1, Invariant, PTL

\* The secrets of an agent form a chain: no two rotations replace the same one
\* (rotate's compare-and-swap).
THEOREM SecretsChain == Spec => []RotationIsAChain
<1>1. IInv => RotationIsAChain
  BY Zenon DEF IInv, Chain, RotationIsAChain, IsInjective
<1> QED BY <1>1, Invariant, PTL

\* A revoked agent stays revoked and its secret stays what it was (revoke, rotate).
THEOREM RevocationIsFinal == Spec => RevokedIsFrozen
<1>1. IInv /\ [Next]_vars => [Frozen]_vars
  <2> SUFFICES ASSUME IInv, Next, NEW n \in Name, agents[n] # None, agents[n].revoked
               PROVE  /\ agents'[n] # None /\ agents'[n].revoked
                      /\ agents'[n].replaced = agents[n].replaced
    BY Zenon DEF Frozen
  <2>0. TypeOK /\ Owned
    BY Zenon DEF IInv
  <2>1. CASE Operate
    <3>1. ASSUME NEW c \in Conn, Replace(c) \/ Delete(c)
          PROVE  /\ agents'[n] # None /\ agents'[n].revoked
                 /\ agents'[n].replaced = agents[n].replaced
      BY Zenon, <2>0, <3>1, ConnDoes, PruneDoes
    <3>2. ASSUME NEW m \in Name, NEW C \in SUBSET Conn,
                 CreateAgent(m, C) \/ ModifyAgent(m, C) \/ RevokeAgent(m)
          PROVE  /\ agents'[n] # None /\ agents'[n].revoked
                 /\ agents'[n].replaced = agents[n].replaced
      BY Zenon, <2>0, <3>2, OperatorDoes DEF Only, Keeps
    <3> QED BY Zenon, <2>1, <3>1, <3>2 DEF Operate, SetDisabled, Mint, RevokeToken
  <2>2. ASSUME NEW w \in Caller, Call(w)
        PROVE  /\ agents'[n] # None /\ agents'[n].revoked
               /\ agents'[n].replaced = agents[n].replaced
    <3>1. CASE Create(w)
      BY Zenon, <2>0, <3>1, CreateDoes DEF Only
    <3>2. CASE Undo(w)
      BY Zenon, <2>0, <3>2, UndoDoes DEF Only
    <3>3. CASE Return(w)
      BY Zenon, <2>0, <3>3, ReturnDoes DEF Only
    <3>4. CASE Swap(w)
      BY Zenon, <2>0, <3>4, SwapDoes DEF Only, Active
    <3>5. ASSUME pc[w] # "idle", Interrupt(w), Done(w), UNCHANGED <<now, reg, epoch, tokens>>
          PROVE  /\ agents'[n] # None /\ agents'[n].revoked
                 /\ agents'[n].replaced = agents[n].replaced
      BY Zenon, <2>0, <3>5, InterruptDoes DEF Only
    <3>6. CASE DbError(w) \/ Cancel(w)
      BY Zenon, <3>5, <3>6 DEF DbError, Cancel
    <3> QED BY Zenon, <2>2, <3>1, <3>2, <3>3, <3>4, <3>6
            DEF Call, Register, StartRotate, Fetch, Verify, Consume
  <2> QED BY Zenon, <2>1, <2>2 DEF Next, Advance
<1> QED BY <1>1, Invariant, PTL DEF Spec, RevokedIsFrozen

=============================================================================
