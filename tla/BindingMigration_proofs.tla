----------------------- MODULE BindingMigration_proofs -----------------------
(***************************************************************************)
(* Proofs about BindingMigration, for any agents, registrations, owners,   *)
(* plans and writes of others.                                             *)
(*                                                                         *)
(* That a reviewed plan takes effect at most once needs little: plans that *)
(* took effect carry a revision of the past (OnceInv).  The rest needs     *)
(* MigrationInv: plans are complete; what the transaction has written so   *)
(* far is the part of its plan that is done (Partly), and the tables,      *)
(* which nobody else can write meanwhile, still bear out what run checked  *)
(* (Backed); receipts are of revisions gone by (Recorded); and a plan      *)
(* since whose preview nothing has changed is what a preview would say now *)
(* (Fresh).                                                                *)
(***************************************************************************)
EXTENDS BindingMigration, TLAPS

\* Plans that took effect are of the past.
Past == \A p \in took : p.snapshot.revision \in Nat /\ p.snapshot.revision < revision

\* The plan being applied is of the present.
Present ==
    tx # None =>
        /\ tx.owner \in Owner
        /\ plan[tx.owner].snapshot.revision = revision
        /\ tx.recorded => tx.revision = revision + 1

OnceInv == revision \in Nat /\ plan \in [Owner -> {plan[o] : o \in Owner}] /\ Past /\ Present

-----------------------------------------------------------------------------

\* A step that leaves the transaction, its plan and the bookkeeping alone keeps
\* the invariant.
LEMMA Aside ==
  ASSUME OnceInv, UNCHANGED <<revision, took, tx, plan>>
  PROVE  OnceInv'
  BY DEF OnceInv, Past, Present

\* An owner who is not applying gets another plan.
LEMMA Replan ==
  ASSUME OnceInv, NEW o \in Owner, NEW p, tx # None => tx.owner # o,
         plan' = [plan EXCEPT ![o] = p], UNCHANGED <<revision, took, tx>>
  PROVE  OnceInv'
<1>1. plan' \in [Owner -> {plan'[q] : q \in Owner}]
  BY DEF OnceInv
<1>2. \A q \in Owner : q # o => plan'[q] = plan[q]
  BY DEF OnceInv
<1>3. Present'
  BY <1>2 DEF OnceInv, Present
<1> QED
  BY <1>1, <1>3 DEF OnceInv, Past

\* A transaction begins for a plan of the present only.
LEMMA BeginsPresent ==
  ASSUME OnceInv, NEW o \in Owner, Begin(o)
  PROVE  OnceInv'
<1>1. UNCHANGED <<revision, took, plan>>
  BY DEF Begin
<1>2. CASE UNCHANGED tx
  BY <1>1, <1>2, Aside
<1>3. CASE UnchangedSince(plan[o])
           /\ tx' = Transaction(o, db, plan[o].rows, plan[o].policies, revision,
                                   receipts, FALSE)
  <2>1. plan[o].snapshot.revision = revision
    BY <1>3, SMTT(20) DEF UnchangedSince, Inventory, Snapshot
  <2>2. tx'.owner = o /\ tx'.recorded = FALSE
    BY <1>3 DEF Transaction
  <2>3. Present'
    BY <1>1, <2>1, <2>2 DEF Present
  <2> QED BY <1>1, <2>3 DEF OnceInv, Past
<1> QED
  BY <1>2, <1>3, Zenon DEF Begin

\* The statements of a transaction stay with its plan; the last ones record the
\* next revision.
LEMMA WritesPresent ==
  ASSUME OnceInv,
         \/ \E x \in Agent \X Name : InsertBinding(x)
         \/ \E a \in Agent : UpdateAgent(a)
         \/ Record
  PROVE  OnceInv'
<1>1. UNCHANGED <<revision, took, plan>> /\ tx # None
  BY Zenon DEF InsertBinding, UpdateAgent, Record
<1>2. tx'.owner = tx.owner /\ (tx'.recorded => tx'.revision = revision + 1)
  <2>1. CASE Record
    BY <2>1 DEF Record, Transaction
  <2>2. CASE \/ \E x \in Agent \X Name : InsertBinding(x)
             \/ \E a \in Agent : UpdateAgent(a)
    <3>1. \E work, rows, policies :
             tx' = Transaction(tx.owner, work, rows, policies, revision, receipts, FALSE)
      BY <2>2, Zenon DEF InsertBinding, UpdateAgent
    <3> QED BY <3>1 DEF Transaction
  <2> QED BY <2>1, <2>2
<1>3. Present'
  BY <1>1, <1>2 DEF OnceInv, Present
<1> QED
  BY <1>1, <1>3 DEF OnceInv, Past

\* COMMIT makes the plan one of the past.
LEMMA CommitsPast ==
  ASSUME OnceInv, Commit
  PROVE  OnceInv'
<1>1. revision' = revision + 1 /\ plan' = plan
  BY DEF OnceInv, Present, Commit
<1>2. revision \in Nat /\ plan[tx.owner].snapshot.revision = revision
  BY DEF OnceInv, Present, Commit
<1>3. took' = took \cup {plan[tx.owner]} /\ tx' = None
  BY DEF Commit
<1>4. Past'
  BY <1>1, <1>2, <1>3 DEF OnceInv, Past
<1> QED
  BY <1>1, <1>2, <1>3, <1>4 DEF OnceInv, Present

\* What others write touches neither plans nor the bookkeeping.
LEMMA OthersAside == Others => UNCHANGED <<revision, took, tx, plan>>
  BY Zenon DEF Others, RevokeAgent, Expire, SetPolicy, SetDenylist,
         PutRegistration, DeleteRegistration, ToggleRegistration, DegradeSession,
         SetBinding, ClearBinding, TombstoneSecret, EditLegacy, Write,
         Meanwhile

\* Every step keeps the invariant.
LEMMA OnceStep ==
  ASSUME OnceInv, [Next]_vars
  PROVE  OnceInv'
<1>1. ASSUME NEW o \in Owner, NEW v \in {1, 2}, Preview(o, v) PROVE OnceInv'
  BY <1>1, Replan, Zenon DEF Preview
<1>2. ASSUME NEW o \in Owner, NEW mark \in Marks, Review(o, mark) PROVE OnceInv'
  <2>1. PICK p : plan' = [plan EXCEPT ![o] = p]
    BY <1>2, Zenon DEF Review
  <2> QED BY <1>2, <2>1, Replan, Zenon DEF Review
<1>3. ASSUME Apply PROVE OnceInv'
  <2>1. CASE Rollback
    BY <2>1 DEF OnceInv, Past, Present, Rollback
  <2> QED BY <1>3, <2>1, BeginsPresent, WritesPresent, CommitsPast DEF Apply
<1>4. ASSUME Others PROVE OnceInv'
  BY <1>4, OthersAside, Aside
<1>5. ASSUME UNCHANGED vars PROVE OnceInv'
  BY <1>5, Aside DEF vars
<1> QED
  BY <1>1, <1>2, <1>3, <1>4, <1>5 DEF Next

\* The inductive invariant: plans that took effect carry a revision of the past,
\* the one being applied carries the present one.
THEOREM OnceInvariant == Spec => []OnceInv
<1>1. Init => OnceInv
  BY DEF Init, OnceInv, Past, Present
<1> QED
  BY <1>1, OnceStep, PTL DEF Spec

\* No reviewed plan takes effect twice, however often and by whomever it is applied
\* again, whatever has changed or been taken back since (run, record).
THEOREM PlansTakeEffectOnce == Spec => TakesEffectOnce
<1>1. OnceInv /\ [Next]_vars =>
          [Ends /\ db' # db => plan[tx.owner] \notin took]_vars
  <2> SUFFICES ASSUME OnceInv, Next, Ends, db' # db PROVE plan[tx.owner] \notin took
    OBVIOUS
  <2>1. tx # None /\ revision \in Nat /\ plan[tx.owner].snapshot.revision = revision
    BY DEF OnceInv, Present, Ends
  <2> QED BY <2>1 DEF OnceInv, Past
<1> QED
  BY <1>1, OnceInvariant, PTL DEF Spec, TakesEffectOnce

-----------------------------------------------------------------------------
(***************************************************************************)
(* The invariant of the migration.                                         *)
(***************************************************************************)

\* A plan whose selected rows are in it, and whose policies have their grants.
Complete(p) ==
    /\ p \in Plan
    /\ \A x \in p.rows : p.entries[x] # None
    /\ p.policies # {} => p.version = 2
    /\ p.version = 2 => p.grants \in [Agent -> SUBSET Name]

\* What the transaction has written so far, of the plan p.
Partly(p) ==
    /\ tx.rows \subseteq p.rows /\ tx.policies \subseteq p.policies
    /\ tx.work \in Tables
    /\ tx.work.regs = db.regs /\ tx.work.sealed = db.sealed
    /\ tx.work.sessions = db.sessions
    /\ \A x \in Agent \X Name :
         tx.work.bindings[x] = IF x \in p.rows \ tx.rows THEN p.entries[x].auth
                               ELSE db.bindings[x]
    /\ \A a \in Agent :
         tx.work.agents[a] = IF a \in p.policies \ tx.policies
                             THEN [db.agents[a] EXCEPT !.allow = p.grants[a],
                                                       !.reviewed = TRUE]
                             ELSE db.agents[a]

\* What the tables say for the selection of p.
Backed(p) ==
    /\ \A x \in p.rows :
         /\ db.regs[x[2]] # None /\ ~db.regs[x[2]].disabled
         /\ ~db.agents[x[1]].revoked /\ db.bindings[x] = None
         /\ p.entries[x].auth = Inherited(db.regs[x[2]].auth)
         /\ Usable(SourceReason(x[2], p.entries[x].auth))
    /\ \A a \in p.policies :
         p.grants[a] \subseteq
            {n \in Name : db.regs[n] # None /\ n \notin db.agents[a].deny
                          /\ (db.agents[a].allow # None => n \in db.agents[a].allow)}

\* Receipts are of plans that took effect before revision v.
Recorded(R, v) ==
    \A r \in R : /\ r.reviewed \in Plan /\ r.after.tables \in Tables
                 /\ r.reviewed.snapshot.revision < v

\* The transaction under way: what it has written so far is part of what its
\* plan selects, and the tables still bear the plan out.
Underway ==
    tx # None => /\ plan[tx.owner] # None
                 /\ Partly(plan[tx.owner]) /\ Backed(plan[tx.owner])
                 /\ Recorded(tx.receipts, revision + 1)
                 /\ tx.recorded => tx.rows = {} /\ tx.policies = {}

\* A fresh plan is what a preview would say now, and is not refused.
Fresh ==
    \A o \in Owner :
        /\ o \in fresh => UnchangedSince(plan[o])
        /\ answer[o] = "conflict" /\ Proposals(plan[o]) => o \notin fresh

MigrationInv ==
    /\ OnceInv /\ TypeOK
    /\ plan \in [Owner -> Plan \cup {None}]
    /\ \A o \in Owner : plan[o] # None => Complete(plan[o])
    /\ Recorded(receipts, revision)
    /\ Underway /\ Fresh

-----------------------------------------------------------------------------
(***************************************************************************)
(* Types.                                                                  *)
(***************************************************************************)

\* A table of the database is replaced.
LEMMA TableWrites ==
  ASSUME NEW d \in Tables
  PROVE  /\ d.agents \in [Agent -> AgentRow]
         /\ d.regs \in [Name -> Registration \cup {None}]
         /\ d.bindings \in [Agent \X Name -> AuthSpec \cup {None}]
         /\ \A t \in [Agent -> AgentRow] : [d EXCEPT !.agents = t] \in Tables
         /\ \A t \in [Name -> Registration \cup {None}] : [d EXCEPT !.regs = t] \in Tables
         /\ \A t \in [Agent \X Name -> AuthSpec \cup {None}] :
              [d EXCEPT !.bindings = t] \in Tables
         /\ \A t \in {"live", "tombstoned"} : [d EXCEPT !.sealed = t] \in Tables
         /\ \A t \in [Name -> {"none", "healthy", "degraded"}] :
              [d EXCEPT !.sessions = t] \in Tables
  BY Zenon DEF Tables

\* A row of agents is written.
LEMMA AgentWrites ==
  ASSUME NEW r \in AgentRow
  PROVE  /\ [r EXCEPT !.revoked = TRUE] \in AgentRow
         /\ \A S \in SUBSET Name :
              /\ [r EXCEPT !.deny = S] \in AgentRow
              /\ [r EXCEPT !.allow = S] \in AgentRow
              /\ [r EXCEPT !.allow = S, !.reviewed = TRUE] \in AgentRow
  BY Zenon DEF AgentRow

\* The writes of others keep the types of the tables.
LEMMA OthersTables ==
  ASSUME db \in Tables, Others
  PROVE  db' \in Tables
<1>a. /\ db.agents \in [Agent -> AgentRow]
      /\ db.regs \in [Name -> Registration \cup {None}]
      /\ db.bindings \in [Agent \X Name -> AuthSpec \cup {None}]
      /\ db.sessions \in [Name -> {"none", "healthy", "degraded"}]
  BY TableWrites, Zenon DEF Tables
<1>1. ASSUME NEW a \in Agent, RevokeAgent(a) PROVE db' \in Tables
  <2>1. db' = [db EXCEPT !.agents = [db.agents EXCEPT ![a] =
                  [db.agents[a] EXCEPT !.revoked = TRUE]]]
    BY <1>1 DEF RevokeAgent, Write
  <2>2. [db.agents[a] EXCEPT !.revoked = TRUE] \in AgentRow
    BY <1>a, AgentWrites, Zenon
  <2> QED BY <1>a, <2>1, <2>2, TableWrites, Zenon
<1>2. ASSUME NEW a \in Agent, NEW S \in SUBSET Name, SetPolicy(a, S) PROVE db' \in Tables
  <2>1. db' = [db EXCEPT !.agents = [db.agents EXCEPT ![a] =
                  [db.agents[a] EXCEPT !.allow = S, !.reviewed = TRUE]]]
    BY <1>2, <1>a, Zenon DEF SetPolicy, Write, Tables
  <2>2. [db.agents[a] EXCEPT !.allow = S, !.reviewed = TRUE] \in AgentRow
    BY <1>a, AgentWrites, Zenon
  <2> QED BY <1>a, <2>1, <2>2, TableWrites, Zenon
<1>3. ASSUME NEW a \in Agent, NEW S \in SUBSET Name, SetDenylist(a, S) PROVE db' \in Tables
  <2>1. db' = [db EXCEPT !.agents = [db.agents EXCEPT ![a] = [db.agents[a] EXCEPT !.deny = S]]]
    BY <1>3 DEF SetDenylist, Write
  <2>2. [db.agents[a] EXCEPT !.deny = S] \in AgentRow
    BY <1>a, AgentWrites, Zenon
  <2> QED BY <1>a, <2>1, <2>2, TableWrites, Zenon
<1>4. ASSUME NEW n \in Name, NEW r \in Registration \cup {None}
      PROVE  Withdrawn(n, r) \in Tables
  <2> DEFINE R == [db.regs EXCEPT ![n] = r]
             B == [x \in Agent \X Name |-> IF x[2] = n THEN None ELSE db.bindings[x]]
             A == [a \in Agent |->
                     IF db.agents[a].reviewed /\ db.agents[a].allow # None
                     THEN [db.agents[a] EXCEPT !.allow = @ \ {n}] ELSE db.agents[a]]
  <2>1. R \in [Name -> Registration \cup {None}]
    BY <1>a
  <2>2. B \in [Agent \X Name -> AuthSpec \cup {None}]
    BY <1>a
  <2>3. A \in [Agent -> AgentRow]
    <3>1. ASSUME NEW a \in Agent, db.agents[a].allow # None
          PROVE  [db.agents[a] EXCEPT !.allow = @ \ {n}] \in AgentRow
      <4>1. db.agents[a] \in AgentRow
        BY <1>a
      <4>2. db.agents[a].allow \in SUBSET Name
        BY <3>1, <4>1 DEF AgentRow
      <4> QED BY <4>1, <4>2, AgentWrites, Zenon
    <3> QED BY <1>a, <3>1
  <2>4. Withdrawn(n, r) = [db EXCEPT !.regs = R, !.bindings = B, !.agents = A]
    BY DEF Withdrawn
  <2> HIDE DEF R, B, A
  <2> QED BY <2>1, <2>2, <2>3, <2>4, Zenon DEF Tables
<1>5. ASSUME NEW n \in Name, NEW s \in Templates, PutRegistration(n, s) PROVE db' \in Tables
  <2>0. s \in AuthSpec
    BY MigrationAssumption
  <2>1. CASE db.regs[n] = None
    <3>1. [auth |-> s, disabled |-> FALSE] \in Registration
      BY <2>0 DEF Registration
    <3> QED BY <1>4, <1>5, <2>1, <3>1 DEF PutRegistration, Write
  <2>2. CASE db.regs[n] # None
    <3>1. db' = [db EXCEPT !.regs = [db.regs EXCEPT ![n] = [db.regs[n] EXCEPT !.auth = s]]]
      BY <1>5, <2>2 DEF PutRegistration, Write
    <3>2. [db.regs[n] EXCEPT !.auth = s] \in Registration
      BY <1>a, <2>0, <2>2 DEF Registration
    <3> QED BY <1>a, <3>1, <3>2, TableWrites, Zenon
  <2> QED BY <2>1, <2>2
<1>6. ASSUME NEW n \in Name, DeleteRegistration(n) PROVE db' \in Tables
  BY <1>4, <1>6 DEF DeleteRegistration, Write
<1>7. ASSUME NEW n \in Name, ToggleRegistration(n) PROVE db' \in Tables
  <2>1. db' = [db EXCEPT !.regs = [db.regs EXCEPT ![n] = [db.regs[n] EXCEPT !.disabled = ~@]]]
    BY <1>7 DEF ToggleRegistration, Write
  <2>2. [db.regs[n] EXCEPT !.disabled = ~@] \in Registration
    BY <1>a, <1>7, Zenon DEF Registration, ToggleRegistration
  <2> QED BY <1>a, <2>1, <2>2, TableWrites, Zenon
<1>8. ASSUME NEW n \in Name, DegradeSession(n) PROVE db' \in Tables
  <2>1. db' = [db EXCEPT !.sessions = [db.sessions EXCEPT ![n] = "degraded"]]
    BY <1>8 DEF DegradeSession, Write
  <2> QED BY <1>a, <2>1, TableWrites, Zenon
<1>9. ASSUME NEW x \in Agent \X Name, NEW s \in Choices, SetBinding(x, s) PROVE db' \in Tables
  <2>1. db' = [db EXCEPT !.bindings = [db.bindings EXCEPT ![x] = s]]
    BY <1>9 DEF SetBinding, Write
  <2>2. s \in AuthSpec
    BY MigrationAssumption
  <2> QED BY <1>a, <2>1, <2>2, TableWrites, Zenon
<1>10. ASSUME NEW x \in Agent \X Name, ClearBinding(x) PROVE db' \in Tables
  <2>1. db' = [db EXCEPT !.bindings = [db.bindings EXCEPT ![x] = None]]
    BY <1>10 DEF ClearBinding, Write
  <2> QED BY <1>a, <2>1, TableWrites, Zenon
<1>11. ASSUME TombstoneSecret PROVE db' \in Tables
  BY <1>11, TableWrites, Zenon DEF TombstoneSecret, Write
<1>12. ASSUME NEW a \in Agent, Expire(a) PROVE db' \in Tables
  BY <1>12 DEF Expire
<1>13. ASSUME NEW l \in Legacies, EditLegacy(l) PROVE db' \in Tables
  BY <1>13 DEF EditLegacy
<1> QED
  BY <1>1, <1>2, <1>3, <1>5, <1>6, <1>7, <1>8, <1>9, <1>10, <1>11, <1>12, <1>13
  DEF Others

\* What the inventory says of a pair.
LEMMA EntriesType ==
  ASSUME db \in Tables
  PROVE  /\ Entries \in [Agent \X Name ->
                [auth : AuthSpec, action : {"propose", "preserve", "skip"},
                 reason : Reason] \cup {None}]
         /\ \A a \in Agent : Eligible(a) \in SUBSET Name
<1>a. /\ db.regs \in [Name -> Registration \cup {None}]
      /\ db.bindings \in [Agent \X Name -> AuthSpec \cup {None}]
  BY TableWrites, Zenon
<1>b. db.sealed \in Reason /\ \A n \in Name : db.sessions[n] \in Reason
  BY DEF Tables, Reason
<1>1. ASSUME NEW n \in Name, NEW s \in AuthSpec PROVE SourceReason(n, s) \in Reason
  <2>1. OauthReason(n, s) \in Reason
    BY <1>b DEF OauthReason, Reason
  <2>2. s.kind \notin {"stored", "oauth"} => s.kind \in Reason
    BY DEF AuthSpec, Reason
  <2> QED BY <1>b, <2>1, <2>2 DEF SourceReason
<1>2. \A a, n : RouteReason(a, n) \in Reason \cup {None}
  BY DEF RouteReason, Reason
<1>3. \A n : MappingReason(n) \in Reason \cup {None}
  BY DEF MappingReason, Reason
<1>4. \A s \in AuthSpec : Inherited(s) \in AuthSpec
  BY Zenon DEF Inherited, AuthSpec
<1>5. ASSUME NEW a \in Agent, NEW n \in Name, db.regs[n] # None
      PROVE  Entry(a, n) \in [auth : AuthSpec, action : {"propose", "preserve", "skip"},
                              reason : Reason]
  <2> DEFINE existing == db.bindings[<<a, n>>]
             auth == IF existing # None THEN existing ELSE Inherited(db.regs[n].auth)
             blocked == IF RouteReason(a, n) # None THEN RouteReason(a, n)
                        ELSE IF existing = None THEN MappingReason(n) ELSE None
             source == SourceReason(n, auth)
  <2>1. db.regs[n].auth \in AuthSpec
    BY <1>a, <1>5 DEF Registration
  <2>2. auth \in AuthSpec
    BY <1>a, <1>4, <2>1
  <2>3. source \in Reason
    BY <1>1, <2>2
  <2>4. blocked \in Reason \cup {None}
    BY <1>2, <1>3
  <2>5. Entry(a, n) = [auth |-> auth,
           action |-> IF existing # None THEN "preserve"
                      ELSE IF blocked = None /\ Usable(source) THEN "propose" ELSE "skip",
           reason |-> IF Usable(source) /\ blocked # None THEN blocked ELSE source]
    BY DEF Entry
  <2> HIDE DEF existing, auth, blocked, source
  <2> QED BY <2>2, <2>3, <2>4, <2>5
<1>6. ASSUME NEW x \in Agent \X Name, db.bindings[x] # None
      PROVE  [auth |-> db.bindings[x], action |-> "preserve", reason |-> "missing"]
               \in [auth : AuthSpec, action : {"propose", "preserve", "skip"},
                    reason : Reason]
  BY <1>a, <1>6 DEF Reason
<1>7. \A x \in Agent \X Name : x[1] \in Agent /\ x[2] \in Name
  OBVIOUS
<1>8. Entries \in [Agent \X Name ->
                [auth : AuthSpec, action : {"propose", "preserve", "skip"},
                 reason : Reason] \cup {None}]
  BY <1>5, <1>6, <1>7, Zenon DEF Entries
<1>9. \A a \in Agent : Eligible(a) \in SUBSET Name
  BY DEF Eligible
<1> QED BY <1>8, <1>9

\* What a preview says, with a selection, is a plan.
LEMMA InventoryIs ==
  ASSUME TypeOK, NEW v \in {1, 2}, NEW rows \in SUBSET (Agent \X Name),
         NEW policies \in SUBSET Agent
  PROVE  /\ Inventory(v, rows, policies) \in Plan
         /\ Complete(Inventory(v, {}, {}))
<1>1. db \in Tables /\ revision \in Nat /\ legacy \in Legacies
  BY DEF TypeOK
<1>2. Snapshot \in [tables : Tables, revision : Nat]
  BY <1>1 DEF Snapshot
<1>3. [a \in Agent |-> Eligible(a)] \in [Agent -> SUBSET Name]
  BY <1>1, EntriesType
<1>4. ASSUME NEW r \in SUBSET (Agent \X Name), NEW c \in SUBSET Agent
      PROVE  Inventory(v, r, c) \in Plan
  BY <1>1, <1>2, <1>3, EntriesType DEF Inventory, Plan
<1>5. /\ Inventory(v, {}, {}).version = v
      /\ Inventory(v, {}, {}).rows = {} /\ Inventory(v, {}, {}).policies = {}
      /\ v = 2 => Inventory(v, {}, {}).grants = [a \in Agent |-> Eligible(a)]
  BY DEF Inventory
<1>6. Complete(Inventory(v, {}, {}))
  BY <1>3, <1>4, <1>5 DEF Complete
<1> QED BY <1>4, <1>6

\* Receipts of plans before a revision are of plans before the next one.
LEMMA RecordedBefore ==
  ASSUME NEW R, NEW v \in Nat, Recorded(R, v)
  PROVE  Recorded(R, v + 1)
<1>1. \A r \in R : r.reviewed.snapshot.revision \in Nat
  BY DEF Recorded, Plan
<1> QED BY <1>1 DEF Recorded

-----------------------------------------------------------------------------
(***************************************************************************)
(* What the inventory means, and what it depends on.                       *)
(***************************************************************************)

\* What the inventory proposes: a binding where there is none, to the account of
\* the registration, for a route that is open and a source that is usable.
LEMMA ProposalIs ==
  ASSUME NEW x \in Agent \X Name, Entries[x] # None, Entries[x].action = "propose"
  PROVE  /\ db.regs[x[2]] # None /\ db.bindings[x] = None
         /\ Entries[x].auth = Inherited(db.regs[x[2]].auth)
         /\ RouteReason(x[1], x[2]) = None
         /\ Usable(SourceReason(x[2], Entries[x].auth))
<1>1. db.regs[x[2]] # None
  BY DEF Entries
<1>2. PICK a \in Agent, n \in Name : x = <<a, n>>
  OBVIOUS
<1>3. Entries[x] = Entry(a, n)
  BY <1>1, <1>2 DEF Entries
<1> DEFINE existing == db.bindings[<<a, n>>]
           auth == IF existing # None THEN existing ELSE Inherited(db.regs[n].auth)
           blocked == IF RouteReason(a, n) # None THEN RouteReason(a, n)
                      ELSE IF existing = None THEN MappingReason(n) ELSE None
           source == SourceReason(n, auth)
<1>4. Entry(a, n) = [auth |-> auth,
         action |-> IF existing # None THEN "preserve"
                    ELSE IF blocked = None /\ Usable(source) THEN "propose" ELSE "skip",
         reason |-> IF Usable(source) /\ blocked # None THEN blocked ELSE source]
  BY DEF Entry
<1>5. Entries[x].auth = auth /\ existing = None /\ blocked = None /\ Usable(source)
  <2> HIDE DEF existing, auth, blocked, source
  <2> QED BY <1>3, <1>4
<1>6. RouteReason(a, n) = None
  BY <1>5
<1> QED BY <1>1, <1>2, <1>5, <1>6

\* A route that is open.
LEMMA RouteIs ==
  ASSUME NEW a, NEW n, RouteReason(a, n) = None,
         None \notin {"agent_revoked", "agent_expired", "registration_disabled",
                      "in_denylist", "not_in_allowlist"}
  PROVE  /\ ~db.agents[a].revoked /\ ~db.regs[n].disabled
         /\ n \notin db.agents[a].deny
         /\ db.agents[a].allow # None => n \in db.agents[a].allow
  BY DEF RouteReason

\* A plan that still says what a preview says, and selects proposals only, passes
\* validate_selected; and validate_selected bears a plan out.
LEMMA ValidMeans ==
  ASSUME NEW p, Complete(p), UnchangedSince(p)
  PROVE  /\ Proposals(p) => ValidSelected(p)
         /\ ValidSelected(p) => Backed(p)
<1>1. /\ p.entries = Entries
      /\ p.version = 2 => p.grants = [a \in Agent |-> Eligible(a)]
  BY DEF UnchangedSince, Inventory
<1>2. /\ p.rows \subseteq Agent \X Name /\ p.policies \subseteq Agent
      /\ \A x \in p.rows : Entries[x] # None
      /\ p.policies # {} => p.version = 2
  BY <1>1 DEF Complete, Plan
<1>3. ASSUME Proposals(p) PROVE ValidSelected(p)
  BY <1>1, <1>2, <1>3, ProposalIs DEF Proposals, ValidSelected
<1>4. None \notin {"agent_revoked", "agent_expired", "registration_disabled",
                   "in_denylist", "not_in_allowlist"}
  BY DistinctAssumption DEF Reason
<1>5. ASSUME ValidSelected(p) PROVE Backed(p)
  <2>1. ASSUME NEW x \in p.rows
        PROVE  /\ db.regs[x[2]] # None /\ ~db.regs[x[2]].disabled
               /\ ~db.agents[x[1]].revoked /\ db.bindings[x] = None
               /\ p.entries[x].auth = Inherited(db.regs[x[2]].auth)
               /\ Usable(SourceReason(x[2], p.entries[x].auth))
    <3>1. p.entries[x].action = "propose"
      BY <1>5 DEF ValidSelected
    <3>2. /\ db.regs[x[2]] # None /\ db.bindings[x] = None
          /\ p.entries[x].auth = Inherited(db.regs[x[2]].auth)
          /\ RouteReason(x[1], x[2]) = None
          /\ Usable(SourceReason(x[2], p.entries[x].auth))
      BY <1>1, <1>2, <3>1, ProposalIs
    <3> QED BY <1>4, <3>2, RouteIs
  <2>2. ASSUME NEW a \in p.policies
        PROVE  p.grants[a] \subseteq
                 {n \in Name : db.regs[n] # None /\ n \notin db.agents[a].deny
                               /\ (db.agents[a].allow # None => n \in db.agents[a].allow)}
    <3>1. p.grants[a] = Eligible(a)
      BY <1>1, <1>2
    <3>2. ASSUME NEW n \in Eligible(a)
          PROVE  /\ n \in Name /\ db.regs[n] # None /\ n \notin db.agents[a].deny
                 /\ db.agents[a].allow # None => n \in db.agents[a].allow
      BY <1>4, <3>2, RouteIs DEF Eligible
    <3> QED BY <3>1, <3>2
  <2> QED BY <2>1, <2>2, Zenon DEF Backed
<1> QED BY <1>3, <1>5

\* What is said of a source depends on the tables only.
LEMMA SourceFrame ==
  ASSUME UNCHANGED db
  PROVE  \A n, t : SourceReason(n, t)' = SourceReason(n, t)
<1>1. \A n, t : Agree(n, t)' <=> Agree(n, t)
  BY DEF Agree
<1>2. \A n, t : OauthReason(n, t)' = OauthReason(n, t)
  BY <1>1 DEF OauthReason
<1> QED BY <1>2 DEF SourceReason

\* What a preview says depends on the tables, the revision, the clock and the
\* YAML file.
LEMMA InventoryFrame ==
  ASSUME UNCHANGED <<db, revision, expired, legacy>>
  PROVE  \A p : UnchangedSince(p)' <=> UnchangedSince(p)
<1>1. \A a, n : RouteReason(a, n)' = RouteReason(a, n)
  BY DEF RouteReason
<1>2. \A n : MappingReason(n)' = MappingReason(n)
  BY DEF MappingReason
<1>3. \A a, n : Entry(a, n)' = Entry(a, n)
  BY <1>1, <1>2, SourceFrame DEF Entry
<1>4. Entries' = Entries
  BY <1>3 DEF Entries
<1>5. \A a : Eligible(a)' = Eligible(a)
  BY <1>1 DEF Eligible
<1>6. Snapshot' = Snapshot
  BY DEF Snapshot
<1>7. \A v, r, c : Inventory(v, r, c)' = Inventory(v, r, c)
  BY <1>4, <1>5, <1>6 DEF Inventory
<1> QED BY <1>7 DEF UnchangedSince

\* What Underway says depends on the tables, the transaction, its plan and the
\* revision only.
LEMMA UnderwayFrame ==
  ASSUME Underway, tx # None => plan'[tx.owner] = plan[tx.owner],
         UNCHANGED <<db, tx, revision>>
  PROVE  Underway'
<1>1. ASSUME tx # None PROVE Underway'
  <2> DEFINE p == plan[tx.owner]
  <2>1. (Partly(p)' <=> Partly(p)) /\ (Backed(p)' <=> Backed(p))
    <3>1. p' = p
      BY <1>1
    <3> HIDE DEF p
    <3>2. Partly(p)' <=> Partly(p)
      BY <3>1 DEF Partly
    <3>3. Backed(p)' <=> Backed(p)
      BY <3>1, SourceFrame DEF Backed
    <3> QED BY <3>2, <3>3
  <2> QED BY <1>1, <2>1 DEF Underway, Recorded
<1> QED BY <1>1 DEF Underway

-----------------------------------------------------------------------------
(***************************************************************************)
(* The steps.                                                              *)
(***************************************************************************)

\* An owner who is not applying gets another plan, and with it a fresh start.
LEMMA ReplanKeeps ==
  ASSUME MigrationInv, OnceInv', NEW o \in Owner, NEW p, Complete(p),
         tx # None => tx.owner # o,
         plan' = [plan EXCEPT ![o] = p], answer' = [answer EXCEPT ![o] = "none"],
         fresh' \subseteq fresh \cup {o}, o \in fresh' => UnchangedSince(p),
         UNCHANGED <<db, revision, receipts, expired, legacy, tx, writes, took>>
  PROVE  MigrationInv'
<1>1. /\ plan' \in [Owner -> Plan \cup {None}] /\ plan'[o] = p
      /\ \A q \in Owner : q # o => plan'[q] = plan[q]
      /\ \A q \in Owner : plan'[q] # None => Complete(plan'[q])
  BY DEF MigrationInv, Complete
<1>2. /\ answer' \in [Owner -> {"none", "ok", "conflict", "failed"}]
      /\ answer'[o] = "none" /\ \A q \in Owner : q # o => answer'[q] = answer[q]
  BY DEF MigrationInv, TypeOK
<1>3. tx # None => tx.owner \in Owner /\ plan'[tx.owner] = plan[tx.owner]
  BY <1>1 DEF MigrationInv, TypeOK
<1>4. TypeOK'
  BY <1>1, <1>2, <1>3 DEF MigrationInv, TypeOK, Complete
<1>5. Underway'
  BY <1>3, UnderwayFrame DEF MigrationInv
<1>6. Fresh'
  <2>1. \A q : UnchangedSince(q)' <=> UnchangedSince(q)
    BY InventoryFrame
  <2> QED BY <1>1, <1>2, <2>1 DEF MigrationInv, Fresh, Proposals
<1> QED BY <1>1, <1>4, <1>5, <1>6 DEF MigrationInv, Complete, Recorded

\* preview_mode and the owner's edits of the file keep the invariant.
LEMMA PlansKeep ==
  ASSUME MigrationInv, OnceInv',
         \/ \E o \in Owner, v \in {1, 2} : Preview(o, v)
         \/ \E o \in Owner, mark \in Marks : Review(o, mark)
  PROVE  MigrationInv'
<1>1. ASSUME NEW o \in Owner, NEW v \in {1, 2}, Preview(o, v) PROVE MigrationInv'
  <2>1. Complete(Inventory(v, {}, {}))
    BY InventoryIs DEF MigrationInv
  <2>2. UnchangedSince(Inventory(v, {}, {}))
    BY DEF UnchangedSince, Inventory
  <2> QED BY <1>1, <2>1, <2>2, ReplanKeeps, Zenon DEF Preview
<1>2. ASSUME NEW o \in Owner, NEW mark \in Marks, Review(o, mark) PROVE MigrationInv'
  <2> DEFINE p == [plan[o] EXCEPT !.rows = mark.rows, !.policies = mark.policies]
  <2>1. Complete(plan[o]) /\ plan[o] \in Plan
    BY <1>2 DEF MigrationInv, Review, Complete
  <2>2. mark.rows \in SUBSET (Agent \X Name) /\ mark.policies \in SUBSET Agent
    BY MigrationAssumption
  <2>3. plan' = [plan EXCEPT ![o] = p]
    BY <1>2, Zenon DEF Review, MigrationInv
  <2>4. /\ p.rows = mark.rows /\ p.policies = mark.policies
        /\ p.version = plan[o].version /\ p.entries = plan[o].entries
        /\ p.grants = plan[o].grants /\ p.snapshot = plan[o].snapshot
        /\ p.legacy = plan[o].legacy /\ p \in Plan
    BY <2>1, <2>2, Zenon DEF Plan
  <2>5. Complete(p)
    BY <1>2, <2>1, <2>4 DEF Complete, Review
  <2>6. ASSUME o \in fresh PROVE UnchangedSince(p)
    <3>1. plan[o] = Inventory(plan[o].version, plan[o].rows, plan[o].policies)
      BY <2>6 DEF MigrationInv, Fresh, UnchangedSince
    <3>2. Inventory(plan[o].version, mark.rows, mark.policies) \in Plan
      BY <2>1, <2>2, InventoryIs, Zenon DEF MigrationInv, Plan
    <3> DEFINE q == Inventory(plan[o].version, mark.rows, mark.policies)
    <3>a. /\ q.version = p.version /\ q.snapshot = p.snapshot /\ q.entries = p.entries
          /\ q.grants = p.grants /\ q.legacy = p.legacy
          /\ q.rows = p.rows /\ q.policies = p.policies
      BY <2>4, <3>1 DEF Inventory
    <3> HIDE DEF p, q
    <3>3. p = q
      BY <2>4, <3>2, <3>a DEF Plan, q
    <3> QED BY <2>4, <3>3 DEF UnchangedSince, q
  <2> HIDE DEF p
  <2> QED BY <1>2, <2>3, <2>5, <2>6, ReplanKeeps, Zenon DEF Review
<1> QED BY <1>1, <1>2

\* The checks of run.  A plan is refused if it is not what a preview would say
\* now, or selects what is no proposal; one that passes is borne out by the
\* tables, and nothing has been written yet.
LEMMA BeginKeeps ==
  ASSUME MigrationInv, OnceInv', NEW o \in Owner, Begin(o)
  PROVE  MigrationInv'
<1> DEFINE p == plan[o]
<1>1. /\ tx = None /\ p # None
      /\ UNCHANGED <<db, revision, receipts, expired, legacy, plan, writes, took, fresh>>
  BY Zenon DEF Begin
<1>2. Complete(p) /\ p \in Plan
  BY <1>1 DEF MigrationInv, Complete
<1>3. \A q : UnchangedSince(q)' <=> UnchangedSince(q)
  BY <1>1, InventoryFrame
<1>4. /\ \A q \in Owner : plan'[q] # None => Complete(plan'[q])
      /\ plan' \in [Owner -> Plan \cup {None}] /\ Recorded(receipts', revision')
  BY <1>1 DEF MigrationInv, Complete, Recorded
<1>5. ASSUME NEW how \in {"ok", "conflict"}, End(o, how), UNCHANGED tx,
             how = "conflict" /\ Proposals(p) => o \notin fresh
      PROVE  MigrationInv'
  <2>1. /\ answer' \in [Owner -> {"none", "ok", "conflict", "failed"}]
        /\ answer'[o] = how /\ \A q \in Owner : q # o => answer'[q] = answer[q]
    BY <1>5 DEF MigrationInv, TypeOK, End
  <2>2. TypeOK'
    BY <1>1, <1>5, <2>1 DEF MigrationInv, TypeOK
  <2>3. Fresh'
    BY <1>1, <1>3, <1>5, <2>1 DEF MigrationInv, Fresh, Proposals
  <2>4. Underway'
    BY <1>1, <1>5 DEF Underway
  <2> QED BY <1>4, <2>2, <2>3, <2>4 DEF MigrationInv, Complete, Recorded
<1>6. ASSUME o \in fresh, Proposals(p)
      PROVE  UnchangedSince(p) /\ ValidSelected(p) /\ p.legacy = legacy /\ Receipt(p) = {}
  <2>1. UnchangedSince(p)
    BY <1>6 DEF MigrationInv, Fresh
  <2>2. ValidSelected(p)
    BY <1>2, <1>6, <2>1, ValidMeans
  <2>3. p.legacy = legacy /\ p.snapshot = Snapshot
    BY <2>1 DEF UnchangedSince, Inventory
  <2>4. p.snapshot.revision = revision /\ revision \in Nat
    BY <2>3 DEF Snapshot, MigrationInv, OnceInv
  <2>5. Receipt(p) = {}
    <3>1. \A r \in receipts : r.reviewed.snapshot.revision < revision
      BY DEF MigrationInv, Recorded
    <3> QED BY <2>4, <3>1 DEF Receipt
  <2> QED BY <2>1, <2>2, <2>3, <2>5
<1>7. ASSUME UNCHANGED tx,
             \/ End(o, "conflict") /\ (~ValidSelected(p) \/ p.legacy # legacy)
             \/ End(o, IF [reviewed |-> p, after |-> Snapshot] \in Receipt(p) THEN "ok"
                       ELSE "conflict") /\ Receipt(p) # {}
             \/ End(o, "conflict") /\ ~UnchangedSince(p)
      PROVE  MigrationInv'
  <2>1. \/ End(o, "ok")
        \/ End(o, "conflict") /\ (Proposals(p) => o \notin fresh)
    BY <1>6, <1>7, Zenon
  <2> QED BY <1>5, <1>7, <2>1
<1>8. CASE /\ ValidSelected(p) /\ UnchangedSince(p)
           /\ tx' = Transaction(o, db, p.rows, p.policies, revision, receipts, FALSE)
           /\ UNCHANGED answer
  <2>1. Backed(p)
    BY <1>2, <1>8, ValidMeans
  <2>2. /\ tx'.owner = o /\ tx'.work = db /\ tx'.rows = p.rows
        /\ tx'.policies = p.policies /\ tx'.receipts = receipts /\ tx'.recorded = FALSE
    BY <1>8 DEF Transaction
  <2>3. TypeOK'
    BY <1>1, <1>2, <1>8, <2>2, Zenon DEF MigrationInv, TypeOK
  <2>4. plan'[tx'.owner] = p
    BY <1>1, <2>2
  <2> HIDE DEF p
  <2>5. Partly(plan[tx.owner])'
    BY <1>1, <2>2, <2>4, Zenon DEF Partly, MigrationInv, TypeOK
  <2>6. Backed(plan[tx.owner])'
    BY <1>1, <2>1, <2>4, SourceFrame DEF Backed
  <2>7. Recorded(receipts', revision' + 1)
    BY <1>1, RecordedBefore DEF MigrationInv, OnceInv
  <2>8. Underway'
    BY <1>1, <1>2, <2>2, <2>4, <2>5, <2>6, <2>7 DEF Underway, Recorded
  <2>9. Fresh'
    BY <1>1, <1>3, <1>8, Zenon DEF MigrationInv, Fresh, Proposals
  <2> QED BY <1>4, <2>3, <2>8, <2>9 DEF MigrationInv, Complete, Recorded
<1> QED BY <1>7, <1>8, Zenon DEF Begin

\* A statement of the transaction changes the transaction only.
LEMMA WritingKeeps ==
  ASSUME MigrationInv, OnceInv', tx # None, tx'.owner = tx.owner,
         tx'.recorded => tx'.rows = {} /\ tx'.policies = {},
         Partly(plan[tx.owner])', Recorded(tx'.receipts, revision + 1),
         UNCHANGED <<db, revision, receipts, expired, legacy, plan, answer, writes,
                     took, fresh>>
  PROVE  MigrationInv'
<1>1. tx.owner \in Owner /\ plan'[tx'.owner] = plan[tx.owner]
  BY DEF MigrationInv, TypeOK
<1>2. plan[tx.owner] # None /\ plan[tx.owner] \in Plan
  BY Zenon DEF MigrationInv, Underway, TypeOK
<1>3. Backed(plan[tx.owner])'
  <2>1. Backed(plan[tx.owner])
    BY Zenon DEF MigrationInv, Underway
  <2> QED BY <1>1, <2>1, SourceFrame DEF Backed
<1>4. tx'.work \in Tables
  BY Zenon DEF Partly
<1>5. TypeOK'
  BY <1>1, <1>2, <1>4 DEF MigrationInv, TypeOK
<1>6. Underway'
  BY <1>1, <1>2, <1>3 DEF Underway, Recorded
<1>7. Fresh'
  <2>1. \A q : UnchangedSince(q)' <=> UnchangedSince(q)
    BY InventoryFrame
  <2> QED BY <2>1 DEF MigrationInv, Fresh, Proposals
<1> QED BY <1>5, <1>6, <1>7 DEF MigrationInv, Complete, Recorded

\* insert_bindings: one more of the selected rows has been written.
LEMMA InsertKeeps ==
  ASSUME MigrationInv, OnceInv', NEW x \in Agent \X Name, InsertBinding(x)
  PROVE  MigrationInv'
<1> DEFINE p == plan[tx.owner]
<1>1. /\ tx # None /\ x \in tx.rows
      /\ UNCHANGED <<db, revision, receipts, expired, legacy, plan, answer, writes,
                     took, fresh>>
  BY Zenon DEF InsertBinding
<1>2. /\ tx'.owner = tx.owner /\ tx'.recorded = FALSE /\ tx'.receipts = receipts
      /\ tx'.rows = tx.rows \ {x} /\ tx'.policies = tx.policies
      /\ tx'.work = [tx.work EXCEPT !.bindings =
                       [tx.work.bindings EXCEPT ![x] = p.entries[x].auth]]
  BY DEF InsertBinding, Transaction
<1>3. Partly(p) /\ Complete(p)
  BY <1>1 DEF MigrationInv, Underway, TypeOK
<1>4. p.entries[x].auth \in AuthSpec
  BY <1>1, <1>3, Zenon DEF Partly, Complete, Plan
<1>5. p' = p
  BY <1>1, <1>2
<1> HIDE DEF p
<1>6. tx.work \in Tables /\ tx.work.bindings \in [Agent \X Name -> AuthSpec \cup {None}]
  BY <1>3, TableWrites, Zenon DEF Partly
<1>7. [tx.work.bindings EXCEPT ![x] = p.entries[x].auth]
         \in [Agent \X Name -> AuthSpec \cup {None}]
  BY <1>4, <1>6
<1>8. tx'.work \in Tables
  <2>1. \A t \in [Agent \X Name -> AuthSpec \cup {None}] :
          [tx.work EXCEPT !.bindings = t] \in Tables
    BY <1>6, TableWrites, Zenon
  <2> QED BY <1>2, <1>7, <2>1, Zenon
<1>9. /\ tx'.work.regs = tx.work.regs /\ tx'.work.sealed = tx.work.sealed
      /\ tx'.work.sessions = tx.work.sessions /\ tx'.work.agents = tx.work.agents
      /\ tx'.work.bindings = [tx.work.bindings EXCEPT ![x] = p.entries[x].auth]
  BY <1>2, <1>6 DEF Tables
<1>10. Partly(p)'
  <2>1. \A y \in Agent \X Name :
          tx'.work.bindings[y] = IF y \in p.rows \ tx'.rows THEN p.entries[y].auth
                                 ELSE db.bindings[y]
    BY <1>1, <1>2, <1>3, <1>6, <1>9, Zenon DEF Partly
  <2>2. \A a \in Agent :
          tx'.work.agents[a] = IF a \in p.policies \ tx'.policies
                               THEN [db.agents[a] EXCEPT !.allow = p.grants[a],
                                                         !.reviewed = TRUE]
                               ELSE db.agents[a]
    BY <1>2, <1>3, <1>9, Zenon DEF Partly
  <2> QED BY <1>1, <1>2, <1>3, <1>5, <1>8, <1>9, <2>1, <2>2, Zenon DEF Partly
<1>11. Recorded(receipts, revision + 1)
  BY RecordedBefore DEF MigrationInv, OnceInv
<1> QED BY <1>1, <1>2, <1>10, <1>11, WritingKeeps DEF p

\* UPDATE agents: one more of the selected policies has been written.
LEMMA UpdateKeeps ==
  ASSUME MigrationInv, OnceInv', NEW a \in Agent, UpdateAgent(a)
  PROVE  MigrationInv'
<1> DEFINE p == plan[tx.owner]
<1>1. /\ tx # None /\ tx.rows = {} /\ a \in tx.policies
      /\ UNCHANGED <<db, revision, receipts, expired, legacy, plan, answer, writes,
                     took, fresh>>
  BY Zenon DEF UpdateAgent
<1> DEFINE r == [tx.work.agents[a] EXCEPT !.allow = p.grants[a], !.reviewed = TRUE]
<1>3. Partly(p) /\ Complete(p)
  BY <1>1 DEF MigrationInv, Underway, TypeOK
<1>6. tx.work \in Tables /\ tx.work.agents \in [Agent -> AgentRow]
  BY <1>3, TableWrites, Zenon DEF Partly
<1>2. /\ tx'.owner = tx.owner /\ tx'.recorded = FALSE /\ tx'.receipts = receipts
      /\ tx'.rows = {} /\ tx'.policies = tx.policies \ {a}
      /\ tx'.work = [tx.work EXCEPT !.agents[a].allow = p.grants[a],
                                    !.agents[a].reviewed = TRUE]
  BY DEF UpdateAgent, Transaction
<1>a. tx'.work = [tx.work EXCEPT !.agents = [tx.work.agents EXCEPT ![a] = r]]
  BY <1>2, <1>6, Zenon DEF Tables
<1>4. p.grants[a] \in SUBSET Name /\ a \in p.policies
  BY <1>1, <1>3, Zenon DEF Partly, Complete
<1>5. p' = p
  BY <1>1, <1>2
<1>7. r \in AgentRow
  BY <1>4, <1>6, AgentWrites, Zenon
<1>b. tx.work.agents[a] = db.agents[a]
  BY <1>1, <1>3, Zenon DEF Partly
<1>c. r = [db.agents[a] EXCEPT !.allow = p.grants[a], !.reviewed = TRUE]
  BY <1>b
<1>d. [tx.work.agents EXCEPT ![a] = r] \in [Agent -> AgentRow]
  BY <1>6, <1>7
<1> HIDE DEF p, r
<1>8. tx'.work \in Tables
  <2>1. \A t \in [Agent -> AgentRow] : [tx.work EXCEPT !.agents = t] \in Tables
    BY <1>6, TableWrites, Zenon
  <2> QED BY <1>a, <1>d, <2>1, Zenon
<1>9. /\ tx'.work.regs = tx.work.regs /\ tx'.work.sealed = tx.work.sealed
      /\ tx'.work.sessions = tx.work.sessions /\ tx'.work.bindings = tx.work.bindings
      /\ tx'.work.agents = [tx.work.agents EXCEPT ![a] = r]
  BY <1>a, <1>6 DEF Tables
<1>10. Partly(p)'
  <2>1. ASSUME NEW b \in Agent
        PROVE  tx'.work.agents[b] = IF b \in p.policies \ tx'.policies
                                    THEN [db.agents[b] EXCEPT !.allow = p.grants[b],
                                                              !.reviewed = TRUE]
                                    ELSE db.agents[b]
    <3>1. CASE b = a
      BY <1>1, <1>2, <1>4, <1>6, <1>9, <1>c, <3>1, Zenon
    <3>2. CASE b # a
      <4>1. tx'.work.agents[b] = tx.work.agents[b]
        BY <1>6, <1>9, <3>2
      <4>2. b \in p.policies \ tx'.policies <=> b \in p.policies \ tx.policies
        BY <1>2, <3>2
      <4> QED BY <1>3, <4>1, <4>2, Zenon DEF Partly
    <3> QED BY <3>1, <3>2
  <2> QED BY <1>1, <1>2, <1>3, <1>5, <1>8, <1>9, <2>1, Zenon DEF Partly
<1>11. Recorded(receipts, revision + 1)
  BY RecordedBefore DEF MigrationInv, OnceInv
<1> QED BY <1>1, <1>2, <1>10, <1>11, WritingKeeps DEF p

\* record: the receipt is of a plan of the revision that ends here.
LEMMA RecordKeeps ==
  ASSUME MigrationInv, OnceInv', Record
  PROVE  MigrationInv'
<1> DEFINE p == plan[tx.owner]
           new == [reviewed |-> p,
                   after |-> [tables |-> tx.work, revision |-> revision + 1]]
<1>1. /\ tx # None /\ tx.rows = {} /\ tx.policies = {}
      /\ UNCHANGED <<db, revision, receipts, expired, legacy, plan, answer, writes,
                     took, fresh>>
  BY Zenon DEF Record
<1>2. /\ tx'.owner = tx.owner /\ tx'.rows = {} /\ tx'.policies = {}
      /\ tx'.work = tx.work /\ tx'.receipts = receipts \cup {new}
  BY DEF Record, Transaction
<1>3. Partly(p) /\ p \in Plan
  BY <1>1 DEF MigrationInv, Underway, TypeOK
<1>4. p.snapshot.revision = revision /\ revision \in Nat
  BY <1>1 DEF MigrationInv, OnceInv, Present
<1>5. Recorded(receipts, revision + 1)
  BY RecordedBefore DEF MigrationInv, OnceInv
<1>6. Recorded(receipts \cup {new}, revision + 1)
  <2>0. new.reviewed = p /\ new.after.tables = tx.work
    OBVIOUS
  <2>1. /\ new.reviewed \in Plan /\ new.after.tables \in Tables
        /\ new.reviewed.snapshot.revision < revision + 1
    <3> HIDE DEF new, p
    <3>1. new.reviewed.snapshot.revision = revision
      BY <1>4, <2>0
    <3>2. new.reviewed \in Plan /\ new.after.tables \in Tables
      BY <1>3, <2>0, Zenon DEF Partly
    <3> QED BY <1>4, <3>1, <3>2
  <2> HIDE DEF new
  <2> QED BY <1>5, <2>1 DEF Recorded
<1>7. Partly(p)'
  BY <1>1, <1>2, <1>3, Zenon DEF Partly
<1> QED BY <1>1, <1>2, <1>6, <1>7, WritingKeeps

\* COMMIT: what the transaction holds becomes the tables; no plan of an owner is
\* fresh any more.
LEMMA CommitKeeps ==
  ASSUME MigrationInv, OnceInv', Commit
  PROVE  MigrationInv'
<1> DEFINE p == plan[tx.owner]
<1>1. /\ tx # None /\ tx.recorded /\ tx' = None
      /\ UNCHANGED <<expired, legacy, plan, writes>>
      /\ db' = tx.work /\ revision' = tx.revision /\ receipts' = tx.receipts
      /\ took' = took \cup {p} /\ fresh' = {p}
  BY Zenon DEF Commit
<1>2. tx.owner \in Owner /\ p \in Plan /\ tx.work \in Tables
  BY <1>1 DEF MigrationInv, TypeOK
<1>3. revision' = revision + 1 /\ revision \in Nat
  BY <1>1 DEF MigrationInv, OnceInv, Present
<1>4. Recorded(receipts', revision')
  BY <1>1, <1>3 DEF MigrationInv, Underway
<1>5. answer' \in [Owner -> {"none", "ok", "conflict", "failed"}]
  BY <1>2 DEF Commit, End, MigrationInv, TypeOK
<1>6. \A o \in Owner : o \notin fresh'
  BY <1>1, <1>2, DistinctAssumption
<1>7. TypeOK'
  BY <1>1, <1>2, <1>3, <1>4, <1>5 DEF MigrationInv, TypeOK, Recorded
<1>8. Underway' /\ Fresh'
  BY <1>1, <1>6 DEF Underway, Fresh
<1> QED BY <1>1, <1>4, <1>7, <1>8 DEF MigrationInv, Complete, Recorded

\* A failed statement or a crash: nothing is left of the transaction.
LEMMA RollbackLeaves ==
  ASSUME MigrationInv, OnceInv', Rollback
  PROVE  MigrationInv'
<1>1. /\ tx # None /\ tx' = None /\ End(tx.owner, "failed")
      /\ UNCHANGED <<db, revision, receipts, expired, legacy, plan, writes, took, fresh>>
  BY Zenon DEF Rollback
<1>2. tx.owner \in Owner
  BY <1>1 DEF MigrationInv, TypeOK
<1>3. /\ answer' \in [Owner -> {"none", "ok", "conflict", "failed"}]
      /\ answer'[tx.owner] = "failed"
      /\ \A q \in Owner : q # tx.owner => answer'[q] = answer[q]
  BY <1>1, <1>2 DEF MigrationInv, TypeOK, End
<1>4. TypeOK'
  BY <1>1, <1>3, Zenon DEF MigrationInv, TypeOK
<1>5. Fresh'
  <2>1. \A q : UnchangedSince(q)' <=> UnchangedSince(q)
    BY <1>1, InventoryFrame
  <2> QED BY <1>1, <1>2, <1>3, <2>1 DEF MigrationInv, Fresh, Proposals
<1>6. Underway'
  BY <1>1 DEF Underway
<1> QED BY <1>1, <1>4, <1>5, <1>6 DEF MigrationInv, Complete, Recorded

\* What others do, at any time: the tables only while no transaction is under way,
\* and no plan is fresh any more.
LEMMA OthersDo ==
  ASSUME Others
  PROVE  /\ UNCHANGED <<revision, receipts, plan, tx, answer, took>>
         /\ writes < MaxWrites /\ writes' = writes + 1 /\ fresh' = {}
         /\ tx # None => db' = db
         /\ (\E a \in Agent : expired' = expired \cup {a}) \/ expired' = expired
         /\ legacy' \in Legacies \/ legacy' = legacy
<1>1. CASE \E a \in Agent : Expire(a)
  BY <1>1, Zenon DEF Expire, Meanwhile
<1>2. CASE \E l \in Legacies : EditLegacy(l)
  BY <1>2, Zenon DEF EditLegacy, Meanwhile
<1>3. CASE \E tables : Write(tables)
  BY <1>3, Zenon DEF Write, Meanwhile
<1>4. \A n \in Name, t \in Templates : PutRegistration(n, t) => \E tables : Write(tables)
  BY Zenon DEF PutRegistration
<1> QED BY <1>1, <1>2, <1>3, <1>4, Zenon
        DEF Others, RevokeAgent, SetPolicy, SetDenylist, DeleteRegistration,
            ToggleRegistration, DegradeSession, SetBinding, ClearBinding, TombstoneSecret

\* The writes of others keep the invariant.
LEMMA OthersKeep ==
  ASSUME MigrationInv, OnceInv', Others
  PROVE  MigrationInv'
<1>1. db' \in Tables
  BY OthersTables DEF MigrationInv, TypeOK
<1>2. writes' \in 0..MaxWrites
  BY OthersDo, MigrationAssumption DEF MigrationInv, TypeOK
<1>3. expired' \subseteq Agent /\ legacy' \in Legacies
  BY OthersDo DEF MigrationInv, TypeOK
<1>4. TypeOK'
  BY <1>1, <1>2, <1>3, OthersDo DEF MigrationInv, TypeOK
<1>5. Underway'
  <2>1. CASE tx = None
    BY <2>1, OthersDo DEF Underway
  <2>2. CASE tx # None
    BY <2>2, OthersDo, UnderwayFrame DEF MigrationInv
  <2> QED BY <2>1, <2>2
<1>6. Fresh'
  BY OthersDo DEF Fresh
<1> QED BY <1>4, <1>5, <1>6, OthersDo DEF MigrationInv, Complete, Recorded

\* Every step keeps the invariant.
LEMMA MigrationStep ==
  ASSUME MigrationInv, [Next]_vars
  PROVE  MigrationInv'
<1>0. OnceInv'
  BY OnceStep DEF MigrationInv
<1>1. CASE Apply
  BY <1>0, <1>1, BeginKeeps, InsertKeeps, UpdateKeeps, RecordKeeps, CommitKeeps,
     RollbackLeaves, Zenon DEF Apply
<1>2. CASE UNCHANGED vars
  <2>1. UNCHANGED <<db, revision, receipts, expired, legacy, plan, tx, answer, writes,
                    took, fresh>>
    BY <1>2 DEF vars
  <2>2. TypeOK'
    BY <2>1 DEF MigrationInv, TypeOK
  <2>3. Underway'
    BY <2>1, UnderwayFrame DEF MigrationInv
  <2>4. Fresh'
    <3>1. \A q : UnchangedSince(q)' <=> UnchangedSince(q)
      BY <2>1, InventoryFrame
    <3> QED BY <2>1, <3>1 DEF MigrationInv, Fresh, Proposals
  <2> QED BY <1>0, <2>1, <2>2, <2>3, <2>4 DEF MigrationInv, Complete, Recorded
<1> QED BY <1>0, <1>1, <1>2, PlansKeep, OthersKeep, Zenon DEF Next

-----------------------------------------------------------------------------
(***************************************************************************)
(* The invariant, and what follows from it.                                *)
(***************************************************************************)

\* An apply that ends without COMMIT leaves the tables as they were; COMMIT leaves
\* exactly what the plan selects, and the tables bore the plan out.
LEMMA HowItEnds ==
  ASSUME MigrationInv, Next, Ends
  PROVE  \/ db' = db
         \/ LET p == plan[tx.owner] IN
            /\ Complete(p) /\ Backed(p) /\ db' \in Tables
            /\ db'.regs = db.regs /\ db'.sealed = db.sealed /\ db'.sessions = db.sessions
            /\ \A x \in Agent \X Name :
                 db'.bindings[x] = IF x \in p.rows THEN p.entries[x].auth
                                   ELSE db.bindings[x]
            /\ \A a \in Agent :
                 db'.agents[a] = IF a \in p.policies
                                 THEN [db.agents[a] EXCEPT !.allow = p.grants[a],
                                                           !.reviewed = TRUE]
                                 ELSE db.agents[a]
<1>0. tx # None
  BY DEF Ends
<1>1. CASE Commit
  <2> DEFINE p == plan[tx.owner]
  <2>1. tx.rows = {} /\ tx.policies = {} /\ db' = tx.work /\ Partly(p) /\ Backed(p)
    BY <1>0, <1>1 DEF MigrationInv, Underway, Commit
  <2>2. Complete(p)
    BY <1>0 DEF MigrationInv, TypeOK, Underway
  <2> HIDE DEF p
  <2>3. \A S : S \ {} = S
    OBVIOUS
  <2>4. /\ db' \in Tables
        /\ db'.regs = db.regs /\ db'.sealed = db.sealed /\ db'.sessions = db.sessions
        /\ \A x \in Agent \X Name :
             db'.bindings[x] = IF x \in p.rows THEN p.entries[x].auth ELSE db.bindings[x]
        /\ \A a \in Agent :
             db'.agents[a] = IF a \in p.policies
                             THEN [db.agents[a] EXCEPT !.allow = p.grants[a],
                                                       !.reviewed = TRUE]
                             ELSE db.agents[a]
    BY <2>1, <2>3, Zenon DEF Partly
  <2> QED BY <2>1, <2>2, <2>4, Zenon DEF p
<1>2. CASE Others
  BY <1>0, <1>2, OthersDo
<1> QED BY <1>1, <1>2, Zenon DEF Next, Preview, Review, Apply, Begin, InsertBinding,
           UpdateAgent, Record, Rollback

\* The inductive invariant of the migration: what the transaction has written so
\* far is the part of its plan that is done, the tables still bear out what run
\* checked, receipts are of revisions gone by, and a plan nothing has changed
\* since is what a preview would say.
THEOREM MigrationInvariant == Spec => []MigrationInv
<1>1. Init => MigrationInv
  <2> SUFFICES ASSUME Init PROVE MigrationInv
    OBVIOUS
  <2>1. OnceInv
    BY DEF Init, OnceInv, Past, Present
  <2>2. TypeOK
    BY MigrationAssumption DEF Init, TypeOK
  <2> QED BY <2>1, <2>2 DEF Init, MigrationInv, Recorded, Underway, Fresh
<1>2. MigrationInv /\ [Next]_vars => MigrationInv'
  BY MigrationStep
<1> QED BY <1>1, <1>2, PTL DEF Spec

\* An apply is all or nothing (apply, run): whenever it ends, by COMMIT, a failed
\* statement or a crash, the tables are as before or hold exactly what was selected.
THEOREM AppliesAllOrNothing == Spec => AllOrNothing
<1>1. MigrationInv /\ [Next]_vars => [Ends => db' = db \/ Whole(plan[tx.owner])]_vars
  <2> SUFFICES ASSUME MigrationInv, Next, Ends, db' # db PROVE Whole(plan[tx.owner])
    OBVIOUS
  <2> DEFINE p == plan[tx.owner]
  <2>1. /\ Complete(p) /\ Backed(p)
        /\ \A x \in Agent \X Name :
             db'.bindings[x] = IF x \in p.rows THEN p.entries[x].auth ELSE db.bindings[x]
        /\ \A a \in Agent :
             db'.agents[a] = IF a \in p.policies
                             THEN [db.agents[a] EXCEPT !.allow = p.grants[a],
                                                       !.reviewed = TRUE]
                             ELSE db.agents[a]
    BY HowItEnds, Zenon
  <2> HIDE DEF p
  <2>2. \A x \in p.rows : x \in Agent \X Name /\ p.entries[x].auth \in AuthSpec
    BY <2>1, Zenon DEF Complete, Plan
  <2>3. Inserted = p.rows
    <3>1. ASSUME NEW x \in p.rows PROVE x \in Inserted
      <4>1. db'.bindings[x] = p.entries[x].auth /\ db.bindings[x] = None
        BY <2>1, <2>2, Zenon DEF Backed
      <4>2. db'.bindings[x] # None
        BY <2>2, <4>1, DistinctAssumption
      <4> QED BY <2>2, <4>1, <4>2 DEF Inserted
    <3>2. ASSUME NEW x \in Inserted PROVE x \in p.rows
      BY <2>1, Zenon DEF Inserted
    <3> QED BY <3>1, <3>2
  <2>4. Whole(p)
    BY <2>1, <2>3, Zenon DEF Whole
  <2> QED BY <2>4 DEF p
<1> QED BY <1>1, MigrationInvariant, PTL DEF Spec, AllOrNothing

\* A review never gives an agent more than the older release let it reach
\* (grant_plan, the update of agents).
THEOREM ReviewsNeverWiden == Spec => NeverWidens
<1>1. MigrationInv /\ [Next]_vars =>
        [Ends => \A a \in Agent :
           Reach(db', a) \subseteq Reach(db, a) \cup
             {n \in Name : db.regs[n] # None /\ n \notin db.agents[a].deny
                           /\ (db.agents[a].allow # None => n \in db.agents[a].allow)}]_vars
  <2> SUFFICES ASSUME MigrationInv, Next, Ends, NEW a \in Agent,
                      NEW n \in Reach(db', a), n \notin Reach(db, a)
               PROVE  /\ n \in Name /\ db.regs[n] # None /\ n \notin db.agents[a].deny
                      /\ db.agents[a].allow # None => n \in db.agents[a].allow
    OBVIOUS
  <2> DEFINE p == plan[tx.owner]
  <2>1. /\ Complete(p) /\ Backed(p) /\ db'.regs = db.regs
        /\ db'.agents[a] = IF a \in p.policies
                           THEN [db.agents[a] EXCEPT !.allow = p.grants[a],
                                                     !.reviewed = TRUE]
                           ELSE db.agents[a]
    BY HowItEnds, Zenon
  <2> HIDE DEF p
  <2>2. a \in p.policies
    BY <2>1 DEF Reach
  <2>3. db.agents[a] \in AgentRow
    BY TableWrites, Zenon DEF MigrationInv, TypeOK
  <2>4. db'.agents[a].allow = p.grants[a]
    BY <2>1, <2>2, <2>3 DEF AgentRow
  <2>5. n \in p.grants[a]
    BY <2>4 DEF Reach
  <2> QED BY <2>1, <2>2, <2>5 DEF Backed
<1> QED BY <1>1, MigrationInvariant, PTL DEF Spec, NeverWidens

\* A usable source is a live secret, or a healthy session whose bindings agree.
LEMMA UsableIs ==
  ASSUME db \in Tables, NEW n \in Name, NEW t \in AuthSpec, Usable(SourceReason(n, t))
  PROVE  /\ t.kind = "stored" => db.sealed = "live"
         /\ t.kind = "oauth" => db.sessions[n] = "healthy" /\ Agree(n, t)
<1>1. /\ db.sealed \in {"live", "tombstoned"}
      /\ db.sessions[n] \in {"none", "healthy", "degraded"}
  BY DEF Tables
<1>2. ASSUME t.kind = "stored" PROVE db.sealed = "live"
  BY <1>1, <1>2 DEF Usable, SourceReason
<1>3. ASSUME t.kind = "oauth" PROVE db.sessions[n] = "healthy" /\ Agree(n, t)
  <2>1. Usable(OauthReason(n, t))
    BY <1>3 DEF SourceReason
  <2> QED BY <1>1, <2>1 DEF Usable, OauthReason
<1> QED BY <1>2, <1>3

\* Whatever was reviewed, and when (validate_selected, reviewed != expected): an
\* apply binds an agent that is not revoked to the account its registration has
\* now, and only if the source is sound; an explicit choice stays.
THEOREM AppliesToTheCurrent == Spec => BindsWhatIsCurrent
<1>1. MigrationInv /\ [Next]_vars =>
        [Ends =>
           /\ \A x \in Inserted :
                /\ db.regs[x[2]] # None /\ ~db.regs[x[2]].disabled
                /\ ~db.agents[x[1]].revoked
                /\ db'.bindings[x] = Inherited(db.regs[x[2]].auth)
                /\ SoundSource(db', x)
           /\ \A x \in Agent \X Name :
                db.bindings[x] # None => db'.bindings[x] = db.bindings[x]]_vars
  <2> SUFFICES ASSUME MigrationInv, Next, Ends
               PROVE  /\ \A x \in Inserted :
                           /\ db.regs[x[2]] # None /\ ~db.regs[x[2]].disabled
                           /\ ~db.agents[x[1]].revoked
                           /\ db'.bindings[x] = Inherited(db.regs[x[2]].auth)
                           /\ SoundSource(db', x)
                      /\ \A x \in Agent \X Name :
                           db.bindings[x] # None => db'.bindings[x] = db.bindings[x]
    BY Zenon
  <2>1. CASE db' = db
    BY <2>1 DEF Inserted
  <2>2. CASE db' # db
    <3> DEFINE p == plan[tx.owner]
    <3>1. /\ Complete(p) /\ Backed(p)
          /\ db'.regs = db.regs /\ db'.sealed = db.sealed /\ db'.sessions = db.sessions
          /\ \A x \in Agent \X Name :
               db'.bindings[x] = IF x \in p.rows THEN p.entries[x].auth ELSE db.bindings[x]
      BY <2>2, HowItEnds, Zenon
    <3> HIDE DEF p
    <3>2. \A x \in p.rows : x \in Agent \X Name /\ p.entries[x].auth \in AuthSpec
      BY <3>1 DEF Complete, Plan
    <3>3. \A x \in Agent \X Name :
             db.bindings[x] # None => db'.bindings[x] = db.bindings[x]
      BY <3>1 DEF Backed
    <3>4. ASSUME NEW x \in Inserted
          PROVE  /\ db.regs[x[2]] # None /\ ~db.regs[x[2]].disabled
                 /\ ~db.agents[x[1]].revoked
                 /\ db'.bindings[x] = Inherited(db.regs[x[2]].auth)
                 /\ SoundSource(db', x)
      <4>1. x \in p.rows /\ x \in Agent \X Name
        BY <3>1 DEF Inserted
      <4>2. /\ db.regs[x[2]] # None /\ ~db.regs[x[2]].disabled
            /\ ~db.agents[x[1]].revoked
            /\ db'.bindings[x] = Inherited(db.regs[x[2]].auth)
            /\ Usable(SourceReason(x[2], db'.bindings[x]))
        BY <3>1, <4>1 DEF Backed
      <4>3. db'.bindings[x] \in AuthSpec /\ x[2] \in Name /\ db \in Tables
        BY <3>1, <3>2, <4>1 DEF MigrationInv, TypeOK
      <4>4. /\ db'.bindings[x].kind = "stored" => db.sealed = "live"
            /\ db'.bindings[x].kind = "oauth" =>
                 db.sessions[x[2]] = "healthy" /\ Agree(x[2], db'.bindings[x])
        BY <4>2, <4>3, UsableIs, Zenon
      <4>5. ASSUME NEW a \in Agent, db'.bindings[x].kind = "oauth",
                   db'.bindings[<<a, x[2]>>] # None,
                   db'.bindings[<<a, x[2]>>].kind = "oauth",
                   db'.bindings[<<a, x[2]>>].labelled
            PROVE  db'.bindings[<<a, x[2]>>] = db'.bindings[x]
        <5> DEFINE y == <<a, x[2]>>
        <5>1. y \in Agent \X Name /\ y[2] = x[2]
          BY <4>3
        <5>2. CASE y \in p.rows
          <6>1. db'.bindings[y] = Inherited(db.regs[y[2]].auth)
            BY <3>1, <5>1, <5>2 DEF Backed
          <6> QED BY <4>2, <5>1, <6>1
        <5>3. CASE y \notin p.rows
          <6>1. db'.bindings[y] = db.bindings[y]
            BY <3>1, <5>1, <5>3
          <6> QED BY <4>4, <4>5, <6>1 DEF Agree
        <5> QED BY <5>2, <5>3
      <4>6. SoundSource(db', x)
        BY <3>1, <4>4, <4>5, Zenon DEF SoundSource
      <4> QED BY <4>2, <4>6
    <3> QED BY <3>3, <3>4, Zenon
  <2> QED BY <2>1, <2>2
<1> QED BY <1>1, MigrationInvariant, PTL DEF Spec, BindsWhatIsCurrent

\* A plan is not refused for nothing (run): one that selects proposals only, and
\* since whose preview nothing has changed, goes through.
THEOREM RefusesOnlyDrift == Spec => []ConflictMeansDrift
<1>1. MigrationInv => ConflictMeansDrift
  BY DEF MigrationInv, Fresh, ConflictMeansDrift
<1> QED BY <1>1, MigrationInvariant, PTL
=============================================================================
