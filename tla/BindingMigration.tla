-------------------------- MODULE BindingMigration --------------------------
(***************************************************************************)
(* locksmith migrate-bindings: an owner previews which accounts and grants *)
(* the agents of an older release would keep, marks rows of the plan file, *)
(* and applies it in one transaction, possibly more than once and possibly *)
(* while the daemon or another owner writes the same tables.               *)
(*                                                                         *)
(* A digest is the thing digested.  Timestamps are left out of snapshots,  *)
(* as if everything happened in one second: with them fewer snapshots are  *)
(* equal and more plans are refused.  An auth spec is its kind, for OAuth  *)
(* its parameters and whether it names the session (the default one).      *)
(* Registrations keep their destination while they exist.                  *)
(***************************************************************************)
EXTENDS Naturals

CONSTANTS Agent, Name,
          Infra,        \* the registrations of kind infra
          Owner,        \* people with a plan file
          Marks,        \* what an owner may select in it
          Templates,    \* auth specs of registrations
          Choices,      \* auth specs of bindings set by an operator
          Estates,      \* the tables before the upgrade
          Legacies,     \* what the YAML file may say of the registrations
          MaxWrites,    \* bound: writes by others, and changes outside the database
          MaxRevision,  \* bound: plans that take effect
          None

VARIABLES db,           \* the tables a snapshot projects, but for the revision
          revision,     \* registrations_meta explicit_bindings/v1/revision
          receipts,     \* registrations_meta explicit_bindings/v1/plan/...
          expired,      \* the agents whose expires_at has passed
          legacy,       \* the YAML file
          plan,         \* plan[o]: the file of owner o, or None
          tx,           \* the transaction that holds the write lock, or None
          answer,       \* answer[o]: how the last apply of o ended
          writes,
          took,         \* ghost: the reviewed plans that took effect
          fresh         \* ghost: owners since whose preview, and plans since whose
                        \* COMMIT, nothing has changed

vars == <<db, revision, receipts, expired, legacy, plan, tx, answer, writes, took, fresh>>

-----------------------------------------------------------------------------
(***************************************************************************)
(* State.                                                                  *)
(***************************************************************************)

\* "free" stands for every kind that metadata alone shows to be usable; "bad"
\* for JSON that is not an auth spec.
AuthSpec == [kind : {"free", "stored", "oauth", "bad"}, params : {"x", "y"},
             labelled : BOOLEAN]

\* allow = None: the NULL of an unrestricted agent
AgentRow == [allow : (SUBSET Name) \cup {None}, deny : SUBSET Name, reviewed : BOOLEAN,
             revoked : BOOLEAN]

Registration == [auth : AuthSpec, disabled : BOOLEAN]

Tables == [agents : [Agent -> AgentRow], regs : [Name -> Registration \cup {None}],
           bindings : [Agent \X Name -> AuthSpec \cup {None}],
           sealed : {"live", "tombstoned"},
           sessions : [Name -> {"none", "healthy", "degraded"}]]

Snapshot == [tables |-> db, revision |-> revision]

ASSUME MigrationAssumption ==
    /\ Infra \subseteq Name /\ Templates \cup Choices \subseteq AuthSpec
    /\ Estates \subseteq Tables
    /\ Legacies \subseteq [Name -> {"absent", "free", "unclear"}]
    /\ Marks \subseteq [rows : SUBSET (Agent \X Name), policies : SUBSET Agent]
    /\ MaxWrites \in Nat /\ MaxRevision \in Nat

-----------------------------------------------------------------------------
(***************************************************************************)
(* The inventory.                                                          *)
(***************************************************************************)

\* The session of a registration that names none is the default one.
Inherited(s) == IF s.kind = "oauth" THEN [s EXCEPT !.labelled = TRUE] ELSE s

\* Mutant: the other bindings to a session are not looked at.
AgreeNobody(n, s) == TRUE

\* Every binding to the session has the same parameters.
Agree(n, s) ==
    \A a \in Agent : LET b == db.bindings[<<a, n>>] IN
        b # None /\ b.kind = "oauth" /\ b.labelled => b = s

OauthReason(n, s) ==
    IF ~s.labelled THEN "owner_reselection_required"
    ELSE IF \E x \in Agent \X Name : db.bindings[x] # None /\ db.bindings[x].kind = "bad"
         THEN "metadata_unavailable"
    ELSE IF ~Agree(n, s) THEN "conflicting_session_metadata"
    ELSE db.sessions[n]

SourceReason(n, s) ==
    IF s.kind = "stored" THEN db.sealed
    ELSE IF s.kind = "oauth" THEN OauthReason(n, s)
    ELSE s.kind

Usable(reason) == reason \in {"free", "live", "healthy"}

RouteReason(a, n) ==
    LET r == db.agents[a] IN
    IF r.revoked THEN "agent_revoked"
    ELSE IF a \in expired THEN "agent_expired"
    ELSE IF db.regs[n].disabled THEN "registration_disabled"
    ELSE IF n \in r.deny THEN "in_denylist"
    ELSE IF IF r.allow = None THEN r.reviewed ELSE n \notin r.allow THEN "not_in_allowlist"
    ELSE None

\* mapping_reason: the file must not say anything else of the source.
MappingReason(n) ==
    IF legacy[n] = "unclear" \/ (legacy[n] = "free" /\ db.regs[n].auth.kind # "free")
    THEN "legacy_source" ELSE None

Entry(a, n) ==
    LET existing == db.bindings[<<a, n>>]
        auth == IF existing # None THEN existing ELSE Inherited(db.regs[n].auth)
        source == SourceReason(n, auth)
        blocked == IF RouteReason(a, n) # None THEN RouteReason(a, n)
                   ELSE IF existing = None THEN MappingReason(n) ELSE None IN
    [auth |-> auth,
     action |-> IF existing # None THEN "preserve"
                ELSE IF blocked = None /\ Usable(source) THEN "propose" ELSE "skip",
     reason |-> IF Usable(source) /\ blocked # None THEN blocked ELSE source]

\* A binding whose registration is gone is listed as well.
Entries ==
    [x \in Agent \X Name |->
       IF db.regs[x[2]] # None THEN Entry(x[1], x[2])
       ELSE IF db.bindings[x] # None
            THEN [auth |-> db.bindings[x], action |-> "preserve", reason |-> "missing"]
       ELSE None]

\* Mutant: every tool and model is listed.
EligibleAll(a) == {n \in Name \ Infra : db.regs[n] # None}

\* What the agent could reach so far, except infra
Eligible(a) ==
    {n \in Name \ Infra : db.regs[n] # None /\ RouteReason(a, n) = None}

\* plan and grant_plan, with these rows and policies selected
Inventory(version, rows, policies) ==
    [version |-> version, snapshot |-> Snapshot, entries |-> Entries,
     grants |-> IF version = 2 THEN [a \in Agent |-> Eligible(a)] ELSE None,
     legacy |-> legacy, rows |-> rows, policies |-> policies]

-----------------------------------------------------------------------------

Init ==
    /\ db \in Estates
    /\ revision = 0 /\ receipts = {}
    /\ expired = {}
    /\ legacy \in Legacies
    /\ plan = [o \in Owner |-> None]
    /\ tx = None
    /\ answer = [o \in Owner |-> "none"]
    /\ writes = 0
    /\ took = {} /\ fresh = {}

(***************************************************************************)
(* Preview, review, apply.                                                 *)
(***************************************************************************)

\* preview_mode: one read transaction
Preview(o, version) ==
    /\ tx # None => tx.owner # o
    /\ plan' = [plan EXCEPT ![o] = Inventory(version, {}, {})]
    /\ answer' = [answer EXCEPT ![o] = "none"]
    /\ fresh' = fresh \cup {o}
    /\ UNCHANGED <<db, revision, receipts, expired, legacy, tx, writes, took>>

\* The owner sets selected flags of the file, on any rows.
Review(o, mark) ==
    /\ tx # None => tx.owner # o
    /\ plan[o] # None
    /\ \A x \in mark.rows : plan[o].entries[x] # None
    /\ mark.policies # {} => plan[o].version = 2
    /\ plan' = [plan EXCEPT ![o].rows = mark.rows, ![o].policies = mark.policies]
    /\ answer' = [answer EXCEPT ![o] = "none"]
    /\ UNCHANGED <<db, revision, receipts, expired, legacy, tx, writes, took, fresh>>

\* validate_selected, against the tables as they are
ValidSelected(p) ==
    \A x \in p.rows :
        /\ db.regs[x[2]] # None
        /\ p.entries[x].action = "propose"
        /\ RouteReason(x[1], x[2]) = None
        /\ Usable(SourceReason(x[2], p.entries[x].auth))

\* reviewed == expected
UnchangedSince(p) == p = Inventory(p.version, p.rows, p.policies)

\* The receipt under the key of the plan's snapshot
Receipt(p) == {r \in receipts : r.reviewed.snapshot = p.snapshot}

Transaction(o, work, rows, policies, rev, done, recorded) ==
    [owner |-> o, work |-> work, rows |-> rows, policies |-> policies,
     revision |-> rev, receipts |-> done, recorded |-> recorded]

End(o, how) == answer' = [answer EXCEPT ![o] = how]

\* BEGIN IMMEDIATE and every check of run.  The transaction goes on to write, or
\* is over.
Begin(o) ==
    LET p == plan[o] IN
    /\ tx = None
    /\ p # None /\ (p.rows # {} \/ p.policies # {})
    /\ \/ /\ ~ValidSelected(p) \/ p.legacy # legacy
          /\ End(o, "conflict") /\ UNCHANGED tx
       \/ /\ ValidSelected(p) /\ p.legacy = legacy /\ Receipt(p) # {}
          /\ End(o, IF [reviewed |-> p, after |-> Snapshot] \in Receipt(p) THEN "ok"
                    ELSE "conflict")
          /\ UNCHANGED tx
       \/ /\ ValidSelected(p) /\ p.legacy = legacy /\ Receipt(p) = {}
          /\ ~UnchangedSince(p)
          /\ End(o, "conflict") /\ UNCHANGED tx
       \/ /\ ValidSelected(p) /\ p.legacy = legacy /\ Receipt(p) = {}
          /\ UnchangedSince(p) /\ revision < MaxRevision
          /\ tx' = Transaction(o, db, p.rows, p.policies, revision, receipts, FALSE)
          /\ UNCHANGED answer
    /\ UNCHANGED <<db, revision, receipts, expired, legacy, plan, writes, took, fresh>>

\* insert_bindings: one row
InsertBinding(x) ==
    /\ tx # None
    /\ x \in tx.rows
    /\ tx' = Transaction(
                tx.owner, [tx.work EXCEPT !.bindings[x] = plan[tx.owner].entries[x].auth],
                tx.rows \ {x}, tx.policies, revision, receipts, FALSE)
    /\ UNCHANGED <<db, revision, receipts, expired, legacy, plan, answer, writes, took, fresh>>

\* UPDATE agents: one row
UpdateAgent(a) ==
    /\ tx # None /\ tx.rows = {}
    /\ a \in tx.policies
    /\ tx' = Transaction(
                tx.owner, [tx.work EXCEPT !.agents[a].allow = plan[tx.owner].grants[a],
                                          !.agents[a].reviewed = TRUE],
                {}, tx.policies \ {a}, revision, receipts, FALSE)
    /\ UNCHANGED <<db, revision, receipts, expired, legacy, plan, answer, writes, took, fresh>>

\* Mutant: the bookkeeping is forgotten.
RecordNothing ==
    /\ tx # None /\ tx.rows = {} /\ tx.policies = {} /\ ~tx.recorded
    /\ tx' = Transaction(tx.owner, tx.work, {}, {}, revision, receipts, TRUE)
    /\ UNCHANGED <<db, revision, receipts, expired, legacy, plan, answer, writes, took, fresh>>

\* Mutant: the revision stays.
RecordReceipt ==
    /\ tx # None /\ tx.rows = {} /\ tx.policies = {} /\ ~tx.recorded
    /\ tx' = Transaction(
                tx.owner, tx.work, {}, {}, revision,
                receipts \cup {[reviewed |-> plan[tx.owner],
                                after |-> [tables |-> tx.work, revision |-> revision]]},
                TRUE)
    /\ UNCHANGED <<db, revision, receipts, expired, legacy, plan, answer, writes, took, fresh>>

\* record: the next revision, and the receipt with the state it leads to
Record ==
    /\ tx # None /\ tx.rows = {} /\ tx.policies = {} /\ ~tx.recorded
    /\ tx' = Transaction(
                tx.owner, tx.work, {}, {}, revision + 1,
                receipts \cup {[reviewed |-> plan[tx.owner],
                                after |-> [tables |-> tx.work, revision |-> revision + 1]]},
                TRUE)
    /\ UNCHANGED <<db, revision, receipts, expired, legacy, plan, answer, writes, took, fresh>>

\* COMMIT; the process may end before it has printed the count.
Commit ==
    /\ tx # None /\ tx.recorded
    /\ db' = tx.work /\ revision' = tx.revision /\ receipts' = tx.receipts
    /\ took' = took \cup {plan[tx.owner]}
    /\ fresh' = {plan[tx.owner]}
    /\ \E how \in {"ok", "failed"} : End(tx.owner, how)
    /\ tx' = None
    /\ UNCHANGED <<expired, legacy, plan, writes>>

\* Mutant: what was written so far is kept.
RollbackKeeps ==
    /\ tx # None
    /\ db' = tx.work /\ revision' = tx.revision /\ receipts' = tx.receipts
    /\ End(tx.owner, "failed")
    /\ tx' = None
    /\ UNCHANGED <<expired, legacy, plan, writes, took, fresh>>

\* A statement fails, or the process or the machine dies.
Rollback ==
    /\ tx # None
    /\ End(tx.owner, "failed")
    /\ tx' = None
    /\ UNCHANGED <<db, revision, receipts, expired, legacy, plan, writes, took, fresh>>

-----------------------------------------------------------------------------
(***************************************************************************)
(* What others do meanwhile: the daemon's writes, which need the write     *)
(* lock, the clock and the YAML file.                                      *)
(***************************************************************************)

Meanwhile ==
    /\ writes < MaxWrites
    /\ writes' = writes + 1
    /\ fresh' = {}
    /\ UNCHANGED <<revision, receipts, plan, tx, answer, took>>

Write(tables) ==
    /\ tx = None
    /\ db' = tables
    /\ Meanwhile /\ UNCHANGED <<expired, legacy>>

RevokeAgent(a) == ~db.agents[a].revoked /\ Write([db EXCEPT !.agents[a].revoked = TRUE])

\* update_policy_reviewed, with a list of enabled tools and models
SetPolicy(a, S) ==
    /\ \A n \in S : n \notin Infra /\ db.regs[n] # None /\ ~db.regs[n].disabled
    /\ Write([db EXCEPT !.agents[a].allow = S, !.agents[a].reviewed = TRUE])

SetDenylist(a, S) == db.agents[a].deny # S /\ Write([db EXCEPT !.agents[a].deny = S])

\* The triggers of migration 0009: the bindings to n and the reviewed grants go.
Withdrawn(n, r) ==
    [db EXCEPT
       !.regs[n] = r,
       !.bindings = [x \in Agent \X Name |-> IF x[2] = n THEN None ELSE db.bindings[x]],
       !.agents = [a \in Agent |->
                     IF db.agents[a].reviewed /\ db.agents[a].allow # None
                     THEN [db.agents[a] EXCEPT !.allow = @ \ {n}] ELSE db.agents[a]]]

\* A registration is created, or an existing one gets another template.
PutRegistration(n, s) ==
    LET new == [auth |-> s, disabled |-> FALSE] IN
    IF db.regs[n] = None THEN Write(Withdrawn(n, new))
    ELSE db.regs[n].auth # s /\ Write([db EXCEPT !.regs[n].auth = s])

DeleteRegistration(n) == db.regs[n] # None /\ Write(Withdrawn(n, None))

ToggleRegistration(n) ==
    db.regs[n] # None /\ Write([db EXCEPT !.regs[n].disabled = ~@])

\* set: tools and models that are enabled
SetBinding(x, s) ==
    /\ x[2] \notin Infra /\ db.regs[x[2]] # None /\ ~db.regs[x[2]].disabled
    /\ db.bindings[x] # s
    /\ Write([db EXCEPT !.bindings[x] = s])

ClearBinding(x) == db.bindings[x] # None /\ Write([db EXCEPT !.bindings[x] = None])

TombstoneSecret == db.sealed = "live" /\ Write([db EXCEPT !.sealed = "tombstoned"])

DegradeSession(n) ==
    db.sessions[n] = "healthy" /\ Write([db EXCEPT !.sessions[n] = "degraded"])

Expire(a) ==
    /\ a \notin expired
    /\ expired' = expired \cup {a}
    /\ Meanwhile /\ UNCHANGED <<db, legacy>>

EditLegacy(l) ==
    /\ l # legacy
    /\ legacy' = l
    /\ Meanwhile /\ UNCHANGED <<db, expired>>

Apply ==
    \/ \E o \in Owner : Begin(o)
    \/ \E x \in Agent \X Name : InsertBinding(x)
    \/ \E a \in Agent : UpdateAgent(a)
    \/ Record \/ Commit \/ Rollback

Others ==
    \/ \E a \in Agent : RevokeAgent(a) \/ Expire(a)
    \/ \E a \in Agent, S \in SUBSET Name : SetPolicy(a, S) \/ SetDenylist(a, S)
    \/ \E n \in Name, s \in Templates : PutRegistration(n, s)
    \/ \E n \in Name : DeleteRegistration(n) \/ ToggleRegistration(n) \/ DegradeSession(n)
    \/ \E x \in Agent \X Name, s \in Choices : SetBinding(x, s)
    \/ \E x \in Agent \X Name : ClearBinding(x)
    \/ TombstoneSecret
    \/ \E l \in Legacies : EditLegacy(l)

Next ==
    \/ \E o \in Owner, version \in {1, 2} : Preview(o, version)
    \/ \E o \in Owner, mark \in Marks : Review(o, mark)
    \/ Apply \/ Others

Spec == Init /\ [][Next]_vars

-----------------------------------------------------------------------------
(***************************************************************************)
(* Properties.                                                             *)
(***************************************************************************)

Reason == {"free", "bad", "live", "tombstoned", "owner_reselection_required",
           "metadata_unavailable", "conflicting_session_metadata", "none", "healthy",
           "degraded", "missing", "agent_revoked", "agent_expired",
           "registration_disabled", "in_denylist", "not_in_allowlist", "legacy_source"}

Plan == [version : {1, 2}, snapshot : [tables : Tables, revision : Nat],
         entries : [Agent \X Name ->
                      [auth : AuthSpec, action : {"propose", "preserve", "skip"},
                       reason : Reason] \cup {None}],
         grants : [Agent -> SUBSET Name] \cup {None}, legacy : Legacies,
         rows : SUBSET (Agent \X Name), policies : SUBSET Agent]

ASSUME DistinctAssumption ==
    /\ None \notin AuthSpec /\ None \notin Reason
    /\ \A o \in Owner : o \notin Plan

TypeOK ==
    /\ db \in Tables /\ revision \in Nat
    /\ \A r \in receipts : r.reviewed \in Plan /\ r.after.tables \in Tables
    /\ expired \subseteq Agent /\ legacy \in Legacies
    /\ \A o \in Owner : plan[o] # None => plan[o] \in Plan
    /\ tx # None => tx.owner \in Owner /\ tx.work \in Tables /\ plan[tx.owner] \in Plan
    /\ answer \in [Owner -> {"none", "ok", "conflict", "failed"}]
    /\ writes \in 0..MaxWrites /\ fresh \subseteq Owner \cup took

Ends == tx # None /\ tx' = None

Inserted == {x \in Agent \X Name : db.bindings[x] = None /\ db'.bindings[x] # None}

\* Exactly the selected rows and policies have been written.
Whole(p) ==
    /\ Inserted = p.rows
    /\ \A a \in Agent :
         db'.agents[a] = IF a \in p.policies
                         THEN [db.agents[a] EXCEPT !.allow = p.grants[a], !.reviewed = TRUE]
                         ELSE db.agents[a]

\* An apply is all or nothing: when it ends, by COMMIT, a failed statement or a
\* crash, the tables are as before, or exactly what was selected has been written
\* (apply, run).
AllOrNothing == [][Ends => db' = db \/ Whole(plan[tx.owner])]_vars

\* The spec names a live secret, or a healthy session whose bindings all agree.
SoundSource(d, x) ==
    LET s == d.bindings[x] IN
    /\ s.kind = "stored" => d.sealed = "live"
    /\ s.kind = "oauth" =>
         /\ d.sessions[x[2]] = "healthy"
         /\ \A a \in Agent : LET b == d.bindings[<<a, x[2]>>] IN
              b # None /\ b.kind = "oauth" /\ b.labelled => b = s

\* Whatever was reviewed, and when: an apply binds an agent that is not revoked to
\* the account its registration has now, and only if the source is sound and the
\* registration is enabled; a choice that was already explicit stays
\* (validate_selected, reviewed != expected).
BindsWhatIsCurrent ==
    [][Ends =>
         /\ \A x \in Inserted :
              /\ db.regs[x[2]] # None /\ ~db.regs[x[2]].disabled
              /\ ~db.agents[x[1]].revoked
              /\ db'.bindings[x] = Inherited(db.regs[x[2]].auth)
              /\ SoundSource(db', x)
         /\ \A x \in Agent \X Name :
              db.bindings[x] # None => db'.bindings[x] = db.bindings[x]]_vars

\* What the live gate lets a reviewed agent reach
Reach(d, a) ==
    IF d.agents[a].reviewed /\ d.agents[a].allow # None /\ ~d.agents[a].revoked
    THEN {n \in d.agents[a].allow \ d.agents[a].deny : d.regs[n] # None} ELSE {}

\* A review never gives an agent more than the older release let it reach
\* (grant_plan, the update of agents).
NeverWidens ==
    [][Ends => \A a \in Agent :
         Reach(db', a) \subseteq Reach(db, a) \cup
           {n \in Name : db.regs[n] # None /\ n \notin db.agents[a].deny
                         /\ (db.agents[a].allow # None => n \in db.agents[a].allow)}]_vars

\* A reviewed plan takes effect once, however often it is applied again and
\* whatever happens in between: a binding that was cleared later does not come
\* back by it (the receipt and the revision).
TakesEffectOnce == [][Ends /\ db' # db => plan[tx.owner] \notin took]_vars

\* The selected rows are proposals of the plan.
Proposals(p) == \A x \in p.rows : p.entries[x].action = "propose"

\* A plan is not refused for nothing: if only proposals are selected, and
\* nothing has changed and no plan has taken effect since the preview, it goes
\* through, also when the tables have been in the same state before (the
\* revision in the snapshot).  What a transaction holds is tables again (TypeOK).
ConflictMeansDrift ==
    /\ TypeOK
    /\ \A o \in Owner :
         answer[o] = "conflict" /\ Proposals(plan[o]) => o \notin fresh

\* "An unchanged repeat prints {"inserted":0}."
RepeatIsANoOp ==
    \A o \in Owner : plan[o] \in fresh => answer[o] # "conflict"
=============================================================================
