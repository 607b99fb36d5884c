--------------------------- MODULE OAuthSessions ---------------------------
(***************************************************************************)
(* The OAuth session cache: the table oauth_sessions, the per-session      *)
(* refresh lock, and the three kinds of task that work on a session.       *)
(*                                                                         *)
(*   Request   proxied requests, in proxy.rs resolve_oauth_token           *)
(*   Task      the background refresh task, oauth/refresh.rs run           *)
(*   Operator  bootstrap calls, oauth/admin.rs op_oauth_bootstrap          *)
(*                                                                         *)
(* Every step is one statement on the database or one message to the token *)
(* endpoint; between two steps the task awaits and the others may run.     *)
(* Revocation takes no lock.                                               *)
(*                                                                         *)
(* Token material is a number.  A successful exchange issues one number,   *)
(* which names the access token and, if the provider rotates, the new      *)
(* refresh token.  A row is identified by `origin', the refresh token it   *)
(* was bootstrapped with: it plays the part of created_at.                 *)
(***************************************************************************)
EXTENDS Naturals, FiniteSets

CONSTANTS Key,           \* (registration name, session label) pairs
          Agent,         \* agents that may be bound to a session
          AuthSpec,      \* OAuth auth specs an operator may record
          Usable,        \* those selected_parameters accepts
          Request, Operator, Task,
          TaskMargin,    \* DEFAULT_REFRESH_SAFETY_MARGIN_SECS
          ProxyMargin,   \* the 60 seconds of resolve_oauth_token
          Lifetime,      \* expires_in values the provider returns
          Faults,        \* which of "cancel", "crash", "db" may happen
          MaxTime,       \* bound: the clock stops here
          MaxTokens,     \* bound: tokens issued in all
          None

Worker == Request \cup Operator \cup {Task}

ASSUME SetsAssumption ==
    /\ Usable \subseteq AuthSpec
    /\ None \notin AuthSpec \cup Key \cup Worker
    /\ Request \cap Operator = {}
    /\ Task \notin Request \cup Operator

ASSUME NumbersAssumption ==
    /\ TaskMargin \in Nat
    /\ ProxyMargin \in Nat
    /\ Lifetime \subseteq Nat
    /\ MaxTime \in Nat
    /\ MaxTokens \in Nat

VARIABLES
    now,         \* unix_now()
    row,         \* row[k]: the row of oauth_sessions, or None
    lock,        \* lock[k]: the worker holding the per-session mutex, or None
    catalog,     \* catalog[k]: auth spec of the active registration, or None
    binding,     \* binding[a][k]: the spec agent a selected for k, or None
    pc, job,     \* where each worker is, and its local variables
    queue,       \* what list_pending_refresh returned and is still to do
    threshold,   \* the task's threshold, computed once per tick
    served,      \* served[r]: the session a request got its token from, or None
    issued,      \* tokens issued so far
    superseded,  \* refresh tokens the provider no longer accepts
    orphans      \* refresh tokens in requests whose sender is gone

vars == <<now, row, lock, catalog, binding, pc, job, queue, threshold, served,
          issued, superseded, orphans>>

-----------------------------------------------------------------------------
(***************************************************************************)
(* State.                                                                  *)
(***************************************************************************)

\* No access token.  The access token and its expiry are written together,
\* so tok = NoToken also stands for access_token_expires_at IS NULL.
NoToken == 0

SessionRow ==
    [origin : Nat, rt : Nat, tok : Nat, exp : Nat, degraded : BOOLEAN]

Job == [key : Key \cup {None}, spec : AuthSpec \cup {None}, origin : Nat, rt : Nat,
        newTok : Nat, newRt : Nat, newExp : Nat]

NoJob == [key |-> None, spec |-> None, origin |-> 0, rt |-> 0,
          newTok |-> NoToken, newRt |-> NoToken, newExp |-> 0]

\* What a worker may be about to do while it holds the lock.
Critical == {"check", "select", "read", "create", "post", "sent", "persist",
             "readback", "degrade", "rollback"}

PC == {"idle", "next", "lock"} \cup Critical

Init ==
    /\ now = 0
    /\ row = [k \in Key |-> None]
    /\ lock = [k \in Key |-> None]
    /\ catalog \in [Key -> AuthSpec \cup {None}]
    /\ binding = [a \in Agent |-> [k \in Key |-> None]]
    /\ pc = [w \in Worker |-> "idle"]
    /\ job = [w \in Worker |-> NoJob]
    /\ queue = {}
    /\ threshold = 0
    /\ served = [r \in Request |-> None]
    /\ issued = 0
    /\ superseded = {}
    /\ orphans = {}

\* selected_source and consensus: all agents bound to the session selected
\* the same spec, and it is usable.
Selects(k, s) ==
    /\ s \in Usable
    /\ \E a \in Agent : binding[a][k] = s
    /\ \A a \in Agent : binding[a][k] \in {None, s}

\* The session exists and its last refresh did not fail.
Healthy(s) == s # None /\ ~s.degraded

Goto(w, l) == pc' = [pc EXCEPT ![w] = l]

\* Mutant: the lock is not released.
LeaveLocked(w) ==
    /\ Goto(w, IF w = Task THEN "next" ELSE "idle")
    /\ job' = [job EXCEPT ![w] = NoJob]
    /\ UNCHANGED lock

\* The guard is dropped when the handler returns; the task goes on with the
\* next session of its list.
Leave(w) ==
    /\ Goto(w, IF w = Task THEN "next" ELSE "idle")
    /\ lock' = [lock EXCEPT ![job[w].key] = None]
    /\ job' = [job EXCEPT ![w] = NoJob]

\* Mutant: a failed bootstrap is not rolled back.
FailDegrades(w) == Goto(w, "degrade")

\* What each caller of the exchange does with an Err.
Fail(w) == Goto(w, IF w \in Operator THEN "rollback" ELSE "degrade")

-----------------------------------------------------------------------------
(***************************************************************************)
(* Taking the lock.                                                        *)
(***************************************************************************)

\* A request is admitted: admission::target found the connection active and
\* apply_oauth accepted the agent's own selection.
Admit(r, a, k) ==
    /\ pc[r] = "idle"
    /\ catalog[k] # None
    /\ binding[a][k] \in Usable
    /\ Goto(r, "lock")
    /\ job' = [job EXCEPT ![r] = [NoJob EXCEPT !.key = k, !.spec = binding[a][k]]]
    /\ served' = [served EXCEPT ![r] = None]
    /\ UNCHANGED <<now, row, lock, catalog, binding, queue, threshold, issued,
                   superseded, orphans>>

\* An operator posts a refresh token obtained out of band.  It is new to the
\* daemon; it may already have been used somewhere else.
StartBootstrap(b, k) ==
    /\ pc[b] = "idle"
    /\ issued < MaxTokens
    /\ issued' = issued + 1
    /\ superseded' \in {superseded, superseded \cup {issued + 1}}
    /\ Goto(b, "lock")
    /\ job' = [job EXCEPT ![b] = [NoJob EXCEPT !.key = k, !.rt = issued + 1]]
    /\ UNCHANGED <<now, row, lock, catalog, binding, queue, threshold, served,
                   orphans>>

AfterLock(w) == IF w \in Request THEN "check"
                ELSE IF w = Task THEN "select" ELSE "create"

\* Mutants: the lock is not waited for; bootstrap does not wait for it.
AcquireAnyway(w) ==
    /\ pc[w] = "lock"
    /\ lock' = [lock EXCEPT ![job[w].key] = w]
    /\ Goto(w, AfterLock(w))
    /\ UNCHANGED <<now, row, catalog, binding, job, queue, threshold, served,
                   issued, superseded, orphans>>
AcquireBootstrap(w) ==
    /\ pc[w] = "lock"
    /\ w \notin Operator => lock[job[w].key] = None
    /\ AcquireAnyway(w)

Acquire(w) ==
    /\ pc[w] = "lock"
    /\ lock[job[w].key] = None
    /\ lock' = [lock EXCEPT ![job[w].key] = w]
    /\ Goto(w, AfterLock(w))
    /\ UNCHANGED <<now, row, catalog, binding, job, queue, threshold, served,
                   issued, superseded, orphans>>

-----------------------------------------------------------------------------
(***************************************************************************)
(* A proxied request, under the lock.                                      *)
(***************************************************************************)

\* oauth_consistent: the selection of admission is still the consensus.
CheckSelection(r) ==
    /\ pc[r] = "check"
    /\ \/ /\ Selects(job[r].key, job[r].spec)
          /\ Goto(r, "read")
          /\ UNCHANGED <<lock, job>>
       \/ /\ ~Selects(job[r].key, job[r].spec)
          /\ Leave(r)
    /\ UNCHANGED <<now, row, catalog, binding, queue, threshold, served, issued,
                   superseded, orphans>>

\* Mutant: off by one at the margin.
NeedsRefreshLate(s) == s.tok = NoToken \/ s.exp < now + ProxyMargin

\* An access token that is missing or ends within the proxy's margin.
NeedsRefresh(s) == s.tok = NoToken \/ s.exp <= now + ProxyMargin

\* The session was read: keep what the exchange will use of it.
Remember(w, s) ==
    job' = [job EXCEPT ![w].origin = s.origin, ![w].rt = s.rt]

Serve(r) ==
    served' = [served EXCEPT ![r] = row[job[r].key]]

ReadForRequest(r) ==
    LET s == row[job[r].key] IN
    /\ pc[r] = "read"
    /\ \/ /\ ~Healthy(s)
          /\ Leave(r)
          /\ UNCHANGED served
       \/ /\ Healthy(s) /\ NeedsRefresh(s)
          /\ Remember(r, s)
          /\ Goto(r, "post")
          /\ UNCHANGED <<lock, served>>
       \/ /\ Healthy(s) /\ ~NeedsRefresh(s)
          /\ Serve(r)
          /\ Leave(r)
    /\ UNCHANGED <<now, row, catalog, binding, queue, threshold, issued,
                   superseded, orphans>>

-----------------------------------------------------------------------------
(***************************************************************************)
(* The background refresh task.                                            *)
(***************************************************************************)

\* Mutant: only sessions without an access token are listed.
PendingMissing(limit) ==
    {[key |-> k, exp |-> limit] : k \in
        {i \in Key : Healthy(row[i]) /\ row[i].tok = NoToken}}

\* list_pending_refresh
Pending(limit) ==
    {[key |-> k, exp |-> row[k].exp] : k \in
        {i \in Key : /\ Healthy(row[i])
                     /\ row[i].tok # NoToken
                     /\ row[i].exp <= limit}}

Tick ==
    /\ pc[Task] = "idle"
    /\ threshold' = now + TaskMargin
    /\ queue' = Pending(now + TaskMargin)
    /\ Goto(Task, "next")
    /\ UNCHANGED <<now, row, lock, catalog, binding, job, served, issued,
                   superseded, orphans>>

\* ORDER BY access_token_expires_at ASC, as read at the tick
Earliest(q) == {i \in q : \A j \in q : i.exp <= j.exp}

NextPending ==
    /\ pc[Task] = "next"
    /\ \/ /\ queue = {}
          /\ Goto(Task, "idle")
          /\ UNCHANGED <<queue, job>>
       \/ \E i \in Earliest(queue) :
            /\ queue' = queue \ {i}
            /\ \/ /\ catalog[i.key] = None
                  /\ UNCHANGED <<pc, job>>
               \/ /\ catalog[i.key] # None
                  /\ job' = [job EXCEPT ![Task].key = i.key]
                  /\ Goto(Task, "lock")
    /\ UNCHANGED <<now, row, lock, catalog, binding, threshold, served, issued,
                   superseded, orphans>>

SelectSource ==
    /\ pc[Task] = "select"
    /\ \/ \E s \in Usable :
            /\ Selects(job[Task].key, s)
            /\ job' = [job EXCEPT ![Task].spec = s]
            /\ Goto(Task, "read")
            /\ UNCHANGED lock
       \/ /\ \A s \in Usable : ~Selects(job[Task].key, s)
          /\ Leave(Task)
    /\ UNCHANGED <<now, row, catalog, binding, queue, threshold, served, issued,
                   superseded, orphans>>

\* Mutant: the degraded flag is not looked at again.
StillPendingDegraded(s) == s # None /\ s.exp <= threshold

\* Re-read inside the lock: another worker may have refreshed already.
StillPending(s) ==
    /\ Healthy(s)
    /\ s.tok = NoToken \/ s.exp <= threshold

ReadForTask ==
    LET s == row[job[Task].key] IN
    /\ pc[Task] = "read"
    /\ \/ /\ StillPending(s)
          /\ Remember(Task, s)
          /\ Goto(Task, "post")
          /\ UNCHANGED lock
       \/ /\ ~StillPending(s)
          /\ Leave(Task)
    /\ UNCHANGED <<now, row, catalog, binding, queue, threshold, served, issued,
                   superseded, orphans>>

-----------------------------------------------------------------------------
(***************************************************************************)
(* Operator bootstrap: INSERT, then the first exchange.                    *)
(***************************************************************************)

\* The INSERT fails with 409 when the row exists.
CreateRow(b) ==
    LET k == job[b].key IN
    /\ pc[b] = "create"
    /\ \/ /\ row[k] = None
          /\ row' = [row EXCEPT ![k] = [origin |-> job[b].rt, rt |-> job[b].rt,
                                        tok |-> NoToken, exp |-> 0,
                                        degraded |-> FALSE]]
          /\ job' = [job EXCEPT ![b].origin = job[b].rt]
          /\ Goto(b, "post")
          /\ UNCHANGED lock
       \/ /\ row[k] # None
          /\ Leave(b)
          /\ UNCHANGED row
    /\ UNCHANGED <<now, catalog, binding, queue, threshold, served, issued,
                   superseded, orphans>>

\* Before the exchange, a database or unsealing error ends the work on the
\* session with nothing changed.
ReadError(w) ==
    /\ "db" \in Faults
    /\ pc[w] \in {"check", "select", "read", "create"}
    /\ Leave(w)
    /\ UNCHANGED <<now, row, catalog, binding, queue, threshold, served, issued,
                   superseded, orphans>>

-----------------------------------------------------------------------------
(***************************************************************************)
(* refresh_selected_session, shared by the three callers.                  *)
(***************************************************************************)

\* refresh_session takes the spec from the catalog, the others from the
\* explicit selection.  Unusable metadata is an error before any message.
Post(w) ==
    LET s == IF w \in Operator THEN catalog[job[w].key] ELSE job[w].spec IN
    /\ pc[w] = "post"
    /\ IF s \in Usable THEN Goto(w, "sent") ELSE Fail(w)
    /\ UNCHANGED <<now, row, lock, catalog, binding, job, queue, threshold,
                   served, issued, superseded, orphans>>

\* The provider accepts the refresh token, and rotates it or not.  The new
\* expiry is counted from the moment the answer has been parsed.
Grant(w) ==
    /\ pc[w] = "sent"
    /\ job[w].rt \notin superseded
    /\ issued < MaxTokens
    /\ issued' = issued + 1
    /\ \E life \in Lifetime, rotate \in BOOLEAN :
         /\ job' = [job EXCEPT ![w].newTok = issued + 1, ![w].newExp = now + life,
                               ![w].newRt = IF rotate THEN issued + 1 ELSE NoToken]
         /\ superseded' = IF rotate THEN superseded \cup {job[w].rt}
                                    ELSE superseded
    /\ Goto(w, "persist")
    /\ UNCHANGED <<now, row, lock, catalog, binding, queue, threshold, served,
                   orphans>>

\* A 4xx, a 5xx, a network error, a timeout or a malformed response.  The
\* provider may or may not have rotated the refresh token.
Refuse(w) ==
    /\ pc[w] = "sent"
    /\ superseded' \in {superseded, superseded \cup {job[w].rt}}
    /\ Fail(w)
    /\ UNCHANGED <<now, row, lock, catalog, binding, job, queue, threshold,
                   served, issued, orphans>>

\* Mutants: a row that is gone is written again; the rotated refresh token is
\* not stored.
UpsertTokens(k, j) ==
    [row EXCEPT ![k] = [origin |-> j.origin, rt |-> j.rt, tok |-> j.newTok,
                        exp |-> j.newExp, degraded |-> FALSE]]
UpdateAccessOnly(k, j) ==
    IF row[k] = None THEN row
    ELSE [row EXCEPT ![k].tok = j.newTok, ![k].exp = j.newExp,
                     ![k].degraded = FALSE]

\* update_tokens: an UPDATE, so a row that is gone stays gone.
UpdateTokens(k, j) ==
    IF row[k] = None THEN row
    ELSE [row EXCEPT ![k].tok = j.newTok, ![k].exp = j.newExp,
                     ![k].rt = IF j.newRt = NoToken THEN @ ELSE j.newRt,
                     ![k].degraded = FALSE]

Persist(w) ==
    /\ pc[w] = "persist"
    /\ row' = UpdateTokens(job[w].key, job[w])
    /\ Goto(w, "readback")
    /\ UNCHANGED <<now, lock, catalog, binding, job, queue, threshold, served,
                   issued, superseded, orphans>>

\* The row is read back; a request is served from what it reads.
Readback(w) ==
    /\ pc[w] = "readback"
    /\ \/ /\ row[job[w].key] = None
          /\ Fail(w)
          /\ UNCHANGED <<lock, job, served>>
       \/ /\ row[job[w].key] # None
          /\ IF w \in Request THEN Serve(w) ELSE UNCHANGED served
          /\ Leave(w)
    /\ UNCHANGED <<now, row, catalog, binding, queue, threshold, issued,
                   superseded, orphans>>

\* update_tokens or the read back returns a database error.
PersistError(w) ==
    /\ "db" \in Faults
    /\ pc[w] \in {"persist", "readback"}
    /\ Fail(w)
    /\ UNCHANGED <<now, row, lock, catalog, binding, job, queue, threshold,
                   served, issued, superseded, orphans>>

\* mark_degraded and the rollback's delete; an error of either is dropped.
MarkDegraded(w) ==
    LET k == job[w].key IN
    /\ pc[w] = "degrade"
    /\ \/ row' = IF row[k] = None THEN row ELSE [row EXCEPT ![k].degraded = TRUE]
       \/ "db" \in Faults /\ UNCHANGED row
    /\ Leave(w)
    /\ UNCHANGED <<now, catalog, binding, queue, threshold, served, issued,
                   superseded, orphans>>

Rollback(w) ==
    /\ pc[w] = "rollback"
    /\ \/ row' = [row EXCEPT ![job[w].key] = None]
       \/ "db" \in Faults /\ UNCHANGED row
    /\ Leave(w)
    /\ UNCHANGED <<now, catalog, binding, queue, threshold, served, issued,
                   superseded, orphans>>

-----------------------------------------------------------------------------
(***************************************************************************)
(* The operator's other calls, the clock, and what can go wrong.           *)
(***************************************************************************)

\* op_oauth_revoke: a DELETE that takes no lock
Revoke(k) ==
    /\ row[k] # None
    /\ row' = [row EXCEPT ![k] = None]
    /\ UNCHANGED <<now, lock, catalog, binding, pc, job, queue, threshold,
                   served, issued, superseded, orphans>>

\* The agent's binding is set or unset.
Bind(a, k, s) ==
    /\ binding[a][k] # s
    /\ binding' = [binding EXCEPT ![a][k] = s]
    /\ UNCHANGED <<now, row, lock, catalog, pc, job, queue, threshold, served,
                   issued, superseded, orphans>>

\* refresh_runtime publishes a catalog in which k's registration changed.
PublishCatalog(k, s) ==
    /\ catalog[k] # s
    /\ catalog' = [catalog EXCEPT ![k] = s]
    /\ UNCHANGED <<now, row, lock, binding, pc, job, queue, threshold, served,
                   issued, superseded, orphans>>

Advance ==
    /\ now < MaxTime
    /\ now' = now + 1
    /\ UNCHANGED <<row, lock, catalog, binding, pc, job, queue, threshold,
                   served, issued, superseded, orphans>>

\* Refresh tokens sent to the provider and not answered yet.
InFlight(W) == {job[w].rt : w \in {v \in W : pc[v] = "sent"}}

\* The client disconnects: the handler's future is dropped at an await, and
\* the guard with it.
Cancel(w) ==
    /\ "cancel" \in Faults
    /\ w # Task
    /\ pc[w] # "idle"
    /\ orphans' = orphans \cup InFlight({w})
    /\ lock' = [k \in Key |-> IF lock[k] = w THEN None ELSE lock[k]]
    /\ Goto(w, "idle")
    /\ job' = [job EXCEPT ![w] = NoJob]
    /\ UNCHANGED <<now, row, catalog, binding, queue, threshold, served, issued,
                   superseded>>

\* The daemon dies and is started again; only the database survives.
Crash ==
    /\ "crash" \in Faults
    /\ \E w \in Worker : pc[w] # "idle"
    /\ orphans' = orphans \cup InFlight(Worker)
    /\ lock' = [k \in Key |-> None]
    /\ pc' = [w \in Worker |-> "idle"]
    /\ job' = [w \in Worker |-> NoJob]
    /\ queue' = {}
    /\ threshold' = 0
    /\ UNCHANGED <<now, row, catalog, binding, served, issued, superseded>>

\* The provider handles a request nobody waits for any more.
HandleOrphan ==
    \E rt \in orphans :
        /\ orphans' = orphans \ {rt}
        /\ superseded' \in {superseded, superseded \cup {rt}}
        /\ UNCHANGED <<now, row, lock, catalog, binding, pc, job, queue,
                       threshold, served, issued>>

\* The steps of a worker that has taken its lock.
Step(w) ==
    \/ w \in Request /\ (CheckSelection(w) \/ ReadForRequest(w))
    \/ w = Task /\ (SelectSource \/ ReadForTask)
    \/ w \in Operator /\ CreateRow(w)
    \/ ReadError(w)
    \/ Post(w) \/ Grant(w) \/ Refuse(w) \/ Persist(w) \/ Readback(w)
    \/ PersistError(w) \/ MarkDegraded(w) \/ Rollback(w)

Next ==
    \/ \E r \in Request, a \in Agent, k \in Key : Admit(r, a, k)
    \/ \E b \in Operator, k \in Key : StartBootstrap(b, k)
    \/ Tick \/ NextPending
    \/ \E w \in Worker : Acquire(w) \/ Step(w) \/ Cancel(w)
    \/ \E k \in Key : Revoke(k)
    \/ \E a \in Agent, k \in Key, s \in AuthSpec \cup {None} : Bind(a, k, s)
    \/ \E k \in Key, s \in AuthSpec \cup {None} : PublishCatalog(k, s)
    \/ Advance \/ Crash \/ HandleOrphan

Spec == Init /\ [][Next]_vars

\* Every await of a worker ends: statements return, and the three clients of
\* the token endpoint time out after 30 seconds, which is a Refuse.  The tokio
\* mutex is first come, first served, hence the strong fairness of Acquire.
Fairness ==
    /\ \A w \in Worker : WF_vars(Step(w)) /\ SF_vars(Acquire(w))
    /\ WF_vars(Tick)
    /\ WF_vars(NextPending)

LiveSpec == Spec /\ Fairness

-----------------------------------------------------------------------------
(***************************************************************************)
(* Properties.                                                             *)
(***************************************************************************)

TypeOK ==
    /\ now \in Nat
    /\ row \in [Key -> SessionRow \cup {None}]
    /\ lock \in [Key -> Worker \cup {None}]
    /\ catalog \in [Key -> AuthSpec \cup {None}]
    /\ binding \in [Agent -> [Key -> AuthSpec \cup {None}]]
    /\ pc \in [Worker -> PC]
    /\ job \in [Worker -> Job]
    /\ queue \subseteq [key : Key, exp : Nat]
    /\ threshold \in Nat
    /\ served \in [Request -> SessionRow \cup {None}]
    /\ issued \in Nat
    /\ superseded \subseteq Nat
    /\ orphans \subseteq Nat

\* Requests, the background task and bootstrap never work on the same session
\* at the same time: at most one exchange per session is in progress, whatever
\* is cancelled and whenever the daemon restarts (RefreshLockMap).
OneExchange ==
    \A v, w \in Worker :
        /\ pc[v] \in Critical
        /\ pc[w] \in Critical
        /\ job[v].key = job[w].key
        => v = w

\* Where a worker has read or created a session and may still write to it.
Exchanging == {"post", "sent", "persist", "readback", "degrade", "rollback"}

\* Revocation takes no lock, and the UPDATE, the degraded mark and the
\* bootstrap's rollback all go by (name, label) only.  Still none of them
\* ever touches a session bootstrapped after the exchange began: a row that
\* exists during an exchange is the one the exchange began with.
WritesOwnRow ==
    \A w \in Worker :
        pc[w] \in Exchanging /\ row[job[w].key] # None
            => row[job[w].key].origin = job[w].origin

\* The step makes a row appear, or changes which session a row is.
NewSession(k) ==
    row'[k] # None /\ (row[k] # None => row[k].origin # row'[k].origin)

OnlyBootstrapCreates ==
    \A k \in Key : NewSession(k) => /\ row[k] = None
                                    /\ lock[k] \in Operator
                                    /\ row'[k].rt = job[lock[k]].rt

\* A refresh that was in flight when the operator revoked the session never
\* brings it back (update_tokens, mark_degraded): a session only appears when
\* a bootstrap that holds the lock creates it.
RevokedStaysRevoked == [][OnlyBootstrapCreates]_vars

StaysDegraded ==
    \A k \in Key :
        row[k] # None /\ row'[k] # None /\ row[k].degraded => row'[k].degraded

\* A degraded session stays degraded until it is revoked, although every
\* successful update_tokens clears the flag.
DegradedIsSticky == [][StaysDegraded]_vars

\* A refresh token the provider has rotated away is never taken from the store
\* and presented again by a request or by the background task, as long as no
\* handler is cancelled, the daemon does not crash and the database works.
NoReplay ==
    Faults = {} =>
        \A w \in Request \cup {Task} :
            pc[w] = "post" => job[w].rt \notin superseded

\* A session without an access token is only ever seen while its bootstrap
\* holds the lock, under the same conditions: failed bootstraps leave nothing
\* behind (op_oauth_bootstrap).
HalfBootstrapped ==
    Faults = {} =>
        \A k \in Key :
            row[k] # None /\ row[k].tok = NoToken => lock[k] \in Operator

ServesHealthy ==
    \A r \in Request :
        served'[r] # None /\ served'[r] # served[r] =>
            /\ ~served'[r].degraded
            /\ \/ served'[r].tok # NoToken /\ served'[r].exp > now + ProxyMargin
               \/ pc[r] = "readback" /\ served'[r].tok = job[r].newTok

\* A request is only served the token of a healthy session: one that outlives
\* the proxy's margin, or the very token its own exchange obtained
\* (resolve_oauth_token never looks at the flag again after the exchange).
ServedIsHealthy == [][ServesHealthy]_vars

\* Every admitted request gets its answer: it is not starved at the lock and
\* no exchange holds the lock for ever.
RequestsFinish ==
    \A r \in Request : pc[r] = "lock" ~> pc[r] = "idle"

\* Session k has access token t, which is about to expire, and k is selected.
TaskDue(k, t) ==
    /\ Healthy(row[k])
    /\ row[k].tok = t /\ row[k].exp <= now + TaskMargin
    /\ catalog[k] # None
    /\ \E s \in Usable : Selects(k, s)

\* The background task does its work: an expiring token of a selected session
\* is replaced, or the session degraded, without any request asking for it.
DueIsHandled ==
    \A k \in Key, t \in 1..MaxTokens : TaskDue(k, t) ~> ~TaskDue(k, t)
=============================================================================
