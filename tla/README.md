# agent-locksmith in TLA+

agent-locksmith is a credential proxy: agents authenticate with a secret of
their own, the proxy checks what they may reach, injects the provider's
credential and forwards the request. The modules here model the parts of the
daemon whose correctness depends on the order of events: SQL statements of
concurrent handlers, background tasks, calls to token endpoints, dropped
handlers and restarts. TLC checks them on small instances; all
safety properties that hold are proved with TLAPS for every instance.

Source paths below are relative to `src/src/`.

## How the code is modelled

* **Steps.** A handler is an async function; it can be overtaken at every
  `await`. One step of a model is one SQL statement (with the triggers it
  fires, which SQLite runs atomically), one call to a provider, or one access to
  shared memory. Code between two awaits belongs to the step before it.
* **Dropped handlers.** The server drops a handler's future when the client
  disconnects. `Cancel` (`Abort` in Connections, `HangUp` in ProxyRequest) does
  that at any await. A statement in flight has taken effect or has not; the two
  cases are the two neighbouring states.
* **Failing statements.** `"db"` in `Faults` lets statements fail; the error
  path of the code follows.
* **Restarts.** Tables survive, everything in memory does not.
* **Data.** Names, destinations, auth specs and references are model values;
  secrets and tokens are numbers; sealing is left out. Variables that the code
  does not have (epochs, write counters, history) are named as such in the
  modules and enter guards only as bounds; the exceptions are `handed` in Enrolment (who
  knows a secret) and `superseded` in OAuthSessions (what the provider accepts).
* **Bounds.** Each module names its own (`MaxTime`, `MaxTokens`, `MaxSecrets`,
  `MaxRotations`, `MaxEpoch`, `MaxWrites`, `MaxChanges`, `MaxRevision`, `MaxDay`,
  `MaxIndex`, `MaxChunk`, `MaxBody`, `MaxRestarts`, `Delay`). Each is a constant,
  so the proofs hold for every value; one needs room (`Spacious`, below).

## Inventory

| Part | State | Operations | Hard behaviours | Module |
|---|---|---|---|---|
| OAuth session cache (`oauth/`, `proxy.rs` resolve_oauth_token) | `oauth_sessions`, RefreshLockMap | request-path refresh, background task, bootstrap, revoke | refresh races, revoke without lock, bootstrap rollback, lost exchange | OAuthSessions |
| Enrolment (`admin/service.rs`, `repo/agent.rs`, `repo/bootstrap.rs`) | `agents`, `bootstrap_tokens` | register, rotate, create, modify, revoke, mint | several statements per registration, triggers in between, expiry at the second | Enrolment |
| Credential store (`repo/credential_secrets.rs`, `registrations/api.rs`, `admin/uds.rs`, sweeper in `daemon.rs`) | `credential_secrets`, refs in registrations and overrides | set value, clear, sweep | sweep between insert and record, shared and lost refs | CredentialStore |
| Connections (`registrations/`, `proxy/admission.rs`) | `registrations`, catalog in memory, grants, bindings | PUT, DELETE, enable, credential, publish, admit | lost updates, catalogs published out of order, stale admission | Connections |
| op:// cache (`secret/op_resolver.rs`) | cache, resync lock, blocking pool | change, resync, rebuild | rebuild outliving its call | OpReferences |
| Seed catalog and config tools (`registrations/seed_loader.rs`, `legacy_bootstrap.rs`) | registrations, `seed_version` | boot with an image and a list of tools | crash in an upgrade, older images, overrides, deleted rows that come back | SeedCatalog |
| Proxied request (`proxy.rs`, `auth.rs`, `client_pool.rs`, `response_controls.rs`) | client pool, detached tasks | authenticate, admit, resolve, send, stream, record | hang-ups, a stream that meets its cap, a pool entry replaced, a verdict for every outcome | ProxyRequest, Gateway |
| Audit (`repo/audit.rs`, `audit_sink.rs`, sweeper in `daemon.rs`) | `audit`, journal files | insert, mirror, rotate, prune, sweep | failing writes, midnight, restarts | AuditTrail |
| Operational log (`operational_log_sink.rs`) | bounded channel, `operational_logs` | emit, drain | full channel, failing inserts, restarts | OperationalLog |
| Start and shutdown (`daemon.rs`, `shutdown.rs`, `agent_listener.rs`, `admin/uds.rs`, `admin/https.rs`) | latch, Notify, tasks, connections | spawn, bind, signal, drain | signal during the start, hanging requests, binds that fail | Daemon |
| Binding migration (`binding_migration/`) | receipts, revision, bindings, policies | preview, review, apply | stale plans, repeats, crashes, two owners | BindingMigration |
| Environment credentials, legacy admission, sealing, validators, config, CLI, skill text | none that is shared, or one that only readiness reads | pure functions, wiring | none that a model would add | not modelled |

How they interact: a request is authenticated, **admitted** (Connections: one
statement reads the row, the agent's grants and the account binding; the
catalog has to agree), then its credential is **resolved** from the store
(CredentialStore), from the op:// cache (OpReferences) or from an OAuth session
(OAuthSessions). ProxyRequest composes the whole path with the audit trail and
the operational log; there the answers of admission and resolution are any that
the other modules' components can give. Registrations come from the seed catalog
and the config (SeedCatalog) and from operators; each operator write publishes a
catalog (Connections) and resyncs the op:// cache (OpReferences). Triggers on
registrations withdraw what operators granted to agents and tokens (Connections,
Enrolment) and drop overrides, which are references into the store
(CredentialStore). BindingMigration writes bindings and policies for agents from
before explicit bindings, next to all of these. Daemon starts and stops the
tasks that run them. `PROJECT.json` lists the hazards at the lines where they
bite and the property that covers each.

## Modules

Each component module has its state, one action per statement or operation,
`Next`, `Spec`, and its properties at the end; `MC...` modules add symmetry sets
and constants for TLC; `..._proofs` modules hold theorems. Operators marked
"Mutant" are plausible errors in the definition that follows them; nothing uses
them in the specifications, they show that a property can fail.

**OAuthSessions.** `row` is the table, `lock` the RefreshLockMap, `pc` and `job`
where each worker is and what it remembers. Workers are requests, bootstrap
calls and the background task. A step in the critical section is
`CheckSelection`, `ReadForRequest`, `SelectSource`, `ReadForTask`, `CreateRow`,
`Post` and its answers, `Persist`, `Readback`, `MarkDegraded`, `Rollback`;
`Revoke` is outside of it, as in the code. The provider is external: it answers
with a token, rotates the refresh token or not, or refuses; a request whose
sender is gone (`orphans`) may still be handled.

**Enrolment.** `Register` is the preview of the token's scope; `Create`,
`Fetch`, `Verify`, `Consume`, `Undo` and `Return` are the statements after it.
`first` in a row says whether its credential reached the caller, is under way,
or was lost to a fault, and `replaced` lists the secrets rotated away. `Swap` is the guarded update of a rotation. A grant
carries the epoch of the connection it was reviewed for, which the code does
not store: properties use it to say that a grant is stale.

**CredentialStore.** `ref` holds, for each registration and each override, the
secret its auth refers to; `own` marks those recorded by a set-value call.
Ages stand for timestamps, so that the clock never stops and the sweeper can
be checked for liveness. `Delay <= Grace` is the assumption the code's minimum
grace period (60 seconds) expresses: a handler records its ref within it.

**Connections.** `WriteRow` is any statement on `registrations` with its
triggers. A writer reads, writes, lists and publishes in four steps. A request
authenticates, reads and decides in three. `epoch` numbers the destination a row
has, `write` the last write to it. The clock does not advance, so rows are
compared by contents only, the weakest case: with distinct `updated_at` values
the comparison of `activation` refuses more.

**OpReferences.** `resync` is the tokio mutex, `pool` the rebuilds given to
`spawn_blocking`. `Sync` is a whole rebuild, which holds a std mutex. Here and in
SeedCatalog `Init`, `Next`, `Spec` and the like have a prefix, so that one proof
module can extend both beside Daemon.

**SeedCatalog.** `Boot` compares versions, `Apply` handles one entry,
`SetSeedVersion` records the version, `Import` handles one tool of the
configuration, whose list may differ from boot to boot. The listeners are not up
before `Serve`, so reading and writing one entry is one step.

**AuditTrail, OperationalLog.** State and operations of the two logs, without a
`Next`: ProxyRequest EXTENDS both and takes their steps in its own. `sink` is the
state of the JSONL sink with the directory it writes to; an append is one step,
because it holds a mutex and awaits nothing. `fate` says what became of an event.

**ProxyRequest.** `pc` is where each handler is, `plan` the audit rows it still
has to write and the outcome after them, `job` its locals. `Accept` to `Rebuild`
lead to the upstream, `NoResponse` to `Buffered` are what its answer can lead to,
`WriteRow` and `Mirror` record a row. `Chunk` and `EndStream` are polls of the
capped stream; the row of a truncation is written by a detached task (`TaskRow`,
`TaskMirror`). `wired` is FALSE for a daemon without a database.

**Gateway.** The abstract specification of a request: open, sent once, an outcome
settled once that fits, answered with it. `ImplementsGateway` is the refinement;
`PhaseOf` and `ToldOf` are the mapping.

**Daemon.** `wait[w]` is where the future of `shutdown_signal` is for each task
and for run: the two loads of the latch and the registration with the Notify are
separate steps (`Load`, `Register`, `Recheck`, `Wake`), as are the store of the
latch and `notify_waiters` (`Signal`, `Ring`). Listeners are of three kinds, as
they drain differently.

**BindingMigration.** `Inventory` computes a plan from the tables, the clock and
the YAML file as `inventory::plan` does: whose account can be told, why not, and
what a listed policy would be. `Preview`, `Review` and `Begin` are the owner's
commands; in the transaction each row is a statement. Digests (of the snapshot,
of the reviewed plan, of the state after it) are modelled by what they are
computed from. `Others` are the daemon's writes, which need SQLite's write lock,
and the changes that need no lock: time and the YAML file.

## Runs

| Run | Shows |
|---|---|
| `oauth_faults` | One exchange per session at a time; no write to another session's row; revoked and degraded sessions stay so; what is served is healthy. With cancelled handlers, restarts and failing statements, a request, two bootstraps and the task. |
| `oauth_quiet` | Without faults no superseded refresh token is presented, and no session without an access token is left when nobody works on it. Requests are answered, and the task handles every token that is due. |
| `enrol` | Grants handed to an agent were reviewed for the connection as it is; a single-use token enrols one agent; a refused registration leaves no active agent, also at the second the token expires; secrets form a chain, whoever races to rotate; a revoked agent's never changes. With cancelled handlers and failing statements. |
| `store` | A value recorded by a set-value call stays live while it is referred to; a shared value survives the loss of one reference; a value without references is removed in the end. |
| `conn_faults` | Grants and bindings never outlive the destination they were given for; requests are forwarded only by a row at least as new as the request, with authority given for it; no call but one that says so, or that read the row before, enables a disabled connection. |
| `conn_catalog` | *Violation.* Two writers may publish their catalogs in the wrong order, where a comment says the new state is seen immediately. |
| `op_calls` | Unless something failed, the cache holds exactly the references in use once all calls have returned; snapshots reach it in the order they were taken as long as no call is dropped; every call gets through the resync. |
| `seed_upgrades` | The recorded version is applied; flags are the operators'; neither a load nor an import touches an override. |
| `gateway` | ProxyRequest implements Gateway. What goes upstream carries the account's credential and none of the agent's; a request's client fits it; a capped stream is exact to the byte; every answer has one verdict row; the journal holds what it should and stays bounded; refusals are logged, lost to a named fault, or counted. |
| `lifecycle` | No task sleeps through the signal; a clean exit tears nothing and hides no failed listener; a signal ends the daemon whatever hangs. |
| `migration` | An apply is all or nothing, binds only accounts that are current, never widens what an agent can reach, takes effect once, and is refused as a conflict only if something changed. |
| `migration_repeat` | *Violation.* The repeat of an applied plan that selects a policy and an infra row is refused, where the guide says it prints a count of zero. |

Type correctness is proved for all components. Runs check it as a conjunct of one
of their invariants, or leave it to the proof.
`lifecycle` does not check that only the signal stops the daemon, which is proved.

### Bounds

One session, connection or token is enough for the properties that speak of one
(locks, rows and triggers of different keys do not interact); what matters is
the number of actors on it and the number of changes.

* OAuthSessions: a request, the task and two bootstraps cover every pair of
  worker kinds, and two generations of a session need two bootstraps. Three
  tokens allow a bootstrap, its exchange and a rotation, or a second bootstrap.
  `OAuthQuiet` has one operator, who bootstraps again after a revocation: four
  workers are too many for a liveness check. The two margins differ, so that a
  token can be due for the task and not for a request. One auth spec is enough:
  to be bound to another one, or to an unusable one, is to the code what being
  unbound is. The order in which the task walks several sessions is not
  exercised; the proofs cover any number of sessions for the safety properties.
* Enrolment: two callers, two names and one token give the race for a token; a
  connection goes, and comes back in another epoch; time passes the token's
  expiry; two rotations let two callers rotate away from the same secret.
* CredentialStore: two writers and two secrets give a lost rotation; a
  registration and an override are two places to share a ref.
* Connections: two writers, one request, and two writes after the seed's let a
  row change and change back, or go and return, while a writer holds the first
  version.
* OpReferences: two references, and three changes by three callers, so that two
  calls can be in a resync cycle while the third changes what they collect.
* SeedCatalog: three versions, one of which adds and one of which drops a name,
  booted in any order and any number of times, and two lists of tools, one with
  a tool that cannot be translated.
* ProxyRequest: two requests, because pool, journal and channel are each a race
  of two; a channel of one place and a journal of two lines, so that both are
  full after one request; chunks of 0 to 2 bytes against a cap of 1, so that a
  chunk ends before, at and after it; two days and one restart.
* Daemon: one sweeper, the agents' listener (graceful or mTLS) and the HTTPS one
  (timed or mTLS), one connection. Tasks meet only in the latch, so a second of
  a kind adds nothing; the proofs are for any number.
* BindingMigration: two agents and two owners, one registration with free,
  stored and OAuth accounts, one change of others at any moment, two applied
  plans. `MigrationRepeat` has one agent and an infra registration.

### Fairness

`oauth_quiet`: weak fairness of every step of a worker in its critical section
(statements and HTTP calls return; the HTTP client has a timeout), strong
fairness of acquiring a lock, because tokio's mutex serves waiters in turn, and
weak fairness of the task's interval. `store`: the statement that records
a ref returns, time passes,
the sweeper's interval fires and its statements, which are retried at the next
interval, do not fail for ever. `op_calls`: as for OAuth, and the blocking pool
runs what it is given. `lifecycle`: the runtime polls what it was told to poll
and the drain window's timer fires; no request, DELETE or bind is assumed to
end. No action of a client, an operator or a fault is assumed to happen.

`CHECK_DEADLOCK FALSE` is set where the system rests: OpReferences when the
bounded number of changes is used up, ProxyRequest when all requests are
answered, Daemon when the process has ended.

## Proofs

Every safety invariant and action property of a passing run is proved with TLAPS,
for all values of the constants: any number of workers, agents, connections,
requests, tasks or files, and any bounds. Each proof has the same shape: an
inductive invariant, a lemma or two per action (`XDoes`, what the step changes;
`XKeeps`, that it keeps the invariant), and the properties from it. The proofs use
the ASSUMEs of the modules, which TLC evaluates in every run: bounds are
naturals, and sorts that are different types in the code are disjoint (a row is
not `None`). Type correctness is a part of each invariant.

**OAuthSessions_proofs.** Three layers.

1. `LockInv`: types, every busy worker has a session (`HasKey`), and a worker in
   its critical section holds that session's lock (`Holds`). A function gives
   each lock one holder, hence `MutualExclusion`.
2. `RowInv`: the row of a worker in an exchange is the one it began with and is
   healthy, or has been revoked and is gone. It holds because a row changes only
   in a step of the holder of its lock or in `Revoke` (`RowChange`), and because
   creating a row needs the lock as well. `NoForeignWrite`, `NoResurrection`,
   `StickyDegraded` and `ServesOnlyHealthy` follow.
3. `QuietInv`, for `Faults = {}` only, as the two properties are claimed for that
   case: no two sessions know the same refresh token (`Apart`); a worker that is
   to send or to store one may rely on it (`Turn`); a row that is incomplete, or
   whose refresh token the provider no longer takes, is in the hands of a worker
   that will deal with it (`Settled`). `NeverReplays`, `NothingHalfDone`.

**Enrolment_proofs.** A registration is alone with its agent (`Owned`); a grant
that went stale has left the token's scope, and is in an allowlist only while
the caller still has to compare the scope with its preview (`Current`); a
single-use token with a winner is spent (`Unique`); the i-th secret replaced is
secret i (`Chain`). `GrantsHold`, `OneAgentPerToken`, `NoAgentStrays`,
`SecretsChain` and `RevocationIsFinal` follow. `Current` is the heart: a grant
can be withdrawn between any two statements of a registration.

**Connections_proofs.** A call about to write has read its row (`Ready`); a row
carries the last write to its name (`Written`); grants and bindings are of the
row's epoch (`Authority`); what a request read is of one moment since it began
(`Admission`). `AuthorityFollows`, `ForwardsFresh`, `DisabledStays`.

**CredentialStore_proofs.** A secret that a call has inserted and not yet
recorded is live, known to that call only, at most `Delay` old, and in no sweep
that has begun (`Fresh`), so that with `Delay <= Grace` the sweeper cannot reach
it. `StoredStays`, `SharedStays`.

**Operations_proofs.** Daemon: the Notify rings only after the latch is set, so
that a waiter registered too late finds it set at its second load (`Heard`);
nobody stops before (`Serving`); connections fit the state of their listener and
the result that of the tasks (`Draining`). `EveryoneWakes`, `ResultsAreTrue`, and
`OnlyTheSignalStops`, which no run checks. SeedCatalog: a load in progress is for
a catalog newer than the recorded one, and the entries it has gone through are
applied (`Progress`); without it nothing is known when `SetSeedVersion` records the
version. `VersionIsApplied`, `FlagsAreSticky`, `OverridesSurvive`. Versions are
positive naturals, which is `semver_lt` as a total order. OpReferences: whoever
collects has the lock; while no call is dropped, at most one rebuild is under
way, from the newest snapshot, and whoever changed a reference since still has
to resync. `CacheStaysCurrent`, `NewestPublishesLast`.

**BindingMigration_proofs.** `OnceInv` says that plans which took effect carry a
revision of the past and the plan being applied the present one; COMMIT moves on
by one, hence `PlansTakeEffectOnce`. The rest needs `MigrationInv`: what the
transaction has written so far is the part of its plan that is done (`Partly`);
the tables, which nobody else can write meanwhile, still bear out what was
checked when it began (`Backed`); a plan since whose preview nothing has changed
is what a preview would say now (`Fresh`). `AppliesAllOrNothing`,
`AppliesToTheCurrent`, `ReviewsNeverWiden`, `RefusesOnlyDrift`.

**ProxyRequest_proofs, ProxyRequestTrail_proofs.** The first begins with lemmas
about the operators of AuditTrail and OperationalLog. It then proves the
invariant of the pipeline: how a handler's place, its plan and its job go
together (`Handlers`), which rows it has written (`Records`), what its stream has
passed on (`Streams`), and what the detached tasks still owe (`Tasks`).
`WireStaysOurs`, `StreamStaysCapped`, `AnswersStayAudited`. From it the second
proves `KeepsPromises`, the refinement of Gateway, one lemma per action;
`RefusalsStayLogged`; and `JournalStaysSound`. The last has a hypothesis,
`Spacious`: `keep_files` is positive, and a day has more indexes than there can
be files. In the code a day has 10,001 indexes and `keep_files` is 14 by default
(`audit_sink.rs:41`, `:196-214`). It is not proved for `keep_files = 0`, where
nothing is pruned, nor for a day that runs out of indexes.

Only model-checked: the liveness properties `RequestsFinish`, `DueIsHandled`,
`SignalStops`, `CallsReturn` and `OrphansAreCollected`, because fairness and
ENABLED are out of the prover's reach. The two violations are TLC's as well.

## Where code and comments disagree

Two runs show a violation of what a comment or document says; `PROJECT.json`
quotes the lines (`conn_catalog`, `migration_repeat`). More disagreements were
met and have no run:

* `oauth/admin.rs:135` refuses to bootstrap a degraded session with 409, where
  `migrations/0003_oauth_sessions.sql:20` and the user guide say that doing so
  clears the flag: it has to be revoked first.
* `registrations/api.rs:374` says PUT preserves the disabled flag; it writes back
  the flag it read, and so undoes a disable in between. `DisabledUntilTold`
  excepts exactly that.
* `audit_sink.rs:91-93` says that the next successful tick of the writer recovers
  from a failed write; only the next rotation opens a file again, and lines until
  then are not mirrored.
* `shutdown.rs:4-6` says in-flight requests are drained; connections of the mTLS
  listeners are detached tasks that nobody waits for.
* `daemon.rs:495-497` says no DELETE starts after the signal; the select of the
  sweeper is unbiased and may take a tick that is ready at the same time.
* A UDS or HTTPS listener that cannot bind is reported when run ends, not before,
  and not at all if the drain window expires.
* `registrations/legacy_bootstrap.rs:23-24` says "Bearer ${VAR}" becomes a Bearer
  spec; `translate_auth` always makes a Header spec. An operator who deletes a
  registration that is in `config.tools` has it back after the next boot.
* `admin/service.rs:312` says the bootstrap token "is consumed atomically with
  the agent insert"; they are two statements, and a crash in between leaves an
  active agent, whose secret nobody has, and an unused token. `NoStrayAgent` is
  claimed for runs without faults only.
* `repo/bootstrap.rs:107` calls a consumed token seen by `diagnose` a reuse
  attempt; a call that consumed the token itself and is then refused, because
  the scope changed, is reported as one too.
* `secret/op_resolver.rs:76` says that holding the resync lock keeps an older
  snapshot from being published after a newer one; the rebuild of a dropped
  call runs on in the blocking pool without the lock. `PublishesInOrder` is
  claimed while no call has been dropped.

## Not modelled

* Cryptography (argon2, sealing, TLS, JWT parsing): a value is its identity.
* Validation of single requests: inputs are those that pass it.
* Kinds of registrations and metadata, except where BindingMigration tells infra
  from others: they are fixed once a row exists, and enter no decision of the
  models but the equality of rows.
* Widths of integers: the only unvalidated arithmetic found is `expires_in`
  (`oauth/refresh/exchange.rs`), listed as a hazard.
* Requests do not read values back in CredentialStore: one that holds a ref
  which is rotated away under it is refused. A PUT that changes the destination
  drops overrides; to the store that is a clear whose call ended after its
  write, which is modelled.
* CRLs and the certificate blocklist (`mtls/crl.rs`, `mtls/blocklist.rs`): the
  daemon builds its validator without them.
* The merge of environment credentials after a catalog refresh: the race of
  `conn_catalog` on a map that only readiness and the path without a database
  read.
* Redaction by regular expressions, the rewriting of Codex bodies, discovery and
  skill text, queries and listings, configuration parsing, the CLI except
  `migrate-bindings`: pure functions or read-only.
