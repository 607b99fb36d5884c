---------------------------- MODULE ProxyRequest ----------------------------
(***************************************************************************)
(* A proxied request from the listener to the last byte of its answer:     *)
(* authentication, the agent's tool lists, admission, the credential of    *)
(* the selected account, the body, the HTTP client, the upstream, the      *)
(* response controls and the audit rows; composed with AuditTrail and      *)
(* OperationalLog, which all requests share.                               *)
(*                                                                         *)
(* A step ends where the handler awaits, or where it touches what others   *)
(* share.  What the database answers is any answer it can give: which one  *)
(* is right is the subject of Connections, Enrolment and OAuthSessions.    *)
(* A row is named for its decision.  `upstream' and `got' count bytes for  *)
(* the properties.                                                         *)
(***************************************************************************)
EXTENDS AuditTrail, OperationalLog, FiniteSets

CONSTANTS Req,          \* requests; each is used once
          Setting,      \* fingerprints a connection's client may have
          ControlSets,  \* the response controls the tool may be configured with
          Cap,          \* max_size_bytes of the tool
          MaxChunk,     \* bound: bytes in one chunk of a response
          MaxBody,      \* bound: bytes in one streamed response
          MaxRestarts,  \* bound: times the daemon is restarted
          Faults        \* which of "db", "io", "cancel" may happen

ASSUME ProxyAssumption ==
    /\ Cap \in Nat /\ MaxChunk \in Nat /\ MaxBody \in Nat /\ MaxRestarts \in Nat
    /\ Record = Req /\ Nobody = None /\ None \notin Setting

\* Row names; a request has at most one of each.
Decision == {"denied", "error", "redaction", "allowed", "truncated"}

ASSUME EventAssumption == Event = Req \X Decision

VARIABLES wired,        \* the admin substrate (database) is configured
          controls,     \* the response controls of the tool
          pool,         \* the pool's client for the tool, by its settings
          spawned,      \* events detached tasks are recording
          restarts,
          pc,
          plan,         \* plan[r]: rows to write, then the outcome
          job           \* job[r]: the other variables of the handler

shared == <<trailVars, logVars, wired, controls, pool, spawned, restarts>>

vars == <<shared, pc, plan, job>>

\* Where an account's credential comes from; "custody": the sealed store, or the
\* cache of op:// references
Account == {"none", "env", "custody", "oauth"}

Outcome == {"rejected", "refused", "failed", "withheld", "relayed", "gone"}

\* Where the handler awaits, and where it runs.
Awaiting == {"auth", "admit", "resolve", "body", "response", "buffer", "row", "mirror"}

Handling == Awaiting \cup {"pool", "rebuild"}

PC == Handling \cup {"idle", "stream"} \cup Outcome

\* log: a record is emitted after the rows.
Plan == [rows : Seq(Decision), log : BOOLEAN, end : Outcome \cup {"none", "stream"}]

NoPlan == [rows |-> <<>>, log |-> FALSE, end |-> "none"]

\* Headers that carry a credential, and one that does not.
Header == {"authorization", "x-api-key", "selected", "other"}

\* cred: a credential was injected; agent: the agent's headers that passed.
Wire == [cred : BOOLEAN, agent : SUBSET Header]

\* A request is no absence of one.
ASSUME WireAssumption == None \notin Wire

\* from: the account, until its credential is "held"; wire: what went upstream; the
\* rest is of the streamed body.
Job == [from : Account \cup {"held"}, fp : Setting \cup {None},
        client : Setting \cup {None}, wire : Wire \cup {None},
        upstream : Nat, got : Nat, marker : BOOLEAN]

NoJob == [from |-> "none", fp |-> None, client |-> None, wire |-> None,
          upstream |-> 0, got |-> 0, marker |-> FALSE]

Task == [event : Event, at : {"row", "mirror"}]

Init ==
    /\ TrailInit
    /\ LogInit
    /\ wired \in BOOLEAN
    /\ controls \in ControlSets
    /\ pool = None
    /\ spawned = {}
    /\ restarts = 0
    /\ pc = [r \in Req |-> "idle"]
    /\ plan = [r \in Req |-> NoPlan]
    /\ job = [r \in Req |-> NoJob]

Goto(r, l) == pc' = [pc EXCEPT ![r] = l]

\* One of the record_* helpers: write the rows, then answer.  The rest of the
\* handler's variables are not used again.
Conclude(r, rows, log, end) ==
    /\ plan' = [plan EXCEPT ![r] = [rows |-> rows, log |-> log, end |-> end]]
    /\ job' = [job EXCEPT ![r] = NoJob]
    /\ Goto(r, "row")

\* A task of its own records the event, if there is an audit trail.
Spawn(e) ==
    spawned' = IF wired THEN spawned \cup {[event |-> e, at |-> "row"]}
               ELSE spawned

-----------------------------------------------------------------------------
(***************************************************************************)
(* From the listener to the credential.                                    *)
(***************************************************************************)

Accept(r) ==
    /\ pc[r] = "idle"
    /\ Goto(r, "auth")
    /\ UNCHANGED <<shared, plan, job>>

\* authenticate_bearer refuses, and audits it first.
BadBearer(r) ==
    /\ pc[r] = "auth"
    /\ wired
    /\ Conclude(r, <<"denied">>, FALSE, "rejected")
    /\ UNCHANGED shared

\* authenticate_cert refuses, and leaves the row to a task.
BadCertificate(r) ==
    /\ pc[r] = "auth"
    /\ wired
    /\ Spawn(<<r, "denied">>)
    /\ Goto(r, "rejected")
    /\ UNCHANGED <<trailVars, logVars, wired, controls, pool, restarts, plan, job>>

\* No row: the shared bearer does not match, a certificate is required and not
\* presented, or the agents table cannot be read.
RejectedUnaudited(r) ==
    /\ pc[r] = "auth"
    /\ Goto(r, "rejected")
    /\ UNCHANGED <<shared, plan, job>>

\* The request is authenticated.  allows_tool is asked; without an identity,
\* credentialed tools are refused.
CheckLists(r) ==
    /\ pc[r] = "auth"
    /\ \/ Goto(r, "admit") /\ UNCHANGED <<plan, job>>
       \/ Conclude(r, <<"denied">>, FALSE, "refused")
    /\ UNCHANGED shared

\* admission::target: the connection or the grant is not there (denied), or the
\* tables or the selected environment variable cannot be read (error).
NotAdmitted(r, d) ==
    /\ pc[r] = "admit"
    /\ Conclude(r, <<d>>, FALSE, "refused")
    /\ UNCHANGED shared

\* Without a database only tools without a credential get here.
Admit(r, a, f) ==
    /\ pc[r] = "admit"
    /\ ~wired => a = "none"
    /\ job' = [job EXCEPT ![r].from = a, ![r].fp = f]
    /\ Goto(r, "resolve")
    /\ UNCHANGED <<shared, plan>>

\* Mutant: a cache miss goes on without the credential.
UnresolvedGoesOn(r) ==
    /\ pc[r] = "resolve"
    /\ job[r].from = "custody"
    /\ Goto(r, "body")
    /\ UNCHANGED <<shared, plan, job>>

\* resolve_stored_credential, or the op cache, has no value: the refusal is
\* recorded, then logged.
Unresolved(r) ==
    /\ pc[r] = "resolve"
    /\ job[r].from = "custody"
    /\ Conclude(r, <<"error">>, TRUE, "refused")
    /\ UNCHANGED shared

\* resolve_oauth_token has no token.
NoToken(r) ==
    /\ pc[r] = "resolve"
    /\ job[r].from = "oauth"
    /\ Conclude(r, <<"error">>, FALSE, "refused")
    /\ UNCHANGED shared

Resolve(r) ==
    /\ pc[r] = "resolve"
    /\ job' = [job EXCEPT ![r].from = IF @ = "none" THEN "none" ELSE "held"]
    /\ Goto(r, "body")
    /\ UNCHANGED <<shared, plan>>

\* read_request_body fails, or a codex body is too large to be fixed up.
BadBody(r, d) ==
    /\ pc[r] = "body"
    /\ Conclude(r, <<d>>, FALSE, "refused")
    /\ UNCHANGED shared

ReadBody(r) ==
    /\ pc[r] = "body"
    /\ Goto(r, "pool")
    /\ UNCHANGED <<shared, plan, job>>

-----------------------------------------------------------------------------
(***************************************************************************)
(* The client pool, and the upstream.                                      *)
(***************************************************************************)

\* build_upstream_request never passes these on; the last one is the header the
\* account's own credential goes into.
Stripped(r) ==
    {"authorization", "x-api-key"} \cup
    (IF job[r].from = "none" THEN {} ELSE {"selected"})

\* build_upstream_request with client c, of an agent that sends every header; send
Send(r, c) ==
    /\ job' = [job EXCEPT ![r].client = c,
                          ![r].wire = [cred |-> job[r].from = "held",
                                       agent |-> Header \ Stripped(r)]]
    /\ Goto(r, "response")

\* get_or_build_for, under the read lock
LookUp(r) ==
    /\ pc[r] = "pool"
    /\ \/ pool = job[r].fp /\ Send(r, pool)
       \/ pool # job[r].fp /\ Goto(r, "rebuild") /\ UNCHANGED job
    /\ UNCHANGED <<shared, plan>>

\* ... and again under the write lock: one that fits is shared, another replaced.
Rebuild(r) ==
    /\ pc[r] = "rebuild"
    /\ pool' = job[r].fp
    /\ Send(r, job[r].fp)
    /\ UNCHANGED <<trailVars, logVars, wired, controls, spawned, restarts, plan>>

\* record_upstream_error: a timeout, or no response
NoResponse(r) ==
    /\ pc[r] = "response"
    /\ Conclude(r, <<"error">>, FALSE, "failed")
    /\ UNCHANGED shared

\* handle_upstream_response: the content type is not allowed.
Disallowed(r) ==
    /\ pc[r] = "response"
    /\ "types" \in controls
    /\ Conclude(r, <<"denied">>, FALSE, "withheld")
    /\ UNCHANGED shared

\* rc_should_buffer
Buffer(r) ==
    /\ pc[r] = "response"
    /\ "patterns" \in controls
    /\ Goto(r, "buffer")
    /\ UNCHANGED <<shared, plan, job>>

\* The verdict on an answer that is passed on: "error" if its status is 5xx
Passed == {"allowed", "error"}

\* Mutant: the body is handed on before the row is written.
StreamUnrecorded(r, d) ==
    /\ pc[r] = "response"
    /\ "patterns" \notin controls
    /\ Goto(r, "stream")
    /\ UNCHANGED <<shared, plan, job>>

\* record_proxy_request_success, then the body as it comes
StartStream(r, d) ==
    /\ pc[r] = "response"
    /\ "patterns" \notin controls
    /\ Conclude(r, <<d>>, FALSE, "stream")
    /\ UNCHANGED shared

\* apply_buffered_response_controls: the body cannot be read, ...
BufferFails(r) ==
    /\ pc[r] = "buffer"
    /\ Conclude(r, <<"error">>, FALSE, "failed")
    /\ UNCHANGED shared

\* ... is too large, ...
TooLarge(r) ==
    /\ pc[r] = "buffer"
    /\ "cap" \in controls
    /\ Conclude(r, <<"denied">>, FALSE, "withheld")
    /\ UNCHANGED shared

\* A row if a pattern matched (one stands for all of them), and the verdict
PassedRows == {<<d>> : d \in Passed} \cup {<<"redaction", d>> : d \in Passed}

\* ... or passes.
Buffered(r, rows) ==
    /\ pc[r] = "buffer"
    /\ Conclude(r, rows, FALSE, "relayed")
    /\ UNCHANGED shared

-----------------------------------------------------------------------------
(***************************************************************************)
(* The audit rows of a request, and its answer.                            *)
(***************************************************************************)

Current(r) == <<r, Head(plan[r].rows)>>

\* The next row, or the answer; a refusal for a credential is logged.
Proceed(r) ==
    /\ plan' = [plan EXCEPT ![r].rows = Tail(@)]
    /\ IF Len(plan[r].rows) > 1
       THEN Goto(r, "row") /\ UNCHANGED logVars
       ELSE /\ Goto(r, plan[r].end)
            /\ IF plan[r].log THEN Emit(r) ELSE UNCHANGED logVars

\* audit_record: the INSERT, if there is a database
WriteRow(r) ==
    /\ pc[r] = "row"
    /\ \/ /\ wired
          /\ InsertRow(Current(r))
          /\ Goto(r, "mirror")
          /\ UNCHANGED <<logVars, plan>>
       \/ /\ wired /\ "db" \in Faults
          /\ InsertFails(Current(r))
          /\ Proceed(r)
       \/ /\ ~wired
          /\ Proceed(r)
          /\ UNCHANGED trailVars
    /\ UNCHANGED <<wired, controls, pool, spawned, restarts, job>>

\* What may fail in an append
Failures == {"nothing"} \cup (IF "io" \in Faults THEN {"open", "write"} ELSE {})

\* sink.append
Mirror(r) ==
    /\ pc[r] = "mirror"
    /\ \E fails \in Failures : MirrorRow(Current(r), fails)
    /\ Proceed(r)
    /\ UNCHANGED <<wired, controls, pool, spawned, restarts, job>>

-----------------------------------------------------------------------------
(***************************************************************************)
(* A streamed body: SizeCappedStream::poll_next.                           *)
(***************************************************************************)

\* Mutant: the whole chunk that crosses the cap is passed on.
YieldedWhole(r, n) == job[r].got + n

\* The bytes the agent has after a chunk of n
Yielded(r, n) ==
    IF "cap" \in controls /\ job[r].got + n > Cap THEN Cap ELSE job[r].got + n

Chunk(r, n) ==
    LET over == "cap" \in controls /\ job[r].got + n > Cap IN
    /\ pc[r] = "stream"
    /\ ~job[r].marker
    /\ job[r].upstream + n <= MaxBody
    /\ job' = [job EXCEPT ![r].upstream = @ + n,
                          ![r].got = Yielded(r, n),
                          ![r].marker = over]
    /\ IF over THEN Spawn(<<r, "truncated">>) ELSE UNCHANGED spawned
    /\ UNCHANGED <<trailVars, logVars, wired, controls, pool, restarts, pc, plan>>

\* The body ends, with the marker if that is pending, or breaks off.
EndStream(r) ==
    /\ pc[r] = "stream"
    /\ Goto(r, "relayed")
    /\ job' = [job EXCEPT ![r] = NoJob]
    /\ UNCHANGED <<shared, plan>>

-----------------------------------------------------------------------------
(***************************************************************************)
(* Detached tasks, hang-ups and restarts.                                  *)
(***************************************************************************)

TaskRow(t) ==
    /\ t \in spawned /\ t.at = "row"
    /\ \/ /\ InsertRow(t.event)
          /\ spawned' = (spawned \ {t}) \cup {[t EXCEPT !.at = "mirror"]}
       \/ /\ "db" \in Faults
          /\ InsertFails(t.event)
          /\ spawned' = spawned \ {t}
    /\ UNCHANGED <<logVars, wired, controls, pool, restarts, pc, plan, job>>

TaskMirror(t) ==
    /\ t \in spawned /\ t.at = "mirror"
    /\ \E fails \in Failures : MirrorRow(t.event, fails)
    /\ spawned' = spawned \ {t}
    /\ UNCHANGED <<logVars, wired, controls, pool, restarts, pc, plan, job>>

\* A plan whose handler is gone
Abandoned(p) == [p EXCEPT !.rows = <<>>, !.log = FALSE]

\* The agent hangs up: the handler is dropped where it awaits.
HangUp(r) ==
    /\ "cancel" \in Faults
    /\ pc[r] \in Awaiting
    /\ Goto(r, "gone")
    /\ plan' = [plan EXCEPT ![r] = Abandoned(@)]
    /\ job' = [job EXCEPT ![r] = NoJob]
    /\ UNCHANGED shared

\* The daemon stops and starts again.
Restart ==
    /\ restarts < MaxRestarts
    /\ restarts' = restarts + 1
    /\ pc' = [r \in Req |-> IF pc[r] \in Handling THEN "gone"
                            ELSE IF pc[r] = "stream" THEN "relayed" ELSE pc[r]]
    /\ plan' = [r \in Req |-> IF pc[r] \in Handling THEN Abandoned(plan[r]) ELSE plan[r]]
    /\ job' = [r \in Req |-> NoJob]
    /\ spawned' = {}
    /\ pool' = None
    /\ sink' = OpenSink(sink.files)
    /\ LoseChannel
    /\ UNCHANGED <<today, table, fate, wired, controls>>

-----------------------------------------------------------------------------

Authenticate(r) ==
    CheckLists(r) \/ BadBearer(r) \/ BadCertificate(r) \/ RejectedUnaudited(r)

Handle(r) ==
    \/ Accept(r) \/ Authenticate(r)
    \/ \E d \in {"denied", "error"} : NotAdmitted(r, d) \/ BadBody(r, d)
    \/ \E a \in Account, f \in Setting : Admit(r, a, f)
    \/ Unresolved(r) \/ NoToken(r) \/ Resolve(r)
    \/ ReadBody(r) \/ LookUp(r) \/ Rebuild(r)

Respond(r) ==
    \/ NoResponse(r) \/ Disallowed(r) \/ Buffer(r)
    \/ \E d \in Passed : StartStream(r, d)
    \/ BufferFails(r) \/ TooLarge(r)
    \/ \E rows \in PassedRows : Buffered(r, rows)
    \/ WriteRow(r) \/ Mirror(r)
    \/ \E n \in 0..MaxChunk : Chunk(r, n)
    \/ EndStream(r)

\* The drain task of the log, the sweeper and the calendar
Background ==
    \/ /\ Take \/ (\E ok \in {TRUE} \cup (IF "db" \in Faults THEN {FALSE} ELSE {}) : Store(ok))
       /\ UNCHANGED <<trailVars, wired, controls, pool, spawned, restarts, pc, plan, job>>
    \/ /\ SweepRows \/ NextDay
       /\ UNCHANGED <<logVars, wired, controls, pool, spawned, restarts, pc, plan, job>>

Next ==
    \/ \E r \in Req : Handle(r) \/ Respond(r) \/ HangUp(r)
    \/ \E t \in spawned : TaskRow(t) \/ TaskMirror(t)
    \/ Background
    \/ Restart

Spec == Init /\ [][Next]_vars

-----------------------------------------------------------------------------
(***************************************************************************)
(* What is to hold.                                                        *)
(***************************************************************************)

TypeOK ==
    /\ TrailTypeOK
    /\ LogTypeOK
    /\ wired \in BOOLEAN
    /\ controls \in ControlSets
    /\ pool \in Setting \cup {None}
    /\ spawned \subseteq Task
    /\ restarts \in 0..MaxRestarts
    /\ pc \in [Req -> PC]
    /\ plan \in [Req -> Plan]
    /\ job \in [Req -> Job]

Called == {"failed", "withheld", "relayed", "stream"}

Shown(l) == IF l = "stream" THEN "relayed" ELSE l

\* What an agent, or the upstream, can tell of a request
PhaseOf(r) ==
    IF pc[r] \notin Handling THEN Shown(pc[r])
    ELSE IF job[r].wire # None \/ plan[r].end \in Called THEN "sent" ELSE "open"

\* The outcome settled for it
ToldOf(r) == IF plan[r].end \in {"none", "rejected"} THEN "nothing" ELSE Shown(plan[r].end)

GW == INSTANCE Gateway WITH phase <- [r \in Req |-> PhaseOf(r)],
                            told  <- [r \in Req |-> ToldOf(r)]

\* The handler keeps the promises of Gateway: one call upstream at most, never
\* after the outcome is settled, an outcome that fits what was done, settled once
\* and before the agent has the answer or the first byte of a streamed one
\* (proxy_handler, handle_upstream_response); hang-ups and restarts change none
\* of it.
ImplementsGateway == GW!Spec

\* The agent's own credential headers never reach the upstream, and a request of
\* an account with a credential never goes without it: every path of proxy_handler
\* that has no value for stored, op or oauth returns before build_upstream_request.
\* It goes by a client built for its own timeouts and egress, also when another
\* request replaces the pool's entry between the read lock and the write lock of
\* get_or_build_for.  Handler, pool, trail and log are well formed (TypeOK).
WireIsOurs ==
    /\ TypeOK
    /\ \A r \in Req : LET w == job[r].wire IN
         w # None =>
           /\ w.cred = (job[r].from # "none")
           /\ w.agent \cap {"authorization", "x-api-key"} = {}
           /\ w.cred => "selected" \notin w.agent
           /\ job[r].client = job[r].fp

\* The agent has every byte up to the cap and none past it, gets the marker exactly
\* if the upstream sent more than the cap, and only then is a truncation audited:
\* SizeCappedStream at, below and above the boundary, chunk by chunk.
StreamIsCapped ==
    \A r \in Req :
        LET j == job[r]
            over == "cap" \in controls /\ j.upstream > Cap IN
        pc[r] = "stream" =>
          /\ j.got = IF over THEN Cap ELSE j.upstream
          /\ j.marker = over
          /\ fate[<<r, "truncated">>] # "none" => over

\* The rows that can settle each outcome
Verdicts ==
    [refused |-> {"denied", "error"}, failed |-> {"error"}, withheld |-> {"denied"},
     relayed |-> Passed, stream |-> Passed]

\* With a database, an answered request has exactly one verdict row, of its outcome,
\* unless its INSERT failed; and no row that was inserted is missing before it can be
\* older than the retention: audit_record, and the sweeper among the writers.
AnswersAreAudited ==
    wired =>
      /\ \A r \in Req : pc[r] \in DOMAIN Verdicts =>
           \E d \in Verdicts[pc[r]] :
             {x \in {"denied", "error", "allowed"} : fate[<<r, x>>] # "none"} = {d}
      /\ \A e \in Event : fate[e] \in {"none", "failed"}
                         \/ today > Retention
                         \/ \E w \in table : w.event = e

\* The journal holds only lines of rows that are, or were, in the table, each in one
\* file, and a write that succeeds is in a file that exists: rotation, pruning and
\* reopening never take the file that is written to.  Its disk use is bounded: a
\* file exceeds max_bytes only by one line that is larger than that, and start-up,
\* which does not prune, adds at most one file.
JournalIsSound ==
    /\ \A e \in Event : (fate[e] = "lined") = (e \in Lines(sink))
    /\ \A f, g \in Range(sink.files) : f # g => f.lines \cap g.lines = {}
    /\ \A e \in Event : fate[e] # "lost"
    /\ \A f \in Range(sink.files) : f.size > MaxBytes => Cardinality(f.lines) = 1
    /\ KeepFiles > 0 => Len(sink.files) <= KeepFiles + restarts

\* Every refusal for want of a credential is accounted for: it is queued, being
\* inserted, in the table once, lost to a failed INSERT or a restart, or counted by
\* the drop counter of the emitter's full channel.
RefusalsAreLogged ==
    LET refusals == {r \in Req : pc[r] = "refused" /\ plan[r].log}
        kept     == Range(channel) \cup Range(logged) \cup missed
                    \cup ({taken} \ {Nobody}) IN
    /\ kept \subseteq refusals
    /\ Cardinality(refusals \ kept) = dropped
    /\ Cardinality(kept) = Len(channel) + Len(logged) + Cardinality(missed)
                           + Cardinality({taken} \ {Nobody})
=============================================================================
