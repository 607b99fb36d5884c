----------------------------- MODULE Connections -----------------------------
(***************************************************************************)
(* The connections agents may use: the table registrations, the catalog    *)
(* the daemon keeps of it in memory, the operator's handlers that write    *)
(* the one and publish the other, and the admission of proxied requests,   *)
(* which reads the table and compares it with the catalog.                 *)
(*                                                                         *)
(* Every step is one SQL statement or one access to the shared catalog.    *)
(* Everything happens within one second, so that created_at and updated_at *)
(* do not tell rows apart; `epoch' and `write' are not stored by the code. *)
(***************************************************************************)
EXTENDS Naturals

CONSTANTS Conn,         \* names of tools and models
          Agent,        \* authenticated agents
          Writer,       \* concurrent operator calls
          Request,      \* concurrent proxied requests
          Dest,         \* (upstream, egress) pairs
          SeedDest,     \* the one the image's catalog has
          Faults,       \* which of "abort", "crash" may happen
          MaxWrites,    \* bound: writes to registrations in all
          None

ASSUME DestAssumption == SeedDest \in Dest

ASSUME BoundAssumption == MaxWrites \in Nat

VARIABLES reg,          \* reg[c]: the row, or None
          catalog,      \* what the daemon holds of reg
          grant,        \* grant[a][c]: the epoch a was granted c for, or 0
          account,      \* account[a][c]: the epoch of a's binding to c, or 0
          active,       \* active[a]: neither revoked nor expired
          writes,       \* writes to registrations so far; the seed's is the first
          last,         \* last[c]: the last of them that changed c
          pc, job,      \* operator calls
          step, req     \* proxied requests

vars == <<reg, catalog, grant, account, active, writes, last, pc, job, step,
          req>>

-----------------------------------------------------------------------------
(***************************************************************************)
(* State.                                                                  *)
(***************************************************************************)

\* stored: auth names a secret of the credential store (CredentialStore.tla).
\* epoch: the write that created the row or gave it its destination.
\* write: the last write to the row.
Row == [dest : Dest, stored : BOOLEAN, disabled : BOOLEAN, seed : BOOLEAN,
        epoch : Nat, write : Nat]

Op == {"put", "delete", "enable", "credential", "clear"}

Job == [op : Op \cup {None}, conn : Conn \cup {None}, dest : Dest,
        old : Row \cup {None}, snap : [Conn -> Row \cup {None}]]

NoJob == [op |-> None, conn |-> None, dest |-> SeedDest,
          old |-> None, snap |-> [c \in Conn |-> None]]

Read == [agent : Agent, conn : Conn, begin : Nat, row : Row \cup {None},
         grant : Nat, account : Nat, active : BOOLEAN]

\* No row is the absence of one.
ASSUME RowsAssumption == None \notin Row \cup Read

SeedRow == [dest |-> SeedDest, stored |-> FALSE, disabled |-> FALSE, seed |-> TRUE,
            epoch |-> 1, write |-> 1]

Init ==
    /\ reg \in [Conn -> {SeedRow, None}]
    /\ catalog = reg
    /\ grant = [a \in Agent |-> [c \in Conn |-> 0]]
    /\ account = [a \in Agent |-> [c \in Conn |-> 0]]
    /\ active = [a \in Agent |-> TRUE]
    /\ writes = 1
    /\ last = [c \in Conn |-> 1]
    /\ pc = [w \in Writer |-> "idle"]
    /\ job = [w \in Writer |-> NoJob]
    /\ step = [r \in Request |-> "idle"]
    /\ req = [r \in Request |-> None]

\* The rows are equal in what the code stores.
Same(q, r) == /\ q.dest = r.dest /\ q.stored = r.stored
              /\ q.disabled = r.disabled /\ q.seed = r.seed

Forget(f, c) == [a \in Agent |-> [f[a] EXCEPT ![c] = 0]]

\* Mutant: only creation and deletion withdraw authority.
WithdrawOnCreate(c, new) ==
    IF new = None \/ reg[c] = None
    THEN grant' = Forget(grant, c) /\ account' = Forget(account, c)
    ELSE UNCHANGED <<grant, account>>

\* The triggers of migration 0009: authority for c goes with a statement that
\* deletes it, creates it, or changes where it goes to.
Withdraw(c, new) ==
    IF new = None \/ reg[c] = None \/ (new # None /\ reg[c] # None /\ new.dest # reg[c].dest)
    THEN grant' = Forget(grant, c) /\ account' = Forget(account, c)
    ELSE UNCHANGED <<grant, account>>

\* One statement makes c's row `new'.
WriteRow(c, new) ==
    LET n == writes + 1
        keeps == reg[c] # None /\ new # None /\ new.dest = reg[c].dest IN
    /\ writes < MaxWrites
    /\ writes' = n
    /\ last' = [last EXCEPT ![c] = n]
    /\ reg' = [reg EXCEPT ![c] =
                 IF new = None THEN None
                 ELSE [new EXCEPT !.write = n,
                                  !.epoch = IF keeps THEN reg[c].epoch ELSE n]]
    /\ Withdraw(c, new)

Goto(w, l) == pc' = [pc EXCEPT ![w] = l]

Done(w) == Goto(w, "idle") /\ job' = [job EXCEPT ![w] = NoJob]

-----------------------------------------------------------------------------
(***************************************************************************)
(* Operator calls: read the row, write it, list the table, publish.        *)
(***************************************************************************)

\* op_put: the row need not exist.
StartPut(w, c, d) ==
    /\ pc[w] = "idle"
    /\ job' = [job EXCEPT ![w] = [NoJob EXCEPT !.op = "put", !.conn = c, !.dest = d,
                                               !.old = reg[c]]]
    /\ Goto(w, "write")
    /\ UNCHANGED <<reg, catalog, grant, account, active, writes, last, step, req>>

\* The others answer 404 for an unknown name; clearing a credential that is not
\* stored changes nothing.
Start(w, op, c) ==
    /\ pc[w] = "idle"
    /\ reg[c] # None
    /\ op = "clear" => reg[c].stored
    /\ job' = [job EXCEPT ![w] = [NoJob EXCEPT !.op = op, !.conn = c, !.old = reg[c]]]
    /\ Goto(w, "write")
    /\ UNCHANGED <<reg, catalog, grant, account, active, writes, last, step, req>>

\* Mutant: PUT writes an enabled row.
PutRowEnables(j) ==
    [dest |-> j.dest, stored |-> FALSE, disabled |-> FALSE, seed |-> FALSE,
     epoch |-> 0, write |-> 0]

\* PUT keeps the disabled flag it has read, and makes the row the operator's.
PutRow(j) ==
    [dest |-> j.dest, stored |-> FALSE,
     disabled |-> IF j.old = None THEN FALSE ELSE j.old.disabled,
     seed |-> FALSE, epoch |-> 0, write |-> 0]

\* The row read before, with a stored credential or with none
CredentialRow(j, b) == [j.old EXCEPT !.stored = b, !.seed = FALSE]

\* DELETE disables a row that was a seed row when it was read.
DeleteRow(w) ==
    LET c == job[w].conn IN
    \/ /\ job[w].old.seed
       /\ reg[c] # None
       /\ WriteRow(c, [reg[c] EXCEPT !.disabled = TRUE])
    \/ /\ ~job[w].old.seed
       /\ reg[c] # None
       /\ WriteRow(c, None)
    \/ /\ reg[c] = None
       /\ UNCHANGED <<reg, grant, account, writes, last>>

EnableRow(w) ==
    LET c == job[w].conn IN
    \/ /\ reg[c] # None
       /\ WriteRow(c, [reg[c] EXCEPT !.disabled = FALSE])
    \/ /\ reg[c] = None
       /\ UNCHANGED <<reg, grant, account, writes, last>>

Write(w) ==
    LET j == job[w] IN
    /\ pc[w] = "write"
    /\ \/ j.op = "put" /\ WriteRow(j.conn, PutRow(j))
       \/ j.op = "credential" /\ WriteRow(j.conn, CredentialRow(j, TRUE))
       \/ j.op = "clear" /\ WriteRow(j.conn, CredentialRow(j, FALSE))
       \/ j.op = "delete" /\ DeleteRow(w)
       \/ j.op = "enable" /\ EnableRow(w)
    /\ Goto(w, "list")
    /\ job' = [job EXCEPT ![w] = NoJob]
    /\ UNCHANGED <<catalog, active, step, req>>

\* refresh_runtime: Catalog::from_repo
List(w) ==
    /\ pc[w] = "list"
    /\ job' = [job EXCEPT ![w].snap = reg]
    /\ Goto(w, "publish")
    /\ UNCHANGED <<reg, catalog, grant, account, active, writes, last, step, req>>

\* refresh_runtime: catalog.store
Publish(w) ==
    /\ pc[w] = "publish"
    /\ catalog' = job[w].snap
    /\ Done(w)
    /\ UNCHANGED <<reg, grant, account, active, writes, last, step, req>>

\* modify_agent with c in the list: c has to be enabled.
Allow(a, c) ==
    /\ reg[c] # None /\ ~reg[c].disabled
    /\ grant' = [grant EXCEPT ![a][c] = reg[c].epoch]
    /\ UNCHANGED <<reg, catalog, account, active, writes, last, pc, job, step, req>>

\* AgentCredentialRepository::set: likewise
Bind(a, c) ==
    /\ reg[c] # None /\ ~reg[c].disabled
    /\ account' = [account EXCEPT ![a][c] = reg[c].epoch]
    /\ UNCHANGED <<reg, catalog, grant, active, writes, last, pc, job, step, req>>

\* The agent is revoked or expires.
Revoke(a) ==
    /\ active[a]
    /\ active' = [active EXCEPT ![a] = FALSE]
    /\ UNCHANGED <<reg, catalog, grant, account, writes, last, pc, job, step, req>>

\* modify_agent without c
Disallow(a, c) ==
    /\ grant[a][c] # 0
    /\ grant' = [grant EXCEPT ![a][c] = 0]
    /\ UNCHANGED <<reg, catalog, account, active, writes, last, pc, job, step, req>>

\* op_unset_agent_credential
Unbind(a, c) ==
    /\ account[a][c] # 0
    /\ account' = [account EXCEPT ![a][c] = 0]
    /\ UNCHANGED <<reg, catalog, grant, active, writes, last, pc, job, step, req>>

-----------------------------------------------------------------------------
(***************************************************************************)
(* A proxied request: authenticate, read, decide.                          *)
(***************************************************************************)

\* The identity carries the agent's lists as they are now.
Authenticate(r, a, c) ==
    /\ step[r] = "idle"
    /\ active[a]
    /\ step' = [step EXCEPT ![r] = "read"]
    /\ req' = [req EXCEPT ![r] = [agent |-> a, conn |-> c, begin |-> last[c],
                                  row |-> None, grant |-> grant[a][c],
                                  account |-> 0, active |-> TRUE]]
    /\ UNCHANGED <<reg, catalog, grant, account, active, writes, last, pc, job>>

\* Mutant: the row is taken from the catalog.
AdmissionsCatalog(q) ==
    [q EXCEPT !.row = catalog[q.conn], !.grant = grant[q.agent][q.conn],
              !.account = account[q.agent][q.conn], !.active = active[q.agent]]

\* http_admissions: one statement reads the row, the agent and the binding.
Admissions(q) ==
    [q EXCEPT !.row = reg[q.conn], !.grant = grant[q.agent][q.conn],
              !.account = account[q.agent][q.conn], !.active = active[q.agent]]

ReadAdmission(r) ==
    /\ step[r] = "read"
    /\ req' = [req EXCEPT ![r] = Admissions(req[r])]
    /\ step' = [step EXCEPT ![r] = "decide"]
    /\ UNCHANGED <<reg, catalog, grant, account, active, writes, last, pc, job>>

\* activation is "active"
Activated(c, row) == catalog[c] # None /\ Same(catalog[c], row)

Admitted(q) ==
    /\ q.row # None
    /\ q.active
    /\ q.grant # 0
    /\ ~q.row.disabled
    /\ Activated(q.conn, q.row)
    /\ q.account # 0

\* admission::target after the read: the request goes where the row it read
\* says; 404, 401, 403 or 503 otherwise.
Decide(r) ==
    /\ step[r] = "decide"
    /\ \/ /\ Admitted(req[r])
          /\ step' = [step EXCEPT ![r] = "sent"]
          /\ UNCHANGED req
       \/ /\ ~Admitted(req[r])
          /\ req' = [req EXCEPT ![r] = None]
          /\ step' = [step EXCEPT ![r] = "idle"]
    /\ UNCHANGED <<reg, catalog, grant, account, active, writes, last, pc, job>>

\* The upstream's answer, or an error, is passed on.
Respond(r) ==
    /\ step[r] = "sent"
    /\ req' = [req EXCEPT ![r] = None]
    /\ step' = [step EXCEPT ![r] = "idle"]
    /\ UNCHANGED <<reg, catalog, grant, account, active, writes, last, pc, job>>

-----------------------------------------------------------------------------

\* A handler is dropped at an await, or its statement fails: before the write
\* nothing is changed, after it the row is saved and not activated (503).
Abort(w) ==
    /\ "abort" \in Faults
    /\ pc[w] # "idle"
    /\ Done(w)
    /\ UNCHANGED <<reg, catalog, grant, account, active, writes, last, step, req>>

\* The daemon stops; when it starts again it builds the catalog.
Restart ==
    /\ "crash" \in Faults
    /\ catalog' = reg
    /\ pc' = [w \in Writer |-> "idle"]
    /\ job' = [w \in Writer |-> NoJob]
    /\ step' = [r \in Request |-> "idle"]
    /\ req' = [r \in Request |-> None]
    /\ UNCHANGED <<reg, grant, account, active, writes, last>>

Operate(w) == Write(w) \/ List(w) \/ Publish(w)

Next ==
    \/ \E w \in Writer, c \in Conn, d \in Dest : StartPut(w, c, d)
    \/ \E w \in Writer, op \in Op \ {"put"}, c \in Conn : Start(w, op, c)
    \/ \E w \in Writer : Operate(w) \/ Abort(w)
    \/ \E a \in Agent, c \in Conn : 
         Allow(a, c) \/ Bind(a, c) \/ Disallow(a, c) \/ Unbind(a, c)
    \/ \E a \in Agent : Revoke(a)
    \/ \E r \in Request, a \in Agent, c \in Conn : Authenticate(r, a, c)
    \/ \E r \in Request : ReadAdmission(r) \/ Decide(r) \/ Respond(r)
    \/ Restart

Spec == Init /\ [][Next]_vars

-----------------------------------------------------------------------------
(***************************************************************************)
(* Properties.                                                             *)
(***************************************************************************)

TypeOK ==
    /\ reg \in [Conn -> Row \cup {None}]
    /\ catalog \in [Conn -> Row \cup {None}]
    /\ grant \in [Agent -> [Conn -> Nat]]
    /\ account \in [Agent -> [Conn -> Nat]]
    /\ active \in [Agent -> BOOLEAN]
    /\ writes \in Nat
    /\ last \in [Conn -> Nat]
    /\ pc \in [Writer -> {"idle", "write", "list", "publish"}]
    /\ job \in [Writer -> Job]
    /\ step \in [Request -> {"idle", "read", "decide", "sent"}]
    /\ req \in [Request -> Read \cup {None}]

\* Authority never survives what it was given for: an agent's grant and its
\* account binding were both made for the destination the connection has now,
\* through every race of PUT, DELETE, enable and credential calls that write
\* back a row they read earlier (triggers of migration 0009).  Rows that are
\* written back are whole (TypeOK).
AuthorityIsCurrent ==
    /\ TypeOK
    /\ \A a \in Agent, c \in Conn :
         /\ grant[a][c] # 0 => reg[c] # None /\ grant[a][c] = reg[c].epoch
         /\ account[a][c] # 0 => reg[c] # None /\ account[a][c] = reg[c].epoch

\* However stale the catalog is, a request is forwarded according to a row that
\* no write before the request began has replaced, and only to a destination that
\* both the agent's grant and its credential were given for ("Admission
\* independently denies any changed stale row", refresh_runtime; http_admissions).
SentIsFresh ==
    \A r \in Request :
        step[r] = "sent" =>
            /\ req[r].row.write >= req[r].begin
            /\ req[r].grant = req[r].row.epoch
            /\ req[r].account = req[r].row.epoch

\* registrations/api.rs: the catalog is refreshed "after every successful admin
\* write so the proxy hot path sees the new state immediately".
CatalogFollows ==
    (Faults = {} /\ \A w \in Writer : pc[w] = "idle") =>
        \A c \in Conn : \/ reg[c] = None
                        \/ Activated(c, reg[c])

\* A disabled connection is enabled again only by a call that asks for it, or by
\* one that read the row before it was disabled and writes it back: no other PUT
\* or credential call turns it on (op_put: "Preserves `disabled` flag").
DisabledUntilTold ==
    [][\A c \in Conn :
         /\ reg[c] # None /\ reg[c].disabled
         /\ reg'[c] # None /\ ~reg'[c].disabled
         => \E w \in Writer :
              /\ pc[w] = "write" /\ pc'[w] = "list" /\ job[w].conn = c
              /\ job[w].op = "enable" \/ job[w].old = None \/ ~job[w].old.disabled]_vars
=============================================================================
