--------------------------- MODULE CredentialStore ---------------------------
(***************************************************************************)
(* The sealed credential store: the table credential_secrets, the places   *)
(* that refer to its rows (the auth of a registration and the per-agent    *)
(* overrides), the handlers that rotate and clear a stored value, and the  *)
(* sweeper that collects what nothing refers to.                           *)
(*                                                                         *)
(* Every step is one SQL statement.  Timestamps are kept as ages, counted  *)
(* in seconds and capped where no comparison can tell them apart, so that  *)
(* the clock never stops.  Sealing is left out: a value is its reference.  *)
(***************************************************************************)
EXTENDS Naturals

CONSTANTS Conn,         \* names of registrations
          Agent,        \* agents that may have an override
          Writer,       \* concurrent set-value and clear calls
          Grace,        \* orphan_grace_seconds, at least 60 in the code
          Retention,    \* tombstone_retention_days, in seconds
          Delay,        \* bound: seconds between insert and recording the ref
          Faults,       \* which of "cancel", "db" may happen
          MaxSecrets,   \* bound: rows inserted in all
          None

ASSUME NumbersAssumption ==
    /\ Grace \in Nat /\ Retention \in Nat /\ Delay \in Nat /\ MaxSecrets \in Nat
    /\ Delay <= Grace

ASSUME NoneAssumption == None \notin Agent

VARIABLES row,          \* row[c]: the registration exists
          ref,          \* ref[x]: the secret slot x refers to, or NoRef
          own,          \* own[x]: the ref was recorded by a set-value call
          secret,       \* secret[s]: "none", "live", "dead" or "gone"
          age,          \* age[s]: seconds since set_at, then since tombstoned_at
          issued,       \* rows inserted so far
          pc, job,      \* the calls
          tick,         \* the sweeper: "idle", "collect" or "purge"
          due, expired  \* what the sweeper's cutoffs cover, fixed at the tick

vars == <<row, ref, own, secret, age, issued, pc, job, tick, due, expired>>

-----------------------------------------------------------------------------
(***************************************************************************)
(* State.                                                                  *)
(***************************************************************************)

NoRef == 0

Secret == 1..MaxSecrets

\* Where a ref can be: agent None is the registration's own auth.
Slot == [agent : Agent \cup {None}, conn : Conn]

Job == [slot : Slot \cup {None}, set : BOOLEAN,
        old : {NoRef} \cup Secret, new : {NoRef} \cup Secret]

NoJob == [slot |-> None, set |-> FALSE, old |-> NoRef, new |-> NoRef]

PC == {"idle", "insert", "record", "tombstone"}

\* No comparison tells ages beyond this apart.
MaxAge(s) == IF secret[s] = "live" THEN Grace + 1 ELSE Retention + 1

Init ==
    /\ row = [c \in Conn |-> FALSE]
    /\ ref = [x \in Slot |-> NoRef]
    /\ own = [x \in Slot |-> FALSE]
    /\ secret = [s \in Secret |-> "none"]
    /\ age = [s \in Secret |-> 0]
    /\ issued = 0
    /\ pc = [w \in Writer |-> "idle"]
    /\ job = [w \in Writer |-> NoJob]
    /\ tick = "idle"
    /\ due = {}
    /\ expired = {}

InUse(s) == \E x \in Slot : ref[x] = s

\* Mutant: a NULL in the NOT IN subquery makes the predicate NULL.
UnreferencedNull(s) == ~InUse(s) /\ \A x \in Slot : ref[x] # NoRef

\* UNREFERENCED
Unreferenced(s) == ~InUse(s)

\* UPDATE ... SET tombstoned_at
Tombstone(S) ==
    /\ secret' = [s \in Secret |-> IF s \in S THEN "dead" ELSE secret[s]]
    /\ age' = [s \in Secret |-> IF s \in S THEN 0 ELSE age[s]]

\* The auth of registration c is written.  An INSERT drops its overrides, an
\* UPDATE keeps them (migration 0009).
WriteRow(c, s, mine) ==
    LET new(x) == x.conn = c /\ x.agent = None
        dropped(x) == x.conn = c /\ x.agent # None /\ ~row[c] IN
    /\ row' = [row EXCEPT ![c] = TRUE]
    /\ ref' = [x \in Slot |-> IF new(x) THEN s
                              ELSE IF dropped(x) THEN NoRef ELSE ref[x]]
    /\ own' = [x \in Slot |-> IF new(x) THEN mine
                              ELSE ~dropped(x) /\ own[x]]

\* The override of slot x is written.
WriteOverride(x, s, mine) ==
    /\ ref' = [ref EXCEPT ![x] = s]
    /\ own' = [own EXCEPT ![x] = mine]
    /\ UNCHANGED row

Goto(w, l) == pc' = [pc EXCEPT ![w] = l]

Done(w) == Goto(w, "idle") /\ job' = [job EXCEPT ![w] = NoJob]

-----------------------------------------------------------------------------
(***************************************************************************)
(* Setting a value: get, insert, record, tombstone the old one.            *)
(* Clearing it: get, record nothing, tombstone.                            *)
(***************************************************************************)

\* op_put_credential and op_set_agent_stored_credential: the existing ref is
\* read.  Only a registration's own slot has to exist already.
StartSet(w, x) ==
    /\ pc[w] = "idle"
    /\ x.agent = None => row[x.conn]
    /\ issued < MaxSecrets
    /\ job' = [job EXCEPT ![w] = [slot |-> x, set |-> TRUE, old |-> ref[x],
                                  new |-> NoRef]]
    /\ Goto(w, "insert")
    /\ UNCHANGED <<row, ref, own, secret, age, issued, tick, due, expired>>

\* op_delete_credential does nothing unless a ref is stored.
\* op_unset_agent_credential deletes the override in any case.
StartClear(w, x) ==
    /\ pc[w] = "idle"
    /\ x.agent = None => row[x.conn] /\ ref[x] # NoRef
    /\ job' = [job EXCEPT ![w] = [slot |-> x, set |-> FALSE, old |-> ref[x],
                                  new |-> NoRef]]
    /\ Goto(w, "record")
    /\ UNCHANGED <<row, ref, own, secret, age, issued, tick, due, expired>>

\* new_secret_ref
NewRef == issued + 1

\* insert: a fresh row under a fresh ref
Insert(w) ==
    /\ pc[w] = "insert"
    /\ issued < MaxSecrets
    /\ issued' = issued + 1
    /\ secret' = [secret EXCEPT ![issued + 1] = "live"]
    /\ age' = [age EXCEPT ![issued + 1] = 0]
    /\ job' = [job EXCEPT ![w].new = NewRef]
    /\ Goto(w, "record")
    /\ UNCHANGED <<row, ref, own, tick, due, expired>>

\* After the write: the old ref is tombstoned, if there was one.
AfterRecord(w) ==
    IF job[w].old # NoRef
    THEN Goto(w, "tombstone") /\ job' = [job EXCEPT ![w] = [NoJob EXCEPT !.old = job[w].old]]
    ELSE Done(w)

\* The registration is upserted, and so comes back when it was deleted since
\* it was read; an override is only set while its registration exists.
Record(w) ==
    LET x == job[w].slot IN
    /\ pc[w] = "record"
    /\ \/ /\ x.agent = None
          /\ WriteRow(x.conn, job[w].new, job[w].set)
          /\ AfterRecord(w)
       \/ /\ x.agent # None
          /\ job[w].set => row[x.conn]
          /\ WriteOverride(x, job[w].new, job[w].set)
          /\ AfterRecord(w)
       \/ /\ x.agent # None
          /\ job[w].set /\ ~row[x.conn]
          /\ UNCHANGED <<row, ref, own>>
          /\ Done(w)
    /\ UNCHANGED <<secret, age, issued, tick, due, expired>>

\* Mutant: a plain tombstone.
TombstoneAlways(s) == {i \in {s} : secret[i] = "live"}

\* tombstone_if_unreferenced
TombstoneIfUnreferenced(s) == {i \in {s} : secret[i] = "live" /\ Unreferenced(i)}

\* An error is logged and dropped.
TombstoneOld(w) ==
    /\ pc[w] = "tombstone"
    /\ \/ Tombstone(TombstoneIfUnreferenced(job[w].old))
       \/ "db" \in Faults /\ UNCHANGED <<secret, age>>
    /\ Done(w)
    /\ UNCHANGED <<row, ref, own, issued, tick, due, expired>>

-----------------------------------------------------------------------------
(***************************************************************************)
(* Writes that do not go through the store.                                *)
(***************************************************************************)

\* op_put with any auth spec, also one with a ref the caller has been told.
PutAuth(c, s) ==
    /\ s = NoRef \/ InUse(s)
    /\ WriteRow(c, s, FALSE)
    /\ UNCHANGED <<secret, age, issued, pc, job, tick, due, expired>>

\* op_set_agent_credential, likewise
SetAuth(x, s) ==
    /\ x.agent # None
    /\ row[x.conn]
    /\ s = NoRef \/ InUse(s)
    /\ WriteOverride(x, s, FALSE)
    /\ UNCHANGED <<secret, age, issued, pc, job, tick, due, expired>>

\* op_delete; the trigger drops the overrides as well.
DeleteRow(c) ==
    /\ row[c]
    /\ row' = [row EXCEPT ![c] = FALSE]
    /\ ref' = [x \in Slot |-> IF x.conn = c THEN NoRef ELSE ref[x]]
    /\ own' = [x \in Slot |-> x.conn # c /\ own[x]]
    /\ UNCHANGED <<secret, age, issued, pc, job, tick, due, expired>>

-----------------------------------------------------------------------------
(***************************************************************************)
(* The sweeper and the clock.                                              *)
(***************************************************************************)

\* Mutant: no grace.
OverdueAtOnce(s) == age[s] >= 0

\* set_at < now - grace
Overdue(s) == age[s] > Grace

\* The cutoffs are computed from one reading of the clock.
Tick ==
    /\ tick = "idle"
    /\ tick' = "collect"
    /\ due' = {s \in Secret : secret[s] = "live" /\ Overdue(s)}
    /\ expired' = {s \in Secret : secret[s] = "dead" /\ age[s] > Retention}
    /\ UNCHANGED <<row, ref, own, secret, age, issued, pc, job>>

\* tombstone_unreferenced
Collect ==
    /\ tick = "collect"
    /\ tick' = "purge"
    /\ due' = {}
    /\ Tombstone({s \in due : secret[s] = "live" /\ Unreferenced(s)})
    /\ UNCHANGED <<row, ref, own, issued, pc, job, expired>>

\* sweep
Purge ==
    /\ tick = "purge"
    /\ tick' = "idle"
    /\ expired' = {}
    /\ secret' = [s \in Secret |-> IF s \in expired THEN "gone" ELSE secret[s]]
    /\ age' = [s \in Secret |-> IF s \in expired THEN 0 ELSE age[s]]
    /\ UNCHANGED <<row, ref, own, issued, pc, job, due>>

\* A statement of the sweeper fails; it is logged, and the sweeper goes on.
SweepError ==
    /\ "db" \in Faults
    /\ \/ tick = "collect" /\ tick' = "purge" /\ due' = {} /\ UNCHANGED expired
       \/ tick = "purge" /\ tick' = "idle" /\ expired' = {} /\ UNCHANGED due
    /\ UNCHANGED <<row, ref, own, secret, age, issued, pc, job>>

\* A second passes.  No call takes more than Delay seconds from insert to the
\* statement that records the ref.
Advance ==
    /\ \A w \in Writer :
         pc[w] = "record" /\ job[w].new # NoRef => age[job[w].new] < Delay
    /\ age' = [s \in Secret |->
                 IF secret[s] \in {"live", "dead"} /\ age[s] < MaxAge(s)
                 THEN age[s] + 1 ELSE age[s]]
    /\ UNCHANGED <<row, ref, own, secret, issued, pc, job, tick, due, expired>>

\* A statement of a call fails before the ref is recorded.
DbError(w) ==
    /\ "db" \in Faults
    /\ pc[w] \in {"insert", "record"}
    /\ Done(w)
    /\ UNCHANGED <<row, ref, own, secret, age, issued, tick, due, expired>>

\* The handler is dropped at an await, or the daemon stops there.
Cancel(w) ==
    /\ "cancel" \in Faults
    /\ pc[w] # "idle"
    /\ Done(w)
    /\ UNCHANGED <<row, ref, own, secret, age, issued, tick, due, expired>>

Call(w) == Insert(w) \/ Record(w) \/ TombstoneOld(w)

Next ==
    \/ \E w \in Writer, x \in Slot : StartSet(w, x) \/ StartClear(w, x)
    \/ \E w \in Writer : Call(w) \/ DbError(w) \/ Cancel(w)
    \/ \E c \in Conn, s \in {NoRef} \cup Secret : PutAuth(c, s)
    \/ \E x \in Slot, s \in {NoRef} \cup Secret : SetAuth(x, s)
    \/ \E c \in Conn : DeleteRow(c)
    \/ Tick \/ Collect \/ Purge \/ SweepError \/ Advance

Spec == Init /\ [][Next]_vars

\* The statement that records a ref returns, time passes, the sweeper's interval
\* fires, and its statements do not fail for ever.
Fairness ==
    /\ WF_vars(Tick) /\ SF_vars(Collect) /\ SF_vars(Purge) /\ WF_vars(Advance)
    /\ \A w \in Writer : WF_vars(Record(w))

LiveSpec == Spec /\ Fairness

-----------------------------------------------------------------------------
(***************************************************************************)
(* Properties.                                                             *)
(***************************************************************************)

TypeOK ==
    /\ row \in [Conn -> BOOLEAN]
    /\ ref \in [Slot -> {NoRef} \cup Secret]
    /\ own \in [Slot -> BOOLEAN]
    /\ secret \in [Secret -> {"none", "live", "dead", "gone"}]
    /\ age \in [Secret -> Nat]
    /\ issued \in 0..MaxSecrets
    /\ pc \in [Writer -> PC]
    /\ job \in [Writer -> Job]
    /\ tick \in {"idle", "collect", "purge"}
    /\ due \subseteq Secret
    /\ expired \subseteq Secret

\* A value an operator stored can be resolved for as long as something refers
\* to it: neither a sweep between insert and the write that records the ref,
\* nor the cleanup of a concurrent rotation, ever takes it away
\* (op_put_credential, credential_store_sweeper).  Every ref is one that was
\* handed out (TypeOK).
StoredIsLive ==
    /\ TypeOK
    /\ \A x \in Slot : own[x] => ref[x] # NoRef /\ secret[ref[x]] = "live"

KeepsShared ==
    \A s \in Secret : secret[s] = "live" /\ InUse(s) => secret'[s] = "live"

\* Dropping one of several references to a value never invalidates the others
\* (tombstone_if_unreferenced).
SharedSurvives == [][KeepsShared]_vars

\* No reference to the secret, and no call that is about to record one.
Orphan(s) ==
    /\ secret[s] \in {"live", "dead"}
    /\ ~InUse(s)
    /\ \A w \in Writer : pc[w] = "record" => job[w].new # s

\* Whatever path dropped the last reference, the sealed value is removed in
\* the end: after a cancelled call, a lost rotation, a deleted registration
\* (tombstone_unreferenced, sweep).
OrphansAreCollected ==
    \A s \in Secret : Orphan(s) ~> secret[s] = "gone" \/ InUse(s)
=============================================================================
