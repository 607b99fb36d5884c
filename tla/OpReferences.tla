---------------------------- MODULE OpReferences ----------------------------
(***************************************************************************)
(* The cache of values resolved from op:// references, and how operator    *)
(* calls that change the references in use bring it up to date: each takes *)
(* the resync lock, collects the references of the catalog and of the      *)
(* agents' overrides, and hands them to the blocking pool, where the cache *)
(* is rebuilt.  A rebuild holds a mutex throughout and is one step; values *)
(* are left out.  `seq', `published' and `seen' are not kept by the code.  *)
(***************************************************************************)
EXTENDS Naturals

CONSTANTS Ref,          \* op:// references
          Caller,       \* concurrent operator calls
          Faults,       \* which of "cancel", "db", "op" may happen
          MaxChanges,   \* bound: changes of the references in use
          Nobody

ASSUME BoundAssumption == MaxChanges \in Nat

ASSUME CallerAssumption == Nobody \notin Caller

VARIABLES catalogRefs,  \* references of the enabled rows of the catalog
          overrideRefs, \* references of the table agent_credential_overrides
          cache,        \* the references that have a cached value
          resync,       \* who holds the resync lock, or Nobody
          pc,           \* what each call does
          found,        \* found[w]: the references it has collected
          pool,         \* rebuilds spawned and not yet run
          seq,          \* snapshots taken so far
          published,    \* the snapshot the cache was last built from
          changes,
          seen          \* the kinds of faults that have happened

opVars == <<catalogRefs, overrideRefs, cache, resync, pc, found, pool, seq,
            published, changes, seen>>

PC == {"idle", "lock", "overrides", "join"}

Rebuild == [by : Caller \cup {Nobody}, refs : SUBSET Ref, seq : Nat]

InUse == catalogRefs \cup overrideRefs

\* After startup, with nothing registered
OpInit ==
    /\ catalogRefs = {}
    /\ overrideRefs = {}
    /\ cache = {}
    /\ resync = Nobody
    /\ pc = [w \in Caller |-> "idle"]
    /\ found = [w \in Caller |-> {}]
    /\ pool = {}
    /\ seq = 0
    /\ published = 0
    /\ changes = 0
    /\ seen = {}

Fault(f) == f \in Faults /\ seen' = seen \cup {f}

Goto(w, l) == pc' = [pc EXCEPT ![w] = l]

\* Mutant: the guard outlives an early return.
ReturnLocked(w) ==
    /\ Goto(w, "idle")
    /\ found' = [found EXCEPT ![w] = {}]
    /\ UNCHANGED resync

\* The call is over; its guard is dropped.
Return(w) ==
    /\ Goto(w, "idle")
    /\ found' = [found EXCEPT ![w] = {}]
    /\ resync' = IF resync = w THEN Nobody ELSE resync

Change(w) ==
    /\ pc[w] = "idle"
    /\ changes < MaxChanges
    /\ changes' = changes + 1
    /\ Goto(w, "lock")
    /\ UNCHANGED <<cache, resync, found, pool, seq, published, seen>>

\* refresh_runtime has stored a catalog.
ChangeCatalog(w) ==
    /\ Change(w)
    /\ \E R \in SUBSET Ref : catalogRefs' = R
    /\ UNCHANGED overrideRefs

\* An override has been set or deleted.
ChangeOverride(w) ==
    /\ Change(w)
    /\ \E R \in SUBSET Ref : overrideRefs' = R
    /\ UNCHANGED catalogRefs

\* Mutant: there is no lock.
LockFreeAnyway(w) == TRUE

LockFree(w) == resync = Nobody

\* The lock is taken, and the catalog read inside it.
Acquire(w) ==
    /\ pc[w] = "lock"
    /\ LockFree(w)
    /\ resync' = w
    /\ found' = [found EXCEPT ![w] = catalogRefs]
    /\ Goto(w, "overrides")
    /\ UNCHANGED <<catalogRefs, overrideRefs, cache, pool, seq, published, changes, seen>>

\* list_all, then spawn_blocking
Collect(w) ==
    /\ pc[w] = "overrides"
    /\ seq' = seq + 1
    /\ pool' = pool \cup {[by |-> w, refs |-> found[w] \cup overrideRefs,
                           seq |-> seq + 1]}
    /\ found' = [found EXCEPT ![w] = {}]
    /\ Goto(w, "join")
    /\ UNCHANGED <<catalogRefs, overrideRefs, cache, resync, published, changes, seen>>

\* The table cannot be read: the cache is left alone.
CollectFails(w) ==
    /\ pc[w] = "overrides"
    /\ Fault("db")
    /\ Return(w)
    /\ UNCHANGED <<catalogRefs, overrideRefs, cache, pool, seq, published, changes>>

\* Mutant: references that were cached before are kept.
RebuiltNoEvict(refs, ok) == cache \cup ok

\* What is still referenced and cached is kept; of the rest, `ok' resolves.
Rebuilt(refs, ok) == (refs \cap cache) \cup ok

\* The rest of the references is read with op; each read may fail.
Sync(b) ==
    /\ b \in pool
    /\ \E ok \in SUBSET (b.refs \ cache) :
         /\ IF ok = b.refs \ cache THEN UNCHANGED seen ELSE Fault("op")
         /\ cache' = Rebuilt(b.refs, ok)
    /\ pool' = pool \ {b}
    /\ published' = b.seq
    /\ UNCHANGED <<catalogRefs, overrideRefs, resync, pc, found, seq, changes>>

\* The spawned rebuild has run.
Join(w) ==
    /\ pc[w] = "join"
    /\ \A b \in pool : b.by # w
    /\ Return(w)
    /\ UNCHANGED <<catalogRefs, overrideRefs, cache, pool, seq, published, changes, seen>>

\* The handler is dropped at an await; a rebuild it has spawned runs on, and
\* nobody waits for it.
Cancel(w) ==
    /\ pc[w] # "idle"
    /\ Fault("cancel")
    /\ pool' = {IF b.by = w THEN [b EXCEPT !.by = Nobody] ELSE b : b \in pool}
    /\ Return(w)
    /\ UNCHANGED <<catalogRefs, overrideRefs, cache, seq, published, changes>>

Step(w) == Collect(w) \/ CollectFails(w) \/ Join(w)

OpNext ==
    \/ \E w \in Caller :
         \/ ChangeCatalog(w) \/ ChangeOverride(w) \/ Acquire(w) \/ Step(w)
         \/ Cancel(w)
    \/ \E b \in pool : Sync(b)

OpSpec == OpInit /\ [][OpNext]_opVars

\* tokio's mutex serves its waiters in turn; statements and op return; the
\* blocking pool runs what it is given.
OpFairness ==
    /\ \A w \in Caller : SF_opVars(Acquire(w)) /\ WF_opVars(Step(w))
    /\ WF_opVars(\E b \in pool : Sync(b))

OpLiveSpec == OpSpec /\ OpFairness

-----------------------------------------------------------------------------

OpTypeOK ==
    /\ catalogRefs \subseteq Ref
    /\ overrideRefs \subseteq Ref
    /\ cache \subseteq Ref
    /\ resync \in Caller \cup {Nobody}
    /\ pc \in [Caller -> PC]
    /\ found \in [Caller -> SUBSET Ref]
    /\ pool \subseteq Rebuild
    /\ seq \in Nat
    /\ published \in Nat
    /\ changes \in 0..MaxChanges
    /\ seen \subseteq Faults

\* Unless something failed, once every call has returned the cache has a value
\* for exactly the references in use, in whatever order the calls changed them
\* ("the last resync to run always saw the newest state", resync_op_references).
\* Meanwhile it holds nothing but references (OpTypeOK).
CacheIsCurrent ==
    /\ OpTypeOK
    /\ (seen = {} /\ pool = {} /\ \A w \in Caller : pc[w] = "idle") => cache = InUse

\* As long as no call has been dropped, the cache is never rebuilt from an
\* older snapshot than it already has been, whatever reads fail: "a resync that
\* snapshotted older state can never publish after (and evict references added
\* by) a newer one" (OpResolver::resync).  After a dropped call it may be.
InOrder == "cancel" \notin seen => published' >= published

PublishesInOrder == [][InOrder]_opVars

\* An operator call returns, however reads and rebuilds fail and other calls
\* are dropped: the resync lock is never left behind (resync_op_references).
CallsReturn == \A w \in Caller : pc[w] # "idle" ~> pc[w] = "idle"
=============================================================================
