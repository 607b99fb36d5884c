------------------------ MODULE CredentialStore_proofs ------------------------
(***************************************************************************)
(* Proofs about CredentialStore, for any registrations, agents and calls,  *)
(* any grace, and any delay of a call that the grace covers.               *)
(*                                                                         *)
(* The inductive invariant: the types and the secrets that recorded refs   *)
(* name (StoredIsLive); a call between get and record has a slot (Begun);  *)
(* refs are handed out in order (Issued); a secret that a call is about to *)
(* record is live, too young to be due, and known to nobody else (Fresh);  *)
(* and what the sweeper is about to remove has been tombstoned (Buried).   *)
(***************************************************************************)
EXTENDS CredentialStore, TLAPS

Begun ==
    \A w \in Writer : /\ pc[w] \in {"insert", "record"} => job[w].slot \in Slot
                      /\ pc[w] = "insert" => job[w].set
                      /\ pc[w] = "record" /\ ~job[w].set => job[w].new = NoRef

Issued ==
    /\ \A x \in Slot : ref[x] <= issued
    /\ \A w \in Writer : job[w].old <= issued /\ job[w].new <= issued
    /\ \A s \in Secret : secret[s] # "none" => s <= issued
    /\ \A s \in due : s <= issued

Pending(w) == pc[w] = "record" /\ job[w].set

\* Nothing but the call w knows the secret it has inserted, and no sweep that
\* has begun covers it.
Fresh ==
    \A w \in Writer : Pending(w) =>
        /\ job[w].new # NoRef
        /\ secret[job[w].new] = "live"
        /\ age[job[w].new] <= Delay
        /\ job[w].new \notin due
        /\ \A x \in Slot : ref[x] # job[w].new
        /\ \A v \in Writer : job[v].old # job[w].new
        /\ \A v \in Writer \ {w} : Pending(v) => job[v].new # job[w].new

Buried == \A s \in expired : secret[s] = "dead"

IInv == StoredIsLive /\ Begun /\ Issued /\ Fresh /\ Buried

-----------------------------------------------------------------------------
(***************************************************************************)
(* What the parts of a step do.                                            *)
(***************************************************************************)

\* The bounds are numbers, and a ref is a number.
LEMMA Numbers ==
    /\ Secret \subseteq Nat /\ NoRef \in Nat /\ NoRef \notin Secret
    /\ Delay \in Nat /\ Grace \in Nat /\ Delay <= Grace
    /\ 0..MaxSecrets \subseteq Nat
    /\ \A n \in Nat : n < MaxSecrets => n + 1 \in Secret /\ n + 1 \in 0..MaxSecrets
  BY NumbersAssumption DEF Secret, NoRef

\* A call that has not begun holds nothing (NoJob).
LEMMA NoJobType ==
    NoJob \in Job /\ NoJob.old = NoRef /\ NoJob.new = NoRef /\ NoJob.set = FALSE
  BY DEF NoJob, Job

\* What a call holds.
LEMMA JobType ==
    ASSUME TypeOK, NEW w \in Writer
    PROVE  /\ pc[w] \in PC
           /\ job[w] \in Job
           /\ job[w].set \in BOOLEAN
           /\ job[w].old \in {NoRef} \cup Secret
           /\ job[w].new \in {NoRef} \cup Secret
           /\ job[w].old \in Nat /\ job[w].new \in Nat
  <1>1. pc \in [Writer -> PC] /\ job \in [Writer -> Job]
    BY Zenon DEF TypeOK
  <1>2. pc[w] \in PC /\ job[w] \in Job
    BY Zenon, <1>1
  <1>3. /\ job[w].set \in BOOLEAN
        /\ job[w].old \in {NoRef} \cup Secret
        /\ job[w].new \in {NoRef} \cup Secret
    BY <1>2 DEF Job
  <1>4. {NoRef} \cup Secret \subseteq Nat
    BY Numbers
  <1>. QED  BY Zenon, <1>2, <1>3, <1>4

\* A call moves on, and the others stay where they are.
LEMMA CallMoves ==
    ASSUME TypeOK, Begun, NEW w \in Writer, NEW l \in PC, NEW j \in Job,
           pc' = [pc EXCEPT ![w] = l], job' = [job EXCEPT ![w] = j],
           l \in {"insert", "record"} => j.slot \in Slot,
           l = "insert" => j.set,
           l = "record" /\ ~j.set => j.new = NoRef
    PROVE  /\ pc' \in [Writer -> PC] /\ job' \in [Writer -> Job]
           /\ pc'[w] = l /\ job'[w] = j
           /\ \A v \in Writer : v # w => pc'[v] = pc[v] /\ job'[v] = job[v]
           /\ Begun'
  <1>1. pc \in [Writer -> PC] /\ job \in [Writer -> Job]
    BY Zenon DEF TypeOK
  <1>2. /\ pc' \in [Writer -> PC] /\ job' \in [Writer -> Job]
        /\ pc'[w] = l /\ job'[w] = j
        /\ \A v \in Writer : v # w => pc'[v] = pc[v] /\ job'[v] = job[v]
    BY <1>1
  <1>3. ASSUME NEW v \in Writer
        PROVE  /\ pc'[v] \in {"insert", "record"} => job'[v].slot \in Slot
               /\ pc'[v] = "insert" => job'[v].set
               /\ pc'[v] = "record" /\ ~job'[v].set => job'[v].new = NoRef
    <2>1. CASE v = w
      BY Zenon, <1>2, <2>1
    <2>2. CASE v # w
      <3>1. pc'[v] = pc[v] /\ job'[v] = job[v]
        BY Zenon, <1>2, <2>2
      <3>. QED  BY Zenon, <3>1 DEF Begun
    <2>. QED  BY Zenon, <2>1, <2>2
  <1>. QED  BY Zenon, <1>2, <1>3 DEF Begun

\* A write of a ref s changes a slot to s, or drops the slot, or leaves it; so
\* does the deletion of a registration.
LEMMA RefsDo ==
    ASSUME TypeOK, NEW c \in Conn, NEW y \in Slot, NEW s \in {NoRef} \cup Secret,
           NEW mine \in BOOLEAN,
           WriteRow(c, s, mine) \/ WriteOverride(y, s, mine)
    PROVE  /\ row' \in [Conn -> BOOLEAN]
           /\ ref' \in [Slot -> {NoRef} \cup Secret]
           /\ own' \in [Slot -> BOOLEAN]
           /\ \A x \in Slot :
                \/ ref'[x] = ref[x] /\ (own'[x] => own[x])
                \/ ref'[x] = NoRef /\ ~own'[x]
                \/ ref'[x] = s /\ (own'[x] => mine)
  <1>1. /\ row \in [Conn -> BOOLEAN]
        /\ ref \in [Slot -> {NoRef} \cup Secret]
        /\ own \in [Slot -> BOOLEAN]
    BY Zenon DEF TypeOK
  <1>2. CASE WriteRow(c, s, mine)
    <2>1. row' \in [Conn -> BOOLEAN]
      BY <1>1, <1>2 DEF WriteRow
    <2>2. ref' \in [Slot -> {NoRef} \cup Secret]
      BY <1>1, <1>2 DEF WriteRow
    <2>3. own' \in [Slot -> BOOLEAN]
      BY <1>1, <1>2 DEF WriteRow
    <2>4. ASSUME NEW x \in Slot
          PROVE  \/ ref'[x] = ref[x] /\ (own'[x] => own[x])
                 \/ ref'[x] = NoRef /\ ~own'[x]
                 \/ ref'[x] = s /\ (own'[x] => mine)
      <3>1. own[x] \in BOOLEAN
        BY Zenon, <1>1
      <3>2. CASE x.conn = c /\ x.agent = None
        BY <1>2, <3>2 DEF WriteRow
      <3>3. CASE ~(x.conn = c /\ x.agent = None)
        BY <1>2, <3>1, <3>3 DEF WriteRow
      <3>. QED  BY Zenon, <3>2, <3>3
    <2>. QED  BY Zenon, <2>1, <2>2, <2>3, <2>4
  <1>3. CASE WriteOverride(y, s, mine)
    BY <1>1, <1>3 DEF WriteOverride
  <1>. QED  BY Zenon, <1>2, <1>3

\* A tombstone is for the secrets in S only.
LEMMA TombstoneDoes ==
    ASSUME TypeOK, NEW S, Tombstone(S)
    PROVE  /\ secret' \in [Secret -> {"none", "live", "dead", "gone"}]
           /\ age' \in [Secret -> Nat]
           /\ \A s \in Secret : /\ s \in S => secret'[s] = "dead"
                                /\ s \notin S => secret'[s] = secret[s] /\ age'[s] = age[s]
  <1>1. /\ secret \in [Secret -> {"none", "live", "dead", "gone"}]
        /\ age \in [Secret -> Nat]
    BY Zenon DEF TypeOK
  <1>. QED  BY <1>1 DEF Tombstone

\* A step that makes no secret pending, touches none that is, and tells nobody
\* of one, keeps them fresh.
LEMMA FreshStays ==
    ASSUME Fresh,
           \A v \in Writer : Pending(v)' =>
             /\ Pending(v) /\ job'[v].new = job[v].new
             /\ secret'[job[v].new] = "live"
             /\ age'[job[v].new] <= Delay
             /\ job[v].new \notin due'
             /\ \A x \in Slot : ref'[x] # job[v].new
             /\ \A u \in Writer : job'[u].old # job[v].new
    PROVE  Fresh'
  <1>. SUFFICES ASSUME NEW w \in Writer, Pending(w)'
                PROVE  /\ job'[w].new # NoRef
                       /\ secret'[job'[w].new] = "live"
                       /\ age'[job'[w].new] <= Delay
                       /\ job'[w].new \notin due'
                       /\ \A x \in Slot : ref'[x] # job'[w].new
                       /\ \A v \in Writer : job'[v].old # job'[w].new
                       /\ \A v \in Writer \ {w} : Pending(v)' => job'[v].new # job'[w].new
    BY Zenon DEF Fresh
  <1>1. /\ Pending(w) /\ job'[w].new = job[w].new
        /\ secret'[job[w].new] = "live"
        /\ age'[job[w].new] <= Delay
        /\ job[w].new \notin due'
        /\ \A x \in Slot : ref'[x] # job[w].new
        /\ \A u \in Writer : job'[u].old # job[w].new
    BY Zenon
  <1>2. ASSUME NEW v \in Writer \ {w}, Pending(v)'
        PROVE  job'[v].new # job'[w].new
    <2>1. v \in Writer
      BY Zenon
    <2>2. Pending(v) /\ job'[v].new = job[v].new
      BY Zenon, <1>2, <2>1
    <2>3. job[v].new # job[w].new
      BY Zenon, <1>1, <2>2 DEF Fresh
    <2>. QED  BY Zenon, <1>1, <2>2, <2>3
  <1>3. job[w].new # NoRef
    BY Zenon, <1>1 DEF Fresh
  <1>4. /\ job'[w].new # NoRef
        /\ secret'[job'[w].new] = "live"
        /\ age'[job'[w].new] <= Delay
        /\ job'[w].new \notin due'
    BY <1>1, <1>3
  <1>5. /\ \A x \in Slot : ref'[x] # job'[w].new
        /\ \A v \in Writer : job'[v].old # job'[w].new
    BY Zenon, <1>1
  <1>. QED  BY Zenon, <1>2, <1>4, <1>5

-----------------------------------------------------------------------------
(***************************************************************************)
(* The calls.                                                              *)
(***************************************************************************)

\* A call that starts holds the ref it has read, which is nobody's pending
\* secret (op_put_credential, op_delete_credential).
LEMMA StartKeeps ==
    ASSUME IInv, NEW w \in Writer, NEW x \in Slot, StartSet(w, x) \/ StartClear(w, x)
    PROVE  IInv'
  <1>0. StoredIsLive /\ TypeOK /\ Begun /\ Issued /\ Fresh /\ Buried
    BY Zenon DEF IInv, StoredIsLive
  <1>1. UNCHANGED <<row, ref, own, secret, age, issued, tick, due, expired>>
    BY Zenon DEF StartSet, StartClear
  <1>2. ref[x] \in {NoRef} \cup Secret
    BY Zenon, <1>0 DEF TypeOK
  <1>3. PICK l \in {"insert", "record"}, b \in BOOLEAN :
          /\ pc' = [pc EXCEPT ![w] = l]
          /\ job' = [job EXCEPT ![w] = [slot |-> x, set |-> b, old |-> ref[x],
                                        new |-> NoRef]]
          /\ l = "insert" => b
          /\ l = "record" => b = FALSE
    <2>1. CASE StartSet(w, x)
      BY <2>1 DEF StartSet, Goto
    <2>2. CASE StartClear(w, x)
      BY <2>2 DEF StartClear, Goto
    <2>. QED  BY Zenon, <2>1, <2>2
  <1>. DEFINE j == [slot |-> x, set |-> b, old |-> ref[x], new |-> NoRef]
  <1>4. j \in Job /\ j.slot = x /\ j.set = b /\ j.old = ref[x] /\ j.new = NoRef
    BY <1>2 DEF Job
  <1>5. job' = [job EXCEPT ![w] = j] /\ pc' = [pc EXCEPT ![w] = l]
    BY Zenon, <1>3
  <1>6. l \in PC
    BY DEF PC
  <1>. HIDE DEF j
  <1>fit. j.slot \in Slot /\ (l = "insert" => j.set) /\ j.new = NoRef
    BY <1>3, <1>4
  <1>7. /\ pc' \in [Writer -> PC] /\ job' \in [Writer -> Job]
        /\ pc'[w] = l /\ job'[w] = j
        /\ \A v \in Writer : v # w => pc'[v] = pc[v] /\ job'[v] = job[v]
        /\ Begun'
    BY Zenon, <1>0, <1>fit, <1>4, <1>5, <1>6, CallMoves
  <1>8. ASSUME NEW v \in Writer, Pending(v)'
        PROVE  Pending(v) /\ job'[v].new = job[v].new
    <2>1. v # w
      BY Zenon, <1>3, <1>4, <1>7, <1>8 DEF Pending
    <2>. QED  BY Zenon, <1>7, <1>8, <2>1 DEF Pending
  <1>9. ASSUME NEW v \in Writer
        PROVE  job'[v].old = job[v].old \/ job'[v].old = ref[x]
    BY Zenon, <1>4, <1>7
  <1>10. ASSUME NEW v \in Writer
         PROVE  job'[v].new = job[v].new \/ job'[v].new = NoRef
    BY Zenon, <1>4, <1>7
  <1>11. Fresh'
    <2>1. ASSUME NEW v \in Writer, Pending(v)'
          PROVE  /\ Pending(v) /\ job'[v].new = job[v].new
                 /\ secret'[job[v].new] = "live"
                 /\ age'[job[v].new] <= Delay
                 /\ job[v].new \notin due'
                 /\ \A y \in Slot : ref'[y] # job[v].new
                 /\ \A u \in Writer : job'[u].old # job[v].new
      BY Zenon, <1>0, <1>1, <1>8, <1>9, <2>1 DEF Fresh
    <2>. QED  BY Zenon, <1>0, <2>1, FreshStays
  <1>12. Issued'
    <2>1. NoRef <= issued
      BY <1>0 DEF TypeOK, NoRef
    <2>2. \A v \in Writer : job'[v].old <= issued /\ job'[v].new <= issued
      BY Zenon, <1>0, <1>9, <1>10, <2>1 DEF Issued
    <2>. QED  BY Zenon, <1>0, <1>1, <2>2 DEF Issued
  <1>13. StoredIsLive' /\ Buried'
    BY Zenon, <1>0, <1>1, <1>7 DEF StoredIsLive, TypeOK, Buried
  <1>. QED  BY Zenon, <1>7, <1>11, <1>12, <1>13 DEF IInv

\* A call that ends with secrets as S was tombstoned: S holds nothing that is
\* in use, and nothing that is pending.
LEMMA EndKeeps ==
    ASSUME IInv, NEW w \in Writer, Done(w),
           UNCHANGED <<row, ref, own, issued, tick, due, expired>>,
           secret' \in [Secret -> {"none", "live", "dead", "gone"}],
           age' \in [Secret -> Nat],
           \A s \in Secret :
             \/ secret'[s] = secret[s] /\ age'[s] = age[s]
             \/ /\ secret[s] = "live" /\ secret'[s] = "dead"
                /\ ~InUse(s) /\ s = job[w].old
    PROVE  IInv'
  <1>0. StoredIsLive /\ TypeOK /\ Begun /\ Issued /\ Fresh /\ Buried
    BY Zenon DEF IInv, StoredIsLive
  <1>1. pc' = [pc EXCEPT ![w] = "idle"] /\ job' = [job EXCEPT ![w] = NoJob]
    BY Zenon DEF Done, Goto
  <1>2. "idle" \in PC /\ "idle" \notin {"insert", "record"} /\ "idle" # "insert" /\ "idle" # "record"
    BY DEF PC
  <1>3. /\ pc' \in [Writer -> PC] /\ job' \in [Writer -> Job]
        /\ pc'[w] = "idle" /\ job'[w] = NoJob
        /\ \A v \in Writer : v # w => pc'[v] = pc[v] /\ job'[v] = job[v]
        /\ Begun'
    BY Zenon, <1>0, <1>1, <1>2, NoJobType, CallMoves
  <1>4. ASSUME NEW v \in Writer, Pending(v)'
        PROVE  Pending(v) /\ job'[v].new = job[v].new
    <2>1. v # w
      BY Zenon, <1>2, <1>3, <1>4 DEF Pending
    <2>. QED  BY Zenon, <1>3, <1>4, <2>1 DEF Pending
  <1>5. ASSUME NEW v \in Writer
        PROVE  /\ job'[v].old = job[v].old \/ job'[v].old = NoRef
               /\ job'[v].new = job[v].new \/ job'[v].new = NoRef
    BY Zenon, <1>3, NoJobType
  <1>6. Fresh'
    <2>1. ASSUME NEW v \in Writer, Pending(v)'
          PROVE  /\ Pending(v) /\ job'[v].new = job[v].new
                 /\ secret'[job[v].new] = "live"
                 /\ age'[job[v].new] <= Delay
                 /\ job[v].new \notin due'
                 /\ \A y \in Slot : ref'[y] # job[v].new
                 /\ \A u \in Writer : job'[u].old # job[v].new
      <3>1. /\ Pending(v) /\ job'[v].new = job[v].new
            /\ job[v].new # NoRef
            /\ secret[job[v].new] = "live"
            /\ age[job[v].new] <= Delay
            /\ job[v].new \notin due
            /\ \A y \in Slot : ref[y] # job[v].new
            /\ \A u \in Writer : job[u].old # job[v].new
        BY Zenon, <1>0, <1>4, <2>1 DEF Fresh
      <3>2. job[v].new \in Secret
        BY Zenon, <1>0, <3>1, JobType
      <3>3. secret'[job[v].new] = secret[job[v].new] /\ age'[job[v].new] = age[job[v].new]
        BY Zenon, <3>1, <3>2
      <3>4. \A u \in Writer : job'[u].old # job[v].new
        BY Zenon, <1>5, <3>1
      <3>. QED  BY <3>1, <3>3, <3>4
    <2>. QED  BY Zenon, <1>0, <2>1, FreshStays
  <1>7. Issued'
    <2>1. NoRef <= issued
      BY <1>0 DEF TypeOK, NoRef
    <2>2. \A v \in Writer : job'[v].old <= issued /\ job'[v].new <= issued
      BY Zenon, <1>0, <1>5, <2>1 DEF Issued
    <2>3. "live" # "none"
      OBVIOUS
    <2>4. \A s \in Secret : secret'[s] # "none" => secret[s] # "none"
      BY Zenon, <2>3
    <2>. QED  BY Zenon, <1>0, <2>2, <2>4 DEF Issued
  <1>8. StoredIsLive'
    <2>1. TypeOK'
      BY Zenon, <1>0, <1>3 DEF TypeOK
    <2>2. ASSUME NEW x \in Slot, own[x]
          PROVE  ref[x] # NoRef /\ secret'[ref[x]] = "live"
      <3>1. ref[x] # NoRef /\ secret[ref[x]] = "live"
        BY Zenon, <1>0, <2>2 DEF StoredIsLive
      <3>2. ref[x] \in Secret
        BY Zenon, <1>0, <3>1 DEF TypeOK
      <3>3. InUse(ref[x])
        BY Zenon DEF InUse
      <3>. QED  BY Zenon, <3>1, <3>2, <3>3
    <2>. QED  BY Zenon, <2>1, <2>2 DEF StoredIsLive
  <1>9. Buried'
    <2>1. \A s \in expired : s \in Secret /\ secret[s] = "dead"
      BY Zenon, <1>0 DEF TypeOK, Buried
    <2>2. "dead" # "live"
      OBVIOUS
    <2>. QED  BY Zenon, <2>1, <2>2 DEF Buried
  <1>. QED  BY Zenon, <1>3, <1>6, <1>7, <1>8, <1>9 DEF IInv

\* The old secret is tombstoned only while nothing refers to it
\* (tombstone_if_unreferenced); a call that fails or is dropped tombstones none.
LEMMA CallEndKeeps ==
    ASSUME IInv, NEW w \in Writer, TombstoneOld(w) \/ DbError(w) \/ Cancel(w)
    PROVE  IInv'
  <1>0. TypeOK
    BY Zenon DEF IInv, StoredIsLive
  <1>1. Done(w) /\ UNCHANGED <<row, ref, own, issued, tick, due, expired>>
    BY Zenon DEF TombstoneOld, DbError, Cancel
  <1>2. CASE UNCHANGED <<secret, age>>
    <2>1. /\ secret' \in [Secret -> {"none", "live", "dead", "gone"}]
          /\ age' \in [Secret -> Nat]
      BY Zenon, <1>0, <1>2 DEF TypeOK
    <2>2. \A s \in Secret : secret'[s] = secret[s] /\ age'[s] = age[s]
      BY Zenon, <1>2
    <2>. QED  BY Zenon, <1>1, <2>1, <2>2, EndKeeps
  <1>3. CASE Tombstone(TombstoneIfUnreferenced(job[w].old))
    <2>. DEFINE S == TombstoneIfUnreferenced(job[w].old)
    <2>1. \A s \in S : secret[s] = "live" /\ ~InUse(s) /\ s = job[w].old
      BY Zenon DEF TombstoneIfUnreferenced, Unreferenced
    <2>. HIDE DEF S
    <2>2. Tombstone(S)
      BY Zenon, <1>3 DEF S
    <2>3. /\ secret' \in [Secret -> {"none", "live", "dead", "gone"}]
          /\ age' \in [Secret -> Nat]
          /\ \A s \in Secret : /\ s \in S => secret'[s] = "dead"
                               /\ s \notin S => secret'[s] = secret[s] /\ age'[s] = age[s]
      BY Zenon, <1>0, <2>2, TombstoneDoes
    <2>4. \A s \in Secret :
            \/ secret'[s] = secret[s] /\ age'[s] = age[s]
            \/ /\ secret[s] = "live" /\ secret'[s] = "dead"
               /\ ~InUse(s) /\ s = job[w].old
      BY Zenon, <2>1, <2>3
    <2>. QED  BY Zenon, <1>1, <2>3, <2>4, EndKeeps
  <1>. QED  BY Zenon, <1>2, <1>3 DEF TombstoneOld, DbError, Cancel

\* A fresh ref is beyond every ref that was handed out, so that nothing but the
\* call knows it (new_secret_ref, insert).
LEMMA InsertKeeps ==
    ASSUME IInv, NEW w \in Writer, Insert(w)
    PROVE  IInv'
  <1>. DEFINE n == issued + 1
              j == [job[w] EXCEPT !.new = n]
  <1>0. StoredIsLive /\ TypeOK /\ Begun /\ Issued /\ Fresh /\ Buried
    BY Zenon DEF IInv, StoredIsLive
  <1>1. /\ secret \in [Secret -> {"none", "live", "dead", "gone"}]
        /\ age \in [Secret -> Nat]
        /\ job \in [Writer -> Job]
        /\ issued \in Nat
    BY Zenon, <1>0, Numbers DEF TypeOK
  <1>2. /\ pc[w] = "insert" /\ issued < MaxSecrets /\ issued' = n
        /\ pc' = [pc EXCEPT ![w] = "record"]
        /\ UNCHANGED <<row, ref, own, tick, due, expired>>
    BY Zenon DEF Insert, Goto
  <1>3. n \in Secret /\ n \in 0..MaxSecrets /\ n # NoRef
    BY Zenon, <1>1, <1>2, Numbers
  <1>4. /\ secret' = [secret EXCEPT ![n] = "live"]
        /\ age' = [age EXCEPT ![n] = 0]
        /\ job' = [job EXCEPT ![w] = j]
    BY <1>1 DEF Insert, NewRef
  <1>5. /\ j \in Job /\ j.new = n /\ j.old = job[w].old
        /\ j.slot = job[w].slot /\ j.set = job[w].set
    BY <1>1, <1>3 DEF Job
  <1>. HIDE DEF j
  <1>6. "record" \in PC /\ "record" # "insert" /\ "insert" # "record"
    BY DEF PC
  <1>7. job[w].slot \in Slot /\ job[w].set
    BY Zenon, <1>0, <1>2 DEF Begun
  <1>8. /\ pc' \in [Writer -> PC] /\ job' \in [Writer -> Job]
        /\ pc'[w] = "record" /\ job'[w] = j
        /\ \A v \in Writer : v # w => pc'[v] = pc[v] /\ job'[v] = job[v]
        /\ Begun'
    BY Zenon, <1>0, <1>2, <1>4, <1>5, <1>6, <1>7, CallMoves
  <1>9. n > issued /\ (\A i \in Nat : i <= issued => i <= n /\ i # n)
    BY <1>1
  <1>10. /\ \A x \in Slot : ref[x] # n
         /\ \A v \in Writer : job[v].old # n /\ job[v].new # n
         /\ \A s \in Secret : secret[s] # "none" => s # n
         /\ n \notin due
    BY <1>1 DEF IInv, Issued
  <1>. HIDE DEF n
  <1>11. /\ secret' \in [Secret -> {"none", "live", "dead", "gone"}]
         /\ age' \in [Secret -> Nat]
         /\ secret'[n] = "live" /\ age'[n] = 0
         /\ \A s \in Secret : s # n => secret'[s] = secret[s] /\ age'[s] = age[s]
    BY <1>1, <1>3, <1>4
  <1>12. \A v \in Writer : job'[v].old = job[v].old
    BY Zenon, <1>5, <1>8
  <1>13. Fresh'
    <2>1. ASSUME NEW v \in Writer, v # w, Pending(v)'
          PROVE  /\ Pending(v) /\ job'[v].new = job[v].new
                 /\ job[v].new # n /\ job[v].new # NoRef
                 /\ secret'[job[v].new] = "live"
                 /\ age'[job[v].new] <= Delay
                 /\ job[v].new \notin due
                 /\ \A x \in Slot : ref[x] # job[v].new
                 /\ \A u \in Writer : job[u].old # job[v].new
                 /\ \A u \in Writer \ {v} : Pending(u) => job[u].new # job[v].new
      <3>1. Pending(v) /\ job'[v].new = job[v].new
        BY Zenon, <1>8, <2>1 DEF Pending
      <3>2. /\ job[v].new # NoRef
            /\ secret[job[v].new] = "live"
            /\ age[job[v].new] <= Delay
            /\ job[v].new \notin due
            /\ \A x \in Slot : ref[x] # job[v].new
            /\ \A u \in Writer : job[u].old # job[v].new
            /\ \A u \in Writer \ {v} : Pending(u) => job[u].new # job[v].new
        BY Zenon, <1>0, <3>1 DEF Fresh
      <3>3. job[v].new \in Secret /\ job[v].new # n
        BY Zenon, <1>0, <1>10, <3>2, JobType
      <3>4. secret'[job[v].new] = secret[job[v].new] /\ age'[job[v].new] = age[job[v].new]
        BY Zenon, <1>11, <3>3
      <3>5. secret'[job[v].new] = "live" /\ age'[job[v].new] <= Delay
        BY <3>2, <3>4
      <3>. QED  BY Zenon, <3>1, <3>2, <3>3, <3>5
    <2>2. ASSUME NEW v \in Writer, Pending(v)'
          PROVE  /\ job'[v].new # NoRef
                 /\ secret'[job'[v].new] = "live"
                 /\ age'[job'[v].new] <= Delay
                 /\ job'[v].new \notin due
                 /\ \A x \in Slot : ref[x] # job'[v].new
                 /\ \A u \in Writer : job'[u].old # job'[v].new
                 /\ \A u \in Writer \ {v} : Pending(u)' => job'[u].new # job'[v].new
      <3>1. CASE v = w
        <4>1. job'[v].new = n
          BY Zenon, <1>5, <1>8, <3>1
        <4>2. age'[n] <= Delay
          BY <1>11, Numbers
        <4>3. \A u \in Writer \ {v} : Pending(u)' => job'[u].new # n
          BY Zenon, <1>8, <1>10, <3>1
        <4>. QED  BY <4>1, <4>2, <4>3, <1>3, <1>10, <1>11, <1>12
      <3>2. CASE v # w
        <4>1. /\ Pending(v) /\ job'[v].new = job[v].new
              /\ job[v].new # n /\ job[v].new # NoRef
              /\ secret'[job[v].new] = "live"
              /\ age'[job[v].new] <= Delay
              /\ job[v].new \notin due
              /\ \A x \in Slot : ref[x] # job[v].new
              /\ \A u \in Writer : job[u].old # job[v].new
              /\ \A u \in Writer \ {v} : Pending(u) => job[u].new # job[v].new
          BY Zenon, <2>1, <2>2, <3>2
        <4>2. ASSUME NEW u \in Writer \ {v}, Pending(u)'
              PROVE  job'[u].new # job[v].new
          <5>1. CASE u = w
            BY Zenon, <1>5, <1>8, <4>1, <5>1
          <5>2. CASE u # w
            BY Zenon, <2>1, <4>1, <4>2, <5>2
          <5>. QED  BY Zenon, <5>1, <5>2
        <4>. QED  BY <4>1, <4>2, <1>12
      <3>. QED  BY Zenon, <3>1, <3>2
    <2>. QED  BY Zenon, <1>2, <2>2 DEF Fresh
  <1>14. Issued'
    <2>1. \A x \in Slot : ref[x] <= n
      <3>1. \A x \in Slot : ref[x] \in Nat
        BY Zenon, <1>0, Numbers DEF TypeOK
      <3>. QED  BY Zenon, <1>0, <1>9, <3>1 DEF Issued
    <2>2. \A v \in Writer : job'[v].old <= n /\ job'[v].new <= n
      <3>1. \A v \in Writer : job[v].old <= n /\ job[v].new <= n
        BY Zenon, <1>0, <1>9, JobType DEF Issued
      <3>2. n <= n
        BY <1>3, Numbers
      <3>. QED  BY Zenon, <1>5, <1>8, <1>12, <3>1, <3>2
    <2>3. \A s \in Secret : secret'[s] # "none" => s <= n
      <3>1. \A s \in Secret : s # n /\ secret'[s] # "none" => s <= n
        BY Zenon, <1>0, <1>9, <1>11, Numbers DEF Issued
      <3>2. n <= n
        BY <1>3, Numbers
      <3>. QED  BY Zenon, <3>1, <3>2
    <2>4. \A s \in due : s <= n
      BY Zenon, <1>0, <1>9, Numbers DEF Issued, TypeOK
    <2>. QED  BY Zenon, <1>2, <2>1, <2>2, <2>3, <2>4 DEF Issued
  <1>15. StoredIsLive'
    <2>1. TypeOK'
      BY Zenon, <1>0, <1>2, <1>3, <1>8, <1>11 DEF TypeOK
    <2>2. ASSUME NEW x \in Slot, own[x]
          PROVE  ref[x] # NoRef /\ secret'[ref[x]] = "live"
      <3>1. ref[x] # NoRef /\ secret[ref[x]] = "live"
        BY Zenon, <1>0, <2>2 DEF StoredIsLive
      <3>2. ref[x] \in Secret
        BY Zenon, <1>0, <3>1 DEF TypeOK
      <3>. QED  BY Zenon, <1>10, <1>11, <3>1, <3>2
    <2>. QED  BY Zenon, <1>2, <2>1, <2>2 DEF StoredIsLive
  <1>16. Buried'
    <2>1. "dead" # "none"
      OBVIOUS
    <2>2. \A s \in expired : s \in Secret /\ secret[s] = "dead" /\ s # n
      BY Zenon, <1>0, <1>10, <2>1 DEF TypeOK, Buried
    <2>. QED  BY Zenon, <1>2, <1>11, <2>2 DEF Buried
  <1>. QED  BY Zenon, <1>8, <1>13, <1>14, <1>15, <1>16 DEF IInv

\* After the write the call holds the old ref only, or nothing (AfterRecord).
LEMMA AfterRecordDoes ==
    ASSUME TypeOK, Begun, NEW w \in Writer, AfterRecord(w) \/ Done(w)
    PROVE  /\ pc' \in [Writer -> PC] /\ job' \in [Writer -> Job]
           /\ ~Pending(w)'
           /\ job'[w].new = NoRef
           /\ job'[w].old = NoRef \/ job'[w].old = job[w].old
           /\ \A v \in Writer : v # w => pc'[v] = pc[v] /\ job'[v] = job[v]
           /\ Begun'
  <1>1. \E l \in {"idle", "tombstone"}, j \in Job :
          /\ pc' = [pc EXCEPT ![w] = l] /\ job' = [job EXCEPT ![w] = j]
          /\ j.set = FALSE /\ j.new = NoRef /\ (j.old = NoRef \/ j.old = job[w].old)
    <2>1. CASE Done(w)
      BY Zenon, <2>1, NoJobType DEF Done, Goto
    <2>2. CASE /\ pc' = [pc EXCEPT ![w] = "tombstone"]
               /\ job' = [job EXCEPT ![w] = [NoJob EXCEPT !.old = job[w].old]]
      <3>. DEFINE j == [NoJob EXCEPT !.old = job[w].old]
      <3>1. job[w].old \in {NoRef} \cup Secret
        BY Zenon, JobType
      <3>2. j \in Job /\ j.set = FALSE /\ j.new = NoRef /\ j.old = job[w].old
        BY <3>1, NoJobType DEF Job
      <3>3. job' = [job EXCEPT ![w] = j] /\ pc' = [pc EXCEPT ![w] = "tombstone"]
        BY Zenon, <2>2
      <3>. HIDE DEF j
      <3>. QED  BY Zenon, <3>2, <3>3
    <2>. QED  BY Zenon, <2>1, <2>2 DEF AfterRecord, Goto
  <1>2. PICK l \in {"idle", "tombstone"}, j \in Job :
          /\ pc' = [pc EXCEPT ![w] = l] /\ job' = [job EXCEPT ![w] = j]
          /\ j.set = FALSE /\ j.new = NoRef /\ (j.old = NoRef \/ j.old = job[w].old)
    BY Zenon, <1>1
  <1>3. l \in PC /\ l \notin {"insert", "record"} /\ l # "insert" /\ l # "record"
    BY DEF PC
  <1>4. /\ pc' \in [Writer -> PC] /\ job' \in [Writer -> Job]
        /\ pc'[w] = l /\ job'[w] = j
        /\ \A v \in Writer : v # w => pc'[v] = pc[v] /\ job'[v] = job[v]
        /\ Begun'
    BY Zenon, <1>2, <1>3, CallMoves
  <1>5. ~Pending(w)'
    BY Zenon, <1>3, <1>4 DEF Pending
  <1>. QED  BY Zenon, <1>2, <1>4, <1>5

\* The recorded ref is the call's own secret, which is live: no sweep and no
\* other call can have taken it (op_put_credential, op_delete_credential).
LEMMA RecordKeeps ==
    ASSUME IInv, NEW w \in Writer, Record(w)
    PROVE  IInv'
  <1>. DEFINE x == job[w].slot
              s == job[w].new
  <1>0. StoredIsLive /\ TypeOK /\ Begun /\ Issued /\ Fresh /\ Buried
    BY Zenon DEF IInv, StoredIsLive
  <1>1. pc[w] = "record" /\ UNCHANGED <<secret, age, issued, tick, due, expired>>
    BY Zenon DEF Record
  <1>2. x \in Slot /\ x.conn \in Conn
    <2>1. x \in Slot
      <3>1. pc[w] \in {"insert", "record"}
        BY Zenon, <1>1
      <3>. QED  BY Zenon, <1>0, <3>1 DEF Begun
    <2>. QED  BY <2>1 DEF Slot
  <1>3. /\ s \in {NoRef} \cup Secret /\ s \in Nat /\ job[w].set \in BOOLEAN
        /\ s <= issued
    BY Zenon, <1>0, JobType DEF Issued
  <1>4. /\ row' \in [Conn -> BOOLEAN]
        /\ ref' \in [Slot -> {NoRef} \cup Secret]
        /\ own' \in [Slot -> BOOLEAN]
        /\ \A y \in Slot :
             \/ ref'[y] = ref[y] /\ (own'[y] => own[y])
             \/ ref'[y] = NoRef /\ ~own'[y]
             \/ ref'[y] = s /\ (own'[y] => job[w].set)
    <2>1. CASE WriteRow(x.conn, s, job[w].set) \/ WriteOverride(x, s, job[w].set)
      <3>1. PICK c \in Conn, z \in Slot, t \in {NoRef} \cup Secret :
              c = x.conn /\ z = x /\ t = s
        BY Zenon, <1>2, <1>3
      <3>2. CASE job[w].set = TRUE
        <4>1. WriteRow(c, t, TRUE) \/ WriteOverride(z, t, TRUE)
          BY Zenon, <2>1, <3>1, <3>2
        <4>2. TRUE \in BOOLEAN
          BY Zenon
        <4>3. /\ row' \in [Conn -> BOOLEAN]
              /\ ref' \in [Slot -> {NoRef} \cup Secret]
              /\ own' \in [Slot -> BOOLEAN]
              /\ \A y \in Slot :
                   \/ ref'[y] = ref[y] /\ (own'[y] => own[y])
                   \/ ref'[y] = NoRef /\ ~own'[y]
                   \/ ref'[y] = t /\ (own'[y] => TRUE)
          BY Zenon, <1>0, <4>1, <4>2, RefsDo
        <4>. QED  BY Zenon, <3>1, <3>2, <4>3
      <3>3. CASE job[w].set = FALSE
        <4>1. WriteRow(c, t, FALSE) \/ WriteOverride(z, t, FALSE)
          BY Zenon, <2>1, <3>1, <3>3
        <4>2. FALSE \in BOOLEAN
          BY Zenon
        <4>3. /\ row' \in [Conn -> BOOLEAN]
              /\ ref' \in [Slot -> {NoRef} \cup Secret]
              /\ own' \in [Slot -> BOOLEAN]
              /\ \A y \in Slot :
                   \/ ref'[y] = ref[y] /\ (own'[y] => own[y])
                   \/ ref'[y] = NoRef /\ ~own'[y]
                   \/ ref'[y] = t /\ (own'[y] => FALSE)
          BY Zenon, <1>0, <4>1, <4>2, RefsDo
        <4>. QED  BY Zenon, <3>1, <3>3, <4>3
      <3>. QED  BY Zenon, <1>3, <3>2, <3>3
    <2>2. CASE UNCHANGED <<row, ref, own>>
      BY Zenon, <1>0, <2>2 DEF TypeOK
    <2>. QED  BY Zenon, <2>1, <2>2 DEF Record
  <1>5. /\ pc' \in [Writer -> PC] /\ job' \in [Writer -> Job]
        /\ ~Pending(w)'
        /\ job'[w].new = NoRef
        /\ job'[w].old = NoRef \/ job'[w].old = job[w].old
        /\ \A v \in Writer : v # w => pc'[v] = pc[v] /\ job'[v] = job[v]
        /\ Begun'
    <2>1. AfterRecord(w) \/ Done(w)
      BY Zenon DEF Record
    <2>. QED  BY Zenon, <1>0, <2>1, AfterRecordDoes
  <1>6. job[w].set => s # NoRef /\ secret[s] = "live"
    BY Zenon, <1>0, <1>1 DEF Fresh, Pending
  <1>7. ~job[w].set => s = NoRef
    BY Zenon, <1>0, <1>1 DEF Begun
  <1>8. Fresh'
    <2>1. ASSUME NEW v \in Writer, Pending(v)'
          PROVE  /\ Pending(v) /\ job'[v].new = job[v].new
                 /\ secret'[job[v].new] = "live"
                 /\ age'[job[v].new] <= Delay
                 /\ job[v].new \notin due'
                 /\ \A y \in Slot : ref'[y] # job[v].new
                 /\ \A u \in Writer : job'[u].old # job[v].new
      <3>1. v # w
        BY Zenon, <1>5, <2>1
      <3>2. Pending(v) /\ job'[v].new = job[v].new
        BY Zenon, <1>5, <2>1, <3>1 DEF Pending
      <3>3. /\ job[v].new # NoRef
            /\ secret[job[v].new] = "live"
            /\ age[job[v].new] <= Delay
            /\ job[v].new \notin due
            /\ \A y \in Slot : ref[y] # job[v].new
            /\ \A u \in Writer : job[u].old # job[v].new
            /\ \A u \in Writer \ {v} : Pending(u) => job[u].new # job[v].new
        BY Zenon, <1>0, <3>2 DEF Fresh
      <3>4. s # job[v].new
        <4>1. CASE job[w].set
          <5>1. Pending(w) /\ w \in Writer \ {v}
            BY Zenon, <1>1, <3>1, <4>1 DEF Pending
          <5>. QED  BY Zenon, <3>3, <5>1
        <4>2. CASE ~job[w].set
          BY Zenon, <1>7, <3>3, <4>2
        <4>. QED  BY Zenon, <4>1, <4>2
      <3>5. \A y \in Slot : ref'[y] # job[v].new
        BY Zenon, <1>4, <3>3, <3>4
      <3>6. \A u \in Writer : job'[u].old # job[v].new
        BY Zenon, <1>5, <3>3
      <3>7. /\ secret'[job[v].new] = "live"
            /\ age'[job[v].new] <= Delay
            /\ job[v].new \notin due'
        BY Zenon, <1>1, <3>3
      <3>. QED  BY Zenon, <3>2, <3>5, <3>6, <3>7
    <2>. QED  BY Zenon, <1>0, <2>1, FreshStays
  <1>9. Issued'
    <2>1. NoRef <= issued
      BY <1>0 DEF TypeOK, NoRef
    <2>2. \A v \in Writer : job'[v].old <= issued /\ job'[v].new <= issued
      BY Zenon, <1>0, <1>5, <2>1 DEF Issued
    <2>3. \A y \in Slot : ref'[y] <= issued
      BY Zenon, <1>0, <1>3, <1>4, <2>1 DEF Issued
    <2>. QED  BY Zenon, <1>0, <1>1, <2>2, <2>3 DEF Issued
  <1>10. StoredIsLive'
    <2>1. TypeOK'
      BY Zenon, <1>0, <1>1, <1>4, <1>5 DEF TypeOK
    <2>2. ASSUME NEW y \in Slot, own'[y]
          PROVE  ref'[y] # NoRef /\ secret[ref'[y]] = "live"
      <3>1. CASE ref'[y] = ref[y] /\ (own'[y] => own[y])
        BY Zenon, <1>0, <2>2, <3>1 DEF StoredIsLive
      <3>2. CASE ref'[y] = s /\ (own'[y] => job[w].set)
        BY Zenon, <1>6, <2>2, <3>2
      <3>. QED  BY Zenon, <1>4, <2>2, <3>1, <3>2
    <2>. QED  BY Zenon, <1>1, <2>1, <2>2 DEF StoredIsLive
  <1>11. Buried'
    BY Zenon, <1>0, <1>1 DEF Buried
  <1>. QED  BY Zenon, <1>5, <1>8, <1>9, <1>10, <1>11 DEF IInv

-----------------------------------------------------------------------------
(***************************************************************************)
(* The other writes, the sweeper and the clock.                            *)
(***************************************************************************)

\* A write that bypasses the store can only spread refs that are in use: it
\* cannot name a secret that a call is about to record (op_put, op_delete).
LEMMA BypassKeeps ==
    ASSUME IInv, NEW c \in Conn, NEW y \in Slot, NEW s \in {NoRef} \cup Secret,
           PutAuth(c, s) \/ SetAuth(y, s) \/ DeleteRow(c)
    PROVE  IInv'
  <1>0. StoredIsLive /\ TypeOK /\ Begun /\ Issued /\ Fresh /\ Buried
    BY Zenon DEF IInv, StoredIsLive
  <1>1. UNCHANGED <<secret, age, issued, pc, job, tick, due, expired>>
    BY Zenon DEF PutAuth, SetAuth, DeleteRow
  <1>2. /\ row' \in [Conn -> BOOLEAN]
        /\ ref' \in [Slot -> {NoRef} \cup Secret]
        /\ own' \in [Slot -> BOOLEAN]
        /\ \A x \in Slot :
             /\ own'[x] => own[x] /\ ref'[x] = ref[x]
             /\ ref'[x] = NoRef \/ InUse(ref'[x])
    <2>1. \A x \in Slot : InUse(ref[x])
      BY Zenon DEF InUse
    <2>2. CASE PutAuth(c, s) \/ SetAuth(y, s)
      <3>1. /\ s = NoRef \/ InUse(s)
            /\ WriteRow(c, s, FALSE) \/ WriteOverride(y, s, FALSE)
        BY Zenon, <2>2 DEF PutAuth, SetAuth
      <3>2. FALSE \in BOOLEAN
        BY Zenon
      <3>3. /\ row' \in [Conn -> BOOLEAN]
            /\ ref' \in [Slot -> {NoRef} \cup Secret]
            /\ own' \in [Slot -> BOOLEAN]
            /\ \A x \in Slot :
                 \/ ref'[x] = ref[x] /\ (own'[x] => own[x])
                 \/ ref'[x] = NoRef /\ ~own'[x]
                 \/ ref'[x] = s /\ (own'[x] => FALSE)
        BY Zenon, <1>0, <3>1, <3>2, RefsDo
      <3>. QED  BY Zenon, <2>1, <3>1, <3>3
    <2>3. CASE DeleteRow(c)
      <3>1. /\ row \in [Conn -> BOOLEAN]
            /\ ref \in [Slot -> {NoRef} \cup Secret]
            /\ own \in [Slot -> BOOLEAN]
        BY Zenon, <1>0 DEF TypeOK
      <3>2. /\ row' = [row EXCEPT ![c] = FALSE]
            /\ ref' = [x \in Slot |-> IF x.conn = c THEN NoRef ELSE ref[x]]
            /\ own' = [x \in Slot |-> x.conn # c /\ own[x]]
        BY Zenon, <2>3 DEF DeleteRow
      <3>3. /\ row' \in [Conn -> BOOLEAN]
            /\ ref' \in [Slot -> {NoRef} \cup Secret]
            /\ own' \in [Slot -> BOOLEAN]
        BY <3>1, <3>2
      <3>4. \A x \in Slot : /\ own'[x] => own[x] /\ ref'[x] = ref[x]
                            /\ ref'[x] = NoRef \/ ref'[x] = ref[x]
        BY <3>2
      <3>. QED  BY Zenon, <2>1, <3>3, <3>4
    <2>. QED  BY Zenon, <2>2, <2>3
  <1>3. Fresh'
    <2>1. ASSUME NEW v \in Writer, Pending(v)'
          PROVE  /\ Pending(v) /\ job'[v].new = job[v].new
                 /\ secret'[job[v].new] = "live"
                 /\ age'[job[v].new] <= Delay
                 /\ job[v].new \notin due'
                 /\ \A x \in Slot : ref'[x] # job[v].new
                 /\ \A u \in Writer : job'[u].old # job[v].new
      <3>1. Pending(v)
        BY Zenon, <1>1, <2>1 DEF Pending
      <3>2. job[v].new # NoRef /\ ~InUse(job[v].new)
        BY Zenon, <1>0, <3>1 DEF Fresh, InUse
      <3>3. \A x \in Slot : ref'[x] # job[v].new
        BY Zenon, <1>2, <3>2
      <3>. QED  BY Zenon, <1>0, <1>1, <3>1, <3>3 DEF Fresh
    <2>. QED  BY Zenon, <1>0, <2>1, FreshStays
  <1>4. Issued'
    <2>1. NoRef <= issued
      BY <1>0 DEF TypeOK, NoRef
    <2>2. \A x \in Slot : ref'[x] <= issued
      BY Zenon, <1>0, <1>2, <2>1 DEF Issued, InUse
    <2>. QED  BY Zenon, <1>0, <1>1, <2>2 DEF Issued
  <1>5. StoredIsLive'
    <2>1. TypeOK'
      BY Zenon, <1>0, <1>1, <1>2 DEF TypeOK
    <2>. QED  BY Zenon, <1>0, <1>1, <1>2, <2>1 DEF StoredIsLive
  <1>6. Begun' /\ Buried'
    BY Zenon, <1>0, <1>1 DEF Begun, Buried
  <1>. QED  BY Zenon, <1>3, <1>4, <1>5, <1>6 DEF IInv

\* A step that leaves refs and calls alone, and takes no secret that is in use or
\* pending, keeps the invariant.
LEMMA SweepKeeps ==
    ASSUME IInv, UNCHANGED <<row, ref, own, issued, pc, job>>,
           secret' \in [Secret -> {"none", "live", "dead", "gone"}],
           age' \in [Secret -> Nat],
           tick' \in {"idle", "collect", "purge"},
           due' \subseteq Secret, expired' \subseteq Secret,
           \A s \in Secret : secret[s] = "none" => secret'[s] = "none",
           \A s \in Secret : secret[s] = "live" /\ InUse(s) => secret'[s] = "live",
           \A s \in due' : s <= issued,
           \A s \in expired' : secret'[s] = "dead",
           \A v \in Writer : Pending(v) => /\ secret'[job[v].new] = "live"
                                           /\ age'[job[v].new] <= Delay
                                           /\ job[v].new \notin due'
    PROVE  IInv'
  <1>0. StoredIsLive /\ TypeOK /\ Begun /\ Issued /\ Fresh
    BY Zenon DEF IInv, StoredIsLive
  <1>1. Fresh'
    <2>1. ASSUME NEW v \in Writer, Pending(v)'
          PROVE  /\ Pending(v) /\ job'[v].new = job[v].new
                 /\ secret'[job[v].new] = "live"
                 /\ age'[job[v].new] <= Delay
                 /\ job[v].new \notin due'
                 /\ \A x \in Slot : ref'[x] # job[v].new
                 /\ \A u \in Writer : job'[u].old # job[v].new
      <3>1. Pending(v)
        BY Zenon, <2>1 DEF Pending
      <3>2. /\ \A x \in Slot : ref[x] # job[v].new
            /\ \A u \in Writer : job[u].old # job[v].new
        BY Zenon, <1>0, <3>1 DEF Fresh
      <3>. QED  BY Zenon, <3>1, <3>2
    <2>. QED  BY Zenon, <1>0, <2>1, FreshStays
  <1>2. Issued'
    BY Zenon, <1>0 DEF Issued
  <1>3. StoredIsLive'
    <2>1. TypeOK'
      BY Zenon, <1>0 DEF TypeOK
    <2>2. ASSUME NEW x \in Slot, own[x]
          PROVE  ref[x] # NoRef /\ secret'[ref[x]] = "live"
      <3>1. ref[x] # NoRef /\ secret[ref[x]] = "live" /\ InUse(ref[x])
        BY Zenon, <1>0, <2>2 DEF StoredIsLive, InUse
      <3>2. ref[x] \in Secret
        BY Zenon, <1>0, <3>1 DEF TypeOK
      <3>. QED  BY Zenon, <3>1, <3>2
    <2>. QED  BY Zenon, <2>1, <2>2 DEF StoredIsLive
  <1>4. Begun' /\ Buried'
    BY Zenon, <1>0 DEF Begun, Buried
  <1>. QED  BY Zenon, <1>1, <1>2, <1>3, <1>4 DEF IInv

\* What every sweep starts from.
LEMMA Facts ==
    ASSUME IInv
    PROVE  /\ secret \in [Secret -> {"none", "live", "dead", "gone"}]
           /\ age \in [Secret -> Nat]
           /\ tick \in {"idle", "collect", "purge"}
           /\ due \subseteq Secret /\ expired \subseteq Secret
           /\ issued \in Nat
           /\ \A s \in Secret : secret[s] # "none" => s <= issued
           /\ \A s \in due : s <= issued
           /\ \A s \in expired : secret[s] = "dead"
           /\ \A v \in Writer : Pending(v) =>
                /\ job[v].new \in Secret
                /\ secret[job[v].new] = "live"
                /\ age[job[v].new] <= Delay
                /\ job[v].new \notin due
  <1>0. TypeOK /\ Issued /\ Fresh /\ Buried
    BY Zenon DEF IInv, StoredIsLive
  <1>1. /\ secret \in [Secret -> {"none", "live", "dead", "gone"}]
        /\ age \in [Secret -> Nat]
        /\ tick \in {"idle", "collect", "purge"}
        /\ due \subseteq Secret /\ expired \subseteq Secret
        /\ issued \in Nat
    BY Zenon, <1>0, Numbers DEF TypeOK
  <1>2. /\ \A s \in Secret : secret[s] # "none" => s <= issued
        /\ \A s \in due : s <= issued
        /\ \A s \in expired : secret[s] = "dead"
    BY Zenon, <1>0 DEF Issued, Buried
  <1>3. ASSUME NEW v \in Writer, Pending(v)
        PROVE  /\ job[v].new \in Secret
               /\ secret[job[v].new] = "live"
               /\ age[job[v].new] <= Delay
               /\ job[v].new \notin due
    BY Zenon, <1>0, <1>3, JobType DEF Fresh
  <1>. QED  BY Zenon, <1>1, <1>2, <1>3

\* The grace covers the time from insert to record, so that no sweep finds a
\* pending secret overdue (credential_store_sweeper).
LEMMA TickKeeps ==
    ASSUME IInv, Tick
    PROVE  IInv'
  <1>1. /\ tick' = "collect"
        /\ due' = {s \in Secret : secret[s] = "live" /\ Overdue(s)}
        /\ expired' = {s \in Secret : secret[s] = "dead" /\ age[s] > Retention}
        /\ UNCHANGED <<row, ref, own, secret, age, issued, pc, job>>
    BY Zenon DEF Tick
  <1>2. due' \subseteq Secret /\ expired' \subseteq Secret
    BY Zenon, <1>1
  <1>3. \A s \in due' : s <= issued
    BY <1>1, Facts
  <1>4. \A s \in expired' : secret'[s] = "dead"
    BY Zenon, <1>1
  <1>5. ASSUME NEW v \in Writer, Pending(v)
        PROVE  job[v].new \notin due'
    <2>1. job[v].new \in Secret /\ age[job[v].new] <= Delay
      BY Zenon, <1>5, Facts
    <2>2. age[job[v].new] \in Nat
      BY Zenon, <2>1, Facts
    <2>3. ~(age[job[v].new] > Grace)
      BY <2>1, <2>2, Numbers
    <2>. QED  BY Zenon, <1>1, <2>3 DEF Overdue
  <1>6. "collect" \in {"idle", "collect", "purge"}
    OBVIOUS
  <1>. QED  BY Zenon, <1>1, <1>2, <1>3, <1>4, <1>5, <1>6, Facts, SweepKeeps

\* Only what is unreferenced and was overdue is tombstoned
\* (tombstone_unreferenced).
LEMMA CollectKeeps ==
    ASSUME IInv, Collect
    PROVE  IInv'
  <1>. DEFINE S == {s \in due : secret[s] = "live" /\ Unreferenced(s)}
  <1>1. /\ tick' = "purge" /\ due' = {} /\ Tombstone(S)
        /\ UNCHANGED <<row, ref, own, issued, pc, job, expired>>
    BY Zenon DEF Collect
  <1>2. \A s \in S : s \in due /\ secret[s] = "live" /\ ~InUse(s)
    BY Zenon DEF Unreferenced
  <1>. HIDE DEF S
  <1>3. /\ secret' \in [Secret -> {"none", "live", "dead", "gone"}]
        /\ age' \in [Secret -> Nat]
        /\ \A s \in Secret : /\ s \in S => secret'[s] = "dead"
                             /\ s \notin S => secret'[s] = secret[s] /\ age'[s] = age[s]
    <2>1. TypeOK
      BY Zenon DEF IInv, StoredIsLive
    <2>. QED  BY Zenon, <1>1, <2>1, TombstoneDoes
  <1>4. "live" # "none" /\ "live" # "dead" /\ "purge" \in {"idle", "collect", "purge"}
    OBVIOUS
  <1>5. \A s \in Secret : secret[s] = "none" => secret'[s] = "none"
    BY Zenon, <1>2, <1>3, <1>4
  <1>6. \A s \in Secret : secret[s] = "live" /\ InUse(s) => secret'[s] = "live"
    BY Zenon, <1>2, <1>3
  <1>7. \A s \in expired' : secret'[s] = "dead"
    BY Zenon, <1>1, <1>2, <1>3, <1>4, Facts
  <1>8. \A v \in Writer : Pending(v) => /\ secret'[job[v].new] = "live"
                                        /\ age'[job[v].new] <= Delay
                                        /\ job[v].new \notin due'
    <2>. SUFFICES ASSUME NEW v \in Writer, Pending(v)
                  PROVE  /\ secret'[job[v].new] = "live"
                         /\ age'[job[v].new] <= Delay
                         /\ job[v].new \notin due'
      BY Zenon
    <2>1. /\ job[v].new \in Secret /\ job[v].new \notin due
          /\ secret[job[v].new] = "live" /\ age[job[v].new] <= Delay
      BY Zenon, Facts
    <2>2. secret'[job[v].new] = secret[job[v].new] /\ age'[job[v].new] = age[job[v].new]
      BY Zenon, <1>2, <1>3, <2>1
    <2>. QED  BY <1>1, <2>1, <2>2
  <1>9. /\ due' \subseteq Secret /\ expired' \subseteq Secret
        /\ tick' \in {"idle", "collect", "purge"}
        /\ \A s \in due' : s <= issued
    BY <1>1, Facts
  <1>. QED  BY Zenon, <1>1, <1>3, <1>5, <1>6, <1>7, <1>8, <1>9, SweepKeeps

\* Only tombstoned rows are removed (sweep).
LEMMA PurgeKeeps ==
    ASSUME IInv, Purge
    PROVE  IInv'
  <1>1. /\ tick' = "idle" /\ expired' = {}
        /\ secret' = [s \in Secret |-> IF s \in expired THEN "gone" ELSE secret[s]]
        /\ age' = [s \in Secret |-> IF s \in expired THEN 0 ELSE age[s]]
        /\ UNCHANGED <<row, ref, own, issued, pc, job, due>>
    BY Zenon DEF Purge
  <1>2. /\ secret \in [Secret -> {"none", "live", "dead", "gone"}]
        /\ age \in [Secret -> Nat]
        /\ \A s \in expired : secret[s] = "dead"
    BY Zenon, Facts
  <1>3. /\ secret' \in [Secret -> {"none", "live", "dead", "gone"}]
        /\ age' \in [Secret -> Nat]
        /\ \A s \in Secret : s \notin expired => secret'[s] = secret[s] /\ age'[s] = age[s]
    BY <1>1, <1>2
  <1>4. \A s \in expired : secret[s] # "none" /\ secret[s] # "live"
    BY <1>2
  <1>5. \A s \in Secret : secret[s] = "none" => secret'[s] = "none"
    BY Zenon, <1>3, <1>4
  <1>6. \A s \in Secret : secret[s] = "live" /\ InUse(s) => secret'[s] = "live"
    BY Zenon, <1>3, <1>4
  <1>7. \A v \in Writer : Pending(v) => /\ secret'[job[v].new] = "live"
                                        /\ age'[job[v].new] <= Delay
                                        /\ job[v].new \notin due'
    <2>. SUFFICES ASSUME NEW v \in Writer, Pending(v)
                  PROVE  /\ secret'[job[v].new] = "live"
                         /\ age'[job[v].new] <= Delay
                         /\ job[v].new \notin due'
      BY Zenon
    <2>1. /\ job[v].new \in Secret /\ job[v].new \notin due
          /\ secret[job[v].new] = "live" /\ age[job[v].new] <= Delay
      BY Zenon, Facts
    <2>2. secret'[job[v].new] = secret[job[v].new] /\ age'[job[v].new] = age[job[v].new]
      BY Zenon, <1>3, <1>4, <2>1
    <2>3. due' = due
      BY Zenon, <1>1
    <2>. QED  BY <2>1, <2>2, <2>3
  <1>8. /\ due' \subseteq Secret /\ \A s \in due' : s <= issued
    BY Zenon, <1>1, Facts
  <1>9. /\ expired' \subseteq Secret /\ (\A s \in expired' : secret'[s] = "dead")
        /\ tick' \in {"idle", "collect", "purge"}
        /\ UNCHANGED <<row, ref, own, issued, pc, job>>
    BY <1>1
  <1>. QED  BY Zenon, <1>3, <1>5, <1>6, <1>7, <1>8, <1>9, SweepKeeps

\* A sweep that fails changes no secret.
LEMMA SweepErrorKeeps ==
    ASSUME IInv, SweepError
    PROVE  IInv'
  <1>1. UNCHANGED <<row, ref, own, secret, age, issued, pc, job>>
    BY Zenon DEF SweepError
  <1>2. /\ due' \subseteq due /\ expired' \subseteq expired
        /\ tick' \in {"idle", "collect", "purge"}
    BY DEF SweepError
  <1>. QED  BY Zenon, <1>1, <1>2, Facts, SweepKeeps

\* A second passes only while no pending secret would outlive the delay.
LEMMA AdvanceKeeps ==
    ASSUME IInv, Advance
    PROVE  IInv'
  <1>1. /\ UNCHANGED <<row, ref, own, secret, issued, pc, job, tick, due, expired>>
        /\ age' = [s \in Secret |->
                     IF secret[s] \in {"live", "dead"} /\ age[s] < MaxAge(s)
                     THEN age[s] + 1 ELSE age[s]]
        /\ \A w \in Writer :
             pc[w] = "record" /\ job[w].new # NoRef => age[job[w].new] < Delay
    BY Zenon DEF Advance
  <1>2. /\ age \in [Secret -> Nat]
    BY Zenon, Facts
  <1>3. /\ age' \in [Secret -> Nat]
        /\ \A s \in Secret : age'[s] = age[s] \/ age'[s] = age[s] + 1
    BY <1>1, <1>2
  <1>4. \A v \in Writer : Pending(v) => /\ secret'[job[v].new] = "live"
                                        /\ age'[job[v].new] <= Delay
                                        /\ job[v].new \notin due'
    <2>. SUFFICES ASSUME NEW v \in Writer, Pending(v)
                  PROVE  /\ secret'[job[v].new] = "live"
                         /\ age'[job[v].new] <= Delay
                         /\ job[v].new \notin due'
      BY Zenon
    <2>1. /\ job[v].new \in Secret /\ job[v].new \notin due
          /\ secret[job[v].new] = "live"
      BY Zenon, Facts
    <2>2. age[job[v].new] < Delay
      BY Zenon, <1>1, <2>1, Numbers DEF Pending
    <2>3. age'[job[v].new] <= Delay
      <3>. DEFINE i == age[job[v].new]
                  k == age'[job[v].new]
      <3>1. i \in Nat /\ (k = i \/ k = i + 1) /\ i < Delay
        BY Zenon, <1>2, <1>3, <2>1, <2>2
      <3>. HIDE DEF i, k
      <3>2. k <= Delay
        BY <3>1, Numbers
      <3>. QED  BY Zenon, <3>2 DEF k
    <2>. QED  BY Zenon, <1>1, <2>1, <2>3
  <1>. QED  BY Zenon, <1>1, <1>3, <1>4, Facts, SweepKeeps

-----------------------------------------------------------------------------
(***************************************************************************)
(* The invariant, and what follows from it.                                *)
(***************************************************************************)

\* The store is empty at first.
LEMMA InitInv ==
    ASSUME Init
    PROVE  IInv
  <1>1. /\ row = [c \in Conn |-> FALSE]
        /\ ref = [x \in Slot |-> NoRef]
        /\ own = [x \in Slot |-> FALSE]
        /\ secret = [s \in Secret |-> "none"]
        /\ age = [s \in Secret |-> 0]
        /\ issued = 0 /\ tick = "idle" /\ due = {} /\ expired = {}
        /\ pc = [w \in Writer |-> "idle"]
        /\ job = [w \in Writer |-> NoJob]
    BY Zenon DEF Init
  <1>2. TypeOK
    <2>1. issued \in 0..MaxSecrets
      BY <1>1, NumbersAssumption
    <2>2. "idle" \in PC
      BY DEF PC
    <2>. QED  BY <1>1, <2>1, <2>2, NoJobType DEF TypeOK
  <1>3. StoredIsLive
    BY <1>1, <1>2 DEF StoredIsLive
  <1>4. Begun /\ Fresh /\ Buried
    BY <1>1 DEF Begun, Fresh, Pending, Buried
  <1>5. Issued
    <2>1. \A w \in Writer : job[w].old = NoRef /\ job[w].new = NoRef
      BY Zenon, <1>1, NoJobType
    <2>. QED  BY <1>1, <2>1 DEF Issued, NoRef
  <1>. QED  BY Zenon, <1>3, <1>4, <1>5 DEF IInv

\* Every step keeps the invariant.
LEMMA StepInv ==
    ASSUME IInv, [Next]_vars
    PROVE  IInv'
  <1>1. CASE \E w \in Writer, x \in Slot : StartSet(w, x) \/ StartClear(w, x)
    BY Zenon, <1>1, StartKeeps
  <1>2. CASE \E w \in Writer : Call(w) \/ DbError(w) \/ Cancel(w)
    BY Zenon, <1>2, InsertKeeps, RecordKeeps, CallEndKeeps DEF Call
  <1>3. CASE \E c \in Conn, s \in {NoRef} \cup Secret : PutAuth(c, s)
    <2>1. PICK c \in Conn, s \in {NoRef} \cup Secret : PutAuth(c, s)
      BY Zenon, <1>3
    <2>2. [agent |-> None, conn |-> c] \in Slot
      BY DEF Slot
    <2>. QED  BY Zenon, <2>1, <2>2, BypassKeeps
  <1>4. CASE \E x \in Slot, s \in {NoRef} \cup Secret : SetAuth(x, s)
    <2>1. PICK x \in Slot, s \in {NoRef} \cup Secret : SetAuth(x, s)
      BY Zenon, <1>4
    <2>2. x.conn \in Conn
      BY DEF Slot
    <2>. QED  BY Zenon, <2>1, <2>2, BypassKeeps
  <1>5. CASE \E c \in Conn : DeleteRow(c)
    <2>1. PICK c \in Conn : DeleteRow(c)
      BY Zenon, <1>5
    <2>2. [agent |-> None, conn |-> c] \in Slot
      BY DEF Slot
    <2>. QED  BY Zenon, <2>1, <2>2, BypassKeeps
  <1>6. CASE Tick \/ Collect \/ Purge \/ SweepError \/ Advance
    BY Zenon, <1>6, TickKeeps, CollectKeeps, PurgeKeeps, SweepErrorKeeps, AdvanceKeeps
  <1>7. CASE UNCHANGED vars
    BY Zenon, <1>7 DEF vars, IInv, StoredIsLive, TypeOK, Begun, Issued, Fresh, Pending,
                       Buried
  <1>. QED  BY Zenon, <1>1, <1>2, <1>3, <1>4, <1>5, <1>6, <1>7 DEF Next

\* In every reachable state refs are handed out in order, pending secrets are
\* known to their call alone, and the sweeper only holds what it may take.
THEOREM Invariant == Spec => []IInv
  <1>1. Init => IInv
    BY InitInv
  <1>2. IInv /\ [Next]_vars => IInv'
    BY StepInv
  <1>. QED  BY <1>1, <1>2, PTL DEF Spec

\* A stored value can be resolved for as long as something refers to it, for any
\* number of calls and any grace that covers a call (op_put_credential,
\* credential_store_sweeper).
THEOREM StoredStays == Spec => []StoredIsLive
  <1>1. IInv => StoredIsLive
    BY Zenon DEF IInv
  <1>. QED  BY <1>1, Invariant, PTL

\* No step invalidates a value that is still in use (tombstone_if_unreferenced,
\* tombstone_unreferenced, sweep).
THEOREM SharedStays == Spec => SharedSurvives
  <1>1. IInv /\ [Next]_vars => [KeepsShared]_vars
    <2>. SUFFICES ASSUME IInv, Next, NEW s \in Secret, secret[s] = "live", InUse(s)
                  PROVE  secret'[s] = "live"
      BY Zenon DEF KeepsShared
    <2>0. TypeOK
      BY Zenon DEF IInv, StoredIsLive
    <2>1. ASSUME NEW w \in Writer, Insert(w)
          PROVE  secret'[s] = "live"
      BY <2>0, <2>1 DEF Insert, TypeOK
    <2>2. ASSUME NEW S, Tombstone(S), \A i \in S : ~InUse(i)
          PROVE  secret'[s] = "live"
      BY Zenon, <2>0, <2>2, TombstoneDoes
    <2>3. ASSUME NEW w \in Writer, TombstoneOld(w)
          PROVE  secret'[s] = "live"
      <3>1. \A i \in TombstoneIfUnreferenced(job[w].old) : ~InUse(i)
        BY Zenon DEF TombstoneIfUnreferenced, Unreferenced
      <3>. QED  BY Zenon, <2>2, <2>3, <3>1 DEF TombstoneOld
    <2>4. ASSUME Collect
          PROVE  secret'[s] = "live"
      <3>1. \A i \in {j \in due : secret[j] = "live" /\ Unreferenced(j)} : ~InUse(i)
        BY Zenon DEF Unreferenced
      <3>. QED  BY Zenon, <2>2, <2>4, <3>1 DEF Collect
    <2>5. ASSUME Purge
          PROVE  secret'[s] = "live"
      <3>1. s \notin expired
        BY Facts
      <3>. QED  BY <2>5, <3>1 DEF Purge
    <2>6. \/ secret' = secret
          \/ \E w \in Writer : Insert(w) \/ TombstoneOld(w)
          \/ Collect \/ Purge
      BY Zenon DEF Next, StartSet, StartClear, Call, Record, DbError, Cancel, PutAuth,
                   SetAuth, DeleteRow, Tick, SweepError, Advance
    <2>. QED  BY Zenon, <2>1, <2>3, <2>4, <2>5, <2>6
  <1>. QED  BY <1>1, Invariant, PTL DEF Spec, SharedSurvives

=============================================================================
