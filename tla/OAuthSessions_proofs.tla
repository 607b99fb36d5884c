----------------------- MODULE OAuthSessions_proofs ------------------------
(***************************************************************************)
(* Proofs about OAuthSessions, for every set of sessions, agents and       *)
(* workers, every margin and lifetime, and every kind of fault; what only  *)
(* holds without faults is at the end.                                     *)
(***************************************************************************)
EXTENDS OAuthSessions, TLAPS

(***************************************************************************)
(* The part of the inductive invariant about the lock.                     *)
(***************************************************************************)

\* A worker that waits for a lock or holds one has a session to work on.
HasKey == \A w \in Worker : pc[w] \notin {"idle", "next"} => job[w].key \in Key

\* A worker in its critical section holds that session's lock.
Holds == \A w \in Worker : pc[w] \in Critical => lock[job[w].key] = w

LockInv == TypeOK /\ HasKey /\ Holds

-----------------------------------------------------------------------------
(***************************************************************************)
(* Types.                                                                  *)
(***************************************************************************)

\* The daemon starts with every lock free and every worker outside.
LEMMA InitLock == Init => LockInv
  BY SetsAssumption
  DEF Init, LockInv, TypeOK, HasKey, Holds, NoJob, Job, NoToken, PC, Critical,
      Worker

\* The local state of an idle worker has the type of a job.
LEMMA NoJobType == NoJob \in Job
  BY Zenon DEF NoJob, Job, NoToken

\* The steps that end a critical section keep the types of what they change.
LEMMA LeaveType ==
  ASSUME TypeOK, NEW w \in Worker, Leave(w)
  PROVE  /\ pc' \in [Worker -> PC]
         /\ job' \in [Worker -> Job]
         /\ lock' \in [Key -> Worker \cup {None}]
  BY NoJobType, Zenon DEF TypeOK, Leave, Goto, PC, Critical

\* A failed exchange moves the worker on and keeps the types.
LEMMA FailType ==
  ASSUME TypeOK, NEW w \in Worker, Fail(w)
  PROVE  pc' \in [Worker -> PC]
  BY Zenon DEF TypeOK, Fail, Goto, PC, Critical

\* What a worker remembers of the row it has read has its type.
LEMMA RememberType ==
  ASSUME job \in [Worker -> Job], NEW w \in Worker, NEW s \in SessionRow,
         Remember(w, s)
  PROVE  job' \in [Worker -> Job]
<1>1. \A j \in Job : [j EXCEPT !.origin = s.origin] \in Job
  BY Zenon DEF Job, SessionRow
<1>2. \A j \in Job : [j EXCEPT !.rt = s.rt] \in Job
  BY Zenon DEF Job, SessionRow
<1>3. [[job[w] EXCEPT !.origin = s.origin] EXCEPT !.rt = s.rt] \in Job
  BY <1>1, <1>2, Zenon
<1>4. job' = [job EXCEPT ![w] = [[job[w] EXCEPT !.origin = s.origin] EXCEPT !.rt = s.rt]]
  BY Zenon DEF Remember
<1> QED BY <1>3, <1>4, Zenon

\* So has what a request is served with.
LEMMA ServeType ==
  ASSUME TypeOK, HasKey, NEW r \in Request, pc[r] \notin {"idle", "next"}, Serve(r)
  PROVE  served' \in [Request -> SessionRow \cup {None}]
  BY Zenon DEF TypeOK, HasKey, Serve, Worker

\* Every step of a worker in its critical section keeps TypeOK.
LEMMA StepType ==
  ASSUME TypeOK, HasKey, NEW w \in Worker, Step(w)
  PROVE  TypeOK'
<1>a. job \in [Worker -> Job]
  BY Zenon DEF TypeOK
<1>b. row \in [Key -> SessionRow \cup {None}]
  BY Zenon DEF TypeOK
<1>c. pc \in [Worker -> PC]
  BY Zenon DEF TypeOK
<1>1. ASSUME w \in Request, CheckSelection(w) PROVE TypeOK'
  <2>1. pc' \in [Worker -> PC] /\ job' \in [Worker -> Job]
        /\ lock' \in [Key -> Worker \cup {None}]
    BY <1>a, <1>c, <1>1, LeaveType, Zenon DEF TypeOK, CheckSelection, Goto, PC, Critical
  <2> QED BY <1>1, <2>1, Zenon DEF TypeOK, CheckSelection
<1>2. ASSUME w \in Request, ReadForRequest(w) PROVE TypeOK'
  <2>1. job[w].key \in Key
    BY <1>2, Zenon DEF ReadForRequest, HasKey
  <2>2. CASE Leave(w) /\ UNCHANGED served
    BY <1>2, <2>2, LeaveType, Zenon DEF TypeOK, ReadForRequest
  <2>3. CASE /\ Healthy(row[job[w].key])
             /\ Remember(w, row[job[w].key])
             /\ Goto(w, "post")
             /\ UNCHANGED <<lock, served>>
    <3>1. pc' \in [Worker -> PC]
      BY <1>c, <2>3, Zenon DEF Goto, PC, Critical
    <3>2. job' \in [Worker -> Job]
      BY <1>a, <1>b, <2>1, <2>3, RememberType, Zenon DEF Healthy
    <3> QED BY <1>2, <2>3, <3>1, <3>2, Zenon DEF TypeOK, ReadForRequest
  <2>4. CASE Serve(w) /\ Leave(w)
    BY <1>2, <2>4, LeaveType, ServeType, Zenon DEF TypeOK, ReadForRequest
  <2> QED BY <1>2, <2>2, <2>3, <2>4, Zenon DEF TypeOK, ReadForRequest
<1>3. ASSUME w = Task, SelectSource PROVE TypeOK'
  <2>1. CASE Leave(Task)
    BY <1>3, <2>1, LeaveType, Zenon DEF TypeOK, SelectSource
  <2>2. ASSUME NEW s \in Usable, job' = [job EXCEPT ![Task].spec = s],
               Goto(Task, "read"), UNCHANGED lock
        PROVE TypeOK'
    <3>1. pc' \in [Worker -> PC]
      BY <1>c, <2>2, Zenon DEF Goto, PC, Critical
    <3>2. job' \in [Worker -> Job]
      <4>1. Task \in Worker /\ s \in AuthSpec
        BY SetsAssumption, Zenon DEF Worker
      <4>2. [job[Task] EXCEPT !.spec = s] \in Job
        BY <1>a, <4>1, Zenon DEF Job
      <4> QED BY <1>a, <2>2, <4>1, <4>2, Zenon
    <3> QED BY <1>3, <2>2, <3>1, <3>2, Zenon DEF TypeOK, SelectSource
  <2> QED BY <1>3, <2>1, <2>2, Zenon DEF TypeOK, SelectSource
<1>4. ASSUME w = Task, ReadForTask PROVE TypeOK'
  <2>1. CASE Leave(Task)
    BY <1>4, <2>1, LeaveType, Zenon DEF TypeOK, ReadForTask
  <2>2. CASE /\ Healthy(row[job[w].key])
             /\ Remember(w, row[job[w].key])
             /\ Goto(w, "post")
             /\ UNCHANGED lock
    <3>1. pc' \in [Worker -> PC]
      BY <1>c, <2>2, Zenon DEF Goto, PC, Critical
    <3>2. job[w].key \in Key
      BY <1>4, Zenon DEF ReadForTask, HasKey
    <3>3. job' \in [Worker -> Job]
      BY <1>a, <1>b, <2>2, <3>2, RememberType, Zenon DEF Healthy
    <3> QED BY <1>4, <2>2, <3>1, <3>3, Zenon DEF TypeOK, ReadForTask
  <2> QED BY <1>4, <2>1, <2>2, Zenon DEF TypeOK, ReadForTask, StillPending
<1>5. ASSUME w \in Operator, CreateRow(w) PROVE TypeOK'
  <2>1. CASE Leave(w) /\ UNCHANGED row
    BY <1>5, <2>1, LeaveType, Zenon DEF TypeOK, CreateRow
  <2>2. CASE UNCHANGED lock
    <3>1. pc' \in [Worker -> PC]
      BY <1>c, <1>5, <2>2, LeaveType, Zenon DEF CreateRow, Goto, PC, Critical
    <3>2. job' \in [Worker -> Job]
      BY <1>a, <1>5, <2>2, LeaveType DEF CreateRow, Job
    <3>3. row' \in [Key -> SessionRow \cup {None}]
      <4>1. job[w].rt \in Nat
        BY <1>a, Zenon DEF Job
      <4>2. [origin |-> job[w].rt, rt |-> job[w].rt, tok |-> NoToken, exp |-> 0,
             degraded |-> FALSE] \in SessionRow
        BY <4>1, Zenon DEF SessionRow, NoToken
      <4> QED BY <1>b, <1>5, <4>2, Zenon DEF CreateRow
    <3> QED BY <1>5, <2>2, <3>1, <3>2, <3>3, Zenon DEF TypeOK, CreateRow
  <2> QED BY <1>5, <2>1, <2>2, Zenon DEF TypeOK, CreateRow
<1>6. ASSUME Post(w) PROVE TypeOK'
  <2>1. pc' \in [Worker -> PC]
    BY <1>c, <1>6, FailType, Zenon DEF Post, Goto, PC, Critical
  <2> QED BY <1>6, <2>1, Zenon DEF TypeOK, Post
<1>7. ASSUME Grant(w) PROVE TypeOK'
  <2>1. pc' \in [Worker -> PC]
    BY <1>c, <1>7, Zenon DEF Grant, Goto, PC, Critical
  <2>2. job' \in [Worker -> Job]
    <3>1. issued \in Nat /\ now \in Nat
      BY Zenon DEF TypeOK
    <3>2. PICK life \in Lifetime, rotate \in BOOLEAN :
            job' = [job EXCEPT ![w].newTok = issued + 1, ![w].newExp = now + life,
                               ![w].newRt = IF rotate THEN issued + 1 ELSE NoToken]
      BY <1>7, Zenon DEF Grant
    <3>3. now + life \in Nat
      BY <3>1, NumbersAssumption
    <3>4. (IF rotate THEN issued + 1 ELSE NoToken) \in Nat /\ issued + 1 \in Nat
      BY <3>1 DEF NoToken
    <3> DEFINE new == [job[w] EXCEPT !.newTok = issued + 1, !.newExp = now + life,
                         !.newRt = IF rotate THEN issued + 1 ELSE NoToken]
    <3>5. new \in Job
      BY <1>a, <3>3, <3>4, Zenon DEF Job
    <3>6. job' = [job EXCEPT ![w] = new]
      BY <1>a, <3>2, Zenon
    <3> QED BY <1>a, <3>5, <3>6, Zenon
  <2>3. job[w].rt \in Nat
    BY <1>a, Zenon DEF Job
  <2>4. superseded' \subseteq Nat
    BY <1>7, <2>3, Zenon DEF TypeOK, Grant
  <2> QED BY <1>7, <2>1, <2>2, <2>4 DEF TypeOK, Grant
<1>8. ASSUME Refuse(w) PROVE TypeOK'
  <2>1. job[w].rt \in Nat
    BY <1>a, Zenon DEF Job
  <2>2. superseded' \subseteq Nat
    BY <1>8, <2>1, Zenon DEF TypeOK, Refuse
  <2> QED BY <1>8, <2>2, FailType, Zenon DEF TypeOK, Refuse
<1>9. ASSUME Persist(w) PROVE TypeOK'
  <2>1. pc' \in [Worker -> PC]
    BY <1>c, <1>9, Zenon DEF Persist, Goto, PC, Critical
  <2>2. row' \in [Key -> SessionRow \cup {None}]
    <3> DEFINE k == job[w].key
    <3>1. CASE row[k] = None
      BY <1>b, <1>9, <3>1, Zenon DEF Persist, UpdateTokens
    <3>2. CASE row[k] # None
      <4>1. job[w].newTok \in Nat /\ job[w].newExp \in Nat /\ job[w].newRt \in Nat
        BY <1>a, Zenon DEF Job
      <4>2. k \in Key
        BY <1>9, Zenon DEF Persist, HasKey
      <4>3. row[k] \in SessionRow
        BY <1>b, <3>2, <4>2, Zenon
      <4> DEFINE new == [row[k] EXCEPT !.tok = job[w].newTok, !.exp = job[w].newExp,
                           !.rt = IF job[w].newRt = NoToken THEN @ ELSE job[w].newRt,
                           !.degraded = FALSE]
      <4>4. new \in SessionRow
        BY <4>1, <4>3, Zenon DEF SessionRow
      <4>5. row' = [row EXCEPT ![k] = new]
        BY <1>b, <1>9, <3>2, <4>2, Zenon DEF Persist, UpdateTokens
      <4> QED BY <1>b, <4>4, <4>5, Zenon
    <3> QED BY <3>1, <3>2, Zenon
  <2> QED BY <1>9, <2>1, <2>2, Zenon DEF TypeOK, Persist
<1>10. ASSUME Readback(w) PROVE TypeOK'
  <2>1. served' \in [Request -> SessionRow \cup {None}]
    BY <1>10, ServeType, Zenon DEF TypeOK, Readback
  <2> QED BY <1>10, <2>1, LeaveType, FailType, Zenon DEF TypeOK, Readback
<1>11. ASSUME PersistError(w) PROVE TypeOK'
  BY <1>11, FailType, Zenon DEF TypeOK, PersistError
<1>12. ASSUME MarkDegraded(w) PROVE TypeOK'
  <2>1. row' \in [Key -> SessionRow \cup {None}]
    <3> DEFINE k == job[w].key
               r == [row[k] EXCEPT !.degraded = TRUE]
    <3>1. row' = row \/ (row[k] # None /\ row' = [row EXCEPT ![k] = r])
      BY <1>12, Zenon DEF MarkDegraded
    <3>0. k \in Key
      BY <1>12, Zenon DEF MarkDegraded, HasKey
    <3>2. ASSUME row[k] # None PROVE row[k] \in SessionRow
      BY <1>b, <3>0, <3>2, Zenon
    <3>3. \A s \in SessionRow : [s EXCEPT !.degraded = TRUE] \in SessionRow
      BY Zenon DEF SessionRow
    <3>4. row[k] # None => r \in SessionRow
      BY <3>2, <3>3, Zenon
    <3> HIDE DEF r, k
    <3> QED BY <1>b, <3>0, <3>1, <3>4, Zenon
  <2> QED BY <1>12, <2>1, LeaveType, Zenon DEF TypeOK, MarkDegraded
<1>13. ASSUME Rollback(w) PROVE TypeOK'
  <2>1. row' \in [Key -> SessionRow \cup {None}]
    BY <1>b, <1>13, Zenon DEF Rollback
  <2> QED BY <1>13, <2>1, LeaveType, Zenon DEF TypeOK, Rollback
<1>14. ASSUME ReadError(w) PROVE TypeOK'
  BY <1>14, LeaveType, Zenon DEF TypeOK, ReadError
<1> QED
  BY <1>1, <1>2, <1>3, <1>4, <1>5, <1>6, <1>7, <1>8, <1>9, <1>10, <1>11, Zenon,
     <1>12, <1>13, <1>14 DEF Step

\* Every step of the specification keeps TypeOK.
LEMMA NextType ==
  ASSUME TypeOK, HasKey, [Next]_vars
  PROVE  TypeOK'
<1>a. job \in [Worker -> Job] /\ pc \in [Worker -> PC]
      /\ lock \in [Key -> Worker \cup {None}]
  BY Zenon DEF TypeOK
<1>1. ASSUME NEW r \in Request, NEW a \in Agent, NEW k \in Key, Admit(r, a, k)
      PROVE TypeOK'
  <2>1. pc' \in [Worker -> PC]
    BY <1>a, <1>1, Zenon DEF Admit, Goto, PC
  <2>2. binding[a][k] \in AuthSpec \cup {None}
    BY Zenon DEF TypeOK
  <2>3. [NoJob EXCEPT !.key = k, !.spec = binding[a][k]] \in Job
    BY <2>2, Zenon DEF NoJob, Job, NoToken
  <2>4. job' \in [Worker -> Job]
    BY <1>a, <1>1, <2>3, Zenon DEF Admit
  <2>5. served' \in [Request -> SessionRow \cup {None}]
    BY <1>1, Zenon DEF TypeOK, Admit
  <2> QED BY <1>1, <2>1, <2>4, <2>5, Zenon DEF TypeOK, Admit
<1>2. ASSUME NEW b \in Operator, NEW k \in Key, StartBootstrap(b, k)
      PROVE TypeOK'
  <2>1. pc' \in [Worker -> PC]
    BY <1>a, <1>2, Zenon DEF StartBootstrap, Goto, PC
  <2>2. issued' \in Nat /\ superseded' \subseteq Nat
    BY <1>2 DEF TypeOK, StartBootstrap
  <2>3. [NoJob EXCEPT !.key = k, !.rt = issued'] \in Job
    BY <2>2, Zenon DEF NoJob, Job, NoToken
  <2>4. job' \in [Worker -> Job]
    BY <1>a, <1>2, <2>3, Zenon DEF StartBootstrap
  <2> QED BY <1>2, <2>1, <2>2, <2>4, Zenon DEF TypeOK, StartBootstrap
<1>3. ASSUME Tick PROVE TypeOK'
  <2>1. pc' \in [Worker -> PC]
    BY <1>a, <1>3, Zenon DEF Tick, Goto, PC
  <2>2. \A k \in Key : Healthy(row[k]) => row[k].exp \in Nat
    BY Zenon DEF TypeOK, Healthy, SessionRow
  <2>3. queue' \subseteq [key : Key, exp : Nat]
    BY <1>3, <2>2 DEF Tick, Pending
  <2>4. threshold' \in Nat
    BY <1>3, NumbersAssumption DEF TypeOK, Tick
  <2> QED BY <1>3, <2>1, <2>3, <2>4, Zenon DEF TypeOK, Tick
<1>4. ASSUME NextPending PROVE TypeOK'
  <2>1. pc' \in [Worker -> PC]
    BY <1>a, <1>4, Zenon DEF NextPending, Goto, PC
  <2>2. queue' \subseteq queue
    BY <1>4, Zenon DEF NextPending
  <2>3. job' \in [Worker -> Job]
    <3>1. CASE job' = job
      BY <1>a, <3>1, Zenon
    <3>2. ASSUME NEW i \in Earliest(queue), job' = [job EXCEPT ![Task].key = i.key]
          PROVE job' \in [Worker -> Job]
      <4>1. i.key \in Key
        BY Zenon DEF Earliest, TypeOK
      <4>2. [job[Task] EXCEPT !.key = i.key] \in Job
        BY <1>a, <4>1 DEF Job, Worker
      <4>3. job' = [job EXCEPT ![Task] = [job[Task] EXCEPT !.key = i.key]]
        BY <1>a, <3>2, Zenon
      <4> QED BY <1>a, <4>2, <4>3, Zenon
    <3> QED BY <1>4, <3>1, <3>2, Zenon DEF NextPending
  <2> QED BY <1>4, <2>1, <2>2, <2>3, Zenon DEF TypeOK, NextPending
<1>5. ASSUME NEW w \in Worker, Acquire(w) PROVE TypeOK'
  <2>1. pc' \in [Worker -> PC]
    BY <1>a, <1>5, Zenon DEF Acquire, AfterLock, Goto, PC, Critical
  <2>2. lock' \in [Key -> Worker \cup {None}]
    BY <1>a, <1>5, Zenon DEF Acquire
  <2> QED BY <1>5, <2>1, <2>2, Zenon DEF TypeOK, Acquire
<1>6. ASSUME NEW w \in Worker, Cancel(w) PROVE TypeOK'
  <2>1. pc' \in [Worker -> PC]
    BY <1>a, <1>6, Zenon DEF Cancel, Goto, PC
  <2>2. lock' \in [Key -> Worker \cup {None}]
    BY <1>a, <1>6, Zenon DEF Cancel
  <2>3. job' \in [Worker -> Job]
    BY <1>a, <1>6, NoJobType, Zenon DEF Cancel
  <2>4. job[w].rt \in Nat
    BY <1>a, Zenon DEF Job
  <2>5. orphans' \subseteq Nat
    BY <1>6, <2>4, Zenon DEF TypeOK, Cancel, InFlight
  <2> QED BY <1>6, <2>1, <2>2, <2>3, <2>5, Zenon DEF TypeOK, Cancel
<1>7. ASSUME NEW k \in Key, Revoke(k) PROVE TypeOK'
  BY <1>7, Zenon DEF TypeOK, Revoke
<1>8. ASSUME NEW a \in Agent, NEW k \in Key, NEW s \in AuthSpec \cup {None},
             Bind(a, k, s)
      PROVE TypeOK'
  BY <1>8, Zenon DEF TypeOK, Bind
<1>9. ASSUME NEW k \in Key, NEW s \in AuthSpec \cup {None}, PublishCatalog(k, s)
      PROVE TypeOK'
  BY <1>9, Zenon DEF TypeOK, PublishCatalog
<1>10. ASSUME Advance PROVE TypeOK'
  BY <1>10 DEF TypeOK, Advance
<1>11. ASSUME Crash PROVE TypeOK'
  <2>1. \A w \in Worker : job[w].rt \in Nat
    BY <1>a, Zenon DEF Job
  <2>2. orphans' \subseteq Nat
    BY <1>11, <2>1, Zenon DEF TypeOK, Crash, InFlight
  <2> QED BY <1>11, <2>2, NoJobType, Zenon DEF TypeOK, Crash, PC
<1>12. ASSUME HandleOrphan PROVE TypeOK'
  BY <1>12, Zenon DEF TypeOK, HandleOrphan
<1>13. CASE UNCHANGED vars
  BY <1>13, Zenon DEF TypeOK, vars
<1> QED
  BY <1>1, <1>2, <1>3, <1>4, <1>5, <1>6, <1>7, <1>8, <1>9, <1>10, <1>11, <1>12, Zenon,
     <1>13, StepType DEF Next

-----------------------------------------------------------------------------
(***************************************************************************)
(* The lock.                                                               *)
(***************************************************************************)

\* A worker that goes on inside its critical section keeps its lock.
LEMMA StaysLock ==
  ASSUME LockInv, NEW w \in Worker, pc[w] \in Critical,
         NEW l \in Critical, Goto(w, l), lock' = lock,
         \A v \in Worker : job'[v].key = job[v].key
  PROVE  HasKey' /\ Holds'
<1>1. \A v \in Worker : pc'[v] = IF v = w THEN l ELSE pc[v]
  BY Zenon DEF LockInv, TypeOK, Goto
<1>2. l \notin {"idle", "next"} /\ pc[w] \notin {"idle", "next"}
  BY Zenon DEF Critical
<1>3. HasKey'
  BY <1>1, <1>2, Zenon DEF LockInv, HasKey
<1>4. Holds'
  BY <1>1, Zenon DEF LockInv, Holds
<1> QED BY <1>3, <1>4, Zenon

\* A worker that leaves its critical section gives up its own lock only.
LEMMA LeaveLock ==
  ASSUME LockInv, NEW w \in Worker, pc[w] \in Critical, Leave(w)
  PROVE  HasKey' /\ Holds'
<1>1. \A v \in Worker : v # w => pc'[v] = pc[v] /\ job'[v] = job[v]
  BY Zenon DEF LockInv, TypeOK, Leave, Goto
<1>2. pc'[w] \in {"idle", "next"}
  BY Zenon DEF LockInv, TypeOK, Leave, Goto
<1>3. HasKey'
  BY <1>1, <1>2, Zenon DEF LockInv, HasKey
<1>4. Holds'
  <2> SUFFICES ASSUME NEW v \in Worker, pc'[v] \in Critical
               PROVE  lock'[job'[v].key] = v
    BY Zenon DEF Holds
  <2>1. v # w
    BY <1>2, Zenon DEF Critical
  <2>2. pc[v] \in Critical /\ job'[v].key = job[v].key
    BY <1>1, <2>1, Zenon
  <2>3. lock[job[v].key] = v /\ lock[job[w].key] = w
    BY <2>2, Zenon DEF LockInv, Holds
  <2>4. lock'[job[v].key] = lock[job[v].key]
    <3>1. job[v].key \in Key
      BY <2>2, Zenon DEF LockInv, HasKey, Critical
    <3> QED BY <2>1, <2>3, <3>1, Zenon DEF LockInv, TypeOK, Leave
  <2> QED BY <2>2, <2>3, <2>4, Zenon
<1> QED BY <1>3, <1>4, Zenon

\* A step in the critical section either stays in it or leaves it.
LEMMA StepCases ==
  ASSUME TypeOK, NEW w \in Worker, Step(w)
  PROVE  /\ pc[w] \in Critical
         /\ \/ Leave(w)
            \/ /\ \E l \in Critical : Goto(w, l)
               /\ lock' = lock
               /\ \A v \in Worker : job'[v].key = job[v].key
<1>a. job \in [Worker -> Job]
  BY Zenon DEF TypeOK
<1>b. ASSUME NEW s, Remember(w, s)
      PROVE  \A v \in Worker : job'[v].key = job[v].key
  BY <1>a, <1>b, Zenon DEF Remember, Job
<1>c. ASSUME Fail(w) PROVE \E l \in Critical : Goto(w, l)
  BY <1>c, Zenon DEF Fail, Critical
<1> USE DEF Critical
<1>1. CASE w \in Request /\ CheckSelection(w)
  BY <1>1, Zenon DEF CheckSelection
<1>2. CASE w \in Request /\ ReadForRequest(w)
  BY <1>2, <1>b, Zenon DEF ReadForRequest
<1>3. CASE w = Task /\ SelectSource
  <2>1. ASSUME NEW s, job' = [job EXCEPT ![w].spec = s]
        PROVE  \A v \in Worker : job'[v].key = job[v].key
    BY <1>a, <2>1, Zenon DEF Job
  <2> QED BY <1>3, <2>1, Zenon DEF SelectSource
<1>4. CASE w = Task /\ ReadForTask
  BY <1>4, <1>b, Zenon DEF ReadForTask
<1>5. CASE w \in Operator /\ CreateRow(w)
  <2>1. ASSUME job' = [job EXCEPT ![w].origin = job[w].rt]
        PROVE  \A v \in Worker : job'[v].key = job[v].key
    BY <1>a, <2>1, Zenon DEF Job
  <2> QED BY <1>5, <2>1, Zenon DEF CreateRow
<1>6. CASE Post(w)
  BY <1>6, <1>c, Zenon DEF Post
<1>7. CASE Grant(w)
  <2>1. PICK life \in Lifetime, rotate \in BOOLEAN :
          job' = [job EXCEPT ![w].newTok = issued + 1, ![w].newExp = now + life,
                             ![w].newRt = IF rotate THEN issued + 1 ELSE NoToken]
    BY <1>7, Zenon DEF Grant
  <2>2. \A v \in Worker : job'[v].key = job[v].key
    BY <1>a, <2>1, Zenon DEF Job
  <2> QED BY <1>7, <2>2, Zenon DEF Grant
<1>8. CASE Refuse(w)
  BY <1>8, <1>c, Zenon DEF Refuse
<1>9. CASE Persist(w)
  BY <1>9, Zenon DEF Persist
<1>10. CASE Readback(w)
  BY <1>10, <1>c, Zenon DEF Readback
<1>11. CASE PersistError(w)
  BY <1>11, <1>c, Zenon DEF PersistError
<1>12. CASE MarkDegraded(w) \/ Rollback(w) \/ ReadError(w)
  BY <1>12, Zenon DEF MarkDegraded, Rollback, ReadError
<1> QED
  BY <1>1, <1>2, <1>3, <1>4, <1>5, <1>6, <1>7, <1>8, <1>9, <1>10, <1>11, <1>12, Zenon
  DEF Step

\* Every step keeps the lock invariant.
LEMMA NextLock ==
  ASSUME LockInv, [Next]_vars
  PROVE  LockInv'
<1> USE DEF LockInv
<1>a. job \in [Worker -> Job] /\ pc \in [Worker -> PC]
      /\ lock \in [Key -> Worker \cup {None}]
  BY Zenon DEF TypeOK
<1>0. TypeOK'
  BY NextType, Zenon
<1>1. ASSUME NEW r \in Request, NEW a \in Agent, NEW k \in Key, Admit(r, a, k)
      PROVE HasKey' /\ Holds'
  <2>1. \A v \in Worker : v # r => pc'[v] = pc[v] /\ job'[v] = job[v]
    BY <1>a, <1>1, Zenon DEF Admit, Goto
  <2>2. pc'[r] = "lock" /\ job'[r].key = k
    BY <1>a, <1>1, Zenon DEF Admit, Goto, Worker, NoJob
  <2> QED BY <1>1, <2>1, <2>2, Zenon DEF Admit, HasKey, Holds, Critical
<1>2. ASSUME NEW b \in Operator, NEW k \in Key, StartBootstrap(b, k)
      PROVE HasKey' /\ Holds'
  <2>1. \A v \in Worker : v # b => pc'[v] = pc[v] /\ job'[v] = job[v]
    BY <1>a, <1>2, Zenon DEF StartBootstrap, Goto
  <2>2. pc'[b] = "lock" /\ job'[b].key = k
    BY <1>a, <1>2, Zenon DEF StartBootstrap, Goto, Worker, NoJob
  <2> QED BY <1>2, <2>1, <2>2, Zenon DEF StartBootstrap, HasKey, Holds, Critical
<1>3. ASSUME Tick PROVE HasKey' /\ Holds'
  <2>1. \A v \in Worker : pc'[v] = IF v = Task THEN "next" ELSE pc[v]
    BY <1>a, <1>3, Zenon DEF Tick, Goto
  <2> QED BY <1>3, <2>1, Zenon DEF Tick, HasKey, Holds, Critical
<1>4. ASSUME NextPending PROVE HasKey' /\ Holds'
  <2>1. CASE queue = {} /\ Goto(Task, "idle") /\ job' = job
    <3>1. \A v \in Worker : pc'[v] = IF v = Task THEN "idle" ELSE pc[v]
      BY <1>a, <2>1, Zenon DEF Goto
    <3> QED BY <1>4, <2>1, <3>1, Zenon DEF NextPending, HasKey, Holds, Critical
  <2>2. CASE UNCHANGED <<pc, job>>
    BY <1>4, <2>2, Zenon DEF NextPending, HasKey, Holds
  <2>3. ASSUME NEW i \in queue, job' = [job EXCEPT ![Task].key = i.key],
               Goto(Task, "lock")
        PROVE  HasKey' /\ Holds'
    <3>1. i.key \in Key
      BY Zenon DEF TypeOK
    <3>2. \A v \in Worker : v # Task => pc'[v] = pc[v] /\ job'[v] = job[v]
      BY <1>a, <2>3, Zenon DEF Goto
    <3>3. pc'[Task] = "lock" /\ job'[Task].key = i.key
      BY <1>a, <2>3, Zenon DEF Goto, Worker, Job
    <3> QED BY <1>4, <3>1, <3>2, <3>3, Zenon DEF NextPending, HasKey, Holds, Critical
  <2> QED BY <1>4, <2>1, <2>2, <2>3, Zenon DEF NextPending, Earliest
<1>5. ASSUME NEW w \in Worker, Acquire(w) PROVE HasKey' /\ Holds'
  <2>1. \A v \in Worker : v # w => pc'[v] = pc[v]
    BY <1>a, <1>5, Zenon DEF Acquire, Goto
  <2>2. job[w].key \in Key
    BY <1>5, Zenon DEF Acquire, HasKey
  <2>3. lock'[job[w].key] = w /\ \A k \in Key : lock[k] # None => lock'[k] = lock[k]
    BY <1>a, <1>5, <2>2, Zenon DEF Acquire
  <2>4. HasKey'
    BY <1>5, <2>1, <2>2, Zenon DEF Acquire, HasKey
  <2>5. ASSUME NEW v \in Worker, v # w, pc[v] \in Critical
        PROVE  lock'[job[v].key] = v
    <3>1. lock[job[v].key] = v /\ job[v].key \in Key
      BY <2>5, Zenon DEF Holds, HasKey, Critical
    <3> QED BY <2>3, <3>1, SetsAssumption, Zenon
  <2> QED BY <1>5, <2>1, <2>3, <2>4, <2>5, Zenon DEF Acquire, Holds
<1>6. ASSUME NEW w \in Worker, Step(w) PROVE HasKey' /\ Holds'
  BY <1>6, StepCases, StaysLock, LeaveLock, Zenon
<1>7. ASSUME NEW w \in Worker, Cancel(w) PROVE HasKey' /\ Holds'
  <2>1. \A v \in Worker : v # w => pc'[v] = pc[v] /\ job'[v] = job[v]
    BY <1>a, <1>7, Zenon DEF Cancel, Goto
  <2>2. pc'[w] = "idle"
    BY <1>a, <1>7, Zenon DEF Cancel, Goto
  <2>3. \A k \in Key : lock[k] # w => lock'[k] = lock[k]
    BY <1>7, Zenon DEF Cancel
  <2>4. HasKey'
    BY <2>1, <2>2, Zenon DEF HasKey
  <2>5. ASSUME NEW v \in Worker, v # w, pc[v] \in Critical
        PROVE  lock'[job[v].key] = v
    <3>1. lock[job[v].key] = v /\ job[v].key \in Key
      BY <2>5, Zenon DEF Holds, HasKey, Critical
    <3> QED BY <2>3, <2>5, <3>1, Zenon
  <2> QED BY <2>1, <2>2, <2>4, <2>5, Zenon DEF Holds, Critical
<1>8. ASSUME Crash PROVE HasKey' /\ Holds'
  BY <1>8, Zenon DEF Crash, HasKey, Holds, Critical
<1>9. ASSUME UNCHANGED <<lock, pc, job>> PROVE HasKey' /\ Holds'
  BY <1>9, Zenon DEF HasKey, Holds
<1>10. ASSUME NEW k \in Key, Revoke(k) PROVE UNCHANGED <<lock, pc, job>>
  BY <1>10, Zenon DEF Revoke
<1>11. ASSUME NEW a, NEW k \in Key, NEW s, Bind(a, k, s)
       PROVE UNCHANGED <<lock, pc, job>>
  BY <1>11, Zenon DEF Bind
<1>12. ASSUME NEW k \in Key, NEW s, PublishCatalog(k, s)
       PROVE UNCHANGED <<lock, pc, job>>
  BY <1>12, Zenon DEF PublishCatalog
<1>13. ASSUME Advance \/ HandleOrphan PROVE UNCHANGED <<lock, pc, job>>
  BY <1>13, Zenon DEF Advance, HandleOrphan
<1>14. ASSUME UNCHANGED vars PROVE UNCHANGED <<lock, pc, job>>
  BY <1>14, Zenon DEF vars
<1> QED
  BY <1>0, <1>1, <1>2, <1>3, <1>4, <1>5, <1>6, <1>7, <1>8, <1>9, <1>10, <1>11, Zenon,
     <1>12, <1>13, <1>14 DEF Next

\* The inductive invariant of RefreshLockMap: a worker is between acquiring and
\* dropping its guard only while the lock of its (name, label) is its own,
\* through cancelled handlers and restarts of the daemon.
THEOREM LockInvariant == Spec => []LockInv
  BY InitLock, NextLock, PTL DEF Spec

\* The variables always have their types (rows, locks, jobs and tokens of the
\* OAuth session cache).
THEOREM TypeCorrect == Spec => []TypeOK
<1>1. LockInv => TypeOK
  BY Zenon DEF LockInv
<1> QED BY <1>1, LockInvariant, PTL

\* RefreshLockMap serialises the exchanges of a session, however many requests
\* and operators there are and whatever is cancelled or crashes.
THEOREM MutualExclusion == Spec => []OneExchange
<1>1. LockInv => OneExchange
  BY Zenon DEF LockInv, Holds, OneExchange
<1> QED BY <1>1, LockInvariant, PTL

-----------------------------------------------------------------------------
(***************************************************************************)
(* What an exchange may rely on about the row it works on.                 *)
(***************************************************************************)

\* The row, if it still exists, is the one the exchange began with; it was
\* healthy when it was read or created, and still is; and what is read back is
\* what was written.
OwnRow(w) ==
    pc[w] \in Exchanging /\ row[job[w].key] # None =>
        /\ row[job[w].key].origin = job[w].origin
        /\ pc[w] \in {"post", "sent", "persist", "readback"}
              => ~row[job[w].key].degraded
        /\ pc[w] = "readback" => row[job[w].key].tok = job[w].newTok

RowInv == LockInv /\ \A w \in Worker : OwnRow(w)

\* What update_tokens makes of a row that is there.
LEMMA UpdatedRow ==
  ASSUME NEW k \in Key, NEW j \in Job, row \in [Key -> SessionRow \cup {None}],
         row[k] # None
  PROVE  LET s == UpdateTokens(k, j)[k] IN
         s.origin = row[k].origin /\ s.tok = j.newTok /\ ~s.degraded
<1> DEFINE rt == IF j.newRt = NoToken THEN row[k].rt ELSE j.newRt
           a == [row[k] EXCEPT !.tok = j.newTok]
           b == [a EXCEPT !.exp = j.newExp]
           c == [b EXCEPT !.rt = rt]
           d == [c EXCEPT !.degraded = FALSE]
<1>1. a \in SessionRow /\ a.origin = row[k].origin /\ a.tok = j.newTok
  BY Zenon DEF SessionRow, Job
<1>2. UpdateTokens(k, j) = [row EXCEPT ![k] = d]
  BY Zenon DEF UpdateTokens
<1> HIDE DEF a, rt
<1>3. b \in SessionRow /\ b.origin = a.origin /\ b.tok = a.tok
  BY <1>1, Zenon DEF SessionRow, Job
<1> HIDE DEF b
<1>4. rt \in Nat
  BY Zenon DEF rt, SessionRow, Job
<1>5. c \in SessionRow /\ c.origin = b.origin /\ c.tok = b.tok
  BY <1>3, <1>4, Zenon DEF SessionRow
<1> HIDE DEF c
<1>6. d \in SessionRow /\ d.origin = c.origin /\ d.tok = c.tok /\ ~d.degraded
  BY <1>5, Zenon DEF SessionRow
<1> HIDE DEF d
<1> QED BY <1>1, <1>2, <1>3, <1>5, <1>6, Zenon

\* A step writes no row but that of the session it holds the lock of.
LEMMA StepRow ==
  ASSUME LockInv, NEW w \in Worker, Step(w), NEW k \in Key, k # job[w].key
  PROVE  row'[k] = row[k]
<1>a. row \in [Key -> SessionRow \cup {None}]
  BY Zenon DEF LockInv, TypeOK
<1>1. CASE UNCHANGED row
  BY <1>1, Zenon
<1>2. CASE CreateRow(w)
  BY <1>a, <1>2, Zenon DEF CreateRow
<1>3. CASE Persist(w)
  BY <1>a, <1>3, Zenon DEF Persist, UpdateTokens
<1>4. CASE MarkDegraded(w)
  BY <1>a, <1>4, Zenon DEF MarkDegraded
<1>5. CASE Rollback(w)
  BY <1>a, <1>5, Zenon DEF Rollback
<1> QED
  BY <1>1, <1>2, <1>3, <1>4, <1>5, Zenon
  DEF Step, CheckSelection, ReadForRequest, SelectSource, ReadForTask, Post,
      Grant, Refuse, Readback, PersistError, ReadError

\* A step changes nothing another worker in a critical section relies on.
LEMMA StepOthers ==
  ASSUME LockInv, NEW w \in Worker, Step(w),
         NEW v \in Worker, v # w, pc[v] \in Critical
  PROVE  row'[job[v].key] = row[job[v].key]
<1>1. pc[w] \in Critical
  BY StepCases, Zenon DEF LockInv
<1>2. job[v].key # job[w].key
  BY <1>1, Zenon DEF LockInv, Holds
<1>3. job[v].key \in Key
  BY Zenon DEF LockInv, HasKey, Critical
<1> QED BY <1>2, <1>3, StepRow, Zenon

\* A step changes the local state of its own worker only.
LEMMA StepLocal ==
  ASSUME LockInv, NEW w \in Worker, Step(w), NEW v \in Worker, v # w
  PROVE  pc'[v] = pc[v] /\ job'[v] = job[v]
<1>a. job \in [Worker -> Job] /\ pc \in [Worker -> PC]
  BY Zenon DEF LockInv, TypeOK
<1>1. pc'[v] = pc[v]
  BY <1>a, StepCases, Zenon DEF LockInv, Leave, Goto
<1>2. ASSUME Leave(w) PROVE job'[v] = job[v]
  BY <1>a, <1>2, Zenon DEF Leave
<1>3. ASSUME NEW s, Remember(w, s) PROVE job'[v] = job[v]
  BY <1>a, <1>3, Zenon DEF Remember
<1>4. ASSUME Grant(w) PROVE job'[v] = job[v]
  BY <1>a, <1>4, Zenon DEF Grant
<1>5. ASSUME CreateRow(w) PROVE job'[v] = job[v]
  BY <1>a, <1>2, <1>5, Zenon DEF CreateRow
<1>6. ASSUME w = Task, SelectSource PROVE job'[v] = job[v]
  BY <1>a, <1>2, <1>6, Zenon DEF SelectSource
<1>7. job'[v] = job[v]
  BY <1>2, <1>3, <1>4, <1>5, <1>6, Zenon
  DEF Step, CheckSelection, ReadForRequest, ReadForTask, Post, Refuse, Persist,
      Readback, PersistError, MarkDegraded, Rollback, ReadError
<1> QED BY <1>1, <1>7, Zenon

\* The worker that takes the step.
LEMMA StepOwn ==
  ASSUME LockInv, NEW w \in Worker, OwnRow(w), Step(w)
  PROVE  OwnRow(w)'
<1>a. job \in [Worker -> Job] /\ pc \in [Worker -> PC]
      /\ row \in [Key -> SessionRow \cup {None}]
  BY Zenon DEF LockInv, TypeOK
<1>b. ASSUME Leave(w) PROVE OwnRow(w)'
  BY <1>a, <1>b, Zenon DEF Leave, Goto, OwnRow, Exchanging
<1>c. job[w].key \in Key
  BY StepCases, Zenon DEF LockInv, HasKey, Critical
<1>d. ASSUME Goto(w, "read") PROVE OwnRow(w)'
  BY <1>a, <1>d, Zenon DEF Goto, OwnRow, Exchanging
<1>e. ASSUME Healthy(row[job[w].key]), Remember(w, row[job[w].key]),
             Goto(w, "post"), UNCHANGED row
      PROVE  OwnRow(w)'
  <2>1. pc'[w] = "post"
    BY <1>a, <1>e, Zenon DEF Goto
  <2>2. job'[w].key = job[w].key /\ job'[w].origin = row[job[w].key].origin
    BY <1>a, <1>e DEF Remember, Job
  <2> QED BY <1>e, <2>1, <2>2, Zenon DEF OwnRow, Healthy
<1>f. ASSUME Fail(w), UNCHANGED <<row, job>>, pc[w] \in Exchanging PROVE OwnRow(w)'
  <2>1. pc'[w] \in {"rollback", "degrade"}
    BY <1>a, <1>f, Zenon DEF Fail, Goto
  <2> QED BY <1>f, <2>1, Zenon DEF OwnRow
<1>1. CASE w \in Request /\ CheckSelection(w)
  BY <1>1, <1>b, <1>d, Zenon DEF CheckSelection
<1>2. CASE w \in Request /\ ReadForRequest(w)
  BY <1>2, <1>b, <1>e, Zenon DEF ReadForRequest
<1>3. CASE w = Task /\ SelectSource
  BY <1>3, <1>b, <1>d, Zenon DEF SelectSource
<1>4. CASE w = Task /\ ReadForTask
  BY <1>4, <1>b, <1>e, Zenon DEF ReadForTask, StillPending
<1>5. CASE w \in Operator /\ CreateRow(w)
  <2>1. CASE Leave(w)
    BY <1>b, <2>1, Zenon
  <2>2. CASE ~Leave(w)
    <3>1. pc'[w] = "post"
      BY <1>a, <1>5, <2>2, Zenon DEF CreateRow, Goto
    <3>2. job'[w].key = job[w].key /\ job'[w].origin = job[w].rt
      BY <1>a, <1>5, <2>2 DEF CreateRow, Job
    <3>3. row'[job[w].key].origin = job[w].rt /\ ~row'[job[w].key].degraded
      BY <1>a, <1>c, <1>5, <2>2 DEF CreateRow
    <3> QED BY <3>1, <3>2, <3>3, Zenon DEF OwnRow
  <2> QED BY <2>1, <2>2, Zenon
<1>6. CASE Post(w)
  <2>1. CASE Goto(w, "sent")
    BY <1>a, <1>6, <2>1, Zenon DEF Post, Goto, OwnRow, Exchanging
  <2> QED BY <1>6, <1>f, <2>1, Zenon DEF Post, Exchanging
<1>7. CASE Grant(w)
  <2>1. PICK life \in Lifetime, rotate \in BOOLEAN :
          job' = [job EXCEPT ![w].newTok = issued + 1, ![w].newExp = now + life,
                             ![w].newRt = IF rotate THEN issued + 1 ELSE NoToken]
    BY <1>7, Zenon DEF Grant
  <2>2. job'[w].key = job[w].key /\ job'[w].origin = job[w].origin
    BY <1>a, <2>1 DEF Job
  <2>3. pc[w] = "sent" /\ pc'[w] = "persist" /\ row' = row
    BY <1>a, <1>7, Zenon DEF Grant, Goto
  <2> QED BY <2>2, <2>3, Zenon DEF OwnRow, Exchanging
<1>8. CASE Refuse(w)
  BY <1>8, <1>f, Zenon DEF Refuse, Exchanging
<1>9. CASE Persist(w)
  <2>1. pc[w] = "persist" /\ pc'[w] = "readback" /\ job' = job
    BY <1>a, <1>9, Zenon DEF Persist, Goto
  <2>2. ASSUME row[job[w].key] # None
        PROVE  /\ row'[job[w].key].origin = row[job[w].key].origin
               /\ ~row'[job[w].key].degraded
               /\ row'[job[w].key].tok = job[w].newTok
    BY <1>a, <1>c, <1>9, <2>2, UpdatedRow, Zenon DEF Persist
  <2>3. ASSUME row[job[w].key] = None PROVE row'[job[w].key] = None
    BY <1>9, <2>3, Zenon DEF Persist, UpdateTokens
  <2> QED BY <2>1, <2>2, <2>3, Zenon DEF OwnRow, Exchanging
<1>10. CASE Readback(w)
  BY <1>10, <1>b, <1>f, Zenon DEF Readback, Exchanging
<1>11. CASE PersistError(w)
  BY <1>11, <1>f, Zenon DEF PersistError, Exchanging
<1>12. CASE MarkDegraded(w) \/ Rollback(w) \/ ReadError(w)
  BY <1>12, <1>b, Zenon DEF MarkDegraded, Rollback, ReadError
<1> QED
  BY <1>1, <1>2, <1>3, <1>4, <1>5, <1>6, <1>7, <1>8, <1>9, <1>10, <1>11, <1>12, Zenon
  DEF Step

\* A worker that is not exchanging after the step, or whose state and row the
\* step leaves alone or deletes.
LEMMA OwnFrame ==
  ASSUME NEW w \in Worker, OwnRow(w),
         \/ pc'[w] \notin Exchanging
         \/ /\ pc'[w] = pc[w]
            /\ job'[w] = job[w]
            /\ row'[job[w].key] \in {row[job[w].key], None}
  PROVE  OwnRow(w)'
  BY Zenon DEF OwnRow

\* Every step keeps the row invariant.
LEMMA NextRow ==
  ASSUME RowInv, [Next]_vars
  PROVE  RowInv'
<1>0. LockInv /\ LockInv'
  BY NextLock, Zenon DEF RowInv
<1>a. job \in [Worker -> Job] /\ pc \in [Worker -> PC]
      /\ row \in [Key -> SessionRow \cup {None}]
  BY <1>0, Zenon DEF LockInv, TypeOK
<1>b. Exchanging \subseteq Critical /\ Exchanging \cap {"idle", "next", "lock"} = {}
  BY Zenon DEF Exchanging, Critical
<1> SUFFICES ASSUME NEW v \in Worker PROVE OwnRow(v)'
  BY <1>0, Zenon DEF RowInv
<1>c. OwnRow(v)
  BY Zenon DEF RowInv
<1>d. ASSUME row' = row, pc'[v] = pc[v], job'[v] = job[v] PROVE OwnRow(v)'
  BY <1>c, <1>d, OwnFrame, Zenon
<1>e. ASSUME pc'[v] \notin Exchanging PROVE OwnRow(v)'
  BY <1>c, <1>e, OwnFrame, Zenon
<1>1. ASSUME NEW r \in Request, NEW a \in Agent, NEW k \in Key, Admit(r, a, k)
      PROVE OwnRow(v)'
  BY <1>a, <1>b, <1>1, <1>d, <1>e, Zenon DEF Admit, Goto
<1>2. ASSUME NEW b \in Operator, NEW k \in Key, StartBootstrap(b, k)
      PROVE OwnRow(v)'
  BY <1>a, <1>b, <1>2, <1>d, <1>e, Zenon DEF StartBootstrap, Goto
<1>3. CASE Tick
  BY <1>a, <1>b, <1>3, <1>d, <1>e, Zenon DEF Tick, Goto
<1>4. CASE NextPending
  BY <1>a, <1>b, <1>4, <1>d, <1>e, Zenon DEF NextPending, Goto
<1>5. ASSUME NEW w \in Worker, Acquire(w) PROVE OwnRow(v)'
  <2>1. AfterLock(w) \notin Exchanging
    BY Zenon DEF AfterLock, Exchanging
  <2> QED BY <1>a, <1>5, <2>1, <1>d, <1>e, Zenon DEF Acquire, Goto
<1>6. ASSUME NEW w \in Worker, Step(w) PROVE OwnRow(v)'
  <2>1. CASE v = w
    BY <1>0, <1>c, <1>6, <2>1, StepOwn, Zenon
  <2>2. CASE v # w /\ pc[v] \in Critical
    BY <1>0, <1>c, <1>6, <2>2, StepOthers, StepLocal, OwnFrame, Zenon
  <2>3. CASE v # w /\ pc[v] \notin Critical
    BY <1>0, <1>b, <1>6, <2>3, StepLocal, <1>e, Zenon
  <2> QED BY <2>1, <2>2, <2>3, Zenon
<1>7. ASSUME NEW w \in Worker, Cancel(w) PROVE OwnRow(v)'
  BY <1>a, <1>b, <1>7, <1>d, <1>e, Zenon DEF Cancel, Goto
<1>8. CASE Crash
  BY <1>b, <1>8, <1>e, Zenon DEF Crash
<1>9. ASSUME NEW k \in Key, Revoke(k) PROVE OwnRow(v)'
  <2>1. CASE pc[v] \in Exchanging
    <3>1. job[v].key \in Key
      BY <1>0, <1>b, <2>1, Zenon DEF LockInv, HasKey
    <3>2. row'[job[v].key] \in {row[job[v].key], None}
      BY <1>a, <1>9, <3>1, Zenon DEF Revoke
    <3> QED BY <1>9, <1>c, <3>2, OwnFrame, Zenon DEF Revoke
  <2>2. CASE pc[v] \notin Exchanging
    BY <1>9, <1>e, <2>2, Zenon DEF Revoke
  <2> QED BY <2>1, <2>2, Zenon
<1>10. ASSUME NEW a, NEW k \in Key, NEW s, Bind(a, k, s) PROVE OwnRow(v)'
  BY <1>10, <1>d, Zenon DEF Bind
<1>11. ASSUME NEW k \in Key, NEW s, PublishCatalog(k, s) PROVE OwnRow(v)'
  BY <1>11, <1>d, Zenon DEF PublishCatalog
<1>12. CASE Advance \/ HandleOrphan
  BY <1>12, <1>d, Zenon DEF Advance, HandleOrphan
<1>13. CASE UNCHANGED vars
  BY <1>13, <1>d, Zenon DEF vars
<1> QED
  BY <1>1, <1>2, <1>3, <1>4, <1>5, <1>6, <1>7, <1>8, <1>9, <1>10, <1>11, <1>12, Zenon,
     <1>13 DEF Next

\* The inductive invariant of the session rows: while an exchange runs, its row
\* is the one it began with, healthy, or has been revoked (resolve_oauth_token
\* and bootstrap hold the lock, revoke does not).
THEOREM RowInvariant == Spec => []RowInv
<1>1. Init => RowInv
  BY InitLock, Zenon DEF Init, RowInv, OwnRow, Exchanging
<1> QED BY <1>1, NextRow, PTL DEF Spec

\* The writes of an exchange never touch a session bootstrapped after it began,
\* although revocation takes no lock and writes go by (name, label) only.
THEOREM NoForeignWrite == Spec => []WritesOwnRow
<1>1. RowInv => WritesOwnRow
  BY Zenon DEF RowInv, OwnRow, WritesOwnRow
<1> QED BY <1>1, RowInvariant, PTL

-----------------------------------------------------------------------------
(***************************************************************************)
(* What a step may do to a row, and what a request is served.              *)
(***************************************************************************)

\* What a step of a worker does to the row it holds the lock of.
LEMMA StepEffect ==
  ASSUME RowInv, NEW w \in Worker, Step(w), row'[job[w].key] # None
  PROVE  LET k == job[w].key IN
         \/ /\ w \in Operator /\ row[k] = None
            /\ row'[k].rt = job[w].rt
         \/ /\ row[k] # None
            /\ row'[k].origin = row[k].origin
            /\ row[k].degraded => row'[k].degraded
<1> DEFINE k == job[w].key
<1>a. row \in [Key -> SessionRow \cup {None}]
  BY Zenon DEF RowInv, LockInv, TypeOK
<1>b. k \in Key
  BY StepCases, Zenon DEF RowInv, LockInv, HasKey, Critical
<1>c. job[w] \in Job
  BY Zenon DEF RowInv, LockInv, TypeOK
<1>1. CASE UNCHANGED row
  BY <1>1, Zenon
<1>2. CASE w \in Operator /\ CreateRow(w)
  BY SMTT(90), <1>a, <1>b, <1>2 DEF CreateRow
<1>3. CASE Persist(w)
  <2>1. row[k] # None
    BY <1>3, Zenon DEF Persist, UpdateTokens
  <2>2. ~row[k].degraded
    BY <1>3, <2>1, Zenon DEF Persist, RowInv, OwnRow, Exchanging
  <2>3. row'[k].origin = row[k].origin
    BY <1>a, <1>b, <1>c, <1>3, <2>1, UpdatedRow, Zenon DEF Persist
  <2> QED BY <2>1, <2>2, <2>3, Zenon
<1>4. CASE MarkDegraded(w)
  BY SMTT(90), <1>a, <1>b, <1>4 DEF MarkDegraded, SessionRow
<1>5. CASE Rollback(w)
  BY <1>a, <1>b, <1>5, Zenon DEF Rollback
<1> QED
  BY <1>1, <1>2, <1>3, <1>4, <1>5, Zenon
  DEF Step, CheckSelection, ReadForRequest, SelectSource, ReadForTask, Post,
      Grant, Refuse, Readback, PersistError, ReadError

\* A row changes only in a step of the worker that holds its lock, or when it
\* is revoked.
LEMMA RowChange ==
  ASSUME RowInv, [Next]_vars, NEW k \in Key, row'[k] # row[k]
  PROVE  \/ row'[k] = None
         \/ \E w \in Worker : Step(w) /\ job[w].key = k /\ lock[k] = w
<1>a. row \in [Key -> SessionRow \cup {None}] /\ LockInv
  BY Zenon DEF RowInv, LockInv, TypeOK
<1>1. ASSUME NEW i \in Key, Revoke(i) PROVE row'[k] = None
  BY <1>a, <1>1, Zenon DEF Revoke
<1>2. ASSUME NEW w \in Worker, Step(w) PROVE job[w].key = k /\ lock[k] = w
  <2>1. job[w].key = k
    BY <1>a, <1>2, StepRow, Zenon
  <2>2. pc[w] \in Critical
    BY <1>a, <1>2, StepCases, Zenon DEF LockInv
  <2> QED BY <1>a, <2>1, <2>2, Zenon DEF LockInv, Holds
<1> QED
  BY <1>1, <1>2, Zenon
  DEF Next, vars, Admit, StartBootstrap, Tick, NextPending, Acquire, Cancel, Bind,
      PublishCatalog, Advance, Crash, HandleOrphan

\* In-flight refreshes never bring a revoked session back.
THEOREM NoResurrection == Spec => RevokedStaysRevoked
<1>1. ASSUME RowInv, [Next]_vars, NEW k \in Key, NewSession(k)
      PROVE  /\ row[k] = None
             /\ lock[k] \in Operator
             /\ row'[k].rt = job[lock[k]].rt
  <2>1. PICK w \in Worker : Step(w) /\ job[w].key = k /\ lock[k] = w
    BY <1>1, RowChange, Zenon DEF NewSession
  <2> QED BY <1>1, <2>1, StepEffect, Zenon DEF NewSession
<1>2. RowInv /\ [Next]_vars => OnlyBootstrapCreates
  BY <1>1, Zenon DEF OnlyBootstrapCreates
<1> QED BY <1>2, RowInvariant, PTL DEF Spec, RevokedStaysRevoked

\* The degraded flag is only ever cleared together with the row.
THEOREM StickyDegraded == Spec => DegradedIsSticky
<1>1. ASSUME RowInv, [Next]_vars, NEW k \in Key,
             row[k] # None, row'[k] # None, row[k].degraded
      PROVE  row'[k].degraded
  <2>1. CASE row'[k] = row[k]
    BY <1>1, <2>1, Zenon
  <2>2. CASE row'[k] # row[k]
    <3>1. PICK w \in Worker : Step(w) /\ job[w].key = k /\ lock[k] = w
      BY <1>1, <2>2, RowChange, Zenon
    <3> QED BY <1>1, <3>1, StepEffect, Zenon
  <2> QED BY <2>1, <2>2, Zenon
<1>2. RowInv /\ [Next]_vars => StaysDegraded
  BY <1>1, Zenon DEF StaysDegraded
<1> QED BY <1>2, RowInvariant, PTL DEF Spec, DegradedIsSticky

\* No request is ever served from a degraded session or an expiring token, but
\* for the token its own exchange has just obtained.
THEOREM ServesOnlyHealthy == Spec => ServedIsHealthy
<1>1. ASSUME RowInv, [Next]_vars, NEW r \in Request,
             served'[r] # None, served'[r] # served[r]
      PROVE  /\ ~served'[r].degraded
             /\ \/ served'[r].tok # NoToken /\ served'[r].exp > now + ProxyMargin
                \/ pc[r] = "readback" /\ served'[r].tok = job[r].newTok
  <2>a. served \in [Request -> SessionRow \cup {None}] /\ TypeOK /\ LockInv
        /\ r \in Worker
    BY <1>1, Zenon DEF RowInv, LockInv, TypeOK, Worker
  <2>1. CASE ReadForRequest(r) /\ Serve(r)
    <3> DEFINE s == row[job[r].key]
    <3>1. Healthy(s) /\ ~NeedsRefresh(s)
      <4>1. s # None
        BY <1>1, <2>1, <2>a, Zenon DEF Serve
      <4>2. served'[r] = s
        BY <2>1, <2>a, Zenon DEF Serve
      <4> QED BY <1>1, <2>1, <4>1, <4>2, Zenon DEF ReadForRequest
    <3>2. served'[r] = s /\ job[r].key \in Key
      BY <2>1, <2>a, Zenon DEF Serve, ReadForRequest, LockInv, HasKey
    <3>3. s.exp \in Nat /\ now \in Nat
      BY <2>a, <3>1, <3>2, Zenon DEF TypeOK, SessionRow, Healthy
    <3>4. s.tok # NoToken /\ ~(s.exp <= now + ProxyMargin) /\ ~s.degraded
      BY <3>1, Zenon DEF Healthy, NeedsRefresh
    <3>5. s.exp > now + ProxyMargin
      BY <3>3, <3>4, NumbersAssumption
    <3> QED BY <3>2, <3>4, <3>5, Zenon
  <2>2. CASE Readback(r) /\ Serve(r)
    <3>1. served'[r] = row[job[r].key]
      BY <2>2, <2>a, Zenon DEF Serve
    <3> QED BY <1>1, <2>2, <2>a, <3>1, Zenon DEF Readback, RowInv, OwnRow, Exchanging
  <2>3. ASSUME NEW q \in Request, NEW a \in Agent, NEW k \in Key, Admit(q, a, k)
        PROVE  FALSE
    BY <1>1, <2>3, <2>a, Zenon DEF Admit
  <2>4. served' # served
    BY <1>1, Zenon
  <2>5. PICK w \in Worker : Step(w)
    BY <1>1, <2>3, <2>4, Zenon
    DEF Next, vars, StartBootstrap, Tick, NextPending, Acquire, Cancel, Bind,
        PublishCatalog, Advance, Crash, HandleOrphan, Revoke
  <2>6. Readback(w) \/ (w \in Request /\ ReadForRequest(w))
    BY <2>4, <2>5, Zenon
    DEF Step, CheckSelection, SelectSource, ReadForTask, CreateRow, Post, Grant,
        Refuse, Persist, PersistError, MarkDegraded, Rollback, ReadError
  <2>7. w = r /\ Serve(r)
    BY <1>1, <2>a, <2>6, Zenon DEF Readback, ReadForRequest, Serve
  <2>8. Readback(r) \/ ReadForRequest(r)
    BY <2>6, <2>7, Zenon
  <2> QED BY <2>1, <2>2, <2>7, <2>8, Zenon
<1>2. RowInv /\ [Next]_vars => ServesHealthy
  BY <1>1, Zenon DEF ServesHealthy
<1> QED BY <1>2, RowInvariant, PTL DEF Spec, ServedIsHealthy

-----------------------------------------------------------------------------
(***************************************************************************)
(* Where nothing is cancelled, the daemon does not crash and the database  *)
(* works: no refresh token is used twice, and no bootstrap is left half    *)
(* done.                                                                   *)
(***************************************************************************)

\* A bootstrap that has created its row and not finished its first exchange.
Starting(w) ==
    w \in Operator /\ pc[w] \in {"post", "sent", "persist", "rollback"}

\* A worker that will replace, degrade or delete the row it works on, or a
\* bootstrap that has not been answered.
Resolving(w) ==
    \/ pc[w] \in {"persist", "degrade", "rollback"}
    \/ w \in Operator /\ pc[w] \in {"post", "sent"}

\* The refresh tokens session k's row and workers know.
Tokens(k) ==
    {row[i].rt : i \in {j \in {k} : row[j] # None}}
      \cup ((UNION {{job[w].rt, job[w].newRt} : w \in {v \in Worker : job[v].key = k}})
              \ {NoToken})

\* They are tokens that have been issued, and no two sessions know the same.
Apart ==
    /\ \A k \in Key : Tokens(k) \subseteq 1..issued
    /\ \A k, i \in Key : k # i => Tokens(k) \cap Tokens(i) = {}

\* What worker w may rely on about the refresh token it has read, and about
\* the answer it is about to store.
Turn(w) ==
    /\ pc[w] \in {"idle", "next"} => job[w] = NoJob
    /\ pc[w] \in {"lock", "create"} /\ w \in Operator => job[w].rt # NoToken
    /\ pc[w] \in {"post", "sent", "persist"} =>
         /\ job[w].rt # NoToken
         /\ row[job[w].key] # None => row[job[w].key].rt = job[w].rt
    /\ pc[w] = "post" /\ w \notin Operator => job[w].rt \notin superseded
    /\ pc[w] = "persist" =>
         /\ job[w].newTok # NoToken
         /\ job[w].newRt = NoToken => job[w].rt \notin superseded
         /\ job[w].newRt # NoToken => job[w].newRt \notin superseded

\* A row without an access token, or a healthy one with a refresh token the
\* provider no longer takes, is in the hands of a worker that will deal with it.
Settled(k) ==
    row[k] # None =>
      /\ row[k].tok = NoToken => \E w \in Worker : job[w].key = k /\ Starting(w)
      /\ ~row[k].degraded /\ row[k].rt \in superseded =>
           \E w \in Worker : job[w].key = k /\ Resolving(w)

Quiet ==
    /\ orphans = {}
    /\ superseded \subseteq 0..issued
    /\ Apart
    /\ \A w \in Worker : Turn(w)
    /\ \A k \in Key : Settled(k)

QuietInv == RowInv /\ Quiet

\* The tokens of a session are that of its row and those of its workers.
LEMMA TokensAre ==
  ASSUME NEW k
  PROVE  /\ \A t : t \in Tokens(k) <=>
                \/ row[k] # None /\ t = row[k].rt
                \/ \E w \in Worker : /\ job[w].key = k /\ t # NoToken
                                     /\ t \in {job[w].rt, job[w].newRt}
         /\ \A t : t \in Tokens(k)' <=>
                \/ row'[k] # None /\ t = row'[k].rt
                \/ \E w \in Worker : /\ job'[w].key = k /\ t # NoToken
                                     /\ t \in {job'[w].rt, job'[w].newRt}
  BY Zenon DEF Tokens

\* Tokens stay apart when a session learns no token but a new one.
LEMMA StayApart ==
  ASSUME Apart, issued \in Nat, issued' \in Nat, NEW x,
         issued' = issued \/ issued' = issued + 1,
         \A k \in Key : \A t \in Tokens(k)' :
            t \in Tokens(k) \/ (k = x /\ t = issued' /\ issued' = issued + 1)
  PROVE  Apart'
<1>1. ASSUME NEW k \in Key, NEW t \in Tokens(k)' PROVE t \in 1..issued'
  <2>1. CASE t \in Tokens(k)
    <3>1. t \in 1..issued
      BY <2>1, Zenon DEF Apart
    <3> QED BY <3>1
  <2> QED BY <1>1, <2>1
<1>2. ASSUME NEW k \in Key, NEW i \in Key, NEW t \in Tokens(k)', t \in Tokens(i)'
      PROVE k = i
  <2>1. ASSUME NEW j \in Key, t \in Tokens(j), issued' = issued + 1 PROVE t # issued'
    <3>1. t \in 1..issued
      BY <2>1, Zenon DEF Apart
    <3> QED BY <2>1, <3>1
  <2> QED BY <1>2, <2>1, Zenon DEF Apart
<1> QED BY <1>1, <1>2, Zenon DEF Apart

\* A worker that a step leaves alone.
LEMMA TurnFrame ==
  ASSUME LockInv, NEW v \in Worker, Turn(v), pc'[v] = pc[v], job'[v] = job[v],
         pc[v] \in Critical =>
            /\ row'[job[v].key] \in {row[job[v].key], None}
            /\ superseded' \cap Tokens(job[v].key) \subseteq superseded
  PROVE  Turn(v)'
<1>1. \A t \in {job[v].rt, job[v].newRt} : t # NoToken => t \in Tokens(job[v].key)
  BY TokensAre, Zenon
<1>2. {"post", "sent", "persist"} \subseteq Critical
  BY Zenon DEF Critical
<1>3. pc[v] \in {"post", "sent", "persist"} =>
        /\ row'[job[v].key] # None => row'[job[v].key].rt = job[v].rt
        /\ \A t \in {job[v].rt, job[v].newRt} :
             t # NoToken /\ t \notin superseded => t \notin superseded'
  BY <1>1, <1>2, Zenon DEF Turn
<1> QED BY <1>3, Zenon DEF Turn

\* A session whose row a step leaves alone or deletes, and whose workers go on.
LEMMA SettledFrame ==
  ASSUME NEW k \in Key, Settled(k), row'[k] \in {row[k], None},
         superseded' \cap Tokens(k) \subseteq superseded,
         \A v \in Worker : job[v].key = k /\ Starting(v)
            => job'[v].key = k /\ Starting(v)',
         \A v \in Worker : job[v].key = k /\ Resolving(v)
            => job'[v].key = k /\ Resolving(v)'
  PROVE  Settled(k)'
<1>1. row[k] # None => row[k].rt \in Tokens(k)
  BY TokensAre, Zenon
<1> QED BY <1>1, Zenon DEF Settled

\* What a step of w may do to the tokens: it stores only tokens the session
\* knows, it spends only its own, and it learns one new token at most.
Tame(w) ==
    /\ row'[job[w].key] # None => row'[job[w].key].rt \in Tokens(job[w].key)
    /\ superseded' \subseteq superseded \cup {job[w].rt}
    /\ orphans' = orphans
    /\ issued' = issued \/ issued' = issued + 1
    /\ \/ job'[w] = NoJob
       \/ /\ job'[w].key = job[w].key
          /\ \A t \in {job'[w].rt, job'[w].newRt} :
               \/ t \in Tokens(job[w].key) \cup {NoToken}
               \/ t = issued' /\ issued' = issued + 1

Tamed(w) ==
    Tame(w) /\ Turn(w)' /\ \A k \in Key : k = job[w].key => Settled(k)'

\* What a worker in its critical section may use of the invariant.
LEMMA QuietFacts ==
  ASSUME QuietInv, NEW w \in Worker, pc[w] \in Critical
  PROVE  /\ job \in [Worker -> Job] /\ pc \in [Worker -> PC]
         /\ row \in [Key -> SessionRow \cup {None}]
         /\ issued \in Nat
         /\ job[w].key \in Key
         /\ Turn(w) /\ Settled(job[w].key) /\ Tokens(job[w].key) \subseteq 1..issued
         /\ \A t \in {job[w].rt, job[w].newRt} :
              t \in Tokens(job[w].key) \cup {NoToken}
         /\ row[job[w].key] # None => row[job[w].key].rt \in Tokens(job[w].key)
<1>1. LockInv
  BY Zenon DEF QuietInv, RowInv
<1>2. job \in [Worker -> Job] /\ pc \in [Worker -> PC]
      /\ row \in [Key -> SessionRow \cup {None}] /\ issued \in Nat
  BY <1>1, Zenon DEF LockInv, TypeOK
<1>3. job[w].key \in Key
  BY <1>1, Zenon DEF LockInv, HasKey, Critical
<1>4. Turn(w) /\ Settled(job[w].key) /\ Tokens(job[w].key) \subseteq 1..issued
  BY <1>3, Zenon DEF QuietInv, Quiet, Apart
<1>5. \A t \in {job[w].rt, job[w].newRt} : t \in Tokens(job[w].key) \cup {NoToken}
  BY TokensAre, Zenon
<1>6. row[job[w].key] # None => row[job[w].key].rt \in Tokens(job[w].key)
  BY TokensAre, Zenon
<1> QED BY <1>2, <1>3, <1>4, <1>5, <1>6, Zenon

\* A step that leaves the rows and the provider alone, of a worker that is not
\* to deal with its row or goes on to do so.
LEMMA SettledOn ==
  ASSUME QuietInv, NEW w \in Worker, Step(w), UNCHANGED <<row, superseded>>,
         Starting(w) => Starting(w)' /\ job'[w].key = job[w].key,
         Resolving(w) => Resolving(w)' /\ job'[w].key = job[w].key,
         NEW k \in Key
  PROVE  Settled(k)'
<1>0. LockInv
  BY Zenon DEF QuietInv, RowInv
<1>1. \A v \in Worker \ {w} : pc'[v] = pc[v] /\ job'[v] = job[v]
  BY <1>0, StepLocal, Zenon
<1>2. \A v \in Worker : Starting(v) => job'[v].key = job[v].key /\ Starting(v)'
  BY <1>1, Zenon DEF Starting
<1>3. \A v \in Worker : Resolving(v) => job'[v].key = job[v].key /\ Resolving(v)'
  BY <1>1, Zenon DEF Resolving
<1>4. Settled(k)
  BY Zenon DEF QuietInv, Quiet
<1> QED BY <1>2, <1>3, <1>4, SettledFrame, Zenon

\* A handler that returns without having touched the row.
LEMMA QuietLeave ==
  ASSUME QuietInv, NEW w \in Worker, Step(w), Leave(w),
         pc[w] \in {"check", "select", "read", "create", "readback"},
         UNCHANGED <<row, issued, superseded, orphans>>
  PROVE  Tamed(w)
<1>0. pc[w] \in Critical
  BY Zenon DEF Critical
<1>1. pc'[w] \in {"idle", "next"} /\ job'[w] = NoJob
  BY <1>0, QuietFacts, Zenon DEF Leave, Goto
<1>2. ~Starting(w) /\ ~Resolving(w)
  BY Zenon DEF Starting, Resolving
<1>3. \A k \in Key : Settled(k)'
  BY <1>2, SettledOn, Zenon
<1>4. Tame(w)
  BY <1>0, <1>1, QuietFacts, Zenon DEF Tame
<1>5. Turn(w)'
  BY <1>1, Zenon DEF Turn
<1> QED BY <1>3, <1>4, <1>5, Zenon DEF Tamed

\* A handler that goes on to read the row.
LEMMA QuietSelect ==
  ASSUME QuietInv, NEW w \in Worker, Step(w), Goto(w, "read"),
         pc[w] \in {"check", "select"},
         job'[w].key = job[w].key, job'[w].rt = job[w].rt,
         job'[w].newRt = job[w].newRt,
         UNCHANGED <<row, issued, superseded, orphans>>
  PROVE  Tamed(w)
<1>0. pc[w] \in Critical
  BY Zenon DEF Critical
<1>1. pc'[w] = "read"
  BY <1>0, QuietFacts, Zenon DEF Goto
<1>2. ~Starting(w) /\ ~Resolving(w)
  BY Zenon DEF Starting, Resolving
<1>3. \A k \in Key : Settled(k)'
  BY <1>2, SettledOn, Zenon
<1>4. Tame(w)
  BY <1>0, QuietFacts, Zenon DEF Tame
<1>5. Turn(w)'
  BY <1>1, Zenon DEF Turn
<1> QED BY <1>3, <1>4, <1>5, Zenon DEF Tamed

\* A request or the task that has read a healthy row: the row's refresh token
\* is still good, for no one else holds the lock.
LEMMA QuietRead ==
  ASSUME QuietInv, NEW w \in Worker, w \notin Operator, Step(w), pc[w] = "read",
         Healthy(row[job[w].key]), Remember(w, row[job[w].key]), Goto(w, "post"),
         UNCHANGED <<row, issued, superseded, orphans>>
  PROVE  Tamed(w)
<1>0. pc[w] \in Critical /\ LockInv
  BY Zenon DEF Critical, QuietInv, RowInv
<1>1. pc'[w] = "post"
  BY <1>0, QuietFacts, Zenon DEF Goto
<1>2. /\ job'[w].key = job[w].key
      /\ job'[w].rt = row[job[w].key].rt
      /\ job'[w].newRt = job[w].newRt
  BY <1>0, QuietFacts DEF Remember, Job
<1>3. ~Starting(w) /\ ~Resolving(w)
  BY Zenon DEF Starting, Resolving
<1>4. \A k \in Key : Settled(k)'
  BY <1>3, SettledOn, Zenon
<1>5. row[job[w].key] # None /\ row[job[w].key].rt \in Tokens(job[w].key)
      /\ ~row[job[w].key].degraded
  BY <1>0, QuietFacts, Zenon DEF Healthy
<1>6. Tame(w)
  BY <1>0, <1>2, <1>5, QuietFacts, Zenon DEF Tame
<1>7. row[job[w].key].rt \notin superseded
  <2> SUFFICES ASSUME row[job[w].key].rt \in superseded PROVE FALSE
    BY Zenon
  <2>1. Settled(job[w].key)
    BY <1>0, QuietFacts, Zenon
  <2>2. PICK v \in Worker : job[v].key = job[w].key /\ Resolving(v)
    BY <1>5, <2>1, Zenon DEF Settled
  <2>3. pc[v] \in Critical
    BY <2>2, Zenon DEF Resolving, Critical
  <2>4. v = w
    BY <1>0, <2>2, <2>3, Zenon DEF LockInv, Holds
  <2> QED BY <1>3, <2>2, <2>4, Zenon
<1>8. row[job[w].key].rt # NoToken
  <2>1. row[job[w].key].rt \in 1..issued /\ issued \in Nat
    BY <1>0, <1>5, QuietFacts, Zenon
  <2> QED BY <2>1 DEF NoToken
<1>9. Turn(w)'
  BY <1>1, <1>2, <1>7, <1>8, Zenon DEF Turn
<1> QED BY <1>4, <1>6, <1>9, Zenon DEF Tamed

\* A bootstrap that inserts its row: the row is in its hands.
LEMMA QuietCreate ==
  ASSUME QuietInv, NEW w \in Operator, w \in Worker, CreateRow(w),
         row[job[w].key] = None
  PROVE  Tamed(w)
<1>0. pc[w] \in Critical /\ pc[w] = "create"
  BY Zenon DEF Critical, CreateRow
<1>a. job \in [Worker -> Job] /\ pc \in [Worker -> PC] /\ job[w].key \in Key
      /\ row \in [Key -> SessionRow \cup {None}]
  BY <1>0, QuietFacts, Zenon
<1>1. pc'[w] = "post" /\ UNCHANGED <<issued, superseded, orphans>>
  BY <1>a, Zenon DEF CreateRow, Goto
<1>2. /\ job'[w].key = job[w].key
      /\ job'[w].rt = job[w].rt
      /\ job'[w].newRt = job[w].newRt
  BY <1>a DEF CreateRow, Job
<1>3. row'[job[w].key].rt = job[w].rt
  BY <1>a DEF CreateRow
<1>4. job[w].rt # NoToken
  BY <1>0, QuietFacts, Zenon DEF Turn
<1>5. Tame(w)
  BY <1>0, <1>1, <1>2, <1>3, <1>4, QuietFacts, Zenon DEF Tame
<1>6. Turn(w)'
  BY <1>1, <1>2, <1>3, <1>4, Zenon DEF Turn
<1>7. Starting(w)' /\ Resolving(w)'
  BY <1>1, Zenon DEF Starting, Resolving
<1>8. \A k \in Key : k = job[w].key => Settled(k)'
  BY <1>2, <1>7, Zenon DEF Settled
<1> QED BY <1>5, <1>6, <1>8, Zenon DEF Tamed

\* The request is sent.
LEMMA QuietPost ==
  ASSUME QuietInv, NEW w \in Worker, Post(w), Step(w), Goto(w, "sent")
  PROVE  Tamed(w)
<1>0. pc[w] \in Critical /\ pc[w] = "post" /\ job' = job
      /\ UNCHANGED <<row, issued, superseded, orphans>>
  BY Zenon DEF Critical, Post
<1>1. pc'[w] = "sent"
  BY <1>0, QuietFacts, Zenon DEF Goto
<1>2. /\ Starting(w) => Starting(w)'
      /\ Resolving(w) => Resolving(w)'
  BY <1>0, <1>1, Zenon DEF Starting, Resolving
<1>3. \A k \in Key : Settled(k)'
  BY <1>0, <1>2, SettledOn, Zenon
<1>4. Tame(w)
  BY <1>0, QuietFacts, Zenon DEF Tame
<1>5. Turn(w)'
  <2>1. Turn(w)
    BY <1>0, QuietFacts, Zenon
  <2> QED BY <1>0, <1>1, <2>1, Zenon DEF Turn
<1> QED BY <1>3, <1>4, <1>5, Zenon DEF Tamed

\* The exchange fails: the row is in the hands of the worker, which degrades
\* or deletes it next.
LEMMA QuietFail ==
  ASSUME QuietInv, NEW w \in Worker, Step(w), Fail(w),
         pc[w] \in {"post", "sent", "readback"},
         UNCHANGED <<row, job, issued, orphans>>,
         superseded' \subseteq superseded \cup {job[w].rt}
  PROVE  Tamed(w)
<1>0. pc[w] \in Critical /\ LockInv
  BY Zenon DEF Critical, QuietInv, RowInv
<1>1. pc'[w] \in {"rollback", "degrade"} /\ (w \in Operator => pc'[w] = "rollback")
  BY <1>0, QuietFacts, Zenon DEF Fail, Goto
<1>2. \A v \in Worker \ {w} : pc'[v] = pc[v] /\ job'[v] = job[v]
  BY <1>0, StepLocal, Zenon
<1>3. Resolving(w)'
  BY <1>1, Zenon DEF Resolving
<1>4. \A v \in Worker : Starting(v) => Starting(v)'
  BY <1>1, <1>2, Zenon DEF Starting
<1>5. ASSUME NEW k \in Key, k = job[w].key PROVE Settled(k)'
  <2>1. Settled(k)
    BY Zenon DEF QuietInv, Quiet
  <2> QED BY <1>3, <1>4, <1>5, <2>1, Zenon DEF Settled
<1>6. Tame(w)
  BY <1>0, QuietFacts, Zenon DEF Tame
<1>7. Turn(w)'
  BY <1>1, Zenon DEF Turn
<1> QED BY <1>5, <1>6, <1>7, Zenon DEF Tamed

\* The provider answers: what is to be stored is good, and the row is in the
\* hands of the worker, which stores it next.
LEMMA QuietGrant ==
  ASSUME QuietInv, NEW w \in Worker, Step(w), Grant(w)
  PROVE  Tamed(w)
<1>0. pc[w] \in Critical /\ LockInv /\ pc[w] = "sent"
  BY Zenon DEF Critical, QuietInv, RowInv, Grant
<1>a. job \in [Worker -> Job] /\ pc \in [Worker -> PC] /\ issued \in Nat
      /\ job[w].key \in Key
  BY <1>0, QuietFacts, Zenon
<1>1. pc'[w] = "persist" /\ row' = row /\ orphans' = orphans /\ issued' = issued + 1
  BY <1>a, Zenon DEF Grant, Goto
<1>2. PICK life \in Lifetime, rotate \in BOOLEAN :
        /\ job' = [job EXCEPT ![w].newTok = issued + 1, ![w].newExp = now + life,
                              ![w].newRt = IF rotate THEN issued + 1 ELSE NoToken]
        /\ superseded' = IF rotate THEN superseded \cup {job[w].rt}
                                   ELSE superseded
  BY Zenon DEF Grant
<1>3. /\ job'[w].key = job[w].key
      /\ job'[w].rt = job[w].rt
      /\ job'[w].newTok = issued + 1
      /\ job'[w].newRt = IF rotate THEN issued + 1 ELSE NoToken
  BY <1>a, <1>2 DEF Job
<1>4. \A v \in Worker \ {w} : pc'[v] = pc[v] /\ job'[v] = job[v]
  BY <1>0, StepLocal, Zenon
<1>5. Tame(w)
  BY <1>0, <1>1, <1>2, <1>3, QuietFacts DEF Tame
<1>6. Turn(w)'
  <2>1. /\ job[w].rt # NoToken
        /\ row[job[w].key] # None => row[job[w].key].rt = job[w].rt
    BY <1>0, QuietFacts, Zenon DEF Turn
  <2>2. job[w].rt \in 1..issued
    BY <1>0, <2>1, QuietFacts, Zenon
  <2>3. issued + 1 \notin superseded /\ issued + 1 # NoToken /\ issued + 1 # job[w].rt
    BY <1>a, <2>2 DEF QuietInv, Quiet, NoToken
  <2>4. job[w].rt \notin superseded
    BY Zenon DEF Grant
  <2> QED BY <1>1, <1>2, <1>3, <2>1, <2>3, <2>4 DEF Turn
<1>7. Resolving(w)'
  BY <1>1, Zenon DEF Resolving
<1>8. \A v \in Worker : Starting(v) => Starting(v)' /\ job'[v].key = job[v].key
  BY <1>1, <1>3, <1>4, Zenon DEF Starting
<1>9. ASSUME NEW k \in Key, k = job[w].key PROVE Settled(k)'
  <2>1. Settled(k)
    BY Zenon DEF QuietInv, Quiet
  <2> QED BY <1>1, <1>3, <1>7, <1>8, <1>9, <2>1, Zenon DEF Settled
<1> QED BY <1>5, <1>6, <1>9, Zenon DEF Tamed

\* The refresh token update_tokens leaves in a row that is there.
LEMMA UpdatedToken ==
  ASSUME NEW k \in Key, NEW j \in Job, row \in [Key -> SessionRow \cup {None}],
         row[k] # None
  PROVE  UpdateTokens(k, j)[k].rt = IF j.newRt = NoToken THEN row[k].rt ELSE j.newRt
  BY Zenon DEF UpdateTokens, SessionRow

\* The answer is stored: the row has an access token and a good refresh token.
LEMMA QuietPersist ==
  ASSUME QuietInv, NEW w \in Worker, Persist(w)
  PROVE  Tamed(w)
<1>0. pc[w] \in Critical /\ pc[w] = "persist" /\ job' = job
      /\ UNCHANGED <<issued, superseded, orphans>>
  BY Zenon DEF Critical, Persist
<1>a. job \in [Worker -> Job] /\ pc \in [Worker -> PC] /\ job[w].key \in Key
      /\ row \in [Key -> SessionRow \cup {None}]
  BY <1>0, QuietFacts, Zenon
<1>b. job[w] \in Job
  BY <1>a, Zenon
<1>1. pc'[w] = "readback"
  BY <1>a, Zenon DEF Persist, Goto
<1>2. row' = UpdateTokens(job[w].key, job[w])
  BY Zenon DEF Persist
<1>3. row[job[w].key] = None => row'[job[w].key] = None
  BY <1>2, Zenon DEF UpdateTokens
<1>4. row[job[w].key] # None =>
        /\ row'[job[w].key].tok = job[w].newTok
        /\ row'[job[w].key].rt
             = IF job[w].newRt = NoToken THEN row[job[w].key].rt ELSE job[w].newRt
  BY <1>a, <1>b, <1>2, UpdatedRow, UpdatedToken, Zenon
<1>5. Turn(w)
  BY <1>0, QuietFacts, Zenon
<1>6. row'[job[w].key] # None =>
        /\ row'[job[w].key].tok # NoToken
        /\ row'[job[w].key].rt \notin superseded
        /\ row'[job[w].key].rt \in Tokens(job[w].key)
  BY <1>0, <1>3, <1>4, <1>5, QuietFacts, Zenon DEF Turn
<1>7. Tame(w)
  BY <1>0, <1>6, QuietFacts, Zenon DEF Tame
<1>8. Turn(w)'
  BY <1>1, Zenon DEF Turn
<1>9. \A k \in Key : k = job[w].key => Settled(k)'
  BY <1>0, <1>6, Zenon DEF Settled
<1> QED BY <1>7, <1>8, <1>9, Zenon DEF Tamed

\* The failed exchange's row is degraded, or the failed bootstrap's deleted.
LEMMA QuietGiveUp ==
  ASSUME QuietInv, Faults = {}, NEW w \in Worker, Step(w),
         MarkDegraded(w) \/ Rollback(w)
  PROVE  Tamed(w)
<1>0. pc[w] \in Critical /\ pc[w] \in {"degrade", "rollback"} /\ Leave(w)
      /\ UNCHANGED <<issued, superseded, orphans>> /\ LockInv
  BY Zenon DEF Critical, MarkDegraded, Rollback, QuietInv, RowInv
<1>a. job \in [Worker -> Job] /\ pc \in [Worker -> PC] /\ job[w].key \in Key
      /\ row \in [Key -> SessionRow \cup {None}]
  BY <1>0, QuietFacts, Zenon
<1>1. pc'[w] \in {"idle", "next"} /\ job'[w] = NoJob
  BY <1>0, <1>a, Zenon DEF Leave, Goto
<1>2. \A v \in Worker \ {w} : pc'[v] = pc[v] /\ job'[v] = job[v]
  BY <1>0, StepLocal, Zenon
<1>3. row'[job[w].key] # None =>
        /\ pc[w] = "degrade"
        /\ row[job[w].key] # None
        /\ row'[job[w].key].degraded
        /\ row'[job[w].key].rt = row[job[w].key].rt
        /\ row'[job[w].key].tok = row[job[w].key].tok
  <2>1. CASE MarkDegraded(w)
    <3>1. row' = IF row[job[w].key] = None THEN row
                 ELSE [row EXCEPT ![job[w].key].degraded = TRUE]
      BY <2>1, Zenon DEF MarkDegraded
    <3> QED BY <1>a, <2>1, <3>1, Zenon DEF MarkDegraded, SessionRow
  <2>2. CASE Rollback(w)
    BY <1>a, <2>2, Zenon DEF Rollback
  <2> QED BY <2>1, <2>2, Zenon
<1>4. Tame(w)
  BY <1>0, <1>1, <1>3, QuietFacts, Zenon DEF Tame
<1>5. Turn(w)'
  BY <1>1, Zenon DEF Turn
<1>6. ASSUME NEW k \in Key, k = job[w].key PROVE Settled(k)'
  <2>1. Settled(k)
    BY Zenon DEF QuietInv, Quiet
  <2>2. pc[w] = "degrade" => ~Starting(w)
    BY Zenon DEF Starting
  <2>3. \A v \in Worker : v # w /\ Starting(v) => Starting(v)' /\ job'[v] = job[v]
    BY <1>2, Zenon DEF Starting
  <2> QED BY <1>3, <1>6, <2>1, <2>2, <2>3, Zenon DEF Settled
<1> QED BY <1>4, <1>5, <1>6, Zenon DEF Tamed

\* Every step of a worker in its critical section is one of these.
LEMMA StepTamed ==
  ASSUME QuietInv, Faults = {}, NEW w \in Worker, Step(w)
  PROVE  Tamed(w)
<1>a. job \in [Worker -> Job]
  BY Zenon DEF QuietInv, RowInv, LockInv, TypeOK
<1>b. (w \in Request \/ w = Task) => w \notin Operator
  BY SetsAssumption, Zenon
<1>1. CASE w \in Request /\ CheckSelection(w)
  BY <1>1, QuietLeave, QuietSelect, Zenon DEF CheckSelection
<1>2. CASE w \in Request /\ ReadForRequest(w)
  BY <1>b, <1>2, QuietLeave, QuietRead, Zenon DEF ReadForRequest
<1>3. CASE w = Task /\ SelectSource
  <2>1. ASSUME NEW s, job' = [job EXCEPT ![w].spec = s]
        PROVE  /\ job'[w].key = job[w].key
               /\ job'[w].rt = job[w].rt
               /\ job'[w].newRt = job[w].newRt
    BY <1>a, <2>1, Zenon DEF Job
  <2> QED BY <1>3, <2>1, QuietLeave, QuietSelect, Zenon DEF SelectSource
<1>4. CASE w = Task /\ ReadForTask
  BY <1>b, <1>4, QuietLeave, QuietRead, Zenon DEF ReadForTask, StillPending
<1>5. CASE w \in Operator /\ CreateRow(w)
  BY <1>5, QuietLeave, QuietCreate, Zenon DEF CreateRow
<1>6. CASE Post(w)
  BY <1>6, QuietPost, QuietFail, Zenon DEF Post
<1>7. CASE Grant(w)
  BY <1>7, QuietGrant, Zenon
<1>8. CASE Refuse(w)
  <2>1. superseded' \subseteq superseded \cup {job[w].rt}
    BY <1>8, Zenon DEF Refuse
  <2> QED BY <1>8, <2>1, QuietFail, Zenon DEF Refuse
<1>9. CASE Persist(w)
  BY <1>9, QuietPersist, Zenon
<1>10. CASE Readback(w)
  BY <1>10, QuietLeave, QuietFail, Zenon DEF Readback
<1>11. CASE MarkDegraded(w) \/ Rollback(w)
  BY <1>11, QuietGiveUp, Zenon
<1>12. ~PersistError(w) /\ ~ReadError(w)
  BY Zenon DEF PersistError, ReadError
<1> QED
  BY <1>1, <1>2, <1>3, <1>4, <1>5, <1>6, <1>7, <1>8, <1>9, <1>10, <1>11, <1>12, Zenon
  DEF Step

\* A tame step disturbs no other session and no other worker.
LEMMA StepQuiet ==
  ASSUME QuietInv, Faults = {}, NEW w \in Worker, Step(w)
  PROVE  Quiet'
<1>0. LockInv /\ pc[w] \in Critical /\ RowInv
  BY StepCases, Zenon DEF QuietInv, RowInv, LockInv
<1>1. Tame(w) /\ Turn(w)' /\ \A k \in Key : k = job[w].key => Settled(k)'
  BY StepTamed, Zenon DEF Tamed
<1>2. PICK x \in Key : x = job[w].key
  BY <1>0, QuietFacts, Zenon
<1>3. \A v \in Worker \ {w} : pc'[v] = pc[v] /\ job'[v] = job[v]
  BY <1>0, StepLocal, Zenon
<1>4. \A k \in Key : k # x => row'[k] = row[k]
  BY <1>0, <1>2, StepRow, Zenon
<1>5. issued \in Nat /\ (issued' = issued \/ issued' = issued + 1) /\ Apart
  BY <1>0, <1>1, QuietFacts, Zenon DEF Tame, QuietInv, Quiet
<1>6. job[w].rt \in Tokens(x) \cup {NoToken}
  BY <1>0, <1>2, QuietFacts, Zenon
<1>7. \A k \in Key : NoToken \notin Tokens(k)
  BY <1>5 DEF Apart, NoToken
<1>8. ASSUME NEW k \in Key, k # x PROVE superseded' \cap Tokens(k) \subseteq superseded
  <2>1. job[w].rt \notin Tokens(k)
    BY <1>5, <1>6, <1>7, <1>8, Zenon DEF Apart
  <2> QED BY <1>1, <2>1, Zenon DEF Tame
<1>9. Apart'
  <2>1. ASSUME NEW k \in Key, NEW t \in Tokens(k)'
        PROVE  t \in Tokens(k) \/ (k = x /\ t = issued' /\ issued' = issued + 1)
    <3>1. CASE row'[k] # None /\ t = row'[k].rt
      <4>1. CASE k = x
        BY <1>1, <1>2, <3>1, <4>1, Zenon DEF Tame
      <4>2. CASE k # x
        BY <1>4, <3>1, <4>2, TokensAre
      <4> QED BY <4>1, <4>2, Zenon
    <3>2. ASSUME NEW v \in Worker, job'[v].key = k, t # NoToken,
                 t \in {job'[v].rt, job'[v].newRt}
          PROVE  t \in Tokens(k) \/ (k = x /\ t = issued' /\ issued' = issued + 1)
      <4>1. CASE v = w
        <5>1. job'[w] # NoJob
          BY <3>2, <4>1 DEF NoJob, NoToken
        <5> QED BY <1>1, <1>2, <3>2, <4>1, <5>1, Zenon DEF Tame
      <4>2. CASE v # w
        <5>1. job'[v] = job[v]
          BY <1>3, <4>2, Zenon
        <5> QED BY <3>2, <5>1, TokensAre, Zenon
      <4> QED BY <4>1, <4>2, Zenon
    <3>3. \/ row'[k] # None /\ t = row'[k].rt
          \/ \E v \in Worker : /\ job'[v].key = k /\ t # NoToken
                               /\ t \in {job'[v].rt, job'[v].newRt}
      BY <2>1, TokensAre
    <3> QED BY <3>1, <3>2, <3>3, Zenon
  <2> QED BY <1>5, <2>1, StayApart
<1>10. superseded' \subseteq 0..issued'
  <2>1. job[w].rt \in 0..issued
    <3>1. Tokens(x) \subseteq 1..issued
      BY <1>5, Zenon DEF Apart
    <3> QED BY <1>5, <1>6, <3>1 DEF NoToken
  <2>2. superseded \subseteq 0..issued
    BY Zenon DEF QuietInv, Quiet
  <2> QED BY <1>1, <1>5, <2>1, <2>2 DEF Tame
<1>11. ASSUME NEW v \in Worker PROVE Turn(v)'
  <2>1. CASE v = w
    BY <1>1, <2>1, Zenon
  <2>2. CASE v # w
    <3>1. Turn(v) /\ pc'[v] = pc[v] /\ job'[v] = job[v]
      BY <1>3, <2>2, Zenon DEF QuietInv, Quiet
    <3>2. ASSUME pc[v] \in Critical
          PROVE  /\ row'[job[v].key] \in {row[job[v].key], None}
                 /\ superseded' \cap Tokens(job[v].key) \subseteq superseded
      <4>1. row'[job[v].key] = row[job[v].key]
        BY <1>0, <2>2, <3>2, StepOthers, Zenon
      <4>2. job[v].key # x /\ job[v].key \in Key
        BY <1>0, <1>2, <2>2, <3>2, Zenon DEF LockInv, Holds, HasKey, Critical
      <4> QED BY <1>8, <4>1, <4>2, Zenon
    <3> QED BY <1>0, <3>1, <3>2, TurnFrame, Zenon
  <2> QED BY <2>1, <2>2, Zenon
<1>12. ASSUME NEW k \in Key PROVE Settled(k)'
  <2>1. CASE k = x
    BY <1>1, <1>2, <2>1, Zenon
  <2>2. CASE k # x
    <3>1. Settled(k)
      BY Zenon DEF QuietInv, Quiet
    <3>2. \A v \in Worker : job[v].key = k => pc'[v] = pc[v] /\ job'[v] = job[v]
      BY <1>2, <1>3, <2>2, Zenon
    <3>3. \A v \in Worker : job[v].key = k /\ Starting(v)
             => job'[v].key = k /\ Starting(v)'
      BY <3>2, Zenon DEF Starting
    <3>4. \A v \in Worker : job[v].key = k /\ Resolving(v)
             => job'[v].key = k /\ Resolving(v)'
      BY <3>2, Zenon DEF Resolving
    <3> QED BY <1>4, <1>8, <2>2, <3>1, <3>3, <3>4, SettledFrame, Zenon
  <2> QED BY <2>1, <2>2, Zenon
<1>13. orphans' = {}
  BY <1>1, Zenon DEF Tame, QuietInv, Quiet
<1> QED BY <1>9, <1>10, <1>11, <1>12, <1>13, Zenon DEF Quiet

\* A step outside the critical sections that gives at most one session at most
\* one new token, and leaves the rows and the provider's other tokens alone.
LEMMA OutsideQuiet ==
  ASSUME QuietInv, NEW w \in Worker, pc[w] \notin Critical, Turn(w)',
         \A v \in Worker \ {w} : pc'[v] = pc[v] /\ job'[v] = job[v],
         UNCHANGED <<row, orphans>>,
         issued' = issued \/ issued' = issued + 1,
         superseded' \subseteq superseded \cup ({issued'} \ {issued}),
         \/ job'[w] = job[w]
         \/ job'[w].rt = NoToken /\ job'[w].newRt = NoToken
         \/ job'[w].rt = issued' /\ issued' = issued + 1 /\ job'[w].newRt = NoToken
  PROVE  Quiet'
<1>1. LockInv /\ issued \in Nat /\ Apart
  BY Zenon DEF QuietInv, RowInv, LockInv, TypeOK, Quiet
<1>2. ~Starting(w) /\ ~Resolving(w)
  BY Zenon DEF Starting, Resolving, Critical
<1>3. Apart'
  <2>1. ASSUME NEW k \in Key, NEW t \in Tokens(k)'
        PROVE  \/ t \in Tokens(k)
               \/ k = job'[w].key /\ t = issued' /\ issued' = issued + 1
    <3>1. CASE row'[k] # None /\ t = row'[k].rt
      BY <3>1, TokensAre, Zenon
    <3>2. ASSUME NEW v \in Worker, job'[v].key = k, t # NoToken,
                 t \in {job'[v].rt, job'[v].newRt}
          PROVE  \/ t \in Tokens(k)
                 \/ k = job'[w].key /\ t = issued' /\ issued' = issued + 1
      <4>1. CASE job'[v] = job[v]
        BY <3>2, <4>1, TokensAre, Zenon
      <4>2. CASE job'[v] # job[v]
        BY <3>2, <4>2, Zenon
      <4> QED BY <4>1, <4>2, Zenon
    <3>3. \/ row'[k] # None /\ t = row'[k].rt
          \/ \E v \in Worker : /\ job'[v].key = k /\ t # NoToken
                               /\ t \in {job'[v].rt, job'[v].newRt}
      BY <2>1, TokensAre
    <3> QED BY <3>1, <3>2, <3>3, Zenon
  <2> QED BY <1>1, <2>1, StayApart
<1>4. \A k \in Key : superseded' \cap Tokens(k) \subseteq superseded
  <2>1. \A k \in Key : Tokens(k) \subseteq 1..issued
    BY <1>1, Zenon DEF Apart
  <2> QED BY <1>1, <2>1
<1>5. superseded' \subseteq 0..issued'
  BY <1>1 DEF QuietInv, Quiet
<1>6. ASSUME NEW v \in Worker PROVE Turn(v)'
  <2>1. Turn(v)
    BY Zenon DEF QuietInv, Quiet
  <2>2. pc[v] \in Critical => job[v].key \in Key
    BY <1>1, Zenon DEF LockInv, HasKey, Critical
  <2> QED BY <1>1, <1>4, <2>1, <2>2, TurnFrame, Zenon
<1>7. ASSUME NEW k \in Key PROVE Settled(k)'
  <2>1. Settled(k)
    BY Zenon DEF QuietInv, Quiet
  <2>2. \A v \in Worker : Starting(v) => job'[v] = job[v] /\ Starting(v)'
    BY <1>2, Zenon DEF Starting
  <2>3. \A v \in Worker : Resolving(v) => job'[v] = job[v] /\ Resolving(v)'
    BY <1>2, Zenon DEF Resolving
  <2> QED BY <1>4, <2>1, <2>2, <2>3, SettledFrame, Zenon
<1> QED BY <1>3, <1>5, <1>6, <1>7, Zenon DEF Quiet, QuietInv

\* Every step keeps the quiet invariant when there are no faults.
LEMMA NextQuiet ==
  ASSUME QuietInv, Faults = {}, [Next]_vars
  PROVE  QuietInv'
<1>0. LockInv /\ RowInv'
  BY NextRow, Zenon DEF QuietInv, RowInv
<1>a. job \in [Worker -> Job] /\ pc \in [Worker -> PC] /\ issued \in Nat
      /\ row \in [Key -> SessionRow \cup {None}]
  BY <1>0, Zenon DEF LockInv, TypeOK
<1>b. {"idle", "next", "lock"} \cap Critical = {} /\ NoJob.rt = NoToken
      /\ NoJob.newRt = NoToken
  BY Zenon DEF Critical, NoJob, NoToken
<1>c. \A v \in Worker : Turn(v)
  BY Zenon DEF QuietInv, Quiet
<1>1. ASSUME NEW r \in Request, NEW a \in Agent, NEW k \in Key, Admit(r, a, k)
      PROVE  Quiet'
  <2>1. r \in Worker /\ r \notin Operator
    BY SetsAssumption, Zenon DEF Worker
  <2>2. \A v \in Worker \ {r} : pc'[v] = pc[v] /\ job'[v] = job[v]
    BY <1>a, <1>1, Zenon DEF Admit, Goto
  <2>3. pc[r] = "idle" /\ pc'[r] = "lock"
        /\ UNCHANGED <<row, issued, superseded, orphans>>
    BY <1>a, <1>1, <2>1, Zenon DEF Admit, Goto
  <2>4. job'[r].rt = NoToken /\ job'[r].newRt = NoToken
    BY <1>a, <1>1, <2>1, Zenon DEF Admit, NoJob, NoToken
  <2>5. Turn(r)'
    BY <2>1, <2>3, Zenon DEF Turn
  <2>6. pc[r] \notin Critical
    BY <1>b, <2>3, Zenon
  <2> QED BY <2>1, <2>2, <2>3, <2>4, <2>5, <2>6, OutsideQuiet, Zenon
<1>2. ASSUME NEW b \in Operator, NEW k \in Key, StartBootstrap(b, k)
      PROVE  Quiet'
  <2>1. b \in Worker
    BY Zenon DEF Worker
  <2>2. \A v \in Worker \ {b} : pc'[v] = pc[v] /\ job'[v] = job[v]
    BY <1>a, <1>2, Zenon DEF StartBootstrap, Goto
  <2>3. pc[b] = "idle" /\ pc'[b] = "lock" /\ UNCHANGED <<row, orphans>>
        /\ issued' = issued + 1
    BY <1>a, <1>2, <2>1, Zenon DEF StartBootstrap, Goto
  <2>4. job'[b].rt = issued' /\ job'[b].newRt = NoToken
    BY <1>a, <1>2, <2>1, Zenon DEF StartBootstrap, NoJob, NoToken
  <2>5. superseded' \subseteq superseded \cup ({issued'} \ {issued})
    BY <1>a, <1>2, <2>3 DEF StartBootstrap
  <2>6. Turn(b)'
    BY <1>a, <2>3, <2>4 DEF Turn, NoToken
  <2>7. pc[b] \notin Critical
    BY <1>b, <2>3, Zenon
  <2> QED BY <2>1, <2>2, <2>3, <2>4, <2>5, <2>6, <2>7, OutsideQuiet, Zenon
<1>d. Task \in Worker /\ Task \notin Operator
  BY SetsAssumption, Zenon DEF Worker
<1>3. ASSUME Tick PROVE Quiet'
  <2>1. \A v \in Worker \ {Task} : pc'[v] = pc[v] /\ job'[v] = job[v]
    BY <1>a, <1>3, Zenon DEF Tick, Goto
  <2>2. pc[Task] = "idle" /\ pc'[Task] = "next" /\ job'[Task] = job[Task]
        /\ UNCHANGED <<row, issued, superseded, orphans>>
    BY <1>a, <1>d, <1>3, Zenon DEF Tick, Goto
  <2>3. Turn(Task)'
    BY <1>c, <1>d, <2>2, Zenon DEF Turn
  <2>4. pc[Task] \notin Critical
    BY <1>b, <2>2, Zenon
  <2>5. superseded' \subseteq superseded \cup ({issued'} \ {issued})
    BY <2>2, Zenon
  <2> QED BY <1>d, <2>1, <2>2, <2>3, <2>4, <2>5, OutsideQuiet, Zenon
<1>4. ASSUME NextPending PROVE Quiet'
  <2>1. \A v \in Worker \ {Task} : pc'[v] = pc[v] /\ job'[v] = job[v]
    BY <1>a, <1>4, Zenon DEF NextPending, Goto
  <2>2. pc[Task] = "next" /\ UNCHANGED <<row, issued, superseded, orphans>>
    BY <1>4, Zenon DEF NextPending
  <2>3. job[Task] = NoJob
    BY <1>c, <1>d, <2>2, Zenon DEF Turn
  <2>4. job'[Task].rt = NoToken /\ job'[Task].newRt = NoToken
    <3>1. ASSUME NEW i, job' = [job EXCEPT ![Task].key = i]
          PROVE  job'[Task].rt = job[Task].rt /\ job'[Task].newRt = job[Task].newRt
      BY <1>a, <1>d, <3>1, Zenon DEF Job
    <3> QED BY <1>b, <1>4, <2>3, <3>1, Zenon DEF NextPending
  <2>5. Turn(Task)'
    <3>1. \/ pc'[Task] \in {"idle", "next"} /\ job'[Task] = NoJob
          \/ pc'[Task] = "lock"
      BY <1>a, <1>d, <1>4, <2>3, Zenon DEF NextPending, Goto
    <3> QED BY <1>d, <3>1, Zenon DEF Turn
  <2>6. pc[Task] \notin Critical
    BY <1>b, <2>2, Zenon
  <2> QED BY <1>d, <2>1, <2>2, <2>4, <2>5, <2>6, OutsideQuiet, Zenon
<1>5. ASSUME NEW w \in Worker, Acquire(w) PROVE Quiet'
  <2>1. \A v \in Worker \ {w} : pc'[v] = pc[v] /\ job'[v] = job[v]
    BY <1>a, <1>5, Zenon DEF Acquire, Goto
  <2>2. pc[w] = "lock" /\ pc'[w] = AfterLock(w) /\ job'[w] = job[w]
        /\ UNCHANGED <<row, issued, superseded, orphans>>
    BY <1>a, <1>5, Zenon DEF Acquire, Goto
  <2>3. AfterLock(w) \in {"check", "select", "create"}
    BY Zenon DEF AfterLock
  <2>4. Turn(w)'
    BY <1>c, <2>2, <2>3, Zenon DEF Turn
  <2>5. pc[w] \notin Critical
    BY <1>b, <2>2, Zenon
  <2>6. superseded' \subseteq superseded \cup ({issued'} \ {issued})
    BY <2>2, Zenon
  <2> QED BY <2>1, <2>2, <2>4, <2>5, <2>6, OutsideQuiet, Zenon
<1>6. ASSUME NEW w \in Worker, Step(w) PROVE Quiet'
  BY <1>6, StepQuiet, Zenon
<1>7. ~Crash /\ ~HandleOrphan /\ \A w \in Worker : ~Cancel(w)
  BY Zenon DEF Crash, HandleOrphan, Cancel, QuietInv, Quiet
<1>8. ASSUME row' = row, pc' = pc, job' = job, issued' = issued,
             superseded' = superseded, orphans' = orphans
      PROVE  Quiet'
  <2>1. Apart'
    BY <1>8 DEF QuietInv, Quiet, Apart, Tokens
  <2>2. \A w \in Worker : Turn(w)'
    BY <1>8, Zenon DEF QuietInv, Quiet, Turn
  <2>3. \A k \in Key : Settled(k)'
    BY <1>8 DEF QuietInv, Quiet, Settled, Starting, Resolving
  <2> QED BY <1>8, <2>1, <2>2, <2>3, Zenon DEF QuietInv, Quiet
<1>9. ASSUME NEW k \in Key, Revoke(k) PROVE Quiet'
  <2>1. UNCHANGED <<pc, job, issued, superseded, orphans>>
    BY <1>9, Zenon DEF Revoke
  <2>2. \A i \in Key : row'[i] \in {row[i], None}
    BY <1>a, <1>9, Zenon DEF Revoke
  <2>3. \A i \in Key : Tokens(i)' \subseteq Tokens(i)
    BY <2>1, <2>2, Zenon DEF Tokens
  <2>4. Apart'
    BY <2>1, <2>3, Zenon DEF Apart, QuietInv, Quiet
  <2>5. \A v \in Worker : Turn(v)'
    <3>1. \A v \in Worker :
            pc[v] \in Critical => row'[job[v].key] \in {row[job[v].key], None}
      BY <1>0, <2>2, Zenon DEF LockInv, HasKey, Critical
    <3> QED BY <1>0, <1>c, <2>1, <3>1, TurnFrame, Zenon
  <2>6. ASSUME NEW i \in Key PROVE Settled(i)'
    <3>1. \A v \in Worker : job[v].key = i /\ Starting(v)
             => job'[v].key = i /\ Starting(v)'
      BY <2>1, Zenon DEF Starting
    <3>2. \A v \in Worker : job[v].key = i /\ Resolving(v)
             => job'[v].key = i /\ Resolving(v)'
      BY <2>1, Zenon DEF Resolving
    <3>3. Settled(i) /\ row'[i] \in {row[i], None}
          /\ superseded' \cap Tokens(i) \subseteq superseded
      BY <2>1, <2>2, Zenon DEF QuietInv, Quiet
    <3> QED BY <3>1, <3>2, <3>3, SettledFrame, Zenon
  <2> QED BY <2>1, <2>4, <2>5, <2>6, Zenon DEF QuietInv, Quiet
<1>10. ASSUME NEW a, NEW k \in Key, NEW s, Bind(a, k, s) PROVE Quiet'
  BY <1>8, <1>10, Zenon DEF Bind
<1>11. ASSUME NEW k \in Key, NEW s, PublishCatalog(k, s) PROVE Quiet'
  BY <1>8, <1>11, Zenon DEF PublishCatalog
<1>12. ASSUME Advance PROVE Quiet'
  BY <1>8, <1>12, Zenon DEF Advance
<1>13. ASSUME UNCHANGED vars PROVE Quiet'
  BY <1>8, <1>13, Zenon DEF vars
<1>14. Quiet'
  BY <1>1, <1>2, <1>3, <1>4, <1>5, <1>6, <1>7, <1>9, <1>10, <1>11, <1>12, <1>13, Zenon
  DEF Next
<1> QED BY <1>0, <1>14, Zenon DEF QuietInv

\* The daemon starts without sessions.
LEMMA InitQuiet == Init => QuietInv
<1>1. Init => RowInv
  BY InitLock, Zenon DEF Init, RowInv, OwnRow, Exchanging
<1>2. ASSUME Init PROVE Quiet
  <2>1. ASSUME NEW k \in Key PROVE Tokens(k) = {}
    BY <1>2, TokensAre, Zenon DEF Init, NoJob, NoToken
  <2>2. Apart
    BY <2>1, Zenon DEF Apart
  <2>3. (\A w \in Worker : Turn(w)) /\ (\A k \in Key : Settled(k))
    BY <1>2, Zenon DEF Init, Turn, Settled
  <2> QED BY <1>2, <2>2, <2>3, Zenon DEF Init, Quiet
<1> QED BY <1>1, <1>2, Zenon DEF QuietInv

\* The inductive invariant of the refresh tokens, where nothing is cancelled,
\* crashes or fails in the database: a healthy row whose refresh token is spent
\* is in the hands of the worker that will store the new one, degrade the row
\* or delete it (refresh_selected_session, op_oauth_bootstrap).
THEOREM QuietInvariant == ASSUME Faults = {} PROVE Spec => []QuietInv
<1>1. QuietInv /\ [Next]_vars => QuietInv'
  BY NextQuiet, Zenon
<1> QED BY <1>1, InitQuiet, PTL DEF Spec

\* A refresh token the provider has rotated away is never taken from the store
\* and presented again by a request or by the background task.
THEOREM NeverReplays == Spec => []NoReplay
<1>1. ASSUME Faults = {} PROVE Spec => []NoReplay
  <2>1. QuietInv => NoReplay
    <3>1. /\ Request \cup {Task} \subseteq Worker
          /\ (Request \cup {Task}) \cap Operator = {}
      BY SetsAssumption, Zenon DEF Worker
    <3> QED BY <3>1, Zenon DEF QuietInv, Quiet, Turn, NoReplay
  <2>2. Spec => []QuietInv
    BY <1>1, QuietInvariant, Zenon
  <2> QED BY <2>1, <2>2, PTL
<1>2. ASSUME ~(Faults = {}) PROVE Spec => []NoReplay
  <2>1. NoReplay
    BY <1>2, Zenon DEF NoReplay
  <2> QED BY <2>1, PTL
<1> QED BY <1>1, <1>2, Zenon

\* A failed bootstrap leaves no row behind: a session without an access token
\* is only seen while its bootstrap holds the lock.
THEOREM NothingHalfDone == Spec => []HalfBootstrapped
<1>1. ASSUME Faults = {} PROVE Spec => []HalfBootstrapped
  <2>1. ASSUME QuietInv, NEW k \in Key, row[k] # None, row[k].tok = NoToken
        PROVE  lock[k] \in Operator
    <3>1. PICK w \in Worker : job[w].key = k /\ Starting(w)
      BY <2>1, Zenon DEF QuietInv, Quiet, Settled
    <3>2. pc[w] \in Critical /\ w \in Operator
      BY <3>1, Zenon DEF Starting, Critical
    <3> QED BY <2>1, <3>1, <3>2, Zenon DEF QuietInv, RowInv, LockInv, Holds
  <2>2. QuietInv => HalfBootstrapped
    BY <2>1, Zenon DEF HalfBootstrapped
  <2>3. Spec => []QuietInv
    BY <1>1, QuietInvariant, Zenon
  <2> QED BY <2>2, <2>3, PTL
<1>2. ASSUME ~(Faults = {}) PROVE Spec => []HalfBootstrapped
  <2>1. HalfBootstrapped
    BY <1>2, Zenon DEF HalfBootstrapped
  <2> QED BY <2>1, PTL
<1> QED BY <1>1, <1>2, Zenon
=============================================================================
