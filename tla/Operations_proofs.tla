------------------------- MODULE Operations_proofs --------------------------
(***************************************************************************)
(* Proofs about what runs beside the requests: the daemon, the loader of   *)
(* the seed catalog and the op:// cache.                                   *)
(*                                                                         *)
(* For any number of tasks, listeners of any kind and any number of        *)
(* connections: the daemon stops when it is told to, and its result is     *)
(* true.  For any names, versions and catalogs: the recorded version is    *)
(* applied, and the disabled flags are the operators'.  For any references *)
(* and calls: the cache follows the references in use.                     *)
(*                                                                         *)
(* The inductive invariant of the daemon has three parts.  Heard is what   *)
(* the latch, the Notify and the futures agree on; Serving says that       *)
(* nobody stops before the latch is set, which needs Heard; Draining ties  *)
(* connections to the state of their listener, spawned once, and the       *)
(* result to the state of the tasks.                                       *)
(***************************************************************************)
EXTENDS Daemon, SeedCatalog, OpReferences, TLAPS

Heard ==
    /\ rung => triggered
    /\ \A w \in Waiter : /\ late[w] => triggered
                         /\ wait[w] = "parked" => ~late[w]
                         /\ wait[w] = "fired" => triggered

Serving ==
    /\ main \in {"join", "clean", "timeout", "error"} => triggered
    /\ \A t \in Task : task[t] \in {"draining", "ended"} => triggered

Draining ==
    /\ \A c \in Conn :
         /\ conn[c].state = "open" =>
              /\ conn[c].at \in Listener
              /\ kind[conn[c].at] = "graceful" =>
                   task[conn[c].at] \in {"serving", "draining"}
         /\ conn[c].state = "cut" /\ main \in {"boot", "await", "join", "clean"} =>
              kind[conn[c].at] # "graceful"
    /\ \A i \in DOMAIN Order : i > born => task[Order[i]] = "unborn"
    /\ main = "clean" => /\ \A t \in Task : task[t] \in {"ended", "failed"}
                         /\ \A l \in Listener : task[l] # "failed"
    /\ main = "error" => \E l \in Listener : task[l] = "failed"

DaemonInv == TypeOK /\ Heard /\ Serving /\ Draining

-----------------------------------------------------------------------------
(***************************************************************************)
(* The steps, by what they leave alone.                                    *)
(***************************************************************************)

SignalStep == Signal \/ Ring \/ \E w \in Waiter : Await(w)

ListenerStep == \E l \in Listener : Bind(l) \/ BindFails(l) \/ Stop(l) \/ Drained(l) \/ Cut(l)

ConnStep ==
    \/ \E l \in Listener, c \in Conn : Accept(l, c)
    \/ \E c \in Conn : Finish(c)

SweeperStep == \E s \in Sweeper : Sweep(s) \/ Swept(s) \/ Retire(s)

RunStep == Spawn \/ Booted \/ Told

ExitStep == BootFails \/ Joined \/ Expire

\* Every step of Next is one of these.
LEMMA Steps ==
    Next => SignalStep \/ ListenerStep \/ ConnStep \/ SweeperStep \/ RunStep \/ ExitStep
  BY Zenon DEF Next, SignalStep, ListenerStep, ConnStep, SweeperStep, RunStep, ExitStep

\* Which variables a step of each group can change.
LEMMA Frames ==
    /\ SignalStep => Running /\ UNCHANGED <<kind, task, born, conn, main>>
    /\ ListenerStep => Running /\ UNCHANGED <<triggered, rung, wait, late, kind, born, main>>
    /\ ConnStep => Running /\ UNCHANGED <<triggered, rung, wait, late, kind, task, born, main>>
    /\ SweeperStep => Running /\ UNCHANGED <<triggered, rung, wait, late, kind, born, conn, main>>
    /\ RunStep => Running /\ UNCHANGED <<triggered, rung, wait, late, kind, conn>>
    /\ ExitStep => Running /\ UNCHANGED <<triggered, rung, kind, task, born>>
  <1>1. SignalStep => Running /\ UNCHANGED <<kind, task, born, conn, main>>
    BY Zenon DEF SignalStep, Signal, Ring, Await, Load, Register, Recheck, Wake
  <1>2. ListenerStep => Running /\ UNCHANGED <<triggered, rung, wait, late, kind, born, main>>
    BY Zenon DEF ListenerStep, Bind, BindFails, Stop, Drained, Cut
  <1>3. ConnStep => Running /\ UNCHANGED <<triggered, rung, wait, late, kind, task, born, main>>
    BY Zenon DEF ConnStep, Accept, Finish
  <1>4. SweeperStep => Running /\ UNCHANGED <<triggered, rung, wait, late, kind, born, conn, main>>
    BY Zenon DEF SweeperStep, Sweep, Swept, Retire
  <1>5. RunStep => Running /\ UNCHANGED <<triggered, rung, wait, late, kind, conn>>
    BY Zenon DEF RunStep, Spawn, Booted, Told, Running, Ended
  <1>6. ExitStep => Running /\ UNCHANGED <<triggered, rung, kind, task, born>>
    BY Zenon DEF ExitStep, BootFails, Joined, Expire, Exit, Running, Ended
  <1>. QED BY <1>1, <1>2, <1>3, <1>4, <1>5, <1>6, Zenon

-----------------------------------------------------------------------------
(***************************************************************************)
(* Each part of the invariant.                                             *)
(***************************************************************************)

\* Initially nobody waits, runs or is connected.
LEMMA DaemonInit == Init => DaemonInv
  <1>. SUFFICES ASSUME Init PROVE DaemonInv
    BY Zenon
  <1>. Len(Order) \in Nat
    BY DaemonAssumption
  <1>1. TypeOK
    <2>1. conn \in [Conn -> Connection]
      BY Zenon DEF Init, Connection
    <2>2. wait \in [Waiter -> {"new", "loaded", "made", "parked", "fired"}]
      BY Zenon DEF Init
    <2>3. late \in [Waiter -> BOOLEAN]
      BY Zenon DEF Init
    <2>4. task \in [Task -> TaskState]
      BY Zenon DEF Init, TaskState
    <2>5. triggered \in BOOLEAN /\ rung \in BOOLEAN /\ kind \in Kinds
      BY Zenon DEF Init
    <2>6. born \in 0..Len(Order) /\ main \in {"boot", "await", "join"}
      BY DEF Init
    <2>. QED BY <2>1, <2>2, <2>3, <2>4, <2>5, <2>6, Zenon DEF TypeOK
  <1>2. Heard
    BY Zenon DEF Init, Heard
  <1>3. Serving
    BY Zenon DEF Init, Serving
  <1>4. Draining
    BY DaemonAssumption, Zenon DEF Init, Draining
  <1>. QED BY <1>1, <1>2, <1>3, <1>4, Zenon DEF DaemonInv

\* Every step keeps the types.
LEMMA DaemonTypes ==
    ASSUME TypeOK, [Next]_vars
    PROVE  TypeOK'
  <1>1. CASE SignalStep
    <2>1. UNCHANGED <<kind, task, born, conn, main>>
      BY <1>1, Frames, Zenon
    <2>2. triggered' \in BOOLEAN /\ rung' \in BOOLEAN
      BY <1>1, Zenon
        DEF SignalStep, Signal, Ring, Await, Load, Register, Recheck, Wake, TypeOK
    <2>3. wait' \in [Waiter -> {"new", "loaded", "made", "parked", "fired"}]
      BY <1>1 DEF SignalStep, Signal, Ring, Await, Load, Register, Recheck, Wake, TypeOK
    <2>4. late' \in [Waiter -> BOOLEAN]
      BY <1>1, Zenon
        DEF SignalStep, Signal, Ring, Await, Load, Register, Recheck, Wake, TypeOK
    <2>. QED BY <2>1, <2>2, <2>3, <2>4, Zenon DEF TypeOK
  <1>2. CASE ListenerStep
    <2>. PICK l \in Listener : Bind(l) \/ BindFails(l) \/ Stop(l) \/ Drained(l) \/ Cut(l)
      BY <1>2, Zenon DEF ListenerStep
    <2>1. task' \in [Task -> TaskState]
      BY DEF TypeOK, Bind, BindFails, Stop, Drained, Cut, Become, Task, TaskState
    <2>2. conn' \in [Conn -> Connection]
      BY DEF TypeOK, Bind, BindFails, Stop, Drained, Cut, Connection
    <2>. QED BY <1>2, <2>1, <2>2, Frames, Zenon DEF TypeOK
  <1>3. CASE ConnStep
    <2>1. conn' \in [Conn -> Connection]
      BY <1>3 DEF ConnStep, Accept, Finish, TypeOK, Connection
    <2>. QED BY <1>3, <2>1, Frames, Zenon DEF TypeOK
  <1>4. CASE SweeperStep
    <2>1. task' \in [Task -> TaskState]
      BY <1>4, Zenon
        DEF SweeperStep, Sweep, Swept, Retire, Become, TypeOK, Task, TaskState
    <2>. QED BY <1>4, <2>1, Frames, Zenon DEF TypeOK
  <1>5. CASE RunStep
    <2>. Len(Order) \in Nat /\ \A i \in 1..Len(Order) : Order[i] \in Task
      BY DaemonAssumption
    <2>1. CASE Spawn
      <3>1. born' \in 0..Len(Order) /\ Order[born'] \in Task
        BY <2>1 DEF Spawn, TypeOK
      <3>2. task' \in [Task -> TaskState]
        BY <2>1, <3>1, Zenon DEF Spawn, Become, FirstState, TypeOK, TaskState
      <3>. QED BY <2>1, <3>1, <3>2, Zenon DEF Spawn, TypeOK
    <2>2. CASE Booted \/ Told
      BY <2>2, Zenon DEF Booted, Told, TypeOK
    <2>. QED BY <1>5, <2>1, <2>2, Zenon DEF RunStep
  <1>6. CASE ExitStep
    <2>. PICK r \in Ended : Exit(r)
      BY <1>6, Zenon DEF ExitStep, BootFails, Joined, Expire, Result, Ended
    <2>1. conn' \in [Conn -> Connection]
      BY DEF Exit, TypeOK, Connection
    <2>. QED BY <2>1, Zenon DEF Exit, TypeOK
  <1>7. CASE UNCHANGED vars
    BY <1>7, Zenon DEF vars, TypeOK
  <1>. QED BY <1>1, <1>2, <1>3, <1>4, <1>5, <1>6, <1>7, Steps, Zenon

\* The second read of the latch keeps whoever registered late from parking.
LEMMA HeardStep ==
    ASSUME TypeOK, Heard, [Next]_vars
    PROVE  Heard'
  <1>1. CASE SignalStep
    <2>1. CASE Signal BY <2>1, Zenon DEF Signal, Heard
    <2>2. CASE Ring BY <2>2, Zenon DEF Ring, Heard
    <2>3. ASSUME NEW w \in Waiter, Load(w) PROVE Heard'
      BY <2>3, Zenon DEF Load, Heard, TypeOK
    <2>4. ASSUME NEW w \in Waiter, Register(w) PROVE Heard'
      BY <2>4, Zenon DEF Register, Heard, TypeOK
    <2>5. ASSUME NEW w \in Waiter, Recheck(w) PROVE Heard'
      BY <2>5, Zenon DEF Recheck, Heard, TypeOK
    <2>6. ASSUME NEW w \in Waiter, Wake(w) PROVE Heard'
      BY <2>6, Zenon DEF Wake, Heard, TypeOK
    <2>. QED BY <1>1, <2>1, <2>2, <2>3, <2>4, <2>5, <2>6, Zenon DEF SignalStep, Await
  <1>2. CASE UNCHANGED <<triggered, rung, wait, late>>
    BY <1>2, Zenon DEF Heard
  <1>3. CASE ExitStep
    BY <1>3 DEF ExitStep, BootFails, Joined, Expire, Exit, Heard
  <1>. QED BY <1>1, <1>2, <1>3, Steps, Frames, Zenon DEF vars

\* A task stops when its future has fired, and run when its own has.
LEMMA ServingStep ==
    ASSUME TypeOK, Heard, Serving, [Next]_vars
    PROVE  Serving'
  <1>1. CASE SignalStep
    <2>1. UNCHANGED <<task, main>>
      BY <1>1, Frames, Zenon
    <2>2. triggered => triggered'
      BY <1>1, Zenon
      DEF SignalStep, Signal, Ring, Await, Load, Register, Recheck, Wake
    <2>. QED BY <2>1, <2>2, Zenon DEF Serving
  <1>2. CASE ListenerStep
    <2>. PICK l \in Listener : Bind(l) \/ BindFails(l) \/ Stop(l) \/ Drained(l) \/ Cut(l)
      BY <1>2, Zenon DEF ListenerStep
    <2>. l \in Waiter /\ l \in Task
      BY Zenon DEF Waiter, Task
    <2>1. CASE Bind(l) \/ BindFails(l)
      BY <2>1, Zenon DEF Bind, BindFails, Become, Serving, TypeOK
    <2>2. CASE Stop(l)
      BY <2>2, Zenon DEF Stop, Become, Serving, Heard, TypeOK
    <2>3. CASE Drained(l) \/ Cut(l)
      BY <2>3, Zenon DEF Drained, Cut, Become, Serving, TypeOK
    <2>. QED BY <2>1, <2>2, <2>3, Zenon
  <1>3. CASE SweeperStep
    <2>. PICK s \in Sweeper : Sweep(s) \/ Swept(s) \/ Retire(s)
      BY <1>3, Zenon DEF SweeperStep
    <2>. s \in Waiter /\ s \in Task
      BY Zenon DEF Waiter, Task
    <2>1. CASE Sweep(s) \/ Swept(s)
      BY <2>1, Zenon DEF Sweep, Swept, Become, Serving, TypeOK
    <2>2. CASE Retire(s)
      BY <2>2, Zenon DEF Retire, Become, Serving, Heard, TypeOK
    <2>. QED BY <2>1, <2>2, Zenon
  <1>4. CASE RunStep
    <2>. Main \in Waiter
      BY Zenon DEF Waiter
    <2>1. CASE Spawn
      BY <2>1, Zenon DEF Spawn, Become, FirstState, Serving, TypeOK
    <2>2. CASE Booted \/ Told
      BY <2>2, Zenon DEF Booted, Told, Serving, Heard
    <2>. QED BY <1>4, <2>1, <2>2, Zenon DEF RunStep
  <1>5. CASE ExitStep
    BY <1>5, Zenon DEF ExitStep, BootFails, Joined, Expire, Exit, Serving
  <1>6. CASE UNCHANGED <<triggered, task, main>>
    BY <1>6, Zenon DEF Serving
  <1>. QED BY <1>1, <1>2, <1>3, <1>4, <1>5, <1>6, Steps, Frames, Zenon DEF vars

\* A connection stays with its listener, and run looks at the tasks as it ends.
LEMMA DrainingStep ==
    ASSUME TypeOK, Draining, [Next]_vars
    PROVE  Draining'
  <1>. /\ Listener \subseteq Task
       /\ Order \in Seq(Task) /\ DOMAIN Order = 1..Len(Order) /\ Len(Order) \in Nat
       /\ \A i \in DOMAIN Order : Order[i] \in Task
       /\ \A i, j \in DOMAIN Order : Order[i] = Order[j] => i = j
    BY DaemonAssumption DEF Task
  <1>. USE DEF Draining
  <1>1. CASE SignalStep
    BY <1>1, Frames
  <1>2. CASE ListenerStep
    <2>. PICK l \in Listener : Bind(l) \/ BindFails(l) \/ Stop(l) \/ Drained(l) \/ Cut(l)
      BY <1>2, Zenon DEF ListenerStep
    <2>. Running /\ UNCHANGED <<kind, main>>
      BY <1>2, Frames, Zenon
    <2>. main \notin {"clean", "error"}
      BY Zenon DEF Running, Ended
    <2>. UNCHANGED born /\ \A i \in DOMAIN Order : Order[i] \in Task
      BY <1>2, Frames, Zenon
    <2>0. \A i \in DOMAIN Order : i > born => task'[Order[i]] = "unborn"
      BY DEF Bind, BindFails, Stop, Drained, Cut, Become, TypeOK
    <2>1. CASE Bind(l)
      BY <2>0, <2>1 DEF Bind, Become, TypeOK
    <2>2. CASE BindFails(l)
      <3>1. \A c \in Conn : conn[c].state = "open" /\ kind[conn[c].at] = "graceful"
                              => conn[c].at # l
        BY <2>2, Zenon DEF BindFails
      <3>. QED BY <2>0, <2>2, <3>1 DEF BindFails, Become, TypeOK
    <2>3. CASE Stop(l)
      BY <2>0, <2>3 DEF Stop, Become, TypeOK
    <2>4. CASE Drained(l)
      <3>1. \A c \in Conn : conn[c].state = "open" => conn[c].at # l
        BY <2>4, Zenon DEF Drained, Open, TypeOK, Connection
      <3>. QED BY <2>0, <2>4, <3>1 DEF Drained, Become, TypeOK
    <2>5. CASE Cut(l)
      <3>1. \A c \in Conn :
              \/ conn'[c] = conn[c] /\ (conn[c].state = "open" => conn[c].at # l)
              \/ conn'[c].state = "cut" /\ conn'[c].at = l
        BY <2>5 DEF Cut, Open, TypeOK, Connection
      <3>2. kind[l] # "graceful" /\ \A k \in Listener : k # l => task'[k] = task[k]
        BY <2>5, Zenon DEF Cut, Become, TypeOK
      <3>3. ASSUME NEW c \in Conn
            PROVE  /\ conn'[c].state = "open" =>
                        /\ conn'[c].at \in Listener
                        /\ kind[conn'[c].at] = "graceful" =>
                             task'[conn'[c].at] \in {"serving", "draining"}
                   /\ conn'[c].state = "cut" /\ main \in {"boot", "await", "join", "clean"} =>
                        kind[conn'[c].at] # "graceful"
        <4>1. CASE conn'[c] = conn[c] /\ (conn[c].state = "open" => conn[c].at # l)
          BY <3>2, <4>1
        <4>2. CASE conn'[c].state = "cut" /\ conn'[c].at = l
          BY <3>2, <4>2, Zenon
        <4>. QED BY <3>1, <4>1, <4>2, Zenon
      <3>. QED BY <2>0, <3>3, Zenon
    <2>. QED BY <2>1, <2>2, <2>3, <2>4, <2>5, Zenon
  <1>3. CASE ConnStep
    <2>. Running /\ UNCHANGED <<kind, main, task, born>>
      BY <1>3, Frames, Zenon
    <2>. main \notin {"clean", "error"}
      BY Zenon DEF Running, Ended
    <2>1. ASSUME NEW l \in Listener, NEW c \in Conn, Accept(l, c) PROVE Draining'
      BY <2>1 DEF Accept, TypeOK
    <2>2. ASSUME NEW c \in Conn, Finish(c) PROVE Draining'
      <3>1. \A d \in Conn : conn'[d] = conn[d] \/ conn'[d].state = "done"
        BY <2>2, Zenon DEF Finish, TypeOK, Connection
      <3>. QED BY <3>1
    <2>. QED BY <1>3, <2>1, <2>2, Zenon DEF ConnStep
  <1>4. CASE SweeperStep
    <2>. PICK s \in Sweeper : Sweep(s) \/ Swept(s) \/ Retire(s)
      BY <1>4, Zenon DEF SweeperStep
    <2>. Running /\ UNCHANGED <<kind, main, conn, born>>
      BY <1>4, Frames, Zenon
    <2>1. main \notin {"clean", "error"}
      BY Zenon DEF Running, Ended
    <2>2. \A l \in Listener : task'[l] = task[l]
      BY DaemonAssumption DEF Sweep, Swept, Retire, Become, TypeOK
    <2>3. \A i \in DOMAIN Order : i > born => task'[Order[i]] = "unborn"
      BY Zenon DEF Sweep, Swept, Retire, Become, TypeOK
    <2>. QED BY <2>1, <2>2, <2>3, Zenon
  <1>5. CASE RunStep
    <2>1. CASE Spawn
      <3>. DEFINE t == Order[born']
      <3>1. born' = born + 1 /\ born \in Nat /\ born' \in DOMAIN Order /\ t \in Task
        BY <2>1 DEF Spawn, TypeOK
      <3>2. task[t] = "unborn"
        BY <3>1
      <3>3. \A x \in Task : x # t => task'[x] = task[x]
        BY <2>1, <3>1, Zenon DEF Spawn, Become, TypeOK
      <3>4. \A i \in DOMAIN Order : i > born' => task'[Order[i]] = "unborn"
        BY <3>1, <3>3
      <3>5. UNCHANGED <<kind, conn, main>> /\ main = "boot"
        BY <2>1, Zenon DEF Spawn
      <3>6. \A c \in Conn : conn[c].state = "open" /\ kind[conn[c].at] = "graceful"
                              => conn[c].at \in Task /\ conn[c].at # t
        BY <3>2, Zenon
      <3>. QED BY <3>3, <3>4, <3>5, <3>6, Zenon
    <2>2. CASE Booted \/ Told
      BY <2>2 DEF Booted, Told
    <2>. QED BY <1>5, <2>1, <2>2, Zenon DEF RunStep
  <1>6. CASE ExitStep
    <2>. UNCHANGED <<kind, task, born>>
      BY <1>6, Frames, Zenon
    <2>1. \A c \in Conn : /\ conn'[c].at = conn[c].at
                          /\ conn'[c].state # "open"
                          /\ conn'[c].state = "cut" => conn[c].state \in {"open", "cut"}
      BY <1>6 DEF ExitStep, BootFails, Joined, Expire, Exit, TypeOK, Connection
    <2>2. main \in {"boot", "join"}
      BY <1>6, Zenon DEF ExitStep, BootFails, Joined, Expire
    <2>3. CASE Joined
      <3>1. main' = Result /\ \A t \in Task : task[t] \in {"ended", "failed"}
        BY <2>3, Zenon DEF Joined, Exit, Over
      <3>. QED BY <2>1, <2>2, <3>1 DEF Result
    <2>4. CASE BootFails \/ Expire
      <3>1. main' \in {"unstarted", "timeout"}
        BY <2>4, Zenon DEF BootFails, Expire, Exit
      <3>. QED BY <2>1, <3>1, Zenon
    <2>. QED BY <1>6, <2>3, <2>4, Zenon DEF ExitStep
  <1>7. CASE UNCHANGED vars
    BY <1>7, Zenon DEF vars
  <1>. QED BY <1>1, <1>2, <1>3, <1>4, <1>5, <1>6, <1>7, Steps, Zenon

-----------------------------------------------------------------------------

\* The inductive invariant of the daemon holds in every state.
THEOREM DaemonInvariant == Spec => []DaemonInv
  <1>1. DaemonInv /\ [Next]_vars => DaemonInv'
    BY DaemonTypes, HeardStep, ServingStep, DrainingStep, Zenon DEF DaemonInv
  <1>. QED BY DaemonInit, <1>1, PTL DEF Spec

\* The types of the daemon are correct.
THEOREM TypeCorrect == Spec => []TypeOK
  <1>1. DaemonInv => TypeOK
    BY Zenon DEF DaemonInv
  <1>. QED BY DaemonInvariant, <1>1, PTL

\* shutdown_signal loses no wake-up, however many tasks wait.
THEOREM EveryoneWakes == Spec => []NoLostWakeup
  <1>1. DaemonInv => NoLostWakeup
    BY Zenon DEF DaemonInv, Heard, NoLostWakeup
  <1>. QED BY DaemonInvariant, <1>1, PTL

\* The daemon serves until the signal: await_shutdown_then_drain.
THEOREM OnlyTheSignalStops == Spec => []ServesUntilTold
  <1>1. DaemonInv => ServesUntilTold
    BY Zenon DEF DaemonInv, Serving, ServesUntilTold
  <1>. QED BY DaemonInvariant, <1>1, PTL

\* A clean exit has cut no connection of a listener that drains, and no DELETE, and
\* the result of run tells whether a listener failed.
THEOREM ResultsAreTrue == Spec => []ResultIsTrue
  <1>1. DaemonInv => ResultIsTrue
    BY Zenon DEF DaemonInv, Draining, ResultIsTrue, Task
  <1>. QED BY DaemonInvariant, <1>1, PTL

-----------------------------------------------------------------------------
(***************************************************************************)
(* The loader of the seed catalog.  The invariant adds to the two          *)
(* properties what a load in progress has applied.                         *)
(***************************************************************************)

\* n has its row, with contents no older than v's, or an operator deleted it.
AppliedTo(n, v) ==
    \/ n \in deleted
    \/ row[n] # NoRow /\ (row[n].seed => row[n].from >= v)

\* While a catalog is applied it is newer than the recorded one, and what has
\* been taken off the list is applied.
Progress ==
    phase = "load" =>
        /\ image \in Version
        /\ version < image
        /\ \A n \in Ships[image] \ todo : AppliedTo(n, image)

SeedInv == SeedTypeOK /\ RecordedIsApplied /\ FlagIsTheOperators /\ Progress

-----------------------------------------------------------------------------

\* What is assumed of versions, catalogs and rows.
LEMMA Catalogs ==
    /\ Version \subseteq Nat \ {0}
    /\ Ships \in [Version -> SUBSET Name]
    /\ ToolLists \subseteq SUBSET Name
    /\ NoRow \notin Row
  BY VersionAssumption, ShipsAssumption, ToolsAssumption, NoRowAssumption

\* Versions are numbers.
LEMMA VersionsAreNumbers ==
  \A v \in {0} \cup Version : v \in Nat
  BY Catalogs

\* What the loader writes is a row, not NoRow, with the image's contents.
LEMMA RefreshedRow ==
  ASSUME SeedTypeOK, NEW n \in Name, image \in Version
  PROVE  /\ Refreshed(n) \in Row
         /\ Refreshed(n) # NoRow
         /\ Refreshed(n).seed = TRUE
         /\ Refreshed(n).from = image
         /\ row[n] = NoRow => Refreshed(n).disabled = FALSE
         /\ row[n] # NoRow => Refreshed(n).disabled = row[n].disabled
<1>1. row[n] # NoRow => row[n].disabled \in BOOLEAN
  BY Zenon DEF SeedTypeOK, Row
<1>2. Refreshed(n) \in Row
  BY <1>1, Zenon DEF Refreshed, Row
<1> QED
  BY <1>2, Catalogs, Zenon DEF Refreshed

\* The database starts empty.
LEMMA InitSeed == SeedInit => SeedInv
  BY Zenon
    DEF SeedInit, SeedInv, SeedTypeOK, RecordedIsApplied, FlagIsTheOperators, Progress

\* Applying an entry keeps the invariant.
LEMMA ApplySeed ==
  ASSUME SeedInv, NEW n \in Name, Apply(n)
  PROVE  SeedInv'
<1>a. SeedTypeOK /\ image \in Version /\ version < image /\ version \in {0} \cup Version
  BY Zenon DEF SeedInv, Apply, Progress, SeedTypeOK
<1>b. row \in [Name -> Row \cup {NoRow}] /\ wish \in [Name -> BOOLEAN]
  BY Zenon DEF SeedInv, SeedTypeOK
<1>c. image \in Nat /\ version \in Nat
  BY <1>a, VersionsAreNumbers, Zenon
<1> DEFINE new == IF Overridden(n) THEN row[n] ELSE Refreshed(n)
<1>1. row' = [row EXCEPT ![n] = new]
  BY <1>b, Zenon DEF Apply
<1>2. new \in Row /\ new # NoRow
  BY <1>a, <1>b, RefreshedRow, Zenon DEF Overridden
<1>3. new.seed => new.from = image
  BY <1>a, RefreshedRow, Zenon DEF Overridden
<1>4. new.disabled = wish'[n]
  <2>1. row[n] # NoRow => row[n].disabled = wish[n]
    BY Zenon DEF SeedInv, FlagIsTheOperators
  <2> QED BY <1>a, <1>b, <2>1, RefreshedRow, Zenon DEF Apply, Overridden
<1> HIDE DEF new
<1>5. SeedTypeOK'
  BY <1>a, <1>b, <1>1, <1>2, Zenon DEF SeedTypeOK, Apply
<1>6. ASSUME NEW m \in Name, NEW v \in {0} \cup Version, v <= image,
             m = n \/ AppliedTo(m, v)
      PROVE  AppliedTo(m, v)'
  <2>1. CASE m = n
    BY <1>1, <1>2, <1>3, <1>b, <1>6, <2>1, <1>c, VersionsAreNumbers, Zenon DEF AppliedTo
  <2>2. CASE m # n
    BY <1>1, <1>b, <1>6, <2>2, Zenon DEF AppliedTo, Apply
  <2> QED BY <2>1, <2>2, Zenon
<1>7. RecordedIsApplied'
  <2> SUFFICES ASSUME version # 0, NEW m \in Ships[version] PROVE AppliedTo(m, version)'
    <3>1. version' = version
      BY Zenon DEF Apply
    <3> QED BY <3>1, Zenon DEF RecordedIsApplied, AppliedTo
  <2>1. m \in Name /\ version \in Version
    BY <1>a, Catalogs, Zenon
  <2>2. AppliedTo(m, version)
    BY Zenon DEF SeedInv, RecordedIsApplied, AppliedTo
  <2>3. version <= image
    BY <1>a, <1>c
  <2>4. version' = version
    BY Zenon DEF Apply
  <2> QED BY <2>1, <2>2, <2>3, <2>4, <1>6, Zenon DEF AppliedTo
<1>8. FlagIsTheOperators'
  <2> SUFFICES ASSUME NEW m \in Name, row'[m] # NoRow PROVE row'[m].disabled = wish'[m]
    BY Zenon DEF FlagIsTheOperators
  <2>1. CASE m = n
    BY <1>1, <1>4, <1>b, <2>1, Zenon
  <2>2. CASE m # n
    BY <1>1, <1>b, <2>2, Zenon DEF SeedInv, FlagIsTheOperators, Apply
  <2> QED BY <2>1, <2>2, Zenon
<1>9. Progress'
  <2>1. \A m \in Ships[image] \ todo' : AppliedTo(m, image)'
    <3> SUFFICES ASSUME NEW m \in Ships[image] \ todo' PROVE AppliedTo(m, image)'
      BY Zenon
    <3>1. m \in Name
      BY <1>a, Catalogs, Zenon
    <3>2. m = n \/ AppliedTo(m, image)
      BY Zenon DEF SeedInv, Progress, Apply
    <3>3. image' = image /\ image <= image
      BY <1>c DEF Apply
    <3> QED BY <3>1, <3>2, <3>3, <1>6, <1>a, Zenon DEF AppliedTo
  <2>2. image' = image /\ version' = version
    BY Zenon DEF Apply
  <2> QED BY <2>1, <2>2, <1>a, Zenon DEF Progress, AppliedTo
<1> QED
  BY <1>5, <1>7, <1>8, <1>9, Zenon DEF SeedInv

\* An operator's call keeps the invariant.
LEMMA OperatorSeed ==
  ASSUME SeedInv, NEW n \in Name, Put(n) \/ Delete(n) \/ Enable(n)
  PROVE  SeedInv'
<1>a. row \in [Name -> Row \cup {NoRow}] /\ wish \in [Name -> BOOLEAN]
      /\ version \in {0} \cup Version /\ deleted \subseteq Name
  BY Zenon DEF SeedInv, SeedTypeOK
<1>b. phase = "serve" /\ phase' = phase /\ version' = version
  BY Zenon DEF Put, Delete, Enable
<1>c. \A m \in Name : row[m] # NoRow => row[m] \in Row
  BY <1>a, Zenon
<1>d. \A r \in Row : /\ r.disabled \in BOOLEAN
                     /\ [r EXCEPT !.disabled = TRUE] \in Row
                     /\ [r EXCEPT !.disabled = FALSE] \in Row
                     /\ [r EXCEPT !.disabled = TRUE].disabled = TRUE
                     /\ [r EXCEPT !.disabled = FALSE].disabled = FALSE
                     /\ [r EXCEPT !.disabled = TRUE].seed = r.seed
                     /\ [r EXCEPT !.disabled = FALSE].seed = r.seed
                     /\ [r EXCEPT !.disabled = TRUE].from = r.from
                     /\ [r EXCEPT !.disabled = FALSE].from = r.from
  BY Zenon DEF Row
\* What becomes of n's row
<1> DEFINE OldFlag == row[n] # NoRow => row[n].disabled = wish[n]
<1>e. OldFlag
  BY Zenon DEF SeedInv, FlagIsTheOperators
<1>1. PICK new \in Row \cup {NoRow} :
        /\ row' = [row EXCEPT ![n] = new]
        /\ new # NoRow => new.disabled = wish'[n]
        /\ new = NoRow => n \in deleted'
        /\ new # NoRow /\ row[n] # NoRow =>
             ~new.seed \/ (row[n].seed /\ new.from = row[n].from)
        /\ new # NoRow /\ row[n] = NoRow => ~new.seed
        /\ n \in deleted /\ n \notin deleted' => new # NoRow /\ ~new.seed
  <2>1. CASE Put(n)
    <3> DEFINE p == [seed |-> FALSE,
                     disabled |-> IF row[n] = NoRow THEN FALSE ELSE row[n].disabled,
                     from |-> 0]
    <3>1. p \in Row
      BY <1>c, <1>d, Zenon DEF Row
    <3>2. p.disabled = wish'[n]
      BY <2>1, <1>a, <1>e, Zenon DEF Put
    <3>3. p.seed = FALSE
      BY Zenon
    <3>4. row' = [row EXCEPT ![n] = p]
      BY <2>1, Zenon DEF Put
    <3>5. p # NoRow
      BY <3>1, Catalogs, Zenon
    <3> HIDE DEF p
    <3> QED BY <3>1, <3>2, <3>3, <3>4, <3>5, Zenon
  <2>2. CASE Delete(n) /\ row[n].seed
    <3> DEFINE p == [row[n] EXCEPT !.disabled = TRUE]
    <3>0. row[n] # NoRow /\ row[n] \in Row
      BY <2>2, <1>c, Zenon DEF Delete
    <3>1. p \in Row /\ p.disabled = TRUE /\ p.seed = row[n].seed /\ p.from = row[n].from
      BY <3>0, <1>d, Zenon
    <3>2. p # NoRow
      BY <3>1, Catalogs, Zenon
    <3>3. row' = [row EXCEPT ![n] = p] /\ wish'[n] = TRUE /\ deleted' = deleted
      BY <2>2, <1>a, Zenon DEF Delete
    <3> HIDE DEF p
    <3> QED BY <3>0, <3>1, <3>2, <3>3, <2>2, Zenon
  <2>3. CASE Delete(n) /\ ~row[n].seed
    BY <2>3, Zenon DEF Delete
  <2>4. CASE Enable(n)
    <3> DEFINE p == [row[n] EXCEPT !.disabled = FALSE]
    <3>0. row[n] # NoRow /\ row[n] \in Row
      BY <2>4, <1>c, Zenon DEF Enable
    <3>1. p \in Row /\ p.disabled = FALSE /\ p.seed = row[n].seed /\ p.from = row[n].from
      BY <3>0, <1>d, Zenon
    <3>2. p # NoRow
      BY <3>1, Catalogs, Zenon
    <3>3. row' = [row EXCEPT ![n] = p] /\ wish'[n] = FALSE /\ deleted' = deleted
      BY <2>4, <1>a, Zenon DEF Enable
    <3>4. row[n].seed \in BOOLEAN
      BY <3>0, Zenon DEF Row
    <3> HIDE DEF p
    <3> QED BY <3>0, <3>1, <3>2, <3>3, <3>4, Zenon
  <2> QED BY <2>1, <2>2, <2>3, <2>4, Zenon
<1>2. \A m \in Name : m # n =>
        row'[m] = row[m] /\ wish'[m] = wish[m] /\ (m \in deleted <=> m \in deleted')
  BY <1>1, <1>a DEF Put, Delete, Enable
<1>3. SeedTypeOK'
  <2>1. wish' \in [Name -> BOOLEAN] /\ deleted' \subseteq Name
    BY <1>a, Zenon DEF Put, Delete, Enable
  <2> QED BY <2>1, <1>1, <1>a, Zenon DEF SeedInv, SeedTypeOK, Put, Delete, Enable
<1>4. FlagIsTheOperators'
  BY <1>1, <1>2, <1>a DEF SeedInv, FlagIsTheOperators
<1>5. RecordedIsApplied'
  <2> SUFFICES ASSUME version # 0, NEW m \in Ships[version] PROVE AppliedTo(m, version)'
    BY <1>b, Zenon DEF RecordedIsApplied, AppliedTo
  <2>1. m \in Name
    BY <1>a, Catalogs, Zenon
  <2>2. AppliedTo(m, version)
    BY Zenon DEF SeedInv, RecordedIsApplied, AppliedTo
  <2>3. CASE m # n
    BY <2>1, <2>2, <2>3, <1>2, <1>b, Zenon DEF AppliedTo
  <2>4. CASE m = n
    <3>1. row'[n] = new
      BY <1>1, <1>a, Zenon
    <3> QED BY <2>1, <2>2, <2>4, <3>1, <1>1, <1>b, Zenon DEF AppliedTo
  <2> QED BY <2>3, <2>4, Zenon
<1>6. Progress'
  BY <1>b, Zenon DEF Progress
<1> QED
  BY <1>3, <1>4, <1>5, <1>6, Zenon DEF SeedInv

\* Importing a tool keeps the invariant: it only adds a row, an enabled one.
LEMMA ImportSeed ==
  ASSUME SeedInv, NEW n \in Name, Import(n)
  PROVE  SeedInv'
<1>a. row \in [Name -> Row \cup {NoRow}] /\ wish \in [Name -> BOOLEAN]
      /\ version \in {0} \cup Version /\ deleted \subseteq Name
  BY Zenon DEF SeedInv, SeedTypeOK
<1>b. phase = "import" /\ phase' = phase /\ version' = version
  BY Zenon DEF Import
<1>c. /\ Imported \in Row /\ Imported # NoRow
      /\ ~Imported.seed /\ Imported.disabled = FALSE
  <2>1. Imported \in Row
    BY Zenon DEF Imported, Row
  <2> QED BY <2>1, Catalogs, Zenon DEF Imported
<1>1. SeedTypeOK'
  <2>1. row' \in [Name -> Row \cup {NoRow}]
    BY <1>a, <1>c, Zenon DEF Import
  <2>2. wish' \in [Name -> BOOLEAN] /\ deleted' \subseteq Name
    BY <1>a, Zenon DEF Import
  <2> QED BY <2>1, <2>2, Zenon DEF SeedInv, SeedTypeOK, Import
<1>2. \A m \in Name :
        \/ row'[m] = row[m] /\ wish'[m] = wish[m] /\ (m \in deleted <=> m \in deleted')
        \/ row'[m] = Imported /\ wish'[m] = FALSE
  BY <1>a, Zenon DEF Import
<1>3. FlagIsTheOperators'
  BY <1>2, <1>c, Zenon DEF SeedInv, FlagIsTheOperators
<1>4. RecordedIsApplied'
  <2> SUFFICES ASSUME version # 0, NEW m \in Ships[version] PROVE AppliedTo(m, version)'
    BY <1>b, Zenon DEF RecordedIsApplied, AppliedTo
  <2>1. m \in Name
    BY <1>a, Catalogs, Zenon
  <2>2. AppliedTo(m, version)
    BY Zenon DEF SeedInv, RecordedIsApplied, AppliedTo
  <2> QED BY <1>2, <1>b, <1>c, <2>1, <2>2, Zenon DEF AppliedTo
<1>5. Progress'
  BY <1>b, Zenon DEF Progress
<1> QED
  BY <1>1, <1>3, <1>4, <1>5, Zenon DEF SeedInv

\* Every step keeps the invariant.
LEMMA NextSeed ==
  ASSUME SeedInv, [SeedNext]_seedVars
  PROVE  SeedInv'
<1>1. ASSUME NEW v \in Version, Boot(v) PROVE SeedInv'
  <2>1. SeedTypeOK'
    BY <1>1, Catalogs, Zenon DEF SeedInv, SeedTypeOK, Boot, ImportNext
  <2>2. RecordedIsApplied' /\ FlagIsTheOperators'
    BY <1>1, Zenon DEF SeedInv, RecordedIsApplied, FlagIsTheOperators, Boot
  <2>3. Progress'
    BY <1>1, Zenon DEF Progress, Boot, Newer, ImportNext
  <2> QED BY <2>1, <2>2, <2>3, Zenon DEF SeedInv
<1>2. ASSUME SetSeedVersion PROVE SeedInv'
  <2>1. image \in Version /\ \A n \in Ships[image] : AppliedTo(n, image)
    BY <1>2, Zenon DEF SeedInv, Progress, SetSeedVersion, Applied
  <2>2. SeedTypeOK'
    BY <1>2, <2>1, Catalogs, Zenon DEF SeedInv, SeedTypeOK, SetSeedVersion, ImportNext
  <2>3. RecordedIsApplied'
    BY <1>2, <2>1, Zenon DEF RecordedIsApplied, AppliedTo, SetSeedVersion
  <2>4. FlagIsTheOperators' /\ Progress'
    BY <1>2, Zenon DEF SeedInv, FlagIsTheOperators, Progress, SetSeedVersion, ImportNext
  <2> QED BY <2>2, <2>3, <2>4, Zenon DEF SeedInv
<1>3. ASSUME GoDown PROVE SeedInv'
  BY <1>3, Zenon
    DEF SeedInv, SeedTypeOK, RecordedIsApplied, FlagIsTheOperators, Progress,
              GoDown
<1>4. ASSUME Serve PROVE SeedInv'
  BY <1>4, Zenon
    DEF SeedInv, SeedTypeOK, RecordedIsApplied, FlagIsTheOperators, Progress,
              Serve
<1>5. ASSUME UNCHANGED seedVars PROVE SeedInv'
  BY <1>5, Zenon
    DEF seedVars, SeedInv, SeedTypeOK, RecordedIsApplied, FlagIsTheOperators,
              Progress, AppliedTo
<1> QED
  BY <1>1, <1>2, <1>3, <1>4, <1>5, ApplySeed, ImportSeed, OperatorSeed, Zenon DEF SeedNext

\* The inductive invariant: a load only ever runs for a catalog newer than the
\* recorded one, and what it has gone through is applied.
THEOREM SeedInvariant == SeedSpec => []SeedInv
  BY InitSeed, NextSeed, PTL DEF SeedSpec

\* Whatever images boot and wherever they stop, the recorded catalog version is
\* applied in full (apply_catalog_parsed records it last).
THEOREM VersionIsApplied == SeedSpec => []RecordedIsApplied
  BY SeedInvariant, PTL DEF SeedInv

\* No boot ever changes the disabled flag an operator has set.
THEOREM FlagsAreSticky == SeedSpec => []FlagIsTheOperators
  BY SeedInvariant, PTL DEF SeedInv

\* A boot leaves operators' rows alone, writes contents newer than the recorded
\* version to seed rows only, and imports tools only where there is no row.
THEOREM OverridesSurvive == SeedSpec => ContentsOnlyAdvance
<1> DEFINE A == \A n \in Name :
                  (phase \in {"load", "import"} /\ row[n] # NoRow) =>
                     /\ row'[n] # NoRow
                     /\ row[n].seed = row'[n].seed
                     /\ row'[n] = row[n] \/ row'[n].from > version
<1>1. SeedInv /\ [SeedNext]_seedVars => [A]_seedVars
  <2> SUFFICES ASSUME SeedInv, SeedNext, NEW n \in Name,
                      phase \in {"load", "import"}, row[n] # NoRow
               PROVE  /\ row'[n] # NoRow
                      /\ row[n].seed = row'[n].seed
                      /\ row'[n] = row[n] \/ row'[n].from > version
    BY Zenon DEF seedVars
  <2>1. CASE row'[n] = row[n]
    BY <2>1, Zenon
  <2>2. CASE Apply(n) /\ ~Overridden(n)
    <3>1. SeedTypeOK /\ image \in Version /\ version < image /\ version \in {0} \cup Version
      BY <2>2, Zenon DEF SeedInv, Progress, SeedTypeOK, Apply
    <3>2. row'[n] = Refreshed(n)
      BY <2>2, <3>1, Zenon DEF Apply, SeedTypeOK
    <3>3. row[n].seed = TRUE
      BY <2>2, <3>1, Zenon DEF Overridden, SeedTypeOK, Row
    <3>4. image \in Nat /\ version \in Nat
      BY <3>1, VersionsAreNumbers, Zenon
    <3> QED BY <3>1, <3>2, <3>3, <3>4, RefreshedRow, Zenon
  <2>3. CASE SeedNext /\ row'[n] # row[n]
    <3>1. row \in [Name -> Row \cup {NoRow}]
      BY Zenon DEF SeedInv, SeedTypeOK
    <3>2. Apply(n) /\ ~Overridden(n)
      BY <2>3, <3>1, Zenon DEF SeedNext, Apply, Import, Put, Delete, Enable,
                                 Boot, SetSeedVersion, Serve, GoDown
    <3> QED BY <2>2, <3>2, Zenon
  <2> QED BY <2>1, <2>3, Zenon
<1> QED
  BY <1>1, SeedInvariant, PTL DEF SeedSpec, ContentsOnlyAdvance

-----------------------------------------------------------------------------
(***************************************************************************)
(* The op:// references.  The cache follows the references in use.         *)
(*                                                                         *)
(* The resync lock is held from before the catalog is read until the       *)
(* rebuild has run, so at most one rebuild is under way, it was made from  *)
(* the newest snapshot, and whoever changed a reference after the snapshot *)
(* still waits for the lock.  A dropped call gives the lock up while its   *)
(* rebuild runs on, and all of this ends with it.                          *)
(***************************************************************************)

\* Whoever collects references or waits for a rebuild has the resync lock.
Locked == \A w \in Caller : pc[w] \in {"overrides", "join"} => resync = w

\* Unless a call has been dropped, a rebuild that has not run is awaited by the
\* call that spawned it, and was made from the newest snapshot.
Awaited ==
    "cancel" \notin seen =>
        \A b \in pool : b.by \in Caller /\ pc[b.by] = "join" /\ b.seq = seq

\* Unless something has failed or a call still waits for the lock, what has been
\* collected, what is to be built and what is cached is what is in use.
Current ==
    seen = {} /\ (\A w \in Caller : pc[w] # "lock") =>
        /\ \A w \in Caller : pc[w] = "overrides" => found[w] = catalogRefs
        /\ \A b \in pool : b.refs = InUse
        /\ pool = {} /\ (\A w \in Caller : pc[w] # "overrides") => cache = InUse

Numbered == published <= seq /\ \A b \in pool : b.seq <= seq

ResyncInv == OpTypeOK /\ Locked /\ Numbered /\ Awaited /\ Current

\* What is assumed of calls.
LEMMA OpCalls == MaxChanges \in Nat /\ Nobody \notin Caller
  BY BoundAssumption, CallerAssumption

\* While the lock is free, and while a call collects, no rebuild is awaited.
LEMMA NoneAwaited ==
  ASSUME ResyncInv, "cancel" \notin seen,
         resync = Nobody \/ \E w \in Caller : pc[w] = "overrides"
  PROVE  pool = {}
<1> SUFFICES ASSUME NEW b \in pool PROVE FALSE
  BY Zenon
<1>1. b.by \in Caller /\ pc[b.by] = "join"
  BY Zenon DEF ResyncInv, Awaited
<1>2. resync = b.by
  BY <1>1, Zenon DEF ResyncInv, Locked
<1>3. resync # Nobody
  BY <1>1, <1>2, OpCalls, Zenon
<1>4. PICK w \in Caller : pc[w] = "overrides"
  BY <1>3, Zenon
<1>5. resync = w
  BY <1>4, Zenon DEF ResyncInv, Locked
<1> QED BY <1>1, <1>2, <1>4, <1>5, Zenon

\* The references in use change, and the call that changed them waits.
LEMMA ChangeKeeps ==
  ASSUME ResyncInv, NEW w \in Caller, ChangeCatalog(w) \/ ChangeOverride(w)
  PROVE  ResyncInv'
<1>a. pc \in [Caller -> PC] /\ changes \in 0..MaxChanges
  BY Zenon DEF ResyncInv, OpTypeOK
<1>1. Change(w) /\ catalogRefs' \subseteq Ref /\ overrideRefs' \subseteq Ref
  BY Zenon DEF ChangeCatalog, ChangeOverride, ResyncInv, OpTypeOK
<1>2. pc[w] = "idle" /\ pc'[w] = "lock" /\ (\A v \in Caller : v # w => pc'[v] = pc[v])
      /\ UNCHANGED <<cache, resync, found, pool, seq, published, seen>>
  BY <1>a, <1>1, Zenon DEF Change, Goto
<1>3. OpTypeOK'
  <2>1. pc' \in [Caller -> PC]
    BY <1>a, <1>1, Zenon DEF Change, Goto, PC
  <2>2. changes' \in 0..MaxChanges
    BY <1>a, <1>1, OpCalls DEF Change
  <2> QED BY <1>1, <1>2, <2>1, <2>2, Zenon DEF ResyncInv, OpTypeOK
<1>4. Locked'
  BY <1>2, Zenon DEF ResyncInv, Locked
<1>5. Awaited'
  BY <1>2, Zenon DEF ResyncInv, Awaited
<1>6. Current'
  BY <1>2, Zenon DEF Current
<1> QED BY <1>2, <1>3, <1>4, <1>5, <1>6, Zenon DEF ResyncInv, Numbered

\* The call whose turn it is reads the catalog as it is now.
LEMMA AcquireKeeps ==
  ASSUME ResyncInv, NEW w \in Caller, Acquire(w)
  PROVE  ResyncInv'
<1>a. pc \in [Caller -> PC] /\ found \in [Caller -> SUBSET Ref] /\ catalogRefs \subseteq Ref
  BY Zenon DEF ResyncInv, OpTypeOK
<1>1. /\ pc[w] = "lock" /\ pc'[w] = "overrides" /\ resync = Nobody /\ resync' = w
      /\ found'[w] = catalogRefs
      /\ \A v \in Caller : v # w => pc'[v] = pc[v] /\ found'[v] = found[v]
      /\ UNCHANGED <<catalogRefs, overrideRefs, cache, pool, seq, published, changes, seen>>
  BY <1>a, Zenon DEF Acquire, LockFree, Goto
<1>2. \A v \in Caller : pc[v] \notin {"overrides", "join"}
  BY <1>1, OpCalls, Zenon DEF ResyncInv, Locked
<1>3. OpTypeOK'
  <2>1. pc' \in [Caller -> PC] /\ found' \in [Caller -> SUBSET Ref]
    BY <1>a, Zenon DEF Acquire, Goto, PC
  <2> QED BY <1>1, <2>1, Zenon DEF ResyncInv, OpTypeOK
<1>4. Locked'
  BY <1>1, <1>2, Zenon DEF Locked
<1>5. "cancel" \notin seen => pool = {}
  BY <1>1, NoneAwaited, Zenon
<1>6. Awaited'
  BY <1>1, <1>5, Zenon DEF Awaited
<1>7. Current'
  BY <1>1, <1>2, <1>5, Zenon DEF Current
<1> QED BY <1>1, <1>3, <1>4, <1>6, <1>7, Zenon DEF ResyncInv, Numbered

\* The rebuild is spawned with what is in use now, unless another call waits.
LEMMA CollectKeeps ==
  ASSUME ResyncInv, NEW w \in Caller, Collect(w)
  PROVE  ResyncInv'
<1>a. pc \in [Caller -> PC] /\ found \in [Caller -> SUBSET Ref] /\ seq \in Nat
      /\ pool \subseteq Rebuild /\ overrideRefs \subseteq Ref /\ published \in Nat
  BY Zenon DEF ResyncInv, OpTypeOK
<1> DEFINE b == [by |-> w, refs |-> found[w] \cup overrideRefs, seq |-> seq + 1]
<1>1. /\ pc[w] = "overrides" /\ pc'[w] = "join" /\ seq' = seq + 1
      /\ pool' = pool \cup {b}
      /\ \A v \in Caller : v # w => pc'[v] = pc[v] /\ found'[v] = found[v]
      /\ UNCHANGED <<catalogRefs, overrideRefs, cache, resync, published, changes, seen>>
  BY <1>a, Zenon DEF Collect, Goto
<1>2. b \in Rebuild /\ b.by = w /\ b.refs = found[w] \cup overrideRefs /\ b.seq = seq + 1
  BY <1>a DEF Rebuild
<1> HIDE DEF b
<1>3. OpTypeOK'
  <2>1. pc' \in [Caller -> PC] /\ found' \in [Caller -> SUBSET Ref]
    BY <1>a, Zenon DEF Collect, Goto, PC
  <2>2. pool' \subseteq Rebuild /\ seq' \in Nat
    BY <1>a, <1>1, <1>2
  <2> QED BY <1>1, <2>1, <2>2, Zenon DEF ResyncInv, OpTypeOK
<1>4. Locked'
  BY <1>1, Zenon DEF ResyncInv, Locked
<1>5. Numbered'
  <2>1. \A c \in pool : c.seq \in Nat
    BY <1>a, Zenon DEF Rebuild
  <2> QED BY <1>a, <1>1, <1>2, <2>1 DEF ResyncInv, Numbered
<1>6. "cancel" \notin seen => pool' = {b}
  BY <1>1, NoneAwaited, Zenon
<1>7. Awaited'
  BY <1>1, <1>2, <1>6, Zenon DEF Awaited
<1>8. Current'
  <2> SUFFICES ASSUME seen = {}, \A v \in Caller : pc[v] # "lock"
               PROVE  /\ \A v \in Caller : pc'[v] = "overrides" => found'[v] = catalogRefs
                      /\ pool' = {b} /\ b.refs = InUse
    BY <1>1, Zenon DEF Current, InUse
  <2>1. \A v \in Caller : pc[v] = "overrides" => found[v] = catalogRefs
    BY Zenon DEF ResyncInv, Current
  <2>2. b.refs = InUse
    BY <1>1, <1>2, <2>1, Zenon DEF InUse
  <2> QED BY <1>1, <1>6, <2>1, <2>2, Zenon
<1> QED BY <1>3, <1>4, <1>5, <1>7, <1>8, Zenon DEF ResyncInv

\* A call that ends drops its guard and nobody else's.
LEMMA ReturnKeeps ==
  ASSUME ResyncInv, NEW w \in Caller, Return(w), pc[w] # "idle",
         UNCHANGED <<catalogRefs, overrideRefs, cache, seq, published, changes>>,
         pool' \subseteq Rebuild, \A b \in pool' : b.seq <= seq,
         seen' \subseteq Faults, seen \subseteq seen',
         "cancel" \notin seen' => pool' = pool /\ \A b \in pool : b.by # w,
         seen' = {} => pc[w] = "join"
  PROVE  ResyncInv'
<1>a. pc \in [Caller -> PC] /\ found \in [Caller -> SUBSET Ref]
  BY Zenon DEF ResyncInv, OpTypeOK
<1>1. /\ pc'[w] = "idle"
      /\ \A v \in Caller : v # w => pc'[v] = pc[v] /\ found'[v] = found[v]
      /\ resync' = IF resync = w THEN Nobody ELSE resync
  BY <1>a, Zenon DEF Return, Goto
<1>2. OpTypeOK'
  <2>1. pc' \in [Caller -> PC] /\ found' \in [Caller -> SUBSET Ref]
    BY <1>a, Zenon DEF Return, Goto, PC
  <2> QED BY <1>1, <2>1, Zenon DEF ResyncInv, OpTypeOK
<1>3. Locked'
  BY <1>1, Zenon DEF ResyncInv, Locked
<1>4. Awaited'
  BY <1>1, Zenon DEF ResyncInv, Awaited
<1>5. Current'
  <2> SUFFICES ASSUME seen' = {}, \A v \in Caller : pc'[v] # "lock" PROVE Current'
    BY Zenon DEF Current
  <2>1. pc[w] = "join" /\ seen = {} /\ pool' = pool /\ InUse' = InUse
    BY Zenon DEF InUse
  <2>2. \A v \in Caller : pc[v] # "lock"
    BY <1>1, <2>1, Zenon
  <2> QED BY <1>1, <2>1, <2>2, Zenon DEF ResyncInv, Current
<1> QED BY <1>2, <1>3, <1>4, <1>5, Zenon DEF ResyncInv, Numbered

\* The rebuild runs: unless a read fails, what is cached is what it was given.
LEMMA SyncKeeps ==
  ASSUME ResyncInv, NEW b \in pool, Sync(b)
  PROVE  ResyncInv'
<1>a. b \in Rebuild /\ b.refs \subseteq Ref /\ b.seq \in Nat /\ cache \subseteq Ref
      /\ pool \subseteq Rebuild
  BY Zenon DEF ResyncInv, OpTypeOK, Rebuild
<1>1. /\ pool' = pool \ {b} /\ published' = b.seq
      /\ UNCHANGED <<catalogRefs, overrideRefs, resync, pc, found, seq, changes>>
  BY Zenon DEF Sync
<1>2. PICK ok \in SUBSET (b.refs \ cache) :
        /\ IF ok = b.refs \ cache THEN UNCHANGED seen ELSE Fault("op")
        /\ cache' = Rebuilt(b.refs, ok)
  BY Zenon DEF Sync
<1>3. OpTypeOK'
  <2>1. cache' \subseteq Ref
    BY <1>a, <1>2, Zenon DEF Rebuilt
  <2>2. seen' \subseteq Faults
    BY <1>2 DEF Fault, ResyncInv, OpTypeOK
  <2> QED BY <1>a, <1>1, <2>1, <2>2, Zenon DEF ResyncInv, OpTypeOK
<1>4. Locked'
  BY <1>1, Zenon DEF ResyncInv, Locked
<1>5. Numbered'
  BY <1>1, Zenon DEF ResyncInv, Numbered
<1>6. seen \subseteq seen'
  BY <1>2, Zenon DEF Fault
<1>7. Awaited'
  BY <1>1, <1>6, Zenon DEF ResyncInv, Awaited
<1>8. Current'
  <2> SUFFICES ASSUME seen' = {}, \A v \in Caller : pc[v] # "lock"
               PROVE  /\ \A v \in Caller : pc[v] = "overrides" => found[v] = catalogRefs
                      /\ \A c \in pool : c.refs = InUse
                      /\ cache' = InUse
    BY <1>1, Zenon DEF Current, InUse
  <2>1. seen = {}
    BY <1>6, Zenon
  <2>2. /\ \A v \in Caller : pc[v] = "overrides" => found[v] = catalogRefs
        /\ \A c \in pool : c.refs = InUse
    BY <2>1, Zenon DEF ResyncInv, Current
  <2>3. ok = b.refs \ cache
    BY <1>2, Zenon DEF Fault
  <2>4. cache' = b.refs
    BY <1>2, <2>3, Zenon DEF Rebuilt
  <2> QED BY <2>2, <2>4, Zenon
<1> QED BY <1>3, <1>4, <1>5, <1>7, <1>8, Zenon DEF ResyncInv

\* Every step keeps the invariant of the resync.
LEMMA ResyncStep ==
  ASSUME ResyncInv, [OpNext]_opVars
  PROVE  ResyncInv'
<1>a. pool \subseteq Rebuild /\ seen \subseteq Faults /\ Numbered
  BY Zenon DEF ResyncInv, OpTypeOK
<1>1. ASSUME NEW w \in Caller, CollectFails(w) PROVE ResyncInv'
  <2>1. pc[w] = "overrides" /\ Return(w) /\ seen' = seen \cup {"db"} /\ "db" \in Faults
        /\ UNCHANGED <<catalogRefs, overrideRefs, cache, pool, seq, published, changes>>
    BY <1>1, Zenon DEF CollectFails, Fault
  <2>2. "cancel" \notin seen => pool = {}
    BY <2>1, NoneAwaited, Zenon
  <2>3. \A b \in pool' : b.seq <= seq
    BY <1>a, <2>1, Zenon DEF Numbered
  <2>4. seen' # {} /\ seen' \subseteq Faults /\ seen \subseteq seen' /\ pool' \subseteq Rebuild
    BY <1>a, <2>1, Zenon
  <2>5. "cancel" \notin seen' => pool' = pool /\ \A b \in pool : b.by # w
    BY <2>1, <2>2, Zenon
  <2> QED BY <2>1, <2>3, <2>4, <2>5, ReturnKeeps, Zenon
<1>2. ASSUME NEW w \in Caller, Join(w) PROVE ResyncInv'
  <2>1. \A b \in pool' : b.seq <= seq
    BY <1>a, <1>2, Zenon DEF Numbered, Join
  <2> QED BY <1>a, <1>2, <2>1, ReturnKeeps, Zenon DEF Join
<1>3. ASSUME NEW w \in Caller, Cancel(w) PROVE ResyncInv'
  <2>1. pc[w] # "idle" /\ Return(w) /\ seen' = seen \cup {"cancel"} /\ "cancel" \in Faults
        /\ pool' = {IF b.by = w THEN [b EXCEPT !.by = Nobody] ELSE b : b \in pool}
        /\ UNCHANGED <<catalogRefs, overrideRefs, cache, seq, published, changes>>
    BY <1>3, Zenon DEF Cancel, Fault
  <2>2. \A b \in Rebuild : [b EXCEPT !.by = Nobody] \in Rebuild
                           /\ [b EXCEPT !.by = Nobody].seq = b.seq
    BY Zenon DEF Rebuild
  <2>3. pool' \subseteq Rebuild /\ \A b \in pool' : b.seq <= seq
    BY <1>a, <2>1, <2>2 DEF Numbered
  <2>4. seen' # {} /\ seen' \subseteq Faults /\ seen \subseteq seen' /\ "cancel" \in seen'
    BY <1>a, <2>1, Zenon
  <2> QED BY <2>1, <2>3, <2>4, ReturnKeeps, Zenon
<1>4. ASSUME UNCHANGED opVars PROVE ResyncInv'
  BY <1>4, Zenon
    DEF opVars, ResyncInv, OpTypeOK, Locked, Numbered, Awaited, Current, InUse
<1> QED
  BY <1>1, <1>2, <1>3, <1>4, ChangeKeeps, AcquireKeeps, CollectKeeps, SyncKeeps, Zenon
  DEF OpNext, Step

\* The inductive invariant of the resync of op:// references
\* (resync_op_references): the lock orders snapshots and rebuilds alike.
THEOREM ResyncInvariant == OpSpec => []ResyncInv
<1>1. OpInit => ResyncInv
  BY OpCalls DEF OpInit, ResyncInv, OpTypeOK, Locked, Numbered, Awaited, Current,
         InUse, PC
<1>2. ResyncInv /\ [OpNext]_opVars => ResyncInv'
  BY ResyncStep, Zenon
<1> QED BY <1>1, <1>2, PTL DEF OpSpec

\* Once every call has returned and nothing has failed, exactly the references
\* in use are cached, in whatever order calls changed them.
THEOREM CacheStaysCurrent == OpSpec => []CacheIsCurrent
<1>0. OpSpec => []ResyncInv
  BY ResyncInvariant, Zenon
<1>1. ResyncInv => CacheIsCurrent
  BY Zenon DEF ResyncInv, Current, CacheIsCurrent
<1> QED BY <1>0, <1>1, PTL

\* Unless a call has been dropped, a rebuild from an older snapshot never runs
\* after one from a newer snapshot.
THEOREM NewestPublishesLast == OpSpec => PublishesInOrder
<1>0. OpSpec => []ResyncInv
  BY ResyncInvariant, Zenon
<1>1. ASSUME ResyncInv, [OpNext]_opVars PROVE InOrder
  <2>1. ASSUME NEW b \in pool, Sync(b), "cancel" \notin seen PROVE published' >= published
    <3>1. published' = b.seq /\ b.seq = seq /\ published <= seq
          /\ published \in Nat /\ seq \in Nat
      BY <1>1, <2>1, Zenon DEF Sync, ResyncInv, OpTypeOK, Awaited, Numbered
    <3> QED BY <3>1, Zenon
  <2>2. published' = published \/ \E b \in pool : Sync(b)
    BY <1>1, Zenon
    DEF OpNext, opVars, ChangeCatalog, ChangeOverride, Change, Acquire, Step,
        Collect, CollectFails, Join, Cancel
  <2>3. published \in Nat
    BY <1>1, Zenon DEF ResyncInv, OpTypeOK
  <2> QED BY <2>1, <2>2, <2>3 DEF InOrder
<1>2. ResyncInv /\ [OpNext]_opVars => InOrder
  BY <1>1, Zenon
<1> QED BY <1>0, <1>2, PTL DEF OpSpec, PublishesInOrder
=============================================================================
