------------------------------- MODULE Daemon -------------------------------
(***************************************************************************)
(* The life of locksmithd: run starts the sweepers and the listeners,      *)
(* waits for SIGTERM or SIGINT, and gives what is in flight the drain      *)
(* window to complete.  Each task holds a future of shutdown_signal, which *)
(* reads a latch, registers with a Notify and reads the latch again, while *)
(* the signal task sets the latch and then wakes who has registered.       *)
(*                                                                         *)
(* Durations are left out: a window that is running may end at any time.   *)
(* What a connection carries is left out: it is open until its last        *)
(* request is answered.                                                    *)
(***************************************************************************)
EXTENDS Naturals, Sequences

CONSTANTS Sweeper,      \* tasks that sweep a table
          Listener,     \* tasks that accept connections
          Agent,        \* the listener of the agents
          Main,         \* run itself
          Order,        \* the order in which run spawns the tasks
          Kinds,        \* what the configuration may make of the listeners
          Conn,         \* connections; each is used once
          None

Task == Sweeper \cup Listener

Waiter == Task \cup {Main}

\* "graceful": axum::serve; "timed": axum_server, with a window of its own;
\* "detached": the accept loop of the mTLS listeners
Kind == {"graceful", "timed", "detached"}

ASSUME DaemonAssumption ==
    /\ Agent \in Listener /\ Sweeper \cap Listener = {}
    /\ Main \notin Task /\ None \notin Listener
    /\ Order \in Seq(Task) /\ {Order[i] : i \in DOMAIN Order} = Task
    /\ \A i, j \in DOMAIN Order : Order[i] = Order[j] => i = j
    /\ Kinds \subseteq [Listener -> Kind]

VARIABLES triggered,    \* the latch
          rung,         \* notify_waiters has been called
          wait,         \* wait[w]: where the future of w is
          late,         \* late[w]: w registered after notify_waiters
          kind,         \* kind[l], from the configuration
          task,         \* task[t]: where the task is
          born,         \* the number of tasks spawned
          conn,         \* conn[c]: its listener and its state
          main          \* where run is, or its result

vars == <<triggered, rung, wait, late, kind, task, born, conn, main>>

\* "error": a listener failed; "unstarted": the start did
Ended == {"clean", "error", "timeout", "unstarted"}

TaskState == {"unborn", "binding", "serving", "draining", "idle", "deleting", "ended",
              "failed"}

Connection == [at : Listener \cup {None}, state : {"none", "open", "done", "cut"}]

Init ==
    /\ triggered = FALSE /\ rung = FALSE
    /\ wait = [w \in Waiter |-> "new"]
    /\ late = [w \in Waiter |-> FALSE]
    /\ kind \in Kinds
    /\ task = [t \in Task |-> "unborn"]
    /\ born = 0
    /\ conn = [c \in Conn |-> [at |-> None, state |-> "none"]]
    /\ main = "boot"

Running == main \notin Ended

\* The open connections of a listener
Open(l) == {c \in Conn : conn[c] = [at |-> l, state |-> "open"]}

Become(t, s) == task' = [task EXCEPT ![t] = s]

-----------------------------------------------------------------------------
(***************************************************************************)
(* The signal.                                                             *)
(***************************************************************************)

\* wait_for_signal returns; the latch is set.
Signal ==
    /\ Running /\ ~triggered
    /\ triggered' = TRUE
    /\ UNCHANGED <<rung, wait, late, kind, task, born, conn, main>>

\* notify_waiters
Ring ==
    /\ Running /\ triggered /\ ~rung
    /\ rung' = TRUE
    /\ UNCHANGED <<triggered, wait, late, kind, task, born, conn, main>>

\* The future is polled: by a task that is up, by run after the start.
Polled(w) ==
    IF w = Main THEN main = "await"
    ELSE task[w] \in {"serving", "idle"}

\* shutdown_signal: the first read of the latch
Load(w) ==
    /\ Running /\ Polled(w) /\ wait[w] = "new"
    /\ wait' = [wait EXCEPT ![w] = IF triggered THEN "fired" ELSE "loaded"]
    /\ UNCHANGED <<triggered, rung, late, kind, task, born, conn, main>>

\* notified(): wakes for every notify_waiters from here on
Register(w) ==
    /\ Running /\ Polled(w) /\ wait[w] = "loaded"
    /\ wait' = [wait EXCEPT ![w] = "made"]
    /\ late' = [late EXCEPT ![w] = rung]
    /\ UNCHANGED <<triggered, rung, kind, task, born, conn, main>>

\* Mutant: the latch is read once.
RecheckNever(w) ==
    /\ Running /\ Polled(w) /\ wait[w] = "made"
    /\ wait' = [wait EXCEPT ![w] = "parked"]
    /\ UNCHANGED <<triggered, rung, late, kind, task, born, conn, main>>

\* The second read of the latch
Recheck(w) ==
    /\ Running /\ Polled(w) /\ wait[w] = "made"
    /\ wait' = [wait EXCEPT ![w] = IF triggered THEN "fired" ELSE "parked"]
    /\ UNCHANGED <<triggered, rung, late, kind, task, born, conn, main>>

\* notified.await
Wake(w) ==
    /\ Running /\ Polled(w) /\ wait[w] = "parked"
    /\ rung /\ ~late[w]
    /\ wait' = [wait EXCEPT ![w] = "fired"]
    /\ UNCHANGED <<triggered, rung, late, kind, task, born, conn, main>>

Await(w) == Load(w) \/ Register(w) \/ Recheck(w) \/ Wake(w)

-----------------------------------------------------------------------------
(***************************************************************************)
(* The tasks.                                                              *)
(***************************************************************************)

\* A listener binds in its own task, except that of the agents without mTLS.
Bind(l) ==
    /\ Running /\ task[l] = "binding"
    /\ Become(l, "serving")
    /\ UNCHANGED <<triggered, rung, wait, late, kind, born, conn, main>>

BindFails(l) ==
    /\ Running /\ task[l] = "binding"
    /\ Become(l, "failed")
    /\ UNCHANGED <<triggered, rung, wait, late, kind, born, conn, main>>

Accept(l, c) ==
    /\ Running /\ task[l] = "serving"
    /\ conn[c].state = "none"
    /\ conn' = [conn EXCEPT ![c] = [at |-> l, state |-> "open"]]
    /\ UNCHANGED <<triggered, rung, wait, late, kind, task, born, main>>

Finish(c) ==
    /\ Running /\ conn[c].state = "open"
    /\ conn' = [conn EXCEPT ![c].state = "done"]
    /\ UNCHANGED <<triggered, rung, wait, late, kind, task, born, main>>

\* The signal is seen: no more connections; an mTLS listener returns at once.
Stop(l) ==
    /\ Running /\ task[l] = "serving" /\ wait[l] = "fired"
    /\ Become(l, IF kind[l] = "detached" THEN "ended" ELSE "draining")
    /\ UNCHANGED <<triggered, rung, wait, late, kind, born, conn, main>>

\* Mutant: the listener returns whatever is open.
DrainedEarly(l) ==
    /\ Running /\ task[l] = "draining"
    /\ Become(l, "ended")
    /\ UNCHANGED <<triggered, rung, wait, late, kind, born, conn, main>>

Drained(l) ==
    /\ Running /\ task[l] = "draining" /\ Open(l) = {}
    /\ Become(l, "ended")
    /\ UNCHANGED <<triggered, rung, wait, late, kind, born, conn, main>>

\* HTTPS_GRACEFUL_DRAIN is over: the listener closes what it still has open.
Cut(l) ==
    /\ Running /\ task[l] = "draining" /\ kind[l] = "timed"
    /\ Become(l, "ended")
    /\ conn' = [c \in Conn |-> IF c \in Open(l) THEN [conn[c] EXCEPT !.state = "cut"]
                               ELSE conn[c]]
    /\ UNCHANGED <<triggered, rung, wait, late, kind, born, main>>

\* The select of a sweeper takes either arm that is ready.
Sweep(s) ==
    /\ Running /\ task[s] = "idle"
    /\ Become(s, "deleting")
    /\ UNCHANGED <<triggered, rung, wait, late, kind, born, conn, main>>

Swept(s) ==
    /\ Running /\ task[s] = "deleting"
    /\ Become(s, "idle")
    /\ UNCHANGED <<triggered, rung, wait, late, kind, born, conn, main>>

Retire(s) ==
    /\ Running /\ task[s] = "idle" /\ wait[s] = "fired"
    /\ Become(s, "ended")
    /\ UNCHANGED <<triggered, rung, wait, late, kind, born, conn, main>>

-----------------------------------------------------------------------------
(***************************************************************************)
(* run.                                                                    *)
(***************************************************************************)

\* The process ends, and every task and connection with it.
Exit(result) ==
    /\ main' = result
    /\ conn' = [c \in Conn |-> IF conn[c].state = "open" THEN [conn[c] EXCEPT !.state = "cut"]
                               ELSE conn[c]]
    /\ wait' = [w \in Waiter |-> "new"]
    /\ late' = [w \in Waiter |-> FALSE]
    /\ UNCHANGED <<triggered, rung, kind, task, born>>

FirstState(t) ==
    IF t \in Sweeper THEN "idle"
    ELSE IF t = Agent /\ kind[t] = "graceful" THEN "serving" ELSE "binding"

Spawn ==
    /\ main = "boot" /\ born < Len(Order)
    /\ born' = born + 1
    /\ Become(Order[born'], FirstState(Order[born']))
    /\ UNCHANGED <<triggered, rung, wait, late, kind, conn, main>>

\* The configuration, the database, a key or the agents' port
BootFails == main = "boot" /\ Exit("unstarted")

\* await_shutdown_then_drain
Booted ==
    /\ main = "boot" /\ born = Len(Order)
    /\ main' = "await"
    /\ UNCHANGED <<triggered, rung, wait, late, kind, task, born, conn>>

\* drain_or_timeout: the window starts.
Told ==
    /\ main = "await" /\ wait[Main] = "fired"
    /\ main' = "join"
    /\ UNCHANGED <<triggered, rung, wait, late, kind, task, born, conn>>

Over == \A t \in Task : task[t] \in {"ended", "failed"}

Result == IF \E l \in Listener : task[l] = "failed" THEN "error" ELSE "clean"

Joined == main = "join" /\ Over /\ Exit(Result)

\* Mutant: the window has no end.
ExpireOver == main = "join" /\ Over /\ Exit("timeout")

Expire == main = "join" /\ Exit("timeout")

-----------------------------------------------------------------------------

Next ==
    \/ Signal \/ Ring
    \/ \E w \in Waiter : Await(w)
    \/ \E l \in Listener : Bind(l) \/ BindFails(l) \/ Stop(l) \/ Drained(l) \/ Cut(l)
    \/ \E l \in Listener, c \in Conn : Accept(l, c)
    \/ \E c \in Conn : Finish(c)
    \/ \E s \in Sweeper : Sweep(s) \/ Swept(s) \/ Retire(s)
    \/ Spawn \/ BootFails \/ Booted \/ Told \/ Joined \/ Expire

Spec == Init /\ [][Next]_vars

\* The runtime polls a task that was woken, and timers fire; requests, statements
\* and binds need not end.
Fairness ==
    /\ WF_vars(Ring) /\ WF_vars(Spawn) /\ WF_vars(Booted) /\ WF_vars(Told) /\ WF_vars(Expire)
    /\ \A w \in Waiter : WF_vars(Await(w))

LiveSpec == Spec /\ Fairness

-----------------------------------------------------------------------------
(***************************************************************************)
(* Properties.                                                             *)
(***************************************************************************)

TypeOK ==
    /\ triggered \in BOOLEAN /\ rung \in BOOLEAN
    /\ wait \in [Waiter -> {"new", "loaded", "made", "parked", "fired"}]
    /\ late \in [Waiter -> BOOLEAN]
    /\ kind \in Kinds
    /\ task \in [Task -> TaskState]
    /\ born \in 0..Len(Order)
    /\ conn \in [Conn -> Connection]
    /\ main \in {"boot", "await", "join"} \cup Ended

\* No task sleeps through the signal: whoever is parked after notify_waiters had
\* registered before it, wherever the two threads of shutdown_signal and install
\* met.
NoLostWakeup ==
    \A w \in Waiter : wait[w] = "parked" /\ rung => ~late[w]

\* Nothing but the signal makes the daemon stop serving: no listener drains, no
\* sweeper retires, and run gives up waiting for nobody, before the latch is set
\* (await_shutdown_then_drain, with_graceful_shutdown).
ServesUntilTold ==
    /\ main \in {"join", "clean", "timeout"} => triggered
    /\ \A t \in Task : task[t] \in {"draining", "ended"} => triggered

\* The result of run is true.  A clean exit tears nothing: every request accepted
\* by a listener that drains was answered, or cut by the HTTPS listener's own
\* window, and no sweeper was in the middle of a DELETE; mTLS connections are not
\* waited for.  It hides no listener that could not bind, and an error is about
\* one (the results of drain).
ResultIsTrue ==
    /\ main = "clean" =>
         /\ \A c \in Conn : conn[c].state = "cut" => kind[conn[c].at] # "graceful"
         /\ \A s \in Sweeper : task[s] # "deleting"
         /\ \A l \in Listener : task[l] # "failed"
    /\ main = "error" => \E l \in Listener : task[l] = "failed"

\* A signal ends the daemon, also one that comes during the start, whatever hangs:
\* a request, a DELETE or a bind.
SignalStops == triggered ~> ~Running
=============================================================================
