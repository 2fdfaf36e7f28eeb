----------------------------- MODULE AppLifecycle -----------------------------
(***************************************************************************)
(* Start and Shutdown of the application runtime (internal/app/lifecycle.go *)
(* with Manager.StartBackgroundTasks and Manager.Stop), the goroutines they *)
(* start and stop, and the two hosts that call them: cmd/server, which      *)
(* lends its process-long context, and cmd/desktop, which lends a timeout   *)
(* context and cancels it once Start has returned.                          *)
(***************************************************************************)
EXTENDS Integers, FiniteSets

CONSTANTS
    Hosts,   \* the hosts considered: "server", "desktop"
    Caller   \* goroutines that call Shutdown: Quit, the end of main

ASSUME LifecycleAssumptions == Hosts \subseteq {"server", "desktop"} /\ IsFiniteSet(Caller)

VARIABLES
    host,       \* the program the runtime is part of
    starting,   \* where Start is
    ctx,        \* the context given to Start: "live" or "cancelled"
    worker,     \* background goroutine -> "unborn", "idle", "working", "exited"
    told,       \* workers told to stop by a cancel function or a channel
    teardown,   \* App.stopping and App.stopped: "none", "running", "over"
    shutdown,   \* caller -> where its Shutdown call is
    failed,     \* an error was collected by the teardown
    result,     \* caller -> what its Shutdown call returned
    db          \* "open" or "closed"

appVars == <<host, starting, ctx, worker, told, teardown, shutdown, failed, result, db>>

Worker == {"tracker", "reconciler", "scheduler", "monitor"}
Outcome == {"ok", "error"}
Teardown == {"stop_tracker", "drain_tracker", "stop_reconciler", "stop_scheduler", "wait_scheduler",
             "stop_monitor", "wait_monitor", "supervisor", "close", "finish"}

\* The fields and program counters have their types, and Manager.Stop never
\* meets a goroutine that Start has not created: it would miss it.
LifecycleTypeOK ==
    /\ host \in Hosts
    /\ starting \in {"not_called", "tracker", "recover", "reconciler", "scheduler",
                     "monitor", "returned"}
    /\ ctx \in {"live", "cancelled"}
    /\ worker \in [Worker -> {"unborn", "idle", "working", "exited"}]
    /\ told \subseteq Worker
    /\ teardown \in {"none", "running", "over"}
    /\ shutdown \in [Caller -> Teardown \cup {"not_called", "waiting", "returned"}]
    /\ failed \in BOOLEAN
    /\ result \in [Caller -> Outcome \cup {"none"}]
    /\ db \in {"open", "closed"}
    /\ teardown # "none" => \A w \in Worker : worker[w] # "unborn"

startUnchanged == UNCHANGED <<host, starting, ctx>>
shutdownUnchanged == UNCHANGED <<teardown, shutdown, failed, result, db>>
------------------------------------------------------------------------------
\* Start.

Begin ==
    /\ starting = "not_called" /\ teardown = "none"
    /\ starting' = "tracker"
    /\ UNCHANGED <<host, ctx, worker, told>> /\ shutdownUnchanged

\* Recovery has no goroutine of its own; the others are started in this order.
AfterStarting(w) ==
    CASE w = "tracker"    -> "recover"
      [] w = "reconciler" -> "scheduler"
      [] w = "scheduler"  -> "monitor"
      [] w = "monitor"    -> "returned"

Launch(w) ==
    /\ starting = w
    /\ worker' = [worker EXCEPT ![w] = "idle"]
    /\ starting' = AfterStarting(w)
    /\ UNCHANGED <<host, ctx, told>> /\ shutdownUnchanged

Recovered ==
    /\ starting = "recover"
    /\ starting' = "reconciler"
    /\ UNCHANGED <<host, ctx, worker, told>> /\ shutdownUnchanged

\* The desktop host's context expires 15 seconds into Start, and is cancelled
\* when Start returns.  The server cancels its own on a signal.
CancelContext ==
    /\ ctx = "live"
    /\ \/ host = "desktop" /\ starting # "not_called"
       \/ host = "server" /\ starting = "returned"
    /\ ctx' = "cancelled"
    /\ UNCHANGED <<host, starting, worker, told>> /\ shutdownUnchanged
------------------------------------------------------------------------------
\* The goroutines: each loops over a select on its tick (or kick) and on its
\* cancellation.  All of them derive their contexts from the one Start got.

MustStop(w) == ctx = "cancelled" \/ w \in told

\* select picks at random when both are ready.
StartPass(w) ==
    /\ worker[w] = "idle"
    /\ worker' = [worker EXCEPT ![w] = "working"]
    /\ startUnchanged /\ UNCHANGED told /\ shutdownUnchanged

EndPass(w) ==
    /\ worker[w] = "working"
    /\ worker' = [worker EXCEPT ![w] = "idle"]
    /\ startUnchanged /\ UNCHANGED told /\ shutdownUnchanged

Exit(w) ==
    /\ worker[w] = "idle" /\ MustStop(w)
    /\ worker' = [worker EXCEPT ![w] = "exited"]
    /\ startUnchanged /\ UNCHANGED told /\ shutdownUnchanged
------------------------------------------------------------------------------
\* Shutdown.

Step(c, from, to) ==
    shutdown[c] = from /\ shutdown' = [shutdown EXCEPT ![c] = to]

\* Mutant: the second caller does not see that a teardown is running.
EnterAnyway(c) ==
    /\ teardown # "over"
    /\ teardown' = "running"
    /\ Step(c, "not_called", "stop_tracker")
    /\ UNCHANGED result

\* The three branches Shutdown takes under its mutex.
Enter(c) ==
    \/ /\ teardown = "none"
       /\ teardown' = "running"
       /\ Step(c, "not_called", "stop_tracker")
       /\ UNCHANGED result
    \/ /\ teardown = "running"
       /\ Step(c, "not_called", "waiting")
       /\ UNCHANGED <<teardown, result>>
    \/ /\ teardown = "over"
       /\ Step(c, "not_called", "returned")
       /\ result' = [result EXCEPT ![c] = IF failed THEN "error" ELSE "ok"]
       /\ UNCHANGED teardown

\* Both hosts call it after Start has returned: the server once, on its way out
\* of run, with its context cancelled by a signal or live after a server error,
\* the desktop from Quit and at the end of main.
Call(c) ==
    /\ starting = "returned"
    /\ host = "server" => \A d \in Caller : shutdown[d] = "not_called"
    /\ Enter(c)
    /\ startUnchanged /\ UNCHANGED <<worker, told, failed, db>>

\* Mutant: Manager.Stop forgets the goroutine it does not wait for.
TellOnlyTheAwaited(c, w, from, to) ==
    /\ Step(c, from, to)
    /\ told' = told \cup ({w} \ {"reconciler"})
    /\ startUnchanged /\ UNCHANGED <<worker, teardown, failed, result, db>>

\* A cancel function is called or a stop channel closed.
Tell(c, w, from, to) ==
    /\ Step(c, from, to)
    /\ told' = told \cup {w}
    /\ startUnchanged /\ UNCHANGED <<worker, teardown, failed, result, db>>

\* Wait for the tracker, but not longer than the caller's context allows.
DrainTracker(c) ==
    /\ Step(c, "drain_tracker", "stop_reconciler")
    /\ \/ worker["tracker"] = "exited" /\ UNCHANGED failed
       \/ worker["tracker"] # "exited" /\ failed' = TRUE
    /\ startUnchanged /\ UNCHANGED <<worker, told, teardown, result, db>>

Await(c, w, from, to) ==
    /\ worker[w] = "exited"
    /\ Step(c, from, to)
    /\ startUnchanged /\ UNCHANGED <<worker, told, teardown, failed, result, db>>

\* Manager.Stop: the reconciler is cancelled and not waited for, the scheduler
\* and the monitor are told and waited for, one after the other.
StopManager(c) ==
    \/ Tell(c, "reconciler", "stop_reconciler", "stop_scheduler")
    \/ Tell(c, "scheduler", "stop_scheduler", "wait_scheduler")
    \/ Await(c, "scheduler", "wait_scheduler", "stop_monitor")
    \/ Tell(c, "monitor", "stop_monitor", "wait_monitor")
    \/ Await(c, "monitor", "wait_monitor", "supervisor")

\* ProcessSupervisor.Shutdown and Database.Close; errors are collected.
StopProcesses(c) ==
    /\ Step(c, "supervisor", "close")
    /\ failed' = TRUE \/ UNCHANGED failed
    /\ startUnchanged /\ UNCHANGED <<worker, told, teardown, result, db>>

CloseDatabase(c) ==
    /\ Step(c, "close", "finish")
    /\ db' = "closed"
    /\ failed' = TRUE \/ UNCHANGED failed
    /\ startUnchanged /\ UNCHANGED <<worker, told, teardown, result>>

Finish(c) ==
    /\ Step(c, "finish", "returned")
    /\ teardown' = "over"
    /\ result' = [result EXCEPT ![c] = IF failed THEN "error" ELSE "ok"]
    /\ startUnchanged /\ UNCHANGED <<worker, told, failed, db>>

\* <-shutdownDone: the others return what the teardown ended with.
Leave(c) ==
    /\ teardown = "over"
    /\ Step(c, "waiting", "returned")
    /\ result' = [result EXCEPT ![c] = IF failed THEN "error" ELSE "ok"]
    /\ startUnchanged /\ UNCHANGED <<worker, told, teardown, failed, db>>

ShutdownStep(c) ==
    \/ Tell(c, "tracker", "stop_tracker", "drain_tracker") \/ DrainTracker(c)
    \/ StopManager(c) \/ StopProcesses(c) \/ CloseDatabase(c)
    \/ Finish(c) \/ Leave(c)
------------------------------------------------------------------------------
AppInit ==
    /\ host \in Hosts
    /\ starting = "not_called" /\ ctx = "live"
    /\ worker = [w \in Worker |-> "unborn"] /\ told = {}
    /\ teardown = "none" /\ shutdown = [c \in Caller |-> "not_called"]
    /\ failed = FALSE /\ result = [c \in Caller |-> "none"] /\ db = "open"

StartStep == Begin \/ Recovered \/ \E w \in Worker : Launch(w)
Loop == \E w \in Worker : StartPass(w) \/ EndPass(w) \/ Exit(w)

AppNext ==
    \/ StartStep \/ CancelContext \/ Loop
    \/ \E c \in Caller : Call(c) \/ ShutdownStep(c)

\* A pass ends, and a select in which the cancellation stays ready takes it in
\* the end; a Shutdown call that can go on does.
AppFairness ==
    /\ WF_appVars(StartStep)
    /\ \A w \in Worker : WF_appVars(EndPass(w)) /\ SF_appVars(Exit(w))
    /\ \A c \in Caller : WF_appVars(ShutdownStep(c))

AppSpec == AppInit /\ [][AppNext]_appVars /\ AppFairness
------------------------------------------------------------------------------
\* However many goroutines call Shutdown, one tears down; the database is
\* closed by it and nothing is torn down twice.  A second pass would close the
\* monitor's channel again and panic.
OneTeardown ==
    /\ Cardinality({c \in Caller : shutdown[c] \in Teardown}) <= 1
    /\ teardown = "over" => \A c \in Caller : shutdown[c] \notin Teardown

\* The scheduler and the monitor, which write job rows, have left before the
\* database is closed; the tracker has too, or Shutdown says it failed.
WritersLeaveFirst ==
    db = "closed" => /\ worker["scheduler"] = "exited" /\ worker["monitor"] = "exited"
                     /\ worker["tracker"] = "exited" \/ failed

\* Every caller is told the same outcome.
SameOutcome ==
    \A c, d \in Caller : result[c] # "none" /\ result[d] # "none" => result[c] = result[d]

\* One teardown, in order, with one outcome.
OrderedTeardown == LifecycleTypeOK /\ OneTeardown /\ WritersLeaveFirst /\ SameOutcome

\* Every Shutdown call returns, whatever the goroutines were doing.
ShutdownReturns == \A c \in Caller : shutdown[c] # "not_called" ~> shutdown[c] = "returned"

\* After a teardown no goroutine of the runtime stays behind.
NobodyStaysBehind == teardown = "over" ~> \A w \in Worker : worker[w] = "exited"
\* Shutdown comes to an end, and so does everything that was started.
LifecycleEnds == ShutdownReturns /\ NobodyStaysBehind
==============================================================================
