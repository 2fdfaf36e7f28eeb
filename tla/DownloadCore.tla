----------------------------- MODULE DownloadCore -----------------------------
(***************************************************************************)
(* The core of GoDownloader put together: API requests, the scheduler,     *)
(* the progress monitor, the process dying and recovering, and the aria2   *)
(* daemon, all acting on one database, one table of engine tasks and one   *)
(* pool of permits.                                                        *)
(***************************************************************************)
EXTENDS SchedulerLoop, UserCommands, ProgressMonitor, StartupRecovery
------------------------------------------------------------------------------
\* aria2: a waiting task starts, a running one ends, any one may be lost.

EngineMoves(g, st) ==
    /\ SetTask(g, st)
    /\ UNCHANGED <<durableVars, memoryVars, procVars, startVars>>

TaskStarts(g) == TaskOf(g) = "waiting" /\ EngineMoves(g, "active") /\ NoFault
TaskEnds(g) == \E st \in {"complete", "error"} :
                  TaskOf(g) = "active" /\ EngineMoves(g, st) /\ NoFault
TaskLost(g) == Known(g) /\ EngineMoves(g, "gone") /\ Spend("lost")

EngineStep == \E g \in Gid : TaskStarts(g) \/ TaskEnds(g) \/ TaskLost(g)
------------------------------------------------------------------------------
CoreNext ==
    \/ SchedulerStep
    \/ RetryFires
    \/ MonitorStep
    \/ RecoveryStep
    \/ EngineStep
    \/ Crash
    \/ \E c \in Client : Request(c) \/ CommandCall(c)

CoreSpec == CoreInit /\ [][CoreNext]_coreVars

\* The goroutines are scheduled and return from their calls, the timer fires,
\* a restarted process recovers, and aria2 starts what waits and ends what
\* runs.  Nobody has to send a request, and nothing has to fail.
CoreFairness ==
    /\ WF_coreVars(SchedulerStep)
    /\ WF_coreVars(RetryFires)
    /\ WF_coreVars(MonitorStep)
    /\ WF_coreVars(RecoveryStep)
    /\ \A c \in Client : WF_coreVars(CommandCall(c))
    /\ \A g \in Gid : WF_coreVars(TaskStarts(g)) /\ WF_coreVars(TaskEnds(g))

CoreLiveSpec == CoreSpec /\ CoreFairness
------------------------------------------------------------------------------
\* Invariants that hold however commands, scheduler, monitor, faults and
\* crashes interleave.

\* No permit is lost: whoever holds one is being dispatched, is waiting for
\* reconciliation, or is tracked by the monitor, so that somebody will give
\* it back.  The lease is taken in the scheduler, given back in six places
\* and survives several error returns in between.
NoLeakedPermit ==
    \A j \in Job : held[j] # NoLease => inFlight[j] # Free \/ Tracked(j)

\* A clean reservation belongs to the dispatch that is running: one left
\* behind by an early return would hide its job from the scheduler for good.
ReservationHasOwner ==
    \A j \in Job : inFlight[j].kind = "clean" => sched.job = j

\* No wakeup is lost: with nothing going on and nothing to reconcile, no job
\* that could run is waiting for a kick nobody will send.  Kicks coalesce in
\* a one-slot channel, and several paths give capacity back without one.  Not
\* after a database call has failed: a pass that cannot list the queue just ends.
Settled == phase = "up" /\ Quiet
NoLostWakeup ==
    Settled /\ Dirty = {} /\ budget.db = Budget.db => \A j \in Runnable : ~CanAcquire(j)
------------------------------------------------------------------------------
\* Invariants of a user who waits for each command to take effect, under
\* engine faults, full disks, lost tasks and crashes.

\* A QUEUED job can be dispatched: its queue row is there.
QueuedHasEntry ==
    Settled => \A j \in Job : row[j].st = "queued" => queue[j] # "none"

\* No queue row outlives the queueing of its job, so nothing starts twice.
NoStaleEntry ==
    Settled => \A j \in Job :
        row[j].st \in NoLongerQueued \cup {"gone"} => queue[j] = "none"

\* Jobs table and queue table agree, though every command writes them separately.
QueueMatchesRows == QueuedHasEntry /\ NoStaleEntry

\* What the database calls DOWNLOADING is paid for, and is watched or about
\* to be.
DownloadIsAccounted ==
    phase = "up" => \A j \in Job : row[j].st = "downloading" =>
        held[j] # NoLease /\ (Tracked(j) \/ inFlight[j] # Free)

\* What the monitor watches is paid for, and is the task the database names.
TrackedIsCurrent ==
    phase = "up" => \A j \in Job : Tracked(j) =>
        held[j] # NoLease /\ activeJobs[j].eid = row[j].eid

\* Database, permits and the monitor's list agree on what is being downloaded.
PaidAndWatched == DownloadIsAccounted /\ TrackedIsCurrent

\* As long as nothing has failed, a job never has two tasks downloading it,
\* and every task that runs is paid for.  Start, Pause, Cancel, Retry and the
\* monitor each change task and permit in calls of their own.
Faultless == \A kind \in DOMAIN Budget \ {"cmd", "any"} : budget[kind] = Budget[kind]
OneTaskPerPermit ==
    Faultless => \A j \in Job : /\ Cardinality(LiveTasks(j)) <= 1
                                /\ LiveTasks(j) # {} => held[j] # NoLease

\* A fault costs at most one stray download: a task that runs although its job is
\* over, or that its job's row does not name.  A start whose limits cannot be set,
\* a crash between start and write, and a cancellation the engine did not hear of
\* each leave one; nothing multiplies them.
Stray(g) == Live(g) /\ LET r == row[task[g].job]
                       IN r.eid # g \/ r.st \in {"completed", "failed", "cancelled", "gone"}
Spent(kind) == Budget[kind] - budget[kind]
StraysPerFault ==
    Settled => Cardinality({g \in Gid : Stray(g)})
                   <= Spent("db") + Spent("rpc") + Spent("disk") + Spent("crash")

\* state.go: COMPLETED and CANCELLED are terminal.  Only deletion follows.
TerminalIsFinal ==
    [][\A j \in Job : IsTerminal(row[j].st) => row'[j].st \in {row[j].st, "gone"}]_coreVars
------------------------------------------------------------------------------
\* Liveness.

\* Every queued job is dispatched, fails or is taken back by the user, even
\* when the only permit is busy at first.
QueuedIsServed == \A j \in Job : row[j].st = "queued" ~> row[j].st # "queued"

\* No permit is kept for ever.
PermitsComeBack == \A j \in Job : held[j] # NoLease ~> held[j] = NoLease
==============================================================================
