------------------------------ MODULE CoreState ------------------------------
(***************************************************************************)
(* The state the scheduler, the user commands, the monitor and startup     *)
(* recovery share for direct (aria2) downloads, and the operations on it.  *)
(*                                                                         *)
(* Grain: one step is one database or engine call together with the        *)
(* in-memory work up to the next such call.  Between two steps any other   *)
(* goroutine may run, and the process may die.                             *)
(***************************************************************************)
EXTENDS JobStates, Integers, FiniteSets

CONSTANTS
    Job,            \* job identifiers
    Client,         \* concurrent API requests
    Commands,       \* commands the clients issue in this instance
    TransferLimit,  \* max_concurrent_downloads
    MaxTasks,       \* bound: engine tasks ever created
    MaxFailures,    \* maxConsecutiveFailures of the monitor
    EngineQueues,   \* TRUE: aria2 may leave a new task waiting
    Serial,         \* TRUE: commands never overlap scheduler or monitor work
    Budget          \* bounds: commands, faults and crashes in a behaviour

ASSUME CoreAssumptions ==
    /\ IsFiniteSet(Job)
    /\ TransferLimit \in Nat \ {0}
    /\ MaxTasks \in Nat /\ MaxFailures \in Nat \ {0}
    /\ Serial \in BOOLEAN /\ EngineQueues \in BOOLEAN
    /\ Budget \in [{"cmd", "any", "db", "rpc", "disk", "lost", "crash"} -> Nat]

VARIABLES
    row,         \* jobs table: job -> [st, eid]
    queue,       \* job_queue table: job -> action of its row, or "none"
    task,        \* aria2: gid -> [job, st]
    activeJobs,  \* Manager.activeJobs: job -> in-memory copy of its row
    held,        \* governor leases (see PermitPool)
    inFlight,    \* Scheduler.inFlight: job -> reservation
    kick,        \* the one-slot kick channel is full
    retryTimer,  \* reconciliationRetryTimer is armed
    sched,       \* the scheduler goroutine
    cmd,         \* client -> the API call it runs
    mon,         \* the monitor goroutine
    fails,       \* Monitor.consecutiveFailures
    phase,       \* "up", "down" or "recovering"
    recoverTodo, \* rows startup recovery has still to visit
    budget       \* what is left of Budget

durableVars == <<row, queue>>
memoryVars == <<activeJobs, held, inFlight, kick, retryTimer>>
procVars == <<sched, cmd, mon, fails>>
startVars == <<phase, recoverTodo>>
coreVars == <<durableVars, task, memoryVars, procVars, startVars, budget>>

Aria2 == "aria2"
NoLease == "noLease"
Permits == INSTANCE PermitPool WITH
    Engine <- {Aria2}, NoEngine <- "", serving <- (phase = "up"),
    globalLimit <- TransferLimit, engineLimit <- [e \in {Aria2} |-> TransferLimit]
------------------------------------------------------------------------------
\* Rows and tasks.  Absent: not created yet.  Gone: deleted, or its creation
\* failed; a job identifier is never used twice.

Gid == 1..MaxTasks
NoGid == 0
Absent == [st |-> "absent", eid |-> NoGid]
Gone == [st |-> "gone", eid |-> NoGid]
Row == [st : JobStatus \cup {"absent", "gone"}, eid : Gid \cup {NoGid}]
Exists(j) == row[j].st \in JobStatus

\* Update writes every column from the caller's copy, and is silent when the
\* row is gone.
Update(j, r) == row' = IF Exists(j) THEN [row EXCEPT ![j] = r] ELSE row
SetQueue(j, action) == queue' = [queue EXCEPT ![j] = action]

Runnable == {j \in Job : row[j].st = "queued" /\ queue[j] # "none"}

TaskOf(g) == IF g = NoGid THEN "none" ELSE task[g].st
Known(g) == TaskOf(g) \in TaskStatus
SetTask(g, st) == task' = [task EXCEPT ![g].st = st]
Live(g) == TaskOf(g) \in {"active", "waiting"}
LiveTasks(j) == {g \in Gid : task[g].job = j /\ Live(g)}
------------------------------------------------------------------------------
\* Commands and faults are drawn from a bounded budget; "any" bounds them all
\* together.
Spend(kind) ==
    /\ budget[kind] > 0 /\ budget.any > 0
    /\ budget' = [budget EXCEPT ![kind] = @ - 1, !.any = @ - 1]
NoFault == UNCHANGED budget

\* A database or engine call: either it goes through and ok happens, or it
\* returns an error and err happens.
Db(ok, err) == (ok /\ NoFault) \/ (err /\ Spend("db"))
------------------------------------------------------------------------------
\* In-memory operations of Manager, Scheduler and ResourceGovernor.

Free == [kind |-> "free", action |-> "none", target |-> "none", eid |-> NoGid]
Dirty == {j \in Job : inFlight[j].kind \in {"external", "state"}}

\* TryAcquire is idempotent: a job that holds its permit is admitted again.
CanAcquire(j) == held[j] # NoLease \/ Permits!HasRoom(Aria2)

Drop(j) == held' = [held EXCEPT ![j] = NoLease]

\* releaseGovernorLease: kick only when a permit was given back.
DropAndKick(j) == Drop(j) /\ kick' = (kick \/ held[j] # NoLease)

AddActive(j, r) == activeJobs' = [activeJobs EXCEPT ![j] = r]

\* Mutant of RemoveActive: the permit is forgotten.
OnlyForgetsJob(j) == activeJobs' = [activeJobs EXCEPT ![j] = Absent] /\ UNCHANGED held

\* removeActive forgets the job and returns its permit.
RemoveActive(j) == activeJobs' = [activeJobs EXCEPT ![j] = Absent] /\ Drop(j)

Tracked(j) == activeJobs[j].st # "absent"
------------------------------------------------------------------------------
\* Local state of the goroutines.

SchedIdle == [pc |-> "idle", job |-> "none", action |-> "none", cur |-> Absent,
              j |-> Absent, todo |-> {}, stop |-> FALSE]
CmdIdle == [pc |-> "idle", op |-> "none", job |-> "none", j |-> Absent,
            action |-> "none", ok |-> TRUE]
MonIdle == [pc |-> "idle", snap |-> [j \in Job |-> Absent], job |-> "none",
            status |-> "none"]

\* A queue row and a permit go back, and the reservation with them.
Unreserve(j) == inFlight' = [inFlight EXCEPT ![j] = Free]

CommandRunning == \E c \in Client : cmd[c].pc # "idle"
Quiet == sched.pc = "idle" /\ ~kick /\ mon.pc = "idle" /\ ~CommandRunning

CoreTypeOK ==
    /\ row \in [Job -> Row]
    /\ queue \in [Job -> {"none", "start", "resume"}]
    /\ task \in [Gid -> [job : Job \cup {"none"}, st : TaskStatus \cup {"unused", "gone"}]]
    /\ activeJobs \in [Job -> {Absent} \cup [st : {"downloading", "queued"}, eid : Gid]]
    /\ held \in [Job -> {Aria2, NoLease}]
    /\ inFlight \in [Job -> [kind : {"free", "clean", "external", "state"},
                             action : {"none", "start", "resume"},
                             target : {"none", "failed", "paused"},
                             eid : Gid \cup {NoGid}]]
    /\ kick \in BOOLEAN /\ retryTimer \in BOOLEAN
    /\ fails \in [Job -> 0..MaxFailures]
    /\ phase \in {"up", "down", "recovering"}
    /\ recoverTodo \subseteq Job
    /\ budget \in [DOMAIN Budget -> Nat]

CoreInit ==
    /\ row = [j \in Job |-> Absent]
    /\ queue = [j \in Job |-> "none"]
    /\ task = [g \in Gid |-> [job |-> "none", st |-> "unused"]]
    /\ activeJobs = [j \in Job |-> Absent]
    /\ held = [j \in Job |-> NoLease]
    /\ inFlight = [j \in Job |-> Free]
    /\ kick = FALSE /\ retryTimer = FALSE
    /\ sched = SchedIdle
    /\ cmd = [c \in Client |-> CmdIdle]
    /\ mon = MonIdle
    /\ fails = [j \in Job |-> 0]
    /\ phase = "up" /\ recoverTodo = {}
    /\ budget = Budget
==============================================================================
