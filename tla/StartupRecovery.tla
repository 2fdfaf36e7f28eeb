--------------------------- MODULE StartupRecovery ---------------------------
(***************************************************************************)
(* The death of the process and what the next one does before it serves:   *)
(* the queue backfill of the schema migration (database/sqlite.go),        *)
(* recover (internal/job/recovery.go) and StartBackgroundTasks             *)
(* (internal/job/manager.go).  No command and no other goroutine of the    *)
(* manager runs meanwhile; the engine does.                                *)
(***************************************************************************)
EXTENDS CoreState

\* Everything in memory is lost, half-done requests included.  aria2 is a
\* process of its own: it may go on without us, or die and forget its tasks.
Crash ==
    /\ phase \in {"up", "recovering"}
    /\ Spend("crash")
    /\ phase' = "down" /\ recoverTodo' = {}
    /\ activeJobs' = [j \in Job |-> Absent]
    /\ held' = [j \in Job |-> NoLease]
    /\ inFlight' = [j \in Job |-> Free]
    /\ kick' = FALSE /\ retryTimer' = FALSE
    /\ sched' = SchedIdle /\ mon' = MonIdle
    /\ cmd' = [c \in Client |-> CmdIdle]
    /\ fails' = [j \in Job |-> 0]
    /\ \/ UNCHANGED task
       \/ task' = [g \in Gid |-> IF Known(g) THEN [task[g] EXCEPT !.st = "gone"] ELSE task[g]]
    /\ UNCHANGED <<row, queue>>

\* The migration gives every QUEUED row that has no queue row one, to be
\* started; then recover lists the rows it must look at.
Restart ==
    /\ phase = "down"
    /\ phase' = "recovering"
    /\ queue' = [j \in Job |-> IF row[j].st = "queued" /\ queue[j] = "none"
                               THEN "start" ELSE queue[j]]
    /\ recoverTodo' = {j \in Job : row[j].st = "downloading"}
    /\ UNCHANGED <<row, task, activeJobs, held, inFlight, kick, retryTimer, procVars, budget>>

\* Mutant: a task found paused is tracked like a running one.
ReattachesPaused(g) == TaskOf(g) \in {"active", "waiting", "paused"}

\* The task states for which recoverJob puts the job back among the active.
Reattaches(g) == TaskOf(g) \in {"active", "waiting"}

\* recoverJob for a row found DOWNLOADING (QUEUED and PAUSED rows stay as they
\* are).  The row takes the state the engine reports; a task that runs or
\* waits is tracked again.  The result of the write is not looked at.
RecoverJob(j) ==
    /\ phase = "recovering" /\ j \in recoverTodo
    /\ LET g == row[j].eid
           answered(st) == /\ Db(Update(j, [row[j] EXCEPT !.st = st]), UNCHANGED row)
                           /\ UNCHANGED activeJobs
       IN
       \/ /\ Reattaches(g)
          /\ LET r == [row[j] EXCEPT !.st = MapAria2Status(task[g].st)] IN
             /\ Db(Update(j, r), UNCHANGED row)
             /\ AddActive(j, r)
       \/ /\ Known(g) /\ ~Reattaches(g)
          /\ answered(MapAria2Status(task[g].st))
       \/ /\ ~Known(g)
          /\ answered("failed")
       \/ /\ Known(g) /\ Spend("rpc")
          /\ Update(j, [row[j] EXCEPT !.st = "failed"])
          /\ UNCHANGED activeJobs
    /\ recoverTodo' = recoverTodo \ {j}
    /\ UNCHANGED <<queue, task, held, inFlight, kick, retryTimer, procVars, phase>>

\* Mutant: no accounting at all.
NothingReconstructed == [j \in Job |-> NoLease]

\* ReconstructJob for every active job.
Reconstructed ==
    [j \in Job |-> IF activeJobs[j].st = "downloading" THEN Aria2 ELSE NoLease]

\* StartBackgroundTasks after recovery: count the downloads that run, whatever
\* the limit says; drop the queue rows of jobs that are past queueing; start
\* the scheduler and kick it once.
Serve ==
    /\ phase = "recovering" /\ recoverTodo = {}
    /\ held' = Reconstructed
    /\ queue' = [j \in Job |-> IF ~Exists(j) \/ row[j].st \in NoLongerQueued
                               THEN "none" ELSE queue[j]]
    /\ kick' = TRUE
    /\ phase' = "up"
    /\ UNCHANGED <<row, task, activeJobs, inFlight, retryTimer, procVars, recoverTodo, budget>>

RecoveryStep == Restart \/ Serve \/ \E j \in Job : RecoverJob(j)
==============================================================================
