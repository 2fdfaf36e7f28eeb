---------------------------- MODULE SchedulerLoop ----------------------------
(***************************************************************************)
(* The scheduler goroutine of internal/job/scheduler.go together with the  *)
(* part of Manager it calls to dispatch a job.  One goroutine, woken by a  *)
(* one-slot kick channel: it reconciles what earlier failures left behind, *)
(* then fills free capacity, one dispatch after the other.                 *)
(***************************************************************************)
EXTENDS CoreState

At(pc) == phase = "up" /\ sched.pc = pc
Goto(pc) == sched' = [sched EXCEPT !.pc = pc]
ToTop == sched' = [SchedIdle EXCEPT !.pc = "top"]
ToIdle == sched' = SchedIdle
Me == sched.job

othersUnchanged == UNCHANGED <<cmd, mon, fails, phase, recoverTodo>>
memoryUnchanged == UNCHANGED memoryVars
------------------------------------------------------------------------------
\* The loop.

\* <-kickCh: many kicks may stand behind the one that is taken.
Wake ==
    /\ At("idle") /\ kick
    /\ Serial => ~CommandRunning
    /\ kick' = FALSE
    /\ ToTop
    /\ UNCHANGED <<row, queue, task, activeJobs, held, inFlight, retryTimer, budget>>
    /\ othersUnchanged

\* schedule: nothing is dispatched while a reservation is dirty.
StartReconcile ==
    /\ At("top") /\ Dirty # {}
    /\ sched' = [sched EXCEPT !.pc = "reconcile", !.todo = Dirty]
    /\ UNCHANGED <<row, queue, task, budget>> /\ memoryUnchanged /\ othersUnchanged

\* schedule: ListRunnable, then take the first candidate the governor admits.
\* Which runnable job is first is the ranking policy's business (QueuePolicy).
List ==
    /\ At("top") /\ Dirty = {}
    /\ \/ \E j \in Runnable :
             /\ inFlight[j] = Free /\ CanAcquire(j)
             /\ held' = [held EXCEPT ![j] = Aria2]
             /\ inFlight' = [inFlight EXCEPT ![j] =
                                [Free EXCEPT !.kind = "clean", !.action = queue[j]]]
             /\ sched' = [SchedIdle EXCEPT !.pc = "fetch", !.job = j, !.action = queue[j]]
             /\ NoFault
       \/ /\ \A j \in Runnable : inFlight[j] # Free \/ ~CanAcquire(j)
          /\ ToIdle /\ NoFault
          /\ UNCHANGED <<held, inFlight>>
       \/ /\ ToIdle /\ Spend("db")
          /\ UNCHANGED <<held, inFlight>>
    /\ UNCHANGED <<row, queue, task, activeJobs, kick, retryTimer>> /\ othersUnchanged

\* The reconciliation retry timer kicks the loop.
RetryFires ==
    /\ phase = "up" /\ retryTimer
    /\ retryTimer' = FALSE
    /\ kick' = TRUE
    /\ UNCHANGED <<row, queue, task, activeJobs, held, inFlight, sched, budget>>
    /\ othersUnchanged
------------------------------------------------------------------------------
\* dispatchSingle.

\* Give up on the job, leaving its rows: permit and reservation go back.
Abandon == DropAndKick(Me) /\ Unreserve(Me) /\ ToTop

Fetch ==
    /\ At("fetch")
    /\ \/ /\ Exists(Me) /\ IsRecoverable(row[Me].st) /\ NoFault
          /\ sched' = [sched EXCEPT !.pc = "entry", !.cur = row[Me]]
          /\ UNCHANGED <<held, kick, inFlight>>
       \/ /\ ~(Exists(Me) /\ IsRecoverable(row[Me].st)) /\ NoFault
          /\ Goto("drop_entry")
          /\ UNCHANGED <<held, kick, inFlight>>
       \/ /\ Spend("db") /\ Goto("drop_entry")
          /\ UNCHANGED <<held, kick, inFlight>>
    /\ UNCHANGED <<row, queue, task, activeJobs, retryTimer>> /\ othersUnchanged

\* Delete the queue row, whether or not that works, and give up.
DropEntry ==
    /\ At("drop_entry")
    /\ Db(SetQueue(Me, "none"), UNCHANGED queue)
    /\ Abandon
    /\ UNCHANGED <<row, task, activeJobs, retryTimer>> /\ othersUnchanged

Entry ==
    /\ At("entry")
    /\ \/ /\ queue[Me] = sched.action /\ NoFault
          /\ Goto("load")
          /\ UNCHANGED <<held, kick, inFlight>>
       \/ /\ queue[Me] # sched.action /\ NoFault
          /\ Abandon
       \/ /\ Spend("db")
          /\ Abandon
    /\ UNCHANGED <<row, queue, task, activeJobs, retryTimer>> /\ othersUnchanged
------------------------------------------------------------------------------
\* dispatchQueuedJob.

FailTarget == IF sched.action = "start" THEN "failed" ELSE "paused"

\* Read the job a second time, check the disk, pick the engine call.
Load ==
    /\ At("load")
    /\ \/ /\ Exists(Me) /\ NoFault
          /\ sched' = [sched EXCEPT !.j = row[Me],
                                    !.pc = IF sched.action = "start" THEN "start" ELSE "resume"]
       \/ /\ ~Exists(Me) /\ NoFault /\ Goto("lost_entry")
       \/ /\ Spend("db") /\ Goto("lost_entry")
       \/ /\ Exists(Me) /\ Spend("disk")
          /\ sched' = [sched EXCEPT !.j = row[Me],
                                    !.pc = IF row[Me].eid # NoGid THEN "refuse" ELSE "refused"]
    /\ UNCHANGED <<row, queue, task>> /\ memoryUnchanged /\ othersUnchanged

\* The job vanished: delete its queue row, then fail like any other dispatch.
LostEntry ==
    /\ At("lost_entry")
    /\ Db(SetQueue(Me, "none"), UNCHANGED queue)
    /\ Goto("failed")
    /\ UNCHANGED <<row, task>> /\ memoryUnchanged /\ othersUnchanged

\* eng.Start: a new task.  The call may fail before or after aria2 acted.
NewTask(g, st) == task' = [task EXCEPT ![g] = [job |-> Me, st |-> st]]
Unused == {g \in Gid : TaskOf(g) = "unused"}
NextGid == CHOOSE g \in Unused : \A h \in Unused : g <= h

Start ==
    /\ At("start") /\ Unused # {}
    /\ \/ /\ \E st \in {"active"} \cup {w \in {"waiting"} : EngineQueues} : NewTask(NextGid, st)
          /\ sched' = [sched EXCEPT !.pc = "limits", !.j.eid = NextGid]
          /\ NoFault
       \/ /\ NewTask(NextGid, "active") \/ UNCHANGED task
          /\ Goto("failed") /\ Spend("rpc")
    /\ UNCHANGED <<row, queue>> /\ memoryUnchanged /\ othersUnchanged

\* applyJobLimits: one more call about the task that now runs.
Limits ==
    /\ At("limits")
    /\ \/ Goto("started") /\ NoFault
       \/ Goto("failed") /\ Spend("rpc")
    /\ UNCHANGED <<row, queue, task>> /\ memoryUnchanged /\ othersUnchanged

\* eng.Resume: aria2 unpauses paused tasks only.
Resume ==
    /\ At("resume")
    /\ LET g == sched.j.eid IN
       \/ TaskOf(g) = "paused" /\ SetTask(g, "active") /\ Goto("started") /\ NoFault
       \/ TaskOf(g) # "paused" /\ UNCHANGED task /\ Goto("failed") /\ NoFault
       \/ /\ Spend("rpc") /\ Goto("failed")
          /\ UNCHANGED task \/ (TaskOf(g) = "paused" /\ SetTask(g, "active"))
    /\ UNCHANGED <<row, queue>> /\ memoryUnchanged /\ othersUnchanged

\* The task runs; the row must say so.  If it cannot, the reservation is kept
\* with the task's identifier and reconciled at once.
Started ==
    /\ At("started")
    /\ LET r == [st |-> "downloading", eid |-> sched.j.eid] IN
       \/ /\ Update(Me, r) /\ NoFault
          /\ sched' = [sched EXCEPT !.pc = "activate", !.j = r]
          /\ UNCHANGED inFlight
       \/ /\ Spend("db") /\ UNCHANGED row
          /\ inFlight' = [inFlight EXCEPT ![Me] = [Free EXCEPT !.kind = "external",
                              !.action = sched.action, !.eid = sched.j.eid]]
          /\ sched' = [SchedIdle EXCEPT !.pc = "reconcile", !.todo = {Me}, !.stop = TRUE]
    /\ UNCHANGED <<queue, task, activeJobs, held, kick, retryTimer>> /\ othersUnchanged

\* Delete the queue row, track the job, end the reservation; the permit stays.
Activate ==
    /\ At("activate")
    /\ Db(SetQueue(Me, "none"), UNCHANGED queue)
    /\ AddActive(Me, sched.j)
    /\ Unreserve(Me)
    /\ ToTop
    /\ UNCHANGED <<row, task, held, kick, retryTimer>> /\ othersUnchanged
------------------------------------------------------------------------------
\* Failures.

\* persistDispatchFailure first pauses a task the job still has; whether that
\* works or not only sets a flag.
Refuse ==
    /\ At("refuse")
    /\ LET g == sched.j.eid IN
       \/ Live(g) /\ SetTask(g, "paused") /\ NoFault
       \/ ~Live(g) /\ UNCHANGED task /\ NoFault
       \/ UNCHANGED task /\ Spend("rpc")
    /\ Goto("refused")
    /\ UNCHANGED <<row, queue>> /\ memoryUnchanged /\ othersUnchanged

\* Mutants: the reservation is freed, or left as if the dispatch still ran.
MarkNothing == Unreserve(Me)
LeaveClean == UNCHANGED inFlight

MarkDirtyState == inFlight' = [inFlight EXCEPT ![Me] =
    [Free EXCEPT !.kind = "state", !.action = sched.action, !.target = FailTarget]]

\* persistDispatchFailure writes the outcome; if that fails the reservation is
\* kept and reconciled at once.
Refused ==
    /\ At("refused")
    /\ \/ /\ Update(Me, [sched.j EXCEPT !.st = FailTarget]) /\ NoFault
          /\ IF sched.action = "start"
             THEN Goto("drop_entry") /\ UNCHANGED <<held, kick, inFlight>>
             ELSE Abandon
       \/ /\ Spend("db") /\ UNCHANGED <<row, held, kick>>
          /\ MarkDirtyState
          /\ sched' = [SchedIdle EXCEPT !.pc = "reconcile", !.todo = {Me}, !.stop = TRUE]
    /\ UNCHANGED <<queue, task, activeJobs, retryTimer>> /\ othersUnchanged

\* dispatchSingle writes the outcome of a failed engine call from the copy it
\* read before the call; if that fails the timer reconciles it later.
Failed ==
    /\ At("failed")
    /\ \/ /\ Update(Me, [sched.cur EXCEPT !.st = FailTarget]) /\ NoFault
          /\ IF sched.action = "start"
             THEN Goto("drop_entry") /\ UNCHANGED <<held, kick, inFlight>>
             ELSE Abandon
          /\ UNCHANGED retryTimer
       \/ /\ Spend("db") /\ UNCHANGED <<row, held, kick>>
          /\ MarkDirtyState
          /\ retryTimer' = TRUE
          /\ ToIdle
    /\ UNCHANGED <<queue, task, activeJobs>> /\ othersUnchanged
------------------------------------------------------------------------------
\* reconcileAll.

\* Leave this reservation as it is and go on to the next.
Skip == sched' = [SchedIdle EXCEPT !.pc = "reconcile", !.stop = sched.stop,
                                   !.todo = sched.todo \ {Me}]

Reconcile ==
    /\ At("reconcile")
    /\ \E j \in sched.todo :
          LET res == inFlight[j]
              eid == IF row[j].eid # NoGid THEN row[j].eid ELSE res.eid
          IN
          \/ /\ Exists(j) /\ NoFault
             /\ sched' = [sched EXCEPT !.job = j, !.action = res.action,
                    !.j = IF res.kind = "state" THEN [row[j] EXCEPT !.st = res.target]
                                                ELSE [row[j] EXCEPT !.eid = eid],
                    !.pc = IF res.kind = "state" THEN "rs_write" ELSE "rx_status"]
          \/ /\ ~Exists(j) /\ NoFault
             /\ sched' = [sched EXCEPT !.todo = @ \ {j}]
          \/ /\ Spend("db")
             /\ sched' = [sched EXCEPT !.todo = @ \ {j}]
    /\ UNCHANGED <<row, queue, task>> /\ memoryUnchanged /\ othersUnchanged

\* reconcileStatePersistence
RsWrite ==
    /\ At("rs_write")
    /\ \/ /\ Update(Me, sched.j) /\ NoFault
          /\ IF sched.j.st = "failed"
             THEN Goto("rs_delete") /\ UNCHANGED <<held, kick, inFlight>>
             ELSE Skip /\ Unreserve(Me) /\ Drop(Me) /\ kick' = TRUE
       \/ /\ Spend("db") /\ Skip
          /\ UNCHANGED <<row, held, kick, inFlight>>
    /\ UNCHANGED <<queue, task, activeJobs, retryTimer>> /\ othersUnchanged

RsDelete ==
    /\ At("rs_delete")
    /\ Db(SetQueue(Me, "none"), UNCHANGED queue)
    /\ Skip /\ Unreserve(Me) /\ Drop(Me) /\ kick' = TRUE
    /\ UNCHANGED <<row, task, activeJobs, retryTimer>> /\ othersUnchanged

\* reconcileExternalExecution: only a task that runs or has completed settles
\* the reservation; in any other state it stays.
RxStatus ==
    /\ At("rx_status")
    /\ \/ /\ TaskOf(sched.j.eid) \in {"active", "complete"} /\ NoFault
          /\ sched' = [sched EXCEPT !.pc = "rx_write", !.j.st = "downloading"]
       \/ /\ TaskOf(sched.j.eid) \notin {"active", "complete"} /\ NoFault /\ Skip
       \/ Spend("rpc") /\ Skip
    /\ UNCHANGED <<row, queue, task>> /\ memoryUnchanged /\ othersUnchanged

RxWrite ==
    /\ At("rx_write")
    /\ \/ Update(Me, sched.j) /\ Goto("rx_delete") /\ NoFault
       \/ UNCHANGED row /\ Skip /\ Spend("db")
    /\ UNCHANGED <<queue, task>> /\ memoryUnchanged /\ othersUnchanged

RxDelete ==
    /\ At("rx_delete")
    /\ Db(SetQueue(Me, "none"), UNCHANGED queue)
    /\ AddActive(Me, sched.j) /\ Unreserve(Me) /\ kick' = TRUE
    /\ Skip
    /\ UNCHANGED <<row, task, held, retryTimer>> /\ othersUnchanged

\* Still dirty: arm the retry timer.  Clean: disarm it, and dispatch unless
\* this was the reconciliation of a dispatch that has just failed.
EndReconcile ==
    /\ At("reconcile") /\ sched.todo = {}
    /\ \/ /\ Dirty # {}
          /\ retryTimer' = TRUE /\ ToIdle
       \/ /\ Dirty = {} /\ sched.stop
          /\ ToIdle /\ UNCHANGED retryTimer
       \/ /\ Dirty = {} /\ ~sched.stop
          /\ retryTimer' = FALSE /\ ToTop
    /\ UNCHANGED <<row, queue, task, activeJobs, held, inFlight, kick, budget>>
    /\ othersUnchanged
------------------------------------------------------------------------------
SchedulerStep ==
    \/ Wake \/ StartReconcile \/ List
    \/ Fetch \/ DropEntry \/ Entry
    \/ Load \/ LostEntry \/ Start \/ Limits \/ Resume \/ Started \/ Activate
    \/ Refuse \/ Refused \/ Failed
    \/ Reconcile \/ RsWrite \/ RsDelete \/ RxStatus \/ RxWrite \/ RxDelete \/ EndReconcile
==============================================================================
