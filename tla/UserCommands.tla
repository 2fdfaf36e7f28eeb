---------------------------- MODULE UserCommands ----------------------------
(***************************************************************************)
(* The job commands of the API for direct downloads: Create, Pause,        *)
(* Resume, Cancel, Retry, RunNow and Delete of internal/job/manager.go.    *)
(* Each is a request goroutine that reads the job once and then makes its  *)
(* calls one after the other; nothing locks the job meanwhile.             *)
(***************************************************************************)
EXTENDS CoreState

CmdAt(c, pc) == phase = "up" /\ cmd[c].pc = pc
CmdGoto(c, pc) == cmd' = [cmd EXCEPT ![c].pc = pc]
Finish(c) == cmd' = [cmd EXCEPT ![c] = CmdIdle]

\* Mutant: the command does not wake the scheduler.
NoKick == UNCHANGED kick

Kick == kick' = TRUE

elseUnchanged == UNCHANGED <<inFlight, retryTimer, sched, mon, fails, phase, recoverTodo>>
trackingUnchanged == UNCHANGED <<activeJobs, held, kick>>
------------------------------------------------------------------------------
\* Which commands a job accepts, and the call each starts with.

Allowed(op, st) ==
    CASE op = "pause"   -> CanMove(st, "paused")
      [] op = "resume"  -> CanMove(st, "queued")
      [] op = "retry"   -> CanMove(st, "queued")
      [] op = "cancel"  -> CanMove(st, "cancelled")
      [] op = "run_now" -> st \in {"queued", "paused"}
      [] op = "delete"  -> st \in {"completed", "cancelled", "failed"}

\* Mutants: Retry writes no queue row; Cancel forgets the engine.
RetryOnlyUpdates(op, r) ==
    CASE op = "pause"   -> IF r.st = "queued" THEN "update"
                           ELSE IF r.eid # NoGid THEN "engine" ELSE "enqueue"
      [] op = "cancel"  -> IF r.eid # NoGid THEN "engine" ELSE "update"
      [] op = "retry"   -> "update"
      [] op \in {"resume", "run_now"} -> "get_entry"
      [] op = "delete"  -> "cascade"

CancelOnlyUpdates(op, r) ==
    CASE op = "pause"   -> IF r.st = "queued" THEN "update"
                           ELSE IF r.eid # NoGid THEN "engine" ELSE "enqueue"
      [] op = "cancel"  -> "update"
      [] op = "retry"   -> "enqueue"
      [] op \in {"resume", "run_now"} -> "get_entry"
      [] op = "delete"  -> "cascade"

FirstCall(op, r) ==
    CASE op = "pause"   -> IF r.st = "queued" THEN "update"
                           ELSE IF r.eid # NoGid THEN "engine" ELSE "enqueue"
      [] op = "cancel"  -> IF r.eid # NoGid THEN "engine" ELSE "update"
      [] op = "retry"   -> "enqueue"
      [] op \in {"resume", "run_now"} -> "get_entry"
      [] op = "delete"  -> "cascade"

Target(op) ==
    CASE op = "pause" -> "paused" [] op = "cancel" -> "cancelled" [] OTHER -> "queued"

\* The request: read the job and check the transition.
Begin(c, op, j) ==
    /\ CmdAt(c, "idle") /\ op \in Commands /\ op # "create"
    /\ Serial => Quiet
    /\ Exists(j) /\ Allowed(op, row[j].st)
    /\ Spend("cmd")
    /\ cmd' = [cmd EXCEPT ![c] =
          [CmdIdle EXCEPT !.pc = FirstCall(op, row[j]), !.op = op, !.job = j, !.j = row[j],
              !.action = IF op = "retry" THEN "start" ELSE "resume"]]
    /\ UNCHANGED <<row, queue, task>> /\ trackingUnchanged /\ elseUnchanged

\* CreateWithOptions: the queue row is written before the job.
BeginCreate(c, j) ==
    /\ CmdAt(c, "idle") /\ "create" \in Commands
    /\ Serial => Quiet
    /\ row[j] = Absent /\ \A d \in Client : cmd[d].job # j
    /\ Spend("cmd")
    /\ cmd' = [cmd EXCEPT ![c] =
          [CmdIdle EXCEPT !.pc = "enqueue", !.op = "create", !.job = j, !.action = "start",
              !.j = [st |-> "queued", eid |-> NoGid]]]
    /\ UNCHANGED <<row, queue, task>> /\ trackingUnchanged /\ elseUnchanged
------------------------------------------------------------------------------
\* The calls.

\* Pause and Cancel act on the engine first; aria2 refuses to pause a task
\* that does not run and to remove one that has stopped.
CallEngine(c) ==
    /\ CmdAt(c, "engine")
    /\ LET g == cmd[c].j.eid
           pausing == cmd[c].op = "pause"
           accepted == Live(g) \/ (~pausing /\ TaskOf(g) = "paused")
           acts == SetTask(g, IF pausing THEN "paused" ELSE "removed")
       IN
       \/ /\ accepted /\ acts /\ NoFault
          /\ CmdGoto(c, IF pausing THEN "enqueue" ELSE "update")
       \/ ~accepted /\ UNCHANGED task /\ Finish(c) /\ NoFault
       \/ (UNCHANGED task \/ (accepted /\ acts)) /\ Finish(c) /\ Spend("rpc")
    /\ UNCHANGED <<row, queue>> /\ trackingUnchanged /\ elseUnchanged

\* Resume and RunNow keep the action an entry already has, but RunNow resumes
\* a paused job that has a task.
GetEntry(c) ==
    /\ CmdAt(c, "get_entry")
    /\ LET old == queue[cmd[c].job]
           r == cmd[c].j
           action ==
               IF cmd[c].op = "resume" THEN IF old = "none" THEN "resume" ELSE old
               ELSE IF r.st = "paused" /\ r.eid # NoGid THEN "resume"
               ELSE IF old = "none" THEN "start" ELSE old
       IN
       \/ cmd' = [cmd EXCEPT ![c].pc = "enqueue", ![c].action = action] /\ NoFault
       \/ Finish(c) /\ Spend("db")
    /\ UNCHANGED <<row, queue, task>> /\ trackingUnchanged /\ elseUnchanged

\* Upsert the queue row.  Pause goes on when this fails; the others give up.
Enqueue(c) ==
    /\ CmdAt(c, "enqueue")
    /\ LET op == cmd[c].op
           j == cmd[c].job
       IN
       \/ /\ SetQueue(j, cmd[c].action) /\ NoFault
          /\ IF op = "run_now" /\ cmd[c].j.st = "queued"
             THEN Finish(c) /\ Kick
             ELSE /\ CmdGoto(c, IF op = "create" THEN "insert" ELSE "update")
                  /\ UNCHANGED kick
       \/ /\ UNCHANGED <<queue, kick>> /\ Spend("db")
          /\ IF op = "pause"
             THEN cmd' = [cmd EXCEPT ![c].pc = "update", ![c].ok = FALSE]
             ELSE Finish(c)
    /\ UNCHANGED <<row, task, activeJobs, held>> /\ elseUnchanged

Insert(c) ==
    /\ CmdAt(c, "insert")
    /\ \/ /\ row' = [row EXCEPT ![cmd[c].job] = cmd[c].j] /\ NoFault
          /\ Finish(c) /\ Kick
       \/ /\ row' = [row EXCEPT ![cmd[c].job] = Gone] /\ Spend("db")
          /\ CmdGoto(c, "undo") /\ UNCHANGED kick
    /\ UNCHANGED <<queue, task, activeJobs, held>> /\ elseUnchanged

\* Write the new status from the copy read at the start.
WriteStatus(c) ==
    /\ CmdAt(c, "update")
    /\ LET op == cmd[c].op
           j == cmd[c].job
           wasQueued == cmd[c].j.st = "queued"
       IN
       \/ /\ Update(j, [cmd[c].j EXCEPT !.st = Target(op)]) /\ NoFault
          /\ \/ /\ op \in {"resume", "retry", "run_now"}
                /\ Finish(c) /\ Kick /\ UNCHANGED <<activeJobs, held>>
             \/ /\ op = "pause" /\ ~wasQueued /\ cmd[c].ok
                /\ Finish(c) /\ Kick /\ RemoveActive(j)
             \/ /\ op = "pause" /\ (wasQueued \/ ~cmd[c].ok)
                /\ Finish(c) /\ trackingUnchanged
             \/ /\ op = "cancel"
                /\ CmdGoto(c, "dequeue") /\ trackingUnchanged
       \/ /\ Spend("db") /\ UNCHANGED row /\ trackingUnchanged
          /\ IF op \in {"resume", "retry"} THEN CmdGoto(c, "undo") ELSE Finish(c)
    /\ UNCHANGED <<queue, task>> /\ elseUnchanged

\* Take back the queue row of a command that failed.
Undo(c) ==
    /\ CmdAt(c, "undo")
    /\ Db(SetQueue(cmd[c].job, "none"), UNCHANGED queue)
    /\ Finish(c)
    /\ UNCHANGED <<row, task>> /\ trackingUnchanged /\ elseUnchanged

\* Cancel, last part.
Dequeue(c) ==
    /\ CmdAt(c, "dequeue")
    /\ Db(SetQueue(cmd[c].job, "none"), UNCHANGED queue)
    /\ RemoveActive(cmd[c].job) /\ Kick
    /\ Finish(c)
    /\ UNCHANGED <<row, task>> /\ elseUnchanged

\* Delete: DeleteJobCascade removes both rows in one transaction.
Cascade(c) ==
    /\ CmdAt(c, "cascade")
    /\ LET j == cmd[c].job IN
       \/ /\ row' = [row EXCEPT ![j] = Gone] /\ SetQueue(j, "none") /\ NoFault
          /\ RemoveActive(j) /\ Kick
       \/ UNCHANGED <<row, queue>> /\ trackingUnchanged /\ Spend("db")
    /\ Finish(c)
    /\ UNCHANGED task /\ elseUnchanged
------------------------------------------------------------------------------
CommandCall(c) ==
    \/ CallEngine(c) \/ GetEntry(c) \/ Enqueue(c) \/ Insert(c) \/ WriteStatus(c)
    \/ Undo(c) \/ Dequeue(c) \/ Cascade(c)

Request(c) == \E j \in Job :
    BeginCreate(c, j)
        \/ \E op \in {"pause", "resume", "cancel", "retry", "run_now", "delete"} : Begin(c, op, j)
==============================================================================
