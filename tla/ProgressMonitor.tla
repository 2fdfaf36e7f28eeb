--------------------------- MODULE ProgressMonitor ---------------------------
(***************************************************************************)
(* The monitor goroutine (internal/job/monitor.go) and the part of         *)
(* Manager.UpdateJobFromEngine that direct downloads reach.  Every tick    *)
(* copies the active jobs and then visits the copies one by one, so what   *)
(* it writes back may be older than what a command has done meanwhile.     *)
(***************************************************************************)
EXTENDS CoreState

MonAt(pc) == phase = "up" /\ mon.pc = pc
Copy == mon.snap[mon.job]

\* Done with this copy.
NextCopy(j) == mon' = [mon EXCEPT !.pc = "visit", !.job = "none", !.status = "none",
                                  !.snap[j] = Absent]
ResetFailures(j) == fails' = [fails EXCEPT ![j] = 0]

restUnchanged == UNCHANGED <<queue, task, inFlight, retryTimer, sched, cmd, phase, recoverTodo>>
------------------------------------------------------------------------------
Tick ==
    /\ MonAt("idle")
    /\ Serial => ~CommandRunning
    /\ \E j \in Job : Tracked(j)
    /\ mon' = [mon EXCEPT !.pc = "visit", !.snap = activeJobs]
    /\ UNCHANGED <<row, activeJobs, held, kick, fails, budget>> /\ restUnchanged

EndTick ==
    /\ MonAt("visit") /\ \A j \in Job : mon.snap[j] = Absent
    /\ mon' = MonIdle
    /\ UNCHANGED <<row, activeJobs, held, kick, fails, budget>> /\ restUnchanged

\* Ask the engine.  MaxFailures errors in a row condemn the job.  The tests
\* of tick for a copy that is terminal or has no engine identifier never
\* succeed for direct downloads: CoreTypeOK says what activeJobs can hold.
Poll(j) ==
    /\ MonAt("visit") /\ mon.snap[j] # Absent
    /\ LET g == mon.snap[j].eid
           failed == fails' = [fails EXCEPT ![j] = IF @ < MaxFailures THEN @ + 1 ELSE @]
           next == IF fails[j] + 1 >= MaxFailures
                   THEN mon' = [mon EXCEPT !.pc = "condemn", !.job = j]
                   ELSE NextCopy(j)
       IN
       \/ /\ Known(g) /\ ResetFailures(j) /\ NoFault
          /\ mon' = [mon EXCEPT !.pc = "apply", !.job = j, !.status = MapAria2Status(task[g].st)]
       \/ ~Known(g) /\ failed /\ next /\ NoFault
       \/ Known(g) /\ failed /\ next /\ Spend("rpc")
    /\ UNCHANGED <<row, activeJobs, held, kick>> /\ restUnchanged

\* recordFailure at the limit: a row that is terminal already only needs its
\* tracking purged.
Condemn ==
    /\ MonAt("condemn")
    /\ LET j == mon.job IN
       \/ /\ row[j].st \in {"completed", "failed", "cancelled"} /\ NoFault
          /\ RemoveActive(j) /\ ResetFailures(j) /\ NextCopy(j)
       \/ /\ row[j].st \notin {"completed", "failed", "cancelled"} /\ NoFault
          /\ mon' = [mon EXCEPT !.pc = "fail"]
          /\ UNCHANGED <<activeJobs, held, fails>>
       \/ /\ Spend("db")
          /\ mon' = [mon EXCEPT !.pc = "fail"]
          /\ UNCHANGED <<activeJobs, held, fails>>
    /\ UNCHANGED <<row, kick>> /\ restUnchanged

Fail ==
    /\ MonAt("fail")
    /\ LET j == mon.job IN
       /\ \/ /\ Update(j, [Copy EXCEPT !.st = "failed"]) /\ NoFault
             /\ RemoveActive(j) /\ kick' = TRUE /\ ResetFailures(j)
          \/ UNCHANGED <<row, activeJobs, held, kick, fails>> /\ Spend("db")
       /\ NextCopy(j)
    /\ restUnchanged
------------------------------------------------------------------------------
\* UpdateJobFromEngine.

\* Mutant: the capacity of an ended download is given back silently.
ApplyEndSilently ==
    /\ MonAt("apply") /\ mon.status \in {"completed", "failed", "cancelled"}
    /\ LET j == mon.job IN
       /\ Update(j, [Copy EXCEPT !.st = mon.status]) /\ NoFault
       /\ RemoveActive(j)
       /\ NextCopy(j)
    /\ UNCHANGED <<fails, kick>> /\ restUnchanged

\* The task ended: write it, then forget the job and kick.
ApplyEnd ==
    /\ MonAt("apply") /\ mon.status \in {"completed", "failed", "cancelled"}
    /\ LET j == mon.job IN
       /\ \/ /\ Update(j, [Copy EXCEPT !.st = mon.status]) /\ NoFault
             /\ RemoveActive(j) /\ kick' = TRUE
          \/ UNCHANGED <<row, activeJobs, held, kick>> /\ Spend("db")
       /\ NextCopy(j)
    /\ UNCHANGED fails /\ restUnchanged

\* Paused behind the manager's back: the result of the write is not looked at.
ApplyPaused ==
    /\ MonAt("apply") /\ mon.status = "paused"
    /\ LET j == mon.job IN
       /\ Db(Update(j, [Copy EXCEPT !.st = "paused"]), UNCHANGED row)
       /\ RemoveActive(j) /\ kick' = TRUE
       /\ NextCopy(j)
    /\ UNCHANGED fails /\ restUnchanged

\* Running or waiting: the copy becomes the active job, also when a command
\* has removed the job from the active ones since.
ApplyRunning ==
    /\ MonAt("apply") /\ mon.status \in {"downloading", "queued"}
    /\ LET j == mon.job IN
       /\ AddActive(j, [Copy EXCEPT !.st = "downloading"])
       /\ mon' = [mon EXCEPT !.pc = "persist"]
    /\ UNCHANGED <<row, held, kick, fails, budget>> /\ restUnchanged

\* Now and then the progress goes to the database too.
Persist ==
    /\ MonAt("persist")
    /\ LET j == mon.job IN
       /\ Db(UNCHANGED row \/ Update(j, [Copy EXCEPT !.st = "downloading"]), UNCHANGED row)
       /\ NextCopy(j)
    /\ UNCHANGED <<activeJobs, held, kick, fails>> /\ restUnchanged
------------------------------------------------------------------------------
MonitorStep ==
    \/ Tick \/ EndTick
    \/ \E j \in Job : Poll(j)
    \/ Condemn \/ Fail
    \/ ApplyEnd \/ ApplyPaused \/ ApplyRunning \/ Persist
==============================================================================
