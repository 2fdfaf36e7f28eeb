----------------------------- MODULE Finalization -----------------------------
(***************************************************************************)
(* The end of a media download: yt-dlp leaves a finished file in the work   *)
(* directory, the progress monitor moves it into the destination directory  *)
(* under a journal record (internal/job/finalization.go), commits the job   *)
(* and cleans up.  The application may die between any two steps; the next  *)
(* start reconciles the journal, then fails what was still downloading.     *)
(* Clients cancel, retry and delete meanwhile.                              *)
(*                                                                         *)
(* Each call of the database, the file system or the engine is a step.      *)
(* Analysis and queueing of media jobs are in MediaProcesses and            *)
(* SchedulerLoop: here a retried job downloads again at once.               *)
(***************************************************************************)
EXTENDS MediaFiles, TLC

CONSTANTS
    Policies,  \* conflict policies considered
    Devices,   \* "same", "other"
    Scenarios  \* bounds of a behaviour: [jobs |-> those that exist, db, io, foreign,
               \* cmd, crash |-> number of failing calls, new files, commands, crashes]

Bounds == [jobs : SUBSET Job, db : Nat, io : Nat, foreign : Nat, cmd : Nat, crash : Nat]

ASSUME DeliveryAssumptions ==
    /\ Policies \subseteq ConflictPolicy /\ Devices \subseteq {"same", "other"}
    /\ Scenarios \subseteq Bounds

VARIABLES
    row,       \* job -> [status, final] of its database row
    attempt,   \* job -> the number of its download
    active,    \* job -> the FinalPath of the copy in activeJobs, Untracked
    engine,    \* job -> what Status answers
    journal,   \* delivery -> [phase, path] of its finalization record
    fin,       \* the monitor or the recovery: [at, d, live, path, final, copy]; final
               \* is the FinalPath of the copy of the job it works on, copy the
               \* content of the temporary file next to the destination
    todo,      \* records the recovery has still to look at
    client,    \* a client's command: [at, job, final]
    given_up,  \* history: jobs a client cancelled or deleted
    removed,   \* history: the names a client had files deleted under
    misfiled,  \* history: jobs whose record kept a path that was given up, as its
               \* write failed
    scenario,  \* the bounds of this behaviour
    left       \* what is left of them

mediaVars == <<row, attempt, active, engine, journal, fin, todo, client, given_up, removed, misfiled, scenario, left>>
vars == <<fileVars, mediaVars>>

Untracked == -1
Phase == {"none", "prepared", "in_progress", "validated", "db_committed",
          "cleanup_pending", "complete", "failed"}
Idle == [at |-> "idle", d |-> <<>>, live |-> TRUE, path |-> NoPath, final |-> NoPath, copy |-> Nothing]
NoRecord == [phase |-> "none", path |-> NoPath]
Recovering == [Idle EXCEPT !.at = "recover", !.live = FALSE]
NoClient == [at |-> "none", job |-> CHOOSE j \in Job : TRUE, final |-> NoPath]

\* Where the monitor or the recovery is.
Moving == {"resolve", "save", "begin", "move", "copied", "unlink", "validated", "subtitles",
           "commit", "not_committed", "mark_failed", "fail"}
Cleaning == {"committed", "forget", "pending", "clean", "complete"}
Working == Moving \cup Cleaning \cup {"recommit"}
Label == Working \cup {"idle", "down", "recover", "sweep"}

MediaTypeOK ==
    /\ FilesTypeOK
    /\ row \in [Job -> [status : {"downloading", "completed", "failed", "cancelled", "deleted"},
                        final : Path \cup {NoPath}]]
    /\ attempt \in [Job -> 1 .. MaxAttempts]
    /\ active \in [Job -> Path \cup {NoPath, Untracked}]
    /\ engine \in [Job -> {"running", "completed", "failed", "cancelled", "unknown"}]
    /\ journal \in [Delivery -> [phase : Phase, path : Path \cup {NoPath}]]
    /\ fin \in [at : Label, d : Delivery \cup {<<>>}, live : BOOLEAN, path : Path \cup {NoPath},
                final : Path \cup {NoPath}, copy : Delivery \cup {Nothing}]
    /\ fin.at \in Working => fin.d \in Delivery
    /\ todo \subseteq Delivery
    /\ client.at \in {"none", "cancel", "clean", "delete"} /\ client.final \in Path \cup {NoPath}
    /\ client.at # "none" => client.job \in Job
    /\ given_up \subseteq Job /\ removed \subseteq Path /\ misfiled \subseteq Job
    /\ scenario \in Scenarios /\ left \in Bounds

MediaInit ==
    /\ dest = [p \in Path |-> Nothing]
    /\ staging = [j \in Job |-> Nothing]
    /\ sidecar = [j \in Job |-> "none"]
    /\ policy \in [Job -> Policies]
    /\ device \in Devices
    /\ scenario \in Scenarios /\ left = scenario
    /\ \A j \in Job \ scenario.jobs : policy[j] = "fail"
    /\ row = [j \in Job |-> [status |-> IF j \in scenario.jobs THEN "downloading" ELSE "deleted",
                             final |-> NoPath]]
    /\ attempt = [j \in Job |-> 1]
    /\ active = [j \in Job |-> IF j \in scenario.jobs THEN NoPath ELSE Untracked]
    /\ engine = [j \in Job |-> IF j \in scenario.jobs THEN "running" ELSE "unknown"]
    /\ journal = [d \in Delivery |-> NoRecord]
    /\ fin = Idle /\ todo = {} /\ client = NoClient
    /\ given_up = {} /\ removed = {} /\ misfiled = {}

FilesStay == UNCHANGED fileVars
Spend(what) == left[what] > 0 /\ left' = [left EXCEPT ![what] = @ - 1]
Exists(j) == row[j].status # "deleted"
Current(j) == <<j, attempt[j]>>
FinJob == fin.d[1]
Serving == fin.live /\ fin.at # "down"
Goto(label) == fin' = [fin EXCEPT !.at = label]
Done == IF fin.live THEN Idle ELSE Recovering

\* A write of the journal: it changes no row of a deleted job, may fail, and
\* nobody looks whether it did.
Journal(d, p, path) ==
    \/ /\ journal' = IF Exists(d[1]) THEN [journal EXCEPT ![d] = [phase |-> p, path |-> path]]
                     ELSE journal
       /\ UNCHANGED left
    \/ Spend("db") /\ UNCHANGED journal

WriteRow(j, status, final) ==
    row' = [row EXCEPT ![j] = IF Exists(j) THEN [status |-> status, final |-> final] ELSE @]

RemoveActive(j) == active' = [active EXCEPT ![j] = Untracked]
------------------------------------------------------------------------------
\* yt-dlp, the user's own files, and the process as a whole.

EngineEnds(j) ==
    /\ engine[j] = "running" /\ fin.at # "down"
    /\ \/ /\ engine' = [engine EXCEPT ![j] = "completed"]
          /\ staging' = [staging EXCEPT ![j] = Current(j)]
          /\ \E s \in {"none", "staged"} : sidecar' = [sidecar EXCEPT ![j] = s]
       \/ engine' = [engine EXCEPT ![j] = "failed"] /\ UNCHANGED <<staging, sidecar>>
    /\ UNCHANGED <<dest, policy, device, row, attempt, active, journal, fin, todo, given_up, removed, misfiled, scenario, client, left>>

ForeignFile(p) ==
    /\ dest[p] = Nothing /\ Spend("foreign")
    /\ dest' = [dest EXCEPT ![p] = Foreign]
    /\ UNCHANGED <<staging, sidecar, policy, device, row, attempt, active, engine, journal, fin,
                   todo, given_up, removed, misfiled, scenario, client>>

Crash ==
    /\ fin.at # "down" /\ Spend("crash")
    /\ fin' = [Idle EXCEPT !.at = "down"]
    /\ active' = [j \in Job |-> Untracked]
    /\ engine' = [j \in Job |-> "unknown"]
    /\ client' = NoClient /\ todo' = {}
    /\ FilesStay /\ UNCHANGED <<row, attempt, journal, given_up, removed, misfiled, scenario>>

GetPendingFinalizations ==
    {d \in Delivery : journal[d].phase \notin {"none", "complete", "failed"} /\ Exists(d[1])}

Restart ==
    /\ fin.at = "down"
    /\ fin' = Recovering
    /\ todo' = GetPendingFinalizations
    /\ FilesStay /\ UNCHANGED <<row, attempt, active, engine, journal, client, given_up, removed, misfiled, scenario, left>>
------------------------------------------------------------------------------
\* The monitor polls a job: it works on its own copy, whose FinalPath it takes
\* from activeJobs.

\* Every move has a record of its own; the failed one of an earlier move of the
\* same file is never looked at again, and is forgotten.
StartFinalizing(j) ==
    /\ fin' = [Idle EXCEPT !.at = "resolve", !.d = Current(j)]
    /\ journal' = [journal EXCEPT ![Current(j)] = NoRecord]

\* Bound: the earlier record is not pending.  It is when neither its failure nor
\* its job's could be written.
CanRecord(j) == journal[Current(j)].phase \in {"none", "failed"}

EndJob(j, status, final, clean) ==
    \/ /\ WriteRow(j, status, final) /\ RemoveActive(j)
       /\ engine' = [engine EXCEPT ![j] = "unknown"]
       /\ IF clean THEN CleanupWorkDir(j) ELSE FilesStay
       /\ UNCHANGED left
    \/ Spend("db") /\ FilesStay /\ UNCHANGED <<row, active, engine>>

UpdateJobFromEngine(j) ==
    /\ fin.at = "idle" /\ active[j] # Untracked
    /\ \/ /\ engine[j] = "completed" /\ active[j] = NoPath
          /\ \/ staging[j] # Nothing /\ CanRecord(j) /\ StartFinalizing(j) /\ FilesStay
                /\ UNCHANGED <<row, active, engine, left>>
             \/ staging[j] = Nothing /\ EndJob(j, "failed", NoPath, FALSE)
                /\ UNCHANGED <<fin, journal>>
       \/ /\ engine[j] = "completed" /\ active[j] # NoPath
          /\ EndJob(j, "completed", active[j], TRUE)
          /\ UNCHANGED <<fin, journal>>
       \/ /\ engine[j] \in {"failed", "cancelled"}
          /\ EndJob(j, engine[j], active[j], TRUE)
          /\ UNCHANGED <<fin, journal>>
    /\ UNCHANGED <<attempt, todo, given_up, removed, misfiled, scenario, client>>
------------------------------------------------------------------------------
\* Moving the file: finalizeMediaArtifact when live, reconcileFinalizationRecord
\* and resumeFinalizationFromSource during recovery.

FinStep(from) ==
    /\ fin.at = from
    /\ UNCHANGED <<attempt, todo, given_up, removed, misfiled, scenario, client, engine>>

\* The conflict is found before the live run has a record.
Resolve ==
    /\ FinStep("resolve") /\ CanName(FinJob)
    /\ LET p == ResolveFinalPath(FinJob) IN
       fin' = IF p # NoPath THEN [fin EXCEPT !.at = "save", !.path = p]
              ELSE [fin EXCEPT !.at = IF fin.live THEN "fail" ELSE "mark_failed"]
    /\ FilesStay /\ UNCHANGED <<row, active, journal, left>>

\* A recovery saves the record only when the path is another one.
Save ==
    /\ fin.at = "save" /\ Goto("begin")
    /\ IF fin.live THEN Journal(fin.d, "prepared", fin.path)
       ELSE IF fin.path # journal[fin.d].path THEN Journal(fin.d, journal[fin.d].phase, fin.path)
       ELSE UNCHANGED <<journal, left>>
    /\ misfiled' = IF journal[fin.d].phase # "none" /\ journal'[fin.d].path # fin.path
                   THEN misfiled \cup {FinJob} ELSE misfiled
    /\ FilesStay /\ UNCHANGED <<row, attempt, active, engine, todo, given_up, removed, scenario, client>>

\* UpdateFinalizationPhase finds no row when the record was not saved.
UpdateFinalizationPhase(p) ==
    IF journal[fin.d].phase = "none" THEN UNCHANGED <<journal, left>>
    ELSE Journal(fin.d, p, journal[fin.d].path)

UpdatePhase(from, p, to) ==
    /\ FinStep(from) /\ Goto(to)
    /\ UpdateFinalizationPhase(p)
    /\ FilesStay /\ UNCHANGED <<row, active>>

Begin == UpdatePhase("begin", "in_progress", "move")

\* FinalizeFileToPath up to the copy.
Move ==
    /\ FinStep("move")
    /\ IF CannotMove(FinJob, fin.path) THEN Goto("mark_failed") /\ FilesStay
       ELSE IF CanRename(fin.path) THEN Rename(FinJob, fin.path) /\ Goto("validated")
       ELSE fin' = [fin EXCEPT !.at = "copied", !.copy = staging[FinJob]] /\ FilesStay
    /\ UNCHANGED <<row, active, journal, left>>

\* Mutant: the clean-up after a failing copy takes the source.
CopyFailsForGood ==
    /\ FinStep("copied") /\ Spend("io") /\ Goto("mark_failed")
    /\ RemoveSource(FinJob) /\ UNCHANGED <<row, active, journal>>

\* The disk is full, or the copy's renaming fails and is rolled back.
CopyFails ==
    /\ FinStep("copied") /\ Spend("io") /\ Goto("mark_failed")
    /\ FilesStay /\ UNCHANGED <<row, active, journal>>

ReplaceTarget ==
    /\ FinStep("copied")
    /\ IF CopyConflicts(FinJob, fin.path) THEN Goto("mark_failed") /\ FilesStay
       ELSE Replace(fin.copy, fin.path) /\ Goto("unlink")
    /\ UNCHANGED <<row, active, journal, left>>

Unlink ==
    /\ FinStep("unlink") /\ Goto("validated")
    /\ RemoveSource(FinJob)
    /\ UNCHANGED <<row, active, journal, left>>

\* Mutant: the record says more than has happened.
ValidatedTooMuch == UpdatePhase("validated", "db_committed", "subtitles")

\* The moved file has the size it should have, unless a client has deleted a job
\* that names this path too.
Validated ==
    \/ Valid(fin.path, fin.d) /\ UpdatePhase("validated", "validated", "subtitles")
    \/ /\ FinStep("validated") /\ ~Valid(fin.path, fin.d) /\ Goto("mark_failed")
       /\ FilesStay /\ UNCHANGED <<row, active, journal, left>>

KnowPath(next) == fin' = [fin EXCEPT !.at = next, !.final = fin.path]

\* The path is known to the active copy from here on.  A subtitle file that
\* cannot be moved fails the job when live; recovery goes on without it.
Subtitles ==
    /\ FinStep("subtitles")
    /\ active' = [active EXCEPT ![FinJob] = IF @ = Untracked THEN @ ELSE fin.path]
    /\ \/ /\ sidecar' = [sidecar EXCEPT ![FinJob] = IF @ = "staged" THEN "delivered" ELSE @]
          /\ KnowPath("commit") /\ UNCHANGED left
       \/ /\ sidecar[FinJob] = "staged" /\ UNCHANGED sidecar
          /\ Spend("io")
          /\ KnowPath(IF fin.live THEN "mark_failed" ELSE "commit")
    /\ UNCHANGED <<dest, staging, policy, device, row, journal>>

\* Mutant: the job gets the path of the record, which may not have been saved.
CommitRecordedPath ==
    /\ FinStep("commit")
    /\ \/ WriteRow(FinJob, "completed", journal[fin.d].path) /\ Goto("committed") /\ UNCHANGED left
       \/ Spend("db") /\ Goto("not_committed") /\ UNCHANGED row
    /\ FilesStay /\ UNCHANGED <<active, journal>>

Commit ==
    /\ FinStep("commit")
    /\ \/ WriteRow(FinJob, "completed", fin.path) /\ Goto("committed") /\ UNCHANGED left
       \/ Spend("db") /\ Goto("not_committed") /\ UNCHANGED row
    /\ FilesStay /\ UNCHANGED <<active, journal>>

NotCommitted ==
    /\ fin.at = "not_committed"
    /\ UpdateFinalizationPhase("failed")
    /\ fin' = Done
    /\ FilesStay /\ UNCHANGED <<row, attempt, active, engine, todo, given_up, removed, misfiled, scenario, client>>

Committed == UpdatePhase("committed", "db_committed", "forget")

\* removeActive, the event, cleanupTerminalEngineState.
Forget ==
    /\ fin.at = "forget" /\ Goto("pending")
    /\ RemoveActive(FinJob)
    /\ engine' = [engine EXCEPT ![FinJob] = "unknown"]
    /\ FilesStay /\ UNCHANGED <<row, attempt, journal, todo, given_up, removed, misfiled, scenario, client, left>>

Pending == UpdatePhase("pending", "cleanup_pending", "clean")

Clean ==
    /\ FinStep("clean") /\ Goto("complete")
    /\ CleanupWorkDir(FinJob)
    /\ UNCHANGED <<row, active, journal, left>>

Complete ==
    /\ fin.at = "complete" /\ fin' = Done
    /\ UpdateFinalizationPhase("complete")
    /\ FilesStay /\ UNCHANGED <<row, attempt, active, engine, todo, given_up, removed, misfiled, scenario, client>>

MarkFailed == UpdatePhase("mark_failed", "failed", "fail")

\* failJobWithReason: when the write fails the job stays where it was.
FailJob ==
    /\ fin.at = "fail" /\ fin' = Done
    /\ EndJob(FinJob, "failed", fin.final, FALSE)
    /\ UNCHANGED <<attempt, journal, todo, given_up, removed, misfiled, scenario, client>>
------------------------------------------------------------------------------
\* Recovery: the pending records one after the other, then the other jobs.

\* Mutant: a file found at its destination is not taken for moved.
ReconcileFromSourceOnly(d) ==
    LET src == staging[d[1]] # Nothing
        ph  == journal[d].phase IN
    CASE ph \in {"prepared", "in_progress", "validated"} /\ src -> "resolve"
      [] ph = "db_committed"                                    -> "recommit"
      [] ph = "cleanup_pending"                                 -> "pending"
      [] OTHER                                                  -> "mark_failed"

\* What reconcileFinalizationRecord does next with a record.
ReconcileRecord(d) ==
    LET src == staging[d[1]] # Nothing
        dst == Valid(journal[d].path, d)
        ph  == journal[d].phase IN
    CASE ph \in {"prepared", "in_progress"} /\ src -> "resolve"
      [] ph = "in_progress" /\ ~src /\ dst         -> "validated"
      [] ph = "validated" /\ dst                   -> "subtitles"
      [] ph = "validated" /\ ~dst /\ src           -> "resolve"
      [] ph = "db_committed"                       -> "recommit"
      [] ph = "cleanup_pending"                    -> "pending"
      [] OTHER                                     -> "mark_failed"

Reconcile(d) ==
    /\ fin.at = "recover" /\ d \in todo
    /\ todo' = todo \ {d}
    /\ fin' = [at |-> ReconcileRecord(d), d |-> d, live |-> FALSE, path |-> journal[d].path,
                final |-> row[d[1]].final, copy |-> Nothing]
    /\ FilesStay
    /\ UNCHANGED <<row, attempt, active, engine, journal, client, given_up, removed, misfiled, scenario, left>>

\* A row that is not COMPLETED is set so again; an error is not looked at.
Recommit ==
    /\ FinStep("recommit") /\ Goto("pending")
    /\ \/ /\ \/ row[FinJob].status = "completed" /\ UNCHANGED row
             \/ row[FinJob].status # "completed" /\ WriteRow(FinJob, "completed", fin.path)
          /\ UNCHANGED left
       \/ row[FinJob].status # "completed" /\ Spend("db") /\ UNCHANGED row
    /\ FilesStay /\ UNCHANGED <<active, journal>>

\* Mutant: media jobs wait for their process, which the restart has ended.
FailNothing ==
    /\ fin.at = "recover" /\ todo = {} /\ Goto("sweep")
    /\ FilesStay
    /\ UNCHANGED <<row, attempt, active, engine, journal, todo, client, given_up, removed, misfiled, scenario, left>>

\* ListRecoverable and recoverJob: media jobs do not survive a restart.
FailInterrupted ==
    /\ fin.at = "recover" /\ todo = {} /\ Goto("sweep")
    /\ \E failing \in SUBSET {j \in Job : row[j].status = "downloading"} :
          /\ row' = [j \in Job |-> IF row[j].status = "downloading" /\ j \notin failing
                                   THEN [row[j] EXCEPT !.status = "failed"] ELSE row[j]]
          /\ Cardinality(failing) <= left.db
          /\ left' = [left EXCEPT !.db = @ - Cardinality(failing)]
    /\ FilesStay /\ UNCHANGED <<attempt, active, engine, journal, todo, given_up, removed, misfiled, scenario, client>>

Sweep ==
    /\ fin.at = "sweep" /\ fin' = Idle
    /\ CleanupStaleWorkDirs({j \in Job : row[j].status = "downloading"})
    /\ UNCHANGED <<row, attempt, active, engine, journal, todo, given_up, removed, misfiled, scenario, client, left>>
------------------------------------------------------------------------------
\* One client, once the application serves.

\* Cancel reads the row and stops the process; it writes what it read.
CancelBegins(j) ==
    /\ Serving /\ client = NoClient /\ Spend("cmd")
    /\ row[j].status = "downloading"
    /\ client' = [at |-> "cancel", job |-> j, final |-> row[j].final]
    /\ engine' = [engine EXCEPT ![j] = IF @ = "running" THEN "cancelled" ELSE @]
    /\ given_up' = given_up \cup {j} /\ UNCHANGED <<removed, misfiled, scenario>>
    /\ FilesStay /\ UNCHANGED <<row, attempt, active, journal, fin, todo>>

CancelWrites ==
    /\ Serving /\ client.at = "cancel"
    /\ \/ /\ WriteRow(client.job, "cancelled", client.final)
          /\ RemoveActive(client.job)
          /\ engine' = [engine EXCEPT ![client.job] = "unknown"]
          /\ client' = [client EXCEPT !.at = "clean"] /\ UNCHANGED left
       \/ Spend("db") /\ client' = NoClient /\ UNCHANGED <<row, active, engine>>
    /\ FilesStay /\ UNCHANGED <<attempt, journal, fin, todo, given_up, removed, misfiled, scenario>>

CancelCleans ==
    /\ Serving /\ client.at = "clean" /\ client' = NoClient
    /\ CleanupWorkDir(client.job)
    /\ UNCHANGED <<row, attempt, active, engine, journal, fin, todo, given_up, removed, misfiled, scenario, left>>

Retry(j) ==
    /\ Serving /\ client = NoClient /\ Spend("cmd")
    /\ row[j].status = "failed" /\ attempt[j] < MaxAttempts
    /\ CleanupWorkDir(j)
    /\ attempt' = [attempt EXCEPT ![j] = @ + 1]
    /\ row' = [row EXCEPT ![j].status = "downloading"]
    /\ active' = [active EXCEPT ![j] = row[j].final]
    /\ engine' = [engine EXCEPT ![j] = "running"]
    /\ UNCHANGED <<journal, fin, todo, given_up, removed, misfiled, scenario, client>>

\* Delete, with the files or without: what is on disk first, then the rows in one
\* transaction.
DeleteFiles(j) ==
    /\ Serving /\ client = NoClient /\ Spend("cmd")
    /\ row[j].status \in {"completed", "failed", "cancelled"}
    /\ client' = [at |-> "delete", job |-> j, final |-> row[j].final]
    /\ \E names \in {{}, {row[j].final} \cap Path} :
          /\ dest' = [p \in Path |-> IF p \in names THEN Nothing ELSE dest[p]]
          /\ removed' = removed \cup names
    /\ engine' = [engine EXCEPT ![j] = "unknown"]
    /\ staging' = [staging EXCEPT ![j] = Nothing]
    /\ sidecar' = [sidecar EXCEPT ![j] = IF @ = "staged" THEN "none" ELSE @]
    /\ given_up' = given_up \cup {j} /\ UNCHANGED <<misfiled, scenario>>
    /\ UNCHANGED <<policy, device, row, attempt, active, journal, fin, todo>>

DeleteRows ==
    /\ Serving /\ client.at = "delete" /\ client' = NoClient
    /\ \/ /\ row' = [row EXCEPT ![client.job].status = "deleted"]
          /\ journal' = [d \in Delivery |-> IF d[1] = client.job
                                            THEN NoRecord ELSE journal[d]]
          /\ RemoveActive(client.job) /\ UNCHANGED left
       \/ Spend("db") /\ UNCHANGED <<row, journal, active>>
    /\ FilesStay /\ UNCHANGED <<attempt, engine, fin, todo, given_up, removed, misfiled, scenario>>
------------------------------------------------------------------------------
FinalizationSteps ==
    \/ Resolve \/ Save \/ Begin \/ Move \/ CopyFails \/ ReplaceTarget \/ Unlink \/ Validated
    \/ Subtitles \/ Commit \/ NotCommitted \/ Committed \/ Forget \/ Pending \/ Clean
    \/ Complete \/ MarkFailed \/ FailJob

RecoverySteps == (\E d \in Delivery : Reconcile(d)) \/ Recommit \/ FailInterrupted \/ Sweep

ClientSteps ==
    \/ \E j \in Job : CancelBegins(j) \/ Retry(j) \/ DeleteFiles(j)
    \/ CancelWrites \/ CancelCleans \/ DeleteRows

MediaNext ==
    \/ \E j \in Job : EngineEnds(j) \/ UpdateJobFromEngine(j)
    \/ \E p \in Path : ForeignFile(p)
    \/ Crash \/ Restart \/ FinalizationSteps \/ RecoverySteps \/ ClientSteps

\* The monitor and the recovery never stop by themselves, the application is
\* started again.
MediaSpec ==
    /\ MediaInit /\ [][MediaNext]_vars
    /\ WF_vars(Restart) /\ WF_vars(FinalizationSteps) /\ WF_vars(RecoverySteps)
    /\ \A j \in Job : WF_vars(UpdateJobFromEngine(j))
------------------------------------------------------------------------------
\* Properties.

NoDatabaseError == left.db = scenario.db
CopiesOf(d) == {p \in Path : dest[p] = d}

\* Nothing takes a file of the user's but a job told to overwrite, or the
\* deletion of a job that once saved under that name: not a move whose
\* destination was chosen before the file came, not a recovery.
ForeignFilesStay ==
    [][\A p \in Path : dest[p] = Foreign /\ dest'[p] # Foreign
                       => \/ fin.at = "copied" /\ policy[fin.d[1]] = "overwrite"
                          \/ client'.at = "delete" /\ client'.final = p]_vars

\* Until its job has ended a finished file is staged or at a destination,
\* whatever step a failing call comes at: unless a client cancels the job or has
\* files deleted, or another job is told to overwrite.
ArtifactSurvives ==
    \A j \in Job : row[j].status = "downloading" /\ engine[j] = "completed" =>
        \/ staging[j] = Current(j) \/ CopiesOf(Current(j)) # {}
        \/ j \in given_up \/ removed # {}
        \/ \E k \in Job \ {j} : policy[k] = "overwrite"

\* A COMPLETED job names a path that holds a file of its, whatever calls failed and
\* although it may have been cancelled meanwhile: unless a client had the file of
\* that name deleted, or a job was told to overwrite, or a recovery found the
\* path of the record taken and could not write the new one.
CompletedIsDelivered ==
    \A j \in Job : row[j].status = "completed" =>
        /\ row[j].final # NoPath
        /\ \/ dest[row[j].final] \in {j} \X (1 .. attempt[j])
           \/ row[j].final \in removed \/ j \in misfiled
           \/ \E k \in Job : policy[k] = "overwrite"

\* A record that says the commit is done belongs to a job that is committed,
\* at the record's path; only a Cancel that read the job before may overtake it.
CommittedRecordHasCommittedJob ==
    NoDatabaseError =>
    \A d \in Delivery : journal[d].phase \in {"db_committed", "cleanup_pending", "complete"} =>
        \/ row[d[1]].status = "completed" /\ row[d[1]].final = journal[d].path
        \/ row[d[1]].status = "cancelled"

\* As long as no call failed, a job whose file is in place is not FAILED once the
\* application runs, whatever step the crash came at: where a move is a rename.
\* (A crash in the middle of a copy leaves a finished file whose job is FAILED.)
NeverFalselyFailed ==
    device = "same" /\ NoDatabaseError /\ left.io = scenario.io =>
        \A j \in Job : row[j].status = "failed" /\ fin.at = "idle" => CopiesOf(Current(j)) = {}

\* Recovering never makes a second copy of a file that can be renamed.
RenamedOnce == device = "same" => \A d \in Delivery : Cardinality(CopiesOf(d)) <= 1

\* The journal tells the truth of jobs and files.
JournalIsTrue == MediaTypeOK /\ CommittedRecordHasCommittedJob /\ RenamedOnce

\* A job whose process has ended, by itself or with the application, ends.
FinishedJobsEnd ==
    \A j \in Job : (row[j].status = "downloading" /\ engine[j] # "running")
                   ~> (row[j].status # "downloading" \/ ~NoDatabaseError)
===============================================================================
