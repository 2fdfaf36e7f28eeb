---------------------------- MODULE MediaProcesses ----------------------------
(***************************************************************************)
(* Media jobs and the child processes they run: the analysis goroutine      *)
(* (Manager.analyzeMedia), the yt-dlp engine with one goroutine for each     *)
(* download, the process supervisor that starts, registers, terminates and   *)
(* reaps their processes, a client's commands, and the shutdown of the       *)
(* application.                                                             *)
(*                                                                         *)
(* A goroutine stops with the application, an operating system process does  *)
(* not.  What the scheduler does between a queue entry and Engine.Start is   *)
(* in SchedulerLoop, what follows the end of a download in Finalization:     *)
(* here each is one step.                                                   *)
(***************************************************************************)
EXTENDS Integers, FiniteSets

CONSTANTS
    MediaJob,  \* jobs; the id of a job is also the id of its process
    MaxTries   \* bound: analyses, and so downloads, of one job

ASSUME MediaAssumptions == MaxTries \in Nat \ {0} /\ MediaJob # {}

VARIABLES
    media,      \* job -> [status, info] of its row; info: MediaInfo is there
    tries,      \* job -> analyses begun
    analysis,   \* <<job, n>> -> [at, ctx, copy]: the n-th analysis goroutine
    cancelOf,   \* job -> the analysis whose cancel function activeCancels holds
    downloads,  \* job -> its entry in Engine.downloads
    dl,         \* <<job, n>> -> the n-th download: goroutine, state and process
    procs,      \* job -> the download whose process the supervisor has registered
    closed,     \* the supervisor is closed
    app,        \* where the shutdown is
    canceller   \* a client's Cancel: [at, job]

procVars == <<media, tries, analysis, cancelOf, downloads, dl, procs, closed, app, canceller>>

Try == MediaJob \X (1 .. MaxTries)
None == 0
Ref == None .. MaxTries
NoDownload == [at |-> "none", ctx |-> "live", os |-> "none", known |-> FALSE,
               terminated |-> FALSE, reaped |-> FALSE, post |-> FALSE, result |-> "none"]
NoAnalysis == [at |-> "none", ctx |-> "live", copy |-> "analyzing"]
NoCancel == [at |-> "none", job |-> CHOOSE j \in MediaJob : TRUE]
Active == {"downloading", "processing"}
\* ValidateTransition(status, CANCELLED) holds.
Cancellable == Active \cup {"analyzing", "queued"}

\* The fields have their types, and Wait returns for a dead process only.
ProcTypeOK ==
    /\ media \in [MediaJob -> [status : Cancellable \cup {"completed", "failed", "cancelled"},
                               info : BOOLEAN]]
    /\ tries \in [MediaJob -> 1 .. MaxTries]
    /\ analysis \in [Try -> [at : {"none", "new", "running", "verify", "commit", "leaving", "gone"},
                             ctx : {"live", "cancelled"}, copy : {"analyzing", "cancelled"}]]
    /\ cancelOf \in [MediaJob -> Ref] /\ downloads \in [MediaJob -> Ref] /\ procs \in [MediaJob -> Ref]
    /\ dl \in [Try -> [at : {"none", "entry", "spawn", "attach", "confirm", "register", "record",
                             "run", "reap", "ended"},
                       ctx : {"live", "cancelled"},
                       os : {"none", "alive", "dying", "clean", "error", "killed"},
                       known : BOOLEAN, terminated : BOOLEAN, reaped : BOOLEAN, post : BOOLEAN,
                       result : {"none", "completed", "failed", "cancelled"}]]
    /\ closed \in BOOLEAN
    /\ app \in {"up", "engines", "supervisor", "waiting", "stopped", "timed_out"}
    /\ canceller \in [at : {"none", "waiting", "trigger", "write"}, job : MediaJob]
    /\ \A p \in Try : dl[p].reaped => dl[p].os \in {"clean", "error", "killed"}

ProcInit ==
    /\ media = [j \in MediaJob |-> [status |-> "analyzing", info |-> FALSE]]
    /\ tries = [j \in MediaJob |-> 1]
    /\ analysis = [t \in Try |-> IF t[2] = 1 THEN [NoAnalysis EXCEPT !.at = "new"] ELSE NoAnalysis]
    /\ cancelOf = [j \in MediaJob |-> None] /\ downloads = [j \in MediaJob |-> None]
    /\ dl = [p \in Try |-> NoDownload]
    /\ procs = [j \in MediaJob |-> None]
    /\ closed = FALSE /\ app = "up" /\ canceller = NoCancel

Running == app \notin {"stopped", "timed_out"}
SetStatus(j, s) == media' = [media EXCEPT ![j].status = s]
Terminated(d) == [d EXCEPT !.terminated = TRUE, !.os = IF @ = "alive" THEN "dying" ELSE @]
Alive(p) == dl[p].os \in {"alive", "dying"}
------------------------------------------------------------------------------
\* Analysis.

analysisUnchanged == UNCHANGED <<tries, downloads, dl, procs, closed, app, canceller>>

Register(a) ==
    /\ Running /\ analysis[a].at = "new"
    /\ cancelOf' = [cancelOf EXCEPT ![a[1]] = a[2]]
    /\ analysis' = [analysis EXCEPT ![a].at = "running",
                        ![a].copy = IF media[a[1]].status = "cancelled" THEN "cancelled" ELSE "analyzing"]
    /\ UNCHANGED media /\ analysisUnchanged

\* The child process ends, or is killed with its context; a failure is written
\* over whatever the row holds.
Analyzed(a) ==
    /\ Running /\ analysis[a].at = "running"
    /\ \/ /\ analysis[a].ctx = "cancelled"
          /\ analysis' = [analysis EXCEPT ![a].at = "leaving"]
          /\ UNCHANGED media
       \/ /\ analysis[a].ctx = "live"
          /\ analysis' = [analysis EXCEPT ![a].at = "leaving"]
          /\ SetStatus(a[1], "failed")
       \/ /\ analysis[a].ctx = "live"
          /\ analysis' = [analysis EXCEPT ![a].at = "verify"]
          /\ UNCHANGED media
    /\ UNCHANGED cancelOf /\ analysisUnchanged

Verify(a) ==
    /\ Running /\ analysis[a].at = "verify"
    /\ analysis' = [analysis EXCEPT ![a].at =
                        IF analysis[a].ctx = "cancelled" \/ media[a[1]].status = "cancelled"
                        THEN "leaving" ELSE "commit"]
    /\ UNCHANGED <<media, cancelOf>> /\ analysisUnchanged

\* The write is made with the goroutine's context: cancelled, it fails and
\* nobody hears of it.
Commit(a) ==
    /\ Running /\ analysis[a].at = "commit"
    /\ media' = IF analysis[a].ctx = "cancelled" THEN media
                ELSE [media EXCEPT ![a[1]] = [status |-> analysis[a].copy, info |-> TRUE]]
    /\ analysis' = [analysis EXCEPT ![a].at = "leaving"]
    /\ UNCHANGED cancelOf /\ analysisUnchanged

\* unregisterCancel takes away the entry of the job, whoever made it.
Leave(a) ==
    /\ Running /\ analysis[a].at = "leaving"
    /\ cancelOf' = [cancelOf EXCEPT ![a[1]] = None]
    /\ analysis' = [analysis EXCEPT ![a].at = "gone"]
    /\ UNCHANGED media /\ analysisUnchanged
------------------------------------------------------------------------------
\* One download: Engine.Start, runDownload and Supervisor.StartOwned.

dlUnchanged == UNCHANGED <<media, tries, analysis, cancelOf, downloads, closed, app, canceller>>
Step(p, label) == dl' = [dl EXCEPT ![p].at = label]
Fails(p) == dl' = [dl EXCEPT ![p].at = "ended", ![p].result = "failed"]

\* The scheduler dispatches: nothing else is done for the job meanwhile.
Dispatch(j) ==
    /\ app = "up" /\ media[j].status = "queued" /\ ~(canceller.at # "none" /\ canceller.job = j)
    /\ downloads' = [downloads EXCEPT ![j] = tries[j]]
    /\ dl' = [dl EXCEPT ![<<j, tries[j]>>].at = "entry"]
    /\ SetStatus(j, "downloading")
    /\ UNCHANGED <<tries, analysis, cancelOf, procs, closed, app, canceller>>

MayStart(p) == dl[p].ctx = "live" /\ ~closed /\ procs[p[1]] = None

Enter(p) ==
    /\ Running /\ dl[p].at = "entry"
    /\ IF MayStart(p) THEN Step(p, "spawn") ELSE Fails(p)
    /\ UNCHANGED procs /\ dlUnchanged

Spawn(p) ==
    /\ Running /\ dl[p].at = "spawn"
    /\ dl' = [dl EXCEPT ![p].at = "attach", ![p].os = "alive"] \/ Fails(p)
    /\ UNCHANGED procs /\ dlUnchanged

\* A process that cannot be attached is killed and waited for on the spot.
Attach(p) ==
    /\ Running /\ dl[p].at = "attach"
    /\ \/ dl[p].ctx = "live" /\ Step(p, "confirm")
       \/ dl' = [dl EXCEPT ![p].at = "ended", ![p].os = "killed", ![p].reaped = TRUE,
                           ![p].result = "failed"]
    /\ UNCHANGED procs /\ dlUnchanged

Confirm(p) ==
    /\ Running /\ dl[p].at = "confirm"
    /\ dl' = [dl EXCEPT ![p] = IF dl[p].ctx = "live" THEN [@ EXCEPT !.at = "register"]
                               ELSE [Terminated(@) EXCEPT !.at = "reap"]]
    /\ UNCHANGED procs /\ dlUnchanged

RegisterProcess(p) ==
    /\ Running /\ dl[p].at = "register"
    /\ IF closed
       THEN /\ dl' = [dl EXCEPT ![p] = [Terminated(@) EXCEPT !.at = "reap"]]
            /\ UNCHANGED procs
       ELSE /\ procs' = [procs EXCEPT ![p[1]] = p[2]]
            /\ Step(p, "record")
    /\ dlUnchanged

RecordProcess(p) ==
    /\ Running /\ dl[p].at = "record"
    /\ dl' = [dl EXCEPT ![p].at = "run", ![p].known = TRUE]
    /\ UNCHANGED procs /\ dlUnchanged

\* Bug: StartOwned leaves no watcher behind.
WatchNothing(p) == FALSE /\ p \in Try /\ UNCHANGED procVars

\* The goroutine StartOwned leaves behind.
Watch(p) ==
    /\ Running /\ dl[p].at \in {"record", "run"} /\ ~dl[p].reaped
    /\ dl[p].ctx = "cancelled" /\ ~dl[p].terminated
    /\ dl' = [dl EXCEPT ![p] = Terminated(@)]
    /\ UNCHANGED procs /\ dlUnchanged

\* A line of output says that ffmpeg is at work.
PostProcess(p) ==
    /\ Running /\ dl[p].at = "run" /\ dl[p].os = "alive" /\ ~dl[p].post
    /\ dl' = [dl EXCEPT ![p].post = TRUE]
    /\ UNCHANGED procs /\ dlUnchanged

\* ManagedProcess.Wait, by whoever comes first: the goroutine once the output
\* has ended, StartOwned itself, or Engine.Cancel.
Reap(p) ==
    /\ Running /\ dl[p].os \in {"clean", "error", "killed"} /\ ~dl[p].reaped
    /\ \/ dl[p].at \in {"run", "reap"}
       \/ canceller.at = "waiting" /\ p = <<canceller.job, downloads[canceller.job]>>
    /\ dl' = [dl EXCEPT ![p].reaped = TRUE]
    /\ procs' = [procs EXCEPT ![p[1]] = None]
    /\ dlUnchanged

\* Bug: The result is there as soon as the output ends, before Wait.
FinishBeforeReap(p) ==
    /\ Running /\ dl[p].at = "run" /\ dl[p].os \in {"clean", "error", "killed"}
    /\ dl' = [dl EXCEPT ![p].at = "ended", ![p].result = IF dl[p].os = "clean" THEN "completed" ELSE "failed"]
    /\ UNCHANGED procs /\ dlUnchanged

\* An exit code of zero without an output file is a failure too.
Finish(p) ==
    /\ Running /\ dl[p].at \in {"run", "reap"} /\ dl[p].reaped
    /\ \/ dl[p].at = "reap" /\ Fails(p)
       \/ /\ dl[p].at = "run"
          /\ \E r \in CASE dl[p].os = "clean" -> {"completed", "failed"}
                        [] dl[p].ctx = "cancelled" \/ dl[p].terminated -> {"cancelled"}
                        [] OTHER -> {"failed"} :
                dl' = [dl EXCEPT ![p].at = "ended", ![p].result = r]
    /\ UNCHANGED procs /\ dlUnchanged

\* The operating system, application or no application.
ProcessDies(p) ==
    /\ \/ dl[p].os = "alive" /\ \E how \in {"clean", "error"} : dl' = [dl EXCEPT ![p].os = how]
       \/ dl[p].os = "dying" /\ dl' = [dl EXCEPT ![p].os = "killed"]
    /\ UNCHANGED procs /\ dlUnchanged
------------------------------------------------------------------------------
\* The progress monitor and a client.

\* Engine.Status, and what UpdateJobFromEngine makes of it.
Reported(p) ==
    CASE dl[p].result # "none" -> dl[p].result
      [] dl[p].post -> "processing"
      [] OTHER -> "downloading"

Poll(j) ==
    /\ app = "up" /\ media[j].status \in Active /\ downloads[j] # None
    /\ LET status == Reported(<<j, downloads[j]>>) IN
         /\ status # media[j].status
         /\ SetStatus(j, status)
         /\ downloads' = [downloads EXCEPT ![j] = IF status \in Active THEN @ ELSE None]
    /\ UNCHANGED <<tries, analysis, cancelOf, dl, procs, closed, app, canceller>>

SelectFormat(j) ==
    /\ app = "up" /\ canceller.at = "none"
    /\ media[j].status = "analyzing" /\ media[j].info
    /\ SetStatus(j, "queued")
    /\ UNCHANGED <<tries, analysis, cancelOf, downloads, dl, procs, closed, app, canceller>>

Retry(j) ==
    /\ app = "up" /\ canceller.at = "none"
    /\ media[j].status = "failed" /\ tries[j] < MaxTries
    /\ media' = [media EXCEPT ![j] = [status |-> "analyzing", info |-> FALSE]]
    /\ tries' = [tries EXCEPT ![j] = @ + 1]
    /\ analysis' = [analysis EXCEPT ![<<j, tries[j] + 1>>].at = "new"]
    /\ UNCHANGED <<cancelOf, downloads, dl, procs, closed, app, canceller>>

\* Bug: Only a process the engine knows of is stopped.
CancelKnownOnly(p) ==
    [dl EXCEPT ![p] = IF @.known THEN [Terminated(@) EXCEPT !.ctx = "cancelled"] ELSE @]

\* Engine.Cancel stops a process it knows of, and waits for it.
EngineCancel(p) == [dl EXCEPT ![p] = IF @.known THEN [Terminated(@) EXCEPT !.ctx = "cancelled"]
                                     ELSE [@ EXCEPT !.ctx = "cancelled"]]
CancelBegins(j) ==
    /\ app = "up" /\ canceller.at = "none" /\ media[j].status \in Cancellable
    /\ LET p == <<j, downloads[j]>> IN
         IF downloads[j] = None
         THEN /\ canceller' = [at |-> "trigger", job |-> j] /\ UNCHANGED dl
         ELSE /\ canceller' = [at |-> IF dl[p].known THEN "waiting" ELSE "trigger", job |-> j]
              /\ dl' = EngineCancel(p)
    /\ UNCHANGED <<media, tries, analysis, cancelOf, downloads, procs, closed, app>>

CancelWaited ==
    /\ Running /\ canceller.at = "waiting"
    /\ downloads[canceller.job] # None => dl[<<canceller.job, downloads[canceller.job]>>].reaped
    /\ canceller' = [canceller EXCEPT !.at = "trigger"]
    /\ UNCHANGED <<media, tries, analysis, cancelOf, downloads, dl, procs, closed, app>>

TriggerCancel ==
    /\ Running /\ canceller.at = "trigger"
    /\ LET j == canceller.job IN
         /\ analysis' = IF cancelOf[j] = None THEN analysis
                        ELSE [analysis EXCEPT ![<<j, cancelOf[j]>>].ctx = "cancelled"]
         /\ cancelOf' = [cancelOf EXCEPT ![j] = None]
    /\ canceller' = [canceller EXCEPT !.at = "write"]
    /\ UNCHANGED <<media, tries, downloads, dl, procs, closed, app>>

CancelWrites ==
    /\ Running /\ canceller.at = "write"
    /\ SetStatus(canceller.job, "cancelled")
    /\ downloads' = [downloads EXCEPT ![canceller.job] = None]
    /\ canceller' = NoCancel
    /\ UNCHANGED <<tries, analysis, cancelOf, dl, procs, closed, app>>
------------------------------------------------------------------------------
\* Shutdown: Manager.Stop, then the supervisor.

shutdownUnchanged == UNCHANGED <<media, tries, canceller>>

CancelAnalyses ==
    /\ app = "up" /\ app' = "engines"
    /\ analysis' = [a \in Try |-> IF cancelOf[a[1]] = a[2] THEN [analysis[a] EXCEPT !.ctx = "cancelled"]
                                  ELSE analysis[a]]
    /\ cancelOf' = [j \in MediaJob |-> None]
    /\ UNCHANGED <<downloads, dl, procs, closed>> /\ shutdownUnchanged

EngineShutdown ==
    /\ app = "engines" /\ app' = "supervisor"
    /\ dl' = [p \in Try |-> IF downloads[p[1]] = p[2] THEN EngineCancel(p)[p] ELSE dl[p]]
    /\ downloads' = [j \in MediaJob |-> None]
    /\ UNCHANGED <<analysis, cancelOf, procs, closed>> /\ shutdownUnchanged

SupervisorShutdown ==
    /\ app = "supervisor" /\ app' = "waiting"
    /\ closed' = TRUE
    /\ dl' = [p \in Try |-> IF procs[p[1]] = p[2] THEN Terminated(dl[p]) ELSE dl[p]]
    /\ UNCHANGED <<analysis, cancelOf, downloads, procs>> /\ shutdownUnchanged

\* It returns when the registry is empty, or when its time is up.
ShutdownReturns ==
    /\ app = "waiting"
    /\ \/ (\A j \in MediaJob : procs[j] = None) /\ app' = "stopped"
       \/ (\E j \in MediaJob : procs[j] # None) /\ app' = "timed_out"
    /\ UNCHANGED <<analysis, cancelOf, downloads, dl, procs, closed>> /\ shutdownUnchanged
------------------------------------------------------------------------------
AnalysisStep(a) == Register(a) \/ Analyzed(a) \/ Verify(a) \/ Commit(a) \/ Leave(a)
Goroutine(p) == Enter(p) \/ Spawn(p) \/ Attach(p) \/ Confirm(p) \/ RegisterProcess(p)
                \/ RecordProcess(p) \/ Reap(p) \/ Finish(p)
CancelStep == CancelWaited \/ TriggerCancel \/ CancelWrites
ShutdownStep == EngineShutdown \/ SupervisorShutdown \/ ShutdownReturns

ProcNext ==
    \/ \E a \in Try : AnalysisStep(a)
    \/ \E p \in Try : Goroutine(p) \/ Watch(p) \/ PostProcess(p) \/ ProcessDies(p)
    \/ \E j \in MediaJob : Dispatch(j) \/ Poll(j) \/ SelectFormat(j) \/ Retry(j) \/ CancelBegins(j)
    \/ CancelStep \/ CancelAnalyses \/ ShutdownStep

\* Goroutines are scheduled, a killed process dies, and Shutdown goes on once begun.
ProcSpec ==
    /\ ProcInit /\ [][ProcNext]_procVars
    /\ \A p \in Try : WF_procVars(Goroutine(p)) /\ WF_procVars(Watch(p))
    /\ \A p \in Try : WF_procVars(dl[p].os = "dying" /\ ProcessDies(p))
    /\ WF_procVars(CancelStep) /\ WF_procVars(ShutdownStep)
------------------------------------------------------------------------------
\* Properties.

\* ErrProcessAlreadyRunning is for nobody: a download that is about to start its
\* process finds the id of its job free until it has registered, although the check
\* and the registration are in different critical sections
\* (supervisor.go: StartOwned), because a job is given up only when its process is
\* reaped (ytdlp.go: runDownload).
NeverAlreadyRunning ==
    \A p \in Try : dl[p].at \in {"entry", "spawn", "attach", "confirm", "register"} =>
                       procs[p[1]] = None

\* Nobody works for a job that is over: every goroutine of a job whose row is
\* completed, failed or cancelled has ended, has reaped its process, or has been
\* told to stop, wherever the command met it (manager.go: Cancel; ytdlp.go: Cancel).
FinishedJobIsLetGo ==
    \A p \in Try : media[p[1]].status \in {"completed", "failed", "cancelled"} =>
        \/ dl[p].at \in {"none", "ended"} \/ dl[p].reaped \/ dl[p].ctx = "cancelled"

\* When Supervisor.Shutdown has returned without an error, no process that got
\* through its registration is alive, the one that registered during Shutdown
\* included (supervisor.go: Shutdown, StartOwned).
StoppedMeansReaped ==
    app = "stopped" => \A p \in Try : dl[p].at \in {"record", "run"} => ~Alive(p)

\* Nobody works for what is over, be it the job or the application.
EndedMeansLetGo == ProcTypeOK /\ FinishedJobIsLetGo /\ StoppedMeansReaped

\* A cancelled download's process dies, in whatever phase of its start the
\* cancellation came, unless the application ends first (supervisor.go: StartOwned,
\* phases A to D).
CancelledDies ==
    \A p \in Try : (dl[p].ctx = "cancelled" /\ Alive(p)) ~> (~Alive(p) \/ ~Running)
==============================================================================
