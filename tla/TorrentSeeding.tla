---------------------------- MODULE TorrentSeeding ----------------------------
(***************************************************************************)
(* A torrent from the user's selection of its files to its removal from the *)
(* daemon: selection, dispatch, download, seeding under a policy, the end.   *)
(* (How the torrent came to be the job's own is in TorrentOwnership.)        *)
(*                                                                         *)
(* API requests, the scheduler, the progress monitor, the network reconciler *)
(* and startup recovery all work on copies of the job, with calls to         *)
(* qBittorrent between the reading and the writing.  One step is one call to *)
(* the daemon or to the database, with the memory it goes with.              *)
(***************************************************************************)
EXTENDS Integers, FiniteSets

CONSTANTS
    File,        \* files of the torrent
    Choices,     \* selections the users make
    Policies,    \* seeding policies they ask for
    Client,      \* concurrent API requests
    MaxCalls,    \* bound: requests ever made
    MaxUpsets    \* bound: failed calls, restarts, torrents stopped by others

ASSUME SeedingAssumptions ==
    /\ Choices \subseteq (SUBSET File \ {{}})
    /\ Policies \subseteq {"none", "unlimited", "ratio"}
    /\ Client \cap {"monitor", "scheduler", "reconciler", "boot", "nobody"} = {}
    /\ MaxCalls \in Nat /\ MaxUpsets \in Nat

VARIABLES
    torrent,   \* qBittorrent: [here, files, limit, st]
    reached,   \* its ratio is at the limit of the "ratio" policy
    srow,      \* jobs table: [st, pending]; pending: engine_cleanup_pending
    rec,       \* torrent_jobs table: the seeding policy
    chosen,    \* torrent_files table: the selected files
    queue,     \* job_queue table: action, or "none"
    active,    \* activeJobs: [in, st, policy]
    permit,    \* the governor's lease of the job
    lock,      \* terminalLocks: who holds the job's
    p,         \* process -> its place and its copy of the job
    calls, upsets,
    \* History:
    crossed,        \* the job was changed while another process held a copy of it
    foundSeeding    \* a dispatch whose row was not written found the torrent seeding

vars == <<torrent, reached, srow, rec, chosen, queue, active, permit, lock, p, calls, upsets,
          crossed, foundSeeding>>

Proc == Client \cup {"monitor", "scheduler", "reconciler", "boot"}
Nobody == "nobody"
Statuses == {"awaiting_selection", "queued", "downloading", "paused", "seeding", "completed", "failed"}
DaemonState == {"stoppedDL", "downloading", "seeding", "stoppedUP"}
Idle == [at |-> "idle", op |-> "none", st |-> "queued", pending |-> FALSE, policy |-> "none",
         old |-> "none", files |-> {}, seen |-> "gone"]

\* Places between taking the terminal lock and giving it back.
Locked == {"stopCheck", "stopDaemon", "finRead", "finPersist", "finRemove", "finClear"}

\* The lock is held by exactly the process that is between Lock and Unlock.
SeedTypeOK ==
    /\ torrent \in [here : BOOLEAN, files : SUBSET File, limit : {"unset", "unlimited", "ratio"}, st : DaemonState]
    /\ srow \in [st : Statuses, pending : BOOLEAN]
    /\ rec \in {"none", "unlimited", "ratio"} /\ chosen \in SUBSET File /\ reached \in BOOLEAN
    /\ queue \in {"none", "start", "resume"} /\ permit \in BOOLEAN
    /\ active \in [in : BOOLEAN, st : Statuses, policy : {"none", "unlimited", "ratio"}]
    /\ DOMAIN p = Proc /\ \A x \in Proc : (p[x].at \in Locked) <=> (lock = x)
    /\ calls \in 0 .. MaxCalls /\ upsets \in 0 .. MaxUpsets
    /\ crossed \in BOOLEAN /\ foundSeeding \in BOOLEAN

\* All files are selected, and the torrent stopped, when its metadata is there.
SeedInit ==
    /\ torrent = [here |-> TRUE, files |-> File, limit |-> "unset", st |-> "stoppedDL"]
    /\ reached = FALSE
    /\ srow = [st |-> "awaiting_selection", pending |-> FALSE]
    /\ rec = "none" /\ chosen = File /\ queue = "none"
    /\ active = [in |-> FALSE, st |-> "queued", policy |-> "none"]
    /\ permit = FALSE /\ lock = Nobody /\ p = [x \in Proc |-> Idle]
    /\ calls = 0 /\ upsets = 0 /\ crossed = FALSE /\ foundSeeding = FALSE
------------------------------------------------------------------------------
\* Steps.

At(x, place) == p[x].at = place
Goto(x, place) == p' = [p EXCEPT ![x].at = place]
Done(x) == p' = [p EXCEPT ![x] = Idle]
Booting == p["boot"].at # "idle"

\* A call goes through, or fails.
Fine == UNCHANGED upsets
Fault == upsets < MaxUpsets /\ upsets' = upsets + 1

NoMemory == UNCHANGED <<active, permit>>
NoDaemon == UNCHANGED <<torrent, reached>>
NoTables == UNCHANGED <<srow, rec, chosen, queue>>
NoCalls == UNCHANGED calls

\* repo.Update writes the status and the pending flag of the caller's copy.
UpdateRow(x, st) == srow' = [st |-> st, pending |-> p[x].pending]
RemoveActive == active' = [active EXCEPT !.in = FALSE] /\ permit' = FALSE

Started == [torrent EXCEPT !.st = CASE @ = "stoppedDL" -> "downloading" [] @ = "stoppedUP" -> "seeding" [] OTHER -> @]
Stopped == [torrent EXCEPT !.st = CASE @ = "downloading" -> "stoppedDL" [] @ = "seeding" -> "stoppedUP" [] OTHER -> @]

\* ApplySeedingPolicy: mode none leaves the daemon's limits as they are.
Limited(policy) == IF policy = "none" THEN torrent ELSE [torrent EXCEPT !.limit = policy]

\* mapQBState.
DaemonStatus ==
    IF ~torrent.here THEN "gone"
    ELSE [stoppedDL |-> "paused", downloading |-> "downloading",
          seeding |-> "seeding", stoppedUP |-> "completed"][torrent.st]
------------------------------------------------------------------------------
\* The daemon, and those who share it.

Rest == UNCHANGED <<srow, rec, chosen, queue, active, permit, lock, p>> /\ NoCalls

PayloadArrives == torrent.here /\ torrent.st = "downloading" /\ torrent' = [torrent EXCEPT !.st = "seeding"] /\ UNCHANGED <<reached, upsets>> /\ Rest
RatioReached == torrent.here /\ torrent.st = "seeding" /\ ~reached /\ reached' = TRUE /\ UNCHANGED <<torrent, upsets>> /\ Rest
LimitStops ==
    /\ torrent.here /\ torrent.st = "seeding" /\ torrent.limit = "ratio" /\ reached
    /\ torrent' = [torrent EXCEPT !.st = "stoppedUP"] /\ UNCHANGED <<reached, upsets>> /\ Rest
StoppedByOthers == torrent.here /\ Stopped # torrent /\ torrent' = Stopped /\ Fault /\ UNCHANGED reached /\ Rest
------------------------------------------------------------------------------
\* StartTorrentWithPolicy.

Call == calls < MaxCalls /\ calls' = calls + 1

StartBegins(x) ==
    /\ At(x, "idle") /\ Call /\ srow.st = "awaiting_selection" /\ torrent.here
    /\ \E c \in Choices, policy \in Policies :
           p' = [p EXCEPT ![x] = [Idle EXCEPT !.at = "priorities", !.op = "start", !.files = c,
                                              !.policy = policy, !.pending = srow.pending]]
    /\ NoDaemon /\ NoTables /\ NoMemory /\ UNCHANGED <<lock, upsets>>

\* The files are grouped by priority, in no particular order, one call a group.
SetPriorities(x) ==
    /\ p[x].at \in {"priorities", "prioritiesOn", "prioritiesOff"}
    /\ \/ /\ p[x].at # "prioritiesOff" /\ Fine
          /\ torrent' = [torrent EXCEPT !.files = @ \cup p[x].files]
          /\ Goto(x, IF At(x, "priorities") THEN "prioritiesOff" ELSE "verify")
       \/ /\ p[x].at # "prioritiesOn" /\ Fine
          /\ torrent' = [torrent EXCEPT !.files = @ \cap p[x].files]
          /\ Goto(x, IF At(x, "priorities") THEN "prioritiesOn" ELSE "verify")
       \/ Fault /\ Done(x) /\ UNCHANGED torrent
    /\ UNCHANGED <<reached, lock>> /\ NoTables /\ NoMemory /\ NoCalls

VerifyPriorities(x) ==
    /\ At(x, "verify")
    /\ IF torrent.here /\ torrent.files = p[x].files THEN Goto(x, "limit") ELSE Done(x)
    /\ Fine /\ UNCHANGED lock /\ NoDaemon /\ NoTables /\ NoMemory /\ NoCalls

StartLimit(x) ==
    /\ At(x, "limit")
    /\ \/ torrent' = Limited(p[x].policy) /\ Goto(x, "enqueue") /\ Fine
       \/ Fault /\ Done(x) /\ UNCHANGED torrent
    /\ UNCHANGED <<reached, lock>> /\ NoTables /\ NoMemory /\ NoCalls

\* PersistTorrentSelectionAndEnqueue: one transaction.
SelectionEnqueued(x) ==
    /\ At(x, "enqueue")
    /\ \/ /\ chosen' = p[x].files /\ rec' = p[x].policy /\ queue' = "start"
          /\ srow' = [srow EXCEPT !.st = "queued"] /\ Fine
       \/ Fault /\ NoTables
    /\ Done(x) /\ UNCHANGED lock /\ NoDaemon /\ NoMemory /\ NoCalls
------------------------------------------------------------------------------
\* UpdateSeedingPolicy.

PolicyBegins(x) ==
    /\ At(x, "idle") /\ Call
    /\ srow.st \in {"awaiting_selection", "queued", "downloading", "paused", "seeding"}
    /\ \E policy \in Policies :
           p' = [p EXCEPT ![x] =
                    IF srow.st = "seeding" /\ policy = "none"
                    THEN [Idle EXCEPT !.at = "stopLock", !.op = "stop"]
                    ELSE [Idle EXCEPT !.at = "apply", !.op = "policy", !.policy = policy, !.old = rec]]
    /\ NoDaemon /\ NoTables /\ NoMemory /\ UNCHANGED <<lock, upsets>>

ApplyPolicy(x) ==
    /\ At(x, "apply")
    /\ \/ torrent.here /\ torrent' = Limited(p[x].policy) /\ Goto(x, "save") /\ Fine
       \/ ~torrent.here /\ Done(x) /\ UNCHANGED torrent /\ Fine
       \/ Fault /\ Done(x) /\ UNCHANGED torrent
    /\ UNCHANGED <<reached, lock>> /\ NoTables /\ NoMemory /\ NoCalls

SavePolicy(x) ==
    /\ At(x, "save")
    /\ \/ rec' = p[x].policy /\ Goto(x, "tell") /\ Fine
       \/ Fault /\ Goto(x, "rollback") /\ UNCHANGED rec
    /\ UNCHANGED <<srow, chosen, queue, lock>> /\ NoDaemon /\ NoMemory /\ NoCalls

Rollback(x) ==
    /\ At(x, "rollback") /\ Done(x)
    /\ \/ torrent' = Limited(p[x].old) /\ Fine
       \/ Fault /\ UNCHANGED torrent              \* SeedingPolicyStateAmbiguous
    /\ UNCHANGED <<reached, lock>> /\ NoTables /\ NoMemory /\ NoCalls

\* Bug: the monitor goes on with the policy it knows.
TellNobody(x) ==
    At(x, "tell") /\ Done(x) /\ Fine /\ UNCHANGED lock /\ NoDaemon /\ NoTables /\ NoMemory /\ NoCalls

\* updateActiveJobSeedingState: the monitor works with this copy.
TellMonitor(x) ==
    /\ At(x, "tell") /\ Done(x) /\ Fine
    /\ active' = IF active.in THEN [active EXCEPT !.policy = p[x].policy] ELSE active
    /\ UNCHANGED <<permit, lock>> /\ NoDaemon /\ NoTables /\ NoCalls
------------------------------------------------------------------------------
\* Completion: StopSeeding, and finalizeCompletedTorrent as everyone calls it.

StopBegins(x) ==
    /\ At(x, "idle") /\ Call /\ srow.st = "seeding"
    /\ p' = [p EXCEPT ![x] = [Idle EXCEPT !.at = "stopLock", !.op = "stop"]]
    /\ NoDaemon /\ NoTables /\ NoMemory /\ UNCHANGED <<lock, upsets>>

TakeLock(x) ==
    /\ p[x].at \in {"stopLock", "finLock"} /\ lock = Nobody /\ lock' = x
    /\ Goto(x, IF At(x, "stopLock") THEN "stopCheck" ELSE "finRead")
    /\ Fine /\ NoDaemon /\ NoTables /\ NoMemory /\ NoCalls

Unlock(x) == Done(x) /\ lock' = Nobody

StopChecks(x) ==
    /\ At(x, "stopCheck")
    /\ IF srow.st = "seeding" THEN Goto(x, "stopDaemon") /\ UNCHANGED lock ELSE Unlock(x)
    /\ Fine /\ NoDaemon /\ NoTables /\ NoMemory /\ NoCalls

StopsDaemon(x) ==
    /\ At(x, "stopDaemon")
    /\ \/ torrent' = Stopped /\ Goto(x, "finRead") /\ Fine /\ UNCHANGED lock
       \/ Fault /\ Unlock(x) /\ UNCHANGED torrent
    /\ UNCHANGED reached /\ NoTables /\ NoMemory /\ NoCalls

\* Somebody else finished the job, and the daemon's torrent is gone.
FinRead(x) ==
    /\ At(x, "finRead")
    /\ IF srow.st = "completed" /\ ~srow.pending THEN Unlock(x) ELSE Goto(x, "finPersist") /\ UNCHANGED lock
    /\ Fine /\ NoDaemon /\ NoTables /\ NoMemory /\ NoCalls

\* FinalizeTorrent: one transaction for the row and the record.
FinPersist(x) ==
    /\ At(x, "finPersist")
    /\ \/ /\ srow' = [st |-> "completed", pending |-> TRUE] /\ rec' = p[x].policy
          /\ RemoveActive /\ Goto(x, "finRemove") /\ Fine /\ UNCHANGED lock
       \/ Fault /\ Unlock(x) /\ NoMemory /\ UNCHANGED <<srow, rec>>
    /\ UNCHANGED <<chosen, queue>> /\ NoDaemon /\ NoCalls

\* Bug: a removal that failed is taken for done.
RemoveOnce(x) ==
    /\ At(x, "finRemove")
    /\ \/ torrent' = [torrent EXCEPT !.here = FALSE] /\ Fine
       \/ Fault /\ UNCHANGED torrent
    /\ Goto(x, "finClear") /\ UNCHANGED <<reached, lock>> /\ NoTables /\ NoMemory /\ NoCalls

FinRemove(x) ==
    /\ At(x, "finRemove")
    /\ \/ torrent' = [torrent EXCEPT !.here = FALSE] /\ Goto(x, "finClear") /\ Fine /\ UNCHANGED lock
       \/ Fault /\ Unlock(x) /\ UNCHANGED torrent         \* cleanup stays pending
    /\ UNCHANGED reached /\ NoTables /\ NoMemory /\ NoCalls

FinClear(x) ==
    /\ At(x, "finClear")
    /\ \/ srow' = [st |-> "completed", pending |-> FALSE] /\ Fine
       \/ Fault /\ UNCHANGED srow
    /\ Unlock(x) /\ UNCHANGED <<rec, chosen, queue>> /\ NoDaemon /\ NoMemory /\ NoCalls
------------------------------------------------------------------------------
\* Pause and Resume.

PauseBegins(x) ==
    /\ At(x, "idle") /\ Call /\ srow.st \in {"queued", "downloading"}
    /\ p' = [p EXCEPT ![x] = [Idle EXCEPT !.at = IF srow.st = "queued" THEN "pauseQueued" ELSE "pauseDaemon",
                                          !.op = "pause", !.pending = srow.pending]]
    /\ NoDaemon /\ NoTables /\ NoMemory /\ UNCHANGED <<lock, upsets>>

PauseQueued(x) ==
    /\ At(x, "pauseQueued") /\ Done(x)
    /\ \/ UpdateRow(x, "paused") /\ Fine
       \/ Fault /\ UNCHANGED srow
    /\ UNCHANGED <<rec, chosen, queue, lock>> /\ NoDaemon /\ NoMemory /\ NoCalls

PauseDaemon(x) ==
    /\ At(x, "pauseDaemon")
    /\ \/ torrent' = Stopped /\ Goto(x, "pauseEntry") /\ Fine
       \/ Fault /\ Done(x) /\ UNCHANGED torrent
    /\ UNCHANGED <<reached, lock>> /\ NoTables /\ NoMemory /\ NoCalls

\* Without its queue entry the row is paused all the same; the job is then left
\* to the monitor.
PauseEntry(x) ==
    /\ At(x, "pauseEntry")
    /\ \/ queue' = "resume" /\ Goto(x, "pauseRow") /\ Fine
       \/ Fault /\ Goto(x, "pauseQueued") /\ UNCHANGED queue
    /\ UNCHANGED <<srow, rec, chosen, lock>> /\ NoDaemon /\ NoMemory /\ NoCalls

PauseRow(x) ==
    /\ At(x, "pauseRow")
    /\ \/ UpdateRow(x, "paused") /\ Goto(x, "pauseForget") /\ Fine
       \/ Fault /\ Done(x) /\ UNCHANGED srow
    /\ UNCHANGED <<rec, chosen, queue, lock>> /\ NoDaemon /\ NoMemory /\ NoCalls

PauseForgets(x) ==
    /\ At(x, "pauseForget") /\ Done(x) /\ RemoveActive /\ Fine
    /\ UNCHANGED lock /\ NoDaemon /\ NoTables /\ NoCalls

ResumeBegins(x) ==
    /\ At(x, "idle") /\ Call /\ srow.st \in {"paused", "failed"}
    /\ queue' = IF queue = "none" THEN "resume" ELSE queue
    /\ p' = [p EXCEPT ![x] = [Idle EXCEPT !.at = "resumeRow", !.op = "resume", !.pending = srow.pending]]
    /\ NoDaemon /\ NoMemory /\ UNCHANGED <<srow, rec, chosen, lock, upsets>>

ResumeRow(x) ==
    /\ At(x, "resumeRow") /\ Done(x)
    /\ \/ UpdateRow(x, "queued") /\ Fine /\ UNCHANGED queue
       \/ Fault /\ UNCHANGED srow /\ queue' = "none"
    /\ UNCHANGED <<rec, chosen, lock>> /\ NoDaemon /\ NoMemory /\ NoCalls
------------------------------------------------------------------------------
\* The scheduler: dispatchQueuedJob for a torrent.  op is the action.

S == "scheduler"

DispatchBegins ==
    /\ At(S, "idle") /\ ~Booting /\ srow.st = "queued" /\ queue # "none" /\ ~permit
    /\ permit' = TRUE
    /\ p' = [p EXCEPT ![S] = [Idle EXCEPT !.at = "start", !.op = queue, !.pending = srow.pending, !.policy = rec]]
    /\ Fine /\ UNCHANGED <<active, lock>> /\ NoDaemon /\ NoTables /\ NoCalls

\* StartTorrents.  A start that fails is undone; a resume that fails is only noted.
DispatchStarts ==
    /\ At(S, "start")
    /\ \/ torrent.here /\ torrent' = Started /\ Goto(S, "confirm") /\ Fine
       \/ ~torrent.here /\ Goto(S, "confirm") /\ Fine /\ UNCHANGED torrent
       \/ Fault /\ Goto(S, IF p[S].op = "start" THEN "undo" ELSE "refuse") /\ UNCHANGED torrent
    /\ UNCHANGED <<reached, lock>> /\ NoTables /\ NoMemory /\ NoCalls

\* confirmTorrentEngineActive.
DispatchConfirms ==
    /\ At(S, "confirm")
    /\ Goto(S, IF DaemonStatus \notin {"downloading", "seeding", "completed"} THEN "undo"
               ELSE IF p[S].op = "start" THEN "speed" ELSE "running")
    /\ Fine /\ UNCHANGED lock /\ NoDaemon /\ NoTables /\ NoMemory /\ NoCalls

\* applyJobLimits: failing it, the job fails, and the torrent runs on.
DispatchLimits ==
    /\ At(S, "speed")
    /\ \/ Goto(S, "running") /\ Fine
       \/ Fault /\ Goto(S, "refuse")
    /\ UNCHANGED lock /\ NoDaemon /\ NoTables /\ NoMemory /\ NoCalls

DispatchRuns ==
    /\ At(S, "running")
    /\ \/ /\ UpdateRow(S, "downloading") /\ Fine
          /\ p' = [p EXCEPT ![S].at = "track", ![S].st = "downloading"]
       \/ Fault /\ Goto(S, "reconcile") /\ UNCHANGED srow
    /\ UNCHANGED <<rec, chosen, queue, lock>> /\ NoDaemon /\ NoMemory /\ NoCalls

\* The queue entry goes, or is left behind by a failed call.
DispatchTracks ==
    /\ At(S, "track") /\ Done(S)
    /\ \/ queue' = "none" /\ Fine
       \/ Fault /\ UNCHANGED queue
    /\ active' = [in |-> TRUE, st |-> p[S].st, policy |-> p[S].policy]
    /\ UNCHANGED <<srow, rec, chosen, permit, lock>> /\ NoDaemon /\ NoCalls

\* reconcileExternalExecution: the daemon says what the row should have said.  It
\* is asked again as long as the torrent is not running.
DispatchReconciles ==
    /\ At(S, "reconcile") /\ DaemonStatus \in {"downloading", "seeding", "completed"}
    /\ LET st == IF DaemonStatus = "seeding" THEN "seeding" ELSE "downloading" IN
       /\ srow' = [srow EXCEPT !.st = st]
       /\ p' = [p EXCEPT ![S].at = "track", ![S].policy = rec, ![S].st = st]
    /\ Fine /\ UNCHANGED <<rec, chosen, queue, lock>> /\ NoDaemon /\ NoMemory /\ NoCalls

\* persistDispatchFailure: Pause and StopDownload, which may fail too.
DispatchUndoes ==
    /\ At(S, "undo") /\ Goto(S, "refuse")
    /\ \/ torrent' = Stopped /\ Fine
       \/ Fault /\ UNCHANGED torrent
    /\ UNCHANGED <<reached, lock>> /\ NoTables /\ NoMemory /\ NoCalls

\* A start has failed, a resume is paused again; the write is tried until it
\* succeeds.
DispatchRefuses ==
    /\ At(S, "refuse")
    /\ UpdateRow(S, IF p[S].op = "start" THEN "failed" ELSE "paused")
    /\ queue' = IF p[S].op = "start" THEN "none" ELSE queue
    /\ permit' = FALSE /\ Done(S)
    /\ Fine /\ UNCHANGED <<rec, chosen, active, lock>> /\ NoDaemon /\ NoCalls
------------------------------------------------------------------------------
\* The progress monitor: a tick for the one job, and the cleanup sweep before it.

M == "monitor"

SweepBegins ==
    /\ At(M, "idle") /\ ~Booting /\ srow.st = "completed" /\ srow.pending
    /\ p' = [p EXCEPT ![M] = [Idle EXCEPT !.at = "sweepRemove"]]
    /\ Fine /\ UNCHANGED lock /\ NoDaemon /\ NoTables /\ NoMemory /\ NoCalls

\* retryPendingEngineCleanup: without the terminal lock.
SweepRemoves ==
    /\ At(M, "sweepRemove")
    /\ \/ torrent' = [torrent EXCEPT !.here = FALSE] /\ Goto(M, "sweepClear") /\ Fine
       \/ Fault /\ Done(M) /\ UNCHANGED torrent
    /\ UNCHANGED <<reached, lock>> /\ NoTables /\ NoMemory /\ NoCalls

SweepClears ==
    /\ At(M, "sweepClear") /\ Done(M)
    /\ \/ srow' = [st |-> "completed", pending |-> FALSE] /\ RemoveActive /\ Fine
       \/ Fault /\ UNCHANGED srow /\ NoMemory
    /\ UNCHANGED <<rec, chosen, queue, lock>> /\ NoDaemon /\ NoCalls

\* A copy of the active job is taken, then the daemon asked.
TickBegins ==
    /\ At(M, "idle") /\ ~Booting /\ active.in
    /\ p' = [p EXCEPT ![M] = [Idle EXCEPT !.at = "ask", !.st = active.st, !.policy = active.policy]]
    /\ Fine /\ UNCHANGED lock /\ NoDaemon /\ NoTables /\ NoMemory /\ NoCalls

\* enterSeeding: mode none, and a threshold that was reached, end the job.
NextPlace(x, status, atLimit) ==
    CASE status \in {"seeding", "completed"} ->
             IF x.policy = "none" THEN "finLock"
             ELSE IF x.policy = "ratio" /\ atLimit THEN "tickStops"
             ELSE IF x.st # "seeding" THEN "seedingSince"
             ELSE IF status = "completed" THEN "idle" ELSE "tickWrites"
      [] status = "paused" -> IF x.st = "paused" THEN "idle" ELSE "tickPauses"
      [] status = "downloading" -> "tickWrites"
      [] status = "gone" -> "tickGone"

TickAsks ==
    /\ At(M, "ask")
    /\ \/ LET place == NextPlace(p[M], DaemonStatus, reached) IN
          /\ Fine
          /\ IF place = "idle" THEN Done(M)
             ELSE p' = [p EXCEPT ![M].at = place, ![M].seen = DaemonStatus]
       \/ Fault /\ Done(M)
    /\ UNCHANGED lock /\ NoDaemon /\ NoTables /\ NoMemory /\ NoCalls

TickStops ==
    /\ At(M, "tickStops") /\ Goto(M, "finLock")
    /\ \/ torrent' = Stopped /\ Fine
       \/ Fault /\ UNCHANGED torrent
    /\ UNCHANGED <<reached, lock>> /\ NoTables /\ NoMemory /\ NoCalls

\* SeedingStartedAt is put into the record: read, changed and written whole.
SeedingSince ==
    /\ At(M, "seedingSince") /\ p' = [p EXCEPT ![M].at = "seedingSaved", ![M].old = rec]
    /\ Fine /\ UNCHANGED lock /\ NoDaemon /\ NoTables /\ NoMemory /\ NoCalls

SeedingSaved ==
    /\ At(M, "seedingSaved") /\ Goto(M, "seedingRow")
    /\ \/ rec' = p[M].old /\ Fine
       \/ Fault /\ UNCHANGED rec
    /\ UNCHANGED <<srow, chosen, queue, lock>> /\ NoDaemon /\ NoMemory /\ NoCalls

\* The slot is given back when the seeding begins; the write may fail.
SeedingRow ==
    /\ At(M, "seedingRow") /\ permit' = FALSE
    /\ \/ UpdateRow(M, "seeding") /\ Fine
       \/ Fault /\ UNCHANGED srow
    /\ active' = [in |-> TRUE, st |-> "seeding", policy |-> p[M].policy] /\ Done(M)
    /\ UNCHANGED <<rec, chosen, queue, lock>> /\ NoDaemon /\ NoCalls

\* Progress: the copy becomes the active job again, and every three seconds, and
\* before that for a job that downloads, the row.
TickWrites ==
    /\ At(M, "tickWrites") /\ Done(M)
    /\ active' = [in |-> TRUE, st |-> p[M].seen, policy |-> p[M].policy]
    /\ \/ UpdateRow(M, p[M].seen)
       \/ UNCHANGED srow
    /\ Fine /\ UNCHANGED <<rec, chosen, queue, permit, lock>> /\ NoDaemon /\ NoCalls

TickPauses ==
    /\ At(M, "tickPauses") /\ Done(M) /\ RemoveActive
    /\ \/ UpdateRow(M, "paused") /\ Fine
       \/ Fault /\ UNCHANGED srow
    /\ UNCHANGED <<rec, chosen, queue, lock>> /\ NoDaemon /\ NoCalls

\* The torrent is gone: after five ticks the job has failed, unless it is finished.
TickGone ==
    /\ At(M, "tickGone") /\ Done(M)
    /\ \/ srow.st \in {"completed", "failed"} /\ RemoveActive /\ Fine /\ UNCHANGED srow
       \/ srow.st \notin {"completed", "failed"} /\ UpdateRow(M, "failed") /\ RemoveActive /\ Fine
       \/ NoMemory /\ UNCHANGED srow /\ Fine
    /\ UNCHANGED <<rec, chosen, queue, lock>> /\ NoDaemon /\ NoCalls
------------------------------------------------------------------------------
\* ReconcileNetworkPolicies: every five seconds the row of a running job is read,
\* its limits applied, and the whole row written back.

R == "reconciler"

ReconcileBegins ==
    /\ At(R, "idle") /\ ~Booting /\ srow.st \in {"downloading", "paused", "seeding"}
    /\ p' = [p EXCEPT ![R] = [Idle EXCEPT !.at = "write", !.st = srow.st, !.pending = srow.pending]]
    /\ Fine /\ UNCHANGED lock /\ NoDaemon /\ NoTables /\ NoMemory /\ NoCalls

ReconcileWrites ==
    /\ At(R, "write") /\ UpdateRow(R, p[R].st) /\ Done(R) /\ Fine
    /\ UNCHANGED <<rec, chosen, queue, lock>> /\ NoDaemon /\ NoMemory /\ NoCalls
------------------------------------------------------------------------------
\* The application dies and starts again: nothing runs before recovery is over.

Restart ==
    /\ ~Booting /\ Fault
    /\ p' = [x \in Proc |-> IF x = "boot" /\ srow.st \in {"downloading", "seeding"}
                            THEN [Idle EXCEPT !.at = "bootLimit", !.policy = rec] ELSE Idle]
    /\ lock' = Nobody
    /\ active' = [in |-> FALSE, st |-> "queued", policy |-> "none"]
    /\ permit' = FALSE
    /\ queue' = IF srow.st \in {"completed", "failed", "downloading", "seeding"} THEN "none" ELSE queue
    /\ UNCHANGED <<srow, rec, chosen>> /\ NoDaemon /\ NoCalls

B == "boot"

\* The policy is applied again (SeedingReconcilePending is set when that fails).
BootLimits ==
    /\ At(B, "bootLimit") /\ Goto(B, "bootStatus")
    /\ \/ torrent' = Limited(p[B].policy) /\ Fine
       \/ Fault /\ UNCHANGED torrent
    /\ UNCHANGED <<reached, lock>> /\ NoTables /\ NoMemory /\ NoCalls

\* recoverJob.  permit: restoring the leases comes after it, for what downloads.
BootReattaches ==
    /\ At(B, "bootStatus")
    /\ CASE DaemonStatus = "completed" \/ (DaemonStatus = "seeding" /\ rec = "none") ->
                /\ Goto(B, "finLock") /\ Fine /\ NoMemory /\ UNCHANGED srow
         [] DaemonStatus \in {"downloading", "seeding"} /\ ~(DaemonStatus = "seeding" /\ rec = "none") ->
                /\ srow' = [srow EXCEPT !.st = DaemonStatus]
                /\ active' = [in |-> TRUE, st |-> DaemonStatus, policy |-> p[B].policy]
                /\ permit' = (DaemonStatus = "downloading")
                /\ Done(B) /\ Fine
         [] DaemonStatus = "paused" ->
                srow' = [srow EXCEPT !.st = "paused"] /\ Done(B) /\ Fine /\ NoMemory
         [] DaemonStatus = "gone" ->
                srow' = [srow EXCEPT !.st = "failed"] /\ Done(B) /\ Fine /\ NoMemory
    /\ UNCHANGED <<rec, chosen, queue, lock>> /\ NoDaemon /\ NoCalls

BootLost ==
    /\ At(B, "bootStatus") /\ Fault /\ Done(B)
    /\ srow' = [srow EXCEPT !.st = "failed"]
    /\ UNCHANGED <<rec, chosen, queue, lock>> /\ NoDaemon /\ NoMemory /\ NoCalls
------------------------------------------------------------------------------
Request(x) ==
    \/ ~Booting /\ (StartBegins(x) \/ PolicyBegins(x) \/ StopBegins(x) \/ PauseBegins(x) \/ ResumeBegins(x))
    \/ SetPriorities(x) \/ VerifyPriorities(x) \/ StartLimit(x) \/ SelectionEnqueued(x)
    \/ ApplyPolicy(x) \/ SavePolicy(x) \/ Rollback(x) \/ TellMonitor(x)
    \/ StopChecks(x) \/ StopsDaemon(x)
    \/ PauseQueued(x) \/ PauseDaemon(x) \/ PauseEntry(x) \/ PauseRow(x) \/ PauseForgets(x) \/ ResumeRow(x)

Finalize(x) == TakeLock(x) \/ FinRead(x) \/ FinPersist(x) \/ FinRemove(x) \/ FinClear(x)

Dispatch ==
    \/ DispatchBegins \/ DispatchStarts \/ DispatchConfirms \/ DispatchLimits \/ DispatchRuns
    \/ DispatchTracks \/ DispatchReconciles \/ DispatchUndoes \/ DispatchRefuses

Tick ==
    \/ SweepBegins \/ SweepRemoves \/ SweepClears
    \/ TickBegins \/ TickAsks \/ TickStops \/ SeedingSince \/ SeedingSaved \/ SeedingRow
    \/ TickWrites \/ TickPauses \/ TickGone

Remember ==
    /\ crossed' = (crossed \/ ( /\ <<srow, rec, active, torrent.files>>' # <<srow, rec, active, torrent.files>>
                               /\ \E x \in Proc : p[x].at # "idle" /\ p'[x] = p[x]))
    /\ foundSeeding' = (foundSeeding \/ p'[S].st = "seeding")

SeedNext ==
    \/ \E x \in Client : Request(x) /\ Remember
    \/ \E x \in Proc : Finalize(x) /\ Remember
    \/ (Dispatch \/ Tick) /\ Remember
    \/ (ReconcileBegins \/ ReconcileWrites) /\ Remember
    \/ (BootLimits \/ BootReattaches \/ BootLost \/ Restart) /\ Remember
    \/ (PayloadArrives \/ RatioReached \/ LimitStops \/ StoppedByOthers) /\ Remember

SeedSpec == SeedInit /\ [][SeedNext]_vars
------------------------------------------------------------------------------
\* Properties.

\* The removal of a finished torrent is not forgotten: a completed job without a
\* pending cleanup has no torrent in the daemon, whichever of the five callers
\* finished it, and whatever failed or died on the way.
CompletedLeavesDaemon == srow.st = "completed" /\ ~srow.pending => ~torrent.here

\* What follows holds as long as no process changed the job while another one was
\* at work on a copy of it: all of them write what they hold back, whole.

\* What runs is what the user chose, and what the database remembers, whatever call
\* failed and whatever restart came between setting the priorities and the rows.
RunsWhatWasChosen ==
    torrent.here /\ torrent.st \in {"downloading", "seeding"} /\ srow.st \in {"queued", "downloading", "seeding"}
        => torrent.files = chosen \/ crossed

\* A seeding job does not hold a transfer slot (when nobody is in the middle of
\* something), so that seeding never starves the queue.  Not when a dispatch finds
\* the torrent complete and seeding: that path keeps the permit.
AtRest == \A x \in Proc : p[x].at = "idle"
SeedingFreesItsSlot == AtRest /\ active.in /\ active.st = "seeding" => ~permit \/ foundSeeding \/ crossed

\* The policy the monitor acts on, tick after tick, is the one in the record: what
\* the user set last, whatever failed in between.
PolicyInForce == AtRest /\ active.in => active.policy = rec \/ crossed

\* Daemon, database, permits and monitor follow what the user chose.
SeedingAsChosen == SeedTypeOK /\ RunsWhatWasChosen /\ SeedingFreesItsSlot /\ PolicyInForce
==============================================================================
