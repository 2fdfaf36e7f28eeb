----------------------------- MODULE ProcessProofs -----------------------------
(***************************************************************************)
(* Proofs about the child processes of media jobs, for any jobs and any    *)
(* number of tries.  ProcTypeOK says nothing of who may hold the id of a   *)
(* job.  ProcessInv does: a job has one try at a time, and everything of   *)
(* the tries before it is over; what a row says bounds what the download   *)
(* of the current try may be doing; the supervisor's entry of a job is     *)
(* that download, from its registration until its process is reaped; and   *)
(* a client that is cancelling has let go of it already.                   *)
(***************************************************************************)
EXTENDS MediaProcesses, TLAPS

Cur(j) == <<j, tries[j]>>
Over == {"completed", "failed", "cancelled"}
Dead == {"clean", "error", "killed"}
Early == {"new", "running", "verify", "commit"}
Status == Cancellable \cup Over
AnalysisState == [at : Early \cup {"none", "leaving", "gone"}, ctx : {"live", "cancelled"},
                  copy : {"analyzing", "cancelled"}]
Starting == {"entry", "spawn", "attach", "confirm", "register"}
DownloadState ==
    [at : Starting \cup {"none", "record", "run", "reap", "ended"}, ctx : {"live", "cancelled"},
     os : Dead \cup {"none", "alive", "dying"}, known : BOOLEAN, terminated : BOOLEAN,
     reaped : BOOLEAN, post : BOOLEAN, result : {"none"} \cup Over]

ProcTypes ==
    /\ media \in [MediaJob -> [status : Status, info : BOOLEAN]]
    /\ tries \in [MediaJob -> 1 .. MaxTries]
    /\ analysis \in [Try -> AnalysisState]
    /\ cancelOf \in [MediaJob -> Ref] /\ downloads \in [MediaJob -> Ref] /\ procs \in [MediaJob -> Ref]
    /\ dl \in [Try -> DownloadState]
    /\ closed \in BOOLEAN
    /\ app \in {"up", "engines", "supervisor", "waiting", "stopped", "timed_out"}
    /\ canceller \in [at : {"none", "waiting", "trigger", "write"}, job : MediaJob]

\* What the fields of a download say of each other.
SoundDownload(d) ==
    /\ d.at = "ended" <=> d.result # "none"
    /\ d.known => d.at \in {"run", "ended"}
    /\ d.reaped => d.at \in {"run", "reap", "ended"} /\ d.os \in Dead
SoundDownloads == \A p \in Try : SoundDownload(dl[p])

\* Nobody waits for the process of this download any longer than it takes to die.
LetGo(d) == d.at \in {"none", "ended"} \/ d.reaped \/ d.ctx = "cancelled"

OneTryAtATime ==
    \A p \in Try :
        /\ p[2] < tries[p[1]] => analysis[p].at \notin Early /\ dl[p].at \in {"none", "ended"}
        /\ p[2] > tries[p[1]] => analysis[p].at = "none" /\ dl[p].at = "none"

\* What the row of a job says of its current try.
RowBounds(j) ==
    /\ analysis[Cur(j)].at \in Early =>
           media[j].status \in {"analyzing", "cancelled"} /\ ~media[j].info /\ dl[Cur(j)].at = "none"
    /\ media[j].status \in {"analyzing", "queued"} => dl[Cur(j)].at = "none"
    /\ media[j].status \in {"completed", "failed"} => dl[Cur(j)].at \in {"none", "ended"}
    /\ media[j].status = "cancelled" => LetGo(dl[Cur(j)])
RowsBound == \A j \in MediaJob : RowBounds(j)

\* The engine's entry of a job is its current download, and it is there while the
\* row is active.
EntryIsCurrent(j) ==
    /\ downloads[j] # None =>
           downloads[j] = tries[j] /\ dl[Cur(j)].at # "none" /\ media[j].status \in Active
    /\ app \in {"up", "engines"} /\ media[j].status \in Active => downloads[j] # None
EntriesAreCurrent == \A j \in MediaJob : EntryIsCurrent(j)

\* The supervisor's entry of a job is the download between registration and reaping.
Held(d) == d.at \in {"record", "run"} /\ ~d.reaped
RegistryIsTrue ==
    /\ \A j \in MediaJob : procs[j] # None => procs[j] = tries[j] /\ Held(dl[Cur(j)])
    /\ \A p \in Try : Held(dl[p]) => procs[p[1]] = p[2]

CancellerHasLetGo ==
    /\ canceller.at # "none" => LetGo(dl[Cur(canceller.job)])
    /\ canceller.at = "waiting" /\ downloads[canceller.job] # None => dl[Cur(canceller.job)].known

StoppedIsEmpty == app = "stopped" => \A j \in MediaJob : procs[j] = None

ProcessInv == ProcTypes /\ SoundDownloads /\ OneTryAtATime /\ RowsBound /\ EntriesAreCurrent
              /\ RegistryIsTrue /\ CancellerHasLetGo /\ StoppedIsEmpty
------------------------------------------------------------------------------
\* A try is a job and a number, and the current try of a job is one.
LEMMA Tries ==
    /\ \A p \in Try : p = <<p[1], p[2]>> /\ p[1] \in MediaJob /\ p[2] \in 1 .. MaxTries
    /\ None \notin 1 .. MaxTries /\ \A n \in 1 .. MaxTries : n \in Ref
BY MediaAssumptions DEF Try, None, Ref

LEMMA CurrentIsATry ==
    ASSUME ProcTypes, NEW j \in MediaJob
    PROVE  Cur(j) \in Try /\ Cur(j)[1] = j /\ Cur(j)[2] = tries[j] /\ tries[j] # None
BY MediaAssumptions DEF ProcTypes, Cur, Try, None

\* A download that does anything, and an analysis that is not over, are of the
\* current try.
LEMMA WorksIsCurrent ==
    ASSUME ProcessInv, NEW p \in Try,
           dl[p].at \notin {"none", "ended"} \/ analysis[p].at \in Early
    PROVE  p = Cur(p[1])
<1>1. ~(p[2] < tries[p[1]]) /\ ~(p[2] > tries[p[1]])
    BY DEF ProcessInv, OneTryAtATime, Early
<1>2. p[2] \in Int /\ tries[p[1]] \in Int
    BY Tries DEF ProcessInv, ProcTypes
<1>3. QED
    BY <1>1, <1>2, Tries DEF Cur

\* What a step of a download that is under way may change in it.
Moves(d, e) ==
    /\ d.at = "none" <=> e.at = "none"
    /\ d.at = "ended" => e.at = "ended"
    /\ LetGo(d) => LetGo(e)
    /\ d.known => e.known

\* Such steps disturb nothing that is said of tries, rows, entries and the canceller.
LEMMA MovesKeepRows ==
    ASSUME ProcessInv, \A p \in Try : Moves(dl[p], dl'[p]),
           UNCHANGED <<media, tries, analysis, downloads, app, canceller>>
    PROVE  OneTryAtATime' /\ RowsBound' /\ EntriesAreCurrent' /\ CancellerHasLetGo'
<1> USE DEF ProcessInv
<1>1. \A j \in MediaJob : Cur(j)' = Cur(j) /\ Cur(j) \in Try
    BY CurrentIsATry DEF Cur
<1>2. \A j \in MediaJob : Moves(dl[Cur(j)], dl'[Cur(j)])
    BY <1>1
<1>3. OneTryAtATime'
    BY DEF OneTryAtATime, Moves
<1>4. RowsBound'
    BY <1>1, <1>2 DEF RowsBound, RowBounds, Moves
<1>5. EntriesAreCurrent'
    BY <1>1, <1>2 DEF EntriesAreCurrent, EntryIsCurrent, Moves
<1>6. canceller.job \in MediaJob
    BY DEF ProcTypes
<1>7. CancellerHasLetGo'
    BY <1>1, <1>2, <1>6 DEF CancellerHasLetGo, Moves
<1> QED BY <1>3, <1>4, <1>5, <1>7

\* One download changes and the others stay.
Changes(p) == dl' \in [Try -> DownloadState] /\ \A q \in Try \ {p} : dl'[q] = dl[q]

\* A step of one download.
LEMMA DownloadSteps ==
    ASSUME ProcessInv, NEW p \in Try, Changes(p), SoundDownload(dl'[p]), Moves(dl[p], dl'[p]), dlUnchanged,
           procs' \in [MediaJob -> Ref], RegistryIsTrue', StoppedIsEmpty'
    PROVE  ProcessInv'
<1> USE DEF ProcessInv
<1>1. \A q \in Try : q # p => dl'[q] = dl[q]
    BY DEF Changes
<1>2. SoundDownloads'
    BY <1>1 DEF SoundDownloads, SoundDownload
<1>3. \A q \in Try : Moves(dl[q], dl'[q])
    BY <1>1 DEF Moves, LetGo
<1>4. OneTryAtATime' /\ RowsBound' /\ EntriesAreCurrent' /\ CancellerHasLetGo'
    BY <1>3, MovesKeepRows DEF dlUnchanged
<1>5. ProcTypes'
    BY DEF ProcTypes, Changes, dlUnchanged, Try
<1> QED BY <1>2, <1>4, <1>5

\* A step of one download that neither takes nor gives back the id of its job.
LEMMA DownloadStepsUnregistered ==
    ASSUME ProcessInv, NEW p \in Try, Changes(p), SoundDownload(dl'[p]), Moves(dl[p], dl'[p]), dlUnchanged,
           UNCHANGED procs, Held(dl'[p]) <=> Held(dl[p])
    PROVE  ProcessInv'
<1> USE DEF ProcessInv
<1>1. \A q \in Try : Held(dl'[q]) <=> Held(dl[q])
    BY DEF Changes
<1>2. \A j \in MediaJob : Cur(j)' = Cur(j) /\ Cur(j) \in Try
    BY CurrentIsATry DEF Cur, dlUnchanged
<1>3. RegistryIsTrue'
    BY <1>1, <1>2 DEF RegistryIsTrue, dlUnchanged, Held
<1>4. StoppedIsEmpty' /\ procs' \in [MediaJob -> Ref]
    BY DEF StoppedIsEmpty, ProcTypes, dlUnchanged
<1> QED BY <1>3, <1>4, DownloadSteps

\* The record of one download is replaced.
LEMMA DownloadReplaced ==
    ASSUME ProcessInv, NEW p \in Try, NEW e \in DownloadState, dl' = [dl EXCEPT ![p] = e]
    PROVE  Changes(p) /\ dl'[p] = e
<1>1. dl \in [Try -> DownloadState]
    BY DEF ProcessInv, ProcTypes
<1> QED BY <1>1 DEF Changes

\* A process that is told to end keeps all of its record but the two fields.
LEMMA TerminatedFields ==
    ASSUME NEW d \in DownloadState
    PROVE  LET e == Terminated(d) IN
           /\ e \in DownloadState
           /\ e.at = d.at /\ e.ctx = d.ctx /\ e.known = d.known /\ e.reaped = d.reaped /\ e.result = d.result
           /\ d.os \in Dead => e.os = d.os
<1> DEFINE st == IF d.os = "alive" THEN "dying" ELSE d.os
           e == [d EXCEPT !.terminated = TRUE, !.os = st]
<1>1. Terminated(d) = e
    BY DEF Terminated
<1>2. st \in Dead \cup {"none", "alive", "dying"} /\ (d.os \in Dead => st = d.os)
    BY DEF DownloadState, Dead
<1> HIDE DEF st
<1>3. e \in DownloadState
    BY <1>2 DEF DownloadState
<1>4. /\ e.at = d.at /\ e.ctx = d.ctx /\ e.known = d.known /\ e.reaped = d.reaped /\ e.result = d.result
      /\ e.os = st
    BY DEF DownloadState
<1> HIDE DEF e
<1> QED BY <1>1, <1>2, <1>3, <1>4

\* A download that is stopped before its process has a record goes on to be reaped.
LEMMA ReapedUnrecorded ==
    ASSUME NEW d \in DownloadState, SoundDownload(d), d.at \in {"confirm", "register"}
    PROVE  LET e == [Terminated(d) EXCEPT !.at = "reap"] IN
           e \in DownloadState /\ SoundDownload(e) /\ Moves(d, e) /\ ~Held(e) /\ ~Held(d)
<1> DEFINE t == Terminated(d)
           e == [t EXCEPT !.at = "reap"]
<1>1. /\ t \in DownloadState /\ t.ctx = d.ctx /\ t.known = d.known /\ t.reaped = d.reaped /\ t.result = d.result
    BY TerminatedFields
<1> HIDE DEF t
<1>2. e \in DownloadState /\ e.at = "reap" /\ e.ctx = t.ctx /\ e.known = t.known /\ e.reaped = t.reaped /\ e.result = t.result
    BY <1>1 DEF DownloadState
<1> HIDE DEF e
<1>3. SoundDownload(e) /\ Moves(d, e) /\ ~Held(e) /\ ~Held(d)
    BY <1>1, <1>2 DEF SoundDownload, Moves, LetGo, Held
<1> QED BY <1>2, <1>3 DEF e, t

\* The steps of a download up to its end, in the order of StartOwned and runDownload.
LEMMA EnterKeeps ==
    ASSUME ProcessInv, NEW p \in Try, Enter(p)
    PROVE  ProcessInv'
<1> USE DEF ProcessInv
<1>1. dl[p] \in DownloadState /\ SoundDownload(dl[p]) /\ dl[p].at = "entry"
    BY DEF ProcTypes, SoundDownloads, Enter
<1>2. PICK label \in {"spawn", "ended"} :
          dl' = [dl EXCEPT ![p].at = label, ![p].result = IF label = "spawn" THEN @ ELSE "failed"]
    BY DEF Enter, Step, Fails
<1>3. Changes(p) /\ SoundDownload(dl'[p]) /\ Moves(dl[p], dl'[p]) /\ (Held(dl'[p]) <=> Held(dl[p]))
    BY <1>1, <1>2 DEF ProcTypes, Changes, SoundDownload, Moves, LetGo, Held, DownloadState, Starting, Dead, Over
<1> QED BY <1>3, DownloadStepsUnregistered DEF Enter

LEMMA SpawnKeeps ==
    ASSUME ProcessInv, NEW p \in Try, Spawn(p)
    PROVE  ProcessInv'
<1> USE DEF ProcessInv
<1>1. dl[p] \in DownloadState /\ SoundDownload(dl[p]) /\ dl[p].at = "spawn"
    BY DEF ProcTypes, SoundDownloads, Spawn
<1> DEFINE Kept == Changes(p) /\ SoundDownload(dl'[p]) /\ Moves(dl[p], dl'[p]) /\ (Held(dl'[p]) <=> Held(dl[p]))
<1>2. ASSUME dl' = [dl EXCEPT ![p].at = "attach", ![p].os = "alive"] PROVE Kept
    BY <1>1, <1>2 DEF ProcTypes, Changes, SoundDownload, Moves, LetGo, Held, DownloadState, Starting, Dead, Over
<1>3. ASSUME dl' = [dl EXCEPT ![p].at = "ended", ![p].result = "failed"]
      PROVE  Kept
    BY <1>1, <1>3 DEF ProcTypes, Changes, SoundDownload, Moves, LetGo, Held, DownloadState, Starting, Dead, Over
<1>4. Kept
    BY <1>2, <1>3 DEF Spawn, Fails
<1> QED BY <1>4, DownloadStepsUnregistered DEF Spawn

LEMMA AttachKeeps ==
    ASSUME ProcessInv, NEW p \in Try, Attach(p)
    PROVE  ProcessInv'
<1> USE DEF ProcessInv
<1>1. dl[p] \in DownloadState /\ SoundDownload(dl[p]) /\ dl[p].at = "attach"
    BY DEF ProcTypes, SoundDownloads, Attach
<1> DEFINE Kept == Changes(p) /\ SoundDownload(dl'[p]) /\ Moves(dl[p], dl'[p]) /\ (Held(dl'[p]) <=> Held(dl[p]))
<1>2. ASSUME dl' = [dl EXCEPT ![p].at = "confirm"] PROVE Kept
    BY <1>1, <1>2 DEF ProcTypes, Changes, SoundDownload, Moves, LetGo, Held, DownloadState, Starting, Dead, Over
<1>3. ASSUME dl' = [dl EXCEPT ![p].at = "ended", ![p].os = "killed", ![p].reaped = TRUE, ![p].result = "failed"]
      PROVE  Kept
    BY <1>1, <1>3 DEF ProcTypes, Changes, SoundDownload, Moves, LetGo, Held, DownloadState, Starting, Dead, Over
<1>4. Kept
    BY <1>2, <1>3 DEF Attach, Step
<1> QED BY <1>4, DownloadStepsUnregistered DEF Attach

LEMMA ConfirmKeeps ==
    ASSUME ProcessInv, NEW p \in Try, Confirm(p)
    PROVE  ProcessInv'
<1> USE DEF ProcessInv
<1>1. dl[p] \in DownloadState /\ SoundDownload(dl[p]) /\ dl[p].at = "confirm"
    BY DEF ProcTypes, SoundDownloads, Confirm
<1> DEFINE Kept == Changes(p) /\ SoundDownload(dl'[p]) /\ Moves(dl[p], dl'[p]) /\ (Held(dl'[p]) <=> Held(dl[p]))
<1>2. ASSUME dl' = [dl EXCEPT ![p] = [@ EXCEPT !.at = "register"]] PROVE Kept
    BY <1>1, <1>2 DEF ProcTypes, Changes, SoundDownload, Moves, LetGo, Held, DownloadState, Starting, Dead, Over, Terminated
<1>3. ASSUME dl' = [dl EXCEPT ![p] = [Terminated(@) EXCEPT !.at = "reap"]]
      PROVE  Kept
    <2> DEFINE d == dl[p]
               e == [Terminated(d) EXCEPT !.at = "reap"]
    <2>1. dl' = [dl EXCEPT ![p] = e]
        BY <1>3
    <2> HIDE DEF d
    <2>2. e \in DownloadState /\ SoundDownload(e) /\ Moves(d, e) /\ (Held(e) <=> Held(d))
        BY <1>1, ReapedUnrecorded DEF d
    <2> HIDE DEF e
    <2>3. Changes(p) /\ dl'[p] = e
        BY <2>1, <2>2, DownloadReplaced
    <2> QED BY <2>2, <2>3 DEF d
<1>4. Kept
    BY <1>2, <1>3 DEF Confirm
<1> QED BY <1>4, DownloadStepsUnregistered DEF Confirm

LEMMA RecordKeeps ==
    ASSUME ProcessInv, NEW p \in Try, RecordProcess(p)
    PROVE  ProcessInv'
<1> USE DEF ProcessInv
<1>1. dl[p] \in DownloadState /\ SoundDownload(dl[p]) /\ dl[p].at = "record"
    BY DEF ProcTypes, SoundDownloads, RecordProcess
<1>2. dl' = [dl EXCEPT ![p].at = "run", ![p].known = TRUE]
    BY DEF RecordProcess
<1>3. Changes(p) /\ SoundDownload(dl'[p]) /\ Moves(dl[p], dl'[p]) /\ (Held(dl'[p]) <=> Held(dl[p]))
    BY <1>1, <1>2 DEF ProcTypes, Changes, SoundDownload, Moves, LetGo, Held, DownloadState, Starting, Dead, Over
<1> QED BY <1>3, DownloadStepsUnregistered DEF RecordProcess

LEMMA WatchKeeps ==
    ASSUME ProcessInv, NEW p \in Try, Watch(p)
    PROVE  ProcessInv'
<1> USE DEF ProcessInv
<1>1. dl[p] \in DownloadState /\ SoundDownload(dl[p]) /\ dl[p].at \in {"record", "run"} /\ ~dl[p].reaped
    BY DEF ProcTypes, SoundDownloads, Watch
<1> DEFINE d == dl[p]
           e == Terminated(d)
<1>2. dl' = [dl EXCEPT ![p] = e]
    BY DEF Watch
<1> HIDE DEF d
<1>3. e \in DownloadState
    BY <1>1, TerminatedFields DEF d
<1>4. e.at = d.at /\ e.ctx = d.ctx /\ e.known = d.known /\ e.reaped = d.reaped /\ e.result = d.result
    BY <1>1, TerminatedFields DEF d
<1> HIDE DEF e
<1>5. SoundDownload(e) /\ Moves(d, e) /\ (Held(e) <=> Held(d))
    BY <1>1, <1>4 DEF d, SoundDownload, Moves, LetGo, Held
<1>6. Changes(p) /\ dl'[p] = e
    BY <1>2, <1>3, DownloadReplaced
<1> QED BY <1>5, <1>6, DownloadStepsUnregistered DEF d, Watch

LEMMA PostProcessKeeps ==
    ASSUME ProcessInv, NEW p \in Try, PostProcess(p)
    PROVE  ProcessInv'
<1> USE DEF ProcessInv
<1>1. dl[p] \in DownloadState /\ SoundDownload(dl[p]) /\ dl[p].at = "run"
    BY DEF ProcTypes, SoundDownloads, PostProcess
<1>2. dl' = [dl EXCEPT ![p].post = TRUE]
    BY DEF PostProcess
<1>3. Changes(p) /\ SoundDownload(dl'[p]) /\ Moves(dl[p], dl'[p]) /\ (Held(dl'[p]) <=> Held(dl[p]))
    BY <1>1, <1>2 DEF ProcTypes, Changes, SoundDownload, Moves, LetGo, Held, DownloadState, Starting, Dead, Over
<1> QED BY <1>3, DownloadStepsUnregistered DEF PostProcess

LEMMA FinishKeeps ==
    ASSUME ProcessInv, NEW p \in Try, Finish(p)
    PROVE  ProcessInv'
<1> USE DEF ProcessInv
<1>1. dl[p] \in DownloadState /\ SoundDownload(dl[p]) /\ dl[p].at \in {"run", "reap"} /\ dl[p].reaped
    BY DEF ProcTypes, SoundDownloads, Finish
<1>2. PICK r \in Over : dl' = [dl EXCEPT ![p].at = "ended", ![p].result = r]
    BY DEF Finish, Fails, Over
<1>3. Changes(p) /\ SoundDownload(dl'[p]) /\ Moves(dl[p], dl'[p]) /\ (Held(dl'[p]) <=> Held(dl[p]))
    BY <1>1, <1>2 DEF ProcTypes, Changes, SoundDownload, Moves, LetGo, Held, DownloadState, Starting, Dead, Over
<1> QED BY <1>3, DownloadStepsUnregistered DEF Finish

LEMMA ProcessDiesKeeps ==
    ASSUME ProcessInv, NEW p \in Try, ProcessDies(p)
    PROVE  ProcessInv'
<1> USE DEF ProcessInv
<1>1. dl[p] \in DownloadState /\ SoundDownload(dl[p]) /\ dl[p].os \in {"alive", "dying"}
    BY DEF ProcTypes, SoundDownloads, ProcessDies
<1>2. PICK how \in Dead : dl' = [dl EXCEPT ![p].os = how]
    BY DEF ProcessDies, Dead
<1> DEFINE d == dl[p]
           e == [d EXCEPT !.os = how]
<1>3. dl' = [dl EXCEPT ![p] = e]
    BY <1>2
<1> HIDE DEF d
<1>4. e \in DownloadState
    BY <1>1 DEF d, DownloadState
<1>5. e.at = d.at /\ e.ctx = d.ctx /\ e.known = d.known /\ e.reaped = d.reaped /\ e.result = d.result /\ e.os \in Dead
    BY <1>1 DEF d, DownloadState
<1> HIDE DEF e
<1>6. SoundDownload(e) /\ Moves(d, e) /\ (Held(e) <=> Held(d))
    BY <1>1, <1>5 DEF d, SoundDownload, Moves, LetGo, Held
<1>7. Changes(p) /\ dl'[p] = e
    BY <1>3, <1>4, DownloadReplaced
<1> QED BY <1>6, <1>7, DownloadStepsUnregistered DEF d, ProcessDies

\* The id of the job is taken: it was free, for the download that starts is the
\* current one and holds nothing yet.
LEMMA RegisterKeeps ==
    ASSUME ProcessInv, NEW p \in Try, RegisterProcess(p)
    PROVE  ProcessInv'
<1> USE DEF ProcessInv
<1>1. dl[p] \in DownloadState /\ SoundDownload(dl[p]) /\ dl[p].at = "register" /\ p = Cur(p[1])
    BY WorksIsCurrent DEF ProcTypes, SoundDownloads, RegisterProcess
<1>2. CASE closed
    <2>1. dl' = [dl EXCEPT ![p] = [Terminated(@) EXCEPT !.at = "reap"]] /\ UNCHANGED procs
        BY <1>2 DEF RegisterProcess
    <2>2. Changes(p) /\ SoundDownload(dl'[p]) /\ Moves(dl[p], dl'[p]) /\ (Held(dl'[p]) <=> Held(dl[p]))
        <3> DEFINE d == dl[p]
                   e == [Terminated(d) EXCEPT !.at = "reap"]
        <3>1. dl' = [dl EXCEPT ![p] = e]
            BY <2>1
        <3> HIDE DEF d
        <3>2. e \in DownloadState /\ SoundDownload(e) /\ Moves(d, e) /\ (Held(e) <=> Held(d))
            BY <1>1, ReapedUnrecorded DEF d
        <3> HIDE DEF e
        <3>3. Changes(p) /\ dl'[p] = e
            BY <3>1, <3>2, DownloadReplaced
        <3> QED BY <3>2, <3>3 DEF d
    <2>3. QED
        BY <2>1, <2>2, DownloadStepsUnregistered DEF RegisterProcess
<1>3. CASE ~closed
    <2>1. dl' = [dl EXCEPT ![p].at = "record"] /\ procs' = [procs EXCEPT ![p[1]] = p[2]]
        BY <1>3 DEF RegisterProcess, Step
    <2>2. Changes(p) /\ SoundDownload(dl'[p]) /\ Moves(dl[p], dl'[p]) /\ Held(dl'[p])
        BY <1>1, <2>1 DEF ProcTypes, Changes, SoundDownload, Moves, LetGo, Held, DownloadState, Starting, Dead, Over
    <2>3. procs' \in [MediaJob -> Ref] /\ \A j \in MediaJob : procs'[j] = IF j = p[1] THEN p[2] ELSE procs[j]
        BY <2>1, Tries DEF ProcTypes
    <2>4. \A j \in MediaJob : Cur(j)' = Cur(j) /\ Cur(j) \in Try /\ Cur(j)[1] = j
        BY CurrentIsATry DEF Cur, RegisterProcess, dlUnchanged
    <2>5. \A j \in MediaJob : procs'[j] # None => procs'[j] = tries[j] /\ Held(dl'[Cur(j)])
        BY <1>1, <2>2, <2>3, <2>4 DEF RegistryIsTrue, Changes, Cur
    <2>6. ASSUME NEW q \in Try, Held(dl'[q]) PROVE procs'[q[1]] = q[2]
        <3>1. CASE q = p
            BY <3>1, <2>3, Tries
        <3>2. CASE q # p
            <4>1. Held(dl[q])
                BY <2>2, <2>6, <3>2 DEF Changes
            <4>2. q = Cur(q[1])
                BY <4>1, WorksIsCurrent DEF Held
            <4>3. q[1] # p[1]
                BY <1>1, <3>2, <4>2
            <4>4. QED
                BY <2>3, <4>1, <4>3, Tries DEF RegistryIsTrue
        <3>3. QED
            BY <3>1, <3>2
    <2>7. RegistryIsTrue'
        BY <2>4, <2>5, <2>6 DEF RegistryIsTrue, Held, RegisterProcess, dlUnchanged
    <2>8. StoppedIsEmpty'
        BY DEF StoppedIsEmpty, RegisterProcess, dlUnchanged, Running
    <2>9. QED
        BY <2>2, <2>3, <2>7, <2>8, DownloadSteps DEF RegisterProcess
<1> QED BY <1>2, <1>3

\* The id of the job is given back.
LEMMA ReapKeeps ==
    ASSUME ProcessInv, NEW p \in Try, Reap(p)
    PROVE  ProcessInv'
<1> USE DEF ProcessInv
<1>1. dl[p] \in DownloadState /\ SoundDownload(dl[p]) /\ dl[p].os \in Dead /\ ~dl[p].reaped
    BY DEF ProcTypes, SoundDownloads, Reap, Dead
<1>2. dl' = [dl EXCEPT ![p].reaped = TRUE] /\ procs' = [procs EXCEPT ![p[1]] = None]
    BY DEF Reap
<1>3. dl[p].at \in {"run", "reap", "ended"} /\ p = Cur(p[1])
    <2>1. CASE dl[p].at \in {"run", "reap"}
        BY <2>1, WorksIsCurrent
    <2>2. CASE canceller.at = "waiting" /\ p = <<canceller.job, downloads[canceller.job]>>
        <3>1. canceller.job \in MediaJob
            BY DEF ProcTypes
        <3>2. downloads[canceller.job] # None
            BY <2>2, <3>1, Tries
        <3>3. downloads[canceller.job] = tries[canceller.job] /\ dl[Cur(canceller.job)].known
            BY <2>2, <3>1, <3>2 DEF EntriesAreCurrent, EntryIsCurrent, CancellerHasLetGo
        <3>4. p = Cur(canceller.job) /\ p[1] = canceller.job
            BY <2>2, <3>3, Tries DEF Cur
        <3>5. QED
            BY <1>1, <3>3, <3>4 DEF SoundDownload
    <2>3. QED
        BY <2>1, <2>2 DEF Reap
<1>4. Changes(p) /\ SoundDownload(dl'[p]) /\ Moves(dl[p], dl'[p]) /\ ~Held(dl'[p])
    BY <1>1, <1>2, <1>3 DEF ProcTypes, Changes, SoundDownload, Moves, LetGo, Held, DownloadState, Starting, Dead, Over
<1>5. procs' \in [MediaJob -> Ref] /\ \A j \in MediaJob : procs'[j] = IF j = p[1] THEN None ELSE procs[j]
    <2>1. None \in Ref
        BY MediaAssumptions DEF Ref, None
    <2>2. QED
        BY <1>2, <2>1 DEF ProcTypes
<1>6. \A j \in MediaJob : Cur(j)' = Cur(j) /\ Cur(j) \in Try /\ Cur(j)[1] = j
    BY CurrentIsATry DEF Cur, Reap, dlUnchanged
<1>7. \A j \in MediaJob : procs'[j] # None => procs'[j] = tries[j] /\ Held(dl'[Cur(j)])
    BY <1>3, <1>4, <1>5, <1>6 DEF RegistryIsTrue, Changes
<1>8. ASSUME NEW q \in Try, Held(dl'[q]) PROVE procs'[q[1]] = q[2]
    <2>1. q # p /\ Held(dl[q])
        BY <1>4, <1>8 DEF Changes
    <2>2. q = Cur(q[1])
        BY <2>1, WorksIsCurrent DEF Held
    <2>3. q[1] # p[1]
        BY <1>3, <2>1, <2>2
    <2>4. QED
        BY <1>5, <2>1, <2>3, Tries DEF RegistryIsTrue
<1>9. RegistryIsTrue'
    BY <1>6, <1>7, <1>8 DEF RegistryIsTrue, Held, Reap, dlUnchanged
<1>10. StoppedIsEmpty'
    BY <1>5 DEF StoppedIsEmpty, Reap, dlUnchanged
<1> QED BY <1>4, <1>5, <1>9, <1>10, DownloadSteps DEF Reap
------------------------------------------------------------------------------
\* What is said of a job holds as long as nothing of its current try changes.
LEMMA OtherJobs ==
    ASSUME ProcessInv, NEW i \in MediaJob, media'[i] = media[i], tries'[i] = tries[i],
           downloads'[i] = downloads[i], dl'[Cur(i)] = dl[Cur(i)], analysis'[Cur(i)].at = analysis[Cur(i)].at,
           UNCHANGED app
    PROVE  RowBounds(i)' /\ EntryIsCurrent(i)'
<1>1. Cur(i)' = Cur(i)
    BY DEF Cur
<1>2. RowBounds(i)'
    BY <1>1 DEF ProcessInv, RowsBound, RowBounds
<1>3. EntryIsCurrent(i)'
    BY <1>1 DEF ProcessInv, EntriesAreCurrent, EntryIsCurrent
<1> QED BY <1>2, <1>3

\* A step of one analysis.
LEMMA AnalysisSteps ==
    ASSUME ProcessInv, NEW a \in Try, analysis[a].at # "none", analysisUnchanged,
           analysis' \in [Try -> AnalysisState], \A b \in Try \ {a} : analysis'[b] = analysis[b],
           analysis'[a].at \in Early => analysis[a].at \in Early,
           cancelOf' \in [MediaJob -> Ref],
           media' \in [MediaJob -> [status : Status, info : BOOLEAN]],
           \A j \in MediaJob \ {a[1]} : media'[j] = media[j],
           RowBounds(a[1])', EntryIsCurrent(a[1])'
    PROVE  ProcessInv'
<1> USE DEF ProcessInv
<1>1. \A j \in MediaJob : Cur(j)' = Cur(j) /\ Cur(j) \in Try /\ Cur(j)[1] = j
    BY CurrentIsATry DEF Cur, analysisUnchanged
<1>2. ProcTypes'
    BY DEF ProcTypes, analysisUnchanged
<1>3. SoundDownloads' /\ RegistryIsTrue' /\ StoppedIsEmpty'
    BY <1>1 DEF SoundDownloads, SoundDownload, RegistryIsTrue, Held, StoppedIsEmpty, analysisUnchanged
<1>4. OneTryAtATime'
    <2>1. \A b \in Try : /\ analysis'[b].at \in Early => analysis[b].at \in Early
                         /\ analysis[b].at = "none" => analysis'[b].at = "none"
        OBVIOUS
    <2>2. QED
        BY <2>1 DEF OneTryAtATime, analysisUnchanged
<1>5. ASSUME NEW i \in MediaJob PROVE RowBounds(i)' /\ EntryIsCurrent(i)'
    <2>1. CASE i = a[1]
        BY <2>1
    <2>2. CASE i # a[1]
        <3>1. Cur(i) # a
            BY <1>1, <2>2
        <3>2. QED
            BY <1>1, <2>2, <3>1, OtherJobs DEF analysisUnchanged
    <2>3. QED
        BY <2>1, <2>2
<1>6. CancellerHasLetGo'
    <2>1. canceller.job \in MediaJob
        BY DEF ProcTypes
    <2>2. QED
        BY <1>1, <2>1 DEF CancellerHasLetGo, LetGo, analysisUnchanged
<1> QED BY <1>2, <1>3, <1>4, <1>5, <1>6 DEF RowsBound, EntriesAreCurrent

\* A step of one analysis that leaves the row as it is.
LEMMA AnalysisStepsAlone ==
    ASSUME ProcessInv, NEW a \in Try, analysis[a].at # "none", analysisUnchanged, UNCHANGED media,
           NEW b \in AnalysisState, analysis' = [analysis EXCEPT ![a] = b],
           b.at \in Early => analysis[a].at \in Early,
           cancelOf' \in [MediaJob -> Ref]
    PROVE  ProcessInv'
<1> USE DEF ProcessInv
<1>1. /\ analysis' \in [Try -> AnalysisState] /\ analysis'[a] = b
      /\ \A c \in Try \ {a} : analysis'[c] = analysis[c]
    BY DEF ProcTypes
<1> DEFINE j == a[1]
<1>2. j \in MediaJob /\ Cur(j)' = Cur(j) /\ Cur(j) \in Try
    BY Tries, CurrentIsATry DEF Cur, analysisUnchanged
<1>3. analysis'[Cur(j)].at \in Early => analysis[Cur(j)].at \in Early
    BY <1>1, <1>2
<1>4. RowBounds(j)
    BY <1>2 DEF RowsBound
<1>5. RowBounds(j)'
    BY <1>2, <1>3, <1>4 DEF RowBounds, analysisUnchanged, LetGo
<1>6. EntryIsCurrent(j)'
    BY <1>2 DEF EntriesAreCurrent, EntryIsCurrent, analysisUnchanged
<1>7. media' \in [MediaJob -> [status : Status, info : BOOLEAN]]
    BY DEF ProcTypes
<1> QED BY <1>1, <1>5, <1>6, <1>7, AnalysisSteps

\* What the analysis of a try writes into the row is written before the try has a
\* download.
LEMMA AnalysisWrites ==
    ASSUME ProcessInv, NEW a \in Try, analysis[a].at \in Early, analysisUnchanged, UNCHANGED cancelOf,
           analysis' = [analysis EXCEPT ![a].at = "leaving"],
           NEW row \in [status : {"analyzing", "failed", "cancelled"}, info : BOOLEAN],
           media' = [media EXCEPT ![a[1]] = row]
    PROVE  ProcessInv'
<1> USE DEF ProcessInv
<1> DEFINE j == a[1]
<1>1. j \in MediaJob /\ a = Cur(j) /\ Cur(j)' = Cur(j) /\ Cur(j) \in Try
    BY Tries, CurrentIsATry, WorksIsCurrent DEF Cur, analysisUnchanged
<1>2. /\ analysis' \in [Try -> AnalysisState] /\ analysis'[a].at = "leaving"
      /\ \A c \in Try \ {a} : analysis'[c] = analysis[c]
    <2> DEFINE left == [analysis[a] EXCEPT !.at = "leaving"]
    <2>1. analysis \in [Try -> AnalysisState] /\ analysis[a] \in AnalysisState
        BY DEF ProcTypes
    <2>2. left \in AnalysisState /\ left.at = "leaving"
        BY <2>1 DEF AnalysisState
    <2>3. analysis' = [analysis EXCEPT ![a] = left]
        OBVIOUS
    <2> HIDE DEF left
    <2> QED BY <2>1, <2>2, <2>3
<1>3. /\ media' \in [MediaJob -> [status : Status, info : BOOLEAN]] /\ media'[j] = row
      /\ \A i \in MediaJob \ {j} : media'[i] = media[i]
    BY <1>1 DEF ProcTypes, Status, Cancellable, Active, Over
<1>4. dl[Cur(j)].at = "none" /\ downloads[j] = None
    BY <1>1 DEF RowsBound, RowBounds, EntriesAreCurrent, EntryIsCurrent
<1>5. row.status \in {"analyzing", "failed", "cancelled"}
    OBVIOUS
<1>6. RowBounds(j)'
    BY <1>1, <1>2, <1>3, <1>4 DEF RowBounds, LetGo, Early, analysisUnchanged
<1>7. EntryIsCurrent(j)'
    BY <1>1, <1>3, <1>4, <1>5 DEF EntryIsCurrent, Active, analysisUnchanged
<1>8. cancelOf' \in [MediaJob -> Ref] /\ analysis[a].at # "none"
    BY DEF ProcTypes, Early
<1> QED BY <1>2, <1>3, <1>6, <1>7, <1>8, AnalysisSteps

\* The analysis goroutine.
LEMMA AnalysisKeeps ==
    ASSUME ProcessInv, NEW a \in Try, AnalysisStep(a)
    PROVE  ProcessInv'
<1> USE DEF ProcessInv
<1>1. analysis[a] \in AnalysisState /\ a[1] \in MediaJob /\ a[2] \in Ref /\ None \in Ref
    BY Tries, MediaAssumptions DEF ProcTypes, Ref, None
<1>2. CASE Register(a)
    <2> DEFINE b == [analysis[a] EXCEPT !.at = "running",
                         !.copy = IF media[a[1]].status = "cancelled" THEN "cancelled" ELSE "analyzing"]
    <2>1. b \in AnalysisState /\ b.at = "running" /\ analysis[a].at = "new"
        BY <1>1, <1>2 DEF AnalysisState, Early, Register
    <2>2. analysis' = [analysis EXCEPT ![a] = b] /\ cancelOf' \in [MediaJob -> Ref]
        BY <1>1, <1>2 DEF Register, ProcTypes
    <2> HIDE DEF b
    <2>3. QED
        BY <1>2, <2>1, <2>2, AnalysisStepsAlone DEF Register, Early
<1>3. ASSUME NEW label \in {"leaving", "verify", "commit", "gone"}, analysis' = [analysis EXCEPT ![a].at = label],
             analysis[a].at # "none", label \in Early => analysis[a].at \in Early,
             analysisUnchanged, UNCHANGED media, cancelOf' \in [MediaJob -> Ref]
      PROVE  ProcessInv'
    <2> DEFINE b == [analysis[a] EXCEPT !.at = label]
    <2>1. b \in AnalysisState /\ b.at = label /\ analysis' = [analysis EXCEPT ![a] = b]
        BY <1>1, <1>3 DEF AnalysisState, Early
    <2> HIDE DEF b
    <2>2. QED
        BY <1>3, <2>1, AnalysisStepsAlone
<1>4. CASE Analyzed(a)
    <2>1. analysis[a].at = "running" /\ UNCHANGED cancelOf /\ analysisUnchanged /\ cancelOf' \in [MediaJob -> Ref]
        BY <1>4 DEF Analyzed, ProcTypes
    <2>2. CASE analysis' = [analysis EXCEPT ![a].at = "leaving"] /\ SetStatus(a[1], "failed")
        <3> DEFINE row == [media[a[1]] EXCEPT !.status = "failed"]
        <3>1. row \in [status : {"analyzing", "failed", "cancelled"}, info : BOOLEAN]
            BY <1>1 DEF ProcTypes
        <3>2. media' = [media EXCEPT ![a[1]] = row]
            BY <2>2 DEF SetStatus
        <3> HIDE DEF row
        <3>3. QED
            BY <2>1, <2>2, <3>1, <3>2, AnalysisWrites DEF Early
    <2>3. CASE UNCHANGED media /\ \E label \in {"leaving", "verify"} : analysis' = [analysis EXCEPT ![a].at = label]
        BY <2>1, <2>3, <1>3 DEF Early
    <2>4. QED
        BY <1>4, <2>2, <2>3 DEF Analyzed
<1>5. CASE Verify(a)
    <2>1. analysis[a].at = "verify" /\ UNCHANGED <<media, cancelOf>> /\ analysisUnchanged /\ cancelOf' \in [MediaJob -> Ref]
        BY <1>5 DEF Verify, ProcTypes
    <2>2. \E label \in {"leaving", "commit"} : analysis' = [analysis EXCEPT ![a].at = label]
        BY <1>5 DEF Verify
    <2>3. QED
        BY <2>1, <2>2, <1>3 DEF Early
<1>6. CASE Commit(a)
    <2>1. /\ analysis[a].at = "commit" /\ UNCHANGED cancelOf /\ analysisUnchanged /\ cancelOf' \in [MediaJob -> Ref]
          /\ analysis' = [analysis EXCEPT ![a].at = "leaving"]
        BY <1>6 DEF Commit, ProcTypes
    <2>2. CASE UNCHANGED media
        BY <2>1, <2>2, <1>3 DEF Early
    <2>3. CASE media' = [media EXCEPT ![a[1]] = [status |-> analysis[a].copy, info |-> TRUE]]
        <3>1. [status |-> analysis[a].copy, info |-> TRUE] \in [status : {"analyzing", "failed", "cancelled"}, info : BOOLEAN]
            BY <1>1 DEF AnalysisState
        <3>2. QED
            BY <2>1, <2>3, <3>1, AnalysisWrites DEF Early
    <2>4. QED
        BY <1>6, <2>2, <2>3 DEF Commit
<1>7. CASE Leave(a)
    <2>1. cancelOf' \in [MediaJob -> Ref]
        BY <1>1, <1>7 DEF Leave, ProcTypes
    <2>2. QED
        BY <1>7, <2>1, <1>3 DEF Leave, Early
<1> QED BY <1>2, <1>4, <1>5, <1>6, <1>7 DEF AnalysisStep
------------------------------------------------------------------------------
\* A step that writes one row and the engine's entry of its job.
LEMMA RowSteps ==
    ASSUME ProcessInv, NEW j \in MediaJob, UNCHANGED <<tries, analysis, cancelOf, dl, procs, closed, app>>,
           NEW s \in Status, SetStatus(j, s),
           downloads' \in [MediaJob -> Ref], \A i \in MediaJob \ {j} : downloads'[i] = downloads[i],
           canceller' \in [at : {"none", "waiting", "trigger", "write"}, job : MediaJob],
           RowBounds(j)', EntryIsCurrent(j)', CancellerHasLetGo'
    PROVE  ProcessInv'
<1> USE DEF ProcessInv
<1>1. /\ media' \in [MediaJob -> [status : Status, info : BOOLEAN]]
      /\ \A i \in MediaJob \ {j} : media'[i] = media[i]
    BY DEF SetStatus, ProcTypes
<1>2. ProcTypes'
    BY <1>1 DEF ProcTypes
<1>3. SoundDownloads' /\ OneTryAtATime' /\ RegistryIsTrue' /\ StoppedIsEmpty'
    BY DEF SoundDownloads, SoundDownload, OneTryAtATime, RegistryIsTrue, Held, Cur, StoppedIsEmpty
<1>4. ASSUME NEW i \in MediaJob PROVE RowBounds(i)' /\ EntryIsCurrent(i)'
    BY <1>1, OtherJobs
<1> QED BY <1>2, <1>3, <1>4 DEF RowsBound, EntriesAreCurrent

\* What is known of a job and its current try, with the row as a step leaves it.
LEMMA RowFacts ==
    ASSUME ProcessInv, NEW j \in MediaJob
    PROVE  /\ Cur(j) \in Try /\ RowBounds(j) /\ EntryIsCurrent(j) /\ None \in Ref /\ tries[j] \in Ref
           /\ SoundDownload(dl[Cur(j)]) /\ dl[Cur(j)] \in DownloadState
           /\ \A s : SetStatus(j, s) => media'[j] = [media[j] EXCEPT !.status = s]
           /\ media[j] \in [status : Status, info : BOOLEAN]
           /\ canceller \in [at : {"none", "waiting", "trigger", "write"}, job : MediaJob]
BY CurrentIsATry, Tries, MediaAssumptions
   DEF ProcessInv, ProcTypes, RowsBound, EntriesAreCurrent, SoundDownloads, SetStatus, Ref, None

LEMMA SelectFormatKeeps ==
    ASSUME ProcessInv, NEW j \in MediaJob, SelectFormat(j)
    PROVE  ProcessInv'
<1> USE DEF ProcessInv
<1>1. UNCHANGED <<tries, analysis, cancelOf, dl, procs, closed, app, canceller, downloads>> /\ SetStatus(j, "queued")
    BY DEF SelectFormat
<1>2. "queued" \in Status
    BY DEF Status, Cancellable
<1>3. media'[j] = [media[j] EXCEPT !.status = "queued"] /\ Cur(j)' = Cur(j)
    BY <1>1, RowFacts DEF Cur
<1>4. RowBounds(j)' /\ EntryIsCurrent(j)'
    BY <1>1, <1>3, RowFacts DEF RowBounds, EntryIsCurrent, Active, SelectFormat
<1>5. CancellerHasLetGo'
    BY <1>1 DEF SelectFormat, CancellerHasLetGo
<1>6. downloads' \in [MediaJob -> Ref] /\ canceller' \in [at : {"none", "waiting", "trigger", "write"}, job : MediaJob]
    BY <1>1 DEF ProcTypes
<1> QED BY <1>1, <1>2, <1>4, <1>5, <1>6, RowSteps

\* The monitor ends a job only on a result, and a download with a result has ended.
LEMMA PollKeeps ==
    ASSUME ProcessInv, NEW j \in MediaJob, Poll(j)
    PROVE  ProcessInv'
<1> USE DEF ProcessInv
<1> DEFINE status == Reported(Cur(j))
<1>1. /\ app = "up" /\ media[j].status \in Active /\ downloads[j] = tries[j] /\ downloads[j] # None
      /\ dl[Cur(j)].at # "none" /\ media[j].status \notin {"analyzing", "queued", "completed", "failed", "cancelled"}
    BY RowFacts DEF Poll, EntryIsCurrent, Active
<1>2. UNCHANGED <<tries, analysis, cancelOf, dl, procs, closed, app, canceller>> /\ Cur(j)' = Cur(j)
    BY DEF Poll, Cur
<1>3. SetStatus(j, status) /\ downloads' = [downloads EXCEPT ![j] = IF status \in Active THEN @ ELSE None]
    BY <1>1 DEF Poll, Cur
<1>4. status \in Active \cup Over /\ (status \in Over => dl[Cur(j)].at = "ended")
    BY RowFacts DEF Reported, Active, Over, SoundDownload, DownloadState
<1>5. status \in Status /\ status \notin {"analyzing", "queued"}
    BY <1>4 DEF Status, Cancellable, Active, Over
<1> HIDE DEF status
<1>6. /\ downloads' \in [MediaJob -> Ref] /\ \A i \in MediaJob \ {j} : downloads'[i] = downloads[i]
      /\ downloads'[j] = IF status \in Active THEN downloads[j] ELSE None
    BY <1>3, RowFacts DEF ProcTypes
<1>7. media'[j].status = status
    <2>1. media'[j] = [media[j] EXCEPT !.status = status]
        BY <1>3, RowFacts
    <2>2. QED
        BY <2>1, RowFacts
<1>8. RowBounds(j)'
    BY <1>1, <1>2, <1>4, <1>5, <1>7, RowFacts DEF RowBounds, Active, Over, LetGo
<1>9. EntryIsCurrent(j)'
    BY <1>1, <1>2, <1>6, <1>7 DEF EntryIsCurrent
<1>10. CancellerHasLetGo'
    BY <1>2, <1>6, RowFacts DEF CancellerHasLetGo, LetGo, Cur
<1>11. canceller' \in [at : {"none", "waiting", "trigger", "write"}, job : MediaJob]
    BY <1>2 DEF ProcTypes
<1> QED BY <1>2, <1>3, <1>5, <1>6, <1>8, <1>9, <1>10, <1>11, RowSteps

\* Cancel writes after it has let go.
LEMMA CancelWritesKeeps ==
    ASSUME ProcessInv, CancelWrites
    PROVE  ProcessInv'
<1> USE DEF ProcessInv
<1> DEFINE j == canceller.job
<1>1. j \in MediaJob
    BY DEF ProcTypes
<1>2. /\ UNCHANGED <<tries, analysis, cancelOf, dl, procs, closed, app>> /\ Cur(j)' = <<j, tries[j]>>'
      /\ SetStatus(j, "cancelled") /\ downloads' = [downloads EXCEPT ![j] = None]
      /\ canceller' = NoCancel /\ canceller.at = "write"
    BY DEF CancelWrites, Cur
<1>3. "cancelled" \in Status
    BY DEF Status, Over
<1>4. PICK i \in MediaJob : i = j
    BY <1>1
<1> HIDE DEF j
<1>5. media'[i] = [media[i] EXCEPT !.status = "cancelled"] /\ Cur(i)' = Cur(i)
    BY <1>2, <1>4, RowFacts DEF Cur
<1>6. LetGo(dl[Cur(i)])
    BY <1>2, <1>4 DEF CancellerHasLetGo, j
<1>7. /\ downloads' \in [MediaJob -> Ref] /\ downloads'[i] = None
      /\ \A k \in MediaJob \ {i} : downloads'[k] = downloads[k]
    BY <1>2, <1>4, RowFacts DEF ProcTypes
<1>8. RowBounds(i)' /\ EntryIsCurrent(i)'
    BY <1>2, <1>5, <1>6, <1>7, RowFacts DEF RowBounds, EntryIsCurrent, Active, LetGo
<1>9. canceller' \in [at : {"none", "waiting", "trigger", "write"}, job : MediaJob] /\ CancellerHasLetGo'
    BY <1>2, <1>1 DEF NoCancel, CancellerHasLetGo
<1> QED BY <1>2, <1>3, <1>4, <1>7, <1>8, <1>9, RowSteps

\* A queued job is dispatched: its try has no download yet.
LEMMA DispatchKeeps ==
    ASSUME ProcessInv, NEW j \in MediaJob, Dispatch(j)
    PROVE  ProcessInv'
<1> USE DEF ProcessInv
<1> DEFINE p == Cur(j)
<1>1. p \in Try /\ dl[p].at = "none" /\ dl[p] \in DownloadState /\ SoundDownload(dl[p])
    BY RowFacts DEF Dispatch, RowBounds
<1>2. /\ UNCHANGED <<tries, analysis, cancelOf, procs, closed, app, canceller>>
      /\ SetStatus(j, "downloading") /\ downloads' = [downloads EXCEPT ![j] = tries[j]]
      /\ dl' = [dl EXCEPT ![p].at = "entry"] /\ app = "up"
      /\ ~(canceller.at # "none" /\ canceller.job = j)
    BY DEF Dispatch, Cur
<1>3. /\ dl' \in [Try -> DownloadState] /\ dl'[p].at = "entry" /\ SoundDownload(dl'[p]) /\ ~Held(dl'[p]) /\ ~Held(dl[p])
      /\ \A q \in Try \ {p} : dl'[q] = dl[q]
    BY <1>1, <1>2 DEF ProcTypes, DownloadState, Starting, SoundDownload, Held
<1>4. \A i \in MediaJob : Cur(i)' = Cur(i) /\ Cur(i) \in Try /\ (i # j => Cur(i) # p) /\ tries[i] \in 1 .. MaxTries
    BY <1>2, CurrentIsATry DEF Cur, ProcTypes
<1> HIDE DEF p
<1>5. /\ media' \in [MediaJob -> [status : Status, info : BOOLEAN]] /\ media'[j].status = "downloading"
      /\ \A i \in MediaJob \ {j} : media'[i] = media[i]
    BY <1>2 DEF SetStatus, ProcTypes, Status, Cancellable, Active
<1>6. /\ downloads' \in [MediaJob -> Ref] /\ downloads'[j] = tries[j] /\ tries[j] # None
      /\ \A i \in MediaJob \ {j} : downloads'[i] = downloads[i]
    BY <1>2, Tries, RowFacts, CurrentIsATry DEF ProcTypes
<1>7. ProcTypes'
    BY <1>2, <1>3, <1>5, <1>6 DEF ProcTypes
<1>8. SoundDownloads'
    BY <1>3 DEF SoundDownloads, SoundDownload
<1>9. OneTryAtATime'
    <2>1. p[1] = j /\ p[2] = tries[j] /\ tries[j] \in Int
        BY CurrentIsATry DEF ProcTypes, p
    <2>2. ASSUME NEW q \in Try
          PROVE  /\ q[2] < tries[q[1]] => analysis[q].at \notin Early /\ dl'[q].at \in {"none", "ended"}
                 /\ q[2] > tries[q[1]] => analysis[q].at = "none" /\ dl'[q].at = "none"
        <3>1. CASE q = p
            BY <2>1, <3>1
        <3>2. CASE q # p
            BY <1>3, <3>2 DEF OneTryAtATime
        <3>3. QED
            BY <3>1, <3>2
    <2>3. QED
        BY <1>2, <2>2 DEF OneTryAtATime
<1>10. ASSUME NEW i \in MediaJob, i # j PROVE RowBounds(i)' /\ EntryIsCurrent(i)'
    BY <1>2, <1>3, <1>4, <1>5, <1>6, <1>10, OtherJobs
<1>11. RowBounds(j)'
    <2>1. Cur(j)' = p
        BY <1>4 DEF p
    <2>2. analysis[p].at \notin Early
        BY RowFacts DEF RowBounds, Dispatch, p
    <2>3. QED
        BY <1>2, <1>5, <2>1, <2>2 DEF RowBounds
<1>12. EntryIsCurrent(j)'
    BY <1>2, <1>3, <1>4, <1>5, <1>6 DEF EntryIsCurrent, Active, p
<1>13. RegistryIsTrue'
    <2>1. \A q \in Try : Held(dl'[q]) <=> Held(dl[q])
        BY <1>3
    <2>2. QED
        BY <1>2, <1>4, <2>1 DEF RegistryIsTrue, Held
<1>14. CancellerHasLetGo' /\ StoppedIsEmpty'
    <2>1. canceller.job \in MediaJob
        BY DEF ProcTypes
    <2>2. QED
        BY <1>2, <1>3, <1>4, <1>6, <2>1 DEF CancellerHasLetGo, LetGo, StoppedIsEmpty
<1> QED BY <1>7, <1>8, <1>9, <1>10, <1>11, <1>12, <1>13, <1>14 DEF RowsBound, EntriesAreCurrent

\* A failed job tries again: everything of the tries before is over.
LEMMA RetryKeeps ==
    ASSUME ProcessInv, NEW j \in MediaJob, Retry(j)
    PROVE  ProcessInv'
<1> USE DEF ProcessInv
<1> DEFINE n == tries[j] + 1
           p == <<j, n>>
<1>1. tries[j] \in 1 .. MaxTries /\ n \in 1 .. MaxTries /\ p \in Try /\ p[1] = j /\ p[2] = n /\ n > tries[j]
    BY MediaAssumptions DEF Retry, ProcTypes, Try
<1>2. /\ UNCHANGED <<cancelOf, downloads, dl, procs, closed, app, canceller>> /\ app = "up" /\ canceller.at = "none"
      /\ media[j].status = "failed"
      /\ media' = [media EXCEPT ![j] = [status |-> "analyzing", info |-> FALSE]]
      /\ tries' = [tries EXCEPT ![j] = n] /\ analysis' = [analysis EXCEPT ![p].at = "new"]
    BY DEF Retry
<1>3. dl[p].at = "none" /\ dl[Cur(j)].at \in {"none", "ended"} /\ analysis[Cur(j)].at \notin Early
      /\ downloads[j] = None
    BY <1>1, <1>2, RowFacts DEF OneTryAtATime, RowBounds, EntryIsCurrent, Active
<1>4. /\ media' \in [MediaJob -> [status : Status, info : BOOLEAN]]
      /\ media'[j] = [status |-> "analyzing", info |-> FALSE]
      /\ \A i \in MediaJob \ {j} : media'[i] = media[i]
    BY <1>2 DEF ProcTypes, Status, Cancellable
<1>5. tries' \in [MediaJob -> 1 .. MaxTries] /\ \A i \in MediaJob : tries'[i] = IF i = j THEN n ELSE tries[i]
    BY <1>1, <1>2 DEF ProcTypes
<1>6. /\ analysis' \in [Try -> AnalysisState] /\ analysis'[p].at = "new"
      /\ \A q \in Try \ {p} : analysis'[q] = analysis[q]
    <2> DEFINE new == [analysis[p] EXCEPT !.at = "new"]
    <2>1. p \in Try /\ analysis \in [Try -> AnalysisState] /\ analysis[p] \in AnalysisState
        BY <1>1 DEF ProcTypes
    <2>2. new \in AnalysisState /\ new.at = "new"
        BY <2>1 DEF AnalysisState, Early
    <2>3. analysis' = [analysis EXCEPT ![p] = new]
        BY <1>2
    <2> HIDE DEF new, p
    <2> QED BY <2>1, <2>2, <2>3
<1>7. ProcTypes'
    BY <1>2, <1>4, <1>5, <1>6 DEF ProcTypes
<1>8. SoundDownloads' /\ StoppedIsEmpty'
    BY <1>2 DEF SoundDownloads, SoundDownload, StoppedIsEmpty
<1> HIDE DEF p, n
<1>9. \A q \in Try : q[1] \in MediaJob /\ q[2] \in Int /\ tries[q[1]] \in Int
    BY Tries DEF ProcTypes
<1>10. ASSUME NEW q \in Try
       PROVE  /\ q[2] < tries'[q[1]] => analysis'[q].at \notin Early /\ dl[q].at \in {"none", "ended"}
              /\ q[2] > tries'[q[1]] => analysis'[q].at = "none" /\ dl[q].at = "none"
    <2>1. CASE q[1] # j
        BY <1>1, <1>5, <1>6, <1>9, <2>1 DEF OneTryAtATime
    <2>2. CASE q = p
        BY <1>1, <1>5, <2>2, <1>9
    <2>3. CASE q[1] = j /\ q # p
        <3>1. q[2] # n /\ analysis'[q] = analysis[q] /\ tries'[q[1]] = n
            BY <1>5, <1>6, <2>3, Tries DEF p
        <3>2. CASE q[2] = tries[j]
            <4>1. q = Cur(j)
                BY <2>3, <3>2, Tries DEF Cur
            <4>2. ~(q[2] > n)
                BY <1>1, <3>2
            <4>3. QED
                BY <3>1, <4>1, <4>2, <1>3
        <3>3. CASE q[2] < tries[j]
            <4>1. ~(q[2] > n)
                BY <1>1, <1>9, <3>3
            <4>2. QED
                BY <2>3, <3>1, <3>3, <4>1 DEF OneTryAtATime
        <3>4. CASE q[2] > tries[j]
            <4>1. analysis[q].at = "none" /\ dl[q].at = "none"
                BY <2>3, <3>4 DEF OneTryAtATime
            <4>2. QED
                BY <3>1, <4>1 DEF Early
        <3>5. QED
            BY <3>2, <3>3, <3>4, <1>9, <2>3
    <2>4. QED
        BY <2>1, <2>2, <2>3
<1>11. OneTryAtATime'
    BY <1>2, <1>10 DEF OneTryAtATime
<1>12. \A i \in MediaJob : i # j => Cur(i)' = Cur(i) /\ Cur(i) \in Try /\ Cur(i) # p
    BY <1>5, CurrentIsATry DEF Cur, p
<1>13. Cur(j)' = p
    BY <1>5 DEF Cur, p
<1>14. ASSUME NEW i \in MediaJob, i # j PROVE RowBounds(i)' /\ EntryIsCurrent(i)'
    BY <1>2, <1>4, <1>5, <1>6, <1>12, <1>14, OtherJobs
<1>15. RowBounds(j)' /\ EntryIsCurrent(j)'
    BY <1>2, <1>3, <1>4, <1>13 DEF RowBounds, EntryIsCurrent, Active
<1>16. procs[j] = None
    BY <1>3 DEF RegistryIsTrue, Held
<1>17. \A i \in MediaJob : procs[i] # None => procs[i] = tries'[i] /\ Held(dl[Cur(i)'])
    BY <1>5, <1>12, <1>16 DEF RegistryIsTrue
<1>18. RegistryIsTrue'
    <2>1. \A q \in Try : Held(dl[q]) => procs[q[1]] = q[2]
        BY DEF RegistryIsTrue
    <2>2. QED
        BY <1>2, <1>17, <2>1 DEF RegistryIsTrue, Held, Cur
<1>19. CancellerHasLetGo'
    BY <1>2 DEF CancellerHasLetGo
<1> QED BY <1>7, <1>8, <1>11, <1>14, <1>15, <1>18, <1>19 DEF RowsBound, EntriesAreCurrent

\* What Engine.Cancel does to a download that has begun.
LEMMA EngineCancelMoves ==
    ASSUME NEW d \in DownloadState, SoundDownload(d), NEW e,
           e = IF d.known THEN [Terminated(d) EXCEPT !.ctx = "cancelled"] ELSE [d EXCEPT !.ctx = "cancelled"]
    PROVE  /\ e \in DownloadState /\ SoundDownload(e) /\ Moves(d, e) /\ LetGo(e)
           /\ (Held(e) <=> Held(d)) /\ e.known = d.known
<1>1. CASE d.known
    BY <1>1 DEF DownloadState, Terminated, SoundDownload, Moves, LetGo, Held, Dead
<1>2. CASE ~d.known
    BY <1>2 DEF DownloadState, Terminated, SoundDownload, Moves, LetGo, Held, Dead
<1> QED BY <1>1, <1>2

\* A client begins to cancel: a job without an entry has no download to let go of.
LEMMA CancelBeginsKeeps ==
    ASSUME ProcessInv, NEW j \in MediaJob, CancelBegins(j)
    PROVE  ProcessInv'
<1> USE DEF ProcessInv
<1> DEFINE p == Cur(j)
<1>1. /\ UNCHANGED <<media, tries, analysis, cancelOf, downloads, procs, closed, app>> /\ app = "up"
      /\ media[j].status \in Cancellable
    BY DEF CancelBegins
<1>2. \A i \in MediaJob : Cur(i)' = Cur(i) /\ Cur(i) \in Try
    BY <1>1, CurrentIsATry DEF Cur
<1>3. p \in Try /\ dl[p] \in DownloadState /\ SoundDownload(dl[p])
    BY RowFacts
<1>4. CASE downloads[j] = None
    <2>1. canceller' = [at |-> "trigger", job |-> j] /\ UNCHANGED dl
        BY <1>4 DEF CancelBegins
    <2>2. dl[p].at = "none"
        BY <1>1, <1>4, RowFacts DEF EntryIsCurrent, RowBounds, Cancellable, Active
    <2>3. CancellerHasLetGo'
        BY <1>2, <2>1, <2>2 DEF CancellerHasLetGo, LetGo
    <2>4. ProcTypes' /\ SoundDownloads'
        BY <1>1, <2>1 DEF ProcTypes, SoundDownloads, SoundDownload
    <2>5. \A q \in Try : dl'[q] = dl[q]
        BY <2>1
    <2>6. OneTryAtATime' /\ RowsBound' /\ EntriesAreCurrent' /\ RegistryIsTrue' /\ StoppedIsEmpty'
        BY <1>1, <2>1 DEF OneTryAtATime, RowsBound, RowBounds, LetGo, EntriesAreCurrent, EntryIsCurrent,
                          RegistryIsTrue, Held, StoppedIsEmpty, Cur
    <2>7. QED
        BY <2>3, <2>4, <2>6
<1>5. CASE downloads[j] # None
    <2>1. <<j, downloads[j]>> = p
        BY <1>5, RowFacts DEF EntryIsCurrent, Cur
    <2>2. canceller' = [at |-> IF dl[p].known THEN "waiting" ELSE "trigger", job |-> j] /\ dl' = EngineCancel(p)
        BY <1>5, <2>1 DEF CancelBegins
    <2> DEFINE e == IF dl[p].known THEN [Terminated(dl[p]) EXCEPT !.ctx = "cancelled"]
                    ELSE [dl[p] EXCEPT !.ctx = "cancelled"]
    <2> DEFINE d == dl[p]
    <2>3. /\ dl' = [dl EXCEPT ![p] = e] /\ d \in DownloadState /\ SoundDownload(d)
          /\ e = IF d.known THEN [Terminated(d) EXCEPT !.ctx = "cancelled"] ELSE [d EXCEPT !.ctx = "cancelled"]
        BY <1>3, <2>2 DEF EngineCancel
    <2> HIDE DEF e, p, d
    <2>4. /\ e \in DownloadState /\ SoundDownload(e) /\ Moves(dl[p], e) /\ LetGo(e)
          /\ (Held(e) <=> Held(dl[p])) /\ e.known = dl[p].known
        <3>1. e \in DownloadState /\ SoundDownload(e) /\ Moves(d, e) /\ LetGo(e) /\ (Held(e) <=> Held(d)) /\ e.known = d.known
            BY <2>3, EngineCancelMoves
        <3> QED BY <3>1 DEF d
    <2>5. dl' \in [Try -> DownloadState] /\ \A q \in Try : dl'[q] = IF q = p THEN e ELSE dl[q]
        BY <1>3, <2>3, <2>4 DEF ProcTypes
    <2>6. SoundDownloads'
        BY <2>4, <2>5 DEF SoundDownloads, SoundDownload
    <2>7. \A q \in Try : /\ (dl'[q].at = "none" <=> dl[q].at = "none") /\ (dl[q].at = "ended" => dl'[q].at = "ended")
                         /\ (LetGo(dl[q]) => LetGo(dl'[q])) /\ (Held(dl'[q]) <=> Held(dl[q]))
        BY <2>4, <2>5 DEF Moves
    <2>8. OneTryAtATime'
        BY <1>1, <2>7 DEF OneTryAtATime
    <2>9. RowsBound'
        BY <1>1, <1>2, <2>7 DEF RowsBound, RowBounds
    <2>10. EntriesAreCurrent'
        BY <1>1, <1>2, <2>7 DEF EntriesAreCurrent, EntryIsCurrent
    <2>11. RegistryIsTrue'
        <3>1. \A i \in MediaJob : procs[i] # None => procs[i] = tries[i] /\ Held(dl'[Cur(i)])
            BY <1>2, <2>7 DEF RegistryIsTrue
        <3>2. \A q \in Try : Held(dl'[q]) => procs[q[1]] = q[2]
            BY <2>7 DEF RegistryIsTrue
        <3>3. QED
            BY <1>1, <1>2, <3>1, <3>2 DEF RegistryIsTrue, Held
    <2>12. canceller' \in [at : {"none", "waiting", "trigger", "write"}, job : MediaJob]
           /\ canceller'.job = j /\ (canceller'.at = "waiting" => dl[p].known)
        BY <2>2
    <2>13. CancellerHasLetGo'
        BY <1>1, <1>2, <1>3, <2>4, <2>5, <2>12 DEF CancellerHasLetGo, p
    <2>14. ProcTypes'
        BY <1>1, <2>5, <2>12 DEF ProcTypes
    <2>15. QED
        BY <1>1, <2>6, <2>8, <2>9, <2>10, <2>11, <2>13, <2>14 DEF StoppedIsEmpty
<1> QED BY <1>4, <1>5
------------------------------------------------------------------------------
\* A step that changes no download, no row and no entry: it may cancel analyses, and
\* moves the canceller or the shutdown on.
LEMMA OtherSteps ==
    ASSUME ProcessInv, UNCHANGED <<media, tries, downloads, dl, procs, closed>>,
           analysis' \in [Try -> AnalysisState], \A a \in Try : analysis'[a].at = analysis[a].at,
           cancelOf' \in [MediaJob -> Ref],
           canceller' \in [at : {"none", "waiting", "trigger", "write"}, job : MediaJob], CancellerHasLetGo',
           app' \in {"up", "engines", "supervisor", "waiting", "stopped", "timed_out"},
           app' \in {"up", "engines"} => app \in {"up", "engines"}, StoppedIsEmpty'
    PROVE  ProcessInv'
<1> USE DEF ProcessInv
<1>1. ProcTypes'
    BY DEF ProcTypes
<1>2. SoundDownloads' /\ RegistryIsTrue'
    BY DEF SoundDownloads, SoundDownload, RegistryIsTrue, Held, Cur
<1>3. OneTryAtATime'
    BY DEF OneTryAtATime
<1>4. \A j \in MediaJob : Cur(j)' = Cur(j) /\ Cur(j) \in Try
    BY CurrentIsATry DEF Cur
<1>5. RowsBound'
    BY <1>4 DEF RowsBound, RowBounds, LetGo
<1>6. EntriesAreCurrent'
    BY <1>4 DEF EntriesAreCurrent, EntryIsCurrent
<1> QED BY <1>1, <1>2, <1>3, <1>5, <1>6

\* A cancelled analysis is where it was.
LEMMA CancelledAnalysis ==
    ASSUME NEW b \in AnalysisState
    PROVE  [b EXCEPT !.ctx = "cancelled"] \in AnalysisState /\ [b EXCEPT !.ctx = "cancelled"].at = b.at
BY DEF AnalysisState

LEMMA CancelGoesOn ==
    ASSUME ProcessInv, CancelWaited \/ TriggerCancel
    PROVE  ProcessInv'
<1> USE DEF ProcessInv
<1>1. PICK label \in {"trigger", "write"} : canceller' = [canceller EXCEPT !.at = label]
    BY DEF CancelWaited, TriggerCancel
<1>2. UNCHANGED <<media, tries, downloads, dl, procs, closed, app>> /\ canceller.at # "none"
    BY DEF CancelWaited, TriggerCancel
<1>3. /\ canceller' \in [at : {"none", "waiting", "trigger", "write"}, job : MediaJob]
      /\ canceller'.job = canceller.job /\ canceller'.at = label
    BY <1>1 DEF ProcTypes
<1>4. CancellerHasLetGo' /\ StoppedIsEmpty' /\ app' \in {"up", "engines", "supervisor", "waiting", "stopped", "timed_out"}
    BY <1>2, <1>3 DEF CancellerHasLetGo, LetGo, Cur, StoppedIsEmpty, ProcTypes
<1>5. /\ analysis' \in [Try -> AnalysisState] /\ \A a \in Try : analysis'[a].at = analysis[a].at
      /\ cancelOf' \in [MediaJob -> Ref]
    <2>1. CASE UNCHANGED <<analysis, cancelOf>>
        BY <2>1 DEF ProcTypes
    <2>2. CASE TriggerCancel
        <3> DEFINE j == canceller.job
                   c == <<j, cancelOf[j]>>
        <3>1. None \in Ref
            BY MediaAssumptions DEF Ref, None
        <3>2. cancelOf' = [cancelOf EXCEPT ![j] = None]
            BY <2>2 DEF TriggerCancel
        <3>3. cancelOf' \in [MediaJob -> Ref]
            BY <3>1, <3>2 DEF ProcTypes
        <3>4. analysis' = analysis \/ analysis' = [analysis EXCEPT ![c] = [@ EXCEPT !.ctx = "cancelled"]]
            BY <2>2 DEF TriggerCancel
        <3> HIDE DEF j, c
        <3>5. analysis' \in [Try -> AnalysisState] /\ \A a \in Try : analysis'[a].at = analysis[a].at
            <4>1. CASE analysis' = analysis \/ c \notin Try
                <5>1. analysis' = analysis
                    BY <3>4, <4>1 DEF ProcTypes
                <5>2. QED
                    BY <5>1 DEF ProcTypes
            <4>2. CASE c \in Try /\ analysis' = [analysis EXCEPT ![c] = [@ EXCEPT !.ctx = "cancelled"]]
                <5> DEFINE b == [analysis[c] EXCEPT !.ctx = "cancelled"]
                <5>1. b \in AnalysisState /\ b.at = analysis[c].at
                    BY <4>2, CancelledAnalysis DEF ProcTypes
                <5>2. analysis' = [analysis EXCEPT ![c] = b]
                    BY <4>2
                <5> HIDE DEF b
                <5>3. QED
                    BY <4>2, <5>1, <5>2 DEF ProcTypes
            <4>3. QED
                BY <3>4, <4>1, <4>2
        <3>6. QED
            BY <3>3, <3>5
    <2>3. QED
        BY <2>1, <2>2 DEF CancelWaited
<1> QED BY <1>2, <1>3, <1>4, <1>5, OtherSteps

LEMMA CancelAnalysesKeeps ==
    ASSUME ProcessInv, CancelAnalyses
    PROVE  ProcessInv'
<1> USE DEF ProcessInv
<1>1. UNCHANGED <<media, tries, downloads, dl, procs, closed, canceller>> /\ app = "up" /\ app' = "engines"
    BY DEF CancelAnalyses, shutdownUnchanged
<1>2. analysis' = [a \in Try |-> IF cancelOf[a[1]] = a[2] THEN [analysis[a] EXCEPT !.ctx = "cancelled"]
                                  ELSE analysis[a]]
    BY DEF CancelAnalyses
<1>3. \A a \in Try : analysis'[a] \in AnalysisState /\ analysis'[a].at = analysis[a].at
    <2> TAKE a \in Try
    <2>1. analysis[a] \in AnalysisState
        BY DEF ProcTypes
    <2>2. analysis'[a] \in {analysis[a], [analysis[a] EXCEPT !.ctx = "cancelled"]}
        BY <1>2
    <2>3. QED
        BY <2>1, <2>2, CancelledAnalysis
<1>4. analysis' \in [Try -> AnalysisState]
    BY <1>2, <1>3
<1>5. cancelOf' \in [MediaJob -> Ref]
    <2>1. None \in Ref
        BY MediaAssumptions DEF Ref, None
    <2>2. QED
        BY <2>1 DEF CancelAnalyses
<1>6. canceller' \in [at : {"none", "waiting", "trigger", "write"}, job : MediaJob]
    BY <1>1 DEF ProcTypes
<1>7. CancellerHasLetGo' /\ StoppedIsEmpty'
    BY <1>1 DEF CancellerHasLetGo, LetGo, Cur, StoppedIsEmpty
<1> QED BY <1>1, <1>3, <1>4, <1>5, <1>6, <1>7, OtherSteps

\* Shutdown returns without an error only when the registry is empty.
LEMMA ShutdownReturnsKeeps ==
    ASSUME ProcessInv, ShutdownReturns
    PROVE  ProcessInv'
<1> USE DEF ProcessInv
<1>1. /\ UNCHANGED <<media, tries, analysis, cancelOf, downloads, dl, procs, closed, canceller>>
      /\ app' \in {"stopped", "timed_out"}
      /\ app' = "stopped" => \A j \in MediaJob : procs[j] = None
    BY DEF ShutdownReturns, shutdownUnchanged
<1>2. StoppedIsEmpty' /\ CancellerHasLetGo'
    BY <1>1 DEF StoppedIsEmpty, CancellerHasLetGo, LetGo, Cur
<1>3. /\ analysis' \in [Try -> AnalysisState] /\ cancelOf' \in [MediaJob -> Ref]
      /\ canceller' \in [at : {"none", "waiting", "trigger", "write"}, job : MediaJob]
    BY <1>1 DEF ProcTypes
<1> QED BY <1>1, <1>2, <1>3, OtherSteps

\* Steps of the shutdown that stop processes, without an engine's entry for some.
LEMMA ShutdownSteps ==
    ASSUME ProcessInv, dl' \in [Try -> DownloadState], UNCHANGED <<media, tries, analysis, cancelOf, procs, canceller>>,
           \A p \in Try : SoundDownload(dl'[p]) /\ Moves(dl[p], dl'[p]) /\ (Held(dl'[p]) <=> Held(dl[p])),
           app' \in {"supervisor", "waiting"}, closed' \in BOOLEAN,
           downloads' \in [MediaJob -> Ref], \A j \in MediaJob : downloads'[j] \in {downloads[j], None}
    PROVE  ProcessInv'
<1> USE DEF ProcessInv
<1>1. \A j \in MediaJob : Cur(j)' = Cur(j) /\ Cur(j) \in Try /\ Moves(dl[Cur(j)], dl'[Cur(j)])
    BY CurrentIsATry DEF Cur
<1>2. ProcTypes'
    BY DEF ProcTypes
<1>3. SoundDownloads'
    BY DEF SoundDownloads, SoundDownload
<1>4. OneTryAtATime'
    BY DEF OneTryAtATime, Moves
<1>5. RowsBound'
    BY <1>1 DEF RowsBound, RowBounds, Moves
<1>6. EntriesAreCurrent'
    BY <1>1 DEF EntriesAreCurrent, EntryIsCurrent, Moves
<1>7. \A j \in MediaJob : procs[j] # None => procs[j] = tries[j] /\ Held(dl'[Cur(j)])
    BY <1>1 DEF RegistryIsTrue
<1>8. \A q \in Try : Held(dl'[q]) => procs[q[1]] = q[2]
    BY DEF RegistryIsTrue
<1>9. RegistryIsTrue'
    BY <1>1, <1>7, <1>8 DEF RegistryIsTrue, Held
<1>10. canceller.job \in MediaJob
    BY DEF ProcTypes
<1>11. CancellerHasLetGo' /\ StoppedIsEmpty'
    BY <1>1, <1>10 DEF CancellerHasLetGo, Moves, StoppedIsEmpty
<1> QED BY <1>2, <1>3, <1>4, <1>5, <1>6, <1>9, <1>11

LEMMA EngineShutdownKeeps ==
    ASSUME ProcessInv, EngineShutdown
    PROVE  ProcessInv'
<1> USE DEF ProcessInv
<1> DEFINE e(p) == IF dl[p].known THEN [Terminated(dl[p]) EXCEPT !.ctx = "cancelled"]
                   ELSE [dl[p] EXCEPT !.ctx = "cancelled"]
<1>1. \A p \in Try : dl[p] \in DownloadState /\ SoundDownload(dl[p])
    BY DEF ProcTypes, SoundDownloads
<1>2. dl' = [p \in Try |-> IF downloads[p[1]] = p[2] THEN EngineCancel(p)[p] ELSE dl[p]]
    BY DEF EngineShutdown
<1>3. \A p \in Try : EngineCancel(p)[p] = e(p)
    BY DEF EngineCancel, ProcTypes
<1>4. \A p \in Try : /\ e(p) \in DownloadState /\ SoundDownload(e(p)) /\ Moves(dl[p], e(p))
                     /\ (Held(e(p)) <=> Held(dl[p]))
    BY <1>1, EngineCancelMoves
<1> HIDE DEF e
<1>5. \A p \in Try : dl'[p] \in {e(p), dl[p]}
    BY <1>2, <1>3
<1>6. \A p \in Try : Moves(dl[p], dl[p])
    BY DEF Moves
<1>7. /\ dl' \in [Try -> DownloadState]
      /\ \A p \in Try : SoundDownload(dl'[p]) /\ Moves(dl[p], dl'[p]) /\ (Held(dl'[p]) <=> Held(dl[p]))
    BY <1>1, <1>2, <1>4, <1>5, <1>6
<1>8. downloads' \in [MediaJob -> Ref] /\ \A j \in MediaJob : downloads'[j] = None
    <2>1. None \in Ref
        BY MediaAssumptions DEF Ref, None
    <2>2. QED
        BY <2>1 DEF EngineShutdown
<1>9. closed' \in BOOLEAN
    BY DEF EngineShutdown, ProcTypes
<1> QED BY <1>7, <1>8, <1>9, ShutdownSteps DEF EngineShutdown, shutdownUnchanged

LEMMA SupervisorShutdownKeeps ==
    ASSUME ProcessInv, SupervisorShutdown
    PROVE  ProcessInv'
<1> USE DEF ProcessInv
<1>1. \A p \in Try : dl[p] \in DownloadState /\ SoundDownload(dl[p])
    BY DEF ProcTypes, SoundDownloads
<1>2. dl' = [p \in Try |-> IF procs[p[1]] = p[2] THEN Terminated(dl[p]) ELSE dl[p]]
    BY DEF SupervisorShutdown
<1>3. ASSUME NEW d \in DownloadState, SoundDownload(d)
      PROVE  /\ Terminated(d) \in DownloadState /\ SoundDownload(Terminated(d)) /\ Moves(d, Terminated(d))
             /\ (Held(Terminated(d)) <=> Held(d)) /\ Moves(d, d)
    <2> DEFINE e == Terminated(d)
    <2>1. /\ e \in DownloadState /\ (d.os \in Dead => e.os = d.os)
          /\ e.at = d.at /\ e.ctx = d.ctx /\ e.known = d.known /\ e.reaped = d.reaped /\ e.result = d.result
        BY TerminatedFields
    <2> HIDE DEF e
    <2> QED BY <1>3, <2>1 DEF e, SoundDownload, Moves, LetGo, Held
<1>4. \A p \in Try : dl'[p] \in {Terminated(dl[p]), dl[p]}
    BY <1>2
<1>5. /\ dl' \in [Try -> DownloadState]
      /\ \A p \in Try : SoundDownload(dl'[p]) /\ Moves(dl[p], dl'[p]) /\ (Held(dl'[p]) <=> Held(dl[p]))
    BY <1>1, <1>2, <1>3, <1>4
<1>6. closed' \in BOOLEAN /\ downloads' \in [MediaJob -> Ref]
    BY DEF SupervisorShutdown, ProcTypes
<1> QED BY <1>5, <1>6, ShutdownSteps DEF SupervisorShutdown, shutdownUnchanged
------------------------------------------------------------------------------
LEMMA ProcessInvHolds == ProcInit => ProcessInv
<1> SUFFICES ASSUME ProcInit PROVE ProcessInv
    OBVIOUS
<1>1. None \in Ref /\ 1 \in 1 .. MaxTries /\ NoCancel.job \in MediaJob /\ NoCancel.at = "none"
    BY MediaAssumptions DEF Ref, None, NoCancel
<1>2. canceller \in [at : {"none", "waiting", "trigger", "write"}, job : MediaJob] /\ canceller.at = "none"
    BY MediaAssumptions DEF ProcInit, NoCancel
<1>3. \A t \in Try : analysis[t] = IF t[2] = 1 THEN [NoAnalysis EXCEPT !.at = "new"] ELSE NoAnalysis
    BY DEF ProcInit
<1>4. analysis \in [Try -> AnalysisState] /\ \A t \in Try : t[2] # 1 => analysis[t].at = "none"
    BY <1>3 DEF ProcInit, AnalysisState, Early, NoAnalysis
<1>5. dl \in [Try -> DownloadState] /\ \A p \in Try : dl[p] = NoDownload
    BY DEF ProcInit, NoDownload, DownloadState, Dead, Starting, Over
<1>6. ProcTypes
    BY <1>1, <1>2, <1>4, <1>5 DEF ProcInit, ProcTypes, Status, Cancellable
<1>7. \A j \in MediaJob : Cur(j) \in Try /\ media[j] = [status |-> "analyzing", info |-> FALSE] /\ tries[j] = 1
    BY <1>6, CurrentIsATry DEF ProcInit
<1>8. SoundDownloads /\ StoppedIsEmpty /\ CancellerHasLetGo
    BY <1>2, <1>5 DEF ProcInit, SoundDownloads, SoundDownload, NoDownload, StoppedIsEmpty, CancellerHasLetGo
<1>9. OneTryAtATime
    <2>1. \A p \in Try : tries[p[1]] = 1 /\ p[2] \in 1 .. MaxTries
        BY <1>7, Tries
    <2>2. QED
        BY <1>4, <1>5, <2>1 DEF OneTryAtATime, NoDownload
<1>10. RowsBound /\ EntriesAreCurrent
    BY <1>5, <1>7 DEF ProcInit, RowsBound, RowBounds, EntriesAreCurrent, EntryIsCurrent, NoDownload, Active
<1>11. RegistryIsTrue
    BY <1>5 DEF ProcInit, RegistryIsTrue, Held, NoDownload
<1> QED BY <1>6, <1>8, <1>9, <1>10, <1>11 DEF ProcessInv

LEMMA ProcessInvIsInductive == ProcessInv /\ [ProcNext]_procVars => ProcessInv'
<1> SUFFICES ASSUME ProcessInv, [ProcNext]_procVars PROVE ProcessInv'
    OBVIOUS
<1>1. CASE \E a \in Try : AnalysisStep(a)
    BY <1>1, AnalysisKeeps
<1>2. ASSUME NEW p \in Try, Goroutine(p) \/ Watch(p) \/ PostProcess(p) \/ ProcessDies(p) PROVE ProcessInv'
    BY <1>2, EnterKeeps, SpawnKeeps, AttachKeeps, ConfirmKeeps, RegisterKeeps, RecordKeeps, ReapKeeps,
       FinishKeeps, WatchKeeps, PostProcessKeeps, ProcessDiesKeeps DEF Goroutine
<1>3. ASSUME NEW j \in MediaJob, Dispatch(j) \/ Poll(j) \/ SelectFormat(j) \/ Retry(j) \/ CancelBegins(j)
      PROVE  ProcessInv'
    BY <1>3, DispatchKeeps, PollKeeps, SelectFormatKeeps, RetryKeeps, CancelBeginsKeeps
<1>4. CASE CancelStep \/ CancelAnalyses \/ ShutdownStep
    BY <1>4, CancelGoesOn, CancelWritesKeeps, CancelAnalysesKeeps, EngineShutdownKeeps, SupervisorShutdownKeeps,
       ShutdownReturnsKeeps DEF CancelStep, ShutdownStep
<1>5. CASE UNCHANGED procVars
    <2>1. ProcTypes'
        BY <1>5 DEF procVars, ProcessInv, ProcTypes
    <2>2. QED
        BY <1>5, <2>1 DEF procVars, ProcessInv, SoundDownloads, SoundDownload, OneTryAtATime, RowsBound, RowBounds,
           EntriesAreCurrent, EntryIsCurrent, RegistryIsTrue, Held, CancellerHasLetGo, LetGo, StoppedIsEmpty, Cur
<1> QED BY <1>1, <1>2, <1>3, <1>4, <1>5 DEF ProcNext

LEMMA ProcessInvAlways == ProcSpec => []ProcessInv
BY ProcessInvHolds, ProcessInvIsInductive, PTL DEF ProcSpec
------------------------------------------------------------------------------
\* What the invariant says of those who start, and of what is over.
LEMMA NobodyFindsItTaken == ProcessInv => NeverAlreadyRunning
<1> SUFFICES ASSUME ProcessInv, NEW p \in Try, dl[p].at \in Starting PROVE procs[p[1]] = None
    BY DEF NeverAlreadyRunning, Starting
<1>1. p = Cur(p[1]) /\ p[1] \in MediaJob
    BY WorksIsCurrent, Tries DEF Starting
<1> QED BY <1>1 DEF ProcessInv, RegistryIsTrue, Held, Starting

LEMMA OverIsLetGo == ProcessInv => FinishedJobIsLetGo
<1> SUFFICES ASSUME ProcessInv, NEW p \in Try, media[p[1]].status \in Over PROVE LetGo(dl[p])
    BY DEF FinishedJobIsLetGo, Over, LetGo
<1>1. CASE dl[p].at \in {"none", "ended"}
    BY <1>1 DEF LetGo
<1>2. CASE dl[p].at \notin {"none", "ended"}
    <2>1. p = Cur(p[1]) /\ p[1] \in MediaJob
        BY <1>2, WorksIsCurrent, Tries
    <2>2. RowBounds(p[1])
        BY <2>1 DEF ProcessInv, RowsBound
    <2>3. QED
        BY <1>2, <2>1, <2>2 DEF RowBounds, Over
<1> QED BY <1>1, <1>2

LEMMA StoppedIsReaped == ProcessInv => StoppedMeansReaped
<1> SUFFICES ASSUME ProcessInv, app = "stopped", NEW p \in Try, dl[p].at \in {"record", "run"} PROVE ~Alive(p)
    BY DEF StoppedMeansReaped
<1>1. procs[p[1]] = None /\ p[2] # None
    BY Tries DEF ProcessInv, StoppedIsEmpty
<1>2. dl[p].reaped /\ SoundDownload(dl[p])
    BY <1>1 DEF ProcessInv, RegistryIsTrue, Held, SoundDownloads
<1> QED BY <1>2 DEF SoundDownload, Dead, Alive

LEMMA ProcessTypes == ProcessInv => ProcTypeOK
BY DEF ProcessInv, ProcTypes, ProcTypeOK, SoundDownloads, SoundDownload, Status, AnalysisState, DownloadState, Early,
       Starting, Dead, Over

\* No download ever fails because the id of its job is taken, in any interleaving of
\* downloads, cancellations, retries and shutdown (supervisor.go: StartOwned checks
\* the id and registers it in different critical sections).
THEOREM NobodyIsAlreadyRunning == ProcSpec => []NeverAlreadyRunning
BY ProcessInvAlways, NobodyFindsItTaken, PTL

\* Whoever works for a job that is over has ended, has reaped its process or has been
\* told to stop; and when Supervisor.Shutdown has returned without an error, no
\* process that got through its registration is alive.
THEOREM EndedIsLetGo == ProcSpec => []EndedMeansLetGo
<1>1. ProcessInv => EndedMeansLetGo
    BY ProcessTypes, OverIsLetGo, StoppedIsReaped DEF EndedMeansLetGo
<1>2. QED
    BY <1>1, ProcessInvAlways, PTL
==============================================================================
