--------------------------- MODULE TorrentOwnership ---------------------------
(***************************************************************************)
(* Who owns a torrent.  Several jobs are made for one info hash; each runs  *)
(* a goroutine (Manager.acquireTorrentMetadata) that finds, adopts or adds  *)
(* the torrent in qBittorrent, waits for its metadata and leaves the job    *)
(* awaiting the user's selection.  The daemon knows one torrent per hash:    *)
(* its category and tags say whose it is.                                   *)
(*                                                                         *)
(* The daemon is another process: every call is a step of its own, and may  *)
(* fail.  What follows the selection is in TorrentSeeding.                   *)
(***************************************************************************)
EXTENDS Integers, FiniteSets

CONSTANTS
    TJob,          \* jobs, all of them for the same info hash
    FileJob,       \* those made from a .torrent file: metadata comes with it
    MaxTries,      \* bound: job -> acquisitions of it
    MaxUpsets,     \* bound: see upsets
    Inherited      \* what the daemon holds when we start: see InheritedTorrents

ASSUME OwnershipAssumptions ==
    /\ FileJob \subseteq TJob /\ TJob # {} /\ "job_gone" \notin TJob
    /\ MaxTries \in [TJob -> Nat \ {0}] /\ MaxUpsets \in Nat
    /\ Inherited \subseteq {"nothing", "foreign", "orphan"}

VARIABLES
    torrent,    \* the daemon's torrent of the hash, or Absent
    trow,       \* job -> [status, eid]: its row; eid: EngineID is the hash
    hashOf,     \* job -> its torrent record holds the hash
    acq,        \* <<job, n>> -> [at, ctx, eid]: the n-th acquisition goroutine
    begun,      \* job -> acquisitions begun
    cancelOf,   \* job -> the acquisition whose cancel function is registered
    cmd,        \* a client's Cancel or Delete: [op, job, eid]
    upsets,     \* restarts, what others do to the daemon, deletions, early retries
    \* History:
    adopters,   \* jobs that adopted a torrent already there
    removed,    \* a torrent of the hash was removed from the daemon
    overlapped  \* jobs acquired anew before the last acquisition was over

ownVars == <<torrent, trow, hashOf, acq, begun, cancelOf, cmd, upsets, adopters, removed, overlapped>>

None == 0
Absent == [here |-> FALSE, ours |-> FALSE, tags |-> {}, state |-> "stopped"]
Stale == "job_gone"     \* the tag of a job that no database knows
TorrentState == {"meta", "stopped", "running"}
InheritedTorrents ==
    [nothing |-> Absent,
     foreign |-> [here |-> TRUE, ours |-> FALSE, tags |-> {}, state |-> "running"],
     orphan  |-> [here |-> TRUE, ours |-> TRUE, tags |-> {Stale}, state |-> "running"]]

Acq == UNION {{j} \X (1 .. MaxTries[j]) : j \in TJob}
NoAcq == [at |-> "none", ctx |-> "live", eid |-> FALSE]
NoCmd == [op |-> "none", job |-> CHOOSE j \in TJob : TRUE, eid |-> FALSE]
Terminal == {"failed", "cancelled", "completed"}
UnderWay(j) == {a \in Acq : a[1] = j /\ acq[a].at \notin {"none", "gone"}}
Exists(j) == trow[j].status \notin {"none", "deleted"}
Owned(j) == torrent.here /\ torrent.ours /\ j \in torrent.tags

\* The fields have their types; a job with a live acquisition was created, and
\* its row says "analyzing" only while one is under way or about to end it.
OwnTypeOK ==
    /\ torrent \in [here : BOOLEAN, ours : BOOLEAN, tags : SUBSET (TJob \cup {Stale}), state : TorrentState]
    /\ trow \in [TJob -> [status : {"none", "deleted", "analyzing", "awaiting_selection"} \cup Terminal,
                          eid : BOOLEAN]]
    /\ hashOf \in [TJob -> BOOLEAN] /\ \A j \in TJob : begun[j] \in 0 .. MaxTries[j] /\ cancelOf[j] \in None .. MaxTries[j]
    /\ acq \in [Acq -> [at : {"none", "new", "preflight", "adopt", "add", "visible", "save", "record",
                              "poll", "verify", "commit", "removing", "gone"},
                        ctx : {"live", "cancelled"}, eid : BOOLEAN]]
    /\ upsets \in 0 .. MaxUpsets /\ adopters \subseteq TJob /\ removed \in BOOLEAN
    /\ overlapped \subseteq TJob
    /\ cmd \in [op : {"none", "cancel", "delete"}, job : TJob, eid : BOOLEAN]
    /\ \A j \in TJob : trow[j].status = "analyzing" =>
           \/ \E n \in 1 .. begun[j] : acq[<<j, n>>].at \notin {"none", "gone"}
           \/ cmd.job = j /\ cmd.op = "cancel"

OwnInit ==
    /\ \E h \in Inherited : torrent = InheritedTorrents[h]
    /\ trow = [j \in TJob |-> [status |-> "none", eid |-> FALSE]]
    /\ hashOf = [j \in TJob |-> FALSE] /\ begun = [j \in TJob |-> 0]
    /\ acq = [a \in Acq |-> NoAcq]
    /\ cancelOf = [j \in TJob |-> None]
    /\ cmd = NoCmd /\ upsets = 0 /\ adopters = {} /\ removed = FALSE /\ overlapped = {}
------------------------------------------------------------------------------
\* The daemon.

ClientsStay == UNCHANGED <<begun, cmd, upsets>>
DaemonOnly == UNCHANGED <<trow, hashOf, acq, begun, cancelOf, cmd>>
Upset == upsets < MaxUpsets /\ upsets' = upsets + 1

\* A magnet is added with stop_condition=MetadataReceived.
MetadataArrives == torrent.here /\ torrent.state = "meta" /\ torrent' = [torrent EXCEPT !.state = "stopped"] /\ UNCHANGED upsets /\ DaemonOnly
\* The daemon is shared: its user adds torrents there, and removes them.
UserAddsTorrent == ~torrent.here /\ torrent' = InheritedTorrents.foreign /\ Upset /\ DaemonOnly
UserRemovesTorrent == torrent.here /\ torrent.ours /\ torrent' = Absent /\ Upset /\ DaemonOnly
------------------------------------------------------------------------------
\* Acquisition.

Goto(a, label) == acq' = [acq EXCEPT ![a].at = label] /\ UNCHANGED cancelOf
Live(a) == acq[a].ctx = "live"

\* The goroutine returns: unregisterCancel takes away the entry of the job,
\* whoever made it.
Leaves(a) ==
    /\ acq' = [acq EXCEPT ![a] = [NoAcq EXCEPT !.at = "gone"]]
    /\ cancelOf' = [cancelOf EXCEPT ![a[1]] = None]

\* Repository.Update writes every column from the goroutine's copy; the row of
\* a deleted job is not there to be written.
WriteRow(a, s) ==
    trow' = [trow EXCEPT ![a[1]] = IF Exists(a[1]) THEN [status |-> s, eid |-> acq[a].eid] ELSE @]
SaveHash(a) == hashOf' = [hashOf EXCEPT ![a[1]] = @ \/ Exists(a[1])]
Fails(a) == WriteRow(a, "failed") /\ Leaves(a)
FailsKeepingHash(a) == Fails(a) /\ SaveHash(a)

\* Every call made with a cancelled context fails, and so does the write of what
\* failed.  In the loop, and after it, the row is read: that failing is taken for
\* a cancelled job, whose torrent is removed with a context of its own.
ContextEnds(a) ==
    /\ ~Live(a) /\ acq[a].at \notin {"none", "new", "gone"}
    /\ Leaves(a)
    /\ \/ acq[a].at # "verify" /\ UNCHANGED torrent
       \/ acq[a].at \in {"poll", "verify"} /\ torrent' = Absent
       \/ acq[a].at = "verify" /\ UNCHANGED torrent      \* the daemon does not answer
    /\ UNCHANGED <<trow, hashOf>> /\ ClientsStay

BeginAcquisition(a) ==
    /\ acq[a].at = "new"
    /\ IF Exists(a[1])
       THEN /\ cancelOf' = [cancelOf EXCEPT ![a[1]] = a[2]]
            /\ acq' = [acq EXCEPT ![a].at = "preflight", ![a].eid = trow[a[1]].eid]
       ELSE Leaves(a)
    /\ UNCHANGED <<torrent, trow, hashOf>> /\ ClientsStay

\* reconcileOwnership, up to the adoption.  A tag that names another job of ours
\* refuses the torrent, whatever the status of that job.
ActiveRecords == {o \in TJob : hashOf[o] /\ Exists(o) /\ trow[o].status \notin Terminal}
OtherActiveRecord(j) == ActiveRecords \ {j} # {}

\* GetActiveTorrentJobByInfoHash answers with one of them, which may be the job's own.
OwnerAnswers(j) ==
    IF ~OtherActiveRecord(j) THEN {"adopt"} ELSE IF j \in ActiveRecords THEN {"adopt", "fail"} ELSE {"fail"}

\* Bug: a torrent of another category is treated like one of ours.
VerdictsAnyCategory(j) ==
    CASE j \in torrent.tags -> {"save"}
      [] OTHER -> (IF \E o \in torrent.tags \cap TJob : Exists(o) THEN {"fail"} ELSE {})
                  \cup (IF OtherActiveRecord(j) THEN {"fail"} ELSE {"adopt"})

\* Bug: the tags of other jobs are not looked at.
VerdictsWithoutTags(j) ==
    CASE ~torrent.ours -> {"fail"}
      [] OTHER -> IF OtherActiveRecord(j) THEN {"fail"} ELSE {"adopt"}

Verdicts(j) ==
    CASE ~torrent.ours -> {"fail"}
      [] torrent.ours /\ j \in torrent.tags -> {"save"}
      [] OTHER -> IF \E o \in torrent.tags \cap TJob : Exists(o) THEN {"fail"} ELSE OwnerAnswers(j)

Reconcile(a) ==
    \E v \in Verdicts(a[1]) :
        IF v = "fail" THEN Fails(a) ELSE Goto(a, v) /\ UNCHANGED trow

Preflight(a) ==
    /\ Live(a) /\ acq[a].at = "preflight"
    /\ \/ torrent.here /\ Reconcile(a)
       \/ Goto(a, "add") /\ UNCHANGED trow         \* absent, or the daemon does not answer
    /\ UNCHANGED <<torrent, hashOf>> /\ ClientsStay

\* AdoptTorrent: the category and the job's tag are set, then the tags of other
\* jobs removed; when that fails the job has failed and its tag stays.
Adopt(a) ==
    /\ Live(a) /\ acq[a].at = "adopt"
    /\ \/ /\ torrent.here
          /\ torrent' = [torrent EXCEPT !.ours = TRUE, !.tags = {a[1]}]
          /\ Goto(a, "save") /\ UNCHANGED trow
       \/ /\ torrent.here
          /\ torrent' = [torrent EXCEPT !.ours = TRUE, !.tags = @ \cup {a[1]}]
          /\ Fails(a)
       \/ Fails(a) /\ UNCHANGED <<torrent>>
    /\ UNCHANGED hashOf /\ ClientsStay

\* POST torrents/add.  409: the torrent is there, ask again whose it is.  An
\* answer that is lost, or another error, fails the job.
Add(a) ==
    /\ Live(a) /\ acq[a].at = "add"
    /\ \/ /\ ~torrent.here
          /\ torrent' = [here |-> TRUE, ours |-> TRUE, tags |-> {a[1]},
                         state |-> IF a[1] \in FileJob THEN "stopped" ELSE "meta"]
          /\ \/ Goto(a, "visible") /\ UNCHANGED trow
             \/ Fails(a)
       \/ torrent.here /\ Reconcile(a) /\ UNCHANGED torrent
       \/ Fails(a) /\ UNCHANGED torrent
    /\ UNCHANGED <<hashOf>> /\ ClientsStay

\* waitForTorrentVisible: three seconds at most.
SeenInDaemon(a) ==
    /\ Live(a) /\ acq[a].at = "visible"
    /\ \/ torrent.here /\ Goto(a, "save") /\ UNCHANGED trow
       \/ Fails(a)
    /\ UNCHANGED <<torrent, hashOf>> /\ ClientsStay

\* EngineID is saved, then the "authoritative duplicate check" made: after the
\* torrent is ours, before the record says so.
SaveAndCheckDuplicate(a) ==
    /\ Live(a) /\ acq[a].at = "save"
    /\ \/ /\ OtherActiveRecord(a[1]) => hashOf[a[1]] /\ Exists(a[1])
          /\ acq' = [acq EXCEPT ![a].at = "record", ![a].eid = TRUE]
          /\ trow' = [trow EXCEPT ![a[1]] = IF Exists(a[1]) THEN [status |-> "analyzing", eid |-> TRUE] ELSE @]
          /\ UNCHANGED <<cancelOf, hashOf>>
       \/ \* an active job owns the hash, or the lookup fails
          /\ trow' = [trow EXCEPT ![a[1]] = IF Exists(a[1]) THEN [status |-> "failed", eid |-> TRUE] ELSE @]
          /\ SaveHash(a) /\ Leaves(a)
    /\ UNCHANGED <<torrent>> /\ ClientsStay

SaveRecord(a) ==
    /\ Live(a) /\ acq[a].at = "record"
    /\ SaveHash(a) /\ Goto(a, "poll")
    /\ UNCHANGED <<torrent, trow>> /\ ClientsStay

\* A tick of the loop.  A row that is gone or cancelled takes the torrent with it.
FoundCancelled(a) ==
    /\ Live(a) /\ acq[a].at = "poll"
    /\ trow[a[1]].status \in {"cancelled", "none", "deleted"}
    /\ torrent' \in {Absent, torrent} /\ Leaves(a)
    /\ UNCHANGED <<trow, hashOf>> /\ ClientsStay

\* The metadata is there.  verifyTorrentStopped: the job goes on only when the
\* daemon says it stopped.
Stop(a) ==
    /\ Live(a) /\ acq[a].at = "poll" /\ torrent.here /\ torrent.state # "meta"
    /\ \/ /\ torrent' = [torrent EXCEPT !.state = "stopped"]
          /\ \/ Goto(a, "verify") /\ UNCHANGED <<trow, hashOf>>
             \/ FailsKeepingHash(a)
       \/ FailsKeepingHash(a) /\ UNCHANGED torrent
    /\ ClientsStay

VerifyJob(a) ==
    /\ Live(a) /\ acq[a].at = "verify"
    /\ IF trow[a[1]].status \in {"cancelled", "none", "deleted"}
       THEN torrent' \in {Absent, torrent} /\ Leaves(a)
       ELSE Goto(a, "commit") /\ UNCHANGED torrent
    /\ UNCHANGED <<trow, hashOf>> /\ ClientsStay

AwaitSelection(a) ==
    /\ Live(a) /\ acq[a].at = "commit"
    /\ WriteRow(a, "awaiting_selection") /\ SaveHash(a) /\ Leaves(a)
    /\ UNCHANGED <<torrent>> /\ ClientsStay

\* The deadline, a broken torrent, or one that is no longer there: the record and
\* the row first, then the torrent.
NoMetadata(a) ==
    /\ Live(a) /\ acq[a].at = "poll"
    /\ SaveHash(a) /\ WriteRow(a, "failed") /\ Goto(a, "removing")
    /\ UNCHANGED <<torrent>> /\ ClientsStay

RemoveFailed(a) ==
    /\ Live(a) /\ acq[a].at = "removing"
    /\ torrent' \in {Absent, torrent} /\ Leaves(a)
    /\ UNCHANGED <<trow, hashOf>> /\ ClientsStay

------------------------------------------------------------------------------
\* Clients.

Launch(j) ==
    /\ begun[j] < MaxTries[j]
    /\ begun' = [begun EXCEPT ![j] = @ + 1]
    /\ acq' = [acq EXCEPT ![<<j, begun[j] + 1>>].at = "new"]

\* createTorrentJob: the hash of the source must not be an active job's.
CreateTorrent(j) ==
    /\ trow[j].status = "none" /\ ~OtherActiveRecord(j)
    /\ trow' = [trow EXCEPT ![j] = [status |-> "analyzing", eid |-> FALSE]]
    /\ Launch(j)
    /\ UNCHANGED <<torrent, hashOf, cancelOf, cmd, upsets>>

\* ValidateTransition(status, QUEUED) holds for a failed job and for one that is
\* analyzing or awaiting a selection: there too the acquisition begins again.
RetryTorrent(j) ==
    /\ \/ trow[j].status = "failed" /\ UNCHANGED upsets
       \/ trow[j].status \in {"analyzing", "awaiting_selection"} /\ Upset
    /\ trow' = [trow EXCEPT ![j] = [status |-> "analyzing", eid |-> FALSE]]
    /\ Launch(j)
    /\ UNCHANGED <<torrent, hashOf, cancelOf, cmd>>

\* Cancel deletes the torrent of the hash it finds in the row or else in the
\* record; for the row's it insists.
CancelTorrent(j) ==
    /\ cmd.op = "none" /\ trow[j].status \in {"analyzing", "awaiting_selection"}
    /\ cmd' = [op |-> "cancel", job |-> j, eid |-> trow[j].eid]
    /\ torrent' \in (IF trow[j].eid \/ hashOf[j] THEN {Absent} ELSE {torrent})
                    \cup (IF trow[j].eid THEN {} ELSE {torrent})
    /\ UNCHANGED <<trow, hashOf, acq, begun, cancelOf, upsets>>

WriteCancelled ==
    /\ cmd.op = "cancel"
    /\ LET n == cancelOf[cmd.job] IN
       acq' = IF n = None THEN acq ELSE [acq EXCEPT ![<<cmd.job, n>>].ctx = "cancelled"]
    /\ trow' = [trow EXCEPT ![cmd.job] = IF Exists(cmd.job)
                                         THEN [status |-> "cancelled", eid |-> cmd.eid] ELSE @]
    /\ cmd' = NoCmd
    /\ UNCHANGED <<torrent, hashOf, begun, cancelOf, upsets>>

\* Delete removes the torrent of the hash, unless the daemon fails, then the rows.
DeleteTorrent(j) ==
    /\ cmd.op = "none" /\ trow[j].status \in Terminal /\ Upset
    /\ cmd' = [op |-> "delete", job |-> j, eid |-> trow[j].eid]
    /\ torrent' = IF trow[j].eid \/ hashOf[j] THEN Absent ELSE torrent
    /\ UNCHANGED <<trow, hashOf, acq, begun, cancelOf>>

DeleteTorrentRows ==
    /\ cmd.op = "delete"
    /\ trow' = [trow EXCEPT ![cmd.job] = [status |-> "deleted", eid |-> FALSE]]
    /\ hashOf' = [hashOf EXCEPT ![cmd.job] = FALSE]
    /\ cmd' = NoCmd
    /\ UNCHANGED <<torrent, acq, begun, cancelOf, upsets>>
------------------------------------------------------------------------------
\* The application ends with all its goroutines; on its start an analyzing job
\* is acquired again, and one that waits for its selection is kept if the daemon
\* still knows the torrent.
RestartedRow(j, known) ==
    IF trow[j].status = "awaiting_selection" /\ ~(trow[j].eid /\ known)
    THEN [trow[j] EXCEPT !.status = "failed"] ELSE trow[j]

Restart ==
    /\ Upset
    /\ \A j \in TJob : trow[j].status = "analyzing" => begun[j] < MaxTries[j]
    /\ \E known \in {FALSE, torrent.here} : trow' = [j \in TJob |-> RestartedRow(j, known)]
    /\ begun' = [j \in TJob |-> begun[j] + (IF trow[j].status = "analyzing" THEN 1 ELSE 0)]
    /\ acq' = [a \in Acq |->
                  IF acq[a].at # "none" THEN [NoAcq EXCEPT !.at = "gone"]
                  ELSE IF trow[a[1]].status = "analyzing" /\ a[2] = begun[a[1]] + 1
                  THEN [NoAcq EXCEPT !.at = "new"] ELSE acq[a]]
    /\ cancelOf' = [j \in TJob |-> None] /\ cmd' = NoCmd
    /\ UNCHANGED <<torrent, hashOf>>

Acquisition(a) ==
    \/ ContextEnds(a) \/ BeginAcquisition(a) \/ Preflight(a) \/ Adopt(a) \/ Add(a)
    \/ SeenInDaemon(a) \/ SaveAndCheckDuplicate(a) \/ SaveRecord(a)
    \/ FoundCancelled(a) \/ Stop(a) \/ VerifyJob(a) \/ AwaitSelection(a)
    \/ NoMetadata(a) \/ RemoveFailed(a)

Remember ==
    /\ adopters' = IF torrent.here THEN adopters \cup (torrent'.tags \ torrent.tags) ELSE adopters
    /\ removed' = (removed \/ (torrent.here /\ ~torrent'.here))
    /\ overlapped' = overlapped \cup {j \in TJob : Cardinality(UnderWay(j)') > 1}

OwnNext ==
    \/ \E a \in Acq : Acquisition(a) /\ Remember
    \/ \E j \in TJob :
           (CreateTorrent(j) \/ RetryTorrent(j) \/ CancelTorrent(j) \/ DeleteTorrent(j)) /\ Remember
    \/ (WriteCancelled \/ DeleteTorrentRows) /\ Remember
    \/ (MetadataArrives \/ UserAddsTorrent \/ UserRemovesTorrent) /\ Remember
    \/ Restart /\ Remember

OwnSpec == OwnInit /\ [][OwnNext]_ownVars
------------------------------------------------------------------------------
\* Properties.

\* Two jobs await the user's selection of the same torrent only when both took it
\* for an orphan and adopted it, or it was removed and came back: of the checks that
\* keep a second owner out (the tag, the record before and after the add) none is
\* atomic with what it guards.
OneOwner ==
    \A i, j \in TJob :
        i # j /\ trow[i].status = "awaiting_selection" /\ trow[j].status = "awaiting_selection"
            => {i, j} \subseteq adopters \/ removed

\* Nothing is downloaded before the user has selected: while a job awaits the
\* selection its torrent does not run, be it added, adopted running, or found
\* again after a restart or a retry.  (A job retried while it is being analyzed has
\* two acquisitions, of which one may adopt what the other has stopped.)
NothingRunsUnselected ==
    \A j \in TJob : trow[j].status = "awaiting_selection" /\ Owned(j) /\ torrent.state = "running"
                       => j \in overlapped

\* A torrent waits for the selection of one job, stopped.
WaitsForItsOwner == OwnTypeOK /\ OneOwner /\ NothingRunsUnselected

\* A torrent of another category is the user's own: no step of ours changes or
\* removes it, as long as no torrent of the hash was removed before.  (A job that
\* knows the hash from before, or decided to adopt what it saw, takes the new one.)
Foreign == torrent.here /\ ~torrent.ours
NewcomersLeaveForeign == [][Foreign /\ ~removed => torrent' = torrent]_ownVars
==============================================================================
