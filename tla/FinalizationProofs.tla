-------------------------- MODULE FinalizationProofs --------------------------
(***************************************************************************)
(* Proofs about the end of a media download, for any number of jobs, names *)
(* and attempts, any conflict policies and either device, and whatever the *)
(* bounds of the failing calls, new files, commands and crashes are.       *)
(*                                                                         *)
(* WorkInv says who works on what: which downloads files, records and      *)
(* processes belong to.  The other invariants stand on it:                 *)
(*   PlaceInv     a file that is renamed has one place;                    *)
(*   SurvivalInv  a finished file is somewhere;                            *)
(*   JournalInv   record, row and monitor agree while no write has failed; *)
(*   DeliveryInv  every path anybody remembers holds its job's file;       *)
(*   FailInv      who fails has no file, and no record that says so.       *)
(* For each kind of step a lemma ...Effects says what it changes; what an  *)
(* invariant needs of a step is proved from that, and not from its text.   *)
(***************************************************************************)
EXTENDS Finalization, FiniteSetTheorems, WellFoundedInduction, TLAPS

USE FileAssumptions, DeliveryAssumptions

\* Who works on what.  While the application is down or recovers nobody else does.
ServesOrRecovers ==
    /\ fin.at = "idle" => fin.live
    /\ fin.at \in {"recover", "sweep", "recommit"} => ~fin.live
    /\ ~Serving => client.at = "none" /\ \A j \in Job : active[j] = Untracked
    /\ todo # {} => ~fin.live /\ fin.at # "sweep"
    /\ fin.at \in Working => fin.d \notin todo

\* What is tracked is downloading, or is about to be forgotten; the engine knows only
\* what is tracked, and nothing of a job that is being deleted.
TrackedDownloads ==
    /\ client.at = "delete" => engine[client.job] = "unknown"
    /\ \A j \in Job :
        /\ engine[j] # "unknown" => active[j] # Untracked
        /\ active[j] # Untracked =>
               \/ row[j].status = "downloading"
               \/ fin.live /\ fin.at \in {"committed", "forget"} /\ FinJob = j /\ row[j].status = "completed"

\* Nobody begins another download of the job the monitor works on.
WorksOnCurrent ==
    fin.live =>
        /\ fin.at \in Moving => /\ fin.d = Current(FinJob)
                                /\ row[FinJob].status \in {"downloading", "cancelled", "deleted"}
        /\ fin.at \in Cleaning => /\ fin.d = Current(FinJob)
                                  /\ row[FinJob].status \in {"completed", "cancelled", "deleted"}

\* What is in a work directory comes from the job's last download, and nothing is of a
\* download to come.
FilesHaveDownloads ==
    /\ \A j \in Job : staging[j] \in {Nothing, Current(j)}
    /\ \A p \in Path : dest[p] \in Delivery => dest[p][2] <= attempt[dest[p][1]]
    /\ \A d \in Delivery : journal[d].phase # "none" => d[2] <= attempt[d[1]]
    /\ todo \subseteq {d \in Delivery : d[2] <= attempt[d[1]]}
    /\ fin.at \in Working => fin.d[2] <= attempt[FinJob]
    /\ fin.at = "copied" => fin.copy = Current(FinJob)

\* A download that runs, or has come to nothing, has left no file.
NothingYet ==
    \A j \in Job : engine[j] \in {"running", "failed", "cancelled"} =>
        /\ staging[j] = Nothing /\ CopiesOf(Current(j)) = {}
        /\ fin.at = "copied" => fin.copy # Current(j)

DeletedHaveNoRecord ==
    \A d \in Delivery : row[d[1]].status = "deleted" => journal[d].phase = "none"

WorkInv == MediaTypeOK /\ ServesOrRecovers /\ TrackedDownloads /\ WorksOnCurrent
           /\ FilesHaveDownloads /\ NothingYet /\ DeletedHaveNoRecord

Lesser == \A kind \in {"db", "io"} : left[kind] <= scenario[kind]

\* Where a move is a rename, a file has one place; what is copied is copied over path 1.
OnePlace ==
    /\ \A p, q \in Path : dest[p] \in Delivery /\ dest[p] = dest[q] => p = q
    /\ \A j \in Job, p \in Path : staging[j] # Nothing /\ dest[p] = staging[j] =>
           policy[j] = "overwrite" /\ p = 1
    /\ fin.at = "copied" =>
           /\ policy[FinJob] = "overwrite"
           /\ \A p \in Path : dest[p] = fin.copy => p = 1
PathChosen ==
    fin.at \in {"save", "begin", "move", "copied"} =>
        fin.path \in Path /\ (policy[FinJob] = "overwrite" => fin.path = 1)
PlaceInv == WorkInv /\ PathChosen /\ (device = "same" => OnePlace)

\* A finished file is somewhere, or somebody has decided against it.
Excused(j) == j \in given_up \/ removed # {} \/ \E k \in Job \ {j} : policy[k] = "overwrite"
ToUnlink == fin.live /\ fin.at = "unlink" => CopiesOf(Current(FinJob)) # {} \/ Excused(FinJob)
ClientGaveUp == client.at # "none" => client.job \in given_up
SurvivalInv == PlaceInv /\ ToUnlink /\ ClientGaveUp /\ ArtifactSurvives

\* The journal and the rows, as long as no database call has failed.
Settled == {"none", "complete", "failed"}
Begun == {"prepared", "in_progress", "validated"}
Later == {"db_committed", "cleanup_pending", "complete"}
Unsettled(d) == d \in todo \/ (fin.at \in Working /\ fin.d = d)
RecordsSettle ==
    /\ \A d \in Delivery : d[2] # attempt[d[1]] => journal[d].phase \in {"none", "failed"}
    /\ fin.at # "down" => \A d \in Delivery : ~Unsettled(d) => journal[d].phase \in Settled
    /\ todo \subseteq {d \in Delivery : journal[d].phase \notin Settled}
    /\ \A j \in Job : active[j] # Untracked /\ ~(fin.at \in Working /\ FinJob = j) => journal[Current(j)].phase = "none"
RowsMatch ==
    /\ \A d \in Delivery : journal[d].phase \in Later =>
           \/ row[d[1]].status = "completed" /\ row[d[1]].final = journal[d].path
           \/ row[d[1]].status = "cancelled"
    /\ \A d \in Delivery : row[d[1]].status = "failed" => journal[d].phase \in {"none", "failed"}
Phases(at, live) ==
    CASE at \in {"resolve", "save"} -> IF live THEN {"none"} ELSE Begun
      [] at \in {"begin", "mark_failed"} -> Begun
      [] at \in {"move", "copied", "unlink", "validated"} -> {"in_progress"}
      [] at \in {"subtitles", "commit", "committed"} -> {"validated"}
      [] at \in {"forget", "recommit"} -> {"db_committed"}
      [] at = "pending" -> {"db_committed", "cleanup_pending"}
      [] at \in {"clean", "complete"} -> {"cleanup_pending"}
      [] at = "fail" -> {"none", "failed"}
      [] OTHER -> {}
Loose == {"resolve", "save", "mark_failed", "fail"}
RecordIsKnown ==
    fin.at \in Working =>
       /\ fin.d = Current(FinJob)
       /\ row[FinJob].status # "failed"
       /\ Exists(FinJob) => journal[fin.d].phase \in Phases(fin.at, fin.live)
       /\ Exists(FinJob) /\ fin.at \notin Loose => journal[fin.d].path = fin.path
       /\ Exists(FinJob) /\ fin.at = "committed" =>
              \/ row[FinJob].status = "completed" /\ row[FinJob].final = fin.path
              \/ row[FinJob].status = "cancelled"
JournalTrue == RecordsSettle /\ RowsMatch /\ RecordIsKnown
JournalInv == WorkInv /\ Lesser /\ (NoDatabaseError => JournalTrue)

\* A path that is good enough for a row: it holds a file of the job's, or somebody has
\* decided against it.
Held(j, p) ==
    /\ p \in Path
    /\ \/ dest[p] \in {j} \X (1 .. attempt[j])
       \/ p \in removed \/ j \in misfiled
       \/ \E k \in Job : policy[k] = "overwrite"
RowsHeld ==
    \A j \in Job : /\ row[j].final # NoPath => Held(j, row[j].final)
                   /\ row[j].status = "completed" => row[j].final # NoPath
ActiveHeld == \A j \in Job : active[j] \in Path => Held(j, active[j])
ClientHeld == client.at # "none" /\ client.final # NoPath => Held(client.job, client.final)
RecordsHeld ==
    \A d \in Delivery : /\ journal[d].phase # "none" => journal[d].path \in Path
                        /\ journal[d].phase \in Later => Held(d[1], journal[d].path)
Filed == {"begin", "move", "copied", "unlink", "validated"}
Found == {"subtitles", "commit", "recommit"}
Late == Found \cup Cleaning
FinHeld ==
    fin.at \in Working =>
        /\ fin.final # NoPath => Held(FinJob, fin.final)
        /\ fin.at \in Found => Held(FinJob, fin.path)
        /\ fin.at \in {"resolve", "save"} => journal[fin.d].phase \notin Later
        /\ fin.at \in Filed /\ journal[fin.d].phase # "none" =>
               journal[fin.d].path = fin.path \/ FinJob \in misfiled
        /\ fin.at \in Late /\ journal[fin.d].phase # "none" => Held(FinJob, journal[fin.d].path)
PathsAreHeld == RowsHeld /\ ActiveHeld /\ ClientHeld /\ RecordsHeld /\ FinHeld
DeliveryInv == PlaceInv /\ PathsAreHeld

\* As long as no call has failed, and where a move is a rename: a job that fails has no
\* file at a destination, and no record that would make it fail.
Unharmed == device = "same" /\ NoDatabaseError /\ left.io = scenario.io
NoCopies(d) == \A p \in Path : dest[p] # d
Placing == {"copied", "unlink", "validated", "subtitles"}
Placed == {"in_progress", "validated"}
RowsEmpty ==
    \A j \in Job :
        /\ row[j].status = "failed" => NoCopies(Current(j))
        /\ active[j] = NoPath => NoCopies(Current(j)) \/ (fin.at \in Placing /\ FinJob = j)
        /\ row[j].status = "downloading" => NoCopies(Current(j)) \/ journal[Current(j)].phase \in Placed
RecordsEmpty ==
    \A d \in Delivery :
        /\ journal[d].phase = "prepared" => NoCopies(d)
        /\ journal[d].phase \in Placed => \A p \in Path : dest[p] = d => p = journal[d].path
FinEmpty ==
    /\ fin.at \in {"mark_failed", "fail"} /\ Exists(FinJob) => NoCopies(fin.d)
    /\ fin.live /\ fin.at \in {"resolve", "save", "begin", "move"} => NoCopies(fin.d)
    /\ ~fin.live /\ fin.at \in {"resolve", "save", "begin", "move", "copied"} => staging[FinJob] # Nothing
    /\ fin.at \in {"unlink", "validated"} => \A p \in Path : dest[p] = fin.d => p = fin.path
FailsEmpty == RowsEmpty /\ RecordsEmpty /\ FinEmpty
Harmless == WorkInv /\ PathChosen /\ OnePlace /\ JournalTrue /\ PathsAreHeld
FailInv == JournalInv /\ DeliveryInv /\ (Unharmed => FailsEmpty)
------------------------------------------------------------------------------
\* Types.
LEMMA JobCardinality == \A S \in SUBSET Job : Cardinality(S) \in Nat
BY FS_Subset, FS_CardinalityType DEF FileAssumptions

\* A name that is free is found: a set of naturals has a lowest member.
LEMMA FreePathExists ==
    ASSUME FreePaths # {}
    PROVE  Min(FreePaths) \in Path
<1> DEFINE R == {ss \in Nat \X Nat : ss[1] < ss[2]}
<1>1. FreePaths \subseteq Nat /\ FreePaths \subseteq Path
  BY DEF FreePaths, Path, FileAssumptions
<1>2. IsWellFoundedOn(R, Nat)
  BY NatLessThanWellFounded DEF OpToRel
<1>3. PICK x \in FreePaths : \A y \in FreePaths : <<y, x>> \notin R
  <2> HIDE DEF R
  <2> QED BY <1>1, <1>2, WFMin
<1>4. ASSUME NEW y \in FreePaths PROVE x <= y
  <2>1. x \in Nat /\ y \in Nat
    BY <1>1
  <2>2. <<y, x>> \in Nat \X Nat /\ <<y, x>>[1] = y /\ <<y, x>>[2] = x
    BY <2>1
  <2>3. ~(y < x)
    BY <1>3, <2>2
  <2> QED BY <2>1, <2>3
<1> QED BY <1>1, <1>4 DEF Min

LEMMA SpendsBounds ==
    ASSUME left \in Bounds, NEW kind \in {"db", "io", "foreign", "cmd", "crash"}, Spend(kind)
    PROVE  /\ left' \in Bounds /\ left'[kind] < left[kind]
           /\ \A k \in {"db", "io", "foreign", "cmd", "crash"} \ {kind} : left'[k] = left[k]
BY DEF Spend, Bounds

LEMMA JournalWrites ==
    ASSUME MediaTypeOK, NEW d \in Delivery, NEW p \in Phase, NEW path \in Path \cup {NoPath}, Journal(d, p, path)
    PROVE  /\ journal' \in [Delivery -> [phase : Phase, path : Path \cup {NoPath}]]
           /\ left' \in Bounds
           /\ \A e \in Delivery : e # d => journal'[e] = journal[e]
           /\ left'.io = left.io /\ left'.db <= left.db
           /\ \/ journal'[d] = journal[d] /\ left'.db < left.db
              \/ row[d[1]].status = "deleted" /\ journal'[d] = journal[d] /\ left' = left
              \/ Exists(d[1]) /\ journal'[d] = [phase |-> p, path |-> path] /\ left' = left
<1>1. left \in Bounds /\ journal \in [Delivery -> [phase : Phase, path : Path \cup {NoPath}]]
  BY DEF MediaTypeOK
<1>2. CASE Spend("db") /\ UNCHANGED journal
  BY <1>1, <1>2, SpendsBounds DEF Bounds
<1>3. CASE Exists(d[1]) /\ journal' = [journal EXCEPT ![d] = [phase |-> p, path |-> path]] /\ UNCHANGED left
  BY <1>1, <1>3 DEF Bounds
<1>4. CASE ~Exists(d[1]) /\ journal' = journal /\ UNCHANGED left
  BY <1>1, <1>4 DEF Bounds, Exists
<1> QED BY <1>2, <1>3, <1>4 DEF Journal

LEMMA InitIsTyped == MediaInit => MediaTypeOK
<1> SUFFICES ASSUME MediaInit PROVE MediaTypeOK
  OBVIOUS
<1>1. FilesTypeOK
  BY DEF MediaInit, FilesTypeOK, Content, DeliveryAssumptions
<1>2. attempt \in [Job -> 1 .. MaxAttempts] /\ scenario \in Scenarios /\ left \in Bounds
  BY DEF MediaInit, FileAssumptions, DeliveryAssumptions
<1>3. fin \in [at : Label, d : Delivery \cup {<<>>}, live : BOOLEAN, path : Path \cup {NoPath},
               final : Path \cup {NoPath}, copy : Delivery \cup {Nothing}] /\ fin.at \notin Working
  BY DEF MediaInit, Idle, Label, Working, Moving, Cleaning
<1>4. journal \in [Delivery -> [phase : Phase, path : Path \cup {NoPath}]]
  BY DEF MediaInit, Phase, NoRecord
<1> QED BY <1>1, <1>2, <1>3, <1>4 DEF MediaInit, MediaTypeOK, NoClient

LEMMA CurrentIsDelivery == MediaTypeOK => \A j \in Job : Current(j) \in Delivery /\ Current(j)[1] = j /\ Current(j)[2] = attempt[j]
<1>1. MediaTypeOK => \A j \in Job : attempt[j] \in 1 .. MaxAttempts
  BY DEF MediaTypeOK
<1> QED BY <1>1 DEF Current, Delivery

LEMMA FilesTyped ==
    ASSUME FilesTypeOK, NEW j \in Job
    PROVE  /\ CleanupWorkDir(j) => FilesTypeOK'
           /\ RemoveSource(j) => FilesTypeOK'
           /\ FilesStay => FilesTypeOK'
           /\ \A S \in SUBSET Job : CleanupStaleWorkDirs(S) => FilesTypeOK'
           /\ \A p \in Path : staging[j] # Nothing /\ Rename(j, p) => FilesTypeOK'
           /\ \A c \in Delivery, p \in Path : Replace(c, p) => FilesTypeOK'
<1> USE DEF FilesTypeOK, Content
<1>1. CleanupWorkDir(j) \/ RemoveSource(j) \/ FilesStay => FilesTypeOK'
  BY DEF FilesStay, fileVars, CleanupWorkDir, RemoveSource
<1>2. ASSUME NEW S \in SUBSET Job, CleanupStaleWorkDirs(S) PROVE FilesTypeOK'
  BY <1>2 DEF CleanupStaleWorkDirs
<1>3. ASSUME NEW p \in Path, staging[j] # Nothing, Rename(j, p) PROVE FilesTypeOK'
  BY <1>3 DEF Rename
<1>4. ASSUME NEW c \in Delivery, NEW p \in Path, Replace(c, p) PROVE FilesTypeOK'
  BY <1>4 DEF Replace
<1> QED BY <1>1, <1>2, <1>3, <1>4

LEMMA EngineTyped ==
    ASSUME MediaTypeOK, NEW j \in Job, EngineEnds(j)
    PROVE  MediaTypeOK'
<1>1. Current(j) \in Delivery
  BY CurrentIsDelivery
<1>2. FilesTypeOK /\ FilesTypeOK'
  <2>1. CASE UNCHANGED <<staging, sidecar>>
    BY <2>1 DEF MediaTypeOK, FilesTypeOK, EngineEnds
  <2>2. CASE staging' = [staging EXCEPT ![j] = Current(j)] /\ \E s \in {"none", "staged"} : sidecar' = [sidecar EXCEPT ![j] = s]
    <3>1. FilesTypeOK /\ UNCHANGED <<dest, policy, device>>
      BY DEF MediaTypeOK, EngineEnds
    <3>2. staging' \in [Job -> Delivery \cup {Nothing}]
      BY <1>1, <2>2, <3>1 DEF FilesTypeOK
    <3>3. sidecar' \in [Job -> {"none", "staged", "delivered"}]
      BY <2>2, <3>1 DEF FilesTypeOK
    <3> QED BY <3>1, <3>2, <3>3 DEF FilesTypeOK
  <2> QED BY <2>1, <2>2 DEF EngineEnds, MediaTypeOK
<1>3. engine' \in [Job -> {"running", "completed", "failed", "cancelled", "unknown"}]
  <2>1. engine \in [Job -> {"running", "completed", "failed", "cancelled", "unknown"}]
    BY DEF MediaTypeOK
  <2>2. engine' = [engine EXCEPT ![j] = "completed"] \/ engine' = [engine EXCEPT ![j] = "failed"]
    BY DEF EngineEnds
  <2> QED BY <2>1, <2>2
<1>4. UNCHANGED <<row, attempt, active, journal, fin, todo, client, given_up, removed, misfiled, scenario, left>>
  BY DEF EngineEnds
<1> QED BY <1>2, <1>3, <1>4 DEF MediaTypeOK

LEMMA ForeignTyped ==
    ASSUME MediaTypeOK, NEW p \in Path, ForeignFile(p)
    PROVE  MediaTypeOK'
<1>1. FilesTypeOK'
  BY DEF MediaTypeOK, FilesTypeOK, ForeignFile, Content
<1> QED BY <1>1, SpendsBounds DEF MediaTypeOK, ForeignFile

LEMMA ProcessTyped ==
    ASSUME MediaTypeOK, Crash \/ Restart
    PROVE  MediaTypeOK'
<1> FilesTypeOK'
  BY DEF Crash, Restart, FilesStay, fileVars, MediaTypeOK, FilesTypeOK
<1>1. CASE Crash
  BY <1>1, SpendsBounds DEF MediaTypeOK, Crash, Idle, NoClient, Working, Moving, Cleaning, Label
<1>2. CASE Restart
  BY <1>2 DEF MediaTypeOK, Restart, Recovering, Idle, Working, Moving, Cleaning, Label, GetPendingFinalizations
<1> QED BY <1>1, <1>2

LEMMA EndJobTypes ==
    ASSUME MediaTypeOK, NEW j \in Job, NEW st \in {"completed", "failed", "cancelled"}, NEW final \in Path \cup {NoPath},
           NEW clean \in BOOLEAN, EndJob(j, st, final, clean)
    PROVE  /\ FilesTypeOK' /\ left' \in Bounds
           /\ row' \in [Job -> [status : {"downloading", "completed", "failed", "cancelled", "deleted"},
                                final : Path \cup {NoPath}]]
           /\ active' \in [Job -> Path \cup {NoPath, Untracked}]
           /\ engine' \in [Job -> {"running", "completed", "failed", "cancelled", "unknown"}]
<1> USE DEF MediaTypeOK
<1>1. FilesTypeOK'
  BY FilesTyped DEF EndJob
<1>2. CASE Spend("db") /\ UNCHANGED <<row, active, engine>>
  BY <1>1, <1>2, SpendsBounds
<1>3. CASE WriteRow(j, st, final) /\ RemoveActive(j) /\ engine' = [engine EXCEPT ![j] = "unknown"] /\ UNCHANGED left
  BY <1>1, <1>3 DEF WriteRow, RemoveActive
<1> QED BY <1>2, <1>3 DEF EndJob

LEMMA PollTyped ==
    ASSUME MediaTypeOK, NEW j \in Job, UpdateJobFromEngine(j)
    PROVE  MediaTypeOK'
<1>1. Current(j) \in Delivery /\ NoPath \in Path \cup {NoPath} /\ active[j] \in Path \cup {NoPath}
  BY CurrentIsDelivery DEF MediaTypeOK, UpdateJobFromEngine
<1>2. CASE StartFinalizing(j) /\ FilesStay /\ UNCHANGED <<row, active, engine, left>>
  BY <1>1, <1>2, FilesTyped DEF MediaTypeOK, StartFinalizing, NoRecord, Phase, UpdateJobFromEngine, Idle, Working, Moving, Label
<1>3. CASE (\E st \in {"completed", "failed", "cancelled"}, f \in {NoPath, active[j]}, c \in BOOLEAN : EndJob(j, st, f, c)) /\ UNCHANGED <<fin, journal>>
  <2> PICK st \in {"completed", "failed", "cancelled"}, f \in {NoPath, active[j]}, c \in BOOLEAN : EndJob(j, st, f, c)
    BY <1>3
  <2>1. /\ FilesTypeOK' /\ left' \in Bounds
        /\ row' \in [Job -> [status : {"downloading", "completed", "failed", "cancelled", "deleted"},
                             final : Path \cup {NoPath}]]
        /\ active' \in [Job -> Path \cup {NoPath, Untracked}]
        /\ engine' \in [Job -> {"running", "completed", "failed", "cancelled", "unknown"}]
    <3> HIDE DEF MediaTypeOK
    <3> f \in Path \cup {NoPath}
      BY <1>1
    <3> QED BY EndJobTypes
  <2> QED BY <1>3, <2>1 DEF MediaTypeOK, UpdateJobFromEngine
<1> QED BY <1>2, <1>3 DEF UpdateJobFromEngine

FinTypes == [at : Label, d : Delivery \cup {<<>>}, live : BOOLEAN, path : Path \cup {NoPath},
             final : Path \cup {NoPath}, copy : Delivery \cup {Nothing}]
RowTypes == [Job -> [status : {"downloading", "completed", "failed", "cancelled", "deleted"},
                     final : Path \cup {NoPath}]]
JournalTypes == [Delivery -> [phase : Phase, path : Path \cup {NoPath}]]

\* What a step of the monitor or the recovery may change, if it keeps to its types.
LEMMA FiledTyped ==
    ASSUME MediaTypeOK, FilesTypeOK', fin' \in FinTypes, fin'.at \in Working => fin'.d \in Delivery,
           row' \in RowTypes, active' \in [Job -> Path \cup {NoPath, Untracked}], journal' \in JournalTypes,
           left' \in Bounds, todo' \subseteq todo,
           engine' \in [Job -> {"running", "completed", "failed", "cancelled", "unknown"}],
           UNCHANGED <<attempt, given_up, removed, scenario, client>>, misfiled' \subseteq Job
    PROVE  MediaTypeOK'
BY DEF MediaTypeOK, FinTypes, RowTypes, JournalTypes

LEMMA WorkTyped ==
    ASSUME MediaTypeOK, FilesTypeOK', fin' \in FinTypes, fin'.at \in Working => fin'.d \in Delivery,
           row' \in RowTypes, active' \in [Job -> Path \cup {NoPath, Untracked}], journal' \in JournalTypes,
           left' \in Bounds, todo' \subseteq todo,
           engine' \in [Job -> {"running", "completed", "failed", "cancelled", "unknown"}],
           UNCHANGED <<attempt, given_up, removed, misfiled, scenario, client>>
    PROVE  MediaTypeOK'
<1> misfiled' \subseteq Job
  BY DEF MediaTypeOK
<1> QED BY FiledTyped

LEMMA GotoTyped ==
    ASSUME MediaTypeOK, fin.at \in Working, NEW l \in Label
    PROVE  /\ Goto(l) => fin' \in FinTypes /\ fin'.d = fin.d /\ fin'.at = l /\ fin'.live = fin.live /\ fin'.path = fin.path
                         /\ fin'.final = fin.final /\ fin'.copy = fin.copy
           /\ fin \in FinTypes /\ FinJob \in Job /\ fin.d \in Delivery
BY DEF MediaTypeOK, Goto, FinTypes, Delivery, FinJob

LEMMA DoneTyped == Done \in FinTypes /\ Done.at \in {"idle", "recover"} /\ (Done.live <=> fin.live) /\ (Done.at = "idle" <=> fin.live)
BY DEF Done, Idle, Recovering, FinTypes, Label

LEMMA WrittenRow ==
    ASSUME MediaTypeOK, NEW j \in Job, NEW st \in {"completed", "failed", "cancelled"}, NEW f \in Path \cup {NoPath}, WriteRow(j, st, f)
    PROVE  /\ row' \in RowTypes
           /\ \A k \in Job : k # j => row'[k] = row[k]
           /\ row'[j] = IF row[j].status = "deleted" THEN row[j] ELSE [status |-> st, final |-> f]
BY DEF MediaTypeOK, RowTypes, WriteRow, Exists

LEMMA UpdatePhaseTyped ==
    ASSUME MediaTypeOK, NEW from \in Working, NEW p \in Phase, NEW to \in Working, UpdatePhase(from, p, to)
    PROVE  MediaTypeOK'
<1>1. fin' \in FinTypes /\ fin'.d = fin.d /\ fin.d \in Delivery
  BY GotoTyped DEF UpdatePhase, UpdateFinalizationPhase, FinStep, Label
<1>2. journal' \in JournalTypes /\ left' \in Bounds
  <2>1. CASE UNCHANGED <<journal, left>>
    BY <2>1 DEF MediaTypeOK, JournalTypes
  <2>2. CASE Journal(fin.d, p, journal[fin.d].path)
    <3>1. journal[fin.d].path \in Path \cup {NoPath}
      BY <1>1 DEF MediaTypeOK
    <3> QED BY <1>1, <2>2, <3>1, JournalWrites DEF JournalTypes
  <2> QED BY <2>1, <2>2 DEF UpdatePhase, UpdateFinalizationPhase
<1>3. FilesTypeOK /\ FilesTypeOK'
  BY <1>1, FilesTyped DEF UpdatePhase, UpdateFinalizationPhase, MediaTypeOK, FilesStay, fileVars, FilesTypeOK
<1>4. row' \in RowTypes /\ active' \in [Job -> Path \cup {NoPath, Untracked}]
       /\ engine' \in [Job -> {"running", "completed", "failed", "cancelled", "unknown"}]
  BY DEF UpdatePhase, UpdateFinalizationPhase, FinStep, MediaTypeOK, RowTypes
<1> QED BY <1>1, <1>2, <1>3, <1>4, WorkTyped DEF UpdatePhase, UpdateFinalizationPhase, FinStep

LEMMA WorkingTyped ==
    MediaTypeOK /\ fin.at \in Working =>
        /\ fin.d \in Delivery /\ FinJob \in Job /\ fin.d[2] \in 1 .. MaxAttempts /\ fin.d = <<FinJob, fin.d[2]>>
        /\ fin.path \in Path \cup {NoPath} /\ fin.final \in Path \cup {NoPath} /\ fin.copy \in Delivery \cup {Nothing}
        /\ fin.live \in BOOLEAN
BY DEF MediaTypeOK, Delivery, FinJob

EngineTypes == [Job -> {"running", "completed", "failed", "cancelled", "unknown"}]
ActiveTypes == [Job -> Path \cup {NoPath, Untracked}]

LEMMA TypesKnown ==
    MediaTypeOK => /\ FilesTypeOK /\ row \in RowTypes /\ journal \in JournalTypes /\ left \in Bounds
                   /\ fin \in FinTypes /\ engine \in EngineTypes /\ active \in ActiveTypes
                   /\ attempt \in [Job -> 1 .. MaxAttempts] /\ todo \subseteq Delivery
                   /\ \A d \in Delivery : d[1] \in Job /\ d[2] \in 1 .. MaxAttempts /\ d = <<d[1], d[2]>>
BY DEF MediaTypeOK, RowTypes, JournalTypes, FinTypes, EngineTypes, ActiveTypes, Delivery

LEMMA PathFound == ASSUME FilesTypeOK, NEW j \in Job, CanName(j) PROVE ResolveFinalPath(j) \in Path \cup {NoPath}
<1>1. 1 \in Path
  BY DEF Path, FileAssumptions
<1> QED BY <1>1, FreePathExists DEF ResolveFinalPath, CanName, FilesTypeOK, ConflictPolicy

LEMMA FilesStayTyped == MediaTypeOK /\ FilesStay => FilesTypeOK'
BY DEF MediaTypeOK, FilesTypeOK, FilesStay, fileVars

LEMMA MoveTyped ==
    ASSUME MediaTypeOK, Resolve \/ Save \/ Move \/ CopyFails \/ ReplaceTarget \/ Unlink
    PROVE  MediaTypeOK'
<1> USE TypesKnown
<1>1. CASE Resolve
  <2>1. ResolveFinalPath(FinJob) \in Path \cup {NoPath}
    BY <1>1, PathFound, WorkingTyped DEF Resolve, FinStep, Working, Moving
  <2>2. fin' \in FinTypes /\ fin'.d = fin.d /\ fin.d \in Delivery
    <3>0. fin.at \in Working
      BY <1>1 DEF Resolve, FinStep, Working, Moving
    <3>1. fin \in FinTypes /\ fin.d \in Delivery
      BY <3>0, WorkingTyped
    <3>2. {"save", "fail", "mark_failed"} \subseteq Label
      BY DEF Label, Working, Moving
    <3>3. \A l \in Label, path \in Path \cup {NoPath} :
             /\ [fin EXCEPT !.at = l, !.path = path] \in FinTypes /\ [fin EXCEPT !.at = l, !.path = path].d = fin.d
             /\ [fin EXCEPT !.at = l] \in FinTypes /\ [fin EXCEPT !.at = l].d = fin.d
      BY <3>1 DEF FinTypes
    <3> DEFINE p == ResolveFinalPath(FinJob)
    <3>4. CASE fin' = [fin EXCEPT !.at = "save", !.path = p]
      <4>1. p \in Path \cup {NoPath}
        BY <2>1
      <4> HIDE DEF p
      <4> QED BY <3>1, <3>2, <3>3, <3>4, <4>1
    <3>5. CASE \E l \in {"fail", "mark_failed"} : fin' = [fin EXCEPT !.at = l]
      <4> PICK l \in {"fail", "mark_failed"} : fin' = [fin EXCEPT !.at = l]
        BY <3>5
      <4> QED BY <3>1, <3>2, <3>3
    <3> QED BY <1>1, <3>4, <3>5 DEF Resolve
  <2> QED BY <1>1, <2>2, FilesStayTyped, WorkTyped DEF Resolve, FinStep, RowTypes, JournalTypes, EngineTypes, ActiveTypes
<1>2. CASE Save
  <2>0. fin.at = "save"
    BY <1>2 DEF Save
  <2>1. fin' \in FinTypes /\ fin'.d = fin.d /\ fin.d \in Delivery
    BY <1>2, <2>0, GotoTyped DEF Save, Working, Moving, Label
  <2>2. fin.path \in Path \cup {NoPath} /\ journal[fin.d].phase \in Phase /\ "prepared" \in Phase
    BY <2>1 DEF FinTypes, JournalTypes, Phase
  <2>3. journal' \in JournalTypes /\ left' \in Bounds
    BY <1>2, <2>1, <2>2, JournalWrites DEF Save, JournalTypes
  <2>4. misfiled' \subseteq Job
    BY <1>2, <2>0, WorkingTyped DEF Save, MediaTypeOK, Working, Moving
  <2> QED BY <1>2, <2>1, <2>3, <2>4, FilesStayTyped, FiledTyped DEF Save, EngineTypes, ActiveTypes
<1>3. CASE Move
  <2>1. fin.at \in Working /\ FinJob \in Job /\ fin.d \in Delivery /\ fin.path \in Path \cup {NoPath}
    BY <1>3, GotoTyped DEF Move, FinStep, Working, Moving, FinTypes
  <2>2. staging[FinJob] \in Delivery \cup {Nothing} /\ policy[FinJob] \in ConflictPolicy
    BY <2>1 DEF FilesTypeOK
  <2>3. fin' \in FinTypes /\ fin'.d = fin.d
    <3>1. fin \in FinTypes /\ {"mark_failed", "validated", "copied"} \subseteq Label
      BY <2>1, TypesKnown DEF Label, Working, Moving
    <3>2. CASE Goto("mark_failed") \/ Goto("validated")
      BY <2>1, <3>1, <3>2, GotoTyped
    <3>3. CASE fin' = [fin EXCEPT !.at = "copied", !.copy = staging[FinJob]] /\ ~CannotMove(FinJob, fin.path)
      <4>1. staging[FinJob] \in Delivery
        BY <2>2, <3>3 DEF CannotMove
      <4> QED BY <3>1, <3>3, <4>1 DEF FinTypes
    <3> QED BY <1>3, <3>2, <3>3 DEF Move
  <2>4. FilesTypeOK'
    <3>1. CASE FilesStay
      BY <3>1, FilesStayTyped
    <3>2. CASE Rename(FinJob, fin.path) /\ ~CannotMove(FinJob, fin.path)
      <4>1. CASE fin.path \in Path
        BY <2>1, <3>2, <4>1, FilesTyped DEF CannotMove
      <4>2. CASE fin.path \notin Path
        BY <2>1, <2>2, <3>2, <4>2 DEF FilesTypeOK, Rename, Content
      <4> QED BY <4>1, <4>2
    <3> QED BY <1>3, <3>1, <3>2 DEF Move
  <2> QED BY <1>3, <2>1, <2>3, <2>4, WorkTyped DEF Move, FinStep, RowTypes, JournalTypes, EngineTypes, ActiveTypes
<1>4. CASE CopyFails
  <2>1. fin' \in FinTypes /\ fin'.d = fin.d /\ fin.d \in Delivery
    BY <1>4, GotoTyped DEF CopyFails, FinStep, Working, Moving, Label
  <2> QED BY <1>4, <2>1, FilesStayTyped, SpendsBounds, WorkTyped DEF CopyFails, FinStep, RowTypes, JournalTypes, EngineTypes, ActiveTypes
<1>5. CASE ReplaceTarget
  <2>1. fin.at \in Working /\ FinJob \in Job /\ fin.d \in Delivery /\ fin.path \in Path \cup {NoPath}
        /\ fin.copy \in Delivery \cup {Nothing}
    BY <1>5, GotoTyped DEF ReplaceTarget, FinStep, Working, Moving, FinTypes
  <2>2. fin' \in FinTypes /\ fin'.d = fin.d
    BY <1>5, <2>1, GotoTyped DEF ReplaceTarget, Label, Working, Moving
  <2>3. FilesTypeOK'
    <3>1. CASE FilesStay
      BY <3>1, FilesStayTyped
    <3>2. CASE Replace(fin.copy, fin.path)
      <4>1. fin.copy \in Content
        BY <2>1 DEF Content
      <4>2. dest \in [Path -> Content] => dest' \in [Path -> Content]
        BY <3>2, <4>1 DEF Replace
      <4> QED BY <3>2, <4>2 DEF Replace, FilesTypeOK
    <3> QED BY <1>5, <3>1, <3>2 DEF ReplaceTarget
  <2> QED BY <1>5, <2>1, <2>2, <2>3, WorkTyped DEF ReplaceTarget, FinStep, RowTypes, JournalTypes, EngineTypes, ActiveTypes
<1>6. CASE Unlink
  <2>1. fin' \in FinTypes /\ fin'.d = fin.d /\ fin.d \in Delivery /\ FinJob \in Job
    BY <1>6, GotoTyped DEF Unlink, FinStep, Working, Moving, Label
  <2> QED BY <1>6, <2>1, FilesTyped, WorkTyped DEF Unlink, FinStep, RowTypes, JournalTypes, EngineTypes, ActiveTypes
<1> QED BY <1>1, <1>2, <1>3, <1>4, <1>5, <1>6

LEMMA KeepsTyped ==
    ASSUME MediaTypeOK, fin.at \in Working, NEW l \in Working, Goto(l), FilesTypeOK',
           row' \in RowTypes, active' \in ActiveTypes, engine' \in EngineTypes, journal' \in JournalTypes, left' \in Bounds,
           UNCHANGED <<attempt, todo, given_up, removed, misfiled, scenario, client>>
    PROVE  MediaTypeOK'
<1>1. fin' \in FinTypes /\ fin'.d = fin.d /\ fin.d \in Delivery
  BY GotoTyped DEF Label
<1> QED BY <1>1, WorkTyped DEF EngineTypes, ActiveTypes

LEMMA DoneIsTyped ==
    ASSUME MediaTypeOK, fin' = Done, FilesTypeOK',
           row' \in RowTypes, active' \in ActiveTypes, engine' \in EngineTypes, journal' \in JournalTypes, left' \in Bounds,
           UNCHANGED <<attempt, todo, given_up, removed, misfiled, scenario, client>>
    PROVE  MediaTypeOK'
<1>1. fin' \in FinTypes /\ fin'.at \notin Working
  BY DoneTyped DEF Working, Moving, Cleaning
<1> QED BY <1>1, WorkTyped DEF EngineTypes, ActiveTypes

LEMMA LateTyped ==
    ASSUME MediaTypeOK, \/ Begin \/ Validated \/ Subtitles \/ Commit \/ NotCommitted \/ Committed \/ Forget
                        \/ Pending \/ Clean \/ Complete \/ MarkFailed \/ FailJob
    PROVE  MediaTypeOK'
<1> USE TypesKnown
<1>1. CASE \E from \in Working, p \in Phase, to \in Working : UpdatePhase(from, p, to)
  BY <1>1, UpdatePhaseTyped
<1>2. CASE \/ Begin \/ Committed \/ Pending \/ MarkFailed \/ (Validated /\ UpdatePhase("validated", "validated", "subtitles"))
  BY <1>1, <1>2 DEF Begin, Committed, Pending, MarkFailed, Working, Moving, Cleaning, Phase
<1>3. CASE FinStep("validated") /\ Goto("mark_failed") /\ FilesStay /\ UNCHANGED <<row, active, journal, left>>
  BY <1>3, FilesStayTyped, KeepsTyped DEF FinStep, Working, Moving
<1>4. CASE Subtitles
  <2>1. fin.at \in Working /\ FinJob \in Job /\ fin.path \in Path \cup {NoPath}
    BY <1>4, GotoTyped DEF Subtitles, FinStep, Working, Moving, FinTypes
  <2>2. fin' \in FinTypes /\ fin'.d = fin.d /\ fin.d \in Delivery
    <3>1. fin \in FinTypes /\ fin.d \in Delivery
      BY <1>4, <2>1, GotoTyped DEF FinTypes
    <3>2. \E l \in Label, q \in Path \cup {NoPath} : fin' = [fin EXCEPT !.at = l, !.final = q]
      BY <1>4, <2>1, <3>1 DEF Subtitles, KnowPath, Goto, FinTypes, Working, Moving, Label
    <3> QED BY <3>1, <3>2 DEF FinTypes
  <2>3. active' \in ActiveTypes
    BY <1>4, <2>1 DEF Subtitles, ActiveTypes, FinTypes
  <2>4. FilesTypeOK'
    BY <1>4, <2>1 DEF Subtitles, FilesTypeOK
  <2> QED BY <1>4, <2>2, <2>3, <2>4, SpendsBounds, WorkTyped DEF Subtitles, FinStep, RowTypes, JournalTypes, EngineTypes, ActiveTypes
<1>5. CASE Commit
  <2>1. fin.at \in Working /\ FinJob \in Job /\ fin.path \in Path \cup {NoPath}
    BY <1>5, GotoTyped DEF Commit, FinStep, Working, Moving, FinTypes
  <2>2. row' \in RowTypes
    BY <1>5, <2>1, WrittenRow DEF Commit
  <2> QED BY <1>5, <2>1, <2>2, FilesStayTyped, SpendsBounds, KeepsTyped DEF Commit, FinStep, Working, Moving, Cleaning
<1>6. CASE NotCommitted \/ Complete
  <2>1. fin.at \in Working /\ fin.d \in Delivery
    BY <1>6, WorkingTyped DEF NotCommitted, Complete, Working, Moving, Cleaning
  <2>2. journal[fin.d].path \in Path \cup {NoPath}
    BY <2>1 DEF JournalTypes
  <2>3. journal' \in JournalTypes /\ left' \in Bounds
    BY <1>6, <2>1, <2>2, JournalWrites DEF NotCommitted, Complete, UpdateFinalizationPhase, JournalTypes, Phase
  <2> QED BY <1>6, <2>3, FilesStayTyped, DoneIsTyped DEF NotCommitted, Complete
<1>7. CASE Forget
  <2>1. fin.at \in Working /\ FinJob \in Job
    BY <1>7, WorkingTyped DEF Forget, Working, Cleaning
  <2>2. active' \in ActiveTypes /\ engine' \in EngineTypes
    BY <1>7, <2>1 DEF Forget, RemoveActive, ActiveTypes, EngineTypes
  <2> QED BY <1>7, <2>1, <2>2, FilesStayTyped, KeepsTyped DEF Forget, Working, Cleaning
<1>8. CASE Clean
  <2>1. fin.at \in Working /\ FinJob \in Job
    BY <1>8, WorkingTyped DEF Clean, FinStep, Working, Cleaning
  <2> QED BY <1>8, <2>1, FilesTyped, KeepsTyped DEF Clean, FinStep, Working, Cleaning
<1>9. CASE FailJob
  <2>1. fin.at \in Working /\ FinJob \in Job /\ fin.final \in Path \cup {NoPath}
    BY <1>9, GotoTyped DEF FailJob, Working, Moving, FinTypes
  <2>2. FilesTypeOK' /\ left' \in Bounds /\ row' \in RowTypes /\ active' \in ActiveTypes /\ engine' \in EngineTypes
    BY <1>9, <2>1, EndJobTypes DEF FailJob, RowTypes, ActiveTypes, EngineTypes
  <2> QED BY <1>9, <2>2, DoneIsTyped DEF FailJob
<1> QED BY <1>2, <1>3, <1>4, <1>5, <1>6, <1>7, <1>8, <1>9 DEF Validated

LEMMA RecoveryTyped ==
    ASSUME MediaTypeOK, RecoverySteps
    PROVE  MediaTypeOK'
<1> USE TypesKnown
<1>1. CASE \E d \in Delivery : Reconcile(d)
  <2> PICK d \in Delivery : Reconcile(d)
    BY <1>1
  <2>1. ReconcileRecord(d) \in Working
    BY DEF ReconcileRecord, Working, Moving, Cleaning
  <2>2. d[1] \in Job /\ journal[d].path \in Path \cup {NoPath} /\ row[d[1]].final \in Path \cup {NoPath}
    BY DEF JournalTypes, RowTypes
  <2>3. fin' \in FinTypes /\ fin'.d \in Delivery
    BY <2>1, <2>2 DEF Reconcile, FinTypes, Label
  <2> QED BY <2>3, FilesStayTyped, WorkTyped DEF Reconcile, EngineTypes, ActiveTypes
<1>2. CASE Recommit
  <2>1. fin.at \in Working /\ FinJob \in Job /\ fin.path \in Path \cup {NoPath}
    BY <1>2, GotoTyped DEF Recommit, FinStep, Working, FinTypes
  <2>2. row' \in RowTypes
    BY <1>2, <2>1, WrittenRow DEF Recommit
  <2> QED BY <1>2, <2>1, <2>2, FilesStayTyped, SpendsBounds, KeepsTyped DEF Recommit, FinStep, Working, Cleaning
<1>3. CASE FailInterrupted
  <2>1. row' \in RowTypes
    BY <1>3 DEF FailInterrupted, RowTypes
  <2>2. left' \in Bounds
    <3> PICK failing \in SUBSET {j \in Job : row[j].status = "downloading"} :
                 Cardinality(failing) <= left.db /\ left' = [left EXCEPT !.db = @ - Cardinality(failing)]
      BY <1>3 DEF FailInterrupted
    <3> Cardinality(failing) \in Nat
      BY JobCardinality
    <3> QED BY DEF Bounds
  <2>3. fin' \in FinTypes /\ fin'.at = "sweep"
    BY <1>3 DEF FailInterrupted, Goto, FinTypes, Label
  <2>4. fin'.at \notin Working
    BY <2>3 DEF Working, Moving, Cleaning
  <2> QED BY <1>3, <2>1, <2>2, <2>3, <2>4, FilesStayTyped, WorkTyped DEF FailInterrupted, EngineTypes, ActiveTypes
<1>4. CASE Sweep
  <2>1. fin' \in FinTypes /\ fin'.at \notin Working
    BY <1>4 DEF Sweep, Idle, FinTypes, Label, Working, Moving, Cleaning
  <2>2. FilesTypeOK'
    <3> DEFINE S == {j \in Job : row[j].status = "downloading"}
    <3>1. CleanupStaleWorkDirs(S) /\ S \subseteq Job
      BY <1>4 DEF Sweep
    <3> HIDE DEF S
    <3> QED BY <3>1 DEF CleanupStaleWorkDirs, FilesTypeOK
  <2> QED BY <1>4, <2>1, <2>2, WorkTyped DEF Sweep, EngineTypes, ActiveTypes
<1> QED BY <1>1, <1>2, <1>3, <1>4 DEF RecoverySteps

LEMMA ClientTyped ==
    ASSUME MediaTypeOK, ClientSteps
    PROVE  MediaTypeOK'
<1> USE TypesKnown
<1>1. ASSUME NEW j \in Job, CancelBegins(j) PROVE MediaTypeOK'
  <2>1. row[j].final \in Path \cup {NoPath}
    BY DEF RowTypes
  <2>2. engine' \in EngineTypes
    BY <1>1 DEF CancelBegins, EngineTypes
  <2>3. left' \in Bounds
    BY <1>1, SpendsBounds DEF CancelBegins
  <2> QED BY <1>1, <2>1, <2>2, <2>3, FilesStayTyped DEF CancelBegins, MediaTypeOK, EngineTypes
<1>2. CASE CancelWrites
  <2>1. client.job \in Job /\ client.final \in Path \cup {NoPath}
    BY <1>2 DEF CancelWrites, MediaTypeOK
  <2>2. CASE UNCHANGED <<row, active, engine>> /\ Spend("db") /\ client' = NoClient
    BY <1>2, <2>2, FilesStayTyped, SpendsBounds DEF CancelWrites, MediaTypeOK, NoClient
  <2>3. CASE /\ WriteRow(client.job, "cancelled", client.final) /\ RemoveActive(client.job)
             /\ engine' = [engine EXCEPT ![client.job] = "unknown"]
             /\ client' = [client EXCEPT !.at = "clean"] /\ UNCHANGED left
    <3>1. row' \in RowTypes
      BY <2>1, <2>3, WrittenRow
    <3>2. active' \in ActiveTypes /\ engine' \in EngineTypes
      BY <2>1, <2>3 DEF RemoveActive, ActiveTypes, EngineTypes
    <3>3. client'.at \in {"none", "clean"} /\ client'.job \in Job /\ client'.final \in Path \cup {NoPath}
      BY <1>2, <2>1, <2>3 DEF CancelWrites, MediaTypeOK, NoClient
    <3> QED BY <1>2, <2>3, <3>1, <3>2, <3>3, FilesStayTyped DEF CancelWrites, MediaTypeOK, RowTypes, ActiveTypes, EngineTypes
  <2> QED BY <1>2, <2>2, <2>3 DEF CancelWrites
<1>3. CASE CancelCleans
  <2>1. client.job \in Job
    BY <1>3 DEF CancelCleans, MediaTypeOK
  <2> QED BY <1>3, <2>1, FilesTyped DEF CancelCleans, MediaTypeOK, NoClient
<1>4. ASSUME NEW j \in Job, Retry(j) PROVE MediaTypeOK'
  <2>1. FilesTypeOK' /\ left' \in Bounds
    BY <1>4, FilesTyped, SpendsBounds DEF Retry
  <2>2. attempt' \in [Job -> 1 .. MaxAttempts]
    BY <1>4 DEF Retry, FileAssumptions
  <2>3. row' \in RowTypes /\ active' \in ActiveTypes /\ engine' \in EngineTypes
    BY <1>4 DEF Retry, RowTypes, ActiveTypes, EngineTypes
  <2> QED BY <1>4, <2>1, <2>2, <2>3 DEF Retry, MediaTypeOK, RowTypes, ActiveTypes, EngineTypes
<1>5. ASSUME NEW j \in Job, DeleteFiles(j) PROVE MediaTypeOK'
  <2>1. row[j].final \in Path \cup {NoPath}
    BY DEF RowTypes
  <2>2. FilesTypeOK' /\ left' \in Bounds
    BY <1>5, SpendsBounds DEF DeleteFiles, FilesTypeOK, Content
  <2>3. engine' \in EngineTypes /\ removed' \subseteq Path
    BY <1>5 DEF DeleteFiles, EngineTypes, MediaTypeOK
  <2> QED BY <1>5, <2>1, <2>2, <2>3 DEF DeleteFiles, MediaTypeOK, EngineTypes
<1>6. CASE DeleteRows
  <2>1. client.job \in Job
    BY <1>6 DEF DeleteRows, MediaTypeOK
  <2>2. left' \in Bounds
    BY <1>6, SpendsBounds DEF DeleteRows
  <2>3. row' \in RowTypes /\ active' \in ActiveTypes /\ journal' \in JournalTypes
    <3>1. CASE UNCHANGED <<row, active, journal>>
      BY <3>1
    <3>2. CASE row' = [row EXCEPT ![client.job].status = "deleted"] /\ RemoveActive(client.job)
               /\ journal' = [d \in Delivery |-> IF d[1] = client.job THEN NoRecord ELSE journal[d]]
      <4>1. row' \in RowTypes
        BY <2>1, <3>2 DEF RowTypes
      <4>2. active' \in ActiveTypes
        BY <2>1, <3>2 DEF ActiveTypes, RemoveActive
      <4>3. journal' \in JournalTypes
        BY <3>2 DEF JournalTypes, Phase, NoRecord
      <4> QED BY <4>1, <4>2, <4>3
    <3> QED BY <1>6, <3>1, <3>2 DEF DeleteRows
  <2> QED BY <1>6, <2>2, <2>3, FilesStayTyped DEF DeleteRows, MediaTypeOK, NoClient, RowTypes, ActiveTypes, JournalTypes
<1> QED BY <1>1, <1>2, <1>3, <1>4, <1>5, <1>6 DEF ClientSteps

\* Every step keeps to the types.
LEMMA TypesStay == MediaTypeOK /\ [MediaNext]_vars => MediaTypeOK'
<1>1. MediaTypeOK /\ UNCHANGED vars => MediaTypeOK'
  BY DEF vars, fileVars, mediaVars, MediaTypeOK, FilesTypeOK
<1> QED BY <1>1, EngineTyped, PollTyped, ForeignTyped, ProcessTyped, MoveTyped, LateTyped, RecoveryTyped, ClientTyped
        DEF MediaNext, FinalizationSteps
------------------------------------------------------------------------------
\* Who works on what.
Fruitless == {"running", "failed", "cancelled"}

\* The monitor or the recovery goes on with the job it works on; it may add files of
\* that download and remove what is staged.
LEMMA StaysAtWork ==
    ASSUME WorkInv, MediaTypeOK',
           \/ fin.at \in Moving /\ fin'.at \in Moving
           \/ fin.at \in Cleaning /\ fin'.at \in Cleaning /\ (fin.at \in {"committed", "forget"} => fin'.at \in {"committed", "forget"}),
           fin'.d = fin.d, fin'.live = fin.live,
           UNCHANGED <<row, attempt, engine, client, todo>>,
           \A j \in Job : active'[j] = Untracked <=> active[j] = Untracked,
           \A d \in Delivery : journal'[d] = journal[d] \/ (d = fin.d /\ Exists(FinJob)),
           \A j \in Job : staging'[j] \in {staging[j], Nothing},
           \A p \in Path : dest'[p] # dest[p] => dest'[p] = Current(FinJob) /\ engine[FinJob] \notin Fruitless,
           fin'.at = "copied" => fin'.copy = Current(FinJob) /\ engine[FinJob] \notin Fruitless
    PROVE  WorkInv'
<1> USE DEF WorkInv
<1>0. /\ fin.at \in Working /\ FinJob \in Job /\ fin.d \in Delivery /\ FinJob' = FinJob
      /\ \A j \in Job : Current(j)' = Current(j) /\ Current(j) \in Delivery /\ Current(j)[1] = j /\ Current(j)[2] = attempt[j]
      /\ fin'.at \in Working
  BY WorkingTyped, CurrentIsDelivery DEF FinJob, Current, Working
<1>1. ServesOrRecovers'
  BY <1>0 DEF ServesOrRecovers, Serving, Working, Moving, Cleaning
<1>2. TrackedDownloads'
  BY <1>0 DEF TrackedDownloads, Moving, Cleaning
<1>3. WorksOnCurrent'
  BY <1>0 DEF WorksOnCurrent, Moving, Cleaning
<1>4. FilesHaveDownloads'
  <2>1. \A j \in Job : staging'[j] \in {Nothing, Current(j)'}
    BY <1>0 DEF FilesHaveDownloads
  <2>2. \A p \in Path : dest'[p] \in Delivery => dest'[p][2] <= attempt'[dest'[p][1]]
    <3> SUFFICES ASSUME NEW p \in Path, dest'[p] \in Delivery PROVE dest'[p][2] <= attempt'[dest'[p][1]]
      OBVIOUS
    <3>1. CASE dest'[p] = dest[p]
      BY <3>1 DEF FilesHaveDownloads
    <3>2. CASE dest'[p] = Current(FinJob)
      <4>1. attempt[FinJob] \in Nat
        BY <1>0, TypesKnown
      <4> QED BY <1>0, <3>2, <4>1
    <3> QED BY <3>1, <3>2
  <2>3. \A d \in Delivery : journal'[d].phase # "none" => d[2] <= attempt'[d[1]]
    BY <1>0 DEF FilesHaveDownloads, FinJob
  <2> QED BY <1>0, <2>1, <2>2, <2>3 DEF FilesHaveDownloads
<1>5. NothingYet'
  <2> SUFFICES ASSUME NEW j \in Job, engine[j] \in Fruitless
               PROVE  /\ staging'[j] = Nothing /\ \A p \in Path : dest'[p] # Current(j)
                      /\ fin'.at = "copied" => fin'.copy # Current(j)
    BY <1>0 DEF NothingYet, CopiesOf, Fruitless
  <2>1. staging[j] = Nothing /\ \A p \in Path : dest[p] # Current(j)
    BY DEF NothingYet, CopiesOf, Fruitless
  <2>2. FinJob # j => Current(FinJob) # Current(j)
    BY <1>0
  <2> QED BY <1>0, <2>1, <2>2
<1>6. DeletedHaveNoRecord'
  BY <1>0 DEF DeletedHaveNoRecord, Exists, FinJob
<1> QED BY <1>1, <1>2, <1>3, <1>4, <1>5, <1>6

LEMMA WorkInvHolds == MediaInit => WorkInv
<1> SUFFICES ASSUME MediaInit PROVE WorkInv
  OBVIOUS
<1>1. MediaTypeOK
  BY InitIsTyped
<1>2. fin = Idle /\ todo = {} /\ client.at = "none" /\ fin.at = "idle" /\ fin.live
  BY DEF MediaInit, Idle, NoClient
<1>3. ServesOrRecovers /\ WorksOnCurrent /\ DeletedHaveNoRecord
  BY <1>2 DEF MediaInit, NoRecord, ServesOrRecovers, WorksOnCurrent, DeletedHaveNoRecord, Serving, Working, Moving, Cleaning
<1>4. TrackedDownloads
  BY <1>2 DEF MediaInit, TrackedDownloads, NoPath, Untracked
<1>5. FilesHaveDownloads /\ NothingYet
  <2>1. \A j \in Job : Current(j) \in Delivery
    BY <1>1, CurrentIsDelivery
  <2> QED BY <1>2, <2>1 DEF MediaInit, NoRecord, FilesHaveDownloads, NothingYet, CopiesOf, Working, Moving, Cleaning, FileAssumptions, Delivery
<1> QED BY <1>1, <1>3, <1>4, <1>5 DEF WorkInv

\* A step of UpdatePhase changes its own record alone.
LEMMA PhaseEffects ==
    ASSUME MediaTypeOK, NEW from \in Working, NEW p \in Phase, NEW to \in Working, UpdatePhase(from, p, to)
    PROVE  /\ fin.at = from /\ fin'.at = to /\ fin'.d = fin.d /\ fin'.live = fin.live /\ fin'.path = fin.path
           /\ fin'.final = fin.final /\ fin'.copy = fin.copy
           /\ UNCHANGED <<row, active, attempt, engine, client, todo, given_up, removed, misfiled, scenario, dest, staging, sidecar, policy, device>>
           /\ \A d \in Delivery : d # fin.d => journal'[d] = journal[d]
           /\ left'.io = left.io /\ left'.db <= left.db
           /\ \/ journal'[fin.d] = journal[fin.d]
                 /\ (journal[fin.d].phase = "none" \/ ~Exists(FinJob) \/ left'.db < left.db)
              \/ /\ Exists(FinJob) /\ journal[fin.d].phase # "none" /\ left' = left
                 /\ journal'[fin.d] = [phase |-> p, path |-> journal[fin.d].path]
<1>1. fin.at = from /\ fin.d \in Delivery /\ FinJob = fin.d[1]
  BY WorkingTyped DEF UpdatePhase, UpdateFinalizationPhase, FinStep, FinJob
<1>2. /\ fin'.at = to /\ fin'.d = fin.d /\ fin'.live = fin.live /\ fin'.path = fin.path
      /\ fin'.final = fin.final /\ fin'.copy = fin.copy
  BY <1>1, GotoTyped DEF UpdatePhase, UpdateFinalizationPhase, Label
<1>3. UNCHANGED <<row, active, attempt, engine, client, todo, given_up, removed, misfiled, scenario, dest, staging, sidecar, policy, device>>
  BY DEF UpdatePhase, UpdateFinalizationPhase, FinStep, FilesStay, fileVars
<1>4. CASE journal[fin.d].phase = "none"
  <2>1. UNCHANGED <<journal, left>>
    BY <1>4 DEF UpdatePhase, UpdateFinalizationPhase
  <2>2. left.db <= left.db
    BY TypesKnown DEF Bounds
  <2> QED BY <1>1, <1>2, <1>3, <1>4, <2>1, <2>2
<1>5. CASE journal[fin.d].phase # "none"
  <2>1. Journal(fin.d, p, journal[fin.d].path)
    BY <1>5 DEF UpdatePhase, UpdateFinalizationPhase
  <2>2. journal[fin.d].path \in Path \cup {NoPath}
    BY <1>1, TypesKnown DEF JournalTypes
  <2>3. /\ \A e \in Delivery : e # fin.d => journal'[e] = journal[e]
        /\ left'.io = left.io /\ left'.db <= left.db
        /\ \/ journal'[fin.d] = journal[fin.d] /\ left'.db < left.db
           \/ row[fin.d[1]].status = "deleted" /\ journal'[fin.d] = journal[fin.d] /\ left' = left
           \/ Exists(fin.d[1]) /\ journal'[fin.d] = [phase |-> p, path |-> journal[fin.d].path] /\ left' = left
    BY <1>1, <2>1, <2>2, JournalWrites
  <2> QED BY <1>1, <1>2, <1>3, <1>5, <2>3 DEF Exists
<1> QED BY <1>4, <1>5

\* What the single steps of a move do.
LEMMA ResolveEffects ==
    ASSUME MediaTypeOK, Resolve
    PROVE  /\ fin.at = "resolve" /\ fin'.d = fin.d /\ fin'.live = fin.live /\ fin'.final = fin.final /\ fin'.copy = fin.copy
           /\ UNCHANGED <<row, active, attempt, engine, client, todo, given_up, removed, misfiled, scenario, dest, staging, sidecar, policy,
                          device, journal, left>>
           /\ \/ fin'.at = "save" /\ fin'.path = ResolveFinalPath(FinJob) /\ fin'.path # NoPath
              \/ fin.live /\ fin'.at = "fail" /\ fin'.path = fin.path
              \/ ~fin.live /\ fin'.at = "mark_failed" /\ fin'.path = fin.path
BY TypesKnown DEF Resolve, FinStep, FilesStay, fileVars, FinTypes

LEMMA SaveEffects ==
    ASSUME MediaTypeOK, Save
    PROVE  /\ fin.at = "save" /\ fin'.at = "begin" /\ fin'.d = fin.d /\ fin'.live = fin.live /\ fin'.final = fin.final
           /\ fin'.copy = fin.copy /\ fin'.path = fin.path
           /\ UNCHANGED <<row, active, attempt, engine, client, todo, given_up, removed, scenario, dest, staging, sidecar, policy, device>>
           /\ \A d \in Delivery : d # fin.d => journal'[d] = journal[d]
           /\ left'.io = left.io /\ left'.db <= left.db
           /\ misfiled \subseteq misfiled'
           /\ journal'[fin.d].phase = "none" \/ journal'[fin.d].path = fin.path \/ FinJob \in misfiled'
           /\ \/ journal'[fin.d] = journal[fin.d]
                 /\ (~Exists(FinJob) \/ (~fin.live /\ journal[fin.d].path = fin.path) \/ left'.db < left.db)
              \/ /\ Exists(FinJob) /\ left' = left /\ journal'[fin.d].path = fin.path
                 /\ journal'[fin.d].phase = IF fin.live THEN "prepared" ELSE journal[fin.d].phase
<1>1. fin.at = "save" /\ fin.d \in Delivery /\ FinJob = fin.d[1] /\ fin.path \in Path \cup {NoPath}
  BY WorkingTyped DEF Save, FinJob, Working, Moving
<1>2. /\ fin'.at = "begin" /\ fin'.d = fin.d /\ fin'.live = fin.live /\ fin'.path = fin.path
      /\ fin'.final = fin.final /\ fin'.copy = fin.copy
  BY <1>1, GotoTyped DEF Save, Label, Working, Moving
<1>3. UNCHANGED <<row, active, attempt, engine, client, todo, given_up, removed, scenario, dest, staging, sidecar, policy, device>>
  BY DEF Save, FilesStay, fileVars
<1>4. journal[fin.d].phase \in Phase /\ "prepared" \in Phase /\ left.db <= left.db
  BY <1>1, TypesKnown DEF JournalTypes, Phase, Bounds
<1>m. /\ misfiled \subseteq misfiled'
      /\ journal[fin.d].phase = "none" \/ journal'[fin.d].path = fin.path \/ FinJob \in misfiled'
  BY DEF Save
<1>5. CASE UNCHANGED <<journal, left>> /\ ~fin.live /\ fin.path = journal[fin.d].path
  BY <1>1, <1>2, <1>3, <1>4, <1>5, <1>m
<1> DEFINE p == IF fin.live THEN "prepared" ELSE journal[fin.d].phase
<1>6. CASE Journal(fin.d, p, fin.path)
  <2>1. p \in Phase
    BY <1>4
  <2> HIDE DEF p
  <2>2. /\ \A e \in Delivery : e # fin.d => journal'[e] = journal[e]
        /\ left'.io = left.io /\ left'.db <= left.db
        /\ \/ journal'[fin.d] = journal[fin.d] /\ left'.db < left.db
           \/ row[fin.d[1]].status = "deleted" /\ journal'[fin.d] = journal[fin.d] /\ left' = left
           \/ Exists(fin.d[1]) /\ journal'[fin.d] = [phase |-> p, path |-> fin.path] /\ left' = left
    BY <1>1, <1>6, <2>1, JournalWrites
  <2>3. journal'[fin.d] = [phase |-> p, path |-> fin.path] => journal'[fin.d].phase = p /\ journal'[fin.d].path = fin.path
    OBVIOUS
  <2> QED BY <1>1, <1>2, <1>3, <2>2, <2>3, <1>m DEF Exists, p
<1> QED BY <1>5, <1>6 DEF Save

LEMMA MoveEffects ==
    ASSUME MediaTypeOK, Move
    PROVE  /\ fin.at = "move" /\ fin'.d = fin.d /\ fin'.live = fin.live /\ fin'.final = fin.final /\ fin'.path = fin.path
           /\ UNCHANGED <<row, active, attempt, engine, client, todo, given_up, removed, misfiled, scenario, sidecar, policy, device, journal, left>>
           /\ \/ fin'.at = "mark_failed" /\ CannotMove(FinJob, fin.path) /\ UNCHANGED <<dest, staging>>
              \/ /\ fin'.at = "copied" /\ ~CannotMove(FinJob, fin.path) /\ ~CanRename(fin.path)
                 /\ fin'.copy = staging[FinJob] /\ UNCHANGED <<dest, staging>>
              \/ /\ fin'.at = "validated" /\ ~CannotMove(FinJob, fin.path) /\ CanRename(fin.path)
                 /\ dest' = [dest EXCEPT ![fin.path] = staging[FinJob]] /\ staging' = [staging EXCEPT ![FinJob] = Nothing]
<1>1. fin.at = "move" /\ fin \in FinTypes
  BY TypesKnown DEF Move, FinStep
<1>2. UNCHANGED <<row, active, attempt, engine, client, todo, given_up, removed, misfiled, scenario, sidecar, policy, device, journal, left>>
  BY DEF Move, FinStep, FilesStay, fileVars, Rename
<1>3. CASE Goto("mark_failed") /\ CannotMove(FinJob, fin.path) /\ FilesStay
  BY <1>1, <1>2, <1>3 DEF Goto, FinTypes, FilesStay, fileVars
<1>4. CASE /\ fin' = [fin EXCEPT !.at = "copied", !.copy = staging[FinJob]] /\ FilesStay
           /\ ~CannotMove(FinJob, fin.path) /\ ~CanRename(fin.path)
  BY <1>1, <1>2, <1>4 DEF FinTypes, FilesStay, fileVars
<1>5. CASE Goto("validated") /\ ~CannotMove(FinJob, fin.path) /\ CanRename(fin.path) /\ Rename(FinJob, fin.path)
  BY <1>1, <1>2, <1>5 DEF Goto, FinTypes, Rename
<1> QED BY <1>3, <1>4, <1>5 DEF Move

LEMMA ReplaceEffects ==
    ASSUME MediaTypeOK, ReplaceTarget
    PROVE  /\ fin.at = "copied" /\ fin'.d = fin.d /\ fin'.live = fin.live /\ fin'.final = fin.final /\ fin'.path = fin.path
           /\ fin'.copy = fin.copy
           /\ UNCHANGED <<row, active, attempt, engine, client, todo, given_up, removed, misfiled, scenario, staging, sidecar, policy, device, journal, left>>
           /\ \/ fin'.at = "mark_failed" /\ CopyConflicts(FinJob, fin.path) /\ UNCHANGED dest
              \/ fin'.at = "unlink" /\ ~CopyConflicts(FinJob, fin.path) /\ dest' = [dest EXCEPT ![fin.path] = fin.copy]
BY TypesKnown DEF ReplaceTarget, FinStep, FinTypes, Goto, FilesStay, fileVars, Replace

LEMMA SubtitlesEffects ==
    ASSUME MediaTypeOK, Subtitles
    PROVE  /\ fin.at = "subtitles" /\ fin'.d = fin.d /\ fin'.live = fin.live /\ fin'.final = fin.path /\ fin'.path = fin.path
           /\ fin'.copy = fin.copy /\ UNCHANGED <<row, attempt, engine, client, todo, given_up, removed, misfiled, scenario, dest, staging, policy, device, journal>>
           /\ active' = [active EXCEPT ![FinJob] = IF active[FinJob] = Untracked THEN active[FinJob] ELSE fin.path]
           /\ \/ fin'.at = "commit" /\ left'.db = left.db /\ left'.io <= left.io
              \/ fin.live /\ fin'.at = "mark_failed" /\ left'.db = left.db /\ left'.io < left.io
<1>1. fin \in FinTypes /\ left \in Bounds /\ left.io <= left.io
  BY TypesKnown DEF Bounds
<1>2. Spend("io") => left'.io < left.io /\ left'.io <= left.io /\ left'.db = left.db
  <2> SUFFICES ASSUME Spend("io") PROVE left'.io < left.io /\ left'.io <= left.io /\ left'.db = left.db
    OBVIOUS
  <2>1. left' \in Bounds /\ left'.io < left.io /\ left'.db = left.db
    BY <1>1, SpendsBounds
  <2> QED BY <1>1, <2>1 DEF Bounds
<1>3. \A l \in Label : KnowPath(l) => /\ fin'.at = l /\ fin'.d = fin.d /\ fin'.live = fin.live /\ fin'.final = fin.path
                                      /\ fin'.path = fin.path /\ fin'.copy = fin.copy
  BY <1>1 DEF KnowPath, FinTypes
<1>4. "commit" \in Label /\ "mark_failed" \in Label
  BY DEF Label, Working, Moving
<1>5. /\ fin.at = "subtitles"
      /\ UNCHANGED <<row, attempt, engine, client, todo, given_up, removed, misfiled, scenario, dest, staging, policy, device, journal>>
      /\ active' = [active EXCEPT ![FinJob] = IF active[FinJob] = Untracked THEN active[FinJob] ELSE fin.path]
  BY DEF Subtitles, FinStep
<1>6. \/ KnowPath("commit") /\ left'.db = left.db /\ left'.io <= left.io
      \/ fin.live /\ KnowPath("mark_failed") /\ left'.db = left.db /\ left'.io < left.io
  <2>1. CASE KnowPath("commit") /\ UNCHANGED left
    BY <1>1, <2>1
  <2>2. CASE Spend("io") /\ KnowPath(IF fin.live THEN "mark_failed" ELSE "commit")
    BY <1>2, <2>2
  <2> QED BY <2>1, <2>2 DEF Subtitles
<1> QED BY <1>3, <1>4, <1>5, <1>6

\* A step that only goes from label to label, and may find a disk full.
LEMMA PlainEffects ==
    ASSUME MediaTypeOK,
           \/ CopyFails
           \/ FinStep("validated") /\ ~Valid(fin.path, fin.d) /\ Goto("mark_failed") /\ FilesStay /\ UNCHANGED <<row, active, journal, left>>
    PROVE  /\ fin'.at = "mark_failed" /\ fin'.d = fin.d /\ fin'.live = fin.live /\ fin'.final = fin.final /\ fin'.path = fin.path
           /\ fin'.copy = fin.copy
           /\ UNCHANGED <<row, active, attempt, engine, client, todo, given_up, removed, misfiled, scenario, dest, staging, sidecar, policy, device, journal>>
           /\ \/ fin.at = "copied" /\ left'.db = left.db /\ left'.io < left.io
              \/ fin.at = "validated" /\ ~Valid(fin.path, fin.d) /\ left' = left
<1>1. fin \in FinTypes /\ left \in Bounds
  BY TypesKnown
<1> QED BY <1>1, SpendsBounds DEF CopyFails, FinStep, Goto, FinTypes, FilesStay, fileVars

LEMMA UnlinkEffects ==
    ASSUME MediaTypeOK, Unlink \/ Clean
    PROVE  /\ fin'.d = fin.d /\ fin'.live = fin.live /\ fin'.final = fin.final /\ fin'.path = fin.path /\ fin'.copy = fin.copy
           /\ UNCHANGED <<row, active, attempt, engine, client, todo, given_up, removed, misfiled, scenario, dest, policy, device, journal, left>>
           /\ staging' = [staging EXCEPT ![FinJob] = Nothing]
           /\ \/ fin.at = "unlink" /\ fin'.at = "validated"
              \/ fin.at = "clean" /\ fin'.at = "complete"
BY TypesKnown DEF Unlink, Clean, FinStep, Goto, FinTypes, RemoveSource, CleanupWorkDir

LEMMA CommitEffects ==
    ASSUME MediaTypeOK, Commit
    PROVE  /\ fin.at = "commit" /\ fin'.d = fin.d /\ fin'.live = fin.live /\ fin'.final = fin.final /\ fin'.path = fin.path
           /\ fin'.copy = fin.copy
           /\ UNCHANGED <<active, attempt, engine, client, todo, given_up, removed, misfiled, scenario, dest, staging, sidecar, policy, device, journal>>
           /\ \A j \in Job : j # FinJob => row'[j] = row[j]
           /\ left'.io = left.io
           /\ \/ /\ fin'.at = "committed" /\ left' = left
                 /\ row'[FinJob] = IF row[FinJob].status = "deleted" THEN row[FinJob] ELSE [status |-> "completed", final |-> fin.path]
              \/ fin'.at = "not_committed" /\ row' = row /\ left'.db < left.db
<1>1. fin \in FinTypes /\ left \in Bounds /\ FinJob \in Job /\ fin.path \in Path \cup {NoPath}
  BY TypesKnown, WorkingTyped DEF Commit, FinStep, Working, Moving
<1>2. Spend("db") => left'.db < left.db /\ left'.io = left.io
  <2> SUFFICES ASSUME Spend("db") PROVE left'.db < left.db /\ left'.io = left.io
    OBVIOUS
  <2> QED BY <1>1, SpendsBounds
<1>3. WriteRow(FinJob, "completed", fin.path) =>
        /\ \A j \in Job : j # FinJob => row'[j] = row[j]
        /\ row'[FinJob] = IF row[FinJob].status = "deleted" THEN row[FinJob] ELSE [status |-> "completed", final |-> fin.path]
  <2> SUFFICES ASSUME WriteRow(FinJob, "completed", fin.path)
               PROVE /\ \A j \in Job : j # FinJob => row'[j] = row[j]
                     /\ row'[FinJob] = IF row[FinJob].status = "deleted" THEN row[FinJob] ELSE [status |-> "completed", final |-> fin.path]
    OBVIOUS
  <2> QED BY <1>1, WrittenRow
<1> QED BY <1>1, <1>2, <1>3 DEF Commit, FinStep, Goto, FinTypes, FilesStay, fileVars

LEMMA RecommitEffects ==
    ASSUME MediaTypeOK, Recommit
    PROVE  /\ fin.at = "recommit" /\ fin'.at = "pending" /\ fin'.d = fin.d /\ fin'.live = fin.live /\ fin'.final = fin.final
           /\ fin'.path = fin.path /\ fin'.copy = fin.copy
           /\ UNCHANGED <<active, attempt, engine, client, todo, given_up, removed, misfiled, scenario, dest, staging, sidecar, policy, device, journal>>
           /\ \A j \in Job : j # FinJob => row'[j] = row[j]
           /\ left'.io = left.io
           /\ \/ row' = row /\ row[FinJob].status = "completed" /\ left' = left
              \/ row' = row /\ left'.db < left.db
              \/ /\ left' = left /\ row[FinJob].status # "completed"
                 /\ row'[FinJob] = IF row[FinJob].status = "deleted" THEN row[FinJob] ELSE [status |-> "completed", final |-> fin.path]
<1>1. fin \in FinTypes /\ left \in Bounds /\ FinJob \in Job /\ fin.path \in Path \cup {NoPath}
  BY TypesKnown, WorkingTyped DEF Recommit, FinStep, Working
<1>2. Spend("db") => left'.db < left.db /\ left'.io = left.io
  <2> SUFFICES ASSUME Spend("db") PROVE left'.db < left.db /\ left'.io = left.io
    OBVIOUS
  <2> QED BY <1>1, SpendsBounds
<1>3. WriteRow(FinJob, "completed", fin.path) =>
        /\ \A j \in Job : j # FinJob => row'[j] = row[j]
        /\ row'[FinJob] = IF row[FinJob].status = "deleted" THEN row[FinJob] ELSE [status |-> "completed", final |-> fin.path]
  <2> SUFFICES ASSUME WriteRow(FinJob, "completed", fin.path)
               PROVE /\ \A j \in Job : j # FinJob => row'[j] = row[j]
                     /\ row'[FinJob] = IF row[FinJob].status = "deleted" THEN row[FinJob] ELSE [status |-> "completed", final |-> fin.path]
    OBVIOUS
  <2> QED BY <1>1, WrittenRow
<1> QED BY <1>1, <1>2, <1>3 DEF Recommit, FinStep, Goto, FinTypes, FilesStay, fileVars

\* The two ends of a delivery that write the record.
LEMMA EndRecordEffects ==
    ASSUME MediaTypeOK, NotCommitted \/ Complete
    PROVE  /\ fin.at \in {"not_committed", "complete"} /\ fin.d \in Delivery /\ FinJob \in Job /\ FinJob = fin.d[1] /\ fin' = Done
           /\ UNCHANGED <<row, active, attempt, engine, client, todo, given_up, removed, misfiled, scenario, dest, staging, sidecar, policy, device>>
           /\ \A d \in Delivery : d # fin.d => journal'[d] = journal[d]
           /\ left'.io = left.io /\ left'.db <= left.db
           /\ \/ journal'[fin.d] = journal[fin.d] /\ (journal[fin.d].phase = "none" \/ ~Exists(FinJob) \/ left'.db < left.db)
              \/ /\ Exists(FinJob) /\ journal[fin.d].phase # "none" /\ left' = left /\ journal'[fin.d].path = journal[fin.d].path
                 /\ journal'[fin.d].phase = IF fin.at = "complete" THEN "complete" ELSE "failed"
<1>1. fin.d \in Delivery /\ FinJob = fin.d[1] /\ FinJob \in Job
  BY WorkingTyped DEF NotCommitted, Complete, FinJob, Working, Moving, Cleaning
<1>2. journal[fin.d].path \in Path \cup {NoPath} /\ "complete" \in Phase /\ "failed" \in Phase
  BY <1>1, TypesKnown DEF JournalTypes, Phase
<1>6. UNCHANGED <<row, active, attempt, engine, client, todo, given_up, removed, misfiled, scenario, dest, staging, sidecar, policy, device>>
      /\ fin' = Done /\ fin.at \in {"not_committed", "complete"}
  BY DEF NotCommitted, Complete, FilesStay, fileVars
<1>7. CASE journal[fin.d].phase = "none"
  <2>1. UNCHANGED <<journal, left>> /\ left.db <= left.db
    BY <1>7, TypesKnown DEF NotCommitted, Complete, UpdateFinalizationPhase, Bounds
  <2> QED BY <1>1, <1>6, <1>7, <2>1
<1> SUFFICES ASSUME journal[fin.d].phase # "none"
             PROVE  /\ \A d \in Delivery : d # fin.d => journal'[d] = journal[d]
                    /\ left'.io = left.io /\ left'.db <= left.db
                    /\ \/ journal'[fin.d] = journal[fin.d] /\ (~Exists(FinJob) \/ left'.db < left.db)
                       \/ /\ Exists(FinJob) /\ left' = left /\ journal'[fin.d].path = journal[fin.d].path
                          /\ journal'[fin.d].phase = IF fin.at = "complete" THEN "complete" ELSE "failed"
  BY <1>1, <1>6, <1>7
<1>3. PICK p \in {"failed", "complete"} : Journal(fin.d, p, journal[fin.d].path)
                                        /\ fin.at = (IF p = "failed" THEN "not_committed" ELSE "complete")
  BY DEF NotCommitted, Complete, UpdateFinalizationPhase
<1>4. /\ \A e \in Delivery : e # fin.d => journal'[e] = journal[e]
      /\ left'.io = left.io /\ left'.db <= left.db
      /\ \/ journal'[fin.d] = journal[fin.d] /\ left'.db < left.db
         \/ row[fin.d[1]].status = "deleted" /\ journal'[fin.d] = journal[fin.d] /\ left' = left
         \/ Exists(fin.d[1]) /\ journal'[fin.d] = [phase |-> p, path |-> journal[fin.d].path] /\ left' = left
  BY <1>1, <1>2, <1>3, JournalWrites
<1>5. journal'[fin.d] = [phase |-> p, path |-> journal[fin.d].path] =>
        journal'[fin.d].phase = p /\ journal'[fin.d].path = journal[fin.d].path
  OBVIOUS
<1> QED BY <1>1, <1>3, <1>4, <1>5 DEF Exists

LEMMA DoneEffects ==
    /\ Done.at = (IF fin.live THEN "idle" ELSE "recover") /\ Done.d = <<>> /\ Done.live = (IF fin.live THEN TRUE ELSE FALSE)
    /\ Done.path = NoPath /\ Done.final = NoPath /\ Done.copy = Nothing
BY DEF Done, Idle, Recovering

\* A job that ends, in whatever state.
LEMMA EndEffects ==
    ASSUME MediaTypeOK, NEW j \in Job, NEW st \in {"completed", "failed", "cancelled"}, NEW f \in Path \cup {NoPath},
           NEW clean \in BOOLEAN, EndJob(j, st, f, clean)
    PROVE  /\ UNCHANGED <<dest, policy, device>> /\ left'.io = left.io
           /\ \A k \in Job : k # j => row'[k] = row[k] /\ active'[k] = active[k] /\ engine'[k] = engine[k] /\ staging'[k] = staging[k]
           /\ \/ UNCHANGED <<row, active, engine, staging>> /\ left'.db < left.db
              \/ /\ left' = left /\ active'[j] = Untracked /\ engine'[j] = "unknown"
                 /\ row'[j] = IF row[j].status = "deleted" THEN row[j] ELSE [status |-> st, final |-> f]
                 /\ staging'[j] = IF clean THEN Nothing ELSE staging[j]
<1>1. left \in Bounds /\ active \in ActiveTypes /\ engine \in EngineTypes /\ FilesTypeOK
  BY TypesKnown
<1>2. CASE Spend("db") /\ FilesStay /\ UNCHANGED <<row, active, engine>>
  BY <1>1, <1>2, SpendsBounds DEF FilesStay, fileVars
<1>3. CASE /\ WriteRow(j, st, f) /\ RemoveActive(j) /\ engine' = [engine EXCEPT ![j] = "unknown"]
           /\ (IF clean THEN CleanupWorkDir(j) ELSE FilesStay) /\ UNCHANGED left
  <2>1. /\ \A k \in Job : k # j => row'[k] = row[k]
        /\ row'[j] = IF row[j].status = "deleted" THEN row[j] ELSE [status |-> st, final |-> f]
    BY <1>3, WrittenRow
  <2>2. active'[j] = Untracked /\ engine'[j] = "unknown"
        /\ \A k \in Job : k # j => active'[k] = active[k] /\ engine'[k] = engine[k]
    BY <1>1, <1>3 DEF RemoveActive, ActiveTypes, EngineTypes
  <2>3. /\ UNCHANGED <<dest, policy, device>>
        /\ \A k \in Job : k # j => staging'[k] = staging[k]
        /\ staging'[j] = IF clean THEN Nothing ELSE staging[j]
    BY <1>1, <1>3 DEF CleanupWorkDir, FilesStay, fileVars, FilesTypeOK
  <2> QED BY <1>3, <2>1, <2>2, <2>3
<1> QED BY <1>2, <1>3 DEF EndJob

LEMMA PollEffects ==
    ASSUME MediaTypeOK, NEW j \in Job, UpdateJobFromEngine(j)
    PROVE  /\ fin.at = "idle" /\ active[j] # Untracked /\ active[j] \in Path \cup {NoPath}
           /\ UNCHANGED <<attempt, todo, given_up, removed, misfiled, scenario, client>>
           /\ \/ /\ engine[j] = "completed" /\ active[j] = NoPath /\ staging[j] # Nothing /\ StartFinalizing(j)
                 /\ UNCHANGED <<row, active, engine, left, dest, staging, policy, device>>
              \/ /\ UNCHANGED <<fin, journal>>
                 /\ \E st \in {"completed", "failed", "cancelled"}, f \in Path \cup {NoPath}, clean \in BOOLEAN :
                      /\ EndJob(j, st, f, clean)
                      /\ \/ engine[j] = "completed" /\ active[j] = NoPath /\ staging[j] = Nothing /\ st = "failed" /\ f = NoPath
                         \/ engine[j] = "completed" /\ active[j] # NoPath /\ st = "completed" /\ f = active[j]
                         \/ engine[j] \in {"failed", "cancelled"} /\ st = engine[j] /\ f = active[j]
<1>1. active[j] \in Path \cup {NoPath} /\ fin.at = "idle" /\ active[j] # Untracked
      /\ UNCHANGED <<attempt, todo, given_up, removed, misfiled, scenario, client>>
  BY TypesKnown DEF UpdateJobFromEngine, ActiveTypes
<1>2. CASE /\ engine[j] = "completed" /\ active[j] = NoPath /\ staging[j] # Nothing /\ StartFinalizing(j) /\ FilesStay
           /\ UNCHANGED <<row, active, engine, left>>
  BY <1>1, <1>2 DEF FilesStay, fileVars
<1>3. CASE engine[j] = "completed" /\ active[j] = NoPath /\ staging[j] = Nothing /\ EndJob(j, "failed", NoPath, FALSE) /\ UNCHANGED <<fin, journal>>
  BY <1>1, <1>3
<1>4. CASE engine[j] = "completed" /\ active[j] # NoPath /\ EndJob(j, "completed", active[j], TRUE) /\ UNCHANGED <<fin, journal>>
  BY <1>1, <1>4
<1>5. CASE engine[j] \in {"failed", "cancelled"} /\ EndJob(j, engine[j], active[j], TRUE) /\ UNCHANGED <<fin, journal>>
  <2> engine[j] \in {"completed", "failed", "cancelled"} /\ TRUE \in BOOLEAN /\ active[j] \in Path \cup {NoPath}
    BY <1>1, <1>5
  <2> QED BY <1>1, <1>5
<1> QED BY <1>2, <1>3, <1>4, <1>5 DEF UpdateJobFromEngine

LEMMA StartEffects ==
    ASSUME MediaTypeOK, NEW j \in Job, StartFinalizing(j)
    PROVE  /\ fin'.at = "resolve" /\ fin'.d = Current(j) /\ fin'.live /\ fin'.path = NoPath /\ fin'.final = NoPath /\ fin'.copy = Nothing
           /\ \A d \in Delivery : d # Current(j) => journal'[d] = journal[d]
           /\ journal'[Current(j)].phase = "none" /\ journal'[Current(j)].path = NoPath
BY TypesKnown, CurrentIsDelivery DEF StartFinalizing, Idle, NoRecord, JournalTypes

LEMMA MovesKeepWork ==
    ASSUME WorkInv, MediaTypeOK', \/ Resolve \/ Save \/ Begin \/ Move \/ CopyFails \/ ReplaceTarget \/ Unlink \/ Validated \/ Subtitles
                     \/ MarkFailed \/ Committed \/ Pending \/ Clean
    PROVE  WorkInv'
<1> USE DEF WorkInv
<1>0. \A j \in Job : staging[j] # Nothing => staging[j] = Current(j) /\ engine[j] \notin Fruitless
  BY DEF FilesHaveDownloads, NothingYet, Fruitless
<1>a. fin.at \in Working => FinJob \in Job /\ fin.d \in Delivery
  BY WorkingTyped
<1>1. CASE Resolve
  <2>1. fin.at \in Moving /\ fin'.at \in Moving /\ fin'.at # "copied"
    BY <1>1, ResolveEffects DEF Moving
  <2> QED BY <1>1, <2>1, ResolveEffects, StaysAtWork
<1>2. CASE Save
  <2>1. fin.at \in Moving /\ fin'.at \in Moving /\ fin'.at # "copied"
    BY <1>2, SaveEffects DEF Moving
  <2> QED BY <1>2, <1>a, <2>1, SaveEffects, StaysAtWork DEF Working
<1>3. ASSUME NEW from \in Working, NEW p \in Phase, NEW to \in Working, UpdatePhase(from, p, to), to # "copied",
             \/ from \in Moving /\ to \in Moving
             \/ from \in Cleaning /\ to \in Cleaning /\ (from \in {"committed", "forget"} => to \in {"committed", "forget"})
      PROVE  WorkInv'
  <2>1. /\ fin.at = from /\ fin'.at = to /\ fin'.d = fin.d /\ fin'.live = fin.live
        /\ UNCHANGED <<row, active, attempt, engine, client, todo, dest, staging>>
        /\ \A d \in Delivery : d # fin.d => journal'[d] = journal[d]
        /\ journal'[fin.d] = journal[fin.d] \/ Exists(FinJob)
    BY <1>3, PhaseEffects
  <2>2. \/ fin.at \in Moving /\ fin'.at \in Moving
        \/ fin.at \in Cleaning /\ fin'.at \in Cleaning /\ (fin.at \in {"committed", "forget"} => fin'.at \in {"committed", "forget"})
    BY <1>3, <2>1
  <2>3. \A d \in Delivery : journal'[d] = journal[d] \/ (d = fin.d /\ Exists(FinJob))
    BY <2>1
  <2>4. fin'.at # "copied" /\ \A j \in Job : active'[j] = Untracked <=> active[j] = Untracked
    BY <1>3, <2>1
  <2> QED BY <2>1, <2>2, <2>3, <2>4, StaysAtWork
<1>4. CASE \/ Begin \/ Committed \/ Pending \/ MarkFailed \/ (Validated /\ UpdatePhase("validated", "validated", "subtitles"))
  <2> "in_progress" \in Phase /\ "db_committed" \in Phase /\ "cleanup_pending" \in Phase /\ "failed" \in Phase /\ "validated" \in Phase
    BY DEF Phase
  <2>1. CASE Begin
    BY <2>1, <1>3 DEF Begin, Working, Moving
  <2>2. CASE Committed
    BY <2>2, <1>3 DEF Committed, Working, Cleaning
  <2>3. CASE Pending
    BY <2>3, <1>3 DEF Pending, Working, Cleaning
  <2>4. CASE MarkFailed
    BY <2>4, <1>3 DEF MarkFailed, Working, Moving
  <2>5. CASE UpdatePhase("validated", "validated", "subtitles")
    BY <2>5, <1>3 DEF Working, Moving
  <2> QED BY <1>4, <2>1, <2>2, <2>3, <2>4, <2>5
<1>5. CASE \/ CopyFails
           \/ FinStep("validated") /\ ~Valid(fin.path, fin.d) /\ Goto("mark_failed") /\ FilesStay /\ UNCHANGED <<row, active, journal, left>>
  <2>1. fin.at \in Moving /\ fin'.at \in Moving /\ fin'.at # "copied"
    BY <1>5, PlainEffects DEF Moving
  <2> QED BY <1>5, <2>1, PlainEffects, StaysAtWork
<1>6. CASE Move
  <2>1. fin.at \in Moving /\ fin'.at \in Moving /\ FinJob \in Job
    BY <1>6, <1>a, MoveEffects DEF Moving, Working
  <2>2. ~CannotMove(FinJob, fin.path) => staging[FinJob] = Current(FinJob) /\ engine[FinJob] \notin Fruitless
    BY <1>0, <2>1 DEF CannotMove
  <2>3. \A j \in Job : staging'[j] \in {staging[j], Nothing}
    BY <1>6, <2>1, MoveEffects, TypesKnown DEF FilesTypeOK
  <2>4. \A p \in Path : dest'[p] # dest[p] => dest'[p] = Current(FinJob) /\ engine[FinJob] \notin Fruitless
    BY <1>6, <2>2, MoveEffects, TypesKnown DEF FilesTypeOK
  <2> QED BY <1>6, <2>1, <2>2, <2>3, <2>4, MoveEffects, StaysAtWork
<1>7. CASE ReplaceTarget
  <2>1. fin.at = "copied" /\ fin.at \in Moving /\ fin'.at \in Moving /\ fin'.at # "copied" /\ FinJob \in Job
    BY <1>7, <1>a, ReplaceEffects DEF Moving, Working
  <2>2. fin.copy = Current(FinJob) /\ engine[FinJob] \notin Fruitless
    BY <2>1 DEF FilesHaveDownloads, NothingYet, Fruitless
  <2>3. \A p \in Path : dest'[p] # dest[p] => dest'[p] = Current(FinJob) /\ engine[FinJob] \notin Fruitless
    BY <1>7, <2>2, ReplaceEffects, TypesKnown DEF FilesTypeOK
  <2> QED BY <1>7, <2>1, <2>3, ReplaceEffects, StaysAtWork
<1>8. CASE Unlink \/ Clean
  <2>1. /\ FinJob \in Job /\ fin'.at # "copied"
        /\ \/ fin.at \in Moving /\ fin'.at \in Moving
           \/ fin.at \in Cleaning /\ fin'.at \in Cleaning /\ (fin.at \in {"committed", "forget"} => fin'.at \in {"committed", "forget"})
    BY <1>8, <1>a, UnlinkEffects DEF Moving, Cleaning, Working
  <2>2. \A j \in Job : staging'[j] \in {staging[j], Nothing}
    BY <1>8, <2>1, UnlinkEffects, TypesKnown DEF FilesTypeOK
  <2> QED BY <1>8, <2>1, <2>2, UnlinkEffects, StaysAtWork
<1>9. CASE Subtitles
  <2>1. FinJob \in Job /\ fin.path \in Path \cup {NoPath} /\ fin.at \in Moving /\ fin'.at \in Moving /\ fin'.at # "copied"
    BY <1>9, <1>a, SubtitlesEffects, WorkingTyped DEF Moving, Working
  <2>2. fin.path # Untracked
    BY <2>1 DEF Path, NoPath, Untracked, FileAssumptions
  <2>3. \A j \in Job : active'[j] = Untracked <=> active[j] = Untracked
    BY <1>9, <2>1, <2>2, SubtitlesEffects, TypesKnown DEF ActiveTypes
  <2> QED BY <1>9, <2>1, <2>3, SubtitlesEffects, StaysAtWork
<1> QED BY <1>1, <1>2, <1>4, <1>5, <1>6, <1>7, <1>8, <1>9 DEF Validated

\* Where the job has got a result, or there is nothing more to do.
LEMMA EndsKeepWork ==
    ASSUME WorkInv, MediaTypeOK', \/ Commit \/ NotCommitted \/ Forget \/ Complete \/ FailJob \/ Recommit
    PROVE  WorkInv'
<1> USE DEF WorkInv
<1>w. MediaTypeOK
  OBVIOUS
<1>k. client.at # "none" => client.job \in Job
  BY DEF MediaTypeOK
<1>a. fin.at \in Working => FinJob \in Job /\ fin.d \in Delivery
  BY WorkingTyped
<1>b. /\ \A j \in Job : Current(j) \in Delivery /\ Current(j)[1] = j /\ Current(j)[2] = attempt[j]
  BY CurrentIsDelivery
<1>1. CASE Commit \/ Recommit
  <2>1. /\ FinJob \in Job /\ fin'.d = fin.d /\ fin'.live = fin.live /\ fin'.at # "copied" /\ fin.at \in Working /\ fin'.at \in Working
        /\ UNCHANGED <<active, attempt, engine, client, todo, given_up, removed, misfiled, scenario, dest, staging, journal>>
        /\ \A j \in Job : j # FinJob => row'[j] = row[j]
        /\ row'[FinJob].status = row[FinJob].status \/ (row[FinJob].status # "deleted" /\ row'[FinJob].status = "completed")
    BY <1>1, <1>a, CommitEffects, RecommitEffects DEF Moving, Cleaning, Working
  <2>2. FinJob' = FinJob /\ \A j \in Job : Current(j)' = Current(j)
    BY <2>1 DEF FinJob, Current
  <2>3. /\ fin.at = "commit" /\ fin'.at = "committed" => row'[FinJob].status \in {"completed", "deleted"}
        /\ fin.at = "commit" /\ fin'.at = "not_committed" => row' = row
        /\ fin.at = "commit" => fin'.at \in {"committed", "not_committed"}
        /\ fin.at = "recommit" => fin'.at = "pending"
        /\ fin.at \in {"commit", "recommit"}
    BY <1>1, CommitEffects, RecommitEffects
  <2>4. ServesOrRecovers'
    BY <2>1, <2>3 DEF ServesOrRecovers, Serving
  <2>5. TrackedDownloads'
    <3>1. fin.at = "recommit" => \A j \in Job : active[j] = Untracked
      BY DEF ServesOrRecovers, Serving
    <3>2. fin.at = "commit" /\ ~fin.live => \A j \in Job : active[j] = Untracked
      BY DEF ServesOrRecovers, Serving
    <3> QED BY <2>1, <2>2, <2>3, <3>1, <3>2 DEF TrackedDownloads
  <2>6. WorksOnCurrent'
    BY <2>1, <2>2, <2>3 DEF WorksOnCurrent, Moving, Cleaning, ServesOrRecovers
  <2>7. FilesHaveDownloads'
    BY <2>1, <2>2 DEF FilesHaveDownloads
  <2>8. NothingYet'
    BY <2>1, <2>2 DEF NothingYet, CopiesOf
  <2>9. DeletedHaveNoRecord'
    BY <2>1, <1>b, TypesKnown DEF DeletedHaveNoRecord
  <2> QED BY <2>4, <2>5, <2>6, <2>7, <2>8, <2>9
<1>2. ASSUME fin' = Done, UNCHANGED <<attempt, client, todo, dest, staging>>, fin.at \in Working, FinJob \in Job,
             fin.at \notin {"committed", "forget"},
             \A j \in Job : \/ active'[j] = active[j] /\ engine'[j] = engine[j] /\ row'[j] = row[j]
                            \/ active'[j] = Untracked /\ engine'[j] = "unknown" /\ (row'[j].status = "deleted" => row[j].status = "deleted"),
             \A d \in Delivery : journal'[d] = journal[d] \/ (d = fin.d /\ Exists(FinJob)), FinJob = fin.d[1],
             row' = row \/ journal' = journal
      PROVE  WorkInv'
  <2>1. \A j \in Job : Current(j)' = Current(j)
    BY <1>2 DEF Current
  <2>2. fin'.at \notin Working /\ (fin'.live <=> fin.live) /\ (fin'.at = "idle" <=> fin.live) /\ fin'.at \in {"idle", "recover"}
    BY <1>2, DoneEffects DEF Working, Moving, Cleaning
  <2>3. ServesOrRecovers'
    BY <1>2, <2>2 DEF ServesOrRecovers, Serving, Working, Moving, Cleaning
  <2>4. TrackedDownloads'
    BY <1>2, <1>k, <2>2 DEF TrackedDownloads
  <2>5. WorksOnCurrent'
    BY <2>2 DEF WorksOnCurrent, Working
  <2>6. FilesHaveDownloads'
    BY <1>2, <2>1, <2>2 DEF FilesHaveDownloads, Working
  <2>7. NothingYet'
    BY <1>2, <2>1, <2>2 DEF NothingYet, CopiesOf
  <2>8. DeletedHaveNoRecord'
    BY <1>2, TypesKnown DEF DeletedHaveNoRecord, Exists
  <2> QED BY <2>3, <2>4, <2>5, <2>6, <2>7, <2>8
<1>3. CASE NotCommitted \/ Complete
  BY <1>2, <1>3, EndRecordEffects DEF Working, Moving, Cleaning
<1>4. CASE FailJob
  <2>1. fin.at = "fail" /\ fin.at \in Working /\ FinJob \in Job /\ FinJob = fin.d[1] /\ fin.final \in Path \cup {NoPath}
    BY <1>4, WorkingTyped DEF FailJob, Working, Moving, FinJob
  <2>2. /\ UNCHANGED dest
        /\ \A k \in Job : k # FinJob => row'[k] = row[k] /\ active'[k] = active[k] /\ engine'[k] = engine[k] /\ staging'[k] = staging[k]
        /\ \/ UNCHANGED <<row, active, engine, staging>>
           \/ /\ active'[FinJob] = Untracked /\ engine'[FinJob] = "unknown"
              /\ row'[FinJob] = IF row[FinJob].status = "deleted" THEN row[FinJob] ELSE [status |-> "failed", final |-> fin.final]
              /\ staging'[FinJob] = staging[FinJob]
    <3>1. PICK c \in BOOLEAN, st \in {"completed", "failed", "cancelled"} : c = FALSE /\ st = "failed"
      OBVIOUS
    <3>2. EndJob(FinJob, st, fin.final, c) /\ fin.final \in Path \cup {NoPath}
      BY <1>4, <2>1, <3>1 DEF FailJob
    <3> HIDE DEF WorkInv
    <3>3. /\ UNCHANGED dest
          /\ \A k \in Job : k # FinJob => row'[k] = row[k] /\ active'[k] = active[k] /\ engine'[k] = engine[k] /\ staging'[k] = staging[k]
          /\ \/ UNCHANGED <<row, active, engine, staging>>
             \/ /\ active'[FinJob] = Untracked /\ engine'[FinJob] = "unknown"
                /\ row'[FinJob] = IF row[FinJob].status = "deleted" THEN row[FinJob] ELSE [status |-> st, final |-> fin.final]
                /\ staging'[FinJob] = IF c THEN Nothing ELSE staging[FinJob]
      BY <1>w, <2>1, <3>2, EndEffects
    <3> QED BY <3>1, <3>3
  <2>3. staging' = staging
    BY <1>4, FilesTyped DEF FailJob, EndJob, FilesStay, fileVars
  <2>4. row'[FinJob].status = "deleted" => row[FinJob].status = "deleted"
    BY <2>2
  <2>5. \A j \in Job : \/ active'[j] = active[j] /\ engine'[j] = engine[j] /\ row'[j] = row[j]
                       \/ active'[j] = Untracked /\ engine'[j] = "unknown" /\ (row'[j].status = "deleted" => row[j].status = "deleted")
    BY <2>2, <2>4
  <2> QED BY <1>2, <1>4, <2>1, <2>2, <2>3, <2>5 DEF FailJob
<1>5. CASE Forget
  <2>1. /\ fin.at = "forget" /\ fin'.at = "pending" /\ fin'.d = fin.d /\ fin'.live = fin.live /\ FinJob' = FinJob /\ FinJob \in Job
        /\ UNCHANGED <<row, attempt, journal, todo, client, dest, staging>>
        /\ \A j \in Job : \/ active'[j] = Untracked /\ engine'[j] = "unknown"
                          \/ j # FinJob /\ active'[j] = active[j] /\ engine'[j] = engine[j]
    BY <1>5, <1>a, TypesKnown DEF Forget, Goto, FinTypes, RemoveActive, ActiveTypes, EngineTypes, FilesStay, fileVars, FinJob, Working, Cleaning
  <2>2. \A j \in Job : Current(j)' = Current(j)
    BY <2>1 DEF Current
  <2>3. ServesOrRecovers'
    BY <2>1 DEF ServesOrRecovers, Serving, Working, Cleaning
  <2>4. TrackedDownloads'
    BY <1>k, <2>1 DEF TrackedDownloads
  <2>5. WorksOnCurrent'
    BY <2>1, <2>2 DEF WorksOnCurrent, Moving, Cleaning
  <2>6. FilesHaveDownloads'
    BY <2>1, <2>2 DEF FilesHaveDownloads, Working, Cleaning
  <2>7. NothingYet'
    BY <2>1, <2>2 DEF NothingYet, CopiesOf
  <2>8. DeletedHaveNoRecord'
    BY <2>1 DEF DeletedHaveNoRecord
  <2> QED BY <2>3, <2>4, <2>5, <2>6, <2>7, <2>8
<1> QED BY <1>1, <1>3, <1>4, <1>5
------------------------------------------------------------------------------
\* What the other steps do: yt-dlp, the user, the process, the recovery, a client.
LEMMA EngineEffects ==
    ASSUME MediaTypeOK, NEW j \in Job, EngineEnds(j)
    PROVE  /\ engine[j] = "running" /\ fin.at # "down"
           /\ UNCHANGED <<dest, policy, device, row, attempt, active, journal, fin, todo, given_up, removed, misfiled, scenario, client, left>>
           /\ \A k \in Job : k # j => engine'[k] = engine[k] /\ staging'[k] = staging[k]
           /\ \/ engine'[j] = "completed" /\ staging'[j] = Current(j)
              \/ engine'[j] = "failed" /\ staging'[j] = staging[j]
<1>1. engine \in EngineTypes /\ FilesTypeOK
  BY TypesKnown
<1> QED BY <1>1 DEF EngineEnds, EngineTypes, FilesTypeOK

LEMMA ForeignEffects ==
    ASSUME MediaTypeOK, NEW p \in Path, ForeignFile(p)
    PROVE  /\ dest[p] = Nothing /\ dest'[p] = Foreign /\ \A q \in Path : q # p => dest'[q] = dest[q]
           /\ left'.db = left.db /\ left'.io = left.io
           /\ UNCHANGED <<staging, policy, device, row, attempt, active, engine, journal, fin, todo, given_up, removed, misfiled, scenario, client>>
<1>1. left \in Bounds /\ FilesTypeOK
  BY TypesKnown
<1>2. left'["db"] = left["db"] /\ left'["io"] = left["io"]
  BY <1>1, SpendsBounds DEF ForeignFile
<1> QED BY <1>1, <1>2 DEF ForeignFile, FilesTypeOK

LEMMA CrashEffects ==
    ASSUME MediaTypeOK, Crash
    PROVE  /\ fin.at # "down" /\ fin'.at = "down" /\ fin'.live /\ fin'.final = NoPath /\ client'.at = "none" /\ todo' = {}
           /\ \A j \in Job : active'[j] = Untracked /\ engine'[j] = "unknown"
           /\ left'.db = left.db /\ left'.io = left.io
           /\ UNCHANGED <<dest, staging, policy, device, row, attempt, journal, given_up, removed, misfiled, scenario>>
<1>1. left \in Bounds
  BY TypesKnown
<1>2. left'["db"] = left["db"] /\ left'["io"] = left["io"]
  BY <1>1, SpendsBounds DEF Crash
<1> QED BY <1>2 DEF Crash, Idle, NoClient, FilesStay, fileVars

LEMMA RestartEffects ==
    ASSUME Restart
    PROVE  /\ fin.at = "down" /\ fin'.at = "recover" /\ ~fin'.live /\ fin'.final = NoPath /\ todo' = GetPendingFinalizations
           /\ UNCHANGED <<dest, staging, policy, device, row, attempt, active, engine, journal, client, given_up, removed, misfiled, scenario, left>>
BY DEF Restart, Recovering, Idle, FilesStay, fileVars

\* What the recovery takes up with a record.
LEMMA ReconcileEffects ==
    ASSUME NEW d \in Delivery, Reconcile(d)
    PROVE  /\ fin.at = "recover" /\ d \in todo /\ todo' = todo \ {d}
           /\ fin'.d = d /\ FinJob' = d[1] /\ ~fin'.live /\ fin'.path = journal[d].path /\ fin'.final = row[d[1]].final
           /\ fin'.at \in {"resolve", "validated", "subtitles", "recommit", "pending", "mark_failed"}
           /\ fin'.at = "resolve" => journal[d].phase \in {"prepared", "in_progress", "validated"} /\ staging[d[1]] # Nothing
           /\ fin'.at = "validated" => journal[d].phase = "in_progress" /\ Valid(journal[d].path, d)
           /\ fin'.at = "subtitles" => journal[d].phase = "validated" /\ Valid(journal[d].path, d)
           /\ fin'.at = "recommit" => journal[d].phase = "db_committed"
           /\ fin'.at = "pending" => journal[d].phase = "cleanup_pending"
           /\ fin'.at = "mark_failed" =>
                \/ journal[d].phase = "prepared" /\ staging[d[1]] = Nothing
                \/ journal[d].phase \in {"in_progress", "validated"} /\ staging[d[1]] = Nothing /\ ~Valid(journal[d].path, d)
                \/ journal[d].phase \in {"none", "complete", "failed"} \/ journal[d].phase \notin Phase
           /\ UNCHANGED <<dest, staging, policy, device, row, attempt, active, engine, journal, client, given_up, removed, misfiled, scenario, left>>
<1>1. fin' = [at |-> ReconcileRecord(d), d |-> d, live |-> FALSE, path |-> journal[d].path, final |-> row[d[1]].final, copy |-> Nothing]
  BY DEF Reconcile
<1>2. fin'.at = ReconcileRecord(d) /\ fin'.d = d /\ ~fin'.live /\ fin'.path = journal[d].path /\ fin'.final = row[d[1]].final /\ FinJob' = d[1]
  BY <1>1 DEF FinJob
<1>3. /\ fin.at = "recover" /\ d \in todo /\ todo' = todo \ {d}
      /\ UNCHANGED <<dest, staging, policy, device, row, attempt, active, engine, journal, client, given_up, removed, misfiled, scenario, left>>
  BY DEF Reconcile, FilesStay, fileVars
<1> QED BY <1>2, <1>3 DEF ReconcileRecord, Phase

LEMMA InterruptedEffects ==
    ASSUME MediaTypeOK, FailInterrupted
    PROVE  /\ fin.at = "recover" /\ todo = {} /\ fin'.at = "sweep" /\ (fin'.live <=> fin.live) /\ fin'.final = fin.final
           /\ \A j \in Job : \/ row'[j] = row[j] /\ (row[j].status = "downloading" => left'.db < left.db)
                             \/ row[j].status = "downloading" /\ row'[j].status = "failed" /\ row'[j].final = row[j].final
           /\ left'.io = left.io /\ left'.db <= left.db
           /\ UNCHANGED <<dest, staging, policy, device, attempt, active, engine, journal, todo, client, given_up, removed, misfiled, scenario>>
<1>1. fin \in FinTypes /\ row \in RowTypes /\ left \in Bounds
  BY TypesKnown
<1>2. PICK failing \in SUBSET {j \in Job : row[j].status = "downloading"} :
          /\ row' = [j \in Job |-> IF row[j].status = "downloading" /\ j \notin failing
                                   THEN [row[j] EXCEPT !.status = "failed"] ELSE row[j]]
          /\ Cardinality(failing) <= left.db
          /\ left' = [left EXCEPT !.db = @ - Cardinality(failing)]
  BY DEF FailInterrupted
<1>3. IsFiniteSet(failing) /\ Cardinality(failing) \in Nat
  BY FS_Subset, FS_CardinalityType DEF FileAssumptions
<1>4. left'.io = left.io /\ left'.db = left.db - Cardinality(failing)
  BY <1>1, <1>2 DEF Bounds
<1>5. ASSUME NEW j \in Job
      PROVE  \/ row'[j] = row[j] /\ (row[j].status = "downloading" => left'.db < left.db)
             \/ row[j].status = "downloading" /\ row'[j].status = "failed" /\ row'[j].final = row[j].final
  <2>1. CASE row[j].status = "downloading" /\ j \notin failing
    BY <1>1, <1>2, <2>1 DEF RowTypes
  <2>2. CASE j \in failing
    <3>1. Cardinality(failing) # 0
      BY <1>3, <2>2, FS_EmptySet
    <3>2. left'.db < left.db
      BY <1>1, <1>3, <1>4, <3>1 DEF Bounds
    <3>3. row'[j] = row[j]
      BY <1>2, <2>2
    <3> QED BY <3>2, <3>3
  <2>3. CASE row[j].status # "downloading"
    BY <1>2, <2>3
  <2> QED BY <2>1, <2>2, <2>3
<1>6. left'.db <= left.db
  BY <1>1, <1>3, <1>4 DEF Bounds
<1>7. /\ fin.at = "recover" /\ todo = {} /\ fin'.at = "sweep" /\ (fin'.live <=> fin.live) /\ fin'.final = fin.final
  BY <1>1 DEF FailInterrupted, Goto, FinTypes
<1>8. UNCHANGED <<dest, staging, policy, device, attempt, active, engine, journal, todo, client, given_up, removed, misfiled, scenario>>
  BY DEF FailInterrupted, FilesStay, fileVars
<1> QED BY <1>4, <1>5, <1>6, <1>7, <1>8

LEMMA SweepEffects ==
    ASSUME MediaTypeOK, Sweep
    PROVE  /\ fin.at = "sweep" /\ fin' = Idle /\ fin'.at = "idle" /\ fin'.live /\ fin'.final = NoPath
           /\ \A j \in Job : staging'[j] = IF row[j].status = "downloading" THEN staging[j] ELSE Nothing
           /\ UNCHANGED <<dest, policy, device, row, attempt, active, engine, journal, todo, client, given_up, removed, misfiled, scenario, left>>
BY DEF Sweep, Idle, CleanupStaleWorkDirs

LEMMA CancelBeginsEffects ==
    ASSUME MediaTypeOK, NEW j \in Job, CancelBegins(j)
    PROVE  /\ Serving /\ client.at = "none" /\ row[j].status = "downloading"
           /\ client'.at = "cancel" /\ client'.job = j /\ client'.final = row[j].final
           /\ \A k \in Job : \/ engine'[k] = engine[k]
                             \/ k = j /\ engine[j] = "running" /\ engine'[j] = "cancelled"
           /\ left'.db = left.db /\ left'.io = left.io /\ given_up' = given_up \cup {j}
           /\ UNCHANGED <<dest, staging, policy, device, row, attempt, active, journal, fin, todo, removed, misfiled, scenario>>
<1>1. left \in Bounds /\ engine \in EngineTypes
  BY TypesKnown
<1>2. left'["db"] = left["db"] /\ left'["io"] = left["io"]
  BY <1>1, SpendsBounds DEF CancelBegins
<1> QED BY <1>1, <1>2 DEF CancelBegins, NoClient, EngineTypes, FilesStay, fileVars

LEMMA CancelWritesEffects ==
    ASSUME MediaTypeOK, CancelWrites
    PROVE  /\ Serving /\ client.at = "cancel" /\ client.job \in Job /\ client.final \in Path \cup {NoPath}
           /\ \A j \in Job : j # client.job => row'[j] = row[j] /\ active'[j] = active[j] /\ engine'[j] = engine[j]
           /\ \/ /\ left' = left /\ active'[client.job] = Untracked /\ engine'[client.job] = "unknown"
                 /\ row'[client.job] = IF row[client.job].status = "deleted" THEN row[client.job]
                                       ELSE [status |-> "cancelled", final |-> client.final]
                 /\ client'.at = "clean" /\ client'.job = client.job /\ client'.final = client.final
              \/ UNCHANGED <<row, active, engine>> /\ client'.at = "none" /\ left'.db < left.db
           /\ left'.io = left.io
           /\ UNCHANGED <<dest, staging, policy, device, attempt, journal, fin, todo, given_up, removed, misfiled, scenario>>
<1>1. /\ left \in Bounds /\ active \in ActiveTypes /\ engine \in EngineTypes
      /\ client.at = "cancel" /\ client.job \in Job /\ client.final \in Path \cup {NoPath} /\ Serving
  BY TypesKnown DEF CancelWrites, MediaTypeOK
<1>2. UNCHANGED <<dest, staging, policy, device, attempt, journal, fin, todo, given_up, removed, misfiled, scenario>>
  BY DEF CancelWrites, FilesStay, fileVars
<1>3. CASE Spend("db") /\ client' = NoClient /\ UNCHANGED <<row, active, engine>>
  <2>1. left'["db"] < left["db"] /\ left'["io"] = left["io"]
    BY <1>1, <1>3, SpendsBounds
  <2> QED BY <1>1, <1>2, <1>3, <2>1 DEF NoClient
<1>4. CASE /\ WriteRow(client.job, "cancelled", client.final) /\ RemoveActive(client.job)
           /\ engine' = [engine EXCEPT ![client.job] = "unknown"]
           /\ client' = [client EXCEPT !.at = "clean"] /\ UNCHANGED left
  <2>1. /\ \A j \in Job : j # client.job => row'[j] = row[j]
        /\ row'[client.job] = IF row[client.job].status = "deleted" THEN row[client.job]
                              ELSE [status |-> "cancelled", final |-> client.final]
    BY <1>1, <1>4, WrittenRow
  <2>2. /\ \A j \in Job : j # client.job => active'[j] = active[j] /\ engine'[j] = engine[j]
        /\ active'[client.job] = Untracked /\ engine'[client.job] = "unknown"
    BY <1>1, <1>4 DEF RemoveActive, ActiveTypes, EngineTypes
  <2>3. client'.at = "clean" /\ client'.job = client.job /\ client'.final = client.final
    BY <1>1, <1>4
  <2> QED BY <1>1, <1>2, <1>4, <2>1, <2>2, <2>3
<1> QED BY <1>3, <1>4 DEF CancelWrites

LEMMA CancelCleansEffects ==
    ASSUME MediaTypeOK, CancelCleans
    PROVE  /\ Serving /\ client.at = "clean" /\ client.job \in Job /\ client'.at = "none"
           /\ \A j \in Job : staging'[j] \in {staging[j], Nothing} /\ (j # client.job => staging'[j] = staging[j])
           /\ UNCHANGED <<dest, policy, device, row, attempt, active, engine, journal, fin, todo, given_up, removed, misfiled, scenario, left>>
BY TypesKnown DEF CancelCleans, CleanupWorkDir, NoClient, FilesTypeOK, MediaTypeOK

LEMMA RetryEffects ==
    ASSUME MediaTypeOK, NEW j \in Job, Retry(j)
    PROVE  /\ Serving /\ client.at = "none" /\ row[j].status = "failed" /\ attempt[j] < MaxAttempts
           /\ \A k \in Job : k # j => /\ row'[k] = row[k] /\ active'[k] = active[k] /\ engine'[k] = engine[k]
                                      /\ staging'[k] = staging[k] /\ attempt'[k] = attempt[k]
           /\ attempt'[j] = attempt[j] + 1 /\ staging'[j] = Nothing /\ active'[j] = row[j].final /\ engine'[j] = "running"
           /\ row'[j].status = "downloading" /\ row'[j].final = row[j].final
           /\ left'.db = left.db /\ left'.io = left.io
           /\ UNCHANGED <<dest, policy, device, client, journal, fin, todo, given_up, removed, misfiled, scenario>>
<1>1. left \in Bounds /\ row \in RowTypes /\ active \in ActiveTypes /\ engine \in EngineTypes /\ FilesTypeOK
      /\ attempt \in [Job -> 1 .. MaxAttempts]
  BY TypesKnown
<1>2. left'["db"] = left["db"] /\ left'["io"] = left["io"]
  BY <1>1, SpendsBounds DEF Retry
<1>3. client.at = "none" /\ Serving /\ row[j].status = "failed" /\ attempt[j] < MaxAttempts
  BY DEF Retry, NoClient
<1>4. /\ \A k \in Job : k # j => row'[k] = row[k] /\ active'[k] = active[k] /\ engine'[k] = engine[k]
      /\ active'[j] = row[j].final /\ engine'[j] = "running"
      /\ row'[j].status = "downloading" /\ row'[j].final = row[j].final
  BY <1>1 DEF Retry, RowTypes, ActiveTypes, EngineTypes
<1>5. /\ \A k \in Job : k # j => staging'[k] = staging[k] /\ attempt'[k] = attempt[k]
      /\ attempt'[j] = attempt[j] + 1 /\ staging'[j] = Nothing
  BY <1>1 DEF Retry, CleanupWorkDir, FilesTypeOK
<1>6. UNCHANGED <<dest, policy, device, client, journal, fin, todo, given_up, removed, misfiled, scenario>>
  BY DEF Retry, CleanupWorkDir
<1> QED BY <1>2, <1>3, <1>4, <1>5, <1>6

LEMMA DeleteFilesEffects ==
    ASSUME MediaTypeOK, NEW j \in Job, DeleteFiles(j)
    PROVE  /\ Serving /\ client.at = "none" /\ row[j].status \in {"completed", "failed", "cancelled"}
           /\ client'.at = "delete" /\ client'.job = j /\ client'.final = row[j].final
           /\ \A p \in Path : dest'[p] = dest[p] \/ (dest'[p] = Nothing /\ p \in removed')
           /\ removed \subseteq removed' /\ (removed' = {} => dest' = dest)
           /\ engine'[j] = "unknown" /\ staging'[j] = Nothing
           /\ \A k \in Job : k # j => engine'[k] = engine[k] /\ staging'[k] = staging[k]
           /\ given_up' = given_up \cup {j} /\ left'.db = left.db /\ left'.io = left.io
           /\ UNCHANGED <<policy, device, row, attempt, active, journal, fin, todo, misfiled, scenario>>
<1>1. left \in Bounds /\ engine \in EngineTypes /\ FilesTypeOK
  BY TypesKnown
<1>2. left'["db"] = left["db"] /\ left'["io"] = left["io"]
  BY <1>1, SpendsBounds DEF DeleteFiles
<1>3. PICK names \in {{}, {row[j].final} \cap Path} :
          /\ dest' = [p \in Path |-> IF p \in names THEN Nothing ELSE dest[p]]
          /\ removed' = removed \cup names
  BY DEF DeleteFiles
<1>4. \A p \in Path : dest'[p] = dest[p] \/ (dest'[p] = Nothing /\ p \in removed')
  BY <1>3
<1>5. engine'[j] = "unknown" /\ staging'[j] = Nothing /\ \A k \in Job : k # j => engine'[k] = engine[k] /\ staging'[k] = staging[k]
  BY <1>1 DEF DeleteFiles, EngineTypes, FilesTypeOK
<1>6. removed' = {} => dest' = dest
  BY <1>1, <1>3 DEF FilesTypeOK
<1> QED BY <1>2, <1>3, <1>4, <1>5, <1>6 DEF DeleteFiles, NoClient

LEMMA DeleteRowsEffects ==
    ASSUME MediaTypeOK, DeleteRows
    PROVE  /\ Serving /\ client.at = "delete" /\ client.job \in Job /\ client'.at = "none"
           /\ \/ /\ left' = left /\ active'[client.job] = Untracked
                 /\ \A k \in Job : k # client.job => row'[k] = row[k] /\ active'[k] = active[k]
                 /\ row'[client.job].status = "deleted" /\ row'[client.job].final = row[client.job].final
                 /\ \A d \in Delivery : IF d[1] = client.job THEN journal'[d] = NoRecord
                                        ELSE journal'[d] = journal[d]
              \/ UNCHANGED <<row, journal, active>> /\ left'.db < left.db
           /\ left'.io = left.io
           /\ UNCHANGED <<dest, staging, policy, device, attempt, engine, fin, todo, given_up, removed, misfiled, scenario>>
<1>1. left \in Bounds /\ row \in RowTypes /\ active \in ActiveTypes /\ client.job \in Job /\ client.at = "delete" /\ Serving
      /\ client'.at = "none"
  BY TypesKnown DEF MediaTypeOK, DeleteRows, NoClient
<1>2. UNCHANGED <<dest, staging, policy, device, attempt, engine, fin, todo, given_up, removed, misfiled, scenario>>
  BY DEF DeleteRows, FilesStay, fileVars
<1>3. CASE Spend("db") /\ UNCHANGED <<row, journal, active>>
  <2>1. left'["db"] < left["db"] /\ left'["io"] = left["io"]
    BY <1>1, <1>3, SpendsBounds
  <2> QED BY <1>1, <1>2, <1>3, <2>1
<1>4. CASE /\ row' = [row EXCEPT ![client.job].status = "deleted"]
           /\ journal' = [d \in Delivery |-> IF d[1] = client.job THEN NoRecord ELSE journal[d]]
           /\ RemoveActive(client.job) /\ UNCHANGED left
  <2>1. /\ \A k \in Job : k # client.job => row'[k] = row[k] /\ active'[k] = active[k]
        /\ row'[client.job].status = "deleted" /\ row'[client.job].final = row[client.job].final
        /\ active'[client.job] = Untracked
    BY <1>1, <1>4 DEF RowTypes, ActiveTypes, RemoveActive
  <2> QED BY <1>1, <1>2, <1>4, <2>1
<1> QED BY <1>3, <1>4 DEF DeleteRows
------------------------------------------------------------------------------
\* The steps of the others keep it.
LEMMA OthersKeepWork ==
    ASSUME WorkInv, MediaTypeOK',
           \/ \E j \in Job : EngineEnds(j)
           \/ \E p \in Path : ForeignFile(p)
           \/ Crash \/ Restart
    PROVE  WorkInv'
<1> USE DEF WorkInv
<1>w. MediaTypeOK
  OBVIOUS
<1>b. \A j \in Job : Current(j) \in Delivery /\ Current(j)[1] = j /\ Current(j)[2] = attempt[j]
  BY CurrentIsDelivery
<1>a. fin.at \in Working => FinJob \in Job
  BY WorkingTyped
<1>k. client.at # "none" => client.job \in Job
  BY DEF MediaTypeOK
<1>1. ASSUME NEW j \in Job, EngineEnds(j) PROVE WorkInv'
  <2>1. /\ engine[j] = "running" /\ fin.at # "down"
        /\ UNCHANGED <<dest, policy, device, row, attempt, active, journal, fin, todo, given_up, removed, misfiled, scenario, client, left>>
        /\ \A k \in Job : k # j => engine'[k] = engine[k] /\ staging'[k] = staging[k]
        /\ \/ engine'[j] = "completed" /\ staging'[j] = Current(j)
           \/ engine'[j] = "failed" /\ staging'[j] = staging[j]
    BY <1>1, EngineEffects
  <2>2. FinJob' = FinJob /\ \A k \in Job : Current(k)' = Current(k)
    BY <2>1 DEF Current, FinJob
  <2>3. ServesOrRecovers' /\ WorksOnCurrent' /\ DeletedHaveNoRecord'
    <3>1. ServesOrRecovers'
      BY <2>1 DEF ServesOrRecovers, Serving
    <3>2. WorksOnCurrent'
      BY <1>a, <2>1, <2>2 DEF WorksOnCurrent, Working
    <3>3. DeletedHaveNoRecord'
      BY <2>1 DEF DeletedHaveNoRecord
    <3> QED BY <3>1, <3>2, <3>3
  <2>4. TrackedDownloads'
    BY <2>1, <1>k, <2>2 DEF TrackedDownloads
  <2>5. FilesHaveDownloads'
    BY <1>a, <2>1, <2>2 DEF FilesHaveDownloads, Working, Moving
  <2>6. NothingYet'
    <3> SUFFICES ASSUME NEW k \in Job, engine'[k] \in Fruitless
                 PROVE  /\ staging'[k] = Nothing /\ CopiesOf(Current(k)) = {}
                        /\ fin.at = "copied" => fin.copy # Current(k)
      BY <2>1, <2>2 DEF NothingYet, CopiesOf, Fruitless
    <3> QED BY <2>1 DEF NothingYet, Fruitless
  <2> QED BY <2>3, <2>4, <2>5, <2>6
<1>2. ASSUME NEW p \in Path, ForeignFile(p) PROVE WorkInv'
  <2>1. /\ dest'[p] = Foreign /\ \A q \in Path : q # p => dest'[q] = dest[q]
        /\ UNCHANGED <<staging, policy, device, row, attempt, active, engine, journal, fin, todo, given_up, removed, misfiled, scenario, client>>
    BY <1>2, ForeignEffects
  <2>2. Foreign \notin Delivery
    BY DEF FileAssumptions, Delivery
  <2>3. FinJob' = FinJob /\ \A k \in Job : Current(k)' = Current(k) /\ CopiesOf(Current(k))' \subseteq CopiesOf(Current(k))
    BY <2>1, <2>2, <1>b DEF Current, CopiesOf, FinJob
  <2>4. ServesOrRecovers' /\ WorksOnCurrent' /\ DeletedHaveNoRecord' /\ TrackedDownloads'
    <3>1. ServesOrRecovers'
      BY <2>1 DEF ServesOrRecovers, Serving
    <3>2. WorksOnCurrent'
      BY <1>a, <2>1, <2>3 DEF WorksOnCurrent, Working
    <3>3. DeletedHaveNoRecord'
      BY <2>1 DEF DeletedHaveNoRecord
    <3>4. TrackedDownloads'
      BY <2>1, <2>3 DEF TrackedDownloads
    <3> QED BY <3>1, <3>2, <3>3, <3>4
  <2>5. \A q \in Path : dest'[q] \in Delivery => dest'[q] = dest[q]
    BY <2>1, <2>2
  <2>6. FilesHaveDownloads'
    BY <1>a, <2>1, <2>3, <2>5 DEF FilesHaveDownloads, Working, Moving
  <2>7. NothingYet'
    BY <2>1, <2>3 DEF NothingYet
  <2> QED BY <2>4, <2>6, <2>7
<1>3. CASE Crash
  <2>1. /\ fin'.at = "down" /\ fin'.live /\ client'.at = "none" /\ todo' = {}
        /\ \A j \in Job : active'[j] = Untracked /\ engine'[j] = "unknown"
        /\ UNCHANGED <<dest, staging, row, attempt, journal>>
    BY <1>3, CrashEffects
  <2>2. \A k \in Job : Current(k)' = Current(k)
    BY <2>1 DEF Current
  <2>3. ServesOrRecovers' /\ WorksOnCurrent' /\ DeletedHaveNoRecord' /\ TrackedDownloads' /\ NothingYet'
    BY <2>1, <2>2 DEF ServesOrRecovers, WorksOnCurrent, DeletedHaveNoRecord, TrackedDownloads, NothingYet, Serving, Working, Moving, Cleaning
  <2>4. FilesHaveDownloads'
    BY <2>1, <2>2 DEF FilesHaveDownloads, Working, Moving, Cleaning
  <2> QED BY <2>3, <2>4
<1>4. CASE Restart
  <2>1. /\ fin.at = "down" /\ fin'.at = "recover" /\ ~fin'.live /\ todo' = GetPendingFinalizations
        /\ UNCHANGED <<dest, staging, row, attempt, active, engine, journal, client>>
    BY <1>4, RestartEffects
  <2>2. \A k \in Job : Current(k)' = Current(k)
    BY <2>1 DEF Current
  <2>3. ServesOrRecovers' /\ WorksOnCurrent' /\ DeletedHaveNoRecord' /\ TrackedDownloads' /\ NothingYet'
    BY <2>1, <2>2 DEF ServesOrRecovers, WorksOnCurrent, DeletedHaveNoRecord, TrackedDownloads, NothingYet, CopiesOf, Serving, Working, Moving, Cleaning
  <2>4. FilesHaveDownloads'
    BY <2>1, <2>2 DEF FilesHaveDownloads, GetPendingFinalizations, Working, Moving, Cleaning
  <2> QED BY <2>3, <2>4
<1> QED BY <1>1, <1>2, <1>3, <1>4

LEMMA PollKeepsWork ==
    ASSUME WorkInv, MediaTypeOK', NEW j \in Job, UpdateJobFromEngine(j)
    PROVE  WorkInv'
<1> USE DEF WorkInv
<1>w. MediaTypeOK
  OBVIOUS
<1>b. \A k \in Job : Current(k) \in Delivery /\ Current(k)[1] = k /\ Current(k)[2] = attempt[k]
  BY CurrentIsDelivery
<1>0. /\ fin.at = "idle" /\ active[j] # Untracked /\ UNCHANGED <<attempt, todo, given_up, removed, misfiled, scenario, client>>
      /\ fin.live /\ todo = {} /\ Serving /\ fin.at \notin Working
  BY PollEffects DEF ServesOrRecovers, Serving, Working, Moving, Cleaning
<1>1. row[j].status = "downloading"
  BY <1>0 DEF TrackedDownloads
<1>2. \A k \in Job : Current(k)' = Current(k)
  BY <1>0 DEF Current
<1>3. CASE StartFinalizing(j) /\ UNCHANGED <<row, active, engine, left, dest, staging, policy, device>>
  <2>1. /\ fin'.at = "resolve" /\ fin'.d = Current(j) /\ fin'.live /\ FinJob' = j
        /\ \A d \in Delivery : journal'[d] = journal[d] \/ journal'[d].phase = "none"
    BY <1>w, <1>3, <1>b, StartEffects DEF FinJob
  <2>2. attempt[j] \in Nat
    BY TypesKnown
  <2>3. ServesOrRecovers' /\ WorksOnCurrent' /\ DeletedHaveNoRecord' /\ TrackedDownloads' /\ NothingYet'
    BY <1>0, <1>1, <1>2, <1>3, <2>1 DEF ServesOrRecovers, WorksOnCurrent, DeletedHaveNoRecord, TrackedDownloads, NothingYet, CopiesOf, Serving, Moving, Cleaning
  <2>4. FilesHaveDownloads'
    BY <1>0, <1>b, <1>2, <1>3, <2>1, <2>2 DEF FilesHaveDownloads
  <2> QED BY <2>3, <2>4
<1>4. ASSUME NEW st \in {"completed", "failed", "cancelled"}, NEW f \in Path \cup {NoPath}, NEW clean \in BOOLEAN,
             EndJob(j, st, f, clean), UNCHANGED <<fin, journal>>
      PROVE  WorkInv'
  <2>1. /\ UNCHANGED <<dest, policy, device>>
        /\ \A k \in Job : k # j => row'[k] = row[k] /\ active'[k] = active[k] /\ engine'[k] = engine[k] /\ staging'[k] = staging[k]
        /\ \/ UNCHANGED <<row, active, engine, staging>>
           \/ /\ active'[j] = Untracked /\ engine'[j] = "unknown"
              /\ row'[j] = IF row[j].status = "deleted" THEN row[j] ELSE [status |-> st, final |-> f]
              /\ staging'[j] = IF clean THEN Nothing ELSE staging[j]
    BY <1>w, <1>4, EndEffects
  <2>2. \A k \in Job : /\ row'[k].status = "deleted" => row[k].status = "deleted"
                       /\ staging'[k] \in {staging[k], Nothing}
                       /\ (active'[k] = active[k] /\ row'[k] = row[k] /\ engine'[k] = engine[k]) \/ (active'[k] = Untracked /\ engine'[k] = "unknown")
    BY <2>1
  <2>3. ServesOrRecovers' /\ WorksOnCurrent' /\ FilesHaveDownloads'
    BY <1>0, <1>2, <1>4, <2>1, <2>2 DEF ServesOrRecovers, WorksOnCurrent, FilesHaveDownloads, Serving, Working, Moving, Cleaning
  <2>4. TrackedDownloads' /\ NothingYet'
    <3>1. UNCHANGED <<fin, client, dest>>
      BY <1>0, <1>4, <2>1
    <3>2. TrackedDownloads'
      <4>1. \A k \in Job : engine'[k] # "unknown" => engine'[k] = engine[k] /\ active'[k] = active[k] /\ row'[k] = row[k]
        BY <2>2
      <4>2. \A k \in Job : active'[k] # Untracked => active'[k] = active[k] /\ row'[k] = row[k]
        BY <2>2
      <4>3. client.at = "delete" => client.job \in Job /\ engine[client.job] = "unknown"
        BY DEF MediaTypeOK, TrackedDownloads
      <4>4. client'.at = "delete" => engine'[client'.job] = "unknown"
        BY <3>1, <4>1, <4>3
      <4>5. FinJob' = FinJob /\ fin' = fin
        BY <3>1 DEF FinJob
      <4>6. \A k \in Job :
               /\ engine[k] # "unknown" => active[k] # Untracked
               /\ active[k] # Untracked =>
                     \/ row[k].status = "downloading"
                     \/ fin.live /\ fin.at \in {"committed", "forget"} /\ FinJob = k /\ row[k].status = "completed"
        BY DEF TrackedDownloads
      <4> QED BY <4>1, <4>2, <4>4, <4>5, <4>6 DEF TrackedDownloads
    <3>3. NothingYet'
      <4> SUFFICES ASSUME NEW k \in Job, engine'[k] \in {"running", "failed", "cancelled"}
                   PROVE  /\ staging'[k] = Nothing /\ CopiesOf(Current(k))' = {}
                          /\ fin'.at = "copied" => fin'.copy # Current(k)'
        BY DEF NothingYet
      <4>1. engine'[k] = engine[k] /\ staging'[k] \in {staging[k], Nothing}
        BY <2>2
      <4>2. staging[k] = Nothing /\ CopiesOf(Current(k)) = {} /\ (fin.at = "copied" => fin.copy # Current(k))
        BY <4>1 DEF NothingYet
      <4>3. CopiesOf(Current(k))' = CopiesOf(Current(k))
        BY <1>2, <3>1 DEF CopiesOf
      <4> QED BY <1>2, <3>1, <4>1, <4>2, <4>3
    <3> QED BY <3>2, <3>3
  <2>5. DeletedHaveNoRecord'
    BY <1>0, <1>4, <2>2, TypesKnown DEF DeletedHaveNoRecord
  <2> QED BY <2>3, <2>4, <2>5
<1> QED BY <1>w, <1>3, <1>4, PollEffects

LEMMA RecoveryKeepsWork ==
    ASSUME WorkInv, MediaTypeOK', (\E d \in Delivery : Reconcile(d)) \/ FailInterrupted \/ Sweep
    PROVE  WorkInv'
<1> USE DEF WorkInv
<1>b. \A j \in Job : Current(j) \in Delivery /\ Current(j)[1] = j /\ Current(j)[2] = attempt[j]
  BY CurrentIsDelivery
<1>k. client.at # "none" => client.job \in Job
  BY DEF MediaTypeOK
<1>w. MediaTypeOK
  OBVIOUS
<1>1. ASSUME NEW d \in Delivery, Reconcile(d) PROVE WorkInv'
  <2>1. /\ fin.at = "recover" /\ d \in todo /\ todo' = todo \ {d}
        /\ fin'.d = d /\ FinJob' = d[1] /\ ~fin'.live
        /\ fin'.at \in {"resolve", "validated", "subtitles", "recommit", "pending", "mark_failed"}
        /\ UNCHANGED <<dest, staging, row, attempt, active, engine, journal, client>>
    BY <1>1, ReconcileEffects
  <2>2. ~fin.live /\ fin.at # "idle" /\ ~Serving
    BY <2>1 DEF ServesOrRecovers, Serving
  <2>3. \A k \in Job : Current(k)' = Current(k)
    BY <2>1 DEF Current
  <2>4. ServesOrRecovers'
    BY <2>1, <2>2 DEF ServesOrRecovers, Serving
  <2>5. WorksOnCurrent' /\ DeletedHaveNoRecord'
    BY <2>1 DEF WorksOnCurrent, DeletedHaveNoRecord
  <2>6. TrackedDownloads'
    BY <2>1, <2>2 DEF TrackedDownloads, ServesOrRecovers
  <2>7. NothingYet'
    BY <2>1, <2>3 DEF NothingYet, CopiesOf
  <2>8. FilesHaveDownloads'
    <3>1. d[2] <= attempt[d[1]]
      BY <2>1 DEF FilesHaveDownloads
    <3> QED BY <2>1, <2>3, <3>1 DEF FilesHaveDownloads
  <2> QED BY <2>4, <2>5, <2>6, <2>7, <2>8
<1>2. CASE FailInterrupted
  <2>1. /\ fin.at = "recover" /\ todo = {} /\ fin'.at = "sweep" /\ (fin'.live <=> fin.live)
        /\ \A j \in Job : \/ row'[j] = row[j]
                          \/ row[j].status = "downloading" /\ row'[j].status = "failed"
        /\ UNCHANGED <<dest, staging, attempt, active, engine, journal, todo, client>>
    BY <1>2, InterruptedEffects
  <2>2. ~fin.live /\ ~Serving /\ fin'.at \notin Working
    BY <2>1 DEF ServesOrRecovers, Serving, Working, Moving, Cleaning
  <2>3. \A k \in Job : Current(k)' = Current(k)
    BY <2>1 DEF Current
  <2>4. ServesOrRecovers' /\ WorksOnCurrent'
    BY <2>1, <2>2 DEF ServesOrRecovers, WorksOnCurrent, Serving
  <2>5. DeletedHaveNoRecord'
    BY <2>1, TypesKnown DEF DeletedHaveNoRecord
  <2>6. TrackedDownloads'
    BY <2>1, <2>2 DEF TrackedDownloads, ServesOrRecovers
  <2>7. NothingYet'
    BY <2>1, <2>3 DEF NothingYet, CopiesOf
  <2>8. FilesHaveDownloads'
    BY <2>1, <2>2, <2>3 DEF FilesHaveDownloads
  <2> QED BY <2>4, <2>5, <2>6, <2>7, <2>8
<1>3. CASE Sweep
  <2>1. /\ fin.at = "sweep" /\ fin'.at = "idle" /\ fin'.live
        /\ \A j \in Job : staging'[j] \in {staging[j], Nothing}
        /\ UNCHANGED <<dest, row, attempt, active, engine, journal, todo, client>>
    BY <1>3, SweepEffects
  <2>2. todo = {} /\ ~Serving /\ fin'.at \notin Working
    BY <2>1 DEF ServesOrRecovers, Serving, Working, Moving, Cleaning
  <2>3. \A k \in Job : Current(k)' = Current(k)
    BY <2>1 DEF Current
  <2>4. ServesOrRecovers' /\ WorksOnCurrent' /\ DeletedHaveNoRecord'
    BY <2>1, <2>2 DEF ServesOrRecovers, WorksOnCurrent, Serving, DeletedHaveNoRecord, Working
  <2>6. TrackedDownloads'
    BY <2>1, <2>2 DEF TrackedDownloads, ServesOrRecovers
  <2>7. NothingYet'
    BY <2>1, <2>3 DEF NothingYet, CopiesOf
  <2>8. FilesHaveDownloads'
    BY <2>1, <2>2, <2>3 DEF FilesHaveDownloads
  <2> QED BY <2>4, <2>6, <2>7, <2>8
<1> QED BY <1>1, <1>2, <1>3

LEMMA ClientKeepsWork ==
    ASSUME WorkInv, MediaTypeOK', ClientSteps
    PROVE  WorkInv'
<1> USE DEF WorkInv
<1>b. \A j \in Job : Current(j) \in Delivery /\ Current(j)[1] = j /\ Current(j)[2] = attempt[j]
  BY CurrentIsDelivery
<1>k. client.at # "none" => client.job \in Job
  BY DEF MediaTypeOK
<1>w. MediaTypeOK
  OBVIOUS
<1>s. Serving => fin.live /\ todo = {} /\ fin.at \notin {"recover", "sweep", "recommit"} /\ fin.at # "down"
  BY DEF ServesOrRecovers, Serving
<1>f. fin.at \in Working => FinJob \in Job /\ fin.d \in Delivery
  BY WorkingTyped
<1>1. ASSUME NEW j \in Job, CancelBegins(j) PROVE WorkInv'
  <2>1. /\ Serving /\ client'.at = "cancel"
        /\ \A k \in Job : \/ engine'[k] = engine[k]
                          \/ engine[k] = "running" /\ engine'[k] = "cancelled"
        /\ UNCHANGED <<dest, staging, row, attempt, active, journal, fin, todo>>
    BY <1>1, CancelBeginsEffects
  <2>2. FinJob' = FinJob /\ \A k \in Job : Current(k)' = Current(k)
    BY <2>1 DEF Current, FinJob
  <2>3. ServesOrRecovers' /\ DeletedHaveNoRecord'
    BY <2>1 DEF ServesOrRecovers, Serving, DeletedHaveNoRecord
  <2>4. WorksOnCurrent'
    BY <1>f, <2>1, <2>2 DEF WorksOnCurrent, Working
  <2>5. TrackedDownloads'
    BY <2>1, <2>2 DEF TrackedDownloads
  <2>6. FilesHaveDownloads'
    BY <1>f, <2>1, <2>2 DEF FilesHaveDownloads, Working, Moving
  <2>7. NothingYet'
    BY <2>1, <2>2 DEF NothingYet, CopiesOf
  <2> QED BY <2>3, <2>4, <2>5, <2>6, <2>7
<1>2. CASE CancelWrites
  <2>1. /\ Serving /\ client.at = "cancel" /\ client.job \in Job
        /\ \A j \in Job : \/ row'[j] = row[j] /\ active'[j] = active[j] /\ engine'[j] = engine[j]
                          \/ /\ active'[j] = Untracked /\ engine'[j] = "unknown"
                             /\ row'[j].status \in {"deleted", "cancelled"} /\ (row'[j].status = "deleted" => row[j].status = "deleted")
        /\ client'.at \in {"clean", "none"}
        /\ UNCHANGED <<dest, staging, attempt, journal, fin, todo>>
    BY <1>2, CancelWritesEffects
  <2>2. FinJob' = FinJob /\ \A k \in Job : Current(k)' = Current(k)
    BY <2>1 DEF Current, FinJob
  <2>3. ServesOrRecovers' /\ DeletedHaveNoRecord'
    BY <2>1, TypesKnown DEF ServesOrRecovers, Serving, DeletedHaveNoRecord
  <2>4. WorksOnCurrent'
    BY <1>f, <2>1, <2>2 DEF WorksOnCurrent, Working
  <2>5. TrackedDownloads'
    BY <2>1, <2>2 DEF TrackedDownloads
  <2>6. FilesHaveDownloads'
    BY <1>f, <2>1, <2>2 DEF FilesHaveDownloads, Working, Moving
  <2>7. NothingYet'
    BY <2>1, <2>2 DEF NothingYet, CopiesOf
  <2> QED BY <2>3, <2>4, <2>5, <2>6, <2>7
<1>3. CASE CancelCleans
  <2>1. /\ Serving /\ client'.at = "none"
        /\ \A j \in Job : staging'[j] \in {staging[j], Nothing}
        /\ UNCHANGED <<dest, row, attempt, active, engine, journal, fin, todo>>
    BY <1>3, CancelCleansEffects
  <2>2. FinJob' = FinJob /\ \A k \in Job : Current(k)' = Current(k)
    BY <2>1 DEF Current, FinJob
  <2>3. ServesOrRecovers' /\ DeletedHaveNoRecord'
    BY <2>1 DEF ServesOrRecovers, Serving, DeletedHaveNoRecord
  <2>4. WorksOnCurrent'
    BY <1>f, <2>1, <2>2 DEF WorksOnCurrent, Working
  <2>5. TrackedDownloads'
    BY <2>1, <2>2 DEF TrackedDownloads
  <2>6. FilesHaveDownloads'
    BY <1>f, <2>1, <2>2 DEF FilesHaveDownloads, Working, Moving
  <2>7. NothingYet'
    BY <2>1, <2>2 DEF NothingYet, CopiesOf
  <2> QED BY <2>3, <2>4, <2>5, <2>6, <2>7
<1>4. ASSUME NEW j \in Job, Retry(j) PROVE WorkInv'
  <2>1. /\ Serving /\ client.at = "none" /\ row[j].status = "failed" /\ attempt[j] < MaxAttempts
        /\ \A k \in Job : k # j => /\ row'[k] = row[k] /\ active'[k] = active[k] /\ engine'[k] = engine[k]
                                   /\ staging'[k] = staging[k] /\ attempt'[k] = attempt[k]
        /\ attempt'[j] = attempt[j] + 1 /\ staging'[j] = Nothing /\ active'[j] = row[j].final /\ engine'[j] = "running"
        /\ row'[j].status = "downloading"
        /\ UNCHANGED <<dest, client, journal, fin, todo>>
    BY <1>4, RetryEffects
  <2>2. FinJob' = FinJob /\ (fin.at \in Working => FinJob # j)
    BY <1>s, <2>1 DEF FinJob, WorksOnCurrent, Working
  <2>3. \A k \in Job : k # j => Current(k)' = Current(k)
    BY <2>1 DEF Current
  <2>4. Current(j)' = <<j, attempt[j] + 1>> /\ attempt[j] \in Nat /\ \A k \in Job : attempt[k] \in Nat /\ attempt'[k] \in Nat /\ attempt[k] <= attempt'[k]
    BY <2>1, TypesKnown DEF Current
  <2>5. ServesOrRecovers' /\ DeletedHaveNoRecord'
    BY <2>1, TypesKnown DEF ServesOrRecovers, Serving, DeletedHaveNoRecord
  <2>6. WorksOnCurrent'
    BY <1>f, <2>1, <2>2, <2>3 DEF WorksOnCurrent, Working
  <2>7. TrackedDownloads'
    <3>1. active'[j] # Untracked
      BY <2>1, TypesKnown DEF RowTypes, Path, NoPath, Untracked, FileAssumptions
    <3> QED BY <1>f, <2>1, <2>2, <3>1 DEF TrackedDownloads
  <2>8. FilesHaveDownloads'
    <3>1. \A k \in Job : staging'[k] \in {Nothing, Current(k)'}
      BY <2>1, <2>3 DEF FilesHaveDownloads
    <3>2. \A d \in Delivery : d[2] <= attempt[d[1]] => d[2] <= attempt'[d[1]]
      <4> SUFFICES ASSUME NEW d \in Delivery, d[2] <= attempt[d[1]] PROVE d[2] <= attempt'[d[1]]
        OBVIOUS
      <4>1. d[1] \in Job /\ d[2] \in Nat
        BY TypesKnown
      <4> QED BY <2>4, <4>1
    <3>3. \A p \in Path : dest'[p] \in Delivery => dest'[p][2] <= attempt'[dest'[p][1]]
      BY <2>1, <3>2 DEF FilesHaveDownloads
    <3>4. \A d \in Delivery : journal'[d].phase # "none" => d[2] <= attempt'[d[1]]
      BY <2>1, <3>2 DEF FilesHaveDownloads
    <3>5. todo' \subseteq {d \in Delivery : d[2] <= attempt'[d[1]]}
      BY <1>s, <2>1
    <3>6. fin'.at \in Working => fin'.d[2] <= attempt'[FinJob']
      BY <1>f, <2>1, <2>2, <3>2 DEF FilesHaveDownloads, FinJob
    <3>7. fin'.at = "copied" => fin'.copy = Current(FinJob)'
      BY <1>f, <2>1, <2>2, <2>3 DEF FilesHaveDownloads, Working, Moving
    <3> HIDE DEF WorkInv
    <3> QED BY <3>1, <3>3, <3>4, <3>5, <3>6, <3>7, <2>2 DEF FilesHaveDownloads
  <2>9. NothingYet'
    <3>1. \A p \in Path : dest[p] # <<j, attempt[j] + 1>>
      <4> SUFFICES ASSUME NEW p \in Path, dest[p] = <<j, attempt[j] + 1>> PROVE FALSE
        OBVIOUS
      <4>1. dest[p] \in Delivery
        BY <2>1, <2>4, TypesKnown DEF Delivery, FileAssumptions
      <4>2. dest[p][2] <= attempt[dest[p][1]]
        BY <4>1 DEF FilesHaveDownloads
      <4>3. attempt[j] + 1 <= attempt[j]
        BY <4>2
      <4> QED BY <2>4, <4>3
    <3>2. fin.at = "copied" => fin.copy # <<j, attempt[j] + 1>>
      BY <1>f, <2>2, <1>b DEF FilesHaveDownloads, Working, Moving, Current
    <3> SUFFICES ASSUME NEW k \in Job, engine'[k] \in Fruitless
                 PROVE  /\ staging'[k] = Nothing /\ \A p \in Path : dest[p] # Current(k)'
                        /\ fin.at = "copied" => fin.copy # Current(k)'
      BY <2>1, <2>2 DEF NothingYet, CopiesOf, Fruitless
    <3>3. CASE k = j
      BY <2>1, <2>4, <3>1, <3>2, <3>3
    <3>4. CASE k # j
      BY <2>1, <2>3, <3>4 DEF NothingYet, Fruitless, CopiesOf
    <3> QED BY <3>3, <3>4
  <2> QED BY <2>5, <2>6, <2>7, <2>8, <2>9
<1>5. ASSUME NEW j \in Job, DeleteFiles(j) PROVE WorkInv'
  <2>1. /\ Serving /\ client'.at = "delete" /\ client'.job = j
        /\ \A p \in Path : dest'[p] = dest[p] \/ dest'[p] = Nothing
        /\ engine'[j] = "unknown" /\ staging'[j] = Nothing
        /\ \A k \in Job : k # j => engine'[k] = engine[k] /\ staging'[k] = staging[k]
        /\ UNCHANGED <<row, attempt, active, journal, fin, todo>>
    BY <1>5, DeleteFilesEffects
  <2>2. FinJob' = FinJob /\ \A k \in Job : Current(k)' = Current(k)
    BY <2>1 DEF Current, FinJob
  <2>3. ServesOrRecovers' /\ DeletedHaveNoRecord'
    BY <2>1 DEF ServesOrRecovers, Serving, DeletedHaveNoRecord
  <2>4. WorksOnCurrent'
    BY <1>f, <2>1, <2>2 DEF WorksOnCurrent, Working
  <2>5. TrackedDownloads'
    BY <2>1, <2>2 DEF TrackedDownloads
  <2>6. \A p \in Path : dest'[p] \in Delivery => dest'[p] = dest[p]
    BY <2>1 DEF FileAssumptions, Delivery
  <2>7. \A k \in Job : \A p \in Path : dest'[p] = Current(k) => dest[p] = Current(k)
    BY <1>b, <2>6
  <2>8. FilesHaveDownloads'
    BY <1>f, <2>1, <2>2, <2>6 DEF FilesHaveDownloads, Working, Moving
  <2>9. NothingYet'
    BY <2>1, <2>2, <2>7 DEF NothingYet, CopiesOf
  <2> QED BY <2>3, <2>4, <2>5, <2>8, <2>9
<1>6. CASE DeleteRows
  <2>1. /\ Serving /\ client.at = "delete" /\ client.job \in Job /\ client'.at = "none"
        /\ \/ /\ active'[client.job] = Untracked
              /\ \A k \in Job : k # client.job => row'[k] = row[k] /\ active'[k] = active[k]
              /\ row'[client.job].status = "deleted"
              /\ \A d \in Delivery : IF d[1] = client.job THEN journal'[d].phase = "none"
                                     ELSE journal'[d] = journal[d]
           \/ UNCHANGED <<row, journal, active>>
        /\ UNCHANGED <<dest, staging, attempt, engine, fin, todo>>
    BY <1>6, DeleteRowsEffects DEF NoRecord
  <2>2. FinJob' = FinJob /\ \A k \in Job : Current(k)' = Current(k)
    BY <2>1 DEF Current, FinJob
  <2>3. ServesOrRecovers'
    BY <2>1 DEF ServesOrRecovers, Serving
  <2>d. DeletedHaveNoRecord'
    BY <2>1, TypesKnown DEF DeletedHaveNoRecord
  <2>4. WorksOnCurrent'
    BY <1>f, <2>1, <2>2 DEF WorksOnCurrent, Working
  <2>5. TrackedDownloads'
    BY <2>1, <2>2 DEF TrackedDownloads
  <2>6. FilesHaveDownloads'
    BY <1>f, <2>1, <2>2, TypesKnown DEF FilesHaveDownloads, Working, Moving
  <2>7. NothingYet'
    BY <2>1, <2>2 DEF NothingYet, CopiesOf
  <2> QED BY <2>3, <2>d, <2>4, <2>5, <2>6, <2>7
<1> QED BY <1>1, <1>2, <1>3, <1>4, <1>5, <1>6 DEF ClientSteps

\* Every step keeps it.
LEMMA WorkStays == WorkInv /\ [MediaNext]_vars => WorkInv'
<1>1. WorkInv /\ UNCHANGED vars => WorkInv'
  BY DEF vars, fileVars, mediaVars, WorkInv, MediaTypeOK, FilesTypeOK, ServesOrRecovers, TrackedDownloads, WorksOnCurrent,
         FilesHaveDownloads, NothingYet, DeletedHaveNoRecord, Serving, CopiesOf, Current, FinJob
<1>2. WorkInv /\ [MediaNext]_vars => MediaTypeOK'
  BY TypesStay DEF WorkInv
<1> SUFFICES ASSUME WorkInv, MediaTypeOK', MediaNext PROVE WorkInv'
  BY <1>1, <1>2
<1>3. CASE FinalizationSteps
  BY <1>3, MovesKeepWork, EndsKeepWork DEF FinalizationSteps
<1>4. CASE RecoverySteps
  BY <1>4, EndsKeepWork, RecoveryKeepsWork DEF RecoverySteps
<1> QED BY <1>3, <1>4, OthersKeepWork, PollKeepsWork, ClientKeepsWork DEF MediaNext
------------------------------------------------------------------------------
\* Where files are.

\* No file is made, and no move begun.
LEMMA StaysInPlace ==
    ASSUME PlaceInv, WorkInv', UNCHANGED <<policy, device>>,
           \A p \in Path : dest'[p] \in Delivery => dest'[p] = dest[p],
           \A j \in Job : staging'[j] \in {staging[j], Nothing},
           \/ fin'.at \notin {"save", "begin", "move", "copied"}
           \/ /\ fin.at \in {"save", "begin", "move", "copied"} /\ fin'.path = fin.path /\ fin'.copy = fin.copy /\ fin'.d = fin.d
              /\ fin'.at = "copied" => fin.at = "copied"
    PROVE  PlaceInv'
<1> FinJob' = FinJob \/ fin'.at \notin {"save", "begin", "move", "copied"}
  BY DEF FinJob
<1>1. PathChosen'
  BY DEF PlaceInv, PathChosen
<1>2. \A j \in Job : staging[j] \in Delivery \cup {Nothing}
  BY TypesKnown DEF PlaceInv, WorkInv, FilesTypeOK
<1>3. ASSUME device = "same" PROVE OnePlace'
  <2>1. fin.at = "copied" => fin.copy \in Delivery
    BY CurrentIsDelivery, WorkingTyped DEF PlaceInv, WorkInv, FilesHaveDownloads, Working, Moving
  <2>2. \A j \in Job, p \in Path : staging'[j] # Nothing /\ dest'[p] = staging'[j] => staging'[j] = staging[j] /\ dest'[p] = dest[p]
    BY <1>2
  <2> QED BY <1>3, <2>1, <2>2 DEF PlaceInv, OnePlace
<1> QED BY <1>1, <1>3 DEF PlaceInv

LEMMA ResolveKeepsPlace ==
    ASSUME PlaceInv, WorkInv', Resolve
    PROVE  PlaceInv'
<1>1. /\ fin.at = "resolve" /\ fin'.d = fin.d /\ UNCHANGED <<dest, staging, policy, device>>
      /\ \/ fin'.at = "save" /\ fin'.path = ResolveFinalPath(FinJob) /\ fin'.path # NoPath
         \/ fin'.at = "fail"
         \/ fin'.at = "mark_failed"
  BY ResolveEffects DEF PlaceInv, WorkInv
<1>2. PathChosen'
  <2>1. policy[FinJob] = "overwrite" => ResolveFinalPath(FinJob) = 1
    BY DEF ResolveFinalPath
  <2>2. ResolveFinalPath(FinJob) \in Path \cup {NoPath}
    BY PathFound, WorkingTyped, TypesKnown DEF Resolve, FinStep, Working, Moving, PlaceInv, WorkInv
  <2> QED BY <1>1, <2>1, <2>2 DEF PathChosen, FinJob
<1>3. ASSUME device = "same" PROVE OnePlace'
  BY <1>1, <1>3 DEF PlaceInv, OnePlace
<1> QED BY <1>1, <1>2, <1>3 DEF PlaceInv

LEMMA MoveKeepsPlace ==
    ASSUME PlaceInv, WorkInv', Move
    PROVE  PlaceInv'
<1>0. /\ fin.at = "move" /\ fin'.d = fin.d /\ fin'.path = fin.path /\ FinJob' = FinJob /\ UNCHANGED <<policy, device>>
      /\ MediaTypeOK
  BY MoveEffects DEF PlaceInv, WorkInv, FinJob
<1>1. /\ \A j \in Job : staging[j] \in {Nothing, Current(j)}
      /\ FinJob \in Job /\ \A j \in Job : Current(j) \in Delivery /\ Current(j)[1] = j
      /\ dest \in [Path -> Content] /\ staging \in [Job -> Delivery \cup {Nothing}]
  BY <1>0, CurrentIsDelivery, WorkingTyped, TypesKnown DEF PlaceInv, WorkInv, FilesHaveDownloads, Working, Moving, FilesTypeOK
<1>2. PathChosen /\ (device = "same" => OnePlace)
  BY DEF PlaceInv
<1>3. PathChosen'
  BY <1>0, <1>2 DEF PathChosen
<1>4. CASE fin'.at = "mark_failed" /\ UNCHANGED <<dest, staging>>
  <2>1. device = "same" => OnePlace'
    BY <1>0, <1>2, <1>4 DEF OnePlace
  <2> QED BY <1>0, <1>3, <2>1 DEF PlaceInv
<1>5. CASE fin'.at = "copied" /\ ~CannotMove(FinJob, fin.path) /\ ~CanRename(fin.path) /\ fin'.copy = staging[FinJob] /\ UNCHANGED <<dest, staging>>
  <2>1. ASSUME device = "same" PROVE OnePlace'
    <3>1. staging[FinJob] # Nothing /\ dest[fin.path] # Nothing /\ policy[FinJob] = "overwrite"
      BY <1>5, <2>1 DEF CannotMove, CanRename
    <3> QED BY <1>0, <1>1, <1>2, <1>5, <2>1, <3>1 DEF OnePlace
  <2> QED BY <1>0, <1>3, <2>1 DEF PlaceInv
<1>6. CASE /\ fin'.at = "validated" /\ ~CannotMove(FinJob, fin.path) /\ CanRename(fin.path)
           /\ dest' = [dest EXCEPT ![fin.path] = staging[FinJob]] /\ staging' = [staging EXCEPT ![FinJob] = Nothing]
  <2>1. device = "same" /\ staging[FinJob] = Current(FinJob) /\ dest[fin.path] = Nothing /\ OnePlace
    BY <1>1, <1>2, <1>6 DEF CannotMove, CanRename
  <2>2. \A p \in Path : dest[p] # Current(FinJob)
    <3> SUFFICES ASSUME NEW p \in Path, dest[p] = Current(FinJob) PROVE FALSE
      OBVIOUS
    <3>1. staging[FinJob] # Nothing
      BY <1>6 DEF CannotMove
    <3>2. policy[FinJob] = "overwrite" /\ p = 1
      BY <1>1, <2>1, <3>1 DEF OnePlace
    <3>3. fin.path = 1
      BY <1>0, <1>2, <3>2 DEF PathChosen
    <3> QED BY <2>1, <3>1, <3>2, <3>3
  <2>3. \A p \in Path : dest'[p] = dest[p] \/ (p = fin.path /\ dest'[p] = Current(FinJob))
    BY <1>1, <1>6, <2>1
  <2>4. \A j \in Job : staging'[j] = staging[j] \/ staging'[j] = Nothing
    BY <1>1, <1>6
  <2>5. staging'[FinJob] = Nothing
    BY <1>1, <1>6
  <2>6. \A p, q \in Path : dest'[p] \in Delivery /\ dest'[p] = dest'[q] => p = q
    BY <2>1, <2>2, <2>3 DEF OnePlace
  <2>7. ASSUME NEW j \in Job, NEW p \in Path, staging'[j] # Nothing, dest'[p] = staging'[j]
        PROVE  policy[j] = "overwrite" /\ p = 1
    <3>1. j # FinJob /\ staging'[j] = staging[j] /\ staging[j] = Current(j)
      BY <1>1, <2>4, <2>5, <2>7
    <3>2. dest'[p] = dest[p]
      BY <1>1, <2>3, <2>7, <3>1
    <3> QED BY <2>1, <2>7, <3>1, <3>2 DEF OnePlace
  <2>8. OnePlace'
    BY <1>0, <1>6, <2>6, <2>7 DEF OnePlace
  <2> QED BY <1>3, <2>8 DEF PlaceInv
<1> QED BY <1>0, <1>4, <1>5, <1>6, MoveEffects

LEMMA ReplaceKeepsPlace ==
    ASSUME PlaceInv, WorkInv', ReplaceTarget
    PROVE  PlaceInv'
<1>0. /\ fin.at = "copied" /\ fin'.d = fin.d /\ fin'.path = fin.path /\ FinJob' = FinJob /\ UNCHANGED <<policy, device, staging>>
      /\ MediaTypeOK /\ fin'.at \in {"mark_failed", "unlink"}
      /\ dest' = dest \/ dest' = [dest EXCEPT ![fin.path] = fin.copy]
  BY ReplaceEffects DEF PlaceInv, WorkInv, FinJob
<1>1. /\ \A j \in Job : staging[j] \in {Nothing, Current(j)}
      /\ FinJob \in Job /\ fin.copy = Current(FinJob) /\ \A j \in Job : Current(j) \in Delivery /\ Current(j)[1] = j
      /\ dest \in [Path -> Content]
  BY <1>0, CurrentIsDelivery, WorkingTyped, TypesKnown DEF PlaceInv, WorkInv, FilesHaveDownloads, Working, Moving, FilesTypeOK
<1>2. PathChosen'
  BY <1>0 DEF PathChosen
<1>3. ASSUME device = "same" PROVE OnePlace'
  <2>1. policy[FinJob] = "overwrite" /\ (\A p \in Path : dest[p] = Current(FinJob) => p = 1) /\ fin.path = 1 /\ OnePlace
    BY <1>0, <1>1, <1>3 DEF PlaceInv, OnePlace, PathChosen
  <2>2. \A p \in Path : dest'[p] = dest[p] \/ (p = 1 /\ dest'[p] = Current(FinJob))
    BY <1>0, <1>1, <2>1
  <2>3. \A p, q \in Path : dest'[p] \in Delivery /\ dest'[p] = dest'[q] => p = q
    BY <2>1, <2>2 DEF OnePlace
  <2>4. ASSUME NEW j \in Job, NEW p \in Path, staging[j] # Nothing, dest'[p] = staging[j]
        PROVE  policy[j] = "overwrite" /\ p = 1
    <3>1. CASE dest'[p] = dest[p]
      BY <2>1, <2>4, <3>1 DEF OnePlace
    <3>2. CASE p = 1 /\ dest'[p] = Current(FinJob)
      <4>1. j = FinJob
        BY <1>1, <2>4, <3>2
      <4> QED BY <2>1, <3>2, <4>1
    <3> QED BY <2>2, <3>1, <3>2
  <2> QED BY <1>0, <2>3, <2>4 DEF OnePlace
<1> QED BY <1>0, <1>2, <1>3 DEF PlaceInv

LEMMA EngineKeepsPlace ==
    ASSUME PlaceInv, WorkInv', NEW j \in Job, EngineEnds(j)
    PROVE  PlaceInv'
<1>0. /\ engine[j] = "running" /\ UNCHANGED <<dest, policy, device, fin, attempt>>
      /\ \A k \in Job : k # j => staging'[k] = staging[k]
      /\ staging'[j] = Current(j) \/ staging'[j] = staging[j]
  BY EngineEffects DEF PlaceInv, WorkInv
<1>1. \A p \in Path : dest[p] # Current(j)
  BY <1>0 DEF PlaceInv, WorkInv, NothingYet, CopiesOf
<1>2. PathChosen'
  BY <1>0 DEF PlaceInv, PathChosen, FinJob
<1>3. ASSUME device = "same" PROVE OnePlace'
  <2>1. OnePlace /\ FinJob' = FinJob
    BY <1>0, <1>3 DEF PlaceInv, FinJob
  <2>2. \A k \in Job, p \in Path : staging'[k] # Nothing /\ dest[p] = staging'[k] => policy[k] = "overwrite" /\ p = 1
    BY <1>0, <1>1, <2>1 DEF OnePlace
  <2> QED BY <1>0, <2>1, <2>2 DEF OnePlace
<1> QED BY <1>0, <1>2, <1>3 DEF PlaceInv

\* The steps that write a phase of the record and go on.
LEMMA RecordEffects ==
    ASSUME MediaTypeOK,
           \/ Begin \/ Committed \/ Pending \/ MarkFailed
           \/ Valid(fin.path, fin.d) /\ UpdatePhase("validated", "validated", "subtitles")
    PROVE  /\ fin'.d = fin.d /\ FinJob' = FinJob /\ fin'.live = fin.live /\ fin'.path = fin.path /\ fin'.final = fin.final /\ fin'.copy = fin.copy
           /\ fin.at \in Working /\ fin'.at \in Working
           /\ UNCHANGED <<row, active, attempt, engine, client, todo, given_up, removed, misfiled, scenario, dest, staging, sidecar, policy, device>>
           /\ \A d \in Delivery : d # fin.d => journal'[d] = journal[d]
           /\ left'.io = left.io /\ left'.db <= left.db
           /\ \E p \in Phase :
                /\ \/ fin.at = "begin" /\ p = "in_progress" /\ fin'.at = "move"
                   \/ fin.at = "validated" /\ p = "validated" /\ fin'.at = "subtitles" /\ Valid(fin.path, fin.d)
                   \/ fin.at = "committed" /\ p = "db_committed" /\ fin'.at = "forget"
                   \/ fin.at = "pending" /\ p = "cleanup_pending" /\ fin'.at = "clean"
                   \/ fin.at = "mark_failed" /\ p = "failed" /\ fin'.at = "fail"
                /\ \/ journal'[fin.d] = journal[fin.d]
                      /\ (journal[fin.d].phase = "none" \/ ~Exists(FinJob) \/ left'.db < left.db)
                   \/ /\ Exists(FinJob) /\ journal[fin.d].phase # "none" /\ left' = left
                      /\ journal'[fin.d] = [phase |-> p, path |-> journal[fin.d].path]
<1>1. PICK from \in Working, p \in Phase, to \in Working :
          /\ UpdatePhase(from, p, to)
          /\ \/ from = "begin" /\ p = "in_progress" /\ to = "move"
             \/ from = "validated" /\ p = "validated" /\ to = "subtitles" /\ Valid(fin.path, fin.d)
             \/ from = "committed" /\ p = "db_committed" /\ to = "forget"
             \/ from = "pending" /\ p = "cleanup_pending" /\ to = "clean"
             \/ from = "mark_failed" /\ p = "failed" /\ to = "fail"
  <2>1. {"in_progress", "validated", "db_committed", "cleanup_pending", "failed"} \subseteq Phase
    BY DEF Phase
  <2>2. {"begin", "validated", "committed", "pending", "mark_failed", "move", "subtitles", "forget", "clean", "fail"} \subseteq Working
    BY DEF Working, Moving, Cleaning
  <2>3. CASE Begin
    BY <2>1, <2>2, <2>3 DEF Begin
  <2>4. CASE Committed
    BY <2>1, <2>2, <2>4 DEF Committed
  <2>5. CASE Pending
    BY <2>1, <2>2, <2>5 DEF Pending
  <2>6. CASE MarkFailed
    BY <2>1, <2>2, <2>6 DEF MarkFailed
  <2>7. CASE Valid(fin.path, fin.d) /\ UpdatePhase("validated", "validated", "subtitles")
    BY <2>1, <2>2, <2>7
  <2> QED BY <2>3, <2>4, <2>5, <2>6, <2>7
<1>2. fin.at = from /\ fin'.at = to /\ FinJob' = FinJob
  BY <1>1, PhaseEffects DEF FinJob
<1>3. /\ fin'.d = fin.d /\ fin'.live = fin.live /\ fin'.path = fin.path /\ fin'.final = fin.final /\ fin'.copy = fin.copy
      /\ UNCHANGED <<row, active, attempt, engine, client, todo, given_up, removed, misfiled, scenario, dest, staging, sidecar, policy, device>>
      /\ \A d \in Delivery : d # fin.d => journal'[d] = journal[d]
      /\ left'.io = left.io /\ left'.db <= left.db
      /\ \/ journal'[fin.d] = journal[fin.d]
            /\ (journal[fin.d].phase = "none" \/ ~Exists(FinJob) \/ left'.db < left.db)
         \/ /\ Exists(FinJob) /\ journal[fin.d].phase # "none" /\ left' = left
            /\ journal'[fin.d] = [phase |-> p, path |-> journal[fin.d].path]
  BY <1>1, PhaseEffects
<1> QED BY <1>1, <1>2, <1>3

LEMMA ForgetEffects ==
    ASSUME MediaTypeOK, Forget
    PROVE  /\ fin.at = "forget" /\ fin'.at = "pending" /\ fin'.d = fin.d /\ FinJob' = FinJob /\ fin'.live = fin.live /\ fin'.path = fin.path
           /\ fin'.final = fin.final /\ fin'.copy = fin.copy
           /\ UNCHANGED <<row, attempt, client, todo, given_up, removed, misfiled, scenario, dest, staging, sidecar, policy, device, journal, left>>
           /\ active'[FinJob] = Untracked /\ engine'[FinJob] = "unknown"
           /\ \A j \in Job : j # FinJob => active'[j] = active[j] /\ engine'[j] = engine[j]
<1>1. fin \in FinTypes /\ active \in ActiveTypes /\ engine \in EngineTypes /\ FinJob \in Job
  BY TypesKnown, WorkingTyped DEF Forget, Working, Cleaning
<1> QED BY <1>1 DEF Forget, Goto, FinTypes, RemoveActive, ActiveTypes, EngineTypes, FilesStay, fileVars, FinJob

\* A live delivery that fails its job, or a recovered one.
LEMMA FailEffects ==
    ASSUME MediaTypeOK, FailJob
    PROVE  /\ fin.at = "fail" /\ fin' = Done /\ FinJob \in Job /\ fin.d \in Delivery
           /\ UNCHANGED <<attempt, client, todo, given_up, removed, misfiled, scenario, dest, staging, policy, device, journal>>
           /\ left'.io = left.io
           /\ \A j \in Job : j # FinJob => row'[j] = row[j] /\ active'[j] = active[j] /\ engine'[j] = engine[j]
           /\ \/ UNCHANGED <<row, active, engine>> /\ left'.db < left.db
              \/ /\ left' = left /\ active'[FinJob] = Untracked /\ engine'[FinJob] = "unknown"
                 /\ row'[FinJob] = IF row[FinJob].status = "deleted" THEN row[FinJob] ELSE [status |-> "failed", final |-> fin.final]
<1>1. fin.at = "fail" /\ FinJob \in Job /\ fin.d \in Delivery /\ fin.final \in Path \cup {NoPath} /\ fin' = Done
      /\ UNCHANGED <<attempt, client, todo, given_up, removed, misfiled, scenario, journal>>
  BY WorkingTyped DEF FailJob, Working, Moving
<1>2. PICK c \in BOOLEAN, st \in {"completed", "failed", "cancelled"} : c = FALSE /\ st = "failed"
  OBVIOUS
<1>3. EndJob(FinJob, st, fin.final, c)
  BY <1>2 DEF FailJob
<1>4. /\ UNCHANGED <<dest, policy, device>> /\ left'.io = left.io
      /\ \A j \in Job : j # FinJob => row'[j] = row[j] /\ active'[j] = active[j] /\ engine'[j] = engine[j]
      /\ \/ UNCHANGED <<row, active, engine>> /\ left'.db < left.db
         \/ /\ left' = left /\ active'[FinJob] = Untracked /\ engine'[FinJob] = "unknown"
            /\ row'[FinJob] = IF row[FinJob].status = "deleted" THEN row[FinJob] ELSE [status |-> st, final |-> fin.final]
  BY <1>1, <1>3, EndEffects
<1>5. UNCHANGED staging
  BY DEF FailJob, EndJob, FilesStay, fileVars
<1> QED BY <1>1, <1>2, <1>4, <1>5

LEMMA PlaceHolds == MediaInit => PlaceInv
<1> SUFFICES ASSUME MediaInit PROVE PlaceInv
  OBVIOUS
<1>1. WorkInv /\ fin.at = "idle"
  BY WorkInvHolds DEF MediaInit, Idle
<1>2. Nothing \notin Delivery /\ (\A p \in Path : dest[p] = Nothing) /\ (\A j \in Job : staging[j] = Nothing)
  BY DEF MediaInit, FileAssumptions, Delivery
<1> QED BY <1>1, <1>2 DEF PlaceInv, PathChosen, OnePlace

\* Every step keeps it.
LEMMA PlaceStays == PlaceInv /\ [MediaNext]_vars => PlaceInv'
<1>0. PlaceInv /\ [MediaNext]_vars => WorkInv'
  BY WorkStays DEF PlaceInv
<1> SUFFICES ASSUME PlaceInv, WorkInv', [MediaNext]_vars PROVE PlaceInv'
  BY <1>0
<1> DEFINE Moves == {"save", "begin", "move", "copied"}
<1>t. MediaTypeOK /\ dest \in [Path -> Content] /\ staging \in [Job -> Delivery \cup {Nothing}] /\ {Nothing, Foreign} \cap Delivery = {}
  BY TypesKnown DEF PlaceInv, WorkInv, FilesTypeOK, FileAssumptions, Delivery
<1>s. ASSUME UNCHANGED <<policy, device>>,
             \A p \in Path : dest'[p] = dest[p] \/ dest'[p] \in {Nothing, Foreign},
             \A j \in Job : staging'[j] \in {staging[j], Nothing},
             \/ fin'.at \notin Moves
             \/ fin.at \in Moves /\ fin'.path = fin.path /\ fin'.copy = fin.copy /\ fin'.d = fin.d
                /\ (fin'.at = "copied" => fin.at = "copied")
      PROVE  PlaceInv'
  BY <1>t, <1>s, StaysInPlace
<1>1. CASE UNCHANGED vars
  BY <1>1, <1>s, <1>t DEF vars, fileVars, mediaVars
<1>2. ASSUME NEW j \in Job, UpdateJobFromEngine(j) PROVE PlaceInv'
  <2>1. CASE StartFinalizing(j) /\ UNCHANGED <<row, active, engine, left, dest, staging, policy, device>>
    BY <1>t, <2>1, <1>s, StartEffects
  <2>2. ASSUME NEW st \in {"completed", "failed", "cancelled"}, NEW f \in Path \cup {NoPath}, NEW clean \in BOOLEAN,
               EndJob(j, st, f, clean), UNCHANGED <<fin, journal>>
        PROVE  PlaceInv'
    <3>1. /\ UNCHANGED <<dest, policy, device>> /\ staging'[j] \in {staging[j], Nothing}
          /\ \A k \in Job : k # j => staging'[k] = staging[k]
      <4>1. /\ UNCHANGED <<dest, policy, device>>
            /\ \A k \in Job : k # j => row'[k] = row[k] /\ active'[k] = active[k] /\ engine'[k] = engine[k] /\ staging'[k] = staging[k]
            /\ \/ UNCHANGED <<row, active, engine, staging>>
               \/ /\ active'[j] = Untracked /\ engine'[j] = "unknown"
                  /\ row'[j] = IF row[j].status = "deleted" THEN row[j] ELSE [status |-> st, final |-> f]
                  /\ staging'[j] = IF clean THEN Nothing ELSE staging[j]
        BY <1>t, <2>2, EndEffects
      <4> QED BY <4>1
    <3> QED BY <1>s, <2>2, <3>1
  <2> QED BY <1>t, <1>2, <2>1, <2>2, PollEffects
<1>3. ASSUME NEW p \in Path, ForeignFile(p) PROVE PlaceInv'
  BY <1>t, <1>3, <1>s, ForeignEffects
<1>4. CASE Crash
  BY <1>t, <1>4, <1>s, CrashEffects
<1>5. CASE Restart
  BY <1>t, <1>5, <1>s, RestartEffects
<1>6. CASE \/ Begin \/ Committed \/ Pending \/ MarkFailed
           \/ Valid(fin.path, fin.d) /\ UpdatePhase("validated", "validated", "subtitles")
  <2>1. /\ fin'.d = fin.d /\ fin'.path = fin.path /\ fin'.copy = fin.copy /\ UNCHANGED <<dest, staging, policy, device>>
        /\ (fin.at = "begin" /\ fin'.at = "move") \/ fin'.at \in {"subtitles", "forget", "clean", "fail"}
    BY <1>t, <1>6, RecordEffects
  <2> QED BY <1>s, <2>1
<1>7. CASE Save
  <2>1. /\ fin.at = "save" /\ fin'.at = "begin" /\ fin'.d = fin.d /\ fin'.path = fin.path /\ fin'.copy = fin.copy
        /\ UNCHANGED <<dest, staging, policy, device>>
    BY <1>t, <1>7, SaveEffects
  <2> QED BY <1>s, <2>1
<1>8. CASE \/ CopyFails
           \/ FinStep("validated") /\ ~Valid(fin.path, fin.d) /\ Goto("mark_failed") /\ FilesStay /\ UNCHANGED <<row, active, journal, left>>
  BY <1>t, <1>8, <1>s, PlainEffects
<1>9. CASE Unlink \/ Clean
  <2>1. /\ fin'.at \in {"validated", "complete"} /\ staging' = [staging EXCEPT ![FinJob] = Nothing] /\ UNCHANGED <<dest, policy, device>>
    BY <1>t, <1>9, UnlinkEffects
  <2>2. \A j \in Job : staging'[j] \in {staging[j], Nothing}
    BY <1>t, <2>1
  <2> QED BY <1>s, <2>1, <2>2
<1>10. CASE Subtitles
  BY <1>t, <1>10, <1>s, SubtitlesEffects
<1>11. CASE Commit
  BY <1>t, <1>11, <1>s, CommitEffects
<1>12. CASE Recommit
  BY <1>t, <1>12, <1>s, RecommitEffects
<1>13. CASE NotCommitted \/ Complete
  <2>1. fin' = Done /\ UNCHANGED <<dest, staging, policy, device>>
    BY <1>t, <1>13, EndRecordEffects
  <2> QED BY <1>s, <2>1, DoneEffects
<1>14. CASE FailJob
  <2>1. fin' = Done /\ UNCHANGED <<dest, staging, policy, device>>
    BY <1>t, <1>14, FailEffects
  <2> QED BY <1>s, <2>1, DoneEffects
<1>15. CASE Forget
  BY <1>t, <1>15, <1>s, ForgetEffects
<1>16. ASSUME NEW d \in Delivery, Reconcile(d) PROVE PlaceInv'
  BY <1>t, <1>16, <1>s, ReconcileEffects
<1>17. CASE FailInterrupted
  BY <1>t, <1>17, <1>s, InterruptedEffects
<1>18. CASE Sweep
  BY <1>t, <1>18, <1>s, SweepEffects
<1>19. ASSUME NEW j \in Job, CancelBegins(j) PROVE PlaceInv'
  BY <1>t, <1>19, <1>s, CancelBeginsEffects
<1>20. CASE CancelWrites
  BY <1>t, <1>20, <1>s, CancelWritesEffects
<1>21. CASE CancelCleans
  BY <1>t, <1>21, <1>s, CancelCleansEffects
<1>22. ASSUME NEW j \in Job, Retry(j) PROVE PlaceInv'
  <2>1. UNCHANGED <<dest, policy, device, fin>> /\ \A k \in Job : staging'[k] \in {staging[k], Nothing}
    BY <1>t, <1>22, RetryEffects
  <2> QED BY <1>s, <2>1
<1>23. ASSUME NEW j \in Job, DeleteFiles(j) PROVE PlaceInv'
  <2>1. UNCHANGED <<policy, device, fin>> /\ \A k \in Job : staging'[k] \in {staging[k], Nothing}
        /\ \A p \in Path : dest'[p] = dest[p] \/ dest'[p] = Nothing
    BY <1>t, <1>23, DeleteFilesEffects
  <2> QED BY <1>s, <2>1
<1>24. CASE DeleteRows
  BY <1>t, <1>24, <1>s, DeleteRowsEffects
<1>25. CASE FinalizationSteps
  BY <1>25, <1>6, <1>7, <1>8, <1>9, <1>10, <1>11, <1>13, <1>14, <1>15, ResolveKeepsPlace, MoveKeepsPlace, ReplaceKeepsPlace
     DEF FinalizationSteps, Validated
<1>26. CASE RecoverySteps
  BY <1>26, <1>12, <1>16, <1>17, <1>18 DEF RecoverySteps
<1>27. CASE ClientSteps
  BY <1>27, <1>19, <1>20, <1>21, <1>22, <1>23, <1>24 DEF ClientSteps
<1> QED BY <1>1, <1>2, <1>3, <1>4, <1>5, <1>25, <1>26, <1>27, EngineKeepsPlace DEF MediaNext

\* Then a file has one name at most.
LEMMA OnePlaceMeansOnce == PlaceInv => RenamedOnce
<1> SUFFICES ASSUME PlaceInv, device = "same", NEW d \in Delivery PROVE Cardinality(CopiesOf(d)) <= 1
  BY DEF RenamedOnce
<1>1. \A p, q \in CopiesOf(d) : p = q
  BY DEF PlaceInv, OnePlace, CopiesOf
<1>2. CASE CopiesOf(d) = {}
  BY <1>2, FS_EmptySet
<1>3. ASSUME NEW p \in CopiesOf(d) PROVE Cardinality(CopiesOf(d)) <= 1
  <2>1. CopiesOf(d) = {p}
    BY <1>1
  <2>2. Cardinality({p}) = 1
    BY FS_Singleton
  <2> QED BY <2>1, <2>2
<1> QED BY <1>2, <1>3
------------------------------------------------------------------------------
\* What becomes of a finished file.

\* While nobody serves, no process is known: there is nothing to lose.
LEMMA SurvivesQuietly ==
    ASSUME SurvivalInv, PlaceInv', ~Serving'
    PROVE  SurvivalInv'
<1>1. client'.at = "none" /\ \A j \in Job : engine'[j] = "unknown"
  BY DEF PlaceInv, WorkInv, ServesOrRecovers, TrackedDownloads
<1>2. fin'.live => fin'.at # "unlink"
  BY DEF Serving
<1> QED BY <1>1, <1>2 DEF SurvivalInv, ToUnlink, ClientGaveUp, ArtifactSurvives

LEMMA StillExcused ==
    ASSUME NEW j \in Job, UNCHANGED policy, given_up \subseteq given_up', removed \subseteq removed', Excused(j)
    PROVE  Excused(j)'
BY DEF Excused

\* No file of a job is overwritten or removed, unless it has been given up.
LEMMA SurvivesUntouched ==
    ASSUME SurvivalInv, PlaceInv', UNCHANGED policy, given_up \subseteq given_up', removed \subseteq removed',
           \A p \in Path : dest'[p] = dest[p] \/ dest[p] \in {Nothing, Foreign} \/ removed' # {},
           \A j \in Job : row'[j].status = "downloading" /\ engine'[j] = "completed" =>
                /\ row[j].status = "downloading" /\ engine[j] = "completed" /\ attempt'[j] = attempt[j]
                /\ staging'[j] = staging[j] \/ j \in given_up,
           fin'.at = "unlink" /\ fin'.live => fin.at = "unlink" /\ fin.live /\ fin'.d = fin.d /\ attempt'[FinJob] = attempt[FinJob],
           client'.at # "none" => client'.job \in given_up'
    PROVE  SurvivalInv'
<1>0. MediaTypeOK /\ MediaTypeOK' /\ {Nothing, Foreign} \cap Delivery = {}
  BY DEF SurvivalInv, PlaceInv, WorkInv, FileAssumptions, Delivery
<1>1. ASSUME NEW j \in Job, attempt'[j] = attempt[j], CopiesOf(Current(j)) # {} PROVE CopiesOf(Current(j))' # {} \/ Excused(j)'
  <2>1. Current(j)' = Current(j) /\ Current(j) \in Delivery
    BY <1>0, <1>1, CurrentIsDelivery DEF Current
  <2>2. PICK p \in Path : dest[p] = Current(j)
    BY <1>1 DEF CopiesOf
  <2>3. dest'[p] = Current(j) \/ removed' # {}
    BY <1>0, <2>1, <2>2
  <2> QED BY <2>1, <2>3 DEF CopiesOf, Excused
<1>2. ArtifactSurvives'
  <2> SUFFICES ASSUME NEW j \in Job, row'[j].status = "downloading", engine'[j] = "completed"
               PROVE  staging'[j] = Current(j)' \/ CopiesOf(Current(j))' # {} \/ Excused(j)'
    BY DEF ArtifactSurvives, Excused
  <2>1. /\ row[j].status = "downloading" /\ engine[j] = "completed" /\ attempt'[j] = attempt[j]
        /\ staging'[j] = staging[j] \/ j \in given_up
    OBVIOUS
  <2>2. staging[j] = Current(j) \/ CopiesOf(Current(j)) # {} \/ Excused(j)
    BY <2>1 DEF SurvivalInv, ArtifactSurvives, Excused
  <2>3. Current(j)' = Current(j)
    BY <2>1 DEF Current
  <2>4. j \in given_up => Excused(j)
    BY DEF Excused
  <2> QED BY <1>1, <2>1, <2>2, <2>3, <2>4, StillExcused
<1>3. ToUnlink'
  <2> SUFFICES ASSUME fin'.at = "unlink", fin'.live PROVE CopiesOf(Current(FinJob))' # {} \/ Excused(FinJob)'
    BY DEF ToUnlink
  <2>1. fin.at = "unlink" /\ fin.live /\ FinJob' = FinJob /\ attempt'[FinJob] = attempt[FinJob]
    BY DEF FinJob
  <2>2. FinJob \in Job
    BY <1>0, <2>1, WorkingTyped DEF Working, Moving
  <2>3. CopiesOf(Current(FinJob)) # {} \/ Excused(FinJob)
    BY <2>1 DEF SurvivalInv, ToUnlink
  <2>4. CopiesOf(Current(FinJob)) # {} => CopiesOf(Current(FinJob))' # {} \/ Excused(FinJob)'
    <3> DEFINE j == FinJob
    <3>1. j' = j /\ j \in Job
      BY <2>1, <2>2
    <3>2. Current(FinJob)' = Current(FinJob) /\ Current(FinJob) \in Delivery
      BY <1>0, <2>1, <2>2, CurrentIsDelivery DEF Current
    <3> SUFFICES ASSUME NEW p \in Path, dest[p] = Current(FinJob) PROVE dest'[p] = Current(FinJob) \/ removed' # {}
      BY <3>2 DEF CopiesOf, Excused
    <3> QED BY <1>0, <3>2
  <2>5. Excused(FinJob) => Excused(FinJob)'
    BY <2>1, <2>2 DEF Excused
  <2> QED BY <2>3, <2>4, <2>5
<1> QED BY <1>2, <1>3 DEF SurvivalInv, ClientGaveUp

\* The steps that move the file of the job the monitor works on.
LEMMA SurvivesMove ==
    ASSUME SurvivalInv, PlaceInv', Move, Serving
    PROVE  SurvivalInv'
<1>0. /\ fin.at = "move" /\ fin'.d = fin.d /\ FinJob' = FinJob /\ fin'.at \in {"mark_failed", "copied", "validated"}
      /\ UNCHANGED <<row, attempt, engine, client, given_up, removed, misfiled, policy>> /\ MediaTypeOK
  BY MoveEffects DEF SurvivalInv, PlaceInv, WorkInv, FinJob
<1>1. /\ FinJob \in Job /\ fin.path \in Path /\ \A j \in Job : staging[j] \in {Nothing, Current(j)}
      /\ dest \in [Path -> Content] /\ staging \in [Job -> Delivery \cup {Nothing}]
      /\ client.at # "none" => client.job \in given_up
  BY <1>0, WorkingTyped, TypesKnown DEF SurvivalInv, PlaceInv, WorkInv, PathChosen, FilesHaveDownloads, Working, Moving, FilesTypeOK, ClientGaveUp
<1>2. CASE UNCHANGED <<dest, staging>>
  BY <1>0, <1>1, <1>2, SurvivesUntouched
<1>3. CASE /\ ~CannotMove(FinJob, fin.path) /\ CanRename(fin.path)
           /\ dest' = [dest EXCEPT ![fin.path] = staging[FinJob]] /\ staging' = [staging EXCEPT ![FinJob] = Nothing]
  <2>1. dest[fin.path] = Nothing /\ staging[FinJob] = Current(FinJob) /\ dest'[fin.path] = Current(FinJob)
        /\ \A p \in Path : dest[p] # Nothing => dest'[p] = dest[p]
    BY <1>1, <1>3 DEF CannotMove, CanRename
  <2>2. \A j \in Job : Current(j)' = Current(j) /\ (Excused(j)' <=> Excused(j)) /\ Current(j) # Nothing
    BY <1>0, CurrentIsDelivery DEF Current, Excused, FileAssumptions, Delivery
  <2>3. \A j \in Job : CopiesOf(Current(j)) # {} => CopiesOf(Current(j))' # {}
    BY <2>1, <2>2 DEF CopiesOf
  <2>4. CopiesOf(Current(FinJob))' # {}
    BY <1>0, <1>1, <2>1, <2>2 DEF CopiesOf
  <2>5. ArtifactSurvives'
    <3> SUFFICES ASSUME NEW j \in Job, row'[j].status = "downloading", engine'[j] = "completed"
                 PROVE  staging'[j] = Current(j) \/ CopiesOf(Current(j))' # {} \/ Excused(j)'
      BY <2>2 DEF ArtifactSurvives, Excused
    <3>1. CASE j = FinJob
      BY <1>0, <2>2, <2>4, <3>1 DEF CopiesOf
    <3>2. CASE j # FinJob
      <4>1. staging[j] = Current(j) \/ CopiesOf(Current(j)) # {} \/ Excused(j)
        BY <1>0 DEF SurvivalInv, ArtifactSurvives, Excused
      <4> QED BY <1>1, <1>3, <2>2, <2>3, <3>2, <4>1
    <3> QED BY <3>1, <3>2
  <2>6. ToUnlink' /\ ClientGaveUp'
    BY <1>0, <1>1 DEF ToUnlink, ClientGaveUp
  <2> QED BY <2>5, <2>6 DEF SurvivalInv
<1> QED BY <1>0, <1>2, <1>3, MoveEffects

LEMMA SurvivesReplace ==
    ASSUME SurvivalInv, PlaceInv', ReplaceTarget, Serving
    PROVE  SurvivalInv'
<1>0. /\ fin.at = "copied" /\ fin'.d = fin.d /\ FinJob' = FinJob
      /\ UNCHANGED <<row, attempt, engine, client, given_up, removed, misfiled, policy, staging>> /\ MediaTypeOK
      /\ \/ fin'.at = "mark_failed" /\ UNCHANGED dest
         \/ fin'.at = "unlink" /\ ~CopyConflicts(FinJob, fin.path) /\ dest' = [dest EXCEPT ![fin.path] = fin.copy]
  BY ReplaceEffects DEF SurvivalInv, PlaceInv, WorkInv, FinJob
<1>1. /\ FinJob \in Job /\ fin.path \in Path /\ fin.copy = Current(FinJob) /\ dest \in [Path -> Content]
      /\ client.at # "none" => client.job \in given_up
  BY <1>0, WorkingTyped, TypesKnown DEF SurvivalInv, PlaceInv, WorkInv, PathChosen, FilesHaveDownloads, Working, Moving, FilesTypeOK, ClientGaveUp
<1>2. CASE fin'.at = "mark_failed" /\ UNCHANGED dest
  BY <1>0, <1>1, <1>2, SurvivesUntouched
<1>3. CASE fin'.at = "unlink" /\ ~CopyConflicts(FinJob, fin.path) /\ dest' = [dest EXCEPT ![fin.path] = fin.copy]
  <2>1. dest'[fin.path] = Current(FinJob) /\ (\A p \in Path : p # fin.path => dest'[p] = dest[p])
        /\ (dest[fin.path] = Nothing \/ policy[FinJob] = "overwrite")
    BY <1>1, <1>3 DEF CopyConflicts
  <2>2. \A j \in Job : Current(j)' = Current(j) /\ (Excused(j)' <=> Excused(j)) /\ Current(j) # Nothing
    BY <1>0, CurrentIsDelivery DEF Current, Excused, FileAssumptions, Delivery
  <2>4. CopiesOf(Current(FinJob))' # {}
    BY <1>0, <1>1, <2>1, <2>2 DEF CopiesOf
  <2>5. ArtifactSurvives'
    <3> SUFFICES ASSUME NEW j \in Job, row'[j].status = "downloading", engine'[j] = "completed"
                 PROVE  staging'[j] = Current(j) \/ CopiesOf(Current(j))' # {} \/ Excused(j)'
      BY <2>2 DEF ArtifactSurvives, Excused
    <3>1. CASE j = FinJob
      BY <1>0, <2>2, <2>4, <3>1 DEF CopiesOf
    <3>2. CASE j # FinJob /\ policy[FinJob] = "overwrite"
      BY <1>1, <2>2, <3>2 DEF Excused
    <3>3. CASE dest[fin.path] = Nothing
      <4>1. staging[j] = Current(j) \/ CopiesOf(Current(j)) # {} \/ Excused(j)
        BY <1>0 DEF SurvivalInv, ArtifactSurvives, Excused
      <4>2. CopiesOf(Current(j)) # {} => CopiesOf(Current(j))' # {}
        BY <2>1, <2>2, <3>3 DEF CopiesOf
      <4> QED BY <1>0, <2>2, <4>1, <4>2
    <3> QED BY <2>1, <3>1, <3>2, <3>3
  <2>6. ToUnlink' /\ ClientGaveUp'
    BY <1>0, <1>1, <2>4 DEF ToUnlink, ClientGaveUp
  <2> QED BY <2>5, <2>6 DEF SurvivalInv
<1> QED BY <1>0, <1>2, <1>3

LEMMA SurvivesUnlink ==
    ASSUME SurvivalInv, PlaceInv', Unlink, Serving
    PROVE  SurvivalInv'
<1>t. MediaTypeOK /\ fin.live
  BY DEF SurvivalInv, PlaceInv, WorkInv, Serving
<1>0. /\ fin.at = "unlink" /\ fin'.d = fin.d /\ FinJob' = FinJob /\ fin'.at = "validated"
      /\ UNCHANGED <<row, attempt, engine, client, given_up, removed, misfiled, policy, dest>>
      /\ staging' = [staging EXCEPT ![FinJob] = Nothing]
  <2>1. fin.at = "unlink"
    BY DEF Unlink, FinStep
  <2> QED BY <1>t, <2>1, UnlinkEffects DEF FinJob
<1>1. FinJob \in Job /\ staging \in [Job -> Delivery \cup {Nothing}]
  BY <1>t, <1>0, WorkingTyped, TypesKnown DEF Working, Moving, FilesTypeOK
<1>2. \A j \in Job : Current(j)' = Current(j) /\ (Excused(j)' <=> Excused(j)) /\ CopiesOf(Current(j))' = CopiesOf(Current(j))
  BY <1>0 DEF Current, Excused, CopiesOf
<1>3. ArtifactSurvives'
  <2> SUFFICES ASSUME NEW j \in Job, row'[j].status = "downloading", engine'[j] = "completed"
               PROVE  staging'[j] = Current(j) \/ CopiesOf(Current(j)) # {} \/ Excused(j)'
    BY <1>2 DEF ArtifactSurvives, Excused
  <2>1. staging[j] = Current(j) \/ CopiesOf(Current(j)) # {} \/ Excused(j)
    BY <1>0 DEF SurvivalInv, ArtifactSurvives, Excused
  <2>2. CASE j = FinJob
    BY <1>t, <1>0, <1>1, <1>2, <2>2 DEF SurvivalInv, ToUnlink
  <2>3. CASE j # FinJob
    BY <1>1, <1>0, <1>2, <2>1, <2>3
  <2> QED BY <2>2, <2>3
<1>4. ToUnlink' /\ ClientGaveUp'
  BY <1>0 DEF ToUnlink, ClientGaveUp, SurvivalInv
<1> QED BY <1>3, <1>4 DEF SurvivalInv

LEMMA SurvivesEngine ==
    ASSUME SurvivalInv, PlaceInv', NEW j \in Job, EngineEnds(j)
    PROVE  SurvivalInv'
<1>0. /\ engine[j] = "running" /\ UNCHANGED <<row, attempt, client, given_up, removed, misfiled, policy, dest, fin>>
      /\ \A k \in Job : k # j => engine'[k] = engine[k] /\ staging'[k] = staging[k]
      /\ (engine'[j] = "completed" /\ staging'[j] = Current(j)) \/ engine'[j] = "failed"
  BY EngineEffects DEF SurvivalInv, PlaceInv, WorkInv
<1>2. FinJob' = FinJob /\ \A k \in Job : Current(k)' = Current(k) /\ (Excused(k)' <=> Excused(k)) /\ CopiesOf(Current(k))' = CopiesOf(Current(k))
  BY <1>0 DEF Current, Excused, CopiesOf, FinJob
<1>3. ArtifactSurvives'
  <2> SUFFICES ASSUME NEW k \in Job, row'[k].status = "downloading", engine'[k] = "completed"
               PROVE  staging'[k] = Current(k) \/ CopiesOf(Current(k)) # {} \/ Excused(k)'
    BY <1>2 DEF ArtifactSurvives, Excused
  <2>1. CASE k = j
    BY <1>0, <2>1
  <2>2. CASE k # j
    BY <1>0, <1>2, <2>2 DEF SurvivalInv, ArtifactSurvives, Excused
  <2> QED BY <2>1, <2>2
<1>4. ToUnlink' /\ ClientGaveUp'
  BY <1>0, <1>2, WorkingTyped DEF ToUnlink, ClientGaveUp, SurvivalInv, PlaceInv, WorkInv, Working, Moving
<1> QED BY <1>3, <1>4 DEF SurvivalInv

LEMMA SurvivalHolds == MediaInit => SurvivalInv
<1> SUFFICES ASSUME MediaInit PROVE SurvivalInv
  OBVIOUS
<1>1. PlaceInv /\ fin.at = "idle" /\ client.at = "none" /\ \A j \in Job : engine[j] \in {"running", "unknown"}
  BY PlaceHolds DEF MediaInit, Idle, NoClient
<1> QED BY <1>1 DEF SurvivalInv, ToUnlink, ClientGaveUp, ArtifactSurvives

\* Every step keeps it.
LEMMA SurvivalStays == SurvivalInv /\ [MediaNext]_vars => SurvivalInv'
<1>0. SurvivalInv /\ [MediaNext]_vars => PlaceInv'
  BY PlaceStays DEF SurvivalInv
<1> SUFFICES ASSUME SurvivalInv, PlaceInv', [MediaNext]_vars, Serving' PROVE SurvivalInv'
  BY <1>0, SurvivesQuietly
<1>t. MediaTypeOK /\ dest \in [Path -> Content] /\ staging \in [Job -> Delivery \cup {Nothing}] /\ WorkInv
  BY TypesKnown DEF SurvivalInv, PlaceInv, WorkInv, FilesTypeOK
<1>g. /\ (client.at # "none" => client.job \in given_up) /\ fin'.live /\ fin'.at # "down"
  BY DEF SurvivalInv, ClientGaveUp, Serving
<1>f. fin.at \in Working => FinJob \in Job
  BY <1>t, WorkingTyped
<1>s. ASSUME UNCHANGED policy, given_up \subseteq given_up', removed \subseteq removed',
             \A p \in Path : dest'[p] = dest[p] \/ dest[p] \in {Nothing, Foreign} \/ removed' # {},
             \A j \in Job : row'[j].status = "downloading" /\ engine'[j] = "completed" =>
                  /\ row[j].status = "downloading" /\ engine[j] = "completed" /\ attempt'[j] = attempt[j]
                  /\ staging'[j] = staging[j] \/ j \in given_up,
             fin'.at # "unlink" \/ (fin' = fin /\ (fin.live /\ fin.at = "unlink" => attempt'[FinJob] = attempt[FinJob])),
             client'.at # "none" => client'.job \in given_up'
      PROVE  SurvivalInv'
  BY <1>s, SurvivesUntouched
<1>1. CASE UNCHANGED vars
  BY <1>1, <1>s, <1>g DEF vars, fileVars, mediaVars
<1>2. ASSUME NEW j \in Job, UpdateJobFromEngine(j) PROVE SurvivalInv'
  <2>0. UNCHANGED <<attempt, todo, given_up, removed, misfiled, scenario, client>> /\ fin.at = "idle"
    BY <1>t, <1>2, PollEffects
  <2>1. CASE StartFinalizing(j) /\ UNCHANGED <<row, active, engine, left, dest, staging, policy, device>>
    BY <1>g, <2>0, <1>t, <2>1, <1>s, StartEffects
  <2>2. ASSUME NEW st \in {"completed", "failed", "cancelled"}, NEW f \in Path \cup {NoPath}, NEW clean \in BOOLEAN,
               EndJob(j, st, f, clean), UNCHANGED <<fin, journal>>
        PROVE  SurvivalInv'
    <3>1. /\ UNCHANGED <<dest, policy, device>>
          /\ \A k \in Job : k # j => row'[k] = row[k] /\ active'[k] = active[k] /\ engine'[k] = engine[k] /\ staging'[k] = staging[k]
          /\ \/ UNCHANGED <<row, active, engine, staging>>
             \/ /\ active'[j] = Untracked /\ engine'[j] = "unknown"
                /\ row'[j] = IF row[j].status = "deleted" THEN row[j] ELSE [status |-> st, final |-> f]
                /\ staging'[j] = IF clean THEN Nothing ELSE staging[j]
      BY <1>t, <2>2, EndEffects
    <3>2. \A k \in Job : row'[k].status = "downloading" /\ engine'[k] = "completed" =>
                  row[k].status = "downloading" /\ engine[k] = "completed" /\ staging'[k] = staging[k]
      BY <3>1
    <3> QED BY <1>g, <1>s, <2>0, <2>2, <3>1, <3>2
  <2> QED BY <1>t, <1>2, <2>1, <2>2, PollEffects
<1>3. ASSUME NEW p \in Path, ForeignFile(p) PROVE SurvivalInv'
  <2>1. /\ dest[p] = Nothing /\ \A q \in Path : q # p => dest'[q] = dest[q]
        /\ UNCHANGED <<staging, policy, device, row, attempt, active, engine, journal, fin, todo, given_up, removed, misfiled, scenario, client>>
    BY <1>t, <1>3, ForeignEffects
  <2> QED BY <1>g, <1>s, <2>1
<1>4. CASE Crash
  BY <1>t, <1>g, <1>4, CrashEffects
<1>5. CASE Restart
  BY <1>g, <1>5, RestartEffects
<1>6. CASE \/ Begin \/ Committed \/ Pending \/ MarkFailed
           \/ Valid(fin.path, fin.d) /\ UpdatePhase("validated", "validated", "subtitles")
  <2>1. /\ fin'.at # "unlink"
        /\ UNCHANGED <<row, active, attempt, engine, client, todo, given_up, removed, misfiled, scenario, dest, staging, sidecar, policy, device>>
    BY <1>t, <1>6, RecordEffects
  <2> QED BY <1>g, <1>s, <2>1
<1>7. CASE Save
  <2>1. /\ fin'.at # "unlink"
        /\ UNCHANGED <<row, active, attempt, engine, client, todo, given_up, removed, scenario, dest, staging, sidecar, policy, device>>
    BY <1>t, <1>7, SaveEffects
  <2> QED BY <1>g, <1>s, <2>1
<1>8. CASE \/ CopyFails
           \/ FinStep("validated") /\ ~Valid(fin.path, fin.d) /\ Goto("mark_failed") /\ FilesStay /\ UNCHANGED <<row, active, journal, left>>
  <2>1. /\ fin'.at # "unlink"
        /\ UNCHANGED <<row, active, attempt, engine, client, todo, given_up, removed, misfiled, scenario, dest, staging, sidecar, policy, device, journal>>
    BY <1>t, <1>8, PlainEffects
  <2> QED BY <1>g, <1>s, <2>1
<1>9. CASE Clean
  <2>1. /\ fin.at = "clean" /\ fin'.at = "complete" /\ staging' = [staging EXCEPT ![FinJob] = Nothing] /\ fin'.live = fin.live
        /\ UNCHANGED <<row, active, attempt, engine, client, todo, given_up, removed, misfiled, scenario, dest, policy, device, journal, left>>
    <3>1. fin.at = "clean"
      BY <1>9 DEF Clean, FinStep
    <3> QED BY <1>t, <1>9, <3>1, UnlinkEffects
  <2>2. FinJob \in Job /\ row[FinJob].status # "downloading"
    BY <1>t, <1>f, <1>g, <2>1 DEF WorkInv, WorksOnCurrent, Working, Cleaning
  <2>3. \A j \in Job : j # FinJob => staging'[j] = staging[j]
    BY <1>t, <2>1
  <2> QED BY <1>g, <1>s, <2>1, <2>2, <2>3
<1>10. CASE Subtitles
  <2>1. /\ fin'.at # "unlink" /\ UNCHANGED <<row, attempt, engine, client, todo, given_up, removed, misfiled, scenario, dest, staging, policy, device, journal>>
    BY <1>t, <1>10, SubtitlesEffects
  <2> QED BY <1>g, <1>s, <2>1
<1>11. CASE Commit
  <2>1. /\ fin'.at # "unlink" /\ FinJob \in Job
        /\ UNCHANGED <<active, attempt, engine, client, todo, given_up, removed, misfiled, scenario, dest, staging, sidecar, policy, device, journal>>
        /\ \A j \in Job : j # FinJob => row'[j] = row[j]
        /\ row' = row \/ row'[FinJob] = IF row[FinJob].status = "deleted" THEN row[FinJob] ELSE [status |-> "completed", final |-> fin.path]
    BY <1>t, <1>f, <1>11, CommitEffects DEF Working, Moving
  <2> QED BY <1>g, <1>s, <2>1
<1>12. CASE Recommit
  <2>1. ~fin.live
    BY <1>t, <1>12 DEF WorkInv, ServesOrRecovers, Recommit, FinStep
  <2> QED BY <1>t, <1>g, <1>12, <2>1, RecommitEffects
<1>13. CASE NotCommitted \/ Complete
  <2>1. fin' = Done /\ UNCHANGED <<row, active, attempt, engine, client, todo, given_up, removed, misfiled, scenario, dest, staging, sidecar, policy, device>>
    BY <1>t, <1>13, EndRecordEffects
  <2> QED BY <1>g, <1>s, <2>1, DoneEffects
<1>14. CASE FailJob
  <2>1. /\ fin' = Done /\ UNCHANGED <<attempt, client, todo, given_up, removed, misfiled, scenario, dest, staging, policy, device, journal>>
        /\ FinJob \in Job /\ \A j \in Job : j # FinJob => row'[j] = row[j] /\ active'[j] = active[j] /\ engine'[j] = engine[j]
        /\ \/ UNCHANGED <<row, active, engine>>
           \/ engine'[FinJob] = "unknown"
    BY <1>t, <1>14, FailEffects
  <2> QED BY <1>g, <1>s, <2>1, DoneEffects
<1>15. CASE Forget
  <2>1. /\ fin'.at # "unlink" /\ FinJob \in Job
        /\ UNCHANGED <<row, attempt, client, todo, given_up, removed, misfiled, scenario, dest, staging, sidecar, policy, device, journal, left>>
        /\ engine'[FinJob] = "unknown" /\ \A j \in Job : j # FinJob => active'[j] = active[j] /\ engine'[j] = engine[j]
    BY <1>t, <1>f, <1>15, ForgetEffects DEF Working, Cleaning
  <2> QED BY <1>g, <1>s, <2>1
<1>16. ASSUME NEW d \in Delivery, Reconcile(d) PROVE SurvivalInv'
  BY <1>g, <1>16, ReconcileEffects
<1>17. CASE FailInterrupted
  <2>1. ~fin.live
    BY <1>t, <1>17 DEF WorkInv, ServesOrRecovers, FailInterrupted
  <2> QED BY <1>t, <1>g, <1>17, <2>1, InterruptedEffects
<1>18. CASE Sweep
  <2>1. /\ fin'.at = "idle" /\ \A j \in Job : staging'[j] = IF row[j].status = "downloading" THEN staging[j] ELSE Nothing
        /\ UNCHANGED <<dest, policy, device, row, attempt, active, engine, journal, todo, client, given_up, removed, misfiled, scenario, left>>
    BY <1>t, <1>18, SweepEffects
  <2> QED BY <1>g, <1>s, <2>1
<1>19. ASSUME NEW j \in Job, CancelBegins(j) PROVE SurvivalInv'
  <2>1. /\ client'.at = "cancel" /\ client'.job = j
        /\ \A k \in Job : \/ engine'[k] = engine[k]
                          \/ k = j /\ engine[j] = "running" /\ engine'[j] = "cancelled"
        /\ given_up' = given_up \cup {j}
        /\ UNCHANGED <<dest, staging, policy, device, row, attempt, active, journal, fin, todo, removed, misfiled, scenario>>
    BY <1>t, <1>19, CancelBeginsEffects
  <2> QED BY <1>s, <2>1
<1>20. CASE CancelWrites
  <2>1. /\ client.at = "cancel" /\ client.job \in Job
        /\ \A j \in Job : j # client.job => row'[j] = row[j] /\ active'[j] = active[j] /\ engine'[j] = engine[j]
        /\ \/ engine'[client.job] = "unknown" /\ client'.job = client.job
           \/ UNCHANGED <<row, active, engine>> /\ client'.at = "none"
        /\ UNCHANGED <<dest, staging, policy, device, attempt, journal, fin, todo, given_up, removed, misfiled, scenario>>
    BY <1>t, <1>20, CancelWritesEffects
  <2> QED BY <1>g, <1>s, <2>1
<1>21. CASE CancelCleans
  <2>1. /\ client.at = "clean" /\ client.job \in Job /\ client'.at = "none"
        /\ \A j \in Job : j # client.job => staging'[j] = staging[j]
        /\ UNCHANGED <<dest, policy, device, row, attempt, active, engine, journal, fin, todo, given_up, removed, misfiled, scenario, left>>
    BY <1>t, <1>21, CancelCleansEffects
  <2> QED BY <1>g, <1>s, <2>1
<1>22. ASSUME NEW j \in Job, Retry(j) PROVE SurvivalInv'
  <2>1. /\ row[j].status = "failed" /\ client.at = "none"
        /\ \A k \in Job : k # j => /\ row'[k] = row[k] /\ active'[k] = active[k] /\ engine'[k] = engine[k]
                                   /\ staging'[k] = staging[k] /\ attempt'[k] = attempt[k]
        /\ engine'[j] = "running"
        /\ UNCHANGED <<dest, policy, device, client, journal, fin, todo, given_up, removed, misfiled, scenario>>
    BY <1>t, <1>22, RetryEffects
  <2>2. fin.live /\ fin.at = "unlink" => FinJob \in Job /\ FinJob # j
    BY <1>t, <1>f, <2>1 DEF WorkInv, WorksOnCurrent, Working, Moving
  <2> QED BY <1>g, <1>s, <2>1, <2>2
<1>23. ASSUME NEW j \in Job, DeleteFiles(j) PROVE SurvivalInv'
  <2>1. /\ client'.at = "delete" /\ client'.job = j
        /\ \A p \in Path : dest'[p] = dest[p] \/ (dest'[p] = Nothing /\ p \in removed')
        /\ removed \subseteq removed' /\ engine'[j] = "unknown"
        /\ \A k \in Job : k # j => engine'[k] = engine[k] /\ staging'[k] = staging[k]
        /\ given_up' = given_up \cup {j}
        /\ UNCHANGED <<policy, device, row, attempt, active, journal, fin, todo, scenario>>
    BY <1>t, <1>23, DeleteFilesEffects
  <2>2. \A p \in Path : dest'[p] = dest[p] \/ removed' # {}
    BY <2>1
  <2> QED BY <1>s, <2>1, <2>2
<1>24. CASE DeleteRows
  <2>1. /\ client.job \in Job /\ client'.at = "none"
        /\ \A k \in Job : row'[k] = row[k] \/ row'[k].status = "deleted"
        /\ UNCHANGED <<dest, staging, policy, device, attempt, engine, fin, todo, given_up, removed, misfiled, scenario>>
    BY <1>t, <1>24, DeleteRowsEffects
  <2> QED BY <1>s, <2>1
<1>25. CASE Resolve
  <2>1. fin'.at # "unlink"
        /\ UNCHANGED <<row, active, attempt, engine, client, todo, given_up, removed, misfiled, scenario, dest, staging, sidecar, policy,
                          device, journal, left>>
    BY <1>t, <1>25, ResolveEffects
  <2> QED BY <1>g, <1>s, <2>1
<1>26. CASE Move \/ ReplaceTarget \/ Unlink
  <2>1. Serving
    <3>1. CASE Move
      BY <1>t, <1>g, <3>1, MoveEffects DEF Serving
    <3>2. CASE ReplaceTarget
      BY <1>t, <1>g, <3>2, ReplaceEffects DEF Serving
    <3>3. CASE Unlink
      BY <1>t, <1>g, <3>3, UnlinkEffects DEF Serving
    <3> QED BY <1>26, <3>1, <3>2, <3>3
  <2> QED BY <1>26, <2>1, SurvivesMove, SurvivesReplace, SurvivesUnlink
<1>27. CASE FinalizationSteps
  BY <1>27, <1>6, <1>7, <1>8, <1>9, <1>10, <1>11, <1>13, <1>14, <1>15, <1>25, <1>26 DEF FinalizationSteps, Validated
<1>28. CASE RecoverySteps
  BY <1>28, <1>12, <1>16, <1>17, <1>18 DEF RecoverySteps
<1>29. CASE ClientSteps
  BY <1>29, <1>19, <1>20, <1>21, <1>22, <1>23, <1>24 DEF ClientSteps
<1> QED BY <1>1, <1>2, <1>3, <1>4, <1>5, <1>27, <1>28, <1>29, SurvivesEngine DEF MediaNext

\* A file that yt-dlp has finished is not lost: until its job has ended it is in the
\* work directory or at a destination, whatever step of a move, a recovery or a
\* clean-up a failing call or a crash comes at (finalization.go, conflict.go).
THEOREM FinishedFilesSurvive == MediaSpec => []ArtifactSurvives
<1>1. SurvivalInv => ArtifactSurvives
  BY DEF SurvivalInv
<1> QED BY <1>1, SurvivalHolds, SurvivalStays, PTL DEF MediaSpec
------------------------------------------------------------------------------
\* The journal.

\* What is left of the failing calls never grows: without an error so far there was none before.
LEMMA NoErrorBefore ==
    ASSUME MediaTypeOK, MediaTypeOK', Lesser, UNCHANGED scenario, left'.db <= left.db, left'.io <= left.io
    PROVE  /\ Lesser'
           /\ NoDatabaseError' => NoDatabaseError /\ left'.db = left.db
           /\ left'.io = scenario'.io => left.io = scenario.io /\ left'.io = left.io
<1>1. left \in Bounds /\ left' \in Bounds /\ scenario \in Bounds
  BY DEF MediaTypeOK, DeliveryAssumptions
<1> QED BY <1>1 DEF Lesser, NoDatabaseError, Bounds

LEMMA DeliveryFields ==
    MediaTypeOK => /\ \A d \in Delivery : d[1] \in Job /\ d = <<d[1], d[2]>> /\ (d[2] = attempt[d[1]] => d = Current(d[1]))
                   /\ \A j \in Job : Current(j) \in Delivery /\ Current(j)[1] = j /\ Current(j)[2] = attempt[j]
                   /\ fin.at \in Working => fin.d \in Delivery /\ FinJob \in Job /\ FinJob = fin.d[1]
BY TypesKnown, CurrentIsDelivery, WorkingTyped DEF Current, FinJob

\* From one step of a delivery to the next.
LEMMA WorkGoesOn ==
    ASSUME WorkInv, JournalTrue, fin.at \in Working, fin'.at \in Working, fin'.d = fin.d, UNCHANGED <<attempt, todo>>,
           \A j \in Job : active'[j] # Untracked => active[j] # Untracked,
           \A j \in Job : j # FinJob => row'[j] = row[j],
           row'[FinJob].status # "failed",
           \A d \in Delivery : d # fin.d => journal'[d] = journal[d],
           row'[FinJob].status # "deleted" => journal'[fin.d].phase \in Phases(fin'.at, fin'.live),
           row'[FinJob].status # "deleted" /\ fin'.at \notin Loose => journal'[fin.d].path = fin'.path,
           journal'[fin.d].phase \in Later =>
              \/ row'[FinJob].status = "completed" /\ row'[FinJob].final = journal'[fin.d].path
              \/ row'[FinJob].status = "cancelled",
           row'[FinJob].status # "deleted" /\ fin'.at = "committed" =>
              \/ row'[FinJob].status = "completed" /\ row'[FinJob].final = fin'.path
              \/ row'[FinJob].status = "cancelled"
    PROVE  JournalTrue'
<1>0. /\ \A d \in Delivery : d[1] \in Job /\ (d[2] = attempt[d[1]] => d = Current(d[1]))
      /\ \A j \in Job : Current(j) \in Delivery /\ Current(j)[1] = j /\ Current(j)' = Current(j)
      /\ fin.d \in Delivery /\ FinJob \in Job /\ FinJob = fin.d[1] /\ FinJob' = FinJob /\ fin.d = Current(FinJob)
      /\ fin.d[2] = attempt[FinJob] /\ fin.d \notin todo /\ fin'.at # "down"
  BY DeliveryFields DEF WorkInv, ServesOrRecovers, Current, FinJob, JournalTrue, RecordIsKnown, Working, Moving, Cleaning
<1>1. RecordsSettle'
  <2>1. \A d \in Delivery : d[2] # attempt'[d[1]] => journal'[d].phase \in {"none", "failed"}
    BY <1>0 DEF JournalTrue, RecordsSettle
  <2>2. \A d \in Delivery : Unsettled(d)' <=> Unsettled(d)
    BY DEF Unsettled
  <2>3. fin'.at # "down" => \A d \in Delivery : ~Unsettled(d)' => journal'[d].phase \in Settled
    BY <1>0, <2>2 DEF JournalTrue, RecordsSettle, Unsettled, Working, Moving, Cleaning
  <2>4. todo' \subseteq {d \in Delivery : journal'[d].phase \notin Settled}
    BY <1>0 DEF JournalTrue, RecordsSettle
  <2>5. \A j \in Job : active'[j] # Untracked /\ ~(fin'.at \in Working /\ FinJob' = j) => journal'[Current(j)'].phase = "none"
    BY <1>0 DEF JournalTrue, RecordsSettle
  <2> QED BY <2>1, <2>3, <2>4, <2>5 DEF RecordsSettle
<1>2. RowsMatch'
  <2>1. ASSUME NEW d \in Delivery, d # fin.d, d[1] = FinJob PROVE journal'[d].phase \notin Later
    <3>1. d[2] # attempt[FinJob]
      BY <1>0, <2>1
    <3> QED BY <1>0, <2>1, <3>1 DEF JournalTrue, RecordsSettle, Later
  <2> QED BY <1>0, <2>1 DEF JournalTrue, RowsMatch
<1>3. RecordIsKnown'
  BY <1>0 DEF RecordIsKnown, Exists
<1> QED BY <1>1, <1>2, <1>3 DEF JournalTrue

\* The end of a delivery.
LEMMA WorkEnds ==
    ASSUME WorkInv, JournalTrue, fin.at \in Working, fin'.at \notin Working, UNCHANGED <<attempt, todo>>,
           \A j \in Job : active'[j] # Untracked => active[j] # Untracked /\ j # FinJob,
           \A j \in Job : j # FinJob => row'[j] = row[j],
           \A d \in Delivery : d # fin.d => journal'[d] = journal[d],
           journal'[fin.d].phase \in Settled,
           \/ row'[FinJob].status = "failed" /\ journal'[fin.d].phase \in {"none", "failed"}
           \/ /\ row'[FinJob] = row[FinJob]
              /\ journal'[fin.d].phase \in Later =>
                    \/ row[FinJob].status = "completed" /\ row[FinJob].final = journal'[fin.d].path
                    \/ row[FinJob].status = "cancelled"
    PROVE  JournalTrue'
<1>0. /\ \A d \in Delivery : d[1] \in Job /\ (d[2] = attempt[d[1]] => d = Current(d[1]))
      /\ \A j \in Job : Current(j) \in Delivery /\ Current(j)[1] = j /\ Current(j)' = Current(j)
      /\ fin.d \in Delivery /\ FinJob \in Job /\ FinJob = fin.d[1] /\ fin.d = Current(FinJob)
      /\ fin.d[2] = attempt[FinJob] /\ fin.d \notin todo /\ fin.at # "down" /\ row[FinJob].status # "failed"
  <2>1. \A j \in Job : Current(j)' = Current(j)
    BY DEF Current
  <2>2. fin.at # "down"
    BY DEF Working, Moving, Cleaning
  <2>3. /\ fin.d \in Delivery /\ fin.d[2] = attempt[FinJob] /\ fin.d \notin todo
        /\ row[FinJob].status # "failed"
    <3>1. fin.d \in Delivery
      BY WorkingTyped DEF WorkInv
    <3>2. fin.d[2] = attempt[FinJob]
      BY DEF JournalTrue, RecordIsKnown, Current
    <3>3. fin.d \notin todo
      BY DEF WorkInv, ServesOrRecovers
    <3>4. row[FinJob].status # "failed"
      BY DEF JournalTrue, RecordIsKnown
    <3> QED BY <3>1, <3>2, <3>3, <3>4
  <2>4. /\ \A d \in Delivery : d[1] \in Job /\ (d[2] = attempt[d[1]] => d = Current(d[1]))
        /\ \A j \in Job : Current(j) \in Delivery /\ Current(j)[1] = j
        /\ FinJob \in Job /\ FinJob = fin.d[1] /\ fin.d = Current(FinJob)
    BY DeliveryFields, <2>3 DEF WorkInv, Current
  <2> QED BY <2>1, <2>2, <2>3, <2>4
<1>s. RecordsSettle
  BY DEF JournalTrue
<1>o. \A d \in Delivery : d # fin.d /\ d[1] = FinJob => journal'[d].phase \in {"none", "failed"}
  <2> SUFFICES ASSUME NEW d \in Delivery, d # fin.d, d[1] = FinJob PROVE journal'[d].phase \in {"none", "failed"}
    OBVIOUS
  <2>1. d[2] # attempt[d[1]] /\ journal'[d] = journal[d]
    BY <1>0
  <2> QED BY <1>s, <2>1 DEF RecordsSettle
<1>1. RecordsSettle'
  <2>1. \A d \in Delivery : d[2] # attempt'[d[1]] => journal'[d].phase \in {"none", "failed"}
    BY <1>0, <1>s DEF RecordsSettle
  <2>3. \A d \in Delivery : ~Unsettled(d)' => journal'[d].phase \in Settled
    <3> SUFFICES ASSUME NEW d \in Delivery, ~Unsettled(d)' PROVE journal'[d].phase \in Settled
      OBVIOUS
    <3>1. CASE d = fin.d
      BY <3>1
    <3>2. CASE d # fin.d
      <4>1. ~Unsettled(d) /\ journal'[d] = journal[d]
        BY <3>2 DEF Unsettled
      <4> QED BY <1>0, <1>s, <4>1 DEF RecordsSettle
    <3> QED BY <3>1, <3>2
  <2>4. todo' \subseteq {d \in Delivery : journal'[d].phase \notin Settled}
    BY <1>0, <1>s DEF RecordsSettle
  <2>5. \A j \in Job : active'[j] # Untracked => journal'[Current(j)'].phase = "none"
    <3> SUFFICES ASSUME NEW j \in Job, active'[j] # Untracked PROVE journal'[Current(j)'].phase = "none"
      OBVIOUS
    <3>1. active[j] # Untracked /\ j # FinJob
      OBVIOUS
    <3>2. Current(j)' = Current(j) /\ journal'[Current(j)] = journal[Current(j)]
      BY <1>0, <3>1
    <3> QED BY <1>s, <3>1, <3>2 DEF RecordsSettle
  <2> QED BY <2>1, <2>3, <2>4, <2>5 DEF RecordsSettle
<1>2. RowsMatch'
  <2>1. \A d \in Delivery : journal'[d].phase \in Later =>
           \/ row'[d[1]].status = "completed" /\ row'[d[1]].final = journal'[d].path
           \/ row'[d[1]].status = "cancelled"
    <3> SUFFICES ASSUME NEW d \in Delivery, journal'[d].phase \in Later
                 PROVE  \/ row'[d[1]].status = "completed" /\ row'[d[1]].final = journal'[d].path
                        \/ row'[d[1]].status = "cancelled"
      OBVIOUS
    <3>1. CASE d = fin.d
      BY <1>0, <3>1 DEF Later
    <3>2. CASE d # fin.d /\ d[1] = FinJob
      BY <1>o, <3>2 DEF Later
    <3>3. CASE d[1] # FinJob
      <4>1. row'[d[1]] = row[d[1]] /\ journal'[d] = journal[d]
        BY <1>0, <3>3
      <4> QED BY <4>1 DEF JournalTrue, RowsMatch
    <3> QED BY <3>1, <3>2, <3>3
  <2>2. \A d \in Delivery : row'[d[1]].status = "failed" => journal'[d].phase \in {"none", "failed"}
    <3> SUFFICES ASSUME NEW d \in Delivery, row'[d[1]].status = "failed"
                 PROVE  journal'[d].phase \in {"none", "failed"}
      OBVIOUS
    <3>1. CASE d = fin.d
      BY <1>0, <3>1
    <3>2. CASE d # fin.d /\ d[1] = FinJob
      BY <1>o, <3>2
    <3>3. CASE d[1] # FinJob
      <4>1. row'[d[1]] = row[d[1]] /\ journal'[d] = journal[d]
        BY <1>0, <3>3
      <4> QED BY <4>1 DEF JournalTrue, RowsMatch
    <3> QED BY <3>1, <3>2, <3>3
  <2> QED BY <2>1, <2>2 DEF RowsMatch
<1>3. RecordIsKnown'
  BY DEF RecordIsKnown
<1> QED BY <1>1, <1>2, <1>3 DEF JournalTrue

\* The journal is left alone, and nobody begins or ends a delivery.
LEMMA JournalUntouched ==
    ASSUME WorkInv, JournalTrue, UNCHANGED <<fin, todo, attempt, journal>>,
           \A j \in Job : active'[j] # Untracked => active[j] # Untracked,
           \A j \in Job : \/ row'[j] = row[j]
                          \/ row'[j].status = "cancelled" /\ row[j].status # "deleted"
                          \/ fin.at \notin Working /\ (\A d \in Delivery : d[1] = j => journal[d].phase \in {"none", "failed"})
    PROVE  JournalTrue'
<1>0. /\ \A d \in Delivery : d[1] \in Job
      /\ \A j \in Job : Current(j) \in Delivery /\ Current(j)' = Current(j)
      /\ fin.at \in Working => fin.d \in Delivery /\ FinJob \in Job
      /\ FinJob' = FinJob
  BY DeliveryFields DEF WorkInv, Current, FinJob
<1>1. RecordsSettle'
  <2>1. RecordsSettle
    BY DEF JournalTrue
  <2>2. \A d \in Delivery : Unsettled(d)' <=> Unsettled(d)
    BY DEF Unsettled
  <2>3. \A j \in Job : active'[j] # Untracked /\ ~(fin'.at \in Working /\ FinJob' = j) => journal'[Current(j)'].phase = "none"
    BY <1>0, <2>1 DEF RecordsSettle
  <2> QED BY <2>1, <2>2, <2>3 DEF RecordsSettle
<1>2. RowsMatch'
  <2>1. ASSUME NEW d \in Delivery
        PROVE  /\ journal[d].phase \in Later =>
                    \/ row'[d[1]].status = "completed" /\ row'[d[1]].final = journal[d].path
                    \/ row'[d[1]].status = "cancelled"
               /\ row'[d[1]].status = "failed" => journal[d].phase \in {"none", "failed"}
    BY <1>0, <2>1 DEF JournalTrue, RowsMatch, Later
  <2> QED BY <2>1 DEF RowsMatch
<1>3. RecordIsKnown'
  <2> SUFFICES ASSUME fin.at \in Working PROVE RecordIsKnown'
    BY DEF RecordIsKnown
  <2>1. row'[FinJob] = row[FinJob] \/ (row'[FinJob].status = "cancelled" /\ row[FinJob].status # "deleted")
    BY <1>0
  <2> QED BY <1>0, <2>1 DEF JournalTrue, RecordIsKnown, Exists
<1> QED BY <1>1, <1>2, <1>3 DEF JournalTrue

\* The steps from "resolve" to "commit", without those that write.
LEMMA MovesKeepJournal ==
    ASSUME WorkInv, JournalTrue,
           \/ Resolve \/ Move \/ CopyFails \/ ReplaceTarget \/ Unlink \/ Clean \/ Subtitles \/ Forget
           \/ FinStep("validated") /\ ~Valid(fin.path, fin.d) /\ Goto("mark_failed") /\ FilesStay /\ UNCHANGED <<row, active, journal, left>>
    PROVE  JournalTrue'
<1>t. MediaTypeOK
  BY DEF WorkInv
<1>0. /\ fin'.d = fin.d /\ fin'.live = fin.live /\ UNCHANGED <<row, attempt, todo, journal>>
      /\ fin.at \in Working /\ fin'.at \in Working
      /\ \A j \in Job : active'[j] # Untracked => active[j] # Untracked
      /\ \/ fin.at = "resolve" /\ (fin'.at = "save" \/ (fin'.at = "fail" /\ fin.live) \/ (fin'.at = "mark_failed" /\ ~fin.live))
         \/ /\ fin'.path = fin.path
            /\ \/ fin.at = "move" /\ fin'.at \in {"mark_failed", "copied", "validated"}
               \/ fin.at = "copied" /\ fin'.at \in {"mark_failed", "unlink"}
               \/ fin.at = "unlink" /\ fin'.at = "validated"
               \/ fin.at = "clean" /\ fin'.at = "complete"
               \/ fin.at = "validated" /\ fin'.at = "mark_failed"
               \/ fin.at = "subtitles" /\ fin'.at \in {"commit", "mark_failed"}
               \/ fin.at = "forget" /\ fin'.at = "pending"
  <2>1. CASE Resolve
    BY <1>t, <2>1, ResolveEffects DEF Working, Moving
  <2>2. CASE Move
    BY <1>t, <2>2, MoveEffects DEF Working, Moving
  <2>3. CASE CopyFails
    <3>1. fin.at = "copied"
      BY <2>3 DEF CopyFails, FinStep
    <3> QED BY <1>t, <2>3, <3>1, PlainEffects DEF Working, Moving
  <2>4. CASE FinStep("validated") /\ ~Valid(fin.path, fin.d) /\ Goto("mark_failed") /\ FilesStay /\ UNCHANGED <<row, active, journal, left>>
    <3>1. fin.at = "validated"
      BY <2>4 DEF FinStep
    <3> QED BY <1>t, <2>4, <3>1, PlainEffects DEF Working, Moving
  <2>5. CASE ReplaceTarget
    BY <1>t, <2>5, ReplaceEffects DEF Working, Moving
  <2>6. CASE Unlink \/ Clean
    BY <1>t, <2>6, UnlinkEffects DEF Working, Moving, Cleaning
  <2>7. CASE Subtitles
    <3>1. /\ fin.at = "subtitles" /\ fin'.at \in {"commit", "mark_failed"} /\ fin'.d = fin.d /\ fin'.live = fin.live /\ fin'.path = fin.path
          /\ UNCHANGED <<row, attempt, todo, journal>>
          /\ active' = [active EXCEPT ![FinJob] = IF active[FinJob] = Untracked THEN active[FinJob] ELSE fin.path]
      BY <1>t, <2>7, SubtitlesEffects
    <3>2. \A j \in Job : active'[j] # Untracked => active[j] # Untracked
      BY <1>t, <3>1, TypesKnown DEF ActiveTypes
    <3> QED BY <3>1, <3>2 DEF Working, Moving
  <2>8. CASE Forget
    <3>1. /\ fin.at = "forget" /\ fin'.at = "pending" /\ fin'.d = fin.d /\ fin'.live = fin.live /\ fin'.path = fin.path
          /\ UNCHANGED <<row, attempt, todo, journal>>
          /\ active'[FinJob] = Untracked /\ \A j \in Job : j # FinJob => active'[j] = active[j] /\ engine'[j] = engine[j]
      BY <1>t, <2>8, ForgetEffects
    <3> QED BY <3>1 DEF Working, Cleaning
  <2> QED BY <2>1, <2>2, <2>3, <2>4, <2>5, <2>6, <2>7, <2>8
<1>1. /\ fin.d \in Delivery /\ FinJob \in Job /\ FinJob = fin.d[1] /\ row[FinJob].status # "failed"
      /\ row[FinJob].status # "deleted" => journal[fin.d].phase \in Phases(fin.at, fin.live)
      /\ row[FinJob].status # "deleted" /\ fin.at \notin Loose => journal[fin.d].path = fin.path
      /\ journal[fin.d].phase \in Later =>
            \/ row[FinJob].status = "completed" /\ row[FinJob].final = journal[fin.d].path
            \/ row[FinJob].status = "cancelled"
  BY <1>t, <1>0, DeliveryFields DEF JournalTrue, RecordIsKnown, RowsMatch, Exists
<1>2. row[FinJob].status # "deleted" => journal[fin.d].phase \in Phases(fin'.at, fin'.live)
  BY <1>0, <1>1 DEF Phases, Begun
<1>3. fin'.at \notin Loose => fin.at \notin Loose /\ fin'.path = fin.path
  BY <1>0 DEF Loose
<1>4. fin'.at # "committed"
  BY <1>0
<1> QED BY <1>0, <1>1, <1>2, <1>3, <1>4, WorkGoesOn

\* The steps that write the record.
LEMMA RecordsKeepJournal ==
    ASSUME WorkInv, JournalTrue, ~(left'.db < left.db),
           \/ Save \/ Begin \/ Committed \/ Pending \/ MarkFailed
           \/ Valid(fin.path, fin.d) /\ UpdatePhase("validated", "validated", "subtitles")
    PROVE  JournalTrue'
<1>t. MediaTypeOK
  BY DEF WorkInv
<1>l. ~(left'.db < left.db)
  BY <1>t, TypesKnown DEF Bounds
<1>0. /\ fin'.d = fin.d /\ fin'.live = fin.live /\ fin'.path = fin.path /\ UNCHANGED <<row, attempt, todo, active>>
      /\ fin.at \in Working /\ fin'.at \in Working
      /\ \A d \in Delivery : d # fin.d => journal'[d] = journal[d]
      /\ \/ fin.at = "save" /\ fin'.at = "begin"
            /\ \/ /\ journal'[fin.d] = journal[fin.d]
                  /\ ~Exists(FinJob) \/ (~fin.live /\ journal[fin.d].path = fin.path)
               \/ /\ Exists(FinJob) /\ journal'[fin.d].path = fin.path
                  /\ journal'[fin.d].phase = IF fin.live THEN "prepared" ELSE journal[fin.d].phase
         \/ \E p \in Phase :
                /\ \/ fin.at = "begin" /\ p = "in_progress" /\ fin'.at = "move"
                   \/ fin.at = "validated" /\ p = "validated" /\ fin'.at = "subtitles"
                   \/ fin.at = "committed" /\ p = "db_committed" /\ fin'.at = "forget"
                   \/ fin.at = "pending" /\ p = "cleanup_pending" /\ fin'.at = "clean"
                   \/ fin.at = "mark_failed" /\ p = "failed" /\ fin'.at = "fail"
                /\ \/ journal'[fin.d] = journal[fin.d] /\ (journal[fin.d].phase = "none" \/ ~Exists(FinJob))
                   \/ Exists(FinJob) /\ journal'[fin.d].phase = p /\ journal'[fin.d].path = journal[fin.d].path
  <2>1. CASE Save
    BY <1>t, <1>l, <2>1, SaveEffects DEF Working, Moving
  <2>2. CASE \/ Begin \/ Committed \/ Pending \/ MarkFailed
             \/ Valid(fin.path, fin.d) /\ UpdatePhase("validated", "validated", "subtitles")
    <3>1. /\ fin'.d = fin.d /\ fin'.live = fin.live /\ fin'.path = fin.path
          /\ fin.at \in Working /\ fin'.at \in Working
          /\ UNCHANGED <<row, active, attempt, engine, client, todo, given_up, removed, misfiled, scenario, dest, staging, sidecar, policy, device>>
          /\ \A d \in Delivery : d # fin.d => journal'[d] = journal[d]
          /\ \E p \in Phase :
                /\ \/ fin.at = "begin" /\ p = "in_progress" /\ fin'.at = "move"
                   \/ fin.at = "validated" /\ p = "validated" /\ fin'.at = "subtitles" /\ Valid(fin.path, fin.d)
                   \/ fin.at = "committed" /\ p = "db_committed" /\ fin'.at = "forget"
                   \/ fin.at = "pending" /\ p = "cleanup_pending" /\ fin'.at = "clean"
                   \/ fin.at = "mark_failed" /\ p = "failed" /\ fin'.at = "fail"
                /\ \/ journal'[fin.d] = journal[fin.d]
                      /\ (journal[fin.d].phase = "none" \/ ~Exists(FinJob) \/ left'.db < left.db)
                   \/ /\ Exists(FinJob) /\ journal[fin.d].phase # "none" /\ left' = left
                      /\ journal'[fin.d] = [phase |-> p, path |-> journal[fin.d].path]
      BY <1>t, <2>2, RecordEffects
    <3>2. \A p \in Phase : journal'[fin.d] = [phase |-> p, path |-> journal[fin.d].path]
                           => journal'[fin.d].phase = p /\ journal'[fin.d].path = journal[fin.d].path
      OBVIOUS
    <3> QED BY <1>l, <3>1, <3>2
  <2> QED BY <2>1, <2>2
<1>1. /\ fin.d \in Delivery /\ FinJob \in Job /\ FinJob = fin.d[1] /\ row[FinJob].status # "failed"
      /\ row[FinJob].status # "deleted" => journal[fin.d].phase \in Phases(fin.at, fin.live)
      /\ row[FinJob].status # "deleted" /\ fin.at \notin Loose => journal[fin.d].path = fin.path
      /\ row[FinJob].status # "deleted" /\ fin.at = "committed" =>
              \/ row[FinJob].status = "completed" /\ row[FinJob].final = fin.path
              \/ row[FinJob].status = "cancelled"
      /\ journal[fin.d].phase \in Later =>
            \/ row[FinJob].status = "completed" /\ row[FinJob].final = journal[fin.d].path
            \/ row[FinJob].status = "cancelled"
      /\ row[FinJob].status = "deleted" => journal[fin.d].phase = "none"
  BY <1>t, <1>0, DeliveryFields DEF JournalTrue, RecordIsKnown, RowsMatch, Exists, WorkInv, DeletedHaveNoRecord
<1>2. row[FinJob].status # "deleted" => journal'[fin.d].phase \in Phases(fin'.at, fin'.live)
  BY <1>0, <1>1 DEF Phases, Begun, Exists
<1>3. row[FinJob].status # "deleted" /\ fin'.at \notin Loose => journal'[fin.d].path = fin'.path
  BY <1>0, <1>1 DEF Loose, Exists, Phases, Begun
<1>4. fin'.at # "committed"
  BY <1>0
<1>5. journal'[fin.d].phase \in Later =>
            \/ row[FinJob].status = "completed" /\ row[FinJob].final = journal'[fin.d].path
            \/ row[FinJob].status = "cancelled"
  BY <1>0, <1>1 DEF Later, Loose, Phases, Begun, Exists
<1> QED BY <1>0, <1>1, <1>2, <1>3, <1>4, <1>5, WorkGoesOn

\* The steps that write the row.
LEMMA CommitsKeepJournal ==
    ASSUME WorkInv, JournalTrue, ~(left'.db < left.db), Commit \/ Recommit
    PROVE  JournalTrue'
<1>t. MediaTypeOK
  BY DEF WorkInv
<1>l. ~(left'.db < left.db)
  BY <1>t, TypesKnown DEF Bounds
<1>0. /\ fin'.d = fin.d /\ fin'.live = fin.live /\ fin'.path = fin.path /\ UNCHANGED <<attempt, todo, active, journal>>
      /\ fin.at \in Working /\ fin'.at \in Working
      /\ \A j \in Job : j # FinJob => row'[j] = row[j]
      /\ \/ fin.at = "commit" /\ fin'.at = "committed"
         \/ fin.at = "recommit" /\ fin'.at = "pending"
      /\ \/ row'[FinJob].status = "completed" /\ row'[FinJob].final = fin.path /\ row[FinJob].status # "deleted"
         \/ row'[FinJob] = row[FinJob] /\ (row[FinJob].status = "deleted" \/ fin.at = "recommit")
  <2>1. CASE Commit
    <3>1. /\ fin.at = "commit" /\ fin'.d = fin.d /\ fin'.live = fin.live /\ fin'.path = fin.path
          /\ UNCHANGED <<attempt, todo, active, journal>>
          /\ \A j \in Job : j # FinJob => row'[j] = row[j]
          /\ fin'.at = "committed"
          /\ row'[FinJob] = IF row[FinJob].status = "deleted" THEN row[FinJob] ELSE [status |-> "completed", final |-> fin.path]
      BY <1>t, <1>l, <2>1, CommitEffects
    <3> QED BY <3>1 DEF Working, Moving, Cleaning
  <2>2. CASE Recommit
    <3>1. /\ fin.at = "recommit" /\ fin'.d = fin.d /\ fin'.live = fin.live /\ fin'.path = fin.path
          /\ UNCHANGED <<attempt, todo, active, journal>>
          /\ \A j \in Job : j # FinJob => row'[j] = row[j]
          /\ fin'.at = "pending"
          /\ \/ row' = row
             \/ row'[FinJob] = IF row[FinJob].status = "deleted" THEN row[FinJob] ELSE [status |-> "completed", final |-> fin.path]
      BY <1>t, <1>l, <2>2, RecommitEffects
    <3> QED BY <3>1 DEF Working, Moving, Cleaning
  <2> QED BY <2>1, <2>2
<1>1. /\ fin.d \in Delivery /\ FinJob \in Job /\ FinJob = fin.d[1] /\ row[FinJob].status # "failed"
      /\ row[FinJob].status # "deleted" => journal[fin.d].phase \in Phases(fin.at, fin.live)
      /\ row[FinJob].status # "deleted" => journal[fin.d].path = fin.path
      /\ journal[fin.d].phase \in Later =>
            \/ row[FinJob].status = "completed" /\ row[FinJob].final = journal[fin.d].path
            \/ row[FinJob].status = "cancelled"
  BY <1>t, <1>0, DeliveryFields DEF JournalTrue, RecordIsKnown, RowsMatch, Exists, Loose
<1>2. row'[FinJob].status # "failed" /\ (row'[FinJob].status = "deleted" => row[FinJob].status = "deleted")
  BY <1>0, <1>1
<1>3. row'[FinJob].status # "deleted" => journal[fin.d].phase \in Phases(fin'.at, fin'.live)
  BY <1>0, <1>1 DEF Phases
<1>4. journal[fin.d].phase \in Later =>
            \/ row'[FinJob].status = "completed" /\ row'[FinJob].final = journal[fin.d].path
            \/ row'[FinJob].status = "cancelled"
  BY <1>0, <1>1
<1>5. row'[FinJob].status # "deleted" /\ fin'.at = "committed" => row'[FinJob].status = "completed" /\ row'[FinJob].final = fin'.path
  BY <1>0, <1>1
<1> QED BY <1>0, <1>1, <1>2, <1>3, <1>4, <1>5, WorkGoesOn

LEMMA EndsKeepJournal ==
    ASSUME WorkInv, JournalTrue, ~(left'.db < left.db), NotCommitted \/ Complete \/ FailJob
    PROVE  JournalTrue'
<1>t. MediaTypeOK
  BY DEF WorkInv
<1>0. /\ fin' = Done /\ fin.at \in {"not_committed", "complete", "fail"} /\ fin.at \in Working
      /\ UNCHANGED <<attempt, todo>> /\ FinJob \in Job /\ fin.d \in Delivery
      /\ \A j \in Job : j # FinJob => row'[j] = row[j] /\ active'[j] = active[j]
      /\ \A d \in Delivery : d # fin.d => journal'[d] = journal[d]
      /\ \/ /\ fin.at # "fail" /\ UNCHANGED <<row, active>>
            /\ \/ journal'[fin.d] = journal[fin.d] /\ (~Exists(FinJob) \/ journal[fin.d].phase = "none")
               \/ /\ Exists(FinJob) /\ journal'[fin.d].path = journal[fin.d].path
                  /\ journal'[fin.d].phase = IF fin.at = "complete" THEN "complete" ELSE "failed"
         \/ /\ fin.at = "fail" /\ active'[FinJob] = Untracked /\ UNCHANGED journal
            /\ \/ row[FinJob].status = "deleted" /\ row'[FinJob] = row[FinJob]
               \/ row[FinJob].status # "deleted" /\ row'[FinJob].status = "failed"
  <2>1. CASE NotCommitted \/ Complete
    <3>1. /\ fin.at \in {"not_committed", "complete"} /\ fin.d \in Delivery /\ FinJob \in Job /\ fin' = Done
          /\ UNCHANGED <<row, active, attempt, engine, client, todo, given_up, removed, misfiled, scenario, dest, staging, sidecar, policy, device>>
          /\ \A d \in Delivery : d # fin.d => journal'[d] = journal[d]
          /\ \/ journal'[fin.d] = journal[fin.d] /\ (~Exists(FinJob) \/ journal[fin.d].phase = "none")
             \/ /\ Exists(FinJob) /\ left' = left /\ journal'[fin.d].path = journal[fin.d].path
                /\ journal'[fin.d].phase = IF fin.at = "complete" THEN "complete" ELSE "failed"
      BY <1>t, <2>1, EndRecordEffects
    <3> QED BY <3>1 DEF Working, Moving, Cleaning
  <2>2. CASE FailJob
    <3>1. /\ fin.at = "fail" /\ fin' = Done /\ FinJob \in Job /\ fin.d \in Delivery
          /\ UNCHANGED <<attempt, client, todo, given_up, removed, misfiled, scenario, dest, staging, policy, device, journal>>
          /\ \A j \in Job : j # FinJob => row'[j] = row[j] /\ active'[j] = active[j] /\ engine'[j] = engine[j]
          /\ active'[FinJob] = Untracked
          /\ row'[FinJob] = IF row[FinJob].status = "deleted" THEN row[FinJob] ELSE [status |-> "failed", final |-> fin.final]
      BY <1>t, <2>2, FailEffects
    <3>2. \/ row[FinJob].status = "deleted" /\ row'[FinJob] = row[FinJob]
          \/ row[FinJob].status # "deleted" /\ row'[FinJob].status = "failed"
      BY <3>1
    <3> QED BY <3>1, <3>2 DEF Working, Moving
  <2> QED BY <2>1, <2>2
<1>1. /\ FinJob = fin.d[1] /\ row[FinJob].status # "failed"
      /\ row[FinJob].status # "deleted" => journal[fin.d].phase \in Phases(fin.at, fin.live)
      /\ journal[fin.d].phase \in Later =>
            \/ row[FinJob].status = "completed" /\ row[FinJob].final = journal[fin.d].path
            \/ row[FinJob].status = "cancelled"
      /\ row[FinJob].status = "deleted" => journal[fin.d].phase = "none"
  BY <1>t, <1>0, DeliveryFields DEF JournalTrue, RecordIsKnown, RowsMatch, Exists, WorkInv, DeletedHaveNoRecord
<1>2. fin'.at \notin Working
  BY <1>0, DoneEffects DEF Working, Moving, Cleaning
<1>3. journal'[fin.d].phase \in Settled
  BY <1>0, <1>1 DEF Phases, Exists, Settled
<1>4. active'[FinJob] = Untracked
  <2>1. fin.at = "complete" \/ row[FinJob].status = "deleted" => active[FinJob] = Untracked
    <3>1. fin.live /\ fin.at = "complete" => row[FinJob].status # "downloading"
      BY <1>0 DEF WorkInv, WorksOnCurrent, Cleaning
    <3>2. ~fin.live => active[FinJob] = Untracked
      BY <1>0 DEF WorkInv, ServesOrRecovers, Serving
    <3>3. active[FinJob] # Untracked => row[FinJob].status = "downloading" \/ fin.at \in {"committed", "forget"}
      BY <1>0 DEF WorkInv, TrackedDownloads
    <3> QED BY <1>0, <3>1, <3>2, <3>3
  <2>2. fin.at = "not_committed" => ~Exists(FinJob)
    BY <1>1 DEF Phases, Exists
  <2> QED BY <1>0, <2>1, <2>2 DEF Exists
<1>5. \/ row'[FinJob].status = "failed" /\ journal'[fin.d].phase \in {"none", "failed"}
      \/ /\ row'[FinJob] = row[FinJob]
         /\ journal'[fin.d].phase \in Later =>
               \/ row[FinJob].status = "completed" /\ row[FinJob].final = journal'[fin.d].path
               \/ row[FinJob].status = "cancelled"
  BY <1>0, <1>1 DEF Phases, Exists, Later
<1>6. \A j \in Job : active'[j] # Untracked => active[j] # Untracked /\ j # FinJob
  BY <1>0, <1>4
<1> QED BY <1>0, <1>2, <1>3, <1>5, <1>6, WorkEnds

\* The process and its recovery.
LEMMA ProcessKeepsJournal ==
    ASSUME WorkInv, JournalTrue, Crash \/ Restart \/ (\E d \in Delivery : Reconcile(d)) \/ Sweep
    PROVE  JournalTrue'
<1>t. MediaTypeOK
  BY DEF WorkInv
<1>d. /\ \A d \in Delivery : d[1] \in Job /\ (d[2] = attempt[d[1]] => d = Current(d[1]))
  BY <1>t, DeliveryFields
<1>a. fin.at \in {"down", "recover", "sweep"} => \A j \in Job : active[j] = Untracked
  BY DEF WorkInv, ServesOrRecovers, Serving
<1>r. UNCHANGED <<row, journal>> => RowsMatch'
  BY DEF JournalTrue, RowsMatch
<1>1. CASE Crash
  <2>1. fin'.at = "down" /\ todo' = {} /\ (\A j \in Job : active'[j] = Untracked) /\ UNCHANGED <<row, attempt, journal>>
    BY <1>t, <1>1, CrashEffects
  <2>2. RecordsSettle' /\ RecordIsKnown'
    BY <2>1, <1>d DEF RecordsSettle, RecordIsKnown, Working, Moving, Cleaning, JournalTrue
  <2> QED BY <1>r, <2>1, <2>2 DEF JournalTrue
<1>2. CASE Restart
  <2>1. /\ fin.at = "down" /\ fin'.at = "recover" /\ todo' = GetPendingFinalizations /\ UNCHANGED <<row, attempt, active, journal>>
    BY <1>2, RestartEffects
  <2>2. \A d \in Delivery : ~Unsettled(d)' => journal[d].phase \in Settled
    BY <2>1 DEF Unsettled, GetPendingFinalizations, Settled, Exists, WorkInv, DeletedHaveNoRecord
  <2>3. todo' \subseteq {d \in Delivery : journal[d].phase \notin Settled}
    BY <2>1 DEF GetPendingFinalizations, Settled
  <2>4. RecordsSettle'
    BY <1>a, <2>1, <2>2, <2>3 DEF RecordsSettle, JournalTrue
  <2>5. RecordIsKnown'
    BY <2>1 DEF RecordIsKnown, Working, Moving, Cleaning
  <2> QED BY <1>r, <2>1, <2>4, <2>5 DEF JournalTrue
<1>3. ASSUME NEW d \in Delivery, Reconcile(d) PROVE JournalTrue'
  <2>1. /\ fin.at = "recover" /\ d \in todo /\ todo' = todo \ {d}
        /\ fin'.d = d /\ FinJob' = d[1] /\ ~fin'.live /\ fin'.path = journal[d].path
        /\ fin'.at \in {"resolve", "validated", "subtitles", "recommit", "pending", "mark_failed"}
        /\ fin'.at = "resolve" => journal[d].phase \in {"prepared", "in_progress", "validated"} /\ staging[d[1]] # Nothing
        /\ fin'.at = "validated" => journal[d].phase = "in_progress" /\ Valid(journal[d].path, d)
        /\ fin'.at = "subtitles" => journal[d].phase = "validated" /\ Valid(journal[d].path, d)
        /\ fin'.at = "recommit" => journal[d].phase = "db_committed"
        /\ fin'.at = "pending" => journal[d].phase = "cleanup_pending"
        /\ fin'.at = "mark_failed" =>
                \/ journal[d].phase = "prepared" /\ staging[d[1]] = Nothing
                \/ journal[d].phase \in {"in_progress", "validated"} /\ staging[d[1]] = Nothing /\ ~Valid(journal[d].path, d)
                \/ journal[d].phase \in {"none", "complete", "failed"} \/ journal[d].phase \notin Phase
        /\ UNCHANGED <<row, attempt, active, journal>>
    BY <1>3, ReconcileEffects
  <2>2. journal[d].phase \notin Settled /\ journal[d].phase \in Phase /\ d[1] \in Job
    BY <1>d, <1>t, <2>1, TypesKnown DEF JournalTrue, RecordsSettle, JournalTypes
  <2>3. d[2] = attempt[d[1]]
    BY <2>2 DEF JournalTrue, RecordsSettle, Settled
  <2>4. row[d[1]].status # "failed"
    BY <2>2 DEF JournalTrue, RowsMatch, Settled
  <2>5. fin'.at \in Working /\ fin.at \notin Working
    BY <2>1 DEF Working, Moving, Cleaning
  <2>6. RecordsSettle'
    <3>1. \A e \in Delivery : ~Unsettled(e)' => ~Unsettled(e)
      BY <2>1, <2>5 DEF Unsettled
    <3>2. fin'.at # "down" => \A e \in Delivery : ~Unsettled(e)' => journal'[e].phase \in Settled
      BY <2>1, <3>1 DEF JournalTrue, RecordsSettle
    <3>3. todo' \subseteq {e \in Delivery : journal'[e].phase \notin Settled}
      BY <2>1 DEF JournalTrue, RecordsSettle
    <3>4. \A e \in Delivery : e[2] # attempt'[e[1]] => journal'[e].phase \in {"none", "failed"}
      BY <2>1 DEF JournalTrue, RecordsSettle
    <3> QED BY <1>a, <2>1, <3>2, <3>3, <3>4 DEF RecordsSettle
  <2>7. RecordIsKnown'
    <3>1. fin'.d = Current(FinJob)'
      BY <1>d, <2>1, <2>2, <2>3 DEF Current
    <3>2. journal'[fin'.d].phase \in Phases(fin'.at, fin'.live)
      BY <2>1, <2>2 DEF Phases, Begun, Settled
    <3> QED BY <2>1, <2>4, <3>1, <3>2 DEF RecordIsKnown
  <2> QED BY <1>r, <2>1, <2>6, <2>7 DEF JournalTrue
<1>4. CASE Sweep
  <2>1. /\ fin.at = "sweep" /\ fin'.at = "idle" /\ UNCHANGED <<row, attempt, active, journal, todo>>
    BY <1>t, <1>4, SweepEffects
  <2>2. RecordsSettle'
    BY <1>a, <2>1 DEF RecordsSettle, JournalTrue, Unsettled, Working, Moving, Cleaning
  <2>3. RecordIsKnown'
    BY <2>1 DEF RecordIsKnown, Working, Moving, Cleaning
  <2> QED BY <1>r, <2>1, <2>2, <2>3 DEF JournalTrue
<1> QED BY <1>1, <1>2, <1>3, <1>4

\* The restart fails what was downloading.
LEMMA InterruptedKeepsJournal ==
    ASSUME WorkInv, JournalTrue, FailInterrupted
    PROVE  JournalTrue'
<1>t. MediaTypeOK
  BY DEF WorkInv
<1>1. /\ fin.at = "recover" /\ todo = {} /\ fin'.at = "sweep"
      /\ \A j \in Job : row'[j] = row[j] \/ (row[j].status = "downloading" /\ row'[j].status = "failed")
      /\ UNCHANGED <<attempt, active, journal, todo>>
  BY <1>t, InterruptedEffects
<1>a. \A j \in Job : active[j] = Untracked
  BY <1>1 DEF WorkInv, ServesOrRecovers, Serving
<1>d. \A d \in Delivery : d[1] \in Job
  BY <1>t, DeliveryFields
<1>2. fin.at \notin Working /\ fin'.at \notin Working
  BY <1>1 DEF Working, Moving, Cleaning
<1>3. \A d \in Delivery : journal[d].phase \in Settled
  BY <1>1, <1>2 DEF JournalTrue, RecordsSettle, Unsettled
<1>4. RowsMatch'
  <2>1. ASSUME NEW d \in Delivery
        PROVE  /\ journal[d].phase \in Later =>
                    \/ row'[d[1]].status = "completed" /\ row'[d[1]].final = journal[d].path
                    \/ row'[d[1]].status = "cancelled"
               /\ row'[d[1]].status = "failed" => journal[d].phase \in {"none", "failed"}
    <3>1. /\ journal[d].phase \in Later =>
                \/ row[d[1]].status = "completed" /\ row[d[1]].final = journal[d].path
                \/ row[d[1]].status = "cancelled"
          /\ row[d[1]].status = "failed" => journal[d].phase \in {"none", "failed"}
      BY DEF JournalTrue, RowsMatch
    <3>2. CASE row'[d[1]] = row[d[1]]
      BY <3>1, <3>2
    <3>3. CASE row[d[1]].status = "downloading" /\ row'[d[1]].status = "failed"
      BY <1>3, <3>1, <3>3 DEF Settled, Later
    <3> QED BY <1>1, <1>d, <3>2, <3>3
  <2> QED BY <1>1, <2>1 DEF RowsMatch
<1>5. RecordsSettle'
  BY <1>a, <1>1, <1>2, <1>3 DEF RecordsSettle, JournalTrue
<1>6. RecordIsKnown'
  BY <1>2 DEF RecordIsKnown
<1> QED BY <1>4, <1>5, <1>6 DEF JournalTrue

LEMMA PollKeepsJournal ==
    ASSUME WorkInv, JournalTrue, NEW j \in Job, UpdateJobFromEngine(j)
    PROVE  JournalTrue'
<1>t. MediaTypeOK
  BY DEF WorkInv
<1>0. /\ fin.at = "idle" /\ active[j] # Untracked /\ UNCHANGED <<attempt, todo, given_up, removed, misfiled, scenario, client>>
      /\ fin.at \notin Working /\ fin.at # "down" /\ todo = {}
  BY <1>t, PollEffects DEF WorkInv, ServesOrRecovers, Working, Moving, Cleaning
<1>1. row[j].status = "downloading" /\ journal[Current(j)].phase = "none"
  BY <1>0 DEF WorkInv, TrackedDownloads, JournalTrue, RecordsSettle
<1>d. /\ \A d \in Delivery : d[1] \in Job /\ (d[2] = attempt[d[1]] => d = Current(d[1]))
      /\ \A k \in Job : Current(k) \in Delivery /\ Current(k)[1] = k /\ Current(k)' = Current(k)
  BY <1>t, <1>0, DeliveryFields DEF Current
<1>2. \A d \in Delivery : d[1] = j => journal[d].phase \in {"none", "failed"}
  BY <1>1, <1>d DEF JournalTrue, RecordsSettle
<1>3. CASE StartFinalizing(j) /\ UNCHANGED <<row, active, engine, left, dest, staging, policy, device>>
  <2>1. /\ fin'.at = "resolve" /\ fin'.d = Current(j) /\ fin'.live /\ FinJob' = j /\ fin'.at \in Working
        /\ \A d \in Delivery : d # Current(j) => journal'[d] = journal[d]
        /\ journal'[Current(j)].phase = "none"
    BY <1>t, <1>3, <1>d, StartEffects DEF FinJob, Working, Moving
  <2>j. \A d \in Delivery : journal'[d] = journal[d] \/ journal'[d].phase = "none"
    BY <2>1
  <2>2. RecordsSettle'
    <3>1. \A d \in Delivery : ~Unsettled(d)' => ~Unsettled(d)
      BY <1>0 DEF Unsettled
    <3>2. \A d \in Delivery : ~Unsettled(d)' => journal'[d].phase \in Settled
      BY <1>0, <2>j, <3>1 DEF JournalTrue, RecordsSettle, Settled
    <3>3. \A k \in Job : active'[k] # Untracked => journal'[Current(k)'].phase = "none"
      BY <1>0, <1>3, <1>d, <2>j DEF JournalTrue, RecordsSettle
    <3>4. todo' \subseteq {d \in Delivery : journal'[d].phase \notin Settled}
      BY <1>0
    <3>5. \A d \in Delivery : d[2] # attempt'[d[1]] => journal'[d].phase \in {"none", "failed"}
      BY <1>0, <2>j DEF JournalTrue, RecordsSettle
    <3> QED BY <1>0, <3>2, <3>3, <3>4, <3>5 DEF RecordsSettle
  <2>3. RowsMatch'
    BY <1>0, <1>3, <2>j DEF RowsMatch, JournalTrue, Later
  <2>4. RecordIsKnown'
    BY <1>0, <1>1, <1>3, <1>d, <2>1 DEF RecordIsKnown, Phases, Loose
  <2> QED BY <2>2, <2>3, <2>4 DEF JournalTrue
<1>4. ASSUME NEW st \in {"completed", "failed", "cancelled"}, NEW f \in Path \cup {NoPath}, NEW clean \in BOOLEAN,
             EndJob(j, st, f, clean), UNCHANGED <<fin, journal>>
      PROVE  JournalTrue'
  <2>1. /\ UNCHANGED <<dest, policy, device>>
        /\ \A k \in Job : k # j => row'[k] = row[k] /\ active'[k] = active[k] /\ engine'[k] = engine[k] /\ staging'[k] = staging[k]
        /\ \/ UNCHANGED <<row, active, engine, staging>>
           \/ /\ active'[j] = Untracked /\ engine'[j] = "unknown"
              /\ row'[j] = IF row[j].status = "deleted" THEN row[j] ELSE [status |-> st, final |-> f]
              /\ staging'[j] = IF clean THEN Nothing ELSE staging[j]
    BY <1>t, <1>4, EndEffects
  <2>2. \A k \in Job : active'[k] # Untracked => active[k] # Untracked
    BY <2>1
  <2>3. \A k \in Job : k = j \/ row'[k] = row[k]
    BY <2>1
  <2> QED BY <1>0, <1>2, <1>4, <2>2, <2>3, JournalUntouched
<1> QED BY <1>t, <1>3, <1>4, PollEffects

LEMMA ClientKeepsJournal ==
    ASSUME WorkInv, WorkInv', JournalTrue, ~(left'.db < left.db), ClientSteps
    PROVE  JournalTrue'
<1>t. MediaTypeOK
  BY DEF WorkInv
<1>d. /\ \A d \in Delivery : d[1] \in Job /\ (d[2] = attempt[d[1]] => d = Current(d[1])) /\ d[2] \in Nat
      /\ \A k \in Job : Current(k) \in Delivery /\ Current(k)[1] = k /\ attempt[k] \in Nat
      /\ fin.at \in Working => fin.d \in Delivery /\ FinJob \in Job /\ FinJob = fin.d[1]
  BY <1>t, DeliveryFields, TypesKnown
<1>s. Serving => todo = {} /\ fin.at # "down"
  BY DEF WorkInv, ServesOrRecovers, Serving
<1>1. ASSUME NEW j \in Job, CancelBegins(j) PROVE JournalTrue'
  BY <1>t, <1>1, CancelBeginsEffects, JournalUntouched
<1>2. CASE CancelWrites
  <2>1. /\ client.job \in Job
        /\ \A j \in Job : j # client.job => row'[j] = row[j] /\ active'[j] = active[j] /\ engine'[j] = engine[j]
        /\ active'[client.job] = Untracked
        /\ row'[client.job] = IF row[client.job].status = "deleted" THEN row[client.job]
                              ELSE [status |-> "cancelled", final |-> client.final]
        /\ UNCHANGED <<attempt, journal, fin, todo>>
    BY <1>t, <1>2, CancelWritesEffects
  <2>2. \A j \in Job : row'[j] = row[j] \/ (row'[j].status = "cancelled" /\ row[j].status # "deleted")
    BY <2>1
  <2> QED BY <2>1, <2>2, JournalUntouched
<1>3. CASE CancelCleans
  BY <1>t, <1>3, CancelCleansEffects, JournalUntouched
<1>4. ASSUME NEW j \in Job, Retry(j) PROVE JournalTrue'
  <2>1. /\ Serving /\ row[j].status = "failed"
        /\ \A k \in Job : k # j => /\ row'[k] = row[k] /\ active'[k] = active[k] /\ engine'[k] = engine[k]
                                   /\ staging'[k] = staging[k] /\ attempt'[k] = attempt[k]
        /\ attempt'[j] = attempt[j] + 1 /\ row'[j].status = "downloading"
        /\ UNCHANGED <<journal, fin, todo>>
    BY <1>t, <1>4, RetryEffects
  <2>2. FinJob' = FinJob /\ (fin.at \in Working => FinJob # j)
    BY <2>1 DEF FinJob, JournalTrue, RecordIsKnown
  <2>3. \A d \in Delivery : d[1] = j => journal[d].phase \in {"none", "failed"}
    BY <2>1 DEF JournalTrue, RowsMatch
  <2>4. \A k \in Job : k # j => Current(k)' = Current(k)
    BY <2>1 DEF Current
  <2>5. journal[Current(j)'].phase = "none"
    <3>1. WorkInv' /\ Current(j)' = <<j, attempt[j] + 1>>
      BY <2>1 DEF Current
    <3>2. Current(j)' \in Delivery
      BY <3>1, CurrentIsDelivery, <1>4, <1>t, RetryEffects, TypesKnown DEF Delivery, FileAssumptions
    <3>3. ~(Current(j)'[2] <= attempt[j]) /\ Current(j)'[1] = j
      BY <1>d, <3>1
    <3> QED BY <3>2, <3>3 DEF WorkInv, FilesHaveDownloads
  <2>6. RecordsSettle'
    <3>1. \A d \in Delivery : d[2] # attempt'[d[1]] => journal'[d].phase \in {"none", "failed"}
      BY <1>d, <2>1, <2>3 DEF JournalTrue, RecordsSettle
    <3>2. fin'.at # "down" => \A d \in Delivery : ~Unsettled(d)' => journal'[d].phase \in Settled
      BY <2>1 DEF JournalTrue, RecordsSettle, Unsettled
    <3>3. todo' \subseteq {d \in Delivery : journal'[d].phase \notin Settled}
      BY <2>1 DEF JournalTrue, RecordsSettle
    <3>4. \A k \in Job : active'[k] # Untracked /\ ~(fin'.at \in Working /\ FinJob' = k) => journal'[Current(k)'].phase = "none"
      BY <2>1, <2>2, <2>4, <2>5 DEF JournalTrue, RecordsSettle
    <3> QED BY <3>1, <3>2, <3>3, <3>4 DEF RecordsSettle
  <2>7. RowsMatch'
    <3>1. ASSUME NEW d \in Delivery
          PROVE  /\ journal[d].phase \in Later =>
                      \/ row'[d[1]].status = "completed" /\ row'[d[1]].final = journal[d].path
                      \/ row'[d[1]].status = "cancelled"
                 /\ row'[d[1]].status = "failed" => journal[d].phase \in {"none", "failed"}
      BY <1>d, <2>1, <2>3 DEF JournalTrue, RowsMatch, Later
    <3> QED BY <2>1, <3>1 DEF RowsMatch
  <2>8. RecordIsKnown'
    BY <1>d, <2>1, <2>2, <2>4 DEF JournalTrue, RecordIsKnown, Exists
  <2> QED BY <2>6, <2>7, <2>8 DEF JournalTrue
<1>5. ASSUME NEW j \in Job, DeleteFiles(j) PROVE JournalTrue'
  BY <1>t, <1>5, DeleteFilesEffects, JournalUntouched
<1>6. CASE DeleteRows
  <2>1. /\ Serving /\ client.job \in Job
        /\ active'[client.job] = Untracked
        /\ \A k \in Job : k # client.job => row'[k] = row[k] /\ active'[k] = active[k]
        /\ row'[client.job].status = "deleted"
        /\ \A d \in Delivery : IF d[1] = client.job THEN journal'[d] = NoRecord
                               ELSE journal'[d] = journal[d]
        /\ UNCHANGED <<attempt, fin, todo>>
    BY <1>t, <1>6, DeleteRowsEffects
  <2>2. \A d \in Delivery : IF d[1] = client.job THEN journal'[d].phase = "none" ELSE journal'[d] = journal[d]
    BY <2>1 DEF NoRecord
  <2>3. FinJob' = FinJob /\ \A k \in Job : Current(k)' = Current(k)
    BY <2>1 DEF FinJob, Current
  <2>4. RecordsSettle'
    <3>1. \A d \in Delivery : d[2] # attempt'[d[1]] => journal'[d].phase \in {"none", "failed"}
      BY <2>1, <2>2 DEF JournalTrue, RecordsSettle
    <3>2. fin'.at # "down" => \A d \in Delivery : ~Unsettled(d)' => journal'[d].phase \in Settled
      BY <2>1, <2>2 DEF JournalTrue, RecordsSettle, Unsettled, Settled
    <3>3. todo' \subseteq {d \in Delivery : journal'[d].phase \notin Settled}
      BY <1>s, <2>1
    <3>4. \A k \in Job : active'[k] # Untracked /\ ~(fin'.at \in Working /\ FinJob' = k) => journal'[Current(k)'].phase = "none"
      BY <1>d, <2>1, <2>2, <2>3 DEF JournalTrue, RecordsSettle
    <3> QED BY <3>1, <3>2, <3>3, <3>4 DEF RecordsSettle
  <2>5. RowsMatch'
    <3>1. ASSUME NEW d \in Delivery
          PROVE  /\ journal'[d].phase \in Later =>
                      \/ row'[d[1]].status = "completed" /\ row'[d[1]].final = journal'[d].path
                      \/ row'[d[1]].status = "cancelled"
                 /\ row'[d[1]].status = "failed" => journal'[d].phase \in {"none", "failed"}
      BY <1>d, <2>1, <2>2 DEF JournalTrue, RowsMatch, Later
    <3> QED BY <3>1 DEF RowsMatch
  <2>6. RecordIsKnown'
    <3> SUFFICES ASSUME fin.at \in Working PROVE RecordIsKnown'
      BY <2>1 DEF RecordIsKnown
    <3>1. CASE FinJob = client.job
      BY <1>d, <2>1, <2>3, <3>1 DEF JournalTrue, RecordIsKnown, Exists
    <3>2. CASE FinJob # client.job
      BY <1>d, <2>1, <2>2, <2>3, <3>2 DEF JournalTrue, RecordIsKnown, Exists
    <3> QED BY <3>1, <3>2
  <2> QED BY <2>4, <2>5, <2>6 DEF JournalTrue
<1> QED BY <1>1, <1>2, <1>3, <1>4, <1>5, <1>6 DEF ClientSteps

LEMMA OthersKeepJournal ==
    ASSUME WorkInv, JournalTrue, (\E j \in Job : EngineEnds(j)) \/ (\E p \in Path : ForeignFile(p))
    PROVE  JournalTrue'
<1>t. MediaTypeOK
  BY DEF WorkInv
<1>1. ASSUME NEW j \in Job, EngineEnds(j) PROVE JournalTrue'
  BY <1>t, <1>1, EngineEffects, JournalUntouched
<1>2. ASSUME NEW p \in Path, ForeignFile(p) PROVE JournalTrue'
  BY <1>t, <1>2, ForeignEffects, JournalUntouched
<1> QED BY <1>1, <1>2

\* No step gives back a failing call.
LEMMA LeftFalls == MediaTypeOK /\ [MediaNext]_vars => UNCHANGED scenario /\ left'.db <= left.db /\ left'.io <= left.io
<1> SUFFICES ASSUME MediaTypeOK, [MediaNext]_vars PROVE UNCHANGED scenario /\ left'.db <= left.db /\ left'.io <= left.io
  OBVIOUS
<1>t. left \in Bounds /\ left.db \in Nat /\ left.io \in Nat /\ left.db <= left.db /\ left.io <= left.io
  BY TypesKnown DEF Bounds
<1>s. ASSUME NEW k \in DOMAIN left, Spend(k) PROVE left'.db <= left.db /\ left'.io <= left.io
  BY <1>s, <1>t DEF Spend, Bounds
<1>d. {"db", "io", "foreign", "cmd", "crash"} \subseteq DOMAIN left
  BY <1>t DEF Bounds
<1>j. ASSUME NEW d, NEW p, NEW path, Journal(d, p, path) PROVE left'.db <= left.db /\ left'.io <= left.io
  BY <1>j, <1>t, <1>d, <1>s DEF Journal
<1>e. ASSUME NEW j, NEW st, NEW f, NEW c, EndJob(j, st, f, c) PROVE left'.db <= left.db /\ left'.io <= left.io
  BY <1>e, <1>t, <1>d, <1>s DEF EndJob
<1>u. ASSUME NEW from, NEW p, NEW to, UpdatePhase(from, p, to) PROVE UNCHANGED scenario /\ left'.db <= left.db /\ left'.io <= left.io
  BY <1>u, <1>t, <1>j DEF UpdatePhase, UpdateFinalizationPhase, FinStep
<1>1. CASE UNCHANGED vars
  BY <1>1, <1>t DEF vars, mediaVars
<1>2. ASSUME NEW j \in Job, EngineEnds(j) \/ UpdateJobFromEngine(j) PROVE UNCHANGED scenario /\ left'.db <= left.db /\ left'.io <= left.io
  BY <1>2, <1>t, <1>e DEF EngineEnds, UpdateJobFromEngine
<1>3. ASSUME NEW p \in Path, ForeignFile(p) PROVE UNCHANGED scenario /\ left'.db <= left.db /\ left'.io <= left.io
  BY <1>3, <1>d, <1>s DEF ForeignFile
<1>4. CASE Crash \/ Restart
  BY <1>4, <1>t, <1>d, <1>s DEF Crash, Restart
<1>5. CASE FinalizationSteps
  <2>1. CASE Resolve \/ Move \/ CopyFails \/ ReplaceTarget \/ Unlink \/ Clean \/ Forget \/ Commit \/ Subtitles
    BY <2>1, <1>t, <1>d, <1>s DEF Resolve, Move, CopyFails, ReplaceTarget, Unlink, Clean, Forget, Commit, Subtitles, FinStep
  <2>2. CASE Save \/ NotCommitted \/ Complete
    BY <2>2, <1>t, <1>j DEF Save, NotCommitted, Complete, UpdateFinalizationPhase, FinStep
  <2>3. CASE Begin \/ Committed \/ Pending \/ MarkFailed
    BY <2>3, <1>u DEF Begin, Committed, Pending, MarkFailed
  <2>4. CASE Validated
    BY <2>4, <1>t, <1>u DEF Validated, FinStep
  <2>5. CASE FailJob
    BY <2>5, <1>e DEF FailJob
  <2> QED BY <1>5, <2>1, <2>2, <2>3, <2>4, <2>5 DEF FinalizationSteps
<1>6. CASE RecoverySteps
  <2>1. ASSUME NEW d \in Delivery, Reconcile(d) PROVE UNCHANGED scenario /\ left'.db <= left.db /\ left'.io <= left.io
    BY <2>1, <1>t DEF Reconcile
  <2>2. CASE Recommit \/ Sweep
    BY <2>2, <1>t, <1>d, <1>s DEF Recommit, Sweep, FinStep
  <2>3. CASE FailInterrupted
    BY <2>3, <1>t, InterruptedEffects
  <2> QED BY <1>6, <2>1, <2>2, <2>3 DEF RecoverySteps
<1>7. CASE ClientSteps
  <2>1. ASSUME NEW j \in Job, CancelBegins(j) \/ Retry(j) \/ DeleteFiles(j) PROVE UNCHANGED scenario /\ left'.db <= left.db /\ left'.io <= left.io
    BY <2>1, <1>d, <1>s DEF CancelBegins, Retry, DeleteFiles
  <2>2. CASE CancelWrites \/ CancelCleans \/ DeleteRows
    BY <2>2, <1>t, <1>d, <1>s DEF CancelWrites, CancelCleans, DeleteRows
  <2> QED BY <1>7, <2>1, <2>2 DEF ClientSteps
<1> QED BY <1>1, <1>2, <1>3, <1>4, <1>5, <1>6, <1>7 DEF MediaNext

\* The journal's invariant at the start, and after every step.
LEMMA JournalHolds == MediaInit => JournalInv
<1> SUFFICES ASSUME MediaInit PROVE JournalInv
  OBVIOUS
<1>1. WorkInv /\ MediaTypeOK /\ fin.at = "idle" /\ todo = {} /\ left = scenario
  BY WorkInvHolds DEF WorkInv, MediaInit, Idle
<1>2. \A d \in Delivery : d[1] \in Job /\ journal[d].phase = "none"
  BY <1>1, DeliveryFields DEF MediaInit, NoRecord
<1>3. Lesser
  BY <1>1, TypesKnown DEF Lesser, Bounds
<1>4. RecordsSettle
  BY <1>1, <1>2, DeliveryFields DEF RecordsSettle, Settled
<1>5. RowsMatch
  BY <1>2 DEF RowsMatch, Later
<1>6. RecordIsKnown
  BY <1>1 DEF RecordIsKnown, Working, Moving, Cleaning
<1> QED BY <1>1, <1>3, <1>4, <1>5, <1>6 DEF JournalInv, JournalTrue

LEMMA JournalStays == JournalInv /\ [MediaNext]_vars => JournalInv'
<1> SUFFICES ASSUME JournalInv, [MediaNext]_vars PROVE JournalInv'
  OBVIOUS
<1>1. WorkInv /\ WorkInv' /\ MediaTypeOK /\ MediaTypeOK' /\ Lesser
  BY WorkStays DEF JournalInv, WorkInv
<1>2. Lesser' /\ (NoDatabaseError' => NoDatabaseError /\ left'.db = left.db)
  BY <1>1, LeftFalls, NoErrorBefore
<1> SUFFICES ASSUME NoDatabaseError' PROVE JournalTrue'
  BY <1>1, <1>2 DEF JournalInv
<1>3. JournalTrue /\ ~(left'.db < left.db)
  <2>1. left.db \in Nat
    BY <1>1, TypesKnown DEF Bounds
  <2> QED BY <1>2, <2>1 DEF JournalInv
<1>4. CASE UNCHANGED vars
  <2>1. UNCHANGED <<row, active, fin, todo, attempt, journal>>
    BY <1>4 DEF vars, mediaVars
  <2> QED BY <1>1, <1>3, <2>1, JournalUntouched
<1>5. ASSUME NEW j \in Job, EngineEnds(j) \/ UpdateJobFromEngine(j) PROVE JournalTrue'
  BY <1>1, <1>3, <1>5, OthersKeepJournal, PollKeepsJournal
<1>6. CASE \E p \in Path : ForeignFile(p)
  BY <1>1, <1>3, <1>6, OthersKeepJournal
<1>7. CASE Crash \/ Restart
  BY <1>1, <1>3, <1>7, ProcessKeepsJournal
<1>8. CASE FinalizationSteps
  BY <1>1, <1>3, <1>8, MovesKeepJournal, RecordsKeepJournal, CommitsKeepJournal, EndsKeepJournal DEF FinalizationSteps, Validated
<1>9. CASE RecoverySteps
  BY <1>1, <1>3, <1>9, ProcessKeepsJournal, InterruptedKeepsJournal, CommitsKeepJournal DEF RecoverySteps
<1>10. CASE ClientSteps
  BY <1>1, <1>3, <1>10, ClientKeepsJournal
<1> QED BY <1>4, <1>5, <1>6, <1>7, <1>8, <1>9, <1>10 DEF MediaNext

\* The journal tells the truth: a record past the commit belongs to a job that is
\* completed at its path, and no recovery makes a second copy by renaming.
THEOREM TheJournalIsTrue == MediaSpec => []JournalIsTrue
<1>1. JournalInv /\ PlaceInv => JournalIsTrue
  <2> SUFFICES ASSUME JournalInv, PlaceInv PROVE JournalIsTrue
    OBVIOUS
  <2>1. MediaTypeOK /\ RenamedOnce
    BY OnePlaceMeansOnce DEF JournalInv, WorkInv
  <2>2. CommittedRecordHasCommittedJob
    BY DEF JournalInv, JournalTrue, RowsMatch, Later, CommittedRecordHasCommittedJob
  <2> QED BY <2>1, <2>2 DEF JournalIsTrue
<1> QED BY <1>1, PlaceHolds, PlaceStays, JournalHolds, JournalStays, PTL DEF MediaSpec

\* What becomes of a foreign file in one step.
LEMMA ForeignFileTaken ==
    ASSUME MediaTypeOK, [MediaNext]_vars, NEW p \in Path, dest[p] = Foreign, dest'[p] # Foreign
    PROVE  \/ fin.at = "copied" /\ policy[fin.d[1]] = "overwrite"
           \/ client'.at = "delete" /\ client'.final = p
<1>t. MediaTypeOK /\ dest \in [Path -> Content] /\ Foreign # Nothing
  BY TypesKnown DEF FilesTypeOK, FileAssumptions
<1>n. dest' # dest
  OBVIOUS
<1>1. CASE UNCHANGED vars
  BY <1>1, <1>n DEF vars, fileVars
<1>2. CASE (\E j \in Job : EngineEnds(j) \/ UpdateJobFromEngine(j)) \/ Crash \/ Restart
  BY <1>2, <1>n DEF EngineEnds, UpdateJobFromEngine, EndJob, CleanupWorkDir, Crash, Restart, FilesStay, fileVars
<1>3. ASSUME NEW q \in Path, ForeignFile(q) PROVE FALSE
  BY <1>t, <1>3 DEF ForeignFile
<1>4. CASE FinalizationSteps
  <2>1. CASE Move
    BY <1>t, <2>1, MoveEffects DEF CanRename
  <2>2. CASE ReplaceTarget
    BY <1>t, <2>2, ReplaceEffects DEF CopyConflicts, FinJob
  <2>3. CASE Resolve \/ CopyFails \/ Unlink \/ Clean \/ Forget \/ Commit \/ Subtitles \/ Save \/ NotCommitted \/ Complete
    BY <2>3, <1>n DEF Resolve, CopyFails, Unlink, Clean, Forget, Commit, Subtitles, Save, NotCommitted, Complete,
                      RemoveSource, CleanupWorkDir, FilesStay, fileVars
  <2>4. CASE Begin \/ Committed \/ Pending \/ MarkFailed \/ Validated \/ FailJob
    BY <2>4, <1>n DEF Begin, Committed, Pending, MarkFailed, Validated, UpdatePhase, UpdateFinalizationPhase, FailJob, EndJob, CleanupWorkDir, FilesStay, fileVars
  <2> QED BY <1>4, <2>1, <2>2, <2>3, <2>4 DEF FinalizationSteps
<1>5. CASE RecoverySteps
  BY <1>5, <1>n DEF RecoverySteps, Reconcile, Recommit, FailInterrupted, Sweep, CleanupStaleWorkDirs, FilesStay, fileVars
<1>6. CASE ClientSteps
  <2>1. ASSUME NEW j \in Job, DeleteFiles(j) PROVE client'.at = "delete" /\ client'.final = p
    <3>1. PICK names \in {{}, {row[j].final} \cap Path} : dest' = [q \in Path |-> IF q \in names THEN Nothing ELSE dest[q]]
      BY <2>1 DEF DeleteFiles
    <3>2. p \in names
      BY <3>1
    <3>3. row[j].final = p
      BY <3>1, <3>2
    <3> QED BY <2>1, <3>3 DEF DeleteFiles
  <2>2. CASE (\E j \in Job : CancelBegins(j) \/ Retry(j)) \/ CancelWrites \/ CancelCleans \/ DeleteRows
    BY <2>2, <1>n DEF CancelBegins, Retry, CancelWrites, CancelCleans, DeleteRows, CleanupWorkDir, FilesStay, fileVars
  <2> QED BY <1>6, <2>1, <2>2 DEF ClientSteps
<1> QED BY <1>1, <1>2, <1>3, <1>4, <1>5, <1>6 DEF MediaNext

\* No step of a move, of the recovery or of a clean-up takes a file of the user's, but
\* the copy of a job told to overwrite and the deletion of that very name.
THEOREM ForeignFilesAreKept == MediaSpec => ForeignFilesStay
<1>1. MediaTypeOK /\ [MediaNext]_vars =>
        [\A p \in Path : dest[p] = Foreign /\ dest'[p] # Foreign
                         => \/ fin.at = "copied" /\ policy[fin.d[1]] = "overwrite"
                            \/ client'.at = "delete" /\ client'.final = p]_vars
  BY ForeignFileTaken
<1> QED BY <1>1, InitIsTyped, TypesStay, PTL DEF MediaSpec, ForeignFilesStay
------------------------------------------------------------------------------
\* What is delivered.

\* A file of a job's stays where it is, unless a client deletes it or a job overwrites it.
LEMMA FilesLast ==
    ASSUME MediaTypeOK, [MediaNext]_vars
    PROVE  /\ UNCHANGED <<policy, device>> /\ removed \subseteq removed' /\ misfiled \subseteq misfiled'
           /\ \A j \in Job : attempt[j] <= attempt'[j]
           /\ \A p \in Path : \/ dest'[p] = dest[p] \/ dest[p] \in {Nothing, Foreign}
                              \/ p \in removed' \/ \E k \in Job : policy[k] = "overwrite"
<1> DEFINE Lasts == /\ UNCHANGED <<policy, device>> /\ removed \subseteq removed' /\ misfiled \subseteq misfiled'
                    /\ \A j \in Job : attempt[j] <= attempt'[j]
                    /\ \A p \in Path : \/ dest'[p] = dest[p] \/ dest[p] \in {Nothing, Foreign}
                                       \/ p \in removed' \/ \E k \in Job : policy[k] = "overwrite"
<1>t. MediaTypeOK /\ dest \in [Path -> Content] /\ \A j \in Job : attempt[j] \in Nat /\ attempt[j] <= attempt[j]
  BY TypesKnown DEF FilesTypeOK
<1>s. UNCHANGED <<policy, device, removed, misfiled, attempt, dest>> => Lasts
  BY <1>t
<1>1. CASE UNCHANGED vars
  BY <1>1, <1>s DEF vars, fileVars, mediaVars
<1>2. CASE (\E j \in Job : EngineEnds(j) \/ UpdateJobFromEngine(j)) \/ Crash \/ Restart
  BY <1>2, <1>s DEF EngineEnds, UpdateJobFromEngine, EndJob, CleanupWorkDir, Crash, Restart, FilesStay, fileVars
<1>3. ASSUME NEW q \in Path, ForeignFile(q) PROVE Lasts
  BY <1>t, <1>3, ForeignEffects
<1>4. CASE FinalizationSteps
  <2>f. fin.at \in Working => FinJob \in Job /\ policy[FinJob] \in ConflictPolicy
    BY <1>t, TypesKnown, WorkingTyped DEF FilesTypeOK
  <2>1. CASE Move
    BY <1>t, <2>1, MoveEffects DEF CanRename
  <2>2. CASE ReplaceTarget
    <3>1. fin.at = "copied" /\ FinJob \in Job /\ UNCHANGED <<policy, device, removed, misfiled, attempt>>
      BY <1>t, <2>f, <2>2, ReplaceEffects DEF Working, Moving
    <3>2. UNCHANGED dest \/ (~CopyConflicts(FinJob, fin.path) /\ dest' = [dest EXCEPT ![fin.path] = fin.copy])
      BY <1>t, <2>2, ReplaceEffects
    <3> QED BY <1>t, <3>1, <3>2 DEF CopyConflicts
  <2>3. CASE Save
    BY <1>t, <2>3, SaveEffects
  <2>4. CASE Resolve \/ CopyFails \/ Unlink \/ Clean \/ Forget \/ Commit \/ Subtitles \/ NotCommitted \/ Complete
    BY <2>4, <1>s DEF Resolve, CopyFails, Unlink, Clean, Forget, Commit, Subtitles, NotCommitted, Complete, FinStep,
                      RemoveSource, CleanupWorkDir, FilesStay, fileVars
  <2>5. CASE Begin \/ Committed \/ Pending \/ MarkFailed \/ Validated \/ FailJob
    BY <2>5, <1>s DEF Begin, Committed, Pending, MarkFailed, Validated, UpdatePhase, UpdateFinalizationPhase, FailJob, EndJob, FinStep,
                      CleanupWorkDir, FilesStay, fileVars
  <2> QED BY <1>4, <2>1, <2>2, <2>3, <2>4, <2>5 DEF FinalizationSteps
<1>5. CASE RecoverySteps
  BY <1>5, <1>s DEF RecoverySteps, Reconcile, Recommit, FailInterrupted, Sweep, CleanupStaleWorkDirs, FinStep, FilesStay, fileVars
<1>6. CASE ClientSteps
  <2>1. ASSUME NEW j \in Job, DeleteFiles(j) PROVE Lasts
    BY <1>t, <2>1, DeleteFilesEffects
  <2>2. ASSUME NEW j \in Job, Retry(j) PROVE Lasts
    <3>1. \A k \in Job : attempt'[k] = attempt[k] \/ attempt'[k] = attempt[k] + 1
      BY <1>t, <2>2, RetryEffects
    <3>2. UNCHANGED <<policy, device, removed, misfiled, dest>>
      BY <2>2 DEF Retry, CleanupWorkDir
    <3> QED BY <1>t, <3>1, <3>2
  <2>3. CASE (\E j \in Job : CancelBegins(j)) \/ CancelWrites \/ CancelCleans \/ DeleteRows
    BY <2>3, <1>s DEF CancelBegins, CancelWrites, CancelCleans, DeleteRows, CleanupWorkDir, FilesStay, fileVars
  <2> QED BY <1>6, <2>1, <2>2, <2>3 DEF ClientSteps
<1> QED BY <1>1, <1>2, <1>3, <1>4, <1>5, <1>6 DEF MediaNext

\* So what is held remains held.
HeldStays == \A j \in Job, p \in Path : Held(j, p) => Held(j, p)'
LEMMA HeldKept == ASSUME MediaTypeOK, MediaTypeOK', [MediaNext]_vars PROVE HeldStays /\ misfiled \subseteq misfiled'
<1>1. /\ UNCHANGED policy /\ removed \subseteq removed' /\ misfiled \subseteq misfiled'
      /\ \A j \in Job : attempt[j] <= attempt'[j]
      /\ \A p \in Path : \/ dest'[p] = dest[p] \/ dest[p] \in {Nothing, Foreign}
                         \/ p \in removed' \/ \E k \in Job : policy[k] = "overwrite"
  BY FilesLast
<1>2. \A j \in Job : attempt[j] \in Nat /\ attempt'[j] \in Nat /\ attempt[j] <= MaxAttempts
  BY DEF MediaTypeOK, FileAssumptions
<1>3. ASSUME NEW j \in Job, NEW p \in Path, dest[p] \in {j} \X (1 .. attempt[j]), dest'[p] = dest[p]
      PROVE  dest'[p] \in {j} \X (1 .. attempt'[j])
  BY <1>1, <1>2, <1>3
<1>4. ASSUME NEW j \in Job, NEW p \in Path PROVE ~(dest[p] \in {j} \X (1 .. attempt[j]) /\ dest[p] \in {Nothing, Foreign})
  BY <1>2 DEF FileAssumptions
<1>5. ASSUME NEW j \in Job, NEW p \in Path, Held(j, p) PROVE Held(j, p)'
  BY <1>1, <1>3, <1>4, <1>5 DEF Held
<1> QED BY <1>1, <1>5 DEF HeldStays

\* What holds a delivery together from one step to the next.
LEMMA RowsStayHeld ==
    ASSUME HeldStays, RowsHeld, MediaTypeOK,
           \A j \in Job : \/ row'[j] = row[j]
                          \/ row'[j].status # "completed" /\ row'[j].final \in {row[j].final, NoPath}
                          \/ Held(j, row[j].final)'
    PROVE  RowsHeld'
<1> SUFFICES ASSUME NEW j \in Job
             PROVE /\ row'[j].final # NoPath => Held(j, row[j].final)'
                   /\ row'[j].status = "completed" => row'[j].final # NoPath
  BY DEF RowsHeld
<1>1. row[j].final \in Path \cup {NoPath} /\ NoPath \notin Path
  BY TypesKnown DEF RowTypes, Path, NoPath
<1>2. ASSUME Held(j, row[j].final)' PROVE row'[j].final \in Path
  BY <1>2 DEF Held, Path
<1>3. CASE row'[j] = row[j] \/ (row'[j].status # "completed" /\ row'[j].final \in {row[j].final, NoPath})
  <2>1. row'[j].status = "completed" => row'[j].final # NoPath
    BY <1>3 DEF RowsHeld
  <2>2. ASSUME row'[j].final # NoPath PROVE Held(j, row[j].final)'
    <3>1. PICK p \in Path : p = row[j].final /\ p = row'[j].final
      BY <1>1, <1>3, <2>2
    <3>2. Held(j, p)
      BY <1>1, <3>1 DEF RowsHeld, Held
    <3>3. Held(j, p)'
      BY <3>2 DEF HeldStays
    <3> QED BY <3>1, <3>3 DEF Held
  <2> QED BY <2>1, <2>2
<1> QED BY <1>1, <1>2, <1>3

LEMMA ActiveStaysHeld ==
    ASSUME HeldStays, ActiveHeld,
           \A j \in Job : active'[j] \in {active[j], Untracked, NoPath} \/ Held(j, active[j])'
    PROVE  ActiveHeld'
BY DEF HeldStays, ActiveHeld, Path, NoPath, Untracked

LEMMA ClientStaysHeld ==
    ASSUME HeldStays, ClientHeld, MediaTypeOK,
           client'.at = "none" \/ (client'.job = client.job /\ client'.final = client.final /\ client.at # "none")
    PROVE  ClientHeld'
BY DEF HeldStays, ClientHeld, MediaTypeOK

LEMMA RecordsStayHeld ==
    ASSUME HeldStays, RecordsHeld, MediaTypeOK,
           \A d \in Delivery :
              \/ journal'[d] = journal[d] \/ journal'[d].phase = "none"
              \/ /\ journal'[d].path \in Path
                 /\ journal'[d].phase \in Later => Held(d[1], journal[d].path)'
    PROVE  RecordsHeld'
<1>1. "none" \notin Later /\ \A d \in Delivery : d[1] \in Job
  BY TypesKnown DEF Later
<1> QED BY <1>1 DEF HeldStays, RecordsHeld

LEMMA FinStaysHeld ==
    ASSUME HeldStays, FinHeld, MediaTypeOK, misfiled \subseteq misfiled', fin.at \in Working, fin'.d = fin.d,
           fin'.path = fin.path \/ fin'.at \notin Found \cup Filed, fin'.final = fin.final \/ Held(FinJob, fin.final)',
           \/ journal'[fin.d] = journal[fin.d] \/ journal'[fin.d].phase = "none"
           \/ journal'[fin.d].path = journal[fin.d].path /\ journal[fin.d].phase # "none"
           \/ fin'.at \notin Late,
           fin'.at \in Found => fin.at \in Found \/ Held(FinJob, fin.path)',
           fin'.at \in {"resolve", "save"} =>
              /\ fin.at \in {"resolve", "save"}
              /\ journal'[fin.d] = journal[fin.d] \/ journal'[fin.d].phase = "none",
           fin'.at \in Filed /\ journal'[fin.d].phase # "none" =>
              \/ fin.at \in Filed /\ journal'[fin.d].path = journal[fin.d].path /\ journal[fin.d].phase # "none"
              \/ journal'[fin.d].path = fin.path \/ FinJob \in misfiled',
           fin'.at \in Late /\ journal'[fin.d].phase # "none" => fin.at \in Late \/ Held(FinJob, journal[fin.d].path)'
    PROVE  FinHeld'
<1>1. FinJob' = FinJob /\ FinJob \in Job /\ fin.d \in Delivery /\ fin.path \in Path \cup {NoPath} /\ fin.final \in Path \cup {NoPath}
      /\ journal[fin.d].path \in Path \cup {NoPath} /\ "none" \notin Later
  BY WorkingTyped, TypesKnown DEF FinJob, JournalTypes, Later
<1>2. \A p \in Path \cup {NoPath} : Held(FinJob, p) => Held(FinJob, p)'
  BY <1>1 DEF HeldStays, Held
<1> SUFFICES ASSUME fin'.at \in Working
             PROVE  /\ fin'.final # NoPath => Held(FinJob, fin.final)'
                    /\ fin'.at \in Found => Held(FinJob, fin.path)'
                    /\ fin'.at \in {"resolve", "save"} => journal'[fin.d].phase \notin Later
                    /\ fin'.at \in Filed /\ journal'[fin.d].phase # "none" =>
                           journal'[fin.d].path = fin'.path \/ FinJob \in misfiled'
                    /\ fin'.at \in Late /\ journal'[fin.d].phase # "none" => Held(FinJob, journal[fin.d].path)'
  BY <1>1 DEF FinHeld
<1>3. fin'.final # NoPath => Held(FinJob, fin.final)'
  BY <1>1, <1>2 DEF FinHeld, Held
<1>4. fin'.at \in Found => Held(FinJob, fin.path)'
  BY <1>1, <1>2 DEF FinHeld, Held
<1>5. fin'.at \in {"resolve", "save"} => journal'[fin.d].phase \notin Later
  BY <1>1 DEF FinHeld
<1>6. fin'.at \in Filed /\ journal'[fin.d].phase # "none" => journal'[fin.d].path = fin'.path \/ FinJob \in misfiled'
  BY <1>1 DEF FinHeld
<1>7. fin'.at \in Late /\ journal'[fin.d].phase # "none" => Held(FinJob, journal[fin.d].path)'
  BY <1>1, <1>2 DEF FinHeld, Held
<1> QED BY <1>3, <1>4, <1>5, <1>6, <1>7

\* Whoever else acts leaves the monitor where it is, or at rest.
LEMMA FinStaysQuiet ==
    ASSUME HeldStays, FinHeld, MediaTypeOK, misfiled \subseteq misfiled',
           \/ fin'.at \notin Working
           \/ fin' = fin /\ \A d \in Delivery : journal'[d] = journal[d] \/ journal'[d].phase = "none"
    PROVE  FinHeld'
<1>1. CASE fin'.at \notin Working
  BY <1>1 DEF FinHeld
<1>2. CASE fin.at \in Working /\ fin' = fin /\ \A d \in Delivery : journal'[d] = journal[d] \/ journal'[d].phase = "none"
  <2>1. fin.d \in Delivery
    BY <1>2, WorkingTyped
  <2> QED BY <1>2, <2>1, FinStaysHeld DEF FinHeld
<1> QED BY <1>1, <1>2

\* The steps that only move a file, or forget one.
LEMMA MovesDeliver ==
    ASSUME PathsAreHeld, MediaTypeOK, HeldStays, misfiled \subseteq misfiled',
           \/ Resolve \/ Move \/ CopyFails \/ ReplaceTarget \/ Unlink \/ Clean \/ Forget
           \/ FinStep("validated") /\ ~Valid(fin.path, fin.d) /\ Goto("mark_failed") /\ FilesStay /\ UNCHANGED <<row, active, journal, left>>
    PROVE  PathsAreHeld'
<1> USE DEF PathsAreHeld
<1>1. /\ UNCHANGED <<row, client, journal>> /\ fin'.d = fin.d /\ fin'.final = fin.final
      /\ \A j \in Job : active'[j] \in {active[j], Untracked}
      /\ \/ fin.at = "resolve" /\ fin'.at \in {"save", "fail", "mark_failed"}
         \/ /\ fin'.path = fin.path
            /\ \/ fin.at = "move" /\ fin'.at \in {"mark_failed", "copied", "validated"}
               \/ fin.at = "copied" /\ fin'.at \in {"mark_failed", "unlink"}
               \/ fin.at = "unlink" /\ fin'.at = "validated"
               \/ fin.at = "clean" /\ fin'.at = "complete"
               \/ fin.at = "forget" /\ fin'.at = "pending"
               \/ fin.at = "validated" /\ fin'.at = "mark_failed"
  <2>1. CASE Resolve
    BY <2>1, ResolveEffects
  <2>2. CASE Move
    BY <2>2, MoveEffects
  <2>3. CASE \/ CopyFails
             \/ FinStep("validated") /\ ~Valid(fin.path, fin.d) /\ Goto("mark_failed") /\ FilesStay /\ UNCHANGED <<row, active, journal, left>>
    BY <2>3, PlainEffects
  <2>4. CASE ReplaceTarget
    BY <2>4, ReplaceEffects
  <2>5. CASE Unlink \/ Clean
    BY <2>5, UnlinkEffects
  <2>6. CASE Forget
    BY <2>6, ForgetEffects
  <2> QED BY <2>1, <2>2, <2>3, <2>4, <2>5, <2>6
<1>2. fin.at \in Working /\ RowsHeld' /\ ActiveHeld' /\ ClientHeld' /\ RecordsHeld'
  <2>1. fin.at \in Working
    BY <1>1 DEF Working, Moving, Cleaning
  <2>2. RowsHeld'
    BY <1>1, RowsStayHeld
  <2>3. ActiveHeld'
    BY <1>1, ActiveStaysHeld
  <2>4. ClientHeld'
    BY <1>1, ClientStaysHeld DEF ClientHeld, HeldStays
  <2>5. RecordsHeld'
    BY <1>1, RecordsStayHeld
  <2> QED BY <2>1, <2>2, <2>3, <2>4, <2>5
<1>3. FinHeld'
  <2>1. /\ fin'.path = fin.path \/ fin'.at \notin Found \cup Filed
        /\ fin'.at \in Found => fin.at \in Found
        /\ fin'.at \in {"resolve", "save"} => fin.at \in {"resolve", "save"}
        /\ fin'.at \in Filed => fin.at \in Filed
        /\ fin'.at \in Late => fin.at \in Late
    BY <1>1 DEF Found, Filed, Late, Cleaning
  <2> QED BY <1>1, <1>2, <2>1, FinStaysHeld
<1> QED BY <1>2, <1>3

\* The steps that write the record: it keeps its path from Save on.
LEMMA RecordsDeliver ==
    ASSUME PathsAreHeld, PlaceInv, MediaTypeOK, HeldStays, misfiled \subseteq misfiled',
           \/ Save \/ Begin \/ Committed \/ Pending \/ MarkFailed
           \/ Valid(fin.path, fin.d) /\ UpdatePhase("validated", "validated", "subtitles")
    PROVE  PathsAreHeld'
<1> USE DEF PathsAreHeld
<1>1. CASE Save
  <2>1. /\ fin.at = "save" /\ fin'.at = "begin" /\ fin'.d = fin.d /\ fin'.final = fin.final /\ fin'.path = fin.path
        /\ UNCHANGED <<row, active, client>>
        /\ \A d \in Delivery : d # fin.d => journal'[d] = journal[d]
        /\ journal'[fin.d].phase = "none" \/ journal'[fin.d].path = fin.path \/ FinJob \in misfiled'
        /\ \/ journal'[fin.d] = journal[fin.d]
           \/ journal'[fin.d].path = fin.path /\ journal'[fin.d].phase \in {"prepared", journal[fin.d].phase}
    BY <1>1, SaveEffects
  <2>2. fin.path \in Path /\ fin.at \in Working /\ fin.d \in Delivery
    BY <2>1, WorkingTyped DEF PlaceInv, PathChosen, Working, Moving
  <2>3. journal[fin.d].phase \notin Later /\ "prepared" \notin Later
    BY <2>1, <2>2 DEF FinHeld, Later
  <2>4. RecordsHeld'
    <3>1. \A d \in Delivery : journal'[d] = journal[d] \/ (journal'[d].path \in Path /\ journal'[d].phase \notin Later)
      BY <2>1, <2>2, <2>3
    <3> QED BY <3>1, RecordsStayHeld
  <2>5. FinHeld'
    <3>1. "begin" \notin Found /\ "begin" \notin Late /\ "begin" \notin {"resolve", "save"}
      BY DEF Found, Late, Cleaning
    <3> QED BY <2>1, <2>2, <3>1, FinStaysHeld
  <2>6. RowsHeld' /\ ActiveHeld'
    BY <2>1, RowsStayHeld, ActiveStaysHeld
  <2>7. ClientHeld'
    BY <2>1, ClientStaysHeld DEF ClientHeld
  <2> QED BY <2>4, <2>5, <2>6, <2>7
<1>2. CASE \/ Begin \/ Committed \/ Pending \/ MarkFailed
           \/ Valid(fin.path, fin.d) /\ UpdatePhase("validated", "validated", "subtitles")
  <2>1. /\ fin'.d = fin.d /\ fin'.path = fin.path /\ fin'.final = fin.final
        /\ UNCHANGED <<row, active, client, dest, attempt>>
        /\ \A d \in Delivery : d # fin.d => journal'[d] = journal[d]
        /\ \E p \in Phase :
             /\ \/ fin.at = "begin" /\ p = "in_progress" /\ fin'.at = "move"
                \/ fin.at = "validated" /\ p = "validated" /\ fin'.at = "subtitles" /\ Valid(fin.path, fin.d)
                \/ fin.at = "committed" /\ p = "db_committed" /\ fin'.at = "forget"
                \/ fin.at = "pending" /\ p = "cleanup_pending" /\ fin'.at = "clean"
                \/ fin.at = "mark_failed" /\ p = "failed" /\ fin'.at = "fail"
             /\ \/ journal'[fin.d] = journal[fin.d]
                \/ journal[fin.d].phase # "none" /\ journal'[fin.d] = [phase |-> p, path |-> journal[fin.d].path]
    BY <1>2, RecordEffects
  <2>2. fin.at \in Working /\ fin.d \in Delivery /\ FinJob \in Job /\ FinJob = fin.d[1] /\ FinJob' = FinJob
    BY <1>2, <2>1, WorkingTyped, RecordEffects DEF FinJob
  <2>r. \/ journal'[fin.d] = journal[fin.d]
        \/ /\ journal[fin.d].phase # "none" /\ journal'[fin.d].path = journal[fin.d].path
           /\ journal'[fin.d].phase \in Later => fin.at \in {"committed", "pending"}
    BY <2>1 DEF Later
  <2>3. RecordsHeld'
    <3>1. ASSUME journal[fin.d].phase # "none", fin.at \in {"committed", "pending"}, journal'[fin.d].path = journal[fin.d].path
          PROVE  Held(FinJob, journal[fin.d].path)'
      <4>1. Held(FinJob, journal[fin.d].path) /\ journal[fin.d].path \in Path
        BY <2>2, <3>1 DEF FinHeld, Late, Cleaning, Held
      <4>2. PICK p \in Path : p = journal[fin.d].path /\ p = journal'[fin'.d].path
        BY <2>1, <3>1, <4>1
      <4>3. Held(FinJob, p)
        BY <4>1, <4>2 DEF Held
      <4>4. Held(FinJob, p)'
        BY <2>2, <4>3 DEF HeldStays, Held
      <4> QED BY <4>2, <4>4 DEF Held
    <3>2. journal[fin.d].phase # "none" => journal[fin.d].path \in Path
      BY <2>2 DEF RecordsHeld
    <3>3. ASSUME NEW d \in Delivery
          PROVE  \/ journal'[d] = journal[d] \/ journal'[d].phase = "none"
                 \/ /\ journal'[d].path \in Path
                    /\ journal'[d].phase \in Later => Held(d[1], journal[d].path)'
      <4>1. CASE d # fin.d
        BY <2>1, <4>1
      <4>2. CASE d = fin.d
        BY <2>r, <2>1, <2>2, <3>1, <3>2, <4>2 DEF Held
      <4> QED BY <4>1, <4>2
    <3> QED BY <3>3, RecordsStayHeld
  <2>4. FinHeld'
    <3>1. ASSUME fin.at = "validated", fin'.at = "subtitles", Valid(fin.path, fin.d)
          PROVE  /\ Held(FinJob, fin.path)'
                 /\ journal'[fin.d].phase # "none" => Held(FinJob, journal[fin.d].path)'
      <4>1. fin.path \in Path /\ dest[fin.path] = fin.d /\ fin.d[2] <= attempt[FinJob] /\ fin.d = <<fin.d[1], fin.d[2]>> /\ fin.d[2] \in Nat \ {0}
        <5>1. fin.path \in Path \cup {NoPath} /\ fin.d = <<fin.d[1], fin.d[2]>> /\ fin.d[2] \in 1 .. MaxAttempts
          BY <2>2, TypesKnown DEF FinTypes
        <5>2. fin.d[2] <= attempt[FinJob]
          BY <2>2 DEF PlaceInv, WorkInv, FilesHaveDownloads
        <5> QED BY <3>1, <5>1, <5>2 DEF Valid
      <4>2. fin.d \in {FinJob} \X (1 .. attempt[FinJob])
        BY <2>2, <4>1, TypesKnown
      <4>3. Held(FinJob, fin.path)'
        BY <2>1, <2>2, <4>1, <4>2 DEF Held
      <4>4. journal'[fin.d].phase # "none" => Held(FinJob, journal[fin.d].path)'
        <5> SUFFICES ASSUME journal[fin.d].phase # "none", journal'[fin.d].path = journal[fin.d].path
                     PROVE  Held(FinJob, journal[fin.d].path)'
          BY <2>r
        <5>1. journal[fin.d].path = fin.path \/ FinJob \in misfiled
          BY <2>2, <3>1 DEF FinHeld, Filed
        <5>2. journal[fin.d].path \in Path
          BY <2>2 DEF RecordsHeld
        <5> QED BY <2>1, <2>2, <4>3, <5>1, <5>2 DEF Held
      <4> QED BY <4>3, <4>4
    <3>2. /\ fin'.at \in Found => fin.at = "validated" /\ fin'.at = "subtitles" /\ Valid(fin.path, fin.d)
          /\ fin'.at \notin {"resolve", "save"}
          /\ fin'.at \in Filed => fin.at \in Filed
          /\ fin'.at \in Late => fin.at \in Late \/ (fin.at = "validated" /\ fin'.at = "subtitles" /\ Valid(fin.path, fin.d))
      BY <2>1 DEF Found, Filed, Late, Cleaning
    <3>3. /\ fin'.at \in Found => Held(FinJob, fin.path)'
          /\ fin'.at \in Late /\ journal'[fin.d].phase # "none" => fin.at \in Late \/ Held(FinJob, journal[fin.d].path)'
      BY <3>1, <3>2
    <3>4. fin'.at \in Filed /\ journal'[fin.d].phase # "none" =>
              fin.at \in Filed /\ journal'[fin.d].path = journal[fin.d].path /\ journal[fin.d].phase # "none"
      BY <2>r, <3>2
    <3> QED BY <2>1, <2>2, <2>r, <3>2, <3>3, <3>4, FinStaysHeld
  <2>6. RowsHeld' /\ ActiveHeld'
    BY <2>1, RowsStayHeld, ActiveStaysHeld
  <2>7. ClientHeld'
    BY <2>1, ClientStaysHeld DEF ClientHeld
  <2> QED BY <2>3, <2>4, <2>6, <2>7
<1> QED BY <1>1, <1>2

\* The steps that tell the job its path.
LEMMA CommitsDeliver ==
    ASSUME PathsAreHeld, MediaTypeOK, HeldStays, misfiled \subseteq misfiled', Subtitles \/ Commit \/ Recommit
    PROVE  PathsAreHeld'
<1> USE DEF PathsAreHeld
<1>1. /\ fin.at \in Found /\ fin.at \in Working /\ fin'.d = fin.d /\ fin'.path = fin.path /\ fin'.final \in {fin.final, fin.path}
      /\ fin'.at \in {"commit", "mark_failed", "committed", "not_committed", "pending"} /\ (fin'.at \in Found => fin'.at = "commit")
      /\ UNCHANGED <<client, journal>>
  BY SubtitlesEffects, CommitEffects, RecommitEffects DEF Found, Working, Moving
<1>2. FinJob \in Job /\ fin.d \in Delivery /\ FinJob' = FinJob
  BY <1>1, WorkingTyped DEF FinJob
<1>3. PICK p \in Path : p = fin.path /\ Held(FinJob, p)
  BY <1>1, <1>2 DEF FinHeld, Held
<1>4. PICK j \in Job : j = FinJob
  BY <1>2
<1>5. Held(j, p)'
  <2>1. Held(j, p)
    BY <1>3, <1>4 DEF Held
  <2> QED BY <2>1 DEF HeldStays
<1>6. RowsHeld'
  <2>1. \A k \in Job : row'[k] = row[k] \/ (k = j /\ row'[k].final = p)
    <3>1. CASE Subtitles
      BY <3>1, SubtitlesEffects
    <3>2. CASE Commit
      BY <3>2, <1>3, <1>4, CommitEffects
    <3>3. CASE Recommit
      BY <3>3, <1>3, <1>4, RecommitEffects
    <3> QED BY <3>1, <3>2, <3>3
  <2>2. \A k \in Job : row'[k] = row[k] \/ Held(k, row[k].final)'
    BY <1>5, <2>1 DEF Held
  <2> QED BY <2>2, RowsStayHeld
<1>7. ActiveHeld'
  <2>1. \A k \in Job : active'[k] = active[k] \/ (k = j /\ active'[k] = p)
    <3>1. CASE Subtitles
      BY <3>1, <1>3, <1>4, TypesKnown, SubtitlesEffects DEF ActiveTypes
    <3>2. CASE Commit \/ Recommit
      BY <3>2, CommitEffects, RecommitEffects
    <3> QED BY <3>1, <3>2
  <2>2. \A k \in Job : active'[k] = active[k] \/ Held(k, active[k])'
    BY <1>5, <2>1 DEF Held
  <2> QED BY <2>2, ActiveStaysHeld
<1>8. ClientHeld'
  BY <1>1, ClientStaysHeld DEF ClientHeld
<1>9. RecordsHeld'
  BY <1>1, RecordsStayHeld
<1>10. FinHeld'
  <2>1. fin'.final = fin.final \/ Held(FinJob, fin.final)'
    BY <1>1, <1>2, <1>3, <1>4, <1>5 DEF Held
  <2>2. fin.at \in Late /\ fin'.at \notin {"resolve", "save"} /\ fin'.at \notin Filed
    BY <1>1 DEF Late, Filed
  <2> QED BY <1>1, <1>2, <2>1, <2>2, FinStaysHeld
<1> QED BY <1>6, <1>7, <1>8, <1>9, <1>10

\* The end of a move.
LEMMA EndsDeliver ==
    ASSUME PathsAreHeld, MediaTypeOK, HeldStays, misfiled \subseteq misfiled', NotCommitted \/ Complete \/ FailJob
    PROVE  PathsAreHeld'
<1> USE DEF PathsAreHeld
<1>1. /\ fin.at \in {"not_committed", "complete", "fail"} /\ fin.at \in Working /\ fin' = Done /\ fin'.at \notin Working
      /\ UNCHANGED client /\ \A j \in Job : active'[j] \in {active[j], Untracked}
  BY EndRecordEffects, FailEffects, DoneEffects DEF Working, Moving, Cleaning
<1>2. FinJob \in Job /\ fin.d \in Delivery /\ FinJob = fin.d[1]
  BY <1>1, WorkingTyped DEF FinJob
<1>3. FinHeld' /\ ActiveHeld' /\ ClientHeld'
  BY <1>1, FinStaysQuiet, ActiveStaysHeld, ClientStaysHeld DEF ClientHeld
<1>4. CASE NotCommitted \/ Complete
  <2>1. /\ UNCHANGED row /\ \A d \in Delivery : d # fin.d => journal'[d] = journal[d]
        /\ \/ journal'[fin.d] = journal[fin.d]
           \/ /\ journal[fin.d].phase # "none" /\ journal'[fin.d].path = journal[fin.d].path
              /\ journal'[fin.d].phase = IF fin.at = "complete" THEN "complete" ELSE "failed"
    BY <1>4, EndRecordEffects
  <2>2. ASSUME NEW d \in Delivery, d = fin.d, journal'[d] # journal[d]
        PROVE  /\ journal'[d].path \in Path
               /\ journal'[d].phase \in Later => Held(d[1], journal[d].path)'
    <3>1. PICK p \in Path : p = journal[fin.d].path /\ p = journal'[d].path
      BY <1>2, <2>1, <2>2 DEF RecordsHeld
    <3>2. ASSUME journal'[d].phase \in Later PROVE Held(d[1], journal[d].path)'
      <4>1. Held(FinJob, p)
        BY <1>2, <2>1, <2>2, <3>1, <3>2 DEF FinHeld, Late, Cleaning, Later, Held, Working
      <4>2. Held(d[1], p)
        BY <1>2, <2>2, <4>1 DEF Held
      <4>3. Held(d[1], p)'
        BY <1>2, <2>2, <4>2 DEF HeldStays
      <4> QED BY <3>1, <4>3 DEF Held
    <3> QED BY <3>1, <3>2
  <2>3. RecordsHeld'
    BY <2>1, <2>2, RecordsStayHeld
  <2>4. RowsHeld'
    BY <2>1, RowsStayHeld
  <2> QED BY <1>3, <2>3, <2>4
<1>5. CASE FailJob
  <2>1. /\ UNCHANGED journal /\ \A j \in Job : j # FinJob => row'[j] = row[j]
        /\ \/ row'[FinJob] = row[FinJob]
           \/ row'[FinJob].status = "failed" /\ row'[FinJob].final = fin.final
    BY <1>5, FailEffects
  <2>2. ASSUME NEW j \in Job, row'[j] # row[j], row'[j].final # NoPath PROVE Held(j, row[j].final)'
    <3>1. PICK p \in Path : p = fin.final /\ p = row'[j].final
      BY <1>1, <2>1, <2>2, WorkingTyped
    <3>2. Held(j, p)
      BY <1>1, <2>1, <2>2, <3>1 DEF FinHeld, Held
    <3>3. Held(j, p)'
      BY <3>2 DEF HeldStays
    <3> QED BY <3>1, <3>3 DEF Held
  <2>3. RowsHeld'
    BY <2>1, <2>2, RowsStayHeld
  <2>4. RecordsHeld'
    BY <2>1, RecordsStayHeld
  <2> QED BY <1>3, <2>3, <2>4
<1> QED BY <1>4, <1>5

LEMMA PollDelivers ==
    ASSUME PathsAreHeld, MediaTypeOK, HeldStays, misfiled \subseteq misfiled', NEW j \in Job, UpdateJobFromEngine(j)
    PROVE  PathsAreHeld'
<1> USE DEF PathsAreHeld
<1>0. fin.at = "idle" /\ active[j] # Untracked /\ active[j] \in Path \cup {NoPath} /\ UNCHANGED client
  BY PollEffects
<1>c. ClientHeld'
  BY <1>0, ClientStaysHeld DEF ClientHeld
<1>1. CASE StartFinalizing(j) /\ UNCHANGED <<row, active>>
  <2>1. /\ fin'.at = "resolve" /\ fin'.d = Current(j) /\ fin'.final = NoPath
        /\ \A d \in Delivery : d # Current(j) => journal'[d] = journal[d]
        /\ journal'[Current(j)].phase = "none"
    BY <1>1, StartEffects
  <2>2. FinHeld'
    BY <2>1 DEF FinHeld, Found, Filed, Late, Later, Cleaning
  <2>3. RecordsHeld'
    <3>1. \A d \in Delivery : journal'[d] = journal[d] \/ journal'[d].phase = "none"
      BY <2>1
    <3> QED BY <3>1, RecordsStayHeld
  <2> QED BY <1>1, <1>c, <2>2, <2>3, RowsStayHeld, ActiveStaysHeld
<1>2. ASSUME NEW st \in {"completed", "failed", "cancelled"}, NEW f \in Path \cup {NoPath}, NEW clean \in BOOLEAN,
             EndJob(j, st, f, clean), UNCHANGED <<fin, journal>>,
             f \in {NoPath, active[j]}, st = "completed" => f # NoPath
      PROVE  PathsAreHeld'
  <2>1. /\ UNCHANGED <<dest, policy, device>>
        /\ \A k \in Job : k # j => row'[k] = row[k] /\ active'[k] = active[k] /\ engine'[k] = engine[k] /\ staging'[k] = staging[k]
        /\ \/ UNCHANGED <<row, active, engine, staging>>
           \/ /\ active'[j] = Untracked /\ engine'[j] = "unknown"
              /\ row'[j] = IF row[j].status = "deleted" THEN row[j] ELSE [status |-> st, final |-> f]
              /\ staging'[j] = IF clean THEN Nothing ELSE staging[j]
    BY <1>2, EndEffects
  <2>2. ASSUME f # NoPath PROVE Held(j, f)'
    <3>1. f \in Path /\ f = active[j]
      BY <1>2, <2>2
    <3>2. Held(j, f)
      BY <3>1 DEF ActiveHeld, Held
    <3> QED BY <3>1, <3>2 DEF HeldStays
  <2>3. RowsHeld'
    <3>1. ASSUME NEW k \in Job, row'[k] # row[k]
          PROVE  (row'[k].status # "completed" /\ row'[k].final = NoPath) \/ Held(k, row[k].final)'
      <4>1. k = j /\ row'[k].status = st /\ row'[k].final = f
        BY <2>1, <3>1
      <4>2. CASE f = NoPath
        BY <1>2, <4>1, <4>2
      <4>3. CASE f # NoPath
        BY <2>2, <4>1, <4>3 DEF Held
      <4> QED BY <4>2, <4>3
    <3> QED BY <3>1, RowsStayHeld
  <2>4. ActiveHeld'
    <3>1. \A k \in Job : active'[k] \in {active[k], Untracked}
      BY <2>1
    <3> QED BY <3>1, ActiveStaysHeld
  <2>5. RecordsHeld' /\ FinHeld'
    BY <1>2, RecordsStayHeld, FinStaysQuiet
  <2> QED BY <1>c, <2>3, <2>4, <2>5
<1> QED BY <1>1, <1>2, PollEffects

\* The recovery takes up a record.
LEMMA ReconcileDelivers ==
    ASSUME PathsAreHeld, WorkInv, HeldStays, misfiled \subseteq misfiled', NEW d \in Delivery, Reconcile(d)
    PROVE  PathsAreHeld'
<1> USE DEF PathsAreHeld
<1>t. MediaTypeOK
  BY DEF WorkInv
<1>1. /\ fin'.d = d /\ FinJob' = d[1] /\ fin'.path = journal[d].path /\ fin'.final = row[d[1]].final /\ d \in todo
      /\ fin'.at \in {"resolve", "validated", "subtitles", "recommit", "pending", "mark_failed"}
      /\ fin'.at = "resolve" => journal[d].phase \in {"prepared", "in_progress", "validated"}
      /\ fin'.at = "subtitles" => Valid(journal[d].path, d)
      /\ fin'.at = "recommit" => journal[d].phase = "db_committed"
      /\ fin'.at = "pending" => journal[d].phase = "cleanup_pending"
      /\ UNCHANGED <<row, active, journal, client>>
  BY ReconcileEffects
<1>2. RowsHeld' /\ ActiveHeld' /\ RecordsHeld'
  BY <1>t, <1>1, RowsStayHeld, ActiveStaysHeld, RecordsStayHeld
<1>3. ClientHeld'
  BY <1>t, <1>1, ClientStaysHeld DEF ClientHeld
<1>4. d[1] \in Job /\ d = <<d[1], d[2]>> /\ d[2] \in 1 .. attempt[d[1]]
  <2>1. d[1] \in Job /\ d = <<d[1], d[2]>> /\ d[2] \in 1 .. MaxAttempts /\ attempt[d[1]] \in 1 .. MaxAttempts
    BY <1>t, TypesKnown
  <2>2. d[2] <= attempt[d[1]]
    BY <1>1 DEF WorkInv, FilesHaveDownloads
  <2>3. MaxAttempts \in Nat
    BY DEF FileAssumptions
  <2> QED BY <2>1, <2>2, <2>3
<1>5. ASSUME row[d[1]].final # NoPath PROVE Held(FinJob, fin.final)'
  <2>1. PICK p \in Path : p = row[d[1]].final /\ p = fin'.final
    BY <1>1, <1>4, <1>5 DEF RowsHeld, Held
  <2>2. Held(d[1], p)
    BY <1>4, <1>5, <2>1 DEF RowsHeld, Held
  <2>3. Held(d[1], p)'
    BY <1>4, <2>2 DEF HeldStays
  <2> QED BY <1>1, <2>1, <2>3 DEF Held
<1>6. ASSUME fin'.at \in {"subtitles", "recommit", "pending"}
      PROVE  Held(FinJob, fin.path)' /\ Held(FinJob, journal[fin.d].path)'
  <2>1. PICK p \in Path : p = journal[d].path
    <3>1. journal[d].path \in Path \cup {NoPath} /\ journal[d].phase \in Phase
      BY <1>t, TypesKnown DEF JournalTypes
    <3>2. CASE fin'.at = "subtitles"
      BY <1>1, <3>1, <3>2 DEF Valid
    <3>3. CASE fin'.at \in {"recommit", "pending"}
      BY <1>1, <3>3 DEF RecordsHeld
    <3> QED BY <1>6, <3>2, <3>3
  <2>2. Held(d[1], p)
    <3>1. CASE fin'.at = "subtitles"
      <4>1. dest[p] = d
        BY <1>1, <2>1, <3>1 DEF Valid
      <4>2. d \in {d[1]} \X (1 .. attempt[d[1]])
        BY <1>4
      <4> QED BY <2>1, <4>1, <4>2 DEF Held
    <3>2. CASE fin'.at \in {"recommit", "pending"}
      BY <1>1, <2>1, <3>2 DEF RecordsHeld, Later, Held
    <3> QED BY <1>6, <3>1, <3>2
  <2>3. Held(d[1], p)'
    BY <1>4, <2>2 DEF HeldStays
  <2> QED BY <1>1, <2>1, <2>3 DEF Held
<1>7. FinHeld'
  BY <1>1, <1>5, <1>6 DEF FinHeld, Found, Filed, Late, Later, Cleaning
<1> QED BY <1>2, <1>3, <1>7

\* Whoever acts beside the monitor.
LEMMA OthersDeliver ==
    ASSUME PathsAreHeld, MediaTypeOK, HeldStays, misfiled \subseteq misfiled',
           \/ \E j \in Job : EngineEnds(j)
           \/ \E p \in Path : ForeignFile(p)
           \/ Crash \/ Restart \/ FailInterrupted \/ Sweep \/ CancelCleans \/ UNCHANGED vars
    PROVE  PathsAreHeld'
<1> USE DEF PathsAreHeld
<1>1. /\ UNCHANGED journal
      /\ \A j \in Job : row'[j] = row[j] \/ (row'[j].status # "completed" /\ row'[j].final = row[j].final)
      /\ \A j \in Job : active'[j] \in {active[j], Untracked}
      /\ client' = client \/ client'.at = "none"
      /\ fin' = fin \/ fin'.at \notin Working
  <2>1. ASSUME NEW j \in Job, EngineEnds(j) PROVE UNCHANGED <<row, active, journal, client, fin>>
    BY <2>1, EngineEffects
  <2>2. ASSUME NEW p \in Path, ForeignFile(p) PROVE UNCHANGED <<row, active, journal, client, fin>>
    BY <2>2, ForeignEffects
  <2>3. CASE Crash
    BY <2>3, CrashEffects DEF Working, Moving, Cleaning
  <2>4. CASE Restart
    BY <2>4, RestartEffects DEF Working, Moving, Cleaning
  <2>5. CASE FailInterrupted
    BY <2>5, InterruptedEffects DEF Working, Moving, Cleaning
  <2>6. CASE Sweep
    BY <2>6, SweepEffects DEF Working, Moving, Cleaning
  <2>7. CASE CancelCleans
    BY <2>7, CancelCleansEffects
  <2>8. CASE UNCHANGED vars
    BY <2>8 DEF vars, mediaVars
  <2> QED BY <2>1, <2>2, <2>3, <2>4, <2>5, <2>6, <2>7, <2>8
<1>2. ClientHeld'
  BY <1>1, ClientStaysHeld DEF ClientHeld
<1> QED BY <1>1, <1>2, RowsStayHeld, ActiveStaysHeld, RecordsStayHeld, FinStaysQuiet

\* A client takes a path from the row, and gives it back.
LEMMA ClientsDeliver ==
    ASSUME PathsAreHeld, MediaTypeOK, HeldStays, misfiled \subseteq misfiled', ClientSteps, ~CancelCleans
    PROVE  PathsAreHeld'
<1> USE DEF PathsAreHeld
<1>f. UNCHANGED fin /\ \A d \in Delivery : journal'[d] = journal[d] \/ journal'[d].phase = "none"
  <2>1. CASE \E j \in Job : CancelBegins(j) \/ Retry(j) \/ DeleteFiles(j)
    BY <2>1, CancelBeginsEffects, RetryEffects, DeleteFilesEffects
  <2>2. CASE CancelWrites
    BY <2>2, CancelWritesEffects
  <2>3. CASE DeleteRows
    BY <2>3, DeleteRowsEffects DEF NoRecord
  <2> QED BY <2>1, <2>2, <2>3 DEF ClientSteps
<1>g. RecordsHeld' /\ FinHeld'
  BY <1>f, RecordsStayHeld, FinStaysQuiet
<1>r. ASSUME NEW j \in Job, row[j].final # NoPath PROVE row[j].final \in Path /\ \A p \in Path : p = row[j].final => Held(j, p)'
  <2>1. Held(j, row[j].final)
    BY <1>r DEF RowsHeld
  <2> QED BY <2>1 DEF HeldStays, Held
<1>1. ASSUME NEW j \in Job, CancelBegins(j) \/ DeleteFiles(j) PROVE PathsAreHeld'
  <2>1. UNCHANGED <<row, active>> /\ client'.job = j /\ client'.final = row[j].final
    BY <1>1, CancelBeginsEffects, DeleteFilesEffects
  <2>2. ClientHeld'
    BY <1>r, <2>1 DEF ClientHeld, Held
  <2> QED BY <1>g, <2>1, <2>2, RowsStayHeld, ActiveStaysHeld
<1>2. ASSUME NEW j \in Job, Retry(j) PROVE PathsAreHeld'
  <2>1. /\ \A k \in Job : k # j => row'[k] = row[k] /\ active'[k] = active[k]
        /\ row'[j].status = "downloading" /\ row'[j].final = row[j].final /\ active'[j] = row[j].final /\ UNCHANGED client
    BY <1>2, RetryEffects
  <2>2. RowsHeld'
    <3>1. \A k \in Job : row'[k] = row[k] \/ (row'[k].status # "completed" /\ row'[k].final \in {row[k].final, NoPath})
      BY <2>1
    <3> QED BY <3>1, RowsStayHeld
  <2>3. ActiveHeld'
    <3>1. ASSUME NEW k \in Job PROVE active'[k] \in {active[k], NoPath} \/ Held(k, active[k])'
      BY <1>r, <2>1, <3>1 DEF Held
    <3> QED BY <3>1, ActiveStaysHeld
  <2>4. ClientHeld'
    BY <2>1, ClientStaysHeld DEF ClientHeld
  <2> QED BY <1>g, <2>2, <2>3, <2>4
<1>3. CASE CancelWrites
  <2>1. /\ client.at = "cancel" /\ client.job \in Job /\ client.final \in Path \cup {NoPath}
        /\ \A j \in Job : j # client.job => row'[j] = row[j]
        /\ \A j \in Job : active'[j] \in {active[j], Untracked}
        /\ \/ row'[client.job] = row[client.job]
           \/ row'[client.job].status = "cancelled" /\ row'[client.job].final = client.final
        /\ \/ client'.at = "none"
           \/ client'.job = client.job /\ client'.final = client.final
    BY <1>3, CancelWritesEffects
  <2>2. RowsHeld'
    <3>1. ASSUME NEW j \in Job, row'[j] # row[j], row'[j].final # NoPath PROVE Held(j, row[j].final)'
      <4>1. PICK p \in Path : p = client.final /\ p = row'[j].final
        BY <2>1, <3>1
      <4>2. Held(j, p)
        BY <2>1, <3>1, <4>1 DEF ClientHeld, Held
      <4>3. Held(j, p)'
        BY <4>2 DEF HeldStays
      <4> QED BY <4>1, <4>3 DEF Held
    <3> QED BY <2>1, <3>1, RowsStayHeld
  <2>3. ClientHeld'
    BY <2>1, ClientStaysHeld
  <2>4. ActiveHeld'
    BY <2>1, ActiveStaysHeld
  <2> QED BY <1>g, <2>2, <2>3, <2>4
<1>4. CASE DeleteRows
  <2>1. /\ client'.at = "none" /\ client.job \in Job
        /\ \A j \in Job : row'[j] = row[j] \/ (row'[j].status # "completed" /\ row'[j].final = row[j].final)
        /\ \A j \in Job : active'[j] \in {active[j], Untracked}
    BY <1>4, DeleteRowsEffects
  <2>2. ClientHeld'
    BY <2>1, ClientStaysHeld
  <2> QED BY <1>g, <2>1, <2>2, RowsStayHeld, ActiveStaysHeld
<1> QED BY <1>1, <1>2, <1>3, <1>4 DEF ClientSteps

LEMMA DeliveryHolds == MediaInit => DeliveryInv
<1> SUFFICES ASSUME MediaInit PROVE DeliveryInv
  OBVIOUS
<1>1. /\ \A j \in Job : row[j].final = NoPath /\ row[j].status # "completed"
      /\ \A d \in Delivery : journal[d].phase = "none"
      /\ fin.at = "idle" /\ client.at = "none" /\ \A j \in Job : active[j] \notin Path
  BY DEF MediaInit, NoRecord, Idle, NoClient, NoPath, Untracked, Path
<1>2. PathsAreHeld
  BY <1>1 DEF PathsAreHeld, RowsHeld, ActiveHeld, ClientHeld, RecordsHeld, FinHeld, Later, Working, Moving, Cleaning
<1> QED BY <1>2, PlaceHolds DEF DeliveryInv

LEMMA DeliveryStays == DeliveryInv /\ [MediaNext]_vars => DeliveryInv'
<1> SUFFICES ASSUME DeliveryInv, [MediaNext]_vars PROVE DeliveryInv'
  OBVIOUS
<1>1. PlaceInv /\ PlaceInv' /\ WorkInv /\ MediaTypeOK /\ MediaTypeOK' /\ PathsAreHeld
  BY PlaceStays DEF DeliveryInv, PlaceInv, WorkInv
<1>2. HeldStays /\ misfiled \subseteq misfiled'
  BY <1>1, HeldKept
<1>3. CASE UNCHANGED vars \/ (\E j \in Job : EngineEnds(j)) \/ (\E p \in Path : ForeignFile(p)) \/ Crash \/ Restart
  BY <1>1, <1>2, <1>3, OthersDeliver DEF DeliveryInv
<1>4. ASSUME NEW j \in Job, UpdateJobFromEngine(j) PROVE DeliveryInv'
  BY <1>1, <1>2, <1>4, PollDelivers DEF DeliveryInv
<1>5. CASE FinalizationSteps
  <2>1. CASE \/ Resolve \/ Move \/ CopyFails \/ ReplaceTarget \/ Unlink \/ Clean \/ Forget
             \/ FinStep("validated") /\ ~Valid(fin.path, fin.d) /\ Goto("mark_failed") /\ FilesStay /\ UNCHANGED <<row, active, journal, left>>
    BY <1>1, <1>2, <2>1, MovesDeliver DEF DeliveryInv
  <2>2. CASE \/ Save \/ Begin \/ Committed \/ Pending \/ MarkFailed
             \/ Valid(fin.path, fin.d) /\ UpdatePhase("validated", "validated", "subtitles")
    BY <1>1, <1>2, <2>2, RecordsDeliver DEF DeliveryInv
  <2>3. CASE Subtitles \/ Commit
    BY <1>1, <1>2, <2>3, CommitsDeliver DEF DeliveryInv
  <2>4. CASE NotCommitted \/ Complete \/ FailJob
    BY <1>1, <1>2, <2>4, EndsDeliver DEF DeliveryInv
  <2> QED BY <1>1, <1>5, <2>1, <2>2, <2>3, <2>4 DEF FinalizationSteps, Validated, DeliveryInv
<1>6. CASE RecoverySteps
  <2>1. ASSUME NEW d \in Delivery, Reconcile(d) PROVE PathsAreHeld'
    BY <1>1, <1>2, <2>1, ReconcileDelivers
  <2>2. CASE Recommit
    BY <1>1, <1>2, <2>2, CommitsDeliver DEF DeliveryInv
  <2>3. CASE FailInterrupted \/ Sweep
    BY <1>1, <1>2, <2>3, OthersDeliver DEF DeliveryInv
  <2> QED BY <1>1, <1>6, <2>1, <2>2, <2>3 DEF RecoverySteps, DeliveryInv
<1>7. CASE ClientSteps
  BY <1>1, <1>2, <1>7, ClientsDeliver, OthersDeliver DEF DeliveryInv
<1> QED BY <1>3, <1>4, <1>5, <1>6, <1>7 DEF MediaNext

\* A COMPLETED job names a path with a file of its own, although its record, its row,
\* the monitor's copy and a client's may each have been written at another time.
THEOREM CompletedJobsHaveTheirFile == MediaSpec => []CompletedIsDelivered
<1>1. DeliveryInv => CompletedIsDelivered
  <2> SUFFICES ASSUME DeliveryInv, NEW j \in Job, row[j].status = "completed"
               PROVE  /\ row[j].final # NoPath
                      /\ \/ dest[row[j].final] \in {j} \X (1 .. attempt[j])
                         \/ row[j].final \in removed \/ j \in misfiled
                         \/ \E k \in Job : policy[k] = "overwrite"
    BY DEF CompletedIsDelivered
  <2> QED BY DEF DeliveryInv, PathsAreHeld, RowsHeld, Held
<1>2. MediaInit => DeliveryInv
  BY DeliveryHolds
<1>3. DeliveryInv /\ [MediaNext]_vars => DeliveryInv'
  BY DeliveryStays
<1> QED BY <1>1, <1>2, <1>3, PTL DEF MediaSpec
------------------------------------------------------------------------------
\* Who fails has no file.

\* No file appears at a destination.
Shrinks == \A d \in Delivery, p \in Path : dest'[p] = d => dest[p] = d

LEMMA RowsStayEmpty ==
    ASSUME RowsEmpty, MediaTypeOK, Shrinks, UNCHANGED attempt,
           \A j \in Job :
              /\ row'[j].status = "failed" => row[j].status = "failed" \/ NoCopies(Current(j))
              /\ active'[j] = NoPath => \/ active[j] = NoPath /\ ~(fin.at \in Placing /\ FinJob = j)
                                        \/ fin'.at \in Placing /\ FinJob' = j
                                        \/ NoCopies(Current(j))
              /\ row'[j].status = "downloading" =>
                    /\ row[j].status = "downloading"
                    /\ journal'[Current(j)] = journal[Current(j)] \/ NoCopies(Current(j)) \/ journal'[Current(j)].phase \in Placed
    PROVE  RowsEmpty'
<1> SUFFICES ASSUME NEW j \in Job
             PROVE  /\ row'[j].status = "failed" => NoCopies(Current(j))'
                    /\ active'[j] = NoPath => NoCopies(Current(j))' \/ (fin'.at \in Placing /\ FinJob' = j)
                    /\ row'[j].status = "downloading" => NoCopies(Current(j))' \/ journal'[Current(j)'].phase \in Placed
  BY DEF RowsEmpty
<1>1. Current(j)' = Current(j) /\ Current(j) \in Delivery
  BY CurrentIsDelivery DEF Current
<1>2. NoCopies(Current(j)) => NoCopies(Current(j))'
  BY <1>1 DEF NoCopies, Shrinks
<1>3. /\ row[j].status = "failed" => NoCopies(Current(j))
      /\ active[j] = NoPath => NoCopies(Current(j)) \/ (fin.at \in Placing /\ FinJob = j)
      /\ row[j].status = "downloading" => NoCopies(Current(j)) \/ journal[Current(j)].phase \in Placed
  BY DEF RowsEmpty
<1> QED BY <1>1, <1>2, <1>3

LEMMA RecordsStayEmpty ==
    ASSUME RecordsEmpty, MediaTypeOK, Shrinks,
           \A d \in Delivery :
              \/ journal'[d] = journal[d]
              \/ journal'[d].phase \notin {"prepared"} \cup Placed
              \/ NoCopies(d)
              \/ journal'[d].phase \in Placed /\ journal[d].phase \in Begun /\ journal'[d].path = journal[d].path
              \/ journal'[d].phase \in Placed /\ \A p \in Path : dest[p] = d => p = journal'[d].path
    PROVE  RecordsEmpty'
<1> SUFFICES ASSUME NEW d \in Delivery
             PROVE  /\ journal'[d].phase = "prepared" => NoCopies(d)'
                    /\ journal'[d].phase \in Placed => \A p \in Path : dest'[p] = d => p = journal'[d].path
  BY DEF RecordsEmpty
<1>1. NoCopies(d) => NoCopies(d)'
  BY DEF NoCopies, Shrinks
<1>2. /\ journal[d].phase = "prepared" => NoCopies(d)
      /\ journal[d].phase \in Placed => \A p \in Path : dest[p] = d => p = journal[d].path
  BY DEF RecordsEmpty
<1> QED BY <1>1, <1>2 DEF NoCopies, Shrinks, Placed, Begun

\* The monitor stands still while others act.
LEMMA FinStaysEmpty ==
    ASSUME FinEmpty, MediaTypeOK, Shrinks, UNCHANGED fin, \A j \in Job : Exists(j)' => Exists(j),
           ~fin.live => \A j \in Job : staging[j] # Nothing => staging'[j] # Nothing
    PROVE  FinEmpty'
<1>1. CASE fin.at \notin {"resolve", "save", "begin", "move", "copied", "unlink", "validated", "mark_failed", "fail"}
  BY <1>1 DEF FinEmpty
<1>2. CASE fin.at \in {"resolve", "save", "begin", "move", "copied", "unlink", "validated", "mark_failed", "fail"}
  <2>1. fin.d \in Delivery /\ FinJob \in Job /\ FinJob' = FinJob
    BY <1>2, WorkingTyped DEF Working, Moving, FinJob
  <2>2. NoCopies(fin.d) => NoCopies(fin.d)'
    BY <2>1 DEF NoCopies, Shrinks
  <2>3. Exists(FinJob)' => Exists(FinJob)
    BY <2>1 DEF Exists
  <2>4. fin.at \in {"unlink", "validated"} => \A p \in Path : dest'[p] = fin.d => p = fin.path
    BY <2>1 DEF FinEmpty, Shrinks
  <2>5. ~fin.live /\ fin.at \in {"resolve", "save", "begin", "move", "copied"} => staging'[FinJob] # Nothing
    BY <2>1 DEF FinEmpty
  <2> QED BY <2>1, <2>2, <2>3, <2>4, <2>5 DEF FinEmpty
<1> QED BY <1>1, <1>2

\* The monitor or the recovery is at rest, or where nothing is asked of a file.
LEMMA FinIsElsewhere ==
    ASSUME fin'.at \notin {"resolve", "save", "begin", "move", "copied", "unlink", "validated", "mark_failed", "fail"}
    PROVE  FinEmpty'
BY DEF FinEmpty

\* What is known of the file that is being moved.
LEMMA MovedFile ==
    ASSUME Harmless, fin.at \in Working
    PROVE  /\ MediaTypeOK /\ fin.d \in Delivery /\ FinJob \in Job /\ FinJob = fin.d[1] /\ fin.d = Current(FinJob)
           /\ row[FinJob].status # "failed"
           /\ staging[FinJob] # Nothing => \A p \in Path : dest[p] = fin.d => policy[FinJob] = "overwrite" /\ p = 1
           /\ \A j \in Job : Current(j) = fin.d => j = FinJob
<1>1. MediaTypeOK /\ fin.d \in Delivery /\ FinJob \in Job /\ FinJob = fin.d[1]
  BY DeliveryFields DEF Harmless, WorkInv
<1>2. fin.d = Current(FinJob) /\ row[FinJob].status # "failed"
  BY DEF Harmless, JournalTrue, RecordIsKnown
<1>3. staging[FinJob] \in {Nothing, fin.d}
  BY <1>1, <1>2 DEF Harmless, WorkInv, FilesHaveDownloads
<1> QED BY <1>1, <1>2, <1>3 DEF Harmless, OnePlace, Current

\* A step of a move that puts no file anywhere.
LEMMA WorkStaysEmpty ==
    ASSUME Harmless, FailsEmpty, fin.at \in Working, fin'.d = fin.d, UNCHANGED <<dest, attempt, row>>,
           \A j \in Job : active'[j] \in {active[j], Untracked} \/ (j = FinJob /\ active'[j] # NoPath),
           fin.at \in Placing => fin'.at \in Placing \/ active'[FinJob] # NoPath \/ NoCopies(fin.d),
           \A d \in Delivery : d # fin.d => journal'[d] = journal[d],
           \/ journal'[fin.d] = journal[fin.d]
           \/ NoCopies(fin.d)
           \/ journal'[fin.d].phase \notin {"prepared"} \cup Placed /\ row[FinJob].status # "downloading"
           \/ journal'[fin.d].phase \in Placed /\ journal[fin.d].phase \in Begun /\ journal'[fin.d].path = journal[fin.d].path
           \/ journal'[fin.d].phase \in Placed /\ \A p \in Path : dest[p] = fin.d => p = journal'[fin.d].path
    PROVE  RowsEmpty' /\ RecordsEmpty'
<1>1. /\ MediaTypeOK /\ fin.d \in Delivery /\ FinJob \in Job /\ fin.d = Current(FinJob)
      /\ \A j \in Job : Current(j) = fin.d => j = FinJob
  BY MovedFile
<1>2. FinJob' = FinJob /\ Shrinks /\ NoPath # Untracked
  BY DEF FinJob, Shrinks, NoPath, Untracked
<1>3. RecordsEmpty'
  <2>1. ASSUME NEW d \in Delivery
        PROVE  \/ journal'[d] = journal[d]
               \/ journal'[d].phase \notin {"prepared"} \cup Placed
               \/ NoCopies(d)
               \/ journal'[d].phase \in Placed /\ journal[d].phase \in Begun /\ journal'[d].path = journal[d].path
               \/ journal'[d].phase \in Placed /\ \A p \in Path : dest[p] = d => p = journal'[d].path
    <3>1. CASE d # fin.d
      BY <3>1
    <3>2. CASE d = fin.d
      BY <3>2
    <3> QED BY <3>1, <3>2
  <2> QED BY <1>1, <1>2, <2>1, RecordsStayEmpty DEF FailsEmpty
<1>4. RowsEmpty'
  <2>1. ASSUME NEW j \in Job
        PROVE  /\ active'[j] = NoPath => \/ active[j] = NoPath /\ ~(fin.at \in Placing /\ FinJob = j)
                                         \/ fin'.at \in Placing /\ FinJob' = j
                                         \/ NoCopies(Current(j))
               /\ row'[j].status = "downloading" =>
                     journal'[Current(j)] = journal[Current(j)] \/ NoCopies(Current(j)) \/ journal'[Current(j)].phase \in Placed
    <3>1. CASE j = FinJob
      BY <1>1, <1>2, <3>1
    <3>2. CASE j # FinJob
      BY <1>1, <1>2, <3>2, CurrentIsDelivery
    <3> QED BY <3>1, <3>2
  <2> QED BY <1>1, <1>2, <2>1, RowsStayEmpty DEF FailsEmpty
<1> QED BY <1>3, <1>4

\* A move that is refused leaves no file.
LEMMA RefusedHasNone ==
    ASSUME Harmless, FailsEmpty, fin.at \in Working, policy[FinJob] # "overwrite", staging[FinJob] # Nothing
    PROVE  NoCopies(fin.d)
BY MovedFile DEF NoCopies

LEMMA MovesFailEmpty ==
    ASSUME Harmless, FailsEmpty, ~(left'.db < left.db), ~(left'.io < left.io),
           \/ Resolve \/ Save \/ Begin \/ Unlink \/ Clean \/ Subtitles \/ CopyFails
           \/ FinStep("validated") /\ ~Valid(fin.path, fin.d) /\ Goto("mark_failed") /\ FilesStay /\ UNCHANGED <<row, active, journal, left>>
           \/ Valid(fin.path, fin.d) /\ UpdatePhase("validated", "validated", "subtitles")
    PROVE  FailsEmpty'
<1> USE DEF FailsEmpty
<1>t. MediaTypeOK
  BY DEF Harmless, WorkInv
<1>m. fin.at \in Working =>
         /\ fin.d \in Delivery /\ FinJob \in Job /\ FinJob = fin.d[1] /\ fin.d = Current(FinJob)
         /\ row[FinJob].status # "failed"
         /\ staging[FinJob] # Nothing => \A p \in Path : dest[p] = fin.d => policy[FinJob] = "overwrite" /\ p = 1
  BY MovedFile
<1>j. Exists(FinJob) /\ fin.at \in Working => journal[fin.d].phase \in Phases(fin.at, fin.live)
  BY DEF Harmless, JournalTrue, RecordIsKnown
<1>d. fin.at \in Working /\ ~Exists(FinJob) => journal[fin.d].phase = "none"
  BY <1>m DEF Harmless, WorkInv, DeletedHaveNoRecord, Exists
<1>n. NoCopies(fin.d)' <=> \A p \in Path : dest'[p] # fin'.d
  BY DEF NoCopies
<1>1. CASE Resolve
  <2>1. /\ fin.at = "resolve" /\ fin'.d = fin.d /\ (fin'.live <=> fin.live) /\ UNCHANGED <<row, active, attempt, dest, staging, policy, journal>>
        /\ \/ fin'.at = "save"
           \/ fin.live /\ fin'.at = "fail"
           \/ ~fin.live /\ fin'.at = "mark_failed" /\ ResolveFinalPath(FinJob) = NoPath
    BY <1>t, <1>1, ResolveEffects DEF Resolve, Goto
  <2>2. fin.at \in Working /\ fin.at \notin Placing /\ FinJob' = FinJob /\ FinJob \in Job
    BY <2>1, <1>m DEF Working, Moving, Placing, FinJob
  <2>3. RowsEmpty' /\ RecordsEmpty'
    BY <2>1, <2>2, WorkStaysEmpty
  <2>4. ASSUME ~fin.live, fin'.at = "mark_failed" PROVE NoCopies(fin.d)
    <3>1. staging[FinJob] # Nothing
      BY <2>1, <2>4 DEF FinEmpty
    <3>2. policy[FinJob] # "overwrite"
      BY <2>1, <2>4 DEF ResolveFinalPath, NoPath
    <3> QED BY <2>2, <3>1, <3>2, RefusedHasNone
  <2>5. FinEmpty'
    BY <1>n, <2>1, <2>2, <2>4 DEF FinEmpty, NoCopies
  <2> QED BY <2>3, <2>5
<1>2. CASE Save
  <2>1. /\ fin.at = "save" /\ fin'.at = "begin" /\ fin'.d = fin.d /\ (fin'.live <=> fin.live) /\ fin'.path = fin.path
        /\ UNCHANGED <<row, active, attempt, dest, staging, policy>>
        /\ \A d \in Delivery : d # fin.d => journal'[d] = journal[d]
        /\ \/ journal'[fin.d] = journal[fin.d]
           \/ /\ Exists(FinJob) /\ journal'[fin.d].path = fin.path
              /\ journal'[fin.d].phase = IF fin.live THEN "prepared" ELSE journal[fin.d].phase
    BY <1>t, <1>2, SaveEffects
  <2>2. fin.at \in Working /\ fin.at \notin Placing /\ FinJob' = FinJob /\ FinJob \in Job
    BY <2>1, <1>m DEF Working, Moving, Placing, FinJob
  <2>3. \/ journal'[fin.d] = journal[fin.d]
        \/ NoCopies(fin.d)
        \/ journal'[fin.d].phase \in Placed /\ \A p \in Path : dest[p] = fin.d => p = journal'[fin.d].path
    <3>1. CASE fin.live
      BY <2>1, <3>1 DEF FinEmpty
    <3>2. CASE ~fin.live /\ journal'[fin.d] # journal[fin.d]
      <4>1. staging[FinJob] # Nothing
        BY <2>1, <3>2 DEF FinEmpty
      <4>2. \A p \in Path : dest[p] = fin.d => policy[FinJob] = "overwrite" /\ p = 1
        BY <1>m, <2>2, <4>1
      <4>3. policy[FinJob] = "overwrite" => fin.path = 1
        BY <2>1 DEF Harmless, PathChosen
      <4>4. \A p \in Path : dest[p] = fin.d => p = journal'[fin.d].path
        BY <2>1, <3>2, <4>2, <4>3
      <4>5. journal'[fin.d].phase \in Begun
        BY <1>j, <2>1, <2>2, <3>2 DEF Phases
      <4>6. journal[fin.d].phase = "prepared" => NoCopies(fin.d)
        BY <1>m, <2>2 DEF RecordsEmpty
      <4> QED BY <2>1, <3>2, <4>4, <4>5, <4>6 DEF Begun, Placed
    <3> QED BY <3>1, <3>2
  <2>4. RowsEmpty' /\ RecordsEmpty'
    BY <2>1, <2>2, <2>3, WorkStaysEmpty
  <2>5. FinEmpty'
    BY <1>n, <2>1, <2>2 DEF FinEmpty, NoCopies
  <2> QED BY <2>4, <2>5
<1>3. CASE \/ Begin
           \/ Valid(fin.path, fin.d) /\ UpdatePhase("validated", "validated", "subtitles")
  <2>1. /\ fin'.d = fin.d /\ FinJob' = FinJob /\ (fin'.live <=> fin.live) /\ fin'.path = fin.path
        /\ fin.at \in Working /\ UNCHANGED <<row, active, attempt, dest, staging, policy>>
        /\ \A d \in Delivery : d # fin.d => journal'[d] = journal[d]
        /\ \/ fin.at = "begin" /\ fin'.at = "move"
           \/ fin.at = "validated" /\ fin'.at = "subtitles"
        /\ \/ journal'[fin.d] = journal[fin.d]
           \/ /\ Exists(FinJob) /\ journal'[fin.d].path = journal[fin.d].path /\ journal'[fin.d].phase \in Placed
    <3>1. fin.at \in {"begin", "validated"}
      BY <1>3 DEF Begin, UpdatePhase, FinStep
    <3>2. "in_progress" \in Placed /\ "validated" \in Placed
      BY DEF Placed
    <3>3. /\ fin'.d = fin.d /\ FinJob' = FinJob /\ (fin'.live <=> fin.live) /\ fin'.path = fin.path
          /\ fin.at \in Working /\ UNCHANGED <<row, active, attempt, dest, staging, policy>>
          /\ \A d \in Delivery : d # fin.d => journal'[d] = journal[d]
      BY <1>t, <1>3, RecordEffects
    <3>4. PICK p \in Phase :
             /\ \/ fin.at = "begin" /\ p = "in_progress" /\ fin'.at = "move"
                \/ fin.at = "validated" /\ p = "validated" /\ fin'.at = "subtitles"
             /\ \/ journal'[fin.d] = journal[fin.d]
                \/ Exists(FinJob) /\ journal'[fin.d] = [phase |-> p, path |-> journal[fin.d].path]
      BY <1>t, <1>3, <3>1, RecordEffects
    <3> QED BY <3>2, <3>3, <3>4
  <2>2. journal'[fin.d] = journal[fin.d] \/ (journal'[fin.d].phase \in Placed /\ journal[fin.d].phase \in Begun /\ journal'[fin.d].path = journal[fin.d].path)
    BY <1>j, <2>1 DEF Phases, Begun
  <2>3. (fin.at \in Placing => fin'.at \in Placing) /\ FinJob \in Job
    BY <1>m, <2>1 DEF Placing
  <2>4. RowsEmpty' /\ RecordsEmpty'
    BY <2>1, <2>2, <2>3, WorkStaysEmpty
  <2>5. FinEmpty'
    BY <1>n, <2>1 DEF FinEmpty, NoCopies
  <2> QED BY <2>4, <2>5
<1>4. CASE Unlink \/ Clean
  <2>1. /\ fin'.d = fin.d /\ fin'.path = fin.path /\ UNCHANGED <<row, active, attempt, dest, journal>>
        /\ \/ fin.at = "unlink" /\ fin'.at = "validated"
           \/ fin.at = "clean" /\ fin'.at = "complete"
    BY <1>t, <1>4, UnlinkEffects
  <2>2. fin.at \in Working /\ (fin.at \in Placing => fin'.at \in Placing) /\ FinJob \in Job
    BY <2>1, <1>m DEF Working, Moving, Cleaning, Placing
  <2>3. RowsEmpty' /\ RecordsEmpty'
    BY <2>1, <2>2, WorkStaysEmpty
  <2>4. FinEmpty'
    BY <2>1 DEF FinEmpty
  <2> QED BY <2>3, <2>4
<1>5. CASE Subtitles
  <2>1. /\ fin.at = "subtitles" /\ fin'.at = "commit" /\ fin'.d = fin.d /\ UNCHANGED <<row, attempt, dest, journal>>
        /\ active' = [active EXCEPT ![FinJob] = IF active[FinJob] = Untracked THEN active[FinJob] ELSE fin.path]
    BY <1>t, <1>5, SubtitlesEffects
  <2>2. fin.at \in Working /\ FinJob \in Job /\ NoPath # Untracked
    BY <2>1, <1>m DEF Working, Moving, NoPath, Untracked
  <2>3. fin.path # NoPath
    BY <2>1, <2>2 DEF Harmless, PathsAreHeld, FinHeld, Found, Held, Path, NoPath
  <2>4. active'[FinJob] # NoPath /\ \A j \in Job : j # FinJob => active'[j] = active[j]
    BY <1>t, <2>1, <2>2, <2>3, TypesKnown DEF ActiveTypes
  <2>5. RowsEmpty' /\ RecordsEmpty'
    BY <2>1, <2>2, <2>4, WorkStaysEmpty
  <2> QED BY <2>1, <2>5, FinIsElsewhere
<1>6. CASE FinStep("validated") /\ ~Valid(fin.path, fin.d) /\ Goto("mark_failed") /\ FilesStay /\ UNCHANGED <<row, active, journal, left>>
  <2>1. /\ fin.at = "validated" /\ ~Valid(fin.path, fin.d) /\ fin'.at = "mark_failed" /\ fin'.d = fin.d
        /\ UNCHANGED <<row, active, attempt, dest, journal>>
    BY <1>t, <1>6, PlainEffects DEF FinStep
  <2>2. fin.at \in Working /\ FinJob \in Job
    BY <2>1, <1>m DEF Working, Moving
  <2>3. NoCopies(fin.d)
    <3>1. \A p \in Path : dest[p] = fin.d => p = fin.path
      BY <2>1 DEF FinEmpty
    <3> QED BY <2>1, <3>1 DEF NoCopies, Valid, Path, NoPath
  <2>4. RowsEmpty' /\ RecordsEmpty'
    BY <2>1, <2>2, <2>3, WorkStaysEmpty
  <2>5. FinEmpty'
    BY <1>n, <2>1, <2>3 DEF FinEmpty, NoCopies
  <2> QED BY <2>4, <2>5
<1>7. CASE CopyFails
  BY <1>t, <1>7, PlainEffects DEF CopyFails, FinStep
<1> QED BY <1>1, <1>2, <1>3, <1>4, <1>5, <1>6, <1>7

\* The file is put where it belongs.
LEMMA PutFailsEmpty ==
    ASSUME Harmless, FailsEmpty, fin.at \in Working, fin.path \in Path,
           fin'.at \in {"unlink", "validated"}, fin'.d = fin.d, fin'.path = fin.path,
           UNCHANGED <<row, active, attempt, journal>>, dest' = [dest EXCEPT ![fin.path] = fin.d],
           \A p \in Path : dest[p] = fin.d => p = fin.path,
           Exists(FinJob) => journal[fin.d].phase = "in_progress" /\ journal[fin.d].path = fin.path
    PROVE  FailsEmpty'
<1> USE DEF FailsEmpty
<1>1. /\ MediaTypeOK /\ fin.d \in Delivery /\ FinJob \in Job /\ FinJob = fin.d[1] /\ fin.d = Current(FinJob)
      /\ row[FinJob].status # "failed" /\ \A j \in Job : Current(j) = fin.d => j = FinJob
  BY MovedFile
<1>2. /\ FinJob' = FinJob /\ \A j \in Job : Current(j)' = Current(j) /\ Current(j) \in Delivery
      /\ \A p \in Path : dest'[p] = IF p = fin.path THEN fin.d ELSE dest[p]
  BY <1>1, CurrentIsDelivery, TypesKnown DEF FinJob, Current, FilesTypeOK
<1>3. \A d \in Delivery : d # fin.d /\ NoCopies(d) => NoCopies(d)'
  BY <1>2 DEF NoCopies
<1>4. ~Exists(FinJob) => journal[fin.d].phase = "none"
  BY <1>1 DEF Harmless, WorkInv, DeletedHaveNoRecord, Exists
<1>5. FinEmpty'
  BY <1>2 DEF FinEmpty
<1>6. RecordsEmpty'
  <2> SUFFICES ASSUME NEW d \in Delivery
               PROVE  /\ journal'[d].phase = "prepared" => NoCopies(d)'
                      /\ journal'[d].phase \in Placed => \A p \in Path : dest'[p] = d => p = journal'[d].path
    BY DEF RecordsEmpty
  <2>1. CASE d = fin.d
    BY <1>2, <1>4, <2>1 DEF Placed
  <2>2. CASE d # fin.d
    BY <1>2, <1>3, <2>2 DEF RecordsEmpty
  <2> QED BY <2>1, <2>2
<1>7. RowsEmpty'
  <2> SUFFICES ASSUME NEW j \in Job
               PROVE  /\ row'[j].status = "failed" => NoCopies(Current(j))'
                      /\ active'[j] = NoPath => NoCopies(Current(j))' \/ (fin'.at \in Placing /\ FinJob' = j)
                      /\ row'[j].status = "downloading" => NoCopies(Current(j))' \/ journal'[Current(j)'].phase \in Placed
    BY DEF RowsEmpty
  <2>1. CASE j = FinJob
    BY <1>1, <1>2, <2>1 DEF Placing, Placed, Exists
  <2>2. CASE j # FinJob
    <3>1. NoCopies(Current(j)) => NoCopies(Current(j))'
      BY <1>1, <1>2, <2>2 DEF NoCopies
    <3>2. /\ row[j].status = "failed" => NoCopies(Current(j))
          /\ active[j] = NoPath => NoCopies(Current(j))
          /\ row[j].status = "downloading" => NoCopies(Current(j)) \/ journal[Current(j)].phase \in Placed
      BY <2>2 DEF RowsEmpty
    <3> QED BY <1>2, <3>1, <3>2
  <2> QED BY <2>1, <2>2
<1> QED BY <1>5, <1>6, <1>7

LEMMA MoveFailsEmpty ==
    ASSUME Harmless, FailsEmpty, device = "same", Move \/ ReplaceTarget
    PROVE  FailsEmpty'
<1> USE DEF FailsEmpty
<1>t. MediaTypeOK
  BY DEF Harmless, WorkInv
<1>0. fin.at \in {"move", "copied"} /\ fin.at \in Working
  BY DEF Move, ReplaceTarget, FinStep, Working, Moving
<1>1. /\ fin.d \in Delivery /\ FinJob \in Job /\ FinJob = fin.d[1] /\ fin.d = Current(FinJob)
      /\ staging[FinJob] # Nothing => \A p \in Path : dest[p] = fin.d => policy[FinJob] = "overwrite" /\ p = 1
      /\ fin.path \in Path /\ (policy[FinJob] = "overwrite" => fin.path = 1)
      /\ Exists(FinJob) => journal[fin.d].phase = "in_progress" /\ journal[fin.d].path = fin.path
      /\ staging[FinJob] \in {Nothing, fin.d}
      /\ fin.at = "copied" => fin.copy = fin.d
  <2>1. /\ fin.d \in Delivery /\ FinJob \in Job /\ FinJob = fin.d[1] /\ fin.d = Current(FinJob)
        /\ staging[FinJob] # Nothing => \A p \in Path : dest[p] = fin.d => policy[FinJob] = "overwrite" /\ p = 1
    BY <1>0, MovedFile
  <2>2. fin.path \in Path /\ (policy[FinJob] = "overwrite" => fin.path = 1)
    BY <1>0 DEF Harmless, PathChosen
  <2>3. Exists(FinJob) => journal[fin.d].phase = "in_progress" /\ journal[fin.d].path = fin.path
    BY <1>0 DEF Harmless, JournalTrue, RecordIsKnown, Phases, Loose
  <2>4. staging[FinJob] \in {Nothing, fin.d} /\ (fin.at = "copied" => fin.copy = fin.d)
    BY <2>1 DEF Harmless, WorkInv, FilesHaveDownloads
  <2> QED BY <2>1, <2>2, <2>3, <2>4
<1>2. fin.at = "move" => NoCopies(fin.d) \/ (staging[FinJob] # Nothing /\ \A p \in Path : dest[p] = fin.d => policy[FinJob] = "overwrite" /\ p = fin.path)
  BY <1>1 DEF FinEmpty, NoCopies
<1>n. NoCopies(fin.d)' <=> \A p \in Path : dest'[p] # fin'.d
  BY DEF NoCopies
<1>3. ASSUME fin'.at \in {"mark_failed", "copied"}, fin'.d = fin.d, UNCHANGED <<row, active, attempt, journal, dest>>,
             fin'.at = "mark_failed" => NoCopies(fin.d),
             fin'.at = "copied" => staging'[FinJob] # Nothing
      PROVE  FailsEmpty'
  <2>1. RowsEmpty' /\ RecordsEmpty'
    BY <1>0, <1>1, <1>3, WorkStaysEmpty DEF Placing
  <2>2. FinEmpty'
    BY <1>1, <1>3, <1>n DEF FinEmpty, NoCopies, FinJob
  <2> QED BY <2>1, <2>2
<1>4. CASE Move
  <2>1. /\ fin.at = "move" /\ fin'.d = fin.d /\ fin'.path = fin.path /\ UNCHANGED <<row, active, attempt, journal>>
        /\ \/ fin'.at = "mark_failed" /\ CannotMove(FinJob, fin.path) /\ UNCHANGED <<dest, staging>>
           \/ fin'.at = "copied" /\ ~CannotMove(FinJob, fin.path) /\ UNCHANGED <<dest, staging>>
           \/ /\ fin'.at = "validated" /\ ~CannotMove(FinJob, fin.path) /\ CanRename(fin.path)
              /\ dest' = [dest EXCEPT ![fin.path] = staging[FinJob]]
    BY <1>t, <1>4, MoveEffects
  <2>2. CASE fin'.at = "mark_failed"
    <3>1. CannotMove(FinJob, fin.path) /\ UNCHANGED dest
      BY <2>1, <2>2
    <3>2. NoCopies(fin.d)
      BY <1>2, <2>1, <3>1 DEF CannotMove, NoCopies
    <3> QED BY <1>3, <2>1, <2>2, <3>1, <3>2
  <2>3. CASE fin'.at = "copied"
    BY <1>3, <2>1, <2>3 DEF CannotMove
  <2>4. CASE fin'.at = "validated"
    <3>1. dest' = [dest EXCEPT ![fin.path] = fin.d] /\ CanRename(fin.path)
      BY <1>1, <2>1, <2>4 DEF CannotMove
    <3>2. \A p \in Path : dest[p] = fin.d => p = fin.path
      BY <1>2, <2>1 DEF NoCopies
    <3> QED BY <1>0, <1>1, <2>1, <2>4, <3>1, <3>2, PutFailsEmpty
  <2> QED BY <2>1, <2>2, <2>3, <2>4
<1>5. CASE ReplaceTarget
  <2>1. /\ fin.at = "copied" /\ fin'.d = fin.d /\ fin'.path = fin.path /\ UNCHANGED <<row, active, attempt, journal>>
        /\ \/ fin'.at = "mark_failed" /\ CopyConflicts(FinJob, fin.path)
           \/ fin'.at = "unlink" /\ dest' = [dest EXCEPT ![fin.path] = fin.copy]
    BY <1>t, <1>5, ReplaceEffects
  <2>2. policy[FinJob] = "overwrite" /\ \A p \in Path : dest[p] = fin.d => p = fin.path
    BY <1>1, <2>1 DEF Harmless, OnePlace
  <2>3. ~CopyConflicts(FinJob, fin.path)
    BY <2>2 DEF CopyConflicts
  <2> QED BY <1>0, <1>1, <2>1, <2>2, <2>3, PutFailsEmpty
<1> QED BY <1>4, <1>5

\* The end of a move, and of its record.
LEMMA RecordsFailEmpty ==
    ASSUME Harmless, FailsEmpty, Committed \/ Pending \/ MarkFailed \/ Forget
    PROVE  FailsEmpty'
<1> USE DEF FailsEmpty
<1>t. MediaTypeOK
  BY DEF Harmless, WorkInv
<1>1. /\ fin'.d = fin.d /\ FinJob' = FinJob /\ fin.at \in Working /\ UNCHANGED <<row, attempt, dest>>
      /\ \A d \in Delivery : d # fin.d => journal'[d] = journal[d]
      /\ \/ fin.at = "committed" /\ fin'.at = "forget"
         \/ fin.at = "pending" /\ fin'.at = "clean"
         \/ fin.at = "forget" /\ fin'.at = "pending"
         \/ fin.at = "mark_failed" /\ fin'.at = "fail"
      /\ journal'[fin.d] # journal[fin.d] =>
            Exists(FinJob) /\ fin.at # "forget" /\ journal'[fin.d].phase \notin {"prepared"} \cup Placed
  <2>1. CASE Forget
    BY <1>t, <2>1, ForgetEffects DEF Working, Cleaning
  <2>2. CASE Committed \/ Pending \/ MarkFailed
    <3>1. fin.at \in {"committed", "pending", "mark_failed"}
      BY <2>2 DEF Committed, Pending, MarkFailed, UpdatePhase, FinStep
    <3>2. /\ fin'.d = fin.d /\ FinJob' = FinJob /\ fin.at \in Working /\ UNCHANGED <<row, attempt, dest>>
          /\ \A d \in Delivery : d # fin.d => journal'[d] = journal[d]
      BY <1>t, <2>2, RecordEffects
    <3>3. PICK p \in Phase :
             /\ \/ fin.at = "committed" /\ p = "db_committed" /\ fin'.at = "forget"
                \/ fin.at = "pending" /\ p = "cleanup_pending" /\ fin'.at = "clean"
                \/ fin.at = "mark_failed" /\ p = "failed" /\ fin'.at = "fail"
             /\ \/ journal'[fin.d] = journal[fin.d]
                \/ Exists(FinJob) /\ journal'[fin.d] = [phase |-> p, path |-> journal[fin.d].path]
      BY <1>t, <2>2, <3>1, RecordEffects
    <3> QED BY <3>2, <3>3 DEF Placed
  <2> QED BY <2>1, <2>2
<1>2. fin.d \in Delivery /\ FinJob \in Job /\ FinJob = fin.d[1]
  BY <1>1, MovedFile
<1>3. /\ fin.at = "committed" /\ Exists(FinJob) => row[FinJob].status # "downloading"
      /\ fin.at = "pending" /\ Exists(FinJob) => row[FinJob].status # "downloading"
      /\ fin.at = "mark_failed" /\ Exists(FinJob) => NoCopies(fin.d)
  <2>1. fin.at = "committed" /\ Exists(FinJob) => row[FinJob].status # "downloading"
    BY <1>1 DEF Harmless, JournalTrue, RecordIsKnown
  <2>2. fin.at = "pending" /\ Exists(FinJob) => journal[fin.d].phase \in Later
    BY <1>1 DEF Harmless, JournalTrue, RecordIsKnown, Phases, Later
  <2>3. journal[fin.d].phase \in Later => row[FinJob].status # "downloading"
    BY <1>2 DEF Harmless, JournalTrue, RowsMatch
  <2> QED BY <2>1, <2>2, <2>3 DEF FinEmpty
<1>4. \A j \in Job : active'[j] \in {active[j], Untracked}
  BY <1>t, ForgetEffects, RecordEffects
<1>5. RowsEmpty' /\ RecordsEmpty'
  BY <1>1, <1>2, <1>3, <1>4, WorkStaysEmpty DEF Placing
<1>6. FinEmpty'
  BY <1>1, <1>2, <1>3 DEF FinEmpty, NoCopies, Exists
<1> QED BY <1>5, <1>6

LEMMA EndsFailEmpty ==
    ASSUME Harmless, FailsEmpty, ~(left'.db < left.db), Commit \/ Recommit \/ NotCommitted \/ Complete \/ FailJob
    PROVE  FailsEmpty'
<1> USE DEF FailsEmpty
<1>t. MediaTypeOK
  BY DEF Harmless, WorkInv
<1>1. fin.at \in {"commit", "recommit", "not_committed", "complete", "fail"} /\ fin.at \in Working
  BY CommitEffects, RecommitEffects, EndRecordEffects, FailEffects, <1>t DEF Working, Moving, Cleaning
<1>2. /\ fin.d \in Delivery /\ FinJob \in Job /\ FinJob = fin.d[1] /\ fin.d = Current(FinJob)
      /\ \A j \in Job : Current(j) \in Delivery /\ (Current(j) = fin.d => j = FinJob)
  BY <1>1, <1>t, MovedFile, CurrentIsDelivery
<1>3. /\ UNCHANGED <<attempt, dest>> /\ fin'.at \in {"committed", "not_committed", "pending", "idle", "recover"}
      /\ \A j \in Job : active'[j] \in {active[j], Untracked} /\ (j # FinJob => row'[j] = row[j])
      /\ \/ row'[FinJob] = row[FinJob]
         \/ row'[FinJob].status = "completed"
         \/ fin.at = "fail" /\ Exists(FinJob) /\ row'[FinJob].status = "failed"
      /\ \A d \in Delivery : d # fin.d => journal'[d] = journal[d]
      /\ \/ journal'[fin.d] = journal[fin.d]
         \/ /\ fin.at \in {"not_committed", "complete"} /\ Exists(FinJob)
            /\ journal'[fin.d].phase \in {"complete", "failed"}
  <2>1. CASE Commit \/ Recommit
    BY <1>t, <2>1, CommitEffects, RecommitEffects
  <2>2. CASE NotCommitted \/ Complete
    BY <1>t, <2>2, EndRecordEffects, DoneEffects
  <2>3. CASE FailJob
    BY <1>t, <2>3, FailEffects, DoneEffects DEF Exists
  <2> QED BY <2>1, <2>2, <2>3
<1>4. Exists(FinJob) => fin.at # "not_committed" /\ (fin.at = "complete" => row[FinJob].status # "downloading")
  <2>1. Exists(FinJob) => fin.at # "not_committed" /\ (fin.at = "complete" => journal[fin.d].phase \in Later)
    BY <1>1 DEF Harmless, JournalTrue, RecordIsKnown, Phases, Later
  <2>2. journal[fin.d].phase \in Later => row[FinJob].status # "downloading"
    BY <1>2 DEF Harmless, JournalTrue, RowsMatch
  <2> QED BY <2>1, <2>2
<1>5. Shrinks /\ NoPath # Untracked /\ fin.at \notin Placing
  BY <1>1, <1>3 DEF Shrinks, NoPath, Untracked, Placing
<1>6. RecordsEmpty'
  <2>1. \A d \in Delivery : journal'[d] = journal[d] \/ journal'[d].phase \notin {"prepared"} \cup Placed
    BY <1>3 DEF Placed
  <2> QED BY <1>t, <1>5, <2>1, RecordsStayEmpty
<1>7. RowsEmpty'
  <2>1. ASSUME NEW j \in Job
        PROVE  /\ row'[j].status = "failed" => row[j].status = "failed" \/ NoCopies(Current(j))
               /\ row'[j].status = "downloading" =>
                     row[j].status = "downloading" /\ journal'[Current(j)] = journal[Current(j)]
    <3>1. CASE j = FinJob
      BY <1>2, <1>3, <1>4, <3>1 DEF FinEmpty
    <3>2. CASE j # FinJob
      BY <1>2, <1>3, <3>2
    <3> QED BY <3>1, <3>2
  <2> QED BY <1>t, <1>3, <1>5, <2>1, RowsStayEmpty
<1>8. FinEmpty'
  BY <1>3, FinIsElsewhere
<1> QED BY <1>6, <1>7, <1>8

LEMMA PollFailsEmpty ==
    ASSUME Harmless, FailsEmpty, NEW j \in Job, UpdateJobFromEngine(j)
    PROVE  FailsEmpty'
<1> USE DEF FailsEmpty
<1>t. MediaTypeOK /\ \A k \in Job : Current(k) \in Delivery
  BY CurrentIsDelivery DEF Harmless, WorkInv
<1>0. /\ fin.at = "idle" /\ active[j] # Untracked /\ UNCHANGED <<attempt, dest>>
      /\ fin.at \notin Placing /\ NoPath # Untracked
  <2>1. fin.at = "idle" /\ active[j] # Untracked /\ UNCHANGED attempt
    BY <1>t, PollEffects
  <2>2. UNCHANGED dest
    BY DEF UpdateJobFromEngine, EndJob, CleanupWorkDir, FilesStay, fileVars
  <2> QED BY <2>1, <2>2 DEF Placing, NoPath, Untracked
<1>1. Shrinks /\ (active[j] = NoPath => NoCopies(Current(j))) /\ (engine[j] \in {"failed", "cancelled"} => NoCopies(Current(j)))
  <2>1. Shrinks
    BY <1>0 DEF Shrinks
  <2>2. active[j] = NoPath => NoCopies(Current(j))
    BY <1>0 DEF RowsEmpty
  <2>3. engine[j] \in {"failed", "cancelled"} => NoCopies(Current(j))
    BY DEF Harmless, WorkInv, NothingYet, CopiesOf, NoCopies
  <2> QED BY <2>1, <2>2, <2>3
<1>2. CASE StartFinalizing(j) /\ UNCHANGED <<row, active>> /\ active[j] = NoPath
  <2>1. /\ fin'.at = "resolve" /\ fin'.d = Current(j) /\ fin'.live
        /\ \A d \in Delivery : d # Current(j) => journal'[d] = journal[d]
        /\ journal'[Current(j)].phase = "none"
    BY <1>t, <1>2, StartEffects
  <2>2. NoCopies(Current(j)) /\ (NoCopies(fin.d)' <=> \A p \in Path : dest'[p] # fin'.d)
    BY <1>1, <1>2 DEF NoCopies
  <2>3. FinEmpty'
    BY <1>0, <2>1, <2>2 DEF FinEmpty, NoCopies
  <2>4. RecordsEmpty'
    <3>1. \A d \in Delivery : journal'[d] = journal[d] \/ journal'[d].phase \notin {"prepared"} \cup Placed
      BY <2>1 DEF Placed
    <3> QED BY <1>t, <1>1, <3>1, RecordsStayEmpty
  <2>5. RowsEmpty'
    <3>1. \A k \in Job : journal'[Current(k)] = journal[Current(k)] \/ NoCopies(Current(k))
      BY <1>t, <2>1, <2>2
    <3> QED BY <1>t, <1>0, <1>1, <1>2, <3>1, RowsStayEmpty
  <2> QED BY <2>3, <2>4, <2>5
<1>3. ASSUME NEW st \in {"completed", "failed", "cancelled"}, NEW f \in Path \cup {NoPath}, NEW clean \in BOOLEAN,
             EndJob(j, st, f, clean), UNCHANGED <<fin, journal>>,
             st = "failed" => active[j] = NoPath \/ engine[j] = "failed"
      PROVE  FailsEmpty'
  <2>1. /\ UNCHANGED <<dest, policy, device>>
        /\ \A k \in Job : k # j => row'[k] = row[k] /\ active'[k] = active[k] /\ engine'[k] = engine[k] /\ staging'[k] = staging[k]
        /\ \/ UNCHANGED <<row, active, engine, staging>>
           \/ /\ active'[j] = Untracked /\ engine'[j] = "unknown"
              /\ row'[j] = IF row[j].status = "deleted" THEN row[j] ELSE [status |-> st, final |-> f]
              /\ staging'[j] = IF clean THEN Nothing ELSE staging[j]
    BY <1>t, <1>3, EndEffects
  <2>2. FinEmpty'
    BY <1>0, <1>3, FinIsElsewhere
  <2>3. RecordsEmpty'
    BY <1>t, <1>1, <1>3, RecordsStayEmpty
  <2>4. RowsEmpty'
    <3>1. \A k \in Job : active'[k] = NoPath => active[k] = NoPath
      BY <1>0, <2>1
    <3>2. ASSUME NEW k \in Job
          PROVE  /\ row'[k].status = "failed" => row[k].status = "failed" \/ NoCopies(Current(k))
                 /\ row'[k].status = "downloading" => row[k].status = "downloading"
      BY <1>1, <1>3, <2>1
    <3> QED BY <1>t, <1>0, <1>1, <1>3, <3>1, <3>2, RowsStayEmpty
  <2> QED BY <2>2, <2>3, <2>4
<1> QED BY <1>t, <1>2, <1>3, PollEffects

\* The recovery takes up a record, and fails what has none.
LEMMA RecoveryFailsEmpty ==
    ASSUME Harmless, FailsEmpty, (\E d \in Delivery : Reconcile(d)) \/ FailInterrupted
    PROVE  FailsEmpty'
<1> USE DEF FailsEmpty
<1>t. MediaTypeOK /\ \A k \in Job : Current(k) \in Delivery
  BY CurrentIsDelivery DEF Harmless, WorkInv
<1>1. ASSUME NEW d \in Delivery, Reconcile(d) PROVE FailsEmpty'
  <2>1. /\ fin.at = "recover" /\ d \in todo /\ fin'.d = d /\ FinJob' = d[1] /\ ~fin'.live /\ fin'.path = journal[d].path
        /\ fin'.at \in {"resolve", "validated", "subtitles", "recommit", "pending", "mark_failed"}
        /\ fin'.at = "resolve" => staging[d[1]] # Nothing
        /\ fin'.at = "validated" => journal[d].phase = "in_progress"
        /\ fin'.at = "mark_failed" =>
             \/ journal[d].phase = "prepared"
             \/ journal[d].phase \in {"in_progress", "validated"} /\ ~Valid(journal[d].path, d)
             \/ journal[d].phase \in {"none", "complete", "failed"} \/ journal[d].phase \notin Phase
        /\ UNCHANGED <<dest, staging, row, attempt, active, journal>>
    BY <1>1, ReconcileEffects
  <2>2. journal[d].phase \in Phase /\ journal[d].phase \notin Settled
    BY <1>t, <2>1, TypesKnown DEF JournalTypes, Harmless, JournalTrue, RecordsSettle
  <2>3. journal[d].phase \in Placed => \A p \in Path : dest[p] = d => p = journal[d].path
    BY DEF RecordsEmpty
  <2>4. fin'.at = "mark_failed" => NoCopies(d)
    BY <2>1, <2>2, <2>3 DEF RecordsEmpty, Settled, Placed, NoCopies, Valid, Path, NoPath
  <2>5. FinEmpty'
    BY <2>1, <2>3, <2>4 DEF FinEmpty, NoCopies, Placed
  <2>6. Shrinks /\ fin.at \notin Placing
    BY <2>1 DEF Shrinks, Placing
  <2> QED BY <1>t, <2>1, <2>5, <2>6, RecordsStayEmpty, RowsStayEmpty
<1>2. CASE FailInterrupted
  <2>1. /\ fin.at = "recover" /\ todo = {} /\ fin'.at = "sweep"
        /\ \A j \in Job : \/ row'[j] = row[j]
                          \/ row[j].status = "downloading" /\ row'[j].status = "failed"
        /\ UNCHANGED <<dest, attempt, active, journal>>
    BY <1>t, <1>2, InterruptedEffects
  <2>2. Shrinks /\ fin.at \notin Placing /\ fin.at \notin Working /\ fin.at # "down"
    BY <2>1 DEF Shrinks, Placing, Working, Moving, Cleaning
  <2>3. ASSUME NEW j \in Job, row[j].status = "downloading" PROVE NoCopies(Current(j))
    <3>1. journal[Current(j)].phase \in Settled
      BY <1>t, <2>1, <2>2 DEF Harmless, JournalTrue, RecordsSettle, Unsettled
    <3> QED BY <2>3, <3>1 DEF RowsEmpty, Settled, Placed
  <2>4. \A j \in Job : /\ row'[j].status = "failed" => row[j].status = "failed" \/ NoCopies(Current(j))
                       /\ row'[j].status = "downloading" => row[j].status = "downloading"
    BY <2>1, <2>3
  <2> QED BY <1>t, <2>1, <2>2, <2>4, RecordsStayEmpty, RowsStayEmpty, FinIsElsewhere
<1> QED BY <1>1, <1>2

\* Whoever acts beside the monitor.
LEMMA OthersFailEmpty ==
    ASSUME Harmless, FailsEmpty,
           \/ \E j \in Job : EngineEnds(j)
           \/ \E p \in Path : ForeignFile(p)
           \/ Crash \/ Restart \/ Sweep \/ UNCHANGED vars
    PROVE  FailsEmpty'
<1> USE DEF FailsEmpty
<1>t. MediaTypeOK /\ NoPath # Untracked
  BY DEF Harmless, WorkInv, NoPath, Untracked
<1>1. /\ UNCHANGED <<row, attempt, journal>> /\ Shrinks
      /\ \/ UNCHANGED <<fin, active>> /\ \A j \in Job : staging[j] # Nothing => staging'[j] # Nothing
         \/ fin'.at \in {"down", "recover", "idle"} /\ (\A j \in Job : active'[j] = Untracked)
         \/ fin'.at \in {"down", "recover", "idle"} /\ UNCHANGED active /\ fin.at \in {"down", "sweep"}
  <2>1. ASSUME NEW j \in Job, EngineEnds(j)
        PROVE  UNCHANGED <<row, attempt, journal, fin, active, dest>> /\ \A k \in Job : staging[k] # Nothing => staging'[k] # Nothing
    <3>1. Current(j) # Nothing
      BY <1>t, CurrentIsDelivery DEF FileAssumptions, Delivery
    <3> QED BY <1>t, <2>1, <3>1, EngineEffects
  <2>2. ASSUME NEW p \in Path, ForeignFile(p)
        PROVE  UNCHANGED <<row, attempt, journal, fin, active, staging>> /\ Shrinks
    <3>1. /\ dest'[p] = Foreign /\ \A q \in Path : q # p => dest'[q] = dest[q]
          /\ UNCHANGED <<row, attempt, journal, fin, active, staging>>
      BY <1>t, <2>2, ForeignEffects
    <3>2. Foreign \notin Delivery
      BY DEF FileAssumptions, Delivery
    <3> QED BY <3>1, <3>2 DEF Shrinks
  <2>3. CASE Crash
    BY <1>t, <2>3, CrashEffects DEF Shrinks
  <2>4. CASE Restart
    BY <1>t, <2>4, RestartEffects DEF Shrinks
  <2>5. CASE Sweep
    BY <1>t, <2>5, SweepEffects DEF Shrinks
  <2>6. CASE UNCHANGED vars
    BY <2>6 DEF vars, mediaVars, fileVars, Shrinks
  <2> QED BY <2>1, <2>2, <2>3, <2>4, <2>5, <2>6 DEF Shrinks
<1>2. RecordsEmpty'
  BY <1>t, <1>1, RecordsStayEmpty
<1>3. RowsEmpty'
  <2>1. \A j \in Job : active'[j] = NoPath =>
             \/ active[j] = NoPath /\ ~(fin.at \in Placing /\ FinJob = j)
             \/ fin'.at \in Placing /\ FinJob' = j
             \/ NoCopies(Current(j))
    BY <1>t, <1>1 DEF RowsEmpty, Placing, FinJob
  <2> QED BY <1>t, <1>1, <2>1, RowsStayEmpty
<1>4. FinEmpty'
  BY <1>t, <1>1, FinIsElsewhere, FinStaysEmpty DEF Exists
<1> QED BY <1>2, <1>3, <1>4

LEMMA ClientFailsEmpty ==
    ASSUME Harmless, FailsEmpty, ClientSteps
    PROVE  FailsEmpty'
<1> USE DEF FailsEmpty
<1>t. MediaTypeOK /\ NoPath # Untracked /\ \A k \in Job : Current(k) \in Delivery /\ Current(k)[1] = k /\ Current(k)[2] = attempt[k]
  BY CurrentIsDelivery DEF Harmless, WorkInv, NoPath, Untracked
<1>1. ASSUME UNCHANGED <<attempt, fin>>, fin.live, Shrinks,
             \A j \in Job : \/ row'[j] = row[j] /\ active'[j] = active[j]
                            \/ row'[j].status \notin {"failed", "downloading"} /\ active'[j] = Untracked,
             \A j \in Job : Exists(j)' => Exists(j),
             \A d \in Delivery : journal'[d] = journal[d] \/ (journal'[d].phase = "none" /\ row'[d[1]].status = "deleted")
      PROVE  FailsEmpty'
  <2>1. FinEmpty'
    BY <1>t, <1>1, FinStaysEmpty
  <2>2. RecordsEmpty'
    <3>1. \A d \in Delivery : journal'[d] = journal[d] \/ journal'[d].phase \notin {"prepared"} \cup Placed
      BY <1>1 DEF Placed
    <3> QED BY <1>t, <1>1, <3>1, RecordsStayEmpty
  <2>3. RowsEmpty'
    <3>1. ASSUME NEW j \in Job
          PROVE  /\ row'[j].status = "failed" => row[j].status = "failed" \/ NoCopies(Current(j))
                 /\ active'[j] = NoPath => \/ active[j] = NoPath /\ ~(fin.at \in Placing /\ FinJob = j)
                                           \/ fin'.at \in Placing /\ FinJob' = j
                                           \/ NoCopies(Current(j))
                 /\ row'[j].status = "downloading" =>
                       row[j].status = "downloading" /\ journal'[Current(j)] = journal[Current(j)]
      BY <1>t, <1>1 DEF RowsEmpty, FinJob
    <3> QED BY <1>t, <1>1, <3>1, RowsStayEmpty
  <2> QED BY <2>1, <2>2, <2>3
<1>2. ASSUME NEW j \in Job, CancelBegins(j) PROVE FailsEmpty'
  <2>1. fin.live /\ UNCHANGED <<dest, row, attempt, active, journal, fin>>
    BY <1>t, <1>2, CancelBeginsEffects DEF Serving
  <2> QED BY <1>1, <2>1 DEF Shrinks, Exists
<1>3. ASSUME NEW j \in Job, DeleteFiles(j) PROVE FailsEmpty'
  <2>1. fin.live /\ UNCHANGED <<row, attempt, active, journal, fin>> /\ \A p \in Path : dest'[p] = dest[p] \/ dest'[p] = Nothing
    BY <1>t, <1>3, DeleteFilesEffects DEF Serving
  <2>2. Shrinks
    BY <2>1 DEF Shrinks, FileAssumptions, Delivery
  <2> QED BY <1>1, <2>1, <2>2 DEF Exists
<1>4. CASE CancelWrites
  <2>1. /\ fin.live /\ client.job \in Job /\ UNCHANGED <<dest, attempt, journal, fin>>
        /\ \A j \in Job : j # client.job => row'[j] = row[j] /\ active'[j] = active[j]
        /\ \/ /\ active'[client.job] = Untracked
              /\ row'[client.job] = IF row[client.job].status = "deleted" THEN row[client.job]
                                    ELSE [status |-> "cancelled", final |-> client.final]
           \/ UNCHANGED <<row, active>>
    BY <1>t, <1>4, CancelWritesEffects DEF Serving
  <2>2. \A j \in Job : /\ \/ row'[j] = row[j] /\ active'[j] = active[j]
                          \/ row'[j].status \notin {"failed", "downloading"} /\ active'[j] = Untracked
                       /\ Exists(j)' => Exists(j)
    BY <2>1 DEF Exists
  <2> QED BY <1>1, <2>1, <2>2 DEF Shrinks
<1>5. CASE CancelCleans
  <2>1. fin.live /\ UNCHANGED <<dest, row, attempt, active, journal, fin>>
    BY <1>t, <1>5, CancelCleansEffects DEF Serving
  <2> QED BY <1>1, <2>1 DEF Shrinks, Exists
<1>6. CASE DeleteRows
  <2>1. fin.live /\ client.job \in Job /\ UNCHANGED <<dest, attempt, fin>>
    BY <1>t, <1>6, DeleteRowsEffects DEF Serving
  <2>2. /\ \A j \in Job : \/ row'[j] = row[j] /\ active'[j] = active[j]
                          \/ row'[j].status \notin {"failed", "downloading"} /\ active'[j] = Untracked
        /\ \A j \in Job : Exists(j)' => Exists(j)
        /\ \A d \in Delivery : journal'[d] = journal[d] \/ (journal'[d].phase = "none" /\ row'[d[1]].status = "deleted")
    BY <1>t, <1>6, DeleteRowsEffects DEF Exists, NoRecord
  <2> QED BY <1>1, <2>1, <2>2 DEF Shrinks
<1>7. ASSUME NEW j \in Job, Retry(j) PROVE FailsEmpty'
  <2>1. /\ fin.live /\ UNCHANGED <<dest, journal, fin>> /\ row[j].status = "failed" /\ row'[j].status = "downloading"
        /\ attempt'[j] = attempt[j] + 1
        /\ \A k \in Job : k # j => row'[k] = row[k] /\ active'[k] = active[k] /\ attempt'[k] = attempt[k]
    BY <1>t, <1>7, RetryEffects DEF Serving
  <2>2. Shrinks /\ \A k \in Job : Exists(k)' => Exists(k)
    BY <2>1 DEF Shrinks, Exists
  <2>3. RecordsEmpty' /\ FinEmpty'
    BY <1>t, <2>1, <2>2, RecordsStayEmpty, FinStaysEmpty
  <2>4. \A p \in Path : dest[p] # <<j, attempt[j] + 1>>
    <3>1. MaxAttempts \in Nat /\ attempt[j] \in 1 .. MaxAttempts /\ attempt[j] < MaxAttempts
      BY <1>t, <1>7, TypesKnown, RetryEffects DEF FileAssumptions
    <3>2. <<j, attempt[j] + 1>> \in Delivery
      BY <3>1 DEF Delivery
    <3>3. \A p \in Path : dest[p] \in Delivery => dest[p][2] <= attempt[dest[p][1]]
      BY DEF Harmless, WorkInv, FilesHaveDownloads
    <3> QED BY <3>1, <3>2, <3>3
  <2>5. RowsEmpty'
    <3> SUFFICES ASSUME NEW k \in Job
                 PROVE  /\ row'[k].status = "failed" => NoCopies(Current(k))'
                        /\ active'[k] = NoPath => NoCopies(Current(k))' \/ (fin'.at \in Placing /\ FinJob' = k)
                        /\ row'[k].status = "downloading" => NoCopies(Current(k))' \/ journal'[Current(k)'].phase \in Placed
      BY DEF RowsEmpty
    <3>1. CASE k = j
      <4>1. NoCopies(Current(k))'
        BY <2>1, <2>4, <3>1 DEF NoCopies, Current
      <4> QED BY <4>1
    <3>2. CASE k # j
      <4>1. Current(k)' = Current(k) /\ (NoCopies(Current(k)) => NoCopies(Current(k))')
        BY <2>1, <3>2 DEF NoCopies, Current
      <4>2. /\ row[k].status = "failed" => NoCopies(Current(k))
            /\ active[k] = NoPath => NoCopies(Current(k)) \/ (fin.at \in Placing /\ FinJob = k)
            /\ row[k].status = "downloading" => NoCopies(Current(k)) \/ journal[Current(k)].phase \in Placed
        BY DEF RowsEmpty
      <4> QED BY <2>1, <3>2, <4>1, <4>2 DEF FinJob
    <3> QED BY <3>1, <3>2
  <2> QED BY <2>3, <2>5
<1> QED BY <1>2, <1>3, <1>4, <1>5, <1>6, <1>7 DEF ClientSteps

LEMMA FailHolds == MediaInit => FailInv
<1> SUFFICES ASSUME MediaInit PROVE FailInv
  OBVIOUS
<1>1. /\ \A p \in Path : dest[p] \notin Delivery
      /\ \A d \in Delivery : journal[d].phase = "none"
      /\ fin.at = "idle"
  BY DEF MediaInit, NoRecord, Idle, FileAssumptions, Delivery
<1>2. \A j \in Job : Current(j) \in Delivery
  BY InitIsTyped, CurrentIsDelivery
<1>3. RowsEmpty /\ RecordsEmpty /\ FinEmpty
  BY <1>1, <1>2 DEF RowsEmpty, RecordsEmpty, FinEmpty, NoCopies, Placed
<1> QED BY <1>3, JournalHolds, DeliveryHolds DEF FailInv, FailsEmpty

LEMMA FailStays == FailInv /\ [MediaNext]_vars => FailInv'
<1> SUFFICES ASSUME FailInv, [MediaNext]_vars PROVE FailInv'
  OBVIOUS
<1>1. JournalInv /\ JournalInv' /\ DeliveryInv /\ DeliveryInv' /\ MediaTypeOK /\ MediaTypeOK' /\ Lesser
  BY JournalStays, DeliveryStays DEF FailInv, JournalInv, WorkInv
<1> SUFFICES ASSUME Unharmed' PROVE FailsEmpty'
  BY <1>1 DEF FailInv
<1>2. UNCHANGED device
  BY <1>1, FilesLast
<1>3. Unharmed /\ ~(left'.db < left.db) /\ ~(left'.io < left.io)
  <2>1. /\ NoDatabaseError /\ left'.db = left.db /\ left.io = scenario.io /\ left'.io = left.io
    BY <1>1, LeftFalls, NoErrorBefore DEF Unharmed
  <2>2. left.db \in Nat /\ left.io \in Nat
    BY <1>1, TypesKnown DEF Bounds
  <2> QED BY <1>2, <2>1, <2>2 DEF Unharmed
<1>4. Harmless /\ FailsEmpty /\ device = "same"
  BY <1>1, <1>3 DEF FailInv, JournalInv, DeliveryInv, PlaceInv, Unharmed, Harmless
<1>5. CASE UNCHANGED vars \/ (\E j \in Job : EngineEnds(j)) \/ (\E p \in Path : ForeignFile(p)) \/ Crash \/ Restart
  BY <1>4, <1>5, OthersFailEmpty
<1>6. ASSUME NEW j \in Job, UpdateJobFromEngine(j) PROVE FailsEmpty'
  BY <1>4, <1>6, PollFailsEmpty
<1>7. CASE FinalizationSteps
  BY <1>3, <1>4, <1>7, MovesFailEmpty, MoveFailsEmpty, RecordsFailEmpty, EndsFailEmpty DEF FinalizationSteps, Validated
<1>8. CASE RecoverySteps
  BY <1>3, <1>4, <1>8, RecoveryFailsEmpty, EndsFailEmpty, OthersFailEmpty DEF RecoverySteps
<1>9. CASE ClientSteps
  BY <1>4, <1>9, ClientFailsEmpty
<1> QED BY <1>5, <1>6, <1>7, <1>8, <1>9 DEF MediaNext

\* Neither a crash nor a recovery fails a job whose file is in place, as long as moves
\* are renames and no call has failed.
THEOREM NobodyFailsFalsely == MediaSpec => []NeverFalselyFailed
<1>1. FailInv => NeverFalselyFailed
  BY DEF FailInv, FailsEmpty, RowsEmpty, Unharmed, NeverFalselyFailed, NoCopies, CopiesOf
<1> QED BY <1>1, FailHolds, FailStays, PTL DEF MediaSpec
===============================================================================
