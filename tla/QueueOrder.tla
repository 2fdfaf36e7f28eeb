------------------------------ MODULE QueueOrder ------------------------------
(***************************************************************************)
(* The job_queue table and the requests that move jobs in it: enqueueing,  *)
(* Pause, Resume, Retry, RunNow, SetJobPriority and ReorderQueue of        *)
(* internal/job/manager.go over internal/database/queue_repository.go, and *)
(* the dispatch of the job the policy ranks first.                         *)
(*                                                                         *)
(* A request reads the table, works out what to write and writes it; other *)
(* requests and dispatches run in between.  Bounds: a job has one such     *)
(* request on its way at a time, and so has the reordering of a lane.      *)
(* Whether a dispatch succeeds is DownloadCore's concern.                  *)
(***************************************************************************)
EXTENDS QueuePolicy, FiniteSets, Functions

CONSTANTS
    Job,         \* identifiers, integers in the order of the id strings
    Lanes,       \* bound: the priorities requests ask for
    Instants,    \* bound: the times at which requests are made
    MaxRequests  \* bound on requests

ASSUME QueueAssumptions ==
    /\ Job \subseteq Int /\ IsFiniteSet(Job) /\ Lanes \subseteq Priority
    /\ Instants \subseteq Nat /\ MaxRequests \in Nat

VARIABLES
    status,    \* jobs.status: "queued", "paused", or "away" from the queue
    priority,  \* jobs.priority
    entry,     \* job_queue: job -> row, or NoRow
    write,     \* job -> what the request on it is about to write
    moves,     \* job -> position the reordering on its way gives it, 0 for none
    now,
    requests   \* requests made

queueVars == <<status, priority, entry, write, moves, now, requests>>

NoRow == [position |-> -1, enqueuedAt |-> 0, updatedAt |-> 0]
NoWrite == [row |-> NoRow, status |-> "none", lane |-> "none"]
NoMoves == [j \in Job |-> 0]

QueueRows == [position : Nat, enqueuedAt : Nat, updatedAt : Nat]
Writes == [row : QueueRows, status : {"queued", "paused", "same"},
           lane : Priority \cup {"same"}]

QueueTypeOK ==
    /\ status \in [Job -> {"queued", "paused", "away"}]
    /\ priority \in [Job -> Priority]
    /\ entry \in [Job -> QueueRows \cup {NoRow}]
    /\ write \in [Job -> {NoWrite} \cup Writes]
    /\ moves \in [Job -> Nat]
    /\ now \in Nat /\ requests \in Nat

HasRow(j) == entry[j] # NoRow
Idle(j) == write[j] = NoWrite

\* What the policy sees of a job: its priority and its row.
Entry(j) == [id |-> j, priority |-> priority[j], position |-> entry[j].position,
             enqueuedAt |-> entry[j].enqueuedAt, updatedAt |-> entry[j].updatedAt]

\* ListRunnable.  not_before is never set: nothing calls ScheduleRetry.
Runnable == {j \in Job : status[j] = "queued" /\ HasRow(j)}
Entries == {Entry(j) : j \in Runnable}
------------------------------------------------------------------------------
\* NextPosition: one past the highest position of the lane.
LanePositions(p) == {entry[j].position : j \in {i \in Job : HasRow(i) /\ priority[i] = p}}
NextPosition(p) == 1 + CHOOSE m \in LanePositions(p) \cup {0} :
                          \A k \in LanePositions(p) \cup {0} : k <= m

Prepare(j, row, st) ==
    write' = [write EXCEPT ![j] = [row |-> row, status |-> st, lane |-> "same"]]
Request == requests < MaxRequests /\ requests' = requests + 1

\* Create, Retry and the Pause of a running job: a new row at the end of the
\* lane.  A created job has any priority, a known one keeps its own.
Enqueue(j, p, st) ==
    /\ Request /\ Idle(j)
    /\ status[j] = "away" \/ (status[j] = "paused" /\ st = "queued" /\ p = priority[j])
    /\ priority' = [priority EXCEPT ![j] = p]
    /\ Prepare(j, [position |-> NextPosition(p), enqueuedAt |-> now, updatedAt |-> now], st)
    /\ UNCHANGED <<status, entry, moves, now>>

\* Pausing a queued job leaves its row where it is.
PauseQueued(j) ==
    /\ Request /\ Idle(j)
    /\ status[j] = "queued"
    /\ status' = [status EXCEPT ![j] = "paused"]
    /\ UNCHANGED <<priority, entry, write, moves, now>>

Resume(j) ==
    /\ Request /\ Idle(j)
    /\ status[j] = "paused" /\ HasRow(j)
    /\ Prepare(j, [entry[j] EXCEPT !.updatedAt = now], "queued")
    /\ UNCHANGED <<status, priority, entry, moves, now>>

RunNow(j) ==
    /\ Request /\ Idle(j)
    /\ status[j] \in {"queued", "paused"}
    /\ LET enqueuedAt == IF HasRow(j) THEN entry[j].enqueuedAt ELSE now IN
       Prepare(j, [position |-> RunNowPosition, enqueuedAt |-> enqueuedAt, updatedAt |-> now],
               IF status[j] = "paused" THEN "queued" ELSE "same")
    /\ UNCHANGED <<status, priority, entry, moves, now>>

\* Mutant: INSERT OR REPLACE, the job starts waiting anew.
Replace(j, row) == row

\* Enqueue of the repository: on conflict everything but enqueued_at is taken.
Upsert(j, row) == IF HasRow(j) THEN [row EXCEPT !.enqueuedAt = entry[j].enqueuedAt] ELSE row

Write(j) ==
    /\ ~Idle(j) /\ write[j].lane = "same"
    /\ entry' = [entry EXCEPT ![j] = Upsert(j, write[j].row)]
    /\ status' = [status EXCEPT ![j] = IF write[j].status = "same" THEN @ ELSE write[j].status]
    /\ write' = [write EXCEPT ![j] = NoWrite]
    /\ UNCHANGED <<priority, moves, now, requests>>

\* A job with a row goes to the end of its new lane, where that is now.
SetJobPriority(j, p) ==
    /\ Request /\ Idle(j)
    /\ p # priority[j] /\ HasRow(j)
    /\ write' = [write EXCEPT ![j] =
          [row |-> [entry[j] EXCEPT !.position = NextPosition(p)], status |-> "same", lane |-> p]]
    /\ UNCHANGED <<status, priority, entry, moves, now>>

\* UpdateJobPriorityAndQueuePosition: lane and position change in one
\* transaction, which rolls back when the row has been deleted meanwhile.
Move(j) ==
    /\ ~Idle(j) /\ write[j].lane # "same"
    /\ IF HasRow(j)
       THEN /\ priority' = [priority EXCEPT ![j] = write[j].lane]
            /\ entry' = [entry EXCEPT ![j] =
                  [@ EXCEPT !.position = write[j].row.position, !.updatedAt = now]]
       ELSE UNCHANGED <<priority, entry>>
    /\ write' = [write EXCEPT ![j] = NoWrite]
    /\ UNCHANGED <<status, moves, now, requests>>

\* Without a row there is only the priority to change.
SetPriorityOnly(j, p) ==
    /\ Request /\ Idle(j)
    /\ p # priority[j] /\ ~HasRow(j)
    /\ priority' = [priority EXCEPT ![j] = p]
    /\ UNCHANGED <<status, entry, write, moves, now>>

\* The request must name every queued or paused job of the lane once; they
\* will get the positions 1, 2, ... in that order, run-now jobs included.
Lane(p) == {j \in Job : priority[j] = p /\ HasRow(j) /\ status[j] \in {"queued", "paused"}}

ReorderQueue(p, order) ==
    /\ Request /\ moves = NoMoves
    /\ moves' = [j \in Job |-> IF j \in Lane(p) THEN order[j] ELSE 0]
    /\ UNCHANGED <<status, priority, entry, write, now>>

\* Reorder of the repository: one transaction, silent about deleted rows and
\* blind to what has become of the lane.
WriteOrder ==
    /\ moves # NoMoves
    /\ entry' = [j \in Job |-> IF moves[j] # 0 /\ HasRow(j)
                               THEN [entry[j] EXCEPT !.position = moves[j]]
                               ELSE entry[j]]
    /\ moves' = NoMoves
    /\ UNCHANGED <<status, priority, write, now, requests>>

\* The scheduler starts the head of the ranking; its row is deleted.
Dispatch(j) ==
    /\ j \in Runnable /\ IsHead(Entry(j), Entries, now)
    /\ status' = [status EXCEPT ![j] = "away"]
    /\ entry' = [entry EXCEPT ![j] = NoRow]
    /\ UNCHANGED <<priority, write, moves, now, requests>>

Tick ==
    /\ now' \in {t \in Instants : t > now}
    /\ UNCHANGED <<status, priority, entry, write, moves, requests>>
------------------------------------------------------------------------------
QueueInit ==
    /\ status = [j \in Job |-> "away"]
    /\ priority = [j \in Job |-> "normal"]
    /\ entry = [j \in Job |-> NoRow]
    /\ write = [j \in Job |-> NoWrite]
    /\ moves = NoMoves
    /\ now = 0 /\ requests = 0

Promote == \E j \in Job : RunNow(j)
Arrive == \E j \in Job, p \in Lanes, st \in {"queued", "paused"} : Enqueue(j, p, st)
PauseOrResume == \E j \in Job : PauseQueued(j) \/ Resume(j)
Finish == \E j \in Job : Write(j) \/ Move(j) \/ Dispatch(j)
Prioritize == \E j \in Job, p \in Lanes : SetJobPriority(j, p) \/ SetPriorityOnly(j, p)
Reorder == \E p \in Priority :
    \E order \in Bijection(Lane(p), 1..Cardinality(Lane(p))) :
        Lane(p) # {} /\ ReorderQueue(p, order)
QueueNext == Arrive \/ Promote \/ PauseOrResume \/ Prioritize \/ Reorder \/ Finish
             \/ WriteOrder \/ Tick

QueueSpec == QueueInit /\ [][QueueNext]_queueVars
------------------------------------------------------------------------------
\* However rows came to their positions and times, at every moment the policy
\* orders the runnable jobs: any two of them one way, and never in a circle.
\* A comparison that mixed its criteria once went round in circles.
RankingIsTotalOrder ==
    \A a, b \in Entries :
        /\ ~(Before(a, b, now) /\ Before(b, a, now))
        /\ a # b => Before(a, b, now) \/ Before(b, a, now)
        /\ \A c \in Entries : Before(a, b, now) /\ Before(b, c, now) => Before(a, c, now)

\* A job enqueued no earlier in the same lane, and placed behind, stays behind
\* whatever time passes: aging reorders lanes, not the jobs in one.
AgingKeepsLaneOrder ==
    \A a, b \in Entries :
        /\ ~IsRunNow(a) /\ ~IsRunNow(b)
        /\ a.priority = b.priority
        /\ a.position < b.position /\ a.enqueuedAt <= b.enqueuedAt
        => Before(a, b, now)

\* What the scheduler needs of the ranking: some job is first, and age does not turn
\* a lane round.
RankingIsSound == RankingIsTotalOrder /\ AgingKeepsLaneOrder

\* No request makes a waiting job younger: the age that lifts it survives
\* pausing, resuming, promotion, a change of lane and a reordering.
AgeSurvivesRequests ==
    [][\A j \in Job : HasRow(j) /\ HasRow(j)'
            => entry'[j].enqueuedAt = entry[j].enqueuedAt]_queueVars
==============================================================================
