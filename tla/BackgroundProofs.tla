--------------------------- MODULE BackgroundProofs ---------------------------
(***************************************************************************)
(* Proofs about what goes on beside the jobs: the start and the end of the *)
(* application, the lists of trackers, the browsers that follow the jobs.  *)
(***************************************************************************)
EXTENDS AppLifecycle, Trackers, StateSync, FiniteSetTheorems, SequenceTheorems, NaturalsInduction,
        WellFoundedInduction, TLAPS

-------------------------------------------------------------------------------
(***************************************************************************)
(* Proofs about Start and Shutdown for any number of callers of Shutdown,  *)
(* in either host.  The argument: whoever is in the teardown is alone in   *)
(* it, Start is over by then so no goroutine is created any more, and each *)
(* stage of the teardown remembers which goroutines have left.             *)
(***************************************************************************)

\* Start creates its goroutines in a fixed order.
CreatedInOrder ==
    /\ starting \notin {"not_called", "tracker"} => worker["tracker"] # "unborn"
    /\ starting \in {"scheduler", "monitor", "returned"} => worker["reconciler"] # "unborn"
    /\ starting \in {"monitor", "returned"} => worker["scheduler"] # "unborn"
    /\ starting = "returned" => worker["monitor"] # "unborn"

TeardownAfterStart == teardown # "none" => starting = "returned"

\* At most one caller is in the teardown, and only while it runs.
AloneInTeardown ==
    /\ \A c \in Caller : shutdown[c] \in Teardown => teardown = "running"
    /\ \A c, d \in Caller : shutdown[c] \in Teardown /\ shutdown[d] \in Teardown => c = d

\* What a stage of the teardown knows about the goroutines behind it.
StageKnows ==
    \A c \in Caller :
        /\ shutdown[c] \in Teardown \ {"stop_tracker", "drain_tracker"} =>
               worker["tracker"] = "exited" \/ failed
        /\ shutdown[c] \in {"stop_monitor", "wait_monitor", "supervisor", "close", "finish"} =>
               worker["scheduler"] = "exited"
        /\ shutdown[c] \in {"supervisor", "close", "finish"} => worker["monitor"] = "exited"

ClosedInTeardown == db = "closed" => teardown # "none"

\* A caller has a result only once the verdict is final.
ResultIsVerdict ==
    \A c \in Caller : result[c] # "none" =>
        teardown = "over" /\ result[c] = IF failed THEN "error" ELSE "ok"

LifecycleInv ==
    /\ LifecycleTypeOK /\ CreatedInOrder /\ TeardownAfterStart /\ AloneInTeardown
    /\ StageKnows /\ ClosedInTeardown /\ WritersLeaveFirst /\ ResultIsVerdict

\* In the initial state nothing has been created, called or closed.
LEMMA InitInv == AppInit => LifecycleInv
  BY LifecycleAssumptions
  DEF AppInit, LifecycleInv, LifecycleTypeOK, CreatedInOrder, TeardownAfterStart,
      AloneInTeardown, StageKnows, ClosedInTeardown, WritersLeaveFirst, ResultIsVerdict,
      Teardown, Worker, Outcome

\* Steps of Start and of the host's context precede the teardown, so they
\* disturb only what is said about Start itself.
LEMMA StartKeepsInv ==
    ASSUME LifecycleInv, StartStep \/ CancelContext
    PROVE  LifecycleInv'
<1> USE DEF LifecycleInv, shutdownUnchanged
<1>1. CASE Begin
  BY <1>1 DEF Begin, LifecycleTypeOK, CreatedInOrder, TeardownAfterStart, AloneInTeardown,
              StageKnows, ClosedInTeardown, WritersLeaveFirst, ResultIsVerdict, Teardown
<1>2. CASE Recovered
  BY <1>2 DEF Recovered, LifecycleTypeOK, CreatedInOrder, TeardownAfterStart, AloneInTeardown,
              StageKnows, ClosedInTeardown, WritersLeaveFirst, ResultIsVerdict, Teardown
<1>3. CASE CancelContext
  BY <1>3 DEF CancelContext, LifecycleTypeOK, CreatedInOrder, TeardownAfterStart,
              AloneInTeardown, StageKnows, ClosedInTeardown, WritersLeaveFirst,
              ResultIsVerdict, Teardown
<1>4. ASSUME NEW w \in Worker, Launch(w)
      PROVE  LifecycleInv'
  <2>1. starting = w /\ starting' = AfterStarting(w) /\ worker' = [worker EXCEPT ![w] = "idle"]
    BY <1>4 DEF Launch
  <2>2. UNCHANGED <<host, ctx, told, teardown, shutdown, failed, result, db>>
    BY <1>4 DEF Launch
  <2>3. teardown = "none"
    BY <2>1 DEF TeardownAfterStart, Worker
  <2>4. \A c \in Caller : shutdown[c] \notin Teardown
    BY <2>3 DEF AloneInTeardown
  <2>5. (LifecycleTypeOK /\ CreatedInOrder)'
    BY <2>1, <2>2, <2>3 DEF LifecycleTypeOK, CreatedInOrder, AfterStarting, Worker
  <2>6. (TeardownAfterStart /\ AloneInTeardown /\ ClosedInTeardown /\ ResultIsVerdict)'
    BY <2>2, <2>3 DEF TeardownAfterStart, AloneInTeardown, ClosedInTeardown, ResultIsVerdict
  <2>7. (StageKnows /\ WritersLeaveFirst)'
    BY <2>2, <2>3, <2>4 DEF StageKnows, ClosedInTeardown, WritersLeaveFirst, Teardown
  <2> QED BY <2>5, <2>6, <2>7
<1> QED BY <1>1, <1>2, <1>3, <1>4 DEF StartStep

\* A goroutine that has left does not come back.
LEMMA LoopKeepsInv ==
    ASSUME LifecycleInv, NEW w \in Worker, StartPass(w) \/ EndPass(w) \/ Exit(w)
    PROVE  LifecycleInv'
<1> USE DEF LifecycleInv
<1>1. /\ worker[w] \in {"idle", "working"}
      /\ \E s \in {"idle", "working", "exited"} : worker' = [worker EXCEPT ![w] = s]
      /\ UNCHANGED <<host, starting, ctx, told, teardown, shutdown, failed, result, db>>
  BY DEF StartPass, EndPass, Exit, startUnchanged, shutdownUnchanged
<1>2. \A v \in Worker : /\ worker[v] = "exited" => worker'[v] = "exited"
                        /\ worker[v] # "unborn" => worker'[v] # "unborn"
  BY <1>1 DEF LifecycleTypeOK
<1>3. LifecycleTypeOK'
  BY <1>1, <1>2 DEF LifecycleTypeOK
<1>4. (CreatedInOrder /\ StageKnows /\ WritersLeaveFirst)'
  BY <1>1, <1>2 DEF CreatedInOrder, StageKnows, WritersLeaveFirst, Worker
<1>5. (TeardownAfterStart /\ AloneInTeardown /\ ClosedInTeardown /\ ResultIsVerdict)'
  BY <1>1 DEF TeardownAfterStart, AloneInTeardown, ClosedInTeardown, ResultIsVerdict
<1> QED BY <1>3, <1>4, <1>5

\* Entering Shutdown: whoever finds no teardown starts the only one.
LEMMA CallKeepsInv ==
    ASSUME LifecycleInv, NEW c \in Caller, Call(c)
    PROVE  LifecycleInv'
<1> USE DEF LifecycleInv, Call, startUnchanged
<1>1. LifecycleTypeOK'
  BY DEF Enter, Step, LifecycleTypeOK, CreatedInOrder, Teardown, Outcome, Worker
<1>2. (CreatedInOrder /\ TeardownAfterStart /\ ClosedInTeardown /\ WritersLeaveFirst)'
  BY DEF Enter, CreatedInOrder, TeardownAfterStart, ClosedInTeardown, WritersLeaveFirst
<1>3. AloneInTeardown'
  BY DEF Enter, Step, AloneInTeardown, LifecycleTypeOK, Teardown
<1>4. StageKnows'
  BY DEF Enter, Step, StageKnows, LifecycleTypeOK, Teardown
<1>5. ResultIsVerdict'
  BY DEF Enter, ResultIsVerdict, LifecycleTypeOK
<1> QED BY <1>1, <1>2, <1>3, <1>4, <1>5

\* Any step from one stage of the teardown to the next keeps what is said
\* about the goroutines, if the next stage knows what it claims.
LEMMA StageKeepsInv ==
    ASSUME LifecycleInv, NEW c \in Caller, NEW from \in Teardown, NEW to \in Teardown,
           Step(c, from, to), StageKnows', WritersLeaveFirst',
           told' \subseteq Worker, failed' \in BOOLEAN, db' \in {"open", "closed"},
           UNCHANGED <<host, starting, ctx, worker, teardown, result>>
    PROVE  LifecycleInv'
<1> USE DEF LifecycleInv, Step
<1>1. teardown = "running" /\ \A d \in Caller : result[d] = "none"
  BY DEF AloneInTeardown, ResultIsVerdict
<1>2. LifecycleTypeOK'
  BY DEF LifecycleTypeOK
<1>3. (CreatedInOrder /\ TeardownAfterStart /\ ClosedInTeardown /\ ResultIsVerdict)'
  BY <1>1 DEF CreatedInOrder, TeardownAfterStart, ClosedInTeardown, ResultIsVerdict
<1>4. AloneInTeardown'
  BY DEF AloneInTeardown, LifecycleTypeOK
<1> QED BY <1>2, <1>3, <1>4

\* The steps of the teardown itself, and the callers that leave after it.
LEMMA TeardownKeepsInv ==
    ASSUME LifecycleInv, NEW c \in Caller, ShutdownStep(c)
    PROVE  LifecycleInv'
<1> USE DEF LifecycleInv, startUnchanged
<1>1. ASSUME NEW w \in Worker, NEW from \in Teardown, NEW to \in Teardown,
             Tell(c, w, from, to),
             <<from, to>> \in {<<"stop_tracker", "drain_tracker">>,
                               <<"stop_reconciler", "stop_scheduler">>,
                               <<"stop_scheduler", "wait_scheduler">>,
                               <<"stop_monitor", "wait_monitor">>}
      PROVE  LifecycleInv'
  <2>1. StageKnows'
    BY <1>1 DEF Tell, Step, StageKnows, LifecycleTypeOK, Teardown
  <2>2. WritersLeaveFirst'
    BY <1>1 DEF Tell, WritersLeaveFirst
  <2> QED BY <1>1, <2>1, <2>2, StageKeepsInv DEF Tell, LifecycleTypeOK
<1>2. CASE Tell(c, "tracker", "stop_tracker", "drain_tracker")
  BY <1>1, <1>2 DEF Worker, Teardown
<1>3. CASE DrainTracker(c)
  <2>1. StageKnows'
    BY <1>3 DEF DrainTracker, Step, StageKnows, LifecycleTypeOK, Teardown
  <2>2. WritersLeaveFirst'
    BY <1>3 DEF DrainTracker, WritersLeaveFirst
  <2> QED BY <1>3, <2>1, <2>2, StageKeepsInv DEF DrainTracker, LifecycleTypeOK, Teardown
<1>4. CASE StopManager(c)
  <2>1. ASSUME NEW w \in {"scheduler", "monitor"}, NEW from \in Teardown, NEW to \in Teardown,
               Await(c, w, from, to),
               <<w, from, to>> \in {<<"scheduler", "wait_scheduler", "stop_monitor">>,
                                    <<"monitor", "wait_monitor", "supervisor">>}
        PROVE  LifecycleInv'
    <3>1. StageKnows'
      BY <2>1 DEF Await, Step, StageKnows, LifecycleTypeOK, Teardown
    <3>2. WritersLeaveFirst'
      BY <2>1 DEF Await, WritersLeaveFirst
    <3> QED BY <2>1, <3>1, <3>2, StageKeepsInv DEF Await, LifecycleTypeOK
  <2> QED BY <1>1, <1>4, <2>1 DEF StopManager, Worker, Teardown
<1>5. CASE StopProcesses(c)
  <2>1. StageKnows'
    BY <1>5 DEF StopProcesses, Step, StageKnows, LifecycleTypeOK, Teardown
  <2>2. WritersLeaveFirst'
    BY <1>5 DEF StopProcesses, WritersLeaveFirst
  <2> QED BY <1>5, <2>1, <2>2, StageKeepsInv DEF StopProcesses, LifecycleTypeOK, Teardown
<1>6. CASE CloseDatabase(c)
  <2>1. StageKnows'
    BY <1>6 DEF CloseDatabase, Step, StageKnows, LifecycleTypeOK, Teardown
  <2>2. WritersLeaveFirst'
    BY <1>6 DEF CloseDatabase, Step, StageKnows, WritersLeaveFirst, Teardown
  <2> QED BY <1>6, <2>1, <2>2, StageKeepsInv DEF CloseDatabase, LifecycleTypeOK, Teardown
<1>7. CASE Finish(c)
  <2>1. teardown = "running" /\ \A d \in Caller : result[d] = "none"
    BY <1>7 DEF Finish, Step, AloneInTeardown, ResultIsVerdict, Teardown
  <2>2. \A d \in Caller : shutdown'[d] \notin Teardown
    BY <1>7 DEF Finish, Step, AloneInTeardown, LifecycleTypeOK, Teardown
  <2>3. (LifecycleTypeOK /\ CreatedInOrder /\ TeardownAfterStart)'
    BY <1>7, <2>1 DEF Finish, Step, LifecycleTypeOK, CreatedInOrder, TeardownAfterStart, Outcome
  <2>4. (AloneInTeardown /\ StageKnows)'
    BY <2>2 DEF AloneInTeardown, StageKnows, Teardown
  <2>5. (ClosedInTeardown /\ WritersLeaveFirst /\ ResultIsVerdict)'
    BY <1>7, <2>1 DEF Finish, ClosedInTeardown, WritersLeaveFirst, ResultIsVerdict, LifecycleTypeOK
  <2> QED BY <2>3, <2>4, <2>5
<1>8. CASE Leave(c)
  <2>1. (LifecycleTypeOK /\ CreatedInOrder /\ TeardownAfterStart)'
    BY <1>8 DEF Leave, Step, LifecycleTypeOK, CreatedInOrder, TeardownAfterStart, Outcome
  <2>2. (AloneInTeardown /\ StageKnows)'
    BY <1>8 DEF Leave, Step, AloneInTeardown, StageKnows, LifecycleTypeOK, Teardown
  <2>3. (ClosedInTeardown /\ WritersLeaveFirst /\ ResultIsVerdict)'
    BY <1>8 DEF Leave, ClosedInTeardown, WritersLeaveFirst, ResultIsVerdict, LifecycleTypeOK
  <2> QED BY <2>1, <2>2, <2>3
<1> QED BY <1>2, <1>3, <1>4, <1>5, <1>6, <1>7, <1>8 DEF ShutdownStep

\* Every step keeps the invariant, so every reachable state has it.
THEOREM LifecycleIsInvariant == AppSpec => []LifecycleInv
<1>1. AppInit => LifecycleInv
  BY InitInv
<1>2. LifecycleInv /\ [AppNext]_appVars => LifecycleInv'
  <2> SUFFICES ASSUME LifecycleInv, [AppNext]_appVars PROVE LifecycleInv'
    OBVIOUS
  <2>1. CASE UNCHANGED appVars
    BY <2>1 DEF appVars, LifecycleInv, LifecycleTypeOK, CreatedInOrder, TeardownAfterStart,
                AloneInTeardown, StageKnows, ClosedInTeardown, WritersLeaveFirst, ResultIsVerdict
  <2>2. CASE AppNext
    BY <2>2, StartKeepsInv, LoopKeepsInv, CallKeepsInv, TeardownKeepsInv DEF AppNext, Loop
  <2> QED BY <2>1, <2>2
<1> QED BY <1>1, <1>2, PTL DEF AppSpec

\* Type correctness, and Manager.Stop never meets a goroutine that Start has
\* not created.
THEOREM LifecycleTypeCorrect == AppSpec => []LifecycleTypeOK
<1>1. LifecycleInv => LifecycleTypeOK
  BY DEF LifecycleInv
<1> QED BY <1>1, LifecycleIsInvariant, PTL

\* App.Shutdown tears down once, however many goroutines call it.
THEOREM TeardownHappensOnce == AppSpec => []OneTeardown
<1>1. LifecycleInv => OneTeardown
  <2> SUFFICES ASSUME LifecycleInv PROVE OneTeardown
    OBVIOUS
  <2> DEFINE T == {c \in Caller : shutdown[c] \in Teardown}
  <2>1. \A c, d \in T : c = d
    BY DEF LifecycleInv, AloneInTeardown
  <2>2. Cardinality(T) <= 1
    <3>1. CASE T = {}
      BY <3>1, FS_EmptySet
    <3>2. CASE T # {}
      <4>1. PICK c \in T : TRUE
        BY <3>2
      <4>2. T = {c}
        BY <2>1, <4>1
      <4> QED BY <4>2, FS_Singleton
    <3> QED BY <3>1, <3>2
  <2>3. teardown = "over" => \A c \in Caller : shutdown[c] \notin Teardown
    BY DEF LifecycleInv, AloneInTeardown
  <2> QED BY <2>2, <2>3 DEF OneTeardown
<1> QED BY <1>1, LifecycleIsInvariant, PTL

\* The goroutines that write job rows have left before the database closes.
THEOREM DatabaseOutlivesWriters == AppSpec => []WritersLeaveFirst
<1>1. LifecycleInv => WritersLeaveFirst
  BY DEF LifecycleInv
<1> QED BY <1>1, LifecycleIsInvariant, PTL

\* Every caller of App.Shutdown is told the outcome of the one teardown.
THEOREM OutcomeIsShared == AppSpec => []SameOutcome
<1>1. LifecycleInv => SameOutcome
  BY DEF LifecycleInv, ResultIsVerdict, SameOutcome
<1> QED BY <1>1, LifecycleIsInvariant, PTL

\* The four together: whatever the goroutines and the callers of Shutdown do, there
\* is one teardown, in order, and all are told how it went.
THEOREM TeardownIsOrdered == AppSpec => []OrderedTeardown
<1>1. LifecycleTypeOK /\ OneTeardown /\ WritersLeaveFirst /\ SameOutcome => OrderedTeardown
  BY DEF OrderedTeardown
<1> QED BY <1>1, LifecycleTypeCorrect, TeardownHappensOnce, DatabaseOutlivesWriters, OutcomeIsShared, PTL

-------------------------------------------------------------------------------
(***************************************************************************)
(* The lists of trackers.  What a refresh has read of its row is still     *)
(* there when it writes, because refreshes of a source take turns and the  *)
(* user's crossing writes are told apart; so a 304 is about the list that  *)
(* is stored.                                                              *)
(***************************************************************************)
USE TrackerAssumptions

Refreshes == [at : {"idle", "lock"} \cup TakesTurn, id : Source, row : Rows, list : List]
TrackerFields ==
    /\ source \in [Source -> Rows] /\ entries \in [Source -> List]
    /\ web \in [Url -> 1 .. 2] /\ slots \in Capacities
    /\ refresh \in [Refresher -> Refreshes]
    /\ editing \in [at : {"idle", "update", "delete"}, id : Source, row : Rows]
    /\ answered \in [Source -> List] /\ mixed \subseteq Source
TurnsAreTaken ==
    \A g, h \in Refresher : g # h /\ {refresh[g].at, refresh[h].at} \subseteq TakesTurn
                              => refresh[g].id # refresh[h].id
SlotsAreKept == Cardinality({g \in Refresher : refresh[g].at \in Fetching}) <= slots

LEMMA TrackerTypeParts == TrackerTypeOK <=> TrackerFields /\ TurnsAreTaken /\ SlotsAreKept
BY DEF TrackerTypeOK, TrackerFields, TurnsAreTaken, SlotsAreKept, Refreshes

\* A row with an ETag is about the list that is stored, unless writes have crossed.
EtagNamesTheList ==
    \A s \in Source : Stored(s) /\ source[s].etag # 0 /\ s \notin mixed
        => /\ entries[s] = source[s].counted /\ entries[s].number = source[s].etag
           /\ entries[s].from = source[s].url

\* A refresh that has asked holds the row as it still is.
RowStillHolds ==
    \A g \in Refresher : LET s == refresh[g].id   held == refresh[g].row IN
        refresh[g].at \in {"ask", "touch", "replace"} /\ Stored(s) /\ s \notin mixed
            => held.etag = source[s].etag /\ held.counted = source[s].counted /\ held.url = source[s].url

\* What a refresh was told, and that its source was not created meanwhile.
AnswersFit ==
    /\ \A g \in Refresher : refresh[g].at # "idle" => source[refresh[g].id] # Unborn
    /\ \A g \in Refresher : refresh[g].at \in {"ask", "touch", "replace"} => refresh[g].row.url \in Url
    /\ \A g \in Refresher : refresh[g].at \in {"touch", "replace"} =>
           refresh[g].list.from = refresh[g].row.url /\ refresh[g].list.number \in 1 .. 2
    /\ \A g \in Refresher : refresh[g].at = "touch" => refresh[g].row.etag = refresh[g].list.number
    /\ editing.at = "update" => editing.row.url \in Url

TrackerInv ==
    TrackerFields /\ TurnsAreTaken /\ SlotsAreKept /\ EtagNamesTheList /\ RowStillHolds /\ AnswersFit
    /\ CheckedIsCurrent

LEMMA TrackerShapes ==
    /\ NoList \in List /\ NoRow \in Rows /\ Unborn \in Rows /\ Deleted \in Rows
    /\ Unborn.url = "none" /\ Deleted.url = "none" /\ Deleted # Unborn /\ NoRow # Unborn
    /\ \A u \in Url : /\ Row(u) \in Rows /\ Row(u).url = u /\ Row(u).etag = 0 /\ Row(u).last = "never"
    /\ Resting \in Refreshes /\ Resting.at = "idle"
    /\ NotEditing \in [at : {"idle", "update", "delete"}, id : Source, row : Rows] /\ NotEditing.at = "idle"
<1>1. NoList \in List
  BY DEF NoList, List
<1>2. /\ NoRow \in Rows /\ Unborn \in Rows /\ Deleted \in Rows
      /\ Unborn.url = "none" /\ Deleted.url = "none" /\ Unborn.last = "unborn" /\ Deleted.last = "deleted"
      /\ NoRow.last = "never"
      /\ \A u \in Url : /\ Row(u) \in Rows /\ Row(u).url = u /\ Row(u).etag = 0 /\ Row(u).last = "never"
  <2>1. \A u \in Url \cup {"none"} :
            Row(u) \in Rows /\ Row(u).url = u /\ Row(u).etag = 0 /\ Row(u).last = "never"
    BY <1>1 DEF Row, Rows
  <2>2. NoRow \in Rows /\ NoRow.url = "none" /\ NoRow.last = "never"
    <3>1. Row("none") \in Rows /\ Row("none").url = "none" /\ Row("none").last = "never"
      BY <2>1
    <3>2. \A r \in Rows : /\ [r EXCEPT !.enabled = FALSE] \in Rows
                          /\ [r EXCEPT !.enabled = FALSE].url = r.url /\ [r EXCEPT !.enabled = FALSE].last = r.last
      BY DEF Rows
    <3> QED BY <3>1, <3>2 DEF NoRow
  <2>3. Unborn \in Rows /\ Unborn.url = "none" /\ Unborn.last = "unborn"
    BY <2>2 DEF Unborn, Rows
  <2>4. Deleted \in Rows /\ Deleted.url = "none" /\ Deleted.last = "deleted"
    BY <2>2 DEF Deleted, Rows
  <2> QED BY <2>1, <2>2, <2>3, <2>4
<1>3. (CHOOSE s \in Source : TRUE) \in Source
  OBVIOUS
<1> QED BY <1>1, <1>2, <1>3 DEF Resting, NotEditing, Refreshes

LEMMA TrackerInvInit ==
    ASSUME TrackerInit
    PROVE  TrackerInv
<1>1. /\ \A s \in Source : source[s] = Unborn /\ \A g \in Refresher : refresh[g] = Resting
      /\ editing = NotEditing
  BY DEF TrackerInit
<1>2. TrackerFields
  BY TrackerShapes DEF TrackerInit, TrackerFields
<1>3. {g \in Refresher : refresh[g].at \in Fetching} = {}
  BY <1>1, TrackerShapes DEF Fetching, TakesTurn
<1>4. SlotsAreKept
  <2>1. Cardinality({}) = 0 /\ slots \in Nat /\ 0 <= slots
    BY <1>2, FS_EmptySet DEF TrackerFields
  <2> QED BY <1>3, <2>1 DEF SlotsAreKept
<1> QED BY <1>1, <1>2, <1>4, TrackerShapes DEF TrackerInv, TurnsAreTaken, EtagNamesTheList, RowStillHolds,
          AnswersFit, CheckedIsCurrent, Stored, TakesTurn

\* A refresh that does not go on to fetch takes no slot.
LEMMA NoSlotTaken ==
    ASSUME TrackerFields, SlotsAreKept, UNCHANGED slots,
           \A h \in Refresher : refresh'[h].at \in Fetching => refresh[h].at \in Fetching
    PROVE  SlotsAreKept'
<1> DEFINE F == {h \in Refresher : refresh[h].at \in Fetching}
           G == {h \in Refresher : refresh'[h].at \in Fetching}
<1>1. G \subseteq F /\ IsFiniteSet(F)
  BY FS_Subset
<1>2. Cardinality(G) <= Cardinality(F) /\ Cardinality(F) \in Nat /\ Cardinality(G) \in Nat /\ slots \in Nat
  BY <1>1, FS_Subset, FS_CardinalityType DEF TrackerFields
<1>3. Cardinality(G) <= slots
  BY <1>2 DEF SlotsAreKept
<1> QED BY <1>3 DEF SlotsAreKept

\* The user's requests, and the servers.
LEMMA UserKeepsTrackerInv ==
    ASSUME TrackerInv,
           \/ \E s \in Source, u \in Url : Create(s, u) \/ \E on \in BOOLEAN : EditBegins(s, "update", u, on)
           \/ \E s \in Source : EditBegins(s, "delete", source[s].url, FALSE)
           \/ Update \/ Delete
           \/ \E u \in Url : ServerChanges(u)
    PROVE  TrackerInv'
<1> USE DEF TrackerInv
<1>1. refresh' = refresh /\ slots' = slots
  BY DEF Create, EditBegins, Update, Delete, ServerChanges
<1>2. TurnsAreTaken'
  BY <1>1 DEF TurnsAreTaken
<1>3. SlotsAreKept'
  BY <1>1, NoSlotTaken
<1>4. source \in [Source -> Rows] /\ entries \in [Source -> List] /\ refresh \in [Refresher -> Refreshes]
      /\ \A g \in Refresher : refresh[g].id \in Source
  BY DEF TrackerFields, Refreshes
<1>5. ASSUME NEW s \in Source, NEW u \in Url, Create(s, u)
      PROVE  TrackerInv'
  <2>1. /\ source[s] = Unborn /\ source' = [source EXCEPT ![s] = Row(u)]
        /\ UNCHANGED <<entries, web, editing, answered, mixed>>
    BY <1>5 DEF Create
  <2>2. TrackerFields'
    BY <1>1, <2>1, TrackerShapes DEF TrackerFields
  <2>3. \A g \in Refresher : refresh[g].at # "idle" => refresh[g].id # s
    BY <2>1 DEF AnswersFit
  <2>4. \A z \in Source : z # s => source'[z] = source[z]
    BY <1>4, <2>1
  <2>5. source'[s] = Row(u) /\ Row(u).etag = 0 /\ Row(u).last = "never"
    BY <1>4, <2>1, TrackerShapes
  <2>6. EtagNamesTheList' /\ CheckedIsCurrent'
    BY <2>1, <2>4, <2>5 DEF EtagNamesTheList, CheckedIsCurrent, Stored
  <2>7. RowStillHolds' /\ AnswersFit'
    BY <1>1, <1>4, <2>1, <2>3, <2>4 DEF RowStillHolds, AnswersFit, Stored
  <2> QED BY <1>2, <1>3, <2>2, <2>6, <2>7
<1>6. ASSUME NEW s \in Source, NEW op \in {"update", "delete"}, NEW u, NEW on \in BOOLEAN,
             EditBegins(s, op, u, on), u \in Url \/ (op = "delete" /\ u = source[s].url)
      PROVE  TrackerInv'
  <2>1. /\ editing' = [at |-> op, id |-> s, row |-> [source[s] EXCEPT !.url = u, !.enabled = on]]
        /\ UNCHANGED <<web, source, entries, answered, mixed>>
    BY <1>6 DEF EditBegins, TablesStay
  <2>2. source[s] \in Rows /\ u \in Url \cup {"none"}
    BY <1>4, <1>6 DEF Rows
  <2>3. [source[s] EXCEPT !.url = u, !.enabled = on] \in Rows /\ [source[s] EXCEPT !.url = u, !.enabled = on].url = u
    BY <2>2 DEF Rows
  <2>4. TrackerFields'
    BY <1>1, <2>1, <2>3 DEF TrackerFields
  <2> QED BY <1>1, <1>2, <1>3, <1>6, <2>1, <2>3, <2>4 DEF EtagNamesTheList, RowStillHolds, AnswersFit, CheckedIsCurrent, Stored
<1>7. CASE Update
  <2> DEFINE s == editing.id
  <2>1. /\ editing.at = "update" /\ editing' = NotEditing /\ UNCHANGED web /\ editing.row \in Rows /\ s \in Source
        /\ editing.row.url \in Url
    BY <1>7 DEF Update, TrackerFields, AnswersFit
  <2>2. CASE UNCHANGED <<source, entries, answered, mixed>>
    BY <1>1, <1>2, <1>3, <2>1, <2>2, TrackerShapes
    DEF TrackerFields, EtagNamesTheList, RowStillHolds, AnswersFit, CheckedIsCurrent, Stored
  <2>3. CASE /\ Stored(s) /\ source' = [source EXCEPT ![s] = editing.row]
             /\ mixed' = IF SameFetchState(source[s], editing.row) /\ source[s].url = editing.row.url
                         THEN mixed ELSE mixed \cup {s}
             /\ UNCHANGED <<entries, answered>>
    <3>1. TrackerFields'
      BY <1>1, <2>1, <2>3, TrackerShapes DEF TrackerFields
    <3>2. /\ mixed \subseteq mixed' /\ source'[s] = editing.row /\ \A z \in Source : z # s => source'[z] = source[z]
          /\ s \notin mixed' => /\ source'[s].etag = source[s].etag /\ source'[s].last = source[s].last
                                /\ source'[s].counted = source[s].counted /\ source'[s].url = source[s].url
      BY <1>4, <2>1, <2>3 DEF SameFetchState
    <3>3. EtagNamesTheList' /\ CheckedIsCurrent'
      BY <2>3, <3>2 DEF EtagNamesTheList, CheckedIsCurrent, Stored
    <3>4. RowStillHolds'
      BY <1>1, <1>4, <2>3, <3>2 DEF RowStillHolds, Stored
    <3>5. AnswersFit'
      <4>1. source'[s] # Unborn
        BY <2>1, <3>2, TrackerShapes
      <4> QED BY <1>1, <1>4, <2>1, <3>2, <4>1, TrackerShapes DEF AnswersFit
    <3> QED BY <1>2, <1>3, <3>1, <3>3, <3>4, <3>5
  <2> QED BY <1>7, <2>2, <2>3 DEF Update, TablesStay
<1>8. CASE Delete
  <2> DEFINE s == editing.id
  <2>1. /\ editing' = NotEditing /\ UNCHANGED <<web, answered, mixed>> /\ s \in Source
        /\ \/ UNCHANGED <<source, entries>>
           \/ source' = [source EXCEPT ![s] = Deleted] /\ entries' = [entries EXCEPT ![s] = NoList]
    BY <1>8 DEF Delete, TrackerFields
  <2>2. TrackerFields'
    BY <1>1, <2>1, TrackerShapes DEF TrackerFields
  <2>3. /\ \A z \in Source : \/ source'[z] = source[z] /\ entries'[z] = entries[z]
                             \/ source'[z] = Deleted
    BY <1>4, <2>1
  <2>4. EtagNamesTheList' /\ RowStillHolds' /\ CheckedIsCurrent'
    BY <1>1, <1>4, <2>1, <2>3, TrackerShapes DEF EtagNamesTheList, RowStillHolds, CheckedIsCurrent, Stored
  <2>5. AnswersFit'
    BY <1>1, <1>4, <2>1, <2>3, TrackerShapes DEF AnswersFit
  <2> QED BY <1>2, <1>3, <2>2, <2>4, <2>5
<1>9. ASSUME NEW u \in Url, ServerChanges(u)
      PROVE  TrackerInv'
  <2>1. web' = [web EXCEPT ![u] = 3 - @] /\ UNCHANGED <<editing, source, entries, answered, mixed>>
    BY <1>9 DEF ServerChanges, TablesStay
  <2>2. web' \in [Url -> 1 .. 2]
    BY <2>1 DEF TrackerFields
  <2>3. TrackerFields'
    BY <1>1, <2>1, <2>2 DEF TrackerFields
  <2> QED BY <1>1, <1>2, <1>3, <2>1, <2>3 DEF EtagNamesTheList, RowStillHolds, AnswersFit, CheckedIsCurrent, Stored
<1> QED BY <1>5, <1>6, <1>7, <1>8, <1>9

\* One refresh moves; the others stay where they were.
LEMMA RefreshKeepsTrackerInv ==
    ASSUME TrackerInv, NEW g \in Refresher,
           RefreshStep(g) \/ GivesUp(g) \/ \E s \in Source : RefreshBegins(g, s)
    PROVE  TrackerInv'
<1> USE DEF TrackerInv
<1>1. web' = web /\ slots' = slots /\ editing' = editing
  BY DEF RefreshStep, GivesUp, RefreshBegins, SourceLock, Slot, ReadSource, Ask, NotModified, ReplaceEntries,
         RecordFailure, Others
<1>2. /\ source \in [Source -> Rows] /\ entries \in [Source -> List] /\ answered \in [Source -> List]
      /\ refresh \in [Refresher -> Refreshes] /\ \A h \in Refresher : refresh[h].id \in Source
      /\ refresh[g] \in Refreshes
      /\ refresh[g].row \in Rows /\ refresh[g].list \in List
  BY DEF TrackerFields, Refreshes
<1>3. \A h \in Refresher : h # g => refresh'[h] = refresh[h]
  <2>1. CASE Ask(g)
    BY <2>1, <1>2 DEF Ask, Turn
  <2>2. CASE \E s \in Source : RefreshBegins(g, s)
    BY <2>2, <1>2 DEF RefreshBegins
  <2>3. CASE ReadSource(g)
    BY <2>3, <1>2 DEF ReadSource, Leaves
  <2>4. CASE SourceLock(g) \/ Slot(g)
    BY <2>4, <1>2 DEF SourceLock, Slot, Turn
  <2>5. CASE NotModified(g) \/ ReplaceEntries(g) \/ RecordFailure(g) \/ GivesUp(g)
    BY <2>5, <1>2 DEF NotModified, ReplaceEntries, RecordFailure, GivesUp, Leaves
  <2> QED BY <2>1, <2>2, <2>3, <2>4, <2>5 DEF RefreshStep
<1>4. ASSUME TablesStay, refresh'[g] \in Refreshes, refresh' \in [Refresher -> Refreshes],
             refresh'[g].at \in TakesTurn => refresh'[g].id = refresh[g].id /\ refresh[g].at \in TakesTurn,
             refresh'[g].at \in Fetching => refresh[g].at \in Fetching,
             refresh'[g].at # "idle" => source[refresh'[g].id] # Unborn,
             refresh'[g].at \in {"ask", "touch", "replace"} =>
                 /\ refresh'[g].row.url \in Url
                 /\ \/ refresh[g].at \in {"ask", "touch", "replace"} /\ refresh'[g].row = refresh[g].row
                    \/ refresh'[g].row = source[refresh'[g].id],
             refresh'[g].at \in {"touch", "replace"} =>
                 refresh'[g].list.from = refresh'[g].row.url /\ refresh'[g].list.number \in 1 .. 2,
             refresh'[g].at = "touch" => refresh'[g].row.etag = refresh'[g].list.number
      PROVE  TrackerInv'
  <2>1. UNCHANGED <<source, entries, answered, mixed>>
    BY <1>4 DEF TablesStay
  <2>2. TrackerFields'
    BY <1>1, <1>4, <2>1 DEF TrackerFields
  <2>3. TurnsAreTaken'
    BY <1>3, <1>4 DEF TurnsAreTaken
  <2>4. SlotsAreKept'
    BY <1>1, <1>3, <1>4, NoSlotTaken
  <2>5. EtagNamesTheList' /\ CheckedIsCurrent'
    BY <2>1 DEF EtagNamesTheList, CheckedIsCurrent, Stored
  <2>6. RowStillHolds'
    <3> SUFFICES ASSUME NEW h \in Refresher, refresh'[h].at \in {"ask", "touch", "replace"},
                        Stored(refresh'[h].id), refresh'[h].id \notin mixed
                 PROVE  LET s == refresh'[h].id   held == refresh'[h].row IN
                        held.etag = source[s].etag /\ held.counted = source[s].counted /\ held.url = source[s].url
      BY <2>1 DEF RowStillHolds, Stored
    <3>1. CASE h # g
      BY <1>3, <3>1 DEF RowStillHolds
    <3>2. CASE h = g
      <4>1. refresh'[g].id = refresh[g].id
        BY <1>4, <3>2 DEF TakesTurn
      <4> QED BY <1>4, <3>2, <4>1 DEF RowStillHolds
    <3> QED BY <3>1, <3>2
  <2>7. AnswersFit'
    BY <1>1, <1>3, <1>4, <2>1 DEF AnswersFit
  <2> QED BY <2>2, <2>3, <2>4, <2>5, <2>6, <2>7
<1>5. ASSUME NEW s \in Source, RefreshBegins(g, s)
      PROVE  TrackerInv'
  <2>1. refresh' = [refresh EXCEPT ![g].at = "lock", ![g].id = s] /\ TablesStay /\ source[s] # Unborn
    BY <1>5 DEF RefreshBegins
  <2>2. refresh'[g] \in Refreshes /\ refresh'[g].at = "lock" /\ refresh'[g].id = s /\ refresh' \in [Refresher -> Refreshes]
    BY <1>2, <2>1 DEF Refreshes
  <2> QED BY <1>4, <2>1, <2>2 DEF TakesTurn, Fetching
<1>6. CASE SourceLock(g)
  <2>1. /\ refresh[g].at = "lock" /\ refresh' = [refresh EXCEPT ![g].at = "slot"]
        /\ UNCHANGED <<source, entries, answered, mixed>>
        /\ \A h \in Refresher \ {g} : refresh[h].at \in TakesTurn => refresh[h].id # refresh[g].id
    BY <1>6 DEF SourceLock, Turn, TablesStay
  <2>2. /\ refresh' \in [Refresher -> Refreshes] /\ refresh'[g].at = "slot" /\ refresh'[g].id = refresh[g].id
    BY <1>2, <2>1 DEF Refreshes, TakesTurn
  <2>3. TrackerFields'
    BY <1>1, <2>1, <2>2 DEF TrackerFields
  <2>4. TurnsAreTaken'
    BY <1>3, <2>1, <2>2 DEF TurnsAreTaken
  <2>5. SlotsAreKept'
    BY <1>1, <1>3, <2>2, NoSlotTaken DEF Fetching
  <2>6. EtagNamesTheList' /\ CheckedIsCurrent'
    BY <2>1 DEF EtagNamesTheList, CheckedIsCurrent, Stored
  <2>7. RowStillHolds' /\ AnswersFit'
    BY <1>1, <1>3, <2>1, <2>2 DEF RowStillHolds, AnswersFit, Stored
  <2> QED BY <2>3, <2>4, <2>5, <2>6, <2>7
<1>7. CASE Slot(g)
  <2>1. /\ refresh[g].at = "slot" /\ refresh' = [refresh EXCEPT ![g].at = "read"]
        /\ UNCHANGED <<source, entries, answered, mixed>>
        /\ Cardinality({h \in Refresher : refresh[h].at \in Fetching}) < slots
    BY <1>7 DEF Slot, Turn, TablesStay
  <2>2. /\ refresh' \in [Refresher -> Refreshes] /\ refresh'[g].at = "read" /\ refresh'[g].id = refresh[g].id
    BY <1>2, <2>1 DEF Refreshes, TakesTurn
  <2>3. TrackerFields'
    BY <1>1, <2>1, <2>2 DEF TrackerFields
  <2>4. TurnsAreTaken'
    BY <1>3, <2>1, <2>2 DEF TurnsAreTaken, TakesTurn
  <2>5. SlotsAreKept'
    <3> DEFINE F == {h \in Refresher : refresh[h].at \in Fetching}
               G == {h \in Refresher : refresh'[h].at \in Fetching}
    <3>1. G = F \cup {g} /\ g \notin F
      BY <1>3, <2>1, <2>2 DEF Fetching, TakesTurn
    <3>2. IsFiniteSet(F) /\ Cardinality(F) \in Nat
      BY FS_Subset, FS_CardinalityType
    <3>3. Cardinality(G) = Cardinality(F) + 1
      BY <3>1, <3>2, FS_AddElement
    <3>4. slots \in Nat
      BY DEF TrackerFields
    <3>5. Cardinality(G) <= slots
      BY <2>1, <3>2, <3>3, <3>4
    <3> QED BY <1>1, <3>5 DEF SlotsAreKept
  <2>6. EtagNamesTheList' /\ CheckedIsCurrent'
    BY <2>1 DEF EtagNamesTheList, CheckedIsCurrent, Stored
  <2>7. RowStillHolds' /\ AnswersFit'
    BY <1>1, <1>3, <2>1, <2>2 DEF RowStillHolds, AnswersFit, Stored
  <2> QED BY <2>3, <2>4, <2>5, <2>6, <2>7
<1>8. ASSUME refresh' = [refresh EXCEPT ![g] = Resting], TablesStay
      PROVE  TrackerInv'
  <2>1. refresh'[g] = Resting /\ refresh' \in [Refresher -> Refreshes]
    BY <1>2, <1>8, TrackerShapes
  <2> QED BY <1>4, <1>8, <2>1, TrackerShapes DEF TakesTurn, Fetching
<1>9. CASE ReadSource(g)
  <2>1. CASE ~Stored(refresh[g].id)
    BY <1>8, <1>9, <2>1 DEF ReadSource, Leaves
  <2>2. CASE Stored(refresh[g].id)
    <3>1. /\ refresh[g].at = "read" /\ TablesStay
          /\ refresh' = [refresh EXCEPT ![g].at = "ask", ![g].row = source[refresh[g].id]]
      BY <1>9, <2>2 DEF ReadSource
    <3>2. /\ refresh'[g] \in Refreshes /\ refresh'[g].at = "ask" /\ refresh'[g].id = refresh[g].id
          /\ refresh'[g].row = source[refresh[g].id] /\ refresh' \in [Refresher -> Refreshes]
      BY <1>2, <3>1 DEF Refreshes, TakesTurn
    <3>3. refresh'[g].row.url \in Url
      BY <1>2, <2>2, <3>2 DEF Stored, Rows
    <3>4. source[refresh'[g].id] # Unborn
      BY <3>1, <3>2 DEF AnswersFit
    <3> QED BY <1>4, <3>1, <3>2, <3>3, <3>4 DEF TakesTurn, Fetching
  <2> QED BY <2>1, <2>2
<1>10. CASE Ask(g)
  <2> DEFINE u == refresh[g].row.url
             list == [from |-> u, number |-> web[u]]
  <2>1. refresh[g].at = "ask" /\ TablesStay /\ u \in Url /\ source[refresh[g].id] # Unborn
    BY <1>10 DEF Ask, AnswersFit
  <2>2. web[u] \in 1 .. 2 /\ list \in List
    BY <2>1 DEF TrackerFields, List
  <2>3. CASE refresh' = [refresh EXCEPT ![g].list = list,
                               ![g].at = IF refresh[g].row.etag = web[u] THEN "touch" ELSE "replace"]
    <3>1. /\ refresh' \in [Refresher -> Refreshes] /\ refresh'[g] \in Refreshes
          /\ refresh'[g].at = (IF refresh[g].row.etag = web[u] THEN "touch" ELSE "replace")
          /\ refresh'[g].list = list /\ refresh'[g].row = refresh[g].row /\ refresh'[g].id = refresh[g].id
      BY <1>2, <2>2, <2>3 DEF Refreshes, TakesTurn
    <3> QED BY <1>4, <2>1, <2>2, <3>1 DEF TakesTurn, Fetching
  <2>4. CASE Turn(g, "fail")
    <3>1. /\ refresh' \in [Refresher -> Refreshes] /\ refresh'[g] \in Refreshes
          /\ refresh'[g].at = "fail" /\ refresh'[g].id = refresh[g].id
      BY <1>2, <2>4 DEF Turn, Refreshes, TakesTurn
    <3> QED BY <1>4, <2>1, <3>1 DEF TakesTurn, Fetching
  <2> QED BY <1>10, <2>3, <2>4 DEF Ask
<1>11. CASE GivesUp(g)
  BY <1>8, <1>11 DEF GivesUp, Leaves
\* Ways out that write.
<1>12. ASSUME refresh[g].at \in {"touch", "replace", "fail"}, refresh' = [refresh EXCEPT ![g] = Resting],
              NEW s \in Source, s = refresh[g].id,
              source' \in [Source -> Rows], entries' \in [Source -> List], answered' \in [Source -> List],
              mixed' \subseteq Source,
              \A z \in Source : z # s => /\ source'[z] = source[z] /\ entries'[z] = entries[z]
                                         /\ answered'[z] = answered[z] /\ (z \in mixed' <=> z \in mixed),
              source'[s] # Unborn,
              source'[s].url # "none" /\ s \notin mixed' =>
                  /\ source'[s].etag # 0 => /\ entries'[s] = source'[s].counted
                                            /\ entries'[s].number = source'[s].etag
                                            /\ entries'[s].from = source'[s].url
                  /\ source'[s].last = "ok" =>
                         /\ entries'[s] = answered'[s] /\ source'[s].counted = entries'[s]
                         /\ source'[s].etag = entries'[s].number
       PROVE  TrackerInv'
  <2>1. refresh'[g] = Resting /\ refresh'[g].at = "idle" /\ refresh' \in [Refresher -> Refreshes]
    BY <1>2, <1>12, TrackerShapes
  <2>2. TrackerFields'
    BY <1>1, <1>12, <2>1 DEF TrackerFields
  <2>3. TurnsAreTaken'
    BY <1>3, <2>1 DEF TurnsAreTaken, TakesTurn
  <2>4. SlotsAreKept'
    BY <1>1, <1>3, <2>1, NoSlotTaken DEF Fetching, TakesTurn
  <2>5. EtagNamesTheList' /\ CheckedIsCurrent'
    <3>1. ASSUME NEW z \in Source
          PROVE  /\ source'[z].url # "none" /\ source'[z].etag # 0 /\ z \notin mixed'
                      => /\ entries'[z] = source'[z].counted /\ entries'[z].number = source'[z].etag
                         /\ entries'[z].from = source'[z].url
                 /\ source'[z].url # "none" /\ source'[z].last = "ok" /\ z \notin mixed'
                      => /\ entries'[z] = answered'[z] /\ source'[z].counted = entries'[z]
                         /\ source'[z].etag = entries'[z].number
      <4>1. CASE z = s
        <5>1. /\ source'[s].url # "none" /\ source'[s].etag # 0 /\ s \notin mixed'
                   => /\ entries'[s] = source'[s].counted /\ entries'[s].number = source'[s].etag
                      /\ entries'[s].from = source'[s].url
              /\ source'[s].url # "none" /\ source'[s].last = "ok" /\ s \notin mixed'
                   => /\ entries'[s] = answered'[s] /\ source'[s].counted = entries'[s]
                      /\ source'[s].etag = entries'[s].number
          BY <1>12
        <5> QED BY <4>1, <5>1
      <4>2. CASE z # s
        <5>1. /\ source'[z] = source[z] /\ entries'[z] = entries[z] /\ answered'[z] = answered[z]
              /\ (z \in mixed' <=> z \in mixed) /\ (source'[z].url # "none" <=> Stored(z))
          BY <1>12, <4>2 DEF Stored
        <5>2. /\ Stored(z) /\ source[z].etag # 0 /\ z \notin mixed
                   => /\ entries[z] = source[z].counted /\ entries[z].number = source[z].etag
                      /\ entries[z].from = source[z].url
              /\ Stored(z) /\ source[z].last = "ok" /\ z \notin mixed
                   => /\ entries[z] = answered[z] /\ source[z].counted = entries[z]
                      /\ source[z].etag = entries[z].number
          BY DEF EtagNamesTheList, CheckedIsCurrent
        <5> QED BY <5>1, <5>2
      <4> QED BY <4>1, <4>2
    <3>2. EtagNamesTheList'
      BY <3>1 DEF EtagNamesTheList, Stored
    <3>3. CheckedIsCurrent'
      BY <3>1 DEF CheckedIsCurrent, Stored
    <3> QED BY <3>2, <3>3
  <2>6. \A h \in Refresher : h # g /\ refresh[h].at \in TakesTurn => refresh[h].id # s
    BY <1>12 DEF TurnsAreTaken, TakesTurn
  <2>7. RowStillHolds'
    BY <1>2, <1>3, <1>12, <2>1, <2>6 DEF RowStillHolds, TakesTurn, Stored
  <2>8. AnswersFit'
    BY <1>1, <1>2, <1>3, <1>12, <2>1 DEF AnswersFit
  <2> QED BY <2>2, <2>3, <2>4, <2>5, <2>7, <2>8
<1>13. CASE NotModified(g)
  <2> DEFINE s == refresh[g].id
             held == refresh[g].row
             list == refresh[g].list
  <2>1. refresh[g].at = "touch" /\ refresh' = [refresh EXCEPT ![g] = Resting] /\ s \in Source
    BY <1>2, <1>13 DEF NotModified, Leaves
  <2>2. CASE TablesStay
    BY <1>8, <2>1, <2>2
  <2>3. CASE /\ Stored(s) /\ source' = [source EXCEPT ![s] = [held EXCEPT !.last = "ok"]]
             /\ answered' = [answered EXCEPT ![s] = list] /\ UNCHANGED <<entries, mixed>>
    <3>1. /\ held.url \in Url /\ list.from = held.url /\ list.number \in 1 .. 2 /\ held.etag = list.number
      BY <2>1 DEF AnswersFit
    <3>2. /\ source' \in [Source -> Rows] /\ answered' \in [Source -> List]
          /\ source'[s] = [held EXCEPT !.last = "ok"] /\ answered'[s] = list
          /\ \A z \in Source : z # s => source'[z] = source[z] /\ answered'[z] = answered[z]
      BY <1>2, <2>1, <2>3 DEF Rows
    <3>3. /\ source'[s].url = held.url /\ source'[s].etag = held.etag /\ source'[s].counted = held.counted
      BY <1>2, <3>2 DEF Rows
    <3>4. source'[s] # Unborn
      BY <3>1, <3>3, TrackerShapes
    <3>5. s \notin mixed => /\ entries[s] = held.counted /\ entries[s].number = held.etag /\ entries[s].from = held.url
      <4>1. s \notin mixed => held.etag = source[s].etag /\ held.counted = source[s].counted /\ held.url = source[s].url
        BY <2>1, <2>3 DEF RowStillHolds
      <4> QED BY <2>1, <2>3, <3>1, <4>1 DEF EtagNamesTheList
    <3>6. s \notin mixed => entries[s] = list
      <4>1. \A a, b \in List : a.from = b.from /\ a.number = b.number => a = b
        BY DEF List
      <4>2. entries[s] \in List /\ list \in List
        BY <1>2, <2>1
      <4> QED BY <3>1, <3>5, <4>1, <4>2
    <3>7. entries' \in [Source -> List] /\ mixed' \subseteq Source
      BY <2>3 DEF TrackerFields
    <3>8. s \notin mixed' =>
              /\ entries'[s] = answered'[s] /\ source'[s].counted = entries'[s]
              /\ entries'[s].number = source'[s].etag /\ entries'[s].from = source'[s].url
      BY <2>3, <3>1, <3>2, <3>3, <3>5, <3>6
    <3>9. \A z \in Source : z # s => /\ source'[z] = source[z] /\ entries'[z] = entries[z]
                                      /\ answered'[z] = answered[z] /\ (z \in mixed' <=> z \in mixed)
      BY <2>3, <3>2
    <3>10. source' \in [Source -> Rows] /\ answered' \in [Source -> List]
      BY <3>2
    <3> HIDE DEF s, held, list
    <3> QED BY <1>12, <2>1, <3>4, <3>7, <3>8, <3>9, <3>10 DEF s
  <2> QED BY <1>13, <2>2, <2>3 DEF NotModified
<1>14. CASE ReplaceEntries(g)
  <2> DEFINE s == refresh[g].id
             list == refresh[g].list
  <2>1. /\ refresh[g].at = "replace" /\ refresh' = [refresh EXCEPT ![g] = Resting] /\ s \in Source
        /\ entries' = [entries EXCEPT ![s] = list] /\ answered' = [answered EXCEPT ![s] = list]
        /\ source' = IF Stored(s)
                     THEN [source EXCEPT ![s].etag = list.number, ![s].last = "ok", ![s].counted = list]
                     ELSE source
        /\ mixed' = IF Stored(s) /\ source[s].url = list.from THEN mixed \ {s} ELSE mixed \cup {s}
    BY <1>2, <1>14 DEF ReplaceEntries, Leaves, Replaced
  <2>2. source[s] \in Rows /\ source[s] # Unborn
    BY <1>2, <2>1 DEF AnswersFit
  <2>3. entries' \in [Source -> List] /\ answered' \in [Source -> List] /\ mixed' \subseteq Source
    BY <1>2, <2>1 DEF TrackerFields
  <2>4. /\ \A z \in Source : z # s => /\ source'[z] = source[z] /\ entries'[z] = entries[z]
                                      /\ answered'[z] = answered[z] /\ (z \in mixed' <=> z \in mixed)
        /\ entries'[s] = list /\ answered'[s] = list
    BY <1>2, <2>1
  <2>5. CASE Stored(s)
    <3>1. source' = [source EXCEPT ![s].etag = list.number, ![s].last = "ok", ![s].counted = list]
      BY <2>1, <2>5
    <3>2. /\ source'[s].etag = list.number /\ source'[s].last = "ok" /\ source'[s].counted = list
          /\ source'[s].url = source[s].url /\ source' \in [Source -> Rows]
      <4> DEFINE new == [[[source[s] EXCEPT !.etag = list.number] EXCEPT !.last = "ok"] EXCEPT !.counted = list]
      <4>1. list \in List /\ list.number \in 0 .. 2
        BY <1>2 DEF List
      <4>2. \A r \in Rows : \A n \in 0 .. 2 :
                /\ [r EXCEPT !.etag = n] \in Rows /\ [r EXCEPT !.etag = n].etag = n
                /\ [r EXCEPT !.etag = n].url = r.url
        BY DEF Rows
      <4>3. \A r \in Rows :
                /\ [r EXCEPT !.last = "ok"] \in Rows /\ [r EXCEPT !.last = "ok"].last = "ok"
                /\ [r EXCEPT !.last = "ok"].url = r.url /\ [r EXCEPT !.last = "ok"].etag = r.etag
        BY DEF Rows
      <4>4. \A r \in Rows : \A l \in List :
                /\ [r EXCEPT !.counted = l] \in Rows /\ [r EXCEPT !.counted = l].counted = l
                /\ [r EXCEPT !.counted = l].url = r.url /\ [r EXCEPT !.counted = l].etag = r.etag
                /\ [r EXCEPT !.counted = l].last = r.last
        BY DEF Rows
      <4>5. /\ new \in Rows /\ new.etag = list.number /\ new.last = "ok" /\ new.counted = list
            /\ new.url = source[s].url
        <5> DEFINE a == [source[s] EXCEPT !.etag = list.number]
                   b == [a EXCEPT !.last = "ok"]
        <5>1. a \in Rows /\ a.etag = list.number /\ a.url = source[s].url
          BY <2>2, <4>1, <4>2
        <5> HIDE DEF a
        <5>2. b \in Rows /\ b.last = "ok" /\ b.url = a.url /\ b.etag = a.etag
          BY <5>1, <4>3
        <5> HIDE DEF b
        <5>3. new = [b EXCEPT !.counted = list]
          BY DEF a, b
        <5> HIDE DEF new
        <5> QED BY <4>1, <4>4, <5>1, <5>2, <5>3
      <4>6. source' = [source EXCEPT ![s] = new]
        BY <1>2, <2>1, <3>1
      <4> HIDE DEF new
      <4>7. source'[s] = new /\ source' \in [Source -> Rows]
        <5>1. source \in [Source -> Rows] /\ s \in Source /\ new \in Rows
          BY <1>2, <2>1, <4>5
        <5> HIDE DEF s
        <5> QED BY <4>6, <5>1
      <4> QED BY <4>5, <4>7
    <3>3. source'[s] # Unborn
      BY <2>5, <3>2, TrackerShapes DEF Stored
    <3>4. s \notin mixed' => source[s].url = list.from
      BY <2>1
    <3>5. source'[s].url # "none" /\ s \notin mixed' =>
              /\ source'[s].etag # 0 => /\ entries'[s] = source'[s].counted
                                        /\ entries'[s].number = source'[s].etag
                                        /\ entries'[s].from = source'[s].url
              /\ source'[s].last = "ok" =>
                     /\ entries'[s] = answered'[s] /\ source'[s].counted = entries'[s]
                     /\ source'[s].etag = entries'[s].number
      BY <2>4, <3>2, <3>4
    <3> HIDE DEF s, list
    <3> QED BY <1>12, <2>1, <2>3, <2>4, <3>2, <3>3, <3>5 DEF s
  <2>6. CASE ~Stored(s)
    <3>1. source' = source /\ s \in mixed'
      BY <2>1, <2>6
    <3>2. source' \in [Source -> Rows] /\ source'[s] # Unborn
      BY <1>2, <2>2, <3>1
    <3>3. source'[s].url # "none" /\ s \notin mixed' =>
              /\ source'[s].etag # 0 => /\ entries'[s] = source'[s].counted
                                        /\ entries'[s].number = source'[s].etag
                                        /\ entries'[s].from = source'[s].url
              /\ source'[s].last = "ok" =>
                     /\ entries'[s] = answered'[s] /\ source'[s].counted = entries'[s]
                     /\ source'[s].etag = entries'[s].number
      BY <3>1
    <3> HIDE DEF s, list
    <3> QED BY <1>12, <2>1, <2>3, <2>4, <3>2, <3>3 DEF s
  <2> QED BY <2>5, <2>6
<1>15. CASE RecordFailure(g)
  <2> DEFINE s == refresh[g].id
  <2>1. /\ refresh[g].at = "fail" /\ refresh' = [refresh EXCEPT ![g] = Resting] /\ s \in Source
        /\ UNCHANGED <<entries, answered, mixed>>
        /\ source' = IF Stored(s) THEN [source EXCEPT ![s].last = "failed"] ELSE source
    BY <1>2, <1>15 DEF RecordFailure, Leaves
  <2>2. source[s] \in Rows /\ source[s] # Unborn
    BY <1>2, <2>1 DEF AnswersFit
  <2>3. CASE ~Stored(s)
    BY <1>8, <2>1, <2>3 DEF TablesStay
  <2>4. CASE Stored(s)
    <3>1. /\ source' \in [Source -> Rows] /\ source'[s].url = source[s].url /\ source'[s].etag = source[s].etag
          /\ source'[s].counted = source[s].counted /\ source'[s].last = "failed"
          /\ \A z \in Source : z # s => source'[z] = source[z]
      BY <1>2, <2>1, <2>2, <2>4 DEF Rows
    <3>2. source'[s] # Unborn
      BY <2>4, <3>1, TrackerShapes DEF Stored
    <3>3. /\ entries' \in [Source -> List] /\ answered' \in [Source -> List] /\ mixed' \subseteq Source
      BY <2>1 DEF TrackerFields
    <3>4. source'[s].url # "none" /\ s \notin mixed' /\ source'[s].etag # 0 =>
              /\ entries'[s] = source'[s].counted /\ entries'[s].number = source'[s].etag
              /\ entries'[s].from = source'[s].url
      BY <2>1, <2>4, <3>1 DEF EtagNamesTheList
    <3> QED BY <1>12, <2>1, <3>1, <3>2, <3>3, <3>4
  <2> QED BY <2>3, <2>4
<1> QED BY <1>5, <1>6, <1>7, <1>9, <1>10, <1>11, <1>13, <1>14, <1>15 DEF RefreshStep

LEMMA TrackerInvStep ==
    ASSUME TrackerInv, [TrackerNext]_trackerVars
    PROVE  TrackerInv'
<1>1. CASE UNCHANGED trackerVars
  BY <1>1 DEF trackerVars, TrackerInv, TrackerFields, TurnsAreTaken, SlotsAreKept, EtagNamesTheList, RowStillHolds,
              AnswersFit, CheckedIsCurrent, Stored
<1> QED BY <1>1, UserKeepsTrackerInv, RefreshKeepsTrackerInv DEF TrackerNext

\* Whatever the user, the servers and the refreshes do, the invariant stays.
THEOREM TrackerInvariant == TrackerSpec => []TrackerInv
<1>1. TrackerInit => TrackerInv
  BY TrackerInvInit
<1>2. TrackerInv /\ [TrackerNext]_trackerVars => TrackerInv'
  BY TrackerInvStep
<1> QED BY <1>1, <1>2, PTL DEF TrackerSpec

\* Refreshes of a source take turns and share the slots, and a source that was checked
\* without an error holds the list its server last spoke of.
THEOREM TrackerListsAreCurrent == TrackerSpec => []ListsAreCurrent
<1>1. TrackerInv => ListsAreCurrent
  BY TrackerTypeParts DEF TrackerInv, ListsAreCurrent
<1> QED BY <1>1, TrackerInvariant, PTL

-------------------------------------------------------------------------------
(***************************************************************************)
(* Proofs about the client that follows the jobs, for every set of jobs    *)
(* and of writers, every capacity of the replay buffer and of a channel,   *)
(* and every number of changes and faults.                                 *)
(***************************************************************************)

USE SyncAssumptions

\* Naturals have a smallest one.
LEMMA LeastNatural ==
    ASSUME NEW T, T \subseteq Nat, T # {}
    PROVE  \E x \in T : \A y \in T : x <= y
<1> DEFINE R == {ss \in Nat \X Nat : ss[1] < ss[2]}
<1>1. IsWellFoundedOn(R, Nat)
  BY NatLessThanWellFounded DEF OpToRel
<1>2. PICK x \in T : \A y \in T : ~(<<y, x>> \in R)
  <2> HIDE DEF R
  <2> QED BY <1>1, WFMin
<1>3. ASSUME NEW y \in T PROVE x <= y
  <2>1. x \in Nat /\ y \in Nat
    OBVIOUS
  <2>2. y < x => <<y, x>> \in R
    BY <2>1
  <2>3. ~(y < x)
    BY <1>2, <2>2
  <2> QED BY <2>1, <2>3
<1> QED BY <1>3

\* Naturals with a bound have a largest one: the smallest of their bounds.
LEMMA LargestNatural ==
    ASSUME NEW T, T \subseteq Nat, T # {}, NEW b \in Nat, \A t \in T : t <= b
    PROVE  Max(T) \in T /\ \A t \in T : t <= Max(T)
<1> DEFINE Bounds == {n \in Nat : \A t \in T : t <= n}
<1>1. PICK m \in Bounds : \A n \in Bounds : m <= n
  <2>1. Bounds \subseteq Nat /\ Bounds # {}
    OBVIOUS
  <2> HIDE DEF Bounds
  <2> QED BY <2>1, LeastNatural
<1>2. m \in T
  <2> SUFFICES ASSUME m \notin T PROVE FALSE
    OBVIOUS
  <2>1. \A t \in T : t \in Nat /\ t <= m /\ t # m
    BY <1>1
  <2>a. PICK u \in T : u \in Nat /\ u <= m /\ u # m
    BY <2>1
  <2>b. m \in Nat
    BY <1>1
  <2>2. m - 1 \in Nat
    BY <2>a, <2>b
  <2>3. \A t \in T : t <= m - 1
    BY <1>1, <2>1
  <2>4. m - 1 \in Bounds
    BY <2>2, <2>3
  <2> QED BY <1>1, <2>4
<1>3. \A t \in T : m >= t
  BY <1>1
<1>4. Max(T) = CHOOSE x \in T : \A y \in T : x >= y
  BY DEF Max
<1>5. \E x \in T : \A y \in T : x >= y
  BY <1>2, <1>3
<1>6. Max(T) \in T /\ \A t \in T : Max(T) >= t
  BY <1>4, <1>5
<1> QED BY <1>6

\* The numbers of a sequence have a bound: a shortest prefix without one would
\* have it from the prefix before.
LEMMA SequencesAreBounded ==
    ASSUME NEW n \in Nat, NEW f, \A i \in 1 .. n : f[i] \in Nat
    PROVE  \E b \in Nat : \A i \in 1 .. n : f[i] <= b
<1> DEFINE Bad == {k \in 0 .. n : ~\E b \in Nat : \A i \in 1 .. k : f[i] <= b}
<1>1. SUFFICES ASSUME Bad # {} PROVE FALSE
  <2>1. n \in 0 .. n
    OBVIOUS
  <2>2. Bad = {} => n \notin Bad
    OBVIOUS
  <2> QED BY <2>1, <2>2
<1>2. PICK k \in Bad : \A y \in Bad : k <= y
  <2>1. Bad \subseteq Nat
    OBVIOUS
  <2> HIDE DEF Bad
  <2> QED BY <1>1, <2>1, LeastNatural
<1>3. k # 0
  <2>1. \A i \in 1 .. 0 : f[i] <= 0
    OBVIOUS
  <2>2. 0 \notin Bad
    BY <2>1
  <2> QED BY <1>2, <2>2
<1>4. k \in Nat \ {0} /\ k <= n /\ k - 1 \in 0 .. n /\ k - 1 \notin Bad
  <2>1. k \in 0 .. n
    OBVIOUS
  <2>2. k \in Nat \ {0} /\ k <= n /\ k - 1 \in 0 .. n /\ ~(k <= k - 1)
    BY <1>3, <2>1
  <2> HIDE DEF Bad
  <2> QED BY <1>2, <2>2
<1>5. PICK b \in Nat : \A i \in 1 .. k - 1 : f[i] <= b
  BY <1>4
<1>6. f[k] \in Nat
  BY <1>4
<1>7. \A i \in 1 .. k : f[i] \in Nat /\ (i \in 1 .. k - 1 \/ i = k)
  BY <1>4
<1>8. \A i \in 1 .. k : f[i] <= b + f[k]
  BY <1>5, <1>6, <1>7
<1>9. b + f[k] \in Nat
  BY <1>6
<1> QED BY <1>2, <1>8, <1>9

-------------------------------------------------------------------------------
Clients == [cursor : Number, view : [Job -> Version], trigger : BOOLEAN]

\* What a replay does to a client: its number is the highest it has seen, and what
\* it shows of a job the newest it was told, whatever it showed before.
LEMMA ReplayIsApplied ==
    ASSUME NEW c \in Clients, NEW s \in Seq(Event)
    PROVE  LET d == AllApplied(c, s) IN
           /\ d \in Clients /\ d.trigger = c.trigger
           /\ c.cursor <= d.cursor
           /\ d.cursor = c.cursor \/ \E i \in 1 .. Len(s) : d.cursor = s[i].seq
           /\ \A i \in 1 .. Len(s) : s[i].seq <= d.cursor
           /\ \A j \in Job : c.view[j] <= d.view[j]
           /\ \A i \in 1 .. Len(s) : c.cursor < s[i].seq => s[i].ver <= d.view[s[i].job]
           /\ \A j \in Job : \/ d.view[j] = c.view[j]
                             \/ \E i \in 1 .. Len(s) : s[i].job = j /\ d.view[j] = s[i].ver
<1> DEFINE d == AllApplied(c, s)
           news == {e \in ToSet(s) : e.seq > c.cursor}
           Seqs == {c.cursor} \cup {e.seq : e \in news}
           Vers(j) == {c.view[j]} \cup {e.ver : e \in {f \in news : f.job = j}}
<1>1. /\ Len(s) \in Nat /\ DOMAIN s = 1 .. Len(s)
      /\ \A i \in 1 .. Len(s) : s[i] \in Event
  BY LenProperties, ElementOfSeq
<1>2. /\ \A e \in news : \E i \in 1 .. Len(s) : e = s[i]
      /\ \A i \in 1 .. Len(s) : s[i].seq > c.cursor => s[i] \in news
  BY <1>1 DEF ToSet
<1>3. /\ c.cursor \in Nat /\ c.view \in [Job -> Nat] /\ c.trigger \in BOOLEAN
      /\ \A e \in Event : e.seq \in Nat /\ e.ver \in Nat /\ e.job \in Job
  BY DEF Clients, Event, Number, Version
<1> HIDE DEF news
<1>a. \A x : x \in Seqs <=> x = c.cursor \/ \E e \in news : x = e.seq
  OBVIOUS
<1>b. \A j \in Job : \A x : x \in Vers(j) <=> x = c.view[j] \/ \E e \in news : e.job = j /\ x = e.ver
  OBVIOUS
<1>c. \A e \in news : e \in Event /\ e.seq \in Nat /\ e.ver \in Nat /\ e.job \in Job
  BY <1>1, <1>2, <1>3
<1>4. Max(Seqs) \in Seqs /\ \A t \in Seqs : t <= Max(Seqs)
  <2> DEFINE f == [i \in 1 .. Len(s) |-> s[i].seq]
  <2>1. PICK b \in Nat : \A i \in 1 .. Len(s) : f[i] <= b
    <3>1. \A i \in 1 .. Len(s) : f[i] \in Nat
      BY <1>1, <1>3
    <3> HIDE DEF f
    <3> QED BY <1>1, <3>1, SequencesAreBounded
  <2>2. \A t \in Seqs : t <= b + c.cursor
    BY <1>1, <1>2, <1>3, <2>1
  <2>3. Seqs \subseteq Nat /\ Seqs # {}
    <3> HIDE DEF Seqs
    <3>1. \A x \in Seqs : x \in Nat
      BY <1>3, <1>a, <1>c
    <3>2. c.cursor \in Seqs
      BY <1>a
    <3> QED BY <3>1, <3>2
  <2>4. b + c.cursor \in Nat
    BY <1>3, <2>1
  <2> HIDE DEF Seqs
  <2> QED BY <2>2, <2>3, <2>4, LargestNatural
<1>5. ASSUME NEW j \in Job
      PROVE  Max(Vers(j)) \in Vers(j) /\ \A t \in Vers(j) : t <= Max(Vers(j))
  <2> DEFINE f == [i \in 1 .. Len(s) |-> s[i].ver]
  <2>1. PICK b \in Nat : \A i \in 1 .. Len(s) : f[i] <= b
    <3>1. \A i \in 1 .. Len(s) : f[i] \in Nat
      BY <1>1, <1>3
    <3> HIDE DEF f
    <3> QED BY <1>1, <3>1, SequencesAreBounded
  <2> DEFINE V == Vers(j)
  <2>a. c.view[j] \in Nat
    BY <1>3
  <2>b. \A x : x \in V <=> x = c.view[j] \/ \E e \in news : e.job = j /\ x = e.ver
    BY <1>b
  <2>2. \A t \in V : t <= b + c.view[j]
    <3> HIDE DEF V
    <3> QED BY <1>1, <1>2, <1>c, <2>a, <2>b, <2>1
  <2>3. V \subseteq Nat /\ V # {}
    <3> HIDE DEF V
    <3>1. c.view[j] \in V
      BY <2>b
    <3>2. ASSUME NEW x \in V PROVE x \in Nat
      BY <1>c, <2>a, <2>b
    <3> QED BY <3>1, <3>2
  <2>4. b + c.view[j] \in Nat
    BY <1>3, <2>1
  <2>5. Max(V) \in V /\ \A t \in V : t <= Max(V)
    <3> HIDE DEF V
    <3> QED BY <2>2, <2>3, <2>4, LargestNatural
  <2> QED BY <2>5
<1>6. d = [c EXCEPT !.cursor = Max(Seqs), !.view = [j \in Job |-> Max(Vers(j))]]
  BY DEF AllApplied, news
<1>7. /\ d.cursor = Max(Seqs) /\ d.view = [j \in Job |-> Max(Vers(j))]
      /\ d.trigger = c.trigger
      /\ d = [cursor |-> d.cursor, view |-> d.view, trigger |-> d.trigger]
  BY <1>6 DEF Clients
<1> HIDE DEF Seqs, Vers, d
<1>8. d.cursor \in Nat /\ \A j \in Job : d.view[j] \in Nat
  <2>1. d.cursor \in Nat
    BY <1>3, <1>a, <1>c, <1>4, <1>7
  <2>2. \A j \in Job : d.view[j] = Max(Vers(j)) /\ c.view[j] \in Nat
    BY <1>3, <1>7
  <2>3. \A j \in Job : d.view[j] \in Nat
    BY <1>b, <1>c, <1>5, <2>2
  <2> QED BY <2>1, <2>3
<1>9. d \in Clients
  BY <1>3, <1>7, <1>8 DEF Clients, Number, Version
<1>10. /\ c.cursor <= d.cursor
       /\ d.cursor = c.cursor \/ \E i \in 1 .. Len(s) : d.cursor = s[i].seq
       /\ \A i \in 1 .. Len(s) : s[i].seq <= d.cursor
  <2>1. d.cursor \in Seqs /\ \A t \in Seqs : t <= d.cursor
    BY <1>4, <1>7
  <2>2. c.cursor \in Seqs
    BY <1>a
  <2>3. \A i \in 1 .. Len(s) : s[i].seq <= d.cursor
    <3> TAKE i \in 1 .. Len(s)
    <3>1. s[i].seq \in Nat
      BY <1>1, <1>3
    <3>2. CASE s[i].seq > c.cursor
      BY <1>2, <1>a, <2>1, <3>2
    <3>3. CASE s[i].seq <= c.cursor
      BY <1>3, <1>8, <2>1, <2>2, <3>1, <3>3
    <3> QED BY <1>3, <3>1, <3>2, <3>3
  <2> QED BY <1>2, <1>a, <2>1, <2>2, <2>3
<1>11. ASSUME NEW j \in Job
       PROVE  /\ c.view[j] <= d.view[j]
              /\ \/ d.view[j] = c.view[j]
                 \/ \E i \in 1 .. Len(s) : s[i].job = j /\ d.view[j] = s[i].ver
  <2>1. d.view[j] = Max(Vers(j))
    BY <1>7
  <2>2. d.view[j] \in Vers(j) /\ \A t \in Vers(j) : t <= d.view[j]
    BY <1>5, <2>1
  <2>3. c.view[j] \in Vers(j)
    BY <1>b
  <2> QED BY <1>2, <1>b, <2>2, <2>3
<1>12. ASSUME NEW i \in 1 .. Len(s), c.cursor < s[i].seq
       PROVE  s[i].ver <= d.view[s[i].job]
  <2>0. s[i].seq \in Nat /\ c.cursor \in Nat
    BY <1>1, <1>3
  <2>1. s[i] \in news /\ s[i].job \in Job
    BY <1>c, <1>2, <1>12, <2>0
  <2>2. s[i].ver \in Vers(s[i].job)
    BY <1>b, <2>1
  <2>3. d.view[s[i].job] = Max(Vers(s[i].job))
    BY <1>7, <2>1
  <2> QED BY <1>5, <2>1, <2>2, <2>3
<1>13. QED BY <1>7, <1>9, <1>10, <1>11, <1>12 DEF d

\* What a bridge replays: recorded events, numbered from the one after the client's
\* number, up to the newest in the buffer unless there is nothing to replay.
LEMMA BridgeIsWhole ==
    ASSUME NEW from \in Nat, replay \in Seq(Event), Bridged(from)
    PROVE  LET s == EventsAfter(from) IN
           /\ s \in Seq(Event)
           /\ \A i \in 1 .. Len(s) : \E k \in DOMAIN replay : s[i] = replay[k]
           /\ \A i \in 1 .. Len(s) : s[i].seq = from + i
           /\ s # <<>> => Len(s) \in Nat \ {0} /\ s[Len(s)] = replay[Len(replay)]
<1> DEFINE n == Len(replay)
           s == EventsAfter(from)
           m == After(from)
<1>1. /\ n \in Nat \ {0} /\ DOMAIN replay = 1 .. n
      /\ \A i \in 1 .. n : replay[i] \in Event /\ replay[i].seq \in Nat
  <2>1. n \in Nat \ {0} /\ DOMAIN replay = 1 .. n
    BY LenProperties, EmptySeq DEF Bridged
  <2>2. \A i \in 1 .. n : replay[i] \in Event
    BY <2>1, ElementOfSeq
  <2> HIDE DEF n
  <2> QED BY <2>1, <2>2 DEF Event, Number
<1>2. CASE from = replay[n].seq
  <2>1. s = <<>>
    BY <1>2 DEF EventsAfter
  <2>2. <<>> \in Seq(Event) /\ Len(<<>>) = 0
    BY EmptySeq
  <2> HIDE DEF s
  <2>3. 1 .. Len(s) = {}
    BY <2>1, <2>2
  <2>4. /\ s \in Seq(Event)
        /\ \A i \in 1 .. Len(s) : \E k \in DOMAIN replay : s[i] = replay[k]
        /\ \A i \in 1 .. Len(s) : s[i].seq = from + i
    BY <2>1, <2>2, <2>3
  <2> QED BY <2>1, <2>4 DEF s
<1>3. CASE from # replay[n].seq
  <2>1. s = SubSeq(replay, m, n)
    BY <1>3 DEF EventsAfter
  <2>2. m # 0 /\ \A i \in m .. n - 1 : replay[i + 1].seq = replay[i].seq + 1
    BY <1>3 DEF Bridged
  <2>3. m \in 1 .. n /\ replay[m].seq = from + 1
    BY <1>1, <2>2 DEF After
  <2> HIDE DEF m
  <2>4. \A i \in m .. n : replay[i] \in Event
    BY <1>1, <2>3
  <2>5. s \in Seq(Event) /\ Len(s) = n - m + 1 /\ \A i \in 1 .. n - m + 1 : s[i] = replay[m + i - 1]
    <3> HIDE DEF s, n
    <3>1. m \in Int /\ n \in Int /\ m <= n
      BY <1>1, <2>3
    <3> QED BY <2>1, <2>4, <3>1, SubSeqProperties
  <2>6. \A i \in m .. n : replay[i].seq = replay[m].seq + (i - m)
    <3> DEFINE Bad == {i \in m .. n : replay[i].seq # replay[m].seq + (i - m)}
    <3>1. SUFFICES ASSUME Bad # {} PROVE FALSE
      OBVIOUS
    <3>2. PICK k \in Bad : \A y \in Bad : k <= y
      <4>1. Bad \subseteq Nat
        BY <2>3
      <4> HIDE DEF Bad
      <4> QED BY <3>1, <4>1, LeastNatural
    <3>3. replay[m].seq \in Nat /\ m \in Nat /\ k \in m .. n /\ k # m
      BY <1>1, <2>3
    <3>4. k - 1 \in m .. n - 1 /\ ~(k <= k - 1)
      BY <1>1, <3>3
    <3>5. k - 1 \in m .. n /\ k - 1 \notin Bad
      BY <1>1, <3>2, <3>4
    <3>6. replay[k - 1].seq = replay[m].seq + (k - 1 - m)
      BY <3>5
    <3>7. replay[k - 1 + 1].seq = replay[k - 1].seq + 1
      BY <2>2, <3>4
    <3>8. replay[k].seq = replay[m].seq + (k - m)
      BY <3>3, <3>6, <3>7
    <3> QED BY <3>2, <3>8
  <2> HIDE DEF s, n
  <2>7. ASSUME NEW i \in 1 .. Len(s)
        PROVE  (\E k \in DOMAIN replay : s[i] = replay[k]) /\ s[i].seq = from + i
    <3>1. PICK k \in m .. n : k = m + i - 1
      BY <1>1, <2>3, <2>5
    <3>2. s[i] = replay[k] /\ k \in DOMAIN replay /\ i = k - m + 1
      BY <1>1, <2>3, <2>5, <3>1
    <3>3. replay[k].seq = replay[m].seq + (k - m)
      BY <2>6
    <3>4. s[i].seq = from + 1 + (k - m)
      BY <2>3, <3>2, <3>3
    <3>5. from + 1 + (k - m) = from + i
      BY <1>1, <2>3, <3>2
    <3> QED BY <3>2, <3>4, <3>5
  <2>8. Len(s) \in Nat \ {0} /\ s[Len(s)] = replay[n]
    <3>1. Len(s) \in 1 .. n - m + 1 /\ m + Len(s) - 1 = n
      BY <1>1, <2>3, <2>5
    <3> QED BY <1>1, <2>3, <2>5, <3>1
  <2> QED BY <2>5, <2>7, <2>8 DEF s, n
<1> QED BY <1>2, <1>3
-------------------------------------------------------------------------------
Streams == [at : {"closed", "subscribed", "asked", "live"}, from : Number, current : Number,
            last : Number, chan : Seq(Event), missed : BOOLEAN]
Requests == [at : {"none", "cursor", "jobs", "check", "reply"}, c1 : Number, view : [Job -> Version]]

LEMMA Shapes ==
    /\ Closed \in Streams /\ Len(Closed.chan) = 0 /\ Closed.at = "closed" /\ ~Closed.missed
    /\ NoFetch \in Requests /\ Asked \in Requests /\ NoFetch.at = "none" /\ Asked.at = "cursor"
    /\ NoFetch.c1 = 0 /\ Asked.c1 = 0 /\ \A j \in Job : NoFetch.view[j] = 0 /\ Asked.view[j] = 0
    /\ Mounted \in Clients /\ Idle.at = "idle"
<1>1. <<>> \in Seq(Event) /\ Len(<<>>) = 0
  BY EmptySeq
<1>2. [j \in Job |-> 0] \in [Job -> Nat]
  OBVIOUS
<1> QED BY <1>1, <1>2 DEF Closed, NoFetch, Asked, Mounted, Idle, Streams, Requests, Clients, Number, Version

\* The parts of the type that one step seldom touches together.
TypeOfServer ==
    /\ desktop \in BOOLEAN /\ row \in [Job -> Nat] /\ cursor \in Nat /\ fallback \in Nat
    /\ replay \in Seq(Event) /\ Len(replay) <= Capacity /\ \A i \in DOMAIN replay : replay[i] \in log
    /\ writer \in [Writer -> {Idle} \cup [at : {"advance", "push", "send"}, e : Event]]
    /\ changes \in 0 .. MaxChanges /\ log \subseteq Event
TypeOfStream == stream \in Streams /\ Len(stream.chan) <= ChanCap /\ (stream.at = "closed" => stream = Closed)
TypeOfClient ==
    client \in Clients /\ fetch \in [Fetches -> Requests] /\ faults \in 0 .. MaxFaults /\ blind \in BOOLEAN

LEMMA TypeParts == SyncTypeOK <=> TypeOfServer /\ TypeOfStream /\ TypeOfClient
BY DEF SyncTypeOK, TypeOfServer, TypeOfStream, TypeOfClient, Streams, Requests, Clients, Number, Version

LEMMA TypeInit ==
    ASSUME SyncInit
    PROVE  SyncTypeOK
<1>1. \A j \in Job : First(j) \in Event
  BY DEF First, Event, Number, Version
<1>2. log \subseteq Event
  BY <1>1 DEF SyncInit
<1>3. replay \in Seq(Event) /\ Len(replay) <= Capacity /\ \A i \in DOMAIN replay : replay[i] \in log
  <2>1. CASE replay = <<>>
    <3>1. DOMAIN replay = {}
      BY <2>1
    <3> QED BY <2>1, <3>1, EmptySeq
  <2>2. ASSUME NEW e \in log, replay = <<e>>
        PROVE  replay \in Seq(Event) /\ Len(replay) <= Capacity /\ \A i \in DOMAIN replay : replay[i] \in log
    BY <1>2, <2>2
  <2> QED BY <2>1, <2>2 DEF SyncInit
<1>4. TypeOfServer
  BY <1>2, <1>3 DEF SyncInit, TypeOfServer
<1>5. TypeOfStream
  BY Shapes DEF SyncInit, TypeOfStream
<1>6. TypeOfClient
  <2>1. Mounted \in Clients /\ \A s \in Fetches : (IF s = "mount" THEN Asked ELSE NoFetch) \in Requests
    BY Shapes
  <2>2. fetch \in [Fetches -> Requests]
    BY <2>1 DEF SyncInit
  <2>3. faults \in 0 .. MaxFaults
    BY DEF SyncInit
  <2> QED BY <2>1, <2>2, <2>3 DEF SyncInit, TypeOfClient
<1> QED BY <1>4, <1>5, <1>6, TypeParts

\* What a push leaves in the buffer.
LEMMA PushKeepsBuffer ==
    ASSUME NEW e \in log, log \subseteq Event, replay \in Seq(Event), Len(replay) <= Capacity,
           \A i \in DOMAIN replay : replay[i] \in log
    PROVE  LET s == Append(IF Len(replay) >= Capacity THEN Tail(replay) ELSE replay, e) IN
           /\ s \in Seq(Event) /\ Len(s) <= Capacity
           /\ \A i \in DOMAIN s : s[i] \in log
<1> DEFINE t == IF Len(replay) >= Capacity THEN Tail(replay) ELSE replay
           s == Append(t, e)
<1>1. t \in Seq(Event) /\ Len(t) < Capacity /\ \A i \in 1 .. Len(t) : t[i] \in log
  <2>1. Len(replay) \in Nat /\ DOMAIN replay = 1 .. Len(replay)
    BY LenProperties
  <2>2. CASE Len(replay) >= Capacity
    <3>1. replay # <<>>
      BY <2>1, <2>2, EmptySeq
    <3>2. /\ Tail(replay) \in Seq(Event) /\ Len(Tail(replay)) = Len(replay) - 1
          /\ \A i \in 1 .. Len(Tail(replay)) : Tail(replay)[i] = replay[i + 1]
      BY <3>1, HeadTailProperties
    <3>3. t = Tail(replay)
      BY <2>2
    <3> HIDE DEF t
    <3> QED BY <2>1, <3>2, <3>3
  <2>3. CASE Len(replay) < Capacity
    <3>0. ~(Len(replay) >= Capacity)
      BY <2>1, <2>3
    <3>1. t = replay
      BY <3>0
    <3> HIDE DEF t
    <3> QED BY <2>1, <2>3, <3>1
  <2> QED BY <2>1, <2>2, <2>3
<1> HIDE DEF t
<1>2. e \in Event
  OBVIOUS
<1>3. /\ s \in Seq(Event) /\ Len(s) = Len(t) + 1
      /\ \A i \in 1 .. Len(t) : s[i] = t[i]
      /\ s[Len(t) + 1] = e
  BY <1>1, <1>2, AppendProperties
<1>4. Len(t) \in Nat /\ DOMAIN s = 1 .. Len(t) + 1
  BY <1>1, <1>3, LenProperties
<1> HIDE DEF s
<1>5. \A i \in DOMAIN s : s[i] \in log
  BY <1>1, <1>3, <1>4
<1>6. Len(s) <= Capacity
  BY <1>1, <1>3, <1>4
<1> QED BY <1>3, <1>5, <1>6 DEF s, t

LEMMA TypeStep ==
    ASSUME SyncTypeOK, [SyncNext]_syncVars,
           \A w \in Writer : writer[w].at \in {"push", "send"} => writer[w].e \in log
    PROVE  SyncTypeOK'
<1> USE DEF Number, Version
<1>0. TypeOfServer /\ TypeOfStream /\ TypeOfClient
  BY TypeParts
<1>1. SUFFICES TypeOfServer' /\ TypeOfStream' /\ TypeOfClient'
  BY TypeParts DEF SyncTypeOK, TypeOfServer, TypeOfStream, TypeOfClient, Streams, Requests, Clients
<1>2. CASE UNCHANGED syncVars
  BY <1>0, <1>2 DEF syncVars, TypeOfServer, TypeOfStream, TypeOfClient
<1>3. ASSUME NEW w \in Writer, NEW j \in Job, WritesRow(w, j)
      PROVE  TypeOfServer' /\ TypeOfStream' /\ TypeOfClient'
  <2>1. [at |-> "advance", e |-> [seq |-> 0, job |-> j, ver |-> row[j] + 1]]
            \in [at : {"advance", "push", "send"}, e : Event]
    BY <1>0 DEF TypeOfServer, Event
  <2>2. writer' \in [Writer -> {Idle} \cup [at : {"advance", "push", "send"}, e : Event]]
    BY <1>0, <1>3, <2>1 DEF TypeOfServer, WritesRow
  <2>3. row' \in [Job -> Nat] /\ changes' \in 0 .. MaxChanges
    BY <1>0, <1>3 DEF TypeOfServer, WritesRow, Changes
  <2> QED BY <1>0, <1>3, <2>2, <2>3 DEF TypeOfServer, TypeOfStream, TypeOfClient, WritesRow, Reader
<1>4. ASSUME NEW w \in Writer, Advances(w)
      PROVE  TypeOfServer' /\ TypeOfStream' /\ TypeOfClient'
  <2> DEFINE e == [writer[w].e EXCEPT !.seq = IF cursor' = cursor THEN fallback' ELSE cursor']
  <2>1. cursor' \in Nat /\ fallback' \in Nat /\ faults' \in 0 .. MaxFaults /\ blind' \in BOOLEAN
    <3>1. CASE cursor' = cursor + 1 /\ UNCHANGED <<fallback, faults, blind>>
      BY <1>0, <3>1 DEF TypeOfServer, TypeOfClient
    <3>2. CASE fallback' = fallback + 1 /\ blind' = TRUE /\ Fault /\ UNCHANGED cursor
      <4>1. faults \in 0 .. MaxFaults /\ faults < MaxFaults /\ faults' = faults + 1
        BY <1>0, <3>2 DEF TypeOfClient, Fault
      <4>2. faults' \in 0 .. MaxFaults
        BY <4>1
      <4> QED BY <1>0, <3>2, <4>2 DEF TypeOfServer
    <3> QED BY <1>4, <3>1, <3>2 DEF Advances
  <2>2. writer[w].e \in Event
    BY <1>0, <1>4, Shapes DEF TypeOfServer, Advances
  <2>3. e \in Event
    BY <2>1, <2>2 DEF Event
  <2>4. writer' = [writer EXCEPT ![w] = [at |-> "push", e |-> e]] /\ log' = log \cup {e}
    BY <1>4 DEF Advances
  <2> HIDE DEF e
  <2>5. writer' \in [Writer -> {Idle} \cup [at : {"advance", "push", "send"}, e : Event]] /\ log' \subseteq Event
    BY <1>0, <2>3, <2>4 DEF TypeOfServer
  <2> QED BY <1>0, <1>4, <2>1, <2>4, <2>5 DEF TypeOfServer, TypeOfStream, TypeOfClient, Advances, Reader
<1>5. ASSUME NEW w \in Writer, Pushes(w)
      PROVE  TypeOfServer' /\ TypeOfStream' /\ TypeOfClient'
  <2>1. writer[w].e \in log
    BY <1>5 DEF Pushes
  <2>2. writer[w] \in [at : {"advance", "push", "send"}, e : Event]
    BY <1>0, <1>5, Shapes DEF TypeOfServer, Pushes
  <2>3. writer' \in [Writer -> {Idle} \cup [at : {"advance", "push", "send"}, e : Event]]
    BY <1>0, <1>5, <2>2 DEF TypeOfServer, Pushes
  <2>4. replay' \in Seq(Event) /\ Len(replay') <= Capacity /\ \A i \in DOMAIN replay' : replay'[i] \in log
    BY <1>0, <1>5, <2>1, PushKeepsBuffer DEF TypeOfServer, Pushes
  <2> QED BY <1>0, <1>5, <2>3, <2>4 DEF TypeOfServer, TypeOfStream, TypeOfClient, Pushes, Reader
<1>6. ASSUME NEW w \in Writer, Sends(w)
      PROVE  TypeOfServer' /\ TypeOfStream' /\ TypeOfClient'
  <2>1. writer[w].e \in Event
    BY <1>0, <1>6, Shapes DEF TypeOfServer, Sends
  <2>2. TypeOfStream'
    <3>1. stream.chan \in Seq(Event) /\ Len(stream.chan) \in Nat
      BY <1>0, LenProperties DEF TypeOfStream, Streams
    <3>2. /\ Append(stream.chan, writer[w].e) \in Seq(Event)
          /\ Len(Append(stream.chan, writer[w].e)) = Len(stream.chan) + 1
      BY <2>1, <3>1, AppendProperties
    <3>3. CASE stream.at = "closed"
      BY <1>0, <1>6, <3>3 DEF TypeOfStream, Sends
    <3>4. CASE stream.at # "closed" /\ Len(stream.chan) < ChanCap
      <4>1. stream' = [stream EXCEPT !.chan = Append(@, writer[w].e)]
        BY <1>6, <3>4 DEF Sends
      <4>2. stream' \in Streams /\ stream'.at # "closed" /\ stream'.chan = Append(stream.chan, writer[w].e)
        BY <1>0, <3>2, <3>4, <4>1 DEF TypeOfStream, Streams
      <4>3. Len(stream'.chan) <= ChanCap
        BY <3>1, <3>2, <3>4, <4>2
      <4> QED BY <4>2, <4>3 DEF TypeOfStream
    <3>5. CASE stream.at # "closed" /\ ~(Len(stream.chan) < ChanCap)
      <4>1. stream' = [stream EXCEPT !.missed = TRUE]
        BY <1>6, <3>5 DEF Sends
      <4> QED BY <1>0, <3>5, <4>1 DEF TypeOfStream, Streams
    <3> QED BY <3>3, <3>4, <3>5
  <2> QED BY <1>0, <1>6, <2>2 DEF TypeOfServer, TypeOfClient, Sends
<1>7. CASE CursorOnly
  <2>1. TypeOfStream'
    BY <1>0, <1>7 DEF TypeOfStream, Streams, CursorOnly
  <2> QED BY <1>0, <1>7, <2>1 DEF TypeOfServer, TypeOfClient, CursorOnly, Changes
<1>8. ASSUME NEW s \in Fetches, Snapshot(s) \/ FetchFails(s)
      PROVE  TypeOfServer' /\ TypeOfStream' /\ TypeOfClient'
  <2>1. TypeOfServer' /\ TypeOfStream'
    BY <1>0, <1>8 DEF TypeOfServer, TypeOfStream, Snapshot, FetchFails, Server
  <2>2. CASE Snapshot(s)
    <3>0. fetch \in [Fetches -> Requests] /\ row \in [Job -> Nat] /\ cursor \in Nat
      BY <1>0 DEF TypeOfServer, TypeOfClient
    <3>a. fetch[s] \in Requests
      BY <3>0
    <3>b. /\ [fetch[s] EXCEPT !.at = "jobs", !.c1 = cursor] \in Requests
          /\ [fetch[s] EXCEPT !.at = "check", !.view = row] \in Requests
          /\ [fetch[s] EXCEPT !.at = "reply"] \in Requests
      BY <3>0, <3>a DEF Requests
    <3>c. \E r \in Requests : fetch' = [fetch EXCEPT ![s] = r]
      BY <2>2, <3>b, Shapes DEF Snapshot
    <3>1. fetch' \in [Fetches -> Requests]
      BY <3>0, <3>c
    <3> QED BY <1>0, <2>1, <2>2, <3>1 DEF TypeOfClient, Snapshot
  <2>3. CASE FetchFails(s)
    <3>1. Newer(client.view, row) \in [Job -> Nat]
      BY <1>0 DEF TypeOfServer, TypeOfClient, Clients, Newer
    <3>2. client' \in Clients
      BY <1>0, <2>3, <3>1 DEF TypeOfClient, Clients, FetchFails
    <3>3. fetch' \in [Fetches -> Requests]
      BY <1>0, <2>3, Shapes DEF TypeOfClient, FetchFails
    <3> QED BY <1>0, <2>1, <2>3, <3>2, <3>3 DEF TypeOfClient, FetchFails, Fault
  <2> QED BY <1>8, <2>2, <2>3
<1>9. CASE MountArrives \/ RehydrateArrives
  <2>1. TypeOfServer' /\ TypeOfStream'
    BY <1>0, <1>9 DEF TypeOfServer, TypeOfStream, MountArrives, RehydrateArrives, Server
  <2>2. \A s \in Fetches : fetch[s] \in Requests /\ NoFetch \in Requests
    BY <1>0, Shapes DEF TypeOfClient
  <2>3. CASE MountArrives
    <3>1. client' \in Clients /\ blind' \in BOOLEAN
      BY <1>0, <2>2, <2>3 DEF TypeOfClient, MountArrives, Clients, Requests, Fetches
    <3> QED BY <1>0, <2>1, <2>2, <2>3, <3>1 DEF TypeOfClient, MountArrives
  <2>4. CASE RehydrateArrives
    <3>1. Newer(client.view, fetch["rehydrate"].view) \in [Job -> Nat]
      BY <1>0, <2>2 DEF TypeOfClient, Clients, Requests, Newer, Fetches
    <3>2. client' \in Clients
      BY <1>0, <2>2, <2>4, <3>1 DEF TypeOfClient, RehydrateArrives, Clients, Requests, Fetches
    <3> QED BY <1>0, <2>1, <2>2, <2>4, <3>2 DEF TypeOfClient, RehydrateArrives
  <2> QED BY <1>9, <2>3, <2>4
<1>10. CASE Subscribe \/ ReadCursor
  <2>1. TypeOfServer'
    BY <1>0, <1>10 DEF TypeOfServer, Subscribe, ReadCursor, Server
  <2>2. CASE Subscribe
    <3>1. client' \in Clients /\ client.cursor \in Nat
      BY <1>0, <2>2 DEF TypeOfClient, Subscribe, Clients
    <3>2. stream' \in Streams /\ stream'.chan = Closed.chan /\ stream'.at # "closed"
      BY <2>2, <3>1, Shapes DEF Subscribe, Streams
    <3>3. TypeOfStream'
      BY <3>2, Shapes DEF TypeOfStream
    <3> QED BY <1>0, <2>1, <2>2, <3>1, <3>3 DEF TypeOfClient, Subscribe
  <2>3. CASE ReadCursor
    <3>1. TypeOfStream'
      BY <1>0, <2>3 DEF TypeOfServer, TypeOfStream, Streams, ReadCursor
    <3> QED BY <1>0, <2>1, <2>3, <3>1 DEF TypeOfClient, ReadCursor
  <2> QED BY <1>10, <2>2, <2>3
<1>11. ASSUME Resync
       PROVE  TypeOfStream' /\ client' \in Clients /\ fetch' \in [Fetches -> Requests]
  <2>1. TypeOfStream'
    BY <1>11, Shapes DEF TypeOfStream, Resync
  <2> QED BY <1>0, <1>11, <2>1, Shapes DEF TypeOfClient, Resync
<1>12. ASSUME NEW s \in Seq(Event), GoesOn(s), stream.at = "asked"
       PROVE  TypeOfStream' /\ client' \in Clients /\ fetch' \in [Fetches -> Requests]
  <2>1. client' \in Clients
    BY <1>0, <1>12, ReplayIsApplied DEF TypeOfClient, GoesOn
  <2>2. s # <<>> => s[Len(s)].seq \in Nat
    <3>1. s # <<>> => Len(s) \in 1 .. Len(s)
      BY EmptySeq
    <3>2. s # <<>> => s[Len(s)] \in Event
      BY <3>1, ElementOfSeq
    <3> QED BY <3>2 DEF Event
  <2>3. TypeOfStream'
    BY <1>0, <1>12, <2>2 DEF TypeOfStream, Streams, GoesOn
  <2> QED BY <1>0, <1>12, <2>1, <2>3 DEF TypeOfClient, GoesOn
<1>13. CASE Replays
  <2>1. TypeOfServer' /\ faults' = faults /\ blind' = blind
    BY <1>0, <1>13 DEF TypeOfServer, Replays, Server
  <2>2. stream.from \in Nat /\ replay \in Seq(Event) /\ <<>> \in Seq(Event)
    BY <1>0, EmptySeq DEF TypeOfStream, TypeOfServer, Streams
  <2>3. Bridged(stream.from) => EventsAfter(stream.from) \in Seq(Event)
    BY <2>2, BridgeIsWhole
  <2> QED BY <1>0, <1>11, <1>12, <1>13, <2>1, <2>2, <2>3 DEF TypeOfClient, Replays
<1>14. CASE Delivers
  <2> DEFINE e == Head(stream.chan)
  <2>1. TypeOfServer' /\ faults' = faults
    BY <1>0, <1>14 DEF TypeOfServer, Delivers, Server
  <2>2. /\ e \in Event /\ Tail(stream.chan) \in Seq(Event) /\ Len(Tail(stream.chan)) = Len(stream.chan) - 1
        /\ Len(stream.chan) \in Nat
    BY <1>0, <1>14, HeadTailProperties, LenProperties DEF TypeOfStream, Streams, Delivers
  <2> HIDE DEF e
  <2>3. CASE Resync /\ UNCHANGED blind
    BY <1>0, <1>11, <2>1, <2>3 DEF TypeOfClient
  <2>4. CASE stream' = [stream EXCEPT !.chan = Tail(@)] /\ UNCHANGED <<client, fetch, blind>>
    <3>0. stream \in Streams /\ stream.at = "live" /\ Len(stream.chan) <= ChanCap
      BY <1>0, <1>14 DEF TypeOfStream, Delivers
    <3>a. stream' \in Streams /\ stream'.at = "live" /\ stream'.chan = Tail(stream.chan)
      BY <2>2, <2>4, <3>0 DEF Streams
    <3>b. Len(stream'.chan) <= ChanCap
      BY <2>2, <3>0, <3>a
    <3>1. TypeOfStream'
      BY <3>a, <3>b DEF TypeOfStream
    <3> QED BY <1>0, <2>1, <2>4, <3>1 DEF TypeOfClient
  <2>5. CASE /\ stream' = [stream EXCEPT !.chan = Tail(@), !.last = e.seq]
             /\ client' = Applied(client, e) /\ UNCHANGED fetch
             /\ blind' = (blind \/ (stream.last = 0 /\ e.seq > client.cursor + 1))
    <3>0. stream \in Streams /\ stream.at = "live" /\ Len(stream.chan) <= ChanCap /\ e.seq \in Nat
      BY <1>0, <1>14, <2>2 DEF TypeOfStream, Delivers, Event
    <3>a. stream' \in Streams /\ stream'.at = "live" /\ stream'.chan = Tail(stream.chan)
      BY <2>2, <2>5, <3>0 DEF Streams
    <3>b. Len(stream'.chan) <= ChanCap
      BY <2>2, <3>0, <3>a
    <3>1. TypeOfStream'
      BY <3>a, <3>b DEF TypeOfStream
    <3>2. client' \in Clients
      BY <1>0, <2>2, <2>5 DEF TypeOfClient, Clients, Applied, Event
    <3> QED BY <1>0, <2>1, <2>5, <3>1, <3>2 DEF TypeOfClient
  <2> QED BY <1>14, <2>3, <2>4, <2>5 DEF Delivers, e
<1>15. CASE Breaks
  BY <1>0, <1>11, <1>15 DEF TypeOfServer, TypeOfClient, Breaks, Server, Fault
<1>16. CASE Restart
  <2>1. <<>> \in Seq(Event) /\ Len(<<>>) = 0 /\ DOMAIN <<>> = {}
    BY EmptySeq
  <2>2. TypeOfServer'
    BY <1>0, <1>16, <2>1 DEF TypeOfServer, Restart
  <2>3. client' \in Clients /\ fetch' \in [Fetches -> Requests] /\ blind' \in BOOLEAN
    BY <1>0, <1>16, Shapes DEF TypeOfClient, Restart
  <2> QED BY <1>0, <1>16, <2>2, <2>3, Shapes DEF TypeOfStream, TypeOfClient, Restart, Fault
<1> QED BY <1>2, <1>3, <1>4, <1>5, <1>6, <1>7, <1>8, <1>9, <1>10, <1>13, <1>14, <1>15, <1>16 DEF SyncNext
-------------------------------------------------------------------------------
(***************************************************************************)
(* The inductive invariant.  Known and OneFetch hold of every numbering;   *)
(* the rest as long as the numbering was not left.                         *)
(***************************************************************************)

\* Everything said of a job, and everything shown or fetched of it, was in its row;
\* what is being published was numbered.
Known ==
    /\ \A e \in log : e.ver <= row[e.job]
    /\ \A w \in Writer : writer[w].at # "idle" => writer[w].e.ver <= row[writer[w].e.job]
    /\ \A w \in Writer : writer[w].at \in {"push", "send"} => writer[w].e \in log
    /\ \A i \in DOMAIN stream.chan : stream.chan[i] \in log
    /\ \A j \in Job : client.view[j] <= row[j]
    /\ \A s \in Fetches : \A j \in Job : fetch[s].view[j] <= row[j]

\* While the window loads, a stream is not set up again, and asks for no snapshot
\* but at its end.
OneFetch ==
    fetch["mount"].at # "none" =>
        /\ client.trigger => stream.at = "closed"
        /\ fetch["rehydrate"].at # "none" => stream.at = "closed" /\ ~client.trigger

\* The numbers are those of the cursor, each given once.
Numbered ==
    /\ \A e \in log : 1 <= e.seq /\ e.seq <= cursor
    /\ \A e \in log : \A f \in log : e.seq = f.seq => e = f
    /\ client.cursor <= cursor
    /\ stream.current <= cursor /\ stream.from <= cursor /\ stream.last <= cursor
    /\ \A s \in Fetches : fetch[s].c1 <= cursor

Covers(view, n) == \A e \in log : e.seq <= n => e.ver <= view[e.job]
ClientCovers == Covers(client.view, client.cursor)

\* A snapshot read its jobs after its number.
SnapshotCovers ==
    \A s \in Fetches : fetch[s].at \in {"check", "reply"} => Covers(fetch[s].view, fetch[s].c1)

\* What a stream passes over, the client has.
StreamCovers ==
    stream.at # "closed" => Covers(client.view, stream.from) /\ Covers(client.view, stream.last)
StreamIsKnown ==
    stream.at # "closed" /\ ~client.trigger => stream.from <= client.cursor /\ stream.last <= client.cursor

\* What the database holds of a job was said, or will be.
RowsAreSaid ==
    ~desktop => \A j \in Job :
        \/ row[j] = 0
        \/ \E e \in log : e.job = j /\ e.ver = row[j]
        \/ \E w \in Writer : writer[w].at = "advance" /\ writer[w].e.job = j /\ writer[w].e.ver = row[j]

\* Nothing falls between the cursor a stream has read and what it was sent.
OnItsWay(e) ==
    \/ \E w \in Writer : writer[w].at \in {"push", "send"} /\ writer[w].e = e
    \/ \E i \in DOMAIN stream.chan : stream.chan[i] = e
NothingIsLost ==
    ~desktop /\ ~stream.missed =>
        /\ stream.at = "asked" => \A e \in log : stream.current < e.seq => OnItsWay(e)
        /\ stream.at = "live" /\ ~client.trigger =>
               \A e \in log : client.cursor < e.seq => OnItsWay(e)

Told ==
    /\ Numbered /\ ClientCovers /\ SnapshotCovers /\ StreamCovers /\ StreamIsKnown
    /\ RowsAreSaid /\ NothingIsLost

SyncInv == SyncTypeOK /\ Known /\ OneFetch /\ (blind \/ Told)
-------------------------------------------------------------------------------
LEMMA SyncInvInit ==
    ASSUME SyncInit
    PROVE  SyncInv
<1> USE DEF Number, Version
<1>1. /\ writer = [w \in Writer |-> Idle] /\ stream = Closed /\ client = Mounted /\ cursor \in {0, 1}
      /\ fetch = [s \in Fetches |-> IF s = "mount" THEN Asked ELSE NoFetch]
  BY DEF SyncInit
<1>2. /\ stream.at = "closed" /\ DOMAIN stream.chan = {} /\ client.cursor = 0
      /\ stream.from = 0 /\ stream.current = 0 /\ stream.last = 0
      /\ client.view = [j \in Job |-> 0]
  BY <1>1 DEF Closed, Mounted
<1>3. \A e \in log : e.seq = 1 /\ e.ver = 1 /\ e.job \in Job /\ cursor = 1 /\ row[e.job] = 1 /\ First(e.job) = e
  BY DEF SyncInit, First
<1>4. \A e \in log : \A f \in log : e = f
  BY DEF SyncInit
<1>5. \A j \in Job : row[j] = 0 \/ (row[j] = 1 /\ First(j) \in log)
  BY DEF SyncInit
<1>6. \A w \in Writer : writer[w].at = "idle"
  BY <1>1, Shapes
<1>7. \A s \in Fetches : /\ fetch[s].at \in {"none", "cursor"} /\ fetch[s].c1 = 0
                         /\ \A j \in Job : fetch[s].view[j] = 0
  BY <1>1, Shapes
<1>8. fetch["rehydrate"].at = "none"
  BY <1>1, Shapes DEF Fetches
<1>9. Known
  BY <1>2, <1>3, <1>5, <1>6, <1>7 DEF Known
<1>10. OneFetch
  BY <1>2, <1>8 DEF OneFetch
<1>11. Told
  <2>1. Numbered
    BY <1>1, <1>2, <1>3, <1>4, <1>7 DEF Numbered
  <2>2. ClientCovers /\ SnapshotCovers /\ StreamCovers /\ StreamIsKnown /\ NothingIsLost
    BY <1>2, <1>3, <1>7 DEF ClientCovers, Covers, SnapshotCovers, StreamCovers, StreamIsKnown, NothingIsLost
  <2>3. RowsAreSaid
    BY <1>5 DEF RowsAreSaid, First
  <2> QED BY <2>1, <2>2, <2>3 DEF Told
<1> QED BY <1>9, <1>10, <1>11, TypeInit DEF SyncInv

\* The types of what the invariant compares.
LEMMA Typed ==
    ASSUME SyncTypeOK
    PROVE  /\ row \in [Job -> Nat] /\ cursor \in Nat /\ client \in Clients
           /\ client.cursor \in Nat /\ client.view \in [Job -> Nat] /\ client.trigger \in BOOLEAN
           /\ stream \in Streams /\ stream.from \in Nat /\ stream.last \in Nat /\ stream.current \in Nat
           /\ stream.missed \in BOOLEAN /\ stream.chan \in Seq(Event) /\ Len(stream.chan) \in Nat
           /\ DOMAIN stream.chan = 1 .. Len(stream.chan)
           /\ \A e \in log : e \in Event /\ e.seq \in Nat /\ e.ver \in Nat /\ e.job \in Job
           /\ \A w \in Writer : writer[w].at # "idle" =>
                 /\ writer[w] \in [at : {"advance", "push", "send"}, e : Event]
                 /\ writer[w].e.job \in Job /\ writer[w].e.ver \in Nat /\ writer[w].e.seq \in Nat
           /\ writer \in [Writer -> {Idle} \cup [at : {"advance", "push", "send"}, e : Event]]
           /\ fetch \in [Fetches -> Requests]
           /\ \A s \in Fetches : fetch[s] \in Requests /\ fetch[s].c1 \in Nat /\ fetch[s].view \in [Job -> Nat]
<1>1. stream \in Streams /\ stream.chan \in Seq(Event)
  BY TypeParts DEF TypeOfStream, Streams
<1>2. Len(stream.chan) \in Nat /\ DOMAIN stream.chan = 1 .. Len(stream.chan)
  BY <1>1, LenProperties
<1>3. fetch \in [Fetches -> Requests] /\ client \in Clients
  BY TypeParts DEF TypeOfClient
<1>4. \A s \in Fetches : fetch[s] \in Requests
  BY <1>3
<1>5. /\ row \in [Job -> Nat] /\ cursor \in Nat /\ log \subseteq Event
      /\ writer \in [Writer -> {Idle} \cup [at : {"advance", "push", "send"}, e : Event]]
  BY TypeParts DEF TypeOfServer
<1>6. \A w \in Writer : writer[w].at # "idle" => writer[w] \in [at : {"advance", "push", "send"}, e : Event]
  BY <1>5, Shapes
<1> QED BY <1>1, <1>2, <1>3, <1>4, <1>5, <1>6 DEF Streams, Clients, Requests, Event, Number, Version
-------------------------------------------------------------------------------
(***************************************************************************)
(* Each step keeps the invariant.  First the writers.                      *)
(***************************************************************************)
LEMMA WritesRowKeeps ==
    ASSUME SyncInv, NEW w \in Writer, NEW j \in Job, WritesRow(w, j)
    PROVE  Known' /\ OneFetch' /\ (blind' \/ Told')
<1>0. SyncTypeOK /\ Known /\ OneFetch /\ (blind \/ Told)
  BY DEF SyncInv
<1>1. /\ UNCHANGED <<desktop, cursor, stream, client, fetch, log, blind>>
      /\ writer[w].at = "idle" /\ row' = [row EXCEPT ![j] = @ + 1]
      /\ writer' = [writer EXCEPT ![w] = [at |-> "advance", e |-> [seq |-> 0, job |-> j, ver |-> row[j] + 1]]]
  BY DEF WritesRow, Reader
<1>2. /\ \A k \in Job : row[k] \in Nat /\ row'[k] = IF k = j THEN row[j] + 1 ELSE row[k]
      /\ \A v \in Writer : v # w => writer'[v] = writer[v]
      /\ writer'[w].at = "advance" /\ writer'[w].e.job = j /\ writer'[w].e.ver = row[j] + 1
  <2> DEFINE new == [at |-> "advance", e |-> [seq |-> 0, job |-> j, ver |-> row[j] + 1]]
  <2>1. row \in [Job -> Nat] /\ DOMAIN writer = Writer
    BY <1>0, Typed
  <2>2. \A k \in Job : row[k] \in Nat /\ row'[k] = IF k = j THEN row[j] + 1 ELSE row[k]
    BY <1>1, <2>1
  <2>3. new.at = "advance" /\ new.e.job = j /\ new.e.ver = row[j] + 1
    OBVIOUS
  <2>4. writer' = [writer EXCEPT ![w] = new]
    BY <1>1
  <2> HIDE DEF new
  <2>5. writer'[w] = new /\ \A v \in Writer : v # w => writer'[v] = writer[v]
    BY <2>1, <2>4
  <2> QED BY <2>2, <2>3, <2>5
<1>3. Known'
  <2>1. \A k \in Job : row[k] \in Nat /\ row'[k] \in Nat /\ row[k] <= row'[k]
    BY <1>2
  <2>2. \A n \in Nat, k \in Job : n <= row[k] => n <= row'[k]
    BY <2>1
  <2>3. \A e \in log' : e.ver <= row'[e.job]
    BY <1>0, <1>1, <2>2, Typed DEF Known
  <2>4. \A v \in Writer : writer'[v].at # "idle" => writer'[v].e.ver <= row'[writer'[v].e.job]
    <3>1. writer'[w].e.job = j /\ writer'[w].e.ver <= row'[j]
      BY <1>2, <2>1
    <3>2. \A v \in Writer : v # w /\ writer[v].at # "idle" => writer[v].e.ver <= row'[writer[v].e.job]
      BY <1>0, <2>2, Typed DEF Known
    <3> QED BY <1>2, <3>1, <3>2
  <2>5. \A v \in Writer : writer'[v].at \in {"push", "send"} => writer'[v].e \in log'
    BY <1>0, <1>1, <1>2 DEF Known
  <2>6. \A i \in DOMAIN stream'.chan : stream'.chan[i] \in log'
    BY <1>0, <1>1 DEF Known
  <2>7. \A k \in Job : client'.view[k] <= row'[k]
    BY <1>0, <1>1, <2>2, Typed DEF Known, Clients
  <2>8. \A s \in Fetches : \A k \in Job : fetch'[s].view[k] <= row'[k]
    BY <1>0, <1>1, <2>2, Typed DEF Known, Requests, Version
  <2> QED BY <2>3, <2>4, <2>5, <2>6, <2>7, <2>8 DEF Known
<1>4. OneFetch'
  BY <1>0, <1>1 DEF OneFetch
<1>5. ASSUME Told PROVE Told'
  <2>1. RowsAreSaid'
    BY <1>1, <1>2, <1>5 DEF Told, RowsAreSaid
  <2>2. \A e : OnItsWay(e) => OnItsWay(e)'
    BY <1>1, <1>2 DEF OnItsWay
  <2>3. NothingIsLost'
    BY <1>1, <1>5, <2>2 DEF Told, NothingIsLost
  <2> QED BY <1>1, <1>5, <2>1, <2>3 DEF Told, Numbered, ClientCovers, Covers, SnapshotCovers, StreamCovers,
                                        StreamIsKnown
<1> QED BY <1>0, <1>1, <1>3, <1>4, <1>5

LEMMA AdvancesKeeps ==
    ASSUME SyncInv, NEW w \in Writer, Advances(w)
    PROVE  Known' /\ OneFetch' /\ (blind' \/ Told')
<1>0. SyncTypeOK /\ Known /\ OneFetch /\ (blind \/ Told)
  BY DEF SyncInv
<1> DEFINE f == [writer[w].e EXCEPT !.seq = IF cursor' = cursor THEN fallback' ELSE cursor']
<1>1. /\ UNCHANGED <<desktop, row, stream, client, fetch>>
      /\ writer[w].at = "advance" /\ writer' = [writer EXCEPT ![w] = [at |-> "push", e |-> f]]
      /\ log' = log \cup {f}
      /\ blind' \/ (cursor' = cursor + 1 /\ blind' = blind)
  BY DEF Advances, Reader
<1>2. writer[w].e \in Event /\ cursor \in Nat
  BY <1>0, <1>1, Typed
<1>3. f.job = writer[w].e.job /\ f.ver = writer[w].e.ver /\ (cursor' = cursor + 1 => f.seq = cursor + 1)
  BY <1>2 DEF Event
<1> HIDE DEF f
<1>4. /\ \A v \in Writer : v # w => writer'[v] = writer[v]
      /\ writer'[w].at = "push" /\ writer'[w].e = f
  BY <1>0, <1>1, Typed
<1>5. Known'
  BY <1>0, <1>1, <1>3, <1>4 DEF Known
<1>6. OneFetch'
  BY <1>0, <1>1 DEF OneFetch
<1>7. ASSUME Told, cursor' = cursor + 1 PROVE Told'
  <2>0. f.seq = cursor + 1
    BY <1>3, <1>7
  <2>1. Numbered'
    BY <1>0, <1>1, <1>7, <2>0, Typed DEF Told, Numbered
  <2>2. /\ \A n \in Nat : n <= cursor => ~(f.seq <= n)
        /\ client.cursor <= cursor /\ stream.from <= cursor /\ stream.last <= cursor
        /\ stream.current <= cursor /\ \A s \in Fetches : fetch[s].c1 <= cursor
    BY <1>2, <1>7, <2>0 DEF Told, Numbered
  <2>3. ClientCovers' /\ SnapshotCovers' /\ StreamCovers' /\ StreamIsKnown'
    BY <1>0, <1>1, <1>7, <2>2, Typed
    DEF Told, ClientCovers, SnapshotCovers, StreamCovers, StreamIsKnown, Covers
  <2>4. RowsAreSaid'
    BY <1>1, <1>3, <1>4, <1>7 DEF Told, RowsAreSaid
  <2>5. \A e : OnItsWay(e) \/ e = f => OnItsWay(e)'
    BY <1>1, <1>4 DEF OnItsWay
  <2>6. NothingIsLost'
    BY <1>1, <1>7, <2>5 DEF Told, NothingIsLost
  <2> QED BY <2>1, <2>3, <2>4, <2>6 DEF Told
<1> QED BY <1>0, <1>1, <1>5, <1>6, <1>7

LEMMA PushesKeeps ==
    ASSUME SyncInv, NEW w \in Writer, Pushes(w)
    PROVE  Known' /\ OneFetch' /\ (blind' \/ Told')
<1>0. SyncTypeOK /\ Known /\ OneFetch /\ (blind \/ Told)
  BY DEF SyncInv
<1>1. /\ UNCHANGED <<desktop, row, cursor, stream, client, fetch, log, blind>>
      /\ writer[w].at = "push" /\ writer' = [writer EXCEPT ![w].at = "send"]
  BY DEF Pushes, Reader
<1>2. writer[w] \in [at : {"advance", "push", "send"}, e : Event]
  BY <1>0, <1>1, Typed
<1>3. /\ \A v \in Writer : v # w => writer'[v] = writer[v]
      /\ writer'[w].at = "send" /\ writer'[w].e = writer[w].e
  BY <1>0, <1>1, <1>2, Typed
<1>4. Known'
  BY <1>0, <1>1, <1>3 DEF Known
<1>5. OneFetch'
  BY <1>0, <1>1 DEF OneFetch
<1>6. ASSUME Told PROVE Told'
  <2>1. RowsAreSaid'
    BY <1>1, <1>3, <1>6 DEF Told, RowsAreSaid
  <2>2. \A e : OnItsWay(e) => OnItsWay(e)'
    BY <1>1, <1>3 DEF OnItsWay
  <2>3. NothingIsLost'
    BY <1>1, <1>6, <2>2 DEF Told, NothingIsLost
  <2> QED BY <1>1, <1>6, <2>1, <2>3 DEF Told, Numbered, ClientCovers, Covers, SnapshotCovers, StreamCovers,
                                        StreamIsKnown
<1> QED BY <1>0, <1>1, <1>4, <1>5, <1>6

\* A writer has sent its event: what was on its way still is, unless the stream is
\* closed or has missed one.
LEMMA SendsKeeps ==
    ASSUME SyncInv, NEW w \in Writer, Sends(w)
    PROVE  Known' /\ OneFetch' /\ (blind' \/ Told')
<1>0. SyncTypeOK /\ Known /\ OneFetch /\ (blind \/ Told)
  BY DEF SyncInv
<1> DEFINE f == writer[w].e
<1>1. /\ UNCHANGED <<desktop, row, cursor, client, fetch, log, blind>>
      /\ writer[w].at = "send" /\ writer' = [writer EXCEPT ![w] = Idle]
  BY DEF Sends
<1>2. f \in Event /\ f \in log
  BY <1>0, <1>1, Typed DEF Known
<1> HIDE DEF f
<1>3. /\ \A v \in Writer : v # w => writer'[v] = writer[v]
      /\ writer'[w].at = "idle"
  BY <1>0, <1>1, Typed, Shapes
<1>4. /\ Append(stream.chan, f) \in Seq(Event)
      /\ DOMAIN Append(stream.chan, f) = 1 .. Len(stream.chan) + 1
      /\ \A i \in DOMAIN stream.chan : Append(stream.chan, f)[i] = stream.chan[i]
      /\ Append(stream.chan, f)[Len(stream.chan) + 1] = f
  BY <1>0, <1>2, Typed, AppendProperties, LenProperties
<1>5. /\ stream'.at = stream.at /\ stream'.from = stream.from /\ stream'.current = stream.current
      /\ stream'.last = stream.last
      /\ \/ stream'.chan = stream.chan /\ (stream.at = "closed" \/ stream'.missed)
         \/ stream'.chan = Append(stream.chan, f) /\ stream'.missed = stream.missed
  <2>1. CASE stream.at = "closed"
    BY <2>1 DEF Sends
  <2>2. CASE stream.at # "closed" /\ Len(stream.chan) < ChanCap
    <3>1. stream' = [stream EXCEPT !.chan = Append(@, f)]
      BY <2>2 DEF Sends, f
    <3> QED BY <1>0, <3>1, Typed DEF Streams
  <2>3. CASE stream.at # "closed" /\ ~(Len(stream.chan) < ChanCap)
    <3>1. stream' = [stream EXCEPT !.missed = TRUE]
      BY <2>3 DEF Sends
    <3> QED BY <1>0, <3>1, Typed DEF Streams
  <2> QED BY <2>1, <2>2, <2>3
<1>6. /\ \A i \in DOMAIN stream'.chan :
             stream'.chan[i] = f \/ \E k \in DOMAIN stream.chan : stream'.chan[i] = stream.chan[k]
      /\ \A k \in DOMAIN stream.chan : \E i \in DOMAIN stream'.chan : stream'.chan[i] = stream.chan[k]
      /\ stream.at = "closed" \/ stream'.missed \/ \E i \in DOMAIN stream'.chan : stream'.chan[i] = f
  <2>1. CASE stream'.chan = stream.chan /\ (stream.at = "closed" \/ stream'.missed)
    BY <2>1
  <2>2. CASE stream'.chan = Append(stream.chan, f)
    <3>1. Len(stream.chan) \in Nat /\ DOMAIN stream.chan = 1 .. Len(stream.chan)
      BY <1>0, Typed
    <3>2. Len(stream.chan) + 1 \in 1 .. Len(stream.chan) + 1
      BY <3>1
    <3>3. \A i \in 1 .. Len(stream.chan) + 1 : i = Len(stream.chan) + 1 \/ i \in 1 .. Len(stream.chan)
      BY <3>1
    <3>4. \A i \in 1 .. Len(stream.chan) : i \in 1 .. Len(stream.chan) + 1
      BY <3>1
    <3> QED BY <1>4, <2>2, <3>1, <3>2, <3>3, <3>4
  <2> QED BY <1>5, <2>1, <2>2
<1>7. Known'
  BY <1>0, <1>1, <1>2, <1>3, <1>6 DEF Known
<1>8. OneFetch'
  BY <1>0, <1>1, <1>5 DEF OneFetch
<1>9. ASSUME Told PROVE Told'
  <2>1. RowsAreSaid'
    BY <1>1, <1>3, <1>9 DEF Told, RowsAreSaid
  <2>2. ASSUME NEW e, OnItsWay(e), stream.at # "closed", ~stream'.missed PROVE OnItsWay(e)'
    <3>1. CASE e = f
      BY <1>6, <2>2, <3>1 DEF OnItsWay
    <3>2. CASE e # f
      BY <1>1, <1>3, <1>6, <2>2, <3>2 DEF OnItsWay, f
    <3> QED BY <3>1, <3>2
  <2>3. stream.missed => stream'.missed \/ stream.at = "closed"
    BY <1>5
  <2>4. NothingIsLost'
    BY <1>1, <1>5, <1>9, <2>2, <2>3 DEF Told, NothingIsLost
  <2> QED BY <1>1, <1>5, <1>9, <2>1, <2>4 DEF Told, Numbered, ClientCovers, Covers, SnapshotCovers,
                                              StreamCovers, StreamIsKnown
<1> QED BY <1>0, <1>1, <1>7, <1>8, <1>9

LEMMA CursorOnlyKeeps ==
    ASSUME SyncInv, CursorOnly
    PROVE  Known' /\ OneFetch' /\ (blind' \/ Told')
<1>0. SyncTypeOK /\ Known /\ OneFetch /\ (blind \/ Told)
  BY DEF SyncInv
<1>1. UNCHANGED <<desktop, row, writer, client, fetch, log, blind>> /\ cursor' = cursor + 1 /\ cursor \in Nat
  BY <1>0, Typed DEF CursorOnly
<1>2. /\ stream'.at = stream.at /\ stream'.from = stream.from /\ stream'.current = stream.current
      /\ stream'.last = stream.last /\ stream'.chan = stream.chan /\ (stream.at = "closed" \/ stream'.missed)
  BY <1>0, Typed DEF CursorOnly, Streams
<1>3. Known' /\ OneFetch'
  BY <1>0, <1>1, <1>2 DEF Known, OneFetch
<1>4. ASSUME Told PROVE Told'
  <2>1. Numbered'
    BY <1>0, <1>1, <1>2, <1>4, Typed DEF Told, Numbered
  <2>2. NothingIsLost'
    BY <1>1, <1>2 DEF NothingIsLost
  <2> QED BY <1>1, <1>2, <1>4, <2>1, <2>2 DEF Told, ClientCovers, Covers, SnapshotCovers, StreamCovers,
                                              StreamIsKnown, RowsAreSaid
<1> QED BY <1>0, <1>1, <1>3, <1>4
-------------------------------------------------------------------------------
(***************************************************************************)
(* The snapshots.                                                          *)
(***************************************************************************)
LEMMA SnapshotKeeps ==
    ASSUME SyncInv, NEW s \in Fetches, Snapshot(s)
    PROVE  Known' /\ OneFetch' /\ (blind' \/ Told')
<1>0. SyncTypeOK /\ Known /\ OneFetch /\ (blind \/ Told)
  BY DEF SyncInv
<1>1. UNCHANGED <<desktop, row, cursor, writer, stream, client, log, blind>>
  BY DEF Snapshot, Server
<1>2. /\ fetch[s] \in Requests /\ cursor \in Nat /\ row \in [Job -> Nat]
      /\ \A z \in Fetches : z # s => fetch'[z] = fetch[z]
  BY <1>0, Typed DEF Snapshot
<1>3. /\ fetch[s].at # "none"
      /\ \/ fetch'[s].at = "jobs" /\ fetch'[s].c1 = cursor /\ fetch'[s].view = fetch[s].view
         \/ fetch'[s].at = "check" /\ fetch'[s].c1 = fetch[s].c1 /\ fetch'[s].view = row
         \/ /\ fetch[s].at = "check" /\ fetch'[s].at = "reply"
            /\ fetch'[s].c1 = fetch[s].c1 /\ fetch'[s].view = fetch[s].view
         \/ fetch'[s].at = "cursor" /\ fetch'[s].c1 = 0 /\ \A j \in Job : fetch'[s].view[j] = 0
  <2>1. /\ [fetch[s] EXCEPT !.at = "jobs", !.c1 = cursor].view = fetch[s].view
        /\ [fetch[s] EXCEPT !.at = "check", !.view = row].c1 = fetch[s].c1
        /\ [fetch[s] EXCEPT !.at = "reply"].c1 = fetch[s].c1
        /\ [fetch[s] EXCEPT !.at = "reply"].view = fetch[s].view
    BY <1>2 DEF Requests
  <2>2. fetch \in [Fetches -> Requests]
    BY <1>0, Typed
  <2>3. CASE fetch[s].at = "cursor" /\ fetch' = [fetch EXCEPT ![s].at = "jobs", ![s].c1 = cursor]
    BY <1>2, <2>1, <2>2, <2>3 DEF Requests
  <2>4. CASE fetch[s].at = "jobs" /\ fetch' = [fetch EXCEPT ![s].at = "check", ![s].view = row]
    BY <1>2, <2>1, <2>2, <2>4 DEF Requests
  <2>5. CASE fetch[s].at = "check" /\ fetch' = [fetch EXCEPT ![s].at = "reply"]
    BY <1>2, <2>1, <2>2, <2>5 DEF Requests
  <2>6. CASE fetch[s].at = "check" /\ fetch' = [fetch EXCEPT ![s] = Asked]
    BY <2>2, <2>6, Shapes
  <2> QED BY <2>3, <2>4, <2>5, <2>6 DEF Snapshot
<1>4. Known'
  <2>1. \A j \in Job : row[j] \in Nat /\ row[j] <= row[j] /\ 0 <= row[j]
    BY <1>2
  <2>2. \A j \in Job : fetch'[s].view[j] <= row[j]
    BY <1>0, <1>3, <2>1 DEF Known
  <2> QED BY <1>0, <1>1, <1>2, <2>2 DEF Known
<1>5. OneFetch'
  BY <1>0, <1>1, <1>2, <1>3 DEF OneFetch, Fetches
<1>6. ASSUME Told PROVE Told'
  <2>1. Numbered'
    <3>1. fetch'[s].c1 <= cursor
      BY <1>2, <1>3, <1>6 DEF Told, Numbered
    <3> QED BY <1>1, <1>2, <1>6, <3>1 DEF Told, Numbered
  <2>2. SnapshotCovers'
    <3>1. \A n : Covers(row, n)
      BY <1>0 DEF Known, Covers
    <3>2. fetch'[s].at \in {"check", "reply"} => Covers(fetch'[s].view, fetch'[s].c1)
      BY <1>3, <1>6, <3>1 DEF Told, SnapshotCovers
    <3> QED BY <1>1, <1>2, <1>6, <3>2 DEF Told, SnapshotCovers, Covers
  <2> QED BY <1>1, <1>6, <2>1, <2>2 DEF Told, ClientCovers, Covers, StreamCovers, StreamIsKnown, RowsAreSaid,
                                        NothingIsLost, OnItsWay
<1> QED BY <1>0, <1>1, <1>4, <1>5, <1>6

\* The first load: a client that it sets back is blind; otherwise its number covers
\* what a stream that is already open has passed.
LEMMA MountArrivesKeeps ==
    ASSUME SyncInv, MountArrives
    PROVE  Known' /\ OneFetch' /\ (blind' \/ Told')
<1>0. SyncTypeOK /\ Known /\ OneFetch /\ (blind \/ Told)
  BY DEF SyncInv
<1> DEFINE snapshot == fetch["mount"]
<1>1. /\ UNCHANGED <<desktop, row, cursor, writer, stream, log>>
      /\ snapshot.at = "reply" /\ fetch' = [fetch EXCEPT !["mount"] = NoFetch]
      /\ client'.cursor = snapshot.c1 /\ client'.view = snapshot.view
      /\ client'.trigger = (client.trigger \/ snapshot.c1 > 0)
      /\ blind' = (blind \/ snapshot.c1 < client.cursor)
  BY DEF MountArrives, Server
<1>2. /\ "mount" \in Fetches /\ snapshot \in Requests /\ snapshot.c1 \in Nat /\ client.cursor \in Nat
      /\ stream.from \in Nat /\ stream.last \in Nat
      /\ fetch'["mount"] = NoFetch /\ \A z \in Fetches : z # "mount" => fetch'[z] = fetch[z]
  BY <1>0, <1>1, Typed DEF Fetches
<1>3. /\ fetch'["mount"].at = "none" /\ fetch'["mount"].c1 = 0
      /\ \A j \in Job : fetch'["mount"].view[j] = 0
  BY <1>2, Shapes
<1>4. Known'
  <2>1. \A j \in Job : snapshot.view[j] <= row[j] /\ row[j] \in Nat /\ 0 <= row[j]
    BY <1>0, <1>2, Typed DEF Known
  <2> HIDE DEF snapshot
  <2> QED BY <1>0, <1>1, <1>2, <1>3, <2>1 DEF Known
<1>5. OneFetch'
  BY <1>3 DEF OneFetch
<1>6. ASSUME Told, ~(snapshot.c1 < client.cursor) PROVE Told'
  <2>1. client.cursor <= snapshot.c1 /\ snapshot.c1 <= cursor /\ Covers(snapshot.view, snapshot.c1)
    BY <1>1, <1>2, <1>6 DEF Told, SnapshotCovers, Numbered
  <2>2. Numbered'
    <3>1. 0 <= cursor
      BY <1>0, Typed
    <3>2. \A z \in Fetches : fetch'[z].c1 <= cursor
      BY <1>2, <1>3, <1>6, <3>1 DEF Told, Numbered
    <3> QED BY <1>1, <1>6, <2>1, <3>2 DEF Told, Numbered
  <2>3. ClientCovers'
    BY <1>1, <2>1 DEF ClientCovers, Covers
  <2>4. SnapshotCovers'
    BY <1>1, <1>2, <1>3, <1>6 DEF Told, SnapshotCovers, Covers
  <2>5. stream.at # "closed" => /\ ~client.trigger
                                /\ stream.from <= client.cursor /\ stream.last <= client.cursor
    BY <1>0, <1>1, <1>6 DEF OneFetch, Told, StreamIsKnown
  <2>6. stream.at # "closed" => stream.from <= snapshot.c1 /\ stream.last <= snapshot.c1
    BY <1>2, <2>1, <2>5
  <2>7. \A n \in Nat : n <= snapshot.c1 => Covers(snapshot.view, n)
    BY <1>0, <1>2, <2>1, Typed DEF Covers
  <2> HIDE DEF snapshot
  <2>8. StreamCovers' /\ StreamIsKnown'
    BY <1>1, <1>2, <2>6, <2>7 DEF StreamCovers, StreamIsKnown, Covers
  <2>9. NothingIsLost'
    <3>1. \A e \in log : snapshot.c1 < e.seq => client.cursor < e.seq
      BY <1>0, <1>2, <2>1, Typed
    <3> QED BY <1>1, <1>6, <2>5, <3>1 DEF Told, NothingIsLost, OnItsWay
  <2>10. RowsAreSaid'
    BY <1>1, <1>6 DEF Told, RowsAreSaid
  <2> QED BY <2>2, <2>3, <2>4, <2>8, <2>9, <2>10 DEF Told
<1> QED BY <1>0, <1>1, <1>4, <1>5, <1>6

\* A later snapshot may set the number back; its stream is set up again.
LEMMA RehydrateArrivesKeeps ==
    ASSUME SyncInv, RehydrateArrives
    PROVE  Known' /\ OneFetch' /\ (blind' \/ Told')
<1>0. SyncTypeOK /\ Known /\ OneFetch /\ (blind \/ Told)
  BY DEF SyncInv
<1> DEFINE snapshot == fetch["rehydrate"]
           merged == Newer(client.view, snapshot.view)
<1>1. /\ UNCHANGED <<desktop, row, cursor, writer, stream, log, blind>>
      /\ snapshot.at = "reply" /\ fetch' = [fetch EXCEPT !["rehydrate"] = NoFetch]
      /\ client'.cursor = snapshot.c1 /\ client'.view = merged /\ client'.trigger
  BY DEF RehydrateArrives, Server
<1>2. /\ "rehydrate" \in Fetches /\ "mount" \in Fetches /\ snapshot \in Requests /\ snapshot.c1 \in Nat
      /\ snapshot.view \in [Job -> Nat] /\ client.view \in [Job -> Nat]
      /\ fetch'["rehydrate"] = NoFetch /\ \A z \in Fetches : z # "rehydrate" => fetch'[z] = fetch[z]
  BY <1>0, <1>1, Typed DEF Fetches
<1>3. /\ fetch'["rehydrate"].at = "none" /\ fetch'["rehydrate"].c1 = 0
      /\ \A j \in Job : fetch'["rehydrate"].view[j] = 0
  BY <1>2, Shapes
<1>4. \A j \in Job : /\ client.view[j] <= merged[j] /\ snapshot.view[j] <= merged[j]
                     /\ merged[j] = client.view[j] \/ merged[j] = snapshot.view[j]
                     /\ merged[j] \in Nat /\ client.view[j] \in Nat /\ snapshot.view[j] \in Nat
  BY <1>2 DEF Newer
<1> HIDE DEF snapshot, merged
<1>5. Known'
  <2>1. \A j \in Job : merged[j] <= row[j] /\ row[j] \in Nat /\ 0 <= row[j]
    <3>1. row \in [Job -> Nat]
      BY <1>0, Typed
    <3>2. \A j \in Job : client.view[j] <= row[j] /\ snapshot.view[j] <= row[j]
      BY <1>0, <1>2 DEF Known, snapshot
    <3> QED BY <1>4, <3>1, <3>2
  <2> QED BY <1>0, <1>1, <1>2, <1>3, <2>1 DEF Known
<1>6. OneFetch'
  BY <1>0, <1>1, <1>2, <1>3 DEF OneFetch, snapshot
<1>7. ASSUME Told PROVE Told'
  <2>1. snapshot.c1 <= cursor /\ Covers(snapshot.view, snapshot.c1)
    BY <1>1, <1>2, <1>7 DEF Told, SnapshotCovers, Numbered, snapshot
  <2>2. Numbered'
    <3>1. 0 <= cursor
      BY <1>0, Typed
    <3>2. \A z \in Fetches : fetch'[z].c1 <= cursor
      BY <1>2, <1>3, <1>7, <3>1 DEF Told, Numbered
    <3> QED BY <1>1, <1>7, <2>1, <3>2 DEF Told, Numbered
  <2>3. ClientCovers'
    <3>1. \A e \in log : e.job \in Job /\ e.ver \in Nat
      BY <1>0, Typed
    <3>2. \A e \in log : e.seq <= snapshot.c1 => e.ver <= merged[e.job]
      BY <1>4, <2>1, <3>1 DEF Covers
    <3> QED BY <1>1, <3>2 DEF ClientCovers, Covers
  <2>4. SnapshotCovers'
    BY <1>1, <1>2, <1>3, <1>7 DEF Told, SnapshotCovers, Covers
  <2>5. StreamCovers'
    <3>1. \A e \in log : e.job \in Job /\ e.ver \in Nat
      BY <1>0, Typed
    <3>2. client.view \in [Job -> Nat]
      BY <1>0, Typed
    <3>3. ASSUME NEW n, Covers(client.view, n) PROVE \A e \in log : e.seq <= n => e.ver <= merged[e.job]
      BY <1>4, <3>1, <3>2, <3>3 DEF Covers
    <3>4. stream.at # "closed" => Covers(client.view, stream.from) /\ Covers(client.view, stream.last)
      BY <1>7 DEF Told, StreamCovers
    <3> QED BY <1>1, <3>3, <3>4 DEF StreamCovers, Covers
  <2>6. StreamIsKnown' /\ NothingIsLost' /\ RowsAreSaid'
    BY <1>1, <1>7 DEF Told, StreamIsKnown, NothingIsLost, OnItsWay, RowsAreSaid
  <2> QED BY <2>2, <2>3, <2>4, <2>5, <2>6 DEF Told
<1> QED BY <1>0, <1>1, <1>5, <1>6, <1>7

LEMMA FetchFailsKeeps ==
    ASSUME SyncInv, NEW s \in Fetches, FetchFails(s)
    PROVE  Known' /\ OneFetch' /\ (blind' \/ Told')
<1>0. SyncTypeOK /\ Known /\ OneFetch /\ (blind \/ Told)
  BY DEF SyncInv
<1>1. /\ UNCHANGED <<desktop, row, cursor, writer, stream, log>>
      /\ fetch' = [fetch EXCEPT ![s] = NoFetch]
      /\ s # "mount" => client' = client /\ blind' = blind
      /\ s = "mount" => client' = [client EXCEPT !.view = Newer(@, row)] /\ blind'
  BY <1>0, TypeParts DEF FetchFails, Server, TypeOfClient
<1>2. /\ fetch'[s].at = "none" /\ fetch'[s].c1 = 0 /\ \A j \in Job : fetch'[s].view[j] = 0
      /\ \A z \in Fetches : z # s => fetch'[z] = fetch[z]
  BY <1>0, <1>1, Typed, Shapes
<1>3. /\ client'.trigger = client.trigger
      /\ \A j \in Job : client'.view[j] <= row[j] /\ row[j] \in Nat /\ 0 <= row[j]
  <2>1. client \in Clients /\ client.view \in [Job -> Nat] /\ row \in [Job -> Nat]
    BY <1>0, Typed
  <2>2. \A j \in Job : Newer(client.view, row)[j] <= row[j]
    BY <1>0, <2>1 DEF Newer, Known
  <2> QED BY <1>0, <1>1, <2>1, <2>2 DEF Known, Clients
<1>4. Known'
  BY <1>0, <1>1, <1>2, <1>3 DEF Known
<1>5. OneFetch'
  BY <1>0, <1>1, <1>2, <1>3 DEF OneFetch, Fetches
<1>6. ASSUME Told, s # "mount" PROVE Told'
  <2>1. Numbered' /\ SnapshotCovers'
    <3>1. 0 <= cursor
      BY <1>0, Typed
    <3> QED BY <1>1, <1>2, <1>6, <3>1 DEF Told, Numbered, SnapshotCovers, Covers
  <2> QED BY <1>1, <1>6, <2>1 DEF Told, ClientCovers, Covers, StreamCovers, StreamIsKnown, RowsAreSaid,
                                  NothingIsLost, OnItsWay
<1> QED BY <1>0, <1>1, <1>4, <1>5, <1>6
-------------------------------------------------------------------------------
(***************************************************************************)
(* The stream.                                                             *)
(***************************************************************************)
LEMMA SubscribeKeeps ==
    ASSUME SyncInv, Subscribe
    PROVE  Known' /\ OneFetch' /\ (blind' \/ Told')
<1>0. SyncTypeOK /\ Known /\ OneFetch /\ (blind \/ Told)
  BY DEF SyncInv
<1>1. /\ UNCHANGED <<desktop, row, cursor, writer, fetch, log, blind>> /\ client.trigger
      /\ client'.cursor = client.cursor /\ client'.view = client.view /\ ~client'.trigger
  BY <1>0, Typed DEF Subscribe, Server, Clients
<1>2. /\ stream'.at = (IF desktop /\ client.cursor = 0 THEN "live" ELSE "subscribed")
      /\ stream'.from = client.cursor /\ stream'.last = (IF desktop THEN client.cursor ELSE 0)
      /\ stream'.current = 0 /\ DOMAIN stream'.chan = {}
  BY DEF Subscribe, Closed
<1>3. Known'
  BY <1>0, <1>1, <1>2 DEF Known
<1>4. OneFetch'
  BY <1>0, <1>1 DEF OneFetch
<1>5. ASSUME Told PROVE Told'
  <2>0. client.cursor \in Nat /\ cursor \in Nat
    BY <1>0, Typed
  <2>1. Numbered'
    BY <1>1, <1>2, <1>5, <2>0 DEF Told, Numbered
  <2>2. StreamCovers' /\ ClientCovers'
    <3>1. Covers(client.view, client.cursor)
      BY <1>5 DEF Told, ClientCovers
    <3>2. Covers(client.view, 0)
      <4>1. \A e \in log : e.seq \in Nat /\ 1 <= e.seq
        BY <1>0, <1>5, Typed DEF Told, Numbered
      <4> QED BY <4>1 DEF Covers
    <3> QED BY <1>1, <1>2, <3>1, <3>2 DEF StreamCovers, ClientCovers, Covers
  <2>3. StreamIsKnown'
    BY <1>1, <1>2, <2>0 DEF StreamIsKnown
  <2>4. NothingIsLost'
    BY <1>1, <1>2 DEF NothingIsLost
  <2> QED BY <1>1, <1>5, <2>1, <2>2, <2>3, <2>4 DEF Told, SnapshotCovers, Covers, RowsAreSaid
<1> QED BY <1>0, <1>1, <1>3, <1>4, <1>5

LEMMA ReadCursorKeeps ==
    ASSUME SyncInv, ReadCursor
    PROVE  Known' /\ OneFetch' /\ (blind' \/ Told')
<1>0. SyncTypeOK /\ Known /\ OneFetch /\ (blind \/ Told)
  BY DEF SyncInv
<1>1. UNCHANGED <<desktop, row, cursor, writer, client, fetch, log, blind>> /\ stream.at = "subscribed"
  BY DEF ReadCursor, Server
<1>2. /\ stream'.at = "asked" /\ stream'.current = cursor /\ stream'.from = stream.from
      /\ stream'.last = stream.last /\ stream'.chan = stream.chan /\ stream'.missed = stream.missed
  BY <1>0, Typed DEF ReadCursor, Streams
<1>3. Known'
  BY <1>0, <1>1, <1>2 DEF Known
<1>4. OneFetch'
  BY <1>0, <1>1, <1>2 DEF OneFetch
<1>5. ASSUME Told PROVE Told'
  <2>1. Numbered'
    BY <1>0, <1>1, <1>2, <1>5, Typed DEF Told, Numbered
  <2>2. StreamCovers' /\ StreamIsKnown'
    BY <1>1, <1>2, <1>5 DEF Told, StreamCovers, StreamIsKnown, Covers
  <2>3. NothingIsLost'
    <3>1. \A e \in log : ~(cursor < e.seq)
      BY <1>0, <1>5, Typed DEF Told, Numbered
    <3> QED BY <1>1, <1>2, <3>1 DEF NothingIsLost
  <2> QED BY <1>1, <1>5, <2>1, <2>2, <2>3 DEF Told, ClientCovers, SnapshotCovers, Covers, RowsAreSaid
<1> QED BY <1>0, <1>1, <1>3, <1>4, <1>5

\* A stream that is open ends, and a snapshot is asked for.
LEMMA ResyncKeeps ==
    ASSUME SyncInv, Resync, stream.at # "closed",
           UNCHANGED <<desktop, row, cursor, writer, log, blind>>
    PROVE  Known' /\ OneFetch' /\ (blind' \/ Told')
<1>0. SyncTypeOK /\ Known /\ OneFetch /\ (blind \/ Told)
  BY DEF SyncInv
<1>1. /\ client' = client /\ fetch' = [fetch EXCEPT !["rehydrate"] = Asked]
      /\ stream'.at = "closed" /\ stream'.from = 0 /\ stream'.last = 0 /\ stream'.current = 0
      /\ DOMAIN stream'.chan = {}
  BY DEF Resync, Closed
<1>2. /\ "rehydrate" \in Fetches /\ "mount" \in Fetches
      /\ fetch'["rehydrate"].at = "cursor" /\ fetch'["rehydrate"].c1 = 0
      /\ \A j \in Job : fetch'["rehydrate"].view[j] = 0
      /\ \A z \in Fetches : z # "rehydrate" => fetch'[z] = fetch[z]
  <2>1. "rehydrate" \in Fetches /\ "mount" \in Fetches
    BY DEF Fetches
  <2> QED BY <1>0, <1>1, <2>1, Typed, Shapes
<1>3. Known'
  <2>1. \A j \in Job : row[j] \in Nat /\ 0 <= row[j]
    BY <1>0, Typed
  <2> QED BY <1>0, <1>1, <1>2, <2>1 DEF Known
<1>4. OneFetch'
  BY <1>0, <1>1, <1>2 DEF OneFetch
<1>5. ASSUME Told PROVE Told'
  <2>1. Numbered'
    <3>1. 0 <= cursor
      BY <1>0, Typed
    <3> QED BY <1>1, <1>2, <1>5, <3>1 DEF Told, Numbered
  <2>2. SnapshotCovers'
    BY <1>2, <1>5 DEF Told, SnapshotCovers, Covers
  <2> QED BY <1>1, <1>5, <2>1, <2>2 DEF Told, ClientCovers, Covers, StreamCovers, StreamIsKnown, RowsAreSaid,
                                        NothingIsLost
<1> QED BY <1>0, <1>3, <1>4, <1>5

\* A replay begins where the client's number was, and leaves out nothing up to the
\* number it ends with.
LEMMA GoesOnKeeps ==
    ASSUME SyncInv, NEW s \in Seq(Event), GoesOn(s), stream.at = "asked",
           UNCHANGED <<desktop, row, cursor, writer, log, blind>>,
           \A i \in 1 .. Len(s) : s[i] \in log /\ s[i].seq = stream.from + i,
           s = <<>> => desktop \/ stream.from = stream.current,
           s # <<>> => desktop \/ stream.current <= s[Len(s)].seq
    PROVE  Known' /\ OneFetch' /\ (blind' \/ Told')
<1>0. SyncTypeOK /\ Known /\ OneFetch /\ (blind \/ Told)
  BY DEF SyncInv
<1> DEFINE d == AllApplied(client, s)
<1>1. /\ client' = d /\ fetch' = fetch
      /\ stream'.at = "live" /\ stream'.current = 0 /\ stream'.from = stream.from /\ stream'.chan = stream.chan
      /\ stream'.missed = stream.missed
      /\ stream'.last = IF s # <<>> THEN s[Len(s)].seq ELSE IF desktop THEN stream.last ELSE stream.current
  BY <1>0, Typed DEF GoesOn, Streams
<1>2. /\ d \in Clients /\ d.trigger = client.trigger /\ client.cursor <= d.cursor
      /\ d.cursor = client.cursor \/ \E i \in 1 .. Len(s) : d.cursor = s[i].seq
      /\ \A i \in 1 .. Len(s) : s[i].seq <= d.cursor
      /\ \A j \in Job : client.view[j] <= d.view[j]
      /\ \A i \in 1 .. Len(s) : client.cursor < s[i].seq => s[i].ver <= d.view[s[i].job]
      /\ \A j \in Job : \/ d.view[j] = client.view[j]
                        \/ \E i \in 1 .. Len(s) : s[i].job = j /\ d.view[j] = s[i].ver
  <2>1. client \in Clients
    BY <1>0, Typed
  <2> QED BY <2>1, ReplayIsApplied
<1>3. /\ client.cursor \in Nat /\ client.view \in [Job -> Nat] /\ d.cursor \in Nat /\ d.view \in [Job -> Nat]
      /\ stream.from \in Nat /\ stream.current \in Nat /\ stream.last \in Nat /\ cursor \in Nat
      /\ \A e \in log : e.seq \in Nat /\ e.ver \in Nat /\ e.job \in Job
  BY <1>0, <1>2, Typed DEF Clients, Number, Version
<1> HIDE DEF d
<1>4. Len(s) \in Nat /\ (s # <<>> => Len(s) \in 1 .. Len(s))
  BY LenProperties, EmptySeq
<1>5. Known'
  <2>1. \A j \in Job : d.view[j] <= row[j]
    BY <1>0, <1>2 DEF Known
  <2> QED BY <1>0, <1>1, <2>1 DEF Known
<1>6. OneFetch'
  BY <1>0, <1>1, <1>2 DEF OneFetch
<1>7. ASSUME Told PROVE Told'
  <2>1. \A e \in log : /\ 1 <= e.seq /\ e.seq <= cursor
                       /\ \A f \in log : e.seq = f.seq => e = f
    BY <1>7 DEF Told, Numbered
  <2>2. \A i \in 1 .. Len(s) : s[i].seq <= cursor
    BY <2>1
  <2>3. Numbered'
    <3>1. d.cursor <= cursor
      BY <1>2, <1>7, <2>2 DEF Told, Numbered
    <3>2. stream'.last <= cursor
      BY <1>1, <1>4, <1>7, <2>2 DEF Told, Numbered
    <3>3. 0 <= cursor
      BY <1>3
    <3> QED BY <1>1, <1>7, <3>1, <3>2, <3>3 DEF Told, Numbered
  <2>4. Covers(client.view, client.cursor) /\ Covers(client.view, stream.from) /\ Covers(client.view, stream.last)
    BY <1>7 DEF Told, ClientCovers, StreamCovers
  <2>5. ASSUME NEW e \in log, e.seq <= client.cursor \/ e.seq <= stream.from \/ e.seq <= stream.last
                              \/ e.seq <= stream.from + Len(s)
        PROVE  e.ver <= d.view[e.job]
    <3>1. CASE e.ver <= client.view[e.job]
      BY <1>2, <1>3, <3>1
    <3>2. CASE ~(e.ver <= client.view[e.job])
      <4>1. ~(e.seq <= client.cursor) /\ ~(e.seq <= stream.from) /\ e.seq <= stream.from + Len(s)
        BY <2>4, <2>5, <3>2 DEF Covers
      <4>2. PICK i \in 1 .. Len(s) : e.seq = stream.from + i
        <5>1. e.seq - stream.from \in 1 .. Len(s) /\ e.seq = stream.from + (e.seq - stream.from)
          BY <1>3, <1>4, <4>1
        <5> QED BY <5>1
      <4>3. s[i] = e
        BY <2>1, <4>2
      <4>4. client.cursor < e.seq
        BY <1>3, <4>1
      <4> QED BY <1>2, <4>3, <4>4
    <3> QED BY <3>1, <3>2
  <2>6. d.cursor <= client.cursor \/ d.cursor <= stream.from + Len(s)
    BY <1>2, <1>3, <1>4
  <2>7. ClientCovers'
    <3>1. \A e \in log : e.seq <= d.cursor => e.seq <= client.cursor \/ e.seq <= stream.from + Len(s)
      BY <1>3, <1>4, <2>6
    <3> QED BY <1>1, <2>5, <3>1 DEF ClientCovers, Covers
  <2>8. /\ s # <<>> => stream'.last = stream.from + Len(s)
        /\ s = <<>> => stream'.last = stream.last \/ stream'.last = stream.from
    BY <1>1, <1>4
  <2>9. StreamCovers'
    BY <1>1, <2>5, <2>8 DEF StreamCovers, Covers
  <2>10. StreamIsKnown'
    <3>1. ~client.trigger => stream.from <= client.cursor /\ stream.last <= client.cursor
      BY <1>7 DEF Told, StreamIsKnown
    <3>2. s # <<>> => stream'.last <= d.cursor
      BY <1>1, <1>2, <1>4
    <3> QED BY <1>1, <1>2, <1>3, <2>8, <3>1, <3>2 DEF StreamIsKnown
  <2>11. NothingIsLost'
    <3> SUFFICES ASSUME ~desktop, ~stream.missed, ~client.trigger, NEW e \in log, d.cursor < e.seq
                 PROVE  OnItsWay(e)
      BY <1>1, <1>2 DEF NothingIsLost, OnItsWay
    <3>1. stream.current <= d.cursor
      <4>1. CASE s = <<>>
        <5>1. stream.current <= client.cursor
          BY <1>7, <4>1 DEF Told, StreamIsKnown
        <5> QED BY <1>2, <1>3, <5>1
      <4>2. CASE s # <<>>
        <5>1. s[Len(s)].seq <= d.cursor /\ stream.current <= s[Len(s)].seq /\ s[Len(s)].seq \in Nat
          BY <1>2, <1>3, <1>4, <4>2
        <5> QED BY <1>3, <5>1
      <4> QED BY <4>1, <4>2
    <3>2. stream.current < e.seq
      BY <1>3, <3>1
    <3> QED BY <1>7, <3>2 DEF Told, NothingIsLost
  <2>12. SnapshotCovers' /\ RowsAreSaid'
    BY <1>1, <1>7 DEF Told, SnapshotCovers, Covers, RowsAreSaid
  <2> QED BY <2>3, <2>7, <2>9, <2>10, <2>11, <2>12 DEF Told
<1> QED BY <1>0, <1>5, <1>6, <1>7

LEMMA ReplaysKeeps ==
    ASSUME SyncInv, Replays
    PROVE  Known' /\ OneFetch' /\ (blind' \/ Told')
<1>0. SyncTypeOK
  BY DEF SyncInv
<1> DEFINE from == stream.from
           s == EventsAfter(from)
           complete == Bridged(from) /\ (desktop \/ (s # <<>> /\ replay[Len(replay)].seq >= stream.current))
<1>1. UNCHANGED <<desktop, row, cursor, writer, log, blind>> /\ stream.at = "asked"
  BY DEF Replays, Server
<1>2. from \in Nat /\ stream.current \in Nat /\ replay \in Seq(Event) /\ \A k \in DOMAIN replay : replay[k] \in log
  BY <1>0, Typed, TypeParts DEF TypeOfServer
<1>3. CASE from = stream.current /\ GoesOn(<<>>)
  <2>1. <<>> \in Seq(Event) /\ 1 .. Len(<<>>) = {}
    BY EmptySeq
  <2> QED BY <1>1, <1>3, <2>1, GoesOnKeeps
<1>4. CASE from < stream.current /\ complete /\ GoesOn(s)
  <2>1. /\ s \in Seq(Event)
        /\ \A i \in 1 .. Len(s) : \E k \in DOMAIN replay : s[i] = replay[k]
        /\ \A i \in 1 .. Len(s) : s[i].seq = from + i
        /\ s # <<>> => Len(s) \in Nat \ {0} /\ s[Len(s)] = replay[Len(replay)]
    BY <1>2, <1>4, BridgeIsWhole
  <2> HIDE DEF s
  <2>2. \A i \in 1 .. Len(s) : s[i] \in log /\ s[i].seq = stream.from + i
    BY <1>2, <2>1
  <2>3. /\ s = <<>> => desktop
        /\ s # <<>> => desktop \/ stream.current <= s[Len(s)].seq
    <3>1. s # <<>> => s[Len(s)].seq \in Nat
      <4> SUFFICES ASSUME s # <<>> PROVE s[Len(s)].seq \in Nat
        OBVIOUS
      <4>1. Len(s) \in 1 .. Len(s)
        BY <2>1
      <4>2. s[Len(s)] \in log
        BY <2>2, <4>1
      <4> QED BY <1>0, <4>2, Typed
    <3> QED BY <1>2, <1>4, <2>1, <3>1
  <2> QED BY <1>1, <1>4, <2>1, <2>2, <2>3, GoesOnKeeps
<1>5. CASE Resync
  BY <1>1, <1>5, ResyncKeeps
<1> QED BY <1>3, <1>4, <1>5 DEF Replays

\* What a stream hands over is the next number after the ones it has passed, or the
\* client is blind; what it drops was passed.
LEMMA DeliversKeeps ==
    ASSUME SyncInv, Delivers
    PROVE  Known' /\ OneFetch' /\ (blind' \/ Told')
<1>0. SyncTypeOK /\ Known /\ OneFetch /\ (blind \/ Told)
  BY DEF SyncInv
<1> DEFINE e == Head(stream.chan)
<1>1. UNCHANGED <<desktop, row, cursor, writer, log>> /\ stream.at = "live" /\ stream.chan # <<>>
  BY DEF Delivers, Server
<1>2. /\ Len(stream.chan) \in Nat \ {0} /\ DOMAIN stream.chan = 1 .. Len(stream.chan) /\ e = stream.chan[1]
      /\ Tail(stream.chan) \in Seq(Event) /\ DOMAIN Tail(stream.chan) = 1 .. Len(stream.chan) - 1
      /\ \A i \in 1 .. Len(stream.chan) - 1 : Tail(stream.chan)[i] = stream.chan[i + 1]
  <2>1. stream.chan \in Seq(Event) /\ Len(stream.chan) \in Nat /\ DOMAIN stream.chan = 1 .. Len(stream.chan)
    BY <1>0, Typed
  <2>2. Len(stream.chan) # 0
    BY <1>1, <2>1, EmptySeq
  <2>3. /\ Tail(stream.chan) \in Seq(Event) /\ Len(Tail(stream.chan)) = Len(stream.chan) - 1
        /\ \A i \in 1 .. Len(Tail(stream.chan)) : Tail(stream.chan)[i] = stream.chan[i + 1]
    BY <1>1, <2>1, HeadTailProperties
  <2>4. DOMAIN Tail(stream.chan) = 1 .. Len(stream.chan) - 1
    BY <2>3, LenProperties
  <2> QED BY <2>1, <2>2, <2>3, <2>4
<1>3. e \in log
  <2>1. 1 \in DOMAIN stream.chan
    BY <1>2
  <2> QED BY <1>0, <1>2, <2>1 DEF Known
<1> HIDE DEF e
<1>4. /\ \A i \in DOMAIN Tail(stream.chan) : \E k \in DOMAIN stream.chan : Tail(stream.chan)[i] = stream.chan[k]
      /\ \A k \in DOMAIN stream.chan : stream.chan[k] = e \/ \E i \in DOMAIN Tail(stream.chan) :
                                                                 Tail(stream.chan)[i] = stream.chan[k]
  <2>1. \A i \in 1 .. Len(stream.chan) - 1 : i + 1 \in 1 .. Len(stream.chan)
    BY <1>2
  <2>2. ASSUME NEW k \in 1 .. Len(stream.chan), k # 1
        PROVE  \E i \in 1 .. Len(stream.chan) - 1 : Tail(stream.chan)[i] = stream.chan[k]
    <3>1. k - 1 \in 1 .. Len(stream.chan) - 1 /\ k - 1 + 1 = k
      BY <1>2, <2>2
    <3> QED BY <1>2, <3>1
  <2> QED BY <1>2, <2>1, <2>2
<1>5. /\ client \in Clients /\ client.cursor \in Nat /\ client.view \in [Job -> Nat]
      /\ stream \in Streams /\ stream.from \in Nat /\ stream.last \in Nat /\ cursor \in Nat
      /\ \A f \in log : f.seq \in Nat /\ f.ver \in Nat /\ f.job \in Job
  BY <1>0, Typed
<1>6. CASE Resync /\ UNCHANGED blind
  BY <1>1, <1>6, ResyncKeeps
<1>7. CASE e.seq <= stream.last /\ stream' = [stream EXCEPT !.chan = Tail(@)] /\ UNCHANGED <<client, fetch, blind>>
  <2>1. /\ stream'.at = "live" /\ stream'.from = stream.from /\ stream'.current = stream.current
        /\ stream'.last = stream.last /\ stream'.chan = Tail(stream.chan) /\ stream'.missed = stream.missed
    BY <1>1, <1>5, <1>7 DEF Streams
  <2>2. Known'
    BY <1>0, <1>1, <1>4, <1>7, <2>1 DEF Known
  <2>3. OneFetch'
    BY <1>0, <1>1, <1>7, <2>1 DEF OneFetch
  <2>4. ASSUME Told PROVE Told'
    <3>1. NothingIsLost'
      <4> SUFFICES ASSUME ~desktop, ~stream.missed, ~client.trigger, NEW f \in log, client.cursor < f.seq
                   PROVE  OnItsWay(f)'
        BY <1>1, <1>7, <2>1 DEF NothingIsLost
      <4>1. OnItsWay(f)
        BY <1>1, <2>4 DEF Told, NothingIsLost
      <4>2. f # e
        <5>1. stream.last <= client.cursor
          BY <1>1, <2>4 DEF Told, StreamIsKnown
        <5> QED BY <1>3, <1>5, <1>7, <5>1
      <4> QED BY <1>1, <1>4, <2>1, <4>1, <4>2 DEF OnItsWay
    <3> QED BY <1>1, <1>7, <2>1, <2>4, <3>1 DEF Told, Numbered, ClientCovers, Covers, SnapshotCovers,
                                                StreamCovers, StreamIsKnown, RowsAreSaid
  <2> QED BY <1>0, <1>7, <2>2, <2>3, <2>4
<1>8. CASE /\ e.seq > stream.last /\ (stream.last = 0 \/ e.seq = stream.last + 1)
           /\ stream' = [stream EXCEPT !.chan = Tail(@), !.last = e.seq]
           /\ client' = Applied(client, e) /\ UNCHANGED fetch
           /\ blind' = (blind \/ (stream.last = 0 /\ e.seq > client.cursor + 1))
  <2>1. /\ stream'.at = "live" /\ stream'.from = stream.from /\ stream'.current = stream.current
        /\ stream'.last = e.seq /\ stream'.chan = Tail(stream.chan) /\ stream'.missed = stream.missed
    BY <1>1, <1>5, <1>8 DEF Streams
  <2>2. /\ client'.trigger = client.trigger /\ client.cursor <= client'.cursor /\ e.seq <= client'.cursor
        /\ client'.cursor = client.cursor \/ client'.cursor = e.seq
        /\ \A j \in Job : /\ client.view[j] <= client'.view[j]
                          /\ client'.view[j] = client.view[j] \/ (j = e.job /\ client'.view[j] = e.ver)
        /\ client.cursor < e.seq => e.ver <= client'.view[e.job]
        /\ client'.cursor \in Nat /\ client'.view \in [Job -> Nat]
    <3>1. CASE e.seq <= client.cursor
      BY <1>3, <1>5, <1>8, <3>1 DEF Applied
    <3>2. CASE ~(e.seq <= client.cursor)
      BY <1>3, <1>5, <1>8, <3>2 DEF Applied, Clients
    <3> QED BY <3>1, <3>2
  <2>3. Known'
    <3>1. \A j \in Job : client'.view[j] <= row[j]
      BY <1>0, <1>3, <2>2 DEF Known
    <3> QED BY <1>0, <1>1, <1>4, <1>8, <2>1, <3>1 DEF Known
  <2>4. OneFetch'
    BY <1>0, <1>1, <1>8, <2>1, <2>2 DEF OneFetch
  <2>5. ASSUME Told, ~(stream.last = 0 /\ e.seq > client.cursor + 1) PROVE Told'
    <3>1. /\ \A f \in log : f.seq = e.seq => f = e
          /\ 1 <= e.seq /\ e.seq <= cursor
      BY <1>3, <2>5 DEF Told, Numbered
    <3>2. Numbered'
      BY <1>1, <1>8, <2>1, <2>2, <2>5, <3>1 DEF Told, Numbered
    <3>3. Covers(client.view, client.cursor) /\ Covers(client.view, stream.from) /\ Covers(client.view, stream.last)
      BY <1>1, <2>5 DEF Told, ClientCovers, StreamCovers
    <3>4. ASSUME NEW f \in log, f.seq <= client.cursor \/ f.seq <= stream.from \/ f.seq <= e.seq
          PROVE  f.ver <= client'.view[f.job]
      <4>1. CASE f.ver <= client.view[f.job]
        BY <1>5, <2>2, <4>1
      <4>2. CASE ~(f.ver <= client.view[f.job])
        <5>1. ~(f.seq <= client.cursor) /\ ~(f.seq <= stream.last) /\ f.seq <= e.seq
          BY <3>3, <3>4, <4>2 DEF Covers
        <5>2. f.seq = e.seq
          BY <1>3, <1>5, <1>8, <2>5, <5>1
        <5>3. f = e /\ client.cursor < e.seq
          BY <1>5, <3>1, <5>1, <5>2
        <5> QED BY <2>2, <5>3
      <4> QED BY <4>1, <4>2
    <3>5. ClientCovers' /\ StreamCovers'
      BY <1>1, <2>1, <2>2, <3>4 DEF ClientCovers, StreamCovers, Covers
    <3>6. StreamIsKnown'
      BY <1>1, <1>5, <2>1, <2>2, <2>5 DEF Told, StreamIsKnown
    <3>7. NothingIsLost'
      <4> SUFFICES ASSUME ~desktop, ~stream.missed, ~client.trigger, NEW f \in log, client'.cursor < f.seq
                   PROVE  OnItsWay(f)'
        BY <1>1, <2>1, <2>2 DEF NothingIsLost
      <4>1. client.cursor < f.seq /\ f # e
        BY <1>3, <1>5, <2>2
      <4>2. OnItsWay(f)
        BY <1>1, <2>5, <4>1 DEF Told, NothingIsLost
      <4> QED BY <1>1, <1>4, <2>1, <4>1, <4>2 DEF OnItsWay
    <3>8. SnapshotCovers' /\ RowsAreSaid'
      BY <1>1, <1>8, <2>5 DEF Told, SnapshotCovers, Covers, RowsAreSaid
    <3> QED BY <3>2, <3>5, <3>6, <3>7, <3>8 DEF Told
  <2> QED BY <1>0, <1>8, <2>3, <2>4, <2>5
<1> QED BY <1>6, <1>7, <1>8 DEF Delivers, e

LEMMA RestartKeeps ==
    ASSUME SyncInv, Restart
    PROVE  Known' /\ OneFetch' /\ (blind' \/ Told')
<1>0. SyncTypeOK /\ Known /\ OneFetch /\ (blind \/ Told)
  BY DEF SyncInv
<1>1. /\ UNCHANGED <<desktop, row, cursor, log>>
      /\ writer' = [w \in Writer |-> Idle]
      /\ stream'.at = "closed" /\ stream'.from = 0 /\ stream'.last = 0 /\ stream'.current = 0
      /\ DOMAIN stream'.chan = {}
      /\ blind' = (blind \/ (~desktop /\ (fetch["mount"].at # "none" \/ \E w \in Writer : writer[w].at = "advance")))
  BY DEF Restart, Closed
<1>2. \A w \in Writer : writer'[w].at = "idle"
  BY <1>1, Shapes
<1>3. /\ fetch'["rehydrate"].at # "none" => fetch'["mount"].at = "none"
      /\ \A s \in Fetches : /\ fetch'[s].at \in {"none", "cursor"} /\ fetch'[s].c1 = 0
                            /\ \A j \in Job : fetch'[s].view[j] = 0
  <2>1. CASE desktop
    BY <2>1, Shapes DEF Restart, Fetches
  <2>2. CASE ~desktop
    <3>1. fetch' = [s \in Fetches |-> IF s = "rehydrate" /\ stream.at # "closed" THEN Asked ELSE NoFetch]
      BY <2>2 DEF Restart
    <3> QED BY <3>1, Shapes DEF Fetches
  <2> QED BY <2>1, <2>2
<1>4. \/ client' = client
      \/ client'.cursor = 0 /\ \A j \in Job : client'.view[j] = 0
  BY DEF Restart, Mounted
<1>5. Known'
  <2>1. \A j \in Job : row[j] \in Nat /\ 0 <= row[j]
    BY <1>0, Typed
  <2> QED BY <1>0, <1>1, <1>2, <1>3, <1>4, <2>1 DEF Known
<1>6. OneFetch'
  BY <1>1, <1>3 DEF OneFetch
<1>7. ASSUME Told, ~blind' PROVE Told'
  <2>1. Numbered'
    <3>1. 0 <= cursor
      BY <1>0, Typed
    <3> QED BY <1>1, <1>3, <1>4, <1>7, <3>1 DEF Told, Numbered
  <2>2. ClientCovers'
    <3>1. CASE client' = client
      BY <1>1, <1>7, <3>1 DEF Told, ClientCovers, Covers
    <3>2. CASE client'.cursor = 0
      <4>1. \A e \in log : e.seq \in Nat /\ 1 <= e.seq
        BY <1>0, <1>7, Typed DEF Told, Numbered
      <4> QED BY <1>1, <3>2, <4>1 DEF ClientCovers, Covers
    <3> QED BY <1>4, <3>1, <3>2
  <2>3. SnapshotCovers' /\ StreamCovers' /\ StreamIsKnown' /\ NothingIsLost'
    BY <1>1, <1>3 DEF SnapshotCovers, StreamCovers, StreamIsKnown, NothingIsLost
  <2>4. RowsAreSaid'
    <3>1. SUFFICES ASSUME ~desktop, NEW j \in Job, row[j] # 0
                   PROVE  \E e \in log : e.job = j /\ e.ver = row[j]
      BY <1>1 DEF RowsAreSaid
    <3>2. \A w \in Writer : writer[w].at # "advance"
      BY <1>1, <1>7, <3>1
    <3> QED BY <1>7, <3>1, <3>2 DEF Told, RowsAreSaid
  <2> QED BY <2>1, <2>2, <2>3, <2>4 DEF Told
<1> QED BY <1>0, <1>1, <1>5, <1>6, <1>7
-------------------------------------------------------------------------------
LEMMA SyncInvStep ==
    ASSUME SyncInv, [SyncNext]_syncVars
    PROVE  SyncInv'
<1>1. SyncTypeOK'
  BY TypeStep DEF SyncInv, Known
<1>2. Known' /\ OneFetch' /\ (blind' \/ Told')
  <2>1. CASE UNCHANGED syncVars
    <3>1. Known' /\ OneFetch'
      BY <2>1 DEF SyncInv, syncVars, Known, OneFetch
    <3>2. UNCHANGED <<desktop, row, cursor, writer, log, stream, client, fetch, blind>>
      BY <2>1 DEF syncVars
    <3>3. ASSUME Told PROVE Told'
      <4>1. Numbered'
        BY <3>2, <3>3 DEF Told, Numbered
      <4>2. ClientCovers' /\ SnapshotCovers' /\ StreamCovers'
        BY <3>2, <3>3 DEF Told, ClientCovers, Covers, SnapshotCovers, StreamCovers
      <4>3. StreamIsKnown' /\ RowsAreSaid'
        BY <3>2, <3>3 DEF Told, StreamIsKnown, RowsAreSaid
      <4>4. NothingIsLost'
        BY <3>2, <3>3 DEF Told, NothingIsLost, OnItsWay
      <4> QED BY <4>1, <4>2, <4>3, <4>4 DEF Told
    <3> QED BY <3>1, <3>2, <3>3 DEF SyncInv
  <2>2. CASE Breaks
    <3>1. Resync /\ stream.at # "closed" /\ UNCHANGED <<desktop, row, cursor, writer, log, blind>>
      BY <2>2 DEF Breaks, Server
    <3> QED BY <3>1, ResyncKeeps
  <2> QED BY <2>1, <2>2, WritesRowKeeps, AdvancesKeeps, PushesKeeps, SendsKeeps, CursorOnlyKeeps, SnapshotKeeps,
             FetchFailsKeeps, MountArrivesKeeps, RehydrateArrivesKeeps, SubscribeKeeps, ReadCursorKeeps,
             ReplaysKeeps, DeliversKeeps, RestartKeeps DEF SyncNext
<1> QED BY <1>1, <1>2 DEF SyncInv

\* Every step of writers, bus, stream, snapshots and restarts keeps the invariant.
THEOREM SyncInvariant == SyncSpec => []SyncInv
<1>1. SyncInit => SyncInv
  BY SyncInvInit
<1>2. SyncInv /\ [SyncNext]_syncVars => SyncInv'
  BY SyncInvStep
<1> QED BY <1>1, <1>2, PTL DEF SyncSpec

\* A client that says it has applied the events up to a number has them all,
\* whatever was dropped, replayed, reordered, broken or restarted.
THEOREM ClientCursorIsTrue == SyncSpec => []CursorIsTrue
<1>1. SyncInv => CursorIsTrue
  <2> SUFFICES ASSUME SyncInv PROVE CursorIsTrue
    OBVIOUS
  <2>1. SyncTypeOK /\ (blind \/ Told)
    BY DEF SyncInv
  <2>2. ASSUME Told, NEW e \in log, e.seq <= client.cursor PROVE client.view[e.job] >= e.ver
    <3>1. e.ver <= client.view[e.job] /\ e.ver \in Nat /\ client.view[e.job] \in Nat
      BY <2>1, <2>2, Typed DEF Told, ClientCovers, Covers
    <3> QED BY <3>1
  <2> QED BY <2>1, <2>2 DEF CursorIsTrue, InStep
<1> QED BY <1>1, SyncInvariant, PTL

\* When everything is quiet, a browser on a live stream that was sent everything
\* shows what the database holds.
THEOREM QuietBrowserHasCaughtUp == SyncSpec => []CaughtUp
<1>1. SyncInv => CaughtUp
  <2> SUFFICES ASSUME SyncInv, Quiet, ~desktop, ~stream.missed, ~blind
               PROVE  client.view = row
    BY DEF CaughtUp
  <2>1. SyncTypeOK /\ Known /\ Told
    BY DEF SyncInv
  <2>2. client.view \in [Job -> Nat] /\ row \in [Job -> Nat] /\ client.cursor \in Nat
    BY <2>1, Typed
  <2>3. \A e \in log : e.ver <= client.view[e.job]
    <3>1. \A e \in log : ~OnItsWay(e)
      <4>1. DOMAIN stream.chan = {}
        BY DEF Quiet
      <4> QED BY <4>1 DEF Quiet, OnItsWay
    <3>2. \A e \in log : ~(client.cursor < e.seq)
      BY <2>1, <3>1 DEF Quiet, Told, NothingIsLost
    <3>3. \A e \in log : e.seq <= client.cursor
      BY <2>1, <2>2, <3>2, Typed
    <3> QED BY <2>1, <3>3 DEF Told, ClientCovers, Covers
  <2>4. ASSUME NEW j \in Job PROVE client.view[j] = row[j]
    <3>1. client.view[j] <= row[j]
      BY <2>1 DEF Known
    <3>2. row[j] = 0 \/ \E e \in log : e.job = j /\ e.ver = row[j]
      BY <2>1 DEF Quiet, Told, RowsAreSaid
    <3> QED BY <2>2, <2>3, <3>1, <3>2
  <2> QED BY <2>2, <2>4
<1> QED BY <1>1, SyncInvariant, PTL
===============================================================================
