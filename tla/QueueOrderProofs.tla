--------------------------- MODULE QueueOrderProofs ---------------------------
(***************************************************************************)
(* Proofs about the queue for every set of jobs, every schedule of         *)
(* requests and every aging configuration.  The ranking is total because   *)
(* it is a chain of comparisons of integers that ends with the identifier; *)
(* the type invariant supplies the integers.                               *)
(***************************************************************************)
EXTENDS QueueOrder, FiniteSetTheorems, TLAPS

USE AgingAssumptions, QueueAssumptions

PolicyEntries ==
    [id : Int, priority : Priority, position : Int, enqueuedAt : Int, updatedAt : Int]

\* The bonus is an integer, with aging configured in any way or off.
LEMMA AgingIsInteger ==
    ASSUME NEW s \in Int, NEW t \in Int
    PROVE  AgingContribution(s, t) \in Int
<1> DEFINE wait == t - s
<1>1. wait \in Int
  OBVIOUS
<1>2. CASE AgingInterval <= 0
  BY <1>2 DEF AgingContribution
<1>3. CASE AgingInterval > 0
  <2>1. wait \div AgingInterval \in Int
    BY <1>1, <1>3
  <2> HIDE DEF wait
  <2>2. (wait \div AgingInterval) * AgingPointsPerInterval \in Int
    BY <2>1
  <2> QED BY <2>2 DEF AgingContribution, wait
<1> QED BY <1>2, <1>3

\* What an entry is ranked by is an integer at every moment.
LEMMA EffectivePriorityIsInteger ==
    ASSUME NEW e \in PolicyEntries, NEW t \in Int
    PROVE  EffectivePriority(e, t) \in Int /\ PriorityScore(e.priority) \in Int
<1>1. PriorityScore(e.priority) \in Int
  BY DEF PriorityScore
<1>2. AgingContribution(e.enqueuedAt, t) \in Int
  BY AgingIsInteger DEF PolicyEntries
<1> QED BY <1>1, <1>2 DEF EffectivePriority

\* Three entries are ranked consistently whatever their five keys are: the
\* policy is a strict total order on entries with different identifiers.
LEMMA BeforeIsTotalOrder ==
    ASSUME NEW a \in PolicyEntries, NEW b \in PolicyEntries, NEW c \in PolicyEntries,
           NEW t \in Int
    PROVE  /\ ~(Before(a, b, t) /\ Before(b, a, t))
           /\ a.id # b.id => Before(a, b, t) \/ Before(b, a, t)
           /\ Before(a, b, t) /\ Before(b, c, t) => Before(a, c, t)
<1> DEFINE Eff(e) == EffectivePriority(e, t)
           Base(e) == PriorityScore(e.priority)
<1>1. ASSUME NEW e \in {a, b, c}
      PROVE  /\ EffectivePriority(e, t) \in Int /\ PriorityScore(e.priority) \in Int
             /\ e.position \in Int /\ e.enqueuedAt \in Int
             /\ e.updatedAt \in Int /\ e.id \in Int
  BY EffectivePriorityIsInteger DEF PolicyEntries
<1>2. ASSUME NEW x \in {a, b, c}, NEW y \in {a, b, c}, IsRunNow(x), IsRunNow(y)
      PROVE  Before(x, y, t) <=>
                 \/ x.position < y.position
                 \/ x.position = y.position /\ x.updatedAt < y.updatedAt
                 \/ /\ x.position = y.position /\ x.updatedAt = y.updatedAt
                    /\ x.enqueuedAt < y.enqueuedAt
                 \/ /\ x.position = y.position /\ x.updatedAt = y.updatedAt
                    /\ x.enqueuedAt = y.enqueuedAt /\ x.id < y.id
  BY <1>2 DEF Before, Prefer
<1>3. ASSUME NEW x \in {a, b, c}, NEW y \in {a, b, c}, ~IsRunNow(x), ~IsRunNow(y)
      PROVE  Before(x, y, t) <=>
                 \/ Eff(y) < Eff(x)
                 \/ Eff(x) = Eff(y) /\ Base(y) < Base(x)
                 \/ Eff(x) = Eff(y) /\ Base(x) = Base(y) /\ x.position < y.position
                 \/ /\ Eff(x) = Eff(y) /\ Base(x) = Base(y) /\ x.position = y.position
                    /\ x.enqueuedAt < y.enqueuedAt
                 \/ /\ Eff(x) = Eff(y) /\ Base(x) = Base(y) /\ x.position = y.position
                    /\ x.enqueuedAt = y.enqueuedAt /\ x.id < y.id
  BY <1>1, <1>3 DEF Before, Prefer, IsRunNow
<1>4. ASSUME NEW x \in {a, b, c}, NEW y \in {a, b, c}, IsRunNow(x) # IsRunNow(y)
      PROVE  Before(x, y, t) <=> IsRunNow(x)
  BY <1>4 DEF Before
<1>5. ~(Before(a, b, t) /\ Before(b, a, t))
  BY <1>1, <1>2, <1>3, <1>4
<1>6. a.id # b.id => Before(a, b, t) \/ Before(b, a, t)
  BY <1>1, <1>2, <1>3, <1>4
<1>7. Before(a, b, t) /\ Before(b, c, t) => Before(a, c, t)
  BY <1>1, <1>2, <1>3, <1>4
<1> QED BY <1>5, <1>6, <1>7

\* Whole intervals, and the points given for them, grow with the wait.
LEMMA PointsGrow ==
    ASSUME NEW x \in Int, NEW y \in Int, x <= y,
           AgingInterval > 0, AgingPointsPerInterval > 0
    PROVE  /\ (x \div AgingInterval) * AgingPointsPerInterval \in Int
           /\ (y \div AgingInterval) * AgingPointsPerInterval \in Int
           /\ (x \div AgingInterval) * AgingPointsPerInterval
                 <= (y \div AgingInterval) * AgingPointsPerInterval
<1> DEFINE p == x \div AgingInterval
           q == y \div AgingInterval
<1>1. p \in Int /\ q \in Int
  OBVIOUS
<1>2. p <= q
  OBVIOUS
<1> HIDE DEF p, q
<1>3. p * AgingPointsPerInterval <= q * AgingPointsPerInterval
  <2>1. \A k, n, m \in Int : k <= n /\ m > 0 => k * m <= n * m
    OBVIOUS
  <2> QED BY <1>1, <1>2, <2>1
<1>4. p * AgingPointsPerInterval \in Int /\ q * AgingPointsPerInterval \in Int
  BY <1>1
<1> QED BY <1>3, <1>4 DEF p, q

\* Who has waited longer has at least the bonus of who has waited less, for
\* every interval, rate and cap, and with aging switched off.
LEMMA AgingIsMonotonic ==
    ASSUME NEW s \in Int, NEW u \in Int, s <= u, NEW t \in Int
    PROVE  AgingContribution(u, t) <= AgingContribution(s, t)
<1>1. CASE AgingInterval <= 0 \/ AgingPointsPerInterval <= 0 \/ MaxAgingBonus <= 0
  BY <1>1 DEF AgingContribution
<1>2. CASE AgingInterval > 0 /\ AgingPointsPerInterval > 0 /\ MaxAgingBonus > 0
  <2> DEFINE late == ((t - u) \div AgingInterval) * AgingPointsPerInterval
             early == ((t - s) \div AgingInterval) * AgingPointsPerInterval
             none == (0 \div AgingInterval) * AgingPointsPerInterval
  <2>1. late \in Int /\ early \in Int /\ late <= early
    BY <1>2, PointsGrow
  <2>2. t - s >= 0 => early >= 0
    <3>1. 0 \div AgingInterval = 0
      BY <1>2
    <3>2. ASSUME t - s >= 0 PROVE none <= early
      BY <1>2, <3>2, PointsGrow
    <3>3. none = 0
      BY <3>1
    <3> QED BY <2>1, <3>2, <3>3
  <2>3. AgingContribution(u, t) =
            IF t - u <= 0 THEN 0 ELSE IF late > MaxAgingBonus THEN MaxAgingBonus ELSE late
    BY <1>2 DEF AgingContribution
  <2>4. AgingContribution(s, t) =
            IF t - s <= 0 THEN 0 ELSE IF early > MaxAgingBonus THEN MaxAgingBonus ELSE early
    BY <1>2 DEF AgingContribution
  <2> HIDE DEF late, early
  <2> QED BY <1>2, <2>1, <2>2, <2>3, <2>4
<1> QED BY <1>1, <1>2
-------------------------------------------------------------------------------
\* Finitely many positions have a highest one, or there are none and 0 serves:
\* what NextPosition counts from exists.  By a smallest counterexample.
LEMMA HighestPositionExists ==
    ASSUME NEW S, IsFiniteSet(S), NEW f, \A x \in S : f[x] \in Nat
    PROVE  \E m \in {f[x] : x \in S} \cup {0} :
               \A k \in {f[x] : x \in S} \cup {0} : k <= m
<1> DEFINE Top(X) == \E m \in {f[x] : x \in X} \cup {0} :
                         \A k \in {f[x] : x \in X} \cup {0} : k <= m
           Bad == {n \in Nat : \E X \in SUBSET S : Cardinality(X) = n /\ ~Top(X)}
           R == {ss \in Nat \X Nat : ss[1] < ss[2]}
<1>1. \A X \in SUBSET S : IsFiniteSet(X) /\ Cardinality(X) \in Nat
  BY FS_Subset, FS_CardinalityType
<1>2. Bad = {}
  <2> SUFFICES ASSUME Bad # {} PROVE FALSE
    OBVIOUS
  <2>1. IsWellFoundedOn(R, Nat)
    BY NatLessThanWellFounded DEF OpToRel
  <2>2. PICK n \in Bad : \A i \in Bad : <<i, n>> \notin R
    <3> HIDE DEF R
    <3>1. Bad \subseteq Nat
      OBVIOUS
    <3> HIDE DEF Bad
    <3> QED BY <2>1, <3>1, WFMin
  <2>3. PICK X \in SUBSET S : Cardinality(X) = n /\ ~Top(X)
    BY <2>2
  <2>4. X # {}
    <3>1. Top({})
      OBVIOUS
    <3> QED BY <2>3, <3>1
  <2>5. PICK x \in X : TRUE
    BY <2>4
  <2>6. Cardinality(X \ {x}) \in Nat /\ Cardinality(X \ {x}) < n /\ n \in Nat
    BY <1>1, <2>3, <2>5, FS_RemoveElement
  <2>7. Top(X \ {x})
    <3>1. Cardinality(X \ {x}) \notin Bad
      BY <2>2, <2>6
    <3>2. X \ {x} \in SUBSET S
      BY <2>3
    <3> HIDE DEF Top
    <3> QED BY <2>6, <3>1, <3>2
  <2>8. PICK m \in {f[y] : y \in X \ {x}} \cup {0} :
            \A k \in {f[y] : y \in X \ {x}} \cup {0} : k <= m
    BY <2>7
  <2>9. m \in Nat /\ f[x] \in Nat
    BY <2>5, <2>8
  <2>10. {f[y] : y \in X} \cup {0} = {f[y] : y \in X \ {x}} \cup {0} \cup {f[x]}
    BY <2>5
  <2>11. Top(X)
    <3>1. CASE f[x] <= m
      BY <2>8, <2>9, <2>10, <3>1
    <3>2. CASE ~(f[x] <= m)
      <4>1. \A k \in {f[y] : y \in X} \cup {0} : k <= f[x]
        BY <2>8, <2>9, <2>10, <3>2
      <4> QED BY <2>5, <4>1
    <3> QED BY <3>1, <3>2
  <2> QED BY <2>3, <2>11
<1>3. Cardinality(S) \notin Bad /\ Cardinality(S) \in Nat
  BY <1>1, <1>2
<1>4. Top(S)
  <2> HIDE DEF Top
  <2> QED BY <1>3
<1> QED BY <1>4
\* NextPosition always finds a highest position to count from, so a new row
\* goes to a natural position, and not to the sentinel's.
LEMMA NextPositionIsNatural ==
    ASSUME QueueTypeOK, NEW p
    PROVE  NextPosition(p) \in Nat \ {0}
<1> DEFINE S == {i \in Job : HasRow(i) /\ priority[i] = p}
           f == [i \in Job |-> entry[i].position]
<1>1. IsFiniteSet(S)
  BY FS_Subset
<1>2. \A x \in S : f[x] \in Nat
  BY DEF QueueTypeOK, HasRow, QueueRows
<1>3. LanePositions(p) = {f[x] : x \in S}
  BY DEF LanePositions
<1>4. \E m \in LanePositions(p) \cup {0} : \A k \in LanePositions(p) \cup {0} : k <= m
  <2> HIDE DEF S, f
  <2> QED BY <1>1, <1>2, <1>3, HighestPositionExists
<1>5. LanePositions(p) \cup {0} \subseteq Nat
  BY <1>2, <1>3
<1> DEFINE top == CHOOSE m \in LanePositions(p) \cup {0} :
                      \A k \in LanePositions(p) \cup {0} : k <= m
<1>6. top \in Nat
  <2> HIDE DEF S, f
  <2> QED BY <1>4, <1>5
<1>7. NextPosition(p) = 1 + top
  BY DEF NextPosition
<1> HIDE DEF top
<1> QED BY <1>6, <1>7

\* Every request writes rows of the right shape, and times are naturals.
LEMMA QueueTypeStep ==
    ASSUME QueueTypeOK, [QueueNext]_queueVars
    PROVE  QueueTypeOK'
<1> USE DEF QueueTypeOK, HasRow, Idle, Request
<1>1. CASE UNCHANGED queueVars
  BY <1>1 DEF queueVars
<1>2. ASSUME NEW j \in Job, NEW p \in Lanes, NEW st \in {"queued", "paused"}, Enqueue(j, p, st)
      PROVE  QueueTypeOK'
  <2>1. [position |-> NextPosition(p), enqueuedAt |-> now, updatedAt |-> now] \in QueueRows
    BY NextPositionIsNatural DEF QueueRows
  <2>2. write' \in [Job -> {NoWrite} \cup Writes]
    BY <1>2, <2>1 DEF Enqueue, Prepare, Writes
  <2>3. priority' \in [Job -> Priority]
    BY <1>2 DEF Enqueue
  <2> QED BY <1>2, <2>2, <2>3 DEF Enqueue
<1>3. ASSUME NEW j \in Job, RunNow(j)
      PROVE  QueueTypeOK'
  <2> DEFINE row == [position |-> RunNowPosition,
                     enqueuedAt |-> IF HasRow(j) THEN entry[j].enqueuedAt ELSE now,
                     updatedAt |-> now]
             st == IF status[j] = "paused" THEN "queued" ELSE "same"
  <2>1. row \in QueueRows
    BY DEF QueueRows, RunNowPosition
  <2>2. write' = [write EXCEPT ![j] = [row |-> row, status |-> st, lane |-> "same"]]
    BY <1>3 DEF RunNow, Prepare
  <2>3. st \in {"queued", "paused", "same"}
    OBVIOUS
  <2> HIDE DEF row, st
  <2>4. write' \in [Job -> {NoWrite} \cup Writes]
    BY <2>1, <2>2, <2>3 DEF Writes
  <2> QED BY <1>3, <2>4 DEF RunNow
<1>4. ASSUME NEW j \in Job, PauseQueued(j)
      PROVE  QueueTypeOK'
  BY <1>4 DEF PauseQueued
<1>5. ASSUME NEW j \in Job, Resume(j)
      PROVE  QueueTypeOK'
  <2>1. [entry[j] EXCEPT !.updatedAt = now] \in QueueRows
    BY <1>5 DEF Resume, QueueRows
  <2>2. write' \in [Job -> {NoWrite} \cup Writes]
    BY <1>5, <2>1 DEF Resume, Prepare, Writes
  <2> QED BY <1>5, <2>2 DEF Resume
<1>6. ASSUME NEW j \in Job, NEW p \in Lanes, SetJobPriority(j, p)
      PROVE  QueueTypeOK'
  <2>1. NextPosition(p) \in Nat
    BY NextPositionIsNatural
  <2>2. [entry[j] EXCEPT !.position = NextPosition(p)] \in QueueRows
    BY <1>6, <2>1 DEF SetJobPriority, QueueRows
  <2>3. write' \in [Job -> {NoWrite} \cup Writes]
    BY <1>6, <2>2 DEF SetJobPriority, Writes
  <2> QED BY <1>6, <2>3 DEF SetJobPriority
<1>7. ASSUME NEW j \in Job, NEW p \in Lanes, SetPriorityOnly(j, p)
      PROVE  QueueTypeOK'
  BY <1>7 DEF SetPriorityOnly
<1>8. ASSUME NEW j \in Job, Move(j)
      PROVE  QueueTypeOK'
  <2>1. write[j] \in Writes
    BY <1>8 DEF Move
  <2>2. write' \in [Job -> {NoWrite} \cup Writes]
    BY <1>8 DEF Move
  <2>3. priority' \in [Job -> Priority] /\ entry' \in [Job -> QueueRows \cup {NoRow}]
    <3>1. CASE HasRow(j)
      <4>1. [entry[j] EXCEPT !.position = write[j].row.position, !.updatedAt = now] \in QueueRows
        BY <2>1, <3>1 DEF Writes, QueueRows
      <4>2. write[j].lane \in Priority
        BY <1>8, <2>1 DEF Move, Writes
      <4> QED BY <1>8, <3>1, <4>1, <4>2 DEF Move
    <3>2. CASE ~HasRow(j)
      BY <1>8, <3>2 DEF Move
    <3> QED BY <3>1, <3>2
  <2> QED BY <1>8, <2>2, <2>3 DEF Move
<1>9. ASSUME NEW p \in Priority, NEW order \in Bijection(Lane(p), 1..Cardinality(Lane(p))),
             ReorderQueue(p, order)
      PROVE  QueueTypeOK'
  <2>1. order \in [Lane(p) -> 1..Cardinality(Lane(p))]
    BY DEF Bijection, Injection
  <2>2. IsFiniteSet(Lane(p)) /\ Cardinality(Lane(p)) \in Nat
    BY FS_Subset, FS_CardinalityType DEF Lane
  <2>3. \A j \in Lane(p) : order[j] \in Nat
    BY <2>1, <2>2
  <2>4. moves' \in [Job -> Nat]
    BY <1>9, <2>3 DEF ReorderQueue
  <2> QED BY <1>9, <2>4 DEF ReorderQueue
<1>10. CASE WriteOrder
  <2>1. ASSUME NEW j \in Job, HasRow(j)
        PROVE  [entry[j] EXCEPT !.position = moves[j]] \in QueueRows
    BY <2>1 DEF QueueRows
  <2>2. entry' \in [Job -> QueueRows \cup {NoRow}]
    BY <1>10, <2>1 DEF WriteOrder
  <2> QED BY <1>10, <2>2 DEF WriteOrder, NoMoves
<1>11. ASSUME NEW j \in Job, Write(j)
      PROVE  QueueTypeOK'
  <2>1. write[j] \in Writes
    BY <1>11 DEF Write
  <2>2. Upsert(j, write[j].row) \in QueueRows
    BY <2>1 DEF Upsert, QueueRows, Writes
  <2>3. entry' \in [Job -> QueueRows \cup {NoRow}]
    BY <1>11, <2>2 DEF Write
  <2>4. status' \in [Job -> {"queued", "paused", "away"}]
    BY <1>11, <2>1 DEF Write, Writes
  <2> QED BY <1>11, <2>3, <2>4 DEF Write
<1>12. ASSUME NEW j \in Job, Dispatch(j)
      PROVE  QueueTypeOK'
  BY <1>12 DEF Dispatch
<1>13. CASE Tick
  BY <1>13 DEF Tick
<1> QED
  BY <1>1, <1>2, <1>3, <1>4, <1>5, <1>6, <1>7, <1>8, <1>9, <1>10, <1>11, <1>12, <1>13
  DEF QueueNext, Arrive, Promote, PauseOrResume, Finish, Prioritize, Reorder

\* The queue table keeps its shape through every schedule of requests: rows
\* hold natural positions and times, whatever was read before it was written.
THEOREM QueueTypeCorrect == QueueSpec => []QueueTypeOK
<1>1. QueueInit => QueueTypeOK
  BY DEF QueueInit, QueueTypeOK, Priority, NoMoves
<1>2. QueueTypeOK /\ [QueueNext]_queueVars => QueueTypeOK'
  BY QueueTypeStep
<1> QED BY <1>1, <1>2, PTL DEF QueueSpec

\* At every moment the policy orders the runnable jobs totally: no two are
\* tied, none precede each other, and the order has no circles.
THEOREM RankingIsAlwaysTotal == QueueSpec => []RankingIsTotalOrder
<1>1. QueueTypeOK => RankingIsTotalOrder
  <2> SUFFICES ASSUME QueueTypeOK, NEW a \in Entries, NEW b \in Entries
               PROVE  /\ ~(Before(a, b, now) /\ Before(b, a, now))
                      /\ a # b => Before(a, b, now) \/ Before(b, a, now)
                      /\ \A c \in Entries :
                            Before(a, b, now) /\ Before(b, c, now) => Before(a, c, now)
    BY DEF RankingIsTotalOrder
  <2>1. Entries \subseteq PolicyEntries
    BY DEF Entries, Entry, Runnable, HasRow, PolicyEntries, QueueTypeOK, QueueRows
  <2>2. a # b => a.id # b.id
    BY DEF Entries, Entry
  <2>3. now \in Int
    BY DEF QueueTypeOK
  <2> QED BY <2>1, <2>2, <2>3, BeforeIsTotalOrder
<1> QED BY <1>1, QueueTypeCorrect, PTL

\* Whatever requests interleave, the time a row was first enqueued is kept
\* until the job is dispatched; only a new row starts to wait anew.
THEOREM AgeIsNeverLost == QueueSpec => AgeSurvivesRequests
<1>1. ASSUME QueueTypeOK, [QueueNext]_queueVars, NEW j \in Job, HasRow(j), HasRow(j)'
      PROVE  entry'[j].enqueuedAt = entry[j].enqueuedAt
  <2> USE DEF QueueTypeOK, HasRow, Request
  <2>1. CASE UNCHANGED entry
    BY <2>1
  <2>2. ASSUME NEW i \in Job, Write(i)
        PROVE  entry'[j].enqueuedAt = entry[j].enqueuedAt
    <3>1. CASE i # j
      BY <1>1, <2>2, <3>1 DEF Write
    <3>2. CASE i = j
      <4>1. write[j].row \in QueueRows
        BY <1>1, <2>2, <3>2 DEF Write, Idle, Writes
      <4>2. entry'[j] = [write[j].row EXCEPT !.enqueuedAt = entry[j].enqueuedAt]
        BY <1>1, <2>2, <3>2 DEF Write, Upsert
      <4> QED BY <4>1, <4>2 DEF QueueRows
    <3> QED BY <3>1, <3>2
  <2>3. ASSUME NEW i \in Job, Dispatch(i)
        PROVE  entry'[j].enqueuedAt = entry[j].enqueuedAt
    BY <1>1, <2>3 DEF Dispatch
  <2>4. ASSUME NEW i \in Job, Move(i)
        PROVE  entry'[j].enqueuedAt = entry[j].enqueuedAt
    <3>1. CASE i = j
      <4>1. entry[j] \in QueueRows
        BY <1>1
      <4>2. entry'[j] = [entry[j] EXCEPT !.position = write[j].row.position, !.updatedAt = now]
        BY <1>1, <2>4, <3>1 DEF Move
      <4> QED BY <4>1, <4>2 DEF QueueRows
    <3>2. CASE i # j
      BY <1>1, <2>4, <3>2 DEF Move
    <3> QED BY <3>1, <3>2
  <2>5. CASE WriteOrder
    <3>1. entry[j] \in QueueRows
      BY <1>1
    <3>2. entry'[j] = IF moves[j] # 0 THEN [entry[j] EXCEPT !.position = moves[j]] ELSE entry[j]
      BY <1>1, <2>5 DEF WriteOrder
    <3> QED BY <3>1, <3>2 DEF QueueRows
  <2> QED
    BY <1>1, <2>1, <2>2, <2>3, <2>4, <2>5
    DEF QueueNext, Arrive, Promote, PauseOrResume, Finish, Prioritize, Reorder,
        Enqueue, RunNow, PauseQueued, Resume, SetJobPriority, SetPriorityOnly, ReorderQueue,
        Tick, queueVars
<1>2. QueueTypeOK /\ [QueueNext]_queueVars
      => [\A j \in Job : HasRow(j) /\ HasRow(j)'
              => entry'[j].enqueuedAt = entry[j].enqueuedAt]_queueVars
  BY <1>1
<1> QED BY <1>2, QueueTypeCorrect, PTL DEF QueueSpec, AgeSurvivesRequests

\* Aging never reorders jobs of one lane that came in the order they stand
\* in: for every aging configuration and at every moment.
THEOREM AgingRespectsLaneOrder == QueueSpec => []AgingKeepsLaneOrder
<1>1. QueueTypeOK => AgingKeepsLaneOrder
  <2> SUFFICES ASSUME QueueTypeOK, NEW a \in Entries, NEW b \in Entries,
                      ~IsRunNow(a), ~IsRunNow(b), a.priority = b.priority,
                      a.position < b.position, a.enqueuedAt <= b.enqueuedAt
               PROVE  Before(a, b, now)
    BY DEF AgingKeepsLaneOrder
  <2>1. a \in PolicyEntries /\ b \in PolicyEntries
    BY DEF Entries, Entry, Runnable, HasRow, PolicyEntries, QueueTypeOK, QueueRows
  <2>2. now \in Int
    BY DEF QueueTypeOK
  <2>3. EffectivePriority(a, now) \in Int /\ EffectivePriority(b, now) \in Int
    BY <2>1, <2>2, EffectivePriorityIsInteger
  <2>4. EffectivePriority(b, now) <= EffectivePriority(a, now)
    <3>1. AgingContribution(b.enqueuedAt, now) <= AgingContribution(a.enqueuedAt, now)
      BY <2>1, <2>2, AgingIsMonotonic DEF PolicyEntries
    <3>2. AgingContribution(b.enqueuedAt, now) \in Int /\ AgingContribution(a.enqueuedAt, now) \in Int
      BY <2>1, <2>2, AgingIsInteger DEF PolicyEntries
    <3>3. PriorityScore(a.priority) \in Int
      BY DEF PriorityScore
    <3> QED BY <3>1, <3>2, <3>3 DEF EffectivePriority
  <2> QED BY <2>3, <2>4 DEF Before, Prefer, IsRunNow
<1> QED BY <1>1, QueueTypeCorrect, PTL

\* The order in which SelectNextRunnable ranks the runnable jobs is a total order
\* that aging cannot turn against the order of a lane, in every reachable queue.
THEOREM RankingIsAlwaysSound == QueueSpec => []RankingIsSound
<1>1. RankingIsTotalOrder /\ AgingKeepsLaneOrder => RankingIsSound
  BY DEF RankingIsSound
<1> QED BY <1>1, RankingIsAlwaysTotal, AgingRespectsLaneOrder, PTL
===============================================================================
