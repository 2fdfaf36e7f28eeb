----------------------------- MODULE QueuePolicy -----------------------------
(***************************************************************************)
(* The ranking of queued jobs: internal/job/policy.go.  Pure operators on  *)
(* queue entries, records with the fields id, position, priority,          *)
(* enqueuedAt and updatedAt.  Time is an integer, so are identifiers: only *)
(* their order matters.                                                    *)
(***************************************************************************)
EXTENDS Integers, Sequences

CONSTANTS AgingInterval, AgingPointsPerInterval, MaxAgingBonus  \* AgingConfig

ASSUME AgingAssumptions ==
    AgingInterval \in Int /\ AgingPointsPerInterval \in Int /\ MaxAgingBonus \in Int

Priority == {"high", "normal", "low"}

\* Mutant: the sentinel lies outside the positions.
RunNowBelowZero == -1

RunNowPosition == 0

PriorityScore(p) == CASE p = "high" -> 200 [] p = "low" -> 0 [] OTHER -> 100

\* Mutant: the difference is taken the wrong way round.
AgingBackwards(enqueuedAt, now) ==
    IF now >= enqueuedAt \/ AgingInterval <= 0 THEN 0
    ELSE ((enqueuedAt - now) \div AgingInterval) * AgingPointsPerInterval

\* Points for whole intervals waited, up to a cap; none when aging is off.
AgingContribution(enqueuedAt, now) ==
    LET wait == now - enqueuedAt
        bonus == (wait \div AgingInterval) * AgingPointsPerInterval
    IN  IF \/ AgingInterval <= 0 \/ AgingPointsPerInterval <= 0 \/ MaxAgingBonus <= 0
           \/ wait <= 0
        THEN 0
        ELSE IF bonus > MaxAgingBonus THEN MaxAgingBonus ELSE bonus

\* Mutant: age is counted from the last change of the row.
EffectivePrioritySinceUpdate(e, now) ==
    PriorityScore(e.priority) + AgingContribution(e.updatedAt, now)

EffectivePriority(e, now) ==
    PriorityScore(e.priority) + AgingContribution(e.enqueuedAt, now)

IsRunNow(e) == e.position <= RunNowPosition

\* The smaller key first; on a tie the next criterion decides.
Prefer(x, y, otherwise) == x < y \/ (x = y /\ otherwise)

\* CompareQueuedJobs(a, b) < 0.
Before(a, b, now) ==
    IF IsRunNow(a) # IsRunNow(b) THEN IsRunNow(a)
    ELSE IF IsRunNow(a)
    THEN Prefer(a.position, b.position,
         Prefer(a.updatedAt, b.updatedAt,
         Prefer(a.enqueuedAt, b.enqueuedAt, a.id < b.id)))
    ELSE Prefer(EffectivePriority(b, now), EffectivePriority(a, now),
         Prefer(PriorityScore(b.priority), PriorityScore(a.priority),
         Prefer(a.position, b.position,
         Prefer(a.enqueuedAt, b.enqueuedAt, a.id < b.id))))

\* The entry RankQueuedJobs puts first, and SelectNextRunnable returns.
IsHead(e, entries, now) == e \in entries /\ \A f \in entries \ {e} : Before(e, f, now)
==============================================================================
