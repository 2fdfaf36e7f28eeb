------------------------------ MODULE QueueLoad ------------------------------
(***************************************************************************)
(* The ranking policy under sustained load: one low-priority job among     *)
(* high-priority jobs that keep arriving, one permit, minute by minute.    *)
(* Ages are kept instead of times and stop counting at Horizon, where the  *)
(* bonus has long reached its cap.                                         *)
(***************************************************************************)
EXTENDS QueuePolicy

CONSTANTS
    Low,       \* the low-priority job, an identifier
    High,      \* identifiers of high-priority jobs, used again and again
    Duration,  \* a download takes 1..Duration minutes
    Horizon    \* bound on ages, in minutes

ASSUME LoadAssumptions ==
    /\ Low \in Int /\ High \subseteq Int /\ Low \notin High
    /\ Duration \in Nat \ {0}
    /\ Horizon \in Nat /\ Horizon * AgingPointsPerInterval >= MaxAgingBonus * AgingInterval

VARIABLES
    age,      \* waiting job -> minutes since it was enqueued; Out when it is not waiting
    arrival,  \* the waiting high-priority jobs in the order they came
    left      \* minutes the download that holds the permit still takes

loadVars == <<age, arrival, left>>

Out == -1
Waiting(j) == age[j] # Out

\* Positions count from one in each lane, in order of arrival.
Entry(j) == [id |-> j,
             priority |-> IF j = Low THEN "low" ELSE "high",
             position |-> IF j = Low THEN 1 ELSE CHOOSE i \in DOMAIN arrival : arrival[i] = j,
             enqueuedAt |-> Horizon - age[j],
             updatedAt |-> Horizon - age[j]]

Queue == {Entry(j) : j \in {i \in High \cup {Low} : Waiting(i)}}
------------------------------------------------------------------------------
\* Somebody adds a download.
ArriveHigh(j) ==
    /\ ~Waiting(j)
    /\ age' = [age EXCEPT ![j] = 0]
    /\ arrival' = Append(arrival, j)
    /\ UNCHANGED left

\* The permit is free: the head of the ranking takes it.
Admit(j) ==
    /\ left = 0
    /\ Waiting(j) /\ IsHead(Entry(j), Queue, Horizon)
    /\ age' = [age EXCEPT ![j] = Out]
    /\ arrival' = SelectSeq(arrival, LAMBDA i : i # j)
    /\ left' \in 1..Duration

\* A minute passes; dispatching takes no time.
Minute ==
    /\ left > 0 \/ Queue = {}
    /\ age' = [j \in DOMAIN age |-> IF Waiting(j) /\ age[j] < Horizon THEN age[j] + 1 ELSE age[j]]
    /\ left' = IF left > 0 THEN left - 1 ELSE 0
    /\ UNCHANGED arrival

LoadInit ==
    /\ \E low \in {Out, 0} : age = [j \in High \cup {Low} |-> IF j = Low THEN low ELSE Out]
    /\ arrival = <<>> /\ left = 0

Dispatching == \E j \in High \cup {Low} : Admit(j)

LoadNext == (\E j \in High : ArriveHigh(j)) \/ Dispatching \/ Minute

\* Time passes and the scheduler runs; nobody has to add downloads.
LoadSpec == LoadInit /\ [][LoadNext]_loadVars /\ WF_loadVars(Minute) /\ WF_loadVars(Dispatching)
------------------------------------------------------------------------------
\* No starvation: the low-priority job gets the permit in the end.
LowIsServed == Waiting(Low) ~> ~Waiting(Low)
==============================================================================
