----------------------------- MODULE PermitPool -----------------------------
(***************************************************************************)
(* What the resource governor promises: a pool of transfer permits, at     *)
(* most one per job, each tied to the engine it was taken for.  There are  *)
(* no counters here; capacity is the number of permits out.  Governor.tla  *)
(* is the program's implementation and is shown to refine this pool;       *)
(* the scheduler modules use the pool.                                     *)
(***************************************************************************)
EXTENDS Integers, FiniteSets

CONSTANTS
    Job,        \* job identifiers
    Engine,     \* engine names
    NoEngine,   \* the empty engine name "": only the global limit applies
    NoLease     \* the job holds no permit

VARIABLES
    held,         \* job -> engine its permit was taken for, or NoLease
    serving,      \* startup accounting is over, the scheduler runs
    globalLimit,  \* transfer limit in force now
    engineLimit   \* engine -> limit in force now

poolVars == <<held, serving, globalLimit, engineLimit>>

Holders == {j \in Job : held[j] # NoLease}
HoldersOn(e) == {j \in Job : held[j] = e}

HasRoom(e) ==
    /\ Cardinality(Holders) < globalLimit
    /\ e \in Engine => Cardinality(HoldersOn(e)) < engineLimit[e]

\* A permit is taken only while both dimensions have room.
Take(j, e) ==
    /\ serving
    /\ held[j] = NoLease
    /\ HasRoom(e)
    /\ held' = [held EXCEPT ![j] = e]
    /\ UNCHANGED <<serving, globalLimit, engineLimit>>

\* Startup accounting of a transfer that already runs: never refused.
Recount(j, e) ==
    /\ ~serving
    /\ held[j] = NoLease
    /\ held' = [held EXCEPT ![j] = e]
    /\ UNCHANGED <<serving, globalLimit, engineLimit>>

Serve ==
    /\ ~serving
    /\ serving' = TRUE
    /\ UNCHANGED <<held, globalLimit, engineLimit>>

Return(j) ==
    /\ held[j] # NoLease
    /\ held' = [held EXCEPT ![j] = NoLease]
    /\ UNCHANGED <<serving, globalLimit, engineLimit>>

\* Limits move under the holders' feet; no permit is taken back.
Relimit ==
    /\ globalLimit' \in Nat \ {0}
    /\ engineLimit' \in [Engine -> Nat \ {0}]
    /\ UNCHANGED <<held, serving>>

PoolInit ==
    /\ held = [j \in Job |-> NoLease]
    /\ serving = FALSE
    /\ globalLimit \in Nat \ {0}
    /\ engineLimit \in [Engine -> Nat \ {0}]

PoolNext ==
    \/ \E j \in Job, e \in Engine \cup {NoEngine} : Take(j, e) \/ Recount(j, e)
    \/ \E j \in Job : Return(j)
    \/ Serve
    \/ Relimit

PoolSpec == PoolInit /\ [][PoolNext]_poolVars
=============================================================================
