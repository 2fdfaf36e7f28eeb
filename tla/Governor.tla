------------------------------ MODULE Governor ------------------------------
(***************************************************************************)
(* The in-memory ResourceGovernor of internal/job/governor.go.  Each       *)
(* method runs under one mutex, so each is one step.  The governor keeps   *)
(* its usage twice: a table of leases, and counters the admission test     *)
(* reads.  Everything it promises rests on the two staying equal.          *)
(***************************************************************************)
EXTENDS Integers, FiniteSets

CONSTANTS
    Job,          \* job identifiers (never the empty string)
    Engine,       \* engine names
    Ytdlp,        \* the engine with a built-in limit
    NoEngine,     \* the empty engine name
    NoLease,
    DefaultGlobalTransferLimit,
    DefaultYtdlpEngineLimit,
    LimitValues   \* what an administrator may set a limit to; 0 is "not set"

ASSUME GovernorAssumptions ==
    /\ IsFiniteSet(Job)
    /\ Ytdlp \in Engine
    /\ NoEngine \notin Engine /\ NoLease \notin Engine /\ NoEngine # NoLease
    /\ DefaultGlobalTransferLimit \in Nat \ {0}
    /\ DefaultYtdlpEngineLimit \in Nat \ {0}
    /\ LimitValues \subseteq Nat

VARIABLES
    started,              \* StartBackgroundTasks has started the scheduler
    leases,               \* job -> engine of its lease, or NoLease
    activeTransfers,      \* the counter the global test reads
    activePerEngine,      \* engine -> counter the engine test reads
    globalTransferLimit,  \* fallback limit
    engineLimits,         \* engine -> configured limit, 0 for none
    settingsLimit         \* what globalLimitFn returns: the stored setting

usageVars == <<leases, activeTransfers, activePerEngine>>
limitVars == <<globalTransferLimit, engineLimits, settingsLimit>>
govVars == <<started, usageVars, limitVars>>

LeaseValues == Engine \cup {NoEngine, NoLease}

Max0(n) == IF n < 0 THEN 0 ELSE n
-----------------------------------------------------------------------------
\* The limits in force.

EffectiveGlobalTransferLimit ==
    IF settingsLimit > 0 THEN settingsLimit
    ELSE IF globalTransferLimit > 0 THEN globalTransferLimit
    ELSE DefaultGlobalTransferLimit

EffectiveEngineLimit(e) ==
    IF engineLimits[e] > 0 THEN engineLimits[e] ELSE EffectiveGlobalTransferLimit

\* Mutant: the engine's own limit is forgotten.
CanAdmitGlobally(e) == activeTransfers < EffectiveGlobalTransferLimit

CanAdmit(e) ==
    /\ activeTransfers < EffectiveGlobalTransferLimit
    /\ e \in Engine => activePerEngine[e] < EffectiveEngineLimit(e)
-----------------------------------------------------------------------------
\* The methods.  A call that changes nothing is a stutter and is left out.

Grant(j, e) ==
    /\ leases' = [leases EXCEPT ![j] = e]
    /\ activeTransfers' = activeTransfers + 1
    /\ activePerEngine' =
          [x \in Engine |-> activePerEngine[x] + IF x = e THEN 1 ELSE 0]
    /\ UNCHANGED <<started, limitVars>>

TryAcquire(j, e) ==
    /\ started
    /\ leases[j] = NoLease
    /\ CanAdmit(e)
    /\ Grant(j, e)

Release(j) ==
    /\ leases[j] # NoLease
    /\ leases' = [leases EXCEPT ![j] = NoLease]
    /\ activeTransfers' = Max0(activeTransfers - 1)
    /\ activePerEngine' =
          [x \in Engine |-> IF x = leases[j] THEN Max0(activePerEngine[x] - 1)
                                             ELSE activePerEngine[x]]
    /\ UNCHANGED <<started, limitVars>>

\* Mutant: a job recovered twice is counted twice.
ReconstructJobAgain(j, e, status) ==
    /\ ~started
    /\ status \in {"downloading", "processing"}
    /\ Grant(j, e)

\* Only jobs found DOWNLOADING or PROCESSING are counted; a second call for
\* the same job must not count it twice.  Called by StartBackgroundTasks
\* between recovery and the start of the scheduler.
ReconstructJob(j, e, status) ==
    /\ ~started
    /\ leases[j] = NoLease
    /\ status \in {"downloading", "processing"}
    /\ Grant(j, e)

StartScheduler ==
    /\ ~started
    /\ started' = TRUE
    /\ UNCHANGED <<usageVars, limitVars>>

SetGlobalTransferLimit(n) ==
    /\ globalTransferLimit' = IF n <= 0 THEN DefaultGlobalTransferLimit ELSE n
    /\ UNCHANGED <<started, usageVars, engineLimits, settingsLimit>>

SetEngineLimit(e, n) ==
    /\ engineLimits' = [engineLimits EXCEPT ![e] = Max0(n)]
    /\ UNCHANGED <<started, usageVars, globalTransferLimit, settingsLimit>>

\* The settings service stores another max_concurrent_downloads; the
\* governor reads it on its next call.
ChangeSetting(n) ==
    /\ settingsLimit' = n
    /\ UNCHANGED <<started, usageVars, globalTransferLimit, engineLimits>>
-----------------------------------------------------------------------------
GovInit ==
    /\ started = FALSE
    /\ leases = [j \in Job |-> NoLease]
    /\ activeTransfers = 0
    /\ activePerEngine = [e \in Engine |-> 0]
    /\ globalTransferLimit \in {DefaultGlobalTransferLimit} \cup (LimitValues \ {0})
    /\ engineLimits =
          [e \in Engine |-> IF e = Ytdlp THEN DefaultYtdlpEngineLimit ELSE 0]
    /\ settingsLimit \in LimitValues

EngineNames == Engine \cup {NoEngine}

Admit == \E j \in Job, e \in EngineNames : TryAcquire(j, e)
Recover == \E j \in Job, e \in EngineNames, s \in {"downloading", "processing", "seeding"} :
               ReconstructJob(j, e, s)
Free == \E j \in Job : Release(j)
Configure == \E n \in LimitValues :
    \/ SetGlobalTransferLimit(n)
    \/ ChangeSetting(n)
    \/ \E e \in Engine : SetEngineLimit(e, n)

GovNext == Admit \/ Recover \/ StartScheduler \/ Free \/ Configure

GovSpec == GovInit /\ [][GovNext]_govVars
-----------------------------------------------------------------------------
LeaseHolders == {j \in Job : leases[j] # NoLease}
LeaseHoldersOn(e) == {j \in Job : leases[j] = e}

\* Every variable has the type the Go field has.
GovTypeOK ==
    /\ started \in BOOLEAN
    /\ leases \in [Job -> LeaseValues]
    /\ activeTransfers \in Nat
    /\ activePerEngine \in [Engine -> Nat]
    /\ globalTransferLimit \in Nat \ {0}
    /\ engineLimits \in [Engine -> Nat]
    /\ settingsLimit \in Nat

\* The counters the admission test reads never drift from the lease table,
\* whatever mix of acquisitions, double releases, recoveries and limit
\* changes ran before: governor.go keeps them by hand and clamps at zero.
CountersMatchLeases ==
    /\ activeTransfers = Cardinality(LeaseHolders)
    /\ \A e \in Engine : activePerEngine[e] = Cardinality(LeaseHoldersOn(e))

\* The invariant of the governor, which is inductive: without the lease behind it a
\* release could meet a counter that is zero.
GovInv == GovTypeOK /\ CountersMatchLeases

\* A governor at or above a limit -- after recovery, or after the limit was
\* lowered under running transfers -- only drains: no lease appears on a
\* saturated dimension once the scheduler runs.
OnlyDrainsWhenFull ==
    [][\A j \in Job :
          (started /\ leases[j] = NoLease /\ leases'[j] # NoLease)
          => /\ Cardinality(LeaseHolders) < EffectiveGlobalTransferLimit
             /\ leases'[j] \in Engine =>
                  Cardinality(LeaseHoldersOn(leases'[j]))
                     < EffectiveEngineLimit(leases'[j])]_govVars

\* The governor implements the abstract permit pool.
Pool == INSTANCE PermitPool WITH
    held <- leases,
    serving <- started,
    globalLimit <- EffectiveGlobalTransferLimit,
    engineLimit <- [e \in Engine |-> EffectiveEngineLimit(e)]

\* Every run of the governor is a run of the permit pool: a permit is out
\* exactly when a lease is recorded, and is granted only with room.
RefinesPermitPool == Pool!PoolSpec
=============================================================================
