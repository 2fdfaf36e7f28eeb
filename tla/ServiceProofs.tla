---------------------------- MODULE ServiceProofs -----------------------------
(***************************************************************************)
(* Proofs about the parts the jobs are served by and that share no state:  *)
(* the governor, the master key, the cookies, the tools.                   *)
(***************************************************************************)
EXTENDS Governor, MasterKey, MediaSignIn, ToolDiscovery, FiniteSetTheorems, SequenceTheorems, TLAPS

-------------------------------------------------------------------------------
(***************************************************************************)
(* Proofs about the governor for every set of jobs, engines and limits.    *)
(* The argument: the counters equal the cardinalities of the lease table   *)
(* (GovInv is inductive), so the admission test on counters is the         *)
(* admission test of the permit pool, and the clamps in Release never act. *)
(***************************************************************************)

USE GovernorAssumptions

\* A lease written for j adds j to the holders and to those of its engine
\* only: how Grant moves the two sets whose sizes the counters claim to be.
LEMMA GrantedHolders ==
    ASSUME GovTypeOK, NEW j \in Job, NEW e \in EngineNames,
           leases[j] = NoLease, leases' = [leases EXCEPT ![j] = e]
    PROVE  /\ j \notin LeaseHolders
           /\ LeaseHolders' = LeaseHolders \cup {j}
           /\ \A x \in Engine :
                /\ j \notin LeaseHoldersOn(x)
                /\ LeaseHoldersOn(x)' =
                      IF x = e THEN LeaseHoldersOn(x) \cup {j} ELSE LeaseHoldersOn(x)
  BY DEF GovTypeOK, LeaseValues, EngineNames, LeaseHolders, LeaseHoldersOn

\* Deleting the lease of j takes j out of the holders and out of those of
\* the engine the lease named: how Release moves the same two sets.
LEMMA ReleasedHolders ==
    ASSUME GovTypeOK, NEW j \in Job,
           leases[j] # NoLease, leases' = [leases EXCEPT ![j] = NoLease]
    PROVE  /\ j \in LeaseHolders
           /\ LeaseHolders' = LeaseHolders \ {j}
           /\ \A x \in Engine :
                /\ j \in LeaseHoldersOn(x) <=> x = leases[j]
                /\ LeaseHoldersOn(x)' = LeaseHoldersOn(x) \ {j}
  BY DEF GovTypeOK, LeaseValues, LeaseHolders, LeaseHoldersOn

\* The holder sets are finite, so their sizes are natural numbers.
LEMMA HoldersFinite ==
    /\ IsFiniteSet(LeaseHolders) /\ Cardinality(LeaseHolders) \in Nat
    /\ \A x \in Engine : /\ IsFiniteSet(LeaseHoldersOn(x))
                         /\ Cardinality(LeaseHoldersOn(x)) \in Nat
<1>1. LeaseHolders \in SUBSET Job /\ \A x \in Engine : LeaseHoldersOn(x) \in SUBSET Job
  BY DEF LeaseHolders, LeaseHoldersOn
<1>2. \A S \in SUBSET Job : IsFiniteSet(S) /\ Cardinality(S) \in Nat
  BY FS_Subset, FS_CardinalityType
<1> QED BY <1>1, <1>2

\* Taking a permit moves the lease table and both counters together.
LEMMA GrantKeepsInv ==
    ASSUME GovInv, NEW j \in Job, NEW e \in EngineNames, leases[j] = NoLease, Grant(j, e)
    PROVE  GovInv'
<1> USE DEF GovInv
<1>1. GovTypeOK'
  BY DEF Grant, GovTypeOK, LeaseValues, EngineNames, limitVars
<1>2. /\ j \notin LeaseHolders
      /\ LeaseHolders' = LeaseHolders \cup {j}
      /\ \A x \in Engine :
           /\ j \notin LeaseHoldersOn(x)
           /\ LeaseHoldersOn(x)' =
                 IF x = e THEN LeaseHoldersOn(x) \cup {j} ELSE LeaseHoldersOn(x)
  BY GrantedHolders DEF Grant
<1>3. (activeTransfers = Cardinality(LeaseHolders))'
  <2>1. Cardinality(LeaseHolders \cup {j}) = Cardinality(LeaseHolders) + 1
    BY <1>2, HoldersFinite, FS_AddElement
  <2> QED BY <1>2, <2>1 DEF Grant, CountersMatchLeases
<1>4. ASSUME NEW x \in Engine
      PROVE  (activePerEngine[x] = Cardinality(LeaseHoldersOn(x)))'
  <2>1. Cardinality(LeaseHoldersOn(x) \cup {j}) = Cardinality(LeaseHoldersOn(x)) + 1
    BY <1>2, HoldersFinite, FS_AddElement
  <2>2. activePerEngine'[x] = activePerEngine[x] + IF x = e THEN 1 ELSE 0
    BY DEF Grant
  <2>3. activePerEngine[x] = Cardinality(LeaseHoldersOn(x)) /\ activePerEngine[x] \in Nat
    BY DEF CountersMatchLeases, GovTypeOK
  <2>4. CASE x = e
    BY <1>2, <2>1, <2>2, <2>3, <2>4
  <2>5. CASE x # e
    BY <1>2, <2>2, <2>3, <2>5
  <2> QED BY <2>4, <2>5
<1> QED BY <1>1, <1>3, <1>4 DEF CountersMatchLeases

\* Giving a permit back moves them together too: the clamps at zero, which
\* would hide a drift, never act.
LEMMA ReleaseKeepsInv ==
    ASSUME GovInv, NEW j \in Job, Release(j)
    PROVE  GovInv'
<1> USE DEF GovInv
<1>1. GovTypeOK'
  BY DEF Release, GovTypeOK, LeaseValues, Max0, limitVars
<1>2. /\ j \in LeaseHolders
      /\ LeaseHolders' = LeaseHolders \ {j}
      /\ \A x \in Engine :
           /\ j \in LeaseHoldersOn(x) <=> x = leases[j]
           /\ LeaseHoldersOn(x)' = LeaseHoldersOn(x) \ {j}
  BY ReleasedHolders DEF Release
<1>3. (activeTransfers = Cardinality(LeaseHolders))'
  <2>1. /\ Cardinality(LeaseHolders \ {j}) = Cardinality(LeaseHolders) - 1
        /\ Cardinality(LeaseHolders \ {j}) \in Nat
    BY <1>2, HoldersFinite, FS_RemoveElement, FS_CardinalityType
  <2> QED BY <1>2, <2>1 DEF Release, Max0, CountersMatchLeases
<1>4. ASSUME NEW x \in Engine
      PROVE  (activePerEngine[x] = Cardinality(LeaseHoldersOn(x)))'
  <2>1. /\ Cardinality(LeaseHoldersOn(x) \ {j}) =
              IF j \in LeaseHoldersOn(x) THEN Cardinality(LeaseHoldersOn(x)) - 1
                                         ELSE Cardinality(LeaseHoldersOn(x))
        /\ Cardinality(LeaseHoldersOn(x) \ {j}) \in Nat
    BY HoldersFinite, FS_RemoveElement, FS_CardinalityType
  <2>2. activePerEngine'[x] =
            IF x = leases[j] THEN Max0(activePerEngine[x] - 1) ELSE activePerEngine[x]
    BY DEF Release
  <2>3. activePerEngine[x] = Cardinality(LeaseHoldersOn(x))
    BY DEF CountersMatchLeases
  <2>4. CASE x = leases[j]
    <3>1. Cardinality(LeaseHoldersOn(x) \ {j}) = Cardinality(LeaseHoldersOn(x)) - 1
      BY <1>2, <2>1, <2>4
    <3>2. activePerEngine'[x] = Max0(Cardinality(LeaseHoldersOn(x)) - 1)
      BY <2>2, <2>3, <2>4
    <3>3. Cardinality(LeaseHoldersOn(x)') = activePerEngine'[x]
      BY <1>2, <2>1, <3>1, <3>2, HoldersFinite DEF Max0
    <3> QED BY <3>3
  <2>5. CASE x # leases[j]
    <3>1. LeaseHoldersOn(x)' = LeaseHoldersOn(x)
      BY <1>2, <2>5
    <3> QED BY <2>2, <2>3, <2>5, <3>1
  <2> QED BY <2>4, <2>5
<1> QED BY <1>1, <1>3, <1>4 DEF CountersMatchLeases

\* Changing a limit or starting the scheduler moves neither.
LEMMA ConfigureKeepsInv ==
    ASSUME GovInv, Configure \/ StartScheduler
    PROVE  GovInv'
<1> USE DEF GovInv
<1>1. UNCHANGED usageVars
  BY DEF Configure, StartScheduler, SetGlobalTransferLimit, ChangeSetting, SetEngineLimit, usageVars
<1>2. GovTypeOK'
  <2>1. CASE StartScheduler
    BY <2>1 DEF StartScheduler, GovTypeOK, usageVars, limitVars
  <2>2. ASSUME NEW n \in LimitValues, SetGlobalTransferLimit(n)
        PROVE  GovTypeOK'
    BY <2>2 DEF SetGlobalTransferLimit, GovTypeOK, usageVars
  <2>3. ASSUME NEW n \in LimitValues, ChangeSetting(n)
        PROVE  GovTypeOK'
    BY <2>3 DEF ChangeSetting, GovTypeOK, usageVars
  <2>4. ASSUME NEW n \in LimitValues, NEW e \in Engine, SetEngineLimit(e, n)
        PROVE  GovTypeOK'
    BY <2>4 DEF SetEngineLimit, GovTypeOK, usageVars, Max0
  <2> QED BY <2>1, <2>2, <2>3, <2>4 DEF Configure
<1>3. CountersMatchLeases'
  BY <1>1 DEF CountersMatchLeases, LeaseHolders, LeaseHoldersOn, usageVars
<1> QED BY <1>2, <1>3

\* The strengthened invariant is inductive: one case per governor method.
LEMMA GovInvStep ==
    ASSUME GovInv, [GovNext]_govVars
    PROVE  GovInv'
<1>1. CASE Admit
  BY <1>1, GrantKeepsInv DEF Admit, TryAcquire
<1>2. CASE Recover
  BY <1>2, GrantKeepsInv DEF Recover, ReconstructJob
<1>3. CASE Free
  BY <1>3, ReleaseKeepsInv DEF Free
<1>4. CASE Configure \/ StartScheduler
  BY <1>4, ConfigureKeepsInv
<1>5. CASE UNCHANGED govVars
  BY <1>5 DEF GovInv, GovTypeOK, CountersMatchLeases, LeaseHolders, LeaseHoldersOn,
              govVars, usageVars, limitVars
<1> QED BY <1>1, <1>2, <1>3, <1>4, <1>5 DEF GovNext

\* A fresh governor has no lease and zero counters.
LEMMA GovInvInit ==
    ASSUME GovInit
    PROVE  GovInv
<1>1. GovTypeOK
  BY DEF GovInit, GovTypeOK, LeaseValues
<1>2. LeaseHolders = {} /\ \A e \in Engine : LeaseHoldersOn(e) = {}
  BY DEF GovInit, LeaseHolders, LeaseHoldersOn
<1>3. CountersMatchLeases
  BY <1>2, FS_EmptySet DEF GovInit, CountersMatchLeases
<1> QED BY <1>1, <1>3 DEF GovInv

\* So types and counters are right in every reachable state.
THEOREM GovInvAlways == GovSpec => []GovInv
<1>1. GovInit => GovInv
  BY GovInvInit
<1>2. GovInv /\ [GovNext]_govVars => GovInv'
  BY GovInvStep
<1> QED BY <1>1, <1>2, PTL DEF GovSpec

\* The governor's fields keep their types in every run.
THEOREM GovernorTypeCorrect == GovSpec => []GovTypeOK
<1>1. GovInv => GovTypeOK
  BY DEF GovInv
<1> QED BY <1>1, GovInvAlways, PTL

\* The hand-kept counters of governor.go equal the size of the lease table,
\* globally and for every engine, in every run and for any number of jobs.
THEOREM CountersAreLeases == GovSpec => []CountersMatchLeases
<1>1. GovInv => CountersMatchLeases
  BY DEF GovInv
<1> QED BY <1>1, GovInvAlways, PTL

\* No step of the running governor adds a lease on a saturated dimension.
THEOREM SaturatedGovernorDrains == GovSpec => OnlyDrainsWhenFull
<1> DEFINE Drains ==
      \A j \in Job :
          (started /\ leases[j] = NoLease /\ leases'[j] # NoLease)
          => /\ Cardinality(LeaseHolders) < EffectiveGlobalTransferLimit
             /\ leases'[j] \in Engine =>
                  Cardinality(LeaseHoldersOn(leases'[j]))
                     < EffectiveEngineLimit(leases'[j])
<1>1. GovInv /\ [GovNext]_govVars => [Drains]_govVars
  <2> SUFFICES ASSUME GovInv, GovNext, NEW j \in Job,
                      started, leases[j] = NoLease, leases'[j] # NoLease
               PROVE  /\ Cardinality(LeaseHolders) < EffectiveGlobalTransferLimit
                      /\ leases'[j] \in Engine =>
                           Cardinality(LeaseHoldersOn(leases'[j]))
                              < EffectiveEngineLimit(leases'[j])
    OBVIOUS
  <2>1. CASE Admit
    <3>1. PICK i \in Job, e \in EngineNames : TryAcquire(i, e)
      BY <2>1 DEF Admit
    <3>2. i = j /\ leases'[j] = e
      BY <3>1 DEF TryAcquire, Grant, GovInv, GovTypeOK
    <3> QED BY <3>1, <3>2 DEF TryAcquire, CanAdmit, GovInv, CountersMatchLeases
  <2>2. CASE ~Admit
    BY <2>2 DEF GovNext, Recover, ReconstructJob, Free, Release, Configure, StartScheduler,
            SetGlobalTransferLimit, ChangeSetting, SetEngineLimit, usageVars, GovInv, GovTypeOK
  <2> QED BY <2>1, <2>2
<1> QED BY <1>1, GovInvAlways, PTL DEF GovSpec, OnlyDrainsWhenFull

\* The limits in force are positive whatever was configured.
LEMMA LimitsPositive ==
    ASSUME GovTypeOK
    PROVE  /\ EffectiveGlobalTransferLimit \in Nat \ {0}
           /\ [e \in Engine |-> EffectiveEngineLimit(e)] \in [Engine -> Nat \ {0}]
  BY DEF GovTypeOK, EffectiveGlobalTransferLimit, EffectiveEngineLimit

\* A method that leaves the leases and the scheduler alone at most moves the
\* limits in force.
LEMMA LimitStepIsRelimit ==
    ASSUME GovTypeOK', leases' = leases, started' = started
    PROVE  Pool!Relimit
  BY LimitsPositive DEF Pool!Relimit, GovTypeOK, EffectiveGlobalTransferLimit,
     EffectiveEngineLimit

\* The admission test on the counters is the test on the permits out.
LEMMA AdmissionIsRoom ==
    ASSUME CountersMatchLeases, NEW e, CanAdmit(e)
    PROVE  Pool!HasRoom(e)
<1>1. Pool!Holders = LeaseHolders /\ \A x : Pool!HoldersOn(x) = LeaseHoldersOn(x)
  BY DEF Pool!Holders, Pool!HoldersOn, LeaseHolders, LeaseHoldersOn
<1>2. \A S : Pool!Cardinality(S) = Cardinality(S)
  BY DEF Pool!Cardinality, Cardinality
<1> QED BY <1>1, <1>2 DEF Pool!HasRoom, CanAdmit, CountersMatchLeases

\* The governor implements the permit pool: every method is one step of the
\* pool or changes nothing the pool can see.
THEOREM GovernorRefinesPool == GovSpec => RefinesPermitPool
<1>1. GovInit => Pool!PoolInit
  BY GovInvInit, LimitsPositive DEF GovInv, GovInit, Pool!PoolInit
<1>2. GovInv /\ GovInv' /\ [GovNext]_govVars => [Pool!PoolNext]_(Pool!poolVars)
  <2> SUFFICES ASSUME GovInv, GovInv', [GovNext]_govVars
               PROVE  Pool!PoolNext \/ UNCHANGED Pool!poolVars
    OBVIOUS
  <2> DEFINE SameLimits == /\ EffectiveGlobalTransferLimit' = EffectiveGlobalTransferLimit
                           /\ [e \in Engine |-> EffectiveEngineLimit(e)]'
                                 = [e \in Engine |-> EffectiveEngineLimit(e)]
  <2>1. UNCHANGED limitVars => SameLimits
    BY DEF limitVars, EffectiveGlobalTransferLimit, EffectiveEngineLimit
  <2> HIDE DEF SameLimits
  <2>2. CASE Admit
    <3>1. PICK j \in Job, e \in EngineNames : TryAcquire(j, e)
      BY <2>2 DEF Admit
    <3>2. Pool!Take(j, e)
      BY <2>1, <3>1, AdmissionIsRoom
         DEF SameLimits, TryAcquire, Grant, Pool!Take, GovInv
    <3> QED BY <3>2 DEF Pool!PoolNext, EngineNames
  <2>3. CASE Recover
    <3>1. PICK j \in Job, e \in EngineNames : \E s : ReconstructJob(j, e, s)
      BY <2>3 DEF Recover
    <3>2. Pool!Recount(j, e)
      BY <2>1, <3>1 DEF SameLimits, ReconstructJob, Grant, Pool!Recount
    <3> QED BY <3>2 DEF Pool!PoolNext, EngineNames
  <2>4. CASE Free
    <3>1. PICK j \in Job : Release(j)
      BY <2>4 DEF Free
    <3>2. Pool!Return(j)
      BY <2>1, <3>1 DEF SameLimits, Release, Pool!Return
    <3> QED BY <3>2 DEF Pool!PoolNext
  <2>5. CASE StartScheduler
    BY <2>1, <2>5 DEF SameLimits, StartScheduler, usageVars, Pool!Serve, Pool!PoolNext
  <2>6. CASE Configure \/ UNCHANGED govVars
    <3>1. leases' = leases /\ started' = started
      BY <2>6 DEF Configure, SetGlobalTransferLimit, ChangeSetting, SetEngineLimit,
                  govVars, usageVars
    <3>2. Pool!Relimit
      BY <3>1, LimitStepIsRelimit DEF GovInv
    <3> QED BY <3>2 DEF Pool!PoolNext
  <2> QED BY <2>2, <2>3, <2>4, <2>5, <2>6 DEF GovNext
<1> QED BY <1>1, <1>2, GovInvAlways, PTL DEF GovSpec, RefinesPermitPool, Pool!PoolSpec

-------------------------------------------------------------------------------
(***************************************************************************)
(* A host that serves opens all its secrets, for any hosts, fields and     *)
(* troubles of the world.  The type invariant is not enough: the proof     *)
(* that a key opens the secrets is made some steps before the host serves, *)
(* so the invariant carries it along.  Nobody else seals for the host in   *)
(* between, and a host seals only while it serves.                         *)
(*                                                                         *)
(* That a generated key stays in the store takes more: what a start saw    *)
(* there holds until it writes or counts as passed, and every key a host   *)
(* may seal with, unless it is the environment's, is the one in the store. *)
(***************************************************************************)

Labels == {"off", "store", "check_store", "env", "check_env", "write", "read_back", "count", "serving"}
Resolves == [at : Labels, key : Key \cup {NoKey}, saw : {"nothing", "absent", "away", "passed"}]

KeyTypes ==
    /\ windows \in BOOLEAN /\ storeUp \in BOOLEAN
    /\ storeKey \in Key \cup {NoKey, Corrupt} /\ env \in {NoKey, EnvKey}
    /\ sealed \in [Host -> [Field -> Key \cup {NoKey}]]
    /\ resolve \in [Host -> Resolves]
    /\ fresh \in Key /\ taken \in BOOLEAN

\* Where a host has a candidate key, and where it has proved it.
HasCandidate(h) == resolve[h].at \in {"check_store", "check_env", "write", "read_back", "serving"}
HasProved(h) == resolve[h].at \in {"write", "read_back", "serving"}

CandidatesAreKeys == \A h \in Host : HasCandidate(h) => resolve[h].key \in Key
ProvedOpens == \A h \in Host : HasProved(h) => Opens(h, resolve[h].key)
OneKeyOpens == \A h \in Host : \E k \in Key : Opens(h, k)

KeyInv == KeyTypes /\ CandidatesAreKeys /\ ProvedOpens /\ OneKeyOpens
------------------------------------------------------------------------------
\* The environment's key is a key.
LEMMA EnvKeyIsKey == EnvKey \in Key /\ NoKey \notin Key
BY KeyAssumptions DEF Key, EnvKey, NoKey

\* A database without secrets is opened by any key.
LEMMA NothingToOpen ==
    ASSUME NEW h \in Host, NEW k, Opens(h, NoKey)
    PROVE  Opens(h, k)
BY DEF Opens

\* At the start no secret is sealed and no host has a key.
LEMMA KeyInvHolds == KeyInit => KeyInv
<1> SUFFICES ASSUME KeyInit PROVE KeyInv
    OBVIOUS
<1>1. KeyTypes
    BY EnvKeyIsKey DEF KeyInit, KeyTypes, Resolves, Labels, Off
<1>2. CandidatesAreKeys /\ ProvedOpens
    BY DEF KeyInit, CandidatesAreKeys, ProvedOpens, HasCandidate, HasProved, Off
<1>3. OneKeyOpens
    BY EnvKeyIsKey DEF KeyInit, OneKeyOpens, Opens
<1> QED BY <1>1, <1>2, <1>3 DEF KeyInv

\* A step that seals nothing and only moves one host along keeps the invariant when
\* that host proves the key it goes on with.
LEMMA HostMoves ==
    ASSUME KeyInv, NEW h \in Host, NEW r \in Resolves,
           resolve' = [resolve EXCEPT ![h] = r], UNCHANGED sealed, KeyTypes',
           r.at \in {"check_store", "check_env"} => r.key \in Key,
           r.at \in {"write", "read_back", "serving"} => r.key \in Key /\ Opens(h, r.key)
    PROVE  KeyInv'
<1>1. \A i \in Host : resolve'[i] = IF i = h THEN r ELSE resolve[i]
    BY DEF KeyInv, KeyTypes
<1>2. CandidatesAreKeys'
    BY <1>1 DEF KeyInv, CandidatesAreKeys, HasCandidate
<1>3. \A i \in Host : \A k : Opens(i, k)' <=> Opens(i, k)
    BY DEF Opens
<1>4. ProvedOpens'
    BY <1>1, <1>3 DEF KeyInv, ProvedOpens, HasProved, Opens
<1>5. OneKeyOpens'
    BY <1>3 DEF KeyInv, OneKeyOpens, Opens, Key
<1> QED BY <1>2, <1>4, <1>5 DEF KeyInv

\* Labels and keys go together: what the moves of a resolution put in the table.
LEMMA MoveTypes ==
    /\ Off \in Resolves
    /\ \A at \in Labels, key \in Key \cup {NoKey}, saw \in {"nothing", "absent", "away", "passed"} :
           [at |-> at, key |-> key, saw |-> saw] \in Resolves
BY DEF Off, Resolves, Labels

\* Every step of the world, of a start and of a serving host keeps the invariant.
LEMMA KeyInvIsInductive == KeyInv /\ [KeyNext]_keyVars => KeyInv'
<1> SUFFICES ASSUME KeyInv, [KeyNext]_keyVars PROVE KeyInv'
    OBVIOUS
<1> USE DEF KeyInv
<1> DEFINE Still == UNCHANGED <<windows, storeUp, storeKey, env, sealed, fresh, taken>>
<1>1. \A h \in Host : resolve[h] \in Resolves /\ resolve[h].saw \in {"nothing", "absent", "away", "passed"}
    BY DEF KeyTypes, Resolves
<1>2. ASSUME NEW h \in Host, NEW r \in Resolves, resolve' = [resolve EXCEPT ![h] = r], Still
      PROVE  KeyTypes'
    BY <1>2 DEF KeyTypes, Key
<1>3. CASE World
    <2>1. env' \in {NoKey, EnvKey} /\ UNCHANGED <<windows, sealed, resolve, fresh>>
        BY <1>3 DEF World, KeyTypes, EnvKey, NoKey
    <2>2. storeUp' \in BOOLEAN
        <3>1. storeUp' = ~storeUp \/ storeUp' = storeUp
            BY <1>3, Zenon DEF World
        <3>2. QED
            BY <3>1, Zenon DEF KeyTypes
    <2>3. storeKey' \in Key \cup {NoKey, Corrupt} /\ taken' \in BOOLEAN
        <3>1. \/ storeKey' \in {NoKey, Corrupt} /\ taken' = TRUE
              \/ UNCHANGED <<storeKey, taken>>
            BY <1>3, Zenon DEF World
        <3>2. QED
            BY <3>1, Zenon DEF KeyTypes, Key
    <2>4. KeyTypes'
        BY <2>1, <2>2, <2>3 DEF KeyTypes, Key
    <2>5. QED
        BY <2>1, <2>4 DEF CandidatesAreKeys, ProvedOpens, OneKeyOpens, HasCandidate, HasProved, Opens, Key
<1>4. ASSUME NEW h \in Host, StartResolving(h) PROVE KeyInv'
    <2> DEFINE r == [at |-> "store", key |-> NoKey, saw |-> "nothing"]
    <2>1. r \in Resolves /\ resolve' = [resolve EXCEPT ![h] = r] /\ Still
        BY <1>4, MoveTypes DEF StartResolving, Goes, Labels
    <2>2. KeyTypes'
        BY <2>1, <1>2
    <2>3. QED
        BY <2>1, <2>2, HostMoves
<1>5. ASSUME NEW h \in Host, GivesUpStart(h), Still PROVE KeyInv'
    <2>1. KeyTypes'
        BY <1>5, <1>2, MoveTypes DEF GivesUpStart
    <2>2. QED
        BY <1>5, <2>1, MoveTypes, HostMoves DEF GivesUpStart, Off
<1>6. ASSUME NEW h \in Host, Serve(h), Still, resolve[h].key \in Key, Opens(h, resolve[h].key) PROVE KeyInv'
    <2> DEFINE r == [at |-> "serving", key |-> resolve[h].key, saw |-> resolve[h].saw]
    <2>1. r \in Resolves /\ resolve' = [resolve EXCEPT ![h] = r]
        BY <1>6, <1>1, MoveTypes DEF Serve, Goes, Labels
    <2>2. KeyTypes'
        BY <1>6, <2>1, <1>2
    <2>3. QED
        BY <1>6, <2>1, <2>2, HostMoves
<1>7. ASSUME NEW h \in Host, ReadStore(h) PROVE KeyInv'
    <2>1. Still
        BY <1>7 DEF ReadStore, Reads
    <2>2. CASE GivesUpStart(h)
        BY <2>1, <2>2, <1>5
    <2>3. CASE \E saw \in {"away", "absent"} : Goes(h, "env", NoKey, saw)
        <3> PICK saw \in {"away", "absent"} : Goes(h, "env", NoKey, saw)
            BY <2>3
        <3> DEFINE r == [at |-> "env", key |-> NoKey, saw |-> saw]
        <3>1. r \in Resolves /\ resolve' = [resolve EXCEPT ![h] = r]
            BY MoveTypes DEF Goes, Labels
        <3>2. QED
            BY <2>1, <3>1, <1>2, HostMoves
    <2>4. CASE storeKey \in Key /\ Goes(h, "check_store", storeKey, "nothing")
        <3> DEFINE r == [at |-> "check_store", key |-> storeKey, saw |-> "nothing"]
        <3>1. r \in Resolves /\ resolve' = [resolve EXCEPT ![h] = r]
            BY <2>4, MoveTypes DEF Goes, Labels
        <3>2. QED
            BY <2>1, <2>4, <3>1, <1>2, HostMoves
    <2>5. QED
        BY <1>7, <2>2, <2>3, <2>4 DEF ReadStore
<1>8. ASSUME NEW h \in Host, CheckStoreKey(h) PROVE KeyInv'
    BY <1>8, <1>5, <1>6 DEF CheckStoreKey, Reads, CandidatesAreKeys, HasCandidate
<1>9. ASSUME NEW h \in Host, ReadEnv(h) PROVE KeyInv'
    <2> DEFINE r(at, key) == [at |-> at, key |-> key, saw |-> resolve[h].saw]
    <2>1. Still
        BY <1>9 DEF ReadEnv, Reads
    <2>2. CASE env # NoKey
        <3>1. env \in Key
            BY <2>2, EnvKeyIsKey DEF KeyTypes
        <3>2. r("check_env", env) \in Resolves /\ resolve' = [resolve EXCEPT ![h] = r("check_env", env)]
            BY <1>9, <2>2, <3>1, <1>1, MoveTypes DEF ReadEnv, Goes, Labels
        <3>3. QED
            BY <2>1, <3>1, <3>2, <1>2, HostMoves
    <2>3. CASE env = NoKey
        <3>1. r("count", NoKey) \in Resolves /\ resolve' = [resolve EXCEPT ![h] = r("count", NoKey)]
            BY <1>9, <2>3, <1>1, MoveTypes DEF ReadEnv, Goes, Labels
        <3>2. QED
            BY <2>1, <3>1, <1>2, HostMoves
    <2>4. QED
        BY <2>2, <2>3
<1>10. ASSUME NEW h \in Host, CheckEnvKey(h) PROVE KeyInv'
    <2>1. Still /\ resolve[h].key \in Key
        BY <1>10 DEF CheckEnvKey, Reads, CandidatesAreKeys, HasCandidate
    <2>2. CASE GivesUpStart(h)
        BY <2>1, <2>2, <1>5
    <2>3. CASE Serve(h) /\ Opens(h, resolve[h].key)
        BY <2>1, <2>3, <1>6
    <2>4. CASE Goes(h, "write", resolve[h].key, resolve[h].saw) /\ Opens(h, resolve[h].key)
        <3> DEFINE r == [at |-> "write", key |-> resolve[h].key, saw |-> resolve[h].saw]
        <3>1. r \in Resolves /\ resolve' = [resolve EXCEPT ![h] = r]
            BY <2>1, <2>4, <1>1, MoveTypes DEF Goes, Labels
        <3>2. QED
            BY <2>1, <2>4, <3>1, <1>2, HostMoves
    <2>5. QED
        BY <1>10, <2>2, <2>3, <2>4 DEF CheckEnvKey
<1>11. ASSUME NEW h \in Host, CountSecrets(h) PROVE KeyInv'
    <2>1. CASE GivesUpStart(h) /\ UNCHANGED fresh
        BY <1>11, <2>1, <1>5 DEF CountSecrets
    <2>2. CASE Opens(h, NoKey) /\ fresh < EnvKey + MaxFresh /\ fresh' = fresh + 1 /\ Goes(h, "write", fresh + 1, resolve[h].saw)
        <3> DEFINE r == [at |-> "write", key |-> fresh + 1, saw |-> resolve[h].saw]
        <3>1. fresh + 1 \in Key
            BY <2>2, KeyAssumptions DEF KeyTypes, Key, EnvKey
        <3>2. r \in Resolves /\ resolve' = [resolve EXCEPT ![h] = r]
            BY <2>2, <3>1, <1>1, MoveTypes DEF Goes, Labels
        <3>3. KeyTypes'
            BY <1>11, <2>2, <3>1, <3>2 DEF CountSecrets, KeyTypes, Key
        <3>4. Opens(h, fresh + 1)
            BY <2>2, NothingToOpen
        <3>5. UNCHANGED sealed
            BY <1>11 DEF CountSecrets
        <3>6. QED
            BY <3>1, <3>2, <3>3, <3>4, <3>5, HostMoves
    <2>3. QED
        BY <1>11, <2>1, <2>2 DEF CountSecrets
<1>12. ASSUME NEW h \in Host, WriteKey(h) PROVE KeyInv'
    <2>1. CASE GivesUpStart(h) /\ UNCHANGED <<storeKey, taken>>
        BY <1>12, <2>1, <1>5 DEF WriteKey
    <2>2. CASE ~(GivesUpStart(h) /\ UNCHANGED <<storeKey, taken>>)
        <3>1. resolve[h].at = "write" /\ storeKey' = resolve[h].key /\ UNCHANGED sealed
            BY <1>12, <2>2 DEF WriteKey
        <3>2. resolve[h].key \in Key /\ Opens(h, resolve[h].key)
            BY <3>1 DEF CandidatesAreKeys, ProvedOpens, HasCandidate, HasProved
        <3>3. \A i \in Host : /\ resolve'[i].key = resolve[i].key
                              /\ i # h => resolve'[i].at = resolve[i].at
                              /\ resolve'[h].at = "read_back"
            BY <1>12, <2>2 DEF WriteKey
        <3>4. \A i \in Host : resolve'[i] \in Resolves
            <4> TAKE i \in Host
            <4>1. CASE i = h
                <5>1. resolve'[i] = [at |-> "read_back", key |-> resolve[i].key, saw |-> resolve[i].saw]
                    BY <1>12, <2>2, <4>1 DEF WriteKey
                <5>2. "read_back" \in Labels /\ resolve[i].key \in Key \cup {NoKey}
                    BY <3>2, <4>1 DEF Labels
                <5>3. QED
                    BY <1>1, <5>1, <5>2, MoveTypes
            <4>2. CASE i # h /\ ReadEarlier(i)
                <5>1. resolve'[i] = [at |-> resolve[i].at, key |-> resolve[i].key, saw |-> "passed"]
                    BY <1>12, <2>2, <4>2 DEF WriteKey
                <5>2. resolve[i].at \in Labels /\ resolve[i].key \in Key \cup {NoKey}
                    BY <1>1 DEF Resolves
                <5>3. QED
                    BY <5>1, <5>2, MoveTypes
            <4>3. CASE i # h /\ ~ReadEarlier(i)
                BY <1>12, <2>2, <4>3, <1>1 DEF WriteKey
            <4>4. QED
                BY <4>1, <4>2, <4>3
        <3>5. taken' \in BOOLEAN
            BY <1>12, <2>2 DEF WriteKey, KeyTypes
        <3>6. resolve' \in [Host -> Resolves]
            BY <1>12, <2>2, <3>4 DEF WriteKey
        <3>7. KeyTypes'
            BY <1>12, <3>1, <3>2, <3>5, <3>6 DEF WriteKey, KeyTypes, Key
        <3>8. CandidatesAreKeys'
            BY <3>2, <3>3 DEF CandidatesAreKeys, HasCandidate, Key
        <3>9. ProvedOpens' /\ OneKeyOpens'
            BY <3>1, <3>2, <3>3 DEF ProvedOpens, HasProved, OneKeyOpens, Opens, Key
        <3>10. QED
            BY <3>7, <3>8, <3>9
    <2>3. QED
        BY <2>1, <2>2
<1>13. ASSUME NEW h \in Host, ReadBack(h) PROVE KeyInv'
    BY <1>13, <1>5, <1>6 DEF ReadBack, Reads, CandidatesAreKeys, ProvedOpens, HasCandidate, HasProved
<1>14. ASSUME NEW h \in Host, NEW f \in Field, Put(h, f) \/ DeleteSecret(h, f) PROVE KeyInv'
    <2>1. PICK k \in {resolve[h].key, NoKey} : sealed' = [sealed EXCEPT ![h][f] = k]
        BY <1>14 DEF Put, DeleteSecret
    <2>2. UNCHANGED <<windows, storeUp, storeKey, env, resolve, fresh, taken>> /\ Serving(h)
        BY <1>14 DEF Put, DeleteSecret
    <2>3. resolve[h].key \in Key /\ Opens(h, resolve[h].key)
        BY <2>2 DEF Serving, CandidatesAreKeys, ProvedOpens, HasCandidate, HasProved
    <2>4. \A i \in Host, g \in Field : sealed'[i][g] = IF i = h /\ g = f THEN k ELSE sealed[i][g]
        BY <2>1 DEF KeyTypes
    <2>5. sealed' \in [Host -> [Field -> Key \cup {NoKey}]]
        BY <2>1, <2>3 DEF KeyTypes
    <2>6. KeyTypes'
        BY <2>2, <2>5 DEF KeyTypes, Key
    <2>7. \A i \in Host : \A q : i # h => (Opens(i, q)' <=> Opens(i, q))
        BY <2>4 DEF Opens
    <2>8. Opens(h, resolve[h].key)'
        BY <2>1, <2>2, <2>3, <2>4 DEF Opens
    <2>9. CandidatesAreKeys'
        BY <2>2 DEF CandidatesAreKeys, HasCandidate, Key
    <2>10. ProvedOpens'
        BY <2>2, <2>4, <2>8 DEF ProvedOpens, HasProved, Opens
    <2>11. OneKeyOpens'
        BY <2>2, <2>3, <2>4, <2>8 DEF OneKeyOpens, Opens, Key
    <2>12. QED
        BY <2>6, <2>9, <2>10, <2>11
<1>15. ASSUME NEW h \in Host, Stops(h) PROVE KeyInv'
    BY <1>15, <1>5 DEF Stops, Reads
<1>16. CASE UNCHANGED keyVars
    BY <1>16 DEF keyVars, KeyTypes, CandidatesAreKeys, ProvedOpens, OneKeyOpens, HasCandidate, HasProved, Opens, Key
<1>17. QED
    BY <1>3, <1>4, <1>7, <1>8, <1>9, <1>10, <1>11, <1>12, <1>13, <1>14, <1>15, <1>16 DEF KeyNext, ResolveStep

\* What the invariant says of a host that serves, and of the types.
LEMMA KeyInvImplies == KeyInv => KeyTypeOK /\ ServingOpensAll
BY DEF KeyInv, KeyTypes, KeyTypeOK, OneKeyOpens, ProvedOpens, HasProved, Serving, ServingOpensAll, Resolves, Labels, Key

LEMMA KeyInvAlways == KeySpec => []KeyInv
BY KeyInvHolds, KeyInvIsInductive, PTL DEF KeySpec
------------------------------------------------------------------------------
\* The state keeps its types, and every database is readable with one key, through
\* any sequence of starts, stops and troubles of ResolveKey's sources.
THEOREM KeyTypeCorrect == KeySpec => []KeyTypeOK
BY KeyInvAlways, KeyInvImplies, PTL

\* A host that serves opens every secret of its database (lifecycle.go's
\* validateKeyAgainstCiphertext is enough, on every way through ResolveKey).
THEOREM ServingHostOpensAll == KeySpec => []ServingOpensAll
BY KeyInvAlways, KeyInvImplies, PTL

\* Both together: the secrets of a database stay readable with one key, and whoever
\* serves the database has that key, whatever ResolveKey met on its way.
THEOREM SecretsAlwaysReadable == KeySpec => []SecretsStayReadable
<1>1. KeyInv => SecretsStayReadable
    BY KeyInvImplies DEF SecretsStayReadable
<1>2. QED
    BY <1>1, KeyInvAlways, PTL
------------------------------------------------------------------------------
\* The key a generated secret is sealed with stays in the store.  What a start has
\* seen there is still so when it writes, unless it has to count as passed.
SightIsTrue ==
    \A h \in Host : ReadEarlier(h) => /\ resolve[h].saw \in {"absent", "away", "passed"}
                                      /\ resolve[h].saw = "absent" => storeKey \notin Key
EnvironmentHasItsKey == \A h \in Host : resolve[h].at = "check_env" => resolve[h].key = EnvKey
Uses(h) == resolve[h].at \in {"check_store", "serving"}
UsedKeyIsKept == \A h \in Host : Uses(h) /\ resolve[h].key > EnvKey => storeKey = resolve[h].key \/ taken
KeptInv == KeyInv /\ SightIsTrue /\ EnvironmentHasItsKey /\ UsedKeyIsKept /\ GeneratedKeyIsKept

\* A step that moves one host along, to a record that is true of store and
\* environment, and leaves store and secrets alone.
LEMMA KeptWhenHostMoves ==
    ASSUME KeptInv, NEW h \in Host, NEW r, resolve' = [resolve EXCEPT ![h] = r],
           UNCHANGED <<sealed, storeKey, taken>>,
           r.at \in {"env", "check_env", "count", "write"} =>
               /\ r.saw \in {"absent", "away", "passed"}
               /\ r.saw = "absent" => storeKey \notin Key,
           r.at = "check_env" => r.key = EnvKey,
           r.at \in {"check_store", "serving"} /\ r.key > EnvKey => storeKey = r.key \/ taken
    PROVE  SightIsTrue' /\ EnvironmentHasItsKey' /\ UsedKeyIsKept' /\ GeneratedKeyIsKept'
<1> USE DEF KeptInv
<1>1. \A i \in Host : resolve'[i] = IF i = h THEN r ELSE resolve[i]
    BY DEF KeyInv, KeyTypes
<1>2. SightIsTrue'
    BY <1>1 DEF SightIsTrue, ReadEarlier, Key
<1>3. EnvironmentHasItsKey'
    BY <1>1 DEF EnvironmentHasItsKey
<1>4. UsedKeyIsKept'
    BY <1>1 DEF UsedKeyIsKept, Uses
<1>5. GeneratedKeyIsKept'
    BY DEF GeneratedKeyIsKept
<1> QED BY <1>2, <1>3, <1>4, <1>5

\* The one step that writes the store.  It writes over a key only when what its host
\* saw has passed, or when the key is the same.
LEMMA WritingKeeps ==
    ASSUME KeptInv, NEW h \in Host, WriteKey(h), ~GivesUpStart(h)
    PROVE  SightIsTrue' /\ EnvironmentHasItsKey' /\ UsedKeyIsKept' /\ GeneratedKeyIsKept'
<1> USE DEF KeptInv
<1> DEFINE k == resolve[h].key
<1>1. resolve[h].at = "write" /\ storeKey' = k /\ UNCHANGED sealed
    BY DEF WriteKey
<1>2. taken' = (taken \/ (storeKey \in Key \ {k} /\ resolve[h].saw \in {"away", "passed"}))
    BY DEF WriteKey
<1>3. \A i \in Host : /\ i = h => resolve'[i].at = "read_back"
                      /\ i # h => resolve'[i].at = resolve[i].at /\ resolve'[i].key = resolve[i].key
                      /\ i # h /\ ReadEarlier(i) => resolve'[i].saw = "passed"
    <2> TAKE i \in Host
    <2>1. CASE i = h
        BY <2>1 DEF WriteKey
    <2>2. CASE i # h /\ ReadEarlier(i)
        BY <2>2 DEF WriteKey
    <2>3. CASE i # h /\ ~ReadEarlier(i)
        BY <2>3 DEF WriteKey
    <2>4. QED
        BY <2>1, <2>2, <2>3
<1>4. \A i \in Host : ReadEarlier(i)' => ReadEarlier(i) /\ resolve'[i].saw = "passed"
    BY <1>3 DEF ReadEarlier
<1>5. SightIsTrue'
    BY <1>4 DEF SightIsTrue
<1>6. \A i \in Host : resolve'[i].at = "check_env" => resolve[i].at = "check_env" /\ resolve'[i].key = resolve[i].key
    BY <1>3
<1>7. EnvironmentHasItsKey'
    BY <1>6 DEF EnvironmentHasItsKey
<1>8. ~taken' => ~taken /\ storeKey \notin Key \ {k}
    BY <1>1, <1>2 DEF SightIsTrue, ReadEarlier
<1>9. ASSUME NEW q \in Key, storeKey = q \/ taken PROVE storeKey' = q \/ taken'
    BY <1>9, <1>1, <1>8
<1>10. \A i \in Host : Uses(i)' => Uses(i) /\ resolve'[i].key = resolve[i].key
    BY <1>3 DEF Uses
<1>11. \A i \in Host : Uses(i) => resolve[i].key \in Key
    BY DEF Uses, KeyInv, CandidatesAreKeys, HasCandidate
<1>12. UsedKeyIsKept'
    BY <1>9, <1>10, <1>11 DEF UsedKeyIsKept
<1>13. \A i \in Host, f \in Field : sealed[i][f] > EnvKey => sealed[i][f] \in Key
    BY KeyAssumptions DEF KeyInv, KeyTypes, Key, NoKey, EnvKey
<1>14. GeneratedKeyIsKept'
    BY <1>1, <1>9, <1>13 DEF GeneratedKeyIsKept
<1> QED BY <1>5, <1>7, <1>12, <1>14

\* A host seals with the key it uses.
LEMMA SealingKeeps ==
    ASSUME KeptInv, NEW h \in Host, NEW f \in Field, Put(h, f) \/ DeleteSecret(h, f)
    PROVE  SightIsTrue' /\ EnvironmentHasItsKey' /\ UsedKeyIsKept' /\ GeneratedKeyIsKept'
<1> USE DEF KeptInv
<1>1. UNCHANGED <<storeKey, resolve, taken>> /\ Serving(h)
    BY DEF Put, DeleteSecret
<1>2. PICK k \in {resolve[h].key, NoKey} : sealed' = [sealed EXCEPT ![h][f] = k]
    BY DEF Put, DeleteSecret
<1>3. \A i \in Host, g \in Field : sealed'[i][g] = IF i = h /\ g = f THEN k ELSE sealed[i][g]
    BY <1>2 DEF KeyInv, KeyTypes
<1>4. k > EnvKey => storeKey = k \/ taken
    BY <1>1 DEF UsedKeyIsKept, Uses, Serving, NoKey, EnvKey
<1>5. GeneratedKeyIsKept'
    BY <1>1, <1>3, <1>4 DEF GeneratedKeyIsKept
<1> QED BY <1>1, <1>5 DEF SightIsTrue, ReadEarlier, EnvironmentHasItsKey, UsedKeyIsKept, Uses, Key

LEMMA KeptInvIsInductive == KeptInv /\ [KeyNext]_keyVars => KeptInv'
<1> SUFFICES ASSUME KeptInv, [KeyNext]_keyVars PROVE KeptInv'
    OBVIOUS
<1> USE DEF KeptInv
<1> DEFINE Kept == SightIsTrue /\ EnvironmentHasItsKey /\ UsedKeyIsKept /\ GeneratedKeyIsKept
<1> DEFINE Still == UNCHANGED <<sealed, storeKey, taken>>
<1>0. \A h \in Host : resolve[h] = [at |-> resolve[h].at, key |-> resolve[h].key, saw |-> resolve[h].saw]
    BY DEF KeyInv, KeyTypes, Resolves
<1>1. ASSUME World PROVE Kept'
    <2>1. UNCHANGED <<resolve, sealed>> /\ (UNCHANGED <<storeKey, taken>> \/ (storeKey' \in {NoKey, Corrupt} /\ taken' = TRUE))
        BY <1>1, Zenon DEF World
    <2>2. NoKey \notin Key /\ Corrupt \notin Key
        BY KeyAssumptions DEF NoKey, Corrupt, Key, EnvKey
    <2>3. SightIsTrue' /\ EnvironmentHasItsKey'
        BY <2>1, <2>2 DEF SightIsTrue, ReadEarlier, EnvironmentHasItsKey, Key
    <2>4. UsedKeyIsKept' /\ GeneratedKeyIsKept'
        BY <2>1 DEF UsedKeyIsKept, Uses, GeneratedKeyIsKept
    <2>5. QED
        BY <2>3, <2>4
<1>2. ASSUME NEW h \in Host, GivesUpStart(h), Still PROVE Kept'
    BY <1>2, KeptWhenHostMoves DEF GivesUpStart, Off
<1>3. ASSUME NEW h \in Host, Serve(h), Still, resolve[h].key > EnvKey => storeKey = resolve[h].key \/ taken
      PROVE Kept'
    <2> DEFINE r == [at |-> "serving", key |-> resolve[h].key, saw |-> resolve[h].saw]
    <2>1. resolve' = [resolve EXCEPT ![h] = r] /\ Still
        BY <1>3 DEF Serve, Goes
    <2>2. r.at = "serving" /\ r.key = resolve[h].key
        OBVIOUS
    <2> HIDE DEF r
    <2>3. QED
        BY <1>3, <2>1, <2>2, KeptWhenHostMoves
\* A start goes on to look elsewhere with what it saw.
<1>4. ASSUME NEW h \in Host, NEW at \in {"env", "check_env", "count", "write"}, NEW key, NEW saw \in {"absent", "away", "passed"},
             Goes(h, at, key, saw), Still, saw = "absent" => storeKey \notin Key, at = "check_env" => key = EnvKey
      PROVE  Kept'
    <2> DEFINE r == [at |-> at, key |-> key, saw |-> saw]
    <2>1. resolve' = [resolve EXCEPT ![h] = r] /\ Still
        BY <1>4 DEF Goes
    <2>2. r.at = at /\ r.key = key /\ r.saw = saw
        OBVIOUS
    <2> HIDE DEF r
    <2>3. QED
        BY <1>4, <2>1, <2>2, KeptWhenHostMoves
<1>5. ASSUME NEW h \in Host, ReadEarlier(h)
      PROVE  resolve[h].saw \in {"absent", "away", "passed"} /\ (resolve[h].saw = "absent" => storeKey \notin Key)
    BY <1>5 DEF SightIsTrue
<1>6. ASSUME NEW h \in Host, StartResolving(h) PROVE Kept'
    <2> DEFINE r == [at |-> "store", key |-> NoKey, saw |-> "nothing"]
    <2>1. resolve' = [resolve EXCEPT ![h] = r] /\ Still
        BY <1>6 DEF StartResolving, Goes
    <2>2. r.at = "store"
        OBVIOUS
    <2> HIDE DEF r
    <2>3. QED
        BY <2>1, <2>2, KeptWhenHostMoves
<1>7. ASSUME NEW h \in Host, ReadStore(h) PROVE Kept'
    <2>1. Still
        BY <1>7 DEF ReadStore, Reads
    <2>2. CASE GivesUpStart(h)
        BY <2>1, <2>2, <1>2
    <2>3. CASE Goes(h, "env", NoKey, "away")
        BY <2>1, <2>3, <1>4
    <2>4. CASE storeKey = NoKey /\ Goes(h, "env", NoKey, "absent")
        BY <2>1, <2>4, <1>4, EnvKeyIsKey
    <2>5. CASE Goes(h, "check_store", storeKey, "nothing")
        <3> DEFINE r == [at |-> "check_store", key |-> storeKey, saw |-> "nothing"]
        <3>1. resolve' = [resolve EXCEPT ![h] = r] /\ Still
            BY <2>1, <2>5 DEF Goes
        <3>2. r.at = "check_store" /\ r.key = storeKey
            OBVIOUS
        <3> HIDE DEF r
        <3>3. QED
            BY <3>1, <3>2, KeptWhenHostMoves
    <2>6. QED
        BY <1>7, <2>2, <2>3, <2>4, <2>5 DEF ReadStore
<1>8. ASSUME NEW h \in Host, CheckStoreKey(h) PROVE Kept'
    BY <1>8, <1>2, <1>3 DEF CheckStoreKey, Reads, UsedKeyIsKept, Uses
<1>9. ASSUME NEW h \in Host, ReadEnv(h) PROVE Kept'
    <2>1. Still /\ ReadEarlier(h) /\ (env # NoKey => env = EnvKey)
        BY <1>9 DEF ReadEnv, Reads, ReadEarlier, KeyInv, KeyTypes
    <2>2. CASE env # NoKey
        BY <1>9, <2>1, <2>2, <1>4, <1>5 DEF ReadEnv
    <2>3. CASE env = NoKey
        BY <1>9, <2>1, <2>3, <1>4, <1>5 DEF ReadEnv
    <2>4. QED
        BY <2>2, <2>3
<1>10. ASSUME NEW h \in Host, CheckEnvKey(h) PROVE Kept'
    <2>1. Still /\ ReadEarlier(h) /\ resolve[h].key = EnvKey
        BY <1>10 DEF CheckEnvKey, Reads, ReadEarlier, EnvironmentHasItsKey
    <2>2. CASE GivesUpStart(h)
        BY <2>1, <2>2, <1>2
    <2>3. CASE Serve(h)
        BY <2>1, <2>3, <1>3 DEF EnvKey
    <2>4. CASE Goes(h, "write", resolve[h].key, resolve[h].saw)
        BY <2>1, <2>4, <1>4, <1>5
    <2>5. QED
        BY <1>10, <2>2, <2>3, <2>4 DEF CheckEnvKey
<1>11. ASSUME NEW h \in Host, CountSecrets(h) PROVE Kept'
    <2>1. Still /\ ReadEarlier(h)
        BY <1>11 DEF CountSecrets, ReadEarlier
    <2>2. CASE GivesUpStart(h)
        BY <2>1, <2>2, <1>2
    <2>3. CASE Goes(h, "write", fresh + 1, resolve[h].saw)
        BY <2>1, <2>3, <1>4, <1>5
    <2>4. QED
        BY <1>11, <2>2, <2>3 DEF CountSecrets
<1>12. ASSUME NEW h \in Host, WriteKey(h) PROVE Kept'
    <2>1. CASE GivesUpStart(h) /\ UNCHANGED <<storeKey, taken>>
        BY <1>12, <2>1, <1>2 DEF WriteKey
    <2>2. CASE ~GivesUpStart(h)
        BY <1>12, <2>2, WritingKeeps
    <2>3. CASE GivesUpStart(h) /\ ~UNCHANGED <<storeKey, taken>>
        <3>1. resolve'[h] = Off /\ resolve'[h].at = "read_back"
            BY <1>12, <2>3 DEF WriteKey, GivesUpStart, KeyInv, KeyTypes
        <3>2. QED
            BY <3>1 DEF Off
    <2>4. QED
        BY <2>1, <2>2, <2>3
<1>13. ASSUME NEW h \in Host, ReadBack(h) PROVE Kept'
    BY <1>13, <1>2, <1>3 DEF ReadBack, Reads
<1>14. ASSUME NEW h \in Host, NEW f \in Field, Put(h, f) \/ DeleteSecret(h, f) PROVE Kept'
    BY <1>14, SealingKeeps
<1>15. ASSUME NEW h \in Host, Stops(h) PROVE Kept'
    BY <1>15, <1>2 DEF Stops, Reads
<1>16. ASSUME UNCHANGED keyVars PROVE Kept'
    BY <1>16 DEF keyVars, SightIsTrue, ReadEarlier, EnvironmentHasItsKey, UsedKeyIsKept, Uses, GeneratedKeyIsKept, Key
<1>17. Kept'
    BY <1>1, <1>6, <1>7, <1>8, <1>9, <1>10, <1>11, <1>12, <1>13, <1>14, <1>15, <1>16 DEF KeyNext, ResolveStep
<1>18. QED
    BY <1>17, KeyInvIsInductive

\* No start of either host writes over the generated key that seals a secret, unless
\* what it read of the credential store had passed by then (lifecycle.go: ResolveKey
\* reads the store once, and SetKey replaces what it finds).
THEOREM GeneratedKeyStays == KeySpec => []GeneratedKeyIsKept
<1>1. KeyInit => KeptInv
    <2>1. KeyInit => SightIsTrue /\ EnvironmentHasItsKey /\ UsedKeyIsKept
        BY DEF KeyInit, Off, SightIsTrue, ReadEarlier, EnvironmentHasItsKey, UsedKeyIsKept, Uses
    <2>2. KeyInit => GeneratedKeyIsKept
        BY DEF KeyInit, GeneratedKeyIsKept, NoKey, EnvKey
    <2>3. QED
        BY <2>1, <2>2, KeyInvHolds DEF KeptInv
<1>2. KeptInv => GeneratedKeyIsKept
    BY DEF KeptInv
<1>3. QED
    BY <1>1, <1>2, KeptInvIsInductive, PTL DEF KeySpec

-------------------------------------------------------------------------------
(***************************************************************************)
(* The cookies.  A run that began after a deletion found no cookies when   *)
(* it read the mode, and goes on without them: a run reads the cookies     *)
(* only when its mode was that of the cookies.                             *)
(***************************************************************************)

\* From the first write of DeleteCookies on there are none.
DeletedIsGone == removed \/ order = "reset_mode" => cookies = NoCookies

\* A run that began after a deletion is past the reading and has no file.
LateRunHasNone == \A r \in Run : run[r].after => run[r].at \in {"args", "working"} /\ tempFile[r] = NoCookies

SignInv == SignTypeOK /\ FileHasRun /\ DeletedIsGone /\ LateRunHasNone

LEMMA SignInvInit ==
    ASSUME SignInit
    PROVE  SignInv
<1>1. /\ NoRun \in [at : {"none", "secret", "file", "args", "working"}, read : 0 .. 2, after : BOOLEAN]
      /\ ~NoRun.after
  BY DEF NoRun, NoCookies
<1>2. SignTypeOK
  <2>1. run \in [Run -> [at : {"none", "secret", "file", "args", "working"}, read : 0 .. 2, after : BOOLEAN]]
    BY <1>1 DEF SignInit
  <2>2. tempFile \in [Run -> 0 .. 2] /\ cookies \in 0 .. 2
    BY DEF SignInit, NoCookies
  <2> QED BY <2>1, <2>2 DEF SignInit, SignTypeOK, Mode
<1> QED BY <1>1, <1>2 DEF SignInit, SignInv, FileHasRun, DeletedIsGone, LateRunHasNone

\* Requests about mode and cookies, with the lock of the service.
LEMMA RequestsKeepSignInv ==
    ASSUME SignInv,
           \/ \E m \in Mode : UpdateSignIn(m)
           \/ \E c \in 1 .. 2 : ImportCookies(c)
           \/ DeleteCookies \/ ResetMode \/ ResetModeFails
    PROVE  SignInv'
<1> USE DEF SignInv
<1>1. UNCHANGED <<program, run, tempFile>>
  BY DEF UpdateSignIn, ImportCookies, DeleteCookies, ResetMode, ResetModeFails
<1>2. SignTypeOK'
  <2>1. mode' \in Mode /\ cookies' \in 0 .. 2 /\ order' \in {"none", "reset_mode"} /\ removed' \in BOOLEAN
    <3>1. mode \in Mode /\ cookies \in 0 .. 2 /\ order \in {"none", "reset_mode"} /\ removed \in BOOLEAN
      BY DEF SignTypeOK
    <3>2. /\ mode' \in Mode
          /\ order' \in {"none", "reset_mode"} /\ removed' \in BOOLEAN
      BY <3>1 DEF UpdateSignIn, ImportCookies, DeleteCookies, ResetMode, ResetModeFails, Mode
    <3>3. cookies' = cookies \/ cookies' = 0 \/ cookies' \in 1 .. 2
      BY DEF UpdateSignIn, ImportCookies, DeleteCookies, ResetMode, ResetModeFails, NoCookies
    <3> QED BY <3>1, <3>2, <3>3
  <2>2. program = "up"
    BY DEF SignTypeOK, UpdateSignIn, ImportCookies, DeleteCookies, ResetMode, ResetModeFails, Unlocked
  <2> QED BY <1>1, <2>1, <2>2 DEF SignTypeOK
<1>3. FileHasRun' /\ LateRunHasNone'
  BY <1>1 DEF FileHasRun, LateRunHasNone
<1>4. DeletedIsGone'
  BY DEF SignTypeOK, DeletedIsGone, UpdateSignIn, ImportCookies, DeleteCookies, ResetMode, ResetModeFails,
         Unlocked
<1> QED BY <1>2, <1>3, <1>4

LEMMA RunsKeepSignInv ==
    ASSUME SignInv, NEW r \in Run, Preparing(r)
    PROVE  SignInv'
<1> USE DEF SignInv
<1>1. UNCHANGED <<program, mode, cookies, order, removed>>
  BY DEF Preparing, ReadMode, ReadCookies, CreateTempCookieFile, BuildArgs, RunEnds, SettingsStay
<1>2. /\ run \in [Run -> [at : {"none", "secret", "file", "args", "working"}, read : 0 .. 2, after : BOOLEAN]]
      /\ tempFile \in [Run -> 0 .. 2] /\ cookies \in 0 .. 2 /\ removed \in BOOLEAN
  BY DEF SignTypeOK
<1>3. NoRun \in [at : {"none", "secret", "file", "args", "working"}, read : 0 .. 2, after : BOOLEAN]
      /\ NoRun.at = "none" /\ ~NoRun.after
  BY DEF NoRun, NoCookies
<1>4. program = "up"
  BY <1>3 DEF SignTypeOK, Preparing, ReadMode, ReadCookies, CreateTempCookieFile, BuildArgs, RunEnds, Unlocked
<1>5. CASE ReadMode(r)
  <2> DEFINE begun == [NoRun EXCEPT !.at = IF EffectiveMode = "cookie_file" THEN "secret" ELSE "args",
                                    !.after = removed]
  <2>1. run' = [run EXCEPT ![r] = begun] /\ tempFile' = tempFile /\ run[r] = NoRun
    BY <1>5 DEF ReadMode
  <2>2. /\ begun \in [at : {"none", "secret", "file", "args", "working"}, read : 0 .. 2, after : BOOLEAN]
        /\ begun.after = removed /\ (EffectiveMode # "cookie_file" => begun.at = "args")
    BY <1>2, <1>3
  <2>3. removed => EffectiveMode # "cookie_file"
    BY DEF DeletedIsGone, EffectiveMode
  <2>4. tempFile[r] = NoCookies
    BY <1>3, <1>4, <2>1 DEF FileHasRun
  <2> HIDE DEF begun
  <2> QED BY <1>1, <1>2, <1>4, <2>1, <2>2, <2>3, <2>4 DEF SignTypeOK, FileHasRun, DeletedIsGone, LateRunHasNone
<1>6. CASE ReadCookies(r)
  <2>1. tempFile' = tempFile /\ run[r].at = "secret"
    BY <1>6 DEF ReadCookies
  <2>2. tempFile[r] = NoCookies /\ ~run[r].after
    BY <1>2, <1>4, <2>1 DEF FileHasRun, LateRunHasNone
  <2>3. /\ run' \in [Run -> [at : {"none", "secret", "file", "args", "working"}, read : 0 .. 2, after : BOOLEAN]]
        /\ ~run'[r].after /\ \A q \in Run : q # r => run'[q] = run[q]
    BY <1>2, <1>3, <1>6, <2>2 DEF ReadCookies, Over
  <2> QED BY <1>1, <1>4, <2>1, <2>2, <2>3 DEF SignTypeOK, FileHasRun, DeletedIsGone, LateRunHasNone
<1>7. CASE CreateTempCookieFile(r)
  <2>1. run[r].at = "file" /\ tempFile[r] = NoCookies /\ ~run[r].after
    BY <1>2, <1>4, <1>7 DEF CreateTempCookieFile, FileHasRun, LateRunHasNone
  <2>2. /\ run' \in [Run -> [at : {"none", "secret", "file", "args", "working"}, read : 0 .. 2, after : BOOLEAN]]
        /\ tempFile' \in [Run -> 0 .. 2]
        /\ ~run'[r].after /\ \A q \in Run : q # r => run'[q] = run[q] /\ tempFile'[q] = tempFile[q]
        /\ tempFile'[r] # NoCookies => run'[r].at = "args"
    BY <1>2, <1>3, <1>7, <2>1 DEF CreateTempCookieFile, Over, RunAt
  <2> QED BY <1>1, <1>4, <2>1, <2>2 DEF SignTypeOK, FileHasRun, DeletedIsGone, LateRunHasNone
<1>8. CASE BuildArgs(r) \/ RunEnds(r)
  <2>1. /\ run' \in [Run -> [at : {"none", "secret", "file", "args", "working"}, read : 0 .. 2, after : BOOLEAN]]
        /\ tempFile' \in [Run -> 0 .. 2]
        /\ \A q \in Run : q # r => run'[q] = run[q] /\ tempFile'[q] = tempFile[q]
        /\ \/ run'[r].at = "working" /\ run'[r].after = run[r].after /\ tempFile'[r] = tempFile[r]
           \/ ~run'[r].after /\ tempFile'[r] = NoCookies
    BY <1>2, <1>3, <1>8 DEF BuildArgs, RunEnds, RunAt, Over, Cleanup, NoCookies
  <2> QED BY <1>1, <1>2, <1>4, <2>1 DEF SignTypeOK, FileHasRun, DeletedIsGone, LateRunHasNone
<1> QED BY <1>5, <1>6, <1>7, <1>8 DEF Preparing

LEMMA SignInvStep ==
    ASSUME SignInv, [SignNext]_signVars
    PROVE  SignInv'
<1>1. CASE UNCHANGED signVars
  BY <1>1 DEF SignInv, signVars, SignTypeOK, FileHasRun, DeletedIsGone, LateRunHasNone
<1>2. CASE Killed \/ Launches \/ CleanupStaleTempFiles
  <2>1. UNCHANGED <<mode, cookies, removed>>
    BY <1>2 DEF Killed, Launches, CleanupStaleTempFiles, SettingsStay
  <2>2. SignTypeOK'
    <3>1. /\ program' \in {"up", "cleaning", "down"} /\ order' \in {"none", "reset_mode"}
          /\ tempFile' \in [Run -> 0 .. 2]
          /\ run' = run \/ run' = [r \in Run |-> NoRun]
          /\ program' = "up" \/ (order' = "none" /\ \A r \in Run : run'[r] = NoRun)
      BY <1>2 DEF SignInv, SignTypeOK, Killed, Launches, CleanupStaleTempFiles, SettingsStay, NoCookies
    <3>2. NoRun \in [at : {"none", "secret", "file", "args", "working"}, read : 0 .. 2, after : BOOLEAN]
      BY DEF NoRun, NoCookies
    <3> QED BY <2>1, <3>1, <3>2 DEF SignInv, SignTypeOK
  <2>3. FileHasRun' /\ DeletedIsGone' /\ LateRunHasNone'
    BY <1>2, <2>1 DEF SignInv, SignTypeOK, FileHasRun, DeletedIsGone, LateRunHasNone, Killed, Launches,
                      CleanupStaleTempFiles, SettingsStay, NoRun, NoCookies
  <2> QED BY <2>2, <2>3 DEF SignInv
<1> QED BY <1>1, <1>2, RequestsKeepSignInv, RunsKeepSignInv DEF SignNext

\* The requests of mediaauth's service and the runs of yt-dlp keep the invariant, and
\* so do a kill and the next start.
THEOREM SignInvariant == SignSpec => []SignInv
<1>1. SignInit => SignInv
  BY SignInvInit
<1>2. SignInv /\ [SignNext]_signVars => SignInv'
  BY SignInvStep
<1> QED BY <1>1, <1>2, PTL DEF SignSpec

\* While the program serves, a file with cookies belongs to a run that goes on, and
\* a run that began after the cookies were deleted never has one.
THEOREM CookiesAreSafe == SignSpec => []CookiesAreGuarded
<1>1. SignInv => CookiesAreGuarded
  BY DEF SignInv, CookiesAreGuarded, LateRunHasNone, DeletedCookiesStayOut
<1> QED BY <1>1, SignInvariant, PTL

-------------------------------------------------------------------------------
(***************************************************************************)
(* The tools.  A start may be far from over, so the invariant says of a    *)
(* tool that was resolved what holds when all were: the best place among   *)
(* those the user left alone.  Of the probing under way it says that the   *)
(* places passed had nothing that works, or have been changed since.       *)
(***************************************************************************)
USE ToolAssumptions

Spot == {"managed", "configured", "path", "endpoint"}
Versions == Broken .. MaxVersion
Infos == [status : {"unknown", "missing", "active", "unreachable"}, place : Spot \cup {"none"}, version : Versions]
LedgerRows == {r \in Infos : r.status \in {"active", "unreachable"}}
Tasks == [tool : Tool, what : {"revalidate", "resolve"}]
OneRowEach(s) == \A i, j \in DOMAIN s : s[i].version = s[j].version => i = j

\* What was found of tool t is the best there is, but for what the user changed.
BestOf(t, info) ==
    \A i \in DOMAIN Precedence(t) :
        LET p == Precedence(t)[i] IN
        p \notin changed[t] =>
            /\ info.status = "active" /\ info.place = p => installed[t][p] = info.version
            /\ (info.status # "active" \/ \E j \in DOMAIN Precedence(t) : j > i /\ info.place = Precedence(t)[j])
                  => installed[t][p] \notin Working

\* The fields are typed; the ledger has one row for a version.
ToolFields ==
    /\ DOMAIN installed = Tool /\ \A t \in Tool : installed[t] \in [Places(t) -> Absent .. MaxVersion]
    /\ DOMAIN changed = Tool /\ \A t \in Tool : changed[t] \subseteq Places(t)
    /\ ledger \in [Tool -> Seq(LedgerRows)] /\ \A t \in Tool : OneRowEach(ledger[t])
    /\ known \in [Tool -> Infos]
    /\ todo \in Seq(Tasks)
    /\ budget \in [changes : Nat, failures : 0 .. MaxFailures, launches : Nat, up : BOOLEAN]

\* The next place to be probed is one of the tool's.
ProbingFits ==
    /\ probing \in Nat /\ 1 <= probing
    /\ Resolving => probing <= Len(Precedence(Doing))
    /\ ~Resolving => probing = 1

\* What is not known yet is going to be resolved.
Pending ==
    \A t \in Tool : known[t].status = "unknown" /\ budget.up
        => \E i \in DOMAIN todo : todo[i] = [tool |-> t, what |-> "resolve"]

\* The places that were passed had nothing that works.
PassedInVain ==
    Resolving => \A j \in DOMAIN Precedence(Doing) :
        j < probing => LET p == Precedence(Doing)[j] IN p \in changed[Doing] \/ installed[Doing][p] \notin Working

\* What is known is the best.
ResolvedWell == \A t \in Tool : known[t].status # "unknown" => BestOf(t, known[t])

\* The ledger's row is that of the tool found, also in the middle of a start.
LedgerNames ==
    budget.failures = MaxFailures => \A t \in Tool : known[t].status = "active" => ActiveRow(t) = known[t]

ToolInv == ToolFields /\ ProbingFits /\ Pending /\ PassedInVain /\ ResolvedWell /\ LedgerNames

LEMMA PrecedenceIs ==
    ASSUME NEW t \in Tool
    PROVE  /\ Len(Precedence(t)) \in 1 .. 3 /\ DOMAIN Precedence(t) = 1 .. Len(Precedence(t))
           /\ \A i \in DOMAIN Precedence(t) : Precedence(t)[i] \in Spot /\ Precedence(t)[i] \in Places(t)
           /\ \A i, j \in DOMAIN Precedence(t) : Precedence(t)[i] = Precedence(t)[j] => i = j
           /\ t \in Services => Len(Precedence(t)) = 1 /\ Precedence(t)[1] = "endpoint"
<1> DEFINE s == Precedence(t)
<1>1. \A i \in DOMAIN s : s[i] \in Places(t)
  BY DEF Places, ToSet
<1>2. CASE t = "ytdlp"
  <2>1. s = <<"managed", "configured", "path">>
    BY <1>2 DEF Precedence
  <2> HIDE DEF s
  <2>2. Len(s) = 3 /\ DOMAIN s = 1 .. 3 /\ s[1] = "managed" /\ s[2] = "configured" /\ s[3] = "path"
    BY <2>1
  <2>3. \A i \in 1 .. 3 : i = 1 \/ i = 2 \/ i = 3
    OBVIOUS
  <2>4. t \notin Services
    BY <1>2 DEF Services
  <2>5. \A i \in DOMAIN s : s[i] \in Spot
    BY <2>2, <2>3 DEF Spot
  <2>6. \A i, j \in DOMAIN s : s[i] = s[j] => i = j
    BY <2>2, <2>3
  <2> QED BY <1>1, <2>2, <2>4, <2>5, <2>6 DEF s
<1>3. CASE t = "ffmpeg"
  <2>1. s = <<"configured", "path">>
    BY <1>3 DEF Precedence
  <2> HIDE DEF s
  <2>2. Len(s) = 2 /\ DOMAIN s = 1 .. 2 /\ s[1] = "configured" /\ s[2] = "path"
    BY <2>1
  <2>3. \A i \in 1 .. 2 : i = 1 \/ i = 2
    OBVIOUS
  <2>4. t \notin Services
    BY <1>3 DEF Services
  <2>5. \A i \in DOMAIN s : s[i] \in Spot
    BY <2>2, <2>3 DEF Spot
  <2>6. \A i, j \in DOMAIN s : s[i] = s[j] => i = j
    BY <2>2, <2>3
  <2> QED BY <1>1, <2>2, <2>4, <2>5, <2>6 DEF s
<1>4. CASE t \notin {"ytdlp", "ffmpeg"}
  <2>1. s = <<"endpoint">>
    BY <1>4 DEF Precedence
  <2> HIDE DEF s
  <2>2. Len(s) = 1 /\ DOMAIN s = 1 .. 1 /\ s[1] = "endpoint"
    BY <2>1
  <2>3. \A i \in 1 .. 1 : i = 1
    OBVIOUS
  <2> QED BY <1>1, <2>2, <2>3 DEF s, Spot
<1> QED BY <1>2, <1>3, <1>4

LEMMA ToolShapes ==
    /\ Unknown \in Infos /\ Unknown.status = "unknown" /\ Missing \in Infos /\ Missing.status = "missing"
    /\ Unreachable \in LedgerRows /\ Unreachable.status = "unreachable" /\ Broken \in Versions
    /\ \A p \in Spot : \A v \in Versions :
           Active(p, v) \in LedgerRows /\ Active(p, v).status = "active" /\ Active(p, v).place = p /\ Active(p, v).version = v
<1>1. Broken \in Versions /\ MaxVersion \in Nat
  BY DEF Broken, Versions
<1>2. Unknown \in Infos /\ Unknown.status = "unknown" /\ Missing \in Infos /\ Missing.status = "missing"
  BY <1>1 DEF Unknown, Missing, Infos
<1>3. Unreachable \in LedgerRows /\ Unreachable.status = "unreachable"
  BY <1>1 DEF Unreachable, LedgerRows, Infos, Spot
<1>4. \A p \in Spot : \A v \in Versions :
           Active(p, v) \in LedgerRows /\ Active(p, v).status = "active" /\ Active(p, v).place = p /\ Active(p, v).version = v
  BY DEF Active, LedgerRows, Infos
<1> QED BY <1>1, <1>2, <1>3, <1>4

\* A sequence without one of its elements.
LEMMA WithoutOne ==
    ASSUME NEW R, NEW s \in Seq(R), NEW k \in 1 .. Len(s)
    PROVE  /\ RemoveAt(s, k) \in Seq(R)
           /\ Len(RemoveAt(s, k)) = Len(s) - 1
           /\ \A i \in 1 .. Len(s) - 1 : RemoveAt(s, k)[i] = IF i < k THEN s[i] ELSE s[i + 1]
<1> DEFINE front == SubSeq(s, 1, k - 1)
           back == SubSeq(s, k + 1, Len(s))
<1>1. Len(s) \in Nat /\ \A i \in 1 .. Len(s) : s[i] \in R
  BY LenProperties, ElementOfSeq
<1>2. k \in Nat /\ k >= 1 /\ k <= Len(s) /\ k - 1 \in Int /\ k + 1 \in Int
  BY <1>1
<1>3. /\ front \in Seq(R) /\ Len(front) = k - 1
      /\ \A i \in 1 .. k - 1 : front[i] = s[i]
  <2>1. \A i \in 1 .. k - 1 : s[i] \in R
    BY <1>1, <1>2
  <2>2. /\ front \in Seq(R) /\ Len(front) = IF 1 <= k - 1 THEN (k - 1) - 1 + 1 ELSE 0
        /\ \A i \in 1 .. (k - 1) - 1 + 1 : front[i] = s[1 + i - 1]
    BY <1>2, <2>1, SubSeqProperties
  <2> HIDE DEF front
  <2>3. Len(front) = k - 1
    BY <1>2, <2>2
  <2>4. ASSUME NEW i \in 1 .. k - 1
        PROVE  front[i] = s[i]
    <3>1. i \in 1 .. (k - 1) - 1 + 1 /\ 1 + i - 1 = i
      BY <1>2, <2>4
    <3> QED BY <2>2, <3>1
  <2> QED BY <2>2, <2>3, <2>4
<1>4. /\ back \in Seq(R) /\ Len(back) = Len(s) - k
      /\ \A i \in 1 .. Len(s) - k : back[i] = s[k + i]
  <2>1. \A i \in k + 1 .. Len(s) : s[i] \in R
    BY <1>1, <1>2
  <2>2. /\ back \in Seq(R) /\ Len(back) = IF k + 1 <= Len(s) THEN Len(s) - (k + 1) + 1 ELSE 0
        /\ \A i \in 1 .. Len(s) - (k + 1) + 1 : back[i] = s[k + 1 + i - 1]
    BY <1>1, <1>2, <2>1, SubSeqProperties
  <2> HIDE DEF back
  <2>3. Len(back) = Len(s) - k
    BY <1>1, <1>2, <2>2
  <2>4. ASSUME NEW i \in 1 .. Len(s) - k
        PROVE  back[i] = s[k + i]
    <3>1. i \in 1 .. Len(s) - (k + 1) + 1 /\ k + 1 + i - 1 = k + i
      BY <1>1, <1>2, <2>4
    <3> QED BY <2>2, <3>1
  <2> QED BY <2>2, <2>3, <2>4
<1>5. RemoveAt(s, k) = front \o back
  BY DEF RemoveAt
<1> HIDE DEF front, back
<1>6. /\ RemoveAt(s, k) \in Seq(R) /\ Len(RemoveAt(s, k)) = Len(front) + Len(back)
      /\ \A i \in 1 .. Len(front) + Len(back) :
            RemoveAt(s, k)[i] = IF i <= Len(front) THEN front[i] ELSE back[i - Len(front)]
  <2> DEFINE r == front \o back
  <2>1. /\ r \in Seq(R) /\ Len(r) = Len(front) + Len(back)
        /\ \A i \in 1 .. Len(front) + Len(back) : r[i] = IF i <= Len(front) THEN front[i] ELSE back[i - Len(front)]
    BY <1>3, <1>4, ConcatProperties
  <2>2. RemoveAt(s, k) = r
    BY <1>5
  <2> HIDE DEF r
  <2> QED BY <2>1, <2>2
<1>7. Len(front) + Len(back) = Len(s) - 1
  BY <1>1, <1>2, <1>3, <1>4
<1>8. ASSUME NEW i \in 1 .. Len(s) - 1
      PROVE  RemoveAt(s, k)[i] = IF i < k THEN s[i] ELSE s[i + 1]
  <2>0. i \in Nat /\ i >= 1 /\ i <= Len(s) - 1
    BY <1>1
  <2>1. CASE i < k
    <3>1. i \in 1 .. k - 1 /\ i <= Len(front) /\ i \in 1 .. Len(front) + Len(back)
      BY <1>1, <1>2, <1>3, <1>7, <2>0, <2>1
    <3> QED BY <1>3, <1>6, <2>1, <3>1
  <2>2. CASE ~(i < k)
    <3> DEFINE n == Len(s)
               f == Len(front)
    <3>1. n \in Nat /\ f = k - 1 /\ i >= k
      BY <1>1, <1>2, <1>3, <2>0, <2>2
    <3>2. i \in 1 .. f + Len(back)
      BY <1>7
    <3> HIDE DEF n, f
    <3>3. ~(i <= f)
      BY <1>2, <2>0, <3>1
    <3>4. i - f = i + 1 - k /\ i + 1 <= n
      BY <1>2, <2>0, <3>1 DEF n
    <3>5. i - f \in 1 .. n - k
      BY <1>2, <2>0, <3>1, <3>4
    <3>6. k + (i - f) = i + 1
      BY <1>2, <2>0, <3>4
    <3>7. RemoveAt(s, k)[i] = back[i - f]
      BY <1>6, <3>2, <3>3 DEF f
    <3>8. back[i - f] = s[k + (i - f)]
      BY <1>4, <3>5 DEF n
    <3> QED BY <2>2, <3>6, <3>7, <3>8
  <2> QED BY <2>1, <2>2
<1> QED BY <1>6, <1>7, <1>8

\* SaveToolRecord: the row of the version is the last one, and the only one.
LEMMA UpsertIs ==
    ASSUME ToolInv, NEW t \in Tool, NEW info \in LedgerRows
    PROVE  /\ Upsert(t, info) \in Seq(LedgerRows) /\ OneRowEach(Upsert(t, info))
           /\ Len(Upsert(t, info)) \in Nat \ {0} /\ Upsert(t, info)[Len(Upsert(t, info))] = info
<1> DEFINE s == ledger[t]
           same == {i \in DOMAIN s : s[i].version = info.version}
           others == IF same = {} THEN s ELSE RemoveAt(s, CHOOSE i \in same : TRUE)
           u == Append(others, info)
<1>1. s \in Seq(LedgerRows) /\ OneRowEach(s)
  BY DEF ToolInv, ToolFields
<1>2. Len(s) \in Nat /\ DOMAIN s = 1 .. Len(s)
  BY <1>1, LenProperties
<1>3. /\ others \in Seq(LedgerRows) /\ OneRowEach(others)
      /\ \A i \in DOMAIN others : others[i].version # info.version
  <2>1. CASE same = {}
    BY <1>1, <2>1
  <2>2. CASE same # {}
    <3> DEFINE k == CHOOSE i \in same : TRUE
    <3>1. k \in 1 .. Len(s) /\ s[k].version = info.version
      BY <1>2, <2>2
    <3>2. others = RemoveAt(s, k)
      BY <2>2
    <3> HIDE DEF k, others, same
    <3>3. /\ others \in Seq(LedgerRows) /\ Len(others) = Len(s) - 1
          /\ \A i \in 1 .. Len(s) - 1 : others[i] = IF i < k THEN s[i] ELSE s[i + 1]
      BY <1>1, <3>1, <3>2, WithoutOne
    <3>4. DOMAIN others = 1 .. Len(s) - 1
      BY <3>3, LenProperties
    <3> DEFINE old(i) == IF i < k THEN i ELSE i + 1
    <3>5. ASSUME NEW i \in DOMAIN others
          PROVE  old(i) \in DOMAIN s /\ old(i) # k /\ others[i] = s[old(i)]
      <4>1. i \in Nat /\ i >= 1 /\ i <= Len(s) - 1 /\ k \in Nat
        BY <1>2, <3>1, <3>4
      <4>2. old(i) \in 1 .. Len(s) /\ old(i) # k
        BY <1>2, <4>1
      <4> QED BY <1>2, <3>3, <3>4, <4>2
    <3>6. ASSUME NEW i \in DOMAIN others, NEW j \in DOMAIN others, old(i) = old(j)
          PROVE  i = j
      <4>1. i \in Nat /\ j \in Nat /\ k \in Nat
        BY <1>2, <3>1, <3>4
      <4> QED BY <3>6, <4>1
    <3> HIDE DEF old
    <3>7. OneRowEach(others)
      BY <1>1, <3>5, <3>6 DEF OneRowEach
    <3>8. \A i \in DOMAIN others : others[i].version # info.version
      BY <1>1, <1>2, <3>1, <3>5 DEF OneRowEach
    <3> QED BY <3>3, <3>7, <3>8
  <2> QED BY <2>1, <2>2
<1>4. Upsert(t, info) = u
  BY DEF Upsert
<1> HIDE DEF others
<1>5. Len(others) \in Nat /\ DOMAIN others = 1 .. Len(others)
  BY <1>3, LenProperties
<1>6. /\ u \in Seq(LedgerRows) /\ Len(u) = Len(others) + 1
      /\ \A i \in 1 .. Len(others) : u[i] = others[i]
      /\ u[Len(others) + 1] = info
  BY <1>3, <1>5, AppendProperties
<1> HIDE DEF u
<1>7. DOMAIN u = 1 .. Len(others) + 1
  BY <1>6, LenProperties
<1>8. OneRowEach(u)
  <2>1. ASSUME NEW i \in DOMAIN u, NEW j \in DOMAIN u, u[i].version = u[j].version
        PROVE  i = j
    <3>1. (i \in 1 .. Len(others) \/ i = Len(others) + 1) /\ (j \in 1 .. Len(others) \/ j = Len(others) + 1)
      BY <1>5, <1>7
    <3>2. CASE i \in 1 .. Len(others) /\ j \in 1 .. Len(others)
      BY <1>3, <1>5, <1>6, <2>1, <3>2 DEF OneRowEach
    <3>3. CASE i = Len(others) + 1 /\ j = Len(others) + 1
      BY <3>3
    <3>4. CASE i \in 1 .. Len(others) /\ j = Len(others) + 1
      BY <1>3, <1>5, <1>6, <2>1, <3>4
    <3>5. CASE i = Len(others) + 1 /\ j \in 1 .. Len(others)
      BY <1>3, <1>5, <1>6, <2>1, <3>5
    <3> QED BY <3>1, <3>2, <3>3, <3>4, <3>5
  <2> QED BY <2>1 DEF OneRowEach
<1> QED BY <1>4, <1>5, <1>6, <1>8

LEMMA LastIsFound ==
    ASSUME NEW s \in Seq(LedgerRows), Len(s) \in Nat \ {0}, s[Len(s)].status = "active"
    PROVE  LET A == {i \in DOMAIN s : s[i].status = "active"} IN A # {} /\ Max(A) = Len(s)
<1> DEFINE A == {i \in DOMAIN s : s[i].status = "active"}
<1>1. DOMAIN s = 1 .. Len(s)
  BY LenProperties
<1>2. Len(s) \in A /\ \A i \in A : i \in Nat /\ i <= Len(s)
  BY <1>1
<1> HIDE DEF A
<1>3. \A y \in A : Len(s) >= y
  BY <1>2
<1>4. Max(A) \in A /\ \A y \in A : Max(A) >= y
  BY <1>2, <1>3 DEF Max
<1>5. Max(A) = Len(s)
  <2>1. Max(A) >= Len(s) /\ Max(A) <= Len(s) /\ Max(A) \in Nat
    BY <1>2, <1>4
  <2> QED BY <2>1
<1> QED BY <1>2, <1>5 DEF A

LEMMA ToolInvInit ==
    ASSUME ToolInit
    PROVE  ToolInv
<1>1. /\ installed = [t \in Tool |-> [p \in Places(t) |-> Absent]] /\ changed = [t \in Tool |-> {}]
      /\ ledger = [t \in Tool |-> <<>>] /\ known = [t \in Tool |-> Unknown] /\ todo = <<>> /\ probing = 1
      /\ budget = [changes |-> MaxChanges, failures |-> MaxFailures, launches |-> MaxLaunches, up |-> FALSE]
  BY DEF ToolInit
<1>2. ToolFields
  <2>1. Absent \in Absent .. MaxVersion
    BY DEF Absent
  <2>2. DOMAIN installed = Tool /\ \A t \in Tool : installed[t] \in [Places(t) -> Absent .. MaxVersion]
    BY <1>1, <2>1
  <2>3. DOMAIN changed = Tool /\ \A t \in Tool : changed[t] \subseteq Places(t)
    BY <1>1
  <2>4. ledger \in [Tool -> Seq(LedgerRows)] /\ \A t \in Tool : OneRowEach(ledger[t])
    <3>1. <<>> \in Seq(LedgerRows) /\ OneRowEach(<<>>)
      BY EmptySeq DEF OneRowEach
    <3> QED BY <1>1, <3>1
  <2>5. known \in [Tool -> Infos]
    BY <1>1, ToolShapes
  <2>6. todo \in Seq(Tasks)
    BY <1>1, EmptySeq
  <2>7. budget \in [changes : Nat, failures : 0 .. MaxFailures, launches : Nat, up : BOOLEAN]
    BY <1>1
  <2> QED BY <2>2, <2>3, <2>4, <2>5, <2>6, <2>7 DEF ToolFields
<1>3. ~Resolving /\ ~budget.up /\ \A t \in Tool : known[t].status = "unknown"
  BY <1>1, ToolShapes DEF Resolving
<1>4. ProbingFits /\ Pending /\ PassedInVain /\ ResolvedWell /\ LedgerNames
  BY <1>1, <1>3 DEF ProbingFits, Pending, PassedInVain, ResolvedWell, LedgerNames
<1> QED BY <1>2, <1>4 DEF ToolInv

\* The rest of a list of things to do.
LEMMA TodoMovesOn ==
    ASSUME ToolInv, todo # <<>>
    PROVE  /\ todo[1] \in Tasks /\ Doing \in Tool /\ Tail(todo) \in Seq(Tasks)
           /\ Len(todo) \in Nat \ {0} /\ DOMAIN todo = 1 .. Len(todo) /\ DOMAIN Tail(todo) = 1 .. Len(todo) - 1
           /\ \A i \in DOMAIN todo : i # 1 => i - 1 \in DOMAIN Tail(todo) /\ Tail(todo)[i - 1] = todo[i]
<1>1. todo \in Seq(Tasks)
  BY DEF ToolInv, ToolFields
<1>2. Len(todo) \in Nat \ {0} /\ DOMAIN todo = 1 .. Len(todo)
  BY <1>1, EmptySeq, LenProperties
<1>3. /\ Tail(todo) \in Seq(Tasks) /\ Len(Tail(todo)) = Len(todo) - 1
      /\ \A i \in 1 .. Len(Tail(todo)) : Tail(todo)[i] = todo[i + 1]
  BY <1>1, HeadTailProperties
<1>4. DOMAIN Tail(todo) = 1 .. Len(todo) - 1
  BY <1>3, LenProperties
<1>5. todo[1] \in Tasks
  BY <1>1, <1>2, ElementOfSeq
<1>6. ASSUME NEW i \in DOMAIN todo, i # 1
      PROVE  i - 1 \in DOMAIN Tail(todo) /\ Tail(todo)[i - 1] = todo[i]
  <2>1. i - 1 \in 1 .. Len(todo) - 1 /\ (i - 1) + 1 = i
    BY <1>2, <1>6
  <2> QED BY <1>3, <1>4, <2>1
<1> QED BY <1>2, <1>3, <1>4, <1>5, <1>6 DEF Doing, Tasks

\* A tool that is resolved leaves the list, in memory and perhaps in the ledger.
LEMMA RecordStep ==
    ASSUME ToolInv, Resolving, NEW t \in Tool, Doing = t, NEW info \in Infos, info.status # "unknown",
           info.status # "missing" => info \in LedgerRows,
           RecordTool(t, info), GoesOn, BestOf(t, info)
    PROVE  ToolInv'
<1>0. /\ ToolFields /\ Pending /\ ResolvedWell /\ LedgerNames
      /\ ledger \in [Tool -> Seq(LedgerRows)] /\ \A u \in Tool : OneRowEach(ledger[u])
      /\ known \in [Tool -> Infos] /\ budget \in [changes : Nat, failures : 0 .. MaxFailures, launches : Nat, up : BOOLEAN]
  BY DEF ToolInv, ToolFields
<1>1. todo # <<>> /\ todo[1].what = "resolve" /\ todo[1].tool = t
  BY DEF Resolving, Doing
<1>2. installed' = installed /\ changed' = changed /\ known' = [known EXCEPT ![t] = info]
      /\ todo' = Tail(todo) /\ probing' = 1
  BY DEF RecordTool, GoesOn
<1>3. known' \in [Tool -> Infos] /\ known'[t] = info /\ \A u \in Tool : u # t => known'[u] = known[u]
  BY <1>0, <1>2
<1>4. /\ todo' \in Seq(Tasks)
      /\ \A i \in DOMAIN todo : i # 1 => i - 1 \in DOMAIN todo' /\ todo'[i - 1] = todo[i]
  BY <1>1, <1>2, TodoMovesOn
<1>5. /\ ledger' \in [Tool -> Seq(LedgerRows)] /\ (\A u \in Tool : OneRowEach(ledger'[u]))
      /\ budget' \in [changes : Nat, failures : 0 .. MaxFailures, launches : Nat, up : BOOLEAN]
      /\ budget'.up = budget.up
      /\ \A u \in Tool : u # t => ledger'[u] = ledger[u]
      /\ budget'.failures = MaxFailures =>
             budget.failures = MaxFailures /\ (info.status = "missing" \/ ledger'[t] = Upsert(t, info))
  <2>1. CASE info.status # "missing" /\ ledger' = [ledger EXCEPT ![t] = Upsert(t, info)] /\ UNCHANGED budget
    <3>1. Upsert(t, info) \in Seq(LedgerRows) /\ OneRowEach(Upsert(t, info))
      BY <2>1, UpsertIs
    <3>2. ledger'[t] = Upsert(t, info) /\ \A u \in Tool : u # t => ledger'[u] = ledger[u]
      BY <1>0, <2>1
    <3>3. ledger' \in [Tool -> Seq(LedgerRows)]
      BY <1>0, <2>1, <3>1
    <3>4. \A u \in Tool : OneRowEach(ledger'[u])
      BY <1>0, <3>1, <3>2
    <3> QED BY <1>0, <2>1, <3>2, <3>3, <3>4
  <2>2. CASE info.status = "missing" /\ ledger' = ledger /\ UNCHANGED budget
    BY <1>0, <2>2
  <2>3. CASE budget.failures > 0 /\ budget' = [budget EXCEPT !.failures = budget.failures - 1] /\ UNCHANGED ledger
    <3>1. budget.failures \in Nat /\ budget.failures <= MaxFailures /\ MaxFailures \in Nat
      BY <1>0
    <3>2. budget.failures - 1 \in 0 .. MaxFailures /\ budget.failures - 1 # MaxFailures
      BY <2>3, <3>1
    <3>3. /\ budget' \in [changes : Nat, failures : 0 .. MaxFailures, launches : Nat, up : BOOLEAN]
          /\ budget'.up = budget.up /\ budget'.failures = budget.failures - 1
      BY <1>0, <2>3, <3>2
    <3> QED BY <1>0, <2>3, <3>2, <3>3
  <2> QED BY <2>1, <2>2, <2>3 DEF RecordTool
<1>6. ToolFields'
  <2>1. (\A u \in Tool : OneRowEach(ledger[u]))'
    BY <1>5 DEF OneRowEach
  <2> QED BY <1>0, <1>2, <1>3, <1>4, <1>5, <2>1 DEF ToolFields, Infos, LedgerRows, Versions, Spot, Tasks
<1>7. ProbingFits' /\ PassedInVain'
  <2>1. ASSUME Resolving'
        PROVE  Doing' \in Tool
    <3>1. todo' # <<>>
      BY <2>1 DEF Resolving
    <3>2. 1 \in 1 .. Len(todo')
      BY <1>4, <3>1, EmptySeq
    <3>3. todo'[1] \in Tasks
      BY <1>4, <3>2, ElementOfSeq
    <3> QED BY <3>3 DEF Tasks, Doing
  <2>2. ASSUME Resolving'
        PROVE  1 <= Len(Precedence(Doing')) /\ \A j \in DOMAIN Precedence(Doing') : ~(j < 1)
    <3> DEFINE u == Doing'
    <3>1. u \in Tool
      BY <2>1, <2>2
    <3> HIDE DEF u
    <3>2. Len(Precedence(u)) \in 1 .. 3 /\ DOMAIN Precedence(u) = 1 .. Len(Precedence(u))
      BY <3>1, PrecedenceIs
    <3>3. 1 <= Len(Precedence(u)) /\ \A j \in DOMAIN Precedence(u) : ~(j < 1)
      BY <3>2
    <3> QED BY <3>3 DEF u
  <2>3. ProbingFits'
    BY <1>2, <2>2 DEF ProbingFits, Precedence
  <2>4. PassedInVain'
    BY <1>2, <2>2 DEF PassedInVain, Precedence
  <2> QED BY <2>3, <2>4
<1>8. Pending'
  <2>1. SUFFICES ASSUME NEW u \in Tool, known'[u].status = "unknown", budget'.up
                 PROVE  \E i \in DOMAIN todo' : todo'[i] = [tool |-> u, what |-> "resolve"]
    BY DEF Pending
  <2>2. u # t /\ known[u].status = "unknown" /\ budget.up
    BY <1>3, <1>5, <2>1
  <2>3. PICK i \in DOMAIN todo : todo[i] = [tool |-> u, what |-> "resolve"]
    BY <1>0, <2>2 DEF Pending
  <2>4. i # 1
    BY <1>1, <2>2, <2>3
  <2> QED BY <1>4, <2>3, <2>4
<1>9. ResolvedWell'
  <2>1. \A u \in Tool : known'[u].status # "unknown" => BestOf(u, known'[u])
    BY <1>0, <1>3 DEF ResolvedWell
  <2> QED BY <1>2, <2>1 DEF ResolvedWell, BestOf, Precedence, Working
<1>10. LedgerNames'
  <2>1. SUFFICES ASSUME budget'.failures = MaxFailures, NEW u \in Tool, known'[u].status = "active"
                 PROVE  ActiveRow(u)' = known'[u]
    BY DEF LedgerNames
  <2>2. CASE u # t
    <3>1. ledger'[u] = ledger[u] /\ known'[u] = known[u] /\ ActiveRow(u) = known[u]
      BY <1>0, <1>3, <1>5, <2>1, <2>2 DEF LedgerNames
    <3> QED BY <3>1 DEF ActiveRow, ActiveRows, Missing, Unknown, Broken
  <2>3. CASE u = t
    <3> DEFINE s == Upsert(t, info)
    <3>1. info.status = "active" /\ ledger'[t] = s
      BY <1>3, <1>5, <2>1, <2>3
    <3>2. s \in Seq(LedgerRows) /\ Len(s) \in Nat \ {0} /\ s[Len(s)] = info
      BY <3>1, UpsertIs
    <3> HIDE DEF s
    <3>3. ActiveRows(t)' = {i \in DOMAIN s : s[i].status = "active"}
      BY <3>1 DEF ActiveRows
    <3>4. ActiveRows(t)' # {} /\ Max(ActiveRows(t)') = Len(s)
      BY <3>1, <3>2, <3>3, LastIsFound
    <3>5. ActiveRow(t)' = info
      BY <3>1, <3>2, <3>4 DEF ActiveRow, Max
    <3> QED BY <1>3, <2>3, <3>5
  <2> QED BY <2>2, <2>3
<1> QED BY <1>6, <1>7, <1>8, <1>9, <1>10 DEF ToolInv

\* ResolvedWell asks nothing new when a place is changed: it counts no more.
LEMMA UserChangesStep ==
    ASSUME ToolInv, NEW t \in Tool, NEW p \in Places(t), NEW version \in Absent .. MaxVersion, UserChanges(t, p, version)
    PROVE  ToolInv'
<1>0. ToolFields /\ ProbingFits /\ Pending /\ PassedInVain /\ ResolvedWell /\ LedgerNames
  BY DEF ToolInv
<1>1. /\ installed' = [installed EXCEPT ![t] = [installed[t] EXCEPT ![p] = version]]
      /\ changed' = [changed EXCEPT ![t] = changed[t] \cup {p}]
      /\ budget.changes > 0 /\ budget' = [budget EXCEPT !.changes = budget.changes - 1]
      /\ UNCHANGED <<ledger, known, todo, probing>>
  BY DEF UserChanges
<1>2. /\ DOMAIN installed' = Tool /\ DOMAIN changed' = Tool
      /\ installed'[t] = [installed[t] EXCEPT ![p] = version] /\ changed'[t] = changed[t] \cup {p}
      /\ \A u \in Tool : u # t => installed'[u] = installed[u] /\ changed'[u] = changed[u]
  BY <1>0, <1>1 DEF ToolFields
<1>3. /\ installed'[t] \in [Places(t) -> Absent .. MaxVersion]
      /\ \A q \in Places(t) : q # p => installed'[t][q] = installed[t][q]
  BY <1>0, <1>2 DEF ToolFields
<1>4. \A u \in Tool : \A q \in Places(u) : q \in changed'[u] \/ (q \notin changed[u] /\ installed'[u][q] = installed[u][q])
  BY <1>2, <1>3
<1>4a. \A u \in Tool : \A q \in Places(u) : q \in changed[u] => q \in changed'[u]
  BY <1>2
<1>5. /\ budget' \in [changes : Nat, failures : 0 .. MaxFailures, launches : Nat, up : BOOLEAN]
      /\ budget'.failures = budget.failures /\ budget'.up = budget.up
  <2>1. budget \in [changes : Nat, failures : 0 .. MaxFailures, launches : Nat, up : BOOLEAN]
    BY <1>0 DEF ToolFields
  <2>2. budget.changes - 1 \in Nat
    BY <1>1, <2>1
  <2> QED BY <1>1, <2>1, <2>2
<1>6. ToolFields'
  <2>1. \A u \in Tool : installed'[u] \in [Places(u) -> Absent .. MaxVersion]
    BY <1>0, <1>2, <1>3 DEF ToolFields
  <2>2. \A u \in Tool : changed'[u] \subseteq Places(u)
    <3>1. \A u \in Tool : changed[u] \subseteq Places(u)
      BY <1>0 DEF ToolFields
    <3>2. changed'[t] \subseteq Places(t)
      BY <1>2, <3>1
    <3> QED BY <1>2, <3>1, <3>2
  <2>3. (\A u \in Tool : installed[u] \in [Places(u) -> Absent .. MaxVersion])'
    BY <2>1 DEF Places, Precedence, Absent
  <2>4. (\A u \in Tool : changed[u] \subseteq Places(u))'
    BY <2>2 DEF Places, Precedence
  <2>5. (\A u \in Tool : OneRowEach(ledger[u]))'
    BY <1>0, <1>1 DEF ToolFields, OneRowEach
  <2> QED BY <1>0, <1>1, <1>2, <1>5, <2>3, <2>4, <2>5 DEF ToolFields, Infos, LedgerRows, Versions, Spot, Tasks
<1>7. Resolving' <=> Resolving
  BY <1>1 DEF Resolving
<1>7a. Doing' = Doing /\ (Resolving => Doing \in Tool)
  BY <1>1, TodoMovesOn DEF Doing, Resolving
<1>8. ProbingFits' /\ Pending'
  BY <1>0, <1>1, <1>5, <1>7, <1>7a DEF ProbingFits, Pending, Precedence
<1>9. PassedInVain'
  <2>1. SUFFICES ASSUME Resolving, NEW j \in DOMAIN Precedence(Doing), j < probing
                 PROVE  LET q == Precedence(Doing)[j] IN q \in changed'[Doing] \/ installed'[Doing][q] \notin Working
    BY <1>1, <1>7, <1>7a DEF PassedInVain, Precedence, Working
  <2> DEFINE q == Precedence(Doing)[j]
  <2>2. Doing \in Tool /\ q \in Places(Doing)
    BY <1>7a, <2>1, PrecedenceIs
  <2>3. q \in changed[Doing] \/ installed[Doing][q] \notin Working
    BY <1>0, <2>1 DEF PassedInVain
  <2> HIDE DEF q
  <2>4. q \in changed'[Doing] \/ installed'[Doing][q] \notin Working
    BY <1>4, <1>4a, <2>2, <2>3
  <2> QED BY <2>4 DEF q
<1>10. ResolvedWell'
  <2>1. SUFFICES ASSUME NEW u \in Tool, known[u].status # "unknown", NEW i \in DOMAIN Precedence(u),
                        Precedence(u)[i] \notin changed'[u]
                 PROVE  LET q == Precedence(u)[i] IN
                        /\ known[u].status = "active" /\ known[u].place = q => installed'[u][q] = known[u].version
                        /\ (known[u].status # "active" \/ \E j \in DOMAIN Precedence(u) : j > i /\ known[u].place = Precedence(u)[j])
                              => installed'[u][q] \notin Working
    BY <1>1 DEF ResolvedWell, BestOf
  <2>2. Precedence(u)[i] \in Places(u)
    BY PrecedenceIs
  <2>3. Precedence(u)[i] \notin changed[u] /\ installed'[u][Precedence(u)[i]] = installed[u][Precedence(u)[i]]
    BY <1>4, <2>1, <2>2
  <2>4. BestOf(u, known[u])
    BY <1>0, <2>1 DEF ResolvedWell
  <2> QED BY <2>3, <2>4 DEF BestOf
<1>11. LedgerNames'
  <2>1. ASSUME NEW u \in Tool
        PROVE  ActiveRow(u)' = ActiveRow(u)
    BY <1>1 DEF ActiveRow, ActiveRows, Missing, Unknown, Broken
  <2> QED BY <1>0, <1>1, <1>5, <2>1 DEF LedgerNames
<1> QED BY <1>6, <1>8, <1>9, <1>10, <1>11 DEF ToolInv

LEMMA StartupIs ==
    /\ Startup \in Seq(Tasks) /\ Startup # <<>> /\ Startup[1].what = "revalidate"
    /\ \A t \in Tool : \E i \in DOMAIN Startup : Startup[i] = [tool |-> t, what |-> "resolve"]
<1> DEFINE names == <<"ytdlp", "ffmpeg", "aria2", "qbittorrent">>
           task(i) == IF i <= 4 THEN [tool |-> names[i], what |-> "revalidate"]
                                ELSE [tool |-> names[i - 4], what |-> "resolve"]
<1>1. names[1] = "ytdlp" /\ names[2] = "ffmpeg" /\ names[3] = "aria2" /\ names[4] = "qbittorrent"
  OBVIOUS
<1>2. Startup = [i \in 1 .. 8 |-> task(i)]
  BY DEF Startup
<1> HIDE DEF names
<1>3. \A k \in 1 .. 4 : names[k] \in Tool
  <2>1. \A k \in 1 .. 4 : k = 1 \/ k = 2 \/ k = 3 \/ k = 4
    OBVIOUS
  <2> QED BY <1>1, <2>1 DEF Tool, Executables, Services
<1>4. \A i \in 1 .. 8 : task(i) \in Tasks
  <2>1. SUFFICES ASSUME NEW i \in 1 .. 8
                 PROVE  task(i) \in Tasks
    OBVIOUS
  <2>2. CASE i <= 4
    <3>1. i \in 1 .. 4
      BY <2>2
    <3> QED BY <1>3, <2>2, <3>1 DEF Tasks
  <2>3. CASE ~(i <= 4)
    <3>1. i - 4 \in 1 .. 4
      BY <2>3
    <3> QED BY <1>3, <2>3, <3>1 DEF Tasks
  <2> QED BY <2>2, <2>3
<1>5. /\ task(1).what = "revalidate"
      /\ task(5) = [tool |-> "ytdlp", what |-> "resolve"] /\ task(6) = [tool |-> "ffmpeg", what |-> "resolve"]
      /\ task(7) = [tool |-> "aria2", what |-> "resolve"] /\ task(8) = [tool |-> "qbittorrent", what |-> "resolve"]
  BY <1>1
<1> HIDE DEF task
<1>6. [i \in 1 .. 8 |-> task(i)] \in Seq(Tasks)
  <2>1. [i \in 1 .. 8 |-> task(i)] \in [1 .. 8 -> Tasks]
    BY <1>4
  <2> QED BY <2>1
<1>7. DOMAIN Startup = 1 .. 8 /\ \A i \in 1 .. 8 : Startup[i] = task(i)
  BY <1>2
<1>8. \A t \in Tool : \E i \in DOMAIN Startup : Startup[i] = [tool |-> t, what |-> "resolve"]
  <2>1. SUFFICES ASSUME NEW t \in {"ytdlp", "ffmpeg", "aria2", "qbittorrent"}
                 PROVE  \E i \in 1 .. 8 : task(i) = [tool |-> t, what |-> "resolve"]
    BY <1>7 DEF Tool, Executables, Services
  <2>2. 5 \in 1 .. 8 /\ 6 \in 1 .. 8 /\ 7 \in 1 .. 8 /\ 8 \in 1 .. 8
    OBVIOUS
  <2> QED BY <1>5, <2>2
<1>9. Startup # <<>>
  <2>1. SUFFICES ASSUME Startup = <<>>
                 PROVE  FALSE
    OBVIOUS
  <2>2. Len(Startup) = 0 /\ DOMAIN Startup = 1 .. Len(Startup)
    BY <1>2, <1>6, <2>1, EmptySeq, LenProperties
  <2>3. 1 \in 1 .. 8 /\ 1 \notin 1 .. 0
    OBVIOUS
  <2> QED BY <1>7, <2>2, <2>3
<1> QED BY <1>2, <1>5, <1>6, <1>7, <1>8, <1>9

LEMMA LaunchProgramStep ==
    ASSUME ToolInv, LaunchProgram
    PROVE  ToolInv'
<1>0. ToolFields /\ LedgerNames
  BY DEF ToolInv
<1>1. /\ todo' = Startup /\ probing' = 1 /\ known' = [t \in Tool |-> Unknown] /\ changed' = [t \in Tool |-> {}]
      /\ budget.launches > 0 /\ budget' = [budget EXCEPT !.launches = budget.launches - 1, !.up = TRUE]
      /\ UNCHANGED <<installed, ledger>>
  BY DEF LaunchProgram
<1>2. /\ budget' \in [changes : Nat, failures : 0 .. MaxFailures, launches : Nat, up : BOOLEAN]
      /\ budget'.failures = budget.failures
  <2>1. budget \in [changes : Nat, failures : 0 .. MaxFailures, launches : Nat, up : BOOLEAN]
    BY <1>0 DEF ToolFields
  <2>2. budget.launches - 1 \in Nat
    BY <1>1, <2>1
  <2> QED BY <1>1, <2>1, <2>2
<1>3. \A t \in Tool : known'[t] = Unknown /\ changed'[t] = {}
  BY <1>1
<1>4. known' \in [Tool -> Infos] /\ \A t \in Tool : known'[t].status = "unknown"
  BY <1>1, ToolShapes
<1>5. ToolFields'
  <2>1. (\A u \in Tool : installed[u] \in [Places(u) -> Absent .. MaxVersion])'
    BY <1>0, <1>1 DEF ToolFields, Places, Precedence, Absent
  <2>2. (\A u \in Tool : changed[u] \subseteq Places(u))'
    BY <1>3 DEF Places, Precedence
  <2>3. (\A u \in Tool : OneRowEach(ledger[u]))'
    BY <1>0, <1>1 DEF ToolFields, OneRowEach
  <2>4. DOMAIN installed' = Tool /\ DOMAIN changed' = Tool
    BY <1>0, <1>1 DEF ToolFields
  <2>5. todo' \in Seq(Tasks)
    BY <1>1, StartupIs
  <2> QED BY <1>0, <1>1, <1>2, <1>4, <2>1, <2>2, <2>3, <2>4, <2>5 DEF ToolFields, Infos, LedgerRows, Versions, Spot, Tasks
<1>6. ~Resolving'
  BY <1>1, StartupIs DEF Resolving
<1>7. ProbingFits' /\ PassedInVain'
  BY <1>1, <1>6 DEF ProbingFits, PassedInVain
<1>8. Pending'
  BY <1>1, StartupIs DEF Pending
<1>9. ResolvedWell'
  BY <1>4 DEF ResolvedWell
<1>10. LedgerNames'
  BY <1>4 DEF LedgerNames
<1> QED BY <1>5, <1>7, <1>8, <1>9, <1>10 DEF ToolInv

LEMMA ResolvedStays ==
    ASSUME ResolvedWell, UNCHANGED <<installed, changed, known>>
    PROVE  ResolvedWell'
<1>1. \A u \in Tool : known'[u].status # "unknown" => BestOf(u, known'[u])
  BY DEF ResolvedWell
<1> QED BY <1>1 DEF ResolvedWell, BestOf, Precedence, Working

LEMMA RevalidateStep ==
    ASSUME ToolInv, Revalidate
    PROVE  ToolInv'
<1>0. ToolFields /\ ProbingFits /\ Pending /\ ResolvedWell /\ LedgerNames /\ todo \in Seq(Tasks)
  BY DEF ToolInv, ToolFields
<1>1. /\ todo # <<>> /\ todo[1].what = "revalidate" /\ UNCHANGED <<installed, changed, ledger, known, probing, budget>>
      /\ todo' = [todo EXCEPT ![1] = [todo[1] EXCEPT !.what = "resolve"]] \/ todo' = Tail(todo)
  BY DEF Revalidate
<1>2. probing = 1
  BY <1>0, <1>1 DEF ProbingFits, Resolving
<1>3. /\ Len(todo) \in Nat \ {0} /\ DOMAIN todo = 1 .. Len(todo) /\ todo[1] \in Tasks
  BY <1>1, TodoMovesOn
<1>4. [todo[1] EXCEPT !.what = "resolve"] \in Tasks
  BY <1>3 DEF Tasks
<1>5. /\ todo' \in Seq(Tasks)
      /\ \A i \in DOMAIN todo : i # 1 => \E j \in DOMAIN todo' : todo'[j] = todo[i]
  <2>1. CASE todo' = Tail(todo)
    BY <1>1, <2>1, TodoMovesOn
  <2>2. CASE todo' = [todo EXCEPT ![1] = [todo[1] EXCEPT !.what = "resolve"]]
    <3> DEFINE e == [todo[1] EXCEPT !.what = "resolve"]
    <3>1. 1 \in 1 .. Len(todo) /\ e \in Tasks
      BY <1>3, <1>4
    <3>2. todo' = [todo EXCEPT ![1] = e]
      BY <2>2
    <3> HIDE DEF e
    <3>3. todo' \in Seq(Tasks)
      BY <1>0, <3>1, <3>2, ExceptSeq
    <3>4. DOMAIN todo' = DOMAIN todo /\ \A i \in DOMAIN todo : i # 1 => todo'[i] = todo[i]
      BY <1>3, <3>2
    <3> QED BY <3>3, <3>4
  <2> QED BY <1>1, <2>1, <2>2
<1>6. Pending'
  <2>1. SUFFICES ASSUME NEW t \in Tool, known[t].status = "unknown", budget.up
                 PROVE  \E i \in DOMAIN todo' : todo'[i] = [tool |-> t, what |-> "resolve"]
    BY <1>1 DEF Pending
  <2>2. PICK i \in DOMAIN todo : todo[i] = [tool |-> t, what |-> "resolve"]
    BY <1>0, <2>1 DEF Pending
  <2>3. i # 1
    BY <1>1, <2>2
  <2> QED BY <1>5, <2>2, <2>3
<1>7. ASSUME Resolving'
      PROVE  1 <= Len(Precedence(Doing')) /\ \A j \in DOMAIN Precedence(Doing') : ~(j < 1)
  <2> DEFINE u == Doing'
  <2>1. u \in Tool
    <3>1. todo' # <<>>
      BY <1>7 DEF Resolving
    <3>2. 1 \in 1 .. Len(todo')
      BY <1>5, <3>1, EmptySeq
    <3>3. todo'[1] \in Tasks
      BY <1>5, <3>2, ElementOfSeq
    <3> QED BY <3>3 DEF Tasks, Doing
  <2> HIDE DEF u
  <2>2. Len(Precedence(u)) \in 1 .. 3 /\ DOMAIN Precedence(u) = 1 .. Len(Precedence(u))
    BY <2>1, PrecedenceIs
  <2>3. 1 <= Len(Precedence(u)) /\ \A j \in DOMAIN Precedence(u) : ~(j < 1)
    BY <2>2
  <2> QED BY <2>3 DEF u
<1>8. ProbingFits' /\ PassedInVain'
  <2>1. probing' = 1
    BY <1>1, <1>2
  <2>2. ASSUME Resolving'
        PROVE  1 <= Len(Precedence(Doing)') /\ \A j \in DOMAIN Precedence(Doing)' : ~(j < 1)
    <3>1. Precedence(Doing)' = Precedence(Doing')
      BY DEF Precedence
    <3> QED BY <1>7, <2>2, <3>1
  <2>3. ProbingFits'
    BY <2>1, <2>2 DEF ProbingFits
  <2>4. PassedInVain'
    BY <2>1, <2>2 DEF PassedInVain
  <2> QED BY <2>3, <2>4
<1>9. ToolFields'
  <2>1. (\A u \in Tool : installed[u] \in [Places(u) -> Absent .. MaxVersion])'
    BY <1>0, <1>1 DEF ToolFields, Places, Precedence, Absent
  <2>2. (\A u \in Tool : changed[u] \subseteq Places(u))'
    BY <1>0, <1>1 DEF ToolFields, Places, Precedence
  <2>3. (\A u \in Tool : OneRowEach(ledger[u]))'
    BY <1>0, <1>1 DEF ToolFields, OneRowEach
  <2> QED BY <1>0, <1>1, <1>5, <2>1, <2>2, <2>3 DEF ToolFields, Infos, LedgerRows, Versions, Spot, Tasks
<1>10. ResolvedWell'
  BY <1>0, <1>1, ResolvedStays
<1>11. LedgerNames'
  <2>1. ASSUME NEW u \in Tool
        PROVE  ActiveRow(u)' = ActiveRow(u)
    BY <1>1 DEF ActiveRow, ActiveRows, Missing, Unknown, Broken
  <2> QED BY <1>0, <1>1, <2>1 DEF LedgerNames
<1> QED BY <1>6, <1>8, <1>9, <1>10, <1>11 DEF ToolInv

\* resolveYtdlp and resolveFFmpeg: the places in their order.
LEMMA ResolveExecutableStep ==
    ASSUME ToolInv, NEW t \in Executables, ResolveExecutable(t)
    PROVE  ToolInv'
<1> DEFINE s == Precedence(t)
<1>0. ToolFields /\ ProbingFits /\ Pending /\ PassedInVain /\ ResolvedWell /\ LedgerNames
  BY DEF ToolInv
<1>1. t \in Tool /\ Resolving /\ Doing = t
  BY DEF Tool, ResolveExecutable
<1>2. Len(s) \in 1 .. 3 /\ DOMAIN s = 1 .. Len(s)
  BY <1>1, PrecedenceIs
<1>3. probing \in DOMAIN s /\ probing \in Nat
  BY <1>0, <1>1, <1>2 DEF ProbingFits
<1>4. /\ s[probing] \in Spot /\ s[probing] \in Places(t)
      /\ \A i, j \in DOMAIN s : s[i] = s[j] => i = j
  BY <1>1, <1>3, PrecedenceIs
<1>5. \A j \in DOMAIN s : j < probing => s[j] \in changed[t] \/ installed[t][s[j]] \notin Working
  BY <1>0, <1>1 DEF PassedInVain
<1>6. Here(t) = installed[t][s[probing]]
  BY DEF Here
<1> HIDE DEF s
<1>7. CASE Here(t) \in Working /\ RecordTool(t, Active(s[probing], Here(t))) /\ GoesOn
  <2> DEFINE info == Active(s[probing], Here(t))
  <2>1. Here(t) \in Versions
    BY <1>7 DEF Versions, Working, Broken
  <2>2. info \in LedgerRows /\ info.status = "active" /\ info.place = s[probing] /\ info.version = Here(t)
    BY <1>4, <2>1, ToolShapes
  <2> HIDE DEF info
  <2>3. ASSUME NEW i \in DOMAIN s, s[i] \notin changed[t]
        PROVE  /\ info.place = s[i] => installed[t][s[i]] = info.version
               /\ (\E j \in DOMAIN s : j > i /\ info.place = s[j]) => installed[t][s[i]] \notin Working
    <3>1. info.place = s[i] => i = probing
      BY <1>3, <1>4, <2>2
    <3>2. ASSUME NEW j \in DOMAIN s, j > i, info.place = s[j]
          PROVE  i < probing
      <4>1. j = probing
        BY <1>3, <1>4, <2>2, <3>2
      <4> QED BY <1>2, <1>3, <3>2, <4>1
    <3> QED BY <1>5, <1>6, <2>2, <2>3, <3>1, <3>2
  <2>4. BestOf(t, info)
    BY <2>2, <2>3 DEF BestOf, s
  <2>5. info \in Infos /\ info.status # "unknown" /\ RecordTool(t, info)
    BY <1>7, <2>2 DEF LedgerRows, info
  <2> QED BY <1>1, <1>7, <2>2, <2>4, <2>5, RecordStep
<1>8. CASE Here(t) \notin Working /\ AtLastPlace(t) /\ RecordTool(t, Missing) /\ GoesOn
  <2>1. probing = Len(s)
    BY <1>8 DEF AtLastPlace, s
  <2>2. ASSUME NEW i \in DOMAIN s, s[i] \notin changed[t]
        PROVE  installed[t][s[i]] \notin Working
    <3>1. i = probing \/ i < probing
      BY <1>2, <1>3, <2>1
    <3> QED BY <1>5, <1>6, <1>8, <2>2, <3>1
  <2>3. BestOf(t, Missing)
    BY <2>2, ToolShapes DEF BestOf, s
  <2> QED BY <1>1, <1>8, <2>3, ToolShapes, RecordStep
<1>9. CASE /\ Here(t) \notin Working /\ ~AtLastPlace(t) /\ probing' = probing + 1
           /\ UNCHANGED <<installed, changed, ledger, known, todo, budget>>
  <2>1. probing + 1 \in Nat /\ 1 <= probing + 1 /\ probing + 1 <= Len(s)
    <3>1. probing # Len(s)
      BY <1>9 DEF AtLastPlace, s
    <3>2. Len(s) \in Nat /\ probing <= Len(s) /\ 1 <= probing
      BY <1>2, <1>3
    <3> QED BY <1>3, <3>1, <3>2
  <2>2. Resolving' /\ Doing' = t
    BY <1>1, <1>9 DEF Resolving, Doing
  <2>3. ProbingFits'
    BY <1>9, <2>1, <2>2 DEF ProbingFits, s, Precedence
  <2>4. \A j \in DOMAIN s : j < probing + 1 => s[j] \in changed[t] \/ installed[t][s[j]] \notin Working
    <3>1. \A j \in DOMAIN s : j < probing + 1 => j = probing \/ j < probing
      BY <1>2, <1>3
    <3> QED BY <1>5, <1>6, <1>9, <3>1
  <2>5. PassedInVain'
    BY <1>9, <2>2, <2>4 DEF PassedInVain, s, Precedence, Working
  <2>6. ToolFields'
    <3>1. (\A u \in Tool : installed[u] \in [Places(u) -> Absent .. MaxVersion])'
      BY <1>0, <1>9 DEF ToolFields, Places, Precedence, Absent
    <3>2. (\A u \in Tool : changed[u] \subseteq Places(u))'
      BY <1>0, <1>9 DEF ToolFields, Places, Precedence
    <3>3. (\A u \in Tool : OneRowEach(ledger[u]))'
      BY <1>0, <1>9 DEF ToolFields, OneRowEach
    <3> QED BY <1>0, <1>9, <3>1, <3>2, <3>3 DEF ToolFields, Infos, LedgerRows, Versions, Spot, Tasks
  <2>7. Pending' /\ ResolvedWell'
    BY <1>0, <1>9, ResolvedStays DEF Pending
  <2>8. LedgerNames'
    <3>1. ASSUME NEW u \in Tool
          PROVE  ActiveRow(u)' = ActiveRow(u)
      BY <1>9 DEF ActiveRow, ActiveRows, Missing, Unknown, Broken
    <3> QED BY <1>0, <1>9, <3>1 DEF LedgerNames
  <2> QED BY <2>3, <2>5, <2>6, <2>7, <2>8 DEF ToolInv
<1> QED BY <1>7, <1>8, <1>9 DEF ResolveExecutable, s

\* resolveAria2 and resolveQBittorrent: one place, that answers or does not.
LEMMA ResolveServiceStep ==
    ASSUME ToolInv, NEW t \in Services, ResolveService(t)
    PROVE  ToolInv'
<1> DEFINE s == Precedence(t)
           info == IF Here(t) \in Working THEN Active("endpoint", Here(t)) ELSE Unreachable
<1>0. t \in Tool /\ Resolving /\ Doing = t /\ RecordTool(t, info) /\ GoesOn
  BY DEF Tool, ResolveService
<1>1. DOMAIN s = 1 .. 1 /\ s[1] = "endpoint" /\ Len(s) = 1
  BY <1>0, PrecedenceIs
<1>2. \A i \in DOMAIN s : i = 1
  BY <1>1
<1>3. probing = 1
  <2>1. probing \in Nat /\ 1 <= probing /\ probing <= Len(s)
    BY <1>0 DEF ToolInv, ProbingFits
  <2> QED BY <1>1, <2>1
<1>4. Here(t) = installed[t]["endpoint"]
  BY <1>1, <1>3 DEF Here
<1> HIDE DEF s, info
<1>5. CASE Here(t) \in Working
  <2>1. Here(t) \in Versions /\ "endpoint" \in Spot
    BY <1>5 DEF Versions, Working, Broken, Spot
  <2>2. info = Active("endpoint", Here(t))
    BY <1>5 DEF info
  <2>3. info \in LedgerRows /\ info.status = "active" /\ info.place = "endpoint" /\ info.version = Here(t)
    BY <2>1, <2>2, ToolShapes
  <2>4. \A i, j \in DOMAIN s : ~(j > i)
    BY <1>2
  <2>5. BestOf(t, info)
    BY <1>1, <1>2, <1>4, <2>3, <2>4 DEF BestOf, s
  <2>6. info \in Infos /\ info.status # "unknown"
    BY <2>3 DEF LedgerRows
  <2> QED BY <1>0, <2>3, <2>5, <2>6, RecordStep
<1>6. CASE Here(t) \notin Working
  <2>1. info = Unreachable
    BY <1>6 DEF info
  <2>2. info \in LedgerRows /\ info.status = "unreachable"
    BY <2>1, ToolShapes
  <2>3. BestOf(t, info)
    BY <1>1, <1>2, <1>4, <1>6, <2>2 DEF BestOf, s
  <2>4. info \in Infos /\ info.status # "unknown"
    BY <2>2 DEF LedgerRows
  <2> QED BY <1>0, <2>2, <2>3, <2>4, RecordStep
<1> QED BY <1>5, <1>6

LEMMA ToolStep ==
    ASSUME ToolInv, [ToolNext]_toolVars
    PROVE  ToolInv'
<1>1. CASE UNCHANGED toolVars
  <2>0. /\ installed' = installed /\ changed' = changed /\ ledger' = ledger /\ known' = known /\ todo' = todo
        /\ probing' = probing /\ budget' = budget
    BY <1>1 DEF toolVars
  <2>1. ToolFields /\ ProbingFits /\ Pending /\ PassedInVain /\ ResolvedWell /\ LedgerNames
    BY DEF ToolInv
  <2>2. ToolFields'
    <3>1. /\ DOMAIN installed' = Tool /\ \A u \in Tool : installed'[u] \in [Places(u) -> Absent .. MaxVersion]
          /\ DOMAIN changed' = Tool /\ \A u \in Tool : changed'[u] \subseteq Places(u)
      BY <2>0, <2>1 DEF ToolFields
    <3>2. ledger' \in [Tool -> Seq(LedgerRows)] /\ \A u \in Tool : OneRowEach(ledger'[u])
      BY <2>0, <2>1 DEF ToolFields
    <3>3. /\ known' \in [Tool -> Infos] /\ todo' \in Seq(Tasks)
          /\ budget' \in [changes : Nat, failures : 0 .. MaxFailures, launches : Nat, up : BOOLEAN]
      BY <2>0, <2>1 DEF ToolFields
    <3> QED BY <3>1, <3>2, <3>3 DEF ToolFields
  <2>3. ProbingFits' /\ Pending' /\ PassedInVain' /\ ResolvedWell'
    <3>1. (Resolving' <=> Resolving) /\ Doing' = Doing
      BY <2>0 DEF Resolving, Doing
    <3>2. ProbingFits'
      BY <2>0, <2>1, <3>1 DEF ProbingFits
    <3>3. Pending'
      BY <2>0, <2>1 DEF Pending
    <3>4. PassedInVain'
      BY <2>0, <2>1, <3>1 DEF PassedInVain
    <3>5. ResolvedWell'
      BY <2>0, <2>1 DEF ResolvedWell, BestOf
    <3> QED BY <3>2, <3>3, <3>4, <3>5
  <2>4. LedgerNames'
    <3>1. ASSUME NEW u \in Tool
          PROVE  ActiveRow(u)' = ActiveRow(u)
      BY <2>0 DEF ActiveRow, ActiveRows, Missing, Unknown, Broken
    <3> QED BY <2>0, <2>1, <3>1 DEF LedgerNames
  <2> QED BY <2>2, <2>3, <2>4 DEF ToolInv
<1>2. ASSUME NEW t \in Tool, NEW p \in Places(t), NEW version \in Absent .. MaxVersion, UserChanges(t, p, version)
      PROVE  ToolInv'
  BY <1>2, UserChangesStep
<1>3. CASE ResolveYtdlp \/ ResolveFFmpeg
  <2>1. "ytdlp" \in Executables /\ "ffmpeg" \in Executables
    BY DEF Executables
  <2> QED BY <1>3, <2>1, ResolveExecutableStep DEF ResolveYtdlp, ResolveFFmpeg
<1>4. CASE ResolveAria2 \/ ResolveQBittorrent
  <2>1. "aria2" \in Services /\ "qbittorrent" \in Services
    BY DEF Services
  <2> QED BY <1>4, <2>1, ResolveServiceStep DEF ResolveAria2, ResolveQBittorrent
<1> QED BY <1>1, <1>2, <1>3, <1>4, LaunchProgramStep, RevalidateStep DEF ToolNext

LEMMA ToolInvSuffices ==
    ASSUME ToolInv
    PROVE  LedgerIsTrue
<1>0. ToolFields /\ ProbingFits /\ Pending /\ ResolvedWell /\ LedgerNames
  BY DEF ToolInv
<1>1. ToolTypeOK
  <2>1. ASSUME NEW t \in Tool
        PROVE  \A i, j \in DOMAIN ledger[t] :
                  /\ ledger[t][i].status \in {"active", "unreachable"} /\ ledger[t][i].version \in Broken .. MaxVersion
                  /\ ledger[t][i].version = ledger[t][j].version => i = j
    <3>1. ledger[t] \in Seq(LedgerRows) /\ OneRowEach(ledger[t])
      BY <1>0 DEF ToolFields
    <3>2. \A i \in DOMAIN ledger[t] : ledger[t][i] \in LedgerRows
      BY <3>1, LenProperties, ElementOfSeq
    <3> QED BY <3>1, <3>2 DEF OneRowEach, LedgerRows, Infos, Versions
  <2>2. \A i \in DOMAIN todo : todo[i].tool \in Tool
    <3>1. todo \in Seq(Tasks)
      BY <1>0 DEF ToolFields
    <3>2. \A i \in DOMAIN todo : todo[i] \in Tasks
      BY <3>1, LenProperties, ElementOfSeq
    <3> QED BY <3>2 DEF Tasks
  <2>3. probing \in 1 .. 3
    <3>1. CASE ~Resolving
      BY <1>0, <3>1 DEF ProbingFits
    <3>2. CASE Resolving
      <4>1. Doing \in Tool
        BY <3>2, TodoMovesOn DEF Resolving
      <4>2. Len(Precedence(Doing)) \in 1 .. 3
        BY <4>1, PrecedenceIs
      <4>3. probing \in Nat /\ 1 <= probing /\ probing <= Len(Precedence(Doing))
        BY <1>0, <3>2 DEF ProbingFits
      <4>4. \A n \in 1 .. 3 : \A m \in Nat : 1 <= m /\ m <= n => m \in 1 .. 3
        OBVIOUS
      <4> QED BY <4>2, <4>3, <4>4
    <3> QED BY <3>1, <3>2
  <2>4. \A t \in Tool : known[t].status \in {"unknown", "missing", "active", "unreachable"}
    BY <1>0 DEF ToolFields, Infos
  <2> QED BY <1>0, <2>1, <2>2, <2>3, <2>4 DEF ToolTypeOK, ToolFields
<1>2. ASSUME Up
      PROVE  \A t \in Tool : known[t].status # "unknown" /\ BestOf(t, known[t])
  <2>1. todo = <<>> /\ budget.up
    BY <1>2 DEF Up
  <2>2. DOMAIN todo = {}
    <3>1. Len(todo) = 0 /\ DOMAIN todo = 1 .. Len(todo)
      BY <1>0, <2>1, EmptySeq, LenProperties DEF ToolFields
    <3> QED BY <3>1
  <2>3. \A t \in Tool : known[t].status # "unknown"
    BY <1>0, <2>1, <2>2 DEF Pending
  <2> QED BY <1>0, <2>3 DEF ResolvedWell
<1>3. BestPlaceIsUsed
  BY <1>2 DEF BestPlaceIsUsed, BestOf
<1>4. LedgerNamesWhatIsUsed
  BY <1>0 DEF LedgerNamesWhatIsUsed, LedgerNames
<1> QED BY <1>1, <1>3, <1>4 DEF LedgerIsTrue

\* Every step of a start of toolmanager, and every change of the user's, keeps the
\* invariant.
THEOREM ToolInvariant == ToolSpec => []ToolInv
<1>1. ToolInit => ToolInv
  BY ToolInvInit
<1>2. ToolInv /\ [ToolNext]_toolVars => ToolInv'
  BY ToolStep
<1> QED BY <1>1, <1>2, PTL DEF ToolSpec

\* When a start is over (app.New) the program uses the best tools there were, and the
\* ledger (SaveToolRecord, GetActiveTool) names them.
THEOREM ToolLedgerIsTrue == ToolSpec => []LedgerIsTrue
<1>1. ToolInv => LedgerIsTrue
  BY ToolInvSuffices
<1> QED BY <1>1, ToolInvariant, PTL
===============================================================================
