------------------------------- MODULE MasterKey -------------------------------
(***************************************************************************)
(* The life of the key that seals the settings' secrets                    *)
(* (internal/securestore/lifecycle.go, store.go): at start a host looks    *)
(* for it in the operating system's credential store, then in the          *)
(* environment, and generates one only when its database holds no secret.  *)
(* The server and the desktop have databases of their own and share one    *)
(* entry of the credential store, which can be away and come back, be      *)
(* emptied by its user, or hold rubbish.                                   *)
(*                                                                         *)
(* A key is a number: 1 is the one users keep in the environment, those    *)
(* after it are generated.  A sealed secret is the key it was sealed with. *)
(* Bounds: MaxFresh generated keys, MaxTroubles of the world, MaxStarts.   *)
(***************************************************************************)
EXTENDS Integers

CONSTANTS
    Host,       \* the programs
    Field,      \* the secrets a database can hold
    MaxFresh, MaxTroubles, MaxStarts

ASSUME KeyAssumptions == MaxFresh \in Nat

VARIABLES
    windows,   \* the provider is the Windows credential manager
    storeUp,   \* KeyProvider.Available
    storeKey,  \* the entry of the credential store
    env,       \* the key in the environment, or NoKey
    sealed,    \* host -> field -> key it is sealed with, or NoKey
    resolve,   \* host -> where its start is, the key it has, what it saw of the store
    fresh,     \* last key that was generated
    taken,     \* the user removed the store's entry, or it was overwritten unseen
    troubles, starts

keyVars == <<windows, storeUp, storeKey, env, sealed, resolve, fresh, taken, troubles, starts>>

NoKey == 0
Corrupt == -1
EnvKey == 1
Key == EnvKey .. (EnvKey + MaxFresh)
Off == [at |-> "off", key |-> NoKey, saw |-> "nothing"]
Serving(h) == resolve[h].at = "serving"
Opens(h, k) == \A f \in Field : sealed[h][f] \in {NoKey, k}

\* The fields have their types, and the secrets of a database all have one key.
KeyTypeOK ==
    /\ windows \in BOOLEAN /\ storeUp \in BOOLEAN
    /\ storeKey \in Key \cup {NoKey, Corrupt} /\ env \in {NoKey, EnvKey}
    /\ sealed \in [Host -> [Field -> Key \cup {NoKey}]]
    /\ resolve \in [Host -> [at : {"off", "store", "check_store", "env", "check_env", "write", "read_back", "count", "serving"},
                             key : Key \cup {NoKey}, saw : {"nothing", "absent", "away", "passed"}]]
    /\ fresh \in EnvKey .. (EnvKey + MaxFresh) /\ taken \in BOOLEAN
    /\ \A h \in Host : \E k \in Key : Opens(h, k)

KeyInit ==
    /\ windows \in BOOLEAN /\ storeUp \in BOOLEAN /\ env \in {NoKey, EnvKey}
    /\ storeKey = NoKey
    /\ sealed = [h \in Host |-> [f \in Field |-> NoKey]]
    /\ resolve = [h \in Host |-> Off]
    /\ fresh = EnvKey /\ taken = FALSE /\ troubles = 0 /\ starts = 0
------------------------------------------------------------------------------
\* The world: the store goes away or comes back, its user removes or spoils the
\* entry, the variable is set or removed.
World ==
    /\ troubles < MaxTroubles /\ troubles' = troubles + 1
    /\ \/ storeUp' = ~storeUp /\ UNCHANGED <<storeKey, env, taken>>
       \/ storeUp /\ storeKey' \in {NoKey, Corrupt} /\ taken' = TRUE /\ UNCHANGED <<storeUp, env>>
       \/ env' = EnvKey - env /\ UNCHANGED <<storeUp, storeKey, taken>>
    /\ UNCHANGED <<windows, sealed, resolve, fresh, starts>>

Goes(h, label, key, saw) == resolve' = [resolve EXCEPT ![h] = [at |-> label, key |-> key, saw |-> saw]]
Serve(h) == Goes(h, "serving", resolve[h].key, resolve[h].saw)
GivesUpStart(h) == resolve' = [resolve EXCEPT ![h] = Off]
Reads == UNCHANGED <<windows, storeUp, storeKey, env, sealed, fresh, taken, troubles, starts>>

\* ResolveKey.
StartResolving(h) ==
    /\ resolve[h] = Off /\ starts < MaxStarts /\ starts' = starts + 1
    /\ Goes(h, "store", NoKey, "nothing")
    /\ UNCHANGED <<windows, storeUp, storeKey, env, sealed, fresh, taken, troubles>>

\* Mutant: any failure to read counts as an absent key.
ReadAnyFailureAsAbsent(h) ==
    /\ resolve[h].at = "store"
    /\ IF ~storeUp THEN Goes(h, "env", NoKey, "away")
       ELSE \/ storeKey \in Key /\ Goes(h, "check_store", storeKey, "nothing")
            \/ Goes(h, "env", NoKey, "absent")
    /\ Reads

\* A corrupt entry, or a read that fails, ends the start.
ReadStore(h) ==
    /\ resolve[h].at = "store"
    /\ \/ ~storeUp /\ Goes(h, "env", NoKey, "away")
       \/ storeUp /\ storeKey = NoKey /\ Goes(h, "env", NoKey, "absent")
       \/ storeUp /\ storeKey \in Key /\ Goes(h, "check_store", storeKey, "nothing")
       \/ storeUp /\ GivesUpStart(h)
    /\ Reads

\* validateKeyAgainstCiphertext: the key must open every secret there is.
CheckStoreKey(h) ==
    /\ resolve[h].at = "check_store"
    /\ IF Opens(h, resolve[h].key) THEN Serve(h) ELSE GivesUpStart(h)
    /\ Reads

ReadEnv(h) ==
    /\ resolve[h].at = "env"
    /\ IF env # NoKey THEN Goes(h, "check_env", env, resolve[h].saw) ELSE Goes(h, "count", NoKey, resolve[h].saw)
    /\ Reads

\* Mutant: the key of the environment is taken without a proof.
CheckEnvByTrust(h) ==
    /\ resolve[h].at = "check_env"
    /\ IF storeUp THEN Goes(h, "write", resolve[h].key, resolve[h].saw)
       ELSE IF windows THEN GivesUpStart(h) ELSE Serve(h)
    /\ Reads

\* On Windows the environment is no lasting substitute for the store.
CheckEnvKey(h) ==
    /\ resolve[h].at = "check_env"
    /\ \/ ~Opens(h, resolve[h].key) /\ GivesUpStart(h)
       \/ Opens(h, resolve[h].key) /\ storeUp /\ Goes(h, "write", resolve[h].key, resolve[h].saw)
       \/ Opens(h, resolve[h].key) /\ ~storeUp /\ IF windows THEN GivesUpStart(h) ELSE Serve(h)
    /\ Reads

\* No key anywhere: one is generated when no secret would be lost by it.
CountSecrets(h) ==
    /\ resolve[h].at = "count"
    /\ IF Opens(h, NoKey) /\ storeUp
       THEN /\ fresh < EnvKey + MaxFresh /\ fresh' = fresh + 1
            /\ Goes(h, "write", fresh + 1, resolve[h].saw)
       ELSE GivesUpStart(h) /\ UNCHANGED fresh
    /\ UNCHANGED <<windows, storeUp, storeKey, env, sealed, taken, troubles, starts>>

ReadEarlier(i) == resolve[i].at \in {"env", "check_env", "count", "write"}

\* SetKey replaces what it finds.  Somebody who read the store before this write
\* will not see it: what he read has passed.
WriteKey(h) ==
    /\ resolve[h].at = "write"
    /\ \/ /\ storeUp /\ storeKey' = resolve[h].key
          /\ taken' = (taken \/ (storeKey \in Key \ {resolve[h].key} /\ resolve[h].saw \in {"away", "passed"}))
          /\ resolve' = [i \in Host |->
                IF i = h THEN [at |-> "read_back", key |-> resolve[i].key, saw |-> resolve[i].saw]
                ELSE IF ReadEarlier(i) THEN [at |-> resolve[i].at, key |-> resolve[i].key, saw |-> "passed"]
                ELSE resolve[i]]
       \/ GivesUpStart(h) /\ UNCHANGED <<storeKey, taken>>
    /\ UNCHANGED <<windows, storeUp, env, sealed, fresh, troubles, starts>>

\* The store must give back what was written.
ReadBack(h) ==
    /\ resolve[h].at = "read_back"
    /\ IF storeUp /\ storeKey = resolve[h].key THEN Serve(h) ELSE GivesUpStart(h)
    /\ Reads

\* The running host seals and removes secrets; it stops, or is killed anywhere.
Put(h, f) ==
    /\ Serving(h)
    /\ sealed' = [sealed EXCEPT ![h][f] = resolve[h].key]
    /\ UNCHANGED <<windows, storeUp, storeKey, env, resolve, fresh, taken, troubles, starts>>

DeleteSecret(h, f) ==
    /\ Serving(h)
    /\ sealed' = [sealed EXCEPT ![h][f] = NoKey]
    /\ UNCHANGED <<windows, storeUp, storeKey, env, resolve, fresh, taken, troubles, starts>>

Stops(h) == resolve[h] # Off /\ GivesUpStart(h) /\ Reads
------------------------------------------------------------------------------
ResolveStep(h) ==
    StartResolving(h) \/ ReadStore(h) \/ CheckStoreKey(h) \/ ReadEnv(h) \/ CheckEnvKey(h) \/ CountSecrets(h)
    \/ WriteKey(h) \/ ReadBack(h)

KeyNext ==
    \/ World
    \/ \E h \in Host : ResolveStep(h) \/ Stops(h) \/ \E f \in Field : Put(h, f) \/ DeleteSecret(h, f)

KeySpec == KeyInit /\ [][KeyNext]_keyVars
------------------------------------------------------------------------------
\* A host that serves opens every secret of its database, whatever happened to
\* store and environment between its starts.
ServingOpensAll == \A h \in Host : Serving(h) => Opens(h, resolve[h].key)

\* Every database is readable with one key, and a host that serves has it.
SecretsStayReadable == KeyTypeOK /\ ServingOpensAll

\* A generated key that seals something is still in the store: no start of either
\* host writes over it, unless the user took the entry away, or the store came
\* back, or the other host wrote, between the reading and the writing of one start.
GeneratedKeyIsKept ==
    \A h \in Host, f \in Field : sealed[h][f] > EnvKey => storeKey = sealed[h][f] \/ taken
==============================================================================
