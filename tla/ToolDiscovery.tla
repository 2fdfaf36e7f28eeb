----------------------------- MODULE ToolDiscovery -----------------------------
(***************************************************************************)
(* Finding the external tools at start: internal/toolmanager/manager.go    *)
(* with the tool ledger of internal/database/execution_repository.go.  The *)
(* places a tool can be in are probed in a fixed order, one after another, *)
(* while the user installs, breaks and removes programs; what was found is *)
(* kept in memory for this run and in the ledger for the next start, which *)
(* revalidates it first.                                                   *)
(*                                                                         *)
(* A place holds Absent, Broken (also: the probe times out) or the version *)
(* of a working program; a service that answers is a place of its own.     *)
(* Bounds: MaxChanges by the user and MaxFailures of the database.         *)
(***************************************************************************)
EXTENDS Integers, Sequences, SequencesExt

CONSTANTS MaxVersion, MaxChanges, MaxFailures, MaxLaunches

VARIABLES
    installed,  \* tool -> place -> what is there
    changed,    \* the places the user changed since this start began
    ledger,     \* tool_records: tool -> its rows, the one updated last at the end
    known,      \* Manager.tools: tool -> what this run resolved
    todo,       \* what the start still has to do
    probing,    \* the place of the first tool in todo that comes next
    budget      \* changes, failures and launches left

toolVars == <<installed, changed, ledger, known, todo, probing, budget>>

ASSUME ToolAssumptions == {MaxVersion, MaxChanges, MaxFailures, MaxLaunches} \subseteq Nat

Executables == {"ytdlp", "ffmpeg"}
Services == {"aria2", "qbittorrent"}
Tool == Executables \cup Services

Absent == -1
Broken == 0
Working == 1 .. MaxVersion

\* Where a tool is looked for, the best place first.
Precedence(t) ==
    CASE t = "ytdlp" -> <<"managed", "configured", "path">>
      [] t = "ffmpeg" -> <<"configured", "path">>
      [] OTHER -> <<"endpoint">>
Places(t) == ToSet(Precedence(t))

Unknown == [status |-> "unknown", place |-> "none", version |-> Broken]
Missing == [Unknown EXCEPT !.status = "missing"]
Active(place, version) == [status |-> "active", place |-> place, version |-> version]
Unreachable == [status |-> "unreachable", place |-> "endpoint", version |-> Broken]

\* The order of app.New: revalidate the ledger, then resolve every tool.
Startup ==
    LET order == <<"ytdlp", "ffmpeg", "aria2", "qbittorrent">>
    IN [i \in 1 .. 8 |-> IF i <= 4 THEN [tool |-> order[i], what |-> "revalidate"]
                                   ELSE [tool |-> order[i - 4], what |-> "resolve"]]

Doing == todo[1].tool
Up == todo = <<>> /\ budget.up

\* The fields have their types; the ledger has one row for a version of a tool.
ToolTypeOK ==
    /\ \A t \in Tool : installed[t] \in [Places(t) -> Absent .. MaxVersion]
    /\ \A t \in Tool : changed[t] \subseteq Places(t)
    /\ \A t \in Tool : \A i, j \in DOMAIN ledger[t] :
          /\ ledger[t][i].status \in {"active", "unreachable"} /\ ledger[t][i].version \in Broken .. MaxVersion
          /\ ledger[t][i].version = ledger[t][j].version => i = j
    /\ \A t \in Tool : known[t].status \in {"unknown", "missing", "active", "unreachable"}
    /\ \A i \in DOMAIN todo : todo[i].tool \in Tool
    /\ probing \in 1 .. 3

ToolInit ==
    /\ installed = [t \in Tool |-> [p \in Places(t) |-> Absent]]
    /\ changed = [t \in Tool |-> {}]
    /\ ledger = [t \in Tool |-> <<>>] /\ known = [t \in Tool |-> Unknown]
    /\ todo = <<>> /\ probing = 1
    /\ budget = [changes |-> MaxChanges, failures |-> MaxFailures, launches |-> MaxLaunches, up |-> FALSE]
------------------------------------------------------------------------------
\* The user installs, updates, breaks or removes a program, a service goes or comes.
UserChanges(t, p, version) ==
    /\ budget.changes > 0 /\ version # installed[t][p]
    /\ installed' = [installed EXCEPT ![t][p] = version]
    /\ changed' = [changed EXCEPT ![t] = @ \cup {p}]
    /\ budget' = [budget EXCEPT !.changes = @ - 1]
    /\ UNCHANGED <<ledger, known, todo, probing>>

\* The program starts, after a stop or a crash at any point.
LaunchProgram ==
    /\ budget.launches > 0
    /\ todo' = Startup /\ probing' = 1
    /\ known' = [t \in Tool |-> Unknown] /\ changed' = [t \in Tool |-> {}]
    /\ budget' = [budget EXCEPT !.launches = @ - 1, !.up = TRUE]
    /\ UNCHANGED <<installed, ledger>>

\* Bug: a version that is in the ledger already is not written again.
UpsertIgnores(t, info) ==
    IF \E i \in DOMAIN ledger[t] : ledger[t][i].version = info.version
    THEN ledger[t] ELSE Append(ledger[t], info)

\* SaveToolRecord: one row for a version, its other columns as they are now.
Upsert(t, info) ==
    LET same == {i \in DOMAIN ledger[t] : ledger[t][i].version = info.version}
    IN Append(IF same = {} THEN ledger[t] ELSE RemoveAt(ledger[t], CHOOSE i \in same : TRUE), info)

\* recordTool: memory always, the ledger when the tool is there or does not answer.
RecordTool(t, info) ==
    /\ known' = [known EXCEPT ![t] = info]
    /\ \/ /\ ledger' = IF info.status = "missing" THEN ledger ELSE [ledger EXCEPT ![t] = Upsert(t, info)]
          /\ UNCHANGED budget
       \/ /\ budget.failures > 0 /\ info.status # "missing"
          /\ budget' = [budget EXCEPT !.failures = @ - 1] /\ UNCHANGED ledger
    /\ UNCHANGED <<installed, changed>>

GoesOn == todo' = Tail(todo) /\ probing' = 1

\* GetActiveTool: of the active rows the one updated last.
ActiveRows(t) == {i \in DOMAIN ledger[t] : ledger[t][i].status = "active"}
ActiveRow(t) == IF ActiveRows(t) = {} THEN Missing ELSE ledger[t][Max(ActiveRows(t))]

\* RevalidateActiveRecords: an executable that is gone, and every service that was
\* once reached, is resolved again.
MustResolve(t) ==
    /\ ActiveRow(t) # Missing
    /\ t \in Executables => installed[t][ActiveRow(t).place] = Absent

Revalidate ==
    /\ todo # <<>> /\ todo[1].what = "revalidate"
    /\ todo' = IF MustResolve(Doing) THEN [todo EXCEPT ![1].what = "resolve"] ELSE Tail(todo)
    /\ UNCHANGED <<installed, changed, ledger, known, probing, budget>>
------------------------------------------------------------------------------
\* Resolve.
Resolving == todo # <<>> /\ todo[1].what = "resolve"
AtLastPlace(t) == probing = Len(Precedence(t))
Here(t) == installed[t][Precedence(t)[probing]]

ResolveExecutable(t) ==
    /\ Resolving /\ Doing = t
    /\ \/ /\ Here(t) \in Working
          /\ RecordTool(t, Active(Precedence(t)[probing], Here(t))) /\ GoesOn
       \/ /\ Here(t) \notin Working /\ ~AtLastPlace(t)
          /\ probing' = probing + 1
          /\ UNCHANGED <<installed, changed, ledger, known, todo, budget>>
       \/ /\ Here(t) \notin Working /\ AtLastPlace(t)
          /\ RecordTool(t, Missing) /\ GoesOn

ResolveYtdlp == ResolveExecutable("ytdlp")
ResolveFFmpeg == ResolveExecutable("ffmpeg")

ResolveService(t) ==
    /\ Resolving /\ Doing = t
    /\ RecordTool(t, IF Here(t) \in Working THEN Active("endpoint", Here(t)) ELSE Unreachable)
    /\ GoesOn

ResolveAria2 == ResolveService("aria2")
ResolveQBittorrent == ResolveService("qbittorrent")

ToolNext ==
    \/ \E t \in Tool : \E p \in Places(t), version \in Absent .. MaxVersion : UserChanges(t, p, version)
    \/ LaunchProgram \/ Revalidate
    \/ ResolveYtdlp \/ ResolveFFmpeg \/ ResolveAria2 \/ ResolveQBittorrent

ToolSpec == ToolInit /\ [][ToolNext]_toolVars
------------------------------------------------------------------------------
\* Of the places the user left alone during a start, the one the program uses works
\* and none before it does; a tool it calls missing works in none.
BestPlaceIsUsed ==
    Up => \A t \in Tool : \A i \in DOMAIN Precedence(t) :
        LET p == Precedence(t)[i]
            used == known[t].status = "active" /\ known[t].place = p
            before == known[t].status # "active"
                      \/ \E j \in DOMAIN Precedence(t) : j > i /\ known[t].place = Precedence(t)[j]
        IN p \notin changed[t] => /\ used => installed[t][p] = known[t].version
                                  /\ before => installed[t][p] \notin Working

\* The ledger speaks of the tool the program uses, at the place and in the version
\* it was found: rows of other versions, left by earlier runs, do not come first.
\* Not after a write of the ledger has failed, which is only logged.
LedgerNamesWhatIsUsed ==
    Up /\ budget.failures = MaxFailures
        => \A t \in Tool : known[t].status = "active" => ActiveRow(t) = known[t]

\* The program uses the best tool there is, and its ledger says so.
LedgerIsTrue == ToolTypeOK /\ BestPlaceIsUsed /\ LedgerNamesWhatIsUsed
==============================================================================
