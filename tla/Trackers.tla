------------------------------- MODULE Trackers -------------------------------
(***************************************************************************)
(* Tracker subscriptions: internal/tracker/service.go over                 *)
(* internal/database/tracker_repository.go.  Refreshes of one source take  *)
(* turns (a lock per source) and share a few fetch slots; each reads the   *)
(* row, asks the server and writes, while the user edits and deletes rows  *)
(* without any lock.                                                       *)
(*                                                                         *)
(* A list is named by the address it came from and the server's number for *)
(* it; the number alone is the ETag, so two addresses may use the same.    *)
(* Bounds: MaxRefreshes, MaxEdits by the user, MaxUpsets for a server that *)
(* changes its list, a fetch or a database write that fails.               *)
(***************************************************************************)
EXTENDS Integers, FiniteSets

CONSTANTS
    Source,        \* identifiers of subscriptions, never used twice
    Url,           \* addresses
    Refresher,     \* goroutines that call Refresh: requests and the timer
    Capacities,    \* bound: capacities of the semaphore (4 in the code)
    MaxRefreshes, MaxEdits, MaxUpsets

ASSUME TrackerAssumptions ==
    /\ Source # {} /\ "none" \notin Url
    /\ IsFiniteSet(Refresher) /\ Capacities \subseteq Nat \ {0}

VARIABLES
    source,    \* tracker_sources: the row, Unborn or Deleted
    entries,   \* tracker_source_entries: source -> the list stored, or NoList
    web,       \* address -> number of the list it serves now
    slots,     \* capacity of the semaphore
    refresh,   \* goroutine -> where its Refresh is and the row it read
    editing,   \* the user's Update or Delete under way
    answered,  \* source -> the list the last successful refresh was told of
    mixed,     \* sources whose row two callers have written over each other
    spent      \* refreshes, edits and upsets used up

trackerVars == <<source, entries, web, slots, refresh, editing, answered, mixed, spent>>

NoList == [from |-> "none", number |-> 0]
Row(url) == [url |-> url, enabled |-> TRUE, etag |-> 0, last |-> "never", counted |-> NoList]
NoRow == [Row("none") EXCEPT !.enabled = FALSE]
Unborn == [NoRow EXCEPT !.last = "unborn"]
Deleted == [NoRow EXCEPT !.last = "deleted"]
Stored(s) == source[s].url # "none"
Resting == [at |-> "idle", id |-> CHOOSE s \in Source : TRUE, row |-> NoRow, list |-> NoList]
NotEditing == [at |-> "idle", id |-> CHOOSE s \in Source : TRUE, row |-> NoRow]

List == [from : Url \cup {"none"}, number : 0 .. 2]
Rows == [url : Url \cup {"none"}, enabled : BOOLEAN, etag : 0 .. 2, counted : List,
         last : {"never", "ok", "failed", "unborn", "deleted"}]
TakesTurn == {"slot", "read", "ask", "touch", "replace", "fail"}
Fetching == TakesTurn \ {"slot"}

\* The fields have their types; refreshes of one source take turns, and no more
\* of them than there are slots are past the semaphore.
TrackerTypeOK ==
    /\ source \in [Source -> Rows] /\ entries \in [Source -> List]
    /\ web \in [Url -> 1 .. 2] /\ slots \in Capacities
    /\ refresh \in [Refresher -> [at : {"idle", "lock"} \cup TakesTurn, id : Source, row : Rows, list : List]]
    /\ editing \in [at : {"idle", "update", "delete"}, id : Source, row : Rows]
    /\ answered \in [Source -> List] /\ mixed \subseteq Source
    /\ \A g, h \in Refresher : g # h /\ {refresh[g].at, refresh[h].at} \subseteq TakesTurn
                                  => refresh[g].id # refresh[h].id
    /\ Cardinality({g \in Refresher : refresh[g].at \in Fetching}) <= slots

TrackerInit ==
    /\ source = [s \in Source |-> Unborn] /\ entries = [s \in Source |-> NoList]
    /\ web = [u \in Url |-> 1] /\ slots \in Capacities
    /\ refresh = [g \in Refresher |-> Resting] /\ editing = NotEditing
    /\ answered = [s \in Source |-> NoList] /\ mixed = {}
    /\ spent = [refreshes |-> 0, edits |-> 0, upsets |-> 0]
------------------------------------------------------------------------------
Spend(what, most) == spent[what] < most /\ spent' = [spent EXCEPT ![what] = @ + 1]
Upset == Spend("upsets", MaxUpsets)
TablesStay == UNCHANGED <<source, entries, answered, mixed>>

\* The url column is UNIQUE.
Taken(s, url) == \E o \in Source \ {s} : source[o].url = url

\* The user's requests: each reads the row and writes it in a second statement.
Create(s, url) ==
    /\ source[s] = Unborn /\ ~Taken(s, url)
    /\ Spend("edits", MaxEdits)
    /\ source' = [source EXCEPT ![s] = Row(url)]
    /\ UNCHANGED <<entries, web, slots, refresh, editing, answered, mixed>>

EditBegins(s, op, url, enabled) ==
    /\ editing = NotEditing /\ Stored(s) /\ Spend("edits", MaxEdits)
    /\ editing' = [at |-> op, id |-> s, row |-> [source[s] EXCEPT !.url = url, !.enabled = enabled]]
    /\ UNCHANGED <<web, slots, refresh>> /\ TablesStay

\* The whole row is written, with the ETag and the count as they were read.
SameFetchState(a, b) == a.etag = b.etag /\ a.last = b.last /\ a.counted = b.counted
Update ==
    /\ editing.at = "update" /\ editing' = NotEditing
    /\ LET s == editing.id IN
       IF ~Stored(s) \/ Taken(s, editing.row.url)
       THEN TablesStay
       ELSE /\ source' = [source EXCEPT ![s] = editing.row]
            /\ mixed' = IF SameFetchState(source[s], editing.row) /\ source[s].url = editing.row.url
                        THEN mixed ELSE mixed \cup {s}
            /\ UNCHANGED <<entries, answered>>
    /\ UNCHANGED <<web, slots, refresh, spent>>

Delete ==
    /\ editing.at = "delete" /\ editing' = NotEditing
    /\ LET s == editing.id IN
       IF Stored(s) THEN /\ source' = [source EXCEPT ![s] = Deleted]
                         /\ entries' = [entries EXCEPT ![s] = NoList]
                    ELSE UNCHANGED <<source, entries>>
    /\ UNCHANGED <<web, slots, refresh, answered, mixed, spent>>

\* A server replaces its list, or puts the former one back.
ServerChanges(u) == web' = [web EXCEPT ![u] = 3 - @] /\ Upset /\ UNCHANGED <<slots, refresh, editing>> /\ TablesStay
------------------------------------------------------------------------------
\* Refresh.
Turn(g, label) == refresh' = [refresh EXCEPT ![g].at = label]
Leaves(g) == refresh' = [refresh EXCEPT ![g] = Resting]
Others == UNCHANGED <<web, slots, editing>>

RefreshBegins(g, s) ==
    /\ refresh[g] = Resting /\ source[s] # Unborn /\ Spend("refreshes", MaxRefreshes)
    /\ refresh' = [refresh EXCEPT ![g].at = "lock", ![g].id = s]
    /\ Others /\ TablesStay

\* Mutant: refreshes of one source do not exclude each other.
SourceLockNone(g) ==
    /\ refresh[g].at = "lock"
    /\ Turn(g, "slot") /\ Others /\ TablesStay /\ UNCHANGED spent

SourceLock(g) ==
    /\ refresh[g].at = "lock"
    /\ \A h \in Refresher \ {g} : refresh[h].at \in TakesTurn => refresh[h].id # refresh[g].id
    /\ Turn(g, "slot") /\ Others /\ TablesStay /\ UNCHANGED spent

Slot(g) ==
    /\ refresh[g].at = "slot"
    /\ Cardinality({h \in Refresher : refresh[h].at \in Fetching}) < slots
    /\ Turn(g, "read") /\ Others /\ TablesStay /\ UNCHANGED spent

ReadSource(g) ==
    /\ refresh[g].at = "read"
    /\ IF Stored(refresh[g].id)
       THEN refresh' = [refresh EXCEPT ![g].at = "ask", ![g].row = source[refresh[g].id]]
       ELSE Leaves(g)
    /\ Others /\ TablesStay /\ UNCHANGED spent

\* The answer: not modified, a list, or a failure of whatever kind.
Ask(g) ==
    /\ refresh[g].at = "ask"
    /\ LET u == refresh[g].row.url
           list == [from |-> u, number |-> web[u]]
       IN \/ /\ refresh' = [refresh EXCEPT ![g].list = list,
                               ![g].at = IF refresh[g].row.etag = web[u] THEN "touch" ELSE "replace"]
             /\ UNCHANGED spent
          \/ Turn(g, "fail") /\ Upset
    /\ Others /\ TablesStay

\* 304: the whole row is written back as it was read.
NotModified(g) ==
    /\ refresh[g].at = "touch" /\ Leaves(g)
    /\ LET s == refresh[g].id   row == refresh[g].row IN
       IF ~Stored(s) \/ Taken(s, row.url)
       THEN TablesStay
       ELSE /\ source' = [source EXCEPT ![s] = [row EXCEPT !.last = "ok"]]
            /\ answered' = [answered EXCEPT ![s] = refresh[g].list]
            /\ UNCHANGED <<entries, mixed>>
    /\ Others /\ UNCHANGED spent

\* ReplaceEntries: list and row in one transaction.  The rows of the list are
\* written whether or not the source is still there.
Replaced(g) ==
    LET s == refresh[g].id   list == refresh[g].list IN
    /\ entries' = [entries EXCEPT ![s] = list]
    /\ answered' = [answered EXCEPT ![s] = list]
    /\ source' = IF Stored(s)
                 THEN [source EXCEPT ![s].etag = list.number, ![s].last = "ok", ![s].counted = list]
                 ELSE source
    /\ mixed' = IF Stored(s) /\ source[s].url = list.from THEN mixed \ {s} ELSE mixed \cup {s}

ReplaceEntries(g) ==
    /\ refresh[g].at = "replace" /\ Leaves(g)
    /\ Replaced(g) /\ UNCHANGED spent /\ Others

\* Mutant: the way out after a failure gives neither lock nor slot back.
FailureKeepsTurn(g) ==
    /\ refresh[g].at = "fail" /\ UNCHANGED refresh
    /\ LET s == refresh[g].id IN
       source' = IF Stored(s) THEN [source EXCEPT ![s].last = "failed"] ELSE source
    /\ UNCHANGED <<entries, answered, mixed, spent>> /\ Others

\* A failure is noted in two columns; the list and its ETag stay.
RecordFailure(g) ==
    /\ refresh[g].at = "fail" /\ Leaves(g)
    /\ LET s == refresh[g].id IN
       source' = IF Stored(s) THEN [source EXCEPT ![s].last = "failed"] ELSE source
    /\ UNCHANGED <<entries, answered, mixed, spent>> /\ Others

\* The caller gives up while it waits for a slot, or a statement fails as a whole.
GivesUp(g) ==
    /\ refresh[g].at \in {"slot", "read", "touch", "replace", "fail"}
    /\ Upset /\ Leaves(g) /\ Others /\ TablesStay
------------------------------------------------------------------------------
RefreshStep(g) ==
    SourceLock(g) \/ Slot(g) \/ ReadSource(g) \/ Ask(g) \/ NotModified(g)
    \/ ReplaceEntries(g) \/ RecordFailure(g)

TrackerNext ==
    \/ \E s \in Source, u \in Url :
          Create(s, u) \/ \E on \in BOOLEAN : EditBegins(s, "update", u, on)
    \/ \E s \in Source : EditBegins(s, "delete", source[s].url, FALSE)
    \/ Update \/ Delete
    \/ \E u \in Url : ServerChanges(u)
    \/ \E g \in Refresher : RefreshStep(g) \/ GivesUp(g) \/ \E s \in Source : RefreshBegins(g, s)

TrackerSpec == TrackerInit /\ [][TrackerNext]_trackerVars /\ \A g \in Refresher : WF_trackerVars(RefreshStep(g))
------------------------------------------------------------------------------
\* A source that was refreshed without an error holds the very list the server
\* last spoke of, with its count and its ETag: neither a 304, nor a failure, nor
\* another refresh leaves an older list under a newer ETag.  Not when the user's
\* write of the whole row and a refresh cross, or the address was changed.
CheckedIsCurrent ==
    \A s \in Source : Stored(s) /\ source[s].last = "ok" /\ s \notin mixed
        => /\ entries[s] = answered[s] /\ source[s].counted = entries[s]
           /\ source[s].etag = entries[s].number

\* What is stored of the lists is what the servers said, and refreshes took turns.
ListsAreCurrent == TrackerTypeOK /\ CheckedIsCurrent

\* The lock of a source is taken before a fetch slot and both are given back on
\* every way out: each Refresh returns.
RefreshReturns == \A g \in Refresher : refresh[g].at # "idle" ~> refresh[g].at = "idle"
==============================================================================
