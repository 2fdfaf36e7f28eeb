------------------------------- MODULE StateSync -------------------------------
(***************************************************************************)
(* How a client keeps up with the jobs: the event cursor in the database,    *)
(* the bus with its bounded replay buffer, the event stream (SSE, or the      *)
(* desktop's in-process events) and the snapshot.                            *)
(*                                                                         *)
(* Whoever changes a job writes its row, then advances the cursor, then puts  *)
(* the event into the replay buffer, then sends it to the subscribers: four   *)
(* steps, with others' in between.  The client holds the sequence number of  *)
(* the last event it applied and asks for what came after it.                *)
(***************************************************************************)
EXTENDS Integers, Sequences, SequencesExt

CONSTANTS
    Job, Writer,
    Capacity,     \* events in the replay buffer (256)
    ChanCap,      \* events in a subscriber's channel (64)
    MaxChanges,   \* bound: changes of jobs and of the queue
    MaxFaults     \* bound: failed calls, broken streams and restarts

ASSUME SyncAssumptions == Capacity \in Nat \ {0} /\ ChanCap \in Nat \ {0} /\ MaxChanges \in Nat /\ MaxFaults \in Nat

VARIABLES
    desktop,    \* the client is the desktop window, not a browser
    row,        \* jobs table: job -> version (updated_at)
    cursor,     \* event_cursors table
    fallback,   \* fallbackCursor
    replay,     \* ReplayBuffer.events
    writer,     \* writer -> where it is, and its event
    stream,     \* [at, from, current, last, chan, missed]
    client,     \* [cursor, view, trigger]: lastAppliedCursor, jobs, streamTrigger
    fetch,      \* "mount", "rehydrate" -> the snapshot request
    changes, faults,
    \* History:
    log,        \* the events, with their numbers
    blind       \* a gap nobody looked for, a cursor set back, or a second numbering

syncVars == <<desktop, row, cursor, fallback, replay, writer, stream, client, fetch, changes, faults, log, blind>>

Version == Nat
Number == Nat
Event == [seq : Number, job : Job, ver : Version]
Fetches == {"mount", "rehydrate"}
Idle == [at |-> "idle", e |-> [seq |-> 0, job |-> "none", ver |-> 0]]
NoFetch == [at |-> "none", c1 |-> 0, view |-> [j \in Job |-> 0]]
Asked == [NoFetch EXCEPT !.at = "cursor"]
Closed == [at |-> "closed", from |-> 0, current |-> 0, last |-> 0, chan |-> <<>>, missed |-> FALSE]
Newer(v, w) == [j \in Job |-> IF w[j] < v[j] THEN v[j] ELSE w[j]]

\* A stream without a channel is closed, and what is in the buffer was numbered.
SyncTypeOK ==
    /\ desktop \in BOOLEAN /\ row \in [Job -> Version] /\ cursor \in Number /\ fallback \in Number
    /\ replay \in Seq(Event) /\ Len(replay) <= Capacity /\ \A i \in DOMAIN replay : replay[i] \in log
    /\ writer \in [Writer -> {Idle} \cup [at : {"advance", "push", "send"}, e : Event]]
    /\ stream \in [at : {"closed", "subscribed", "asked", "live"}, from : Number, current : Number,
                   last : Number, chan : Seq(Event), missed : BOOLEAN]
    /\ Len(stream.chan) <= ChanCap /\ (stream.at = "closed" => stream = Closed)
    /\ client \in [cursor : Number, view : [Job -> Version], trigger : BOOLEAN]
    /\ fetch \in [Fetches -> [at : {"none", "cursor", "jobs", "check", "reply"}, c1 : Number,
                              view : [Job -> Version]]]
    /\ changes \in 0 .. MaxChanges /\ faults \in 0 .. MaxFaults /\ log \subseteq Event /\ blind \in BOOLEAN

Mounted == [cursor |-> 0, view |-> [j \in Job |-> 0], trigger |-> TRUE]

\* A new database; one with an event that an earlier server has sent; or this one has
\* sent it before the window opens.
First(j) == [seq |-> 1, job |-> j, ver |-> 1]
SyncInit ==
    /\ desktop \in BOOLEAN /\ cursor \in {0, 1}
    /\ log \in {{}} \cup (IF cursor = 1 THEN {{First(j)} : j \in Job} ELSE {})
    /\ row = [j \in Job |-> IF First(j) \in log THEN 1 ELSE 0]
    /\ replay \in {<<>>} \cup {<<e>> : e \in log}
    /\ fallback = 0
    /\ writer = [w \in Writer |-> Idle]
    /\ stream = Closed /\ client = Mounted
    /\ fetch = [s \in Fetches |-> IF s = "mount" THEN Asked ELSE NoFetch]
    /\ changes = 0 /\ faults = 0 /\ blind = FALSE
------------------------------------------------------------------------------
\* Writers: publishWithData.

Changes == changes < MaxChanges /\ changes' = changes + 1
Fault == faults < MaxFaults /\ faults' = faults + 1
Reader == <<stream, client, fetch>>

WritesRow(w, j) ==
    /\ writer[w].at = "idle" /\ Changes
    /\ row' = [row EXCEPT ![j] = @ + 1]
    /\ writer' = [writer EXCEPT ![w] = [at |-> "advance", e |-> [seq |-> 0, job |-> j, ver |-> row[j] + 1]]]
    /\ UNCHANGED <<desktop, cursor, fallback, replay, faults, log, blind, Reader>>

\* AdvanceEventCursor: when the database has refused five times, another counter
\* is used, which starts at one.
Advances(w) ==
    /\ writer[w].at = "advance"
    /\ \/ cursor' = cursor + 1 /\ UNCHANGED <<fallback, faults, blind>>
       \/ fallback' = fallback + 1 /\ blind' = TRUE /\ Fault /\ UNCHANGED cursor
    /\ LET e == [writer[w].e EXCEPT !.seq = IF cursor' = cursor THEN fallback' ELSE cursor'] IN
       /\ writer' = [writer EXCEPT ![w] = [at |-> "push", e |-> e]]
       /\ log' = log \cup {e}
    /\ UNCHANGED <<desktop, row, replay, changes, Reader>>

\* ReplayBuffer.Push.
Pushes(w) ==
    /\ writer[w].at = "push"
    /\ writer' = [writer EXCEPT ![w].at = "send"]
    /\ replay' = Append(IF Len(replay) >= Capacity THEN Tail(replay) ELSE replay, writer[w].e)
    /\ UNCHANGED <<desktop, row, cursor, fallback, changes, faults, log, blind, Reader>>

\* Bug: the stream subscribes when the replay is over.
SendsToLive(w) ==
    /\ writer[w].at = "send"
    /\ writer' = [writer EXCEPT ![w] = Idle]
    /\ stream' = IF stream.at # "live" THEN stream
                 ELSE IF Len(stream.chan) < ChanCap THEN [stream EXCEPT !.chan = Append(@, writer[w].e)]
                 ELSE [stream EXCEPT !.missed = TRUE]
    /\ UNCHANGED <<desktop, row, cursor, fallback, replay, client, fetch, changes, faults, log, blind>>

\* InMemoryBus.Publish: a channel that is full is passed over.
Sends(w) ==
    /\ writer[w].at = "send"
    /\ writer' = [writer EXCEPT ![w] = Idle]
    /\ stream' = IF stream.at = "closed" THEN stream
                 ELSE IF Len(stream.chan) < ChanCap THEN [stream EXCEPT !.chan = Append(@, writer[w].e)]
                 ELSE [stream EXCEPT !.missed = TRUE]
    /\ UNCHANGED <<desktop, row, cursor, fallback, replay, client, fetch, changes, faults, log, blind>>

\* ReorderQueueLane may advance the cursor without an event.
CursorOnly ==
    /\ Changes /\ cursor' = cursor + 1
    /\ stream' = IF stream.at = "closed" THEN stream ELSE [stream EXCEPT !.missed = TRUE]
    /\ UNCHANGED <<desktop, row, fallback, replay, writer, client, fetch, faults, log, blind>>
------------------------------------------------------------------------------
\* GetSyncSnapshot: cursor, jobs, and the cursor again: when it has moved, all of it
\* again, unless that was the third time.

Server == <<desktop, row, cursor, fallback, replay, writer, changes, log>>

\* Bug: the jobs are read first, and the cursor after them.
SnapshotJobsFirst(s) ==
    /\ \/ fetch[s].at = "cursor" /\ fetch' = [fetch EXCEPT ![s].at = "jobs", ![s].view = row]
       \/ fetch[s].at = "jobs" /\ fetch' = [fetch EXCEPT ![s].at = "reply", ![s].c1 = cursor]
    /\ UNCHANGED <<stream, client, faults, blind, Server>>

Snapshot(s) ==
    /\ \/ fetch[s].at = "cursor" /\ fetch' = [fetch EXCEPT ![s].at = "jobs", ![s].c1 = cursor]
       \/ fetch[s].at = "jobs" /\ fetch' = [fetch EXCEPT ![s].at = "check", ![s].view = row]
       \/ fetch[s].at = "check" /\ fetch' = [fetch EXCEPT ![s].at = "reply"]
       \/ fetch[s].at = "check" /\ fetch[s].c1 # cursor /\ fetch' = [fetch EXCEPT ![s] = Asked]
    /\ UNCHANGED <<stream, client, faults, blind, Server>>

\* What the window loads when it opens replaces what the stream has brought by then.
MountArrives ==
    /\ fetch["mount"].at = "reply" /\ fetch' = [fetch EXCEPT !["mount"] = NoFetch]
    /\ LET snapshot == fetch["mount"] IN
       /\ client' = [cursor |-> snapshot.c1, view |-> snapshot.view, trigger |-> client.trigger \/ snapshot.c1 > 0]
       /\ blind' = (blind \/ snapshot.c1 < client.cursor)
    /\ UNCHANGED <<stream, faults, Server>>

\* handleSyncRequired: the newer of what it has and what it got, job by job.
RehydrateArrives ==
    /\ fetch["rehydrate"].at = "reply" /\ fetch' = [fetch EXCEPT !["rehydrate"] = NoFetch]
    /\ LET snapshot == fetch["rehydrate"] IN
       client' = [cursor |-> snapshot.c1, view |-> Newer(client.view, snapshot.view), trigger |-> TRUE]
    /\ UNCHANGED <<stream, faults, blind, Server>>

\* The first load falls back on the list of jobs; a rehydration is not repeated.
FetchFails(s) ==
    /\ fetch[s].at # "none" /\ Fault /\ fetch' = [fetch EXCEPT ![s] = NoFetch]
    /\ client' = IF s = "mount" THEN [client EXCEPT !.view = Newer(@, row)] ELSE client
    /\ blind' = (blind \/ s = "mount") /\ UNCHANGED <<stream, Server>>
------------------------------------------------------------------------------
\* The stream.

\* The effect of streamTrigger: the old subscription is closed, a new one opened.
\* The server subscribes to the bus before it looks at anything else.
Subscribe ==
    /\ client.trigger /\ client' = [client EXCEPT !.trigger = FALSE]
    /\ stream' = [Closed EXCEPT !.at = IF desktop /\ client.cursor = 0 THEN "live" ELSE "subscribed",
                                !.from = client.cursor, !.last = IF desktop THEN client.cursor ELSE 0]
    /\ UNCHANGED <<fetch, faults, blind, Server>>

ReadCursor ==
    /\ stream.at = "subscribed" /\ stream' = [stream EXCEPT !.at = "asked", !.current = cursor]
    /\ UNCHANGED <<client, fetch, faults, blind, Server>>

\* handleEvent of the window.
Applied(c, e) ==
    IF e.seq <= c.cursor THEN c
    ELSE [c EXCEPT !.cursor = e.seq, !.view[e.job] = IF e.ver < @ THEN @ ELSE e.ver]

\* Several, in the order of their numbers: those that are new to it.
AllApplied(c, events) ==
    LET news == {e \in ToSet(events) : e.seq > c.cursor} IN
    [c EXCEPT !.cursor = Max({@} \cup {e.seq : e \in news}),
              !.view = [j \in Job |-> Max({@[j]} \cup {e.ver : e \in {f \in news : f.job = j}})]]

\* ReplayBuffer.GetEventsAfter: where the next event is, or 0.
After(from) ==
    IF \E i \in DOMAIN replay : replay[i].seq = from + 1
    THEN CHOOSE i \in DOMAIN replay : /\ replay[i].seq = from + 1
                                      /\ \A k \in 1 .. i - 1 : replay[k].seq # from + 1
    ELSE 0
Bridged(from) ==
    /\ replay # <<>> /\ from <= replay[Len(replay)].seq
    /\ \/ from = replay[Len(replay)].seq
       \/ /\ from >= replay[1].seq - 1 /\ After(from) # 0
          /\ \A i \in After(from) .. Len(replay) - 1 : replay[i + 1].seq = replay[i].seq + 1
EventsAfter(from) ==
    IF from = replay[Len(replay)].seq THEN <<>> ELSE SubSeq(replay, After(from), Len(replay))

\* sync.required: the stream is over, and a snapshot is asked for (a request that is
\* still out is superseded).
Resync == stream' = Closed /\ fetch' = [fetch EXCEPT !["rehydrate"] = Asked] /\ UNCHANGED client

GoesOn(events) ==
    /\ client' = AllApplied(client, events)
    /\ stream' = [stream EXCEPT !.at = "live", !.current = 0,
                                !.last = IF events # <<>> THEN events[Len(events)].seq
                                         ELSE IF desktop THEN @ ELSE stream.current]
    /\ UNCHANGED fetch

\* Nothing to replay; or all of it, from the buffer; or a new snapshot.
Replays ==
    /\ stream.at = "asked"
    /\ LET from == stream.from
           complete == Bridged(from) /\ (desktop \/ (EventsAfter(from) # <<>> /\ replay[Len(replay)].seq >= stream.current)) IN
       \/ from = stream.current /\ GoesOn(<<>>)
       \/ from < stream.current /\ complete /\ GoesOn(EventsAfter(from))
       \/ (from > stream.current \/ (from < stream.current /\ ~complete)) /\ Resync
    /\ UNCHANGED <<faults, blind, Server>>

\* A missing number ends the stream, unless the stream has sent nothing yet; a number
\* that was passed is skipped.
Delivers ==
    /\ stream.at = "live" /\ stream.chan # <<>>
    /\ LET e == Head(stream.chan) IN
       \/ stream.last > 0 /\ e.seq > stream.last + 1 /\ Resync /\ UNCHANGED blind
       \/ e.seq <= stream.last /\ stream' = [stream EXCEPT !.chan = Tail(@)] /\ UNCHANGED <<client, fetch, blind>>
       \/ /\ e.seq > stream.last /\ (stream.last = 0 \/ e.seq = stream.last + 1)
          /\ stream' = [stream EXCEPT !.chan = Tail(@), !.last = e.seq]
          /\ client' = Applied(client, e) /\ UNCHANGED fetch
          /\ blind' = (blind \/ (stream.last = 0 /\ e.seq > client.cursor + 1))
    /\ UNCHANGED <<faults, Server>>

Breaks == stream.at # "closed" /\ ~desktop /\ Fault /\ Resync /\ UNCHANGED <<blind, Server>>

\* The server starts again, and with it the desktop window.
Restart ==
    /\ Fault /\ replay' = <<>> /\ fallback' = 0
    /\ writer' = [w \in Writer |-> Idle]
    /\ stream' = Closed
    /\ IF desktop
       THEN client' = Mounted /\ fetch' = [s \in Fetches |-> IF s = "mount" THEN Asked ELSE NoFetch]
       ELSE /\ client' = client
            /\ fetch' = [s \in Fetches |-> IF s = "rehydrate" /\ stream.at # "closed" THEN Asked ELSE NoFetch]
    /\ blind' = (blind \/ (~desktop /\ (fetch["mount"].at # "none" \/ \E w \in Writer : writer[w].at = "advance")))
    /\ UNCHANGED <<desktop, row, cursor, changes, log>>
------------------------------------------------------------------------------
SyncNext ==
    \/ \E w \in Writer : (\E j \in Job : WritesRow(w, j)) \/ Advances(w) \/ Pushes(w) \/ Sends(w)
    \/ CursorOnly
    \/ \E s \in Fetches : Snapshot(s) \/ FetchFails(s)
    \/ MountArrives \/ RehydrateArrives
    \/ Subscribe \/ ReadCursor \/ Replays \/ Delivers \/ Breaks \/ Restart

SyncSpec == SyncInit /\ [][SyncNext]_syncVars
------------------------------------------------------------------------------
\* Properties.  blind: the numbering was left (the database refused the cursor), the
\* window's first load set the client back, or the first event of a stream that began
\* at zero was not the next one.

\* A client that says it has applied the events up to a number has them all: what it
\* shows of a job is at least as new as each of them said, whatever order they were
\* published in and whichever of them were dropped, replayed or in a snapshot.
InStep == blind \/ \A e \in log : e.seq <= client.cursor => client.view[e.job] >= e.ver

\* Whatever was dropped, replayed or reordered, the client's number is true.
CursorIsTrue == SyncTypeOK /\ InStep

\* When everything is quiet, a browser on a live stream that was sent everything shows
\* what the database holds: nothing is lost between subscribing, the cursor and the
\* replay, which are read one after the other.
Quiet == /\ \A w \in Writer : writer[w].at = "idle"
         /\ \A s \in Fetches : fetch[s].at = "none"
         /\ stream.at = "live" /\ stream.chan = <<>> /\ ~client.trigger
CaughtUp == Quiet /\ ~desktop /\ ~stream.missed => client.view = row \/ blind
==============================================================================
