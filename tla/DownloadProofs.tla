---------------------------- MODULE DownloadProofs ----------------------------
(***************************************************************************)
(* Proofs about the download core for any jobs, clients, commands, limits  *)
(* and faults.  CoreInv adds to the types of the shared state what each    *)
(* goroutine may rely on at each of its labels: the scheduler owns the one *)
(* clean reservation while it dispatches and no reservation it is to       *)
(* reconcile is free; who holds a copy of an active job has one with an    *)
(* engine task; and a row that says DOWNLOADING names a task.  WakeInv     *)
(* adds, while no database call has failed, that whoever makes a job       *)
(* runnable, or gives capacity back, still owes the scheduler a kick.      *)
(***************************************************************************)
EXTENDS DownloadCore, FiniteSetTheorems, WellFoundedInduction, TLAPS

USE CoreAssumptions

GoodRow == {r \in Row : r.st = "downloading" => r.eid \in Gid}
ActiveRow == [st : {"downloading", "queued"}, eid : Gid]
Action == {"none", "start", "resume"}
Reservation == [kind : {"free", "clean", "external", "state"}, action : Action,
                target : {"none", "failed", "paused"}, eid : Gid \cup {NoGid}]
Task == [job : Job \cup {"none"}, st : TaskStatus \cup {"unused", "gone"}]

\* The labels of the scheduler between the reservation of a job and its end, and
\* those at which it works on a dirty reservation.
Dispatching == {"fetch", "drop_entry", "entry", "load", "lost_entry", "start", "limits",
                "resume", "started", "activate", "refuse", "refused", "failed"}
Reconciling == {"rs_write", "rs_delete", "rx_status", "rx_write", "rx_delete"}
SchedLabel == {"idle", "top", "reconcile"} \cup Dispatching \cup Reconciling
CmdLabel == {"idle", "update", "engine", "enqueue", "get_entry", "cascade", "insert", "undo", "dequeue"}
MonLabel == {"idle", "visit", "condemn", "fail", "apply", "persist"}
SchedState == [pc : SchedLabel, job : Job \cup {"none"}, action : Action, cur : GoodRow,
               j : Row, todo : SUBSET Job, stop : BOOLEAN]
CmdState == [pc : CmdLabel,
             op : {"none", "create", "pause", "resume", "cancel", "retry", "run_now", "delete"},
             job : Job \cup {"none"}, j : GoodRow, action : Action, ok : BOOLEAN]
MonState == [pc : MonLabel, snap : [Job -> {Absent} \cup ActiveRow], job : Job \cup {"none"},
             status : JobStatus \cup {"none"}]

RowsOK == row \in [Job -> GoodRow]
QueueOK == queue \in [Job -> Action]
TasksOK == task \in [Gid -> Task]
ActiveOK == activeJobs \in [Job -> {Absent} \cup ActiveRow]
PermitsOK == held \in [Job -> {Aria2, NoLease}]
ReservedOK == inFlight \in [Job -> Reservation]
TimersOK == kick \in BOOLEAN /\ retryTimer \in BOOLEAN
StartOK == phase \in {"up", "down", "recovering"} /\ recoverTodo \subseteq Job
BudgetOK == budget \in [DOMAIN Budget -> Nat]
SharedOK == RowsOK /\ QueueOK /\ TasksOK /\ ActiveOK /\ PermitsOK /\ ReservedOK /\ TimersOK
            /\ StartOK /\ BudgetOK

\* What the scheduler knows: of the reservations, and of the row it works with.
SchedOwns ==
    /\ \A i \in Job : inFlight[i].kind = "clean" => sched.pc \in Dispatching /\ sched.job = i
    /\ \A i \in Job : inFlight[i].kind = "state" => inFlight[i].target # "none"
    /\ \A i \in sched.todo : inFlight[i].kind \in {"external", "state"}
    /\ sched.pc \in Dispatching => sched.job \in Job /\ inFlight[sched.job].kind = "clean"
    /\ sched.pc \in Reconciling => sched.job \in sched.todo
RowAt(s) ==
    /\ s.pc \in {"limits", "started"} => s.j.eid \in Gid
    /\ s.pc \in {"activate", "rx_write", "rx_delete"} => s.j \in ActiveRow
    /\ s.pc \in {"rs_write", "rs_delete"} => s.j \in GoodRow
SchedOK == sched \in SchedState /\ SchedOwns /\ RowAt(sched)

CmdOK == /\ cmd \in [Client -> CmdState]
         /\ \A c \in Client : cmd[c].pc # "idle" => cmd[c].job \in Job

MonOK == /\ mon \in MonState /\ fails \in [Job -> 0..MaxFailures]
         /\ mon.pc \notin {"idle", "visit"} => mon.job \in Job /\ mon.snap[mon.job] # Absent

CoreInv == SharedOK /\ SchedOK /\ CmdOK /\ MonOK /\ NoLeakedPermit
------------------------------------------------------------------------------
\* Rows, reservations and the budget.

\* The records the goroutines start from are of their types.
LEMMA Records ==
    /\ NoGid \notin Gid /\ Aria2 # NoLease
    /\ Absent \in GoodRow /\ Gone \in GoodRow /\ Absent \notin ActiveRow
    /\ ActiveRow \subseteq GoodRow /\ GoodRow \subseteq Row
    /\ Free \in Reservation /\ Free.kind = "free"
    /\ SchedIdle \in SchedState /\ SchedIdle.pc = "idle" /\ SchedIdle.todo = {}
    /\ CmdIdle \in CmdState /\ CmdIdle.pc = "idle"
    /\ MonIdle \in MonState /\ MonIdle.pc = "idle"
<1>1. /\ NoGid \notin Gid /\ Aria2 # NoLease
      /\ Absent \in GoodRow /\ Gone \in GoodRow /\ Absent \notin ActiveRow
      /\ ActiveRow \subseteq GoodRow /\ GoodRow \subseteq Row
  BY DEF NoGid, Gid, Absent, Gone, GoodRow, ActiveRow, Row, JobStatus, Aria2, NoLease
<1>2. Free \in Reservation /\ Free.kind = "free"
  BY DEF Free, Reservation, Action
<1>3. SchedIdle \in SchedState /\ SchedIdle.pc = "idle" /\ SchedIdle.todo = {}
  BY <1>1 DEF SchedIdle, SchedState, SchedLabel, Action
<1>4. CmdIdle \in CmdState /\ CmdIdle.pc = "idle"
  BY <1>1 DEF CmdIdle, CmdState, CmdLabel, Action
<1>5. MonIdle \in MonState /\ MonIdle.pc = "idle"
  BY DEF MonIdle, MonState, MonLabel
<1> QED BY <1>1, <1>2, <1>3, <1>4, <1>5

\* A row that is no download, and one that is and has a task.
LEMMA GoodRows ==
    ASSUME NEW r \in Row, NEW st \in JobStatus,
           st = "downloading" => r.eid \in Gid
    PROVE  [r EXCEPT !.st = st] \in GoodRow
BY DEF GoodRow, Row

\* Update with a good row leaves good rows.
LEMMA UpdateKeeps ==
    ASSUME RowsOK, NEW i \in Job, NEW r \in GoodRow, Update(i, r)
    PROVE  RowsOK'
BY DEF Update, RowsOK

LEMMA SetTaskKeeps ==
    ASSUME TasksOK, NEW g, NEW st \in TaskStatus \cup {"gone"}, SetTask(g, st)
    PROVE  TasksOK'
BY DEF SetTask, TasksOK, Task

LEMMA SetQueueKeeps ==
    ASSUME QueueOK, NEW i, NEW a \in Action, SetQueue(i, a)
    PROVE  QueueOK'
BY DEF SetQueue, QueueOK

\* A fault uses up a part of the budget that is there.
Faults == {"cmd", "db", "rpc", "disk", "lost", "crash"}
LEMMA SpendKeeps ==
    ASSUME BudgetOK, NEW kind \in Faults, Spend(kind)
    PROVE  BudgetOK'
<1>1. kind \in DOMAIN Budget /\ "any" \in DOMAIN Budget
  BY DEF CoreAssumptions, Faults
<1>2. budget[kind] \in Nat /\ budget["any"] \in Nat
  BY <1>1 DEF BudgetOK
<1>3. budget[kind] > 0 /\ budget["any"] > 0
  BY DEF Spend
<1>4. budget[kind] - 1 \in Nat /\ budget["any"] - 1 \in Nat
  BY <1>2, <1>3
<1>5. budget' = [budget EXCEPT ![kind] = budget[kind] - 1, !["any"] = budget["any"] - 1]
  BY DEF Spend, Faults
<1> QED BY <1>1, <1>4, <1>5 DEF BudgetOK

\* A database call that deletes a queue row, whether or not it works.
LEMMA DeleteKeeps ==
    ASSUME QueueOK, BudgetOK, NEW i, Db(SetQueue(i, "none"), UNCHANGED queue)
    PROVE  QueueOK' /\ BudgetOK'
<1>1. QueueOK'
  BY SetQueueKeeps DEF Db, QueueOK, Action
<1>2. BudgetOK'
  BY SpendKeeps DEF Db, NoFault, BudgetOK, Faults
<1> QED BY <1>1, <1>2
------------------------------------------------------------------------------
\* The ways of the scheduler from one label to the next.

\* A step of the scheduler that keeps every part keeps the whole.
LEMMA SchedulerFrame ==
    ASSUME CoreInv, othersUnchanged,
           RowsOK', QueueOK', TasksOK', ActiveOK', PermitsOK', ReservedOK', TimersOK',
           BudgetOK', SchedOK', NoLeakedPermit'
    PROVE  CoreInv'
BY DEF CoreInv, SharedOK, StartOK, CmdOK, MonOK, othersUnchanged

\* From one label of a dispatch to another.
LEMMA Dispatches ==
    ASSUME SchedOK, sched.pc \in Dispatching, NEW s \in SchedState, sched' = s, RowAt(s),
           s.pc \in Dispatching, s.job = sched.job, s.todo = sched.todo, UNCHANGED inFlight
    PROVE  SchedOK'
BY DEF SchedOK, SchedOwns, RowAt, Dispatching, Reconciling

\* The plain labels of a dispatch say nothing about its row.
Plain == Dispatching \ {"limits", "started", "activate"}
LEMMA GoesOn ==
    ASSUME SchedOK, sched.pc \in Dispatching, NEW p \in Plain, Goto(p), UNCHANGED inFlight
    PROVE  SchedOK'
<1>1. [sched EXCEPT !.pc = p] \in SchedState
  BY DEF SchedOK, SchedState, SchedLabel, Plain
<1>2. RowAt([sched EXCEPT !.pc = p])
  BY <1>1 DEF RowAt, Plain, Dispatching, SchedOK, SchedState
<1> QED BY <1>1, <1>2, Dispatches DEF Goto, Plain, SchedOK, SchedState

\* A dispatch that is given up leaves no reservation and no permit.
LEMMA Abandons ==
    ASSUME CoreInv, sched.pc \in Dispatching, Abandon, UNCHANGED <<activeJobs, retryTimer>>
    PROVE  PermitsOK' /\ ReservedOK' /\ TimersOK' /\ SchedOK' /\ NoLeakedPermit'
<1> USE Records DEF CoreInv, Abandon
<1>1. PermitsOK' /\ ReservedOK' /\ TimersOK'
  BY DEF SharedOK, PermitsOK, ReservedOK, TimersOK, DropAndKick, Drop, Unreserve
<1>2. sched.job \in Job /\ inFlight' = [inFlight EXCEPT ![sched.job] = Free]
  BY DEF SchedOK, SchedOwns, Unreserve, Me
<1>3. sched' \in SchedState /\ sched'.pc = "top" /\ sched'.todo = {}
  BY DEF ToTop, SchedState, SchedLabel
<1>4. SchedOK'
  BY <1>2, <1>3 DEF SchedOK, SchedOwns, RowAt, Dispatching, Reconciling, SharedOK, ReservedOK
<1>5. NoLeakedPermit'
  BY <1>2 DEF NoLeakedPermit, Tracked, DropAndKick, Drop, Me, SharedOK, PermitsOK, ReservedOK
<1> QED BY <1>1, <1>4, <1>5

\* A dispatch whose outcome cannot be written leaves a dirty reservation, and the
\* scheduler turns to s with it or goes back to sleep.
LEMMA LeavesDirty ==
    ASSUME CoreInv, sched.pc \in Dispatching,
           NEW r \in Reservation, r.kind \in {"external", "state"}, r.kind = "state" => r.target # "none",
           inFlight' = [inFlight EXCEPT ![Me] = r],
           NEW s \in SchedState, sched' = s, s.pc \in {"idle", "reconcile"}, s.todo \subseteq {Me},
           UNCHANGED <<held, activeJobs>>
    PROVE  ReservedOK' /\ SchedOK' /\ NoLeakedPermit'
<1> USE DEF CoreInv, Me
<1>1. ReservedOK' /\ sched.job \in Job /\ r # Free
  BY Records DEF SharedOK, ReservedOK, SchedOK, SchedOwns
<1>2. \A i \in Job : inFlight'[i] = IF i = sched.job THEN r ELSE inFlight[i]
  BY <1>1 DEF SharedOK, ReservedOK
<1>3. SchedOK'
  BY <1>1, <1>2 DEF SchedOK, SchedOwns, RowAt, Dispatching, Reconciling
<1>4. NoLeakedPermit'
  BY <1>1, <1>2 DEF NoLeakedPermit, Tracked
<1> QED BY <1>1, <1>3, <1>4

\* Outside a dispatch no reservation is clean, and the scheduler may go anywhere
\* but into one.
LEMMA Wanders ==
    ASSUME SchedOK, sched.pc \notin Dispatching, NEW s \in SchedState, sched' = s, RowAt(s),
           s.pc \notin Dispatching, s.pc \in Reconciling => s.job \in s.todo,
           \A i \in s.todo : inFlight[i].kind \in {"external", "state"}, UNCHANGED inFlight
    PROVE  SchedOK'
BY DEF SchedOK, SchedOwns

\* Reconciliation of a reservation ends without it being settled.
LEMMA Skips ==
    ASSUME SchedOK, sched.pc \in Reconciling, Skip, UNCHANGED inFlight
    PROVE  SchedOK'
<1>1. sched' \in SchedState /\ sched'.pc = "reconcile" /\ sched'.todo \subseteq sched.todo
  BY Records DEF Skip, SchedOK, SchedState, SchedLabel
<1> QED BY <1>1 DEF SchedOK, SchedOwns, RowAt, Dispatching, Reconciling

\* ... and with it being settled: who keeps the permit is tracked.
LEMMA Settles ==
    ASSUME CoreInv, sched.pc \in Reconciling, Skip, Unreserve(Me),
           PermitsOK', ActiveOK',
           \A i \in Job : i # Me => held'[i] = held[i] /\ activeJobs'[i] = activeJobs[i],
           held'[sched.job] = NoLease \/ activeJobs'[sched.job].st # "absent"
    PROVE  ReservedOK' /\ SchedOK' /\ NoLeakedPermit'
<1> USE DEF CoreInv, Me
<1>1. sched' \in SchedState /\ sched'.pc = "reconcile" /\ sched'.todo = sched.todo \ {sched.job}
  BY Records DEF Skip, SchedOK, SchedState, SchedLabel
<1>2. sched.job \in Job /\ ReservedOK'
  BY Records DEF SchedOK, SchedOwns, SchedState, Unreserve, SharedOK, ReservedOK
<1>3. \A i \in Job : inFlight'[i] = IF i = sched.job THEN Free ELSE inFlight[i]
  BY <1>2 DEF SharedOK, ReservedOK, Unreserve
<1>4. SchedOK'
  BY <1>1, <1>2, <1>3, Records DEF SchedOK, SchedState, SchedOwns, RowAt, Dispatching, Reconciling
<1>5. NoLeakedPermit'
  BY <1>2, <1>3 DEF NoLeakedPermit, Tracked
<1> QED BY <1>2, <1>4, <1>5
------------------------------------------------------------------------------
\* The actions of the scheduler.

LEMMA WakeKeeps ==
    ASSUME CoreInv, Wake
    PROVE  CoreInv'
<1>1. SchedOK'
  <2>1. sched' \in SchedState /\ sched'.pc = "top" /\ sched'.todo = {}
    BY Records DEF Wake, ToTop, SchedState, SchedLabel
  <2>2. sched.pc = "idle" /\ UNCHANGED inFlight
    BY DEF Wake, At
  <2> QED BY <2>1, <2>2 DEF CoreInv, SchedOK, SchedOwns, RowAt, Dispatching, Reconciling
<1>2. NoLeakedPermit'
  BY DEF CoreInv, Wake, NoLeakedPermit, Tracked
<1> QED
  BY <1>1, <1>2, SchedulerFrame DEF Wake, CoreInv, SharedOK, RowsOK, QueueOK, TasksOK, ActiveOK,
     PermitsOK, ReservedOK, TimersOK, BudgetOK

\* A step that changes no reservation, permit or active job cannot leak a permit.
LEMMA NoPermitMoves ==
    ASSUME CoreInv, UNCHANGED <<held, inFlight, activeJobs>>
    PROVE  PermitsOK' /\ ReservedOK' /\ ActiveOK' /\ NoLeakedPermit'
BY DEF CoreInv, SharedOK, PermitsOK, ReservedOK, ActiveOK, NoLeakedPermit, Tracked

LEMMA StartReconcileKeeps ==
    ASSUME CoreInv, StartReconcile
    PROVE  CoreInv'
<1>1. SchedOK'
  <2>1. sched' \in SchedState /\ sched'.pc = "reconcile" /\ sched'.todo = Dirty
    BY DEF StartReconcile, SchedState, SchedLabel, CoreInv, SchedOK, Dirty
  <2>2. sched.pc = "top" /\ UNCHANGED inFlight
    BY DEF StartReconcile, At, memoryUnchanged, memoryVars
  <2> QED BY <2>1, <2>2 DEF CoreInv, SchedOK, SchedOwns, RowAt, Dispatching, Reconciling, Dirty
<1> QED
  BY <1>1, NoPermitMoves, SchedulerFrame DEF StartReconcile, CoreInv, SharedOK, RowsOK, QueueOK, TasksOK,
     TimersOK, BudgetOK, memoryUnchanged, memoryVars

\* The job taken holds the permit of its dispatch.
LEMMA ListKeeps ==
    ASSUME CoreInv, List
    PROVE  CoreInv'
<1>1. RowsOK' /\ QueueOK' /\ TasksOK' /\ ActiveOK' /\ TimersOK' /\ othersUnchanged
  BY DEF List, CoreInv, SharedOK, RowsOK, QueueOK, TasksOK, ActiveOK, TimersOK
<1>2. BudgetOK'
  BY SpendKeeps DEF List, NoFault, CoreInv, SharedOK, BudgetOK, Faults
<1>3. CASE ToIdle /\ UNCHANGED <<held, inFlight>>
  <2>1. SchedOK'
    BY <1>3, Records, Wanders DEF List, At, ToIdle, CoreInv, RowAt, Dispatching, Reconciling
  <2> QED
    BY <1>1, <1>2, <1>3, <2>1, NoPermitMoves, SchedulerFrame DEF List
<1>4. ASSUME NEW i \in Job, inFlight[i] = Free, held' = [held EXCEPT ![i] = Aria2],
             inFlight' = [inFlight EXCEPT ![i] = [Free EXCEPT !.kind = "clean", !.action = queue[i]]],
             sched' = [SchedIdle EXCEPT !.pc = "fetch", !.job = i, !.action = queue[i]]
      PROVE  CoreInv'
  <2>1. queue[i] \in Action
    BY DEF CoreInv, SharedOK, QueueOK
  <2> DEFINE r == [Free EXCEPT !.kind = "clean", !.action = queue[i]]
             s == [SchedIdle EXCEPT !.pc = "fetch", !.job = i, !.action = queue[i]]
  <2>2. r \in Reservation /\ r.kind = "clean" /\ r # Free
    BY <2>1, Records DEF Reservation
  <2>3. s \in SchedState /\ s.pc = "fetch" /\ s.job = i /\ s.todo = {}
    BY <2>1, Records DEF SchedState, SchedLabel, Dispatching
  <2>4. PermitsOK' /\ ReservedOK'
    BY <1>4, <2>2 DEF CoreInv, SharedOK, PermitsOK, ReservedOK
  <2> HIDE DEF r, s
  <2>5. /\ sched' = s
        /\ \A k \in Job : inFlight'[k] = IF k = i THEN r ELSE inFlight[k]
        /\ \A k \in Job : k # i => held'[k] = held[k]
    BY <1>4 DEF r, s, CoreInv, SharedOK, PermitsOK, ReservedOK
  <2>6. sched.pc = "top" /\ UNCHANGED activeJobs
    BY DEF List, At
  <2>7. SchedOK'
    BY <2>2, <2>3, <2>5, <2>6 DEF CoreInv, SchedOK, SchedOwns, RowAt, Dispatching, Reconciling
  <2>8. NoLeakedPermit'
    BY <2>2, <2>5, <2>6 DEF CoreInv, NoLeakedPermit, Tracked
  <2> QED BY <1>1, <1>2, <2>4, <2>7, <2>8, SchedulerFrame
<1> QED BY <1>3, <1>4 DEF List, Runnable

\* Reading the row or the queue row, and giving up.
LEMMA FetchKeeps ==
    ASSUME CoreInv, Fetch
    PROVE  CoreInv'
<1> USE DEF CoreInv
<1>1. sched.pc \in Dispatching /\ sched.job \in Job
  BY DEF Fetch, At, Dispatching, SchedOK, SchedOwns
<1>2. BudgetOK'
  BY SpendKeeps DEF Fetch, NoFault, SharedOK, BudgetOK, Faults
<1>3. ASSUME Goto("drop_entry"), UNCHANGED inFlight
      PROVE  SchedOK'
  BY <1>1, <1>3, GoesOn DEF Plain, Dispatching
<1>4. ASSUME sched' = [sched EXCEPT !.pc = "entry", !.cur = row[Me]], UNCHANGED inFlight
      PROVE  SchedOK'
  <2> DEFINE s == [sched EXCEPT !.pc = "entry", !.cur = row[Me]]
  <2>1. s \in SchedState /\ RowAt(s) /\ s.pc \in Dispatching /\ s.job = sched.job /\ s.todo = sched.todo
    BY <1>1 DEF SchedOK, SchedState, SchedLabel, Dispatching, RowAt, Me, SharedOK, RowsOK
  <2> QED BY <1>1, <1>4, <2>1, Dispatches
<1>5. SchedOK' /\ UNCHANGED <<held, kick, inFlight>>
  BY <1>3, <1>4 DEF Fetch
<1> QED
  BY <1>2, <1>5, NoPermitMoves, SchedulerFrame DEF Fetch, SharedOK, RowsOK, QueueOK, TasksOK, TimersOK

LEMMA DropEntryKeeps ==
    ASSUME CoreInv, DropEntry
    PROVE  CoreInv'
<1>1. PermitsOK' /\ ReservedOK' /\ TimersOK' /\ SchedOK' /\ NoLeakedPermit'
  BY Abandons DEF DropEntry, At, Dispatching
<1>2. QueueOK' /\ BudgetOK'
  BY DeleteKeeps DEF DropEntry, CoreInv, SharedOK
<1> QED
  BY <1>1, <1>2, SchedulerFrame DEF DropEntry, CoreInv, SharedOK, RowsOK, TasksOK, ActiveOK

LEMMA EntryKeeps ==
    ASSUME CoreInv, Entry
    PROVE  CoreInv'
<1> USE DEF CoreInv
<1>1. sched.pc \in Dispatching
  BY DEF Entry, At, Dispatching
<1>2. BudgetOK'
  BY SpendKeeps DEF Entry, NoFault, SharedOK, BudgetOK, Faults
<1>3. PermitsOK' /\ ReservedOK' /\ TimersOK' /\ SchedOK' /\ NoLeakedPermit'
  <2>1. CASE Goto("load") /\ UNCHANGED <<held, kick, inFlight>>
    <3>1. SchedOK'
      BY <1>1, <2>1, GoesOn DEF Plain, Dispatching
    <3> QED BY <2>1, <3>1, NoPermitMoves DEF Entry, SharedOK, TimersOK
  <2>2. CASE Abandon
    BY <1>1, <2>2, Abandons DEF Entry
  <2> QED BY <2>1, <2>2 DEF Entry
<1> QED
  BY <1>2, <1>3, SchedulerFrame DEF Entry, SharedOK, RowsOK, QueueOK, TasksOK, ActiveOK

\* Preparing the engine call.
LEMMA LoadKeeps ==
    ASSUME CoreInv, Load
    PROVE  CoreInv'
<1> USE DEF CoreInv
<1>1. sched.pc \in Dispatching /\ sched.job \in Job /\ UNCHANGED inFlight
  BY DEF Load, At, Dispatching, SchedOK, SchedOwns, memoryUnchanged, memoryVars
<1>2. BudgetOK'
  BY SpendKeeps DEF Load, NoFault, SharedOK, BudgetOK, Faults
<1>3. ASSUME NEW p \in Plain, sched' = [sched EXCEPT !.j = row[Me], !.pc = p]
      PROVE  SchedOK'
  <2> DEFINE s == [sched EXCEPT !.j = row[Me], !.pc = p]
  <2>1. s \in SchedState /\ s.pc = p /\ s.job = sched.job /\ s.todo = sched.todo
    BY <1>1, Records DEF SchedOK, SchedState, SchedLabel, Plain, Me, SharedOK, RowsOK
  <2>2. RowAt(s) /\ s.pc \in Dispatching
    BY <2>1 DEF Plain, RowAt, Dispatching
  <2> QED BY <1>1, <1>3, <2>1, <2>2, Dispatches
<1>4. ASSUME Goto("lost_entry")
      PROVE  SchedOK'
  BY <1>1, <1>4, GoesOn DEF Plain, Dispatching
<1>5. SchedOK'
  BY <1>3, <1>4 DEF Load, Plain, Dispatching
<1> QED
  BY <1>2, <1>5, NoPermitMoves, SchedulerFrame
  DEF Load, SharedOK, RowsOK, QueueOK, TasksOK, TimersOK, memoryUnchanged, memoryVars

LEMMA LostEntryKeeps ==
    ASSUME CoreInv, LostEntry
    PROVE  CoreInv'
<1>1. SchedOK'
  BY GoesOn DEF LostEntry, At, Plain, Dispatching, CoreInv, memoryUnchanged, memoryVars
<1>2. QueueOK' /\ BudgetOK'
  BY DeleteKeeps DEF LostEntry, CoreInv, SharedOK
<1> QED
  BY <1>1, <1>2, NoPermitMoves, SchedulerFrame
  DEF LostEntry, CoreInv, SharedOK, RowsOK, TasksOK, TimersOK, memoryUnchanged, memoryVars

\* The next task identifier is one of aria2's.
LEMMA NextGidIsGid ==
    ASSUME Unused # {}
    PROVE  NextGid \in Gid
<1> DEFINE Less == OpToRel(<, Nat)
<1>1. Unused \subseteq Nat
  BY DEF Unused, Gid
<1>2. IsWellFoundedOn(Less, Nat)
  BY NatLessThanWellFounded
<1>3. \A x, y \in Nat : x < y => <<x, y>> \in Less
  BY DEF OpToRel
<1> HIDE DEF Less
<1>4. PICK m \in Unused : \A h \in Unused : <<h, m>> \notin Less
  BY <1>1, <1>2, WFMin
<1>5. ASSUME NEW h \in Unused
      PROVE  m <= h
  <2>1. m \in Nat /\ h \in Nat
    BY <1>1
  <2>2. ~(h < m)
    BY <2>1, <1>3, <1>4
  <2> QED BY <2>1, <2>2
<1> QED BY <1>5 DEF NextGid, Unused

LEMMA StartKeeps ==
    ASSUME CoreInv, Start
    PROVE  CoreInv'
<1> USE DEF CoreInv
<1>1. sched.pc \in Dispatching /\ UNCHANGED inFlight
  BY DEF Start, At, Dispatching, memoryUnchanged, memoryVars
<1>2. BudgetOK'
  BY SpendKeeps DEF Start, NoFault, SharedOK, BudgetOK, Faults
<1>3. TasksOK'
  BY DEF Start, NewTask, SharedOK, TasksOK, Task, TaskStatus, SchedOK, SchedState, Me
<1>4. ASSUME sched' = [sched EXCEPT !.pc = "limits", !.j.eid = NextGid]
      PROVE  SchedOK'
  <2> DEFINE s == [sched EXCEPT !.pc = "limits", !.j.eid = NextGid]
  <2>1. NextGid \in Gid
    BY NextGidIsGid DEF Start
  <2>2. s \in SchedState /\ RowAt(s) /\ s.pc \in Dispatching /\ s.job = sched.job /\ s.todo = sched.todo
    BY <2>1 DEF SchedOK, SchedState, SchedLabel, Dispatching, RowAt, Row
  <2> QED BY <1>1, <1>4, <2>2, Dispatches
<1>5. ASSUME Goto("failed")
      PROVE  SchedOK'
  BY <1>1, <1>5, GoesOn DEF Plain, Dispatching
<1>6. SchedOK'
  BY <1>4, <1>5 DEF Start
<1> QED
  BY <1>2, <1>3, <1>6, NoPermitMoves, SchedulerFrame
  DEF Start, SharedOK, RowsOK, QueueOK, TimersOK, memoryUnchanged, memoryVars

\* "started" is entered with a task: after Start, or because Resume found one.
LEMMA ReachesStarted ==
    ASSUME SchedOK, sched.pc \in Dispatching, sched.j.eid \in Gid, Goto("started"), UNCHANGED inFlight
    PROVE  SchedOK'
<1>1. [sched EXCEPT !.pc = "started"] \in SchedState
  BY DEF SchedOK, SchedState, SchedLabel, Dispatching
<1>2. RowAt([sched EXCEPT !.pc = "started"])
  BY <1>1 DEF RowAt, SchedOK, SchedState
<1> QED BY <1>1, <1>2, Dispatches DEF Goto, Dispatching, SchedOK, SchedState

LEMMA LimitsKeeps ==
    ASSUME CoreInv, Limits
    PROVE  CoreInv'
<1> USE DEF CoreInv
<1>1. sched.pc \in Dispatching /\ UNCHANGED inFlight /\ sched.j.eid \in Gid
  BY DEF Limits, At, Dispatching, memoryUnchanged, memoryVars, SchedOK, RowAt
<1>2. SchedOK'
  BY <1>1, GoesOn, ReachesStarted DEF Limits, Plain, Dispatching
<1>3. BudgetOK'
  BY SpendKeeps DEF Limits, NoFault, SharedOK, BudgetOK, Faults
<1> QED
  BY <1>2, <1>3, NoPermitMoves, SchedulerFrame
  DEF Limits, SharedOK, RowsOK, QueueOK, TasksOK, TimersOK, memoryUnchanged, memoryVars

LEMMA ResumeKeeps ==
    ASSUME CoreInv, Resume
    PROVE  CoreInv'
<1> USE DEF CoreInv
<1>1. sched.pc \in Dispatching /\ UNCHANGED inFlight
  BY DEF Resume, At, Dispatching, memoryUnchanged, memoryVars
<1>2. TaskOf(sched.j.eid) = "paused" => sched.j.eid \in Gid
  BY DEF TaskOf, SchedOK, SchedState, Row
<1>3. SchedOK'
  BY <1>1, <1>2, GoesOn, ReachesStarted DEF Resume, Plain, Dispatching
<1>4. TasksOK'
  BY SetTaskKeeps DEF Resume, SharedOK, TasksOK, TaskStatus
<1>5. BudgetOK'
  BY SpendKeeps DEF Resume, NoFault, SharedOK, BudgetOK, Faults
<1> QED
  BY <1>3, <1>4, <1>5, NoPermitMoves, SchedulerFrame
  DEF Resume, SharedOK, RowsOK, QueueOK, TimersOK, memoryUnchanged, memoryVars

\* The row is written before the job is tracked, or the reservation says what to
\* write.
LEMMA StartedKeeps ==
    ASSUME CoreInv, Started
    PROVE  CoreInv'
<1> USE DEF CoreInv
<1> DEFINE r == [st |-> "downloading", eid |-> sched.j.eid]
<1>1. sched.pc \in Dispatching /\ sched.j.eid \in Gid /\ sched.job \in Job /\ sched.action \in Action
  BY DEF Started, At, Dispatching, SchedOK, SchedOwns, SchedState, RowAt
<1>2. BudgetOK'
  BY SpendKeeps DEF Started, NoFault, SharedOK, BudgetOK, Faults
<1>3. r \in GoodRow /\ r \in ActiveRow
  BY <1>1 DEF GoodRow, Row, ActiveRow, JobStatus
<1>4. RowsOK'
  BY <1>1, <1>3, UpdateKeeps DEF Started, Me, SharedOK, RowsOK
<1>5. QueueOK' /\ TasksOK' /\ ActiveOK' /\ PermitsOK' /\ TimersOK' /\ othersUnchanged /\ UNCHANGED <<held, activeJobs>>
  BY DEF Started, SharedOK, QueueOK, TasksOK, ActiveOK, PermitsOK, TimersOK
<1>6. CASE sched' = [sched EXCEPT !.pc = "activate", !.j = r] /\ UNCHANGED inFlight
  <2> DEFINE s == [sched EXCEPT !.pc = "activate", !.j = r]
  <2>1. s \in SchedState /\ RowAt(s) /\ s.pc \in Dispatching /\ s.job = sched.job /\ s.todo = sched.todo
    BY <1>3, Records DEF SchedOK, SchedState, SchedLabel, Dispatching, RowAt
  <2>2. SchedOK'
    BY <1>1, <1>6, <2>1, Dispatches
  <2> QED BY <1>2, <1>4, <1>5, <1>6, <2>2, NoPermitMoves, SchedulerFrame
<1>7. ASSUME inFlight' = [inFlight EXCEPT ![Me] = [Free EXCEPT !.kind = "external",
                              !.action = sched.action, !.eid = sched.j.eid]],
             sched' = [SchedIdle EXCEPT !.pc = "reconcile", !.todo = {Me}, !.stop = TRUE]
      PROVE  CoreInv'
  <2> DEFINE x == [Free EXCEPT !.kind = "external", !.action = sched.action, !.eid = sched.j.eid]
             s == [SchedIdle EXCEPT !.pc = "reconcile", !.todo = {Me}, !.stop = TRUE]
  <2>1. x \in Reservation /\ x.kind = "external"
    BY <1>1, Records DEF Reservation
  <2>2. s \in SchedState /\ s.pc = "reconcile" /\ s.todo = {Me}
    BY <1>1, Records DEF SchedState, SchedLabel, Me
  <2> HIDE DEF x, s
  <2>3. ReservedOK' /\ SchedOK' /\ NoLeakedPermit'
    BY <1>1, <1>5, <1>7, <2>1, <2>2, LeavesDirty DEF x, s
  <2> QED BY <1>2, <1>4, <1>5, <2>3, SchedulerFrame
<1> QED BY <1>6, <1>7 DEF Started

\* The reservation ends and the permit stays, with the job tracked.
LEMMA ActivateKeeps ==
    ASSUME CoreInv, Activate
    PROVE  CoreInv'
<1> USE DEF CoreInv
<1>1. sched.pc = "activate" /\ sched.j \in ActiveRow /\ sched.job \in Job
  BY DEF Activate, At, SchedOK, SchedOwns, RowAt, Dispatching
<1>2. QueueOK' /\ BudgetOK'
  BY DeleteKeeps DEF Activate, SharedOK
<1>3. ReservedOK' /\ ActiveOK' /\ PermitsOK'
  BY <1>1, Records DEF Activate, AddActive, Unreserve, SharedOK, ReservedOK, ActiveOK, PermitsOK
<1>4. /\ \A i \in Job : inFlight'[i] = IF i = sched.job THEN Free ELSE inFlight[i]
      /\ \A i \in Job : activeJobs'[i] = IF i = sched.job THEN sched.j ELSE activeJobs[i]
      /\ UNCHANGED held
  BY <1>1 DEF Activate, AddActive, Unreserve, Me, SharedOK, ReservedOK, ActiveOK
<1>5. sched' \in SchedState /\ sched'.pc = "top" /\ sched'.todo = {}
  BY Records DEF Activate, ToTop, SchedState, SchedLabel
<1>6. SchedOK'
  BY <1>1, <1>4, <1>5, Records DEF SchedOK, SchedOwns, RowAt, Dispatching, Reconciling
<1>7. sched.j.st # "absent"
  BY <1>1 DEF ActiveRow
<1>8. NoLeakedPermit'
  BY <1>4, <1>7 DEF NoLeakedPermit, Tracked
<1> QED
  BY <1>2, <1>3, <1>6, <1>8, SchedulerFrame DEF Activate, SharedOK, RowsOK, TasksOK, TimersOK

LEMMA RefuseKeeps ==
    ASSUME CoreInv, Refuse
    PROVE  CoreInv'
<1> USE DEF CoreInv
<1>1. SchedOK'
  BY GoesOn DEF Refuse, At, Plain, Dispatching, memoryUnchanged, memoryVars
<1>2. TasksOK'
  BY SetTaskKeeps DEF Refuse, SharedOK, TasksOK, TaskStatus
<1>3. BudgetOK'
  BY SpendKeeps DEF Refuse, NoFault, SharedOK, BudgetOK, Faults
<1> QED
  BY <1>1, <1>2, <1>3, NoPermitMoves, SchedulerFrame
  DEF Refuse, SharedOK, RowsOK, QueueOK, TimersOK, memoryUnchanged, memoryVars

\* A failed dispatch leaves a row to be dropped, nothing, or a dirty reservation.
LEMMA FailureKeeps ==
    ASSUME CoreInv, sched.pc \in Dispatching, UNCHANGED <<queue, task, activeJobs>>, othersUnchanged,
           RowsOK', BudgetOK', retryTimer' \in BOOLEAN,
           \/ Goto("drop_entry") /\ UNCHANGED <<held, kick, inFlight>>
           \/ Abandon /\ UNCHANGED retryTimer
           \/ /\ UNCHANGED <<held, kick>> /\ MarkDirtyState
              /\ sched' \in {SchedIdle, [SchedIdle EXCEPT !.pc = "reconcile", !.todo = {Me}, !.stop = TRUE]}
    PROVE  CoreInv'
<1> USE DEF CoreInv
<1>1. QueueOK' /\ TasksOK' /\ ActiveOK'
  BY DEF SharedOK, QueueOK, TasksOK, ActiveOK
<1>2. CASE Goto("drop_entry") /\ UNCHANGED <<held, kick, inFlight>>
  <2>1. SchedOK'
    BY <1>2, GoesOn DEF Plain, Dispatching
  <2> QED BY <1>1, <1>2, <2>1, NoPermitMoves, SchedulerFrame DEF SharedOK, TimersOK
<1>3. CASE Abandon /\ UNCHANGED retryTimer
  BY <1>1, <1>3, Abandons, SchedulerFrame
<1>4. CASE /\ UNCHANGED <<held, kick>> /\ MarkDirtyState
           /\ sched' \in {SchedIdle, [SchedIdle EXCEPT !.pc = "reconcile", !.todo = {Me}, !.stop = TRUE]}
  <2> DEFINE x == [Free EXCEPT !.kind = "state", !.action = sched.action, !.target = FailTarget]
             s == [SchedIdle EXCEPT !.pc = "reconcile", !.todo = {Me}, !.stop = TRUE]
  <2>1. sched.action \in Action /\ sched.job \in Job
    BY DEF SchedOK, SchedOwns, SchedState
  <2>2. x \in Reservation /\ x.kind = "state" /\ x.target # "none"
    BY <2>1, Records DEF Reservation, FailTarget
  <2>3. s \in SchedState /\ s.pc = "reconcile" /\ s.todo = {Me}
    BY <2>1, Records DEF SchedState, SchedLabel, Me
  <2>4. inFlight' = [inFlight EXCEPT ![Me] = x]
    BY <1>4 DEF MarkDirtyState
  <2>5. PICK t \in SchedState : sched' = t /\ t.pc \in {"idle", "reconcile"} /\ t.todo \subseteq {Me}
    BY <1>4, <2>3, Records
  <2> HIDE DEF x, s
  <2>6. ReservedOK' /\ SchedOK' /\ NoLeakedPermit'
    BY <1>4, <2>2, <2>4, <2>5, LeavesDirty
  <2> QED BY <1>1, <1>4, <2>6, SchedulerFrame DEF SharedOK, TimersOK, PermitsOK
<1> QED BY <1>2, <1>3, <1>4

LEMMA RefusedKeeps ==
    ASSUME CoreInv, Refused
    PROVE  CoreInv'
<1> USE DEF CoreInv
<1>1. sched.pc \in Dispatching /\ sched.job \in Job /\ sched.j \in Row
  BY DEF Refused, At, Dispatching, SchedOK, SchedOwns, SchedState
<1>2. [sched.j EXCEPT !.st = FailTarget] \in GoodRow
  BY <1>1, GoodRows DEF FailTarget, JobStatus
<1>3. RowsOK'
  BY <1>1, <1>2, UpdateKeeps DEF Refused, Me, SharedOK, RowsOK
<1>4. BudgetOK'
  BY SpendKeeps DEF Refused, NoFault, SharedOK, BudgetOK, Faults
<1>5. UNCHANGED <<queue, task, activeJobs, retryTimer>> /\ othersUnchanged /\ retryTimer' \in BOOLEAN
  BY DEF Refused, SharedOK, TimersOK
<1>6. \/ Goto("drop_entry") /\ UNCHANGED <<held, kick, inFlight>>
      \/ Abandon
      \/ /\ UNCHANGED <<held, kick>> /\ MarkDirtyState
         /\ sched' = [SchedIdle EXCEPT !.pc = "reconcile", !.todo = {Me}, !.stop = TRUE]
  BY DEF Refused
<1> QED BY <1>1, <1>3, <1>4, <1>5, <1>6, FailureKeeps

LEMMA FailedKeeps ==
    ASSUME CoreInv, Failed
    PROVE  CoreInv'
<1> USE DEF CoreInv
<1>1. sched.pc \in Dispatching /\ sched.job \in Job /\ sched.cur \in Row
  BY Records DEF Failed, At, Dispatching, SchedOK, SchedOwns, SchedState
<1>2. [sched.cur EXCEPT !.st = FailTarget] \in GoodRow
  BY <1>1, GoodRows DEF FailTarget, JobStatus
<1>3. RowsOK'
  BY <1>1, <1>2, UpdateKeeps DEF Failed, Me, SharedOK, RowsOK
<1>4. BudgetOK'
  BY SpendKeeps DEF Failed, NoFault, SharedOK, BudgetOK, Faults
<1>5. UNCHANGED <<queue, task, activeJobs>> /\ othersUnchanged /\ retryTimer' \in BOOLEAN
  BY DEF Failed, SharedOK, TimersOK
<1>6. \/ Goto("drop_entry") /\ UNCHANGED <<held, kick, inFlight>>
      \/ Abandon /\ UNCHANGED retryTimer
      \/ UNCHANGED <<held, kick>> /\ MarkDirtyState /\ sched' = SchedIdle
  BY DEF Failed, ToIdle
<1> QED BY <1>1, <1>3, <1>4, <1>5, <1>6, FailureKeeps

\* Reconciliation: what it reads tells it what to write.
LEMMA ReconcileKeeps ==
    ASSUME CoreInv, Reconcile
    PROVE  CoreInv'
<1> USE DEF CoreInv
<1>1. BudgetOK'
  BY SpendKeeps DEF Reconcile, NoFault, SharedOK, BudgetOK, Faults
<1>2. sched.pc = "reconcile" /\ UNCHANGED inFlight
  BY DEF Reconcile, At, memoryUnchanged, memoryVars
<1>3. ASSUME NEW i \in sched.todo, sched' = [sched EXCEPT !.todo = @ \ {i}]
      PROVE  SchedOK'
  <2>1. sched' \in SchedState /\ sched'.pc = "reconcile" /\ sched'.todo \subseteq sched.todo
    BY <1>2, <1>3 DEF SchedOK, SchedState
  <2> QED BY <1>2, <2>1 DEF SchedOK, SchedOwns, RowAt, Dispatching, Reconciling
<1>4. ASSUME NEW i \in sched.todo, NEW r \in Row, NEW p \in {"rs_write", "rx_status"},
             p = "rs_write" => r \in GoodRow,
             sched' = [sched EXCEPT !.job = i, !.action = inFlight[i].action, !.j = r, !.pc = p]
      PROVE  SchedOK'
  <2>1. i \in Job /\ inFlight[i].action \in Action
    BY DEF SchedOK, SchedState, SharedOK, ReservedOK, Reservation
  <2>2. /\ sched' \in SchedState
        /\ sched'.pc = p /\ sched'.job = i /\ sched'.todo = sched.todo /\ sched'.j = r
    BY <1>4, <2>1 DEF SchedOK, SchedState, SchedLabel, Reconciling
  <2>3. SchedOwns'
    BY <1>2, <2>2 DEF SchedOK, SchedOwns, Dispatching, Reconciling
  <2>4. RowAt(sched')
    BY <1>4, <2>2 DEF RowAt
  <2> QED BY <2>2, <2>3, <2>4 DEF SchedOK, RowAt
<1>5. ASSUME NEW i \in sched.todo, Exists(i),
             NEW eid \in Gid \cup {NoGid}, eid = IF row[i].eid # NoGid THEN row[i].eid ELSE inFlight[i].eid,
             sched' = [sched EXCEPT !.job = i, !.action = inFlight[i].action,
                 !.j = IF inFlight[i].kind = "state" THEN [row[i] EXCEPT !.st = inFlight[i].target]
                                                     ELSE [row[i] EXCEPT !.eid = eid],
                 !.pc = IF inFlight[i].kind = "state" THEN "rs_write" ELSE "rx_status"]
      PROVE  SchedOK'
  <2>1. i \in Job /\ row[i] \in Row /\ inFlight[i] \in Reservation
    BY Records DEF SchedOK, SchedState, SharedOK, ReservedOK, RowsOK
  <2>2. CASE inFlight[i].kind = "state"
    <3>1. inFlight[i].target \in {"failed", "paused"}
      BY <2>1, <2>2 DEF SchedOK, SchedOwns, Reservation
    <3>2. [row[i] EXCEPT !.st = inFlight[i].target] \in GoodRow
      BY <2>1, <3>1, GoodRows DEF JobStatus
    <3> QED BY <1>4, <1>5, <2>2, <3>2, Records
  <2>3. CASE inFlight[i].kind # "state"
    <3>1. [row[i] EXCEPT !.eid = eid] \in Row
      BY <2>1 DEF Row
    <3> QED BY <1>4, <1>5, <2>3, <3>1
  <2> QED BY <2>2, <2>3
<1>6. \A i \in sched.todo :
         (IF row[i].eid # NoGid THEN row[i].eid ELSE inFlight[i].eid) \in Gid \cup {NoGid}
  BY Records DEF SchedOK, SchedState, SharedOK, RowsOK, ReservedOK, Reservation, Row
<1>7. SchedOK'
  BY <1>3, <1>5, <1>6 DEF Reconcile
<1> QED
  BY <1>1, <1>7, NoPermitMoves, SchedulerFrame
  DEF Reconcile, SharedOK, RowsOK, QueueOK, TasksOK, TimersOK, memoryUnchanged, memoryVars

\* A reservation settled by giving its permit back.
LEMMA GivesBack ==
    ASSUME CoreInv, sched.pc \in Reconciling, Skip, Unreserve(Me), Drop(Me), UNCHANGED activeJobs
    PROVE  PermitsOK' /\ ReservedOK' /\ ActiveOK' /\ SchedOK' /\ NoLeakedPermit'
<1>1. PermitsOK' /\ ActiveOK'
  BY DEF CoreInv, SharedOK, PermitsOK, ActiveOK, Drop
<1>2. sched.job \in Job
  BY DEF CoreInv, SchedOK, SchedOwns, SchedState
<1>3. \A i \in Job : held'[i] = IF i = sched.job THEN NoLease ELSE held[i]
  BY <1>2 DEF CoreInv, SharedOK, PermitsOK, Drop, Me
<1> QED BY <1>1, <1>2, <1>3, Settles DEF Me

LEMMA RsWriteKeeps ==
    ASSUME CoreInv, RsWrite
    PROVE  CoreInv'
<1> USE DEF CoreInv
<1>1. /\ sched.pc = "rs_write" /\ sched.pc \in Reconciling
      /\ sched.j \in GoodRow /\ sched.job \in Job /\ UNCHANGED activeJobs
  BY DEF RsWrite, At, SchedOK, SchedOwns, SchedState, RowAt, Reconciling
<1>2. RowsOK'
  BY <1>1, UpdateKeeps DEF RsWrite, Me, SharedOK, RowsOK
<1>3. BudgetOK'
  BY SpendKeeps DEF RsWrite, NoFault, SharedOK, BudgetOK, Faults
<1>4. QueueOK' /\ TasksOK' /\ ActiveOK' /\ TimersOK' /\ othersUnchanged
  BY DEF RsWrite, SharedOK, QueueOK, TasksOK, ActiveOK, TimersOK
<1>5. PermitsOK' /\ ReservedOK' /\ SchedOK' /\ NoLeakedPermit'
  <2>1. CASE Goto("rs_delete") /\ UNCHANGED <<held, kick, inFlight>>
    <3> DEFINE s == [sched EXCEPT !.pc = "rs_delete"]
    <3>1. s \in SchedState /\ RowAt(s) /\ s.pc = "rs_delete" /\ s.job = sched.job /\ s.todo = sched.todo
      BY <1>1 DEF SchedOK, SchedState, SchedLabel, Reconciling, RowAt
    <3>2. sched' = s
      BY <2>1 DEF Goto
    <3> HIDE DEF s
    <3>3. SchedOK'
      BY <1>1, <2>1, <3>1, <3>2, Wanders DEF Dispatching, Reconciling, SchedOK, SchedOwns
    <3> QED BY <1>1, <2>1, <3>3, NoPermitMoves
  <2>2. CASE Skip /\ UNCHANGED <<held, kick, inFlight>>
    BY <1>1, <2>2, Skips, NoPermitMoves
  <2>3. CASE Skip /\ Unreserve(Me) /\ Drop(Me)
    BY <1>1, <2>3, GivesBack
  <2> QED BY <2>1, <2>2, <2>3 DEF RsWrite
<1> QED BY <1>2, <1>3, <1>4, <1>5, SchedulerFrame

LEMMA RsDeleteKeeps ==
    ASSUME CoreInv, RsDelete
    PROVE  CoreInv'
<1>1. PermitsOK' /\ ReservedOK' /\ ActiveOK' /\ SchedOK' /\ NoLeakedPermit'
  BY GivesBack DEF RsDelete, At, Reconciling
<1>2. QueueOK' /\ BudgetOK'
  BY DeleteKeeps DEF RsDelete, CoreInv, SharedOK
<1> QED
  BY <1>1, <1>2, SchedulerFrame DEF RsDelete, CoreInv, SharedOK, RowsOK, TasksOK, TimersOK

\* Only a known task has a state, so the row that is to say DOWNLOADING names one.
LEMMA RxStatusKeeps ==
    ASSUME CoreInv, RxStatus
    PROVE  CoreInv'
<1> USE DEF CoreInv
<1>1. sched.pc = "rx_status" /\ sched.pc \in Reconciling /\ UNCHANGED inFlight
  BY DEF RxStatus, At, Reconciling, memoryUnchanged, memoryVars
<1>2. BudgetOK'
  BY SpendKeeps DEF RxStatus, NoFault, SharedOK, BudgetOK, Faults
<1>3. ASSUME TaskOf(sched.j.eid) \in {"active", "complete"},
             sched' = [sched EXCEPT !.pc = "rx_write", !.j.st = "downloading"]
      PROVE  SchedOK'
  <2> DEFINE s == [sched EXCEPT !.pc = "rx_write", !.j.st = "downloading"]
  <2>1. sched.j.eid \in Gid
    BY <1>3 DEF TaskOf, SchedOK, SchedState, Row
  <2>2. /\ s \in SchedState /\ s.j \in ActiveRow
        /\ s.pc = "rx_write" /\ s.job = sched.job /\ s.todo = sched.todo
    BY <2>1 DEF SchedOK, SchedState, SchedLabel, Reconciling, Row, ActiveRow, JobStatus
  <2>3. sched' = s
    BY <1>3
  <2> HIDE DEF s
  <2>4. RowAt(s)
    BY <2>2 DEF RowAt
  <2> QED BY <1>1, <2>2, <2>3, <2>4, Wanders DEF Dispatching, Reconciling, SchedOK, SchedOwns
<1>4. SchedOK'
  BY <1>1, <1>3, Skips DEF RxStatus
<1> QED
  BY <1>2, <1>4, NoPermitMoves, SchedulerFrame
  DEF RxStatus, SharedOK, RowsOK, QueueOK, TasksOK, TimersOK, memoryUnchanged, memoryVars

LEMMA RxWriteKeeps ==
    ASSUME CoreInv, RxWrite
    PROVE  CoreInv'
<1> USE DEF CoreInv
<1>1. /\ sched.pc = "rx_write" /\ sched.pc \in Reconciling /\ UNCHANGED inFlight
      /\ sched.j \in ActiveRow /\ sched.job \in Job
  BY DEF RxWrite, At, Reconciling, memoryUnchanged, memoryVars, SchedOK, SchedOwns, SchedState, RowAt
<1>2. RowsOK'
  BY <1>1, Records, UpdateKeeps DEF RxWrite, Me, SharedOK, RowsOK
<1>3. BudgetOK'
  BY SpendKeeps DEF RxWrite, NoFault, SharedOK, BudgetOK, Faults
<1>4. ASSUME Goto("rx_delete")
      PROVE  SchedOK'
  <2> DEFINE s == [sched EXCEPT !.pc = "rx_delete"]
  <2>1. s \in SchedState /\ s.j = sched.j /\ s.pc = "rx_delete" /\ s.job = sched.job /\ s.todo = sched.todo
    BY DEF SchedOK, SchedState, SchedLabel, Reconciling
  <2>2. sched' = s
    BY <1>4 DEF Goto
  <2> HIDE DEF s
  <2>3. RowAt(s)
    BY <1>1, <2>1 DEF RowAt
  <2> QED BY <1>1, <2>1, <2>2, <2>3, Wanders DEF Dispatching, Reconciling, SchedOK, SchedOwns
<1>5. SchedOK'
  BY <1>1, <1>4, Skips DEF RxWrite
<1> QED
  BY <1>2, <1>3, <1>5, NoPermitMoves, SchedulerFrame
  DEF RxWrite, SharedOK, QueueOK, TasksOK, TimersOK, memoryUnchanged, memoryVars

\* A reservation settled by tracking its job.
LEMMA RxDeleteKeeps ==
    ASSUME CoreInv, RxDelete
    PROVE  CoreInv'
<1> USE DEF CoreInv
<1>1. sched.pc \in Reconciling /\ sched.j \in ActiveRow /\ sched.job \in Job
  BY DEF RxDelete, At, Reconciling, SchedOK, SchedOwns, SchedState, RowAt
<1>2. QueueOK' /\ BudgetOK'
  BY DeleteKeeps DEF RxDelete, SharedOK
<1>3. ActiveOK' /\ PermitsOK'
  BY <1>1 DEF RxDelete, AddActive, SharedOK, ActiveOK, PermitsOK
<1>4. \A i \in Job : activeJobs'[i] = IF i = sched.job THEN sched.j ELSE activeJobs[i]
  BY <1>1 DEF RxDelete, AddActive, Me, SharedOK, ActiveOK
<1>5. sched.j.st # "absent"
  BY <1>1 DEF ActiveRow
<1>6. ReservedOK' /\ SchedOK' /\ NoLeakedPermit'
  BY <1>1, <1>3, <1>4, <1>5, Settles DEF RxDelete, Me
<1> QED
  BY <1>2, <1>3, <1>6, SchedulerFrame DEF RxDelete, SharedOK, RowsOK, TasksOK, TimersOK

LEMMA EndReconcileKeeps ==
    ASSUME CoreInv, EndReconcile
    PROVE  CoreInv'
<1> USE DEF CoreInv
<1>1. sched.pc = "reconcile" /\ UNCHANGED <<held, inFlight, activeJobs>>
  BY DEF EndReconcile, At
<1>2. sched' \in SchedState /\ sched'.pc \in {"idle", "top"} /\ sched'.todo = {}
  BY Records DEF EndReconcile, ToIdle, ToTop, SchedState, SchedLabel
<1>3. SchedOK'
  BY <1>1, <1>2 DEF SchedOK, SchedOwns, RowAt, Dispatching, Reconciling
<1> QED
  BY <1>1, <1>3, NoPermitMoves, SchedulerFrame
  DEF EndReconcile, SharedOK, RowsOK, QueueOK, TasksOK, TimersOK, BudgetOK

LEMMA SchedulerKeeps ==
    ASSUME CoreInv, SchedulerStep
    PROVE  CoreInv'
BY WakeKeeps, StartReconcileKeeps, ListKeeps, FetchKeeps, DropEntryKeeps, EntryKeeps, LoadKeeps,
   LostEntryKeeps, StartKeeps, LimitsKeeps, ResumeKeeps, StartedKeeps, ActivateKeeps, RefuseKeeps,
   RefusedKeeps, FailedKeeps, ReconcileKeeps, RsWriteKeeps, RsDeleteKeeps, RxStatusKeeps,
   RxWriteKeeps, RxDeleteKeeps, EndReconcileKeeps
DEF SchedulerStep
------------------------------------------------------------------------------
\* The user commands.

\* A step that leaves the scheduler and the reservations alone.
LEMMA SchedStays ==
    ASSUME SchedOK, UNCHANGED <<sched, inFlight>>
    PROVE  SchedOK'
BY DEF SchedOK, SchedOwns, RowAt

LEMMA CommandFrame ==
    ASSUME CoreInv, elseUnchanged,
           RowsOK', QueueOK', TasksOK', ActiveOK', PermitsOK', kick' \in BOOLEAN, BudgetOK',
           CmdOK', NoLeakedPermit'
    PROVE  CoreInv'
<1>1. SchedOK'
  BY SchedStays DEF CoreInv, elseUnchanged
<1> QED
  BY <1>1 DEF CoreInv, SharedOK, ReservedOK, TimersOK, StartOK, MonOK, elseUnchanged

\* One client moves: it ends, or goes on with the same job.
LEMMA ClientMoves ==
    ASSUME CmdOK, NEW c \in Client, NEW r \in CmdState, cmd' = [cmd EXCEPT ![c] = r],
           r.pc # "idle" => r.job \in Job
    PROVE  CmdOK'
BY DEF CmdOK

LEMMA ClientGoes ==
    ASSUME CmdOK, NEW c \in Client, cmd[c].pc # "idle", NEW p \in CmdLabel, CmdGoto(c, p)
    PROVE  CmdOK'
<1>1. [cmd[c] EXCEPT !.pc = p] \in CmdState /\ cmd[c].job \in Job
  BY DEF CmdOK, CmdState
<1>2. cmd' = [cmd EXCEPT ![c] = [cmd[c] EXCEPT !.pc = p]]
  BY DEF CmdGoto
<1>3. [cmd[c] EXCEPT !.pc = p].job = cmd[c].job
  BY DEF CmdOK, CmdState
<1> QED BY <1>1, <1>2, <1>3, ClientMoves

LEMMA ClientFinishes ==
    ASSUME CmdOK, NEW c \in Client, Finish(c)
    PROVE  CmdOK'
BY Records, ClientMoves DEF Finish

\* A job that is forgotten gives its permit back.
LEMMA RemoveKeeps ==
    ASSUME ActiveOK, PermitsOK, NoLeakedPermit, NEW i \in Job, RemoveActive(i), UNCHANGED inFlight
    PROVE  ActiveOK' /\ PermitsOK' /\ NoLeakedPermit'
<1>1. ActiveOK' /\ PermitsOK'
  BY DEF RemoveActive, Drop, ActiveOK, PermitsOK
<1>2. \A k \in Job : k # i => activeJobs'[k] = activeJobs[k] /\ held'[k] = held[k]
  BY DEF RemoveActive, Drop, ActiveOK, PermitsOK
<1>3. held'[i] = NoLease
  BY DEF RemoveActive, Drop, PermitsOK
<1> QED BY <1>1, <1>2, <1>3 DEF NoLeakedPermit, Tracked

\* A step that tracks no other jobs and gives out no permit.
LEMMA TrackingStays ==
    ASSUME ActiveOK, PermitsOK, NoLeakedPermit, UNCHANGED <<activeJobs, held, inFlight>>
    PROVE  ActiveOK' /\ PermitsOK' /\ NoLeakedPermit'
BY DEF ActiveOK, PermitsOK, NoLeakedPermit, Tracked

LEMMA BeginKeeps ==
    ASSUME CoreInv, NEW c \in Client, NEW i \in Job,
           NEW op \in {"pause", "resume", "cancel", "retry", "run_now", "delete"}, Begin(c, op, i)
    PROVE  CoreInv'
<1> USE DEF CoreInv, SharedOK
<1> DEFINE r == [CmdIdle EXCEPT !.pc = FirstCall(op, row[i]), !.op = op, !.job = i, !.j = row[i],
                    !.action = IF op = "retry" THEN "start" ELSE "resume"]
<1>1. FirstCall(op, row[i]) \in CmdLabel
  BY DEF FirstCall, CmdLabel
<1>2. r \in CmdState /\ r.job = i
  BY <1>1, Records DEF CmdState, RowsOK, Action
<1>3. cmd' = [cmd EXCEPT ![c] = r]
  BY DEF Begin
<1> HIDE DEF r
<1>4. CmdOK'
  BY <1>2, <1>3, ClientMoves
<1>5. BudgetOK'
  BY SpendKeeps DEF Begin, Faults
<1> QED
  BY <1>4, <1>5, TrackingStays, CommandFrame
  DEF Begin, RowsOK, QueueOK, TasksOK, TimersOK, trackingUnchanged, elseUnchanged

LEMMA BeginCreateKeeps ==
    ASSUME CoreInv, NEW c \in Client, NEW i \in Job, BeginCreate(c, i)
    PROVE  CoreInv'
<1> USE DEF CoreInv, SharedOK
<1> DEFINE r == [CmdIdle EXCEPT !.pc = "enqueue", !.op = "create", !.job = i, !.action = "start",
                    !.j = [st |-> "queued", eid |-> NoGid]]
<1>1. [st |-> "queued", eid |-> NoGid] \in GoodRow
  BY DEF GoodRow, Row, JobStatus
<1>2. r \in CmdState /\ r.job = i
  BY <1>1, Records DEF CmdState, CmdLabel, Action
<1>3. cmd' = [cmd EXCEPT ![c] = r]
  BY DEF BeginCreate
<1> HIDE DEF r
<1>4. CmdOK'
  BY <1>2, <1>3, ClientMoves
<1>5. BudgetOK'
  BY SpendKeeps DEF BeginCreate, Faults
<1> QED
  BY <1>4, <1>5, TrackingStays, CommandFrame
  DEF BeginCreate, RowsOK, QueueOK, TasksOK, TimersOK, trackingUnchanged, elseUnchanged

LEMMA CallEngineKeeps ==
    ASSUME CoreInv, NEW c \in Client, CallEngine(c)
    PROVE  CoreInv'
<1> USE DEF CoreInv, SharedOK
<1>1. CmdOK'
  BY ClientGoes, ClientFinishes DEF CallEngine, CmdAt, CmdLabel
<1>2. TasksOK'
  BY SetTaskKeeps DEF CallEngine, TasksOK, TaskStatus
<1>3. BudgetOK'
  BY SpendKeeps DEF CallEngine, NoFault, BudgetOK, Faults
<1> QED
  BY <1>1, <1>2, <1>3, TrackingStays, CommandFrame
  DEF CallEngine, RowsOK, QueueOK, TimersOK, trackingUnchanged, elseUnchanged

LEMMA GetEntryKeeps ==
    ASSUME CoreInv, NEW c \in Client, GetEntry(c)
    PROVE  CoreInv'
<1> USE DEF CoreInv, SharedOK
<1>1. cmd[c].job \in Job /\ cmd[c] \in CmdState
  BY DEF GetEntry, CmdAt, CmdOK
<1>2. queue[cmd[c].job] \in Action
  BY <1>1 DEF QueueOK
<1>3. ASSUME NEW a \in Action, cmd' = [cmd EXCEPT ![c].pc = "enqueue", ![c].action = a]
      PROVE  CmdOK'
  <2> DEFINE r == [cmd[c] EXCEPT !.pc = "enqueue", !.action = a]
  <2>1. r \in CmdState /\ r.job = cmd[c].job
    BY <1>1 DEF CmdState, CmdLabel
  <2>2. cmd' = [cmd EXCEPT ![c] = r]
    BY <1>3, <1>1 DEF CmdOK
  <2> HIDE DEF r
  <2> QED BY <1>1, <2>1, <2>2, ClientMoves
<1>4. CmdOK'
  BY <1>2, <1>3, ClientFinishes DEF GetEntry, Action
<1>5. BudgetOK'
  BY SpendKeeps DEF GetEntry, NoFault, BudgetOK, Faults
<1> QED
  BY <1>4, <1>5, TrackingStays, CommandFrame
  DEF GetEntry, RowsOK, QueueOK, TasksOK, TimersOK, trackingUnchanged, elseUnchanged

LEMMA EnqueueKeeps ==
    ASSUME CoreInv, NEW c \in Client, Enqueue(c)
    PROVE  CoreInv'
<1> USE DEF CoreInv, SharedOK
<1>1. cmd[c].job \in Job /\ cmd[c] \in CmdState /\ cmd[c].pc # "idle"
  BY DEF Enqueue, CmdAt, CmdOK
<1>2. ASSUME cmd' = [cmd EXCEPT ![c].pc = "update", ![c].ok = FALSE]
      PROVE  CmdOK'
  <2> DEFINE r == [cmd[c] EXCEPT !.pc = "update", !.ok = FALSE]
  <2>1. r \in CmdState /\ r.job = cmd[c].job
    BY <1>1 DEF CmdState, CmdLabel
  <2>2. cmd' = [cmd EXCEPT ![c] = r]
    BY <1>1, <1>2 DEF CmdOK
  <2> HIDE DEF r
  <2> QED BY <1>1, <2>1, <2>2, ClientMoves
<1>3. CmdOK'
  BY <1>1, <1>2, ClientGoes, ClientFinishes DEF Enqueue, CmdLabel
<1>4. QueueOK'
  BY <1>1, SetQueueKeeps DEF Enqueue, QueueOK, CmdState
<1>5. BudgetOK' /\ kick' \in BOOLEAN
  BY SpendKeeps DEF Enqueue, NoFault, BudgetOK, Faults, Kick, TimersOK
<1> QED
  BY <1>3, <1>4, <1>5, TrackingStays, CommandFrame DEF Enqueue, RowsOK, TasksOK, elseUnchanged

LEMMA InsertKeeps ==
    ASSUME CoreInv, NEW c \in Client, Insert(c)
    PROVE  CoreInv'
<1> USE DEF CoreInv, SharedOK
<1>1. cmd[c].job \in Job /\ cmd[c].j \in GoodRow /\ cmd[c].pc # "idle"
  BY DEF Insert, CmdAt, CmdOK, CmdState
<1>2. RowsOK'
  BY <1>1, Records DEF Insert, RowsOK
<1>3. CmdOK'
  BY <1>1, ClientGoes, ClientFinishes DEF Insert, CmdLabel
<1>4. BudgetOK' /\ kick' \in BOOLEAN
  BY SpendKeeps DEF Insert, NoFault, BudgetOK, Faults, Kick, TimersOK
<1> QED
  BY <1>2, <1>3, <1>4, TrackingStays, CommandFrame DEF Insert, QueueOK, TasksOK, elseUnchanged

\* No command writes DOWNLOADING.
LEMMA WriteStatusKeeps ==
    ASSUME CoreInv, NEW c \in Client, WriteStatus(c)
    PROVE  CoreInv'
<1> USE DEF CoreInv, SharedOK
<1>1. cmd[c].job \in Job /\ cmd[c].j \in Row /\ cmd[c].pc # "idle"
  BY Records DEF WriteStatus, CmdAt, CmdOK, CmdState
<1>2. [cmd[c].j EXCEPT !.st = Target(cmd[c].op)] \in GoodRow
  BY <1>1, GoodRows DEF Target, JobStatus
<1>3. RowsOK'
  BY <1>1, <1>2, UpdateKeeps DEF WriteStatus, RowsOK
<1>4. CmdOK'
  BY <1>1, ClientGoes, ClientFinishes DEF WriteStatus, CmdLabel
<1>5. BudgetOK' /\ kick' \in BOOLEAN
  BY SpendKeeps DEF WriteStatus, NoFault, BudgetOK, Faults, Kick, TimersOK, trackingUnchanged
<1>6. RemoveActive(cmd[c].job) \/ UNCHANGED <<activeJobs, held>>
  BY DEF WriteStatus, trackingUnchanged
<1>7. ActiveOK' /\ PermitsOK' /\ NoLeakedPermit'
  BY <1>1, <1>6, RemoveKeeps, TrackingStays DEF WriteStatus, elseUnchanged
<1> QED
  BY <1>3, <1>4, <1>5, <1>7, CommandFrame DEF WriteStatus, QueueOK, TasksOK

LEMMA UndoKeeps ==
    ASSUME CoreInv, NEW c \in Client, Undo(c)
    PROVE  CoreInv'
<1> USE DEF CoreInv, SharedOK
<1>1. CmdOK'
  BY ClientFinishes DEF Undo
<1>2. QueueOK' /\ BudgetOK'
  BY DeleteKeeps DEF Undo
<1> QED
  BY <1>1, <1>2, TrackingStays, CommandFrame
  DEF Undo, RowsOK, TasksOK, TimersOK, trackingUnchanged, elseUnchanged

LEMMA DequeueKeeps ==
    ASSUME CoreInv, NEW c \in Client, Dequeue(c)
    PROVE  CoreInv'
<1> USE DEF CoreInv, SharedOK
<1>1. CmdOK'
  BY ClientFinishes DEF Dequeue
<1>2. QueueOK' /\ BudgetOK'
  BY DeleteKeeps DEF Dequeue
<1>3. cmd[c].job \in Job
  BY DEF Dequeue, CmdAt, CmdOK
<1>4. ActiveOK' /\ PermitsOK' /\ NoLeakedPermit'
  BY <1>3, RemoveKeeps DEF Dequeue, elseUnchanged
<1> QED
  BY <1>1, <1>2, <1>4, CommandFrame DEF Dequeue, RowsOK, TasksOK, Kick

LEMMA CascadeKeeps ==
    ASSUME CoreInv, NEW c \in Client, Cascade(c)
    PROVE  CoreInv'
<1> USE DEF CoreInv, SharedOK
<1>1. CmdOK'
  BY ClientFinishes DEF Cascade
<1>2. cmd[c].job \in Job
  BY DEF Cascade, CmdAt, CmdOK
<1>3. RowsOK'
  BY <1>2, Records DEF Cascade, RowsOK
<1>4. QueueOK'
  BY SetQueueKeeps DEF Cascade, QueueOK, Action
<1>5. BudgetOK' /\ kick' \in BOOLEAN
  BY SpendKeeps DEF Cascade, NoFault, BudgetOK, Faults, Kick, TimersOK, trackingUnchanged
<1>6. RemoveActive(cmd[c].job) \/ UNCHANGED <<activeJobs, held>>
  BY DEF Cascade, trackingUnchanged
<1>7. ActiveOK' /\ PermitsOK' /\ NoLeakedPermit'
  BY <1>2, <1>6, RemoveKeeps, TrackingStays DEF Cascade, elseUnchanged
<1> QED
  BY <1>1, <1>3, <1>4, <1>5, <1>7, CommandFrame DEF Cascade, TasksOK

LEMMA CommandKeeps ==
    ASSUME CoreInv, NEW c \in Client, Request(c) \/ CommandCall(c)
    PROVE  CoreInv'
BY BeginKeeps, BeginCreateKeeps, CallEngineKeeps, GetEntryKeeps, EnqueueKeeps, InsertKeeps,
   WriteStatusKeeps, UndoKeeps, DequeueKeeps, CascadeKeeps
DEF Request, CommandCall
------------------------------------------------------------------------------
\* The monitor.

LEMMA MonitorFrame ==
    ASSUME CoreInv, restUnchanged,
           RowsOK', ActiveOK', PermitsOK', kick' \in BOOLEAN, BudgetOK', MonOK', NoLeakedPermit'
    PROVE  CoreInv'
<1>1. SchedOK'
  BY SchedStays DEF CoreInv, restUnchanged
<1> QED
  BY <1>1 DEF CoreInv, SharedOK, QueueOK, TasksOK, ReservedOK, TimersOK, StartOK, CmdOK, restUnchanged

\* The copy the monitor works with can be written as any state.
LEMMA CopyIsGood ==
    ASSUME MonOK, mon.pc \notin {"idle", "visit"}
    PROVE  /\ mon.job \in Job /\ Copy \in ActiveRow
           /\ \A st \in JobStatus : [Copy EXCEPT !.st = st] \in GoodRow
           /\ [Copy EXCEPT !.st = "downloading"] \in ActiveRow
<1>1. mon.job \in Job /\ Copy \in ActiveRow
  BY DEF MonOK, MonState, Copy
<1>2. Copy \in Row /\ Copy.eid \in Gid
  BY <1>1, Records DEF ActiveRow
<1> QED BY <1>1, <1>2, GoodRows DEF ActiveRow

LEMMA MovesOn ==
    ASSUME MonOK, NEW i \in Job, NextCopy(i), fails' \in [Job -> 0..MaxFailures]
    PROVE  MonOK'
BY DEF MonOK, MonState, MonLabel, NextCopy

LEMMA ResetKeeps ==
    ASSUME MonOK, NEW i \in Job, ResetFailures(i)
    PROVE  fails' \in [Job -> 0..MaxFailures]
BY DEF MonOK, ResetFailures, CoreAssumptions

LEMMA TickKeeps ==
    ASSUME CoreInv, Tick \/ EndTick
    PROVE  CoreInv'
<1> USE DEF CoreInv, SharedOK
<1>1. MonOK'
  BY Records DEF Tick, EndTick, MonOK, MonState, MonLabel, ActiveOK
<1>2. UNCHANGED <<row, activeJobs, held, kick, fails, budget>> /\ restUnchanged
  BY DEF Tick, EndTick
<1> QED
  BY <1>1, <1>2, TrackingStays, MonitorFrame DEF RowsOK, TimersOK, BudgetOK, restUnchanged

LEMMA PollKeeps ==
    ASSUME CoreInv, NEW i \in Job, Poll(i)
    PROVE  CoreInv'
<1> USE DEF CoreInv, SharedOK
<1>1. mon.snap[i] # Absent /\ mon.snap[i].eid \in Gid /\ mon \in MonState
  BY DEF Poll, MonOK, MonState, ActiveRow
<1>2. fails' \in [Job -> 0..MaxFailures]
  BY DEF Poll, MonOK, ResetFailures, CoreAssumptions
<1>3. ASSUME NEW st \in JobStatus, mon' = [mon EXCEPT !.pc = "apply", !.job = i, !.status = st]
      PROVE  MonOK'
  BY <1>1, <1>2, <1>3 DEF MonOK, MonState, MonLabel
<1>4. ASSUME mon' = [mon EXCEPT !.pc = "condemn", !.job = i]
      PROVE  MonOK'
  BY <1>1, <1>2, <1>4 DEF MonOK, MonState, MonLabel
<1>5. MapAria2Status(task[mon.snap[i].eid].st) \in JobStatus
  BY DEF MapAria2Status, JobStatus
<1>6. MonOK'
  BY <1>2, <1>3, <1>4, <1>5, MovesOn DEF Poll
<1>7. BudgetOK'
  BY SpendKeeps DEF Poll, NoFault, BudgetOK, Faults
<1> QED
  BY <1>6, <1>7, TrackingStays, MonitorFrame DEF Poll, RowsOK, TimersOK, restUnchanged

LEMMA CondemnKeeps ==
    ASSUME CoreInv, Condemn
    PROVE  CoreInv'
<1> USE DEF CoreInv, SharedOK
<1>1. mon.pc \notin {"idle", "visit"} /\ mon.job \in Job
  BY DEF Condemn, MonAt, MonOK
<1>2. ASSUME mon' = [mon EXCEPT !.pc = "fail"], UNCHANGED fails
      PROVE  MonOK'
  BY <1>1, <1>2 DEF MonOK, MonState, MonLabel
<1>3. MonOK'
  BY <1>1, <1>2, MovesOn, ResetKeeps DEF Condemn
<1>4. ActiveOK' /\ PermitsOK' /\ NoLeakedPermit'
  BY <1>1, RemoveKeeps, TrackingStays DEF Condemn, restUnchanged
<1>5. BudgetOK'
  BY SpendKeeps DEF Condemn, NoFault, BudgetOK, Faults
<1> QED
  BY <1>3, <1>4, <1>5, MonitorFrame DEF Condemn, RowsOK, TimersOK

\* Failing the job, or ending it: the row from the copy, then the permit.
LEMMA EndsKeep ==
    ASSUME CoreInv, Fail \/ ApplyEnd \/ ApplyPaused
    PROVE  CoreInv'
<1> USE DEF CoreInv, SharedOK
<1>1. mon.pc \notin {"idle", "visit"}
  BY DEF Fail, ApplyEnd, ApplyPaused, MonAt
<1>2. mon.job \in Job /\ \A st \in JobStatus : [Copy EXCEPT !.st = st] \in GoodRow
  BY <1>1, CopyIsGood
<1>3. \/ UNCHANGED row
      \/ \E st \in JobStatus : Update(mon.job, [Copy EXCEPT !.st = st])
  BY DEF Fail, ApplyEnd, ApplyPaused, Db, JobStatus
<1>4. RowsOK'
  BY <1>2, <1>3, UpdateKeeps DEF RowsOK
<1>5. fails' \in [Job -> 0..MaxFailures]
  BY <1>2, ResetKeeps DEF Fail, ApplyEnd, ApplyPaused, MonOK
<1>6. MonOK'
  BY <1>2, <1>5, MovesOn DEF Fail, ApplyEnd, ApplyPaused
<1>7. RemoveActive(mon.job) \/ UNCHANGED <<activeJobs, held>>
  BY DEF Fail, ApplyEnd, ApplyPaused
<1>8. restUnchanged /\ kick' \in BOOLEAN
  BY DEF Fail, ApplyEnd, ApplyPaused, TimersOK
<1>9. ActiveOK' /\ PermitsOK' /\ NoLeakedPermit'
  BY <1>2, <1>7, <1>8, RemoveKeeps, TrackingStays DEF restUnchanged
<1>10. BudgetOK'
  BY SpendKeeps DEF Fail, ApplyEnd, ApplyPaused, Db, NoFault, BudgetOK, Faults
<1> QED BY <1>4, <1>6, <1>8, <1>9, <1>10, MonitorFrame

LEMMA ApplyRunningKeeps ==
    ASSUME CoreInv, ApplyRunning
    PROVE  CoreInv'
<1> USE DEF CoreInv, SharedOK
<1>1. mon.job \in Job /\ [Copy EXCEPT !.st = "downloading"] \in ActiveRow
  BY CopyIsGood DEF ApplyRunning, MonAt
<1>2. MonOK'
  BY DEF ApplyRunning, MonAt, MonOK, MonState, MonLabel
<1>3. ActiveOK' /\ PermitsOK'
  BY <1>1 DEF ApplyRunning, AddActive, ActiveOK, PermitsOK
<1>4. \A i \in Job : activeJobs'[i] = activeJobs[i] \/ activeJobs'[i] \in ActiveRow
  BY <1>1 DEF ApplyRunning, AddActive, ActiveOK
<1>5. NoLeakedPermit'
  BY <1>4 DEF ApplyRunning, restUnchanged, NoLeakedPermit, Tracked, ActiveRow
<1> QED
  BY <1>2, <1>3, <1>5, MonitorFrame DEF ApplyRunning, RowsOK, TimersOK, BudgetOK

LEMMA PersistKeeps ==
    ASSUME CoreInv, Persist
    PROVE  CoreInv'
<1> USE DEF CoreInv, SharedOK
<1>1. mon.job \in Job /\ [Copy EXCEPT !.st = "downloading"] \in GoodRow
  BY CopyIsGood DEF Persist, MonAt, JobStatus
<1>2. RowsOK'
  BY <1>1, UpdateKeeps DEF Persist, Db, RowsOK
<1>3. MonOK'
  BY <1>1, MovesOn DEF Persist, MonOK
<1>4. BudgetOK'
  BY SpendKeeps DEF Persist, Db, NoFault, BudgetOK, Faults
<1> QED
  BY <1>2, <1>3, <1>4, TrackingStays, MonitorFrame DEF Persist, TimersOK, restUnchanged

LEMMA MonitorKeeps ==
    ASSUME CoreInv, MonitorStep
    PROVE  CoreInv'
BY TickKeeps, PollKeeps, CondemnKeeps, EndsKeep, ApplyRunningKeeps, PersistKeeps DEF MonitorStep
------------------------------------------------------------------------------
\* The process dies and comes back; the engine and the timer.

LEMMA CrashKeeps ==
    ASSUME CoreInv, Crash
    PROVE  CoreInv'
<1> USE DEF CoreInv, SharedOK
<1>1. RowsOK' /\ QueueOK' /\ TimersOK' /\ StartOK'
  BY DEF Crash, RowsOK, QueueOK, TimersOK, StartOK
<1>2. TasksOK'
  BY DEF Crash, TasksOK, Task
<1>3. ActiveOK' /\ PermitsOK' /\ ReservedOK'
  BY Records DEF Crash, ActiveOK, PermitsOK, ReservedOK
<1>4. BudgetOK'
  BY SpendKeeps DEF Crash, Faults
<1>5. SchedOK'
  BY Records DEF Crash, SchedOK, SchedOwns, RowAt, Dispatching, Reconciling
<1>6. CmdOK' /\ MonOK'
  BY Records DEF Crash, CmdOK, MonOK, CoreAssumptions
<1>7. NoLeakedPermit'
  BY DEF Crash, NoLeakedPermit
<1> QED BY <1>1, <1>2, <1>3, <1>4, <1>5, <1>6, <1>7

LEMMA RestartKeeps ==
    ASSUME CoreInv, Restart
    PROVE  CoreInv'
<1> USE DEF CoreInv, SharedOK
<1>1. QueueOK'
  BY DEF Restart, QueueOK, Action
<1>2. SchedOK' /\ CmdOK' /\ MonOK'
  BY SchedStays DEF Restart, procVars, CmdOK, MonOK
<1> QED
  BY <1>1, <1>2, TrackingStays
  DEF Restart, RowsOK, TasksOK, ReservedOK, TimersOK, StartOK, BudgetOK

\* A row is tracked only when its task runs or waits, so that there is one.
LEMMA RecoverJobKeeps ==
    ASSUME CoreInv, NEW i \in Job, RecoverJob(i)
    PROVE  CoreInv'
<1> USE DEF CoreInv, SharedOK
<1>1. row[i] \in Row
  BY Records DEF RowsOK
<1>2. Known(row[i].eid) => row[i].eid \in Gid
  BY <1>1 DEF Known, TaskOf, TaskStatus, Row
<1>3. Reattaches(row[i].eid) => Known(row[i].eid)
  BY DEF Reattaches, Known, TaskStatus
<1>4. \A st : MapAria2Status(st) \in JobStatus
  BY DEF MapAria2Status, JobStatus
<1>5. ASSUME NEW st \in JobStatus, Known(row[i].eid) \/ st = "failed"
      PROVE  [row[i] EXCEPT !.st = st] \in GoodRow
  BY <1>1, <1>2, <1>5, GoodRows
<1>6. \/ UNCHANGED row
      \/ \E st \in JobStatus : /\ Known(row[i].eid) \/ st = "failed"
                               /\ Update(i, [row[i] EXCEPT !.st = st])
  BY <1>3, <1>4 DEF RecoverJob, Db, JobStatus
<1>7. RowsOK'
  BY <1>5, <1>6, UpdateKeeps DEF RowsOK
<1>8. Reattaches(row[i].eid) =>
         [row[i] EXCEPT !.st = MapAria2Status(task[row[i].eid].st)] \in ActiveRow
  <2>1. ASSUME Reattaches(row[i].eid)
        PROVE  MapAria2Status(task[row[i].eid].st) \in {"downloading", "queued"} /\ row[i].eid \in Gid
    BY <1>2, <1>3, <2>1, Records DEF Reattaches, TaskOf, MapAria2Status
  <2> QED BY <1>1, <2>1 DEF ActiveRow, Row
<1>9. \A k \in Job : activeJobs'[k] = activeJobs[k] \/ activeJobs'[k] \in ActiveRow
  BY <1>8 DEF RecoverJob, AddActive, ActiveOK
<1>10. ActiveOK'
  BY <1>8 DEF RecoverJob, AddActive, ActiveOK
<1>11. NoLeakedPermit'
  BY <1>9 DEF RecoverJob, NoLeakedPermit, Tracked, ActiveRow
<1>12. BudgetOK'
  BY SpendKeeps DEF RecoverJob, Db, NoFault, BudgetOK, Faults
<1>13. SchedOK' /\ CmdOK' /\ MonOK'
  BY SchedStays DEF RecoverJob, procVars, CmdOK, MonOK
<1> QED
  BY <1>7, <1>10, <1>11, <1>12, <1>13
  DEF RecoverJob, QueueOK, TasksOK, PermitsOK, ReservedOK, TimersOK, StartOK

\* The accounting of the running downloads: every permit goes to a tracked job.
LEMMA ServeKeeps ==
    ASSUME CoreInv, Serve
    PROVE  CoreInv'
<1> USE DEF CoreInv, SharedOK
<1>1. PermitsOK' /\ NoLeakedPermit'
  BY DEF Serve, Reconstructed, PermitsOK, NoLeakedPermit, Tracked
<1>2. QueueOK'
  BY DEF Serve, QueueOK, Action
<1>3. SchedOK' /\ CmdOK' /\ MonOK'
  BY SchedStays DEF Serve, procVars, CmdOK, MonOK
<1> QED
  BY <1>1, <1>2, <1>3 DEF Serve, RowsOK, TasksOK, ActiveOK, ReservedOK, TimersOK, StartOK, BudgetOK

LEMMA EngineKeeps ==
    ASSUME CoreInv, EngineStep
    PROVE  CoreInv'
<1> USE DEF CoreInv, SharedOK
<1>1. PICK g \in Gid, st \in TaskStatus \cup {"gone"} : EngineMoves(g, st)
  BY DEF EngineStep, TaskStarts, TaskEnds, TaskLost, TaskStatus
<1>2. TasksOK'
  BY <1>1, SetTaskKeeps DEF EngineMoves
<1>3. BudgetOK'
  BY SpendKeeps DEF EngineStep, TaskStarts, TaskEnds, TaskLost, NoFault, BudgetOK, Faults
<1>4. SchedOK' /\ CmdOK' /\ MonOK'
  BY <1>1, SchedStays DEF EngineMoves, procVars, memoryVars, CmdOK, MonOK
<1>5. ActiveOK' /\ PermitsOK' /\ NoLeakedPermit'
  BY <1>1, TrackingStays DEF EngineMoves, memoryVars
<1> QED
  BY <1>1, <1>2, <1>3, <1>4, <1>5
  DEF EngineMoves, durableVars, memoryVars, startVars, RowsOK, QueueOK, ReservedOK, TimersOK, StartOK

LEMMA RetryFiresKeeps ==
    ASSUME CoreInv, RetryFires
    PROVE  CoreInv'
<1>1. SchedOK'
  BY SchedStays DEF CoreInv, RetryFires
<1> QED
  BY <1>1, NoPermitMoves, SchedulerFrame
  DEF RetryFires, CoreInv, SharedOK, RowsOK, QueueOK, TasksOK, TimersOK, BudgetOK
------------------------------------------------------------------------------
\* The theorems.

LEMMA CoreInitInv == CoreInit => CoreInv
<1> SUFFICES ASSUME CoreInit PROVE CoreInv
  OBVIOUS
<1>1. RowsOK /\ QueueOK /\ ActiveOK /\ PermitsOK /\ ReservedOK /\ TimersOK /\ StartOK
  BY Records DEF CoreInit, RowsOK, QueueOK, ActiveOK, PermitsOK, ReservedOK, TimersOK, StartOK, Action
<1>2. TasksOK /\ BudgetOK
  BY DEF CoreInit, TasksOK, Task, BudgetOK, CoreAssumptions
<1>3. SchedOK
  BY Records DEF CoreInit, SchedOK, SchedOwns, RowAt, Dispatching, Reconciling
<1>4. CmdOK /\ MonOK
  BY Records DEF CoreInit, CmdOK, MonOK, CoreAssumptions
<1>5. NoLeakedPermit
  BY DEF CoreInit, NoLeakedPermit
<1> QED BY <1>1, <1>2, <1>3, <1>4, <1>5 DEF CoreInv, SharedOK

LEMMA CoreStepInv == CoreInv /\ [CoreNext]_coreVars => CoreInv'
<1> SUFFICES ASSUME CoreInv, [CoreNext]_coreVars PROVE CoreInv'
  OBVIOUS
<1>1. CASE SchedulerStep
  BY <1>1, SchedulerKeeps
<1>2. CASE RetryFires
  BY <1>2, RetryFiresKeeps
<1>3. CASE MonitorStep
  BY <1>3, MonitorKeeps
<1>4. CASE RecoveryStep
  BY <1>4, RestartKeeps, ServeKeeps, RecoverJobKeeps DEF RecoveryStep
<1>5. CASE EngineStep
  BY <1>5, EngineKeeps
<1>6. CASE Crash
  BY <1>6, CrashKeeps
<1>7. CASE \E c \in Client : Request(c) \/ CommandCall(c)
  BY <1>7, CommandKeeps
<1>8. CASE UNCHANGED coreVars
  <2>1. /\ UNCHANGED <<row, queue, task, activeJobs, held, inFlight, kick, retryTimer>>
        /\ UNCHANGED <<sched, cmd, mon, fails, phase, recoverTodo, budget>>
    BY <1>8 DEF coreVars, durableVars, memoryVars, procVars, startVars
  <2>2. SharedOK'
    BY <2>1 DEF CoreInv, SharedOK, RowsOK, QueueOK, TasksOK, ActiveOK, PermitsOK, ReservedOK, TimersOK,
       StartOK, BudgetOK
  <2>3. SchedOK' /\ CmdOK' /\ MonOK'
    BY <2>1, SchedStays DEF CoreInv, CmdOK, MonOK
  <2> QED BY <2>1, <2>2, <2>3 DEF CoreInv, NoLeakedPermit, Tracked
<1> QED BY <1>1, <1>2, <1>3, <1>4, <1>5, <1>6, <1>7, <1>8 DEF CoreNext

\* CoreInv holds throughout.
THEOREM CoreInductive == CoreSpec => []CoreInv
BY CoreInitInv, CoreStepInv, PTL DEF CoreSpec

\* The shared state of scheduler, commands, monitor and recovery stays within
\* its types: whatever interleaves and fails, a row never takes an unknown
\* state, and what the monitor watches always has an engine task (tick of
\* monitor.go skips what has none).
THEOREM CoreTypeCorrect == CoreSpec => []CoreTypeOK
<1>1. CoreInv => CoreTypeOK
  <2> SUFFICES ASSUME CoreInv PROVE CoreTypeOK
    OBVIOUS
  <2>1. row \in [Job -> Row]
    BY Records DEF CoreInv, SharedOK, RowsOK
  <2>2. task \in [Gid -> [job : Job \cup {"none"}, st : TaskStatus \cup {"unused", "gone"}]]
    BY DEF CoreInv, SharedOK, TasksOK, Task
  <2>3. activeJobs \in [Job -> {Absent} \cup [st : {"downloading", "queued"}, eid : Gid]]
    BY DEF CoreInv, SharedOK, ActiveOK, ActiveRow
  <2> QED
    BY <2>1, <2>2, <2>3 DEF CoreInv, SharedOK, QueueOK, PermitsOK, ReservedOK, TimersOK, StartOK,
       BudgetOK, MonOK, Action, Reservation, CoreTypeOK
<1> QED BY <1>1, CoreInductive, PTL

\* No permit is lost, for any number of jobs and requests, any limit and any
\* budget of faults and crashes: who holds one is reserved or tracked, and so
\* somebody will give it back.
THEOREM PermitsNeverLeak == CoreSpec => []NoLeakedPermit
<1>1. CoreInv => NoLeakedPermit
  BY DEF CoreInv
<1> QED BY <1>1, CoreInductive, PTL

\* A clean reservation is always the one of the dispatch that runs: no early
\* return of dispatchSingle leaves one behind.
THEOREM ReservationsAreOwned == CoreSpec => []ReservationHasOwner
<1>1. CoreInv => ReservationHasOwner
  BY DEF CoreInv, SchedOK, SchedOwns, ReservationHasOwner
<1> QED BY <1>1, CoreInductive, PTL
------------------------------------------------------------------------------
\* As long as no database call has failed: nothing is ever left to reconcile, a
\* creation meets no other command on its job and every other command finds a row,
\* a job whose row is over gives its permit back, and while the scheduler sleeps
\* unkicked each runnable job that could have a permit is one for which a command
\* that is under way will kick, or which that command is about to pause.
NoDbFault == budget["db"] = Budget["db"]
Over == {"completed", "failed", "cancelled"}

Creates ==
    \A c \in Client : cmd[c].pc # "idle" =>
        \/ /\ cmd[c].op = "create" /\ cmd[c].pc = "undo"
        \/ /\ cmd[c].op = "create" /\ cmd[c].pc \in {"enqueue", "insert"}
           /\ row[cmd[c].job].st = "absent" /\ cmd[c].j.st = "queued"
           /\ \A d \in Client \ {c} : cmd[d].pc # "idle" => cmd[d].job # cmd[c].job
        \/ /\ cmd[c].op # "create" /\ cmd[c].pc # "insert"
           /\ row[cmd[c].job].st # "absent"

Undirty ==
    /\ \A i \in Job : inFlight[i] = Free \/ inFlight[i].kind = "clean"
    /\ sched.pc \notin Reconciling \cup {"reconcile"}

Dequeues(j) == \E c \in Client : cmd[c].pc = "dequeue" /\ cmd[c].job = j
Committed(j) == inFlight[j] = Free \/ (sched.job = j /\ sched.pc = "activate")
OverGivesBack ==
    \A j \in Job : Committed(j) /\ held[j] # NoLease /\ row[j].st \in Over => Dequeues(j)

\* Until the scheduler serves, nobody holds a permit, and recovery tracks a job
\* when it has found it running.
Restarting ==
    phase # "up" =>
        \A j \in Job : /\ held[j] = NoLease
                       /\ Tracked(j) => phase = "recovering" /\ row[j].st \notin Over
                                        /\ j \notin recoverTodo

KickOwed == \E c \in Client :
    cmd[c].pc = "dequeue" \/ (cmd[c].pc = "update" /\ cmd[c].op \in {"resume", "retry", "run_now"})
PauseOwed(j) == \E c \in Client : cmd[c].pc = "update" /\ cmd[c].op = "pause" /\ cmd[c].job = j
Asleep == phase = "up" /\ sched.pc = "idle" /\ ~kick
Woken == Asleep => \A j \in Runnable : ~CanAcquire(j) \/ KickOwed \/ PauseOwed(j)

\* The commands that upsert a queue row.
Upserting == {"create", "pause", "resume", "retry", "run_now"}
Upserts == \A c \in Client : /\ cmd[c].pc = "enqueue" => cmd[c].op \in Upserting
                             /\ cmd[c].pc = "get_entry" => cmd[c].op \in {"resume", "run_now"}

FaultFree == Creates /\ Upserts /\ Undirty /\ OverGivesBack /\ Restarting /\ Woken
WakeInv == CoreInv /\ budget["db"] <= Budget["db"] /\ (NoDbFault => FaultFree)
------------------------------------------------------------------------------
\* A step uses up at most one kind of fault, and none gives any back.

LEMMA BudgetSteps ==
    ASSUME CoreNext
    PROVE  UNCHANGED budget \/ \E kind \in Faults : Spend(kind)
<1> USE DEF NoFault, Db, Faults
<1>1. CASE Wake \/ StartReconcile \/ List \/ Fetch \/ DropEntry \/ Entry \/ Load \/ LostEntry \/ Start
  BY <1>1 DEF Wake, StartReconcile, List, Fetch, DropEntry, Entry, Load, LostEntry, Start
<1>2. CASE Limits \/ Resume \/ Started \/ Activate \/ Refuse \/ Refused \/ Failed
  BY <1>2 DEF Limits, Resume, Started, Activate, Refuse, Refused, Failed
<1>3. CASE Reconcile \/ RsWrite \/ RsDelete \/ RxStatus \/ RxWrite \/ RxDelete \/ EndReconcile
  BY <1>3 DEF Reconcile, RsWrite, RsDelete, RxStatus, RxWrite, RxDelete, EndReconcile
<1>4. CASE RetryFires \/ RecoveryStep \/ Crash
  BY <1>4 DEF RetryFires, RecoveryStep, Restart, Serve, RecoverJob, Crash
<1>5. CASE MonitorStep
  BY <1>5 DEF MonitorStep, Tick, EndTick, Poll, Condemn, Fail, ApplyEnd, ApplyPaused, ApplyRunning, Persist
<1>6. CASE EngineStep
  BY <1>6 DEF EngineStep, TaskStarts, TaskEnds, TaskLost
<1>7. ASSUME NEW c \in Client, Request(c)
      PROVE  \E kind \in Faults : Spend(kind)
  BY <1>7 DEF Request, Begin, BeginCreate
<1>8. ASSUME NEW c \in Client, CommandCall(c)
      PROVE  UNCHANGED budget \/ \E kind \in Faults : Spend(kind)
  BY <1>8 DEF CommandCall, CallEngine, GetEntry, Enqueue, Insert, WriteStatus, Undo, Dequeue, Cascade
<1> QED BY <1>1, <1>2, <1>3, <1>4, <1>5, <1>6, <1>7, <1>8 DEF CoreNext, SchedulerStep

LEMMA FaultsStay ==
    ASSUME BudgetOK, budget["db"] <= Budget["db"], CoreNext \/ UNCHANGED budget
    PROVE  /\ budget'["db"] <= Budget["db"]
           /\ NoDbFault' => NoDbFault /\ ~Spend("db")
<1>1. "db" \in DOMAIN Budget /\ Budget["db"] \in Nat /\ budget["db"] \in Nat /\ DOMAIN budget = DOMAIN Budget
  BY DEF CoreAssumptions, BudgetOK
<1>2. Spend("db") => budget'["db"] = budget["db"] - 1
  BY <1>1 DEF Spend
<1>3. \A kind \in Faults : Spend(kind) => budget'["db"] \in {budget["db"], budget["db"] - 1}
  BY <1>1 DEF Spend, Faults
<1>4. UNCHANGED budget \/ \E kind \in Faults : Spend(kind)
  BY BudgetSteps
<1>5. budget'["db"] \in {budget["db"], budget["db"] - 1}
  BY <1>3, <1>4
<1> QED BY <1>1, <1>2, <1>5 DEF NoDbFault
------------------------------------------------------------------------------
\* What a step of the scheduler can do while no database call fails.

\* It moves no row, permit or reservation and is not about to activate a job;
Thinks ==
    /\ UNCHANGED <<row, held, inFlight>> /\ sched.pc # "activate"
    /\ sched'.pc \notin Reconciling \cup {"reconcile", "activate"}
\* it takes a permit for a job;
Takes(i) ==
    /\ inFlight' = [inFlight EXCEPT ![i] = [Free EXCEPT !.kind = "clean", !.action = queue[i]]]
    /\ held' = [held EXCEPT ![i] = Aria2]
    /\ UNCHANGED row /\ sched.pc = "top" /\ sched'.pc = "fetch"
\* it gives the job up;
GivesUp ==
    /\ inFlight' = [inFlight EXCEPT ![sched.job] = Free] /\ held' = [held EXCEPT ![sched.job] = NoLease]
    /\ sched' = [SchedIdle EXCEPT !.pc = "top"] /\ sched.pc \in Dispatching \ {"activate"}
    /\ UNCHANGED row \/ \E r \in Row : r.st \in JobStatus /\ Update(sched.job, r)
\* it writes that the job has failed, or that it downloads;
Writes ==
    /\ UNCHANGED <<held, inFlight>> /\ sched.pc \in Dispatching \ {"activate"}
    /\ \E r \in Row : /\ r.st \in JobStatus /\ Update(sched.job, r)
                      /\ sched'.pc = "drop_entry" \/ (sched'.pc = "activate" /\ r.st = "downloading")
    /\ sched'.job = sched.job
\* or it hands the job over to the monitor.
HandsOver ==
    /\ inFlight' = [inFlight EXCEPT ![sched.job] = Free] /\ UNCHANGED <<row, held>>
    /\ sched.pc = "activate" /\ sched' = [SchedIdle EXCEPT !.pc = "top"]

LEMMA SchedulerEffects ==
    ASSUME CoreInv, Undirty, SchedulerStep, ~Spend("db")
    PROVE  Thinks \/ (\E i \in Job : Takes(i)) \/ GivesUp \/ Writes \/ HandsOver
<1> USE DEF CoreInv
<1>1. sched \in SchedState /\ Dirty = {}
  <2>1. \A i \in Job : inFlight[i].kind \in {"free", "clean"}
    BY Records DEF Undirty
  <2> QED BY <2>1 DEF SchedOK, Dirty
<1>2. ASSUME Refused \/ Failed
      PROVE  GivesUp \/ Writes
  <2>1. FailTarget \in {"failed", "paused"} /\ sched.pc \in Dispatching
    BY <1>2 DEF FailTarget, Refused, Failed, At, Dispatching
  <2>2. PICK r \in Row : r.st \in JobStatus /\ Update(sched.job, r)
    <3>1. [sched.j EXCEPT !.st = FailTarget] \in Row /\ [sched.cur EXCEPT !.st = FailTarget] \in Row
      BY <1>1, <2>1 DEF SchedState, GoodRow, Row, JobStatus
    <3>2. [sched.j EXCEPT !.st = FailTarget].st \in JobStatus /\ [sched.cur EXCEPT !.st = FailTarget].st \in JobStatus
      BY <1>1, <2>1 DEF SchedState, GoodRow, Row, JobStatus
    <3> QED BY <1>2, <3>1, <3>2 DEF Refused, Failed, Me
  <2>3. CASE Abandon
    BY <1>2, <2>1, <2>2, <2>3 DEF GivesUp, Abandon, DropAndKick, Drop, Unreserve, ToTop, Me, Refused, Failed, At
  <2>4. CASE Goto("drop_entry") /\ UNCHANGED <<held, kick, inFlight>>
    <3>1. sched'.pc = "drop_entry" /\ sched'.job = sched.job
      BY <1>1, <2>4 DEF Goto, SchedState
    <3> QED BY <1>2, <2>1, <2>2, <2>4, <3>1 DEF Writes, Refused, Failed, At
  <2> QED BY <1>2, <2>3, <2>4 DEF Refused, Failed
<1>3. ASSUME Started
      PROVE  Writes
  <2> DEFINE r == [st |-> "downloading", eid |-> sched.j.eid]
  <2>1. r \in Row /\ r.st = "downloading"
    BY <1>1 DEF SchedState, Row, JobStatus
  <2>2. Update(sched.job, r) /\ sched' = [sched EXCEPT !.pc = "activate", !.j = r] /\ UNCHANGED <<held, inFlight>>
    BY <1>3 DEF Started, Me
  <2>3. sched'.pc = "activate" /\ sched'.job = sched.job
    BY <1>1, <2>2 DEF SchedState
  <2> HIDE DEF r
  <2> QED BY <1>3, <2>1, <2>2, <2>3 DEF Writes, JobStatus, Started, At, Dispatching
<1>4. ASSUME Activate
      PROVE  HandsOver
  BY <1>4 DEF Activate, HandsOver, At, Unreserve, ToTop, Me
<1>5. ASSUME List
      PROVE  Thinks \/ \E i \in Job : Takes(i)
  BY <1>5, Records DEF List, Takes, Thinks, ToIdle, At, SchedIdle, Runnable, Reconciling
<1>6. ASSUME DropEntry \/ (Entry /\ Abandon)
      PROVE  GivesUp
  BY <1>6 DEF GivesUp, DropEntry, Entry, Abandon, DropAndKick, Drop, Unreserve, ToTop, Me, At, Dispatching
<1>7. ASSUME Wake \/ Fetch \/ (Entry /\ ~Abandon) \/ Load \/ LostEntry
      PROVE  Thinks
  <2>0. CASE Wake
    BY <2>0 DEF Thinks, Wake, ToTop, SchedIdle, At, Reconciling
  <2>1. CASE Fetch
    <3>1. sched'.pc \in {"entry", "drop_entry"}
      BY <1>1, <2>1 DEF SchedState, Fetch, Goto
    <3>2. UNCHANGED <<row, held, inFlight>> /\ sched.pc = "fetch"
      BY <2>1 DEF Fetch, At, memoryUnchanged, memoryVars
    <3> QED BY <3>1, <3>2 DEF Thinks, Reconciling
  <2>2. CASE Entry /\ ~Abandon
    BY <1>1, <2>2 DEF SchedState, Thinks, Entry, Goto, At, Dispatching, Reconciling, memoryUnchanged, memoryVars
  <2>3. CASE Load \/ LostEntry
    BY <1>1, <2>3 DEF SchedState, Thinks, Load, LostEntry, Goto, ToTop, SchedIdle, At, Dispatching, Reconciling,
       memoryUnchanged, memoryVars
  <2> QED BY <1>7, <2>0, <2>1, <2>2, <2>3
<1>8. ASSUME Start \/ Limits \/ Resume \/ Refuse
      PROVE  Thinks
  BY <1>1, <1>8 DEF SchedState, Thinks, Start, Limits, Resume, Refuse, Goto, At, Dispatching, Reconciling, memoryUnchanged, memoryVars
<1>9. ASSUME StartReconcile \/ Reconcile \/ RsWrite \/ RsDelete \/ RxStatus \/ RxWrite \/ RxDelete \/ EndReconcile
      PROVE  FALSE
  BY <1>1, <1>9 DEF Undirty, Reconciling, At, StartReconcile, Reconcile, RsWrite, RsDelete, RxStatus, RxWrite, RxDelete, EndReconcile
<1> QED BY <1>2, <1>3, <1>4, <1>5, <1>6, <1>7, <1>8, <1>9 DEF SchedulerStep
------------------------------------------------------------------------------
\* Whether a row is there to be created changes only by the creation.

LEMMA StaysAbsent ==
    ASSUME RowsOK, NEW i \in Job, NEW r, r.st \in JobStatus, Update(i, r)
    PROVE  \A j \in Job : row'[j].st = "absent" <=> row[j].st = "absent"
BY DEF RowsOK, Update, Exists, JobStatus

LEMMA CreatesStay ==
    ASSUME CmdOK, Creates, UNCHANGED cmd,
           \A j \in Job : row'[j].st = "absent" <=> row[j].st = "absent"
    PROVE  Creates'
BY DEF CmdOK, Creates

\* Nothing that the scheduler's sleep depends on changes.
LEMMA FaultFreeStays ==
    ASSUME CmdOK, FaultFree,
           UNCHANGED <<row, queue, activeJobs, held, inFlight, kick, sched, cmd, phase, recoverTodo>>
    PROVE  FaultFree'
<1> USE DEF FaultFree
<1>1. Creates' /\ Upserts'
  BY DEF Creates, Upserts
<1>2. Undirty' /\ Restarting'
  BY DEF Undirty, Restarting, Tracked
<1>3. OverGivesBack'
  BY DEF OverGivesBack, Committed, Dequeues
<1>4. Woken'
  <2>1. Runnable' = Runnable /\ (KickOwed' <=> KickOwed) /\ (Asleep' <=> Asleep)
    BY DEF Runnable, KickOwed, Asleep
  <2>2. \A j : PauseOwed(j)' <=> PauseOwed(j)
    BY DEF PauseOwed
  <2>3. \A j : CanAcquire(j)' <=> CanAcquire(j)
    BY DEF CanAcquire, Permits!HasRoom, Permits!Holders, Permits!HoldersOn
  <2> QED BY <2>1, <2>2, <2>3 DEF Woken
<1> QED BY <1>1, <1>2, <1>3, <1>4
------------------------------------------------------------------------------
\* The scheduler.

LEMMA SchedulerSleeps ==
    ASSUME CoreInv, Undirty, SchedulerStep, ~Spend("db"), sched'.pc = "idle"
    PROVE  /\ \A i \in Runnable : ~CanAcquire(i)
           /\ UNCHANGED <<row, queue, held>>
<1> USE DEF CoreInv
<1>1. sched \in SchedState
  BY DEF SchedOK
<1>2. ~(GivesUp \/ Writes \/ HandsOver \/ \E i \in Job : Takes(i))
  BY <1>1 DEF GivesUp, Writes, HandsOver, Takes, SchedIdle
<1>3. Thinks
  BY <1>2, SchedulerEffects
<1>4. List
  <2>1. ~Wake /\ ~Fetch /\ ~Load /\ ~LostEntry /\ ~Start /\ ~Limits /\ ~Resume /\ ~Refuse
    BY <1>1 DEF Wake, Fetch, Load, LostEntry, Start, Limits, Resume, Refuse, Goto, ToTop, SchedState, SchedIdle
  <2>2. ~DropEntry /\ ~Entry /\ ~Started /\ ~Activate /\ ~StartReconcile
    BY <1>1 DEF DropEntry, Entry, Started, Activate, StartReconcile, Abandon, Goto, ToTop, SchedState, SchedIdle
  <2>3. ~Refused /\ ~Failed
    BY <1>1 DEF Refused, Failed, Abandon, Goto, ToTop, SchedState, SchedIdle
  <2>4. ~(Reconcile \/ RsWrite \/ RsDelete \/ RxStatus \/ RxWrite \/ RxDelete \/ EndReconcile)
    BY DEF Undirty, Reconciling, At, Reconcile, RsWrite, RsDelete, RxStatus, RxWrite, RxDelete, EndReconcile
  <2> QED BY <2>1, <2>2, <2>3, <2>4 DEF SchedulerStep
<1>5. \A i \in Job : inFlight[i] = Free
  BY <1>4 DEF List, At, Undirty, SchedOK, SchedOwns, Dispatching
<1> QED BY <1>3, <1>4, <1>5 DEF Thinks, List, Runnable, SchedIdle

LEMMA SchedulerWakes ==
    ASSUME CoreInv, FaultFree, SchedulerStep, ~Spend("db")
    PROVE  FaultFree'
<1> USE DEF CoreInv, SharedOK, FaultFree
<1>0. sched \in SchedState /\ UNCHANGED <<cmd, phase, recoverTodo>> /\ phase = "up"
  BY DEF SchedOK, SchedulerStep, othersUnchanged, At, Wake, StartReconcile, List, Fetch, DropEntry, Entry,
     Load, LostEntry, Start, Limits, Resume, Started, Activate, Refuse, Refused, Failed, Reconcile,
     RsWrite, RsDelete, RxStatus, RxWrite, RxDelete, EndReconcile
<1>1. Thinks \/ (\E i \in Job : Takes(i)) \/ GivesUp \/ Writes \/ HandsOver
  BY SchedulerEffects
<1>2. \A i \in Job : inFlight[i].kind = "clean" => sched.pc \in Dispatching /\ sched.job = i
  BY DEF SchedOK, SchedOwns
<1>3. sched.pc \in Dispatching => sched.job \in Job /\ inFlight[sched.job].kind = "clean"
  BY DEF SchedOK, SchedOwns
<1>4. UNCHANGED row \/ \E r : r.st \in JobStatus /\ sched.job \in Job /\ Update(sched.job, r)
  BY <1>1, <1>3 DEF Thinks, Takes, GivesUp, Writes, HandsOver
<1>5. Creates' /\ Upserts'
  BY <1>0, <1>4, StaysAbsent, CreatesStay DEF Upserts
<1>6. Restarting'
  BY <1>0 DEF Restarting
<1>7. Undirty' /\ OverGivesBack'
  <2>1. CASE Thinks
    BY <1>0, <2>1 DEF Thinks, Undirty, OverGivesBack, Committed, Dequeues
  <2>2. ASSUME NEW i \in Job, Takes(i)
        PROVE  Undirty' /\ OverGivesBack'
    <3>1. \A k \in Job : k # i => inFlight'[k] = inFlight[k] /\ held'[k] = held[k]
      BY <2>2 DEF Takes, ReservedOK, PermitsOK
    <3>2. inFlight'[i].kind = "clean" /\ inFlight'[i] # Free /\ sched'.pc = "fetch"
      BY <2>2, Records DEF Takes, ReservedOK, Free
    <3> QED BY <1>0, <2>2, <3>1, <3>2 DEF Takes, Undirty, OverGivesBack, Committed, Dequeues, Reconciling
  <2>3. CASE GivesUp
    <3>1. \A k \in Job : k # sched.job => inFlight'[k] = inFlight[k] /\ held'[k] = held[k] /\ row'[k] = row[k]
      BY <1>3, <2>3 DEF GivesUp, ReservedOK, PermitsOK, RowsOK, Update
    <3>2. sched.job \in Job /\ inFlight'[sched.job] = Free /\ held'[sched.job] = NoLease /\ sched'.pc = "top"
      BY <1>3, <2>3 DEF GivesUp, ReservedOK, PermitsOK, SchedIdle
    <3> QED BY <1>0, <3>1, <3>2 DEF Undirty, OverGivesBack, Committed, Dequeues, Reconciling
  <2>4. CASE Writes
    <3>1. sched.job \in Job /\ inFlight[sched.job] # Free /\ UNCHANGED <<held, inFlight>>
      BY <1>3, <2>4, Records DEF Writes
    <3>2. \A k \in Job : k # sched.job => row'[k] = row[k]
      BY <2>4 DEF Writes, RowsOK, Update
    <3>3. sched'.pc = "drop_entry" \/ (sched'.pc = "activate" /\ row'[sched.job].st \notin Over)
      BY <2>4, <3>1 DEF Writes, RowsOK, Update, Exists, Over, JobStatus
    <3>4. sched'.job = sched.job
      BY <2>4 DEF Writes
    <3> QED BY <1>0, <3>1, <3>2, <3>3, <3>4 DEF Undirty, OverGivesBack, Committed, Dequeues, Reconciling
  <2>5. CASE HandsOver
    <3>1. \A k \in Job : k # sched.job => inFlight'[k] = inFlight[k]
      BY <2>5 DEF HandsOver, ReservedOK
    <3>2. sched.job \in Job /\ inFlight'[sched.job] = Free /\ sched'.pc = "top"
      BY <1>3, <2>5 DEF HandsOver, ReservedOK, SchedIdle, Dispatching
    <3> QED BY <1>0, <2>5, <3>1, <3>2 DEF HandsOver, Undirty, OverGivesBack, Committed, Dequeues, Reconciling
  <2> QED BY <1>1, <2>1, <2>2, <2>3, <2>4, <2>5
<1>8. Woken'
  <2> SUFFICES ASSUME Asleep' PROVE (\A j \in Runnable : ~CanAcquire(j))'
    BY DEF Woken
  <2>1. (\A i \in Runnable : ~CanAcquire(i)) /\ UNCHANGED <<row, queue, held>>
    BY SchedulerSleeps DEF Asleep
  <2>2. \A i : CanAcquire(i)' <=> CanAcquire(i)
    BY <1>0, <2>1 DEF CanAcquire, Permits!HasRoom, Permits!Holders, Permits!HoldersOn
  <2> QED BY <2>1, <2>2 DEF Runnable
<1> QED BY <1>5, <1>6, <1>7, <1>8
------------------------------------------------------------------------------
\* The commands.

\* A client goes on with its job at another label, or ends.
Advances(c) ==
    \E r \in CmdState :
        /\ cmd' = [cmd EXCEPT ![c] = r]
        /\ r.pc # "idle" => /\ r.op = cmd[c].op /\ r.job = cmd[c].job /\ r.j = cmd[c].j
                            /\ r.op = "create" => r.pc = "insert"
                            /\ r.op # "create" => r.pc # "insert"
                            /\ r.pc = "enqueue" => r.op \in Upserting
                            /\ r.pc # "get_entry"

LEMMA Goes ==
    ASSUME CmdOK, NEW c \in Client, cmd[c].pc # "idle", NEW p \in CmdLabel, CmdGoto(c, p),
           p = "enqueue" => cmd[c].op \in Upserting, p # "get_entry",
           cmd[c].op = "create" => p = "insert", cmd[c].op # "create" => p # "insert"
    PROVE  Advances(c)
<1>1. [cmd[c] EXCEPT !.pc = p] \in CmdState /\ cmd' = [cmd EXCEPT ![c] = [cmd[c] EXCEPT !.pc = p]]
  BY DEF CmdOK, CmdState, CmdGoto
<1>2. [cmd[c] EXCEPT !.pc = p].job = cmd[c].job /\ [cmd[c] EXCEPT !.pc = p].op = cmd[c].op
      /\ [cmd[c] EXCEPT !.pc = p].pc = p /\ [cmd[c] EXCEPT !.pc = p].j = cmd[c].j
  BY DEF CmdOK, CmdState
<1> QED BY <1>1, <1>2 DEF Advances

LEMMA Ends ==
    ASSUME CmdOK, NEW c \in Client, Finish(c)
    PROVE  Advances(c)
BY Records DEF Advances, Finish

LEMMA AdvanceCreates ==
    ASSUME CmdOK, Creates, NEW c \in Client, cmd[c].pc \notin {"idle", "undo"}, Advances(c),
           \A j \in Job : row'[j].st = "absent" <=> row[j].st = "absent"
    PROVE  Creates'
<1>1. PICK r \in CmdState :
        /\ cmd' = [cmd EXCEPT ![c] = r]
        /\ r.pc # "idle" => /\ r.op = cmd[c].op /\ r.job = cmd[c].job /\ r.j = cmd[c].j
                            /\ r.op = "create" => r.pc = "insert"
                            /\ r.op # "create" => r.pc # "insert"
  BY DEF Advances
<1>2. \A d \in Client : cmd'[d] = IF d = c THEN r ELSE cmd[d]
  BY <1>1 DEF CmdOK
<1>3. \A d \in Client : cmd[d].pc # "idle" => cmd[d].job \in Job
  BY DEF CmdOK
<1> SUFFICES ASSUME NEW d \in Client, cmd'[d].pc # "idle"
             PROVE  \/ /\ cmd'[d].op = "create" /\ cmd'[d].pc = "undo"
                    \/ /\ cmd'[d].op = "create" /\ cmd'[d].pc \in {"enqueue", "insert"}
                       /\ row'[cmd'[d].job].st = "absent" /\ cmd'[d].j.st = "queued"
                       /\ \A e \in Client \ {d} : cmd'[e].pc # "idle" => cmd'[e].job # cmd'[d].job
                    \/ /\ cmd'[d].op # "create" /\ cmd'[d].pc # "insert"
                       /\ row'[cmd'[d].job].st # "absent"
  BY DEF Creates
<1>4. CASE d = c
  BY <1>1, <1>2, <1>3, <1>4 DEF Creates
<1>5. CASE d # c
  BY <1>1, <1>2, <1>3, <1>5 DEF Creates
<1> QED BY <1>4, <1>5

LEMMA AdvanceUpserts ==
    ASSUME CmdOK, Upserts, NEW c \in Client, Advances(c)
    PROVE  Upserts'
BY DEF Advances, CmdOK, Upserts

\* A client that owes neither a kick nor a pause moves, and makes no job runnable.
LEMMA Unnoticed ==
    ASSUME CoreInv, FaultFree, NEW c \in Client, NEW r \in CmdState, cmd' = [cmd EXCEPT ![c] = r],
           cmd[c].pc \notin {"dequeue", "update"},
           UNCHANGED <<row, held, activeJobs, inFlight, sched, phase, recoverTodo>>,
           kick' \/ UNCHANGED kick,
           UNCHANGED queue \/ \E i : SetQueue(i, "none")
    PROVE  Undirty' /\ OverGivesBack' /\ Restarting' /\ Woken'
<1> USE DEF FaultFree, CoreInv, SharedOK
<1>1. \A d \in Client : d # c => cmd'[d] = cmd[d]
  BY DEF CmdOK
<1>2. Undirty' /\ Restarting'
  BY DEF Undirty, Restarting, Tracked
<1>3. \A i : Dequeues(i) => Dequeues(i)'
  BY <1>1 DEF Dequeues
<1>4. OverGivesBack'
  BY <1>3 DEF OverGivesBack, Committed
<1>5. (Asleep' => Asleep) /\ Runnable' \subseteq Runnable
  BY DEF Asleep, Runnable, SetQueue, QueueOK
<1>6. (KickOwed => KickOwed') /\ \A i : PauseOwed(i) => PauseOwed(i)'
  BY <1>1 DEF KickOwed, PauseOwed
<1>7. \A i : CanAcquire(i)' <=> CanAcquire(i)
  BY DEF CanAcquire, Permits!HasRoom, Permits!Holders, Permits!HoldersOn
<1>8. Woken'
  BY <1>5, <1>6, <1>7 DEF Woken
<1> QED BY <1>2, <1>4, <1>8

LEMMA BeginWakes ==
    ASSUME CoreInv, FaultFree, NEW c \in Client, NEW i \in Job,
           NEW op \in {"pause", "resume", "cancel", "retry", "run_now", "delete"}, Begin(c, op, i)
    PROVE  FaultFree'
<1> USE DEF CoreInv, SharedOK
<1> DEFINE r == [CmdIdle EXCEPT !.pc = FirstCall(op, row[i]), !.op = op, !.job = i, !.j = row[i],
                    !.action = IF op = "retry" THEN "start" ELSE "resume"]
<1>1. FirstCall(op, row[i]) \in CmdLabel \ {"insert", "idle"}
  BY DEF FirstCall, CmdLabel
<1>2. r \in CmdState /\ r.job = i /\ r.op # "create" /\ r.pc \notin {"insert", "idle"}
  BY <1>1, Records DEF CmdState, RowsOK, Action
<1>3. (r.pc = "enqueue" => r.op \in Upserting) /\ (r.pc = "get_entry" => r.op \in {"resume", "run_now"})
  BY Records DEF FirstCall, CmdState, Upserting
<1>4. cmd' = [cmd EXCEPT ![c] = r] /\ cmd[c].pc = "idle" /\ row[i].st # "absent"
  BY DEF Begin, CmdAt, Exists, JobStatus
<1> HIDE DEF r
<1>5. UNCHANGED <<row, held, activeJobs, inFlight, sched, phase, recoverTodo, kick, queue>>
  BY DEF Begin, trackingUnchanged, elseUnchanged
<1>6. \A d \in Client : cmd'[d] = IF d = c THEN r ELSE cmd[d]
  BY <1>4 DEF CmdOK
<1>7. Creates' /\ Upserts'
  BY <1>2, <1>3, <1>4, <1>5, <1>6 DEF Creates, Upserts, FaultFree
<1> QED BY <1>2, <1>4, <1>5, <1>7, Unnoticed DEF FaultFree

LEMMA BeginCreateWakes ==
    ASSUME CoreInv, FaultFree, NEW c \in Client, NEW i \in Job, BeginCreate(c, i)
    PROVE  FaultFree'
<1> USE DEF CoreInv, SharedOK
<1> DEFINE r == [CmdIdle EXCEPT !.pc = "enqueue", !.op = "create", !.job = i, !.action = "start",
                    !.j = [st |-> "queued", eid |-> NoGid]]
<1>1. [st |-> "queued", eid |-> NoGid] \in GoodRow
  BY DEF GoodRow, Row, JobStatus
<1>2. r \in CmdState /\ r.job = i /\ r.op = "create" /\ r.pc = "enqueue" /\ r.j.st = "queued"
  BY <1>1, Records DEF CmdState, CmdLabel, Action
<1>3. cmd' = [cmd EXCEPT ![c] = r] /\ cmd[c].pc = "idle" /\ row[i].st = "absent"
      /\ \A d \in Client : cmd[d].job # i
  BY DEF BeginCreate, CmdAt, Absent
<1> HIDE DEF r
<1>4. UNCHANGED <<row, held, activeJobs, inFlight, sched, phase, recoverTodo, kick, queue>>
  BY DEF BeginCreate, trackingUnchanged, elseUnchanged
<1>5. \A d \in Client : cmd'[d] = IF d = c THEN r ELSE cmd[d]
  BY <1>3 DEF CmdOK
<1>6. Creates' /\ Upserts'
  BY <1>2, <1>3, <1>4, <1>5 DEF Creates, Upserts, Upserting, FaultFree
<1> QED BY <1>2, <1>3, <1>4, <1>6, Unnoticed DEF FaultFree

\* The calls on the engine and the reading of a queue row wake nobody.
LEMMA CallsWake ==
    ASSUME CoreInv, FaultFree, NEW c \in Client, CallEngine(c) \/ GetEntry(c), ~Spend("db")
    PROVE  FaultFree'
<1> USE DEF CoreInv
<1>1. cmd[c] \in CmdState /\ cmd[c].pc \in {"engine", "get_entry"}
      /\ UNCHANGED <<row, held, activeJobs, inFlight, sched, phase, recoverTodo, kick, queue>>
  BY DEF CallEngine, GetEntry, CmdAt, CmdOK, trackingUnchanged, elseUnchanged
<1>2. cmd[c].op # "create"
  BY <1>1 DEF FaultFree, Creates
<1>3. Advances(c)
  <2>1. CASE CallEngine(c)
    BY <1>1, <1>2, <2>1, Goes, Ends DEF CallEngine, CmdLabel, Upserting
  <2>2. CASE GetEntry(c)
    <3>1. PICK a \in Action : cmd' = [cmd EXCEPT ![c].pc = "enqueue", ![c].action = a]
      BY <1>1, <2>2 DEF GetEntry, Action, SharedOK, QueueOK, CmdOK
    <3> DEFINE r == [cmd[c] EXCEPT !.pc = "enqueue", !.action = a]
    <3>2. r \in CmdState /\ r.job = cmd[c].job /\ r.op = cmd[c].op /\ r.pc = "enqueue" /\ r.j = cmd[c].j
      BY <1>1 DEF CmdState, CmdLabel
    <3>3. cmd' = [cmd EXCEPT ![c] = r]
      BY <1>1, <3>1 DEF CmdOK
    <3>4. cmd[c].op \in Upserting
      BY <1>1, <2>2 DEF FaultFree, Upserts, GetEntry, CmdAt, Upserting
    <3> HIDE DEF r
    <3> QED BY <1>2, <3>2, <3>3, <3>4 DEF Advances
  <2> QED BY <2>1, <2>2
<1>4. Creates' /\ Upserts'
  BY <1>1, <1>3, AdvanceCreates, AdvanceUpserts DEF FaultFree
<1> QED BY <1>1, <1>3, <1>4, Unnoticed DEF Advances, FaultFree

LEMMA UndoWakes ==
    ASSUME CoreInv, FaultFree, NEW c \in Client, Undo(c)
    PROVE  FaultFree'
<1> USE DEF CoreInv
<1>1. cmd' = [cmd EXCEPT ![c] = CmdIdle] /\ cmd[c].pc = "undo"
      /\ UNCHANGED <<row, held, activeJobs, inFlight, sched, phase, recoverTodo, kick>>
  BY DEF Undo, Finish, CmdAt, trackingUnchanged, elseUnchanged
<1>2. UNCHANGED queue \/ \E i : SetQueue(i, "none")
  BY DEF Undo, Db
<1>3. \A d \in Client : cmd'[d] = IF d = c THEN CmdIdle ELSE cmd[d]
  BY <1>1 DEF CmdOK
<1>4. Creates' /\ Upserts'
  BY <1>1, <1>3, Records DEF FaultFree, Creates, Upserts
<1> QED BY <1>1, <1>2, <1>4, Records, Unnoticed DEF FaultFree

\* A queue row alone makes no job runnable that is not there yet; the others are
\* about to kick, to pause, or have just kicked.
LEMMA EnqueueWakes ==
    ASSUME CoreInv, FaultFree, NEW c \in Client, Enqueue(c), ~Spend("db")
    PROVE  FaultFree'
<1> USE DEF CoreInv, SharedOK, FaultFree
<1>1. cmd[c] \in CmdState /\ cmd[c].pc = "enqueue" /\ cmd[c].job \in Job
      /\ UNCHANGED <<row, held, activeJobs, inFlight, sched, phase, recoverTodo>>
  BY DEF Enqueue, CmdAt, CmdOK, elseUnchanged
<1> DEFINE op == cmd[c].op
           i == cmd[c].job
           p == IF op = "create" THEN "insert" ELSE "update"
<1>2. SetQueue(i, cmd[c].action)
  BY DEF Enqueue
<1>3. (Finish(c) /\ kick') \/ (CmdGoto(c, p) /\ UNCHANGED kick)
  BY DEF Enqueue, Kick
<1>4. kick' \/ UNCHANGED kick
  BY <1>3
<1>5. Advances(c)
  BY <1>1, <1>3, Goes, Ends DEF CmdLabel
<1>6. Creates' /\ Upserts'
  BY <1>1, <1>5, AdvanceCreates, AdvanceUpserts
<1>7. \A d \in Client : d # c => cmd'[d] = cmd[d]
  BY <1>5 DEF Advances, CmdOK
<1>8. Undirty' /\ Restarting' /\ OverGivesBack'
  <2>1. Undirty' /\ Restarting'
    BY <1>1 DEF Undirty, Restarting, Tracked
  <2>2. \A k : Dequeues(k) => Dequeues(k)'
    BY <1>1, <1>7 DEF Dequeues
  <2> QED BY <1>1, <2>1, <2>2 DEF OverGivesBack, Committed
<1>9. Woken'
  <2> SUFFICES ASSUME Asleep', NEW k \in Runnable'
               PROVE  ~CanAcquire(k)' \/ KickOwed' \/ PauseOwed(k)'
    BY DEF Woken
  <2>1. Asleep /\ CmdGoto(c, p)
    BY <1>1, <1>3, <1>4 DEF Asleep
  <2>2. CanAcquire(k)' <=> CanAcquire(k)
    BY <1>1 DEF CanAcquire, Permits!HasRoom, Permits!Holders, Permits!HoldersOn
  <2>3. (KickOwed => KickOwed') /\ (PauseOwed(k) => PauseOwed(k)')
    BY <1>1, <1>7 DEF KickOwed, PauseOwed
  <2>4. CASE k \in Runnable
    BY <2>1, <2>2, <2>3, <2>4 DEF Woken
  <2>5. CASE k \notin Runnable
    <3>1. k = i /\ row[i].st = "queued"
      BY <1>1, <1>2, <2>5 DEF Runnable, SetQueue, QueueOK
    <3>2. op # "create"
      BY <1>1, <3>1 DEF Creates
    <3>3. cmd'[c].pc = "update" /\ cmd'[c].op = op /\ cmd'[c].job = i
      BY <1>1, <2>1, <3>2 DEF CmdGoto, CmdOK, CmdState
    <3>4. op \in {"pause", "resume", "retry", "run_now"}
      BY <1>1, <3>2 DEF Upserts, Upserting
    <3> QED BY <3>1, <3>3, <3>4 DEF KickOwed, PauseOwed
  <2> QED BY <2>4, <2>5
<1> QED BY <1>6, <1>8, <1>9

\* The new job is written and the scheduler kicked.
LEMMA InsertWakes ==
    ASSUME CoreInv, FaultFree, NEW c \in Client, Insert(c), ~Spend("db")
    PROVE  FaultFree'
<1> USE DEF CoreInv, SharedOK, FaultFree
<1>1. cmd[c] \in CmdState /\ cmd[c].pc = "insert" /\ cmd[c].job \in Job /\ kick'
      /\ UNCHANGED <<held, activeJobs, inFlight, sched, phase, recoverTodo>>
  BY DEF Insert, CmdAt, CmdOK, elseUnchanged, Kick
<1>2. cmd' = [cmd EXCEPT ![c] = CmdIdle] /\ row' = [row EXCEPT ![cmd[c].job] = cmd[c].j]
  BY DEF Insert, Finish
<1>3. \A d \in Client : cmd'[d] = IF d = c THEN CmdIdle ELSE cmd[d]
  BY <1>2 DEF CmdOK
<1>4. \A k \in Job : k # cmd[c].job => row'[k] = row[k]
  BY <1>2 DEF RowsOK
<1>5. \A d \in Client \ {c} : cmd[d].pc # "idle" => cmd[d].job # cmd[c].job
  BY <1>1 DEF Creates
<1>6. Creates' /\ Upserts'
  BY <1>3, <1>4, <1>5, Records DEF Creates, Upserts, CmdOK
<1>7. row[cmd[c].job].st = "absent" /\ phase = "up" /\ ~Asleep'
  BY <1>1 DEF Creates, Insert, CmdAt, Asleep
<1>8. row'[cmd[c].job].st = "queued" /\ phase' = "up"
  BY <1>1, <1>2, <1>7 DEF Creates, RowsOK
<1>9. Undirty' /\ Restarting' /\ Woken'
  BY <1>1, <1>7, <1>8 DEF Undirty, Restarting, Woken
<1>10. \A k : Dequeues(k) => Dequeues(k)'
  BY <1>1, <1>3 DEF Dequeues
<1>11. OverGivesBack'
  BY <1>1, <1>4, <1>8, <1>10 DEF OverGivesBack, Committed, Over
<1> QED BY <1>6, <1>9, <1>11

\* A command writes the status it is about: only Resume, Retry and RunNow queue the
\* job, and they kick; Cancel ends it, and goes on to dequeue it.
LEMMA WriteStatusWakes ==
    ASSUME CoreInv, FaultFree, NEW c \in Client, WriteStatus(c), ~Spend("db")
    PROVE  FaultFree'
<1> USE DEF CoreInv, SharedOK, FaultFree
<1> DEFINE op == cmd[c].op
           i == cmd[c].job
           r == [cmd[c].j EXCEPT !.st = Target(op)]
<1>1. cmd[c] \in CmdState /\ cmd[c].pc = "update" /\ i \in Job /\ phase = "up"
      /\ UNCHANGED <<queue, inFlight, sched, phase, recoverTodo>>
  BY DEF WriteStatus, CmdAt, CmdOK, elseUnchanged
<1>2. r.st = Target(op) /\ Target(op) \in JobStatus /\ Update(i, r)
  BY <1>1, Records DEF WriteStatus, CmdState, Row, Target, JobStatus
<1> HIDE DEF r
<1>3. \/ op \in {"resume", "retry", "run_now"} /\ Finish(c) /\ kick' /\ UNCHANGED <<activeJobs, held>>
      \/ op = "pause" /\ Finish(c) /\ kick' /\ RemoveActive(i)
      \/ op = "pause" /\ Finish(c) /\ UNCHANGED <<activeJobs, held, kick>>
      \/ op = "cancel" /\ CmdGoto(c, "dequeue") /\ UNCHANGED <<activeJobs, held, kick>>
  BY DEF WriteStatus, Kick, trackingUnchanged
<1>4. Advances(c)
  BY <1>1, <1>3, Goes, Ends DEF CmdLabel
<1>5. \A d \in Client : d # c => cmd'[d] = cmd[d]
  BY <1>4 DEF Advances, CmdOK
<1>6. Creates' /\ Upserts'
  BY <1>1, <1>2, <1>4, StaysAbsent, AdvanceCreates, AdvanceUpserts
<1>7. Undirty' /\ Restarting'
  BY <1>1 DEF Undirty, Restarting
<1>8. \A k \in Job : k # i => row'[k] = row[k]
  BY <1>2 DEF Update, RowsOK
<1>9. row'[i].st = Target(op) \/ (~Exists(i) /\ row'[i] = row[i])
  BY <1>1, <1>2 DEF Update, RowsOK
<1>10. op = "cancel" => cmd'[c].pc = "dequeue" /\ cmd'[c].job = i
  BY <1>1, <1>3 DEF CmdGoto, CmdOK, CmdState
<1>11. \A k \in Job : held'[k] \in {held[k], NoLease}
  BY <1>3 DEF RemoveActive, Drop, PermitsOK
<1>12. OverGivesBack'
  <2>1. \A k : Dequeues(k) => Dequeues(k)'
    BY <1>1, <1>5 DEF Dequeues
  <2>2. row'[i].st \in Over => op = "cancel" \/ row'[i] = row[i]
    BY <1>1, <1>3, <1>9 DEF Target, Over
  <2> SUFFICES ASSUME NEW k \in Job, Committed(k)', held'[k] # NoLease, row'[k].st \in Over
               PROVE  Dequeues(k)'
    BY DEF OverGivesBack
  <2>3. Committed(k) /\ held[k] # NoLease
    BY <1>1, <1>11 DEF Committed
  <2>4. CASE row'[k] = row[k]
    BY <2>1, <2>3, <2>4 DEF OverGivesBack
  <2>5. CASE k = i /\ op = "cancel"
    BY <1>10, <2>5 DEF Dequeues
  <2> QED BY <1>8, <2>2, <2>4, <2>5
<1>13. Woken'
  <2> SUFFICES ASSUME Asleep', NEW k \in Runnable'
               PROVE  ~CanAcquire(k)' \/ KickOwed' \/ PauseOwed(k)'
    BY DEF Woken
  <2>1. op \in {"pause", "cancel"} /\ UNCHANGED <<held, kick>> /\ Asleep
    BY <1>1, <1>3 DEF Asleep
  <2>2. k # i /\ k \in Runnable
    BY <1>1, <1>8, <1>9, <2>1 DEF Runnable, Target, Exists, JobStatus
  <2>3. CanAcquire(k)' <=> CanAcquire(k)
    BY <1>1, <2>1 DEF CanAcquire, Permits!HasRoom, Permits!Holders, Permits!HoldersOn
  <2>4. (KickOwed => KickOwed') /\ (PauseOwed(k) => PauseOwed(k)')
    BY <1>1, <1>5, <1>10, <2>1, <2>2 DEF KickOwed, PauseOwed
  <2> QED BY <2>1, <2>2, <2>3, <2>4 DEF Woken
<1> QED BY <1>6, <1>7, <1>12, <1>13

\* Dequeue and Cascade give the permit back and kick.
LEMMA DequeueWakes ==
    ASSUME CoreInv, FaultFree, NEW c \in Client, Dequeue(c) \/ Cascade(c), ~Spend("db")
    PROVE  FaultFree'
<1> USE DEF CoreInv, SharedOK, FaultFree
<1> DEFINE i == cmd[c].job
<1>1. cmd[c] \in CmdState /\ cmd[c].pc \in {"dequeue", "cascade"} /\ i \in Job /\ phase = "up"
      /\ UNCHANGED <<inFlight, sched, phase, recoverTodo>> /\ kick' /\ RemoveActive(i)
  BY DEF Dequeue, Cascade, CmdAt, CmdOK, elseUnchanged, Kick
<1>2. Finish(c) /\ (UNCHANGED row \/ row' = [row EXCEPT ![i] = Gone])
  BY DEF Dequeue, Cascade
<1>3. row[i].st # "absent"
  BY <1>1 DEF Creates
<1>4. \A k \in Job : row'[k].st = "absent" <=> row[k].st = "absent"
  BY <1>1, <1>2, <1>3 DEF RowsOK, Gone
<1>5. Creates' /\ Upserts'
  BY <1>1, <1>2, <1>4, Ends, AdvanceCreates, AdvanceUpserts
<1>6. Undirty' /\ Restarting' /\ Woken'
  BY <1>1 DEF Undirty, Restarting, Woken, Asleep
<1>7. held'[i] = NoLease /\ \A k \in Job : k # i => held'[k] = held[k] /\ row'[k] = row[k]
  BY <1>1, <1>2 DEF RemoveActive, Drop, PermitsOK, RowsOK
<1>8. \A k \in Job : k # i => (Dequeues(k) => Dequeues(k)')
  BY <1>1, <1>2 DEF Dequeues, Finish, CmdOK
<1>9. OverGivesBack'
  BY <1>1, <1>7, <1>8 DEF OverGivesBack, Committed
<1> QED BY <1>5, <1>6, <1>9

LEMMA CommandsWake ==
    ASSUME CoreInv, FaultFree, \E c \in Client : Request(c) \/ CommandCall(c), ~Spend("db")
    PROVE  FaultFree'
BY BeginWakes, BeginCreateWakes, CallsWake, UndoWakes, EnqueueWakes, InsertWakes, WriteStatusWakes,
   DequeueWakes DEF Request, CommandCall
------------------------------------------------------------------------------
\* The monitor.  It forgets a job whose row is over without a kick; such a job holds
\* no permit, or a command that is about to dequeue it will kick.

LEMMA CondemnWakes ==
    ASSUME CoreInv, FaultFree, Condemn, ~Spend("db")
    PROVE  FaultFree'
<1> USE DEF CoreInv, SharedOK, FaultFree
<1>1. CASE UNCHANGED <<activeJobs, held>>
  BY <1>1, FaultFreeStays DEF Condemn, restUnchanged
<1>2. CASE row[mon.job].st \in Over /\ RemoveActive(mon.job)
  <2>1. mon.job \in Job /\ phase = "up"
        /\ UNCHANGED <<row, queue, inFlight, kick, sched, cmd, phase, recoverTodo>>
    BY DEF Condemn, MonAt, MonOK, restUnchanged
  <2>2. \A k \in Job : held'[k] \in {held[k], NoLease}
    BY <1>2 DEF RemoveActive, Drop, PermitsOK
  <2>3. Creates' /\ Upserts' /\ Undirty' /\ Restarting'
    BY <2>1 DEF Creates, Upserts, Undirty, Restarting
  <2>4. OverGivesBack'
    BY <2>1, <2>2 DEF OverGivesBack, Committed, Dequeues
  <2>5. Woken'
    <3> SUFFICES ASSUME Asleep', NEW k \in Runnable'
                 PROVE  ~CanAcquire(k)' \/ KickOwed' \/ PauseOwed(k)'
      BY DEF Woken
    <3>1. Asleep /\ k \in Runnable /\ (KickOwed => KickOwed') /\ (PauseOwed(k) => PauseOwed(k)')
      BY <2>1 DEF Asleep, Runnable, KickOwed, PauseOwed
    <3>2. CASE held[mon.job] = NoLease
      <4>1. held' = held
        BY <1>2, <3>2 DEF RemoveActive, Drop, PermitsOK
      <4>2. CanAcquire(k)' <=> CanAcquire(k)
        BY <2>1, <4>1 DEF CanAcquire, Permits!HasRoom, Permits!Holders, Permits!HoldersOn
      <4> QED BY <3>1, <4>2 DEF Woken
    <3>3. CASE held[mon.job] # NoLease
      <4>1. inFlight[mon.job] = Free
        BY <2>1, <3>1 DEF Asleep, Undirty, SchedOK, SchedOwns, Dispatching
      <4>2. Dequeues(mon.job)
        BY <1>2, <2>1, <3>3, <4>1 DEF OverGivesBack, Committed
      <4> QED BY <2>1, <4>2 DEF Dequeues, KickOwed
    <3> QED BY <3>2, <3>3
  <2> QED BY <2>3, <2>4, <2>5
<1> QED BY <1>1, <1>2 DEF Condemn, Over

\* The others kick when they give a permit back.
LEMMA EndsWake ==
    ASSUME CoreInv, FaultFree, Fail \/ ApplyEnd \/ ApplyPaused, ~Spend("db")
    PROVE  FaultFree'
<1> USE DEF CoreInv, SharedOK, FaultFree
<1>1. mon.job \in Job /\ phase = "up" /\ kick' /\ RemoveActive(mon.job)
      /\ UNCHANGED <<queue, inFlight, sched, cmd, phase, recoverTodo>>
  BY DEF Fail, ApplyEnd, ApplyPaused, MonAt, MonOK, restUnchanged
<1>2. PICK st \in JobStatus : Update(mon.job, [Copy EXCEPT !.st = st])
  BY DEF Fail, ApplyEnd, ApplyPaused, Db, JobStatus
<1>3. [Copy EXCEPT !.st = st].st \in JobStatus
  <2>1. [Copy EXCEPT !.st = st] \in GoodRow
    BY CopyIsGood DEF Fail, ApplyEnd, ApplyPaused, MonAt
  <2>2. Copy \in ActiveRow
    BY DEF Fail, ApplyEnd, ApplyPaused, MonAt, MonOK, MonState, Copy
  <2> QED BY <2>2 DEF ActiveRow
<1>4. Creates' /\ Upserts' /\ Undirty' /\ Restarting' /\ Woken'
  BY <1>1, <1>2, <1>3, StaysAbsent, CreatesStay DEF Upserts, Undirty, Restarting, Woken, Asleep
<1>5. held'[mon.job] = NoLease
      /\ \A k \in Job : k # mon.job => held'[k] = held[k] /\ row'[k] = row[k]
  BY <1>1, <1>2 DEF RemoveActive, Drop, PermitsOK, RowsOK, Update
<1>6. OverGivesBack'
  BY <1>1, <1>5 DEF OverGivesBack, Committed, Dequeues
<1> QED BY <1>4, <1>6

\* Progress keeps a row from being queued or over.
LEMMA PersistWakes ==
    ASSUME CoreInv, FaultFree, Persist, ~Spend("db")
    PROVE  FaultFree'
<1> USE DEF CoreInv, SharedOK, FaultFree
<1>1. CASE UNCHANGED row
  BY <1>1, FaultFreeStays DEF Persist, restUnchanged
<1> DEFINE r == [Copy EXCEPT !.st = "downloading"]
<1>2. CASE Update(mon.job, r)
  <2>1. mon.job \in Job /\ phase = "up"
        /\ UNCHANGED <<queue, activeJobs, held, kick, inFlight, sched, cmd, phase, recoverTodo>>
    BY DEF Persist, MonAt, MonOK, restUnchanged
  <2>2. r.st = "downloading" /\ r.st \in JobStatus
    BY DEF Persist, MonAt, MonOK, MonState, Copy, ActiveRow, JobStatus
  <2> HIDE DEF r
  <2>3. \A k \in Job : row'[k].st = "absent" <=> row[k].st = "absent"
    BY <1>2, <2>1, <2>2, StaysAbsent
  <2>4. Creates' /\ Upserts' /\ Undirty' /\ Restarting'
    BY <2>1, <2>3, CreatesStay DEF Upserts, Undirty, Restarting
  <2>5. \A k \in Job : row'[k] = row[k] \/ row'[k].st = "downloading"
    BY <1>2, <2>1, <2>2 DEF Update, RowsOK
  <2>6. OverGivesBack'
    BY <2>1, <2>5 DEF OverGivesBack, Committed, Dequeues, Over
  <2>7. (Asleep' => Asleep) /\ Runnable' \subseteq Runnable
    BY <2>1, <2>5 DEF Asleep, Runnable
  <2>8. (KickOwed => KickOwed') /\ \A k : PauseOwed(k) => PauseOwed(k)'
    BY <2>1 DEF KickOwed, PauseOwed
  <2>9. \A k : CanAcquire(k)' <=> CanAcquire(k)
    BY <2>1 DEF CanAcquire, Permits!HasRoom, Permits!Holders, Permits!HoldersOn
  <2> QED BY <2>4, <2>6, <2>7, <2>8, <2>9 DEF Woken
<1> QED BY <1>1, <1>2 DEF Persist, Db

LEMMA MonitorWakes ==
    ASSUME CoreInv, FaultFree, MonitorStep, ~Spend("db")
    PROVE  FaultFree'
<1> USE DEF CoreInv
<1>1. CASE Tick \/ EndTick \/ \E j \in Job : Poll(j)
  BY <1>1, FaultFreeStays DEF Tick, EndTick, Poll, restUnchanged
<1>2. CASE ApplyRunning
  <2>1. phase = "up" /\ UNCHANGED <<row, queue, held, kick, inFlight, sched, cmd, phase, recoverTodo>>
    BY <1>2 DEF ApplyRunning, MonAt, restUnchanged
  <2>2. Restarting' /\ Creates' /\ Upserts' /\ Undirty' /\ OverGivesBack'
    BY <2>1 DEF FaultFree, Restarting, Creates, Upserts, Undirty, OverGivesBack, Committed, Dequeues
  <2>3. Runnable' = Runnable /\ (KickOwed' <=> KickOwed) /\ (Asleep' <=> Asleep)
    BY <2>1 DEF Runnable, KickOwed, Asleep
  <2>4. \A j : (PauseOwed(j)' <=> PauseOwed(j)) /\ (CanAcquire(j)' <=> CanAcquire(j))
    BY <2>1 DEF PauseOwed, CanAcquire, Permits!HasRoom, Permits!Holders, Permits!HoldersOn
  <2> QED BY <2>2, <2>3, <2>4 DEF FaultFree, Woken
<1> QED BY <1>1, <1>2, CondemnWakes, EndsWake, PersistWakes DEF MonitorStep
------------------------------------------------------------------------------
\* Recovery: it tracks what it has found running, and Serve kicks.

LEMMA CrashWakes ==
    ASSUME CoreInv, FaultFree, Crash
    PROVE  FaultFree'
<1> USE DEF CoreInv, SharedOK, FaultFree
<1>1. Creates' /\ Upserts'
  BY Records DEF Crash, Creates, Upserts, CmdIdle
<1>2. Undirty' /\ Woken'
  BY DEF Crash, Undirty, Woken, Asleep, SchedIdle, Reconciling
<1>3. OverGivesBack' /\ Restarting'
  BY DEF Crash, OverGivesBack, Restarting, Tracked, Absent
<1> QED BY <1>1, <1>2, <1>3

LEMMA RecoveryWakes ==
    ASSUME CoreInv, FaultFree, RecoveryStep, ~Spend("db")
    PROVE  FaultFree'
<1> USE DEF CoreInv, SharedOK, FaultFree
<1>1. CASE Restart
  <2>1. phase = "down" /\ phase' = "recovering"
        /\ UNCHANGED <<row, activeJobs, held, inFlight, sched, cmd>>
    BY <1>1 DEF Restart, procVars
  <2>2. Creates' /\ Upserts' /\ Undirty' /\ Woken'
    BY <2>1 DEF Creates, Upserts, Undirty, Woken, Asleep
  <2>3. OverGivesBack' /\ Restarting'
    BY <2>1 DEF OverGivesBack, Restarting, Tracked, Committed, Dequeues
  <2> QED BY <2>2, <2>3
<1>2. ASSUME NEW i \in Job, RecoverJob(i)
      PROVE  FaultFree'
  <2>1. phase = "recovering" /\ i \in recoverTodo /\ recoverTodo' = recoverTodo \ {i}
        /\ UNCHANGED <<phase, held, inFlight, sched, cmd>>
    BY <1>2 DEF RecoverJob, procVars
  <2>2. PICK st \in JobStatus : /\ Update(i, [row[i] EXCEPT !.st = st])
                                /\ UNCHANGED activeJobs \/ (st \in {"downloading", "queued"}
                                        /\ \A k \in Job : k # i => activeJobs'[k] = activeJobs[k])
    <3>1. \A s : MapAria2Status(s) \in JobStatus
      BY DEF MapAria2Status, JobStatus
    <3>2. Reattaches(row[i].eid) => MapAria2Status(task[row[i].eid].st) \in {"downloading", "queued"}
      BY DEF Reattaches, MapAria2Status, TaskOf
    <3> QED BY <1>2, <3>1, <3>2 DEF RecoverJob, Db, AddActive, ActiveOK, JobStatus
  <2>3. [row[i] EXCEPT !.st = st].st = st
    BY DEF RowsOK, GoodRow, Row
  <2>4. Creates' /\ Upserts' /\ Undirty' /\ Woken'
    BY <2>1, <2>2, <2>3, StaysAbsent, CreatesStay DEF Upserts, Undirty, Woken, Asleep
  <2>5. OverGivesBack'
    BY <2>1 DEF OverGivesBack, Restarting
  <2>6. row'[i].st = st \/ (~Exists(i) /\ row'[i] = row[i])
    BY <2>2, <2>3 DEF Update, RowsOK
  <2>7. \A k \in Job : k # i => row'[k] = row[k]
    BY <2>2 DEF Update, RowsOK
  <2>8. Restarting'
    <3> SUFFICES ASSUME NEW k \in Job, Tracked(k)'
                 PROVE  row'[k].st \notin Over /\ k \notin recoverTodo'
      BY <2>1 DEF Restarting
    <3>1. CASE k # i
      BY <2>1, <2>2, <2>7, <3>1 DEF Restarting, Tracked
    <3>2. CASE k = i
      BY <2>1, <2>2, <2>6, <3>2 DEF Restarting, Tracked, Over, Exists, JobStatus
    <3> QED BY <3>1, <3>2
  <2> QED BY <2>4, <2>5, <2>8
<1>3. CASE Serve
  <2>1. phase' = "up" /\ kick' /\ UNCHANGED <<row, activeJobs, inFlight, sched, cmd>> /\ phase = "recovering"
    BY <1>3 DEF Serve, procVars
  <2>2. \A k \in Job : held'[k] # NoLease => activeJobs[k].st = "downloading"
    BY <1>3 DEF Serve, Reconstructed
  <2>3. Creates' /\ Upserts' /\ Undirty' /\ Woken' /\ Restarting'
    BY <2>1 DEF Creates, Upserts, Undirty, Woken, Asleep, Restarting
  <2>4. OverGivesBack'
    BY <2>1, <2>2 DEF OverGivesBack, Restarting, Tracked
  <2> QED BY <2>3, <2>4
<1> QED BY <1>1, <1>2, <1>3 DEF RecoveryStep
------------------------------------------------------------------------------
LEMMA WakeStep == WakeInv /\ [CoreNext]_coreVars => WakeInv'
<1> SUFFICES ASSUME WakeInv, [CoreNext]_coreVars PROVE WakeInv'
  OBVIOUS
<1> USE DEF WakeInv
<1>1. CoreInv'
  BY CoreStepInv
<1>2. CoreNext \/ UNCHANGED coreVars
  OBVIOUS
<1>3. budget'["db"] <= Budget["db"] /\ (NoDbFault' => NoDbFault /\ ~Spend("db"))
  BY <1>2, FaultsStay DEF CoreInv, SharedOK, coreVars
<1>4. ASSUME NoDbFault'
      PROVE  FaultFree'
  <2>1. FaultFree /\ CoreInv /\ CmdOK /\ ~Spend("db")
    BY <1>3, <1>4 DEF CoreInv
  <2>2. CASE SchedulerStep
    BY <2>1, <2>2, SchedulerWakes
  <2>3. CASE RetryFires
    <3>1. kick' /\ UNCHANGED <<row, queue, activeJobs, held, inFlight, sched, cmd, phase, recoverTodo>>
      BY <2>3 DEF RetryFires, othersUnchanged
    <3>2. Creates' /\ Upserts' /\ Undirty' /\ Restarting'
      BY <2>1, <3>1 DEF FaultFree, Creates, Upserts, Undirty, Restarting, Tracked
    <3> QED BY <2>1, <3>1, <3>2 DEF FaultFree, OverGivesBack, Committed, Dequeues, Woken, Asleep
  <2>4. CASE MonitorStep
    BY <2>1, <2>4, MonitorWakes
  <2>5. CASE RecoveryStep
    BY <2>1, <2>5, RecoveryWakes
  <2>6. CASE EngineStep
    BY <2>1, <2>6, FaultFreeStays DEF EngineStep, TaskStarts, TaskEnds, TaskLost, EngineMoves,
       durableVars, memoryVars, procVars, startVars
  <2>7. CASE Crash
    BY <2>1, <2>7, CrashWakes
  <2>8. CASE \E c \in Client : Request(c) \/ CommandCall(c)
    BY <2>1, <2>8, CommandsWake
  <2>9. CASE UNCHANGED coreVars
    BY <2>1, <2>9, FaultFreeStays DEF coreVars, durableVars, memoryVars, procVars, startVars
  <2> QED BY <1>2, <2>2, <2>3, <2>4, <2>5, <2>6, <2>7, <2>8, <2>9 DEF CoreNext
<1> QED BY <1>1, <1>3, <1>4

LEMMA WakeInit == CoreInit => WakeInv
<1> SUFFICES ASSUME CoreInit PROVE WakeInv
  OBVIOUS
<1>1. CoreInv /\ budget = Budget
  BY CoreInitInv DEF CoreInit
<1>2. budget["db"] <= Budget["db"]
  BY <1>1 DEF CoreAssumptions
<1>3. Creates /\ Upserts
  BY DEF CoreInit, Creates, Upserts, CmdIdle
<1>4. Undirty /\ OverGivesBack /\ Restarting
  BY DEF CoreInit, Undirty, OverGivesBack, Restarting, SchedIdle, Reconciling
<1>5. Woken
  BY DEF CoreInit, Woken, Runnable, Absent
<1> QED BY <1>1, <1>2, <1>3, <1>4, <1>5 DEF WakeInv, FaultFree

\* No wakeup is lost, for any jobs, requests, limits, faults and crashes: as long as no
\* database call has failed, a job that could run never waits for a kick that nobody
\* will send.
THEOREM WakeupsAreNotLost == CoreSpec => []NoLostWakeup
<1>1. CoreSpec => []WakeInv
  BY WakeInit, WakeStep, PTL DEF CoreSpec
<1>2. WakeInv => NoLostWakeup
  <2> SUFFICES ASSUME WakeInv, Settled, budget["db"] = Budget["db"], NEW j \in Runnable
               PROVE  ~CanAcquire(j)
    BY DEF NoLostWakeup
  <2>1. Asleep /\ Woken
    BY DEF WakeInv, NoDbFault, FaultFree, Settled, Quiet, Asleep
  <2>2. ~KickOwed /\ ~PauseOwed(j)
    BY DEF Settled, Quiet, CommandRunning, KickOwed, PauseOwed
  <2> QED BY <2>1, <2>2 DEF Woken
<1> QED BY <1>1, <1>2, PTL

-------------------------------------------------------------------------------
(***************************************************************************)
(* Proofs about the download core as a user meets it who waits for each    *)
(* command to take effect, with aria2 starting every task at once and a    *)
(* database that answers.  Calls of the engine may fail, disks may be      *)
(* full, tasks may be lost and the process may die at any step; scheduler  *)
(* and monitor still run side by side.                                     *)
(*                                                                         *)
(* What makes all of it true is that every copy of a row a goroutine works *)
(* with is then the row (CopiesAreRows).  QueueFollows adds the queue      *)
(* table, FaultsArePaid the tasks of the engine.                           *)
(***************************************************************************)

\* The hypothesis of every theorem from here on.
WaitingUser == Serial /\ ~EngineQueues /\ Budget["db"] = 0

\* A command runs alone, and nothing runs while the process is down or recovers.
AtRest == sched.pc = "idle" /\ mon.pc = "idle"
Alone ==
    /\ phase # "up" => AtRest /\ ~CommandRunning
    /\ \A c \in Client : cmd[c].pc # "idle" =>
           AtRest /\ \A d \in Client : cmd[d].pc # "idle" => d = c

\* Every task starts at once.
NothingWaits ==
    /\ \A g \in Gid : task[g].st # "waiting"
    /\ \A j \in Job : activeJobs[j].st # "queued"

\* The row a command read at its start is the row, up to its write.
Reading == {"engine", "get_entry", "enqueue", "update", "cascade"}
CommandReads(m) ==
    /\ m.pc # "undo" /\ m.ok
    /\ m.op = "create" => m.pc \in {"idle", "enqueue", "insert"}
    /\ m.pc = "insert" => m.op = "create"
    /\ m.pc # "idle" /\ m.op = "create" =>
           row[m.job].st = "absent" /\ m.j = [st |-> "queued", eid |-> NoGid]
    /\ m.pc \in Reading /\ m.op # "create" =>
           row[m.job] = m.j /\ m.j.st \in JobStatus /\ Allowed(m.op, m.j.st)
    /\ m.pc = "engine" => m.op \in {"pause", "cancel"}
    /\ m.pc = "get_entry" => m.op \in {"resume", "run_now"}
    /\ m.pc = "enqueue" => m.op \in {"create", "pause", "resume", "retry", "run_now"}
    /\ m.pc \in {"engine", "enqueue"} /\ m.op = "pause" => m.j.st # "queued"
    /\ m.pc = "update" => m.op \in {"pause", "resume", "retry", "run_now", "cancel"}
    /\ m.pc = "cascade" => m.op = "delete"
    /\ m.pc = "dequeue" => m.op = "cancel" /\ row[m.job].st = "cancelled"
CommandsRead == \A c \in Client : CommandReads(cmd[c])

\* The copies the scheduler read are the row of the job it dispatches, which
\* nobody else works on.
Copied == Dispatching \ {"fetch", "drop_entry", "activate"}
SchedulerReads ==
    sched.pc \in Dispatching =>
        LET i == sched.job IN
        /\ ~Tracked(i) /\ mon.snap[i] = Absent /\ held[i] # NoLease /\ sched.pc # "lost_entry"
        /\ sched.pc = "fetch" => row[i].st = "queued"
        /\ sched.pc \in Copied => row[i] = sched.cur /\ row[i].st = "queued"
        /\ sched.pc \in {"start", "resume", "refuse", "refused"} => sched.j = row[i]
        /\ sched.pc = "activate" => sched.j = row[i] /\ row[i].st = "downloading"
        /\ sched.pc = "drop_entry" => row[i].st = "failed"

\* What is tracked downloads, is paid for, and is what the row names; what the
\* monitor has copied is what is tracked.
TrackedRows ==
    \A j \in Job : Tracked(j) =>
        /\ row[j].eid = activeJobs[j].eid
        /\ row[j].st = "downloading" \/ Dequeues(j)
        /\ phase = "up" => held[j] # NoLease
MonitorReads ==
    /\ mon.pc = "idle" => \A j \in Job : mon.snap[j] = Absent
    /\ \A j \in Job : mon.snap[j] # Absent => activeJobs[j] = mon.snap[j]

\* What downloads is tracked, or about to be.
RowsWatched ==
    \A j \in Job : row[j].st = "downloading" =>
        /\ phase = "up" => Tracked(j) \/ (sched.pc = "activate" /\ sched.job = j)
        /\ phase = "recovering" => Tracked(j) \/ j \in recoverTodo
RecoveryReads == phase = "recovering" => \A j \in recoverTodo : row[j].st = "downloading"

CopiesAreRows ==
    /\ Alone /\ NothingWaits /\ CommandsRead /\ SchedulerReads
    /\ TrackedRows /\ MonitorReads /\ RowsWatched /\ RecoveryReads
SerialInv == WakeInv /\ CopiesAreRows
------------------------------------------------------------------------------
\* A queued job has its queue row, always; who is past queueing has none, but
\* for the goroutine that is about to delete it or to queue the job again.
EntryOwed(j) ==
    \/ sched.job = j /\ sched.pc \in {"activate", "drop_entry"}
    \/ Dequeues(j)
    \/ \E c \in Client : /\ cmd[c].pc = "update" /\ cmd[c].job = j
                         /\ cmd[c].op \in {"pause", "resume", "retry"}
QueueFollows ==
    /\ \A j \in Job : row[j].st = "queued" => queue[j] # "none"
    /\ phase = "up" => \A j \in Job :
           row[j].st \in NoLongerQueued \cup {"gone"} => queue[j] = "none" \/ EntryOwed(j)
    /\ \A c \in Client :
           /\ cmd[c].pc \in {"engine", "enqueue"} => cmd[c].action # "none"
           /\ cmd[c].pc = "insert" => queue[cmd[c].job] # "none"
           /\ cmd[c].pc = "update" /\ cmd[c].op \in {"resume", "retry", "run_now"} =>
                  queue[cmd[c].job] # "none"
------------------------------------------------------------------------------
\* Tasks.  A task belongs to the job whose row, or whose dispatch, names it.
Begun(g) == sched.pc \in {"limits", "started"} /\ sched.j.eid = g
TasksHaveJobs ==
    /\ \A j \in Job : row[j].eid # NoGid => task[row[j].eid].job = j /\ task[row[j].eid].st # "unused"
    /\ \A g \in Gid : Begun(g) => task[g].job = sched.job /\ task[g].st # "unused"
    /\ \A g \in Gid : task[g].st # "unused" => task[g].job \in Job

\* Who is to write that a task has ended or sleeps has seen to it.
EndIsSeen ==
    /\ mon.pc = "apply" /\ mon.status \notin {"downloading", "queued"} =>
           ~Live(mon.snap[mon.job].eid)
    /\ \A c \in Client : /\ cmd[c].pc \in {"enqueue", "update"} /\ cmd[c].op \in {"pause", "cancel"}
                         /\ cmd[c].j.st = "downloading"
                         => ~Live(cmd[c].j.eid)

\* A task in excess runs although no dispatch and no row that is downloading
\* names it, or is given up by the monitor.
Condemned(g) == mon.pc \in {"condemn", "fail"} /\ mon.snap[mon.job].eid = g
Kept(g) == Begun(g) \/ (row[task[g].job] = [st |-> "downloading", eid |-> g] /\ ~Condemned(g))
Excess == {g \in Gid : Live(g) /\ ~Kept(g)}
BudgetSpent == \A kind \in DOMAIN Budget : budget[kind] <= Budget[kind]
FaultsArePaid ==
    /\ TasksHaveJobs /\ EndIsSeen /\ BudgetSpent
    /\ phase # "up" => budget["crash"] < Budget["crash"]
    /\ Cardinality(Excess) <= (Budget["rpc"] - budget["rpc"]) + (Budget["crash"] - budget["crash"])
------------------------------------------------------------------------------
\* What every step finds: no database call fails.
Finds == CoreInv /\ FaultFree /\ CopiesAreRows /\ ~Spend("db") /\ Serial /\ ~EngineQueues

LEMMA SerialFinds ==
    ASSUME WaitingUser, SerialInv
    PROVE  Finds /\ NoDbFault
<1>1. "db" \in DOMAIN Budget /\ budget["db"] \in Nat /\ budget["db"] <= 0
  BY DEF WaitingUser, SerialInv, WakeInv, CoreInv, SharedOK, BudgetOK, CoreAssumptions
<1>2. budget["db"] = 0
  BY <1>1
<1>3. ~Spend("db")
  BY <1>2 DEF Spend
<1> QED BY <1>2, <1>3 DEF WaitingUser, SerialInv, WakeInv, NoDbFault, Finds

\* What the monitor has copied is tracked, and what is tracked downloads unless a
\* cancellation is about to forget it.
LEMMA CopiesAreTracked ==
    ASSUME CoreInv, MonitorReads, NEW i \in Job, mon.snap[i] # Absent
    PROVE  Tracked(i)
BY DEF CoreInv, MonitorReads, SharedOK, ActiveOK, ActiveRow, Tracked, Absent

LEMMA QueuedIsUntracked ==
    ASSUME Finds, NEW i \in Job, row[i].st \notin {"downloading", "cancelled"}
    PROVE  ~Tracked(i) /\ mon.snap[i] = Absent
<1>1. ~Tracked(i)
  BY DEF Finds, CopiesAreRows, TrackedRows, Dequeues, CommandsRead, CommandReads
<1> QED BY <1>1, CopiesAreTracked DEF Finds, CopiesAreRows

\* A command that does not run says nothing of rows.
LEMMA NothingRuns ==
    ASSUME CoreInv, CommandsRead, UNCHANGED cmd, ~CommandRunning
    PROVE  CommandsRead' /\ \A j \in Job : ~Dequeues(j) /\ ~Dequeues(j)'
<1>1. \A c \in Client : cmd[c].pc = "idle" /\ cmd'[c] = cmd[c]
  BY DEF CommandRunning
<1>2. \A c \in Client : CommandReads(cmd[c])' 
  <2> SUFFICES ASSUME NEW c \in Client PROVE CommandReads(cmd[c])'
    OBVIOUS
  <2>1. cmd[c].pc = "idle" /\ cmd'[c] = cmd[c] /\ CommandReads(cmd[c])
    BY <1>1 DEF CommandsRead
  <2> QED BY <2>1 DEF CommandReads, Reading
<1>3. CommandsRead'
  BY <1>2 DEF CommandsRead
<1> QED BY <1>1, <1>3 DEF Dequeues
------------------------------------------------------------------------------
\* The scheduler.

\* A step of a dispatch concerns its job only, which stays untracked or is tracked as
\* what its row says.
LEMMA DispatchFrame ==
    ASSUME Finds, phase = "up", othersUnchanged, sched.pc \in Dispatching, NEW i \in Job, i = sched.job,
           \A k \in Job : k # i =>
               row'[k] = row[k] /\ activeJobs'[k] = activeJobs[k] /\ held'[k] = held[k],
           row'[i].st = "downloading" => Tracked(i)' \/ (sched'.pc = "activate" /\ sched'.job = i),
           Tracked(i)' => /\ row'[i].eid = activeJobs'[i].eid
                          /\ row'[i].st = "downloading" /\ held'[i] # NoLease,
           NothingWaits', SchedulerReads'
    PROVE  CopiesAreRows'
<1> USE DEF Finds, CopiesAreRows
<1>1. ~CommandRunning /\ UNCHANGED <<cmd, mon, phase, recoverTodo>>
  BY DEF Alone, AtRest, CommandRunning, Dispatching, othersUnchanged
<1>2. CommandsRead' /\ \A j \in Job : ~Dequeues(j)
  BY <1>1, NothingRuns
<1>3. Alone'
  BY <1>1 DEF Alone, CommandRunning
<1>4. ~Tracked(i) /\ mon.snap[i] = Absent
  BY DEF SchedulerReads
<1>5. TrackedRows'
  <2> SUFFICES ASSUME NEW k \in Job, Tracked(k)'
               PROVE  row'[k].eid = activeJobs'[k].eid /\ row'[k].st = "downloading" /\ held'[k] # NoLease
    BY DEF TrackedRows
  <2>1. CASE k = i
    BY <2>1
  <2>2. CASE k # i
    <3>1. Tracked(k) /\ row'[k] = row[k] /\ activeJobs'[k] = activeJobs[k] /\ held'[k] = held[k]
      BY <2>2 DEF Tracked
    <3> QED BY <1>2, <3>1 DEF TrackedRows
  <2> QED BY <2>1, <2>2
<1>6. MonitorReads'
  BY <1>1, <1>4 DEF MonitorReads
<1>7. RowsWatched'
  <2> SUFFICES ASSUME NEW k \in Job, row'[k].st = "downloading"
               PROVE  Tracked(k)' \/ (sched'.pc = "activate" /\ sched'.job = k)
    BY <1>1 DEF RowsWatched
  <2>1. CASE k = i
    BY <2>1
  <2>2. CASE k # i
    <3>1. row[k].st = "downloading" /\ activeJobs'[k] = activeJobs[k]
      BY <2>2
    <3> QED BY <2>2, <3>1 DEF RowsWatched, Tracked
  <2> QED BY <2>1, <2>2
<1>8. RecoveryReads'
  BY <1>1 DEF RecoveryReads
<1> QED BY <1>2, <1>3, <1>5, <1>6, <1>7, <1>8

\* A step outside of a dispatch changes no row and no tracking.
LEMMA WanderFrame ==
    ASSUME Finds, phase = "up", othersUnchanged, ~CommandRunning, sched.pc \notin Dispatching,
           UNCHANGED <<row, activeJobs, task>>,
           \A k \in Job : held'[k] = held[k] \/ held'[k] # NoLease,
           SchedulerReads'
    PROVE  CopiesAreRows'
<1> USE DEF Finds, CopiesAreRows
<1>1. UNCHANGED <<cmd, mon, phase, recoverTodo>>
  BY DEF othersUnchanged
<1>2. CommandsRead' /\ \A j \in Job : ~Dequeues(j)
  BY <1>1, NothingRuns
<1>3. Alone'
  BY <1>1 DEF Alone, CommandRunning
<1>4. NothingWaits' /\ MonitorReads' /\ RecoveryReads'
  BY <1>1 DEF NothingWaits, MonitorReads, RecoveryReads
<1>5. TrackedRows'
  BY <1>1, <1>2 DEF TrackedRows, Tracked
<1>6. RowsWatched'
  BY <1>1 DEF RowsWatched, Tracked, Dispatching
<1> QED BY <1>2, <1>3, <1>4, <1>5, <1>6

LEMMA ListReads ==
    ASSUME Finds, List
    PROVE  CopiesAreRows'
<1> USE DEF Finds, CopiesAreRows
<1>1. sched.pc = "top" /\ phase = "up" /\ UNCHANGED <<row, activeJobs, task>> /\ othersUnchanged
  BY DEF List, At
<1>2. ~CommandRunning
  BY <1>1 DEF Alone, AtRest, CommandRunning
<1>3. CASE ToIdle /\ UNCHANGED held
  BY <1>1, <1>2, <1>3, WanderFrame DEF ToIdle, SchedIdle, SchedulerReads, Dispatching
<1>4. ASSUME NEW i \in Runnable, held' = [held EXCEPT ![i] = Aria2],
             sched' = [SchedIdle EXCEPT !.pc = "fetch", !.job = i, !.action = queue[i]]
      PROVE  CopiesAreRows'
  <2>1. i \in Job /\ row[i].st = "queued" /\ ~Tracked(i) /\ mon.snap[i] = Absent
    BY QueuedIsUntracked DEF Runnable
  <2>2. sched'.pc = "fetch" /\ sched'.job = i
    BY <1>4 DEF SchedIdle
  <2>3. held'[i] = Aria2 /\ \A k \in Job : k # i => held'[k] = held[k]
    BY <1>4, <2>1 DEF CoreInv, SharedOK, PermitsOK
  <2>4. SchedulerReads'
    BY <1>1, <2>1, <2>2, <2>3, Records DEF SchedulerReads, Tracked, Copied, othersUnchanged
  <2> QED BY <1>1, <1>2, <2>3, <2>4, Records, WanderFrame DEF Dispatching
<1> QED BY <1>3, <1>4 DEF List

\* The dispatch is given up and the job left as it is.
LEMMA AbandonReads ==
    ASSUME Finds, phase = "up", othersUnchanged, sched.pc \in Dispatching, NEW i \in Job, i = sched.job, Abandon,
           UNCHANGED <<task, activeJobs>>,
           \A k \in Job : k # i => row'[k] = row[k], row'[i].st # "downloading"
    PROVE  CopiesAreRows'
<1>1. sched'.pc = "top" /\ NothingWaits' /\ SchedulerReads'
  BY DEF Finds, CopiesAreRows, Abandon, ToTop, SchedIdle, NothingWaits, SchedulerReads, Dispatching
<1>2. ~Tracked(i)
  BY DEF Finds, CopiesAreRows, SchedulerReads
<1>3. ~Tracked(i)' /\ \A k \in Job : activeJobs'[k] = activeJobs[k]
  BY <1>2 DEF Tracked
<1>4. \A k \in Job : k # i => held'[k] = held[k]
  BY DEF Finds, Abandon, DropAndKick, Drop, Me, CoreInv, SharedOK, PermitsOK
<1> QED BY <1>1, <1>3, <1>4, DispatchFrame

\* The dispatch goes on; its job is left as it is.
LEMMA GoesOnReads ==
    ASSUME Finds, phase = "up", othersUnchanged, sched.pc \in Dispatching, NEW i \in Job, i = sched.job,
           UNCHANGED <<row, activeJobs, held>>, sched.pc # "activate",
           NothingWaits', SchedulerReads'
    PROVE  CopiesAreRows'
<1>1. row[i].st # "downloading" /\ ~Tracked(i)
  BY DEF Finds, CopiesAreRows, SchedulerReads, Copied
<1>2. row'[i].st # "downloading" /\ ~Tracked(i)'
  BY <1>1 DEF Tracked
<1>3. \A k \in Job : row'[k] = row[k] /\ activeJobs'[k] = activeJobs[k] /\ held'[k] = held[k]
  OBVIOUS
<1> QED BY <1>2, <1>3, DispatchFrame

LEMMA FetchReads ==
    ASSUME Finds, Fetch
    PROVE  CopiesAreRows'
<1> USE DEF Finds, CopiesAreRows
<1>1. sched.pc = "fetch" /\ phase = "up" /\ sched.pc \in Dispatching /\ othersUnchanged
  BY DEF Fetch, At, Dispatching
<1>2. sched \in SchedState /\ Me \in Job /\ row[Me].st = "queued" /\ Exists(Me) /\ IsRecoverable(row[Me].st)
  BY <1>1 DEF SchedulerReads, CoreInv, SchedOK, SchedOwns, Exists, IsRecoverable, JobStatus, Me
<1>3. sched' = [sched EXCEPT !.pc = "entry", !.cur = row[Me]]
      /\ UNCHANGED <<row, activeJobs, held, task, mon>>
  BY <1>2 DEF Fetch, othersUnchanged
<1>4. sched'.pc = "entry" /\ sched'.job = sched.job /\ sched'.cur = row[sched.job]
  BY <1>2, <1>3 DEF SchedState, Me
<1>5. SchedulerReads' /\ NothingWaits'
  BY <1>1, <1>2, <1>3, <1>4 DEF SchedulerReads, Tracked, Copied, NothingWaits, Me, Dispatching
<1> QED BY <1>1, <1>2, <1>3, <1>5, GoesOnReads DEF Me

LEMMA DropEntryReads ==
    ASSUME Finds, DropEntry
    PROVE  CopiesAreRows'
<1>1. sched.pc = "drop_entry" /\ phase = "up" /\ sched.pc \in Dispatching /\ othersUnchanged
  BY DEF DropEntry, At, Dispatching
<1>2. sched.job \in Job /\ row[sched.job].st = "failed"
  BY <1>1 DEF Finds, CopiesAreRows, SchedulerReads, CoreInv, SchedOK, SchedOwns
<1>3. Abandon /\ UNCHANGED <<row, task, activeJobs>>
  BY DEF DropEntry
<1> QED BY <1>1, <1>2, <1>3, AbandonReads

LEMMA EntryReads ==
    ASSUME Finds, Entry
    PROVE  CopiesAreRows'
<1>1. sched.pc = "entry" /\ phase = "up" /\ sched.pc \in Dispatching /\ othersUnchanged
      /\ UNCHANGED <<row, task, activeJobs>>
  BY DEF Entry, At, Dispatching
<1>2. sched.job \in Job /\ row[sched.job].st = "queued" /\ sched \in SchedState
  BY <1>1 DEF Finds, CopiesAreRows, SchedulerReads, Copied, Dispatching, CoreInv, SchedOK, SchedOwns
<1>3. CASE Abandon
  BY <1>1, <1>2, <1>3, AbandonReads
<1>4. CASE Goto("load") /\ UNCHANGED held
  <2>1. sched'.pc = "load" /\ sched'.job = sched.job /\ sched'.cur = sched.cur
    BY <1>2, <1>4 DEF Goto, SchedState
  <2>2. SchedulerReads' /\ NothingWaits'
    BY <1>1, <1>2, <1>4, <2>1 DEF Finds, CopiesAreRows, SchedulerReads, Tracked, Copied, NothingWaits,
       Dispatching, othersUnchanged
  <2> QED BY <1>1, <1>2, <1>4, <2>2, GoesOnReads
<1> QED BY <1>3, <1>4 DEF Entry, Finds

LEMMA LoadReads ==
    ASSUME Finds, Load
    PROVE  CopiesAreRows'
<1>1. sched.pc = "load" /\ phase = "up" /\ sched.pc \in Dispatching /\ othersUnchanged
      /\ UNCHANGED <<row, task, activeJobs, held>>
  BY DEF Load, At, Dispatching, memoryUnchanged, memoryVars
<1>2. sched.job \in Job /\ row[sched.job].st = "queued" /\ sched \in SchedState
  BY <1>1 DEF Finds, CopiesAreRows, SchedulerReads, Copied, Dispatching, CoreInv, SchedOK, SchedOwns
<1>3. Exists(Me)
  BY <1>2 DEF Exists, JobStatus, Me
<1>4. /\ sched'.pc \in {"start", "resume", "refuse", "refused"}
      /\ sched'.job = sched.job /\ sched'.cur = sched.cur /\ sched'.j = row[sched.job]
  BY <1>2, <1>3 DEF Load, SchedState, Finds, Me
<1>5. SchedulerReads' /\ NothingWaits'
  BY <1>1, <1>2, <1>4 DEF Finds, CopiesAreRows, SchedulerReads, Tracked, Copied, NothingWaits,
     Dispatching, othersUnchanged
<1> QED BY <1>1, <1>2, <1>5, GoesOnReads

\* A call of the engine for the job: the copies stay, and the new task runs at once.
LEMMA CallReads ==
    ASSUME Finds, Start \/ Limits \/ Resume \/ Refuse
    PROVE  CopiesAreRows'
<1>1. sched.pc \in {"start", "limits", "resume", "refuse"} /\ phase = "up" /\ sched.pc \in Dispatching
      /\ othersUnchanged /\ UNCHANGED <<row, activeJobs, held>>
  BY DEF Start, Limits, Resume, Refuse, At, Dispatching, memoryUnchanged, memoryVars
<1>2. sched.job \in Job /\ row[sched.job].st = "queued" /\ sched \in SchedState
  BY <1>1 DEF Finds, CopiesAreRows, SchedulerReads, Copied, Dispatching, CoreInv, SchedOK, SchedOwns
<1>3. /\ sched'.pc \in {"limits", "started", "failed", "refused"}
      /\ sched'.job = sched.job /\ sched'.cur = sched.cur
      /\ sched'.pc = "refused" => sched.pc = "refuse" /\ sched'.j = sched.j
  BY <1>2 DEF Start, Limits, Resume, Refuse, Goto, SchedState, At
<1>4. SchedulerReads'
  BY <1>1, <1>2, <1>3 DEF Finds, CopiesAreRows, SchedulerReads, Tracked, Copied, Dispatching, othersUnchanged
<1>5. NothingWaits'
  BY <1>1, NextGidIsGid DEF Finds, CopiesAreRows, NothingWaits, Start, Limits, Resume, Refuse, NewTask, SetTask,
     CoreInv, SharedOK, TasksOK, Task
<1> QED BY <1>1, <1>2, <1>4, <1>5, GoesOnReads

\* The row is written from the copy, which is the row: to "downloading" while the
\* dispatch goes on,
LEMMA StartedReads ==
    ASSUME Finds, Started
    PROVE  CopiesAreRows'
<1>1. sched.pc = "started" /\ phase = "up" /\ sched.pc \in Dispatching /\ othersUnchanged
      /\ UNCHANGED <<task, activeJobs, held>>
  BY DEF Started, At, Dispatching
<1>0. PICK i \in Job : i = sched.job
  BY <1>1 DEF Finds, CoreInv, SchedOK, SchedOwns
<1> DEFINE r == [st |-> "downloading", eid |-> sched.j.eid]
<1>2. row[i].st = "queued" /\ sched \in SchedState /\ ~Tracked(i)
  BY <1>0, <1>1 DEF Finds, CopiesAreRows, SchedulerReads, Copied, Dispatching, CoreInv, SchedOK, SchedOwns
<1>3. Exists(i)
  BY <1>2 DEF Exists, JobStatus
<1>4. Update(i, r) /\ sched' = [sched EXCEPT !.pc = "activate", !.j = r]
  BY <1>0 DEF Started, Finds, Me
<1>5. row' = [row EXCEPT ![i] = r]
  BY <1>3, <1>4 DEF Update
<1>6. row'[i] = r /\ \A k \in Job : k # i => row'[k] = row[k]
  BY <1>2, <1>5 DEF Finds, CoreInv, SharedOK, RowsOK
<1>7. sched'.pc = "activate" /\ sched'.job = i /\ sched'.j = r
  BY <1>0, <1>2, <1>4 DEF SchedState
<1>8. SchedulerReads' /\ NothingWaits'
  BY <1>0, <1>1, <1>2, <1>6, <1>7 DEF Finds, CopiesAreRows, SchedulerReads, Tracked, Copied, NothingWaits,
     Dispatching, othersUnchanged
<1>9. ~Tracked(i)'
  BY <1>1, <1>2 DEF Tracked
<1> HIDE DEF r
<1> QED BY <1>0, <1>1, <1>2, <1>6, <1>7, <1>8, <1>9, DispatchFrame

\* the job is then tracked as what its row says,
LEMMA ActivateReads ==
    ASSUME Finds, Activate
    PROVE  CopiesAreRows'
<1>1. sched.pc = "activate" /\ phase = "up" /\ sched.pc \in Dispatching /\ othersUnchanged
      /\ UNCHANGED <<row, task, held>>
  BY DEF Activate, At, Dispatching
<1>0. PICK i \in Job : i = sched.job
  BY <1>1 DEF Finds, CoreInv, SchedOK, SchedOwns
<1>2. row[i].st = "downloading" /\ sched.j = row[i] /\ held[i] # NoLease
  BY <1>0, <1>1 DEF Finds, CopiesAreRows, SchedulerReads, Copied, Dispatching, CoreInv, SchedOK, SchedOwns
<1>3. activeJobs' = [activeJobs EXCEPT ![i] = row[i]]
  BY <1>0, <1>2 DEF Activate, AddActive, Me
<1>4. activeJobs'[i] = row[i] /\ \A k \in Job : k # i => activeJobs'[k] = activeJobs[k]
  BY <1>2, <1>3 DEF Finds, CoreInv, SharedOK, ActiveOK
<1>5. sched'.pc = "top"
  BY DEF Activate, ToTop, SchedIdle
<1>6. SchedulerReads' /\ NothingWaits'
  BY <1>0, <1>1, <1>2, <1>4, <1>5 DEF Finds, CopiesAreRows, SchedulerReads, NothingWaits, Dispatching
<1>7. Tracked(i)' 
  BY <1>2, <1>4 DEF Tracked
<1> QED BY <1>0, <1>1, <1>2, <1>4, <1>6, <1>7, DispatchFrame

\* or the row takes the outcome of a dispatch that failed.
LEMMA FailsReads ==
    ASSUME Finds, Refused \/ Failed
    PROVE  CopiesAreRows'
<1>1. sched.pc \in {"refused", "failed"} /\ phase = "up" /\ sched.pc \in Dispatching /\ othersUnchanged
      /\ UNCHANGED <<task, activeJobs>>
  BY DEF Refused, Failed, At, Dispatching
<1>0. PICK i \in Job : i = sched.job
  BY <1>1 DEF Finds, CoreInv, SchedOK, SchedOwns
<1> DEFINE r == [row[i] EXCEPT !.st = FailTarget]
<1>2. row[i].st = "queued" /\ sched \in SchedState /\ ~Tracked(i) /\ row[i] = sched.cur
      /\ (sched.pc = "refused" => row[i] = sched.j)
  BY <1>0, <1>1 DEF Finds, CopiesAreRows, SchedulerReads, Copied, Dispatching, CoreInv, SchedOK, SchedOwns
<1>3. Exists(i)
  BY <1>2 DEF Exists, JobStatus
<1>4. Update(i, r)
  BY <1>0, <1>2 DEF Refused, Failed, Finds, Me, At
<1>5. row' = [row EXCEPT ![i] = r]
  BY <1>3, <1>4 DEF Update
<1>6. row'[i] = r /\ \A k \in Job : k # i => row'[k] = row[k]
  BY <1>2, <1>5 DEF Finds, CoreInv, SharedOK, RowsOK
<1>7. row'[i].st = FailTarget /\ FailTarget \in {"failed", "paused"}
  BY <1>2, <1>6 DEF Finds, CoreInv, SharedOK, RowsOK, GoodRow, Row, FailTarget
<1>8. ~Tracked(i)'
  BY <1>1, <1>2 DEF Tracked
<1> HIDE DEF r
<1>10. CASE Abandon
  BY <1>1, <1>2, <1>6, <1>7, <1>0, <1>10, AbandonReads
<1>11. CASE sched.action = "start" /\ Goto("drop_entry") /\ UNCHANGED held
  <2>1. sched'.pc = "drop_entry" /\ sched'.job = i
    BY <1>2, <1>0, <1>11 DEF Goto, SchedState
  <2>2. row'[i].st = "failed"
    BY <1>7, <1>11 DEF FailTarget
  <2>3. SchedulerReads' /\ NothingWaits'
    BY <1>1, <1>2, <1>8, <1>0, <1>11, <2>1, <2>2 DEF Finds, CopiesAreRows, SchedulerReads, Tracked, Copied, NothingWaits,
     Dispatching, othersUnchanged
  <2> QED BY <1>1, <1>2, <1>6, <1>7, <1>8, <1>0, <1>11, <2>3, DispatchFrame
<1> QED BY <1>10, <1>11 DEF Refused, Failed, Finds

LEMMA SchedulerReadsRows ==
    ASSUME Finds, SchedulerStep
    PROVE  CopiesAreRows'
<1>1. Undirty /\ Dirty = {}
  <2>1. \A i \in Job : inFlight[i].kind \in {"free", "clean"}
    BY Records DEF Finds, FaultFree, Undirty
  <2> QED BY <2>1 DEF Finds, FaultFree, Dirty
<1>2. CASE Wake
  <2>1. sched'.pc = "top" /\ sched.pc = "idle" /\ phase = "up" /\ othersUnchanged /\ ~CommandRunning
        /\ UNCHANGED <<row, activeJobs, task, held>>
    BY <1>2 DEF Wake, At, ToTop, SchedIdle, Finds
  <2>2. SchedulerReads'
    BY <2>1 DEF SchedulerReads, Dispatching
  <2> QED BY <2>1, <2>2, WanderFrame DEF Dispatching
<1>3. CASE LostEntry
  BY <1>3 DEF LostEntry, At, Finds, CopiesAreRows, SchedulerReads, Dispatching
<1>4. CASE StartReconcile \/ Reconcile \/ RsWrite \/ RsDelete \/ RxStatus \/ RxWrite \/ RxDelete \/ EndReconcile
  BY <1>1, <1>4 DEF Undirty, Reconciling, At, StartReconcile, Reconcile, RsWrite, RsDelete, RxStatus, RxWrite, RxDelete, EndReconcile
<1> QED
  BY <1>2, <1>3, <1>4, ListReads, FetchReads, DropEntryReads, EntryReads, LoadReads, CallReads, StartedReads,
     ActivateReads, FailsReads DEF SchedulerStep
------------------------------------------------------------------------------
\* The monitor.

\* A step of the monitor concerns one tracked job at most, which stays as it is or is
\* forgotten together with its copy.
Forgets(j) ==
    /\ row'[j].st # "downloading" /\ activeJobs' = [activeJobs EXCEPT ![j] = Absent]
    /\ held' = [held EXCEPT ![j] = NoLease] /\ mon'.snap[j] = Absent
LEMMA MonitorSteps ==
    ASSUME Finds, phase = "up", UNCHANGED <<task, sched, cmd, phase, recoverTodo>>, ~CommandRunning,
           NEW j \in Job, Tracked(j), mon'.pc # "idle",
           \A k \in Job : k # j => row'[k] = row[k] /\ mon'.snap[k] \in {mon.snap[k], Absent},
           \/ Forgets(j)
           \/ UNCHANGED <<row, activeJobs, held>> /\ mon'.snap[j] \in {mon.snap[j], Absent}
    PROVE  CopiesAreRows'
<1>1. CommandsRead' /\ \A k \in Job : ~Dequeues(k)
  BY NothingRuns DEF Finds, CopiesAreRows
<1>2. Alone'
  BY DEF Finds, CopiesAreRows, Alone, CommandRunning
<1>3. /\ \A k \in Job : k # j => activeJobs'[k] = activeJobs[k] /\ held'[k] = held[k]
      /\ \/ activeJobs'[j] = Absent /\ row'[j].st # "downloading" /\ mon'.snap[j] = Absent
         \/ UNCHANGED <<row, activeJobs, held>> /\ mon'.snap[j] \in {mon.snap[j], Absent}
  BY DEF Forgets, Finds, CoreInv, SharedOK, ActiveOK, PermitsOK
<1>4. NothingWaits'
  BY <1>3 DEF Finds, CopiesAreRows, NothingWaits, Absent
<1>5. SchedulerReads'
  <2> SUFFICES ASSUME sched.pc \in Dispatching PROVE SchedulerReads'
    BY DEF SchedulerReads
  <2> PICK i \in Job : i = sched.job
    BY DEF Finds, CoreInv, SchedOK, SchedOwns
  <2>1. i # j /\ ~Tracked(i) /\ mon.snap[i] = Absent
    BY DEF Finds, CopiesAreRows, SchedulerReads
  <2>2. row'[i] = row[i] /\ activeJobs'[i] = activeJobs[i] /\ held'[i] = held[i] /\ mon'.snap[i] = Absent
    BY <1>3, <2>1
  <2> QED BY <2>1, <2>2 DEF Finds, CopiesAreRows, SchedulerReads, Tracked
<1>6. TrackedRows'
  <2> SUFFICES ASSUME NEW k \in Job, Tracked(k)'
               PROVE  row'[k].eid = activeJobs'[k].eid /\ row'[k].st = "downloading" /\ held'[k] # NoLease
    BY DEF TrackedRows
  <2>1. row'[k] = row[k] /\ activeJobs'[k] = activeJobs[k] /\ held'[k] = held[k]
    BY <1>3 DEF Tracked, Absent
  <2> QED BY <1>1, <2>1 DEF Finds, CopiesAreRows, TrackedRows, Tracked
<1>7. MonitorReads'
  BY <1>3 DEF Finds, CopiesAreRows, MonitorReads
<1>8. RowsWatched'
  <2> SUFFICES ASSUME NEW k \in Job, row'[k].st = "downloading"
               PROVE  Tracked(k)' \/ (sched.pc = "activate" /\ sched.job = k)
    BY DEF RowsWatched
  <2>1. row'[k] = row[k] /\ activeJobs'[k] = activeJobs[k]
    BY <1>3
  <2> QED BY <2>1 DEF Finds, CopiesAreRows, RowsWatched, Tracked
<1>9. RecoveryReads'
  BY DEF RecoveryReads
<1> QED BY <1>1, <1>2, <1>4, <1>5, <1>6, <1>7, <1>8, <1>9 DEF CopiesAreRows

\* At work, the monitor has a copy of its job, which is what is tracked and the row.
LEMMA CopyIsRow ==
    ASSUME Finds, phase = "up", mon.pc # "idle", NEW j \in Job, mon.snap[j] # Absent
    PROVE  /\ ~CommandRunning /\ Tracked(j) /\ activeJobs[j] = mon.snap[j]
           /\ row[j] = mon.snap[j] /\ row[j].st = "downloading"
<1>1. ~CommandRunning
  BY DEF Finds, CopiesAreRows, Alone, AtRest, CommandRunning
<1>2. Tracked(j) /\ activeJobs[j] = mon.snap[j]
  BY CopiesAreTracked DEF Finds, CopiesAreRows, MonitorReads
<1>3. row[j].st = "downloading" /\ row[j].eid = activeJobs[j].eid
  BY <1>1, <1>2 DEF Finds, CopiesAreRows, TrackedRows, Dequeues, CommandRunning
<1>4. activeJobs[j].st = "downloading" /\ activeJobs[j] \in ActiveRow /\ row[j] \in Row
  BY <1>2 DEF Finds, CopiesAreRows, NothingWaits, CoreInv, SharedOK, ActiveOK, ActiveRow, Tracked, Absent, RowsOK, GoodRow
<1> QED BY <1>1, <1>2, <1>3, <1>4 DEF ActiveRow, Row

\* Done with a copy.
LEMMA NextCopyDrops ==
    ASSUME MonOK, NEW j \in Job, NextCopy(j)
    PROVE  mon'.pc = "visit" /\ mon'.snap[j] = Absent /\ \A k \in Job : k # j => mon'.snap[k] = mon.snap[k]
BY DEF MonOK, MonState, NextCopy

\* A row that is there is written, and no other.
LEMMA UpdateWrites ==
    ASSUME RowsOK, NEW j \in Job, row[j].st \in JobStatus, NEW r \in Row, NEW st \in JobStatus,
           Update(j, [r EXCEPT !.st = st])
    PROVE  /\ row'[j] = [r EXCEPT !.st = st] /\ row'[j].st = st /\ row'[j].eid = r.eid
           /\ \A k \in Job : k # j => row'[k] = row[k]
<1>1. [r EXCEPT !.st = st].st = st /\ [r EXCEPT !.st = st].eid = r.eid
  BY DEF Row
<1>2. row' = [row EXCEPT ![j] = [r EXCEPT !.st = st]]
  BY DEF Update, Exists
<1> QED BY <1>1, <1>2 DEF RowsOK

LEMMA TickReads ==
    ASSUME Finds, Tick
    PROVE  CopiesAreRows'
<1>1. /\ phase = "up" /\ mon.pc = "idle" /\ ~CommandRunning
      /\ UNCHANGED <<row, activeJobs, held, task, sched, cmd, phase, recoverTodo>>
      /\ mon' = [mon EXCEPT !.pc = "visit", !.snap = activeJobs]
  BY DEF Tick, MonAt, restUnchanged, Finds
<1>2. mon'.pc = "visit" /\ mon'.snap = activeJobs
  BY <1>1 DEF Finds, CoreInv, MonOK, MonState
<1>3. CommandsRead' /\ Alone'
  BY <1>1, NothingRuns DEF Finds, CopiesAreRows, Alone, CommandRunning
<1>4. NothingWaits' /\ TrackedRows' /\ MonitorReads' /\ RowsWatched' /\ RecoveryReads'
  BY <1>1, <1>2 DEF Finds, CopiesAreRows, NothingWaits, TrackedRows, MonitorReads, RowsWatched, RecoveryReads, Tracked, Dequeues
<1>5. SchedulerReads'
  <2> SUFFICES ASSUME sched.pc \in Dispatching PROVE SchedulerReads'
    BY <1>1 DEF SchedulerReads
  <2> PICK i \in Job : i = sched.job
    BY DEF Finds, CoreInv, SchedOK, SchedOwns
  <2>1. ~Tracked(i)
    BY DEF Finds, CopiesAreRows, SchedulerReads
  <2>2. activeJobs[i] = Absent
    BY <2>1 DEF Tracked, Finds, CoreInv, SharedOK, ActiveOK, ActiveRow
  <2> QED BY <1>1, <1>2, <2>1, <2>2 DEF Finds, CopiesAreRows, SchedulerReads, Tracked
<1> QED BY <1>3, <1>4, <1>5 DEF CopiesAreRows

LEMMA EndTickReads ==
    ASSUME Finds, EndTick
    PROVE  CopiesAreRows'
<1>1. /\ phase = "up" /\ mon.pc = "visit" /\ ~CommandRunning /\ \A j \in Job : mon.snap[j] = Absent
      /\ UNCHANGED <<row, activeJobs, held, task, sched, cmd, phase, recoverTodo>>
      /\ mon' = MonIdle
  BY DEF EndTick, MonAt, restUnchanged, Finds, CopiesAreRows, Alone, AtRest, CommandRunning
<1>2. \A j \in Job : mon'.snap[j] = Absent
  BY <1>1 DEF MonIdle
<1>3. CommandsRead' /\ Alone'
  BY <1>1, NothingRuns DEF Finds, CopiesAreRows, Alone, CommandRunning
<1>4. NothingWaits' /\ TrackedRows' /\ MonitorReads' /\ RowsWatched' /\ RecoveryReads'
  BY <1>1, <1>2 DEF Finds, CopiesAreRows, NothingWaits, TrackedRows, MonitorReads, RowsWatched, RecoveryReads, Tracked, Dequeues
<1>5. SchedulerReads'
  BY <1>1, <1>2 DEF Finds, CopiesAreRows, SchedulerReads, Tracked, CoreInv, SchedOK, SchedOwns
<1> QED BY <1>3, <1>4, <1>5 DEF CopiesAreRows

LEMMA PollReads ==
    ASSUME Finds, NEW j \in Job, Poll(j)
    PROVE  CopiesAreRows'
<1>1. phase = "up" /\ mon.pc = "visit" /\ mon.snap[j] # Absent
      /\ UNCHANGED <<row, activeJobs, held, task, sched, cmd, phase, recoverTodo>>
  BY DEF Poll, MonAt, restUnchanged
<1>2. mon'.pc # "idle" /\ \A k \in Job : mon'.snap[k] \in {mon.snap[k], Absent}
  BY NextCopyDrops DEF Poll, Finds, CoreInv, MonOK, MonState
<1>3. ~CommandRunning /\ Tracked(j)
  BY <1>1, CopyIsRow
<1> QED BY <1>1, <1>2, <1>3, MonitorSteps

\* The job is forgotten with a row that says it no longer downloads; the first way out
\* of Condemn, for a row that is over already, is never taken.
LEMMA ForgetReads ==
    ASSUME Finds, Condemn \/ Fail \/ ApplyEnd \/ ApplyPaused
    PROVE  CopiesAreRows'
<1>1. phase = "up" /\ mon.pc \in {"condemn", "fail", "apply"}
      /\ UNCHANGED <<task, sched, cmd, phase, recoverTodo>>
  BY DEF Condemn, Fail, ApplyEnd, ApplyPaused, MonAt, restUnchanged
<1>2. PICK j \in Job : j = mon.job
  BY <1>1 DEF Finds, CoreInv, MonOK
<1>3. mon.snap[j] # Absent
  BY <1>1, <1>2 DEF Finds, CoreInv, MonOK
<1>4. ~CommandRunning /\ Tracked(j) /\ row[j] = mon.snap[j] /\ row[j].st = "downloading" /\ row[j] \in Row
  BY <1>1, <1>3, CopyIsRow DEF Finds, CoreInv, SharedOK, RowsOK, GoodRow
<1>5. CASE Condemn
  <2>1. mon' = [mon EXCEPT !.pc = "fail"] /\ UNCHANGED <<row, activeJobs, held>>
    BY <1>2, <1>4, <1>5 DEF Condemn, Finds
  <2>2. mon'.pc = "fail" /\ mon'.snap = mon.snap
    BY <2>1 DEF Finds, CoreInv, MonOK, MonState
  <2> QED BY <1>1, <1>4, <2>1, <2>2, MonitorSteps
<1>6. CASE Fail \/ ApplyEnd \/ ApplyPaused
  <2>1. PICK st \in {"failed", "completed", "cancelled", "paused"} : Update(j, [row[j] EXCEPT !.st = st])
    BY <1>2, <1>4, <1>6 DEF Fail, ApplyEnd, ApplyPaused, Copy, Finds, Db
  <2>2. RemoveActive(j) /\ NextCopy(j)
    BY <1>2, <1>6 DEF Fail, ApplyEnd, ApplyPaused, Finds
  <2>3. row'[j].st = st /\ \A k \in Job : k # j => row'[k] = row[k]
    BY <1>4, <2>1, UpdateWrites DEF JobStatus, Finds, CoreInv, SharedOK
  <2>4. mon'.pc = "visit" /\ mon'.snap[j] = Absent /\ \A k \in Job : k # j => mon'.snap[k] = mon.snap[k]
    BY <2>2, NextCopyDrops DEF Finds, CoreInv
  <2>5. Forgets(j)
    BY <2>2, <2>3, <2>4 DEF Forgets, RemoveActive, Drop
  <2> QED BY <1>1, <1>4, <2>3, <2>4, <2>5, MonitorSteps
<1> QED BY <1>5, <1>6

\* What runs is written as it is.
LEMMA RunningReads ==
    ASSUME Finds, ApplyRunning \/ Persist
    PROVE  CopiesAreRows'
<1>1. phase = "up" /\ mon.pc \in {"apply", "persist"} /\ UNCHANGED <<held, task, sched, cmd, phase, recoverTodo>>
  BY DEF ApplyRunning, Persist, MonAt, restUnchanged
<1>2. PICK j \in Job : j = mon.job
  BY <1>1 DEF Finds, CoreInv, MonOK
<1>3. mon.snap[j] # Absent
  BY <1>1, <1>2 DEF Finds, CoreInv, MonOK
<1>4. ~CommandRunning /\ Tracked(j) /\ row[j] = mon.snap[j] /\ activeJobs[j] = row[j]
      /\ row[j].st = "downloading" /\ row[j] \in Row
  BY <1>1, <1>3, CopyIsRow DEF Finds, CoreInv, SharedOK, RowsOK, GoodRow
<1>5. [row[j] EXCEPT !.st = "downloading"] = row[j]
  BY <1>4 DEF Row
<1>6. UNCHANGED <<row, activeJobs>>
  <2>1. [row EXCEPT ![j] = row[j]] = row /\ [activeJobs EXCEPT ![j] = row[j]] = activeJobs
    BY <1>4 DEF Finds, CoreInv, SharedOK, RowsOK, ActiveOK
  <2>2. CASE ApplyRunning
    BY <1>2, <1>4, <1>5, <2>1, <2>2 DEF ApplyRunning, AddActive, Copy
  <2>3. CASE Persist
    BY <1>2, <1>4, <1>5, <2>1, <2>3 DEF Persist, Copy, Update, Db
  <2> QED BY <2>2, <2>3
<1>7. mon'.pc # "idle" /\ \A k \in Job : mon'.snap[k] \in {mon.snap[k], Absent}
  BY <1>2, NextCopyDrops DEF ApplyRunning, Persist, Finds, CoreInv, MonOK, MonState
<1> QED BY <1>1, <1>4, <1>6, <1>7, MonitorSteps

LEMMA MonitorReadsRows ==
    ASSUME Finds, MonitorStep
    PROVE  CopiesAreRows'
BY TickReads, EndTickReads, PollReads, ForgetReads, RunningReads DEF MonitorStep
------------------------------------------------------------------------------
\* The commands.

\* A step of a command concerns its job only.  The command reads its row, and what is
\* tracked downloads, or is to be forgotten next.
LEMMA CommandSteps ==
    ASSUME Finds, phase = "up", AtRest, elseUnchanged, NEW c \in Client, NEW j \in Job,
           \A d \in Client \ {c} : cmd[d].pc = "idle" /\ cmd'[d] = cmd[d],
           cmd[c].pc = "idle" \/ cmd[c].job = j,
           \A k \in Job : k # j => row'[k] = row[k] /\ activeJobs'[k] = activeJobs[k] /\ held'[k] = held[k],
           Tracked(j)' => /\ row'[j].eid = activeJobs'[j].eid /\ held'[j] # NoLease
                          /\ row'[j].st = "downloading" \/ (cmd'[c].pc = "dequeue" /\ cmd'[c].job = j),
           row'[j].st = "downloading" => Tracked(j)',
           NothingWaits', CommandReads(cmd[c])'
    PROVE  CopiesAreRows'
<1>1. UNCHANGED <<sched, mon, phase, recoverTodo>> /\ sched.pc = "idle" /\ mon.pc = "idle"
  BY DEF elseUnchanged, AtRest
<1>2. Alone' /\ SchedulerReads' /\ RecoveryReads'
  BY <1>1 DEF Alone, AtRest, CommandRunning, SchedulerReads, RecoveryReads, Dispatching
<1>3. MonitorReads'
  BY <1>1 DEF Finds, CopiesAreRows, MonitorReads
<1>4. CommandsRead'
  <2> SUFFICES ASSUME NEW d \in Client PROVE CommandReads(cmd[d])'
    BY DEF CommandsRead
  <2>1. CASE d = c
    BY <2>1
  <2>2. CASE d # c
    BY <2>2 DEF Finds, CopiesAreRows, CommandsRead, CommandReads, Reading
  <2> QED BY <2>1, <2>2
<1>5. \A k \in Job : k # j => ~Dequeues(k)
  BY DEF Dequeues
<1>6. TrackedRows'
  <2> SUFFICES ASSUME NEW k \in Job, Tracked(k)'
               PROVE  /\ row'[k].eid = activeJobs'[k].eid /\ held'[k] # NoLease
                      /\ row'[k].st = "downloading" \/ Dequeues(k)'
    BY DEF TrackedRows
  <2>1. CASE k = j
    BY <2>1 DEF Dequeues
  <2>2. CASE k # j
    <3>1. Tracked(k) /\ row'[k] = row[k] /\ activeJobs'[k] = activeJobs[k] /\ held'[k] = held[k]
      BY <2>2 DEF Tracked
    <3> QED BY <1>5, <2>2, <3>1 DEF Finds, CopiesAreRows, TrackedRows
  <2> QED BY <2>1, <2>2
<1>7. RowsWatched'
  <2> SUFFICES ASSUME NEW k \in Job, row'[k].st = "downloading"
               PROVE  Tracked(k)'
    BY <1>1 DEF RowsWatched
  <2>1. CASE k = j
    BY <2>1
  <2>2. CASE k # j
    <3>1. row[k].st = "downloading" /\ activeJobs'[k] = activeJobs[k]
      BY <2>2
    <3> QED BY <1>1, <3>1 DEF Finds, CopiesAreRows, RowsWatched, Tracked
  <2> QED BY <2>1, <2>2
<1> QED BY <1>2, <1>3, <1>4, <1>6, <1>7 DEF CopiesAreRows

\* A command at work is alone; its job is what the lemma above asks for as long as no row
\* and no tracking changes.
LEMMA AtWork ==
    ASSUME Finds, phase = "up", NEW c \in Client, cmd[c].pc # "idle"
    PROVE  /\ AtRest /\ cmd[c].job \in Job /\ cmd[c] \in CmdState /\ CommandReads(cmd[c])
           /\ \A d \in Client \ {c} : cmd[d].pc = "idle"
BY DEF Finds, CopiesAreRows, Alone, CommandsRead, CoreInv, CmdOK

LEMMA CommandGoesOn ==
    ASSUME Finds, phase = "up", elseUnchanged, NEW c \in Client, cmd[c].pc \notin {"idle", "dequeue"},
           NEW m \in CmdState, cmd' = [cmd EXCEPT ![c] = m], m.pc # "dequeue",
           UNCHANGED <<row, activeJobs, held>>, NothingWaits', CommandReads(cmd[c])'
    PROVE  CopiesAreRows'
<1> PICK j \in Job : j = cmd[c].job
  BY AtWork
<1>1. AtRest /\ \A d \in Client \ {c} : cmd[d].pc = "idle" /\ cmd'[d] = cmd[d]
  BY AtWork DEF Finds, CoreInv, CmdOK
<1>2. ~Dequeues(j)
  BY <1>1 DEF Dequeues
<1>3. Tracked(j)' => /\ row'[j].eid = activeJobs'[j].eid /\ held'[j] # NoLease
                     /\ row'[j].st = "downloading"
  BY <1>2 DEF Finds, CopiesAreRows, TrackedRows, Tracked
<1>4. row'[j].st = "downloading" => Tracked(j)'
  BY <1>1 DEF AtRest, Finds, CopiesAreRows, RowsWatched, Tracked
<1> QED BY <1>1, <1>3, <1>4, CommandSteps

LEMMA BeginReads ==
    ASSUME Finds, NEW c \in Client, Request(c)
    PROVE  CopiesAreRows'
<1> PICK j \in Job : BeginCreate(c, j) \/ \E op \in {"pause", "resume", "cancel", "retry", "run_now", "delete"} : Begin(c, op, j)
  BY DEF Request
<1>1. /\ phase = "up" /\ AtRest /\ elseUnchanged /\ cmd[c].pc = "idle"
      /\ \A d \in Client : cmd[d].pc = "idle"
      /\ UNCHANGED <<row, task, activeJobs, held>>
  BY DEF BeginCreate, Begin, CmdAt, Finds, Quiet, CommandRunning, AtRest, trackingUnchanged
<1>2. ~Dequeues(j)
  BY <1>1 DEF Dequeues
<1>3. Tracked(j)' => /\ row'[j].eid = activeJobs'[j].eid /\ held'[j] # NoLease
                     /\ row'[j].st = "downloading"
  BY <1>1, <1>2 DEF Finds, CopiesAreRows, TrackedRows, Tracked
<1>4. row'[j].st = "downloading" => Tracked(j)'
  BY <1>1 DEF AtRest, Finds, CopiesAreRows, RowsWatched, Tracked
<1>5. NothingWaits'
  BY <1>1 DEF Finds, CopiesAreRows, NothingWaits
<1>6. CommandReads(cmd[c])' /\ \A d \in Client \ {c} : cmd'[d] = cmd[d]
  <2>1. CASE BeginCreate(c, j)
    <3>1. cmd'[c] = [CmdIdle EXCEPT !.pc = "enqueue", !.op = "create", !.job = j, !.action = "start",
                        !.j = [st |-> "queued", eid |-> NoGid]]
          /\ row[j] = Absent /\ \A d \in Client \ {c} : cmd'[d] = cmd[d]
      BY <2>1 DEF BeginCreate, Finds, CoreInv, CmdOK
    <3> QED BY <1>1, <3>1 DEF CommandReads, CmdIdle, Absent, Reading
  <2>2. ASSUME NEW op \in {"pause", "resume", "cancel", "retry", "run_now", "delete"}, Begin(c, op, j)
        PROVE  CommandReads(cmd[c])' /\ \A d \in Client \ {c} : cmd'[d] = cmd[d]
    <3>1. cmd'[c] = [CmdIdle EXCEPT !.pc = FirstCall(op, row[j]), !.op = op, !.job = j, !.j = row[j],
                        !.action = IF op = "retry" THEN "start" ELSE "resume"]
          /\ \A d \in Client \ {c} : cmd'[d] = cmd[d]
      BY <2>2 DEF Begin, Finds, CoreInv, CmdOK
    <3>2. cmd'[c].pc = FirstCall(op, row[j]) /\ cmd'[c].op = op /\ cmd'[c].job = j /\ cmd'[c].j = row[j] /\ cmd'[c].ok
      BY <3>1 DEF CmdIdle
    <3>3. row[j].st \in JobStatus /\ Allowed(op, row[j].st)
      BY <2>2 DEF Begin, Exists
    <3> QED BY <1>1, <3>1, <3>2, <3>3 DEF CommandReads, FirstCall, Reading
  <2> QED BY <2>1, <2>2
<1> QED BY <1>1, <1>3, <1>4, <1>5, <1>6, CommandSteps

LEMMA EarlyCallsRead ==
    ASSUME Finds, NEW c \in Client, CallEngine(c) \/ GetEntry(c) \/ Enqueue(c)
    PROVE  CopiesAreRows'
<1>1. phase = "up" /\ elseUnchanged /\ cmd[c].pc \in {"engine", "get_entry", "enqueue"}
      /\ UNCHANGED <<row, activeJobs, held>>
  BY DEF CallEngine, GetEntry, Enqueue, CmdAt, trackingUnchanged
<1>2. cmd[c] \in CmdState /\ CommandReads(cmd[c])
  BY <1>1, AtWork
<1>3. NothingWaits'
  <2>1. NothingWaits /\ task \in [Gid -> Task]
    BY DEF Finds, CopiesAreRows, CoreInv, SharedOK, TasksOK
  <2>2. UNCHANGED task \/ \E g, st : st # "waiting" /\ SetTask(g, st)
    <3>1. CASE CallEngine(c)
      <4> DEFINE st == IF cmd[c].op = "pause" THEN "paused" ELSE "removed"
      <4>1. UNCHANGED task \/ SetTask(cmd[c].j.eid, st)
        BY <3>1 DEF CallEngine
      <4>2. st # "waiting"
        OBVIOUS
      <4> QED BY <4>1, <4>2
    <3>2. CASE GetEntry(c) \/ Enqueue(c)
      BY <3>2 DEF GetEntry, Enqueue
    <3> QED BY <3>1, <3>2
  <2>3. \A g \in Gid : task'[g].st # "waiting"
    <3>1. CASE UNCHANGED task
      BY <2>1, <3>1 DEF NothingWaits
    <3>2. CASE \E g, st : st # "waiting" /\ SetTask(g, st)
      <4> PICK a, st : st # "waiting" /\ SetTask(a, st)
        BY <3>2
      <4>1. \A g \in Gid : task'[g].st = task[g].st \/ task'[g].st = st
        BY <2>1 DEF SetTask, Task
      <4> QED BY <2>1, <4>1 DEF NothingWaits
    <3> QED BY <2>2, <3>1, <3>2
  <2> QED BY <1>1, <2>1, <2>3 DEF NothingWaits
<1>4. PICK m \in CmdState :
         /\ cmd' = [cmd EXCEPT ![c] = m]
         /\ m.pc # "dequeue"
         /\ \/ m = CmdIdle
            \/ /\ m.op = cmd[c].op /\ m.job = cmd[c].job /\ m.j = cmd[c].j /\ m.ok
               /\ \/ cmd[c].pc = "engine" /\ cmd[c].op = "pause" /\ m.pc = "enqueue"
                  \/ cmd[c].pc = "engine" /\ cmd[c].op = "cancel" /\ m.pc = "update"
                  \/ cmd[c].pc = "get_entry" /\ m.pc = "enqueue"
                  \/ cmd[c].pc = "enqueue" /\ cmd[c].op = "create" /\ m.pc = "insert"
                  \/ cmd[c].pc = "enqueue" /\ cmd[c].op # "create" /\ m.pc = "update"
  <2>1. CASE cmd' = [cmd EXCEPT ![c] = CmdIdle]
    BY <2>1, Records
  <2>2. CASE \E p \in {"enqueue", "update", "insert"} :
               /\ cmd' = [cmd EXCEPT ![c].pc = p]
               /\ \/ cmd[c].pc = "engine" /\ cmd[c].op = "pause" /\ p = "enqueue"
                  \/ cmd[c].pc = "engine" /\ cmd[c].op = "cancel" /\ p = "update"
                  \/ cmd[c].pc = "enqueue" /\ cmd[c].op = "create" /\ p = "insert"
                  \/ cmd[c].pc = "enqueue" /\ cmd[c].op # "create" /\ p = "update"
    <3> PICK p \in {"enqueue", "update", "insert"} :
               /\ cmd' = [cmd EXCEPT ![c].pc = p]
               /\ \/ cmd[c].pc = "engine" /\ cmd[c].op = "pause" /\ p = "enqueue"
                  \/ cmd[c].pc = "engine" /\ cmd[c].op = "cancel" /\ p = "update"
                  \/ cmd[c].pc = "enqueue" /\ cmd[c].op = "create" /\ p = "insert"
                  \/ cmd[c].pc = "enqueue" /\ cmd[c].op # "create" /\ p = "update"
      BY <2>2
    <3> DEFINE m == [cmd[c] EXCEPT !.pc = p]
    <3>1. m \in CmdState /\ m.pc = p /\ m.op = cmd[c].op /\ m.job = cmd[c].job /\ m.j = cmd[c].j /\ m.ok
      BY <1>2 DEF CmdState, CmdLabel, CommandReads
    <3>2. cmd' = [cmd EXCEPT ![c] = m]
      OBVIOUS
    <3> HIDE DEF m
    <3> QED BY <3>1, <3>2
  <2>3. CASE cmd[c].pc = "get_entry" /\ \E a \in Action : cmd' = [cmd EXCEPT ![c].pc = "enqueue", ![c].action = a]
    <3> PICK a \in Action : cmd' = [cmd EXCEPT ![c].pc = "enqueue", ![c].action = a]
      BY <2>3
    <3> DEFINE m == [cmd[c] EXCEPT !.pc = "enqueue", !.action = a]
    <3>1. m \in CmdState /\ m.pc = "enqueue" /\ m.op = cmd[c].op /\ m.job = cmd[c].job /\ m.j = cmd[c].j /\ m.ok
      BY <1>2 DEF CmdState, CmdLabel, CommandReads
    <3>2. cmd' = [cmd EXCEPT ![c] = m]
      BY DEF Finds, CoreInv, CmdOK
    <3> HIDE DEF m
    <3> QED BY <2>3, <3>1, <3>2
  <2>4. CASE CallEngine(c)
    BY <1>2, <2>1, <2>2, <2>4 DEF CallEngine, CmdGoto, Finish, CommandReads, CmdAt
  <2>5. CASE GetEntry(c)
    <3>1. queue[cmd[c].job] \in Action
      BY <1>1, AtWork DEF Finds, CoreInv, SharedOK, QueueOK
    <3> QED BY <2>1, <2>3, <2>5, <3>1 DEF GetEntry, CmdAt, Action, Finds
  <2>6. CASE Enqueue(c)
    BY <2>1, <2>2, <2>6 DEF Enqueue, CmdGoto, Finish, CmdAt, Finds
  <2> QED BY <2>4, <2>5, <2>6
<1>5. cmd'[c] = m
  BY <1>4 DEF Finds, CoreInv, CmdOK
<1>6. CommandReads(cmd[c])'
  BY <1>1, <1>2, <1>4, <1>5 DEF CommandReads, Reading, CmdIdle
<1> QED BY <1>1, <1>3, <1>4, <1>6, CommandGoesOn

\* The new job is queued; nobody tracks it.
LEMMA InsertReads ==
    ASSUME Finds, NEW c \in Client, Insert(c)
    PROVE  CopiesAreRows'
<1>1. phase = "up" /\ elseUnchanged /\ cmd[c].pc = "insert" /\ UNCHANGED <<task, activeJobs, held>>
  BY DEF Insert, CmdAt
<1>2. CommandReads(cmd[c]) /\ AtRest
  BY <1>1, AtWork
<1> PICK j \in Job : j = cmd[c].job
  BY <1>1, AtWork
<1>3. row' = [row EXCEPT ![j] = cmd[c].j] /\ cmd' = [cmd EXCEPT ![c] = CmdIdle]
  BY DEF Insert, Finds, Finish
<1>4. cmd[c].j.st = "queued" /\ row[j].st = "absent"
  BY <1>1, <1>2 DEF CommandReads
<1>5. row'[j].st = "queued" /\ \A k \in Job : k # j => row'[k] = row[k]
  BY <1>3, <1>4 DEF Finds, CoreInv, SharedOK, RowsOK
<1>6. cmd'[c] = CmdIdle /\ \A d \in Client \ {c} : cmd[d].pc = "idle" /\ cmd'[d] = cmd[d]
  BY <1>1, <1>3, AtWork DEF Finds, CoreInv, CmdOK
<1>7. CommandReads(cmd[c])'
  BY <1>6 DEF CommandReads, CmdIdle, Reading
<1>8. ~Tracked(j)'
  BY <1>1, <1>4, QueuedIsUntracked DEF Tracked
<1>9. NothingWaits'
  BY <1>1 DEF Finds, CopiesAreRows, NothingWaits
<1> QED BY <1>1, <1>2, <1>5, <1>6, <1>7, <1>8, <1>9, CommandSteps

\* Who may pause, cancel or queue a job.
LEMMA WhoIsAllowed ==
    ASSUME NEW st \in JobStatus
    PROVE  /\ Allowed("pause", st) => st \in {"queued", "downloading"}
           /\ Allowed("cancel", st) => st \notin {"completed", "failed", "cancelled"}
           /\ \A op \in {"resume", "retry", "run_now"} : Allowed(op, st) =>
                  st \notin {"downloading", "completed", "cancelled"}
           /\ Allowed("delete", st) => st \in {"completed", "cancelled", "failed"}
BY DEF Allowed, CanMove, ValidTransitions, JobStatus

\* A forgotten job.
LEMMA RemoveForgets ==
    ASSUME CoreInv, NEW j \in Job, RemoveActive(j)
    PROVE  /\ ~Tracked(j)' /\ activeJobs'[j] = Absent
           /\ \A k \in Job : k # j => activeJobs'[k] = activeJobs[k] /\ held'[k] = held[k]
BY DEF CoreInv, SharedOK, ActiveOK, PermitsOK, RemoveActive, Drop, Tracked, Absent

LEMMA NothingWaitsForgotten ==
    ASSUME NothingWaits, UNCHANGED task, NEW j \in Job, activeJobs'[j] = Absent,
           \A k \in Job : k # j => activeJobs'[k] = activeJobs[k]
    PROVE  NothingWaits'
BY DEF NothingWaits, Absent

\* The status a command writes, from the row it read.
LEMMA StatusIsWritten ==
    ASSUME Finds, NEW c \in Client, WriteStatus(c), NEW j \in Job, j = cmd[c].job
    PROVE  /\ cmd[c].op \in {"pause", "resume", "retry", "run_now", "cancel"} /\ cmd[c].ok
           /\ row[j] = cmd[c].j /\ row[j].st \in JobStatus /\ Allowed(cmd[c].op, row[j].st)
           /\ row'[j].st = Target(cmd[c].op) /\ row'[j].eid = row[j].eid /\ row'[j].st # "downloading"
           /\ \A k \in Job : k # j => row'[k] = row[k]
<1>1. phase = "up" /\ cmd[c].pc = "update"
  BY DEF WriteStatus, CmdAt
<1>2. CommandReads(cmd[c])
  BY <1>1, AtWork
<1> DEFINE op == cmd[c].op
<1>3. /\ op \in {"pause", "resume", "retry", "run_now", "cancel"} /\ cmd[c].ok
      /\ row[j] = cmd[c].j /\ row[j].st \in JobStatus /\ Allowed(op, row[j].st) /\ row[j] \in Row
  BY <1>1, <1>2 DEF CommandReads, Reading, Finds, CoreInv, SharedOK, RowsOK, GoodRow
<1>4. Update(j, [row[j] EXCEPT !.st = Target(op)]) /\ Target(op) \in {"paused", "cancelled", "queued"}
  BY <1>3 DEF WriteStatus, Finds, Target
<1> DEFINE st == Target(op)
<1>5. st \in JobStatus /\ st # "downloading" /\ RowsOK
  BY <1>4 DEF Finds, CoreInv, SharedOK, JobStatus
<1> HIDE DEF st
<1>6. /\ row'[j].st = st /\ row'[j].eid = row[j].eid
      /\ \A k \in Job : k # j => row'[k] = row[k]
  <2>1. Update(j, [row[j] EXCEPT !.st = st])
    BY <1>4 DEF st
  <2> QED BY <1>3, <1>5, <2>1, UpdateWrites
<1> QED BY <1>3, <1>5, <1>6 DEF st

LEMMA WriteStatusReads ==
    ASSUME Finds, NEW c \in Client, WriteStatus(c)
    PROVE  CopiesAreRows'
<1>1. phase = "up" /\ elseUnchanged /\ cmd[c].pc = "update" /\ UNCHANGED task
  BY DEF WriteStatus, CmdAt
<1>2. CommandReads(cmd[c]) /\ AtRest /\ cmd[c] \in CmdState /\ \A d \in Client \ {c} : cmd[d].pc = "idle"
  BY <1>1, AtWork
<1> PICK j \in Job : j = cmd[c].job
  BY <1>1, AtWork
<1> DEFINE op == cmd[c].op
<1>3. /\ op \in {"pause", "resume", "retry", "run_now", "cancel"} /\ cmd[c].ok
      /\ row[j] = cmd[c].j /\ row[j].st \in JobStatus /\ Allowed(op, row[j].st)
  BY StatusIsWritten
<1>5. /\ row'[j].st = Target(op) /\ row'[j].eid = row[j].eid /\ row'[j].st # "downloading"
      /\ \A k \in Job : k # j => row'[k] = row[k]
  BY StatusIsWritten
<1>6. ~Dequeues(j) /\ (Tracked(j) => row[j].st = "downloading" /\ row[j].eid = activeJobs[j].eid /\ held[j] # NoLease)
  <2>1. ~Dequeues(j)
    BY <1>1, <1>2 DEF Dequeues
  <2> QED BY <1>1, <2>1 DEF Finds, CopiesAreRows, TrackedRows
<1>7. CASE op \in {"resume", "retry", "run_now"}
  <2>1. cmd' = [cmd EXCEPT ![c] = CmdIdle] /\ UNCHANGED <<activeJobs, held>>
    BY <1>7 DEF WriteStatus, Finds, Finish
  <2>2. cmd'[c] = CmdIdle /\ \A d \in Client \ {c} : cmd'[d] = cmd[d]
    BY <2>1 DEF Finds, CoreInv, CmdOK
  <2>3. CommandReads(cmd[c])'
    BY <2>2 DEF CommandReads, CmdIdle, Reading
  <2>4. ~Tracked(j)'
    BY <1>3, <1>6, <1>7, <2>1, WhoIsAllowed DEF Tracked
  <2>5. NothingWaits'
    BY <1>1, <2>1 DEF Finds, CopiesAreRows, NothingWaits
  <2> QED BY <1>1, <1>2, <1>5, <2>1, <2>2, <2>3, <2>4, <2>5, CommandSteps
<1>8. CASE op = "pause"
  <2>1. cmd' = [cmd EXCEPT ![c] = CmdIdle]
    BY <1>8 DEF WriteStatus, Finds, Finish
  <2>2. cmd'[c] = CmdIdle /\ \A d \in Client \ {c} : cmd'[d] = cmd[d]
    BY <2>1 DEF Finds, CoreInv, CmdOK
  <2>3. CommandReads(cmd[c])'
    BY <2>2 DEF CommandReads, CmdIdle, Reading
  <2>4. CASE RemoveActive(j)
    <3>1. ~Tracked(j)' /\ activeJobs'[j] = Absent
          /\ \A k \in Job : k # j => activeJobs'[k] = activeJobs[k] /\ held'[k] = held[k]
      BY <2>4, RemoveForgets DEF Finds
    <3>2. NothingWaits'
      BY <1>1, <3>1, NothingWaitsForgotten DEF Finds, CopiesAreRows
    <3> QED BY <1>1, <1>2, <1>5, <2>2, <2>3, <3>1, <3>2, CommandSteps
  <2>5. CASE row[j].st = "queued" /\ UNCHANGED <<activeJobs, held>>
    <3>1. ~Tracked(j)'
      BY <1>6, <2>5 DEF Tracked
    <3>2. NothingWaits'
      BY <1>1, <2>5 DEF Finds, CopiesAreRows, NothingWaits
    <3> QED BY <1>1, <1>2, <1>5, <2>2, <2>3, <2>5, <3>1, <3>2, CommandSteps
  <2> QED BY <1>3, <1>8, <2>4, <2>5 DEF WriteStatus, Finds, trackingUnchanged
<1>9. CASE op = "cancel"
  <2>1. cmd' = [cmd EXCEPT ![c].pc = "dequeue"] /\ UNCHANGED <<activeJobs, held>>
    BY <1>9 DEF WriteStatus, Finds, CmdGoto, trackingUnchanged
  <2>2. cmd'[c] = [cmd[c] EXCEPT !.pc = "dequeue"] /\ \A d \in Client \ {c} : cmd'[d] = cmd[d]
    BY <2>1 DEF Finds, CoreInv, CmdOK
  <2>3. cmd'[c].pc = "dequeue" /\ cmd'[c].op = "cancel" /\ cmd'[c].job = j /\ cmd'[c].ok
    BY <1>2, <1>3, <1>9, <2>2 DEF CmdState
  <2>4. CommandReads(cmd[c])'
    BY <1>5, <1>9, <2>3 DEF CommandReads, Reading, Target
  <2>5. NothingWaits'
    BY <1>1, <2>1 DEF Finds, CopiesAreRows, NothingWaits
  <2>6. Tracked(j)' => row'[j].eid = activeJobs'[j].eid /\ held'[j] # NoLease
    BY <1>5, <1>6, <2>1 DEF Tracked
  <2> QED BY <1>1, <1>2, <1>5, <2>1, <2>2, <2>3, <2>4, <2>5, <2>6, CommandSteps
<1> QED BY <1>3, <1>7, <1>8, <1>9

LEMMA LastCallsRead ==
    ASSUME Finds, NEW c \in Client, Dequeue(c) \/ Cascade(c)
    PROVE  CopiesAreRows'
<1>1. phase = "up" /\ elseUnchanged /\ cmd[c].pc \in {"dequeue", "cascade"} /\ UNCHANGED task
      /\ cmd' = [cmd EXCEPT ![c] = CmdIdle]
  BY DEF Dequeue, Cascade, CmdAt, Finish
<1>2. CommandReads(cmd[c]) /\ AtRest /\ \A d \in Client \ {c} : cmd[d].pc = "idle"
  BY <1>1, AtWork
<1> PICK j \in Job : j = cmd[c].job
  BY <1>1, AtWork
<1>3. RemoveActive(j)
  BY DEF Dequeue, Cascade, Finds
<1>4. row'[j].st # "downloading" /\ \A k \in Job : k # j => row'[k] = row[k]
  <2>1. CASE Dequeue(c)
    BY <1>2, <2>1 DEF Dequeue, CommandReads, CmdAt
  <2>2. CASE Cascade(c)
    BY <2>2 DEF Cascade, Gone, Finds, CoreInv, SharedOK, RowsOK
  <2> QED BY <2>1, <2>2
<1>5. ~Tracked(j)' /\ activeJobs'[j] = Absent
      /\ \A k \in Job : k # j => activeJobs'[k] = activeJobs[k] /\ held'[k] = held[k]
  BY <1>3, RemoveForgets DEF Finds
<1>6. NothingWaits'
  BY <1>1, <1>5, NothingWaitsForgotten DEF Finds, CopiesAreRows
<1>7. cmd'[c] = CmdIdle /\ \A d \in Client \ {c} : cmd'[d] = cmd[d]
  BY <1>1 DEF Finds, CoreInv, CmdOK
<1>8. CommandReads(cmd[c])'
  BY <1>7 DEF CommandReads, CmdIdle, Reading
<1> QED BY <1>1, <1>2, <1>4, <1>5, <1>6, <1>7, <1>8, CommandSteps

LEMMA CommandsReadRows ==
    ASSUME Finds, NEW c \in Client, Request(c) \/ CommandCall(c)
    PROVE  CopiesAreRows'
<1>1. CASE Undo(c)
  BY <1>1 DEF Undo, CmdAt, Finds, CopiesAreRows, CommandsRead, CommandReads
<1> QED
  BY <1>1, BeginReads, EarlyCallsRead, InsertReads, WriteStatusReads, LastCallsRead DEF CommandCall
------------------------------------------------------------------------------
\* Death and recovery, the engine, the timer.

\* A task that is set aside or ends waits no more.
LEMMA EngineReads ==
    ASSUME Finds, EngineStep \/ RetryFires \/ UNCHANGED coreVars
    PROVE  CopiesAreRows'
<1>1. UNCHANGED <<row, activeJobs, held, sched, cmd, mon, phase, recoverTodo>>
  BY DEF EngineStep, TaskStarts, TaskEnds, TaskLost, EngineMoves, durableVars, memoryVars, procVars, startVars,
     RetryFires, othersUnchanged, coreVars
<1>2. NothingWaits'
  <2>1. CASE UNCHANGED task
    BY <1>1, <2>1 DEF Finds, CopiesAreRows, NothingWaits
  <2>2. ASSUME NEW g \in Gid, NEW st \in {"active", "complete", "error", "gone"}, SetTask(g, st)
        PROVE  NothingWaits'
    <3>1. \A h \in Gid : task'[h].st = IF h = g THEN st ELSE task[h].st
      BY <2>2 DEF SetTask, Finds, CoreInv, SharedOK, TasksOK, Task
    <3> QED BY <1>1, <3>1 DEF Finds, CopiesAreRows, NothingWaits
  <2> QED BY <2>1, <2>2 DEF EngineStep, TaskStarts, TaskEnds, TaskLost, EngineMoves, RetryFires, coreVars
<1>3. Alone' /\ RecoveryReads'
  BY <1>1 DEF Finds, CopiesAreRows, Alone, AtRest, CommandRunning, RecoveryReads
<1>4. CommandsRead'
  BY <1>1 DEF Finds, CopiesAreRows, CommandsRead, CommandReads
<1>5. SchedulerReads'
  BY <1>1 DEF Finds, CopiesAreRows, SchedulerReads, Tracked
<1>6. TrackedRows' /\ MonitorReads' /\ RowsWatched'
  BY <1>1 DEF Finds, CopiesAreRows, TrackedRows, MonitorReads, RowsWatched, Tracked, Dequeues
<1> QED BY <1>2, <1>3, <1>4, <1>5, <1>6 DEF CopiesAreRows

\* Nothing is left of the goroutines.
LEMMA CrashReads ==
    ASSUME Finds, Crash
    PROVE  CopiesAreRows'
<1>1. phase' = "down" /\ sched'.pc = "idle" /\ mon' = MonIdle /\ \A c \in Client : cmd'[c] = CmdIdle
  BY DEF Crash, SchedIdle
<1>2. \A j \in Job : activeJobs'[j] = Absent
  BY DEF Crash
<1>3. Alone' /\ RecoveryReads' /\ SchedulerReads' /\ RowsWatched'
  BY <1>1 DEF Alone, AtRest, CommandRunning, RecoveryReads, SchedulerReads, RowsWatched, CmdIdle, MonIdle, Dispatching
<1>4. CommandsRead'
  BY <1>1 DEF CommandsRead, CommandReads, CmdIdle, Reading
<1>5. TrackedRows' /\ MonitorReads'
  BY <1>1, <1>2 DEF TrackedRows, MonitorReads, MonIdle, Tracked, Absent
<1>6. NothingWaits'
  <2>1. \A g \in Gid : task'[g].st = task[g].st \/ task'[g].st = "gone"
    BY DEF Crash, Finds, CoreInv, SharedOK, TasksOK, Task
  <2> QED BY <1>2, <2>1 DEF Finds, CopiesAreRows, NothingWaits, Absent
<1> QED BY <1>3, <1>4, <1>5, <1>6 DEF CopiesAreRows

\* While the process recovers nothing else runs.
LEMMA RecoveryFrame ==
    ASSUME Finds, phase # "up", UNCHANGED <<task, sched, cmd, mon>>,
           \A j \in Job : activeJobs'[j].st # "queued",
           TrackedRows', RowsWatched', RecoveryReads'
    PROVE  CopiesAreRows'
<1>1. AtRest /\ \A c \in Client : cmd[c].pc = "idle"
  BY DEF Finds, CopiesAreRows, Alone, CommandRunning
<1>2. Alone' /\ SchedulerReads'
  BY <1>1 DEF Alone, AtRest, CommandRunning, SchedulerReads, Dispatching
<1>3. CommandsRead'
  BY <1>1, NothingRuns DEF Finds, CopiesAreRows, CommandRunning
<1>4. NothingWaits'
  BY DEF Finds, CopiesAreRows, NothingWaits
<1>5. MonitorReads'
  BY <1>1 DEF Finds, CopiesAreRows, MonitorReads, AtRest
<1> QED BY <1>2, <1>3, <1>4, <1>5 DEF CopiesAreRows

\* What was down tracks nothing.
LEMMA DownTracksNothing ==
    ASSUME Finds, phase = "down", NEW j \in Job
    PROVE  ~Tracked(j)
BY DEF Finds, FaultFree, Restarting

\* Recovery tracks the job as downloading, or takes it off the downloads; not while
\* its task runs unless the engine has not answered.
Recovered == {"downloading", "paused", "completed", "cancelled", "failed"}
RecoversTo(i, st) ==
    /\ Update(i, [row[i] EXCEPT !.st = st])
    /\ \/ /\ st # "downloading" /\ UNCHANGED activeJobs
          /\ ~Live(row[i].eid) \/ Spend("rpc")
       \/ st = "downloading" /\ activeJobs' = [activeJobs EXCEPT ![i] = [row[i] EXCEPT !.st = st]]

LEMMA RecoverJobWrites ==
    ASSUME Finds, NEW i \in Job, RecoverJob(i)
    PROVE  \E st \in Recovered : RecoversTo(i, st)
<1> DEFINE g == row[i].eid
           raw == task[g].st
<1>1. row[i].st = "downloading" /\ g \in Gid
  BY DEF RecoverJob, Finds, CopiesAreRows, RecoveryReads, CoreInv, SharedOK, RowsOK, GoodRow
<1>2. raw # "waiting" /\ TaskOf(g) = raw
  BY <1>1, Records DEF Finds, CopiesAreRows, NothingWaits, TaskOf
<1>3. /\ MapAria2Status(raw) \in Recovered
      /\ Reattaches(g) => MapAria2Status(raw) = "downloading"
      /\ ~Reattaches(g) => MapAria2Status(raw) # "downloading" /\ ~Live(g)
      /\ ~Known(g) => ~Live(g)
  BY <1>2 DEF MapAria2Status, Recovered, Reattaches, Live, Known, TaskStatus
<1>4. CASE Reattaches(g) /\ Update(i, [row[i] EXCEPT !.st = MapAria2Status(raw)])
           /\ AddActive(i, [row[i] EXCEPT !.st = MapAria2Status(raw)])
  BY <1>3, <1>4 DEF AddActive, RecoversTo
<1>5. CASE ~Reattaches(g) /\ Update(i, [row[i] EXCEPT !.st = MapAria2Status(raw)]) /\ UNCHANGED activeJobs
  BY <1>3, <1>5 DEF RecoversTo
<1>6. CASE Update(i, [row[i] EXCEPT !.st = "failed"]) /\ UNCHANGED activeJobs /\ (~Known(g) \/ Spend("rpc"))
  BY <1>3, <1>6 DEF RecoversTo, Recovered
<1> QED BY <1>4, <1>5, <1>6 DEF RecoverJob, Db, Finds

LEMMA RecoverJobReads ==
    ASSUME Finds, NEW i \in Job, RecoverJob(i)
    PROVE  CopiesAreRows'
<1>1. /\ phase = "recovering" /\ i \in recoverTodo /\ recoverTodo' = recoverTodo \ {i}
      /\ UNCHANGED <<phase, task, held, sched, cmd, mon>>
  BY DEF RecoverJob, procVars
<1>2. row[i].st = "downloading" /\ row[i].eid \in Gid /\ row[i] \in Row /\ ~Tracked(i)
  BY <1>1 DEF Finds, CopiesAreRows, RecoveryReads, CoreInv, SharedOK, RowsOK, GoodRow, FaultFree, Restarting
<1>3. PICK st \in Recovered : RecoversTo(i, st)
  BY RecoverJobWrites
<1>4. row'[i].st = st /\ row'[i].eid = row[i].eid /\ row'[i] = [row[i] EXCEPT !.st = st]
      /\ \A k \in Job : k # i => row'[k] = row[k]
  <2> DEFINE r == row[i]
  <2>1. RowsOK /\ r \in Row /\ row[i].st \in JobStatus /\ Update(i, [r EXCEPT !.st = st])
        /\ st \in JobStatus
    BY <1>2, <1>3 DEF Finds, CoreInv, SharedOK, JobStatus, RecoversTo, Recovered
  <2>2. r = row[i]
    OBVIOUS
  <2> HIDE DEF r
  <2> QED BY <2>1, <2>2, UpdateWrites
<1>5. /\ \A k \in Job : k # i => activeJobs'[k] = activeJobs[k]
      /\ IF st = "downloading" THEN activeJobs'[i] = row'[i] ELSE ~Tracked(i)'
  BY <1>2, <1>3, <1>4 DEF RecoversTo, Finds, CoreInv, SharedOK, ActiveOK, Tracked
<1>6. \A j \in Job : activeJobs'[j].st # "queued"
  BY <1>4, <1>5 DEF Finds, CopiesAreRows, NothingWaits, Tracked
<1>7. \A k \in Job : ~Dequeues(k)
  BY <1>1 DEF Finds, CopiesAreRows, Alone, CommandRunning, Dequeues
<1>8. TrackedRows'
  <2> SUFFICES ASSUME NEW k \in Job, Tracked(k)'
               PROVE  row'[k].eid = activeJobs'[k].eid /\ row'[k].st = "downloading"
    BY <1>1 DEF TrackedRows
  <2>1. CASE k = i
    BY <1>4, <1>5, <2>1
  <2>2. CASE k # i
    BY <1>4, <1>5, <1>7, <2>2 DEF Finds, CopiesAreRows, TrackedRows, Tracked
  <2> QED BY <2>1, <2>2
<1>9. RowsWatched'
  <2> SUFFICES ASSUME NEW k \in Job, row'[k].st = "downloading"
               PROVE  Tracked(k)' \/ k \in recoverTodo'
    BY <1>1 DEF RowsWatched
  <2>1. CASE k = i
    BY <1>4, <1>5, <2>1 DEF Tracked
  <2>2. CASE k # i
    BY <1>1, <1>4, <1>5, <2>2 DEF Finds, CopiesAreRows, RowsWatched, Tracked
  <2> QED BY <2>1, <2>2
<1>10. RecoveryReads'
  BY <1>1, <1>4 DEF Finds, CopiesAreRows, RecoveryReads, CoreInv, SharedOK, StartOK
<1> QED BY <1>1, <1>6, <1>8, <1>9, <1>10, RecoveryFrame

LEMMA RecoveryReadsRows ==
    ASSUME Finds, RecoveryStep
    PROVE  CopiesAreRows'
<1>1. CASE Restart
  <2>1. phase = "down" /\ phase' = "recovering" /\ UNCHANGED <<row, task, activeJobs, held, sched, cmd, mon>>
        /\ recoverTodo' = {j \in Job : row[j].st = "downloading"}
    BY <1>1 DEF Restart, procVars
  <2>2. \A j \in Job : ~Tracked(j) /\ ~Tracked(j)'
    BY <2>1, DownTracksNothing DEF Tracked
  <2>3. TrackedRows' /\ RowsWatched' /\ RecoveryReads'
    BY <2>1, <2>2 DEF TrackedRows, RowsWatched, RecoveryReads
  <2> QED BY <2>1, <2>3, RecoveryFrame DEF Finds, CopiesAreRows, NothingWaits
<1>2. CASE Serve
  <2>1. phase = "recovering" /\ phase' = "up" /\ UNCHANGED <<row, task, activeJobs, sched, cmd, mon>>
        /\ recoverTodo = {} /\ held' = Reconstructed
    BY <1>2 DEF Serve, procVars
  <2>2. \A j \in Job : Tracked(j) => row[j].eid = activeJobs[j].eid /\ row[j].st = "downloading" /\ held'[j] # NoLease
    <3> SUFFICES ASSUME NEW j \in Job, Tracked(j)
                 PROVE  row[j].eid = activeJobs[j].eid /\ row[j].st = "downloading" /\ held'[j] # NoLease
      OBVIOUS
    <3>1. ~Dequeues(j)
      BY <2>1 DEF Finds, CopiesAreRows, Alone, CommandRunning, Dequeues
    <3>2. activeJobs[j].st = "downloading"
      BY DEF Tracked, Finds, CopiesAreRows, NothingWaits, CoreInv, SharedOK, ActiveOK, ActiveRow, Absent
    <3> QED BY <2>1, <3>1, <3>2, Records DEF Finds, CopiesAreRows, TrackedRows, Reconstructed
  <2>3. TrackedRows' /\ RecoveryReads'
    BY <2>1, <2>2 DEF TrackedRows, RecoveryReads, Tracked
  <2>4. RowsWatched'
    BY <2>1 DEF Finds, CopiesAreRows, RowsWatched, Tracked
  <2> QED BY <2>1, <2>3, <2>4, RecoveryFrame DEF Finds, CopiesAreRows, NothingWaits
<1> QED BY <1>1, <1>2, RecoverJobReads DEF RecoveryStep
------------------------------------------------------------------------------
LEMMA SerialInit == WaitingUser /\ CoreInit => SerialInv
<1> SUFFICES ASSUME WaitingUser, CoreInit PROVE SerialInv
  OBVIOUS
<1>1. WakeInv
  BY WakeInit
<1>2. /\ phase = "up" /\ sched.pc = "idle" /\ mon = MonIdle /\ \A c \in Client : cmd[c] = CmdIdle
      /\ \A j \in Job : activeJobs[j] = Absent /\ row[j] = Absent
      /\ \A g \in Gid : task[g].st = "unused"
  BY DEF CoreInit, SchedIdle
<1>3. Alone /\ NothingWaits /\ SchedulerReads /\ RecoveryReads
  BY <1>2 DEF Alone, AtRest, CommandRunning, NothingWaits, SchedulerReads, RecoveryReads, Absent, CmdIdle, Dispatching
<1>4. CommandsRead
  BY <1>2 DEF CommandsRead, CommandReads, CmdIdle, Reading
<1>5. TrackedRows /\ MonitorReads /\ RowsWatched
  BY <1>2 DEF TrackedRows, MonitorReads, RowsWatched, Tracked, Absent, MonIdle
<1> QED BY <1>1, <1>3, <1>4, <1>5 DEF SerialInv, CopiesAreRows

LEMMA SerialStep == WaitingUser /\ SerialInv /\ [CoreNext]_coreVars => SerialInv'
<1> SUFFICES ASSUME WaitingUser, SerialInv, [CoreNext]_coreVars PROVE SerialInv'
  OBVIOUS
<1>1. WakeInv' /\ Finds
  BY WakeStep, SerialFinds DEF SerialInv
<1>2. CopiesAreRows'
  BY <1>1, SchedulerReadsRows, MonitorReadsRows, RecoveryReadsRows, CommandsReadRows, CrashReads, EngineReads DEF CoreNext
<1> QED BY <1>1, <1>2 DEF SerialInv

LEMMA SerialAlways == WaitingUser /\ CoreSpec => []SerialInv
<1> SUFFICES ASSUME WaitingUser PROVE CoreSpec => []SerialInv
  OBVIOUS
<1>1. CoreInit => SerialInv
  BY SerialInit
<1>2. SerialInv /\ [CoreNext]_coreVars => SerialInv'
  BY SerialStep
<1> QED BY <1>1, <1>2, PTL DEF CoreSpec

\* Whatever else happens, what the database calls DOWNLOADING has a permit and is
\* tracked, or will be by the dispatch that runs; and what is tracked has a permit and is
\* the task the database names.
THEOREM DownloadsArePaidFor == WaitingUser /\ CoreSpec => []PaidAndWatched
<1>1. SerialInv => PaidAndWatched
  <2> SUFFICES ASSUME SerialInv, phase = "up", NEW j \in Job
               PROVE  /\ row[j].st = "downloading" => held[j] # NoLease /\ (Tracked(j) \/ inFlight[j] # Free)
                      /\ Tracked(j) => held[j] # NoLease /\ activeJobs[j].eid = row[j].eid
    BY DEF PaidAndWatched, DownloadIsAccounted, TrackedIsCurrent
  <2>1. Tracked(j) => held[j] # NoLease /\ activeJobs[j].eid = row[j].eid
    BY DEF SerialInv, CopiesAreRows, TrackedRows
  <2>2. sched.pc = "activate" /\ sched.job = j => held[j] # NoLease /\ inFlight[j] # Free
    BY Records DEF SerialInv, CopiesAreRows, SchedulerReads, WakeInv, CoreInv, SchedOK, SchedOwns, Dispatching
  <2> QED BY <2>1, <2>2 DEF SerialInv, CopiesAreRows, RowsWatched
<1> QED BY <1>1, SerialAlways, PTL
------------------------------------------------------------------------------
\* No copy that is written is of a row that is terminal.

LEMMA TerminalStays ==
    ASSUME Finds, CoreNext, NEW j \in Job, IsTerminal(row[j].st)
    PROVE  row'[j].st \in {row[j].st, "gone"}
<1> SUFFICES ASSUME row'[j] # row[j]
             PROVE  row'[j].st = "gone"
  OBVIOUS
<1> USE DEF IsTerminal
\* Where a row is written, it is that of one job, which is not terminal.
<1>1. ASSUME NEW i \in Job, NEW r, Update(i, r)
      PROVE  i = j
  BY <1>1 DEF Update, Finds, CoreInv, SharedOK, RowsOK
<1>2. CASE SchedulerStep
  <2>1. Undirty
    BY DEF Finds, FaultFree
  <2>2. CASE Started \/ Refused \/ Failed
    <3>1. sched.pc \in Copied /\ sched.pc \in Dispatching /\ \E r : Update(sched.job, r)
      BY <2>2 DEF Started, Refused, Failed, At, Copied, Dispatching, Finds, Me
    <3>2. sched.job \in Job /\ row[sched.job].st = "queued"
      BY <3>1 DEF Finds, CopiesAreRows, SchedulerReads, CoreInv, SchedOK, SchedOwns
    <3> QED BY <1>1, <3>1, <3>2
  <2>3. CASE StartReconcile \/ Reconcile \/ RsWrite \/ RsDelete \/ RxStatus \/ RxWrite \/ RxDelete \/ EndReconcile
    <3>1. Dirty = {}
      BY <2>1, Records DEF Undirty, Dirty
    <3> QED BY <2>1, <2>3, <3>1 DEF Undirty, Reconciling, At, StartReconcile, Reconcile, RsWrite, RsDelete, RxStatus,
       RxWrite, RxDelete, EndReconcile
  <2>4. CASE Wake \/ List \/ Fetch \/ DropEntry \/ Entry \/ Load \/ LostEntry \/ Start \/ Limits \/ Resume \/ Activate \/ Refuse
    BY <2>4 DEF Wake, List, Fetch, DropEntry, Entry, Load, LostEntry, Start, Limits, Resume, Activate, Refuse
  <2> QED BY <1>2, <2>2, <2>3, <2>4 DEF SchedulerStep
<1>3. CASE MonitorStep
  <2>1. phase = "up" /\ mon.pc \in {"fail", "apply", "persist"} /\ \E r : Update(mon.job, r)
    BY <1>3 DEF MonitorStep, Tick, EndTick, Poll, Condemn, Fail, ApplyEnd, ApplyPaused, ApplyRunning, Persist, MonAt, Db
  <2>2. mon.job \in Job /\ mon.snap[mon.job] # Absent
    BY <2>1 DEF Finds, CoreInv, MonOK
  <2> QED BY <1>1, <2>1, <2>2, CopyIsRow
<1>4. CASE RecoveryStep
  <2> PICK i \in Job : RecoverJob(i)
    BY <1>4 DEF RecoveryStep, Restart, Serve
  <2>1. phase = "recovering" /\ i \in recoverTodo /\ \E r : Update(i, r)
    BY DEF RecoverJob, Db
  <2> QED BY <1>1, <2>1 DEF Finds, CopiesAreRows, RecoveryReads
<1>5. ASSUME NEW c \in Client, CommandCall(c)
      PROVE  row'[j].st = "gone"
  <2>1. CASE Insert(c)
    <3>1. phase = "up" /\ cmd[c].pc = "insert" /\ row' = [row EXCEPT ![cmd[c].job] = cmd[c].j]
      BY <2>1 DEF Insert, CmdAt, Finds
    <3>2. row[cmd[c].job].st = "absent"
      BY <3>1, AtWork DEF CommandReads
    <3> QED BY <3>1, <3>2 DEF Finds, CoreInv, SharedOK, RowsOK
  <2>2. CASE WriteStatus(c)
    <3>1. phase = "up" /\ cmd[c].pc = "update" /\ \E r : Update(cmd[c].job, r)
      BY <2>2 DEF WriteStatus, CmdAt, Finds
    <3>2. /\ cmd[c].job \in Job /\ row[cmd[c].job].st \in JobStatus /\ Allowed(cmd[c].op, row[cmd[c].job].st)
          /\ cmd[c].op \in {"pause", "resume", "retry", "run_now", "cancel"}
      BY <3>1, AtWork DEF CommandReads, Reading
    <3> QED BY <1>1, <3>1, <3>2, WhoIsAllowed
  <2>3. CASE Cascade(c)
    <3>1. row' = [row EXCEPT ![cmd[c].job] = Gone]
      BY <2>3 DEF Cascade, Finds
    <3> QED BY <3>1 DEF Gone, Finds, CoreInv, SharedOK, RowsOK
  <2>4. CASE CallEngine(c) \/ GetEntry(c) \/ Enqueue(c) \/ Undo(c) \/ Dequeue(c)
    BY <2>4 DEF CallEngine, GetEntry, Enqueue, Undo, Dequeue
  <2> QED BY <1>5, <2>1, <2>2, <2>3, <2>4 DEF CommandCall
<1>6. CASE RetryFires \/ EngineStep \/ Crash \/ \E c \in Client : Request(c)
  BY <1>6 DEF RetryFires, EngineStep, TaskStarts, TaskEnds, TaskLost, EngineMoves, durableVars, Crash, Request, Begin, BeginCreate
<1> QED BY <1>2, <1>3, <1>4, <1>5, <1>6 DEF CoreNext

\* A job that is COMPLETED or CANCELLED stays so until it is deleted, although every
\* goroutine writes whole rows from copies it has read some calls before.
THEOREM TerminalStatesAreFinal == WaitingUser /\ CoreSpec => TerminalIsFinal
<1> SUFFICES ASSUME WaitingUser PROVE CoreSpec => TerminalIsFinal
  OBVIOUS
<1>1. SerialInv /\ [CoreNext]_coreVars =>
          [\A j \in Job : IsTerminal(row[j].st) => row'[j].st \in {row[j].st, "gone"}]_coreVars
  <2> SUFFICES ASSUME SerialInv, CoreNext, NEW j \in Job, IsTerminal(row[j].st)
               PROVE  row'[j].st \in {row[j].st, "gone"}
    OBVIOUS
  <2> QED BY SerialFinds, TerminalStays
<1>2. CoreSpec => []SerialInv
  BY SerialAlways
<1> QED BY <1>1, <1>2, PTL DEF CoreSpec, TerminalIsFinal
------------------------------------------------------------------------------
\* The queue table.

\* A step that leaves the queue alone keeps QueueFollows when no row becomes queued or
\* past queueing that was not, and nobody who owes a deletion stops owing it.
LEMMA QueueStays ==
    ASSUME QueueFollows, UNCHANGED <<queue, phase>>,
           \A j \in Job : row'[j].st = "queued" => row[j].st = "queued",
           \A j \in Job : row'[j].st \in NoLongerQueued \cup {"gone"} =>
               row[j].st \in NoLongerQueued \cup {"gone"} \/ queue[j] = "none" \/ EntryOwed(j)',
           \A j \in Job : EntryOwed(j) => EntryOwed(j)' \/ queue[j] = "none"
                                          \/ row'[j].st \notin NoLongerQueued \cup {"gone"},
           \A c \in Client : cmd'[c].pc \notin {"engine", "enqueue", "insert", "update"}
                             \/ (cmd'[c] = cmd[c])
    PROVE  QueueFollows'
<1> USE DEF QueueFollows
<1>1. \A j \in Job : row'[j].st = "queued" => queue'[j] # "none"
  OBVIOUS
<1>2. phase' = "up" => \A j \in Job :
          row'[j].st \in NoLongerQueued \cup {"gone"} => queue'[j] = "none" \/ EntryOwed(j)'
  OBVIOUS
<1>3. \A c \in Client :
          /\ cmd'[c].pc \in {"engine", "enqueue"} => cmd'[c].action # "none"
          /\ cmd'[c].pc = "insert" => queue'[cmd'[c].job] # "none"
          /\ cmd'[c].pc = "update" /\ cmd'[c].op \in {"resume", "retry", "run_now"} =>
                 queue'[cmd'[c].job] # "none"
  OBVIOUS
<1> QED BY <1>1, <1>2, <1>3

\* While no command runs, only the scheduler owes a deletion.
LEMMA WhoOwes ==
    ASSUME UNCHANGED cmd, ~CommandRunning, NEW j \in Job
    PROVE  /\ EntryOwed(j) <=> sched.job = j /\ sched.pc \in {"activate", "drop_entry"}
           /\ EntryOwed(j)' <=> sched'.job = j /\ sched'.pc \in {"activate", "drop_entry"}
           /\ \A c \in Client : cmd'[c].pc = "idle"
BY DEF CommandRunning, EntryOwed, Dequeues

LEMMA SchedulerFollows ==
    ASSUME Finds, QueueFollows, SchedulerStep
    PROVE  QueueFollows'
<1>1. phase = "up" /\ othersUnchanged /\ UNCHANGED <<phase, cmd>> /\ ~CommandRunning
  <2>1. othersUnchanged /\ phase = "up" /\ (sched.pc # "idle" \/ Wake)
    BY DEF SchedulerStep, Wake, StartReconcile, List, Fetch, DropEntry, Entry, Load, LostEntry, Start, Limits, Resume,
       Started, Activate, Refuse, Refused, Failed, Reconcile, RsWrite, RsDelete, RxStatus, RxWrite, RxDelete,
       EndReconcile, At
  <2> QED BY <2>1 DEF othersUnchanged, Finds, CopiesAreRows, Alone, AtRest, CommandRunning, Wake
<1>2. \A j \in Job : /\ EntryOwed(j) <=> sched.job = j /\ sched.pc \in {"activate", "drop_entry"}
                     /\ EntryOwed(j)' <=> sched'.job = j /\ sched'.pc \in {"activate", "drop_entry"}
                     /\ \A c \in Client : cmd'[c].pc = "idle"
  BY <1>1, WhoOwes
<1>3. Undirty /\ Dirty = {} /\ sched \in SchedState
  <2>1. \A i \in Job : inFlight[i].kind \in {"free", "clean"}
    BY Records DEF Finds, FaultFree, Undirty
  <2> QED BY <2>1 DEF Finds, FaultFree, Dirty, CoreInv, SchedOK
<1>4. CASE DropEntry \/ Activate
  <2>1. sched.pc \in {"drop_entry", "activate"} /\ sched.pc \in Dispatching /\ UNCHANGED row
        /\ SetQueue(sched.job, "none")
    BY <1>4 DEF DropEntry, Activate, At, Dispatching, Db, Finds, Me
  <2>2. sched.job \in Job /\ row[sched.job].st # "queued"
    BY <2>1 DEF Finds, CopiesAreRows, SchedulerReads, CoreInv, SchedOK, SchedOwns
  <2>3. \A k \in Job : queue'[k] = IF k = sched.job THEN "none" ELSE queue[k]
    BY <2>1, <2>2 DEF SetQueue, Finds, CoreInv, SharedOK, QueueOK
  <2> QED BY <1>1, <1>2, <2>1, <2>2, <2>3 DEF QueueFollows
<1>5. CASE Started \/ Refused \/ Failed
  <2>1. sched.pc \in Copied /\ sched.pc \in Dispatching /\ UNCHANGED queue
    BY <1>5 DEF Started, Refused, Failed, At, Copied, Dispatching
  <2>2. sched.job \in Job /\ row[sched.job].st = "queued" /\ row[sched.job] = sched.cur
        /\ (sched.pc = "refused" => sched.j = row[sched.job])
    BY <2>1 DEF Finds, CopiesAreRows, SchedulerReads, CoreInv, SchedOK, SchedOwns
  <2> PICK i \in Job : i = sched.job
    BY <2>2
  <2>3. FailTarget \in {"failed", "paused"} /\ row[i] \in Row
    BY DEF FailTarget, Finds, CoreInv, SharedOK, RowsOK, GoodRow
  <2>4. /\ \A k \in Job : k # i => row'[k] = row[k]
        /\ \/ row'[i].st = "paused"
           \/ row'[i].st \in {"failed", "downloading"} /\ sched'.job = i /\ sched'.pc \in {"activate", "drop_entry"}
    <3>1. CASE Started
      <4>1. /\ Update(i, [st |-> "downloading", eid |-> sched.j.eid])
            /\ sched'.job = i /\ sched'.pc = "activate"
        BY <1>3, <3>1 DEF Started, Finds, Me, SchedState
      <4> QED BY <2>2, <4>1 DEF Update, Exists, JobStatus, Finds, CoreInv, SharedOK, RowsOK
    <3>2. CASE Refused \/ Failed
      <4>1. Update(i, [row[i] EXCEPT !.st = FailTarget])
        BY <2>2, <3>2 DEF Refused, Failed, Finds, Me, At
      <4>2. row'[i].st = FailTarget /\ \A k \in Job : k # i => row'[k] = row[k]
        BY <2>2, <2>3, <4>1, UpdateWrites DEF Finds, CoreInv, SharedOK, JobStatus
      <4>3. sched.action = "start" => sched'.job = i /\ sched'.pc = "drop_entry"
        BY <1>3, <3>2 DEF Refused, Failed, Finds, Goto, SchedState
      <4> QED BY <4>2, <4>3 DEF FailTarget
    <3> QED BY <1>5, <3>1, <3>2
  <2>5. \A j \in Job : ~EntryOwed(j)
    BY <1>2, <2>1 DEF Copied
  <2>6. \A j \in Job : row'[j].st = "queued" => row[j].st = "queued"
    BY <2>2, <2>4
  <2>7. \A j \in Job : row'[j].st \in NoLongerQueued \cup {"gone"} =>
               row[j].st \in NoLongerQueued \cup {"gone"} \/ EntryOwed(j)'
    BY <1>2, <2>4 DEF NoLongerQueued
  <2> QED BY <1>1, <1>2, <2>1, <2>5, <2>6, <2>7, QueueStays
<1>6. CASE Wake \/ List \/ Fetch \/ Entry \/ Load \/ Start \/ Limits \/ Resume \/ Refuse
  <2>1. UNCHANGED <<row, queue>> /\ sched.pc \notin {"activate", "drop_entry"}
    BY <1>6 DEF Wake, List, Fetch, Entry, Load, Start, Limits, Resume, Refuse, At
  <2>2. \A j \in Job : ~EntryOwed(j)
    BY <1>2, <2>1
  <2> QED BY <1>1, <1>2, <2>1, <2>2, QueueStays
<1>7. CASE LostEntry
  BY <1>7 DEF LostEntry, At, Finds, CopiesAreRows, SchedulerReads, Dispatching
<1>8. CASE StartReconcile \/ Reconcile \/ RsWrite \/ RsDelete \/ RxStatus \/ RxWrite \/ RxDelete \/ EndReconcile
  BY <1>3, <1>8 DEF Undirty, Reconciling, At, StartReconcile, Reconcile, RsWrite, RsDelete, RxStatus, RxWrite, RxDelete, EndReconcile
<1> QED BY <1>4, <1>5, <1>6, <1>7, <1>8 DEF SchedulerStep

\* A download that ends had no queue row.
LEMMA MonitorFollows ==
    ASSUME Finds, QueueFollows, MonitorStep
    PROVE  QueueFollows'
<1>1. phase = "up" /\ UNCHANGED <<queue, phase, cmd, sched>> /\ (mon.pc # "idle" \/ Tick)
  BY DEF MonitorStep, Tick, EndTick, Poll, Condemn, Fail, ApplyEnd, ApplyPaused, ApplyRunning, Persist, MonAt, restUnchanged
<1>2. ~CommandRunning
  BY <1>1 DEF Finds, CopiesAreRows, Alone, AtRest, CommandRunning, Tick
<1>3. \A j \in Job : /\ EntryOwed(j) <=> sched.job = j /\ sched.pc \in {"activate", "drop_entry"}
                     /\ EntryOwed(j)' <=> EntryOwed(j)
                     /\ \A c \in Client : cmd'[c].pc = "idle"
  BY <1>1, <1>2, WhoOwes
<1>4. \A j \in Job : row'[j] = row[j]
                     \/ (row'[j].st # "queued" /\ row[j].st = "downloading" /\ Tracked(j))
  <2>1. CASE UNCHANGED row
    BY <2>1
  <2>2. CASE Fail \/ ApplyEnd \/ ApplyPaused \/ Persist
    <3>1. mon.pc \in {"fail", "apply", "persist"}
      BY <2>2 DEF Fail, ApplyEnd, ApplyPaused, Persist, MonAt
    <3> PICK i \in Job : i = mon.job
      BY <3>1 DEF Finds, CoreInv, MonOK
    <3>2. mon.snap[i] # Absent
      BY <3>1 DEF Finds, CoreInv, MonOK
    <3>3. row[i] = mon.snap[i] /\ row[i].st = "downloading" /\ Tracked(i) /\ row[i] \in Row
      BY <1>1, <3>1, <3>2, CopyIsRow DEF Finds, CoreInv, SharedOK, RowsOK, GoodRow
    <3>4. UNCHANGED row \/ \E st \in {"failed", "completed", "cancelled", "paused", "downloading"} :
                               Update(i, [row[i] EXCEPT !.st = st])
      BY <2>2, <3>3 DEF Fail, ApplyEnd, ApplyPaused, Persist, Copy, Finds, Db
    <3>5. ASSUME NEW st \in {"failed", "completed", "cancelled", "paused", "downloading"},
                 Update(i, [row[i] EXCEPT !.st = st])
          PROVE  row'[i].st = st /\ \A k \in Job : k # i => row'[k] = row[k]
      <4> DEFINE r == row[i]
      <4>1. r \in Row /\ row[i].st \in JobStatus /\ Update(i, [r EXCEPT !.st = st]) /\ st \in JobStatus
        BY <3>3, <3>5 DEF JobStatus
      <4> HIDE DEF r
      <4> QED BY <4>1, UpdateWrites DEF Finds, CoreInv, SharedOK
    <3> QED BY <3>3, <3>4, <3>5
  <2> QED BY <2>1, <2>2 DEF MonitorStep, Tick, EndTick, Poll, Condemn, ApplyRunning
<1>5. ASSUME NEW j \in Job, row[j].st = "downloading", Tracked(j)
      PROVE  queue[j] = "none"
  <2>1. ~EntryOwed(j)
    BY <1>3, <1>5 DEF Finds, CopiesAreRows, SchedulerReads, Dispatching
  <2> QED BY <1>1, <1>5, <2>1 DEF QueueFollows, NoLongerQueued
<1> QED BY <1>1, <1>3, <1>4, <1>5, QueueStays

\* ... nor had one that recovery takes off the downloads when it is done.
LEMMA RecoveryFollows ==
    ASSUME Finds, QueueFollows, RecoveryStep
    PROVE  QueueFollows'
<1>1. phase # "up" /\ UNCHANGED cmd /\ \A c \in Client : cmd[c].pc = "idle"
  BY DEF RecoveryStep, Restart, Serve, RecoverJob, procVars, Finds, CopiesAreRows, Alone, CommandRunning
<1>2. CASE Restart
  BY <1>1, <1>2 DEF Restart, QueueFollows
<1>3. CASE Serve
  <2>1. /\ UNCHANGED row
        /\ \A j \in Job : queue'[j] = IF ~Exists(j) \/ row[j].st \in NoLongerQueued THEN "none" ELSE queue[j]
    BY <1>3 DEF Serve
  <2>2. \A j \in Job : row[j].st = "queued" => Exists(j) /\ row[j].st \notin NoLongerQueued
    BY DEF Exists, JobStatus, NoLongerQueued
  <2>3. \A j \in Job : row[j].st = "gone" => ~Exists(j)
    BY DEF Exists, JobStatus
  <2> QED BY <1>1, <2>1, <2>2, <2>3 DEF QueueFollows
<1>4. ASSUME NEW i \in Job, RecoverJob(i)
      PROVE  QueueFollows'
  <2> PICK st \in Recovered : RecoversTo(i, st)
    BY <1>4, RecoverJobWrites
  <2>1. row[i].st = "downloading" /\ row[i] \in Row /\ UNCHANGED <<queue, phase>>
    BY <1>4 DEF RecoverJob, Finds, CopiesAreRows, RecoveryReads, CoreInv, SharedOK, RowsOK, GoodRow
  <2> DEFINE r == row[i]
  <2>2. r \in Row /\ row[i].st \in JobStatus /\ Update(i, [r EXCEPT !.st = st]) /\ st \in JobStatus
    BY <2>1 DEF RecoversTo, Recovered, JobStatus
  <2> HIDE DEF r
  <2>3. row'[i].st = st /\ \A k \in Job : k # i => row'[k] = row[k]
    BY <2>2, UpdateWrites DEF Finds, CoreInv, SharedOK
  <2>4. \A j \in Job : row'[j].st = "queued" => queue'[j] # "none"
    BY <2>1, <2>3 DEF QueueFollows, Recovered
  <2> QED BY <1>1, <2>1, <2>4 DEF QueueFollows
<1> QED BY <1>2, <1>3, <1>4 DEF RecoveryStep
------------------------------------------------------------------------------
\* The commands.  A step of one concerns its job and its own debt.

LEMMA CommandFollows ==
    ASSUME Finds, QueueFollows, phase = "up", AtRest, elseUnchanged, NEW c \in Client, NEW j \in Job,
           \A d \in Client \ {c} : cmd[d].pc = "idle" /\ cmd'[d] = cmd[d],
           cmd[c].pc = "idle" \/ cmd[c].job = j,
           \A k \in Job : k # j => row'[k] = row[k] /\ queue'[k] = queue[k],
           row'[j].st = "queued" => queue'[j] # "none",
           row'[j].st \in NoLongerQueued \cup {"gone"} => queue'[j] = "none" \/ EntryOwed(j)',
           cmd'[c].pc \in {"engine", "enqueue"} => cmd'[c].action # "none",
           cmd'[c].pc = "insert" => cmd'[c].job = j /\ queue'[j] # "none",
           cmd'[c].pc = "update" => cmd'[c].job = j /\ (cmd'[c].op \in {"resume", "retry", "run_now"} =>
                                        queue'[j] # "none")
    PROVE  QueueFollows'
<1>1. UNCHANGED phase
  BY DEF elseUnchanged
<1>2. \A k \in Job : row'[k].st = "queued" => queue'[k] # "none"
  BY DEF QueueFollows
<1>3. ASSUME NEW k \in Job, row'[k].st \in NoLongerQueued \cup {"gone"}
      PROVE  queue'[k] = "none" \/ EntryOwed(k)'
  <2>1. CASE k = j
    BY <1>3, <2>1
  <2>2. CASE k # j
    <3>1. ~EntryOwed(k)
      BY <2>2 DEF EntryOwed, Dequeues, AtRest
    <3> QED BY <1>3, <2>2, <3>1 DEF QueueFollows
  <2> QED BY <2>1, <2>2
<1>4. \A d \in Client :
          /\ cmd'[d].pc \in {"engine", "enqueue"} => cmd'[d].action # "none"
          /\ cmd'[d].pc = "insert" => queue'[cmd'[d].job] # "none"
          /\ cmd'[d].pc = "update" /\ cmd'[d].op \in {"resume", "retry", "run_now"} =>
                 queue'[cmd'[d].job] # "none"
  OBVIOUS
<1> QED BY <1>1, <1>2, <1>3, <1>4 DEF QueueFollows

\* What a command that has just been accepted finds.
LEMMA BeginFollows ==
    ASSUME Finds, QueueFollows, NEW c \in Client, Request(c)
    PROVE  QueueFollows'
<1> PICK j \in Job : BeginCreate(c, j) \/ \E op \in {"pause", "resume", "cancel", "retry", "run_now", "delete"} : Begin(c, op, j)
  BY DEF Request
<1>1. /\ phase = "up" /\ AtRest /\ elseUnchanged /\ cmd[c].pc = "idle"
      /\ \A d \in Client : cmd[d].pc = "idle"
      /\ UNCHANGED <<row, queue>>
  BY DEF BeginCreate, Begin, CmdAt, Finds, Quiet, CommandRunning, AtRest
<1>2. ~EntryOwed(j)
  BY <1>1 DEF EntryOwed, Dequeues, AtRest
<1>3. /\ row[j].st = "queued" => queue[j] # "none"
      /\ row[j].st \in NoLongerQueued \cup {"gone"} => queue[j] = "none"
      /\ row'[j] = row[j] /\ queue'[j] = queue[j]
      /\ \A k \in Job : row'[k] = row[k] /\ queue'[k] = queue[k]
  BY <1>1, <1>2 DEF QueueFollows
<1>4. CASE BeginCreate(c, j)
  <2>1. cmd'[c] = [CmdIdle EXCEPT !.pc = "enqueue", !.op = "create", !.job = j, !.action = "start",
                      !.j = [st |-> "queued", eid |-> NoGid]]
        /\ \A d \in Client \ {c} : cmd'[d] = cmd[d]
    BY <1>4 DEF BeginCreate, Finds, CoreInv, CmdOK
  <2>2. cmd'[c].pc = "enqueue" /\ cmd'[c].action = "start" /\ \A d \in Client \ {c} : cmd'[d] = cmd[d]
    BY <2>1 DEF CmdIdle
  <2> QED BY <1>1, <1>3, <2>2, CommandFollows
<1>5. ASSUME NEW op \in {"pause", "resume", "cancel", "retry", "run_now", "delete"}, Begin(c, op, j)
      PROVE  QueueFollows'
  <2>1. cmd'[c] = [CmdIdle EXCEPT !.pc = FirstCall(op, row[j]), !.op = op, !.job = j, !.j = row[j],
                      !.action = IF op = "retry" THEN "start" ELSE "resume"]
        /\ \A d \in Client \ {c} : cmd'[d] = cmd[d]
    BY <1>5 DEF Begin, Finds, CoreInv, CmdOK
  <2>2. cmd'[c].pc = FirstCall(op, row[j]) /\ cmd'[c].op = op /\ cmd'[c].job = j /\ cmd'[c].action # "none"
        /\ \A d \in Client \ {c} : cmd'[d] = cmd[d]
    BY <2>1 DEF CmdIdle
  <2>3. cmd'[c].pc # "insert" /\ (cmd'[c].pc = "update" => op \notin {"resume", "retry", "run_now"})
    BY <2>2 DEF FirstCall
  <2> QED BY <1>1, <1>3, <2>2, <2>3, CommandFollows
<1> QED BY <1>4, <1>5

\* A command at work leaves a queued job's row, and the debts of others, alone.
LEMMA EarlyCallsFollow ==
    ASSUME Finds, QueueFollows, NEW c \in Client, CallEngine(c) \/ GetEntry(c)
    PROVE  QueueFollows'
<1>1. phase = "up" /\ elseUnchanged /\ cmd[c].pc \in {"engine", "get_entry"} /\ UNCHANGED <<row, queue>>
  BY DEF CallEngine, GetEntry, CmdAt
<1>2. AtRest /\ cmd[c] \in CmdState /\ CommandReads(cmd[c]) /\ \A d \in Client \ {c} : cmd[d].pc = "idle"
  BY <1>1, AtWork
<1> PICK j \in Job : j = cmd[c].job
  BY <1>1, AtWork
<1>3. ~EntryOwed(j)
  BY <1>1, <1>2 DEF EntryOwed, Dequeues, AtRest
<1>4. /\ row[j].st = "queued" => queue[j] # "none"
      /\ row[j].st \in NoLongerQueued \cup {"gone"} => queue[j] = "none"
  BY <1>1, <1>3 DEF QueueFollows
<1>5. CASE cmd' = [cmd EXCEPT ![c] = CmdIdle]
  <2>1. cmd'[c].pc = "idle" /\ \A d \in Client \ {c} : cmd'[d] = cmd[d]
    BY <1>5, Records DEF Finds, CoreInv, CmdOK
  <2> QED BY <1>1, <1>2, <1>4, <2>1, CommandFollows
<1>6. CASE CallEngine(c) /\ cmd' # [cmd EXCEPT ![c] = CmdIdle]
  <2>1. cmd' = [cmd EXCEPT ![c].pc = IF cmd[c].op = "pause" THEN "enqueue" ELSE "update"] /\ cmd[c].pc = "engine"
    BY <1>6 DEF CallEngine, Finish, CmdGoto, CmdAt
  <2>2. /\ cmd'[c] = [cmd[c] EXCEPT !.pc = IF cmd[c].op = "pause" THEN "enqueue" ELSE "update"]
        /\ \A d \in Client \ {c} : cmd'[d] = cmd[d]
    BY <2>1 DEF Finds, CoreInv, CmdOK
  <2>3. /\ cmd'[c].pc = IF cmd[c].op = "pause" THEN "enqueue" ELSE "update"
        /\ cmd'[c].op = cmd[c].op /\ cmd'[c].job = j /\ cmd'[c].action = cmd[c].action
        /\ \A d \in Client \ {c} : cmd'[d] = cmd[d]
    BY <1>2, <2>2 DEF CmdState
  <2>4. cmd[c].op \in {"pause", "cancel"}
    BY <1>2, <2>1 DEF CommandReads
  <2>5. cmd'[c].action # "none"
    BY <2>1, <2>3 DEF QueueFollows
  <2> QED BY <1>1, <1>2, <1>4, <2>3, <2>4, <2>5, CommandFollows
<1>7. CASE GetEntry(c) /\ cmd' # [cmd EXCEPT ![c] = CmdIdle]
  <2>1. \E a \in {"start", "resume"} : cmd' = [cmd EXCEPT ![c].pc = "enqueue", ![c].action = a]
    <3>1. queue[j] \in Action
      BY DEF Finds, CoreInv, SharedOK, QueueOK
    <3> QED BY <1>7, <3>1 DEF GetEntry, Finish, Action
  <2>2. cmd'[c].pc = "enqueue" /\ cmd'[c].action # "none" /\ \A d \in Client \ {c} : cmd'[d] = cmd[d]
    BY <1>2, <2>1 DEF Finds, CoreInv, CmdOK, CmdState
  <2> QED BY <1>1, <1>2, <1>4, <2>2, CommandFollows
<1> QED BY <1>5, <1>6, <1>7

LEMMA EnqueueFollows ==
    ASSUME Finds, QueueFollows, NEW c \in Client, Enqueue(c)
    PROVE  QueueFollows'
<1>1. phase = "up" /\ elseUnchanged /\ cmd[c].pc = "enqueue" /\ UNCHANGED row
  BY DEF Enqueue, CmdAt
<1>2. AtRest /\ cmd[c] \in CmdState /\ CommandReads(cmd[c]) /\ \A d \in Client \ {c} : cmd[d].pc = "idle"
  BY <1>1, AtWork
<1> PICK j \in Job : j = cmd[c].job
  BY <1>1, AtWork
<1>3. queue'[j] # "none" /\ \A k \in Job : k # j => queue'[k] = queue[k]
  <2>1. queue' = [queue EXCEPT ![j] = cmd[c].action]
    BY DEF Enqueue, Finds, SetQueue
  <2> QED BY <1>1, <2>1 DEF QueueFollows, Finds, CoreInv, SharedOK, QueueOK
<1>4. \A d \in Client \ {c} : cmd'[d] = cmd[d]
  BY DEF Enqueue, Finds, CmdGoto, Finish, CoreInv, CmdOK
<1>5. CASE cmd[c].op = "run_now" /\ row[j].st = "queued"
  <2>1. cmd'[c].pc = "idle"
    BY <1>1, <1>2, <1>5, Records DEF Enqueue, Finds, Finish, CoreInv, CmdOK, CommandReads, Reading
  <2> QED BY <1>1, <1>2, <1>3, <1>4, <1>5, <2>1, CommandFollows DEF NoLongerQueued
<1>6. CASE cmd[c].op = "create"
  <2>1. cmd'[c].pc = "insert" /\ cmd'[c].job = j /\ row[j].st = "absent"
    BY <1>1, <1>2, <1>6 DEF Enqueue, Finds, CmdGoto, CoreInv, CmdOK, CmdState, CommandReads
  <2> QED BY <1>1, <1>2, <1>3, <1>4, <2>1, CommandFollows DEF NoLongerQueued
<1>7. CASE cmd[c].op # "create" /\ ~(cmd[c].op = "run_now" /\ row[j].st = "queued")
  <2>1. /\ cmd[c].op \in {"pause", "resume", "retry", "run_now"} /\ row[j] = cmd[c].j
        /\ row[j].st \in JobStatus /\ Allowed(cmd[c].op, row[j].st)
    BY <1>1, <1>2, <1>7 DEF CommandReads, Reading
  <2>2. cmd'[c].pc = "update" /\ cmd'[c].job = j /\ cmd'[c].op = cmd[c].op
    BY <1>2, <1>7, <2>1 DEF Enqueue, Finds, CmdGoto, CoreInv, CmdOK, CmdState
  <2>3. cmd[c].op = "run_now" => row[j].st = "paused"
    BY <1>7, <2>1 DEF Allowed
  <2>4. row'[j].st \in NoLongerQueued \cup {"gone"} => EntryOwed(j)'
    BY <1>1, <2>1, <2>2, <2>3 DEF EntryOwed, NoLongerQueued
  <2> QED BY <1>1, <1>2, <1>3, <1>4, <2>2, <2>4, CommandFollows
<1> QED BY <1>5, <1>6, <1>7

LEMMA LateCallsFollow ==
    ASSUME Finds, QueueFollows, NEW c \in Client,
           Insert(c) \/ WriteStatus(c) \/ Dequeue(c) \/ Cascade(c)
    PROVE  QueueFollows'
<1>1. phase = "up" /\ elseUnchanged /\ cmd[c].pc \in {"insert", "update", "dequeue", "cascade"}
  BY DEF Insert, WriteStatus, Dequeue, Cascade, CmdAt
<1>2. AtRest /\ cmd[c] \in CmdState /\ CommandReads(cmd[c]) /\ \A d \in Client \ {c} : cmd[d].pc = "idle"
  BY <1>1, AtWork
<1> PICK j \in Job : j = cmd[c].job
  BY <1>1, AtWork
<1>3. \A d \in Client \ {c} : cmd'[d] = cmd[d]
  BY DEF Insert, WriteStatus, Dequeue, Cascade, Finds, CmdGoto, Finish, CoreInv, CmdOK
<1>4. cmd' = [cmd EXCEPT ![c] = CmdIdle] => cmd'[c].pc = "idle"
  BY Records DEF Finds, CoreInv, CmdOK
<1>5. CASE Insert(c)
  <2>1. row' = [row EXCEPT ![j] = cmd[c].j] /\ cmd'[c].pc = "idle" /\ UNCHANGED queue /\ cmd[c].pc = "insert"
    BY <1>4, <1>5 DEF Insert, Finds, Finish, CmdAt
  <2>2. row'[j].st = "queued" /\ \A k \in Job : k # j => row'[k] = row[k]
    BY <1>2, <2>1 DEF CommandReads, Finds, CoreInv, SharedOK, RowsOK
  <2>3. queue[j] # "none"
    BY <2>1 DEF QueueFollows
  <2>4. cmd'[c].pc = "idle" /\ \A k \in Job : queue'[k] = queue[k]
    BY <2>1
  <2> QED BY <1>1, <1>2, <1>3, <2>2, <2>3, <2>4, CommandFollows DEF NoLongerQueued
<1>6. CASE WriteStatus(c)
  <2>1. /\ cmd[c].op \in {"pause", "resume", "retry", "run_now", "cancel"} /\ cmd[c].pc = "update"
        /\ row'[j].st = Target(cmd[c].op) /\ \A k \in Job : k # j => row'[k] = row[k]
    BY <1>6, StatusIsWritten DEF WriteStatus, CmdAt
  <2>2. \A k \in Job : queue'[k] = queue[k]
    BY <1>6 DEF WriteStatus
  <2>3. CASE cmd[c].op = "cancel"
    <3>1. cmd' = [cmd EXCEPT ![c].pc = "dequeue"]
      BY <1>6, <2>3 DEF WriteStatus, CmdGoto, Finds
    <3>2. cmd'[c].pc = "dequeue" /\ cmd'[c].job = j
      BY <1>2, <3>1 DEF Finds, CoreInv, CmdOK, CmdState
    <3>3. EntryOwed(j)' /\ row'[j].st = "cancelled"
      BY <2>1, <2>3, <3>2 DEF EntryOwed, Dequeues, Target
    <3> QED BY <1>1, <1>2, <1>3, <2>1, <2>2, <3>2, <3>3, CommandFollows
  <2>4. CASE cmd[c].op # "cancel"
    <3>1. cmd'[c].pc = "idle"
      BY <1>4, <1>6, <2>1, <2>4 DEF WriteStatus, Finish, Finds
    <3>2. row'[j].st = "paused" \/ (row'[j].st = "queued" /\ queue[j] # "none")
      BY <2>1, <2>4 DEF Target, QueueFollows
    <3> QED BY <1>1, <1>2, <1>3, <2>1, <2>2, <3>1, <3>2, CommandFollows DEF NoLongerQueued
  <2> QED BY <2>3, <2>4
<1>7. CASE Dequeue(c) \/ Cascade(c)
  <2>1. cmd'[c].pc = "idle" /\ queue' = [queue EXCEPT ![j] = "none"]
    BY <1>4, <1>7 DEF Dequeue, Cascade, Finish, SetQueue, Db, Finds
  <2>2. queue'[j] = "none" /\ \A k \in Job : k # j => queue'[k] = queue[k]
    BY <2>1 DEF Finds, CoreInv, SharedOK, QueueOK
  <2>3. row'[j].st # "queued" /\ \A k \in Job : k # j => row'[k] = row[k]
    BY <1>2, <1>7 DEF Dequeue, Cascade, CmdAt, CommandReads, Finds, Gone, CoreInv, SharedOK, RowsOK
  <2> QED BY <1>1, <1>2, <1>3, <2>1, <2>2, <2>3, CommandFollows
<1> QED BY <1>5, <1>6, <1>7
------------------------------------------------------------------------------
QueueInv == SerialInv /\ QueueFollows

LEMMA QueueStep == WaitingUser /\ QueueInv /\ [CoreNext]_coreVars => QueueInv'
<1> SUFFICES ASSUME WaitingUser, QueueInv, [CoreNext]_coreVars PROVE QueueInv'
  OBVIOUS
<1>1. SerialInv' /\ Finds /\ QueueFollows
  BY SerialStep, SerialFinds DEF QueueInv
<1>2. CASE EngineStep \/ RetryFires \/ UNCHANGED coreVars
  <2>1. UNCHANGED <<row, queue, sched, cmd, phase>>
    BY <1>2 DEF EngineStep, TaskStarts, TaskEnds, TaskLost, EngineMoves, durableVars, memoryVars, procVars, startVars,
       RetryFires, othersUnchanged, coreVars
  <2> QED BY <1>1, <2>1 DEF QueueFollows, EntryOwed, Dequeues, QueueInv
<1>3. CASE Crash
  <2>1. phase' = "down" /\ UNCHANGED <<row, queue>> /\ \A c \in Client : cmd'[c] = CmdIdle
    BY <1>3 DEF Crash
  <2> QED BY <1>1, <2>1 DEF QueueFollows, CmdIdle, QueueInv
<1>4. ASSUME NEW c \in Client, Request(c) \/ CommandCall(c)
      PROVE  QueueFollows'
  <2>1. CASE Undo(c)
    BY <1>1, <2>1 DEF Undo, CmdAt, Finds, CopiesAreRows, CommandsRead, CommandReads
  <2> QED BY <1>1, <1>4, <2>1, BeginFollows, EarlyCallsFollow, EnqueueFollows, LateCallsFollow DEF CommandCall
<1> QED BY <1>1, <1>2, <1>3, <1>4, SchedulerFollows, MonitorFollows, RecoveryFollows DEF CoreNext, QueueInv

\* Once a command has been carried out and nothing is going on, every queued job has its
\* queue row and no job past queueing has one, although each command and each dispatch
\* writes the two tables in calls of their own and may die in between.
THEOREM QueueAlwaysMatches == WaitingUser /\ CoreSpec => []QueueMatchesRows
<1> SUFFICES ASSUME WaitingUser PROVE CoreSpec => []QueueMatchesRows
  OBVIOUS
<1>1. CoreInit => QueueInv
  <2> SUFFICES ASSUME CoreInit PROVE QueueInv
    OBVIOUS
  <2>1. \A j \in Job : row[j].st = "absent"
    BY DEF CoreInit, Absent
  <2>2. \A c \in Client : cmd[c].pc = "idle"
    BY DEF CoreInit, CmdIdle
  <2>3. QueueFollows
    BY <2>1, <2>2 DEF QueueFollows, NoLongerQueued
  <2> QED BY <2>3, SerialInit DEF QueueInv
<1>2. QueueInv /\ [CoreNext]_coreVars => QueueInv'
  BY QueueStep
<1>3. QueueInv => QueueMatchesRows
  BY DEF QueueInv, QueueFollows, QueueMatchesRows, QueuedHasEntry, NoStaleEntry, Settled, Quiet, CommandRunning,
     EntryOwed, Dequeues
<1> QED BY <1>1, <1>2, <1>3, PTL DEF CoreSpec
------------------------------------------------------------------------------
\* Tasks.  A step but for Start and Resume makes no task live and gives none away.
Fades(g) == /\ task'[g].job = task[g].job /\ (task'[g].st = "unused" <=> task[g].st = "unused")
            /\ Live(g)' => Live(g)
TasksFade == \A g \in Gid : Fades(g)

\* At most one task comes to be in excess, and then a fault is spent.
Pays == \E x : /\ Excess' \subseteq Excess \cup {x}
               /\ x \in Excess' => x \in Excess \/ Spend("rpc") \/ Spend("crash")

\* What a step has to show.
TasksFound == Finds /\ TasksHaveJobs /\ EndIsSeen
TasksKept == TasksHaveJobs' /\ EndIsSeen' /\ Pays

LEMMA GidsLive ==
    ASSUME TasksOK
    PROVE  /\ \A g \in Gid : Live(g) <=> task[g].st \in {"active", "waiting"}
           /\ ~Live(NoGid) /\ NoGid \notin Gid
BY Records DEF Live, TaskOf

LEMMA TasksUnchanged == UNCHANGED task => TasksFade
BY DEF TasksFade, Fades, Live, TaskOf

LEMMA SetTaskFades ==
    ASSUME TasksOK, NEW g \in Gid, task[g].st # "unused", NEW st \in {"paused", "removed", "complete", "error", "gone"},
           SetTask(g, st)
    PROVE  TasksFade
<1>1. \A h \in Gid : task'[h] = IF h = g THEN [task[g] EXCEPT !.st = st] ELSE task[h]
  BY DEF SetTask, TasksOK
<1>2. task'[g].st = st /\ task'[g].job = task[g].job
  BY <1>1 DEF TasksOK, Task
<1> QED BY <1>1, <1>2, Records DEF TasksFade, Fades, Live, TaskOf

\* Jobs and tasks go on naming each other when no row takes a task and no dispatch begins one.
LEMMA JobsFrame ==
    ASSUME TasksFound, TasksFade, \A j \in Job : row'[j].eid \in {row[j].eid, NoGid},
           sched'.pc \in {"limits", "started"} =>
               sched.pc \in {"limits", "started"} /\ sched'.j = sched.j /\ sched'.job = sched.job
    PROVE  TasksHaveJobs'
<1>1. \A j \in Job : row[j].eid \in Gid \cup {NoGid}
  BY DEF TasksFound, Finds, CoreInv, SharedOK, RowsOK, GoodRow, Row
<1>2. \A j \in Job : row'[j].eid # NoGid => task'[row'[j].eid].job = j /\ task'[row'[j].eid].st # "unused"
  BY <1>1 DEF TasksFound, TasksHaveJobs, TasksFade, Fades
<1>3. \A g \in Gid : Begun(g)' => task'[g].job = sched'.job /\ task'[g].st # "unused"
  BY DEF TasksFound, TasksHaveJobs, TasksFade, Fades, Begun
<1>4. \A g \in Gid : task'[g].st # "unused" => task'[g].job \in Job
  BY DEF TasksFound, TasksHaveJobs, TasksFade, Fades
<1> QED BY <1>2, <1>3, <1>4 DEF TasksHaveJobs

\* An end that was seen stays one.
Seeing(m) == m.pc \in {"enqueue", "update"} /\ m.op \in {"pause", "cancel"} /\ m.j.st = "downloading"
LEMMA EndFrame ==
    ASSUME TasksFound, TasksFade, mon' = mon \/ mon'.pc # "apply",
           \A c \in Client : cmd'[c] = cmd[c] \/ ~Seeing(cmd'[c])
                             \/ (Seeing(cmd[c]) /\ cmd'[c].j = cmd[c].j)
    PROVE  EndIsSeen'
<1>1. \A e \in Gid \cup {NoGid} : Live(e)' => Live(e)
  BY DEF TasksFade, Fades, Live, TaskOf
<1>2. mon'.pc = "apply" /\ mon'.status \notin {"downloading", "queued"} => ~Live(mon.snap[mon.job].eid)'
  <2> SUFFICES ASSUME mon' = mon, mon.pc = "apply", mon.status \notin {"downloading", "queued"}
               PROVE  ~Live(mon.snap[mon.job].eid)'
    OBVIOUS
  <2>1. ~Live(mon.snap[mon.job].eid)
    BY DEF TasksFound, EndIsSeen
  <2>2. mon.snap[mon.job].eid \in Gid
    BY DEF TasksFound, Finds, CoreInv, MonOK, MonState, ActiveRow
  <2>3. PICK e \in Gid : e = mon.snap[mon.job].eid
    BY <2>2
  <2>4. ~Live(e)' /\ mon'.snap[mon'.job].eid = e
    BY <1>1, <2>1, <2>3
  <2> QED BY <2>3, <2>4 DEF Live, TaskOf
<1>3. \A c \in Client : Seeing(cmd'[c]) => ~Live(cmd[c].j.eid)'
  <2> SUFFICES ASSUME NEW c \in Client, Seeing(cmd'[c])
               PROVE  ~Live(cmd[c].j.eid)'
    OBVIOUS
  <2>1. Seeing(cmd[c]) /\ cmd'[c].j = cmd[c].j
    BY DEF Seeing
  <2>2. ~Live(cmd[c].j.eid)
    BY <2>1 DEF Seeing, TasksFound, EndIsSeen
  <2>3. cmd[c].j.eid \in Gid \cup {NoGid}
    BY DEF TasksFound, Finds, CoreInv, CmdOK, CmdState, GoodRow, Row
  <2>4. PICK e \in Gid \cup {NoGid} : e = cmd[c].j.eid
    BY <2>3
  <2>5. ~Live(e)' /\ cmd'[c].j.eid = e
    BY <1>1, <2>1, <2>2, <2>4
  <2> QED BY <2>1, <2>4, <2>5 DEF Live, TaskOf
<1> QED BY <1>2, <1>3 DEF EndIsSeen, Seeing, Live, TaskOf

\* A live task stays kept when who names it goes on doing so.
LEMMA KeptFrame ==
    ASSUME TasksFound, NEW x, \A g \in Gid \ {x} : Fades(g),
           \A g \in Gid \ {x} : Begun(g) /\ Live(g)' => Kept(g)',
           \A g \in Gid \ {x} : Condemned(g)' /\ Live(g)' => Condemned(g),
           \A g \in Gid \ {x}, j \in Job :
               Live(g)' /\ row[j] = [st |-> "downloading", eid |-> g] /\ ~Condemned(g) => row'[j] = row[j]
    PROVE  Excess' \subseteq Excess \cup {x}
<1> SUFFICES ASSUME NEW g \in Gid \ {x}, Live(g)', Live(g), Kept(g)
             PROVE  Kept(g)'
  BY DEF Excess, Fades
<1>1. CASE Begun(g)
  BY <1>1
<1>2. CASE row[task[g].job] = [st |-> "downloading", eid |-> g] /\ ~Condemned(g)
  <2>1. task[g].st # "unused" /\ task'[g].job = task[g].job
    BY DEF Live, TaskOf, Fades
  <2>2. PICK j \in Job : j = task[g].job
    BY <2>1 DEF TasksFound, TasksHaveJobs
  <2>3. row'[j] = [st |-> "downloading", eid |-> g] /\ task'[g].job = j /\ ~Condemned(g)'
    BY <1>2, <2>1, <2>2
  <2> QED BY <2>3 DEF Kept
<1> QED BY <1>1, <1>2 DEF Kept

LEMMA NothingLost ==
    ASSUME TasksFound, TasksFade,
           \A g \in Gid : Begun(g) /\ Live(g)' => Kept(g)',
           \A g \in Gid : Condemned(g)' /\ Live(g)' => Condemned(g),
           \A g \in Gid, j \in Job :
               Live(g)' /\ row[j] = [st |-> "downloading", eid |-> g] /\ ~Condemned(g) => row'[j] = row[j]
    PROVE  Pays
<1>1. \A g \in Gid \ {NoGid} : Fades(g)
  BY DEF TasksFade
<1>2. Excess' \subseteq Excess \cup {NoGid}
  BY <1>1, KeptFrame
<1>3. NoGid \notin Excess'
  BY Records DEF Excess
<1> QED BY <1>2, <1>3 DEF Pays
------------------------------------------------------------------------------
\* The scheduler.

\* No task is in the monitor's copies, or condemned, but those that rows name; the job of
\* the dispatch is none of theirs.
LEMMA WhoNames ==
    ASSUME TasksFound, phase = "up", mon.pc \in {"condemn", "fail", "apply"}, NEW g \in Gid,
           mon.snap[mon.job].eid = g
    PROVE  /\ mon.job \in Job /\ task[g].job = mon.job /\ task[g].st # "unused"
           /\ row[mon.job] = mon.snap[mon.job] /\ row[mon.job].st = "downloading"
           /\ sched.pc \in Dispatching => sched.job # mon.job
<1> PICK j \in Job : j = mon.job
  BY DEF TasksFound, Finds, CoreInv, MonOK
<1>1. mon.snap[j] # Absent /\ Finds
  BY DEF TasksFound, Finds, CoreInv, MonOK
<1>2. row[j] = mon.snap[j] /\ row[j].st = "downloading"
  BY <1>1, CopyIsRow
<1>3. task[g].job = j /\ task[g].st # "unused"
  BY <1>2, Records DEF TasksFound, TasksHaveJobs
<1>4. sched.pc \in Dispatching => sched.job # j
  BY <1>1 DEF Finds, CopiesAreRows, SchedulerReads
<1> QED BY <1>1, <1>2, <1>3, <1>4

\* A step of the scheduler that leaves the rows and the tasks alone and begins nothing.
LEMMA SchedulerLeaves ==
    ASSUME TasksFound, othersUnchanged, UNCHANGED row, TasksFade,
           sched'.pc \in {"limits", "started"} =>
               sched.pc \in {"limits", "started"} /\ sched'.j = sched.j /\ sched'.job = sched.job
    PROVE  TasksHaveJobs' /\ EndIsSeen'
<1>1. UNCHANGED <<mon, cmd>>
  BY DEF othersUnchanged
<1>2. TasksHaveJobs'
  BY JobsFrame
<1>3. EndIsSeen'
  BY <1>1, EndFrame
<1> QED BY <1>2, <1>3

LEMMA SchedulerPasses ==
    ASSUME TasksFound, othersUnchanged, UNCHANGED row, TasksFade,
           sched'.pc \in {"limits", "started"} =>
               sched.pc \in {"limits", "started"} /\ sched'.j = sched.j /\ sched'.job = sched.job,
           sched.pc \in {"limits", "started"} => sched'.pc \in {"limits", "started"}
    PROVE  TasksKept
<1>1. UNCHANGED mon
  BY DEF othersUnchanged
<1>2. \A g \in Gid : Begun(g) /\ Live(g)' => Kept(g)'
  BY DEF Begun, Kept
<1>3. \A g \in Gid : Condemned(g)' => Condemned(g)
  BY <1>1 DEF Condemned
<1>4. Pays
  BY <1>2, <1>3, NothingLost
<1> QED BY <1>4, SchedulerLeaves DEF TasksKept

\* Where a dispatch has begun no task.
LEMMA Elsewhere ==
    ASSUME sched \in SchedState,
           ToTop \/ ToIdle \/ \E p \in SchedLabel \ {"limits", "started"} : Goto(p)
    PROVE  sched'.pc \notin {"limits", "started"}
BY DEF ToTop, ToIdle, SchedIdle, Goto, SchedState

LEMMA UnusedIsUnnamed ==
    ASSUME TasksFound, Unused # {}
    PROVE  /\ NextGid \in Gid /\ task[NextGid].st = "unused" /\ \A j \in Job : row[j].eid # NextGid
           /\ ~Begun(NextGid)
<1>1. NextGid \in Unused
  <2>1. PICK m \in Gid : m = NextGid
    BY NextGidIsGid
  <2> DEFINE Less == OpToRel(<, Nat)
  <2>2. Unused \subseteq Nat
    BY DEF Unused, Gid
  <2>3. IsWellFoundedOn(Less, Nat)
    BY NatLessThanWellFounded
  <2>4. \A y, z \in Nat : y < z => <<y, z>> \in Less
    BY DEF OpToRel
  <2> HIDE DEF Less
  <2>5. PICK n \in Unused : \A h \in Unused : <<h, n>> \notin Less
    BY <2>2, <2>3, WFMin
  <2>6. ASSUME NEW h \in Unused
        PROVE  n <= h
    <3>1. n \in Nat /\ h \in Nat
      BY <2>2
    <3>2. ~(h < n)
      BY <3>1, <2>4, <2>5
    <3> QED BY <3>1, <3>2
  <2> QED BY <2>6 DEF NextGid
<1>2. NextGid \in Gid /\ task[NextGid].st = "unused"
  BY <1>1, Records DEF Unused, TaskOf
<1> QED BY <1>2, Records DEF TasksFound, TasksHaveJobs

\* A new task is the job's whose dispatch begins it; it is in excess when the call fails.
LEMMA StartAccounts ==
    ASSUME TasksFound, Start
    PROVE  TasksKept
<1>1. sched.pc = "start" /\ phase = "up" /\ othersUnchanged /\ UNCHANGED <<row, mon, cmd>> /\ sched \in SchedState
      /\ Unused # {} /\ TasksOK
  BY DEF Start, At, othersUnchanged, TasksFound, Finds, CoreInv, SchedOK, SharedOK
<1>2. PICK i \in Job : i = sched.job
  BY <1>1 DEF TasksFound, Finds, CoreInv, SchedOK, SchedOwns, Dispatching
<1>3. CASE UNCHANGED task /\ Goto("failed")
  <2>1. sched'.pc = "failed"
    BY <1>1, <1>3 DEF Goto, SchedState
  <2> QED BY <1>1, <1>3, <2>1, TasksUnchanged, SchedulerPasses
<1>4. ASSUME NEW st \in {"active", "waiting"}, NewTask(NextGid, st)
      PROVE  TasksKept
  <2>1. PICK n \in Gid : n = NextGid
    BY <1>1, UnusedIsUnnamed
  <2>2. task[n].st = "unused" /\ (\A j \in Job : row[j].eid # n) /\ ~Begun(n)
    BY <1>1, <2>1, UnusedIsUnnamed
  <2>3. task'[n] = [job |-> i, st |-> st] /\ \A g \in Gid \ {n} : task'[g] = task[g]
    BY <1>1, <1>2, <1>4, <2>1 DEF NewTask, TasksOK, Me
  <2>4. \A g \in Gid \ {n} : Fades(g)
    BY <2>3 DEF Fades, Live, TaskOf
  <2>5. \A g \in Gid : ~Begun(g)
    BY <1>1 DEF Begun
  <2>6. Excess' \subseteq Excess \cup {n}
    BY <1>1, <2>4, <2>5, KeptFrame DEF Condemned
  <2>7. \/ sched'.pc = "limits" /\ sched'.j.eid = n /\ sched'.job = i
        \/ sched'.pc = "failed" /\ Spend("rpc")
    <3>1. sched' = [sched EXCEPT !.pc = "limits", !.j.eid = n] \/ (Goto("failed") /\ Spend("rpc"))
      BY <2>1 DEF Start
    <3>2. sched.j \in Row
      BY <1>1 DEF SchedState
    <3>3. ASSUME sched' = [sched EXCEPT !.pc = "limits", !.j.eid = n]
          PROVE  sched'.pc = "limits" /\ sched'.j.eid = n /\ sched'.job = i
      <4>1. /\ sched'.pc = "limits" /\ sched'.j = [sched.j EXCEPT !.eid = n] /\ sched'.job = sched.job
        BY <1>1, <3>3 DEF SchedState
      <4> QED BY <1>2, <3>2, <4>1 DEF Row
    <3>4. Goto("failed") => sched'.pc = "failed"
      BY <1>1 DEF Goto, SchedState
    <3> QED BY <3>1, <3>3, <3>4
  <2>8. Pays
    <3>1. n \in Excess' => Spend("rpc")
      BY <2>7 DEF Excess, Kept, Begun
    <3> QED BY <2>6, <3>1 DEF Pays
  <2>9. TasksHaveJobs'
    <3>1. \A j \in Job : row[j].eid # NoGid => task'[row[j].eid] = task[row[j].eid]
      BY <2>2, <2>3 DEF TasksFound, Finds, CoreInv, SharedOK, RowsOK, GoodRow, Row
    <3>2. \A g \in Gid : Begun(g)' => g = n
      BY <2>7 DEF Begun
    <3> QED BY <1>1, <2>3, <2>7, <3>1, <3>2 DEF TasksFound, TasksHaveJobs, Begun
  <2>10. EndIsSeen'
    <3>1. \A c \in Client : ~Seeing(cmd[c])
      BY <1>1 DEF TasksFound, Finds, CopiesAreRows, Alone, AtRest, Seeing
    <3>2. mon.pc = "apply" /\ mon.status \notin {"downloading", "queued"} => ~Live(mon.snap[mon.job].eid)'
      <4> SUFFICES ASSUME mon.pc = "apply", mon.status \notin {"downloading", "queued"}
                   PROVE  ~Live(mon.snap[mon.job].eid)'
        OBVIOUS
      <4>1. PICK g \in Gid : g = mon.snap[mon.job].eid
        BY DEF TasksFound, Finds, CoreInv, MonOK, MonState, ActiveRow
      <4>2. ~Live(g) /\ task[g].st # "unused"
        BY <1>1, <4>1, WhoNames DEF TasksFound, EndIsSeen
      <4>3. ~Live(g)'
        BY <2>2, <2>4, <4>2 DEF Fades
      <4> QED BY <1>1, <4>1, <4>3 DEF Live, TaskOf
    <3> QED BY <1>1, <3>1, <3>2 DEF EndIsSeen, Seeing
  <2> QED BY <2>8, <2>9, <2>10 DEF TasksKept
<1> QED BY <1>3, <1>4 DEF Start

LEMMA LimitsAccounts ==
    ASSUME TasksFound, Limits
    PROVE  TasksKept
<1>1. sched.pc = "limits" /\ othersUnchanged /\ UNCHANGED <<row, task, mon, cmd>> /\ sched \in SchedState
  BY DEF Limits, At, othersUnchanged, TasksFound, Finds, CoreInv, SchedOK
<1>2. CASE Goto("started")
  <2>1. sched'.pc = "started" /\ sched'.j = sched.j /\ sched'.job = sched.job
    BY <1>1, <1>2 DEF Goto, SchedState
  <2> QED BY <1>1, <2>1, TasksUnchanged, SchedulerPasses
<1>3. CASE Goto("failed") /\ Spend("rpc")
  <2>1. sched'.pc = "failed"
    BY <1>1, <1>3 DEF Goto, SchedState
  <2>2. TasksFade
    BY <1>1, TasksUnchanged
  <2>3. \A g \in Gid \ {sched.j.eid} : ~Begun(g) /\ Fades(g)
    BY <2>2 DEF Begun, TasksFade
  <2>4. Excess' \subseteq Excess \cup {sched.j.eid}
    BY <1>1, <2>3, KeptFrame DEF Condemned
  <2>5. Pays
    BY <1>3, <2>4 DEF Pays
  <2> QED BY <1>1, <2>1, <2>2, <2>5, SchedulerLeaves DEF TasksKept
<1> QED BY <1>2, <1>3 DEF Limits

\* The job's own task is unpaused.
LEMMA ResumeAccounts ==
    ASSUME TasksFound, Resume
    PROVE  TasksKept
<1>1. sched.pc = "resume" /\ phase = "up" /\ othersUnchanged /\ UNCHANGED <<row, mon, cmd>> /\ sched \in SchedState
      /\ TasksOK
  BY DEF Resume, At, othersUnchanged, TasksFound, Finds, CoreInv, SchedOK, SharedOK
<1>2. PICK i \in Job : i = sched.job
  BY <1>1 DEF TasksFound, Finds, CoreInv, SchedOK, SchedOwns, Dispatching
<1>3. CASE UNCHANGED task /\ Goto("failed")
  <2>1. sched'.pc = "failed"
    BY <1>1, <1>3 DEF Goto, SchedState
  <2> QED BY <1>1, <1>3, <2>1, TasksUnchanged, SchedulerPasses
<1>4. ASSUME TaskOf(sched.j.eid) = "paused", SetTask(sched.j.eid, "active"),
             Goto("started") \/ (Goto("failed") /\ Spend("rpc"))
      PROVE  TasksKept
  <2>1. row[i].eid = sched.j.eid /\ row[i].st = "queued"
    BY <1>1, <1>2 DEF TasksFound, Finds, CopiesAreRows, SchedulerReads, Dispatching, Copied
  <2>2. PICK n \in Gid : n = sched.j.eid
    BY <1>4, <2>1 DEF TaskOf, TasksFound, Finds, CoreInv, SharedOK, RowsOK, GoodRow, Row
  <2>3. task[n].job = i /\ task[n].st = "paused"
    BY <1>4, <2>1, <2>2, Records DEF TaskOf, TasksFound, TasksHaveJobs
  <2>4. task'[n].st = "active" /\ task'[n].job = i /\ \A g \in Gid \ {n} : task'[g] = task[g]
    BY <1>1, <1>4, <2>2, <2>3 DEF SetTask, TasksOK, Task
  <2>5. \A g \in Gid \ {n} : Fades(g)
    BY <2>4 DEF Fades, Live, TaskOf
  <2>6. \A g \in Gid : ~Begun(g)
    BY <1>1 DEF Begun
  <2>7. Excess' \subseteq Excess \cup {n}
    BY <1>1, <2>5, <2>6, KeptFrame DEF Condemned
  <2>8. /\ sched'.j.eid = n /\ sched'.job = i
        /\ sched'.pc = "started" \/ (sched'.pc = "failed" /\ Spend("rpc"))
    BY <1>1, <1>2, <1>4, <2>2 DEF Goto, SchedState
  <2>9. Pays
    <3>1. n \in Excess' => Spend("rpc")
      BY <2>8 DEF Excess, Kept, Begun
    <3> QED BY <2>7, <3>1 DEF Pays
  <2>10. TasksHaveJobs'
    <3>1. \A g \in Gid : task'[g].job = task[g].job /\ (task'[g].st = "unused" <=> task[g].st = "unused")
      BY <2>3, <2>4
    <3>2. \A j \in Job : row[j].eid \in Gid \cup {NoGid}
      BY DEF TasksFound, Finds, CoreInv, SharedOK, RowsOK, GoodRow, Row
    <3>3. \A g \in Gid : Begun(g)' => g = n
      BY <2>8 DEF Begun
    <3> QED BY <1>1, <2>3, <2>8, <3>1, <3>2, <3>3 DEF TasksFound, TasksHaveJobs, Begun
  <2>11. EndIsSeen'
    <3>1. \A c \in Client : ~Seeing(cmd[c])
      BY <1>1 DEF TasksFound, Finds, CopiesAreRows, Alone, AtRest, Seeing
    <3>2. mon.pc = "apply" /\ mon.status \notin {"downloading", "queued"} => ~Live(mon.snap[mon.job].eid)'
      <4> SUFFICES ASSUME mon.pc = "apply", mon.status \notin {"downloading", "queued"}
                   PROVE  ~Live(mon.snap[mon.job].eid)'
        OBVIOUS
      <4>1. PICK g \in Gid : g = mon.snap[mon.job].eid
        BY DEF TasksFound, Finds, CoreInv, MonOK, MonState, ActiveRow
      <4>2. ~Live(g) /\ task[g].job # i
        BY <1>1, <1>2, <4>1, WhoNames DEF TasksFound, EndIsSeen, Dispatching
      <4>3. ~Live(g)'
        BY <2>3, <2>5, <4>2 DEF Fades
      <4> QED BY <1>1, <4>1, <4>3 DEF Live, TaskOf
    <3> QED BY <1>1, <3>1, <3>2 DEF EndIsSeen, Seeing
  <2> QED BY <2>9, <2>10, <2>11 DEF TasksKept
<1> QED BY <1>3, <1>4 DEF Resume

\* The row takes over from the dispatch.
LEMMA StartedAccounts ==
    ASSUME TasksFound, Started
    PROVE  TasksKept
<1>1. sched.pc = "started" /\ phase = "up" /\ othersUnchanged /\ UNCHANGED <<task, mon, cmd>> /\ sched \in SchedState
      /\ sched.j.eid \in Gid /\ RowsOK
  BY DEF Started, At, othersUnchanged, TasksFound, Finds, CoreInv, SchedOK, SharedOK, RowAt
<1>2. PICK i \in Job : i = sched.job
  BY <1>1 DEF TasksFound, Finds, CoreInv, SchedOK, SchedOwns, Dispatching
<1>3. PICK n \in Gid : n = sched.j.eid
  BY <1>1
<1>4. task[n].job = i /\ task[n].st # "unused"
  BY <1>1, <1>2, <1>3 DEF TasksFound, TasksHaveJobs, Begun
<1>5. row[i].st = "queued"
  BY <1>1, <1>2 DEF TasksFound, Finds, CopiesAreRows, SchedulerReads, Dispatching, Copied
<1>6. Update(i, [st |-> "downloading", eid |-> n]) /\ sched'.pc = "activate"
  BY <1>1, <1>2, <1>3 DEF Started, TasksFound, Finds, Me, SchedState
<1>7. row'[i] = [st |-> "downloading", eid |-> n] /\ \A k \in Job : k # i => row'[k] = row[k]
  BY <1>1, <1>5, <1>6 DEF Update, Exists, JobStatus, RowsOK
<1>8. TasksFade
  BY <1>1, TasksUnchanged
<1>9. ~Condemned(n)
  <2> SUFFICES ASSUME Condemned(n) PROVE FALSE
    OBVIOUS
  <2>1. mon.pc \in {"condemn", "fail", "apply"} /\ mon.snap[mon.job].eid = n
    BY DEF Condemned
  <2> QED BY <1>1, <1>2, <1>4, <2>1, WhoNames DEF Dispatching
<1>10. Pays
  <2>1. \A g \in Gid : Begun(g) => g = n
    BY <1>3 DEF Begun
  <2>2. Kept(n)'
    BY <1>1, <1>4, <1>7, <1>9 DEF Kept, Condemned
  <2>3. \A g \in Gid, j \in Job : row[j] = [st |-> "downloading", eid |-> g] => row'[j] = row[j]
    BY <1>5, <1>7
  <2>4. \A g \in Gid : Begun(g) /\ Live(g)' => Kept(g)'
    BY <2>1, <2>2
  <2>5. \A g \in Gid : Condemned(g)' => Condemned(g)
    BY <1>1 DEF Condemned
  <2> QED BY <1>8, <2>3, <2>4, <2>5, NothingLost
<1>11. EndIsSeen'
  BY <1>1, <1>8, EndFrame
<1>12. TasksHaveJobs'
  <2>1. \A j \in Job : row'[j].eid # NoGid => task[row'[j].eid].job = j /\ task[row'[j].eid].st # "unused"
    BY <1>4, <1>7 DEF TasksFound, TasksHaveJobs
  <2> QED BY <1>1, <1>6, <2>1 DEF TasksFound, TasksHaveJobs, Begun
<1> QED BY <1>10, <1>11, <1>12 DEF TasksKept

\* A row that fails was not the one that kept a task.
LEMMA FailsAccounts ==
    ASSUME TasksFound, Refused \/ Failed
    PROVE  TasksKept
<1>1. sched.pc \in {"refused", "failed"} /\ phase = "up" /\ othersUnchanged /\ UNCHANGED <<task, mon, cmd>>
      /\ sched \in SchedState /\ RowsOK
  BY DEF Refused, Failed, At, othersUnchanged, TasksFound, Finds, CoreInv, SchedOK, SharedOK
<1>2. PICK i \in Job : i = sched.job
  BY <1>1 DEF TasksFound, Finds, CoreInv, SchedOK, SchedOwns, Dispatching
<1>3. row[i].st = "queued" /\ row[i] = sched.cur /\ (sched.pc = "refused" => row[i] = sched.j)
  BY <1>1, <1>2 DEF TasksFound, Finds, CopiesAreRows, SchedulerReads, Dispatching, Copied
<1>4. row'[i].eid = row[i].eid /\ \A k \in Job : k # i => row'[k] = row[k]
  <2> DEFINE r == row[i]
  <2>1. Update(i, [r EXCEPT !.st = FailTarget])
    BY <1>1, <1>2, <1>3 DEF Refused, Failed, TasksFound, Finds, Me, At
  <2>2. r \in Row /\ row[i].st \in JobStatus /\ r = row[i] /\ FailTarget \in JobStatus
    BY <1>1, <1>3 DEF RowsOK, GoodRow, JobStatus, FailTarget
  <2> HIDE DEF r
  <2> QED BY <1>1, <2>1, <2>2, UpdateWrites
<1>5. sched'.pc \notin {"limits", "started"}
  <2>1. ToTop \/ Goto("drop_entry")
    BY DEF Refused, Failed, Abandon, TasksFound, Finds
  <2> QED BY <1>1, <2>1, Elsewhere DEF SchedLabel, Dispatching
<1>6. TasksFade
  BY <1>1, TasksUnchanged
<1>7. TasksHaveJobs'
  BY <1>4, <1>5, <1>6, JobsFrame
<1>8. EndIsSeen'
  BY <1>1, <1>6, EndFrame
<1>9. Pays
  <2>1. \A g \in Gid, j \in Job : row[j] = [st |-> "downloading", eid |-> g] => row'[j] = row[j]
    BY <1>3, <1>4
  <2>2. \A g \in Gid : ~Begun(g) /\ (Condemned(g)' => Condemned(g))
    BY <1>1 DEF Begun, Condemned
  <2> QED BY <1>6, <2>1, <2>2, NothingLost
<1> QED BY <1>7, <1>8, <1>9 DEF TasksKept

LEMMA SchedulerAccounts ==
    ASSUME TasksFound, SchedulerStep
    PROVE  TasksKept
<1>1. Undirty /\ Dirty = {}
  <2>1. \A i \in Job : inFlight[i].kind \in {"free", "clean"}
    BY Records DEF TasksFound, Finds, FaultFree, Undirty
  <2> QED BY <2>1 DEF TasksFound, Finds, FaultFree, Dirty
<1>2. CASE Wake \/ List \/ Fetch \/ DropEntry \/ Entry \/ Load \/ Activate \/ Refuse
  <2>1. othersUnchanged /\ UNCHANGED row /\ sched \in SchedState /\ sched.pc \notin {"limits", "started"} /\ TasksOK
    BY <1>2 DEF Wake, List, Fetch, DropEntry, Entry, Load, Activate, Refuse, At, TasksFound, Finds, CoreInv, SchedOK, SharedOK
  <2>2. sched'.pc \notin {"limits", "started"}
    <3>0. CASE Load
      <4>1. \/ \E p \in {"start", "resume", "refuse", "refused"} : sched' = [sched EXCEPT !.j = row[Me], !.pc = p]
            \/ Goto("lost_entry")
        BY <3>0 DEF Load
      <4> QED BY <2>1, <4>1, Elsewhere DEF SchedState, SchedLabel, Dispatching
    <3>1. CASE List \/ Fetch
      <4>1. \/ ToIdle \/ Goto("drop_entry")
            \/ sched' = [sched EXCEPT !.pc = "entry", !.cur = row[Me]]
            \/ \E j \in Job : sched' = [SchedIdle EXCEPT !.pc = "fetch", !.job = j, !.action = queue[j]]
        BY <3>1 DEF List, Fetch, Runnable
      <4>2. ASSUME NEW j, sched' = [SchedIdle EXCEPT !.pc = "fetch", !.job = j, !.action = queue[j]]
            PROVE  sched'.pc = "fetch"
        BY <4>2 DEF SchedIdle
      <4> QED BY <2>1, <4>1, <4>2, Elsewhere DEF SchedState, SchedLabel, Dispatching
    <3>2. CASE Wake \/ DropEntry \/ Entry \/ Activate \/ Refuse
      <4>1. ToTop \/ \E p \in {"load", "refused"} : Goto(p)
        BY <3>2 DEF Wake, DropEntry, Entry, Activate, Refuse, Abandon
      <4> QED BY <2>1, <4>1, Elsewhere DEF SchedLabel, Dispatching
    <3> QED BY <1>2, <3>0, <3>1, <3>2
  <2>3. UNCHANGED task \/ \E g \in Gid : task[g].st # "unused" /\ SetTask(g, "paused")
    <3>1. CASE Refuse
      <4>1. UNCHANGED task \/ (Live(sched.j.eid) /\ SetTask(sched.j.eid, "paused"))
        BY <3>1 DEF Refuse
      <4>2. sched.j.eid \in Gid \cup {NoGid}
        BY <2>1 DEF SchedState, Row
      <4>3. Live(sched.j.eid) => sched.j.eid \in Gid /\ task[sched.j.eid].st # "unused"
        BY <4>2 DEF Live, TaskOf
      <4> QED BY <4>1, <4>3
    <3>2. CASE ~Refuse
      BY <1>2, <3>2 DEF Wake, List, Fetch, DropEntry, Entry, Load, Activate
    <3> QED BY <3>1, <3>2
  <2>4. TasksFade
    BY <2>1, <2>3, TasksUnchanged, SetTaskFades
  <2> QED BY <2>1, <2>2, <2>4, SchedulerPasses
<1>3. CASE LostEntry
  BY <1>3 DEF LostEntry, At, TasksFound, Finds, CopiesAreRows, SchedulerReads, Dispatching
<1>4. CASE StartReconcile \/ Reconcile \/ RsWrite \/ RsDelete \/ RxStatus \/ RxWrite \/ RxDelete \/ EndReconcile
  BY <1>1, <1>4 DEF Undirty, Reconciling, At, StartReconcile, Reconcile, RsWrite, RsDelete, RxStatus, RxWrite, RxDelete, EndReconcile
<1> QED
  BY <1>2, <1>3, <1>4, StartAccounts, LimitsAccounts, ResumeAccounts, StartedAccounts, FailsAccounts DEF SchedulerStep
------------------------------------------------------------------------------
\* The monitor.

LEMMA MonitorLeaves ==
    ASSUME TasksFound, UNCHANGED <<task, sched, cmd>>, \A j \in Job : row'[j].eid = row[j].eid,
           mon'.pc # "apply"
    PROVE  TasksHaveJobs' /\ EndIsSeen' /\ TasksFade
<1>1. TasksFade
  BY TasksUnchanged
<1>2. TasksHaveJobs'
  BY <1>1, JobsFrame
<1>3. EndIsSeen'
  BY <1>1, EndFrame
<1> QED BY <1>1, <1>2, <1>3

\* A copy is condemned when its task is gone, or when the engine does not answer.
LEMMA PollAccounts ==
    ASSUME TasksFound, NEW j \in Job, Poll(j)
    PROVE  TasksKept
<1>1. /\ mon.pc = "visit" /\ mon.snap[j] # Absent /\ mon \in MonState /\ TasksOK
      /\ UNCHANGED <<row, task, sched, cmd, phase>>
  BY DEF Poll, MonAt, restUnchanged, TasksFound, Finds, CoreInv, MonOK, SharedOK
<1>2. PICK g \in Gid : g = mon.snap[j].eid
  BY <1>1 DEF MonState, ActiveRow
<1>3. TasksFade
  BY <1>1, TasksUnchanged
<1>4. CASE mon' = [mon EXCEPT !.pc = "apply", !.job = j, !.status = MapAria2Status(task[g].st)] /\ Known(g)
  <2>1. mon'.pc = "apply" /\ mon'.job = j /\ mon'.snap = mon.snap /\ mon'.status = MapAria2Status(task[g].st)
    BY <1>1, <1>4 DEF MonState
  <2>2. TasksHaveJobs'
    BY <1>1, <1>3, JobsFrame
  <2>3. mon'.status \notin {"downloading", "queued"} => ~Live(g)
    BY <1>1, <2>1, GidsLive DEF MapAria2Status
  <2>4. EndIsSeen'
    <3>1. \A e \in Gid : Live(e)' <=> Live(e)
      BY <1>1 DEF Live, TaskOf
    <3>2. mon'.snap[mon'.job].eid = g
      BY <1>2, <2>1
    <3>3. \A c \in Client : Seeing(cmd[c]) => ~Live(cmd[c].j.eid)
      BY DEF TasksFound, EndIsSeen, Seeing
    <3> QED BY <1>1, <2>3, <3>1, <3>2, <3>3 DEF EndIsSeen, Seeing, Live, TaskOf
  <2>5. Pays
    BY <1>1, <1>3, <2>1, NothingLost DEF Begun, Kept, Condemned
  <2> QED BY <2>2, <2>4, <2>5 DEF TasksKept
<1>5. CASE NextCopy(j)
  <2>1. mon'.pc = "visit"
    BY <1>5, NextCopyDrops DEF TasksFound, Finds, CoreInv
  <2>2. Pays
    BY <1>1, <1>3, <2>1, NothingLost DEF Begun, Kept, Condemned
  <2> QED BY <1>1, <2>1, <2>2, MonitorLeaves DEF TasksKept
<1>6. CASE mon' = [mon EXCEPT !.pc = "condemn", !.job = j] /\ (~Known(g) \/ Spend("rpc"))
  <2>1. mon'.pc = "condemn" /\ mon'.job = j /\ mon'.snap = mon.snap
    BY <1>1, <1>6 DEF MonState
  <2>2. \A h \in Gid \ {g} : Fades(h) /\ (Begun(h) => Kept(h)') /\ ~Condemned(h)'
    BY <1>1, <1>2, <1>3, <2>1 DEF TasksFade, Begun, Kept, Condemned
  <2>3. Excess' \subseteq Excess \cup {g}
    BY <1>1, <2>2, KeptFrame
  <2>4. g \in Excess' => Spend("rpc")
    BY <1>1, <1>6 DEF Excess, Known, Live, TaskOf, TaskStatus
  <2>5. Pays
    BY <2>3, <2>4 DEF Pays
  <2> QED BY <1>1, <2>1, <2>5, MonitorLeaves DEF TasksKept
<1> QED BY <1>2, <1>4, <1>5, <1>6 DEF Poll

\* The row that stops naming a task as its download was condemned with it, or was seen
\* to have ended.
LEMMA EndsAccount ==
    ASSUME TasksFound, Fail \/ ApplyEnd \/ ApplyPaused
    PROVE  TasksKept
<1>1. /\ mon.pc \in {"fail", "apply"} /\ mon \in MonState /\ RowsOK /\ phase = "up" /\ Finds
      /\ UNCHANGED <<task, sched, cmd>>
      /\ mon.pc = "apply" => mon.status \notin {"downloading", "queued"}
  BY DEF Fail, ApplyEnd, ApplyPaused, MonAt, restUnchanged, TasksFound, Finds, CoreInv, MonOK, SharedOK
<1>2. PICK j \in Job : j = mon.job
  BY <1>1 DEF Finds, CoreInv, MonOK
<1>3. row[j] = mon.snap[j] /\ row[j].st = "downloading" /\ row[j] \in Row /\ row[j].eid \in Gid
  <2>1. mon.snap[j] # Absent
    BY <1>1, <1>2 DEF Finds, CoreInv, MonOK
  <2> QED BY <1>1, <2>1, CopyIsRow DEF RowsOK, GoodRow
<1>4. row'[j].eid = row[j].eid /\ \A k \in Job : k # j => row'[k] = row[k]
  <2> DEFINE r == row[j]
  <2>1. PICK st \in {"failed", "completed", "cancelled", "paused"} : Update(j, [r EXCEPT !.st = st])
    BY <1>1, <1>2, <1>3 DEF Fail, ApplyEnd, ApplyPaused, Copy, Finds, Db
  <2>2. r \in Row /\ row[j].st \in JobStatus /\ r = row[j] /\ st \in JobStatus
    BY <1>3 DEF JobStatus
  <2> HIDE DEF r
  <2> QED BY <1>1, <2>1, <2>2, UpdateWrites
<1>5. mon'.pc = "visit"
  <2>1. NextCopy(j)
    BY <1>2 DEF Fail, ApplyEnd, ApplyPaused
  <2> QED BY <2>1, NextCopyDrops DEF TasksFound, Finds, CoreInv
<1>6. \A k \in Job : row'[k].eid = row[k].eid
  BY <1>4
<1>7. ~Live(row[j].eid) \/ Condemned(row[j].eid)
  BY <1>1, <1>2, <1>3 DEF TasksFound, EndIsSeen, Condemned
<1>8. Pays
  <2>1. TasksFade /\ \A g \in Gid : (Live(g)' => Live(g)) /\ (Begun(g) => Kept(g)') /\ ~Condemned(g)'
    BY <1>1, <1>5, TasksUnchanged DEF TasksFade, Fades, Begun, Kept, Condemned
  <2>2. \A g \in Gid, k \in Job :
            Live(g) /\ row[k] = [st |-> "downloading", eid |-> g] /\ ~Condemned(g) => row'[k] = row[k]
    BY <1>4, <1>7
  <2> QED BY <2>1, <2>2, NothingLost
<1> QED BY <1>1, <1>5, <1>6, <1>8, MonitorLeaves DEF TasksKept

LEMMA MonitorAccounts ==
    ASSUME TasksFound, MonitorStep
    PROVE  TasksKept
<1>1. CASE Tick \/ EndTick \/ Condemn \/ ApplyRunning \/ Persist
  <2>1. UNCHANGED <<task, sched, cmd>> /\ mon \in MonState /\ Finds /\ phase = "up" /\ RowsOK
    BY <1>1 DEF Tick, EndTick, Condemn, ApplyRunning, Persist, MonAt, restUnchanged, TasksFound, Finds, CoreInv, MonOK, SharedOK
  <2>2. mon.pc \in {"condemn", "apply", "persist"} => mon.job \in Job /\ row[mon.job] = mon.snap[mon.job]
                                                     /\ row[mon.job].st = "downloading"
    <3> SUFFICES ASSUME mon.pc \in {"condemn", "apply", "persist"}
                 PROVE  mon.job \in Job /\ row[mon.job] = mon.snap[mon.job] /\ row[mon.job].st = "downloading"
      OBVIOUS
    <3>1. PICK j \in Job : j = mon.job
      BY DEF Finds, CoreInv, MonOK, TasksFound
    <3>2. mon.snap[j] # Absent
      BY <3>1 DEF TasksFound, Finds, CoreInv, MonOK
    <3> QED BY <2>1, <3>1, <3>2, CopyIsRow
  <2>3. UNCHANGED row
    <3>1. CASE Persist
      <4>1. PICK j \in Job : j = mon.job
        BY <2>2, <3>1 DEF Persist, MonAt
      <4>2. row[j] = mon.snap[j] /\ row[j].st = "downloading" /\ row[j] \in Row
        BY <2>1, <2>2, <3>1, <4>1 DEF Persist, MonAt, RowsOK, GoodRow
      <4>3. [row[j] EXCEPT !.st = "downloading"] = row[j] /\ [row EXCEPT ![j] = row[j]] = row
        BY <2>1, <4>2 DEF Row, RowsOK
      <4> QED BY <3>1, <4>1, <4>2, <4>3 DEF Persist, Copy, Update, Db
    <3>2. CASE ~Persist
      BY <1>1, <3>2 DEF Tick, EndTick, Condemn, ApplyRunning
    <3> QED BY <3>1, <3>2
  <2>4. mon'.pc # "apply" /\ \A g : Condemned(g)' => Condemned(g)
    <3>1. CASE Tick \/ EndTick \/ ApplyRunning
      <4>1. mon'.pc \in {"visit", "idle", "persist"}
        <5>1. Tick => mon' = [mon EXCEPT !.pc = "visit", !.snap = activeJobs]
          BY DEF Tick
        <5>2. ApplyRunning => mon' = [mon EXCEPT !.pc = "persist"]
          BY DEF ApplyRunning
        <5>3. EndTick => mon'.pc = "idle"
          BY Records DEF EndTick
        <5> QED BY <2>1, <3>1, <5>1, <5>2, <5>3 DEF MonState
      <4> QED BY <4>1 DEF Condemned
    <3>2. CASE Condemn
      <4>1. mon.pc = "condemn" /\ mon' = [mon EXCEPT !.pc = "fail"]
        BY <2>2, <3>2 DEF Condemn, MonAt
      <4> QED BY <2>1, <4>1 DEF MonState, Condemned
    <3>3. CASE Persist
      <4>1. mon.job \in Job /\ NextCopy(mon.job)
        BY <2>2, <3>3 DEF Persist, MonAt
      <4> QED BY <4>1, NextCopyDrops DEF TasksFound, Finds, CoreInv, Condemned
    <3> QED BY <1>1, <3>1, <3>2, <3>3
  <2>5. TasksHaveJobs' /\ EndIsSeen' /\ TasksFade
    BY <2>1, <2>3, <2>4, MonitorLeaves
  <2>6. Pays
    <3>1. \A g \in Gid : Begun(g) => Kept(g)'
      BY <2>1 DEF Begun, Kept
    <3> QED BY <2>3, <2>4, <2>5, <3>1, NothingLost
  <2> QED BY <2>5, <2>6 DEF TasksKept
<1> QED BY <1>1, PollAccounts, EndsAccount DEF MonitorStep
------------------------------------------------------------------------------
\* The commands: while one runs, nobody dispatches and nothing is condemned.

LEMMA CommandAccounts ==
    ASSUME TasksFound, phase = "up", AtRest, elseUnchanged, TasksFade, EndIsSeen',
           \A j \in Job : row'[j].eid \in {row[j].eid, NoGid},
           \A g \in Gid, j \in Job : Live(g)' /\ row[j] = [st |-> "downloading", eid |-> g] => row'[j] = row[j]
    PROVE  TasksKept
<1>1. UNCHANGED <<sched, mon>> /\ sched.pc = "idle" /\ mon.pc = "idle"
  BY DEF elseUnchanged, AtRest
<1>2. TasksHaveJobs'
  BY <1>1, JobsFrame
<1>3. \A g \in Gid : ~Begun(g) /\ ~Condemned(g)'
  BY <1>1 DEF Begun, Condemned
<1>4. Pays
  BY <1>3, NothingLost
<1> QED BY <1>2, <1>4 DEF TasksKept

\* The task of a download is asked for before anything is written.
LEMMA BeginAccounts ==
    ASSUME TasksFound, NEW c \in Client, Request(c)
    PROVE  TasksKept
<1> PICK j \in Job : BeginCreate(c, j) \/ \E op \in {"pause", "resume", "cancel", "retry", "run_now", "delete"} : Begin(c, op, j)
  BY DEF Request
<1>1. /\ phase = "up" /\ AtRest /\ elseUnchanged /\ UNCHANGED <<row, task, mon>> /\ RowsOK
      /\ cmd \in [Client -> CmdState]
  BY DEF BeginCreate, Begin, CmdAt, TasksFound, Finds, Quiet, AtRest, elseUnchanged, CoreInv, SharedOK, CmdOK
<1>2. \A d \in Client : cmd'[d] = cmd[d] \/ ~Seeing(cmd'[d])
  <2>1. CASE BeginCreate(c, j)
    <3>1. cmd' = [cmd EXCEPT ![c] =
              [CmdIdle EXCEPT !.pc = "enqueue", !.op = "create", !.job = j, !.action = "start",
                              !.j = [st |-> "queued", eid |-> NoGid]]]
      BY <2>1 DEF BeginCreate
    <3>2. cmd'[c].op = "create" /\ \A d \in Client \ {c} : cmd'[d] = cmd[d]
      BY <1>1, <3>1 DEF CmdIdle
    <3> QED BY <3>2 DEF Seeing
  <2>2. ASSUME NEW op \in {"pause", "resume", "cancel", "retry", "run_now", "delete"}, Begin(c, op, j)
        PROVE  ~Seeing(cmd'[c]) /\ \A d \in Client \ {c} : cmd'[d] = cmd[d]
    <3>1. cmd' = [cmd EXCEPT ![c] =
              [CmdIdle EXCEPT !.pc = FirstCall(op, row[j]), !.op = op, !.job = j, !.j = row[j],
                              !.action = IF op = "retry" THEN "start" ELSE "resume"]]
      BY <2>2 DEF Begin
    <3>2. cmd'[c].pc = FirstCall(op, row[j]) /\ cmd'[c].op = op /\ cmd'[c].j = row[j]
          /\ \A d \in Client \ {c} : cmd'[d] = cmd[d]
      BY <1>1, <3>1 DEF CmdIdle
    <3>3. row[j].st = "downloading" => row[j].eid # NoGid
      BY <1>1, Records DEF RowsOK, GoodRow
    <3>4. op \in {"pause", "cancel"} /\ row[j].st = "downloading" => FirstCall(op, row[j]) = "engine"
      BY <3>3 DEF FirstCall
    <3> QED BY <3>2, <3>4 DEF Seeing
  <2> QED BY <2>1, <2>2
<1>3. TasksFade
  BY <1>1, TasksUnchanged
<1>4. EndIsSeen'
  BY <1>1, <1>2, <1>3, EndFrame
<1> QED BY <1>1, <1>3, <1>4, CommandAccounts

LEMMA CallEngineAccounts ==
    ASSUME TasksFound, NEW c \in Client, CallEngine(c)
    PROVE  TasksKept
<1>1. phase = "up" /\ elseUnchanged /\ cmd[c].pc = "engine" /\ UNCHANGED <<row, mon>> /\ TasksOK
      /\ cmd \in [Client -> CmdState]
  BY DEF CallEngine, CmdAt, elseUnchanged, TasksFound, Finds, CoreInv, SharedOK, CmdOK
<1>2. AtRest /\ cmd[c].j.eid \in Gid \cup {NoGid}
  BY <1>1, AtWork DEF TasksFound, CmdState, GoodRow, Row
<1>3. PICK g \in Gid \cup {NoGid} : g = cmd[c].j.eid
  BY <1>2
<1>4. ASSUME NEW st \in {"paused", "removed"}, Live(g) \/ TaskOf(g) = "paused", SetTask(g, st)
      PROVE  TasksFade /\ ~Live(g)'
  <2>1. g \in Gid /\ task[g].st # "unused"
    BY <1>4 DEF Live, TaskOf
  <2>2. TasksFade
    BY <1>1, <1>4, <2>1, SetTaskFades
  <2>3. task'[g].st = st
    BY <1>1, <1>4, <2>1 DEF SetTask, TasksOK, Task
  <2> QED BY <2>1, <2>2, <2>3, Records DEF Live, TaskOf
<1>5. CASE Finish(c)
  <2>1. TasksFade
    BY <1>3, <1>4, <1>5, TasksUnchanged DEF CallEngine
  <2>2. \A d \in Client : cmd'[d] = cmd[d] \/ ~Seeing(cmd'[d])
    BY <1>1, <1>5, Records DEF Finish, Seeing
  <2>3. EndIsSeen'
    BY <1>1, <2>1, <2>2, EndFrame
  <2> QED BY <1>1, <1>2, <2>1, <2>3, CommandAccounts
<1>6. CASE ~Finish(c)
  <2>1. TasksFade /\ ~Live(g)' /\ \E p \in {"enqueue", "update"} : CmdGoto(c, p)
    BY <1>3, <1>4, <1>6 DEF CallEngine
  <2>2. cmd'[c].j.eid = g /\ \A d \in Client \ {c} : cmd'[d] = cmd[d]
    BY <1>1, <1>3, <2>1 DEF CmdGoto, CmdState
  <2>3. \A d \in Client \ {c} : ~Seeing(cmd[d])
    BY <1>1, AtWork DEF TasksFound, Seeing
  <2>4. EndIsSeen'
    BY <1>1, <1>2, <2>1, <2>2, <2>3 DEF EndIsSeen, Seeing, AtRest, Live, TaskOf
  <2> QED BY <1>1, <1>2, <2>1, <2>4, CommandAccounts
<1> QED BY <1>5, <1>6

\* No later call touches a task, and the row of a download is written only once its task
\* does not run any more.
LEMMA CallsAccount ==
    ASSUME TasksFound, NEW c \in Client, CommandCall(c), ~CallEngine(c)
    PROVE  TasksKept
<1>1. phase = "up" /\ elseUnchanged /\ cmd[c].pc # "idle" /\ UNCHANGED <<task, mon>> /\ RowsOK
      /\ cmd \in [Client -> CmdState]
  BY DEF CommandCall, GetEntry, Enqueue, Insert, WriteStatus, Undo, Dequeue, Cascade, CmdAt, elseUnchanged,
     TasksFound, Finds, CoreInv, SharedOK, CmdOK
<1>2. AtRest /\ CommandReads(cmd[c]) /\ cmd[c] \in CmdState /\ Finds
  BY <1>1, AtWork DEF TasksFound
<1>3. PICK j \in Job : j = cmd[c].job
  BY <1>1, AtWork DEF TasksFound
<1>4. TasksFade
  BY <1>1, TasksUnchanged
<1>5. \A d \in Client : cmd'[d] = cmd[d] \/ ~Seeing(cmd'[d]) \/ (Seeing(cmd[d]) /\ cmd'[d].j = cmd[d].j)
  <2>1. CASE Finish(c)
    BY <1>1, <2>1, Records DEF Finish, Seeing
  <2>2. CASE \E p \in {"insert", "dequeue", "undo"} : CmdGoto(c, p)
    BY <1>1, <2>2 DEF CmdGoto, Seeing, CmdState
  <2>3. CASE Enqueue(c) /\ CmdGoto(c, "update")
    <3>1. cmd'[c] = [cmd[c] EXCEPT !.pc = "update"] /\ \A d \in Client \ {c} : cmd'[d] = cmd[d]
      BY <1>1, <2>3 DEF CmdGoto
    <3>2. cmd'[c].op = cmd[c].op /\ cmd'[c].j = cmd[c].j
      BY <1>2, <3>1 DEF CmdState
    <3> QED BY <2>3, <3>1, <3>2 DEF Enqueue, CmdAt, Seeing
  <2>4. CASE GetEntry(c)
    <3>1. cmd[c].op \in {"resume", "run_now"}
      BY <1>2, <2>4 DEF GetEntry, CmdAt, CommandReads
    <3>2. Finish(c) \/ \E a : cmd' = [cmd EXCEPT ![c].pc = "enqueue", ![c].action = a]
      BY <2>4 DEF GetEntry
    <3>3. ASSUME NEW a, cmd' = [cmd EXCEPT ![c].pc = "enqueue", ![c].action = a]
          PROVE  cmd'[c].op = cmd[c].op /\ \A d \in Client \ {c} : cmd'[d] = cmd[d]
      <4>1. cmd'[c] = [cmd[c] EXCEPT !.pc = "enqueue", !.action = a] /\ \A d \in Client \ {c} : cmd'[d] = cmd[d]
        BY <1>1, <3>3
      <4> QED BY <1>2, <4>1 DEF CmdState
    <3> QED BY <2>1, <3>1, <3>2, <3>3 DEF Seeing
  <2> QED BY <1>2, <2>1, <2>2, <2>3, <2>4 DEF CommandCall, Enqueue, Insert, WriteStatus, Undo, Dequeue, Cascade, Finds
<1>6. EndIsSeen'
  BY <1>1, <1>4, <1>5, EndFrame
<1>7. CASE WriteStatus(c)
  <2>1. /\ row[j] = cmd[c].j /\ row'[j].eid = row[j].eid /\ \A k \in Job : k # j => row'[k] = row[k]
        /\ cmd[c].op \in {"pause", "resume", "retry", "run_now", "cancel"} /\ Allowed(cmd[c].op, row[j].st)
        /\ row[j].st \in JobStatus /\ cmd[c].pc = "update"
    BY <1>2, <1>3, <1>7, StatusIsWritten DEF WriteStatus, CmdAt
  <2>2. row[j].st = "downloading" => Seeing(cmd[c])
    BY <2>1, WhoIsAllowed DEF Seeing
  <2>3. row[j].st = "downloading" => ~Live(row[j].eid)
    BY <2>1, <2>2 DEF TasksFound, EndIsSeen, Seeing
  <2>4. \A g \in Gid, k \in Job : Live(g)' /\ row[k] = [st |-> "downloading", eid |-> g] => row'[k] = row[k]
    BY <1>4, <2>1, <2>3 DEF TasksFade, Fades
  <2>5. \A k \in Job : row'[k].eid \in {row[k].eid, NoGid}
    BY <2>1
  <2> QED BY <1>1, <1>2, <1>4, <1>6, <2>4, <2>5, CommandAccounts
<1>8. CASE Insert(c) \/ Cascade(c)
  <2>1. row' = [row EXCEPT ![j] = Gone] \/ UNCHANGED row
        \/ (row' = [row EXCEPT ![j] = cmd[c].j] /\ cmd[c].pc = "insert")
    BY <1>3, <1>8 DEF Insert, Cascade, CmdAt
  <2>2. row[j].st # "downloading"
    <3>1. CASE Insert(c)
      BY <1>2, <1>3, <3>1 DEF Insert, CmdAt, CommandReads
    <3>2. CASE Cascade(c)
      <4>1. row[j] = cmd[c].j /\ row[j].st \in JobStatus /\ Allowed("delete", row[j].st)
        BY <1>2, <1>3, <3>2 DEF Cascade, CmdAt, CommandReads, Reading
      <4> QED BY <4>1, WhoIsAllowed
    <3> QED BY <1>8, <3>1, <3>2
  <2>3. row'[j].eid \in {row[j].eid, NoGid} /\ \A k \in Job : k # j => row'[k] = row[k]
    <3>1. cmd[c].pc = "insert" => cmd[c].j.eid = NoGid
      BY <1>2 DEF CommandReads
    <3> QED BY <1>1, <2>1, <3>1 DEF RowsOK, Gone
  <2>4. \A g \in Gid, k \in Job : row[k] = [st |-> "downloading", eid |-> g] => row'[k] = row[k]
    BY <2>2, <2>3
  <2>5. \A k \in Job : row'[k].eid \in {row[k].eid, NoGid}
    BY <2>3
  <2> QED BY <1>1, <1>2, <1>4, <1>6, <2>4, <2>5, CommandAccounts
<1>9. CASE GetEntry(c) \/ Enqueue(c) \/ Undo(c) \/ Dequeue(c)
  <2>1. UNCHANGED row
    BY <1>9 DEF GetEntry, Enqueue, Undo, Dequeue
  <2> QED BY <1>1, <1>2, <1>4, <1>6, <2>1, CommandAccounts
<1> QED BY <1>7, <1>8, <1>9 DEF CommandCall
------------------------------------------------------------------------------
\* Crash, recovery and the engine.

\* What a dispatch had begun is forgotten.
LEMMA CrashAccounts ==
    ASSUME TasksFound, Crash
    PROVE  TasksKept
<1>1. UNCHANGED row /\ sched'.pc = "idle" /\ mon'.pc = "idle" /\ Spend("crash") /\ TasksOK
      /\ \A c \in Client : cmd'[c] = CmdIdle
  BY Records DEF Crash, TasksFound, Finds, CoreInv, SharedOK
<1>2. TasksFade
  <2>1. CASE UNCHANGED task
    BY <2>1, TasksUnchanged
  <2>2. CASE task' = [g \in Gid |-> IF Known(g) THEN [task[g] EXCEPT !.st = "gone"] ELSE task[g]]
    <3> SUFFICES ASSUME NEW g \in Gid PROVE Fades(g)
      BY DEF TasksFade
    <3>1. CASE Known(g)
      <4>1. task'[g] = [task[g] EXCEPT !.st = "gone"] /\ task[g].st # "unused"
        BY <2>2, <3>1, Records DEF Known, TaskOf, TaskStatus
      <4>2. task'[g].st = "gone" /\ task'[g].job = task[g].job
        BY <1>1, <4>1 DEF TasksOK, Task
      <4> QED BY <4>1, <4>2, Records DEF Fades, Live, TaskOf
    <3>2. CASE ~Known(g)
      <4>1. task'[g] = task[g]
        BY <2>2, <3>2
      <4> QED BY <4>1 DEF Fades, Live, TaskOf
    <3> QED BY <3>1, <3>2
  <2> QED BY <2>1, <2>2 DEF Crash
<1>3. TasksHaveJobs'
  BY <1>1, <1>2, JobsFrame
<1>4. EndIsSeen'
  BY <1>1, <1>2, EndFrame DEF Seeing, CmdIdle
<1>5. Pays
  <2>1. \A g \in Gid \ {sched.j.eid} : Fades(g) /\ ~Begun(g) /\ ~Condemned(g)'
    BY <1>1, <1>2 DEF TasksFade, Begun, Condemned
  <2>2. Excess' \subseteq Excess \cup {sched.j.eid}
    BY <1>1, <2>1, KeptFrame
  <2> QED BY <1>1, <2>2 DEF Pays
<1> QED BY <1>3, <1>4, <1>5 DEF TasksKept

\* Recovery takes a job off the downloads whose task does not run, or does not answer.
LEMMA RecoveryAccounts ==
    ASSUME TasksFound, RecoveryStep
    PROVE  TasksKept
<1>1. UNCHANGED <<task, sched, cmd, mon>> /\ AtRest /\ Finds
  BY DEF RecoveryStep, Restart, Serve, RecoverJob, procVars, TasksFound, Finds, CopiesAreRows, Alone
<1>2. TasksFade
  BY <1>1, TasksUnchanged
<1>3. EndIsSeen'
  BY <1>1, <1>2, EndFrame
<1>4. \A g \in Gid : ~Begun(g) /\ ~Condemned(g)'
  BY <1>1 DEF Begun, Condemned, AtRest
<1>5. CASE UNCHANGED row
  <2>1. TasksHaveJobs'
    BY <1>1, <1>2, <1>5, JobsFrame
  <2>2. Pays
    BY <1>2, <1>4, <1>5, NothingLost
  <2> QED BY <1>3, <2>1, <2>2 DEF TasksKept
<1>6. ASSUME NEW i \in Job, RecoverJob(i)
      PROVE  TasksKept
  <2>1. PICK st \in Recovered : RecoversTo(i, st)
    BY <1>1, <1>6, RecoverJobWrites
  <2>2. row[i].st = "downloading" /\ row[i] \in Row /\ row[i].eid \in Gid /\ RowsOK
    BY <1>1, <1>6 DEF RecoverJob, Finds, CopiesAreRows, RecoveryReads, CoreInv, SharedOK, RowsOK, GoodRow
  <2> DEFINE r == row[i]
  <2>3. r \in Row /\ row[i].st \in JobStatus /\ Update(i, [r EXCEPT !.st = st]) /\ st \in JobStatus /\ r = row[i]
    BY <2>1, <2>2 DEF RecoversTo, Recovered, JobStatus
  <2> HIDE DEF r
  <2>4. row'[i].st = st /\ row'[i].eid = row[i].eid /\ \A k \in Job : k # i => row'[k] = row[k]
    BY <2>2, <2>3, UpdateWrites
  <2>5. TasksHaveJobs'
    BY <1>1, <1>2, <2>4, JobsFrame
  <2>6. CASE st = "downloading"
    <3>1. row'[i] = row[i]
      <4>1. row'[i] = [r EXCEPT !.st = st]
        BY <2>2, <2>3, UpdateWrites
      <4> QED BY <2>2, <2>3, <2>6, <4>1 DEF Row
    <3>2. Pays
      BY <1>2, <1>4, <2>4, <3>1, NothingLost
    <3> QED BY <1>3, <2>5, <3>2 DEF TasksKept
  <2>7. CASE st # "downloading"
    <3>1. ~Live(row[i].eid) \/ Spend("rpc")
      BY <2>1, <2>7 DEF RecoversTo
    <3>2. PICK n \in Gid : n = row[i].eid
      BY <2>2
    <3>3. \A g \in Gid \ {n} : Fades(g) /\ ~Begun(g) /\ ~Condemned(g)'
      BY <1>2, <1>4 DEF TasksFade
    <3>4. \A g \in Gid \ {n}, k \in Job : row[k] = [st |-> "downloading", eid |-> g] => row'[k] = row[k]
      BY <2>4, <3>2
    <3>5. Excess' \subseteq Excess \cup {n}
      BY <3>3, <3>4, KeptFrame
    <3>6. n \in Excess' => Spend("rpc")
      BY <1>2, <3>1, <3>2 DEF Excess, TasksFade, Fades
    <3>7. Pays
      BY <3>5, <3>6 DEF Pays
    <3> QED BY <1>3, <2>5, <3>7 DEF TasksKept
  <2> QED BY <2>6, <2>7
<1> QED BY <1>5, <1>6 DEF RecoveryStep, Restart, Serve

LEMMA IdleAccounts ==
    ASSUME TasksFound, EngineStep \/ RetryFires \/ UNCHANGED coreVars
    PROVE  TasksKept
<1>1. UNCHANGED <<row, sched, cmd, mon>> /\ TasksOK
  BY DEF EngineStep, TaskStarts, TaskEnds, TaskLost, EngineMoves, durableVars, memoryVars, procVars, startVars,
     RetryFires, othersUnchanged, coreVars, TasksFound, Finds, CoreInv, SharedOK
<1>2. TasksFade
  <2>1. CASE UNCHANGED task
    BY <2>1, TasksUnchanged
  <2>2. ASSUME NEW g \in Gid, TaskStarts(g)
        PROVE  FALSE
    BY <2>2, Records DEF TaskStarts, TaskOf, TasksFound, Finds, CopiesAreRows, NothingWaits
  <2>3. ASSUME NEW g \in Gid, TaskEnds(g) \/ TaskLost(g)
        PROVE  TasksFade
    <3>1. task[g].st # "unused" /\ \E st \in {"complete", "error", "gone"} : SetTask(g, st)
      BY <2>3, Records DEF TaskEnds, TaskLost, EngineMoves, TaskOf, Known, TaskStatus
    <3> QED BY <1>1, <3>1, SetTaskFades
  <2> QED BY <2>1, <2>2, <2>3 DEF EngineStep, RetryFires, coreVars
<1>3. TasksHaveJobs'
  BY <1>1, <1>2, JobsFrame
<1>4. EndIsSeen'
  BY <1>1, <1>2, EndFrame
<1>5. Pays
  <2>1. \A g \in Gid : (Begun(g) => Kept(g)') /\ (Condemned(g)' => Condemned(g))
    BY <1>1 DEF Begun, Kept, Condemned
  <2> QED BY <1>1, <1>2, <2>1, NothingLost
<1> QED BY <1>3, <1>4, <1>5 DEF TasksKept

LEMMA StepAccounts ==
    ASSUME TasksFound, [CoreNext]_coreVars
    PROVE  TasksKept
<1>1. ASSUME NEW c \in Client, Request(c) \/ CommandCall(c)
      PROVE  TasksKept
  BY <1>1, BeginAccounts, CallEngineAccounts, CallsAccount
<1> QED BY <1>1, SchedulerAccounts, MonitorAccounts, RecoveryAccounts, CrashAccounts, IdleAccounts DEF CoreNext
------------------------------------------------------------------------------
\* The bill.

LEMMA BudgetNeverGrows ==
    ASSUME BudgetOK, BudgetSpent, CoreNext \/ UNCHANGED budget
    PROVE  /\ BudgetSpent'
           /\ \A kind \in DOMAIN Budget : budget'[kind] \in Nat /\ budget'[kind] <= budget[kind]
           /\ \A kind \in Faults : Spend(kind) => budget'[kind] = budget[kind] - 1
<1>1. DOMAIN budget = DOMAIN Budget /\ Faults \subseteq DOMAIN Budget /\ "any" \in DOMAIN Budget /\ "any" \notin Faults
      /\ \A kind \in DOMAIN Budget : budget[kind] \in Nat /\ Budget[kind] \in Nat
  BY DEF CoreAssumptions, BudgetOK, Faults
<1>2. ASSUME NEW kind \in Faults, Spend(kind)
      PROVE  /\ budget'[kind] = budget[kind] - 1
             /\ \A k \in DOMAIN Budget : budget'[k] \in Nat /\ budget'[k] <= budget[k]
  <2>1. budget' = [budget EXCEPT ![kind] = @ - 1, !.any = @ - 1] /\ budget[kind] > 0 /\ budget["any"] > 0
    BY <1>2 DEF Spend
  <2>2. \A k \in DOMAIN Budget : budget'[k] = IF k \in {kind, "any"} THEN budget[k] - 1 ELSE budget[k]
    BY <1>1, <2>1
  <2>3. ASSUME NEW k \in DOMAIN Budget
        PROVE  budget'[k] \in Nat /\ budget'[k] <= budget[k]
    <3>1. budget[k] \in Nat /\ (k \in {kind, "any"} => budget[k] > 0)
      BY <1>1, <2>1
    <3> QED BY <2>2, <3>1
  <2>4. budget'[kind] = budget[kind] - 1
    BY <1>1, <2>2
  <2> QED BY <2>3, <2>4
<1>3. UNCHANGED budget \/ \E kind \in Faults : Spend(kind)
  BY BudgetSteps
<1>4. \A kind \in DOMAIN Budget : budget'[kind] \in Nat /\ budget'[kind] <= budget[kind]
  BY <1>1, <1>2, <1>3
<1>5. BudgetSpent'
  BY <1>1, <1>4 DEF BudgetSpent
<1> QED BY <1>2, <1>4, <1>5

LEMMA ExcessIsFinite == IsFiniteSet(Excess) /\ IsFiniteSet(Excess)'
<1>1. IsFiniteSet(Gid)
  BY FS_Interval DEF Gid
<1>2. Excess \subseteq Gid /\ Excess' \subseteq Gid
  BY DEF Excess
<1> QED BY <1>1, <1>2, FS_Subset

StrayInv == SerialInv /\ FaultsArePaid

LEMMA StrayStep == WaitingUser /\ StrayInv /\ [CoreNext]_coreVars => StrayInv'
<1> SUFFICES ASSUME WaitingUser, StrayInv, [CoreNext]_coreVars PROVE StrayInv'
  OBVIOUS
<1>1. SerialInv' /\ Finds /\ FaultsArePaid /\ BudgetOK
  BY SerialStep, SerialFinds DEF StrayInv, SerialInv, WakeInv, CoreInv, SharedOK
<1>2. TasksKept
  BY <1>1, StepAccounts DEF FaultsArePaid, TasksFound
<1>3. /\ BudgetSpent'
      /\ \A kind \in DOMAIN Budget : budget'[kind] \in Nat /\ budget'[kind] <= budget[kind]
      /\ \A kind \in Faults : Spend(kind) => budget'[kind] = budget[kind] - 1
  BY <1>1, BudgetNeverGrows DEF FaultsArePaid, coreVars
<1>4. {"rpc", "crash"} \subseteq DOMAIN Budget /\ {"rpc", "crash"} \subseteq Faults
      /\ budget["rpc"] \in Nat /\ budget["crash"] \in Nat /\ Budget["rpc"] \in Nat /\ Budget["crash"] \in Nat
  BY <1>1 DEF CoreAssumptions, BudgetOK, Faults
<1>5. phase' # "up" => budget'["crash"] < Budget["crash"]
  <2>1. phase # "up" \/ phase' = "up" \/ Crash
    <3>1. CASE SchedulerStep \/ RetryFires
      BY <3>1 DEF SchedulerStep, Wake, StartReconcile, List, Fetch, DropEntry, Entry, Load, LostEntry, Start,
         Limits, Resume, Started, Activate, Refuse, Refused, Failed, Reconcile, RsWrite, RsDelete, RxStatus, RxWrite,
         RxDelete, EndReconcile, RetryFires, othersUnchanged
    <3>2. CASE MonitorStep
      BY <3>2 DEF MonitorStep, Tick, EndTick, Poll, Condemn, Fail, ApplyEnd, ApplyPaused, ApplyRunning, Persist, restUnchanged
    <3>3. CASE RecoveryStep
      BY <3>3 DEF RecoveryStep, Restart, Serve, RecoverJob, startVars
    <3>4. CASE EngineStep
      BY <3>4 DEF EngineStep, TaskStarts, TaskEnds, TaskLost, EngineMoves, startVars
    <3>5. ASSUME NEW c \in Client, Request(c) PROVE phase' = phase
      BY <3>5 DEF Request, Begin, BeginCreate, elseUnchanged
    <3>6. ASSUME NEW c \in Client, CommandCall(c) PROVE phase' = phase
      BY <3>6 DEF CommandCall, CallEngine, GetEntry, Enqueue, Insert, WriteStatus, Undo, Dequeue, Cascade, elseUnchanged
    <3>7. CASE UNCHANGED coreVars
      BY <3>7 DEF coreVars, startVars
    <3> QED BY <3>1, <3>2, <3>3, <3>4, <3>5, <3>6, <3>7 DEF CoreNext
  <2>2. Crash => Spend("crash")
    BY DEF Crash
  <2>3. budget["crash"] <= Budget["crash"]
    BY <1>1, <1>4 DEF FaultsArePaid, BudgetSpent
  <2> QED BY <1>1, <1>3, <1>4, <2>1, <2>2, <2>3 DEF FaultsArePaid
<1>6. Cardinality(Excess)' <= (Budget["rpc"] - budget'["rpc"]) + (Budget["crash"] - budget'["crash"])
  <2>1. PICK x : /\ Excess' \subseteq Excess \cup {x}
                 /\ x \in Excess' => x \in Excess \/ Spend("rpc") \/ Spend("crash")
    BY <1>2 DEF TasksKept, Pays
  <2>2. Cardinality(Excess) <= (Budget["rpc"] - budget["rpc"]) + (Budget["crash"] - budget["crash"])
        /\ Cardinality(Excess) \in Nat /\ Cardinality(Excess') \in Nat
        /\ budget'["rpc"] <= budget["rpc"] /\ budget'["crash"] <= budget["crash"]
        /\ budget'["rpc"] \in Nat /\ budget'["crash"] \in Nat
    BY <1>1, <1>3, <1>4, ExcessIsFinite, FS_CardinalityType DEF FaultsArePaid
  <2>3. CASE Excess' \subseteq Excess
    <3>1. Cardinality(Excess') <= Cardinality(Excess)
      BY <2>3, ExcessIsFinite, FS_Subset
    <3> QED BY <1>4, <2>2, <3>1
  <2>4. CASE ~(Excess' \subseteq Excess)
    <3>1. Spend("rpc") \/ Spend("crash")
      BY <2>1, <2>4
    <3>2. Cardinality(Excess') <= Cardinality(Excess) + 1
      <4>1. IsFiniteSet(Excess \cup {x}) /\ Cardinality(Excess \cup {x}) <= Cardinality(Excess) + 1
        <5>1. /\ IsFiniteSet(Excess \cup {x})
              /\ Cardinality(Excess \cup {x}) = IF x \in Excess THEN Cardinality(Excess) ELSE Cardinality(Excess) + 1
          BY ExcessIsFinite, FS_AddElement
        <5> QED BY <2>2, <5>1
      <4>2. Cardinality(Excess') <= Cardinality(Excess \cup {x}) /\ Cardinality(Excess \cup {x}) \in Nat
        BY <2>1, <4>1, FS_Subset, FS_CardinalityType
      <4> QED BY <2>2, <4>1, <4>2
    <3>3. budget'["rpc"] = budget["rpc"] - 1 \/ budget'["crash"] = budget["crash"] - 1
      BY <1>3, <1>4, <3>1
    <3> QED BY <1>4, <2>2, <3>2, <3>3
  <2> QED BY <2>3, <2>4
<1> QED BY <1>1, <1>2, <1>3, <1>5, <1>6 DEF StrayInv, FaultsArePaid, TasksKept

LEMMA StraysAlways == WaitingUser /\ CoreSpec => []StrayInv
<1> SUFFICES ASSUME WaitingUser PROVE CoreSpec => []StrayInv
  OBVIOUS
<1>1. CoreInit => StrayInv
  <2> SUFFICES ASSUME CoreInit PROVE StrayInv
    OBVIOUS
  <2>1. /\ \A j \in Job : row[j] = Absent
        /\ \A g \in Gid : task[g].st = "unused"
        /\ sched = SchedIdle /\ mon = MonIdle /\ cmd = [c \in Client |-> CmdIdle]
        /\ phase = "up" /\ budget = Budget
    BY DEF CoreInit
  <2>2. TasksHaveJobs
    BY <2>1, Records DEF TasksHaveJobs, Begun, Absent
  <2>3. EndIsSeen
    BY <2>1, Records DEF EndIsSeen
  <2>4. /\ \A kind \in DOMAIN Budget : Budget[kind] \in Nat
        /\ "rpc" \in DOMAIN Budget /\ "crash" \in DOMAIN Budget
    BY DEF CoreAssumptions
  <2>5. BudgetSpent
    BY <2>1, <2>4 DEF BudgetSpent
  <2>6. Excess = {}
    BY <2>1, Records DEF Excess, Live, TaskOf
  <2>7. Cardinality(Excess) <= (Budget["rpc"] - budget["rpc"]) + (Budget["crash"] - budget["crash"])
    BY <2>1, <2>4, <2>6, FS_EmptySet
  <2> QED BY <2>1, <2>2, <2>3, <2>5, <2>7, SerialInit DEF StrayInv, FaultsArePaid
<1>2. StrayInv /\ [CoreNext]_coreVars => StrayInv'
  BY StrayStep
<1> QED BY <1>1, <1>2, PTL DEF CoreSpec
------------------------------------------------------------------------------
\* A fault costs at most one stray download: with nothing going on, no more tasks run
\* whose job is over, or whose job's row names another, than engine calls have failed
\* and processes have died, whatever the commands did in between.
THEOREM FaultsCostOneStray == WaitingUser /\ CoreSpec => []StraysPerFault
<1> SUFFICES ASSUME WaitingUser PROVE CoreSpec => []StraysPerFault
  OBVIOUS
<1>1. StrayInv => StraysPerFault
  <2> SUFFICES ASSUME StrayInv, Settled
               PROVE  Cardinality({g \in Gid : Stray(g)})
                          <= Spent("db") + Spent("rpc") + Spent("disk") + Spent("crash")
    BY DEF StraysPerFault
  <2>1. {g \in Gid : Stray(g)} \subseteq Excess
    <3> SUFFICES ASSUME NEW g \in Gid, Stray(g), Kept(g) PROVE FALSE
      BY DEF Excess, Stray
    <3>1. ~Begun(g)
      BY DEF Begun, Settled, Quiet
    <3> QED BY <3>1 DEF Kept, Stray
  <2>2. Cardinality({g \in Gid : Stray(g)}) <= Cardinality(Excess)
    BY <2>1, ExcessIsFinite, FS_Subset
  <2>3. Cardinality({g \in Gid : Stray(g)}) \in Nat /\ Cardinality(Excess) \in Nat
    BY <2>1, ExcessIsFinite, FS_Subset, FS_CardinalityType
  <2>4. /\ \A kind \in {"db", "rpc", "disk", "crash"} :
               Budget[kind] \in Nat /\ budget[kind] \in Nat /\ budget[kind] <= Budget[kind]
        /\ Cardinality(Excess) <= (Budget["rpc"] - budget["rpc"]) + (Budget["crash"] - budget["crash"])
    BY DEF StrayInv, FaultsArePaid, BudgetSpent, SerialInv, WakeInv, CoreInv, SharedOK, BudgetOK, CoreAssumptions
  <2> QED BY <2>2, <2>3, <2>4 DEF Spent
<1> QED BY <1>1, StraysAlways, PTL

\* As long as nothing has failed, a job has one running task at most, and holds a permit
\* while it has one: starting, pausing, cancelling and retrying it, each in several calls,
\* never leaves a second one behind.
THEOREM TasksMatchPermits == WaitingUser /\ CoreSpec => []OneTaskPerPermit
<1> SUFFICES ASSUME WaitingUser PROVE CoreSpec => []OneTaskPerPermit
  OBVIOUS
<1>1. StrayInv => OneTaskPerPermit
  <2> SUFFICES ASSUME StrayInv, Faultless, NEW j \in Job
               PROVE  Cardinality(LiveTasks(j)) <= 1 /\ (LiveTasks(j) # {} => held[j] # NoLease)
    BY DEF OneTaskPerPermit
  <2>1. budget["rpc"] = Budget["rpc"] /\ budget["crash"] = Budget["crash"]
        /\ Budget["rpc"] \in Nat /\ Budget["crash"] \in Nat
    BY DEF Faultless, CoreAssumptions
  <2>2. phase = "up"
    BY <2>1 DEF StrayInv, FaultsArePaid
  <2>3. Excess = {}
    <3>1. Cardinality(Excess) <= 0
      BY <2>1 DEF StrayInv, FaultsArePaid
    <3>2. Cardinality(Excess) \in Nat
      BY ExcessIsFinite, FS_CardinalityType
    <3>3. Cardinality(Excess) = 0
      BY <3>1, <3>2
    <3> QED BY <3>3, ExcessIsFinite, FS_EmptySet
  <2>4. CopiesAreRows /\ TasksHaveJobs
    BY DEF StrayInv, SerialInv, FaultsArePaid
  <2>5. ASSUME NEW g \in LiveTasks(j)
        PROVE  /\ held[j] # NoLease
               /\ \/ sched.pc \in {"limits", "started"} /\ sched.job = j /\ sched.j.eid = g /\ row[j].st = "queued"
                  \/ row[j].st = "downloading" /\ row[j].eid = g
    <3>1. g \in Gid /\ task[g].job = j /\ Kept(g)
      BY <2>3 DEF LiveTasks, Excess
    <3>2. CASE Begun(g)
      <4>1. sched.pc \in {"limits", "started"} /\ sched.job = j /\ sched.j.eid = g
        BY <2>4, <3>1, <3>2 DEF Begun, TasksHaveJobs
      <4> QED BY <2>4, <4>1 DEF CopiesAreRows, SchedulerReads, Dispatching, Copied
    <3>3. CASE row[j] = [st |-> "downloading", eid |-> g]
      <4>1. Tracked(j) \/ (sched.pc = "activate" /\ sched.job = j)
        BY <2>2, <2>4, <3>3 DEF CopiesAreRows, RowsWatched
      <4>2. held[j] # NoLease
        BY <2>2, <2>4, <4>1 DEF CopiesAreRows, TrackedRows, SchedulerReads, Dispatching
      <4> QED BY <3>3, <4>2
    <3> QED BY <3>1, <3>2, <3>3 DEF Kept
  <2>6. CASE LiveTasks(j) = {}
    BY <2>6, FS_EmptySet
  <2>7. CASE LiveTasks(j) # {}
    <3>1. PICK g : g \in LiveTasks(j)
      BY <2>7
    <3>2. LiveTasks(j) = {g}
      BY <2>5, <3>1
    <3> QED BY <2>5, <3>1, <3>2, FS_Singleton
  <2> QED BY <2>6, <2>7
<1> QED BY <1>1, StraysAlways, PTL
===============================================================================
