----------------------------- MODULE SeedingProofs -----------------------------
(***************************************************************************)
(* A torrent after the selection: nothing finished stays behind in the     *)
(* daemon, and what runs, seeds and holds a slot is what the user chose.   *)
(*                                                                         *)
(* Every process works on a copy of the job.  The history variable crossed *)
(* is set when the job changes under somebody's copy; as long as it is     *)
(* not, each copy still agrees with the tables, and that is the invariant. *)
(***************************************************************************)
EXTENDS TorrentSeeding, TLAPS

USE SeedingAssumptions

Pol == {"none", "unlimited", "ratio"}
Torrents == [here : BOOLEAN, files : SUBSET File, limit : {"unset", "unlimited", "ratio"}, st : DaemonState]
Rows == [st : Statuses, pending : BOOLEAN]
Memory == [in : BOOLEAN, st : Statuses, policy : Pol]

Starting == {"priorities", "prioritiesOn", "prioritiesOff", "verify", "limit", "enqueue"}
Calm == Starting \cup {"idle", "apply", "save", "tell", "rollback"}
Dispatching == {"start", "confirm", "speed", "running", "reconcile", "track", "undo", "refuse"}
Ticking == {"ask", "tickStops", "seedingSince", "seedingSaved", "seedingRow", "tickWrites"}
Places ==
    Calm \cup Dispatching \cup Ticking \cup Locked
    \cup {"stopLock", "finLock", "pauseQueued", "pauseDaemon", "pauseEntry", "pauseRow", "pauseForget", "resumeRow",
          "sweepRemove", "sweepClear", "tickPauses", "tickGone", "write", "bootLimit", "bootStatus"}
Ops == {"none", "start", "stop", "policy", "pause", "resume"}
Copies == [at : Places, op : Ops, st : Statuses, pending : BOOLEAN, policy : Pol, old : Pol,
           files : SUBSET File, seen : {"gone", "paused", "downloading", "seeding", "completed"}]

Tables ==
    /\ torrent \in Torrents /\ srow \in Rows /\ rec \in Pol /\ chosen \in SUBSET File
    /\ reached \in BOOLEAN /\ queue \in {"none", "start", "resume"} /\ permit \in BOOLEAN
    /\ active \in Memory /\ calls \in 0 .. MaxCalls /\ upsets \in 0 .. MaxUpsets
    /\ crossed \in BOOLEAN /\ foundSeeding \in BOOLEAN
CopiesTyped == p \in [Proc -> Copies]
LockHeld == \A x \in Proc : (p[x].at \in Locked) <=> (lock = x)

\* What a place says of its copy, and of the job, whoever else is at work.
FitsItsPlace(x) ==
    /\ p[x].at = "tickWrites" =>
           p[x].seen \in {"seeding", "downloading"} /\ (p[x].seen = "seeding" => p[x].st = "seeding")
    /\ p[x].at = "write" => p[x].st \in {"downloading", "paused", "seeding"}
    /\ p[x].at \in {"finClear", "sweepClear"} => ~torrent.here
    /\ srow.st = "awaiting_selection" => p[x].at \in Calm
    /\ x = S /\ p[x].st = "seeding" => foundSeeding

\* What a copy says of the job while nobody has changed it under the copy.
StillTrue(x) ==
    /\ p[x].at \in Starting => srow.st = "awaiting_selection"
    /\ p[x].at \in {"limit", "enqueue"} => torrent.files = p[x].files
    /\ p[x].at \in Dispatching \cup {"tell", "bootLimit", "bootStatus"} => p[x].policy = rec
    /\ p[x].at = "seedingSaved" => p[x].old = rec
    /\ p[x].at \in Ticking => active = [in |-> TRUE, st |-> p[x].st, policy |-> p[x].policy]

PlacesFit == \A x \in Proc : FitsItsPlace(x)
CopiesAreTrue == ~crossed => \A x \in Proc : StillTrue(x)
NobodyWatches == srow.st = "awaiting_selection" => ~active.in
FilesAreChosen == ~crossed /\ srow.st # "awaiting_selection" => torrent.files = chosen
SlotIsFree ==
    ~crossed /\ ~foundSeeding /\ active.in /\ active.st = "seeding" /\ permit => p[S].at \in Dispatching
PolicyIsTold == ~crossed /\ active.in /\ active.policy # rec => \E x \in Proc : p[x].at = "tell"

SeedInv ==
    /\ Tables /\ CopiesTyped /\ LockHeld /\ PlacesFit /\ CopiesAreTrue
    /\ CompletedLeavesDaemon /\ NobodyWatches /\ FilesAreChosen /\ SlotIsFree /\ PolicyIsTold

-------------------------------------------------------------------------------
\* Steps of one process.
Moves(x) == p' \in [Proc -> Copies] /\ \A y \in Proc : y # x => p'[y] = p[y]
SameCopy(x) ==
    /\ p'[x].op = p[x].op /\ p'[x].st = p[x].st /\ p'[x].pending = p[x].pending /\ p'[x].policy = p[x].policy
    /\ p'[x].old = p[x].old /\ p'[x].files = p[x].files /\ p'[x].seen = p[x].seen
LockMoves(x) ==
    \/ lock' = lock /\ (p'[x].at \in Locked <=> p[x].at \in Locked)
    \/ lock = Nobody /\ lock' = x /\ p'[x].at \in Locked
    \/ lock = x /\ lock' = Nobody /\ p'[x].at \notin Locked
Counted == (Fine \/ Fault) /\ (NoCalls \/ Call)

LEMMA SeedShapes ==
    /\ Idle \in Copies /\ Idle.at = "idle" /\ Idle.st = "queued"
    /\ S \in Proc /\ M \in Proc /\ R \in Proc /\ B \in Proc /\ Client \subseteq Proc /\ Nobody \notin Proc
<1>1. Idle \in Copies
  <2>1. "idle" \in Places /\ "none" \in Ops
    BY DEF Places, Calm, Ops
  <2>2. {} \in SUBSET File /\ "queued" \in Statuses /\ "none" \in Pol
    BY DEF Statuses, Pol
  <2> QED BY <2>1, <2>2 DEF Idle, Copies
<1>2. Idle.at = "idle" /\ Idle.st = "queued"
  BY DEF Idle
<1>3. S \in Proc /\ M \in Proc /\ R \in Proc /\ B \in Proc /\ Client \subseteq Proc
  BY DEF Proc, S, M, R, B
<1>4. Nobody \notin Proc
  BY DEF Proc, Nobody
<1> QED BY <1>1, <1>2, <1>3, <1>4

LEMMA GotoMoves ==
    ASSUME CopiesTyped, NEW x \in Proc, NEW place \in Places, Goto(x, place)
    PROVE  Moves(x) /\ p'[x].at = place /\ SameCopy(x)
<1>1. p[x] \in Copies /\ p' = [p EXCEPT ![x] = [p[x] EXCEPT !.at = place]]
  BY DEF CopiesTyped, Goto
<1> DEFINE c == [p[x] EXCEPT !.at = place]
<1>2. /\ c \in Copies /\ c.at = place /\ c.op = p[x].op /\ c.st = p[x].st /\ c.pending = p[x].pending
      /\ c.policy = p[x].policy /\ c.old = p[x].old /\ c.files = p[x].files /\ c.seen = p[x].seen
  BY <1>1 DEF Copies
<1> HIDE DEF c
<1>3. p' \in [Proc -> Copies] /\ p'[x] = c /\ \A y \in Proc : y # x => p'[y] = p[y]
  BY <1>1, <1>2 DEF CopiesTyped, c
<1> QED BY <1>2, <1>3 DEF Moves, SameCopy

LEMMA CopyMoves ==
    ASSUME CopiesTyped, NEW x \in Proc, NEW c \in Copies, p' = [p EXCEPT ![x] = c]
    PROVE  Moves(x) /\ p'[x] = c
BY DEF CopiesTyped, Moves

LEMMA DoneMoves ==
    ASSUME CopiesTyped, NEW x \in Proc, Done(x)
    PROVE  Moves(x) /\ p'[x] = Idle /\ p'[x].at = "idle"
BY SeedShapes DEF CopiesTyped, Moves, Done

LEMMA CountersTyped ==
    ASSUME Tables, Counted, Remember
    PROVE  /\ calls' \in 0 .. MaxCalls /\ upsets' \in 0 .. MaxUpsets
           /\ crossed' \in BOOLEAN /\ foundSeeding' \in BOOLEAN
<1>1. calls' \in 0 .. MaxCalls
  BY DEF Tables, Counted, NoCalls, Call
<1>2. upsets' \in 0 .. MaxUpsets
  BY DEF Tables, Counted, Fine, Fault
<1> QED BY <1>1, <1>2 DEF Remember

\* As long as nothing crosses, the copies of the others stay true.
LEMMA OthersStayTrue ==
    ASSUME CopiesAreTrue, Remember, NEW x, \A y \in Proc : y # x => p'[y] = p[y], ~crossed'
    PROVE  ~crossed /\ \A y \in Proc : y # x => StillTrue(y)'
<1>1. /\ ~crossed
      /\ \A y \in Proc : p[y].at # "idle" /\ p'[y] = p[y] =>
             srow' = srow /\ rec' = rec /\ active' = active /\ torrent'.files = torrent.files
  BY DEF Remember
<1>2. ASSUME NEW y \in Proc, y # x
      PROVE  StillTrue(y)'
  <2>1. p'[y] = p[y] /\ StillTrue(y)
    BY <1>1, <1>2 DEF CopiesAreTrue
  <2>2. CASE p[y].at = "idle"
    BY <2>1, <2>2 DEF StillTrue, Starting, Dispatching, Ticking
  <2>3. CASE p[y].at # "idle"
    <3>1. srow' = srow /\ rec' = rec /\ active' = active /\ torrent'.files = torrent.files
      BY <1>1, <2>1, <2>3
    <3> QED BY <2>1, <3>1 DEF StillTrue
  <2> QED BY <2>2, <2>3
<1> QED BY <1>1, <1>2

\* A step of x keeps the invariant when it does so for x and for the job.
LEMMA OneMoves ==
    ASSUME SeedInv, Remember, NEW x \in Proc, Moves(x), LockMoves(x), Counted,
           torrent' \in Torrents, srow' \in Rows, rec' \in Pol, chosen' \in SUBSET File, reached' \in BOOLEAN,
           queue' \in {"none", "start", "resume"}, permit' \in BOOLEAN, active' \in Memory,
           torrent'.here => torrent.here,
           srow'.st = "awaiting_selection" => srow.st = "awaiting_selection" /\ p'[x].at \in Calm,
           p'[x].at = "tickWrites" => p'[x].seen \in {"seeding", "downloading"}
                                      /\ (p'[x].seen = "seeding" => p'[x].st = "seeding"),
           p'[x].at = "write" => p'[x].st \in {"downloading", "paused", "seeding"},
           p'[x].at \in {"finClear", "sweepClear"} => ~torrent'.here,
           ~crossed /\ ~crossed' => StillTrue(x)',
           CompletedLeavesDaemon', NobodyWatches', FilesAreChosen', SlotIsFree', PolicyIsTold'
    PROVE  SeedInv'
<1> USE DEF SeedInv
<1>1. Tables'
  BY CountersTyped DEF Tables
<1>2. CopiesTyped'
  BY DEF Moves, CopiesTyped
<1>3. LockHeld'
  BY SeedShapes DEF Moves, LockMoves, LockHeld
<1>4. PlacesFit'
  <2>1. FitsItsPlace(x)'
    BY DEF FitsItsPlace, Remember
  <2>2. ASSUME NEW y \in Proc, y # x
        PROVE  FitsItsPlace(y)'
    <3>1. p'[y] = p[y] /\ FitsItsPlace(y) /\ (foundSeeding => foundSeeding')
      BY <2>2 DEF Moves, PlacesFit, Remember
    <3> QED BY <3>1 DEF FitsItsPlace
  <2> QED BY <2>1, <2>2 DEF PlacesFit
<1>5. CopiesAreTrue'
  BY OthersStayTrue DEF CopiesAreTrue, Moves
<1> QED BY <1>1, <1>2, <1>3, <1>4, <1>5

\* A step that changes neither the job nor the memory.
LEMMA QuietMove ==
    ASSUME SeedInv, Remember, NEW x \in Proc, Moves(x), LockMoves(x), Counted,
           UNCHANGED <<srow, rec, chosen, active, permit>>,
           torrent' \in Torrents, reached' \in BOOLEAN, queue' \in {"none", "start", "resume"},
           torrent'.here => torrent.here, torrent'.files = torrent.files,
           srow.st = "awaiting_selection" => p'[x].at \in Calm,
           p'[x].at = "tickWrites" => p'[x].seen \in {"seeding", "downloading"}
                                      /\ (p'[x].seen = "seeding" => p'[x].st = "seeding"),
           p'[x].at = "write" => p'[x].st \in {"downloading", "paused", "seeding"},
           p'[x].at \in {"finClear", "sweepClear"} => ~torrent'.here,
           ~crossed /\ ~crossed' => StillTrue(x)',
           p[x].at # "tell", p[x].at \in Dispatching => p'[x].at \in Dispatching
    PROVE  SeedInv'
<1> USE DEF SeedInv
<1>1. ~crossed' => ~crossed
  BY DEF Remember
<1>2. ~foundSeeding' => ~foundSeeding
  BY DEF Remember
<1>3. srow' \in Rows /\ rec' \in Pol /\ chosen' \in SUBSET File /\ permit' \in BOOLEAN /\ active' \in Memory
  BY DEF Tables
<1>4. CompletedLeavesDaemon' /\ NobodyWatches' /\ FilesAreChosen'
  BY <1>1 DEF CompletedLeavesDaemon, NobodyWatches, FilesAreChosen
<1>5. SlotIsFree'
  BY <1>1, <1>2, SeedShapes DEF SlotIsFree, Moves
<1>6. PolicyIsTold'
  BY <1>1 DEF PolicyIsTold, Moves
<1> QED BY <1>3, <1>4, <1>5, <1>6, OneMoves

LEMMA TorrentShapes ==
    ASSUME torrent \in Torrents
    PROVE  /\ Stopped \in Torrents /\ Stopped.here = torrent.here /\ Stopped.files = torrent.files
           /\ Started \in Torrents /\ Started.here = torrent.here /\ Started.files = torrent.files
           /\ \A q \in Pol : Limited(q) \in Torrents /\ Limited(q).here = torrent.here /\ Limited(q).files = torrent.files
           /\ \A f \in SUBSET File : /\ [torrent EXCEPT !.files = f] \in Torrents
                                     /\ [torrent EXCEPT !.files = f].files = f
                                     /\ [torrent EXCEPT !.files = f].here = torrent.here
           /\ [torrent EXCEPT !.here = FALSE] \in Torrents /\ ~[torrent EXCEPT !.here = FALSE].here
           /\ [torrent EXCEPT !.here = FALSE].files = torrent.files
           /\ DaemonStatus \in {"gone", "paused", "downloading", "seeding", "completed"}
<1>1. /\ \A d \in DaemonState : /\ [torrent EXCEPT !.st = d] \in Torrents /\ [torrent EXCEPT !.st = d].here = torrent.here
                                /\ [torrent EXCEPT !.st = d].files = torrent.files
  BY DEF Torrents
<1>2. torrent.st \in DaemonState
  BY DEF Torrents
<1>3. /\ Stopped \in Torrents /\ Stopped.here = torrent.here /\ Stopped.files = torrent.files
  <2> DEFINE d == CASE torrent.st = "downloading" -> "stoppedDL" [] torrent.st = "seeding" -> "stoppedUP" [] OTHER -> torrent.st
  <2>1. d \in DaemonState /\ Stopped = [torrent EXCEPT !.st = d]
    BY <1>2 DEF Stopped, DaemonState
  <2> QED BY <1>1, <2>1
<1>4. /\ Started \in Torrents /\ Started.here = torrent.here /\ Started.files = torrent.files
  <2> DEFINE d == CASE torrent.st = "stoppedDL" -> "downloading" [] torrent.st = "stoppedUP" -> "seeding" [] OTHER -> torrent.st
  <2>1. d \in DaemonState /\ Started = [torrent EXCEPT !.st = d]
    BY <1>2 DEF Started, DaemonState
  <2> QED BY <1>1, <2>1
<1>5. \A q \in Pol : Limited(q) \in Torrents /\ Limited(q).here = torrent.here /\ Limited(q).files = torrent.files
  BY DEF Torrents, Limited, Pol
<1>6. DaemonStatus \in {"gone", "paused", "downloading", "seeding", "completed"}
  BY <1>2 DEF DaemonStatus, DaemonState
<1>7. /\ \A f \in SUBSET File : /\ [torrent EXCEPT !.files = f] \in Torrents
                                     /\ [torrent EXCEPT !.files = f].files = f
                                     /\ [torrent EXCEPT !.files = f].here = torrent.here
           /\ [torrent EXCEPT !.here = FALSE] \in Torrents /\ ~[torrent EXCEPT !.here = FALSE].here
           /\ [torrent EXCEPT !.here = FALSE].files = torrent.files
  BY DEF Torrents
<1> QED BY <1>3, <1>4, <1>5, <1>6, <1>7

LEMMA SeedInvInit ==
    ASSUME SeedInit
    PROVE  SeedInv
<1>1. Tables
  <2>1. torrent \in Torrents /\ srow \in Rows /\ active \in Memory
    BY DEF SeedInit, Torrents, Rows, Memory, Pol, Statuses, DaemonState
  <2>2. calls \in 0 .. MaxCalls /\ upsets \in 0 .. MaxUpsets
    BY DEF SeedInit
  <2> QED BY <2>1, <2>2 DEF SeedInit, Tables, Pol
<1>2. /\ \A x \in Proc : p[x] = Idle /\ p[x].at = "idle" /\ p[x].st = "queued"
      /\ CopiesTyped
  BY SeedShapes DEF SeedInit, CopiesTyped
<1>3. LockHeld
  BY <1>2, SeedShapes DEF SeedInit, LockHeld, Locked
<1>4. PlacesFit
  BY <1>2 DEF PlacesFit, FitsItsPlace, Calm
<1>5. CopiesAreTrue
  BY <1>2 DEF CopiesAreTrue, StillTrue, Starting, Dispatching, Ticking
<1>6. CompletedLeavesDaemon /\ NobodyWatches /\ FilesAreChosen /\ SlotIsFree /\ PolicyIsTold
  BY DEF SeedInit, CompletedLeavesDaemon, NobodyWatches, FilesAreChosen, SlotIsFree, PolicyIsTold
<1> QED BY <1>1, <1>2, <1>3, <1>4, <1>5, <1>6 DEF SeedInv

LEMMA QuietGoto ==
    ASSUME SeedInv, Remember, NEW x \in Proc, NEW place \in Places, Goto(x, place), lock' = lock, Counted,
           UNCHANGED <<srow, rec, chosen, active, permit>>,
           torrent' \in Torrents, reached' \in BOOLEAN, queue' \in {"none", "start", "resume"},
           torrent'.here => torrent.here, torrent'.files = torrent.files,
           p[x].at \in Locked <=> place \in Locked, place \in Calm \/ p[x].at \notin Calm,
           place \notin {"tickWrites", "write", "tell", "seedingSaved"},
           place \in {"finClear", "sweepClear"} => ~torrent'.here,
           place \in Starting => p[x].at \in Starting, place \in Ticking => p[x].at \in Ticking,
           place \in {"limit", "enqueue"} => p[x].at \in {"limit", "enqueue"} \/ torrent.files = p[x].files,
           place \in Dispatching <=> p[x].at \in Dispatching,
           place \in {"bootLimit", "bootStatus"} => p[x].at \in {"bootLimit", "bootStatus"}, p[x].at # "tell"
    PROVE  SeedInv'
<1> USE DEF SeedInv
<1>1. Moves(x) /\ p'[x].at = place /\ SameCopy(x)
  BY GotoMoves
<1>2. FitsItsPlace(x) /\ (~crossed => StillTrue(x))
  BY DEF PlacesFit, CopiesAreTrue
<1>3. srow.st = "awaiting_selection" => place \in Calm
  BY <1>2 DEF FitsItsPlace
<1>4. ~crossed => StillTrue(x)'
  <2> HAVE ~crossed
  <2>1. p'[x].at \in Starting => srow'.st = "awaiting_selection"
    BY <1>1, <1>2 DEF StillTrue
  <2>2. p'[x].at \in {"limit", "enqueue"} => torrent'.files = p'[x].files
    BY <1>1, <1>2 DEF StillTrue, SameCopy
  <2>3. p'[x].at \in Dispatching \cup {"tell", "bootLimit", "bootStatus"} => p'[x].policy = rec'
    BY <1>1, <1>2 DEF StillTrue, SameCopy
  <2>4. p'[x].at # "seedingSaved"
    BY <1>1
  <2>5. p'[x].at \in Ticking => active' = [in |-> TRUE, st |-> p'[x].st, policy |-> p'[x].policy]
    BY <1>1, <1>2 DEF StillTrue, SameCopy
  <2> QED BY <2>1, <2>2, <2>3, <2>4, <2>5 DEF StillTrue
<1>5. LockMoves(x)
  BY <1>1 DEF LockMoves
<1> QED BY <1>1, <1>3, <1>4, <1>5, QuietMove

LEMMA QuietDone ==
    ASSUME SeedInv, Remember, NEW x \in Proc, Done(x), Counted,
           UNCHANGED <<srow, rec, chosen, active, permit>>,
           torrent' \in Torrents, reached' \in BOOLEAN, queue' \in {"none", "start", "resume"},
           torrent'.here => torrent.here, torrent'.files = torrent.files,
           IF p[x].at \in Locked THEN lock' = Nobody ELSE lock' = lock,
           p[x].at \notin Dispatching \cup {"tell"}
    PROVE  SeedInv'
<1> USE DEF SeedInv
<1>1. Moves(x) /\ p'[x] = Idle /\ p'[x].at = "idle"
  BY DoneMoves
<1>2. StillTrue(x)'
  BY <1>1 DEF StillTrue, Starting, Dispatching, Ticking
<1>3. LockMoves(x)
  BY <1>1 DEF LockMoves, LockHeld, Locked
<1>4. p'[x].at \in Calm
  BY <1>1 DEF Calm
<1> QED BY <1>1, <1>2, <1>3, <1>4, QuietMove

\* A process that begins has its copy from the tables.
LEMMA QuietBegin ==
    ASSUME SeedInv, Remember, NEW x \in Proc, NEW c \in Copies, p' = [p EXCEPT ![x] = c], p[x].at = "idle",
           Counted, UNCHANGED <<torrent, reached, srow, rec, chosen, active, permit, lock>>,
           queue' \in {"none", "start", "resume"},
           srow.st = "awaiting_selection" => c.at \in Calm,
           c.at \notin Locked \cup Dispatching \cup {"tickWrites", "finClear", "sweepClear", "limit", "enqueue", "tell",
                                                    "seedingSaved"},
           c.at \in Starting => srow.st = "awaiting_selection",
           c.at = "write" => c.st \in {"downloading", "paused", "seeding"},
           c.at \in {"bootLimit", "bootStatus"} => c.policy = rec,
           c.at \in Ticking => active = [in |-> TRUE, st |-> c.st, policy |-> c.policy]
    PROVE  SeedInv'
<1> USE DEF SeedInv
<1>1. Moves(x) /\ p'[x] = c
  BY CopyMoves
<1>2. StillTrue(x)'
  BY <1>1 DEF StillTrue
<1>3. LockMoves(x)
  BY <1>1 DEF LockMoves, Locked
<1>4. torrent' \in Torrents /\ reached' \in BOOLEAN
  BY DEF Tables
<1>5. p[x].at # "tell" /\ p[x].at \notin Dispatching
  BY DEF Dispatching
<1> QED BY <1>1, <1>2, <1>3, <1>4, <1>5, QuietMove

\* The row is written, or the memory forgets the job, by one who ends or goes on to
\* where his copy no longer matters.
LEMMA RowMove ==
    ASSUME SeedInv, Remember, NEW x \in Proc, Moves(x), LockMoves(x), Counted,
           UNCHANGED <<torrent, reached, chosen>>, queue' \in {"none", "start", "resume"},
           srow' \in Rows, rec' \in Pol, permit' \in BOOLEAN, active' \in Memory,
           srow.st # "awaiting_selection", srow'.st # "awaiting_selection", CompletedLeavesDaemon',
           p'[x].at \in {"idle", "pauseForget", "finRemove", "finLock"},
           \/ ~active'.in
           \/ active' = active /\ permit' = permit /\ rec' = rec /\ p[x].at \notin Dispatching \cup {"tell"}
    PROVE  SeedInv'
<1> USE DEF SeedInv
<1>1. ~crossed' => ~crossed
  BY DEF Remember
<1>2. ~foundSeeding' => ~foundSeeding
  BY DEF Remember
<1>3. StillTrue(x)'
  BY DEF StillTrue, Starting, Dispatching, Ticking
<1>4. NobodyWatches' /\ FilesAreChosen'
  BY <1>1 DEF NobodyWatches, FilesAreChosen
<1>5. SlotIsFree'
  BY <1>1, <1>2, SeedShapes DEF SlotIsFree, Moves
<1>6. PolicyIsTold'
  BY <1>1 DEF PolicyIsTold, Moves
<1>7. torrent' \in Torrents /\ reached' \in BOOLEAN /\ chosen' \in SUBSET File
  BY DEF Tables
<1> QED BY <1>3, <1>4, <1>5, <1>6, <1>7, OneMoves

LEMMA RowShapes ==
    ASSUME SeedInv, NEW x \in Proc, NEW st \in Statuses, UpdateRow(x, st)
    PROVE  srow' \in Rows /\ srow'.st = st
BY DEF SeedInv, CopiesTyped, Copies, UpdateRow, Rows

\* Who is past the beginning is not at a job that awaits its selection.
LEMMA NotAwaiting ==
    ASSUME SeedInv, NEW x \in Proc, p[x].at \notin Calm
    PROVE  srow.st # "awaiting_selection"
BY DEF SeedInv, PlacesFit, FitsItsPlace

-------------------------------------------------------------------------------
\* Start, and the seeding policy.
LEMMA StartKeeps ==
    ASSUME SeedInv, Remember, NEW x \in Client,
           \/ ~Booting /\ StartBegins(x)
           \/ SetPriorities(x) \/ VerifyPriorities(x) \/ StartLimit(x) \/ SelectionEnqueued(x)
    PROVE  SeedInv'
<1> USE DEF SeedInv, NoDaemon, NoTables, NoMemory
<1>0. /\ x \in Proc /\ torrent \in Torrents /\ reached \in BOOLEAN /\ queue \in {"none", "start", "resume"}
      /\ p[x] \in Copies /\ p[x].policy \in Pol /\ p[x].files \in SUBSET File
  BY SeedShapes DEF Tables, CopiesTyped, Copies
<1>1. CASE StartBegins(x)
  <2>1. PICK c \in Choices, policy \in Policies :
            p' = [p EXCEPT ![x] = [Idle EXCEPT !.at = "priorities", !.op = "start", !.files = c,
                                              !.policy = policy, !.pending = srow.pending]]
    BY <1>1 DEF StartBegins
  <2> DEFINE new == [Idle EXCEPT !.at = "priorities", !.op = "start", !.files = c,
                                 !.policy = policy, !.pending = srow.pending]
  <2>2. srow.pending \in BOOLEAN /\ c \in SUBSET File /\ policy \in Pol
    BY DEF Tables, Rows, Pol
  <2>3. new \in Copies /\ new.at = "priorities"
    BY <2>2 DEF Idle, Copies, Places, Calm, Starting, Ops, Statuses, Pol
  <2>4. srow.st = "awaiting_selection" /\ p[x].at = "idle" /\ Counted
    BY <1>1 DEF StartBegins, At, Counted, Fine
  <2> HIDE DEF new
  <2> QED BY <1>0, <1>1, <2>1, <2>3, <2>4, QuietBegin
          DEF StartBegins, new, Calm, Starting, Dispatching, Ticking, Locked
<1>2. CASE SetPriorities(x)
  <2>1. p[x].at \in {"priorities", "prioritiesOn", "prioritiesOff"} /\ Counted
        /\ UNCHANGED <<reached, lock, srow, rec, chosen, queue, active, permit>>
    BY <1>2 DEF SetPriorities, Counted
  <2>2. CASE UNCHANGED torrent /\ Done(x)
    BY <1>0, <2>1, <2>2, QuietDone DEF Dispatching, Locked
  <2>3. ASSUME NEW f \in SUBSET File, torrent' = [torrent EXCEPT !.files = f],
               NEW place \in {"prioritiesOff", "prioritiesOn", "verify"}, Goto(x, place)
        PROVE  SeedInv'
    <3>1. Moves(x) /\ p'[x].at = place /\ SameCopy(x)
      BY <1>0, <2>3, GotoMoves DEF Places, Calm, Starting
    <3>2. torrent' \in Torrents /\ torrent'.here = torrent.here
      BY <1>0, <2>3, TorrentShapes
    <3>3. LockMoves(x)
      BY <2>1, <3>1 DEF LockMoves, Locked
    <3>4. ~crossed => srow.st = "awaiting_selection"
      BY <1>0, <2>1 DEF CopiesAreTrue, StillTrue, Starting
    <3>5. ~crossed => StillTrue(x)'
      BY <2>1, <3>1, <3>4 DEF StillTrue, Starting, Dispatching, Ticking
    <3>6. srow.st = "awaiting_selection" => p'[x].at \in Calm
      BY <3>1 DEF Calm, Starting
    <3>7. (~crossed' => ~crossed) /\ (~foundSeeding' => ~foundSeeding)
      BY DEF Remember
    <3>8. CompletedLeavesDaemon' /\ NobodyWatches' /\ FilesAreChosen'
      BY <2>1, <3>2, <3>4, <3>7 DEF CompletedLeavesDaemon, NobodyWatches, FilesAreChosen
    <3>9. SlotIsFree'
      BY <2>1, <3>1, <3>7, SeedShapes DEF SlotIsFree, Moves, Dispatching
    <3>10. PolicyIsTold'
      BY <2>1, <3>1, <3>7 DEF PolicyIsTold, Moves
    <3>11. srow' \in Rows /\ rec' \in Pol /\ chosen' \in SUBSET File /\ permit' \in BOOLEAN /\ active' \in Memory
           /\ reached' \in BOOLEAN /\ queue' \in {"none", "start", "resume"}
      BY <2>1 DEF Tables
    <3> QED BY <1>0, <2>1, <3>1, <3>2, <3>3, <3>5, <3>6, <3>8, <3>9, <3>10, <3>11, OneMoves
  <2>4. torrent.files \cup p[x].files \in SUBSET File /\ torrent.files \cap p[x].files \in SUBSET File
    BY <1>0 DEF Torrents
  <2> QED BY <1>2, <2>2, <2>3, <2>4 DEF SetPriorities
<1>3. CASE VerifyPriorities(x)
  <2>1. p[x].at = "verify" /\ Counted
    BY <1>3 DEF VerifyPriorities, At, Counted
  <2>2. CASE torrent.files = p[x].files /\ Goto(x, "limit")
    BY <1>0, <1>3, <2>1, <2>2, QuietGoto DEF VerifyPriorities, Places, Calm, Starting, Dispatching, Ticking, Locked
  <2>3. CASE Done(x)
    BY <1>0, <1>3, <2>1, <2>3, QuietDone DEF VerifyPriorities, Dispatching, Locked
  <2> QED BY <1>3, <2>2, <2>3 DEF VerifyPriorities
<1>4. CASE StartLimit(x)
  <2>1. p[x].at = "limit" /\ Counted
    BY <1>4 DEF StartLimit, At, Counted
  <2>2. CASE torrent' = Limited(p[x].policy) /\ Goto(x, "enqueue")
    <3>1. torrent' \in Torrents /\ torrent'.here = torrent.here /\ torrent'.files = torrent.files
      BY <1>0, <2>2, TorrentShapes
    <3>2. UNCHANGED <<reached, srow, rec, chosen, queue, active, permit, lock>>
      BY <1>4 DEF StartLimit
    <3>3. /\ "enqueue" \in Places /\ "enqueue" \in Starting /\ "enqueue" \in Calm
          /\ "enqueue" \notin Locked \cup Ticking \cup Dispatching
      BY DEF Places, Calm, Starting, Dispatching, Ticking, Locked
    <3>4. "limit" \in Starting /\ "limit" \notin Locked \cup Dispatching
      BY DEF Starting, Dispatching, Locked
    <3> QED BY <1>0, <2>1, <2>2, <3>1, <3>2, <3>3, <3>4, QuietGoto
  <2>3. CASE UNCHANGED torrent /\ Done(x)
    BY <1>0, <1>4, <2>1, <2>3, QuietDone DEF StartLimit, Dispatching, Locked
  <2> QED BY <1>4, <2>2, <2>3 DEF StartLimit
<1>5. CASE SelectionEnqueued(x)
  <2>1. /\ p[x].at = "enqueue" /\ Counted /\ Done(x)
        /\ UNCHANGED <<lock, torrent, reached, active, permit>>
    BY <1>5 DEF SelectionEnqueued, At, Counted
  <2>2. CASE NoTables
    BY <1>0, <2>1, <2>2, QuietDone DEF Dispatching, Locked
  <2>3. CASE chosen' = p[x].files /\ rec' = p[x].policy /\ queue' = "start" /\ srow' = [srow EXCEPT !.st = "queued"]
    <3>1. Moves(x) /\ p'[x] = Idle /\ p'[x].at = "idle"
      BY <1>0, <2>1, DoneMoves
    <3>2. LockMoves(x)
      BY <2>1, <3>1 DEF LockMoves, Locked
    <3>3. srow' \in Rows /\ srow'.st = "queued"
      BY <2>3 DEF Tables, Rows, Statuses
    <3>4. ~crossed => srow.st = "awaiting_selection" /\ torrent.files = p[x].files
      BY <1>0, <2>1 DEF CopiesAreTrue, StillTrue, Starting
    <3>5. StillTrue(x)'
      BY <3>1 DEF StillTrue, Starting, Dispatching, Ticking
    <3>6. (~crossed' => ~crossed) /\ (~foundSeeding' => ~foundSeeding)
      BY DEF Remember
    <3>7. CompletedLeavesDaemon' /\ NobodyWatches' /\ FilesAreChosen'
      BY <2>1, <2>3, <3>3, <3>4, <3>6 DEF CompletedLeavesDaemon, NobodyWatches, FilesAreChosen
    <3>8. SlotIsFree' /\ PolicyIsTold'
      BY <2>1, <3>4, <3>6 DEF SlotIsFree, PolicyIsTold, NobodyWatches
    <3>9. permit' \in BOOLEAN /\ active' \in Memory /\ torrent' \in Torrents
      BY <2>1 DEF Tables
    <3> QED BY <1>0, <2>1, <2>3, <3>1, <3>2, <3>3, <3>5, <3>7, <3>8, <3>9, OneMoves
  <2> QED BY <1>5, <2>2, <2>3 DEF SelectionEnqueued
<1> QED BY <1>1, <1>2, <1>3, <1>4, <1>5

LEMMA PolicyKeeps ==
    ASSUME SeedInv, Remember, NEW x \in Client,
           \/ ~Booting /\ PolicyBegins(x)
           \/ ApplyPolicy(x) \/ SavePolicy(x) \/ Rollback(x) \/ TellMonitor(x)
    PROVE  SeedInv'
<1> USE DEF SeedInv, NoDaemon, NoTables, NoMemory
<1>0. /\ x \in Proc /\ torrent \in Torrents /\ reached \in BOOLEAN /\ queue \in {"none", "start", "resume"}
      /\ p[x] \in Copies /\ p[x].policy \in Pol /\ p[x].old \in Pol
  BY SeedShapes DEF Tables, CopiesTyped, Copies
<1>1. CASE PolicyBegins(x)
  <2>1. /\ p[x].at = "idle" /\ Counted /\ UNCHANGED <<torrent, reached, srow, rec, chosen, queue, active, permit, lock>>
        /\ rec \in Pol
    BY <1>1 DEF PolicyBegins, At, Counted, Fine, Tables
  <2>2. CASE /\ srow.st = "seeding" /\ p' = [p EXCEPT ![x] = [Idle EXCEPT !.at = "stopLock", !.op = "stop"]]
    <3> DEFINE new == [Idle EXCEPT !.at = "stopLock", !.op = "stop"]
    <3>1. new \in Copies /\ new.at = "stopLock"
      BY DEF Idle, Copies, Places, Calm, Starting, Ops, Statuses, Pol
    <3> HIDE DEF new
    <3> QED BY <1>0, <2>1, <2>2, <3>1, QuietBegin DEF new, Calm, Starting, Dispatching, Ticking, Locked
  <2>3. ASSUME NEW policy \in Policies,
               p' = [p EXCEPT ![x] = [Idle EXCEPT !.at = "apply", !.op = "policy", !.policy = policy, !.old = rec]]
        PROVE  SeedInv'
    <3> DEFINE new == [Idle EXCEPT !.at = "apply", !.op = "policy", !.policy = policy, !.old = rec]
    <3>1. new \in Copies /\ new.at = "apply"
      BY <2>1 DEF Idle, Copies, Places, Calm, Starting, Ops, Statuses, Pol
    <3> HIDE DEF new
    <3> QED BY <1>0, <2>1, <2>3, <3>1, QuietBegin DEF new, Calm, Starting, Dispatching, Ticking, Locked
  <2> QED BY <1>1, <2>2, <2>3 DEF PolicyBegins
<1>2. CASE ApplyPolicy(x)
  <2>1. p[x].at = "apply" /\ Counted
    BY <1>2 DEF ApplyPolicy, At, Counted
  <2>2. CASE torrent' = Limited(p[x].policy) /\ Goto(x, "save")
    BY <1>0, <1>2, <2>1, <2>2, TorrentShapes, QuietGoto
    DEF ApplyPolicy, Places, Calm, Starting, Dispatching, Ticking, Locked
  <2>3. CASE UNCHANGED torrent /\ Done(x)
    BY <1>0, <1>2, <2>1, <2>3, QuietDone DEF ApplyPolicy, Dispatching, Locked
  <2> QED BY <1>2, <2>2, <2>3 DEF ApplyPolicy
<1>3. CASE SavePolicy(x)
  <2>1. /\ p[x].at = "save" /\ Counted
        /\ UNCHANGED <<srow, chosen, queue, lock, torrent, reached, active, permit>>
    BY <1>3 DEF SavePolicy, At, Counted
  <2>2. CASE UNCHANGED rec /\ Goto(x, "rollback")
    BY <1>0, <2>1, <2>2, QuietGoto DEF Places, Calm, Starting, Dispatching, Ticking, Locked
  <2>3. CASE rec' = p[x].policy /\ Goto(x, "tell")
    <3>1. Moves(x) /\ p'[x].at = "tell" /\ SameCopy(x)
      BY <1>0, <2>3, GotoMoves DEF Places, Calm
    <3>2. LockMoves(x)
      BY <2>1, <3>1 DEF LockMoves, Locked
    <3>3. StillTrue(x)'
      BY <2>3, <3>1 DEF StillTrue, SameCopy, Starting, Dispatching, Ticking
    <3>4. (~crossed' => ~crossed) /\ (~foundSeeding' => ~foundSeeding)
      BY DEF Remember
    <3>5. CompletedLeavesDaemon' /\ NobodyWatches' /\ FilesAreChosen' /\ PolicyIsTold'
      BY <1>0, <2>1, <3>1, <3>4 DEF CompletedLeavesDaemon, NobodyWatches, FilesAreChosen, PolicyIsTold
    <3>6. SlotIsFree'
      BY <2>1, <3>1, <3>4, SeedShapes DEF SlotIsFree, Moves, Dispatching
    <3>7. srow' \in Rows /\ chosen' \in SUBSET File /\ permit' \in BOOLEAN /\ active' \in Memory
      BY <2>1 DEF Tables
    <3> QED BY <1>0, <2>1, <2>3, <3>1, <3>2, <3>3, <3>5, <3>6, <3>7, OneMoves DEF Calm
  <2> QED BY <1>3, <2>2, <2>3 DEF SavePolicy
<1>4. CASE Rollback(x)
  <2>1. p[x].at = "rollback" /\ Counted /\ Done(x)
    BY <1>4 DEF Rollback, At, Counted
  <2>2. torrent' \in Torrents /\ torrent'.here = torrent.here /\ torrent'.files = torrent.files
    BY <1>0, <1>4, TorrentShapes DEF Rollback
  <2> QED BY <1>0, <1>4, <2>1, <2>2, QuietDone DEF Rollback, Dispatching, Locked
<1>5. CASE TellMonitor(x)
  <2>1. /\ p[x].at = "tell" /\ Counted /\ Done(x)
        /\ UNCHANGED <<permit, lock, torrent, reached, srow, rec, chosen, queue>>
        /\ active' = IF active.in THEN [active EXCEPT !.policy = p[x].policy] ELSE active
    BY <1>5 DEF TellMonitor, At, Counted
  <2>2. Moves(x) /\ p'[x] = Idle /\ p'[x].at = "idle"
    BY <1>0, <2>1, DoneMoves
  <2>3. LockMoves(x)
    BY <2>1, <2>2 DEF LockMoves, Locked
  <2>4. StillTrue(x)'
    BY <2>2 DEF StillTrue, Starting, Dispatching, Ticking
  <2>5. /\ active' \in Memory /\ active'.in = active.in /\ active'.st = active.st
        /\ active.in => active'.policy = p[x].policy
    <3>1. active \in Memory
      BY DEF Tables
    <3>2. [active EXCEPT !.policy = p[x].policy] \in Memory
          /\ [active EXCEPT !.policy = p[x].policy].in = active.in
          /\ [active EXCEPT !.policy = p[x].policy].st = active.st
          /\ [active EXCEPT !.policy = p[x].policy].policy = p[x].policy
      BY <1>0, <3>1 DEF Memory
    <3> QED BY <2>1, <3>1, <3>2
  <2>6. (~crossed' => ~crossed) /\ (~foundSeeding' => ~foundSeeding) /\ (~crossed => p[x].policy = rec)
    BY <1>0, <2>1 DEF Remember, CopiesAreTrue, StillTrue
  <2>7. CompletedLeavesDaemon' /\ NobodyWatches' /\ FilesAreChosen'
    BY <2>1, <2>5, <2>6 DEF CompletedLeavesDaemon, NobodyWatches, FilesAreChosen
  <2>8. PolicyIsTold'
    BY <2>1, <2>5, <2>6 DEF PolicyIsTold
  <2>9. SlotIsFree'
    BY <2>1, <2>2, <2>5, <2>6, SeedShapes DEF SlotIsFree, Moves, Dispatching
  <2>10. srow' \in Rows /\ chosen' \in SUBSET File /\ permit' \in BOOLEAN /\ rec' \in Pol
    BY <2>1 DEF Tables
  <2> QED BY <1>0, <2>1, <2>2, <2>3, <2>4, <2>5, <2>7, <2>8, <2>9, <2>10, OneMoves DEF Calm
<1> QED BY <1>1, <1>2, <1>3, <1>4, <1>5

-------------------------------------------------------------------------------
\* The end of a torrent, by whoever comes to it.
LEMMA FinishKeeps ==
    ASSUME SeedInv, Remember, NEW x \in Proc,
           \/ x \in Client /\ ((~Booting /\ StopBegins(x)) \/ StopChecks(x) \/ StopsDaemon(x))
           \/ Finalize(x)
    PROVE  SeedInv'
<1> USE DEF SeedInv, NoDaemon, NoTables, NoMemory
<1>0. /\ torrent \in Torrents /\ reached \in BOOLEAN /\ queue \in {"none", "start", "resume"}
      /\ p[x] \in Copies /\ p[x].policy \in Pol
  BY DEF Tables, CopiesTyped, Copies
<1>1. CASE StopBegins(x)
  <2> DEFINE new == [Idle EXCEPT !.at = "stopLock", !.op = "stop"]
  <2>1. new \in Copies /\ new.at = "stopLock"
    BY DEF Idle, Copies, Places, Calm, Starting, Ops, Statuses, Pol
  <2>2. p[x].at = "idle" /\ Counted /\ srow.st = "seeding" /\ p' = [p EXCEPT ![x] = new]
        /\ UNCHANGED <<torrent, reached, srow, rec, chosen, queue, active, permit, lock>>
    BY <1>1 DEF StopBegins, At, Counted, Fine
  <2> HIDE DEF new
  <2> QED BY <1>0, <2>1, <2>2, QuietBegin DEF Calm, Starting, Dispatching, Ticking, Locked
<1>2. CASE TakeLock(x)
  <2>1. /\ p[x].at \in {"stopLock", "finLock"} /\ lock = Nobody /\ lock' = x /\ Counted
        /\ UNCHANGED <<torrent, reached, srow, rec, chosen, queue, active, permit>>
    BY <1>2 DEF TakeLock, Counted
  <2>2. PICK place \in {"stopCheck", "finRead"} : Goto(x, place)
    BY <1>2 DEF TakeLock
  <2>3. Moves(x) /\ p'[x].at = place
    BY <1>0, <2>2, GotoMoves DEF Places, Locked
  <2>4. LockMoves(x)
    BY <2>1, <2>3 DEF LockMoves, Locked
  <2>5. StillTrue(x)'
    BY <2>3 DEF StillTrue, Starting, Dispatching, Ticking
  <2>6. srow.st # "awaiting_selection"
    BY <2>1, NotAwaiting DEF Calm, Starting
  <2> QED BY <1>0, <2>1, <2>3, <2>4, <2>5, <2>6, QuietMove DEF Dispatching
<1>3. CASE StopChecks(x)
  <2>1. p[x].at = "stopCheck" /\ Counted
    BY <1>3 DEF StopChecks, At, Counted
  <2>2. CASE Goto(x, "stopDaemon") /\ UNCHANGED lock
    BY <1>0, <1>3, <2>1, <2>2, QuietGoto DEF StopChecks, Places, Calm, Starting, Dispatching, Ticking, Locked
  <2>3. CASE Unlock(x)
    BY <1>0, <1>3, <2>1, <2>3, QuietDone DEF StopChecks, Unlock, Dispatching, Locked
  <2> QED BY <1>3, <2>2, <2>3 DEF StopChecks
<1>4. CASE StopsDaemon(x)
  <2>1. p[x].at = "stopDaemon" /\ Counted
    BY <1>4 DEF StopsDaemon, At, Counted
  <2>2. CASE torrent' = Stopped /\ Goto(x, "finRead") /\ UNCHANGED lock
    BY <1>0, <1>4, <2>1, <2>2, TorrentShapes, QuietGoto
    DEF StopsDaemon, Places, Calm, Starting, Dispatching, Ticking, Locked
  <2>3. CASE Unlock(x) /\ UNCHANGED torrent
    BY <1>0, <1>4, <2>1, <2>3, QuietDone DEF StopsDaemon, Unlock, Dispatching, Locked
  <2> QED BY <1>4, <2>2, <2>3 DEF StopsDaemon
<1>5. CASE FinRead(x)
  <2>1. p[x].at = "finRead" /\ Counted
    BY <1>5 DEF FinRead, At, Counted
  <2>2. CASE Goto(x, "finPersist") /\ UNCHANGED lock
    BY <1>0, <1>5, <2>1, <2>2, QuietGoto DEF FinRead, Places, Calm, Starting, Dispatching, Ticking, Locked
  <2>3. CASE Unlock(x)
    BY <1>0, <1>5, <2>1, <2>3, QuietDone DEF FinRead, Unlock, Dispatching, Locked
  <2> QED BY <1>5, <2>2, <2>3 DEF FinRead
<1>6. CASE FinPersist(x)
  <2>1. p[x].at = "finPersist" /\ Counted /\ UNCHANGED <<chosen, queue, torrent, reached>>
    BY <1>6 DEF FinPersist, At, Counted
  <2>2. CASE Unlock(x) /\ NoMemory /\ UNCHANGED <<srow, rec>>
    BY <1>0, <2>1, <2>2, QuietDone DEF Unlock, Dispatching, Locked
  <2>3. CASE /\ srow' = [st |-> "completed", pending |-> TRUE] /\ rec' = p[x].policy
             /\ RemoveActive /\ Goto(x, "finRemove") /\ UNCHANGED lock
    <3>1. Moves(x) /\ p'[x].at = "finRemove"
      BY <1>0, <2>3, GotoMoves DEF Places, Locked
    <3>2. LockMoves(x)
      BY <2>1, <2>3, <3>1 DEF LockMoves, Locked
    <3>3. srow' \in Rows /\ srow'.st = "completed" /\ srow'.pending
      BY <2>3 DEF Rows, Statuses
    <3>4. active' \in Memory /\ ~active'.in /\ permit' \in BOOLEAN
      BY <2>3 DEF RemoveActive, Tables, Memory
    <3>5. srow.st # "awaiting_selection"
      BY <2>1, NotAwaiting DEF Calm, Starting
    <3>6. CompletedLeavesDaemon'
      BY <3>3 DEF CompletedLeavesDaemon
    <3> QED BY <1>0, <2>1, <2>3, <3>1, <3>2, <3>3, <3>4, <3>5, <3>6, RowMove
  <2> QED BY <1>6, <2>2, <2>3 DEF FinPersist
<1>7. CASE FinRemove(x)
  <2>1. p[x].at = "finRemove" /\ Counted
    BY <1>7 DEF FinRemove, At, Counted
  <2>2. CASE torrent' = [torrent EXCEPT !.here = FALSE] /\ Goto(x, "finClear") /\ UNCHANGED lock
    <3>1. torrent' \in Torrents /\ ~torrent'.here /\ torrent'.files = torrent.files
      BY <1>0, <2>2, TorrentShapes
    <3> QED BY <1>0, <1>7, <2>1, <2>2, <3>1, QuietGoto
        DEF FinRemove, Places, Calm, Starting, Dispatching, Ticking, Locked
  <2>3. CASE Unlock(x) /\ UNCHANGED torrent
    BY <1>0, <1>7, <2>1, <2>3, QuietDone DEF FinRemove, Unlock, Dispatching, Locked
  <2> QED BY <1>7, <2>2, <2>3 DEF FinRemove
<1>8. CASE FinClear(x)
  <2>1. /\ p[x].at = "finClear" /\ Counted /\ Done(x) /\ lock' = Nobody
        /\ UNCHANGED <<rec, chosen, queue, torrent, reached, active, permit>>
    BY <1>8 DEF FinClear, At, Counted, Unlock
  <2>2. CASE UNCHANGED srow
    BY <1>0, <2>1, <2>2, QuietDone DEF Dispatching, Locked
  <2>3. CASE srow' = [st |-> "completed", pending |-> FALSE]
    <3>1. Moves(x) /\ p'[x].at = "idle"
      BY <1>0, <2>1, DoneMoves
    <3>2. LockMoves(x)
      BY <2>1, <3>1 DEF LockMoves, LockHeld, Locked
    <3>3. srow' \in Rows /\ srow'.st = "completed"
      BY <2>3 DEF Rows, Statuses
    <3>4. ~torrent.here
      BY <2>1 DEF PlacesFit, FitsItsPlace
    <3>5. CompletedLeavesDaemon'
      BY <2>1, <3>4 DEF CompletedLeavesDaemon
    <3>6. srow.st # "awaiting_selection"
      BY <2>1, NotAwaiting DEF Calm, Starting
    <3>7. active' \in Memory /\ permit' \in BOOLEAN /\ rec' \in Pol
      BY <2>1 DEF Tables
    <3> QED BY <1>0, <2>1, <3>1, <3>2, <3>3, <3>5, <3>6, <3>7, RowMove DEF Dispatching
  <2> QED BY <1>8, <2>2, <2>3 DEF FinClear
<1> QED BY <1>1, <1>2, <1>3, <1>4, <1>5, <1>6, <1>7, <1>8 DEF Finalize

-------------------------------------------------------------------------------
\* Pause and Resume, and the network reconciler.
LEMMA PauseKeeps ==
    ASSUME SeedInv, Remember, NEW x \in Client,
           \/ ~Booting /\ (PauseBegins(x) \/ ResumeBegins(x))
           \/ PauseQueued(x) \/ PauseDaemon(x) \/ PauseEntry(x) \/ PauseRow(x) \/ PauseForgets(x) \/ ResumeRow(x)
    PROVE  SeedInv'
<1> USE DEF SeedInv, NoDaemon, NoTables, NoMemory
<1>0. /\ x \in Proc /\ torrent \in Torrents /\ reached \in BOOLEAN /\ queue \in {"none", "start", "resume"}
      /\ p[x] \in Copies /\ srow.pending \in BOOLEAN /\ active \in Memory /\ permit \in BOOLEAN /\ rec \in Pol
      /\ srow \in Rows
  BY SeedShapes DEF Tables, CopiesTyped, Copies, Rows
<1>1. CASE PauseBegins(x)
  <2>0. PICK place \in {"pauseQueued", "pauseDaemon"} :
            place = IF srow.st = "queued" THEN "pauseQueued" ELSE "pauseDaemon"
    OBVIOUS
  <2> DEFINE new == [Idle EXCEPT !.at = place, !.op = "pause", !.pending = srow.pending]
  <2>1. new \in Copies /\ new.at \in {"pauseQueued", "pauseDaemon"}
    BY <1>0 DEF Idle, Copies, Places, Calm, Starting, Ops, Statuses, Pol
  <2>2. /\ p[x].at = "idle" /\ Counted /\ srow.st \in {"queued", "downloading"} /\ p' = [p EXCEPT ![x] = new]
        /\ UNCHANGED <<torrent, reached, srow, rec, chosen, queue, active, permit, lock>>
    BY <1>1, <2>0 DEF PauseBegins, At, Counted, Fine
  <2> HIDE DEF new
  <2> QED BY <1>0, <2>1, <2>2, QuietBegin DEF Calm, Starting, Dispatching, Ticking, Locked
<1>2. CASE ResumeBegins(x)
  <2> DEFINE new == [Idle EXCEPT !.at = "resumeRow", !.op = "resume", !.pending = srow.pending]
  <2>1. new \in Copies /\ new.at = "resumeRow"
    BY <1>0 DEF Idle, Copies, Places, Calm, Starting, Ops, Statuses, Pol
  <2>2. /\ p[x].at = "idle" /\ Counted /\ srow.st \in {"paused", "failed"} /\ p' = [p EXCEPT ![x] = new]
        /\ UNCHANGED <<torrent, reached, srow, rec, chosen, active, permit, lock>>
        /\ queue' \in {"none", "start", "resume"}
    BY <1>0, <1>2 DEF ResumeBegins, At, Counted, Fine
  <2> HIDE DEF new
  <2> QED BY <1>0, <2>1, <2>2, QuietBegin DEF Calm, Starting, Dispatching, Ticking, Locked
<1>3. ASSUME p[x].at \in {"pauseQueued", "pauseRow", "resumeRow"}, NEW st \in {"paused", "queued"}, UpdateRow(x, st),
             Counted, UNCHANGED <<torrent, reached, chosen, rec, active, permit, lock>>,
             queue' \in {"none", "start", "resume"},
             Done(x) \/ Goto(x, "pauseForget")
      PROVE  SeedInv'
  <2>1. Moves(x) /\ p'[x].at \in {"idle", "pauseForget"}
    BY <1>0, <1>3, DoneMoves, GotoMoves DEF Places
  <2>2. LockMoves(x)
    BY <1>3, <2>1 DEF LockMoves, Locked
  <2>3. srow' \in Rows /\ srow'.st = st
    BY <1>0, <1>3, RowShapes DEF Statuses
  <2>4. srow.st # "awaiting_selection"
    BY <1>0, <1>3, NotAwaiting DEF Calm, Starting
  <2>5. CompletedLeavesDaemon'
    BY <1>3, <2>3 DEF CompletedLeavesDaemon
  <2> QED BY <1>0, <1>3, <2>1, <2>2, <2>3, <2>4, <2>5, RowMove DEF Dispatching
<1>4. CASE PauseQueued(x)
  <2>1. /\ p[x].at = "pauseQueued" /\ Counted /\ Done(x)
        /\ UNCHANGED <<torrent, reached, rec, chosen, queue, active, permit, lock>>
    BY <1>4 DEF PauseQueued, At, Counted
  <2>2. CASE UNCHANGED srow
    BY <1>0, <2>1, <2>2, QuietDone DEF Dispatching, Locked
  <2>3. CASE UpdateRow(x, "paused")
    BY <1>0, <1>3, <2>1, <2>3
  <2> QED BY <1>4, <2>2, <2>3 DEF PauseQueued
<1>5. CASE PauseDaemon(x)
  <2>1. p[x].at = "pauseDaemon" /\ Counted
    BY <1>5 DEF PauseDaemon, At, Counted
  <2>2. CASE torrent' = Stopped /\ Goto(x, "pauseEntry")
    BY <1>0, <1>5, <2>1, <2>2, TorrentShapes, QuietGoto
    DEF PauseDaemon, Places, Calm, Starting, Dispatching, Ticking, Locked
  <2>3. CASE Done(x) /\ UNCHANGED torrent
    BY <1>0, <1>5, <2>1, <2>3, QuietDone DEF PauseDaemon, Dispatching, Locked
  <2> QED BY <1>5, <2>2, <2>3 DEF PauseDaemon
<1>6. CASE PauseEntry(x)
  <2>1. /\ p[x].at = "pauseEntry" /\ Counted /\ queue' \in {"none", "start", "resume"}
        /\ UNCHANGED <<torrent, reached, srow, rec, chosen, active, permit, lock>>
    BY <1>0, <1>6 DEF PauseEntry, At, Counted
  <2>2. PICK place \in {"pauseRow", "pauseQueued"} : Goto(x, place)
    BY <1>6 DEF PauseEntry
  <2> QED BY <1>0, <2>1, <2>2, QuietGoto DEF Places, Calm, Starting, Dispatching, Ticking, Locked
<1>7. CASE PauseRow(x)
  <2>1. /\ p[x].at = "pauseRow" /\ Counted
        /\ UNCHANGED <<torrent, reached, rec, chosen, queue, active, permit, lock>>
    BY <1>7 DEF PauseRow, At, Counted
  <2>2. CASE UNCHANGED srow /\ Done(x)
    BY <1>0, <2>1, <2>2, QuietDone DEF Dispatching, Locked
  <2>3. CASE UpdateRow(x, "paused") /\ Goto(x, "pauseForget")
    BY <1>0, <1>3, <2>1, <2>3
  <2> QED BY <1>7, <2>2, <2>3 DEF PauseRow
<1>8. CASE PauseForgets(x)
  <2>1. /\ p[x].at = "pauseForget" /\ Counted /\ Done(x) /\ RemoveActive
        /\ UNCHANGED <<torrent, reached, srow, rec, chosen, queue, lock>>
    BY <1>8 DEF PauseForgets, At, Counted
  <2>2. Moves(x) /\ p'[x].at = "idle"
    BY <1>0, <2>1, DoneMoves
  <2>3. LockMoves(x)
    BY <2>1, <2>2 DEF LockMoves, Locked
  <2>4. active' \in Memory /\ ~active'.in /\ permit' \in BOOLEAN
    BY <1>0, <2>1 DEF RemoveActive, Memory
  <2>5. srow.st # "awaiting_selection"
    BY <1>0, <2>1, NotAwaiting DEF Calm, Starting
  <2>6. CompletedLeavesDaemon'
    BY <2>1 DEF CompletedLeavesDaemon
  <2> QED BY <1>0, <2>1, <2>2, <2>3, <2>4, <2>5, <2>6, RowMove
<1>9. CASE ResumeRow(x)
  <2>1. /\ p[x].at = "resumeRow" /\ Counted /\ Done(x) /\ queue' \in {"none", "start", "resume"}
        /\ UNCHANGED <<torrent, reached, rec, chosen, active, permit, lock>>
    BY <1>0, <1>9 DEF ResumeRow, At, Counted
  <2>2. CASE UNCHANGED srow
    BY <1>0, <2>1, <2>2, QuietDone DEF Dispatching, Locked
  <2>3. CASE UpdateRow(x, "queued")
    BY <1>0, <1>3, <2>1, <2>3
  <2> QED BY <1>9, <2>2, <2>3 DEF ResumeRow
<1> QED BY <1>1, <1>2, <1>4, <1>5, <1>6, <1>7, <1>8, <1>9

LEMMA ReconcilerKeeps ==
    ASSUME SeedInv, Remember, ReconcileBegins \/ ReconcileWrites
    PROVE  SeedInv'
<1> USE DEF SeedInv, NoDaemon, NoTables, NoMemory
<1>0. R \in Proc /\ p[R] \in Copies /\ srow \in Rows /\ queue \in {"none", "start", "resume"} /\ active \in Memory
      /\ permit \in BOOLEAN /\ rec \in Pol
  BY SeedShapes DEF Tables, CopiesTyped
<1>1. CASE ReconcileBegins
  <2> DEFINE new == [Idle EXCEPT !.at = "write", !.st = srow.st, !.pending = srow.pending]
  <2>1. new \in Copies /\ new.at = "write" /\ new.st = srow.st
    BY <1>0 DEF Idle, Copies, Rows, Places, Calm, Starting, Ops, Statuses, Pol
  <2>2. /\ p[R].at = "idle" /\ Counted /\ srow.st \in {"downloading", "paused", "seeding"} /\ p' = [p EXCEPT ![R] = new]
        /\ UNCHANGED <<torrent, reached, srow, rec, chosen, queue, active, permit, lock>>
    BY <1>1 DEF ReconcileBegins, At, Counted
  <2> HIDE DEF new
  <2> QED BY <1>0, <2>1, <2>2, QuietBegin DEF Calm, Starting, Dispatching, Ticking, Locked
<1>2. CASE ReconcileWrites
  <2>1. /\ p[R].at = "write" /\ Counted /\ Done(R) /\ UpdateRow(R, p[R].st)
        /\ UNCHANGED <<torrent, reached, rec, chosen, queue, active, permit, lock>>
    BY <1>2 DEF ReconcileWrites, At, Counted
  <2>2. p[R].st \in {"downloading", "paused", "seeding"} /\ p[R].st \in Statuses
    BY <1>0, <2>1 DEF PlacesFit, FitsItsPlace, Copies
  <2>3. Moves(R) /\ p'[R].at = "idle"
    BY <1>0, <2>1, DoneMoves
  <2>4. LockMoves(R)
    BY <2>1, <2>3 DEF LockMoves, Locked
  <2>5. srow' \in Rows /\ srow'.st = p[R].st
    BY <1>0, <2>1, <2>2, RowShapes
  <2>6. srow.st # "awaiting_selection"
    BY <1>0, <2>1, NotAwaiting DEF Calm, Starting
  <2>7. CompletedLeavesDaemon'
    BY <2>2, <2>5 DEF CompletedLeavesDaemon
  <2> QED BY <1>0, <2>1, <2>2, <2>3, <2>4, <2>5, <2>6, <2>7, RowMove DEF Dispatching
<1> QED BY <1>1, <1>2

-------------------------------------------------------------------------------
\* The scheduler.
LEMMA DispatchKeeps ==
    ASSUME SeedInv, Remember, Dispatch
    PROVE  SeedInv'
<1> USE DEF SeedInv, NoDaemon, NoTables, NoMemory
<1>0. /\ S \in Proc /\ torrent \in Torrents /\ reached \in BOOLEAN /\ queue \in {"none", "start", "resume"}
      /\ p[S] \in Copies /\ srow \in Rows /\ srow.pending \in BOOLEAN /\ active \in Memory /\ permit \in BOOLEAN
      /\ rec \in Pol /\ chosen \in SUBSET File
  BY SeedShapes DEF Tables, CopiesTyped, Rows
<1>00. (~crossed' => ~crossed) /\ (~foundSeeding' => ~foundSeeding)
  BY DEF Remember
<1>1. CASE DispatchBegins
  <2> DEFINE new == [Idle EXCEPT !.at = "start", !.op = queue, !.pending = srow.pending, !.policy = rec]
  <2>1. new \in Copies /\ new.at = "start" /\ new.policy = rec
    <3>1. "start" \in Places /\ queue \in Ops /\ rec \in Pol /\ srow.pending \in BOOLEAN
      BY <1>0 DEF Places, Dispatching, Ops
    <3> DEFINE asked == [Idle EXCEPT !.at = "start"]
               from == [asked EXCEPT !.op = queue]
               pending == [from EXCEPT !.pending = srow.pending]
    <3>2. asked \in Copies /\ asked.at = "start"
      BY <3>1, SeedShapes DEF Copies
    <3> HIDE DEF asked
    <3>3. from \in Copies /\ from.at = "start"
      BY <3>1, <3>2 DEF Copies
    <3>4. new = [pending EXCEPT !.policy = rec]
      BY DEF asked
    <3> HIDE DEF from
    <3>5. pending \in Copies /\ pending.at = "start"
      BY <3>1, <3>3 DEF Copies
    <3> HIDE DEF pending, new
    <3> QED BY <3>1, <3>4, <3>5 DEF Copies
  <2>2. /\ p[S].at = "idle" /\ Counted /\ srow.st = "queued" /\ p' = [p EXCEPT ![S] = new] /\ permit' = TRUE
        /\ UNCHANGED <<torrent, reached, srow, rec, chosen, queue, active, lock>>
    BY <1>1 DEF DispatchBegins, At, Counted
  <2> HIDE DEF new
  <2>3. Moves(S) /\ p'[S].at = "start" /\ p'[S].policy = rec
    BY <1>0, <2>1, <2>2, CopyMoves
  <2>4. LockMoves(S)
    BY <2>2, <2>3 DEF LockMoves, Locked
  <2>5. StillTrue(S)'
    BY <2>2, <2>3 DEF StillTrue, Starting, Ticking
  <2>6. CompletedLeavesDaemon' /\ NobodyWatches' /\ FilesAreChosen'
    BY <1>00, <2>2 DEF CompletedLeavesDaemon, NobodyWatches, FilesAreChosen
  <2>7. SlotIsFree'
    BY <2>3 DEF SlotIsFree, Dispatching
  <2>8. PolicyIsTold'
    BY <1>00, <2>2, <2>3 DEF PolicyIsTold, Moves
  <2> QED BY <1>0, <2>2, <2>3, <2>4, <2>5, <2>6, <2>7, <2>8, OneMoves
<1>2. CASE DispatchStarts
  <2>1. p[S].at = "start" /\ Counted
    BY <1>2 DEF DispatchStarts, At, Counted
  <2>2. PICK place \in {"confirm", "undo", "refuse"} : Goto(S, place)
    BY <1>2 DEF DispatchStarts
  <2>3. torrent' \in Torrents /\ torrent'.here = torrent.here /\ torrent'.files = torrent.files
    BY <1>0, <1>2, TorrentShapes DEF DispatchStarts
  <2> QED BY <1>0, <1>2, <2>1, <2>2, <2>3, QuietGoto
      DEF DispatchStarts, Places, Calm, Starting, Dispatching, Ticking, Locked
<1>3. CASE DispatchConfirms
  <2>1. p[S].at = "confirm" /\ Counted
    BY <1>3 DEF DispatchConfirms, At, Counted
  <2>2. PICK place \in {"undo", "speed", "running"} : Goto(S, place)
    BY <1>3 DEF DispatchConfirms
  <2> QED BY <1>0, <1>3, <2>1, <2>2, QuietGoto
      DEF DispatchConfirms, Places, Calm, Starting, Dispatching, Ticking, Locked
<1>4. CASE DispatchLimits
  <2>1. p[S].at = "speed" /\ Counted
    BY <1>4 DEF DispatchLimits, At, Counted
  <2>2. PICK place \in {"running", "refuse"} : Goto(S, place)
    BY <1>4 DEF DispatchLimits
  <2> QED BY <1>0, <1>4, <2>1, <2>2, QuietGoto
      DEF DispatchLimits, Places, Calm, Starting, Dispatching, Ticking, Locked
\* The row is written, and the copy goes on to be tracked.
<1>5. ASSUME p[S].at \in {"running", "reconcile"}, p'[S].at = "track", Moves(S), Counted,
             UNCHANGED <<torrent, reached, rec, chosen, queue, active, permit, lock>>,
             srow' \in Rows, srow'.st \in {"downloading", "seeding"},
             p'[S].policy = p[S].policy \/ p'[S].policy = rec
      PROVE  SeedInv'
  <2>1. srow.st # "awaiting_selection"
    BY <1>0, <1>5, NotAwaiting DEF Calm, Starting
  <2>2. LockMoves(S)
    BY <1>5 DEF LockMoves, Locked
  <2>3. ~crossed => p'[S].policy = rec
    BY <1>0, <1>5 DEF CopiesAreTrue, StillTrue, Dispatching
  <2>4. ~crossed => StillTrue(S)'
    BY <1>5, <2>3 DEF StillTrue, Starting, Ticking
  <2>5. CompletedLeavesDaemon' /\ NobodyWatches' /\ FilesAreChosen'
    BY <1>5, <1>00, <2>1 DEF CompletedLeavesDaemon, NobodyWatches, FilesAreChosen
  <2>6. SlotIsFree'
    BY <1>5 DEF SlotIsFree, Dispatching
  <2>7. PolicyIsTold'
    BY <1>5, <1>00 DEF PolicyIsTold, Moves
  <2> QED BY <1>0, <1>5, <2>1, <2>2, <2>4, <2>5, <2>6, <2>7, OneMoves
<1>6. CASE DispatchRuns
  <2>1. /\ p[S].at = "running" /\ Counted
        /\ UNCHANGED <<torrent, reached, rec, chosen, queue, active, permit, lock>>
    BY <1>6 DEF DispatchRuns, At, Counted
  <2>2. CASE UNCHANGED srow /\ Goto(S, "reconcile")
    BY <1>0, <2>1, <2>2, QuietGoto DEF Places, Calm, Starting, Dispatching, Ticking, Locked
  <2>3. CASE UpdateRow(S, "downloading") /\ p' = [p EXCEPT ![S].at = "track", ![S].st = "downloading"]
    <3> DEFINE c == [p[S] EXCEPT !.at = "track", !.st = "downloading"]
    <3>1. c \in Copies /\ c.at = "track" /\ c.policy = p[S].policy
      BY <1>0 DEF Copies, Places, Dispatching, Statuses
    <3>2. p' = [p EXCEPT ![S] = c]
      BY <1>0, <2>3 DEF CopiesTyped
    <3> HIDE DEF c
    <3>3. Moves(S) /\ p'[S] = c
      BY <1>0, <3>1, <3>2, CopyMoves
    <3>4. srow' \in Rows /\ srow'.st = "downloading"
      BY <1>0, <2>3, RowShapes DEF Statuses
    <3> QED BY <1>5, <2>1, <3>1, <3>3, <3>4
  <2> QED BY <1>6, <2>2, <2>3 DEF DispatchRuns
<1>7. CASE DispatchReconciles
  <2>1. PICK st \in {"downloading", "seeding"} :
            /\ srow' = [srow EXCEPT !.st = st]
            /\ p' = [p EXCEPT ![S].at = "track", ![S].policy = rec, ![S].st = st]
    BY <1>7 DEF DispatchReconciles
  <2>2. /\ p[S].at = "reconcile" /\ Counted
        /\ UNCHANGED <<torrent, reached, rec, chosen, queue, active, permit, lock>>
    BY <1>7 DEF DispatchReconciles, At, Counted
  <2> DEFINE c == [p[S] EXCEPT !.at = "track", !.policy = rec, !.st = st]
  <2>3. c \in Copies /\ c.at = "track" /\ c.policy = rec
    BY <1>0 DEF Copies, Places, Dispatching, Statuses
  <2>4. p' = [p EXCEPT ![S] = c]
    BY <1>0, <2>1 DEF CopiesTyped
  <2> HIDE DEF c
  <2>5. Moves(S) /\ p'[S] = c
    BY <1>0, <2>3, <2>4, CopyMoves
  <2>6. srow' \in Rows /\ srow'.st = st
    BY <1>0, <2>1 DEF Rows, Statuses
  <2> QED BY <1>5, <2>2, <2>3, <2>5, <2>6
<1>8. CASE DispatchTracks
  <2>1. /\ p[S].at = "track" /\ Counted /\ Done(S) /\ queue' \in {"none", "start", "resume"}
        /\ UNCHANGED <<torrent, reached, srow, rec, chosen, permit, lock>>
        /\ active' = [in |-> TRUE, st |-> p[S].st, policy |-> p[S].policy]
    BY <1>0, <1>8 DEF DispatchTracks, At, Counted
  <2>2. Moves(S) /\ p'[S].at = "idle"
    BY <1>0, <2>1, DoneMoves
  <2>3. srow.st # "awaiting_selection"
    BY <1>0, <2>1, NotAwaiting DEF Calm, Starting
  <2>4. LockMoves(S)
    BY <2>1, <2>2 DEF LockMoves, Locked
  <2>5. (~crossed => p[S].policy = rec) /\ (p[S].st = "seeding" => foundSeeding)
    BY <1>0, <2>1 DEF CopiesAreTrue, StillTrue, Dispatching, PlacesFit, FitsItsPlace
  <2>6. StillTrue(S)'
    BY <2>2 DEF StillTrue, Starting, Dispatching, Ticking
  <2>7. CompletedLeavesDaemon' /\ NobodyWatches' /\ FilesAreChosen'
    BY <1>00, <2>1, <2>3 DEF CompletedLeavesDaemon, NobodyWatches, FilesAreChosen
  <2>8. SlotIsFree' /\ PolicyIsTold'
    BY <1>00, <2>1, <2>5 DEF SlotIsFree, PolicyIsTold
  <2>9. active' \in Memory
    BY <1>0, <2>1 DEF Copies, Memory
  <2> QED BY <1>0, <2>1, <2>2, <2>3, <2>4, <2>6, <2>7, <2>8, <2>9, OneMoves
<1>9. CASE DispatchUndoes
  <2>1. p[S].at = "undo" /\ Counted /\ Goto(S, "refuse")
    BY <1>9 DEF DispatchUndoes, At, Counted
  <2>2. torrent' \in Torrents /\ torrent'.here = torrent.here /\ torrent'.files = torrent.files
    BY <1>0, <1>9, TorrentShapes DEF DispatchUndoes
  <2> QED BY <1>0, <1>9, <2>1, <2>2, QuietGoto
      DEF DispatchUndoes, Places, Calm, Starting, Dispatching, Ticking, Locked
<1>10. CASE DispatchRefuses
  <2>1. /\ p[S].at = "refuse" /\ Counted /\ Done(S) /\ permit' = FALSE /\ queue' \in {"none", "start", "resume"}
        /\ UNCHANGED <<torrent, reached, rec, chosen, active, lock>>
    BY <1>0, <1>10 DEF DispatchRefuses, At, Counted
  <2>2. PICK st \in {"failed", "paused"} : UpdateRow(S, st)
    BY <1>10 DEF DispatchRefuses
  <2>3. Moves(S) /\ p'[S].at = "idle"
    BY <1>0, <2>1, DoneMoves
  <2>4. srow' \in Rows /\ srow'.st = st
    BY <1>0, <2>2, RowShapes DEF Statuses
  <2>5. srow.st # "awaiting_selection"
    BY <1>0, <2>1, NotAwaiting DEF Calm, Starting
  <2>6. LockMoves(S)
    BY <2>1, <2>3 DEF LockMoves, Locked
  <2>7. StillTrue(S)'
    BY <2>3 DEF StillTrue, Starting, Dispatching, Ticking
  <2>8. CompletedLeavesDaemon' /\ NobodyWatches' /\ FilesAreChosen'
    BY <1>00, <2>1, <2>4, <2>5 DEF CompletedLeavesDaemon, NobodyWatches, FilesAreChosen
  <2>9. SlotIsFree' /\ PolicyIsTold'
    BY <1>00, <2>1, <2>3 DEF SlotIsFree, PolicyIsTold, Moves
  <2> QED BY <1>0, <2>1, <2>3, <2>4, <2>5, <2>6, <2>7, <2>8, <2>9, OneMoves
<1> QED BY <1>1, <1>2, <1>3, <1>4, <1>6, <1>7, <1>8, <1>9, <1>10 DEF Dispatch

-------------------------------------------------------------------------------
\* The monitor.
LEMMA TickKeeps ==
    ASSUME SeedInv, Remember, Tick
    PROVE  SeedInv'
<1> USE DEF SeedInv, NoDaemon, NoTables, NoMemory
<1>0. /\ M \in Proc /\ torrent \in Torrents /\ reached \in BOOLEAN /\ queue \in {"none", "start", "resume"}
      /\ p[M] \in Copies /\ srow \in Rows /\ active \in Memory /\ permit \in BOOLEAN
      /\ rec \in Pol /\ chosen \in SUBSET File
  BY SeedShapes DEF Tables, CopiesTyped
<1>00. (~crossed' => ~crossed) /\ (~foundSeeding' => ~foundSeeding)
  BY DEF Remember
<1>1. CASE SweepBegins
  <2> DEFINE new == [Idle EXCEPT !.at = "sweepRemove"]
  <2>1. new \in Copies /\ new.at = "sweepRemove"
    BY DEF Idle, Copies, Places, Calm, Ops, Statuses, Pol
  <2>2. /\ p[M].at = "idle" /\ Counted /\ srow.st = "completed" /\ p' = [p EXCEPT ![M] = new]
        /\ UNCHANGED <<torrent, reached, srow, rec, chosen, queue, active, permit, lock>>
    BY <1>1 DEF SweepBegins, At, Counted
  <2> HIDE DEF new
  <2> QED BY <1>0, <2>1, <2>2, QuietBegin DEF Calm, Starting, Dispatching, Ticking, Locked
<1>2. CASE SweepRemoves
  <2>1. p[M].at = "sweepRemove" /\ Counted
    BY <1>2 DEF SweepRemoves, At, Counted
  <2>2. CASE torrent' = [torrent EXCEPT !.here = FALSE] /\ Goto(M, "sweepClear")
    <3>1. torrent' \in Torrents /\ ~torrent'.here /\ torrent'.files = torrent.files
      BY <1>0, <2>2, TorrentShapes
    <3> QED BY <1>0, <1>2, <2>1, <2>2, <3>1, QuietGoto
        DEF SweepRemoves, Places, Calm, Starting, Dispatching, Ticking, Locked
  <2>3. CASE Done(M) /\ UNCHANGED torrent
    BY <1>0, <1>2, <2>1, <2>3, QuietDone DEF SweepRemoves, Dispatching, Locked
  <2> QED BY <1>2, <2>2, <2>3 DEF SweepRemoves
<1>3. CASE SweepClears
  <2>1. /\ p[M].at = "sweepClear" /\ Counted /\ Done(M)
        /\ UNCHANGED <<rec, chosen, queue, torrent, reached, lock>>
    BY <1>3 DEF SweepClears, At, Counted
  <2>2. CASE UNCHANGED srow /\ NoMemory
    BY <1>0, <2>1, <2>2, QuietDone DEF Dispatching, Locked
  <2>3. CASE srow' = [st |-> "completed", pending |-> FALSE] /\ RemoveActive
    <3>1. Moves(M) /\ p'[M].at = "idle"
      BY <1>0, <2>1, DoneMoves
    <3>2. LockMoves(M)
      BY <2>1, <3>1 DEF LockMoves, Locked
    <3>3. srow' \in Rows /\ srow'.st = "completed"
      BY <2>3 DEF Rows, Statuses
    <3>4. ~torrent.here
      BY <1>0, <2>1 DEF PlacesFit, FitsItsPlace
    <3>5. CompletedLeavesDaemon'
      BY <2>1, <3>4 DEF CompletedLeavesDaemon
    <3>6. srow.st # "awaiting_selection"
      BY <1>0, <2>1, NotAwaiting DEF Calm, Starting
    <3>7. active' \in Memory /\ ~active'.in /\ permit' \in BOOLEAN
      BY <1>0, <2>3 DEF RemoveActive, Memory
    <3> QED BY <1>0, <2>1, <3>1, <3>2, <3>3, <3>5, <3>6, <3>7, RowMove
  <2> QED BY <1>3, <2>2, <2>3 DEF SweepClears
<1>4. CASE TickBegins
  <2> DEFINE new == [Idle EXCEPT !.at = "ask", !.st = active.st, !.policy = active.policy]
  <2>1. new \in Copies /\ new.at = "ask" /\ active = [in |-> TRUE, st |-> new.st, policy |-> new.policy]
    BY <1>0, <1>4 DEF TickBegins, Memory, Idle, Copies, Places, Ticking, Ops, Pol
  <2>2. /\ p[M].at = "idle" /\ Counted /\ active.in /\ p' = [p EXCEPT ![M] = new]
        /\ UNCHANGED <<torrent, reached, srow, rec, chosen, queue, active, permit, lock>>
    BY <1>4 DEF TickBegins, At, Counted
  <2>3. srow.st # "awaiting_selection"
    BY <2>2 DEF NobodyWatches
  <2> HIDE DEF new
  <2> QED BY <1>0, <2>1, <2>2, <2>3, QuietBegin DEF Calm, Starting, Dispatching, Ticking, Locked
<1>5. CASE TickAsks
  <2>1. /\ p[M].at = "ask" /\ Counted
        /\ UNCHANGED <<torrent, reached, srow, rec, chosen, queue, active, permit, lock>>
    BY <1>5 DEF TickAsks, At, Counted
  <2>2. CASE Done(M)
    BY <1>0, <2>1, <2>2, QuietDone DEF Dispatching, Locked
  <2>3. CASE /\ NextPlace(p[M], DaemonStatus, reached) # "idle"
             /\ p' = [p EXCEPT ![M].at = NextPlace(p[M], DaemonStatus, reached), ![M].seen = DaemonStatus]
    <3> DEFINE place == NextPlace(p[M], DaemonStatus, reached)
               c == [p[M] EXCEPT !.at = place, !.seen = DaemonStatus]
    <3>1. DaemonStatus \in {"gone", "paused", "downloading", "seeding", "completed"}
      BY <1>0, TorrentShapes
    <3>2. /\ place \in {"finLock", "tickStops", "seedingSince", "tickWrites", "tickPauses", "tickGone"}
          /\ place = "tickWrites" => DaemonStatus \in {"seeding", "downloading"}
                                     /\ (DaemonStatus = "seeding" => p[M].st = "seeding")
      BY <2>3, <3>1 DEF NextPlace
    <3> HIDE DEF place
    <3>3. /\ c \in Copies /\ c.at = place /\ c.seen = DaemonStatus /\ c.st = p[M].st /\ c.policy = p[M].policy
      <4> DEFINE x == p[M]
                 seen == DaemonStatus
      <4>1. /\ x \in Copies /\ place \in Places
            /\ seen \in {"gone", "paused", "downloading", "seeding", "completed"}
        BY <1>0, <3>1, <3>2 DEF CopiesTyped, Places, Ticking
      <4> HIDE DEF x, seen
      <4>2. [x EXCEPT !.at = place, !.seen = seen] \in Copies
        BY <4>1 DEF Copies
      <4>3. \A r : r = [x EXCEPT !.at = place, !.seen = seen]
                => r.at = place /\ r.seen = seen /\ r.st = x.st /\ r.policy = x.policy
        BY <4>1 DEF Copies
      <4> QED BY <4>2, <4>3 DEF x, seen
    <3>4. p' = [p EXCEPT ![M] = c]
      BY <1>0, <2>3 DEF CopiesTyped, place
    <3> HIDE DEF c
    <3>5. Moves(M) /\ p'[M] = c
      BY <1>0, <3>3, <3>4, CopyMoves
    <3>6. ~crossed => active = [in |-> TRUE, st |-> p[M].st, policy |-> p[M].policy]
      BY <1>0, <2>1 DEF CopiesAreTrue, StillTrue, Ticking
    <3>7. ~crossed => StillTrue(M)'
      BY <2>1, <3>2, <3>3, <3>5, <3>6 DEF StillTrue, Starting, Dispatching
    <3>8. LockMoves(M)
      BY <2>1, <3>2, <3>3, <3>5 DEF LockMoves, Locked
    <3>9. srow.st # "awaiting_selection"
      BY <1>0, <2>1, NotAwaiting DEF Calm, Starting
    <3> QED BY <1>0, <2>1, <3>2, <3>3, <3>5, <3>7, <3>8, <3>9, QuietMove DEF Dispatching
  <2> QED BY <1>5, <2>2, <2>3 DEF TickAsks
<1>6. CASE TickStops
  <2>1. p[M].at = "tickStops" /\ Counted /\ Goto(M, "finLock")
    BY <1>6 DEF TickStops, At, Counted
  <2>2. torrent' \in Torrents /\ torrent'.here = torrent.here /\ torrent'.files = torrent.files
    BY <1>0, <1>6, TorrentShapes DEF TickStops
  <2> QED BY <1>0, <1>6, <2>1, <2>2, QuietGoto DEF TickStops, Places, Calm, Starting, Dispatching, Ticking, Locked
<1>7. CASE SeedingSince
  <2> DEFINE c == [p[M] EXCEPT !.at = "seedingSaved", !.old = rec]
  <2>1. /\ p[M].at = "seedingSince" /\ Counted /\ p' = [p EXCEPT ![M].at = "seedingSaved", ![M].old = rec]
        /\ UNCHANGED <<torrent, reached, srow, rec, chosen, queue, active, permit, lock>>
    BY <1>7 DEF SeedingSince, At, Counted
  <2>2. c \in Copies /\ c.at = "seedingSaved" /\ c.old = rec /\ c.st = p[M].st /\ c.policy = p[M].policy
    BY <1>0 DEF Copies, Places, Ticking
  <2>3. p' = [p EXCEPT ![M] = c]
    BY <1>0, <2>1 DEF CopiesTyped
  <2> HIDE DEF c
  <2>4. Moves(M) /\ p'[M] = c
    BY <1>0, <2>2, <2>3, CopyMoves
  <2>5. ~crossed => StillTrue(M)'
    <3>1. ~crossed => active = [in |-> TRUE, st |-> p[M].st, policy |-> p[M].policy]
      BY <1>0, <2>1 DEF CopiesAreTrue, StillTrue, Ticking
    <3> QED BY <2>1, <2>2, <2>4, <3>1 DEF StillTrue, Starting, Dispatching
  <2>6. LockMoves(M)
    BY <2>1, <2>2, <2>4 DEF LockMoves, Locked
  <2>7. srow.st # "awaiting_selection"
    BY <1>0, <2>1, NotAwaiting DEF Calm, Starting
  <2> QED BY <1>0, <2>1, <2>2, <2>4, <2>5, <2>6, <2>7, QuietMove DEF Dispatching
<1>8. CASE SeedingSaved
  <2>1. /\ p[M].at = "seedingSaved" /\ Counted /\ Goto(M, "seedingRow") /\ rec' \in {rec, p[M].old}
        /\ UNCHANGED <<torrent, reached, srow, chosen, queue, active, permit, lock>>
    BY <1>8 DEF SeedingSaved, At, Counted
  <2>2. Moves(M) /\ p'[M].at = "seedingRow" /\ SameCopy(M)
    BY <1>0, <2>1, GotoMoves DEF Places, Ticking
  <2>3. ~crossed => rec' = rec
    BY <1>0, <2>1 DEF CopiesAreTrue, StillTrue
  <2>4. ~crossed => active = [in |-> TRUE, st |-> p[M].st, policy |-> p[M].policy]
    BY <1>0, <2>1 DEF CopiesAreTrue, StillTrue, Ticking
  <2>5. ~crossed => StillTrue(M)'
    BY <2>1, <2>2, <2>4 DEF StillTrue, SameCopy, Starting, Dispatching
  <2>6. LockMoves(M)
    BY <2>1, <2>2 DEF LockMoves, Locked
  <2>7. srow.st # "awaiting_selection"
    BY <1>0, <2>1, NotAwaiting DEF Calm, Starting
  <2>8. CompletedLeavesDaemon' /\ NobodyWatches' /\ FilesAreChosen'
    BY <1>00, <2>1, <2>7 DEF CompletedLeavesDaemon, NobodyWatches, FilesAreChosen
  <2>9. SlotIsFree'
    BY <1>00, <2>1, <2>2, SeedShapes DEF SlotIsFree, Moves, Dispatching
  <2>10. PolicyIsTold'
    BY <1>00, <2>1, <2>2, <2>3 DEF PolicyIsTold, Moves
  <2>11. rec' \in Pol
    BY <1>0, <2>1 DEF Copies
  <2> QED BY <1>0, <2>1, <2>2, <2>5, <2>6, <2>7, <2>8, <2>9, <2>10, <2>11, OneMoves
\* The copy becomes the active job again.
<1>9. ASSUME p[M].at \in {"seedingRow", "tickWrites"}, Done(M), Counted, NEW st \in {"seeding", "downloading"},
             active' = [in |-> TRUE, st |-> st, policy |-> p[M].policy],
             srow' = srow \/ UpdateRow(M, st),
             UNCHANGED <<torrent, reached, rec, chosen, queue, lock>>,
             permit' = FALSE \/ (permit' = permit /\ (st = "seeding" => p[M].st = "seeding"))
      PROVE  SeedInv'
  <2>1. Moves(M) /\ p'[M].at = "idle"
    BY <1>0, <1>9, DoneMoves
  <2>2. LockMoves(M)
    BY <1>9, <2>1 DEF LockMoves, Locked
  <2>3. srow' \in Rows /\ srow'.st \in {srow.st, st} /\ (srow'.st = "completed" => srow' = srow)
    BY <1>0, <1>9, RowShapes DEF Statuses
  <2>4. ~crossed => active = [in |-> TRUE, st |-> p[M].st, policy |-> p[M].policy]
    BY <1>0, <1>9 DEF CopiesAreTrue, StillTrue, Ticking
  <2>5. srow.st # "awaiting_selection"
    BY <1>0, <1>9, NotAwaiting DEF Calm, Starting
  <2>6. StillTrue(M)'
    BY <2>1 DEF StillTrue, Starting, Dispatching, Ticking
  <2>7. CompletedLeavesDaemon' /\ NobodyWatches' /\ FilesAreChosen'
    BY <1>00, <1>9, <2>3, <2>5 DEF CompletedLeavesDaemon, NobodyWatches, FilesAreChosen
  <2>8. SlotIsFree'
    BY <1>00, <1>9, <2>1, <2>4, SeedShapes DEF SlotIsFree, Moves, Dispatching
  <2>9. PolicyIsTold'
    BY <1>00, <1>9, <2>1, <2>4 DEF PolicyIsTold, Moves
  <2>10. active' \in Memory /\ permit' \in BOOLEAN
    BY <1>0, <1>9 DEF Copies, Memory, Statuses
  <2> QED BY <1>0, <1>9, <2>1, <2>2, <2>3, <2>5, <2>6, <2>7, <2>8, <2>9, <2>10, OneMoves
<1>10. CASE SeedingRow
  <2>1. /\ p[M].at = "seedingRow" /\ Done(M) /\ Counted /\ permit' = FALSE
        /\ active' = [in |-> TRUE, st |-> "seeding", policy |-> p[M].policy]
        /\ srow' = srow \/ UpdateRow(M, "seeding")
        /\ UNCHANGED <<torrent, reached, rec, chosen, queue, lock>>
    BY <1>10 DEF SeedingRow, At, Counted
  <2> QED BY <1>9, <2>1
<1>11. CASE TickWrites
  <2>1. /\ p[M].at = "tickWrites" /\ Done(M) /\ Counted /\ permit' = permit
        /\ active' = [in |-> TRUE, st |-> p[M].seen, policy |-> p[M].policy]
        /\ srow' = srow \/ UpdateRow(M, p[M].seen)
        /\ UNCHANGED <<torrent, reached, rec, chosen, queue, lock>>
    BY <1>11 DEF TickWrites, At, Counted
  <2>2. p[M].seen \in {"seeding", "downloading"} /\ (p[M].seen = "seeding" => p[M].st = "seeding")
    BY <1>0, <2>1 DEF PlacesFit, FitsItsPlace
  <2> QED BY <1>9, <2>1, <2>2
<1>12. ASSUME p[M].at \in {"tickPauses", "tickGone"}, Done(M), RemoveActive, Counted,
              UNCHANGED <<torrent, reached, rec, chosen, queue, lock>>,
              srow' = srow \/ \E st \in {"paused", "failed"} : UpdateRow(M, st)
       PROVE  SeedInv'
  <2>1. Moves(M) /\ p'[M].at = "idle"
    BY <1>0, <1>12, DoneMoves
  <2>2. LockMoves(M)
    BY <1>12, <2>1 DEF LockMoves, Locked
  <2>3. srow.st # "awaiting_selection"
    BY <1>0, <1>12, NotAwaiting DEF Calm, Starting
  <2>4. srow' \in Rows /\ (srow' = srow \/ srow'.st \in {"paused", "failed"})
    BY <1>0, <1>12, RowShapes DEF Statuses
  <2>5. CompletedLeavesDaemon'
    BY <1>12, <2>4 DEF CompletedLeavesDaemon
  <2>6. active' \in Memory /\ ~active'.in /\ permit' \in BOOLEAN
    BY <1>0, <1>12 DEF RemoveActive, Memory
  <2> QED BY <1>0, <1>12, <2>1, <2>2, <2>3, <2>4, <2>5, <2>6, RowMove
<1>13. CASE TickPauses
  BY <1>12, <1>13 DEF TickPauses, At, Counted
<1>14. CASE TickGone
  <2>1. p[M].at = "tickGone" /\ Done(M) /\ Counted /\ UNCHANGED <<torrent, reached, rec, chosen, queue, lock>>
    BY <1>14 DEF TickGone, At, Counted
  <2>2. CASE NoMemory /\ UNCHANGED srow
    BY <1>0, <2>1, <2>2, QuietDone DEF Dispatching, Locked
  <2>3. CASE RemoveActive /\ (UNCHANGED srow \/ UpdateRow(M, "failed"))
    BY <1>12, <2>1, <2>3
  <2> QED BY <1>14, <2>2, <2>3 DEF TickGone
<1> QED BY <1>1, <1>2, <1>3, <1>4, <1>5, <1>6, <1>7, <1>8, <1>10, <1>11, <1>13, <1>14 DEF Tick

-------------------------------------------------------------------------------
\* The start of the application, and the daemon.
LEMMA BootKeeps ==
    ASSUME SeedInv, Remember, BootLimits \/ BootReattaches \/ BootLost
    PROVE  SeedInv'
<1> USE DEF SeedInv, NoDaemon, NoTables, NoMemory
<1>0. /\ B \in Proc /\ torrent \in Torrents /\ reached \in BOOLEAN /\ queue \in {"none", "start", "resume"}
      /\ p[B] \in Copies /\ srow \in Rows /\ active \in Memory /\ permit \in BOOLEAN
      /\ rec \in Pol /\ chosen \in SUBSET File /\ p[B].policy \in Pol
  BY SeedShapes DEF Tables, CopiesTyped, Copies
<1>00. (~crossed' => ~crossed) /\ (~foundSeeding' => ~foundSeeding)
  BY DEF Remember
<1>1. CASE BootLimits
  <2>1. p[B].at = "bootLimit" /\ Counted /\ Goto(B, "bootStatus")
    BY <1>1 DEF BootLimits, At, Counted
  <2>2. torrent' \in Torrents /\ torrent'.here = torrent.here /\ torrent'.files = torrent.files
    BY <1>0, <1>1, TorrentShapes DEF BootLimits
  <2> QED BY <1>0, <1>1, <2>1, <2>2, QuietGoto DEF BootLimits, Places, Calm, Starting, Dispatching, Ticking, Locked
<1>2. ASSUME p[B].at = "bootStatus", Done(B), Counted, NEW st \in {"paused", "failed"},
             srow' = [srow EXCEPT !.st = st],
             UNCHANGED <<torrent, reached, rec, chosen, queue, lock, active, permit>>
      PROVE  SeedInv'
  <2>1. Moves(B) /\ p'[B].at = "idle"
    BY <1>0, <1>2, DoneMoves
  <2>2. LockMoves(B)
    BY <1>2, <2>1 DEF LockMoves, Locked
  <2>3. srow.st # "awaiting_selection"
    BY <1>0, <1>2, NotAwaiting DEF Calm, Starting
  <2>4. srow' \in Rows /\ srow'.st = st
    BY <1>0, <1>2 DEF Rows, Statuses
  <2>5. CompletedLeavesDaemon'
    BY <2>4 DEF CompletedLeavesDaemon
  <2> QED BY <1>0, <1>2, <2>1, <2>2, <2>3, <2>4, <2>5, RowMove DEF Dispatching
<1>3. CASE BootReattaches
  <2>1. /\ p[B].at = "bootStatus" /\ Counted
        /\ UNCHANGED <<torrent, reached, rec, chosen, queue, lock>>
    <3>1. DaemonStatus \in {"gone", "paused", "downloading", "seeding", "completed"}
      BY <1>0, TorrentShapes
    <3> QED BY <1>3, <3>1 DEF BootReattaches, At, Counted
  <2>2. CASE Goto(B, "finLock") /\ NoMemory /\ UNCHANGED srow
    BY <1>0, <2>1, <2>2, QuietGoto DEF Places, Calm, Starting, Dispatching, Ticking, Locked
  <2>3. CASE Done(B) /\ NoMemory /\ \E st \in {"paused", "failed"} : srow' = [srow EXCEPT !.st = st]
    BY <1>2, <2>1, <2>3
  <2>4. CASE /\ DaemonStatus \in {"downloading", "seeding"} /\ srow' = [srow EXCEPT !.st = DaemonStatus]
             /\ active' = [in |-> TRUE, st |-> DaemonStatus, policy |-> p[B].policy]
             /\ permit' = (DaemonStatus = "downloading")
             /\ Done(B)
    <3>1. Moves(B) /\ p'[B].at = "idle"
      BY <1>0, <2>4, DoneMoves
    <3>2. LockMoves(B)
      BY <2>1, <3>1 DEF LockMoves, Locked
    <3>3. srow.st # "awaiting_selection"
      BY <1>0, <2>1, NotAwaiting DEF Calm, Starting
    <3>4. srow' \in Rows /\ srow'.st = DaemonStatus
      BY <1>0, <2>4 DEF Rows, Statuses
    <3>5. ~crossed => p[B].policy = rec
      BY <1>0, <2>1 DEF CopiesAreTrue, StillTrue
    <3>6. StillTrue(B)'
      BY <3>1 DEF StillTrue, Starting, Dispatching, Ticking
    <3>7. CompletedLeavesDaemon' /\ NobodyWatches' /\ FilesAreChosen'
      BY <1>00, <2>1, <2>4, <3>3, <3>4 DEF CompletedLeavesDaemon, NobodyWatches, FilesAreChosen
    <3>8. SlotIsFree' /\ PolicyIsTold'
      BY <1>00, <2>1, <2>4, <3>5 DEF SlotIsFree, PolicyIsTold
    <3>9. active' \in Memory /\ permit' \in BOOLEAN
      BY <1>0, <2>4 DEF Memory, Statuses
    <3>10. srow'.st # "awaiting_selection"
      BY <2>4, <3>4
    <3> HIDE DEF DaemonStatus
    <3> QED BY <1>0, <2>1, <3>1, <3>2, <3>4, <3>6, <3>7, <3>8, <3>9, <3>10, OneMoves
  <2>5. DaemonStatus \in {"gone", "paused", "downloading", "seeding", "completed"}
    BY <1>0, TorrentShapes
  <2> QED BY <1>3, <2>2, <2>3, <2>4, <2>5 DEF BootReattaches
<1>4. CASE BootLost
  BY <1>2, <1>4 DEF BootLost, At, Counted
<1> QED BY <1>1, <1>3, <1>4

\* After a death everybody is idle but the recovery, which reads the record.
LEMMA RestartKeeps ==
    ASSUME SeedInv, Remember, Restart
    PROVE  SeedInv'
<1> USE DEF SeedInv, NoDaemon
<1> DEFINE boot == [Idle EXCEPT !.at = "bootLimit", !.policy = rec]
<1>1. /\ p' = [x \in Proc |-> IF x = "boot" /\ srow.st \in {"downloading", "seeding"} THEN boot ELSE Idle]
      /\ lock' = Nobody /\ active' = [in |-> FALSE, st |-> "queued", policy |-> "none"] /\ permit' = FALSE
      /\ queue' \in {"none", "start", "resume"} /\ Counted
      /\ UNCHANGED <<srow, rec, chosen, torrent, reached>>
  BY DEF Restart, Tables, Counted
<1>2. /\ boot \in Copies /\ boot.at = "bootLimit" /\ boot.policy = rec /\ boot.st = "queued"
      /\ Idle \in Copies /\ Idle.at = "idle" /\ Idle.st = "queued"
  <2>1. rec \in Pol
    BY DEF Tables
  <2> QED BY <2>1, SeedShapes DEF Idle, Copies, Places, Statuses
<1> HIDE DEF boot
<1>3. /\ p' \in [Proc -> Copies]
      /\ \A x \in Proc : /\ p'[x].st = "queued"
                         /\ \/ p'[x].at = "idle"
                            \/ p'[x].at = "bootLimit" /\ p'[x].policy = rec /\ srow.st \in {"downloading", "seeding"}
  BY <1>1, <1>2
<1>4. active' \in Memory /\ ~active'.in
  BY <1>1 DEF Memory, Statuses, Pol
<1>5. Tables'
  BY <1>1, <1>4, CountersTyped DEF Tables
<1>6. LockHeld'
  BY <1>1, <1>3, SeedShapes DEF LockHeld, Locked
<1>7. PlacesFit'
  BY <1>1, <1>3 DEF PlacesFit, FitsItsPlace, Calm
<1>8. CopiesAreTrue'
  BY <1>1, <1>3 DEF CopiesAreTrue, StillTrue, Starting, Dispatching, Ticking
<1>9. CompletedLeavesDaemon' /\ FilesAreChosen'
  BY <1>1 DEF CompletedLeavesDaemon, FilesAreChosen, Remember
<1>10. NobodyWatches' /\ SlotIsFree' /\ PolicyIsTold'
  BY <1>4 DEF NobodyWatches, SlotIsFree, PolicyIsTold
<1>11. CopiesTyped'
  BY <1>3 DEF CopiesTyped
<1> QED BY <1>5, <1>6, <1>7, <1>8, <1>9, <1>10, <1>11

LEMMA DaemonKeeps ==
    ASSUME SeedInv, Remember, PayloadArrives \/ RatioReached \/ LimitStops \/ StoppedByOthers
    PROVE  SeedInv'
<1> USE DEF SeedInv
<1>1. /\ UNCHANGED <<srow, rec, chosen, queue, active, permit, lock, p>> /\ Counted
  BY DEF PayloadArrives, RatioReached, LimitStops, StoppedByOthers, Rest, Counted, Fine
<1>2. torrent' \in Torrents /\ torrent'.here = torrent.here /\ torrent'.files = torrent.files /\ reached' \in BOOLEAN
  <2>1. torrent \in Torrents /\ reached \in BOOLEAN
    BY DEF Tables
  <2>2. \A d \in DaemonState : /\ [torrent EXCEPT !.st = d] \in Torrents /\ [torrent EXCEPT !.st = d].here = torrent.here
                               /\ [torrent EXCEPT !.st = d].files = torrent.files
    BY <2>1 DEF Torrents
  <2>3. CASE torrent' = torrent /\ reached' = TRUE
    BY <2>1, <2>3
  <2>4. CASE UNCHANGED reached /\ \E d \in DaemonState : torrent' = [torrent EXCEPT !.st = d]
    BY <2>1, <2>2, <2>4
  <2>5. CASE UNCHANGED reached /\ torrent' = Stopped
    BY <2>1, <2>5, TorrentShapes
  <2> QED BY <2>3, <2>4, <2>5 DEF PayloadArrives, RatioReached, LimitStops, StoppedByOthers, DaemonState
<1>3. Tables'
  BY <1>1, <1>2, CountersTyped DEF Tables
<1>4. CopiesTyped' /\ LockHeld'
  BY <1>1 DEF CopiesTyped, LockHeld
<1>5. (~crossed' => ~crossed) /\ (foundSeeding => foundSeeding')
  BY DEF Remember
<1>6. PlacesFit'
  BY <1>1, <1>2, <1>5 DEF PlacesFit, FitsItsPlace
<1>7. CopiesAreTrue'
  BY <1>1, <1>2, <1>5 DEF CopiesAreTrue, StillTrue
<1>8. CompletedLeavesDaemon' /\ NobodyWatches' /\ FilesAreChosen' /\ SlotIsFree' /\ PolicyIsTold'
  BY <1>1, <1>2, <1>5 DEF CompletedLeavesDaemon, NobodyWatches, FilesAreChosen, SlotIsFree, PolicyIsTold
<1> QED BY <1>3, <1>4, <1>6, <1>7, <1>8

LEMMA SeedInvStep ==
    ASSUME SeedInv, [SeedNext]_vars
    PROVE  SeedInv'
<1>1. CASE UNCHANGED vars
  BY <1>1 DEF vars, SeedInv, Tables, CopiesTyped, LockHeld, PlacesFit, FitsItsPlace, CopiesAreTrue, StillTrue,
              CompletedLeavesDaemon, NobodyWatches, FilesAreChosen, SlotIsFree, PolicyIsTold
<1>2. ASSUME NEW x \in Client, Request(x), Remember
      PROVE  SeedInv'
  BY <1>2, SeedShapes, StartKeeps, PolicyKeeps, FinishKeeps, PauseKeeps DEF Request
<1>3. ASSUME NEW x \in Proc, Finalize(x), Remember
      PROVE  SeedInv'
  BY <1>3, FinishKeeps
<1> QED BY <1>1, <1>2, <1>3, DispatchKeeps, TickKeeps, ReconcilerKeeps, BootKeeps, RestartKeeps, DaemonKeeps
        DEF SeedNext

\* Every step of requests, dispatch, monitor, reconciler, recovery and daemon keeps
\* the invariant, for any number of calls and restarts.
THEOREM SeedingInvariant == SeedSpec => []SeedInv
<1>1. SeedInit => SeedInv
  BY SeedInvInit
<1>2. SeedInv /\ [SeedNext]_vars => SeedInv'
  BY SeedInvStep
<1> QED BY <1>1, <1>2, PTL DEF SeedSpec

\* A completed job whose cleanup is not pending has no torrent in the daemon, whoever
\* finished it and whatever failed or died on the way: only one who has removed the
\* torrent clears the flag, and nothing brings a removed torrent back.
THEOREM SeedingCompletedLeavesDaemon == SeedSpec => []CompletedLeavesDaemon
BY SeedingInvariant, PTL DEF SeedInv

\* What runs is what was chosen, a seeding job holds no transfer slot and the monitor
\* acts on the policy of the record, as long as no copy of the job was crossed.
THEOREM SeedingFollowsTheUser == SeedSpec => []SeedingAsChosen
<1>1. SeedInv => SeedTypeOK
  BY DEF SeedInv, Tables, CopiesTyped, LockHeld, SeedTypeOK, Torrents, Rows, Pol, Memory
<1>2. SeedInv => RunsWhatWasChosen /\ SeedingFreesItsSlot /\ PolicyInForce
  <2> HAVE SeedInv
  <2>1. RunsWhatWasChosen
    BY DEF SeedInv, FilesAreChosen, RunsWhatWasChosen
  <2>2. SeedingFreesItsSlot
    BY SeedShapes DEF SeedInv, SlotIsFree, SeedingFreesItsSlot, AtRest, Dispatching
  <2>3. PolicyInForce
    BY DEF SeedInv, PolicyIsTold, PolicyInForce, AtRest
  <2> QED BY <2>1, <2>2, <2>3
<1> QED BY <1>1, <1>2, SeedingInvariant, PTL DEF SeedingAsChosen
===============================================================================
