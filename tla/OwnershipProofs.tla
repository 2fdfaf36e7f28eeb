---------------------------- MODULE OwnershipProofs ----------------------------
(***************************************************************************)
(* Whose torrent it is.  None of the checks that keep a second owner out   *)
(* is atomic with what it guards; what holds them together is that one tag *)
(* on the torrent, and that who has it but did not adopt it must have      *)
(* added it, at a moment when nobody else had found it.                    *)
(***************************************************************************)
EXTENDS TorrentOwnership, FiniteSetTheorems, TLAPS

USE OwnershipAssumptions

Places == {"none", "new", "preflight", "adopt", "add", "visible", "save", "record", "poll", "verify", "commit",
           "removing", "gone"}
Held == {"visible", "save", "record", "poll", "verify", "commit"}
Late == Held \cup {"adopt", "removing"}
Acquiring == Held \cup {"new", "preflight", "adopt", "add"}
Acquisitions == [at : Places, ctx : {"live", "cancelled"}, eid : BOOLEAN]
OwnRows == [status : {"none", "deleted", "analyzing", "awaiting_selection"} \cup Terminal, eid : BOOLEAN]
OwnTorrents == [here : BOOLEAN, ours : BOOLEAN, tags : SUBSET (TJob \cup {Stale}), state : TorrentState]
Begun(a) == acq[a].at \notin {"none", "gone"}
Acting(a) == Live(a) /\ acq[a].at \in Acquiring
Awaits(j) == trow[j].status = "awaiting_selection"

OwnFields ==
    /\ torrent \in OwnTorrents /\ (~torrent.here => torrent = Absent)
    /\ trow \in [TJob -> OwnRows] /\ hashOf \in [TJob -> BOOLEAN]
    /\ begun \in [TJob -> Nat] /\ cancelOf \in [TJob -> Nat]
    /\ acq \in [Acq -> Acquisitions]
    /\ upsets \in 0 .. MaxUpsets /\ adopters \subseteq TJob /\ removed \in BOOLEAN /\ overlapped \subseteq TJob
    /\ cmd \in [op : {"none", "cancel", "delete"}, job : TJob, eid : BOOLEAN]

\* Acquisitions are numbered; what has not begun has left no trace.
Numbered ==
    /\ \A j \in TJob : begun[j] \in 0 .. MaxTries[j] /\ cancelOf[j] \in 0 .. begun[j]
    /\ \A a \in Acq : a[2] > begun[a[1]] => acq[a] = NoAcq
    /\ \A j \in TJob : trow[j].status = "none" => begun[j] = 0 /\ j \notin torrent.tags

SomeoneActs == \A j \in TJob : trow[j].status = "analyzing" => \E a \in Acq : a[1] = j /\ Acting(a)

\* Who has come as far as to know the hash has seen a torrent of ours.
OursOnceTouched ==
    ~removed => /\ \A a \in Acq : acq[a].at \in Late \/ acq[a].eid => torrent.here /\ torrent.ours
                /\ \A j \in TJob : trow[j].eid \/ hashOf[j] \/ Awaits(j) => torrent.here /\ torrent.ours
                /\ cmd.eid => torrent.here /\ torrent.ours

\* A job that holds the torrent without having adopted it has the tag,
Holds(j) == Awaits(j) \/ \E a \in Acq : a[1] = j /\ acq[a].at \in Held
HolderHasTag == ~removed => \A j \in TJob : Holds(j) /\ Exists(j) /\ j \notin adopters => j \in torrent.tags

\* and as long as it exists nobody else holds the torrent, or is to adopt it.
TagKeepsOut ==
    ~removed => \A j \in TJob : j \in torrent.tags /\ Exists(j) /\ j \notin adopters =>
        /\ torrent.tags = {j}
        /\ \A k \in TJob : k # j => ~Awaits(k)
        /\ \A a \in Acq : a[1] # j => acq[a].at \notin Held \cup {"adopt"}

\* Two acquisitions of one job are remembered.
OverlapIsSeen ==
    \A a, b \in Acq : a # b /\ a[1] = b[1] /\ Begun(a) /\ Begun(b) => a[1] \in overlapped
AwaitsAlone == \A a \in Acq : Awaits(a[1]) /\ a[1] \notin overlapped => ~Begun(a)
StoppedFirst ==
    /\ \A a \in Acq : acq[a].at \in {"verify", "commit"} /\ a[1] \notin overlapped /\ a[1] \in torrent.tags
                          => torrent.state # "running"
    /\ \A j \in TJob : Awaits(j) /\ j \notin overlapped /\ j \in torrent.tags => torrent.state # "running"
ForeignRuns == ~removed /\ Foreign => torrent.state = "running"

OwnInv ==
    /\ OwnFields /\ Numbered /\ SomeoneActs /\ OursOnceTouched /\ HolderHasTag /\ TagKeepsOut
    /\ OverlapIsSeen /\ AwaitsAlone /\ StoppedFirst /\ ForeignRuns

-------------------------------------------------------------------------------
LEMMA AcqShape ==
    /\ \A a \in Acq : a[1] \in TJob /\ a[2] \in 1 .. MaxTries[a[1]] /\ a = <<a[1], a[2]>>
    /\ \A j \in TJob : \A n \in 1 .. MaxTries[j] : <<j, n>> \in Acq
BY DEF Acq

LEMMA OwnShapes ==
    /\ NoAcq \in Acquisitions /\ NoAcq.at = "none" /\ ~NoAcq.eid
    /\ [NoAcq EXCEPT !.at = "gone"] \in Acquisitions /\ [NoAcq EXCEPT !.at = "gone"].at = "gone"
    /\ ~[NoAcq EXCEPT !.at = "gone"].eid
    /\ [NoAcq EXCEPT !.at = "new"] \in Acquisitions /\ [NoAcq EXCEPT !.at = "new"].at = "new"
    /\ ~[NoAcq EXCEPT !.at = "new"].eid /\ [NoAcq EXCEPT !.at = "new"].ctx = "live"
    /\ Absent \in OwnTorrents /\ ~Absent.here /\ Absent.tags = {}
    /\ InheritedTorrents.foreign \in OwnTorrents /\ InheritedTorrents.foreign.here
    /\ ~InheritedTorrents.foreign.ours /\ InheritedTorrents.foreign.tags = {}
    /\ InheritedTorrents.foreign.state = "running"
<1>1. /\ NoAcq \in Acquisitions /\ NoAcq.at = "none" /\ ~NoAcq.eid
      /\ [NoAcq EXCEPT !.at = "gone"] \in Acquisitions /\ [NoAcq EXCEPT !.at = "gone"].at = "gone"
      /\ ~[NoAcq EXCEPT !.at = "gone"].eid
      /\ [NoAcq EXCEPT !.at = "new"] \in Acquisitions /\ [NoAcq EXCEPT !.at = "new"].at = "new"
      /\ ~[NoAcq EXCEPT !.at = "new"].eid /\ [NoAcq EXCEPT !.at = "new"].ctx = "live"
  BY DEF NoAcq, Acquisitions, Places
<1>2. Absent \in OwnTorrents /\ ~Absent.here /\ Absent.tags = {}
  BY DEF Absent, OwnTorrents, TorrentState
<1>3. /\ InheritedTorrents.foreign \in OwnTorrents /\ InheritedTorrents.foreign.here
      /\ ~InheritedTorrents.foreign.ours /\ InheritedTorrents.foreign.tags = {}
      /\ InheritedTorrents.foreign.state = "running"
  BY DEF InheritedTorrents, OwnTorrents, TorrentState
<1> QED BY <1>1, <1>2, <1>3

\* Two acquisitions of a job are counted as two.
LEMMA TwoAreCounted ==
    ASSUME NEW j \in TJob, NEW S \in SUBSET {c \in Acq : c[1] = j}, NEW a \in S, NEW b \in S, a # b
    PROVE  Cardinality(S) > 1
<1> DEFINE T == 1 .. MaxTries[j]
<1>1. IsFiniteSet({j})
  BY FS_Singleton
<1>1a. MaxTries[j] \in Int /\ 1 \in Int
  OBVIOUS
<1>1b. IsFiniteSet(T)
  BY <1>1a, FS_Interval
<1>2. IsFiniteSet({j} \X T)
  BY <1>1, <1>1b, FS_Product
<1>3. S \subseteq {j} \X T
  <2>1. ASSUME NEW c \in S
        PROVE  c \in {j} \X T
    <3>1. c \in Acq /\ c[1] = j
      OBVIOUS
    <3>2. c = <<c[1], c[2]>> /\ c[2] \in T
      BY <3>1, AcqShape
    <3> QED BY <3>1, <3>2
  <2> QED BY <2>1
<1>4. IsFiniteSet(S)
  BY <1>2, <1>3, FS_Subset
<1>5. IsFiniteSet({a}) /\ Cardinality({a}) = 1
  BY FS_Singleton
<1>6. b \notin {a} /\ {a} \subseteq S
  OBVIOUS
<1>7. Cardinality({a}) <= Cardinality(S) /\ (Cardinality({a}) = Cardinality(S) => {a} = S)
  BY <1>4, <1>6, FS_Subset
<1>8. Cardinality(S) \in Nat
  BY <1>4, FS_CardinalityType
<1> QED BY <1>5, <1>6, <1>7, <1>8

LEMMA OwnInvInit ==
    ASSUME OwnInit
    PROVE  OwnInv
<1>1. PICK h \in Inherited : torrent = InheritedTorrents[h]
  BY DEF OwnInit
<1>2. /\ torrent \in OwnTorrents /\ (~torrent.here => torrent = Absent) /\ torrent.tags \subseteq {Stale}
      /\ (Foreign => torrent.state = "running")
  <2>1. h \in {"nothing", "foreign", "orphan"}
    OBVIOUS
  <2>2. CASE h = "nothing"
    BY <1>1, <2>2, OwnShapes DEF InheritedTorrents, Foreign
  <2>3. CASE h = "foreign"
    BY <1>1, <2>3, OwnShapes DEF Foreign
  <2>4. CASE h = "orphan"
    BY <1>1, <2>4 DEF InheritedTorrents, OwnTorrents, TorrentState, Foreign
  <2> QED BY <2>1, <2>2, <2>3, <2>4
<1>3. /\ \A j \in TJob : trow[j].status = "none" /\ ~trow[j].eid /\ ~hashOf[j] /\ begun[j] = 0 /\ cancelOf[j] = 0
      /\ \A a \in Acq : acq[a] = NoAcq
      /\ adopters = {} /\ removed = FALSE /\ overlapped = {} /\ upsets = 0 /\ cmd = NoCmd
  BY DEF OwnInit, None
<1>4. \A a \in Acq : acq[a].at = "none" /\ ~acq[a].eid /\ a[1] \in TJob
  BY <1>3, OwnShapes, AcqShape
<1>5. cmd \in [op : {"none", "cancel", "delete"}, job : TJob, eid : BOOLEAN] /\ ~cmd.eid
  <2>1. (CHOOSE j \in TJob : TRUE) \in TJob
    OBVIOUS
  <2> QED BY <1>3, <2>1 DEF NoCmd
<1>6. OwnFields
  <2>1. trow \in [TJob -> OwnRows] /\ hashOf \in [TJob -> BOOLEAN]
    BY DEF OwnInit, OwnRows
  <2>2. acq \in [Acq -> Acquisitions]
    BY OwnShapes DEF OwnInit
  <2>3. upsets \in 0 .. MaxUpsets
    BY <1>3
  <2>4. begun \in [TJob -> Nat] /\ cancelOf \in [TJob -> Nat]
    BY DEF OwnInit, None
  <2> QED BY <1>2, <1>3, <1>5, <2>1, <2>2, <2>3, <2>4 DEF OwnFields
<1>7. Numbered
  <2>1. \A j \in TJob : MaxTries[j] \in Nat
    OBVIOUS
  <2>2. \A j \in TJob : j \notin torrent.tags
    BY <1>2 DEF Stale
  <2> QED BY <1>3, <2>1, <2>2 DEF Numbered
<1>8. SomeoneActs /\ OursOnceTouched /\ HolderHasTag /\ OverlapIsSeen /\ AwaitsAlone
  BY <1>3, <1>4, <1>5 DEF SomeoneActs, OursOnceTouched, Late, Held, Awaits, HolderHasTag, Holds, Exists, OverlapIsSeen,
     AwaitsAlone, Begun
<1>9. TagKeepsOut /\ StoppedFirst /\ ForeignRuns
  BY <1>2, <1>3, <1>4 DEF TagKeepsOut, Exists, StoppedFirst, ForeignRuns, Awaits
<1> QED BY <1>6, <1>7, <1>8, <1>9 DEF OwnInv

-------------------------------------------------------------------------------
\* A step of one acquisition.
AcqMoves(a) ==
    /\ acq' \in [Acq -> Acquisitions] /\ \A b \in Acq : b # a => acq'[b] = acq[b]
    /\ Begun(a) /\ acq'[a].at # "none"
    /\ \/ cancelOf' = cancelOf
       \/ \E n \in {0, a[2]} : cancelOf' = [cancelOf EXCEPT ![a[1]] = n]
RowMoves(j) ==
    /\ trow' \in [TJob -> OwnRows] /\ \A k \in TJob : k # j => trow'[k] = trow[k]
    /\ \/ trow'[j] = trow[j]
       \/ Exists(j) /\ trow'[j].status \in {"failed", "analyzing", "awaiting_selection"}
HashMoves(j) == hashOf' \in [TJob -> BOOLEAN] /\ \A k \in TJob : k # j => hashOf'[k] = hashOf[k]

\* What an acquisition does to the torrent.
Stops == torrent.here /\ torrent' = [torrent EXCEPT !.state = "stopped"]
Adopts(j) ==
    /\ torrent.here /\ torrent'.here /\ torrent'.ours /\ torrent'.state = torrent.state
    /\ torrent'.tags = {j} \/ torrent'.tags = torrent.tags \cup {j}
Adds(j) == ~torrent.here /\ torrent'.here /\ torrent'.ours /\ torrent'.tags = {j} /\ torrent'.state # "running"
TorrentMoves(a) ==
    /\ torrent' \in OwnTorrents /\ (~torrent'.here => torrent' = Absent)
    /\ \/ torrent' = torrent
       \/ torrent' = Absent /\ acq[a].at \in Late
       \/ Stops /\ acq[a].at = "poll"
       \/ Adopts(a[1]) /\ acq[a].at = "adopt"
       \/ Adds(a[1]) /\ acq[a].at = "add"

LEMMA TorrentKinds ==
    ASSUME OwnInv, Remember, NEW a \in Acq, TorrentMoves(a)
    PROVE  /\ ~removed' => ~removed /\ (torrent.here => torrent'.here) /\ (torrent.here /\ torrent.ours => torrent'.ours)
           /\ Foreign /\ ~removed => torrent' = torrent
           /\ \A k \in torrent'.tags : k \in torrent.tags \/ k = a[1]
           /\ ~removed' => \/ torrent'.tags = torrent.tags
                           \/ acq[a].at = "adopt" /\ torrent.here /\ a[1] \in torrent'.tags
                              /\ (torrent'.tags = {a[1]} \/ torrent'.tags = torrent.tags \cup {a[1]})
                           \/ ~torrent.here /\ torrent'.tags = {a[1]} /\ acq[a].at = "add"
           /\ torrent'.tags = torrent.tags \/ torrent'.tags = {} \/ acq[a].at \in {"adopt", "add"}
           /\ torrent'.here /\ ~torrent'.ours => torrent.here /\ ~torrent.ours
           /\ torrent'.here /\ torrent'.state = "running" => torrent.here /\ torrent.state = "running"
           /\ torrent.here => adopters' = adopters \cup (torrent'.tags \ torrent.tags)
           /\ adopters \subseteq adopters'
<1> USE DEF OwnInv
<1>0. /\ torrent \in OwnTorrents /\ (~torrent.here => torrent = Absent) /\ removed \in BOOLEAN
  BY DEF OwnFields
<1>00. /\ removed' = (removed \/ (torrent.here /\ ~torrent'.here))
       /\ adopters' = IF torrent.here THEN adopters \cup (torrent'.tags \ torrent.tags) ELSE adopters
  BY DEF Remember
<1>1. Foreign /\ ~removed => acq[a].at \notin Late
  BY DEF OursOnceTouched, Foreign
<1>2. CASE torrent' = torrent
  BY <1>0, <1>00, <1>2
<1>3. CASE torrent' = Absent /\ acq[a].at \in Late
  BY <1>0, <1>00, <1>1, <1>3, OwnShapes
<1>4. CASE Stops /\ acq[a].at = "poll"
  <2>1. torrent'.here = torrent.here /\ torrent'.ours = torrent.ours /\ torrent'.tags = torrent.tags
        /\ torrent'.state = "stopped"
    BY <1>0, <1>4 DEF Stops, OwnTorrents
  <2>2. acq[a].at \in Late
    BY <1>4 DEF Late, Held
  <2> QED BY <1>0, <1>00, <1>1, <1>4, <2>1, <2>2 DEF Foreign
<1>5. CASE Adopts(a[1]) /\ acq[a].at = "adopt"
  BY <1>0, <1>00, <1>1, <1>5 DEF Adopts, Late
<1>6. CASE Adds(a[1]) /\ acq[a].at = "add"
  BY <1>0, <1>00, <1>1, <1>6, OwnShapes DEF Adds, Foreign
<1> QED BY <1>2, <1>3, <1>4, <1>5, <1>6 DEF TorrentMoves

\* What every step of an acquisition keeps to: it commits from "commit" only, and
\* who comes to hold the torrent, or to adopt it, has just read whose it is.
Careful(a) ==
    /\ trow'[a[1]].status = "analyzing" => \/ acq'[a].ctx = "live" /\ acq'[a].at \in Acquiring
                                           \/ trow[a[1]].status = "analyzing" /\ ~Acting(a)
    /\ trow'[a[1]].status = "awaiting_selection" => Awaits(a[1]) \/ (acq[a].at = "commit" /\ acq'[a].at = "gone")
    /\ ~removed /\ ~removed' /\ (acq'[a].at \in Late \/ acq'[a].eid \/ trow'[a[1]].eid \/ hashOf'[a[1]])
           => torrent'.here /\ torrent'.ours
    /\ acq'[a].at \in Held => acq[a].at \in Held \/ a[1] \in torrent'.tags
    /\ acq'[a].at \in Held \cup {"adopt"} =>
           \/ acq[a].at \in Held \cup {"adopt"} \/ ~torrent.here \/ a[1] \in torrent.tags
           \/ \A k \in torrent.tags \cap TJob : ~Exists(k)
    /\ acq'[a].at \in {"verify", "commit"} => acq[a].at \in {"verify", "commit"} \/ torrent'.state # "running"

AcquisitionMoves(a) ==
    /\ AcqMoves(a) /\ RowMoves(a[1]) /\ HashMoves(a[1]) /\ ClientsStay /\ TorrentMoves(a) /\ Careful(a)

LEMMA AcquisitionFields ==
    ASSUME OwnInv, Remember, NEW a \in Acq, AcquisitionMoves(a)
    PROVE  OwnFields' /\ Numbered'
<1> DEFINE j == a[1]
<1>0. /\ j \in TJob /\ AcqMoves(a) /\ RowMoves(j) /\ HashMoves(j) /\ ClientsStay /\ TorrentMoves(a)
      /\ OwnFields /\ Numbered
  BY AcqShape DEF AcquisitionMoves, OwnInv
<1>1. /\ \A k \in torrent'.tags : k \in torrent.tags \/ k = j
      /\ adopters' = adopters \/ adopters' = adopters \cup (torrent'.tags \ torrent.tags)
  BY TorrentKinds DEF AcquisitionMoves, Remember
<1>2. a[2] \in 1 .. MaxTries[j] /\ a[2] <= begun[j] /\ begun[j] \in Nat
  <2>1. a[2] \in 1 .. MaxTries[j]
    BY AcqShape
  <2>2. begun[j] \in Nat /\ (a[2] > begun[j] => acq[a] = NoAcq)
    BY <1>0 DEF OwnFields, Numbered
  <2>3. acq[a] # NoAcq
    BY <1>0, OwnShapes DEF AcqMoves, Begun
  <2>4. a[2] \in Int
    BY <2>1
  <2> QED BY <2>1, <2>2, <2>3, <2>4
<1>3. cancelOf' \in [TJob -> Nat] /\ \A k \in TJob : cancelOf'[k] \in 0 .. begun[k]
  <2>1. cancelOf \in [TJob -> Nat] /\ \A k \in TJob : cancelOf[k] \in 0 .. begun[k] /\ begun[k] \in Nat
    BY <1>0 DEF OwnFields, Numbered
  <2>2. a[2] \in Nat
    BY <1>2
  <2>3. ASSUME NEW n \in {0, a[2]}, cancelOf' = [cancelOf EXCEPT ![j] = n]
        PROVE  cancelOf' \in [TJob -> Nat] /\ \A k \in TJob : cancelOf'[k] \in 0 .. begun[k]
    <3>1. n \in Nat /\ n <= begun[j]
      BY <1>2, <2>2
    <3> QED BY <2>1, <2>3, <3>1, <1>0
  <2> QED BY <1>0, <2>1, <2>3 DEF AcqMoves
<1>4. OwnFields'
  <2>1. adopters' \subseteq TJob
    BY <1>0, <1>1 DEF OwnFields
  <2>2. removed' \in BOOLEAN
    BY <1>0 DEF Remember, OwnFields
  <2>3. overlapped' \subseteq TJob
    BY <1>0 DEF Remember, OwnFields
  <2>4. begun' = begun /\ cmd' = cmd /\ upsets' = upsets
    BY <1>0 DEF ClientsStay
  <2>5. torrent' \in OwnTorrents /\ (~torrent'.here => torrent' = Absent)
    BY <1>0 DEF TorrentMoves
  <2>6. acq' \in [Acq -> Acquisitions] /\ trow' \in [TJob -> OwnRows] /\ hashOf' \in [TJob -> BOOLEAN]
    BY <1>0 DEF AcqMoves, RowMoves, HashMoves
  <2>7. (~torrent.here => torrent = Absent)'
    BY <2>5 DEF Absent
  <2> QED BY <1>0, <1>3, <2>1, <2>2, <2>3, <2>4, <2>5, <2>6, <2>7 DEF OwnFields, OwnTorrents, OwnRows, Acquisitions, Acq, Absent,
          TorrentState, Places, Terminal
<1>5. Numbered'
  <2>1. begun' = begun
    BY <1>0 DEF ClientsStay
  <2>2. \A b \in Acq : b[2] > begun'[b[1]] => acq'[b] = NoAcq
    <3>1. ~(a[2] > begun[j])
      BY <1>2
    <3> QED BY <1>0, <2>1, <3>1 DEF AcqMoves, Numbered
  <2>3. \A k \in TJob : trow'[k].status = "none" => begun'[k] = 0 /\ k \notin torrent'.tags
    <3>1. begun[j] # 0
      BY <1>2
    <3>2. trow[j].status # "none"
      BY <1>0, <3>1 DEF Numbered
    <3>3. trow'[j].status # "none"
      BY <1>0, <3>2 DEF RowMoves
    <3> QED BY <1>0, <1>1, <2>1, <3>3 DEF RowMoves, Numbered
  <2>4. \A k \in TJob : begun'[k] \in 0 .. MaxTries[k] /\ cancelOf'[k] \in 0 .. begun'[k]
    BY <1>0, <1>3, <2>1 DEF Numbered
  <2>5. (\A b \in Acq : b[2] > begun[b[1]] => acq[b] = NoAcq)'
    BY <2>2 DEF Acq, NoAcq
  <2> QED BY <2>3, <2>4, <2>5 DEF Numbered
<1> QED BY <1>4, <1>5

LEMMA AcquisitionActs ==
    ASSUME OwnInv, Remember, NEW a \in Acq, AcquisitionMoves(a)
    PROVE  SomeoneActs' /\ OverlapIsSeen' /\ AwaitsAlone'
<1> DEFINE j == a[1]
<1>0. /\ j \in TJob /\ AcqMoves(a) /\ RowMoves(j) /\ Careful(a) /\ SomeoneActs /\ OverlapIsSeen /\ AwaitsAlone
  BY AcqShape DEF AcquisitionMoves, OwnInv
<1>1. /\ \A b \in Acq : b # a => acq'[b] = acq[b]
      /\ \A k \in TJob : k # j => trow'[k] = trow[k]
      /\ Begun(a) /\ acq'[a].at # "none"
  BY <1>0 DEF AcqMoves, RowMoves
<1>2. SomeoneActs'
  <2>1. SUFFICES ASSUME NEW k \in TJob, trow'[k].status = "analyzing"
                 PROVE  \E b \in Acq : b[1] = k /\ acq'[b].ctx = "live" /\ acq'[b].at \in Acquiring
    BY DEF SomeoneActs, Acting, Live, Acquiring, Held, Acq
  <2>2. CASE k # j
    <3>1. PICK b \in Acq : b[1] = k /\ Acting(b)
      BY <1>0, <1>1, <2>1, <2>2 DEF SomeoneActs
    <3> QED BY <1>1, <2>2, <3>1 DEF Acting, Live
  <2>3. CASE k = j /\ acq'[a].ctx = "live" /\ acq'[a].at \in Acquiring
    BY <2>3
  <2>4. CASE k = j /\ trow[j].status = "analyzing" /\ ~Acting(a)
    <3>1. PICK b \in Acq : b[1] = j /\ Acting(b)
      BY <1>0, <2>4 DEF SomeoneActs
    <3> QED BY <1>1, <2>4, <3>1 DEF Acting, Live
  <2> QED BY <1>0, <2>1, <2>2, <2>3, <2>4 DEF Careful
<1>3. \A b \in Acq : acq'[b].at \notin {"none", "gone"} => Begun(b)
  BY <1>1 DEF Begun
<1>4. overlapped \subseteq overlapped'
  BY DEF Remember
<1>5. OverlapIsSeen'
  <2>1. \A b, c \in Acq : b # c /\ b[1] = c[1] /\ acq'[b].at \notin {"none", "gone"} /\ acq'[c].at \notin {"none", "gone"}
            => b[1] \in overlapped'
    BY <1>0, <1>3, <1>4 DEF OverlapIsSeen
  <2> QED BY <2>1 DEF OverlapIsSeen, Begun, Acq
<1>6. AwaitsAlone'
  <2>1. SUFFICES ASSUME NEW b \in Acq, trow'[b[1]].status = "awaiting_selection", b[1] \notin overlapped'
                 PROVE  acq'[b].at \in {"none", "gone"}
    BY DEF AwaitsAlone, Awaits, Begun, Acq
  <2>2. b[1] \in TJob /\ b[1] \notin overlapped
    BY <1>4, <2>1, AcqShape
  <2>3. CASE Awaits(b[1])
    <3>1. ~Begun(b)
      BY <1>0, <2>2, <2>3 DEF AwaitsAlone
    <3> QED BY <1>3, <3>1
  <2>4. CASE ~Awaits(b[1])
    <3>1. b[1] = j /\ acq'[a].at = "gone"
      BY <1>0, <1>1, <2>1, <2>2, <2>4 DEF Careful, Awaits
    <3>2. CASE b = a
      BY <3>1, <3>2
    <3>3. CASE b # a
      BY <1>0, <1>1, <1>3, <2>2, <3>1, <3>3 DEF OverlapIsSeen
    <3> QED BY <3>2, <3>3
  <2> QED BY <2>3, <2>4
<1> QED BY <1>2, <1>5, <1>6

LEMMA AcquisitionKnowsOurs ==
    ASSUME OwnInv, Remember, NEW a \in Acq, AcquisitionMoves(a)
    PROVE  OursOnceTouched' /\ ForeignRuns'
<1> DEFINE j == a[1]
<1>0. /\ j \in TJob /\ AcqMoves(a) /\ RowMoves(j) /\ HashMoves(j) /\ Careful(a) /\ ClientsStay
      /\ OwnFields /\ OursOnceTouched /\ ForeignRuns
  BY AcqShape DEF AcquisitionMoves, OwnInv
<1>1. /\ \A b \in Acq : b # a => acq'[b] = acq[b]
      /\ \A k \in TJob : k # j => trow'[k] = trow[k] /\ hashOf'[k] = hashOf[k]
      /\ cmd' = cmd
  BY <1>0 DEF AcqMoves, RowMoves, HashMoves, ClientsStay
<1>2. ~removed' => ~removed /\ (torrent.here /\ torrent.ours => torrent'.here /\ torrent'.ours)
  BY TorrentKinds DEF AcquisitionMoves
<1>3. ASSUME ~removed'
      PROVE  /\ \A b \in Acq : acq'[b].at \in Late \/ acq'[b].eid => torrent'.here /\ torrent'.ours
             /\ \A k \in TJob : trow'[k].eid \/ hashOf'[k] \/ trow'[k].status = "awaiting_selection"
                                    => torrent'.here /\ torrent'.ours
             /\ cmd'.eid => torrent'.here /\ torrent'.ours
  <2>0. ~removed /\ ~removed'
    BY <1>2, <1>3
  <2>1. cmd'.eid => torrent'.here /\ torrent'.ours
    BY <1>0, <1>1, <1>2, <1>3 DEF OursOnceTouched
  <2>2. \A b \in Acq : acq'[b].at \in Late \/ acq'[b].eid => torrent'.here /\ torrent'.ours
    BY <1>0, <1>1, <1>2, <1>3, <2>0 DEF OursOnceTouched, Careful
  <2>3. \A k \in TJob : k # j /\ (trow'[k].eid \/ hashOf'[k] \/ trow'[k].status = "awaiting_selection")
                                    => torrent'.here /\ torrent'.ours
    BY <1>0, <1>1, <1>2, <1>3, <2>0 DEF OursOnceTouched, Awaits
  <2>4. trow'[j].eid \/ hashOf'[j] => torrent'.here /\ torrent'.ours
    BY <1>0, <2>0 DEF Careful
  <2>5. trow'[j].status = "awaiting_selection" => torrent'.here /\ torrent'.ours
    <3>1. trow'[j].status = "awaiting_selection" => Awaits(j) \/ acq[a].at \in Late
      BY <1>0 DEF Careful, Late, Held
    <3> QED BY <3>1, <1>0, <1>2, <1>3, <2>0 DEF OursOnceTouched
  <2> QED BY <2>1, <2>2, <2>3, <2>4, <2>5
<1>4. OursOnceTouched'
  BY <1>3 DEF OursOnceTouched, Awaits, Late, Held, Acq
<1>5. ForeignRuns'
  <2>1. SUFFICES ASSUME ~removed', torrent'.here, ~torrent'.ours
                 PROVE  torrent'.state = "running"
    BY DEF ForeignRuns, Foreign
  <2>2. ~removed /\ Foreign /\ torrent' = torrent
    BY <2>1, TorrentKinds DEF AcquisitionMoves, Foreign
  <2> QED BY <1>0, <2>2 DEF ForeignRuns
<1> QED BY <1>4, <1>5

\* Nobody else can touch a torrent whose tag keeps them out.
LEMMA TagIsKept ==
    ASSUME OwnInv, Remember, NEW a \in Acq, AcquisitionMoves(a), ~removed',
           NEW k \in TJob, k \in torrent.tags, Exists(k), k \notin adopters
    PROVE  /\ torrent.tags = {k} /\ torrent'.tags = {k} /\ torrent.here
           /\ \A i \in TJob : i # k => trow'[i].status # "awaiting_selection"
           /\ \A b \in Acq : b[1] # k => acq'[b].at \notin Held \cup {"adopt"}
<1> DEFINE j == a[1]
<1>0. /\ j \in TJob /\ AcqMoves(a) /\ RowMoves(j) /\ Careful(a)
      /\ OwnFields /\ TagKeepsOut
  BY AcqShape DEF AcquisitionMoves, OwnInv
<1>1. /\ \A b \in Acq : b # a => acq'[b] = acq[b]
      /\ \A i \in TJob : i # j => trow'[i] = trow[i]
  BY <1>0 DEF AcqMoves, RowMoves
<1>2. /\ ~removed
      /\ \/ torrent'.tags = torrent.tags
         \/ acq[a].at = "adopt" /\ torrent.here /\ j \in torrent'.tags
            /\ (torrent'.tags = {j} \/ torrent'.tags = torrent.tags \cup {j})
         \/ ~torrent.here /\ torrent'.tags = {j} /\ acq[a].at = "add"
  BY TorrentKinds DEF AcquisitionMoves
<1>3. /\ torrent.tags = {k}
      /\ \A i \in TJob : i # k => ~Awaits(i)
      /\ \A b \in Acq : b[1] # k => acq[b].at \notin Held \cup {"adopt"}
  BY <1>0, <1>2 DEF TagKeepsOut
<1>4. torrent.here
  BY <1>0, <1>3, OwnShapes DEF OwnFields
<1>5. torrent'.tags = {k}
  <2>1. j # k => acq[a].at # "adopt"
    BY <1>3
  <2> QED BY <1>2, <1>3, <1>4, <2>1
<1>6. ASSUME NEW i \in TJob, i # k
      PROVE  trow'[i].status # "awaiting_selection"
  <2>1. CASE i # j
    BY <1>1, <1>3, <1>6, <2>1 DEF Awaits
  <2>2. CASE i = j
    <3>1. acq[a].at # "commit" /\ ~Awaits(j)
      BY <1>3, <1>6, <2>2 DEF Held
    <3> QED BY <1>0, <2>2, <3>1 DEF Careful
  <2> QED BY <2>1, <2>2
<1>7. ASSUME NEW b \in Acq, b[1] # k
      PROVE  acq'[b].at \notin Held \cup {"adopt"}
  <2>1. CASE b # a
    BY <1>1, <1>3, <1>7, <2>1
  <2>2. CASE b = a
    <3>1. acq[a].at \notin Held \cup {"adopt"} /\ j \notin torrent.tags
      BY <1>3, <1>7, <2>2
    <3>2. ~(\A o \in torrent.tags \cap TJob : ~Exists(o))
      OBVIOUS
    <3> QED BY <1>0, <1>4, <2>2, <3>1, <3>2 DEF Careful
  <2> QED BY <2>1, <2>2
<1> QED BY <1>3, <1>4, <1>5, <1>6, <1>7

LEMMA AcquisitionKeepsTags ==
    ASSUME OwnInv, Remember, NEW a \in Acq, AcquisitionMoves(a)
    PROVE  HolderHasTag' /\ TagKeepsOut'
<1> DEFINE j == a[1]
<1>0. /\ j \in TJob /\ AcqMoves(a) /\ RowMoves(j) /\ Careful(a) /\ TorrentMoves(a)
      /\ OwnFields /\ HolderHasTag /\ OursOnceTouched
  BY AcqShape DEF AcquisitionMoves, OwnInv
<1>1. /\ \A b \in Acq : b # a => acq'[b] = acq[b]
      /\ \A k \in TJob : k # j => trow'[k] = trow[k]
  BY <1>0 DEF AcqMoves, RowMoves
<1>2. \A k \in TJob : trow'[k].status \notin {"none", "deleted"} => Exists(k)
  BY <1>0, <1>1 DEF RowMoves, Exists
<1>3. /\ ~removed' => ~removed
      /\ \A k \in torrent'.tags : k \in torrent.tags \/ k = a[1]
      /\ ~removed' => \/ torrent'.tags = torrent.tags
                      \/ acq[a].at = "adopt" /\ torrent.here /\ a[1] \in torrent'.tags
                         /\ (torrent'.tags = {a[1]} \/ torrent'.tags = torrent.tags \cup {a[1]})
                      \/ ~torrent.here /\ torrent'.tags = {a[1]} /\ acq[a].at = "add"
      /\ torrent.here => adopters' = adopters \cup (torrent'.tags \ torrent.tags)
      /\ adopters \subseteq adopters'
  BY TorrentKinds DEF AcquisitionMoves
<1>4. HolderHasTag'
  <2>1. SUFFICES ASSUME ~removed', NEW k \in TJob, k \notin adopters', trow'[k].status \notin {"none", "deleted"},
                        \/ trow'[k].status = "awaiting_selection"
                        \/ \E b \in Acq : b[1] = k /\ acq'[b].at \in Held
                 PROVE  k \in torrent'.tags
    BY DEF HolderHasTag, Holds, Awaits, Exists, Held, Acq
  <2>2. Exists(k) /\ k \notin adopters /\ ~removed
    BY <1>2, <1>3, <2>1
  <2>3. CASE Holds(k)
    <3>1. k \in torrent.tags
      BY <1>0, <2>2, <2>3 DEF HolderHasTag
    <3> QED BY <2>1, <2>2, <3>1, TagIsKept
  <2>4. CASE ~Holds(k)
    <3>1. ~Awaits(k) /\ \A b \in Acq : b[1] = k => acq[b].at \notin Held
      BY <2>4 DEF Holds
    <3>2. k = j
      BY <1>1, <2>1, <3>1 DEF Awaits
    <3>3. acq[a].at \notin Held
      BY <3>1, <3>2
    <3>4. trow'[j].status # "awaiting_selection"
      BY <1>0, <3>1, <3>2, <3>3 DEF Careful, Held
    <3>5. acq'[a].at \in Held
      BY <1>1, <2>1, <3>1, <3>2, <3>4
    <3> QED BY <1>0, <3>2, <3>3, <3>5 DEF Careful
  <2> QED BY <2>3, <2>4
<1>5. TagKeepsOut'
  <2>1. SUFFICES ASSUME ~removed', NEW k \in TJob, k \notin adopters', trow'[k].status \notin {"none", "deleted"},
                        k \in torrent'.tags
                 PROVE  /\ torrent'.tags = {k}
                        /\ \A i \in TJob : i # k => trow'[i].status # "awaiting_selection"
                        /\ \A b \in Acq : b[1] # k => acq'[b].at \notin Held \cup {"adopt"}
    BY DEF TagKeepsOut, Awaits, Exists, Held, Acq
  <2>2. Exists(k) /\ k \notin adopters /\ ~removed
    BY <1>2, <1>3, <2>1
  <2>3. CASE k \in torrent.tags
    BY <2>1, <2>2, <2>3, TagIsKept
  <2>4. CASE k \notin torrent.tags
    <3>1. k = j /\ ~torrent.here /\ torrent'.tags = {j} /\ acq[a].at = "add"
      BY <1>3, <2>1, <2>4
    <3>2. /\ \A i \in TJob : ~Awaits(i)
          /\ \A b \in Acq : acq[b].at \notin Late
      BY <1>0, <2>2, <3>1 DEF OursOnceTouched
    <3> QED BY <1>1, <3>1, <3>2 DEF Late, Awaits
  <2> QED BY <2>3, <2>4
<1> QED BY <1>4, <1>5

LEMMA AcquisitionStaysStopped ==
    ASSUME OwnInv, Remember, NEW a \in Acq, AcquisitionMoves(a)
    PROVE  StoppedFirst'
<1> DEFINE j == a[1]
<1>0. /\ j \in TJob /\ AcqMoves(a) /\ RowMoves(j) /\ Careful(a) /\ TorrentMoves(a)
      /\ OwnFields /\ OverlapIsSeen /\ AwaitsAlone /\ StoppedFirst /\ Begun(a)
  BY AcqShape DEF AcquisitionMoves, OwnInv, AcqMoves
<1>1. /\ \A b \in Acq : b # a => acq'[b] = acq[b]
      /\ \A k \in TJob : k # j => trow'[k] = trow[k]
  BY <1>0 DEF AcqMoves, RowMoves
<1>2. /\ \A k \in torrent'.tags : k \in torrent.tags \/ k = a[1]
      /\ torrent'.tags = torrent.tags \/ torrent'.tags = {} \/ acq[a].at \in {"adopt", "add"}
      /\ torrent'.here /\ torrent'.state = "running" => torrent.here /\ torrent.state = "running"
  BY TorrentKinds DEF AcquisitionMoves
<1>3. \A k \in torrent'.tags : torrent'.here
  BY <1>0, OwnShapes DEF TorrentMoves
<1>4. overlapped \subseteq overlapped'
  BY DEF Remember
<1>5. ASSUME NEW b \in Acq, acq'[b].at \in {"verify", "commit"}, b[1] \notin overlapped', b[1] \in torrent'.tags
      PROVE  torrent'.state # "running"
  <2>1. CASE b # a
    <3>1. acq[b].at \in {"verify", "commit"} /\ b[1] \notin overlapped
      BY <1>1, <1>4, <1>5, <2>1
    <3>2. b[1] # j
      BY <1>0, <2>1, <3>1 DEF OverlapIsSeen, Begun
    <3>3. b[1] \in torrent.tags
      BY <1>2, <1>5, <3>2
    <3> QED BY <1>0, <1>2, <1>3, <1>5, <3>1, <3>3 DEF StoppedFirst
  <2>2. CASE b = a /\ acq[a].at \in {"verify", "commit"}
    <3>1. j \in torrent.tags /\ j \notin overlapped
      BY <1>2, <1>4, <1>5, <2>2
    <3> QED BY <1>0, <1>2, <1>3, <1>5, <2>2, <3>1 DEF StoppedFirst
  <2>3. CASE b = a /\ acq[a].at \notin {"verify", "commit"}
    BY <1>0, <1>5, <2>3 DEF Careful
  <2> QED BY <2>1, <2>2, <2>3
<1>6. ASSUME NEW k \in TJob, trow'[k].status = "awaiting_selection", k \notin overlapped', k \in torrent'.tags
      PROVE  torrent'.state # "running"
  <2>0. k \notin overlapped
    BY <1>4, <1>6
  <2>1. CASE k # j
    <3>1. Awaits(k) /\ k \in torrent.tags
      BY <1>1, <1>2, <1>6, <2>1 DEF Awaits
    <3> QED BY <1>0, <1>2, <1>3, <1>6, <2>0, <3>1 DEF StoppedFirst
  <2>2. CASE k = j
    <3>1. ~Awaits(j)
      BY <1>0, <2>0, <2>2 DEF AwaitsAlone
    <3>2. acq[a].at = "commit"
      BY <1>0, <1>6, <2>2, <3>1 DEF Careful
    <3>3. j \in torrent.tags
      BY <1>2, <1>6, <2>2, <3>2
    <3> QED BY <1>0, <1>2, <1>3, <1>6, <2>0, <2>2, <3>2, <3>3 DEF StoppedFirst
  <2> QED BY <2>1, <2>2
<1> QED BY <1>5, <1>6 DEF StoppedFirst, Awaits, Acq

LEMMA AcquisitionStep ==
    ASSUME OwnInv, Remember, NEW a \in Acq, AcquisitionMoves(a)
    PROVE  OwnInv' /\ (Foreign /\ ~removed => torrent' = torrent)
<1>1. OwnInv'
  BY AcquisitionFields, AcquisitionActs, AcquisitionKnowsOurs, AcquisitionKeepsTags, AcquisitionStaysStopped DEF OwnInv
<1>2. Foreign /\ ~removed => torrent' = torrent
  BY TorrentKinds DEF AcquisitionMoves
<1> QED BY <1>1, <1>2

-------------------------------------------------------------------------------
\* The two ways an acquisition goes on: to another place, or to its end.
LEMMA StillOurs ==
    ASSUME OwnInv, Remember, NEW a \in Acq, TorrentMoves(a), ~removed, ~removed',
           acq[a].at \in Late \/ acq[a].eid \/ trow[a[1]].eid \/ hashOf[a[1]]
    PROVE  torrent.here /\ torrent.ours /\ torrent'.here /\ torrent'.ours
<1>1. torrent.here /\ torrent.ours
  BY AcqShape DEF OwnInv, OursOnceTouched
<1> QED BY <1>1, TorrentKinds

LEMMA Departs ==
    ASSUME OwnInv, Remember, NEW a \in Acq, Begun(a), Leaves(a), RowMoves(a[1]), HashMoves(a[1]), ClientsStay,
           TorrentMoves(a),
           trow'[a[1]].status # "analyzing" \/ (trow[a[1]].status = "analyzing" /\ ~Acting(a)),
           trow'[a[1]].status = "awaiting_selection" => Awaits(a[1]) \/ acq[a].at = "commit",
           trow'[a[1]].eid \/ hashOf'[a[1]] => acq[a].at \in Late \/ acq[a].eid \/ trow[a[1]].eid \/ hashOf[a[1]]
    PROVE  AcquisitionMoves(a)
<1> DEFINE j == a[1]
<1>0. acq \in [Acq -> Acquisitions] /\ j \in TJob
  BY AcqShape DEF OwnInv, OwnFields
<1>1. acq'[a] = [NoAcq EXCEPT !.at = "gone"] /\ \A b \in Acq : b # a => acq'[b] = acq[b]
  BY <1>0 DEF Leaves
<1>2. acq' \in [Acq -> Acquisitions]
  BY <1>0, OwnShapes DEF Leaves
<1>3. acq'[a].at = "gone" /\ ~acq'[a].eid
  BY <1>1, OwnShapes
<1>4. AcqMoves(a)
  BY <1>1, <1>2, <1>3 DEF AcqMoves, Leaves, None
<1>5. Careful(a)
  <2>1. acq'[a].at \notin Late /\ acq'[a].at \notin Held \cup {"adopt"} /\ acq'[a].at \notin {"verify", "commit"}
    BY <1>3 DEF Late, Held
  <2>2. ~removed /\ ~removed' /\ (trow'[j].eid \/ hashOf'[j]) => torrent'.here /\ torrent'.ours
    BY StillOurs
  <2> QED BY <1>3, <2>1, <2>2 DEF Careful
<1> QED BY <1>4, <1>5 DEF AcquisitionMoves

LEMMA Proceeds ==
    ASSUME OwnInv, Remember, NEW a \in Acq, Begun(a), NEW l \in Places \ {"none"}, Goto(a, l), Live(a),
           RowMoves(a[1]), HashMoves(a[1]), ClientsStay, TorrentMoves(a),
           trow'[a[1]].status # "analyzing" \/ l \in Acquiring,
           trow'[a[1]].status = "awaiting_selection" => Awaits(a[1]),
           trow'[a[1]].eid \/ hashOf'[a[1]] => acq[a].at \in Late \/ acq[a].eid \/ trow[a[1]].eid \/ hashOf[a[1]],
           l \in Late => acq[a].at \in Late \/ (torrent'.here /\ torrent'.ours),
           l \in Held => acq[a].at \in Held \/ a[1] \in torrent'.tags,
           l \in Held \cup {"adopt"} => \/ acq[a].at \in Held \cup {"adopt"} \/ ~torrent.here \/ a[1] \in torrent.tags
                                        \/ \A k \in torrent.tags \cap TJob : ~Exists(k),
           l \in {"verify", "commit"} => acq[a].at = "verify" \/ torrent'.state # "running"
    PROVE  AcquisitionMoves(a)
<1> DEFINE j == a[1]
<1>0. acq \in [Acq -> Acquisitions] /\ j \in TJob
  BY AcqShape DEF OwnInv, OwnFields
<1>1. acq' = [acq EXCEPT ![a] = [acq[a] EXCEPT !.at = l]]
  BY DEF Goto
<1>2. [acq[a] EXCEPT !.at = l] \in Acquisitions /\ [acq[a] EXCEPT !.at = l].at = l
      /\ [acq[a] EXCEPT !.at = l].ctx = acq[a].ctx /\ [acq[a] EXCEPT !.at = l].eid = acq[a].eid
  BY <1>0 DEF Acquisitions
<1>3. /\ acq' \in [Acq -> Acquisitions] /\ \A b \in Acq : b # a => acq'[b] = acq[b]
      /\ acq'[a].at = l /\ acq'[a].ctx = "live" /\ acq'[a].eid = acq[a].eid
  BY <1>0, <1>1, <1>2 DEF Live
<1>4. AcqMoves(a)
  BY <1>3 DEF AcqMoves, Goto
<1>5. ~removed /\ ~removed' /\ (acq'[a].at \in Late \/ acq'[a].eid \/ trow'[a[1]].eid \/ hashOf'[a[1]])
           => torrent'.here /\ torrent'.ours
  BY <1>3, StillOurs
<1>6. Careful(a)
  BY <1>3, <1>5 DEF Careful
<1> QED BY <1>4, <1>6 DEF AcquisitionMoves

\* What the rows and the record are written with.
LEMMA RowWritten ==
    ASSUME OwnInv, NEW a \in Acq, NEW s \in {"failed", "analyzing", "awaiting_selection"}, NEW e \in BOOLEAN,
           trow' = [trow EXCEPT ![a[1]] = IF Exists(a[1]) THEN [status |-> s, eid |-> e] ELSE @]
    PROVE  /\ RowMoves(a[1]) /\ trow'[a[1]].status \in {s, "none", "deleted"}
           /\ trow'[a[1]].eid => e \/ trow[a[1]].eid
<1> DEFINE j == a[1]
           new == [status |-> s, eid |-> e]
<1>0. j \in TJob /\ trow \in [TJob -> OwnRows]
  BY AcqShape DEF OwnInv, OwnFields
<1>1. new \in OwnRows /\ new.status = s /\ new.eid = e
  BY DEF OwnRows, Terminal
<1>2. CASE Exists(j)
  <2>1. trow' = [trow EXCEPT ![j] = new]
    BY <1>2
  <2> HIDE DEF new
  <2>2. trow'[j] = new /\ trow' \in [TJob -> OwnRows] /\ \A k \in TJob : k # j => trow'[k] = trow[k]
    BY <1>0, <1>1, <2>1
  <2> QED BY <1>1, <1>2, <2>2 DEF RowMoves
<1>3. CASE ~Exists(j)
  <2>1. trow' = trow
    BY <1>0, <1>3
  <2> QED BY <1>0, <1>3, <2>1 DEF RowMoves, Exists
<1> QED BY <1>2, <1>3

LEMMA RowStays ==
    ASSUME OwnInv, NEW a \in Acq, trow' = trow
    PROVE  RowMoves(a[1])
BY DEF RowMoves, OwnInv, OwnFields

LEMMA HashWritten ==
    ASSUME OwnInv, NEW a \in Acq, SaveHash(a) \/ hashOf' = hashOf
    PROVE  HashMoves(a[1]) /\ (hashOf' = hashOf => (hashOf'[a[1]] => hashOf[a[1]]))
<1>0. a[1] \in TJob /\ hashOf \in [TJob -> BOOLEAN]
  BY AcqShape DEF OwnInv, OwnFields
<1>1. CASE hashOf' = hashOf
  BY <1>0, <1>1 DEF HashMoves
<1>2. CASE SaveHash(a)
  <2>1. (hashOf[a[1]] \/ Exists(a[1])) \in BOOLEAN
    BY <1>0
  <2>2. hashOf' \in [TJob -> BOOLEAN] /\ \A k \in TJob : k # a[1] => hashOf'[k] = hashOf[k]
    BY <1>0, <1>2, <2>1 DEF SaveHash
  <2> QED BY <1>0, <2>2 DEF HashMoves
<1> QED BY <1>1, <1>2

LEMMA TorrentStays ==
    ASSUME OwnInv, NEW a \in Acq, torrent' = torrent
    PROVE  TorrentMoves(a)
<1>1. torrent \in OwnTorrents /\ (~torrent.here => torrent = Absent)
  BY DEF OwnInv, OwnFields
<1> QED BY <1>1 DEF TorrentMoves

LEMMA TorrentGone ==
    ASSUME OwnInv, NEW a \in Acq, acq[a].at \in Late, torrent' \in {Absent, torrent}
    PROVE  TorrentMoves(a)
<1>1. torrent \in OwnTorrents /\ (~torrent.here => torrent = Absent)
  BY DEF OwnInv, OwnFields
<1>2. Absent \in OwnTorrents
  BY OwnShapes
<1> QED BY <1>1, <1>2 DEF TorrentMoves

\* A failing acquisition ends, whatever it did to the torrent.
LEMMA Failing ==
    ASSUME OwnInv, Remember, NEW a \in Acq, Begun(a), Fails(a), ClientsStay, TorrentMoves(a),
           hashOf' = hashOf \/ (SaveHash(a) /\ acq[a].at \in Late)
    PROVE  AcquisitionMoves(a)
<1>1. acq[a].eid \in BOOLEAN
  BY DEF OwnInv, OwnFields, Acquisitions
<1>2. RowMoves(a[1]) /\ trow'[a[1]].status \in {"failed", "none", "deleted"} /\ (trow'[a[1]].eid => acq[a].eid \/ trow[a[1]].eid)
  BY <1>1, RowWritten DEF Fails, WriteRow
<1>3. HashMoves(a[1]) /\ (hashOf'[a[1]] => acq[a].at \in Late \/ hashOf[a[1]])
  BY HashWritten
<1> QED BY <1>2, <1>3, Departs DEF Fails

-------------------------------------------------------------------------------
\* Action by action.
LEMMA ContextEndsMoves ==
    ASSUME OwnInv, Remember, NEW a \in Acq, ContextEnds(a)
    PROVE  AcquisitionMoves(a)
<1>1. /\ Begun(a) /\ Leaves(a) /\ ClientsStay /\ trow' = trow /\ hashOf' = hashOf
      /\ torrent' = torrent \/ (acq[a].at \in Late /\ torrent' = Absent)
      /\ ~Live(a)
  BY DEF ContextEnds, Begun, Late, Held
<1>2. TorrentMoves(a)
  BY <1>1, TorrentStays, TorrentGone
<1>3. RowMoves(a[1]) /\ HashMoves(a[1])
  BY <1>1, RowStays, HashWritten
<1> QED BY <1>1, <1>2, <1>3, Departs DEF Acting, Awaits

LEMMA BeginMoves ==
    ASSUME OwnInv, Remember, NEW a \in Acq, BeginAcquisition(a)
    PROVE  AcquisitionMoves(a)
<1> DEFINE j == a[1]
<1>0. /\ j \in TJob /\ a[2] \in 1 .. MaxTries[j] /\ acq \in [Acq -> Acquisitions] /\ trow \in [TJob -> OwnRows]
  BY AcqShape DEF OwnInv, OwnFields
<1>1. /\ acq[a].at = "new" /\ Begun(a) /\ trow' = trow /\ hashOf' = hashOf /\ torrent' = torrent /\ ClientsStay
  BY DEF BeginAcquisition, Begun
<1>2. TorrentMoves(a) /\ RowMoves(j) /\ HashMoves(j)
  BY <1>1, TorrentStays, RowStays, HashWritten
<1>3. CASE ~Exists(j)
  <2>1. Leaves(a) /\ trow'[j].status \in {"none", "deleted"}
    BY <1>1, <1>3 DEF BeginAcquisition, Exists
  <2> QED BY <1>1, <1>2, <2>1, Departs
<1>4. CASE Exists(j)
  <2> DEFINE new == [acq[a] EXCEPT !.at = "preflight", !.eid = trow[j].eid]
  <2>1. acq' = [acq EXCEPT ![a] = new] /\ cancelOf' = [cancelOf EXCEPT ![j] = a[2]]
    BY <1>4 DEF BeginAcquisition
  <2>2. new \in Acquisitions /\ new.at = "preflight" /\ new.eid = trow[j].eid /\ new.ctx = acq[a].ctx
    <3> DEFINE c == acq[a]
               eid == trow[j].eid
    <3>1. c \in Acquisitions /\ eid \in BOOLEAN /\ "preflight" \in Places
      BY <1>0 DEF OwnRows, Places
    <3> HIDE DEF c, eid
    <3>2. [c EXCEPT !.at = "preflight", !.eid = eid] \in Acquisitions
      BY <3>1 DEF Acquisitions
    <3>3. \A r : r = [c EXCEPT !.at = "preflight", !.eid = eid] => r.at = "preflight" /\ r.eid = eid /\ r.ctx = c.ctx
      BY <3>1 DEF Acquisitions
    <3> QED BY <3>2, <3>3 DEF c, eid
  <2> HIDE DEF new
  <2>3. acq' \in [Acq -> Acquisitions] /\ acq'[a] = new /\ \A b \in Acq : b # a => acq'[b] = acq[b]
    BY <1>0, <2>1, <2>2
  <2>4. AcqMoves(a)
    BY <1>1, <2>1, <2>2, <2>3 DEF AcqMoves
  <2>5. ~removed /\ ~removed' /\ (trow[j].eid \/ hashOf[j]) => torrent'.here /\ torrent'.ours
    BY <1>2, StillOurs
  <2>6. acq'[a].at = "preflight" /\ acq'[a].eid = trow[j].eid /\ acq'[a].ctx = acq[a].ctx
    BY <2>2, <2>3
  <2>7. Careful(a)
    BY <1>1, <2>5, <2>6 DEF Careful, Late, Held, Acquiring, Acting, Live, Awaits
  <2> QED BY <1>1, <1>2, <2>4, <2>7 DEF AcquisitionMoves
<1> QED BY <1>3, <1>4

\* What reconcileOwnership has seen when it lets the job go on.
LEMMA VerdictsSay ==
    ASSUME NEW j \in TJob, NEW v \in Verdicts(j), v # "fail"
    PROVE  /\ torrent.ours
           /\ \/ v = "save" /\ j \in torrent.tags
              \/ v = "adopt" /\ \A k \in torrent.tags \cap TJob : ~Exists(k)
<1>1. CASE ~torrent.ours
  BY <1>1 DEF Verdicts
<1>2. CASE torrent.ours /\ j \in torrent.tags
  BY <1>2 DEF Verdicts
<1>3. CASE torrent.ours /\ j \notin torrent.tags
  BY <1>3 DEF Verdicts, OwnerAnswers
<1> QED BY <1>1, <1>2, <1>3

LEMMA ReconcileMoves ==
    ASSUME OwnInv, Remember, NEW a \in Acq, Begun(a), Live(a), torrent.here, Reconcile(a),
           torrent' = torrent, hashOf' = hashOf, ClientsStay
    PROVE  AcquisitionMoves(a)
<1>0. TorrentMoves(a) /\ a[1] \in TJob
  BY TorrentStays, AcqShape
<1>1. PICK v \in Verdicts(a[1]) : IF v = "fail" THEN Fails(a) ELSE Goto(a, v) /\ UNCHANGED trow
  BY DEF Reconcile
<1>2. CASE v = "fail"
  BY <1>0, <1>1, <1>2, Failing
<1>3. CASE v # "fail"
  <2>1. /\ torrent.ours
        /\ \/ v = "save" /\ a[1] \in torrent.tags
           \/ v = "adopt" /\ \A k \in torrent.tags \cap TJob : ~Exists(k)
    BY <1>0, <1>1, <1>3, VerdictsSay
  <2>2. Goto(a, v) /\ trow' = trow
    BY <1>1, <1>3
  <2>3. RowMoves(a[1]) /\ HashMoves(a[1])
    BY <2>2, RowStays, HashWritten
  <2>4. v \in Places \ {"none"} /\ v \in Acquiring /\ v \notin {"verify", "commit"} /\ (v \in Held => v = "save")
    BY <2>1 DEF Places, Acquiring, Held
  <2> QED BY <1>0, <2>1, <2>2, <2>3, <2>4, Proceeds DEF Awaits
<1> QED BY <1>2, <1>3

LEMMA PreflightMoves ==
    ASSUME OwnInv, Remember, NEW a \in Acq, Preflight(a)
    PROVE  AcquisitionMoves(a)
<1>1. Begun(a) /\ Live(a) /\ torrent' = torrent /\ hashOf' = hashOf /\ ClientsStay
  BY DEF Preflight, Begun
<1>2. CASE torrent.here /\ Reconcile(a)
  BY <1>1, <1>2, ReconcileMoves
<1>3. CASE Goto(a, "add") /\ UNCHANGED trow
  <2>1. RowMoves(a[1]) /\ HashMoves(a[1]) /\ TorrentMoves(a)
    BY <1>1, <1>3, RowStays, HashWritten, TorrentStays
  <2>2. "add" \in Places \ {"none"} /\ "add" \in Acquiring /\ "add" \notin Late /\ "add" \notin Held \cup {"adopt"}
    BY DEF Places, Acquiring, Late, Held
  <2> QED BY <1>1, <1>3, <2>1, <2>2, Proceeds DEF Awaits, Held
<1> QED BY <1>2, <1>3 DEF Preflight

LEMMA AdoptMoves ==
    ASSUME OwnInv, Remember, NEW a \in Acq, Adopt(a)
    PROVE  AcquisitionMoves(a)
<1> DEFINE j == a[1]
<1>0. j \in TJob /\ torrent \in OwnTorrents
  BY AcqShape DEF OwnInv, OwnFields
<1>1. Begun(a) /\ Live(a) /\ hashOf' = hashOf /\ ClientsStay /\ acq[a].at = "adopt"
  BY DEF Adopt, Begun
<1>2. ASSUME NEW T \in SUBSET (TJob \cup {Stale}), torrent.here, torrent' = [torrent EXCEPT !.ours = TRUE, !.tags = T],
             T = {j} \/ T = torrent.tags \cup {j}
      PROVE  TorrentMoves(a) /\ torrent'.here /\ torrent'.ours /\ j \in torrent'.tags
  <2>1. /\ torrent' \in OwnTorrents /\ torrent'.here = torrent.here /\ torrent'.ours /\ torrent'.tags = T
        /\ torrent'.state = torrent.state
    BY <1>0, <1>2 DEF OwnTorrents
  <2> QED BY <1>1, <1>2, <2>1 DEF TorrentMoves, Adopts
<1>3. torrent.tags \cup {j} \in SUBSET (TJob \cup {Stale}) /\ {j} \in SUBSET (TJob \cup {Stale})
  BY <1>0 DEF OwnTorrents
<1>4. CASE /\ torrent.here /\ torrent' = [torrent EXCEPT !.ours = TRUE, !.tags = {j}] /\ Goto(a, "save") /\ UNCHANGED trow
  <2>1. TorrentMoves(a) /\ torrent'.here /\ torrent'.ours /\ j \in torrent'.tags
    BY <1>2, <1>3, <1>4
  <2>2. RowMoves(j) /\ HashMoves(j)
    BY <1>1, <1>4, RowStays, HashWritten
  <2>3. "save" \in Places \ {"none"} /\ "save" \in Acquiring /\ acq[a].at \in Late
    BY <1>1 DEF Places, Acquiring, Held, Late
  <2> QED BY <1>1, <1>4, <2>1, <2>2, <2>3, Proceeds DEF Awaits
<1>5. CASE torrent.here /\ torrent' = [torrent EXCEPT !.ours = TRUE, !.tags = torrent.tags \cup {j}] /\ Fails(a)
  <2>1. TorrentMoves(a)
    BY <1>2, <1>3, <1>5
  <2> QED BY <1>1, <1>5, <2>1, Failing
<1>6. CASE Fails(a) /\ UNCHANGED torrent
  BY <1>1, <1>6, Failing, TorrentStays
<1> QED BY <1>4, <1>5, <1>6 DEF Adopt

LEMMA AddMoves ==
    ASSUME OwnInv, Remember, NEW a \in Acq, Add(a)
    PROVE  AcquisitionMoves(a)
<1> DEFINE j == a[1]
           added == [here |-> TRUE, ours |-> TRUE, tags |-> {j}, state |-> IF j \in FileJob THEN "stopped" ELSE "meta"]
<1>0. j \in TJob
  BY AcqShape
<1>1. Begun(a) /\ Live(a) /\ hashOf' = hashOf /\ ClientsStay /\ acq[a].at = "add"
  BY DEF Add, Begun
<1>2. /\ added \in OwnTorrents /\ added.here /\ added.ours /\ added.tags = {j} /\ added.state # "running"
  BY <1>0 DEF OwnTorrents, TorrentState
<1>3. ASSUME ~torrent.here, torrent' = added
      PROVE  TorrentMoves(a) /\ torrent'.here /\ torrent'.ours /\ j \in torrent'.tags
  <2> HIDE DEF added
  <2> QED BY <1>1, <1>2, <1>3 DEF TorrentMoves, Adds
<1>4. CASE ~torrent.here /\ torrent' = added /\ Goto(a, "visible") /\ UNCHANGED trow
  <2>1. RowMoves(j) /\ HashMoves(j)
    BY <1>1, <1>4, RowStays, HashWritten
  <2>2. "visible" \in Places \ {"none"} /\ "visible" \in Acquiring
    BY DEF Places, Acquiring, Held
  <2>3. TorrentMoves(a) /\ torrent'.here /\ torrent'.ours /\ j \in torrent'.tags
    BY <1>3, <1>4
  <2> HIDE DEF added
  <2> QED BY <1>1, <1>4, <2>1, <2>2, <2>3, Proceeds DEF Awaits
<1>5. CASE ~torrent.here /\ torrent' = added /\ Fails(a)
  <2>1. TorrentMoves(a)
    BY <1>3, <1>5
  <2> HIDE DEF added
  <2> QED BY <1>1, <1>5, <2>1, Failing
<1>6. CASE torrent.here /\ Reconcile(a) /\ UNCHANGED torrent
  BY <1>1, <1>6, ReconcileMoves
<1>7. CASE Fails(a) /\ UNCHANGED torrent
  BY <1>1, <1>7, Failing, TorrentStays
<1> QED BY <1>4, <1>5, <1>6, <1>7 DEF Add

LEMMA SeenMoves ==
    ASSUME OwnInv, Remember, NEW a \in Acq, SeenInDaemon(a)
    PROVE  AcquisitionMoves(a)
<1>1. Begun(a) /\ Live(a) /\ torrent' = torrent /\ hashOf' = hashOf /\ ClientsStay /\ acq[a].at = "visible"
  BY DEF SeenInDaemon, Begun
<1>2. TorrentMoves(a) /\ HashMoves(a[1])
  BY <1>1, TorrentStays, HashWritten
<1>3. CASE Goto(a, "save") /\ UNCHANGED trow
  <2>1. RowMoves(a[1])
    BY <1>3, RowStays
  <2>2. "save" \in Places \ {"none"} /\ "save" \in Acquiring /\ acq[a].at \in Late /\ acq[a].at \in Held
    BY <1>1 DEF Places, Acquiring, Held, Late
  <2> QED BY <1>1, <1>2, <1>3, <2>1, <2>2, Proceeds DEF Awaits
<1>4. CASE Fails(a)
  BY <1>1, <1>2, <1>4, Failing
<1> QED BY <1>3, <1>4 DEF SeenInDaemon

LEMMA SaveMoves ==
    ASSUME OwnInv, Remember, NEW a \in Acq, SaveAndCheckDuplicate(a)
    PROVE  AcquisitionMoves(a)
<1> DEFINE j == a[1]
<1>0. acq \in [Acq -> Acquisitions] /\ j \in TJob
  BY AcqShape DEF OwnInv, OwnFields
<1>1. /\ Begun(a) /\ Live(a) /\ torrent' = torrent /\ ClientsStay /\ acq[a].at = "save"
      /\ acq[a].at \in Late /\ acq[a].at \in Held
  BY DEF SaveAndCheckDuplicate, Begun, Late, Held
<1>2. TorrentMoves(a)
  BY <1>1, TorrentStays
<1>3. CASE /\ acq' = [acq EXCEPT ![a].at = "record", ![a].eid = TRUE]
           /\ trow' = [trow EXCEPT ![j] = IF Exists(j) THEN [status |-> "analyzing", eid |-> TRUE] ELSE @]
           /\ UNCHANGED <<cancelOf, hashOf>>
  <2> DEFINE new == [acq[a] EXCEPT !.at = "record", !.eid = TRUE]
  <2>1. acq' = [acq EXCEPT ![a] = new]
    BY <1>3
  <2>2. new \in Acquisitions /\ new.at = "record" /\ new.ctx = acq[a].ctx
    BY <1>0 DEF Acquisitions, Places
  <2>3. RowMoves(j) /\ HashMoves(j) /\ trow'[j].status \in {"analyzing", "none", "deleted"}
    BY <1>3, RowWritten, HashWritten
  <2> HIDE DEF new
  <2>4. acq' \in [Acq -> Acquisitions] /\ acq'[a] = new /\ \A b \in Acq : b # a => acq'[b] = acq[b]
    BY <1>0, <2>1, <2>2
  <2>5. AcqMoves(a)
    BY <1>1, <1>3, <2>2, <2>4 DEF AcqMoves
  <2>6. ~removed /\ ~removed' => torrent'.here /\ torrent'.ours
    BY <1>1, <1>2, StillOurs
  <2>7. acq'[a].at = "record" /\ acq'[a].ctx = "live"
    BY <1>1, <2>2, <2>4 DEF Live
  <2>8. Careful(a)
    BY <1>1, <2>3, <2>6, <2>7 DEF Careful, Acquiring, Held
  <2> QED BY <1>1, <1>2, <2>3, <2>5, <2>8 DEF AcquisitionMoves
<1>4. CASE /\ trow' = [trow EXCEPT ![j] = IF Exists(j) THEN [status |-> "failed", eid |-> TRUE] ELSE @]
           /\ SaveHash(a) /\ Leaves(a)
  <2>1. RowMoves(j) /\ HashMoves(j) /\ trow'[j].status \in {"failed", "none", "deleted"}
    BY <1>4, RowWritten, HashWritten
  <2> QED BY <1>1, <1>2, <1>4, <2>1, Departs
<1> QED BY <1>3, <1>4 DEF SaveAndCheckDuplicate

LEMMA RecordMoves ==
    ASSUME OwnInv, Remember, NEW a \in Acq, SaveRecord(a)
    PROVE  AcquisitionMoves(a)
<1>1. /\ Begun(a) /\ Live(a) /\ torrent' = torrent /\ trow' = trow /\ ClientsStay
      /\ acq[a].at \in Late /\ acq[a].at \in Held /\ SaveHash(a) /\ Goto(a, "poll")
  BY DEF SaveRecord, Begun, Late, Held
<1>2. TorrentMoves(a) /\ RowMoves(a[1]) /\ HashMoves(a[1])
  BY <1>1, TorrentStays, RowStays, HashWritten
<1>3. "poll" \in Places \ {"none"} /\ "poll" \in Acquiring
  BY DEF Places, Acquiring, Held
<1> QED BY <1>1, <1>2, <1>3, Proceeds DEF Awaits

LEMMA FoundCancelledMoves ==
    ASSUME OwnInv, Remember, NEW a \in Acq, FoundCancelled(a)
    PROVE  AcquisitionMoves(a)
<1>1. /\ Begun(a) /\ Leaves(a) /\ trow' = trow /\ hashOf' = hashOf /\ ClientsStay
      /\ acq[a].at \in Late /\ torrent' \in {Absent, torrent} /\ trow[a[1]].status \in {"cancelled", "none", "deleted"}
  BY DEF FoundCancelled, Begun, Late, Held
<1>2. TorrentMoves(a) /\ RowMoves(a[1]) /\ HashMoves(a[1])
  BY <1>1, TorrentGone, RowStays, HashWritten
<1> QED BY <1>1, <1>2, Departs

LEMMA StopMoves ==
    ASSUME OwnInv, Remember, NEW a \in Acq, Stop(a)
    PROVE  AcquisitionMoves(a)
<1>1. /\ Begun(a) /\ Live(a) /\ ClientsStay /\ acq[a].at = "poll" /\ torrent.here
      /\ acq[a].at \in Late /\ acq[a].at \in Held
  BY DEF Stop, Begun, Late, Held
<1>2. ASSUME torrent' = [torrent EXCEPT !.state = "stopped"]
      PROVE  TorrentMoves(a) /\ torrent'.state # "running"
  <2>1. torrent \in OwnTorrents
    BY DEF OwnInv, OwnFields
  <2>2. torrent' \in OwnTorrents /\ torrent'.here /\ torrent'.state = "stopped"
    BY <1>1, <1>2, <2>1 DEF OwnTorrents, TorrentState
  <2> QED BY <1>1, <1>2, <2>2 DEF TorrentMoves, Stops
<1>3. CASE torrent' = [torrent EXCEPT !.state = "stopped"] /\ Goto(a, "verify") /\ UNCHANGED <<trow, hashOf>>
  <2>1. RowMoves(a[1]) /\ HashMoves(a[1])
    BY <1>3, RowStays, HashWritten
  <2>2. "verify" \in Places \ {"none"} /\ "verify" \in Acquiring
    BY DEF Places, Acquiring, Held
  <2> QED BY <1>1, <1>2, <1>3, <2>1, <2>2, Proceeds DEF Awaits
<1>4. CASE FailsKeepingHash(a) /\ torrent' \in {[torrent EXCEPT !.state = "stopped"], torrent}
  <2>1. TorrentMoves(a)
    BY <1>2, <1>4, TorrentStays
  <2> QED BY <1>1, <1>4, <2>1, Failing DEF FailsKeepingHash
<1> QED BY <1>3, <1>4 DEF Stop

LEMMA VerifyMoves ==
    ASSUME OwnInv, Remember, NEW a \in Acq, VerifyJob(a)
    PROVE  AcquisitionMoves(a)
<1>1. /\ Begun(a) /\ Live(a) /\ trow' = trow /\ hashOf' = hashOf /\ ClientsStay /\ acq[a].at = "verify"
      /\ acq[a].at \in Late /\ acq[a].at \in Held
  BY DEF VerifyJob, Begun, Late, Held
<1>2. RowMoves(a[1]) /\ HashMoves(a[1])
  BY <1>1, RowStays, HashWritten
<1>3. CASE trow[a[1]].status \in {"cancelled", "none", "deleted"}
  <2>1. torrent' \in {Absent, torrent} /\ Leaves(a)
    BY <1>3 DEF VerifyJob
  <2> QED BY <1>1, <1>2, <1>3, <2>1, TorrentGone, Departs
<1>4. CASE trow[a[1]].status \notin {"cancelled", "none", "deleted"}
  <2>1. torrent' = torrent /\ Goto(a, "commit")
    BY <1>4 DEF VerifyJob
  <2>2. "commit" \in Places \ {"none"} /\ "commit" \in Acquiring
    BY DEF Places, Acquiring, Held
  <2> QED BY <1>1, <1>2, <2>1, <2>2, TorrentStays, Proceeds DEF Awaits
<1> QED BY <1>3, <1>4

LEMMA CommitMoves ==
    ASSUME OwnInv, Remember, NEW a \in Acq, AwaitSelection(a)
    PROVE  AcquisitionMoves(a)
<1>1. /\ Begun(a) /\ Leaves(a) /\ torrent' = torrent /\ ClientsStay /\ acq[a].at = "commit" /\ SaveHash(a)
      /\ acq[a].at \in Late /\ WriteRow(a, "awaiting_selection")
  BY DEF AwaitSelection, Begun, Late, Held
<1>2. acq[a].eid \in BOOLEAN
  BY DEF OwnInv, OwnFields, Acquisitions
<1>3. RowMoves(a[1]) /\ trow'[a[1]].status \in {"awaiting_selection", "none", "deleted"}
  BY <1>1, <1>2, RowWritten DEF WriteRow
<1> QED BY <1>1, <1>3, TorrentStays, HashWritten, Departs

LEMMA NoMetadataMoves ==
    ASSUME OwnInv, Remember, NEW a \in Acq, NoMetadata(a)
    PROVE  AcquisitionMoves(a)
<1>1. /\ Begun(a) /\ Live(a) /\ torrent' = torrent /\ ClientsStay /\ acq[a].at = "poll" /\ SaveHash(a)
      /\ acq[a].at \in Late /\ WriteRow(a, "failed") /\ Goto(a, "removing")
  BY DEF NoMetadata, Begun, Late, Held
<1>2. acq[a].eid \in BOOLEAN
  BY DEF OwnInv, OwnFields, Acquisitions
<1>3. RowMoves(a[1]) /\ trow'[a[1]].status \in {"failed", "none", "deleted"}
  BY <1>1, <1>2, RowWritten DEF WriteRow
<1>4. "removing" \in Places \ {"none"} /\ "removing" \notin Held \cup {"adopt"} /\ "removing" \notin {"verify", "commit"}
  BY DEF Places, Held
<1> QED BY <1>1, <1>3, <1>4, TorrentStays, HashWritten, Proceeds

LEMMA RemoveFailedMoves ==
    ASSUME OwnInv, Remember, NEW a \in Acq, RemoveFailed(a)
    PROVE  AcquisitionMoves(a)
<1>1. /\ Begun(a) /\ Leaves(a) /\ trow' = trow /\ hashOf' = hashOf /\ ClientsStay
      /\ acq[a].at \in Late /\ acq[a].at \notin Acquiring /\ torrent' \in {Absent, torrent}
  BY DEF RemoveFailed, Begun, Late, Acquiring, Held
<1>2. TorrentMoves(a) /\ RowMoves(a[1]) /\ HashMoves(a[1])
  BY <1>1, TorrentGone, RowStays, HashWritten
<1> QED BY <1>1, <1>2, Departs DEF Acting, Awaits

LEMMA AcquisitionMovesSo ==
    ASSUME OwnInv, Remember, NEW a \in Acq, Acquisition(a)
    PROVE  AcquisitionMoves(a)
BY ContextEndsMoves, BeginMoves, PreflightMoves, AdoptMoves, AddMoves, SeenMoves, SaveMoves, RecordMoves, FoundCancelledMoves,
   StopMoves, VerifyMoves, CommitMoves, NoMetadataMoves, RemoveFailedMoves DEF Acquisition

-------------------------------------------------------------------------------
\* A new acquisition of a job, that was created now or existed before.
LEMMA LaunchStep ==
    ASSUME OwnInv, Remember, NEW j \in TJob, Launch(j), Exists(j) \/ trow[j].status = "none",
           trow' = [trow EXCEPT ![j] = [status |-> "analyzing", eid |-> FALSE]],
           torrent' = torrent, hashOf' = hashOf, cancelOf' = cancelOf, cmd' = cmd, upsets' \in 0 .. MaxUpsets
    PROVE  OwnInv'
<1> DEFINE a == <<j, begun[j] + 1>>
           fresh == [NoAcq EXCEPT !.at = "new"]
           row == [status |-> "analyzing", eid |-> FALSE]
<1>0. /\ OwnFields /\ Numbered /\ SomeoneActs /\ OursOnceTouched /\ HolderHasTag /\ TagKeepsOut
      /\ OverlapIsSeen /\ AwaitsAlone /\ StoppedFirst /\ ForeignRuns
  BY DEF OwnInv
<1>1. /\ begun \in [TJob -> Nat] /\ begun[j] < MaxTries[j] /\ MaxTries[j] \in Nat
      /\ acq \in [Acq -> Acquisitions] /\ trow \in [TJob -> OwnRows]
  BY <1>0 DEF OwnFields, Launch
<1>2. a \in Acq /\ a[1] = j /\ a[2] = begun[j] + 1 /\ acq[a] = NoAcq
  <2>1. begun[j] + 1 \in 1 .. MaxTries[j] /\ begun[j] + 1 > begun[j]
    BY <1>1
  <2>2. a \in Acq
    BY <2>1, AcqShape
  <2> QED BY <1>0, <2>1, <2>2 DEF Numbered
<1>3. fresh \in Acquisitions /\ fresh.at = "new" /\ ~fresh.eid /\ fresh.ctx = "live" /\ NoAcq.at = "none"
  BY OwnShapes
<1>4. acq' = [acq EXCEPT ![a] = fresh] /\ begun' = [begun EXCEPT ![j] = begun[j] + 1]
  BY <1>2 DEF Launch
<1>5. row \in OwnRows /\ row.status = "analyzing" /\ ~row.eid /\ trow' = [trow EXCEPT ![j] = row]
  BY DEF OwnRows
<1> HIDE DEF a, fresh, row
<1>6. /\ acq' \in [Acq -> Acquisitions] /\ acq'[a] = fresh /\ \A b \in Acq : b # a => acq'[b] = acq[b]
      /\ trow' \in [TJob -> OwnRows] /\ trow'[j] = row /\ \A k \in TJob : k # j => trow'[k] = trow[k]
      /\ begun' \in [TJob -> Nat] /\ begun'[j] = begun[j] + 1 /\ \A k \in TJob : k # j => begun'[k] = begun[k]
  <2>1. acq' \in [Acq -> Acquisitions] /\ acq'[a] = fresh /\ \A b \in Acq : b # a => acq'[b] = acq[b]
    BY <1>1, <1>2, <1>3, <1>4
  <2>2. trow' \in [TJob -> OwnRows] /\ trow'[j] = row /\ \A k \in TJob : k # j => trow'[k] = trow[k]
    BY <1>1, <1>5
  <2>3. begun' \in [TJob -> Nat] /\ begun'[j] = begun[j] + 1 /\ \A k \in TJob : k # j => begun'[k] = begun[k]
    <3>1. begun[j] + 1 \in Nat
      BY <1>1
    <3> QED BY <1>1, <1>4, <3>1
  <2> QED BY <2>1, <2>2, <2>3
<1>7. adopters' = adopters /\ removed' = removed /\ overlapped \subseteq overlapped' /\ overlapped' \subseteq TJob
  <2>1. removed \in BOOLEAN /\ overlapped \subseteq TJob
    BY <1>0 DEF OwnFields
  <2> QED BY <2>1 DEF Remember
<1>8. OwnFields'
  <2>1. (torrent \in OwnTorrents /\ (~torrent.here => torrent = Absent))'
    BY <1>0 DEF OwnFields, OwnTorrents, Absent, TorrentState
  <2>2. (trow \in [TJob -> OwnRows] /\ acq \in [Acq -> Acquisitions])'
    BY <1>6 DEF OwnRows, Terminal, Acq, Acquisitions, Places
  <2> QED BY <1>0, <1>6, <1>7, <2>1, <2>2 DEF OwnFields
<1>9. Numbered'
  <2>1. ASSUME NEW k \in TJob
        PROVE  begun'[k] \in 0 .. MaxTries[k] /\ cancelOf'[k] \in 0 .. begun'[k]
    <3>1. begun[k] \in 0 .. MaxTries[k] /\ cancelOf[k] \in 0 .. begun[k] /\ begun[k] \in Nat
      BY <1>0 DEF Numbered, OwnFields
    <3>2. begun'[k] = begun[k] \/ (k = j /\ begun'[k] = begun[k] + 1)
      BY <1>6
    <3> QED BY <1>1, <3>1, <3>2
  <2>2. ASSUME NEW b \in Acq, b[2] > begun'[b[1]]
        PROVE  acq'[b] = NoAcq
    <3>1. b[1] \in TJob /\ b[2] \in Nat /\ begun[b[1]] \in Nat
      BY <1>1, AcqShape
    <3>2. b[2] > begun[b[1]]
      BY <1>6, <2>2, <3>1
    <3>3. b # a
      BY <1>1, <1>2, <1>6, <2>2
    <3> QED BY <1>0, <1>6, <3>2, <3>3 DEF Numbered
  <2>3. \A k \in TJob : trow'[k].status = "none" => begun'[k] = 0 /\ k \notin torrent'.tags
    BY <1>0, <1>5, <1>6 DEF Numbered
  <2>4. (\A b \in Acq : b[2] > begun[b[1]] => acq[b] = NoAcq)'
    BY <2>2 DEF Acq, NoAcq
  <2> QED BY <2>1, <2>3, <2>4 DEF Numbered
<1>10. \A b \in Acq : /\ acq'[b].at \in Late => acq[b].at \in Late /\ acq'[b] = acq[b]
                      /\ acq'[b].eid => acq[b].eid
                      /\ acq[b].at # "none" => acq'[b] = acq[b]
                      /\ acq'[b].at \notin {"none", "gone"} => b = a \/ Begun(b)
  BY <1>2, <1>3, <1>6 DEF Late, Held, Begun
<1>11. \A k \in TJob : /\ trow'[k].status = "awaiting_selection" => k # j /\ Awaits(k)
                       /\ trow'[k].eid => trow[k].eid
                       /\ trow'[k].status \notin {"none", "deleted"} => Exists(k) \/ k = j
  BY <1>5, <1>6 DEF Awaits, Exists
<1>12. SomeoneActs'
  <2>1. ASSUME NEW k \in TJob, trow'[k].status = "analyzing"
        PROVE  \E b \in Acq : b[1] = k /\ acq'[b].ctx = "live" /\ acq'[b].at \in Acquiring
    <3>1. CASE k = j
      BY <1>2, <1>3, <1>6, <3>1 DEF Acquiring
    <3>2. CASE k # j
      <4>1. PICK b \in Acq : b[1] = k /\ Acting(b)
        BY <1>0, <1>6, <2>1, <3>2 DEF SomeoneActs
      <4>2. b # a
        BY <1>2, <3>2, <4>1
      <4> QED BY <1>6, <4>1, <4>2 DEF Acting, Live
    <3> QED BY <3>1, <3>2
  <2> QED BY <2>1 DEF SomeoneActs, Acting, Live, Acquiring, Held, Acq
<1>13. OursOnceTouched'
  <2>1. ~removed' =>
              /\ \A b \in Acq : acq'[b].at \in Late \/ acq'[b].eid => torrent'.here /\ torrent'.ours
              /\ \A k \in TJob : trow'[k].eid \/ hashOf'[k] \/ trow'[k].status = "awaiting_selection"
                                    => torrent'.here /\ torrent'.ours
              /\ cmd'.eid => torrent'.here /\ torrent'.ours
    BY <1>0, <1>7, <1>10, <1>11 DEF OursOnceTouched
  <2> QED BY <2>1 DEF OursOnceTouched, Awaits, Late, Held, Acq
<1>14. trow[j].status = "none" => ~Holds(j) /\ j \notin torrent.tags
  <2>1. SUFFICES ASSUME trow[j].status = "none"
                 PROVE  ~Holds(j) /\ j \notin torrent.tags
    OBVIOUS
  <2>2. begun[j] = 0 /\ j \notin torrent.tags
    BY <1>0, <2>1 DEF Numbered
  <2>3. ASSUME NEW b \in Acq, b[1] = j
        PROVE  acq[b].at \notin Held
    <3>1. b[2] \in 1 .. MaxTries[j]
      BY <2>3, AcqShape
    <3>2. b[2] > begun[b[1]]
      BY <1>1, <2>2, <2>3, <3>1
    <3> QED BY <1>0, <1>3, <3>2 DEF Numbered, Held
  <2> QED BY <2>1, <2>2, <2>3 DEF Holds, Awaits
<1>15. HolderHasTag'
  <2>1. SUFFICES ASSUME ~removed', NEW k \in TJob, k \notin adopters', trow'[k].status \notin {"none", "deleted"},
                        \/ trow'[k].status = "awaiting_selection"
                        \/ \E b \in Acq : b[1] = k /\ acq'[b].at \in Held
                 PROVE  k \in torrent'.tags
    BY DEF HolderHasTag, Holds, Awaits, Exists, Held, Acq
  <2>2. Holds(k)
    BY <1>10, <1>11, <2>1 DEF Holds, Late
  <2>3. Exists(k)
    BY <1>11, <1>14, <2>1, <2>2
  <2> QED BY <1>0, <1>7, <2>1, <2>2, <2>3 DEF HolderHasTag
<1>16. TagKeepsOut'
  <2>1. SUFFICES ASSUME ~removed', NEW k \in TJob, k \notin adopters', trow'[k].status \notin {"none", "deleted"},
                        k \in torrent'.tags
                 PROVE  /\ torrent'.tags = {k}
                        /\ \A i \in TJob : i # k => trow'[i].status # "awaiting_selection"
                        /\ \A b \in Acq : b[1] # k => acq'[b].at \notin Held \cup {"adopt"}
    BY DEF TagKeepsOut, Awaits, Exists, Held, Acq
  <2>2. Exists(k)
    BY <1>11, <1>14, <2>1
  <2>3. /\ torrent.tags = {k} /\ \A i \in TJob : i # k => ~Awaits(i)
        /\ \A b \in Acq : b[1] # k => acq[b].at \notin Held \cup {"adopt"}
    BY <1>0, <1>7, <2>1, <2>2 DEF TagKeepsOut
  <2>4. \A b \in Acq : acq'[b].at \in Held \cup {"adopt"} => acq'[b].at = acq[b].at
    BY <1>10 DEF Late
  <2> QED BY <1>11, <2>3, <2>4
<1>17. OverlapIsSeen'
  <2>1. SUFFICES ASSUME NEW b \in Acq, NEW c \in Acq, b # c, b[1] = c[1],
                        acq'[b].at \notin {"none", "gone"}, acq'[c].at \notin {"none", "gone"}
                 PROVE  b[1] \in overlapped'
    BY DEF OverlapIsSeen, Begun, Acq
  <2> DEFINE S == {d \in Acq : d[1] = b[1] /\ acq'[d].at \notin {"none", "gone"}}
  <2>2. b[1] \in TJob /\ S \in SUBSET {d \in Acq : d[1] = b[1]} /\ b \in S /\ c \in S
    BY <2>1, AcqShape
  <2>3. S = UnderWay(b[1])'
    BY DEF UnderWay, Acq
  <2> HIDE DEF S
  <2>4. Cardinality(S) > 1
    BY <2>1, <2>2, TwoAreCounted
  <2> QED BY <2>2, <2>3, <2>4 DEF Remember
<1>18. AwaitsAlone'
  <2>1. \A b \in Acq : trow'[b[1]].status = "awaiting_selection" /\ b[1] \notin overlapped' => acq'[b].at \in {"none", "gone"}
    BY <1>0, <1>2, <1>7, <1>10, <1>11, AcqShape DEF AwaitsAlone
  <2> QED BY <2>1 DEF AwaitsAlone, Awaits, Begun, Acq
<1>19. StoppedFirst'
  <2>1. \A b \in Acq : acq'[b].at \in {"verify", "commit"} => acq[b].at \in {"verify", "commit"}
    BY <1>10 DEF Late, Held
  <2> QED BY <1>0, <1>7, <1>11, <2>1 DEF StoppedFirst, Awaits, Acq
<1>20. ForeignRuns'
  BY <1>0, <1>7 DEF ForeignRuns, Foreign
<1> QED BY <1>8, <1>9, <1>12, <1>13, <1>15, <1>16, <1>17, <1>18, <1>19, <1>20 DEF OwnInv

-------------------------------------------------------------------------------
\* What the daemon, its user, and a client's command do to the torrent.
OthersMove ==
    /\ torrent' \in {torrent, Absent, [torrent EXCEPT !.state = "stopped"], InheritedTorrents.foreign}
    /\ torrent' = [torrent EXCEPT !.state = "stopped"] => torrent' = torrent \/ (torrent.here /\ torrent.state # "running")
    /\ torrent' = InheritedTorrents.foreign => torrent' = torrent \/ ~torrent.here
    /\ torrent' = Absent => torrent' = torrent \/ torrent.ours \/ removed

LEMMA OthersStep ==
    ASSUME OwnInv, Remember, OthersMove, UNCHANGED <<trow, hashOf, acq, begun, cancelOf>>, upsets' \in 0 .. MaxUpsets,
           cmd' \in [op : {"none", "cancel", "delete"}, job : TJob, eid : BOOLEAN],
           cmd'.eid => cmd.eid \/ \E j \in TJob : trow[j].eid
    PROVE  OwnInv' /\ (Foreign /\ ~removed => torrent' = torrent)
<1> DEFINE stopped == [torrent EXCEPT !.state = "stopped"]
           foreign == InheritedTorrents.foreign
<1>0. /\ OwnFields /\ Numbered /\ SomeoneActs /\ OursOnceTouched /\ HolderHasTag /\ TagKeepsOut
      /\ OverlapIsSeen /\ AwaitsAlone /\ StoppedFirst /\ ForeignRuns
      /\ torrent \in OwnTorrents /\ (~torrent.here => torrent = Absent)
  BY DEF OwnInv, OwnFields
<1>1. /\ stopped \in OwnTorrents /\ stopped.here = torrent.here /\ stopped.ours = torrent.ours
      /\ stopped.tags = torrent.tags /\ stopped.state = "stopped"
  BY <1>0 DEF OwnTorrents, TorrentState
<1>2. /\ Absent \in OwnTorrents /\ ~Absent.here /\ Absent.tags = {} /\ foreign \in OwnTorrents /\ foreign.here
      /\ ~foreign.ours /\ foreign.tags = {} /\ foreign.state = "running"
  BY OwnShapes
<1> HIDE DEF stopped, foreign
<1>3. /\ torrent' \in {torrent, Absent, stopped, foreign}
      /\ torrent' = stopped => torrent' = torrent \/ (torrent.here /\ torrent.state # "running")
      /\ torrent' = foreign => torrent' = torrent \/ ~torrent.here
      /\ torrent' = Absent => torrent' = torrent \/ torrent.ours \/ removed
  BY DEF OthersMove, stopped, foreign
<1>4. Foreign /\ ~removed => torrent' = torrent
  BY <1>0, <1>2, <1>3 DEF Foreign, ForeignRuns
<1>5. /\ torrent' \in OwnTorrents /\ (~torrent'.here => torrent' = Absent)
      /\ torrent'.tags \in {torrent.tags, {}}
  BY <1>0, <1>1, <1>2, <1>3
<1>6. /\ removed' = (removed \/ (torrent.here /\ ~torrent'.here)) /\ adopters' = adopters
      /\ overlapped \subseteq overlapped' /\ overlapped' \subseteq TJob /\ removed' \in BOOLEAN
  <2>1. removed \in BOOLEAN /\ overlapped \subseteq TJob
    BY <1>0 DEF OwnFields
  <2>2. torrent'.tags \ torrent.tags = {}
    BY <1>5
  <2> QED BY <2>1, <2>2 DEF Remember
<1>7. ~removed' => \/ ~removed /\ torrent'.here = torrent.here /\ torrent'.ours = torrent.ours /\ torrent'.tags = torrent.tags
                   \/ ~removed /\ ~torrent.here
  BY <1>0, <1>1, <1>2, <1>3, <1>6
<1>8. OwnFields'
  <2>1. (torrent \in OwnTorrents /\ (~torrent.here => torrent = Absent))'
    BY <1>5 DEF OwnTorrents, Absent, TorrentState
  <2>2. (trow \in [TJob -> OwnRows] /\ acq \in [Acq -> Acquisitions] /\ hashOf \in [TJob -> BOOLEAN]
         /\ begun \in [TJob -> Nat] /\ cancelOf \in [TJob -> Nat])'
    BY <1>0 DEF OwnRows, Terminal, Acq, Acquisitions, Places, OwnFields
  <2> QED BY <1>0, <1>6, <2>1, <2>2 DEF OwnFields
<1>9. Numbered'
  <2>1. \A j \in TJob : trow[j].status = "none" => begun[j] = 0 /\ j \notin torrent'.tags
    BY <1>0, <1>5 DEF Numbered
  <2> QED BY <1>0, <2>1 DEF Numbered, Acq, NoAcq
<1>10. SomeoneActs'
  BY <1>0 DEF SomeoneActs, Acting, Live, Acquiring, Held, Acq
<1>11. OursOnceTouched'
  <2>1. ~removed' => /\ \A a \in Acq : acq[a].at \in Late \/ acq[a].eid => torrent'.here /\ torrent'.ours
                     /\ \A j \in TJob : trow[j].eid \/ hashOf[j] \/ Awaits(j) => torrent'.here /\ torrent'.ours
                     /\ cmd'.eid => torrent'.here /\ torrent'.ours
    BY <1>0, <1>7 DEF OursOnceTouched
  <2> QED BY <2>1 DEF OursOnceTouched, Awaits, Late, Held, Acq
<1>12. HolderHasTag'
  <2>1. SUFFICES ASSUME ~removed', NEW j \in TJob, Holds(j), Exists(j), j \notin adopters
                 PROVE  j \in torrent'.tags
    BY <1>6 DEF HolderHasTag, Holds, Exists, Awaits, Held, Acq
  <2>2. ~removed
    BY <1>7, <2>1
  <2>3. torrent.here
    BY <1>0, <2>1, <2>2 DEF OursOnceTouched, Holds, Late
  <2> QED BY <1>0, <1>7, <2>1, <2>2, <2>3 DEF HolderHasTag
<1>13. TagKeepsOut'
  <2>1. ASSUME ~removed', NEW j \in TJob, j \in torrent'.tags, Exists(j), j \notin adopters
        PROVE  /\ torrent'.tags = {j} /\ \A k \in TJob : k # j => ~Awaits(k)
               /\ \A a \in Acq : a[1] # j => acq[a].at \notin Held \cup {"adopt"}
    <3>1. torrent'.tags = torrent.tags /\ ~removed
      BY <1>5, <1>7, <2>1
    <3> QED BY <1>0, <2>1, <3>1 DEF TagKeepsOut
  <2> QED BY <1>6, <2>1 DEF TagKeepsOut, Exists, Awaits, Held, Acq
<1>14. OverlapIsSeen' /\ AwaitsAlone'
  BY <1>0, <1>6 DEF OverlapIsSeen, AwaitsAlone, Begun, Awaits, Acq
<1>15. StoppedFirst'
  <2>1. \A j \in torrent'.tags : j \in torrent.tags /\ (torrent'.state = "running" => torrent.state = "running")
    BY <1>1, <1>2, <1>3
  <2> QED BY <1>0, <1>6, <2>1 DEF StoppedFirst, Awaits, Acq
<1>16. ForeignRuns'
  <2>1. ASSUME ~removed', torrent'.here, ~torrent'.ours
        PROVE  torrent'.state = "running"
    <3>1. CASE torrent' = torrent
      BY <1>0, <1>7, <2>1, <3>1 DEF ForeignRuns, Foreign
    <3>2. CASE torrent' = stopped
      BY <1>0, <1>1, <1>3, <1>4, <1>7, <2>1, <3>2 DEF ForeignRuns, Foreign
    <3>3. CASE torrent' = foreign
      BY <1>2, <3>3
    <3> QED BY <1>2, <1>3, <2>1, <3>1, <3>2, <3>3
  <2> QED BY <2>1 DEF ForeignRuns, Foreign
<1> QED BY <1>4, <1>8, <1>9, <1>10, <1>11, <1>12, <1>13, <1>14, <1>15, <1>16 DEF OwnInv

-------------------------------------------------------------------------------
\* Rows that are closed, with nothing else but contexts that end.
ClosesRows ==
    /\ trow' \in [TJob -> OwnRows] /\ hashOf' \in [TJob -> BOOLEAN] /\ acq' \in [Acq -> Acquisitions]
    /\ cmd' \in [op : {"none", "cancel", "delete"}, job : TJob, eid : BOOLEAN] /\ ~cmd'.eid
    /\ \A j \in TJob : hashOf'[j] => hashOf[j]
    /\ \A a \in Acq : /\ acq'[a].at = acq[a].at /\ acq'[a].eid = acq[a].eid
                      /\ a[2] > begun[a[1]] => acq'[a] = acq[a]
                      /\ trow'[a[1]].status = "analyzing" => acq'[a] = acq[a]
    /\ \A j \in TJob : \/ trow'[j] = trow[j]
                       \/ /\ trow'[j].status \in {"cancelled", "deleted"} /\ (trow'[j].status = "cancelled" => Exists(j))
                          /\ trow'[j].eid => cmd.eid

LEMMA ClosingStep ==
    ASSUME OwnInv, Remember, ClosesRows, UNCHANGED <<torrent, begun, cancelOf, upsets>>
    PROVE  OwnInv'
<1>0. /\ OwnFields /\ Numbered /\ SomeoneActs /\ OursOnceTouched /\ HolderHasTag /\ TagKeepsOut
      /\ OverlapIsSeen /\ AwaitsAlone /\ StoppedFirst /\ ForeignRuns
  BY DEF OwnInv
<1>1. adopters' = adopters /\ removed' = removed /\ overlapped \subseteq overlapped' /\ overlapped' \subseteq TJob
  <2>1. removed \in BOOLEAN /\ overlapped \subseteq TJob
    BY <1>0 DEF OwnFields
  <2> QED BY <2>1 DEF Remember
<1>2. /\ \A j \in TJob : /\ trow'[j].status = "awaiting_selection" => Awaits(j)
                         /\ trow'[j].status \notin {"none", "deleted"} => Exists(j)
                         /\ trow'[j].status = "none" => trow[j].status = "none"
                         /\ trow'[j].status = "analyzing" => trow[j].status = "analyzing"
                         /\ trow'[j].eid => trow[j].eid \/ cmd.eid
      /\ \A a \in Acq : a[1] \in TJob
  BY AcqShape DEF ClosesRows, Awaits, Exists
<1>3. OwnFields'
  <2>1. (torrent \in OwnTorrents /\ (~torrent.here => torrent = Absent))'
    BY <1>0 DEF OwnFields, OwnTorrents, Absent, TorrentState
  <2>2. (trow \in [TJob -> OwnRows] /\ acq \in [Acq -> Acquisitions] /\ hashOf \in [TJob -> BOOLEAN])'
    BY DEF ClosesRows, OwnRows, Terminal, Acq, Acquisitions, Places
  <2>3. (cmd \in [op : {"none", "cancel", "delete"}, job : TJob, eid : BOOLEAN])'
    BY DEF ClosesRows
  <2> QED BY <1>0, <1>1, <2>1, <2>2, <2>3 DEF OwnFields
<1>4. Numbered'
  <2>1. \A a \in Acq : a[2] > begun'[a[1]] => acq'[a] = NoAcq
    BY <1>0 DEF Numbered, ClosesRows
  <2>2. \A j \in TJob : trow'[j].status = "none" => begun'[j] = 0 /\ j \notin torrent'.tags
    BY <1>0, <1>2 DEF Numbered
  <2>3. (\A a \in Acq : a[2] > begun[a[1]] => acq[a] = NoAcq)'
    BY <2>1 DEF Acq, NoAcq
  <2> QED BY <1>0, <2>2, <2>3 DEF Numbered
<1>5. SomeoneActs'
  <2>1. ASSUME NEW j \in TJob, trow'[j].status = "analyzing"
        PROVE  \E a \in Acq : a[1] = j /\ acq'[a].ctx = "live" /\ acq'[a].at \in Acquiring
    <3>1. PICK a \in Acq : a[1] = j /\ Acting(a)
      BY <1>0, <1>2, <2>1 DEF SomeoneActs
    <3>2. acq'[a] = acq[a]
      BY <2>1, <3>1 DEF ClosesRows
    <3> QED BY <3>1, <3>2 DEF Acting, Live
  <2> QED BY <2>1 DEF SomeoneActs, Acting, Live, Acquiring, Held, Acq
<1>6. OursOnceTouched'
  <2>1. ~removed' =>
              /\ \A a \in Acq : acq'[a].at \in Late \/ acq'[a].eid => torrent'.here /\ torrent'.ours
              /\ \A j \in TJob : trow'[j].eid \/ hashOf'[j] \/ trow'[j].status = "awaiting_selection"
                                    => torrent'.here /\ torrent'.ours
              /\ cmd'.eid => torrent'.here /\ torrent'.ours
    BY <1>0, <1>1, <1>2 DEF OursOnceTouched, ClosesRows
  <2> QED BY <2>1 DEF OursOnceTouched, Awaits, Late, Held, Acq
<1>7. HolderHasTag'
  <2>1. SUFFICES ASSUME ~removed', NEW j \in TJob, j \notin adopters', trow'[j].status \notin {"none", "deleted"},
                        \/ trow'[j].status = "awaiting_selection"
                        \/ \E a \in Acq : a[1] = j /\ acq'[a].at \in Held
                 PROVE  j \in torrent'.tags
    BY DEF HolderHasTag, Holds, Awaits, Exists, Held, Acq
  <2>2. Holds(j) /\ Exists(j)
    BY <1>2, <2>1 DEF Holds, ClosesRows
  <2> QED BY <1>0, <1>1, <2>1, <2>2 DEF HolderHasTag
<1>8. TagKeepsOut'
  <2>1. SUFFICES ASSUME ~removed', NEW j \in TJob, j \notin adopters', trow'[j].status \notin {"none", "deleted"},
                        j \in torrent'.tags
                 PROVE  /\ torrent'.tags = {j}
                        /\ \A i \in TJob : i # j => trow'[i].status # "awaiting_selection"
                        /\ \A a \in Acq : a[1] # j => acq'[a].at \notin Held \cup {"adopt"}
    BY DEF TagKeepsOut, Awaits, Exists, Held, Acq
  <2>2. Exists(j)
    BY <1>2, <2>1
  <2>3. /\ torrent.tags = {j} /\ \A i \in TJob : i # j => ~Awaits(i)
        /\ \A a \in Acq : a[1] # j => acq[a].at \notin Held \cup {"adopt"}
    BY <1>0, <1>1, <2>1, <2>2 DEF TagKeepsOut
  <2> QED BY <1>2, <2>3 DEF ClosesRows
<1>9. OverlapIsSeen'
  <2>1. \A a, b \in Acq : a # b /\ a[1] = b[1] /\ acq'[a].at \notin {"none", "gone"} /\ acq'[b].at \notin {"none", "gone"}
            => a[1] \in overlapped'
    BY <1>0, <1>1 DEF OverlapIsSeen, Begun, ClosesRows
  <2> QED BY <2>1 DEF OverlapIsSeen, Begun, Acq
<1>10. AwaitsAlone'
  <2>1. \A a \in Acq : trow'[a[1]].status = "awaiting_selection" /\ a[1] \notin overlapped' => acq'[a].at \in {"none", "gone"}
    BY <1>0, <1>1, <1>2 DEF AwaitsAlone, Begun, ClosesRows
  <2> QED BY <2>1 DEF AwaitsAlone, Awaits, Begun, Acq
<1>11. StoppedFirst' /\ ForeignRuns'
  <2>1. \A a \in Acq : acq'[a].at = acq[a].at
    BY DEF ClosesRows
  <2> QED BY <1>0, <1>1, <1>2, <2>1 DEF StoppedFirst, Awaits, Acq, ForeignRuns, Foreign
<1> QED BY <1>3, <1>4, <1>5, <1>6, <1>7, <1>8, <1>9, <1>10, <1>11 DEF OwnInv

LEMMA WriteCancelledCloses ==
    ASSUME OwnInv, WriteCancelled
    PROVE  ClosesRows
<1> DEFINE j == cmd.job
           n == cancelOf[j]
           row == [status |-> "cancelled", eid |-> cmd.eid]
<1>0. /\ OwnFields /\ Numbered /\ j \in TJob /\ cmd.eid \in BOOLEAN /\ trow \in [TJob -> OwnRows]
      /\ acq \in [Acq -> Acquisitions] /\ hashOf \in [TJob -> BOOLEAN] /\ hashOf' = hashOf
  BY DEF OwnInv, OwnFields, WriteCancelled
<1>1. cmd' \in [op : {"none", "cancel", "delete"}, job : TJob, eid : BOOLEAN] /\ ~cmd'.eid
  <2>1. (CHOOSE k \in TJob : TRUE) \in TJob
    OBVIOUS
  <2> QED BY <2>1 DEF NoCmd, WriteCancelled
<1>2. row \in OwnRows /\ row.status = "cancelled" /\ row.eid = cmd.eid
  BY <1>0 DEF OwnRows, Terminal
<1>3. trow' = [trow EXCEPT ![j] = IF Exists(j) THEN row ELSE @]
  BY DEF WriteCancelled
<1>4. acq' = IF n = None THEN acq ELSE [acq EXCEPT ![<<j, n>>].ctx = "cancelled"]
  BY DEF WriteCancelled
<1> HIDE DEF row
<1>5. /\ trow' \in [TJob -> OwnRows]
      /\ \A k \in TJob : \/ trow'[k] = trow[k]
                         \/ k = j /\ Exists(j) /\ trow'[k] = row
      /\ Exists(j) => trow'[j] = row
  BY <1>0, <1>2, <1>3
<1>6. trow'[j].status # "analyzing"
  <2>1. CASE Exists(j)
    BY <1>2, <1>5, <2>1
  <2>2. CASE ~Exists(j)
    BY <1>5, <2>2, <1>0 DEF Exists
  <2> QED BY <2>1, <2>2
<1>7. /\ acq' \in [Acq -> Acquisitions]
      /\ \A a \in Acq : /\ acq'[a].at = acq[a].at /\ acq'[a].eid = acq[a].eid
                        /\ acq'[a] = acq[a] \/ (a[1] = j /\ a[2] <= begun[j])
  <2>1. CASE n = None
    BY <1>0, <1>4, <2>1
  <2>2. CASE n # None
    <3> DEFINE c == <<j, n>>
               new == [acq[c] EXCEPT !.ctx = "cancelled"]
    <3>1. n \in 0 .. begun[j] /\ begun[j] \in 0 .. MaxTries[j] /\ MaxTries[j] \in Nat
      BY <1>0 DEF Numbered
    <3>2. n \in 1 .. MaxTries[j] /\ n <= begun[j]
      BY <2>2, <3>1 DEF None
    <3>3. c \in Acq /\ c[1] = j /\ c[2] = n
      BY <1>0, <3>2, AcqShape
    <3>4. acq' = [acq EXCEPT ![c] = new]
      BY <1>4, <2>2
    <3> HIDE DEF c
    <3>5. new \in Acquisitions /\ new.at = acq[c].at /\ new.eid = acq[c].eid
      BY <1>0, <3>3 DEF Acquisitions
    <3> HIDE DEF new
    <3>6. acq' \in [Acq -> Acquisitions] /\ acq'[c] = new /\ \A a \in Acq : a # c => acq'[a] = acq[a]
      BY <1>0, <3>3, <3>4, <3>5
    <3> QED BY <3>2, <3>3, <3>5, <3>6
  <2> QED BY <2>1, <2>2
<1>8. \A a \in Acq : /\ a[2] > begun[a[1]] => acq'[a] = acq[a]
                     /\ trow'[a[1]].status = "analyzing" => acq'[a] = acq[a]
  <2>1. SUFFICES ASSUME NEW a \in Acq, a[1] = j, a[2] <= begun[j]
                 PROVE  ~(a[2] > begun[a[1]]) /\ trow'[a[1]].status # "analyzing"
    BY <1>7
  <2>2. a[2] \in Nat /\ begun[j] \in Nat
    <3>1. a[2] \in 1 .. MaxTries[j]
      BY <2>1, AcqShape
    <3> QED BY <1>0, <3>1 DEF OwnFields
  <2> QED BY <1>6, <2>1, <2>2
<1>9. \A k \in TJob : hashOf'[k] => hashOf[k]
  BY <1>0
<1> QED BY <1>0, <1>1, <1>2, <1>5, <1>7, <1>8, <1>9 DEF ClosesRows

LEMMA DeletedRowsClose ==
    ASSUME OwnInv, DeleteTorrentRows
    PROVE  ClosesRows
<1> DEFINE j == cmd.job
           row == [status |-> "deleted", eid |-> FALSE]
<1>0. /\ j \in TJob /\ trow \in [TJob -> OwnRows] /\ acq \in [Acq -> Acquisitions] /\ hashOf \in [TJob -> BOOLEAN]
      /\ acq' = acq
  BY DEF OwnInv, OwnFields, DeleteTorrentRows
<1>1. cmd' \in [op : {"none", "cancel", "delete"}, job : TJob, eid : BOOLEAN] /\ ~cmd'.eid
  <2>1. (CHOOSE k \in TJob : TRUE) \in TJob
    OBVIOUS
  <2> QED BY <2>1 DEF NoCmd, DeleteTorrentRows
<1>2. row \in OwnRows /\ row.status = "deleted" /\ ~row.eid
  BY DEF OwnRows
<1>3. trow' = [trow EXCEPT ![j] = row] /\ hashOf' = [hashOf EXCEPT ![j] = FALSE]
  BY DEF DeleteTorrentRows
<1> HIDE DEF row
<1>4. trow' \in [TJob -> OwnRows] /\ \A k \in TJob : trow'[k] = trow[k] \/ trow'[k] = row
  BY <1>0, <1>2, <1>3
<1>5. hashOf' \in [TJob -> BOOLEAN] /\ \A k \in TJob : hashOf'[k] => hashOf[k]
  BY <1>0, <1>3
<1> QED BY <1>0, <1>1, <1>2, <1>4, <1>5 DEF ClosesRows

-------------------------------------------------------------------------------
\* After a start each job has one acquisition at most.
LEMMA RestartStep ==
    ASSUME OwnInv, Remember, Restart
    PROVE  OwnInv'
<1> DEFINE launched(j) == trow[j].status = "analyzing"
           gone == [NoAcq EXCEPT !.at = "gone"]
           fresh == [NoAcq EXCEPT !.at = "new"]
<1>0. /\ OwnFields /\ Numbered /\ SomeoneActs /\ OursOnceTouched /\ HolderHasTag /\ TagKeepsOut
      /\ OverlapIsSeen /\ AwaitsAlone /\ StoppedFirst /\ ForeignRuns
      /\ begun \in [TJob -> Nat] /\ acq \in [Acq -> Acquisitions] /\ trow \in [TJob -> OwnRows]
      /\ upsets \in 0 .. MaxUpsets
  BY DEF OwnInv, OwnFields
<1>1. /\ gone \in Acquisitions /\ gone.at = "gone" /\ ~gone.eid
      /\ fresh \in Acquisitions /\ fresh.at = "new" /\ ~fresh.eid /\ fresh.ctx = "live"
      /\ NoAcq.at = "none" /\ ~NoAcq.eid
  BY OwnShapes
<1>2. /\ acq' = [a \in Acq |-> IF acq[a].at # "none" THEN gone
                               ELSE IF launched(a[1]) /\ a[2] = begun[a[1]] + 1 THEN fresh ELSE acq[a]]
      /\ begun' = [j \in TJob |-> begun[j] + (IF launched(j) THEN 1 ELSE 0)]
      /\ cancelOf' = [j \in TJob |-> 0] /\ cmd' = NoCmd /\ torrent' = torrent /\ hashOf' = hashOf
      /\ \A j \in TJob : launched(j) => begun[j] < MaxTries[j]
  BY DEF Restart, None
<1>3. upsets' \in 0 .. MaxUpsets
  <2>1. upsets < MaxUpsets /\ upsets' = upsets + 1
    BY DEF Restart, Upset
  <2> QED BY <1>0, <2>1
<1>4. PICK known \in {FALSE, torrent.here} : trow' = [j \in TJob |-> RestartedRow(j, known)]
  BY DEF Restart
<1>5. ASSUME NEW j \in TJob
      PROVE  /\ RestartedRow(j, known) \in OwnRows
             /\ RestartedRow(j, known) = trow[j]
                \/ (Awaits(j) /\ RestartedRow(j, known).status = "failed" /\ RestartedRow(j, known).eid = trow[j].eid)
  <2>1. [trow[j] EXCEPT !.status = "failed"] \in OwnRows /\ [trow[j] EXCEPT !.status = "failed"].status = "failed"
        /\ [trow[j] EXCEPT !.status = "failed"].eid = trow[j].eid
    BY <1>0 DEF OwnRows, Terminal
  <2> QED BY <1>0, <2>1 DEF RestartedRow, Awaits
<1>6. /\ trow' \in [TJob -> OwnRows]
      /\ \A j \in TJob : \/ trow'[j] = trow[j]
                         \/ Awaits(j) /\ trow'[j].status = "failed" /\ trow'[j].eid = trow[j].eid
  BY <1>4, <1>5
<1> HIDE DEF gone, fresh
<1>7. \A a \in Acq : /\ acq'[a].at \in {"none", "gone", "new"} /\ (acq'[a].eid => acq[a].eid)
                     /\ acq'[a].at = "new" => acq'[a] = fresh /\ launched(a[1]) /\ a[2] = begun[a[1]] + 1
                     /\ acq[a].at = "none" /\ launched(a[1]) /\ a[2] = begun[a[1]] + 1 => acq'[a] = fresh
                     /\ acq[a].at = "none" /\ ~(launched(a[1]) /\ a[2] = begun[a[1]] + 1) => acq'[a] = acq[a]
                     /\ acq[a].at = "none" => ~(acq[a].at # "none")
  BY <1>1, <1>2
<1>8. acq' \in [Acq -> Acquisitions]
  BY <1>0, <1>1, <1>2
<1>9. /\ begun' \in [TJob -> Nat] /\ cancelOf' \in [TJob -> Nat]
      /\ \A j \in TJob : begun'[j] = begun[j] + (IF launched(j) THEN 1 ELSE 0)
      /\ \A j \in TJob : cancelOf'[j] = 0
  BY <1>0, <1>2
<1>10. adopters' = adopters /\ removed' = removed /\ overlapped \subseteq overlapped' /\ overlapped' \subseteq TJob
  <2>1. removed \in BOOLEAN /\ overlapped \subseteq TJob
    BY <1>0 DEF OwnFields
  <2> QED BY <1>2, <2>1 DEF Remember
<1>11. cmd' \in [op : {"none", "cancel", "delete"}, job : TJob, eid : BOOLEAN] /\ ~cmd'.eid
  <2>1. (CHOOSE k \in TJob : TRUE) \in TJob
    OBVIOUS
  <2> QED BY <1>2, <2>1 DEF NoCmd
<1>12. OwnFields'
  <2>1. (torrent \in OwnTorrents /\ (~torrent.here => torrent = Absent))'
    BY <1>0, <1>2 DEF OwnFields, OwnTorrents, Absent, TorrentState
  <2>2. (trow \in [TJob -> OwnRows] /\ acq \in [Acq -> Acquisitions] /\ hashOf \in [TJob -> BOOLEAN])'
    BY <1>0, <1>2, <1>6, <1>8 DEF OwnRows, Terminal, Acq, Acquisitions, Places, OwnFields
  <2> QED BY <1>0, <1>3, <1>9, <1>10, <1>11, <2>1, <2>2 DEF OwnFields
<1>13. Numbered'
  <2>1. ASSUME NEW j \in TJob
        PROVE  begun'[j] \in 0 .. MaxTries[j] /\ cancelOf'[j] \in 0 .. begun'[j]
    <3>1. begun[j] \in 0 .. MaxTries[j] /\ MaxTries[j] \in Nat /\ begun[j] \in Nat
      BY <1>0 DEF Numbered
    <3>2. begun'[j] = begun[j] \/ (begun'[j] = begun[j] + 1 /\ begun[j] < MaxTries[j])
      BY <1>2, <1>9, <3>1
    <3> QED BY <1>9, <3>1, <3>2
  <2>2. ASSUME NEW a \in Acq, a[2] > begun'[a[1]]
        PROVE  acq'[a] = NoAcq
    <3>1. a[1] \in TJob /\ a[2] \in Nat /\ begun[a[1]] \in Nat
      BY <1>0, AcqShape
    <3>2. a[2] > begun[a[1]] /\ ~(launched(a[1]) /\ a[2] = begun[a[1]] + 1)
      BY <1>9, <2>2, <3>1
    <3>3. acq[a] = NoAcq
      BY <1>0, <3>2 DEF Numbered
    <3> QED BY <1>1, <1>7, <3>2, <3>3
  <2>3. ASSUME NEW j \in TJob, trow'[j].status = "none"
        PROVE  begun'[j] = 0 /\ j \notin torrent'.tags
    <3>1. trow[j].status = "none"
      BY <1>6, <2>3
    <3>2. begun[j] = 0 /\ j \notin torrent.tags
      BY <1>0, <3>1 DEF Numbered
    <3> QED BY <1>2, <1>9, <3>1, <3>2
  <2>4. (\A a \in Acq : a[2] > begun[a[1]] => acq[a] = NoAcq)'
    BY <2>2 DEF Acq, NoAcq
  <2> QED BY <2>1, <2>3, <2>4 DEF Numbered
<1>14. \A j \in TJob : /\ trow'[j].status = "awaiting_selection" => Awaits(j)
                       /\ trow'[j].status \notin {"none", "deleted"} => Exists(j)
                       /\ trow'[j].status = "analyzing" => launched(j)
                       /\ trow'[j].eid => trow[j].eid
  BY <1>6 DEF Awaits, Exists
<1>15. SomeoneActs'
  <2>1. ASSUME NEW j \in TJob, trow'[j].status = "analyzing"
        PROVE  \E a \in Acq : a[1] = j /\ acq'[a].ctx = "live" /\ acq'[a].at \in Acquiring
    <3> DEFINE a == <<j, begun[j] + 1>>
    <3>1. launched(j) /\ begun[j] < MaxTries[j] /\ MaxTries[j] \in Nat /\ begun[j] \in Nat
      BY <1>0, <1>2, <1>14, <2>1
    <3>2. begun[j] + 1 \in 1 .. MaxTries[j] /\ begun[j] + 1 > begun[j]
      BY <3>1
    <3>3. a \in Acq /\ a[1] = j /\ a[2] = begun[j] + 1
      BY <3>2, AcqShape
    <3> HIDE DEF a
    <3>4. acq[a] = NoAcq
      BY <1>0, <3>2, <3>3 DEF Numbered
    <3>5. acq'[a] = fresh
      BY <1>1, <1>7, <3>1, <3>3, <3>4
    <3> QED BY <1>1, <3>3, <3>5 DEF Acquiring
  <2> QED BY <2>1 DEF SomeoneActs, Acting, Live, Acquiring, Held, Acq
<1>16. OursOnceTouched'
  <2>0. \A a \in Acq : acq'[a].at \notin Late
    BY <1>7 DEF Late, Held
  <2>1. ~removed' =>
              /\ \A a \in Acq : acq'[a].at \in Late \/ acq'[a].eid => torrent'.here /\ torrent'.ours
              /\ \A j \in TJob : trow'[j].eid \/ hashOf'[j] \/ trow'[j].status = "awaiting_selection"
                                    => torrent'.here /\ torrent'.ours
              /\ cmd'.eid => torrent'.here /\ torrent'.ours
    BY <1>0, <1>2, <1>7, <1>10, <1>11, <1>14, <2>0 DEF OursOnceTouched
  <2> QED BY <2>1 DEF OursOnceTouched, Awaits, Late, Held, Acq
<1>17. \A a \in Acq : acq'[a].at \notin Held \cup {"adopt"}
  BY <1>7 DEF Held
<1>18. HolderHasTag'
  <2>1. SUFFICES ASSUME ~removed', NEW j \in TJob, j \notin adopters', trow'[j].status \notin {"none", "deleted"},
                        trow'[j].status = "awaiting_selection"
                 PROVE  j \in torrent'.tags
    BY <1>17 DEF HolderHasTag, Holds, Awaits, Exists, Held, Acq
  <2>2. Holds(j) /\ Exists(j)
    BY <1>14, <2>1 DEF Holds
  <2> QED BY <1>0, <1>2, <1>10, <2>1, <2>2 DEF HolderHasTag
<1>19. TagKeepsOut'
  <2>1. SUFFICES ASSUME ~removed', NEW j \in TJob, j \notin adopters', trow'[j].status \notin {"none", "deleted"},
                        j \in torrent'.tags
                 PROVE  /\ torrent'.tags = {j}
                        /\ \A i \in TJob : i # j => trow'[i].status # "awaiting_selection"
    BY <1>17 DEF TagKeepsOut, Awaits, Exists, Held, Acq
  <2> QED BY <1>0, <1>2, <1>10, <1>14, <2>1 DEF TagKeepsOut
<1>20. OverlapIsSeen'
  <2>1. ASSUME NEW a \in Acq, NEW b \in Acq, a[1] = b[1], acq'[a].at = "new", acq'[b].at = "new"
        PROVE  a = b
    <3>1. a = <<a[1], a[2]>> /\ b = <<b[1], b[2]>>
      BY AcqShape
    <3>2. a[2] = b[2]
      BY <1>7, <2>1
    <3> QED BY <2>1, <3>1, <3>2
  <2> QED BY <1>7, <2>1 DEF OverlapIsSeen, Begun, Acq
<1>21. AwaitsAlone'
  <2>1. \A a \in Acq : trow'[a[1]].status = "awaiting_selection" => acq'[a].at # "new"
    BY <1>7, <1>14, AcqShape DEF Awaits
  <2> QED BY <1>7, <2>1 DEF AwaitsAlone, Awaits, Begun, Acq
<1>22. StoppedFirst'
  BY <1>0, <1>2, <1>7, <1>10, <1>14 DEF StoppedFirst, Awaits, Acq
<1>23. ForeignRuns'
  BY <1>0, <1>2, <1>10 DEF ForeignRuns, Foreign
<1> QED BY <1>12, <1>13, <1>15, <1>16, <1>18, <1>19, <1>20, <1>21, <1>22, <1>23 DEF OwnInv

-------------------------------------------------------------------------------
LEMMA ClientStep ==
    ASSUME OwnInv, Remember, NEW j \in TJob,
           CreateTorrent(j) \/ RetryTorrent(j) \/ CancelTorrent(j) \/ DeleteTorrent(j)
    PROVE  OwnInv' /\ (Foreign /\ ~removed => torrent' = torrent)
<1>0. /\ torrent \in OwnTorrents /\ (~torrent.here => torrent = Absent) /\ trow \in [TJob -> OwnRows]
      /\ upsets \in 0 .. MaxUpsets /\ OursOnceTouched
  BY DEF OwnInv, OwnFields
<1>1. Upset => upsets' \in 0 .. MaxUpsets
  BY <1>0 DEF Upset
<1>2. CASE CreateTorrent(j)
  <2>1. OwnInv'
    BY <1>0, <1>2, LaunchStep DEF CreateTorrent
  <2> QED BY <1>2, <2>1 DEF CreateTorrent
<1>3. CASE RetryTorrent(j)
  <2>1. Exists(j) /\ upsets' \in 0 .. MaxUpsets
    BY <1>0, <1>1, <1>3 DEF RetryTorrent, Exists
  <2>2. OwnInv'
    BY <1>3, <2>1, LaunchStep DEF RetryTorrent
  <2> QED BY <1>3, <2>2 DEF RetryTorrent
<1>4. CASE torrent' \in {Absent, torrent} /\ (torrent' # torrent => trow[j].eid \/ hashOf[j])
  <2>1. torrent' = Absent => torrent' = torrent \/ torrent.ours \/ removed
    BY <1>0, <1>4 DEF OursOnceTouched
  <2>2. torrent' = [torrent EXCEPT !.state = "stopped"] => torrent' = torrent
    <3>1. [torrent EXCEPT !.state = "stopped"].here = torrent.here
      BY <1>0 DEF OwnTorrents
    <3> QED BY <1>0, <1>4, <3>1, OwnShapes
  <2>3. torrent' = InheritedTorrents.foreign => torrent' = torrent
    BY <1>4, OwnShapes
  <2>4. OthersMove
    BY <1>4, <2>1, <2>2, <2>3 DEF OthersMove
  <2>5. CASE CancelTorrent(j)
    <3>1. /\ cmd' \in [op : {"none", "cancel", "delete"}, job : TJob, eid : BOOLEAN] /\ (cmd'.eid => trow[j].eid)
      BY <1>0, <2>5 DEF CancelTorrent, OwnRows
    <3> QED BY <1>0, <2>4, <2>5, <3>1, OthersStep DEF CancelTorrent
  <2>6. CASE DeleteTorrent(j)
    <3>1. /\ cmd' \in [op : {"none", "cancel", "delete"}, job : TJob, eid : BOOLEAN] /\ (cmd'.eid => trow[j].eid)
      BY <1>0, <2>6 DEF DeleteTorrent, OwnRows
    <3> QED BY <1>1, <2>4, <2>6, <3>1, OthersStep DEF DeleteTorrent
  <2> QED BY <1>2, <1>3, <2>5, <2>6
<1>5. CancelTorrent(j) \/ DeleteTorrent(j) => torrent' \in {Absent, torrent} /\ (torrent' # torrent => trow[j].eid \/ hashOf[j])
  BY DEF CancelTorrent, DeleteTorrent
<1> QED BY <1>2, <1>3, <1>4, <1>5

LEMMA DaemonStep ==
    ASSUME OwnInv, Remember, MetadataArrives \/ UserAddsTorrent \/ UserRemovesTorrent
    PROVE  OwnInv' /\ (Foreign /\ ~removed => torrent' = torrent)
<1>0. /\ torrent \in OwnTorrents /\ (~torrent.here => torrent = Absent)
      /\ upsets \in 0 .. MaxUpsets
      /\ cmd \in [op : {"none", "cancel", "delete"}, job : TJob, eid : BOOLEAN]
  BY DEF OwnInv, OwnFields
<1>1. upsets' \in 0 .. MaxUpsets
  BY <1>0 DEF MetadataArrives, UserAddsTorrent, UserRemovesTorrent, Upset
<1>2. UNCHANGED <<trow, hashOf, acq, begun, cancelOf>> /\ cmd' = cmd
  BY DEF MetadataArrives, UserAddsTorrent, UserRemovesTorrent, DaemonOnly
<1>3. [torrent EXCEPT !.state = "stopped"].here = torrent.here
      /\ [torrent EXCEPT !.state = "stopped"].tags = torrent.tags
      /\ [torrent EXCEPT !.state = "stopped"].state = "stopped"
  BY <1>0 DEF OwnTorrents
<1>4. OthersMove
  <2>1. CASE MetadataArrives
    BY <1>0, <1>3, <2>1, OwnShapes DEF OthersMove, MetadataArrives
  <2>2. CASE UserAddsTorrent
    BY <1>0, <1>3, <2>2, OwnShapes DEF OthersMove, UserAddsTorrent
  <2>3. CASE UserRemovesTorrent
    BY <1>0, <1>3, <2>3, OwnShapes DEF OthersMove, UserRemovesTorrent
  <2> QED BY <2>1, <2>2, <2>3
<1> QED BY <1>0, <1>1, <1>2, <1>4, OthersStep

LEMMA OwnStep ==
    ASSUME OwnInv, [OwnNext]_ownVars
    PROVE  OwnInv' /\ (Foreign /\ ~removed => torrent' = torrent)
<1>1. CASE UNCHANGED ownVars
  BY <1>1 DEF ownVars, OwnInv, OwnFields, OwnTorrents, OwnRows, Acquisitions, Places, Numbered, SomeoneActs, Acting, Live,
     OursOnceTouched, HolderHasTag, Holds, TagKeepsOut, Exists, OverlapIsSeen, Begun, AwaitsAlone, Awaits, StoppedFirst,
     ForeignRuns, Foreign
<1>2. ASSUME NEW a \in Acq, Acquisition(a), Remember
      PROVE  OwnInv' /\ (Foreign /\ ~removed => torrent' = torrent)
  BY <1>2, AcquisitionMovesSo, AcquisitionStep
<1>3. CASE (WriteCancelled \/ DeleteTorrentRows) /\ Remember
  <2>1. ClosesRows /\ UNCHANGED <<torrent, begun, cancelOf, upsets>>
    BY <1>3, WriteCancelledCloses, DeletedRowsClose DEF WriteCancelled, DeleteTorrentRows
  <2> QED BY <1>3, <2>1, ClosingStep
<1>4. CASE Restart /\ Remember
  BY <1>4, RestartStep DEF Restart
<1> QED BY <1>1, <1>2, <1>3, <1>4, ClientStep, DaemonStep DEF OwnNext

LEMMA OwnInvSuffices ==
    ASSUME OwnInv
    PROVE  WaitsForItsOwner
<1>0. /\ OwnFields /\ Numbered /\ SomeoneActs /\ HolderHasTag /\ TagKeepsOut /\ StoppedFirst
      /\ begun \in [TJob -> Nat]
  BY DEF OwnInv, OwnFields
<1>1. OwnTypeOK
  <2>1. ASSUME NEW j \in TJob
        PROVE  begun[j] \in 0 .. MaxTries[j] /\ cancelOf[j] \in None .. MaxTries[j]
    <3>1. begun[j] \in 0 .. MaxTries[j] /\ cancelOf[j] \in 0 .. begun[j] /\ begun[j] \in Nat /\ MaxTries[j] \in Nat
      BY <1>0 DEF Numbered
    <3> QED BY <3>1 DEF None
  <2>2. ASSUME NEW j \in TJob, trow[j].status = "analyzing"
        PROVE  \E n \in 1 .. begun[j] : acq[<<j, n>>].at \notin {"none", "gone"}
    <3>1. PICK a \in Acq : a[1] = j /\ Acting(a)
      BY <1>0, <2>2 DEF SomeoneActs
    <3>2. a = <<j, a[2]>> /\ a[2] \in 1 .. MaxTries[j] /\ MaxTries[j] \in Nat /\ begun[j] \in Nat
      BY <1>0, <3>1, AcqShape
    <3>3. acq[a].at \notin {"none", "gone"}
      BY <3>1 DEF Acting, Acquiring, Held
    <3>4. ~(a[2] > begun[j])
      BY <1>0, <3>1, <3>3, OwnShapes DEF Numbered
    <3>5. a[2] \in 1 .. begun[j]
      BY <3>2, <3>4
    <3> QED BY <3>2, <3>3, <3>5
  <2> QED BY <1>0, <2>1, <2>2 DEF OwnTypeOK, OwnFields, OwnTorrents, OwnRows, Acquisitions, Places
<1>2. OneOwner
  <2>1. SUFFICES ASSUME NEW i \in TJob, NEW j \in TJob, i # j, Awaits(i), Awaits(j), ~removed
                 PROVE  i \in adopters /\ j \in adopters
    BY DEF OneOwner, Awaits
  <2>2. ASSUME NEW k \in {i, j}, NEW l \in {i, j}, k # l, k \notin adopters
        PROVE  FALSE
    <3>1. Holds(k) /\ Exists(k) /\ Awaits(l) /\ k \in TJob /\ l \in TJob
      BY <2>1, <2>2 DEF Holds, Exists, Awaits
    <3>2. k \in torrent.tags
      BY <1>0, <2>1, <2>2, <3>1 DEF HolderHasTag
    <3> QED BY <1>0, <2>1, <2>2, <3>1, <3>2 DEF TagKeepsOut
  <2> QED BY <2>1, <2>2
<1>3. NothingRunsUnselected
  BY <1>0 DEF NothingRunsUnselected, StoppedFirst, Owned, Awaits
<1> QED BY <1>1, <1>2, <1>3 DEF WaitsForItsOwner

\* The invariant, for every set of jobs and every bound.
THEOREM OwnershipInvariant == OwnSpec => []OwnInv
<1>1. OwnInit => OwnInv
  BY OwnInvInit
<1>2. OwnInv /\ [OwnNext]_ownVars => OwnInv'
  BY OwnStep
<1> QED BY <1>1, <1>2, PTL DEF OwnSpec

\* A torrent waits, stopped, for the selection of one job (Manager.acquireTorrentMetadata,
\* reconcileOwnership).
THEOREM TorrentWaitsForItsOwner == OwnSpec => []WaitsForItsOwner
<1>1. OwnInv => WaitsForItsOwner
  BY OwnInvSuffices
<1> QED BY <1>1, OwnershipInvariant, PTL

\* No step of ours, or of a client, changes a torrent of another category, as long as
\* no torrent of the hash was removed.
THEOREM ForeignIsLeftAlone == OwnSpec => NewcomersLeaveForeign
<1>1. OwnInv /\ [OwnNext]_ownVars => [Foreign /\ ~removed => torrent' = torrent]_ownVars
  BY OwnStep
<1> QED BY <1>1, OwnershipInvariant, PTL DEF OwnSpec, NewcomersLeaveForeign
===============================================================================
