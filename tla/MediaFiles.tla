------------------------------ MODULE MediaFiles ------------------------------
(***************************************************************************)
(* The files of media jobs and what internal/storage does to them: a        *)
(* finished file is staged in its job's work directory and moved into the   *)
(* destination directory, where the user's own files are too.               *)
(*                                                                         *)
(* All jobs save under one name in one directory; path 1 is that name and   *)
(* path n + 1 the name with " (n)".  The content of a file is Nothing (no   *)
(* file), Foreign (not written by a job) or the delivery <<job, attempt>>.  *)
(* Checking for a file and renaming onto it are one step; the copy that     *)
(* replaces a rename between file systems takes several.                    *)
(***************************************************************************)
EXTENDS Integers, FiniteSetsExt

CONSTANTS
    Job,          \* media jobs
    MaxAttempts,  \* bound: downloads of one job
    Paths,        \* bound: names in the destination directory, 1 .. Paths
    Nothing,      \* no file
    Foreign       \* a file no job has written

ASSUME FileAssumptions ==
    /\ IsFiniteSet(Job)
    /\ MaxAttempts \in Nat \ {0} /\ Paths \in Nat \ {0}
    /\ Nothing # Foreign /\ {Nothing, Foreign} \cap (Job \X (1 .. MaxAttempts)) = {}

VARIABLES
    dest,      \* path -> content
    staging,   \* job -> the finished file in its work directory
    sidecar,   \* job -> its subtitle file: "none", "staged", "delivered"
    policy,    \* job -> conflict policy
    device     \* work directories are on the destination's device, or on another

fileVars == <<dest, staging, sidecar, policy, device>>

Path == 1 .. Paths
NoPath == 0
Delivery == Job \X (1 .. MaxAttempts)
Content == Delivery \cup {Nothing, Foreign}
ConflictPolicy == {"rename", "overwrite", "fail"}

FilesTypeOK ==
    /\ dest \in [Path -> Content]
    /\ staging \in [Job -> Delivery \cup {Nothing}]
    /\ sidecar \in [Job -> {"none", "staged", "delivered"}]
    /\ policy \in [Job -> ConflictPolicy]
    /\ device \in {"same", "other"}

\* validateArtifactFile compares sizes: no digest is ever recorded, and a
\* foreign file is taken to have another size.
Valid(p, d) == p # NoPath /\ dest[p] = d

FreePaths == {p \in Path : dest[p] = Nothing}

\* The path a file of job j is saved under, NoPath for a conflict.
ResolveFinalPath(j) ==
    CASE policy[j] = "overwrite"                        -> 1
      [] policy[j] = "rename"                           -> Min(FreePaths)
      [] policy[j] = "fail" /\ dest[1] # Nothing        -> NoPath
      [] OTHER                                          -> 1

\* Bound: a name is left.
CanName(j) == policy[j] = "rename" => FreePaths # {}

\* The move is refused: the file has gone from the work directory, or another
\* has taken the name since it was chosen.
CannotMove(j, p) == staging[j] = Nothing \/ (dest[p] # Nothing /\ policy[j] # "overwrite")

\* A rename is possible only onto a free name of the same device.
CanRename(p) == device = "same" /\ dest[p] = Nothing

Rename(j, p) ==
    /\ dest' = [dest EXCEPT ![p] = staging[j]]
    /\ staging' = [staging EXCEPT ![j] = Nothing]
    /\ UNCHANGED <<sidecar, policy, device>>

\* Mutant: the copy is renamed over whatever has come meanwhile.
CopyConflictsNever(j, p) == FALSE

\* The second look at the name, after the copy.
CopyConflicts(j, p) == dest[p] # Nothing /\ policy[j] # "overwrite"

\* The copy is complete under a temporary name; the destination is set aside
\* and the copy renamed.  The source is removed last.
Replace(copy, p) ==
    /\ dest' = [dest EXCEPT ![p] = copy]
    /\ UNCHANGED <<staging, sidecar, policy, device>>

RemoveSource(j) ==
    /\ staging' = [staging EXCEPT ![j] = Nothing]
    /\ UNCHANGED <<dest, sidecar, policy, device>>

\* The marker in a work directory names its job: it is the job's own.
CleanupWorkDir(j) ==
    /\ staging' = [staging EXCEPT ![j] = Nothing]
    /\ sidecar' = [sidecar EXCEPT ![j] = IF @ = "staged" THEN "none" ELSE @]
    /\ UNCHANGED <<dest, policy, device>>

\* Those of the jobs that are not preserved.
CleanupStaleWorkDirs(preserved) ==
    /\ staging' = [j \in Job |-> IF j \in preserved THEN staging[j] ELSE Nothing]
    /\ sidecar' = [j \in Job |-> IF j \notin preserved /\ sidecar[j] = "staged"
                                 THEN "none" ELSE sidecar[j]]
    /\ UNCHANGED <<dest, policy, device>>
===============================================================================
