------------------------------ MODULE JobStates ------------------------------
(***************************************************************************)
(* The job state machine of internal/job/state.go and the translation of   *)
(* aria2 task states into job states (internal/engine/aria2/mapper.go).    *)
(***************************************************************************)

JobStatus == {"queued", "analyzing", "awaiting_selection", "downloading",
              "processing", "seeding", "paused", "completed", "failed", "cancelled"}

\* Mutant: a cancelled job may be retried.
CancelledMayRetry ==
    [s \in JobStatus |->
        CASE s = "queued" -> {"downloading", "paused", "cancelled", "failed"}
          [] s = "downloading" -> {"paused", "failed", "completed", "cancelled"}
          [] s = "paused" -> {"queued", "downloading", "cancelled"}
          [] s \in {"failed", "cancelled"} -> {"queued"}
          [] OTHER -> {}]

\* validTransitions: what a user command may do to a job.
ValidTransitions ==
    [s \in JobStatus |->
        CASE s = "queued"      -> {"downloading", "paused", "cancelled", "failed", "analyzing"}
          [] s = "downloading" -> {"paused", "failed", "completed", "cancelled",
                                   "processing", "seeding"}
          [] s = "paused"      -> {"queued", "downloading", "cancelled"}
          [] s = "failed"      -> {"queued", "analyzing"}
          [] s = "analyzing"   -> {"queued", "downloading", "failed", "cancelled",
                                   "awaiting_selection"}
          [] s = "processing"  -> {"completed", "failed", "cancelled"}
          [] s = "awaiting_selection" -> {"queued", "downloading", "cancelled"}
          [] s = "seeding"     -> {"completed", "failed"}
          [] OTHER             -> {}]

CanMove(from, to) == from \in JobStatus /\ to \in ValidTransitions[from]

IsTerminal(s) == s \in {"completed", "cancelled"}

IsRecoverable(s) == s \in {"queued", "downloading", "paused", "analyzing",
                           "awaiting_selection", "seeding"}

\* The states a queue row must not survive: dispatchSingle and
\* cleanupQueueOnStartup both delete on them.
NoLongerQueued == {"completed", "failed", "cancelled", "downloading", "processing", "seeding"}

\* aria2 task states, and what the engine reports for each.
TaskStatus == {"active", "waiting", "paused", "complete", "error", "removed"}

MapAria2Status(raw) ==
    CASE raw = "active"   -> "downloading"
      [] raw = "waiting"  -> "queued"
      [] raw = "paused"   -> "paused"
      [] raw = "complete" -> "completed"
      [] raw = "removed"  -> "cancelled"
      [] OTHER            -> "failed"
==============================================================================
