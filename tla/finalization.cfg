SPECIFICATION MediaSpec
CONSTANTS
  m1 = m1
  Job = {m1, m2}
  m2 = m2
  MaxAttempts = 2
  Paths = 5
  Nothing = Nothing
  Foreign = Foreign
  Policies = {"rename", "overwrite", "fail"}
  Devices = {"same", "other"}
  Scenarios <- Everything
\* Downloads end and commands and faults are bounded: a behaviour comes to rest.
CHECK_DEADLOCK FALSE
INVARIANTS JournalIsTrue ArtifactSurvives CompletedIsDelivered NeverFalselyFailed
PROPERTIES  FinishedJobsEnd
