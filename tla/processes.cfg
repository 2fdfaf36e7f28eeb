SPECIFICATION ProcSpec
CONSTANTS
  v1 = v1
  v2 = v2
  MediaJob = {v1}
  MaxTries = 2
\* The application ends.
CHECK_DEADLOCK FALSE
INVARIANTS NeverAlreadyRunning 
PROPERTIES CancelledDies
