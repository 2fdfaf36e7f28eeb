SPECIFICATION CoreLiveSpec
CONSTANTS
  j1 = j1
  j2 = j2
  c1 = c1
  c2 = c2
  Job = {j1, j2}
  Client = {c1}
  Commands <- AllCommands
  TransferLimit = 1
  MaxTasks = 4
  MaxFailures = 2
  EngineQueues = TRUE
  Serial = TRUE
  Budget <- LiveBudget
\* Commands and faults are bounded: a behaviour may come to rest.
CHECK_DEADLOCK FALSE
PROPERTIES QueuedIsServed PermitsComeBack
