SPECIFICATION SeedSpec
CONSTANTS
  c1 = c1
  c2 = c2
  f1 = f1
  f2 = f2
  File = {f1, f2}
  Choices <- OneOrOther
  Policies = {"none", "ratio"}
  Client = {c1, c2}
  MaxCalls = 2
  MaxUpsets = 2
SYMMETRY Interchangeable
CHECK_DEADLOCK FALSE
INVARIANTS CompletedLeavesDaemon SeedingAsChosen
