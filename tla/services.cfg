SPECIFICATION Spec
CONSTANTS
  Job = {"j1", "j2", "j3"}
  Engine = {"ytdlp", "aria2"}
  Ytdlp = "ytdlp"
  NoEngine = "noEngine"
  NoLease = "noLease"
  DefaultGlobalTransferLimit = 2
  DefaultYtdlpEngineLimit = 1
  LimitValues <- MCLimits
  Host = {"server", "desktop"}
  Field = {"proxy", "cookies"}
  MaxFresh = 2
  MaxTroubles = 2
  MaxStarts = 3
  Run = {"analysis", "download"}
  MaxRuns = 3
  MaxOrders = 5
  MaxMishaps = 2
  MaxVersion = 2
  MaxChanges = 2
  MaxFailures = 1
  MaxLaunches = 2
\* Every budget can run out.
CHECK_DEADLOCK FALSE
INVARIANTS GovInv SecretsStayReadable GeneratedKeyIsKept CookiesAreGuarded LedgerIsTrue
PROPERTIES RefinesPermitPool
