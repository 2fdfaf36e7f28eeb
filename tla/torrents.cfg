SPECIFICATION OwnSpec
CONSTANTS
  t1 = t1
  t2 = t2
  TJob = {t1, t2}
  FileJob = {t2}
  MaxTries <- TriesOfTwo
  MaxUpsets = 1
  Inherited = {"nothing", "orphan"}
CHECK_DEADLOCK FALSE
INVARIANTS WaitsForItsOwner
PROPERTIES NewcomersLeaveForeign
