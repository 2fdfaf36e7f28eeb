SPECIFICATION SyncSpec
CONSTANTS
  j1 = j1
  j2 = j2
  w1 = w1
  w2 = w2
  Job = {j1, j2}
  Writer = {w1, w2}
  Capacity = 2
  ChanCap = 1
  MaxChanges = 2
  MaxFaults = 1
SYMMETRY SyncSymmetry
CHECK_DEADLOCK FALSE
INVARIANTS CursorIsTrue CaughtUp
