------------------------------ MODULE MCStateSync -----------------------------
\* An instance of StateSync for TLC.  Jobs and writers are interchangeable.
EXTENDS StateSync, TLC

CONSTANTS j1, j2, w1, w2

SyncSymmetry == Permutations({w1, w2}) \cup Permutations({j1, j2})
==============================================================================
