------------------------------ MODULE MCTorrents ------------------------------
\* Instances of TorrentOwnership for TLC: t1 may be acquired twice.
EXTENDS TorrentOwnership

CONSTANTS t1, t2

TriesOfTwo == [j \in TJob |-> IF j = t1 THEN 2 ELSE 1]
==============================================================================
