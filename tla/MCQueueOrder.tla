---------------------------- MODULE MCQueueOrder ----------------------------
\* Three jobs over the production aging configuration; the clock counts aging
\* intervals and jumps to the ages at which lanes change places.
EXTENDS QueueOrder, TLC

MCInstants == {0, 41, 50}
=============================================================================
