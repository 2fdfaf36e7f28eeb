----------------------------- MODULE MCProcesses -----------------------------
\* Instances of MediaProcesses for TLC.
EXTENDS MediaProcesses

CONSTANTS v1, v2
==============================================================================
