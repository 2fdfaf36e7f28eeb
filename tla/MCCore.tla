-------------------------------- MODULE MCCore --------------------------------
\* Instances of DownloadCore for TLC: two jobs, one permit, four engine
\* tasks, every command unless the run says otherwise.
EXTENDS DownloadCore, TLC

CONSTANTS j1, j2, c1, c2

AllCommands == {"create", "pause", "resume", "cancel", "retry", "run_now", "delete"}

\* Bounds on commands, on commands and faults together, and on failing database calls,
\* failing engine calls, full disks, lost tasks and crashes in one behaviour.
Bound(n, any, db, rpc, disk, lost, crash) ==
    [cmd |-> n, any |-> any, db |-> db, rpc |-> rpc, disk |-> disk, lost |-> lost, crash |-> crash]

SerialBudget == Bound(4, 6, 0, 1, 1, 1, 1)
RacingBudget == Bound(3, 4, 1, 1, 1, 1, 1)
LiveBudget   == Bound(3, 5, 0, 1, 1, 1, 0)
QuietBudget  == Bound(3, 3, 0, 0, 0, 0, 0)

\* Jobs are interchangeable, and so are the clients.
Symmetry == Permutations(Job) \cup Permutations(Client)
===============================================================================
