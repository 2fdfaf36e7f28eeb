---------------------------- MODULE MCFinalization ----------------------------
\* Instances of Finalization for TLC.
EXTENDS Finalization

CONSTANTS m1, m2

Bound(jobs, db, io, foreign, cmd, crash) ==
    [jobs |-> jobs, db |-> db, io |-> io, foreign |-> foreign, cmd |-> cmd, crash |-> crash]

\* One job that everything may happen to; one that is commanded twice in an empty
\* directory; a crash of the recovery; two jobs that save under one name.
Everything == {Bound({m1}, 1, 1, 1, 1, 1), Bound({m1}, 1, 1, 0, 2, 1),
               Bound({m1}, 0, 0, 1, 0, 2), Bound({m1, m2}, 0, 0, 1, 0, 0), Bound({m1, m2}, 0, 0, 0, 1, 0)}
===============================================================================
