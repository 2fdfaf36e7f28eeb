------------------------------ MODULE MCSeeding -------------------------------
\* Instances of TorrentSeeding for TLC.  Requests and files are interchangeable.
EXTENDS TorrentSeeding, TLC

CONSTANTS c1, c2, f1, f2

OneOrOther == {{f1}, {f2}}
Interchangeable == Permutations({c1, c2}) \cup Permutations({f1, f2})
==============================================================================
