---------------------------- MODULE MCFileTables ----------------------------
(* An instance of FileTables for TLC.  Threads, paths and descriptors are    *)
(* interchangeable; clients are not, the pool takes the lowest id.           *)
EXTENDS FileTables, TLC

CONSTANTS t1, t2, p1, p2, d1, d2

TwoThreads == {t1, t2}
TwoPaths == {p1, p2}
TwoFds == {d1, d2}

Symmetric == Permutations(TwoThreads) \cup Permutations(TwoPaths) \cup Permutations(TwoFds)
=============================================================================
