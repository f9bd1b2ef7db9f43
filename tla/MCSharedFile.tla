---------------------------- MODULE MCSharedFile ----------------------------
(* An instance of SharedFile for TLC. *)
EXTENDS SharedFile

CONSTANTS t1, t2

TwoThreads == {t1, t2}
=============================================================================
