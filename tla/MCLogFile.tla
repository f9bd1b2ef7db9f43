------------------------------ MODULE MCLogFile ------------------------------
(* Instances of LogFile for TLC. *)
EXTENDS LogFile

\* Two characters, one of them the newline, in strings of length 1 and 2.
MCStrings == {<<1>>, <<2>>, <<1, 2>>, <<2, 1>>}
MCNewline == 2
MCCounts == 1 .. 4
MCOffsets == -1 .. 4
\* SEEK_SET, SEEK_CUR, SEEK_END and one that Seek does not know.
MCWhences == 0 .. 3
=============================================================================
