------------------------------- MODULE IoStat -------------------------------
(***************************************************************************)
(* The statistics library (ncl_stat.cc, ncl_stat.h), which is preloaded    *)
(* under a database to measure how much it writes between two syncs: it    *)
(* counts the bytes written through a descriptor of a log or data file,    *)
(* and records the count at fsync, which it then does not pass on.         *)
(*                                                                         *)
(* A path is a sequence of tokens, a word, "/" or ".".  A histogram is     *)
(* reduced to the sum of what was recorded in it.  The mutex of the        *)
(* library is commented out; each call is one step here, so races inside   *)
(* the tables of the library are left out.  fopen, fwrite and fclose do    *)
(* what open, write and close do, the buffer of a stream left out.  The    *)
(* thread that saves the histograms opens and closes its files with the    *)
(* library's own fopen and fclose, between any two calls of the            *)
(* application.                                                            *)
(***************************************************************************)
EXTENDS Integers, Sequences, FiniteSetsExt, SequencesExt

CONSTANTS
    Fds,        \* descriptors the kernel hands out
    Words,      \* what names are made of
    Files,      \* files the application opens
    LogWords,   \* words that begin with "ib_logfile"
    Lens,       \* sizes of writes
    HistMax,    \* the largest value a histogram takes
    MaxBytes    \* bound: bytes the application asks to write

VARIABLES
    fd_stat,         \* per descriptor: extension whose histogram it feeds
    fd_accumulated,  \* per descriptor: bytes since the last sync, or Absent
    ext_stat,        \* per extension: sum of the values recorded
    \* kernel
    open_file,       \* per descriptor: the file it is open on, or NoFile
    unsynced,        \* per descriptor: bytes written the kernel has not synced
    \* history
    asked,           \* descriptors not written to since fsync last returned
    requested,       \* per extension: bytes the application asked to write
    dropped,         \* per extension: bytes counted but closed before a sync
    oversized,       \* per extension: bytes of the counts no histogram took
    bytes            \* spent of the bound

statVars == <<fd_stat, fd_accumulated, ext_stat, open_file, unsynced, asked, requested,
              dropped, oversized, bytes>>

LOG == "ib_logfile"
DB == "ibd"
exts == {LOG, DB}
NoExt == "none"
Absent == -1
NoFile == [absolute |-> FALSE, dirs |-> <<>>, name |-> <<>>]

\* Where save puts the histogram of an extension.
saved_as == [e \in exts |-> IF e = LOG THEN "ib_logfile_stat" ELSE "ibd_stat"]
stat_name(e) == [absolute |-> FALSE, dirs |-> <<>>, name |-> <<saved_as[e], "csv">>]

ASSUME IoStatAssumption ==
    /\ IsFiniteSet(Fds) /\ Lens \subseteq Nat /\ HistMax \in Nat /\ MaxBytes \in Nat
    /\ "/" \notin Words /\ "." \notin Words
    /\ LOG \in LogWords /\ DB \notin LogWords
    /\ \A e \in exts : saved_as[e] \in Words
    /\ "csv" \in Words
    /\ Files \subseteq [absolute : BOOLEAN, dirs : Seq(Seq(Words)), name : Seq(Words)]

-----------------------------------------------------------------------------
(* ncl_stat.h *)

\* rfind(c, from): the last place of token c up to from, 0 for npos.
rfind(s, c, from) == Max({i \in 1 .. from : s[i] = c} \cup {0})

getFileExt(s) ==
    LET i == rfind(s, ".", Len(s))
    IN  IF i # 0 THEN SubSeq(s, i + 1, Len(s)) ELSE <<>>

\* When the last dot is before the last slash its length is negative as a
\* size_t, and substr goes to the end.
getFileName(s) ==
    LET l == rfind(s, "/", Len(s))
        r == rfind(s, ".", Len(s))
    IN  IF r # 0 /\ r > l THEN SubSeq(s, l + 1, r - 1) ELSE SubSeq(s, l + 1, Len(s))

getParentDir(s) ==
    LET r == rfind(s, "/", Len(s))
    IN  IF r <= 1 THEN <<>> ELSE SubSeq(s, rfind(s, "/", r - 1) + 1, r - 1)

checkFileNamePrefix(s) ==
    LET f == getFileName(s) IN f # <<>> /\ Head(f) \in LogWords

\* The extension prepareHist arrives at, NoExt when it is not one of exts.
Ext(path) ==
    LET name == getFileName(path)
        ext == IF checkFileNamePrefix(name) THEN <<LOG>>
               ELSE IF getParentDir(path) = <<"ycsb">> THEN getFileExt(path)
               ELSE name
    IN  IF ext \in {<<e>> : e \in exts} THEN Head(ext) ELSE NoExt

-----------------------------------------------------------------------------
(* A file has a name and directories, each made of words with dots between   *)
(* them, and a path that starts at the root or not.                          *)

Joined(parts, sep) ==
    FlattenSeq([i \in DOMAIN parts |-> IF i = 1 THEN parts[i] ELSE <<sep>> \o parts[i]])
Dotted(words) == Joined([i \in DOMAIN words |-> <<words[i]>>], ".")

Text(f) ==
    (IF f.absolute THEN <<"/">> ELSE <<>>) \o
    Joined([i \in 1 .. Len(f.dirs) + 1 |->
                Dotted(IF i <= Len(f.dirs) THEN f.dirs[i] ELSE f.name)], "/")

\* Which histogram the file belongs to: a log by the beginning of its name, in
\* the directory ycsb any file by its extension; elsewhere a file whose name
\* without extension is ibd counts as a table.
Class(f) ==
    LET words == Len(f.name)
        in_ycsb == f.dirs # <<>> /\ f.dirs[Len(f.dirs)] = <<"ycsb">>
    IN  CASE words = 0 -> NoExt
          [] words > 0 /\ f.name[1] \in LogWords -> LOG
          [] words > 1 /\ f.name[1] \notin LogWords /\ in_ycsb /\ f.name[words] \in exts ->
                 f.name[words]
          [] words \in 1 .. 2 /\ f.name[1] = DB /\ ~in_ycsb -> DB
          [] OTHER -> NoExt

-----------------------------------------------------------------------------
(* ncl_stat.cc *)

StatInit ==
    /\ fd_stat = [d \in Fds |-> NoExt] /\ fd_accumulated = [d \in Fds |-> Absent]
    /\ ext_stat = [e \in exts |-> 0]
    /\ open_file = [d \in Fds |-> NoFile] /\ unsynced = [d \in Fds |-> 0]
    /\ asked = {}
    /\ requested = [e \in exts |-> 0] /\ dropped = [e \in exts |-> 0]
    /\ oversized = [e \in exts |-> 0]
    /\ bytes = 0

Add(f, e, n) == IF e \in exts THEN [f EXCEPT ![e] = @ + n] ELSE f

\* prepareHist: a file of no extension leaves the tables as they are.
prepareHist(path, d) ==
    LET e == Ext(path) IN
    IF e \in exts
    THEN /\ fd_stat' = [fd_stat EXCEPT ![d] = e]
         /\ fd_accumulated' = [fd_accumulated EXCEPT ![d] = 0]
    ELSE UNCHANGED <<fd_stat, fd_accumulated>>

\* hdr_record_value: a count beyond what the histogram takes is lost.
hdr_record_value(e, n) ==
    /\ ext_stat' = IF n <= HistMax THEN Add(ext_stat, e, n) ELSE ext_stat
    /\ oversized' = IF n <= HistMax THEN oversized ELSE Add(oversized, e, n)

open(d, f) ==
    /\ open_file[d] = NoFile
    /\ open_file' = [open_file EXCEPT ![d] = f]
    /\ unsynced' = [unsynced EXCEPT ![d] = 0]
    /\ asked' = asked \ {d}
    /\ prepareHist(Text(f), d)
    /\ UNCHANGED <<ext_stat, requested, dropped, oversized, bytes>>

\* The descriptors of the thread that saves.
Saving == {d \in Fds : open_file[d] \in {stat_name(e) : e \in exts}}

\* save up to its fclose, one file at a time.  It writes with fprintf, which
\* does not come by write.
save(d, e) ==
    /\ Saving = {}
    /\ open(d, stat_name(e))

\* record_value: every descriptor in fd_stat is in fd_accumulated as well, so
\* nothing is recorded before a sync.
record_value(d, n) ==
    IF fd_stat[d] # NoExt /\ fd_accumulated[d] # Absent
    THEN /\ fd_accumulated' = [fd_accumulated EXCEPT ![d] = @ + n]
         /\ UNCHANGED <<ext_stat, oversized>>
    ELSE hdr_record_value(fd_stat[d], n) /\ UNCHANGED fd_accumulated

\* The count asked for is recorded before the call, which takes k bytes of it,
\* none when it fails.
write(d, n, k) ==
    /\ open_file[d] # NoFile /\ d \notin Saving
    /\ bytes + n <= MaxBytes /\ bytes' = bytes + n
    /\ record_value(d, n)
    /\ unsynced' = [unsynced EXCEPT ![d] = @ + k]
    /\ asked' = asked \ {d}
    /\ requested' = Add(requested, Class(open_file[d]), n)
    /\ UNCHANGED <<fd_stat, open_file, dropped>>

\* Faulty variant: the count goes on after it was recorded.
record_accum_value_NoReset(d) ==
    /\ fd_accumulated[d] > 0
    /\ hdr_record_value(fd_stat[d], fd_accumulated[d])
    /\ UNCHANGED fd_accumulated

\* record_accum_value where it returns true; the count is reset also when the
\* histogram did not take it.
record_accum_value(d) ==
    /\ fd_accumulated[d] > 0
    /\ hdr_record_value(fd_stat[d], fd_accumulated[d])
    /\ fd_accumulated' = [fd_accumulated EXCEPT ![d] = 0]

\* sync_internal: with a count to record the call returns without syncing;
\* with none the kernel syncs.
sync_internal(d) ==
    /\ open_file[d] # NoFile /\ d \notin Saving
    /\ \/ record_accum_value(d) /\ UNCHANGED unsynced
       \/ /\ ~(fd_accumulated[d] > 0)
          /\ unsynced' = [unsynced EXCEPT ![d] = 0]
          /\ UNCHANGED <<ext_stat, oversized, fd_accumulated>>
    /\ asked' = asked \cup {d}
    /\ UNCHANGED <<fd_stat, open_file, requested, dropped, bytes>>

\* Faulty variant: the entries stay behind for whoever gets the number next.
close_KeepsEntry(d) ==
    /\ open_file[d] # NoFile
    /\ open_file' = [open_file EXCEPT ![d] = NoFile]
    /\ unsynced' = [unsynced EXCEPT ![d] = 0]
    /\ asked' = asked \ {d}
    /\ UNCHANGED <<fd_stat, fd_accumulated, ext_stat, requested, dropped, oversized, bytes>>

\* close: what was not synced is never recorded.
close(d) ==
    /\ open_file[d] # NoFile
    /\ dropped' = Add(dropped, fd_stat[d], fd_accumulated[d])
    /\ fd_stat' = [fd_stat EXCEPT ![d] = NoExt]
    /\ fd_accumulated' = [fd_accumulated EXCEPT ![d] = Absent]
    /\ open_file' = [open_file EXCEPT ![d] = NoFile]
    /\ unsynced' = [unsynced EXCEPT ![d] = 0]
    /\ asked' = asked \ {d}
    /\ UNCHANGED <<ext_stat, requested, oversized, bytes>>

StatNext ==
    \E d \in Fds : \/ \E f \in Files : open(d, f)
                    \/ \E n \in Lens : \E k \in 0 .. n : write(d, n, k)
                    \/ sync_internal(d)
                    \/ close(d)
                    \/ \E e \in exts : save(d, e)

StatSpec == StatInit /\ [][StatNext]_statVars

-----------------------------------------------------------------------------
(* Properties. *)

\* No count is taken twice or for the wrong kind of file, whatever number the
\* kernel gives a descriptor and wherever dots and slashes are in its path: of
\* the bytes the application asked to write to logs and tables, those not in
\* the histogram wait for a sync, were dropped by close, or made a count beyond
\* what the histogram takes; the files of the saving thread add nothing
\* (ncl_stat.cc:52, 87, 98, 222, 275).
BytesConserved ==
    \A e \in exts :
        requested[e] = ext_stat[e] + dropped[e] + oversized[e] +
                       MapThenSumSet(LAMBDA d : fd_accumulated[d],
                                     {d \in Fds : Class(open_file[d]) = e})

\* A sync is withheld from the kernel for logs and tables only: the library
\* does not take away the durability of another file, also one that gets the
\* descriptor of a log just closed (ncl_stat.cc:262).
OthersSynced ==
    \A d \in asked : Class(open_file[d]) = NoExt => unsynced[d] = 0

=============================================================================
