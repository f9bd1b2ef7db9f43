------------------------------- MODULE LogFile -------------------------------
(***************************************************************************)
(* The file as the application sees it: the wrappers of src/csl.cc for a   *)
(* descriptor in csl_fd_cli and the methods of CSLClient behind them, all  *)
(* of which work on the local buffer.  One thread, one open descriptor,    *)
(* and the client going from one file to the next through the pool.        *)
(* Replication (WriteQuorum) is the subject of QuorumWrite and leaves the  *)
(* local state alone.                                                      *)
(*                                                                         *)
(* A cell of the buffer holds a character, 0 for a zero byte.  The cells   *)
(* from BufSize on are the sequence word, which counts as one; a character *)
(* stored there is overwritten before the call returns.  size_t arithmetic *)
(* is modulo SizeRange.  What memcpy reads outside of the data cells is    *)
(* Junk.                                                                   *)
(*                                                                         *)
(* WithinFile says that the application stays inside the file: it writes   *)
(* no more than MR_SIZE asks for (README.md of the repository), does not   *)
(* seek or pread beyond the end, and does not fgets up to an end that a    *)
(* newline lies behind.  Only the first of these limits is documented; the *)
(* others are where size_t wraps around or GetLine leaves the file.  For   *)
(* such an application the file is the one of NclFile (Refinement).        *)
(***************************************************************************)
EXTENDS Integers, Sequences

CONSTANTS
    BufSize,     \* seq_offset: data cells of the buffer
    SizeRange,   \* 2^64, the range of size_t
    Junk,        \* what lies outside of the data cells
    Strings, Counts, Offsets, Whences, Newline,  \* as in PosixFile
    WithinFile   \* whether the application stays inside the file

ASSUME LogFileAssumption ==
    /\ BufSize \in Nat
    /\ SizeRange \in Nat /\ SizeRange > 4 * BufSize + 8
    /\ Strings \subseteq Seq(Nat) /\ Counts \subseteq Nat \ {0} /\ Offsets \subseteq Int
    /\ Whences \subseteq Nat
    /\ WithinFile \in BOOLEAN

VARIABLES buffer, buf_offset, file_size, call, ret

logVars == <<buffer, buf_offset, file_size, call, ret>>

Cells == 0 .. BufSize - 1

\* buffer->getSizeInBytes(): the data cells and the sequence word.
getSizeInBytes == BufSize + 1

LeastOf(a, b) == IF a < b THEN a ELSE b
MostOf(a, b) == IF a > b THEN a ELSE b

\* size_t subtraction and conversion of off_t to size_t.
Minus(a, b) == (a - b) % SizeRange
SizeT(a) == a % SizeRange

\* memcpy of the first n characters of s to cell o on, and of n cells from
\* cell o on.
Stored(o, s, n) == [c \in Cells |-> IF c \in o .. o + n - 1 THEN s[c - o + 1] ELSE buffer[c]]
Loaded(o, n) == [i \in 1 .. n |-> IF o + i - 1 \in Cells THEN buffer[o + i - 1] ELSE Junk]

Call(op, s, n, p) == [op |-> op, s |-> s, n |-> n, p |-> p]
Result(n, s) == [n |-> n, s |-> s]

-----------------------------------------------------------------------------
(* CSLClient. *)

\* Faulty variant: the file ends where the last write ended.
AppendLog_ShrinksFile(s) ==
    LET size == LeastOf(Len(s), Minus(getSizeInBytes, buf_offset)) IN
    /\ buf_offset' = buf_offset + size
    /\ file_size' = buf_offset + size
    /\ buffer' = Stored(buf_offset, s, size)
    /\ ret' = Result(size, <<>>)

\* Append.
AppendLog(s) ==
    LET size == LeastOf(Len(s), Minus(getSizeInBytes, buf_offset)) IN
    /\ buf_offset' = buf_offset + size
    /\ file_size' = MostOf(file_size, buf_offset + size)
    /\ buffer' = Stored(buf_offset, s, size)
    /\ ret' = Result(size, <<>>)

WritePos(s, pos) ==
    LET size == LeastOf(Len(s), Minus(getSizeInBytes, pos)) IN
    /\ file_size' = MostOf(pos + size, file_size)
    /\ buffer' = Stored(pos, s, size)
    /\ ret' = Result(size, <<>>)
    /\ UNCHANGED buf_offset

\* Faulty variant: reads as much as it is asked for.
Read_NoClamp(n) ==
    /\ buf_offset' = buf_offset + n
    /\ ret' = Result(n, Loaded(buf_offset, n))
    /\ UNCHANGED <<buffer, file_size>>

Read(n) ==
    LET size == LeastOf(n, Minus(file_size, buf_offset)) IN
    /\ buf_offset' = buf_offset + size
    /\ ret' = Result(size, Loaded(buf_offset, size))
    /\ UNCHANGED <<buffer, file_size>>

\* Faulty variant: pread moves the descriptor.
ReadPos_Moves(n, pos) ==
    LET size == LeastOf(n, Minus(file_size, pos)) IN
    /\ buf_offset' = pos + size
    /\ ret' = Result(size, Loaded(pos, size))
    /\ UNCHANGED <<buffer, file_size>>

ReadPos(n, pos) ==
    LET size == LeastOf(n, Minus(file_size, pos)) IN
    /\ ret' = Result(size, Loaded(pos, size))
    /\ UNCHANGED <<buffer, buf_offset, file_size>>

\* SEEK_END does not look at the argument; an unknown whence is logged.
Seek(a, whence) ==
    /\ buf_offset' = CASE whence = 0 -> LeastOf(SizeT(a), getSizeInBytes - 1)
                       [] whence = 1 -> LeastOf(SizeT(a + buf_offset), getSizeInBytes - 1)
                       [] whence = 2 -> file_size
                       [] OTHER -> buf_offset
    /\ ret' = Result(buf_offset', <<>>)
    /\ UNCHANGED <<buffer, file_size>>

Truncate(length) ==
    /\ file_size' = length
    /\ buffer' = [c \in Cells |-> IF c \in length .. buf_offset - 1 THEN 0 ELSE buffer[c]]
    /\ buf_offset' = LeastOf(buf_offset, length)
    /\ ret' = Result(0, <<>>)

Eof == buf_offset >= file_size

\* The length GetLine's loop arrives at: it looks at the cell after the one it
\* has just counted, counts a newline it finds there, and stops at the end of
\* the file or of s.
LineLength(n) ==
    LET At(len) == Loaded(buf_offset + len, 1)[1]
        Stops(len) == \/ At(len) = Newline
                      \/ buf_offset + len >= file_size
                      \/ len = n - 1
        len == CHOOSE k \in 1 .. n - 1 : Stops(k) /\ \A j \in 1 .. k - 1 : ~Stops(j)
    IN  IF n = 1 THEN 0 ELSE IF At(len) = Newline THEN len + 1 ELSE len

GetLine(n) ==
    /\ IF Eof
       THEN ret' = Result(0, <<>>) /\ UNCHANGED buf_offset
       ELSE /\ ret' = Result(1, Loaded(buf_offset, LineLength(n)))
            /\ buf_offset' = buf_offset + LineLength(n)
    /\ UNCHANGED <<buffer, file_size>>

-----------------------------------------------------------------------------
(* The wrappers of csl.cc, which find the client of the descriptor. *)

write(s) ==
    /\ WithinFile => buf_offset + Len(s) <= BufSize
    /\ call' = Call("write", s, 0, 0)
    /\ AppendLog(s)

pwrite(s, p) ==
    /\ p >= 0
    /\ WithinFile => p + Len(s) <= BufSize
    /\ call' = Call("pwrite", s, 0, p)
    /\ WritePos(s, p)

read(n) ==
    /\ call' = Call("read", <<>>, n, 0)
    /\ Read(n)

\* fread returns the number of bytes.
fread(m, n) ==
    /\ call' = Call("fread", <<>>, n, m)
    /\ Read(m * n)

pread(n, p) ==
    /\ p >= 0
    /\ WithinFile => p <= file_size
    /\ call' = Call("pread", <<>>, n, p)
    /\ ReadPos(n, p)

InFile(a, whence) == CASE whence = 0 -> a \in 0 .. file_size
                       [] whence = 1 -> a + buf_offset \in 0 .. file_size
                       [] OTHER -> TRUE

lseek(a, whence) ==
    /\ WithinFile => InFile(a, whence)
    /\ call' = Call("lseek", <<>>, whence, a)
    /\ Seek(a, whence)

\* fseek returns what Seek does, the new offset.
fseek(a, whence) ==
    /\ WithinFile => InFile(a, whence)
    /\ call' = Call("fseek", <<>>, whence, a)
    /\ Seek(a, whence)

ftruncate(l) ==
    /\ l >= 0
    /\ WithinFile => l <= BufSize
    /\ call' = Call("ftruncate", <<>>, 0, l)
    /\ Truncate(l)

\* GetLine looks at the cell behind the end of the file too, where ftruncate can
\* have left a newline, which it then takes.
fgets(n) ==
    /\ WithinFile /\ ~Eof => buf_offset + LineLength(n) <= file_size
    /\ call' = Call("fgets", <<>>, n, 0)
    /\ GetLine(n)

ftello64 ==
    /\ call' = Call("ftello", <<>>, 0, 0)
    /\ ret' = Result(buf_offset, <<>>)
    /\ UNCHANGED <<buffer, buf_offset, file_size>>

fstat ==
    /\ call' = Call("fstat", <<>>, 0, 0)
    /\ ret' = Result(file_size, <<>>)
    /\ UNCHANGED <<buffer, buf_offset, file_size>>

feof ==
    /\ call' = Call("feof", <<>>, 0, 0)
    /\ ret' = Result(IF Eof THEN 1 ELSE 0, <<>>)
    /\ UNCHANGED <<buffer, buf_offset, file_size>>

\* fsync and fdatasync: every write has been replicated when it returned.
fsync ==
    /\ call' = Call("fsync", <<>>, 0, 0)
    /\ ret' = Result(0, <<>>)
    /\ UNCHANGED <<buffer, buf_offset, file_size>>

\* TryRecover of a client that was Reset, whose peers hold s under the new name:
\* with nothing there, file_size is left as it is, and that many zeros are sent
\* to the peers.
TryRecover(s) ==
    /\ buffer' = [c \in Cells |-> IF c < Len(s) THEN s[c + 1] ELSE 0]
    /\ file_size' = IF s # <<>> THEN Len(s) ELSE file_size

\* The file is closed and unlinked and another one opened.  Reset zeroes the
\* buffer, puts the offset back and leaves file_size; the pool hands the same
\* client out again, SetFileInfo gives it the new name and, unless the flags
\* have O_TRUNC, TryRecover asks the peers for it.
reopen(s, recover) ==
    /\ Len(s) <= BufSize
    /\ call' = Call("open", s, recover, 0)
    /\ buf_offset' = 0
    /\ IF recover = 1 THEN TryRecover(s)
                      ELSE buffer' = [c \in Cells |-> 0] /\ UNCHANGED file_size
    /\ ret' = Result(0, <<>>)

-----------------------------------------------------------------------------
LogInit ==
    /\ buffer = [c \in Cells |-> 0] /\ buf_offset = 0 /\ file_size = 0
    /\ call = Call("open", <<>>, 0, 0) /\ ret = Result(0, <<>>)

LogNext ==
    \/ \E s \in Strings : write(s)
    \/ \E s \in Strings, p \in Offsets : pwrite(s, p)
    \/ \E n \in Counts : read(n)
    \/ \E n \in Counts, p \in Offsets : pread(n, p)
    \/ \E a \in Offsets, whence \in Whences : lseek(a, whence) \/ fseek(a, whence)
    \/ \E l \in Offsets : ftruncate(l)
    \/ \E n \in Counts : fgets(n)
    \/ \E m, n \in Counts : fread(m, n)
    \/ ftello64 \/ fstat \/ feof \/ fsync
    \/ \E s \in Strings \cup {<<>>}, recover \in {0, 1} : reopen(s, recover)

LogSpec == LogInit /\ [][LogNext]_logVars

-----------------------------------------------------------------------------
(* Properties. *)

\* The offset stays inside the file and the file inside the data cells, so no
\* size_t subtraction of an operation wraps around.
OffsetInFile ==
    /\ buffer \in [Cells -> Nat]
    /\ 0 <= buf_offset /\ buf_offset <= file_size /\ file_size <= BufSize

\* The content of the abstract file is the buffer up to file_size.
View == [i \in 1 .. file_size |-> buffer[i - 1]]
File == INSTANCE NclFile WITH data <- View, offset <- buf_offset

\* Used inside the file, the buffer, its offset and file_size are the file of
\* NclFile: every call moves the descriptor, changes the content and returns what
\* it says, which for the calls it does not list is what glibc has (client.h, the
\* comments of Append to GetLine).
Refinement == File!NclSpec

\* The list of differences is complete: any other call inside the file does and
\* returns what glibc has, as the comments of Append to GetLine (client.h:126-181)
\* and of GetClient (client_pool.h:50) say of every call.
GlibcElsewhere == [][~File!Differs => File!PosixNext]_logVars

=============================================================================
