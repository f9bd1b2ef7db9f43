------------------------------ MODULE PosixFile ------------------------------
(***************************************************************************)
(* What the comments of src/rdma/client.h promise of the file operations:  *)
(* "consistent with glibc" write(2), pwrite(2), read(2), pread(2), lseek,  *)
(* ftruncate(2) and fgets(3); what stdio promises of fread, fseek and      *)
(* fsync; and what client_pool.h promises of a file that is opened.  feof  *)
(* is what client.h makes of it: true at the end of the file, where stdio  *)
(* waits for a read to hit it.  One open file with one descriptor; errors  *)
(* other than the end of the file do not occur.                            *)
(*                                                                         *)
(* NclFile says which of these operations the code delivers.               *)
(***************************************************************************)
EXTENDS Integers, Sequences

CONSTANTS
    Strings,    \* what the application writes
    Counts,     \* how much it asks to read
    Offsets,    \* positions, lengths and seek arguments it passes
    Whences,    \* 0, 1 and 2 for SEEK_SET, SEEK_CUR and SEEK_END, and others
    Newline     \* the character that ends a line

VARIABLES
    data,       \* content of the file
    offset,     \* position of the descriptor
    call,       \* the last call: its name, string and numbers
    ret         \* what it returned: a number and the characters read

posixVars == <<data, offset, call, ret>>

LeastOf(a, b) == IF a < b THEN a ELSE b
MostOf(a, b) == IF a > b THEN a ELSE b

Call(op, s, n, p) == [op |-> op, s |-> s, n |-> n, p |-> p]
Result(n, s) == [n |-> n, s |-> s]

\* d with s put at offset o; a gap before it is filled with zeros.
Overwritten(d, o, s) ==
    [i \in 1 .. MostOf(Len(d), o + Len(s)) |->
        IF i \in o + 1 .. o + Len(s) THEN s[i - o]
        ELSE IF i \in 1 .. Len(d) THEN d[i] ELSE 0]

\* At most n characters of d from offset o on.
Window(d, o, n) == SubSeq(d, o + 1, LeastOf(o + n, Len(d)))

PWriteAt(s, p) == data' = Overwritten(data, p, s)

Write(s) ==
    /\ call' = Call("write", s, 0, 0)
    /\ PWriteAt(s, offset)
    /\ offset' = offset + Len(s)
    /\ ret' = Result(Len(s), <<>>)

PWrite(s, p) ==
    /\ p >= 0
    /\ call' = Call("pwrite", s, 0, p)
    /\ PWriteAt(s, p)
    /\ ret' = Result(Len(s), <<>>)
    /\ UNCHANGED offset

Read(n) ==
    /\ call' = Call("read", <<>>, n, 0)
    /\ ret' = Result(Len(Window(data, offset, n)), Window(data, offset, n))
    /\ offset' = offset + Len(Window(data, offset, n))
    /\ UNCHANGED data

\* fread reads n items of m characters and returns how many whole ones it got.
FRead(m, n) ==
    /\ call' = Call("fread", <<>>, n, m)
    /\ ret' = Result(Len(Window(data, offset, m * n)) \div m, Window(data, offset, m * n))
    /\ offset' = offset + Len(Window(data, offset, m * n))
    /\ UNCHANGED data

PRead(n, p) ==
    /\ p >= 0
    /\ call' = Call("pread", <<>>, n, p)
    /\ ret' = Result(Len(Window(data, p, n)), Window(data, p, n))
    /\ UNCHANGED <<data, offset>>

\* Where a seek leads to; one with a whence there is not leads nowhere.
Target(a, whence) == CASE whence = 0 -> a
                       [] whence = 1 -> offset + a
                       [] whence = 2 -> Len(data) + a
                       [] OTHER -> -1

LSeek(a, whence) ==
    /\ Target(a, whence) >= 0
    /\ call' = Call("lseek", <<>>, whence, a)
    /\ offset' = Target(a, whence)
    /\ ret' = Result(offset', <<>>)
    /\ UNCHANGED data

\* fseek returns 0.
FSeek(a, whence) ==
    /\ Target(a, whence) >= 0
    /\ call' = Call("fseek", <<>>, whence, a)
    /\ offset' = Target(a, whence)
    /\ ret' = Result(0, <<>>)
    /\ UNCHANGED data

FTruncate(l) ==
    /\ l >= 0
    /\ call' = Call("ftruncate", <<>>, 0, l)
    /\ data' = [i \in 1 .. l |-> IF i <= Len(data) THEN data[i] ELSE 0]
    /\ ret' = Result(0, <<>>)
    /\ UNCHANGED offset

\* The line that starts at offset o, its newline included, or what fgets can
\* store of it in a buffer of size n; nothing at the end of the file.
Line(d, o, n) ==
    LET w == Window(d, o, n - 1)
        ends == {i \in 1 .. Len(w) : w[i] = Newline}
    IN  IF ends = {} THEN w
        ELSE SubSeq(w, 1, CHOOSE i \in ends : \A j \in ends : i <= j)

FGets(n) ==
    /\ call' = Call("fgets", <<>>, n, 0)
    /\ LET l == Line(data, offset, n) IN
         /\ ret' = Result(IF offset < Len(data) THEN 1 ELSE 0, l)
         /\ offset' = offset + Len(l)
    /\ UNCHANGED data

\* The file is deleted and another one opened.  "If the file has been
\* replicated" as s it is recovered with recover = 1, otherwise it is "initialized
\* as empty" (client_pool.h:49).
Open(s, recover) ==
    /\ call' = Call("open", s, recover, 0)
    /\ data' = IF recover = 1 THEN s ELSE <<>>
    /\ offset' = 0
    /\ ret' = Result(0, <<>>)

\* ftello, fstat's st_size, feof and fsync.
Ask ==
    /\ \/ call' = Call("ftello", <<>>, 0, 0) /\ ret' = Result(offset, <<>>)
       \/ call' = Call("fstat", <<>>, 0, 0) /\ ret' = Result(Len(data), <<>>)
       \/ /\ call' = Call("feof", <<>>, 0, 0)
          /\ ret' = Result(IF offset >= Len(data) THEN 1 ELSE 0, <<>>)
       \/ call' = Call("fsync", <<>>, 0, 0) /\ ret' = Result(0, <<>>)
    /\ UNCHANGED <<data, offset>>

PosixInit ==
    /\ data = <<>> /\ offset = 0
    /\ call = Call("open", <<>>, 0, 0) /\ ret = Result(0, <<>>)

PosixNext ==
    \/ \E s \in Strings : Write(s) \/ \E p \in Offsets : PWrite(s, p)
    \/ \E n \in Counts : Read(n) \/ FGets(n) \/ \E p \in Offsets : PRead(n, p)
    \/ \E m, n \in Counts : FRead(m, n)
    \/ \E a \in Offsets, whence \in Whences : LSeek(a, whence) \/ FSeek(a, whence)
    \/ \E l \in Offsets : FTruncate(l)
    \/ Ask
    \/ \E s \in Strings \cup {<<>>}, recover \in {0, 1} : Open(s, recover)

=============================================================================
