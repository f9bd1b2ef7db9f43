------------------------------- MODULE NclFile -------------------------------
(***************************************************************************)
(* The file the library gives an application that stays inside it: the     *)
(* operations of PosixFile, apart from those below.                        *)
(*   - pwrite and ftruncate beyond the end leave what they skip undefined; *)
(*   - ftruncate moves a descriptor that is behind the new end back to it; *)
(*   - lseek and fseek to SEEK_END do not look at the offset, an unknown   *)
(*     whence is taken for the present position, and fseek returns the     *)
(*     position;                                                           *)
(*   - fread returns the number of bytes;                                  *)
(*   - fgets does not look at the first character of the line, and takes a *)
(*     newline that does not fit;                                          *)
(*   - a file that is not recovered is as long as the last one, and zero.  *)
(***************************************************************************)
EXTENDS PosixFile

PWriteNcl(s, p) ==
    /\ p >= 0
    /\ call' = Call("pwrite", s, 0, p)
    /\ Len(data') = Len(Overwritten(data, p, s))
    /\ \A i \in 1 .. Len(data') \ (Len(data) + 1 .. p) : data'[i] = Overwritten(data, p, s)[i]
    /\ ret' = Result(Len(s), <<>>)
    /\ UNCHANGED offset

FTruncateNcl(l) ==
    /\ l >= 0
    /\ call' = Call("ftruncate", <<>>, 0, l)
    /\ Len(data') = l
    /\ \A i \in 1 .. LeastOf(l, Len(data)) : data'[i] = data[i]
    /\ offset' = LeastOf(offset, l)
    /\ ret' = Result(0, <<>>)

\* The position op, lseek or fseek, moves to and returns.
SeekNcl(op, a, whence) ==
    /\ call' = Call(op, <<>>, whence, a)
    /\ offset' = CASE whence = 0 -> a
                   [] whence = 1 -> offset + a
                   [] whence = 2 -> Len(data)
                   [] OTHER -> offset
    /\ ret' = Result(offset', <<>>)
    /\ UNCHANGED data

FReadNcl(m, n) ==
    /\ call' = Call("fread", <<>>, n, m)
    /\ ret' = Result(Len(Window(data, offset, m * n)), Window(data, offset, m * n))
    /\ offset' = offset + Len(Window(data, offset, m * n))
    /\ UNCHANGED data

\* Up to the first newline among the characters 2 to n, if there is one.
LineNcl(d, o, n) ==
    LET w == Window(d, o, n)
        ends == {i \in 2 .. Len(w) : w[i] = Newline}
    IN  IF ends = {} THEN Window(d, o, n - 1)
        ELSE SubSeq(w, 1, CHOOSE i \in ends : \A j \in ends : i <= j)

FGetsNcl(n) ==
    /\ call' = Call("fgets", <<>>, n, 0)
    /\ LET l == LineNcl(data, offset, n) IN
         /\ ret' = Result(IF offset < Len(data) THEN 1 ELSE 0, l)
         /\ offset' = offset + Len(l)
    /\ UNCHANGED data

OpenNcl(s, recover) ==
    /\ call' = Call("open", s, recover, 0)
    /\ data' = IF recover = 1 /\ s # <<>> THEN s ELSE [i \in 1 .. Len(data) |-> 0]
    /\ offset' = 0
    /\ ret' = Result(0, <<>>)

NclNext ==
    \/ \E s \in Strings : Write(s) \/ \E p \in Offsets : PWriteNcl(s, p)
    \/ \E n \in Counts : Read(n) \/ FGetsNcl(n) \/ \E p \in Offsets : PRead(n, p)
    \/ \E m, n \in Counts : FReadNcl(m, n)
    \/ \E op \in {"lseek", "fseek"}, a \in Offsets, whence \in Whences : SeekNcl(op, a, whence)
    \/ \E l \in Offsets : FTruncateNcl(l)
    \/ Ask
    \/ \E s \in Strings \cup {<<>>}, recover \in {0, 1} : OpenNcl(s, recover)

NclSpec == PosixInit /\ [][NclNext]_posixVars

\* The calls that need not do what the same call of PosixFile does.
Differs ==
    \/ call'.op = "pwrite" /\ call'.p > Len(data)
    \/ call'.op = "ftruncate" /\ call'.p \notin offset .. Len(data)
    \/ /\ call'.op \in {"lseek", "fseek"}
       /\ call'.n \notin 0 .. 2 \/ (call'.n = 2 /\ call'.p # 0)
    \/ call'.op = "fseek" /\ offset' # 0
    \/ call'.op = "fread" /\ call'.p > 1 /\ ret'.n > 0
    \/ /\ call'.op = "fgets"
       /\ LET w == Window(data, offset, call'.n) IN
          /\ Len(w) > 1
          /\ w[1] = Newline \/ (Len(w) = call'.n /\ w[call'.n] = Newline)
    \/ call'.op = "open" /\ data # <<>> /\ (call'.n = 0 \/ call'.s = <<>>)

=============================================================================
