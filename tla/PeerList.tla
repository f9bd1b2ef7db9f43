------------------------------ MODULE PeerList ------------------------------
(***************************************************************************)
(* The text a client stores in its ZooKeeper node (util.h): the addresses  *)
(* of its peers, separated by colons, after an optional epoch and a slash. *)
(* A text is a sequence of characters.  Its positions count from 0, as     *)
(* those of a std::string do, and -1 is string::npos cut to an int.        *)
(***************************************************************************)
EXTENDS Integers, Sequences, FiniteSets

CONSTANTS
    Letters,  \* the characters addresses are made of
    Addr      \* the address of each peer

ASSUME AddrAssumption ==
    /\ \A p \in DOMAIN Addr : Addr[p] \in Seq(Letters) /\ Addr[p] # <<>>
    /\ \A p, q \in DOMAIN Addr : Addr[p] = Addr[q] => p = q
    /\ ":" \notin Letters /\ "/" \notin Letters

\* The order of a std::set; which one it is makes no difference to the reader.
InOrder(S) == CHOOSE f \in [1 .. Cardinality(S) -> S] : {f[i] : i \in DOMAIN f} = S

Digit == <<"0", "1", "2", "3", "4", "5", "6", "7", "8", "9">>

\* stringstream << epoch
decimal[n \in Nat] ==
    IF n < 10 THEN <<Digit[n + 1]>> ELSE Append(decimal[n \div 10], Digit[(n % 10) + 1])

\* stoul of a text of digits.
stoul(t) ==
    LET value[i \in 0 .. Len(t)] ==
            IF i = 0 THEN 0
            ELSE 10 * value[i - 1] + (CHOOSE d \in 0 .. 9 : Digit[d + 1] = t[i])
    IN  value[Len(t)]

\* The text of the first i addresses of a list: the loop of generateIpString.
joined(list) ==
    LET text[i \in 0 .. Len(list)] ==
            IF i = 0 THEN <<>>
            ELSE (IF i = 1 THEN <<>> ELSE Append(text[i - 1], ":")) \o Addr[list[i]]
    IN  text

\* generateIpString
generateIpString(peers, epoch) ==
    (IF epoch # 0 THEN Append(decimal[epoch], "/") ELSE <<>>)
        \o joined(InOrder(peers))[Cardinality(peers)]

\* s.find(c, pos): the first place of c from pos on.
find(s, c, pos) ==
    LET at == {i \in pos .. Len(s) - 1 : s[i + 1] = c}
    IN  IF at = {} THEN -1 ELSE CHOOSE i \in at : \A j \in at : i <= j

\* s.substr(pos, n); a negative n is a huge size_t and means up to the end.
substr(s, pos, n) == SubSeq(s, pos + 1, IF n < 0 THEN Len(s) ELSE pos + n)

\* Faulty variant: an address is taken only when a colon follows it.
parseIps_DropsLast(s, slash) ==
    LET loop[k \in Nat] ==
            IF k = 0 THEN [pos |-> 0, next_pos |-> slash, peers |-> {}, cnt |-> 0]
            ELSE LET was  == loop[k - 1]
                     pos  == was.next_pos + 1
                     next == find(s, ":", pos)
                 IN  IF k > 1 /\ was.next_pos = -1 THEN was
                     ELSE IF next = -1 THEN [was EXCEPT !.next_pos = -1]
                     ELSE [pos |-> pos, next_pos |-> next,
                           peers |-> was.peers \cup {substr(s, pos, next - pos)},
                           cnt |-> was.cnt + 1]
    IN  loop

\* The do-while loop of parseIpString: its variables after k iterations, from
\* the place of the slash or -1.  It stops after an iteration that has found
\* no colon.
parseIps(s, slash) ==
    LET loop[k \in Nat] ==
            IF k = 0 THEN [pos |-> 0, next_pos |-> slash, peers |-> {}, cnt |-> 0]
            ELSE LET was  == loop[k - 1]
                     pos  == was.next_pos + 1
                     next == find(s, ":", pos)
                 IN  IF k > 1 /\ was.next_pos = -1 THEN was
                     ELSE [pos |-> pos, next_pos |-> next,
                           peers |-> was.peers \cup {substr(s, pos, next - pos)},
                           cnt |-> was.cnt + 1]
    IN  loop

\* parseIpString: the epoch, the addresses and their number.  No text takes
\* more iterations than it has characters, and one more.
parseIpString(s) ==
    LET slash == find(s, "/", 0)
        epoch == IF slash > 0 THEN stoul(substr(s, 0, slash)) ELSE 0
        loop  == parseIps(s, slash)[Len(s) + 1]
    IN  IF s = <<>> THEN [epoch |-> 0, peers |-> {}, count |-> 0]
        ELSE IF slash = Len(s) - 1 THEN [epoch |-> epoch, peers |-> {}, count |-> 0]
        ELSE [epoch |-> epoch, peers |-> loop.peers, count |-> loop.cnt]

=============================================================================
