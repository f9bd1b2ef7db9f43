------------------------- MODULE QuorumWriteProofs --------------------------
(***************************************************************************)
(* The safety of replication: TypeOK, CaughtUp and AckedHeld hold in every *)
(* reachable state of QuorumWrite, for every number of servers,            *)
(* replication factor, buffer size and bound on writes and failures.       *)
(* CaughtUp and AckedHeld are not inductive; IndInv is, and it implies     *)
(* both.  One lemma per part of IndInv shows that every step preserves it. *)
(* The first lemmas, about queues of work requests and tokens, are used by *)
(* the other proofs as well.                                               *)
(***************************************************************************)
EXTENDS QuorumWrite, SequenceTheorems, FiniteSetTheorems, TLAPS

-----------------------------------------------------------------------------
(* Queues of work requests and of tokens. *)

\* writeTwoPlace adds exactly its two work requests to the queue.
LEMMA PostProperties ==
    ASSUME NEW q \in Seq(WR), NEW cells \in SUBSET Cells, NEW tok \in Nat
    PROVE  /\ writeTwoPlace(q, cells, tok) \in Seq(WR)
           /\ Range(writeTwoPlace(q, cells, tok)) =
                Range(q) \cup {DataWR(cells, tok), SeqWR(tok)}
<1> DEFINE a == DataWR(cells, tok)
           b == SeqWR(tok)
           s == <<a, b>>
<1>1. a \in WR /\ b \in WR
  BY DEF WR, DataWR, SeqWR
<1>2. s \in Seq(WR) /\ Len(s) = 2 /\ Range(s) = {a, b}
  <2>1. s \in Seq(WR) /\ Len(s) = 2 /\ s[1] = a /\ s[2] = b
    BY <1>1
  <2>2. DOMAIN s = {1, 2}
    BY <2>1
  <2> QED BY <2>1, <2>2 DEF Range
<1>3. writeTwoPlace(q, cells, tok) = q \o s
  BY DEF writeTwoPlace
<1> HIDE DEF s
<1>4. q \o s \in Seq(WR)
  BY <1>2, ConcatProperties
<1>5. Range(q \o s) = Range(q) \cup Range(s)
  BY <1>2, RangeConcatenation
<1> QED BY <1>2, <1>3, <1>4, <1>5

\* The head and the tail of a queue make up the queue.
LEMMA TailProperties ==
    ASSUME NEW S, NEW q \in Seq(S), q # <<>>
    PROVE  /\ Head(q) \in S /\ Tail(q) \in Seq(S)
           /\ Head(q) \in Range(q)
           /\ Range(q) = {Head(q)} \cup Range(Tail(q))
<1>1. Len(q) \in Nat \ {0} /\ DOMAIN q = 1 .. Len(q)
  BY EmptySeq, LenProperties
<1>2. Head(q) = q[1] /\ Head(q) \in S
  BY <1>1, HeadTailProperties, ElementOfSeq
<1>3. /\ Tail(q) \in Seq(S) /\ Len(Tail(q)) = Len(q) - 1
      /\ \A i \in 1 .. Len(Tail(q)) : Tail(q)[i] = q[i + 1]
  BY HeadTailProperties
<1>4. DOMAIN Tail(q) = 1 .. Len(q) - 1
  BY <1>3, LenProperties
<1>5. Range(Tail(q)) \subseteq Range(q)
  BY <1>1, <1>3, <1>4 DEF Range
<1>6. ASSUME NEW x \in Range(q), x # Head(q) PROVE x \in Range(Tail(q))
  <2>1. PICK i \in 1 .. Len(q) : x = q[i]
    BY <1>1 DEF Range
  <2>2. i # 1 /\ i - 1 \in 1 .. Len(q) - 1
    BY <2>1, <1>1, <1>2, <1>6
  <2>3. Tail(q)[i - 1] = x
    BY <2>1, <2>2, <1>3
  <2> QED BY <2>2, <2>3, <1>4 DEF Range
<1> QED BY <1>1, <1>2, <1>3, <1>5, <1>6 DEF Range

\* Placing a cell of the oldest work request only takes that cell out of it.
LEMMA PlaceProperties ==
    ASSUME NEW q \in Seq(WR), q # <<>>, NEW c
    PROVE  LET h == [Head(q) EXCEPT !.cells = @ \ {c}]
               r == [q EXCEPT ![1].cells = @ \ {c}]
           IN  /\ h \in WR /\ r \in Seq(WR)
               /\ Range(r) \subseteq Range(q) \cup {h}
               /\ Range(q) \subseteq Range(r) \cup {Head(q)}
               /\ h \in Range(r)
<1> DEFINE h == [Head(q) EXCEPT !.cells = @ \ {c}]
           r == [q EXCEPT ![1].cells = @ \ {c}]
<1>1. Len(q) \in Nat \ {0} /\ DOMAIN q = 1 .. Len(q) /\ q[1] = Head(q) /\ q[1] \in WR
  BY EmptySeq, LenProperties, HeadTailProperties, ElementOfSeq
<1>2. h \in WR
  BY <1>1 DEF WR
<1>3. r = [q EXCEPT ![1] = h]
  BY <1>1
<1>4. /\ r \in Seq(WR) /\ Len(r) = Len(q)
      /\ \A j \in 1 .. Len(q) : r[j] = IF j = 1 THEN h ELSE q[j]
  BY <1>1, <1>2, <1>3, ExceptSeq
<1>5. DOMAIN r = 1 .. Len(q)
  BY <1>4, LenProperties
<1> HIDE DEF h, r
<1>6. Range(r) \subseteq Range(q) \cup {h}
  BY <1>1, <1>4, <1>5 DEF Range
<1>7. Range(q) \subseteq Range(r) \cup {Head(q)}
  BY <1>1, <1>4, <1>5 DEF Range
<1>8. h \in Range(r)
  BY <1>1, <1>4, <1>5 DEF Range
<1> QED BY <1>2, <1>4, <1>6, <1>7, <1>8 DEF h, r

\* Appending a token larger than all others keeps a queue increasing.
LEMMA AppendIncreasing ==
    ASSUME NEW q \in Seq(Writes), Increasing(q), NEW x \in Writes,
           \A t \in Range(q) : t < x
    PROVE  /\ Append(q, x) \in Seq(Writes) /\ Increasing(Append(q, x))
           /\ Range(Append(q, x)) = Range(q) \cup {x}
<1> USE DEF Writes
<1>1. /\ Append(q, x) \in Seq(Writes) /\ Len(Append(q, x)) = Len(q) + 1
      /\ Append(q, x)[Len(q) + 1] = x
      /\ \A i \in 1 .. Len(q) : Append(q, x)[i] = q[i]
  BY AppendProperties
<1>2. Len(q) \in Nat /\ DOMAIN q = 1 .. Len(q)
  BY LenProperties
<1>3. DOMAIN Append(q, x) = 1 .. Len(q) + 1
  BY <1>1, LenProperties
<1>4. \A i \in 1 .. Len(q) : q[i] < x
  BY <1>2 DEF Range
<1>5. Increasing(Append(q, x))
  BY <1>1, <1>2, <1>4 DEF Increasing
<1>6. Range(Append(q, x)) = Range(q) \cup {x}
  BY <1>1, <1>2, <1>3 DEF Range
<1> QED BY <1>1, <1>5, <1>6

\* Popping the head leaves an increasing queue of larger tokens.
LEMMA TailIncreasing ==
    ASSUME NEW q \in Seq(Writes), Increasing(q), q # <<>>
    PROVE  Increasing(Tail(q)) /\ \A t \in Range(Tail(q)) : t > Head(q)
<1>1. Len(q) \in Nat \ {0} /\ Head(q) = q[1]
  BY EmptySeq, LenProperties, HeadTailProperties
<1>2. /\ Tail(q) \in Seq(Writes) /\ Len(Tail(q)) = Len(q) - 1
      /\ \A i \in 1 .. Len(Tail(q)) : Tail(q)[i] = q[i + 1]
  BY HeadTailProperties
<1>3. DOMAIN Tail(q) = 1 .. Len(q) - 1
  BY <1>2, LenProperties
<1>4. Increasing(Tail(q))
  BY <1>1, <1>2 DEF Increasing
<1>5. ASSUME NEW t \in Range(Tail(q)) PROVE t > Head(q)
  <2>1. PICK i \in 1 .. Len(q) - 1 : t = q[i + 1]
    BY <1>2, <1>3 DEF Range
  <2>2. i + 1 \in 1 .. Len(q) /\ 1 \in 1 .. Len(q) /\ 1 < i + 1
    BY <1>1, <2>1
  <2>3. q[1] < q[i + 1]
    BY <2>2 DEF Increasing
  <2>4. q[1] \in Writes /\ q[i + 1] \in Writes
    BY <2>2, ElementOfSeq
  <2>5. q[1] \in Int /\ q[i + 1] \in Int
    BY <2>4 DEF Writes
  <2> QED BY <1>1, <2>1, <2>3, <2>5
<1> QED BY <1>4, <1>5

-----------------------------------------------------------------------------
(* Type correctness. *)

\* ZooKeeper's own steps keep its state well typed.
LEMMA NodeDeletedType ==
    ASSUME ZkTypeOK, NEW p \in Peers, NodeDeleted(p)
    PROVE  ZkTypeOK'
<1> DEFINE d == IF p \in exists_watch THEN <<DeletedEvent(p)>> ELSE <<>>
           k == IF child_watch THEN <<ChildEvent>> ELSE <<>>
<1>1. DeletedEvent(p) \in EventOf(Peers) /\ ChildEvent \in EventOf(Peers)
  BY DEF DeletedEvent, ChildEvent, EventOf
<1>2. d \in Seq(EventOf(Peers)) /\ k \in Seq(EventOf(Peers)) /\ events \in Seq(EventOf(Peers))
  BY <1>1 DEF ZkTypeOK
<1> HIDE DEF d, k
<1>3. (events \o d) \o k \in Seq(EventOf(Peers))
  BY <1>2, ConcatProperties
<1>4. events' = (events \o d) \o k
  BY DEF NodeDeleted, d, k
<1> QED BY <1>3, <1>4 DEF ZkTypeOK, NodeDeleted

\* A server that registers, or fails to, leaves ZooKeeper's state well typed.
LEMMA NodeCreatedType ==
    ASSUME ZkTypeOK, NEW p \in Peers, NodeCreated(p)
    PROVE  ZkTypeOK'
<1>1. CASE p \in servers
  BY <1>1 DEF ZkTypeOK, NodeCreated, zkVars
<1>2. CASE p \notin servers
  <2> DEFINE k == IF child_watch THEN <<ChildEvent>> ELSE <<>>
  <2>0. ChildEvent \in EventOf(Peers)
    BY DEF EventOf
  <2>1. k \in Seq(EventOf(Peers)) /\ events \in Seq(EventOf(Peers))
    BY <2>0 DEF ZkTypeOK
  <2> HIDE DEF k
  <2>2. events \o k \in Seq(EventOf(Peers))
    BY <2>1, ConcatProperties
  <2>3. events' = events \o k
    BY <1>2 DEF NodeCreated, k
  <2> QED BY <1>2, <2>2, <2>3 DEF ZkTypeOK, NodeCreated
<1> QED BY <1>1, <1>2

\* The network card keeps buffers and queues well typed.
LEMMA NicType ==
    ASSUME RdmaTypeOK, NEW p \in Peers, NicPlace(p) \/ NicComplete(p)
    PROVE  RdmaTypeOK'
<1>1. CASE NicPlace(p)
  <2>1. PICK c \in Head(sendq[p]).cells :
           /\ mr' = [mr EXCEPT ![p][c] = buffer[c]]
           /\ sendq' = [sendq EXCEPT ![p][1].cells = @ \ {c}]
    BY <1>1 DEF NicPlace
  <2>2. sendq[p] \in Seq(WR) /\ sendq[p] # <<>>
    BY <1>1 DEF RdmaTypeOK, NicPlace
  <2>a. Head(sendq[p]) \in WR
    BY <2>2, TailProperties
  <2>3. c \in Cells
    BY <2>1, <2>a DEF WR
  <2>4. [sendq[p] EXCEPT ![1].cells = @ \ {c}] \in Seq(WR)
    BY <2>2, PlaceProperties
  <2>5. sendq' \in [Peers -> Seq(WR)]
    BY <2>1, <2>4 DEF RdmaTypeOK
  <2>6. mr' \in [Peers -> [Cells -> 0 .. MaxWrites]]
    BY <2>1, <2>3 DEF RdmaTypeOK
  <2> QED BY <1>1, <2>5, <2>6 DEF RdmaTypeOK, NicPlace
<1>2. CASE NicComplete(p)
  <2>1. Tail(sendq[p]) \in Seq(WR)
    BY <1>2, TailProperties DEF RdmaTypeOK, NicComplete
  <2> QED BY <1>2, <2>1 DEF RdmaTypeOK, NicComplete
<1> QED BY <1>1, <1>2

\* The state of a fresh client (init, createClientZKNode) is well typed.
LEMMA TypeInit == Init => TypeOK
<1> SUFFICES ASSUME Init PROVE TypeOK
  OBVIOUS
<1> USE ConstantsAssumption, BufSizeAssumption
<1>1. IsFiniteSet(InitServers) /\ Cardinality(InitServers) \in Nat
  BY FS_Subset, FS_CardinalityType
<1>0. peers \in SUBSET Peers /\ InitServers \in SUBSET Peers
  BY DEF Init
<1>2. RdmaTypeOK
  BY <1>0 DEF Init, RdmaTypeOK, Zeroed
<1>3. ZkTypeOK
  <2>1. servers \in SUBSET Peers /\ orphans \in SUBSET servers
    BY <1>0 DEF Init
  <2>2. zknode \in SUBSET Peers /\ exists_watch \in SUBSET Peers /\ child_watch \in BOOLEAN
    BY <1>0 DEF Init
  <2>3. events \in Seq(EventOf(Peers))
    BY EmptySeq DEF Init
  <2> QED BY <2>1, <2>2, <2>3 DEF ZkTypeOK
<1>4. ClientTypeOK
  <2>1. rep_factor \in Nat /\ file_size \in 0 .. BufSize /\ seq \in Nat
    BY <1>1 DEF Init
  <2>2. op_queue \in [Peers -> Seq(Writes)]
    BY EmptySeq DEF Init
  <2>3. recover_lock \in BOOLEAN /\ in_use \in BOOLEAN
    BY DEF Init
  <2> QED BY <1>0, <2>1, <2>2, <2>3 DEF ClientTypeOK
<1>5. WriterTypeOK
  BY DEF Init, WriterTypeOK
<1>6. WatcherTypeOK
  BY DEF Init, WatcherTypeOK
<1>7. HistoryTypeOK
  <2>1. synced \in SUBSET Peers /\ suspended \in BOOLEAN
    BY <1>0 DEF Init
  <2>2. crashes \in 0 .. MaxCrashes /\ expiries \in 0 .. MaxExpiries /\ starts \in 0 .. MaxStarts
    BY DEF Init
  <2> QED BY <2>1, <2>2 DEF HistoryTypeOK
<1> QED BY <1>2, <1>3, <1>4, <1>5, <1>6, <1>7 DEF TypeOK

\* Every step of the threads and of their environment keeps the types.
LEMMA TypeStep == TypeOK /\ [Next]_vars => TypeOK'
<1> SUFFICES ASSUME TypeOK, [Next]_vars PROVE TypeOK'
  OBVIOUS
<1> USE ConstantsAssumption, BufSizeAssumption DEF TypeOK
<1>1. CASE \E c \in Cells : BeginWrite(c)
  <2>1. ClientTypeOK'
    BY <1>1 DEF BeginWrite, ClientTypeOK, Cells
  <2>2. WriterTypeOK'
    BY <1>1 DEF BeginWrite, WriterTypeOK, Writes, Cells
  <2>3. RdmaTypeOK' /\ ZkTypeOK' /\ WatcherTypeOK' /\ HistoryTypeOK'
    BY <1>1 DEF BeginWrite, RdmaTypeOK, ZkTypeOK, WatcherTypeOK, HistoryTypeOK,
           rdmaVars, zkVars, watcherVars, historyVars
  <2> QED BY <2>1, <2>2, <2>3
<1>2. CASE CopyData
  <2>1. RdmaTypeOK'
    BY <1>2 DEF CopyData, RdmaTypeOK, WriterTypeOK
  <2>2. WriterTypeOK'
    BY <1>2 DEF CopyData, WriterTypeOK
  <2>3. ZkTypeOK' /\ ClientTypeOK' /\ WatcherTypeOK' /\ HistoryTypeOK'
    BY <1>2 DEF CopyData, ZkTypeOK, ClientTypeOK, WatcherTypeOK, HistoryTypeOK,
           zkVars, clientVars, watcherVars, historyVars
  <2> QED BY <2>1, <2>2, <2>3
<1>3. CASE StampSeq
  <2>1. RdmaTypeOK'
    BY <1>3 DEF StampSeq, RdmaTypeOK, ClientTypeOK
  <2>2. ClientTypeOK'
    BY <1>3 DEF StampSeq, ClientTypeOK
  <2>3. WriterTypeOK'
    BY <1>3 DEF StampSeq, WriterTypeOK
  <2>4. ZkTypeOK' /\ WatcherTypeOK' /\ HistoryTypeOK'
    BY <1>3 DEF StampSeq, ZkTypeOK, WatcherTypeOK, HistoryTypeOK,
           zkVars, watcherVars, historyVars
  <2> QED BY <2>1, <2>2, <2>3, <2>4
<1>4. CASE LockRecover
  <2>1. ClientTypeOK'
    BY <1>4 DEF LockRecover, ClientTypeOK
  <2>2. WriterTypeOK'
    BY <1>4 DEF LockRecover, WriterTypeOK, ClientTypeOK
  <2>3. RdmaTypeOK' /\ ZkTypeOK' /\ WatcherTypeOK' /\ HistoryTypeOK'
    BY <1>4 DEF LockRecover, RdmaTypeOK, ZkTypeOK, WatcherTypeOK, HistoryTypeOK,
           rdmaVars, zkVars, watcherVars, historyVars
  <2> QED BY <2>1, <2>2, <2>3
<1>5. CASE \E p \in Peers : PostTo(p)
  <2> PICK p \in Peers : PostTo(p)
    BY <1>5
  <2>1. nwr \in Writes /\ {pos} \in SUBSET Cells
    BY DEF PostTo, WriterTypeOK, Writes
  <2>2. writeTwoPlace(sendq[p], {pos}, nwr) \in Seq(WR)
    <3>1. sendq[p] \in Seq(WR) /\ nwr \in Nat
      BY <2>1 DEF RdmaTypeOK, Writes
    <3> QED BY <2>1, <3>1, PostProperties
  <2>3. Append(op_queue[p], nwr) \in Seq(Writes)
    BY <2>1, AppendProperties DEF ClientTypeOK
  <2>4. RdmaTypeOK'
    BY <2>2 DEF PostTo, RdmaTypeOK
  <2>5. ClientTypeOK'
    BY <2>3 DEF PostTo, ClientTypeOK
  <2>6. ZkTypeOK' /\ WriterTypeOK' /\ WatcherTypeOK' /\ HistoryTypeOK'
    BY DEF PostTo, ZkTypeOK, WriterTypeOK, WatcherTypeOK, HistoryTypeOK,
           zkVars, watcherVars, historyVars
  <2> QED BY <2>4, <2>5, <2>6
<1>6. CASE FinishPost
  <2>1. WriterTypeOK'
    BY <1>6 DEF FinishPost, WriterTypeOK
  <2>2. RdmaTypeOK' /\ ZkTypeOK' /\ ClientTypeOK' /\ WatcherTypeOK' /\ HistoryTypeOK'
    BY <1>6 DEF FinishPost, RdmaTypeOK, ZkTypeOK, ClientTypeOK, WatcherTypeOK, HistoryTypeOK,
           rdmaVars, zkVars, clientVars, watcherVars, historyVars
  <2> QED BY <2>1, <2>2
<1>7. CASE \E p \in Peers : PollPeer(p)
  <2>1. ClientTypeOK'
    BY <1>7 DEF PollPeer, ClientTypeOK
  <2>2. WriterTypeOK'
    BY <1>7 DEF PollPeer, WriterTypeOK
  <2>3. RdmaTypeOK' /\ ZkTypeOK' /\ WatcherTypeOK' /\ HistoryTypeOK'
    BY <1>7 DEF PollPeer, RdmaTypeOK, ZkTypeOK, WatcherTypeOK, HistoryTypeOK,
           rdmaVars, zkVars, watcherVars, historyVars
  <2> QED BY <2>1, <2>2, <2>3
<1>8. CASE FinishWrite
  <2>1. ClientTypeOK'
    BY <1>8 DEF FinishWrite, ClientTypeOK
  <2>2. WriterTypeOK'
    BY <1>8 DEF FinishWrite, WriterTypeOK, Writes
  <2>3. RdmaTypeOK' /\ ZkTypeOK' /\ WatcherTypeOK' /\ HistoryTypeOK'
    BY <1>8 DEF FinishWrite, RdmaTypeOK, ZkTypeOK, WatcherTypeOK, HistoryTypeOK,
           rdmaVars, zkVars, watcherVars, historyVars
  <2> QED BY <2>1, <2>2, <2>3
<1>9. CASE HandleDeleted
  <2> DEFINE p == Head(events).path
  <2>1. RdmaTypeOK'
    <3>1. conn' \in SUBSET Peers
      BY <1>9 DEF HandleDeleted, RdmaTypeOK
    <3>2. sendq' \in [Peers -> Seq(WR)]
      <4>1. [sendq EXCEPT ![p] = <<>>] \in [Peers -> Seq(WR)]
        BY EmptySeq DEF RdmaTypeOK
      <4>2. sendq' = [sendq EXCEPT ![p] = <<>>] \/ sendq' = sendq
        BY <1>9 DEF HandleDeleted
      <4> QED BY <4>1, <4>2 DEF RdmaTypeOK
    <3> QED BY <1>9, <3>1, <3>2 DEF HandleDeleted, RdmaTypeOK
  <2>2. ClientTypeOK'
    <3>1. peers' \in SUBSET Peers
      BY <1>9 DEF HandleDeleted, ClientTypeOK
    <3>2. op_queue' \in [Peers -> Seq(Writes)]
      <4>1. [op_queue EXCEPT ![p] = <<>>] \in [Peers -> Seq(Writes)]
        BY EmptySeq DEF ClientTypeOK
      <4>2. op_queue' = [op_queue EXCEPT ![p] = <<>>] \/ op_queue' = op_queue
        BY <1>9 DEF HandleDeleted
      <4> QED BY <4>1, <4>2 DEF ClientTypeOK
    <3> QED BY <1>9, <3>1, <3>2 DEF HandleDeleted, ClientTypeOK
  <2>3. ZkTypeOK' /\ WatcherTypeOK' /\ HistoryTypeOK'
    BY <1>9 DEF HandleDeleted, ZkTypeOK, WatcherTypeOK, HistoryTypeOK
  <2>4. WriterTypeOK'
    BY <1>9 DEF HandleDeleted, WriterTypeOK, writerVars
  <2> QED BY <2>1, <2>2, <2>3, <2>4
<1>10. CASE HandleChild
  <2>1. ZkTypeOK'
    BY <1>10 DEF HandleChild, ZkTypeOK
  <2>2. WatcherTypeOK'
    BY <1>10 DEF HandleChild, WatcherTypeOK
  <2>3. RdmaTypeOK' /\ ClientTypeOK' /\ WriterTypeOK' /\ HistoryTypeOK'
    BY <1>10 DEF HandleChild, RdmaTypeOK, ClientTypeOK, WriterTypeOK, HistoryTypeOK,
           rdmaVars, clientVars, writerVars, historyVars
  <2> QED BY <2>1, <2>2, <2>3
<1>11. CASE \E p \in Peers : AddPeer(p)
  <2>1. RdmaTypeOK'
    BY <1>11 DEF AddPeer, RdmaTypeOK
  <2>2. ClientTypeOK'
    BY <1>11 DEF AddPeer, ClientTypeOK
  <2>3. WatcherTypeOK'
    BY <1>11 DEF AddPeer, WatcherTypeOK
  <2>4. ZkTypeOK' /\ WriterTypeOK' /\ HistoryTypeOK'
    BY <1>11 DEF AddPeer, ZkTypeOK, WriterTypeOK, HistoryTypeOK,
           zkVars, writerVars, historyVars
  <2> QED BY <2>1, <2>2, <2>3, <2>4
<1>12. CASE NoNewPeer
  <2>1. WatcherTypeOK'
    BY <1>12 DEF NoNewPeer, WatcherTypeOK
  <2>2. RdmaTypeOK' /\ ZkTypeOK' /\ ClientTypeOK' /\ WriterTypeOK' /\ HistoryTypeOK'
    BY <1>12 DEF NoNewPeer, RdmaTypeOK, ZkTypeOK, ClientTypeOK, WriterTypeOK, HistoryTypeOK,
           rdmaVars, zkVars, clientVars, writerVars, historyVars
  <2> QED BY <2>1, <2>2
<1>13. CASE WatchPeer
  <2>1. ZkTypeOK'
    BY <1>13 DEF WatchPeer, ZkTypeOK, zoo_wexists
  <2>2. WatcherTypeOK'
    BY <1>13 DEF WatchPeer, WatcherTypeOK
  <2>3. RdmaTypeOK' /\ ClientTypeOK' /\ WriterTypeOK' /\ HistoryTypeOK'
    BY <1>13 DEF WatchPeer, RdmaTypeOK, ClientTypeOK, WriterTypeOK, HistoryTypeOK,
           rdmaVars, clientVars, writerVars, historyVars
  <2> QED BY <2>1, <2>2, <2>3
<1>14. CASE PostRecover
  <2>1. new_peer \in Peers /\ 0 .. file_size - 1 \in SUBSET Cells
    BY <1>14 DEF PostRecover, WatcherTypeOK, ClientTypeOK, Cells
  <2>2. writeTwoPlace(sendq[new_peer], 0 .. file_size - 1, 0) \in Seq(WR)
    BY <2>1, PostProperties DEF RdmaTypeOK
  <2>3. RdmaTypeOK'
    BY <1>14, <2>1, <2>2 DEF PostRecover, RdmaTypeOK
  <2>4. ZkTypeOK' /\ ClientTypeOK' /\ WriterTypeOK' /\ WatcherTypeOK' /\ HistoryTypeOK'
    BY <1>14 DEF PostRecover, ZkTypeOK, ClientTypeOK, WriterTypeOK, WatcherTypeOK,
           HistoryTypeOK, zkVars, clientVars, writerVars, historyVars
  <2> QED BY <2>3, <2>4
<1>15. CASE RecoverDone
  <2>1. WatcherTypeOK'
    BY <1>15 DEF RecoverDone, WatcherTypeOK
  <2>2. HistoryTypeOK'
    BY <1>15 DEF RecoverDone, HistoryTypeOK, RdmaTypeOK
  <2>3. RdmaTypeOK' /\ ZkTypeOK' /\ ClientTypeOK' /\ WriterTypeOK'
    BY <1>15 DEF RecoverDone, RdmaTypeOK, ZkTypeOK, ClientTypeOK, WriterTypeOK,
           rdmaVars, zkVars, clientVars, writerVars
  <2> QED BY <2>1, <2>2, <2>3
<1>16. CASE UpdateZKNode
  <2>1. ZkTypeOK'
    BY <1>16 DEF UpdateZKNode, ZkTypeOK, ClientTypeOK
  <2>2. WatcherTypeOK'
    BY <1>16 DEF UpdateZKNode, WatcherTypeOK
  <2>3. RdmaTypeOK' /\ ClientTypeOK' /\ WriterTypeOK' /\ HistoryTypeOK'
    BY <1>16 DEF UpdateZKNode, RdmaTypeOK, ClientTypeOK, WriterTypeOK, HistoryTypeOK,
           rdmaVars, clientVars, writerVars, historyVars
  <2> QED BY <2>1, <2>2, <2>3
<1>17. CASE FinishChild
  <2>1. ZkTypeOK'
    BY <1>17 DEF FinishChild, ZkTypeOK
  <2>2. ClientTypeOK'
    BY <1>17 DEF FinishChild, ClientTypeOK
  <2>3. WatcherTypeOK'
    BY <1>17 DEF FinishChild, WatcherTypeOK
  <2>4. HistoryTypeOK'
    BY <1>17 DEF FinishChild, HistoryTypeOK
  <2>5. RdmaTypeOK' /\ WriterTypeOK'
    BY <1>17 DEF FinishChild, RdmaTypeOK, WriterTypeOK,
           rdmaVars, writerVars
  <2> QED BY <2>1, <2>2, <2>3, <2>4, <2>5
<1>18. CASE SuspendWrites
  <2>1. ClientTypeOK'
    BY <1>18 DEF SuspendWrites, ClientTypeOK
  <2>2. WatcherTypeOK'
    BY <1>18 DEF SuspendWrites, WatcherTypeOK
  <2>3. HistoryTypeOK'
    BY <1>18 DEF SuspendWrites, HistoryTypeOK
  <2>4. RdmaTypeOK' /\ ZkTypeOK' /\ WriterTypeOK'
    BY <1>18 DEF SuspendWrites, RdmaTypeOK, ZkTypeOK, WriterTypeOK,
           rdmaVars, zkVars, writerVars
  <2> QED BY <2>1, <2>2, <2>3, <2>4
<1>19. CASE WatchForPeerJoin
  <2>1. ZkTypeOK'
    BY <1>19 DEF WatchForPeerJoin, ZkTypeOK
  <2>2. WatcherTypeOK'
    BY <1>19 DEF WatchForPeerJoin, WatcherTypeOK
  <2>3. RdmaTypeOK' /\ ClientTypeOK' /\ WriterTypeOK' /\ HistoryTypeOK'
    BY <1>19 DEF WatchForPeerJoin, RdmaTypeOK, ClientTypeOK, WriterTypeOK, HistoryTypeOK,
           rdmaVars, clientVars, writerVars, historyVars
  <2> QED BY <2>1, <2>2, <2>3
<1>20. CASE \E p \in Peers : NicStep(p)
  <2>1. RdmaTypeOK'
    BY <1>20, NicType DEF NicStep
  <2>2. ZkTypeOK' /\ ClientTypeOK' /\ WriterTypeOK' /\ WatcherTypeOK' /\ HistoryTypeOK'
    BY <1>20 DEF NicStep, ZkTypeOK, ClientTypeOK, WriterTypeOK, WatcherTypeOK, HistoryTypeOK,
           zkVars, clientVars, writerVars, watcherVars, historyVars
  <2> QED BY <2>1, <2>2
<1>21. CASE \E p \in Peers : PeerCrash(p)
  <2>1. RdmaTypeOK'
    BY <1>21 DEF PeerCrash, RdmaTypeOK, ServerDown, Zeroed
  <2>2. ZkTypeOK'
    BY <1>21 DEF PeerCrash, ZkTypeOK
  <2>3. HistoryTypeOK'
    BY <1>21 DEF PeerCrash, HistoryTypeOK
  <2>4. ClientTypeOK' /\ WriterTypeOK' /\ WatcherTypeOK'
    BY <1>21 DEF PeerCrash, ClientTypeOK, WriterTypeOK, WatcherTypeOK,
           clientVars, writerVars, watcherVars
  <2> QED BY <2>1, <2>2, <2>3, <2>4
<1>22. CASE \E p \in Peers : ExpireDead(p)
  <2>1. ZkTypeOK'
    BY <1>22, NodeDeletedType DEF ExpireDead
  <2>2. RdmaTypeOK' /\ ClientTypeOK' /\ WriterTypeOK' /\ WatcherTypeOK' /\ HistoryTypeOK'
    BY <1>22 DEF ExpireDead, RdmaTypeOK, ClientTypeOK, WriterTypeOK, WatcherTypeOK, HistoryTypeOK,
           rdmaVars, clientVars, writerVars, watcherVars, historyVars
  <2> QED BY <2>1, <2>2
<1>23. CASE \E p \in Peers : ExpireAlive(p)
  <2>1. ZkTypeOK'
    BY <1>23, NodeDeletedType DEF ExpireAlive
  <2>2. HistoryTypeOK'
    BY <1>23 DEF ExpireAlive, HistoryTypeOK
  <2>3. RdmaTypeOK' /\ ClientTypeOK' /\ WriterTypeOK' /\ WatcherTypeOK'
    BY <1>23 DEF ExpireAlive, RdmaTypeOK, ClientTypeOK, WriterTypeOK, WatcherTypeOK,
           rdmaVars, clientVars, writerVars, watcherVars
  <2> QED BY <2>1, <2>2, <2>3
<1>24. CASE \E p \in Peers : ServerStart(p)
  <2>1. RdmaTypeOK'
    BY <1>24 DEF ServerStart, RdmaTypeOK
  <2>2. ZkTypeOK'
    BY <1>24, NodeCreatedType DEF ServerStart
  <2>3. HistoryTypeOK'
    BY <1>24 DEF ServerStart, HistoryTypeOK
  <2>4. ClientTypeOK' /\ WriterTypeOK' /\ WatcherTypeOK'
    BY <1>24 DEF ServerStart, ClientTypeOK, WriterTypeOK, WatcherTypeOK,
           clientVars, writerVars, watcherVars
  <2> QED BY <2>1, <2>2, <2>3, <2>4
<1>25. CASE UNCHANGED vars
  BY <1>25 DEF vars, rdmaVars, zkVars, clientVars, writerVars, watcherVars, historyVars,
     RdmaTypeOK, ZkTypeOK, ClientTypeOK, WriterTypeOK, WatcherTypeOK, HistoryTypeOK
<1> QED
  BY <1>1, <1>2, <1>3, <1>4, <1>5, <1>6, <1>7, <1>8, <1>9, <1>10, <1>11, <1>12,
     <1>13, <1>14, <1>15, <1>16, <1>17, <1>18, <1>19, <1>20, <1>21, <1>22, <1>23, <1>24, <1>25
     DEF Next, Writer, Watcher, Environment

\* Every behaviour of the client, the servers and ZooKeeper is well typed.
THEOREM TypeCorrect == Spec => []TypeOK
<1>1. Init => TypeOK
  BY TypeInit
<1>2. TypeOK /\ [Next]_vars => TypeOK'
  BY TypeStep
<1> QED BY <1>1, <1>2, PTL DEF Spec

-----------------------------------------------------------------------------
(* The inductive invariant, part by part. *)

\* Only connected peers count as recovered, and only known ones are connected.
LEMMA PeersStep == IndInv /\ [Next]_vars => PeersInv'
<1> SUFFICES ASSUME IndInv, [Next]_vars PROVE PeersInv'
  OBVIOUS
<1> USE ConstantsAssumption, BufSizeAssumption
<1>1. ASSUME UNCHANGED <<conn, peers, synced, cpc, new_peer>>
      PROVE  PeersInv'
  BY <1>1 DEF IndInv, PeersInv
<1>2. CASE Writer
  BY <1>1, <1>2 DEF Writer, BeginWrite, rdmaVars, watcherVars, historyVars,
       CopyData, clientVars, StampSeq, LockRecover, PostTo, FinishPost, PollPeer,
       FinishWrite
<1>3. CASE Watcher
  <2>1. CASE HandleDeleted
    BY <2>1 DEF IndInv, PeersInv, TypeOK, WatcherTypeOK, HandleDeleted
  <2>2. CASE HandleChild
    BY <2>2 DEF IndInv, PeersInv, TypeOK, WatcherTypeOK, HandleChild, rdmaVars,
       clientVars, historyVars
  <2>3. CASE \E p \in Peers : AddPeer(p)
    BY <2>3 DEF IndInv, PeersInv, TypeOK, WatcherTypeOK, AddPeer, historyVars
  <2>4. CASE NoNewPeer
    BY <2>4 DEF IndInv, PeersInv, TypeOK, WatcherTypeOK, NoNewPeer, rdmaVars,
       clientVars, historyVars
  <2>5. CASE WatchPeer
    BY <2>5 DEF IndInv, PeersInv, TypeOK, WatcherTypeOK, WatchPeer, rdmaVars,
       clientVars, historyVars
  <2>6. CASE PostRecover
    BY <2>6 DEF IndInv, PeersInv, TypeOK, WatcherTypeOK, PostRecover, clientVars,
       historyVars
  <2>7. CASE RecoverDone
    BY <2>7 DEF IndInv, PeersInv, TypeOK, WatcherTypeOK, RecoverDone, rdmaVars,
       clientVars
  <2>8. CASE UpdateZKNode
    BY <2>8 DEF IndInv, PeersInv, TypeOK, WatcherTypeOK, UpdateZKNode, rdmaVars,
       clientVars, historyVars
  <2>9. CASE FinishChild
    BY <2>9 DEF IndInv, PeersInv, TypeOK, WatcherTypeOK, FinishChild, rdmaVars
  <2>10. CASE SuspendWrites
    BY <2>10 DEF IndInv, PeersInv, TypeOK, WatcherTypeOK, SuspendWrites, rdmaVars
  <2>11. CASE WatchForPeerJoin
    BY <2>11 DEF IndInv, PeersInv, TypeOK, WatcherTypeOK, WatchForPeerJoin,
       rdmaVars, clientVars, historyVars
  <2> QED BY <1>3, <2>1, <2>2, <2>3, <2>4, <2>5, <2>6, <2>7, <2>8, <2>9, <2>10,
       <2>11 DEF Watcher
<1>4. CASE Environment
  <2> PICK p \in Peers : \/ NicStep(p) \/ PeerCrash(p) \/ ExpireDead(p)
                           \/ ExpireAlive(p) \/ ServerStart(p)
    BY <1>4 DEF Environment
  <2>1. CASE PeerCrash(p)
    BY <2>1 DEF IndInv, PeersInv, TypeOK, WatcherTypeOK, PeerCrash, ServerDown,
       clientVars, watcherVars
  <2>2. CASE \/ NicStep(p)
             \/ ExpireDead(p)
             \/ ExpireAlive(p)
             \/ ServerStart(p)
    BY <1>1, <2>2 DEF NicStep, NicPlace, NicComplete, clientVars, watcherVars,
       historyVars, ExpireDead, rdmaVars, ExpireAlive, ServerStart
  <2> QED BY <2>1, <2>2
<1>5. CASE UNCHANGED vars
  BY <1>1, <1>5 DEF vars, rdmaVars, clientVars, watcherVars, historyVars
<1> QED BY <1>2, <1>3, <1>4, <1>5 DEF Next

\* Only Append and WritePos write to the buffer, and below file_size.
LEMMA EofStep == IndInv /\ [Next]_vars => EofInv'
<1> SUFFICES ASSUME IndInv, [Next]_vars PROVE EofInv'
  OBVIOUS
<1> USE ConstantsAssumption, BufSizeAssumption
<1>1. ASSUME UNCHANGED <<wpc, pos, file_size, buffer, mr>>
      PROVE  EofInv'
  BY <1>1 DEF IndInv, EofInv
<1>2. CASE Writer
  <2>1. CASE \E c \in Cells : BeginWrite(c)
    <3> PICK c \in Cells : BeginWrite(c)
      BY <2>1
    <3>1. file_size \in Nat /\ c \in Nat
      BY DEF IndInv, TypeOK, ClientTypeOK, Cells
    <3>2. pos' = c /\ file_size' \in Nat /\ file_size' >= file_size /\ c < file_size'
      BY <3>1 DEF BeginWrite
    <3>3. buffer' = buffer /\ mr' = mr
      BY DEF BeginWrite, rdmaVars
    <3> QED BY <3>1, <3>2, <3>3 DEF IndInv, EofInv, Cells
  <2>2. CASE CopyData
    <3>1. /\ pos < file_size /\ pos \in Cells /\ file_size \in Nat
          /\ buffer \in [Cells -> 0 .. MaxWrites]
      BY <2>2 DEF IndInv, EofInv, TypeOK, RdmaTypeOK, WriterTypeOK, ClientTypeOK, CopyData
    <3>2. file_size' = file_size /\ pos' = pos /\ mr' = mr
          /\ buffer' = [buffer EXCEPT ![pos] = nwr]
      BY <2>2 DEF CopyData, clientVars
    <3>3. \A c \in Cells : c >= file_size => buffer'[c] = buffer[c]
      BY <3>1, <3>2 DEF Cells
    <3> QED BY <3>1, <3>2, <3>3 DEF IndInv, EofInv
  <2>3. CASE StampSeq
    BY <2>3 DEF IndInv, EofInv, StampSeq
  <2>4. CASE LockRecover
    BY <2>4 DEF IndInv, EofInv, LockRecover, rdmaVars
  <2>5. CASE FinishPost
    BY <2>5 DEF IndInv, EofInv, FinishPost, rdmaVars, clientVars
  <2>6. CASE FinishWrite
    BY <2>6 DEF IndInv, EofInv, FinishWrite, rdmaVars
  <2>7. CASE \/ \E p \in Peers : PostTo(p)
             \/ \E p \in Peers : PollPeer(p)
    BY <1>1, <2>7 DEF PostTo, PollPeer, rdmaVars
  <2> QED BY <1>2, <2>1, <2>2, <2>3, <2>4, <2>5, <2>6, <2>7 DEF Writer
<1>3. CASE Watcher
  BY <1>1, <1>3 DEF Watcher, HandleDeleted, writerVars, HandleChild, rdmaVars,
       clientVars, AddPeer, NoNewPeer, WatchPeer, PostRecover, RecoverDone,
       UpdateZKNode, FinishChild, SuspendWrites, WatchForPeerJoin
<1>4. CASE Environment
  <2> PICK p \in Peers : \/ NicStep(p) \/ PeerCrash(p) \/ ExpireDead(p)
                           \/ ExpireAlive(p) \/ ServerStart(p)
    BY <1>4 DEF Environment
  <2>1. CASE NicStep(p)
    BY <2>1 DEF IndInv, EofInv, TypeOK, RdmaTypeOK, NicStep, NicPlace, NicComplete,
       clientVars, writerVars
  <2>2. CASE PeerCrash(p)
    BY <2>2 DEF IndInv, EofInv, TypeOK, RdmaTypeOK, Zeroed, PeerCrash, ServerDown,
       clientVars, writerVars
  <2>3. CASE \/ ExpireDead(p)
             \/ ExpireAlive(p)
             \/ ServerStart(p)
    BY <1>1, <2>3 DEF ExpireDead, rdmaVars, clientVars, writerVars, ExpireAlive,
       ServerStart
  <2> QED BY <2>1, <2>2, <2>3
<1>5. CASE UNCHANGED vars
  BY <1>1, <1>5 DEF vars, rdmaVars, clientVars, writerVars
<1> QED BY <1>2, <1>3, <1>4, <1>5 DEF Next

\* The heart of CaughtUp: a cell of a good peer that differs from the buffer
\* is in a posted work request or is about to be posted.
LEMMA CopyStep == IndInv /\ [Next]_vars => CopyInv'
<1> SUFFICES ASSUME IndInv, [Next]_vars, NEW q \in Peers, Good(q)', NEW d \in Cells
             PROVE  mr'[q][d] = buffer'[d] \/ Covered(q, d)' \/ Unposted(q, d)'
  BY DEF CopyInv
<1>0. Good(q) => mr[q][d] = buffer[d] \/ Covered(q, d) \/ Unposted(q, d)
  BY DEF IndInv, CopyInv
<1>t. /\ sendq[q] \in Seq(WR) /\ sendq \in [Peers -> Seq(WR)]
      /\ buffer \in [Cells -> 0 .. MaxWrites] /\ mr \in [Peers -> [Cells -> 0 .. MaxWrites]]
  BY DEF IndInv, TypeOK, RdmaTypeOK
<1> USE ConstantsAssumption, BufSizeAssumption
<1>1. ASSUME UNCHANGED <<buffer, conn, sendq, mr, synced, cpc, new_peer, wpc, pos, todo>>
      PROVE  mr'[q][d] = buffer'[d] \/ Covered(q, d)' \/ Unposted(q, d)'
  BY <1>1, <1>0 DEF Good, Covered, Unposted
<1>2. CASE Writer
  <2>1. CASE \E c \in Cells : BeginWrite(c)
    BY <2>1, <1>0 DEF Good, Covered, Unposted, BeginWrite, rdmaVars, watcherVars,
       historyVars
  <2>2. CASE CopyData
    BY <2>2, <1>0, <1>t DEF Good, Covered, Unposted, CopyData, watcherVars,
       historyVars
  <2>3. CASE StampSeq
    BY <2>3, <1>0 DEF Good, Covered, Unposted, StampSeq, watcherVars, historyVars
  <2>4. CASE LockRecover
    BY <2>4, <1>0 DEF Good, Covered, Unposted, IndInv, PeersInv, LockRecover,
       rdmaVars, watcherVars, historyVars
  <2>5. CASE \E p \in Peers : PostTo(p)
    <3> PICK p \in Peers : PostTo(p)
      BY <2>5
    <3>1. /\ buffer' = buffer /\ mr' = mr /\ conn' = conn /\ synced' = synced
          /\ cpc' = cpc /\ new_peer' = new_peer /\ wpc' = wpc /\ pos' = pos
          /\ todo' = todo \ {p}
          /\ sendq' = [sendq EXCEPT ![p] = writeTwoPlace(@, {pos}, nwr)]
      BY DEF PostTo, historyVars, watcherVars
    <3>2. CASE p # q
      BY <1>0, <1>t, <3>1, <3>2 DEF Good, Covered, Unposted
    <3>3. CASE p = q
      <4>1. {pos} \in SUBSET Cells /\ nwr \in Nat
        BY DEF PostTo, IndInv, TypeOK, WriterTypeOK
      <4>a. sendq'[q] = writeTwoPlace(sendq[q], {pos}, nwr)
        BY <1>t, <3>1, <3>3
      <4>2. /\ Range(sendq[q]) \subseteq Range(sendq'[q])
            /\ DataWR({pos}, nwr) \in Range(sendq'[q])
        BY <1>t, <4>a, <4>1, PostProperties
      <4>3. Covered(q, d) => Covered(q, d)'
        BY <4>2 DEF Covered
      <4>4. d = pos => Covered(q, d)'
        BY <4>2 DEF Covered, DataWR
      <4> QED BY <1>0, <3>1, <4>3, <4>4 DEF Good, Unposted
    <3> QED BY <3>2, <3>3
  <2>6. CASE FinishPost
    BY <2>6, <1>0 DEF Good, Covered, Unposted, IndInv, PeersInv, FinishPost,
       rdmaVars, watcherVars, historyVars
  <2>7. CASE \E p \in Peers : PollPeer(p)
    BY <2>7, <1>0 DEF Good, Covered, Unposted, PollPeer, rdmaVars, watcherVars,
       historyVars
  <2>8. CASE FinishWrite
    BY <2>8, <1>0 DEF Good, Covered, Unposted, FinishWrite, rdmaVars, watcherVars,
       historyVars
  <2> QED BY <1>2, <2>1, <2>2, <2>3, <2>4, <2>5, <2>6, <2>7, <2>8 DEF Writer
<1>3. CASE Watcher
  <2>1. CASE HandleDeleted
    BY <2>1, <1>0, <1>t DEF Good, Covered, Unposted, HandleDeleted, writerVars
  <2>2. CASE HandleChild
    BY <2>2, <1>0 DEF Good, Covered, Unposted, IndInv, PeersInv, HandleChild,
       rdmaVars, writerVars, historyVars
  <2>3. CASE \E p \in Peers : AddPeer(p)
    BY <2>3, <1>0 DEF Good, Covered, Unposted, IndInv, PeersInv, AddPeer,
       writerVars, historyVars
  <2>4. CASE NoNewPeer
    BY <2>4, <1>0 DEF Good, Covered, Unposted, IndInv, PeersInv, NoNewPeer,
       rdmaVars, writerVars, historyVars
  <2>5. CASE WatchPeer
    BY <2>5, <1>0 DEF Good, Covered, Unposted, IndInv, PeersInv, WatchPeer,
       rdmaVars, writerVars, historyVars
  <2>6. CASE PostRecover
    <3>1. /\ buffer' = buffer /\ mr' = mr /\ conn' = conn /\ synced' = synced
          /\ new_peer' = new_peer /\ wpc' = wpc /\ pos' = pos /\ todo' = todo
          /\ cpc = "recover" /\ new_peer \in Peers
          /\ sendq' = [sendq EXCEPT ![new_peer] = writeTwoPlace(@, 0 .. file_size - 1, 0)]
      BY <2>6 DEF PostRecover, historyVars, writerVars, IndInv, TypeOK, WatcherTypeOK
    <3>2. CASE q # new_peer
      BY <1>0, <1>t, <3>1, <3>2 DEF Good, Covered, Unposted
    <3>3. CASE q = new_peer /\ d >= file_size
      BY <3>1, <3>3 DEF IndInv, EofInv
    <3>4. CASE q = new_peer /\ d < file_size
      <4>1. file_size \in Nat /\ 0 .. file_size - 1 \in SUBSET Cells
            /\ d \in 0 .. file_size - 1
        BY <3>4 DEF IndInv, TypeOK, ClientTypeOK, Cells
      <4>a. sendq'[q] = writeTwoPlace(sendq[q], 0 .. file_size - 1, 0)
        BY <1>t, <3>1, <3>4
      <4>2. DataWR(0 .. file_size - 1, 0) \in Range(sendq'[q])
        BY <1>t, <4>1, <4>a, PostProperties
      <4> QED BY <4>1, <4>2 DEF Covered, DataWR
    <3> QED BY <3>2, <3>3, <3>4 DEF IndInv, TypeOK, ClientTypeOK, Cells
  <2>7. CASE RecoverDone
    BY <2>7, <1>0 DEF Good, Covered, Unposted, IndInv, PeersInv, RecoverDone,
       rdmaVars, writerVars
  <2>8. CASE UpdateZKNode
    BY <2>8, <1>0 DEF Good, Covered, Unposted, IndInv, PeersInv, UpdateZKNode,
       rdmaVars, writerVars, historyVars
  <2>9. CASE FinishChild
    BY <2>9, <1>0 DEF Good, Covered, Unposted, IndInv, PeersInv, FinishChild,
       rdmaVars, writerVars
  <2>10. CASE SuspendWrites
    BY <2>10, <1>0 DEF Good, Covered, Unposted, IndInv, PeersInv, SuspendWrites,
       rdmaVars, writerVars
  <2>11. CASE WatchForPeerJoin
    BY <2>11, <1>0 DEF Good, Covered, Unposted, IndInv, PeersInv, WatchForPeerJoin,
       rdmaVars, writerVars, historyVars
  <2> QED BY <1>3, <2>1, <2>2, <2>3, <2>4, <2>5, <2>6, <2>7, <2>8, <2>9, <2>10,
       <2>11 DEF Watcher
<1>4. CASE Environment
  <2> PICK p \in Peers : \/ NicStep(p) \/ PeerCrash(p) \/ ExpireDead(p)
                           \/ ExpireAlive(p) \/ ServerStart(p)
    BY <1>4 DEF Environment
  <2>1. CASE NicStep(p)
    <3>1. /\ buffer' = buffer /\ conn' = conn /\ synced' = synced /\ cpc' = cpc
          /\ new_peer' = new_peer /\ wpc' = wpc /\ pos' = pos /\ todo' = todo
      BY <2>1 DEF NicStep, NicPlace, NicComplete, historyVars, watcherVars, writerVars
    <3>2. CASE q # p
      BY <1>0, <1>t, <2>1, <3>1, <3>2
         DEF Good, Covered, Unposted, NicStep, NicPlace, NicComplete
    <3>3. CASE q = p /\ NicPlace(p)
      <4>1. PICK c \in Head(sendq[q]).cells :
               /\ mr' = [mr EXCEPT ![q][c] = buffer[c]]
               /\ sendq' = [sendq EXCEPT ![q][1].cells = @ \ {c}]
        BY <3>3 DEF NicPlace
      <4>2. sendq[q] # <<>> /\ sendq'[q] = [sendq[q] EXCEPT ![1].cells = @ \ {c}]
        BY <1>t, <3>3, <4>1 DEF NicPlace
      <4>3. CASE d = c
        BY <1>t, <4>1, <4>3, <3>1
      <4>4. CASE d # c
        <5>1. mr'[q][d] = mr[q][d]
          BY <1>t, <4>1, <4>4
        <5>2. Head(sendq[q]) \in WR
          BY <1>t, <4>2, TailProperties
        <5>3. Covered(q, d) => Covered(q, d)'
          <6> DEFINE h == [Head(sendq[q]) EXCEPT !.cells = @ \ {c}]
          <6>1. Range(sendq[q]) \subseteq Range(sendq'[q]) \cup {Head(sendq[q])}
                /\ h \in Range(sendq'[q])
            BY <1>t, <4>2, PlaceProperties
          <6>2. h.cells = Head(sendq[q]).cells \ {c}
            BY <5>2 DEF WR
          <6> QED BY <4>4, <6>1, <6>2 DEF Covered
        <5> QED BY <1>0, <3>1, <5>1, <5>3 DEF Good, Unposted
      <4> QED BY <4>3, <4>4
    <3>4. CASE q = p /\ NicComplete(p)
      <4>1. /\ mr' = mr /\ sendq[q] # <<>> /\ Head(sendq[q]).cells = {}
            /\ sendq'[q] = Tail(sendq[q])
        BY <1>t, <3>4 DEF NicComplete
      <4>2. Covered(q, d) => Covered(q, d)'
        BY <1>t, <4>1, TailProperties DEF Covered
      <4> QED BY <1>0, <3>1, <4>1, <4>2 DEF Good, Unposted
    <3> QED BY <2>1, <3>2, <3>3, <3>4 DEF NicStep
  <2>2. CASE PeerCrash(p)
    BY <2>2, <1>0, <1>t DEF Good, Covered, Unposted, PeerCrash, ServerDown,
       writerVars, watcherVars
  <2>3. CASE \/ ExpireDead(p)
             \/ ExpireAlive(p)
             \/ ServerStart(p)
    BY <1>1, <2>3 DEF ExpireDead, rdmaVars, writerVars, watcherVars, historyVars,
       ExpireAlive, ServerStart
  <2> QED BY <2>1, <2>2, <2>3
<1>5. CASE UNCHANGED vars
  BY <1>1, <1>5 DEF vars, rdmaVars, writerVars, watcherVars, historyVars
<1> QED BY <1>2, <1>3, <1>4, <1>5 DEF Next

\* A write in the buffer is only ever replaced by a later one.
LEMMA BufferStep == IndInv /\ [Next]_vars => BufferInv'
<1> SUFFICES ASSUME IndInv, [Next]_vars PROVE BufferInv'
  OBVIOUS
<1> USE ConstantsAssumption, BufSizeAssumption
<1>1. ASSUME UNCHANGED <<wpc, nwr, loc, file_size, buffer>>
      PROVE  BufferInv'
  BY <1>1 DEF IndInv, BufferInv, Copied
<1>2. CASE Writer
  <2>1. CASE \E c \in Cells : BeginWrite(c)
    <3> PICK c \in Cells : BeginWrite(c)
      BY <2>1
    <3>1. /\ file_size \in Nat /\ c \in Nat /\ nwr \in Nat /\ nwr + 1 \in Writes
          /\ loc \in [Writes -> Nat]
      BY DEF BeginWrite, IndInv, TypeOK, ClientTypeOK, WriterTypeOK, Cells, Writes
    <3>2. /\ file_size' \in Nat /\ file_size' >= file_size /\ buffer' = buffer
          /\ Copied' = Copied /\ Copied = nwr
      BY <3>1 DEF BeginWrite, rdmaVars, Copied
    <3>3. \A v \in 1 .. nwr : loc'[v] = loc[v] /\ v \in Writes
      BY <3>1 DEF BeginWrite, Writes
    <3>4. ASSUME NEW v \in 1 .. Copied
          PROVE  loc[v] \in Cells /\ loc[v] < file_size /\ buffer[loc[v]] >= v
      BY DEF IndInv, BufferInv
    <3>5. \A v \in 1 .. nwr : loc[v] \in Int
      BY <3>1, <3>3
    <3> QED BY <3>1, <3>2, <3>3, <3>4, <3>5 DEF BufferInv
  <2>2. CASE CopyData
    <3>1. /\ nwr \in Nat \ {0} /\ pos = loc[nwr] /\ pos \in Cells /\ pos < file_size
          /\ buffer \in [Cells -> 0 .. MaxWrites]
      BY <2>2 DEF CopyData, IndInv, TypeOK, WriterTypeOK, RdmaTypeOK, EofInv
    <3>2. /\ buffer' = [buffer EXCEPT ![pos] = nwr] /\ file_size' = file_size /\ loc' = loc
          /\ Copied' = nwr /\ Copied = nwr - 1
      BY <2>2 DEF CopyData, clientVars, Copied
    <3> SUFFICES ASSUME NEW v \in 1 .. nwr
                 PROVE  loc[v] \in Cells /\ loc[v] < file_size /\ buffer'[loc[v]] >= v
      BY <3>2 DEF BufferInv
    <3>3. CASE v = nwr
      BY <3>1, <3>2, <3>3
    <3>4. CASE v # nwr
      <4>1. loc[v] \in Cells /\ loc[v] < file_size /\ buffer[loc[v]] >= v
        BY <3>1, <3>2, <3>4 DEF IndInv, BufferInv
      <4> QED BY <3>1, <3>2, <4>1
    <3> QED BY <3>3, <3>4
  <2>3. CASE StampSeq
    BY <2>3 DEF IndInv, BufferInv, Copied, StampSeq
  <2>4. CASE LockRecover
    BY <2>4 DEF IndInv, BufferInv, Copied, LockRecover, rdmaVars
  <2>5. CASE FinishPost
    BY <2>5 DEF IndInv, BufferInv, Copied, FinishPost, rdmaVars, clientVars
  <2>6. CASE FinishWrite
    BY <2>6 DEF IndInv, BufferInv, Copied, FinishWrite, rdmaVars
  <2>7. CASE \/ \E p \in Peers : PostTo(p)
             \/ \E p \in Peers : PollPeer(p)
    BY <1>1, <2>7 DEF PostTo, PollPeer, rdmaVars
  <2> QED BY <1>2, <2>1, <2>2, <2>3, <2>4, <2>5, <2>6, <2>7 DEF Writer
<1>3. CASE Watcher
  BY <1>1, <1>3 DEF Watcher, HandleDeleted, writerVars, HandleChild, rdmaVars,
       clientVars, AddPeer, NoNewPeer, WatchPeer, PostRecover, RecoverDone,
       UpdateZKNode, FinishChild, SuspendWrites, WatchForPeerJoin
<1>4. CASE Environment
  BY <1>1, <1>4 DEF Environment, NicStep, NicPlace, NicComplete, clientVars,
       writerVars, PeerCrash, ServerDown, ExpireDead, rdmaVars, ExpireAlive,
       ServerStart
<1>5. CASE UNCHANGED vars
  BY <1>1, <1>5 DEF vars, rdmaVars, clientVars, writerVars
<1> QED BY <1>2, <1>3, <1>4, <1>5 DEF Next

\* Posting and polling keep every op_queue in step with its queue pair.
LEMMA QueueStep == IndInv /\ [Next]_vars => QueueInv'
<1> SUFFICES ASSUME IndInv, [Next]_vars, NEW q \in Peers
             PROVE  QueueOK(q)'
  BY DEF QueueInv
<1>0. QueueOK(q)
  BY DEF IndInv, QueueInv
<1>t. /\ sendq[q] \in Seq(WR) /\ sendq \in [Peers -> Seq(WR)]
      /\ op_queue[q] \in Seq(Writes) /\ op_queue \in [Peers -> Seq(Writes)]
  BY DEF IndInv, TypeOK, RdmaTypeOK, ClientTypeOK
<1> USE ConstantsAssumption, BufSizeAssumption
<1>1. ASSUME UNCHANGED <<op_queue, nwr, wpc, todo, sendq, synced>>
      PROVE  QueueOK(q)'
  BY <1>1, <1>0 DEF QueueOK
<1>2. CASE Writer
  <2>1. CASE \E c \in Cells : BeginWrite(c)
    <3>1. nwr \in Nat /\ nwr' = nwr + 1 /\ op_queue' = op_queue /\ sendq' = sendq
          /\ synced' = synced
      BY <2>1 DEF BeginWrite, rdmaVars, historyVars, IndInv, TypeOK, WriterTypeOK
    <3>2. \A t \in Range(op_queue[q]) : t \in Int
      BY <1>t, RangeOfSeq DEF Writes
    <3> QED BY <1>0, <3>1, <3>2 DEF QueueOK
  <2>2. CASE CopyData
    BY <2>2, <1>0 DEF QueueOK, CopyData, clientVars, historyVars
  <2>3. CASE StampSeq
    BY <2>3, <1>0 DEF QueueOK, StampSeq, historyVars
  <2>4. CASE LockRecover
    BY <2>4, <1>0 DEF QueueOK, LockRecover, rdmaVars, historyVars
  <2>5. CASE \E p \in Peers : PostTo(p)
    <3> PICK p \in Peers : PostTo(p)
      BY <2>5
    <3>1. /\ nwr' = nwr /\ wpc' = wpc /\ wpc = "post" /\ synced' = synced
          /\ todo' = todo \ {p} /\ sendq' = [sendq EXCEPT ![p] = writeTwoPlace(@, {pos}, nwr)]
          /\ op_queue' = [op_queue EXCEPT ![p] = Append(@, nwr)]
      BY DEF PostTo, historyVars
    <3>2. CASE p # q
      BY <1>0, <1>t, <3>1, <3>2 DEF QueueOK
    <3>3. CASE p = q
      <4>1. nwr \in Writes /\ nwr \in Nat /\ nwr # 0 /\ {pos} \in SUBSET Cells
        BY DEF PostTo, IndInv, TypeOK, WriterTypeOK, Writes
      <4>2. nwr \notin Range(op_queue[q])
        BY <1>0, <3>1, <3>3 DEF PostTo, QueueOK
      <4>3. \A t \in Range(op_queue[q]) : t \in Int /\ t < nwr
        BY <1>0, <1>t, <4>1, <4>2, RangeOfSeq DEF QueueOK, Writes
      <4>4. op_queue'[q] = Append(op_queue[q], nwr)
            /\ sendq'[q] = writeTwoPlace(sendq[q], {pos}, nwr)
        BY <1>t, <3>1, <3>3
      <4>5. Increasing(op_queue'[q]) /\ Range(op_queue'[q]) = Range(op_queue[q]) \cup {nwr}
        BY <1>0, <1>t, <4>1, <4>3, <4>4, AppendIncreasing DEF QueueOK
      <4>6. Range(sendq'[q]) = Range(sendq[q]) \cup {DataWR({pos}, nwr), SeqWR(nwr)}
        BY <1>t, <4>1, <4>4, PostProperties
      <4>7. DataWR({pos}, nwr).tok = nwr /\ SeqWR(nwr).tok = nwr
        BY DEF DataWR, SeqWR
      <4>8. \A t \in Range(op_queue'[q]) : t <= nwr'
        BY <3>1, <4>1, <4>3, <4>5
      <4>9. wpc' = "post" /\ q \notin todo'
        BY <3>1, <3>3
      <4>10. \A wr \in Range(sendq'[q]) : wr.tok \in {0} \cup Range(op_queue'[q])
        BY <1>0, <4>5, <4>6, <4>7 DEF QueueOK
      <4>11. q \in synced' => \A wr \in Range(sendq'[q]) : wr.tok # 0
        BY <1>0, <3>1, <4>1, <4>6, <4>7 DEF QueueOK
      <4> QED BY <4>5, <4>8, <4>9, <4>10, <4>11 DEF QueueOK
    <3> QED BY <3>2, <3>3
  <2>6. CASE FinishPost
    BY <2>6, <1>0 DEF QueueOK, FinishPost, rdmaVars, clientVars, historyVars
  <2>7. CASE \E p \in Peers : PollPeer(p)
    <3> PICK p \in Peers : PollPeer(p)
      BY <2>7
    <3>1. /\ nwr' = nwr /\ wpc' = wpc /\ wpc = "poll" /\ synced' = synced /\ sendq' = sendq
          /\ op_queue' = [op_queue EXCEPT ![p] = Tail(@)]
          /\ op_queue[p] # <<>> /\ BothCompleted(p, Head(op_queue[p]))
      BY DEF PollPeer, rdmaVars, historyVars
    <3>2. CASE p # q
      BY <1>0, <1>t, <3>1, <3>2 DEF QueueOK
    <3>3. CASE p = q
      <4>1. op_queue'[q] = Tail(op_queue[q])
        BY <1>t, <3>1, <3>3
      <4>2. Increasing(op_queue'[q])
            /\ Range(op_queue[q]) = {Head(op_queue[q])} \cup Range(op_queue'[q])
        BY <1>0, <1>t, <3>1, <3>3, <4>1, TailIncreasing, TailProperties DEF QueueOK
      <4>3. \A wr \in Range(sendq[q]) : wr.tok # Head(op_queue[q])
        BY <3>1, <3>3 DEF BothCompleted
      <4> QED BY <1>0, <3>1, <3>3, <4>2, <4>3 DEF QueueOK
    <3> QED BY <3>2, <3>3
  <2>8. CASE FinishWrite
    BY <2>8, <1>0 DEF QueueOK, FinishWrite, rdmaVars, historyVars
  <2> QED BY <1>2, <2>1, <2>2, <2>3, <2>4, <2>5, <2>6, <2>7, <2>8 DEF Writer
<1>3. CASE Watcher
  <2>1. CASE HandleDeleted
    <3> DEFINE p == Head(events).path
    <3>1. /\ nwr' = nwr /\ wpc' = wpc /\ todo' = todo /\ synced' \subseteq synced
          /\ \/ op_queue' = op_queue /\ sendq' = sendq
             \/ /\ op_queue' = [op_queue EXCEPT ![p] = <<>>]
                /\ sendq' = [sendq EXCEPT ![p] = <<>>]
      BY <2>1 DEF HandleDeleted, writerVars
    <3>2. \/ op_queue'[q] = op_queue[q] /\ sendq'[q] = sendq[q]
          \/ op_queue'[q] = <<>> /\ sendq'[q] = <<>>
      BY <1>t, <3>1
    <3>3. Range(<<>>) = {} /\ Increasing(<<>>)
      BY DEF Range, Increasing
    <3> QED BY <1>0, <3>1, <3>2, <3>3 DEF QueueOK
  <2>2. CASE PostRecover
    <3>1. /\ nwr' = nwr /\ wpc' = wpc /\ todo' = todo /\ synced' = synced
          /\ op_queue' = op_queue /\ new_peer \in Peers
          /\ sendq' = [sendq EXCEPT ![new_peer] = writeTwoPlace(@, 0 .. file_size - 1, 0)]
      BY <2>2 DEF PostRecover, historyVars, writerVars, clientVars, IndInv, TypeOK, WatcherTypeOK
    <3>2. CASE q # new_peer
      BY <1>0, <1>t, <3>1, <3>2 DEF QueueOK
    <3>3. CASE q = new_peer
      <4> DEFINE cs == 0 .. file_size - 1
      <4>1. cs \in SUBSET Cells
        BY DEF IndInv, TypeOK, ClientTypeOK, Cells
      <4>2. sendq'[q] = writeTwoPlace(sendq[q], cs, 0)
        BY <1>t, <3>1, <3>3
      <4> HIDE DEF cs
      <4>3. Range(sendq'[q]) = Range(sendq[q]) \cup {DataWR(cs, 0), SeqWR(0)}
        BY <1>t, <4>1, <4>2, PostProperties
      <4>4. DataWR(cs, 0).tok = 0 /\ SeqWR(0).tok = 0
        BY DEF DataWR, SeqWR
      <4>5. q \notin synced
        BY <2>2, <3>3 DEF PostRecover, IndInv, PeersInv
      <4> QED BY <1>0, <3>1, <4>3, <4>4, <4>5 DEF QueueOK
    <3> QED BY <3>2, <3>3
  <2>3. CASE RecoverDone
    <3>1. /\ nwr' = nwr /\ wpc' = wpc /\ todo' = todo /\ op_queue' = op_queue
          /\ sendq' = sendq /\ synced' \subseteq synced \cup {new_peer}
          /\ BothCompleted(new_peer, 0)
      BY <2>3 DEF RecoverDone, writerVars, clientVars, rdmaVars
    <3> QED BY <1>0, <3>1 DEF QueueOK, BothCompleted
  <2>4. CASE \/ HandleChild
             \/ \E p \in Peers : AddPeer(p)
             \/ NoNewPeer
             \/ WatchPeer
             \/ UpdateZKNode
             \/ FinishChild
             \/ SuspendWrites
             \/ WatchForPeerJoin
    BY <1>1, <2>4 DEF HandleChild, rdmaVars, clientVars, writerVars, historyVars,
       AddPeer, NoNewPeer, WatchPeer, UpdateZKNode, FinishChild, SuspendWrites,
       WatchForPeerJoin
  <2> QED BY <1>3, <2>1, <2>2, <2>3, <2>4 DEF Watcher
<1>4. CASE Environment
  <2> PICK p \in Peers : \/ NicStep(p) \/ PeerCrash(p) \/ ExpireDead(p)
                           \/ ExpireAlive(p) \/ ServerStart(p)
    BY <1>4 DEF Environment
  <2>1. CASE NicStep(p)
    <3>1. /\ nwr' = nwr /\ wpc' = wpc /\ todo' = todo /\ op_queue' = op_queue
          /\ synced' = synced
      BY <2>1 DEF NicStep, historyVars, clientVars, writerVars
    <3>2. CASE q # p
      BY <1>0, <1>t, <2>1, <3>1, <3>2 DEF QueueOK, NicStep, NicPlace, NicComplete
    <3>3. CASE q = p /\ NicPlace(p)
      <4>1. PICK c \in Head(sendq[q]).cells :
               sendq' = [sendq EXCEPT ![q][1].cells = @ \ {c}]
        BY <3>3 DEF NicPlace
      <4>2. sendq[q] # <<>> /\ sendq'[q] = [sendq[q] EXCEPT ![1].cells = @ \ {c}]
        BY <1>t, <3>3, <4>1 DEF NicPlace
      <4> DEFINE h == [Head(sendq[q]) EXCEPT !.cells = @ \ {c}]
      <4>3. Range(sendq'[q]) \subseteq Range(sendq[q]) \cup {h}
        BY <1>t, <4>2, PlaceProperties
      <4>4. Head(sendq[q]) \in WR /\ Head(sendq[q]) \in Range(sendq[q])
        BY <1>t, <4>2, TailProperties
      <4>5. h.tok = Head(sendq[q]).tok
        BY <4>4 DEF WR
      <4> QED BY <1>0, <3>1, <4>3, <4>4, <4>5 DEF QueueOK
    <3>4. CASE q = p /\ NicComplete(p)
      <4>1. sendq[q] # <<>> /\ sendq'[q] = Tail(sendq[q])
        BY <1>t, <3>4 DEF NicComplete
      <4>2. Range(sendq'[q]) \subseteq Range(sendq[q])
        BY <1>t, <4>1, TailProperties
      <4> QED BY <1>0, <3>1, <4>2 DEF QueueOK
    <3> QED BY <2>1, <3>2, <3>3, <3>4 DEF NicStep
  <2>2. CASE PeerCrash(p)
    BY <2>2, <1>0 DEF QueueOK, PeerCrash, ServerDown, clientVars, writerVars
  <2>3. CASE \/ ExpireDead(p)
             \/ ExpireAlive(p)
             \/ ServerStart(p)
    BY <1>1, <2>3 DEF ExpireDead, rdmaVars, clientVars, writerVars, historyVars,
       ExpireAlive, ServerStart
  <2> QED BY <2>1, <2>2, <2>3
<1>5. CASE UNCHANGED vars
  BY <1>1, <1>5 DEF vars, rdmaVars, clientVars, writerVars, historyVars
<1> QED BY <1>2, <1>3, <1>4, <1>5 DEF Next

\* A token is flagged only when it is the last of its queue, and from then on
\* only later tokens enter that queue.
LEMMA AcksStep == IndInv /\ [Next]_vars => AcksInv'
<1> SUFFICES ASSUME IndInv, [Next]_vars PROVE AcksInv'
  OBVIOUS
<1>t. /\ op_queue \in [Peers -> Seq(Writes)] /\ acks \in [Writes -> SUBSET Peers]
      /\ flagged \in SUBSET Peers
  BY DEF IndInv, TypeOK, ClientTypeOK, WriterTypeOK
<1> USE ConstantsAssumption, BufSizeAssumption
<1>1. ASSUME UNCHANGED <<wpc, flagged, op_queue, acks, nwr>>
      PROVE  AcksInv'
  BY <1>1 DEF IndInv, AcksInv
<1>2. CASE Writer
  <2>1. CASE \E c \in Cells : BeginWrite(c)
    BY <2>1 DEF IndInv, AcksInv, TypeOK, WriterTypeOK, Writes, BeginWrite
  <2>2. CASE CopyData
    BY <2>2 DEF IndInv, AcksInv, TypeOK, WriterTypeOK, CopyData, clientVars
  <2>3. CASE StampSeq
    BY <2>3 DEF IndInv, AcksInv, TypeOK, WriterTypeOK, StampSeq
  <2>4. CASE LockRecover
    BY <2>4 DEF IndInv, AcksInv, TypeOK, WriterTypeOK, LockRecover
  <2>5. CASE \E p \in Peers : PostTo(p)
    <3> PICK p \in Peers : PostTo(p)
      BY <2>5
    <3>1. /\ nwr' = nwr /\ wpc' = "post" /\ wpc = "post" /\ acks' = acks
          /\ flagged' = flagged /\ op_queue' = [op_queue EXCEPT ![p] = Append(@, nwr)]
      BY DEF PostTo
    <3>2. flagged = {} /\ nwr \in Writes /\ op_queue[p] \in Seq(Writes) /\ Increasing(op_queue[p])
      BY <1>t, <3>1 DEF IndInv, AcksInv, QueueInv, QueueOK, TypeOK, WriterTypeOK, Writes
    <3>3. \A t \in Range(op_queue[p]) : t \in Int /\ t <= nwr
      BY <1>t, RangeOfSeq DEF IndInv, QueueInv, QueueOK, Writes
    <3>4. nwr \notin Range(op_queue[p])
      BY <3>1 DEF PostTo, IndInv, QueueInv, QueueOK
    <3>5. \A t \in Range(op_queue[p]) : t < nwr
      BY <3>2, <3>3, <3>4 DEF Writes
    <3>6. Range(Append(op_queue[p], nwr)) = Range(op_queue[p]) \cup {nwr}
      BY <3>2, <3>5, AppendIncreasing
    <3>7. \A r \in Peers : \A t \in Range(op_queue'[r]) : t \in Range(op_queue[r]) \/ t = nwr
      BY <1>t, <3>1, <3>6
    <3> QED BY <1>t, <3>1, <3>2, <3>7 DEF IndInv, AcksInv, Writes
  <2>6. CASE FinishPost
    BY <2>6 DEF IndInv, AcksInv, TypeOK, WriterTypeOK, FinishPost, clientVars
  <2>7. CASE \E p \in Peers : PollPeer(p)
    <3> PICK p \in Peers : PollPeer(p)
      BY <2>7
    <3>1. /\ nwr' = nwr /\ wpc' = "poll" /\ wpc = "poll" /\ acks' = acks /\ op_queue[p] # <<>>
          /\ flagged' = IF Head(op_queue[p]) = nwr THEN flagged \cup {p} ELSE flagged
          /\ op_queue' = [op_queue EXCEPT ![p] = Tail(@)]
      BY DEF PollPeer
    <3>2. op_queue[p] \in Seq(Writes) /\ Increasing(op_queue[p])
      BY <1>t DEF IndInv, QueueInv, QueueOK
    <3>3. /\ Range(Tail(op_queue[p])) \subseteq Range(op_queue[p])
          /\ Tail(op_queue[p]) \in Seq(Writes)
      BY <3>1, <3>2, TailProperties
    <3>4. \A t \in Range(Tail(op_queue[p])) : t > Head(op_queue[p])
      BY <3>1, <3>2, TailIncreasing
    <3>5. Head(op_queue[p]) = nwr => Tail(op_queue[p]) = <<>>
      <4> SUFFICES ASSUME Head(op_queue[p]) = nwr, Tail(op_queue[p]) # <<>>
                   PROVE  FALSE
        OBVIOUS
      <4> DEFINE t == Head(Tail(op_queue[p]))
      <4>1. t \in Range(Tail(op_queue[p])) /\ t \in Writes
        BY <3>3, TailProperties
      <4>2. t > nwr /\ t <= nwr
        BY <3>3, <3>4, <4>1 DEF IndInv, QueueInv, QueueOK
      <4> QED BY <4>1, <4>2 DEF Writes, IndInv, TypeOK, WriterTypeOK
    <3>6. \A r \in flagged' : op_queue'[r] = <<>>
      BY <1>t, <3>1, <3>5 DEF IndInv, AcksInv
    <3>7. \A r \in Peers : Range(op_queue'[r]) \subseteq Range(op_queue[r])
      BY <1>t, <3>1, <3>3
    <3> QED BY <1>t, <3>1, <3>6, <3>7 DEF IndInv, AcksInv
  <2>8. CASE FinishWrite
    <3>1. /\ nwr' = nwr /\ wpc' = "idle" /\ wpc = "poll" /\ acks' = [acks EXCEPT ![nwr] = flagged]
          /\ flagged' = {} /\ op_queue' = op_queue /\ nwr \in Writes
      BY <2>8 DEF FinishWrite, IndInv, TypeOK, WriterTypeOK, Writes
    <3>2. Range(<<>>) = {}
      BY DEF Range
    <3> SUFFICES ASSUME NEW w \in Writes, NEW p \in acks'[w]
                 PROVE  (w < nwr \/ w = nwr) /\ \A t \in Range(op_queue[p]) : t > w
      BY <3>1 DEF AcksInv
    <3>3. CASE w = nwr
      BY <1>t, <3>1, <3>2, <3>3 DEF IndInv, AcksInv
    <3>4. CASE w # nwr
      BY <1>t, <3>1, <3>4 DEF IndInv, AcksInv
    <3> QED BY <3>3, <3>4
  <2> QED BY <1>2, <2>1, <2>2, <2>3, <2>4, <2>5, <2>6, <2>7, <2>8 DEF Writer
<1>3. CASE Watcher
  <2>1. CASE HandleDeleted
    <3> DEFINE p == Head(events).path
    <3>1. /\ nwr' = nwr /\ wpc' = wpc /\ acks' = acks /\ flagged' = flagged
          /\ op_queue' = op_queue \/ op_queue' = [op_queue EXCEPT ![p] = <<>>]
      BY <2>1 DEF HandleDeleted, writerVars
    <3>2. \A r \in Peers : op_queue'[r] = op_queue[r] \/ op_queue'[r] = <<>>
      BY <1>t, <3>1
    <3>3. Range(<<>>) = {}
      BY DEF Range
    <3> QED BY <1>t, <3>1, <3>2, <3>3 DEF IndInv, AcksInv
  <2>2. CASE \/ HandleChild
             \/ \E p \in Peers : AddPeer(p)
             \/ NoNewPeer
             \/ WatchPeer
             \/ PostRecover
             \/ RecoverDone
             \/ UpdateZKNode
             \/ FinishChild
             \/ SuspendWrites
             \/ WatchForPeerJoin
    BY <1>1, <2>2 DEF HandleChild, clientVars, writerVars, AddPeer, NoNewPeer,
       WatchPeer, PostRecover, RecoverDone, UpdateZKNode, FinishChild,
       SuspendWrites, WatchForPeerJoin
  <2> QED BY <1>3, <2>1, <2>2 DEF Watcher
<1>4. CASE Environment
  BY <1>1, <1>4 DEF Environment, NicStep, NicPlace, NicComplete, clientVars,
       writerVars, PeerCrash, ServerDown, ExpireDead, ExpireAlive, ServerStart
<1>5. CASE UNCHANGED vars
  BY <1>1, <1>5 DEF vars, clientVars, writerVars
<1> QED BY <1>2, <1>3, <1>4, <1>5 DEF Next

\* The heart of AckedHeld: a good peer has every write in its memory or in a
\* work request that no later write can overtake.
LEMMA HeldStep == IndInv /\ [Next]_vars => HeldInv'
<1> SUFFICES ASSUME IndInv, [Next]_vars, NEW q \in Peers, Good(q)', NEW v \in 1 .. Copied'
             PROVE  Arrives(q, v)'
  BY DEF HeldInv
<1>0. Good(q) /\ v \in 1 .. Copied => Arrives(q, v)
  BY DEF IndInv, HeldInv
<1>t. /\ sendq[q] \in Seq(WR) /\ sendq \in [Peers -> Seq(WR)] /\ Copied' \in Int
      /\ buffer \in [Cells -> 0 .. MaxWrites] /\ mr \in [Peers -> [Cells -> 0 .. MaxWrites]]
  <2>1. TypeOK'
    BY TypeStep DEF IndInv
  <2> QED BY <2>1 DEF IndInv, TypeOK, RdmaTypeOK, WriterTypeOK, Copied
<1> USE ConstantsAssumption, BufSizeAssumption
<1>1. ASSUME UNCHANGED <<conn, sendq, mr, synced, cpc, new_peer, wpc, pos, todo, nwr, loc>>
      PROVE  Arrives(q, v)'
  BY <1>1, <1>0 DEF Copied, Good, Arrives, Reaches, Unposted
<1>2. CASE Writer
  <2>1. CASE \E c \in Cells : BeginWrite(c)
    <3> PICK c \in Cells : BeginWrite(c)
      BY <2>1
    <3>1. /\ nwr \in Nat /\ nwr + 1 \in Writes /\ loc \in [Writes -> Nat] /\ nwr' = nwr + 1
          /\ loc' = [loc EXCEPT ![nwr + 1] = c]
          /\ Copied' = nwr /\ Copied = nwr /\ wpc = "idle"
      BY DEF BeginWrite, IndInv, TypeOK, WriterTypeOK, Writes, Copied
    <3>2. v \in 1 .. Copied /\ loc'[v] = loc[v]
      BY <3>1 DEF Writes
    <3>3. Good(q) /\ mr' = mr /\ sendq' = sendq
      BY DEF BeginWrite, Good, rdmaVars, watcherVars, historyVars
    <3> QED BY <1>0, <3>1, <3>2, <3>3 DEF Arrives, Reaches, Unposted
  <2>2. CASE CopyData
    <3>1. /\ nwr \in Nat \ {0} /\ pos = loc[nwr] /\ wpc = "copy" /\ wpc' = "stamp"
          /\ nwr' = nwr /\ loc' = loc /\ pos' = pos /\ mr' = mr /\ sendq' = sendq
          /\ Copied' = nwr /\ Copied = nwr - 1 /\ Good(q)
      BY <2>2 DEF CopyData, IndInv, TypeOK, WriterTypeOK, Copied, Good, watcherVars, historyVars
    <3> QED BY <1>0, <3>1 DEF Arrives, Reaches, Unposted
  <2>3. CASE StampSeq
    BY <2>3, <1>0 DEF Good, Arrives, Reaches, Unposted, Copied, StampSeq,
       watcherVars, historyVars
  <2>4. CASE LockRecover
    BY <2>4, <1>0 DEF Good, Arrives, Reaches, Unposted, Copied, IndInv, PeersInv,
       LockRecover, rdmaVars, watcherVars, historyVars
  <2>5. CASE \E p \in Peers : PostTo(p)
    <3> PICK p \in Peers : PostTo(p)
      BY <2>5
    <3>1. /\ mr' = mr /\ wpc' = wpc /\ pos' = pos /\ nwr' = nwr /\ loc' = loc
          /\ todo' = todo \ {p} /\ Good(q) /\ Copied' = Copied
          /\ sendq' = [sendq EXCEPT ![p] = writeTwoPlace(@, {pos}, nwr)]
      BY DEF PostTo, historyVars, watcherVars, Good, Copied
    <3>2. CASE p # q
      BY <1>0, <1>t, <3>1, <3>2 DEF Arrives, Reaches, Unposted
    <3>3. CASE p = q
      <4>1. {pos} \in SUBSET Cells /\ nwr \in Nat /\ pos = loc[nwr]
        BY DEF PostTo, IndInv, TypeOK, WriterTypeOK
      <4>2. sendq'[q] = writeTwoPlace(sendq[q], {pos}, nwr)
        BY <1>t, <3>1, <3>3
      <4>3. /\ Range(sendq[q]) \subseteq Range(sendq'[q])
            /\ DataWR({pos}, nwr) \in Range(sendq'[q])
        BY <1>t, <4>1, <4>2, PostProperties
      <4>4. Reaches(q, v) => Reaches(q, v)'
        BY <3>1, <4>3 DEF Reaches
      <4>5. v = nwr => Reaches(q, v)'
        BY <3>1, <4>1, <4>3 DEF Reaches, DataWR
      <4> QED BY <1>0, <3>1, <4>4, <4>5 DEF Arrives
    <3> QED BY <3>2, <3>3
  <2>6. CASE FinishPost
    BY <2>6, <1>0 DEF Good, Arrives, Reaches, Unposted, Copied, IndInv, PeersInv,
       FinishPost, rdmaVars, watcherVars, historyVars
  <2>7. CASE FinishWrite
    BY <2>7, <1>0 DEF Good, Arrives, Reaches, Unposted, Copied, FinishWrite,
       rdmaVars, watcherVars, historyVars
  <2>8. CASE \E p \in Peers : PollPeer(p)
    BY <1>1, <2>8 DEF PollPeer, rdmaVars, watcherVars, historyVars
  <2> QED BY <1>2, <2>1, <2>2, <2>3, <2>4, <2>5, <2>6, <2>7, <2>8 DEF Writer
<1>3. CASE Watcher
  <2>1. CASE HandleDeleted
    BY <2>1, <1>0, <1>t DEF Good, Arrives, Reaches, Unposted, Copied,
       HandleDeleted, writerVars
  <2>2. CASE HandleChild
    BY <2>2, <1>0 DEF Good, Arrives, Reaches, Unposted, Copied, IndInv, PeersInv,
       HandleChild, rdmaVars, writerVars, historyVars
  <2>3. CASE \E p \in Peers : AddPeer(p)
    BY <2>3, <1>0 DEF Good, Arrives, Reaches, Unposted, Copied, IndInv, PeersInv,
       AddPeer, writerVars, historyVars
  <2>4. CASE NoNewPeer
    BY <2>4, <1>0 DEF Good, Arrives, Reaches, Unposted, Copied, IndInv, PeersInv,
       NoNewPeer, rdmaVars, writerVars, historyVars
  <2>5. CASE WatchPeer
    BY <2>5, <1>0 DEF Good, Arrives, Reaches, Unposted, Copied, IndInv, PeersInv,
       WatchPeer, rdmaVars, writerVars, historyVars
  <2>6. CASE PostRecover
    <3>1. /\ mr' = mr /\ conn' = conn /\ synced' = synced /\ nwr' = nwr /\ loc' = loc
          /\ new_peer' = new_peer /\ wpc' = wpc /\ pos' = pos /\ todo' = todo
          /\ cpc = "recover" /\ new_peer \in Peers /\ Copied' = Copied
          /\ sendq' = [sendq EXCEPT ![new_peer] = writeTwoPlace(@, 0 .. file_size - 1, 0)]
      BY <2>6 DEF PostRecover, historyVars, writerVars, IndInv, TypeOK, WatcherTypeOK, Copied
    <3>2. CASE q # new_peer
      BY <1>0, <1>t, <3>1, <3>2 DEF Good, Arrives, Reaches, Unposted
    <3>3. CASE q = new_peer
      <4> DEFINE cs == 0 .. file_size - 1
      <4>1. file_size \in Nat /\ cs \in SUBSET Cells
        BY DEF IndInv, TypeOK, ClientTypeOK, Cells
      <4>2. loc[v] \in Cells /\ loc[v] < file_size
        BY <3>1 DEF IndInv, BufferInv
      <4>3. loc[v] \in cs
        BY <4>1, <4>2 DEF Cells
      <4>4. sendq'[q] = writeTwoPlace(sendq[q], cs, 0)
        BY <1>t, <3>1, <3>3
      <4> HIDE DEF cs
      <4>5. DataWR(cs, 0) \in Range(sendq'[q])
        BY <1>t, <4>1, <4>4, PostProperties
      <4>6. DataWR(cs, 0).cells = cs /\ DataWR(cs, 0).tok = 0 /\ 0 <= v
        BY <1>t DEF DataWR
      <4>7. Reaches(q, v)'
        BY <3>1, <4>3, <4>5, <4>6 DEF Reaches
      <4> QED BY <4>7 DEF Arrives
    <3> QED BY <3>2, <3>3
  <2>7. CASE RecoverDone
    BY <2>7, <1>0 DEF Good, Arrives, Reaches, Unposted, Copied, IndInv, PeersInv,
       RecoverDone, rdmaVars, writerVars
  <2>8. CASE UpdateZKNode
    BY <2>8, <1>0 DEF Good, Arrives, Reaches, Unposted, Copied, IndInv, PeersInv,
       UpdateZKNode, rdmaVars, writerVars, historyVars
  <2>9. CASE FinishChild
    BY <2>9, <1>0 DEF Good, Arrives, Reaches, Unposted, Copied, IndInv, PeersInv,
       FinishChild, rdmaVars, writerVars
  <2>10. CASE SuspendWrites
    BY <2>10, <1>0 DEF Good, Arrives, Reaches, Unposted, Copied, IndInv, PeersInv,
       SuspendWrites, rdmaVars, writerVars
  <2>11. CASE WatchForPeerJoin
    BY <2>11, <1>0 DEF Good, Arrives, Reaches, Unposted, Copied, IndInv, PeersInv,
       WatchForPeerJoin, rdmaVars, writerVars, historyVars
  <2> QED BY <1>3, <2>1, <2>2, <2>3, <2>4, <2>5, <2>6, <2>7, <2>8, <2>9, <2>10,
       <2>11 DEF Watcher
<1>4. CASE Environment
  <2> PICK p \in Peers : \/ NicStep(p) \/ PeerCrash(p) \/ ExpireDead(p)
                           \/ ExpireAlive(p) \/ ServerStart(p)
    BY <1>4 DEF Environment
  <2>1. CASE NicStep(p)
    <3>1. /\ wpc' = wpc /\ pos' = pos /\ todo' = todo /\ nwr' = nwr /\ loc' = loc
          /\ Good(q) /\ Copied' = Copied /\ v \in 1 .. Copied
      BY <2>1 DEF NicStep, NicPlace, NicComplete, historyVars, watcherVars, writerVars, Good, Copied
    <3>2. CASE q # p
      BY <1>0, <1>t, <2>1, <3>1, <3>2
         DEF Arrives, Reaches, Unposted, NicStep, NicPlace, NicComplete
    <3>3. CASE q = p /\ NicPlace(p)
      <4>1. PICK c \in Head(sendq[q]).cells :
               /\ mr' = [mr EXCEPT ![q][c] = buffer[c]]
               /\ sendq' = [sendq EXCEPT ![q][1].cells = @ \ {c}]
        BY <3>3 DEF NicPlace
      <4>2. sendq[q] # <<>> /\ sendq'[q] = [sendq[q] EXCEPT ![1].cells = @ \ {c}]
        BY <1>t, <3>3, <4>1 DEF NicPlace
      <4>3. loc[v] \in Cells /\ buffer[loc[v]] >= v
        BY <3>1 DEF IndInv, BufferInv
      <4>4. CASE loc[v] = c
        <5>1. mr'[q][loc'[v]] = buffer[loc[v]]
          BY <1>t, <3>1, <4>1, <4>3, <4>4
        <5> QED BY <4>3, <5>1 DEF Arrives
      <4>5. CASE loc[v] # c
        <5>1. mr'[q][loc'[v]] = mr[q][loc[v]]
          BY <1>t, <3>1, <4>1, <4>5
        <5>2. Head(sendq[q]) \in WR
          BY <1>t, <4>2, TailProperties
        <5>3. Reaches(q, v) => Reaches(q, v)'
          <6> DEFINE h == [Head(sendq[q]) EXCEPT !.cells = @ \ {c}]
          <6>1. Range(sendq[q]) \subseteq Range(sendq'[q]) \cup {Head(sendq[q])}
                /\ h \in Range(sendq'[q])
            BY <1>t, <4>2, PlaceProperties
          <6>2. h.cells = Head(sendq[q]).cells \ {c} /\ h.tok = Head(sendq[q]).tok
            BY <5>2 DEF WR
          <6> QED BY <3>1, <4>5, <6>1, <6>2 DEF Reaches
        <5> QED BY <1>0, <3>1, <5>1, <5>3 DEF Arrives, Unposted
      <4> QED BY <4>4, <4>5
    <3>4. CASE q = p /\ NicComplete(p)
      <4>1. /\ mr' = mr /\ sendq[q] # <<>> /\ Head(sendq[q]).cells = {}
            /\ sendq'[q] = Tail(sendq[q])
        BY <1>t, <3>4 DEF NicComplete
      <4>2. Reaches(q, v) => Reaches(q, v)'
        BY <1>t, <3>1, <4>1, TailProperties DEF Reaches
      <4> QED BY <1>0, <3>1, <4>1, <4>2 DEF Arrives, Unposted
    <3> QED BY <2>1, <3>2, <3>3, <3>4 DEF NicStep
  <2>2. CASE PeerCrash(p)
    BY <2>2, <1>0, <1>t DEF Good, Arrives, Reaches, Unposted, Copied, PeerCrash,
       ServerDown, writerVars, watcherVars
  <2>3. CASE \/ ExpireDead(p)
             \/ ExpireAlive(p)
             \/ ServerStart(p)
    BY <1>1, <2>3 DEF ExpireDead, rdmaVars, writerVars, watcherVars, historyVars,
       ExpireAlive, ServerStart
  <2> QED BY <2>1, <2>2, <2>3
<1>5. CASE UNCHANGED vars
  BY <1>1, <1>5 DEF vars, rdmaVars, writerVars, watcherVars, historyVars
<1> QED BY <1>2, <1>3, <1>4, <1>5 DEF Next

\* A fresh client, whose servers have zeroed memory, satisfies the invariant.
LEMMA IndInit == Init => IndInv
<1> SUFFICES ASSUME Init PROVE IndInv
  OBVIOUS
<1> USE ConstantsAssumption, BufSizeAssumption
<1>1. TypeOK
  BY TypeInit
<1>2. PeersInv
  BY DEF Init, PeersInv
<1>3. EofInv
  BY DEF Init, EofInv, Zeroed
<1>4. CopyInv
  BY DEF Init, CopyInv, Good
<1>5. Copied = 0
  BY DEF Init, Copied
<1>6. BufferInv /\ HeldInv
  BY <1>5 DEF BufferInv, HeldInv
<1>7. Range(<<>>) = {} /\ Increasing(<<>>)
  BY DEF Range, Increasing
<1>8. QueueInv
  BY <1>7 DEF Init, QueueInv, QueueOK
<1>9. AcksInv
  BY DEF Init, AcksInv
<1> QED BY <1>1, <1>2, <1>3, <1>4, <1>6, <1>8, <1>9 DEF IndInv

\* The inductive invariant holds in every reachable state.
THEOREM Inductive == Spec => []IndInv
<1>1. Init => IndInv
  BY IndInit
<1>2. IndInv /\ [Next]_vars => IndInv'
  <2> SUFFICES ASSUME IndInv, [Next]_vars PROVE IndInv'
    OBVIOUS
  <2>1. TypeOK'
    BY TypeStep DEF IndInv
  <2>2. PeersInv' /\ EofInv' /\ CopyInv' /\ BufferInv' /\ QueueInv' /\ AcksInv' /\ HeldInv'
    BY PeersStep, EofStep, CopyStep, BufferStep, QueueStep, AcksStep, HeldStep
  <2> QED BY <2>1, <2>2 DEF IndInv
<1> QED BY <1>1, <1>2, PTL DEF Spec

\* Without a write or a work request in progress a recovered peer is an exact
\* copy of the client's buffer: recoverPeer and WriteQuorum, interleaved in
\* any way, leave no record behind.
THEOREM CaughtUpAlways == Spec => []CaughtUp
<1>1. IndInv => CaughtUp
  <2> SUFFICES ASSUME IndInv, NEW p \in synced, wpc = "idle", sendq[p] = <<>>
               PROVE  mr[p] = buffer
    BY DEF CaughtUp
  <2>1. p \in Peers /\ Good(p)
    BY DEF IndInv, TypeOK, HistoryTypeOK, PeersInv, Good
  <2>2. Range(<<>>) = {}
    BY DEF Range
  <2>3. \A c \in Cells : ~Covered(p, c) /\ ~Unposted(p, c)
    BY <2>2 DEF Covered, Unposted
  <2>4. \A c \in Cells : mr[p][c] = buffer[c]
    BY <2>1, <2>3 DEF IndInv, CopyInv
  <2>5. mr[p] \in [Cells -> 0 .. MaxWrites] /\ buffer \in [Cells -> 0 .. MaxWrites]
    BY <2>1 DEF IndInv, TypeOK, RdmaTypeOK
  <2> QED BY <2>4, <2>5
<1> QED BY <1>1, Inductive, PTL

\* A peer counted towards the quorum of a write holds that write and every
\* earlier one, although only the head of its op_queue is ever tested.
THEOREM AckedHeldAlways == Spec => []AckedHeld
<1>1. IndInv => AckedHeld
  <2> SUFFICES ASSUME IndInv, NEW w \in Writes, NEW p \in acks[w] \cap synced,
                      NEW v \in 1 .. w
               PROVE  mr[p][loc[v]] >= v
    BY DEF AckedHeld, Holds
  <2>1. p \in Peers /\ Good(p)
    BY DEF IndInv, TypeOK, HistoryTypeOK, PeersInv, Good
  <2>2. nwr \in Nat /\ w \in Nat /\ (w < nwr \/ (w = nwr /\ wpc = "idle"))
    BY DEF IndInv, AcksInv, TypeOK, WriterTypeOK, Writes
  <2>3. v \in 1 .. Copied /\ v \in Nat
    BY <2>2 DEF Copied
  <2>4. Arrives(p, v)
    BY <2>1, <2>3 DEF IndInv, HeldInv
  <2>5. ~Reaches(p, v)
    <3> SUFFICES ASSUME NEW wr \in Range(sendq[p]), wr.tok <= v
                 PROVE  FALSE
      BY DEF Reaches
    <3>1. wr.tok # 0 /\ wr.tok \in Range(op_queue[p])
      BY <2>1 DEF IndInv, QueueInv, QueueOK
    <3>2. wr.tok > w /\ wr.tok \in Int
      <4>1. op_queue[p] \in Seq(Writes)
        BY <2>1 DEF IndInv, TypeOK, ClientTypeOK
      <4>2. wr.tok \in Writes
        BY <3>1, <4>1, RangeOfSeq
      <4>3. wr.tok > w
        BY <3>1 DEF IndInv, AcksInv
      <4> QED BY <4>2, <4>3 DEF Writes
    <3> QED BY <2>2, <2>3, <3>2
  <2>6. ~(v = nwr /\ Unposted(p, loc[v]))
    BY <2>2, <2>3 DEF Unposted
  <2> QED BY <2>4, <2>5, <2>6 DEF Arrives
<1> QED BY <1>1, Inductive, PTL

=============================================================================
