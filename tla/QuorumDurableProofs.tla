------------------------ MODULE QuorumDurableProofs -------------------------
(***************************************************************************)
(* Durability of acknowledged writes: Durable holds in every reachable     *)
(* state of QuorumWrite, for every number of servers, replication factor   *)
(* and bound on failures.                                                  *)
(*                                                                         *)
(* Every peer that was counted for a write and is not recovered and        *)
(* connected any more is charged to a failure of its own: to the deletion  *)
(* of its node still to be handled, to its orphaned node, or to a failure  *)
(* that is already over.  The one peer that is being added is charged to   *)
(* the failure that made ClientWatcher look for a replacement.  With no    *)
(* more failures than half of rep_factor, a majority has a member left.    *)
(*                                                                         *)
(* The same account of failures shows for how many of them a suspension by *)
(* ClientWatcher keeps every writer out (SuspendedBlocksWrites).           *)
(***************************************************************************)
EXTENDS QuorumWriteProofs

-----------------------------------------------------------------------------
(* The invariant. *)

\* Peers whose deleted event ClientWatcher has still to handle.
Deleted == {p \in Peers : DeletedEvent(p) \in Range(events)}

OnlyOnce(q) == \A i, j \in 1 .. Len(q) : (q[i].type = "deleted" /\ q[i] = q[j]) => i = j

\* Watches are left on peers only and each fires once, so that a deleted event
\* in the queue is the only one for its peer; a peer that was erased has no
\* tokens.
WatchInv ==
    /\ in_use
    /\ exists_watch \subseteq peers
    /\ Deleted \subseteq peers \ exists_watch
    /\ OnlyOnce(events)
    /\ cpc = "exists" => new_peer \notin exists_watch \cup Deleted
    /\ \A p \in Peers \ peers : op_queue[p] = <<>>

\* How many failures account for pending deletions D, orphaned nodes O and the
\* members of A that are not in S.
LoadOf(D, O, S, A) == Cardinality(D) + Cardinality(O) + Cardinality(A \ (S \cup D \cup O))

Load(A) == LoadOf(Deleted, orphans, synced, A)

Failures == crashes + expiries

\* A failure has made ClientWatcher look for a peer, or will.
Joining == cpc # "idle" \/ child_watch \/ ChildEvent \in Range(events)

\* The peer that is being added, as long as nothing has happened to it.
Fresh(p) == p = new_peer /\ p \in conn /\ (cpc = "exists" => p \in servers)

Settled == {p \in peers : ~Fresh(p)}

ChargeInv == Load(Settled) + (IF Joining THEN 1 ELSE 0) <= Failures

\* The peers that have been, or can still be, counted for the current write.
Candidates == flagged \cup {p \in peers : nwr \in Range(op_queue[p])}

PollInv == wpc = "poll" => Load(Candidates) <= Failures

AckLoadInv == \A w \in Writes : Load(acks[w]) <= Failures

\* The strengthening of Durable, on top of IndInv.
DurableInv == WatchInv /\ ChargeInv /\ PollInv /\ AckLoadInv

-----------------------------------------------------------------------------
(* Counting. *)

\* Subsets of the finite set of servers: one element more, one less, or none.
LEMMA CardBounds ==
    ASSUME NEW S \in SUBSET Peers, NEW T, NEW p
    PROVE  /\ Cardinality(S) \in Nat
           /\ T \subseteq S => Cardinality(T) <= Cardinality(S) /\ Cardinality(T) \in Nat
           /\ T \subseteq S \cup {p} => Cardinality(T) <= Cardinality(S) + 1
           /\ p \in S /\ T \subseteq S \ {p} => Cardinality(T) <= Cardinality(S) - 1
<1>1. IsFiniteSet(S)
  BY ConstantsAssumption, FS_Subset
<1>2. Cardinality(S) \in Nat
  BY <1>1, FS_CardinalityType
<1>3. T \subseteq S => Cardinality(T) <= Cardinality(S) /\ Cardinality(T) \in Nat
  BY <1>1, FS_Subset, FS_CardinalityType
<1>4. ASSUME T \subseteq S \cup {p} PROVE Cardinality(T) <= Cardinality(S) + 1
  <2>0. /\ IsFiniteSet(S \cup {p})
        /\ Cardinality(S \cup {p}) = IF p \in S THEN Cardinality(S) ELSE Cardinality(S) + 1
    BY <1>1, FS_AddElement
  <2>1. IsFiniteSet(S \cup {p}) /\ Cardinality(S \cup {p}) <= Cardinality(S) + 1
    BY <1>2, <2>0
  <2>2. Cardinality(T) <= Cardinality(S \cup {p}) /\ Cardinality(T) \in Nat
    <3>1. T \in SUBSET (S \cup {p})
      BY <1>4
    <3>2. IsFiniteSet(T) /\ Cardinality(T) <= Cardinality(S \cup {p})
      BY <2>1, <3>1, FS_Subset
    <3> QED BY <3>2, FS_CardinalityType
  <2>3. Cardinality(S \cup {p}) \in Nat
    BY <2>1, FS_CardinalityType
  <2> QED BY <1>2, <2>1, <2>2, <2>3
<1>5. ASSUME p \in S, T \subseteq S \ {p} PROVE Cardinality(T) <= Cardinality(S) - 1
  <2>1. IsFiniteSet(S \ {p}) /\ Cardinality(S \ {p}) = Cardinality(S) - 1
    BY <1>1, <1>5, FS_RemoveElement
  <2> QED BY <2>1, <1>5, FS_Subset
<1> QED BY <1>2, <1>3, <1>4, <1>5

\* Without another pending or orphaned node the load only follows the members
\* of A outside S.
LEMMA LoadMonotone ==
    ASSUME NEW D \in SUBSET Peers, NEW O \in SUBSET Peers,
           NEW S \in SUBSET Peers, NEW A \in SUBSET Peers,
           NEW R \in SUBSET Peers, NEW B \in SUBSET Peers
    PROVE  /\ LoadOf(D, O, S, A) \in Nat
           /\ B \ R \subseteq A \ S => LoadOf(D, O, R, B) <= LoadOf(D, O, S, A)
           /\ \A p \in Peers : B \ R \subseteq (A \ S) \cup {p} =>
                LoadOf(D, O, R, B) <= LoadOf(D, O, S, A) + 1
<1> DEFINE H == A \ (S \cup D \cup O)
           I == B \ (R \cup D \cup O)
<1>1. Cardinality(D) \in Nat /\ Cardinality(O) \in Nat /\ Cardinality(H) \in Nat
      /\ Cardinality(I) \in Nat
  BY CardBounds
<1>2. ASSUME B \ R \subseteq A \ S PROVE Cardinality(I) <= Cardinality(H)
  BY <1>2, CardBounds
<1>3. ASSUME NEW p \in Peers, B \ R \subseteq (A \ S) \cup {p}
      PROVE  Cardinality(I) <= Cardinality(H) + 1
  BY <1>3, CardBounds
<1> HIDE DEF H, I
<1>4. LoadOf(D, O, S, A) = Cardinality(D) + Cardinality(O) + Cardinality(H)
      /\ LoadOf(D, O, R, B) = Cardinality(D) + Cardinality(O) + Cardinality(I)
  BY DEF LoadOf, H, I
<1> QED BY <1>1, <1>2, <1>3, <1>4

\* A crash of p adds one to the load at most.
LEMMA LoadCrash ==
    ASSUME NEW D \in SUBSET Peers, NEW O \in SUBSET Peers,
           NEW S \in SUBSET Peers, NEW A \in SUBSET Peers,
           NEW p \in Peers, NEW B \in SUBSET Peers, B \subseteq A \cup {p},
           NEW Q, Q = O \/ Q = O \cup {p}
    PROVE  LoadOf(D, Q, S \ {p}, B) <= LoadOf(D, O, S, A) + 1
<1> DEFINE H == A \ (S \cup D \cup O)
           I == B \ ((S \ {p}) \cup D \cup Q)
<1>1. Cardinality(D) \in Nat /\ Cardinality(O) \in Nat /\ Cardinality(H) \in Nat
      /\ Cardinality(I) \in Nat /\ Cardinality(Q) \in Nat
  BY CardBounds
<1>2. CASE Q = O
  <2>1. I \subseteq H \cup {p}
    BY <1>2
  <2>2. Cardinality(I) <= Cardinality(H) + 1
    BY <2>1, CardBounds
  <2> QED BY <1>1, <1>2, <2>2 DEF LoadOf
<1>3. CASE Q = O \cup {p}
  <2>1. I \subseteq H
    BY <1>3
  <2>2. Cardinality(I) <= Cardinality(H) /\ Cardinality(Q) <= Cardinality(O) + 1
    BY <1>3, <2>1, CardBounds
  <2> QED BY <1>1, <2>2 DEF LoadOf
<1> QED BY <1>2, <1>3

\* The node of p goes: a deletion becomes pending, or p may be without any
\* mark.  If the node was orphaned this was charged before.
LEMMA LoadExpire ==
    ASSUME NEW D \in SUBSET Peers, NEW O \in SUBSET Peers,
           NEW S \in SUBSET Peers, NEW A \in SUBSET Peers,
           NEW p \in Peers, NEW B \in SUBSET Peers, B \subseteq A \cup {p},
           NEW E, E = D \/ E = D \cup {p}
    PROVE  LoadOf(E, O \ {p}, S, B) <= LoadOf(D, O, S, A) + (IF p \in O THEN 0 ELSE 1)
<1> DEFINE Q == O \ {p}
           H == A \ (S \cup D \cup O)
           I == B \ (S \cup E \cup Q)
<1>1. Cardinality(D) \in Nat /\ Cardinality(O) \in Nat /\ Cardinality(H) \in Nat
      /\ Cardinality(I) \in Nat /\ Cardinality(Q) \in Nat /\ Cardinality(E) \in Nat
  BY CardBounds
<1>2. Cardinality(Q) <= Cardinality(O) - (IF p \in O THEN 1 ELSE 0)
  BY <1>1, CardBounds
<1>3. Cardinality(E) + Cardinality(I) <= Cardinality(D) + Cardinality(H) + 1
  <2>1. CASE E = D
    <3>1. I \subseteq H \cup {p}
      BY <2>1
    <3>2. Cardinality(I) <= Cardinality(H) + 1
      BY <3>1, CardBounds
    <3> QED BY <1>1, <2>1, <3>2
  <2>2. CASE E = D \cup {p}
    <3>1. I \subseteq H
      BY <2>2
    <3>2. Cardinality(I) <= Cardinality(H) /\ Cardinality(E) <= Cardinality(D) + 1
      BY <2>2, <3>1, CardBounds
    <3> QED BY <1>1, <3>2
  <2> QED BY <2>1, <2>2
<1> HIDE DEF H, I, Q
<1>4. LoadOf(D, O, S, A) = Cardinality(D) + Cardinality(O) + Cardinality(H)
      /\ LoadOf(E, O \ {p}, S, B) = Cardinality(E) + Cardinality(Q) + Cardinality(I)
  BY DEF LoadOf, H, I, Q
<1> QED BY <1>1, <1>2, <1>3, <1>4

\* A pending deletion of p is handled: p is charged on its own from now on, or
\* not at all when it is not counted.
LEMMA LoadHandled ==
    ASSUME NEW D \in SUBSET Peers, NEW O \in SUBSET Peers,
           NEW S \in SUBSET Peers, NEW A \in SUBSET Peers,
           NEW p \in D, NEW B \in SUBSET Peers, B \subseteq A
    PROVE  LoadOf(D \ {p}, O, S \ {p}, B) <= LoadOf(D, O, S, A) - (IF p \in B THEN 0 ELSE 1)
<1> DEFINE E == D \ {p}
           H == A \ (S \cup D \cup O)
           I == B \ ((S \ {p}) \cup E \cup O)
<1>1. Cardinality(D) \in Nat /\ Cardinality(O) \in Nat /\ Cardinality(H) \in Nat
      /\ Cardinality(I) \in Nat /\ Cardinality(E) \in Nat
  BY CardBounds
<1>2. Cardinality(E) <= Cardinality(D) - 1
  BY CardBounds
<1>3. Cardinality(I) <= Cardinality(H) + (IF p \in B THEN 1 ELSE 0)
  <2>1. CASE p \in B
    <3>1. I \subseteq H \cup {p}
      OBVIOUS
    <3> QED BY <2>1, <3>1, <1>1, CardBounds
  <2>2. CASE p \notin B
    <3>1. I \subseteq H
      BY <2>2
    <3> QED BY <2>2, <3>1, <1>1, CardBounds
  <2> QED BY <2>1, <2>2
<1> HIDE DEF H, I, E
<1>4. LoadOf(D, O, S, A) = Cardinality(D) + Cardinality(O) + Cardinality(H)
      /\ LoadOf(D \ {p}, O, S \ {p}, B) = Cardinality(E) + Cardinality(O) + Cardinality(I)
  BY DEF LoadOf, H, I, E
<1> QED BY <1>1, <1>2, <1>3, <1>4

-----------------------------------------------------------------------------
(* The queue of events. *)

\* Queuing a deleted event that is not there yet, or a child event, leaves
\* every deleted event alone in the queue.
LEMMA QueueEvent ==
    ASSUME NEW q \in Seq(EventOf(Peers)), OnlyOnce(q),
           NEW e \in EventOf(Peers), e.type = "deleted" => e \notin Range(q)
    PROVE  /\ q \o <<e>> \in Seq(EventOf(Peers)) /\ OnlyOnce(q \o <<e>>)
           /\ Range(q \o <<e>>) = Range(q) \cup {e}
<1> DEFINE s == <<e>>
           r == q \o s
<1>1. s \in Seq(EventOf(Peers)) /\ Len(s) = 1 /\ s[1] = e /\ DOMAIN s = {1}
  OBVIOUS
<1>2. Range(s) = {e}
  BY <1>1 DEF Range
<1> HIDE DEF s
<1>3. /\ r \in Seq(EventOf(Peers)) /\ Len(r) = Len(q) + 1
      /\ \A i \in 1 .. Len(q) + 1 : r[i] = IF i <= Len(q) THEN q[i] ELSE s[i - Len(q)]
  BY <1>1, ConcatProperties
<1>4. Range(r) = Range(q) \cup Range(s)
  BY <1>1, RangeConcatenation
<1>5. Len(q) \in Nat /\ DOMAIN q = 1 .. Len(q)
  BY LenProperties
<1>6. \A i \in 1 .. Len(q) : r[i] = q[i] /\ q[i] \in Range(q)
  BY <1>3, <1>5 DEF Range
<1>7. r[Len(q) + 1] = e
  BY <1>1, <1>3, <1>5
<1> HIDE DEF r
<1>8. ASSUME NEW i \in 1 .. Len(r), NEW j \in 1 .. Len(r), r[i].type = "deleted", r[i] = r[j]
      PROVE  i = j
  <2>1. CASE i \in 1 .. Len(q) /\ j \in 1 .. Len(q)
    BY <1>6, <1>8, <2>1 DEF OnlyOnce
  <2>2. CASE i = Len(q) + 1 /\ j \in 1 .. Len(q)
    BY <1>6, <1>7, <1>8, <2>2
  <2>3. CASE j = Len(q) + 1 /\ i \in 1 .. Len(q)
    BY <1>6, <1>7, <1>8, <2>3
  <2>4. CASE i = Len(q) + 1 /\ j = Len(q) + 1
    BY <2>4
  <2> QED BY <1>3, <1>5, <2>1, <2>2, <2>3, <2>4
<1>9. OnlyOnce(r)
  BY <1>8 DEF OnlyOnce
<1> QED BY <1>2, <1>3, <1>4, <1>9 DEF r, s

\* Taking the oldest event leaves the others; if it was a deleted event, none
\* for that peer is left.
LEMMA TakeEvent ==
    ASSUME NEW q \in Seq(EventOf(Peers)), OnlyOnce(q), q # <<>>
    PROVE  /\ OnlyOnce(Tail(q)) /\ Range(q) = {Head(q)} \cup Range(Tail(q))
           /\ Head(q).type = "deleted" => Head(q) \notin Range(Tail(q))
<1>1. Len(q) \in Nat \ {0} /\ Head(q) = q[1]
  BY EmptySeq, LenProperties, HeadTailProperties
<1>2. /\ Tail(q) \in Seq(EventOf(Peers)) /\ Len(Tail(q)) = Len(q) - 1
      /\ \A i \in 1 .. Len(Tail(q)) : Tail(q)[i] = q[i + 1]
  BY HeadTailProperties
<1>3. DOMAIN Tail(q) = 1 .. Len(q) - 1
  BY <1>2, LenProperties
<1>4. ASSUME NEW i \in 1 .. Len(q) - 1, NEW j \in 1 .. Len(q) - 1,
             Tail(q)[i].type = "deleted", Tail(q)[i] = Tail(q)[j]
      PROVE  i = j
  <2>1. i + 1 \in 1 .. Len(q) /\ j + 1 \in 1 .. Len(q)
    BY <1>1
  <2>2. q[i + 1].type = "deleted" /\ q[i + 1] = q[j + 1]
    BY <1>2, <1>4
  <2>3. i + 1 = j + 1
    BY <2>1, <2>2 DEF OnlyOnce
  <2> QED BY <2>3
<1>5. OnlyOnce(Tail(q))
  BY <1>2, <1>4 DEF OnlyOnce
<1>6. ASSUME Head(q).type = "deleted", Head(q) \in Range(Tail(q)) PROVE FALSE
  <2>1. PICK i \in 1 .. Len(q) - 1 : Tail(q)[i] = Head(q)
    BY <1>3, <1>6 DEF Range
  <2>2. i + 1 \in 1 .. Len(q) /\ 1 \in 1 .. Len(q) /\ q[i + 1] = q[1] /\ i + 1 # 1
    BY <1>1, <1>2, <2>1
  <2> QED BY <1>1, <1>6, <2>2 DEF OnlyOnce
<1> QED BY <1>5, <1>6, TailProperties

\* The node of p goes: its watch, if there is one, becomes its only deleted
\* event, and the child watch a child event.
LEMMA NodeDeletedEvents ==
    ASSUME ZkTypeOK, OnlyOnce(events), NEW p \in Peers, NodeDeleted(p),
           p \in exists_watch => p \notin Deleted
    PROVE  /\ OnlyOnce(events)'
           /\ Deleted' = IF p \in exists_watch THEN Deleted \cup {p} ELSE Deleted
           /\ (ChildEvent \in Range(events))' => ChildEvent \in Range(events) \/ child_watch
<1> DEFINE d == IF p \in exists_watch THEN <<DeletedEvent(p)>> ELSE <<>>
           k == IF child_watch THEN <<ChildEvent>> ELSE <<>>
           mid == events \o d
<1>0. /\ DeletedEvent(p) \in EventOf(Peers) /\ ChildEvent \in EventOf(Peers)
      /\ DeletedEvent(p).type = "deleted" /\ ChildEvent.type # "deleted"
      /\ \A r \in Peers : DeletedEvent(r) # ChildEvent
      /\ \A r, t \in Peers : DeletedEvent(r) = DeletedEvent(t) => r = t
  BY DEF DeletedEvent, ChildEvent, EventOf
<1>1. events \in Seq(EventOf(Peers)) /\ events' = mid \o k
  BY DEF ZkTypeOK, NodeDeleted
<1>2. /\ mid \in Seq(EventOf(Peers)) /\ OnlyOnce(mid)
      /\ Range(mid) = Range(events) \cup (IF p \in exists_watch THEN {DeletedEvent(p)} ELSE {})
  <2>1. CASE p \in exists_watch
    <3>1. mid = events \o <<DeletedEvent(p)>> /\ DeletedEvent(p) \notin Range(events)
      BY <2>1 DEF Deleted
    <3> QED BY <1>0, <1>1, <2>1, <3>1, QueueEvent
  <2>2. CASE p \notin exists_watch
    BY <1>1, <2>2, ConcatEmptySeq
  <2> QED BY <2>1, <2>2
<1> HIDE DEF mid
<1>3. /\ OnlyOnce(mid \o k)
      /\ Range(mid \o k) = Range(mid) \cup (IF child_watch THEN {ChildEvent} ELSE {})
  <2>1. CASE child_watch
    BY <1>0, <1>2, <2>1, QueueEvent
  <2>2. CASE ~child_watch
    BY <1>2, <2>2, ConcatEmptySeq
  <2> QED BY <2>1, <2>2
<1> HIDE DEF k, d
<1> QED BY <1>0, <1>1, <1>2, <1>3 DEF Deleted

\* A server that registers queues a child event at most.
LEMMA NodeCreatedEvents ==
    ASSUME ZkTypeOK, OnlyOnce(events), NEW p \in Peers, NodeCreated(p)
    PROVE  /\ OnlyOnce(events)' /\ Deleted' = Deleted
           /\ (ChildEvent \in Range(events))' => ChildEvent \in Range(events) \/ child_watch
<1>1. CASE p \in servers
  BY <1>1 DEF NodeCreated, zkVars, Deleted
<1>2. CASE p \notin servers
  <2> DEFINE k == IF child_watch THEN <<ChildEvent>> ELSE <<>>
  <2>0. /\ ChildEvent \in EventOf(Peers) /\ ChildEvent.type # "deleted"
        /\ \A r \in Peers : DeletedEvent(r) # ChildEvent
    BY DEF DeletedEvent, ChildEvent, EventOf
  <2>1. events \in Seq(EventOf(Peers)) /\ events' = events \o k
    BY <1>2 DEF ZkTypeOK, NodeCreated
  <2>2. /\ OnlyOnce(events \o k)
        /\ Range(events \o k) = Range(events) \cup (IF child_watch THEN {ChildEvent} ELSE {})
    <3>1. CASE child_watch
      BY <2>0, <2>1, <3>1, QueueEvent
    <3>2. CASE ~child_watch
      BY <2>1, <3>2, ConcatEmptySeq
    <3> QED BY <3>1, <3>2
  <2> HIDE DEF k
  <2> QED BY <2>0, <2>1, <2>2 DEF Deleted
<1> QED BY <1>1, <1>2

-----------------------------------------------------------------------------
(* Every step preserves the invariant. *)

\* Taking the deleted event of p marks p as handled and erases it.
LEMMA HandledFacts ==
    ASSUME IndInv, WatchInv, HandleDeleted
    PROVE  OnlyOnce(events)' /\
           \E p \in Deleted : /\ Deleted' = Deleted \ {p} /\ synced' = synced \ {p}
                              /\ peers' = peers \ {p} /\ p \in Peers
                              /\ op_queue' = [op_queue EXCEPT ![p] = <<>>]
<1>t. events \in Seq(EventOf(Peers)) /\ events # <<>> /\ Head(events).type = "deleted"
      /\ events' = Tail(events)
  BY DEF IndInv, TypeOK, ZkTypeOK, HandleDeleted
<1> DEFINE p == Head(events).path
<1>1. /\ Head(events) \in EventOf(Peers)
      /\ OnlyOnce(Tail(events)) /\ Range(events) = {Head(events)} \cup Range(Tail(events))
      /\ Head(events) \notin Range(Tail(events))
  BY <1>t, TakeEvent, TailProperties DEF WatchInv
<1>2. p \in Peers /\ Head(events) = DeletedEvent(p)
  BY <1>1, <1>t DEF EventOf, DeletedEvent, ChildEvent
<1>3. Deleted' = Deleted \ {p} /\ p \in Deleted
  BY <1>1, <1>2, <1>t DEF Deleted, DeletedEvent
<1>4. p \in peers
  BY <1>3 DEF WatchInv
<1>5. /\ peers' = peers \ {p} /\ synced' = synced \ {p}
      /\ op_queue' = [op_queue EXCEPT ![p] = <<>>]
  BY <1>4 DEF HandleDeleted
<1> QED BY <1>t, <1>1, <1>2, <1>3, <1>5 DEF OnlyOnce

\* Watches, events and tokens belong to peers.
LEMMA WatchStep == IndInv /\ WatchInv /\ [Next]_vars => WatchInv'
<1> SUFFICES ASSUME IndInv, WatchInv, [Next]_vars PROVE WatchInv'
  OBVIOUS
<1> USE ConstantsAssumption
<1>t. /\ events \in Seq(EventOf(Peers)) /\ op_queue \in [Peers -> Seq(Writes)]
      /\ ZkTypeOK /\ exists_watch \in SUBSET Peers /\ peers \in SUBSET Peers
  BY DEF IndInv, TypeOK, ZkTypeOK, ClientTypeOK
<1>1. ASSUME UNCHANGED <<in_use, exists_watch, peers, events, op_queue>>,
             cpc' = "exists" => cpc = "exists" /\ new_peer' = new_peer
      PROVE  WatchInv'
  <2>1. Deleted' = Deleted
    BY <1>1 DEF Deleted
  <2> QED BY <1>1, <2>1 DEF WatchInv, OnlyOnce
<1>2. CASE Writer
  <2>1. CASE \E p \in Peers : PostTo(p)
    <3> PICK p \in Peers : PostTo(p)
      BY <2>1
    <3>1. /\ UNCHANGED <<in_use, exists_watch, peers, events, cpc, new_peer>>
          /\ p \in peers /\ op_queue' = [op_queue EXCEPT ![p] = Append(@, nwr)]
      BY DEF PostTo, zkVars, watcherVars
    <3>2. Deleted' = Deleted
      BY <3>1 DEF Deleted
    <3> QED BY <1>t, <3>1, <3>2 DEF WatchInv, OnlyOnce
  <2>2. CASE \E p \in Peers : PollPeer(p)
    <3> PICK p \in Peers : PollPeer(p)
      BY <2>2
    <3>1. /\ UNCHANGED <<in_use, exists_watch, peers, events, cpc, new_peer>>
          /\ p \in peers /\ op_queue' = [op_queue EXCEPT ![p] = Tail(@)]
      BY DEF PollPeer, zkVars, watcherVars
    <3>2. Deleted' = Deleted
      BY <3>1 DEF Deleted
    <3> QED BY <1>t, <3>1, <3>2 DEF WatchInv, OnlyOnce
  <2> QED BY <1>1, <1>2, <2>1, <2>2 DEF Writer, BeginWrite, CopyData, StampSeq, LockRecover,
       FinishPost, FinishWrite, clientVars, zkVars, watcherVars
<1>3. CASE Watcher
  <2>1. CASE HandleDeleted
    <3>1. PICK p \in Deleted : /\ Deleted' = Deleted \ {p} /\ peers' = peers \ {p}
                               /\ op_queue' = [op_queue EXCEPT ![p] = <<>>]
      BY <2>1, HandledFacts
    <3>2. OnlyOnce(events)'
      BY <2>1, HandledFacts
    <3>3. UNCHANGED <<in_use, exists_watch>> /\ cpc' # "exists"
      BY <2>1 DEF HandleDeleted
    <3> QED BY <1>t, <3>1, <3>2, <3>3 DEF WatchInv
  <2>2. CASE HandleChild
    <3>1. /\ events # <<>> /\ events' = Tail(events)
          /\ OnlyOnce(Tail(events)) /\ Range(Tail(events)) \subseteq Range(events)
          /\ UNCHANGED <<in_use, exists_watch, peers, op_queue>> /\ cpc' = "pick"
      BY <1>t, <2>2, TakeEvent DEF HandleChild, WatchInv, clientVars
    <3>2. Deleted' \subseteq Deleted
      BY <3>1 DEF Deleted
    <3> QED BY <3>1, <3>2 DEF WatchInv, OnlyOnce
  <2>3. CASE \E p \in Peers : AddPeer(p)
    <3> PICK p \in Peers : AddPeer(p)
      BY <2>3
    <3>1. /\ p \notin peers /\ peers' = peers \cup {p} /\ new_peer' = p
          /\ UNCHANGED <<in_use, exists_watch, events, op_queue>>
      BY DEF AddPeer, zkVars
    <3>2. Deleted' = Deleted
      BY <3>1 DEF Deleted
    <3> QED BY <3>1, <3>2 DEF WatchInv, OnlyOnce
  <2>4. CASE WatchPeer
    <3>1. /\ cpc = "exists" /\ cpc' # "exists"
          /\ exists_watch' \subseteq exists_watch \cup {new_peer}
          /\ UNCHANGED <<in_use, peers, events, op_queue>>
      BY <2>4 DEF WatchPeer, zoo_wexists, clientVars
    <3>2. Deleted' = Deleted
      BY <3>1 DEF Deleted
    <3>3. new_peer \in peers
      BY <3>1 DEF IndInv, PeersInv
    <3> QED BY <3>1, <3>2, <3>3 DEF WatchInv, OnlyOnce
  <2> QED BY <1>1, <1>3, <2>1, <2>2, <2>3, <2>4 DEF Watcher, NoNewPeer, PostRecover, RecoverDone,
       UpdateZKNode, FinishChild, SuspendWrites, WatchForPeerJoin, clientVars, zkVars
<1>4. CASE Environment
  <2> PICK p \in Peers : \/ NicStep(p) \/ PeerCrash(p) \/ ExpireDead(p)
                         \/ ExpireAlive(p) \/ ServerStart(p)
    BY <1>4 DEF Environment
  <2>1. CASE NicStep(p) \/ PeerCrash(p)
    BY <1>1, <2>1 DEF NicStep, PeerCrash, clientVars, zkVars, watcherVars
  <2>2. CASE ExpireDead(p) \/ ExpireAlive(p)
    <3>1. /\ NodeDeleted(p) /\ exists_watch' = exists_watch \ {p}
          /\ UNCHANGED <<in_use, peers, op_queue, cpc, new_peer>>
      BY <2>2 DEF ExpireDead, ExpireAlive, NodeDeleted, clientVars, watcherVars
    <3>2. /\ OnlyOnce(events)'
          /\ Deleted' = IF p \in exists_watch THEN Deleted \cup {p} ELSE Deleted
      BY <1>t, <3>1, NodeDeletedEvents DEF WatchInv
    <3> QED BY <3>1, <3>2 DEF WatchInv
  <2>3. CASE ServerStart(p)
    <3>1. /\ NodeCreated(p) /\ exists_watch' = exists_watch
          /\ UNCHANGED <<in_use, peers, op_queue, cpc, new_peer>>
      BY <2>3 DEF ServerStart, NodeCreated, zkVars, clientVars, watcherVars
    <3>2. OnlyOnce(events)' /\ Deleted' = Deleted
      BY <1>t, <3>1, NodeCreatedEvents DEF WatchInv
    <3> QED BY <3>1, <3>2 DEF WatchInv
  <2> QED BY <2>1, <2>2, <2>3
<1>5. CASE UNCHANGED vars
  BY <1>1, <1>5 DEF vars, clientVars, zkVars, watcherVars
<1> QED BY <1>2, <1>3, <1>4, <1>5 DEF Next

\* ZooKeeper expires a session: that of a dead server, whose failure has been
\* counted, or another, which is a failure.
LEMMA ExpireFacts ==
    ASSUME Failures \in Nat, crashes \in Nat, expiries \in Nat,
           NEW p \in Peers, ExpireDead(p) \/ ExpireAlive(p)
    PROVE  /\ orphans' = orphans \ {p} /\ synced' = synced /\ NodeDeleted(p)
           /\ UNCHANGED <<conn, clientVars, writerVars, watcherVars>>
           /\ Failures' = Failures + (IF p \in orphans THEN 0 ELSE 1)
<1>1. orphans' = orphans \ {p} /\ synced' = synced /\ NodeDeleted(p)
      /\ UNCHANGED <<conn, clientVars, writerVars, watcherVars>>
  BY DEF ExpireDead, ExpireAlive, NodeDeleted, historyVars, rdmaVars
<1>2. CASE ExpireDead(p)
  <2>1. p \in orphans /\ crashes' = crashes /\ expiries' = expiries
    BY <1>2 DEF ExpireDead, historyVars
  <2> QED BY <1>1, <2>1 DEF Failures
<1>3. CASE ExpireAlive(p)
  <2>1. p \notin orphans /\ crashes' = crashes /\ expiries' = expiries + 1
    BY <1>3 DEF ExpireAlive
  <2> QED BY <1>1, <2>1 DEF Failures
<1> QED BY <1>2, <1>3

\* Whatever happens, the load of a set of peers grows only with the number of
\* failures.
LEMMA LoadStep ==
    ASSUME IndInv, WatchInv, [Next]_vars,
           NEW A \in SUBSET Peers, NEW B \in SUBSET Peers, B \subseteq A
    PROVE  LoadOf(Deleted', orphans', synced', B) + Failures <= Load(A) + Failures'
<1> USE ConstantsAssumption
<1>t. /\ Deleted \in SUBSET Peers /\ orphans \in SUBSET Peers /\ synced \in SUBSET Peers
      /\ crashes \in Nat /\ expiries \in Nat /\ ZkTypeOK /\ Failures \in Nat
  BY DEF IndInv, TypeOK, ZkTypeOK, HistoryTypeOK, Deleted, Failures
<1>n. Load(A) \in Nat
  BY <1>t, LoadMonotone DEF Load
<1>1. ASSUME UNCHANGED <<events, orphans, crashes, expiries>>,
             synced' \in SUBSET Peers, synced \subseteq synced'
      PROVE  LoadOf(Deleted', orphans', synced', B) + Failures <= Load(A) + Failures'
  <2>1. Deleted' = Deleted /\ Failures' = Failures
    BY <1>1 DEF Deleted, Failures
  <2>2. LoadOf(Deleted, orphans, synced', B) <= Load(A)
        /\ LoadOf(Deleted, orphans, synced', B) \in Nat
    BY <1>t, <1>1, LoadMonotone DEF Load
  <2> QED BY <1>t, <1>n, <1>1, <2>1, <2>2
<1>2. CASE Writer
  BY <1>t, <1>1, <1>2 DEF Writer, BeginWrite, CopyData, StampSeq, LockRecover, PostTo,
     FinishPost, PollPeer, FinishWrite, zkVars, historyVars
<1>3. CASE Watcher
  <2>1. CASE HandleDeleted
    <3>1. PICK p \in Deleted : Deleted' = Deleted \ {p} /\ synced' = synced \ {p}
      BY <2>1, HandledFacts
    <3>2. orphans' = orphans /\ Failures' = Failures
      BY <2>1 DEF HandleDeleted, Failures
    <3>3. LoadOf(Deleted \ {p}, orphans, synced \ {p}, B)
            <= Load(A) - (IF p \in B THEN 0 ELSE 1)
      BY <1>t, LoadHandled DEF Load
    <3>4. LoadOf(Deleted \ {p}, orphans, synced \ {p}, B) \in Nat
      <4>1. Deleted \ {p} \in SUBSET Peers /\ synced \ {p} \in SUBSET Peers
        BY <1>t
      <4> QED BY <1>t, <4>1, LoadMonotone
    <3> QED BY <1>t, <1>n, <3>1, <3>2, <3>3, <3>4
  <2>2. CASE HandleChild
    <3>1. /\ events # <<>> /\ events' = Tail(events) /\ events \in Seq(EventOf(Peers))
          /\ Range(events) = {Head(events)} \cup Range(Tail(events))
          /\ Head(events).type = "child" /\ orphans' = orphans /\ synced' = synced
          /\ Failures' = Failures
      BY <1>t, <2>2, TailProperties DEF HandleChild, ZkTypeOK, historyVars, Failures
    <3>2. \A p \in Peers : DeletedEvent(p) # Head(events)
      BY <3>1 DEF DeletedEvent
    <3>3. Deleted' = Deleted
      BY <3>1, <3>2 DEF Deleted
    <3>4. LoadOf(Deleted, orphans, synced, B) <= Load(A)
          /\ LoadOf(Deleted, orphans, synced, B) \in Nat
      BY <1>t, LoadMonotone DEF Load
    <3> QED BY <1>t, <1>n, <3>1, <3>3, <3>4
  <2>3. CASE RecoverDone
    <3>1. synced' \in SUBSET Peers
      BY <1>t, <2>3 DEF RecoverDone, IndInv, TypeOK, RdmaTypeOK
    <3> QED BY <1>1, <2>3, <3>1 DEF RecoverDone, zkVars
  <2> QED BY <1>t, <1>1, <1>3, <2>1, <2>2, <2>3 DEF Watcher, AddPeer, NoNewPeer, WatchPeer,
       PostRecover, UpdateZKNode, FinishChild, SuspendWrites, WatchForPeerJoin, zkVars, historyVars
<1>4. CASE Environment
  <2> PICK p \in Peers : \/ NicStep(p) \/ PeerCrash(p) \/ ExpireDead(p)
                         \/ ExpireAlive(p) \/ ServerStart(p)
    BY <1>4 DEF Environment
  <2>1. CASE NicStep(p)
    BY <1>t, <1>1, <2>1 DEF NicStep, zkVars, historyVars
  <2>2. CASE PeerCrash(p)
    <3>1. /\ orphans' = orphans \/ orphans' = orphans \cup {p}
          /\ synced' = synced \ {p} /\ events' = events /\ Failures' = Failures + 1
      BY <1>t, <2>2 DEF PeerCrash, Failures
    <3>2. Deleted' = Deleted
      BY <3>1 DEF Deleted
    <3>3. LoadOf(Deleted, orphans', synced \ {p}, B) <= Load(A) + 1
      BY <1>t, <3>1, LoadCrash DEF Load
    <3>4. LoadOf(Deleted, orphans', synced \ {p}, B) \in Nat
      <4>1. orphans' \in SUBSET Peers /\ synced \ {p} \in SUBSET Peers
        BY <1>t, <3>1
      <4> QED BY <1>t, <4>1, LoadMonotone
    <3> QED BY <1>t, <1>n, <3>1, <3>2, <3>3, <3>4
  <2>3. CASE ExpireDead(p) \/ ExpireAlive(p)
    <3>1. /\ orphans' = orphans \ {p} /\ synced' = synced /\ NodeDeleted(p)
          /\ Failures' = Failures + (IF p \in orphans THEN 0 ELSE 1)
      BY <1>t, <2>3, ExpireFacts
    <3>2. Deleted' = Deleted \/ Deleted' = Deleted \cup {p}
      BY <1>t, <3>1, NodeDeletedEvents DEF WatchInv
    <3>3. LoadOf(Deleted', orphans \ {p}, synced, B)
            <= Load(A) + (IF p \in orphans THEN 0 ELSE 1)
      BY <1>t, <3>2, LoadExpire DEF Load
    <3>4. LoadOf(Deleted', orphans \ {p}, synced, B) \in Nat
      <4>1. Deleted' \in SUBSET Peers /\ orphans \ {p} \in SUBSET Peers
        BY <1>t, <3>2
      <4> QED BY <1>t, <4>1, LoadMonotone
    <3> QED BY <1>t, <1>n, <3>1, <3>3, <3>4
  <2>4. CASE ServerStart(p)
    <3>1. /\ orphans' = orphans /\ synced' = synced /\ NodeCreated(p) /\ Failures' = Failures
      BY <2>4 DEF ServerStart, NodeCreated, zkVars, Failures
    <3>2. Deleted' = Deleted
      BY <1>t, <3>1, NodeCreatedEvents DEF WatchInv
    <3>3. LoadOf(Deleted, orphans, synced, B) <= Load(A)
          /\ LoadOf(Deleted, orphans, synced, B) \in Nat
      BY <1>t, LoadMonotone DEF Load
    <3> QED BY <1>t, <1>n, <3>1, <3>2, <3>3
  <2> QED BY <2>1, <2>2, <2>3, <2>4
<1>5. CASE UNCHANGED vars
  BY <1>t, <1>1, <1>5 DEF vars, zkVars, historyVars
<1> QED BY <1>2, <1>3, <1>4, <1>5 DEF Next

\* What a step leads to is well typed.
LEMMA NextTypes ==
    ASSUME IndInv, [Next]_vars
    PROVE  /\ Deleted' \in SUBSET Peers /\ orphans' \in SUBSET Peers
           /\ synced' \in SUBSET Peers /\ Failures' \in Nat
           /\ flagged' \in SUBSET Peers /\ peers' \in SUBSET Peers
<1>1. TypeOK'
  BY TypeStep DEF IndInv
<1>2. Deleted' \in SUBSET Peers
  BY DEF Deleted
<1>3. crashes' \in Nat /\ expiries' \in Nat
  BY <1>1 DEF TypeOK, HistoryTypeOK
<1>4. Failures' = crashes' + expiries'
  BY DEF Failures
<1>5. \A x, y \in Nat : x + y \in Nat
  OBVIOUS
<1>6. Failures' \in Nat
  BY <1>3, <1>4, <1>5, Zenon
<1> QED BY <1>1, <1>2, <1>6 DEF TypeOK, ZkTypeOK, HistoryTypeOK, WriterTypeOK, ClientTypeOK

\* Only FinishWrite counts peers, and those are candidates.
LEMMA AckLoadStep == IndInv /\ DurableInv /\ [Next]_vars => AckLoadInv'
<1> SUFFICES ASSUME IndInv, DurableInv, [Next]_vars, NEW w \in Writes
             PROVE  LoadOf(Deleted', orphans', synced', acks'[w]) <= Failures'
  BY DEF AckLoadInv, Load
<1>t. /\ Deleted \in SUBSET Peers /\ orphans \in SUBSET Peers /\ synced \in SUBSET Peers
      /\ acks \in [Writes -> SUBSET Peers] /\ flagged \in SUBSET Peers
      /\ peers \in SUBSET Peers /\ WatchInv
      /\ Failures \in Nat /\ nwr \in 0 .. MaxWrites /\ (wpc # "idle" => nwr > 0)
      /\ acks[w] \in SUBSET Peers
  BY DEF IndInv, TypeOK, ZkTypeOK, HistoryTypeOK, Deleted, Failures, WriterTypeOK,
     ClientTypeOK, DurableInv
<1>t2. /\ Deleted' \in SUBSET Peers /\ orphans' \in SUBSET Peers
       /\ synced' \in SUBSET Peers /\ Failures' \in Nat
  BY NextTypes
<1>0. ASSUME NEW A \in SUBSET Peers, Load(A) <= Failures, NEW B \in SUBSET Peers, B \subseteq A
      PROVE  LoadOf(Deleted', orphans', synced', B) <= Failures'
  <2>1. LoadOf(Deleted', orphans', synced', B) + Failures <= Load(A) + Failures'
    BY <1>t, <1>0, LoadStep
  <2>2. LoadOf(Deleted', orphans', synced', B) \in Nat /\ Load(A) \in Nat
    BY <1>t, <1>t2, LoadMonotone DEF Load
  <2> QED BY <1>t, <1>t2, <1>0, <2>1, <2>2
<1>1. ASSUME acks'[w] = acks[w] PROVE LoadOf(Deleted', orphans', synced', acks'[w]) <= Failures'
  BY <1>t, <1>0, <1>1 DEF DurableInv, AckLoadInv
<1>2. CASE FinishWrite
  <2>1. /\ wpc = "poll" /\ acks' = [acks EXCEPT ![nwr] = flagged]
        /\ flagged \subseteq Candidates /\ Candidates \in SUBSET Peers
    BY <1>t, <1>2 DEF FinishWrite, Candidates
  <2>2. Load(Candidates) <= Failures
    BY <2>1 DEF DurableInv, PollInv
  <2>3. CASE w = nwr
    <3>1. acks'[w] = flagged
      BY <1>t, <2>1, <2>3
    <3> QED BY <1>t, <1>0, <2>1, <2>2, <3>1
  <2>4. CASE w # nwr
    BY <1>t, <1>1, <2>1, <2>4
  <2> QED BY <2>3, <2>4
<1>3. CASE acks' = acks
  BY <1>1, <1>3
<1> QED BY <1>2, <1>3 DEF Next, Writer, Watcher, Environment, vars, writerVars,
     BeginWrite, CopyData, StampSeq, LockRecover, PostTo, FinishPost, PollPeer,
     HandleDeleted, HandleChild, AddPeer, NoNewPeer, WatchPeer, PostRecover, RecoverDone,
     UpdateZKNode, FinishChild, SuspendWrites, WatchForPeerJoin,
     NicStep, PeerCrash, ExpireDead, ExpireAlive, ServerStart

\* While a write polls it gains no candidate: a peer added now was not posted
\* to.  When polling begins all candidates are peers, and at most one of them
\* is being added.
LEMMA PollStep == IndInv /\ DurableInv /\ [Next]_vars => PollInv'
<1> SUFFICES ASSUME IndInv, DurableInv, [Next]_vars, wpc' = "poll"
             PROVE  LoadOf(Deleted', orphans', synced', Candidates') <= Failures'
  BY DEF PollInv, Load
<1>t. /\ Deleted \in SUBSET Peers /\ orphans \in SUBSET Peers /\ synced \in SUBSET Peers
      /\ flagged \in SUBSET Peers /\ peers \in SUBSET Peers /\ WatchInv
      /\ op_queue \in [Peers -> Seq(Writes)] /\ Failures \in Nat
  BY DEF IndInv, TypeOK, ZkTypeOK, HistoryTypeOK, Deleted, Failures, WriterTypeOK,
     ClientTypeOK, DurableInv
<1>t2. /\ Deleted' \in SUBSET Peers /\ orphans' \in SUBSET Peers
       /\ synced' \in SUBSET Peers /\ Failures' \in Nat
       /\ flagged' \in SUBSET Peers /\ peers' \in SUBSET Peers
  BY NextTypes
<1>c. Candidates \in SUBSET Peers /\ Candidates' \in SUBSET Peers
  BY <1>t, <1>t2 DEF Candidates
<1>1. CASE FinishPost
  <2>1. /\ wpc = "post" /\ UNCHANGED <<events, orphans, synced, crashes, expiries>>
        /\ flagged' = flagged /\ UNCHANGED <<peers, nwr, op_queue>>
    BY <1>1 DEF FinishPost, zkVars, historyVars, clientVars
  <2>2. Deleted' = Deleted /\ Failures' = Failures /\ Candidates' \subseteq peers
    <3>1. flagged = {}
      BY <2>1 DEF IndInv, AcksInv
    <3> QED BY <2>1, <3>1 DEF Deleted, Failures, Candidates
  <2>3. Load(Settled) + (IF Joining THEN 1 ELSE 0) <= Failures /\ Load(Settled) \in Nat
        /\ Settled \in SUBSET Peers
    BY <1>t, LoadMonotone DEF DurableInv, ChargeInv, Load, Settled
  <2>4. CASE new_peer \in Peers
    <3>1. Joining
      BY <2>4, ConstantsAssumption DEF Joining, IndInv, TypeOK, WatcherTypeOK
    <3>2. peers \subseteq Settled \cup {new_peer}
      BY DEF Fresh, Settled
    <3>3. Candidates' \ synced \subseteq (Settled \ synced) \cup {new_peer}
      BY <2>2, <3>2
    <3>4. LoadOf(Deleted, orphans, synced, Candidates') <= Load(Settled) + 1
          /\ LoadOf(Deleted, orphans, synced, Candidates') \in Nat
      BY <1>t, <1>c, <2>3, <2>4, <3>3, LoadMonotone DEF Load
    <3> QED BY <1>t, <2>1, <2>2, <2>3, <3>1, <3>4
  <2>5. CASE new_peer \notin Peers
    <3>1. peers \subseteq Settled
      BY <1>t, <2>5 DEF Fresh, Settled
    <3>2. Candidates' \ synced \subseteq Settled \ synced
      BY <2>2, <3>1
    <3>3. LoadOf(Deleted, orphans, synced, Candidates') <= Load(Settled)
          /\ LoadOf(Deleted, orphans, synced, Candidates') \in Nat
      BY <1>t, <1>c, <2>3, <3>2, LoadMonotone DEF Load
    <3> QED BY <1>t, <2>1, <2>2, <2>3, <3>3
  <2> QED BY <2>4, <2>5
<1>2. ASSUME wpc = "poll", Candidates' \subseteq Candidates
      PROVE  LoadOf(Deleted', orphans', synced', Candidates') <= Failures'
  <2>1. LoadOf(Deleted', orphans', synced', Candidates') + Failures <= Load(Candidates) + Failures'
    BY <1>t, <1>c, <1>2, LoadStep
  <2>2. LoadOf(Deleted', orphans', synced', Candidates') \in Nat /\ Load(Candidates) \in Nat
    BY <1>t, <1>t2, <1>c, LoadMonotone DEF Load
  <2>3. Load(Candidates) <= Failures
    BY <1>2 DEF DurableInv, PollInv
  <2> QED BY <1>t, <1>t2, <2>1, <2>2, <2>3
<1>3. ASSUME wpc = "poll", UNCHANGED <<flagged, peers, nwr, op_queue>>
      PROVE  LoadOf(Deleted', orphans', synced', Candidates') <= Failures'
  <2>1. Candidates' = Candidates
    BY <1>3 DEF Candidates
  <2> QED BY <1>2, <1>3, <2>1
<1>4. CASE Writer
  <2>1. CASE \E p \in Peers : PollPeer(p)
    <3> PICK p \in Peers : PollPeer(p)
      BY <2>1
    <3>1. /\ wpc = "poll" /\ p \in peers /\ peers' = peers /\ nwr' = nwr /\ op_queue[p] # <<>>
          /\ op_queue' = [op_queue EXCEPT ![p] = Tail(@)]
          /\ flagged' = IF Head(op_queue[p]) = nwr THEN flagged \cup {p} ELSE flagged
      BY DEF PollPeer
    <3>2. Head(op_queue[p]) \in Range(op_queue[p])
          /\ Range(Tail(op_queue[p])) \subseteq Range(op_queue[p])
      <4>1. op_queue[p] \in Seq(Writes)
        BY <1>t
      <4> QED BY <3>1, <4>1, TailProperties
    <3>3. Candidates' \subseteq Candidates
      BY <1>t, <3>1, <3>2 DEF Candidates
    <3> QED BY <1>2, <3>1, <3>3
  <2> QED BY <1>1, <1>4, <2>1 DEF Writer, BeginWrite, CopyData, StampSeq, LockRecover, PostTo,
       FinishWrite
<1>5. CASE Watcher
  <2>0. wpc = "poll" /\ flagged' = flagged /\ nwr' = nwr
    BY <1>5 DEF Watcher, HandleDeleted, HandleChild, AddPeer, NoNewPeer, WatchPeer,
       PostRecover, RecoverDone, UpdateZKNode, FinishChild, SuspendWrites, WatchForPeerJoin,
       writerVars
  <2>1. CASE HandleDeleted
    <3>1. PICK p \in Deleted : p \in Peers /\ peers' = peers \ {p}
                               /\ op_queue' = [op_queue EXCEPT ![p] = <<>>]
      BY <1>t, <2>1, HandledFacts
    <3>2. Candidates' \subseteq Candidates
      BY <1>t, <2>0, <3>1 DEF Candidates
    <3> QED BY <1>2, <2>0, <3>2
  <2>2. CASE \E p \in Peers : AddPeer(p)
    <3> PICK p \in Peers : AddPeer(p)
      BY <2>2
    <3>1. p \notin peers /\ peers' = peers \cup {p} /\ op_queue' = op_queue
      BY DEF AddPeer
    <3>2. op_queue[p] = <<>> /\ Range(<<>>) = {}
      BY <1>t, <3>1 DEF WatchInv, Range
    <3>3. nwr \notin Range(op_queue[p])
      BY <3>2
    <3>4. Candidates' \subseteq Candidates
      BY <2>0, <3>1, <3>3 DEF Candidates
    <3> QED BY <1>2, <2>0, <3>4
  <2> QED BY <1>3, <1>5, <2>0, <2>1, <2>2 DEF Watcher, HandleChild, NoNewPeer, WatchPeer,
       PostRecover, RecoverDone, UpdateZKNode, FinishChild, SuspendWrites, WatchForPeerJoin,
       clientVars
<1>6. CASE Environment
  BY <1>3, <1>6 DEF Environment, NicStep, PeerCrash, ExpireDead, ExpireAlive, ServerStart,
     clientVars, writerVars
<1>7. CASE UNCHANGED vars
  BY <1>3, <1>7 DEF vars, clientVars, writerVars
<1> QED BY <1>4, <1>5, <1>6, <1>7 DEF Next

\* Every peer that is not recovered is charged to a failure, and one failure is
\* left for the replacement while one is looked for or may be.
LEMMA ChargeStep == IndInv /\ DurableInv /\ [Next]_vars => ChargeInv'
<1> SUFFICES ASSUME IndInv, DurableInv, [Next]_vars
             PROVE  LoadOf(Deleted', orphans', synced', Settled')
                      + (IF Joining' THEN 1 ELSE 0) <= Failures'
  BY DEF ChargeInv, Load
<1> USE ConstantsAssumption
<1>t. /\ Deleted \in SUBSET Peers /\ orphans \in SUBSET Peers /\ synced \in SUBSET Peers
      /\ Settled \in SUBSET Peers /\ peers \in SUBSET Peers /\ WatchInv /\ ZkTypeOK
      /\ crashes \in Nat /\ expiries \in Nat /\ Failures \in Nat /\ NoPeer \notin Peers
      /\ events \in Seq(EventOf(Peers))
  BY DEF IndInv, TypeOK, ZkTypeOK, HistoryTypeOK, Deleted, Failures, Settled,
     ClientTypeOK, DurableInv
<1>p. cpc \notin {"exists", "recover", "rwait"} => new_peer = NoPeer /\ Settled = peers
  BY <1>t DEF IndInv, TypeOK, WatcherTypeOK, Settled, Fresh
<1>t2. /\ Deleted' \in SUBSET Peers /\ orphans' \in SUBSET Peers
       /\ synced' \in SUBSET Peers /\ Failures' \in Nat /\ peers' \in SUBSET Peers
  BY NextTypes
<1>t3. Settled' \in SUBSET Peers /\ Settled' \subseteq peers'
  BY <1>t2 DEF Settled
<1>n. /\ Load(Settled) \in Nat /\ LoadOf(Deleted', orphans', synced', Settled') \in Nat
      /\ Load(Settled) + (IF Joining THEN 1 ELSE 0) <= Failures
  BY <1>t, <1>t2, <1>t3, LoadMonotone DEF Load, DurableInv, ChargeInv
<1>0. ASSUME LoadOf(Deleted', orphans', synced', Settled') + Failures
               <= Load(Settled) + Failures',
             Joining' => Joining
      PROVE  LoadOf(Deleted', orphans', synced', Settled')
               + (IF Joining' THEN 1 ELSE 0) <= Failures'
  BY <1>t, <1>t2, <1>n, <1>0
<1>1. ASSUME Settled' \subseteq Settled, Joining' => Joining
      PROVE  LoadOf(Deleted', orphans', synced', Settled')
               + (IF Joining' THEN 1 ELSE 0) <= Failures'
  BY <1>t, <1>t3, <1>0, <1>1, LoadStep
<1>2. ASSUME UNCHANGED <<peers, new_peer, conn, cpc, servers, child_watch, events>>
      PROVE  LoadOf(Deleted', orphans', synced', Settled')
               + (IF Joining' THEN 1 ELSE 0) <= Failures'
  <2>1. Settled' = Settled /\ (Joining' <=> Joining)
    BY <1>2 DEF Settled, Fresh, Joining
  <2> QED BY <1>1, <2>1
<1>3. CASE Writer
  BY <1>2, <1>3 DEF Writer, BeginWrite, CopyData, StampSeq, LockRecover, PostTo, FinishPost,
     PollPeer, FinishWrite, rdmaVars, zkVars, clientVars, watcherVars
<1>4. CASE Watcher
  <2>1. CASE HandleDeleted
    <3>1. PICK p \in Deleted : /\ p \in Peers /\ Deleted' = Deleted \ {p}
                               /\ synced' = synced \ {p} /\ peers' = peers \ {p}
      BY <1>t, <2>1, HandledFacts
    <3>2. cpc = "idle" /\ orphans' = orphans /\ Failures' = Failures
      BY <2>1 DEF HandleDeleted, Failures
    <3>3. Settled' \subseteq Settled /\ p \notin Settled'
      BY <1>p, <1>t3, <3>1, <3>2
    <3>4. LoadOf(Deleted \ {p}, orphans, synced \ {p}, Settled')
            <= LoadOf(Deleted, orphans, synced, Settled) - 1
      BY <1>t, <1>t3, <3>3, LoadHandled
    <3>5. LoadOf(Deleted', orphans', synced', Settled') <= Load(Settled) - 1
      BY <3>1, <3>2, <3>4 DEF Load
    <3> QED BY <1>t, <1>n, <3>2, <3>5
  <2>2. CASE HandleChild
    <3>1. cpc = "idle" /\ peers' = peers /\ events # <<>> /\ Head(events).type = "child"
      BY <2>2 DEF HandleChild, clientVars
    <3>2. Head(events) \in EventOf(Peers) /\ Head(events) \in Range(events)
      BY <1>t, <3>1, TailProperties
    <3>3. Joining
      BY <3>1, <3>2 DEF EventOf, ChildEvent, Joining
    <3> QED BY <1>1, <1>p, <1>t3, <3>1, <3>3
  <2>3. CASE \E p \in Peers : AddPeer(p)
    <3> PICK p \in Peers : AddPeer(p)
      BY <2>3
    <3>1. /\ cpc = "pick" /\ p \in servers /\ peers' = peers \cup {p}
          /\ conn' = conn \cup {p} /\ new_peer' = p /\ servers' = servers
      BY DEF AddPeer, zkVars
    <3>2. Fresh(p)'
      BY <3>1 DEF Fresh
    <3>3. Settled' \subseteq Settled
      BY <1>p, <3>1, <3>2 DEF Settled
    <3> QED BY <1>1, <3>1, <3>3 DEF Joining
  <2>4. CASE WatchPeer
    <3>1. cpc = "exists" /\ UNCHANGED <<peers, conn, servers>>
      BY <2>4 DEF WatchPeer, rdmaVars, clientVars
    <3>2. CASE new_peer \in servers
      <4>1. cpc' = "recover" /\ new_peer' = new_peer
        BY <1>t, <2>4, <3>2 DEF WatchPeer, WatchInv
      <4>2. Settled' \subseteq Settled
        BY <3>1, <4>1 DEF Settled, Fresh
      <4> QED BY <1>1, <3>1, <4>2 DEF Joining
    <3>3. CASE new_peer \notin servers
      <4>1. Settled = peers
        BY <3>1, <3>3 DEF Settled, Fresh
      <4> QED BY <1>1, <1>t3, <3>1, <4>1 DEF Joining
    <3> QED BY <3>2, <3>3
  <2>5. CASE PostRecover
    <3>1. cpc = "recover" /\ cpc' = "rwait" /\ UNCHANGED <<peers, conn, servers, new_peer>>
      BY <2>5 DEF PostRecover, zkVars, clientVars
    <3>2. Settled' = Settled
      BY <3>1 DEF Settled, Fresh
    <3> QED BY <1>1, <3>1, <3>2 DEF Joining
  <2>6. CASE RecoverDone
    <3>1. /\ cpc = "rwait" /\ peers' = peers /\ synced' = synced \cup ({new_peer} \cap conn)
          /\ UNCHANGED <<events, orphans, crashes, expiries>>
      BY <2>6 DEF RecoverDone, zkVars, clientVars
    <3>2. Settled' \ synced' \subseteq Settled \ synced
      BY <1>t3, <3>1 DEF Settled, Fresh
    <3>3. Deleted' = Deleted /\ Failures' = Failures /\ orphans' = orphans
      BY <3>1 DEF Deleted, Failures
    <3>4. LoadOf(Deleted, orphans, synced', Settled') <= LoadOf(Deleted, orphans, synced, Settled)
      BY <1>t, <1>t2, <1>t3, <3>2, LoadMonotone
    <3>5. LoadOf(Deleted', orphans', synced', Settled') <= Load(Settled)
      BY <3>3, <3>4 DEF Load
    <3>6. Joining
      BY <3>1 DEF Joining
    <3> QED BY <1>t, <1>t2, <1>n, <1>0, <3>3, <3>5, <3>6
  <2>7. CASE NoNewPeer \/ UpdateZKNode \/ FinishChild \/ SuspendWrites \/ WatchForPeerJoin
    <3>1. cpc \in {"pick", "update", "joined", "failed", "watch"} /\ peers' = peers
      BY <2>7 DEF NoNewPeer, UpdateZKNode, FinishChild, SuspendWrites, WatchForPeerJoin, clientVars
    <3>2. Settled' \subseteq Settled /\ Joining
      BY <1>p, <1>t3, <3>1 DEF Joining
    <3> QED BY <1>1, <3>2
  <2> QED BY <1>4, <2>1, <2>2, <2>3, <2>4, <2>5, <2>6, <2>7 DEF Watcher
<1>5. CASE Environment
  <2> PICK p \in Peers : \/ NicStep(p) \/ PeerCrash(p) \/ ExpireDead(p)
                         \/ ExpireAlive(p) \/ ServerStart(p)
    BY <1>5 DEF Environment
  <2>1. CASE NicStep(p)
    BY <1>2, <2>1 DEF NicStep, NicPlace, NicComplete, zkVars, clientVars, watcherVars
  <2>2. CASE PeerCrash(p)
    <3>1. /\ orphans' = orphans \/ orphans' = orphans \cup {p}
          /\ synced' = synced \ {p} /\ Failures' = Failures + 1 /\ conn' = conn \ {p}
          /\ UNCHANGED <<events, peers, cpc, new_peer, servers, child_watch>>
      BY <1>t, <2>2 DEF PeerCrash, ServerDown, Failures, clientVars, watcherVars
    <3>2. Deleted' = Deleted /\ (Joining' => Joining)
      BY <3>1 DEF Deleted, Joining
    <3>3. Settled' \subseteq Settled \cup {p}
      BY <3>1 DEF Settled, Fresh
    <3>4. LoadOf(Deleted, orphans', synced \ {p}, Settled')
            <= LoadOf(Deleted, orphans, synced, Settled) + 1
      BY <1>t, <1>t3, <3>1, <3>3, LoadCrash
    <3>5. LoadOf(Deleted', orphans', synced', Settled') <= Load(Settled) + 1
      BY <3>1, <3>2, <3>4 DEF Load
    <3> QED BY <1>t, <1>t2, <1>n, <1>0, <3>1, <3>2, <3>5
  <2>3. CASE ExpireDead(p) \/ ExpireAlive(p)
    <3>1. /\ orphans' = orphans \ {p} /\ synced' = synced /\ NodeDeleted(p)
          /\ Failures' = Failures + (IF p \in orphans THEN 0 ELSE 1)
          /\ UNCHANGED <<conn, clientVars, watcherVars>>
      BY <1>t, <2>3, ExpireFacts
    <3>2. /\ Deleted' = Deleted \/ Deleted' = Deleted \cup {p}
          /\ (ChildEvent \in Range(events))' => ChildEvent \in Range(events) \/ child_watch
      BY <1>t, <3>1, NodeDeletedEvents DEF WatchInv
    <3>3. /\ UNCHANGED <<conn, peers, cpc, new_peer>>
          /\ servers' = servers \ {p} /\ child_watch' = FALSE
      BY <3>1 DEF NodeDeleted, clientVars, watcherVars
    <3>4. Joining' => Joining
      BY <3>2, <3>3 DEF Joining
    <3>5. Settled' \subseteq Settled \cup {p}
      BY <3>3 DEF Settled, Fresh
    <3>6. LoadOf(Deleted', orphans \ {p}, synced, Settled')
            <= LoadOf(Deleted, orphans, synced, Settled) + (IF p \in orphans THEN 0 ELSE 1)
      BY <1>t, <1>t3, <3>2, <3>5, LoadExpire
    <3>7. LoadOf(Deleted', orphans', synced', Settled')
            <= Load(Settled) + (IF p \in orphans THEN 0 ELSE 1)
      BY <3>1, <3>6 DEF Load
    <3> QED BY <1>t, <1>t2, <1>n, <1>0, <3>1, <3>4, <3>7
  <2>4. CASE ServerStart(p)
    <3>1. NodeCreated(p) /\ UNCHANGED <<conn, peers, cpc, new_peer>>
      BY <2>4 DEF ServerStart, clientVars, watcherVars
    <3>2. servers \subseteq servers' /\ (child_watch' => child_watch)
      BY <3>1 DEF NodeCreated, zkVars
    <3>3. Settled' \subseteq Settled
      BY <3>1, <3>2 DEF Settled, Fresh
    <3>4. (ChildEvent \in Range(events))' => ChildEvent \in Range(events) \/ child_watch
      BY <1>t, <3>1, NodeCreatedEvents DEF WatchInv
    <3>5. Joining' => Joining
      BY <3>1, <3>2, <3>4 DEF Joining
    <3> QED BY <1>1, <3>3, <3>5
  <2> QED BY <2>1, <2>2, <2>3, <2>4
<1>6. CASE UNCHANGED vars
  BY <1>2, <1>6 DEF vars, rdmaVars, zkVars, clientVars, watcherVars
<1> QED BY <1>3, <1>4, <1>5, <1>6 DEF Next

\* A fresh client has no losses.
LEMMA DurableInit == Init => DurableInv
<1> SUFFICES ASSUME Init PROVE DurableInv
  OBVIOUS
<1> USE ConstantsAssumption
<1>1. Range(<<>>) = {}
  BY DEF Range
<1>2. Deleted = {} /\ orphans = {} /\ Failures = 0 /\ ~Joining
  BY <1>1 DEF Init, Deleted, Failures, Joining
<1>3. Settled \subseteq synced /\ wpc = "idle" /\ \A w \in Writes : acks[w] = {}
  BY DEF Init, Settled
<1>4. \A A : A \subseteq synced => Load(A) = 0
  <2> SUFFICES ASSUME NEW A, A \subseteq synced PROVE Load(A) = 0
    OBVIOUS
  <2>1. A \ (synced \cup Deleted \cup orphans) = {}
    OBVIOUS
  <2> QED BY <1>2, <2>1, FS_EmptySet DEF Load, LoadOf
<1>5. ChargeInv /\ PollInv /\ AckLoadInv
  BY <1>2, <1>3, <1>4 DEF ChargeInv, PollInv, AckLoadInv
<1>6. WatchInv
  BY <1>2 DEF Init, WatchInv, OnlyOnce
<1> QED BY <1>5, <1>6 DEF DurableInv

-----------------------------------------------------------------------------
(* Durability. *)

\* IndInv and the accounting of losses hold in every reachable state.
THEOREM DurableInductive == Spec => [](IndInv /\ DurableInv)
<1>1. Init => IndInv /\ DurableInv
  BY IndInit, DurableInit
<1>2. IndInv /\ DurableInv /\ [Next]_vars => DurableInv'
  <2> SUFFICES ASSUME IndInv, DurableInv, [Next]_vars PROVE DurableInv'
    OBVIOUS
  <2>1. WatchInv'
    BY WatchStep DEF DurableInv
  <2>2. ChargeInv' /\ PollInv' /\ AckLoadInv'
    BY ChargeStep, PollStep, AckLoadStep
  <2> QED BY <2>1, <2>2 DEF DurableInv
<1> QED BY <1>1, <1>2, Inductive, PTL DEF Spec

\* A write that returned with a quorum is held by a recovered and connected
\* peer as long as no more servers have failed than half of rep_factor,
\* whatever replacements were under way when it was acknowledged.
THEOREM DurableAlways == Spec => []Durable
<1>1. IndInv /\ DurableInv /\ AckedHeld => Durable
  <2> SUFFICES ASSUME IndInv, DurableInv, AckedHeld, Failures <= rep_factor \div 2,
                      NEW w \in Writes, Cardinality(acks[w]) > rep_factor \div 2
               PROVE  \E p \in synced : Holds(p, w)
    BY DEF Durable, Majority, Failures
  <2>t. /\ Deleted \in SUBSET Peers /\ orphans \in SUBSET Peers /\ synced \in SUBSET Peers
        /\ acks[w] \in SUBSET Peers /\ rep_factor \in Nat
        /\ crashes \in Nat /\ expiries \in Nat
    BY DEF IndInv, TypeOK, ZkTypeOK, HistoryTypeOK, Deleted, WriterTypeOK, ClientTypeOK
  <2>1. acks[w] \cap synced # {}
    <3> SUFFICES ASSUME acks[w] \cap synced = {} PROVE FALSE
      OBVIOUS
    <3> DEFINE H == acks[w] \ (synced \cup Deleted \cup orphans)
               L == Deleted \cup orphans
    <3>1. Cardinality(Deleted) + Cardinality(orphans) + Cardinality(H) <= Failures
      BY DEF DurableInv, AckLoadInv, Load, LoadOf
    <3>2. IsFiniteSet(Deleted) /\ IsFiniteSet(orphans) /\ IsFiniteSet(H)
          /\ IsFiniteSet(L) /\ IsFiniteSet(L \cup H)
      BY <2>t, ConstantsAssumption, FS_Subset
    <3>3. /\ Cardinality(Deleted) \in Nat /\ Cardinality(orphans) \in Nat
          /\ Cardinality(H) \in Nat /\ Cardinality(L) \in Nat /\ Cardinality(L \cup H) \in Nat
          /\ Cardinality(Deleted \cap orphans) \in Nat /\ Cardinality(L \cap H) \in Nat
      BY <2>t, CardBounds
    <3>4. acks[w] \subseteq L \cup H
      OBVIOUS
    <3> HIDE DEF H
    <3>5. Cardinality(L) <= Cardinality(Deleted) + Cardinality(orphans)
      <4>1. Cardinality(L) = Cardinality(Deleted) + Cardinality(orphans)
                               - Cardinality(Deleted \cap orphans)
        BY <3>2, FS_Union
      <4> HIDE DEF L
      <4> QED BY <3>3, <4>1
    <3> HIDE DEF L
    <3>6. Cardinality(L \cup H) <= Cardinality(L) + Cardinality(H)
      <4>1. Cardinality(L \cup H) = Cardinality(L) + Cardinality(H) - Cardinality(L \cap H)
        BY <3>2, FS_Union
      <4> QED BY <3>3, <4>1
    <3>7. Cardinality(acks[w]) <= Cardinality(L \cup H) /\ Cardinality(acks[w]) \in Nat
      BY <3>2, <3>4, FS_Subset, FS_CardinalityType
    <3>8. rep_factor \div 2 \in Nat /\ Failures \in Nat
      BY <2>t DEF Failures
    <3> QED BY <3>1, <3>3, <3>5, <3>6, <3>7, <3>8
  <2> QED BY <2>1 DEF AckedHeld
<1> QED BY <1>1, DurableInductive, AckedHeldAlways, PTL

-----------------------------------------------------------------------------
(* Suspended writes. *)

\* The peers lost and not replaced are covered by failures that ClientWatcher
\* has seen, d of these to spare: one for each replacement.
Spare(d) == rep_factor + Cardinality(Deleted) + Cardinality(orphans) + d
              <= Cardinality(peers) + Failures

\* A writer that posts or waits without recover_lock lost it at the end of a
\* child event, after a replacement.
LockInv ==
    /\ Spare(0)
    /\ cpc \in {"exists", "recover", "rwait", "update", "joined"} => Spare(1)
    /\ wpc \in {"post", "poll"} /\ ~recover_lock => Spare(1)

\* No more servers have failed than leave half of rep_factor.
FewFailures == Failures <= rep_factor - rep_factor \div 2

\* ClientWatcher suspends writes holding recover_lock, and until it lets go
\* nobody else frees the lock.
SuspendInv == FewFailures /\ suspended => recover_lock /\ wpc \notin {"post", "poll"}

\* No step costs a peer that no failure accounts for, and AddPeer gains one.
LEMMA SpareKept ==
    ASSUME IndInv, WatchInv, [Next]_vars, NEW d \in Nat, Spare(d)
    PROVE  /\ Spare(d)'
           /\ (\E p \in Peers : AddPeer(p)) => Spare(d + 1)'
<1> USE ConstantsAssumption
<1> DEFINE n == Cardinality(peers)
           m == Cardinality(peers')
           l == Cardinality(Deleted) + Cardinality(orphans)
           k == Cardinality(Deleted') + Cardinality(orphans')
           g == Failures'
<1>t. /\ Deleted \in SUBSET Peers /\ orphans \in SUBSET Peers /\ peers \in SUBSET Peers
      /\ crashes \in Nat /\ expiries \in Nat /\ rep_factor \in Nat
  BY DEF IndInv, TypeOK, ZkTypeOK, ClientTypeOK, HistoryTypeOK, Deleted
<1>f. Failures \in Nat
  BY <1>t DEF Failures
<1>t2. /\ Deleted' \in SUBSET Peers /\ orphans' \in SUBSET Peers
       /\ Failures' \in Nat /\ peers' \in SUBSET Peers
  BY NextTypes
<1>g. g \in Nat
  BY <1>t2
<1>n. n \in Nat /\ m \in Nat
  BY <1>t, <1>t2, CardBounds
<1>l. l \in Nat /\ k \in Nat
  <2>1. Cardinality(Deleted) \in Nat /\ Cardinality(orphans) \in Nat
    BY <1>t, CardBounds
  <2>2. Cardinality(Deleted') \in Nat /\ Cardinality(orphans') \in Nat
    BY <1>t2, CardBounds
  <2> QED BY <2>1, <2>2
<1>r. rep_factor' = rep_factor
  BY DEF Next, Writer, Watcher, Environment, BeginWrite, CopyData, StampSeq, LockRecover, PostTo,
     FinishPost, PollPeer, FinishWrite, HandleDeleted, HandleChild, AddPeer, NoNewPeer, WatchPeer,
     PostRecover, RecoverDone, UpdateZKNode, FinishChild, SuspendWrites, WatchForPeerJoin,
     NicStep, PeerCrash, ExpireDead, ExpireAlive, ServerStart, clientVars, vars
<1>1. k + Failures <= l + g
  <2>1. LoadOf(Deleted', orphans', synced', {}) + Failures <= Load({}) + Failures'
    BY LoadStep
  <2>2. /\ {} \ (synced \cup Deleted \cup orphans) = {}
        /\ {} \ (synced' \cup Deleted' \cup orphans') = {}
    OBVIOUS
  <2>3. Load({}) = l + 0 /\ LoadOf(Deleted', orphans', synced', {}) = k + 0
    BY <2>2, FS_EmptySet DEF Load, LoadOf
  <2> QED BY <1>l, <1>f, <1>t2, <2>1, <2>3
<1>s. ASSUME NEW e \in Nat, k + Failures + n + e <= l + g + m + d
      PROVE  Spare(e)'
  <2>1. rep_factor + l + d <= n + Failures
    <3>1. Cardinality(Deleted) \in Nat /\ Cardinality(orphans) \in Nat
      BY <1>t, CardBounds
    <3>2. rep_factor + Cardinality(Deleted) + Cardinality(orphans) + d <= n + Failures
      BY DEF Spare
    <3> QED BY <1>t, <3>1, <3>2
  <2>2. rep_factor + k + e <= m + g
    <3> HIDE DEF n, m, l, k, g
    <3> QED BY <1>t, <1>f, <1>g, <1>n, <1>l, <1>s, <2>1
  <2>3. Cardinality(Deleted') \in Nat /\ Cardinality(orphans') \in Nat
    BY <1>t2, CardBounds
  <2>4. rep_factor' + Cardinality(Deleted') + Cardinality(orphans') + e <= m + g
    BY <1>r, <1>t, <2>2, <2>3
  <2> QED BY <2>4 DEF Spare
<1>2. CASE HandleDeleted
  <2>1. PICK p \in Deleted : Deleted' = Deleted \ {p} /\ peers' = peers \ {p}
    BY <1>2, HandledFacts
  <2>2. orphans' = orphans /\ crashes' = crashes /\ expiries' = expiries
    BY <1>2 DEF HandleDeleted
  <2>3. g = Failures
    BY <2>2 DEF Failures
  <2>4. n <= m + 1
    <3>1. peers \subseteq peers' \cup {p}
      BY <2>1
    <3> QED BY <1>t2, <3>1, CardBounds
  <2>5. Cardinality(Deleted') <= Cardinality(Deleted) - 1
    BY <1>t, <2>1, CardBounds
  <2>6. Cardinality(Deleted) \in Nat /\ Cardinality(orphans) \in Nat
        /\ Cardinality(Deleted') \in Nat
    BY <1>t, <1>t2, CardBounds
  <2>7. k <= l - 1
    BY <2>2, <2>5, <2>6
  <2>8. ~ \E q \in Peers : AddPeer(q)
    BY <1>2 DEF HandleDeleted, AddPeer
  <2>9. k + Failures + n + d <= l + g + m + d
    <3> HIDE DEF n, m, l, k, g
    <3> QED BY <1>f, <1>n, <1>l, <2>3, <2>4, <2>7
  <2> QED BY <1>s, <2>8, <2>9
<1>3. CASE \E p \in Peers : AddPeer(p)
  <2> PICK p \in Peers : AddPeer(p)
    BY <1>3
  <2>1. p \notin peers /\ peers' = peers \cup {p}
    BY DEF AddPeer
  <2>2. m = n + 1
    BY <1>t, <2>1, FS_Subset, FS_AddElement
  <2>3. /\ k + Failures + n + (d + 1) <= l + g + m + d
        /\ k + Failures + n + d <= l + g + m + d
    <3> HIDE DEF n, m, l, k, g
    <3> QED BY <1>f, <1>g, <1>n, <1>l, <1>1, <2>2
  <2>4. d + 1 \in Nat
    OBVIOUS
  <2> HIDE DEF n, m, l, k, g
  <2> QED BY <1>s, <2>3, <2>4
<1>4. CASE ~HandleDeleted /\ ~ \E p \in Peers : AddPeer(p)
  <2>1. peers' = peers
    BY <1>4 DEF Next, Writer, Watcher, Environment, BeginWrite, CopyData, StampSeq, LockRecover,
       PostTo, FinishPost, PollPeer, FinishWrite, HandleChild, NoNewPeer, WatchPeer,
       PostRecover, RecoverDone, UpdateZKNode, FinishChild, SuspendWrites, WatchForPeerJoin,
       NicStep, PeerCrash, ExpireDead, ExpireAlive, ServerStart, clientVars, vars
  <2>2. m = n
    BY <2>1
  <2>3. k + Failures + n + d <= l + g + m + d
    <3> HIDE DEF n, m, l, k, g
    <3> QED BY <1>f, <1>g, <1>n, <1>l, <1>1, <2>2
  <2> QED BY <1>4, <1>s, <2>3
<1> QED BY <1>2, <1>3, <1>4

\* A fresh client has rep_factor peers and a free lock.
LEMMA LockInit == Init => LockInv /\ SuspendInv
<1> SUFFICES ASSUME Init PROVE LockInv /\ SuspendInv
  OBVIOUS
<1>1. Range(<<>>) = {}
  BY DEF Range
<1>2. Deleted = {} /\ orphans = {} /\ Failures = 0
  BY <1>1 DEF Init, Deleted, Failures
<1>3. Cardinality(peers) = rep_factor /\ rep_factor \in Nat
  <2>1. Cardinality(InitServers) \in Nat
    BY ConstantsAssumption, CardBounds
  <2>2. rep_factor \in Nat
    BY <2>1, ConstantsAssumption DEF Init
  <2> QED BY <2>2 DEF Init
<1>4. Spare(0)
  BY <1>2, <1>3, FS_EmptySet DEF Spare
<1> QED BY <1>4 DEF Init, LockInv, SuspendInv

\* Only FinishChild takes the lock away from a writer, and a child event gets
\* there by adding a peer.
LEMMA LockStep == IndInv /\ WatchInv /\ LockInv /\ [Next]_vars => LockInv'
<1> SUFFICES ASSUME IndInv, WatchInv, LockInv, [Next]_vars PROVE LockInv'
  OBVIOUS
<1>1. Spare(0)' /\ (Spare(1) => Spare(1)')
      /\ ((\E p \in Peers : AddPeer(p)) => Spare(1)')
  <2>1. 0 \in Nat /\ 1 \in Nat /\ 0 + 1 = 1
    OBVIOUS
  <2> QED BY <2>1, SpareKept DEF LockInv
<1>t. recover_lock \in BOOLEAN
  BY DEF IndInv, TypeOK, ClientTypeOK
<1>2. CASE \E p \in Peers : AddPeer(p)
  BY <1>1, <1>2 DEF LockInv
<1>3. ASSUME ~ \E p \in Peers : AddPeer(p), ~Spare(1)
      PROVE  /\ cpc' \notin {"exists", "recover", "rwait", "update", "joined"}
             /\ wpc' \in {"post", "poll"} => recover_lock'
  <2>1. /\ cpc \notin {"exists", "recover", "rwait", "update", "joined"}
        /\ wpc \in {"post", "poll"} => recover_lock
    BY <1>3 DEF LockInv
  <2>2. CASE Writer
    BY <2>1, <2>2 DEF Writer, BeginWrite, CopyData, StampSeq, LockRecover,
       PostTo, FinishPost, PollPeer, FinishWrite, clientVars, watcherVars
  <2>3. CASE Watcher
    BY <1>3, <2>1, <2>3 DEF Watcher, HandleDeleted, HandleChild, NoNewPeer, WatchPeer,
       PostRecover, RecoverDone, UpdateZKNode, FinishChild, SuspendWrites, WatchForPeerJoin,
       clientVars, writerVars
  <2>4. CASE Environment
    BY <2>1, <2>4 DEF Environment, NicStep, PeerCrash, ExpireDead, ExpireAlive, ServerStart,
       clientVars, writerVars, watcherVars
  <2>5. CASE UNCHANGED vars
    BY <2>1, <2>5 DEF vars, clientVars, writerVars, watcherVars
  <2> QED BY <2>2, <2>3, <2>4, <2>5 DEF Next
<1> QED BY <1>1, <1>2, <1>3 DEF LockInv

\* With few failures ClientWatcher finds half of the peers lost only if there
\* was no replacement, and then a writer holds the lock it waits for.
LEMMA SuspendStep ==
    IndInv /\ WatchInv /\ LockInv /\ SuspendInv /\ [Next]_vars => SuspendInv'
<1> SUFFICES ASSUME IndInv, WatchInv, LockInv, SuspendInv, [Next]_vars,
                    FewFailures', suspended'
             PROVE  recover_lock' /\ wpc' \notin {"post", "poll"}
  BY DEF SuspendInv
<1>t. /\ crashes \in Nat /\ expiries \in Nat /\ rep_factor \in Nat /\ peers \in SUBSET Peers
      /\ Deleted \in SUBSET Peers /\ orphans \in SUBSET Peers
  BY DEF IndInv, TypeOK, ZkTypeOK, ClientTypeOK, HistoryTypeOK, Deleted
<1>c. /\ Cardinality(Deleted) \in Nat /\ Cardinality(orphans) \in Nat
      /\ Cardinality(peers) \in Nat /\ Failures \in Nat
  <2>1. Failures \in Nat
    BY <1>t DEF Failures
  <2> QED BY <1>t, <2>1, CardBounds
<1>1. FewFailures
  <2>1. rep_factor' = rep_factor
    BY DEF Next, Writer, Watcher, Environment, BeginWrite, CopyData, StampSeq, LockRecover,
       PostTo, FinishPost, PollPeer, FinishWrite, HandleDeleted, HandleChild, AddPeer, NoNewPeer,
       WatchPeer, PostRecover, RecoverDone, UpdateZKNode, FinishChild, SuspendWrites,
       WatchForPeerJoin, NicStep, PeerCrash, ExpireDead, ExpireAlive, ServerStart, clientVars, vars
  <2>2. crashes' \in {crashes, crashes + 1} /\ expiries' \in {expiries, expiries + 1}
    BY DEF Next, Writer, Watcher, Environment, BeginWrite, CopyData, StampSeq, LockRecover,
       PostTo, FinishPost, PollPeer, FinishWrite, HandleDeleted, HandleChild, AddPeer, NoNewPeer,
       WatchPeer, PostRecover, RecoverDone, UpdateZKNode, FinishChild, SuspendWrites,
       WatchForPeerJoin, NicStep, PeerCrash, ExpireDead, ExpireAlive, ServerStart, historyVars, vars
  <2>3. Failures <= Failures' /\ Failures' \in Nat
    <3>1. Failures = crashes + expiries /\ Failures' = crashes' + expiries'
      BY DEF Failures
    <3>2. crashes \in Nat /\ expiries \in Nat
      BY <1>t
    <3>3. crashes' \in Nat /\ expiries' \in Nat /\ crashes <= crashes' /\ expiries <= expiries'
      BY <2>2, <3>2
    <3>4. \A a, b, x, y \in Nat : a <= x /\ b <= y => a + b <= x + y /\ x + y \in Nat
      OBVIOUS
    <3>5. crashes + expiries <= crashes' + expiries' /\ crashes' + expiries' \in Nat
      BY <3>2, <3>3, <3>4, Zenon
    <3> QED BY <3>1, <3>5, Zenon
  <2>4. Failures' <= rep_factor - rep_factor \div 2
    BY <2>1 DEF FewFailures
  <2>5. rep_factor \div 2 \in Nat
    BY <1>t
  <2> QED BY <1>t, <1>c, <2>3, <2>4, <2>5 DEF FewFailures
<1>2. CASE suspended
  <2>1. recover_lock /\ wpc \notin {"post", "poll"}
    BY <1>1, <1>2 DEF SuspendInv
  <2>2. CASE Writer
    BY <2>1, <2>2 DEF Writer, BeginWrite, CopyData, StampSeq, LockRecover,
       PostTo, FinishPost, PollPeer, FinishWrite, clientVars
  <2>3. CASE Watcher
    BY <2>1, <2>3 DEF Watcher, HandleDeleted, HandleChild, AddPeer, NoNewPeer, WatchPeer,
       PostRecover, RecoverDone, UpdateZKNode, FinishChild, SuspendWrites, WatchForPeerJoin,
       clientVars, writerVars
  <2>4. CASE Environment
    BY <2>1, <2>4 DEF Environment, NicStep, PeerCrash, ExpireDead, ExpireAlive, ServerStart,
       clientVars, writerVars
  <2>5. CASE UNCHANGED vars
    BY <2>1, <2>5 DEF vars, clientVars, writerVars
  <2> QED BY <2>2, <2>3, <2>4, <2>5 DEF Next
<1>3. CASE ~suspended
  <2>1. SuspendWrites /\ ~Majority(peers) /\ ~recover_lock
    BY <1>3 DEF Next, Writer, Watcher, Environment, BeginWrite, CopyData, StampSeq, LockRecover,
       PostTo, FinishPost, PollPeer, FinishWrite, HandleDeleted, HandleChild, AddPeer, NoNewPeer,
       WatchPeer, PostRecover, RecoverDone, UpdateZKNode, FinishChild, SuspendWrites,
       WatchForPeerJoin, NicStep, PeerCrash, ExpireDead, ExpireAlive, ServerStart, historyVars, vars
  <2>2. Cardinality(peers) <= rep_factor \div 2
    <3>1. ~ (Cardinality(peers) > rep_factor \div 2) /\ rep_factor \div 2 \in Nat
      BY <1>t, <2>1 DEF Majority
    <3> QED BY <1>c, <3>1
  <2>3. Failures <= rep_factor - rep_factor \div 2 /\ rep_factor \div 2 \in Nat
    BY <1>t, <1>1 DEF FewFailures
  <2>4. ~Spare(1)
    BY <1>t, <1>c, <2>2, <2>3 DEF Spare
  <2>5. wpc \notin {"post", "poll"}
    BY <2>1, <2>4 DEF LockInv
  <2> QED BY <2>1, <2>5 DEF SuspendWrites, writerVars
<1> QED BY <1>2, <1>3

\* While ClientWatcher holds writes back no write posts or waits, as long as no
\* more servers have failed than leave half of rep_factor.  With one failure
\* more the lock that FinishChild took from a writer can be taken for a
\* suspension while that writer still posts.
THEOREM SuspendedBlocksWritesAlways ==
    Spec => [](FewFailures => SuspendedBlocksWrites)
<1>1. Init => LockInv /\ SuspendInv
  BY LockInit
<1>2. IndInv /\ DurableInv /\ LockInv /\ SuspendInv /\ [Next]_vars => LockInv' /\ SuspendInv'
  BY LockStep, SuspendStep DEF DurableInv
<1>3. SuspendInv => (FewFailures => SuspendedBlocksWrites)
  BY DEF SuspendInv, SuspendedBlocksWrites
<1> QED BY <1>1, <1>2, <1>3, DurableInductive, PTL DEF Spec

=============================================================================
