-------------------------- MODULE SharedFileProofs --------------------------
(***************************************************************************)
(* The invariants of SharedFile for every number of threads, every buffer  *)
(* size and every bound on the calls.  None of AppendsTile, ReplicaFollows *)
(* and SettledSizeKept is inductive; SharedInv is, and implies them.       *)
(***************************************************************************)
EXTENDS SharedFile, FiniteSetTheorems, SequenceTheorems, TLAPS

-----------------------------------------------------------------------------
(* The inductive invariant. *)

Labels == {"idle", "reserve", "maxsize", "setsize", "copy", "draw", "stamp", "lock", "post",
           "wait"}

\* The cells that threads between the clamp and fetch_add are going to reserve,
\* as pairs of a thread and a position in its range.
Pending == {x \in Threads \X Lens : pc[x[1]] = "reserve" /\ x[2] <= size[x[1]]}

\* The threads that have begun a call and not drawn its sequence number.
Undrawn == {t \in Threads : pc[t] \in {"reserve", "maxsize", "setsize", "copy", "draw"}}

\* What is reserved and what is about to be is within what was asked for, so
\* fetch_add never passes the end of the buffer whatever the clamps have seen;
\* and no more sequence numbers are drawn than calls are made.
CountInv ==
    /\ pc \in [Threads -> Labels]
    /\ calls \in 0 .. MaxCalls /\ appended \in 0 .. BufSize
    /\ IsFiniteSet(Pending) /\ buf_offset + Cardinality(Pending) <= appended
    /\ IsFiniteSet(Undrawn) /\ seq + Cardinality(Undrawn) <= calls

\* Calls in progress have different numbers, and nothing is reserved for one
\* that has not reached fetch_add.
CallInv ==
    /\ \A t \in Threads : pc[t] # "idle" => call[t] \in 1 .. calls
    /\ \A t, u \in Threads : t # u /\ pc[t] # "idle" /\ pc[u] # "idle" => call[t] # call[u]
    /\ \A w \in Calls : w > calls => reserved[w] = {}
    /\ \A t \in Threads : pc[t] = "reserve" => reserved[call[t]] = {}

\* Whose work requests are in the queue pair: each thread's at most once, and
\* only while it waits for them.
Queued(t) == \E i \in 1 .. Len(sendq) : sendq[i] = t
QueueInv ==
    /\ \A i \in 1 .. Len(sendq) : pc[sendq[i]] = "wait"
    /\ \A i, j \in 1 .. Len(sendq) : sendq[i] = sendq[j] => i = j
    /\ data_done => sendq # <<>>

\* The threads that have copied their data and whose data request is still to
\* be executed, and those whose sequence word is.
DataDue(t) == \/ pc[t] \in {"draw", "stamp", "lock", "post"}
              \/ Queued(t) /\ ~(data_done /\ sendq[1] = t)
SeqDue(t) == pc[t] \in {"lock", "post"} \/ Queued(t)

CopyInv ==
    /\ \A c \in Cells : mr[c] = buffer[c] \/ \E t \in Threads : c \in CellsOf(t) /\ DataDue(t)
    /\ mr_seq = seq_word \/ \E t \in Threads : SeqDue(t)

\* A size that has been computed and not stored is not below a settled one.
SizeInv ==
    /\ SettledSizeKept
    /\ \A t \in Threads : pc[t] = "setsize" => max_size[t] >= settled

SharedInv == SharedTypeOK /\ CountInv /\ CallInv /\ QueueInv /\ CopyInv /\ SizeInv /\ AppendsTile

-----------------------------------------------------------------------------
(* Counting. *)

\* A range of k cells has k elements, tagged with its thread or not.
LEMMA TaggedRange ==
    ASSUME NEW t, NEW k \in Nat
    PROVE  IsFiniteSet({t} \X (1 .. k)) /\ Cardinality({t} \X (1 .. k)) = k
<1>1. IsFiniteSet({t}) /\ Cardinality({t}) = 1
  BY FS_Singleton
<1>2. IsFiniteSet(1 .. k) /\ Cardinality(1 .. k) = k
  BY FS_Interval
<1>3. /\ IsFiniteSet({t} \X (1 .. k))
      /\ Cardinality({t} \X (1 .. k)) = Cardinality({t}) * Cardinality(1 .. k)
  BY <1>1, <1>2, FS_Product
<1>4. 1 * k = k
  OBVIOUS
<1> QED BY <1>1, <1>2, <1>3, <1>4

\* What a thread at fetch_add is going to reserve is a part of Pending.
LEMMA PendingOf ==
    ASSUME SharedTypeOK, CountInv, NEW t \in Threads, pc[t] = "reserve"
    PROVE  /\ {t} \X (1 .. size[t]) \subseteq Pending
           /\ size[t] <= Cardinality(Pending)
           /\ Cardinality(Pending \ ({t} \X (1 .. size[t]))) = Cardinality(Pending) - size[t]
           /\ IsFiniteSet(Pending \ ({t} \X (1 .. size[t])))
<1> DEFINE R == {t} \X (1 .. size[t])
<1> USE SharedFileAssumption
<1>1. size[t] \in Nat /\ size[t] <= MaxLen
  BY DEF SharedTypeOK
<1>2. IsFiniteSet(R) /\ Cardinality(R) = size[t]
  BY <1>1, TaggedRange
<1>3. R \subseteq Pending
  BY <1>1 DEF Pending, Lens
<1>4. IsFiniteSet(Pending) /\ Cardinality(Pending) \in Nat
  BY FS_CardinalityType DEF CountInv
<1>5. Pending \cap R = R
  BY <1>3
<1> HIDE DEF R
<1>6. /\ IsFiniteSet(Pending \ R)
      /\ Cardinality(Pending \ R) = Cardinality(Pending) - Cardinality(Pending \cap R)
  BY <1>4, FS_Difference
<1>7. Cardinality(R) <= Cardinality(Pending)
  BY <1>2, <1>3, <1>4, FS_Subset
<1> QED BY <1>1, <1>2, <1>3, <1>4, <1>5, <1>6, <1>7 DEF R

\* fetch_add stays within the data cells.
LEMMA ReserveFits ==
    ASSUME SharedTypeOK, CountInv, NEW t \in Threads, pc[t] = "reserve"
    PROVE  buf_offset + size[t] <= BufSize
<1> USE SharedFileAssumption
<1>1. Cardinality(Pending) \in Nat
  BY FS_CardinalityType DEF CountInv
<1>2. size[t] <= Cardinality(Pending)
  BY PendingOf
<1> QED BY <1>1, <1>2 DEF CountInv, SharedTypeOK

\* A thread that is to draw a number can: there are MaxCalls of them.
LEMMA DrawFits ==
    ASSUME SharedTypeOK, CountInv, NEW t \in Threads, pc[t] = "draw"
    PROVE  seq + 1 <= MaxCalls
<1> USE SharedFileAssumption
<1>1. t \in Undrawn
  BY DEF Undrawn
<1>2. IsFiniteSet(Undrawn) /\ Cardinality(Undrawn) \in Nat
  BY FS_CardinalityType DEF CountInv
<1>3. IsFiniteSet(Undrawn \ {t}) /\ Cardinality(Undrawn \ {t}) = Cardinality(Undrawn) - 1
  BY <1>1, <1>2, FS_RemoveElement
<1>4. Cardinality(Undrawn \ {t}) \in Nat
  BY <1>3, FS_CardinalityType
<1> QED BY <1>2, <1>3, <1>4 DEF CountInv, SharedTypeOK

-----------------------------------------------------------------------------
(* Every step preserves the parts of SharedInv. *)

\* Every variable keeps the values its C++ counterpart can have.
LEMMA SharedTypeStep == SharedInv /\ [SharedNext]_sharedVars => SharedTypeOK'
<1> SUFFICES ASSUME SharedInv, [SharedNext]_sharedVars PROVE SharedTypeOK'
  OBVIOUS
<1> USE SharedFileAssumption
<1>0. SharedTypeOK /\ CountInv /\ CallInv
  BY DEF SharedInv
<1>1. ASSUME NEW t \in Threads, NEW l, Goto(t, l) PROVE settled' \in 0 .. BufSize
  BY <1>0, <1>1 DEF Goto, SharedTypeOK
<1>2. CASE \E t \in Threads, n \in Lens : ClampAppend(t, n)
  <2> PICK t \in Threads, n \in Lens : ClampAppend(t, n)
    BY <1>2
  <2>1. settled' \in 0 .. BufSize
    BY <1>1 DEF ClampAppend
  <2>2. LeastOf(n, BufSize + 1 - buf_offset) \in 0 .. MaxLen
    BY <1>0 DEF SharedTypeOK, LeastOf, Lens
  <2>3. calls + 1 \in 0 .. MaxCalls
    BY <1>0 DEF ClampAppend, NewCall, CountInv
  <2> QED BY <1>0, <2>1, <2>2, <2>3 DEF SharedTypeOK, ClampAppend, NewCall, clientVars, replicaVars
<1>3. CASE \E t \in Threads, n \in Lens, p \in Cells : BeginWritePos(t, n, p)
  <2> PICK t \in Threads, n \in Lens, p \in Cells : BeginWritePos(t, n, p)
    BY <1>3
  <2>1. settled' \in 0 .. BufSize
    BY <1>1 DEF BeginWritePos
  <2>2. LeastOf(n, BufSize + 1 - p) = n /\ n \in 0 .. MaxLen /\ p \in 0 .. BufSize
    BY <1>0 DEF BeginWritePos, LeastOf, Lens, Cells
  <2>3. size'[t] = n
    BY <1>0, <2>2 DEF BeginWritePos, SharedTypeOK
  <2>4. MostOf(p + size'[t], file_size) \in 0 .. BufSize
    BY <1>0, <2>2, <2>3 DEF BeginWritePos, SharedTypeOK, MostOf
  <2>5. calls + 1 \in 0 .. MaxCalls
    BY <1>0 DEF BeginWritePos, NewCall, CountInv
  <2> HIDE DEF LeastOf, MostOf
  <2> QED BY <1>0, <2>1, <2>2, <2>4, <2>5 DEF SharedTypeOK, BeginWritePos, NewCall, clientVars,
                                              replicaVars
<1>4. ASSUME NEW t \in Threads, Step(t) PROVE SharedTypeOK'
  <2>1. CASE ReserveAppend(t)
    <3>1. settled' \in 0 .. BufSize
      BY <1>1, <2>1 DEF ReserveAppend
    <3>2. buf_offset + size[t] <= BufSize
      BY <1>0, <2>1, ReserveFits DEF ReserveAppend
    <3>3. buf_offset \in Nat /\ size[t] \in Nat
      BY <1>0 DEF SharedTypeOK
    <3>4. buf_offset .. buf_offset + size[t] - 1 \in SUBSET Cells
      BY <3>2, <3>3 DEF Cells
    <3>5. reserved' \in [Calls -> SUBSET Cells]
      BY <1>0, <2>1, <3>4 DEF SharedTypeOK, ReserveAppend
    <3>6. buf_offset' \in 0 .. BufSize /\ off' \in [Threads -> 0 .. BufSize]
      BY <1>0, <2>1, <3>2, <3>3 DEF SharedTypeOK, ReserveAppend
    <3> QED BY <1>0, <2>1, <3>1, <3>5, <3>6 DEF SharedTypeOK, ReserveAppend, replicaVars
  <2>2. CASE MaxAppend(t)
    <3>1. settled' \in 0 .. BufSize
      BY <1>1, <2>2 DEF MaxAppend
    <3>2. MostOf(file_size, buf_offset) \in 0 .. BufSize
      BY <1>0 DEF SharedTypeOK, MostOf
    <3> QED BY <1>0, <2>2, <3>1, <3>2 DEF SharedTypeOK, MaxAppend, clientVars, replicaVars,
                                          historyVars
  <2>3. CASE SetSize(t)
    <3>1. settled' \in 0 .. BufSize
      BY <1>1, <2>3 DEF SetSize
    <3> QED BY <1>0, <2>3, <3>1 DEF SharedTypeOK, SetSize, replicaVars, threadVars, historyVars
  <2>4. CASE CopyData(t)
    <3>1. settled' \in 0 .. BufSize
      BY <1>1, <2>4 DEF CopyData
    <3> QED BY <1>0, <2>4, <3>1 DEF SharedTypeOK, CopyData, replicaVars, threadVars, historyVars
  <2>5. CASE DrawSeq(t)
    <3>1. settled' \in 0 .. BufSize
      BY <1>1, <2>5 DEF DrawSeq
    <3>2. seq + 1 <= MaxCalls
      BY <1>0, <2>5, DrawFits DEF DrawSeq
    <3>3. seq \in 0 .. MaxCalls /\ num \in [Threads -> 0 .. MaxCalls]
      BY <1>0 DEF SharedTypeOK
    <3>4. num' = [num EXCEPT ![t] = seq] /\ seq' = seq + 1
      BY <2>5 DEF DrawSeq
    <3>5. num' \in [Threads -> 0 .. MaxCalls]
      BY <3>3, <3>4
    <3>6. seq' \in 0 .. MaxCalls
      BY <3>2, <3>3, <3>4
    <3> QED BY <1>0, <2>5, <3>1, <3>5, <3>6 DEF SharedTypeOK, DrawSeq, replicaVars, historyVars
  <2>6. CASE StampSeq(t)
    <3>1. settled' \in 0 .. BufSize
      BY <1>1, <2>6 DEF StampSeq
    <3> QED BY <1>0, <2>6, <3>1 DEF SharedTypeOK, StampSeq, replicaVars, threadVars, historyVars
  <2>7. CASE LockRecover(t)
    <3>1. settled' \in 0 .. BufSize
      BY <1>1, <2>7 DEF LockRecover
    <3> QED BY <1>0, <2>7, <3>1 DEF SharedTypeOK, LockRecover, clientVars, replicaVars, threadVars,
                                    historyVars
  <2>8. CASE Post(t)
    <3>1. settled' \in 0 .. BufSize
      BY <1>1, <2>8 DEF Post
    <3>2. sendq' \in Seq(Threads)
      BY <1>0, <2>8, AppendProperties DEF SharedTypeOK, Post
    <3> QED BY <1>0, <2>8, <3>1, <3>2 DEF SharedTypeOK, Post, clientVars, threadVars, historyVars
  <2>9. CASE Return(t)
    <3>1. settled' \in 0 .. BufSize
      BY <1>1, <2>9 DEF Return
    <3>2. recover_lock' \in Threads \cup {NoThread}
      BY <1>0, <2>9 DEF SharedTypeOK, Return
    <3>3. /\ off' \in [Threads -> 0 .. BufSize] /\ size' \in [Threads -> 0 .. MaxLen]
          /\ max_size' \in [Threads -> 0 .. BufSize] /\ num' \in [Threads -> 0 .. MaxCalls]
          /\ call' \in [Threads -> 0 .. MaxCalls]
      BY <1>0, <2>9 DEF SharedTypeOK, Return, LeaveCall
    <3> QED BY <1>0, <2>9, <3>1, <3>2, <3>3 DEF SharedTypeOK, Return, clientVars, replicaVars,
                                                historyVars
  <2> QED BY <1>4, <2>1, <2>2, <2>3, <2>4, <2>5, <2>6, <2>7, <2>8, <2>9 DEF Step
<1>5. CASE WriteData
  BY <1>0, <1>5 DEF SharedTypeOK, WriteData, clientVars, threadVars, historyVars
<1>6. CASE WriteSeq
  <2>1. sendq' \in Seq(Threads)
    BY <1>0, <1>6, HeadTailProperties DEF SharedTypeOK, WriteSeq
  <2> QED BY <1>0, <1>6, <2>1 DEF SharedTypeOK, WriteSeq, clientVars, threadVars, historyVars
<1>7. CASE UNCHANGED sharedVars
  BY <1>0, <1>7 DEF SharedTypeOK, sharedVars, clientVars, replicaVars, threadVars, historyVars
<1> QED BY <1>2, <1>3, <1>4, <1>5, <1>6, <1>7 DEF SharedNext

\* A step of a thread that is not about to reserve, before or after it, leaves
\* Pending alone.
LEMMA SamePending ==
    ASSUME CountInv, NEW t \in Threads, NEW l, pc' = [pc EXCEPT ![t] = l],
           pc[t] # "reserve", l # "reserve",
           \A u \in Threads \ {t} : size'[u] = size[u]
    PROVE  Pending' = Pending
<1>1. ASSUME NEW u \in Threads
      PROVE  /\ pc'[u] = "reserve" <=> pc[u] = "reserve"
             /\ pc[u] = "reserve" => size'[u] = size[u]
  BY DEF CountInv
<1>2. Pending' = {x \in Threads \X Lens : pc'[x[1]] = "reserve" /\ x[2] <= size'[x[1]]}
  BY DEF Pending, Lens
<1>3. ASSUME NEW x \in Threads \X Lens
      PROVE  (pc'[x[1]] = "reserve" /\ x[2] <= size'[x[1]])
                <=> (pc[x[1]] = "reserve" /\ x[2] <= size[x[1]])
  BY <1>1
<1> QED BY <1>2, <1>3 DEF Pending

\* A step that does not draw a number, of a thread inside a call, leaves Undrawn
\* alone.
LEMMA SameUndrawn ==
    ASSUME CountInv, NEW t \in Threads, NEW l, pc' = [pc EXCEPT ![t] = l],
           pc[t] \in {"reserve", "maxsize", "setsize", "copy", "draw"}
              <=> l \in {"reserve", "maxsize", "setsize", "copy", "draw"}
    PROVE  Undrawn' = Undrawn
BY DEF CountInv, Undrawn

\* A new call is one more to draw a number.
LEMMA MoreUndrawn ==
    ASSUME CountInv, NEW t \in Threads, NEW l, pc' = [pc EXCEPT ![t] = l],
           pc[t] = "idle", l \in {"reserve", "setsize"}
    PROVE  IsFiniteSet(Undrawn') /\ Cardinality(Undrawn') = Cardinality(Undrawn) + 1
<1>1. Undrawn' = Undrawn \cup {t} /\ t \notin Undrawn
  BY DEF CountInv, Undrawn
<1>2. IsFiniteSet(Undrawn)
  BY DEF CountInv
<1> QED BY <1>1, <1>2, FS_AddElement

\* The counts stay within what the application asked for.
LEMMA CountStep == SharedInv /\ [SharedNext]_sharedVars => CountInv'
<1> SUFFICES ASSUME SharedInv, [SharedNext]_sharedVars PROVE CountInv'
  OBVIOUS
<1> USE SharedFileAssumption
<1>0. SharedTypeOK /\ CountInv
  BY DEF SharedInv
<1>a. /\ Cardinality(Pending) \in Nat /\ Cardinality(Undrawn) \in Nat
      /\ buf_offset \in Nat /\ seq \in Nat /\ size \in [Threads -> Nat]
  BY <1>0, FS_CardinalityType DEF CountInv, SharedTypeOK
<1>b. ASSUME NEW t \in Threads, NEW l \in Labels, pc' = [pc EXCEPT ![t] = l],
             pc[t] # "reserve", l # "reserve",
             \A u \in Threads \ {t} : size'[u] = size[u],
             pc[t] \in {"reserve", "maxsize", "setsize", "copy", "draw"}
                <=> l \in {"reserve", "maxsize", "setsize", "copy", "draw"},
             UNCHANGED <<calls, appended, buf_offset, seq>>
      PROVE  CountInv'
  <2>1. Pending' = Pending
    BY <1>0, <1>b, SamePending
  <2>2. Undrawn' = Undrawn
    BY <1>0, <1>b, SameUndrawn
  <2>3. pc' \in [Threads -> Labels]
    BY <1>0, <1>b DEF CountInv
  <2> QED BY <1>0, <1>b, <2>1, <2>2, <2>3 DEF CountInv
<1>2. CASE \E t \in Threads, n \in Lens : ClampAppend(t, n)
  <2> PICK t \in Threads, n \in Lens : ClampAppend(t, n)
    BY <1>2
  <2> DEFINE k == LeastOf(n, BufSize + 1 - buf_offset)
             R == {t} \X (1 .. k)
  <2>1. k \in Nat /\ k <= n /\ n \in Nat /\ k <= MaxLen
    BY <1>0, <1>a DEF SharedTypeOK, LeastOf, Lens
  <2>2. /\ pc[t] = "idle" /\ pc' = [pc EXCEPT ![t] = "reserve"] /\ size' = [size EXCEPT ![t] = k]
        /\ calls < MaxCalls /\ calls' = calls + 1
        /\ appended + n <= BufSize /\ appended' = appended + n
        /\ UNCHANGED <<buf_offset, seq>>
    BY DEF ClampAppend, NewCall, Goto, clientVars
  <2> HIDE DEF k
  <2>3. Pending' = Pending \cup R /\ Pending \cap R = {}
    <3>1. /\ pc'[t] = "reserve" /\ size'[t] = k
          /\ \A u \in Threads \ {t} : pc'[u] = pc[u] /\ size'[u] = size[u]
      BY <1>0, <2>2 DEF CountInv, SharedTypeOK
    <3>2. Pending' = {x \in Threads \X Lens : pc'[x[1]] = "reserve" /\ x[2] <= size'[x[1]]}
      BY DEF Pending, Lens
    <3>3. R \subseteq Threads \X Lens
      BY <2>1 DEF Lens
    <3>4. ASSUME NEW x \in Threads \X Lens
          PROVE  (pc'[x[1]] = "reserve" /\ x[2] <= size'[x[1]])
                    <=> (x \in R \/ (pc[x[1]] = "reserve" /\ x[2] <= size[x[1]]))
      BY <2>1, <2>2, <3>1 DEF Lens
    <3>5. Pending \cap R = {}
      BY <2>2 DEF Pending
    <3> HIDE DEF R
    <3> QED BY <3>2, <3>3, <3>4, <3>5 DEF Pending
  <2>4. IsFiniteSet(R) /\ Cardinality(R) = k
    BY <2>1, TaggedRange
  <2> HIDE DEF R
  <2>5. IsFiniteSet(Pending') /\ Cardinality(Pending') = Cardinality(Pending) + k
    <3>1. /\ IsFiniteSet(Pending \cup R)
          /\ Cardinality(Pending \cup R)
               = Cardinality(Pending) + Cardinality(R) - Cardinality(Pending \cap R)
      BY <1>0, <2>4, FS_Union DEF CountInv
    <3>2. Cardinality(Pending \cap R) = 0
      BY <2>3, FS_EmptySet
    <3> QED BY <1>a, <2>1, <2>3, <2>4, <3>1, <3>2
  <2>6. IsFiniteSet(Undrawn') /\ Cardinality(Undrawn') = Cardinality(Undrawn) + 1
    BY <1>0, <2>2, MoreUndrawn
  <2>7. pc' \in [Threads -> Labels]
    BY <1>0, <2>2 DEF CountInv, Labels
  <2> QED BY <1>0, <1>a, <2>1, <2>2, <2>5, <2>6, <2>7 DEF CountInv
<1>3. CASE \E t \in Threads, n \in Lens, p \in Cells : BeginWritePos(t, n, p)
  <2> PICK t \in Threads, n \in Lens, p \in Cells : BeginWritePos(t, n, p)
    BY <1>3
  <2>1. /\ pc[t] = "idle" /\ pc' = [pc EXCEPT ![t] = "setsize"]
        /\ \A u \in Threads \ {t} : size'[u] = size[u]
        /\ calls < MaxCalls /\ calls' = calls + 1
        /\ UNCHANGED <<buf_offset, seq, appended>>
    BY <1>0 DEF BeginWritePos, NewCall, Goto, clientVars, SharedTypeOK
  <2>2. Pending' = Pending
    BY <1>0, <2>1, SamePending
  <2>3. IsFiniteSet(Undrawn') /\ Cardinality(Undrawn') = Cardinality(Undrawn) + 1
    BY <1>0, <2>1, MoreUndrawn
  <2>4. pc' \in [Threads -> Labels]
    BY <1>0, <2>1 DEF CountInv, Labels
  <2> QED BY <1>0, <1>a, <2>1, <2>2, <2>3, <2>4 DEF CountInv
<1>4. ASSUME NEW t \in Threads, Step(t) PROVE CountInv'
  <2>1. CASE ReserveAppend(t)
    <3> DEFINE R == {t} \X (1 .. size[t])
    <3>1. /\ pc[t] = "reserve" /\ pc' = [pc EXCEPT ![t] = "maxsize"]
          /\ buf_offset' = buf_offset + size[t]
          /\ UNCHANGED <<size, seq, calls, appended>>
      BY <2>1 DEF ReserveAppend, Goto
    <3>2. Pending' = Pending \ R
      <4>1. pc'[t] # "reserve" /\ \A u \in Threads \ {t} : pc'[u] = pc[u]
        BY <1>0, <3>1 DEF CountInv
      <4>2. Pending' = {x \in Threads \X Lens : pc'[x[1]] = "reserve" /\ x[2] <= size[x[1]]}
        BY <3>1 DEF Pending, Lens
      <4>3. ASSUME NEW x \in Threads \X Lens
            PROVE  (pc'[x[1]] = "reserve" /\ x[2] <= size[x[1]])
                      <=> (x \notin R /\ pc[x[1]] = "reserve" /\ x[2] <= size[x[1]])
        BY <1>a, <4>1 DEF Lens
      <4> HIDE DEF R
      <4> QED BY <4>2, <4>3 DEF Pending
    <3>3. IsFiniteSet(Pending \ R) /\ Cardinality(Pending \ R) = Cardinality(Pending) - size[t]
      BY <1>0, <3>1, PendingOf
    <3>4. Undrawn' = Undrawn
      BY <1>0, <3>1, SameUndrawn
    <3>5. pc' \in [Threads -> Labels]
      BY <1>0, <3>1 DEF CountInv, Labels
    <3> HIDE DEF R
    <3> QED BY <1>0, <1>a, <3>1, <3>2, <3>3, <3>4, <3>5 DEF CountInv
  <2>2. CASE MaxAppend(t)
    BY <1>b, <2>2 DEF MaxAppend, Goto, Labels, clientVars, historyVars
  <2>3. CASE SetSize(t)
    BY <1>b, <2>3 DEF SetSize, Goto, Labels, threadVars, historyVars
  <2>4. CASE CopyData(t)
    BY <1>b, <2>4 DEF CopyData, Goto, Labels, threadVars, historyVars
  <2>5. CASE DrawSeq(t)
    <3>1. /\ pc[t] = "draw" /\ pc' = [pc EXCEPT ![t] = "stamp"] /\ seq' = seq + 1
          /\ UNCHANGED <<size, buf_offset, calls, appended>>
      BY <2>5 DEF DrawSeq, Goto, historyVars
    <3>2. Pending' = Pending
      BY <1>0, <3>1, SamePending
    <3>3. Undrawn' = Undrawn \ {t} /\ t \in Undrawn
      BY <1>0, <3>1 DEF CountInv, Undrawn
    <3>4. IsFiniteSet(Undrawn') /\ Cardinality(Undrawn') = Cardinality(Undrawn) - 1
      BY <1>0, <3>3, FS_RemoveElement DEF CountInv
    <3>5. pc' \in [Threads -> Labels]
      BY <1>0, <3>1 DEF CountInv, Labels
    <3> QED BY <1>0, <1>a, <3>1, <3>2, <3>4, <3>5 DEF CountInv
  <2>6. CASE StampSeq(t)
    <3>1. /\ pc[t] = "stamp" /\ UNCHANGED <<size, calls, appended, buf_offset, seq>>
      BY <2>6 DEF StampSeq, threadVars, historyVars
    <3>2. \E l \in {"lock", "post"} : pc' = [pc EXCEPT ![t] = l]
      BY <2>6 DEF StampSeq, Goto
    <3> QED BY <1>b, <3>1, <3>2 DEF Labels
  <2>7. CASE LockRecover(t)
    BY <1>b, <2>7 DEF LockRecover, Goto, Labels, clientVars, threadVars, historyVars
  <2>8. CASE Post(t)
    BY <1>b, <2>8 DEF Post, Goto, Labels, clientVars, threadVars, historyVars
  <2>9. CASE Return(t)
    <3>1. \A u \in Threads \ {t} : size'[u] = size[u]
      BY <1>0, <2>9 DEF Return, LeaveCall, SharedTypeOK
    <3> QED BY <1>b, <2>9, <3>1 DEF Return, Goto, Labels, clientVars, historyVars
  <2> QED BY <1>4, <2>1, <2>2, <2>3, <2>4, <2>5, <2>6, <2>7, <2>8, <2>9 DEF Step
<1>5. ASSUME UNCHANGED <<pc, size, calls, appended, buf_offset, seq>> PROVE CountInv'
  <2>1. Pending' = Pending /\ Undrawn' = Undrawn
    BY <1>5 DEF Pending, Undrawn, Lens
  <2> QED BY <1>0, <1>5, <2>1 DEF CountInv
<1>6. CASE WriteData \/ WriteSeq
  BY <1>5, <1>6 DEF WriteData, WriteSeq, clientVars, threadVars, historyVars
<1>7. CASE UNCHANGED sharedVars
  BY <1>5, <1>7 DEF sharedVars, clientVars, threadVars, historyVars
<1> QED BY <1>2, <1>3, <1>4, <1>6, <1>7 DEF SharedNext

\* Calls keep different numbers, and reserve at most once.
LEMMA CallStep == SharedInv /\ [SharedNext]_sharedVars => CallInv'
<1> SUFFICES ASSUME SharedInv, [SharedNext]_sharedVars PROVE CallInv'
  OBVIOUS
<1> USE SharedFileAssumption
<1>0. SharedTypeOK /\ CountInv /\ CallInv
  BY DEF SharedInv
<1>a. pc \in [Threads -> Labels] /\ calls \in Nat /\ call \in [Threads -> Nat]
  BY <1>0 DEF CountInv, SharedTypeOK
<1>b. ASSUME NEW t \in Threads, NEW l, pc' = [pc EXCEPT ![t] = l],
             pc[t] # "idle", l # "reserve",
             l = "idle" \/ UNCHANGED call, \A u \in Threads \ {t} : call'[u] = call[u],
             UNCHANGED <<calls, reserved>>
      PROVE  CallInv'
  BY <1>0, <1>a, <1>b DEF CallInv
<1>c. ASSUME NEW t \in Threads, NEW l, pc' = [pc EXCEPT ![t] = l], NewCall(t),
             UNCHANGED reserved
      PROVE  CallInv'
  <2>1. /\ calls' = calls + 1 /\ calls + 1 \in Calls
        /\ call'[t] = calls + 1 /\ \A u \in Threads \ {t} : call'[u] = call[u]
    BY <1>a, <1>c DEF NewCall, Calls
  <2>2. \A u \in Threads \ {t} : pc'[u] = pc[u]
    BY <1>a, <1>c
  <2>3. \A u \in Threads \ {t} : pc[u] # "idle" => call[u] \in 1 .. calls
    BY <1>0 DEF CallInv
  <2>4. \A u \in Threads : pc'[u] # "idle" => call'[u] \in 1 .. calls'
    BY <1>a, <2>1, <2>2, <2>3
  <2>5. \A u, v \in Threads : u # v /\ pc'[u] # "idle" /\ pc'[v] # "idle" => call'[u] # call'[v]
    BY <1>0, <1>a, <2>1, <2>2, <2>3 DEF CallInv
  <2>6. \A w \in Calls : w > calls' => reserved'[w] = {}
    BY <1>0, <1>a, <1>c, <2>1 DEF CallInv, Calls
  <2>7. \A u \in Threads : pc'[u] = "reserve" => reserved'[call'[u]] = {}
    BY <1>0, <1>a, <1>c, <2>1, <2>2 DEF CallInv
  <2> QED BY <2>4, <2>5, <2>6, <2>7 DEF CallInv
<1>2. CASE \E t \in Threads, n \in Lens : ClampAppend(t, n)
  BY <1>2, <1>c DEF ClampAppend, Goto
<1>3. CASE \E t \in Threads, n \in Lens, p \in Cells : BeginWritePos(t, n, p)
  BY <1>3, <1>c DEF BeginWritePos, Goto
<1>4. ASSUME NEW t \in Threads, Step(t) PROVE CallInv'
  <2>1. CASE ReserveAppend(t)
    <3>1. /\ pc[t] = "reserve" /\ pc' = [pc EXCEPT ![t] = "maxsize"] /\ UNCHANGED <<call, calls>>
          /\ \A w \in Calls : w # call[t] => reserved'[w] = reserved[w]
      BY <1>0, <2>1 DEF ReserveAppend, Goto, SharedTypeOK
    <3>2. call[t] \in 1 .. calls /\ \A u \in Threads \ {t} : pc[u] # "idle" =>
                                        call[u] # call[t] /\ call[u] \in 1 .. calls
      BY <1>0, <3>1 DEF CallInv
    <3>3. 1 .. calls \subseteq Calls
      BY <1>0 DEF CountInv, Calls
    <3>4. \A w \in Calls : w > calls' => reserved'[w] = {}
      BY <1>0, <1>a, <3>1, <3>2 DEF CallInv, Calls
    <3>5. \A u \in Threads : pc'[u] = "reserve" => reserved'[call'[u]] = {}
      BY <1>0, <1>a, <3>1, <3>2, <3>3 DEF CallInv
    <3> QED BY <1>0, <1>a, <3>1, <3>4, <3>5 DEF CallInv
  <2>2. CASE MaxAppend(t)
    BY <1>b, <2>2 DEF MaxAppend, Goto, historyVars
  <2>3. CASE SetSize(t)
    BY <1>b, <2>3 DEF SetSize, Goto, threadVars, historyVars
  <2>4. CASE CopyData(t)
    BY <1>b, <2>4 DEF CopyData, Goto, threadVars, historyVars
  <2>5. CASE DrawSeq(t)
    BY <1>b, <2>5 DEF DrawSeq, Goto, threadVars, historyVars
  <2>6. CASE StampSeq(t)
    <3>1. pc[t] = "stamp" /\ UNCHANGED <<call, calls, reserved>>
      BY <2>6 DEF StampSeq, threadVars, historyVars
    <3>2. \E l \in {"lock", "post"} : pc' = [pc EXCEPT ![t] = l]
      BY <2>6 DEF StampSeq, Goto
    <3> QED BY <1>b, <3>1, <3>2
  <2>7. CASE LockRecover(t)
    BY <1>b, <2>7 DEF LockRecover, Goto, threadVars, historyVars
  <2>8. CASE Post(t)
    BY <1>b, <2>8 DEF Post, Goto, threadVars, historyVars
  <2>9. CASE Return(t)
    <3>1. \A u \in Threads \ {t} : call'[u] = call[u]
      BY <1>0, <2>9 DEF Return, LeaveCall, SharedTypeOK
    <3> QED BY <1>b, <2>9, <3>1 DEF Return, Goto, historyVars
  <2> QED BY <1>4, <2>1, <2>2, <2>3, <2>4, <2>5, <2>6, <2>7, <2>8, <2>9 DEF Step
<1>5. CASE WriteData \/ WriteSeq
  BY <1>0, <1>5 DEF WriteData, WriteSeq, threadVars, historyVars, CallInv
<1>6. CASE UNCHANGED sharedVars
  BY <1>0, <1>6 DEF sharedVars, threadVars, historyVars, CallInv
<1> QED BY <1>2, <1>3, <1>4, <1>5, <1>6 DEF SharedNext

\* fetch_add hands out the cells next to those handed out before.
LEMMA TileStep == SharedInv /\ [SharedNext]_sharedVars => AppendsTile'
<1> SUFFICES ASSUME SharedInv, [SharedNext]_sharedVars PROVE AppendsTile'
  OBVIOUS
<1> USE SharedFileAssumption
<1>0. SharedTypeOK /\ CountInv /\ CallInv /\ AppendsTile
  BY DEF SharedInv
<1>1. ASSUME NEW t \in Threads, ReserveAppend(t) PROVE AppendsTile'
  <2> DEFINE N == buf_offset .. buf_offset + size[t] - 1
  <2>1. /\ pc[t] = "reserve" /\ buf_offset' = buf_offset + size[t]
        /\ reserved' = [reserved EXCEPT ![call[t]] = N]
    BY <1>1 DEF ReserveAppend
  <2>2. buf_offset \in Nat /\ size[t] \in Nat
    BY <1>0 DEF SharedTypeOK
  <2>3. call[t] \in Calls /\ reserved[call[t]] = {}
    BY <1>0, <2>1 DEF CallInv, CountInv, Calls
  <2>4. N \cap (0 .. buf_offset - 1) = {} /\ N \cup (0 .. buf_offset - 1) = 0 .. buf_offset' - 1
    BY <2>1, <2>2
  <2> HIDE DEF N
  <2>5. /\ reserved'[call[t]] = N
        /\ \A w \in Calls : w # call[t] => reserved'[w] = reserved[w]
    BY <1>0, <2>1, <2>3 DEF SharedTypeOK
  <2>6. \A w \in Calls : reserved[w] \subseteq 0 .. buf_offset - 1
    BY <1>0 DEF AppendsTile
  <2>7. \A v, w \in Calls : v # w => reserved'[v] \cap reserved'[w] = {}
    BY <1>0, <2>4, <2>5, <2>6 DEF AppendsTile
  <2>8. ASSUME NEW x PROVE (\E w \in Calls : x \in reserved'[w])
                              <=> x \in N \/ \E w \in Calls : x \in reserved[w]
    BY <2>3, <2>5
  <2>9. \A x : x \in 0 .. buf_offset - 1 <=> \E w \in Calls : x \in reserved[w]
    BY <1>0 DEF AppendsTile
  <2>10. \A x : x \in 0 .. buf_offset' - 1 <=> \E w \in Calls : x \in reserved'[w]
    BY <2>4, <2>8, <2>9
  <2>11. UNION {reserved'[w] : w \in Calls} = 0 .. buf_offset' - 1
    BY <2>10
  <2> QED BY <2>7, <2>11 DEF AppendsTile, Calls
<1>2. ASSUME UNCHANGED <<reserved, buf_offset>> PROVE AppendsTile'
  BY <1>0, <1>2 DEF AppendsTile, Calls
<1>3. CASE \E t \in Threads : Step(t)
  BY <1>1, <1>2, <1>3 DEF Step, MaxAppend, SetSize, CopyData, DrawSeq, StampSeq, LockRecover, Post,
       Return, clientVars, historyVars
<1>4. CASE UNCHANGED sharedVars \/ ~\E t \in Threads : Step(t)
  BY <1>2, <1>4 DEF SharedNext, ClampAppend, BeginWritePos, WriteData, WriteSeq, sharedVars,
       clientVars, historyVars
<1> QED BY <1>3, <1>4

\* A size below one that had settled is neither computed nor stored.
LEMMA SizeStep == SharedInv /\ [SharedNext]_sharedVars => SizeInv'
<1> SUFFICES ASSUME SharedInv, [SharedNext]_sharedVars PROVE SizeInv'
  OBVIOUS
<1> USE SharedFileAssumption
<1>0. SharedTypeOK /\ CountInv /\ SizeInv
  BY DEF SharedInv
<1>a. /\ pc \in [Threads -> Labels] /\ file_size \in Nat /\ settled \in Nat /\ buf_offset \in Nat
      /\ max_size \in [Threads -> Nat] /\ size \in [Threads -> Nat]
  BY <1>0 DEF SharedTypeOK, CountInv
<1>b. ASSUME NEW t \in Threads, NEW l, l # "idle", Goto(t, l)
      PROVE  /\ settled' = settled /\ pc'[t] = l
             /\ \A u \in Threads \ {t} : pc'[u] = pc[u]
  BY <1>a, <1>b DEF Goto
<1>c. ASSUME NEW t \in Threads, NEW l, l \notin {"idle", "setsize"}, Goto(t, l),
             UNCHANGED <<file_size, max_size>>
      PROVE  SizeInv'
  BY <1>0, <1>b, <1>c DEF SizeInv, SettledSizeKept
<1>d. ASSUME NEW t \in Threads, Goto(t, "setsize"), UNCHANGED file_size,
             max_size'[t] >= file_size, \A u \in Threads \ {t} : max_size'[u] = max_size[u],
             max_size'[t] \in Nat
      PROVE  SizeInv'
  BY <1>0, <1>a, <1>b, <1>d DEF SizeInv, SettledSizeKept
<1>2. CASE \E t \in Threads, n \in Lens : ClampAppend(t, n)
  BY <1>2, <1>c DEF ClampAppend, clientVars
<1>3. CASE \E t \in Threads, n \in Lens, p \in Cells : BeginWritePos(t, n, p)
  <2> PICK t \in Threads, n \in Lens, p \in Cells : BeginWritePos(t, n, p)
    BY <1>3
  <2>1. size'[t] \in Nat
    BY <1>a DEF BeginWritePos, LeastOf, Lens, Cells
  <2>2. max_size'[t] \in Nat /\ max_size'[t] >= file_size
    BY <1>a, <2>1 DEF BeginWritePos, MostOf, Cells
  <2>3. \A u \in Threads \ {t} : max_size'[u] = max_size[u]
    BY <1>a DEF BeginWritePos
  <2> QED BY <1>d, <2>2, <2>3 DEF BeginWritePos, clientVars
<1>4. ASSUME NEW t \in Threads, Step(t) PROVE SizeInv'
  <2>1. CASE ReserveAppend(t)
    BY <1>c, <2>1 DEF ReserveAppend
  <2>2. CASE MaxAppend(t)
    <3>1. max_size'[t] \in Nat /\ max_size'[t] >= file_size
      BY <1>a, <2>2 DEF MaxAppend, MostOf
    <3>2. \A u \in Threads \ {t} : max_size'[u] = max_size[u]
      BY <1>a, <2>2 DEF MaxAppend
    <3> QED BY <1>d, <2>2, <3>1, <3>2 DEF MaxAppend, clientVars
  <2>3. CASE SetSize(t)
    <3>1. /\ settled' = settled /\ pc'[t] = "copy"
          /\ \A u \in Threads \ {t} : pc'[u] = pc[u]
      BY <1>b, <2>3 DEF SetSize
    <3>2. file_size' >= settled
      BY <1>0, <2>3 DEF SetSize, SizeInv
    <3> QED BY <1>0, <2>3, <3>1, <3>2 DEF SetSize, threadVars, SizeInv, SettledSizeKept
  <2>4. CASE CopyData(t)
    BY <1>c, <2>4 DEF CopyData, threadVars
  <2>5. CASE DrawSeq(t)
    BY <1>c, <2>5 DEF DrawSeq
  <2>6. CASE StampSeq(t)
    BY <1>c, <2>6 DEF StampSeq, threadVars
  <2>7. CASE LockRecover(t)
    BY <1>c, <2>7 DEF LockRecover, clientVars, threadVars
  <2>8. CASE Post(t)
    BY <1>c, <2>8 DEF Post, clientVars, threadVars
  <2>9. CASE Return(t)
    <3>1. /\ pc' = [pc EXCEPT ![t] = "idle"] /\ file_size' = file_size
          /\ settled' = IF \A u \in Threads : pc'[u] = "idle" THEN file_size ELSE settled
          /\ max_size' = [max_size EXCEPT ![t] = 0]
      BY <2>9 DEF Return, Goto, LeaveCall, clientVars
    <3>2. CASE \A u \in Threads : pc'[u] = "idle"
      BY <1>a, <3>1, <3>2 DEF SizeInv, SettledSizeKept
    <3>3. CASE ~\A u \in Threads : pc'[u] = "idle"
      <4>1. settled' = settled /\ SettledSizeKept'
        BY <1>0, <3>1, <3>3 DEF SizeInv, SettledSizeKept
      <4>2. ASSUME NEW u \in Threads, pc'[u] = "setsize"
            PROVE  u # t /\ pc[u] = "setsize" /\ max_size'[u] = max_size[u]
        BY <1>a, <3>1, <4>2
      <4> QED BY <1>0, <4>1, <4>2 DEF SizeInv
    <3> QED BY <3>2, <3>3
  <2> QED BY <1>4, <2>1, <2>2, <2>3, <2>4, <2>5, <2>6, <2>7, <2>8, <2>9 DEF Step
<1>5. CASE WriteData \/ WriteSeq
  BY <1>0, <1>5 DEF WriteData, WriteSeq, clientVars, threadVars, SizeInv, SettledSizeKept
<1>6. CASE UNCHANGED sharedVars
  BY <1>0, <1>6 DEF sharedVars, clientVars, threadVars, SizeInv, SettledSizeKept
<1> QED BY <1>2, <1>3, <1>4, <1>5, <1>6 DEF SharedNext

\* Posting adds the thread to the queue and nothing else.
LEMMA PostQueued ==
    ASSUME SharedTypeOK, NEW t \in Threads, sendq' = Append(sendq, t)
    PROVE  /\ Len(sendq) \in Nat /\ Len(sendq') = Len(sendq) + 1
           /\ \A i \in 1 .. Len(sendq) : sendq'[i] = sendq[i]
           /\ sendq'[Len(sendq) + 1] = t
           /\ sendq' # <<>>
           /\ \A u \in Threads : Queued(u)' <=> Queued(u) \/ u = t
<1>1. sendq \in Seq(Threads) /\ Len(sendq) \in Nat
  BY LenProperties DEF SharedTypeOK
<1>2. /\ Len(sendq') = Len(sendq) + 1 /\ sendq'[Len(sendq) + 1] = t
      /\ \A i \in 1 .. Len(sendq) : sendq'[i] = sendq[i]
  BY <1>1, AppendProperties
<1>3. \A u \in Threads : Queued(u)' <=> Queued(u) \/ u = t
  BY <1>1, <1>2 DEF Queued
<1>4. sendq' # <<>>
  BY <1>1, AppendProperties
<1> QED BY <1>1, <1>2, <1>3, <1>4

\* A request that is done leaves the queue, and no other does.
LEMMA TailQueued ==
    ASSUME SharedTypeOK, QueueInv, sendq # <<>>, sendq' = Tail(sendq)
    PROVE  /\ Len(sendq) \in Nat \ {0} /\ Len(sendq') = Len(sendq) - 1
           /\ \A i \in 1 .. Len(sendq') : sendq'[i] = sendq[i + 1]
           /\ \A u \in Threads : Queued(u)' <=> Queued(u) /\ u # sendq[1]
<1>1. sendq \in Seq(Threads) /\ Len(sendq) \in Nat \ {0}
  BY EmptySeq, LenProperties DEF SharedTypeOK
<1>2. /\ Len(sendq') = Len(sendq) - 1
      /\ \A i \in 1 .. Len(sendq') : sendq'[i] = sendq[i + 1]
  BY <1>1, HeadTailProperties
<1>3. ASSUME NEW u \in Threads, Queued(u), u # sendq[1] PROVE Queued(u)'
  <2>1. PICK i \in 1 .. Len(sendq) : sendq[i] = u
    BY <1>3 DEF Queued
  <2>2. i - 1 \in 1 .. Len(sendq') /\ sendq'[i - 1] = u
    BY <1>1, <1>2, <1>3, <2>1
  <2> QED BY <2>2 DEF Queued
<1>4. ASSUME NEW u \in Threads, Queued(u)' PROVE Queued(u) /\ u # sendq[1]
  <2>1. PICK i \in 1 .. Len(sendq') : sendq'[i] = u
    BY <1>4 DEF Queued
  <2>2. i + 1 \in 2 .. Len(sendq) /\ sendq[i + 1] = u /\ 1 \in 1 .. Len(sendq)
    BY <1>1, <1>2, <2>1
  <2> QED BY <1>1, <2>2 DEF Queued, QueueInv
<1> QED BY <1>1, <1>2, <1>3, <1>4

\* The queue holds the requests of waiting threads, once each.
LEMMA QueueStep == SharedInv /\ [SharedNext]_sharedVars => QueueInv'
<1> SUFFICES ASSUME SharedInv, [SharedNext]_sharedVars PROVE QueueInv'
  OBVIOUS
<1> USE SharedFileAssumption
<1>0. SharedTypeOK /\ CountInv /\ QueueInv
  BY DEF SharedInv
<1>a. /\ pc \in [Threads -> Labels] /\ sendq \in Seq(Threads) /\ Len(sendq) \in Nat
      /\ \A i \in 1 .. Len(sendq) : sendq[i] \in Threads
  BY <1>0, LenProperties, ElementOfSeq DEF SharedTypeOK, CountInv
<1>b. ASSUME NEW t \in Threads, NEW l, pc' = [pc EXCEPT ![t] = l],
             pc[t] # "wait" \/ ~Queued(t), UNCHANGED <<sendq, data_done>>
      PROVE  QueueInv'
  <2>1. \A i \in 1 .. Len(sendq) : sendq[i] # t
    BY <1>0, <1>b DEF QueueInv, Queued
  <2>2. \A i \in 1 .. Len(sendq) : pc'[sendq[i]] = "wait"
    BY <1>0, <1>a, <1>b, <2>1 DEF QueueInv
  <2> QED BY <1>0, <1>b, <2>2 DEF QueueInv
<1>2. CASE \E t \in Threads, n \in Lens : ClampAppend(t, n)
  BY <1>2, <1>b DEF ClampAppend, NewCall, Goto, replicaVars
<1>3. CASE \E t \in Threads, n \in Lens, p \in Cells : BeginWritePos(t, n, p)
  BY <1>3, <1>b DEF BeginWritePos, NewCall, Goto, replicaVars
<1>4. ASSUME NEW t \in Threads, Step(t) PROVE QueueInv'
  <2>1. CASE ReserveAppend(t)
    BY <1>b, <2>1 DEF ReserveAppend, Goto, replicaVars
  <2>2. CASE MaxAppend(t)
    BY <1>b, <2>2 DEF MaxAppend, Goto, replicaVars
  <2>3. CASE SetSize(t)
    BY <1>b, <2>3 DEF SetSize, Goto, replicaVars
  <2>4. CASE CopyData(t)
    BY <1>b, <2>4 DEF CopyData, Goto, replicaVars
  <2>5. CASE DrawSeq(t)
    BY <1>b, <2>5 DEF DrawSeq, Goto, replicaVars
  <2>6. CASE StampSeq(t)
    BY <1>b, <2>6 DEF StampSeq, Goto, replicaVars
  <2>7. CASE LockRecover(t)
    BY <1>b, <2>7 DEF LockRecover, Goto, replicaVars
  <2>8. CASE Post(t)
    <3>1. pc[t] = "post" /\ pc' = [pc EXCEPT ![t] = "wait"] /\ sendq' = Append(sendq, t)
      BY <2>8 DEF Post, Goto
    <3>2. /\ Len(sendq') = Len(sendq) + 1
          /\ \A i \in 1 .. Len(sendq) : sendq'[i] = sendq[i]
          /\ sendq'[Len(sendq) + 1] = t
          /\ sendq' # <<>>
      BY <1>0, <3>1, PostQueued
    <3>3. \A i \in 1 .. Len(sendq) : sendq[i] # t
      BY <1>0, <3>1 DEF QueueInv
    <3>4. \A i \in 1 .. Len(sendq') : pc'[sendq'[i]] = "wait"
      BY <1>0, <1>a, <3>1, <3>2, <3>3 DEF QueueInv
    <3>5. \A i, j \in 1 .. Len(sendq') : sendq'[i] = sendq'[j] => i = j
      BY <1>0, <1>a, <3>2, <3>3 DEF QueueInv
    <3> QED BY <3>2, <3>4, <3>5 DEF QueueInv
  <2>9. CASE Return(t)
    <3>1. ~Queued(t)
      BY <2>9 DEF Return, Queued
    <3> QED BY <1>b, <2>9, <3>1 DEF Return, Goto, replicaVars
  <2> QED BY <1>4, <2>1, <2>2, <2>3, <2>4, <2>5, <2>6, <2>7, <2>8, <2>9 DEF Step
<1>5. CASE WriteData
  BY <1>0, <1>5 DEF WriteData, QueueInv
<1>6. CASE WriteSeq
  <2>1. sendq # <<>> /\ sendq' = Tail(sendq) /\ ~data_done' /\ UNCHANGED pc
    BY <1>6 DEF WriteSeq
  <2>2. /\ Len(sendq) \in Nat \ {0} /\ Len(sendq') = Len(sendq) - 1
        /\ \A i \in 1 .. Len(sendq') : sendq'[i] = sendq[i + 1]
    BY <1>0, <2>1, TailQueued
  <2>3. \A i \in 1 .. Len(sendq') : i + 1 \in 1 .. Len(sendq)
    BY <2>2
  <2>4. \A i \in 1 .. Len(sendq') : pc'[sendq'[i]] = "wait"
    BY <1>0, <2>1, <2>2, <2>3 DEF QueueInv
  <2>5. \A i, j \in 1 .. Len(sendq') : sendq'[i] = sendq'[j] => i = j
    BY <1>0, <2>2, <2>3 DEF QueueInv
  <2> QED BY <2>1, <2>4, <2>5 DEF QueueInv
<1>7. CASE UNCHANGED sharedVars
  BY <1>0, <1>7 DEF sharedVars, replicaVars, QueueInv
<1> QED BY <1>2, <1>3, <1>4, <1>5, <1>6, <1>7 DEF SharedNext

\* The replica differs from the buffer only where a request is due.
LEMMA CopyStep == SharedInv /\ [SharedNext]_sharedVars => CopyInv'
<1> SUFFICES ASSUME SharedInv, [SharedNext]_sharedVars PROVE CopyInv'
  OBVIOUS
<1> USE SharedFileAssumption
<1>0. SharedTypeOK /\ CountInv /\ QueueInv /\ CopyInv
  BY DEF SharedInv
<1>a. /\ pc \in [Threads -> Labels] /\ off \in [Threads -> Int] /\ size \in [Threads -> Int]
      /\ mr \in [Cells -> 0 .. MaxCalls] /\ buffer \in [Cells -> 0 .. MaxCalls]
  BY <1>0 DEF SharedTypeOK, CountInv
\* A step of a thread for which nothing becomes done.
<1>b. ASSUME NEW t \in Threads, NEW l, pc' = [pc EXCEPT ![t] = l],
             UNCHANGED <<sendq, data_done>>,
             \/ pc[t] \in {"idle", "reserve", "maxsize", "setsize", "copy"}
             \/ pc[t] \in {"draw", "stamp"} /\ l \in {"stamp", "lock", "post"}
             \/ pc[t] = "lock" /\ l = "post"
             \/ pc[t] = "wait" /\ ~Queued(t)
      PROVE  /\ \A u \in Threads : DataDue(u) => DataDue(u)'
             /\ \A u \in Threads : SeqDue(u) => SeqDue(u)'
  <2>1. \A u \in Threads : Queued(u)' <=> Queued(u)
    BY <1>b DEF Queued
  <2>2. \A u \in Threads \ {t} : pc'[u] = pc[u]
    BY <1>a, <1>b
  <2>3. pc'[t] = l
    BY <1>a, <1>b
  <2>4. Queued(t) => pc[t] = "wait"
    BY <1>0 DEF Queued, QueueInv
  <2>5. \A u \in Threads \ {t} : DataDue(u)' <=> DataDue(u)
    BY <1>b, <2>1, <2>2 DEF DataDue
  <2>6. \A u \in Threads \ {t} : SeqDue(u)' <=> SeqDue(u)
    BY <2>1, <2>2 DEF SeqDue
  <2>7. DataDue(t) => DataDue(t)'
    BY <1>b, <2>1, <2>3, <2>4 DEF DataDue
  <2>8. SeqDue(t) => SeqDue(t)'
    BY <1>b, <2>1, <2>3, <2>4 DEF SeqDue
  <2> QED BY <2>5, <2>6, <2>7, <2>8
<1>c. ASSUME NEW t \in Threads, NEW l, pc' = [pc EXCEPT ![t] = l],
             UNCHANGED <<sendq, data_done, mr, mr_seq, buffer, seq_word>>,
             \A u \in Threads \ {t} : off'[u] = off[u] /\ size'[u] = size[u],
             \/ pc[t] \in {"idle", "reserve", "maxsize", "setsize", "copy"}
             \/ /\ pc[t] \in {"draw", "stamp"} /\ l \in {"stamp", "lock", "post"}
                /\ UNCHANGED <<off, size>>
             \/ pc[t] = "lock" /\ l = "post" /\ UNCHANGED <<off, size>>
             \/ pc[t] = "wait" /\ ~Queued(t)
      PROVE  CopyInv'
  <2>1. /\ \A u \in Threads : DataDue(u) => DataDue(u)'
        /\ \A u \in Threads : SeqDue(u) => SeqDue(u)'
    BY <1>b, <1>c
  <2>2. Queued(t) => pc[t] = "wait"
    BY <1>0 DEF Queued, QueueInv
  <2>3. DataDue(t) => UNCHANGED <<off, size>>
    BY <1>c, <2>2 DEF DataDue
  <2>4. \A u \in Threads : DataDue(u) => CellsOf(u)' = CellsOf(u)
    BY <1>c, <2>3 DEF CellsOf
  <2> QED BY <1>0, <1>c, <2>1, <2>4 DEF CopyInv, Cells
<1>2. CASE \E t \in Threads, n \in Lens : ClampAppend(t, n)
  <2> PICK t \in Threads, n \in Lens : ClampAppend(t, n)
    BY <1>2
  <2>1. \A u \in Threads \ {t} : off'[u] = off[u] /\ size'[u] = size[u]
    BY <1>a DEF ClampAppend
  <2> QED BY <1>c, <2>1 DEF ClampAppend, NewCall, Goto, replicaVars, clientVars
<1>3. CASE \E t \in Threads, n \in Lens, p \in Cells : BeginWritePos(t, n, p)
  <2> PICK t \in Threads, n \in Lens, p \in Cells : BeginWritePos(t, n, p)
    BY <1>3
  <2>1. \A u \in Threads \ {t} : off'[u] = off[u] /\ size'[u] = size[u]
    BY <1>a DEF BeginWritePos
  <2> QED BY <1>c, <2>1 DEF BeginWritePos, NewCall, Goto, replicaVars, clientVars
<1>4. ASSUME NEW t \in Threads, Step(t) PROVE CopyInv'
  <2>1. CASE ReserveAppend(t)
    <3>1. \A u \in Threads \ {t} : off'[u] = off[u] /\ size'[u] = size[u]
      BY <1>a, <2>1 DEF ReserveAppend
    <3> QED BY <1>c, <2>1, <3>1 DEF ReserveAppend, Goto, replicaVars
  <2>2. CASE MaxAppend(t)
    BY <1>c, <2>2 DEF MaxAppend, Goto, replicaVars, clientVars
  <2>3. CASE SetSize(t)
    BY <1>c, <2>3 DEF SetSize, Goto, replicaVars, threadVars
  <2>4. CASE CopyData(t)
    <3>1. /\ pc[t] = "copy" /\ pc' = [pc EXCEPT ![t] = "draw"]
          /\ UNCHANGED <<sendq, data_done, mr, mr_seq, seq_word, off, size>>
          /\ buffer' = [c \in Cells |-> IF c \in CellsOf(t) THEN call[t] ELSE buffer[c]]
      BY <2>4 DEF CopyData, Goto, replicaVars, threadVars
    <3>2. /\ \A u \in Threads : DataDue(u) => DataDue(u)'
          /\ \A u \in Threads : SeqDue(u) => SeqDue(u)'
      BY <1>b, <3>1
    <3>3. DataDue(t)'
      BY <1>a, <3>1 DEF DataDue
    <3>4. \A u \in Threads : CellsOf(u)' = CellsOf(u)
      BY <3>1 DEF CellsOf
    <3>5. ASSUME NEW c \in Cells
          PROVE  mr'[c] = buffer'[c] \/ \E u \in Threads : c \in CellsOf(u)' /\ DataDue(u)'
      <4>1. CASE c \in CellsOf(t)
        BY <3>3, <3>4, <4>1
      <4>2. CASE c \notin CellsOf(t)
        BY <1>0, <3>1, <3>2, <3>4, <4>2 DEF CopyInv
      <4> QED BY <4>1, <4>2
    <3> QED BY <1>0, <3>1, <3>2, <3>5 DEF CopyInv, Cells
  <2>5. CASE DrawSeq(t)
    BY <1>c, <2>5 DEF DrawSeq, Goto, replicaVars
  <2>6. CASE StampSeq(t)
    <3>1. /\ pc[t] = "stamp"
          /\ UNCHANGED <<sendq, data_done, mr, buffer, off, size>>
      BY <2>6 DEF StampSeq, replicaVars, threadVars
    <3>2. PICK l \in {"lock", "post"} : pc' = [pc EXCEPT ![t] = l]
      BY <2>6 DEF StampSeq, Goto
    <3>3. \A u \in Threads : DataDue(u) => DataDue(u)'
      BY <1>b, <3>1, <3>2
    <3>4. SeqDue(t)'
      BY <1>a, <3>2 DEF SeqDue
    <3>5. \A u \in Threads : CellsOf(u)' = CellsOf(u)
      BY <3>1 DEF CellsOf
    <3> QED BY <1>0, <3>1, <3>3, <3>4, <3>5 DEF CopyInv, Cells
  <2>7. CASE LockRecover(t)
    BY <1>c, <2>7 DEF LockRecover, Goto, replicaVars, clientVars, threadVars
  <2>8. CASE Post(t)
    <3>1. /\ pc[t] = "post" /\ pc' = [pc EXCEPT ![t] = "wait"] /\ sendq' = Append(sendq, t)
          /\ UNCHANGED <<data_done, mr, mr_seq, buffer, seq_word, off, size>>
      BY <2>8 DEF Post, Goto, clientVars, threadVars
    <3>2. /\ Len(sendq) \in Nat
          /\ \A i \in 1 .. Len(sendq) : sendq'[i] = sendq[i]
          /\ sendq'[Len(sendq) + 1] = t
          /\ \A u \in Threads : Queued(u)' <=> Queued(u) \/ u = t
      BY <1>0, <3>1, PostQueued
    <3>3. \A u \in Threads \ {t} : pc'[u] = pc[u]
      BY <1>a, <3>1
    <3>4. data_done => 1 \in 1 .. Len(sendq) /\ sendq'[1] = sendq[1] /\ sendq[1] # t
      <4>1. ASSUME data_done PROVE Len(sendq) # 0
        BY <1>0, <4>1, EmptySeq DEF QueueInv, SharedTypeOK
      <4> QED BY <1>0, <3>1, <3>2, <4>1 DEF QueueInv
    <3>5. \A u \in Threads : DataDue(u) => DataDue(u)'
      BY <3>1, <3>2, <3>3, <3>4 DEF DataDue
    <3>6. \A u \in Threads : SeqDue(u) => SeqDue(u)'
      BY <3>2, <3>3 DEF SeqDue
    <3>7. \A u \in Threads : CellsOf(u)' = CellsOf(u)
      BY <3>1 DEF CellsOf
    <3> QED BY <1>0, <3>1, <3>5, <3>6, <3>7 DEF CopyInv, Cells
  <2>9. CASE Return(t)
    <3>1. ~Queued(t)
      BY <2>9 DEF Return, Queued
    <3>2. \A u \in Threads \ {t} : off'[u] = off[u] /\ size'[u] = size[u]
      BY <1>a, <2>9 DEF Return, LeaveCall
    <3> QED BY <1>c, <2>9, <3>1, <3>2 DEF Return, Goto, replicaVars, clientVars
  <2> QED BY <1>4, <2>1, <2>2, <2>3, <2>4, <2>5, <2>6, <2>7, <2>8, <2>9 DEF Step
<1>5. CASE WriteData
  <2>1. /\ sendq # <<>> /\ ~data_done /\ data_done'
        /\ mr' = [c \in Cells |-> IF c \in CellsOf(Head(sendq)) THEN buffer[c] ELSE mr[c]]
        /\ UNCHANGED <<sendq, pc, mr_seq, buffer, seq_word, off, size>>
    BY <1>5 DEF WriteData, clientVars, threadVars
  <2>2. Head(sendq) = sendq[1]
    BY <1>0, <2>1, HeadTailProperties DEF SharedTypeOK
  <2>3. \A u \in Threads : Queued(u)' <=> Queued(u)
    BY <2>1 DEF Queued
  <2>4. \A u \in Threads : DataDue(u) /\ u # sendq[1] => DataDue(u)'
    BY <2>1, <2>3 DEF DataDue
  <2>5. \A u \in Threads : SeqDue(u) => SeqDue(u)'
    BY <2>1, <2>3 DEF SeqDue
  <2>6. \A u \in Threads : CellsOf(u)' = CellsOf(u)
    BY <2>1 DEF CellsOf
  <2>7. ASSUME NEW c \in Cells
        PROVE  mr'[c] = buffer'[c] \/ \E u \in Threads : c \in CellsOf(u)' /\ DataDue(u)'
    <3>1. CASE c \in CellsOf(sendq[1])
      BY <2>1, <2>2, <3>1
    <3>2. CASE c \notin CellsOf(sendq[1])
      <4>1. mr'[c] = mr[c] /\ buffer'[c] = buffer[c]
        BY <2>1, <2>2, <3>2
      <4>2. \A u \in Threads : c \in CellsOf(u) => u # sendq[1]
        BY <3>2
      <4> QED BY <1>0, <2>4, <2>6, <4>1, <4>2 DEF CopyInv
    <3> QED BY <3>1, <3>2
  <2> QED BY <1>0, <2>1, <2>5, <2>7 DEF CopyInv, Cells
<1>6. CASE WriteSeq
  <2>1. /\ sendq # <<>> /\ data_done /\ ~data_done' /\ sendq' = Tail(sendq) /\ mr_seq' = seq_word
        /\ UNCHANGED <<pc, mr, buffer, seq_word, off, size>>
    BY <1>6 DEF WriteSeq, clientVars, threadVars
  <2>2. \A u \in Threads : Queued(u)' <=> Queued(u) /\ u # sendq[1]
    BY <1>0, <2>1, TailQueued
  <2>3. \A u \in Threads : DataDue(u) => DataDue(u)'
    BY <2>1, <2>2 DEF DataDue
  <2>4. \A u \in Threads : CellsOf(u)' = CellsOf(u)
    BY <2>1 DEF CellsOf
  <2> QED BY <1>0, <2>1, <2>3, <2>4 DEF CopyInv, Cells
<1>7. CASE UNCHANGED sharedVars
  <2>1. UNCHANGED <<pc, sendq, data_done, mr, mr_seq, buffer, seq_word, off, size>>
    BY <1>7 DEF sharedVars, clientVars, replicaVars, threadVars
  <2>2. \A u \in Threads : /\ DataDue(u)' <=> DataDue(u)
                           /\ SeqDue(u)' <=> SeqDue(u)
                           /\ CellsOf(u)' = CellsOf(u)
    BY <2>1 DEF DataDue, SeqDue, Queued, CellsOf
  <2> QED BY <1>0, <2>1, <2>2 DEF CopyInv, Cells
<1> QED BY <1>2, <1>3, <1>4, <1>5, <1>6, <1>7 DEF SharedNext

-----------------------------------------------------------------------------
(* The theorems. *)

\* Nothing is reserved, counted or queued at first.
LEMMA SharedInitial == SharedInit => SharedInv
<1> SUFFICES ASSUME SharedInit PROVE SharedInv
  OBVIOUS
<1> USE SharedFileAssumption
<1>1. SharedTypeOK
  <2>1. sendq \in Seq(Threads)
    BY EmptySeq DEF SharedInit
  <2>2. 0 \in 0 .. BufSize /\ 0 \in 0 .. MaxCalls /\ 0 \in 0 .. MaxLen
    OBVIOUS
  <2> QED BY <2>1, <2>2 DEF SharedInit, SharedTypeOK
<1>2. Pending = {} /\ Undrawn = {}
  BY DEF SharedInit, Pending, Undrawn
<1>3. CountInv
  BY <1>2, FS_EmptySet DEF SharedInit, CountInv, Labels
<1>4. CallInv
  BY DEF SharedInit, CallInv
<1>5. QueueInv
  BY DEF SharedInit, QueueInv
<1>6. CopyInv
  BY DEF SharedInit, CopyInv
<1>7. SizeInv
  BY DEF SharedInit, SizeInv, SettledSizeKept
<1>8. AppendsTile
  <2>1. \A w \in Calls : reserved[w] = {}
    BY DEF SharedInit
  <2>2. UNION {reserved[w] : w \in Calls} = {}
    BY <2>1
  <2>3. 0 .. buf_offset - 1 = {}
    BY DEF SharedInit
  <2> QED BY <2>1, <2>2, <2>3 DEF AppendsTile
<1> QED BY <1>1, <1>3, <1>4, <1>5, <1>6, <1>7, <1>8 DEF SharedInv

\* SharedInv is an invariant of threads that write to one file.
THEOREM SharedInductive == SharedSpec => []SharedInv
<1>1. SharedInit => SharedInv
  BY SharedInitial
<1>2. SharedInv /\ [SharedNext]_sharedVars => SharedInv'
  BY SharedTypeStep, CountStep, CallStep, QueueStep, CopyStep, SizeStep, TileStep DEF SharedInv
<1> QED BY <1>1, <1>2, PTL DEF SharedSpec

\* Every variable always has a value its C++ counterpart can have; in
\* particular fetch_add (client.cc:318) never moves buf_offset past the data
\* cells, although the clamp before it has looked at an older offset.
THEOREM SharedTypeCorrect == SharedSpec => []SharedTypeOK
<1>1. SharedInv => SharedTypeOK
  BY DEF SharedInv
<1> QED BY <1>1, SharedInductive, PTL

\* The ranges of the appends of any number of threads never overlap and leave
\* no gap (client.cc:318).
THEOREM AppendsTileAlways == SharedSpec => []AppendsTile
<1>1. SharedInv => AppendsTile
  BY DEF SharedInv
<1> QED BY <1>1, SharedInductive, PTL

\* The replica follows the buffer whatever the order in which threads copy,
\* stamp and post, with and without recover_lock (client.cc:321).
THEOREM ReplicaFollowsAlways == SharedSpec => []ReplicaFollows
<1>1. SharedInv => ReplicaFollows
  <2> SUFFICES ASSUME SharedInv PROVE ReplicaFollows
    OBVIOUS
  <2>1. \A t \in Threads : Queued(t) => pc[t] = "wait"
    BY DEF SharedInv, QueueInv, Queued
  <2>2. sendq # <<>> => Head(sendq) = sendq[1]
    BY HeadTailProperties DEF SharedInv, SharedTypeOK
  <2>3. data_done => sendq # <<>>
    BY DEF SharedInv, QueueInv
  <2>4. ASSUME NEW t \in Threads, DataDue(t) PROVE Unsent(t)
    <3>1. CASE pc[t] \in {"draw", "stamp", "lock", "post"}
      <4>1. ASSUME sendq # <<>> PROVE Head(sendq) # t
        <5>1. 1 \in 1 .. Len(sendq) /\ Head(sendq) = sendq[1]
          BY <4>1, <2>2, EmptySeq, LenProperties DEF SharedInv, SharedTypeOK
        <5>2. Head(sendq) = t => Queued(t)
          BY <5>1 DEF Queued
        <5> QED BY <2>1, <3>1, <5>2
      <4> QED BY <3>1, <4>1 DEF Unsent
    <3>2. CASE Queued(t) /\ ~(data_done /\ sendq[1] = t)
      BY <2>1, <2>2, <3>2 DEF Unsent
    <3> QED BY <2>4, <3>1, <3>2 DEF DataDue
  <2>5. \A t \in Threads : SeqDue(t) => pc[t] \in {"lock", "post", "wait"}
    BY <2>1 DEF SeqDue
  <2> QED BY <2>4, <2>5 DEF SharedInv, CopyInv, ReplicaFollows
<1> QED BY <1>1, SharedInductive, PTL

\* A file size that had settled is never undone (client.cc:319, 332).
THEOREM SettledSizeKeptAlways == SharedSpec => []SettledSizeKept
<1>1. SharedInv => SettledSizeKept
  BY DEF SharedInv, SizeInv
<1> QED BY <1>1, SharedInductive, PTL

=============================================================================
