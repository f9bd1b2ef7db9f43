----------------------------- MODULE SharedFile -----------------------------
(***************************************************************************)
(* Several threads of the application writing to one file: Append and      *)
(* WritePos of CSLClient, interleaved at every access to what the threads  *)
(* share (buf_offset and seq are atomic, file_size and the buffer are      *)
(* not), and the way of the data to one replica.                           *)
(*                                                                         *)
(* The replica is one whose completion the writer waits for.  Both builds  *)
(* are modelled: WriteQuorum, which holds recover_lock while it posts and  *)
(* waits, and WriteSync (USE_QUORUM_WRITE 0), which takes no lock.         *)
(*                                                                         *)
(* A call stores its own number in every cell of its range.  The           *)
(* application keeps the appended total within the buffer, as the README   *)
(* of the repository asks; what happens beyond is the subject of LogFile.  *)
(* Peers do not fail here (QuorumWrite), and nobody reads or seeks.        *)
(***************************************************************************)
EXTENDS Integers, Sequences, FiniteSets

CONSTANTS
    Threads, NoThread,
    BufSize,     \* seq_offset: data cells of the buffer
    MaxLen,      \* longest write, in cells
    MaxCalls     \* bound: calls of all threads together

ASSUME SharedFileAssumption ==
    /\ NoThread \notin Threads
    /\ BufSize \in Nat /\ MaxLen \in Nat /\ MaxCalls \in Nat

VARIABLES
    use_quorum,        \* the build: WriteQuorum or WriteSync
    \* CSLClient
    buf_offset, file_size, seq,
    buffer, seq_word,  \* the registered buffer and its last word
    recover_lock,      \* the thread that holds it, or NoThread
    \* the queue pair and the replica
    sendq,             \* threads whose work requests are posted, oldest first
    data_done,         \* the data of the oldest is written, its word is not
    mr, mr_seq,
    \* per thread
    pc, off, size,     \* where it is, and cur_off (or pos) and size of its call
    max_size,          \* the file size it has computed and not yet stored
    num,               \* the sequence number it has drawn
    \* history
    call,              \* per thread: the number of its call
    calls,             \* calls begun
    appended,          \* cells asked for by Append
    reserved,          \* per call: the cells Append reserved for it
    settled            \* file_size when all threads were last outside a call

clientVars  == <<buf_offset, file_size, seq, buffer, seq_word>>
replicaVars == <<sendq, data_done, mr, mr_seq>>
threadVars  == <<off, size, max_size, num, call>>
historyVars == <<calls, appended, reserved>>
sharedVars  == <<use_quorum, clientVars, recover_lock, replicaVars, pc, threadVars,
                 historyVars, settled>>

Cells == 0 .. BufSize - 1
Calls == 1 .. MaxCalls
CellsOf(t) == off[t] .. off[t] + size[t] - 1
LeastOf(a, b) == IF a < b THEN a ELSE b
MostOf(a, b) == IF a > b THEN a ELSE b

SharedInit ==
    /\ use_quorum \in BOOLEAN
    /\ buf_offset = 0 /\ file_size = 0 /\ seq = 0
    /\ buffer = [c \in Cells |-> 0] /\ seq_word = 0
    /\ recover_lock = NoThread
    /\ sendq = <<>> /\ data_done = FALSE
    /\ mr = [c \in Cells |-> 0] /\ mr_seq = 0
    /\ pc = [t \in Threads |-> "idle"]
    /\ off = [t \in Threads |-> 0] /\ size = [t \in Threads |-> 0]
    /\ max_size = [t \in Threads |-> 0] /\ num = [t \in Threads |-> 0]
    /\ call = [t \in Threads |-> 0] /\ calls = 0 /\ appended = 0
    /\ reserved = [w \in Calls |-> {}]
    /\ settled = 0

\* Thread t moves on; when it was the last one inside a call the file settles.
Goto(t, label) ==
    /\ pc' = [pc EXCEPT ![t] = label]
    /\ settled' = IF \A u \in Threads : pc'[u] = "idle" THEN file_size ELSE settled

NewCall(t) ==
    /\ pc[t] = "idle"
    /\ calls < MaxCalls
    /\ calls' = calls + 1
    /\ call' = [call EXCEPT ![t] = calls + 1]

\* The locals of a call go out of scope.
LeaveCall(t) ==
    /\ off' = [off EXCEPT ![t] = 0] /\ size' = [size EXCEPT ![t] = 0]
    /\ max_size' = [max_size EXCEPT ![t] = 0] /\ num' = [num EXCEPT ![t] = 0]
    /\ call' = [call EXCEPT ![t] = 0]

-----------------------------------------------------------------------------
(* Append and WritePos up to the call of WriteQuorum. *)

\* size = min(size, getSizeInBytes() - buf_offset), the region being one word
\* longer than the data.
ClampAppend(t, n) ==
    /\ NewCall(t)
    /\ appended + n <= BufSize
    /\ appended' = appended + n
    /\ size' = [size EXCEPT ![t] = LeastOf(n, BufSize + 1 - buf_offset)]
    /\ off' = [off EXCEPT ![t] = buf_offset]
    /\ Goto(t, "reserve")
    /\ UNCHANGED <<use_quorum, clientVars, recover_lock, replicaVars, max_size, num, reserved>>

\* Faulty variant: the offset the clamp has seen is used, not one fetch_add
\* returns.
ReserveAppend_Stale(t) ==
    /\ pc[t] = "reserve"
    /\ buf_offset' = off[t] + size[t]
    /\ reserved' = [reserved EXCEPT ![call[t]] = CellsOf(t)]
    /\ Goto(t, "maxsize")
    /\ UNCHANGED <<use_quorum, file_size, seq, buffer, seq_word, recover_lock, replicaVars,
                   threadVars, calls, appended>>

\* cur_off = buf_offset.fetch_add(size)
ReserveAppend(t) ==
    /\ pc[t] = "reserve"
    /\ off' = [off EXCEPT ![t] = buf_offset]
    /\ buf_offset' = buf_offset + size[t]
    /\ reserved' = [reserved EXCEPT ![call[t]] = buf_offset .. buf_offset + size[t] - 1]
    /\ Goto(t, "maxsize")
    /\ UNCHANGED <<use_quorum, file_size, seq, buffer, seq_word, recover_lock, replicaVars,
                   size, max_size, num, call, calls, appended>>

\* Faulty variant: an append always makes the file longer by its size.
MaxAppend_Grow(t) ==
    /\ pc[t] = "maxsize"
    /\ max_size' = [max_size EXCEPT ![t] = file_size + size[t]]
    /\ Goto(t, "setsize")
    /\ UNCHANGED <<use_quorum, clientVars, recover_lock, replicaVars, off, size, num, call,
                   historyVars>>

\* max(file_size, buf_offset.load()), with the offset other threads may have
\* moved meanwhile.
MaxAppend(t) ==
    /\ pc[t] = "maxsize"
    /\ max_size' = [max_size EXCEPT ![t] = MostOf(file_size, buf_offset)]
    /\ Goto(t, "setsize")
    /\ UNCHANGED <<use_quorum, clientVars, recover_lock, replicaVars, off, size, num, call,
                   historyVars>>

\* Faulty variant: the file ends where this write ends.
BeginWritePos_NoMax(t, n, p) ==
    /\ NewCall(t)
    /\ p + n <= BufSize
    /\ size' = [size EXCEPT ![t] = n]
    /\ off' = [off EXCEPT ![t] = p]
    /\ max_size' = [max_size EXCEPT ![t] = p + n]
    /\ Goto(t, "setsize")
    /\ UNCHANGED <<use_quorum, clientVars, recover_lock, replicaVars, num, appended, reserved>>

\* WritePos: the clamp reads nothing shared; max(pos + size, file_size).
BeginWritePos(t, n, p) ==
    /\ NewCall(t)
    /\ p + n <= BufSize
    /\ size' = [size EXCEPT ![t] = LeastOf(n, BufSize + 1 - p)]
    /\ off' = [off EXCEPT ![t] = p]
    /\ max_size' = [max_size EXCEPT ![t] = MostOf(p + size'[t], file_size)]
    /\ Goto(t, "setsize")
    /\ UNCHANGED <<use_quorum, clientVars, recover_lock, replicaVars, num, appended, reserved>>

\* The store to file_size, which is not atomic with the max.
SetSize(t) ==
    /\ pc[t] = "setsize"
    /\ file_size' = max_size[t]
    /\ Goto(t, "copy")
    /\ UNCHANGED <<use_quorum, buf_offset, seq, buffer, seq_word, recover_lock, replicaVars,
                   threadVars, historyVars>>

\* memcpy
CopyData(t) ==
    /\ pc[t] = "copy"
    /\ buffer' = [c \in Cells |-> IF c \in CellsOf(t) THEN call[t] ELSE buffer[c]]
    /\ Goto(t, "draw")
    /\ UNCHANGED <<use_quorum, buf_offset, file_size, seq, seq_word, recover_lock, replicaVars,
                   threadVars, historyVars>>

\* seq.fetch_add(1)
DrawSeq(t) ==
    /\ pc[t] = "draw"
    /\ num' = [num EXCEPT ![t] = seq]
    /\ seq' = seq + 1
    /\ Goto(t, "stamp")
    /\ UNCHANGED <<use_quorum, buf_offset, file_size, buffer, seq_word, recover_lock,
                   replicaVars, off, size, max_size, call, historyVars>>

\* *seq_addr = ...; two threads may store in either order.
StampSeq(t) ==
    /\ pc[t] = "stamp"
    /\ seq_word' = num[t]
    /\ Goto(t, IF use_quorum THEN "lock" ELSE "post")
    /\ UNCHANGED <<use_quorum, buf_offset, file_size, seq, buffer, recover_lock, replicaVars,
                   threadVars, historyVars>>

-----------------------------------------------------------------------------
(* WriteQuorum, WriteSync and the queue pair. *)

\* The lock_guard of WriteQuorum.
LockRecover(t) ==
    /\ pc[t] = "lock"
    /\ recover_lock = NoThread
    /\ recover_lock' = t
    /\ Goto(t, "post")
    /\ UNCHANGED <<use_quorum, clientVars, replicaVars, threadVars, historyVars>>

\* writeTwoPlace posts the data and the word together.
Post(t) ==
    /\ pc[t] = "post"
    /\ sendq' = Append(sendq, t)
    /\ Goto(t, "wait")
    /\ UNCHANGED <<use_quorum, clientVars, recover_lock, data_done, mr, mr_seq, threadVars,
                   historyVars>>

\* Faulty variant: the work request writes its first cell only.
WriteData_Short ==
    /\ sendq # <<>> /\ ~data_done
    /\ mr' = [mr EXCEPT ![off[Head(sendq)]] = buffer[off[Head(sendq)]]]
    /\ data_done' = TRUE
    /\ UNCHANGED <<use_quorum, clientVars, recover_lock, sendq, mr_seq, pc, threadVars,
                   historyVars, settled>>

\* The network card executes the requests in order, reading the buffer as it
\* is then.
WriteData ==
    /\ sendq # <<>> /\ ~data_done
    /\ mr' = [c \in Cells |-> IF c \in CellsOf(Head(sendq)) THEN buffer[c] ELSE mr[c]]
    /\ data_done' = TRUE
    /\ UNCHANGED <<use_quorum, clientVars, recover_lock, sendq, mr_seq, pc, threadVars,
                   historyVars, settled>>

WriteSeq ==
    /\ sendq # <<>> /\ data_done
    /\ mr_seq' = seq_word
    /\ data_done' = FALSE
    /\ sendq' = Tail(sendq)
    /\ UNCHANGED <<use_quorum, clientVars, recover_lock, mr, pc, threadVars, historyVars, settled>>

\* Faulty variant: recover_lock is not released.
Return_Locked(t) ==
    /\ pc[t] = "wait"
    /\ \A i \in 1 .. Len(sendq) : sendq[i] # t
    /\ Goto(t, "idle")
    /\ LeaveCall(t)
    /\ UNCHANGED <<use_quorum, clientVars, recover_lock, replicaVars, historyVars>>

\* Both tokens have completed: the guard, if there is one, unlocks and the
\* call returns.
Return(t) ==
    /\ pc[t] = "wait"
    /\ \A i \in 1 .. Len(sendq) : sendq[i] # t
    /\ recover_lock' = IF use_quorum THEN NoThread ELSE recover_lock
    /\ Goto(t, "idle")
    /\ LeaveCall(t)
    /\ UNCHANGED <<use_quorum, clientVars, replicaVars, historyVars>>

-----------------------------------------------------------------------------
Lens == 1 .. MaxLen

Step(t) == \/ ReserveAppend(t) \/ MaxAppend(t) \/ SetSize(t) \/ CopyData(t) \/ DrawSeq(t)
           \/ StampSeq(t) \/ LockRecover(t) \/ Post(t) \/ Return(t)

SharedNext ==
    \/ \E t \in Threads, n \in Lens : ClampAppend(t, n)
    \/ \E t \in Threads, n \in Lens, p \in Cells : BeginWritePos(t, n, p)
    \/ \E t \in Threads : Step(t)
    \/ WriteData
    \/ WriteSeq

\* Every thread is scheduled until its call returns, and the network card
\* executes what is posted.  The calls are finitely many, so that a thread
\* that waits for recover_lock is not passed over for ever.
SharedSpec ==
    /\ SharedInit /\ [][SharedNext]_sharedVars
    /\ \A t \in Threads : WF_sharedVars(Step(t))
    /\ WF_sharedVars(WriteData \/ WriteSeq)

-----------------------------------------------------------------------------
(* Properties. *)

\* Every variable has the values its C++ counterpart can have.
SharedTypeOK ==
    /\ use_quorum \in BOOLEAN /\ data_done \in BOOLEAN
    /\ buf_offset \in 0 .. BufSize /\ file_size \in 0 .. BufSize /\ settled \in 0 .. BufSize
    /\ seq \in 0 .. MaxCalls /\ seq_word \in 0 .. MaxCalls /\ mr_seq \in 0 .. MaxCalls
    /\ buffer \in [Cells -> 0 .. MaxCalls] /\ mr \in [Cells -> 0 .. MaxCalls]
    /\ recover_lock \in Threads \cup {NoThread}
    /\ sendq \in Seq(Threads)
    /\ off \in [Threads -> 0 .. BufSize] /\ size \in [Threads -> 0 .. MaxLen]
    /\ max_size \in [Threads -> 0 .. BufSize] /\ num \in [Threads -> 0 .. MaxCalls]
    /\ call \in [Threads -> 0 .. MaxCalls]
    /\ reserved \in [Calls -> SUBSET Cells]

\* Threads that append at the same time get ranges that do not overlap and
\* leave no gap: together they are the cells below buf_offset (client.cc:318).
AppendsTile ==
    /\ \A v, w \in Calls : v # w => reserved[v] \cap reserved[w] = {}
    /\ UNION {reserved[w] : w \in Calls} = 0 .. buf_offset - 1

\* The threads with work the replica has not seen yet.
Unsent(t) == /\ pc[t] \in {"draw", "stamp", "lock", "post", "wait"}
             /\ ~(sendq # <<>> /\ Head(sendq) = t /\ data_done)

\* The replica differs from the buffer only where a call in progress has still
\* to write, and in the sequence word only while one has: whatever the order in
\* which threads copy, stamp and post, also to the same cells, the replica ends
\* up equal to the buffer and a call that returned is on it.
ReplicaFollows ==
    /\ \A c \in Cells : mr[c] = buffer[c] \/ \E t \in Threads : c \in CellsOf(t) /\ Unsent(t)
    /\ mr_seq = seq_word \/ \E t \in Threads : pc[t] \in {"lock", "post", "wait"}

\* The max and the store of file_size are not atomic, so of two calls that
\* overlap in time one can undo the other's size.  Sizes that had settled
\* before are never undone (client.cc:319, 332).
SettledSizeKept == file_size >= settled

\* Every Append and WritePos returns: whoever holds recover_lock gives it back.
CallsReturn == \A t \in Threads : pc[t] # "idle" ~> pc[t] = "idle"

=============================================================================
