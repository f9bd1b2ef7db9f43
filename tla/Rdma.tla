-------------------------------- MODULE Rdma --------------------------------
(***************************************************************************)
(* The RDMA data path between one CSLClient and the replication servers,   *)
(* as src/rdma/client.cc uses the Infinity library.                        *)
(*                                                                         *)
(* The client owns one registered buffer: data cells followed by the       *)
(* sequence word at seq_offset.  Every server keeps a memory region (MR)   *)
(* of the same shape for the file.  A work request (WR) is one-sided: the  *)
(* client posts it on the queue pair of a peer and the network card later  *)
(* copies the CURRENT content of the client buffer to the same place of    *)
(* the peer's MR (zero copy: the bytes are read when the WR executes, not  *)
(* when it is posted).  A queue pair is reliable and ordered.              *)
(*                                                                         *)
(* Simplifications:                                                        *)
(*  - a cell stands for one application record and is copied atomically;   *)
(*    a WR over several cells is not: its cells arrive one at a time;      *)
(*  - a WR posted to a dead peer never completes, which is how the todo    *)
(*    comment at client.cc:269 describes it.                               *)
(***************************************************************************)
EXTENDS Integers, Sequences, FiniteSets, Functions

CONSTANTS
    Peers,      \* the addresses at which replication servers can run
    BufSize     \* data cells of the buffer, the sequence word excluded

ASSUME BufSizeAssumption == BufSize \in Nat

VARIABLES
    buffer,     \* client: content of the data cells of the registered buffer
    seq_word,   \* client: content of *seq_addr
    alive,      \* servers whose process is up
    conn,       \* peers with a queue pair to a process that is still the same
    sendq,      \* per peer: posted WRs that have not completed, in order
    mr,         \* per peer: data cells of the server's MR for this file
    mr_seq      \* per peer: sequence word of that MR

rdmaVars == <<buffer, seq_word, alive, conn, sendq, mr, mr_seq>>

Cells == 0 .. BufSize - 1

\* What memset leaves in a fresh MR.
Zeroed == [c \in Cells |-> 0]

\* A WR copies its cells, or the sequence word (stamp); tok is the request
\* token it completes: the number of a write, or 0 for a bulk recovery.
WR == [cells : SUBSET Cells, stamp : BOOLEAN, tok : Nat]

DataWR(cells, tok) == [cells |-> cells, stamp |-> FALSE, tok |-> tok]
SeqWR(tok) == [cells |-> {}, stamp |-> TRUE, tok |-> tok]

\* QueuePair::writeTwoPlace: the data WR, then the sequence word WR.
writeTwoPlace(q, cells, tok) == q \o <<DataWR(cells, tok), SeqWR(tok)>>

\* CombinedRequestToken::CheckIfBothCompleted for the token tok of peer p.
BothCompleted(p, tok) == \A wr \in Range(sendq[p]) : wr.tok # tok

-----------------------------------------------------------------------------

\* The network card copies one more cell of the oldest WR of p.
NicPlace(p) ==
    /\ p \in conn
    /\ sendq[p] # <<>>
    /\ \E c \in Head(sendq[p]).cells :
         /\ mr' = [mr EXCEPT ![p][c] = buffer[c]]
         /\ sendq' = [sendq EXCEPT ![p][1].cells = @ \ {c}]
    /\ UNCHANGED <<buffer, seq_word, alive, conn, mr_seq>>

\* The oldest WR of p has copied all its cells and completes; the sequence
\* word WR copies the word as it stands now.
NicComplete(p) ==
    /\ p \in conn
    /\ sendq[p] # <<>>
    /\ Head(sendq[p]).cells = {}
    /\ mr_seq' = IF Head(sendq[p]).stamp
                 THEN [mr_seq EXCEPT ![p] = seq_word]
                 ELSE mr_seq
    /\ sendq' = [sendq EXCEPT ![p] = Tail(@)]
    /\ UNCHANGED <<buffer, seq_word, alive, conn, mr>>

\* A server process dies: its memory, and with it its MR, is gone, and the
\* WRs posted to it stay uncompleted.
ServerDown(p) ==
    /\ p \in alive
    /\ alive' = alive \ {p}
    /\ conn' = conn \ {p}
    /\ mr' = [mr EXCEPT ![p] = Zeroed]
    /\ mr_seq' = [mr_seq EXCEPT ![p] = 0]
    /\ UNCHANGED <<buffer, seq_word, sendq>>

=============================================================================
