----------------------------- MODULE QuorumWrite -----------------------------
(***************************************************************************)
(* One CSLClient with an open file (in_use): the application thread that   *)
(* writes (Append / WritePos -> WriteQuorum) and the ZooKeeper completion  *)
(* thread that runs ClientWatcher and replaces failed peers, over the RDMA *)
(* data path and ZooKeeper, with servers that crash, are wrongly expired,  *)
(* and start again.                                                        *)
(*                                                                         *)
(* Modelled:                                                               *)
(*  - every step at which the two threads, the network card and ZooKeeper  *)
(*    can interleave is an action of its own;                              *)
(*  - a write stores its own number (1, 2, ...) in one cell, so that the   *)
(*    larger number in a cell is the later write;                          *)
(*  - recover_lock is the glibc mutex behind std::mutex: unlock() frees it *)
(*    whoever holds it, lock() waits until it is free, also for a thread   *)
(*    that holds it already.                                               *)
(*                                                                         *)
(* Not modelled here: several application threads on one file; the memory  *)
(* corruption that the unprotected remote_props allows (client.cc:689), of *)
(* which only the visible outcome is kept, namely that the posting loop    *)
(* may or may not visit a peer inserted while it runs and does not visit   *)
(* one erased before it gets there; and connecting to a server that is     *)
(* registered but dead, where the library ends the process: AddPeer waits  *)
(* for a live one.                                                         *)
(***************************************************************************)
EXTENDS Rdma, ZooKeeper

CONSTANTS
    RepFactor,    \* rep_num, the replication factor the client asks for
    InitServers,  \* servers registered when the client starts
    NoPeer,       \* the empty peer address
    MaxWrites,    \* bound: writes the application makes
    MaxCrashes,   \* bound: crashes of servers
    MaxExpiries,  \* bound: expirations of servers that are alive
    MaxStarts     \* bound: servers started after the client

ASSUME ConstantsAssumption ==
    /\ RepFactor \in Nat \ {0}
    /\ InitServers \in SUBSET Peers
    /\ IsFiniteSet(Peers)
    /\ NoPeer \notin Peers
    /\ MaxWrites \in Nat
    /\ MaxCrashes \in Nat
    /\ MaxExpiries \in Nat
    /\ MaxStarts \in Nat

VARIABLES
    \* CSLClient
    rep_factor,
    peers,         \* peers, and the keys of remote_props
    op_queue,      \* per peer: request tokens (write numbers) not yet popped
    file_size,     \* data cells below file_size belong to the file
    seq,
    recover_lock,  \* TRUE when locked
    in_use,        \* the file is open
    \* the application thread
    wpc,           \* where it is in Append / WritePos / WriteQuorum
    pos,           \* cell of the current write
    todo,          \* peers the posting loop has still to visit
    flagged,       \* peers whose token of this write has all_prev_completed_
    \* the completion thread
    cpc,           \* where it is in ClientWatcher
    ev,            \* type of the event it is handling
    new_peer,      \* the replacement it is adding
    \* history, never read by the code
    nwr,           \* number of the current or last write
    loc,           \* per write: its cell
    acks,          \* per write: the flagged peers when it returned
    synced,        \* connected peers that have been given the whole file
    suspended,     \* ClientWatcher holds writes back and has not let go
    crashes, expiries, starts  \* spent of the bounds

clientVars  == <<rep_factor, peers, op_queue, file_size, seq, recover_lock,
                 in_use>>
writerVars  == <<wpc, pos, todo, flagged, nwr, loc, acks>>
watcherVars == <<cpc, ev, new_peer>>
historyVars == <<synced, suspended, crashes, expiries, starts>>
vars == <<rdmaVars, zkVars, clientVars, writerVars, watcherVars, historyVars>>

Writes == 1 .. MaxWrites

\* rep_factor / 2 is integer division.
Majority(S) == Cardinality(S) > rep_factor \div 2

-----------------------------------------------------------------------------
\* A fresh client: getPeersFromZK found no client node and took the first
\* rep_factor children of /servers (all of them, lowering rep_factor, when
\* there are fewer); init connected to them and left a watch on each;
\* createClientZKNode stored the list.
Init ==
    /\ buffer = Zeroed /\ seq_word = 0
    /\ alive = InitServers
    /\ servers = InitServers /\ orphans = {}
    /\ rep_factor = IF Cardinality(InitServers) < RepFactor
                    THEN Cardinality(InitServers) ELSE RepFactor
    /\ peers \in {P \in SUBSET InitServers : Cardinality(P) = rep_factor}
    /\ conn = peers /\ exists_watch = peers /\ zknode = peers /\ synced = peers
    /\ sendq = [p \in Peers |-> <<>>]
    /\ mr = [p \in Peers |-> Zeroed] /\ mr_seq = [p \in Peers |-> 0]
    /\ child_watch = FALSE /\ events = <<>>
    /\ op_queue = [p \in Peers |-> <<>>]
    /\ file_size = 0 /\ seq = 0 /\ recover_lock = FALSE /\ in_use = TRUE
    /\ wpc = "idle" /\ pos = 0 /\ todo = {} /\ flagged = {}
    /\ cpc = "idle" /\ ev = "none" /\ new_peer = NoPeer
    /\ nwr = 0 /\ loc = [w \in Writes |-> 0] /\ acks = [w \in Writes |-> {}]
    /\ suspended = FALSE /\ crashes = 0 /\ expiries = 0 /\ starts = 0

-----------------------------------------------------------------------------
(* The application thread. *)

\* Faulty variant: file_size is raised to one record past the end of the write.
BeginWrite_OffByOne(c) ==
    /\ wpc = "idle"
    /\ nwr < MaxWrites
    /\ nwr' = nwr + 1
    /\ pos' = c
    /\ loc' = [loc EXCEPT ![nwr + 1] = c]
    /\ file_size' = IF c + 2 > file_size THEN c + 2 ELSE file_size
    /\ wpc' = "copy"
    /\ UNCHANGED <<rdmaVars, zkVars, rep_factor, peers, op_queue, seq, recover_lock, in_use,
                   todo, flagged, acks, watcherVars, historyVars>>

\* Append and WritePos reserve cell c (Append the cell at buf_offset, which
\* lseek can put anywhere; WritePos any) and raise file_size.
BeginWrite(c) ==
    /\ wpc = "idle"
    /\ nwr < MaxWrites
    /\ nwr' = nwr + 1
    /\ pos' = c
    /\ loc' = [loc EXCEPT ![nwr + 1] = c]
    /\ file_size' = IF c + 1 > file_size THEN c + 1 ELSE file_size
    /\ wpc' = "copy"
    /\ UNCHANGED <<rdmaVars, zkVars, rep_factor, peers, op_queue, seq, recover_lock, in_use,
                   todo, flagged, acks, watcherVars, historyVars>>

\* memcpy of the record into the registered buffer.
CopyData ==
    /\ wpc = "copy"
    /\ buffer' = [buffer EXCEPT ![pos] = nwr]
    /\ wpc' = "stamp"
    /\ UNCHANGED <<seq_word, alive, conn, sendq, mr, mr_seq, zkVars, clientVars,
                   pos, todo, flagged, nwr, loc, acks, watcherVars, historyVars>>

\* *seq_addr = seq.fetch_add(1)
StampSeq ==
    /\ wpc = "stamp"
    /\ seq_word' = seq
    /\ seq' = seq + 1
    /\ wpc' = "lock"
    /\ UNCHANGED <<buffer, alive, conn, sendq, mr, mr_seq, zkVars,
                   rep_factor, in_use, peers, op_queue, file_size, recover_lock,
                   pos, todo, flagged, nwr, loc, acks, watcherVars, historyVars>>

\* WriteQuorum takes recover_lock and starts its loop over remote_props.
LockRecover ==
    /\ wpc = "lock"
    /\ ~recover_lock
    /\ recover_lock' = TRUE
    /\ todo' = peers
    /\ flagged' = {}
    /\ wpc' = "post"
    /\ UNCHANGED <<rdmaVars, zkVars, rep_factor, in_use, peers, op_queue, file_size, seq,
                   pos, nwr, loc, acks, watcherVars, historyVars>>

\* One iteration of the posting loop: push the token, then writeTwoPlace.
\* A peer that was inserted after the loop started may be visited as well.
PostTo(p) ==
    /\ wpc = "post"
    /\ p \in peers
    /\ p \in todo \/ (p = new_peer /\ nwr \notin Range(op_queue[p]))
    /\ todo' = todo \ {p}
    /\ op_queue' = [op_queue EXCEPT ![p] = Append(@, nwr)]
    /\ sendq' = [sendq EXCEPT ![p] = writeTwoPlace(@, {pos}, nwr)]
    /\ UNCHANGED <<buffer, seq_word, alive, conn, mr, mr_seq, zkVars,
                   rep_factor, in_use, peers, file_size, seq, recover_lock,
                   wpc, pos, flagged, nwr, loc, acks, watcherVars, historyVars>>

\* Faulty variant: the posting loop may stop before it has visited every peer.
FinishPost_Early ==
    /\ wpc = "post"
    /\ todo' = {}
    /\ wpc' = "poll"
    /\ UNCHANGED <<rdmaVars, zkVars, clientVars, pos, flagged, nwr, loc, acks,
                   watcherVars, historyVars>>

\* The posting loop has visited every peer that was not erased under it.
FinishPost ==
    /\ wpc = "post"
    /\ todo \cap peers = {}
    /\ todo' = {}
    /\ wpc' = "poll"
    /\ UNCHANGED <<rdmaVars, zkVars, clientVars, pos, flagged, nwr, loc, acks,
                   watcherVars, historyVars>>

\* Faulty variant: any completed token of p counts for the current write.
PollPeer_AnyToken(p) ==
    /\ wpc = "poll"
    /\ p \in peers
    /\ op_queue[p] # <<>>
    /\ BothCompleted(p, Head(op_queue[p]))
    /\ op_queue' = [op_queue EXCEPT ![p] = Tail(@)]
    /\ flagged' = flagged \cup {p}
    /\ UNCHANGED <<rdmaVars, zkVars, rep_factor, in_use, peers, file_size, seq,
                   recover_lock, wpc, pos, todo, nwr, loc, acks, watcherVars, historyVars>>

\* Faulty variant: the token is popped without a look at its completion.
PollPeer_Unchecked(p) ==
    /\ wpc = "poll"
    /\ p \in peers
    /\ op_queue[p] # <<>>
    /\ op_queue' = [op_queue EXCEPT ![p] = Tail(@)]
    /\ flagged' = IF Head(op_queue[p]) = nwr THEN flagged \cup {p} ELSE flagged
    /\ UNCHANGED <<rdmaVars, zkVars, rep_factor, in_use, peers, file_size, seq,
                   recover_lock, wpc, pos, todo, nwr, loc, acks, watcherVars, historyVars>>

\* One visit of the polling loop to a peer whose oldest token has completed:
\* that token, and only that one, is flagged and popped.
PollPeer(p) ==
    /\ wpc = "poll"
    /\ p \in peers
    /\ op_queue[p] # <<>>
    /\ BothCompleted(p, Head(op_queue[p]))
    /\ op_queue' = [op_queue EXCEPT ![p] = Tail(@)]
    /\ flagged' = IF Head(op_queue[p]) = nwr THEN flagged \cup {p} ELSE flagged
    /\ UNCHANGED <<rdmaVars, zkVars, rep_factor, in_use, peers, file_size, seq, recover_lock,
                   wpc, pos, todo, nwr, loc, acks, watcherVars, historyVars>>

\* Faulty variant: waits for every peer.
quorumCompleted_All == peers \subseteq flagged

\* quorumCompleted: too few peers to ever gather a quorum, or a quorum of
\* this write's tokens flagged.
quorumCompleted == ~Majority(peers) \/ Majority(flagged)

\* WriteQuorum returns and the lock guard unlocks; Append / WritePos returns.
\* A double unlock can make this one cancel a suspension.
FinishWrite ==
    /\ wpc = "poll"
    /\ quorumCompleted
    /\ recover_lock' = FALSE
    /\ acks' = [acks EXCEPT ![nwr] = flagged]
    /\ flagged' = {}
    /\ wpc' = "idle"
    /\ UNCHANGED <<rdmaVars, zkVars, rep_factor, in_use, peers, op_queue, file_size, seq,
                   pos, todo, nwr, loc, watcherVars, historyVars>>

-----------------------------------------------------------------------------
(* The completion thread: ClientWatcher and what it calls. *)

\* A deleted event: replacePeer first erases the peer, and with it its queue
\* pair and its op_queue.  A peer that is not in remote_props makes
\* replacePeer fail before it looks for another.
HandleDeleted ==
    /\ cpc = "idle"
    /\ events # <<>>
    /\ Head(events).type = "deleted"
    /\ LET p == Head(events).path IN
         IF p \in peers
         THEN /\ peers' = peers \ {p}
              /\ conn' = conn \ {p}
              /\ synced' = synced \ {p}
              /\ sendq' = [sendq EXCEPT ![p] = <<>>]
              /\ op_queue' = [op_queue EXCEPT ![p] = <<>>]
              /\ cpc' = "pick"
         ELSE /\ cpc' = "failed"
              /\ UNCHANGED <<peers, conn, synced, sendq, op_queue>>
    /\ ev' = "deleted"
    /\ events' = Tail(events)
    /\ UNCHANGED <<buffer, seq_word, alive, mr, mr_seq,
                   servers, orphans, zknode, exists_watch, child_watch,
                   rep_factor, in_use, file_size, seq, recover_lock, writerVars, new_peer,
                   suspended, crashes, expiries, starts>>

\* A child event: replacePeer("") only looks for another peer.
HandleChild ==
    /\ cpc = "idle"
    /\ events # <<>>
    /\ Head(events).type = "child"
    /\ ev' = "child"
    /\ cpc' = "pick"
    /\ events' = Tail(events)
    /\ UNCHANGED <<rdmaVars, servers, orphans, zknode, exists_watch, child_watch, clientVars,
                   writerVars, new_peer, historyVars>>

\* Faulty variant: the client's node lists the peer before it is recovered.
AddPeer_EarlyNode(p) ==
    /\ cpc = "pick"
    /\ p \in servers \ peers
    /\ p \in alive
    /\ peers' = peers \cup {p}
    /\ conn' = conn \cup {p}
    /\ zknode' = peers \cup {p}
    /\ new_peer' = p
    /\ cpc' = "exists"
    /\ UNCHANGED <<buffer, seq_word, alive, sendq, mr, mr_seq,
                   servers, orphans, exists_watch, child_watch, events,
                   rep_factor, in_use, op_queue, file_size, seq, recover_lock, writerVars, ev,
                   historyVars>>

\* replacePeer takes a child of /servers that is not a peer, AddPeer connects
\* to it and inserts it in remote_props and peers with an empty op_queue.
AddPeer(p) ==
    /\ cpc = "pick"
    /\ p \in servers \ peers
    /\ p \in alive
    /\ peers' = peers \cup {p}
    /\ conn' = conn \cup {p}
    /\ new_peer' = p
    /\ cpc' = "exists"
    /\ UNCHANGED <<buffer, seq_word, alive, sendq, mr, mr_seq, zkVars,
                   rep_factor, in_use, op_queue, file_size, seq, recover_lock, writerVars, ev,
                   historyVars>>

\* replacePeer finds no child that is not a peer already.  A child event is
\* then over, and the watch is not set again.
NoNewPeer ==
    /\ cpc = "pick"
    /\ servers \subseteq peers
    /\ cpc' = IF ev = "deleted" THEN "failed" ELSE "idle"
    /\ ev' = IF ev = "deleted" THEN ev ELSE "none"
    /\ UNCHANGED <<rdmaVars, zkVars, clientVars, writerVars, new_peer, historyVars>>

\* Faulty variant: a replacement after a deleted event is not recovered.
WatchPeer_SkipsRecover ==
    /\ cpc = "exists"
    /\ zoo_wexists(new_peer)
    /\ new_peer' = NoPeer
    /\ cpc' = IF ev = "deleted" THEN "update" ELSE "joined"
    /\ UNCHANGED <<rdmaVars, servers, orphans, zknode, child_watch, events, clientVars,
                   writerVars, ev, historyVars>>

\* The end of AddPeer: zoo_wexists.  When the node has gone AddPeer fails,
\* but the peer stays where it was inserted.  A peer that joins is recovered
\* only when the file is open.
WatchPeer ==
    /\ cpc = "exists"
    /\ zoo_wexists(new_peer)
    /\ IF new_peer \in servers
       THEN IF ev = "deleted" \/ in_use
            THEN cpc' = "recover" /\ UNCHANGED <<ev, new_peer>>
            ELSE cpc' = "joined" /\ new_peer' = NoPeer /\ UNCHANGED ev
       ELSE /\ new_peer' = NoPeer
            /\ cpc' = IF ev = "deleted" THEN "failed" ELSE "idle"
            /\ ev' = IF ev = "deleted" THEN ev ELSE "none"
    /\ UNCHANGED <<rdmaVars, servers, orphans, zknode, child_watch, events, clientVars,
                   writerVars, historyVars>>

\* Faulty variant: the last cell of the file is not sent.
PostRecover_Short ==
    /\ cpc = "recover"
    /\ sendq' = [sendq EXCEPT ![new_peer] = writeTwoPlace(@, 0 .. file_size - 2, 0)]
    /\ cpc' = "rwait"
    /\ UNCHANGED <<buffer, seq_word, alive, conn, mr, mr_seq, zkVars, clientVars,
                   writerVars, ev, new_peer, historyVars>>

\* recoverPeer posts the whole file and the sequence word.
PostRecover ==
    /\ cpc = "recover"
    /\ sendq' = [sendq EXCEPT ![new_peer] = writeTwoPlace(@, 0 .. file_size - 1, 0)]
    /\ cpc' = "rwait"
    /\ UNCHANGED <<buffer, seq_word, alive, conn, mr, mr_seq, zkVars, clientVars,
                   writerVars, ev, new_peer, historyVars>>

\* recoverPeer's wait ends.
RecoverDone ==
    /\ cpc = "rwait"
    /\ BothCompleted(new_peer, 0)
    /\ synced' = synced \cup ({new_peer} \cap conn)
    /\ cpc' = IF ev = "deleted" THEN "update" ELSE "joined"
    /\ new_peer' = NoPeer
    /\ UNCHANGED <<rdmaVars, zkVars, clientVars, writerVars, ev,
                   suspended, crashes, expiries, starts>>

\* The end of a deleted event: updateClientZKNode.
UpdateZKNode ==
    /\ cpc = "update"
    /\ zknode' = peers
    /\ cpc' = "idle" /\ ev' = "none"
    /\ UNCHANGED <<rdmaVars, servers, orphans, exists_watch, child_watch, events, clientVars,
                   writerVars, new_peer, historyVars>>

\* The end of a child event: unlock, whether locked or not, and watch again
\* while peers are missing.
FinishChild ==
    /\ cpc = "joined"
    /\ recover_lock' = IF Majority(peers) THEN FALSE ELSE recover_lock
    /\ suspended' = IF Majority(peers) THEN FALSE ELSE suspended
    /\ child_watch' = IF Cardinality(peers) < rep_factor THEN TRUE ELSE child_watch
    /\ cpc' = "idle" /\ ev' = "none"
    /\ UNCHANGED <<rdmaVars, servers, orphans, zknode, exists_watch, events,
                   rep_factor, in_use, peers, op_queue, file_size, seq, writerVars, new_peer,
                   synced, crashes, expiries, starts>>

\* Faulty variant: the lock is taken without waiting for the writer.
SuspendWrites_NoWait ==
    /\ cpc = "failed"
    /\ IF Majority(peers)
       THEN UNCHANGED <<recover_lock, suspended>>
       ELSE recover_lock' = TRUE /\ suspended' = TRUE
    /\ cpc' = "watch"
    /\ UNCHANGED <<rdmaVars, zkVars, rep_factor, in_use, peers, op_queue, file_size, seq,
                   writerVars, ev, new_peer, synced, crashes, expiries, starts>>

\* The replacement failed.  With half of the peers or fewer left the watcher
\* takes recover_lock, waiting for whoever holds it, and keeps it.
SuspendWrites ==
    /\ cpc = "failed"
    /\ IF Majority(peers)
       THEN UNCHANGED <<recover_lock, suspended>>
       ELSE ~recover_lock /\ recover_lock' = TRUE /\ suspended' = TRUE
    /\ cpc' = "watch"
    /\ UNCHANGED <<rdmaVars, zkVars, rep_factor, in_use, peers, op_queue, file_size, seq,
                   writerVars, ev, new_peer, synced, crashes, expiries, starts>>

\* watchForPeerJoin.
WatchForPeerJoin ==
    /\ cpc = "watch"
    /\ child_watch' = TRUE
    /\ cpc' = "idle" /\ ev' = "none"
    /\ UNCHANGED <<rdmaVars, servers, orphans, zknode, exists_watch, events, clientVars,
                   writerVars, new_peer, historyVars>>

-----------------------------------------------------------------------------
(* The environment. *)

\* The network card makes progress on p's queue pair.
NicStep(p) ==
    /\ NicPlace(p) \/ NicComplete(p)
    /\ UNCHANGED <<zkVars, clientVars, writerVars, watcherVars, historyVars>>

\* A server crashes; its node stays until ZooKeeper expires its session.
PeerCrash(p) ==
    /\ crashes < MaxCrashes
    /\ crashes' = crashes + 1
    /\ ServerDown(p)
    /\ orphans' = orphans \cup ({p} \cap servers)
    /\ synced' = synced \ {p}
    /\ UNCHANGED <<servers, zknode, exists_watch, child_watch, events, clientVars,
                   writerVars, watcherVars, suspended, expiries, starts>>

\* ZooKeeper expires the session of a dead process.
ExpireDead(p) ==
    /\ p \in orphans
    /\ NodeDeleted(p)
    /\ UNCHANGED <<rdmaVars, clientVars, writerVars, watcherVars, historyVars>>

\* ZooKeeper expires the session of a server that is alive: the server only
\* logs it (ServerWatcher) and runs on, unregistered.
ExpireAlive(p) ==
    /\ p \notin orphans
    /\ expiries < MaxExpiries
    /\ expiries' = expiries + 1
    /\ NodeDeleted(p)
    /\ UNCHANGED <<rdmaVars, clientVars, writerVars, watcherVars,
                   synced, suspended, crashes, starts>>

\* A server process starts and registers, or fails to because the node of
\* its predecessor is still there; it runs in both cases.
ServerStart(p) ==
    /\ starts < MaxStarts
    /\ starts' = starts + 1
    /\ p \notin alive
    /\ alive' = alive \cup {p}
    /\ NodeCreated(p)
    /\ UNCHANGED <<buffer, seq_word, conn, sendq, mr, mr_seq, clientVars, writerVars,
                   watcherVars, synced, suspended, crashes, expiries>>

-----------------------------------------------------------------------------
Writer == \/ \E c \in Cells : BeginWrite(c)
          \/ CopyData \/ StampSeq \/ LockRecover
          \/ \E p \in Peers : PostTo(p)
          \/ FinishPost
          \/ \E p \in Peers : PollPeer(p)
          \/ FinishWrite

Watcher == \/ HandleDeleted \/ HandleChild
           \/ \E p \in Peers : AddPeer(p)
           \/ NoNewPeer \/ WatchPeer \/ PostRecover \/ RecoverDone
           \/ UpdateZKNode \/ FinishChild \/ SuspendWrites \/ WatchForPeerJoin

Environment == \E p \in Peers : \/ NicStep(p)
                                \/ PeerCrash(p)
                                \/ ExpireDead(p)
                                \/ ExpireAlive(p)
                                \/ ServerStart(p)

Next == Writer \/ Watcher \/ Environment

Spec == Init /\ [][Next]_vars

\* The application thread finishes a write it has begun, the completion thread
\* handles its events, the network card serves every connected peer, and
\* ZooKeeper notices dead servers.  Nothing makes the application write, a
\* server fail or a server start.
WriterStep == Writer /\ wpc # "idle"

Fairness == /\ WF_vars(WriterStep)
            /\ WF_vars(Watcher)
            /\ \A p \in Peers : WF_vars(NicStep(p)) /\ WF_vars(ExpireDead(p))

FairSpec == Spec /\ Fairness

-----------------------------------------------------------------------------
(* Properties. *)

RdmaTypeOK ==
    /\ buffer \in [Cells -> 0 .. MaxWrites] /\ seq_word \in Nat
    /\ alive \in SUBSET Peers /\ conn \in SUBSET Peers
    /\ sendq \in [Peers -> Seq(WR)]
    /\ mr \in [Peers -> [Cells -> 0 .. MaxWrites]] /\ mr_seq \in [Peers -> Nat]

ZkTypeOK ==
    /\ servers \in SUBSET Peers /\ orphans \in SUBSET servers
    /\ zknode \in SUBSET Peers /\ exists_watch \in SUBSET Peers
    /\ child_watch \in BOOLEAN /\ events \in Seq(EventOf(Peers))

ClientTypeOK ==
    /\ rep_factor \in Nat /\ peers \in SUBSET Peers
    /\ op_queue \in [Peers -> Seq(Writes)]
    /\ file_size \in 0 .. BufSize /\ seq \in Nat
    /\ recover_lock \in BOOLEAN /\ in_use \in BOOLEAN

WriterTypeOK ==
    /\ wpc \in {"idle", "copy", "stamp", "lock", "post", "poll"}
    /\ nwr \in 0 .. MaxWrites /\ loc \in [Writes -> Nat]
    /\ wpc # "idle" => nwr > 0 /\ pos = loc[nwr] /\ pos \in Cells
    /\ todo \in SUBSET Peers /\ flagged \in SUBSET Peers
    /\ acks \in [Writes -> SUBSET Peers]

WatcherTypeOK ==
    /\ cpc \in {"idle", "pick", "exists", "recover", "rwait", "update", "joined",
                "failed", "watch"}
    /\ ev \in {"none", "deleted", "child"}
    /\ IF cpc \in {"exists", "recover", "rwait"} THEN new_peer \in Peers
                                                ELSE new_peer = NoPeer

HistoryTypeOK ==
    /\ synced \in SUBSET Peers /\ suspended \in BOOLEAN
    /\ crashes \in 0 .. MaxCrashes /\ expiries \in 0 .. MaxExpiries
    /\ starts \in 0 .. MaxStarts

\* Every variable has the values its C++ counterpart can have: file_size stays
\* within the buffer, the queues hold tokens of writes; a write in progress has
\* a number and a cell, and ClientWatcher has a peer at hand exactly while it
\* adds one.
TypeOK == /\ RdmaTypeOK /\ ZkTypeOK /\ ClientTypeOK
          /\ WriterTypeOK /\ WatcherTypeOK /\ HistoryTypeOK

\* Peer p holds the first w writes: each in its cell, unless a later write
\* has replaced it there.
Holds(p, w) == \A v \in 1 .. w : mr[p][loc[v]] >= v

\* A replacement that has been recovered, and every original peer, is an
\* exact copy of the client's buffer whenever no write and no work request
\* for it is in progress: neither the bulk copy of recoverPeer racing with
\* Append nor the posting loop racing with AddPeer loses a record.
CaughtUp ==
    \A p \in synced : wpc = "idle" /\ sendq[p] = <<>> => mr[p] = buffer

\* all_prev_completed_ means what it says: a peer counted towards the quorum
\* of write w holds w and every earlier write, for as long as it stays up
\* and once it has been recovered.
AckedHeld ==
    \A w \in Writes : \A p \in acks[w] \cap synced : Holds(p, w)

\* A write that returned with a quorum survives as many server failures as a
\* majority of rep_factor replicas promises, counting the replacements that
\* acknowledged it before they were recovered as no help.
Durable ==
    crashes + expiries <= rep_factor \div 2 =>
        \A w \in Writes : Majority(acks[w]) => \E p \in synced : Holds(p, w)

\* While ClientWatcher holds writes back for lack of peers, no write posts
\* or waits (comments at client.cc:280 and :703).
SuspendedBlocksWrites == suspended => wpc \notin {"post", "poll"}

\* A write returns.
WriteReturns == wpc # "idle" ~> wpc = "idle"

\* The client ends up with rep_factor recovered peers again, or with all the
\* registered servers when there are fewer.
RedundancyRestored ==
    <>[](\/ Cardinality(synced) >= rep_factor
         \/ servers \subseteq synced)

-----------------------------------------------------------------------------
(* The inductive invariant behind CaughtUp and AckedHeld. *)

\* Peers that will be exact copies once their work requests are done: those
\* recovered, and the one whose bulk copy has been posted.
Good(p) == p \in conn /\ (p \in synced \/ (cpc = "rwait" /\ p = new_peer))

\* A work request that will bring cell c of p up to date is on its way.
Covered(p, c) == \E wr \in Range(sendq[p]) : c \in wr.cells

\* The current write is in the buffer and has still to be posted to p.
Unposted(p, c) == /\ c = pos
                  /\ wpc \in {"stamp", "lock"} \/ (wpc = "post" /\ p \in todo)

\* The writes 1 .. Copied are in the buffer.
Copied == IF wpc = "copy" THEN nwr - 1 ELSE nwr

PeersInv ==
    /\ conn \subseteq peers
    /\ synced \subseteq conn
    /\ cpc \in {"exists", "recover", "rwait"} => new_peer \in peers \ synced

\* Nothing lies beyond the end of the file, in the client or on any server.
EofInv ==
    /\ wpc # "idle" => pos < file_size
    /\ \A c \in Cells : c >= file_size => buffer[c] = 0 /\ \A p \in Peers : mr[p][c] = 0

CopyInv ==
    \A p \in Peers : Good(p) =>
        \A c \in Cells : mr[p][c] = buffer[c] \/ Covered(p, c) \/ Unposted(p, c)

\* A cell of the buffer holds the last write to it, or a later one.
BufferInv ==
    \A v \in 1 .. Copied : /\ loc[v] \in Cells /\ loc[v] < file_size
                           /\ buffer[loc[v]] >= v

Increasing(q) == \A i, j \in 1 .. Len(q) : i < j => q[i] < q[j]

\* Tokens: op_queue is in the order of the writes and has a token for every
\* work request of a write; a token that was flagged is not in it any more,
\* and neither is any earlier one.
QueueOK(p) ==
    /\ Increasing(op_queue[p])
    /\ \A t \in Range(op_queue[p]) : t <= nwr
    /\ wpc \in {"copy", "stamp", "lock"} \/ (wpc = "post" /\ p \in todo)
         => nwr \notin Range(op_queue[p])
    /\ \A wr \in Range(sendq[p]) : wr.tok \in {0} \cup Range(op_queue[p])
    /\ p \in synced => \A wr \in Range(sendq[p]) : wr.tok # 0

QueueInv == \A p \in Peers : QueueOK(p)

AcksInv ==
    /\ wpc # "poll" => flagged = {}
    /\ \A p \in flagged : op_queue[p] = <<>>
    /\ \A w \in Writes : \A p \in acks[w] :
         /\ w < nwr \/ (w = nwr /\ wpc = "idle")
         /\ \A t \in Range(op_queue[p]) : t > w

\* A work request no younger than write v will bring it to p.
Reaches(p, v) == \E wr \in Range(sendq[p]) : loc[v] \in wr.cells /\ wr.tok <= v

\* Peer p holds write v, or will: such a work request is on its way, or v is
\* the current write and has still to be posted.
Arrives(p, v) == \/ mr[p][loc[v]] >= v
                 \/ Reaches(p, v)
                 \/ v = nwr /\ Unposted(p, loc[v])

HeldInv == \A p \in Peers : Good(p) => \A v \in 1 .. Copied : Arrives(p, v)

\* The strengthening that every step of the two threads, the card, ZooKeeper
\* and the servers preserves: replicas under way lag the buffer only by what
\* WriteQuorum or recoverPeer has posted or is about to post, and token queues
\* account for it.
IndInv == /\ TypeOK /\ PeersInv /\ EofInv /\ CopyInv
          /\ BufferInv /\ QueueInv /\ AcksInv /\ HeldInv

=============================================================================
