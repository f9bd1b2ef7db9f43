---------------------------- MODULE CrashRecovery ----------------------------
(***************************************************************************)
(* The client process itself crashes and is started again on the same      *)
(* machine: the constructor of CSLClient finds the client's ZooKeeper node *)
(* and TryRecover rebuilds the file from the replicas.  QuorumWrite goes   *)
(* on underneath: the completion thread runs from the moment the peers are *)
(* connected, and the application writes again once the file is open.      *)
(*                                                                         *)
(* The numbers that identify writes go on counting across a restart, so    *)
(* that a later write still has the larger number; the client's own seq    *)
(* starts again from 0, as in the code.                                    *)
(*                                                                         *)
(* A peer that dies after the client has connected to it leaves the answer *)
(* to GET_INFO unread: recv is unchecked and getinfo_resp uninitialised,   *)
(* so the client goes by whatever its stack holds.                         *)
(*                                                                         *)
(* Not modelled: trailing zero bytes of the data, which findSize cuts off; *)
(* a node text longer than the 512 bytes getPeersFromZK reads; a client    *)
(* whose node is empty, which starts with no peers.                        *)
(***************************************************************************)
EXTENDS QuorumWrite, PeerList

CONSTANTS
    MaxClientCrashes,  \* bound: crashes of the client
    MaxGarbage         \* bound: numbers found in an answer that was not read

ASSUME RecoveryAssumption ==
    /\ MaxClientCrashes \in Nat
    /\ MaxGarbage \in Nat
    /\ DOMAIN Addr = Peers

VARIABLES
    cli,           \* where the client is in its life
    recover_src,   \* the peer TryRecover reads from, or NoPeer
    recover_size,  \* how much it reads
    syncing,       \* the peers syncPeerAfterRecover waits for
    \* history, never read by the code
    forgot,        \* the acknowledged writes an open left out of the file
    clientCrashes  \* spent of the bound

recoverVars == <<cli, recover_src, recover_size, syncing, forgot, clientCrashes>>
crVars == <<vars, recoverVars>>

CRInit ==
    /\ Init
    /\ cli = "up"
    /\ recover_src = NoPeer /\ recover_size = 0 /\ syncing = {}
    /\ forgot = {} /\ clientCrashes = 0

\* The writes that returned to the application with a quorum behind them, apart
\* from those that a later open of the file has left out.
Acked == {w \in Writes \ forgot : Majority(acks[w])}

-----------------------------------------------------------------------------
\* CSLServer::findSize: the file ends at the last byte that is not zero.
findSize(m) ==
    CHOOSE n \in 0 .. BufSize : /\ n = 0 \/ m[n - 1] # 0
                                /\ \A c \in Cells : c >= n => m[c] = 0

\* getRecoverSrcPeer: the peers with the smallest sequence number among those
\* whose number is not 0.  Which of several comes first depends on the order
\* of an unordered_map.
getRecoverSrcPeer(answer) ==
    {p \in DOMAIN answer : /\ answer[p].seq # 0
                           /\ \A q \in DOMAIN answer :
                                answer[q].seq # 0 => answer[p].seq <= answer[q].seq}

\* The process dies, with its buffer, its queue pairs and its ZooKeeper
\* session; its node under /clients is persistent.
ClientCrash ==
    /\ cli # "down"
    /\ clientCrashes < MaxClientCrashes
    /\ clientCrashes' = clientCrashes + 1
    /\ cli' = "down"
    /\ buffer' = Zeroed /\ seq_word' = 0 /\ conn' = {}
    /\ sendq' = [p \in Peers |-> <<>>] /\ op_queue' = [p \in Peers |-> <<>>]
    /\ peers' = {} /\ file_size' = 0 /\ seq' = 0
    /\ recover_lock' = FALSE /\ in_use' = FALSE
    /\ exists_watch' = {} /\ child_watch' = FALSE /\ events' = <<>>
    /\ wpc' = "idle" /\ todo' = {} /\ flagged' = {}
    /\ cpc' = "idle" /\ ev' = "none" /\ new_peer' = NoPeer
    /\ synced' = {} /\ suspended' = FALSE
    /\ recover_src' = NoPeer /\ recover_size' = 0 /\ syncing' = {}
    /\ UNCHANGED <<alive, mr, mr_seq, servers, orphans, zknode, rep_factor, pos,
                   nwr, loc, acks, crashes, expiries, starts, forgot>>

\* The constructor up to init: getPeersFromZK reads the client's node, init
\* connects to every address it lists (a dead one ends the process, so this
\* waits for all) and leaves watches on those that are registered; rep_factor
\* is rep_num again.
Restart ==
    LET node == parseIpString(generateIpString(zknode, 0))
        listed == {p \in Peers : Addr[p] \in node.peers}
    IN
    /\ cli = "down"
    /\ node.count # 0
    /\ node.peers \subseteq {Addr[p] : p \in alive}
    /\ rep_factor' = RepFactor
    /\ peers' = listed /\ conn' = listed
    /\ exists_watch' = listed \cap servers
    /\ cli' = "info"
    /\ UNCHANGED <<buffer, seq_word, alive, sendq, mr, mr_seq,
                   servers, orphans, zknode, child_watch, events,
                   op_queue, file_size, seq, recover_lock, in_use,
                   writerVars, watcherVars, historyVars,
                   recover_src, recover_size, syncing, forgot, clientCrashes>>

\* The rest of the constructor without try_recover, that is with O_TRUNC: the
\* file is open and empty.  The peers keep what they hold of the old one.
OpenTruncated ==
    /\ cli = "info"
    /\ in_use' = TRUE
    /\ cli' = "up"
    /\ synced' = conn
    /\ forgot' = forgot \cup Acked
    /\ UNCHANGED <<rdmaVars, zkVars, rep_factor, peers, op_queue, file_size, seq,
                   recover_lock, writerVars, watcherVars,
                   suspended, crashes, expiries, starts,
                   recover_src, recover_size, syncing, clientCrashes>>

\* What the peers answer to GET_INFO; one that has died answers nothing, and
\* the client goes by what is on its stack.
Answers ==
    {[p \in peers |-> IF p \in conn THEN [seq |-> mr_seq[p], size |-> findSize(mr[p])]
                      ELSE stack[p]] :
        stack \in [peers \ conn -> [seq : 0 .. MaxGarbage, size : 0 .. MaxGarbage]]}

\* TryRecover up to the choice of the source.  The requests and the answers are
\* one step, at the last answer: until the client has chosen nobody changes the
\* region of a peer that was listed, and what a peer answered before it died is
\* among the garbage.  With nothing to read, be it that no peer has the file or
\* that a dead one seems to, the file is opened empty and what was acknowledged
\* is left out of it (NoReplicaMeansNoData is about that).
GetInfo ==
    /\ cli = "info"
    /\ \E answer \in Answers :
         LET sources == getRecoverSrcPeer(answer) IN
         \/ /\ sources = {}
            /\ UNCHANGED <<recover_src, recover_size>>
         \/ \E s \in sources : recover_src' = s /\ recover_size' = answer[s].size
    /\ cli' = IF recover_size' > 0 THEN "read" ELSE "sync"
    /\ forgot' = IF recover_size' > 0 \/ recover_src' \in conn THEN forgot
                                                              ELSE forgot \cup Acked
    /\ UNCHANGED <<rdmaVars, zkVars, clientVars, writerVars, watcherVars, historyVars,
                   syncing, clientCrashes>>

\* Faulty variant: the last cell is not read.
ReadSource_Short ==
    /\ cli = "read"
    /\ recover_src \in conn
    /\ recover_size <= BufSize
    /\ buffer' = [c \in Cells |-> IF c < recover_size - 1 THEN mr[recover_src][c]
                                                         ELSE buffer[c]]
    /\ file_size' = recover_size
    /\ cli' = "sync"
    /\ UNCHANGED <<seq_word, alive, conn, sendq, mr, mr_seq, zkVars,
                   rep_factor, peers, op_queue, seq, recover_lock, in_use,
                   writerVars, watcherVars, historyVars,
                   recover_src, recover_size, syncing, forgot, clientCrashes>>

\* Faulty variant: one byte more than was read.
ReadSource_Long ==
    /\ cli = "read"
    /\ recover_src \in conn
    /\ recover_size <= BufSize
    /\ buffer' = [c \in Cells |-> IF c < recover_size THEN mr[recover_src][c]
                                                     ELSE buffer[c]]
    /\ file_size' = recover_size + 1
    /\ cli' = "sync"
    /\ UNCHANGED <<seq_word, alive, conn, sendq, mr, mr_seq, zkVars,
                   rep_factor, peers, op_queue, seq, recover_lock, in_use,
                   writerVars, watcherVars, historyVars,
                   recover_src, recover_size, syncing, forgot, clientCrashes>>

\* recoverFromSrc: one RDMA read of the whole file, then file_size.  A read from
\* a dead peer, or of more than the registered buffer holds, never completes.
ReadSource ==
    /\ cli = "read"
    /\ recover_src \in conn
    /\ recover_size <= BufSize
    /\ buffer' = [c \in Cells |-> IF c < recover_size THEN mr[recover_src][c]
                                                     ELSE buffer[c]]
    /\ file_size' = recover_size
    /\ cli' = "sync"
    /\ UNCHANGED <<seq_word, alive, conn, sendq, mr, mr_seq, zkVars,
                   rep_factor, peers, op_queue, seq, recover_lock, in_use,
                   writerVars, watcherVars, historyVars,
                   recover_src, recover_size, syncing, forgot, clientCrashes>>

\* syncPeerAfterRecover, recoverPeers: the file and the sequence word go to
\* every other peer.
SyncPeers ==
    /\ cli = "sync"
    /\ syncing' = peers \ {recover_src}
    /\ sendq' = [p \in Peers |->
                    IF p \in peers \ {recover_src}
                    THEN writeTwoPlace(sendq[p], 0 .. file_size - 1, 0)
                    ELSE sendq[p]]
    /\ cli' = "wait"
    /\ UNCHANGED <<buffer, seq_word, alive, conn, mr, mr_seq, zkVars, clientVars,
                   writerVars, watcherVars, historyVars,
                   recover_src, recover_size, forgot, clientCrashes>>

\* recoverPeers has waited for every token (one for a peer erased meanwhile
\* never completes), the constructor returns and the file is opened.
SyncDone ==
    /\ cli = "wait"
    /\ syncing \subseteq peers
    /\ \A p \in syncing : BothCompleted(p, 0)
    /\ synced' = synced \cup ((syncing \cup {recover_src}) \cap conn)
    /\ in_use' = TRUE
    /\ cli' = "up"
    /\ recover_src' = NoPeer /\ recover_size' = 0 /\ syncing' = {}
    /\ UNCHANGED <<rdmaVars, zkVars, rep_factor, peers, op_queue, file_size, seq,
                   recover_lock, writerVars, watcherVars,
                   suspended, crashes, expiries, starts, forgot, clientCrashes>>

-----------------------------------------------------------------------------
CRNext == \/ /\ \/ cli = "up" /\ Writer
                \/ cli # "down" /\ Watcher
                \/ Environment
             /\ UNCHANGED recoverVars
          \/ ClientCrash \/ Restart \/ OpenTruncated
          \/ GetInfo \/ ReadSource \/ SyncPeers \/ SyncDone

CRSpec == CRInit /\ [][CRNext]_crVars

-----------------------------------------------------------------------------
(* Properties. *)

\* TypeOK survives crashes and restarts of the client; in particular the size
\* TryRecover gives the file fits the buffer, whatever the peers have answered.
CRTypeOK ==
    /\ TypeOK
    /\ cli \in {"up", "down", "info", "read", "sync", "wait"}
    /\ recover_src \in Peers \cup {NoPeer} /\ recover_size \in Nat
    /\ syncing \in SUBSET Peers
    /\ forgot \in SUBSET Writes
    /\ clientCrashes \in 0 .. MaxClientCrashes

\* When TryRecover finds a source, what it reads from it contains every
\* acknowledged write, also when another peer has died before answering and
\* the client takes what is on its stack for the answer (client.cc:584).
RecoversAcked ==
    cli = "read" /\ recover_src \in conn =>
        \A w \in Acked : loc[w] < recover_size /\ mr[recover_src][loc[w]] >= w

\* With a quorum that is all of the peers, every peer that was given the file
\* and has no work request under way holds every acknowledged write, before and
\* after any number of recoveries.  The writes an open has left out of the file
\* (forgot) are not counted: with O_TRUNC that is what the application asked
\* for, without it that is the loss NoReplicaMeansNoData is about.
AckedOnEveryPeer ==
    cli = "up" => \A w \in Acked : \A p \in synced :
        mr[p][loc[w]] >= w \/ sendq[p] # <<>>

\* "none server has replication for this file" (client.cc:592): when no
\* source is found, no connected peer holds anything acknowledged.
NoReplicaMeansNoData ==
    [][cli = "info" /\ cli' = "sync" =>
         \A w \in Acked : \A p \in conn' : mr[p][loc[w]] < w]_crVars

\* What a client stores in its node it reads back after a restart: as many
\* addresses as it has peers, and those of its peers; also after an epoch, which
\* the code can write and parse but never uses (util.h:55, 72).
NodeReadBack ==
    \A epoch \in {0, 7, 12}, P \in {peers, zknode} :
        parseIpString(generateIpString(P, epoch)) =
            [epoch |-> epoch, peers |-> {Addr[p] : p \in P}, count |-> Cardinality(P)]

=============================================================================
