------------------------------ MODULE Sessions ------------------------------
(***************************************************************************)
(* The life of files: the tables of src/csl.cc, the pool of CSLClients     *)
(* behind them (client_pool.cc), the requests a client sends over the      *)
(* socket of its queue pair, and the server that keeps one memory region   *)
(* (MR) per file (server.cc, mr_pool.cc).  One application thread and one  *)
(* replication server; the process exits or crashes and is started again.  *)
(*                                                                         *)
(* The server's select loop serves the sockets in an order of its own, so  *)
(* two requests on different sockets may be handled in either order; the   *)
(* requests on one socket stay in order.                                   *)
(*                                                                         *)
(* Data is reduced to whether a file is empty and whether its sequence     *)
(* number is 0.  All MRs have the same size (MR_SIZE), so ReplaceBuffer    *)
(* and the size test of GetMRofSize never act.  fopen and fclose do what   *)
(* open and close do.  SYNC_PEER and SYNC_PEER_DONE are not modelled: the  *)
(* client code that sends them is commented out (client.cc:520).           *)
(***************************************************************************)
EXTENDS Integers, Sequences, FiniteSets

CONSTANTS
    Paths,        \* files the application uses
    Fds,          \* file descriptors the kernel hands out
    MRs,          \* memory regions the server can register
    NoPath, NoClient, NoMR, NoFd,
    MaxRestarts   \* bound: exits and crashes of the process

ASSUME SessionsAssumption ==
    /\ IsFiniteSet(Paths) /\ NoPath \notin Paths
    /\ NoMR \notin MRs /\ Cardinality(MRs) >= Cardinality(Paths)
    /\ NoFd \notin Fds
    /\ MaxRestarts \in Nat
    /\ NoClient \notin Nat

VARIABLES
    \* the process
    open_fds,      \* kernel: path a descriptor was opened on
    files,         \* kernel: paths that exist
    csl_fd_cli, csl_path_cli,
    idle_clients, busy_clients,
    filename, file_size, seq,  \* per client; file_size and seq: 0 or not
    sock,          \* per client: socket of its queue pair, 0 before it connects
    token,         \* per client: MR behind remote_buffer_token
    app,           \* what the application thread waits for in getClient
    cur,           \* client, path, descriptor and try_recover of that call
    zk_node,       \* the machine's node under /clients exists
    \* sockets
    req, resp,     \* per socket: requests and replies on their way
    backlog,       \* connections the server has not accepted
    next_sock, closed,
    \* the server
    server_up,
    local_cons,    \* per file: its MR and the socket of its queue pair
    existing_qps,  \* sockets the select loop watches
    free_mrs,
    mr_size, mr_seq,  \* per MR: 0 or not
    restarts,      \* spent of the bound
    \* history
    leftover       \* the server has served a request of a process that had ended

fileVars   == <<open_fds, files, csl_fd_cli, csl_path_cli>>
poolVars   == <<idle_clients, busy_clients, filename, file_size, seq, sock, token>>
callVars   == <<app, cur, zk_node>>
netVars    == <<req, resp, backlog, next_sock, closed>>
serverVars == <<server_up, local_cons, existing_qps, free_mrs, mr_size, mr_seq>>
sessionVars == <<fileVars, poolVars, callVars, netVars, serverVars, restarts, leftover>>

\* global_id counts up from 0, and there are never more clients than paths.
Clients == 0 .. Cardinality(Paths) - 1
Socks == 1 .. Cardinality(Paths) * (MaxRestarts + 1)

NoCon == [mr |-> NoMR, sock |-> 0]
NoCall == [c |-> NoClient, p |-> NoPath, fd |-> NoFd, recover |-> FALSE]

Request(type, p) == [type |-> type, p |-> p]
TokenReply(m) == [mr |-> m, size |-> 0, seq |-> 0]
InfoReply(m) == [mr |-> NoMR, size |-> mr_size[m], seq |-> mr_seq[m]]

SessionsInit ==
    /\ open_fds = [d \in Fds |-> NoPath] /\ files = {}
    /\ csl_fd_cli = [d \in Fds |-> NoClient] /\ csl_path_cli = [p \in Paths |-> NoClient]
    /\ idle_clients = {} /\ busy_clients = {}
    /\ filename = [c \in Clients |-> NoPath]
    /\ file_size = [c \in Clients |-> 0] /\ seq = [c \in Clients |-> 0]
    /\ sock = [c \in Clients |-> 0] /\ token = [c \in Clients |-> NoMR]
    /\ app = "idle" /\ cur = NoCall /\ zk_node = FALSE
    /\ req = [s \in Socks |-> <<>>] /\ resp = [s \in Socks |-> <<>>]
    /\ backlog = <<>> /\ next_sock = 1 /\ closed = {}
    /\ server_up = TRUE
    /\ local_cons = [p \in Paths |-> NoCon] /\ existing_qps = {} /\ free_mrs = {}
    /\ mr_size = [m \in MRs |-> 0] /\ mr_seq = [m \in MRs |-> 0]
    /\ restarts = 0 /\ leftover = FALSE

-----------------------------------------------------------------------------
(* csl.cc and client_pool.cc. *)

Send(s, r) == req' = [req EXCEPT ![s] = Append(@, r)]

\* NCLQpPool::GetQpTo for a new client: no queue pair is idle while the
\* process runs, so it connects, with the file name as user data.
GetQpTo(c, p) ==
    /\ sock' = [sock EXCEPT ![c] = next_sock]
    /\ backlog' = Append(backlog, [s |-> next_sock, p |-> p])
    /\ next_sock' = next_sock + 1
    /\ UNCHANGED req

\* Faulty variant: idle clients are never used again.
GetClient_AlwaysNew(p, fd, recover) ==
    LET c == Cardinality(busy_clients \cup idle_clients) IN
    /\ cur' = [c |-> c, p |-> p, fd |-> fd, recover |-> recover]
    /\ app' = "connect"
    /\ filename' = [filename EXCEPT ![c] = p]
    /\ GetQpTo(c, p)

\* CSLClientPool::GetClient.  A new client connects to the server; an idle
\* one, the one with the lowest id, is given the file name by SetFileInfo,
\* which asks the server for an MR.  Both wait for the answer.
GetClient(p, fd, recover) ==
    IF idle_clients = {}
    THEN LET c == Cardinality(busy_clients) IN
         /\ cur' = [c |-> c, p |-> p, fd |-> fd, recover |-> recover]
         /\ app' = "connect"
         /\ filename' = [filename EXCEPT ![c] = p]
         /\ GetQpTo(c, p)
    ELSE LET c == CHOOSE i \in idle_clients : \A j \in idle_clients : i <= j IN
         /\ cur' = [c |-> c, p |-> p, fd |-> fd, recover |-> recover]
         /\ app' = "open"
         /\ filename' = [filename EXCEPT ![c] = p]
         /\ Send(sock[c], Request("OPEN_FILE", p))
         /\ UNCHANGED <<sock, backlog, next_sock>>

\* getClient: the client the path already has, or one from the pool.
getClient(p, fd, recover) ==
    IF csl_path_cli[p] # NoClient
    THEN /\ csl_fd_cli' = [csl_fd_cli EXCEPT ![fd] = csl_path_cli[p]]
         /\ UNCHANGED <<cur, app, filename, sock, backlog, next_sock, req>>
    ELSE GetClient(p, fd, recover) /\ UNCHANGED csl_fd_cli

\* open with O_CSL; without O_TRUNC the content is to be recovered.
open(p, fd, trunc) ==
    /\ app = "idle"
    /\ open_fds[fd] = NoPath
    /\ open_fds' = [open_fds EXCEPT ![fd] = p]
    /\ files' = files \cup {p}
    /\ getClient(p, fd, ~trunc)
    /\ UNCHANGED <<csl_path_cli, idle_clients, busy_clients, file_size, seq, token,
                   zk_node, resp, closed, serverVars, restarts, leftover>>

\* stat of a file that exists, has no client and is empty on disk: its content
\* is fetched from the peers, without a descriptor.
stat(p) ==
    /\ app = "idle"
    /\ p \in files
    /\ csl_path_cli[p] = NoClient
    /\ GetClient(p, NoFd, TRUE)
    /\ UNCHANGED <<open_fds, files, csl_fd_cli, csl_path_cli, idle_clients, busy_clients,
                   file_size, seq, token, zk_node, resp, closed, serverVars, restarts, leftover>>

\* The client is handed out: it is busy and the tables of csl.cc know it.
HandOut ==
    /\ busy_clients' = busy_clients \cup {cur.c}
    /\ idle_clients' = idle_clients \ {cur.c}
    /\ csl_path_cli' = [csl_path_cli EXCEPT ![cur.p] = cur.c]
    /\ csl_fd_cli' = IF cur.fd = NoFd THEN csl_fd_cli
                     ELSE [csl_fd_cli EXCEPT ![cur.fd] = cur.c]
    /\ app' = "idle"
    /\ cur' = NoCall

\* The answer to the connection or to OPEN_FILE: a region token.  A client
\* that connects for the first time on this machine creates the ZooKeeper
\* node and has nothing to recover.
ReceiveToken ==
    /\ app \in {"connect", "open"}
    /\ resp[sock[cur.c]] # <<>>
    /\ token' = [token EXCEPT ![cur.c] = Head(resp[sock[cur.c]]).mr]
    /\ resp' = [resp EXCEPT ![sock[cur.c]] = Tail(@)]
    /\ zk_node' = TRUE
    /\ IF cur.recover /\ (app = "open" \/ zk_node)
       THEN /\ app' = "info"
            /\ Send(sock[cur.c], Request("GET_INFO", cur.p))
            /\ UNCHANGED <<busy_clients, idle_clients, csl_path_cli, csl_fd_cli, cur>>
       ELSE HandOut /\ UNCHANGED req
    /\ UNCHANGED <<open_fds, files, filename, file_size, seq, sock,
                   backlog, next_sock, closed, serverVars, restarts, leftover>>

\* What a client that expects a ServerResp makes of a reply: the bytes of a
\* region token may say anything.
InfoFrom(r) == IF r.mr = NoMR THEN {r} ELSE [mr : {NoMR}, size : 0 .. 1, seq : 0 .. 1]

\* RDMA writes through a token that is not one of an MR go nowhere.
RemoteWrite(f, c, v) == [m \in MRs |-> IF m = token[c] THEN v ELSE f[m]]

\* TryRecover: the answer to GET_INFO.  A sequence number other than 0 makes
\* the server the source, whose content is read back if there is any.
\* Otherwise the server is brought to the state of the client, whose buffer
\* is all zeroes and whose file_size may be the one of its previous file: the
\* zeroes cover the content of the MR, or a part of it.
TryRecover ==
    /\ app = "info"
    /\ resp[sock[cur.c]] # <<>>
    /\ \E r \in InfoFrom(Head(resp[sock[cur.c]])) :
         IF r.seq # 0
         THEN /\ file_size' = IF r.size # 0 THEN [file_size EXCEPT ![cur.c] = r.size]
                              ELSE file_size
              /\ UNCHANGED <<mr_size, mr_seq>>
         ELSE /\ mr_size' \in IF file_size[cur.c] = 0 THEN {mr_size}
                              ELSE {mr_size, RemoteWrite(mr_size, cur.c, 0)}
              /\ mr_seq' = RemoteWrite(mr_seq, cur.c, 0)
              /\ UNCHANGED file_size
    /\ resp' = [resp EXCEPT ![sock[cur.c]] = Tail(@)]
    /\ HandOut
    /\ UNCHANGED <<open_fds, files, filename, seq, sock, token, zk_node, req, backlog,
                   next_sock, closed, server_up, local_cons, existing_qps, free_mrs,
                   restarts, leftover>>

\* A write through a descriptor: Append, with the replica up to date when it
\* returns.  The descriptor may have outlived its path, and the MR be free or
\* another file's by then.
write(fd) ==
    /\ app = "idle" /\ server_up
    /\ csl_fd_cli[fd] # NoClient
    /\ LET c == csl_fd_cli[fd] IN
         /\ file_size' = [file_size EXCEPT ![c] = 1]
         /\ seq' = [seq EXCEPT ![c] = 1]
         /\ mr_size' = RemoteWrite(mr_size, c, 1)
         /\ mr_seq' = RemoteWrite(mr_seq, c, seq[c])
    /\ UNCHANGED <<fileVars, idle_clients, busy_clients, filename, sock, token, callVars,
                   netVars, server_up, local_cons, existing_qps, free_mrs, restarts, leftover>>

close(fd) ==
    /\ app = "idle"
    /\ open_fds[fd] # NoPath
    /\ open_fds' = [open_fds EXCEPT ![fd] = NoPath]
    /\ csl_fd_cli' = [csl_fd_cli EXCEPT ![fd] = NoClient]
    /\ UNCHANGED <<files, csl_path_cli, poolVars, callVars, netVars, serverVars, restarts, leftover>>

\* Faulty variant: CLOSE_FILE is not sent.
RecycleClient_Silent(c) ==
    /\ busy_clients' = busy_clients \ {c}
    /\ idle_clients' = idle_clients \cup {c}
    /\ filename' = [filename EXCEPT ![c] = NoPath]
    /\ UNCHANGED req

\* RecycleClient: Reset zeroes the buffer and sends CLOSE_FILE, but leaves
\* file_size and seq.
RecycleClient(c) ==
    /\ busy_clients' = busy_clients \ {c}
    /\ idle_clients' = idle_clients \cup {c}
    /\ Send(sock[c], Request("CLOSE_FILE", filename[c]))
    /\ filename' = [filename EXCEPT ![c] = NoPath]

\* Faulty variant: the client goes back to the pool but keeps its path.
unlink_KeepsPath(p) ==
    /\ app = "idle"
    /\ p \in files
    /\ files' = files \ {p}
    /\ LET c == csl_path_cli[p] IN
         IF c = NoClient
         THEN UNCHANGED <<busy_clients, idle_clients, filename, req>>
         ELSE RecycleClient(c)
    /\ UNCHANGED <<open_fds, csl_fd_cli, csl_path_cli, file_size, seq, sock, token, callVars,
                   resp, backlog, next_sock, closed, serverVars, restarts, leftover>>

\* unlink recycles the client of the path; descriptors still open on it keep
\* their entry in csl_fd_cli.
unlink(p) ==
    /\ app = "idle"
    /\ p \in files
    /\ files' = files \ {p}
    /\ LET c == csl_path_cli[p] IN
         IF c = NoClient
         THEN UNCHANGED <<busy_clients, idle_clients, filename, csl_path_cli, req>>
         ELSE /\ RecycleClient(c)
              /\ csl_path_cli' = [csl_path_cli EXCEPT ![p] = NoClient]
    /\ UNCHANGED <<open_fds, csl_fd_cli, file_size, seq, sock, token, callVars,
                   resp, backlog, next_sock, closed, serverVars, restarts, leftover>>

\* The process ends.  When it exits, ~CSLClient sends EXIT_PROC for every
\* client in use.
ProcessEnd(exits) ==
    /\ restarts < MaxRestarts
    /\ restarts' = restarts + 1
    /\ exits => app = "idle"
    /\ req' = [s \in Socks |->
                 IF exits /\ \E c \in busy_clients : sock[c] = s
                 THEN LET c == CHOOSE i \in busy_clients : sock[i] = s
                      IN  Append(req[s], Request("EXIT_PROC", filename[c]))
                 ELSE req[s]]
    /\ closed' = 1 .. next_sock - 1
    /\ open_fds' = [d \in Fds |-> NoPath]
    /\ csl_fd_cli' = [d \in Fds |-> NoClient] /\ csl_path_cli' = [p \in Paths |-> NoClient]
    /\ idle_clients' = {} /\ busy_clients' = {}
    /\ filename' = [c \in Clients |-> NoPath]
    /\ file_size' = [c \in Clients |-> 0] /\ seq' = [c \in Clients |-> 0]
    /\ sock' = [c \in Clients |-> 0] /\ token' = [c \in Clients |-> NoMR]
    /\ app' = "idle" /\ cur' = NoCall
    /\ resp' = [s \in Socks |-> <<>>]
    /\ UNCHANGED <<files, zk_node, backlog, next_sock, serverVars, leftover>>

-----------------------------------------------------------------------------
(* server.cc and mr_pool.cc. *)

\* What the server sends to a process that is gone is lost.
Reply(s, r) == resp' = IF s \in closed THEN resp ELSE [resp EXCEPT ![s] = Append(@, r)]

\* NCLMrPool::GetMRofSize: a free MR, or a new one when there is none.
GetMRofSize == IF free_mrs # {} THEN free_mrs
               ELSE MRs \ {local_cons[p].mr : p \in Paths}

\* NCLMrPool::RecycleMR.
RecycleMR(m) ==
    /\ free_mrs' = free_mrs \cup {m}
    /\ mr_size' = [mr_size EXCEPT ![m] = 0]
    /\ mr_seq' = [mr_seq EXCEPT ![m] = 0]

\* handleIncomingConnection: a file the server does not know gets a zeroed MR;
\* for one it knows the MR is kept and the old queue pair dropped.
handleIncomingConnection ==
    /\ server_up
    /\ backlog # <<>>
    /\ backlog' = Tail(backlog)
    /\ LET s == Head(backlog).s
           p == Head(backlog).p
       IN  IF local_cons[p] = NoCon
           THEN \E m \in GetMRofSize :
                  /\ free_mrs' = free_mrs \ {m}
                  /\ mr_size' = [mr_size EXCEPT ![m] = 0]
                  /\ mr_seq' = [mr_seq EXCEPT ![m] = 0]
                  /\ local_cons' = [local_cons EXCEPT ![p] = [mr |-> m, sock |-> s]]
                  /\ existing_qps' = existing_qps \cup {s}
                  /\ Reply(s, TokenReply(m))
           ELSE /\ local_cons' = [local_cons EXCEPT ![p].sock = s]
                /\ existing_qps' = (existing_qps \ {local_cons[p].sock}) \cup {s}
                /\ Reply(s, TokenReply(local_cons[p].mr))
                /\ UNCHANGED <<free_mrs, mr_size, mr_seq>>
    /\ UNCHANGED <<fileVars, poolVars, callVars, req, next_sock, closed, server_up, restarts, leftover>>

\* Faulty variant: the MR is handed out without being entered in local_cons.
OpenFile_NoInsert(s, p) ==
    IF local_cons[p] # NoCon
    THEN /\ Reply(local_cons[p].sock, TokenReply(local_cons[p].mr))
         /\ UNCHANGED serverVars
    ELSE \E m \in GetMRofSize :
           /\ Reply(s, TokenReply(m))
           /\ UNCHANGED serverVars

\* handleClientRequest, OPEN_FILE.  The token of a file the server knows goes
\* to the socket the file has, not to the one that asks; that they are the
\* same is asserted (server.cc:190) in debug builds only, and not so when
\* OPEN_FILE overtakes the CLOSE_FILE of another client's socket.
OpenFile(s, p) ==
    IF local_cons[p] # NoCon
    THEN /\ Reply(local_cons[p].sock, TokenReply(local_cons[p].mr))
         /\ UNCHANGED serverVars
    ELSE \E m \in GetMRofSize :
           /\ free_mrs' = free_mrs \ {m}
           /\ local_cons' = [local_cons EXCEPT ![p] = [mr |-> m, sock |-> s]]
           /\ Reply(s, TokenReply(m))
           /\ UNCHANGED <<server_up, existing_qps, mr_size, mr_seq>>

\* Faulty variant: the MR is recycled but the file keeps it.
CloseFile_KeepsCon(p) ==
    /\ local_cons[p] # NoCon
    /\ RecycleMR(local_cons[p].mr)
    /\ UNCHANGED <<server_up, local_cons, existing_qps, resp>>

\* CLOSE_FILE.
CloseFile(p) ==
    IF local_cons[p] = NoCon
    THEN UNCHANGED <<serverVars, resp>>
    ELSE /\ RecycleMR(local_cons[p].mr)
         /\ local_cons' = [local_cons EXCEPT ![p] = NoCon]
         /\ UNCHANGED <<server_up, existing_qps, resp>>

\* EXIT_PROC: handleClientRequest returns 0 and Run drops the queue pair.
ExitProc(s) ==
    /\ existing_qps' = existing_qps \ {s}
    /\ UNCHANGED <<server_up, local_cons, free_mrs, mr_size, mr_seq, resp>>

\* GET_INFO.  For a file the server does not know, the answer is sent to the
\* queue pair of local_cons.end(): the server crashes.
GetInfo(p) ==
    IF local_cons[p] = NoCon
    THEN /\ server_up' = FALSE
         /\ UNCHANGED <<local_cons, existing_qps, free_mrs, mr_size, mr_seq, resp>>
    ELSE /\ Reply(local_cons[p].sock, InfoReply(local_cons[p].mr))
         /\ UNCHANGED serverVars

\* One request from socket s.
handleClientRequest(s) ==
    /\ server_up
    /\ s \in existing_qps
    /\ req[s] # <<>>
    /\ req' = [req EXCEPT ![s] = Tail(@)]
    /\ LET r == Head(req[s]) IN
         \/ r.type = "OPEN_FILE" /\ OpenFile(s, r.p)
         \/ r.type = "CLOSE_FILE" /\ CloseFile(r.p)
         \/ r.type = "EXIT_PROC" /\ ExitProc(s)
         \/ r.type = "GET_INFO" /\ GetInfo(r.p)
    /\ leftover' = (leftover \/ (s \in closed /\ Head(req[s]).type # "EXIT_PROC"))
    /\ UNCHANGED <<fileVars, poolVars, callVars, backlog, next_sock, closed, restarts>>

\* recv returns 0 on a socket whose process is gone, once it is drained.
Disconnected(s) ==
    /\ server_up
    /\ s \in existing_qps /\ s \in closed
    /\ req[s] = <<>>
    /\ existing_qps' = existing_qps \ {s}
    /\ UNCHANGED <<fileVars, poolVars, callVars, netVars, server_up, local_cons,
                   free_mrs, mr_size, mr_seq, restarts, leftover>>

-----------------------------------------------------------------------------
SessionsNext ==
    \/ \E p \in Paths, d \in Fds, trunc \in BOOLEAN : open(p, d, trunc)
    \/ \E p \in Paths : stat(p) \/ unlink(p)
    \/ \E d \in Fds : write(d) \/ close(d)
    \/ ReceiveToken \/ TryRecover
    \/ \E exits \in BOOLEAN : ProcessEnd(exits)
    \/ handleIncomingConnection
    \/ \E s \in Socks : handleClientRequest(s) \/ Disconnected(s)

SessionsSpec == SessionsInit /\ [][SessionsNext]_sessionVars

-----------------------------------------------------------------------------
(* Properties. *)

\* Every variable has the values its C++ counterpart can have; in particular
\* the pool never needs more clients than there are files.
SessionsTypeOK ==
    /\ open_fds \in [Fds -> Paths \cup {NoPath}] /\ files \subseteq Paths
    /\ csl_fd_cli \in [Fds -> Clients \cup {NoClient}]
    /\ csl_path_cli \in [Paths -> Clients \cup {NoClient}]
    /\ idle_clients \subseteq Clients /\ busy_clients \subseteq Clients
    /\ filename \in [Clients -> Paths \cup {NoPath}]
    /\ file_size \in [Clients -> 0 .. 1] /\ seq \in [Clients -> 0 .. 1]
    /\ sock \in [Clients -> {0} \cup Socks] /\ token \in [Clients -> MRs \cup {NoMR}]
    /\ app \in {"idle", "connect", "open", "info"} /\ zk_node \in BOOLEAN
    /\ cur \in [c : Clients \cup {NoClient}, p : Paths \cup {NoPath},
                fd : Fds \cup {NoFd}, recover : BOOLEAN]
    /\ server_up \in BOOLEAN
    /\ local_cons \in [Paths -> [mr : MRs \cup {NoMR}, sock : {0} \cup Socks]]
    /\ existing_qps \subseteq Socks /\ free_mrs \subseteq MRs

\* The pool and the tables agree: a client is idle or busy, the busy ones are
\* those that have a path, and no two paths share one.
PoolOK ==
    /\ idle_clients \cap busy_clients = {}
    /\ \A c \in Clients : c \in busy_clients <=> \E p \in Paths : csl_path_cli[p] = c
    /\ \A p, q \in Paths : csl_path_cli[p] = csl_path_cli[q] /\ p # q
                               => csl_path_cli[p] = NoClient

\* No MR serves two files, and none in the free pool serves any.
MRsDisjoint ==
    \A p \in Paths : local_cons[p] # NoCon =>
        /\ local_cons[p].mr \notin free_mrs
        /\ \A q \in Paths \ {p} : local_cons[q].mr # local_cons[p].mr

\* However often the process exits or crashes and is started again, the server
\* looks for the queue pair of a file it does not know (server.cc:236) only
\* after it has served a request, other than EXIT_PROC, that a process left
\* behind when it ended.
ServerSurvives == ~leftover => server_up

\* OPEN_FILE for a file the server knows is answered on the socket that the file
\* has (server.cc:191), and when that is another one the caller waits for ever.
\* Until a request of an ended process has been served, it is another one only
\* when OPEN_FILE overtakes the CLOSE_FILE with which another client gives the
\* file up, or when an ended process left the file open.
AnsweredElsewhere ==
    ~leftover => \A s \in Socks \ closed, p \in Paths :
        LET t == local_cons[p].sock IN
        /\ req[s] # <<>> /\ Head(req[s]) = Request("OPEN_FILE", p)
        /\ local_cons[p] # NoCon /\ t # s
        => t \in closed \/ (req[t] # <<>> /\ Head(req[t]) = Request("CLOSE_FILE", p))

=============================================================================
