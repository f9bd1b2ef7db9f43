----------------------------- MODULE FileTables -----------------------------
(***************************************************************************)
(* The tables of src/csl.cc under several application threads: csl_fd_cli, *)
(* which csl_lock guards one access at a time, csl_path_cli, which nothing *)
(* guards, and the pool of clients with its own lock.  A call is a         *)
(* sequence of steps, one per lock section or call into the kernel, and    *)
(* other threads run between them.                                         *)
(*                                                                         *)
(* What the application has to do by itself: csl_path_cli is an            *)
(* unsynchronised unordered_map, so calls that use it (open with O_CSL,    *)
(* stat, unlink) exclude one another (path_call); and a descriptor is not  *)
(* used once a thread has started to close it.  Everything else runs       *)
(* concurrently: writes with closes of other descriptors, with unlink of   *)
(* the same file, with an open that gets the number just closed.           *)
(*                                                                         *)
(* The constructor of a client and the requests to the server run inside   *)
(* the pool's lock: they are one step here and the subject of Sessions.    *)
(***************************************************************************)
EXTENDS Integers, FiniteSets

CONSTANTS
    Threads, NoThread,
    Paths, NoPath,
    Fds, NoFd,       \* descriptors the kernel hands out
    NoClient

ASSUME FileTablesAssumption ==
    /\ NoThread \notin Threads /\ NoPath \notin Paths /\ NoFd \notin Fds
    /\ IsFiniteSet(Paths)
    /\ NoClient \notin Nat

\* The ids the pool needs, one client per path; nothing keeps it from making
\* more but the order in which csl.cc takes clients and gives them back.
Clients == 0 .. Cardinality(Paths) - 1

VARIABLES
    \* kernel
    fd_path,         \* path a descriptor is open on
    on_disk,         \* paths that exist, and whether their size is not 0
    \* csl.cc and client_pool.cc
    csl_fd_cli, csl_path_cli,
    idle_clients, busy_clients,
    filename,        \* per client
    \* per thread
    pc, arg_fd, arg_path,
    cli,             \* the client its call has found or was given
    path_call,       \* the thread inside open with O_CSL, stat or unlink
    \* history
    fd_csl,          \* descriptors opened with O_CSL
    stale,           \* descriptors whose file was unlinked since
    stale_use        \* threads whose call is on a file unlinked since

kernelVars == <<fd_path, on_disk>>
tableVars  == <<csl_fd_cli, csl_path_cli, idle_clients, busy_clients, filename>>
threadVars == <<pc, arg_fd, arg_path, cli>>
historyVars == <<fd_csl, stale, stale_use>>
tablesVars == <<kernelVars, tableVars, threadVars, path_call, historyVars>>

Absent == "absent"  \* the path does not exist
Empty  == "empty"   \* it has size 0, as every file kept by the peers
Full   == "full"    \* data has been written to the file on disk

TablesInit ==
    /\ fd_path = [d \in Fds |-> NoPath] /\ on_disk = [p \in Paths |-> Absent]
    /\ csl_fd_cli = [d \in Fds |-> NoClient] /\ csl_path_cli = [p \in Paths |-> NoClient]
    /\ idle_clients = {} /\ busy_clients = {}
    /\ filename = [c \in Clients |-> NoPath]
    /\ pc = [t \in Threads |-> "idle"]
    /\ arg_fd = [t \in Threads |-> NoFd] /\ arg_path = [t \in Threads |-> NoPath]
    /\ cli = [t \in Threads |-> NoClient]
    /\ path_call = NoThread
    /\ fd_csl = {} /\ stale = {} /\ stale_use = {}

Closing(d) == \E t \in Threads : arg_fd[t] = d /\ pc[t] \in {"erase", "kclose"}
Opening(d) == \E t \in Threads : arg_fd[t] = d /\ pc[t] \in {"getclient", "insert"}

\* Thread t enters a call on d and p, is at label l and holds client c.
At(t, l, d, p, c) ==
    /\ pc' = [pc EXCEPT ![t] = l]
    /\ arg_fd' = [arg_fd EXCEPT ![t] = d]
    /\ arg_path' = [arg_path EXCEPT ![t] = p]
    /\ cli' = [cli EXCEPT ![t] = c]

\* Thread t returns to the application.
Leave(t) == At(t, "idle", NoFd, NoPath, NoClient)

-----------------------------------------------------------------------------
(* open, stat *)

\* original_open; without O_CSL getClient does nothing and open returns.
open(t, d, p, csl, trunc) ==
    /\ pc[t] = "idle"
    /\ fd_path[d] = NoPath
    /\ fd_path' = [fd_path EXCEPT ![d] = p]
    /\ on_disk' = [on_disk EXCEPT ![p] = IF @ = Absent \/ trunc THEN Empty ELSE @]
    /\ stale' = stale \ {d}
    /\ IF csl
       THEN /\ path_call = NoThread /\ path_call' = t
            /\ At(t, "getclient", d, p, NoClient)
            /\ fd_csl' = fd_csl \cup {d}
       ELSE /\ fd_csl' = fd_csl \ {d}
            /\ UNCHANGED <<threadVars, path_call>>
    /\ UNCHANGED <<tableVars, stale_use>>

\* fopen_internal: the same, O_CSL being a mode that ends in l.
fopen(t, d, p, csl, trunc) == open(t, d, p, csl, trunc)

\* __xstat64 of a path without client whose file is empty: its content is
\* fetched, and the size read from the entry getClient has made.
stat(t, p) ==
    /\ pc[t] = "idle" /\ path_call = NoThread
    /\ on_disk[p] = Empty
    /\ csl_path_cli[p] = NoClient
    /\ path_call' = t
    /\ At(t, "getclient", NoFd, p, NoClient)
    /\ UNCHANGED <<kernelVars, tableVars, historyVars>>

\* idle_clients.begin(), the lowest id, or a new client with id global_id++:
\* clients are never destroyed, so that is the number of busy ones.
FromPool ==
    IF idle_clients # {}
    THEN {i \in idle_clients : \A j \in idle_clients : i <= j}
    ELSE {Cardinality(busy_clients)}

\* Faulty variant: a client is taken from the pool without taking it out.
GetClient_StaysIdle(c, p) ==
    /\ busy_clients' = busy_clients \cup {c}
    /\ filename' = [filename EXCEPT ![c] = p]
    /\ UNCHANGED idle_clients

\* CSLClientPool::GetClient hands out c of FromPool for path p.
GetClient(c, p) ==
    /\ idle_clients' = idle_clients \ {c}
    /\ busy_clients' = busy_clients \cup {c}
    /\ filename' = [filename EXCEPT ![c] = p]

\* getClient: the client the path has, or one of the pool; csl_path_cli.insert
\* does not replace an entry.
getClient(t) ==
    /\ pc[t] = "getclient"
    /\ LET p == arg_path[t] IN
         \/ /\ csl_path_cli[p] # NoClient
            /\ cli' = [cli EXCEPT ![t] = csl_path_cli[p]]
            /\ UNCHANGED <<csl_path_cli, idle_clients, busy_clients, filename>>
         \/ /\ csl_path_cli[p] = NoClient
            /\ \E c \in FromPool :
                 /\ GetClient(c, p)
                 /\ cli' = [cli EXCEPT ![t] = c]
                 /\ csl_path_cli' = [csl_path_cli EXCEPT ![p] = c]
    /\ pc' = [pc EXCEPT ![t] = "insert"]
    /\ UNCHANGED <<kernelVars, csl_fd_cli, arg_fd, arg_path, path_call, historyVars>>

\* csl_fd_cli.insert under csl_lock, unless the caller is stat; an entry that
\* is there already is kept.
InsertFd(t) ==
    /\ pc[t] = "insert"
    /\ LET d == arg_fd[t] IN
         csl_fd_cli' = IF d = NoFd \/ csl_fd_cli[d] # NoClient THEN csl_fd_cli
                       ELSE [csl_fd_cli EXCEPT ![d] = cli[t]]
    /\ path_call' = NoThread
    /\ Leave(t)
    /\ UNCHANGED <<kernelVars, csl_path_cli, idle_clients, busy_clients, filename, historyVars>>

-----------------------------------------------------------------------------
(* Calls on a descriptor *)

\* The application calls on an open descriptor that nobody is closing.
Usable(t, d) ==
    /\ pc[t] = "idle"
    /\ fd_path[d] # NoPath
    /\ ~Closing(d) /\ ~Opening(d)

\* write: find and copy of the client under csl_lock.  read, lseek and the
\* other calls on a descriptor begin in the same way.
FindFd(t, d) ==
    /\ Usable(t, d)
    /\ At(t, "use", d, fd_path[d], csl_fd_cli[d])
    /\ stale_use' = IF d \in stale THEN stale_use \cup {t} ELSE stale_use
    /\ UNCHANGED <<kernelVars, tableVars, path_call, fd_csl, stale>>

\* Append on the client found, or original_write, which goes to the file the
\* number stands for by then: none if it was closed meanwhile, another if it
\* was opened again, and no path any more if the file was unlinked.
Use(t) ==
    /\ pc[t] = "use"
    /\ LET d == arg_fd[t] IN
         on_disk' = IF cli[t] = NoClient /\ d \notin stale
                    THEN [p \in Paths |-> IF p = fd_path[d] THEN Full ELSE on_disk[p]]
                    ELSE on_disk
    /\ stale_use' = stale_use \ {t}
    /\ Leave(t)
    /\ UNCHANGED <<fd_path, tableVars, path_call, fd_csl, stale>>

\* sync_internal looks without the lock.  While another thread changes the
\* table it may miss the entry, and sync the file on disk.
FindSync(t, d) ==
    /\ Usable(t, d)
    /\ \E c \in {csl_fd_cli[d]} \cup
                (IF \E u \in Threads : pc[u] \in {"insert", "erase"} THEN {NoClient} ELSE {}) :
         At(t, "sync", d, fd_path[d], c)
    /\ UNCHANGED <<kernelVars, tableVars, path_call, historyVars>>

\* fsync is a no-op for a file the peers keep, and sync_impl for others.
Sync(t) ==
    /\ pc[t] = "sync"
    /\ Leave(t)
    /\ UNCHANGED <<kernelVars, tableVars, path_call, historyVars>>

\* Faulty variant: the descriptor is given back to the kernel before its entry
\* is erased.
EraseFd_Late(t) ==
    /\ pc[t] \in {"erase", "kclose"}
    /\ IF pc[t] = "erase"
       THEN /\ fd_path' = [fd_path EXCEPT ![arg_fd[t]] = NoPath]
            /\ pc' = [pc EXCEPT ![t] = "kclose"]
            /\ UNCHANGED <<csl_fd_cli, arg_fd, arg_path, cli>>
       ELSE /\ csl_fd_cli' = [csl_fd_cli EXCEPT ![arg_fd[t]] = NoClient]
            /\ Leave(t)
            /\ UNCHANGED fd_path
    /\ UNCHANGED <<on_disk, csl_path_cli, idle_clients, busy_clients, filename, path_call,
                   historyVars>>

\* close: find under csl_lock.
close(t, d) ==
    /\ Usable(t, d)
    /\ At(t, IF csl_fd_cli[d] # NoClient THEN "erase" ELSE "kclose", d, fd_path[d], NoClient)
    /\ UNCHANGED <<kernelVars, tableVars, path_call, historyVars>>

\* fclose works on the table in the same way.
fclose(t, d) == close(t, d)

\* The lock is taken again and the entry found before is erased.  If other
\* threads inserted meanwhile and the table grew, the standard calls the iterator
\* invalid; in libstdc++ it is a pointer to the entry, and erases that entry.
EraseFd(t) ==
    /\ pc[t] = "erase"
    /\ csl_fd_cli' = [csl_fd_cli EXCEPT ![arg_fd[t]] = NoClient]
    /\ pc' = [pc EXCEPT ![t] = "kclose"]
    /\ UNCHANGED <<kernelVars, csl_path_cli, idle_clients, busy_clients, filename,
                   arg_fd, arg_path, cli, path_call, historyVars>>

\* original_close: from here on the kernel may hand the descriptor out again.
CloseKernel(t) ==
    /\ pc[t] = "kclose"
    /\ fd_path' = [fd_path EXCEPT ![arg_fd[t]] = NoPath]
    /\ Leave(t)
    /\ UNCHANGED <<on_disk, tableVars, path_call, historyVars>>

-----------------------------------------------------------------------------
(* unlink *)

\* unlink of a path without client goes to the kernel at once.  Otherwise
\* RecycleClient under the pool's lock: the client loses its file name and
\* becomes idle; a client that is not busy is left as it is.
unlink(t, p) ==
    /\ pc[t] = "idle" /\ path_call = NoThread
    /\ on_disk[p] # Absent
    /\ path_call' = t
    /\ LET c == csl_path_cli[p] IN
         /\ At(t, IF c = NoClient THEN "kunlink" ELSE "erasepath", NoFd, p, c)
         /\ IF c \in busy_clients
            THEN /\ busy_clients' = busy_clients \ {c}
                 /\ idle_clients' = idle_clients \cup {c}
                 /\ filename' = [filename EXCEPT ![c] = NoPath]
            ELSE UNCHANGED <<busy_clients, idle_clients, filename>>
    /\ stale' = stale \cup {d \in Fds : fd_path[d] = p}
    /\ stale_use' = stale_use \cup {u \in Threads : arg_path[u] = p /\ pc[u] = "use"}
    /\ UNCHANGED <<kernelVars, csl_fd_cli, csl_path_cli, fd_csl>>

\* Faulty variant: the path keeps the client that is back in the pool.
ErasePath_Kept(t) ==
    /\ pc[t] = "erasepath"
    /\ pc' = [pc EXCEPT ![t] = "kunlink"]
    /\ UNCHANGED <<kernelVars, tableVars, arg_fd, arg_path, cli, path_call, historyVars>>

\* csl_path_cli.erase
ErasePath(t) ==
    /\ pc[t] = "erasepath"
    /\ csl_path_cli' = [csl_path_cli EXCEPT ![arg_path[t]] = NoClient]
    /\ pc' = [pc EXCEPT ![t] = "kunlink"]
    /\ UNCHANGED <<kernelVars, csl_fd_cli, idle_clients, busy_clients, filename,
                   arg_fd, arg_path, cli, path_call, historyVars>>

\* original_unlink
UnlinkKernel(t) ==
    /\ pc[t] = "kunlink"
    /\ on_disk' = [on_disk EXCEPT ![arg_path[t]] = Absent]
    /\ stale' = stale \cup {d \in Fds : fd_path[d] = arg_path[t]}
    /\ path_call' = NoThread
    /\ Leave(t)
    /\ UNCHANGED <<fd_path, tableVars, fd_csl, stale_use>>

-----------------------------------------------------------------------------
Begin(t) ==
    \/ \E d \in Fds, p \in Paths, csl, trunc \in BOOLEAN :
          open(t, d, p, csl, trunc) \/ fopen(t, d, p, csl, trunc)
    \/ \E p \in Paths : stat(t, p) \/ unlink(t, p)
    \/ \E d \in Fds : FindFd(t, d) \/ FindSync(t, d) \/ close(t, d) \/ fclose(t, d)

Continue(t) ==
    \/ getClient(t) \/ InsertFd(t)
    \/ Use(t) \/ Sync(t)
    \/ EraseFd(t) \/ CloseKernel(t)
    \/ ErasePath(t) \/ UnlinkKernel(t)

TablesNext == \E t \in Threads : Begin(t) \/ Continue(t)

TablesSpec == TablesInit /\ [][TablesNext]_tablesVars

-----------------------------------------------------------------------------
(* Properties. *)

\* Every variable has the values its C++ counterpart can have; no client is idle
\* and busy at once, and the pool never makes more clients, and with them
\* buffers and memory regions, than there are paths (client_pool.cc:65, 79).
TablesTypeOK ==
    /\ fd_path \in [Fds -> Paths \cup {NoPath}] /\ on_disk \in [Paths -> {Absent, Empty, Full}]
    /\ csl_fd_cli \in [Fds -> Clients \cup {NoClient}]
    /\ csl_path_cli \in [Paths -> Clients \cup {NoClient}]
    /\ idle_clients \subseteq Clients /\ busy_clients \subseteq Clients
    /\ idle_clients \cap busy_clients = {}
    /\ filename \in [Clients -> Paths \cup {NoPath}]
    /\ pc \in [Threads -> {"idle", "getclient", "insert", "use", "sync", "erase", "kclose",
                           "erasepath", "kunlink"}]
    /\ arg_fd \in [Threads -> Fds \cup {NoFd}] /\ arg_path \in [Threads -> Paths \cup {NoPath}]
    /\ cli \in [Threads -> Clients \cup {NoClient}]
    /\ path_call \in Threads \cup {NoThread}
    /\ fd_csl \subseteq Fds /\ stale \subseteq Fds /\ stale_use \subseteq Threads

\* Descriptors reach the right file whatever number the kernel hands out again
\* while other threads close and open: one opened with O_CSL has the client of
\* its path (unless the path was unlinked since), any other has none, so that
\* its data goes to the disk and not into some log (csl.cc:103, 260).
FdRouted ==
    \A d \in Fds : fd_path[d] # NoPath /\ ~Opening(d) /\ ~Closing(d) =>
        IF d \notin fd_csl THEN csl_fd_cli[d] = NoClient
        ELSE d \notin stale => csl_fd_cli[d] # NoClient /\ csl_fd_cli[d] = csl_path_cli[fd_path[d]]

\* A call that found its client under csl_lock uses it after unlocking; the
\* descriptor may have been closed and reopened on another file meanwhile.
\* The client still is that of the file the call was made on (csl.cc:212).
CallReachesItsFile ==
    \A t \in Threads : pc[t] = "use" /\ t \notin stale_use /\ cli[t] # NoClient =>
        /\ filename[cli[t]] = arg_path[t]
        /\ cli[t] \in busy_clients

\* Outside the calls that change them the pool and csl_path_cli agree: the
\* busy clients are those of a path, and each has the name of its path, which
\* is therefore the only one it has.
PathsOwnClients ==
    path_call = NoThread =>
        /\ busy_clients = {csl_path_cli[p] : p \in Paths} \ {NoClient}
        /\ \A p \in Paths : csl_path_cli[p] # NoClient => filename[csl_path_cli[p]] = p

=============================================================================
