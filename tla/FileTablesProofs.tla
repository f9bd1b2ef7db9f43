-------------------------- MODULE FileTablesProofs --------------------------
(***************************************************************************)
(* The invariants of FileTables for every number of threads, paths and     *)
(* descriptors.  FdRouted, CallReachesItsFile and PathsOwnClients speak of *)
(* threads that are between the lock sections of a call only by leaving    *)
(* them out; TablesInv says what each of these threads knows of the        *)
(* tables, and is inductive.                                               *)
(***************************************************************************)
EXTENDS FileTables, FiniteSetTheorems, TLAPS

-----------------------------------------------------------------------------
(* The inductive invariant. *)

\* Where a thread is inside a call that uses csl_path_cli.
PathLabels == {"getclient", "insert", "erasepath", "kunlink"}

\* A thread that has found an entry or a file holds on to its arguments, and
\* the one inside open, stat or unlink is path_call.
CallsInv ==
    \A t \in Threads :
        /\ pc[t] \in PathLabels <=> path_call = t
        /\ pc[t] # "idle" => arg_path[t] \in Paths
        /\ pc[t] \in {"use", "sync", "erase", "kclose"} => arg_fd[t] \in Fds

\* A descriptor has an entry only if it is open and was opened with O_CSL.
EntryInv ==
    \A d \in Fds : csl_fd_cli[d] # NoClient => fd_path[d] # NoPath /\ d \in fd_csl

\* What open knows when it inserts the entry of its descriptor.
OpenInv ==
    \A t \in Threads :
        /\ pc[t] \in {"getclient", "insert"} /\ arg_fd[t] # NoFd =>
              /\ arg_fd[t] \in fd_csl /\ csl_fd_cli[arg_fd[t]] = NoClient
              /\ fd_path[arg_fd[t]] = arg_path[t]
        /\ pc[t] = "insert" => cli[t] # NoClient /\ cli[t] = csl_path_cli[arg_path[t]]

\* A descriptor is closed by one thread and while no thread opens it, stays open
\* until original_close, and has no entry any more when it gets there.
CloseInv ==
    /\ \A t \in Threads : pc[t] \in {"erase", "kclose"} => fd_path[arg_fd[t]] # NoPath
    /\ \A t \in Threads : pc[t] = "kclose" => csl_fd_cli[arg_fd[t]] = NoClient
    /\ \A t, u \in Threads :
          pc[t] \in {"erase", "kclose"} /\ pc[u] \in {"erase", "kclose"} /\ arg_fd[t] = arg_fd[u]
             => t = u
    /\ \A t, u \in Threads :
          pc[t] \in {"erase", "kclose"} /\ pc[u] \in {"getclient", "insert"}
             => arg_fd[t] # arg_fd[u]

\* Between RecycleClient and csl_path_cli.erase the entry of the path is out of
\* date; all descriptors that were opened through it are marked.
UnlinkInv ==
    \A t \in Threads : pc[t] = "erasepath" =>
        /\ csl_path_cli[arg_path[t]] \notin busy_clients
        /\ \A d \in fd_csl : fd_path[d] = arg_path[t] => d \in stale

\* The pool has made the clients 0 to n - 1, at most one per path; the busy ones
\* and the paths with a client belong together.
PoolInv ==
    /\ \E n \in 0 .. Cardinality(Paths) : idle_clients \cup busy_clients = 0 .. n - 1
    /\ \A c \in busy_clients : filename[c] \in Paths /\ csl_path_cli[filename[c]] = c
    /\ \A p \in Paths :
          /\ csl_path_cli[p] # NoClient
          /\ ~\E t \in Threads : pc[t] = "erasepath" /\ arg_path[t] = p
          => csl_path_cli[p] \in busy_clients /\ filename[csl_path_cli[p]] = p

TablesInv ==
    /\ TablesTypeOK /\ CallsInv /\ EntryInv /\ OpenInv /\ CloseInv /\ UnlinkInv /\ PoolInv
    /\ FdRouted /\ CallReachesItsFile

-----------------------------------------------------------------------------
(* The pool. *)

\* Clients are numbers, and NoClient is none of them.
LEMMA ClientIds == Clients \subseteq Nat /\ NoClient \notin Clients
<1>1. Cardinality(Paths) \in Nat
  BY FileTablesAssumption, FS_CardinalityType
<1> QED BY <1>1, FileTablesAssumption DEF Clients

\* GetClient hands out a client that is not busy, and counts it once.
LEMMA FreshClient ==
    ASSUME TablesTypeOK, PoolInv, NEW c \in FromPool
    PROVE  c \notin busy_clients /\ c \in Nat
<1> USE FileTablesAssumption, ClientIds
<1>1. CASE idle_clients # {}
  BY <1>1 DEF FromPool, TablesTypeOK
<1>2. CASE idle_clients = {}
  <2>1. PICK n \in 0 .. Cardinality(Paths) : busy_clients = 0 .. n - 1
    BY <1>2 DEF PoolInv
  <2>2. n \in Nat
    BY FS_CardinalityType
  <2>3. Cardinality(busy_clients) = n
    BY <2>1, <2>2, FS_Interval
  <2>4. c = n
    BY <1>2, <2>3 DEF FromPool
  <2> QED BY <2>1, <2>2, <2>4
<1> QED BY <1>1, <1>2

\* A new client is made only while some path has none, so there are never more
\* clients than paths.
LEMMA PoolGrows ==
    ASSUME TablesTypeOK, PoolInv, NEW c \in FromPool, NEW p \in Paths, GetClient(c, p),
           csl_path_cli[p] = NoClient
    PROVE  /\ \E n \in 0 .. Cardinality(Paths) : idle_clients' \cup busy_clients' = 0 .. n - 1
           /\ c \in Clients
<1> USE FileTablesAssumption, ClientIds
<1>1. Cardinality(Paths) \in Nat
  BY FS_CardinalityType
<1>2. PICK n \in 0 .. Cardinality(Paths) : idle_clients \cup busy_clients = 0 .. n - 1
  BY DEF PoolInv
<1>3. idle_clients' = idle_clients \ {c} /\ busy_clients' = busy_clients \cup {c}
  BY DEF GetClient
<1>4. CASE idle_clients # {}
  <2>1. c \in idle_clients
    BY <1>4 DEF FromPool
  <2>2. c \in Clients
    BY <2>1 DEF TablesTypeOK
  <2> QED BY <1>2, <1>3, <2>1, <2>2
<1>5. CASE idle_clients = {}
  <2>1. busy_clients = 0 .. n - 1 /\ Cardinality(busy_clients) = n
    BY <1>1, <1>2, <1>5, FS_Interval
  <2>2. c = n
    BY <1>5, <2>1 DEF FromPool
  <2> DEFINE f == [b \in busy_clients |-> filename[b]]
  <2>3. \A b \in busy_clients : filename[b] \in Paths \ {p}
    <3>1. \A b \in busy_clients : b # NoClient
      BY DEF TablesTypeOK
    <3> QED BY <3>1 DEF PoolInv
  <2>4. f \in [busy_clients -> Paths \ {p}]
    BY <2>3
  <2>5. \A a, b \in busy_clients : f[a] = f[b] => a = b
    BY DEF PoolInv
  <2>6. f \in Injection(busy_clients, Paths \ {p})
    BY <2>4, <2>5 DEF Injection, IsInjective
  <2> HIDE DEF f
  <2>7. IsFiniteSet(Paths \ {p}) /\ Cardinality(Paths \ {p}) = Cardinality(Paths) - 1
    BY FS_RemoveElement
  <2>8. Cardinality(busy_clients) <= Cardinality(Paths \ {p})
    BY <2>6, <2>7, FS_Injection
  <2>9. n + 1 \in 0 .. Cardinality(Paths) /\ (0 .. n - 1) \cup {n} = 0 .. (n + 1) - 1
    BY <1>1, <2>1, <2>7, <2>8
  <2>10. c \in Clients
    BY <1>1, <2>2, <2>9 DEF Clients
  <2> QED BY <1>3, <1>5, <2>1, <2>2, <2>9, <2>10
<1> QED BY <1>4, <1>5

-----------------------------------------------------------------------------
(* Every step preserves the parts of TablesInv. *)

\* The values of the tables, the pool and the locals.
LEMMA TablesTypeStep == TablesInv /\ [TablesNext]_tablesVars => TablesTypeOK'
<1> SUFFICES ASSUME TablesInv, [TablesNext]_tablesVars PROVE TablesTypeOK'
  OBVIOUS
<1> USE FileTablesAssumption, ClientIds
<1>0. TablesTypeOK /\ CallsInv /\ PoolInv
  BY DEF TablesInv
<1>1. ASSUME NEW t \in Threads, Begin(t) PROVE TablesTypeOK'
  <2>1. ASSUME NEW d \in Fds, NEW p \in Paths, NEW csl \in BOOLEAN, NEW trunc \in BOOLEAN,
               open(t, d, p, csl, trunc)
        PROVE  TablesTypeOK'
    <3>1. on_disk' \in [Paths -> {Absent, Empty, Full}]
      BY <1>0, <2>1 DEF TablesTypeOK, open
    <3>2. fd_path' \in [Fds -> Paths \cup {NoPath}] /\ stale' \subseteq Fds
      BY <1>0, <2>1 DEF TablesTypeOK, open
    <3>3. CASE csl
      BY <1>0, <2>1, <3>1, <3>2, <3>3 DEF TablesTypeOK, open, At, tableVars
    <3>4. CASE ~csl
      BY <1>0, <2>1, <3>1, <3>2, <3>4 DEF TablesTypeOK, open, threadVars, tableVars
    <3> QED BY <3>3, <3>4
  <2>2. ASSUME NEW p \in Paths, stat(t, p) PROVE TablesTypeOK'
    BY <1>0, <2>2 DEF TablesTypeOK, stat, At, kernelVars, tableVars, historyVars
  <2>3. ASSUME NEW p \in Paths, unlink(t, p) PROVE TablesTypeOK'
    <3>1. /\ busy_clients' \subseteq Clients /\ idle_clients' \subseteq Clients
          /\ idle_clients' \cap busy_clients' = {}
          /\ filename' \in [Clients -> Paths \cup {NoPath}]
      <4> DEFINE c == csl_path_cli[p]
      <4>1. CASE c \in busy_clients
        <5>1. /\ busy_clients' = busy_clients \ {c} /\ idle_clients' = idle_clients \cup {c}
              /\ filename' = [filename EXCEPT ![c] = NoPath]
          BY <2>3, <4>1 DEF unlink
        <5> QED BY <1>0, <4>1, <5>1 DEF TablesTypeOK
      <4>2. CASE c \notin busy_clients
        <5>1. UNCHANGED <<busy_clients, idle_clients, filename>>
          BY <2>3, <4>2 DEF unlink
        <5> QED BY <1>0, <5>1 DEF TablesTypeOK
      <4> QED BY <4>1, <4>2
    <3>2. /\ pc' \in [Threads -> {"idle", "getclient", "insert", "use", "sync", "erase", "kclose",
                                  "erasepath", "kunlink"}]
          /\ arg_fd' \in [Threads -> Fds \cup {NoFd}]
          /\ arg_path' \in [Threads -> Paths \cup {NoPath}]
          /\ cli' \in [Threads -> Clients \cup {NoClient}]
      BY <1>0, <2>3 DEF TablesTypeOK, unlink, At
    <3> QED BY <1>0, <2>3, <3>1, <3>2 DEF TablesTypeOK, unlink, kernelVars
  <2>4. ASSUME NEW d \in Fds, FindFd(t, d) PROVE TablesTypeOK'
    BY <1>0, <2>4 DEF TablesTypeOK, FindFd, At, kernelVars, tableVars
  <2>5. ASSUME NEW d \in Fds, FindSync(t, d) PROVE TablesTypeOK'
    BY <1>0, <2>5 DEF TablesTypeOK, FindSync, At, kernelVars, tableVars, historyVars
  <2>6. ASSUME NEW d \in Fds, close(t, d) PROVE TablesTypeOK'
    BY <1>0, <2>6 DEF TablesTypeOK, close, At, kernelVars, tableVars, historyVars
  <2> QED BY <1>1, <2>1, <2>2, <2>3, <2>4, <2>5, <2>6 DEF Begin, fopen, fclose
<1>2. ASSUME NEW t \in Threads, Continue(t) PROVE TablesTypeOK'
  <2>0. /\ pc[t] # "idle" => arg_path[t] \in Paths
        /\ pc[t] \in {"use", "sync", "erase", "kclose"} => arg_fd[t] \in Fds
    BY <1>0 DEF CallsInv
  <2>1. CASE getClient(t)
    <3>1. /\ csl_path_cli' \in [Paths -> Clients \cup {NoClient}]
          /\ idle_clients' \subseteq Clients /\ busy_clients' \subseteq Clients
          /\ idle_clients' \cap busy_clients' = {}
          /\ filename' \in [Clients -> Paths \cup {NoPath}]
          /\ cli' \in [Threads -> Clients \cup {NoClient}]
      <4>1. CASE csl_path_cli[arg_path[t]] # NoClient
        BY <1>0, <2>0, <2>1, <4>1 DEF TablesTypeOK, getClient
      <4>2. CASE csl_path_cli[arg_path[t]] = NoClient
        <5> PICK c \in FromPool : /\ GetClient(c, arg_path[t])
                                  /\ cli' = [cli EXCEPT ![t] = c]
                                  /\ csl_path_cli' = [csl_path_cli EXCEPT ![arg_path[t]] = c]
          BY <2>1, <4>2 DEF getClient
        <5>1. arg_path[t] \in Paths
          BY <2>0, <2>1 DEF getClient
        <5>2. c \in Clients
          BY <1>0, <4>2, <5>1, PoolGrows
        <5> QED BY <1>0, <5>1, <5>2 DEF TablesTypeOK, GetClient
      <4> QED BY <4>1, <4>2
    <3> QED BY <1>0, <2>1, <3>1 DEF TablesTypeOK, getClient, kernelVars, historyVars
  <2>2. CASE InsertFd(t)
    <3>1. csl_fd_cli' \in [Fds -> Clients \cup {NoClient}]
      BY <1>0, <2>2 DEF TablesTypeOK, InsertFd
    <3> QED BY <1>0, <2>2, <3>1 DEF TablesTypeOK, InsertFd, Leave, At, kernelVars, historyVars
  <2>3. CASE Use(t)
    <3>1. on_disk' \in [Paths -> {Absent, Empty, Full}]
      <4>1. \/ on_disk' = on_disk
            \/ \E q : on_disk' = [p \in Paths |-> IF p = q THEN Full ELSE on_disk[p]]
        BY <2>3 DEF Use
      <4> QED BY <1>0, <4>1 DEF TablesTypeOK
    <3> QED BY <1>0, <2>3, <3>1 DEF TablesTypeOK, Use, Leave, At, tableVars
  <2>4. CASE Sync(t)
    BY <1>0, <2>4 DEF TablesTypeOK, Sync, Leave, At, kernelVars, tableVars, historyVars
  <2>5. CASE EraseFd(t)
    BY <1>0, <2>5 DEF TablesTypeOK, EraseFd, kernelVars, historyVars
  <2>6. CASE CloseKernel(t)
    BY <1>0, <2>6 DEF TablesTypeOK, CloseKernel, Leave, At, tableVars, historyVars
  <2>7. CASE ErasePath(t)
    BY <1>0, <2>7 DEF TablesTypeOK, ErasePath, kernelVars, historyVars
  <2>8. CASE UnlinkKernel(t)
    BY <1>0, <2>8 DEF TablesTypeOK, UnlinkKernel, Leave, At, tableVars
  <2> QED BY <1>2, <2>1, <2>2, <2>3, <2>4, <2>5, <2>6, <2>7, <2>8 DEF Continue
<1>3. CASE UNCHANGED tablesVars
  BY <1>0, <1>3 DEF TablesTypeOK, tablesVars, kernelVars, tableVars, threadVars, historyVars
<1> QED BY <1>1, <1>2, <1>3 DEF TablesNext

\* What At does to the thread that takes the step, and to the others.
LEMMA AtProperties ==
    ASSUME TablesTypeOK, NEW t \in Threads, NEW l, NEW d, NEW p, NEW c, At(t, l, d, p, c)
    PROVE  /\ pc'[t] = l /\ arg_fd'[t] = d /\ arg_path'[t] = p /\ cli'[t] = c
           /\ \A u \in Threads \ {t} : /\ pc'[u] = pc[u] /\ arg_fd'[u] = arg_fd[u]
                                       /\ arg_path'[u] = arg_path[u] /\ cli'[u] = cli[u]
BY DEF TablesTypeOK, At

\* Threads hold on to their arguments, one at a time inside open, stat, unlink.
LEMMA CallsStep == TablesInv /\ [TablesNext]_tablesVars => CallsInv'
<1> SUFFICES ASSUME TablesInv, [TablesNext]_tablesVars PROVE CallsInv'
  OBVIOUS
<1> USE FileTablesAssumption, ClientIds DEF PathLabels
<1>0. TablesTypeOK /\ CallsInv
  BY DEF TablesInv
<1>1. ASSUME NEW t \in Threads, Begin(t) PROVE CallsInv'
  <2>1. ASSUME NEW d \in Fds, NEW p \in Paths, NEW csl \in BOOLEAN, NEW trunc \in BOOLEAN,
               open(t, d, p, csl, trunc)
        PROVE  CallsInv'
    <3>1. CASE csl
      BY <1>0, <2>1, <3>1, AtProperties DEF CallsInv, open
    <3>2. CASE ~csl
      BY <1>0, <2>1, <3>2 DEF CallsInv, open, threadVars
    <3> QED BY <3>1, <3>2
  <2>2. ASSUME NEW p \in Paths, stat(t, p) PROVE CallsInv'
    BY <1>0, <2>2, AtProperties DEF CallsInv, stat
  <2>3. ASSUME NEW p \in Paths, unlink(t, p) PROVE CallsInv'
    <3>1. PICK l, c : l \in {"kunlink", "erasepath"} /\ At(t, l, NoFd, p, c)
      BY <2>3 DEF unlink
    <3> QED BY <1>0, <2>3, <3>1, AtProperties DEF CallsInv, unlink
  <2>4. ASSUME NEW d \in Fds, FindFd(t, d) \/ FindSync(t, d) \/ close(t, d) PROVE CallsInv'
    <3>1. PICK l, c : l \in {"use", "sync", "erase", "kclose"} /\ At(t, l, d, fd_path[d], c)
      BY <2>4 DEF FindFd, FindSync, close
    <3>2. pc[t] = "idle" /\ fd_path[d] \in Paths /\ UNCHANGED path_call
      BY <1>0, <2>4 DEF FindFd, FindSync, close, Usable, TablesTypeOK
    <3> QED BY <1>0, <3>1, <3>2, AtProperties DEF CallsInv
  <2> QED BY <1>1, <2>1, <2>2, <2>3, <2>4 DEF Begin, fopen, fclose
<1>2. ASSUME NEW t \in Threads, Continue(t) PROVE CallsInv'
  <2>1. CASE getClient(t) \/ EraseFd(t) \/ ErasePath(t)
    <3>1. /\ UNCHANGED <<arg_fd, arg_path, path_call>>
          /\ \/ pc[t] = "getclient" /\ pc' = [pc EXCEPT ![t] = "insert"]
             \/ pc[t] = "erase" /\ pc' = [pc EXCEPT ![t] = "kclose"]
             \/ pc[t] = "erasepath" /\ pc' = [pc EXCEPT ![t] = "kunlink"]
      BY <2>1 DEF getClient, EraseFd, ErasePath
    <3> QED BY <1>0, <3>1 DEF CallsInv, TablesTypeOK
  <2>2. CASE InsertFd(t) \/ UnlinkKernel(t)
    <3>1. pc[t] \in PathLabels /\ path_call' = NoThread /\ At(t, "idle", NoFd, NoPath, NoClient)
      BY <2>2 DEF InsertFd, UnlinkKernel, Leave
    <3> QED BY <1>0, <3>1, AtProperties DEF CallsInv
  <2>3. CASE Use(t) \/ Sync(t) \/ CloseKernel(t)
    <3>1. /\ pc[t] \notin PathLabels /\ UNCHANGED path_call
          /\ At(t, "idle", NoFd, NoPath, NoClient)
      BY <2>3 DEF Use, Sync, CloseKernel, Leave
    <3> QED BY <1>0, <3>1, AtProperties DEF CallsInv
  <2> QED BY <1>2, <2>1, <2>2, <2>3 DEF Continue
<1>3. CASE UNCHANGED tablesVars
  BY <1>0, <1>3 DEF CallsInv, tablesVars, threadVars
<1> QED BY <1>1, <1>2, <1>3 DEF TablesNext

\* Entries of csl_fd_cli belong to open descriptors.
LEMMA EntryStep == TablesInv /\ [TablesNext]_tablesVars => EntryInv'
<1> SUFFICES ASSUME TablesInv, [TablesNext]_tablesVars PROVE EntryInv'
  OBVIOUS
<1> USE FileTablesAssumption, ClientIds
<1>0. TablesTypeOK /\ CallsInv /\ EntryInv /\ OpenInv /\ CloseInv
  BY DEF TablesInv
<1>1. ASSUME UNCHANGED <<fd_path, csl_fd_cli, fd_csl>> PROVE EntryInv'
  BY <1>0, <1>1 DEF EntryInv
<1>2. ASSUME NEW t \in Threads, Begin(t) PROVE EntryInv'
  <2>1. ASSUME NEW d \in Fds, NEW p \in Paths, NEW csl \in BOOLEAN, NEW trunc \in BOOLEAN,
               open(t, d, p, csl, trunc)
        PROVE  EntryInv'
    <3>1. /\ fd_path[d] = NoPath /\ fd_path' = [fd_path EXCEPT ![d] = p] /\ UNCHANGED csl_fd_cli
          /\ fd_csl \ {d} \subseteq fd_csl'
      BY <2>1 DEF open, tableVars
    <3>2. csl_fd_cli[d] = NoClient
      BY <1>0, <3>1 DEF EntryInv
    <3> QED BY <1>0, <3>1, <3>2 DEF EntryInv, TablesTypeOK
  <2> QED BY <1>1, <1>2, <2>1 DEF Begin, fopen, fclose, stat, unlink, FindFd, FindSync, close,
                                  kernelVars, tableVars, historyVars
<1>3. ASSUME NEW t \in Threads, Continue(t) PROVE EntryInv'
  <2>1. CASE InsertFd(t)
    <3>1. CASE UNCHANGED csl_fd_cli
      BY <1>1, <2>1, <3>1 DEF InsertFd, kernelVars, historyVars
    <3>2. CASE ~UNCHANGED csl_fd_cli
      <4>1. arg_fd[t] # NoFd /\ csl_fd_cli' = [csl_fd_cli EXCEPT ![arg_fd[t]] = cli[t]]
        BY <2>1, <3>2 DEF InsertFd
      <4>2. arg_fd[t] \in fd_csl /\ fd_path[arg_fd[t]] \in Paths
        BY <1>0, <2>1, <4>1 DEF InsertFd, OpenInv, CallsInv
      <4> QED BY <1>0, <2>1, <4>1, <4>2 DEF InsertFd, EntryInv, TablesTypeOK, kernelVars, historyVars
    <3> QED BY <3>1, <3>2
  <2>2. CASE EraseFd(t)
    BY <1>0, <2>2 DEF EraseFd, EntryInv, TablesTypeOK, kernelVars, historyVars
  <2>3. CASE CloseKernel(t)
    <3>1. csl_fd_cli[arg_fd[t]] = NoClient
      BY <1>0, <2>3 DEF CloseKernel, CloseInv
    <3> QED BY <1>0, <2>3, <3>1 DEF CloseKernel, EntryInv, TablesTypeOK, tableVars, historyVars
  <2> QED BY <1>1, <1>3, <2>1, <2>2, <2>3 DEF Continue, getClient, Use, Sync, ErasePath,
       UnlinkKernel, kernelVars, tableVars, historyVars
<1>4. CASE UNCHANGED tablesVars
  BY <1>1, <1>4 DEF tablesVars, kernelVars, tableVars, historyVars
<1> QED BY <1>2, <1>3, <1>4 DEF TablesNext

\* What open has found is still so when it inserts.
LEMMA OpenStep == TablesInv /\ [TablesNext]_tablesVars => OpenInv'
<1> SUFFICES ASSUME TablesInv, [TablesNext]_tablesVars PROVE OpenInv'
  OBVIOUS
<1> USE FileTablesAssumption, ClientIds DEF PathLabels
<1>0. TablesTypeOK /\ CallsInv /\ EntryInv /\ OpenInv /\ CloseInv /\ PoolInv
  BY DEF TablesInv
\* Only one thread is inside open.
<1>a. \A t, u \in Threads : pc[t] \in PathLabels /\ pc[u] \in PathLabels => t = u
  BY <1>0 DEF CallsInv
<1>b. ASSUME NEW t \in Threads, NEW l, NEW d, NEW p, NEW c, At(t, l, d, p, c),
             l \notin {"getclient", "insert"},
             UNCHANGED <<fd_path, csl_fd_cli, csl_path_cli, fd_csl>>
      PROVE  OpenInv'
  BY <1>0, <1>b, AtProperties DEF OpenInv
<1>1. ASSUME NEW t \in Threads, Begin(t) PROVE OpenInv'
  <2>1. ASSUME NEW d \in Fds, NEW p \in Paths, NEW csl \in BOOLEAN, NEW trunc \in BOOLEAN,
               open(t, d, p, csl, trunc)
        PROVE  OpenInv'
    <3>1. /\ fd_path[d] = NoPath /\ fd_path' = [fd_path EXCEPT ![d] = p]
          /\ UNCHANGED <<csl_fd_cli, csl_path_cli>>
      BY <2>1 DEF open, tableVars
    <3>2. csl_fd_cli[d] = NoClient
      BY <1>0, <3>1 DEF EntryInv
    <3>3. \A u \in Threads : pc[u] \in {"getclient", "insert"} => arg_fd[u] # d
      BY <1>0, <3>1 DEF OpenInv, CallsInv
    <3>4. CASE csl
      <4>1. /\ path_call = NoThread /\ fd_csl' = fd_csl \cup {d} /\ pc[t] = "idle"
            /\ At(t, "getclient", d, p, NoClient)
        BY <2>1, <3>4 DEF open
      <4>2. \A u \in Threads : pc[u] \notin PathLabels
        BY <1>0, <4>1 DEF CallsInv
      <4> QED BY <1>0, <3>1, <3>2, <4>1, <4>2, AtProperties DEF OpenInv, TablesTypeOK
    <3>5. CASE ~csl
      <4>1. fd_csl' = fd_csl \ {d} /\ UNCHANGED threadVars
        BY <2>1, <3>5 DEF open
      <4> QED BY <1>0, <3>1, <3>3, <4>1 DEF OpenInv, TablesTypeOK, threadVars
    <3> QED BY <3>4, <3>5
  <2>2. ASSUME NEW p \in Paths, stat(t, p) PROVE OpenInv'
    <3>1. /\ At(t, "getclient", NoFd, p, NoClient)
          /\ UNCHANGED <<fd_path, csl_fd_cli, csl_path_cli, fd_csl>>
      BY <2>2 DEF stat, kernelVars, tableVars, historyVars
    <3> QED BY <1>0, <3>1, AtProperties DEF OpenInv
  <2>3. ASSUME NEW p \in Paths, unlink(t, p) PROVE OpenInv'
    <3>1. PICK l, c : l \in {"kunlink", "erasepath"} /\ At(t, l, NoFd, p, c)
      BY <2>3 DEF unlink
    <3> QED BY <1>b, <2>3, <3>1 DEF unlink, kernelVars
  <2>4. ASSUME NEW d \in Fds, FindFd(t, d) \/ FindSync(t, d) \/ close(t, d) PROVE OpenInv'
    <3>1. PICK l, c : l \in {"use", "sync", "erase", "kclose"} /\ At(t, l, d, fd_path[d], c)
      BY <2>4 DEF FindFd, FindSync, close
    <3> QED BY <1>b, <2>4, <3>1 DEF FindFd, FindSync, close, kernelVars, tableVars, historyVars
  <2> QED BY <1>1, <2>1, <2>2, <2>3, <2>4 DEF Begin, fopen, fclose
<1>2. ASSUME NEW t \in Threads, Continue(t) PROVE OpenInv'
  <2>1. CASE getClient(t)
    <3>1. /\ pc[t] = "getclient" /\ pc' = [pc EXCEPT ![t] = "insert"]
          /\ UNCHANGED <<fd_path, csl_fd_cli, arg_fd, arg_path, fd_csl>>
      BY <2>1 DEF getClient, kernelVars, historyVars
    <3>2. cli'[t] # NoClient /\ cli'[t] = csl_path_cli'[arg_path[t]]
      <4>1. arg_path[t] \in Paths
        BY <1>0, <3>1 DEF CallsInv
      <4>2. CASE csl_path_cli[arg_path[t]] # NoClient
        BY <1>0, <2>1, <4>2 DEF getClient, TablesTypeOK
      <4>3. CASE csl_path_cli[arg_path[t]] = NoClient
        <5>1. PICK c \in FromPool : /\ cli' = [cli EXCEPT ![t] = c]
                                    /\ csl_path_cli' = [csl_path_cli EXCEPT ![arg_path[t]] = c]
          BY <2>1, <4>3 DEF getClient
        <5>2. c # NoClient
          BY <1>0, FreshClient
        <5> QED BY <1>0, <4>1, <5>1, <5>2 DEF TablesTypeOK
      <4> QED BY <4>2, <4>3
    <3>3. \A u \in Threads \ {t} : pc'[u] \notin PathLabels
      BY <1>0, <1>a, <3>1 DEF TablesTypeOK
    <3> QED BY <1>0, <3>1, <3>2, <3>3 DEF OpenInv
  <2>2. CASE InsertFd(t)
    <3>1. pc[t] = "insert" /\ At(t, "idle", NoFd, NoPath, NoClient)
      BY <2>2 DEF InsertFd, Leave
    <3>2. \A u \in Threads : pc'[u] \notin PathLabels
      BY <1>0, <1>a, <3>1, AtProperties
    <3> QED BY <3>2 DEF OpenInv
  <2>3. CASE EraseFd(t)
    <3>1. /\ pc[t] = "erase" /\ pc' = [pc EXCEPT ![t] = "kclose"]
          /\ csl_fd_cli' = [csl_fd_cli EXCEPT ![arg_fd[t]] = NoClient]
          /\ UNCHANGED <<fd_path, csl_path_cli, arg_fd, arg_path, cli, fd_csl>>
      BY <2>3 DEF EraseFd, kernelVars, historyVars
    <3>2. \A d : csl_fd_cli[d] = NoClient /\ d \in Fds => csl_fd_cli'[d] = NoClient
      BY <1>0, <3>1 DEF TablesTypeOK
    <3>3. \A u \in Threads : arg_fd[u] # NoFd => arg_fd[u] \in Fds
      BY <1>0 DEF TablesTypeOK
    <3>4. \A u \in Threads : pc'[u] \in {"getclient", "insert"} => pc'[u] = pc[u]
      BY <1>0, <3>1 DEF TablesTypeOK
    <3> QED BY <1>0, <3>1, <3>2, <3>3, <3>4 DEF OpenInv
  <2>4. CASE CloseKernel(t)
    <3>1. /\ pc[t] = "kclose" /\ At(t, "idle", NoFd, NoPath, NoClient)
          /\ fd_path' = [fd_path EXCEPT ![arg_fd[t]] = NoPath]
          /\ UNCHANGED <<csl_fd_cli, csl_path_cli, fd_csl>>
      BY <2>4 DEF CloseKernel, Leave, tableVars, historyVars
    <3>2. arg_fd[t] \in Fds
      BY <1>0, <3>1 DEF CallsInv
    <3>3. \A u \in Threads : pc[u] \in {"getclient", "insert"} => arg_fd[u] # arg_fd[t]
      BY <1>0, <3>1, <3>2 DEF CloseInv
    <3> QED BY <1>0, <3>1, <3>2, <3>3, AtProperties DEF OpenInv, TablesTypeOK
  <2>5. CASE ErasePath(t)
    <3>1. pc[t] = "erasepath" /\ pc' = [pc EXCEPT ![t] = "kunlink"]
      BY <2>5 DEF ErasePath
    <3>2. \A u \in Threads : pc'[u] \notin {"getclient", "insert"}
      BY <1>0, <1>a, <3>1 DEF TablesTypeOK
    <3> QED BY <3>2 DEF OpenInv
  <2>6. CASE Use(t) \/ Sync(t) \/ UnlinkKernel(t)
    <3>1. /\ At(t, "idle", NoFd, NoPath, NoClient)
          /\ UNCHANGED <<fd_path, csl_fd_cli, csl_path_cli, fd_csl>>
      BY <2>6 DEF Use, Sync, UnlinkKernel, Leave, kernelVars, tableVars, historyVars
    <3> QED BY <1>b, <3>1
  <2> QED BY <1>2, <2>1, <2>2, <2>3, <2>4, <2>5, <2>6 DEF Continue
<1>3. CASE UNCHANGED tablesVars
  BY <1>0, <1>3 DEF OpenInv, tablesVars, kernelVars, tableVars, threadVars, historyVars
<1> QED BY <1>1, <1>2, <1>3 DEF TablesNext

\* One thread closes a descriptor, and nobody opens it meanwhile.
LEMMA CloseStep == TablesInv /\ [TablesNext]_tablesVars => CloseInv'
<1> SUFFICES ASSUME TablesInv, [TablesNext]_tablesVars PROVE CloseInv'
  OBVIOUS
<1> USE FileTablesAssumption, ClientIds
<1>0. TablesTypeOK /\ CallsInv /\ EntryInv /\ OpenInv /\ CloseInv
  BY DEF TablesInv
<1>a. \A u \in Threads : pc[u] \in {"erase", "kclose"} => arg_fd[u] \in Fds
  BY <1>0 DEF CallsInv
<1>b. ASSUME NEW t \in Threads, NEW l, NEW p, NEW c, At(t, l, NoFd, p, c),
             l \notin {"erase", "kclose"}, UNCHANGED <<fd_path, csl_fd_cli>>
      PROVE  CloseInv'
  BY <1>0, <1>a, <1>b, AtProperties DEF CloseInv
<1>1. ASSUME NEW t \in Threads, Begin(t) PROVE CloseInv'
  <2>1. ASSUME NEW d \in Fds, NEW p \in Paths, NEW csl \in BOOLEAN, NEW trunc \in BOOLEAN,
               open(t, d, p, csl, trunc)
        PROVE  CloseInv'
    <3>1. /\ fd_path[d] = NoPath /\ fd_path' = [fd_path EXCEPT ![d] = p] /\ UNCHANGED csl_fd_cli
      BY <2>1 DEF open, tableVars
    <3>2. \A u \in Threads : pc[u] \in {"erase", "kclose"} => arg_fd[u] # d
      BY <1>0, <3>1 DEF CloseInv
    <3>3. CASE csl
      <4>1. pc[t] = "idle" /\ At(t, "getclient", d, p, NoClient)
        BY <2>1, <3>3 DEF open
      <4> QED BY <1>0, <1>a, <3>1, <3>2, <4>1, AtProperties DEF CloseInv, TablesTypeOK
    <3>4. CASE ~csl
      <4>1. UNCHANGED threadVars
        BY <2>1, <3>4 DEF open
      <4> QED BY <1>0, <1>a, <3>1, <3>2, <4>1 DEF CloseInv, TablesTypeOK, threadVars
    <3> QED BY <3>3, <3>4
  <2>2. ASSUME NEW p \in Paths, stat(t, p) PROVE CloseInv'
    BY <1>b, <2>2 DEF stat, kernelVars, tableVars
  <2>3. ASSUME NEW p \in Paths, unlink(t, p) PROVE CloseInv'
    <3>1. PICK l, c : l \in {"kunlink", "erasepath"} /\ At(t, l, NoFd, p, c)
      BY <2>3 DEF unlink
    <3> QED BY <1>b, <2>3, <3>1 DEF unlink, kernelVars
  <2>4. ASSUME NEW d \in Fds, FindFd(t, d) \/ FindSync(t, d) PROVE CloseInv'
    <3>1. PICK l, c : l \in {"use", "sync"} /\ At(t, l, d, fd_path[d], c)
      BY <2>4 DEF FindFd, FindSync
    <3>2. UNCHANGED <<fd_path, csl_fd_cli>>
      BY <2>4 DEF FindFd, FindSync, kernelVars, tableVars
    <3> QED BY <1>0, <3>1, <3>2, AtProperties DEF CloseInv
  <2>5. ASSUME NEW d \in Fds, close(t, d) PROVE CloseInv'
    <3>1. /\ fd_path[d] # NoPath /\ ~Closing(d) /\ ~Opening(d) /\ UNCHANGED <<fd_path, csl_fd_cli>>
      BY <2>5 DEF close, Usable, kernelVars, tableVars
    <3>2. PICK l \in {"erase", "kclose"} : /\ At(t, l, d, fd_path[d], NoClient)
                                           /\ l = "kclose" => csl_fd_cli[d] = NoClient
      BY <2>5 DEF close
    <3>3. \A u \in Threads : pc[u] \in {"erase", "kclose", "getclient", "insert"} => arg_fd[u] # d
      BY <3>1 DEF Closing, Opening
    <3> QED BY <1>0, <3>1, <3>2, <3>3, AtProperties DEF CloseInv
  <2> QED BY <1>1, <2>1, <2>2, <2>3, <2>4, <2>5 DEF Begin, fopen, fclose
<1>2. ASSUME NEW t \in Threads, Continue(t) PROVE CloseInv'
  <2>1. CASE getClient(t) \/ ErasePath(t)
    <3>1. /\ UNCHANGED <<fd_path, csl_fd_cli, arg_fd>>
          /\ \/ pc[t] = "getclient" /\ pc' = [pc EXCEPT ![t] = "insert"]
             \/ pc[t] = "erasepath" /\ pc' = [pc EXCEPT ![t] = "kunlink"]
      BY <2>1 DEF getClient, ErasePath, kernelVars
    <3> QED BY <1>0, <3>1 DEF CloseInv, TablesTypeOK
  <2>2. CASE InsertFd(t)
    <3>1. pc[t] = "insert" /\ At(t, "idle", NoFd, NoPath, NoClient) /\ UNCHANGED fd_path
      BY <2>2 DEF InsertFd, Leave, kernelVars
    <3>2. \A d \in Fds : d # arg_fd[t] => csl_fd_cli'[d] = csl_fd_cli[d]
      BY <1>0, <2>2 DEF InsertFd, TablesTypeOK
    <3>3. \A u \in Threads : pc[u] \in {"erase", "kclose"} => arg_fd[u] # arg_fd[t]
      BY <1>0, <3>1 DEF CloseInv
    <3> QED BY <1>0, <1>a, <3>1, <3>2, <3>3, AtProperties DEF CloseInv
  <2>3. CASE EraseFd(t)
    <3>1. /\ pc[t] = "erase" /\ pc' = [pc EXCEPT ![t] = "kclose"]
          /\ csl_fd_cli' = [csl_fd_cli EXCEPT ![arg_fd[t]] = NoClient]
          /\ UNCHANGED <<fd_path, arg_fd>>
      BY <2>3 DEF EraseFd, kernelVars
    <3>2. \A d \in Fds : csl_fd_cli[d] = NoClient \/ d = arg_fd[t] => csl_fd_cli'[d] = NoClient
      BY <1>0, <3>1 DEF TablesTypeOK
    <3>3. \A u \in Threads : pc'[u] = "kclose" => pc[u] = "kclose" \/ u = t
      BY <1>0, <3>1 DEF TablesTypeOK
    <3>4. \A u \in Threads : pc'[u] = "kclose" => csl_fd_cli'[arg_fd'[u]] = NoClient
      BY <1>0, <1>a, <3>1, <3>2, <3>3 DEF CloseInv
    <3>5. \A u \in Threads : /\ pc'[u] \in {"erase", "kclose"} <=> pc[u] \in {"erase", "kclose"}
                             /\ pc'[u] \in {"getclient", "insert"} => pc'[u] = pc[u]
      BY <1>0, <3>1 DEF TablesTypeOK
    <3> QED BY <1>0, <3>1, <3>4, <3>5 DEF CloseInv
  <2>4. CASE CloseKernel(t)
    <3>1. /\ pc[t] = "kclose" /\ At(t, "idle", NoFd, NoPath, NoClient)
          /\ fd_path' = [fd_path EXCEPT ![arg_fd[t]] = NoPath] /\ UNCHANGED csl_fd_cli
      BY <2>4 DEF CloseKernel, Leave, tableVars
    <3>2. \A u \in Threads \ {t} : pc[u] \in {"erase", "kclose"} => arg_fd[u] # arg_fd[t]
      BY <1>0, <3>1 DEF CloseInv
    <3> QED BY <1>0, <1>a, <3>1, <3>2, AtProperties DEF CloseInv, TablesTypeOK
  <2>5. CASE Use(t) \/ Sync(t) \/ UnlinkKernel(t)
    BY <1>b, <2>5 DEF Use, Sync, UnlinkKernel, Leave, kernelVars, tableVars
  <2> QED BY <1>2, <2>1, <2>2, <2>3, <2>4, <2>5 DEF Continue
<1>3. CASE UNCHANGED tablesVars
  BY <1>0, <1>3 DEF CloseInv, tablesVars, kernelVars, tableVars, threadVars
<1> QED BY <1>1, <1>2, <1>3 DEF TablesNext

\* While unlink erases the path, its client stays in the pool.
LEMMA UnlinkStep == TablesInv /\ [TablesNext]_tablesVars => UnlinkInv'
<1> SUFFICES ASSUME TablesInv, [TablesNext]_tablesVars PROVE UnlinkInv'
  OBVIOUS
<1> USE FileTablesAssumption, ClientIds DEF PathLabels
<1>0. TablesTypeOK /\ CallsInv /\ UnlinkInv
  BY DEF TablesInv
<1>a. \A t, u \in Threads : pc[t] \in PathLabels /\ pc[u] \in PathLabels => t = u
  BY <1>0 DEF CallsInv
<1>b. ASSUME NEW t \in Threads,
             \A u \in Threads : pc'[u] = "erasepath" =>
                 pc[u] = "erasepath" /\ arg_path'[u] = arg_path[u],
             stale \subseteq stale', UNCHANGED <<csl_path_cli, busy_clients, fd_csl, fd_path>>
      PROVE  UnlinkInv'
  BY <1>0, <1>b DEF UnlinkInv
<1>c. ASSUME NEW t \in Threads, \A u \in Threads : pc'[u] # "erasepath" PROVE UnlinkInv'
  BY <1>c DEF UnlinkInv
<1>1. ASSUME NEW t \in Threads, Begin(t) PROVE UnlinkInv'
  <2>1. ASSUME NEW d \in Fds, NEW p \in Paths, NEW csl \in BOOLEAN, NEW trunc \in BOOLEAN,
               open(t, d, p, csl, trunc)
        PROVE  UnlinkInv'
    <3>1. CASE csl
      <4>1. path_call = NoThread /\ At(t, "getclient", d, p, NoClient)
        BY <2>1, <3>1 DEF open
      <4>2. \A u \in Threads : pc[u] \notin PathLabels
        BY <1>0, <4>1 DEF CallsInv
      <4> QED BY <1>0, <1>c, <4>1, <4>2, AtProperties
    <3>2. CASE ~csl
      <4>1. /\ fd_csl' = fd_csl \ {d} /\ stale' = stale \ {d}
            /\ fd_path' = [fd_path EXCEPT ![d] = p]
            /\ UNCHANGED <<csl_path_cli, busy_clients, pc, arg_path>>
        BY <2>1, <3>2 DEF open, threadVars, tableVars
      <4> QED BY <1>0, <4>1 DEF UnlinkInv, TablesTypeOK
    <3> QED BY <3>1, <3>2
  <2>2. ASSUME NEW p \in Paths, stat(t, p) PROVE UnlinkInv'
    <3>1. /\ At(t, "getclient", NoFd, p, NoClient)
          /\ UNCHANGED <<csl_path_cli, busy_clients, fd_csl, stale, fd_path>>
      BY <2>2 DEF stat, kernelVars, tableVars, historyVars
    <3> QED BY <1>0, <1>b, <3>1, AtProperties
  <2>3. ASSUME NEW p \in Paths, unlink(t, p) PROVE UnlinkInv'
    <3>1. PICK l, c : l \in {"kunlink", "erasepath"} /\ At(t, l, NoFd, p, c)
      BY <2>3 DEF unlink
    <3>2. /\ path_call = NoThread
          /\ stale' = stale \cup {d \in Fds : fd_path[d] = p}
          /\ UNCHANGED <<fd_path, csl_path_cli, fd_csl>>
          /\ csl_path_cli[p] \notin busy_clients'
      BY <2>3 DEF unlink, kernelVars
    <3>3. \A u \in Threads : pc'[u] = "erasepath" => u = t /\ arg_path'[u] = p
      BY <1>0, <3>1, <3>2, AtProperties DEF CallsInv
    <3> QED BY <1>0, <3>2, <3>3 DEF UnlinkInv, TablesTypeOK
  <2>4. ASSUME NEW d \in Fds, FindFd(t, d) \/ FindSync(t, d) \/ close(t, d) PROVE UnlinkInv'
    <3>1. PICK l, c : l \in {"use", "sync", "erase", "kclose"} /\ At(t, l, d, fd_path[d], c)
      BY <2>4 DEF FindFd, FindSync, close
    <3>2. UNCHANGED <<csl_path_cli, busy_clients, fd_csl, stale, fd_path>>
      BY <2>4 DEF FindFd, FindSync, close, kernelVars, tableVars, historyVars
    <3> QED BY <1>0, <1>b, <3>1, <3>2, AtProperties
  <2> QED BY <1>1, <2>1, <2>2, <2>3, <2>4 DEF Begin, fopen, fclose
<1>2. ASSUME NEW t \in Threads, Continue(t) PROVE UnlinkInv'
  <2>1. CASE getClient(t) \/ ErasePath(t)
    <3>1. /\ pc[t] \in PathLabels
          /\ \E l \in {"insert", "kunlink"} : pc' = [pc EXCEPT ![t] = l]
      BY <2>1 DEF getClient, ErasePath
    <3>2. \A u \in Threads : pc'[u] # "erasepath"
      BY <1>0, <1>a, <3>1 DEF TablesTypeOK
    <3> QED BY <1>c, <3>2
  <2>2. CASE InsertFd(t) \/ Use(t) \/ Sync(t) \/ UnlinkKernel(t)
    <3>1. /\ At(t, "idle", NoFd, NoPath, NoClient)
          /\ stale \subseteq stale' /\ UNCHANGED <<csl_path_cli, busy_clients, fd_csl, fd_path>>
      BY <2>2 DEF InsertFd, Use, Sync, UnlinkKernel, Leave, kernelVars, tableVars, historyVars
    <3> QED BY <1>0, <1>b, <3>1, AtProperties
  <2>3. CASE EraseFd(t)
    <3>1. /\ pc' = [pc EXCEPT ![t] = "kclose"]
          /\ UNCHANGED <<arg_path, csl_path_cli, busy_clients, fd_csl, stale, fd_path>>
      BY <2>3 DEF EraseFd, kernelVars, historyVars
    <3>2. \A u \in Threads : pc'[u] = "erasepath" => pc[u] = "erasepath"
      BY <1>0, <3>1 DEF TablesTypeOK
    <3> QED BY <1>b, <3>1, <3>2
  <2>4. CASE CloseKernel(t)
    <3>1. /\ At(t, "idle", NoFd, NoPath, NoClient)
          /\ fd_path' = [fd_path EXCEPT ![arg_fd[t]] = NoPath]
          /\ UNCHANGED <<csl_path_cli, busy_clients, fd_csl, stale>>
      BY <2>4 DEF CloseKernel, Leave, tableVars, historyVars
    <3>2. \A u \in Threads : pc'[u] = "erasepath" =>
              /\ pc[u] = "erasepath" /\ arg_path'[u] = arg_path[u] /\ arg_path[u] # NoPath
      BY <1>0, <3>1, AtProperties DEF CallsInv
    <3>3. \A d \in fd_csl : fd_path'[d] # NoPath => fd_path'[d] = fd_path[d]
      BY <1>0, <3>1 DEF TablesTypeOK
    <3> QED BY <1>0, <3>1, <3>2, <3>3 DEF UnlinkInv
  <2> QED BY <1>2, <2>1, <2>2, <2>3, <2>4 DEF Continue
<1>3. CASE UNCHANGED tablesVars
  BY <1>0, <1>3 DEF UnlinkInv, tablesVars, kernelVars, tableVars, threadVars, historyVars
<1> QED BY <1>1, <1>2, <1>3 DEF TablesNext

\* The pool and csl_path_cli stay in agreement.
LEMMA PoolStep == TablesInv /\ [TablesNext]_tablesVars => PoolInv'
<1> SUFFICES ASSUME TablesInv, [TablesNext]_tablesVars PROVE PoolInv'
  OBVIOUS
<1> USE FileTablesAssumption, ClientIds DEF PathLabels
<1>0. TablesTypeOK /\ CallsInv /\ UnlinkInv /\ PoolInv
  BY DEF TablesInv
<1>a. \A t, u \in Threads : pc[t] \in PathLabels /\ pc[u] \in PathLabels => t = u
  BY <1>0 DEF CallsInv
<1>b. ASSUME UNCHANGED <<csl_path_cli, idle_clients, busy_clients, filename>>,
             \A u \in Threads : pc[u] = "erasepath" =>
                 pc'[u] = "erasepath" /\ arg_path'[u] = arg_path[u]
      PROVE  PoolInv'
  BY <1>0, <1>b DEF PoolInv
<1>c. \A c \in busy_clients : c \in Clients /\ c # NoClient
  BY <1>0 DEF TablesTypeOK
<1>1. ASSUME NEW t \in Threads, Begin(t) PROVE PoolInv'
  <2>1. ASSUME NEW d \in Fds, NEW p \in Paths, NEW csl \in BOOLEAN, NEW trunc \in BOOLEAN,
               open(t, d, p, csl, trunc)
        PROVE  PoolInv'
    <3>1. pc[t] = "idle" /\ UNCHANGED <<csl_path_cli, idle_clients, busy_clients, filename>>
      BY <2>1 DEF open, tableVars
    <3>2. UNCHANGED threadVars \/ At(t, "getclient", d, p, NoClient)
      BY <2>1 DEF open
    <3> QED BY <1>0, <1>b, <3>1, <3>2, AtProperties DEF threadVars
  <2>2. ASSUME NEW p \in Paths, stat(t, p) PROVE PoolInv'
    <3>1. /\ pc[t] = "idle" /\ At(t, "getclient", NoFd, p, NoClient)
          /\ UNCHANGED <<csl_path_cli, idle_clients, busy_clients, filename>>
      BY <2>2 DEF stat, tableVars
    <3> QED BY <1>0, <1>b, <3>1, AtProperties
  <2>3. ASSUME NEW p \in Paths, unlink(t, p) PROVE PoolInv'
    <3> DEFINE c == csl_path_cli[p]
    <3>1. /\ path_call = NoThread /\ UNCHANGED csl_path_cli
          /\ At(t, IF c = NoClient THEN "kunlink" ELSE "erasepath", NoFd, p, c)
      BY <2>3 DEF unlink
    <3>2. \A u \in Threads : pc[u] \notin PathLabels
      BY <1>0, <3>1 DEF CallsInv
    <3>3. CASE c = NoClient
      <4>1. UNCHANGED <<idle_clients, busy_clients, filename>>
        BY <1>c, <2>3, <3>3 DEF unlink
      <4> QED BY <1>b, <3>1, <3>2, <4>1
    <3>4. CASE c # NoClient
      <4>1. c \in busy_clients /\ filename[c] = p
        BY <1>0, <3>2, <3>4 DEF PoolInv
      <4>2. /\ busy_clients' = busy_clients \ {c} /\ idle_clients' = idle_clients \cup {c}
            /\ filename' = [filename EXCEPT ![c] = NoPath]
        BY <2>3, <4>1 DEF unlink
      <4>3. idle_clients' \cup busy_clients' = idle_clients \cup busy_clients
        BY <4>1, <4>2
      <4>4. \A b \in busy_clients' : b \in busy_clients /\ filename'[b] = filename[b]
        BY <1>0, <1>c, <4>2 DEF TablesTypeOK
      <4>5. pc'[t] = "erasepath" /\ arg_path'[t] = p
        BY <1>0, <3>1, <3>4, AtProperties
      <4>6. ASSUME NEW q \in Paths, q # p, csl_path_cli[q] # NoClient
            PROVE  csl_path_cli[q] \in busy_clients' /\ filename'[csl_path_cli[q]] = q
        <5>1. csl_path_cli[q] \in busy_clients /\ filename[csl_path_cli[q]] = q
          BY <1>0, <3>2, <4>6 DEF PoolInv
        <5>2. csl_path_cli[q] # c
          BY <4>1, <4>6, <5>1
        <5> QED BY <4>2, <4>4, <5>1, <5>2
      <4>7. \E n \in 0 .. Cardinality(Paths) : idle_clients' \cup busy_clients' = 0 .. n - 1
        BY <1>0, <4>3 DEF PoolInv
      <4>8. \A b \in busy_clients' : filename'[b] \in Paths /\ csl_path_cli'[filename'[b]] = b
        BY <1>0, <3>1, <4>4 DEF PoolInv
      <4> HIDE DEF c
      <4> QED BY <3>1, <4>5, <4>6, <4>7, <4>8 DEF PoolInv
    <3> QED BY <3>3, <3>4
  <2>4. ASSUME NEW d \in Fds, FindFd(t, d) \/ FindSync(t, d) \/ close(t, d) PROVE PoolInv'
    <3>1. PICK l, c : l \in {"use", "sync", "erase", "kclose"} /\ At(t, l, d, fd_path[d], c)
      BY <2>4 DEF FindFd, FindSync, close
    <3>2. pc[t] = "idle" /\ UNCHANGED <<csl_path_cli, idle_clients, busy_clients, filename>>
      BY <2>4 DEF FindFd, FindSync, close, Usable, tableVars
    <3> QED BY <1>0, <1>b, <3>1, <3>2, AtProperties
  <2> QED BY <1>1, <2>1, <2>2, <2>3, <2>4 DEF Begin, fopen, fclose
<1>2. ASSUME NEW t \in Threads, Continue(t) PROVE PoolInv'
  <2>1. CASE getClient(t)
    <3> DEFINE p == arg_path[t]
    <3>1. /\ pc[t] = "getclient" /\ pc' = [pc EXCEPT ![t] = "insert"] /\ UNCHANGED arg_path
      BY <2>1 DEF getClient
    <3>2. p \in Paths /\ \A u \in Threads : pc[u] # "erasepath"
      BY <1>0, <1>a, <3>1 DEF CallsInv
    <3>3. CASE csl_path_cli[p] # NoClient
      <4>1. UNCHANGED <<csl_path_cli, idle_clients, busy_clients, filename>>
        BY <2>1, <3>3 DEF getClient
      <4> QED BY <1>b, <3>2, <4>1
    <3>4. CASE csl_path_cli[p] = NoClient
      <4>1. PICK c \in FromPool : /\ GetClient(c, p)
                                  /\ csl_path_cli' = [csl_path_cli EXCEPT ![p] = c]
        BY <2>1, <3>4 DEF getClient
      <4>2. c \notin busy_clients
        BY <1>0, <4>1, FreshClient
      <4>3. /\ \E n \in 0 .. Cardinality(Paths) : idle_clients' \cup busy_clients' = 0 .. n - 1
            /\ c \in Clients
        BY <1>0, <3>2, <3>4, <4>1, PoolGrows
      <4>4. busy_clients' = busy_clients \cup {c} /\ filename' = [filename EXCEPT ![c] = p]
        BY <4>1 DEF GetClient
      <4>5. /\ filename'[c] = p /\ csl_path_cli'[p] = c
            /\ \A b \in Clients \ {c} : filename'[b] = filename[b]
            /\ \A q \in Paths \ {p} : csl_path_cli'[q] = csl_path_cli[q]
        BY <1>0, <3>2, <4>1, <4>3, <4>4 DEF TablesTypeOK
      <4>6. ASSUME NEW b \in busy_clients'
            PROVE  filename'[b] \in Paths /\ csl_path_cli'[filename'[b]] = b
        <5>1. CASE b = c
          BY <3>2, <4>5, <5>1
        <5>2. CASE b # c
          <6>1. /\ b \in busy_clients /\ b \in Clients /\ filename'[b] = filename[b]
                /\ filename[b] \in Paths /\ csl_path_cli[filename[b]] = b
            BY <1>0, <1>c, <4>4, <4>5, <5>2 DEF PoolInv
          <6>2. filename[b] # p
            BY <1>c, <3>4, <6>1
          <6> QED BY <4>5, <6>1, <6>2
        <5> QED BY <5>1, <5>2
      <4>7. ASSUME NEW q \in Paths, csl_path_cli'[q] # NoClient
            PROVE  csl_path_cli'[q] \in busy_clients' /\ filename'[csl_path_cli'[q]] = q
        <5>1. CASE q = p
          BY <4>4, <4>5, <5>1
        <5>2. CASE q # p
          <6>1. csl_path_cli[q] \in busy_clients /\ filename[csl_path_cli[q]] = q
            BY <1>0, <3>2, <4>5, <4>7, <5>2 DEF PoolInv
          <6> QED BY <1>c, <4>2, <4>4, <4>5, <5>2, <6>1
        <5> QED BY <5>1, <5>2
      <4> HIDE DEF p
      <4> QED BY <4>3, <4>6, <4>7 DEF PoolInv
    <3> QED BY <3>3, <3>4
  <2>2. CASE ErasePath(t)
    <3> DEFINE p == arg_path[t]
    <3>1. /\ pc[t] = "erasepath" /\ csl_path_cli' = [csl_path_cli EXCEPT ![p] = NoClient]
          /\ UNCHANGED <<idle_clients, busy_clients, filename>>
      BY <2>2 DEF ErasePath
    <3>2. p \in Paths /\ csl_path_cli[p] \notin busy_clients
      BY <1>0, <3>1 DEF CallsInv, UnlinkInv
    <3>3. /\ csl_path_cli'[p] = NoClient
          /\ \A q \in Paths \ {p} : csl_path_cli'[q] = csl_path_cli[q]
      BY <1>0, <3>1, <3>2 DEF TablesTypeOK
    <3>4. \A b \in busy_clients : filename[b] \in Paths /\ csl_path_cli[filename[b]] = b
      BY <1>0 DEF PoolInv
    <3>5. \A b \in busy_clients : filename[b] # p
      BY <3>2, <3>4
    <3>6. \A q \in Paths \ {p} : ~\E u \in Threads : pc[u] = "erasepath" /\ arg_path[u] = q
      BY <1>a, <3>1
    <3>7. \A q \in Paths : csl_path_cli'[q] # NoClient =>
              csl_path_cli'[q] \in busy_clients /\ filename[csl_path_cli'[q]] = q
      BY <1>0, <3>3, <3>6 DEF PoolInv
    <3>8. \A b \in busy_clients : filename[b] \in Paths /\ csl_path_cli'[filename[b]] = b
      BY <3>3, <3>4, <3>5
    <3> HIDE DEF p
    <3> QED BY <1>0, <3>1, <3>7, <3>8 DEF PoolInv
  <2>3. CASE InsertFd(t) \/ Use(t) \/ Sync(t) \/ CloseKernel(t) \/ UnlinkKernel(t)
    <3>1. /\ pc[t] # "erasepath" /\ At(t, "idle", NoFd, NoPath, NoClient)
          /\ UNCHANGED <<csl_path_cli, idle_clients, busy_clients, filename>>
      BY <2>3 DEF InsertFd, Use, Sync, CloseKernel, UnlinkKernel, Leave, tableVars
    <3> QED BY <1>0, <1>b, <3>1, AtProperties
  <2>4. CASE EraseFd(t)
    <3>1. /\ pc[t] = "erase" /\ pc' = [pc EXCEPT ![t] = "kclose"]
          /\ UNCHANGED <<arg_path, csl_path_cli, idle_clients, busy_clients, filename>>
      BY <2>4 DEF EraseFd
    <3>2. \A u \in Threads : pc[u] = "erasepath" => pc'[u] = "erasepath"
      BY <1>0, <3>1 DEF TablesTypeOK
    <3> QED BY <1>b, <3>1, <3>2
  <2> QED BY <1>2, <2>1, <2>2, <2>3, <2>4 DEF Continue
<1>3. CASE UNCHANGED tablesVars
  BY <1>b, <1>3 DEF tablesVars, tableVars, threadVars
<1> QED BY <1>1, <1>2, <1>3 DEF TablesNext

\* Every descriptor keeps its route.
LEMMA RoutedStep == TablesInv /\ [TablesNext]_tablesVars => FdRouted'
<1> SUFFICES ASSUME TablesInv, [TablesNext]_tablesVars PROVE FdRouted'
  OBVIOUS
<1> USE FileTablesAssumption, ClientIds DEF PathLabels
<1>0. TablesTypeOK /\ CallsInv /\ EntryInv /\ OpenInv /\ CloseInv /\ UnlinkInv /\ FdRouted
  BY DEF TablesInv
\* FdRouted for one descriptor, when a step leaves it and its path alone.
<1>a. ASSUME NEW d \in Fds, fd_path'[d] = fd_path[d], csl_fd_cli'[d] = csl_fd_cli[d],
             d \in fd_csl' <=> d \in fd_csl, d \in stale => d \in stale',
             d \notin stale' => csl_path_cli'[fd_path[d]] = csl_path_cli[fd_path[d]],
             Opening(d) => Opening(d)' \/ Closing(d)', Closing(d) => Closing(d)',
             fd_path'[d] # NoPath, ~Opening(d)', ~Closing(d)'
      PROVE  IF d \notin fd_csl' THEN csl_fd_cli'[d] = NoClient
             ELSE d \notin stale' => /\ csl_fd_cli'[d] # NoClient
                                     /\ csl_fd_cli'[d] = csl_path_cli'[fd_path'[d]]
  BY <1>0, <1>a DEF FdRouted
<1>b. ASSUME UNCHANGED <<fd_path, csl_fd_cli, csl_path_cli, fd_csl>>, stale \subseteq stale',
             \A u \in Threads :
                /\ pc[u] \in {"getclient", "insert"} /\ arg_fd[u] # NoFd =>
                       pc'[u] \in {"getclient", "insert"} /\ arg_fd'[u] = arg_fd[u]
                /\ pc[u] \in {"erase", "kclose"} =>
                       pc'[u] \in {"erase", "kclose"} /\ arg_fd'[u] = arg_fd[u]
      PROVE  FdRouted'
  <2>1. \A d \in Fds : (Opening(d) => Opening(d)') /\ (Closing(d) => Closing(d)')
    BY <1>b DEF Opening, Closing
  <2> QED BY <1>a, <1>b, <2>1 DEF FdRouted
<1>1. ASSUME NEW t \in Threads, Begin(t) PROVE FdRouted'
  <2>1. ASSUME NEW d \in Fds, NEW p \in Paths, NEW csl \in BOOLEAN, NEW trunc \in BOOLEAN,
               open(t, d, p, csl, trunc)
        PROVE  FdRouted'
    <3>1. /\ pc[t] = "idle" /\ fd_path[d] = NoPath /\ fd_path' = [fd_path EXCEPT ![d] = p]
          /\ UNCHANGED <<csl_fd_cli, csl_path_cli>> /\ stale' = stale \ {d}
          /\ \A e \in Fds \ {d} : e \in fd_csl' <=> e \in fd_csl
          /\ UNCHANGED threadVars \/ At(t, "getclient", d, p, NoClient)
      BY <2>1 DEF open, tableVars
    <3>2. \A e \in Fds : (Opening(e) => Opening(e)') /\ (Closing(e) => Closing(e)')
      BY <1>0, <3>1, AtProperties DEF Opening, Closing, threadVars
    <3>3. csl_fd_cli[d] = NoClient
      BY <1>0, <3>1 DEF EntryInv
    <3>4. Opening(d)' \/ d \notin fd_csl'
      <4>1. CASE csl
        <5>1. At(t, "getclient", d, p, NoClient)
          BY <2>1, <4>1 DEF open
        <5> QED BY <1>0, <5>1, AtProperties DEF Opening
      <4>2. CASE ~csl
        BY <2>1, <4>2 DEF open
      <4> QED BY <4>1, <4>2
    <3>5. \A e \in Fds \ {d} : fd_path'[e] = fd_path[e]
      BY <1>0, <3>1 DEF TablesTypeOK
    <3> QED BY <1>a, <3>1, <3>2, <3>3, <3>4, <3>5 DEF FdRouted
  <2>2. ASSUME NEW p \in Paths, stat(t, p) PROVE FdRouted'
    <3>1. /\ pc[t] = "idle" /\ At(t, "getclient", NoFd, p, NoClient)
          /\ UNCHANGED <<fd_path, csl_fd_cli, csl_path_cli, fd_csl, stale>>
      BY <2>2 DEF stat, kernelVars, tableVars, historyVars
    <3> QED BY <1>0, <1>b, <3>1, AtProperties
  <2>3. ASSUME NEW p \in Paths, unlink(t, p) PROVE FdRouted'
    <3>1. PICK l, c : l \in {"kunlink", "erasepath"} /\ At(t, l, NoFd, p, c)
      BY <2>3 DEF unlink
    <3>2. /\ pc[t] = "idle" /\ UNCHANGED <<fd_path, csl_fd_cli, csl_path_cli, fd_csl>>
          /\ stale \subseteq stale'
      BY <2>3 DEF unlink, kernelVars
    <3> QED BY <1>0, <1>b, <3>1, <3>2, AtProperties
  <2>4. ASSUME NEW d \in Fds, FindFd(t, d) \/ FindSync(t, d) \/ close(t, d) PROVE FdRouted'
    <3>1. PICK l, c : l \in {"use", "sync", "erase", "kclose"} /\ At(t, l, d, fd_path[d], c)
      BY <2>4 DEF FindFd, FindSync, close
    <3>2. pc[t] = "idle" /\ UNCHANGED <<fd_path, csl_fd_cli, csl_path_cli, fd_csl, stale>>
      BY <2>4 DEF FindFd, FindSync, close, Usable, kernelVars, tableVars, historyVars
    <3> QED BY <1>0, <1>b, <3>1, <3>2, AtProperties
  <2> QED BY <1>1, <2>1, <2>2, <2>3, <2>4 DEF Begin, fopen, fclose
<1>2. ASSUME NEW t \in Threads, Continue(t) PROVE FdRouted'
  <2>1. CASE getClient(t)
    <3>1. /\ pc[t] = "getclient" /\ pc' = [pc EXCEPT ![t] = "insert"]
          /\ UNCHANGED <<fd_path, csl_fd_cli, fd_csl, stale, arg_fd>>
      BY <2>1 DEF getClient, kernelVars, historyVars
    <3>2. \A e \in Fds : (Opening(e) => Opening(e)') /\ (Closing(e) => Closing(e)')
      BY <1>0, <3>1 DEF Opening, Closing, TablesTypeOK
    <3>3. \A q \in Paths : csl_path_cli[q] # NoClient => csl_path_cli'[q] = csl_path_cli[q]
      BY <1>0, <2>1 DEF getClient, TablesTypeOK
    <3>4. ASSUME NEW e \in Fds, fd_path[e] # NoPath, ~Opening(e), ~Closing(e), e \in fd_csl,
                 e \notin stale
          PROVE  csl_path_cli'[fd_path[e]] = csl_path_cli[fd_path[e]]
      <4>1. csl_path_cli[fd_path[e]] # NoClient /\ fd_path[e] \in Paths
        BY <1>0, <3>4 DEF FdRouted, TablesTypeOK
      <4> QED BY <3>3, <4>1
    <3> QED BY <1>0, <3>1, <3>2, <3>4 DEF FdRouted
  <2>2. CASE InsertFd(t)
    <3>1. /\ pc[t] = "insert" /\ At(t, "idle", NoFd, NoPath, NoClient)
          /\ UNCHANGED <<fd_path, csl_path_cli, fd_csl, stale>>
      BY <2>2 DEF InsertFd, Leave, kernelVars, historyVars
    <3>2. \A e \in Fds : e # arg_fd[t] => csl_fd_cli'[e] = csl_fd_cli[e]
      BY <1>0, <2>2 DEF InsertFd, TablesTypeOK
    <3>3. \A e \in Fds : /\ e # arg_fd[t] => (Opening(e) => Opening(e)')
                         /\ Closing(e) => Closing(e)'
      BY <1>0, <3>1, AtProperties DEF Opening, Closing
    <3>4. ASSUME arg_fd[t] \in Fds
          PROVE  /\ arg_fd[t] \in fd_csl /\ csl_fd_cli'[arg_fd[t]] # NoClient
                 /\ csl_fd_cli'[arg_fd[t]] = csl_path_cli[fd_path[arg_fd[t]]]
      <4>1. /\ arg_fd[t] # NoFd /\ arg_fd[t] \in fd_csl /\ csl_fd_cli[arg_fd[t]] = NoClient
            /\ fd_path[arg_fd[t]] = arg_path[t]
            /\ cli[t] # NoClient /\ cli[t] = csl_path_cli[arg_path[t]]
        BY <1>0, <3>1, <3>4 DEF OpenInv
      <4>2. csl_fd_cli' = [csl_fd_cli EXCEPT ![arg_fd[t]] = cli[t]]
        BY <2>2, <4>1 DEF InsertFd
      <4> QED BY <1>0, <3>4, <4>1, <4>2 DEF TablesTypeOK
    <3> QED BY <1>a, <3>1, <3>2, <3>3, <3>4 DEF FdRouted
  <2>3. CASE EraseFd(t)
    <3>1. /\ pc[t] = "erase" /\ pc' = [pc EXCEPT ![t] = "kclose"]
          /\ csl_fd_cli' = [csl_fd_cli EXCEPT ![arg_fd[t]] = NoClient]
          /\ UNCHANGED <<fd_path, csl_path_cli, fd_csl, stale, arg_fd>>
      BY <2>3 DEF EraseFd, kernelVars, historyVars
    <3>2. \A e \in Fds : (Opening(e) => Opening(e)') /\ (Closing(e) => Closing(e)')
      BY <1>0, <3>1 DEF Opening, Closing, TablesTypeOK
    <3>3. \A e \in Fds : e # arg_fd[t] => csl_fd_cli'[e] = csl_fd_cli[e]
      BY <1>0, <3>1 DEF TablesTypeOK
    <3>4. \A e \in Fds : e = arg_fd[t] => Closing(e)'
      BY <1>0, <3>1 DEF Closing, TablesTypeOK
    <3> QED BY <1>a, <3>1, <3>2, <3>3, <3>4 DEF FdRouted
  <2>4. CASE CloseKernel(t)
    <3>1. /\ pc[t] = "kclose" /\ At(t, "idle", NoFd, NoPath, NoClient)
          /\ fd_path' = [fd_path EXCEPT ![arg_fd[t]] = NoPath]
          /\ UNCHANGED <<csl_fd_cli, csl_path_cli, fd_csl, stale>>
      BY <2>4 DEF CloseKernel, Leave, tableVars, historyVars
    <3>2. \A e \in Fds : e # arg_fd[t] =>
              /\ fd_path'[e] = fd_path[e]
              /\ Opening(e) => Opening(e)'
              /\ Closing(e) => Closing(e)'
      BY <1>0, <3>1, AtProperties DEF Opening, Closing, TablesTypeOK
    <3>3. \A e \in Fds : e = arg_fd[t] => fd_path'[e] = NoPath
      BY <1>0, <3>1 DEF TablesTypeOK
    <3> QED BY <1>a, <3>1, <3>2, <3>3 DEF FdRouted
  <2>5. CASE ErasePath(t)
    <3> DEFINE p == arg_path[t]
    <3>1. /\ pc[t] = "erasepath" /\ pc' = [pc EXCEPT ![t] = "kunlink"]
          /\ csl_path_cli' = [csl_path_cli EXCEPT ![p] = NoClient]
          /\ UNCHANGED <<fd_path, csl_fd_cli, fd_csl, stale, arg_fd>>
      BY <2>5 DEF ErasePath, kernelVars, historyVars
    <3>2. \A e \in Fds : (Opening(e) => Opening(e)') /\ (Closing(e) => Closing(e)')
      BY <1>0, <3>1 DEF Opening, Closing, TablesTypeOK
    <3>3. \A e \in fd_csl : fd_path[e] = p => e \in stale
      BY <1>0, <3>1 DEF UnlinkInv
    <3>4. \A q \in Paths : q # p => csl_path_cli'[q] = csl_path_cli[q]
      BY <1>0, <3>1 DEF TablesTypeOK
    <3>5. \A e \in Fds : fd_path[e] # NoPath => fd_path[e] \in Paths
      BY <1>0 DEF TablesTypeOK
    <3> HIDE DEF p
    <3> QED BY <1>0, <3>1, <3>2, <3>3, <3>4, <3>5 DEF FdRouted
  <2>6. CASE Use(t) \/ Sync(t) \/ UnlinkKernel(t)
    <3>1. /\ pc[t] \in {"use", "sync", "kunlink"} /\ At(t, "idle", NoFd, NoPath, NoClient)
          /\ UNCHANGED <<fd_path, csl_fd_cli, csl_path_cli, fd_csl>> /\ stale \subseteq stale'
      BY <2>6 DEF Use, Sync, UnlinkKernel, Leave, kernelVars, tableVars, historyVars
    <3> QED BY <1>0, <1>b, <3>1, AtProperties
  <2> QED BY <1>2, <2>1, <2>2, <2>3, <2>4, <2>5, <2>6 DEF Continue
<1>3. CASE UNCHANGED tablesVars
  BY <1>b, <1>3 DEF tablesVars, kernelVars, tableVars, threadVars, historyVars
<1> QED BY <1>1, <1>2, <1>3 DEF TablesNext

\* A call reaches the file it was made on.
LEMMA ReachesStep == TablesInv /\ [TablesNext]_tablesVars => CallReachesItsFile'
<1> SUFFICES ASSUME TablesInv, [TablesNext]_tablesVars PROVE CallReachesItsFile'
  OBVIOUS
<1> USE FileTablesAssumption, ClientIds DEF PathLabels
<1>0. /\ TablesTypeOK /\ CallsInv /\ EntryInv /\ UnlinkInv /\ PoolInv
      /\ FdRouted /\ CallReachesItsFile
  BY DEF TablesInv
<1>a. \A c \in busy_clients : c \in Clients /\ c # NoClient
  BY <1>0 DEF TablesTypeOK
\* A step of a thread that is not a user, and of none after it.
<1>b. ASSUME NEW t \in Threads, NEW l, NEW d, NEW p, NEW c, At(t, l, d, p, c), l # "use",
             UNCHANGED <<filename, busy_clients>>, stale_use \ {t} \subseteq stale_use'
      PROVE  CallReachesItsFile'
  BY <1>0, <1>b, AtProperties DEF CallReachesItsFile
<1>c. ASSUME NEW t \in Threads, NEW l, l # "use", pc' = [pc EXCEPT ![t] = l],
             \A u \in Threads \ {t} : cli'[u] = cli[u], UNCHANGED <<arg_path, stale_use>>
      PROVE  \A u \in Threads :
                pc'[u] = "use" /\ u \notin stale_use' /\ cli'[u] # NoClient =>
                   /\ cli'[u] = cli[u] /\ arg_path'[u] = arg_path[u]
                   /\ filename[cli[u]] = arg_path[u] /\ cli[u] \in busy_clients
  BY <1>0, <1>c DEF CallReachesItsFile, TablesTypeOK
<1>1. ASSUME NEW t \in Threads, Begin(t) PROVE CallReachesItsFile'
  <2>1. ASSUME NEW d \in Fds, NEW p \in Paths, NEW csl \in BOOLEAN, NEW trunc \in BOOLEAN,
               open(t, d, p, csl, trunc)
        PROVE  CallReachesItsFile'
    <3>1. UNCHANGED <<filename, busy_clients, stale_use>>
      BY <2>1 DEF open, tableVars
    <3>2. UNCHANGED threadVars \/ At(t, "getclient", d, p, NoClient)
      BY <2>1 DEF open
    <3>3. CASE UNCHANGED threadVars
      BY <1>0, <3>1, <3>3 DEF CallReachesItsFile, threadVars
    <3> QED BY <1>b, <3>1, <3>2, <3>3
  <2>2. ASSUME NEW p \in Paths, stat(t, p) PROVE CallReachesItsFile'
    BY <1>b, <2>2 DEF stat, tableVars, historyVars
  <2>3. ASSUME NEW p \in Paths, unlink(t, p) PROVE CallReachesItsFile'
    <3> DEFINE c == csl_path_cli[p]
    <3>1. PICK l \in {"kunlink", "erasepath"} : At(t, l, NoFd, p, c)
      BY <2>3 DEF unlink
    <3>2. /\ path_call = NoThread
          /\ stale_use' = stale_use \cup {u \in Threads : arg_path[u] = p /\ pc[u] = "use"}
      BY <2>3 DEF unlink
    <3>3. CASE c \notin busy_clients
      BY <1>b, <2>3, <3>1, <3>2, <3>3 DEF unlink
    <3>4. CASE c \in busy_clients
      <4>1. /\ busy_clients' = busy_clients \ {c} /\ filename' = [filename EXCEPT ![c] = NoPath]
        BY <2>3, <3>4 DEF unlink
      <4>2. filename[c] = p
        <5>1. \A u \in Threads : pc[u] # "erasepath"
          BY <1>0, <3>2 DEF CallsInv
        <5> QED BY <1>0, <1>a, <3>4, <5>1 DEF PoolInv
      <4> HIDE DEF c
      <4>3. ASSUME NEW u \in Threads, pc'[u] = "use", u \notin stale_use', cli'[u] # NoClient
            PROVE  filename'[cli'[u]] = arg_path'[u] /\ cli'[u] \in busy_clients'
        <5>1. u # t /\ pc[u] = "use" /\ cli'[u] = cli[u] /\ arg_path'[u] = arg_path[u]
          BY <1>0, <3>1, <4>3, AtProperties
        <5>2. u \notin stale_use /\ arg_path[u] # p
          BY <3>2, <4>3, <5>1
        <5>3. filename[cli[u]] = arg_path[u] /\ cli[u] \in busy_clients
          BY <1>0, <4>3, <5>1, <5>2 DEF CallReachesItsFile
        <5>4. cli[u] # c /\ cli[u] \in Clients
          BY <1>a, <4>2, <5>2, <5>3
        <5> QED BY <1>0, <4>1, <5>1, <5>3, <5>4 DEF TablesTypeOK
      <4> QED BY <4>3 DEF CallReachesItsFile
    <3> QED BY <3>3, <3>4
  <2>4. ASSUME NEW d \in Fds, FindFd(t, d) PROVE CallReachesItsFile'
    <3>1. /\ fd_path[d] # NoPath /\ ~Closing(d) /\ ~Opening(d)
          /\ At(t, "use", d, fd_path[d], csl_fd_cli[d])
          /\ stale_use' = IF d \in stale THEN stale_use \cup {t} ELSE stale_use
          /\ UNCHANGED <<filename, busy_clients>>
      BY <2>4 DEF FindFd, Usable, tableVars
    <3>2. ASSUME d \notin stale, csl_fd_cli[d] # NoClient
          PROVE  filename[csl_fd_cli[d]] = fd_path[d] /\ csl_fd_cli[d] \in busy_clients
      <4>1. fd_path[d] \in Paths /\ d \in fd_csl
        BY <1>0, <3>1, <3>2 DEF EntryInv, TablesTypeOK
      <4>2. csl_fd_cli[d] = csl_path_cli[fd_path[d]]
        BY <1>0, <3>1, <3>2, <4>1 DEF FdRouted
      <4>3. ~\E u \in Threads : pc[u] = "erasepath" /\ arg_path[u] = fd_path[d]
        BY <1>0, <3>2, <4>1 DEF UnlinkInv
      <4> QED BY <1>0, <3>2, <4>1, <4>2, <4>3 DEF PoolInv
    <3> QED BY <1>0, <3>1, <3>2, AtProperties DEF CallReachesItsFile
  <2>5. ASSUME NEW d \in Fds, FindSync(t, d) \/ close(t, d) PROVE CallReachesItsFile'
    <3>1. PICK l, c : l \in {"sync", "erase", "kclose"} /\ At(t, l, d, fd_path[d], c)
      BY <2>5 DEF FindSync, close
    <3>2. UNCHANGED <<filename, busy_clients, stale_use>>
      BY <2>5 DEF FindSync, close, tableVars, historyVars
    <3> QED BY <1>b, <3>1, <3>2
  <2> QED BY <1>1, <2>1, <2>2, <2>3, <2>4, <2>5 DEF Begin, fopen, fclose
<1>2. ASSUME NEW t \in Threads, Continue(t) PROVE CallReachesItsFile'
  <2>1. CASE getClient(t)
    <3> DEFINE p == arg_path[t]
    <3>1. /\ pc[t] = "getclient" /\ pc' = [pc EXCEPT ![t] = "insert"]
          /\ UNCHANGED <<arg_path, stale_use>>
      BY <2>1 DEF getClient, historyVars
    <3>2. \A u \in Threads \ {t} : cli'[u] = cli[u]
      BY <1>0, <2>1 DEF getClient, TablesTypeOK
    <3>3. \A u \in Threads :
              pc'[u] = "use" /\ u \notin stale_use' /\ cli'[u] # NoClient =>
                 /\ cli'[u] = cli[u] /\ arg_path'[u] = arg_path[u]
                 /\ filename[cli[u]] = arg_path[u] /\ cli[u] \in busy_clients
      BY <1>c, <3>1, <3>2
    <3>4. \A b \in busy_clients : b \in busy_clients' /\ filename'[b] = filename[b]
      <4>1. CASE csl_path_cli[p] # NoClient
        BY <2>1, <4>1 DEF getClient
      <4>2. CASE csl_path_cli[p] = NoClient
        <5>1. PICK c \in FromPool : GetClient(c, p)
          BY <2>1, <4>2 DEF getClient
        <5>2. c \notin busy_clients
          BY <1>0, <5>1, FreshClient
        <5> QED BY <1>0, <1>a, <5>1, <5>2 DEF GetClient, TablesTypeOK
      <4> QED BY <4>1, <4>2
    <3> QED BY <3>3, <3>4 DEF CallReachesItsFile
  <2>2. CASE EraseFd(t) \/ ErasePath(t)
    <3>1. /\ \E l \in {"kclose", "kunlink"} : pc' = [pc EXCEPT ![t] = l]
          /\ UNCHANGED <<arg_path, cli, stale_use, filename, busy_clients>>
      BY <2>2 DEF EraseFd, ErasePath, historyVars
    <3> QED BY <1>c, <3>1 DEF CallReachesItsFile
  <2>3. CASE InsertFd(t) \/ Use(t) \/ Sync(t) \/ CloseKernel(t) \/ UnlinkKernel(t)
    <3>1. /\ At(t, "idle", NoFd, NoPath, NoClient) /\ UNCHANGED <<filename, busy_clients>>
          /\ stale_use \ {t} \subseteq stale_use'
      BY <2>3 DEF InsertFd, Use, Sync, CloseKernel, UnlinkKernel, Leave, tableVars, historyVars
    <3> QED BY <1>b, <3>1
  <2> QED BY <1>2, <2>1, <2>2, <2>3 DEF Continue
<1>3. CASE UNCHANGED tablesVars
  BY <1>0, <1>3 DEF CallReachesItsFile, tablesVars, tableVars, threadVars, historyVars
<1> QED BY <1>1, <1>2, <1>3 DEF TablesNext

-----------------------------------------------------------------------------
(* The theorems. *)

\* The tables are empty and no thread is inside a call at first.
LEMMA TablesInitial == TablesInit => TablesInv
<1> SUFFICES ASSUME TablesInit PROVE TablesInv
  OBVIOUS
<1> USE FileTablesAssumption, ClientIds
<1>1. TablesTypeOK
  BY DEF TablesInit, TablesTypeOK
<1>2. CallsInv /\ EntryInv /\ OpenInv /\ CloseInv /\ UnlinkInv
  BY DEF TablesInit, CallsInv, EntryInv, OpenInv, CloseInv, UnlinkInv, PathLabels
<1>3. PoolInv
  <2>1. 0 \in 0 .. Cardinality(Paths)
    BY FS_CardinalityType
  <2>2. idle_clients \cup busy_clients = 0 .. 0 - 1
    BY DEF TablesInit
  <2> QED BY <2>1, <2>2 DEF TablesInit, PoolInv
<1>4. FdRouted /\ CallReachesItsFile
  BY DEF TablesInit, FdRouted, CallReachesItsFile
<1> QED BY <1>1, <1>2, <1>3, <1>4 DEF TablesInv

\* TablesInv is an invariant of the tables of csl.cc and the client pool.
THEOREM TablesInductive == TablesSpec => []TablesInv
<1>1. TablesInit => TablesInv
  BY TablesInitial
<1>2. TablesInv /\ [TablesNext]_tablesVars => TablesInv'
  BY TablesTypeStep, CallsStep, EntryStep, OpenStep, CloseStep, UnlinkStep, PoolStep, RoutedStep,
     ReachesStep DEF TablesInv
<1> QED BY <1>1, <1>2, PTL DEF TablesSpec

\* Every variable always has a value its C++ counterpart can have, no client is
\* idle and busy at once, and the pool never makes more clients than there are
\* paths: a new one is made only for a path that has none while no client is
\* idle (client_pool.cc:65, 79).
THEOREM TablesTypeCorrect == TablesSpec => []TablesTypeOK
<1>1. TablesInv => TablesTypeOK
  BY DEF TablesInv
<1> QED BY <1>1, TablesInductive, PTL

\* A descriptor reaches the client of its path or, without O_CSL, none, whatever
\* number the kernel hands out again (csl.cc:103, 260).
THEOREM FdRoutedAlways == TablesSpec => []FdRouted
<1>1. TablesInv => FdRouted
  BY DEF TablesInv
<1> QED BY <1>1, TablesInductive, PTL

\* A call uses the client of the file it was made on, although it uses it after
\* csl_lock is released (csl.cc:212).
THEOREM CallReachesItsFileAlways == TablesSpec => []CallReachesItsFile
<1>1. TablesInv => CallReachesItsFile
  BY DEF TablesInv
<1> QED BY <1>1, TablesInductive, PTL

\* Outside open, stat and unlink the busy clients are those of the paths, each
\* with the name of its path (csl.cc:92, 311).
THEOREM PathsOwnClientsAlways == TablesSpec => []PathsOwnClients
<1>1. TablesInv => PathsOwnClients
  <2> SUFFICES ASSUME TablesInv, path_call = NoThread
               PROVE  /\ busy_clients = {csl_path_cli[p] : p \in Paths} \ {NoClient}
                      /\ \A p \in Paths : csl_path_cli[p] # NoClient
                                             => filename[csl_path_cli[p]] = p
    BY DEF PathsOwnClients
  <2> USE FileTablesAssumption, ClientIds
  <2>1. \A t \in Threads : pc[t] # "erasepath"
    BY DEF TablesInv, CallsInv, PathLabels
  <2>2. \A p \in Paths : csl_path_cli[p] # NoClient =>
            csl_path_cli[p] \in busy_clients /\ filename[csl_path_cli[p]] = p
    BY <2>1 DEF TablesInv, PoolInv
  <2>3. \A c \in busy_clients : c # NoClient /\ \E p \in Paths : csl_path_cli[p] = c
    BY DEF TablesInv, PoolInv, TablesTypeOK
  <2> QED BY <2>2, <2>3
<1> QED BY <1>1, TablesInductive, PTL

=============================================================================
