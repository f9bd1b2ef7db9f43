--------------------------- MODULE SessionsProofs ---------------------------
(***************************************************************************)
(* The invariants of Sessions for every number of paths, descriptors and   *)
(* memory regions and any number of restarts.                              *)
(***************************************************************************)
EXTENDS Sessions, FiniteSetTheorems, SequenceTheorems, WellFoundedInduction, TLAPS

-----------------------------------------------------------------------------
(* The inductive invariant. *)

Requests == [type : {"OPEN_FILE", "CLOSE_FILE", "EXIT_PROC", "GET_INFO"}, p : Paths]
Replies == [mr : MRs \cup {NoMR}, size : 0 .. 1, seq : 0 .. 1]

\* What is on the sockets and in the MRs is well formed; a file the server knows
\* has an MR.
NetInv ==
    /\ req \in [Socks -> Seq(Requests)] /\ resp \in [Socks -> Seq(Replies)]
    /\ backlog \in Seq([s : Socks, p : Paths])
    /\ mr_size \in [MRs -> 0 .. 1] /\ mr_seq \in [MRs -> 0 .. 1]
    /\ next_sock \in Nat \ {0} /\ restarts \in 0 .. MaxRestarts
    /\ \A p \in Paths : local_cons[p] # NoCon => local_cons[p].mr \in MRs

\* The clients made so far, the one getClient waits for included.
Made == idle_clients \cup busy_clients \cup (IF app = "idle" THEN {} ELSE {cur.c})

\* They are 0 to n - 1, at most one per path, and each has one of the sockets of
\* this process, so that there are sockets enough.
MadeInv ==
    \E n \in 0 .. Cardinality(Paths) :
        /\ Made = 0 .. n - 1
        /\ next_sock <= Cardinality(Paths) * restarts + n + 1
        /\ \A c \in Made : sock[c] \in 1 .. next_sock - 1

\* A call in getClient has a client that is not busy, for a path that has none.
CallInv ==
    /\ app = "idle" => cur = NoCall
    /\ app # "idle" => /\ cur.c \in Clients /\ cur.c \notin busy_clients
                       /\ cur.p \in Paths /\ csl_path_cli[cur.p] = NoClient
                       /\ filename[cur.c] = cur.p

\* Busy clients and paths belong together.
OwnerInv ==
    /\ idle_clients \cap busy_clients = {}
    /\ \A c \in busy_clients : filename[c] \in Paths /\ csl_path_cli[filename[c]] = c
    /\ \A p \in Paths : csl_path_cli[p] # NoClient =>
          csl_path_cli[p] \in busy_clients /\ filename[csl_path_cli[p]] = p

SessionsInv == SessionsTypeOK /\ NetInv /\ MadeInv /\ CallInv /\ OwnerInv /\ MRsDisjoint

-----------------------------------------------------------------------------
(* The inductive invariant behind ServerSurvives. *)

\* The server knows file p, on socket s.
Holds(p, s) == local_cons[p] # NoCon /\ local_cons[p].sock = s

\* The connection of the call, behind those of processes that have ended: only
\* the first connection of a process can find such.
Waiting(s, p) ==
    /\ backlog # <<>> /\ backlog[Len(backlog)] = [s |-> s, p |-> p]
    /\ \A i \in 1 .. Len(backlog) - 1 : backlog[i].s \in closed
    /\ Len(backlog) # 1 => busy_clients = {}
OldOnly == Made = {} /\ \A i \in 1 .. Len(backlog) : backlog[i].s \in closed

\* Where the answer to the call in getClient is: the server accepts the
\* connection, or handles OPEN_FILE or GET_INFO, or has answered.  OPEN_FILE may
\* have been answered on the socket of another client, and the call is stuck.
Connecting(s, p) ==
    /\ idle_clients = {} /\ req[s] = <<>>
    /\ \/ Waiting(s, p) /\ resp[s] = <<>>
       \/ backlog = <<>> /\ Len(resp[s]) = 1 /\ Holds(p, s)
Reopening(s, p) ==
    \/ /\ \/ req[s] = <<Request("OPEN_FILE", p)>>
          \/ \E q \in Paths : /\ req[s] = <<Request("CLOSE_FILE", q), Request("OPEN_FILE", p)>>
                              /\ Holds(q, s)
       /\ \A u \in Socks : resp[u] = <<>>
    \/ /\ req[s] = <<>> /\ Len(resp[s]) = 1 /\ Holds(p, s)
       /\ \A u \in Socks \ {s} : resp[u] = <<>>
    \/ req[s] = <<>> /\ resp[s] = <<>>
Recovering(s, p) ==
    /\ Holds(p, s)
    /\ \/ req[s] = <<Request("GET_INFO", p)>> /\ resp[s] = <<>>
       \/ req[s] = <<>> /\ Len(resp[s]) = 1

\* Every client of the process has a socket of its own, which no earlier process
\* had, and nothing is sent on a socket that nobody has had.
SocketInv ==
    /\ server_up /\ closed \subseteq 1 .. next_sock - 1
    /\ \A c \in Made : sock[c] \notin closed
    /\ \A c, d \in Made : sock[c] = sock[d] => c = d
    /\ \A s \in Socks \ closed : (\A c \in Made : sock[c] # s) => req[s] = <<>>

\* The server knows the file of a client in use, and there is no request of it.
BusyInv == \A c \in busy_clients : Holds(filename[c], sock[c]) /\ req[sock[c]] = <<>>

\* There is at most the CLOSE_FILE of an idle client, for a file the server has
\* under the socket it comes on.
IdleInv ==
    \A c \in idle_clients : app = "idle" \/ c # cur.c =>
        \/ req[sock[c]] = <<>>
        \/ \E q \in Paths : req[sock[c]] = <<Request("CLOSE_FILE", q)>> /\ Holds(q, sock[c])

\* Where the answer to the call in getClient is.
AnswerInv ==
    /\ app # "connect" => backlog = <<>> \/ OldOnly
    /\ app = "idle" => \A s \in Socks : resp[s] = <<>>
    /\ app \in {"connect", "info"} => \A s \in Socks \ {sock[cur.c]} : resp[s] = <<>>
    /\ app = "connect" => Connecting(sock[cur.c], cur.p)
    /\ app = "open" => Reopening(sock[cur.c], cur.p)
    /\ app = "info" => Recovering(sock[cur.c], cur.p)

ProcessInv == SocketInv /\ BusyInv /\ IdleInv /\ AnswerInv

SurvivesInv == SessionsInv /\ (~leftover => ProcessInv)

-----------------------------------------------------------------------------
(* The inductive invariant behind AnsweredElsewhere. *)

\* The next request on socket s gives file p up.
GivenUp(p, s) == req[s] # <<>> /\ Head(req[s]) = Request("CLOSE_FILE", p)

\* Client c accounts for the socket the server has for file p.
KeptBy(p, c) ==
    /\ sock[c] = local_cons[p].sock
    /\ \/ c \in busy_clients /\ filename[c] = p
       \/ app # "idle" /\ c = cur.c /\ cur.p = p
       \/ GivenUp(p, sock[c])

\* A file the server knows was left open by an ended process, or is open or being
\* opened on the socket the server has for it, or about to be closed there.
HeldInv ==
    \A p \in Paths : local_cons[p] # NoCon =>
        local_cons[p].sock \in closed \/ \E c \in Made : KeptBy(p, c)

AnswersInv == SurvivesInv /\ (~leftover => HeldInv)

-----------------------------------------------------------------------------
(* Facts about the pool and the sockets. *)

\* A set of client ids that is not empty has a lowest one, the begin() of
\* idle_clients.
LEMMA LowestExists ==
    ASSUME NEW S, S \subseteq Nat, S # {}
    PROVE  \E i \in S : \A j \in S : i <= j
<1> DEFINE R == OpToRel(<, Nat)
<1>1. IsWellFoundedOn(R, Nat)
  BY NatLessThanWellFounded
<1>2. \A x, y \in Nat : <<x, y>> \in R <=> x < y
  BY DEF OpToRel
<1> HIDE DEF R
<1>3. PICK i \in S : \A j \in S : ~(<<j, i>> \in R)
  BY <1>1, WFMin
<1>4. ASSUME NEW j \in S PROVE i <= j
  <2>1. i \in Nat /\ j \in Nat
    OBVIOUS
  <2>2. ~(j < i)
    BY <1>2, <1>3, <2>1
  <2> QED BY <2>1, <2>2
<1> QED BY <1>4

\* A process that has made n clients leaves sockets for those to come.
LEMMA SocketsSuffice ==
    ASSUME NEW K \in Nat, NEW r \in 0 .. MaxRestarts, NEW n \in 0 .. K - 1,
           NEW s \in Nat \ {0}, s <= K * r + n + 1
    PROVE  s \in 1 .. K * (MaxRestarts + 1)
<1> USE SessionsAssumption
<1>1. K * r <= K * MaxRestarts
  OBVIOUS
<1>2. K * (MaxRestarts + 1) = K * MaxRestarts + K
  OBVIOUS
<1>3. K * r \in Nat /\ K * MaxRestarts \in Nat
  OBVIOUS
<1> HIDE SessionsAssumption
<1> DEFINE a == K * r
           b == K * MaxRestarts
<1>4. a \in Nat /\ b \in Nat /\ a <= b /\ K * (MaxRestarts + 1) = b + K /\ s <= a + n + 1
  BY <1>1, <1>2, <1>3
<1> HIDE DEF a, b
<1> QED BY <1>4

\* Every client that has been made has a socket, a number that Socks contains.
LEMMA MadeSocks ==
    ASSUME SessionsInv, NEW c \in Made
    PROVE  c \in Clients /\ sock[c] \in Socks
<1> USE SessionsAssumption
<1>1. c \in Clients
  BY DEF SessionsInv, SessionsTypeOK, CallInv, Made
<1>2. sock[c] # 0
  BY DEF SessionsInv, MadeInv
<1> QED BY <1>1, <1>2 DEF SessionsInv, SessionsTypeOK

\* Sequences of requests, replies and connections stay what they are.
LEMMA SeqFacts ==
    ASSUME NEW S, NEW q \in Seq(S)
    PROVE  /\ <<>> \in Seq(S)
           /\ \A x \in S : Append(q, x) \in Seq(S)
           /\ q # <<>> => Head(q) \in S /\ Tail(q) \in Seq(S)
BY EmptySeq, AppendProperties, HeadTailProperties

\* A new client gets the next id and the next socket, and there is one of each,
\* because the path it is for has no client and every busy client has a path.
LEMMA NewClient ==
    ASSUME SessionsInv, app = "idle", idle_clients = {}, NEW p \in Paths,
           csl_path_cli[p] = NoClient
    PROVE  LET c == Cardinality(busy_clients) IN
           /\ c \in Clients /\ c \notin busy_clients
           /\ busy_clients = 0 .. c - 1
           /\ next_sock \in Socks
           /\ next_sock <= Cardinality(Paths) * restarts + c + 1
           /\ \A b \in busy_clients : sock[b] \in 1 .. next_sock - 1
<1> USE SessionsAssumption
<1>0. SessionsTypeOK /\ NetInv /\ MadeInv /\ OwnerInv
  BY DEF SessionsInv
<1>1. Cardinality(Paths) \in Nat
  BY FS_CardinalityType
<1>2. Made = busy_clients
  BY DEF Made
<1>3. PICK n \in 0 .. Cardinality(Paths) :
         /\ busy_clients = 0 .. n - 1
         /\ next_sock <= Cardinality(Paths) * restarts + n + 1
         /\ \A b \in busy_clients : sock[b] \in 1 .. next_sock - 1
  BY <1>0, <1>2 DEF MadeInv
<1>4. Cardinality(busy_clients) = n
  BY <1>1, <1>3, FS_Interval
<1> DEFINE f == [b \in busy_clients |-> filename[b]]
<1>5. \A b \in busy_clients : b # NoClient
  BY <1>0 DEF SessionsTypeOK, Clients
<1>6. f \in [busy_clients -> Paths \ {p}]
  BY <1>0, <1>5 DEF OwnerInv
<1>7. \A a, b \in busy_clients : f[a] = f[b] => a = b
  BY <1>0 DEF OwnerInv
<1>8. f \in Injection(busy_clients, Paths \ {p})
  BY <1>6, <1>7 DEF Injection, IsInjective
<1> HIDE DEF f
<1>9. IsFiniteSet(Paths \ {p}) /\ Cardinality(Paths \ {p}) = Cardinality(Paths) - 1
  BY FS_RemoveElement
<1>10. n <= Cardinality(Paths) - 1
  BY <1>4, <1>8, <1>9, FS_Injection
<1>11. n \in 0 .. Cardinality(Paths) - 1
  BY <1>1, <1>10
<1>12. next_sock \in Socks
  <2>1. next_sock \in Nat \ {0} /\ restarts \in 0 .. MaxRestarts
    BY <1>0 DEF NetInv
  <2> QED BY <1>1, <1>3, <1>11, <2>1, SocketsSuffice DEF Socks
<1> QED BY <1>1, <1>3, <1>4, <1>11, <1>12 DEF Clients

\* What open and stat do in GetClient: take a client c that is not busy, a new
\* one with the next socket or the first of the idle ones.
LEMMA GetClientFacts ==
    ASSUME SessionsInv, app = "idle", NEW p \in Paths, csl_path_cli[p] = NoClient,
           NEW fd, NEW rec, GetClient(p, fd, rec)
    PROVE  \E c \in Clients \ busy_clients :
              /\ cur' = [c |-> c, p |-> p, fd |-> fd, recover |-> rec]
              /\ filename' = [filename EXCEPT ![c] = p]
              /\ \/ /\ idle_clients = {} /\ app' = "connect" /\ c = Cardinality(busy_clients)
                    /\ next_sock \in Socks /\ GetQpTo(c, p)
                 \/ /\ c \in idle_clients /\ app' = "open" /\ sock[c] \in Socks
                    /\ Send(sock[c], Request("OPEN_FILE", p))
                    /\ UNCHANGED <<sock, backlog, next_sock>>
<1>1. CASE idle_clients = {}
  <2> DEFINE c == Cardinality(busy_clients)
  <2>1. c \in Clients \ busy_clients /\ next_sock \in Socks
    BY <1>1, NewClient
  <2>2. /\ cur' = [c |-> c, p |-> p, fd |-> fd, recover |-> rec]
        /\ app' = "connect"
        /\ filename' = [filename EXCEPT ![c] = p]
        /\ GetQpTo(c, p)
    BY <1>1 DEF GetClient
  <2> QED BY <1>1, <2>1, <2>2
<1>2. CASE idle_clients # {}
  <2> DEFINE c == CHOOSE i \in idle_clients : \A j \in idle_clients : i <= j
  <2>1. idle_clients \subseteq Nat /\ idle_clients \subseteq Clients
    BY DEF SessionsInv, SessionsTypeOK, Clients
  <2>2. c \in idle_clients
    BY <1>2, <2>1, LowestExists
  <2>3. /\ cur' = [c |-> c, p |-> p, fd |-> fd, recover |-> rec]
        /\ app' = "open"
        /\ filename' = [filename EXCEPT ![c] = p]
        /\ Send(sock[c], Request("OPEN_FILE", p))
        /\ UNCHANGED <<sock, backlog, next_sock>>
    BY <1>2 DEF GetClient
  <2> HIDE DEF c
  <2>4. c \notin busy_clients
    BY <2>2 DEF SessionsInv, OwnerInv
  <2>5. sock[c] \in Socks
    BY <2>2, MadeSocks DEF Made
  <2> QED BY <2>1, <2>2, <2>3, <2>4, <2>5
<1> QED BY <1>1, <1>2

\* The busy client of a path that has one, and its socket.
LEMMA OwnerFacts ==
    ASSUME SessionsInv, NEW p \in Paths, csl_path_cli[p] # NoClient
    PROVE  LET c == csl_path_cli[p] IN
           c \in Clients /\ c \in busy_clients /\ filename[c] = p /\ sock[c] \in Socks
<1>1. csl_path_cli[p] \in busy_clients /\ filename[csl_path_cli[p]] = p
  BY DEF SessionsInv, OwnerInv
<1> QED BY <1>1, MadeSocks DEF Made

\* What ProcessEnd leaves on the sockets.
LEMMA ProcessEndReq ==
    ASSUME SessionsInv, NEW exits \in BOOLEAN, ProcessEnd(exits)
    PROVE  req' \in [Socks -> Seq(Requests)]
<1> SUFFICES ASSUME NEW s \in Socks
             PROVE  IF exits /\ \E c \in busy_clients : sock[c] = s
                    THEN LET c == CHOOSE i \in busy_clients : sock[i] = s
                         IN  Append(req[s], Request("EXIT_PROC", filename[c])) \in Seq(Requests)
                    ELSE req[s] \in Seq(Requests)
  BY DEF ProcessEnd
<1>1. req[s] \in Seq(Requests)
  BY DEF SessionsInv, NetInv
<1>2. ASSUME NEW c \in busy_clients PROVE Request("EXIT_PROC", filename[c]) \in Requests
  BY DEF Request, Requests, SessionsInv, OwnerInv
<1>3. ASSUME \E c \in busy_clients : sock[c] = s
      PROVE  (CHOOSE i \in busy_clients : sock[i] = s) \in busy_clients
  BY <1>3
<1> QED BY <1>1, <1>2, <1>3, SeqFacts

-----------------------------------------------------------------------------
(* Every step preserves the parts of SessionsInv. *)

\* A region GetMRofSize hands out.
LEMMA FreeMR ==
    ASSUME SessionsInv, NEW m \in GetMRofSize
    PROVE  m \in MRs /\ \A p \in Paths : local_cons[p].mr # m
<1> USE SessionsAssumption
<1>1. CASE free_mrs # {}
  <2>1. m \in free_mrs
    BY <1>1 DEF GetMRofSize
  <2>2. m \in MRs
    BY <2>1 DEF SessionsInv, SessionsTypeOK
  <2>3. ASSUME NEW p \in Paths PROVE local_cons[p].mr # m
    <3>1. CASE local_cons[p] = NoCon
      BY <2>2, <3>1 DEF NoCon
    <3>2. CASE local_cons[p] # NoCon
      BY <2>1, <3>2 DEF SessionsInv, MRsDisjoint
    <3> QED BY <3>1, <3>2
  <2> QED BY <2>2, <2>3
<1>2. CASE free_mrs = {}
  BY <1>2 DEF GetMRofSize
<1> QED BY <1>1, <1>2

\* Zeroing the size or the sequence number of an MR.
LEMMA ZeroMR ==
    ASSUME NEW f \in [MRs -> 0 .. 1], NEW m
    PROVE  [f EXCEPT ![m] = 0] \in [MRs -> 0 .. 1]
<1>1. 0 \in 0 .. 1
  OBVIOUS
<1> DEFINE B == 0 .. 1
<1> HIDE DEF B
<1>2. f \in [MRs -> B] /\ 0 \in B
  BY <1>1 DEF B
<1>3. [f EXCEPT ![m] = 0] \in [MRs -> B]
  BY <1>2
<1> QED BY <1>3 DEF B

\* The values of the tables, the pool, the sockets and the server.
LEMMA SessionsTypeStep ==
    SessionsInv /\ [SessionsNext]_sessionVars => SessionsTypeOK' /\ NetInv'
<1> SUFFICES ASSUME SessionsInv, [SessionsNext]_sessionVars PROVE SessionsTypeOK' /\ NetInv'
  OBVIOUS
<1> USE SessionsAssumption
<1>0. SessionsTypeOK /\ NetInv /\ MadeInv /\ CallInv /\ OwnerInv
  BY DEF SessionsInv
<1>1. ASSUME NEW p \in Paths, NEW fd \in Fds \cup {NoFd}, NEW rec \in BOOLEAN,
             app = "idle", csl_path_cli[p] = NoClient, GetClient(p, fd, rec)
      PROVE  /\ cur' \in [c : Clients \cup {NoClient}, p : Paths \cup {NoPath},
                          fd : Fds \cup {NoFd}, recover : BOOLEAN]
             /\ app' \in {"idle", "connect", "open", "info"}
             /\ filename' \in [Clients -> Paths \cup {NoPath}]
             /\ sock' \in [Clients -> {0} \cup Socks]
             /\ req' \in [Socks -> Seq(Requests)]
             /\ backlog' \in Seq([s : Socks, p : Paths])
             /\ next_sock' \in Nat \ {0}
  <2>1. PICK c \in Clients \ busy_clients :
              /\ cur' = [c |-> c, p |-> p, fd |-> fd, recover |-> rec]
              /\ filename' = [filename EXCEPT ![c] = p]
              /\ \/ /\ idle_clients = {} /\ app' = "connect" /\ c = Cardinality(busy_clients)
                    /\ next_sock \in Socks /\ GetQpTo(c, p)
                 \/ /\ c \in idle_clients /\ app' = "open" /\ sock[c] \in Socks
                    /\ Send(sock[c], Request("OPEN_FILE", p))
                    /\ UNCHANGED <<sock, backlog, next_sock>>
    BY <1>1, GetClientFacts
  <2>2. /\ cur' \in [c : Clients \cup {NoClient}, p : Paths \cup {NoPath},
                     fd : Fds \cup {NoFd}, recover : BOOLEAN]
        /\ filename' \in [Clients -> Paths \cup {NoPath}]
    BY <1>0, <2>1 DEF SessionsTypeOK
  <2>3. CASE app' = "connect"
    <3>1. next_sock \in Socks /\ GetQpTo(c, p)
      BY <2>1, <2>3
    <3>2. backlog' \in Seq([s : Socks, p : Paths])
      BY <1>0, <3>1, SeqFacts DEF NetInv, GetQpTo
    <3> QED BY <1>0, <2>2, <2>3, <3>1, <3>2 DEF SessionsTypeOK, NetInv, GetQpTo
  <2>4. CASE app' = "open"
    <3>1. sock[c] \in Socks /\ Send(sock[c], Request("OPEN_FILE", p))
          /\ UNCHANGED <<sock, backlog, next_sock>>
      BY <2>1, <2>4
    <3>2. req' \in [Socks -> Seq(Requests)]
      BY <1>0, <3>1, SeqFacts DEF NetInv, Send, Request, Requests
    <3> QED BY <1>0, <2>2, <2>4, <3>1, <3>2 DEF SessionsTypeOK, NetInv
  <2> QED BY <2>1, <2>3, <2>4
<1>2. ASSUME NEW p \in Paths, NEW fd \in Fds, NEW trunc \in BOOLEAN, open(p, fd, trunc)
      PROVE  SessionsTypeOK' /\ NetInv'
  <2>1. /\ open_fds' \in [Fds -> Paths \cup {NoPath}] /\ files' \subseteq Paths
        /\ UNCHANGED <<csl_path_cli, idle_clients, busy_clients, file_size, seq, token,
                       zk_node, resp, closed, serverVars, restarts, leftover>>
    BY <1>0, <1>2 DEF open, SessionsTypeOK
  <2>2. CASE csl_path_cli[p] # NoClient
    <3>1. /\ csl_fd_cli' \in [Fds -> Clients \cup {NoClient}]
          /\ UNCHANGED <<cur, app, filename, sock, backlog, next_sock, req>>
      BY <1>0, <1>2, <2>2 DEF open, getClient, SessionsTypeOK
    <3> QED BY <1>0, <2>1, <3>1 DEF SessionsTypeOK, NetInv, serverVars
  <2>3. CASE csl_path_cli[p] = NoClient
    <3>1. GetClient(p, fd, ~trunc) /\ UNCHANGED csl_fd_cli /\ app = "idle"
      BY <1>2, <2>3 DEF open, getClient
    <3> QED BY <1>0, <1>1, <2>1, <2>3, <3>1 DEF SessionsTypeOK, NetInv, serverVars
  <2> QED BY <2>2, <2>3
<1>3. ASSUME NEW p \in Paths, stat(p) PROVE SessionsTypeOK' /\ NetInv'
  <2>1. GetClient(p, NoFd, TRUE) /\ csl_path_cli[p] = NoClient /\ app = "idle"
    BY <1>3 DEF stat
  <2> QED BY <1>0, <1>1, <1>3, <2>1 DEF stat, SessionsTypeOK, NetInv, serverVars
<1>4. ASSUME NEW p \in Paths, unlink(p) PROVE SessionsTypeOK' /\ NetInv'
  <2> DEFINE c == csl_path_cli[p]
  <2>1. CASE c = NoClient
    BY <1>0, <1>4, <2>1 DEF unlink, SessionsTypeOK, NetInv, callVars, serverVars
  <2>2. CASE c # NoClient
    <3>1. c \in Clients /\ c \in busy_clients /\ filename[c] = p /\ sock[c] \in Socks
      BY <2>2, OwnerFacts
    <3>2. RecycleClient(c) /\ csl_path_cli' = [csl_path_cli EXCEPT ![p] = NoClient]
      BY <1>4, <2>2 DEF unlink
    <3>3. req' \in [Socks -> Seq(Requests)]
      BY <1>0, <3>1, <3>2, SeqFacts DEF NetInv, RecycleClient, Send, Request, Requests
    <3>4. /\ busy_clients' \subseteq Clients /\ idle_clients' \subseteq Clients
          /\ filename' \in [Clients -> Paths \cup {NoPath}]
          /\ csl_path_cli' \in [Paths -> Clients \cup {NoClient}]
      BY <1>0, <3>1, <3>2 DEF SessionsTypeOK, RecycleClient
    <3> QED BY <1>0, <1>4, <3>3, <3>4 DEF unlink, SessionsTypeOK, NetInv, callVars, serverVars
  <2> QED BY <2>1, <2>2
<1>5. ASSUME NEW d \in Fds, write(d) PROVE SessionsTypeOK' /\ NetInv'
  <2>1. csl_fd_cli[d] \in Clients
    BY <1>0, <1>5 DEF write, SessionsTypeOK
  <2>2. /\ file_size' \in [Clients -> 0 .. 1] /\ seq' \in [Clients -> 0 .. 1]
        /\ mr_size' \in [MRs -> 0 .. 1] /\ mr_seq' \in [MRs -> 0 .. 1]
    BY <1>0, <1>5, <2>1 DEF write, SessionsTypeOK, NetInv, RemoteWrite
  <2> QED BY <1>0, <1>5, <2>2 DEF write, SessionsTypeOK, NetInv, fileVars, callVars, netVars
<1>6. ASSUME NEW d \in Fds, close(d) PROVE SessionsTypeOK' /\ NetInv'
  BY <1>0, <1>6 DEF close, SessionsTypeOK, NetInv, poolVars, callVars, netVars, serverVars
<1>7. ASSUME app # "idle", HandOut
      PROVE  /\ busy_clients' \subseteq Clients /\ idle_clients' \subseteq Clients
             /\ csl_path_cli' \in [Paths -> Clients \cup {NoClient}]
             /\ csl_fd_cli' \in [Fds -> Clients \cup {NoClient}]
             /\ app' \in {"idle", "connect", "open", "info"}
             /\ cur' \in [c : Clients \cup {NoClient}, p : Paths \cup {NoPath},
                          fd : Fds \cup {NoFd}, recover : BOOLEAN]
  <2>1. cur.c \in Clients /\ cur.p \in Paths /\ cur.fd \in Fds \cup {NoFd}
    BY <1>0, <1>7 DEF CallInv, SessionsTypeOK
  <2> QED BY <1>0, <1>7, <2>1 DEF HandOut, SessionsTypeOK, NoCall
<1>8. ASSUME app # "idle", resp[sock[cur.c]] # <<>>,
             resp' = [resp EXCEPT ![sock[cur.c]] = Tail(@)]
      PROVE  /\ cur.c \in Clients /\ cur.p \in Paths /\ sock[cur.c] \in Socks
             /\ Head(resp[sock[cur.c]]) \in Replies
             /\ resp' \in [Socks -> Seq(Replies)]
  <2>1. cur.c \in Clients /\ cur.p \in Paths /\ sock[cur.c] \in Socks
    BY <1>0, <1>8, MadeSocks DEF CallInv, Made
  <2> QED BY <1>0, <1>8, <2>1, SeqFacts DEF NetInv
<1>9. CASE ReceiveToken
  <2>0. app # "idle"
    BY <1>9 DEF ReceiveToken
  <2>1. /\ cur.c \in Clients /\ cur.p \in Paths /\ sock[cur.c] \in Socks
        /\ Head(resp[sock[cur.c]]) \in Replies
        /\ resp' \in [Socks -> Seq(Replies)]
    BY <1>8, <1>9, <2>0 DEF ReceiveToken
  <2>2. token' \in [Clients -> MRs \cup {NoMR}] /\ zk_node' \in BOOLEAN
    BY <1>0, <1>9, <2>1 DEF ReceiveToken, SessionsTypeOK, Replies
  <2>3. CASE cur.recover /\ (app = "open" \/ zk_node)
    <3>1. /\ app' = "info" /\ Send(sock[cur.c], Request("GET_INFO", cur.p))
          /\ UNCHANGED <<busy_clients, idle_clients, csl_path_cli, csl_fd_cli, cur>>
      BY <1>9, <2>3 DEF ReceiveToken
    <3>2. req' \in [Socks -> Seq(Requests)]
      BY <1>0, <2>1, <3>1, SeqFacts DEF NetInv, Send, Request, Requests
    <3> QED BY <1>0, <1>9, <2>1, <2>2, <3>1, <3>2 DEF ReceiveToken, SessionsTypeOK, NetInv, serverVars
  <2>4. CASE ~(cur.recover /\ (app = "open" \/ zk_node))
    <3>1. HandOut /\ UNCHANGED req
      BY <1>9, <2>4 DEF ReceiveToken
    <3> QED BY <1>0, <1>7, <1>9, <2>0, <2>1, <2>2, <3>1
            DEF ReceiveToken, SessionsTypeOK, NetInv, serverVars
  <2> QED BY <2>3, <2>4
<1>10. CASE TryRecover
  <2>0. app # "idle"
    BY <1>10 DEF TryRecover
  <2>1. /\ cur.c \in Clients /\ Head(resp[sock[cur.c]]) \in Replies
        /\ resp' \in [Socks -> Seq(Replies)]
    BY <1>8, <1>10, <2>0 DEF TryRecover
  <2>2. /\ file_size' \in [Clients -> 0 .. 1]
        /\ mr_size' \in [MRs -> 0 .. 1] /\ mr_seq' \in [MRs -> 0 .. 1]
    <3>1. PICK r \in InfoFrom(Head(resp[sock[cur.c]])) :
         IF r.seq # 0
         THEN /\ file_size' = IF r.size # 0 THEN [file_size EXCEPT ![cur.c] = r.size]
                              ELSE file_size
              /\ UNCHANGED <<mr_size, mr_seq>>
         ELSE /\ mr_size' \in IF file_size[cur.c] = 0 THEN {mr_size}
                              ELSE {mr_size, RemoteWrite(mr_size, cur.c, 0)}
              /\ mr_seq' = RemoteWrite(mr_seq, cur.c, 0)
              /\ UNCHANGED file_size
      BY <1>10 DEF TryRecover
    <3>2. r.size \in 0 .. 1
      BY <2>1 DEF InfoFrom, Replies
    <3>3. CASE r.seq # 0
      BY <1>0, <2>1, <3>1, <3>2, <3>3 DEF SessionsTypeOK, NetInv
    <3>4. CASE r.seq = 0
      <4>1. /\ mr_size' = mr_size \/ mr_size' = RemoteWrite(mr_size, cur.c, 0)
            /\ mr_seq' = RemoteWrite(mr_seq, cur.c, 0)
            /\ UNCHANGED file_size
        BY <3>1, <3>4
      <4> QED BY <1>0, <4>1 DEF SessionsTypeOK, NetInv, RemoteWrite
    <3> QED BY <3>3, <3>4
  <2>3. HandOut
    BY <1>10 DEF TryRecover
  <2> QED BY <1>0, <1>7, <1>10, <2>0, <2>1, <2>2, <2>3 DEF TryRecover, SessionsTypeOK, NetInv
<1>11. ASSUME NEW exits \in BOOLEAN, ProcessEnd(exits) PROVE SessionsTypeOK' /\ NetInv'
  <2>1. req' \in [Socks -> Seq(Requests)]
    BY <1>11, ProcessEndReq
  <2>2. resp' \in [Socks -> Seq(Replies)]
    BY <1>11, EmptySeq DEF ProcessEnd
  <2>3. restarts' \in 0 .. MaxRestarts
    BY <1>0, <1>11 DEF ProcessEnd, NetInv
  <2> QED BY <1>0, <1>11, <2>1, <2>2, <2>3 DEF ProcessEnd, SessionsTypeOK, NetInv, NoCall, serverVars
<1>12. ASSUME NEW s, NEW r \in Replies, Reply(s, r) PROVE resp' \in [Socks -> Seq(Replies)]
  <2>1. CASE s \in closed
    BY <1>0, <1>12, <2>1 DEF Reply, NetInv
  <2>2. CASE s \notin closed
    <3>1. resp' = [resp EXCEPT ![s] = Append(@, r)]
      BY <1>12, <2>2 DEF Reply
    <3>2. \A t \in Socks : Append(resp[t], r) \in Seq(Replies)
      BY <1>0, SeqFacts DEF NetInv
    <3> QED BY <1>0, <3>1, <3>2 DEF NetInv
  <2> QED BY <2>1, <2>2
<1>13. CASE handleIncomingConnection
  <2> DEFINE s == Head(backlog).s
             p == Head(backlog).p
  <2>1. s \in Socks /\ p \in Paths /\ backlog' \in Seq([s : Socks, p : Paths])
    <3>1. Head(backlog) \in [s : Socks, p : Paths] /\ Tail(backlog) \in Seq([s : Socks, p : Paths])
      BY <1>0, <1>13, SeqFacts DEF NetInv, handleIncomingConnection
    <3> QED BY <1>13, <3>1 DEF handleIncomingConnection
  <2>2. CASE local_cons[p] = NoCon
    <3>1. PICK m \in GetMRofSize :
                  /\ free_mrs' = free_mrs \ {m}
                  /\ mr_size' = [mr_size EXCEPT ![m] = 0]
                  /\ mr_seq' = [mr_seq EXCEPT ![m] = 0]
                  /\ local_cons' = [local_cons EXCEPT ![p] = [mr |-> m, sock |-> s]]
                  /\ existing_qps' = existing_qps \cup {s}
                  /\ Reply(s, TokenReply(m))
      BY <1>13, <2>2 DEF handleIncomingConnection
    <3>2. m \in MRs
      BY FreeMR
    <3>3. TokenReply(m) \in Replies
      BY <3>2 DEF TokenReply, Replies
    <3>4. resp' \in [Socks -> Seq(Replies)]
      BY <1>12, <3>1, <3>3
    <3>5. /\ local_cons' \in [Paths -> [mr : MRs \cup {NoMR}, sock : {0} \cup Socks]]
          /\ \A q \in Paths : local_cons'[q] # NoCon => local_cons'[q].mr \in MRs
      BY <1>0, <2>1, <3>1, <3>2 DEF SessionsTypeOK, NetInv
    <3>6. free_mrs' \subseteq MRs /\ existing_qps' \subseteq Socks
      BY <1>0, <2>1, <3>1 DEF SessionsTypeOK
    <3>7. mr_size' \in [MRs -> 0 .. 1] /\ mr_seq' \in [MRs -> 0 .. 1]
      BY <1>0, <3>1, ZeroMR DEF NetInv
    <3> QED BY <1>0, <1>13, <2>1, <3>4, <3>5, <3>6, <3>7
            DEF handleIncomingConnection, SessionsTypeOK, NetInv, NoCon, fileVars, poolVars, callVars
  <2>3. CASE local_cons[p] # NoCon
    <3>1. /\ local_cons' = [local_cons EXCEPT ![p].sock = s]
          /\ existing_qps' = (existing_qps \ {local_cons[p].sock}) \cup {s}
          /\ Reply(s, TokenReply(local_cons[p].mr))
          /\ UNCHANGED <<free_mrs, mr_size, mr_seq>>
      BY <1>13, <2>3 DEF handleIncomingConnection
    <3>2. local_cons[p].mr \in MRs
      BY <1>0, <2>1, <2>3 DEF NetInv
    <3>3. TokenReply(local_cons[p].mr) \in Replies
      BY <3>2 DEF TokenReply, Replies
    <3>4. resp' \in [Socks -> Seq(Replies)]
      BY <1>12, <3>1, <3>3
    <3>5. /\ local_cons' \in [Paths -> [mr : MRs \cup {NoMR}, sock : {0} \cup Socks]]
          /\ \A q \in Paths : local_cons'[q] # NoCon => local_cons'[q].mr \in MRs
      <4> DEFINE con == [local_cons[p] EXCEPT !.sock = s]
      <4>1. local_cons \in [Paths -> [mr : MRs \cup {NoMR}, sock : {0} \cup Socks]]
        BY <1>0 DEF SessionsTypeOK
      <4>2. local_cons[p] \in [mr : MRs \cup {NoMR}, sock : {0} \cup Socks]
        BY <2>1, <4>1
      <4>3. con \in [mr : MRs \cup {NoMR}, sock : {0} \cup Socks] /\ con.mr \in MRs
        BY <2>1, <3>2, <4>2
      <4>4. local_cons' = [local_cons EXCEPT ![p] = con]
        BY <3>1
      <4> HIDE DEF con
      <4>5. local_cons' \in [Paths -> [mr : MRs \cup {NoMR}, sock : {0} \cup Socks]]
        BY <4>1, <4>3, <4>4
      <4>6. \A q \in Paths : local_cons'[q] = IF q = p THEN con ELSE local_cons[q]
        BY <4>1, <4>4
      <4>7. \A q \in Paths : local_cons[q] # NoCon => local_cons[q].mr \in MRs
        BY <1>0 DEF NetInv
      <4>8. \A q \in Paths : local_cons'[q] # NoCon => local_cons'[q].mr \in MRs
        BY <4>3, <4>6, <4>7
      <4> QED BY <4>5, <4>8
    <3>6. existing_qps' \subseteq Socks
      BY <1>0, <2>1, <3>1 DEF SessionsTypeOK
    <3> QED BY <1>0, <1>13, <2>1, <3>1, <3>4, <3>5, <3>6
            DEF handleIncomingConnection, SessionsTypeOK, NetInv, NoCon, fileVars, poolVars, callVars
  <2> QED BY <2>2, <2>3
<1>14. ASSUME NEW s \in Socks, handleClientRequest(s) PROVE SessionsTypeOK' /\ NetInv'
  <2> DEFINE r == Head(req[s])
  <2>1. r \in Requests /\ req' \in [Socks -> Seq(Requests)]
    <3>1. req[s] \in Seq(Requests) /\ req[s] # <<>> /\ req' = [req EXCEPT ![s] = Tail(@)]
      BY <1>0, <1>14 DEF NetInv, handleClientRequest
    <3>2. Head(req[s]) \in Requests /\ Tail(req[s]) \in Seq(Requests)
      BY <3>1, SeqFacts
    <3> QED BY <1>0, <3>1, <3>2 DEF NetInv
  <2>2. r.p \in Paths
    BY <2>1 DEF Requests
  <2>3. UNCHANGED <<fileVars, poolVars, callVars, backlog, next_sock, closed, restarts>>
    BY <1>14 DEF handleClientRequest
  <2> DEFINE p == r.p
  <2> SUFFICES /\ resp' \in [Socks -> Seq(Replies)]
               /\ server_up' \in BOOLEAN
               /\ local_cons' \in [Paths -> [mr : MRs \cup {NoMR}, sock : {0} \cup Socks]]
               /\ \A q \in Paths : local_cons'[q] # NoCon => local_cons'[q].mr \in MRs
               /\ existing_qps' \subseteq Socks /\ free_mrs' \subseteq MRs
               /\ mr_size' \in [MRs -> 0 .. 1] /\ mr_seq' \in [MRs -> 0 .. 1]
    BY <1>0, <2>1, <2>3 DEF SessionsTypeOK, NetInv, NoCon, fileVars, poolVars, callVars
  <2>4. CASE UNCHANGED serverVars /\ \E u : \E x \in Replies : Reply(u, x)
    BY <1>0, <1>12, <2>4 DEF SessionsTypeOK, NetInv, serverVars
  <2>5. CASE OpenFile(s, p)
    <3>1. CASE local_cons[p] # NoCon
      <4>1. Reply(local_cons[p].sock, TokenReply(local_cons[p].mr)) /\ UNCHANGED serverVars
        BY <2>5, <3>1 DEF OpenFile
      <4>2. TokenReply(local_cons[p].mr) \in Replies
        BY <1>0, <2>2 DEF SessionsTypeOK, TokenReply, Replies
      <4> QED BY <2>4, <4>1, <4>2
    <3>2. CASE local_cons[p] = NoCon
      <4>1. PICK m \in GetMRofSize :
           /\ free_mrs' = free_mrs \ {m}
           /\ local_cons' = [local_cons EXCEPT ![p] = [mr |-> m, sock |-> s]]
           /\ Reply(s, TokenReply(m))
           /\ UNCHANGED <<server_up, existing_qps, mr_size, mr_seq>>
        BY <2>5, <3>2 DEF OpenFile
      <4>2. m \in MRs
        BY FreeMR
      <4>3. TokenReply(m) \in Replies
        BY <4>2 DEF TokenReply, Replies
      <4>4. resp' \in [Socks -> Seq(Replies)]
        BY <1>12, <4>1, <4>3
      <4> QED BY <1>0, <2>2, <4>1, <4>2, <4>4 DEF SessionsTypeOK, NetInv
    <3> QED BY <3>1, <3>2
  <2>6. CASE CloseFile(p)
    <3>1. CASE local_cons[p] = NoCon
      BY <1>0, <2>6, <3>1 DEF CloseFile, SessionsTypeOK, NetInv, serverVars
    <3>2. CASE local_cons[p] # NoCon
      <4>1. /\ RecycleMR(local_cons[p].mr)
            /\ local_cons' = [local_cons EXCEPT ![p] = NoCon]
            /\ UNCHANGED <<server_up, existing_qps, resp>>
        BY <2>6, <3>2 DEF CloseFile
      <4>2. local_cons[p].mr \in MRs
        BY <1>0, <2>2, <3>2 DEF NetInv
      <4>3. mr_size' \in [MRs -> 0 .. 1] /\ mr_seq' \in [MRs -> 0 .. 1]
        BY <1>0, <4>1, ZeroMR DEF NetInv, RecycleMR
      <4>4. /\ local_cons' \in [Paths -> [mr : MRs \cup {NoMR}, sock : {0} \cup Socks]]
            /\ \A q \in Paths : local_cons'[q] # NoCon => local_cons'[q].mr \in MRs
        BY <1>0, <2>2, <4>1 DEF SessionsTypeOK, NetInv, NoCon
      <4> QED BY <1>0, <4>1, <4>2, <4>3, <4>4 DEF SessionsTypeOK, NetInv, RecycleMR
    <3> QED BY <3>1, <3>2
  <2>7. CASE ExitProc(s)
    BY <1>0, <2>7 DEF ExitProc, SessionsTypeOK, NetInv
  <2>8. CASE GetInfo(p)
    <3>1. CASE local_cons[p] = NoCon
      BY <1>0, <2>8, <3>1 DEF GetInfo, SessionsTypeOK, NetInv
    <3>2. CASE local_cons[p] # NoCon
      <4>1. Reply(local_cons[p].sock, InfoReply(local_cons[p].mr)) /\ UNCHANGED serverVars
        BY <2>8, <3>2 DEF GetInfo
      <4>2. InfoReply(local_cons[p].mr) \in Replies
        BY <1>0, <2>2, <3>2 DEF NetInv, InfoReply, Replies
      <4> QED BY <2>4, <4>1, <4>2
    <3> QED BY <3>1, <3>2
  <2> QED BY <1>14, <2>5, <2>6, <2>7, <2>8 DEF handleClientRequest
<1>15. ASSUME NEW s \in Socks, Disconnected(s) PROVE SessionsTypeOK' /\ NetInv'
  BY <1>0, <1>15 DEF Disconnected, SessionsTypeOK, NetInv, fileVars, poolVars, callVars, netVars
<1>16. CASE UNCHANGED sessionVars
  BY <1>0, <1>16 DEF sessionVars, SessionsTypeOK, NetInv, fileVars, poolVars, callVars, netVars, serverVars
<1> QED BY <1>2, <1>3, <1>4, <1>5, <1>6, <1>9, <1>10, <1>11, <1>13, <1>14, <1>15, <1>16
        DEF SessionsNext

\* Clients, their paths and their sockets.
LEMMA PoolStep ==
    SessionsInv /\ [SessionsNext]_sessionVars => MadeInv' /\ CallInv' /\ OwnerInv'
<1> SUFFICES ASSUME SessionsInv, [SessionsNext]_sessionVars PROVE MadeInv' /\ CallInv' /\ OwnerInv'
  OBVIOUS
<1> USE SessionsAssumption
<1> DEFINE K == Cardinality(Paths)
<1>0. SessionsTypeOK /\ NetInv /\ MadeInv /\ CallInv /\ OwnerInv
  BY DEF SessionsInv
<1>1. K \in Nat /\ K * restarts \in Nat
  <2>1. K \in Nat
    BY FS_CardinalityType
  <2>2. restarts \in Nat
    BY <1>0 DEF NetInv
  <2> QED BY <2>1, <2>2
<1>2. PICK n \in 0 .. K :
         /\ Made = 0 .. n - 1
         /\ next_sock <= K * restarts + n + 1
         /\ \A c \in Made : sock[c] \in 1 .. next_sock - 1
  BY <1>0 DEF MadeInv
<1> HIDE DEF K
\* The steps that leave pool and tables alone.
<1>3. ASSUME UNCHANGED <<idle_clients, busy_clients, app, cur, next_sock, restarts, sock,
                         filename, csl_path_cli>>
      PROVE  MadeInv' /\ CallInv' /\ OwnerInv'
  <2>1. UNCHANGED Made
    BY <1>3 DEF Made
  <2>2. MadeInv'
    BY <1>2, <1>3, <2>1 DEF MadeInv, K
  <2> QED BY <1>0, <1>3, <2>2 DEF CallInv, OwnerInv
\* The steps that keep the set of clients that have been made.
<1>4. ASSUME Made' = Made, UNCHANGED <<next_sock, restarts, sock>> PROVE MadeInv'
  BY <1>2, <1>4 DEF MadeInv, K
<1>5. ASSUME NEW p \in Paths, NEW fd, NEW rec, app = "idle", csl_path_cli[p] = NoClient,
             GetClient(p, fd, rec),
             UNCHANGED <<idle_clients, busy_clients, csl_path_cli, restarts>>
      PROVE  MadeInv' /\ CallInv' /\ OwnerInv'
  <2>1. PICK c \in Clients \ busy_clients :
              /\ cur' = [c |-> c, p |-> p, fd |-> fd, recover |-> rec]
              /\ filename' = [filename EXCEPT ![c] = p]
              /\ \/ /\ idle_clients = {} /\ app' = "connect" /\ c = Cardinality(busy_clients)
                    /\ next_sock \in Socks /\ GetQpTo(c, p)
                 \/ /\ c \in idle_clients /\ app' = "open" /\ sock[c] \in Socks
                    /\ Send(sock[c], Request("OPEN_FILE", p))
                    /\ UNCHANGED <<sock, backlog, next_sock>>
    BY <1>5, GetClientFacts
  <2>2. app' # "idle" /\ cur'.c = c /\ cur'.p = p
    BY <2>1
  <2>3. filename'[c] = p /\ \A b \in busy_clients : filename'[b] = filename[b]
    BY <1>0, <2>1 DEF SessionsTypeOK
  <2>4. CallInv'
    BY <1>5, <2>1, <2>2, <2>3 DEF CallInv
  <2>5. OwnerInv'
    BY <1>0, <1>5, <2>3 DEF OwnerInv
  <2>6. MadeInv'
    <3>0. Made = idle_clients \cup busy_clients /\ Made' = idle_clients \cup busy_clients \cup {c}
      BY <1>5, <2>2 DEF Made
    <3>1. CASE app' = "open"
      <4>1. c \in idle_clients /\ UNCHANGED <<sock, next_sock>>
        BY <2>1, <3>1
      <4>2. Made' = Made
        BY <3>0, <4>1
      <4> QED BY <1>4, <1>5, <4>1, <4>2
    <3>2. CASE app' = "connect"
      <4>1. idle_clients = {} /\ c = Cardinality(busy_clients) /\ GetQpTo(c, p)
        BY <2>1, <3>2
      <4>2. /\ busy_clients = 0 .. c - 1 /\ next_sock <= K * restarts + c + 1
            /\ \A b \in busy_clients : sock[b] \in 1 .. next_sock - 1
        BY <1>5, <4>1, NewClient DEF K
      <4>3. c \in 0 .. K - 1
        BY <2>1 DEF Clients, K
      <4>4. next_sock \in Nat \ {0} /\ next_sock' = next_sock + 1 /\ sock' = [sock EXCEPT ![c] = next_sock]
        BY <1>0, <4>1 DEF NetInv, GetQpTo
      <4>5. Made' = 0 .. (c + 1) - 1
        <5>1. \A x : x \in Made' <=> x \in 0 .. c - 1 \/ x = c
          BY <3>0, <4>1, <4>2
        <5>2. \A x : x \in 0 .. (c + 1) - 1 <=> x \in 0 .. c - 1 \/ x = c
          BY <4>3, <1>1
        <5> QED BY <5>1, <5>2
      <4>6. next_sock' <= K * restarts' + (c + 1) + 1
        <5> DEFINE kr == K * restarts
        <5>1. kr \in Nat /\ K * restarts' = kr /\ next_sock <= kr + c + 1
          BY <1>1, <1>5, <4>2
        <5> HIDE DEF kr
        <5> QED BY <4>3, <4>4, <5>1
      <4>7. ASSUME NEW b \in Made' PROVE sock'[b] \in 1 .. next_sock' - 1
        <5>1. CASE b = c
          BY <1>0, <2>1, <4>4, <5>1 DEF SessionsTypeOK
        <5>2. CASE b # c
          <6>1. b \in busy_clients /\ b \in Clients
            BY <1>0, <3>0, <4>1, <4>7, <5>2 DEF SessionsTypeOK
          <6>2. sock'[b] = sock[b] /\ sock[b] \in 1 .. next_sock - 1
            BY <1>0, <4>2, <4>4, <5>2, <6>1 DEF SessionsTypeOK
          <6> QED BY <4>4, <6>2
        <5> QED BY <5>1, <5>2
      <4>8. c + 1 \in 0 .. K
        BY <1>1, <4>3
      <4> QED BY <4>5, <4>6, <4>7, <4>8 DEF MadeInv, K
    <3> QED BY <2>1, <3>1, <3>2
  <2> QED BY <2>4, <2>5, <2>6
<1>6. ASSUME NEW p \in Paths, NEW fd \in Fds, NEW trunc \in BOOLEAN, open(p, fd, trunc)
      PROVE  MadeInv' /\ CallInv' /\ OwnerInv'
  <2>1. CASE csl_path_cli[p] # NoClient
    BY <1>3, <1>6, <2>1 DEF open, getClient
  <2>2. CASE csl_path_cli[p] = NoClient
    BY <1>5, <1>6, <2>2 DEF open, getClient
  <2> QED BY <2>1, <2>2
<1>7. ASSUME NEW p \in Paths, stat(p) PROVE MadeInv' /\ CallInv' /\ OwnerInv'
  BY <1>5, <1>7 DEF stat
<1>8. ASSUME NEW p \in Paths, unlink(p) PROVE MadeInv' /\ CallInv' /\ OwnerInv'
  <2> DEFINE c == csl_path_cli[p]
  <2>1. CASE c = NoClient
    BY <1>3, <1>8, <2>1 DEF unlink, callVars
  <2>2. CASE c # NoClient
    <3>1. c \in Clients /\ c \in busy_clients /\ filename[c] = p
      BY <2>2, OwnerFacts
    <3>2. /\ busy_clients' = busy_clients \ {c} /\ idle_clients' = idle_clients \cup {c}
          /\ filename' = [filename EXCEPT ![c] = NoPath]
          /\ csl_path_cli' = [csl_path_cli EXCEPT ![p] = NoClient]
          /\ UNCHANGED <<app, cur, next_sock, restarts, sock>> /\ app = "idle"
      BY <1>8, <2>2 DEF unlink, RecycleClient, callVars
    <3>3. Made' = Made
      BY <3>1, <3>2 DEF Made
    <3>4. MadeInv'
      BY <1>4, <3>2, <3>3
    <3>5. CallInv'
      BY <1>0, <3>2 DEF CallInv
    <3>6. ASSUME NEW b \in busy_clients' PROVE filename'[b] \in Paths /\ csl_path_cli'[filename'[b]] = b
      <4>1. b \in busy_clients /\ b # c /\ b \in Clients
        BY <1>0, <3>2, <3>6 DEF SessionsTypeOK
      <4>2. filename'[b] = filename[b] /\ filename[b] # p
        BY <1>0, <3>1, <3>2, <4>1 DEF SessionsTypeOK, OwnerInv
      <4> QED BY <1>0, <3>2, <4>1, <4>2 DEF SessionsTypeOK, OwnerInv
    <3>7. ASSUME NEW q \in Paths, csl_path_cli'[q] # NoClient
          PROVE  csl_path_cli'[q] \in busy_clients' /\ filename'[csl_path_cli'[q]] = q
      <4>1. q # p /\ csl_path_cli'[q] = csl_path_cli[q]
        BY <1>0, <3>2, <3>7 DEF SessionsTypeOK
      <4>2. csl_path_cli[q] \in busy_clients /\ filename[csl_path_cli[q]] = q
        BY <1>0, <3>7, <4>1 DEF OwnerInv
      <4>3. csl_path_cli[q] # c
        BY <3>1, <4>1, <4>2
      <4> QED BY <1>0, <3>2, <4>1, <4>2, <4>3 DEF SessionsTypeOK
    <3>8. idle_clients' \cap busy_clients' = {}
      BY <1>0, <3>2 DEF OwnerInv
    <3> QED BY <3>4, <3>5, <3>6, <3>7, <3>8 DEF OwnerInv
  <2> QED BY <2>1, <2>2
<1>9. ASSUME app # "idle", HandOut, UNCHANGED <<filename, sock, next_sock, restarts>>
      PROVE  MadeInv' /\ CallInv' /\ OwnerInv'
  <2>1. /\ cur.c \in Clients /\ cur.c \notin busy_clients /\ cur.p \in Paths
        /\ csl_path_cli[cur.p] = NoClient /\ filename[cur.c] = cur.p
    BY <1>0, <1>9 DEF CallInv
  <2> DEFINE c == cur.c
             p == cur.p
  <2>2. /\ busy_clients' = busy_clients \cup {c} /\ idle_clients' = idle_clients \ {c}
        /\ csl_path_cli' = [csl_path_cli EXCEPT ![p] = c]
        /\ app' = "idle" /\ cur' = NoCall
    BY <1>9 DEF HandOut
  <2>3. Made' = Made
    BY <1>9, <2>2 DEF Made
  <2>4. MadeInv'
    BY <1>4, <1>9, <2>3
  <2>5. CallInv'
    BY <2>2 DEF CallInv
  <2>6. c # NoClient
    BY <2>1 DEF Clients
  <2>7. csl_path_cli'[p] = c /\ \A q \in Paths \ {p} : csl_path_cli'[q] = csl_path_cli[q]
    BY <1>0, <2>1, <2>2 DEF SessionsTypeOK
  <2> HIDE DEF c, p
  <2>8. \A b \in busy_clients : b # NoClient
    BY <1>0 DEF SessionsTypeOK, Clients
  <2>9. c \notin busy_clients /\ p \in Paths /\ csl_path_cli[p] = NoClient /\ filename[c] = p
    BY <2>1 DEF c, p
  <2>10. OwnerInv'
    BY <1>0, <1>9, <2>2, <2>6, <2>7, <2>8, <2>9 DEF OwnerInv
  <2> QED BY <2>4, <2>5, <2>10
<1>10. CASE ReceiveToken
  <2>1. app \in {"connect", "open"} /\ UNCHANGED <<filename, sock, next_sock, restarts>>
    BY <1>10 DEF ReceiveToken
  <2>2. CASE HandOut
    BY <1>9, <2>1, <2>2
  <2>3. CASE ~HandOut
    <3>1. app' = "info" /\ UNCHANGED <<busy_clients, idle_clients, csl_path_cli, cur>>
      BY <1>10, <2>3 DEF ReceiveToken
    <3>2. Made' = Made
      BY <2>1, <3>1 DEF Made
    <3>3. MadeInv'
      BY <1>4, <2>1, <3>2
    <3> QED BY <1>0, <2>1, <3>1, <3>3 DEF CallInv, OwnerInv
  <2> QED BY <2>2, <2>3
<1>11. CASE TryRecover
  BY <1>9, <1>11 DEF TryRecover
<1>12. ASSUME NEW exits \in BOOLEAN, ProcessEnd(exits) PROVE MadeInv' /\ CallInv' /\ OwnerInv'
  <2>1. /\ idle_clients' = {} /\ busy_clients' = {} /\ app' = "idle" /\ cur' = NoCall
        /\ csl_path_cli' = [q \in Paths |-> NoClient] /\ UNCHANGED next_sock
        /\ restarts' = restarts + 1
    BY <1>12 DEF ProcessEnd
  <2>2. Made' = {}
    BY <2>1 DEF Made
  <2>3. next_sock <= K * (restarts + 1) + 0 + 1
    <3>1. K * (restarts + 1) = K * restarts + K
      BY <1>0, <1>1 DEF NetInv
    <3> DEFINE kr == K * restarts
    <3>2. kr \in Nat /\ K * (restarts + 1) = kr + K /\ next_sock <= kr + n + 1
      BY <1>1, <1>2, <3>1
    <3>3. next_sock \in Nat
      BY <1>0 DEF NetInv
    <3> HIDE DEF kr
    <3> QED BY <1>1, <1>2, <3>2, <3>3
  <2>4. Made' = 0 .. 0 - 1 /\ 0 \in 0 .. K
    BY <1>1, <2>2
  <2>5. MadeInv'
    BY <2>1, <2>2, <2>3, <2>4 DEF MadeInv, K
  <2> QED BY <2>1, <2>5 DEF CallInv, OwnerInv
<1>13. ASSUME NEW d \in Fds, write(d) \/ close(d) PROVE MadeInv' /\ CallInv' /\ OwnerInv'
  BY <1>3, <1>13 DEF write, close, fileVars, poolVars, callVars, netVars
<1>14. CASE handleIncomingConnection
  BY <1>3, <1>14 DEF handleIncomingConnection, fileVars, poolVars, callVars
<1>15. ASSUME NEW s \in Socks, handleClientRequest(s) \/ Disconnected(s)
       PROVE  MadeInv' /\ CallInv' /\ OwnerInv'
  BY <1>3, <1>15 DEF handleClientRequest, Disconnected, fileVars, poolVars, callVars, netVars
<1>16. CASE UNCHANGED sessionVars
  BY <1>3, <1>16 DEF sessionVars, fileVars, poolVars, callVars, netVars
<1> QED BY <1>6, <1>7, <1>8, <1>10, <1>11, <1>12, <1>13, <1>14, <1>15, <1>16 DEF SessionsNext

\* A region goes from the free ones, or from those no file has, to a file, and
\* from a file that loses it to the free ones.
LEMMA MRsStep == SessionsInv /\ [SessionsNext]_sessionVars => MRsDisjoint'
<1> SUFFICES ASSUME SessionsInv, [SessionsNext]_sessionVars PROVE MRsDisjoint'
  OBVIOUS
<1> USE SessionsAssumption
<1>0. SessionsTypeOK /\ NetInv /\ MRsDisjoint
  BY DEF SessionsInv
<1>1. ASSUME UNCHANGED <<local_cons, free_mrs>> PROVE MRsDisjoint'
  BY <1>0, <1>1 DEF MRsDisjoint, NoCon
<1>2. ASSUME NEW p \in Paths, NEW s, NEW m \in GetMRofSize, free_mrs' = free_mrs \ {m},
             local_cons' = [local_cons EXCEPT ![p] = [mr |-> m, sock |-> s]]
      PROVE  MRsDisjoint'
  <2>1. m \in MRs /\ \A q \in Paths : local_cons[q].mr # m
    BY FreeMR
  <2>2. /\ local_cons'[p].mr = m /\ m \notin free_mrs'
        /\ \A q \in Paths \ {p} : local_cons'[q] = local_cons[q]
    BY <1>0, <1>2 DEF SessionsTypeOK
  <2> QED BY <1>0, <1>2, <2>1, <2>2 DEF MRsDisjoint, NoCon
<1>3. CASE handleIncomingConnection
  <2> DEFINE s == Head(backlog).s
             p == Head(backlog).p
  <2>1. p \in Paths
    <3>1. Head(backlog) \in [s : Socks, p : Paths]
      BY <1>0, <1>3, SeqFacts DEF NetInv, handleIncomingConnection
    <3> QED BY <3>1
  <2>2. CASE local_cons[p] = NoCon
    <3>1. PICK m \in GetMRofSize :
                  /\ free_mrs' = free_mrs \ {m}
                  /\ local_cons' = [local_cons EXCEPT ![p] = [mr |-> m, sock |-> s]]
      BY <1>3, <2>2 DEF handleIncomingConnection
    <3> HIDE DEF s, p
    <3> QED BY <1>2, <2>1, <3>1
  <2>3. CASE local_cons[p] # NoCon
    <3>1. local_cons' = [local_cons EXCEPT ![p].sock = s] /\ UNCHANGED free_mrs
      BY <1>3, <2>3 DEF handleIncomingConnection
    <3> HIDE DEF s, p
    <3>2. \A q \in Paths : local_cons'[q].mr = local_cons[q].mr
      BY <1>0, <2>1, <3>1 DEF SessionsTypeOK
    <3>3. \A q \in Paths : local_cons'[q] # NoCon => local_cons[q] # NoCon
      BY <1>0, <2>1, <2>3, <3>1 DEF SessionsTypeOK
    <3> QED BY <1>0, <3>1, <3>2, <3>3 DEF MRsDisjoint, NoCon
  <2> QED BY <2>2, <2>3
<1>4. ASSUME NEW s \in Socks, handleClientRequest(s) PROVE MRsDisjoint'
  <2> DEFINE p == Head(req[s]).p
  <2>1. p \in Paths
    <3>1. req[s] \in Seq(Requests) /\ req[s] # <<>>
      BY <1>0, <1>4 DEF NetInv, handleClientRequest
    <3>2. Head(req[s]) \in Requests
      BY <3>1, SeqFacts
    <3> QED BY <3>2 DEF Requests
  <2>2. OpenFile(s, p) \/ CloseFile(p) \/ UNCHANGED <<local_cons, free_mrs>>
    BY <1>4 DEF handleClientRequest, ExitProc, GetInfo, serverVars
  <2> HIDE DEF p
  <2>3. CASE OpenFile(s, p)
    <3>1. CASE local_cons[p] # NoCon
      BY <1>1, <2>3, <3>1 DEF OpenFile, serverVars
    <3>2. CASE local_cons[p] = NoCon
      BY <1>2, <2>1, <2>3, <3>2 DEF OpenFile
    <3> QED BY <3>1, <3>2
  <2>4. CASE CloseFile(p)
    <3>1. CASE local_cons[p] = NoCon
      BY <1>1, <2>4, <3>1 DEF CloseFile, serverVars
    <3>2. CASE local_cons[p] # NoCon
      <4>1. /\ free_mrs' = free_mrs \cup {local_cons[p].mr}
            /\ local_cons' = [local_cons EXCEPT ![p] = NoCon]
        BY <2>4, <3>2 DEF CloseFile, RecycleMR
      <4>2. local_cons'[p] = NoCon /\ \A q \in Paths \ {p} : local_cons'[q] = local_cons[q]
        BY <1>0, <2>1, <4>1 DEF SessionsTypeOK
      <4>3. \A q \in Paths : local_cons[q] # NoCon => local_cons[q].mr # NoMR
        BY <1>0 DEF NetInv
      <4>4. NoCon.mr = NoMR
        BY DEF NoCon
      <4> QED BY <1>0, <2>1, <3>2, <4>1, <4>2, <4>3, <4>4 DEF MRsDisjoint
    <3> QED BY <3>1, <3>2
  <2> QED BY <1>1, <2>2, <2>3, <2>4
<1>5. ASSUME NEW p \in Paths,
             (\E fd \in Fds, trunc \in BOOLEAN : open(p, fd, trunc)) \/ stat(p) \/ unlink(p)
      PROVE  MRsDisjoint'
  BY <1>1, <1>5 DEF open, stat, unlink, serverVars
<1>6. ASSUME NEW d \in Fds, write(d) \/ close(d) PROVE MRsDisjoint'
  BY <1>1, <1>6 DEF write, close, serverVars
<1>7. CASE ReceiveToken \/ TryRecover
  BY <1>1, <1>7 DEF ReceiveToken, TryRecover, serverVars
<1>8. CASE \E exits \in BOOLEAN : ProcessEnd(exits)
  BY <1>1, <1>8 DEF ProcessEnd, serverVars
<1>9. ASSUME NEW s \in Socks, Disconnected(s) PROVE MRsDisjoint'
  BY <1>1, <1>9 DEF Disconnected
<1>10. CASE UNCHANGED sessionVars
  BY <1>1, <1>10 DEF sessionVars, serverVars
<1> QED BY <1>3, <1>4, <1>5, <1>6, <1>7, <1>8, <1>9, <1>10 DEF SessionsNext

-----------------------------------------------------------------------------
(* The theorems about the pool and the regions. *)

\* The start of the first process has the inductive invariant.
LEMMA SessionsInitial == SessionsInit => SessionsInv
<1> SUFFICES ASSUME SessionsInit PROVE SessionsInv
  OBVIOUS
<1> USE SessionsAssumption DEF SessionsInit
<1>1. SessionsTypeOK
  <2>1. /\ cur \in [c : Clients \cup {NoClient}, p : Paths \cup {NoPath},
                   fd : Fds \cup {NoFd}, recover : BOOLEAN]
        /\ local_cons \in [Paths -> [mr : MRs \cup {NoMR}, sock : {0} \cup Socks]]
    BY DEF NoCall, NoCon
  <2>2. file_size \in [Clients -> 0 .. 1] /\ seq \in [Clients -> 0 .. 1]
    OBVIOUS
  <2> QED BY <2>1, <2>2 DEF SessionsTypeOK
<1>2. NetInv
  <2>1. req \in [Socks -> Seq(Requests)] /\ resp \in [Socks -> Seq(Replies)]
        /\ backlog \in Seq([s : Socks, p : Paths])
    BY EmptySeq
  <2>2. mr_size \in [MRs -> 0 .. 1] /\ mr_seq \in [MRs -> 0 .. 1]
    OBVIOUS
  <2> QED BY <2>1, <2>2 DEF NetInv
<1>3. MadeInv
  <2>1. Cardinality(Paths) \in Nat
    BY FS_CardinalityType
  <2>2. Made = 0 .. 0 - 1 /\ \A c \in Made : FALSE
    BY DEF Made
  <2>3. 1 <= Cardinality(Paths) * 0 + 0 + 1
    BY <2>1
  <2> QED BY <2>1, <2>2, <2>3 DEF MadeInv
<1>4. CallInv /\ OwnerInv /\ MRsDisjoint
  BY DEF CallInv, OwnerInv, MRsDisjoint
<1> QED BY <1>1, <1>2, <1>3, <1>4 DEF SessionsInv

\* SessionsInv holds in every state that open, stat, unlink, exits, crashes and
\* the server (csl.cc, client_pool.cc, server.cc, mr_pool.cc) can reach.
THEOREM SessionsInductive == SessionsSpec => []SessionsInv
<1>1. SessionsInit => SessionsInv
  BY SessionsInitial
<1>2. SessionsInv /\ [SessionsNext]_sessionVars => SessionsInv'
  BY SessionsTypeStep, PoolStep, MRsStep DEF SessionsInv
<1> QED BY <1>1, <1>2, PTL DEF SessionsSpec

\* Type correctness: in particular GetClient (client_pool.cc:60) never makes
\* more clients than there are paths, and every process finds a socket.
THEOREM SessionsTypeCorrect == SessionsSpec => []SessionsTypeOK
<1>1. SessionsInv => SessionsTypeOK
  BY DEF SessionsInv
<1> QED BY <1>1, SessionsInductive, PTL

\* The pool and csl_path_cli agree whenever a call of csl.cc has returned: a
\* client is idle or busy, and it is busy for exactly one path.
THEOREM PoolOKAlways == SessionsSpec => []PoolOK
<1>1. SessionsInv => PoolOK
  <2> SUFFICES ASSUME SessionsInv PROVE PoolOK
    OBVIOUS
  <2> USE SessionsAssumption
  <2>0. SessionsTypeOK /\ OwnerInv
    BY DEF SessionsInv
  <2>1. \A c \in Clients : c # NoClient
    BY DEF Clients
  <2>2. ASSUME NEW c \in Clients
        PROVE  c \in busy_clients <=> \E p \in Paths : csl_path_cli[p] = c
    BY <2>0, <2>1 DEF OwnerInv
  <2>3. ASSUME NEW p \in Paths, NEW q \in Paths, csl_path_cli[p] = csl_path_cli[q], p # q
        PROVE  csl_path_cli[p] = NoClient
    BY <2>0, <2>3 DEF OwnerInv
  <2> QED BY <2>0, <2>2, <2>3 DEF PoolOK, OwnerInv
<1> QED BY <1>1, SessionsInductive, PTL

\* The server never has one region for two files, nor a file's region among the
\* free ones of NCLMrPool, whatever order the sockets are served in and however
\* often the client restarts.
THEOREM MRsDisjointAlways == SessionsSpec => []MRsDisjoint
<1>1. SessionsInv => MRsDisjoint
  BY DEF SessionsInv
<1> QED BY <1>1, SessionsInductive, PTL

-----------------------------------------------------------------------------
(* The server survives the processes that come and go. *)

\* Appending to a sequence of one element.
LEMMA AppendTwo ==
    ASSUME NEW x, NEW y
    PROVE  Append(<<x>>, y) = <<x, y>>
<1> DEFINE S == {x, y}
           a == Append(<<x>>, y)
           b == <<x, y>>
<1>1. <<x>> \in Seq(S) /\ Len(<<x>>) = 1 /\ <<x>>[1] = x
  OBVIOUS
<1>2. a \in Seq(S) /\ Len(a) = 2 /\ a[1] = x /\ a[2] = y
  BY <1>1, AppendProperties
<1>3. b \in Seq(S) /\ Len(b) = 2 /\ b[1] = x /\ b[2] = y
  OBVIOUS
<1> HIDE DEF a, b
<1>4. \A i \in 1 .. 2 : a[i] = b[i]
  BY <1>2, <1>3
<1>5. a = b
  BY <1>2, <1>3, <1>4, SeqEqual
<1> QED BY <1>5 DEF a, b

\* Sequences of one and two elements.
LEMMA ShortSeqs ==
    /\ \A x : <<x>> # <<>> /\ Head(<<x>>) = x /\ Tail(<<x>>) = <<>> /\ Append(<<>>, x) = <<x>>
    /\ \A x : Len(<<x>>) = 1
    /\ \A x, y : <<x, y>> # <<>> /\ Head(<<x, y>>) = x /\ Tail(<<x, y>>) = <<y>>
OBVIOUS

\* A reply taken from a socket that has one leaves none.
LEMMA LastReply ==
    ASSUME NEW S, NEW q \in Seq(S), Len(q) = 1
    PROVE  q # <<>> /\ Tail(q) = <<>>
<1>1. q # <<>>
  BY EmptySeq
<1>2. Tail(q) \in Seq(S) /\ Len(Tail(q)) = 0
  BY <1>1, HeadTailProperties
<1> QED BY <1>1, <1>2, EmptySeq

\* The requests the server can find on a socket that is not closed.
LEMMA WhoseRequest ==
    ASSUME SessionsInv, ProcessInv, NEW s \in Socks \ closed, req[s] # <<>>
    PROVE  \/ \E q \in Paths : /\ req[s] = <<Request("CLOSE_FILE", q)>> /\ Holds(q, s)
                               /\ \E c \in idle_clients : sock[c] = s /\ (app = "idle" \/ c # cur.c)
           \/ /\ app = "open" /\ s = sock[cur.c]
              /\ \A u \in Socks : resp[u] = <<>>
              /\ req[s] = <<Request("OPEN_FILE", cur.p)>>
           \/ /\ app = "open" /\ s = sock[cur.c]
              /\ \A u \in Socks : resp[u] = <<>>
              /\ \E q \in Paths : /\ req[s] = <<Request("CLOSE_FILE", q), Request("OPEN_FILE", cur.p)>>
                                  /\ Holds(q, s)
           \/ /\ app = "info" /\ s = sock[cur.c] /\ resp[s] = <<>> /\ Holds(cur.p, s)
              /\ req[s] = <<Request("GET_INFO", cur.p)>>
<1>0. SocketInv /\ BusyInv /\ IdleInv /\ AnswerInv
  BY DEF ProcessInv
<1>1. PICK c \in Made : sock[c] = s
  BY <1>0 DEF SocketInv
<1>2. c \notin busy_clients
  BY <1>0, <1>1 DEF BusyInv
<1>3. CASE c \in idle_clients /\ (app = "idle" \/ c # cur.c)
  BY <1>0, <1>1, <1>3 DEF IdleInv
<1>4. CASE app # "idle" /\ c = cur.c
  <2>1. app \in {"connect", "open", "info"}
    BY <1>4 DEF SessionsInv, SessionsTypeOK
  <2>2. app # "connect"
    BY <1>0, <1>1, <1>4 DEF AnswerInv, Connecting
  <2>3. CASE app = "open"
    BY <1>0, <1>1, <1>4, <2>3 DEF AnswerInv, Reopening
  <2>4. CASE app = "info"
    BY <1>0, <1>1, <1>4, <2>4 DEF AnswerInv, Recovering
  <2> QED BY <2>1, <2>2, <2>3, <2>4
<1> QED BY <1>2, <1>3, <1>4 DEF Made

\* GetClient: the call starts to wait, on a new socket or on that of an idle
\* client.
LEMMA SurvivesGetClient ==
    ASSUME SessionsInv, ProcessInv, NEW p \in Paths, NEW fd, NEW rec,
           app = "idle", csl_path_cli[p] = NoClient, GetClient(p, fd, rec),
           UNCHANGED <<idle_clients, busy_clients, resp, closed, server_up, local_cons>>
    PROVE  ProcessInv'
<1> USE SessionsAssumption
<1>0. SocketInv /\ BusyInv /\ IdleInv /\ AnswerInv /\ SessionsTypeOK /\ NetInv
  BY DEF ProcessInv, SessionsInv
<1>1. PICK c \in Clients \ busy_clients :
              /\ cur' = [c |-> c, p |-> p, fd |-> fd, recover |-> rec]
              /\ filename' = [filename EXCEPT ![c] = p]
              /\ \/ /\ idle_clients = {} /\ app' = "connect" /\ c = Cardinality(busy_clients)
                    /\ next_sock \in Socks /\ GetQpTo(c, p)
                 \/ /\ c \in idle_clients /\ app' = "open" /\ sock[c] \in Socks
                    /\ Send(sock[c], Request("OPEN_FILE", p))
                    /\ UNCHANGED <<sock, backlog, next_sock>>
  BY GetClientFacts
<1>2. \A b \in busy_clients : b # c /\ b \in Clients /\ filename'[b] = filename[b]
  BY <1>0, <1>1 DEF SessionsTypeOK
<1>3. cur'.c = c /\ cur'.p = p
  BY <1>1
<1>4. Made = idle_clients \cup busy_clients /\ (app' # "idle" => Made' = Made \cup {c})
  BY <1>3 DEF Made
<1>5. \A q, t : Holds(q, t)' <=> Holds(q, t)
  BY DEF Holds
<1>6. CASE app' = "connect"
  <2>1. idle_clients = {} /\ c = Cardinality(busy_clients) /\ next_sock \in Socks /\ GetQpTo(c, p)
    BY <1>1, <1>6
  <2>2. \A b \in busy_clients : sock[b] \in 1 .. next_sock - 1
    BY <2>1, NewClient
  <2>3. \A b \in busy_clients : sock[b] # next_sock
    BY <1>0, <2>2 DEF NetInv
  <2>4. /\ sock' = [sock EXCEPT ![c] = next_sock] /\ req' = req
        /\ backlog' = Append(backlog, [s |-> next_sock, p |-> p])
    BY <2>1 DEF GetQpTo
  <2>5. sock'[c] = next_sock /\ \A b \in busy_clients : sock'[b] = sock[b]
    BY <1>0, <1>2, <2>4 DEF SessionsTypeOK
  <2>6. Made = busy_clients /\ Made' = busy_clients \cup {c}
    BY <1>4, <1>6, <2>1
  <2>o. next_sock \notin closed /\ next_sock' = next_sock + 1 /\ next_sock \in Nat
    BY <1>0, <2>1 DEF SocketInv, NetInv, GetQpTo
  <2>7. req[next_sock] = <<>>
    BY <1>0, <2>1, <2>3, <2>6, <2>o DEF SocketInv
  <2>8. SocketInv'
    <3>1. server_up' /\ closed' \subseteq 1 .. next_sock' - 1
      BY <1>0, <2>o DEF SocketInv
    <3>2. \A d \in Made' : sock'[d] \notin closed'
      BY <1>0, <2>5, <2>6, <2>o DEF SocketInv
    <3>3. \A d, e \in Made' : sock'[d] = sock'[e] => d = e
      BY <1>0, <2>3, <2>5, <2>6 DEF SocketInv
    <3>4. \A s \in Socks \ closed' : (\A d \in Made' : sock'[d] # s) => req'[s] = <<>>
      BY <1>0, <2>4, <2>5, <2>6 DEF SocketInv
    <3> QED BY <3>1, <3>2, <3>3, <3>4 DEF SocketInv
  <2>9. BusyInv'
    BY <1>0, <1>2, <1>5, <2>4, <2>5 DEF BusyInv
  <2>10. IdleInv'
    BY <2>1 DEF IdleInv
  <2>11. AnswerInv'
    <3>1. Waiting(sock[cur.c], cur.p)'
      <4> DEFINE x == [s |-> next_sock, p |-> p]
      <4>0. x \in [s : Socks, p : Paths] /\ backlog \in Seq([s : Socks, p : Paths])
        BY <1>0, <2>1 DEF NetInv
      <4> HIDE DEF x
      <4>1. backlog' = Append(backlog, x)
        BY <2>4 DEF x
      <4>2. /\ Len(backlog') = Len(backlog) + 1 /\ backlog'[Len(backlog) + 1] = x
            /\ \A i \in 1 .. Len(backlog) : backlog'[i] = backlog[i]
            /\ Len(backlog) \in Nat
        BY <4>0, <4>1, AppendProperties
      <4>3. backlog' # <<>>
        BY <4>2
      <4>4. /\ \A i \in 1 .. Len(backlog) : backlog[i].s \in closed
            /\ Len(backlog) # 0 => busy_clients = {}
        <5>1. CASE backlog = <<>>
          BY <5>1
        <5>2. CASE backlog # <<>>
          BY <1>0, <2>6, <5>2 DEF AnswerInv, OldOnly
        <5> QED BY <5>1, <5>2
      <4>5. Len(backlog') - 1 = Len(backlog) /\ (Len(backlog') # 1 => Len(backlog) # 0)
        BY <4>2
      <4>6. backlog'[Len(backlog')] = [s |-> sock'[cur'.c], p |-> cur'.p]
        BY <1>3, <2>5, <4>2 DEF x
      <4>7. \A i \in 1 .. Len(backlog') - 1 : backlog'[i].s \in closed'
        BY <4>2, <4>4, <4>5
      <4> QED BY <4>3, <4>4, <4>5, <4>6, <4>7 DEF Waiting
    <3>2. \A s \in Socks : resp'[s] = <<>>
      BY <1>0 DEF AnswerInv
    <3>3. Connecting(sock[cur.c], cur.p)'
      BY <1>3, <2>1, <2>4, <2>5, <2>7, <3>1, <3>2 DEF Connecting
    <3> QED BY <1>6, <3>2, <3>3 DEF AnswerInv
  <2> QED BY <2>8, <2>9, <2>10, <2>11 DEF ProcessInv
<1>7. CASE app' = "open"
  <2>1. /\ c \in idle_clients /\ sock[c] \in Socks
        /\ req' = [req EXCEPT ![sock[c]] = Append(@, Request("OPEN_FILE", p))]
        /\ UNCHANGED <<sock, backlog, next_sock>>
    BY <1>1, <1>7 DEF Send
  <2>2. Made' = Made /\ c \in Made
    BY <1>4, <1>7, <2>1
  <2>3. \A s \in Socks : s # sock[c] => req'[s] = req[s]
    BY <1>0, <2>1 DEF NetInv
  <2>4. \A d \in Made : d # c => sock[d] # sock[c] /\ sock[d] \in Socks
    BY <1>0, <2>2, MadeSocks DEF SocketInv
  <2>5. SocketInv'
    <3>1. \A s \in Socks \ closed : (\A d \in Made : sock[d] # s) => req'[s] = <<>>
      BY <1>0, <2>2, <2>3 DEF SocketInv
    <3> QED BY <1>0, <2>1, <2>2, <3>1 DEF SocketInv
  <2>6. BusyInv'
    BY <1>0, <1>2, <1>4, <1>5, <2>1, <2>3, <2>4 DEF BusyInv
  <2>7. IdleInv'
    BY <1>0, <1>3, <1>4, <1>5, <1>7, <2>1, <2>3, <2>4 DEF IdleInv
  <2>8. req'[sock[c]] = Append(req[sock[c]], Request("OPEN_FILE", p))
    BY <1>0, <2>1 DEF NetInv
  <2>9. \/ req'[sock[c]] = <<Request("OPEN_FILE", p)>>
        \/ \E q \in Paths :
              /\ req'[sock[c]] = <<Request("CLOSE_FILE", q), Request("OPEN_FILE", p)>>
              /\ Holds(q, sock[c])
    <3>1. CASE req[sock[c]] = <<>>
      BY <2>8, <3>1, ShortSeqs
    <3>2. CASE req[sock[c]] # <<>>
      <4>1. PICK q \in Paths : req[sock[c]] = <<Request("CLOSE_FILE", q)>> /\ Holds(q, sock[c])
        BY <1>0, <2>1, <3>2 DEF IdleInv
      <4>2. req'[sock[c]] = <<Request("CLOSE_FILE", q), Request("OPEN_FILE", p)>>
        BY <2>8, <4>1, AppendTwo
      <4> QED BY <4>1, <4>2
    <3> QED BY <3>1, <3>2
  <2>10. \A s \in Socks : resp'[s] = <<>>
    BY <1>0 DEF AnswerInv
  <2>11. Reopening(sock[cur.c], cur.p)'
    BY <1>3, <1>5, <2>1, <2>9, <2>10 DEF Reopening, Request
  <2>12. AnswerInv'
    <3>1. backlog = <<>>
      BY <1>0, <2>2 DEF AnswerInv, OldOnly
    <3> QED BY <1>7, <2>1, <2>11, <3>1 DEF AnswerInv
  <2> QED BY <2>5, <2>6, <2>7, <2>12 DEF ProcessInv
<1> QED BY <1>1, <1>6, <1>7

\* unlink: the client is idle and its CLOSE_FILE is on the socket that the file
\* has at the server.
LEMMA SurvivesUnlink ==
    ASSUME SessionsInv, ProcessInv, NEW p \in Paths, unlink(p)
    PROVE  ProcessInv'
<1> USE SessionsAssumption
<1>0. SocketInv /\ BusyInv /\ IdleInv /\ AnswerInv /\ SessionsTypeOK /\ NetInv /\ OwnerInv
  BY DEF ProcessInv, SessionsInv
<1> DEFINE c == csl_path_cli[p]
<1>1. /\ app = "idle"
      /\ UNCHANGED <<sock, app, cur, resp, backlog, closed, next_sock, server_up, local_cons>>
  BY DEF unlink, callVars, serverVars
<1>2. \A q, t : Holds(q, t)' <=> Holds(q, t)
  BY <1>1 DEF Holds
<1>3. CASE c = NoClient
  <2>1. UNCHANGED <<busy_clients, idle_clients, filename, req>>
    BY <1>3 DEF unlink
  <2>2. Made' = Made
    BY <1>1, <2>1 DEF Made
  <2>3. SocketInv' /\ AnswerInv'
    BY <1>0, <1>1, <2>1, <2>2 DEF SocketInv, AnswerInv, OldOnly
  <2>4. BusyInv' /\ IdleInv'
    BY <1>0, <1>1, <1>2, <2>1 DEF BusyInv, IdleInv
  <2> QED BY <2>3, <2>4 DEF ProcessInv
<1>4. CASE c # NoClient
  <2>1. c \in Clients /\ c \in busy_clients /\ filename[c] = p /\ sock[c] \in Socks
    BY <1>4, OwnerFacts
  <2>2. /\ busy_clients' = busy_clients \ {c} /\ idle_clients' = idle_clients \cup {c}
        /\ filename' = [filename EXCEPT ![c] = NoPath]
        /\ req' = [req EXCEPT ![sock[c]] = Append(@, Request("CLOSE_FILE", p))]
    BY <1>4, <2>1 DEF unlink, RecycleClient, Send
  <2> HIDE DEF c
  <2>3. Made' = Made /\ c \in Made /\ Made = idle_clients \cup busy_clients
    BY <1>1, <2>1, <2>2 DEF Made
  <2>4. \A d \in Made : d # c => sock[d] # sock[c] /\ sock[d] \in Socks
    BY <1>0, <2>3, MadeSocks DEF SocketInv
  <2>5. \A s \in Socks : s # sock[c] => req'[s] = req[s]
    BY <1>0, <2>2 DEF NetInv
  <2>6. Holds(p, sock[c]) /\ req'[sock[c]] = <<Request("CLOSE_FILE", p)>>
    BY <1>0, <2>1, <2>2, ShortSeqs DEF BusyInv, NetInv
  <2>7. SocketInv'
    <3>1. \A s \in Socks \ closed : (\A d \in Made : sock[d] # s) => req'[s] = <<>>
      BY <1>0, <2>3, <2>5 DEF SocketInv
    <3> QED BY <1>0, <1>1, <2>3, <3>1 DEF SocketInv
  <2>8. \A b \in busy_clients' : b # c /\ b \in Made /\ filename'[b] = filename[b]
    BY <1>0, <2>2, <2>3 DEF SessionsTypeOK
  <2>9. BusyInv'
    BY <1>0, <1>1, <1>2, <2>2, <2>4, <2>5, <2>8 DEF BusyInv
  <2>10. IdleInv'
    <3>1. ASSUME NEW d \in idle_clients'
          PROVE  \/ req'[sock[d]] = <<>>
                 \/ \E q \in Paths : /\ req'[sock[d]] = <<Request("CLOSE_FILE", q)>>
                                     /\ Holds(q, sock[d])
      <4>1. CASE d = c
        BY <2>6, <4>1
      <4>2. CASE d # c
        <5>1. d \in idle_clients /\ req'[sock[d]] = req[sock[d]]
          BY <2>2, <2>3, <2>4, <2>5, <3>1, <4>2
        <5> QED BY <1>0, <1>1, <5>1 DEF IdleInv
      <4> QED BY <4>1, <4>2
    <3> QED BY <1>1, <1>2, <3>1 DEF IdleInv, Request
  <2>11. AnswerInv'
    BY <1>0, <1>1, <2>3 DEF AnswerInv, OldOnly
  <2> QED BY <2>7, <2>9, <2>10, <2>11 DEF ProcessInv
<1> QED BY <1>3, <1>4

\* The call has its answer and the server knows its file: the client is handed
\* out or asks for the content.
LEMMA SurvivesAnswer ==
    ASSUME SessionsInv, ProcessInv, ReceiveToken \/ TryRecover
    PROVE  ProcessInv'
<1> USE SessionsAssumption
<1>0. SocketInv /\ BusyInv /\ IdleInv /\ AnswerInv /\ SessionsTypeOK /\ NetInv /\ OwnerInv /\ CallInv
  BY DEF ProcessInv, SessionsInv
<1> DEFINE c == cur.c
           s == sock[cur.c]
           p == cur.p
<1>1. /\ app \in {"connect", "open", "info"} /\ resp[s] # <<>>
      /\ resp' = [resp EXCEPT ![s] = Tail(@)]
      /\ UNCHANGED <<filename, sock, backlog, closed, next_sock, server_up, local_cons>>
  BY DEF ReceiveToken, TryRecover, serverVars
<1>2. /\ c \in Clients /\ c \notin busy_clients /\ c \in Made /\ p \in Paths
      /\ filename[c] = p /\ s \in Socks
  BY <1>0, <1>1, MadeSocks DEF CallInv, Made
<1>3. /\ Len(resp[s]) = 1 /\ Holds(p, s) /\ req[s] = <<>> /\ backlog = <<>>
      /\ \A t \in Socks \ {s} : resp[t] = <<>>
  <2>0. app # "connect" => backlog = <<>>
    BY <1>0, <1>2 DEF AnswerInv, OldOnly
  <2>1. CASE app = "connect"
    BY <1>0, <1>1, <2>1 DEF AnswerInv, Connecting
  <2>2. CASE app = "open"
    BY <1>0, <1>1, <1>2, <2>0, <2>2 DEF AnswerInv, Reopening
  <2>3. CASE app = "info"
    BY <1>0, <1>1, <2>0, <2>3 DEF AnswerInv, Recovering
  <2> QED BY <1>1, <2>1, <2>2, <2>3
<1>4. \A t \in Socks : resp'[t] = <<>>
  <2>1. resp[s] \in Seq(Replies)
    BY <1>0, <1>2 DEF NetInv
  <2>2. Tail(resp[s]) = <<>>
    BY <1>3, <2>1, LastReply
  <2>3. ASSUME NEW t \in Socks PROVE resp'[t] = IF t = s THEN Tail(resp[s]) ELSE resp[t]
    BY <1>0, <1>1 DEF NetInv
  <2> QED BY <1>3, <2>2, <2>3
<1>5. \A q, t : Holds(q, t)' <=> Holds(q, t)
  BY <1>1 DEF Holds
<1>6. \A d \in Made : d # c => sock[d] # s /\ sock[d] \in Socks
  BY <1>0, <1>2, MadeSocks DEF SocketInv
<1>7. CASE HandOut /\ UNCHANGED req
  <2>1. /\ busy_clients' = busy_clients \cup {c} /\ idle_clients' = idle_clients \ {c}
        /\ app' = "idle"
    BY <1>7 DEF HandOut
  <2>2. Made' = Made
    BY <1>1, <2>1 DEF Made
  <2>3. SocketInv'
    BY <1>0, <1>1, <1>7, <2>2 DEF SocketInv
  <2>4. BusyInv'
    BY <1>0, <1>1, <1>2, <1>3, <1>5, <1>7, <2>1 DEF BusyInv
  <2>5. IdleInv'
    BY <1>0, <1>1, <1>5, <1>7, <2>1 DEF IdleInv
  <2>6. AnswerInv'
    BY <1>1, <1>3, <1>4, <2>1 DEF AnswerInv
  <2> QED BY <2>3, <2>4, <2>5, <2>6 DEF ProcessInv
<1>8. CASE /\ app' = "info" /\ Send(s, Request("GET_INFO", p))
           /\ UNCHANGED <<busy_clients, idle_clients, cur>>
  <2>1. Made' = Made
    BY <1>1, <1>8 DEF Made
  <2>2. /\ req'[s] = <<Request("GET_INFO", p)>>
        /\ \A t \in Socks \ {s} : req'[t] = req[t]
    BY <1>0, <1>2, <1>3, <1>8, ShortSeqs DEF NetInv, Send
  <2>3. SocketInv'
    <3>1. \A t \in Socks \ closed : (\A d \in Made : sock[d] # t) => req'[t] = <<>>
      BY <1>0, <1>2, <2>2 DEF SocketInv
    <3> QED BY <1>0, <1>1, <2>1, <3>1 DEF SocketInv
  <2>4. BusyInv'
    <3>1. \A b \in busy_clients : b # c /\ b \in Made
      BY <1>2 DEF Made
    <3> QED BY <1>0, <1>1, <1>5, <1>6, <1>8, <2>2, <3>1 DEF BusyInv
  <2>5. IdleInv'
    <3>1. \A b \in idle_clients : b \in Made
      BY DEF Made
    <3> QED BY <1>0, <1>1, <1>5, <1>6, <1>8, <2>2, <3>1 DEF IdleInv
  <2>6. AnswerInv'
    <3>1. Recovering(sock[cur.c], cur.p)'
      BY <1>1, <1>2, <1>3, <1>4, <1>5, <1>8, <2>2 DEF Recovering, Request
    <3> QED BY <1>1, <1>3, <1>4, <1>8, <3>1 DEF AnswerInv
  <2> QED BY <2>3, <2>4, <2>5, <2>6 DEF ProcessInv
<1> QED BY <1>7, <1>8 DEF ReceiveToken, TryRecover

\* The rest of the backlog.
LEMMA TailBacklog ==
    ASSUME NetInv, backlog # <<>>
    PROVE  /\ Len(backlog) \in Nat \ {0} /\ Len(Tail(backlog)) = Len(backlog) - 1
           /\ Tail(backlog) = <<>> <=> Len(backlog) = 1
           /\ \A i \in 1 .. Len(backlog) - 1 : Tail(backlog)[i] = backlog[i + 1]
           /\ Head(backlog) = backlog[1] /\ Head(backlog).s \in Socks /\ Head(backlog).p \in Paths
<1> DEFINE S == [s : Socks, p : Paths]
<1>1. backlog \in Seq(S)
  BY DEF NetInv
<1> HIDE DEF S
<1>2. /\ Head(backlog) \in S /\ Tail(backlog) \in Seq(S) /\ Len(Tail(backlog)) = Len(backlog) - 1
      /\ \A i \in 1 .. Len(Tail(backlog)) : Tail(backlog)[i] = backlog[i + 1]
  BY <1>1, HeadTailProperties
<1>3. Len(backlog) \in Nat \ {0} /\ Head(backlog) = backlog[1]
  BY <1>1, EmptySeq
<1>4. Tail(backlog) = <<>> <=> Len(Tail(backlog)) = 0
  BY <1>2, EmptySeq
<1> QED BY <1>2, <1>3, <1>4 DEF S

\* The server accepts the connection of a process that has ended: the one that
\* runs has no client yet, and its connection is still behind.
LEMMA SurvivesOldConnection ==
    ASSUME SessionsInv, ProcessInv, handleIncomingConnection,
           app = "connect" => Len(backlog) # 1
    PROVE  ProcessInv'
<1> USE SessionsAssumption
<1>0. SocketInv /\ BusyInv /\ IdleInv /\ AnswerInv /\ NetInv /\ SessionsTypeOK
  BY DEF ProcessInv, SessionsInv
<1>1. /\ backlog # <<>> /\ backlog' = Tail(backlog)
      /\ UNCHANGED <<idle_clients, busy_clients, filename, sock, app, cur, req, closed, server_up,
                     next_sock>>
  BY DEF handleIncomingConnection, poolVars, callVars
<1>2. /\ Len(backlog) \in Nat \ {0} /\ Len(backlog') = Len(backlog) - 1
      /\ backlog' = <<>> <=> Len(backlog) = 1
      /\ \A i \in 1 .. Len(backlog) - 1 : backlog'[i] = backlog[i + 1]
      /\ Head(backlog) = backlog[1]
  BY <1>0, <1>1, TailBacklog
<1>3. Made' = Made
  BY <1>1 DEF Made
<1>4. app = "connect" => Waiting(sock[cur.c], cur.p) /\ Connecting(sock[cur.c], cur.p)
  BY <1>0, <1>1 DEF AnswerInv, Connecting
<1>5. idle_clients = {} /\ busy_clients = {} /\ Head(backlog).s \in closed
  <2>1. CASE app = "connect"
    BY <1>2, <1>4, <2>1 DEF Waiting, Connecting
  <2>2. CASE app # "connect"
    BY <1>0, <1>1, <1>2, <2>2 DEF AnswerInv, OldOnly, Made
  <2> QED BY <2>1, <2>2
<1>6. resp' = resp
  <2>1. \E r : Reply(Head(backlog).s, r)
    BY DEF handleIncomingConnection
  <2> QED BY <1>5, <2>1 DEF Reply
<1>7. SocketInv'
  BY <1>0, <1>1, <1>3 DEF SocketInv
<1>8. BusyInv' /\ IdleInv'
  BY <1>1, <1>5 DEF BusyInv, IdleInv
<1>9. AnswerInv'
  <2>1. CASE app = "connect"
    <3> DEFINE s == sock[cur.c]
               p == cur.p
               n == Len(backlog)
    <3>1. Waiting(s, p) /\ Connecting(s, p) /\ n \in Nat \ {0} /\ n # 1
      BY <1>2, <1>4, <2>1
    <3>2. Len(backlog') = n - 1 /\ backlog' # <<>> /\ n - 1 \in 1 .. n - 1 /\ n - 1 + 1 = n
      BY <1>2, <3>1
    <3>3. backlog'[n - 1] = backlog[n]
      BY <1>2, <3>2
    <3>4. ASSUME NEW i \in 1 .. n - 1 - 1 PROVE backlog'[i].s \in closed
      <4>1. i \in 1 .. n - 1 /\ i + 1 \in 1 .. n - 1
        BY <3>1
      <4> QED BY <1>2, <3>1, <4>1 DEF Waiting
    <3>5. Waiting(s, p)'
      <4>1. backlog'[Len(backlog')] = [s |-> sock'[cur'.c], p |-> cur'.p]
        BY <1>1, <3>1, <3>2, <3>3 DEF Waiting
      <4>2. \A i \in 1 .. Len(backlog') - 1 : backlog'[i].s \in closed'
        BY <1>1, <3>2, <3>4
      <4> QED BY <1>1, <1>5, <3>2, <4>1, <4>2 DEF Waiting
    <3>6. resp[s] = <<>>
      BY <1>1, <3>1 DEF Connecting
    <3>7. Connecting(s, p)'
      BY <1>1, <1>6, <3>1, <3>5, <3>6 DEF Connecting
    <3> QED BY <1>0, <1>1, <1>6, <2>1, <3>7 DEF AnswerInv
  <2>2. CASE app # "connect"
    <3>1. OldOnly
      BY <1>0, <1>1, <2>2 DEF AnswerInv
    <3>2. \A i \in 1 .. Len(backlog') : backlog'[i].s \in closed'
      <4> SUFFICES ASSUME NEW i \in 1 .. Len(backlog') PROVE backlog'[i].s \in closed
        BY <1>1
      <4>1. i \in 1 .. Len(backlog) - 1 /\ i + 1 \in 1 .. Len(backlog)
        BY <1>2
      <4> QED BY <1>2, <3>1, <4>1 DEF OldOnly
    <3>3. OldOnly'
      BY <1>3, <3>1, <3>2 DEF OldOnly
    <3>4. app = "idle"
      BY <3>1 DEF OldOnly, Made
    <3> QED BY <1>0, <1>1, <1>6, <3>3, <3>4 DEF AnswerInv
  <2> QED BY <2>1, <2>2
<1> QED BY <1>7, <1>8, <1>9 DEF ProcessInv

\* The server accepts the connection of the call.
LEMMA SurvivesConnection ==
    ASSUME SessionsInv, ProcessInv, handleIncomingConnection,
           app = "connect" /\ Len(backlog) = 1
    PROVE  ProcessInv'
<1> USE SessionsAssumption
<1>0. SocketInv /\ BusyInv /\ IdleInv /\ AnswerInv /\ SessionsTypeOK /\ NetInv /\ OwnerInv /\ CallInv
  BY DEF ProcessInv, SessionsInv
<1> DEFINE s == sock[cur.c]
           p == cur.p
<1>1. /\ backlog # <<>> /\ backlog' = Tail(backlog)
      /\ UNCHANGED <<idle_clients, busy_clients, filename, sock, app, cur, req, closed, server_up,
                     next_sock, csl_path_cli>>
  BY DEF handleIncomingConnection, fileVars, poolVars, callVars
<1>2. app = "connect" /\ idle_clients = {} /\ req[s] = <<>> /\ resp[s] = <<>>
      /\ Waiting(s, p)
  BY <1>0, <1>1 DEF AnswerInv, Connecting
<1>3. Head(backlog).s = s /\ Head(backlog).p = p /\ backlog' = <<>>
  <2>1. Head(backlog) = backlog[1] /\ Tail(backlog) = <<>>
    BY <1>0, <1>1, TailBacklog
  <2>2. backlog[1] = [s |-> s, p |-> p]
    BY <1>2 DEF Waiting
  <2> QED BY <1>1, <2>1, <2>2
<1>n. s \notin closed
  BY <1>0, <1>2 DEF SocketInv, Made
<1>4. /\ s \in Socks /\ p \in Paths
      /\ \A b \in busy_clients : filename[b] # p /\ filename[b] \in Paths
  <2>1. s \in Socks /\ p \in Paths /\ csl_path_cli[p] = NoClient
    BY <1>0, <1>2, MadeSocks DEF CallInv, Made
  <2>2. \A b \in busy_clients : b # NoClient
    BY <1>0 DEF SessionsTypeOK, Clients
  <2> QED BY <1>0, <2>1, <2>2 DEF OwnerInv
<1>5. /\ Holds(p, s)' /\ \E r \in Replies : Reply(s, r)
      /\ \A q \in Paths \ {p} : local_cons'[q] = local_cons[q]
  <2>1. CASE local_cons[p] = NoCon
    <3>1. PICK m \in GetMRofSize :
             /\ local_cons' = [local_cons EXCEPT ![p] = [mr |-> m, sock |-> s]]
             /\ Reply(s, TokenReply(m))
      BY <1>3, <2>1 DEF handleIncomingConnection
    <3>2. m \in MRs /\ TokenReply(m) \in Replies
      BY FreeMR DEF TokenReply, Replies
    <3>3. local_cons'[p] = [mr |-> m, sock |-> s] /\ \A q \in Paths \ {p} : local_cons'[q] = local_cons[q]
      BY <1>0, <1>4, <3>1 DEF SessionsTypeOK
    <3>4. Holds(p, s)'
      BY <1>1, <3>2, <3>3 DEF Holds, NoCon
    <3> QED BY <3>1, <3>2, <3>3, <3>4
  <2>2. CASE local_cons[p] # NoCon
    <3>1. /\ local_cons' = [local_cons EXCEPT ![p].sock = s]
          /\ Reply(s, TokenReply(local_cons[p].mr))
      BY <1>3, <2>2 DEF handleIncomingConnection
    <3>2. local_cons[p].mr \in MRs
      BY <1>0, <1>4, <2>2 DEF NetInv
    <3>3. TokenReply(local_cons[p].mr) \in Replies
      BY <3>2 DEF TokenReply, Replies
    <3>4. local_cons'[p].mr = local_cons[p].mr /\ local_cons'[p].sock = s
          /\ \A q \in Paths \ {p} : local_cons'[q] = local_cons[q]
      BY <1>0, <1>4, <3>1 DEF SessionsTypeOK
    <3>5. Holds(p, s)'
      BY <1>1, <3>2, <3>4 DEF Holds, NoCon
    <3> QED BY <3>1, <3>3, <3>4, <3>5
  <2> QED BY <2>1, <2>2
<1>6. PICK r \in Replies : Reply(s, r)
  BY <1>5
<1>7. Len(resp'[s]) = 1 /\ \A t \in Socks \ {s} : resp'[t] = resp[t]
  <2>1. resp' = [resp EXCEPT ![s] = Append(@, r)]
    BY <1>6, <1>n DEF Reply
  <2>2. resp'[s] = <<r>>
    BY <1>0, <1>2, <1>4, <2>1, ShortSeqs DEF NetInv
  <2> QED BY <1>0, <2>1, <2>2, ShortSeqs DEF NetInv
<1> HIDE DEF s, p
<1>8. Made' = Made
  BY <1>1 DEF Made
<1>9. SocketInv'
  BY <1>0, <1>1, <1>8 DEF SocketInv
<1>10. BusyInv'
  BY <1>0, <1>1, <1>4, <1>5 DEF BusyInv, Holds
<1>11. IdleInv'
  BY <1>1, <1>2 DEF IdleInv
<1>12. AnswerInv'
  <2>1. Connecting(sock[cur.c], cur.p)'
    BY <1>1, <1>2, <1>3, <1>5, <1>7 DEF Connecting, s, p
  <2> QED BY <1>0, <1>1, <1>2, <1>7, <2>1 DEF AnswerInv, s
<1> QED BY <1>9, <1>10, <1>11, <1>12 DEF ProcessInv

\* What the server does with a request: CLOSE_FILE comes on the socket that the
\* file has, GET_INFO is for a file that the server knows, and OPEN_FILE is
\* answered to the socket that asks or to another, on which nobody waits.
LEMMA SurvivesRequest ==
    ASSUME SessionsInv, ProcessInv, NEW s \in Socks \ closed, handleClientRequest(s)
    PROVE  ProcessInv'
<1> USE SessionsAssumption
<1>0. SocketInv /\ BusyInv /\ IdleInv /\ AnswerInv /\ SessionsTypeOK /\ NetInv /\ OwnerInv /\ CallInv
  BY DEF ProcessInv, SessionsInv
<1>1. /\ req[s] # <<>> /\ req' = [req EXCEPT ![s] = Tail(@)]
      /\ UNCHANGED <<idle_clients, busy_clients, filename, sock, app, cur, backlog, closed,
                     next_sock, csl_path_cli>>
  BY DEF handleClientRequest, fileVars, poolVars, callVars
<1>2. req'[s] = Tail(req[s]) /\ \A t \in Socks \ {s} : req'[t] = req[t]
  BY <1>0, <1>1 DEF NetInv
<1>3. Made' = Made /\ \A c \in Made : sock[c] \in Socks
  BY <1>1, MadeSocks DEF Made
<1>4. \A b \in busy_clients : sock[b] \in Socks /\ sock[b] # s
  <2>1. \A b \in busy_clients : b \in Made
    BY DEF Made
  <2> QED BY <1>0, <1>1, <1>3, <2>1 DEF BusyInv
<1>5. PICK c \in Made : sock[c] = s
  BY <1>0, <1>1 DEF SocketInv
<1>6. \A d \in Made : d # c => sock[d] # s
  BY <1>0, <1>5 DEF SocketInv
<1>7. ASSUME server_up' PROVE SocketInv'
  <2>1. \A t \in Socks \ closed : (\A d \in Made : sock[d] # t) => req'[t] = <<>>
    BY <1>0, <1>2, <1>5 DEF SocketInv
  <2> QED BY <1>0, <1>1, <1>3, <1>7, <2>1 DEF SocketInv
<1>b. backlog = <<>> \/ app = "connect"
  BY <1>0, <1>5 DEF AnswerInv, OldOnly
\* CLOSE_FILE of a file that has this socket: no other socket has it.
<1>8. ASSUME NEW q \in Paths, Holds(q, s), CloseFile(q)
      PROVE  /\ server_up' = server_up /\ resp' = resp
             /\ \A x \in Paths : \A t : Holds(x, t) /\ t # s => Holds(x, t)'
             /\ BusyInv'
  <2>1. /\ local_cons' = [local_cons EXCEPT ![q] = NoCon] /\ UNCHANGED <<server_up, resp>>
    BY <1>8 DEF CloseFile, Holds
  <2>2. \A x \in Paths : \A t : Holds(x, t) /\ t # s => Holds(x, t)'
    BY <1>0, <1>8, <2>1 DEF Holds, SessionsTypeOK
  <2>3. \A b \in busy_clients : filename[b] \in Paths
    BY <1>0 DEF OwnerInv
  <2>4. BusyInv'
    BY <1>0, <1>1, <1>2, <1>4, <2>2, <2>3 DEF BusyInv, Holds
  <2> QED BY <2>1, <2>2, <2>4
\* The request is the CLOSE_FILE of an idle client.
<1>9. ASSUME NEW q \in Paths, req[s] = <<Request("CLOSE_FILE", q)>>, Holds(q, s),
             c \in idle_clients, app = "idle" \/ c # cur.c
      PROVE  ProcessInv'
  <2>1. CloseFile(q) /\ req'[s] = <<>>
    <3>1. Head(req[s]) = Request("CLOSE_FILE", q) /\ Tail(req[s]) = <<>>
      BY <1>9, ShortSeqs
    <3>2. Head(req[s]).type = "CLOSE_FILE" /\ Head(req[s]).p = q
      BY <3>1 DEF Request
    <3> QED BY <1>2, <3>1, <3>2 DEF handleClientRequest
  <2>2. /\ server_up' = server_up /\ resp' = resp
        /\ \A x \in Paths : \A t : Holds(x, t) /\ t # s => Holds(x, t)'
        /\ BusyInv'
    BY <1>8, <1>9, <2>1
  <2>3. SocketInv'
    BY <1>0, <1>7, <2>2 DEF SocketInv
  <2>4. IdleInv'
    <3>1. ASSUME NEW d \in idle_clients, app = "idle" \/ d # cur.c
          PROVE  \/ req'[sock[d]] = <<>>
                 \/ \E x \in Paths : /\ req'[sock[d]] = <<Request("CLOSE_FILE", x)>>
                                     /\ Holds(x, sock[d])'
      <4>1. CASE d = c
        BY <1>5, <2>1, <4>1
      <4>2. CASE d # c
        <5>1. sock[d] # s /\ sock[d] \in Socks
          BY <1>3, <1>6, <4>2 DEF Made
        <5>2. req'[sock[d]] = req[sock[d]]
          BY <1>2, <5>1
        <5>3. CASE req[sock[d]] = <<>>
          BY <5>2, <5>3
        <5>4. CASE req[sock[d]] # <<>>
          <6>1. PICK x \in Paths : req[sock[d]] = <<Request("CLOSE_FILE", x)>> /\ Holds(x, sock[d])
            BY <1>0, <3>1, <5>4 DEF IdleInv
          <6>2. Holds(x, sock[d])'
            BY <1>1, <2>2, <5>1, <6>1 DEF Holds
          <6> QED BY <5>2, <6>1, <6>2
        <5> QED BY <5>3, <5>4
      <4> QED BY <4>1, <4>2
    <3>2. \A d \in idle_clients : app = "idle" \/ d # cur.c =>
             \/ req'[sock'[d]] = <<>>
             \/ \E x \in Paths : /\ req'[sock'[d]] = <<Request("CLOSE_FILE", x)>>
                                 /\ Holds(x, sock[d])'
      BY <1>1, <3>1
    <3> QED BY <1>1, <3>2 DEF IdleInv
  <2>5. AnswerInv'
    <3>1. CASE app = "idle"
      BY <1>0, <1>1, <1>b, <2>2, <3>1 DEF AnswerInv
    <3>2. CASE app # "idle"
      <4> DEFINE u == sock[cur.c]
                 p == cur.p
      <4>1. u \in Socks /\ u # s /\ p \in Paths
        BY <1>0, <1>3, <1>6, <1>9, <3>2 DEF Made, CallInv
      <4>2. req'[u] = req[u] /\ u' = u /\ p' = p
        BY <1>1, <1>2, <4>1
      <4>3. app # "connect"
        BY <1>0, <1>9 DEF AnswerInv, Connecting
      <4>4. CASE app = "open"
        <5>1. Reopening(u, p)
          BY <1>0, <4>4 DEF AnswerInv
        <5>2. Reopening(u, p)'
          <6>1. \A x \in Paths : Holds(x, u) => local_cons'[x] # NoCon /\ local_cons'[x].sock = u
            BY <2>2, <4>1 DEF Holds
          <6> HIDE DEF u, p
          <6>2. /\ Holds(p, u) => Holds(p, u)'
                /\ \A x \in Paths : Holds(x, u) => Holds(x, u)'
            BY <4>1, <4>2, <6>1 DEF Holds
          <6>3. CASE resp[u] = <<>>
            BY <2>2, <4>2, <5>1, <6>2, <6>3 DEF Reopening, Request
          <6>4. CASE resp[u] # <<>>
            BY <2>2, <4>1, <4>2, <5>1, <6>2, <6>4 DEF Reopening, Request
          <6> QED BY <6>3, <6>4
        <5> QED BY <1>0, <1>1, <1>b, <4>4, <5>2 DEF AnswerInv
      <4>5. CASE app = "info"
        <5>1. Recovering(u, p)
          BY <1>0, <4>5 DEF AnswerInv
        <5>2. Recovering(u, p)'
          BY <2>2, <4>1, <4>2, <5>1 DEF Recovering, Request, Holds
        <5> QED BY <1>0, <1>1, <1>b, <2>2, <4>5, <5>2 DEF AnswerInv
      <4> QED BY <1>0, <3>2, <4>3, <4>4, <4>5 DEF SessionsTypeOK
    <3> QED BY <3>1, <3>2
  <2> QED BY <2>2, <2>3, <2>4, <2>5 DEF ProcessInv
\* The request is one of the call in getClient; those of other clients stay.
<1>10. ASSUME app \in {"open", "info"}, s = sock[cur.c], server_up',
              \A x \in Paths : \A t : Holds(x, t) /\ t # s => Holds(x, t)'
       PROVE  SocketInv' /\ BusyInv' /\ IdleInv'
  <2>1. SocketInv'
    BY <1>7, <1>10
  <2>2. \A b \in busy_clients : filename[b] \in Paths
    BY <1>0 DEF OwnerInv
  <2>3. BusyInv'
    BY <1>0, <1>1, <1>2, <1>4, <1>10, <2>2 DEF BusyInv, Holds
  <2>4. c = cur.c
    BY <1>0, <1>5, <1>10 DEF SocketInv, Made
  <2>5. ASSUME NEW d \in idle_clients, d # cur.c
        PROVE  \/ req'[sock'[d]] = <<>>
               \/ \E x \in Paths : /\ req'[sock'[d]] = <<Request("CLOSE_FILE", x)>>
                                   /\ Holds(x, sock[d])'
    <3>1. sock[d] # s /\ sock[d] \in Socks
      BY <1>3, <1>6, <2>4, <2>5 DEF Made
    <3>2. req'[sock'[d]] = req[sock[d]]
      BY <1>1, <1>2, <3>1
    <3>3. CASE req[sock[d]] = <<>>
      BY <3>2, <3>3
    <3>4. CASE req[sock[d]] # <<>>
      <4>1. PICK x \in Paths : req[sock[d]] = <<Request("CLOSE_FILE", x)>> /\ Holds(x, sock[d])
        BY <1>0, <2>5, <3>4 DEF IdleInv
      <4>2. Holds(x, sock[d])'
        BY <1>1, <1>10, <3>1, <4>1 DEF Holds
      <4> QED BY <3>2, <4>1, <4>2
    <3> QED BY <3>3, <3>4
  <2>6. IdleInv'
    BY <1>1, <1>10, <2>5 DEF IdleInv
  <2> QED BY <2>1, <2>3, <2>6
<1>11. ASSUME app \in {"open", "info"} PROVE cur.p \in Paths /\ csl_path_cli[cur.p] = NoClient
  BY <1>0, <1>11 DEF CallInv
\* CLOSE_FILE, with OPEN_FILE behind it.
<1>12. ASSUME app = "open", s = sock[cur.c], \A u \in Socks : resp[u] = <<>>,
              NEW q \in Paths, Holds(q, s),
              req[s] = <<Request("CLOSE_FILE", q), Request("OPEN_FILE", cur.p)>>
       PROVE  ProcessInv'
  <2>1. CloseFile(q) /\ req'[s] = <<Request("OPEN_FILE", cur.p)>>
    <3>1. Head(req[s]) = Request("CLOSE_FILE", q) /\ Tail(req[s]) = <<Request("OPEN_FILE", cur.p)>>
      BY <1>12, ShortSeqs
    <3>2. Head(req[s]).type = "CLOSE_FILE" /\ Head(req[s]).p = q
      BY <3>1 DEF Request
    <3> QED BY <1>2, <3>1, <3>2 DEF handleClientRequest
  <2>2. /\ server_up' = server_up /\ resp' = resp
        /\ \A x \in Paths : \A t : Holds(x, t) /\ t # s => Holds(x, t)'
    BY <1>8, <1>12, <2>1
  <2>3. SocketInv' /\ BusyInv' /\ IdleInv'
    BY <1>0, <1>10, <1>12, <2>2 DEF SocketInv
  <2>4. Reopening(sock[cur.c], cur.p)'
    <3>1. req'[sock'[cur'.c]] = <<Request("OPEN_FILE", cur'.p)>>
      BY <1>1, <1>12, <2>1
    <3>2. \A u \in Socks : resp'[u] = <<>>
      BY <1>12, <2>2
    <3> QED BY <3>1, <3>2 DEF Reopening
  <2>5. AnswerInv'
    BY <1>0, <1>1, <1>b, <1>12, <2>4 DEF AnswerInv
  <2> QED BY <2>3, <2>5 DEF ProcessInv
\* OPEN_FILE.
<1>13. ASSUME app = "open", s = sock[cur.c], \A u \in Socks : resp[u] = <<>>,
              req[s] = <<Request("OPEN_FILE", cur.p)>>
       PROVE  ProcessInv'
  <2> DEFINE p == cur.p
  <2>1. OpenFile(s, p) /\ req'[s] = <<>>
    <3>1. Head(req[s]) = Request("OPEN_FILE", p) /\ Tail(req[s]) = <<>>
      BY <1>13, ShortSeqs
    <3>2. Head(req[s]).type = "OPEN_FILE" /\ Head(req[s]).p = p
      BY <3>1 DEF Request
    <3> QED BY <1>2, <3>1, <3>2 DEF handleClientRequest
  <2>2. p \in Paths
    BY <1>11, <1>13
  <2>3. /\ server_up' = server_up
        /\ \A x \in Paths : \A t : Holds(x, t) => Holds(x, t)'
        /\ \E u, r : (u = s => Holds(p, s)') /\ Reply(u, r)
    <3>1. CASE local_cons[p] # NoCon
      <4>1. /\ Reply(local_cons[p].sock, TokenReply(local_cons[p].mr))
            /\ UNCHANGED <<server_up, local_cons>>
        BY <2>1, <3>1 DEF OpenFile, serverVars
      <4>2. local_cons[p].sock = s => Holds(p, s)'
        BY <1>1, <3>1, <4>1 DEF Holds
      <4> QED BY <4>1, <4>2 DEF Holds
    <3>2. CASE local_cons[p] = NoCon
      <4>1. PICK m \in GetMRofSize :
           /\ local_cons' = [local_cons EXCEPT ![p] = [mr |-> m, sock |-> s]]
           /\ Reply(s, TokenReply(m))
           /\ UNCHANGED server_up
        BY <2>1, <3>2 DEF OpenFile
      <4>2. m \in MRs
        BY FreeMR
      <4>3. local_cons'[p] = [mr |-> m, sock |-> s] /\ \A x \in Paths \ {p} : local_cons'[x] = local_cons[x]
        BY <1>0, <2>2, <4>1 DEF SessionsTypeOK
      <4>4. Holds(p, s)'
        BY <1>1, <4>2, <4>3 DEF Holds, NoCon
      <4>5. \A x \in Paths : \A t : Holds(x, t) => Holds(x, t)'
        BY <3>2, <4>3 DEF Holds
      <4> QED BY <4>1, <4>4, <4>5
    <3> QED BY <3>1, <3>2
  <2>4. SocketInv' /\ BusyInv' /\ IdleInv'
    BY <1>0, <1>10, <1>13, <2>3 DEF SocketInv
  <2>5. PICK u, r : (u = s => Holds(p, s)') /\ Reply(u, r)
    BY <2>3
  <2>6. /\ u \notin closed => resp' = [resp EXCEPT ![u] = Append(@, r)]
        /\ u \in closed => resp' = resp
        /\ s \notin closed
    BY <2>5 DEF Reply
  <2>7. Reopening(s, p)'
    <3>1. CASE u = s
      <4>1. resp'[s] = <<r>> /\ \A t \in Socks \ {s} : resp'[t] = <<>>
        BY <1>0, <1>13, <2>6, <3>1, ShortSeqs DEF NetInv
      <4>2. Len(resp'[s]) = 1
        BY <4>1, ShortSeqs
      <4> QED BY <1>1, <1>13, <2>1, <2>5, <3>1, <4>1, <4>2 DEF Reopening
    <3>2. CASE u # s
      <4>1. resp'[s] = <<>>
        BY <1>0, <1>13, <2>6, <3>2 DEF NetInv
      <4> QED BY <1>1, <1>13, <2>1, <4>1 DEF Reopening
    <3> QED BY <3>1, <3>2
  <2>8. AnswerInv'
    <3>1. Reopening(sock[cur.c], cur.p)'
      BY <1>1, <1>13, <2>7
    <3> QED BY <1>0, <1>1, <1>b, <1>13, <3>1 DEF AnswerInv
  <2> QED BY <2>4, <2>8 DEF ProcessInv
\* GET_INFO.
<1>14. ASSUME app = "info", s = sock[cur.c], resp[s] = <<>>, Holds(cur.p, s),
              req[s] = <<Request("GET_INFO", cur.p)>>
       PROVE  ProcessInv'
  <2> DEFINE p == cur.p
  <2>1. GetInfo(p) /\ req'[s] = <<>>
    <3>1. Head(req[s]) = Request("GET_INFO", p) /\ Tail(req[s]) = <<>>
      BY <1>14, ShortSeqs
    <3>2. Head(req[s]).type = "GET_INFO" /\ Head(req[s]).p = p
      BY <3>1 DEF Request
    <3> QED BY <1>2, <3>1, <3>2 DEF handleClientRequest
  <2>2. Reply(s, InfoReply(local_cons[p].mr)) /\ UNCHANGED <<server_up, local_cons>>
    BY <1>14, <2>1 DEF GetInfo, Holds, serverVars
  <2>3. SocketInv' /\ BusyInv' /\ IdleInv'
    <3>1. \A x \in Paths : \A t : Holds(x, t) => Holds(x, t)'
      BY <2>2 DEF Holds
    <3> QED BY <1>0, <1>10, <1>14, <2>2, <3>1 DEF SocketInv
  <2> DEFINE r == InfoReply(local_cons[p].mr)
  <2>4. resp' = [resp EXCEPT ![s] = Append(@, r)]
    BY <2>2 DEF Reply
  <2> HIDE DEF r
  <2>5. resp'[s] = <<r>> /\ \A t \in Socks \ {s} : resp'[t] = resp[t]
    BY <1>0, <1>14, <2>4, ShortSeqs DEF NetInv
  <2>6. Len(resp'[s]) = 1
    BY <2>5, ShortSeqs
  <2>7. Recovering(sock[cur.c], cur.p)'
    BY <1>1, <1>14, <2>1, <2>2, <2>6 DEF Recovering, Holds
  <2>8. AnswerInv'
    BY <1>0, <1>1, <1>b, <1>14, <2>5, <2>7 DEF AnswerInv
  <2> QED BY <2>3, <2>8 DEF ProcessInv
<1>15. \/ \E q \in Paths : /\ req[s] = <<Request("CLOSE_FILE", q)>> /\ Holds(q, s)
                           /\ c \in idle_clients /\ (app = "idle" \/ c # cur.c)
       \/ /\ app = "open" /\ s = sock[cur.c]
          /\ \A u \in Socks : resp[u] = <<>>
          /\ req[s] = <<Request("OPEN_FILE", cur.p)>>
       \/ /\ app = "open" /\ s = sock[cur.c]
          /\ \A u \in Socks : resp[u] = <<>>
          /\ \E q \in Paths : /\ req[s] = <<Request("CLOSE_FILE", q), Request("OPEN_FILE", cur.p)>>
                              /\ Holds(q, s)
       \/ /\ app = "info" /\ s = sock[cur.c] /\ resp[s] = <<>> /\ Holds(cur.p, s)
          /\ req[s] = <<Request("GET_INFO", cur.p)>>
  <2>1. \A d \in idle_clients : sock[d] = s => d = c
    BY <1>6 DEF Made
  <2> QED BY <1>1, <2>1, WhoseRequest
<1> QED BY <1>9, <1>12, <1>13, <1>14, <1>15

\* EXIT_PROC of a process that has ended takes a queue pair away and nothing
\* else.
LEMMA SurvivesExit ==
    ASSUME SessionsInv, ProcessInv, NEW s \in Socks, s \in closed, handleClientRequest(s),
           Head(req[s]).type = "EXIT_PROC"
    PROVE  ProcessInv'
<1>0. SocketInv /\ BusyInv /\ IdleInv /\ AnswerInv /\ NetInv
  BY DEF ProcessInv, SessionsInv
<1>1. /\ UNCHANGED <<idle_clients, busy_clients, filename, sock, app, cur, backlog, closed,
                     next_sock, server_up, local_cons, resp>>
      /\ req' = [req EXCEPT ![s] = Tail(@)]
  BY DEF handleClientRequest, ExitProc, fileVars, poolVars, callVars
<1>2. \A t \in Socks \ closed : req'[t] = req[t]
  BY <1>0, <1>1 DEF NetInv
<1>3. Made' = Made /\ \A c \in Made : sock[c] \in Socks \ closed
  BY <1>0, <1>1, MadeSocks DEF Made, SocketInv
<1>4. \A q, t : Holds(q, t)' <=> Holds(q, t)
  BY <1>1 DEF Holds
<1>5. SocketInv'
  <2>1. \A t \in Socks \ closed : (\A d \in Made : sock[d] # t) => req'[t] = <<>>
    BY <1>0, <1>2 DEF SocketInv
  <2> QED BY <1>0, <1>1, <1>3, <2>1 DEF SocketInv
<1>6. BusyInv'
  <2>1. \A b \in busy_clients : req'[sock[b]] = req[sock[b]]
    BY <1>2, <1>3 DEF Made
  <2> QED BY <1>0, <1>1, <1>4, <2>1 DEF BusyInv
<1>7. IdleInv'
  <2>1. \A b \in idle_clients : req'[sock[b]] = req[sock[b]]
    BY <1>2, <1>3 DEF Made
  <2> QED BY <1>0, <1>1, <1>4, <2>1 DEF IdleInv, Request
<1>8. AnswerInv'
  <2>1. (OldOnly' <=> OldOnly) /\ \A u, p : Waiting(u, p)' <=> Waiting(u, p)
    BY <1>1, <1>3 DEF OldOnly, Waiting
  <2>2. CASE app = "idle"
    BY <1>0, <1>1, <2>1, <2>2 DEF AnswerInv
  <2>3. CASE app # "idle"
    <3>1. req'[sock[cur.c]] = req[sock[cur.c]]
      BY <1>2, <1>3, <2>3 DEF Made
    <3>2. /\ Connecting(sock[cur.c], cur.p) => Connecting(sock[cur.c], cur.p)'
          /\ Reopening(sock[cur.c], cur.p) => Reopening(sock[cur.c], cur.p)'
          /\ Recovering(sock[cur.c], cur.p) => Recovering(sock[cur.c], cur.p)'
      <4>1. Connecting(sock[cur.c], cur.p) => Connecting(sock[cur.c], cur.p)'
        BY <1>1, <1>4, <2>1, <3>1 DEF Connecting
      <4>2. Reopening(sock[cur.c], cur.p) => Reopening(sock[cur.c], cur.p)'
        BY <1>1, <1>4, <3>1 DEF Reopening, Request
      <4>3. Recovering(sock[cur.c], cur.p) => Recovering(sock[cur.c], cur.p)'
        BY <1>1, <1>4, <3>1 DEF Recovering, Request
      <4> QED BY <4>1, <4>2, <4>3
    <3> QED BY <1>0, <1>1, <2>1, <3>2 DEF AnswerInv
  <2> QED BY <2>2, <2>3
<1> QED BY <1>5, <1>6, <1>7, <1>8 DEF ProcessInv

\* The process ends: what it has sent is on sockets that are closed now.
LEMMA SurvivesEnd ==
    ASSUME SessionsInv, ProcessInv, NEW exits \in BOOLEAN, ProcessEnd(exits)
    PROVE  ProcessInv'
<1> USE SessionsAssumption
<1>0. SocketInv /\ AnswerInv /\ NetInv /\ SessionsTypeOK
  BY DEF ProcessInv, SessionsInv
<1>1. /\ closed' = 1 .. next_sock - 1 /\ idle_clients' = {} /\ busy_clients' = {}
      /\ app' = "idle" /\ resp' = [s \in Socks |-> <<>>]
      /\ UNCHANGED <<backlog, next_sock, server_up>>
  BY DEF ProcessEnd, serverVars
<1>2. Made' = {}
  BY <1>1 DEF Made
<1>3. \A c \in Made : sock[c] \in 1 .. next_sock - 1
  BY DEF SessionsInv, MadeInv
<1>4. ASSUME NEW s \in Socks \ closed' PROVE req'[s] = <<>>
  <2>1. s \notin closed /\ s \notin 1 .. next_sock - 1
    BY <1>0, <1>1 DEF SocketInv
  <2>2. \A c \in Made : sock[c] # s
    BY <1>3, <2>1
  <2>3. req[s] = <<>>
    BY <1>0, <2>1, <2>2 DEF SocketInv
  <2>4. ~ \E c \in busy_clients : sock[c] = s
    BY <2>2 DEF Made
  <2> QED BY <2>3, <2>4 DEF ProcessEnd
<1>5. \A i \in 1 .. Len(backlog) : backlog[i].s \in 1 .. next_sock - 1
  <2>1. CASE app = "connect" /\ backlog # <<>>
    <3>1. Waiting(sock[cur.c], cur.p) /\ cur.c \in Made
      BY <1>0, <2>1 DEF AnswerInv, Connecting, Made
    <3>2. backlog[Len(backlog)].s \in 1 .. next_sock - 1
      BY <1>3, <3>1 DEF Waiting
    <3>3. ASSUME NEW i \in 1 .. Len(backlog) PROVE i = Len(backlog) \/ i \in 1 .. Len(backlog) - 1
      <4>1. Len(backlog) \in Nat
        BY <1>0 DEF NetInv
      <4> QED BY <4>1
    <3> QED BY <1>0, <3>1, <3>2, <3>3 DEF Waiting, SocketInv
  <2>2. CASE backlog = <<>>
    BY <2>2
  <2>3. CASE app # "connect" /\ backlog # <<>>
    BY <1>0, <2>3 DEF AnswerInv, OldOnly, SocketInv
  <2> QED BY <2>1, <2>2, <2>3
<1>6. SocketInv'
  BY <1>0, <1>1, <1>2, <1>4 DEF SocketInv
<1>7. BusyInv' /\ IdleInv'
  BY <1>1 DEF BusyInv, IdleInv
<1>8. AnswerInv'
  <2>1. OldOnly'
    BY <1>1, <1>2, <1>5 DEF OldOnly
  <2> QED BY <1>1, <2>1 DEF AnswerInv
<1> QED BY <1>6, <1>7, <1>8 DEF ProcessInv

\* ProcessInv is kept as long as the server serves no request that a process
\* left behind.
LEMMA SurvivesStep == SurvivesInv /\ [SessionsNext]_sessionVars => SurvivesInv'
<1> SUFFICES ASSUME SurvivesInv, [SessionsNext]_sessionVars PROVE SurvivesInv'
  OBVIOUS
<1> USE SessionsAssumption
<1>1. SessionsInv /\ SessionsInv'
  BY SessionsTypeStep, PoolStep, MRsStep DEF SurvivesInv, SessionsInv
<1> SUFFICES ASSUME ~leftover' PROVE ProcessInv'
  BY <1>1 DEF SurvivesInv
<1>2. ASSUME UNCHANGED leftover PROVE ProcessInv
  BY <1>2 DEF SurvivesInv
<1>3. ASSUME UNCHANGED <<idle_clients, busy_clients, filename, sock, app, cur, req, resp, backlog,
                         closed, next_sock, server_up, local_cons, leftover>>
      PROVE  ProcessInv'
  <2>1. Made' = Made
    BY <1>3 DEF Made
  <2>2. SocketInv' /\ BusyInv' /\ IdleInv'
    BY <1>2, <1>3, <2>1 DEF ProcessInv, SocketInv, BusyInv, IdleInv, Holds
  <2>3. (OldOnly' <=> OldOnly) /\ \A u, p : Waiting(u, p)' <=> Waiting(u, p)
    BY <1>3, <2>1 DEF OldOnly, Waiting
  <2>4. AnswerInv'
    BY <1>2, <1>3, <2>3 DEF ProcessInv, AnswerInv, Connecting, Reopening, Recovering, Holds
  <2> QED BY <2>2, <2>4 DEF ProcessInv
<1>4. ASSUME NEW p \in Paths, NEW fd \in Fds, NEW trunc \in BOOLEAN, open(p, fd, trunc)
      PROVE  ProcessInv'
  <2>1. CASE csl_path_cli[p] # NoClient
    BY <1>3, <1>4, <2>1 DEF open, getClient, serverVars
  <2>2. CASE csl_path_cli[p] = NoClient
    <3>1. /\ app = "idle" /\ GetClient(p, fd, ~trunc)
          /\ UNCHANGED <<idle_clients, busy_clients, resp, closed, server_up, local_cons, leftover>>
      BY <1>4, <2>2 DEF open, getClient, serverVars
    <3> QED BY <1>1, <1>2, <2>2, <3>1, SurvivesGetClient
  <2> QED BY <2>1, <2>2
<1>5. ASSUME NEW p \in Paths, stat(p) PROVE ProcessInv'
  <2>1. /\ app = "idle" /\ GetClient(p, NoFd, TRUE) /\ csl_path_cli[p] = NoClient
        /\ UNCHANGED <<idle_clients, busy_clients, resp, closed, server_up, local_cons, leftover>>
    BY <1>5 DEF stat, serverVars
  <2> QED BY <1>1, <1>2, <2>1, SurvivesGetClient
<1>6. ASSUME NEW p \in Paths, unlink(p) PROVE ProcessInv'
  BY <1>1, <1>2, <1>6, SurvivesUnlink DEF unlink
<1>7. ASSUME NEW d \in Fds, write(d) \/ close(d) PROVE ProcessInv'
  BY <1>3, <1>7 DEF write, close, poolVars, callVars, netVars, serverVars
<1>8. CASE ReceiveToken \/ TryRecover
  <2>1. UNCHANGED leftover
    BY <1>8 DEF ReceiveToken, TryRecover
  <2> QED BY <1>1, <1>2, <1>8, <2>1, SurvivesAnswer
<1>9. ASSUME NEW exits \in BOOLEAN, ProcessEnd(exits) PROVE ProcessInv'
  BY <1>1, <1>2, <1>9, SurvivesEnd DEF ProcessEnd
<1>10. CASE handleIncomingConnection
  <2>1. ProcessInv
    BY <1>2, <1>10 DEF handleIncomingConnection
  <2>2. CASE app = "connect" /\ Len(backlog) = 1
    BY <1>1, <1>10, <2>1, <2>2, SurvivesConnection
  <2>3. CASE ~(app = "connect" /\ Len(backlog) = 1)
    BY <1>1, <1>10, <2>1, <2>3, SurvivesOldConnection
  <2> QED BY <2>2, <2>3
<1>11. ASSUME NEW s \in Socks, handleClientRequest(s) PROVE ProcessInv'
  <2>1. ~leftover /\ (s \in closed => Head(req[s]).type = "EXIT_PROC")
    BY <1>11 DEF handleClientRequest
  <2>2. ProcessInv
    BY <2>1 DEF SurvivesInv
  <2>3. CASE s \in closed
    BY <1>1, <1>11, <2>1, <2>2, <2>3, SurvivesExit
  <2>4. CASE s \notin closed
    BY <1>1, <1>11, <2>2, <2>4, SurvivesRequest
  <2> QED BY <2>3, <2>4
<1>12. ASSUME NEW s \in Socks, Disconnected(s) PROVE ProcessInv'
  BY <1>3, <1>12 DEF Disconnected, fileVars, poolVars, callVars, netVars
<1>13. CASE UNCHANGED sessionVars
  BY <1>3, <1>13 DEF sessionVars, poolVars, callVars, netVars, serverVars
<1> QED BY <1>4, <1>5, <1>6, <1>7, <1>8, <1>9, <1>10, <1>11, <1>12, <1>13 DEF SessionsNext

\* ServerSurvives: through any number of exits, crashes and restarts, GET_INFO is
\* for a file that the server knows, and local_cons.end() is not used
\* (server.cc:236), until the server serves an OPEN_FILE, CLOSE_FILE or GET_INFO
\* of a process that has ended.
THEOREM ServerSurvivesAlways == SessionsSpec => []ServerSurvives
<1>1. SessionsInit => SurvivesInv
  <2> SUFFICES ASSUME SessionsInit PROVE ProcessInv
    BY SessionsInitial DEF SurvivesInv
  <2>1. SocketInv /\ BusyInv /\ IdleInv
    BY DEF SessionsInit, SocketInv, BusyInv, IdleInv, Made
  <2>2. AnswerInv
    BY DEF SessionsInit, AnswerInv
  <2> QED BY <2>1, <2>2 DEF ProcessInv
<1>2. SurvivesInv /\ [SessionsNext]_sessionVars => SurvivesInv'
  BY SurvivesStep
<1>3. SurvivesInv => ServerSurvives
  BY DEF SurvivesInv, ProcessInv, SocketInv, ServerSurvives
<1> QED BY <1>1, <1>2, <1>3, PTL DEF SessionsSpec

-----------------------------------------------------------------------------
(* Where OPEN_FILE is answered. *)

\* A step of the process that leaves the server alone keeps HeldInv if every
\* client goes on accounting for what it did.
LEMMA HeldKept ==
    ASSUME HeldInv, UNCHANGED <<local_cons, closed>>, Made \subseteq Made',
           \A p \in Paths : \A c \in Made : KeptBy(p, c) => KeptBy(p, c)'
    PROVE  HeldInv'
<1> SUFFICES ASSUME NEW p \in Paths, local_cons'[p] # NoCon, local_cons'[p].sock \notin closed'
             PROVE  \E c \in Made' : KeptBy(p, c)'
  BY DEF HeldInv
<1>1. PICK c \in Made : KeptBy(p, c)
  BY DEF HeldInv
<1> QED BY <1>1

\* GetClient: the client that is taken was idle, and a CLOSE_FILE of it stays in
\* front of the OPEN_FILE.
LEMMA HeldGetClient ==
    ASSUME SessionsInv, ProcessInv, HeldInv, NEW p \in Paths, NEW fd, NEW rec,
           app = "idle", csl_path_cli[p] = NoClient, GetClient(p, fd, rec),
           UNCHANGED <<idle_clients, busy_clients, closed, local_cons>>
    PROVE  HeldInv'
<1>0. SocketInv /\ IdleInv /\ SessionsTypeOK /\ NetInv
  BY DEF ProcessInv, SessionsInv
<1>1. PICK c \in Clients \ busy_clients :
              /\ cur' = [c |-> c, p |-> p, fd |-> fd, recover |-> rec]
              /\ filename' = [filename EXCEPT ![c] = p]
              /\ \/ /\ idle_clients = {} /\ app' = "connect" /\ c = Cardinality(busy_clients)
                    /\ next_sock \in Socks /\ GetQpTo(c, p)
                 \/ /\ c \in idle_clients /\ app' = "open" /\ sock[c] \in Socks
                    /\ Send(sock[c], Request("OPEN_FILE", p))
                    /\ UNCHANGED <<sock, backlog, next_sock>>
  BY GetClientFacts
<1>2. Made = idle_clients \cup busy_clients /\ Made \subseteq Made'
  BY DEF Made
<1>3. \A d \in Made : d \in Clients /\ sock[d] \in Socks
  BY MadeSocks
<1>4. \A d \in Made : d # c => filename'[d] = filename[d]
  BY <1>0, <1>1, <1>3 DEF SessionsTypeOK
<1>5. ASSUME NEW q \in Paths, NEW d \in Made, KeptBy(q, d) PROVE KeptBy(q, d)'
  <2>1. CASE app' = "connect"
    <3>1. d \in busy_clients /\ d # c /\ GetQpTo(c, p)
      BY <1>1, <1>2, <2>1
    <3>2. sock'[d] = sock[d] /\ req' = req
      BY <1>0, <1>3, <3>1 DEF GetQpTo, SessionsTypeOK
    <3> QED BY <1>4, <1>5, <3>1, <3>2 DEF KeptBy, GivenUp, Request
  <2>2. CASE app' = "open"
    <3>1. /\ c \in idle_clients /\ UNCHANGED sock
          /\ req' = [req EXCEPT ![sock[c]] = Append(@, Request("OPEN_FILE", p))]
      BY <1>1, <2>2 DEF Send
    <3>2. CASE d # c
      <4>1. sock[d] # sock[c]
        BY <1>0, <1>2, <3>1, <3>2 DEF SocketInv
      <4>2. req'[sock[d]] = req[sock[d]]
        BY <1>0, <1>3, <3>1, <4>1 DEF NetInv
      <4> QED BY <1>4, <1>5, <3>1, <3>2, <4>2 DEF KeptBy, GivenUp, Request
    <3>3. CASE d = c
      <4>1. GivenUp(q, sock[c]) /\ sock[c] = local_cons[q].sock
        BY <1>1, <1>5, <3>3 DEF KeptBy
      <4>2. PICK y \in Paths : req[sock[c]] = <<Request("CLOSE_FILE", y)>>
        BY <1>0, <3>1, <4>1 DEF IdleInv, GivenUp
      <4>3. req'[sock[c]] = <<Request("CLOSE_FILE", y), Request("OPEN_FILE", p)>>
        BY <1>0, <1>3, <3>1, <3>3, <4>2, AppendTwo DEF NetInv
      <4>4. Head(req[sock[c]]) = Request("CLOSE_FILE", y)
        BY <4>2, ShortSeqs
      <4>5. req'[sock[c]] # <<>> /\ Head(req'[sock[c]]) = Request("CLOSE_FILE", y)
        BY <4>3, ShortSeqs
      <4>6. Request("CLOSE_FILE", y) = Request("CLOSE_FILE", q)
        BY <4>1, <4>4 DEF GivenUp
      <4>7. GivenUp(q, sock[c])'
        BY <3>1, <4>5, <4>6 DEF GivenUp, Request
      <4> QED BY <3>1, <3>3, <4>1, <4>7 DEF KeptBy
    <3> QED BY <3>2, <3>3
  <2> QED BY <1>1, <2>1, <2>2
<1> QED BY <1>2, <1>5, HeldKept

\* unlink: the client that was busy with the file sends its CLOSE_FILE.
LEMMA HeldUnlink ==
    ASSUME SessionsInv, ProcessInv, HeldInv, NEW p \in Paths, unlink(p)
    PROVE  HeldInv'
<1>0. SocketInv /\ BusyInv /\ SessionsTypeOK /\ NetInv /\ OwnerInv
  BY DEF ProcessInv, SessionsInv
<1>1. app = "idle" /\ UNCHANGED <<sock, app, cur, closed, local_cons>>
  BY DEF unlink, callVars, serverVars
<1>2. CASE csl_path_cli[p] = NoClient
  <2>1. UNCHANGED <<busy_clients, idle_clients, filename, req>>
    BY <1>2 DEF unlink
  <2>2. Made' = Made
    BY <1>1, <2>1 DEF Made
  <2> QED BY <1>1, <2>1, <2>2 DEF HeldInv, KeptBy, GivenUp, Request
<1>3. CASE csl_path_cli[p] # NoClient
  <2>1. PICK c \in busy_clients : /\ c = csl_path_cli[p] /\ c \in Clients /\ filename[c] = p
                                  /\ sock[c] \in Socks
    BY <1>3, OwnerFacts
  <2>2. /\ busy_clients' = busy_clients \ {c} /\ idle_clients' = idle_clients \cup {c}
        /\ filename' = [filename EXCEPT ![c] = NoPath]
        /\ req' = [req EXCEPT ![sock[c]] = Append(@, Request("CLOSE_FILE", p))]
    BY <1>3, <2>1 DEF unlink, RecycleClient, Send
  <2>3. Made' = Made /\ c \in Made
    BY <1>1, <2>1, <2>2 DEF Made
  <2>4. req[sock[c]] = <<>> /\ req'[sock[c]] = <<Request("CLOSE_FILE", p)>>
    BY <1>0, <2>1, <2>2, ShortSeqs DEF BusyInv, NetInv
  <2>5. req'[sock[c]] # <<>> /\ Head(req'[sock[c]]) = Request("CLOSE_FILE", p)
    BY <2>4, ShortSeqs
  <2>6. ASSUME NEW q \in Paths, NEW d \in Made, KeptBy(q, d) PROVE KeptBy(q, d)'
    <3>1. CASE d = c
      <4>1. q = p
        BY <1>1, <2>1, <2>4, <2>6, <3>1 DEF KeptBy, GivenUp
      <4>2. GivenUp(p, sock[c])'
        BY <1>1, <2>5 DEF GivenUp, Request
      <4> QED BY <1>1, <2>6, <3>1, <4>1, <4>2 DEF KeptBy
    <3>2. CASE d # c
      <4>1. sock[d] # sock[c] /\ d \in Clients /\ sock[d] \in Socks
        BY <1>0, <2>3, <3>2, MadeSocks DEF SocketInv
      <4>2. req'[sock[d]] = req[sock[d]] /\ filename'[d] = filename[d]
        BY <1>0, <2>2, <3>2, <4>1 DEF NetInv, SessionsTypeOK
      <4>3. d \in busy_clients => d \in busy_clients'
        BY <2>2, <3>2
      <4> QED BY <1>1, <2>6, <4>2, <4>3 DEF KeptBy, GivenUp, Request
    <3> QED BY <3>1, <3>2
  <2> QED BY <1>1, <2>3, <2>6, HeldKept
<1> QED BY <1>2, <1>3

\* The call has its answer: its client stays the one of the file, busy or not.
LEMMA HeldAnswer ==
    ASSUME SessionsInv, ProcessInv, HeldInv, ReceiveToken \/ TryRecover
    PROVE  HeldInv'
<1>0. SocketInv /\ AnswerInv /\ SessionsTypeOK /\ NetInv /\ CallInv
  BY DEF ProcessInv, SessionsInv
<1> DEFINE s == sock[cur.c]
<1>1. /\ app \in {"connect", "open", "info"} /\ resp[s] # <<>>
      /\ UNCHANGED <<filename, sock, closed, local_cons>>
  BY DEF ReceiveToken, TryRecover, serverVars
<1>2. cur.c \in Made /\ filename[cur.c] = cur.p
  BY <1>0, <1>1 DEF Made, CallInv
<1>3. req[s] = <<>>
  <2>1. s \in Socks
    BY <1>2, MadeSocks
  <2>2. CASE app = "connect"
    BY <1>0, <2>2 DEF AnswerInv, Connecting
  <2>3. CASE app = "open"
    <3>1. Reopening(s, cur.p)
      BY <1>0, <2>3 DEF AnswerInv
    <3> QED BY <1>1, <2>1, <3>1 DEF Reopening
  <2>4. CASE app = "info"
    BY <1>0, <1>1, <2>4 DEF AnswerInv, Recovering
  <2> QED BY <1>1, <2>2, <2>3, <2>4
<1>4. CASE HandOut /\ UNCHANGED req
  <2>1. /\ busy_clients' = busy_clients \cup {cur.c} /\ idle_clients' = idle_clients \ {cur.c}
        /\ app' = "idle"
    BY <1>4 DEF HandOut
  <2>2. Made \subseteq Made'
    BY <2>1 DEF Made
  <2>3. ASSUME NEW q \in Paths, NEW d \in Made, KeptBy(q, d) PROVE KeptBy(q, d)'
    <3>1. GivenUp(q, sock[d]) => GivenUp(q, sock[d])'
      BY <1>1, <1>4 DEF GivenUp, Request
    <3> QED BY <1>1, <1>2, <2>1, <2>3, <3>1 DEF KeptBy
  <2> QED BY <1>1, <2>2, <2>3, HeldKept
<1>5. CASE /\ app' = "info" /\ UNCHANGED <<busy_clients, idle_clients, cur>>
           /\ Send(s, Request("GET_INFO", cur.p))
  <2>1. Made' = Made
    BY <1>1, <1>5 DEF Made
  <2>2. ASSUME NEW q \in Paths, NEW d \in Made, KeptBy(q, d) PROVE KeptBy(q, d)'
    <3>1. GivenUp(q, sock[d]) => GivenUp(q, sock[d])'
      <4> SUFFICES ASSUME GivenUp(q, sock[d]) PROVE GivenUp(q, sock[d])'
        OBVIOUS
      <4>1. sock[d] # s /\ sock[d] \in Socks
        BY <1>3, MadeSocks DEF GivenUp
      <4>2. req'[sock[d]] = req[sock[d]]
        BY <1>0, <1>5, <4>1 DEF NetInv, Send
      <4> QED BY <1>1, <4>2 DEF GivenUp, Request
    <3> QED BY <1>1, <1>5, <2>2, <3>1 DEF KeptBy
  <2> QED BY <1>1, <2>1, <2>2, HeldKept
<1> QED BY <1>4, <1>5 DEF ReceiveToken, TryRecover

\* The server accepts a connection, of an ended process or of the call.
LEMMA HeldConnection ==
    ASSUME SessionsInv, ProcessInv, HeldInv, handleIncomingConnection
    PROVE  HeldInv'
<1>0. AnswerInv /\ NetInv /\ SessionsTypeOK
  BY DEF ProcessInv, SessionsInv
<1> DEFINE h == Head(backlog)
<1>1. /\ backlog # <<>>
      /\ UNCHANGED <<idle_clients, busy_clients, filename, sock, app, cur, req, closed>>
  BY DEF handleIncomingConnection, poolVars, callVars
<1>2. Made' = Made
  BY <1>1 DEF Made
<1>3. /\ Len(backlog) \in Nat \ {0} /\ h = backlog[1] /\ h.p \in Paths
  BY <1>0, <1>1, TailBacklog
<1>4. h.s \in closed \/ (app = "connect" /\ h.s = sock[cur.c] /\ h.p = cur.p)
  <2>1. CASE app = "connect"
    <3>1. Waiting(sock[cur.c], cur.p)
      BY <1>0, <1>1, <2>1 DEF AnswerInv, Connecting
    <3>2. CASE Len(backlog) = 1
      BY <1>3, <2>1, <3>1, <3>2 DEF Waiting
    <3>3. CASE Len(backlog) # 1
      <4>1. 1 \in 1 .. Len(backlog) - 1
        BY <1>3, <3>3
      <4> QED BY <1>3, <3>1, <4>1 DEF Waiting
    <3> QED BY <3>2, <3>3
  <2>2. CASE app # "connect"
    <3>1. 1 \in 1 .. Len(backlog)
      BY <1>3
    <3> QED BY <1>0, <1>1, <1>3, <2>2, <3>1 DEF AnswerInv, OldOnly
  <2> QED BY <2>1, <2>2
<1>5. /\ local_cons'[h.p].sock = h.s
      /\ \A q \in Paths \ {h.p} : local_cons'[q] = local_cons[q]
  <2> HIDE DEF h
  <2>1. CASE local_cons[h.p] = NoCon
    <3>1. PICK m \in GetMRofSize :
             local_cons' = [local_cons EXCEPT ![h.p] = [mr |-> m, sock |-> h.s]]
      BY <2>1 DEF handleIncomingConnection, h
    <3> QED BY <1>0, <1>3, <3>1 DEF SessionsTypeOK
  <2>2. CASE local_cons[h.p] # NoCon
    <3>1. local_cons' = [local_cons EXCEPT ![h.p].sock = h.s]
      BY <2>2 DEF handleIncomingConnection, h
    <3>2. local_cons[h.p] \in [mr : MRs \cup {NoMR}, sock : {0} \cup Socks]
      BY <1>0, <1>3 DEF SessionsTypeOK
    <3> QED BY <1>0, <1>3, <3>1, <3>2 DEF SessionsTypeOK
  <2> QED BY <2>1, <2>2
<1> HIDE DEF h
<1>6. ASSUME NEW q \in Paths, local_cons'[q] # NoCon, local_cons'[q].sock \notin closed'
      PROVE  \E c \in Made' : KeptBy(q, c)'
  <2>1. CASE q = h.p
    <3>1. app = "connect" /\ sock[cur.c] = h.s /\ cur.p = q /\ cur.c \in Made
      BY <1>1, <1>4, <1>5, <1>6, <2>1 DEF Made
    <3> QED BY <1>1, <1>2, <1>5, <2>1, <3>1 DEF KeptBy
  <2>2. CASE q # h.p
    <3>1. local_cons'[q] = local_cons[q]
      BY <1>5, <2>2
    <3>2. PICK c \in Made : KeptBy(q, c)
      BY <1>1, <1>6, <3>1 DEF HeldInv
    <3> QED BY <1>1, <1>2, <3>1, <3>2 DEF KeptBy, GivenUp, Request
  <2> QED BY <2>1, <2>2
<1> QED BY <1>6 DEF HeldInv

\* The server handles a request of the process that runs: CLOSE_FILE ends the
\* file it is for, and OPEN_FILE is the one of the call.
LEMMA HeldRequest ==
    ASSUME SessionsInv, ProcessInv, HeldInv, NEW s \in Socks \ closed, handleClientRequest(s)
    PROVE  HeldInv'
<1>0. SessionsTypeOK /\ NetInv
  BY DEF SessionsInv
<1>1. /\ req[s] # <<>> /\ req' = [req EXCEPT ![s] = Tail(@)]
      /\ UNCHANGED <<idle_clients, busy_clients, filename, sock, app, cur, closed>>
  BY DEF handleClientRequest, poolVars, callVars
<1>2. Made' = Made /\ \A c \in Made : sock[c] \in Socks
  BY <1>1, MadeSocks DEF Made
<1>3. \A t \in Socks \ {s} : req'[t] = req[t]
  BY <1>0, <1>1 DEF NetInv
\* A client goes on accounting for a file that the request does not give up.
<1>4. ASSUME NEW q \in Paths, NEW c \in Made, KeptBy(q, c), ~GivenUp(q, s),
             local_cons'[q] = local_cons[q]
      PROVE  KeptBy(q, c)'
  <2>1. GivenUp(q, sock[c]) => GivenUp(q, sock[c])'
    <3> SUFFICES ASSUME GivenUp(q, sock[c]) PROVE GivenUp(q, sock[c])'
      OBVIOUS
    <3>1. sock[c] # s /\ sock[c] \in Socks
      BY <1>2, <1>4
    <3> QED BY <1>1, <1>3, <3>1 DEF GivenUp, Request
  <2> QED BY <1>1, <1>4, <2>1 DEF KeptBy
<1>5. ASSUME NEW q \in Paths, Head(req[s]) = Request("CLOSE_FILE", q), Holds(q, s)
      PROVE  HeldInv'
  <2>1. Head(req[s]).type = "CLOSE_FILE" /\ Head(req[s]).p = q
    BY <1>5 DEF Request
  <2>2. local_cons' = [local_cons EXCEPT ![q] = NoCon]
    BY <1>5, <2>1 DEF handleClientRequest, CloseFile, Holds
  <2>3. ASSUME NEW r \in Paths, local_cons'[r] # NoCon
        PROVE  local_cons'[r] = local_cons[r] /\ ~GivenUp(r, s)
    <3>1. r # q /\ local_cons'[r] = local_cons[r]
      BY <1>0, <2>2, <2>3 DEF SessionsTypeOK
    <3>2. Request("CLOSE_FILE", r) # Request("CLOSE_FILE", q)
      BY <3>1 DEF Request
    <3> QED BY <1>5, <3>1, <3>2 DEF GivenUp
  <2> QED BY <1>1, <1>2, <1>4, <2>3 DEF HeldInv
<1>6. ASSUME app # "idle", s = sock[cur.c], Head(req[s]) = Request("OPEN_FILE", cur.p)
      PROVE  HeldInv'
  <2>1. Head(req[s]).type = "OPEN_FILE" /\ Head(req[s]).p = cur.p /\ \A q \in Paths : ~GivenUp(q, s)
    BY <1>6 DEF Request, GivenUp
  <2>2. OpenFile(s, cur.p) /\ cur.c \in Made /\ cur.p \in Paths
    BY <1>6, <2>1 DEF handleClientRequest, Made, SessionsInv, CallInv
  <2>3. CASE local_cons[cur.p] # NoCon
    <3>1. local_cons' = local_cons
      BY <2>2, <2>3 DEF OpenFile, serverVars
    <3> QED BY <1>1, <1>2, <1>4, <2>1, <3>1 DEF HeldInv
  <2>4. CASE local_cons[cur.p] = NoCon
    <3>1. PICK m \in GetMRofSize :
             local_cons' = [local_cons EXCEPT ![cur.p] = [mr |-> m, sock |-> s]]
      BY <2>2, <2>4 DEF OpenFile
    <3>2. /\ local_cons'[cur.p].sock = s
          /\ \A q \in Paths \ {cur.p} : local_cons'[q] = local_cons[q]
      BY <1>0, <2>2, <3>1 DEF SessionsTypeOK
    <3>3. ASSUME NEW q \in Paths, local_cons'[q] # NoCon, local_cons'[q].sock \notin closed'
          PROVE  \E c \in Made' : KeptBy(q, c)'
      <4>1. CASE q = cur.p
        <5>1. PICK k \in Made : k = cur.c
          BY <2>2
        <5>2. KeptBy(q, k)'
          BY <1>1, <1>6, <3>2, <4>1, <5>1 DEF KeptBy
        <5> QED BY <1>2, <5>2
      <4>2. CASE q # cur.p
        <5>1. local_cons'[q] = local_cons[q]
          BY <3>2, <4>2
        <5>2. PICK c \in Made : KeptBy(q, c)
          BY <1>1, <3>3, <5>1 DEF HeldInv
        <5> QED BY <1>2, <1>4, <2>1, <5>1, <5>2
      <4> QED BY <4>1, <4>2
    <3> QED BY <3>3 DEF HeldInv
  <2> QED BY <2>3, <2>4
<1>7. ASSUME Holds(cur.p, s), Head(req[s]) = Request("GET_INFO", cur.p)
      PROVE  HeldInv'
  <2>1. Head(req[s]).type = "GET_INFO" /\ Head(req[s]).p = cur.p /\ \A q \in Paths : ~GivenUp(q, s)
    BY <1>7 DEF Request, GivenUp
  <2>2. local_cons' = local_cons
    BY <1>7, <2>1 DEF handleClientRequest, GetInfo, Holds, serverVars
  <2> QED BY <1>1, <1>2, <1>4, <2>1, <2>2 DEF HeldInv
<1> QED BY <1>1, <1>5, <1>6, <1>7, WhoseRequest, ShortSeqs

\* HeldInv is kept as long as the server serves no request that a process left
\* behind.
LEMMA AnswersStep == AnswersInv /\ [SessionsNext]_sessionVars => AnswersInv'
<1> SUFFICES ASSUME AnswersInv, [SessionsNext]_sessionVars PROVE AnswersInv'
  OBVIOUS
<1>1. SurvivesInv' /\ SessionsInv
  BY SurvivesStep DEF AnswersInv, SurvivesInv
<1> SUFFICES ASSUME ~leftover' PROVE HeldInv'
  BY <1>1 DEF AnswersInv
<1>2. ASSUME UNCHANGED leftover PROVE ProcessInv /\ HeldInv
  BY <1>2 DEF AnswersInv, SurvivesInv
<1>3. ASSUME UNCHANGED <<idle_clients, busy_clients, filename, sock, app, cur, req, closed,
                         local_cons, leftover>>
      PROVE  HeldInv'
  <2>1. Made' = Made
    BY <1>3 DEF Made
  <2> QED BY <1>2, <1>3, <2>1 DEF HeldInv, KeptBy, GivenUp, Request
<1>4. ASSUME NEW p \in Paths, NEW fd \in Fds, NEW trunc \in BOOLEAN, open(p, fd, trunc)
      PROVE  HeldInv'
  <2>1. CASE csl_path_cli[p] # NoClient
    BY <1>3, <1>4, <2>1 DEF open, getClient, serverVars
  <2>2. CASE csl_path_cli[p] = NoClient
    <3>1. /\ app = "idle" /\ GetClient(p, fd, ~trunc)
          /\ UNCHANGED <<idle_clients, busy_clients, closed, local_cons, leftover>>
      BY <1>4, <2>2 DEF open, getClient, serverVars
    <3> QED BY <1>1, <1>2, <2>2, <3>1, HeldGetClient
  <2> QED BY <2>1, <2>2
<1>5. ASSUME NEW p \in Paths, stat(p) PROVE HeldInv'
  <2>1. /\ app = "idle" /\ GetClient(p, NoFd, TRUE) /\ csl_path_cli[p] = NoClient
        /\ UNCHANGED <<idle_clients, busy_clients, closed, local_cons, leftover>>
    BY <1>5 DEF stat, serverVars
  <2> QED BY <1>1, <1>2, <2>1, HeldGetClient
<1>6. ASSUME NEW p \in Paths, unlink(p) PROVE HeldInv'
  BY <1>1, <1>2, <1>6, HeldUnlink DEF unlink
<1>7. ASSUME NEW d \in Fds, write(d) \/ close(d) PROVE HeldInv'
  BY <1>3, <1>7 DEF write, close, poolVars, callVars, netVars, serverVars
<1>8. CASE ReceiveToken \/ TryRecover
  <2>1. UNCHANGED leftover
    BY <1>8 DEF ReceiveToken, TryRecover
  <2> QED BY <1>1, <1>2, <1>8, <2>1, HeldAnswer
<1>9. ASSUME NEW exits \in BOOLEAN, ProcessEnd(exits) PROVE HeldInv'
  <2>1. /\ closed' = 1 .. next_sock - 1 /\ local_cons' = local_cons /\ leftover' = leftover
    BY <1>9 DEF ProcessEnd, serverVars
  <2>2. closed \subseteq 1 .. next_sock - 1 /\ \A c \in Made : sock[c] \in 1 .. next_sock - 1
    BY <1>1, <1>2, <2>1 DEF ProcessInv, SocketInv, SessionsInv, MadeInv
  <2> QED BY <1>2, <2>1, <2>2 DEF HeldInv, KeptBy
<1>10. CASE handleIncomingConnection
  BY <1>1, <1>2, <1>10, HeldConnection DEF handleIncomingConnection
<1>11. ASSUME NEW s \in Socks, handleClientRequest(s) PROVE HeldInv'
  <2>1. ~leftover /\ (s \in closed => Head(req[s]).type = "EXIT_PROC")
    BY <1>11 DEF handleClientRequest
  <2>2. ProcessInv /\ HeldInv
    BY <2>1 DEF AnswersInv, SurvivesInv
  <2>3. CASE s \in closed
    <3>1. /\ UNCHANGED <<idle_clients, busy_clients, filename, sock, app, cur, closed, local_cons>>
          /\ req' = [req EXCEPT ![s] = Tail(@)]
      BY <1>11, <2>1, <2>3 DEF handleClientRequest, ExitProc, poolVars, callVars
    <3>2. Made' = Made /\ \A c \in Made : sock[c] \in Socks /\ sock[c] # s
      BY <1>1, <2>2, <2>3, <3>1, MadeSocks DEF Made, ProcessInv, SocketInv
    <3>3. \A c \in Made : req'[sock[c]] = req[sock[c]]
      BY <1>1, <3>1, <3>2 DEF SessionsInv, NetInv
    <3>4. ASSUME NEW q \in Paths, NEW c \in Made, KeptBy(q, c) PROVE KeptBy(q, c)'
      BY <3>1, <3>3, <3>4 DEF KeptBy, GivenUp, Request
    <3> QED BY <2>2, <3>1, <3>2, <3>4, HeldKept
  <2>4. CASE s \notin closed
    BY <1>1, <1>11, <2>2, <2>4, HeldRequest
  <2> QED BY <2>3, <2>4
<1>12. ASSUME NEW s \in Socks, Disconnected(s) PROVE HeldInv'
  BY <1>3, <1>12 DEF Disconnected, fileVars, poolVars, callVars, netVars
<1>13. CASE UNCHANGED sessionVars
  BY <1>3, <1>13 DEF sessionVars, poolVars, callVars, netVars, serverVars
<1> QED BY <1>4, <1>5, <1>6, <1>7, <1>8, <1>9, <1>10, <1>11, <1>12, <1>13 DEF SessionsNext

\* AnsweredElsewhere: the token for an OPEN_FILE goes to another socket than the one
\* it came on (server.cc:191) only when it overtakes the CLOSE_FILE of the client
\* that had the file, or when an ended process had left the file open.
THEOREM AnsweredElsewhereAlways == SessionsSpec => []AnsweredElsewhere
<1>1. SessionsInit => AnswersInv
  <2> SUFFICES ASSUME SessionsInit PROVE ProcessInv /\ HeldInv
    BY SessionsInitial DEF AnswersInv, SurvivesInv
  <2>1. SocketInv /\ BusyInv /\ IdleInv
    BY DEF SessionsInit, SocketInv, BusyInv, IdleInv, Made
  <2>2. AnswerInv
    BY DEF SessionsInit, AnswerInv
  <2>3. HeldInv
    BY DEF SessionsInit, HeldInv
  <2> QED BY <2>1, <2>2, <2>3 DEF ProcessInv
<1>2. AnswersInv /\ [SessionsNext]_sessionVars => AnswersInv'
  BY AnswersStep
<1>3. AnswersInv => AnsweredElsewhere
  <2> SUFFICES ASSUME AnswersInv, ~leftover, NEW s \in Socks \ closed, NEW p \in Paths,
                      req[s] # <<>>, Head(req[s]) = Request("OPEN_FILE", p),
                      local_cons[p] # NoCon, local_cons[p].sock # s,
                      local_cons[p].sock \notin closed
               PROVE  GivenUp(p, local_cons[p].sock)
    BY DEF AnsweredElsewhere, GivenUp
  <2>1. SessionsInv /\ ProcessInv /\ HeldInv
    BY DEF AnswersInv, SurvivesInv
  <2>2. Head(req[s]).type = "OPEN_FILE" /\ Head(req[s]).p = p
    BY DEF Request
  <2>3. app = "open" /\ s = sock[cur.c] /\ Head(req[s]) = Request("OPEN_FILE", cur.p)
    <3>1. \A q : Head(req[s]) # Request("CLOSE_FILE", q) /\ Head(req[s]) # Request("GET_INFO", q)
      BY <2>2 DEF Request
    <3> QED BY <2>1, <3>1, WhoseRequest, ShortSeqs
  <2>4. cur.p = p /\ csl_path_cli[p] = NoClient
    BY <2>1, <2>2, <2>3 DEF Request, SessionsInv, CallInv
  <2>5. PICK c \in Made : KeptBy(p, c)
    BY <2>1 DEF HeldInv
  <2>6. ~(c \in busy_clients /\ filename[c] = p)
    <3>1. c \in Clients /\ c # NoClient
      BY <2>1, MadeSocks, SessionsAssumption DEF Clients
    <3> QED BY <2>1, <2>4, <3>1 DEF SessionsInv, OwnerInv
  <2>7. c # cur.c
    BY <2>3, <2>5 DEF KeptBy
  <2> QED BY <2>5, <2>6, <2>7 DEF KeptBy
<1> QED BY <1>1, <1>2, <1>3, PTL DEF SessionsSpec

=============================================================================
