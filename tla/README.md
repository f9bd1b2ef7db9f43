# TLA+ models of compute-side-log

This directory holds a formal model of Near-Compute-Log (`src/`): TLA+ modules
translated from the C++ source, TLC configurations that check them on small
instances, and TLAPS proofs for every value of the constants. Line numbers below
are those of the repository's files; `client.cc` stands for
`src/rdma/client.cc`, `server.cc` for `src/rdma/server.cc`.

## 1. The system

An application opens a log file with `O_CSL`. The preloaded library redirects
the file calls to a `CSLClient`, which keeps the file in a local registered
buffer and replicates every write, with one-sided RDMA, into memory regions
(MRs) of replication servers. ZooKeeper knows the servers (ephemeral nodes under
`/servers`) and the peers of each client machine (a persistent node under
`/clients`).

| Component | State | Operations | Interacts with |
|---|---|---|---|
| Quorum write path (`client.cc` 208-341) | `buffer`, `*seq_addr`, `file_size`, `seq`, `buf_offset`, per peer `op_queue`, `recover_lock` | `Append`, `WritePos`, `WriteQuorum`, `WriteSync`, `quorumCompleted` | RDMA queue pairs; shares `peers`, `remote_props`, `recover_lock` with the watcher thread, and everything with other application threads |
| Peer replacement (`client.cc` 420-517, 615-620, 688-746) | `peers`, `remote_props`, `rep_factor`, ZooKeeper watches | `ClientWatcher`, `replacePeer`, `AddPeer`, `recoverPeer`, `updateClientZKNode`, `watchForPeerJoin` | runs on the ZooKeeper completion thread, concurrently with writes |
| Crash recovery (`client.cc` 43-181, 519-613, 656-675) | the persistent ZooKeeper node, the replicas' MRs | constructor, `getPeersFromZK`, `TryRecover`, `getRecoverSrcPeer`, `recoverFromSrc`, `recoverPeers` | servers (GET_INFO, RDMA read and write) |
| File interface (`csl.cc`, `client.cc` 316-408) | `buf_offset`, `file_size`, `buffer` | `write`, `pwrite`, `read`, `fread`, `pread`, `lseek`, `fseek`, `ftruncate`, `fgets`, `feof`, `ftello`, `fstat`, `fsync` | the write path |
| File tables and client pool (`csl.cc`, `client_pool.cc`, `qp_pool.cc`) | `csl_fd_cli`, `csl_path_cli`, `idle_clients`, `busy_clients` | `open`, `close`, `unlink`, `stat`, `GetClient`, `RecycleClient` | requests over the sockets of the queue pairs |
| Replication server (`server.cc`, `mr_pool.cc`) | `local_cons`, `existing_qps`, `free_mrs`, the MRs | `Run`, `handleIncomingConnection`, `handleClientRequest`, `GetMRofSize`, `RecycleMR`, `findSize` | all of the above |
| Address lists (`util.h`) | none; the text of the client's ZooKeeper node | `generateIpString`, `parseIpString` | written by the quorum client, read by its successor |
| System call statistics (`ncl_stat.cc`, `ncl_stat.h`; a library of its own) | `fd_stat`, `fd_accumulated`, `ext_stat` | `open`, `write`, `fsync`, `close` | the kernel |
| `properties`, `csl_config.h`, command line programs | none that the log depends on | arguments, examples | not modelled |

What is hard: the application thread and the completion thread share the peer
table with no lock except `recover_lock`, which is taken and released in
unusual ways; RDMA writes read the buffer when the card executes them, not when
they are posted; peers fail, are expired wrongly, come back, and die while they
are being recovered; the client crashes in the middle of a write or a recovery;
requests on different sockets are reordered; pooled clients and MRs carry state
from one file to the next; several application threads append to one file with
`file_size` unprotected, and open, use and close descriptors whose numbers the
kernel hands out again. `PROJECT.json` lists these hazards line by line with
the properties that cover them.

What makes each part correct: a write that returned with a quorum behind it is
on a peer that survives (one that returns without a quorum, client.cc:287, is
promised nothing); a replacement becomes an exact copy; writes return and
redundancy is restored; a restarted client gets back every acknowledged write;
the file behaves like that of glibc, but for differences that are listed, also
with several writers; a descriptor leads to the file it was opened on; no MR and
no pooled client serves two files.

## 2. Modules

| Module | Models | Rests on |
|---|---|---|
| `Rdma` | buffer, queue pairs, the network card, server MRs (external library as `client.cc` uses it) | - |
| `ZooKeeper` | ephemeral nodes, one-shot watches, the event queue (external) | - |
| `QuorumWrite` | one open file: writer thread, completion thread, failing servers | `Rdma`, `ZooKeeper` |
| `PeerList` | the text of the client's ZooKeeper node, as operators | - |
| `CrashRecovery` | `QuorumWrite` plus crashes and restarts of the client | `QuorumWrite`, `PeerList` |
| `SharedFile` | several threads in `Append` and `WritePos` of one file, one replica | - |
| `PosixFile` | abstract: what the comments of `client.h` promise of the file calls | - |
| `NclFile` | abstract: the file the code delivers, `PosixFile` with a list of differences | `PosixFile` |
| `LogFile` | the calls as implemented on the buffer; refines `NclFile` | `NclFile` |
| `Sessions` | files opened, closed, unlinked; pool; sockets; server with its MRs | - |
| `FileTables` | several threads in the tables of `csl.cc` and the pool | - |
| `IoStat` | the statistics library | - |
| `QuorumWriteProofs` | theorems: types, `CaughtUp`, `AckedHeld` | `QuorumWrite` |
| `QuorumDurableProofs` | theorems: `Durable`; `SuspendedBlocksWrites` within a number of failures | `QuorumWriteProofs` |
| `CrashRecoveryProofs` | theorems: types, the text of the node, no recovery loses an acknowledged write | `CrashRecovery`, `QuorumDurableProofs` |
| `SharedFileProofs`, `FileTablesProofs`, `SessionsProofs` | theorems: every safety property of the module | the module of that name |
| `LogFileProofs` | theorems: `OffsetInFile`, `Refinement`, `GlibcElsewhere` | `LogFile` |
| `IoStatProofs` | theorems: `BytesConserved`, `OthersSynced`, the classification of paths | `IoStat` |
| `MC*` | instances for TLC | |

### How the models correspond to the code

*Rdma.* A cell of `buffer` is one application record, written by the number of
its write, so that a larger number is a later write. `writeTwoPlace` appends a
data work request and a sequence-word request to `sendq[p]`; `NicPlace` copies
one cell of the oldest request from the *current* buffer, `NicComplete` finishes
it. A request posted to a dead process never completes.

*QuorumWrite.* `wpc` is where the application thread is: `copy` (memcpy, 320),
`stamp` (321), `lock` (235), `post` (242-253), `poll` (255-275). `cpc` is where
`ClientWatcher` is: `pick` (`replacePeer`), `exists` (`zoo_wexists`), `recover`
and `rwait` (`recoverPeer`), `update` (`updateClientZKNode`), `joined` (738-743),
`failed` (700-707), `watch` (709). Each value is a point where the other thread,
the card or ZooKeeper can step in. `recover_lock` is a mutex anybody can
unlock, as `std::mutex` over a glibc mutex is in practice. A peer inserted while
the posting loop runs may or may not be visited by it (`PostTo`). `nwr`, `loc`,
`acks`, `synced` and `suspended` are history.

*CrashRecovery.* `ClientCrash` forgets the process; `Restart` is the constructor
up to `init`, with the peers parsed from the text `generateIpString` made. With
`O_TRUNC` the file is then open (`OpenTruncated`; `try_recover` is false,
client.cc:81); otherwise `GetInfo` is the exchange with the peers and the choice
of the source. A peer that dies before it answers leaves `getinfo_resp`
uninitialised, as `recv` is unchecked: `Answers` gives its sequence number and its
size independently any value up to `MaxGarbage`, which is above the size of the
buffer. If these numbers name the dead peer as source, the RDMA read never
completes (size not 0), or the file is opened empty (size 0). The sends and
receives of `GetInfo` are one step, taken at the last answer: a peer of the node
is written to by nobody until the client has chosen, and what a peer answered
before it died is one of the values `Answers` gives it. `ReadSource`, `SyncPeers`
and `SyncDone` are the rest of `TryRecover`. The completion thread runs during
all of it. `forgot` is a history variable: the acknowledged writes that an open
left out of the file, because it was asked to (`O_TRUNC`) or because it found no
source. Whether the latter loses anything is the subject of
`NoReplicaMeansNoData`.

*PeerList.* A text is a sequence of characters with positions from 0, an address
any non-empty sequence of characters other than `:` and `/`. `find` and `substr`
are those of `std::string`, with -1 for `npos` as the code's `int`s have it, and
`parseIps` is the do-while loop over `pos` and `next_pos`, iteration by iteration.

*SharedFile.* The complement of `QuorumWrite`: several writers, one peer that
does not fail. `pc[t]` names the next access of thread `t` to shared state:
`reserve` (318), `maxsize` and `setsize` (the two halves of 319 and 332), `copy`
(320), `draw` and `stamp` (the two halves of 321), `lock` (235), `post`, `wait`.
`use_quorum` is the build (`USE_QUORUM_WRITE`), chosen in `Init`: `WriteQuorum`
holds `recover_lock` while it posts and waits, `WriteSync` posts without it.
`reserved`, `settled`, `call` and `calls` are history.

*LogFile.* One action per wrapper of `csl.cc`, each calling the method of
`CSLClient` it calls; `size_t` arithmetic is modulo `SizeRange`. `call` and
`ret` record the last call and its result, so that the refinement compares
return values too. `WithinFile` restricts the *application* to the inside of the
file: it keeps to the size limit of the repository's README (the only one of
these limits that is documented), does not seek or `pread` beyond the end, and
does not `fgets` up to an end behind which `ftruncate` left a newline. Every other
call is in, with what the code does: `NclFile` says how this differs from
`PosixFile`, that is from glibc. `ftruncate` below the offset moves it; `SEEK_END`
ignores the offset and an unknown `whence` is accepted; `fseek` returns the
position and `fread` the bytes; `fgets` does not see a newline at the start and
takes one that does not fit; a file that is not recovered is as long as the last
one. `reopen` is the client's way through the pool: the file is unlinked
(`Reset`), the next one gets the same client (`SetFileInfo`) and, unless opened
with `O_TRUNC`, what its peers hold (`TryRecover`). `Differs` of `NclFile` is the
list of the calls that need not do what glibc does; `GlibcElsewhere` says that it
is complete.

*Sessions.* Two processes talking over FIFO sockets, whose relative order is
free. `app` says what the application thread waits for inside `getClient`.
File contents are reduced to empty or not, sequence numbers to 0 or not. A
process can exit (EXIT_PROC is sent) or crash, and its last requests are still
served; `leftover` records that one of them, other than EXIT_PROC, was. Where the code dereferences `local_cons.end()` (server.cc:236) the
server crashes; a reply of the wrong type is read as arbitrary bytes. Replies
are taken to arrive whole.

*FileTables.* One step per lock section or kernel call. `FromPool` takes an idle
client or makes the next one; nothing bounds the pool but the callers. A call
that found no client goes to the kernel with its number, whatever that is open
on by then. `pc` names the next one:
`getclient` and `insert` (`getClient`, before and after the pool's lock), `use`
(the client copied under `csl_lock` is used after the unlock), `sync`, `erase`
and `kclose` (`close` and `fclose`), `erasepath` and `kunlink` (`unlink`). Two
things are asked of the application, because nothing in the code does them:
`open` with `O_CSL`, `stat` and `unlink` do not overlap each other (`path_call`;
`csl_path_cli` is an unlocked `unordered_map`), and no call begins on a
descriptor that is being opened or closed. A call that began before a close of
its descriptor goes on. `sync_internal` looks without the lock: while another
thread inserts or erases it may miss its entry. `close` erases through an
iterator it found before it let go of the lock; that it still points to its entry
after an insert by another thread is true of libstdc++, whose nodes do not move,
not of every `unordered_map`. `stale` and `stale_use` mark
descriptors and calls whose file was unlinked since; their client may be another
file's by then, and the properties leave them out.

*IoStat.* A path is a sequence of words, `/` and `.`; the operators of
`ncl_stat.h` work on it with `rfind`. `Class` says independently, from the parts
a path is built of, which histogram a file belongs to; `Words` are the parts of a
path without `/` and `.`, and the constants are assumed to use nothing else. A
histogram is the sum of the values it took; one above `HistMax` it does not take
(`hdr_init` gives 1 GiB), and `oversized` adds these up. A write counts what was
asked for, before the kernel takes all, some or none of it (`requested`). `save`
is the thread that prints: the library's own `fopen` and `fclose` get its csv
files, so `ib_logfile_stat.csv` enters the tables as a log. The library's mutex is
commented out: each call is one step here, so races inside the unlocked tables
are left out, and so is the buffer of a stream.

## 3. Runs

| Run | Instance | Shows |
|---|---|---|
| `quorum_r3` | 3 replicas of 4 servers, 2 cells, 2 writes, 1 crash | `CaughtUp`, `AckedHeld`, `Durable`: a spare takes over at any step of a write; quorum smaller than the peers, so queues build up |
| `quorum_r2` | 2 replicas of 3 servers, 2 writes, 1 crash, 1 wrong expiry, 1 start | `IndInv` on all reachable states before it is proved; `SuspendedBlocksWrites`; failed replacements, child events |
| `quorum_live` | 3 of 4 servers, 1 write, 1 crash, fair | `WriteReturns`, `RedundancyRestored` |
| `recovery_r2` | 2 of 3 servers, 3 writes, 1 server crash, 2 client crashes, unread answers of 0..4 | `RecoversAcked`, `AckedOnEveryPeer`, `NodeReadBack`: also crashes during recovery, truncating opens and a peer that dies before it answers |
| `logfile` | 3 cells, strings of 1 and 2 characters, newlines, offsets -1..4, every `whence` | `OffsetInFile`, `Refinement` of `NclFile`, across files; `GlibcElsewhere`: the list of differences is complete |
| `sessions` | 2 files, 1 descriptor, 2 MRs, 1 exit or crash | `PoolOK`, `MRsDisjoint`, `ServerSurvives`, `AnsweredElsewhere` |
| `shared_file` | 2 threads, 2 cells, 3 calls of up to 2 cells, both builds, fair | `AppendsTile`, `ReplicaFollows`, `SettledSizeKept`, `CallsReturn` |
| `file_tables` | 2 threads, 2 paths, 2 descriptors | `FdRouted`, `CallReachesItsFile`, `PathsOwnClients` |
| `iostat` | 2 descriptors, 20 paths and the saving thread's, 2 bytes, histograms up to 1 | `BytesConserved`, `OthersSynced` |
| `lost_wakeup` | 3 servers, 1 crash, 1 start, fair | *violation*: a join between search and watch is missed (client.cc:709) |
| `no_replica` | 2 servers | *violation*: one acknowledged write, sequence number 0, "none server has replication" (client.cc:592) |
| `recover_source` | 3 servers, 3 writes, 1 client crash | *violation*: the source lacks an acknowledged write (client.cc:585) |

The violations are disagreements between the code and its own comments or
assertions; `PROJECT.json` quotes both. In `recover_source` two causes lead to
the same end: the minimum at client.cc:585 chooses the peer that lags most, and
the sequence word can reach a peer ahead of the data, because the card reads it
late; TLC reports the second first, as its trace is shorter. With two replicas a
quorum is both peers and neither can happen, which is why `recovery_r2` passes.

### Known defects without a run

The models also reach these; each can be seen by stating the quoted line as a
property.

* `FinishChild` (client.cc:739) unlocks `recover_lock` whenever a majority of
  peers is connected, whether or not `ClientWatcher` locked it. With three
  replicas, a failure and a server that joins make a write lose its lock, and
  after two more failures a suspension coexists with it: `SuspendedBlocksWrites`
  holds in `quorum_r2` and fails with `RepFactor = 3` and three failures
  (section 4 says up to how many it holds).
* An open with `O_TRUNC` after a restart leaves the peers as they are
  (client.cc:81): until enough is written over it, the old file with its sequence
  number is what the next recovery finds (`OpenTruncated`).
* `fgets` takes a newline that does not fit, which puts the terminating zero one
  byte beyond the caller's buffer, and merges an empty line with the next
  (client.cc:398; client.h:180 says "expected to be consistent with glibc
  FGETS(3)"); `ftruncate` below the offset moves the descriptor (client.cc:383;
  client.h:172 says the same of TRUNCATE(2)); the client of a recycled file keeps
  its `file_size` (client.cc:410-418; client_pool.h:50 says "initialized as
  empty"). `NclFile!Differs` lists these and the lesser ones.
* `pread` and `read` beyond the end of the file return as much as was asked for,
  because `file_size - pos` wraps around (client.cc:354; client.h:156 says
  "consistent with glibc PREAD(2)"); `LogFile` has it without `WithinFile`.
* OPEN_FILE of a reused name can overtake the CLOSE_FILE on the socket of the
  file's previous client: the token goes to that socket and `open` never returns
  (server.cc:191; the line before asserts in debug builds that the sockets match,
  "socket unmatch"). `AnsweredElsewhere` says that, while no left over request has
  been served, only this and a file of an ended process lead there.
* A peer that joined through a child event is never added to the client's node
  (client.cc:744), so a restarted client does not know it.
* Once the server has served a request that a dead process left behind, GET_INFO
  can miss its file and the server crashes (server.cc:236); `ServerSurvives` says
  that nothing else leads there.
* Two threads that open a path for the first time each get a client
  (csl.cc:92-97); `FileTables` excludes the overlap.
* Two calls that overlap can leave `file_size` short of the longer one
  (client.cc:319); `SettledSizeKept` says how far this goes.
* `open` of a path that already has a client keeps the offset and ignores
  `O_TRUNC` (csl.cc:93); `stat` of an empty ordinary file binds it to a client
  for good (csl.cc:557).
* The monitor loop of `server.cpp:33` calls `local_cons[fileid]` while the
  server thread erases, which can insert an entry without a buffer
  (server.cc:283).

`CHECK_DEADLOCK FALSE` is set where the system may stop: the application writes
a bounded number of times, a write waits for peers that never come, and an
`open` waits for an answer sent elsewhere (above).

### Bounds

* Two writes on two cells are the fewest with which a write overwrites another
  or extends the file, and a token queue holds more than one token.
* One more server than replicas gives one replacement; `MaxStarts` and
  `MaxExpiries` add joins, failed registrations and reconnections.
* One crash is what `rep_factor = 3` tolerates. With two, the code has the
  endless loop its own comment at client.cc:269 describes, so liveness is asked
  for one.
* Two files and one descriptor let a client and an MR move from one file to the
  other and a descriptor outlive its file; one restart gives requests of a dead
  process next to those of its successor.
* Two threads and three calls on two cells: a thread that finishes and calls
  again while the other is anywhere inside its call, overlapping ranges, and a
  file size that is settled, raised and raced for. The table properties were
  also checked once with three threads.
* Two descriptors and two paths: one is closed and its number reused while a
  call on it is in progress, next to a descriptor of the other path.
* 20 paths: every combination of a dot in a directory or not, the directory
  `ycsb` last or not, and names of logs, tables, neither, and misleading ones.
* Three cells, two characters: every boundary of the buffer, and every place of
  a newline, within reach of strings of length two; counts and offsets one
  beyond the buffer on either side.
* `MaxGarbage = 4`: an unread answer below, among and above the sequence numbers
  in use, with a size inside the buffer and above it.
* `HistMax = 1` with writes of 1 and 2 bytes: counts the histogram takes, and
  counts above it by one write or by two.

Servers are interchangeable when all start registered, so they are symmetric;
liveness runs use no symmetry.

### Fairness

`FairSpec` assumes weak fairness of the writer inside a write (a running
thread), of the completion thread (the C library calls watchers as events
arrive), of the card for each connected peer (reliable queue pairs) and of
ZooKeeper noticing dead sessions (its timeout). Nothing forces writes, crashes
or servers to start.

`SharedSpec` assumes weak fairness of each thread inside a call and of the card.
A mutex does not promise the lock to a waiting thread; calls are bounded, so
there is nobody left to overtake it for ever.

## 4. Proofs

Every theorem holds for all values of the constants that satisfy the `ASSUME`s
of the module: finite sets of servers, paths and so on, positive sizes, bounds
that are naturals. Each proof has an inductive invariant, a lemma per conjunct
with one case per action, and a last step that combines them.

### One file, failing servers (`QuorumWrite!Spec`)

* `TypeCorrect`, `Inductive`, `CaughtUpAlways`,
  `AckedHeldAlways` (`QuorumWriteProofs`). `CaughtUp` speaks of quiet moments
  only; `CopyInv` says in every state that a cell of a *good* peer (recovered,
  or with its bulk copy posted) is equal to the buffer, or covered by a posted
  request, or about to be posted by the current write. That the bulk copy covers
  everything needs `EofInv`: nothing lies beyond `file_size`, in the buffer or in
  any MR, because `file_size` is raised before the memcpy. That the posting loop
  reaches a peer whose copy was posted too early for the current write needs
  `PeersInv` and `Unposted`. `AckedHeld` needs, for each write, not just some
  request for its cell but one *no younger* than the write (`Reaches`,
  `HeldInv`), and that tokens leave `op_queue` in order (`QueueInv`), so that when
  `w` is flagged no request with a number up to `w` is left (`AcksInv`).
* `DurableInductive`, `DurableAlways` (`QuorumDurableProofs`). `Durable` counts:
  with at most `rep_factor / 2` failures, a majority of counted peers has a
  member that is still recovered and connected. The invariant charges every
  peer that was counted for a write and is out of `synced` to a failure of its
  own: a deleted event in the queue, an orphaned node, or a past failure whose
  event was handled (`AckLoadInv`, while the write polls `PollInv`). `ChargeInv`
  bounds the failures handled, and charges the peer that is being added to the
  failure that called for it: a peer may be counted before it is recovered, and
  may die then. `WatchInv` says that no failure is handled twice (watches are on
  peers only, a deleted event is in the queue once). From `AckedHeld` the member
  left over holds the write.

* `SuspendedBlocksWritesAlways` (`QuorumDurableProofs`): while no more than
  `rep_factor - rep_factor / 2` servers have failed (`FewFailures`), a writer
  neither posts nor polls while `ClientWatcher` holds writes back. This is the
  number of failures at which a suspension is first possible, so the theorem
  says that the first suspension works. The condition cannot be dropped: with
  `RepFactor = 3` and one failure more TLC finds a counterexample, the end of a
  child event having unlocked `recover_lock` under a writer (section 3). The
  invariant `LockInv` says that this unlock takes a replacement, and that every
  replacement leaves a failure to spare (`Spare`): peers lost and not replaced
  are fewer than the failures handled. When the watcher then finds half of the
  peers lost, there have been more failures than `FewFailures` allows, or no
  replacement, and then the writer still has the lock and the watcher waits.

### Crash recovery (`CrashRecovery!CRSpec`)

* `CRTypeCorrect`: with an uninitialised answer of a dead peer, whose numbers
  may be of any size (`MaxGarbage` is any natural number), the size `TryRecover`
  gives the file still fits the buffer: a size that came from a live peer does
  (`FindSizeExact` shows that `findSize` exists and what it returns), and any
  other is read from nobody.
* `NodeReadBackAlways`: `parseIpString(generateIpString(P, 0))` gives back the
  addresses and their number, for every finite set of peers with addresses of any
  length. The text is made from *some* order of the set. The proof follows the
  loop of `parseIpString`: after `k` iterations `pos` and `next_pos` are the
  borders of the `k`-th address in the text. Epochs, which the code can write and
  read but never uses, are only model-checked.
* `CRInductive`, `RecoversAckedAlways`, `AckedOnEveryPeerAlways`, under
  `TwoReplicas`: a replication factor of 2 with at least two servers at the
  start (the configuration of `recovery_r2`), `MaxStarts = 0` and
  `MaxExpiries = 0`, any number of servers, crashes of servers and of the client,
  writes and cells. Each hypothesis is needed. With three replicas the property
  is false (run `recover_source`). With `MaxExpiries = 1` or `MaxStarts = 1` in
  `recovery_r2` TLC finds a counterexample as well: a peer expired although it
  lived and later added again still has its old sequence number and is chosen
  as the source; a source that died during the recovery comes back empty and is
  added again before it is read.

  The argument: a quorum is both peers, so an acknowledged write has left every
  `op_queue` (`TokenInv`, `QuorumInv`), and to a peer that was given the file every
  write comes in its work requests or has come (`KeptInv`, with `BufInv` for what
  a bulk copy carries). So when the client crashes and all servers in its node
  are up, each of them has all acknowledged writes or, never having been given
  a write, no sequence number (`SourceInv`). That nothing else is taken for a
  source takes the rest: the node lists the client's peers unless one of them is
  dead, in which case no client ever starts from it again (`NodeInv`); a server
  the file is not kept on has no sequence number (`SpareInv`), so one added while
  the client recovers is not chosen. Where this could go wrong is a
  replacement that dies before `zoo_wexists` (`WatchPeer`): `ClientWatcher` never
  hears of it (`Lost`), later counts may be off by one, and a third peer may
  join (`JoinInv`). The invariant shows that this is harmless to recovery: while
  a peer is lost, the node lists a dead server, and no client starts from it.

### Several threads on one file (`SharedFile!SharedSpec`)

* `SharedInductive`, `SharedTypeCorrect`, `AppendsTileAlways`,
  `ReplicaFollowsAlways`, `SettledSizeKeptAlways`. `CountInv` counts
  what the threads past the clamp of 318 are about to reserve, so that
  `fetch_add` never passes the end of the buffer; `CallInv` keeps the calls in
  progress apart; `QueueInv` says whose requests are in the queue pair; `CopyInv`
  is, as in `QuorumWrite`, equality or a reason for the difference; `SizeInv` says
  that a size computed and not yet stored is not below a settled one.

### Tables and pool (`FileTables!TablesSpec`)

* `TablesInductive`, `TablesTypeCorrect`, `FdRoutedAlways`,
  `CallReachesItsFileAlways`, `PathsOwnClientsAlways`. `TablesTypeOK` says that
  the pool never makes more clients than there are paths, which takes that
  `unlink` gives back every client it should. Each of `open`,
  `close`, `unlink`, `stat` is several lock sections; the invariant says for each
  `pc` which of the descriptor table, the path table and the pool is already
  changed (`OpenInv`, `CloseInv`, `UnlinkInv`), and `PoolInv` that busy clients and
  paths belong together.

### Clients, sockets, server (`Sessions!SessionsSpec`)

* `SessionsInductive`, `SessionsTypeCorrect`, `PoolOKAlways`,
  `MRsDisjointAlways`, `ServerSurvivesAlways`, `AnsweredElsewhereAlways`. `MRsDisjoint` is inductive with the
  types and `NetInv`. `PoolOK` needs what the call in `getClient` holds (`CallInv`),
  that busy clients and paths belong together (`OwnerInv`), and that the clients
  made so far are `0 .. n - 1`, each with a socket (`MadeInv`). `ServerSurvives`
  is about every process, through any number of exits, crashes and restarts, as
  long as the server has not served a request that an ended process left behind
  (`leftover`): `ProcessInv`, which holds till then, says what is on the sockets of
  busy and idle clients of the running process and where the answer of its call
  is (`SocketInv`, `BusyInv`, `IdleInv`, `AnswerInv`), so that GET_INFO finds its
  file although a CLOSE_FILE on another socket may be served at any time.
  `AnsweredElsewhere` adds `HeldInv`: every file of a live socket in `local_cons`
  is accounted for by a client, which is busy with it, is waiting for it in
  `getClient`, or has its CLOSE_FILE at the head of the socket.

### The file calls (`LogFile!LogSpec`)

* `OffsetInFileAlways`, `LogRefinesFile`, `GlibcElsewhereAlways`: every call of the log is a call of
  `NclFile` with the same result, or a stutter. All assume `WithinFile`, the
  restriction of the application described in section 2. The invariant is
  `OffsetInFile` itself: with the offset in the file and the file in the buffer no
  `size_t` subtraction wraps (`SizeFacts`), and the cells a call reads or writes are
  those of the abstract file. `SameCall` takes a call of `NclFile` that is not in
  `Differs` to one of `PosixFile`, with `SameLine` for the two ways to look for the
  end of a line.

### Statistics (`IoStat!StatSpec`)

* `ExtIsClass`: `Ext(Text(f)) = Class(f)` for every file record. What the code
  finds with `rfind` in the text of a path is the class of the file, for any
  number of directories and any dots and slashes in their names. The proof
  locates the last separator in the text (`RfindFacts`, `LastSlash`, `LastDot`).
* `StatInductive`, `OthersSyncedAlways`, `BytesConservedAlways`. `TablesAgree`: the
  tables have an entry for a descriptor exactly when the file it is open on is
  counted, with the class `Class` gives; `Conserved`: what the application asked
  to write to the files of a class is in its histogram, was dropped by a close,
  was in a count above the histogram's range (`HistMax`, any natural number), or is
  accumulated on the descriptors that feed the histogram (`Counting`). An
  action changes one term of the sum (`SumChanges`, `ConservedStep`).

The text of a path and the sum over descriptors are recursive functions of the
community modules. The induction theorems of the library cannot be instantiated
here, but induction over a *set* can: a set of naturals with 0 and all successors
is `Nat`, because its complement has no least member (`NatSetInduction`). From
this `SumFacts` and `FlattenFacts` show that the functions exist, are unique and
satisfy their equations.

### Only model-checked

* Liveness (`WriteReturns`, `RedundancyRestored`, `CallsReturn`): beyond the
  prover.
* `SuspendedBlocksWrites` with more failures than `FewFailures` allows: true in
  `quorum_r2`, false with three replicas.
* `RecoversAcked`, `AckedOnEveryPeer` outside `TwoReplicas`: false (above).
* `NodeReadBack` with an epoch other than 0.

None of the modules declares a RECURSIVE operator.

## 5. Not modelled

* Memory corruption by unprotected containers (`remote_props`, `csl_path_cli`,
  the tables of `ncl_stat`); connecting to a registered server that is dead,
  where the library ends the process.
* `CQPollingFunc`, `TryLocalRecover`, `ReadSync` with `FORCE_REMOTE_READ`
  (alternative builds); `RecycleQp`, which only the end of the process calls;
  the `GetClient` overload with addresses (no caller); SYNC_PEER (no sender).
* RDMA writes still in flight to a slow peer when its MR is recycled by
  CLOSE_FILE (server.cc:198).
* Trailing zero bytes cut by `findSize`; an MR of another size than `MR_SIZE`; a
  node text longer than the 512 bytes `getPeersFromZK` reads (client.cc:111); a
  client whose node is empty, which starts without peers.
* Restarted servers (`MaxStarts > 0`) in `CrashRecovery`; loss of the client's
  own ZooKeeper session.
* `getPeerFromPath`, `state2String`, `type2String`, what the printing thread of
  `ncl_stat` prints, `properties` and the command line programs: formatting,
  arguments and examples, with no state a property could be about.

## 6. Plan

Every component that keeps state of the log has its module. Every safety property
that a passing run checks has its theorem, three of them (`SuspendedBlocksWrites`,
`RecoversAcked`, `AckedOnEveryPeer`) under conditions without which they are false,
and `NodeReadBack` for the epoch the code uses.
Worth adding next: RDMA writes still in flight when an MR is recycled
(server.cc:198), which takes a composition of `Sessions` and `Rdma`.
