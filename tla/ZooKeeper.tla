------------------------------ MODULE ZooKeeper ------------------------------
(***************************************************************************)
(* The ZooKeeper ensemble as the client and the servers use it.            *)
(*                                                                         *)
(* Every server registers an ephemeral node under /servers (server.cc,     *)
(* CSLServer constructor); the client keeps the addresses of its peers in  *)
(* a persistent node under /clients, sets one-shot watches and receives    *)
(* the events of its session, in order, on the one completion thread of    *)
(* the C library, where ClientWatcher runs.                                *)
(***************************************************************************)
EXTENDS Sequences, FiniteSets

VARIABLES
    servers,       \* children of /servers: the registered servers
    orphans,       \* those whose node was created by a process now dead
    zknode,        \* value of the client's node: a set of peer addresses
    exists_watch,  \* peers on whose node zoo_wexists left a watch
    child_watch,   \* whether a child watch on /servers is set
    events         \* events queued for ClientWatcher

zkVars == <<servers, orphans, zknode, exists_watch, child_watch, events>>

\* The two events ClientWatcher reacts to.
DeletedEvent(p) == [type |-> "deleted", path |-> p]
ChildEvent == [type |-> "child"]
EventOf(paths) == [type : {"deleted"}, path : paths] \cup {ChildEvent}

\* zoo_wexists leaves a watch that will report the deletion of the node.  On
\* a missing node it reports the creation, which ClientWatcher ignores, so
\* for the client that watch does not exist.
zoo_wexists(p) == exists_watch' = IF p \in servers THEN exists_watch \cup {p}
                                                   ELSE exists_watch

\* The node of p disappears: its exists watch fires, then the child watch of
\* the parent.
NodeDeleted(p) ==
    /\ p \in servers
    /\ servers' = servers \ {p}
    /\ orphans' = orphans \ {p}
    /\ exists_watch' = exists_watch \ {p}
    /\ child_watch' = FALSE
    /\ events' = events \o (IF p \in exists_watch THEN <<DeletedEvent(p)>> ELSE <<>>)
                        \o (IF child_watch THEN <<ChildEvent>> ELSE <<>>)
    /\ UNCHANGED zknode

\* A server creates its node; only the child watch of the parent fires.  The
\* creation fails with ZNODEEXISTS while the node of an earlier process of
\* the same address has not expired, and nothing changes.
NodeCreated(p) ==
    IF p \in servers
    THEN UNCHANGED zkVars
    ELSE /\ servers' = servers \cup {p}
         /\ child_watch' = FALSE
         /\ events' = events \o (IF child_watch THEN <<ChildEvent>> ELSE <<>>)
         /\ UNCHANGED <<orphans, zknode, exists_watch>>

=============================================================================
