--------------------------------- MODULE Datapipe ---------------------------------
(***************************************************************************)
(* datapipe.c: the processes of the relay service, from main to the relay  *)
(* of the last client.  One process listens.  For each connection it forks *)
(* a child, which forks the process that relays and exits, so that the     *)
(* listener can wait for its child and need not wait for the relay.  Each  *)
(* fork copies the descriptors; who closes which copy, and when, decides   *)
(* what the clients see and whether the port is free again.                *)
(*                                                                         *)
(* What a relay does while it relays is the subject of Relay.              *)
(***************************************************************************)
EXTENDS Naturals, Sequences

CONSTANTS Pids,      \* process numbers
          Clients,   \* connections clients make; each connects once
          None

ASSUME DatapipeAssumption == None \notin Pids \cup Clients

VARIABLES
    pc,             \* where each process is; "none" when the number is free
    parent,         \* None: the parent is init, or a shell, which reaps at once
    acceptSocket,   \* whether the process has the listening socket open
    connectSocket,  \* the connection the process has open, or None
    pid,            \* the child the listener has forked last
    client,         \* what became of each client
    backlog,        \* connections nobody has accepted yet
    shut            \* connections a relay has called shutdown on

vars == <<pc, parent, acceptSocket, connectSocket, pid, client, backlog, shut>>

Starting  == {"main", "daemon_init", "setsid", "initTcpServer"}
Listening == {"accept", "fork", "parent", "waitpid"}
Serving   == {"child", "again"}
Relaying  == {"dial", "relay", "shutdown"}
At(where) == {p \in Pids : pc[p] \in where}

\* Only the process the shell has started is there.
Init ==
    /\ \E p \in Pids : pc = [q \in Pids |-> IF q = p THEN "main" ELSE "none"]
    /\ parent = [p \in Pids |-> None]
    /\ acceptSocket = [p \in Pids |-> FALSE]
    /\ connectSocket = [p \in Pids |-> None]
    /\ pid = None
    /\ client = [c \in Clients |-> "away"]
    /\ backlog = <<>> /\ shut = {}

-----------------------------------------------------------------------------
(* The kernel: fork, exit, and sockets that live while somebody has them.   *)

Goto(p, where) == pc' = [pc EXCEPT ![p] = where]

\* fork gives the child a copy of every descriptor.
Forks(p, q, here, there) ==
    /\ pc[q] = "none"
    /\ pc' = [pc EXCEPT ![p] = here, ![q] = there]
    /\ parent' = [parent EXCEPT ![q] = p]
    /\ acceptSocket' = [acceptSocket EXCEPT ![q] = acceptSocket[p]]
    /\ connectSocket' = [connectSocket EXCEPT ![q] = connectSocket[p]]

\* When nobody has the listening socket any more the kernel resets what is in
\* its backlog.
BacklogKept ==
    IF \E p \in Pids : acceptSocket'[p]
    THEN UNCHANGED <<backlog, client>>
    ELSE /\ backlog' = <<>>
         /\ client' = [c \in Clients |-> IF client[c] = "queued" THEN "refused"
                                                                 ELSE client[c]]

\* A process ends and its descriptors are closed.  It stays a zombie while its
\* parent lives; its own children go to init, which reaps the dead ones.
Exit(p) ==
    /\ pc' = [q \in Pids |->
                 CASE q = p -> IF parent[p] = None THEN "none" ELSE "zombie"
                   [] parent[q] = p /\ pc[q] = "zombie" -> "none"
                   [] OTHER -> pc[q]]
    /\ parent' = [q \in Pids |-> IF parent[q] = p THEN None ELSE parent[q]]
    /\ acceptSocket' = [acceptSocket EXCEPT ![p] = FALSE]
    /\ connectSocket' = [connectSocket EXCEPT ![p] = None]
    /\ BacklogKept
    /\ UNCHANGED <<pid, shut>>

\* A client connects while the listening socket is there.
Connect(c) ==
    /\ client[c] = "away"
    /\ \E p \in Pids : acceptSocket[p]
    /\ client' = [client EXCEPT ![c] = "queued"]
    /\ backlog' = Append(backlog, c)
    /\ UNCHANGED <<pc, parent, acceptSocket, connectSocket, pid, shut>>

\* Any process may be ended by a signal; those init_signal catches go through
\* terminate, which closes what the kernel would close anyway (610-622, 656-663, 909-927).
Signalled(p) ==
    /\ pc[p] \notin {"none", "zombie"}
    /\ Exit(p)

-----------------------------------------------------------------------------
(* main: options, daemon_init, the listening socket.                        *)

\* The command line is complete, with or without -d.
Options(p) ==
    /\ pc[p] = "main"
    /\ \E where \in {"daemon_init", "initTcpServer"} : Goto(p, where)
    /\ UNCHANGED <<parent, acceptSocket, connectSocket, pid, client, backlog, shut>>

\* It is not: usage, an unknown host, no port (lines 983, 1004-1018), before there is
\* anything to give back.
Usage(p) == pc[p] = "main" /\ Exit(p)

\* daemon_init forks twice; each time the parent exits (lines 264-273).
Daemonize(p) ==
    \/ /\ pc[p] = "daemon_init"
       /\ \E q \in Pids : Forks(p, q, "exit", "setsid")
       /\ UNCHANGED <<pid, client, backlog, shut>>
    \/ /\ pc[p] = "setsid"
       /\ \E q \in Pids : Forks(p, q, "exit", "initTcpServer")
       /\ UNCHANGED <<pid, client, backlog, shut>>

InitTcpServer(p) ==
    /\ pc[p] = "initTcpServer"
    /\ acceptSocket' = [acceptSocket EXCEPT ![p] = TRUE]
    /\ Goto(p, "accept")
    /\ UNCHANGED <<parent, connectSocket, pid, client, backlog, shut>>

\* Socket, Bind or Listen ends the program with a message, with -d when the shell has
\* long been told that it started.
BindFails(p) == pc[p] = "initTcpServer" /\ Exit(p)

\* What the program ends on: a Fork that fails in any process (lines 592-596), and in
\* the listener an accept that fails, even for this one connection (231-235).
CallFails(p) ==
    /\ \/ pc[p] \in {"daemon_init", "setsid", "fork", "again"}
       \/ pc[p] = "accept" /\ backlog # <<>>
    /\ Exit(p)

-----------------------------------------------------------------------------
(* tcprelay in the listener.                                                *)

Accept(p) ==
    /\ pc[p] = "accept" /\ backlog # <<>>
    /\ connectSocket' = [connectSocket EXCEPT ![p] = Head(backlog)]
    /\ client' = [client EXCEPT ![Head(backlog)] = "accepted"]
    /\ backlog' = Tail(backlog)
    /\ Goto(p, "fork")
    /\ UNCHANGED <<parent, acceptSocket, pid, shut>>

ForkChild(p) ==
    /\ pc[p] = "fork"
    /\ \E q \in Pids : Forks(p, q, "parent", "child") /\ pid' = q
    /\ UNCHANGED <<client, backlog, shut>>

\* Fault: the listener keeps its copy of the connection.
KeepConnection(p) ==
    /\ pc[p] = "parent"
    /\ Goto(p, "waitpid")
    /\ UNCHANGED <<parent, acceptSocket, connectSocket, pid, client, backlog, shut>>

\* Lines 896-899.
CloseConnection(p) ==
    /\ pc[p] = "parent"
    /\ connectSocket' = [connectSocket EXCEPT ![p] = None]
    /\ Goto(p, "waitpid")
    /\ UNCHANGED <<parent, acceptSocket, pid, client, backlog, shut>>

\* Fault: the child is not waited for.
NoWait(p) ==
    /\ pc[p] = "waitpid"
    /\ Goto(p, "accept")
    /\ UNCHANGED <<parent, acceptSocket, connectSocket, pid, client, backlog, shut>>

\* Line 900.
Waitpid(p) ==
    /\ pc[p] = "waitpid" /\ pc[pid] = "zombie"
    /\ pc' = [pc EXCEPT ![p] = "accept", ![pid] = "none"]
    /\ parent' = [parent EXCEPT ![pid] = None]
    /\ UNCHANGED <<acceptSocket, connectSocket, pid, client, backlog, shut>>

-----------------------------------------------------------------------------
(* tcprelay in the child and in the process it forks.                       *)

\* Fault: the child keeps its copy of the listening socket.
KeepAccept(p) ==
    /\ pc[p] = "child"
    /\ Goto(p, "again")
    /\ UNCHANGED <<parent, acceptSocket, connectSocket, pid, client, backlog, shut>>

\* Lines 871-872.
CloseAccept(p) ==
    /\ pc[p] = "child"
    /\ acceptSocket' = [acceptSocket EXCEPT ![p] = FALSE]
    /\ Goto(p, "again")
    /\ BacklogKept
    /\ UNCHANGED <<parent, connectSocket, pid, shut>>

\* Fault: one fork only, and the child relays.
ChildRelays(p) ==
    /\ pc[p] = "again"
    /\ Goto(p, "dial")
    /\ UNCHANGED <<parent, acceptSocket, connectSocket, pid, client, backlog, shut>>

\* Fault: both processes go on to relay.
BothRelay(p) ==
    /\ pc[p] = "again"
    /\ \E q \in Pids : Forks(p, q, "dial", "dial")
    /\ UNCHANGED <<pid, client, backlog, shut>>

\* Lines 873-874.
ForkRelay(p) ==
    /\ pc[p] = "again"
    /\ \E q \in Pids : Forks(p, q, "exit", "dial")
    /\ UNCHANGED <<pid, client, backlog, shut>>

\* tcp_connect succeeds, or fails within 75 seconds (line 876).
Dial(p) ==
    /\ pc[p] = "dial"
    /\ \E where \in {"relay", "exit"} : Goto(p, where)
    /\ UNCHANGED <<parent, acceptSocket, connectSocket, pid, client, backlog, shut>>

\* doTcpRelay or doFtpRelay returns (lines 878-885).
RelayEnds(p) ==
    /\ pc[p] = "relay"
    /\ Goto(p, "shutdown")
    /\ UNCHANGED <<parent, acceptSocket, connectSocket, pid, client, backlog, shut>>

\* Lines 886-889: the client is told even if another process has the connection open.
Shutdown(p) ==
    /\ pc[p] = "shutdown"
    /\ shut' = shut \cup {connectSocket[p]}
    /\ Goto(p, "exit")
    /\ UNCHANGED <<parent, acceptSocket, connectSocket, pid, client, backlog>>

\* Lines 892-894; also the parents in daemon_init.
Leave(p) == pc[p] = "exit" /\ Exit(p)

Step(p) ==
    \/ Options(p) \/ Usage(p) \/ Daemonize(p) \/ InitTcpServer(p) \/ BindFails(p)
    \/ CallFails(p)
    \/ Accept(p) \/ ForkChild(p) \/ CloseConnection(p) \/ Waitpid(p)
    \/ CloseAccept(p) \/ ForkRelay(p) \/ Dial(p) \/ Shutdown(p) \/ Leave(p)

Next ==
    \/ \E p \in Pids : Step(p) \/ RelayEnds(p) \/ Signalled(p)
    \/ \E c \in Clients : Connect(c)

Spec == Init /\ [][Next]_vars

\* Every process is scheduled.  No client has to come, no relay has to end and no
\* signal has to arrive.
Fairness == \A p \in Pids : WF_vars(Step(p))

FairSpec == Spec /\ Fairness

-----------------------------------------------------------------------------

Holders(c) == {p \in Pids : connectSocket[p] = c}

\* Each variable within its type; the listening socket is open in the listener, and
\* in its child until line 871.
TypeOK ==
    /\ pc \in [Pids -> Starting \cup Listening \cup Serving \cup Relaying
                                \cup {"exit", "zombie", "none"}]
    /\ parent \in [Pids -> Pids \cup {None}]
    /\ acceptSocket \in [Pids -> BOOLEAN]
    /\ connectSocket \in [Pids -> Clients \cup {None}]
    /\ pid \in Pids \cup {None}
    /\ client \in [Clients -> {"away", "queued", "accepted", "refused"}]
    /\ backlog \in Seq(Clients) /\ shut \subseteq Clients
    /\ \A p \in Pids : acceptSocket[p] => pc[p] \in Listening \cup {"child"}

\* The end of a connection has come to the client: a relay has called shutdown, or
\* the last process that had the connection open has closed it, or the listening
\* socket is gone.
SeesEnd(c) ==
    \/ client[c] = "refused"
    \/ client[c] = "accepted" /\ (c \in shut \/ Holders(c) = {})

\* When the listener waits for a client it has no child left, running or zombie,
\* and is the only process with the listening socket: what it has forked are relays
\* and processes about to exit, which are no concern of its own.  This is what the
\* second fork and waitpid are for.
OnlyRelaysBeside ==
    \A p \in At({"accept"}) : \A q \in Pids \ {p} :
        parent[q] # p /\ ~acceptSocket[q] /\ q \notin At(Listening \cup Serving)

\* No two processes relay for one client, whatever has been killed in between:
\* they would take pieces of its data from each other.
OneRelay ==
    \A p, q \in At(Relaying) : connectSocket[p] = connectSocket[q] => p = q

\* A client in the backlog is accepted while other clients are relayed for, or
\* refused: it does not wait for a relay to end, and not for a listener that has ended.
QueuedServed == \A c \in Clients : client[c] = "queued" ~> client[c] # "queued"

\* A client that was accepted is relayed for or sees its connection end, also when
\* a fork fails, the server is not reached or the relay is killed: no process
\* keeps a copy of the connection that nobody serves.
EndReachesClient ==
    \A c \in Clients :
        (client[c] = "accepted" /\ Holders(c) \cap At(Relaying) = {})
            ~> (SeesEnd(c) \/ Holders(c) \cap At(Relaying) # {})

\* When the listener has ended the port is free again, although relays go on for
\* as long as their clients stay: the service can be started anew.
PortReleased ==
    At(Listening) = {} ~> (At(Listening) # {} \/ \A p \in Pids : ~acceptSocket[p])
===============================================================================
