--------------------------------- MODULE Startup ---------------------------------
(***************************************************************************)
(* LikeNginx/main.c and sock_zoon.c: a server from its command line to its  *)
(* workers, its end by SIGTERM, and the start of the next one on the same  *)
(* port.  What master and workers do in between is the subject of Server.  *)
(***************************************************************************)
EXTENDS Naturals

CONSTANTS Servers,   \* the servers that are started, all with the same port
          Cpus       \* workers of each (main.c:208)

VARIABLES
    at,        \* where each master is
    workers,   \* how many workers of each run
    caught,    \* whether its signal handlers are set
    port,      \* the port its socket is bound to
    listens    \* whether the socket has been made a listening one

vars == <<at, workers, caught, port, listens>>

Unbound == "unbound"
Asked   == "asked"       \* argv[1]
Some    == "some"        \* a port the kernel has chosen

Init ==
    /\ at = [s \in Servers |-> "off"]
    /\ workers = [s \in Servers |-> 0]
    /\ caught = [s \in Servers |-> FALSE]
    /\ port = [s \in Servers |-> Unbound]
    /\ listens = [s \in Servers |-> FALSE]

-----------------------------------------------------------------------------

Goto(s, where) == at' = [at EXCEPT ![s] = where]

MasterRuns(s) == at[s] \notin {"off", "exited"}

\* The socket is open while the master or a worker has it.
SocketOpen(s) == MasterRuns(s) \/ workers[s] > 0

\* Another listening socket is bound to the port; SO_REUSEADDR allows only others.
InUse(s) == \E r \in Servers \ {s} : SocketOpen(r) /\ listens[r] /\ port[r] = Asked

\* The shell starts a server when no master runs (lines 192-196).
Start(s) ==
    /\ at[s] = "off" /\ \A r \in Servers : ~MasterRuns(r)
    /\ \E where \in {"cycle", "exited"} : Goto(s, where)
    /\ UNCHANGED <<workers, caught, port, listens>>

\* Lines 200-203: mmap and the mutex; if either fails the program ends, by the NULL it
\* writes through in line 131 or the MAP_FAILED that line 201 does not recognise.
CycleInit(s) ==
    /\ at[s] = "cycle"
    /\ \E where \in {"signals", "exited"} : Goto(s, where)
    /\ UNCHANGED <<workers, caught, port, listens>>

\* Lines 146-154, 213.
SetSignal(s) ==
    /\ at[s] = "signals"
    /\ caught' = [caught EXCEPT ![s] = TRUE]
    /\ Goto(s, "socket")
    /\ UNCHANGED <<workers, port, listens>>

\* sock_zoon.c:67-74: a failure ends the program.
Socket(s) ==
    /\ at[s] = "socket"
    /\ \E where \in {"bind", "exited"} : Goto(s, where)
    /\ UNCHANGED <<workers, caught, port, listens>>

\* sock_zoon.c:77-81; the result is not looked at.
Bind(s) ==
    /\ at[s] = "bind"
    /\ port' = [port EXCEPT ![s] = IF InUse(s) THEN Unbound ELSE Asked]
    /\ Goto(s, "listen")
    /\ UNCHANGED <<workers, caught, listens>>

\* sock_zoon.c:82: a socket without a port gets one; the result is not looked at.
Listen(s) ==
    /\ at[s] = "listen"
    /\ port' = [port EXCEPT ![s] = IF @ = Unbound THEN Some ELSE @]
    /\ listens' = [listens EXCEPT ![s] = port[s] = Unbound \/ ~InUse(s)]
    /\ Goto(s, "fork")
    /\ UNCHANGED <<workers, caught>>

\* Lines 228-255: the workers inherit the socket.
Fork(s) ==
    /\ at[s] = "fork"
    /\ \/ workers[s] < Cpus /\ workers' = [workers EXCEPT ![s] = @ + 1] /\ UNCHANGED at
       \/ workers[s] = Cpus /\ Goto(s, "suspend") /\ UNCHANGED workers
    /\ UNCHANGED <<caught, port, listens>>

\* SIGTERM to the master.  Before its handler is set it ends at once; then the
\* handler leaves a note, which the master reads when it leaves sigsuspend.
Sigterm(s) ==
    /\ MasterRuns(s)
    /\ \/ ~caught[s] \/ at[s] = "suspend"
    /\ Goto(s, "exited")
    /\ UNCHANGED <<workers, caught, port, listens>>

\* A worker's handler does nothing on SIGTERM and SIGINT (lines 82-88): it ends
\* by SIGKILL or a fault.  Its master forks it again.
WorkerEnds(s) ==
    /\ workers[s] > 0
    /\ workers' = [workers EXCEPT ![s] = @ - 1]
    /\ at' = IF at[s] = "suspend" THEN [at EXCEPT ![s] = "fork"] ELSE at
    /\ UNCHANGED <<caught, port, listens>>

Next ==
    \E s \in Servers :
        \/ Start(s) \/ CycleInit(s) \/ SetSignal(s) \/ Socket(s) \/ Bind(s) \/ Listen(s)
        \/ Fork(s) \/ Sigterm(s) \/ WorkerEnds(s)

Spec == Init /\ [][Next]_vars

-----------------------------------------------------------------------------

\* "Usage: %s [port]" (main.c:194): a server that has got as far as its workers
\* listens on the port it was given.
ServesPortAsked ==
    \A s \in Servers : at[s] \in {"fork", "suspend"} => listens[s] /\ port[s] = Asked
===============================================================================
