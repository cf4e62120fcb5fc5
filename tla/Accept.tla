--------------------------------- MODULE Accept ---------------------------------
(***************************************************************************)
(* LikeNginx/worker_zoon.c: how the worker processes share the listening   *)
(* socket.  The mutex of lock_zoon.c and the hint accept_mutex_held are in *)
(* shared memory; whoever has the mutex has the socket in its own epoll    *)
(* set, accepts one batch, and lets go.  Each worker counts its free       *)
(* connections and stays away from the mutex for a while when few are left.*)
(***************************************************************************)
EXTENDS Processes, UInt

CONSTANTS NoOwner,      \* the mutex is free
          DeadOwner,    \* the mutex is locked by a process that has ended
          MaxConnects,  \* worker_max_connects (1000 in the code)
          Batch,        \* worker_accept_available (100 in the code)
          MaxBacklog,   \* bound: connections waiting in the listening socket
          MaxOpen       \* bound: connections one worker has open

ASSUME AcceptAssumption ==
    /\ NoOwner \notin Workers /\ DeadOwner \notin Workers \cup {NoOwner}
    /\ MaxConnects \in Nat /\ Batch \in 1..(MaxConnects \div 8)
    /\ MaxBacklog \in Nat \ {0} /\ MaxOpen \in Nat
    /\ UIntMod > 4 * (MaxOpen + MaxConnects)

VARIABLES
    accept_mutex,         \* its owner
    accept_mutex_held,    \* the shared hint
    backlog,              \* connections the kernel has for accept
    wpc,                  \* where each worker is in its cycle
    watching,             \* the workers with the socket in their epoll set
    edge,                 \* those of them whose epoll set has an event of it to report
    free,                 \* worker_free_connects
    disabled,             \* worker_accept_disabled
    available,            \* the accepts left in this batch
    conns,                \* the connections each worker has open
    due                   \* history: the rounds each worker has still to stay away

acceptVars == <<accept_mutex, accept_mutex_held, backlog, wpc, watching, edge,
                free, disabled, available, conns, due>>

\* What a worker has open beyond seven eighths of its limit.
Overload(c) == LET enough == MaxConnects - MaxConnects \div 8
               IN  IF c > enough THEN c - enough ELSE 0

\* Fault: the two counts are compared as the unsigned numbers they are.
DisabledUnsigned(f) == IF f < MaxConnects \div 8 THEN MaxConnects \div 8 - f ELSE 0

\* Lines 46, 124: an unsigned difference in an int, of which only the positive
\* values are told apart (line 340).
Disabled(f) == LET d == AsInt(Wrap(MaxConnects \div 8 - f))
               IN  IF d > 0 THEN d ELSE 0

Goto(w, label) == wpc' = [wpc EXCEPT ![w] = label]

AcceptInit ==
    /\ accept_mutex = NoOwner /\ accept_mutex_held = 0
    /\ backlog = 0
    /\ wpc = [w \in Workers |-> "none"]
    /\ watching = {}
    /\ free = [w \in Workers |-> 0] /\ disabled = [w \in Workers |-> 0]
    /\ available = [w \in Workers |-> 0] /\ conns = [w \in Workers |-> 0]
    /\ edge = {} /\ due = [w \in Workers |-> 0]

-----------------------------------------------------------------------------
(* The life of a worker.                                                    *)

\* A new process runs gs_worker_process_init.
WorkerStart(w) ==
    /\ wpc[w] = "none"
    /\ Goto(w, "start")
    /\ free' = [free EXCEPT ![w] = MaxConnects]
    /\ disabled' = [disabled EXCEPT ![w] = Disabled(MaxConnects)]
    /\ UNCHANGED <<accept_mutex, accept_mutex_held, backlog, watching, edge, available,
                   conns, due>>

\* The process ends: the kernel closes its descriptors but leaves the mutex,
\* which is not a robust one (lock_zoon.c:19-24), as it was.
WorkerEnd(w) ==
    /\ wpc[w] # "none"
    /\ Goto(w, "none")
    /\ watching' = watching \ {w} /\ edge' = edge \ {w}
    /\ accept_mutex' = IF accept_mutex = w THEN DeadOwner ELSE accept_mutex
    /\ free' = [free EXCEPT ![w] = 0] /\ disabled' = [disabled EXCEPT ![w] = 0]
    /\ available' = [available EXCEPT ![w] = 0] /\ conns' = [conns EXCEPT ![w] = 0]
    /\ due' = [due EXCEPT ![w] = 0]
    /\ UNCHANGED <<accept_mutex_held, backlog>>

-----------------------------------------------------------------------------
(* gs_worker_process_cycle.                                                 *)

\* Line 329, by every worker that starts, whoever has the mutex.
ResetHeld(w) ==
    /\ wpc[w] = "start"
    /\ accept_mutex_held' = 0
    /\ Goto(w, "top")
    /\ UNCHANGED <<accept_mutex, backlog, watching, edge, free, disabled, available,
                   conns, due>>

\* Lines 340-342.
SkipAccept(w) ==
    /\ wpc[w] = "top" /\ disabled[w] > 0
    /\ disabled' = [disabled EXCEPT ![w] = @ - 1]
    /\ due' = [due EXCEPT ![w] = @ - 1]
    /\ Goto(w, "wait")
    /\ UNCHANGED <<accept_mutex, accept_mutex_held, backlog, watching, edge, free,
                   available, conns>>

\* Line 346: the hint is read without the mutex.
ReadHeld(w) ==
    /\ wpc[w] = "top" /\ disabled[w] = 0
    /\ Goto(w, IF accept_mutex_held = 0 THEN "try" ELSE "wait")
    /\ UNCHANGED <<accept_mutex, accept_mutex_held, backlog, watching, edge, free,
                   disabled, available, conns, due>>

\* Line 347: EBUSY if anyone, the worker itself included, has the mutex.
TryLock(w) ==
    /\ wpc[w] = "try"
    /\ IF accept_mutex = NoOwner
       THEN accept_mutex' = w /\ Goto(w, "locked")
       ELSE Goto(w, "wait") /\ UNCHANGED accept_mutex
    /\ UNCHANGED <<accept_mutex_held, backlog, watching, edge, free, disabled,
                   available, conns, due>>

\* Lines 348-350: epoll looks whether there are connections already.
Watch(w) ==
    /\ wpc[w] = "locked"
    /\ watching' = watching \cup {w}
    /\ edge' = IF backlog > 0 THEN edge \cup {w} ELSE edge
    /\ accept_mutex_held' = 1
    /\ Goto(w, "wait")
    /\ UNCHANGED <<accept_mutex, backlog, free, disabled, available, conns, due>>

\* Line 362: epoll_wait returns with the listening socket, if it can; it reports an
\* edge once (epoll_zoon.c:103).
AcceptEvent(w) ==
    /\ wpc[w] = "wait"
    /\ w \in edge /\ backlog > 0
    /\ edge' = edge \ {w}
    /\ available' = [available EXCEPT ![w] = Batch]
    /\ Goto(w, "accept")
    /\ UNCHANGED <<accept_mutex, accept_mutex_held, backlog, watching, free, disabled,
                   conns, due>>

\* Line 362: it returns with other events, or after worker_accept_mutex_delay.
OtherEvent(w) ==
    /\ wpc[w] = "wait"
    /\ ~(w \in edge /\ backlog > 0)
    /\ edge' = edge \ {w}
    /\ Goto(w, "jobs")
    /\ UNCHANGED <<accept_mutex, accept_mutex_held, backlog, watching, free, disabled,
                   available, conns, due>>

\* Lines 370-374: some of the connections are finished with and closed.
RunJobs(w) ==
    /\ wpc[w] = "jobs"
    /\ \E k \in 0..conns[w] :
         /\ conns' = [conns EXCEPT ![w] = @ - k]
         /\ free' = [free EXCEPT ![w] = Wrap(@ + k)]
    /\ Goto(w, "top")
    /\ UNCHANGED <<accept_mutex, accept_mutex_held, backlog, watching, edge, disabled,
                   available, due>>

-----------------------------------------------------------------------------
(* accept_fd_callback.                                                      *)

\* Fault: the batch goes on while accept_available >= 0.
AcceptOneMore(w) ==
    /\ wpc[w] = "accept"
    /\ backlog > 0
    /\ backlog' = backlog - 1
    /\ conns' = [conns EXCEPT ![w] = @ + 1]
    /\ free' = [free EXCEPT ![w] = Wrap(@ - 1)]
    /\ available' = [available EXCEPT ![w] = @ - 1]
    /\ UNCHANGED <<accept_mutex, accept_mutex_held, wpc, watching, edge, disabled, due>>

\* Lines 96, 113-116.
AcceptOne(w) ==
    /\ wpc[w] = "accept" /\ available[w] > 0
    /\ backlog > 0
    /\ backlog' = backlog - 1
    /\ conns' = [conns EXCEPT ![w] = @ + 1]
    /\ free' = [free EXCEPT ![w] = Wrap(@ - 1)]
    /\ available' = [available EXCEPT ![w] = @ - 1]
    /\ UNCHANGED <<accept_mutex, accept_mutex_held, wpc, watching, edge, disabled, due>>

\* Fault: the worker waits for the next event with the socket still in its epoll set.
AcceptStays(w) ==
    /\ wpc[w] = "accept"
    /\ available' = [available EXCEPT ![w] = 0]
    /\ Goto(w, "jobs")
    /\ UNCHANGED <<accept_mutex, accept_mutex_held, backlog, watching, edge, free,
                   disabled, conns, due>>

\* Lines 100-110, 119: the backlog or the batch is used up, or accept fails, which
\* it may do at any time.
AcceptDone(w) ==
    /\ wpc[w] = "accept"
    /\ available' = [available EXCEPT ![w] = 0]
    /\ Goto(w, "unwatch")
    /\ UNCHANGED <<accept_mutex, accept_mutex_held, backlog, watching, edge, free,
                   disabled, conns, due>>

\* Fault: the hint is not taken back.
UnwatchHeld(w) ==
    /\ wpc[w] = "unwatch"
    /\ watching' = watching \ {w} /\ edge' = edge \ {w}
    /\ disabled' = [disabled EXCEPT ![w] = Disabled(free[w])]
    /\ due' = [due EXCEPT ![w] = Overload(conns[w])]
    /\ Goto(w, "unlock")
    /\ UNCHANGED <<accept_mutex, accept_mutex_held, backlog, free, available, conns>>

\* Fault: the socket stays in the worker's epoll set.
UnwatchNothing(w) ==
    /\ wpc[w] = "unwatch"
    /\ accept_mutex_held' = 0
    /\ disabled' = [disabled EXCEPT ![w] = Disabled(free[w])]
    /\ due' = [due EXCEPT ![w] = Overload(conns[w])]
    /\ Goto(w, "unlock")
    /\ UNCHANGED <<accept_mutex, backlog, watching, edge, free, available, conns>>

\* Lines 121-124.
Unwatch(w) ==
    /\ wpc[w] = "unwatch"
    /\ watching' = watching \ {w} /\ edge' = edge \ {w}
    /\ accept_mutex_held' = 0
    /\ disabled' = [disabled EXCEPT ![w] = Disabled(free[w])]
    /\ due' = [due EXCEPT ![w] = Overload(conns[w])]
    /\ Goto(w, "unlock")
    /\ UNCHANGED <<accept_mutex, backlog, free, available, conns>>

\* Line 126.
Unlock(w) ==
    /\ wpc[w] = "unlock"
    /\ accept_mutex' = NoOwner
    /\ Goto(w, "jobs")
    /\ UNCHANGED <<accept_mutex_held, backlog, watching, edge, free, disabled,
                   available, conns, due>>

-----------------------------------------------------------------------------

\* A client connects, which is an edge for whoever watches the socket.
Connect ==
    /\ backlog < MaxBacklog
    /\ \A w \in Workers : conns[w] + backlog < MaxOpen
    /\ backlog' = backlog + 1
    /\ edge' = edge \cup watching
    /\ UNCHANGED <<accept_mutex, accept_mutex_held, wpc, watching, free, disabled,
                   available, conns, due>>

Cycle(w) ==
    \/ ResetHeld(w) \/ SkipAccept(w) \/ ReadHeld(w) \/ TryLock(w) \/ Watch(w)
    \/ AcceptEvent(w) \/ OtherEvent(w) \/ RunJobs(w)
    \/ AcceptOne(w) \/ AcceptDone(w) \/ Unwatch(w) \/ Unlock(w)

-----------------------------------------------------------------------------

AcceptTypeOK ==
    /\ accept_mutex \in Workers \cup {NoOwner, DeadOwner}
    /\ accept_mutex_held \in {0, 1}
    /\ backlog \in 0..MaxBacklog
    /\ wpc \in [Workers -> {"none", "start", "top", "try", "locked", "wait", "jobs",
                            "accept", "unwatch", "unlock"}]
    /\ watching \subseteq Workers /\ edge \subseteq Workers
    /\ free \in [Workers -> 0..(UIntMod - 1)]
    /\ disabled \in [Workers -> 0..(UIntMod - 1)]
    /\ available \in [Workers -> 0..Batch]
    /\ conns \in [Workers -> 0..MaxOpen] /\ due \in [Workers -> 0..MaxOpen]

\* At most one worker has the listening socket in its epoll set, so that a new
\* connection wakes one process, and that worker has the mutex (lines 346-350,
\* 121-126), although the hint is reset by every process that starts.
OneAcceptor == \A w \in watching : accept_mutex = w

\* The hint is never left behind: when it says held, a process that has the
\* mutex will take it back, or died with it.
HeldOnlyByOwner == accept_mutex_held = 1 => accept_mutex # NoOwner

\* A worker that took on more than seven eighths of its limit stays away from the
\* mutex for one round per connection too many, no fewer and no more, although it
\* counts them with an unsigned number that a batch takes below zero (lines 114, 124,
\* 340-342).
OverloadSatOut ==
    \A w \in Workers : wpc[w] \in {"try", "locked", "accept"} => due[w] = 0

\* "this worker can process max connects" (worker.h:6).
WithinMaxConnects == \A w \in Workers : conns[w] <= MaxConnects
===============================================================================
