# Verification of public-base-lib

TLA+ models, TLC configurations and TLAPS proofs for the programs of the
repository:

| Program | Source | What it is |
|---|---|---|
| ThreadPools | `src/ThreadPools/` | a library: a task pool, a thread pool, and the threads that manage both |
| LikeNginx | `src/LikeNginx/` | a server skeleton: a master process, worker processes, an edge-triggered event loop |
| datapipe | `src/datapipe.c` | a TCP relay with special treatment of FTP |

Line numbers in this file and in the modules are those of the files under `src/`.

- [1. Inventory](#1-inventory): the parts, their state, how they interact, what is hard
- [2. Modules](#2-modules): which module models which part, and how
- [3. Runs](#3-runs): what TLC checks, the bounds, and why they are enough
- [4. Fairness](#4-fairness)
- [5. Proofs](#5-proofs)
- [6. Where code and documents disagree](#6-where-code-and-documents-disagree)
- [7. Abstractions, and what is not modelled](#7-abstractions-and-what-is-not-modelled)
- [8. Plan](#8-plan)

To check a run: `tlc -config MCManager_pool.cfg MCManager`. To check the proofs:
`tlapm M.tla`, with `ManagerProofs`, `ServiceProofs`, `ListProofs`, `ServerProofs`,
`ConnectionProofs`, `DatapipeProofs` and `RelayProofs` for `M`.

## 1. Inventory

### ThreadPools

| Part | State | Operations |
|---|---|---|
| list (`list.c`) | `next`, `prev` of every `list_head` | `list_add`, `list_add_tail`, `list_del`, `list_empty` |
| task pool (`taskpool.c`) | the list of tasks, `t_curNum`, `t_maxNum`, a mutex and a condition variable | `taskPoolAdd`, `taskPoolDel`, `setTaskPool` |
| thread pool (`threadpool.c`) | a ring of nodes with `busy` and `task`, a mutex and a condition each; `t_idleNum`, `t_workNum`, `t_curNum`, and the limits | `threadDo` (the worker), `addTaskToThreadPools`, `increaseThreadPool`, `subThreadPool` |
| managing threads (`mpool.c`) | none but locals (`flag`) | `manager_addTaskToTaskpool`, `manager_moveTaskToWorker`, `managerThreadNum`, `managerDestroy` |

*Interaction.* The interface function of the user makes tasks and hands them in
through the task pool; the mover takes them out, waits for an idle worker and
gives the task to one by writing into its node and signalling its condition; the
worker counts itself idle again and signals the mover. A third thread is to shrink
the pool. The main thread waits in `managerDestroy` for all of them. Every
transfer of a task happens under a different mutex (task pool, node, thread
pool), and several tests are made without any.

*What is hard.* Conditions read before a lock and used after it
(`mpool.c:51`, `mpool.c:60`, `mpool.c:66`, `threadpool.c:255`); counters changed
in another critical section than the nodes they count (`threadpool.c:51-57`,
`258-263`); signals sent without the mutex of the waiter (`threadpool.c:269`);
unsigned counters in signed comparisons (`mpool.c:102`, `mpool.c:146`);
cancellation of threads that may hold a mutex (`mpool.c:64`, `152-156`).

*What makes it correct.* No task is lost, doubled or run twice; tasks are run in
the order in which they were accepted; the counters agree with the nodes; no
thread sleeps while there is something for it to do; a queued task is run;
nothing uses the pools after they are freed.

### LikeNginx

| Part | State | Operations |
|---|---|---|
| master (`main.c`) | `num_child`, the flags the signal handler sets, the children | the fork loop, `sigsuspend`, `process_signal_return`, `signal_handler` |
| accept mutex and admission (`worker_zoon.c`, `lock_zoon.c`) | a process-shared mutex and the hint `accept_mutex_held`, both in shared memory; `worker_free_connects`, `worker_accept_disabled` per worker | `gs_worker_process_cycle`, `accept_fd_callback`, `gs_process_trylock`, `gs_process_unlock` |
| events (`epoll_zoon.c`) | the table `m_fds`, its size and fill, the epoll set | `gs_sys_epoll_add`, `_del`, `_waitAndDispatchEvents` |
| connections (`worker_zoon.c`, `connect_state.c`) | `state`, buffers, `is_readable`, `is_writable` per descriptor; the job list | `connect_io_callback`, `reader_fd_sycle`, `writer_fd_sycle`, `connection_state_machine` |
| start-up and socket set-up (`main.c`, `sock_zoon.c`) | the listening socket and its port; which signals are caught | `main` up to the first fork, `gs_main_cycle_init`, `set_signal`, `initTcpServer` |

*Interaction.* The master forks the workers; they share the listening socket and
two words of memory. A worker that gets the mutex puts the socket into its epoll
set, accepts a batch when the event comes, takes it out and unlocks. Events of
connections set flags and may put the descriptor on the job list, which is worked
off after each batch of events. A worker that ends sends the master SIGCHLD. A master
that ends on SIGTERM tells its workers nothing; they keep the socket.

*What is hard.* The master's handler runs between any two of its steps and shares
three flags with it; one pending SIGCHLD stands for many; workers end anywhere,
with the mutex too; the event of an edge-triggered descriptor, the listening socket among
them, comes once; an entry of `m_fds` is written before the table has it (`worker_zoon.c:113`);
descriptor numbers are used again at once; the results of `bind` and `listen` are
not looked at (`sock_zoon.c:81`).

*What makes it correct.* At most one worker has the socket in its epoll set; a
waiting connection is accepted; never more workers than processors, no zombie
stays; a worker with too many connections stays away from the mutex as long as it should,
although its unsigned credit may be below zero; no edge is missed; a connection is released once; a request is answered; a server listens on the
port it was given.

### datapipe

| Part | State | Operations |
|---|---|---|
| process structure and options | the processes, who is whose child, and which of the listening socket and the connections each has open; the backlog | `main`, `daemon_init`, `initTcpServer`, `tcprelay`, `terminate` |
| relay of one client | two sockets, one buffer; with `-f` up to two listening sockets and one data connection | `doTcpRelay`, `doFtpRelay`, `writen`, `tcp_connect` |

*Interaction.* The listener forks a child for each client, which forks the relay and
exits; the listener waits for the child, never for a relay. Each fork copies all
descriptors, and each process closes those that are not its business.

*What is hard.* A copy left open in the wrong process keeps a connection from ending
or the port from being free; any fork may fail and any process may be killed, between
any two of these steps. In a relay one thread serves both directions with one buffer and blocking
writes; a listening socket is put into the place of another while an event for
that place is still to be looked at (`datapipe.c:360`, `431`); the whole data
connection is relayed from within one round of the control loop (`442`).

*What makes it correct.* Each side gets what the other has sent, once and in
order; `accept` is called only when it will not block; the end of one peer ends
the pair. One relay for a client; a client that is not served sees its connection
end; no client waits for another; the port is free when the listener has ended.

### Others

`src/lib/` and, in `src/ThreadPools/`, `memwatch.c`, `thradpool.c`, `workerpool.c`, `main.c.bk`,
`main.c.net` and `socklib.c` are not modelled; section 7 says why.

The hazards, each with its line and the properties aimed at it, are in
`PROJECT.json`.

## 2. Modules

```
UInt    unsigned ints of UIntMod values      Processes  the worker processes
Queue   tasks                                List       list.c, on its own
TaskPool(Queue)  ThreadPool(Queue, UInt)     Master(Processes)  Accept(Processes, UInt)
        \          /                                 \           /
         Manager  --implements-->  TaskService        Server
         Shrink   subThreadPool                       Startup      main before Server
Connection   events and connections of one worker
Datapipe     the processes of the relay service       Relay        one of them, at work

ManagerProofs(Manager)    ListProofs(List)              DatapipeProofs(Datapipe)
ServiceProofs             ServerProofs(Server)          RelayProofs(Relay)
  (ManagerProofs)         ConnectionProofs(Connection)
```

| Module | Code | State and actions |
|---|---|---|
| `TaskPool` | `taskpool.c` | `taskList`, `t_curNum`, `taskCond` (the threads asleep on the condition). `taskPoolAdd` and `taskPoolDel` work in one critical section each, so each is one action |
| `ThreadPool` | `threadpool.c` | `busy`, `task`, `wpc` per node, `created`, the two counters, the cursor of the ring. One action per critical section of `threadDo` and of `addTaskToThreadPools`; the search is one action per node it passes |
| `Manager` | `mpool.c`, `main.c` | the interface threads (`ipc`), the mover (`mpc`), the thread counter (`kpc`, `flag`), `managerDestroy` (`dpc`); one action per critical section and per test made outside one; spurious wake-ups and cancellation in `pthread_cond_wait` |
| `TaskService` | the promise of the library | what the user sees: `Accept`, `Take`, `Finish` on a bounded queue. `Manager` implements it with `waiting <- taskList`, `inFlight <-` the mover's and the workers' tasks, `finished <- done` |
| `List` | `list.c` | every single store to `next` and `prev` is an action, with `list_empty` called without the mutex in between, as `mpool.c:60` does. A history variable holds the order of addition |
| `Master` | `main.c` | the loop with a program counter per statement that reads or writes what the handler shares, and the handler, which may start between any two of them |
| `Accept` | `worker_zoon.c`, `lock_zoon.c` | the cycle of each worker from `trylock` to `unlock`, the hint, the credit; processes that end. `edge` has the workers whose epoll set has an edge of the listening socket still to report: it comes with a connection and with `epoll_ctl`, and goes when it is reported. A history variable holds the rounds a worker has still to stay away |
| `Server` | both | `Master` and `Accept` composed: a fork starts a cycle, the end of a worker is a SIGCHLD |
| `Connection` | `worker_zoon.c`, `connect_state.c`, `epoll_zoon.c` | descriptors, their entries, the epoll ready list, job list, state machine, reader and writer; the client as an environment. An accepted descriptor beyond the table is a write outside of it, after which the worker may go on as if nothing was (`start`), or be damaged (`overrun`) and be replaced |
| `Startup` | `main.c`, `sock_zoon.c` | servers started one after another on one port: where each master is, its workers, what its socket is bound to. What master and workers do later is in `Server` |
| `Shrink` | `threadpool.c` | `Manager` with `subThreadPool` and `idlePoolDel`, and a thread counter that calls them; the thread being cancelled is no longer in the ring |
| `Datapipe` | `datapipe.c` | per process: where it is, its parent, whether it has the listening socket, which connection it has; what became of each client; the backlog. A fork copies the descriptors, an end closes them and hands the children to init |
| `Relay` | `datapipe.c` | the sockets of the control and the data pair with what is in flight, poll's results not yet looked at, the buffer, the listening sockets; both peers as an environment |

The names of variables are those of the code where the code has one.
A definition whose comment begins with `Fault:` is a plausible error in the
definition that follows it. It belongs to no specification; it shows that a property
would notice the error. Each property of each passing run has one (`mutants` in
`PROJECT.json`).

## 3. Runs

Passing runs, with the distinct states TLC visits:

| Run | States | Question | Properties |
|---|---|---|---|
| `pool` | 414 434 (up to the names of tasks) | Does the pool keep its tasks and its counters, at work and while `managerDestroy` runs? | `TypeOK`, `TaskAccounting`, `CountersExact`, `IdleReserve`, `DispatchFindsThread`, `NoSleepingWorker`, `NoSleepingMover`, `SubmitNeverRefused`, `NoOverwrite`, `DestroyReadsQuiet`, `ImplementsTaskService` |
| `liveness` | 74 364 | Is every task run and every producer released? | `ProducerReleased`, `ImplementsService` |
| `list` | 3 296 (up to addresses) | Do the stores of `list.c` keep the ring, whoever looks when? | `RingIntact`, `FirstIn`, `PollTruthful` |
| `server` | 632 888 | Do master and workers share the socket correctly through ends and restarts? | `TypeOK`, `OneAcceptor`, `HeldOnlyByOwner`, `NeverTooMany`, `OverloadSatOut`, `Worker1Reaped`, `Worker1Serves` |
| `connection` | 866 621 | Does the event loop miss no edge, release once and answer? | `ReleasedOnce`, `TableConsistent`, `NoMissedEdge`, `RequestAnswered` |
| `relay` | 162 003 | Does a relay pass on everything, once, and never block in accept? | `StreamIntact`, `AcceptFindsConnection`, `Delivered`, `EndPassedOn` |
| `datapipe` | 33 376 | Whoever is killed and whichever fork fails: is each client served or let go, and the port free in the end? | `TypeOK`, `OnlyRelaysBeside`, `OneRelay`, `QueuedServed`, `EndReachesClient`, `PortReleased` |

Runs that give a counterexample are in section 6.

What some of the results mean:

- `CountersExact` states the two windows in which a counter and the nodes
  disagree, and that there is no other. In one of them `t_workNum` may be
  4294967295.
- `SubmitNeverRefused` holds with one interface thread only, which is what
  `main.c:81` starts; section 6 shows what a second one would meet.
- `OverloadSatOut`: a batch is not limited by the free connections, so a worker may have more
  than its limit, and its unsigned count is then below zero. The difference the code computes
  (line 124) is right all the same: the worker stays away for one round per connection too
  many. That it can have more than `worker_max_connects` is shown by `MCServer_over_max.cfg`.
- `Worker1Serves` and `Worker1Reaped` are `Served` and `ZombiesReaped` for one of the two
  workers. The specification treats the workers alike, so what holds for one holds for the
  other; symmetry may not be used for liveness, and one formula takes half the time of two.
  `Served` needs a worker that lives on, and that nobody ends with the mutex. The edge of
  the listening socket is reported once, and the callback returns without having seen `EAGAIN`:
  the property fails when the socket is not taken out of the epoll set afterwards.
- `TableConsistent`, `ReleasedOnce` and `RequestAnswered` say nothing of a worker after it has
  written beyond `m_fds` and been damaged by it (`Intact`); `TableConsistent` says that
  only the accept callback can do that. That it does is shown by `MCConnection_overrun.cfg`.
- `StreamIntact` and `AcceptFindsConnection` are checked for FTP clients that wait for each
  reply. Then nothing is read together with a PORT, and a listening socket that is replaced
  has no connection waiting. For other clients both fail (section 6).
- `DestroyReadsQuiet`: `managerDestroy` leaves its wait at a moment at which no
  thread works, but for one the mover has chosen and not yet counted. That this is
  less than the document promises is shown by `destroy_waits`.
- `OnlyRelaysBeside` is what the double fork of `tcprelay` is for: whenever the
  listener waits for a client it has no child, alive or zombie.
- `EndReachesClient`: the listener closes its copy of a connection before it waits for
  its child, so that the client sees the end even when the relay is killed or the
  second fork fails.
- `PortReleased` has a window in it: a child has the listening socket until line 871,
  and keeps the port for that long if the listener is killed.

### Bounds

| Constant | Value | Why it is enough |
|---|---|---|
| `Tasks` | 3 or 4 | more than the task pool has places (`MaxTask` 1 to 3) and than there are threads (`MaxNum` 2 or 3): the pool is full, empty and full again, and all threads are at work while another task waits |
| `MaxNum`, `MinIdle`, `MaxIdle` | 2-3, 1, 1-2 | the pool starts below its limit and grows to it; `t_idleNum` goes below, to and above `t_maxIdleNum` |
| `UIntMod` | 32 (pool), 256 (server) | wrap-around happens at 0 only, as in the code, as long as the counters stay far from the top; the assumptions state how far |
| `SpawnFailures` | 1 in `pool` | one `pthread_create` fails unnoticed |
| `FlagFloor` | 1 | below 0 the value of `flag` makes no difference but to be further from 3 |
| `Nodes` of `List` | 4 | removal of the only node, of the first of two and of the first of more, with one node free to be added |
| `Workers`, `Cpus` | 2, 2 | both race for the mutex, either may end and be replaced |
| `MaxConnects`, `Batch` | 8, 1 | the code has 1000 and 100; `MaxConnects \div 8` is 1, so a batch is at most an eighth in both |
| `MaxOpen` | 9 | bounds the connections one worker has or may still accept; one more than `MaxConnects`, so that a worker stays away from the mutex for one and for two rounds, and its credit goes below zero |
| `Fds` | {15, 16} | the last descriptor within the first table of 16 entries and the first beyond it, which is written before the table grows: both with no harm done, so that the table does grow, and with the worker damaged |
| `BufLen`, `SndBuf`, `GreetLen` | 2 | the greeting fills the send buffer, so a worker waits for EPOLLOUT; a response of 2 may be cut |
| `MaxSend`, `MaxData` | 2, 1 | a PORT or PASV and the command that uses it; the second unit can overtake the first if anything can |
| `Room` | 1 | every write of more than one unit is partial, and blocks |
| resets in `Relay` | 1 | one of the four connections is reset |
| `Pids`, `Clients` of `Datapipe` | 4, 2 | listener, child and relay of one client together with the child or relay of another; a process number is used again |
| `Servers`, `Cpus` of `Startup` | 2, 2 | one server is ended with a worker left, the next is started |

Symmetry is used in `pool` (tasks), `list` (addresses), and the
violation runs of `Server` without liveness (processes); these values are compared
for equality only. Runs with liveness properties use none.

`CHECK_DEADLOCK FALSE` stands in configurations of systems that stop: when
`managerDestroy` has freed the pools, or the mover died with the pool's mutex
(`pool`, `destroy_waits`, `Shrink`); when every process of datapipe has ended
(`datapipe`); when every server has (`restart`); when the master has exited and no worker is left
(`Server`); when the relay has ended (`Relay`). The other runs are checked for
deadlock.

## 4. Fairness

- `Manager`: every thread that can take a step takes one, and `func` returns.
  Nothing obliges the interface function to make a task or to return, nor a
  condition variable to wake a thread nobody signalled, nor the user's program to
  stop. These are the guarantees of a scheduler that starves no thread.
- `Server`: master and workers are scheduled; signals are delivered; `epoll_wait`
  returns after its timeout of 50 seconds at the latest, so a worker's cycle goes
  on without an event. No client has to connect, no worker has to end.
- `Connection`: the worker is scheduled, and a client reads what is sent to it.
  No client has to send or to close, and a damaged worker need not end. A step of the kernel is not fair on its own:
  data is ready when it is on the ready list.
- `Relay`: the process is scheduled, a peer reads what is sent to it, a data
  connection is ended by its peers some time (the control connection waits for
  it). Nothing obliges a peer of the control connection to send or to close.

- `Datapipe`: every process is scheduled. No client has to connect, no relay has to
  end, and no signal has to arrive; a fork, `accept` or `connect` may fail every time.

All are weak fairness. A worker that fails a trylock goes to its events and tries
again: `Served` does not say which worker accepts, so no stronger fairness is needed.

## 5. Proofs

The seven proof modules are about every value of the constants that meets the
assumptions stated in the modules. Every invariant and every action property that a passing
run checks, and the refinement of `TaskService`, is stated by one of these theorems:

| Theorem | States |
|---|---|
| `TypeCorrect` | `Spec => []TypeOK`; in it: never more than `t_maxNum` threads |
| `CountersCorrect` | `Spec => []CountersExact` |
| `ReserveKept` | `Spec => []IdleReserve` |
| `DispatchEnds` | `Spec => []DispatchFindsThread` |
| `TasksNotOverwritten` | `Spec => NoOverwrite`, an action property |
| `DestroyReadsQuietly` | `Spec => DestroyReadsQuiet`, an action property |
| `TasksAccountedFor` | `Spec => []TaskAccounting` |
| `Implementation` | `Spec => ImplementsTaskService`, the refinement |
| `WorkersAwake` | `Spec => []NoSleepingWorker` |
| `MoverAwake` | `Spec => []NoSleepingMover` |
| `NeverRefused` | `Spec => []SubmitNeverRefused`, for one interface thread |
| `RingKept` | `Spec => []RingIntact` |
| `TakenIsFirst` | `Spec => []FirstIn` |
| `LookTruthful` | `Spec => []PollTruthful` |
| `SocketExclusive` | `Spec => []OneAcceptor` |
| `HintTruthful` | `Spec => []HeldOnlyByOwner` |
| `WorkersBounded` | `Spec => []NeverTooMany` |
| `OverloadRespected` | `Spec => []OverloadSatOut` |
| `ServerTypeCorrect` | `Spec => []TypeOK` of `Server` |
| `EachReleasedOnce` | `Spec => []ReleasedOnce` |
| `TableAgrees` | `Spec => []TableConsistent`; nothing is said of a damaged worker |
| `NoEdgeMissed` | `Spec => []NoMissedEdge` |
| `DatapipeTypeCorrect` | `Spec => []TypeOK` of `Datapipe`; in it: only the listener and its child have the listening socket |
| `ListenerAlone` | `Spec => []OnlyRelaysBeside` |
| `RelayAlone` | `Spec => []OneRelay` |
| `PlainCopyExact` | `Spec => [](supportftp = 0 => StreamIntact)` |
| `CopyExact` | `Spec => []StreamIntact`, for clients that wait for each reply |
| `AcceptDoesNotBlock` | `Spec => []AcceptFindsConnection`, for the same clients |

Where a theorem has a hypothesis beside the assumptions of its module, the program meets
it and the property is false without it:

| Hypothesis | The program | Without it |
|---|---|---|
| one interface thread (`NeverRefused`) | `main.c:81` starts one | `MCManager_refused.cfg` |
| `Pipelining = FALSE` (`CopyExact`, `AcceptDoesNotBlock`) | RFC 959: a client waits for the reply to PORT | `MCRelay_lost.cfg` for `CopyExact`: what is read together with a PORT is replaced with it (`datapipe.c:354`); `MCRelay_pipelined.cfg` for `AcceptDoesNotBlock` |

*Manager.* The assumptions are the orders `setTaskPool` and `setThreadPool` enforce
(at least one task; `t_minIdleNum` <= `t_maxIdleNum` <= `t_maxNum`), that
`t_minIdleNum` is not 0, with which `createThreadPool` makes no thread at all, and
that the limits are small against the range of an unsigned int. The invariant of the induction is

```
IInv == TypeOK /\ RingOK /\ WorkerOK /\ MoverOK /\ InterfaceOK
        /\ CountersExact /\ Headroom /\ IdleReserve /\ ShrinkUnreachable
```

`CountersExact` is not inductive alone: when a worker counts itself idle, its
node has to be one of the ring (`RingOK`), and to have been busy exactly while it
had a task (`WorkerOK`); when the mover counts a node as working, it has to have
found it idle (`MoverOK`). `Headroom` is the heart of it. It says that there are never more
busy and uncounted nodes than threads, and strictly fewer from the moment the mover
has seen `t_idleNum > 0` until it has made a node busy. From this follow both that
`t_idleNum` does not wrap and that the search for an idle node ends
(`DispatchFindsThread`), although the mutex was let go of in between: only the
mover makes nodes busy. The two action properties follow from `IInv` and one look
at each step. `ShrinkUnreachable`, in `ManagerProofs`, is that `flag` never passes 0 and the
thread counter is never about to call `subThreadPool` (lemma `NeverShrinks`): the ring only
grows, on which the rest relies.

*Tasks.* `ServiceProofs` puts on top of `IInv`

```
TInv == IInv /\ HandsOK /\ \A t \in Tasks : Once(t)
```

`Once` says of a task that it is in one of seven kinds of place (not made yet, with an interface
thread, in the queue, with the mover, on a node, done, refused), at one position there,
and in no other kind; `HandsOK` that a thread keeps no pointer to what it has passed on.
Five steps move a task (`WhoMovesTasks`); each lemma about one of them shows where it was and where
it is. `TaskAccounting`, which counts places, follows from `Once`. The refinement uses `TInv`
too: `Take` needs that the task at the head of the list is the one that goes to the mover, `Finish`
that no other node has the task that is done, so that it leaves `inFlight`.

`WorkersAwake` is inductive with `IInv`: a worker that goes to sleep has looked at its node under
the node's mutex, and only the mover puts a task there; from then until it has signalled it
remembers that node. The signal is sent without the pool's mutex, so this is what keeps it from being
lost. `MoverAwake`: `t_idleNum` rises only in a step after which the worker is about to signal.

`NeverRefused` adds that the one interface thread, having seen a place, finds it when it adds its
task, because others only take tasks out.

*List.* An invariant about the pointers themselves would have a case for every store of every
branch of `list_add` and `list_del`. `ListInv` says instead what the pointers will be
when the stores still to be made are made:

```
Becomes(f, c, v)    field f of cell c has the value v, unless a store to it is pending,
                    and then the last one stores v
RingBecomes(seq)    the nodes of seq will be one circle
Circle              seq is the order of addition, with the new node while one is added,
                    without the first while one is taken
```

A store changes no `Becomes` (`StoreAsPlanned`), so only the beginning of a call has to be looked
at, with the list empty, of one node and of more. With no stores pending, `RingBecomes`
is `RingIntact`. What makes `PollTruthful` true is that nobody but the mover, who looks, takes a node out.

*Server.* `AInv` says that a worker between `trylock` and `unlock` owns the mutex
(`OwnerOK`), that a worker with the socket in its epoll set owns it too (`WatchOK`),
and that the hint is 0 when the mutex is free or about to be (`HintOK`). `WatchOK`
holds although `accept_mutex_held` is read without the mutex and set to 0 by every
worker that starts, because the watching worker still has the mutex, and a process that
dies with it leaves it locked. `MInv` is about the master: workers alive, zombies,
workers still to be forked (`num_child`) and ends the handler has counted and the loop
has not yet added are together never more than the processors. In the one step
between lines 262 and 263, where the handler's count has been added and not yet
reset, it is left out of the sum.

`OverloadRespected` is about a worker with more connections than it should have. It rests on
`CInv`: what a worker has and may yet accept stays within `MaxOpen`, which is small against
the range of an unsigned int but may be beyond `MaxConnects`; and its credit is the limit less
its connections, modulo the width. Both the credit and the difference taken from it may then have
wrapped (`OverloadOfFree`: read as an int, the difference is right). `RoundsKept` is the
induction: what a worker counts down is what it owes, from the callback that computes it to
the round in which it goes for the mutex again; it is computed only by a worker that owes
nothing, because the socket comes into its epoll set only when it has counted down to zero.

`MTInv` has, beside the types, that the ends counted by the handler are of processes that are gone,
also at line 263, where they have been added to `num_child` already; without it the bound of
`handle_sig_chld` is not inductive.

*Connection.* `ConnInv` relates the worker's tables to the kernel: the descriptors in the epoll set are the
open ones, but for the one `accept` has just returned (`TableOK`); the job list and what is left of a
batch name only those (`WorkerOK`), although a connection may be released while there are events of
other connections in the batch, and its number given out again. `CountsOK` is about cardinalities and is
kept because a release removes a descriptor that is open and watched. `NoMissedEdge` says only what holds when
the worker waits; `EdgeInv` follows an edge from where it comes to where it is used. Data that is
there is on the ready list, in the batch, or noted in `is_readable`; what is noted for a connection in the
state that uses it is on the job list, and in the part of the list still to be worked off. It needs
too that a response that is being written is not empty: else the machine would wait for room it does not use.
A worker that has written beyond the table and been damaged does nothing more in the model but be replaced by a new one,
for which the invariant holds again: the theorems say nothing about what it does meanwhile.

*Datapipe.* The theorems hold for any number of processes and clients, whatever forks
fail and whoever is killed. Neither of the two is inductive. `IInv` adds to `TypeOK`:
`ListenerOK`, that there is at most one process in `main` or listening, and that its
only child, if any, is the one in `pid`, which it waits for; `FamilyOK`, that only live
processes have children; `ServingOK`, that a process between the two forks is the child of the listener while
there is one; `BacklogOK`, that a connection in the backlog is there once, and one
that a process has was accepted; and
`ActiveOK`, that one process at a time is to see to a connection. A process number is free again only when its last
process has been reaped, so the listener cannot take a later process for its child:
this is what makes `pid` reliable and `ListenerOK` inductive.

*Relay.* `RelayInv` has two halves. `Intact` is about the data: the units on the far side, those in
the buffer and those not yet read are numbered one after another. It is inductive by itself as long as what is read is
passed on whole. That a message which is replaced has nothing behind it in the buffer needs
`Alternate`, a command at a time, from which follows (`Flow`)

```
Len(client.got) <= server.sent <= Len(server.got) <= client.sent <= Len(client.got) + 1
```

for the units the peers of the control connection have sent and got: there is at most one unit on its way in
the whole relay. Without `-f` nothing is replaced, which gives `PlainCopyExact` for
every client.

`Listeners` and `Waits` are about `accept`. A listening socket is numbered by the message that
made the relay open it. A server connects for a transfer only while it has a command to answer, a client
before it sends the next. So while a connection waits at a listening socket no message can be read that
would put another socket in its place: either there is no such message, or `poll` has reported the connection
in the round that reads the message, and `accept` comes first (`PortWaits`, `PasvWaits`). The order
of the tests in the loop (from line 331 on) and that `poll` reports everything at once are what the proof uses.

`Min` and cardinalities are defined by CHOOSE; that a least number exists is taken
from the well-foundedness of `<`, and the facts on cardinalities from `FiniteSetTheorems`.

Only model-checked is liveness: `ProducerReleased`, `ImplementsService`, `Worker1Serves`, `Worker1Reaped`,
`RequestAnswered`, `Delivered`, `EndPassedOn`, `QueuedServed`, `EndReachesClient`,
`PortReleased`. They need fairness and ENABLED, which TLAPS does not treat. `Startup` and `Shrink` have
properties that fail and no theorems. The invariants of the inductions were checked by TLC on the instances of the
runs before they were proved.

## 6. Where code and documents disagree

Each of these runs checks one property that a document or a comment states, and ends
with a counterexample:

| Run | Property | What happens |
|---|---|---|
| `destroy_waits` | `DestroyWaitsForWork` | `managerDestroy` reads `t_workNum` once as not positive and goes on; the mover hands out another task before it is cancelled, and the pools are freed under it. The design document (line 101) says it waits for all work |
| `surplus` | `SurplusIdleShed` | the `else` of `mpool.c:105` belongs to the inner `if`, so `flag` falls after every check and never gets to 3: `subThreadPool` is never called, and idle threads above `t_maxIdleNum` stay. The design document (line 22) says the managing thread kills some of them |
| `lost_exit` | `AsleepWithAllWorkers` | SIGCHLD is handled before `sigsuspend` blocks; the master sleeps with a worker missing until some other signal comes (`main.c:260`) |
| `closed_stays` | `ClosedIsReleased` | `read` returns 0 and the state stays `READ`, or fails and the state is `ERROR`, for which there is no case; the descriptor stays open (`worker_zoon.c:174`) |
| `restart` | `ServesPortAsked` | SIGTERM ends the master, its workers keep the listening socket; the next server on the port is not bound to it, does not notice, and listens on a port the kernel has chosen (`sock_zoon.c:81`) |

Further configurations, kept beside these runs, show consequences or neighbours of
the same lines; each ends with a counterexample:

| Configuration | Property | What happens |
|---|---|---|
| `MCManager_refused.cfg` | `FullPoolBlocks` | two interface threads: both leave their wait on one free place, `taskPoolAdd` refuses the second task, nobody looks at the result (`mpool.c:51`) |
| `MCServer_dead_holder.cfg` | `WorkerGetsLock` | a worker ends with the mutex, which is not robust; nobody accepts any more (`lock_zoon.c:24`) |
| `MCManager_failed_thread.cfg` | `ImplementsService` | `pthread_create` fails, which nobody looks at; the node is counted idle, and the task it is given is never run (`threadpool.c:142`) |
| `MCManager_destroy_ends.cfg` | `DestroyTerminates` | the mover is cancelled in `pthread_cond_wait` and keeps the mutex: `managerDestroy` and the thread counter wait for ever (`mpool.c:64`) |
| `MCShrink_kills.cfg` | `KillsIdleOnly` | if `subThreadPool` were called: the thread at the head of the ring is killed, idle or not (`threadpool.c:204`) |
| `MCShrink_freed.cfg` | `ChosenNodeLives` | same: the mover has chosen the node that is freed, which it does without the pool's mutex (`threadpool.c:255`) |
| `MCShrink_stuck.cfg` | `ShrinkReturns` | same: the killed thread is at work and then waits for the mutex of the pool, which the counter has while it joins it (`threadpool.c:228`) |
| `MCList_list_add_tail.cfg` | `RingIntactWithAddTail` | `list_add_tail`, which nothing calls, breaks the ring (`list.c:47`) |
| `MCServer_over_max.cfg` | `WithinMaxConnects` | a worker with few free connections accepts a whole batch and has more than `worker_max_connects`. It stays away for a few rounds (`OverloadSatOut`), but its next batch is again not limited (`worker_zoon.c:94`, `124`) |
| `MCConnection_overrun.cfg` | `EntryExists` | the 17th descriptor: its state is written (`worker_zoon.c:113`, `connect_state.c:12`) and read (`connect_state.c:28`) in `m_fds` before `gs_sys_epoll_add` makes the table larger (`epoll_zoon.c:82`), that is, in memory of something else |
| `MCConnection_cut_response.cfg` | `ResponseWhole` | the send buffer takes a part of the response, the rest is forgotten (`connect_state.c:96`) |
| `MCRelay_pipelined.cfg` | `AcceptFindsConnection` | an FTP client that sends PORT twice without waiting: the event of the first listening socket is taken for the second, and `accept` blocks (`datapipe.c:431`) |
| `MCRelay_lost.cfg` | `StreamIntact` | an FTP client that sends something together with a PORT: the message made in its place replaces all that was read (`datapipe.c:354`) |

## 7. Abstractions, and what is not modelled

- *ThreadPools.* `malloc` and the pthread calls other than `pthread_create` succeed.
  What a worker does to memory that has been freed is not followed: the model stops
  the workers there. `setTaskPool` and `setThreadPool` are taken as called once, with
  limits they accept. `subThreadPool` and `idlePoolDel` are never reached
  (run `surplus`; lemma `NeverShrinks`). `Shrink` models them for whoever mends line 105: only its
  `Check` departs from the code, and no run counts on it. There what the mover does
  to a node that has been freed is not followed.
- *LikeNginx.* A signal is delivered before the master's next step or later, in any
  number of pieces; `daemonize` is not called by `main` and left out. Of
  `worker_accept_disabled` only positive values are told apart, as in line 340.
  `accept` may stop at any time before the batch is used up. In `Connection` one call of
  `read` or `write` takes all there is or all there is room for; the branch for
  `CLOSE` in `connect_io_callback` is never reached; failures of `malloc` and
  `epoll_ctl` are left out. What is behind the table in memory, and so what the write of
  `worker_zoon.c:113` beyond it does, depends on the build: the model has a worker that is not
  harmed and one that is, which may end and be replaced; what it does while it goes on is
  not followed. `joblist`, of 1024 entries indexed by descriptor, is a set: that no descriptor is
  larger is up to the limit of the process, which the program does not look at. `server_greet` and `command_parse` are declared in a file
  that is not in the repository: only how much they put out is modelled.
- *datapipe.* A unit is a message or a piece of data. Addresses and ports are not
  modelled, only which listening socket a message announces. What the kernel has
  taken is still delivered after the socket is closed. The client of the FTP model
  waits for the reply to each command unless `Pipelining` is set. `EINTR` is left out.
  The process may be ended at any point: by a signal, by SIGPIPE, by a failure of
  `accept` or of the set-up of a listening socket. `Datapipe` takes the options as given
  completely or not; name resolution and the limits on descriptors `main` sets are
  left out, and so is what a relay does while it relays, which is in `Relay`. The
  remote socket is no concern of other processes: it is opened after the last fork.
- *Start-up.* One server is started at a time. `mmap` or the mutex that fails ends the
  program. In `Startup` the master learns of the end of a worker at once; `Server` has
  what can go wrong in between.

Not modelled:

- `lib/fd.c` and `fd.h`: nothing in the repository calls it, and it does not compile as it stands.
  `fd.h:13-14` declare the buffers of `saferead` and `safewrite` as `char *`, `fd.c:111` and `119`
  define them as `int`; `fd.h:15` declares `extern int ssize_t writen`. The `writen` of datapipe is
  its own and is in `Relay`.
- `ThreadPools/memwatch.c` and `memwatch.h`, 3371 lines: a debugging library of a third
  party. The Makefile does not define `MEMWATCH`, without which the header turns
  every call into the plain one.
- `ThreadPools/thradpool.c`, `workerpool.c`, `main.c.bk`, `main.c.net`: not in the
  Makefile. The first is an earlier `threadpool.c`, the second an initialiser nothing
  calls, the others examples.
- `ThreadPools/socklib.c`: straight-line socket calls of `main.c.net`; it keeps no state.
- `gs_sys_epoll_shutdown`, `gs_worker_process_destory`, `daemonize`, `gs_process_lock`:
  never reached.

A signed comparison of an unsigned difference is modelled by what it computes
(`UInt`): `Wrap` reduces modulo the width, `AsInt` reads the result as signed.

## 8. Plan

The order in which the modules were and are to be written. The most
important behaviour, the passage of a task through the pool, came first.

1. Done: `Queue`, `TaskPool`, `ThreadPool`, `Manager`, `TaskService`; then `List`,
   `Master`, `Accept`, `Server`, `Connection`, `Relay`, each with its runs.
2. Done: the proofs of the invariants of `Manager` and of the exclusion in `Server`.
3. Done: `Datapipe` with its proofs, `Startup`, `Shrink`.
4. Done: the proofs of `TaskAccounting`, of the refinement of `TaskService` and of the sleepers of
   `Manager`; of `List`, `Connection` and `Relay`; of the overload and the types of `Server`.
5. Next models:
   - `Connection` under `Accept`: the admission as an abstract specification that
     the connections of a worker implement;
   - `initTcpServer` failing in `doFtpRelay` with both sockets open, and several data
     connections one after another.
6. Next proofs:
   - `Startup`: what still holds of a server that is started again;
   - `Shrink`: how much of `IInv` outlives a call of `subThreadPool`, as a guide for mending
     `mpool.c:105`;
   - `Accept` as a lock: an abstract mutual exclusion that `Accept` implements, with holders that die;
   - `List` as a sequence: that `list_add` and `list_del` implement `Append` and `Tail` as
     `TaskPool` takes them to.
