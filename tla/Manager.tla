------------------------------- MODULE Manager -------------------------------
(***************************************************************************)
(* ThreadPools/mpool.c: the whole thread pool at work.  The task pool and  *)
(* the worker threads come from TaskPool and ThreadPool; this module adds  *)
(* the four managing threads of the library,                               *)
(*   - the interface threads (managerInterface), which hand tasks in       *)
(*     through manager_addTaskToTaskpool,                                  *)
(*   - the mover (managerRun), which takes a task from the task pool and   *)
(*     gives it to an idle worker (manager_moveTaskToWorker),              *)
(*   - the thread counter (managerPool), which is to shrink the pool,      *)
(*   - the main thread, which is in managerDestroy from the start,         *)
(* and composes them by interleaving.                                      *)
(***************************************************************************)
EXTENDS TaskPool, ThreadPool

CONSTANTS Interfaces,        \* the threads managerInterface started
          InterfaceReturns,  \* whether the user's interface function returns
          FlagFloor          \* bound: flag is not followed below -FlagFloor

ASSUME ManagerAssumption ==
    /\ Interfaces # {}
    /\ InterfaceReturns \in BOOLEAN
    /\ FlagFloor \in Nat

VARIABLES
    fresh,    \* the tasks the interface threads have not made yet
    dropped,  \* history: the tasks taskPoolAdd refused
    ipc,      \* where each interface thread is in manager_addTaskToTaskpool
    iTask,    \* the task it hands in
    kpc,      \* where the thread counter is in managerThreadNum
    flag,     \* its local variable flag
    dpc       \* where the main thread is in managerDestroy

interfaceVars == <<fresh, dropped, ipc, iTask>>
counterVars   == <<kpc, flag>>
vars == <<taskPoolVars, threadPoolVars, interfaceVars, counterVars, dpc>>

\* managerDestroy has freed both pools; main then calls exit.
Freed == dpc = "freed"

-----------------------------------------------------------------------------
(* An interface thread: manager_addTaskToTaskpool.                          *)

\* The interface function makes a task and hands it in.
Submit(p) ==
    /\ ipc[p] = "make"
    /\ \E t \in fresh : fresh' = fresh \ {t} /\ iTask' = [iTask EXCEPT ![p] = t]
    /\ ipc' = [ipc EXCEPT ![p] = "check"]
    /\ UNCHANGED <<taskPoolVars, threadPoolVars, dropped, counterVars, dpc>>

\* Fault: the pool is tested once, before waiting, not after every wake-up.
SubmitCheckOnce(p) ==
    /\ ipc[p] = "check" /\ p \notin taskCond
    /\ IF TaskPoolFull
       THEN taskCond' = taskCond \cup {p} /\ ipc' = [ipc EXCEPT ![p] = "add"]
       ELSE ipc' = [ipc EXCEPT ![p] = "add"] /\ UNCHANGED taskCond
    /\ UNCHANGED <<taskList, t_curNum, threadPoolVars, fresh, dropped, iTask, counterVars, dpc>>

\* Lines 45-49: wait while the pool is full, then let go of its mutex.
SubmitCheck(p) ==
    /\ ipc[p] = "check" /\ p \notin taskCond
    /\ IF TaskPoolFull
       THEN taskCond' = taskCond \cup {p} /\ UNCHANGED ipc
       ELSE ipc' = [ipc EXCEPT ![p] = "add"] /\ UNCHANGED taskCond
    /\ UNCHANGED <<taskList, t_curNum, threadPoolVars, fresh, dropped, iTask, counterVars, dpc>>

\* pthread_cond_wait may return without a signal.
SubmitSpuriousWake(p) ==
    /\ p \in taskCond
    /\ taskCond' = taskCond \ {p}
    /\ UNCHANGED <<taskList, t_curNum, threadPoolVars, interfaceVars, counterVars, dpc>>

\* Line 51: taskPoolAdd takes the mutex again and tests the limit again; the
\* refusal it returns is not looked at.
SubmitAdd(p) ==
    /\ ipc[p] = "add" /\ p \notin taskCond
    /\ \/ ~TaskPoolFull /\ TaskPoolAdd(iTask[p]) /\ UNCHANGED dropped
       \/ TaskPoolFull /\ dropped' = dropped \cup {iTask[p]} /\ UNCHANGED taskPoolVars
    /\ iTask' = [iTask EXCEPT ![p] = NoTask]
    /\ ipc' = [ipc EXCEPT ![p] = "make"]
    /\ UNCHANGED <<threadPoolVars, fresh, counterVars, dpc>>

\* The interface function returns and its thread ends.
InterfaceReturn(p) ==
    /\ InterfaceReturns
    /\ ipc[p] = "make"
    /\ ipc' = [ipc EXCEPT ![p] = "ended"]
    /\ UNCHANGED <<taskPoolVars, threadPoolVars, fresh, dropped, iTask, counterVars, dpc>>

InterfaceStep(p) == SubmitCheck(p) \/ SubmitAdd(p)

-----------------------------------------------------------------------------
(* The mover: managerDoMoveTaskToWorker and manager_moveTaskToWorker.       *)

\* Lines 81-84, 60: no cancellation is pending and the list, read without
\* the mutex, is not empty.
MoverPoll ==
    /\ mpc = "poll" /\ dpc # "joinRun"
    /\ taskList # <<>>
    /\ mpc' = "idle"
    /\ UNCHANGED <<taskPoolVars, workerVars, poolVars, mTask, mThread, moverWaits,
                   interfaceVars, counterVars, dpc>>

\* Line 60: the list is empty, the thread goes round again at once.
MoverPollEmpty ==
    /\ mpc = "poll" /\ dpc # "joinRun"
    /\ taskList = <<>>
    /\ UNCHANGED vars

\* Fault: the mover does not wait for an idle thread.
MoverAwaitNobody ==
    /\ mpc = "idle" /\ ~moverWaits /\ ~poolOrphaned
    /\ mpc' = "del" /\ UNCHANGED moverWaits
    /\ UNCHANGED <<taskPoolVars, workerVars, poolVars, mTask, mThread,
                   interfaceVars, counterVars, dpc>>

\* Lines 62-66: wait while no thread is counted idle.
MoverAwaitIdle ==
    /\ mpc = "idle" /\ ~moverWaits /\ ~poolOrphaned
    /\ IF t_idleNum <= 0
       THEN moverWaits' = TRUE /\ UNCHANGED mpc
       ELSE mpc' = "del" /\ UNCHANGED moverWaits
    /\ UNCHANGED <<taskPoolVars, workerVars, poolVars, mTask, mThread,
                   interfaceVars, counterVars, dpc>>

\* pthread_cond_wait may return without a signal.
MoverSpuriousWake ==
    /\ mpc = "idle" /\ moverWaits
    /\ moverWaits' = FALSE
    /\ UNCHANGED <<taskPoolVars, workerVars, poolVars, mpc, mTask, mThread,
                   interfaceVars, counterVars, dpc>>

\* Line 68: taskPoolDel; only the mover takes tasks out, so the pool it saw
\* non-empty still is.
MoverDel ==
    /\ mpc = "del"
    /\ ~TaskPoolEmpty
    /\ mTask' = Head(taskList)
    /\ TaskPoolDel
    /\ mpc' = "notify"
    /\ UNCHANGED <<workerVars, poolVars, mThread, moverWaits, interfaceVars, counterVars, dpc>>

\* Fault: no interface thread is woken.
MoverNotifyNobody ==
    /\ mpc = "notify"
    /\ mpc' = "scan"
    /\ UNCHANGED <<taskPoolVars, workerVars, poolVars, mTask, mThread, moverWaits,
                   interfaceVars, counterVars, dpc>>

\* Lines 69-71.
MoverNotify ==
    /\ mpc = "notify"
    /\ SignalTaskCond
    /\ mpc' = "scan"
    /\ UNCHANGED <<workerVars, poolVars, mTask, mThread, moverWaits,
                   interfaceVars, counterVars, dpc>>

\* Lines 81, 87: pthread_testcancel between two rounds.
MoverCancelled ==
    /\ dpc = "joinRun"
    /\ mpc = "poll"
    /\ mpc' = "dead"
    /\ UNCHANGED <<taskPoolVars, workerVars, poolVars, mTask, mThread, moverWaits,
                   interfaceVars, counterVars, dpc>>

\* pthread_cond_wait is a cancellation point too: the thread takes the mutex
\* back and ends; no cleanup handler unlocks it.
MoverCancelledInWait ==
    /\ dpc = "joinRun"
    /\ mpc = "idle" /\ moverWaits
    /\ mpc' = "dead"
    /\ moverWaits' = FALSE
    /\ poolOrphaned' = TRUE
    /\ UNCHANGED <<taskPoolVars, workerVars, created, Pos, t_idleNum, t_workNum,
                   mTask, mThread, interfaceVars, counterVars, dpc>>

-----------------------------------------------------------------------------
(* The thread counter: managerThreadNum.                                    *)

Floored(f) == IF f < -FlagFloor THEN -FlagFloor ELSE f

\* Lines 97-100: the sleep is over.
CounterWake ==
    /\ kpc = "sleep" /\ dpc # "joinPool"
    /\ flag' = IF flag = 3 THEN 0 ELSE flag
    /\ kpc' = "lock"
    /\ UNCHANGED <<taskPoolVars, threadPoolVars, interfaceVars, dpc>>

\* Lines 101-106: the difference is unsigned, so it is positive unless the
\* two numbers are equal; the else belongs to flag==3.
CounterCheck ==
    LET surplus == Wrap(t_idleNum - MaxIdle) > 0
        flagged == IF surplus THEN flag + 1 ELSE flag
    IN  /\ kpc = "lock" /\ ~poolOrphaned
        /\ IF flagged = 3
           THEN kpc' = "shrink" /\ flag' = flagged
           ELSE kpc' = "sleep" /\ flag' = Floored(flagged - 1)
        /\ UNCHANGED <<taskPoolVars, threadPoolVars, interfaceVars, dpc>>

\* sleep and pthread_testcancel are cancellation points.
CounterCancelled ==
    /\ kpc = "sleep" /\ dpc = "joinPool"
    /\ kpc' = "dead"
    /\ UNCHANGED <<taskPoolVars, threadPoolVars, interfaceVars, flag, dpc>>

-----------------------------------------------------------------------------
(* The main thread: managerDestroy.                                         *)

\* Line 143: pthread_join of the interface thread.
DestroyJoinInterface ==
    /\ dpc = "joinInterface"
    /\ \A p \in Interfaces : ipc[p] = "ended"
    /\ dpc' = "read"
    /\ UNCHANGED <<taskPoolVars, threadPoolVars, interfaceVars, counterVars>>

\* Fault: the counter is not read at all.
DestroyReadNothing ==
    /\ dpc = "read"
    /\ dpc' = "cancelRun"
    /\ UNCHANGED <<taskPoolVars, threadPoolVars, interfaceVars, counterVars>>

\* Lines 144-150: read t_workNum into an int and leave the loop when it is
\* not positive.
DestroyReadWorkNum ==
    /\ dpc = "read" /\ ~poolOrphaned
    /\ AsInt(t_workNum) <= 0
    /\ dpc' = "cancelRun"
    /\ UNCHANGED <<taskPoolVars, threadPoolVars, interfaceVars, counterVars>>

\* Line 152: pthread_cancel only makes a request; the mover works on until
\* its next cancellation point.
DestroyCancelRun ==
    /\ dpc = "cancelRun"
    /\ dpc' = "joinRun"
    /\ UNCHANGED <<taskPoolVars, threadPoolVars, interfaceVars, counterVars>>

\* Lines 153-155: the mover has ended; cancel the thread counter.
DestroyJoinRun ==
    /\ dpc = "joinRun"
    /\ mpc = "dead"
    /\ dpc' = "joinPool"
    /\ UNCHANGED <<taskPoolVars, threadPoolVars, interfaceVars, counterVars>>

\* Lines 156-161: both pools are destroyed and freed.
DestroyFree ==
    /\ dpc = "joinPool"
    /\ kpc = "dead"
    /\ dpc' = "freed"
    /\ UNCHANGED <<taskPoolVars, threadPoolVars, interfaceVars, counterVars>>

-----------------------------------------------------------------------------

Init ==
    /\ TaskPoolInit
    /\ ThreadPoolInit
    /\ fresh = Tasks /\ dropped = {}
    /\ ipc = [p \in Interfaces |-> "make"]
    /\ iTask = [p \in Interfaces |-> NoTask]
    /\ kpc = "sleep" /\ flag = 0
    /\ dpc = "joinInterface"

\* The steps of threadDo that its thread is bound to take; func returns.  The
\* threads work on when the pools have been freed, until main calls exit; what
\* they then do to freed memory is not followed.
WorkerStep(w) ==
    /\ ~Freed
    /\ \/ WorkerWait(w) \/ WorkerStart(w) \/ WorkerFinish(w)
       \/ WorkerCount(w) \/ WorkerSignal(w)
    /\ UNCHANGED <<taskPoolVars, interfaceVars, counterVars, dpc>>

WorkerWakes(w) ==
    /\ ~Freed
    /\ WorkerSpuriousWake(w)
    /\ UNCHANGED <<taskPoolVars, interfaceVars, counterVars, dpc>>

\* addTaskToThreadPools, called by the mover.
Dispatch ==
    /\ \/ DispatchFind \/ DispatchSkip \/ DispatchAssign
       \/ DispatchAccount \/ DispatchWake
    /\ UNCHANGED <<taskPoolVars, interfaceVars, counterVars, dpc>>

MoverStep == \/ MoverPoll \/ MoverAwaitIdle \/ MoverDel \/ MoverNotify \/ Dispatch
             \/ MoverCancelled \/ MoverCancelledInWait

CounterStep == CounterWake \/ CounterCheck \/ CounterCancelled

DestroyStep == \/ DestroyJoinInterface \/ DestroyReadWorkNum \/ DestroyCancelRun
               \/ DestroyJoinRun \/ DestroyFree

Next ==
    \/ \E p \in Interfaces : \/ Submit(p) \/ InterfaceStep(p)
                             \/ SubmitSpuriousWake(p) \/ InterfaceReturn(p)
    \/ \E w \in Nodes : WorkerStep(w) \/ WorkerWakes(w)
    \/ MoverStep \/ MoverPollEmpty \/ MoverSpuriousWake
    \/ CounterStep
    \/ DestroyStep

Spec == Init /\ [][Next]_vars

\* Every thread that can take a step takes one eventually, and func returns.
\* Nothing obliges the interface function to make a task or to return, nor a
\* condition variable to wake a thread that nobody signalled.
Fairness ==
    /\ \A p \in Interfaces : WF_vars(InterfaceStep(p))
    /\ \A w \in Nodes : WF_vars(WorkerStep(w))
    /\ WF_vars(MoverStep)
    /\ WF_vars(CounterStep)
    /\ WF_vars(DestroyStep)

FairSpec == Spec /\ Fairness

-----------------------------------------------------------------------------
(* What is checked.                                                         *)

Busy      == {w \in Threads : busy[w] = 1}        \* between lines 258 and 50
Uncounted == {w \in Threads : wpc[w] = "count"}   \* between lines 51 and 54

\* 1 between lines 260 and 263, where a node is busy and not yet counted.
Unaccounted == IF mpc = "account" THEN 1 ELSE 0

\* Every variable stays within its type; the unsigned counters within their
\* width, and the pool never exceeds t_maxNum nodes (threadpool.c:156-161).
TypeOK ==
    /\ TaskPoolTypeOK
    /\ ThreadPoolTypeOK
    /\ fresh \subseteq Tasks /\ dropped \subseteq Tasks
    /\ ipc \in [Interfaces -> {"make", "check", "add", "ended"}]
    /\ iTask \in [Interfaces -> Tasks \cup {NoTask}]
    /\ taskCond \subseteq Interfaces
    /\ kpc \in {"sleep", "lock", "shrink", "dead"}
    /\ flag \in -FlagFloor..3
    /\ dpc \in {"joinInterface", "read", "cancelRun", "joinRun", "joinPool", "freed"}

\* Where a task is.  The functions carry a single pointer from one to the next
\* under three different mutexes; nothing but their order keeps it unique.
Places(t) ==
    (IF t \in fresh THEN {<<"fresh">>} ELSE {})
    \cup {<<"interface", p>> : p \in {q \in Interfaces : iTask[q] = t}}
    \cup {<<"queue", i>> : i \in {j \in DOMAIN taskList : taskList[j] = t}}
    \cup (IF mTask = t THEN {<<"mover">>} ELSE {})
    \cup {<<"worker", w>> : w \in {v \in Nodes : task[v] = t}}
    \cup (IF t \in done THEN {<<"done">>} ELSE {})
    \cup (IF t \in dropped THEN {<<"dropped">>} ELSE {})

\* No task is ever lost, doubled or run twice on its way from the interface
\* function through the task pool and the mover to a worker.
TaskAccounting == \A t \in Tasks : \E place \in Places(t) : Places(t) = {place}

\* The two counters of the thread pool say exactly what the nodes say, up to
\* the two windows in which the code has changed one and not yet the other:
\* a worker between lines 51 and 54, the mover between lines 260 and 263.
CountersExact ==
    /\ t_idleNum = created + Unaccounted - Cardinality(Busy) - Cardinality(Uncounted)
    /\ t_workNum = Wrap(Cardinality(Busy) + Cardinality(Uncounted) - Unaccounted)
    /\ t_curNum = Len(taskList)

\* Unless it is at its limit, the pool keeps t_minIdleNum threads counted idle,
\* whenever its mutex is free (increaseThreadPool, called by line 265).
IdleReserve == created = MaxNum \/ t_idleNum >= MinIdle

\* Once the mover has left its wait (mpool.c:63-66) the task it takes finds a
\* node that no one else can take; otherwise the loop of
\* addTaskToThreadPools would go round the ring with a task in its hand.
DispatchFindsThread ==
    mpc \in {"del", "notify", "scan"} =>
        \E w \in Threads : NothingToDo(w) /\ wpc[w] # "run"

\* A task given to a node stays there until func has returned from it, although
\* line 255 tests the node without its mutex.
NoOverwrite ==
    [][\A w \in Nodes : task[w] # NoTask /\ task'[w] # task[w]
          => wpc[w] = "run" /\ task[w] \in done']_vars

\* No worker sleeps on a task: a busy node whose thread waits is one the mover
\* is still about to signal (lines 260-269).
NoSleepingWorker ==
    \A w \in Nodes : wpc[w] = "wait" /\ ~NothingToDo(w)
                        => mpc \in {"account", "wake"} /\ mThread = w

\* The mover sleeps only while no thread is counted idle, or a worker that has
\* counted itself idle has its signal still to send (lines 55-63).
NoSleepingMover ==
    moverWaits => t_idleNum = 0 \/ \E w \in Threads : wpc[w] = "signal"

\* taskPoolAdd's own test of the limit never refuses a task that
\* manager_addTaskToTaskpool has waited for room for.
SubmitNeverRefused == dropped = {}

\* managerDestroy's wait is not empty: when it has read t_workNum, the thread
\* pool has been without a working thread at some moment since the interface
\* returned -- or its counter has wrapped, which takes a task in that moment.
\* (Stated on the step that leaves the wait.)
DestroyReadsQuiet ==
    [][dpc = "read" /\ dpc' = "cancelRun" =>
          Cardinality(Busy) + Cardinality(Uncounted) <= Unaccounted]_vars

\* An interface thread that waits for room gets it.
ProducerReleased == \A p \in Interfaces : ipc[p] = "check" ~> ipc[p] = "make"

-----------------------------------------------------------------------------
(* The pool implements the service its user sees.                           *)

TakenTasks == (IF mTask = NoTask THEN {} ELSE {mTask})
              \cup {task[w] : w \in {v \in Nodes : task[v] # NoTask}}

Promise == INSTANCE TaskService
               WITH waiting <- taskList, inFlight <- TakenTasks, finished <- done

\* First in, first out, bounded, at most t_maxNum tasks in progress, each done
\* once: every step of the threads is a step of the service or none.
ImplementsTaskService == Promise!Spec

\* Under the fairness of the threads the service makes progress too.
ImplementsService == Promise!Service

-----------------------------------------------------------------------------
(* What the documents say of the code and the code does not do.             *)

\* "If threads of the pool are still working, wait until all the work is
\* complete" (the design document on managerDestroy): when the pools are freed
\* no thread has a task in hand.
DestroyWaitsForWork == Freed => TakenTasks = {}

\* "Recovers all managing threads" (the design document on managerDestroy): once
\* the interface function has returned, managerDestroy returns.
DestroyTerminates == dpc = "read" ~> Freed

\* "If the limit is exceeded, block" (the design document on addTask): whatever
\* the number of interface threads, a task handed in is accepted sooner or later.
FullPoolBlocks == dropped = {}

\* "If the number of idle threads exceeds this value, the managing thread kills
\* the surplus" (the design document on maxIdleNum): idle threads beyond
\* t_maxIdleNum get to work again or the thread counter calls subThreadPool.
SurplusIdleShed == t_idleNum > MaxIdle ~> t_idleNum <= MaxIdle \/ kpc = "shrink"
===============================================================================
