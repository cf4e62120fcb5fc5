------------------------------ MODULE ThreadPool ------------------------------
(***************************************************************************)
(* The worker threads of ThreadPools/threadpool.c and the dispatch of one  *)
(* task to one of them (addTaskToThreadPools, increaseThreadPool).         *)
(*                                                                         *)
(* A thread is the number of its node in the circular list: list_add       *)
(* appends at the tail and nothing is ever unlinked (NeverShrinks in       *)
(* ManagerProofs), so the ring is 1, 2, ..., created, 1, ... and Pos->next *)
(* is NextPos.  A step is one critical section, or one read or write made  *)
(* outside any.  The mutex of a thread node is held across steps by its    *)
(* worker only, exactly while wpc = "run"; the pool mutex is held across   *)
(* steps only by a dead thread (poolOrphaned).                             *)
(***************************************************************************)
EXTENDS Queue, FiniteSets

CONSTANTS MaxNum,         \* t_maxNum
          MaxIdle,        \* t_maxIdleNum
          MinIdle,        \* t_minIdleNum
          SpawnFailures   \* bound: how many pthread_create calls may fail

(***************************************************************************)
(* setThreadPool rejects the other orders (and then leaves the limits      *)
(* uninitialised); createThreadPool makes no thread when t_minIdleNum = 0. *)
(* UIntMod is far above every count, as 2^32 is.                           *)
(***************************************************************************)
ASSUME ThreadPoolAssumption ==
    /\ MaxNum \in Nat /\ MaxIdle \in Nat /\ MinIdle \in Nat
    /\ 1 <= MinIdle /\ MinIdle <= MaxIdle /\ MaxIdle <= MaxNum
    /\ UIntMod > 4 * (MaxNum + 1)
    /\ SpawnFailures \in Nat

VARIABLES
    wpc,           \* per node: where its thread is in threadDo
    busy,          \* threadNode.busy
    task,          \* threadNode.task
    created,       \* the number of nodes in threadpool->pool
    Pos,           \* the static cursor Pos; 0 is NULL
    t_idleNum,     \* threadpool->t_idleNum, an unsigned int
    t_workNum,     \* threadpool->t_workNum, an unsigned int
    poolOrphaned,  \* threadpool->control.mutex is locked by a cancelled thread
    mpc,           \* where the dispatching thread is (managerRun's thread)
    mTask,         \* the task it carries
    mThread,       \* the node it chose
    moverWaits,    \* it waits on threadpool->control.cond
    done           \* history: the tasks func has returned from

workerVars == <<wpc, busy, task, done>>
poolVars   == <<created, Pos, t_idleNum, t_workNum, poolOrphaned>>
moverVars  == <<mpc, mTask, mThread, moverWaits>>
threadPoolVars == <<workerVars, poolVars, moverVars>>

Nodes == 1..MaxNum
Threads == 1..created

-----------------------------------------------------------------------------
(* threadDo: the life of a worker thread.                                   *)

\* Lines 42-46: the worker locks its mutex and finds nothing to do.
NothingToDo(w) == busy[w] = 0 /\ task[w] = NoTask

WorkerWait(w) ==
    /\ wpc[w] = "lock"
    /\ NothingToDo(w)
    /\ wpc' = [wpc EXCEPT ![w] = "wait"]
    /\ UNCHANGED <<busy, task, done, poolVars, moverVars>>

\* Lines 44, 48: the loop condition is false, func starts; the mutex stays
\* locked until it returns.
WorkerStart(w) ==
    /\ wpc[w] = "lock"
    /\ ~NothingToDo(w)
    /\ wpc' = [wpc EXCEPT ![w] = "run"]
    /\ UNCHANGED <<busy, task, done, poolVars, moverVars>>

\* POSIX lets pthread_cond_wait return without a signal; the loop re-checks.
WorkerSpuriousWake(w) ==
    /\ wpc[w] = "wait"
    /\ wpc' = [wpc EXCEPT ![w] = "lock"]
    /\ UNCHANGED <<busy, task, done, poolVars, moverVars>>

\* Fault: the task pointer is not cleared when func returns.
WorkerFinishKeepsTask(w) ==
    /\ wpc[w] = "run"
    /\ done' = done \cup {task[w]}
    /\ busy' = [busy EXCEPT ![w] = 0]
    /\ wpc' = [wpc EXCEPT ![w] = "count"]
    /\ UNCHANGED <<task, poolVars, moverVars>>

\* Lines 48-51: func returns, the node is idle again, its mutex is unlocked.
\* The counters still call it working.
WorkerFinish(w) ==
    /\ wpc[w] = "run"
    /\ done' = done \cup {task[w]}
    /\ task' = [task EXCEPT ![w] = NoTask]
    /\ busy' = [busy EXCEPT ![w] = 0]
    /\ wpc' = [wpc EXCEPT ![w] = "count"]
    /\ UNCHANGED <<poolVars, moverVars>>

\* Fault: t_workNum is not decremented.
WorkerCountIdleOnly(w) ==
    /\ wpc[w] = "count"
    /\ ~poolOrphaned
    /\ t_idleNum' = Wrap(t_idleNum + 1)
    /\ wpc' = [wpc EXCEPT ![w] = "signal"]
    /\ UNCHANGED <<busy, task, done, created, Pos, t_workNum, poolOrphaned, moverVars>>

\* Lines 54-57: one critical section of threadpool->control.mutex.
WorkerCount(w) ==
    /\ wpc[w] = "count"
    /\ ~poolOrphaned
    /\ t_idleNum' = Wrap(t_idleNum + 1)
    /\ t_workNum' = Wrap(t_workNum - 1)
    /\ wpc' = [wpc EXCEPT ![w] = "signal"]
    /\ UNCHANGED <<busy, task, done, created, Pos, poolOrphaned, moverVars>>

\* Fault: the worker goes back to its wait without signalling.
WorkerSignalNobody(w) ==
    /\ wpc[w] = "signal"
    /\ wpc' = [wpc EXCEPT ![w] = "lock"]
    /\ UNCHANGED <<busy, task, done, poolVars, moverVars>>

\* Lines 62-63: pthread_cond_signal(&threadpool->control.cond).
WorkerSignal(w) ==
    /\ wpc[w] = "signal"
    /\ wpc' = [wpc EXCEPT ![w] = "lock"]
    /\ moverWaits' = FALSE
    /\ UNCHANGED <<busy, task, done, poolVars, mpc, mTask, mThread>>

-----------------------------------------------------------------------------
(* increaseThreadPool, called inside the pool's critical section with the   *)
(* values of the two counters.                                              *)

\* Fault: the test against t_minIdleNum is off by one.
IncreaseByLate(work, idle) ==
    IF Wrap(work + idle) >= MaxNum \/ MinIdle <= idle + 1 THEN 0 ELSE 1

\* How many nodes it adds: the shortfall of idle threads, cut down to what
\* t_maxNum leaves; the loop breaks after the first one when
\* t_workNum >= t_maxIdleNum.
IncreaseBy(work, idle) ==
    LET short == AsInt(Wrap(MinIdle - idle))
        over  == AsInt(Wrap(short + work + idle - MaxNum))
        num   == IF over > 0 THEN short - over ELSE short
    IN  IF Wrap(work + idle) >= MaxNum \/ num <= 0 THEN 0
        ELSE IF work >= MaxIdle THEN 1
        ELSE num

\* The result of pthread_create is ignored: a node whose thread could not be
\* started is linked in and counted idle like any other.
IncreaseThreadPool(work, idle) ==
    LET k   == IncreaseBy(work, idle)
        new == (created + 1)..(created + k)
    IN  /\ created' = created + k
        /\ t_idleNum' = Wrap(idle + k)
        /\ t_workNum' = work
        /\ Pos' = IF k > 0 THEN 1 ELSE Pos
        /\ \E failed \in SUBSET new :
              /\ failed # {} => Cardinality(failed \cup {w \in Threads : wpc[w] = "failed"})
                                   <= SpawnFailures
              /\ wpc' = [w \in Nodes |-> IF w \in failed THEN "failed"
                                         ELSE IF w \in new THEN "lock"
                                         ELSE wpc[w]]

-----------------------------------------------------------------------------
(* addTaskToThreadPools, run by the dispatching thread with mTask.  The     *)
(* pool is never empty (MinIdle >= 1), so its first return is not taken.    *)

Cursor == IF Pos = 0 THEN 1 ELSE Pos

NextPos(pos) == IF pos >= created THEN 1 ELSE pos + 1

\* Fault: a node is taken whether or not it is busy.
DispatchFindAny ==
    /\ mpc = "scan"
    /\ mThread' = Cursor
    /\ Pos' = Cursor
    /\ mpc' = "assign"
    /\ UNCHANGED <<workerVars, created, t_idleNum, t_workNum, poolOrphaned, mTask, moverWaits>>

\* Line 255: busy and task are read without the node's mutex.
DispatchFind ==
    /\ mpc = "scan"
    /\ NothingToDo(Cursor)
    /\ mThread' = Cursor
    /\ Pos' = Cursor
    /\ mpc' = "assign"
    /\ UNCHANGED <<workerVars, created, t_idleNum, t_workNum, poolOrphaned, mTask, moverWaits>>

\* Line 275: the node is taken, try the next one.
DispatchSkip ==
    /\ mpc = "scan"
    /\ ~NothingToDo(Cursor)
    /\ Pos' = NextPos(Cursor)
    /\ UNCHANGED <<workerVars, created, t_idleNum, t_workNum, poolOrphaned, moverVars>>

\* Lines 257-260: the node's mutex is free unless its worker runs a task.
DispatchAssign ==
    /\ mpc = "assign"
    /\ wpc[mThread] # "run"
    /\ busy' = [busy EXCEPT ![mThread] = 1]
    /\ task' = [task EXCEPT ![mThread] = mTask]
    /\ mTask' = NoTask
    /\ mpc' = "account"
    /\ UNCHANGED <<wpc, done, poolVars, mThread, moverWaits>>

\* Lines 262-267: one critical section of threadpool->control.mutex.
DispatchAccount ==
    /\ mpc = "account"
    /\ ~poolOrphaned
    /\ IncreaseThreadPool(Wrap(t_workNum + 1), Wrap(t_idleNum - 1))
    /\ mpc' = "wake"
    /\ UNCHANGED <<busy, task, done, poolOrphaned, mTask, mThread, moverWaits>>

\* Fault: the thread under the cursor is signalled, not the chosen one;
\* increaseThreadPool may have moved the cursor.
DispatchWakeCursor ==
    /\ mpc = "wake"
    /\ wpc' = IF wpc[Pos] = "wait" THEN [wpc EXCEPT ![Pos] = "lock"] ELSE wpc
    /\ Pos' = NextPos(Pos)
    /\ mpc' = "poll"
    /\ UNCHANGED <<busy, task, done, created, t_idleNum, t_workNum, poolOrphaned,
                   mTask, mThread, moverWaits>>

\* Lines 269-271: signal the chosen thread, move the cursor on.
DispatchWake ==
    /\ mpc = "wake"
    /\ wpc' = IF wpc[mThread] = "wait" THEN [wpc EXCEPT ![mThread] = "lock"] ELSE wpc
    /\ Pos' = NextPos(Pos)
    /\ mpc' = "poll"
    /\ UNCHANGED <<busy, task, done, created, t_idleNum, t_workNum, poolOrphaned,
                   mTask, mThread, moverWaits>>

-----------------------------------------------------------------------------

\* The pool managerInit leaves behind: ThreadPoolInit, setThreadPool and
\* createThreadPool, whose pthread_create may fail unnoticed as well.
ThreadPoolInit ==
    /\ created = MinIdle
    /\ \E failed \in SUBSET (1..MinIdle) :
          /\ failed # {} => Cardinality(failed) <= SpawnFailures
          /\ wpc = [w \in Nodes |-> IF w \in failed THEN "failed"
                                    ELSE IF w <= MinIdle THEN "lock"
                                    ELSE "absent"]
    /\ busy = [w \in Nodes |-> 0]
    /\ task = [w \in Nodes |-> NoTask]
    /\ Pos = 0
    /\ t_idleNum = MinIdle
    /\ t_workNum = 0
    /\ poolOrphaned = FALSE
    /\ mpc = "poll" /\ mTask = NoTask /\ mThread = 0 /\ moverWaits = FALSE
    /\ done = {}

ThreadPoolTypeOK ==
    /\ wpc \in [Nodes -> {"absent", "lock", "wait", "run", "count", "signal", "failed"}]
    /\ busy \in [Nodes -> {0, 1}]
    /\ task \in [Nodes -> Tasks \cup {NoTask}]
    /\ created \in MinIdle..MaxNum
    /\ Pos \in 0..created
    /\ t_idleNum \in 0..(UIntMod - 1)
    /\ t_workNum \in 0..(UIntMod - 1)
    /\ poolOrphaned \in BOOLEAN
    /\ mpc \in {"poll", "idle", "del", "notify", "scan", "assign", "account", "wake", "dead"}
    /\ mTask \in Tasks \cup {NoTask}
    /\ mThread \in 0..created
    /\ moverWaits \in BOOLEAN
    /\ done \subseteq Tasks
===============================================================================
