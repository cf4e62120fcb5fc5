---------------------------- MODULE ServiceProofs ----------------------------
(***************************************************************************)
(* More proofs about Manager: where every task is, who sleeps, and that    *)
(* the pool implements TaskService.                                        *)
(***************************************************************************)
EXTENDS ManagerProofs

USE UIntAssumption, QueueAssumption, TaskPoolAssumption, ThreadPoolAssumption, ManagerAssumption
    DEF UIntAssumption, QueueAssumption, TaskPoolAssumption, ThreadPoolAssumption, ManagerAssumption

-----------------------------------------------------------------------------
(* The inductive invariant: a thread has no task in hand except where it    *)
(* carries one, and each task is in one place.                              *)

\* No thread keeps a pointer to a task that it has passed on, and the mover waits
\* at one point only.
HandsOK ==
    /\ mpc \in {"poll", "idle", "del", "account", "wake", "dead"} => mTask = NoTask
    /\ \A p \in Interfaces : ipc[p] \in {"make", "ended"} => iTask[p] = NoTask
    /\ moverWaits => mpc = "idle"

WithInterface(t) == \E p \in Interfaces : iTask[p] = t
InPool(t)        == \E i \in DOMAIN taskList : taskList[i] = t
OnNode(t)        == \E w \in Nodes : task[w] = t

\* Nothing that holds several tasks holds this one twice.
Single(t) ==
    /\ \A p, q \in Interfaces : iTask[p] = t /\ iTask[q] = t => p = q
    /\ \A i, j \in DOMAIN taskList : taskList[i] = t /\ taskList[j] = t => i = j
    /\ \A v, w \in Nodes : task[v] = t /\ task[w] = t => v = w

\* One of the seven kinds of place has it, and only one.
Somewhere(t) ==
    t \in fresh \/ WithInterface(t) \/ InPool(t) \/ mTask = t \/ OnNode(t)
    \/ t \in done \/ t \in dropped

Apart(t) ==
    /\ t \in fresh => ~WithInterface(t)
    /\ t \in fresh \/ WithInterface(t) => ~InPool(t)
    /\ t \in fresh \/ WithInterface(t) \/ InPool(t) => mTask # t
    /\ t \in fresh \/ WithInterface(t) \/ InPool(t) \/ mTask = t => ~OnNode(t)
    /\ t \in fresh \/ WithInterface(t) \/ InPool(t) \/ mTask = t \/ OnNode(t) => t \notin done
    /\ t \in fresh \/ WithInterface(t) \/ InPool(t) \/ mTask = t \/ OnNode(t) \/ t \in done
          => t \notin dropped

Once(t) == Single(t) /\ Somewhere(t) /\ Apart(t)

TInv == IInv /\ HandsOK /\ \A t \in Tasks : Once(t)

-----------------------------------------------------------------------------

\* A single place is what TaskAccounting says it is.
LEMMA OnceIsOnePlace ==
    ASSUME NEW t \in Tasks, Once(t)
    PROVE  \E place \in Places(t) : Places(t) = {place}
  <1> USE DEF Once, Single, Somewhere, Apart, WithInterface, InPool, OnNode
  <1>1. CASE t \in fresh
    <2>1. Places(t) = {<<"fresh">>}
      BY <1>1 DEF Places
    <2> QED
      BY <2>1
  <1>2. CASE WithInterface(t)
    <2>1. PICK p \in Interfaces : iTask[p] = t
      BY <1>2
    <2>2. {q \in Interfaces : iTask[q] = t} = {p}
      BY <2>1
    <2>3. Places(t) = {<<"interface", p>>}
      BY <1>2, <2>2 DEF Places
    <2> QED
      BY <2>3
  <1>3. CASE InPool(t)
    <2>1. PICK i \in DOMAIN taskList : taskList[i] = t
      BY <1>3
    <2>2. {j \in DOMAIN taskList : taskList[j] = t} = {i}
      BY <2>1
    <2>3. Places(t) = {<<"queue", i>>}
      BY <1>3, <2>2 DEF Places
    <2> QED
      BY <2>3
  <1>4. CASE mTask = t
    <2>1. Places(t) = {<<"mover">>}
      BY <1>4 DEF Places
    <2> QED
      BY <2>1
  <1>5. CASE OnNode(t)
    <2>1. PICK w \in Nodes : task[w] = t
      BY <1>5
    <2>2. {v \in Nodes : task[v] = t} = {w}
      BY <2>1
    <2>3. Places(t) = {<<"worker", w>>}
      BY <1>5, <2>2 DEF Places
    <2> QED
      BY <2>3
  <1>6. CASE t \in done
    <2>1. Places(t) = {<<"done">>}
      BY <1>6 DEF Places
    <2> QED
      BY <2>1
  <1>7. CASE t \in dropped
    <2>1. Places(t) = {<<"dropped">>}
      BY <1>7 DEF Places
    <2> QED
      BY <2>1
  <1> QED
    BY <1>1, <1>2, <1>3, <1>4, <1>5, <1>6, <1>7

\* The tasks move in five steps only.
LEMMA WhoMovesTasks ==
    ASSUME [Next]_vars
    PROVE  \/ \E p \in Interfaces : Submit(p) \/ SubmitAdd(p)
           \/ MoverDel
           \/ DispatchAssign /\ UNCHANGED <<taskPoolVars, interfaceVars, counterVars, dpc>>
           \/ \E w \in Nodes :
                 WorkerFinish(w) /\ UNCHANGED <<taskPoolVars, interfaceVars, counterVars, dpc>>
           \/ UNCHANGED <<fresh, iTask, dropped, taskList, mTask, task, done>>
  BY DEF Next, InterfaceStep, SubmitCheck, SubmitSpuriousWake, InterfaceReturn,
         WorkerStep, WorkerWakes, WorkerWait, WorkerStart, WorkerCount, WorkerSignal,
         WorkerSpuriousWake, MoverStep, MoverPoll, MoverPollEmpty, MoverAwaitIdle,
         MoverSpuriousWake, MoverNotify, SignalTaskCond, MoverCancelled, MoverCancelledInWait,
         Dispatch, DispatchFind, DispatchSkip, DispatchAccount, DispatchWake,
         CounterStep, CounterWake, CounterCheck, CounterCancelled,
         DestroyStep, DestroyJoinInterface, DestroyReadWorkNum, DestroyCancelRun,
         DestroyJoinRun, DestroyFree, vars, taskPoolVars, threadPoolVars, workerVars,
         moverVars, interfaceVars

\* No task has been submitted to begin with.
LEMMA InitTInv == Init => TInv
  <1> SUFFICES ASSUME Init PROVE TInv
    OBVIOUS
  <1>1. HandsOK
    BY DEF Init, ThreadPoolInit, HandsOK
  <1>2. ASSUME NEW t \in Tasks PROVE Once(t)
    <2>1. /\ t \in fresh /\ t \notin done /\ t \notin dropped /\ mTask # t
          /\ ~WithInterface(t) /\ ~InPool(t) /\ ~OnNode(t)
      <3>1. /\ fresh = Tasks /\ done = {} /\ dropped = {} /\ mTask = NoTask /\ taskList = <<>>
            /\ \A p \in Interfaces : iTask[p] = NoTask
            /\ \A w \in Nodes : task[w] = NoTask
        BY DEF Init, ThreadPoolInit, TaskPoolInit
      <3>2. t # NoTask
        OBVIOUS
      <3> QED
        BY <3>1, <3>2 DEF WithInterface, InPool, OnNode
    <2>2. Single(t)
      BY <2>1 DEF Single, WithInterface, InPool, OnNode
    <2> QED
      BY <2>1, <2>2 DEF Once, Somewhere, Apart
  <1> QED
    BY <1>1, <1>2, InitIInv DEF TInv

\* Where a task is depends on seven variables.
LEMMA OnceFrame ==
    ASSUME NEW t \in Tasks, Once(t),
           UNCHANGED <<fresh, iTask, dropped, taskList, mTask, task, done>>
    PROVE  Once(t)'
  BY DEF Once, Single, Somewhere, Apart, WithInterface, InPool, OnNode

\* The interface function makes a task.
LEMMA SubmitMoves ==
    ASSUME TInv, NEW p \in Interfaces, Submit(p)
    PROVE  \A t \in Tasks : Once(t)'
  <1> SUFFICES ASSUME NEW t \in Tasks PROVE Once(t)'
    OBVIOUS
  <1>1. PICK m \in fresh : fresh' = fresh \ {m} /\ iTask' = [iTask EXCEPT ![p] = m]
    BY DEF Submit
  <1>2. UNCHANGED <<dropped, taskList, mTask, task, done>>
    BY DEF Submit, taskPoolVars, threadPoolVars, workerVars, moverVars
  <1>3. iTask \in [Interfaces -> Tasks \cup {NoTask}] /\ iTask[p] = NoTask /\ m \in Tasks
    BY DEF TInv, IInv, TypeOK, HandsOK, Submit
  <1>4. Once(t) /\ Once(m)
    BY <1>3 DEF TInv
  <1>5. UNCHANGED <<InPool(t), OnNode(t)>>
    BY <1>2 DEF InPool, OnNode
  <1>6. CASE t = m
    <2>1. WithInterface(t)' /\ \A q \in Interfaces : iTask'[q] = t <=> q = p
      BY <1>1, <1>3, <1>4, <1>6 DEF WithInterface, Once, Apart
    <2>2. Single(t)'
      BY <1>2, <1>4, <2>1 DEF Once, Single
    <2> QED
      BY <1>1, <1>2, <1>4, <1>5, <1>6, <2>1, <2>2 DEF Once, Somewhere, Apart
  <1>7. CASE t # m
    <2>1. \A q \in Interfaces : iTask'[q] = t <=> iTask[q] = t
      BY <1>1, <1>3, <1>7
    <2>2. Single(t)' /\ (WithInterface(t)' <=> WithInterface(t)) /\ (t \in fresh' <=> t \in fresh)
      BY <1>1, <1>2, <1>4, <1>7, <2>1 DEF Once, Single, WithInterface
    <2> QED
      BY <1>2, <1>4, <1>5, <2>2 DEF Once, Somewhere, Apart
  <1> QED
    BY <1>6, <1>7

\* taskPoolAdd takes it from the interface thread, or refuses it.
LEMMA AddMoves ==
    ASSUME TInv, NEW p \in Interfaces, SubmitAdd(p)
    PROVE  \A t \in Tasks : Once(t)'
  <1> SUFFICES ASSUME NEW t \in Tasks PROVE Once(t)'
    OBVIOUS
  <1> DEFINE m == iTask[p]
  <1>1. /\ iTask \in [Interfaces -> Tasks \cup {NoTask}] /\ iTask' = [iTask EXCEPT ![p] = NoTask]
        /\ m \in Tasks /\ taskList \in Seq(Tasks)
    BY DEF TInv, IInv, TypeOK, TaskPoolTypeOK, InterfaceOK, SubmitAdd
  <1>2. UNCHANGED <<fresh, mTask, task, done>>
    BY DEF SubmitAdd, threadPoolVars, workerVars, moverVars
  <1>3. \/ taskList' = Append(taskList, m) /\ UNCHANGED dropped
        \/ dropped' = dropped \cup {m} /\ UNCHANGED taskList
    BY DEF SubmitAdd, TaskPoolAdd, taskPoolVars
  <1>4. Once(t) /\ Once(m)
    BY <1>1 DEF TInv
  <1>5. OnNode(t)' <=> OnNode(t)
    BY <1>2 DEF OnNode
  <1>6. \A q \in Interfaces : iTask'[q] = t <=> iTask[q] = t /\ t # m
    BY <1>1, <1>4 DEF Once, Single
  <1>7. WithInterface(t)' <=> WithInterface(t) /\ t # m
    BY <1>6 DEF WithInterface
  <1>8. WithInterface(m) /\ ~InPool(m) /\ m \notin dropped
    BY <1>1, <1>4 DEF WithInterface, Once, Apart
  <1> HIDE DEF m
  <1>9. CASE taskList' = Append(taskList, m) /\ UNCHANGED dropped
    <2>1. /\ DOMAIN taskList = 1..Len(taskList) /\ DOMAIN taskList' = 1..(Len(taskList) + 1)
          /\ \A i \in 1..Len(taskList) : taskList'[i] = taskList[i]
          /\ taskList'[Len(taskList) + 1] = m /\ Len(taskList) \in Nat
      BY <1>1, <1>9
    <2>2. InPool(t)' <=> InPool(t) \/ t = m
      BY <2>1 DEF InPool
    <2>3. \A i, j \in DOMAIN taskList' : taskList'[i] = t /\ taskList'[j] = t => i = j
      <3>1. CASE t = m
        BY <1>8, <2>1, <3>1 DEF InPool
      <3>2. CASE t # m
        BY <1>4, <2>1, <3>2 DEF Once, Single
      <3> QED
        BY <3>1, <3>2
    <2>4. Single(t)'
      BY <1>2, <1>4, <1>6, <2>3 DEF Once, Single
    <2> QED
      BY <1>2, <1>4, <1>5, <1>7, <1>8, <1>9, <2>2, <2>4 DEF Once, Somewhere, Apart
  <1>10. CASE dropped' = dropped \cup {m} /\ UNCHANGED taskList
    <2>1. InPool(t)' <=> InPool(t)
      BY <1>10 DEF InPool
    <2>2. Single(t)'
      BY <1>2, <1>4, <1>6, <1>10 DEF Once, Single
    <2> QED
      BY <1>2, <1>4, <1>5, <1>7, <1>8, <1>10, <2>1, <2>2 DEF Once, Somewhere, Apart
  <1> QED
    BY <1>3, <1>9, <1>10

\* taskPoolDel takes the oldest task out; the others move up.
LEMMA DelMoves ==
    ASSUME TInv, MoverDel
    PROVE  \A t \in Tasks : Once(t)'
  <1> SUFFICES ASSUME NEW t \in Tasks PROVE Once(t)'
    OBVIOUS
  <1> DEFINE m == Head(taskList)
  <1>1. /\ taskList \in Seq(Tasks) /\ taskList # <<>> /\ mTask = NoTask
        /\ mTask' = m /\ taskList' = Tail(taskList)
    BY DEF TInv, IInv, TypeOK, TaskPoolTypeOK, HandsOK, MoverDel, TaskPoolDel, TaskPoolEmpty
  <1>2. UNCHANGED <<fresh, iTask, dropped, task, done>>
    BY DEF MoverDel, workerVars, interfaceVars
  <1>3. /\ DOMAIN taskList = 1..Len(taskList) /\ DOMAIN taskList' = 1..(Len(taskList) - 1)
        /\ \A i \in DOMAIN taskList' : taskList'[i] = taskList[i + 1]
        /\ m = taskList[1] /\ m \in Tasks /\ Len(taskList) \in Nat \ {0}
    BY <1>1
  <1>4. Once(t) /\ Once(m)
    BY <1>3 DEF TInv
  <1> HIDE DEF m
  <1>5. UNCHANGED <<WithInterface(t), OnNode(t)>>
    BY <1>2 DEF WithInterface, OnNode
  <1>6. \A i, j \in DOMAIN taskList' : taskList'[i] = t /\ taskList'[j] = t => i = j
    BY <1>3, <1>4 DEF Once, Single
  <1>7. Single(t)'
    BY <1>2, <1>4, <1>6 DEF Once, Single
  <1>8. InPool(t)' <=> InPool(t) /\ t # m
    <2>1. CASE t = m
      BY <1>3, <1>4, <2>1 DEF InPool, Once, Single
    <2>2. CASE t # m
      <3>1. ASSUME NEW i \in DOMAIN taskList, taskList[i] = t
            PROVE  i - 1 \in DOMAIN taskList' /\ taskList'[i - 1] = t
        BY <1>3, <2>2, <3>1
      <3> QED
        BY <1>3, <2>2, <3>1 DEF InPool
    <2> QED
      BY <2>1, <2>2
  <1>9. InPool(m)
    BY <1>3 DEF InPool
  <1> QED
    BY <1>1, <1>2, <1>4, <1>5, <1>7, <1>8, <1>9 DEF Once, Somewhere, Apart

\* The mover gives its task to an idle node.
LEMMA AssignMoves ==
    ASSUME TInv, DispatchAssign, UNCHANGED <<taskPoolVars, interfaceVars>>
    PROVE  \A t \in Tasks : Once(t)'
  <1> SUFFICES ASSUME NEW t \in Tasks PROVE Once(t)'
    OBVIOUS
  <1>1. UNCHANGED <<fresh, iTask, dropped, taskList, done>> /\ mTask' = NoTask
    BY DEF DispatchAssign, taskPoolVars, interfaceVars
  <1>2. /\ task \in [Nodes -> Tasks \cup {NoTask}] /\ task' = [task EXCEPT ![mThread] = mTask]
        /\ mThread \in Nodes /\ task[mThread] = NoTask /\ mTask \in Tasks
    BY DEF TInv, IInv, TypeOK, ThreadPoolTypeOK, MoverOK, NothingToDo, Threads, Nodes,
           DispatchAssign
  <1>3. Once(t) /\ Once(mTask)
    BY <1>2 DEF TInv
  <1>4. UNCHANGED <<WithInterface(t), InPool(t)>>
    BY <1>1 DEF WithInterface, InPool
  <1>5. ~OnNode(mTask)
    BY <1>3 DEF Once, Apart
  <1>6. \A w \in Nodes : task'[w] = t <=> IF w = mThread THEN t = mTask ELSE task[w] = t
    BY <1>2
  <1>7. Single(t)'
    BY <1>1, <1>2, <1>3, <1>5, <1>6 DEF Once, Single, OnNode
  <1>8. OnNode(t)' <=> OnNode(t) \/ t = mTask
    BY <1>2, <1>6 DEF OnNode
  <1> QED
    BY <1>1, <1>2, <1>3, <1>4, <1>7, <1>8 DEF Once, Somewhere, Apart

\* func returns from the task of a node.
LEMMA FinishMoves ==
    ASSUME TInv, NEW w \in Nodes, WorkerFinish(w), UNCHANGED <<taskPoolVars, interfaceVars>>
    PROVE  \A t \in Tasks : Once(t)'
  <1> SUFFICES ASSUME NEW t \in Tasks PROVE Once(t)'
    OBVIOUS
  <1> DEFINE m == task[w]
  <1>1. UNCHANGED <<fresh, iTask, dropped, taskList, mTask>> /\ done' = done \cup {m}
    BY DEF WorkerFinish, moverVars, taskPoolVars, interfaceVars
  <1>2. /\ task \in [Nodes -> Tasks \cup {NoTask}] /\ task' = [task EXCEPT ![w] = NoTask]
        /\ m \in Tasks
    BY DEF TInv, IInv, TypeOK, ThreadPoolTypeOK, WorkerOK, WorkerFinish
  <1>3. Once(t) /\ Once(m)
    BY <1>2 DEF TInv
  <1>4. UNCHANGED <<WithInterface(t), InPool(t)>>
    BY <1>1 DEF WithInterface, InPool
  <1>5. \A v \in Nodes : task'[v] = t <=> task[v] = t /\ t # m
    BY <1>2, <1>3 DEF Once, Single
  <1>6. Single(t)'
    BY <1>1, <1>3, <1>5 DEF Once, Single
  <1>7. OnNode(t)' <=> OnNode(t) /\ t # m
    BY <1>5 DEF OnNode
  <1>8. OnNode(m)
    BY DEF OnNode
  <1> HIDE DEF m
  <1> QED
    BY <1>1, <1>3, <1>4, <1>6, <1>7, <1>8 DEF Once, Somewhere, Apart

\* Whoever passes a task on forgets it.
LEMMA StepKeepsHands ==
    ASSUME TInv, [Next]_vars
    PROVE  HandsOK'
  <1> USE DEF TInv, HandsOK
  <1>1. CASE \E p \in Interfaces : \/ Submit(p) \/ InterfaceStep(p)
                                   \/ SubmitSpuriousWake(p) \/ InterfaceReturn(p)
    <2>1. PICK p \in Interfaces : \/ Submit(p) \/ InterfaceStep(p)
                                  \/ SubmitSpuriousWake(p) \/ InterfaceReturn(p)
      BY <1>1
    <2>2. UNCHANGED <<mpc, mTask, moverWaits>>
      BY <2>1 DEF Submit, InterfaceStep, SubmitCheck, SubmitAdd, SubmitSpuriousWake,
                  InterfaceReturn, threadPoolVars, moverVars
    <2>3. \A q \in Interfaces : ipc'[q] \in {"make", "ended"} => iTask'[q] = NoTask
      BY <2>1 DEF Submit, InterfaceStep, SubmitCheck, SubmitAdd, SubmitSpuriousWake,
                  InterfaceReturn, interfaceVars, IInv, TypeOK
    <2> QED
      BY <2>2, <2>3
  <1>2. CASE (MoverStep /\ ~Dispatch) \/ MoverPollEmpty \/ MoverSpuriousWake
    <2>1. UNCHANGED interfaceVars
      BY <1>2 DEF MoverStep, MoverPoll, MoverPollEmpty, MoverAwaitIdle, MoverSpuriousWake,
                  MoverDel, MoverNotify, MoverCancelled, MoverCancelledInWait, vars
    <2>2. /\ mpc' \in {"poll", "idle", "del", "account", "wake", "dead"} => mTask' = NoTask
          /\ moverWaits' => mpc' = "idle"
      BY <1>2 DEF MoverStep, MoverPoll, MoverPollEmpty, MoverAwaitIdle, MoverSpuriousWake,
                  MoverDel, MoverNotify, MoverCancelled, MoverCancelledInWait, vars,
                  threadPoolVars, moverVars
    <2> QED
      BY <2>1, <2>2 DEF interfaceVars
  <1>3. CASE Dispatch
    <2>1. UNCHANGED interfaceVars
      BY <1>3 DEF Dispatch
    <2>2. /\ mpc' \in {"poll", "idle", "del", "account", "wake", "dead"} => mTask' = NoTask
          /\ moverWaits' => mpc' = "idle"
      BY <1>3 DEF Dispatch, DispatchFind, DispatchSkip, DispatchAssign, DispatchAccount,
                  DispatchWake, moverVars
    <2> QED
      BY <2>1, <2>2 DEF interfaceVars
  <1>4. CASE \/ \E w \in Nodes : WorkerStep(w) \/ WorkerWakes(w)
             \/ CounterStep \/ DestroyStep \/ UNCHANGED vars
    <2>1. UNCHANGED <<interfaceVars, mpc, mTask>> /\ (moverWaits' => moverWaits)
      BY <1>4 DEF WorkerStep, WorkerWakes, WorkerWait, WorkerStart, WorkerFinish, WorkerCount,
           WorkerSignal, WorkerSpuriousWake, CounterStep, CounterWake, CounterCheck,
           CounterCancelled, DestroyStep, DestroyJoinInterface, DestroyReadWorkNum,
           DestroyCancelRun, DestroyJoinRun, DestroyFree, vars, threadPoolVars, moverVars
    <2> QED
      BY <2>1 DEF interfaceVars
  <1> QED
    BY <1>1, <1>2, <1>3, <1>4 DEF Next

\* Every step keeps the whereabouts of the tasks.
LEMMA NextTInv == TInv /\ [Next]_vars => TInv'
  <1> SUFFICES ASSUME TInv, [Next]_vars PROVE TInv'
    OBVIOUS
  <1>1. IInv'
    BY NextIInv DEF TInv
  <1>2. HandsOK'
    BY StepKeepsHands
  <1>3. \A t \in Tasks : Once(t)'
    <2>1. CASE \E p \in Interfaces : Submit(p) \/ SubmitAdd(p)
      BY <2>1, SubmitMoves, AddMoves
    <2>2. CASE MoverDel
      BY <2>2, DelMoves
    <2>3. CASE DispatchAssign /\ UNCHANGED <<taskPoolVars, interfaceVars, counterVars, dpc>>
      BY <2>3, AssignMoves
    <2>4. CASE \E w \in Nodes :
                  WorkerFinish(w) /\ UNCHANGED <<taskPoolVars, interfaceVars, counterVars, dpc>>
      BY <2>4, FinishMoves
    <2>5. CASE UNCHANGED <<fresh, iTask, dropped, taskList, mTask, task, done>>
      BY <2>5, OnceFrame DEF TInv
    <2> QED
      BY <2>1, <2>2, <2>3, <2>4, <2>5, WhoMovesTasks
  <1> QED
    BY <1>1, <1>2, <1>3 DEF TInv

\* In every run of the pool each task is in one place, and who holds it knows it.
THEOREM TaskInvariance == Spec => []TInv
  BY InitTInv, NextTInv, PTL DEF Spec

\* No task is lost, doubled or run twice, although its pointer is passed on under
\* three mutexes in turn.
THEOREM TasksAccountedFor == Spec => []TaskAccounting
  <1>1. TInv => TaskAccounting
    BY OnceIsOnePlace DEF TInv, TaskAccounting
  <1> QED
    BY <1>1, TaskInvariance, PTL

-----------------------------------------------------------------------------
(* The pool implements TaskService.                                         *)

\* While the mover is about to take a task, fewer tasks than t_maxNum are taken: each
\* of them is on a node of its own, and one node of the ring is not busy.
LEMMA RoomForOne ==
    ASSUME TInv, mpc = "del"
    PROVE  Cardinality(TakenTasks) < MaxNum
  <1> USE DEF TInv, IInv
  <1>1. TakenTasks = {task[w] : w \in Busy}
    <2>1. mTask = NoTask
      BY DEF HandsOK
    <2>2. Busy = {w \in Nodes : task[w] # NoTask}
      BY DEF Busy, WorkerOK, RingOK, Threads, Nodes, TypeOK, ThreadPoolTypeOK
    <2> QED
      BY <2>1, <2>2 DEF TakenTasks
  <1> DEFINE f == [w \in Busy |-> task[w]]
  <1>2. f \in Surjection(Busy, TakenTasks)
    BY <1>1 DEF Surjection
  <1>3. IsFiniteSet(TakenTasks) /\ Cardinality(TakenTasks) <= Cardinality(Busy)
    BY <1>2, CountsFinite, FS_Surjection
  <1>4. Cardinality(Busy) < MaxNum
    BY CountsFinite DEF Headroom, TypeOK, ThreadPoolTypeOK
  <1> QED
    BY <1>3, <1>4, CountsFinite, FS_CardinalityType

\* The pool begins as the abstract service does.
LEMMA InitImplements == Init => Promise!Init
  <1> SUFFICES ASSUME Init PROVE Promise!Init
    OBVIOUS
  <1>1. taskList = <<>> /\ done = {} /\ mTask = NoTask /\ \A w \in Nodes : task[w] = NoTask
    BY DEF Init, TaskPoolInit, ThreadPoolInit
  <1>2. TakenTasks = {}
    BY <1>1 DEF TakenTasks
  <1> QED
    BY <1>1, <1>2 DEF Promise!Init

\* Every step of the threads is a step of the service, or none.
LEMMA StepImplements ==
    ASSUME TInv, [Next]_vars
    PROVE  [Promise!Next]_(Promise!serviceVars)
  <1> USE DEF TInv
  <1>1. CASE \E p \in Interfaces : Submit(p)
    <2>1. UNCHANGED <<taskList, TakenTasks, done>>
      BY <1>1 DEF Submit, taskPoolVars, threadPoolVars, workerVars, moverVars, TakenTasks
    <2> QED
      BY <2>1 DEF Promise!serviceVars
  <1>2. ASSUME NEW p \in Interfaces, SubmitAdd(p) PROVE [Promise!Next]_(Promise!serviceVars)
    <2> DEFINE t == iTask[p]
    <2>1. UNCHANGED <<TakenTasks, done>>
      BY <1>2 DEF SubmitAdd, threadPoolVars, workerVars, moverVars, TakenTasks
    <2>2. CASE TaskPoolFull
      BY <1>2, <2>1, <2>2 DEF SubmitAdd, taskPoolVars, Promise!serviceVars
    <2>3. CASE ~TaskPoolFull
      <3>1. t \in Tasks /\ taskList' = Append(taskList, t)
        BY <1>2, <2>3 DEF SubmitAdd, TaskPoolAdd, IInv, InterfaceOK
      <3>2. Len(taskList) < MaxTask
        BY <2>3 DEF TaskPoolFull, IInv, CountersExact, TypeOK, TaskPoolTypeOK
      <3>3. Once(t) /\ WithInterface(t) /\ t # NoTask
        BY <3>1 DEF WithInterface
      <3>4. t \notin Promise!Seen
        BY <3>3 DEF Promise!Seen, TakenTasks, Once, Apart, InPool, OnNode
      <3>5. Promise!Accept(t)
        BY <2>1, <3>1, <3>2, <3>4 DEF Promise!Accept
      <3> QED
        BY <3>1, <3>5 DEF Promise!Next
    <2> QED
      BY <2>2, <2>3
  <1>3. CASE MoverDel
    <2>1. /\ taskList # <<>> /\ taskList' = Tail(taskList)
          /\ mTask = NoTask /\ mTask' = Head(taskList) /\ mTask' # NoTask
          /\ UNCHANGED <<task, done>>
      BY <1>3 DEF MoverDel, TaskPoolDel, TaskPoolEmpty, HandsOK, workerVars, IInv, TypeOK,
                  TaskPoolTypeOK
    <2>2. TakenTasks' = TakenTasks \cup {Head(taskList)}
      BY <2>1 DEF TakenTasks
    <2>3. Cardinality(TakenTasks) < MaxNum
      BY <1>3, RoomForOne DEF MoverDel
    <2>4. Promise!Cardinality(TakenTasks) = Cardinality(TakenTasks)
      BY DEF Promise!Cardinality, Cardinality
    <2>5. Promise!Take
      BY <2>1, <2>2, <2>3, <2>4 DEF Promise!Take
    <2> QED
      BY <2>5 DEF Promise!Next
  <1>4. CASE DispatchAssign /\ UNCHANGED <<taskPoolVars, interfaceVars, counterVars, dpc>>
    <2>1. UNCHANGED <<taskList, done>>
      BY <1>4 DEF DispatchAssign, taskPoolVars
    <2>2. /\ mTask \in Tasks /\ mTask' = NoTask /\ mThread \in Nodes /\ task[mThread] = NoTask
          /\ task \in [Nodes -> Tasks \cup {NoTask}] /\ task' = [task EXCEPT ![mThread] = mTask]
      BY <1>4 DEF DispatchAssign, IInv, TypeOK, ThreadPoolTypeOK, MoverOK, NothingToDo, Threads,
                  Nodes
    <2>3. TakenTasks' = TakenTasks
      <3>1. TakenTasks = {mTask} \cup {task[w] : w \in {v \in Nodes : task[v] # NoTask}}
        BY <2>2 DEF TakenTasks
      <3>2. TakenTasks' = {task'[w] : w \in {v \in Nodes : task'[v] # NoTask}}
        BY <2>2 DEF TakenTasks, Nodes
      <3>3. {v \in Nodes : task'[v] # NoTask} = {mThread} \cup {v \in Nodes : task[v] # NoTask}
        BY <2>2
      <3> QED
        BY <2>2, <3>1, <3>2, <3>3
    <2> QED
      BY <2>1, <2>3 DEF Promise!serviceVars
  <1>5. ASSUME NEW w \in Nodes, WorkerFinish(w), UNCHANGED taskPoolVars
        PROVE  [Promise!Next]_(Promise!serviceVars)
    <2> DEFINE t == task[w]
    <2>1. /\ t \in Tasks /\ done' = done \cup {t} /\ mTask' = mTask /\ taskList' = taskList
          /\ task \in [Nodes -> Tasks \cup {NoTask}] /\ task' = [task EXCEPT ![w] = NoTask]
      BY <1>5 DEF WorkerFinish, moverVars, taskPoolVars, IInv, TypeOK, ThreadPoolTypeOK, WorkerOK
    <2>2. Once(t) /\ OnNode(t)
      BY <2>1 DEF OnNode
    <2>3. t \in TakenTasks
      BY <2>1 DEF TakenTasks
    <2>4. TakenTasks' = TakenTasks \ {t}
      <3>1. mTask # t /\ \A v \in Nodes : task[v] = t => v = w
        BY <2>2 DEF Once, Apart, Single
      <3>2. {v \in Nodes : task'[v] # NoTask} = {v \in Nodes : task[v] # NoTask} \ {w}
        BY <2>1
      <3>3. \A x : x \in TakenTasks' <=>
                      (x = mTask /\ mTask # NoTask)
                      \/ \E v \in {u \in Nodes : task[u] # NoTask} \ {w} : x = task[v]
        BY <2>1, <3>2 DEF TakenTasks, Nodes
      <3>4. \A x : x \in TakenTasks <=>
                      (x = mTask /\ mTask # NoTask)
                      \/ \E v \in {u \in Nodes : task[u] # NoTask} : x = task[v]
        BY DEF TakenTasks
      <3> QED
        BY <3>1, <3>3, <3>4
    <2>5. Promise!Finish(t)
      BY <2>1, <2>3, <2>4 DEF Promise!Finish
    <2> QED
      BY <2>1, <2>5 DEF Promise!Next
  <1>6. CASE UNCHANGED <<fresh, iTask, dropped, taskList, mTask, task, done>>
    <2>1. UNCHANGED TakenTasks
      BY <1>6 DEF TakenTasks
    <2> QED
      BY <1>6, <2>1 DEF Promise!serviceVars
  <1> QED
    BY <1>1, <1>2, <1>3, <1>4, <1>5, <1>6, WhoMovesTasks

\* The pool, its worker threads and its managing threads keep the promise of
\* TaskService: first in, first out, bounded, each task taken and finished once.
THEOREM Implementation == Spec => ImplementsTaskService
  <1>1. TInv /\ [Next]_vars => [Promise!Next]_(Promise!serviceVars)
    BY StepImplements
  <1> QED
    BY <1>1, InitImplements, TaskInvariance, PTL DEF Spec, ImplementsTaskService, Promise!Spec

-----------------------------------------------------------------------------
(* No wake-up is missed.                                                    *)

\* What a worker finds when it waits depends on its node and on the mover.
LEMMA SleepFrame ==
    ASSUME NoSleepingWorker, UNCHANGED <<busy, task, mpc, mThread>>,
           \A w \in Nodes : wpc'[w] = "wait" => wpc[w] = "wait" \/ NothingToDo(w)
    PROVE  NoSleepingWorker'
  BY DEF NoSleepingWorker, NothingToDo

\* The steps of addTaskToThreadPools: the node is given its task before its thread is
\* signalled, and the mover does not choose another in between.
LEMMA DispatchKeepsAwake ==
    ASSUME IInv, NoSleepingWorker, Dispatch
    PROVE  NoSleepingWorker'
  <1> USE DEF NoSleepingWorker, NothingToDo
  <1>1. /\ wpc \in [Nodes -> {"absent", "lock", "wait", "run", "count", "signal", "failed"}]
        /\ busy \in [Nodes -> {0, 1}] /\ task \in [Nodes -> Tasks \cup {NoTask}]
        /\ mpc \in {"assign", "account", "wake"} => mThread \in Nodes
    BY DEF IInv, TypeOK, ThreadPoolTypeOK, MoverOK, Threads, Nodes
  <1>2. CASE DispatchFind \/ DispatchSkip
    BY <1>2 DEF DispatchFind, DispatchSkip, workerVars, moverVars
  <1>3. CASE DispatchAssign
    BY <1>1, <1>3 DEF DispatchAssign
  <1>4. CASE DispatchAccount
    <2>1. \A w \in Nodes : wpc'[w] = "wait" => wpc[w] = "wait"
      BY <1>4 DEF DispatchAccount, IncreaseThreadPool
    <2> QED
      BY <1>4, <2>1 DEF DispatchAccount
  <1>5. CASE DispatchWake
    BY <1>1, <1>5 DEF DispatchWake
  <1> QED
    BY <1>2, <1>3, <1>4, <1>5 DEF Dispatch

\* Every step keeps who is asleep from being forgotten.
LEMMA StepKeepsAwake ==
    ASSUME IInv, NoSleepingWorker, [Next]_vars
    PROVE  NoSleepingWorker'
  <1>1. CASE Dispatch
    BY <1>1, DispatchKeepsAwake
  <1>2. CASE \E w \in Nodes : WorkerStep(w) \/ WorkerWakes(w)
    <2>1. PICK v \in Nodes : WorkerStep(v) \/ WorkerWakes(v)
      BY <1>2
    <2>2. /\ wpc \in [Nodes -> {"absent", "lock", "wait", "run", "count", "signal", "failed"}]
          /\ busy \in [Nodes -> {0, 1}] /\ task \in [Nodes -> Tasks \cup {NoTask}]
      BY DEF IInv, TypeOK, ThreadPoolTypeOK
    <2>3. UNCHANGED <<mpc, mThread>>
      BY <2>1 DEF WorkerStep, WorkerWakes, WorkerWait, WorkerStart, WorkerFinish, WorkerCount,
                  WorkerSignal, WorkerSpuriousWake, moverVars
    <2>4. CASE WorkerFinish(v)
      BY <2>2, <2>3, <2>4 DEF WorkerFinish, NoSleepingWorker, NothingToDo
    <2>5. CASE ~WorkerFinish(v)
      <3>1. UNCHANGED <<busy, task>>
        BY <2>1, <2>5 DEF WorkerStep, WorkerWakes, WorkerWait, WorkerStart, WorkerCount,
                    WorkerSignal, WorkerSpuriousWake
      <3>2. \A w \in Nodes : wpc'[w] = "wait" => wpc[w] = "wait" \/ NothingToDo(w)
        BY <2>1, <2>2, <2>5 DEF WorkerStep, WorkerWakes, WorkerWait, WorkerStart, WorkerCount,
                    WorkerSignal, WorkerSpuriousWake
      <3> QED
        BY <2>3, <3>1, <3>2, SleepFrame
    <2> QED
      BY <2>4, <2>5
  <1>3. CASE MoverStep /\ ~Dispatch
    <2>1. UNCHANGED <<wpc, busy, task, mThread>> /\ mpc \notin {"account", "wake"}
      BY <1>3 DEF MoverStep, MoverPoll, MoverAwaitIdle, MoverDel, MoverNotify, MoverCancelled,
                  MoverCancelledInWait, workerVars
    <2> QED
      BY <2>1 DEF NoSleepingWorker, NothingToDo
  <1>4. CASE \/ \E p \in Interfaces : \/ Submit(p) \/ InterfaceStep(p)
                                     \/ SubmitSpuriousWake(p) \/ InterfaceReturn(p)
             \/ MoverPollEmpty \/ MoverSpuriousWake
             \/ CounterStep \/ DestroyStep \/ UNCHANGED vars
    <2>1. UNCHANGED <<wpc, busy, task, mpc, mThread>>
      BY <1>4 DEF Submit, InterfaceStep, SubmitCheck, SubmitAdd, SubmitSpuriousWake,
           InterfaceReturn, MoverPollEmpty, MoverSpuriousWake, CounterStep, CounterWake,
           CounterCheck, CounterCancelled, DestroyStep, DestroyJoinInterface,
           DestroyReadWorkNum, DestroyCancelRun, DestroyJoinRun, DestroyFree, vars,
           threadPoolVars, workerVars, moverVars
    <2> QED
      BY <2>1, SleepFrame
  <1> QED
    BY <1>1, <1>2, <1>3, <1>4 DEF Next

\* A worker that has been given a task does not sleep on it, although its mutex is
\* not held when the mover signals it.
THEOREM WorkersAwake == Spec => []NoSleepingWorker
  <1>1. Init => NoSleepingWorker
    BY DEF Init, ThreadPoolInit, NoSleepingWorker, Nodes
  <1> QED
    BY <1>1, StepKeepsAwake, Invariance, PTL DEF Spec

\* While the mover waits the pool does not grow and its counter of idle threads
\* changes in one step only.
LEMMA StepKeepsMoverAwake ==
    ASSUME TInv, NoSleepingMover, [Next]_vars
    PROVE  NoSleepingMover'
  <1> SUFFICES ASSUME moverWaits'
               PROVE  t_idleNum' = 0 \/ \E w \in Threads' : wpc'[w] = "signal"
    BY DEF NoSleepingMover
  <1>1. CASE MoverAwaitIdle
    <2>1. t_idleNum <= 0 /\ t_idleNum' = t_idleNum
      BY <1>1 DEF MoverAwaitIdle, poolVars
    <2>2. t_idleNum \in 0..(UIntMod - 1)
      BY DEF TInv, IInv, TypeOK, ThreadPoolTypeOK
    <2> QED
      BY <2>1, <2>2
  <1>2. CASE \E w \in Nodes : WorkerStep(w) \/ WorkerWakes(w)
    <2>1. PICK v \in Nodes : WorkerStep(v) \/ WorkerWakes(v)
      BY <1>2
    <2>2. /\ wpc \in [Nodes -> {"absent", "lock", "wait", "run", "count", "signal", "failed"}]
          /\ \A w \in Nodes : w > created => wpc[w] = "absent"
          /\ created \in Nat /\ created <= MaxNum
      BY DEF TInv, IInv, TypeOK, ThreadPoolTypeOK, RingOK
    <2>3. created' = created /\ Threads' = Threads
      BY <2>1 DEF WorkerStep, WorkerWakes, WorkerWait, WorkerStart, WorkerFinish, WorkerCount,
                  WorkerSignal, WorkerSpuriousWake, poolVars, Threads
    <2>4. CASE WorkerCount(v)
      <3>1. v \in Threads /\ wpc'[v] = "signal"
        BY <2>2, <2>4 DEF WorkerCount, Threads, Nodes
      <3> QED
        BY <2>3, <3>1
    <2>5. CASE ~WorkerCount(v)
      <3>1. ~WorkerSignal(v) /\ moverWaits /\ t_idleNum' = t_idleNum
        BY <2>1, <2>5 DEF WorkerStep, WorkerWakes, WorkerWait, WorkerStart, WorkerFinish,
                    WorkerSignal, WorkerSpuriousWake, poolVars, moverVars
      <3>2. \A w \in Nodes : wpc[w] = "signal" => wpc'[w] = "signal"
        BY <2>1, <2>2, <2>5, <3>1 DEF WorkerStep, WorkerWakes, WorkerWait, WorkerStart,
                    WorkerFinish, WorkerSpuriousWake
      <3>3. Threads \subseteq Nodes
        BY <2>2 DEF Threads, Nodes
      <3> QED
        BY <2>3, <3>1, <3>2, <3>3 DEF NoSleepingMover
    <2> QED
      BY <2>4, <2>5
  <1>3. CASE ~MoverAwaitIdle /\ ~\E w \in Nodes : WorkerStep(w) \/ WorkerWakes(w)
    <2>1. moverWaits /\ UNCHANGED <<wpc, created, t_idleNum>>
      <3>1. CASE Dispatch
        <4>1. moverWaits /\ mpc = "idle"
          BY <3>1 DEF Dispatch, DispatchFind, DispatchSkip, DispatchAssign, DispatchAccount,
                      DispatchWake, moverVars, TInv, HandsOK
        <4> QED
          BY <3>1, <4>1 DEF Dispatch, DispatchFind, DispatchSkip, DispatchAssign,
                      DispatchAccount, DispatchWake
      <3>2. CASE ~Dispatch
        BY <1>3, <3>2 DEF Next, Submit, InterfaceStep, SubmitCheck,
           SubmitAdd, SubmitSpuriousWake, InterfaceReturn, MoverStep, MoverPoll,
           MoverPollEmpty, MoverSpuriousWake, MoverDel, MoverNotify,
           MoverCancelled, MoverCancelledInWait, CounterStep, CounterWake, CounterCheck,
           CounterCancelled, DestroyStep, DestroyJoinInterface, DestroyReadWorkNum,
           DestroyCancelRun, DestroyJoinRun, DestroyFree, vars, threadPoolVars, workerVars,
           poolVars, moverVars
      <3> QED
        BY <3>1, <3>2
    <2> QED
      BY <2>1 DEF NoSleepingMover, Threads
  <1> QED
    BY <1>1, <1>2, <1>3

\* The mover does not sleep while a thread is counted idle, unless the thread that
\* has just been counted is about to signal it, after it has let go of the mutex.
THEOREM MoverAwake == Spec => []NoSleepingMover
  <1>1. Init => NoSleepingMover
    BY DEF Init, ThreadPoolInit, NoSleepingMover
  <1> QED
    BY <1>1, StepKeepsMoverAwake, TaskInvariance, PTL DEF Spec

-----------------------------------------------------------------------------
(* With one interface thread, which is what main.c starts.                  *)

\* The room that the interface thread has waited for is still there when it adds
\* its task; nobody else has added one.
RoomKept == dropped = {} /\ \A p \in Interfaces : ipc[p] = "add" => ~TaskPoolFull

\* Every step keeps room for what the one interface submits.
LEMMA StepKeepsRoom ==
    ASSUME NEW i, Interfaces = {i}, IInv, RoomKept, [Next]_vars
    PROVE  RoomKept'
  <1> USE DEF RoomKept, TaskPoolFull
  <1>1. ipc \in [Interfaces -> {"make", "check", "add", "ended"}] /\ t_curNum \in Nat
    BY DEF IInv, TypeOK, TaskPoolTypeOK
  <1>2. CASE \E p \in Interfaces : \/ Submit(p) \/ InterfaceStep(p)
                                   \/ SubmitSpuriousWake(p) \/ InterfaceReturn(p)
    BY <1>1, <1>2 DEF Submit, InterfaceStep, SubmitCheck, SubmitAdd, SubmitSpuriousWake,
                      InterfaceReturn, interfaceVars, taskPoolVars
  <1>3. CASE ~\E p \in Interfaces : \/ Submit(p) \/ InterfaceStep(p)
                                    \/ SubmitSpuriousWake(p) \/ InterfaceReturn(p)
    <2>1. UNCHANGED <<dropped, ipc>>
      BY <1>3 DEF Next, WorkerStep, WorkerWakes, MoverStep, MoverPoll,
           MoverPollEmpty, MoverAwaitIdle, MoverSpuriousWake, MoverDel, MoverNotify, Dispatch,
           MoverCancelled, MoverCancelledInWait, CounterStep, CounterWake, CounterCheck,
           CounterCancelled, DestroyStep, DestroyJoinInterface, DestroyReadWorkNum,
           DestroyCancelRun, DestroyJoinRun, DestroyFree, vars, interfaceVars
    <2>2. t_curNum' \in {t_curNum, t_curNum - 1}
      BY <1>3 DEF Next, WorkerStep, WorkerWakes, MoverStep, MoverPoll,
           MoverPollEmpty, MoverAwaitIdle, MoverSpuriousWake, MoverDel, MoverNotify, Dispatch,
           MoverCancelled, MoverCancelledInWait, CounterStep, CounterWake, CounterCheck,
           CounterCancelled, DestroyStep, DestroyJoinInterface, DestroyReadWorkNum,
           DestroyCancelRun, DestroyJoinRun, DestroyFree, vars, taskPoolVars, TaskPoolDel,
           SignalTaskCond
    <2> QED
      BY <1>1, <2>1, <2>2
  <1> QED
    BY <1>2, <1>3

\* The second test of the limit, in taskPoolAdd, never refuses a task when there is
\* one interface thread, whatever pthread_cond_wait does.
THEOREM NeverRefused ==
    ASSUME NEW i, Interfaces = {i}
    PROVE  Spec => []SubmitNeverRefused
  <1>1. Init => RoomKept
    BY DEF Init, RoomKept
  <1>2. IInv /\ RoomKept /\ [Next]_vars => RoomKept'
    BY StepKeepsRoom
  <1>3. RoomKept => SubmitNeverRefused
    BY DEF RoomKept, SubmitNeverRefused
  <1> QED
    BY <1>1, <1>2, <1>3, Invariance, PTL DEF Spec
===============================================================================
