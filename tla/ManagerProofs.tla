---------------------------- MODULE ManagerProofs ----------------------------
(***************************************************************************)
(* Proofs about Manager, for every number of tasks, threads and interface  *)
(* threads and all limits in the order setThreadPool enforces.             *)
(***************************************************************************)
EXTENDS Manager, TLAPS, FiniteSetTheorems

USE UIntAssumption, QueueAssumption, TaskPoolAssumption, ThreadPoolAssumption, ManagerAssumption
    DEF UIntAssumption, QueueAssumption, TaskPoolAssumption, ThreadPoolAssumption, ManagerAssumption

-----------------------------------------------------------------------------
(* The inductive invariant.                                                 *)

\* Exactly the nodes of the ring have a thread, or were meant to have one.
RingOK ==
    \A w \in Nodes : w > created => wpc[w] = "absent" /\ busy[w] = 0 /\ task[w] = NoTask

\* A node is busy exactly while it has a task, and only then runs func.
WorkerOK ==
    \A w \in Nodes : /\ busy[w] = 1 <=> task[w] # NoTask
                     /\ wpc[w] = "run" => busy[w] = 1

\* What the mover has in hand at each point of manager_moveTaskToWorker.
MoverOK ==
    /\ mpc \in {"idle", "del"} => taskList # <<>>
    /\ mpc \in {"notify", "scan", "assign"} => mTask \in Tasks
    /\ mpc \in {"assign", "account", "wake"} => mThread \in Threads
    /\ mpc = "assign" => NothingToDo(mThread)

\* An interface thread past Submit has a task to hand in.
InterfaceOK == \A p \in Interfaces : ipc[p] \in {"check", "add"} => iTask[p] \in Tasks

\* t_idleNum cannot wrap, and the thread the mover waited for is still there.
Headroom ==
    /\ Cardinality(Busy) + Cardinality(Uncounted) <= created
    /\ mpc \in {"del", "notify", "scan", "assign"} =>
           Cardinality(Busy) + Cardinality(Uncounted) < created

\* managerThreadNum never calls subThreadPool: flag is decremented by every check that
\* does not find it equal to 3, so it never gets there.
ShrinkUnreachable == flag <= 0 /\ kpc # "shrink"

IInv == /\ TypeOK /\ RingOK /\ WorkerOK /\ MoverOK /\ InterfaceOK
        /\ CountersExact /\ Headroom /\ IdleReserve /\ ShrinkUnreachable

-----------------------------------------------------------------------------
(* Arithmetic.                                                              *)

\* A small number survives being stored in an unsigned int and read as an int.
LEMMA AsIntWrap ==
    ASSUME NEW x \in Int, -UIntMod < 2 * x, 2 * x < UIntMod
    PROVE  AsInt(Wrap(x)) = x
  BY DEF AsInt, Wrap

\* increaseThreadPool, called with counters that add up to the size of the pool,
\* stays within t_maxNum and makes up for one missing idle thread.
LEMMA IncreaseByBounds ==
    ASSUME NEW work \in Nat, NEW idle \in Nat, work + idle <= MaxNum
    PROVE  /\ IncreaseBy(work, idle) \in 0..(MaxNum - (work + idle))
           /\ idle >= MinIdle - 1 =>
                  \/ work + idle + IncreaseBy(work, idle) = MaxNum
                  \/ idle + IncreaseBy(work, idle) >= MinIdle
  <1> DEFINE short == MinIdle - idle
             over  == short + work + idle - MaxNum
             num   == IF over > 0 THEN short - over ELSE short
  <1>1. Wrap(work + idle) = work + idle
    BY DEF Wrap
  <1>2. AsInt(Wrap(MinIdle - idle)) = short
    BY AsIntWrap
  <1>3. AsInt(Wrap(short + work + idle - MaxNum)) = over
    BY AsIntWrap
  <1>4. IncreaseBy(work, idle) = IF work + idle >= MaxNum \/ num <= 0 THEN 0
                                 ELSE IF work >= MaxIdle THEN 1
                                 ELSE num
    BY <1>1, <1>2, <1>3 DEF IncreaseBy
  <1> QED
    BY <1>4

-----------------------------------------------------------------------------
(* Counting nodes.                                                          *)

\* The sets that are counted are finite.
LEMMA CountsFinite ==
    ASSUME IInv
    PROVE  /\ IsFiniteSet(Busy) /\ IsFiniteSet(Uncounted)
           /\ Cardinality(Busy) \in Nat /\ Cardinality(Uncounted) \in Nat
  <1>1. IsFiniteSet(Threads)
    BY FS_Interval DEF Threads, IInv, TypeOK, ThreadPoolTypeOK
  <1>2. Busy \subseteq Threads /\ Uncounted \subseteq Threads
    BY DEF Busy, Uncounted
  <1> QED
    BY <1>1, <1>2, FS_Subset, FS_CardinalityType

-----------------------------------------------------------------------------
(* The invariant holds at the start.                                        *)

\* No pool has been set up to begin with.
LEMMA InitIInv == Init => IInv
  <1> SUFFICES ASSUME Init PROVE IInv
    OBVIOUS
  <1> USE DEF Init, TaskPoolInit, ThreadPoolInit
  <1>1. Busy = {} /\ Uncounted = {} /\ Unaccounted = 0
    BY DEF Busy, Uncounted, Unaccounted, Threads, Nodes
  <1>2. Cardinality(Busy) = 0 /\ Cardinality(Uncounted) = 0
    BY <1>1, FS_EmptySet
  <1>3. TypeOK
    <2>1. TaskPoolTypeOK
      BY DEF TaskPoolTypeOK
    <2>2. wpc \in [Nodes -> {"absent", "lock", "wait", "run", "count", "signal", "failed"}]
      OBVIOUS
    <2>3. busy \in [Nodes -> {0, 1}] /\ task \in [Nodes -> Tasks \cup {NoTask}]
      OBVIOUS
    <2>4. /\ created \in MinIdle..MaxNum /\ Pos \in 0..created /\ mThread \in 0..created
          /\ t_idleNum \in 0..(UIntMod - 1) /\ t_workNum \in 0..(UIntMod - 1)
      OBVIOUS
    <2>5. ThreadPoolTypeOK
      BY <2>2, <2>3, <2>4 DEF ThreadPoolTypeOK
    <2> QED
      BY <2>1, <2>5 DEF TypeOK
  <1>4. RingOK /\ WorkerOK /\ MoverOK /\ InterfaceOK
    BY DEF RingOK, WorkerOK, MoverOK, InterfaceOK, Nodes
  <1>5. CountersExact
    BY <1>1, <1>2 DEF CountersExact, Wrap
  <1>6. Headroom /\ IdleReserve /\ ShrinkUnreachable
    BY <1>2 DEF Headroom, IdleReserve, ShrinkUnreachable
  <1> QED
    BY <1>3, <1>4, <1>5, <1>6 DEF IInv

-----------------------------------------------------------------------------
(* Every step keeps the invariant.                                          *)

\* The nodes counted depend on three variables only.
LEMMA CountsFrame ==
    ASSUME wpc' = wpc, busy' = busy, created' = created
    PROVE  Busy' = Busy /\ Uncounted' = Uncounted
  BY DEF Busy, Uncounted, Threads

\* A step of another thread leaves the thread pool's part of the invariant alone.
LEMMA ThreadPoolFrame ==
    ASSUME IInv, UNCHANGED threadPoolVars
    PROVE  /\ ThreadPoolTypeOK' /\ RingOK' /\ WorkerOK' /\ Headroom' /\ IdleReserve'
           /\ (taskList # <<>> => taskList' # <<>>) => MoverOK'
           /\ t_curNum' = Len(taskList') => CountersExact'
  <1> USE DEF IInv, threadPoolVars, workerVars, poolVars, moverVars
  <1>1. Busy' = Busy /\ Uncounted' = Uncounted /\ Unaccounted' = Unaccounted
    BY CountsFrame DEF Unaccounted
  <1>2. ThreadPoolTypeOK'
    BY DEF TypeOK, ThreadPoolTypeOK
  <1>3. RingOK' /\ WorkerOK'
    BY DEF RingOK, WorkerOK
  <1>4. Headroom' /\ IdleReserve'
    BY <1>1 DEF Headroom, IdleReserve
  <1>5. (taskList # <<>> => taskList' # <<>>) => MoverOK'
    BY DEF MoverOK, Threads, NothingToDo
  <1>6. t_curNum' = Len(taskList') => CountersExact'
    BY <1>1 DEF CountersExact
  <1> QED
    BY <1>2, <1>3, <1>4, <1>5, <1>6

\* The interface threads.
LEMMA InterfaceKeepsIInv ==
    ASSUME IInv, NEW p \in Interfaces,
           Submit(p) \/ InterfaceStep(p) \/ SubmitSpuriousWake(p) \/ InterfaceReturn(p)
    PROVE  IInv'
  <1> USE DEF IInv
  <1>0. UNCHANGED threadPoolVars /\ UNCHANGED counterVars /\ UNCHANGED dpc
    BY DEF Submit, InterfaceStep, SubmitCheck, SubmitAdd, SubmitSpuriousWake, InterfaceReturn,
           interfaceVars
  <1>1. ShrinkUnreachable'
    BY <1>0 DEF ShrinkUnreachable, counterVars
  <1>2. taskList \in Seq(Tasks) /\ t_curNum = Len(taskList)
    BY DEF TypeOK, TaskPoolTypeOK, CountersExact
  <1>3. CASE Submit(p)
    <2>1. UNCHANGED taskPoolVars
      BY <1>3 DEF Submit
    <2>2. TypeOK'
      BY <1>3, <2>1, <1>0, ThreadPoolFrame DEF Submit, TypeOK, TaskPoolTypeOK, taskPoolVars, counterVars
    <2>3. InterfaceOK'
      BY <1>3 DEF Submit, InterfaceOK, TypeOK
    <2> QED
      BY <1>0, <1>1, <1>2, <2>1, <2>2, <2>3, ThreadPoolFrame DEF taskPoolVars
  <1>4. CASE SubmitCheck(p) \/ SubmitSpuriousWake(p) \/ InterfaceReturn(p)
    <2>1. UNCHANGED <<taskList, t_curNum>>
      BY <1>4 DEF SubmitCheck, SubmitSpuriousWake, InterfaceReturn, taskPoolVars
    <2>2. TypeOK'
      BY <1>4, <2>1, <1>0, ThreadPoolFrame
         DEF SubmitCheck, SubmitSpuriousWake, InterfaceReturn, TypeOK, TaskPoolTypeOK,
             taskPoolVars, interfaceVars, counterVars
    <2>3. InterfaceOK'
      BY <1>4 DEF SubmitCheck, SubmitSpuriousWake, InterfaceReturn, InterfaceOK, TypeOK,
                  interfaceVars
    <2> QED
      BY <1>0, <1>1, <1>2, <2>1, <2>2, <2>3, ThreadPoolFrame
  <1>5. CASE SubmitAdd(p)
    <2>1. iTask[p] \in Tasks
      BY <1>5 DEF SubmitAdd, InterfaceOK
    <2>2. /\ taskList' \in Seq(Tasks) /\ t_curNum' = Len(taskList') /\ t_curNum' \in Nat
          /\ taskList # <<>> => taskList' # <<>>
      BY <1>2, <1>5, <2>1 DEF SubmitAdd, TaskPoolAdd, taskPoolVars
    <2>3. TypeOK'
      BY <1>5, <2>1, <2>2, <1>0, ThreadPoolFrame
         DEF SubmitAdd, TaskPoolAdd, TypeOK, TaskPoolTypeOK, taskPoolVars, counterVars
    <2>4. InterfaceOK'
      BY <1>5 DEF SubmitAdd, InterfaceOK, TypeOK
    <2> QED
      BY <1>0, <1>1, <2>2, <2>3, <2>4, ThreadPoolFrame
  <1> QED
    BY <1>3, <1>4, <1>5 DEF InterfaceStep

\* The thread counter and the main thread.
LEMMA ManagersKeepIInv ==
    ASSUME IInv, CounterStep \/ DestroyStep
    PROVE  IInv'
  <1> USE DEF IInv, CounterStep, CounterWake, CounterCheck, CounterCancelled,
              DestroyStep, DestroyJoinInterface, DestroyReadWorkNum, DestroyCancelRun,
              DestroyJoinRun, DestroyFree
  <1>1. UNCHANGED <<taskPoolVars, threadPoolVars, interfaceVars>>
    OBVIOUS
  <1>2. ShrinkUnreachable' /\ kpc' \in {"sleep", "lock", "dead"} /\ flag' \in -FlagFloor..0
    BY DEF ShrinkUnreachable, TypeOK, Floored, counterVars
  <1>3. TypeOK'
    BY <1>1, <1>2, ThreadPoolFrame DEF TypeOK, TaskPoolTypeOK, taskPoolVars, interfaceVars
  <1>4. InterfaceOK'
    BY <1>1 DEF InterfaceOK, interfaceVars
  <1>5. taskList' = taskList /\ t_curNum' = Len(taskList')
    BY <1>1 DEF taskPoolVars, CountersExact
  <1> QED
    BY <1>1, <1>2, <1>3, <1>4, <1>5, ThreadPoolFrame

\* A second store into an unsigned int starts from the value the first one meant.
LEMMA WrapWrap ==
    ASSUME NEW x \in Int, NEW d \in {-1, 1},
           -UIntMod < 2 * x, 2 * x < UIntMod - 2
    PROVE  Wrap(Wrap(x) + d) = Wrap(x + d)
  BY DEF Wrap

\* A worker thread, woken or not.
LEMMA WorkerKeepsIInv ==
    ASSUME IInv, NEW w \in Nodes, WorkerStep(w) \/ WorkerWakes(w)
    PROVE  IInv'
  <1> USE DEF IInv
  <1> DEFINE B == Cardinality(Busy)
             F == Cardinality(Uncounted)
  <1>1. UNCHANGED <<taskPoolVars, interfaceVars, counterVars, dpc>>
    BY DEF WorkerStep, WorkerWakes
  <1>2. InterfaceOK' /\ ShrinkUnreachable'
    BY <1>1 DEF InterfaceOK, ShrinkUnreachable, interfaceVars, counterVars
  <1>3. UNCHANGED <<created, Pos, poolOrphaned, mpc, mTask, mThread>>
    BY DEF WorkerStep, WorkerWakes, WorkerWait, WorkerStart, WorkerFinish, WorkerCount,
           WorkerSignal, WorkerSpuriousWake, poolVars, moverVars
  <1>4. TypeOK' <=> ThreadPoolTypeOK'
    BY <1>1 DEF TypeOK, TaskPoolTypeOK, taskPoolVars, interfaceVars, counterVars
  <1>5. B \in Nat /\ F \in Nat /\ IsFiniteSet(Busy) /\ IsFiniteSet(Uncounted)
    BY CountsFinite
  <1>6. created \in 1..MaxNum /\ t_curNum' = Len(taskList') /\ Unaccounted' = Unaccounted
    BY <1>1, <1>3 DEF TypeOK, ThreadPoolTypeOK, CountersExact, taskPoolVars, Unaccounted
  <1>c. /\ t_idleNum = created + Unaccounted - B - F
        /\ t_workNum = Wrap(B + F - Unaccounted)
        /\ Unaccounted \in {0, 1} /\ B + F <= created
    BY DEF CountersExact, Headroom, Unaccounted
  <1> HIDE DEF B, F
  <1>7. CASE WorkerWait(w) \/ WorkerStart(w) \/ WorkerSignal(w) \/ WorkerSpuriousWake(w)
    <2> USE <1>7 DEF WorkerWait, WorkerStart, WorkerSignal, WorkerSpuriousWake, NothingToDo,
                     poolVars, moverVars
    <2>1. UNCHANGED <<busy, task, done, t_idleNum, t_workNum>>
      OBVIOUS
    <2>2. ThreadPoolTypeOK'
      BY <1>3, <2>1 DEF TypeOK, ThreadPoolTypeOK
    <2>3. RingOK' /\ WorkerOK' /\ MoverOK'
      BY <1>1, <1>3, <2>1 DEF RingOK, WorkerOK, MoverOK, TypeOK, ThreadPoolTypeOK, Threads,
                              taskPoolVars
    <2>4. Busy' = Busy /\ Uncounted' = Uncounted
      <3>1. \A v \in Nodes : wpc'[v] = "count" <=> wpc[v] = "count"
        BY DEF TypeOK, ThreadPoolTypeOK
      <3>2. Threads \subseteq Nodes
        BY <1>6 DEF Threads, Nodes
      <3> QED
        BY <1>3, <2>1, <3>1, <3>2 DEF Busy, Uncounted, Threads
    <2>5. CountersExact' /\ Headroom' /\ IdleReserve'
      BY <1>3, <1>6, <2>1, <2>4 DEF CountersExact, Headroom, IdleReserve
    <2> QED
      BY <1>2, <1>4, <2>2, <2>3, <2>5
  <1>8. CASE WorkerFinish(w)
    <2> USE <1>8 DEF WorkerFinish, poolVars, moverVars
    <2>1. w \in Threads /\ busy[w] = 1 /\ task[w] \in Tasks
      BY DEF RingOK, WorkerOK, TypeOK, ThreadPoolTypeOK, Nodes, Threads
    <2>2. ThreadPoolTypeOK'
      BY <2>1 DEF TypeOK, ThreadPoolTypeOK
    <2>3. RingOK' /\ WorkerOK' /\ MoverOK'
      BY <1>1 DEF RingOK, WorkerOK, MoverOK, TypeOK, ThreadPoolTypeOK, Threads, NothingToDo,
                  taskPoolVars
    <2>4. /\ Busy' = Busy \ {w} /\ w \in Busy
          /\ Uncounted' = Uncounted \cup {w} /\ w \notin Uncounted
      BY <2>1 DEF Busy, Uncounted, Threads, Nodes, TypeOK, ThreadPoolTypeOK
    <2>5. Cardinality(Busy') = B - 1 /\ Cardinality(Uncounted') = F + 1
      BY <1>5, <2>4, FS_AddElement, FS_RemoveElement DEF B, F
    <2>6. CountersExact' /\ Headroom' /\ IdleReserve'
      <3>1. CountersExact'
        BY <1>3, <1>5, <1>6, <1>c, <2>5 DEF CountersExact
      <3>2. Headroom'
        BY <1>3, <1>5, <1>6, <1>c, <2>5 DEF Headroom, B, F
      <3>3. IdleReserve'
        BY <1>3 DEF IdleReserve
      <3> QED
        BY <3>1, <3>2, <3>3
    <2> QED
      BY <1>2, <1>4, <2>2, <2>3, <2>6
  <1>9. CASE WorkerCount(w)
    <2> USE <1>9 DEF WorkerCount, moverVars
    <2>1. w \in Threads
      BY DEF RingOK, TypeOK, ThreadPoolTypeOK, Nodes, Threads
    <2>2. RingOK' /\ WorkerOK' /\ MoverOK'
      BY <1>1 DEF RingOK, WorkerOK, MoverOK, TypeOK, ThreadPoolTypeOK, Threads, NothingToDo,
                  taskPoolVars
    <2>3. Busy' = Busy /\ Uncounted' = Uncounted \ {w} /\ w \in Uncounted
      BY <2>1 DEF Busy, Uncounted, Threads, Nodes, TypeOK, ThreadPoolTypeOK
    <2>4. Cardinality(Busy') = B /\ Cardinality(Uncounted') = F - 1 /\ F - 1 \in Nat
      <3>1. Cardinality(Uncounted') \in Nat
        BY <1>5, <2>3, FS_RemoveElement, FS_CardinalityType
      <3> QED
        BY <1>5, <2>3, <3>1, FS_RemoveElement DEF B, F
    <2>5. /\ t_idleNum' = created + Unaccounted - B - (F - 1)
          /\ t_idleNum' \in Nat /\ t_idleNum <= t_idleNum' /\ t_idleNum' <= MaxNum + 1
      BY <1>5, <1>6, <1>c, <2>4 DEF Wrap
    <2>6. t_workNum' = Wrap(B + (F - 1) - Unaccounted) /\ t_workNum' \in 0..(UIntMod - 1)
      <3>1. Wrap(Wrap(B + F - Unaccounted) + (-1)) = Wrap(B + F - Unaccounted + (-1))
        BY <1>5, <1>6, <1>c, WrapWrap
      <3>2. t_workNum' = Wrap(t_workNum + (-1))
        BY <1>c, <1>5 DEF Wrap
      <3> QED
        BY <1>5, <1>6, <1>c, <3>1, <3>2 DEF Wrap
    <2>7. ThreadPoolTypeOK'
      BY <2>5, <2>6 DEF TypeOK, ThreadPoolTypeOK
    <2>8. CountersExact' /\ Headroom' /\ IdleReserve'
      <3>1. CountersExact'
        BY <1>3, <1>5, <1>6, <2>4, <2>5, <2>6 DEF CountersExact
      <3>2. Headroom'
        BY <1>3, <1>5, <1>6, <2>4 DEF Headroom, B, F
      <3>3. IdleReserve'
        BY <1>3, <2>5 DEF IdleReserve, TypeOK, ThreadPoolTypeOK
      <3> QED
        BY <3>1, <3>2, <3>3
    <2> QED
      BY <1>2, <1>4, <2>2, <2>7, <2>8
  <1> QED
    BY <1>7, <1>8, <1>9 DEF WorkerStep, WorkerWakes

\* The mover outside addTaskToThreadPools.
LEMMA MoverKeepsIInv ==
    ASSUME IInv,
           \/ MoverPoll \/ MoverPollEmpty \/ MoverAwaitIdle \/ MoverSpuriousWake
           \/ MoverDel \/ MoverNotify \/ MoverCancelled \/ MoverCancelledInWait
    PROVE  IInv'
  <1> USE DEF IInv, MoverPoll, MoverPollEmpty, MoverAwaitIdle, MoverSpuriousWake,
              MoverDel, MoverNotify, MoverCancelled, MoverCancelledInWait
  <1> DEFINE B == Cardinality(Busy)
             F == Cardinality(Uncounted)
  <1>1. UNCHANGED <<workerVars, created, Pos, t_idleNum, t_workNum, mThread,
                    interfaceVars, counterVars, dpc>>
    BY DEF vars, threadPoolVars, poolVars, moverVars
  <1> USE DEF workerVars
  <1>2. InterfaceOK' /\ ShrinkUnreachable' /\ RingOK' /\ WorkerOK' /\ IdleReserve'
    BY <1>1 DEF InterfaceOK, ShrinkUnreachable, RingOK, WorkerOK, IdleReserve,
                interfaceVars, counterVars
  <1>3. taskList \in Seq(Tasks) /\ t_curNum = Len(taskList)
    BY DEF TypeOK, TaskPoolTypeOK, CountersExact
  <1>4. /\ taskList' \in Seq(Tasks) /\ t_curNum' = Len(taskList') /\ t_curNum' \in Nat
        /\ mTask' \in Tasks \cup {NoTask}
    <2>1. CASE MoverDel
      BY <2>1, <1>3 DEF TaskPoolDel, TaskPoolEmpty
    <2>2. CASE ~MoverDel
      <3>1. UNCHANGED <<taskList, t_curNum, mTask>>
        BY <2>2 DEF vars, taskPoolVars, threadPoolVars, moverVars, SignalTaskCond
      <3> QED
        BY <3>1, <1>3 DEF TypeOK, ThreadPoolTypeOK
    <2> QED
      BY <2>1, <2>2
  <1>5. taskCond' \subseteq Interfaces
    BY DEF vars, taskPoolVars, TaskPoolDel, SignalTaskCond, TypeOK
  <1>6. /\ mpc' \in {"poll", "idle", "del", "notify", "scan", "dead"} \/ mpc' = mpc
        /\ moverWaits' \in BOOLEAN /\ poolOrphaned' \in BOOLEAN
    BY DEF vars, threadPoolVars, poolVars, moverVars, TypeOK, ThreadPoolTypeOK
  <1>7. TypeOK'
    BY <1>1, <1>4, <1>5, <1>6
       DEF TypeOK, TaskPoolTypeOK, ThreadPoolTypeOK, interfaceVars, counterVars
  <1>8. Busy' = Busy /\ Uncounted' = Uncounted
    BY <1>1, CountsFrame
  <1>9. Unaccounted' = Unaccounted
    <2>1. mpc' = "account" <=> mpc = "account"
      BY DEF vars, threadPoolVars, moverVars
    <2> QED
      BY <2>1 DEF Unaccounted
  <1>10. CountersExact'
    BY <1>1, <1>4, <1>8, <1>9 DEF CountersExact
  <1>11. B \in Nat /\ F \in Nat /\ created \in Nat
    BY CountsFinite DEF TypeOK, ThreadPoolTypeOK
  <1>12. Headroom'
    <2>1. CASE MoverAwaitIdle /\ mpc' = "del"
      <3>1. t_idleNum > 0 /\ t_idleNum = created - B - F
        BY <2>1, <1>11 DEF CountersExact, Unaccounted, TypeOK, ThreadPoolTypeOK
      <3> QED
        BY <1>1, <1>8, <1>11, <3>1, <2>1 DEF Headroom
    <2>2. CASE ~(MoverAwaitIdle /\ mpc' = "del")
      BY <2>2, <1>1, <1>8 DEF Headroom, vars, threadPoolVars, moverVars
    <2> QED
      BY <2>1, <2>2
  <1>13. MoverOK'
    BY <1>1, <1>3 DEF MoverOK, vars, taskPoolVars, threadPoolVars, moverVars, Threads, NothingToDo,
                TaskPoolDel, SignalTaskCond, TaskPoolEmpty
  <1> QED
    BY <1>2, <1>7, <1>10, <1>12, <1>13

\* The mover in addTaskToThreadPools.
LEMMA DispatchKeepsIInv ==
    ASSUME IInv, Dispatch
    PROVE  IInv'
  <1> USE DEF IInv
  <1> DEFINE B == Cardinality(Busy)
             F == Cardinality(Uncounted)
  <1>1. UNCHANGED <<taskPoolVars, interfaceVars, counterVars, dpc, done, poolOrphaned, moverWaits>>
    BY DEF Dispatch, DispatchFind, DispatchSkip, DispatchAssign, DispatchAccount, DispatchWake,
           workerVars, moverVars, poolVars
  <1>2. InterfaceOK' /\ ShrinkUnreachable' /\ t_curNum' = Len(taskList')
    BY <1>1 DEF InterfaceOK, ShrinkUnreachable, CountersExact, interfaceVars, counterVars,
                taskPoolVars
  <1>3. TypeOK' <=> ThreadPoolTypeOK'
    BY <1>1 DEF TypeOK, TaskPoolTypeOK, taskPoolVars, interfaceVars, counterVars
  <1>4. B \in Nat /\ F \in Nat /\ IsFiniteSet(Busy) /\ IsFiniteSet(Uncounted)
    BY CountsFinite
  <1>5. /\ created \in 1..MaxNum /\ created \in MinIdle..MaxNum
        /\ Pos \in 0..created /\ Cursor \in Threads /\ NextPos(Cursor) \in Threads
        /\ Pos # 0 => NextPos(Pos) \in Threads
    BY DEF TypeOK, ThreadPoolTypeOK, Cursor, NextPos, Threads
  <1>6. /\ t_idleNum = created + Unaccounted - B - F
        /\ t_workNum = Wrap(B + F - Unaccounted)
        /\ B + F <= created
        /\ mpc \in {"scan", "assign"} => B + F < created
        /\ Unaccounted = IF mpc = "account" THEN 1 ELSE 0
    BY DEF CountersExact, Headroom, Unaccounted
  <1> HIDE DEF B, F
  <1>7. CASE DispatchFind \/ DispatchSkip
    <2> USE <1>7 DEF DispatchFind, DispatchSkip, moverVars, workerVars
    <2>1. /\ UNCHANGED <<wpc, busy, task, created, t_idleNum, t_workNum, mTask>>
          /\ mpc = "scan" /\ mpc' \in {"scan", "assign"}
          /\ Pos' \in Threads /\ mThread' \in 0..created
      BY <1>5 DEF TypeOK, ThreadPoolTypeOK, Threads
    <2>2. ThreadPoolTypeOK'
      BY <1>1, <2>1 DEF TypeOK, ThreadPoolTypeOK, Threads
    <2>3. RingOK' /\ WorkerOK' /\ IdleReserve'
      BY <2>1 DEF RingOK, WorkerOK, IdleReserve
    <2>4. MoverOK'
      BY <1>5, <2>1 DEF MoverOK, NothingToDo, Threads
    <2>5. Busy' = Busy /\ Uncounted' = Uncounted
      BY <2>1, CountsFrame
    <2>6. CountersExact' /\ Headroom'
      BY <1>2, <2>1, <2>5 DEF CountersExact, Headroom, Unaccounted
    <2> QED
      BY <1>2, <1>3, <2>2, <2>3, <2>4, <2>6
  <1>8. CASE DispatchAssign
    <2> USE <1>8 DEF DispatchAssign, poolVars
    <2>1. /\ mThread \in Threads /\ mThread \in Nodes /\ mTask \in Tasks
          /\ busy[mThread] = 0 /\ task[mThread] = NoTask
      BY <1>5 DEF MoverOK, NothingToDo, Threads, Nodes
    <2>2. ThreadPoolTypeOK'
      BY <1>1, <2>1 DEF TypeOK, ThreadPoolTypeOK
    <2>3. RingOK' /\ WorkerOK' /\ IdleReserve' /\ MoverOK'
      BY <2>1 DEF RingOK, WorkerOK, IdleReserve, MoverOK, Threads, Nodes, TypeOK,
                  ThreadPoolTypeOK
    <2>4. /\ Busy' = Busy \cup {mThread} /\ mThread \notin Busy
          /\ Uncounted' = Uncounted
      BY <2>1 DEF Busy, Uncounted, Threads, Nodes, TypeOK, ThreadPoolTypeOK
    <2>5. Cardinality(Busy') = B + 1 /\ Cardinality(Uncounted') = F
      BY <1>4, <2>4, FS_AddElement DEF B, F
    <2>6. Unaccounted = 0 /\ Unaccounted' = 1
      BY DEF Unaccounted
    <2>7. CountersExact'
      BY <1>2, <1>4, <1>5, <1>6, <2>5, <2>6 DEF CountersExact
    <2>8. Headroom'
      BY <1>4, <1>5, <1>6, <2>5 DEF Headroom
    <2> QED
      BY <1>2, <1>3, <2>2, <2>3, <2>7, <2>8
  <1>9. CASE DispatchAccount
    <2> USE <1>9 DEF DispatchAccount
    <2> DEFINE work == Wrap(t_workNum + 1)
               idle == Wrap(t_idleNum - 1)
               k    == IncreaseBy(work, idle)
    <2>1. work = B + F
      <3>1. Wrap(Wrap(B + F - 1) + 1) = Wrap(B + F - 1 + 1)
        BY <1>4, <1>5, <1>6, WrapWrap
      <3> QED
        BY <1>4, <1>5, <1>6, <3>1 DEF Wrap
    <2>2. idle = created - B - F /\ idle = t_idleNum - 1 /\ idle \in Nat /\ work \in Nat
      BY <1>4, <1>5, <1>6, <2>1 DEF Wrap
    <2>3. work + idle = created
      BY <1>4, <1>5, <2>1, <2>2
    <2>4. /\ k \in 0..(MaxNum - created)
          /\ idle >= MinIdle - 1 => created + k = MaxNum \/ idle + k >= MinIdle
      <3> HIDE DEF work, idle
      <3>1. work + idle <= MaxNum
        BY <1>5, <2>3
      <3> QED
        BY <1>5, <2>2, <2>3, <3>1, IncreaseByBounds
    <2> HIDE DEF work, idle, k
    <2>5. /\ created' = created + k /\ t_idleNum' = Wrap(idle + k) /\ t_workNum' = work
          /\ Pos' = IF k > 0 THEN 1 ELSE Pos
          /\ \A w \in Nodes \ ((created + 1)..(created + k)) : wpc'[w] = wpc[w]
          /\ \A w \in (created + 1)..(created + k) : wpc'[w] \in {"lock", "failed"}
          /\ wpc' \in [Nodes -> {"absent", "lock", "wait", "run", "count", "signal", "failed"}]
      BY <1>5, <2>4 DEF IncreaseThreadPool, work, idle, k, Nodes, TypeOK, ThreadPoolTypeOK
    <2>6. created' \in MinIdle..MaxNum /\ created <= created'
      BY <1>5, <2>4, <2>5
    <2>7. t_idleNum' = created' - B - F /\ t_idleNum' = idle + k /\ t_workNum' = Wrap(B + F)
      BY <1>4, <1>5, <1>6, <2>1, <2>2, <2>4, <2>5 DEF Wrap
    <2>8. ThreadPoolTypeOK'
      BY <1>1, <1>4, <1>5, <1>6, <2>1, <2>4, <2>5, <2>6, <2>7 DEF TypeOK, ThreadPoolTypeOK, Wrap
    <2>9. RingOK' /\ WorkerOK'
      <3>1. UNCHANGED <<busy, task>>
        OBVIOUS
      <3>2. \A w \in Nodes : w \in (created + 1)..(created + k) <=> created < w /\ w <= created'
        BY <1>5, <2>4, <2>5 DEF Nodes
      <3>3. RingOK'
        BY <1>5, <2>5, <2>6, <3>1, <3>2 DEF RingOK, Nodes
      <3>4. WorkerOK'
        BY <2>5, <3>1, <3>2 DEF WorkerOK
      <3> QED
        BY <3>3, <3>4
    <2>10. MoverOK'
      BY <1>5, <2>6 DEF MoverOK, Threads
    <2>11. Busy' = Busy /\ Uncounted' = Uncounted
      <3>1. Busy' = Busy
        BY <1>5, <2>4, <2>5, <2>6 DEF Busy, Threads, RingOK, Nodes
      <3>2. Uncounted' = Uncounted
        BY <1>5, <2>4, <2>5, <2>6 DEF Uncounted, Threads, RingOK, Nodes
      <3> QED
        BY <3>1, <3>2
    <2>12. CountersExact' /\ Headroom'
      <3>1. Cardinality(Busy') = B /\ Cardinality(Uncounted') = F /\ Unaccounted' = 0
        BY <2>11 DEF Unaccounted, B, F
      <3>2. CountersExact'
        BY <1>2, <1>4, <1>5, <2>6, <2>7, <3>1 DEF CountersExact
      <3>3. Headroom'
        BY <1>4, <1>5, <1>6, <2>6, <3>1 DEF Headroom
      <3> QED
        BY <3>2, <3>3
    <2>13. IdleReserve'
      BY <1>4, <1>5, <1>6, <2>2, <2>4, <2>5, <2>7 DEF IdleReserve
    <2> QED
      BY <1>2, <1>3, <2>8, <2>9, <2>10, <2>12, <2>13
  <1>10. CASE DispatchWake
    <2> USE <1>10 DEF DispatchWake
    <2>1. UNCHANGED <<busy, task, created, t_idleNum, t_workNum, mTask, mThread>>
      OBVIOUS
    <2>2. mThread \in Threads /\ mThread \in Nodes
      BY <1>5 DEF MoverOK, Threads, Nodes
    <2>3. ThreadPoolTypeOK'
      BY <1>1, <1>5, <2>1, <2>2 DEF TypeOK, ThreadPoolTypeOK, NextPos
    <2>4. RingOK' /\ WorkerOK' /\ IdleReserve' /\ MoverOK'
      BY <2>1, <2>2 DEF RingOK, WorkerOK, IdleReserve, MoverOK, Threads, TypeOK, ThreadPoolTypeOK
    <2>5. Busy' = Busy /\ Uncounted' = Uncounted
      <3>1. \A v \in Nodes : wpc'[v] = "count" <=> wpc[v] = "count"
        BY <2>2 DEF TypeOK, ThreadPoolTypeOK
      <3>2. Threads \subseteq Nodes
        BY <1>5 DEF Threads, Nodes
      <3> QED
        BY <2>1, <3>1, <3>2 DEF Busy, Uncounted, Threads
    <2>6. CountersExact' /\ Headroom'
      BY <1>2, <2>1, <2>5 DEF CountersExact, Headroom, Unaccounted
    <2> QED
      BY <1>2, <1>3, <2>3, <2>4, <2>6
  <1> QED
    BY <1>7, <1>8, <1>9, <1>10 DEF Dispatch

\* Every step keeps the inductive invariant.
LEMMA NextIInv == IInv /\ [Next]_vars => IInv'
  <1> SUFFICES ASSUME IInv, [Next]_vars PROVE IInv'
    OBVIOUS
  <1>1. CASE Next
    BY <1>1, InterfaceKeepsIInv, WorkerKeepsIInv, MoverKeepsIInv, DispatchKeepsIInv,
       ManagersKeepIInv DEF Next, MoverStep
  <1>2. CASE UNCHANGED vars
    <2>1. UNCHANGED threadPoolVars /\ UNCHANGED <<taskPoolVars, interfaceVars, counterVars, dpc>>
      BY <1>2 DEF vars
    <2>2. TypeOK' /\ InterfaceOK' /\ ShrinkUnreachable'
      BY <2>1, ThreadPoolFrame
         DEF IInv, TypeOK, TaskPoolTypeOK, InterfaceOK, ShrinkUnreachable,
             taskPoolVars, interfaceVars, counterVars
    <2>3. taskList' = taskList /\ t_curNum' = Len(taskList')
      BY <2>1 DEF taskPoolVars, IInv, CountersExact
    <2> QED
      BY <2>1, <2>2, <2>3, ThreadPoolFrame DEF IInv
  <1> QED
    BY <1>1, <1>2

\* In every run of the pool, whatever its size, the inductive invariant holds.
THEOREM Invariance == Spec => []IInv
  BY InitIInv, NextIInv, PTL DEF Spec

-----------------------------------------------------------------------------
(* What follows from it.                                                    *)

\* Every variable stays within its type; in particular the pool never has more
\* than t_maxNum nodes, and t_idleNum and t_workNum stay in their width.
THEOREM TypeCorrect == Spec => []TypeOK
  BY Invariance, PTL DEF IInv

\* The counters of both pools say what the lists say (up to the two windows named
\* in CountersExact): t_idleNum never wraps, t_workNum only to -1 and only while
\* the mover has a node assigned and not yet counted.
THEOREM CountersCorrect == Spec => []CountersExact
  BY Invariance, PTL DEF IInv

\* increaseThreadPool keeps t_minIdleNum threads in reserve below the limit.
THEOREM ReserveKept == Spec => []IdleReserve
  BY Invariance, PTL DEF IInv

\* managerThreadNum never reaches its call of subThreadPool, so that no node is ever
\* unlinked, which ThreadPool takes for granted.
LEMMA NeverShrinks == Spec => []ShrinkUnreachable
  BY Invariance, PTL DEF IInv

\* A ring in which fewer nodes are busy or uncounted than there are holds a node
\* the mover can take.
LEMMA HeadroomGivesThread == IInv => DispatchFindsThread
  <1> SUFFICES ASSUME IInv, mpc \in {"del", "notify", "scan"}
               PROVE  \E w \in Threads : NothingToDo(w) /\ wpc[w] # "run"
    BY DEF DispatchFindsThread
  <1> USE DEF IInv
  <1>1. Cardinality(Busy) < created
    BY CountsFinite DEF Headroom, TypeOK, ThreadPoolTypeOK
  <1>2. Cardinality(Threads) = created /\ Busy \subseteq Threads
    BY FS_Interval DEF Threads, Busy, TypeOK, ThreadPoolTypeOK
  <1>3. PICK w \in Threads : w \notin Busy
    <2>1. Busy # Threads
      BY <1>1, <1>2, CountsFinite DEF TypeOK, ThreadPoolTypeOK
    <2> QED
      BY <1>2, <2>1
  <1>4. w \in Nodes /\ busy[w] = 0
    BY <1>3 DEF Busy, Threads, Nodes, TypeOK, ThreadPoolTypeOK
  <1>5. NothingToDo(w) /\ wpc[w] # "run"
    BY <1>4 DEF WorkerOK, NothingToDo
  <1> QED
    BY <1>5

\* The ring walk of addTaskToThreadPools always has a node to end at.
THEOREM DispatchEnds == Spec => []DispatchFindsThread
  BY Invariance, HeadroomGivesThread, PTL

\* A step changes the task of a node only by giving one to an idle node or by
\* taking it away when func has returned.
LEMMA StepKeepsTask ==
    ASSUME IInv, [Next]_vars, NEW w \in Nodes, task[w] # NoTask, task'[w] # task[w]
    PROVE  wpc[w] = "run" /\ task[w] \in done'
  <1>1. CASE Dispatch
    <2>1. CASE DispatchAssign
      <3>1. w # mThread
        BY <2>1 DEF DispatchAssign, IInv, MoverOK, NothingToDo
      <3> QED
        BY <2>1, <3>1 DEF DispatchAssign, IInv, TypeOK, ThreadPoolTypeOK
    <2> QED
      BY <1>1, <2>1 DEF Dispatch, DispatchFind, DispatchSkip, DispatchAccount, DispatchWake,
                        workerVars
  <1>2. CASE \E v \in Nodes : WorkerStep(v)
    <2>1. PICK v \in Nodes : WorkerStep(v)
      BY <1>2
    <2>2. CASE WorkerFinish(v)
      <3>1. w = v
        BY <2>2 DEF WorkerFinish, IInv, TypeOK, ThreadPoolTypeOK
      <3> QED
        BY <2>2, <3>1 DEF WorkerFinish
    <2> QED
      BY <2>1, <2>2 DEF WorkerStep, WorkerWait, WorkerStart, WorkerCount, WorkerSignal
  <1>3. CASE ~Dispatch /\ ~\E v \in Nodes : WorkerStep(v)
    <2>1. task' = task
      BY <1>3 DEF Next, WorkerWakes, WorkerSpuriousWake, Submit, InterfaceStep, SubmitCheck,
           SubmitAdd, SubmitSpuriousWake, InterfaceReturn, MoverStep, MoverPoll,
           MoverPollEmpty, MoverAwaitIdle, MoverSpuriousWake, MoverDel, MoverNotify,
           MoverCancelled, MoverCancelledInWait, CounterStep, CounterWake, CounterCheck,
           CounterCancelled, DestroyStep, DestroyJoinInterface, DestroyReadWorkNum,
           DestroyCancelRun, DestroyJoinRun, DestroyFree, vars, threadPoolVars, workerVars
    <2> QED
      BY <2>1
  <1> QED
    BY <1>1, <1>2, <1>3

\* No task is overwritten on its node, although line 255 reads it unlocked.
THEOREM TasksNotOverwritten == Spec => NoOverwrite
  <1>1. IInv /\ [Next]_vars
          => [\A w \in Nodes : task[w] # NoTask /\ task'[w] # task[w]
                 => wpc[w] = "run" /\ task[w] \in done']_vars
    BY StepKeepsTask
  <1> QED
    BY <1>1, Invariance, PTL DEF Spec, NoOverwrite

\* managerDestroy leaves its wait only at a moment without a working thread, but
\* for the one that the mover has handed a task and not yet counted.
THEOREM DestroyReadsQuietly == Spec => DestroyReadsQuiet
  <1>1. ASSUME IInv, [Next]_vars, dpc = "read", dpc' = "cancelRun"
        PROVE  Cardinality(Busy) + Cardinality(Uncounted) <= Unaccounted
    <2>1. DestroyReadWorkNum
      BY <1>1 DEF Next, WorkerStep, WorkerWakes, Submit, InterfaceStep, SubmitCheck,
           SubmitAdd, SubmitSpuriousWake, InterfaceReturn, MoverStep, MoverPoll,
           MoverPollEmpty, MoverAwaitIdle, MoverSpuriousWake, MoverDel, MoverNotify,
           MoverCancelled, MoverCancelledInWait, Dispatch, CounterStep, CounterWake,
           CounterCheck, CounterCancelled, DestroyStep, DestroyJoinInterface,
           DestroyCancelRun, DestroyJoinRun, DestroyFree, vars
    <2> DEFINE x == Cardinality(Busy) + Cardinality(Uncounted) - Unaccounted
    <2>2. x \in Int /\ Unaccounted \in {0, 1} /\ -1 <= x /\ x <= MaxNum
      BY <1>1, CountsFinite DEF Unaccounted, Headroom, IInv, TypeOK, ThreadPoolTypeOK
    <2>3. AsInt(Wrap(x)) = x
      BY <2>2, AsIntWrap
    <2>4. x <= 0
      BY <1>1, <2>1, <2>3 DEF DestroyReadWorkNum, IInv, CountersExact
    <2> QED
      BY <1>1, <2>2, <2>4, CountsFinite
  <1>2. IInv /\ [Next]_vars
          => [dpc = "read" /\ dpc' = "cancelRun" =>
                Cardinality(Busy) + Cardinality(Uncounted) <= Unaccounted]_vars
    BY <1>1
  <1> QED
    BY <1>2, Invariance, PTL DEF Spec, DestroyReadsQuiet
===============================================================================
