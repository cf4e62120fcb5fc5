------------------------------- MODULE TaskPool -------------------------------
(***************************************************************************)
(* The task pool of ThreadPools/taskpool.c: a bounded FIFO of task nodes.  *)
(*                                                                         *)
(* taskPoolAdd and taskPoolDel do all their work inside one critical       *)
(* section of taskpool->control.mutex, so each is one action here.  The    *)
(* list itself (list.c) is a sequence: list_add appends at the tail,       *)
(* list_del(head.next) removes the first node.  t_curNum is kept beside it *)
(* because the code keeps it beside it and decides with it.                *)
(***************************************************************************)
EXTENDS Queue, Sequences

CONSTANT MaxTask   \* taskpool->t_maxNum, set by setTaskPool

(***************************************************************************)
(* setTaskPool ignores maxTask < 1 and then leaves t_maxNum uninitialised; *)
(* the model starts from a pool that was configured.                       *)
(***************************************************************************)
ASSUME TaskPoolAssumption == MaxTask \in Nat \ {0}

VARIABLES taskList,   \* taskpool->pool, first node first
          t_curNum,   \* taskpool->t_curNum
          taskCond    \* the threads waiting on taskpool->control.cond

taskPoolVars == <<taskList, t_curNum, taskCond>>

\* The tasks that wait in the pool.
Queued == {taskList[i] : i \in DOMAIN taskList}

TaskPoolFull == t_curNum >= MaxTask

TaskPoolEmpty == t_curNum <= 0 \/ taskList = <<>>

TaskPoolInit ==
    /\ taskList = <<>>
    /\ t_curNum = 0
    /\ taskCond = {}

-----------------------------------------------------------------------------

\* taskPoolAdd on a pool that has room; the caller handles the refusal.
TaskPoolAdd(t) ==
    /\ taskList' = Append(taskList, t)
    /\ t_curNum' = t_curNum + 1
    /\ UNCHANGED taskCond

\* Fault: the last node is unlinked while the first one is returned.
TaskPoolDelLast ==
    /\ taskList' = SubSeq(taskList, 1, Len(taskList) - 1)
    /\ t_curNum' = t_curNum - 1
    /\ UNCHANGED taskCond

\* taskPoolDel on a pool that is not empty; the task taken is Head(taskList).
TaskPoolDel ==
    /\ taskList' = Tail(taskList)
    /\ t_curNum' = t_curNum - 1
    /\ UNCHANGED taskCond

\* pthread_cond_signal(&taskpool->control.cond): one waiter, if any, wakes.
SignalTaskCond ==
    /\ \/ \E p \in taskCond : taskCond' = taskCond \ {p}
       \/ taskCond = {} /\ UNCHANGED taskCond
    /\ UNCHANGED <<taskList, t_curNum>>

TaskPoolTypeOK ==
    /\ taskList \in Seq(Tasks)
    /\ t_curNum \in Nat
===============================================================================
