---------------------------------- MODULE Shrink ----------------------------------
(***************************************************************************)
(* ThreadPools: subThreadPool and idlePoolDel (threadpool.c), which are to  *)
(* take idle threads out of the pool, with the cancellation of a worker in *)
(* threadDo.  managerThreadNum never gets to the call (SurplusIdleShed);   *)
(* here it does, as it would if the else of mpool.c:105 belonged to the    *)
(* outer if.  Everything else is as in Manager.                            *)
(*                                                                         *)
(* The first node of the ring is unlinked, so the others move up by one.   *)
(* The thread counter has the pool's mutex all the time; poolOrphaned says *)
(* that nobody else can get it.                                            *)
(***************************************************************************)
EXTENDS Manager

CONSTANT FuncCancellable  \* whether the user's func has a cancellation point

VARIABLES num,     \* the nodes subThreadPool has still to take out
          victim   \* the thread it is about to kill, no longer in the ring

shrinkVars == <<num, victim>>

NoVictim == [pc |-> "none", task |-> NoTask]

ShrinkInit == Init /\ num = 0 /\ victim = NoVictim

-----------------------------------------------------------------------------
(* The thread counter.                                                      *)

\* mpool.c:101-106 and threadpool.c:221-222, with the mutex, and with flag
\* decremented only by a check that finds no surplus.
Check ==
    LET surplus == Wrap(t_idleNum - MaxIdle) > 0
    IN  /\ kpc = "lock" /\ ~poolOrphaned
        /\ flag' = IF surplus THEN flag + 1 ELSE Floored(flag - 1)
        /\ IF flag' = 3 /\ AsInt(Wrap(t_idleNum - MaxIdle)) > 0
           THEN /\ kpc' = "shrink" /\ poolOrphaned' = TRUE
                /\ num' = t_idleNum - MaxIdle
           ELSE kpc' = "sleep" /\ UNCHANGED <<poolOrphaned, num>>
        /\ UNCHANGED <<taskPoolVars, workerVars, moverVars, created, Pos, t_idleNum,
                       t_workNum, interfaceVars, dpc, victim>>

Shift(f, last) == [w \in Nodes |-> IF w = MaxNum THEN last ELSE f[w + 1]]

\* Lines 200-213, 227: whether the first node is idle is not looked at, nor whether
\* the mover has chosen it.
IdlePoolDel ==
    /\ kpc = "shrink" /\ num > 0 /\ victim = NoVictim
    /\ t_idleNum > 0 /\ created > 0
    /\ victim' = [pc |-> wpc[1], task |-> task[1]]
    /\ wpc' = Shift(wpc, "absent")
    /\ busy' = Shift(busy, 0) /\ task' = Shift(task, NoTask)
    /\ mThread' = IF mThread = 0 THEN 0 ELSE mThread - 1
    /\ created' = created - 1 /\ Pos' = 1
    /\ UNCHANGED <<taskPoolVars, done, t_idleNum, t_workNum, poolOrphaned, mpc, mTask,
                   moverWaits, interfaceVars, counterVars, dpc, num>>

\* Line 226.
NobodyIdle ==
    /\ kpc = "shrink" /\ num > 0 /\ victim = NoVictim
    /\ t_idleNum = 0
    /\ num' = num - 1
    /\ UNCHANGED <<vars, victim>>

\* Lines 228-231: pthread_join has returned.
Join ==
    /\ victim.pc = "gone"
    /\ t_idleNum' = Wrap(t_idleNum - 1)
    /\ num' = num - 1
    /\ victim' = NoVictim
    /\ UNCHANGED <<taskPoolVars, workerVars, moverVars, created, Pos, t_workNum,
                   poolOrphaned, interfaceVars, counterVars, dpc>>

SubReturn ==
    /\ kpc = "shrink" /\ num = 0
    /\ kpc' = "sleep" /\ poolOrphaned' = FALSE
    /\ UNCHANGED <<taskPoolVars, workerVars, moverVars, created, Pos, t_idleNum,
                   t_workNum, interfaceVars, flag, dpc, shrinkVars>>

-----------------------------------------------------------------------------
(* The cancelled thread, in threadDo.                                       *)

\* Lines 39, 45, 62, and func: a cancellation point; threadExitUnlock unlocks a copy
\* of the node's mutex.
VictimEnds ==
    /\ victim.pc \in {"lock", "wait", "signal"} \cup IF FuncCancellable THEN {"run"} ELSE {}
    /\ victim' = [victim EXCEPT !.pc = "gone"]
    /\ UNCHANGED <<vars, num>>

\* Lines 44-51: past the test of line 39 a thread with a task runs it, and then waits
\* for the pool's mutex, which is no cancellation point.
VictimWorks ==
    /\ \/ /\ victim.pc = "lock" /\ victim.task # NoTask
          /\ victim' = [victim EXCEPT !.pc = "run"] /\ UNCHANGED done
       \/ /\ victim.pc = "run"
          /\ victim' = [pc |-> "count", task |-> NoTask]
          /\ done' = done \cup {victim.task}
    /\ UNCHANGED <<taskPoolVars, wpc, busy, task, poolVars, moverVars, interfaceVars,
                   counterVars, dpc, num>>

-----------------------------------------------------------------------------

\* The node the mover has chosen is no longer there.
ChosenFreed == mThread = 0 /\ mpc \in {"assign", "account", "wake"}

ShrinkStep == Check \/ IdlePoolDel \/ NobodyIdle \/ Join \/ SubReturn

\* What the mover does to a node that has been freed is not followed.
ShrinkNext ==
    \/ ShrinkStep \/ VictimEnds \/ VictimWorks
    \/ /\ UNCHANGED shrinkVars
       /\ \/ \E p \in Interfaces : Submit(p) \/ InterfaceStep(p)
          \/ \E w \in Nodes : WorkerStep(w) \/ WorkerWakes(w)
          \/ ~ChosenFreed /\ MoverStep
          \/ MoverSpuriousWake \/ CounterWake

ShrinkSpec == ShrinkInit /\ [][ShrinkNext]_<<vars, shrinkVars>>

ShrinkFairSpec ==
    /\ ShrinkSpec
    /\ WF_<<vars, shrinkVars>>(ShrinkStep)
    /\ WF_<<vars, shrinkVars>>(VictimEnds)
    /\ WF_<<vars, shrinkVars>>(VictimWorks)

-----------------------------------------------------------------------------
(* What the design document says of subThreadPool, and a call would not do. *)

\* "If the number of idle threads exceeds this value, the managing thread kills
\* the surplus": the thread that is killed is idle.
KillsIdleOnly == victim.task = NoTask

\* The node addTaskToThreadPools has found stays until it has been given its task: the
\* search does not take the pool's mutex (threadpool.c:244-260).
ChosenNodeLives == ~ChosenFreed

\* subThreadPool returns, and with it the pool's mutex.
ShrinkReturns == kpc = "shrink" ~> kpc # "shrink"
===============================================================================
