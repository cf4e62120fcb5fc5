--------------------------------- MODULE Master ---------------------------------
(***************************************************************************)
(* LikeNginx/main.c: the master process, which keeps Cpus workers running, *)
(* and its signal handler, which may run between any two of its steps.     *)
(*                                                                         *)
(* The kernel remembers one pending signal of each kind however many are   *)
(* sent, and does not start the SIGCHLD handler while it is running.       *)
(***************************************************************************)
EXTENDS Processes, Naturals

CONSTANTS Cpus,       \* the number of workers to run (main.c:208)
          ForkFails   \* whether fork may return -1

ASSUME MasterAssumption ==
    /\ Cpus \in 1..Cardinality(Workers)
    /\ ForkFails \in BOOLEAN

VARIABLES
    proc,              \* each process: "none", "alive" or "zombie"
    num_child,         \* how many workers are still to be forked
    handle_sig_chld,   \* how many the handler has counted
    process_shutdown,  \* SIGTERM has been handled
    fork_loop,
    mpc,               \* where the master is in its loop (main.c:242-269)
    reaping,           \* the SIGCHLD handler is in its waitpid loop
    sigchld, sigterm   \* signals pending for the master

masterVars == <<proc, num_child, handle_sig_chld, process_shutdown, fork_loop,
                mpc, reaping, sigchld, sigterm>>

Alive   == {w \in Workers : proc[w] = "alive"}
Zombies == {w \in Workers : proc[w] = "zombie"}

MasterInit ==
    /\ proc = [w \in Workers |-> "none"]
    /\ num_child = Cpus
    /\ handle_sig_chld = 0
    /\ process_shutdown = FALSE
    /\ fork_loop = TRUE
    /\ mpc = "loop"
    /\ reaping = FALSE
    /\ sigchld = FALSE /\ sigterm = FALSE

-----------------------------------------------------------------------------
(* The main loop.  It makes no step while a handler runs or is due: a signal *)
(* that finds the master between two steps is handled before the second.     *)

At(label) == mpc = label /\ ~reaping /\ ~sigchld /\ ~sigterm

\* Lines 243-255.
Fork(w) ==
    /\ At("loop") /\ fork_loop /\ num_child > 0
    /\ proc[w] = "none"
    /\ proc' = [proc EXCEPT ![w] = "alive"]
    /\ num_child' = num_child - 1
    /\ UNCHANGED <<handle_sig_chld, process_shutdown, fork_loop, mpc, reaping, sigchld, sigterm>>

\* Lines 245-247: the master returns from main, its workers go on.
ForkError ==
    /\ ForkFails
    /\ At("loop") /\ fork_loop /\ num_child > 0
    /\ mpc' = "exited"
    /\ UNCHANGED <<proc, num_child, handle_sig_chld, process_shutdown, fork_loop,
                   reaping, sigchld, sigterm>>

\* Line 260: nothing to fork, sleep until a handler has run.
Suspend ==
    /\ At("loop") /\ fork_loop /\ num_child = 0
    /\ mpc' = "suspended"
    /\ UNCHANGED <<proc, num_child, handle_sig_chld, process_shutdown, fork_loop,
                   reaping, sigchld, sigterm>>

\* Line 261.
Test ==
    /\ At("test")
    /\ mpc' = IF handle_sig_chld > 0 THEN "add" ELSE "signals"
    /\ UNCHANGED <<proc, num_child, handle_sig_chld, process_shutdown, fork_loop,
                   reaping, sigchld, sigterm>>

\* Line 262.
AddExited ==
    /\ At("add")
    /\ num_child' = num_child + handle_sig_chld
    /\ mpc' = "reset"
    /\ UNCHANGED <<proc, handle_sig_chld, process_shutdown, fork_loop,
                   reaping, sigchld, sigterm>>

\* Fault: the count stays and is added again after the next wake-up.
KeepCount ==
    /\ At("reset")
    /\ mpc' = "signals"
    /\ UNCHANGED <<proc, num_child, handle_sig_chld, process_shutdown, fork_loop,
                   reaping, sigchld, sigterm>>

\* Line 263.
ResetCount ==
    /\ At("reset")
    /\ handle_sig_chld' = 0
    /\ mpc' = "signals"
    /\ UNCHANGED <<proc, num_child, process_shutdown, fork_loop, reaping, sigchld, sigterm>>

\* Line 266: process_signal_return.
ProcessSignals ==
    /\ At("signals")
    /\ fork_loop' = ~process_shutdown
    /\ mpc' = "loop"
    /\ UNCHANGED <<proc, num_child, handle_sig_chld, process_shutdown, reaping, sigchld, sigterm>>

\* Line 289: the workers are not told.
Exit ==
    /\ At("loop") /\ ~fork_loop
    /\ mpc' = "exited"
    /\ UNCHANGED <<proc, num_child, handle_sig_chld, process_shutdown, fork_loop,
                   reaping, sigchld, sigterm>>

-----------------------------------------------------------------------------
(* The signal handler and what it reacts to.                                *)

\* A worker process ends (it never ends itself) and becomes a zombie.
WorkerExit(w) ==
    /\ proc[w] = "alive"
    /\ proc' = [proc EXCEPT ![w] = "zombie"]
    /\ sigchld' = TRUE
    /\ UNCHANGED <<num_child, handle_sig_chld, process_shutdown, fork_loop, mpc, reaping, sigterm>>

\* Someone asks the master to end.
Kill ==
    /\ mpc # "exited" /\ ~sigterm /\ ~process_shutdown
    /\ sigterm' = TRUE
    /\ UNCHANGED <<proc, num_child, handle_sig_chld, process_shutdown, fork_loop,
                   mpc, reaping, sigchld>>

\* sigsuspend returns when a handler has returned.
Resumed == IF mpc = "suspended" THEN "test" ELSE mpc

\* Lines 93-95: the handler starts to count.
ChildHandler ==
    /\ sigchld /\ ~reaping /\ mpc # "exited"
    /\ sigchld' = FALSE
    /\ handle_sig_chld' = 0
    /\ reaping' = TRUE
    /\ UNCHANGED <<proc, num_child, process_shutdown, fork_loop, mpc, sigterm>>

\* Fault: one waitpid for each signal.
ReapOnce(w) ==
    /\ reaping
    /\ proc[w] = "zombie"
    /\ proc' = [proc EXCEPT ![w] = "none"]
    /\ handle_sig_chld' = handle_sig_chld + 1
    /\ reaping' = FALSE
    /\ mpc' = Resumed
    /\ UNCHANGED <<num_child, process_shutdown, fork_loop, sigchld, sigterm>>

\* Lines 97-98.
Reap(w) ==
    /\ reaping
    /\ proc[w] = "zombie"
    /\ proc' = [proc EXCEPT ![w] = "none"]
    /\ handle_sig_chld' = handle_sig_chld + 1
    /\ UNCHANGED <<num_child, process_shutdown, fork_loop, mpc, reaping, sigchld, sigterm>>

\* Line 97: waitpid finds no more.
HandlerReturn ==
    /\ reaping
    /\ Zombies = {}
    /\ reaping' = FALSE
    /\ mpc' = Resumed
    /\ UNCHANGED <<proc, num_child, handle_sig_chld, process_shutdown, fork_loop, sigchld, sigterm>>

\* Lines 72-73; it may interrupt the SIGCHLD handler, and then sigsuspend
\* returns with that one.
TermHandler ==
    /\ sigterm /\ mpc # "exited"
    /\ sigterm' = FALSE
    /\ process_shutdown' = TRUE
    /\ mpc' = IF reaping THEN mpc ELSE Resumed
    /\ UNCHANGED <<proc, num_child, handle_sig_chld, fork_loop, reaping, sigchld>>

\* SIGHUP or SIGINT: sigsuspend returns and nothing is done about it.
OtherHandler ==
    /\ At("suspended")
    /\ mpc' = Resumed
    /\ UNCHANGED <<proc, num_child, handle_sig_chld, process_shutdown, fork_loop,
                   reaping, sigchld, sigterm>>

-----------------------------------------------------------------------------

\* The steps of the master that concern no particular worker.
MasterStep ==
    \/ ForkError \/ Suspend \/ Test \/ AddExited \/ ResetCount \/ ProcessSignals \/ Exit
    \/ ChildHandler \/ HandlerReturn \/ TermHandler

MasterNext ==
    \/ MasterStep \/ Kill \/ OtherHandler
    \/ \E w \in Workers : Fork(w) \/ Reap(w) \/ WorkerExit(w)

-----------------------------------------------------------------------------

MasterTypeOK ==
    /\ proc \in [Workers -> {"none", "alive", "zombie"}]
    /\ num_child \in 0..Cpus
    /\ handle_sig_chld \in 0..Cpus
    /\ process_shutdown \in BOOLEAN /\ fork_loop \in BOOLEAN
    /\ mpc \in {"loop", "suspended", "test", "add", "reset", "signals", "exited"}
    /\ reaping \in BOOLEAN
    /\ sigchld \in BOOLEAN /\ sigterm \in BOOLEAN

\* However exits, signals and the loop interleave, the master never runs more
\* than Cpus workers: an exit that was counted is never counted again, although
\* lines 262 and 263 and the handler share the counter without protection.
NeverTooMany ==
    Cardinality(Alive) + Cardinality(Zombies) + num_child
        + (IF mpc = "reset" THEN 0 ELSE handle_sig_chld) <= Cpus

\* No worker stays a zombie: signals that came together are made up for by the
\* handler's loop (line 97).
Reaped(w) == proc[w] = "zombie" ~> proc[w] = "none" \/ mpc = "exited"
ZombiesReaped == \A w \in Workers : Reaped(w)

\* "process worker thread exit signal" (line 261): when the master sleeps and no
\* exit is pending, every worker it is to keep is running.
AsleepWithAllWorkers ==
    mpc = "suspended" /\ ~reaping /\ ~sigchld => Cardinality(Alive) = Cpus
===============================================================================
