------------------------------ MODULE ServerProofs ------------------------------
(***************************************************************************)
(* Proofs about Server, for every number of workers, whoever ends when.    *)
(***************************************************************************)
EXTENDS Server, TLAPS, FiniteSetTheorems

-----------------------------------------------------------------------------
(* The listening socket.                                                    *)

Labels == {"none", "start", "top", "try", "locked", "wait", "jobs",
           "accept", "unwatch", "unlock"}

SharedOK ==
    /\ accept_mutex \in Workers \cup {NoOwner, DeadOwner}
    /\ accept_mutex_held \in {0, 1}
    /\ wpc \in [Workers -> Labels]
    /\ watching \subseteq Workers /\ edge \subseteq watching

\* A worker between trylock and unlock is the owner of the mutex.
OwnerOK ==
    \A w \in Workers :
        wpc[w] \in {"locked", "accept", "unwatch", "unlock"} => accept_mutex = w

\* A worker watches the socket between the two epoll calls only.
WatchOK ==
    \A w \in watching : accept_mutex = w /\ wpc[w] \notin {"none", "start", "locked", "unlock"}

\* The hint is down when the mutex is let go of.
HintOK ==
    accept_mutex_held = 1 =>
        accept_mutex # NoOwner /\ \A w \in Workers : wpc[w] # "unlock"

AInv == SharedOK /\ OwnerOK /\ WatchOK /\ HintOK

\* The inductive invariant holds at the start.
LEMMA AcceptStart == Init => AInv
  BY DEF Init, AcceptInit, AInv, SharedOK, OwnerOK, WatchOK, HintOK, Labels

\* It survives every step of a worker's cycle.
LEMMA CyclePreserves ==
    ASSUME AInv, NEW w \in Workers, Cycle(w)
    PROVE  AInv'
<1> USE AcceptAssumption DEF AcceptAssumption, AInv, SharedOK, Labels, Goto
<1>1. CASE ResetHeld(w)
  BY <1>1 DEF ResetHeld, OwnerOK, WatchOK, HintOK
<1>2. CASE SkipAccept(w)
  BY <1>2 DEF SkipAccept, OwnerOK, WatchOK, HintOK
<1>3. CASE ReadHeld(w)
  BY <1>3 DEF ReadHeld, OwnerOK, WatchOK, HintOK
<1>4. CASE TryLock(w)
  BY <1>4 DEF TryLock, OwnerOK, WatchOK, HintOK
<1>5. CASE Watch(w)
  BY <1>5 DEF Watch, OwnerOK, WatchOK, HintOK
<1>6. CASE AcceptEvent(w)
  BY <1>6 DEF AcceptEvent, OwnerOK, WatchOK, HintOK
<1>7. CASE OtherEvent(w)
  BY <1>7 DEF OtherEvent, OwnerOK, WatchOK, HintOK
<1>8. CASE RunJobs(w)
  BY <1>8 DEF RunJobs, OwnerOK, WatchOK, HintOK
<1>9. CASE AcceptOne(w)
  BY <1>9 DEF AcceptOne, OwnerOK, WatchOK, HintOK
<1>10. CASE AcceptDone(w)
  BY <1>10 DEF AcceptDone, OwnerOK, WatchOK, HintOK
<1>11. CASE Unwatch(w)
  BY <1>11 DEF Unwatch, OwnerOK, WatchOK, HintOK
<1>12. CASE Unlock(w)
  BY <1>12 DEF Unlock, OwnerOK, WatchOK, HintOK
<1> QED
  BY <1>1, <1>2, <1>3, <1>4, <1>5, <1>6, <1>7, <1>8, <1>9, <1>10, <1>11, <1>12 DEF Cycle

\* It survives every step of the server, the end of a process included.
LEMMA AcceptStep == AInv /\ [Next]_vars => AInv'
<1> SUFFICES ASSUME AInv, [Next]_vars PROVE AInv'
  OBVIOUS
<1> USE AcceptAssumption DEF AcceptAssumption
<1>1. ASSUME UNCHANGED acceptVars PROVE AInv'
  BY <1>1 DEF acceptVars, AInv, SharedOK, OwnerOK, WatchOK, HintOK
<1>2. ASSUME Connect PROVE AInv'
  BY <1>2 DEF Connect, AInv, SharedOK, OwnerOK, WatchOK, HintOK
<1>3. ASSUME NEW w \in Workers, WorkerStart(w) PROVE AInv'
  BY <1>3 DEF WorkerStart, Goto, AInv, SharedOK, OwnerOK, WatchOK, HintOK, Labels
<1>4. ASSUME NEW w \in Workers, WorkerEnd(w) PROVE AInv'
  BY <1>4 DEF WorkerEnd, Goto, AInv, SharedOK, OwnerOK, WatchOK, HintOK, Labels
<1> QED
  BY <1>1, <1>2, <1>3, <1>4, CyclePreserves
  DEF Next, vars, MasterStepAlone, SignalMaster, Arrival, ForkWorker, EndWorker, WorkerStep

\* In every run of the workers the invariant of the accept mutex holds.
LEMMA AcceptInvariance == Spec => []AInv
<1> QED
  BY AcceptStart, AcceptStep, PTL DEF Spec

\* However workers start, end and interleave, at most one has the listening
\* socket in its epoll set (worker_zoon.c:346-350, 121-126).
THEOREM SocketExclusive == Spec => []OneAcceptor
<1>1. AInv => OneAcceptor
  BY DEF AInv, WatchOK, OneAcceptor
<1> QED
  BY <1>1, AcceptInvariance, PTL

\* The hint never says held while the mutex is free (worker_zoon.c:122-126).
THEOREM HintTruthful == Spec => []HeldOnlyByOwner
<1>1. AInv => HeldOnlyByOwner
  BY DEF AInv, HintOK, HeldOnlyByOwner
<1> QED
  BY <1>1, AcceptInvariance, PTL

-----------------------------------------------------------------------------
(* The number of workers.                                                   *)

ProcOK ==
    /\ proc \in [Workers -> {"none", "alive", "zombie"}]
    /\ num_child \in Nat
    /\ handle_sig_chld \in Nat

MInv == ProcOK /\ NeverTooMany

\* There are finitely many processes, alive or dead.
LEMMA Counted == IsFiniteSet(Alive) /\ IsFiniteSet(Zombies)
                 /\ Cardinality(Alive) \in Nat /\ Cardinality(Zombies) \in Nat
<1>1. Alive \subseteq Workers /\ Zombies \subseteq Workers
  BY DEF Alive, Zombies
<1> QED
  BY <1>1, ProcessesAssumption, FS_Subset, FS_CardinalityType DEF ProcessesAssumption

\* A process that changes from one kind to another changes two numbers by one.
LEMMA ForkCounts ==
    ASSUME ProcOK, NEW w \in Workers, proc[w] = "none",
           proc' = [proc EXCEPT ![w] = "alive"]
    PROVE  Cardinality(Alive') = Cardinality(Alive) + 1 /\ Zombies' = Zombies
<1>1. Alive' = Alive \cup {w} /\ w \notin Alive /\ Zombies' = Zombies
  BY DEF Alive, Zombies, ProcOK
<1> QED
  BY <1>1, Counted, FS_AddElement

\* A process that ends is one more to reap.
LEMMA ExitCounts ==
    ASSUME ProcOK, NEW w \in Workers, proc[w] = "alive",
           proc' = [proc EXCEPT ![w] = "zombie"]
    PROVE  /\ Cardinality(Alive') = Cardinality(Alive) - 1
           /\ Cardinality(Zombies') = Cardinality(Zombies) + 1
<1>1. Alive' = Alive \ {w} /\ w \in Alive
  BY DEF Alive, ProcOK
<1>2. Zombies' = Zombies \cup {w} /\ w \notin Zombies
  BY DEF Zombies, ProcOK
<1>3. Cardinality(Alive') = Cardinality(Alive) - 1
  BY <1>1, Counted, FS_RemoveElement
<1>4. Cardinality(Zombies') = Cardinality(Zombies) + 1
  BY <1>2, Counted, FS_AddElement
<1> QED
  BY <1>3, <1>4

\* A process that is reaped is one less.
LEMMA ReapCounts ==
    ASSUME ProcOK, NEW w \in Workers, proc[w] = "zombie",
           proc' = [proc EXCEPT ![w] = "none"]
    PROVE  Cardinality(Zombies') = Cardinality(Zombies) - 1 /\ Alive' = Alive
<1>1. Zombies' = Zombies \ {w} /\ w \in Zombies /\ Alive' = Alive
  BY DEF Alive, Zombies, ProcOK
<1> QED
  BY <1>1, Counted, FS_RemoveElement

\* No worker has been forked to begin with.
LEMMA MasterStart == Init => MInv
<1> SUFFICES ASSUME Init PROVE MInv
  OBVIOUS
<1>1. Alive = {} /\ Zombies = {}
  BY DEF Init, MasterInit, Alive, Zombies
<1>2. Cpus \in Nat
  BY MasterAssumption, ProcessesAssumption, FS_CardinalityType
  DEF MasterAssumption, ProcessesAssumption
<1> QED
  BY <1>1, <1>2, FS_EmptySet DEF Init, MasterInit, MInv, ProcOK, NeverTooMany

\* No step of the master, of its handler or of a worker adds to the sum.
LEMMA MasterPreserves ==
    ASSUME MInv, MasterNext \/ UNCHANGED masterVars
    PROVE  MInv'
<1> USE Counted DEF MInv, NeverTooMany, At, Resumed
<1>0. Cpus \in Nat
  BY MasterAssumption, ProcessesAssumption, FS_CardinalityType
  DEF MasterAssumption, ProcessesAssumption
<1>u. ASSUME UNCHANGED proc PROVE UNCHANGED <<Alive, Zombies>>
  BY <1>u DEF Alive, Zombies
<1>1. ASSUME NEW w \in Workers, Fork(w) PROVE MInv'
  <2>1. Cardinality(Alive') = Cardinality(Alive) + 1 /\ Zombies' = Zombies
    BY <1>1, ForkCounts DEF Fork
  <2>2. num_child' = num_child - 1 /\ num_child > 0 /\ UNCHANGED <<handle_sig_chld, mpc>>
    BY <1>1 DEF Fork
  <2>3. ProcOK'
    BY <1>1 DEF Fork, ProcOK
  <2> QED
    BY <1>0, <2>1, <2>2, <2>3 DEF ProcOK
<1>2. ASSUME NEW w \in Workers, Reap(w) PROVE MInv'
  <2>1. Cardinality(Zombies') = Cardinality(Zombies) - 1 /\ Alive' = Alive
    BY <1>2, ReapCounts DEF Reap
  <2>2. handle_sig_chld' = handle_sig_chld + 1 /\ UNCHANGED <<num_child, mpc>>
    BY <1>2 DEF Reap
  <2>3. ProcOK'
    BY <1>2 DEF Reap, ProcOK
  <2> QED
    BY <1>0, <2>1, <2>2, <2>3 DEF ProcOK
<1>3. ASSUME NEW w \in Workers, WorkerExit(w) PROVE MInv'
  <2>1. /\ Cardinality(Alive') = Cardinality(Alive) - 1
        /\ Cardinality(Zombies') = Cardinality(Zombies) + 1
    BY <1>3, ExitCounts DEF WorkerExit
  <2>2. UNCHANGED <<num_child, handle_sig_chld, mpc>>
    BY <1>3 DEF WorkerExit
  <2>3. ProcOK'
    BY <1>3 DEF WorkerExit, ProcOK
  <2> QED
    BY <1>0, <2>1, <2>2, <2>3 DEF ProcOK
<1>4. CASE ForkError
  BY <1>0, <1>4, <1>u DEF ForkError, ProcOK
<1>5. CASE Suspend
  BY <1>0, <1>5, <1>u DEF Suspend, ProcOK
<1>6. CASE Test
  BY <1>0, <1>6, <1>u DEF Test, ProcOK
<1>7. CASE AddExited
  BY <1>0, <1>7, <1>u DEF AddExited, ProcOK
<1>8. CASE ResetCount
  BY <1>0, <1>8, <1>u DEF ResetCount, ProcOK
<1>9. CASE ProcessSignals
  BY <1>0, <1>9, <1>u DEF ProcessSignals, ProcOK
<1>10. CASE Exit
  BY <1>0, <1>10, <1>u DEF Exit, ProcOK
<1>11. CASE ChildHandler
  BY <1>0, <1>11, <1>u DEF ChildHandler, ProcOK
<1>12. CASE HandlerReturn
  BY <1>0, <1>12, <1>u DEF HandlerReturn, ProcOK
<1>13. CASE TermHandler
  BY <1>0, <1>13, <1>u DEF TermHandler, ProcOK
<1>14. CASE Kill \/ OtherHandler
  BY <1>0, <1>14, <1>u DEF Kill, OtherHandler, ProcOK
<1>15. CASE UNCHANGED masterVars
  BY <1>0, <1>15, <1>u DEF masterVars, ProcOK
<1> QED
  BY <1>1, <1>2, <1>3, <1>4, <1>5, <1>6, <1>7, <1>8, <1>9, <1>10, <1>11, <1>12, <1>13,
     <1>14, <1>15 DEF MasterNext, MasterStep

\* Every step keeps the invariant of the master.
LEMMA MasterStepPreserves == MInv /\ [Next]_vars => MInv'
<1>1. [Next]_vars => MasterNext \/ UNCHANGED masterVars
  BY DEF Next, vars, MasterStepAlone, SignalMaster, Arrival, ForkWorker, EndWorker,
         WorkerStep, MasterNext
<1> QED
  BY <1>1, MasterPreserves

\* The master never runs more than Cpus workers, however many signals are lost
\* or handled between its steps (main.c:93-98, 242-266).
THEOREM WorkersBounded == Spec => []NeverTooMany
<1>1. MInv => NeverTooMany
  BY DEF MInv
<1> QED
  BY <1>1, MasterStart, MasterStepPreserves, PTL DEF Spec

-----------------------------------------------------------------------------
(* The types of the master's variables.                                     *)

FlagsOK ==
    /\ process_shutdown \in BOOLEAN /\ fork_loop \in BOOLEAN
    /\ reaping \in BOOLEAN /\ sigchld \in BOOLEAN /\ sigterm \in BOOLEAN
    /\ mpc \in {"loop", "suspended", "test", "add", "reset", "signals", "exited"}

\* The handler counts processes that are gone, at "reset" too, where the count has been
\* added already.
CountedAreGone == Cardinality(Alive) + Cardinality(Zombies) + handle_sig_chld <= Cpus

MTInv == MInv /\ FlagsOK /\ CountedAreGone

\* The master's steps keep its flags what they are and the count in its range.
LEMMA MasterTypesPreserved ==
    ASSUME MTInv, MasterNext \/ UNCHANGED masterVars
    PROVE  MTInv'
<1>0. MInv' /\ Cpus \in Nat
  BY MasterPreserves, MasterAssumption, ProcessesAssumption, FS_CardinalityType
  DEF MasterAssumption, ProcessesAssumption, MTInv
<1>f. FlagsOK'
  BY DEF MTInv, At, Resumed, MasterNext, MasterStep, FlagsOK, masterVars, Fork, ForkError, Suspend,
         Test, AddExited, ResetCount, ProcessSignals, Exit, WorkerExit, Kill, ChildHandler, Reap,
         HandlerReturn, TermHandler, OtherHandler
<1>a. /\ Cardinality(Alive) \in Nat /\ Cardinality(Zombies) \in Nat
      /\ num_child \in Nat /\ handle_sig_chld \in Nat
  BY Counted DEF MTInv, MInv, ProcOK
<1>b. /\ Cardinality(Alive') \in Nat /\ Cardinality(Zombies') \in Nat
      /\ num_child' \in Nat /\ handle_sig_chld' \in Nat
  <2>1. Alive' \subseteq Workers /\ Zombies' \subseteq Workers
    BY DEF Alive, Zombies
  <2> QED
    BY <1>0, <2>1, ProcessesAssumption, FS_Subset, FS_CardinalityType
    DEF ProcessesAssumption, MInv, ProcOK
<1>n. mpc' # "reset" => CountedAreGone'
  BY <1>0, <1>b DEF MInv, NeverTooMany, CountedAreGone
<1>u. ASSUME proc' = proc, handle_sig_chld' \in {handle_sig_chld, 0}
      PROVE  CountedAreGone'
  <2>1. Cardinality(Alive') = Cardinality(Alive) /\ Cardinality(Zombies') = Cardinality(Zombies)
    BY <1>u DEF Alive, Zombies
  <2>2. Cardinality(Alive) + Cardinality(Zombies) + handle_sig_chld <= Cpus
    BY DEF MTInv, CountedAreGone
  <2> QED
    BY <1>0, <1>a, <1>u, <2>1, <2>2 DEF CountedAreGone
<1>1. ASSUME NEW w \in Workers, Fork(w) PROVE CountedAreGone'
  BY <1>1, <1>n DEF Fork, At
<1>2. ASSUME NEW w \in Workers, Reap(w) PROVE CountedAreGone'
  <2>1. Cardinality(Zombies') = Cardinality(Zombies) - 1 /\ Alive' = Alive
    BY <1>2, ReapCounts DEF Reap, MTInv, MInv
  <2> QED
    BY <1>0, <1>a, <1>2, <2>1 DEF Reap, MTInv, CountedAreGone
<1>3. ASSUME NEW w \in Workers, WorkerExit(w) PROVE CountedAreGone'
  <2>1. /\ Cardinality(Alive') = Cardinality(Alive) - 1
        /\ Cardinality(Zombies') = Cardinality(Zombies) + 1
    BY <1>3, ExitCounts DEF WorkerExit, MTInv, MInv
  <2> QED
    BY <1>0, <1>a, <1>3, <2>1 DEF WorkerExit, MTInv, CountedAreGone
<1>4. ASSUME MasterStep \/ Kill \/ OtherHandler \/ UNCHANGED masterVars PROVE CountedAreGone'
  <2>1. proc' = proc /\ handle_sig_chld' \in {handle_sig_chld, 0}
    BY <1>4 DEF masterVars, MasterStep, ForkError, Suspend, Test, AddExited, ResetCount,
                ProcessSignals, Exit, Kill, ChildHandler, HandlerReturn, TermHandler, OtherHandler
  <2> QED
    BY <2>1, <1>u
<1> QED
  BY <1>0, <1>f, <1>1, <1>2, <1>3, <1>4 DEF MasterNext, MTInv

\* In every run of the master its variables have their types.
LEMMA MasterTypes == Spec => []MTInv
<1>1. Init => MTInv
  <2> SUFFICES ASSUME Init PROVE MTInv
    OBVIOUS
  <2>1. Alive = {} /\ Zombies = {}
    BY DEF Init, MasterInit, Alive, Zombies
  <2>2. Cpus \in Nat
    BY MasterAssumption, ProcessesAssumption, FS_CardinalityType
    DEF MasterAssumption, ProcessesAssumption
  <2>3. FlagsOK
    BY DEF Init, MasterInit, FlagsOK
  <2> QED
    BY <2>1, <2>2, <2>3, MasterStart, FS_EmptySet DEF Init, MasterInit, MTInv, CountedAreGone
<1>2. [Next]_vars => MasterNext \/ UNCHANGED masterVars
  BY DEF Next, vars, MasterStepAlone, SignalMaster, Arrival, ForkWorker, EndWorker,
         WorkerStep, MasterNext
<1> QED
  BY <1>1, <1>2, MasterTypesPreserved, PTL DEF Spec

-----------------------------------------------------------------------------
(* The count of free connections, and the rounds a worker stays away.       *)

CreditTypes ==
    /\ backlog \in 0..MaxBacklog
    /\ free \in [Workers -> 0..(UIntMod - 1)]
    /\ disabled \in [Workers -> 0..(UIntMod - 1)]
    /\ available \in [Workers -> 0..Batch]
    /\ conns \in [Workers -> 0..MaxOpen]

\* The count a worker keeps is the limit less its connections, in the width of its type.
FreeCountsConnections ==
    \A w \in Workers : wpc[w] # "none" => free[w] = Wrap(MaxConnects - conns[w])

\* The connections that wait and those a worker has are within the bound, so that its
\* count goes below zero once at most.
WithinBound == \A w \in Workers : conns[w] + backlog <= MaxOpen

CInv == AInv /\ CreditTypes /\ WithinBound /\ FreeCountsConnections
        /\ \A w \in Workers : wpc[w] = "none" => conns[w] = 0

\* The bounds on the constants, and what they make of the conversions.
LEMMA Widths ==
    /\ MaxConnects \in Nat /\ MaxOpen \in Nat /\ MaxBacklog \in Nat /\ Batch \in Nat
    /\ UIntMod \in Nat /\ UIntMod > MaxOpen + MaxConnects + 1
    /\ MaxConnects \div 8 \in 0..MaxConnects
<1>1. MaxConnects \in Nat /\ MaxOpen \in Nat /\ UIntMod \in Nat \ {0}
      /\ UIntMod > 4 * (MaxOpen + MaxConnects) /\ Batch \in 1..(MaxConnects \div 8)
      /\ MaxBacklog \in Nat
  BY AcceptAssumption, UIntAssumption DEF AcceptAssumption, UIntAssumption
<1>2. MaxConnects \div 8 \in 0..MaxConnects
  BY <1>1
<1>3. MaxConnects > 0
  BY <1>1, <1>2
<1> QED
  BY <1>1, <1>2, <1>3

\* What is disabled is computed within the width of its type.
LEMMA DisabledType ==
    ASSUME NEW f \in 0..(UIntMod - 1)
    PROVE  Disabled(f) \in 0..(UIntMod - 1)
<1> DEFINE d == MaxConnects \div 8 - f
<1>1. d \in Int /\ d < UIntMod /\ d >= -UIntMod /\ UIntMod \in Nat /\ UIntMod > 0
  BY Widths
<1> HIDE DEF d
<1>2. Wrap(d) \in 0..(UIntMod - 1)
  BY <1>1 DEF Wrap
<1>3. AsInt(Wrap(d)) \in Int /\ AsInt(Wrap(d)) <= UIntMod - 1
  BY <1>1, <1>2 DEF AsInt
<1> QED
  BY <1>1, <1>3 DEF Disabled, d

\* Whether the count has wrapped or not, one connection more or k less change it by that.
LEMMA FreeOf ==
    ASSUME NEW c \in 0..MaxOpen
    PROVE  /\ Wrap(MaxConnects - c) \in 0..(UIntMod - 1)
           /\ c + 1 <= MaxOpen => Wrap(Wrap(MaxConnects - c) - 1) = Wrap(MaxConnects - (c + 1))
           /\ \A k \in 0..c : Wrap(Wrap(MaxConnects - c) + k) = Wrap(MaxConnects - (c - k))
  BY Widths DEF Wrap

\* A cycle of the worker counts what it takes and what it gives back.
LEMMA CreditCycle ==
    ASSUME CInv, NEW w \in Workers, Cycle(w)
    PROVE  CInv'
<1>0. AInv' /\ wpc \in [Workers -> Labels]
  BY CyclePreserves DEF CInv, AInv, SharedOK
<1> USE Widths DEF CInv, CreditTypes, WithinBound, FreeCountsConnections, Goto
<1>1. CASE ResetHeld(w) \/ ReadHeld(w) \/ TryLock(w) \/ Watch(w) \/ OtherEvent(w) \/ Unlock(w)
  <2>1. UNCHANGED <<backlog, free, disabled, available, conns>>
    BY <1>1 DEF ResetHeld, ReadHeld, TryLock, Watch, OtherEvent, Unlock
  <2>2. \A v \in Workers : wpc'[v] = "none" <=> wpc[v] = "none"
    BY <1>0, <1>1 DEF ResetHeld, ReadHeld, TryLock, Watch, OtherEvent, Unlock
  <2> QED
    BY <1>0, <2>1, <2>2
<1>2. CASE SkipAccept(w) \/ AcceptEvent(w) \/ AcceptDone(w) \/ Unwatch(w)
  <2>1. UNCHANGED <<backlog, free, conns>>
    BY <1>2 DEF SkipAccept, AcceptEvent, AcceptDone, Unwatch
  <2>2. \A v \in Workers : wpc'[v] = "none" <=> wpc[v] = "none"
    BY <1>0, <1>2 DEF SkipAccept, AcceptEvent, AcceptDone, Unwatch
  <2>3. disabled' \in [Workers -> 0..(UIntMod - 1)]
    BY <1>2, DisabledType DEF SkipAccept, AcceptEvent, AcceptDone, Unwatch
  <2>4. available' \in [Workers -> 0..Batch]
    BY <1>2 DEF SkipAccept, AcceptEvent, AcceptDone, Unwatch
  <2> QED
    BY <1>0, <2>1, <2>2, <2>3, <2>4
<1>3. CASE RunJobs(w)
  <2>1. PICK k \in 0..conns[w] :
            /\ conns' = [conns EXCEPT ![w] = @ - k]
            /\ free' = [free EXCEPT ![w] = Wrap(@ + k)]
    BY <1>3 DEF RunJobs
  <2>2. free[w] = Wrap(MaxConnects - conns[w]) /\ wpc'[w] = "top"
        /\ UNCHANGED <<backlog, disabled, available>>
        /\ \A v \in Workers \ {w} : wpc'[v] = wpc[v]
    BY <1>0, <1>3 DEF RunJobs
  <2>3. /\ conns[w] - k \in 0..MaxOpen
        /\ Wrap(free[w] + k) = Wrap(MaxConnects - (conns[w] - k))
        /\ Wrap(free[w] + k) \in 0..(UIntMod - 1)
    BY <2>2, FreeOf
  <2> QED
    BY <1>0, <2>1, <2>2, <2>3
<1>4. CASE AcceptOne(w)
  <2>1. /\ backlog' = backlog - 1 /\ backlog > 0 /\ wpc' = wpc /\ wpc[w] = "accept"
        /\ conns' = [conns EXCEPT ![w] = @ + 1]
        /\ free' = [free EXCEPT ![w] = Wrap(@ - 1)]
        /\ available' = [available EXCEPT ![w] = @ - 1] /\ available[w] > 0
        /\ disabled' = disabled /\ free[w] = Wrap(MaxConnects - conns[w])
    BY <1>4 DEF AcceptOne
  <2>2. conns[w] \in 0..MaxOpen /\ conns[w] + 1 \in 0..MaxOpen
    BY <2>1
  <2>3. /\ Wrap(free[w] - 1) = Wrap(MaxConnects - (conns[w] + 1))
        /\ Wrap(free[w] - 1) \in 0..(UIntMod - 1)
    BY <2>1, <2>2, FreeOf
  <2> QED
    BY <1>0, <2>1, <2>2, <2>3
<1> QED
  BY <1>1, <1>2, <1>3, <1>4 DEF Cycle

\* In every run each worker has counted the connections it has open.
LEMMA CreditInvariance == Spec => []CInv
<1> USE Widths DEF CInv, CreditTypes, WithinBound, FreeCountsConnections
<1>1. Init => CInv
  BY AcceptStart DEF Init, AcceptInit
<1>2. CInv /\ [Next]_vars => CInv'
  <2> SUFFICES ASSUME CInv, [Next]_vars PROVE CInv'
    OBVIOUS
  <2>0. AInv' /\ wpc \in [Workers -> Labels]
    BY AcceptStep DEF AInv, SharedOK
  <2>1. CASE UNCHANGED acceptVars
    BY <2>0, <2>1 DEF acceptVars
  <2>2. CASE Connect
    BY <2>0, <2>2 DEF Connect
  <2>3. ASSUME NEW w \in Workers, WorkerStart(w) PROVE CInv'
    <3>1. Wrap(MaxConnects - 0) = MaxConnects /\ MaxConnects \in 0..(UIntMod - 1)
          /\ Disabled(MaxConnects) \in 0..(UIntMod - 1)
      BY DisabledType DEF Wrap
    <3>2. conns[w] = 0 /\ wpc'[w] = "start" /\ \A v \in Workers \ {w} : wpc'[v] = wpc[v]
      BY <2>0, <2>3 DEF WorkerStart, Goto
    <3> QED
      BY <2>0, <2>3, <3>1, <3>2 DEF WorkerStart
  <2>4. ASSUME NEW w \in Workers, WorkerEnd(w) PROVE CInv'
    <3>1. wpc'[w] = "none" /\ \A v \in Workers \ {w} : wpc'[v] = wpc[v]
      BY <2>0, <2>4 DEF WorkerEnd, Goto
    <3> QED
      BY <2>0, <2>4, <3>1 DEF WorkerEnd
  <2> QED
    BY <2>1, <2>2, <2>3, <2>4, CreditCycle
    DEF Next, vars, MasterStepAlone, SignalMaster, Arrival, ForkWorker, EndWorker, WorkerStep
<1> QED
  BY <1>1, <1>2, PTL DEF Spec

\* The rounds a worker counts down are those it owes, and it has none left when it goes for
\* the mutex, or has the listening socket.
RoundsKept ==
    /\ due \in [Workers -> 0..MaxOpen]
    /\ \A w \in Workers :
         /\ disabled[w] = due[w]
         /\ wpc[w] \in {"try", "locked", "accept"} \/ w \in watching => disabled[w] = 0
         /\ wpc[w] = "none" => due[w] = 0

\* What is compared is the difference of two numbers that may have wrapped; it is right.
LEMMA OverloadOfFree ==
    ASSUME NEW c \in 0..MaxOpen
    PROVE  Disabled(Wrap(MaxConnects - c)) = Overload(c) /\ Overload(c) \in 0..MaxOpen
<1> DEFINE eighth == MaxConnects \div 8
<1>1. /\ eighth \in 0..MaxConnects /\ MaxConnects \in Nat /\ MaxOpen \in Nat /\ UIntMod \in Nat
      /\ UIntMod > 4 * (MaxOpen + MaxConnects)
  BY Widths, AcceptAssumption DEF AcceptAssumption
<1>2. Overload(c) = IF c > MaxConnects - eighth THEN c - (MaxConnects - eighth) ELSE 0
  BY DEF Overload
<1>3. Disabled(Wrap(MaxConnects - c)) =
        LET d == AsInt(Wrap(eighth - Wrap(MaxConnects - c))) IN IF d > 0 THEN d ELSE 0
  BY DEF Disabled
<1> HIDE DEF eighth
<1>4. AsInt(Wrap(eighth - Wrap(MaxConnects - c))) = eighth - (MaxConnects - c)
  <2>1. Wrap(MaxConnects - c) = IF c > MaxConnects THEN MaxConnects - c + UIntMod
                                ELSE MaxConnects - c
    BY <1>1 DEF Wrap
  <2>2. Wrap(eighth - Wrap(MaxConnects - c)) =
          IF eighth - (MaxConnects - c) < 0 THEN eighth - (MaxConnects - c) + UIntMod
          ELSE eighth - (MaxConnects - c)
    BY <1>1, <2>1 DEF Wrap
  <2> QED
    BY <1>1, <2>2 DEF AsInt
<1> QED
  BY <1>1, <1>2, <1>3, <1>4

\* A worker's steps keep the rounds it owes.
LEMMA RoundsCycle ==
    ASSUME CInv, RoundsKept, NEW w \in Workers, Cycle(w)
    PROVE  RoundsKept'
<1>0. /\ wpc \in [Workers -> Labels] /\ disabled \in [Workers -> 0..(UIntMod - 1)]
      /\ edge \subseteq watching /\ MaxOpen \in Nat /\ due \in [Workers -> 0..MaxOpen]
  BY Widths DEF CInv, AInv, SharedOK, CreditTypes, RoundsKept
<1> USE DEF RoundsKept, Goto
<1>1. CASE ResetHeld(w) \/ ReadHeld(w) \/ TryLock(w) \/ OtherEvent(w) \/ Unlock(w)
           \/ RunJobs(w) \/ AcceptOne(w) \/ AcceptDone(w)
  BY <1>0, <1>1 DEF ResetHeld, ReadHeld, TryLock, OtherEvent, Unlock, RunJobs, AcceptOne,
                    AcceptDone
<1>2. CASE Watch(w)
  BY <1>0, <1>2 DEF Watch
<1>3. CASE AcceptEvent(w)
  BY <1>0, <1>3 DEF AcceptEvent
<1>4. CASE SkipAccept(w)
  BY <1>0, <1>4 DEF SkipAccept
<1>5. CASE Unwatch(w)
  <2>1. conns[w] \in 0..MaxOpen /\ free[w] = Wrap(MaxConnects - conns[w])
    BY <1>5 DEF CInv, CreditTypes, FreeCountsConnections, Unwatch
  <2>2. Disabled(free[w]) = Overload(conns[w]) /\ Overload(conns[w]) \in 0..MaxOpen
    BY <2>1, OverloadOfFree
  <2> QED
    BY <1>0, <1>5, <2>2 DEF Unwatch
<1> QED
  BY <1>1, <1>2, <1>3, <1>4, <1>5 DEF Cycle

\* In every run the rounds are kept.
LEMMA RoundsInvariance == Spec => [](CInv /\ RoundsKept)
<1>1. Init => RoundsKept
  BY Widths DEF Init, AcceptInit, RoundsKept
<1>2. CInv /\ RoundsKept /\ [Next]_vars => RoundsKept'
  <2> SUFFICES ASSUME CInv, RoundsKept, [Next]_vars PROVE RoundsKept'
    OBVIOUS
  <2>0. /\ wpc \in [Workers -> Labels] /\ disabled \in [Workers -> 0..(UIntMod - 1)]
        /\ MaxOpen \in Nat /\ due \in [Workers -> 0..MaxOpen] /\ WatchOK
    BY Widths DEF CInv, AInv, SharedOK, CreditTypes, RoundsKept
  <2>1. CASE UNCHANGED acceptVars
    BY <2>1 DEF acceptVars, RoundsKept
  <2>2. CASE Connect
    BY <2>2 DEF Connect, RoundsKept
  <2>3. ASSUME NEW w \in Workers, WorkerStart(w) PROVE RoundsKept'
    <3>1. Disabled(MaxConnects) = 0
      BY OverloadOfFree, Widths DEF Overload, Wrap
    <3>2. due[w] = 0
      BY <2>3 DEF WorkerStart, RoundsKept
    <3> QED
      BY <2>0, <2>3, <3>1, <3>2 DEF WorkerStart, RoundsKept, WatchOK, Goto
  <2>4. ASSUME NEW w \in Workers, WorkerEnd(w) PROVE RoundsKept'
    BY <2>0, <2>4 DEF WorkerEnd, RoundsKept, Goto
  <2> QED
    BY <2>1, <2>2, <2>3, <2>4, RoundsCycle
    DEF Next, vars, MasterStepAlone, SignalMaster, Arrival, ForkWorker, EndWorker, WorkerStep
<1> QED
  BY <1>1, <1>2, CreditInvariance, PTL DEF Spec

\* A worker with more than seven eighths of its limit open stays away from the mutex for
\* one round for each of them, although it counts what is free in an unsigned number that a
\* batch takes below zero (worker_zoon.c:114, 124, 340).
THEOREM OverloadRespected == Spec => []OverloadSatOut
<1>1. RoundsKept => OverloadSatOut
  BY DEF RoundsKept, OverloadSatOut
<1> QED
  BY <1>1, RoundsInvariance, PTL

\* The variables of the master and of the workers keep their types.
THEOREM ServerTypeCorrect == Spec => []TypeOK
<1> SUFFICES ASSUME MTInv, CInv, RoundsKept PROVE TypeOK
  BY MasterTypes, RoundsInvariance, PTL
<1>1. num_child \in 0..Cpus /\ handle_sig_chld \in 0..Cpus
  <2>1. Cpus \in Nat
    BY MasterAssumption, ProcessesAssumption, FS_CardinalityType
    DEF MasterAssumption, ProcessesAssumption
  <2> QED
    BY <2>1, Counted DEF MTInv, MInv, ProcOK, NeverTooMany, CountedAreGone
<1>2. MasterTypeOK
  BY <1>1 DEF MTInv, MInv, ProcOK, FlagsOK, MasterTypeOK
<1>3. AcceptTypeOK
  BY DEF CInv, AInv, SharedOK, Labels, CreditTypes, RoundsKept, AcceptTypeOK
<1> QED
  BY <1>2, <1>3 DEF TypeOK
===============================================================================
