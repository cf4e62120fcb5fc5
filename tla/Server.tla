--------------------------------- MODULE Server ---------------------------------
(***************************************************************************)
(* LikeNginx as a whole: the master process of Master, whose workers share *)
(* the listening socket as in Accept.  A fork starts a worker's cycle; a   *)
(* worker that ends leaves the shared memory as it was, and its signal is  *)
(* what makes the master start another.                                    *)
(***************************************************************************)
EXTENDS Master, Accept

CONSTANT EndsHoldingMutex   \* whether a process may end while it has the mutex

ASSUME ServerAssumption == EndsHoldingMutex \in BOOLEAN

vars == <<masterVars, acceptVars>>

Init == MasterInit /\ AcceptInit

ForkWorker(w) == Fork(w) /\ WorkerStart(w)

EndWorker(w) ==
    /\ EndsHoldingMutex \/ accept_mutex # w
    /\ WorkerExit(w) /\ WorkerEnd(w)

MasterStepAlone ==
    /\ MasterStep \/ \E w \in Workers : Reap(w)
    /\ UNCHANGED acceptVars

SignalMaster == (Kill \/ OtherHandler) /\ UNCHANGED acceptVars

WorkerStep(w) == Cycle(w) /\ UNCHANGED masterVars

Arrival == Connect /\ UNCHANGED masterVars

Next ==
    \/ MasterStepAlone \/ SignalMaster \/ Arrival
    \/ \E w \in Workers : ForkWorker(w) \/ EndWorker(w) \/ WorkerStep(w)

Spec == Init /\ [][Next]_vars

\* The processes are scheduled, signals are delivered, epoll_wait times out.
Fairness ==
    /\ WF_vars(MasterStepAlone \/ \E w \in Workers : ForkWorker(w))
    /\ \A w \in Workers : WF_vars(WorkerStep(w))

FairSpec == Spec /\ Fairness

-----------------------------------------------------------------------------

TypeOK == MasterTypeOK /\ AcceptTypeOK

\* As long as one worker lives on, a waiting connection gets one that accepts,
\* whatever happens to the master and to the other workers and although workers
\* with few free connections stay away (worker_zoon.c:340-346), unless one of
\* them dies with the mutex.
ServedWith(w) ==
    (backlog > 0 /\ proc[w] = "alive") ~>
        \/ \E v \in Workers : wpc[v] = "accept"
        \/ proc[w] # "alive" \/ accept_mutex = DeadOwner
Served == \A w \in Workers : ServedWith(w)

\* "worker will get lock then process accept for new connect" (main.h:23).
WorkerGetsLock ==
    (backlog > 0 /\ wpc # [w \in Workers |-> "none"]) ~>
        \/ \E w \in Workers : wpc[w] = "accept"
        \/ wpc = [w \in Workers |-> "none"]
===============================================================================
