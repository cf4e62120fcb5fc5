----------------------------- MODULE TaskService -----------------------------
(***************************************************************************)
(* What the thread pool of ThreadPools/ promises its user: tasks are taken *)
(* from a bounded queue in the order in which they were accepted, at most  *)
(* MaxNum of them are in progress at a time, and each is finished once.    *)
(***************************************************************************)
EXTENDS Integers, Sequences, FiniteSets

CONSTANTS Tasks, MaxTask, MaxNum

VARIABLES waiting,    \* the accepted tasks, oldest first
          inFlight,   \* the tasks taken from the queue and not finished
          finished    \* the tasks func has returned from

serviceVars == <<waiting, inFlight, finished>>

Seen == {waiting[i] : i \in DOMAIN waiting} \cup inFlight \cup finished

Init == waiting = <<>> /\ inFlight = {} /\ finished = {}

Accept(t) ==
    /\ t \notin Seen
    /\ Len(waiting) < MaxTask
    /\ waiting' = Append(waiting, t)
    /\ UNCHANGED <<inFlight, finished>>

Take ==
    /\ waiting # <<>>
    /\ Cardinality(inFlight) < MaxNum
    /\ waiting' = Tail(waiting)
    /\ inFlight' = inFlight \cup {Head(waiting)}
    /\ UNCHANGED finished

Finish(t) ==
    /\ t \in inFlight
    /\ inFlight' = inFlight \ {t}
    /\ finished' = finished \cup {t}
    /\ UNCHANGED waiting

Next == Take \/ \E t \in Tasks : Accept(t) \/ Finish(t)

Spec == Init /\ [][Next]_serviceVars

\* The service takes what waits and finishes what it took.
Service == WF_serviceVars(Take) /\ \A t \in Tasks : WF_serviceVars(Finish(t))
===============================================================================
