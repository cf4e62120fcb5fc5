--------------------------- MODULE ConnectionProofs ---------------------------
(***************************************************************************)
(* Proofs about Connection: the worker's counters and its table agree with *)
(* the kernel, each connection is released once, and no edge is missed.    *)
(***************************************************************************)
EXTENDS Connection, TLAPS, FiniteSetTheorems, WellFoundedInduction

USE ConnectionAssumption DEF ConnectionAssumption

-----------------------------------------------------------------------------
(* The inductive invariant.                                                 *)

Wpcs == {"wait", "dispatch", "start", "overrun", "callback", "jobs", "machine"}

KernelOK ==
    /\ open \subseteq Fds /\ ready \subseteq watched
    /\ peer \in [Fds -> {"none", "open", "finished", "reset"}]
    /\ rcv \in [Fds -> 0..MaxRcv] /\ snd \in [Fds -> 0..SndBuf]

EntriesOK ==
    /\ state \in [Fds -> States] /\ size \in [Fds -> Nat] /\ unsent \in [Fds -> Nat]
    /\ is_readable \subseteq Fds /\ is_writable \subseteq Fds

\* Only a connection that accept has just returned is not watched yet.
TableOK ==
    /\ watched \subseteq open
    /\ open \ watched = IF wpc \in {"start", "overrun"} THEN {cur} ELSE {}
    /\ m_fds_alloc \in Nat \ {0} /\ \A fd \in watched : fd < m_fds_alloc

\* What the worker is at: it looks only at connections that are watched, and there are
\* events only while it dispatches.
WorkerOK ==
    /\ wpc \in Wpcs /\ cur \in Fds \cup {NoFd}
    /\ joblist \subseteq watched /\ todo \subseteq joblist
    /\ DOMAIN batch \subseteq watched
    /\ \A fd \in DOMAIN batch : batch[fd] \subseteq {"EPOLLIN", "EPOLLOUT", "EPOLLERR"}
    /\ wpc \in {"start", "overrun"} => state[cur] = "REQUEST_START"
    /\ wpc = "callback" => cur \in joblist
    /\ wpc = "machine" => cur \in todo
    /\ wpc \in {"wait", "jobs", "machine"} => DOMAIN batch = {}
    /\ wpc \in {"wait", "dispatch", "jobs"} => cur = NoFd

CountsOK ==
    /\ free \in Int /\ free + Cardinality(open) = Cardinality(Fds)
    /\ m_fds_used = Cardinality(watched)

ConnInv == KernelOK /\ EntriesOK /\ TableOK /\ WorkerOK /\ CountsOK

\* The states of a connection whose response is still to be written.
Unanswered == {"READ", "REQUEST_END", "HANDLE_REQUEST", "RESPONSE_START", "WRITE"}

Event(fd, ev) == fd \in ready \/ (fd \in DOMAIN batch /\ ev \in batch[fd])

\* A job the worker gets to before it waits again.
Due(fd) == fd \in joblist /\ (wpc \in {"jobs", "machine"} => fd \in todo) /\ wpc # "wait"

\* What a connection waits for has been noted in its entry, or is reported by epoll;
\* and what has been noted is acted on before the worker waits again.
EdgeKept(fd) ==
    /\ state[fd] = "READ" /\ (rcv[fd] > 0 \/ peer[fd] = "reset")
          => Event(fd, "EPOLLIN") \/ fd \in is_readable
    /\ state[fd] \in Unanswered /\ snd[fd] > 0
          => Event(fd, "EPOLLOUT") \/ fd \in is_writable
    /\ state[fd] = "READ" /\ fd \in is_readable => Due(fd)
    /\ state[fd] = "WRITE" /\ fd \in is_writable => Due(fd)
    /\ state[fd] \in {"HANDLE_REQUEST", "RESPONSE_START", "WRITE"} => size[fd] > 0

EdgeInv == \A fd \in open : EdgeKept(fd)

-----------------------------------------------------------------------------
(* Counts and the lowest descriptor.                                        *)

\* A set of natural numbers that is not empty has a least element.
LEMMA MinIsMember ==
    ASSUME NEW S \in SUBSET Nat, S # {}
    PROVE  Min(S) \in S
  <1>1. \E k \in S : \A m \in S : ~(<<m, k>> \in OpToRel(<, Nat))
    BY WFMin, NatLessThanWellFounded, Zenon
  <1>2. PICK k \in S : \A m \in S : ~(<<m, k>> \in OpToRel(<, Nat))
    BY <1>1, Zenon
  <1>3. \A m \in S : ~(m < k)
    BY <1>2, Zenon DEF OpToRel
  <1>4. \A m \in S : k <= m
    BY <1>3
  <1> QED
    BY <1>4 DEF Min

\* One more descriptor, or one less, changes the number of a set of them by one.
LEMMA OneMoreOrLess ==
    ASSUME NEW S \in SUBSET Fds, NEW fd \in Fds
    PROVE  /\ IsFiniteSet(S) /\ Cardinality(S) \in Nat
           /\ fd \notin S => Cardinality(S \cup {fd}) = Cardinality(S) + 1
           /\ fd \in S => Cardinality(S \ {fd}) = Cardinality(S) - 1
           /\ Cardinality(S) <= Cardinality(Fds) /\ Cardinality(Fds) \in Nat
  <1>1. IsFiniteSet(S) /\ Cardinality(S) <= Cardinality(Fds)
    BY FS_Subset
  <1> QED
    BY <1>1, FS_CardinalityType, FS_AddElement, FS_RemoveElement

-----------------------------------------------------------------------------
(* The counters and the table.                                              *)

\* Nothing is open to begin with.
LEMMA ConnStart == Init => ConnInv
  <1> SUFFICES ASSUME Init PROVE ConnInv
    OBVIOUS
  <1>1. Cardinality({}) = 0 /\ Cardinality(Fds) \in Nat
    BY FS_EmptySet, FS_CardinalityType
  <1>2. DOMAIN batch = {}
    BY DEF Init
  <1> QED
    BY <1>1, <1>2 DEF Init, ConnInv, KernelOK, EntriesOK, TableOK, WorkerOK, CountsOK, States, Wpcs, NoFd

\* What a client does reaches a connection that is open, and the ready list only if it is
\* watched.
LEMMA ClientKeepsConn ==
    ASSUME ConnInv, NEW fd \in Fds,
           PeerSend(fd) \/ PeerFinish(fd) \/ PeerReset(fd) \/ PeerDrain(fd)
    PROVE  ConnInv'
  <1>1. /\ UNCHANGED <<open, entryVars, tableVars, joblist, free, wpc, batch, todo, cur, unsent>>
        /\ ready' \subseteq ready \cup ({fd} \cap watched)
    BY DEF PeerSend, PeerFinish, PeerReset, PeerDrain, ClientActs
  <1>2. /\ peer' \in [Fds -> {"none", "open", "finished", "reset"}]
        /\ rcv' \in [Fds -> 0..MaxRcv] /\ snd' \in [Fds -> 0..SndBuf]
    BY DEF ConnInv, KernelOK, PeerSend, PeerFinish, PeerReset, PeerDrain
  <1>3. KernelOK'
    BY <1>1, <1>2 DEF ConnInv, KernelOK, tableVars
  <1> QED
    BY <1>1, <1>3 DEF ConnInv, EntriesOK, TableOK, WorkerOK, CountsOK, entryVars, tableVars

\* The steps of the worker that open, watch or close no connection.
Quiet == UNCHANGED <<open, watched, m_fds_used, m_fds_alloc, free>>

\* Such a step keeps what is counted.
LEMMA QuietFrame ==
    ASSUME ConnInv, Quiet, KernelOK', EntriesOK', WorkerOK', wpc \notin {"start", "overrun"},
           wpc' \notin {"start", "overrun"}
    PROVE  ConnInv'
  BY DEF ConnInv, Quiet, TableOK, CountsOK

\* How a round of the machine or of the callback ends: the job is left when the state
\* stays.
LEMMA RoundEnds ==
    ASSUME ConnInv, NEW st \in States, EndRound(st), wpc \in {"callback", "machine"},
           UNCHANGED <<watched, joblist>>
    PROVE  /\ WorkerOK' /\ wpc' \notin {"start", "overrun"}
           /\ state' \in [Fds -> States] /\ state'[cur] = st
           /\ \A fd \in Fds \ {cur} : state'[fd] = state[fd]
  <1> USE DEF ConnInv, WorkerOK, EntriesOK, TableOK, KernelOK
  <1>1. cur \in Fds /\ cur \in joblist
    OBVIOUS
  <1>2. /\ state' \in [Fds -> States] /\ state'[cur] = st
        /\ \A fd \in Fds \ {cur} : state'[fd] = state[fd]
    BY <1>1 DEF EndRound
  <1>3. CASE wpc = "callback"
    BY <1>2, <1>3 DEF EndRound, Wpcs
  <1>4. CASE wpc = "machine"
    <2>1. batch' = batch /\ DOMAIN batch = {}
      BY <1>4 DEF EndRound
    <2>2. CASE st # state[cur]
      <3>1. UNCHANGED <<wpc, cur, todo, joblist, watched>>
        BY <1>4, <2>2 DEF EndRound
      <3> QED
        BY <1>2, <1>4, <2>1, <3>1
    <2>3. CASE st = state[cur]
      <3>1. wpc' = "jobs" /\ cur' = NoFd /\ todo' = todo \ {cur}
        BY <1>4, <2>3 DEF EndRound
      <3> QED
        BY <1>2, <2>1, <3>1 DEF Wpcs
    <2> QED
      BY <2>2, <2>3
  <1> QED
    BY <1>2, <1>3, <1>4

\* What the worker does keeps the counters and the table.
LEMMA WorkerKeepsConn ==
    ASSUME ConnInv, WorkerStep \/ AcceptNew
    PROVE  ConnInv'
  <1> USE DEF ConnInv
  <1>1. CASE EpollWait
    <2>1. KernelOK' /\ EntriesOK'
      BY <1>1 DEF EpollWait, KernelOK, EntriesOK, entryVars, tableVars
    <2>2. WorkerOK'
      BY <1>1 DEF EpollWait, WorkerOK, KernelOK, Events, tableVars, entryVars, Wpcs
    <2> QED
      BY <1>1, <2>1, <2>2, QuietFrame DEF EpollWait, Quiet, tableVars
  <1>2. CASE AcceptNew
    <2> DEFINE fd == Min(Fds \ open)
    <2>1. fd \in Fds \ open
      BY <1>2, MinIsMember DEF AcceptNew
    <2>2. /\ cur' = fd /\ open' = open \cup {fd} /\ wpc = "dispatch" /\ wpc' \in {"start", "overrun"}
          /\ free' = free - 1 /\ state' = [state EXCEPT ![fd] = "REQUEST_START"]
          /\ peer' = [peer EXCEPT ![fd] = "open"]
          /\ rcv' = [rcv EXCEPT ![fd] = 0] /\ snd' = [snd EXCEPT ![fd] = SndBuf]
          /\ UNCHANGED <<ready, size, is_readable, is_writable, watched, m_fds_used, m_fds_alloc,
                         joblist, batch, todo, unsent>>
      BY <1>2 DEF AcceptNew, tableVars
    <2> HIDE DEF fd
    <2>3. KernelOK'
      BY <2>1, <2>2 DEF KernelOK
    <2>4. EntriesOK'
      BY <2>1, <2>2 DEF EntriesOK, States
    <2>5. TableOK'
      BY <2>1, <2>2 DEF TableOK
    <2>6. WorkerOK'
      BY <2>1, <2>2 DEF WorkerOK, Wpcs, EntriesOK
    <2>7. CountsOK'
      <3>1. Cardinality(open') = Cardinality(open) + 1 /\ Cardinality(open) \in Nat
        BY <2>1, <2>2, OneMoreOrLess DEF KernelOK
      <3>2. Cardinality(Fds) \in Nat
        BY FS_CardinalityType
      <3> QED
        BY <2>2, <3>1, <3>2 DEF CountsOK
    <2> QED
      BY <2>3, <2>4, <2>5, <2>6, <2>7
  <1>3. CASE StartConnection
    <2>1. cur \in open /\ cur \notin watched /\ cur \in Fds /\ state[cur] = "REQUEST_START"
      BY <1>3 DEF StartConnection, TableOK, WorkerOK, KernelOK
    <2>2. KernelOK'
      BY <1>3, <2>1 DEF StartConnection, KernelOK, TableOK, Least
    <2>3. EntriesOK'
      BY <1>3, <2>1 DEF StartConnection, EntriesOK, States
    <2>4. m_fds_alloc' \in Nat \ {0} /\ m_fds_alloc <= m_fds_alloc' /\ cur < m_fds_alloc'
      BY <1>3, <2>1 DEF StartConnection, Grow, TableOK
    <2>5. TableOK'
      BY <1>3, <2>1, <2>4 DEF StartConnection, TableOK, KernelOK
    <2>6. WorkerOK'
      BY <1>3, <2>1 DEF StartConnection, WorkerOK, Wpcs
    <2>7. CountsOK'
      <3>1. Cardinality(watched') = Cardinality(watched) + 1
        BY <1>3, <2>1, OneMoreOrLess DEF StartConnection, KernelOK, TableOK
      <3> QED
        BY <1>3, <3>1 DEF StartConnection, CountsOK
    <2> QED
      BY <2>2, <2>3, <2>5, <2>6, <2>7
  <1>4. CASE CallbackIdle \/ DispatchEnd \/ JobsEnd
    <2>1. KernelOK' /\ EntriesOK' /\ Quiet /\ {wpc, wpc'} \cap {"start", "overrun"} = {}
      BY <1>4 DEF CallbackIdle, DispatchEnd, JobsEnd, KernelOK, EntriesOK, Quiet, kernelVars, entryVars,
                  tableVars
    <2>2. WorkerOK'
      BY <1>4 DEF CallbackIdle, DispatchEnd, JobsEnd, WorkerOK, Wpcs, kernelVars, entryVars, tableVars
    <2> QED
      BY <2>1, <2>2, QuietFrame
  <1>5. CASE NextJob
    <2>1. Min(todo) \in todo
      BY <1>5, MinIsMember DEF NextJob, WorkerOK, KernelOK, TableOK
    <2>2. KernelOK' /\ EntriesOK' /\ Quiet /\ {wpc, wpc'} \cap {"start", "overrun"} = {}
      BY <1>5 DEF NextJob, KernelOK, EntriesOK, Quiet, kernelVars, entryVars, tableVars
    <2>3. WorkerOK'
      BY <1>5, <2>1 DEF NextJob, WorkerOK, Wpcs, KernelOK, TableOK, kernelVars, entryVars, tableVars
    <2> QED
      BY <2>2, <2>3, QuietFrame
  <1>6. ASSUME NEW fd \in Fds, IOCallback(fd) PROVE ConnInv'
    <2>1. KernelOK' /\ EntriesOK' /\ Quiet /\ {wpc, wpc'} \cap {"start", "overrun"} = {}
      BY <1>6 DEF IOCallback, KernelOK, EntriesOK, Quiet, kernelVars, tableVars, States
    <2>2. WorkerOK'
      BY <1>6 DEF IOCallback, WorkerOK, Wpcs, kernelVars, tableVars
    <2> QED
      BY <2>1, <2>2, QuietFrame
  <1>7. CASE ReadRequest \/ HandleRequest \/ Advance \/ WriteResponse \/ ErrorIgnored
    <2>1. cur \in Fds /\ wpc \in {"callback", "machine"}
      BY <1>7 DEF ReadRequest, HandleRequest, Advance, WriteResponse, ErrorIgnored, InMachine, WorkerOK,
                  TableOK, KernelOK
    <2>2. \E st \in States : EndRound(st)
      BY <1>7 DEF ReadRequest, HandleRequest, Advance, WriteResponse, ErrorIgnored, States
    <2>3. Quiet /\ UNCHANGED joblist /\ UNCHANGED <<open, peer, ready>>
      BY <1>7 DEF ReadRequest, HandleRequest, Advance, WriteResponse, ErrorIgnored, Quiet, kernelVars,
                  tableVars
    <2>4. WorkerOK' /\ wpc' \notin {"start", "overrun"} /\ state' \in [Fds -> States]
      BY <2>1, <2>2, <2>3, RoundEnds DEF Quiet
    <2>5. rcv' \in [Fds -> 0..MaxRcv]
      BY <1>7, <2>1 DEF ReadRequest, HandleRequest, Advance, WriteResponse, ErrorIgnored, KernelOK, Least,
                        kernelVars
    <2>6. snd' \in [Fds -> 0..SndBuf]
      BY <1>7, <2>1 DEF ReadRequest, HandleRequest, Advance, WriteResponse, ErrorIgnored, KernelOK, Least,
                        EntriesOK, kernelVars
    <2>7. size' \in [Fds -> Nat] /\ unsent' \in [Fds -> Nat]
      BY <1>7, <2>1 DEF ReadRequest, HandleRequest, Advance, WriteResponse, ErrorIgnored, KernelOK, Least,
                        EntriesOK
    <2>8. is_readable' \subseteq is_readable /\ is_writable' \subseteq is_writable
      BY <1>7 DEF ReadRequest, HandleRequest, Advance, WriteResponse, ErrorIgnored
    <2>9. KernelOK' /\ EntriesOK'
      BY <2>3, <2>4, <2>5, <2>6, <2>7, <2>8 DEF KernelOK, EntriesOK, Quiet
    <2> QED
      BY <2>1, <2>3, <2>4, <2>9, QuietFrame
  <1>8. CASE Release
    <2>1. cur \in todo /\ cur \in joblist /\ cur \in watched /\ cur \in open /\ cur \in Fds
          /\ wpc = "machine" /\ state[cur] = "CLOSE"
      BY <1>8 DEF Release, InMachine, WorkerOK, TableOK, KernelOK
    <2>2. /\ state' = [state EXCEPT ![cur] = "CLOSE"] /\ wpc' = "jobs" /\ cur' = NoFd
          /\ todo' = todo \ {cur} /\ batch' = batch
          /\ free' = free + 1 /\ watched' = watched \ {cur} /\ m_fds_used' = m_fds_used - 1
          /\ open' = open \ {cur} /\ ready' = ready \ {cur}
          /\ peer' = [peer EXCEPT ![cur] = "none"] /\ joblist' = joblist \ {cur}
          /\ UNCHANGED <<rcv, snd, size, is_readable, is_writable, m_fds_alloc, unsent>>
      BY <1>8, <2>1 DEF Release, EndRound
    <2>3. KernelOK' /\ EntriesOK'
      BY <2>1, <2>2 DEF KernelOK, EntriesOK, States
    <2>4. TableOK'
      BY <2>1, <2>2 DEF TableOK
    <2>5. WorkerOK'
      BY <2>1, <2>2 DEF WorkerOK, Wpcs
    <2>6. CountsOK'
      <3>1. /\ Cardinality(watched') = Cardinality(watched) - 1
            /\ Cardinality(open') = Cardinality(open) - 1
            /\ Cardinality(open) \in Nat /\ Cardinality(Fds) \in Nat
        BY <2>1, <2>2, OneMoreOrLess DEF KernelOK, TableOK
      <3> QED
        BY <2>2, <3>1 DEF CountsOK
    <2> QED
      BY <2>3, <2>4, <2>5, <2>6
  <1> QED
    BY <1>1, <1>2, <1>3, <1>4, <1>5, <1>6, <1>7, <1>8 DEF WorkerStep

\* The worker the master starts instead has nothing open.
LEMMA ReplacedConn ==
    ASSUME ConnInv, Replaced
    PROVE  ConnInv'
  <1>1. Cardinality({}) = 0 /\ Cardinality(Fds) \in Nat
    BY FS_EmptySet, FS_CardinalityType
  <1>2. DOMAIN batch' = {}
    BY DEF Replaced
  <1> QED
    BY <1>1, <1>2 DEF Replaced, ConnInv, KernelOK, EntriesOK, TableOK, WorkerOK, CountsOK, States, Wpcs,
                      NoFd

\* Every step keeps the counters and the table.
LEMMA StepKeepsConn == ConnInv /\ [Next]_vars => ConnInv'
  <1> SUFFICES ASSUME ConnInv, [Next]_vars PROVE ConnInv'
    OBVIOUS
  <1>1. CASE UNCHANGED vars
    BY <1>1 DEF ConnInv, KernelOK, EntriesOK, TableOK, WorkerOK, CountsOK, vars, kernelVars, entryVars,
                tableVars
  <1> QED
    BY <1>1, WorkerKeepsConn, ReplacedConn, ClientKeepsConn DEF Next

\* Types, and what goes with them, hold in every reachable state.
THEOREM ConnInvariance == Spec => []ConnInv
  BY ConnStart, StepKeepsConn, PTL DEF Spec

\* Every connection is released exactly once: the worker's count of free connections and
\* the connections that are open make up the total.
THEOREM EachReleasedOnce == Spec => []ReleasedOnce
  <1>1. ConnInv => ReleasedOnce
    BY DEF ConnInv, CountsOK, ReleasedOnce
  <1> QED
    BY <1>1, ConnInvariance, PTL

\* The table of descriptors agrees with the epoll set, a batch of events names only
\* descriptors that are watched, and while the worker's memory is its own nothing but the
\* accept callback, which runs before gs_sys_epoll_add, touches an entry beyond the table.
THEOREM TableAgrees == Spec => []TableConsistent
  <1> SUFFICES ASSUME ConnInv PROVE TableConsistent
    BY ConnInvariance, PTL
  <1>1. free \in 0..Cardinality(Fds) /\ Cardinality(watched) \in Nat
    <2>1. /\ Cardinality(open) \in Nat /\ Cardinality(open) <= Cardinality(Fds)
          /\ Cardinality(Fds) \in Nat /\ Cardinality(watched) \in Nat
      BY OneMoreOrLess DEF ConnInv, KernelOK, TableOK
    <2> QED
      BY <2>1 DEF ConnInv, CountsOK
  <1>2. Intact => watched = open \ (IF wpc = "start" THEN {cur} ELSE {})
    BY DEF ConnInv, TableOK, Intact
  <1>3. ASSUME Intact, NEW fd \in watched \cup {cur}, fd >= m_fds_alloc
        PROVE  fd = cur /\ wpc = "start"
    <2>1. fd \notin watched /\ m_fds_alloc \in Nat \ {0}
      BY <1>3 DEF ConnInv, TableOK, KernelOK
    <2>2. cur \in Fds \cup {NoFd} /\ cur \notin watched /\ wpc \in Wpcs
      BY <2>1 DEF ConnInv, WorkerOK
    <2>3. wpc \notin {"callback", "machine"}
      BY <2>2 DEF ConnInv, WorkerOK
    <2>4. wpc \notin {"wait", "dispatch", "jobs"}
      BY <1>3, <2>1, <2>2 DEF ConnInv, WorkerOK, NoFd
    <2> QED
      BY <1>3, <2>1, <2>2, <2>3, <2>4 DEF Wpcs, Intact
  <1>4. TypeOK
    BY <1>1 DEF ConnInv, KernelOK, EntriesOK, TableOK, WorkerOK, CountsOK, TypeOK, Wpcs
  <1> QED
    BY <1>2, <1>4, <1>3 DEF ConnInv, CountsOK, WorkerOK, TableConsistent

-----------------------------------------------------------------------------
(* Edges.                                                                   *)

\* What a client does is an edge, or changes nothing the worker waits for.
LEMMA ClientKeepsEdges ==
    ASSUME ConnInv, EdgeInv, NEW c \in Fds,
           PeerSend(c) \/ PeerFinish(c) \/ PeerReset(c) \/ PeerDrain(c)
    PROVE  EdgeInv'
  <1> SUFFICES ASSUME NEW fd \in open' PROVE EdgeKept(fd)'
    BY DEF EdgeInv
  <1>1. /\ UNCHANGED <<open, entryVars, tableVars, joblist, free, wpc, batch, todo, cur, unsent>>
        /\ c \in open
    BY DEF PeerSend, PeerFinish, PeerReset, PeerDrain, ClientActs
  <1>2. EdgeKept(fd) /\ fd \in Fds
    BY <1>1 DEF EdgeInv, ConnInv, KernelOK
  <1>3. ready \subseteq ready'
    BY DEF PeerSend, PeerFinish, PeerReset, PeerDrain
  <1>4. CASE fd # c
    <2>1. rcv'[fd] = rcv[fd] /\ snd'[fd] = snd[fd] /\ peer'[fd] = peer[fd]
      BY <1>2, <1>4 DEF PeerSend, PeerFinish, PeerReset, PeerDrain, ConnInv, KernelOK
    <2> QED
      BY <1>1, <1>2, <1>3, <2>1 DEF EdgeKept, Event, Due, entryVars
  <1>5. CASE fd = c /\ fd \notin watched
    <2>1. state[fd] = "REQUEST_START"
      BY <1>1, <1>5 DEF ConnInv, TableOK, WorkerOK
    <2> QED
      BY <1>1, <2>1 DEF EdgeKept, Unanswered, entryVars
  <1>6. CASE fd = c /\ fd \in watched
    <2>1. \/ fd \in ready'
          \/ snd[fd] > 0 /\ rcv'[fd] = rcv[fd] /\ peer'[fd] = peer[fd]
      BY <1>2, <1>6 DEF PeerSend, PeerFinish, PeerReset, PeerDrain, ConnInv, KernelOK
    <2>2. CASE fd \in ready'
      BY <1>1, <1>2, <2>2 DEF EdgeKept, Event, Due, entryVars
    <2>3. CASE snd[fd] > 0 /\ rcv'[fd] = rcv[fd] /\ peer'[fd] = peer[fd]
      BY <1>1, <1>2, <1>3, <2>3 DEF EdgeKept, Event, Due, entryVars
    <2> QED
      BY <2>1, <2>2, <2>3
  <1> QED
    BY <1>4, <1>5, <1>6

\* A connection the worker's step is not about keeps what is noted and what is due.
LEMMA OthersKeepEdges ==
    ASSUME NEW fd, EdgeKept(fd), wpc # "wait", wpc' # "wait",
           state'[fd] = state[fd], rcv'[fd] = rcv[fd], snd'[fd] = snd[fd], peer'[fd] = peer[fd],
           size'[fd] = size[fd],
           fd \in is_readable' <=> fd \in is_readable, fd \in is_writable' <=> fd \in is_writable,
           fd \in ready => fd \in ready',
           fd \in DOMAIN batch => fd \in DOMAIN batch' /\ batch'[fd] = batch[fd],
           fd \in joblist => fd \in joblist',
           wpc' \in {"jobs", "machine"} => \/ fd \in joblist => fd \in todo'
                                           \/ /\ wpc \in {"jobs", "machine"}
                                              /\ fd \in todo => fd \in todo'
    PROVE  EdgeKept(fd)'
  BY DEF EdgeKept, Event, Due

\* What the worker does forgets no edge: what it clears it has acted on.
LEMMA WorkerKeepsEdges ==
    ASSUME ConnInv, EdgeInv, ConnInv', WorkerStep \/ AcceptNew
    PROVE  EdgeInv'
  <1> SUFFICES ASSUME NEW fd \in open' PROVE EdgeKept(fd)'
    BY DEF EdgeInv
  <1>0. fd \in Fds /\ (fd \in open => EdgeKept(fd))
    BY DEF EdgeInv, ConnInv, KernelOK
  <1>1. CASE EpollWait
    <2>1. /\ UNCHANGED <<open, peer, rcv, snd, entryVars, joblist>> /\ wpc' = "dispatch"
          /\ wpc = "wait" /\ EdgeKept(fd)
          /\ batch' = [g \in {f \in ready : Events(f) # {}} |-> Events(g)]
      BY <1>0, <1>1 DEF EpollWait
    <2>2. DOMAIN batch = {}
      BY <2>1 DEF ConnInv, WorkerOK
    <2>3. \A ev : Event(fd, ev) => fd \in ready
      BY <2>2 DEF Event
    <2>4. \A ev : fd \in ready /\ ev \in Events(fd) => Event(fd, ev)'
      BY <2>1 DEF Event
    <2>5. /\ rcv[fd] > 0 \/ peer[fd] = "reset" => "EPOLLIN" \in Events(fd)
          /\ snd[fd] > 0 => "EPOLLOUT" \in Events(fd)
      BY DEF Events
    <2> QED
      BY <2>1, <2>3, <2>4, <2>5 DEF EdgeKept, Due, entryVars
  <1>2. CASE AcceptNew
    <2>1. PICK n \in Fds \ open :
            /\ wpc = "dispatch" /\ wpc' \in {"start", "overrun"} /\ open' = open \cup {n}
            /\ peer' = [peer EXCEPT ![n] = "open"]
            /\ rcv' = [rcv EXCEPT ![n] = 0] /\ snd' = [snd EXCEPT ![n] = SndBuf]
            /\ state' = [state EXCEPT ![n] = "REQUEST_START"]
            /\ UNCHANGED <<ready, size, is_readable, is_writable, joblist, batch, todo>>
      BY <1>2, MinIsMember DEF AcceptNew
    <2>2. CASE fd = n
      BY <1>0, <2>1, <2>2 DEF ConnInv, EntriesOK, EdgeKept, Unanswered
    <2>3. CASE fd # n
      <3>1. state'[fd] = state[fd] /\ rcv'[fd] = rcv[fd] /\ snd'[fd] = snd[fd] /\ peer'[fd] = peer[fd]
        BY <1>0, <2>1, <2>3 DEF ConnInv, EntriesOK, KernelOK
      <3> QED
        BY <1>0, <2>1, <2>3, <3>1, OthersKeepEdges
    <2> QED
      BY <2>2, <2>3
  <1>3. CASE StartConnection
    <2>1. EdgeKept(fd) /\ cur \in Fds /\ wpc = "start" /\ wpc' = "dispatch"
      BY <1>0, <1>3 DEF StartConnection, ConnInv, WorkerOK, TableOK, KernelOK
    <2>2. CASE fd = cur
      <3>1. fd \in ready' /\ fd \notin is_readable' /\ fd \notin is_writable' /\ state'[fd] = "READ"
        BY <1>0, <1>3, <2>2 DEF StartConnection, ConnInv, EntriesOK
      <3> QED
        BY <3>1 DEF EdgeKept, Event
    <2>3. CASE fd # cur
      <3>1. /\ state'[fd] = state[fd] /\ rcv'[fd] = rcv[fd] /\ snd'[fd] = snd[fd]
            /\ peer'[fd] = peer[fd] /\ size'[fd] = size[fd]
        BY <1>0, <1>3, <2>3 DEF StartConnection, ConnInv, EntriesOK, KernelOK
      <3>2. /\ fd \in is_readable' <=> fd \in is_readable
            /\ fd \in is_writable' <=> fd \in is_writable
            /\ fd \in ready => fd \in ready'
            /\ UNCHANGED <<batch, joblist>>
        BY <1>3, <2>3 DEF StartConnection
      <3> QED
        BY <2>1, <3>1, <3>2, OthersKeepEdges
    <2> QED
      BY <2>2, <2>3
  <1>4. CASE CallbackIdle \/ DispatchEnd \/ NextJob
    <2>1. /\ UNCHANGED <<kernelVars, entryVars, joblist, batch>>
          /\ wpc # "wait" /\ wpc' # "wait" /\ open' = open
          /\ wpc' \in {"jobs", "machine"} => \/ todo' = joblist
                                             \/ wpc \in {"jobs", "machine"} /\ todo' = todo
      BY <1>4 DEF CallbackIdle, DispatchEnd, NextJob, kernelVars
    <2> QED
      BY <1>0, <2>1, OthersKeepEdges DEF kernelVars, entryVars
  <1>5. CASE JobsEnd
    <2>1. ~Due(fd) /\ UNCHANGED <<kernelVars, entryVars, batch, open>>
      BY <1>5 DEF JobsEnd, Due, kernelVars
    <2> QED
      BY <1>0, <2>1 DEF EdgeKept, Event, kernelVars, entryVars
  <1>6. ASSUME NEW n \in Fds, IOCallback(n) PROVE EdgeKept(fd)'
    <2>1. /\ wpc = "dispatch" /\ wpc' = "callback" /\ n \in DOMAIN batch
          /\ UNCHANGED <<open, peer, rcv, snd, ready, size, todo>>
          /\ joblist' = joblist \cup {n}
          /\ batch' = [f \in DOMAIN batch \ {n} |-> batch[f]]
          /\ is_readable' = is_readable \cup (IF "EPOLLIN" \in batch[n] THEN {n} ELSE {})
          /\ is_writable' = is_writable \cup (IF "EPOLLOUT" \in batch[n] THEN {n} ELSE {})
          /\ state' = IF "EPOLLERR" \in batch[n] THEN [state EXCEPT ![n] = "ERROR"] ELSE state
      BY <1>6 DEF IOCallback, kernelVars
    <2>2. CASE fd = n
      <3>1. state'[fd] \in {state[fd], "ERROR"}
        BY <1>0, <2>1, <2>2 DEF ConnInv, EntriesOK
      <3>2. Due(fd)'
        BY <2>1, <2>2 DEF Due
      <3>3. /\ Event(fd, "EPOLLIN") => fd \in ready' \/ fd \in is_readable'
            /\ Event(fd, "EPOLLOUT") => fd \in ready' \/ fd \in is_writable'
        BY <2>1, <2>2 DEF Event
      <3>4. \A ev : fd \in ready' => Event(fd, ev)'
        BY DEF Event
      <3>5. is_readable \subseteq is_readable' /\ is_writable \subseteq is_writable'
        BY <2>1
      <3> QED
        BY <1>0, <2>1, <3>1, <3>2, <3>3, <3>4, <3>5 DEF EdgeKept, Unanswered
    <2>3. CASE fd # n
      <3>1. state'[fd] = state[fd]
        BY <1>0, <2>1, <2>3 DEF ConnInv, EntriesOK
      <3>2. fd \in DOMAIN batch => fd \in DOMAIN batch' /\ batch'[fd] = batch[fd]
        BY <2>1, <2>3
      <3>3. /\ fd \in is_readable' <=> fd \in is_readable
            /\ fd \in is_writable' <=> fd \in is_writable
        BY <2>1, <2>3
      <3> QED
        BY <1>0, <2>1, <3>1, <3>2, <3>3, OthersKeepEdges
    <2> QED
      BY <2>2, <2>3
  <1>7. CASE ReadRequest \/ HandleRequest \/ Advance \/ WriteResponse \/ ErrorIgnored \/ Release
    <2>1. /\ wpc \in {"callback", "machine"} /\ cur \in Fds /\ cur \in joblist
          /\ wpc = "machine" => cur \in todo
      BY <1>7 DEF ReadRequest, HandleRequest, Advance, WriteResponse, ErrorIgnored, Release, InMachine,
                  ConnInv, WorkerOK, TableOK, KernelOK
    <2>2. PICK st \in States : EndRound(st)
      BY <1>7 DEF ReadRequest, HandleRequest, Advance, WriteResponse, ErrorIgnored, Release, States
    <2>3. /\ state' = [state EXCEPT ![cur] = st] /\ batch' = batch
          /\ wpc' \in {"dispatch", "callback", "machine", "jobs"}
          /\ wpc = "callback" => wpc' = "dispatch"
          /\ wpc' \in {"jobs", "machine"} =>
                wpc = "machine" /\ \A f \in todo \ {cur} : f \in todo'
          /\ wpc' = "machine" => todo' = todo
          /\ wpc = "machine" /\ st # state[cur] => wpc' = "machine"
      BY <2>1, <2>2 DEF EndRound
    <2>4. CASE fd # cur
      <3>1. state'[fd] = state[fd]
        BY <1>0, <2>3, <2>4 DEF ConnInv, EntriesOK
      <3>2. /\ rcv'[fd] = rcv[fd] /\ snd'[fd] = snd[fd] /\ peer'[fd] = peer[fd] /\ size'[fd] = size[fd]
            /\ fd \in open
        BY <1>0, <1>7, <2>4 DEF ReadRequest, HandleRequest, Advance, WriteResponse, ErrorIgnored, Release,
                  ConnInv, EntriesOK, KernelOK, kernelVars
      <3>3. /\ fd \in is_readable' <=> fd \in is_readable
            /\ fd \in is_writable' <=> fd \in is_writable
        BY <1>7, <2>4 DEF ReadRequest, HandleRequest, Advance, WriteResponse, ErrorIgnored, Release
      <3>4. (fd \in ready => fd \in ready') /\ (fd \in joblist => fd \in joblist')
        BY <1>7, <2>4 DEF ReadRequest, HandleRequest, Advance, WriteResponse, ErrorIgnored, Release,
                  kernelVars
      <3> QED
        BY <1>0, <2>1, <2>3, <2>4, <3>1, <3>2, <3>3, <3>4, OthersKeepEdges
    <2>5. CASE fd = cur /\ ReadRequest
      <3> DEFINE n == IF cur \in is_readable THEN Least(rcv[cur], BufLen) ELSE 0
                 fails == cur \in is_readable /\ n < BufLen /\ peer[cur] = "reset"
      <3>1. /\ state[fd] = "READ" /\ EdgeKept(fd)
            /\ rcv' = [rcv EXCEPT ![cur] = @ - n]
            /\ size' = IF cur \in is_readable THEN [size EXCEPT ![cur] = n] ELSE size
            /\ is_readable' = is_readable \ {cur}
            /\ EndRound(IF n > 0 THEN "REQUEST_END" ELSE IF fails THEN "ERROR" ELSE "READ")
            /\ UNCHANGED <<open, peer, snd, ready, is_writable, joblist>>
        BY <1>0, <2>5 DEF ReadRequest
      <3>2. state'[fd] = IF n > 0 THEN "REQUEST_END" ELSE IF fails THEN "ERROR" ELSE "READ"
        BY <1>0, <2>5, <3>1 DEF EndRound, ConnInv, EntriesOK
      <3>3. n = 0 /\ ~fails /\ fd \in is_readable => rcv[fd] = 0 /\ peer[fd] # "reset"
        BY <1>0, <2>5 DEF Least, ConnInv, KernelOK
      <3>4. n = 0 => rcv'[fd] = rcv[fd]
        BY <1>0, <2>5, <3>1 DEF ConnInv, KernelOK
      <3>5. \A ev : Event(fd, ev)' <=> Event(fd, ev)
        BY <2>3, <3>1 DEF Event
      <3>6. fd \notin is_readable'
        BY <2>5, <3>1
      <3>7. CASE state'[fd] = "READ"
        <4>1. n \in Nat
          BY <1>0, <2>5 DEF Least, ConnInv, KernelOK
        <4>2. n = 0 /\ ~fails
          BY <3>2, <3>7, <4>1
        <4> HIDE DEF n, fails
        <4> QED
          BY <3>1, <3>3, <3>4, <3>5, <3>6, <3>7, <4>2 DEF EdgeKept, Unanswered
      <3>8. CASE state'[fd] # "READ"
        <4>1. state'[fd] \in {"REQUEST_END", "ERROR"}
          BY <3>2, <3>8
        <4> HIDE DEF n, fails
        <4> QED
          BY <3>1, <3>5, <4>1 DEF EdgeKept, Unanswered
      <3> QED
        BY <3>7, <3>8
    <2>6. CASE fd = cur /\ HandleRequest
      <3>1. /\ state[fd] = "REQUEST_END" /\ state'[fd] = "HANDLE_REQUEST" /\ EdgeKept(fd)
            /\ size'[fd] > 0
            /\ UNCHANGED <<open, peer, rcv, snd, ready, is_readable, is_writable, joblist>>
        BY <1>0, <2>6 DEF HandleRequest, EndRound, InMachine, ConnInv, EntriesOK, kernelVars
      <3>2. \A ev : Event(fd, ev)' <=> Event(fd, ev)
        BY <2>3, <3>1 DEF Event
      <3> QED
        BY <3>1, <3>2 DEF EdgeKept, Unanswered
    <2>7. CASE fd = cur /\ Advance
      <3>1. /\ <<state[fd], state'[fd]>> \in {<<"HANDLE_REQUEST", "RESPONSE_START">>,
                                              <<"RESPONSE_START", "WRITE">>,
                                              <<"RESPONSE_END", "CLOSE">>}
            /\ EdgeKept(fd) /\ wpc' = "machine" /\ wpc = "machine"
            /\ UNCHANGED <<open, peer, rcv, snd, ready, is_readable, is_writable, joblist, size>>
        BY <1>0, <2>7 DEF Advance, EndRound, InMachine, ConnInv, EntriesOK, kernelVars
      <3>2. \A ev : Event(fd, ev)' <=> Event(fd, ev)
        BY <2>3, <3>1 DEF Event
      <3>3. Due(fd)'
        BY <2>1, <2>3, <2>7, <3>1 DEF Due
      <3> QED
        BY <3>1, <3>2, <3>3 DEF EdgeKept, Unanswered
    <2>8. CASE fd = cur /\ WriteResponse
      <3> DEFINE k == IF cur \in is_writable /\ peer[cur] # "reset" THEN Least(size[cur], snd[cur]) ELSE 0
                 fails == cur \in is_writable /\ peer[cur] = "reset"
      <3>1. /\ state[fd] = "WRITE" /\ EdgeKept(fd)
            /\ snd' = [snd EXCEPT ![cur] = @ - k]
            /\ is_writable' = is_writable \ {cur}
            /\ EndRound(IF k > 0 THEN "RESPONSE_END" ELSE IF fails THEN "ERROR" ELSE "WRITE")
            /\ UNCHANGED <<open, peer, rcv, ready, size, is_readable, joblist>>
        BY <1>0, <2>8 DEF WriteResponse
      <3>2. state'[fd] = IF k > 0 THEN "RESPONSE_END" ELSE IF fails THEN "ERROR" ELSE "WRITE"
        BY <1>0, <2>8, <3>1 DEF EndRound, ConnInv, EntriesOK
      <3>3. k = 0 /\ ~fails /\ fd \in is_writable => snd[fd] = 0
        BY <1>0, <2>8, <3>1 DEF Least, ConnInv, KernelOK, EntriesOK, EdgeKept
      <3>4. k = 0 => snd'[fd] = snd[fd]
        BY <1>0, <2>8, <3>1 DEF ConnInv, KernelOK
      <3>5. \A ev : Event(fd, ev)' <=> Event(fd, ev)
        BY <2>3, <3>1 DEF Event
      <3>6. fd \notin is_writable'
        BY <2>8, <3>1
      <3>7. CASE state'[fd] = "WRITE"
        <4>1. k \in Nat
          BY <1>0, <2>8 DEF Least, ConnInv, KernelOK, EntriesOK
        <4>2. k = 0 /\ ~fails
          BY <3>2, <3>7, <4>1
        <4> HIDE DEF k, fails
        <4> QED
          BY <3>1, <3>3, <3>4, <3>5, <3>6, <3>7, <4>2 DEF EdgeKept, Unanswered
      <3>8. CASE state'[fd] # "WRITE"
        <4>1. state'[fd] \in {"RESPONSE_END", "ERROR"}
          BY <3>2, <3>8
        <4> QED
          BY <4>1 DEF EdgeKept, Unanswered
      <3> QED
        BY <3>7, <3>8
    <2>9. CASE fd = cur /\ (ErrorIgnored \/ Release)
      <3>1. state'[fd] \in {"ERROR", "CLOSE"}
        BY <1>0, <2>9 DEF ErrorIgnored, Release, EndRound, InMachine, ConnInv, EntriesOK
      <3> QED
        BY <3>1 DEF EdgeKept, Unanswered
    <2> QED
      BY <1>7, <2>4, <2>5, <2>6, <2>7, <2>8, <2>9
  <1> QED
    BY <1>1, <1>2, <1>3, <1>4, <1>5, <1>6, <1>7 DEF WorkerStep

\* An edge is never missed: when the worker waits for events, what a connection waits
\* for is not there, or epoll is about to report it.
THEOREM NoEdgeMissed == Spec => []NoMissedEdge
  <1> DEFINE Inv == ConnInv /\ EdgeInv
  <1>1. Init => Inv
    BY ConnStart DEF Init, EdgeInv
  <1>2. Inv /\ [Next]_vars => Inv'
    <2> SUFFICES ASSUME Inv, [Next]_vars PROVE Inv'
      OBVIOUS
    <2>1. ConnInv'
      BY StepKeepsConn
    <2>2. CASE UNCHANGED vars
      BY <2>1, <2>2 DEF EdgeInv, EdgeKept, Event, Due, vars, kernelVars, entryVars, tableVars
    <2>3. CASE Replaced
      <3>1. open' = {}
        BY <2>3 DEF Replaced
      <3> QED
        BY <2>1, <3>1 DEF EdgeInv
    <2> QED
      BY <2>1, <2>2, <2>3, ClientKeepsEdges, WorkerKeepsEdges DEF Next
  <1>3. Inv => NoMissedEdge
    <2> SUFFICES ASSUME Inv, wpc = "wait", NEW fd \in open \ ready
                 PROVE  /\ state[fd] = "READ" => rcv[fd] = 0 /\ peer[fd] # "reset"
                        /\ state[fd] = "WRITE" => snd[fd] = 0
      BY DEF NoMissedEdge
    <2>1. EdgeKept(fd) /\ ~Due(fd) /\ fd \in Fds /\ DOMAIN batch = {}
      BY DEF EdgeInv, ConnInv, WorkerOK, KernelOK, Due
    <2>2. ~Event(fd, "EPOLLIN") /\ ~Event(fd, "EPOLLOUT")
      BY <2>1 DEF Event
    <2>3. rcv[fd] \in Nat /\ snd[fd] \in Nat
      BY <2>1 DEF ConnInv, KernelOK
    <2> QED
      BY <2>1, <2>2, <2>3 DEF EdgeKept, Unanswered
  <1> QED
    BY <1>1, <1>2, <1>3, PTL DEF Spec
===============================================================================
