------------------------------- MODULE Connection -------------------------------
(***************************************************************************)
(* LikeNginx: one worker process and its client connections, from the      *)
(* accept callback to the close.  Events come from an edge-triggered epoll *)
(* set (epoll_zoon.c); the callback connect_io_callback (worker_zoon.c)    *)
(* notes them, reads or writes, and puts the descriptor on the job list;   *)
(* after the events of a batch connection_state_machine (connect_state.c)  *)
(* is run on every job until its state does not change.                    *)
(*                                                                         *)
(* Amounts of data are counted in small units.  When the listening socket  *)
(* is in the epoll set, and so when AcceptNew may happen, is in Accept.    *)
(***************************************************************************)
EXTENDS Naturals, FiniteSets, FiniteSetsExt

CONSTANTS Fds,           \* the descriptors the connections get
          InitialAlloc,  \* entries of m_fds to begin with (16 in the code)
          BufLen,        \* MAX_BUFFER_LEN
          SndBuf,        \* what the kernel takes for a client that does not read
          MaxRcv,        \* bound: what it holds for the worker to read
          GreetLen,      \* how much server_greet puts out (external)
          Responses      \* how much command_parse puts out (external)

ASSUME ConnectionAssumption ==
    /\ IsFiniteSet(Fds) /\ Fds \subseteq Nat \ {0} /\ Fds # {}
    /\ InitialAlloc \in Nat \ {0} /\ BufLen \in Nat \ {0} /\ SndBuf \in Nat \ {0}
    /\ MaxRcv \in Nat /\ GreetLen \in Nat
    /\ Responses \subseteq Nat \ {0} /\ IsFiniteSet(Responses) /\ Responses # {}

VARIABLES
    \* the kernel and the clients
    open,       \* the descriptors that are open
    peer,       \* what the client at the other end has done
    rcv,        \* data waiting to be read
    snd,        \* room for data to be written
    ready,      \* the descriptors on epoll's ready list
    \* struct gs_sys_epoll
    watched,    \* the descriptors added and not deleted
    m_fds_used,
    m_fds_alloc,
    state, size,            \* fields of the entries of m_fds
    is_readable, is_writable,   \* the entries where these flags are 1
    \* the worker
    joblist,
    free,       \* worker_free_connects
    wpc,        \* where it is in its loop
    batch,      \* the events it has still to dispatch
    todo,       \* the jobs it has still to look at
    cur,        \* the descriptor it is working on
    unsent      \* history: what the last response did not get written

kernelVars == <<open, peer, rcv, snd, ready>>
entryVars  == <<state, size, is_readable, is_writable>>
tableVars  == <<watched, m_fds_used, m_fds_alloc>>
vars == <<kernelVars, entryVars, tableVars, joblist, free, wpc, batch, todo, cur, unsent>>

NoFd == 0

Least(a, b) == IF a < b THEN a ELSE b

Init ==
    /\ open = {} /\ ready = {}
    /\ peer = [fd \in Fds |-> "none"]
    /\ rcv = [fd \in Fds |-> 0] /\ snd = [fd \in Fds |-> 0]
    /\ watched = {} /\ m_fds_used = 0 /\ m_fds_alloc = InitialAlloc
    /\ state = [fd \in Fds |-> "CLOSE"] /\ size = [fd \in Fds |-> 0]
    /\ is_readable = {} /\ is_writable = {}
    /\ joblist = {} /\ free = Cardinality(Fds)
    /\ wpc = "wait" /\ batch = <<>> /\ todo = {} /\ cur = NoFd
    /\ unsent = [fd \in Fds |-> 0]

-----------------------------------------------------------------------------
(* The client at the other end of an open connection.  Each of its acts is  *)
(* an edge for epoll.                                                       *)

ClientActs(fd, in) ==
    /\ fd \in open /\ peer[fd] \in in
    /\ UNCHANGED <<open, entryVars, tableVars, joblist, free, wpc, batch, todo, cur, unsent>>

PeerSend(fd) ==
    /\ ClientActs(fd, {"open"})
    /\ rcv[fd] < MaxRcv
    /\ rcv' = [rcv EXCEPT ![fd] = @ + 1]
    /\ ready' = ready \cup ({fd} \cap watched)
    /\ UNCHANGED <<peer, snd>>

\* The client closes its side.
PeerFinish(fd) ==
    /\ ClientActs(fd, {"open"})
    /\ peer' = [peer EXCEPT ![fd] = "finished"]
    /\ ready' = ready \cup ({fd} \cap watched)
    /\ UNCHANGED <<rcv, snd>>

PeerReset(fd) ==
    /\ ClientActs(fd, {"open", "finished"})
    /\ peer' = [peer EXCEPT ![fd] = "reset"]
    /\ ready' = ready \cup ({fd} \cap watched)
    /\ UNCHANGED <<rcv, snd>>

\* The client reads; only when there was no room is that an edge.
PeerDrain(fd) ==
    /\ ClientActs(fd, {"open", "finished"})
    /\ snd[fd] < SndBuf
    /\ snd' = [snd EXCEPT ![fd] = SndBuf]
    /\ ready' = IF snd[fd] = 0 THEN ready \cup ({fd} \cap watched) ELSE ready
    /\ UNCHANGED <<peer, rcv>>

-----------------------------------------------------------------------------
(* gs_sys_epoll_waitAndDispatchEvents.                                      *)

Events(fd) ==
    (IF rcv[fd] > 0 \/ peer[fd] \in {"finished", "reset"} THEN {"EPOLLIN"} ELSE {})
    \cup (IF snd[fd] > 0 \/ peer[fd] = "reset" THEN {"EPOLLOUT"} ELSE {})
    \cup (IF peer[fd] = "reset" THEN {"EPOLLERR"} ELSE {})

\* Line 168: the ready list is handed over; it may be empty, at a timeout or
\* when there is only the listening socket.
EpollWait ==
    /\ wpc = "wait"
    /\ batch' = [fd \in {f \in ready : Events(f) # {}} |-> Events(fd)]
    /\ ready' = {}
    /\ wpc' = "dispatch"
    /\ UNCHANGED <<open, peer, rcv, snd, entryVars, tableVars, joblist, free, todo, cur, unsent>>

\* worker_zoon.c:113-114, in accept_fd_callback: the kernel gives out the lowest
\* free descriptor; its entry is written (connect_state.c:12) before the table is made
\* larger.  An entry beyond the table is memory of something else: nobody may use it,
\* or the worker goes wrong from here on.
AcceptNew ==
    /\ wpc = "dispatch" /\ Fds \ open # {}
    /\ LET fd == Min(Fds \ open) IN
         /\ cur' = fd
         /\ open' = open \cup {fd}
         /\ peer' = [peer EXCEPT ![fd] = "open"]
         /\ rcv' = [rcv EXCEPT ![fd] = 0] /\ snd' = [snd EXCEPT ![fd] = SndBuf]
         /\ state' = [state EXCEPT ![fd] = "REQUEST_START"]
         /\ wpc' \in IF fd < m_fds_alloc THEN {"start"} ELSE {"start", "overrun"}
    /\ free' = free - 1
    /\ UNCHANGED <<ready, size, is_readable, is_writable, tableVars, joblist, batch, todo, unsent>>

\* main.c:93-98, 243-279: if it ends, its connections end with it and the master starts
\* another worker.  What it does while it goes on is not followed.
Replaced ==
    /\ wpc = "overrun" /\ wpc' = "wait"
    /\ open' = {} /\ ready' = {} /\ watched' = {} /\ joblist' = {} /\ todo' = {}
    /\ is_readable' = {} /\ is_writable' = {} /\ batch' = <<>> /\ cur' = NoFd
    /\ peer' = [fd \in Fds |-> "none"] /\ state' = [fd \in Fds |-> "CLOSE"]
    /\ rcv' = [fd \in Fds |-> 0] /\ snd' = [fd \in Fds |-> 0]
    /\ size' = [fd \in Fds |-> 0] /\ unsent' = [fd \in Fds |-> 0]
    /\ m_fds_used' = 0 /\ m_fds_alloc' = InitialAlloc /\ free' = Cardinality(Fds)

\* epoll_zoon.c:82-99.
Grow(fd) ==
    IF fd < m_fds_alloc THEN m_fds_alloc
    ELSE IF 2 * m_fds_alloc < fd + 1 THEN fd + 1 ELSE 2 * m_fds_alloc

\* connect_state.c:30-58, called at worker_zoon.c:116: gs_sys_epoll_add, then the
\* greeting; the machine's next round finds nothing to read.
StartConnection ==
    /\ wpc = "start"
    /\ m_fds_alloc' = Grow(cur)
    /\ watched' = watched \cup {cur} /\ m_fds_used' = m_fds_used + 1
    /\ ready' = ready \cup {cur}
    /\ state' = [state EXCEPT ![cur] = "READ"]
    /\ is_readable' = is_readable \ {cur} /\ is_writable' = is_writable \ {cur}
    /\ size' = [size EXCEPT ![cur] = GreetLen]
    /\ snd' = [snd EXCEPT ![cur] = @ - Least(GreetLen, @)]
    /\ unsent' = [unsent EXCEPT ![cur] = 0]
    /\ wpc' = "dispatch" /\ cur' = NoFd
    /\ UNCHANGED <<open, peer, rcv, joblist, free, batch, todo>>

\* Fault: readiness to write is noted only while a response is being written.
ForgetEarlyOut(fd) ==
    /\ wpc = "dispatch" /\ fd \in DOMAIN batch
    /\ batch' = [f \in DOMAIN batch \ {fd} |-> batch[f]]
    /\ joblist' = joblist \cup {fd}
    /\ is_readable' = is_readable \cup (IF "EPOLLIN" \in batch[fd] THEN {fd} ELSE {})
    /\ is_writable' = is_writable \cup
         (IF "EPOLLOUT" \in batch[fd] /\ state[fd] = "WRITE" THEN {fd} ELSE {})
    /\ state' = IF "EPOLLERR" \in batch[fd] THEN [state EXCEPT ![fd] = "ERROR"] ELSE state
    /\ wpc' = "callback" /\ cur' = fd
    /\ UNCHANGED <<kernelVars, size, tableVars, free, todo, unsent>>

\* worker_zoon.c:255-277, in connect_io_callback: the events are noted.
IOCallback(fd) ==
    /\ wpc = "dispatch" /\ fd \in DOMAIN batch
    /\ batch' = [f \in DOMAIN batch \ {fd} |-> batch[f]]
    /\ joblist' = joblist \cup {fd}
    /\ is_readable' = is_readable \cup (IF "EPOLLIN" \in batch[fd] THEN {fd} ELSE {})
    /\ is_writable' = is_writable \cup (IF "EPOLLOUT" \in batch[fd] THEN {fd} ELSE {})
    /\ state' = IF "EPOLLERR" \in batch[fd] THEN [state EXCEPT ![fd] = "ERROR"] ELSE state
    /\ wpc' = "callback" /\ cur' = fd
    /\ UNCHANGED <<kernelVars, size, tableVars, free, todo, unsent>>

\* worker_zoon.c:279-312: neither state READ nor WRITE, nothing more to do.
CallbackIdle ==
    /\ wpc = "callback" /\ state[cur] \notin {"READ", "WRITE"}
    /\ wpc' = "dispatch" /\ cur' = NoFd
    /\ UNCHANGED <<kernelVars, entryVars, tableVars, joblist, free, batch, todo, unsent>>

\* worker_zoon.c:366-370: all events are dispatched, the job list is gone through.
DispatchEnd ==
    /\ wpc = "dispatch" /\ DOMAIN batch = {}
    /\ todo' = joblist
    /\ wpc' = "jobs"
    /\ UNCHANGED <<kernelVars, entryVars, tableVars, joblist, free, batch, cur, unsent>>

-----------------------------------------------------------------------------
(* connection_state_machine, one round of its loop at a time, and the two    *)
(* functions that it and the callback call.                                 *)

NextJob ==
    /\ wpc = "jobs" /\ todo # {}
    /\ cur' = Min(todo)
    /\ wpc' = "machine"
    /\ UNCHANGED <<kernelVars, entryVars, tableVars, joblist, free, batch, todo, unsent>>

JobsEnd ==
    /\ wpc = "jobs" /\ todo = {}
    /\ wpc' = "wait"
    /\ UNCHANGED <<kernelVars, entryVars, tableVars, joblist, free, batch, todo, cur, unsent>>

\* The end of a round: the callback returns; the machine goes round again if the
\* state has changed (connect_state.c:119), or else is finished with this job.
EndRound(newState) ==
    /\ state' = [state EXCEPT ![cur] = newState]
    /\ IF wpc = "callback" THEN wpc' = "dispatch" /\ cur' = NoFd /\ UNCHANGED todo
       ELSE IF newState # state[cur] THEN UNCHANGED <<wpc, cur, todo>>
       ELSE wpc' = "jobs" /\ cur' = NoFd /\ todo' = todo \ {cur}
    /\ UNCHANGED batch

InMachine(st) == wpc = "machine" /\ state[cur] = st

\* reader_fd_sycle and the test of its result.  It reads up to a full buffer, or
\* all there is and then EAGAIN, end of file or ECONNRESET; data that arrives
\* meanwhile counts as having arrived before.  A failure is forgotten if
\* anything was read before it.  A non-blocking read is not interrupted (EINTR).
ReadRequest ==
    LET n == IF cur \in is_readable THEN Least(rcv[cur], BufLen) ELSE 0
        fails == cur \in is_readable /\ n < BufLen /\ peer[cur] = "reset"
    IN  /\ wpc \in {"callback", "machine"} /\ state[cur] = "READ"
        /\ rcv' = [rcv EXCEPT ![cur] = @ - n]
        /\ size' = IF cur \in is_readable THEN [size EXCEPT ![cur] = n] ELSE size
        /\ is_readable' = is_readable \ {cur}
        /\ EndRound(IF n > 0 THEN "REQUEST_END" ELSE IF fails THEN "ERROR" ELSE "READ")
        /\ UNCHANGED <<open, peer, snd, ready, is_writable, tableVars, joblist, free, unsent>>

\* connect_state.c:67-81: command_parse replaces the request by the response.
HandleRequest ==
    /\ InMachine("REQUEST_END")
    /\ \E outlen \in Responses : size' = [size EXCEPT ![cur] = outlen]
    /\ EndRound("HANDLE_REQUEST")
    /\ UNCHANGED <<kernelVars, is_readable, is_writable, tableVars, joblist, free, unsent>>

\* connect_state.c:83-93, 99-101.
Advance ==
    /\ \/ InMachine("HANDLE_REQUEST") /\ EndRound("RESPONSE_START")
       \/ InMachine("RESPONSE_START") /\ EndRound("WRITE")
       \/ InMachine("RESPONSE_END") /\ EndRound("CLOSE")
    /\ UNCHANGED <<kernelVars, size, is_readable, is_writable, tableVars, joblist, free, unsent>>

\* writer_fd_sycle and the test of its result: what the kernel has room for, and
\* then EAGAIN; what is left over is not written later.
WriteResponse ==
    LET k == IF cur \in is_writable /\ peer[cur] # "reset" THEN Least(size[cur], snd[cur]) ELSE 0
        fails == cur \in is_writable /\ peer[cur] = "reset"
    IN  /\ wpc \in {"callback", "machine"} /\ state[cur] = "WRITE"
        /\ snd' = [snd EXCEPT ![cur] = @ - k]
        /\ unsent' = IF k > 0 THEN [unsent EXCEPT ![cur] = size[cur] - k] ELSE unsent
        /\ is_writable' = is_writable \ {cur}
        /\ EndRound(IF k > 0 THEN "RESPONSE_END" ELSE IF fails THEN "ERROR" ELSE "WRITE")
        /\ UNCHANGED <<open, peer, rcv, ready, size, is_readable, tableVars, joblist, free>>

\* Fault: the job is not taken off the list.
ReleaseKeepsJob ==
    /\ InMachine("CLOSE")
    /\ free' = free + 1
    /\ watched' = watched \ {cur}
    /\ m_fds_used' = IF cur \in watched THEN m_fds_used - 1 ELSE m_fds_used
    /\ open' = open \ {cur} /\ ready' = ready \ {cur}
    /\ peer' = [peer EXCEPT ![cur] = "none"]
    /\ EndRound("CLOSE")
    /\ UNCHANGED <<rcv, snd, size, is_readable, is_writable, m_fds_alloc, joblist, unsent>>

\* Fault: the descriptor is closed before it is deleted from the epoll set.
CloseBeforeDel ==
    /\ InMachine("CLOSE")
    /\ free' = free + 1
    /\ watched' = watched \ {cur}
    /\ open' = open \ {cur} /\ ready' = ready \ {cur}
    /\ peer' = [peer EXCEPT ![cur] = "none"]
    /\ joblist' = joblist \ {cur}
    /\ EndRound("CLOSE")
    /\ UNCHANGED <<rcv, snd, size, is_readable, is_writable, m_fds_used, m_fds_alloc, unsent>>

\* connect_state.c:102-113: gs_sys_epoll_del, close; the state stays CLOSE.
Release ==
    /\ InMachine("CLOSE")
    /\ free' = free + 1
    /\ watched' = watched \ {cur}
    /\ m_fds_used' = IF cur \in watched THEN m_fds_used - 1 ELSE m_fds_used
    /\ open' = open \ {cur} /\ ready' = ready \ {cur}
    /\ peer' = [peer EXCEPT ![cur] = "none"]
    /\ joblist' = joblist \ {cur}
    /\ EndRound("CLOSE")
    /\ UNCHANGED <<rcv, snd, size, is_readable, is_writable, m_fds_alloc, unsent>>

\* connect_state.c:114-116: there is no case for ERROR.
ErrorIgnored ==
    /\ InMachine("ERROR")
    /\ EndRound("ERROR")
    /\ UNCHANGED <<kernelVars, size, is_readable, is_writable, tableVars, joblist, free, unsent>>

-----------------------------------------------------------------------------

WorkerStep ==
    \/ EpollWait \/ StartConnection \/ CallbackIdle \/ DispatchEnd
    \/ (\E fd \in Fds : IOCallback(fd))
    \/ NextJob \/ JobsEnd
    \/ ReadRequest \/ HandleRequest \/ Advance \/ WriteResponse \/ Release \/ ErrorIgnored

Next ==
    \/ WorkerStep \/ AcceptNew \/ Replaced
    \/ \E fd \in Fds : PeerSend(fd) \/ PeerFinish(fd) \/ PeerReset(fd) \/ PeerDrain(fd)

Spec == Init /\ [][Next]_vars

\* The worker is scheduled and epoll_wait returns at the latest after its
\* timeout; a client reads what is sent to it.  Nothing obliges a client to send
\* or to close.
Fairness == WF_vars(WorkerStep) /\ \A fd \in Fds : WF_vars(PeerDrain(fd))

FairSpec == Spec /\ Fairness

-----------------------------------------------------------------------------

States == {"REQUEST_START", "READ", "REQUEST_END", "HANDLE_REQUEST", "RESPONSE_START",
           "WRITE", "RESPONSE_END", "ERROR", "CLOSE"}

TypeOK ==
    /\ open \subseteq Fds /\ ready \subseteq open
    /\ peer \in [Fds -> {"none", "open", "finished", "reset"}]
    /\ rcv \in [Fds -> 0..MaxRcv] /\ snd \in [Fds -> 0..SndBuf]
    /\ watched \subseteq Fds /\ m_fds_used \in Nat /\ m_fds_alloc \in Nat
    /\ state \in [Fds -> States] /\ size \in [Fds -> Nat]
    /\ is_readable \subseteq Fds /\ is_writable \subseteq Fds
    /\ joblist \subseteq Fds /\ todo \subseteq joblist
    /\ free \in 0..Cardinality(Fds)
    /\ wpc \in {"wait", "dispatch", "start", "overrun", "callback", "jobs", "machine"}
    /\ \A fd \in DOMAIN batch : batch[fd] \subseteq {"EPOLLIN", "EPOLLOUT", "EPOLLERR"}
    /\ cur \in Fds \cup {NoFd}
    /\ unsent \in [Fds -> Nat]

\* What follows is said of a worker whose memory is its own.
Intact == wpc # "overrun"

\* Each connection is released exactly once, although its job and its state CLOSE
\* would have it released in every round of the loop, and its descriptor may be
\* in use again by then (connect_state.c:102-113, worker_zoon.c:114).
ReleasedOnce == Intact => free + Cardinality(open) = Cardinality(Fds)

\* The table of descriptors agrees with the kernel: the number the assertion at
\* epoll_zoon.c:173 trusts is the number of descriptors in the epoll set; none of
\* them is closed; a batch of events names only descriptors that are still watched;
\* and only the accept callback touches an entry beyond the table, all it does with a
\* descriptor after gs_sys_epoll_add is within it (lines 82-98).
TableConsistent ==
    TypeOK /\ (Intact =>
        /\ m_fds_used = Cardinality(watched)
        /\ watched = open \ (IF wpc = "start" THEN {cur} ELSE {})
        /\ DOMAIN batch \subseteq watched
        /\ \A fd \in watched \cup {cur} : fd >= m_fds_alloc => fd = cur /\ wpc = "start")

\* "Number of elements worth of heap allocated for m_fds" (epolllib.h:84): an entry
\* that is read or written is one of them.
EntryExists == cur # NoFd => cur < m_fds_alloc

\* An edge is never missed: when the worker waits for events, a connection that
\* waits for data has none left unread, and one that waits to write has no room
\* to, unless epoll is about to say so.
NoMissedEdge ==
    wpc = "wait" =>
        \A fd \in open \ ready :
            /\ state[fd] = "READ" => rcv[fd] = 0 /\ peer[fd] # "reset"
            /\ state[fd] = "WRITE" => snd[fd] = 0

\* A request that has been read is answered and its connection released, or the
\* connection turns out to be broken.
RequestAnswered ==
    \A fd \in Fds :
        state[fd] = "REQUEST_END" ~> fd \notin open \/ state[fd] = "ERROR" \/ ~Intact

\* "The remote has closed the connection" (worker_zoon.c:177): the connection of
\* a client that is gone is released.
ClosedIsReleased ==
    \A fd \in Fds : peer[fd] \in {"finished", "reset"} ~> fd \notin open

\* CON_STATE_RESPONSE_END, "the response has ended" (epolllib.h:30): it is in the
\* hands of the kernel.
ResponseWhole ==
    \A fd \in open : state[fd] = "RESPONSE_END" => unsent[fd] = 0
===============================================================================
