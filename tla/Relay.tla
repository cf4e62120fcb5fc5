---------------------------------- MODULE Relay ----------------------------------
(***************************************************************************)
(* datapipe.c: the process that relays for one client.  It copies between  *)
(* the client (connectSocket) and the server (remoteSocket), and with -f   *)
(* looks for the FTP messages PORT and 227, puts a listening socket of its *)
(* own in the place of the announced one, and relays one data connection   *)
(* in the middle of its control loop.                                      *)
(*                                                                         *)
(* A unit of data is a message of the control connection or a piece of a   *)
(* data connection.  Addresses are not modelled, only which listening      *)
(* socket a message announces.                                             *)
(***************************************************************************)
EXTENDS Naturals, Sequences, SequencesExt

CONSTANTS MaxSend,     \* bound: units each peer sends on the control connection
          MaxData,     \* bound: units each peer sends on a data connection
          Room,        \* units the kernel takes before the peer has read some
          Pipelining   \* whether an FTP client sends commands before the replies

ASSUME RelayAssumption ==
    /\ MaxSend \in Nat /\ MaxData \in Nat
    /\ Room \in Nat \ {0}
    /\ Pipelining \in BOOLEAN

Pairs == {"control", "data"}
Sides == {"connect", "remote"}     \* the accepted socket and the connected one
Slots == {"PORT", "227"}           \* fds[2] and fds[3]

None == <<>>                       \* no listening socket (-1 in the code)

Other(s) == IF s = "connect" THEN "remote" ELSE "connect"

VARIABLES
    supportftp,   \* 1 with -f
    sock,         \* the sockets of both pairs, and what their peers have done
    rpc,          \* where the process is
    pair,         \* the pair whose loop runs: doFtpRelay calls doTcpRelay
    revents,      \* for each loop what poll reported and the round has not looked at
    buf, to,      \* what writen has still to write, and to which side
    opened,       \* listening sockets that are open
    listener,     \* portAcceptSocket and pasvAcceptSocket
    pending       \* listening sockets with a connection to accept

vars == <<supportftp, sock, rpc, pair, revents, buf, to, opened, listener, pending>>

\* A socket that has just been connected or accepted.
Socket(peer) == [in |-> <<>>, out |-> <<>>, sent |-> 0, got |-> <<>>, peer |-> peer]

Init ==
    /\ supportftp \in {0, 1}
    /\ sock = [p \in Pairs |-> [s \in Sides |->
                  Socket(IF p = "control" /\ s = "connect" THEN "open" ELSE "none")]]
    /\ rpc = "dial" /\ pair = "control"
    /\ revents = [p \in Pairs |-> {}]
    /\ buf = <<>> /\ to = "remote"
    /\ opened = {} /\ listener = [l \in Slots |-> None] /\ pending = {}

-----------------------------------------------------------------------------
(* The peers, as the process sees them.                                     *)

SendUnit(p, s, kind, via) ==
    /\ sock[p][s].peer = "open"
    /\ sock' = [sock EXCEPT ![p][s].sent = @ + 1,
                            ![p][s].in = Append(@, [n    |-> sock[p][s].sent + 1,
                                                    kind |-> kind, via |-> via])]
    /\ UNCHANGED <<supportftp, rpc, pair, revents, buf, to, opened, listener, pending>>

\* Without -f, and on a data connection, both send what and when they like.
PeerSend(p, s) ==
    /\ p = "control" => supportftp = 0
    /\ sock[p][s].sent < (IF p = "control" THEN MaxSend ELSE MaxData)
    /\ SendUnit(p, s, "any", None)

\* An FTP client waits for the reply to its last command, unless Pipelining.
ClientCommand(kind) ==
    LET client == sock["control"]["connect"] IN
    /\ supportftp = 1
    /\ client.sent < MaxSend
    /\ Pipelining \/ client.sent = Len(client.got)
    /\ SendUnit("control", "connect", kind, None)

\* The command an FTP server is about to answer.
Command == LET server == sock["control"]["remote"] IN server.got[server.sent + 1]

Answering == LET server == sock["control"]["remote"]
             IN  server.peer = "open" /\ Len(server.got) > server.sent

ServerReply ==
    /\ supportftp = 1
    /\ Answering
    /\ SendUnit("control", "remote", IF Command.kind = "PASV" THEN "227" ELSE "any", None)

Arrive(l) ==
    /\ l \in opened /\ l \notin pending
    /\ \A s \in Sides : sock["data"][s].out = <<>> /\ sock["data"][s].peer # "open"
    /\ pending' = pending \cup {l}
    /\ UNCHANGED <<supportftp, sock, rpc, pair, revents, buf, to, opened, listener>>

\* The server connects to what the PORT before the transfer announced.
ServerConnects ==
    LET server == sock["control"]["remote"]
        before == server.got[server.sent] IN
    /\ Answering /\ Command.kind = "RETR" /\ server.sent > 0
    /\ before.kind = "PORT" /\ Arrive(before.via)

\* The client connects to what the last reply announced, before its next command.
ClientConnects ==
    LET client == sock["control"]["connect"] IN
    /\ client.got # <<>> /\ Last(client.got).kind = "227"
    /\ Pipelining \/ client.sent = Len(client.got)
    /\ Arrive(Last(client.got).via)

PeerTake(p, s) ==
    /\ sock[p][s].peer \in {"open", "finished"} /\ sock[p][s].out # <<>>
    /\ sock' = [sock EXCEPT ![p][s].got = Append(@, Head(sock[p][s].out)),
                            ![p][s].out = Tail(@)]
    /\ UNCHANGED <<supportftp, rpc, pair, revents, buf, to, opened, listener, pending>>

PeerFinish(p, s) ==
    /\ sock[p][s].peer = "open"
    /\ sock' = [sock EXCEPT ![p][s].peer = "finished"]
    /\ UNCHANGED <<supportftp, rpc, pair, revents, buf, to, opened, listener, pending>>

\* Bound: one of the four connections is reset.
PeerReset(p, s) ==
    /\ \A q \in Pairs, t \in Sides : sock[q][t].peer # "reset"
    /\ sock[p][s].peer \in {"open", "finished"}
    /\ sock' = [sock EXCEPT ![p][s].peer = "reset", ![p][s].out = <<>>]
    /\ UNCHANGED <<supportftp, rpc, pair, revents, buf, to, opened, listener, pending>>

Peers ==
    \/ \E kind \in {"PORT", "PASV", "RETR"} : ClientCommand(kind)
    \/ ServerReply \/ ServerConnects \/ ClientConnects
    \/ \E p \in Pairs, s \in Sides :
          PeerSend(p, s) \/ PeerTake(p, s) \/ PeerFinish(p, s) \/ PeerReset(p, s)

-----------------------------------------------------------------------------
(* doTcpRelay and doFtpRelay: poll, then each ready descriptor in its turn.  *)

Gone(p, s) == sock[p][s].peer \in {"finished", "reset"}

Readable(p) == {s \in Sides : sock[p][s].in # <<>> \/ Gone(p, s)}
Acceptable  == {l \in Slots : listener[l] \in pending}

\* The sockets of a pair are closed: what was written is still delivered.
Closed(p, s) == [sock[p][s] EXCEPT !.peer = IF @ = "open" THEN "finished" ELSE @]

\* The process ends; every descriptor it has is closed.
Ends ==
    /\ rpc' = "ended"
    /\ sock' = [p \in Pairs |-> [s \in Sides |-> Closed(p, s)]]
    /\ pair' = "control" /\ revents' = [p \in Pairs |-> {}] /\ buf' = <<>>
    /\ opened' = {} /\ listener' = [l \in Slots |-> None] /\ pending' = {}
    /\ UNCHANGED <<supportftp, to>>

\* tcp_connect to the server succeeds (lines 876, 827-840).
Reach ==
    /\ rpc = "dial"
    /\ sock' = [sock EXCEPT !["control"]["remote"] = Socket("open")]
    /\ rpc' = "poll"
    /\ UNCHANGED <<supportftp, pair, revents, buf, to, opened, listener, pending>>

\* It fails, or takes 75 seconds (lines 802-813, 842-845, 892-894).
Unreachable == rpc = "dial" /\ Ends

\* Fault: poll is called with one descriptor.
PollConnectSocket ==
    /\ rpc = "poll"
    /\ LET ready == Readable(pair) \ {"remote"} IN
         /\ ready # {}
         /\ revents' = [revents EXCEPT ![pair] = ready]
    /\ rpc' = "dispatch"
    /\ UNCHANGED <<supportftp, sock, pair, buf, to, opened, listener, pending>>

\* Lines 332, 524: poll waits for any of the descriptors.
Poll ==
    /\ rpc = "poll"
    /\ LET ready == Readable(pair)
                       \cup (IF pair = "control" THEN Acceptable ELSE {}) IN
         /\ ready # {}
         /\ revents' = [revents EXCEPT ![pair] = ready]
    /\ rpc' = "dispatch"
    /\ UNCHANGED <<supportftp, sock, pair, buf, to, opened, listener, pending>>

\* The order of the tests on revents.
Turn(fd) ==
    /\ rpc = "dispatch"
    /\ fd \in revents[pair]
    /\ "connect" \in revents[pair] => fd = "connect"
    /\ "remote" \in revents[pair] => fd \in Sides
    /\ "PORT" \in revents[pair] => fd # "227"

Looked(fd) == revents' = [revents EXCEPT ![pair] = @ \ {fd}]

EndRound ==
    /\ rpc = "dispatch" /\ revents[pair] = {}
    /\ rpc' = "poll"
    /\ UNCHANGED <<supportftp, sock, pair, revents, buf, to, opened, listener, pending>>

\* Which listening socket a message is to announce, if any.  The text is looked
\* for at the start of what was read only (lines 354, 393).
Announces(s, unit) ==
    /\ supportftp = 1 /\ pair = "control"
    /\ unit.kind = (IF s = "connect" THEN "PORT" ELSE "227")

\* Lines 345-353, 384-392, 537-545: what was read, up to the size of the buffer.
ReadPlain(s) ==
    /\ Turn(s) /\ Looked(s)
    /\ \E k \in 1..Len(sock[pair][s].in) :
         /\ buf' = SubSeq(sock[pair][s].in, 1, k)
         /\ ~Announces(s, buf'[1])
         /\ sock' = [sock EXCEPT ![pair][s].in = SubSeq(@, k + 1, Len(@))]
    /\ to' = Other(s) /\ rpc' = "write"
    /\ UNCHANGED <<supportftp, pair, opened, listener, pending>>

\* Lines 354-376, 393-425: a new listening socket, in the place of one that may
\* still be open; the message that announces it replaces all that was read.
ReadAnnouncement(s) ==
    LET slot == IF s = "connect" THEN "PORT" ELSE "227"
        l    == <<slot, sock[pair][s].in[1].n>> IN
    /\ Turn(s) /\ Looked(s)
    /\ \E k \in 1..Len(sock[pair][s].in) :
         /\ Announces(s, sock[pair][s].in[1])
         /\ buf' = <<[sock[pair][s].in[1] EXCEPT !.via = l]>>
         /\ sock' = [sock EXCEPT ![pair][s].in = SubSeq(@, k + 1, Len(@))]
    /\ listener' = [listener EXCEPT ![slot] = l]
    /\ opened' = opened \cup {l}
    /\ to' = Other(s) /\ rpc' = "write"
    /\ UNCHANGED <<supportftp, pair, pending>>

\* Fault: the part that was not written is forgotten.
WriteOnce ==
    /\ rpc = "write" /\ buf # <<>>
    /\ sock[pair][to].peer # "reset"
    /\ \E k \in 1..Len(buf) :
         /\ Len(sock[pair][to].out) + k <= Room
         /\ sock' = [sock EXCEPT ![pair][to].out = @ \o SubSeq(buf, 1, k)]
    /\ buf' = <<>>
    /\ UNCHANGED <<supportftp, rpc, pair, revents, to, opened, listener, pending>>

\* Lines 946-969: write blocks until there is room, and may take a part.
Write ==
    /\ rpc = "write" /\ buf # <<>>
    /\ sock[pair][to].peer # "reset"
    /\ \E k \in 1..Len(buf) :
         /\ Len(sock[pair][to].out) + k <= Room
         /\ sock' = [sock EXCEPT ![pair][to].out = @ \o SubSeq(buf, 1, k)]
         /\ buf' = SubSeq(buf, k + 1, Len(buf))
    /\ UNCHANGED <<supportftp, rpc, pair, revents, to, opened, listener, pending>>

Written ==
    /\ rpc = "write" /\ buf = <<>>
    /\ rpc' = "dispatch"
    /\ UNCHANGED <<supportftp, sock, pair, revents, buf, to, opened, listener, pending>>

\* The inner loop is left, back to doFtpRelay (lines 443-449, 463-469).
LeaveData ==
    /\ pair = "data"
    /\ sock' = [sock EXCEPT !["data"] = [s \in Sides |-> Closed("data", s)]]
    /\ pair' = "control"
    /\ revents' = [revents EXCEPT !["data"] = {}]
    /\ buf' = <<>> /\ rpc' = "dispatch"
    /\ UNCHANGED <<supportftp, to, opened, listener, pending>>

\* read returns 0, or -1 on a connection that was reset (lines 346-353, 538-545).
\* What a peer that has reset had sent before may be lost.
ReadEnd(s) ==
    /\ Turn(s)
    /\ \/ sock[pair][s].peer = "finished" /\ sock[pair][s].in = <<>>
       \/ sock[pair][s].peer = "reset"

\* writen fails on a connection that was reset (line 963).
WriteError ==
    rpc = "write" /\ buf # <<>> /\ sock[pair][to].peer = "reset"

DataEnd == ((\E s \in Sides : ReadEnd(s)) \/ WriteError) /\ LeaveData

\* Fault: the end of what a peer sends is taken for an empty read.
ControlEndOnError ==
    /\ (\E s \in Sides : ReadEnd(s) /\ sock["control"][s].peer = "reset") \/ WriteError
    /\ pair = "control"
    /\ Ends

\* Lines 473-505, 569-571 and 886-894.
ControlEnd ==
    /\ (\E s \in Sides : ReadEnd(s)) \/ WriteError
    /\ pair = "control"
    /\ Ends

\* The process may be ended at any point: by a signal (on_terminate), by SIGPIPE
\* from a write, for which init_signal sets no handler, by a failure of accept
\* (line 233) or of the set-up of a listening socket (lines 360, 399).
Killed ==
    /\ rpc # "ended"
    /\ Ends

\* Fault: the descriptor is tested in a loop.
AcceptDataAgain(l) ==
    /\ Turn(l)
    /\ listener[l] \in pending
    /\ sock' = [sock EXCEPT !["data"] = [s \in Sides |->
                                Socket(IF s = "connect" THEN "open" ELSE "none")]]
    /\ pending' = pending \ {listener[l]}
    /\ opened' = opened \ {listener[l]}
    /\ listener' = [listener EXCEPT ![l] = None]
    /\ rpc' = "dialData"
    /\ UNCHANGED <<supportftp, pair, revents, buf, to>>

\* Lines 435-438, 455-458: accept blocks until there is a connection; the
\* listening socket is closed.
AcceptData(l) ==
    /\ Turn(l) /\ Looked(l)
    /\ listener[l] \in pending
    /\ sock' = [sock EXCEPT !["data"] = [s \in Sides |->
                                Socket(IF s = "connect" THEN "open" ELSE "none")]]
    /\ pending' = pending \ {listener[l]}
    /\ opened' = opened \ {listener[l]}
    /\ listener' = [listener EXCEPT ![l] = None]
    /\ rpc' = "dialData"
    /\ UNCHANGED <<supportftp, pair, buf, to>>

\* Lines 439-442, 459-462: the announced address is reached and its data relayed, while
\* the control connection waits.
ReachData ==
    /\ rpc = "dialData"
    /\ sock' = [sock EXCEPT !["data"]["remote"] = Socket("open")]
    /\ pair' = "data" /\ rpc' = "poll"
    /\ UNCHANGED <<supportftp, revents, buf, to, opened, listener, pending>>

\* tcp_connect fails or takes 75 seconds: the accepted connection is closed.
DataUnreachable ==
    /\ rpc = "dialData"
    /\ sock' = [sock EXCEPT !["data"]["connect"] = Closed("data", "connect")]
    /\ rpc' = "dispatch"
    /\ UNCHANGED <<supportftp, pair, revents, buf, to, opened, listener, pending>>

RelayStep ==
    \/ Reach \/ Unreachable \/ Poll \/ EndRound \/ Write \/ Written
    \/ DataEnd \/ ControlEnd \/ ReachData \/ DataUnreachable
    \/ (\E s \in Sides : ReadPlain(s) \/ ReadAnnouncement(s))
    \/ \E l \in Slots : AcceptData(l)

Next == Peers \/ RelayStep \/ Killed

Spec == Init /\ [][Next]_vars

\* The process is scheduled, a peer reads what is sent to it, and a data
\* connection is closed by its peers some time.  Nothing obliges a peer to send.
Fairness ==
    /\ WF_vars(RelayStep)
    /\ \A p \in Pairs, s \in Sides : WF_vars(PeerTake(p, s))
    /\ \A s \in Sides : WF_vars(PeerFinish("data", s))

FairSpec == Spec /\ Fairness

-----------------------------------------------------------------------------

Numbers(units) == [i \in DOMAIN units |-> units[i].n]

\* What has been sent into a pair from one side and has not yet come out on the
\* other is on its way, in order, each unit once: nothing is lost, doubled or
\* overtaken by partial writes, by the two directions sharing one buffer, or by
\* the messages that are replaced.
StreamIntact ==
    \A p \in Pairs, s \in Sides :
        LET there == sock[p][Other(s)]
            inHand == IF rpc = "write" /\ pair = p /\ to = Other(s) THEN buf ELSE <<>>
        IN  rpc # "ended" /\ there.peer # "reset" =>
                Numbers(there.got \o there.out \o inHand \o sock[p][s].in)
                    = [i \in 1..sock[p][s].sent |-> i]

\* doFtpRelay calls accept only when a connection is there to be accepted:
\* otherwise it would block, and the control connection with it.  The event may
\* be older than the listening socket that this very round has put into fds.  What
\* fds refers to is open: the number of a closed socket is soon that of another.
AcceptFindsConnection ==
    \A l \in Slots :
        /\ Turn(l) => listener[l] \in pending
        /\ listener[l] \in opened \cup {None}

\* What one side sends comes out on the other, unless the receiver or the relay
\* is gone: no direction is forgotten while the other is served, and a data
\* connection in between only delays the control connection.
Delivered ==
    \A s \in Sides : \A n \in 1..MaxSend :
        sock["control"][s].sent >= n ~>
            \/ Len(sock["control"][Other(s)].got) >= n
            \/ sock["control"][Other(s)].peer = "reset"
            \/ rpc = "ended"

\* When a peer has ended its connection, or was reset, the relay ends the pair: it
\* finds out even if it has nothing to send to that peer, and although it does
\* not look at the control connection while it relays data.
EndPassedOn ==
    /\ (\E s \in Sides : Gone("control", s)) ~> rpc = "ended"
    /\ (pair = "data" /\ \E s \in Sides : Gone("data", s)) ~> pair = "control"
===============================================================================
