------------------------------ MODULE RelayProofs ------------------------------
(***************************************************************************)
(* Proofs about Relay: the copy is exact, without -f in any case and with  *)
(* it when a client waits for the reply to its last command; then accept   *)
(* finds a connection.                                                     *)
(***************************************************************************)
EXTENDS Relay, Integers, SequenceTheorems, TLAPS

USE RelayAssumption DEF RelayAssumption

-----------------------------------------------------------------------------
(* The inductive invariant.                                                 *)

Announced == Slots \X Nat

\* Only the kind of message that is replaced in a slot announces a socket of that slot.
Unit == {u \in [n : Nat, kind : {"any", "PORT", "PASV", "RETR", "227"},
                via : Announced \cup {None}] :
            u.kind \in Slots => u.via \in {None} \cup ({u.kind} \X Nat)}

SocketType == [in : Seq(Unit), out : Seq(Unit), sent : Nat, got : Seq(Unit),
               peer : {"none", "open", "finished", "reset"}]

Rpcs == {"dial", "poll", "dispatch", "write", "dialData", "ended"}

SockType == sock \in [Pairs -> [Sides -> SocketType]]

ProcessType ==
    /\ supportftp \in {0, 1} /\ rpc \in Rpcs /\ pair \in Pairs
    /\ revents \in [Pairs -> SUBSET (Sides \cup Slots)] /\ revents["data"] \subseteq Sides
    /\ buf \in Seq(Unit) /\ to \in Sides

client == sock["control"]["connect"]
server == sock["control"]["remote"]

\* What the process holds of the direction from s.
InHand(p, s) == IF rpc = "write" /\ pair = p /\ to = Other(s) THEN buf ELSE <<>>

\* Units in the order they were sent, from number k + 1 on.
Numbered(units, k) == \A i \in 1..Len(units) : units[i].n = k + i

\* How much has been read of what a socket received.
Read(from) == from.sent - Len(from.in)

Counted(from, there) ==
    /\ Len(from.in) <= from.sent
    /\ Numbered(from.in, Read(from))
    /\ Len(there.got) + Len(there.out) <= Read(from)

\* What has been read is on its way to the other side, or there.
Passed(from, there, hand) ==
    /\ Numbered(there.got, 0)
    /\ Numbered(there.out, Len(there.got))
    /\ Numbered(hand, Len(there.got) + Len(there.out))
    /\ Len(there.got) + Len(there.out) + Len(hand) = Read(from)

Intact == \A p \in Pairs, s \in Sides :
    /\ Counted(sock[p][s], sock[p][Other(s)])
    /\ rpc # "ended" /\ sock[p][Other(s)].peer # "reset" =>
          Passed(sock[p][s], sock[p][Other(s)], InHand(p, s))

\* A socket that is not connected yet has received nothing and been given nothing.
Unconnected ==
    /\ rpc = "dial" => server = Socket("none") /\ opened = {}
    /\ rpc = "dialData" => sock["data"]["remote"] = Socket("none") /\ pair = "control"

\* A command at a time, and a reply to each.
Alternate == supportftp = 1 =>
    /\ client.sent <= Len(client.got) + 1
    /\ server.sent <= Len(server.got)

\* The listening sockets: each is numbered by a message that has been read.
Announcer(l) == IF l[1] = "PORT" THEN client ELSE server

Listeners ==
    /\ opened \subseteq Announced /\ pending \subseteq opened
    /\ listener \in [Slots -> Announced \cup {None}]
    /\ \A l \in Slots : listener[l] # None => listener[l][1] = l /\ listener[l] \in opened
    /\ opened # {} => supportftp = 1
    /\ \A l \in opened : l[2] <= Read(Announcer(l))

Ready(l) == listener[l] \in pending

Reported(fd) == fd \in revents["control"]

\* What the round of the control loop has still to look at is there.
Round ==
    /\ rpc \in {"dial", "poll"} /\ pair = "control" => revents["control"] = {}
    /\ \A s \in Sides : Reported(s) /\ sock["control"][s].in = <<>> => Gone("control", s)
    /\ \A l \in Slots : Reported(l) => Ready(l)

\* The server has connected for a transfer: the client waits for the reply, and the relay
\* reads no command before it has accepted.
PortWaits == Ready("PORT") =>
    /\ \/ client.in = <<>> /\ (server.sent < Len(server.got) \/ server.in # <<>>)
       \/ Reported("PORT") /\ ~Reported("connect")
    /\ server.in # <<>> /\ Reported("remote") => Reported("PORT")

\* The client has connected for a transfer before its next command: the relay reads no
\* reply to that before it has accepted.
PasvWaits == Ready("227") =>
    /\ \/ server.in = <<>> /\ \/ client.sent = Len(client.got) \/ client.in # <<>>
                              \/ Gone("control", "remote")
       \/ Reported("227") /\ ~Reported("remote")
    /\ client.in # <<>> /\ Reported("connect") => Reported("227")

Waits == Round /\ PortWaits /\ PasvWaits

RelayInv ==
    /\ SockType /\ ProcessType /\ Intact /\ Unconnected /\ Alternate
    /\ Listeners /\ Waits

-----------------------------------------------------------------------------
(* Sockets and sequences of units.                                          *)

\* A new socket has received nothing.
LEMMA NewSocket ==
    ASSUME NEW kind \in {"none", "open"}
    PROVE  /\ Socket(kind) \in SocketType
           /\ Socket(kind).in = <<>> /\ Socket(kind).out = <<>> /\ Socket(kind).got = <<>>
           /\ Socket(kind).sent = 0 /\ Socket(kind).peer = kind
  BY DEF Socket, SocketType

\* Closing a socket touches nothing that is on its way.
LEMMA ClosedSocket ==
    ASSUME SockType, NEW p \in Pairs, NEW s \in Sides
    PROVE  /\ Closed(p, s) \in SocketType
           /\ Closed(p, s).in = sock[p][s].in /\ Closed(p, s).out = sock[p][s].out
           /\ Closed(p, s).got = sock[p][s].got /\ Closed(p, s).sent = sock[p][s].sent
           /\ Closed(p, s).peer = "reset" <=> sock[p][s].peer = "reset"
           /\ Gone(p, s) => Closed(p, s).peer \in {"finished", "reset"}
  <1>1. sock[p][s] \in SocketType
    BY DEF SockType
  <1> QED
    BY <1>1 DEF Closed, SocketType, Gone

\* Each side has another.
LEMMA OtherSide ==
    ASSUME NEW s \in Sides
    PROVE  Other(s) \in Sides /\ Other(s) # s /\ Other(Other(s)) = s
  BY DEF Other, Sides

\* The first k units, and the rest.
LEMMA Cut ==
    ASSUME NEW units \in Seq(Unit), NEW k \in 0..Len(units)
    PROVE  /\ SubSeq(units, 1, k) \in Seq(Unit)
           /\ Len(SubSeq(units, 1, k)) = k
           /\ \A i \in 1..k : SubSeq(units, 1, k)[i] = units[i]
           /\ SubSeq(units, k + 1, Len(units)) \in Seq(Unit)
           /\ Len(SubSeq(units, k + 1, Len(units))) = Len(units) - k
           /\ \A i \in 1..(Len(units) - k) :
                 SubSeq(units, k + 1, Len(units))[i] = units[k + i]
  <1>1. \A i \in 1..Len(units) : units[i] \in Unit
    OBVIOUS
  <1>2. SubSeq(units, 1, k) \in Seq(Unit) /\ Len(SubSeq(units, 1, k)) = k
    BY <1>1
  <1>3. /\ SubSeq(units, k + 1, Len(units)) \in Seq(Unit)
        /\ Len(SubSeq(units, k + 1, Len(units))) = Len(units) - k
    BY <1>1
  <1> QED
    BY <1>2, <1>3

\* One sequence after another.
LEMMA Joined ==
    ASSUME NEW a \in Seq(Unit), NEW b \in Seq(Unit)
    PROVE  /\ a \o b \in Seq(Unit) /\ Len(a \o b) = Len(a) + Len(b)
           /\ \A i \in 1..Len(a) : (a \o b)[i] = a[i]
           /\ \A i \in 1..Len(b) : (a \o b)[Len(a) + i] = b[i]
  OBVIOUS

\* One more unit.
LEMMA Appended ==
    ASSUME NEW a \in Seq(Unit), NEW u \in Unit
    PROVE  /\ Append(a, u) \in Seq(Unit) /\ Len(Append(a, u)) = Len(a) + 1
           /\ \A i \in 1..Len(a) : Append(a, u)[i] = a[i]
           /\ Append(a, u)[Len(a) + 1] = u
  OBVIOUS

\* One unit less.
LEMMA Shortened ==
    ASSUME NEW a \in Seq(Unit), a # <<>>
    PROVE  /\ Head(a) \in Unit /\ Head(a) = a[1] /\ Len(a) \in Nat \ {0}
           /\ Tail(a) \in Seq(Unit) /\ Len(Tail(a)) = Len(a) - 1
           /\ \A i \in 1..(Len(a) - 1) : Tail(a)[i] = a[i + 1]
  OBVIOUS

-----------------------------------------------------------------------------
(* One direction, when something is sent, read, written or taken.           *)

\* Nothing has happened that the direction depends on.
LEMMA DirectionKept ==
    ASSUME NEW a \in SocketType, NEW b \in SocketType,
           NEW a2 \in SocketType, NEW b2 \in SocketType,
           a2.in = a.in, a2.sent = a.sent, b2.got = b.got, b2.out = b.out
    PROVE  /\ Counted(a, b) => Counted(a2, b2)
           /\ \A hand : Passed(a, b, hand) => Passed(a2, b2, hand)
  BY DEF Counted, Passed, Read

\* What is sent is next after what was sent.
LEMMA DirectionSent ==
    ASSUME NEW a \in SocketType, NEW b \in SocketType, NEW a2 \in SocketType, NEW u \in Unit,
           a2.in = Append(a.in, u), a2.sent = a.sent + 1, u.n = a.sent + 1, Counted(a, b)
    PROVE  /\ Counted(a2, b)
           /\ \A hand : Passed(a, b, hand) => Passed(a2, b, hand)
  <1> /\ a.in \in Seq(Unit) /\ a.sent \in Nat /\ Len(a.in) \in Nat /\ Len(a.in) <= a.sent
      /\ Len(b.got) \in Nat /\ Len(b.out) \in Nat
    BY DEF SocketType, Counted
  <1>1. /\ Len(a2.in) = Len(a.in) + 1 /\ Read(a2) = Read(a) /\ Read(a) \in Nat
        /\ Read(a) = a.sent - Len(a.in)
    BY Appended DEF Read
  <1>2. ASSUME NEW i \in 1..Len(a2.in) PROVE a2.in[i].n = Read(a2) + i
    <2>1. CASE i \in 1..Len(a.in)
      BY <1>1, <2>1, Appended DEF Counted, Numbered
    <2>2. CASE i = Len(a.in) + 1
      BY <1>1, <2>2, Appended
    <2> QED
      BY <1>1, <1>2, <2>1, <2>2
  <1>3. Counted(a2, b)
    <2>1. Len(a2.in) <= a2.sent
      BY <1>1
    <2>2. Len(b.got) + Len(b.out) <= Read(a2)
      BY <1>1 DEF Counted
    <2> QED
      BY <1>2, <2>1, <2>2 DEF Counted, Numbered
  <1>4. ASSUME NEW hand, Passed(a, b, hand) PROVE Passed(a2, b, hand)
    BY <1>1, <1>4 DEF Passed
  <1> QED
    BY <1>3, <1>4

\* The peer takes what comes first.
LEMMA DirectionTaken ==
    ASSUME NEW a \in SocketType, NEW b \in SocketType, NEW b2 \in SocketType,
           b.out # <<>>, b2.got = Append(b.got, Head(b.out)), b2.out = Tail(b.out)
    PROVE  /\ Counted(a, b) => Counted(a, b2)
           /\ \A hand : Passed(a, b, hand) => Passed(a, b2, hand)
  <1>0. /\ b.out \in Seq(Unit) /\ b.got \in Seq(Unit) /\ a.sent \in Nat /\ Len(a.in) \in Nat
        /\ Len(b.got) \in Nat /\ Len(b.out) \in Nat
    BY Shortened DEF SocketType
  <1>1. /\ Len(b2.got) = Len(b.got) + 1 /\ Len(b2.out) = Len(b.out) - 1
    BY <1>0, Appended, Shortened
  <1> DEFINE m == Len(b.got)  m2 == Len(b2.got)  n == Len(b.out)  n2 == Len(b2.out)
  <1>4. m \in Nat /\ n \in Nat /\ m2 = m + 1 /\ n2 = n - 1
    BY <1>0, <1>1
  <1>5. m2 + n2 = m + n /\ \A i \in Nat : m2 + i = m + (i + 1)
    <2> HIDE DEF m, n, m2, n2
    <2> QED
      BY <1>4
  <1>2. ASSUME NEW hand, Passed(a, b, hand) PROVE Passed(a, b2, hand)
    <2>1. ASSUME NEW i \in 1..Len(b2.got) PROVE b2.got[i].n = 0 + i
      <3>1. CASE i \in 1..Len(b.got)
        BY <1>0, <1>2, <3>1, Appended, Shortened DEF Passed, Numbered
      <3>2. CASE i = Len(b.got) + 1
        <4>1. b2.got[i] = b.out[1] /\ 1 \in 1..Len(b.out)
          BY <1>0, <3>2, Appended, Shortened
        <4>2. b.out[1].n = Len(b.got) + 1
          BY <4>1, <1>2 DEF Passed, Numbered
        <4> QED
          BY <4>1, <4>2, <3>2
      <3>3. i \in 1..Len(b.got) \/ i = Len(b.got) + 1
        BY <1>0, <1>1, <2>1
      <3> QED
        BY <3>1, <3>2, <3>3
    <2>2. ASSUME NEW i \in 1..Len(b2.out) PROVE b2.out[i].n = Len(b2.got) + i
      <3>1. b2.out[i] = b.out[i + 1] /\ i + 1 \in 1..Len(b.out) /\ i \in Nat
        BY <1>0, <1>1, <2>2, Shortened
      <3>2. b.out[i + 1].n = Len(b.got) + (i + 1)
        BY <3>1, <1>2 DEF Passed, Numbered
      <3>3. Len(b2.got) + i = Len(b.got) + (i + 1)
        BY <3>1, <1>5
      <3> QED
        BY <3>1, <3>2, <3>3
    <2>3. Numbered(b2.got, 0) /\ Numbered(b2.out, Len(b2.got))
      BY <2>1, <2>2 DEF Numbered
    <2> QED
      BY <1>5, <1>2, <2>3 DEF Passed
  <1>3. Counted(a, b) => Counted(a, b2)
    BY <1>5 DEF Counted
  <1> QED
    BY <1>2, <1>3

\* What a peer that is reset has not taken is forgotten.
LEMMA DirectionReset ==
    ASSUME NEW a \in SocketType, NEW b \in SocketType, NEW b2 \in SocketType,
           b2.got = b.got, b2.out = <<>>, Counted(a, b)
    PROVE  Counted(a, b2)
  <1> DEFINE m == Len(b.got)  n == Len(b.out)
  <1>1. m \in Nat /\ n \in Nat /\ Read(a) \in Int
    BY DEF SocketType, Read
  <1>2. m + n <= Read(a) => m + 0 <= Read(a)
    <2> HIDE DEF m, n
    <2> QED
      BY <1>1
  <1> QED
    BY <1>1, <1>2 DEF Counted

\* What is read is next after what has been read; it is held as it was received.
LEMMA DirectionRead ==
    ASSUME NEW a \in SocketType, NEW b \in SocketType, NEW a2 \in SocketType,
           NEW k \in 1..Len(a.in), NEW hand \in Seq(Unit), Counted(a, b),
           a2.in = SubSeq(a.in, k + 1, Len(a.in)), a2.sent = a.sent,
           Len(hand) = k, \A i \in 1..k : hand[i].n = a.in[i].n
    PROVE  /\ Counted(a2, b) /\ Read(a2) = Read(a) + k
           /\ Passed(a, b, <<>>) => Passed(a2, b, hand)
  <1> DEFINE m == Len(b.got)  n == Len(b.out)  l == Len(a.in)
  <1>1. /\ m \in Nat /\ n \in Nat /\ l \in Nat /\ a.sent \in Nat /\ a.in \in Seq(Unit)
        /\ k \in 0..l /\ k \in Nat
    BY DEF SocketType
  <1>2. /\ Len(a2.in) = l - k
        /\ \A i \in 1..(l - k) : a2.in[i] = a.in[k + i]
    BY <1>1, Cut
  <1>3. Read(a) = a.sent - l /\ Read(a2) = a.sent - (l - k)
    BY <1>2 DEF Read
  <1>4. l <= a.sent /\ m + n <= Read(a) /\ \A i \in 1..l : a.in[i].n = Read(a) + i
    BY DEF Counted, Numbered
  <1>5. ASSUME NEW i \in 1..(l - k) PROVE a2.in[i].n = Read(a2) + i
    <2>1. k + i \in 1..l /\ i \in Nat
      BY <1>1, <1>5
    <2>2. a2.in[i].n = Read(a) + (k + i)
      BY <2>1, <1>2, <1>4
    <2>3. Read(a) + (k + i) = Read(a2) + i
      <3> HIDE DEF l
      <3> QED
        BY <2>1, <1>1, <1>3
    <2> QED
      BY <2>2, <2>3
  <1>6. Read(a2) = Read(a) + k /\ l - k <= a.sent /\ m + n <= Read(a2)
    <2> HIDE DEF m, n, l
    <2> QED
      BY <1>1, <1>3, <1>4
  <1>7. Counted(a2, b)
    BY <1>2, <1>5, <1>6 DEF Counted, Numbered
  <1>8. ASSUME Passed(a, b, <<>>) PROVE Passed(a2, b, hand)
    <2>1. m + n + 0 = Read(a) /\ Len(<<>>) = 0
      BY <1>8 DEF Passed
    <2>2. Read(a) = m + n /\ m + n + k = Read(a2)
      <3> HIDE DEF m, n, l
      <3> QED
        BY <2>1, <1>1, <1>6
    <2>3. \A i \in 1..Len(hand) : hand[i].n = m + n + i
      <3>1. \A i \in 1..k : i \in 1..l
        BY <1>1
      <3> QED
        BY <3>1, <1>4, <2>2
    <2> QED
      BY <2>2, <2>3, <1>8 DEF Passed, Numbered
  <1> QED
    BY <1>6, <1>7, <1>8

\* What is written follows what has been written; the rest is next.
LEMMA DirectionWritten ==
    ASSUME NEW a \in SocketType, NEW b \in SocketType, NEW b2 \in SocketType,
           NEW hand \in Seq(Unit), NEW k \in 1..Len(hand),
           b2.out = b.out \o SubSeq(hand, 1, k), b2.got = b.got,
           Counted(a, b), Passed(a, b, hand)
    PROVE  Counted(a, b2) /\ Passed(a, b2, SubSeq(hand, k + 1, Len(hand)))
  <1> DEFINE m == Len(b.got)  n == Len(b.out)  h == Len(hand)
             first == SubSeq(hand, 1, k)  rest == SubSeq(hand, k + 1, Len(hand))
  <1>1. /\ m \in Nat /\ n \in Nat /\ h \in Nat /\ b.out \in Seq(Unit)
        /\ k \in 0..h /\ k \in Nat /\ k <= h /\ Read(a) \in Int
    BY DEF SocketType, Read
  <1>2. /\ first \in Seq(Unit) /\ Len(first) = k /\ \A i \in 1..k : first[i] = hand[i]
        /\ rest \in Seq(Unit) /\ Len(rest) = h - k
        /\ \A i \in 1..(h - k) : rest[i] = hand[k + i]
    BY <1>1, Cut
  <1> HIDE DEF first, rest
  <1>3. b2.out = b.out \o first
    BY DEF first
  <1>4. /\ Len(b2.out) = n + k
        /\ \A i \in 1..n : b2.out[i] = b.out[i]
        /\ \A i \in 1..k : b2.out[n + i] = hand[i]
    BY <1>1, <1>2, <1>3, Joined
  <1>5. /\ \A i \in 1..n : b.out[i].n = m + i
        /\ \A i \in 1..h : hand[i].n = (m + n) + i
        /\ m + n + h = Read(a) /\ Numbered(b.got, 0)
    BY DEF Passed, Numbered
  <1>6. ASSUME NEW i \in 1..(n + k) PROVE b2.out[i].n = m + i
    <2>1. CASE i \in 1..n
      BY <2>1, <1>4, <1>5
    <2>2. CASE i \in (n + 1)..(n + k)
      <3>1. PICK j \in 1..k : i = n + j
        <4>1. i - n \in 1..k /\ i = n + (i - n)
          BY <2>2, <1>1
        <4> QED
          BY <4>1
      <3>2. b2.out[i].n = (m + n) + j
        <4>1. j \in 1..h
          BY <1>1
        <4> QED
          BY <3>1, <1>4, <1>5, <4>1
      <3>3. (m + n) + j = m + i
        <4> HIDE DEF m, n, h
        <4> QED
          BY <3>1, <1>1
      <3> QED
        BY <3>2, <3>3
    <2>3. i \in 1..n \/ i \in (n + 1)..(n + k)
      BY <1>1
    <2> QED
      BY <2>1, <2>2, <2>3
  <1>7. ASSUME NEW i \in 1..(h - k) PROVE rest[i].n = (m + (n + k)) + i
    <2>1. k + i \in 1..h /\ i \in Nat
      BY <1>1
    <2>2. rest[i].n = (m + n) + (k + i)
      BY <2>1, <1>2, <1>5
    <2>3. (m + n) + (k + i) = (m + (n + k)) + i
      <3> HIDE DEF m, n, h
      <3> QED
        BY <2>1, <1>1
    <2> QED
      BY <2>2, <2>3
  <1>8. m + (n + k) <= Read(a) /\ (m + (n + k)) + (h - k) = Read(a)
    <2> HIDE DEF m, n, h
    <2> QED
      BY <1>1, <1>5
  <1>9. Passed(a, b2, rest)
    BY <1>2, <1>4, <1>5, <1>6, <1>7, <1>8 DEF Passed, Numbered
  <1>10. Counted(a, b2)
    BY <1>4, <1>8 DEF Counted
  <1> QED
    BY <1>9, <1>10 DEF rest

-----------------------------------------------------------------------------
(* Nothing is lost, doubled or overtaken: one step per action.              *)

\* When one socket changes, the two directions it belongs to have to be looked at.
LEMMA IntactWhenPut ==
    ASSUME SockType, Intact, NEW p \in Pairs, NEW s \in Sides, NEW r \in SocketType,
           sock' = [sock EXCEPT ![p][s] = r], rpc # "ended" \/ rpc' = "ended",
           \A q \in Pairs, t \in Sides : q # p => InHand(q, t)' = InHand(q, t),
           Counted(r, sock[p][Other(s)]), Counted(sock[p][Other(s)], r),
           rpc # "ended" /\ sock[p][Other(s)].peer # "reset" =>
               Passed(r, sock[p][Other(s)], InHand(p, s)'),
           rpc # "ended" /\ r.peer # "reset" =>
               Passed(sock[p][Other(s)], r, InHand(p, Other(s))')
    PROVE  SockType' /\ Intact'
  <1>1. /\ SockType' /\ sock'[p][s] = r
        /\ \A q \in Pairs, t \in Sides :
              (q # p \/ t # s) => sock'[q][t] = sock[q][t]
    BY DEF SockType
  <1>2. /\ Other(s) \in Sides /\ Other(s) # s /\ Other(Other(s)) = s
        /\ sock'[p][Other(s)] = sock[p][Other(s)]
    BY <1>1, OtherSide
  <1>3. ASSUME NEW q \in Pairs, NEW t \in Sides
        PROVE  /\ Counted(sock'[q][t], sock'[q][Other(t)])
               /\ rpc' # "ended" /\ sock'[q][Other(t)].peer # "reset" =>
                     Passed(sock'[q][t], sock'[q][Other(t)], InHand(q, t)')
    <2>1. CASE q # p
      <3>1. sock'[q][t] = sock[q][t] /\ sock'[q][Other(t)] = sock[q][Other(t)]
        BY <1>1, <2>1, OtherSide
      <3>2. InHand(q, t)' = InHand(q, t)
        BY <2>1
      <3> QED
        BY <3>1, <3>2 DEF Intact
    <2>2. CASE q = p /\ t = s
      BY <1>1, <1>2, <2>2
    <2>3. CASE q = p /\ t = Other(s)
      BY <1>1, <1>2, <2>3
    <2>4. t = s \/ t = Other(s)
      BY DEF Other, Sides
    <2> QED
      BY <2>1, <2>2, <2>3, <2>4
  <1> QED
    BY <1>1, <1>3 DEF Intact

\* What is known of the two directions of a socket.
LEMMA DirectionsOf ==
    ASSUME SockType, Intact, NEW p \in Pairs, NEW s \in Sides
    PROVE  /\ sock[p][s] \in SocketType /\ sock[p][Other(s)] \in SocketType
           /\ Counted(sock[p][s], sock[p][Other(s)]) /\ Counted(sock[p][Other(s)], sock[p][s])
           /\ rpc # "ended" /\ sock[p][Other(s)].peer # "reset" =>
                 Passed(sock[p][s], sock[p][Other(s)], InHand(p, s))
           /\ rpc # "ended" /\ sock[p][s].peer # "reset" =>
                 Passed(sock[p][Other(s)], sock[p][s], InHand(p, Other(s)))
  BY OtherSide DEF SockType, Intact

\* No step of a peer is one of the process.
ProcessStays == UNCHANGED <<rpc, pair, buf, to>>

\* Then the process holds what it held.
LEMMA HandStays ==
    ASSUME ProcessStays
    PROVE  \A q \in Pairs, t \in Sides : InHand(q, t)' = InHand(q, t)
  BY DEF ProcessStays, InHand

\* A peer sends.
LEMMA SendKeepsIntact ==
    ASSUME SockType, Intact, NEW p \in Pairs, NEW s \in Sides,
           NEW kind \in {"any", "PORT", "PASV", "RETR", "227"}, SendUnit(p, s, kind, None)
    PROVE  SockType' /\ Intact'
  <1> DEFINE u == [n |-> sock[p][s].sent + 1, kind |-> kind, via |-> None]
             r == [sock[p][s] EXCEPT !.sent = @ + 1, !.in = Append(@, u)]
  <1>1. /\ sock[p][s] \in SocketType /\ sock[p][Other(s)] \in SocketType
    BY DirectionsOf
  <1>2. u \in Unit /\ u.n = sock[p][s].sent + 1
    BY <1>1 DEF Unit, SocketType
  <1>3. sock' = [sock EXCEPT ![p][s] = r] /\ ProcessStays
    BY <1>1 DEF SendUnit, ProcessStays, SockType, SocketType
  <1> DEFINE in2 == Append(sock[p][s].in, u)  sent2 == sock[p][s].sent + 1
  <1>a. in2 \in Seq(Unit) /\ sent2 \in Nat
    BY <1>1, <1>2, Appended DEF SocketType
  <1> HIDE DEF u, in2, sent2
  <1>b. r = [sock[p][s] EXCEPT !.sent = sent2, !.in = in2]
    BY DEF in2, sent2
  <1>4. /\ r \in SocketType /\ r.in = Append(sock[p][s].in, u) /\ r.sent = sock[p][s].sent + 1
        /\ r.out = sock[p][s].out /\ r.got = sock[p][s].got /\ r.peer = sock[p][s].peer
    <2>1. /\ r \in SocketType /\ r.in = in2 /\ r.sent = sent2
          /\ r.out = sock[p][s].out /\ r.got = sock[p][s].got /\ r.peer = sock[p][s].peer
      <3> HIDE DEF r
      <3> QED
        BY <1>1, <1>a, <1>b DEF SocketType
    <2> QED
      BY <2>1 DEF in2, sent2
  <1> HIDE DEF r
  <1>5. /\ Counted(r, sock[p][Other(s)])
        /\ \A hand : Passed(sock[p][s], sock[p][Other(s)], hand)
              => Passed(r, sock[p][Other(s)], hand)
    BY <1>1, <1>2, <1>4, DirectionSent, DirectionsOf
  <1>6. /\ Counted(sock[p][Other(s)], r)
        /\ \A hand : Passed(sock[p][Other(s)], sock[p][s], hand)
              => Passed(sock[p][Other(s)], r, hand)
    BY <1>1, <1>4, DirectionKept, DirectionsOf
  <1>7. InHand(p, s)' = InHand(p, s) /\ InHand(p, Other(s))' = InHand(p, Other(s))
    BY <1>3, HandStays, OtherSide
  <1>8. /\ rpc # "ended" /\ sock[p][Other(s)].peer # "reset" =>
               Passed(r, sock[p][Other(s)], InHand(p, s)')
        /\ rpc # "ended" /\ r.peer # "reset" =>
               Passed(sock[p][Other(s)], r, InHand(p, Other(s))')
    BY <1>4, <1>5, <1>6, <1>7, DirectionsOf
  <1>9. \A q \in Pairs, t \in Sides : q # p => InHand(q, t)' = InHand(q, t)
    BY <1>3, HandStays
  <1>10. rpc # "ended" \/ rpc' = "ended"
    BY <1>3 DEF ProcessStays
  <1> QED
    BY <1>3, <1>4, <1>5, <1>6, <1>8, <1>9, <1>10, IntactWhenPut

\* A peer takes what was written to it.
LEMMA TakeKeepsIntact ==
    ASSUME SockType, Intact, NEW p \in Pairs, NEW s \in Sides, PeerTake(p, s)
    PROVE  SockType' /\ Intact'
  <1> DEFINE r == [sock[p][s] EXCEPT !.got = Append(@, Head(sock[p][s].out)), !.out = Tail(@)]
  <1>1. /\ sock[p][s] \in SocketType /\ sock[p][Other(s)] \in SocketType
        /\ sock[p][s].out # <<>> /\ sock[p][s].peer # "reset"
    BY DirectionsOf DEF PeerTake
  <1>3. sock' = [sock EXCEPT ![p][s] = r] /\ ProcessStays
    BY <1>1 DEF PeerTake, ProcessStays, SockType, SocketType
  <1>4. /\ r \in SocketType /\ r.in = sock[p][s].in /\ r.sent = sock[p][s].sent
        /\ r.out = Tail(sock[p][s].out) /\ r.got = Append(sock[p][s].got, Head(sock[p][s].out))
        /\ r.peer = sock[p][s].peer
    BY <1>1, Appended, Shortened DEF SocketType
  <1> HIDE DEF r
  <1>5. /\ Counted(r, sock[p][Other(s)])
        /\ \A hand : Passed(sock[p][s], sock[p][Other(s)], hand)
              => Passed(r, sock[p][Other(s)], hand)
    BY <1>1, <1>4, DirectionKept, DirectionsOf
  <1>6. /\ Counted(sock[p][Other(s)], r)
        /\ \A hand : Passed(sock[p][Other(s)], sock[p][s], hand)
              => Passed(sock[p][Other(s)], r, hand)
    BY <1>1, <1>4, DirectionTaken, DirectionsOf
  <1>7. InHand(p, s)' = InHand(p, s) /\ InHand(p, Other(s))' = InHand(p, Other(s))
    BY <1>3, HandStays, OtherSide
  <1>8. /\ rpc # "ended" /\ sock[p][Other(s)].peer # "reset" =>
               Passed(r, sock[p][Other(s)], InHand(p, s)')
        /\ rpc # "ended" /\ r.peer # "reset" =>
               Passed(sock[p][Other(s)], r, InHand(p, Other(s))')
    BY <1>4, <1>5, <1>6, <1>7, DirectionsOf
  <1>9. \A q \in Pairs, t \in Sides : q # p => InHand(q, t)' = InHand(q, t)
    BY <1>3, HandStays
  <1>10. rpc # "ended" \/ rpc' = "ended"
    BY <1>3 DEF ProcessStays
  <1> QED
    BY <1>3, <1>4, <1>5, <1>6, <1>8, <1>9, <1>10, IntactWhenPut

\* Nothing more is expected of a socket that is finished or reset.
LEMMA GoneKeepsIntact ==
    ASSUME SockType, Intact, NEW p \in Pairs, NEW s \in Sides,
           PeerFinish(p, s) \/ PeerReset(p, s)
    PROVE  SockType' /\ Intact'
  <1> DEFINE kind == IF PeerReset(p, s) THEN "reset" ELSE "finished"
             r == [sock[p][s] EXCEPT !.peer = kind,
                                     !.out = IF kind = "reset" THEN <<>> ELSE @]
  <1>1. /\ sock[p][s] \in SocketType /\ sock[p][Other(s)] \in SocketType
        /\ kind = "finished" => sock[p][s].peer # "reset"
    BY DirectionsOf DEF PeerFinish, PeerReset
  <1>3. sock' = [sock EXCEPT ![p][s] = r] /\ ProcessStays
    <2>1. CASE PeerReset(p, s)
      <3>1. kind = "reset"
        BY <2>1
      <3>2. sock' = [sock EXCEPT ![p][s].peer = "reset", ![p][s].out = <<>>] /\ ProcessStays
        BY <2>1 DEF PeerReset, ProcessStays
      <3>3. r = [sock[p][s] EXCEPT !.peer = "reset", !.out = <<>>]
        BY <3>1
      <3> HIDE DEF r
      <3> QED
        BY <1>1, <3>2, <3>3 DEF SockType, SocketType
    <2>2. CASE ~PeerReset(p, s)
      BY <1>1, <2>2 DEF PeerFinish, ProcessStays, SockType, SocketType
    <2> QED
      BY <2>1, <2>2
  <1>4. /\ r \in SocketType /\ r.in = sock[p][s].in /\ r.sent = sock[p][s].sent
        /\ r.got = sock[p][s].got /\ r.peer = kind
        /\ kind \in {"reset", "finished"}
        /\ r.out = IF kind = "reset" THEN <<>> ELSE sock[p][s].out
    <2> DEFINE out2 == IF kind = "reset" THEN <<>> ELSE sock[p][s].out
    <2>1. kind \in {"reset", "finished"} /\ out2 \in Seq(Unit)
      BY <1>1 DEF SocketType
    <2>2. r = [sock[p][s] EXCEPT !.peer = kind, !.out = out2]
      OBVIOUS
    <2> HIDE DEF r, kind, out2
    <2>3. /\ r \in SocketType /\ r.in = sock[p][s].in /\ r.sent = sock[p][s].sent
          /\ r.got = sock[p][s].got /\ r.peer = kind /\ r.out = out2
      BY <1>1, <2>1, <2>2 DEF SocketType
    <2> QED
      BY <2>1, <2>3 DEF out2
  <1> HIDE DEF r, kind
  <1>5. /\ Counted(r, sock[p][Other(s)])
        /\ \A hand : Passed(sock[p][s], sock[p][Other(s)], hand)
              => Passed(r, sock[p][Other(s)], hand)
    BY <1>1, <1>4, DirectionKept, DirectionsOf
  <1>6. /\ Counted(sock[p][Other(s)], r)
        /\ kind = "finished" =>
              \A hand : Passed(sock[p][Other(s)], sock[p][s], hand)
                 => Passed(sock[p][Other(s)], r, hand)
    <2>1. CASE kind = "reset"
      BY <1>1, <1>4, <2>1, DirectionReset, DirectionsOf
    <2>2. CASE kind = "finished"
      BY <1>1, <1>4, <2>2, DirectionKept, DirectionsOf
    <2> QED
      BY <1>4, <2>1, <2>2
  <1>7. InHand(p, s)' = InHand(p, s) /\ InHand(p, Other(s))' = InHand(p, Other(s))
    BY <1>3, HandStays, OtherSide
  <1>8. /\ rpc # "ended" /\ sock[p][Other(s)].peer # "reset" =>
               Passed(r, sock[p][Other(s)], InHand(p, s)')
        /\ rpc # "ended" /\ r.peer # "reset" =>
               Passed(sock[p][Other(s)], r, InHand(p, Other(s))')
    BY <1>1, <1>4, <1>5, <1>6, <1>7, DirectionsOf
  <1>9. \A q \in Pairs, t \in Sides : q # p => InHand(q, t)' = InHand(q, t)
    BY <1>3, HandStays
  <1>10. rpc # "ended" \/ rpc' = "ended"
    BY <1>3 DEF ProcessStays
  <1> QED
    BY <1>3, <1>4, <1>5, <1>6, <1>8, <1>9, <1>10, IntactWhenPut

\* Sockets may be closed, and what is held for a reset connection forgotten.
LEMMA ClosingKeepsIntact ==
    ASSUME SockType, Intact, SockType', rpc # "ended" \/ rpc' = "ended",
           \A q \in Pairs, t \in Sides :
               /\ sock'[q][t] = sock[q][t] \/ sock'[q][t] = Closed(q, t)
               /\ rpc' # "ended" /\ sock[q][Other(t)].peer # "reset" =>
                     InHand(q, t)' = InHand(q, t)
    PROVE  Intact'
  <1>1. ASSUME NEW q \in Pairs, NEW t \in Sides
        PROVE  /\ sock[q][t] \in SocketType /\ sock'[q][t] \in SocketType
               /\ sock'[q][t].in = sock[q][t].in /\ sock'[q][t].out = sock[q][t].out
               /\ sock'[q][t].got = sock[q][t].got /\ sock'[q][t].sent = sock[q][t].sent
               /\ sock'[q][t].peer = "reset" <=> sock[q][t].peer = "reset"
    BY ClosedSocket DEF SockType
  <1>2. ASSUME NEW q \in Pairs, NEW t \in Sides
        PROVE  /\ Counted(sock'[q][t], sock'[q][Other(t)])
               /\ rpc' # "ended" /\ sock'[q][Other(t)].peer # "reset" =>
                     Passed(sock'[q][t], sock'[q][Other(t)], InHand(q, t)')
    <2>1. Other(t) \in Sides
      BY OtherSide
    <2>2. /\ Counted(sock'[q][t], sock'[q][Other(t)])
          /\ \A hand : Passed(sock[q][t], sock[q][Other(t)], hand)
                => Passed(sock'[q][t], sock'[q][Other(t)], hand)
      BY <2>1, <1>1, DirectionKept, DirectionsOf
    <2>3. ASSUME rpc' # "ended", sock'[q][Other(t)].peer # "reset"
          PROVE  Passed(sock'[q][t], sock'[q][Other(t)], InHand(q, t)')
      <3>1. rpc # "ended" /\ sock[q][Other(t)].peer # "reset" /\ InHand(q, t)' = InHand(q, t)
        BY <2>1, <2>3, <1>1
      <3> QED
        BY <3>1, <2>2, DirectionsOf
    <2> QED
      BY <2>2, <2>3
  <1> QED
    BY <1>2 DEF Intact

\* The process ends.
LEMMA EndsKeepsIntact ==
    ASSUME SockType, Intact, Ends
    PROVE  SockType' /\ Intact'
  <1>1. rpc' = "ended" /\ sock' = [p \in Pairs |-> [s \in Sides |-> Closed(p, s)]]
    BY DEF Ends
  <1>2. SockType' /\ \A q \in Pairs, t \in Sides : sock'[q][t] = Closed(q, t)
    BY <1>1, ClosedSocket DEF SockType
  <1> QED
    BY <1>1, <1>2, ClosingKeepsIntact

\* A data connection is left.
LEMMA LeaveKeepsIntact ==
    ASSUME SockType, ProcessType, Intact, DataEnd
    PROVE  SockType' /\ Intact'
  <1>1. /\ pair = "data" /\ rpc' = "dispatch" /\ buf' = <<>> /\ to' = to
        /\ sock' = [sock EXCEPT !["data"] = [s \in Sides |-> Closed("data", s)]]
    BY DEF DataEnd, LeaveData
  <1>2. /\ SockType'
        /\ \A q \in Pairs, t \in Sides :
              sock'[q][t] = sock[q][t] \/ sock'[q][t] = Closed(q, t)
    BY <1>1, ClosedSocket DEF SockType, Pairs
  <1>3. rpc = "dispatch" \/ (rpc = "write" /\ sock[pair][to].peer = "reset")
    BY DEF DataEnd, ReadEnd, Turn, WriteError
  <1>4. ASSUME NEW q \in Pairs, NEW t \in Sides, sock[q][Other(t)].peer # "reset"
        PROVE  InHand(q, t)' = InHand(q, t)
    BY <1>1, <1>3, <1>4 DEF InHand
  <1> QED
    BY <1>1, <1>2, <1>3, <1>4, ClosingKeepsIntact

\* Steps of the process that do not touch what is on its way.
LEMMA QuietKeepsIntact ==
    ASSUME SockType, Intact,
           Poll \/ EndRound \/ Written \/ DataUnreachable
    PROVE  SockType' /\ Intact'
  <1>1. /\ SockType' /\ rpc # "ended"
        /\ \A q \in Pairs, t \in Sides :
              sock'[q][t] = sock[q][t] \/ sock'[q][t] = Closed(q, t)
    <2>1. CASE Poll \/ EndRound \/ Written
      BY <2>1 DEF Poll, EndRound, Written, SockType
    <2>2. CASE DataUnreachable
      BY <2>2, ClosedSocket DEF DataUnreachable, SockType, Pairs, Sides
    <2> QED
      BY <2>1, <2>2
  <1>2. \A q \in Pairs, t \in Sides : InHand(q, t)' = InHand(q, t)
    BY DEF InHand, Poll, EndRound, Written, DataUnreachable
  <1> QED
    BY <1>1, <1>2, ClosingKeepsIntact

\* A server is reached.
LEMMA ReachKeepsIntact ==
    ASSUME SockType, ProcessType, Intact, Unconnected, Reach \/ ReachData
    PROVE  SockType' /\ Intact'
  <1>1. PICK p \in Pairs : /\ sock' = [sock EXCEPT ![p]["remote"] = Socket("open")]
                           /\ sock[p]["remote"] = Socket("none")
    BY DEF Reach, ReachData, Unconnected, server, Pairs
  <1>2. rpc' = "poll" /\ rpc # "ended" /\ rpc # "write"
    BY DEF Reach, ReachData
  <1>3. \A q \in Pairs, t \in Sides : InHand(q, t)' = <<>> /\ InHand(q, t) = <<>>
    BY <1>2 DEF InHand
  <1> DEFINE s == "remote"  r == Socket("open")  old == Socket("none")
  <1>4. /\ s \in Sides /\ Other(s) \in Sides /\ sock[p][Other(s)] \in SocketType
        /\ r \in SocketType /\ old \in SocketType /\ r.in = old.in /\ r.out = old.out
        /\ r.got = old.got /\ r.sent = old.sent /\ old.peer # "reset"
    BY NewSocket DEF Sides, Other, SockType
  <1>5. sock' = [sock EXCEPT ![p][s] = r] /\ sock[p][s] = old
    BY <1>1
  <1> HIDE DEF s, r, old
  <1>6. /\ Counted(old, sock[p][Other(s)]) /\ Counted(sock[p][Other(s)], old)
        /\ sock[p][Other(s)].peer # "reset" => Passed(old, sock[p][Other(s)], <<>>)
        /\ Passed(sock[p][Other(s)], old, <<>>)
    BY <1>2, <1>3, <1>4, <1>5, DirectionsOf
  <1>7. /\ Counted(r, sock[p][Other(s)]) /\ Counted(sock[p][Other(s)], r)
        /\ sock[p][Other(s)].peer # "reset" => Passed(r, sock[p][Other(s)], <<>>)
        /\ Passed(sock[p][Other(s)], r, <<>>)
    BY <1>4, <1>6, DirectionKept
  <1>8. InHand(p, s)' = <<>> /\ InHand(p, Other(s))' = <<>>
    BY <1>3, <1>4
  <1>9. /\ \A q \in Pairs, t \in Sides : q # p => InHand(q, t)' = InHand(q, t)
        /\ rpc # "ended" \/ rpc' = "ended"
    BY <1>2, <1>3
  <1>10. /\ rpc # "ended" /\ sock[p][Other(s)].peer # "reset" =>
               Passed(r, sock[p][Other(s)], InHand(p, s)')
         /\ rpc # "ended" /\ r.peer # "reset" =>
               Passed(sock[p][Other(s)], r, InHand(p, Other(s))')
    BY <1>7, <1>8
  <1> QED
    BY <1>4, <1>5, <1>7, <1>9, <1>10, IntactWhenPut

\* A data connection is accepted.
LEMMA AcceptKeepsIntact ==
    ASSUME SockType, ProcessType, Intact, NEW l \in Slots, AcceptData(l)
    PROVE  SockType' /\ Intact'
  <1> DEFINE new(s) == Socket(IF s = "connect" THEN "open" ELSE "none")
  <1>1. /\ sock' = [sock EXCEPT !["data"] = [s \in Sides |-> new(s)]]
        /\ rpc = "dispatch" /\ rpc' = "dialData"
    BY DEF AcceptData, Turn
  <1>2. \A q \in Pairs, t \in Sides : InHand(q, t)' = <<>> /\ InHand(q, t) = <<>>
    BY <1>1 DEF InHand
  <1>3. \A s \in Sides : /\ new(s) \in SocketType /\ new(s).in = <<>> /\ new(s).out = <<>>
                         /\ new(s).got = <<>> /\ new(s).sent = 0
    BY NewSocket
  <1> HIDE DEF new
  <1>4. SockType' /\ \A s \in Sides : sock'["data"][s] = new(s) /\ sock'["control"][s] = sock["control"][s]
    BY <1>1, <1>3 DEF SockType, Pairs
  <1>5. \A s, t \in Sides : Counted(new(s), new(t)) /\ Passed(new(s), new(t), <<>>)
    <2>1. Len(<<>>) = 0 /\ \A n : Numbered(<<>>, n)
      BY DEF Numbered
    <2> SUFFICES ASSUME NEW s \in Sides, NEW t \in Sides
                 PROVE  Counted(new(s), new(t)) /\ Passed(new(s), new(t), <<>>)
      OBVIOUS
    <2>2. Read(new(s)) = 0 /\ Len(new(s).in) = 0 /\ Len(new(t).got) = 0 /\ Len(new(t).out) = 0
      BY <1>3, <2>1 DEF Read
    <2>3. \A n : Numbered(new(s).in, n) /\ Numbered(new(t).got, n) /\ Numbered(new(t).out, n)
      BY <1>3, <2>1
    <2>4. Counted(new(s), new(t))
      BY <1>3, <2>2, <2>3 DEF Counted
    <2>5. Passed(new(s), new(t), <<>>)
      BY <2>1, <2>2, <2>3 DEF Passed
    <2> QED
      BY <2>4, <2>5
  <1>6. ASSUME NEW q \in Pairs, NEW t \in Sides
        PROVE  /\ Counted(sock'[q][t], sock'[q][Other(t)])
               /\ rpc' # "ended" /\ sock'[q][Other(t)].peer # "reset" =>
                     Passed(sock'[q][t], sock'[q][Other(t)], InHand(q, t)')
    <2>1. Other(t) \in Sides
      BY OtherSide
    <2>2. CASE q = "data"
      BY <2>1, <2>2, <1>2, <1>4, <1>5
    <2>3. CASE q = "control"
      BY <2>1, <2>3, <1>1, <1>2, <1>4, DirectionsOf
    <2> QED
      BY <2>2, <2>3 DEF Pairs
  <1> QED
    BY <1>4, <1>6 DEF Intact

\* The process writes all or a part of what it holds.
LEMMA WriteKeepsIntact ==
    ASSUME SockType, ProcessType, Intact, Write
    PROVE  SockType' /\ Intact' /\ buf' \in Seq(Unit)
  <1>1. PICK k \in 1..Len(buf) :
            /\ sock' = [sock EXCEPT ![pair][to].out = @ \o SubSeq(buf, 1, k)]
            /\ buf' = SubSeq(buf, k + 1, Len(buf))
    BY DEF Write
  <1>2. /\ rpc = "write" /\ rpc' = rpc /\ pair' = pair /\ to' = to /\ buf \in Seq(Unit)
        /\ sock[pair][to].peer # "reset" /\ pair \in Pairs /\ to \in Sides
        /\ k \in 0..Len(buf)
    BY DEF Write, ProcessType
  <1>p. PICK p \in Pairs : p = pair
    BY <1>2
  <1>s. PICK s \in Sides : s = to
    BY <1>2
  <1> DEFINE first == SubSeq(buf, 1, k)
             r == [sock[p][s] EXCEPT !.out = @ \o first]
  <1>3. first \in Seq(Unit) /\ buf' \in Seq(Unit)
    BY <1>1, <1>2, Cut
  <1>4. sock[p][s] \in SocketType /\ sock[p][Other(s)] \in SocketType /\ Other(s) \in Sides
    BY DirectionsOf, OtherSide
  <1>5. sock' = [sock EXCEPT ![p][s] = r]
    BY <1>1, <1>p, <1>s, <1>4 DEF SockType, SocketType
  <1>6. /\ r \in SocketType /\ r.in = sock[p][s].in /\ r.sent = sock[p][s].sent
        /\ r.got = sock[p][s].got /\ r.peer = sock[p][s].peer
        /\ r.out = sock[p][s].out \o SubSeq(buf, 1, k)
    <2> HIDE DEF first
    <2>1. sock[p][s].out \o first \in Seq(Unit)
      BY <1>3, <1>4, Joined DEF SocketType
    <2>2. /\ r \in SocketType /\ r.in = sock[p][s].in /\ r.sent = sock[p][s].sent
          /\ r.got = sock[p][s].got /\ r.peer = sock[p][s].peer
          /\ r.out = sock[p][s].out \o first
      BY <1>4, <2>1 DEF SocketType
    <2> QED
      BY <2>2 DEF first
  <1> HIDE DEF r, first
  <1>7. /\ InHand(p, s)' = <<>> /\ InHand(p, s) = <<>>
        /\ InHand(p, Other(s)) = buf
        /\ InHand(p, Other(s))' = SubSeq(buf, k + 1, Len(buf))
    BY <1>1, <1>2, <1>p, <1>s, OtherSide DEF InHand
  <1>8. /\ Counted(r, sock[p][Other(s)])
        /\ \A hand : Passed(sock[p][s], sock[p][Other(s)], hand)
              => Passed(r, sock[p][Other(s)], hand)
    <2>1. Counted(sock[p][s], sock[p][Other(s)])
      BY DirectionsOf
    <2>2. r \in SocketType /\ r.in = sock[p][s].in /\ r.sent = sock[p][s].sent
      BY <1>6
    <2>3. \A b \in SocketType : Counted(sock[p][s], b) => Counted(r, b)
      BY <1>4, <2>2, DirectionKept
    <2>4. \A b \in SocketType : \A hand : Passed(sock[p][s], b, hand) => Passed(r, b, hand)
      BY <1>4, <2>2, DirectionKept
    <2> QED
      BY <1>4, <2>1, <2>3, <2>4
  <1>9. /\ Counted(sock[p][Other(s)], r)
        /\ Passed(sock[p][Other(s)], r, SubSeq(buf, k + 1, Len(buf)))
    <2>1. Passed(sock[p][Other(s)], sock[p][s], buf) /\ Counted(sock[p][Other(s)], sock[p][s])
      BY <1>2, <1>p, <1>s, <1>7, DirectionsOf
    <2> QED
      BY <2>1, <1>2, <1>4, <1>6, DirectionWritten
  <1>10. /\ rpc # "ended" /\ sock[p][Other(s)].peer # "reset" =>
               Passed(r, sock[p][Other(s)], InHand(p, s)')
         /\ rpc # "ended" /\ r.peer # "reset" =>
               Passed(sock[p][Other(s)], r, InHand(p, Other(s))')
    BY <1>7, <1>8, <1>9, DirectionsOf
  <1>11. \A q \in Pairs, t \in Sides : q # p => InHand(q, t)' = InHand(q, t)
    BY <1>2, <1>p DEF InHand
  <1>12. rpc # "ended" \/ rpc' = "ended"
    BY <1>2
  <1> QED
    BY <1>3, <1>5, <1>6, <1>8, <1>9, <1>10, <1>11, <1>12, IntactWhenPut

\* What is read is held until it is written.
LEMMA ReadKeepsIntact ==
    ASSUME SockType, Intact, NEW p \in Pairs, NEW s \in Sides,
           NEW k \in 1..Len(sock[p][s].in), pair = p, pair' = p, to' = Other(s),
           rpc = "dispatch", rpc' = "write", buf' \in Seq(Unit), Len(buf') = k,
           \A i \in 1..k : buf'[i].n = sock[p][s].in[i].n,
           sock' = [sock EXCEPT ![p][s].in = SubSeq(@, k + 1, Len(@))]
    PROVE  SockType' /\ Intact'
  <1> DEFINE in2 == SubSeq(sock[p][s].in, k + 1, Len(sock[p][s].in))
             r == [sock[p][s] EXCEPT !.in = in2]
  <1>1. sock[p][s] \in SocketType /\ sock[p][Other(s)] \in SocketType /\ Other(s) \in Sides
    BY DirectionsOf, OtherSide
  <1>2. in2 \in Seq(Unit)
    <2>1. sock[p][s].in \in Seq(Unit) /\ k \in 0..Len(sock[p][s].in)
      BY <1>1 DEF SocketType
    <2> QED
      BY <2>1, Cut
  <1>3. sock' = [sock EXCEPT ![p][s] = r]
    BY <1>1 DEF SockType, SocketType
  <1> HIDE DEF in2
  <1>4. /\ r \in SocketType /\ r.in = in2 /\ r.sent = sock[p][s].sent
        /\ r.got = sock[p][s].got /\ r.peer = sock[p][s].peer /\ r.out = sock[p][s].out
    BY <1>1, <1>2 DEF SocketType
  <1> HIDE DEF r
  <1>5. /\ InHand(p, s) = <<>> /\ InHand(p, s)' = buf'
        /\ InHand(p, Other(s)) = <<>> /\ InHand(p, Other(s))' = <<>>
    BY OtherSide DEF InHand
  <1>6. /\ Counted(r, sock[p][Other(s)])
        /\ Passed(sock[p][s], sock[p][Other(s)], <<>>) => Passed(r, sock[p][Other(s)], buf')
    <2>1. r.in = SubSeq(sock[p][s].in, k + 1, Len(sock[p][s].in)) /\ r.sent = sock[p][s].sent
      BY <1>4 DEF in2
    <2>2. Counted(sock[p][s], sock[p][Other(s)])
      BY DirectionsOf
    <2> QED
      BY <1>1, <1>4, <2>1, <2>2, DirectionRead
  <1>7. /\ Counted(sock[p][Other(s)], r)
        /\ \A hand : Passed(sock[p][Other(s)], sock[p][s], hand)
              => Passed(sock[p][Other(s)], r, hand)
    <2>1. Counted(sock[p][Other(s)], sock[p][s])
      BY DirectionsOf
    <2> QED
      BY <1>1, <1>4, <2>1, DirectionKept
  <1>8. /\ rpc # "ended" /\ sock[p][Other(s)].peer # "reset" =>
               Passed(r, sock[p][Other(s)], InHand(p, s)')
        /\ rpc # "ended" /\ r.peer # "reset" =>
               Passed(sock[p][Other(s)], r, InHand(p, Other(s))')
    BY <1>4, <1>5, <1>6, <1>7, DirectionsOf
  <1>9. /\ \A q \in Pairs, t \in Sides : q # p => InHand(q, t)' = InHand(q, t)
        /\ rpc # "ended" \/ rpc' = "ended"
    BY DEF InHand
  <1> QED
    BY <1>3, <1>4, <1>6, <1>7, <1>8, <1>9, IntactWhenPut

\* What was read is written as it is.
LEMMA PlainKeepsIntact ==
    ASSUME SockType, ProcessType, Intact, NEW s \in Sides, ReadPlain(s)
    PROVE  SockType' /\ Intact' /\ buf' \in Seq(Unit)
  <1>1. PICK p \in Pairs : p = pair
    BY DEF ProcessType
  <1>2. PICK k \in 1..Len(sock[p][s].in) :
            /\ buf' = SubSeq(sock[p][s].in, 1, k)
            /\ sock' = [sock EXCEPT ![p][s].in = SubSeq(@, k + 1, Len(@))]
    BY <1>1 DEF ReadPlain
  <1>3. rpc = "dispatch" /\ rpc' = "write" /\ to' = Other(s) /\ pair' = p
    BY <1>1 DEF ReadPlain, Turn
  <1>4. sock[p][s].in \in Seq(Unit) /\ k \in 0..Len(sock[p][s].in)
    BY DEF SockType, SocketType
  <1>5. buf' \in Seq(Unit) /\ Len(buf') = k /\ \A i \in 1..k : buf'[i] = sock[p][s].in[i]
    BY <1>2, <1>4, Cut
  <1> QED
    BY <1>1, <1>2, <1>3, <1>5, ReadKeepsIntact

-----------------------------------------------------------------------------
(* A command at a time: what follows for the control connection.            *)

\* A command that has not been read has not been answered; there is no other.
LEMMA Flow ==
    ASSUME SockType, Intact, Alternate, supportftp = 1
    PROVE  /\ client.in \in Seq(Unit) /\ server.in \in Seq(Unit)
           /\ client.sent \in Nat /\ server.sent \in Nat
           /\ Len(client.got) \in Nat /\ Len(server.got) \in Nat
           /\ Len(client.in) <= 1 /\ Len(server.in) <= 1
           /\ client.in # <<>> => server.in = <<>> /\ Len(server.got) = server.sent
           /\ Len(server.got) > server.sent => client.in = <<>> /\ server.in = <<>>
           /\ client.sent = Len(client.got) =>
                 client.in = <<>> /\ server.in = <<>> /\ Len(server.got) = server.sent
           /\ client.out # <<>> => client.sent # Len(client.got)
  <1>1. /\ client \in SocketType /\ server \in SocketType
        /\ Counted(client, server) /\ Counted(server, client)
    BY DEF SockType, Intact, client, server, Pairs, Sides, Other
  <1> DEFINE ci == Len(client.in)  cs == client.sent  cg == Len(client.got)  co == Len(client.out)
             si == Len(server.in)  ss == server.sent  sg == Len(server.got)  so == Len(server.out)
  <1>2. /\ ci \in Nat /\ cs \in Nat /\ cg \in Nat /\ co \in Nat
        /\ si \in Nat /\ ss \in Nat /\ sg \in Nat /\ so \in Nat
        /\ client.in \in Seq(Unit) /\ server.in \in Seq(Unit) /\ client.out \in Seq(Unit)
    BY <1>1 DEF SocketType
  <1>3. /\ ci <= cs /\ sg + so <= cs - ci /\ si <= ss /\ cg + co <= ss - si
        /\ cs <= cg + 1 /\ ss <= sg
    BY <1>1 DEF Counted, Read, Alternate
  <1>4. /\ ci = 0 <=> client.in = <<>>
        /\ si = 0 <=> server.in = <<>>
        /\ co = 0 <=> client.out = <<>>
    BY <1>2
  <1>5. /\ ci <= 1 /\ si <= 1
        /\ ci # 0 => si = 0 /\ sg = ss
        /\ sg > ss => ci = 0 /\ si = 0
        /\ cs = cg => ci = 0 /\ si = 0 /\ sg = ss
        /\ co # 0 => cs # cg
    <2> HIDE DEF ci, cs, cg, co, si, ss, sg, so
    <2> QED
      BY <1>2, <1>3
  <1> QED
    BY <1>2, <1>4, <1>5

\* The message that is replaced is all that has been received.
LEMMA AnnouncementKeepsIntact ==
    ASSUME SockType, ProcessType, Intact, Alternate, NEW s \in Sides, ReadAnnouncement(s)
    PROVE  SockType' /\ Intact' /\ buf' \in Seq(Unit)
  <1> DEFINE slot == IF s = "connect" THEN "PORT" ELSE "227"
             in == sock["control"][s].in
  <1>1. supportftp = 1 /\ pair = "control" /\ pair' = pair /\ rpc = "dispatch" /\ rpc' = "write" /\ to' = Other(s)
    BY DEF ReadAnnouncement, Announces, Turn
  <1>2. PICK k \in 1..Len(in) :
            /\ in[1].kind = slot
            /\ buf' = <<[in[1] EXCEPT !.via = <<slot, in[1].n>>]>>
            /\ sock' = [sock EXCEPT !["control"][s].in = SubSeq(@, k + 1, Len(@))]
    BY <1>1 DEF ReadAnnouncement, Announces
  <1>3. in \in Seq(Unit) /\ Len(in) <= 1 /\ "control" \in Pairs
    BY <1>1, Flow DEF client, server, Sides, Pairs
  <1>4. k = 1 /\ 1 \in 1..Len(in)
    BY <1>3
  <1>5. in[1] \in Unit
    BY <1>3, <1>4
  <1>6. [in[1] EXCEPT !.via = <<slot, in[1].n>>] \in Unit
    BY <1>2, <1>5 DEF Unit, Announced, Slots
  <1>7. buf' \in Seq(Unit) /\ Len(buf') = 1 /\ buf'[1].n = in[1].n
    BY <1>2, <1>5, <1>6 DEF Unit
  <1>8. \A i \in 1..k : buf'[i].n = in[i].n
    <2>1. \A i \in 1..k : i = 1
      BY <1>4
    <2> QED
      BY <2>1, <1>7
  <1>9. k \in 1..Len(sock["control"][s].in) /\ Len(buf') = k
    BY <1>4, <1>7
  <1> QED
    BY <1>1, <1>2, <1>3, <1>7, <1>8, <1>9, ReadKeepsIntact

\* What the process reads on the control connection is out of the way; the rest of the
\* connection is as it was.
LEMMA ReadControl ==
    ASSUME SockType, Intact, NEW s \in Sides, pair = "control",
           ReadPlain(s) \/ ReadAnnouncement(s)
    PROVE  LET old == sock["control"][s]
               new == sock'["control"][s]
           IN  /\ \E k \in 1..Len(old.in) :
                     /\ Len(new.in) = Len(old.in) - k /\ new.in \in Seq(Unit)
                     /\ Read(new) = Read(old) + k
               /\ new.sent = old.sent /\ new.got = old.got /\ new.peer = old.peer
               /\ sock'["control"][Other(s)] = sock["control"][Other(s)]
  <1> DEFINE old == sock["control"][s]  new == sock'["control"][s]
  <1>1. PICK k \in 1..Len(old.in) :
            sock' = [sock EXCEPT !["control"][s].in = SubSeq(@, k + 1, Len(@))]
    BY DEF ReadPlain, ReadAnnouncement
  <1>2. old \in SocketType /\ Other(s) # s /\ Other(s) \in Sides /\ "control" \in Pairs
    BY OtherSide DEF SockType, Pairs
  <1>3. /\ new = [old EXCEPT !.in = SubSeq(@, k + 1, Len(@))]
        /\ sock'["control"][Other(s)] = sock["control"][Other(s)]
    BY <1>1, <1>2 DEF SockType
  <1> DEFINE in2 == SubSeq(old.in, k + 1, Len(old.in))  n == Len(old.in)  m == old.sent
  <1>4. in2 \in Seq(Unit) /\ Len(in2) = n - k /\ n \in Nat /\ m \in Nat
    <2>1. old.in \in Seq(Unit) /\ k \in 0..Len(old.in) /\ old.sent \in Nat
      BY <1>2 DEF SocketType
    <2> QED
      BY <2>1, Cut
  <1>5. /\ new.in = in2 /\ new.sent = m /\ new.got = old.got /\ new.peer = old.peer
    <2>1. new = [old EXCEPT !.in = in2]
      BY <1>3
    <2> HIDE DEF in2, old, new
    <2>2. new.in = in2 /\ new.sent = old.sent /\ new.got = old.got /\ new.peer = old.peer
      BY <1>2, <2>1 DEF SocketType
    <2> QED
      BY <2>2
  <1>6. Read(new) = m - (n - k) /\ Read(old) = m - n
    BY <1>4, <1>5 DEF Read
  <1>7. m - (n - k) = (m - n) + k
    <2> HIDE DEF m, n
    <2> QED
      BY <1>4
  <1>8. Len(new.in) = Len(old.in) - k /\ new.in \in Seq(Unit) /\ Read(new) = Read(old) + k
    BY <1>4, <1>5, <1>6, <1>7
  <1> QED
    BY <1>3, <1>5, <1>8

-----------------------------------------------------------------------------
(* The streams, and what the process is at.                                 *)

\* No step of a peer disturbs what is on its way.
LEMMA PeersKeepIntact ==
    ASSUME SockType, Intact, Peers
    PROVE  SockType' /\ Intact'
  <1>1. ASSUME NEW l, Arrive(l) PROVE SockType' /\ Intact'
    <2>1. sock' = sock /\ rpc' = rpc /\ \A q \in Pairs, t \in Sides : InHand(q, t)' = InHand(q, t)
      BY <1>1, HandStays DEF Arrive, ProcessStays
    <2> QED
      BY <2>1 DEF SockType, Intact
  <1>2. CASE ServerConnects \/ ClientConnects
    BY <1>1, <1>2 DEF ServerConnects, ClientConnects
  <1>3. CASE \E kind \in {"PORT", "PASV", "RETR"} : ClientCommand(kind)
    <2>1. "control" \in Pairs /\ "connect" \in Sides
      BY DEF Pairs, Sides
    <2> QED
      BY <1>3, <2>1, SendKeepsIntact DEF ClientCommand
  <1>4. CASE ServerReply
    <2>1. PICK kind \in {"227", "any"} : kind = IF Command.kind = "PASV" THEN "227" ELSE "any"
      OBVIOUS
    <2>2. "control" \in Pairs /\ "remote" \in Sides /\ SendUnit("control", "remote", kind, None)
      BY <1>4, <2>1 DEF Pairs, Sides, ServerReply
    <2>3. PICK k2 \in {"any", "PORT", "PASV", "RETR", "227"} : k2 = kind
      BY <2>1
    <2> QED
      BY <2>2, <2>3, SendKeepsIntact
  <1>5. ASSUME NEW p \in Pairs, NEW s \in Sides,
               PeerSend(p, s) \/ PeerTake(p, s) \/ PeerFinish(p, s) \/ PeerReset(p, s)
        PROVE  SockType' /\ Intact'
    BY <1>5, SendKeepsIntact, TakeKeepsIntact, GoneKeepsIntact DEF PeerSend
  <1> QED
    BY <1>2, <1>3, <1>4, <1>5 DEF Peers

\* No step disturbs what is on its way.
LEMMA StreamsKept ==
    ASSUME SockType, ProcessType, Intact, Unconnected, Alternate, [Next]_vars
    PROVE  SockType' /\ Intact'
  <1>1. CASE Peers
    BY <1>1, PeersKeepIntact
  <1>2. CASE Unreachable \/ ControlEnd \/ Killed
    BY <1>2, EndsKeepsIntact DEF Unreachable, ControlEnd, Killed
  <1>3. CASE Reach \/ ReachData
    BY <1>3, ReachKeepsIntact
  <1>4. CASE Poll \/ EndRound \/ Written \/ DataUnreachable
    BY <1>4, QuietKeepsIntact
  <1>5. CASE Write
    BY <1>5, WriteKeepsIntact
  <1>6. CASE DataEnd
    BY <1>6, LeaveKeepsIntact
  <1>7. CASE \E s \in Sides : ReadPlain(s) \/ ReadAnnouncement(s)
    BY <1>7, PlainKeepsIntact, AnnouncementKeepsIntact
  <1>8. CASE \E l \in Slots : AcceptData(l)
    BY <1>8, AcceptKeepsIntact
  <1>9. CASE UNCHANGED vars
    BY <1>9 DEF vars, SockType, Intact, InHand
  <1> QED
    BY <1>1, <1>2, <1>3, <1>4, <1>5, <1>6, <1>7, <1>8, <1>9 DEF Next, RelayStep

\* Every step keeps the types.
LEMMA ProcessKept ==
    ASSUME SockType, ProcessType, Intact, Alternate, Listeners, [Next]_vars
    PROVE  ProcessType'
  <1>1. CASE Peers
    <2>1. UNCHANGED <<supportftp, rpc, pair, revents, buf, to>>
      BY <1>1 DEF Peers, ClientCommand, ServerReply, ServerConnects, ClientConnects, Arrive,
           PeerSend, SendUnit, PeerTake, PeerFinish, PeerReset
    <2> QED
      BY <2>1 DEF ProcessType
  <1>2. CASE Unreachable \/ ControlEnd \/ Killed
    <2>1. Ends
      BY <1>2 DEF Unreachable, ControlEnd, Killed
    <2> QED
      BY <2>1 DEF Ends, ProcessType, Rpcs, Pairs
  <1>3. CASE Reach \/ ReachData
    BY <1>3 DEF Reach, ReachData, ProcessType, Rpcs, Pairs
  <1>4. CASE Poll
    <2> DEFINE ready == Readable(pair) \cup (IF pair = "control" THEN Acceptable ELSE {})
    <2>1. ready \subseteq Sides \cup Slots /\ (pair = "data" => ready \subseteq Sides)
      BY DEF Readable, Acceptable
    <2>2. revents' = [revents EXCEPT ![pair] = ready]
      BY <1>4 DEF Poll
    <2> HIDE DEF ready
    <2> QED
      BY <1>4, <2>1, <2>2 DEF Poll, ProcessType, Rpcs, Pairs
  <1>5. CASE EndRound \/ Written \/ DataUnreachable
    BY <1>5 DEF EndRound, Written, DataUnreachable, ProcessType, Rpcs
  <1>6. CASE Write
    BY <1>6, WriteKeepsIntact DEF Write, ProcessType
  <1>7. CASE DataEnd
    BY <1>7 DEF DataEnd, LeaveData, ProcessType, Rpcs, Pairs
  <1>8. ASSUME NEW s \in Sides, ReadPlain(s) \/ ReadAnnouncement(s)
        PROVE  ProcessType'
    <2>1. buf' \in Seq(Unit)
      BY <1>8, PlainKeepsIntact, AnnouncementKeepsIntact
    <2>2. /\ rpc' = "write" /\ pair' = pair /\ supportftp' = supportftp /\ to' \in Sides
          /\ revents' = [revents EXCEPT ![pair] = @ \ {s}]
      BY <1>8, OtherSide DEF ReadPlain, ReadAnnouncement, Looked
    <2> QED
      BY <2>1, <2>2 DEF ProcessType, Rpcs, Pairs
  <1>9. ASSUME NEW l \in Slots, AcceptData(l)
        PROVE  ProcessType'
    BY <1>9 DEF AcceptData, Looked, ProcessType, Rpcs, Pairs
  <1>10. CASE UNCHANGED vars
    BY <1>10 DEF vars, ProcessType
  <1> QED
    BY <1>1, <1>2, <1>3, <1>4, <1>5, <1>6, <1>7, <1>8, <1>9, <1>10 DEF Next, RelayStep

-----------------------------------------------------------------------------
(* What a step can do to the control connection.                            *)

\* Nothing is sent on it, and the process reads nothing from it.
ControlStays == \A s \in Sides :
    /\ sock'["control"][s].in = sock["control"][s].in
    /\ sock'["control"][s].sent = sock["control"][s].sent
    /\ Gone("control", s) => Gone("control", s)'
    /\ Len(sock'["control"][s].got) >= Len(sock["control"][s].got)
    /\ sock'["control"][s].got = sock["control"][s].got \/ sock["control"][s].out # <<>>

\* The steps that are no sending, no reading and no end of the process.
Aside ==
    \/ ServerConnects \/ ClientConnects
    \/ \E s \in Sides : PeerSend("data", s)
    \/ \E p \in Pairs, s \in Sides : PeerTake(p, s) \/ PeerFinish(p, s) \/ PeerReset(p, s)
    \/ Reach \/ Poll \/ EndRound \/ Write \/ Written \/ DataEnd \/ ReachData
    \/ DataUnreachable
    \/ \E s \in Sides : pair = "data" /\ ReadPlain(s)
    \/ \E l \in Slots : AcceptData(l)
    \/ UNCHANGED vars

\* A step on the control connection is one of these.
LEMMA ControlSteps ==
    ASSUME ProcessType, [Next]_vars
    PROVE  \/ Aside \/ Ends
           \/ supportftp = 0 /\ \E s \in Sides : PeerSend("control", s)
           \/ \E kind \in {"PORT", "PASV", "RETR"} : ClientCommand(kind)
           \/ ServerReply
           \/ pair = "control" /\ \E s \in Sides : ReadPlain(s) \/ ReadAnnouncement(s)
  <1>1. CASE Peers
    <2>1. ASSUME NEW p \in Pairs, NEW s \in Sides, PeerSend(p, s)
          PROVE  Aside \/ (supportftp = 0 /\ \E t \in Sides : PeerSend("control", t))
      <3>1. CASE p = "control"
        BY <2>1, <3>1 DEF PeerSend
      <3>2. CASE p = "data"
        BY <2>1, <3>2 DEF Aside
      <3> QED
        BY <3>1, <3>2 DEF Pairs
    <2> QED
      BY <1>1, <2>1 DEF Peers, Aside
  <1>2. CASE Unreachable \/ ControlEnd \/ Killed
    BY <1>2 DEF Unreachable, ControlEnd, Killed
  <1>3. ASSUME NEW s \in Sides, ReadPlain(s)
        PROVE  Aside \/ (pair = "control" /\ ReadPlain(s))
    BY <1>3 DEF Aside, ProcessType, Pairs
  <1>4. ASSUME NEW s \in Sides, ReadAnnouncement(s)
        PROVE  pair = "control" /\ ReadAnnouncement(s)
    BY <1>4 DEF ReadAnnouncement, Announces
  <1> QED
    BY <1>1, <1>2, <1>3, <1>4 DEF Next, RelayStep, Aside

\* A socket is finished, reset, written to or taken from.
LEMMA OneSocketAside ==
    ASSUME SockType, NEW p \in Pairs, NEW s \in Sides, NEW r,
           sock' = [sock EXCEPT ![p][s] = r],
           p = "data" \/
             /\ r.in = sock[p][s].in /\ r.sent = sock[p][s].sent
             /\ Gone(p, s) => r.peer \in {"finished", "reset"}
             /\ Len(r.got) >= Len(sock[p][s].got)
             /\ r.got = sock[p][s].got \/ sock[p][s].out # <<>>
    PROVE  ControlStays
  <1> SUFFICES ASSUME NEW t \in Sides
               PROVE  /\ sock'["control"][t].in = sock["control"][t].in
                      /\ sock'["control"][t].sent = sock["control"][t].sent
                      /\ Gone("control", t) => Gone("control", t)'
                      /\ Len(sock'["control"][t].got) >= Len(sock["control"][t].got)
                      /\ \/ sock'["control"][t].got = sock["control"][t].got
                         \/ sock["control"][t].out # <<>>
    BY DEF ControlStays
  <1>1. Len(sock["control"][t].got) \in Nat
    BY DEF SockType, SocketType, Pairs
  <1>2. CASE p = "control" /\ t = s
    <2>1. sock'["control"][t] = r
      BY <1>2 DEF SockType
    <2> QED
      BY <1>2, <2>1 DEF Gone
  <1>3. CASE ~(p = "control" /\ t = s)
    <2>1. sock'["control"][t] = sock["control"][t]
      BY <1>3 DEF SockType, Pairs
    <2> QED
      BY <1>1, <2>1 DEF Gone
  <1> QED
    BY <1>2, <1>3

\* The control connection is not touched.
LEMMA SockStaysAside ==
    ASSUME SockType, \A s \in Sides : sock'["control"][s] = sock["control"][s]
    PROVE  ControlStays
  <1>1. \A s \in Sides : Len(sock["control"][s].got) \in Nat
    BY DEF SockType, SocketType, Pairs
  <1> QED
    BY <1>1 DEF ControlStays, Gone

\* Such a step leaves the control connection to its peers.
LEMMA ControlLeftAlone ==
    ASSUME SockType, ProcessType, Unconnected, Aside
    PROVE  ControlStays
  <1>1. CASE sock' = sock
    BY <1>1, SockStaysAside
  <1>2. CASE DataEnd \/ ReachData \/ DataUnreachable \/ \E l \in Slots : AcceptData(l)
    <2>1. \A s \in Sides : sock'["control"][s] = sock["control"][s]
      BY <1>2 DEF DataEnd, LeaveData, ReachData, DataUnreachable, AcceptData, SockType, Pairs
    <2> QED
      BY <2>1, SockStaysAside
  <1>3. CASE \E s \in Sides : pair = "data" /\ ReadPlain(s)
    <2>1. \A s \in Sides : sock'["control"][s] = sock["control"][s]
      BY <1>3 DEF ReadPlain, SockType, Pairs
    <2> QED
      BY <2>1, SockStaysAside
  <1>4. ASSUME NEW s \in Sides, PeerSend("data", s)
        PROVE  ControlStays
    <2>1. \A t \in Sides : sock'["control"][t] = sock["control"][t]
      BY <1>4 DEF PeerSend, SendUnit, SockType, Pairs
    <2> QED
      BY <2>1, SockStaysAside
  <1>5. ASSUME NEW p \in Pairs, NEW s \in Sides, PeerTake(p, s)
        PROVE  ControlStays
    <2> DEFINE got2 == Append(sock[p][s].got, Head(sock[p][s].out))
               out2 == Tail(sock[p][s].out)
               r == [sock[p][s] EXCEPT !.got = got2, !.out = out2]
    <2>1. sock[p][s] \in SocketType /\ sock[p][s].out # <<>>
      BY <1>5 DEF SockType, PeerTake
    <2>2. Len(got2) >= Len(sock[p][s].got)
      <3>1. sock[p][s].got \in Seq(Unit) /\ Len(sock[p][s].got) \in Nat /\ Head(sock[p][s].out) \in Unit
        BY <2>1, Shortened DEF SocketType
      <3> DEFINE m == Len(sock[p][s].got)  m2 == Len(got2)
      <3>2. m2 = m + 1 /\ m \in Nat
        BY <3>1, Appended
      <3>3. m2 >= m
        <4> HIDE DEF m, m2
        <4> QED
          BY <3>2
      <3> QED
        BY <3>3
    <2>3. sock' = [sock EXCEPT ![p][s] = r]
      BY <1>5 DEF PeerTake, SockType, SocketType
    <2> HIDE DEF got2, out2
    <2>4. r.in = sock[p][s].in /\ r.sent = sock[p][s].sent /\ r.got = got2 /\ r.peer = sock[p][s].peer
      BY <2>1 DEF SocketType
    <2> HIDE DEF r
    <2> QED
      BY <2>1, <2>2, <2>3, <2>4, OneSocketAside DEF Gone
  <1>6. ASSUME NEW p \in Pairs, NEW s \in Sides, PeerFinish(p, s) \/ PeerReset(p, s)
        PROVE  ControlStays
    <2>1. sock[p][s] \in SocketType /\ Len(sock[p][s].got) \in Nat
      BY DEF SockType, SocketType
    <2>2. CASE PeerFinish(p, s)
      <3> DEFINE r == [sock[p][s] EXCEPT !.peer = "finished"]
      <3>1. sock' = [sock EXCEPT ![p][s] = r]
        BY <2>2 DEF PeerFinish, SockType, SocketType
      <3>2. r.in = sock[p][s].in /\ r.sent = sock[p][s].sent /\ r.got = sock[p][s].got /\ r.peer = "finished"
        BY <2>1 DEF SocketType
      <3> HIDE DEF r
      <3>3. Len(r.got) >= Len(sock[p][s].got) /\ r.peer \in {"finished", "reset"}
        BY <2>1, <3>2
      <3> QED
        BY <3>1, <3>2, <3>3, OneSocketAside
    <2>3. CASE PeerReset(p, s)
      <3> DEFINE r == [sock[p][s] EXCEPT !.peer = "reset", !.out = <<>>]
      <3>1. sock' = [sock EXCEPT ![p][s] = r]
        BY <2>3 DEF PeerReset, SockType, SocketType
      <3>2. r.in = sock[p][s].in /\ r.sent = sock[p][s].sent /\ r.got = sock[p][s].got /\ r.peer = "reset"
        BY <2>1 DEF SocketType
      <3> HIDE DEF r
      <3>3. Len(r.got) >= Len(sock[p][s].got) /\ r.peer \in {"finished", "reset"}
        BY <2>1, <3>2
      <3> QED
        BY <3>1, <3>2, <3>3, OneSocketAside
    <2> QED
      BY <1>6, <2>2, <2>3
  <1>7. CASE Reach
    <2> DEFINE r == Socket("open")
    <2>1. /\ sock' = [sock EXCEPT !["control"]["remote"] = r] /\ server = Socket("none")
          /\ "control" \in Pairs /\ "remote" \in Sides
      BY <1>7 DEF Reach, Unconnected, Pairs, Sides
    <2>2. /\ r.in = server.in /\ r.sent = server.sent /\ r.got = server.got /\ ~Gone("control", "remote")
          /\ Len(server.got) = 0
      BY <2>1, NewSocket DEF Gone, server
    <2> HIDE DEF r
    <2>3. Len(r.got) >= Len(server.got)
      BY <2>2
    <2> QED
      BY <2>1, <2>2, <2>3, OneSocketAside DEF server
  <1>8. CASE Write
    <2>1. PICK k \in 1..Len(buf) : sock' = [sock EXCEPT ![pair][to].out = @ \o SubSeq(buf, 1, k)]
      BY <1>8 DEF Write
    <2>2. PICK p \in Pairs, s \in Sides : p = pair /\ s = to
      BY DEF ProcessType
    <2> DEFINE out2 == sock[p][s].out \o SubSeq(buf, 1, k)
               r == [sock[p][s] EXCEPT !.out = out2]
    <2>3. sock' = [sock EXCEPT ![p][s] = r]
      BY <2>1, <2>2 DEF SockType, SocketType
    <2> HIDE DEF out2
    <2>4. /\ r.in = sock[p][s].in /\ r.sent = sock[p][s].sent /\ r.got = sock[p][s].got
          /\ r.peer = sock[p][s].peer /\ Len(sock[p][s].got) \in Nat
      BY DEF SockType, SocketType
    <2> HIDE DEF r
    <2>5. Len(r.got) >= Len(sock[p][s].got) /\ (Gone(p, s) => r.peer \in {"finished", "reset"})
      BY <2>4 DEF Gone
    <2> QED
      BY <2>3, <2>4, <2>5, OneSocketAside
  <1>9. ServerConnects \/ ClientConnects \/ Poll \/ EndRound \/ Written \/ UNCHANGED vars
            => sock' = sock
    BY DEF ServerConnects, ClientConnects, Arrive, Poll, EndRound, Written, vars
  <1> QED
    BY <1>1, <1>2, <1>3, <1>4, <1>5, <1>6, <1>7, <1>8, <1>9 DEF Aside

-----------------------------------------------------------------------------
(* Sockets that are not connected yet; a reply to each command.             *)

\* No peer does anything on a socket that is not connected.
LEMMA NoPeerNoStep ==
    ASSUME SockType, Peers, NEW q \in Pairs, NEW t \in Sides, sock[q][t].peer = "none"
    PROVE  sock'[q][t] = sock[q][t]
  <1>1. ASSUME NEW p \in Pairs, NEW s \in Sides, NEW kind, SendUnit(p, s, kind, None)
        PROVE  sock'[q][t] = sock[q][t]
    <2>1. p # q \/ s # t
      BY <1>1 DEF SendUnit
    <2> QED
      BY <1>1, <2>1 DEF SendUnit, SockType
  <1>2. ASSUME NEW p \in Pairs, NEW s \in Sides,
               PeerTake(p, s) \/ PeerFinish(p, s) \/ PeerReset(p, s)
        PROVE  sock'[q][t] = sock[q][t]
    <2>1. p # q \/ s # t
      BY <1>2 DEF PeerTake, PeerFinish, PeerReset
    <2> QED
      BY <1>2, <2>1 DEF PeerTake, PeerFinish, PeerReset, SockType
  <1>3. CASE ServerConnects \/ ClientConnects
    BY <1>3 DEF ServerConnects, ClientConnects, Arrive
  <1>4. CASE (\E kind \in {"PORT", "PASV", "RETR"} : ClientCommand(kind)) \/ ServerReply
    BY <1>1, <1>4 DEF ClientCommand, ServerReply, Pairs, Sides
  <1>5. ASSUME NEW p \in Pairs, NEW s \in Sides, PeerSend(p, s)
        PROVE  sock'[q][t] = sock[q][t]
    BY <1>1, <1>5 DEF PeerSend
  <1> QED
    BY <1>2, <1>3, <1>4, <1>5 DEF Peers

\* A socket stays as it is until it is connected.
LEMMA UnconnectedKept ==
    ASSUME SockType, ProcessType, Unconnected, [Next]_vars
    PROVE  Unconnected'
  <1>1. CASE Peers
    <2>1. UNCHANGED <<rpc, pair, opened>>
      BY <1>1 DEF Peers, ClientCommand, ServerReply, ServerConnects, ClientConnects, Arrive,
           PeerSend, SendUnit, PeerTake, PeerFinish, PeerReset
    <2>2. ASSUME NEW p \in Pairs, sock[p]["remote"] = Socket("none")
          PROVE  sock'[p]["remote"] = Socket("none")
      <3>1. "remote" \in Sides /\ sock[p]["remote"].peer = "none"
        BY <2>2, NewSocket DEF Sides
      <3> QED
        BY <1>1, <2>2, <3>1, NoPeerNoStep
    <2> QED
      BY <2>1, <2>2 DEF Unconnected, server, Pairs
  <1>2. CASE \E l \in Slots : AcceptData(l)
    <2>1. PICK l \in Slots : AcceptData(l)
      BY <1>2
    <2>2. pair = "control"
      BY <2>1 DEF AcceptData, Turn, ProcessType, Pairs, Slots, Sides
    <2>3. sock'["data"]["remote"] = Socket("none")
      BY <2>1 DEF AcceptData, SockType, Pairs, Sides
    <2> QED
      BY <2>1, <2>2, <2>3 DEF AcceptData, Unconnected
  <1>3. CASE (RelayStep /\ ~(\E l \in Slots : AcceptData(l))) \/ Killed
    <2>1. rpc' \notin {"dial", "dialData"}
      BY <1>3 DEF RelayStep, Killed, Ends, Reach, Unreachable, Poll, EndRound, Write, Written,
           DataEnd, LeaveData, ControlEnd, ReachData, DataUnreachable, ReadPlain, ReadAnnouncement
    <2> QED
      BY <2>1 DEF Unconnected
  <1>4. CASE UNCHANGED vars
    BY <1>4 DEF vars, Unconnected, server
  <1> QED
    BY <1>1, <1>2, <1>3, <1>4 DEF Next

\* The commands and the replies that are still in the way.
LEMMA AlternateKept ==
    ASSUME Pipelining = FALSE,
           SockType, ProcessType, Intact, Unconnected, Alternate, [Next]_vars
    PROVE  Alternate'
  <1> SUFFICES ASSUME supportftp' = 1 PROVE /\ (client.sent <= Len(client.got) + 1)'
                                            /\ (server.sent <= Len(server.got))'
    BY DEF Alternate
  <1>0. supportftp' = supportftp
    BY DEF Next, Peers, ClientCommand, ServerReply, ServerConnects, ClientConnects, Arrive,
         PeerSend, SendUnit, PeerTake, PeerFinish, PeerReset, RelayStep, Killed, Ends, Reach,
         Unreachable, Poll, EndRound, Write, Written, DataEnd, LeaveData, ControlEnd, ReachData,
         DataUnreachable, ReadPlain, ReadAnnouncement, AcceptData, vars
  <1>1. /\ client \in SocketType /\ server \in SocketType
        /\ client.sent \in Nat /\ server.sent \in Nat
        /\ Len(client.got) \in Nat /\ Len(server.got) \in Nat
        /\ client.sent <= Len(client.got) + 1 /\ server.sent <= Len(server.got)
    BY <1>0 DEF SockType, SocketType, client, server, Pairs, Sides, Alternate
  <1>2. ASSUME client'.sent = client.sent, server'.sent = server.sent,
               Len(client'.got) >= Len(client.got), Len(server'.got) >= Len(server.got),
               SockType'
        PROVE  /\ (client.sent <= Len(client.got) + 1)'
               /\ (server.sent <= Len(server.got))'
    <2>1. client' \in SocketType /\ server' \in SocketType
      BY <1>2 DEF SockType, client, server, Pairs, Sides
    <2>2. Len(client'.got) \in Nat /\ Len(server'.got) \in Nat
      BY <2>1 DEF SocketType
    <2> QED
      BY <1>1, <1>2, <2>2
  <1>3. SockType'
    BY StreamsKept
  <1>4. CASE Aside
    BY <1>2, <1>3, <1>4, ControlLeftAlone DEF ControlStays, client, server, Sides
  <1>5. CASE Ends
    <2>1. \A s \in Sides : sock'["control"][s] = Closed("control", s)
      BY <1>5 DEF Ends, Pairs
    <2>2. \A s \in Sides : /\ sock'["control"][s].sent = sock["control"][s].sent
                           /\ sock'["control"][s].got = sock["control"][s].got
      BY <2>1, ClosedSocket DEF Pairs
    <2>3. /\ client'.sent = client.sent /\ server'.sent = server.sent
          /\ client'.got = client.got /\ server'.got = server.got
      BY <2>2 DEF client, server, Sides
    <2> QED
      BY <1>1, <1>2, <1>3, <2>3
  <1>6. CASE \E kind \in {"PORT", "PASV", "RETR"} : ClientCommand(kind)
    <2>1. client.sent = Len(client.got)
      BY <1>6 DEF ClientCommand, client
    <2>2. client'.sent = client.sent + 1 /\ client'.got = client.got /\ server' = server
      BY <1>6 DEF ClientCommand, SendUnit, SockType, SocketType, client, server, Pairs, Sides
    <2> QED
      BY <1>1, <2>1, <2>2
  <1>7. CASE ServerReply
    <2>1. server.sent < Len(server.got)
      BY <1>7 DEF ServerReply, Answering, server
    <2>2. server'.sent = server.sent + 1 /\ server'.got = server.got /\ client' = client
      BY <1>7 DEF ServerReply, SendUnit, SockType, SocketType, client, server, Pairs, Sides
    <2> QED
      BY <1>1, <2>1, <2>2
  <1>8. ASSUME pair = "control", NEW s \in Sides, ReadPlain(s) \/ ReadAnnouncement(s)
        PROVE  /\ (client.sent <= Len(client.got) + 1)'
               /\ (server.sent <= Len(server.got))'
    <2>1. \A t \in Sides : /\ sock'["control"][t].sent = sock["control"][t].sent
                           /\ sock'["control"][t].got = sock["control"][t].got
      <3>1. \A t \in Sides : t = s \/ t = Other(s)
        BY DEF Sides, Other
      <3> QED
        BY <1>8, <3>1, ReadControl
    <2>2. /\ client'.sent = client.sent /\ server'.sent = server.sent
          /\ client'.got = client.got /\ server'.got = server.got
      BY <2>1 DEF client, server, Sides
    <2> QED
      BY <1>1, <1>2, <1>3, <2>2
  <1> QED
    BY <1>0, <1>4, <1>5, <1>6, <1>7, <1>8, ControlSteps

-----------------------------------------------------------------------------
(* The listening sockets.                                                   *)

\* No step changes what -f has said.
LEMMA SameProtocol ==
    ASSUME [Next]_vars
    PROVE  supportftp' = supportftp
  BY DEF Next, Peers, ClientCommand, ServerReply, ServerConnects, ClientConnects, Arrive,
         PeerSend, SendUnit, PeerTake, PeerFinish, PeerReset, RelayStep, Killed, Ends, Reach,
         Unreachable, Poll, EndRound, Write, Written, DataEnd, LeaveData, ControlEnd, ReachData,
         DataUnreachable, ReadPlain, ReadAnnouncement, AcceptData, vars

\* A unit that is sent is one more to read.
LEMMA SentOnControl ==
    ASSUME SockType, NEW s \in Sides, NEW kind, SendUnit("control", s, kind, None)
    PROVE  LET old == sock["control"][s]
               new == sock'["control"][s]
           IN  /\ Read(new) = Read(old) /\ new.in # <<>> /\ new.sent = old.sent + 1
               /\ new.got = old.got /\ new.peer = old.peer /\ old.peer = "open"
               /\ sock'["control"][Other(s)] = sock["control"][Other(s)]
  <1> DEFINE old == sock["control"][s]  new == sock'["control"][s]
             u == [n |-> old.sent + 1, kind |-> kind, via |-> None]
             in2 == Append(old.in, u)  n == Len(old.in)  n2 == Len(in2)  m == old.sent
  <1>1. old \in SocketType /\ Other(s) # s /\ Other(s) \in Sides /\ "control" \in Pairs
    BY OtherSide DEF SockType, Pairs
  <1>2. n2 = n + 1 /\ n \in Nat /\ m \in Nat /\ in2 # <<>>
    <2>1. old.in \in Seq(Unit) /\ old.sent \in Nat
      BY <1>1 DEF SocketType
    <2>2. n2 = n + 1 /\ n \in Nat
      BY <2>1
    <2>3. in2 # <<>>
      <3>1. in2 = <<>> => n2 = 0
        OBVIOUS
      <3> HIDE DEF in2, n, n2
      <3> QED
        BY <2>2, <3>1
    <2> QED
      BY <2>1, <2>2, <2>3
  <1>3. /\ new = [old EXCEPT !.sent = m + 1, !.in = in2]
        /\ sock'["control"][Other(s)] = sock["control"][Other(s)] /\ old.peer = "open"
    BY <1>1 DEF SendUnit, SockType, SocketType
  <1>4. new.in = in2 /\ new.sent = m + 1 /\ new.got = old.got /\ new.peer = old.peer
    <2> HIDE DEF in2, m, old, new
    <2> QED
      BY <1>1, <1>3 DEF SocketType
  <1>5. Read(new) = (m + 1) - n2 /\ Read(old) = m - n
    BY <1>4 DEF Read
  <1>6. (m + 1) - n2 = m - n
    <2> HIDE DEF m, n, n2
    <2> QED
      BY <1>2
  <1> QED
    BY <1>2, <1>3, <1>4, <1>5, <1>6

\* What has been read stays read.
LEMMA ReadGrows ==
    ASSUME SockType, ProcessType, Intact, Unconnected, [Next]_vars, NEW s \in Sides
    PROVE  /\ Read(sock["control"][s]) \in Int
           /\ Read(sock'["control"][s]) >= Read(sock["control"][s])
  <1>1. Read(sock["control"][s]) \in Int
    BY DEF Read, SockType, SocketType, Pairs
  <1>2. CASE Aside \/ Ends
    <2>1. /\ sock'["control"][s].in = sock["control"][s].in
          /\ sock'["control"][s].sent = sock["control"][s].sent
      BY <1>2, ControlLeftAlone, ClosedSocket DEF ControlStays, Ends, Pairs
    <2> QED
      BY <1>1, <2>1 DEF Read
  <1>3. ASSUME NEW t \in Sides, NEW kind, SendUnit("control", t, kind, None)
        PROVE  Read(sock'["control"][s]) >= Read(sock["control"][s])
    <2>1. s = t \/ s = Other(t)
      BY DEF Sides, Other
    <2> QED
      BY <1>1, <1>3, <2>1, SentOnControl
  <1>4. ASSUME pair = "control", NEW t \in Sides, ReadPlain(t) \/ ReadAnnouncement(t)
        PROVE  Read(sock'["control"][s]) >= Read(sock["control"][s])
    <2>1. s = t \/ s = Other(t)
      BY DEF Sides, Other
    <2>2. CASE s = t
      <3>1. PICK k \in Nat : Read(sock'["control"][s]) = Read(sock["control"][s]) + k
        BY <1>4, <2>2, ReadControl
      <3> QED
        BY <1>1, <3>1
    <2>3. CASE s = Other(t)
      BY <1>1, <1>4, <2>3, ReadControl
    <2> QED
      BY <2>1, <2>2, <2>3
  <1> QED
    BY <1>1, <1>2, <1>3, <1>4, ControlSteps DEF PeerSend, ClientCommand, ServerReply, Sides

\* What the process puts in the place of the message is a new listening socket.
LEMMA NewListener ==
    ASSUME SockType, Intact, Listeners, NEW s \in Sides, ReadAnnouncement(s)
    PROVE  \E l \in Announced :
              /\ l[1] = IF s = "connect" THEN "PORT" ELSE "227"
              /\ l \notin opened /\ opened' = opened \cup {l} /\ pending' = pending
              /\ listener' = [listener EXCEPT ![l[1]] = l]
              /\ l[2] <= Read(sock'["control"][s])
  <1> DEFINE old == sock["control"][s]  slot == IF s = "connect" THEN "PORT" ELSE "227"
             l == <<slot, old.in[1].n>>
  <1>1. /\ pair = "control" /\ opened' = opened \cup {l} /\ pending' = pending
        /\ listener' = [listener EXCEPT ![slot] = l]
    BY DEF ReadAnnouncement, Announces
  <1>2. PICK k \in 1..Len(old.in) : Read(sock'["control"][s]) = Read(old) + k
    BY <1>1, ReadControl
  <1>3. old.in \in Seq(Unit) /\ Read(old) \in Int /\ 1 \in 1..Len(old.in) /\ k \in Nat /\ k >= 1
    BY DEF SockType, SocketType, Pairs, Read
  <1>4. old.in[1] \in Unit /\ old.in[1].n = Read(old) + 1
    <2>1. Counted(old, sock["control"][Other(s)])
      BY DEF Intact, Pairs
    <2>2. \A i \in 1..Len(old.in) : old.in[i].n = Read(old) + i
      BY <2>1 DEF Counted, Numbered
    <2> QED
      BY <1>3, <2>2
  <1>5. old.in[1].n \in Nat /\ slot \in Slots
    BY <1>4 DEF Unit, Slots
  <1>6. l \in Announced /\ l[1] = slot /\ l[2] = Read(old) + 1
    BY <1>4, <1>5 DEF Announced
  <1>7. Announcer(l) = old
    BY <1>6 DEF Announcer, client, server, Sides
  <1> HIDE DEF old, l
  <1>8. l \notin opened
    <2> SUFFICES ASSUME l \in opened PROVE FALSE
      OBVIOUS
    <2>1. l[2] <= Read(old)
      BY <1>7 DEF Listeners
    <2> QED
      BY <2>1, <1>3, <1>6
  <1>9. l[2] <= Read(sock'["control"][s])
    BY <1>2, <1>3, <1>6
  <1> QED
    BY <1>1, <1>6, <1>8, <1>9

\* Every step keeps what is known of the listening sockets.
LEMMA ListenersKept ==
    ASSUME SockType, SockType', ProcessType, Intact, Unconnected, Listeners, [Next]_vars
    PROVE  Listeners'
  <1>1. \A s \in Sides : /\ Read(sock["control"][s]) \in Int
                         /\ Read(sock'["control"][s]) >= Read(sock["control"][s])
                         /\ Read(sock'["control"][s]) \in Int
    <2>1. \A s \in Sides : sock'["control"][s] \in SocketType
      BY DEF SockType, Pairs
    <2>2. \A s \in Sides : Read(sock'["control"][s]) \in Int
      BY <2>1 DEF Read, SocketType
    <2> QED
      BY <2>2, ReadGrows
  <1>2. ASSUME NEW l \in opened PROVE l \in Announced /\ l[2] \in Nat /\ l[2] <= Read(Announcer(l)')
    <2>1. l \in Announced /\ l[2] \in Nat /\ l[2] <= Read(Announcer(l))
      BY DEF Listeners, Announced
    <2>2. /\ Read(Announcer(l)) \in Int /\ Read(Announcer(l)') \in Int
          /\ Read(Announcer(l)') >= Read(Announcer(l))
      BY <1>1 DEF Announcer, client, server, Sides
    <2> QED
      BY <2>1, <2>2
  <1>3. ASSUME UNCHANGED <<opened, listener>>, pending' \subseteq opened
        PROVE  Listeners'
    BY <1>2, <1>3, SameProtocol DEF Listeners
  <1>4. CASE ServerConnects \/ ClientConnects
    <2>1. \E l \in opened : pending' = pending \cup {l}
      BY <1>4 DEF ServerConnects, ClientConnects, Arrive
    <2> QED
      BY <1>3, <1>4, <2>1 DEF ServerConnects, ClientConnects, Arrive, Listeners
  <1>5. CASE Ends
    BY <1>5 DEF Ends, Listeners
  <1>6. ASSUME NEW s \in Sides, ReadAnnouncement(s)
        PROVE  Listeners'
    <2>1. PICK l \in Announced :
              /\ l[1] = IF s = "connect" THEN "PORT" ELSE "227"
              /\ opened' = opened \cup {l} /\ pending' = pending
              /\ listener' = [listener EXCEPT ![l[1]] = l]
              /\ l[2] <= Read(sock'["control"][s])
      BY <1>6, NewListener
    <2>2. l[1] \in Slots /\ Announcer(l)' = sock'["control"][s]
      BY <2>1 DEF Slots, Announcer, client, server, Sides
    <2>3. supportftp' = 1
      BY <1>6 DEF ReadAnnouncement, Announces
    <2>4. listener' \in [Slots -> Announced \cup {None}] /\ opened' \subseteq Announced
      BY <2>1, <2>2 DEF Listeners
    <2>5. \A q \in Slots : listener'[q] # None => listener'[q][1] = q /\ listener'[q] \in opened'
      BY <2>1, <2>2 DEF Listeners
    <2>6. \A m \in opened' : m[2] <= Read(Announcer(m)')
      BY <1>2, <2>1, <2>2
    <2> QED
      BY <2>1, <2>3, <2>4, <2>5, <2>6 DEF Listeners
  <1>7. ASSUME NEW l \in Slots, AcceptData(l)
        PROVE  Listeners'
    <2>1. /\ pending' = pending \ {listener[l]} /\ opened' = opened \ {listener[l]}
          /\ listener' = [listener EXCEPT ![l] = None]
      BY <1>7 DEF AcceptData
    <2>2. /\ listener[l] \in opened /\ listener[l][1] = l
          /\ listener' \in [Slots -> Announced \cup {None}]
      BY <1>7, <2>1 DEF AcceptData, Listeners, None, Announced
    <2>3. \A q \in Slots : listener'[q] # None => listener'[q][1] = q /\ listener'[q] \in opened'
      BY <2>1, <2>2 DEF Listeners
    <2>4. /\ opened' \subseteq Announced /\ pending' \subseteq opened'
          /\ opened' # {} => supportftp' = 1
      BY <2>1, SameProtocol DEF Listeners
    <2>5. \A m \in opened' : m[2] <= Read(Announcer(m)')
      BY <1>2, <2>1
    <2> QED
      BY <2>2, <2>3, <2>4, <2>5 DEF Listeners
  <1>8. ASSUME NEW p, NEW s, NEW kind, SendUnit(p, s, kind, None)
        PROVE  Listeners'
    BY <1>3, <1>8 DEF SendUnit, Listeners
  <1>9. ASSUME NEW s \in Sides, ReadPlain(s)
        PROVE  Listeners'
    BY <1>3, <1>9 DEF ReadPlain, Listeners
  <1>10. CASE UNCHANGED <<opened, listener, pending>>
    BY <1>3, <1>10 DEF Listeners
  <1>11. CASE Aside
    <2>1. \/ ServerConnects \/ ClientConnects \/ \E l \in Slots : AcceptData(l)
          \/ UNCHANGED <<opened, listener, pending>>
      BY <1>11 DEF Aside, PeerSend, SendUnit, PeerTake, PeerFinish, PeerReset, Reach, Poll, EndRound,
           Write, Written, DataEnd, LeaveData, ReachData, DataUnreachable, ReadPlain, vars
    <2> QED
      BY <2>1, <1>4, <1>7, <1>10
  <1> QED
    BY <1>5, <1>6, <1>8, <1>9, <1>11, ControlSteps DEF PeerSend, ClientCommand, ServerReply

-----------------------------------------------------------------------------
(* A connection that waits to be accepted is accepted in this round.        *)

\* A listening socket is there with -f only.
LEMMA ReadyWithFtp ==
    ASSUME Listeners, NEW l \in Slots, Ready(l)
    PROVE  supportftp = 1 /\ listener[l] \in opened /\ listener[l][1] = l
  BY DEF Listeners, Ready, None, Announced

\* The control connection and what is reported of it are as they were.
LEMMA WaitsStay ==
    ASSUME SockType, Intact, Alternate, Listeners, Waits, ControlStays,
           revents'["control"] = revents["control"], UNCHANGED <<listener, pending>>,
           rpc' \in {"dial", "poll"} /\ pair' = "control" => revents'["control"] = {}
    PROVE  Waits'
  <1>1. \A fd : Reported(fd)' <=> Reported(fd)
    BY DEF Reported
  <1>2. \A l : Ready(l)' <=> Ready(l)
    BY DEF Ready
  <1>3. /\ client'.in = client.in /\ server'.in = server.in
        /\ client'.sent = client.sent /\ server'.sent = server.sent
        /\ Len(server'.got) >= Len(server.got)
        /\ client'.got = client.got \/ client.out # <<>>
        /\ Gone("control", "remote") => Gone("control", "remote")'
    BY DEF ControlStays, client, server, Sides
  <1>4. Round'
    BY <1>1, <1>2 DEF Waits, Round, ControlStays
  <1>5. PortWaits'
    <2> SUFFICES ASSUME Ready("PORT")
                 PROVE  /\ \/ client'.in = <<>> /\ (server'.sent < Len(server'.got) \/ server'.in # <<>>)
                           \/ Reported("PORT") /\ ~Reported("connect")
                        /\ server'.in # <<>> /\ Reported("remote") => Reported("PORT")
      BY <1>1, <1>2 DEF PortWaits
    <2>1. server.sent \in Nat /\ Len(server.got) \in Nat /\ Len(server'.got) \in Int
      <3>1. supportftp = 1
        BY ReadyWithFtp DEF Slots
      <3>2. server.sent \in Nat /\ Len(server.got) \in Nat
        BY <3>1, Flow
      <3>3. server'.got = server.got \/ Len(server'.got) >= Len(server.got)
        BY <1>3
      <3> QED
        BY <1>3, <3>2
    <2>2. server.sent < Len(server.got) => server'.sent < Len(server'.got)
      BY <1>3, <2>1
    <2> QED
      BY <1>3, <2>2 DEF Waits, PortWaits
  <1>6. PasvWaits'
    <2> SUFFICES ASSUME Ready("227")
                 PROVE  /\ \/ server'.in = <<>> /\ \/ client'.sent = Len(client'.got) \/ client'.in # <<>>
                                                   \/ Gone("control", "remote")'
                           \/ Reported("227") /\ ~Reported("remote")
                        /\ client'.in # <<>> /\ Reported("connect") => Reported("227")
      BY <1>1, <1>2 DEF PasvWaits
    <2>1. client.sent = Len(client.got) => client'.sent = Len(client'.got)
      <3>1. supportftp = 1
        BY ReadyWithFtp DEF Slots
      <3>2. client.out # <<>> => client.sent # Len(client.got)
        BY <3>1, Flow
      <3> QED
        BY <1>3, <3>2
    <2> QED
      BY <1>3, <2>1 DEF Waits, PasvWaits
  <1> QED
    BY <1>4, <1>5, <1>6 DEF Waits

\* What poll reports of the control connection is so when the round begins.
LEMMA PollKeepsWaits ==
    ASSUME ProcessType, Listeners, Waits, Poll, pair = "control"
    PROVE  Waits'
  <1>1. /\ revents' = [revents EXCEPT !["control"] = Readable("control") \cup Acceptable]
        /\ UNCHANGED <<sock, pair, listener, pending, opened>> /\ rpc' = "dispatch" /\ rpc = "poll"
    BY DEF Poll
  <1>2. \A fd : ~Reported(fd)
    BY <1>1 DEF Waits, Round, Reported
  <1>3. \A fd : Reported(fd)' <=> fd \in Readable("control") \cup Acceptable
    BY <1>1 DEF Reported, ProcessType, Pairs
  <1>4. \A s \in Sides : Reported(s)' <=> s \in Readable("control")
    BY <1>3 DEF Acceptable, Slots, Sides
  <1>5. \A l \in Slots : Reported(l)' <=> Ready(l)
    BY <1>3 DEF Readable, Acceptable, Ready, Slots, Sides
  <1>6. Round'
    BY <1>1, <1>4, <1>5 DEF Round, Readable, Gone, Ready
  <1>7. (client' = client /\ server' = server) /\ \A l : Ready(l)' <=> Ready(l)
    BY <1>1 DEF client, server, Ready
  <1>8. Gone("control", "remote")' <=> Gone("control", "remote")
    BY <1>1 DEF Gone
  <1>9. PortWaits' /\ PasvWaits'
    BY <1>2, <1>5, <1>7, <1>8 DEF Waits, PortWaits, PasvWaits, Slots
  <1> QED
    BY <1>6, <1>9 DEF Waits

\* A connection arrives only when nothing is in the way that could be read before it.
LEMMA ArriveKeepsWaits ==
    ASSUME Pipelining = FALSE, SockType, Intact, Alternate, Listeners, Waits,
           ServerConnects \/ ClientConnects
    PROVE  Waits'
  <1>1. PICK l \in opened :
            /\ pending' = pending \cup {l} /\ UNCHANGED <<sock, rpc, pair, revents, listener>>
            /\ \/ l[1] = "PORT" /\ Len(server.got) > server.sent
               \/ l[1] = "227" /\ client.sent = Len(client.got)
    <2>1. opened \subseteq Announced
      BY DEF Listeners
    <2>2. /\ client.got \in Seq(Unit) /\ server.got \in Seq(Unit)
          /\ server.sent \in Nat
      BY DEF SockType, SocketType, client, server, Pairs, Sides
    <2>3. CASE ServerConnects
      <3> DEFINE before == server.got[server.sent]
      <3>1. /\ Arrive(before.via) /\ before.kind = "PORT"
            /\ Len(server.got) > server.sent /\ server.sent > 0
        BY <2>3 DEF ServerConnects, Answering, server
      <3>2. before \in Unit
        <4>1. server.sent \in 1..Len(server.got)
          BY <2>2, <3>1
        <4> QED
          BY <2>2, <4>1
      <3>3. before.via \in opened
        BY <3>1 DEF Arrive
      <3>4. before.via[1] = "PORT"
        BY <2>1, <3>1, <3>2, <3>3 DEF Unit, Slots, None, Announced
      <3> QED
        BY <3>1, <3>3, <3>4 DEF Arrive
    <2>4. CASE ClientConnects
      <3> DEFINE last == client.got[Len(client.got)]
      <3>1. /\ Arrive(last.via) /\ last.kind = "227" /\ client.got # <<>>
            /\ client.sent = Len(client.got)
        BY <2>4 DEF ClientConnects, client, Last
      <3>2. last \in Unit
        <4>1. Len(client.got) \in 1..Len(client.got)
          BY <2>2, <3>1
        <4> QED
          BY <2>2, <4>1
      <3>3. last.via \in opened
        BY <3>1 DEF Arrive
      <3>4. last.via[1] = "227"
        BY <2>1, <3>1, <3>2, <3>3 DEF Unit, Slots, None, Announced
      <3> QED
        BY <3>1, <3>3, <3>4 DEF Arrive
    <2> QED
      BY <2>3, <2>4
  <1>2. supportftp = 1
    BY <1>1 DEF Listeners
  <1>3. client.in = <<>> /\ server.in = <<>>
    BY <1>1, <1>2, Flow
  <1>4. /\ client' = client /\ server' = server /\ \A fd : Reported(fd)' <=> Reported(fd)
        /\ \A s \in Sides : Gone("control", s)' <=> Gone("control", s)
    BY <1>1 DEF client, server, Reported, Gone
  <1>5. \A q \in Slots : (Ready(q) => Ready(q)') /\ (Ready(q)' => Ready(q) \/ q = l[1])
    BY <1>1 DEF Ready, Listeners, None, Announced
  <1>6. Round'
    BY <1>1, <1>4, <1>5 DEF Waits, Round
  <1>7. PortWaits'
    BY <1>1, <1>3, <1>4, <1>5 DEF Waits, PortWaits, Slots
  <1>8. PasvWaits'
    BY <1>1, <1>3, <1>4, <1>5 DEF Waits, PasvWaits, Slots, Sides
  <1> QED
    BY <1>6, <1>7, <1>8 DEF Waits

\* The listening socket is closed when its connection has been accepted.
LEMMA AcceptKeepsWaits ==
    ASSUME SockType, ProcessType, Listeners, Waits, NEW l \in Slots, AcceptData(l)
    PROVE  Waits'
  <1>1. /\ pair = "control" /\ rpc' = "dialData" /\ pending' = pending \ {listener[l]}
        /\ listener' = [listener EXCEPT ![l] = None]
        /\ revents' = [revents EXCEPT !["control"] = @ \ {l}]
        /\ \A s \in Sides : sock'["control"][s] = sock["control"][s]
        /\ Ready(l)
    BY DEF AcceptData, Turn, Looked, ProcessType, Pairs, Slots, Sides, SockType, Ready
  <1>2. \A fd : Reported(fd)' <=> Reported(fd) /\ fd # l
    BY <1>1 DEF Reported, ProcessType, Pairs
  <1>3. \A q \in Slots : Ready(q)' <=> Ready(q) /\ q # l
    <2>1. None \notin pending
      BY DEF Listeners, None, Announced
    <2>2. ASSUME NEW q \in Slots, q # l, Ready(q) PROVE listener[q] # listener[l]
      BY <1>1, <2>2, ReadyWithFtp
    <2>3. \A q \in Slots : listener'[q] = IF q = l THEN None ELSE listener[q]
      BY <1>1 DEF Listeners
    <2> QED
      BY <1>1, <2>1, <2>2, <2>3 DEF Ready
  <1>4. /\ client' = client /\ server' = server
        /\ \A s \in Sides : Gone("control", s)' <=> Gone("control", s)
    BY <1>1 DEF client, server, Gone, Sides
  <1>5. \A s \in Sides : Reported(s)' <=> Reported(s)
    BY <1>2 DEF Sides, Slots
  <1>6. Round'
    BY <1>1, <1>2, <1>3, <1>4, <1>5 DEF Waits, Round
  <1>7. PortWaits' /\ PasvWaits'
    BY <1>2, <1>3, <1>4, <1>5 DEF Waits, PortWaits, PasvWaits, Slots, Sides
  <1> QED
    BY <1>6, <1>7 DEF Waits

\* What is sent comes too late for the round that is under way.
LEMMA SendKeepsRound ==
    ASSUME SockType, Waits, NEW s \in Sides, NEW kind, SendUnit("control", s, kind, None)
    PROVE  /\ Round' /\ ~(Reported(s) /\ sock["control"][s].in = <<>>)
           /\ \A fd : Reported(fd)' <=> Reported(fd)
           /\ \A l : Ready(l)' <=> Ready(l)
           /\ \A t \in Sides : Gone("control", t)' <=> Gone("control", t)
  <1>1. /\ \A fd : Reported(fd)' <=> Reported(fd)
        /\ \A l : Ready(l)' <=> Ready(l)
        /\ UNCHANGED <<rpc, pair, revents>>
    BY DEF SendUnit, Reported, Ready
  <1>2. \A t \in Sides : t = s \/ t = Other(s)
    BY DEF Sides, Other
  <1>3. /\ sock'["control"][s].in # <<>> /\ sock["control"][s].peer = "open"
        /\ sock'["control"][s].peer = sock["control"][s].peer
        /\ sock'["control"][Other(s)] = sock["control"][Other(s)]
    BY SentOnControl
  <1>4. \A t \in Sides : Gone("control", t)' <=> Gone("control", t)
    BY <1>2, <1>3 DEF Gone
  <1>5. ~(Reported(s) /\ sock["control"][s].in = <<>>)
    BY <1>3 DEF Waits, Round, Gone
  <1>6. \A t \in Sides : Reported(t)' /\ sock'["control"][t].in = <<>> => Gone("control", t)'
    BY <1>1, <1>2, <1>3, <1>4 DEF Waits, Round
  <1> QED
    BY <1>1, <1>4, <1>5, <1>6 DEF Waits, Round

\* A command is sent when the last has been answered: no connection waits for the server.
LEMMA CommandKeepsWaits ==
    ASSUME Pipelining = FALSE, SockType, Intact, Alternate, Listeners, Waits,
           NEW kind, ClientCommand(kind)
    PROVE  Waits'
  <1>1. /\ SendUnit("control", "connect", kind, None) /\ client.sent = Len(client.got)
        /\ supportftp = 1 /\ "connect" \in Sides /\ "remote" \in Sides
        /\ Other("connect") = "remote"
    BY DEF ClientCommand, client, Sides, Other
  <1>2. client.in = <<>> /\ server.in = <<>> /\ Len(server.got) = server.sent /\ server.sent \in Nat
    BY <1>1, Flow
  <1>3. /\ Round' /\ ~Reported("connect")
        /\ \A fd : Reported(fd)' <=> Reported(fd)
        /\ \A l : Ready(l)' <=> Ready(l)
        /\ \A t \in Sides : Gone("control", t)' <=> Gone("control", t)
    BY <1>1, <1>2, SendKeepsRound DEF client
  <1>4. client'.in # <<>> /\ server' = server
    BY <1>1, SentOnControl DEF client, server
  <1>5. ~(server.sent < Len(server.got) \/ server.in # <<>>)
    BY <1>2
  <1>6. PortWaits'
    BY <1>3, <1>4, <1>5 DEF Waits, PortWaits
  <1>7. PasvWaits'
    BY <1>2, <1>3, <1>4 DEF Waits, PasvWaits
  <1> QED
    BY <1>3, <1>6, <1>7 DEF Waits

\* A reply is sent to a command that has been read: no connection of the client waits.
LEMMA ReplyKeepsWaits ==
    ASSUME SockType, Intact, Alternate, Listeners, Waits, ServerReply
    PROVE  Waits'
  <1> DEFINE kind == IF Command.kind = "PASV" THEN "227" ELSE "any"
  <1>1. /\ SendUnit("control", "remote", kind, None) /\ Len(server.got) > server.sent
        /\ server.peer = "open"
        /\ supportftp = 1 /\ "connect" \in Sides /\ "remote" \in Sides
        /\ Other("remote") = "connect"
    BY DEF ServerReply, Answering, server, Sides, Other
  <1> HIDE DEF kind
  <1>2. /\ client.in = <<>> /\ server.in = <<>> /\ client.sent # Len(client.got)
        /\ ~Gone("control", "remote")
    <2>1. server.sent \in Nat /\ Len(server.got) \in Nat /\ Len(server.got) # server.sent
      BY <1>1, Flow
    <2> QED
      BY <1>1, <2>1, Flow DEF Gone, server
  <1>k. PICK k : k = kind
    OBVIOUS
  <1>3. /\ Round' /\ ~Reported("remote")
        /\ \A fd : Reported(fd)' <=> Reported(fd)
        /\ \A l : Ready(l)' <=> Ready(l)
        /\ \A t \in Sides : Gone("control", t)' <=> Gone("control", t)
    BY <1>1, <1>2, <1>k, SendKeepsRound DEF server
  <1>4. server'.in # <<>> /\ client' = client
    BY <1>1, <1>k, SentOnControl DEF client, server
  <1>5. PortWaits'
    BY <1>2, <1>3, <1>4 DEF Waits, PortWaits
  <1>6. PasvWaits'
    BY <1>2, <1>3, <1>4 DEF Waits, PasvWaits
  <1> QED
    BY <1>3, <1>5, <1>6 DEF Waits

\* Without -f no listening socket is there.
LEMMA PlainSendKeepsWaits ==
    ASSUME SockType, Listeners, Waits, supportftp = 0, NEW s \in Sides, PeerSend("control", s)
    PROVE  Waits'
  <1>1. \A l \in Slots : ~Ready(l)
    BY ReadyWithFtp
  <1>2. /\ Round' /\ \A l : Ready(l)' <=> Ready(l)
    BY SendKeepsRound DEF PeerSend
  <1> QED
    BY <1>1, <1>2 DEF Waits, PortWaits, PasvWaits, Slots

\* Nothing waits when the process has ended.
LEMMA EndsKeepsWaits ==
    ASSUME Ends
    PROVE  Waits'
  <1>1. /\ \A l : ~Ready(l)' /\ ~Reported(l)'
        /\ revents'["control"] = {}
    BY DEF Ends, Ready, Reported, Pairs
  <1> QED
    BY <1>1 DEF Waits, Round, PortWaits, PasvWaits, Slots, Sides

\* What is read was reported when the round began, and is looked at before the listening
\* sockets: no connection waits for it.
LEMMA ReadKeepsWaits ==
    ASSUME SockType, ProcessType, Intact, Alternate, Listeners, Waits, pair = "control",
           NEW s \in Sides, ReadPlain(s) \/ ReadAnnouncement(s)
    PROVE  Waits'
  <1> DEFINE slot == IF s = "connect" THEN "PORT" ELSE "227"
  <1>1. /\ revents' = [revents EXCEPT !["control"] = @ \ {s}] /\ rpc' = "write"
        /\ Reported(s) /\ (Reported("connect") => s = "connect")
        /\ sock["control"][s].in # <<>>
    <2>1. /\ revents' = [revents EXCEPT !["control"] = @ \ {s}] /\ rpc' = "write"
          /\ Reported(s) /\ (Reported("connect") => s = "connect")
      BY DEF ReadPlain, ReadAnnouncement, Turn, Looked, Reported
    <2>2. sock["control"][s].in # <<>>
      <3>1. \E k \in 1..Len(sock["control"][s].in) : k = k
        BY DEF ReadPlain, ReadAnnouncement
      <3>2. sock["control"][s].in = <<>> => Len(sock["control"][s].in) = 0
        OBVIOUS
      <3> QED
        BY <3>1, <3>2
    <2> QED
      BY <2>1, <2>2
  <1>2. \A fd : Reported(fd)' <=> Reported(fd) /\ fd # s
    BY <1>1 DEF Reported, ProcessType, Pairs
  <1>3. ~Ready(slot)
    BY <1>1 DEF Waits, PortWaits, PasvWaits, client, server, Sides
  <1>4. /\ sock'["control"][s].sent = sock["control"][s].sent
        /\ sock'["control"][s].got = sock["control"][s].got
        /\ sock'["control"][s].peer = sock["control"][s].peer
        /\ sock'["control"][Other(s)] = sock["control"][Other(s)]
    BY ReadControl
  <1>5. supportftp = 1 => sock'["control"][s].in = <<>>
    <2> SUFFICES ASSUME supportftp = 1 PROVE sock'["control"][s].in = <<>>
      OBVIOUS
    <2>1. Len(sock["control"][s].in) <= 1 /\ Len(sock["control"][s].in) \in Nat
      <3>1. /\ Len(client.in) <= 1 /\ Len(server.in) <= 1 /\ client.in \in Seq(Unit)
            /\ server.in \in Seq(Unit)
        BY Flow
      <3> QED
        BY <3>1 DEF client, server, Sides
    <2>2. PICK k \in 1..Len(sock["control"][s].in) :
              /\ Len(sock'["control"][s].in) = Len(sock["control"][s].in) - k
              /\ sock'["control"][s].in \in Seq(Unit)
      BY ReadControl
    <2>3. Len(sock'["control"][s].in) = 0
      BY <2>1, <2>2
    <2> QED
      BY <2>2, <2>3
  <1>6. \A l \in Slots : Ready(l)' <=> Ready(l)
    <2>1. CASE ReadPlain(s)
      BY <2>1 DEF ReadPlain, Ready
    <2>2. CASE ReadAnnouncement(s)
      <3>1. PICK l \in Announced :
                /\ l[1] = slot /\ l \notin opened /\ pending' = pending
                /\ listener' = [listener EXCEPT ![l[1]] = l]
        BY <2>2, NewListener
      <3>2. listener'[slot] = l /\ \A q \in Slots : q # slot => listener'[q] = listener[q]
        BY <3>1 DEF Listeners, Slots
      <3>3. l \notin pending
        BY <3>1 DEF Listeners
      <3> QED
        BY <1>3, <3>1, <3>2, <3>3 DEF Ready
    <2> QED
      BY <2>1, <2>2
  <1>7. \A t \in Sides : Gone("control", t)' <=> Gone("control", t)
    <2>1. \A t \in Sides : t = s \/ t = Other(s)
      BY DEF Sides, Other
    <2> QED
      BY <1>4, <2>1 DEF Gone
  <1>8. Round'
    <2>1. \A t \in Sides : Reported(t)' /\ sock'["control"][t].in = <<>> => Gone("control", t)'
      <3>1. \A t \in Sides : t = s \/ t = Other(s)
        BY DEF Sides, Other
      <3> QED
        BY <1>2, <1>4, <1>7, <3>1 DEF Waits, Round
    <2>2. \A l \in Slots : Reported(l)' => Ready(l)'
      BY <1>2, <1>6 DEF Waits, Round
    <2> QED
      BY <1>1, <2>1, <2>2 DEF Round
  <1>9. \A l \in Slots : Ready(l) => supportftp = 1
    BY ReadyWithFtp
  <1>10. CASE s = "connect"
    <2>1. /\ server' = server /\ client'.sent = client.sent /\ client'.got = client.got
          /\ supportftp = 1 => client'.in = <<>>
      BY <1>4, <1>5, <1>10 DEF client, server, Other
    <2>2. PortWaits'
      BY <1>3, <1>6, <1>10 DEF PortWaits, Slots
    <2>3. PasvWaits'
      <3> SUFFICES ASSUME Ready("227")
                   PROVE  /\ \/ server'.in = <<>> /\ \/ client'.sent = Len(client'.got) \/ client'.in # <<>>
                                                     \/ Gone("control", "remote")'
                             \/ Reported("227")' /\ ~Reported("remote")'
                          /\ client'.in # <<>> /\ Reported("connect")' => Reported("227")'
        BY <1>6 DEF PasvWaits, Slots
      <3>1. client'.in = <<>> /\ server' = server
        BY <1>9, <2>1 DEF Slots
      <3>2. client.in # <<>> /\ Reported("connect")
        BY <1>1, <1>10 DEF client
      <3>3. Reported("227") /\ Reported("227")'
        BY <1>2, <1>10, <3>2 DEF Waits, PasvWaits
      <3>4. ~Reported("remote")' \/ (server.in = <<>> => Gone("control", "remote")')
        BY <1>2, <1>7, <1>10 DEF Waits, Round, server, Sides
      <3>5. server.in = <<>> \/ ~Reported("remote")
        BY DEF Waits, PasvWaits
      <3> QED
        BY <1>2, <3>1, <3>3, <3>4, <3>5
    <2> QED
      BY <1>8, <2>2, <2>3 DEF Waits
  <1>11. CASE s = "remote"
    <2>1. /\ client' = client /\ server'.sent = server.sent /\ server'.got = server.got
          /\ supportftp = 1 => server'.in = <<>>
      BY <1>4, <1>5, <1>11 DEF client, server, Other
    <2>2. PasvWaits'
      BY <1>3, <1>6, <1>11 DEF PasvWaits, Slots
    <2>3. PortWaits'
      <3> SUFFICES ASSUME Ready("PORT")
                   PROVE  /\ Reported("PORT")' /\ ~Reported("connect")'
                          /\ server'.in # <<>> /\ Reported("remote")' => Reported("PORT")'
        BY <1>6 DEF PortWaits, Slots
      <3>1. server.in # <<>> /\ Reported("remote") /\ ~Reported("connect")
        BY <1>1, <1>11 DEF server
      <3>2. Reported("PORT")
        BY <3>1 DEF Waits, PortWaits
      <3> QED
        BY <1>2, <1>11, <3>1, <3>2
    <2> QED
      BY <1>8, <2>2, <2>3 DEF Waits
  <1> QED
    BY <1>10, <1>11 DEF Sides

\* Every step keeps the order: a connection is accepted before what follows it is read.
LEMMA WaitsKept ==
    ASSUME Pipelining = FALSE, SockType, ProcessType, Intact, Unconnected, Alternate,
           Listeners, Waits, [Next]_vars
    PROVE  Waits'
  <1>1. CASE Aside
    <2>1. CASE ServerConnects \/ ClientConnects
      BY <2>1, ArriveKeepsWaits
    <2>2. CASE \E l \in Slots : AcceptData(l)
      BY <2>2, AcceptKeepsWaits
    <2>3. CASE Poll /\ pair = "control"
      BY <2>3, PollKeepsWaits
    <2>4. ASSUME ~(ServerConnects \/ ClientConnects), ~(\E l \in Slots : AcceptData(l)),
                 ~(Poll /\ pair = "control")
          PROVE  /\ revents'["control"] = revents["control"] /\ UNCHANGED <<listener, pending>>
                 /\ rpc' \in {"dial", "poll"} /\ pair' = "control" => revents'["control"] = {}
      <3>1. CASE EndRound \/ Reach \/ UNCHANGED vars
        BY <3>1 DEF EndRound, Reach, vars, Waits, Round
      <3>2. CASE Poll \/ Write \/ Written \/ DataEnd \/ ReachData \/ DataUnreachable
        BY <2>4, <3>2 DEF Poll, Write, Written, DataEnd, LeaveData, ReachData, DataUnreachable,
             ProcessType, Pairs
      <3>3. CASE \E s \in Sides : pair = "data" /\ ReadPlain(s)
        BY <3>3 DEF ReadPlain, Looked, ProcessType, Pairs
      <3>4. ASSUME UNCHANGED <<rpc, pair, revents, listener, pending>>
            PROVE  /\ revents'["control"] = revents["control"] /\ UNCHANGED <<listener, pending>>
                   /\ rpc' \in {"dial", "poll"} /\ pair' = "control" => revents'["control"] = {}
        BY <3>4 DEF Waits, Round
      <3>5. ASSUME NEW p, NEW s,
                   PeerSend(p, s) \/ PeerTake(p, s) \/ PeerFinish(p, s) \/ PeerReset(p, s)
            PROVE  UNCHANGED <<rpc, pair, revents, listener, pending>>
        BY <3>5 DEF PeerSend, SendUnit, PeerTake, PeerFinish, PeerReset
      <3> QED
        BY <1>1, <2>4, <3>1, <3>2, <3>3, <3>4, <3>5 DEF Aside
    <2>5. ControlStays
      BY <1>1, ControlLeftAlone
    <2> QED
      BY <2>1, <2>2, <2>3, <2>4, <2>5, WaitsStay
  <1>2. CASE Ends
    BY <1>2, EndsKeepsWaits
  <1>3. CASE supportftp = 0 /\ \E s \in Sides : PeerSend("control", s)
    BY <1>3, PlainSendKeepsWaits
  <1>4. CASE (\E kind \in {"PORT", "PASV", "RETR"} : ClientCommand(kind)) \/ ServerReply
    BY <1>4, CommandKeepsWaits, ReplyKeepsWaits
  <1>5. CASE pair = "control" /\ \E s \in Sides : ReadPlain(s) \/ ReadAnnouncement(s)
    BY <1>5, ReadKeepsWaits
  <1> QED
    BY <1>1, <1>2, <1>3, <1>4, <1>5, ControlSteps

-----------------------------------------------------------------------------
(* The theorems.                                                            *)

\* Nothing has been sent to begin with.
LEMMA RelayStart == Init => RelayInv
  <1> SUFFICES ASSUME Init PROVE RelayInv
    OBVIOUS
  <1> DEFINE first(p, s) == Socket(IF p = "control" /\ s = "connect" THEN "open" ELSE "none")
  <1>1. /\ sock = [p \in Pairs |-> [s \in Sides |-> first(p, s)]]
        /\ rpc = "dial" /\ pair = "control" /\ buf = <<>> /\ to = "remote"
        /\ opened = {} /\ listener = [l \in Slots |-> None] /\ pending = {}
        /\ revents = [p \in Pairs |-> {}] /\ supportftp \in {0, 1}
    BY DEF Init
  <1>2. \A p, s : /\ first(p, s) \in SocketType /\ first(p, s).in = <<>> /\ first(p, s).out = <<>>
                  /\ first(p, s).got = <<>> /\ first(p, s).sent = 0
    BY NewSocket
  <1>3. first("control", "remote") = Socket("none")
    OBVIOUS
  <1> HIDE DEF first
  <1>4. SockType /\ \A p \in Pairs, s \in Sides : sock[p][s] = first(p, s)
    BY <1>1, <1>2 DEF SockType
  <1>5. ProcessType
    BY <1>1 DEF ProcessType, Rpcs, Pairs, Sides
  <1>6. Intact
    <2>1. Len(<<>>) = 0 /\ \A n : Numbered(<<>>, n)
      BY DEF Numbered
    <2>2. \A p \in Pairs, s \in Sides : InHand(p, s) = <<>>
      BY <1>1 DEF InHand
    <2> SUFFICES ASSUME NEW p \in Pairs, NEW s \in Sides
                 PROVE  /\ Counted(sock[p][s], sock[p][Other(s)])
                        /\ Passed(sock[p][s], sock[p][Other(s)], <<>>)
      BY <2>2 DEF Intact
    <2>3. PICK from, there : /\ from = sock[p][s] /\ there = sock[p][Other(s)]
      OBVIOUS
    <2>4. /\ from.in = <<>> /\ from.sent = 0 /\ there.got = <<>> /\ there.out = <<>>
      BY <1>2, <1>4, <2>3, OtherSide
    <2>5. Len(from.in) = 0 /\ Len(there.got) = 0 /\ Len(there.out) = 0
      BY <2>1, <2>4
    <2>6. \A n : Numbered(from.in, n) /\ Numbered(there.got, n) /\ Numbered(there.out, n)
      BY <2>1, <2>4
    <2>7. Read(from) = 0
      <3>1. from.sent = 0 /\ Len(from.in) = 0
        BY <2>4, <2>5
      <3> QED
        BY <3>1 DEF Read
    <2>8. Counted(from, there)
      BY <2>4, <2>5, <2>6, <2>7 DEF Counted
    <2>9. Passed(from, there, <<>>)
      BY <2>1, <2>5, <2>6, <2>7 DEF Passed
    <2> QED
      BY <2>3, <2>8, <2>9
  <1>7. Unconnected
    BY <1>1, <1>3, <1>4 DEF Unconnected, server, Pairs, Sides
  <1>8. Alternate
    <2>1. /\ client.sent = 0 /\ server.sent = 0 /\ client.got = <<>> /\ server.got = <<>>
      BY <1>2, <1>4 DEF client, server, Pairs, Sides
    <2> QED
      BY <2>1 DEF Alternate
  <1>9. Listeners
    BY <1>1 DEF Listeners
  <1>10. Waits
    BY <1>1 DEF Waits, Round, PortWaits, PasvWaits, Ready, Reported, Pairs
  <1> QED
    BY <1>4, <1>5, <1>6, <1>7, <1>8, <1>9, <1>10 DEF RelayInv

\* Every step keeps the inductive invariant.
LEMMA RelayStepKept ==
    ASSUME Pipelining = FALSE, RelayInv, [Next]_vars
    PROVE  RelayInv'
  <1>1. SockType' /\ Intact'
    BY StreamsKept DEF RelayInv
  <1>2. ProcessType' /\ Unconnected' /\ Alternate'
    BY ProcessKept, UnconnectedKept, AlternateKept DEF RelayInv
  <1>3. Listeners' /\ Waits'
    BY <1>1, ListenersKept, WaitsKept DEF RelayInv
  <1> QED
    BY <1>1, <1>2, <1>3 DEF RelayInv

\* When a client waits for the reply to its last command (RFC 959), in every run of the relay
\* the sockets, the listening sockets and the round of poll are as RelayInv says.
THEOREM RelayInvariance ==
    ASSUME Pipelining = FALSE
    PROVE  Spec => []RelayInv
  <1>1. Init => RelayInv
    BY RelayStart
  <1>2. RelayInv /\ [Next]_vars => RelayInv'
    BY RelayStepKept
  <1> QED
    BY <1>1, <1>2, PTL DEF Spec

\* Units in order, followed by units in order.
LEMMA InOrder ==
    ASSUME NEW a \in Seq(Unit), NEW b \in Seq(Unit), Numbered(a, 0), Numbered(b, Len(a))
    PROVE  Numbered(a \o b, 0) /\ a \o b \in Seq(Unit) /\ Len(a \o b) = Len(a) + Len(b)
  <1> DEFINE m == Len(a)  n == Len(b)  c == a \o b
  <1>1. /\ c \in Seq(Unit) /\ Len(c) = m + n /\ m \in Nat /\ n \in Nat
        /\ \A i \in 1..m : c[i] = a[i]
        /\ \A i \in 1..n : c[m + i] = b[i]
    BY Joined
  <1>2. ASSUME NEW i \in 1..(m + n) PROVE c[i].n = 0 + i
    <2>1. CASE i \in 1..m
      BY <1>1, <2>1 DEF Numbered
    <2>2. CASE i \notin 1..m
      <3>1. PICK j \in 1..n : i = m + j
        <4>1. i - m \in 1..n /\ i = m + (i - m)
          BY <1>1, <2>2
        <4> QED
          BY <4>1
      <3>2. c[i].n = m + j
        BY <1>1, <3>1 DEF Numbered
      <3> QED
        BY <3>1, <3>2
    <2> QED
      BY <2>1, <2>2
  <1> HIDE DEF c
  <1> QED
    BY <1>1, <1>2 DEF Numbered, c

\* The numbers in each direction, put together, are those of what was sent.
LEMMA IntactIsStream ==
    ASSUME SockType, ProcessType, Intact
    PROVE  StreamIntact
  <1> SUFFICES ASSUME NEW p \in Pairs, NEW s \in Sides, rpc # "ended",
                      sock[p][Other(s)].peer # "reset"
               PROVE  Numbers(sock[p][Other(s)].got \o sock[p][Other(s)].out
                                 \o InHand(p, s) \o sock[p][s].in)
                         = [i \in 1..sock[p][s].sent |-> i]
    BY DEF StreamIntact, InHand
  <1>1. PICK from \in SocketType, there \in SocketType, hand \in Seq(Unit) :
            from = sock[p][s] /\ there = sock[p][Other(s)] /\ hand = InHand(p, s)
    <2>1. sock[p][s] \in SocketType /\ sock[p][Other(s)] \in SocketType /\ InHand(p, s) \in Seq(Unit)
      BY OtherSide DEF SockType, ProcessType, InHand
    <2> QED
      BY <2>1
  <1>2. Counted(from, there) /\ Passed(from, there, hand)
    BY <1>1 DEF Intact
  <1>3. /\ there.got \in Seq(Unit) /\ there.out \in Seq(Unit) /\ from.in \in Seq(Unit)
        /\ Len(there.got) \in Nat /\ Len(there.out) \in Nat /\ Len(hand) \in Nat
        /\ Len(from.in) \in Nat /\ from.sent \in Nat
    BY DEF SocketType
  <1>4. PICK a \in Seq(Unit) : a = there.got \o there.out /\ Numbered(a, 0)
                                  /\ Len(a) = Len(there.got) + Len(there.out)
    BY <1>2, <1>3, InOrder DEF Passed
  <1>5. PICK b \in Seq(Unit) : b = a \o hand /\ Numbered(b, 0) /\ Len(b) = Len(a) + Len(hand)
    BY <1>2, <1>4, InOrder DEF Passed
  <1>6. Len(b) = Read(from)
    BY <1>2, <1>4, <1>5 DEF Passed
  <1>7. PICK c \in Seq(Unit) : c = b \o from.in /\ Numbered(c, 0) /\ Len(c) = Len(b) + Len(from.in)
    <2>1. Numbered(from.in, Len(b))
      BY <1>2, <1>6 DEF Counted
    <2> QED
      BY <1>3, <1>5, <2>1, InOrder
  <1>8. Len(c) = from.sent
    BY <1>3, <1>6, <1>7 DEF Read
  <1>9. Numbers(c) = [i \in 1..from.sent |-> i]
    <2>1. DOMAIN c = 1..from.sent /\ \A i \in 1..from.sent : c[i].n = i
      BY <1>3, <1>7, <1>8 DEF Numbered
    <2> QED
      BY <2>1 DEF Numbers
  <1> QED
    BY <1>1, <1>4, <1>5, <1>7, <1>9

\* The copy is exact in both directions of both pairs, whatever is written in parts and
\* whatever becomes of the data connections, as long as the receiver is not reset.
THEOREM CopyExact ==
    ASSUME Pipelining = FALSE
    PROVE  Spec => []StreamIntact
  <1>1. RelayInv => StreamIntact
    BY IntactIsStream DEF RelayInv
  <1> QED
    BY <1>1, RelayInvariance, PTL

\* The invariant of a relay without -f, in which no message is replaced.
PlainInv == supportftp = 0 =>
    SockType /\ ProcessType /\ Intact /\ Unconnected /\ Alternate /\ Listeners

\* Without -f the copy is exact whatever a client sends when.
THEOREM PlainCopyExact == Spec => [](supportftp = 0 => StreamIntact)
  <1>1. Init => PlainInv
    BY RelayStart DEF PlainInv, RelayInv
  <1>2. ASSUME PlainInv, [Next]_vars PROVE PlainInv'
    <2> SUFFICES ASSUME supportftp' = 0
                 PROVE  (SockType /\ ProcessType /\ Intact /\ Unconnected /\ Alternate /\ Listeners)'
      BY DEF PlainInv
    <2>1. SockType /\ ProcessType /\ Intact /\ Unconnected /\ Alternate /\ Listeners
      BY <1>2, SameProtocol DEF PlainInv
    <2>2. SockType' /\ Intact'
      BY <1>2, <2>1, StreamsKept
    <2>3. ProcessType' /\ Unconnected' /\ Listeners'
      BY <1>2, <2>1, <2>2, ProcessKept, UnconnectedKept, ListenersKept
    <2>4. Alternate'
      BY DEF Alternate
    <2> QED
      BY <2>2, <2>3, <2>4
  <1>3. PlainInv => (supportftp = 0 => StreamIntact)
    BY IntactIsStream DEF PlainInv
  <1> QED
    BY <1>1, <1>2, <1>3, PTL DEF Spec

\* accept is never called for a listening socket no connection has come to, although its slot
\* may have been given to another since poll reported it, and no slot refers to a listening
\* socket that has been closed.
THEOREM AcceptDoesNotBlock ==
    ASSUME Pipelining = FALSE
    PROVE  Spec => []AcceptFindsConnection
  <1>1. RelayInv => AcceptFindsConnection
    <2> SUFFICES ASSUME RelayInv, NEW l \in Slots
                 PROVE  /\ Turn(l) => listener[l] \in pending
                        /\ listener[l] \in opened \cup {None}
      BY DEF AcceptFindsConnection
    <2>1. ASSUME Turn(l) PROVE Reported(l)
      BY <2>1 DEF Turn, Reported, RelayInv, ProcessType, Pairs, Slots, Sides
    <2>2. Reported(l) => listener[l] \in pending
      BY DEF RelayInv, Waits, Round, Ready
    <2>3. listener[l] \in opened \cup {None}
      BY DEF RelayInv, Listeners
    <2> QED
      BY <2>1, <2>2, <2>3
  <1> QED
    BY <1>1, RelayInvariance, PTL

===============================================================================
