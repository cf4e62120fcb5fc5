------------------------------ MODULE DatapipeProofs ------------------------------
(***************************************************************************)
(* Proofs about Datapipe, for every set of process numbers and clients:     *)
(* type correctness, OnlyRelaysBeside and OneRelay.                         *)
(***************************************************************************)
EXTENDS Datapipe, TLAPS

\* The processes one of which is to become, or is, the listener.
Main == Starting \cup Listening

\* The processes whose copy of a connection is to be relayed, by them or by a
\* process they still have to fork.
Active == {"fork"} \cup Serving \cup Relaying

\* A free number has no parent; a parent is alive.
FamilyOK ==
    /\ \A q \in Pids : pc[q] = "none" => parent[q] = None
    /\ \A q \in Pids : parent[q] # None => pc[parent[q]] \notin {"none", "zombie"}

\* There is one listener at most, and while it has a child that is the one it
\* waits for.
ListenerOK ==
    /\ \A p, q \in Pids : pc[p] \in Main /\ pc[q] \in Main => p = q
    /\ \A p, q \in Pids : pc[p] \in Main /\ parent[q] = p =>
          q = pid /\ pc[p] \in {"parent", "waitpid"}
    /\ \A p \in Pids : pc[p] \in {"parent", "waitpid"} => pid \in Pids

\* While there is a listener the processes between the two forks are its children.
ServingOK ==
    \A p, q \in Pids : pc[q] \in Serving /\ pc[p] \in Main =>
        pc[p] \in Listening /\ parent[q] = p

\* A connection that a process has was accepted; the backlog holds each of the
\* others once.
BacklogOK ==
    /\ \A p \in Pids : connectSocket[p] # None => client[connectSocket[p]] = "accepted"
    /\ \A i \in 1..Len(backlog) : client[backlog[i]] = "queued"
    /\ \A i, j \in 1..Len(backlog) : backlog[i] = backlog[j] => i = j

\* Each connection has one process at most that is to see to it.
ActiveOK ==
    /\ \A p \in Pids : pc[p] \in Active \cup {"parent"} => connectSocket[p] \in Clients
    /\ \A p, q \in Pids : /\ pc[p] \in Active /\ pc[q] \in Active
                          /\ connectSocket[p] = connectSocket[q]
                          => p = q

IInv == TypeOK /\ FamilyOK /\ ListenerOK /\ ServingOK /\ BacklogOK /\ ActiveOK

-----------------------------------------------------------------------------

\* How the program counters are divided among the sets.
LEMMA Places ==
    /\ \A l \in {"none", "zombie", "exit"} :
          l \notin Main /\ l \notin Listening /\ l \notin Serving /\ l \notin Active
    /\ \A l \in Listening : l \in Main /\ l \notin Serving /\ l \notin Starting
    /\ \A l \in Starting : l \in Main /\ l \notin Serving /\ l \notin Active
    /\ \A l \in Main : l \in Starting \/ l \in Listening
    /\ \A l \in Serving : l \in Active /\ l \notin Main
    /\ \A l \in Relaying : l \in Active /\ l \notin Main /\ l \notin Serving
    /\ {"fork", "accept", "parent", "waitpid"} \subseteq Listening
    /\ {"main", "daemon_init", "setsid", "initTcpServer"} \subseteq Starting
    /\ {"child", "again"} \subseteq Serving
    /\ {"dial", "relay", "shutdown"} \subseteq Relaying
    /\ "fork" \in Active /\ {"accept", "parent", "waitpid"} \cap Active = {}
  BY DEF Main, Active, Starting, Listening, Serving, Relaying

\* The invariant holds at the start.
LEMMA InitInv == Init => IInv
  <1> SUFFICES ASSUME Init PROVE IInv
    OBVIOUS
  <1> USE DatapipeAssumption
  <1>1. TypeOK
    BY DEF Init, TypeOK, Starting, Listening, Serving, Relaying
  <1>2. FamilyOK /\ BacklogOK
    BY DEF Init, FamilyOK, BacklogOK
  <1>3. ListenerOK /\ ServingOK /\ ActiveOK
    BY DEF Init, ListenerOK, ServingOK, ActiveOK, Main, Active, Starting, Listening,
           Serving, Relaying
  <1>4. QED
    BY <1>1, <1>2, <1>3 DEF IInv

\* What Exit does to the backlog keeps it as it should be.
LEMMA BacklogKeptOK ==
    ASSUME TypeOK, BacklogOK, BacklogKept,
           \A p \in Pids : connectSocket'[p] \in {connectSocket[p], None}
    PROVE  BacklogOK' /\ backlog' \in Seq(Clients)
           /\ client' \in [Clients -> {"away", "queued", "accepted", "refused"}]
  <1> USE DatapipeAssumption
  <1>1. CASE UNCHANGED <<backlog, client>>
    BY <1>1 DEF TypeOK, BacklogOK
  <1>2. CASE /\ backlog' = <<>>
             /\ client' = [c \in Clients |-> IF client[c] = "queued" THEN "refused"
                                                                     ELSE client[c]]
    BY <1>2 DEF TypeOK, BacklogOK
  <1>3. QED
    BY <1>1, <1>2 DEF BacklogKept

\* A process that ends, wherever it is, disturbs none of the parts.
LEMMA ExitInv ==
    ASSUME IInv, NEW p \in Pids, pc[p] \notin {"none", "zombie"}, Exit(p)
    PROVE  IInv'
  <1> USE DatapipeAssumption
  <1>1. /\ pc'[p] \in {"none", "zombie"}
        /\ \A q \in Pids \ {p} : pc'[q] = pc[q] \/ (pc[q] = "zombie" /\ pc'[q] = "none")
        /\ \A q \in Pids : parent'[q] = IF parent[q] = p THEN None ELSE parent[q]
        /\ \A q \in Pids : pc'[q] = "none" => parent'[q] = None
        /\ \A q \in Pids \ {p} : acceptSocket'[q] = acceptSocket[q]
                              /\ connectSocket'[q] = connectSocket[q]
        /\ ~acceptSocket'[p] /\ connectSocket'[p] = None
        /\ pid' = pid
    BY DEF Exit, IInv, TypeOK, FamilyOK
  <1>2. BacklogOK' /\ backlog' \in Seq(Clients)
        /\ client' \in [Clients -> {"away", "queued", "accepted", "refused"}]
    <2>1. \A q \in Pids : connectSocket'[q] \in {connectSocket[q], None}
      BY <1>1
    <2>2. QED
      BY <2>1, BacklogKeptOK DEF IInv, Exit
  <1>3. TypeOK'
    BY <1>1, <1>2 DEF IInv, TypeOK, Exit, Starting, Listening, Serving, Relaying
  <1>4. FamilyOK'
    BY <1>1 DEF IInv, TypeOK, FamilyOK
  <1>5. \A q \in Pids : pc'[q] \notin {"none", "zombie"} => q # p /\ pc'[q] = pc[q]
    BY <1>1
  <1>6. ListenerOK' /\ ServingOK'
    <2>1. ListenerOK'
      BY <1>1, <1>5, Places DEF IInv, ListenerOK
    <2>2. ServingOK'
      BY <1>1, <1>5, Places DEF IInv, ServingOK
    <2>3. QED
      BY <2>1, <2>2
  <1>7. ActiveOK'
    BY <1>1, <1>5, Places DEF IInv, ActiveOK
  <1>8. QED
    BY <1>2, <1>3, <1>4, <1>6, <1>7 DEF IInv

\* A fork that makes the listener's child, or the process that relays, or one of
\* daemon_init's.
LEMMA ForkFacts ==
    ASSUME IInv, NEW p \in Pids, NEW q \in Pids, NEW here, NEW there,
           here # "none", here # "zombie", there # "none", pc[p] \notin {"none", "zombie"},
           Forks(p, q, here, there)
    PROVE  /\ q # p /\ parent[q] = None
           /\ \A r \in Pids : parent[r] # q
           /\ FamilyOK'
  BY DatapipeAssumption DEF Forks, IInv, FamilyOK, TypeOK

\* A process is forked for the client.
LEMMA ForkChildInv == ASSUME IInv, NEW p \in Pids, ForkChild(p) PROVE IInv'
  <1> USE DatapipeAssumption
  <1>1. PICK q \in Pids : Forks(p, q, "parent", "child") /\ pid' = q
    BY DEF ForkChild
  <1>2. /\ pc[p] = "fork" /\ pc[q] = "none" /\ q # p
        /\ \A r \in Pids : parent[r] # q
        /\ FamilyOK'
    BY <1>1, ForkFacts DEF ForkChild, Forks
  <1>3. TypeOK'
    BY <1>1, <1>2 DEF IInv, TypeOK, ForkChild, Forks, Starting, Listening, Serving, Relaying
  <1>4. BacklogOK'
    BY <1>1, <1>2 DEF IInv, TypeOK, BacklogOK, ForkChild, Forks
  <1>5. \A r \in Pids : parent[r] # p
    BY <1>2, Places DEF IInv, ListenerOK
  <1>6. \A r \in Pids : pc[r] \notin Serving
    BY <1>2, <1>5, Places DEF IInv, ServingOK
  <1>7. /\ pc'[p] = "parent" /\ pc'[q] = "child"
        /\ \A r \in Pids \ {p, q} : pc'[r] = pc[r]
        /\ parent'[q] = p
        /\ \A r \in Pids \ {q} : parent'[r] = parent[r]
        /\ connectSocket'[q] = connectSocket[p]
        /\ \A r \in Pids \ {q} : connectSocket'[r] = connectSocket[r]
    BY <1>1, <1>2 DEF IInv, TypeOK, Forks
  <1>8. ListenerOK'
    BY <1>1, <1>2, <1>5, <1>7, Places DEF IInv, ListenerOK
  <1>9. ServingOK'
    BY <1>2, <1>6, <1>7, Places DEF IInv, ServingOK, ListenerOK
  <1>10. ActiveOK'
    BY <1>2, <1>7, Places DEF IInv, ActiveOK
  <1>11. QED
    BY <1>2, <1>3, <1>4, <1>8, <1>9, <1>10 DEF IInv

\* It forks the process that relays.
LEMMA ForkRelayInv == ASSUME IInv, NEW p \in Pids, ForkRelay(p) PROVE IInv'
  <1> USE DatapipeAssumption
  <1>1. PICK q \in Pids : Forks(p, q, "exit", "dial")
    BY DEF ForkRelay
  <1>2. /\ pc[p] = "again" /\ pc[q] = "none" /\ q # p
        /\ \A r \in Pids : parent[r] # q
        /\ FamilyOK'
    BY <1>1, ForkFacts DEF ForkRelay, Forks
  <1>3. TypeOK'
    BY <1>1, <1>2 DEF IInv, TypeOK, ForkRelay, Forks, Starting, Listening, Serving, Relaying
  <1>4. BacklogOK'
    BY <1>1, <1>2 DEF IInv, TypeOK, BacklogOK, ForkRelay, Forks
  <1>5. /\ pc'[p] = "exit" /\ pc'[q] = "dial"
        /\ \A r \in Pids \ {p, q} : pc'[r] = pc[r]
        /\ parent'[q] = p
        /\ \A r \in Pids \ {q} : parent'[r] = parent[r]
        /\ connectSocket'[q] = connectSocket[p]
        /\ \A r \in Pids \ {q} : connectSocket'[r] = connectSocket[r]
        /\ pid' = pid
    BY <1>1, <1>2 DEF IInv, TypeOK, Forks, ForkRelay
  <1>8. ListenerOK'
    BY <1>2, <1>5, Places DEF IInv, ListenerOK
  <1>9. ServingOK'
    BY <1>2, <1>5, Places DEF IInv, ServingOK
  <1>10. ActiveOK'
    BY <1>2, <1>5, Places DEF IInv, ActiveOK
  <1>11. QED
    BY <1>2, <1>3, <1>4, <1>8, <1>9, <1>10 DEF IInv

\* The fork of daemonize, and the end of its parent.
LEMMA DaemonizeInv == ASSUME IInv, NEW p \in Pids, Daemonize(p) PROVE IInv'
  <1> USE DatapipeAssumption
  <1>1. PICK q \in Pids, there \in {"setsid", "initTcpServer"} :
            /\ Forks(p, q, "exit", there)
            /\ pc[p] \in {"daemon_init", "setsid"}
            /\ UNCHANGED <<pid, client, backlog, shut>>
    BY DEF Daemonize
  <1>2. /\ pc[q] = "none" /\ q # p
        /\ \A r \in Pids : parent[r] # q
        /\ FamilyOK'
    BY <1>1, ForkFacts DEF Forks
  <1>3. TypeOK'
    BY <1>1, <1>2 DEF IInv, TypeOK, Forks, Starting, Listening, Serving, Relaying
  <1>4. BacklogOK'
    BY <1>1, <1>2 DEF IInv, TypeOK, BacklogOK, Forks
  <1>5. /\ pc'[p] = "exit" /\ pc'[q] = there
        /\ \A r \in Pids \ {p, q} : pc'[r] = pc[r]
        /\ parent'[q] = p
        /\ \A r \in Pids \ {q} : parent'[r] = parent[r]
        /\ connectSocket'[q] = connectSocket[p]
        /\ \A r \in Pids \ {q} : connectSocket'[r] = connectSocket[r]
    BY <1>1, <1>2 DEF IInv, TypeOK, Forks
  <1>6. ListenerOK'
    BY <1>1, <1>2, <1>5, Places DEF IInv, ListenerOK
  <1>7. \A r \in Pids : pc[r] \notin Serving
    BY <1>1, Places DEF IInv, ServingOK
  <1>8. ServingOK'
    BY <1>1, <1>2, <1>5, <1>7, Places DEF ServingOK
  <1>9. ActiveOK'
    BY <1>1, <1>2, <1>5, Places DEF IInv, ActiveOK
  <1>12. QED
    BY <1>2, <1>3, <1>4, <1>6, <1>8, <1>9 DEF IInv

-----------------------------------------------------------------------------

\* A process that goes on to a place of its own kind, with the descriptors it has.
LEMMA GotoInv ==
    ASSUME IInv, NEW p \in Pids, NEW where,
           \/ pc[p] \in Starting /\ where \in Starting
           \/ pc[p] \in Relaying /\ where \in Relaying \cup {"exit"},
           Goto(p, where), shut' \subseteq Clients,
           UNCHANGED <<parent, acceptSocket, connectSocket, pid, client, backlog>>
    PROVE  IInv'
  <1> USE DatapipeAssumption
  <1>1. /\ pc'[p] = where
        /\ \A q \in Pids \ {p} : pc'[q] = pc[q]
    BY DEF Goto, IInv, TypeOK
  <1>2. TypeOK' /\ BacklogOK'
    BY DEF Goto, IInv, TypeOK, BacklogOK, Starting, Listening, Serving, Relaying
  <1>3. FamilyOK'
    BY <1>1 DEF IInv, FamilyOK, TypeOK, Starting, Relaying
  <1>4. ListenerOK'
    <2>1. \A q \in Pids : /\ pc'[q] \in Main => pc[q] \in Main
                          /\ pc[q] \in {"parent", "waitpid"} <=> pc'[q] \in {"parent", "waitpid"}
      BY <1>1, Places DEF Starting, Listening, Relaying
    <2>2. QED
      BY <2>1 DEF IInv, ListenerOK
  <1>5. ServingOK'
    <2>1. \A q \in Pids : /\ pc'[q] \in Main => pc[q] \in Main
                          /\ pc'[q] \in Serving => pc[q] \in Serving
                          /\ pc[q] \in Listening => pc'[q] \in Listening
      BY <1>1, Places DEF Starting, Relaying
    <2>2. QED
      BY <2>1 DEF IInv, ServingOK
  <1>6. ActiveOK'
    <2>1. \A q \in Pids : /\ pc'[q] \in Active => pc[q] \in Active
                          /\ pc'[q] = "parent" => pc[q] = "parent"
      BY <1>1, Places DEF Starting, Relaying
    <2>2. QED
      BY <2>1 DEF IInv, ActiveOK
  <1>7. QED
    BY <1>2, <1>3, <1>4, <1>5, <1>6 DEF IInv

\* The options are read.
LEMMA OptionsInv == ASSUME IInv, NEW p \in Pids, Options(p) PROVE IInv'
  <1>1. PICK where \in {"daemon_init", "initTcpServer"} : Goto(p, where)
    BY DEF Options
  <1>2. pc[p] \in Starting /\ where \in Starting /\ shut' \subseteq Clients
    BY <1>1, Places DEF Options, IInv, TypeOK
  <1>3. QED
    BY <1>1, <1>2, GotoInv DEF Options

\* The relay reaches its server.
LEMMA DialInv == ASSUME IInv, NEW p \in Pids, Dial(p) PROVE IInv'
  <1>1. PICK where \in {"relay", "exit"} : Goto(p, where)
    BY DEF Dial
  <1>2. pc[p] \in Relaying /\ where \in Relaying \cup {"exit"} /\ shut' \subseteq Clients
    BY <1>1, Places DEF Dial, IInv, TypeOK
  <1>3. QED
    BY <1>1, <1>2, GotoInv DEF Dial

\* The relay ends.
LEMMA RelayEndsInv == ASSUME IInv, NEW p \in Pids, RelayEnds(p) PROVE IInv'
  <1>1. pc[p] \in Relaying /\ "shutdown" \in Relaying \cup {"exit"} /\ shut' \subseteq Clients
    BY Places DEF RelayEnds, IInv, TypeOK
  <1>2. QED
    BY <1>1, GotoInv DEF RelayEnds

\* The relay shuts the connection of its client down.
LEMMA ShutdownInv == ASSUME IInv, NEW p \in Pids, Shutdown(p) PROVE IInv'
  <1>1. connectSocket[p] \in Clients
    BY Places DEF Shutdown, IInv, ActiveOK
  <1>2. pc[p] \in Relaying /\ "exit" \in Relaying \cup {"exit"} /\ shut' \subseteq Clients
    BY <1>1, Places DEF Shutdown, IInv, TypeOK
  <1>3. QED
    BY <1>2, GotoInv DEF Shutdown

\* The listening socket is set up.
LEMMA InitTcpServerInv == ASSUME IInv, NEW p \in Pids, InitTcpServer(p) PROVE IInv'
  <1> USE DatapipeAssumption
  <1>1. /\ pc[p] = "initTcpServer" /\ pc'[p] = "accept"
        /\ acceptSocket' = [acceptSocket EXCEPT ![p] = TRUE]
        /\ \A q \in Pids \ {p} : pc'[q] = pc[q]
        /\ UNCHANGED <<parent, connectSocket, pid, client, backlog, shut>>
    BY DEF InitTcpServer, Goto, IInv, TypeOK
  <1>2. TypeOK' /\ BacklogOK'
    BY <1>1 DEF InitTcpServer, Goto, IInv, TypeOK, BacklogOK, Starting, Listening, Serving,
                Relaying
  <1>3. FamilyOK'
    BY <1>1 DEF IInv, FamilyOK, TypeOK
  <1>4. ListenerOK'
    BY <1>1, Places DEF IInv, ListenerOK
  <1>5. ServingOK'
    BY <1>1, Places DEF IInv, ServingOK
  <1>6. ActiveOK'
    BY <1>1, Places DEF IInv, ActiveOK
  <1>7. QED
    BY <1>2, <1>3, <1>4, <1>5, <1>6 DEF IInv

\* What the backlog is after its first connection has been taken.
LEMMA TailFacts ==
    ASSUME NEW S, NEW s \in Seq(S), s # <<>>
    PROVE  /\ Head(s) \in S /\ Head(s) = s[1] /\ Tail(s) \in Seq(S)
           /\ Len(Tail(s)) = Len(s) - 1 /\ 1 \in 1..Len(s)
           /\ \A i \in 1..Len(Tail(s)) : Tail(s)[i] = s[i + 1] /\ i + 1 \in 2..Len(s)
  OBVIOUS

\* A queue with one more client.
LEMMA AppendFacts ==
    ASSUME NEW S, NEW s \in Seq(S), NEW e \in S
    PROVE  /\ Append(s, e) \in Seq(S) /\ Len(Append(s, e)) = Len(s) + 1
           /\ \A i \in 1..Len(s) : Append(s, e)[i] = s[i]
           /\ Append(s, e)[Len(s) + 1] = e /\ Len(s) \in Nat
  OBVIOUS

\* A new connection comes out of the backlog: no process can have had it.
LEMMA AcceptInv == ASSUME IInv, NEW p \in Pids, Accept(p) PROVE IInv'
  <1> USE DatapipeAssumption
  <1> DEFINE c == Head(backlog)
  <1>1. /\ c \in Clients /\ backlog' = Tail(backlog) /\ backlog' \in Seq(Clients)
        /\ Len(backlog') = Len(backlog) - 1 /\ Len(backlog) \in Nat
        /\ c = backlog[1] /\ 1 \in 1..Len(backlog)
        /\ \A i \in 1..Len(backlog') : backlog'[i] = backlog[i + 1] /\ i + 1 \in 2..Len(backlog)
    BY TailFacts DEF Accept, IInv, TypeOK
  <1>2. client[c] = "queued" /\ \A i \in 1..Len(backlog') : backlog'[i] # c
    BY <1>1 DEF IInv, BacklogOK
  <1>3. /\ connectSocket'[p] = c /\ client'[c] = "accepted"
        /\ \A q \in Pids \ {p} : connectSocket'[q] = connectSocket[q]
        /\ \A d \in Clients \ {c} : client'[d] = client[d]
        /\ pc[p] = "accept" /\ pc'[p] = "fork"
        /\ \A q \in Pids \ {p} : pc'[q] = pc[q]
        /\ parent' = parent /\ pid' = pid
    BY <1>1 DEF Accept, Goto, IInv, TypeOK
  <1>4. \A q \in Pids \ {p} : connectSocket[q] # c
    BY <1>1, <1>2 DEF IInv, BacklogOK
  <1>5. TypeOK'
    BY <1>1, <1>3 DEF Accept, Goto, IInv, TypeOK, Starting, Listening, Serving, Relaying
  <1>6. BacklogOK'
    <2>1. \A q \in Pids : connectSocket'[q] # None => client'[connectSocket'[q]] = "accepted"
      BY <1>3, <1>4 DEF IInv, TypeOK, BacklogOK
    <2>2. \A i \in 1..Len(backlog') : client'[backlog'[i]] = "queued"
      <3>1. \A i \in 1..Len(backlog') : backlog'[i] \in Clients \ {c}
        BY <1>1, <1>2
      <3>2. \A i \in 1..Len(backlog') : client[backlog'[i]] = "queued"
        BY <1>1 DEF IInv, BacklogOK
      <3>3. QED
        BY <1>3, <3>1, <3>2
    <2>3. \A i, j \in 1..Len(backlog') : backlog'[i] = backlog'[j] => i = j
      BY <1>1 DEF IInv, BacklogOK
    <2>4. QED
      BY <2>1, <2>2, <2>3 DEF BacklogOK
  <1>7. FamilyOK'
    BY <1>3 DEF IInv, FamilyOK, TypeOK
  <1>8. ListenerOK' /\ ServingOK'
    <2>1. ListenerOK'
      BY <1>3, Places DEF IInv, ListenerOK
    <2>2. ServingOK'
      BY <1>3, Places DEF IInv, ServingOK
    <2>3. QED
      BY <2>1, <2>2
  <1>9. ActiveOK'
    BY <1>1, <1>3, <1>4, Places DEF IInv, ActiveOK
  <1>10. QED
    BY <1>5, <1>6, <1>7, <1>8, <1>9 DEF IInv

\* A process closes its copy of an accepted socket.
LEMMA CloseConnectionInv == ASSUME IInv, NEW p \in Pids, CloseConnection(p) PROVE IInv'
  <1> USE DatapipeAssumption
  <1>1. /\ pc[p] = "parent" /\ pc'[p] = "waitpid"
        /\ \A q \in Pids \ {p} : pc'[q] = pc[q] /\ connectSocket'[q] = connectSocket[q]
        /\ connectSocket'[p] = None
        /\ UNCHANGED <<parent, pid, client, backlog>>
    BY DEF CloseConnection, Goto, IInv, TypeOK
  <1>2. TypeOK'
    BY DEF CloseConnection, Goto, IInv, TypeOK, Starting, Listening, Serving, Relaying
  <1>3. BacklogOK' /\ FamilyOK'
    <2>1. BacklogOK'
      BY <1>1 DEF IInv, BacklogOK
    <2>2. FamilyOK'
      BY <1>1 DEF IInv, FamilyOK, TypeOK
    <2>3. QED
      BY <2>1, <2>2
  <1>4. ListenerOK'
    BY <1>1, Places DEF IInv, ListenerOK
  <1>5. ServingOK'
    BY <1>1, Places DEF IInv, ServingOK
  <1>6. ActiveOK'
    BY <1>1, Places DEF IInv, ActiveOK
  <1>7. QED
    BY <1>2, <1>3, <1>4, <1>5, <1>6 DEF IInv

\* The child waited for is the only one there was.
LEMMA WaitpidInv == ASSUME IInv, NEW p \in Pids, Waitpid(p) PROVE IInv'
  <1> USE DatapipeAssumption
  <1>1. pid \in Pids /\ pid # p
    BY DEF Waitpid, IInv, ListenerOK
  <1>2. /\ pc[p] = "waitpid" /\ pc'[p] = "accept" /\ pc[pid] = "zombie" /\ pc'[pid] = "none"
        /\ \A q \in Pids \ {p, pid} : pc'[q] = pc[q]
        /\ parent'[pid] = None
        /\ \A q \in Pids \ {pid} : parent'[q] = parent[q]
        /\ UNCHANGED <<acceptSocket, connectSocket, pid, client, backlog>>
    BY <1>1 DEF Waitpid, IInv, TypeOK
  <1>3. TypeOK'
    BY <1>1, <1>2 DEF Waitpid, IInv, TypeOK, Starting, Listening, Serving, Relaying
  <1>4. BacklogOK' /\ FamilyOK'
    <2>1. BacklogOK'
      BY <1>2 DEF IInv, BacklogOK
    <2>2. FamilyOK'
      BY <1>1, <1>2 DEF IInv, FamilyOK, TypeOK
    <2>3. QED
      BY <2>1, <2>2
  <1>5. \A q \in Pids : parent'[q] # p
    BY <1>1, <1>2, Places DEF IInv, ListenerOK
  <1>6. \A q \in Pids : pc[q] \notin Serving
    BY <1>1, <1>2, Places DEF IInv, ListenerOK, ServingOK
  <1>7. ListenerOK'
    BY <1>1, <1>2, <1>5, Places DEF IInv, ListenerOK
  <1>8. ServingOK'
    BY <1>1, <1>2, <1>6, Places DEF ServingOK
  <1>9. ActiveOK'
    BY <1>1, <1>2, Places DEF IInv, ActiveOK
  <1>10. QED
    BY <1>3, <1>4, <1>7, <1>8, <1>9 DEF IInv

\* A process closes its copy of the listening socket.
LEMMA CloseAcceptInv == ASSUME IInv, NEW p \in Pids, CloseAccept(p) PROVE IInv'
  <1> USE DatapipeAssumption
  <1>1. /\ pc[p] = "child" /\ pc'[p] = "again"
        /\ \A q \in Pids \ {p} : pc'[q] = pc[q]
        /\ UNCHANGED <<parent, connectSocket, pid>>
    BY DEF CloseAccept, Goto, IInv, TypeOK
  <1>2. BacklogOK' /\ backlog' \in Seq(Clients)
        /\ client' \in [Clients -> {"away", "queued", "accepted", "refused"}]
    <2>1. \A q \in Pids : connectSocket'[q] \in {connectSocket[q], None}
      BY <1>1
    <2>2. QED
      BY <2>1, BacklogKeptOK DEF IInv, CloseAccept
  <1>3. TypeOK'
    BY <1>1, <1>2 DEF CloseAccept, Goto, IInv, TypeOK, Starting, Listening, Serving, Relaying
  <1>4. FamilyOK'
    BY <1>1 DEF IInv, FamilyOK, TypeOK
  <1>5. ListenerOK'
    BY <1>1, Places DEF IInv, ListenerOK
  <1>6. ServingOK'
    BY <1>1, Places DEF IInv, ServingOK
  <1>7. ActiveOK'
    BY <1>1, Places DEF IInv, ActiveOK
  <1>8. QED
    BY <1>2, <1>3, <1>4, <1>5, <1>6, <1>7 DEF IInv

\* A client connects.
LEMMA ConnectInv == ASSUME IInv, NEW c \in Clients, Connect(c) PROVE IInv'
  <1> USE DatapipeAssumption
  <1>1. /\ backlog' = Append(backlog, c) /\ backlog' \in Seq(Clients)
        /\ Len(backlog') = Len(backlog) + 1 /\ Len(backlog) \in Nat
        /\ \A i \in 1..Len(backlog) : backlog'[i] = backlog[i]
        /\ backlog'[Len(backlog) + 1] = c
        /\ client[c] = "away" /\ client'[c] = "queued"
        /\ \A d \in Clients \ {c} : client'[d] = client[d]
    BY AppendFacts DEF Connect, IInv, TypeOK
  <1>2. TypeOK'
    BY <1>1 DEF Connect, IInv, TypeOK
  <1>3. BacklogOK'
    <2>1. \A q \in Pids : connectSocket'[q] # None => client'[connectSocket'[q]] = "accepted"
      BY <1>1 DEF Connect, IInv, TypeOK, BacklogOK
    <2>2. \A i \in 1..Len(backlog) : backlog[i] \in Clients \ {c}
      BY <1>1 DEF IInv, TypeOK, BacklogOK
    <2>3. \A i \in 1..Len(backlog') : i \in 1..Len(backlog) \/ i = Len(backlog) + 1
      BY <1>1
    <2>4. \A i \in 1..Len(backlog') : client'[backlog'[i]] = "queued"
      BY <1>1, <2>2, <2>3 DEF IInv, BacklogOK
    <2>5. \A i, j \in 1..Len(backlog') : backlog'[i] = backlog'[j] => i = j
      BY <1>1, <2>2, <2>3 DEF IInv, BacklogOK
    <2>6. QED
      BY <2>1, <2>4, <2>5 DEF BacklogOK
  <1>4. FamilyOK' /\ ListenerOK' /\ ServingOK' /\ ActiveOK'
    BY DEF Connect, IInv, FamilyOK, ListenerOK, ServingOK, ActiveOK
  <1>5. QED
    BY <1>2, <1>3, <1>4 DEF IInv

-----------------------------------------------------------------------------

\* Every step of every process keeps the invariant.
LEMMA StepInv == IInv /\ [Next]_vars => IInv'
  <1> SUFFICES ASSUME IInv, [Next]_vars PROVE IInv'
    OBVIOUS
  <1>1. ASSUME NEW p \in Pids, Step(p) PROVE IInv'
    <2>1. CASE Options(p) \/ Daemonize(p) \/ InitTcpServer(p)
      BY <2>1, OptionsInv, DaemonizeInv, InitTcpServerInv
    <2>2. CASE Usage(p) \/ BindFails(p) \/ CallFails(p) \/ Leave(p)
      <3>1. pc[p] \notin {"none", "zombie"} /\ Exit(p)
        BY <2>2 DEF Usage, BindFails, CallFails, Leave
      <3>2. QED
        BY <3>1, ExitInv
    <2>3. CASE Accept(p) \/ ForkChild(p) \/ CloseConnection(p) \/ Waitpid(p)
      BY <2>3, AcceptInv, ForkChildInv, CloseConnectionInv, WaitpidInv
    <2>4. CASE CloseAccept(p) \/ ForkRelay(p) \/ Dial(p) \/ Shutdown(p)
      BY <2>4, CloseAcceptInv, ForkRelayInv, DialInv, ShutdownInv
    <2>5. QED
      BY <1>1, <2>1, <2>2, <2>3, <2>4 DEF Step
  <1>2. ASSUME NEW p \in Pids, RelayEnds(p) PROVE IInv'
    BY <1>2, RelayEndsInv
  <1>3. ASSUME NEW p \in Pids, Signalled(p) PROVE IInv'
    BY <1>3, ExitInv DEF Signalled
  <1>4. ASSUME NEW c \in Clients, Connect(c) PROVE IInv'
    BY <1>4, ConnectInv
  <1>5. CASE UNCHANGED vars
    BY <1>5 DEF vars, IInv, TypeOK, FamilyOK, ListenerOK, ServingOK, BacklogOK, ActiveOK
  <1>6. QED
    BY <1>1, <1>2, <1>3, <1>4, <1>5 DEF Next

\* The inductive invariant holds in every run.
LEMMA SpecInv == Spec => []IInv
  BY InitInv, StepInv, PTL DEF Spec

\* The processes of datapipe.c are where they can be, with descriptors of the right
\* kind: the listening socket is open in the listener and, until line 871, in its
\* child, and in no other process.
THEOREM DatapipeTypeCorrect == Spec => []TypeOK
  <1>1. IInv => TypeOK
    BY DEF IInv
  <1>2. QED
    BY <1>1, SpecInv, PTL

\* When the listener of tcprelay waits for a client, no child of its own is left
\* over, running or zombie, and nobody else has the listening socket, whatever has
\* been killed and whichever forks have failed before.
THEOREM ListenerAlone == Spec => []OnlyRelaysBeside
  <1>1. ASSUME IInv PROVE OnlyRelaysBeside
    <2>1. SUFFICES ASSUME NEW p \in Pids, pc[p] = "accept", NEW q \in Pids \ {p}
                   PROVE  parent[q] # p /\ ~acceptSocket[q] /\ pc[q] \notin Listening \cup Serving
      BY DEF OnlyRelaysBeside, At
    <2>2. parent[q] # p
      BY <1>1, <2>1, Places DEF IInv, ListenerOK
    <2>3. pc[q] \notin Serving
      BY <1>1, <2>1, <2>2, Places DEF IInv, ServingOK
    <2>4. pc[q] \notin Listening
      BY <1>1, <2>1, Places DEF IInv, ListenerOK
    <2>5. ~acceptSocket[q]
      BY <1>1, <2>1, <2>3, <2>4, Places DEF IInv, TypeOK
    <2>6. QED
      BY <2>2, <2>3, <2>4, <2>5
  <1>2. QED
    BY <1>1, SpecInv, PTL

\* No two processes relay for one client: of the two that a fork in tcprelay leaves
\* with the connection, one goes on towards the relay and the other only leaves.
THEOREM RelayAlone == Spec => []OneRelay
  <1>1. ASSUME IInv PROVE OneRelay
    BY <1>1, Places DEF IInv, ActiveOK, OneRelay, At
  <1>2. QED
    BY <1>1, SpecInv, PTL
===============================================================================
