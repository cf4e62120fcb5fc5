---------------------------------- MODULE List ----------------------------------
(***************************************************************************)
(* ThreadPools/list.c, as the task pool uses it: a circular list of nodes  *)
(* beside an anchor that is not part of the circle.  anchor->next is the   *)
(* first node, anchor->prev the last; an empty anchor points at itself.    *)
(*                                                                         *)
(* list_add and list_del are sequences of stores, made one at a time under *)
(* the pool's mutex by an adder (taskPoolAdd) and by a taker (the mover,   *)
(* in taskPoolDel).  The taker also asks list_empty without the mutex, in  *)
(* the middle of whatever the adder is doing (mpool.c:60).                 *)
(***************************************************************************)
EXTENDS Naturals, Sequences, FiniteSets, SequencesExt

CONSTANTS Nodes,    \* the list_head structures inside the malloc'ed nodes
          Anchor,   \* the list_head of the pool
          Null

ASSUME ListAssumption == Anchor \notin Nodes /\ Null \notin Nodes \cup {Anchor}

VARIABLES next, prev,   \* the two pointers of every list_head
          mutex,        \* who holds the pool's mutex
          stores,       \* the stores its holder has still to make
          node,         \* the node it adds or takes
          count,        \* the pool's t_curNum
          polled,       \* the taker has found the list not empty
          order         \* history: the nodes in the order they were added

listVars == <<next, prev, mutex, stores, node, count, polled, order>>

Cells == Nodes \cup {Anchor}

\* A store to field f of cell c.
Store(f, c, v) == [field |-> f, cell |-> c, value |-> v]

list_empty == next[Anchor] = Anchor

-----------------------------------------------------------------------------

\* Fault: the first node's prev is not redirected.
AddWithoutFirst(new) ==
    IF list_empty
    THEN <<Store("prev", new, new), Store("next", new, new),
           Store("next", Anchor, new), Store("prev", Anchor, new)>>
    ELSE <<Store("next", new, next[Anchor]), Store("prev", new, prev[Anchor]),
           Store("next", prev[Anchor], new), Store("prev", Anchor, new)>>

\* Fault: the new node becomes the first one.
AddAtFront(new) ==
    IF list_empty
    THEN <<Store("prev", new, new), Store("next", new, new),
           Store("next", Anchor, new), Store("prev", Anchor, new)>>
    ELSE <<Store("next", new, next[Anchor]), Store("prev", next[Anchor], new),
           Store("prev", new, prev[Anchor]), Store("next", prev[Anchor], new),
           Store("next", Anchor, new)>>

\* The stores of list_add(new, Anchor), between the last and the first node.
list_add(new) ==
    <<Store("prev", new, Null), Store("next", new, Null)>> \o
    IF list_empty
    THEN <<Store("prev", new, new), Store("next", new, new),
           Store("next", Anchor, new), Store("prev", Anchor, new)>>
    ELSE <<Store("next", new, next[Anchor]), Store("prev", next[Anchor], new),
           Store("prev", new, prev[Anchor]), Store("next", prev[Anchor], new),
           Store("prev", Anchor, new)>>

\* The stores of list_add_tail(new, Anchor), which nothing in the library calls.
list_add_tail(new) ==
    <<Store("prev", new, Null), Store("next", new, Null)>> \o
    IF list_empty
    THEN <<Store("prev", new, new), Store("next", new, new),
           Store("next", Anchor, new), Store("prev", Anchor, new)>>
    ELSE <<Store("next", next[Anchor], new), Store("prev", new, next[Anchor]),
           Store("next", Anchor, new)>>

\* Fault: the anchor of the emptied list still points at the node.
DelLastNodeStays(entry) ==
    <<Store("next", prev[entry], next[entry]), Store("prev", next[entry], prev[entry])>>

\* The stores of list_del(entry, Anchor).
list_del(entry) ==
    IF next[Anchor] = entry /\ prev[Anchor] = entry
    THEN <<Store("next", Anchor, Anchor), Store("prev", Anchor, Anchor)>>
    ELSE (IF next[Anchor] = entry THEN <<Store("next", Anchor, next[entry])>> ELSE <<>>) \o
         (IF prev[Anchor] = entry THEN <<Store("prev", Anchor, prev[entry])>> ELSE <<>>) \o
         <<Store("next", prev[entry], next[entry]), Store("prev", next[entry], prev[entry])>>

-----------------------------------------------------------------------------

InList == ToSet(order)

\* taskPoolAdd: a fresh node is linked in; malloc may return any free address,
\* with whatever a former use has left in it.
AddBegin(new) ==
    /\ mutex = "free"
    /\ new \notin InList
    /\ mutex' = "adder"
    /\ node' = new
    /\ stores' = list_add(new)
    /\ UNCHANGED <<next, prev, count, polled, order>>

\* The holder of the mutex makes its next store.
MakeStore ==
    /\ stores # <<>>
    /\ LET s == Head(stores) IN
         IF s.field = "next" THEN next' = [next EXCEPT ![s.cell] = s.value] /\ UNCHANGED prev
                             ELSE prev' = [prev EXCEPT ![s.cell] = s.value] /\ UNCHANGED next
    /\ stores' = Tail(stores)
    /\ UNCHANGED <<mutex, node, count, polled, order>>

AddEnd ==
    /\ mutex = "adder" /\ stores = <<>>
    /\ count' = count + 1
    /\ order' = Append(order, node)
    /\ mutex' = "free" /\ node' = Null
    /\ UNCHANGED <<next, prev, stores, polled>>

\* mpool.c:60: list_empty without the mutex.
Poll ==
    /\ ~polled /\ mutex # "taker"
    /\ ~list_empty
    /\ polled' = TRUE
    /\ UNCHANGED <<next, prev, mutex, stores, node, count, order>>

\* taskPoolDel: the first node is unlinked.
TakeBegin ==
    /\ polled
    /\ mutex = "free"
    /\ count > 0 /\ ~list_empty
    /\ mutex' = "taker"
    /\ node' = next[Anchor]
    /\ stores' = list_del(next[Anchor])
    /\ UNCHANGED <<next, prev, count, polled, order>>

TakeEnd ==
    /\ mutex = "taker" /\ stores = <<>>
    /\ count' = count - 1
    /\ order' = Tail(order)
    /\ mutex' = "free" /\ node' = Null
    /\ polled' = FALSE
    /\ UNCHANGED <<next, prev, stores>>

Init ==
    /\ next = [c \in Cells |-> IF c = Anchor THEN Anchor ELSE Null]
    /\ prev = [c \in Cells |-> IF c = Anchor THEN Anchor ELSE Null]
    /\ mutex = "free" /\ stores = <<>> /\ node = Null
    /\ count = 0 /\ polled = FALSE /\ order = <<>>

Next ==
    \/ \E new \in Nodes : AddBegin(new)
    \/ MakeStore \/ AddEnd
    \/ Poll \/ TakeBegin \/ TakeEnd

Spec == Init /\ [][Next]_listVars

-----------------------------------------------------------------------------

\* Whenever the mutex is free the pointers say what the history says: the nodes
\* form a circle in the order in which they were added, in both directions, with
\* the anchor pointing at the first and the last (list.c:23-45, 65-88), and the
\* counter of the pool is their number.
RingIntact ==
    mutex = "free" =>
        LET n == Len(order) IN
        /\ count = n
        /\ IF n = 0 THEN next[Anchor] = Anchor /\ prev[Anchor] = Anchor
           ELSE /\ next[Anchor] = order[1] /\ prev[Anchor] = order[n]
                /\ \A i \in 1..n : /\ next[order[i]] = order[(i % n) + 1]
                                   /\ prev[order[(i % n) + 1]] = order[i]

\* The node the mover takes is the one that was added first.
FirstIn == mutex = "taker" => node = order[1]

\* When the mover has found the list not empty, looking without the mutex, there
\* is a node for it once it has the mutex: taskPoolDel does not return NULL.
PollTruthful == polled /\ mutex = "free" => count > 0 /\ ~list_empty
===============================================================================
