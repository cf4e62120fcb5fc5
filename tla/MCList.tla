-------------------------------- MODULE MCList --------------------------------
(***************************************************************************)
(* Small instances of List for TLC.                                        *)
(***************************************************************************)
EXTENDS List, TLC

CONSTANTS n1, n2, n3, n4

FourNodes == {n1, n2, n3, n4}

\* Addresses are compared for equality only.
NodeSymmetry == Permutations(Nodes)

\* A pool whose user also calls list_add_tail.
AddTailBegin(new) ==
    /\ mutex = "free"
    /\ new \notin InList
    /\ mutex' = "adder"
    /\ node' = new
    /\ stores' = list_add_tail(new)
    /\ UNCHANGED <<next, prev, count, polled, order>>

SpecWithAddTail == Init /\ [][Next \/ \E new \in Nodes : AddTailBegin(new)]_listVars

\* "head->next is the first node, head->prev points at the last one" (the design
\* document on the list): with list_add_tail the ring stays a ring.
RingIntactWithAddTail == RingIntact
===============================================================================
