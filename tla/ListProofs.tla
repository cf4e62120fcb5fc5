------------------------------- MODULE ListProofs -------------------------------
(***************************************************************************)
(* Proofs about List: in every interleaving of an adder, a taker and a     *)
(* look without the mutex, whatever the nodes are and however many.        *)
(***************************************************************************)
EXTENDS List, TLAPS, SequenceTheorems

USE ListAssumption DEF ListAssumption

-----------------------------------------------------------------------------
(* What the pending stores make of a pointer.                               *)

Fields == {"next", "prev"}
Pointers == Cells \cup {Null}
Stores == [field : Fields, cell : Cells, value : Pointers]

Pointer(f, c) == IF f = "next" THEN next[c] ELSE prev[c]

Hits(i, f, c) == stores[i].field = f /\ stores[i].cell = c

\* Field f of cell c has the value v when all the stores are made: the last store to it
\* says so, or there is none and it has the value now.
Becomes(f, c, v) ==
    \/ Pointer(f, c) = v /\ \A i \in DOMAIN stores : ~Hits(i, f, c)
    \/ \E i \in DOMAIN stores :
          /\ Hits(i, f, c) /\ stores[i].value = v
          /\ \A j \in DOMAIN stores : j > i => ~Hits(j, f, c)

\* A circle of the nodes of seq, for Becomes.
Following(i, n) == IF i = n THEN 1 ELSE i + 1

RingBecomes(seq) ==
    LET n == Len(seq) IN
    /\ n = 0 => Becomes("next", Anchor, Anchor) /\ Becomes("prev", Anchor, Anchor)
    /\ n > 0 => /\ Becomes("next", Anchor, seq[1]) /\ Becomes("prev", Anchor, seq[n])
                /\ \A i \in 1..n : /\ Becomes("next", seq[i], seq[Following(i, n)])
                                   /\ Becomes("prev", seq[Following(i, n)], seq[i])

ListTypes ==
    /\ next \in [Cells -> Pointers] /\ prev \in [Cells -> Pointers]
    /\ mutex \in {"free", "adder", "taker"}
    /\ stores \in Seq(Stores)
    /\ order \in Seq(Nodes)
    /\ polled \in BOOLEAN

\* The nodes in the list are distinct.
Distinct == \A i, j \in 1..Len(order) : order[i] = order[j] => i = j

\* Where the nodes are, or will be when the one who holds the mutex has made its stores.
Circle ==
    /\ mutex = "free" => stores = <<>> /\ RingBecomes(order)
    /\ mutex = "adder" => /\ node \in Nodes /\ \A i \in 1..Len(order) : order[i] # node
                          /\ RingBecomes(Append(order, node))
    /\ mutex = "taker" => /\ order # <<>> /\ node = order[1]
                          /\ RingBecomes(Tail(order))

ListInv ==
    /\ ListTypes /\ Distinct /\ Circle
    /\ count = Len(order)
    /\ polled => order # <<>> \/ mutex = "adder"

\* The next node in the circle, as RingIntact counts.
LEMMA FollowingMod ==
    ASSUME NEW n \in Nat, NEW i \in 1..n
    PROVE  (i % n) + 1 = Following(i, n)
  <1>1. CASE i = n
    BY <1>1 DEF Following
  <1>2. CASE i # n
    BY <1>2 DEF Following
  <1> QED
    BY <1>1, <1>2

-----------------------------------------------------------------------------
(* The steps.                                                               *)

\* A store changes no pointer's value to come.
LEMMA StoreAsPlanned ==
    ASSUME ListTypes, MakeStore, NEW f \in Fields, NEW c \in Cells, NEW v, Becomes(f, c, v)
    PROVE  Becomes(f, c, v)'
  <1> DEFINE s == Head(stores)
  <1>1. /\ stores # <<>> /\ s \in Stores /\ s = stores[1] /\ stores' = Tail(stores)
        /\ 1 \in DOMAIN stores
    BY DEF MakeStore, ListTypes
  <1>2. /\ Len(stores) \in Nat \ {0} /\ DOMAIN stores = 1..Len(stores)
        /\ DOMAIN stores' = 1..(Len(stores) - 1)
        /\ \A i \in DOMAIN stores' : stores'[i] = stores[i + 1]
    BY <1>1 DEF ListTypes
  <1>3. Pointer(f, c)' = IF s.field = f /\ s.cell = c THEN s.value ELSE Pointer(f, c)
    BY <1>1 DEF MakeStore, Pointer, ListTypes, Stores, Fields
  <1>4. \A i \in DOMAIN stores' : Hits(i, f, c)' <=> Hits(i + 1, f, c)
    BY <1>2 DEF Hits
  <1>5. Hits(1, f, c) <=> s.field = f /\ s.cell = c
    BY <1>1 DEF Hits
  <1> HIDE DEF s
  <1>6. CASE Pointer(f, c) = v /\ \A i \in DOMAIN stores : ~Hits(i, f, c)
    <2>1. Pointer(f, c)' = v
      BY <1>1, <1>3, <1>5, <1>6
    <2>2. \A i \in DOMAIN stores' : ~Hits(i, f, c)'
      BY <1>2, <1>4, <1>6
    <2> QED
      BY <2>1, <2>2 DEF Becomes
  <1>7. ASSUME NEW i \in DOMAIN stores, Hits(i, f, c), stores[i].value = v,
               \A j \in DOMAIN stores : j > i => ~Hits(j, f, c)
        PROVE  Becomes(f, c, v)'
    <2>1. CASE i = 1
      <3>1. Pointer(f, c)' = v
        BY <1>1, <1>3, <1>5, <1>7, <2>1
      <3>2. \A j \in DOMAIN stores' : ~Hits(j, f, c)'
        BY <1>2, <1>4, <1>7, <2>1
      <3> QED
        BY <3>1, <3>2 DEF Becomes
    <2>2. CASE i # 1
      <3>1. i - 1 \in DOMAIN stores' /\ stores'[i - 1].value = v /\ Hits(i - 1, f, c)'
        BY <1>2, <1>4, <1>7, <2>2
      <3>2. \A j \in DOMAIN stores' : j > i - 1 => ~Hits(j, f, c)'
        BY <1>2, <1>4, <1>7, <2>2
      <3> QED
        BY <3>1, <3>2 DEF Becomes
    <2> QED
      BY <2>1, <2>2
  <1> QED
    BY <1>6, <1>7 DEF Becomes

\* So it changes nothing of the circle to come.
LEMMA RingAsPlanned ==
    ASSUME ListTypes, MakeStore, NEW seq \in Seq(Nodes), RingBecomes(seq)
    PROVE  RingBecomes(seq)'
  <1> DEFINE n == Len(seq)
  <1>1. /\ n \in Nat /\ \A i \in 1..n : seq[i] \in Cells /\ Following(i, n) \in 1..n
        /\ Anchor \in Cells
    BY DEF Cells, Following
  <1>2. n = 0 => Becomes("next", Anchor, Anchor)' /\ Becomes("prev", Anchor, Anchor)'
    BY <1>1, StoreAsPlanned DEF RingBecomes, Fields
  <1>3. ASSUME n > 0, NEW i \in 1..n
        PROVE  Becomes("next", seq[i], seq[Following(i, n)])'
               /\ Becomes("prev", seq[Following(i, n)], seq[i])'
    BY <1>1, <1>3, StoreAsPlanned DEF RingBecomes, Fields
  <1>4. n > 0 => Becomes("next", Anchor, seq[1])' /\ Becomes("prev", Anchor, seq[n])'
    BY <1>1, StoreAsPlanned DEF RingBecomes, Fields
  <1> QED
    BY <1>2, <1>3, <1>4 DEF RingBecomes

\* When nothing is pending, what is to come is what is there.
LEMMA NothingPending ==
    ASSUME stores = <<>>, NEW f, NEW c, NEW v
    PROVE  Becomes(f, c, v) <=> Pointer(f, c) = v
  BY DEF Becomes

\* The circle as it is when no one holds the mutex.
LEMMA RingNow ==
    ASSUME stores = <<>>, RingBecomes(order), order \in Seq(Nodes)
    PROVE  /\ order = <<>> => next[Anchor] = Anchor /\ prev[Anchor] = Anchor
           /\ order # <<>> =>
                /\ next[Anchor] = order[1] /\ prev[Anchor] = order[Len(order)]
                /\ \A i \in 1..Len(order) :
                     /\ next[order[i]] = order[Following(i, Len(order))]
                     /\ prev[order[Following(i, Len(order))]] = order[i]
  BY NothingPending DEF RingBecomes, Pointer

\* The stores of list_add, one by one.
LEMMA AddStores ==
    ASSUME NEW new
    PROVE  IF list_empty
           THEN list_add(new) = <<Store("prev", new, Null), Store("next", new, Null),
                                  Store("prev", new, new), Store("next", new, new),
                                  Store("next", Anchor, new), Store("prev", Anchor, new)>>
           ELSE list_add(new) = <<Store("prev", new, Null), Store("next", new, Null),
                                  Store("next", new, next[Anchor]), Store("prev", next[Anchor], new),
                                  Store("prev", new, prev[Anchor]), Store("next", prev[Anchor], new),
                                  Store("prev", Anchor, new)>>
  <1>1. ASSUME NEW a, NEW b, NEW c, NEW d, NEW e, NEW f
        PROVE  <<a, b>> \o <<c, d, e, f>> = <<a, b, c, d, e, f>>
    <2> DEFINE S == {a, b, c, d, e, f}
               s == <<a, b>> \o <<c, d, e, f>>
               t == <<a, b, c, d, e, f>>
    <2>1. s \in Seq(S) /\ t \in Seq(S) /\ Len(s) = 6 /\ Len(t) = 6
      OBVIOUS
    <2>2. \A i \in 1..6 : s[i] = t[i]
      OBVIOUS
    <2>3. s = t
      <3> HIDE DEF S, s, t
      <3> QED
        BY <2>1, <2>2, SeqEqual
    <2> QED
      BY <2>3
  <1>2. ASSUME NEW a, NEW b, NEW c, NEW d, NEW e, NEW f, NEW g
        PROVE  <<a, b>> \o <<c, d, e, f, g>> = <<a, b, c, d, e, f, g>>
    <2> DEFINE S == {a, b, c, d, e, f, g}
               s == <<a, b>> \o <<c, d, e, f, g>>
               t == <<a, b, c, d, e, f, g>>
    <2>1. s \in Seq(S) /\ t \in Seq(S) /\ Len(s) = 7 /\ Len(t) = 7
      OBVIOUS
    <2>2. \A i \in 1..7 : s[i] = t[i]
      OBVIOUS
    <2>3. s = t
      <3> HIDE DEF S, s, t
      <3> QED
        BY <2>1, <2>2, SeqEqual
    <2> QED
      BY <2>3
  <1> QED
    BY <1>1, <1>2 DEF list_add

\* They lead from the circle to the circle with the new node between the last and the first.
LEMMA AddPlanned ==
    ASSUME ListInv, NEW new \in Nodes, AddBegin(new),
           NEW after \in Seq(Nodes), after = Append(order, new)
    PROVE  RingBecomes(after)' /\ stores' \in Seq(Stores)
  <1>0. PICK ord \in Seq(Nodes) : ord = order
    BY DEF ListInv, ListTypes
  <1> DEFINE n == Len(ord)
  <1>1. /\ mutex = "free" /\ stores = <<>> /\ RingBecomes(order) /\ n \in Nat
        /\ UNCHANGED <<next, prev, order>> /\ stores' = list_add(new)
    BY DEF AddBegin, ListInv, Circle
  <1>2. /\ Len(after) = n + 1 /\ after[n + 1] = new
        /\ \A i \in 1..n : after[i] = ord[i]
    BY <1>0
  <1>3. \A i \in 1..n : ord[i] # new /\ ord[i] \in Nodes
    BY <1>0 DEF AddBegin, InList, ToSet
  <1>4. Anchor # new /\ \A i \in 1..n : Anchor # ord[i]
    BY <1>3
  <1>5. CASE n = 0
    <2>1. list_empty
      BY <1>0, <1>1, <1>5, RingNow DEF list_empty
    <2>2. stores' = <<Store("prev", new, Null), Store("next", new, Null),
                      Store("prev", new, new), Store("next", new, new),
                      Store("next", Anchor, new), Store("prev", Anchor, new)>>
      BY <1>1, <2>1, AddStores
    <2>3. stores' \in Seq(Stores)
      BY <2>2 DEF Stores, Store, Fields, Cells, Pointers
    <2>6. /\ DOMAIN stores' = 1..6
          /\ stores'[1] = Store("prev", new, Null) /\ stores'[2] = Store("next", new, Null)
          /\ stores'[3] = Store("prev", new, new) /\ stores'[4] = Store("next", new, new)
          /\ stores'[5] = Store("next", Anchor, new) /\ stores'[6] = Store("prev", Anchor, new)
      BY <2>2
    <2>4. /\ Becomes("next", Anchor, new)' /\ Becomes("prev", Anchor, new)'
          /\ Becomes("next", new, new)' /\ Becomes("prev", new, new)'
      <3>1. Becomes("next", Anchor, new)'
        BY <2>6, <1>4 DEF Becomes, Hits, Store
      <3>2. Becomes("prev", Anchor, new)'
        BY <2>6, <1>4 DEF Becomes, Hits, Store
      <3>3. Becomes("next", new, new)'
        BY <2>6, <1>4 DEF Becomes, Hits, Store
      <3>4. Becomes("prev", new, new)'
        BY <2>6, <1>4 DEF Becomes, Hits, Store
      <3> QED
        BY <3>1, <3>2, <3>3, <3>4
    <2>5. Len(after) = 1 /\ after[1] = new
      BY <1>2, <1>5
    <2> QED
      BY <2>3, <2>4, <2>5 DEF RingBecomes, Following
  <1>6. CASE n > 0
    <2>0. PICK first \in Nodes, last \in Nodes : first = ord[1] /\ last = ord[n]
      BY <1>3, <1>6
    <2>1. ~list_empty /\ next[Anchor] = first /\ prev[Anchor] = last
      BY <1>0, <1>1, <1>4, <1>6, <2>0, RingNow DEF list_empty
    <2>2. stores' = <<Store("prev", new, Null), Store("next", new, Null),
                      Store("next", new, first), Store("prev", first, new),
                      Store("prev", new, last), Store("next", last, new),
                      Store("prev", Anchor, new)>>
      BY <1>1, <2>1, AddStores
    <2>3. stores' \in Seq(Stores)
      BY <2>0, <2>2 DEF Stores, Store, Fields, Cells, Pointers
    <2>4. first # new /\ last # new /\ Anchor # first /\ Anchor # last
      BY <1>3, <1>4, <1>6, <2>0
    <2>5. /\ DOMAIN stores' = 1..7
          /\ stores'[1] = Store("prev", new, Null) /\ stores'[2] = Store("next", new, Null)
          /\ stores'[3] = Store("next", new, first) /\ stores'[4] = Store("prev", first, new)
          /\ stores'[5] = Store("prev", new, last) /\ stores'[6] = Store("next", last, new)
          /\ stores'[7] = Store("prev", Anchor, new)
      BY <2>2
    <2>7. \A c : \A i \in DOMAIN stores' : Hits(i, "next", c)' =>
              \/ c = new /\ i \in {2, 3}
              \/ c = last /\ i = 6
      BY <2>5 DEF Hits, Store
    <2>8. \A c : \A i \in DOMAIN stores' : Hits(i, "prev", c)' =>
              \/ c = new /\ i \in {1, 5}
              \/ c = first /\ i = 4
              \/ c = Anchor /\ i = 7
      BY <2>5 DEF Hits, Store
    <2>6. /\ Becomes("next", last, new)' /\ Becomes("next", new, first)'
          /\ Becomes("prev", Anchor, new)' /\ Becomes("prev", new, last)'
          /\ Becomes("prev", first, new)'
      <3>1. Becomes("next", last, new)'
        BY <2>4, <2>5, <2>7 DEF Becomes, Hits, Store
      <3>2. Becomes("next", new, first)'
        BY <2>4, <2>5, <2>7 DEF Becomes, Hits, Store
      <3>3. Becomes("prev", Anchor, new)'
        BY <1>4, <2>4, <2>5, <2>8 DEF Becomes, Hits, Store
      <3>4. Becomes("prev", new, last)'
        BY <1>4, <2>4, <2>5, <2>8 DEF Becomes, Hits, Store
      <3>5. Becomes("prev", first, new)'
        BY <2>4, <2>5, <2>8 DEF Becomes, Hits, Store
      <3> QED
        BY <3>1, <3>2, <3>3, <3>4, <3>5
    <2>9. Becomes("next", Anchor, first)'
      BY <1>1, <1>4, <2>1, <2>4, <2>7 DEF Becomes, Pointer
    <2>10. ASSUME NEW i \in 1..n, i # n
           PROVE  Becomes("next", ord[i], ord[i + 1])' /\ Becomes("prev", ord[i + 1], ord[i])'
      <3>1. next[ord[i]] = ord[i + 1] /\ prev[ord[i + 1]] = ord[i]
        BY <1>0, <1>1, <1>6, <2>10, RingNow DEF Following
      <3>2. ord[i] \notin {new, last} /\ ord[i + 1] \notin {new, first, Anchor}
        BY <1>0, <1>1, <1>3, <1>4, <1>6, <2>0, <2>10 DEF ListInv, Distinct
      <3> QED
        BY <1>1, <2>7, <2>8, <3>1, <3>2 DEF Becomes, Pointer
    <2>11. ASSUME NEW i \in 1..(n + 1)
           PROVE  /\ Becomes("next", after[i], after[Following(i, n + 1)])'
                  /\ Becomes("prev", after[Following(i, n + 1)], after[i])'
      <3>1. CASE i = n + 1
        <4>1. after[i] = new /\ after[Following(i, n + 1)] = first
          BY <1>2, <1>6, <2>0, <3>1 DEF Following
        <4> QED
          BY <2>6, <4>1
      <3>2. CASE i = n
        <4>1. after[i] = last /\ after[Following(i, n + 1)] = new
          BY <1>1, <1>2, <1>6, <2>0, <3>2 DEF Following
        <4> QED
          BY <2>6, <4>1
      <3>3. CASE i \in 1..n /\ i # n
        <4>1. after[i] = ord[i] /\ after[Following(i, n + 1)] = ord[i + 1]
          BY <1>1, <1>2, <3>3 DEF Following
        <4> QED
          BY <2>10, <3>3, <4>1
      <3>4. i = n + 1 \/ i = n \/ (i \in 1..n /\ i # n)
        BY <1>1, <2>11
      <3> QED
        BY <3>1, <3>2, <3>3, <3>4
    <2>12. Becomes("next", Anchor, after[1])' /\ Becomes("prev", Anchor, after[n + 1])'
      BY <1>1, <1>2, <1>6, <2>0, <2>6, <2>9
    <2>13. PICK m \in Nat : m = n + 1
      BY <1>1
    <2>14. \A i \in 1..m : /\ Becomes("next", after[i], after[Following(i, m)])'
                           /\ Becomes("prev", after[Following(i, m)], after[i])'
      BY <2>11, <2>13 DEF Following
    <2> QED
      BY <1>1, <1>2, <2>3, <2>12, <2>13, <2>14 DEF RingBecomes, Following
  <1> QED
    BY <1>1, <1>5, <1>6

\* The stores of list_del for the first node, one by one: when it is not the last as well,
\* the anchor's prev stays.
LEMMA DelStores ==
    ASSUME NEW entry, next[Anchor] = entry
    PROVE  IF prev[Anchor] = entry
           THEN list_del(entry) = <<Store("next", Anchor, Anchor), Store("prev", Anchor, Anchor)>>
           ELSE list_del(entry) = <<Store("next", Anchor, next[entry]),
                                    Store("next", prev[entry], next[entry]),
                                    Store("prev", next[entry], prev[entry])>>
  <1>1. ASSUME NEW a, NEW b, NEW c
        PROVE  <<a>> \o <<>> \o <<b, c>> = <<a, b, c>>
    <2> DEFINE S == {a, b, c}
               s == <<a>> \o <<>> \o <<b, c>>
               t == <<a, b, c>>
    <2>1. s \in Seq(S) /\ t \in Seq(S) /\ Len(s) = 3 /\ Len(t) = 3
      OBVIOUS
    <2>2. \A i \in 1..3 : s[i] = t[i]
      OBVIOUS
    <2>3. s = t
      <3> HIDE DEF S, s, t
      <3> QED
        BY <2>1, <2>2, SeqEqual
    <2> QED
      BY <2>3
  <1> QED
    BY <1>1 DEF list_del

\* They lead from the circle to the circle without the first node.
LEMMA DelPlanned ==
    ASSUME ListInv, TakeBegin, NEW after \in Seq(Nodes), after = Tail(order)
    PROVE  RingBecomes(after)' /\ stores' \in Seq(Stores) /\ order # <<>> /\ next[Anchor] = order[1]
  <1>0. PICK ord \in Seq(Nodes) : ord = order
    BY DEF ListInv, ListTypes
  <1> DEFINE n == Len(ord)
  <1>1. /\ mutex = "free" /\ stores = <<>> /\ RingBecomes(order) /\ n \in Nat /\ n > 0
        /\ UNCHANGED <<next, prev, order>> /\ stores' = list_del(next[Anchor])
    BY <1>0 DEF TakeBegin, ListInv, Circle
  <1>2. /\ Len(after) = n - 1 /\ \A i \in 1..(n - 1) : after[i] = ord[i + 1]
    BY <1>0, <1>1
  <1>3. /\ \A i \in 1..n : ord[i] \in Nodes /\ Anchor # ord[i]
        /\ \A i, j \in 1..n : ord[i] = ord[j] => i = j
    BY <1>0 DEF ListInv, Distinct
  <1>4. /\ next[Anchor] = ord[1] /\ prev[Anchor] = ord[n]
        /\ \A i \in 1..n : /\ next[ord[i]] = ord[Following(i, n)]
                           /\ prev[ord[Following(i, n)]] = ord[i]
    BY <1>0, <1>1, RingNow
  <1>5. CASE n = 1
    <2>1. stores' = <<Store("next", Anchor, Anchor), Store("prev", Anchor, Anchor)>>
      BY <1>1, <1>4, <1>5, DelStores
    <2>2. /\ DOMAIN stores' = 1..2 /\ stores' \in Seq(Stores)
          /\ stores'[1] = Store("next", Anchor, Anchor)
          /\ stores'[2] = Store("prev", Anchor, Anchor)
      BY <2>1 DEF Stores, Store, Fields, Cells, Pointers
    <2>3. Becomes("next", Anchor, Anchor)'
      BY <2>2 DEF Becomes, Hits, Store
    <2>4. Becomes("prev", Anchor, Anchor)'
      BY <2>2 DEF Becomes, Hits, Store
    <2>5. Len(after) = 0
      BY <1>2, <1>5
    <2> QED
      BY <1>0, <1>1, <1>4, <2>2, <2>3, <2>4, <2>5 DEF RingBecomes
  <1>6. CASE n > 1
    <2>0. PICK first \in Nodes, second \in Nodes, last \in Nodes :
                 first = ord[1] /\ second = ord[2] /\ last = ord[n]
      BY <1>1, <1>3, <1>6
    <2>1. next[first] = second /\ prev[first] = last /\ first # last
      BY <1>1, <1>3, <1>4, <1>6, <2>0 DEF Following
    <2>2. stores' = <<Store("next", Anchor, second), Store("next", last, second),
                      Store("prev", second, last)>>
      BY <1>1, <1>4, <2>0, <2>1, DelStores
    <2>3. /\ DOMAIN stores' = 1..3 /\ stores' \in Seq(Stores)
          /\ stores'[1] = Store("next", Anchor, second)
          /\ stores'[2] = Store("next", last, second)
          /\ stores'[3] = Store("prev", second, last)
      BY <2>0, <2>2 DEF Stores, Store, Fields, Cells, Pointers
    <2>4. \A c : \A i \in DOMAIN stores' : Hits(i, "next", c)' =>
              \/ c = Anchor /\ i = 1
              \/ c = last /\ i = 2
      BY <2>3 DEF Hits, Store
    <2>5. \A c : \A i \in DOMAIN stores' : Hits(i, "prev", c)' => c = second /\ i = 3
      BY <2>3 DEF Hits, Store
    <2>6. Becomes("next", Anchor, second)'
      BY <1>3, <2>0, <2>3, <2>4 DEF Becomes, Hits, Store
    <2>7. Becomes("next", last, second)'
      BY <1>3, <2>0, <2>3, <2>4 DEF Becomes, Hits, Store
    <2>8. Becomes("prev", second, last)'
      BY <2>3, <2>5 DEF Becomes, Hits, Store
    <2>9. Becomes("prev", Anchor, last)'
      <3>1. Anchor # second /\ prev'[Anchor] = last
        BY <1>1, <1>3, <1>4, <2>0
      <3> QED
        BY <2>5, <3>1 DEF Becomes, Pointer
    <2>13. n - 1 \in Nat
      BY <1>1, <1>6
    <2>10. PICK m \in Nat : m = n - 1
      BY <2>13
    <2>11. ASSUME NEW i \in 1..m
           PROVE  /\ Becomes("next", after[i], after[Following(i, m)])'
                  /\ Becomes("prev", after[Following(i, m)], after[i])'
      <3>1. CASE i = m
        <4>1. after[i] = last /\ after[Following(i, m)] = second
          BY <1>1, <1>2, <1>6, <2>0, <2>10, <3>1 DEF Following
        <4> QED
          BY <2>7, <2>8, <4>1
      <3>2. CASE i # m
        <4>1. after[i] = ord[i + 1] /\ after[Following(i, m)] = ord[i + 2] /\ i + 1 \in 1..n
              /\ i + 2 \in 1..n /\ i + 1 # n
          BY <1>1, <1>2, <2>10, <2>11, <3>2 DEF Following
        <4>2. next'[ord[i + 1]] = ord[i + 2] /\ prev'[ord[i + 2]] = ord[i + 1]
          BY <1>1, <1>4, <4>1 DEF Following
        <4>3. ord[i + 1] \notin {Anchor, last} /\ ord[i + 2] # second
          BY <1>1, <1>3, <1>6, <2>0, <2>11, <4>1
        <4>4. Becomes("next", ord[i + 1], ord[i + 2])'
          BY <2>4, <4>2, <4>3 DEF Becomes, Pointer
        <4>5. Becomes("prev", ord[i + 2], ord[i + 1])'
          BY <2>5, <4>2, <4>3 DEF Becomes, Pointer
        <4> QED
          BY <4>1, <4>4, <4>5
      <3> QED
        BY <3>1, <3>2
    <2>12. Len(after) = m /\ m > 0 /\ after[1] = second /\ after[m] = last
      BY <1>1, <1>2, <1>6, <2>0, <2>10
    <2>14. RingBecomes(after)'
      BY <2>6, <2>9, <2>11, <2>12 DEF RingBecomes, Following
    <2> QED
      BY <1>0, <1>1, <1>4, <2>3, <2>14
  <1>7. n = 1 \/ n > 1
    <2> SUFFICES ASSUME NEW k \in Nat, k > 0 PROVE k = 1 \/ k > 1
      BY <1>1
    <2> QED
      OBVIOUS
  <1> QED
    BY <1>5, <1>6, <1>7

-----------------------------------------------------------------------------
(* The invariant and the theorems.                                          *)

\* Every step keeps the circle, with its pending stores.
LEMMA StepKeepsList == ListInv /\ [Next]_listVars => ListInv'
  <1> SUFFICES ASSUME ListInv, [Next]_listVars PROVE ListInv'
    OBVIOUS
  <1>0. ListTypes /\ Distinct /\ Circle /\ count = Len(order) /\ order \in Seq(Nodes)
    BY DEF ListInv, ListTypes
  <1>r. ASSUME UNCHANGED <<next, prev, stores>>, NEW seq
        PROVE  RingBecomes(seq) => RingBecomes(seq)'
    BY <1>r DEF RingBecomes, Becomes, Pointer, Hits
  <1>1. ASSUME NEW new \in Nodes, AddBegin(new) PROVE ListInv'
    <2>0. Append(order, new) \in Seq(Nodes)
      BY <1>0
    <2>1. PICK after \in Seq(Nodes) : after = Append(order, new)
      BY <2>0
    <2>2. RingBecomes(after)' /\ stores' \in Seq(Stores)
      BY <1>1, <2>1, AddPlanned
    <2>3. \A i \in 1..Len(order) : order[i] # new
      BY <1>0, <1>1 DEF AddBegin, InList, ToSet
    <2>4. mutex' = "adder" /\ node' = new /\ UNCHANGED <<next, prev, count, polled, order>>
      BY <1>1 DEF AddBegin
    <2>5. after = Append(order', node')
      BY <2>1, <2>4
    <2>6. Circle'
      BY <2>2, <2>3, <2>4, <2>5 DEF Circle
    <2> QED
      BY <1>0, <2>2, <2>4, <2>6 DEF ListInv, ListTypes, Distinct
  <1>2. CASE MakeStore
    <2>1. /\ stores # <<>> /\ UNCHANGED <<mutex, node, count, polled, order>>
          /\ Head(stores) \in Stores /\ stores' \in Seq(Stores)
      BY <1>0, <1>2 DEF MakeStore, ListTypes
    <2>2. next' \in [Cells -> Pointers] /\ prev' \in [Cells -> Pointers]
      BY <1>0, <1>2, <2>1 DEF MakeStore, ListTypes, Stores
    <2>3. mutex # "free"
      BY <1>0, <2>1 DEF Circle
    <2>4. CASE mutex = "adder"
      <3>0. Append(order, node) \in Seq(Nodes)
        BY <1>0, <2>4 DEF Circle
      <3>1. PICK after \in Seq(Nodes) : after = Append(order, node)
        BY <3>0
      <3>2. RingBecomes(after)'
        BY <1>0, <1>2, <2>4, <3>1, RingAsPlanned DEF Circle
      <3>3. after = Append(order', node')
        BY <2>1, <3>1
      <3>4. Circle'
        BY <1>0, <2>1, <2>4, <3>2, <3>3 DEF Circle
      <3> QED
        BY <1>0, <2>1, <2>2, <3>4 DEF ListInv, ListTypes, Distinct
    <2>5. CASE mutex = "taker"
      <3>0. Tail(order) \in Seq(Nodes)
        BY <1>0, <2>5 DEF Circle
      <3>1. PICK after \in Seq(Nodes) : after = Tail(order)
        BY <3>0
      <3>2. RingBecomes(after)'
        BY <1>0, <1>2, <2>5, <3>1, RingAsPlanned DEF Circle
      <3>3. after = Tail(order')
        BY <2>1, <3>1
      <3>4. Circle'
        BY <1>0, <2>1, <2>5, <3>2, <3>3 DEF Circle
      <3> QED
        BY <1>0, <2>1, <2>2, <3>4 DEF ListInv, ListTypes, Distinct
    <2> QED
      BY <1>0, <2>3, <2>4, <2>5 DEF ListTypes
  <1>3. CASE AddEnd
    <2>1. PICK after \in Seq(Nodes) : after = Append(order, node)
      BY <1>0, <1>3 DEF AddEnd, Circle
    <2>2. /\ UNCHANGED <<next, prev, stores, polled>> /\ stores = <<>> /\ count' = count + 1
          /\ mutex' = "free" /\ order' = after /\ RingBecomes(after)
          /\ node \in Nodes /\ \A i \in 1..Len(order) : order[i] # node
      BY <1>0, <1>3, <2>1 DEF AddEnd, Circle
    <2>3. RingBecomes(after)'
      BY <2>2, <1>r
    <2>4. /\ Len(after) = Len(order) + 1 /\ after[Len(order) + 1] = node /\ after # <<>>
          /\ \A i \in 1..Len(order) : after[i] = order[i]
      BY <1>0, <2>1, <2>2
    <2>5. Circle'
      BY <2>2, <2>3 DEF Circle
    <2>6. Distinct'
      BY <1>0, <2>2, <2>4 DEF Distinct
    <2> QED
      BY <1>0, <2>2, <2>4, <2>5, <2>6 DEF ListInv, ListTypes
  <1>4. CASE Poll
    <2>1. UNCHANGED <<next, prev, mutex, stores, node, count, order>> /\ ~list_empty /\ mutex # "taker"
          /\ polled' = TRUE
      BY <1>4 DEF Poll
    <2>2. order # <<>> \/ mutex = "adder"
      BY <1>0, <2>1, RingNow DEF ListTypes, Circle, list_empty
    <2>3. Circle'
      BY <1>0, <2>1, <1>r DEF Circle
    <2> QED
      BY <1>0, <2>1, <2>2, <2>3 DEF ListInv, ListTypes, Distinct
  <1>5. CASE TakeBegin
    <2>1. order # <<>>
      BY <1>0, <1>5 DEF TakeBegin
    <2>0. Tail(order) \in Seq(Nodes)
      BY <1>0, <2>1
    <2>2. PICK after \in Seq(Nodes) : after = Tail(order)
      BY <2>0
    <2>3. RingBecomes(after)' /\ stores' \in Seq(Stores) /\ next[Anchor] = order[1]
      BY <1>5, <2>2, DelPlanned
    <2>4. mutex' = "taker" /\ node' = next[Anchor] /\ UNCHANGED <<next, prev, count, polled, order>>
      BY <1>5 DEF TakeBegin
    <2>5. after = Tail(order') /\ node' = order'[1] /\ order' # <<>>
      BY <2>1, <2>2, <2>3, <2>4
    <2>6. Circle'
      BY <2>3, <2>4, <2>5 DEF Circle
    <2> QED
      BY <1>0, <2>3, <2>4, <2>5, <2>6 DEF ListInv, ListTypes, Distinct
  <1>6. CASE TakeEnd
    <2>1. PICK after \in Seq(Nodes) : after = Tail(order)
      BY <1>0, <1>6 DEF TakeEnd, Circle
    <2>2. /\ UNCHANGED <<next, prev, stores>> /\ stores = <<>> /\ count' = count - 1
          /\ mutex' = "free" /\ order' = after /\ RingBecomes(after) /\ order # <<>>
          /\ polled' = FALSE
      BY <1>0, <1>6, <2>1 DEF TakeEnd, Circle
    <2>3. RingBecomes(after)'
      BY <2>2, <1>r
    <2>4. /\ Len(after) = Len(order) - 1 /\ \A i \in 1..(Len(order) - 1) : after[i] = order[i + 1]
      BY <1>0, <2>1, <2>2
    <2>5. Circle'
      BY <2>2, <2>3 DEF Circle
    <2>6. Distinct'
      BY <1>0, <2>2, <2>4 DEF Distinct
    <2> QED
      BY <1>0, <2>2, <2>4, <2>5, <2>6 DEF ListInv, ListTypes
  <1>7. CASE UNCHANGED listVars
    <2>1. Circle'
      BY <1>0, <1>7, <1>r DEF Circle, listVars
    <2> QED
      BY <1>0, <1>7, <2>1 DEF ListInv, ListTypes, Distinct, listVars
  <1> QED
    BY <1>1, <1>2, <1>3, <1>4, <1>5, <1>6, <1>7 DEF Next

\* The list and the one who holds its mutex agree in every reachable state.
THEOREM ListInvariance == Spec => []ListInv
  <1>1. Init => ListInv
    <2> SUFFICES ASSUME Init PROVE ListInv
      OBVIOUS
    <2>4. next \in [Cells -> Pointers] /\ prev \in [Cells -> Pointers]
      BY DEF Init, Cells, Pointers
    <2>5. /\ order = <<>> /\ stores = <<>> /\ count = 0 /\ polled = FALSE
          /\ order \in Seq(Nodes) /\ stores \in Seq(Stores) /\ Len(order) = 0
      BY DEF Init
    <2>6. Distinct
      BY <2>5 DEF Distinct
    <2>7. ListTypes
      BY <2>4, <2>5 DEF Init, ListTypes
    <2>1. ListTypes /\ Distinct /\ count = Len(order) /\ polled = FALSE
      BY <2>5, <2>6, <2>7
    <2>2. Becomes("next", Anchor, Anchor) /\ Becomes("prev", Anchor, Anchor)
      BY DEF Init, Becomes, Pointer, Cells
    <2>3. Circle
      BY <2>2 DEF Init, Circle, RingBecomes
    <2> QED
      BY <2>1, <2>3 DEF ListInv
  <1> QED
    BY <1>1, StepKeepsList, PTL DEF Spec

\* Whenever the mutex is free the pointers form the circle of the nodes in the order in
\* which they were added, and the counter is their number.
THEOREM RingKept == Spec => []RingIntact
  <1> SUFFICES ASSUME ListInv PROVE RingIntact
    BY ListInvariance, PTL
  <1> SUFFICES ASSUME mutex = "free" PROVE RingIntact
    BY DEF RingIntact
  <1> DEFINE n == Len(order)
  <1>1. stores = <<>> /\ RingBecomes(order) /\ order \in Seq(Nodes) /\ n \in Nat /\ count = n
    BY DEF ListInv, ListTypes, Circle
  <1>2. \A i \in 1..n : (i % n) + 1 = Following(i, n)
    BY <1>1, FollowingMod
  <1>3. n = 0 <=> order = <<>>
    BY <1>1
  <1>4. n # 0 => \A i \in 1..n : /\ next[order[i]] = order[(i % n) + 1]
                                 /\ prev[order[(i % n) + 1]] = order[i]
    BY <1>1, <1>2, <1>3, RingNow
  <1> QED
    BY <1>1, <1>3, <1>4, RingNow DEF RingIntact

\* The node that is taken is the one that was added first.
THEOREM TakenIsFirst == Spec => []FirstIn
  <1>1. ListInv => FirstIn
    BY DEF ListInv, Circle, FirstIn
  <1> QED
    BY <1>1, ListInvariance, PTL

\* What the look without the mutex has found is there when the mutex is held.
THEOREM LookTruthful == Spec => []PollTruthful
  <1> SUFFICES ASSUME ListInv, polled, mutex = "free" PROVE count > 0 /\ ~list_empty
    BY ListInvariance, PTL DEF PollTruthful
  <1>1. stores = <<>> /\ RingBecomes(order) /\ order \in Seq(Nodes) /\ count = Len(order)
        /\ order # <<>>
    BY DEF ListInv, ListTypes, Circle
  <1>2. order[1] \in Nodes /\ Len(order) > 0 /\ next[Anchor] = order[1]
    BY <1>1, RingNow
  <1> QED
    BY <1>1, <1>2 DEF list_empty
===============================================================================
