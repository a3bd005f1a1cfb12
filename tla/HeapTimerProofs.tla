-------------------------- MODULE HeapTimerProofs --------------------------
(***************************************************************************)
(* HeapTimer, proved: what the heap guarantees for every set of            *)
(* descriptors, timeout and capacity.                                      *)
(***************************************************************************)
EXTENDS HeapTimer, WellFoundedInduction, TLAPS

(***************************************************************************)
(* The inductive invariant                                                 *)
(***************************************************************************)

Ordered(h, j) == h[Parent(j)].expires <= h[j].expires

(* Nothing expires later than a timer set now would.                       *)
ExpiresBound ==
  /\ \A i \in Slots : heap[i].expires <= now + Timeout
  /\ wake <= now + Timeout

(* A percolation at idx bridges its gap: idx's parent is not later than    *)
(* idx's children.                                                         *)
Bridged ==
  idx > 0 => \A j \in 1 .. size - 1 :
               Parent(j) = idx => heap[Parent(idx)].expires <= heap[j].expires

(* At rest every edge is ordered; PercolateUp may have the one edge above  *)
(* idx wrong, but never if that edge is the root's, which it does not      *)
(* look at; PercolateDown only the edges below idx.                        *)
HeapShape ==
  /\ pc \in {"idle", "tick"} => \A j \in 1 .. size - 1 : Ordered(heap, j)
  /\ pc = "up" =>
       /\ \A j \in 1 .. size - 1 : j # idx => Ordered(heap, j)
       /\ idx < size => heap[0].expires <= heap[idx].expires /\ Bridged
  /\ pc = "down" =>
       /\ \A j \in 1 .. size - 1 : Parent(j) # idx => Ordered(heap, j)
       /\ Bridged

IInv == TypeOK /\ OneTimerPerFd /\ ExpiresBound /\ HeapShape /\ NeverOversleeps

----------------------------------------------------------------------------
(* Index arithmetic of the heap.                                           *)
LEMMA SlotFact ==
  ASSUME TypeOK, NEW i \in Slots
  PROVE  heap[i].expires \in Nat /\ heap[i].fd \in Fds \cup {NoFd}
  BY DEF TypeOK, Node

(* The parent of a slot other than the root is a slot below it.            *)
LEMMA ParentFact ==
  \A i \in Nat : i > 0 => /\ Parent(i) \in Nat
                          /\ Parent(i) < i
                          /\ i = 2 * Parent(i) + 1 \/ i = 2 * Parent(i) + 2
  BY DEF Parent

(* The slots are the numbers below the capacity; NoIndex is none of them.  *)
LEMMA SlotIndexFact ==
  /\ \A i \in Slots : i \in Nat /\ i < Capacity
  /\ \A i \in Nat : i < Capacity => i \in Slots
  /\ Capacity \in Nat /\ Timeout \in Nat /\ NoIndex \notin Slots
  BY TimerAssumption DEF Slots, NoIndex

(* Both children of slot i have parent i.                                  *)
LEMMA ChildFact == \A i \in Nat : Parent(2 * i + 1) = i /\ Parent(2 * i + 2) = i
  BY DEF Parent

(* A non-empty set of numbers has a least element.                         *)
LEMMA LeastNumber ==
  ASSUME NEW T \in SUBSET Nat, T # {}
  PROVE  \E m \in T : \A k \in T : m <= k
<1> DEFINE Less == {p \in Nat \X Nat : p[1] < p[2]}
<1>1. IsWellFoundedOn(Less, Nat)
  BY NatLessThanWellFounded, Zenon DEF OpToRel
<1>2. PICK m \in T : \A k \in T : ~ (<<k, m>> \in Less)
  <2> HIDE DEF Less
  <2>1. QED
    BY <1>1, WFMin
<1>3. ASSUME NEW k \in T PROVE m <= k
  <2>1. <<k, m>> \in Nat \X Nat /\ <<k, m>>[1] = k /\ <<k, m>>[2] = m
    BY <1>2
  <2>2. ~ (k < m)
    BY <1>2, <2>1
  <2> HIDE DEF Less
  <2>3. QED
    BY <1>2, <2>2
<1>4. QED
  BY <1>2, <1>3

(* Ordered edges make the root the earliest node.                          *)
LEMMA RootFact ==
  ASSUME NEW h, NEW n \in Nat,
         \A j \in 0 .. n - 1 : h[j].expires \in Int,
         \A j \in 1 .. n - 1 : h[Parent(j)].expires <= h[j].expires
  PROVE  \A j \in 0 .. n - 1 : h[0].expires <= h[j].expires
<1> DEFINE Bad == {j \in 0 .. n - 1 : ~ (h[0].expires <= h[j].expires)}
<1>1. SUFFICES ASSUME Bad # {} PROVE FALSE
  OBVIOUS
<1>2. PICK m \in Bad : \A k \in Bad : m <= k
  <2>1. Bad \in SUBSET Nat
    OBVIOUS
  <2> HIDE DEF Bad
  <2>2. QED
    BY <1>1, <2>1, LeastNumber
<1>3. m \in 1 .. n - 1
  BY <1>2
<1>4. Parent(m) \in 0 .. n - 1 /\ Parent(m) < m
  BY <1>3, ParentFact
<1>5. Parent(m) \notin Bad
  BY <1>2, <1>3, <1>4
<1>6. QED
  BY <1>2, <1>3, <1>4, <1>5

(* What the helpers on the heap do to it, slot by slot.                    *)
LEMMA ExtendedFact ==
  ASSUME NEW h \in [Slots -> Node], NEW i \in Slots, NEW t \in Nat
  PROVE  /\ Extended(h, i, t) \in [Slots -> Node]
         /\ Extended(h, i, t)[i].expires = t + Timeout
         /\ \A j \in Slots : Extended(h, i, t)[j].fd = h[j].fd
         /\ \A j \in Slots : j # i => Extended(h, i, t)[j] = h[j]
<1>1. Extended(h, i, t)[i] = [h[i] EXCEPT !.expires = t + Timeout]
  BY DEF Extended
<1>2. h[i] \in Node
  OBVIOUS
<1>3. /\ [h[i] EXCEPT !.expires = t + Timeout] \in Node
      /\ [h[i] EXCEPT !.expires = t + Timeout].expires = t + Timeout
      /\ [h[i] EXCEPT !.expires = t + Timeout].fd = h[i].fd
  BY <1>2, TimerAssumption DEF Node
<1>4. QED
  BY <1>1, <1>3 DEF Extended

(* A node whose callback is replaced keeps its descriptor and deadline.    *)
LEMMA RebindFact ==
  ASSUME NEW h \in [Slots -> Node], NEW i \in Slots, NEW fd \in Fds
  PROVE  /\ [h EXCEPT ![i].cb = fd] \in [Slots -> Node]
         /\ \A j \in Slots : /\ [h EXCEPT ![i].cb = fd][j].expires = h[j].expires
                              /\ [h EXCEPT ![i].cb = fd][j].fd = h[j].fd
<1>1. h[i] \in Node
  OBVIOUS
<1>2. /\ [h[i] EXCEPT !.cb = fd] \in Node
      /\ [h[i] EXCEPT !.cb = fd].expires = h[i].expires
      /\ [h[i] EXCEPT !.cb = fd].fd = h[i].fd
  BY <1>1 DEF Node
<1>3. QED
  BY <1>2

(* A destroyed node loses its descriptor and its callback, nothing else.   *)
LEMMA DestroyedFact ==
  ASSUME NEW h \in [Slots -> Node], NEW i \in Slots
  PROVE  /\ Destroyed(h, i) \in [Slots -> Node]
         /\ Destroyed(h, i)[i].expires = h[i].expires
         /\ \A j \in Slots : j # i => Destroyed(h, i)[j] = h[j]
<1>1. Destroyed(h, i)[i] = [h[i] EXCEPT !.fd = NoFd, !.cb = NoFd]
  BY DEF Destroyed
<1>2. h[i] \in Node
  OBVIOUS
<1>3. /\ [h[i] EXCEPT !.fd = NoFd, !.cb = NoFd] \in Node
      /\ [h[i] EXCEPT !.fd = NoFd, !.cb = NoFd].expires = h[i].expires
  BY <1>2 DEF Node
<1>4. QED
  BY <1>1, <1>3 DEF Destroyed

(* SwapNode exchanges two slots and keeps every other one.                 *)
LEMMA SwappedFact ==
  ASSUME NEW h \in [Slots -> Node], NEW a \in Slots, NEW b \in Slots
  PROVE  /\ Swapped(h, a, b) \in [Slots -> Node]
         /\ Swapped(h, a, b)[a] = h[b]
         /\ Swapped(h, a, b)[b] = h[a]
         /\ \A j \in Slots : j # a /\ j # b => Swapped(h, a, b)[j] = h[j]
  BY DEF Swapped

----------------------------------------------------------------------------
(* DeleteNode(i) leaves the last node at i, and every other node in place. *)
LEMMA DeletedFact ==
  ASSUME TypeOK, OneTimerPerFd, NEW i \in Live, NEW r, DeleteNode(i, r)
  PROVE  /\ heap' \in [Slots -> Node]
         /\ size' = size - 1 /\ size' \in 0 .. Capacity /\ i \in 0 .. size'
         /\ \A j \in 0 .. size' - 1 :
              heap'[j] = IF j = i THEN heap[size'] ELSE heap[j]
         /\ heap'[size'].expires = heap[i].expires
         /\ \A j \in Slots : j > size' => heap'[j] = heap[j]
         /\ map' \in [Fds -> Slots \cup {NoIndex}]
         /\ \A fd \in Fds : map[fd] # NoIndex /\ fd # heap[i].fd => map'[fd] # NoIndex
         /\ pc' = IF Check_up_or_down(heap', size', i) THEN "up" ELSE "down"
         /\ idx' = i /\ idx' \in Slots
         /\ ret' = r
<1> DEFINE last == size - 1
           h2 == Swapped(heap, i, last)
<1>1. /\ size \in 1 .. Capacity /\ i \in 0 .. last /\ size' = last
      /\ last \in Slots /\ i \in Slots
  BY TimerAssumption DEF TypeOK, Slots, Live, DeleteNode
<1>2. heap \in [Slots -> Node]
  BY DEF TypeOK
<1>3. heap' = Destroyed(h2, last)
  BY DEF DeleteNode
<1>4. /\ h2 \in [Slots -> Node]
      /\ h2[i] = heap[last] /\ h2[last] = heap[i]
      /\ \A j \in Slots : j # i /\ j # last => h2[j] = heap[j]
  BY <1>1, <1>2, SwappedFact
<1> HIDE DEF h2
<1>5. /\ heap' \in [Slots -> Node]
      /\ heap'[last].expires = h2[last].expires
      /\ \A j \in Slots : j # last => heap'[j] = h2[j]
  BY <1>1, <1>3, <1>4, DestroyedFact
<1>6. map' = [SwapNodeMap(heap, i, last) EXCEPT ![heap[i].fd] = NoIndex]
  BY <1>4 DEF DeleteNode, h2
<1>7. /\ map' \in [Fds -> Slots \cup {NoIndex}]
      /\ \A fd \in Fds : map[fd] # NoIndex /\ fd # heap[i].fd => map'[fd] # NoIndex
  <2>1. SwapNodeMap(heap, i, last) =
          [map EXCEPT ![heap[last].fd] = last, ![heap[i].fd] = i]
    BY <1>4 DEF SwapNodeMap, h2
  <2>2. map \in [Fds -> Slots \cup {NoIndex}] /\ NoIndex \notin Slots
    BY TimerAssumption DEF TypeOK, NoIndex, Slots
  <2>3. QED
    BY <1>1, <1>6, <2>1, <2>2
<1>8. /\ pc' = IF Check_up_or_down(h2, last, i) THEN "up" ELSE "down"
      /\ idx' = i
      /\ ret' = r
  BY DEF DeleteNode, Percolate, h2
<1>9. Check_up_or_down(heap', last, i) <=> Check_up_or_down(h2, last, i)
  <2>1. \A c \in {2 * i + 1, 2 * i + 2} :
          c < last => heap'[i] = h2[i] /\ heap'[c] = h2[c]
    BY <1>1, <1>5, TimerAssumption DEF Slots
  <2>2. QED
    BY <2>1 DEF Check_up_or_down
<1>10. \A j \in 0 .. last - 1 : j \in Slots /\ j # last
  BY <1>1, TimerAssumption DEF Slots
<1>11. QED
  BY <1>1, <1>4, <1>5, <1>7, <1>8, <1>9, <1>10, TimerAssumption DEF Slots

(* What Check_up_or_down tells of the children of i.                       *)
LEMMA CheckFact ==
  ASSUME NEW h, NEW n \in Nat, NEW i \in Nat,
         \A j \in 0 .. n - 1 : h[j].expires \in Nat
  PROVE  /\ Check_up_or_down(h, n, i) =>
              \A j \in 1 .. n - 1 : Parent(j) = i => h[i].expires <= h[j].expires
         /\ ~ Check_up_or_down(h, n, i) =>
              \E j \in 1 .. n - 1 : Parent(j) = i /\ h[i].expires > h[j].expires
<1>1. ASSUME Check_up_or_down(h, n, i), NEW j \in 1 .. n - 1, Parent(j) = i
      PROVE  h[i].expires <= h[j].expires
  <2>1. j \in {2 * i + 1, 2 * i + 2} /\ i < j
    BY <1>1, ParentFact
  <2>2. ~ (h[i].expires > h[j].expires)
    BY <1>1, <2>1 DEF Check_up_or_down
  <2>3. h[i].expires \in Nat /\ h[j].expires \in Nat
    BY <2>1
  <2>4. QED
    BY <2>2, <2>3
<1>2. ASSUME ~ Check_up_or_down(h, n, i)
      PROVE  \E j \in 1 .. n - 1 : Parent(j) = i /\ h[i].expires > h[j].expires
  <2>1. PICK j \in {2 * i + 1, 2 * i + 2} : j < n /\ h[i].expires > h[j].expires
    BY <1>2 DEF Check_up_or_down
  <2>2. j \in 1 .. n - 1 /\ Parent(j) = i
    <3>1. Parent(2 * i + 1) = i /\ Parent(2 * i + 2) = i
      BY ChildFact
    <3>2. QED
      BY <2>1, <3>1
  <2>3. QED
    BY <2>1, <2>2
<1>3. QED
  BY <1>1, <1>2

(* The child PercolateDown picks is a used slot and the smaller of the     *)
(* two.                                                                    *)
LEMMA MinChildFact ==
  ASSUME TypeOK, 2 * idx + 1 < size
  PROVE  /\ MinChild(idx) \in 1 .. size - 1
         /\ Parent(MinChild(idx)) = idx
         /\ idx < MinChild(idx)
         /\ \A j \in 1 .. size - 1 :
              Parent(j) = idx => heap[MinChild(idx)].expires <= heap[j].expires
<1>1. idx \in Nat /\ size \in Nat /\ size <= Capacity
  BY SlotIndexFact DEF TypeOK
<1>2. \A j \in 0 .. size - 1 : heap[j].expires \in Nat
  <2>1. \A j \in 0 .. size - 1 : j \in Slots
    BY <1>1, SlotIndexFact
  <2>2. QED
    BY <2>1 DEF TypeOK, Node
<1>3. \/ MinChild(idx) = 2 * idx + 1
      \/ MinChild(idx) = 2 * idx + 2 /\ 2 * idx + 2 < size
  BY DEF MinChild
<1>4. ASSUME NEW j \in 1 .. size - 1, Parent(j) = idx
      PROVE  heap[MinChild(idx)].expires <= heap[j].expires
  <2>1. j = 2 * idx + 1 \/ j = 2 * idx + 2
    BY <1>1, <1>4, ParentFact
  <2>2. QED
    BY <1>1, <1>2, <2>1 DEF MinChild
<1>5. QED
  BY <1>1, <1>3, <1>4, ChildFact

(* A node put at i without touching the rest leaves a heap that the        *)
(* percolation Check_up_or_down chooses can repair: the order is broken    *)
(* above i only, or below i only.                                          *)
LEMMA RepairFact ==
  ASSUME NEW h \in [Slots -> Node], NEW n \in 0 .. Capacity, NEW i \in Slots,
         \A j \in 1 .. n - 1 : j # i /\ Parent(j) # i => Ordered(h, j),
         i > 0 => \A j \in 1 .. n - 1 :
                    Parent(j) = i => h[Parent(i)].expires <= h[j].expires
  PROVE  /\ Check_up_or_down(h, n, i) => \A j \in 1 .. n - 1 : j # i => Ordered(h, j)
         /\ ~ Check_up_or_down(h, n, i) =>
              \A j \in 1 .. n - 1 : Parent(j) # i => Ordered(h, j)
<1>1. i \in Nat /\ n \in Nat /\ n <= Capacity
  BY SlotIndexFact
<1>2. \A j \in 0 .. n - 1 : h[j].expires \in Nat
  <2>1. \A j \in 0 .. n - 1 : j \in Slots
    BY <1>1, SlotIndexFact
  <2>2. QED
    BY <2>1 DEF Node
<1>3. /\ Check_up_or_down(h, n, i) =>
           \A j \in 1 .. n - 1 : Parent(j) = i => h[i].expires <= h[j].expires
      /\ ~ Check_up_or_down(h, n, i) =>
           \E j \in 1 .. n - 1 : Parent(j) = i /\ h[i].expires > h[j].expires
  BY <1>1, <1>2, CheckFact
<1>4. CASE Check_up_or_down(h, n, i)
  BY <1>3, <1>4 DEF Ordered
<1>5. CASE ~ Check_up_or_down(h, n, i)
  <2>1. PICK c \in 1 .. n - 1 : Parent(c) = i /\ h[i].expires > h[c].expires
    BY <1>3, <1>5
  <2>2. ASSUME i \in 1 .. n - 1 PROVE Ordered(h, i)
    <3>1. h[Parent(i)].expires <= h[c].expires
      BY <1>1, <2>1, <2>2
    <3>2. Parent(i) \in 0 .. n - 1
      <4>1. i > 0 /\ i < n
        BY <1>1, <2>2
      <4>2. Parent(i) \in Nat /\ Parent(i) < i
        BY <1>1, <4>1, ParentFact
      <4>3. QED
        BY <1>1, <4>1, <4>2
    <3>3. h[Parent(i)].expires \in Nat /\ h[i].expires \in Nat /\ h[c].expires \in Nat
      BY <1>1, <1>2, <2>1, <2>2, <3>2
    <3>4. QED
      BY <2>1, <3>1, <3>3 DEF Ordered
  <2>3. QED
    BY <1>1, <1>5, <2>2
<1>6. QED
  BY <1>4, <1>5

(* Every step keeps the variables in their types; the map never points     *)
(* outside the reserved slots.                                             *)
LEMMA TypeStep == TypeOK /\ OneTimerPerFd /\ [Next]_vars => TypeOK'
<1> SUFFICES ASSUME TypeOK, OneTimerPerFd, [Next]_vars PROVE TypeOK'
  OBVIOUS
<1> USE TimerAssumption DEF TypeOK
<1>a. \A t \in Clock : t \in Nat
  BY DEF Clock
<1>b. Live \subseteq Slots /\ NoIndex \notin Slots
  BY DEF Live, Slots, NoIndex
<1>1. ASSUME NEW fd \in Fds, NEW t \in Clock, AddTimerExisting(fd, t) PROVE TypeOK'
  <2>1. CASE map[fd] >= size
    BY <1>1, <2>1 DEF AddTimerExisting, Undefined
  <2>2. CASE ~ (map[fd] >= size)
    <3>1. map[fd] \in Slots
      BY <1>1 DEF AddTimerExisting
    <3>2. Extended(heap, map[fd], t) \in [Slots -> Node]
      BY <1>a, <3>1, ExtendedFact
    <3>3. heap' \in [Slots -> Node]
      BY <1>1, <2>2, <3>1, <3>2, RebindFact DEF AddTimerExisting
    <3>4. QED
      BY <1>1, <1>a, <2>2, <3>1, <3>3 DEF AddTimerExisting, Percolate, Idle
  <2>3. QED
    BY <2>1, <2>2
<1>2. ASSUME NEW fd \in Fds, NEW t \in Clock, AddTimerNew(fd, t) PROVE TypeOK'
  BY <1>2, <1>a DEF AddTimerNew, Idle, Slots, Node
<1>3. ASSUME NEW fd \in Fds, NEW t \in Clock, AdjustTimer(fd, t) PROVE TypeOK'
  <2> DEFINE i == IF map[fd] = NoIndex THEN 0 ELSE map[fd]
  <2>1. i \in Slots
    BY DEF Slots
  <2>2. Extended(heap, i, t) \in [Slots -> Node]
    BY <1>a, <2>1, ExtendedFact
  <2>3. /\ heap' = Extended(heap, i, t)
        /\ map' = [map EXCEPT ![fd] = i]
        /\ now' = t
        /\ pc' \in {"up", "down"} /\ idx' = i /\ ret' = "idle"
        /\ UNCHANGED <<size, wake, ub>>
    BY <1>3 DEF AdjustTimer, Percolate
  <2> HIDE DEF i
  <2>4. QED
    BY <1>a, <2>1, <2>2, <2>3
<1>4. ASSUME NEW fd \in Fds, DoRightNow(fd) PROVE TypeOK'
  <2>1. CASE map[fd] >= size
    BY <1>4, <2>1 DEF DoRightNow, Undefined
  <2>2. CASE ~ (map[fd] >= size)
    <3>1. map[fd] \in Live /\ DeleteNode(map[fd], "idle")
      BY <1>4, <2>2 DEF DoRightNow, Live, Slots
    <3>2. QED
      BY <1>4, <2>2, <3>1, DeletedFact DEF DoRightNow, Idle
  <2>3. QED
    BY <2>1, <2>2
<1>5. CASE Clear
  <2>1. \A i \in Slots : [heap[i] EXCEPT !.fd = NoFd, !.cb = NoFd] \in Node
    BY DEF Node
  <2>2. heap' \in [Slots -> Node]
    BY <1>5, <2>1 DEF Clear
  <2>3. size' \in 0 .. Capacity
    <3>1. 0 \in 0 .. Capacity
      BY SlotIndexFact
    <3>2. QED
      BY <1>5, <3>1 DEF Clear
  <2>a. map' \in [Fds -> Slots \cup {NoIndex}]
    BY <1>5 DEF Clear
  <2>4. QED
    BY <1>5, <2>2, <2>3, <2>a DEF Clear, Idle
<1>6. CASE NextTickTime
  BY <1>6 DEF NextTickTime, Idle
<1>7. ASSUME NEW t \in Clock, TickFire(t) PROVE TypeOK'
  <2>1. 0 \in Live /\ DeleteNode(0, "tick")
    BY <1>7 DEF TickFire, Live
  <2>2. QED
    BY <1>7, <1>a, <2>1, DeletedFact DEF TickFire
<1>8. ASSUME NEW t \in Clock, NEW u \in Clock, TickDone(t, u) PROVE TypeOK'
  <2>1. size > 0 => heap[0].expires \in Nat
    BY DEF Node, Slots
  <2>2. wake' \in Nat \cup {Awake, Forever}
    BY <1>8, <1>a, <2>1 DEF TickDone, TickTime, Forever, Awake
  <2>3. QED
    BY <1>8, <1>a, <2>2 DEF TickDone
<1>9. CASE PercolateUpAtRoot
  BY <1>9 DEF PercolateUpAtRoot, Return, Undefined
<1>10. CASE PercolateUpStop
  BY <1>10 DEF PercolateUpStop, Return
<1>11. CASE PercolateUpSwap
  <2>1. CASE idx >= size
    BY <1>11, <2>1 DEF PercolateUpSwap, Undefined
  <2>2. CASE ~ (idx >= size)
    <3>1. Parent(idx) \in Slots
      BY <1>11, ParentFact DEF PercolateUpSwap, Slots
    <3>2. QED
      BY <1>11, <2>2, <3>1, SwappedFact DEF PercolateUpSwap
  <2>3. QED
    BY <2>1, <2>2
<1>12. CASE PercolateDownStop
  BY <1>12 DEF PercolateDownStop, Return
<1>13. CASE PercolateDownSwap
  <2>1. MinChild(idx) \in Slots
    BY <1>13 DEF PercolateDownSwap, MinChild, Slots
  <2>2. SwapNodeMap(heap, MinChild(idx), idx) \in [Fds -> Slots \cup {NoIndex}]
    BY <2>1 DEF SwapNodeMap
  <2>3. QED
    BY <1>13, <2>1, <2>2, SwappedFact DEF PercolateDownSwap
<1>14. CASE UNCHANGED vars
  BY <1>14 DEF vars
<1>15. QED
  BY <1>1, <1>2, <1>3, <1>4, <1>5, <1>6, <1>7, <1>8, <1>9, <1>10, <1>11, <1>12,
     <1>13, <1>14
  DEF Next, Rest, Extend, AddTimer, TickLoop, PercolateStep

(* A descriptor keeps at most one node, and a node its map key.            *)
LEMMA OneTimerStep == TypeOK /\ OneTimerPerFd /\ [Next]_vars => OneTimerPerFd'
<1> SUFFICES ASSUME TypeOK, OneTimerPerFd, [Next]_vars PROVE OneTimerPerFd'
  OBVIOUS
<1>0. /\ heap \in [Slots -> Node] /\ size \in 0 .. Capacity
      /\ map \in [Fds -> Slots \cup {NoIndex}] /\ idx \in Slots
      /\ Live \subseteq Slots /\ NoIndex \notin Slots
  BY SlotIndexFact DEF TypeOK, Live
<1>a. \A t \in Clock : t \in Nat
  BY DEF Clock, TypeOK
<1>b. ASSUME NEW i \in Live, NEW r, DeleteNode(i, r) PROVE OneTimerPerFd'
  <2>1. /\ size' = size - 1 /\ size' \in 0 .. Capacity
        /\ \A j \in 0 .. size' - 1 : heap'[j] = IF j = i THEN heap[size'] ELSE heap[j]
        /\ \A fd \in Fds : map[fd] # NoIndex /\ fd # heap[i].fd => map'[fd] # NoIndex
    BY <1>b, DeletedFact
  <2>2. size' \in Live /\ i \in Live /\ \A j \in Live' : j \in Live /\ j # size'
    BY <1>0, <2>1 DEF Live
  <2>3. \A j \in Live' : heap'[j] = IF j = i THEN heap[size'] ELSE heap[j]
    BY <2>1 DEF Live
  <2>4. \A j, k \in Live' : heap'[j].fd = heap'[k].fd => j = k
    BY <2>2, <2>3 DEF OneTimerPerFd
  <2>5. \A j \in Live' : heap'[j].fd \in Fds /\ heap'[j].fd # heap[i].fd
    BY <2>2, <2>3 DEF OneTimerPerFd
  <2>6. \A j \in Live' : map[heap'[j].fd] # NoIndex
    BY <2>2, <2>3 DEF OneTimerPerFd
  <2>7. QED
    BY <2>1, <2>4, <2>5, <2>6 DEF OneTimerPerFd
<1>c. ASSUME NEW a \in Live, NEW b \in Live, heap' = Swapped(heap, a, b), size' = size,
             \A fd \in Fds : map[fd] # NoIndex => map'[fd] # NoIndex
      PROVE  OneTimerPerFd'
  <2>1. /\ heap'[a] = heap[b] /\ heap'[b] = heap[a]
        /\ \A j \in Slots : j # a /\ j # b => heap'[j] = heap[j]
    BY <1>0, <1>c, SwappedFact
  <2>2. Live' = Live
    BY <1>c DEF Live
  <2>3. QED
    BY <1>0, <1>c, <2>1, <2>2 DEF OneTimerPerFd
<1>d. ASSUME \A j \in Live : heap'[j].fd = heap[j].fd, size' = size,
             \A fd \in Fds : map[fd] # NoIndex => map'[fd] # NoIndex
      PROVE  OneTimerPerFd'
  <2>1. Live' = Live
    BY <1>d DEF Live
  <2>2. QED
    BY <1>d, <2>1 DEF OneTimerPerFd
<1>1. ASSUME NEW fd \in Fds, NEW t \in Clock, AddTimerExisting(fd, t) PROVE OneTimerPerFd'
  <2>1. CASE map[fd] >= size
    BY <1>1, <1>d, <2>1 DEF AddTimerExisting, Undefined
  <2>2. CASE ~ (map[fd] >= size)
    <3>1. map[fd] \in Slots
      BY <1>0, <1>1 DEF AddTimerExisting
    <3>2. /\ Extended(heap, map[fd], t) \in [Slots -> Node]
          /\ \A j \in Slots : Extended(heap, map[fd], t)[j].fd = heap[j].fd
      BY <1>0, <1>a, <3>1, ExtendedFact
    <3>3. \A j \in Slots : heap'[j].fd = heap[j].fd
      <4> DEFINE h2 == Extended(heap, map[fd], t)
      <4>1. heap' = [h2 EXCEPT ![map[fd]].cb = fd]
        BY <1>1, <2>2 DEF AddTimerExisting
      <4>2. h2 \in [Slots -> Node] /\ \A j \in Slots : h2[j].fd = heap[j].fd
        BY <3>2
      <4> HIDE DEF h2
      <4>3. \A j \in Slots : [h2 EXCEPT ![map[fd]].cb = fd][j].fd = h2[j].fd
        BY <3>1, <4>2, RebindFact
      <4>4. QED
        BY <4>1, <4>2, <4>3
    <3>4. map' = map /\ size' = size
      BY <1>1, <2>2 DEF AddTimerExisting
    <3>5. QED
      BY <1>0, <1>d, <3>3, <3>4
  <2>3. QED
    BY <2>1, <2>2
<1>2. ASSUME NEW fd \in Fds, NEW t \in Clock, AddTimerNew(fd, t) PROVE OneTimerPerFd'
  <2>1. size \in Slots /\ size \notin Live /\ Live' = Live \cup {size}
    BY <1>0, <1>2, SlotIndexFact DEF AddTimerNew, Live
  <2>2. /\ heap'[size].fd = fd
        /\ \A j \in Live : heap'[j] = heap[j]
    BY <1>0, <1>2, <2>1 DEF AddTimerNew
  <2>3. map[fd] = NoIndex /\ map' = [map EXCEPT ![fd] = size] /\ size # NoIndex
    BY <1>0, <1>2, <2>1 DEF AddTimerNew
  <2>4. \A j \in Live : heap[j].fd # fd
    BY <2>3 DEF OneTimerPerFd
  <2>5. QED
    BY <1>0, <2>1, <2>2, <2>3, <2>4 DEF OneTimerPerFd
<1>3. ASSUME NEW fd \in Fds, NEW t \in Clock, AdjustTimer(fd, t) PROVE OneTimerPerFd'
  <2> DEFINE n == IF map[fd] = NoIndex THEN 0 ELSE map[fd]
  <2>1. n \in Slots
    BY <1>0, SlotIndexFact, TimerAssumption
  <2>2. /\ heap' = Extended(heap, n, t)
        /\ map' = [map EXCEPT ![fd] = n]
        /\ size' = size
    BY <1>3 DEF AdjustTimer
  <2> HIDE DEF n
  <2>3. \A j \in Slots : heap'[j].fd = heap[j].fd
    <3>1. \A j \in Slots : Extended(heap, n, t)[j].fd = heap[j].fd
      <4>1. heap \in [Slots -> Node] /\ t \in Nat
        BY <1>0, <1>a
      <4>2. QED
        BY <2>1, <4>1, ExtendedFact
    <3>2. QED
      BY <2>2, <3>1
  <2>4. \A g \in Fds : map[g] # NoIndex => map'[g] # NoIndex
    BY <1>0, <2>1, <2>2
  <2>5. QED
    BY <1>0, <1>d, <2>2, <2>3, <2>4
<1>4. ASSUME NEW fd \in Fds, DoRightNow(fd) PROVE OneTimerPerFd'
  <2>1. CASE map[fd] >= size
    BY <1>4, <1>d, <2>1 DEF DoRightNow, Undefined
  <2>2. CASE ~ (map[fd] >= size)
    <3>1. map[fd] \in Live /\ DeleteNode(map[fd], "idle")
      BY <1>0, <1>4, <2>2, SlotIndexFact DEF DoRightNow, Live
    <3>2. QED
      BY <1>b, <3>1
  <2>3. QED
    BY <2>1, <2>2
<1>5. CASE Clear
  <2>1. \A j : j \notin Live'
    <3>1. size' = 0
      BY <1>5 DEF Clear
    <3>2. QED
      BY <3>1 DEF Live
  <2>2. QED
    BY <2>1 DEF OneTimerPerFd
<1>6. CASE NextTickTime
  BY <1>6, <1>d DEF NextTickTime
<1>7. ASSUME NEW t \in Clock, TickFire(t) PROVE OneTimerPerFd'
  <2>1. 0 \in Live /\ DeleteNode(0, "tick")
    BY <1>0, <1>7 DEF TickFire, Live
  <2>2. QED
    BY <1>b, <2>1
<1>8. ASSUME NEW t \in Clock, NEW u \in Clock, TickDone(t, u) PROVE OneTimerPerFd'
  BY <1>8, <1>d DEF TickDone
<1>9. CASE PercolateUpAtRoot
  BY <1>9, <1>d DEF PercolateUpAtRoot, Undefined
<1>10. CASE PercolateUpStop
  BY <1>10, <1>d DEF PercolateUpStop
<1>11. CASE PercolateUpSwap
  <2>1. CASE idx >= size
    BY <1>11, <1>d, <2>1 DEF PercolateUpSwap, Undefined
  <2>2. CASE ~ (idx >= size)
    <3>1. Parent(idx) \in Live /\ idx \in Live
      <4>1. idx \in Nat /\ idx > 0
        BY <1>0, <1>11, SlotIndexFact DEF PercolateUpSwap
      <4>2. QED
        BY <1>0, <2>2, <4>1, ParentFact DEF Live
    <3>2. QED
      BY <1>11, <1>c, <2>2, <3>1 DEF PercolateUpSwap
  <2>3. QED
    BY <2>1, <2>2
<1>12. CASE PercolateDownStop
  BY <1>12, <1>d DEF PercolateDownStop
<1>13. CASE PercolateDownSwap
  <2>1. MinChild(idx) \in Live /\ idx \in Live /\ MinChild(idx) \in Slots
    BY <1>0, <1>13, MinChildFact, SlotIndexFact DEF PercolateDownSwap, Live
  <2>2. \A fd \in Fds : map[fd] # NoIndex => map'[fd] # NoIndex
    BY <1>0, <1>13, <2>1 DEF PercolateDownSwap, SwapNodeMap
  <2>3. QED
    BY <1>13, <1>c, <2>1, <2>2 DEF PercolateDownSwap
<1>14. CASE UNCHANGED vars
  BY <1>14, <1>d DEF vars
<1>15. QED
  BY <1>1, <1>2, <1>3, <1>4, <1>5, <1>6, <1>7, <1>8, <1>9, <1>10, <1>11, <1>12,
     <1>13, <1>14
  DEF Next, Rest, Extend, AddTimer, TickLoop, PercolateStep

(* What AddTimer on a known descriptor and AdjustTimer do to the expiries. *)
LEMMA ExtendFact ==
  ASSUME TypeOK, NEW fd \in Fds, NEW t \in Clock,
         \/ AddTimerExisting(fd, t) /\ map[fd] < size
         \/ AdjustTimer(fd, t)
  PROVE  /\ idx' \in Slots /\ size' = size /\ now' = t
         /\ heap' \in [Slots -> Node]
         /\ heap'[idx'].expires = t + Timeout
         /\ \A j \in Slots : j # idx' => heap'[j].expires = heap[j].expires
         /\ pc' = IF Check_up_or_down(heap', size', idx') THEN "up" ELSE "down"
         /\ pc = "idle"
<1>0. heap \in [Slots -> Node] /\ map \in [Fds -> Slots \cup {NoIndex}] /\ t \in Nat
  BY DEF Clock, TypeOK
<1>1. CASE AddTimerExisting(fd, t) /\ map[fd] < size
  <2> DEFINE h2 == Extended(heap, map[fd], t)
  <2>1. map[fd] \in Slots /\ ~ (map[fd] >= size)
    BY <1>0, <1>1, SlotIndexFact DEF AddTimerExisting, TypeOK
  <2>2. /\ heap' = [h2 EXCEPT ![map[fd]].cb = fd]
        /\ idx' = map[fd] /\ size' = size /\ now' = t /\ pc = "idle"
        /\ pc' = IF Check_up_or_down(heap', size', idx') THEN "up" ELSE "down"
    BY <1>1, <2>1 DEF AddTimerExisting, Percolate, Idle
  <2>3. /\ h2 \in [Slots -> Node]
        /\ h2[map[fd]].expires = t + Timeout
        /\ \A j \in Slots : j # map[fd] => h2[j] = heap[j]
    BY <1>0, <2>1, ExtendedFact
  <2> HIDE DEF h2
  <2>4. /\ heap' \in [Slots -> Node]
        /\ \A j \in Slots : heap'[j].expires = h2[j].expires
    BY <2>1, <2>2, <2>3, RebindFact
  <2>5. QED
    BY <2>1, <2>2, <2>3, <2>4
<1>2. CASE AdjustTimer(fd, t)
  <2> DEFINE n == IF map[fd] = NoIndex THEN 0 ELSE map[fd]
  <2>1. n \in Slots
    BY <1>0, SlotIndexFact, TimerAssumption
  <2>2. /\ heap' = Extended(heap, n, t)
        /\ idx' = n /\ size' = size /\ now' = t /\ pc = "idle"
        /\ pc' = IF Check_up_or_down(heap', size', idx') THEN "up" ELSE "down"
    BY <1>2 DEF AdjustTimer, Percolate, Idle
  <2> HIDE DEF n
  <2>3. /\ Extended(heap, n, t) \in [Slots -> Node]
        /\ Extended(heap, n, t)[n].expires = t + Timeout
        /\ \A j \in Slots : j # n => Extended(heap, n, t)[j] = heap[j]
    BY <1>0, <2>1, ExtendedFact
  <2>4. QED
    BY <2>1, <2>2, <2>3
<1>3. QED
  BY <1>1, <1>2

(* No expiry lies further ahead than a timer set now.                      *)
LEMMA BoundStep == TypeOK /\ OneTimerPerFd /\ ExpiresBound /\ [Next]_vars => ExpiresBound'
<1> SUFFICES ASSUME TypeOK, OneTimerPerFd, ExpiresBound, [Next]_vars PROVE ExpiresBound'
  OBVIOUS
<1>0. /\ size \in 0 .. Capacity /\ heap \in [Slots -> Node]
      /\ now \in Nat /\ idx \in Slots /\ Live \subseteq Slots
      /\ \A j \in Slots : heap[j].expires \in Nat /\ heap[j].expires <= now + Timeout
      /\ wake <= now + Timeout /\ wake \in Int
  BY SlotIndexFact DEF TypeOK, Node, ExpiresBound, Live, Awake, Forever
<1>a. \A t \in Clock : t \in Nat /\ now <= t
  BY <1>0 DEF Clock
<1>b. ASSUME NEW i \in Live, NEW r, DeleteNode(i, r), now' \in Nat, now <= now',
             wake' = wake \/ wake' = Awake
      PROVE  ExpiresBound'
  <2>1. /\ size' = size - 1 /\ size' \in 0 .. Capacity
        /\ \A j \in 0 .. size' - 1 : heap'[j] = IF j = i THEN heap[size'] ELSE heap[j]
        /\ heap'[size'].expires = heap[i].expires
        /\ \A j \in Slots : j > size' => heap'[j] = heap[j]
    BY <1>b, DeletedFact
  <2>2. size' \in Slots /\ i \in Slots
    BY <1>0, <2>1, SlotIndexFact DEF Live
  <2>3. ASSUME NEW j \in Slots PROVE \E k \in Slots : heap'[j].expires = heap[k].expires
    <3>1. j \in 0 .. size' - 1 \/ j = size' \/ j > size'
      BY <2>1, SlotIndexFact
    <3>2. QED
      BY <2>1, <2>2, <3>1
  <2>4. QED
    BY <1>0, <1>b, <2>3, SlotIndexFact DEF ExpiresBound, Awake
<1>c. ASSUME NEW a \in Slots, NEW b \in Slots, heap' = Swapped(heap, a, b), now' = now, wake' = wake
      PROVE  ExpiresBound'
  <2>1. /\ heap'[a] = heap[b] /\ heap'[b] = heap[a]
        /\ \A j \in Slots : j # a /\ j # b => heap'[j] = heap[j]
    BY <1>0, <1>c, SwappedFact
  <2>2. QED
    BY <1>0, <1>c, <2>1 DEF ExpiresBound
<1>d. ASSUME \A j \in Slots : heap'[j].expires = heap[j].expires, now' \in Nat, now <= now',
             wake' = wake \/ wake' = Awake
      PROVE  ExpiresBound'
  BY <1>0, <1>d, SlotIndexFact DEF ExpiresBound, Awake
<1>e. ASSUME heap' = heap, now' = now, wake' = wake PROVE ExpiresBound'
  BY <1>0, <1>e DEF ExpiresBound
<1>f. ASSUME NEW t \in Clock, idx' \in Slots, now' = t, heap'[idx'].expires = t + Timeout,
             \A j \in Slots : j # idx' => heap'[j].expires = heap[j].expires,
             wake' = wake \/ wake' = Awake
      PROVE  ExpiresBound'
  <2>1. t \in Nat /\ now <= t
    BY <1>a
  <2>2. wake' <= now' + Timeout
    BY <1>0, <1>f, <2>1, SlotIndexFact DEF Awake
  <2>3. ASSUME NEW j \in Slots PROVE heap'[j].expires <= now' + Timeout
    <3>1. CASE j = idx'
      BY <1>f, <2>1, <3>1, SlotIndexFact
    <3>2. CASE j # idx'
      BY <1>0, <1>f, <2>1, <3>2, SlotIndexFact
    <3>3. QED
      BY <3>1, <3>2
  <2>4. QED
    BY <2>2, <2>3 DEF ExpiresBound
<1>1. ASSUME NEW fd \in Fds, NEW t \in Clock, AddTimerExisting(fd, t) PROVE ExpiresBound'
  <2>1. CASE map[fd] >= size
    BY <1>1, <1>e, <2>1 DEF AddTimerExisting, Undefined
  <2>2. CASE ~ (map[fd] >= size)
    <3>1. map[fd] < size
      BY <1>0, <1>1, <2>2, SlotIndexFact DEF AddTimerExisting, TypeOK
    <3>2. wake' = Awake
      BY <1>1, <2>2 DEF AddTimerExisting
    <3>3. QED
      BY <1>1, <1>f, <3>1, <3>2, ExtendFact
  <2>3. QED
    BY <2>1, <2>2
<1>2. ASSUME NEW fd \in Fds, NEW t \in Clock, AddTimerNew(fd, t) PROVE ExpiresBound'
  <2>1. size \in Slots /\ idx' = size /\ now' = t /\ wake' = Awake
    BY <1>0, <1>2, SlotIndexFact DEF AddTimerNew
  <2>2. /\ heap'[size].expires = t + Timeout
        /\ \A j \in Slots : j # size => heap'[j] = heap[j]
    BY <1>0, <1>2, <2>1 DEF AddTimerNew
  <2>3. QED
    BY <1>f, <2>1, <2>2
<1>3. ASSUME NEW fd \in Fds, NEW t \in Clock, AdjustTimer(fd, t) PROVE ExpiresBound'
  <2>1. wake' = wake
    BY <1>3 DEF AdjustTimer
  <2>2. QED
    BY <1>3, <1>f, <2>1, ExtendFact
<1>4. ASSUME NEW fd \in Fds, DoRightNow(fd) PROVE ExpiresBound'
  <2>1. CASE map[fd] >= size
    BY <1>4, <1>e, <2>1 DEF DoRightNow, Undefined
  <2>2. CASE ~ (map[fd] >= size)
    <3>1. map[fd] \in Live /\ DeleteNode(map[fd], "idle") /\ now' = now /\ wake' = Awake
      BY <1>0, <1>4, <2>2, SlotIndexFact DEF DoRightNow, Live, TypeOK
    <3>2. QED
      BY <1>0, <1>b, <3>1
  <2>3. QED
    BY <2>1, <2>2
<1>5. CASE Clear
  <2>1. \A j \in Slots : heap'[j].expires = heap[j].expires
    <3>1. ASSUME NEW j \in Slots
          PROVE  [heap[j] EXCEPT !.fd = NoFd, !.cb = NoFd].expires = heap[j].expires
      BY <1>0 DEF Node
    <3>2. QED
      BY <1>5, <3>1 DEF Clear
  <2>2. now' = now /\ wake' = Awake
    BY <1>5 DEF Clear
  <2>3. QED
    BY <1>0, <1>d, <2>1, <2>2
<1>6. CASE NextTickTime
  BY <1>0, <1>6, <1>d DEF NextTickTime
<1>7. ASSUME NEW t \in Clock, TickFire(t) PROVE ExpiresBound'
  <2>1. 0 \in Live /\ DeleteNode(0, "tick") /\ now' = t /\ wake' = Awake
    BY <1>0, <1>7 DEF TickFire, Live
  <2>2. QED
    BY <1>a, <1>b, <2>1
<1>8. ASSUME NEW t \in Clock, NEW u \in Clock, TickDone(t, u) PROVE ExpiresBound'
  <2>1. heap' = heap /\ now' = u /\ u \in Nat /\ now <= u
    BY <1>8, <1>a DEF TickDone
  <2>2. wake' = Forever \/ wake' = Awake \/ (size > 0 /\ wake' = heap[0].expires)
    <3>1. size > 0 => 0 \in Slots
      BY <1>0, SlotIndexFact
    <3>2. QED
      BY <1>0, <1>8, <2>1, <3>1 DEF TickDone, TickTime, Forever
  <2>3. wake' <= u + Timeout
    BY <1>0, <2>1, <2>2, SlotIndexFact DEF Forever, Awake
  <2>4. QED
    BY <1>0, <2>1, <2>3, SlotIndexFact DEF ExpiresBound
<1>9. CASE PercolateUpAtRoot
  BY <1>9, <1>e DEF PercolateUpAtRoot, Undefined
<1>10. CASE PercolateUpStop
  BY <1>10, <1>e DEF PercolateUpStop
<1>11. CASE PercolateUpSwap
  <2>1. CASE idx >= size
    BY <1>11, <1>e, <2>1 DEF PercolateUpSwap, Undefined
  <2>2. CASE ~ (idx >= size)
    <3>1. Parent(idx) \in Slots
      BY <1>0, <1>11, ParentFact, SlotIndexFact DEF PercolateUpSwap
    <3>2. QED
      BY <1>0, <1>11, <1>c, <2>2, <3>1 DEF PercolateUpSwap
  <2>3. QED
    BY <2>1, <2>2
<1>12. CASE PercolateDownStop
  BY <1>12, <1>e DEF PercolateDownStop
<1>13. CASE PercolateDownSwap
  <2>1. MinChild(idx) \in Slots
    BY <1>0, <1>13, MinChildFact, SlotIndexFact DEF PercolateDownSwap
  <2>2. QED
    BY <1>0, <1>13, <1>c, <2>1 DEF PercolateDownSwap
<1>14. CASE UNCHANGED vars
  BY <1>14, <1>e DEF vars
<1>15. QED
  BY <1>1, <1>2, <1>3, <1>4, <1>5, <1>6, <1>7, <1>8, <1>9, <1>10, <1>11, <1>12,
     <1>13, <1>14
  DEF Next, Rest, Extend, AddTimer, TickLoop, PercolateStep

(* The shape of the heap survives every step, those that extend another    *)
(* descriptor's node included.                                             *)
LEMMA ShapeStep ==
  TypeOK /\ OneTimerPerFd /\ ExpiresBound /\ HeapShape /\ [Next]_vars => HeapShape'
<1> SUFFICES ASSUME TypeOK, OneTimerPerFd, ExpiresBound, HeapShape, [Next]_vars
             PROVE  HeapShape'
  OBVIOUS
<1>0. /\ size \in 0 .. Capacity /\ heap \in [Slots -> Node]
      /\ now \in Nat /\ idx \in Slots
      /\ \A j \in Slots : heap[j].expires \in Nat /\ heap[j].expires <= now + Timeout
      /\ \A j \in 0 .. size - 1 : j \in Slots
  BY SlotIndexFact DEF TypeOK, Node, ExpiresBound
<1>a. \A t \in Clock : t \in Nat /\ now <= t
  BY <1>0 DEF Clock
<1>p. \A j \in 1 .. size - 1 : Parent(j) \in 0 .. size - 1 /\ Parent(j) < j
  BY <1>0, ParentFact
<1>b. ASSUME NEW i \in Live, NEW r, DeleteNode(i, r), \A j \in 1 .. size - 1 : Ordered(heap, j)
      PROVE  HeapShape'
  <2>1. /\ size' = size - 1 /\ size' \in 0 .. Capacity /\ heap' \in [Slots -> Node]
        /\ \A j \in 0 .. size' - 1 : heap'[j] = IF j = i THEN heap[size'] ELSE heap[j]
        /\ pc' = IF Check_up_or_down(heap', size', i) THEN "up" ELSE "down"
        /\ idx' = i /\ i \in Slots
    BY <1>b, DeletedFact
  <2>2. i \in 0 .. size - 1
    BY <1>b DEF Live
  <2>3. \A j \in 1 .. size' - 1 : j # i /\ Parent(j) # i => Ordered(heap', j)
    BY <1>0, <1>b, <1>p, <2>1 DEF Ordered
  <2>4. ASSUME i > 0, NEW j \in 1 .. size' - 1, Parent(j) = i
        PROVE  heap'[Parent(i)].expires <= heap'[j].expires
    <3>1. j \in 1 .. size - 1 /\ i < j /\ i \in 1 .. size - 1 /\ Parent(i) < i
      BY <1>0, <1>p, <2>1, <2>2, <2>4
    <3>2. heap'[j] = heap[j] /\ Parent(i) \in 0 .. size' - 1 /\ heap'[Parent(i)] = heap[Parent(i)]
      BY <1>p, <2>1, <2>4, <3>1
    <3>3. heap[Parent(i)].expires <= heap[i].expires /\ heap[i].expires <= heap[j].expires
      BY <1>b, <2>4, <3>1 DEF Ordered
    <3>4. Parent(i) \in Slots /\ i \in Slots /\ j \in Slots
      BY <1>0, <1>p, <3>1
    <3>5. QED
      BY <1>0, <3>2, <3>3, <3>4
  <2>5. ASSUME i < size' PROVE heap'[0].expires <= heap'[i].expires
    <3>1. \A j \in 0 .. size - 1 : heap[0].expires <= heap[j].expires
      <4>1. size \in Nat /\ \A j \in 0 .. size - 1 : heap[j].expires \in Int
        BY <1>0
      <4>2. \A j \in 1 .. size - 1 : heap[Parent(j)].expires <= heap[j].expires
        BY <1>b DEF Ordered
      <4>3. QED
        BY <4>1, <4>2, RootFact
    <3>2. heap'[i] = heap[size'] /\ size' \in 0 .. size - 1 /\ 0 \in 0 .. size' - 1
      BY <1>0, <2>1, <2>2, <2>5
    <3>3. heap'[0] = heap[0] \/ heap'[0] = heap[size']
      BY <2>1, <3>2
    <3>4. QED
      BY <1>0, <3>1, <3>2, <3>3
  <2>6. /\ Check_up_or_down(heap', size', i) =>
             \A j \in 1 .. size' - 1 : j # i => Ordered(heap', j)
        /\ ~ Check_up_or_down(heap', size', i) =>
             \A j \in 1 .. size' - 1 : Parent(j) # i => Ordered(heap', j)
    BY <2>1, <2>3, <2>4, RepairFact
  <2>7. QED
    BY <2>1, <2>4, <2>5, <2>6 DEF HeapShape, Bridged
<1>c. ASSUME NEW fd \in Fds, NEW t \in Clock,
             \/ AddTimerExisting(fd, t) /\ map[fd] < size
             \/ AdjustTimer(fd, t)
      PROVE  HeapShape'
  <2> DEFINE i == idx'
  <2>1. /\ i \in Slots /\ size' = size /\ heap' \in [Slots -> Node]
        /\ heap'[i].expires = t + Timeout
        /\ \A j \in Slots : j # i => heap'[j].expires = heap[j].expires
        /\ pc' = IF Check_up_or_down(heap', size', i) THEN "up" ELSE "down"
        /\ pc = "idle"
    BY <1>c, ExtendFact
  <2>2. \A j \in 1 .. size - 1 : Ordered(heap, j)
    BY <2>1 DEF HeapShape
  <2> HIDE DEF i
  <2>3. \A j \in 1 .. size - 1 : j # i /\ Parent(j) # i => Ordered(heap', j)
    BY <1>0, <1>p, <2>1, <2>2 DEF Ordered
  <2>4. ASSUME i > 0, NEW j \in 1 .. size - 1, Parent(j) = i
        PROVE  heap'[Parent(i)].expires <= heap'[j].expires
    <3>1. i \in Nat /\ i < j /\ i \in 1 .. size - 1 /\ Parent(i) < i
      BY <1>0, <1>p, <2>1, <2>4, SlotIndexFact
    <3>2. Parent(i) \in Slots /\ j \in Slots /\ Parent(i) # i /\ j # i
      BY <1>0, <1>p, <3>1
    <3>3. heap[Parent(i)].expires <= heap[i].expires /\ heap[i].expires <= heap[j].expires
      BY <2>2, <2>4, <3>1 DEF Ordered
    <3>4. /\ heap'[Parent(i)].expires = heap[Parent(i)].expires
          /\ heap'[j].expires = heap[j].expires
      BY <2>1, <3>2
    <3>5. /\ heap[Parent(i)].expires \in Nat /\ heap[i].expires \in Nat
          /\ heap[j].expires \in Nat
      BY <1>0, <2>1, <3>2
    <3>6. QED
      BY <3>3, <3>4, <3>5
  <2>5. ASSUME i < size PROVE heap'[0].expires <= heap'[i].expires
    <3>1. 0 \in Slots /\ t \in Nat /\ now <= t
      BY <1>a, TimerAssumption DEF Slots
    <3>2. QED
      BY <1>0, <2>1, <3>1, SlotIndexFact
  <2>6. /\ Check_up_or_down(heap', size, i) =>
             \A j \in 1 .. size - 1 : j # i => Ordered(heap', j)
        /\ ~ Check_up_or_down(heap', size, i) =>
             \A j \in 1 .. size - 1 : Parent(j) # i => Ordered(heap', j)
    BY <1>0, <2>1, <2>3, <2>4, RepairFact
  <2>7. QED
    BY <2>1, <2>4, <2>5, <2>6 DEF HeapShape, Bridged, i
<1>d. ASSUME heap' = heap, size' = size, pc' = pc, idx' = idx PROVE HeapShape'
  BY <1>d DEF HeapShape, Bridged, Ordered
<1>e. ASSUME heap' = heap, size' = size, pc' \in {"idle", "tick"},
             \A j \in 1 .. size - 1 : Ordered(heap, j)
      PROVE  HeapShape'
  BY <1>e DEF HeapShape
<1>1. ASSUME NEW fd \in Fds, NEW t \in Clock, AddTimerExisting(fd, t) PROVE HeapShape'
  <2>1. CASE map[fd] >= size
    BY <1>1, <1>d, <2>1 DEF AddTimerExisting, Undefined
  <2>2. CASE ~ (map[fd] >= size)
    <3>1. map[fd] < size
      BY <1>0, <1>1, <2>2, SlotIndexFact DEF AddTimerExisting, TypeOK
    <3>2. QED
      BY <1>1, <1>c, <3>1
  <2>3. QED
    BY <2>1, <2>2
<1>2. ASSUME NEW fd \in Fds, NEW t \in Clock, AddTimerNew(fd, t) PROVE HeapShape'
  <2>1. /\ size \in Slots /\ idx' = size /\ size' = size + 1
        /\ pc = "idle" /\ pc' = "up"
    BY <1>0, <1>2, SlotIndexFact DEF AddTimerNew, Idle
  <2>2. /\ heap'[size].expires = t + Timeout
        /\ \A j \in Slots : j # size => heap'[j] = heap[j]
    BY <1>0, <1>2, <2>1 DEF AddTimerNew
  <2>3. \A j \in 1 .. size' - 1 : j # size => Ordered(heap', j)
    <3>1. \A j \in 1 .. size - 1 : Ordered(heap, j)
      BY <2>1 DEF HeapShape
    <3>2. QED
      BY <1>0, <1>p, <2>1, <2>2, <3>1 DEF Ordered
  <2>4. heap'[0].expires <= heap'[size].expires
    <3>1. 0 \in Slots /\ t \in Nat /\ now <= t
      BY <1>a, TimerAssumption DEF Slots
    <3>2. QED
      BY <1>0, <2>2, <3>1, SlotIndexFact
  <2>5. \A j \in 1 .. size' - 1 : Parent(j) # size
    BY <1>0, <2>1, ParentFact
  <2>6. QED
    BY <2>1, <2>3, <2>4, <2>5 DEF HeapShape, Bridged
<1>3. ASSUME NEW fd \in Fds, NEW t \in Clock, AdjustTimer(fd, t) PROVE HeapShape'
  BY <1>3, <1>c
<1>4. ASSUME NEW fd \in Fds, DoRightNow(fd) PROVE HeapShape'
  <2>1. CASE map[fd] >= size
    BY <1>4, <1>d, <2>1 DEF DoRightNow, Undefined
  <2>2. CASE ~ (map[fd] >= size)
    <3>1. map[fd] \in Live /\ DeleteNode(map[fd], "idle") /\ pc = "idle"
      BY <1>0, <1>4, <2>2, SlotIndexFact DEF DoRightNow, Live, TypeOK, Idle
    <3>2. \A j \in 1 .. size - 1 : Ordered(heap, j)
      BY <3>1 DEF HeapShape
    <3>3. QED
      BY <1>b, <3>1, <3>2
  <2>3. QED
    BY <2>1, <2>2
<1>5. CASE Clear
  <2>1. size' = 0 /\ pc' = "idle"
    BY <1>5 DEF Clear, Idle
  <2>2. QED
    BY <2>1 DEF HeapShape
<1>6. CASE NextTickTime
  BY <1>6, <1>e DEF NextTickTime, Idle, HeapShape
<1>7. ASSUME NEW t \in Clock, TickFire(t) PROVE HeapShape'
  <2>1. 0 \in Live /\ DeleteNode(0, "tick") /\ pc = "tick"
    BY <1>0, <1>7 DEF TickFire, Live
  <2>2. \A j \in 1 .. size - 1 : Ordered(heap, j)
    BY <2>1 DEF HeapShape
  <2>3. QED
    BY <1>b, <2>1, <2>2
<1>8. ASSUME NEW t \in Clock, NEW u \in Clock, TickDone(t, u) PROVE HeapShape'
  BY <1>8, <1>e DEF TickDone, HeapShape
<1>r. pc \in {"up", "down"} => ret \in {"idle", "tick"}
  BY DEF TypeOK
<1>9. CASE PercolateUpAtRoot
  <2>1. CASE Undefined
    BY <1>d, <2>1 DEF Undefined
  <2>2. CASE ~ Undefined
    <3>1. /\ pc = "up" /\ idx = 0 /\ heap' = heap /\ size' = size
          /\ pc' \in {"idle", "tick"}
      BY <1>9, <1>r, <2>2 DEF PercolateUpAtRoot, Return
    <3>2. QED
      BY <1>e, <3>1 DEF HeapShape
  <2>3. QED
    BY <2>1, <2>2
<1>10. CASE PercolateUpStop
  <2>1. /\ pc = "up" /\ idx > 0 /\ heap' = heap /\ size' = size
        /\ pc' \in {"idle", "tick"}
        /\ Parent(idx) = 0 \/ heap[Parent(idx)].expires < heap[idx].expires
    BY <1>10, <1>r DEF PercolateUpStop, Return
  <2>2. ASSUME NEW j \in 1 .. size - 1 PROVE Ordered(heap, j)
    <3>1. CASE j # idx
      BY <2>1, <3>1 DEF HeapShape
    <3>2. CASE j = idx
      <4>1. heap[0].expires <= heap[idx].expires
        BY <1>0, <2>1, <3>2 DEF HeapShape
      <4>2. heap[Parent(idx)].expires \in Nat /\ heap[idx].expires \in Nat
        BY <1>0, <1>p, <3>2
      <4>3. QED
        BY <2>1, <3>2, <4>1, <4>2 DEF Ordered
    <3>3. QED
      BY <3>1, <3>2
  <2>3. QED
    BY <1>e, <2>1, <2>2
<1>11. CASE PercolateUpSwap
  <2>1. CASE idx >= size
    BY <1>11, <1>d, <2>1 DEF PercolateUpSwap, Undefined
  <2>2. CASE ~ (idx >= size)
    <3> DEFINE q == Parent(idx)
    <3>1. /\ idx \in 1 .. size - 1 /\ q \in 1 .. size - 1 /\ q < idx
          /\ q \in Slots
      BY <1>0, <1>11, <1>p, <2>2, SlotIndexFact, ParentFact DEF PercolateUpSwap
    <3>2. /\ pc = "up" /\ pc' = "up" /\ size' = size /\ idx' = q
          /\ heap' = Swapped(heap, q, idx)
          /\ heap[q].expires >= heap[idx].expires
      BY <1>11, <2>2 DEF PercolateUpSwap
    <3>3. /\ heap'[q] = heap[idx] /\ heap'[idx] = heap[q]
          /\ \A j \in Slots : j # q /\ j # idx => heap'[j] = heap[j]
      BY <1>0, <3>1, <3>2, SwappedFact
    <3>4. /\ \A j \in 1 .. size - 1 : j # idx => Ordered(heap, j)
          /\ heap[0].expires <= heap[idx].expires
          /\ \A j \in 1 .. size - 1 : Parent(j) = idx => heap[q].expires <= heap[j].expires
      BY <1>0, <3>1, <3>2, SlotIndexFact DEF HeapShape, Bridged
    <3>5. Parent(idx) = q /\ heap[q].expires \in Nat /\ heap[idx].expires \in Nat
      BY <1>0, <3>1
    <3> HIDE DEF q
    <3>6. ASSUME NEW j \in 1 .. size - 1, j # q PROVE Ordered(heap', j)
      <4>1. j \in Slots /\ Parent(j) \in Slots /\ Parent(j) # j
        BY <1>0, <1>p, <3>6
      <4>2. CASE j = idx
        BY <3>2, <3>3, <3>5, <4>2 DEF Ordered
      <4>3. CASE j # idx /\ Parent(j) = q
        <5>1. heap[q].expires <= heap[j].expires
          BY <3>4, <3>6, <4>3 DEF Ordered
        <5>2. QED
          BY <1>0, <3>2, <3>3, <3>5, <3>6, <4>1, <4>3, <5>1 DEF Ordered
      <4>4. CASE j # idx /\ Parent(j) = idx
        BY <3>3, <3>4, <3>6, <4>1, <4>4 DEF Ordered
      <4>5. CASE j # idx /\ Parent(j) # idx /\ Parent(j) # q
        BY <3>3, <3>4, <3>6, <4>1, <4>5 DEF Ordered
      <4>6. QED
        BY <4>2, <4>3, <4>4, <4>5
    <3>7. heap'[0].expires <= heap'[q].expires
      <4>1. 0 \in Slots /\ 0 # q /\ 0 # idx
        BY <1>0, <3>1
      <4>2. QED
        BY <3>3, <3>4, <4>1
    <3>8. ASSUME NEW j \in 1 .. size - 1, Parent(j) = q
          PROVE  heap'[Parent(q)].expires <= heap'[j].expires
      <4>1. /\ Parent(q) \in Slots /\ Parent(q) # q /\ Parent(q) # idx
            /\ j \in Slots /\ j # q
        BY <1>0, <1>p, <3>1, <3>8
      <4>2. heap[Parent(q)].expires <= heap[q].expires
        BY <3>1, <3>4 DEF Ordered
      <4>3. CASE j = idx
        BY <3>3, <4>1, <4>2, <4>3
      <4>4. CASE j # idx
        <5>1. heap[q].expires <= heap[j].expires
          BY <3>4, <3>8, <4>4 DEF Ordered
        <5>2. QED
          <6>1. heap'[Parent(q)] = heap[Parent(q)] /\ heap'[j] = heap[j]
            BY <3>3, <4>1, <4>4
          <6>2. heap[Parent(q)].expires \in Nat /\ heap[j].expires \in Nat
            BY <1>0, <4>1
          <6>3. QED
            BY <3>5, <4>2, <5>1, <6>1, <6>2
      <4>5. QED
        BY <4>3, <4>4
    <3>9. QED
      BY <3>2, <3>6, <3>7, <3>8 DEF HeapShape, Bridged
  <2>3. QED
    BY <2>1, <2>2
<1>12. CASE PercolateDownStop
  <2>1. /\ pc = "down" /\ heap' = heap /\ size' = size /\ pc' \in {"idle", "tick"}
    BY <1>12, <1>r DEF PercolateDownStop, Return
  <2>2. ASSUME NEW j \in 1 .. size - 1 PROVE Ordered(heap, j)
    <3>1. CASE Parent(j) # idx
      BY <2>1, <3>1 DEF HeapShape
    <3>2. CASE Parent(j) = idx
      <4>1. j \in {2 * idx + 1, 2 * idx + 2} /\ idx \in Nat /\ 2 * idx + 1 < size
        BY <1>0, <2>2, <3>2, ParentFact, SlotIndexFact
      <4>2. /\ heap[MinChild(idx)].expires > heap[idx].expires
            /\ ~ (2 * idx + 1 >= size)
        BY <1>0, <1>12, <4>1 DEF PercolateDownStop
      <4>3. /\ MinChild(idx) \in 1 .. size - 1
            /\ heap[MinChild(idx)].expires <= heap[j].expires
        BY <3>2, <4>1, MinChildFact
      <4>4. QED
        BY <1>0, <3>2, <4>2, <4>3 DEF Ordered
    <3>3. QED
      BY <3>1, <3>2
  <2>3. QED
    BY <1>e, <2>1, <2>2
<1>13. CASE PercolateDownSwap
  <2> DEFINE m == MinChild(idx)
  <2>1. /\ m \in 1 .. size - 1 /\ Parent(m) = idx /\ idx < m /\ m \in Slots
        /\ \A j \in 1 .. size - 1 : Parent(j) = idx => heap[m].expires <= heap[j].expires
    BY <1>0, <1>13, MinChildFact DEF PercolateDownSwap
  <2>2. /\ pc = "down" /\ pc' = "down" /\ size' = size /\ idx' = m
        /\ heap' = Swapped(heap, m, idx)
        /\ heap[m].expires <= heap[idx].expires
    BY <1>13 DEF PercolateDownSwap
  <2> HIDE DEF m
  <2>3. /\ heap'[m] = heap[idx] /\ heap'[idx] = heap[m]
        /\ \A j \in Slots : j # m /\ j # idx => heap'[j] = heap[j]
    BY <1>0, <2>1, <2>2, SwappedFact
  <2>4. /\ \A j \in 1 .. size - 1 : Parent(j) # idx => Ordered(heap, j)
        /\ idx > 0 => \A j \in 1 .. size - 1 :
                        Parent(j) = idx => heap[Parent(idx)].expires <= heap[j].expires
    BY <2>2 DEF HeapShape, Bridged
  <2>5. ASSUME NEW j \in 1 .. size - 1, Parent(j) # m PROVE Ordered(heap', j)
    <3>1. j \in Slots /\ Parent(j) \in Slots /\ Parent(j) # j
      BY <1>0, <1>p, <2>5
    <3>2. CASE j = m
      BY <2>1, <2>2, <2>3, <3>2 DEF Ordered
    <3>3. CASE j # m /\ Parent(j) = idx
      BY <2>1, <2>3, <2>5, <3>1, <3>3 DEF Ordered
    <3>4. CASE j = idx
      <4>1. idx > 0 /\ Parent(idx) # m /\ Parent(idx) # idx
        BY <2>5, <3>1, <3>4
      <4>2. heap[Parent(idx)].expires <= heap[m].expires
        BY <2>1, <2>4, <4>1
      <4>3. QED
        BY <2>3, <3>1, <3>4, <4>1, <4>2 DEF Ordered
    <3>5. CASE j # m /\ j # idx /\ Parent(j) # idx
      BY <2>3, <2>4, <2>5, <3>1, <3>5 DEF Ordered
    <3>6. QED
      BY <3>2, <3>3, <3>4, <3>5
  <2>6. ASSUME NEW j \in 1 .. size - 1, Parent(j) = m
        PROVE  heap'[Parent(m)].expires <= heap'[j].expires
    <3>1. idx \in Nat /\ m < j /\ j \in Slots
      BY <1>0, <1>p, <2>6, SlotIndexFact
    <3>2. j # idx /\ j # m /\ m # idx
      BY <2>1, <3>1
    <3>3. heap[m].expires <= heap[j].expires
      BY <2>4, <2>6, <3>2 DEF Ordered
    <3>4. QED
      BY <2>1, <2>3, <3>1, <3>2, <3>3
  <2>7. QED
    BY <2>2, <2>5, <2>6 DEF HeapShape, Bridged
<1>14. CASE UNCHANGED vars
  BY <1>14, <1>d DEF vars
<1>15. QED
  BY <1>1, <1>2, <1>3, <1>4, <1>5, <1>6, <1>7, <1>8, <1>9, <1>10, <1>11, <1>12,
     <1>13, <1>14
  DEF Next, Rest, Extend, AddTimer, TickLoop, PercolateStep

(* The reactor's sleep stays within every node's expiry.                   *)
LEMMA SleepStep ==
  /\ TypeOK /\ OneTimerPerFd /\ ExpiresBound /\ HeapShape /\ NeverOversleeps
  /\ [Next]_vars
  => NeverOversleeps'
<1> SUFFICES ASSUME TypeOK, OneTimerPerFd, ExpiresBound, HeapShape, NeverOversleeps,
                    [Next]_vars
             PROVE  NeverOversleeps'
  OBVIOUS
<1>0. /\ size \in 0 .. Capacity /\ heap \in [Slots -> Node]
      /\ now \in Nat /\ idx \in Slots /\ wake \in Nat \cup {Awake, Forever}
      /\ \A j \in Slots : heap[j].expires \in Nat
      /\ wake <= now + Timeout
      /\ Live \subseteq Slots
  BY SlotIndexFact DEF TypeOK, Node, ExpiresBound, Live
<1>a. \A t \in Clock : t \in Nat /\ now <= t
  BY <1>0 DEF Clock
<1>b. ASSUME wake' = Awake PROVE NeverOversleeps'
  BY <1>b DEF NeverOversleeps, Awake, Forever
<1>c. ASSUME wake' = wake, size' = size,
             \A j \in Live : heap'[j].expires = heap[j].expires
      PROVE  NeverOversleeps'
  BY <1>c DEF NeverOversleeps, Live
<1>d. ASSUME wake' = wake, size' = size, NEW a \in Live, NEW b \in Live,
             heap' = Swapped(heap, a, b)
      PROVE  NeverOversleeps'
  <2>1. /\ heap'[a] = heap[b] /\ heap'[b] = heap[a]
        /\ \A j \in Slots : j # a /\ j # b => heap'[j] = heap[j]
    BY <1>0, <1>d, SwappedFact
  <2>2. Live' = Live
    BY <1>d DEF Live
  <2>3. QED
    BY <1>0, <1>d, <2>1, <2>2 DEF NeverOversleeps
<1>1. ASSUME NEW fd \in Fds, NEW t \in Clock, AddTimer(fd, t) PROVE NeverOversleeps'
  BY <1>1, <1>b, <1>c DEF AddTimer, AddTimerExisting, AddTimerNew, Undefined
<1>2. ASSUME NEW fd \in Fds, NEW t \in Clock, AdjustTimer(fd, t) PROVE NeverOversleeps'
  <2>1. wake' = wake
    BY <1>2 DEF AdjustTimer
  <2>2. /\ size' = size /\ idx' \in Slots
        /\ heap'[idx'].expires = t + Timeout
        /\ \A j \in Slots : j # idx' => heap'[j].expires = heap[j].expires
    BY <1>2, ExtendFact
  <2>3. Live' = Live /\ t \in Nat /\ now <= t
    BY <1>a, <2>2 DEF Live
  <2>4. ASSUME wake >= 0, NEW j \in Live PROVE wake <= heap'[j].expires
    <3>1. CASE j = idx'
      BY <1>0, <2>2, <2>3, <3>1, SlotIndexFact DEF Awake, Forever
    <3>2. CASE j # idx'
      BY <1>0, <2>2, <2>4, <3>2 DEF NeverOversleeps
    <3>3. QED
      BY <3>1, <3>2
  <2>5. QED
    BY <2>1, <2>2, <2>3, <2>4 DEF NeverOversleeps
<1>3. ASSUME NEW fd \in Fds, DoRightNow(fd) PROVE NeverOversleeps'
  BY <1>3, <1>b, <1>c DEF DoRightNow, Undefined
<1>4. CASE Clear \/ NextTickTime
  BY <1>4, <1>b DEF Clear, NextTickTime
<1>5. ASSUME NEW t \in Clock, TickFire(t) PROVE NeverOversleeps'
  BY <1>5, <1>b DEF TickFire
<1>6. ASSUME NEW t \in Clock, NEW u \in Clock, TickDone(t, u) PROVE NeverOversleeps'
  <2>1. heap' = heap /\ size' = size /\ pc = "tick" /\ u \in Nat /\ Live' = Live
    BY <1>6, <1>a DEF TickDone, Live
  <2>2. \A j \in Live : heap[0].expires <= heap[j].expires
    <3>1. \A j \in 1 .. size - 1 : heap[Parent(j)].expires <= heap[j].expires
      BY <2>1 DEF HeapShape, Ordered
    <3>2. size \in Nat /\ \A j \in 0 .. size - 1 : heap[j].expires \in Int
      BY <1>0 DEF Live
    <3>3. QED
      BY <3>1, <3>2, RootFact DEF Live
  <2>3. CASE size = 0
    BY <1>6, <2>1, <2>3 DEF TickDone, TickTime, NeverOversleeps, Forever
  <2>4. CASE size # 0
    <3>1. wake' = Awake \/ (wake' = heap[0].expires /\ wake' \in Nat)
      <4>1. size > 0 /\ heap[0].expires \in Nat
        BY <1>0, <2>4 DEF Live
      <4>2. QED
        BY <1>6, <2>1, <2>4, <4>1 DEF TickDone, TickTime, Forever
    <3>2. QED
      BY <1>b, <2>1, <2>2, <3>1 DEF NeverOversleeps, Forever
  <2>5. QED
    BY <2>3, <2>4
<1>7. CASE PercolateUpAtRoot \/ PercolateUpStop \/ PercolateDownStop
  BY <1>7, <1>c DEF PercolateUpAtRoot, PercolateUpStop, PercolateDownStop, Undefined
<1>8. CASE PercolateUpSwap
  <2>1. CASE idx >= size
    BY <1>8, <1>c, <2>1 DEF PercolateUpSwap, Undefined
  <2>2. CASE ~ (idx >= size)
    <3>1. Parent(idx) \in Live /\ idx \in Live
      <4>1. idx \in Nat /\ idx > 0
        BY <1>0, <1>8, SlotIndexFact DEF PercolateUpSwap
      <4>2. QED
        BY <1>0, <2>2, <4>1, ParentFact DEF Live
    <3>2. QED
      BY <1>8, <1>d, <2>2, <3>1 DEF PercolateUpSwap
  <2>3. QED
    BY <2>1, <2>2
<1>9. CASE PercolateDownSwap
  <2>1. MinChild(idx) \in Live /\ idx \in Live
    BY <1>0, <1>9, MinChildFact, SlotIndexFact DEF PercolateDownSwap, Live
  <2>2. QED
    BY <1>9, <1>d, <2>1 DEF PercolateDownSwap
<1>10. CASE UNCHANGED vars
  BY <1>10, <1>c DEF vars
<1>11. QED
  BY <1>1, <1>2, <1>3, <1>4, <1>5, <1>6, <1>7, <1>8, <1>9, <1>10
  DEF Next, Rest, Extend, TickLoop, PercolateStep

----------------------------------------------------------------------------
(* The timer is constructed in a state that satisfies IInv.                *)
LEMMA IInvInit == Init => IInv
<1> SUFFICES ASSUME Init PROVE IInv
  OBVIOUS
<1>1. 0 \in Slots /\ 0 \in 0 .. Capacity /\ \A i : i \notin Live
  BY TimerAssumption DEF Init, Slots, Live
<1>2. heap \in [Slots -> Node] /\ \A i \in Slots : heap[i].expires = 0
  BY DEF Init, Node
<1>3. TypeOK
  BY <1>1, <1>2 DEF Init, TypeOK
<1>4. OneTimerPerFd /\ HeapShape /\ NeverOversleeps
  BY <1>1 DEF Init, OneTimerPerFd, HeapShape, NeverOversleeps, Awake, Forever
<1>5. ExpiresBound
  BY <1>2, SlotIndexFact DEF Init, ExpiresBound, Awake
<1>6. QED
  BY <1>3, <1>4, <1>5 DEF IInv

(* Every step of the timer preserves IInv, action by action.               *)
LEMMA IInvStep == IInv /\ [Next]_vars => IInv'
  BY TypeStep, OneTimerStep, BoundStep, ShapeStep, SleepStep DEF IInv

(* AddTimer, AdjustTimer, Tick and the steps of their percolations keep    *)
(* IInv.                                                                   *)
THEOREM Invariance == Spec => []IInv
  BY IInvInit, IInvStep, PTL DEF Spec

(* The timer never leaves its types: whatever map entry goes stale, no     *)
(* write goes outside the reserved slots.                                  *)
THEOREM TypeCorrect == Spec => []TypeOK
  BY Invariance, PTL DEF IInv

(* A descriptor never has two nodes in the heap.                           *)
THEOREM OneTimer == Spec => []OneTimerPerFd
  BY Invariance, PTL DEF IInv

(* The heap is a min-heap whenever no percolation runs, although           *)
(* PercolateUp ignores the root and repairs may start at a wrong node.     *)
THEOREM HeapOrdered == Spec => []MinHeap
<1>1. IInv => MinHeap
  BY DEF IInv, HeapShape, Ordered, MinHeap
<1>2. QED
  BY <1>1, Invariance, PTL

(* epoll_wait is never told to sleep past an expiry.                       *)
THEOREM SleepBounded == Spec => []NeverOversleeps
  BY Invariance, PTL DEF IInv

(* Only the end of Tick's loop takes the timer from "tick" to rest, and it *)
(* finds the earliest node, which the order puts in front, still to come.  *)
LEMMA ServedStep ==
  ASSUME IInv, Next, pc = "tick", pc' = "idle"
  PROVE  \A i \in Live : heap[i].expires > now
<1>0. /\ size \in Nat /\ now \in Nat
      /\ \A j \in 0 .. size - 1 : heap[j].expires \in Nat
      /\ \A j \in 1 .. size - 1 : heap[Parent(j)].expires <= heap[j].expires
  <2>1. size \in 0 .. Capacity /\ heap \in [Slots -> Node] /\ now \in Nat
    BY DEF IInv, TypeOK
  <2>2. \A j \in 0 .. size - 1 : j \in Slots
    BY <2>1, TimerAssumption DEF Slots
  <2>3. QED
    BY <2>1, <2>2, TimerAssumption DEF IInv, HeapShape, Ordered, Node
<1>1. PICK t \in Clock, u \in Clock : TickDone(t, u)
  BY DEF Next, Rest, Extend, AddTimer, AddTimerExisting, AddTimerNew, AdjustTimer, Idle,
         DoRightNow, Clear, NextTickTime, TickLoop, TickFire, DeleteNode, Percolate,
         PercolateStep, PercolateUpAtRoot, PercolateUpStop, PercolateUpSwap,
         PercolateDownStop, PercolateDownSwap
<1>2. t \in Nat /\ now <= t
  BY <1>0 DEF Clock
<1>3. CASE size = 0
  BY <1>3 DEF Live
<1>4. CASE heap[0].expires - t > 0
  <2>1. \A j \in 0 .. size - 1 : heap[0].expires <= heap[j].expires
    BY <1>0, RootFact
  <2>2. QED
    BY <1>0, <1>2, <1>4, <2>1 DEF Live
<1>5. QED
  BY <1>1, <1>3, <1>4 DEF TickDone

(* Whenever Tick returns, every timer that had expired has been served.    *)
THEOREM AllExpiredServed == Spec => TickServesAllExpired
<1>1. IInv /\ [Next]_vars
      => [pc = "tick" /\ pc' = "idle" => \A i \in Live : heap[i].expires > now]_vars
  BY ServedStep
<1>2. QED
  BY <1>1, Invariance, PTL DEF Spec, TickServesAllExpired

=============================================================================
