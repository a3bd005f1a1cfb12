----------------------------- MODULE HeapTimer -----------------------------
(***************************************************************************)
(* HeapTimer (Sources/timer/heap_timer.{h,cpp}): the min-heap of           *)
(* connection timeouts that the reactor thread ticks before every          *)
(* epoll_wait.                                                             *)
(*                                                                         *)
(* heap_ is modelled as the memory it is: the slots the constructor        *)
(* reserves, of which the first `size' hold nodes.  A slot at or past      *)
(* `size' keeps the expiry of the node destroyed there, and the code does  *)
(* reach such slots, because fd_heap_map_ goes stale.  A node's callback   *)
(* is the descriptor whose connection it closes                            *)
(* (std::bind(&HttpServer::CloseConn, this, std::ref(users_[fd]))).        *)
(*                                                                         *)
(* The reactor thread sleeps in epoll_wait for as long as NextTickTime     *)
(* told it; AdjustTimer is the one operation that other threads run while  *)
(* it sleeps (HttpServer::ExtentTime).                                     *)
(*                                                                         *)
(* Percolation is one action per iteration of its loop, so that the shape  *)
(* of the heap in the middle of a repair can be stated and proved; `ret'   *)
(* is where the code continues when the loop ends.                         *)
(***************************************************************************)
EXTENDS Integers

CONSTANTS
  Fds,       \* client descriptors
  NoFd,      \* the descriptor field of a slot that never held a node
  Timeout,   \* HttpServer::timeout_, the one timeout the server passes
  Capacity,  \* slots reserved by the constructor; the heap is not grown further
  MaxTime    \* bound on the clock

ASSUME TimerAssumption ==
  /\ NoFd \notin Fds
  /\ Timeout \in Nat \ {0}
  /\ Capacity \in Nat \ {0}
  /\ MaxTime \in Nat

VARIABLES
  heap,      \* heap_, by slot
  size,      \* heap_.size()
  map,       \* fd_heap_map_; NoIndex where the key is absent
  now,       \* the last value Clock::now() returned
  pc,        \* "idle", "up" (PercolateUp), "down" (PercolateDown), "tick" (Tick)
  idx,       \* `index' of the running percolation
  ret,       \* where the running percolation returns to
  wake,      \* until when the reactor sleeps in epoll_wait, or Awake, or Forever
  ub         \* the program ran into undefined behaviour it does not survive

vars == <<heap, size, map, now, pc, idx, ret, wake, ub>>

NoIndex == -1
Forever == -1
Awake == -2
Slots == 0 .. Capacity - 1
Live == 0 .. size - 1

(* struct TimerNode, ordered by `expires' alone. *)
Node == [fd : Fds \cup {NoFd}, expires : Nat, cb : Fds \cup {NoFd}]

Parent(i) == (i - 1) \div 2

(* Clock::now() never runs backwards, and may return the same instant      *)
(* twice.                                                                  *)
Clock == now .. MaxTime

(***************************************************************************)
(* Helpers                                                                 *)
(***************************************************************************)

(* Faulty: the right child is forgotten.                                   *)
Check_up_or_down_LeftOnly(h, n, i) ==
  ~ (2 * i + 1 < n /\ h[i].expires > h[2 * i + 1].expires)

(* TRUE when no child is earlier, so that the code percolates up.          *)
Check_up_or_down(h, n, i) ==
  ~ \E c \in {2 * i + 1, 2 * i + 2} : c < n /\ h[i].expires > h[c].expires

Percolate(h, n, i, r) ==
  /\ pc' = IF Check_up_or_down(h, n, i) THEN "up" ELSE "down"
  /\ idx' = i
  /\ ret' = r

(* The node at i gets the expiry of a timer set at time t.                 *)
Extended(h, i, t) == [h EXCEPT ![i].expires = t + Timeout]

(* The node at i is destroyed.  Of its bytes only the expiry is ever read  *)
(* again.                                                                  *)
Destroyed(h, i) == [h EXCEPT ![i].fd = NoFd, ![i].cb = NoFd]

Swapped(h, a, b) == [h EXCEPT ![a] = h[b], ![b] = h[a]]

(* fd_heap_map_ after SwapNode(a, b): once the nodes are exchanged, the    *)
(* node now at a is recorded at b and the node now at b at a.              *)
SwapNodeMap(h, a, b) ==
  LET h2 == Swapped(h, a, b)
  IN  [map EXCEPT ![h2[a].fd] = b, ![h2[b].fd] = a]

(* DeleteNode(i): exchange with the last node, drop that one, repair from  *)
(* i.                                                                      *)
DeleteNode(i, r) ==
  LET last == size - 1
      h2 == Swapped(heap, i, last)
  IN  /\ heap' = Destroyed(h2, last)
      /\ map' = [SwapNodeMap(heap, i, last) EXCEPT ![h2[last].fd] = NoIndex]
      /\ size' = last
      /\ Percolate(h2, last, i, r)

(* Undefined behaviour: nothing the program does afterwards is described.  *)
Undefined ==
  /\ ub' = TRUE
  /\ UNCHANGED <<heap, size, map, now, pc, idx, ret, wake>>

Return == pc' = ret /\ UNCHANGED <<idx, ret>>

Idle == pc = "idle" /\ ~ub

(***************************************************************************)
(* Operations                                                              *)
(***************************************************************************)

(* A known descriptor: the node its map entry points at gets the new       *)
(* expiry and callback.  If the entry points past the end, the assignment  *)
(* to the destroyed std::function frees its target a second time.          *)
AddTimerExisting(fd, t) ==
  LET i == map[fd]
      h2 == [Extended(heap, i, t) EXCEPT ![i].cb = fd]
  IN  /\ Idle
      /\ i # NoIndex
      /\ IF i >= size
         THEN Undefined
         ELSE /\ heap' = h2
              /\ now' = t
              /\ wake' = Awake
              /\ Percolate(h2, size, i, "idle")
              /\ UNCHANGED <<size, map, ub>>

(* Faulty: the index is taken after the push.                              *)
AddTimerNew_IndexAfterPush(fd, t) ==
  /\ Idle
  /\ map[fd] = NoIndex
  /\ size < Capacity
  /\ heap' = [heap EXCEPT ![size] = [fd |-> fd, expires |-> t + Timeout, cb |-> fd]]
  /\ map' = [map EXCEPT ![fd] = size + 1]
  /\ size' = size + 1
  /\ now' = t
  /\ wake' = Awake
  /\ pc' = "up" /\ idx' = size /\ ret' = "idle"
  /\ UNCHANGED ub

(* Faulty: a node is pushed whether or not the descriptor is known.        *)
AddTimerNew_NoLookup(fd, t) ==
  /\ Idle
  /\ size < Capacity
  /\ heap' = [heap EXCEPT ![size] = [fd |-> fd, expires |-> t + Timeout, cb |-> fd]]
  /\ map' = [map EXCEPT ![fd] = size]
  /\ size' = size + 1
  /\ now' = t
  /\ wake' = Awake
  /\ pc' = "up" /\ idx' = size /\ ret' = "idle"
  /\ UNCHANGED ub

(* An unknown one: push a node and percolate it up.                        *)
AddTimerNew(fd, t) ==
  /\ Idle
  /\ map[fd] = NoIndex
  /\ size < Capacity
  /\ heap' = [heap EXCEPT ![size] = [fd |-> fd, expires |-> t + Timeout, cb |-> fd]]
  /\ map' = [map EXCEPT ![fd] = size]
  /\ size' = size + 1
  /\ now' = t
  /\ wake' = Awake
  /\ pc' = "up" /\ idx' = size /\ ret' = "idle"
  /\ UNCHANGED ub

AddTimer(fd, t) == AddTimerExisting(fd, t) \/ AddTimerNew(fd, t)

(* fd_heap_map_[fd] creates the entry, as 0, when there is none, and the   *)
(* slot it names is written whether or not it holds a node.                *)
AdjustTimer(fd, t) ==
  LET i == IF map[fd] = NoIndex THEN 0 ELSE map[fd]
      h2 == Extended(heap, i, t)
  IN  /\ Idle
      /\ heap' = h2
      /\ map' = [map EXCEPT ![fd] = i]
      /\ now' = t
      /\ Percolate(h2, size, i, "idle")
      /\ UNCHANGED <<size, wake, ub>>

(* Run the callback of fd's node and delete the node.                      *)
DoRightNow(fd) ==
  /\ Idle
  /\ map[fd] # NoIndex
  /\ IF map[fd] >= size
     THEN Undefined
     ELSE /\ DeleteNode(map[fd], "idle")
          /\ wake' = Awake
          /\ UNCHANGED <<now, ub>>

Clear ==
  /\ Idle
  /\ size' = 0
  /\ map' = [fd \in Fds |-> NoIndex]
  /\ heap' = [i \in Slots |-> [heap[i] EXCEPT !.fd = NoFd, !.cb = NoFd]]
  /\ wake' = Awake
  /\ UNCHANGED <<now, pc, idx, ret, ub>>

(* NextTickTime calls Tick first.                                          *)
NextTickTime ==
  /\ Idle
  /\ pc' = "tick"
  /\ wake' = Awake
  /\ UNCHANGED <<heap, size, map, now, idx, ret, ub>>

(* One iteration of Tick's loop: the front node has expired, its callback  *)
(* closes a connection, and the node goes.                                 *)
TickFire(t) ==
  /\ pc = "tick" /\ ~ub
  /\ size > 0
  /\ heap[0].expires - t <= 0
  /\ now' = t
  /\ DeleteNode(0, "tick")
  /\ wake' = Awake
  /\ UNCHANGED ub

(* Faulty: the last node is taken for the earliest.                        *)
TickTime_Back(u) ==
  IF size = 0 THEN Forever
  ELSE IF heap[size - 1].expires - u > 0 THEN heap[size - 1].expires - u ELSE 0

(* What NextTickTime returns at clock reading u; -1 is epoll's "no limit". *)
TickTime(u) ==
  IF size = 0 THEN Forever
  ELSE IF heap[0].expires - u > 0 THEN heap[0].expires - u ELSE 0

(* Faulty: Tick may return although the front node has expired.            *)
TickDone_Early(t, u) ==
  /\ pc = "tick" /\ ~ub
  /\ t <= u
  /\ now' = u
  /\ wake' = Awake
  /\ pc' = "idle"
  /\ UNCHANGED <<heap, size, map, idx, ret, ub>>

(* Tick returns at reading t, NextTickTime computes at a later reading u   *)
(* how long epoll_wait may sleep, and the reactor goes to sleep unless     *)
(* that is 0.                                                              *)
TickDone(t, u) ==
  /\ pc = "tick" /\ ~ub
  /\ t <= u
  /\ \/ size = 0
     \/ heap[0].expires - t > 0
  /\ now' = u
  /\ wake' = CASE TickTime(u) = Forever -> Forever
               [] TickTime(u) = 0 -> Awake
               [] OTHER -> u + TickTime(u)
  /\ pc' = "idle"
  /\ UNCHANGED <<heap, size, map, idx, ret, ub>>

(***************************************************************************)
(* The two percolation loops                                               *)
(***************************************************************************)

(* (0 - 1) / 2 in std::size_t is 2^63 - 1, and heap_[2^63 - 1] is the      *)
(* memory just before the heap's storage.  The word read there as an       *)
(* expiry either is earlier than the front node's, and the loop stops, or  *)
(* the two are exchanged and the next indices run off mapped memory.       *)
PercolateUpAtRoot ==
  /\ pc = "up" /\ ~ub
  /\ idx = 0
  /\ \/ /\ Return
        /\ UNCHANGED <<heap, size, map, now, wake, ub>>
     \/ Undefined

(* The loop ends below the root without comparing with it.                 *)
PercolateUpStop ==
  /\ pc = "up" /\ ~ub
  /\ idx > 0
  /\ \/ Parent(idx) = 0
     \/ heap[Parent(idx)].expires < heap[idx].expires
  /\ Return
  /\ UNCHANGED <<heap, size, map, now, wake, ub>>

(* std::swap, with no update of fd_heap_map_.  A slot past the end holds a *)
(* destroyed std::function: moving it into the heap is undefined.          *)
PercolateUpSwap ==
  /\ pc = "up" /\ ~ub
  /\ idx > 0
  /\ Parent(idx) > 0
  /\ heap[Parent(idx)].expires >= heap[idx].expires
  /\ IF idx >= size
     THEN Undefined
     ELSE /\ heap' = Swapped(heap, Parent(idx), idx)
          /\ idx' = Parent(idx)
          /\ UNCHANGED <<size, map, now, pc, ret, wake, ub>>

(* The earlier of the two children.                                        *)
MinChild(i) ==
  IF 2 * i + 2 < size /\ heap[2 * i + 1].expires > heap[2 * i + 2].expires
  THEN 2 * i + 2
  ELSE 2 * i + 1

PercolateDownStop ==
  /\ pc = "down" /\ ~ub
  /\ \/ 2 * idx + 1 >= size
     \/ /\ 2 * idx + 1 < size
        /\ heap[MinChild(idx)].expires > heap[idx].expires
  /\ Return
  /\ UNCHANGED <<heap, size, map, now, wake, ub>>

PercolateDownSwap ==
  /\ pc = "down" /\ ~ub
  /\ 2 * idx + 1 < size
  /\ heap[MinChild(idx)].expires <= heap[idx].expires
  /\ heap' = Swapped(heap, MinChild(idx), idx)
  /\ map' = SwapNodeMap(heap, MinChild(idx), idx)
  /\ idx' = MinChild(idx)
  /\ UNCHANGED <<size, now, pc, ret, wake, ub>>

----------------------------------------------------------------------------
Init ==
  /\ heap = [i \in Slots |-> [fd |-> NoFd, expires |-> 0, cb |-> NoFd]]
  /\ size = 0
  /\ map = [fd \in Fds |-> NoIndex]
  /\ now = 0
  /\ pc = "idle" /\ idx = 0 /\ ret = "idle"
  /\ wake = Awake
  /\ ub = FALSE

TickLoop ==
  \/ \E t \in Clock : TickFire(t)
  \/ \E t, u \in Clock : TickDone(t, u)

PercolateStep ==
  \/ PercolateUpAtRoot
  \/ PercolateUpStop
  \/ PercolateUpSwap
  \/ PercolateDownStop
  \/ PercolateDownSwap

(* What HttpServer calls to give the connection on fd its full time.       *)
Extend(fd, t) == AddTimer(fd, t) \/ AdjustTimer(fd, t)

Rest ==
  \/ \E fd \in Fds : DoRightNow(fd)
  \/ Clear
  \/ NextTickTime
  \/ TickLoop
  \/ PercolateStep

Next == Rest \/ \E fd \in Fds, t \in Clock : Extend(fd, t)

Spec == Init /\ [][Next]_vars

----------------------------------------------------------------------------
(***************************************************************************)
(* Properties                                                              *)
(***************************************************************************)

(* Every variable keeps to the values the code can give it; in particular  *)
(* no map entry ever names a slot outside the reserved storage.            *)
TypeOK ==
  /\ heap \in [Slots -> Node]
  /\ size \in 0 .. Capacity
  /\ map \in [Fds -> Slots \cup {NoIndex}]
  /\ now \in Nat
  /\ pc \in {"idle", "up", "down", "tick"}
  /\ idx \in Slots
  /\ ret \in {"idle", "tick"}
  /\ wake \in Nat \cup {Awake, Forever}
  /\ ub \in BOOLEAN

(* No node expires before its parent whenever no percolation is running:   *)
(* stale map entries make the code repair the heap at the wrong node, and  *)
(* PercolateUp never looks at the root, yet with the server's single       *)
(* timeout the heap stays a min-heap.                                      *)
MinHeap ==
  pc \in {"idle", "tick"} =>
    \A j \in 1 .. size - 1 : heap[Parent(j)].expires <= heap[j].expires

(* A descriptor never has two nodes, and never a node without a map key    *)
(* (a second node would close the next connection that gets the number).   *)
OneTimerPerFd ==
  /\ \A i, j \in Live : heap[i].fd = heap[j].fd => i = j
  /\ \A i \in Live : heap[i].fd \in Fds /\ map[heap[i].fd] # NoIndex

(* While the reactor sleeps in epoll_wait no node expires before it wakes  *)
(* up, and it sleeps without a limit only while there is no node: true     *)
(* when it falls asleep because the front is the earliest node, and kept   *)
(* by the AdjustTimer calls of other threads although these may write to   *)
(* the node of another descriptor.                                         *)
NeverOversleeps ==
  /\ wake >= 0 => \A i \in Live : wake <= heap[i].expires
  /\ wake = Forever => size = 0

(* When Tick returns, every timer that had expired by the last reading of *)
(* the clock has been served: the loop looks at the front only, so this is *)
(* true because the repairs of stale positions keep the earliest node      *)
(* there, and it is what bounds the life of an idle connection.            *)
TickServesAllExpired ==
  [][pc = "tick" /\ pc' = "idle" => \A i \in Live : heap[i].expires > now]_vars

=============================================================================
