--------------------------- MODULE HttpServerProofs ---------------------------
(***************************************************************************)
(* HttpServer, proved for any number of descriptors, workers, connections  *)
(* and pieces of a request.                                                *)
(***************************************************************************)
EXTENDS HttpServer, FiniteSetTheorems, TLAPS

----------------------------------------------------------------------------
(***************************************************************************)
(* Types, with timers or without                                           *)
(***************************************************************************)

Kinds == {"disconnect", "read", "write"}

(* What epoll_wait may report of a connection, and of which.               *)
LEMMA EventFact ==
  ASSUME NEW fd \in Fds, Event(fd) # "quiet"
  PROVE  Event(fd) \in Kinds /\ interest[fd] \notin {"none", "off"}
<1>1. CASE interest[fd] \in {"none", "off"}
  BY <1>1 DEF Event
<1>2. CASE interest[fd] \notin {"none", "off"}
  BY <1>2 DEF Event, Kinds
<1>3. QED
  BY <1>1, <1>2

(* A thread that lets go of a connection, and one that goes on.            *)
LEMMA ThreadTypeFact ==
  ASSUME TypeOK, NEW p \in Procs
  PROVE  /\ Release(p) => pc' \in [Procs -> Labels] /\ cur' \in [Procs -> Fds \cup {ListenFd}]
         /\ \A l \in Labels : Goto(p, l) => pc' \in [Procs -> Labels]
         /\ \A fd \in Fds : [cur EXCEPT ![p] = fd] \in [Procs -> Fds \cup {ListenFd}]
<1>1. "dispatch" \in Labels /\ "idle" \in Labels
  BY DEF Labels
<1>2. QED
  BY <1>1 DEF TypeOK, Release, Goto

LEMMA PartsFact == ASSUME TypeOK PROVE Parts \in 0 .. MaxParts /\ 0 .. Parts \subseteq 0 .. MaxParts
<1>1. config.parts \in 1 .. MaxParts /\ MaxParts \in Nat
  BY ServerAssumption DEF TypeOK
<1>2. QED
  BY <1>1 DEF Parts

(* The clients' steps.                                                     *)
LEMMA ClientTypeFact == ASSUME TypeOK, ClientStep PROVE TypeOK'
<1> USE DEF TypeOK, user, timers
<1>1. CASE Connect
  BY <1>1 DEF Connect
<1>2. ASSUME NEW fd \in Fds, Send(fd) PROVE TypeOK'
  <2>1. sent[fd] + 1 \in 0 .. MaxParts
    <3>1. sent[fd] \in Nat /\ sent[fd] < Parts /\ Parts \in Nat /\ Parts \in 0 .. MaxParts
      BY <1>2, PartsFact, ServerAssumption DEF Send
    <3>2. QED
      BY <3>1, ServerAssumption
  <2>2. QED
    BY <1>2, <2>1 DEF Send
<1>3. ASSUME NEW fd \in Fds, HangUp(fd) PROVE TypeOK'
  BY <1>3 DEF HangUp
<1>4. ASSUME NEW fd \in Fds, Drain(fd) PROVE TypeOK'
  BY <1>4 DEF Drain
<1>5. QED
  BY <1>1, <1>2, <1>3, <1>4 DEF ClientStep

(* Closing.                                                                *)
LEMMA CloseTypeFact == ASSUME TypeOK, NEW p \in Procs, Close(p) PROVE TypeOK'
<1> USE DEF client, user, timers
<1>1. {"check", "mark", "close", "init"} \subseteq Labels
  BY DEF Labels
<1>2. CASE DelFd(p)
  BY <1>1, <1>2, ThreadTypeFact DEF DelFd, TypeOK
<1>3. CASE CheckClosed(p)
  BY <1>1, <1>3, ThreadTypeFact DEF CheckClosed, TypeOK
<1>4. CASE MarkClosed(p)
  <2>1. userCount' \in Int
    BY <1>4 DEF MarkClosed, TypeOK
  <2>2. closed' \in [Fds -> BOOLEAN]
    BY <1>4 DEF MarkClosed, TypeOK
  <2>3. pc' \in [Procs -> Labels]
    BY <1>1, <1>4, ThreadTypeFact DEF MarkClosed
  <2>4. UNCHANGED <<sock, interest, client, edge, got, taken, parsed, resp, timers,
                     batch, queue, cur>>
    BY <1>4 DEF MarkClosed
  <2>5. QED
    BY <2>1, <2>2, <2>3, <2>4 DEF TypeOK
<1>5. CASE CloseFd(p)
  BY <1>1, <1>5, ThreadTypeFact DEF CloseFd, TypeOK
<1>6. CASE InitRequest(p)
  <2>1. 0 \in 0 .. MaxParts
    BY ServerAssumption
  <2>2. QED
    BY <2>1, <1>6, ThreadTypeFact DEF InitRequest, TypeOK
<1>7. QED
  BY <1>2, <1>3, <1>4, <1>5, <1>6 DEF Close

(* The reactor.                                                            *)
LEMMA MainTypeFact == ASSUME TypeOK, MainStep PROVE TypeOK'
<1> USE DEF client, user, timers
<1>1. {"top", "dispatch", "accept", "del"} \subseteq Labels /\ Main \in Procs
  BY DEF Labels, Procs
<1>2. ASSUME NEW fd \in Fds, Timeout(fd) PROVE TypeOK'
  BY <1>1, <1>2, ThreadTypeFact DEF Timeout, TypeOK
<1>3. CASE Wait
  <2>1. \A fd \in ReadyFds : fd \in Fds /\ Event(fd) \in Kinds
    BY EventFact DEF ReadyFds
  <2>2. batch' \in SUBSET (Fds \X Kinds \cup {<<ListenFd, "listen">>})
    BY <2>1, <1>3 DEF Wait
  <2>3. interest' \in [Fds -> {"none", "off", "in", "out"}]
    BY <1>3 DEF Wait, TypeOK
  <2>4. QED
    BY <2>2, <2>3, <1>1, <1>3, ThreadTypeFact DEF Wait, TypeOK, Kinds
<1>4. ASSUME NEW fd \in Fds \cup {ListenFd},
             NEW kind \in {"listen", "disconnect", "read", "write"}, Dispatch(fd, kind)
      PROVE  TypeOK'
  <2>1. batch' \in SUBSET (Fds \X Kinds \cup {<<ListenFd, "listen">>})
    BY <1>4 DEF Dispatch, TypeOK, Kinds
  <2>2. fd \in Fds \/ kind = "listen"
    BY <1>4 DEF Dispatch, TypeOK
  <2>3. CASE kind = "listen"
    BY <2>1, <2>3, <1>1, <1>4, ThreadTypeFact DEF Dispatch, TypeOK, Kinds
  <2>4. CASE kind = "disconnect"
    BY <2>1, <2>2, <2>4, <1>1, <1>4, ThreadTypeFact DEF Dispatch, TypeOK, Kinds
  <2>5. CASE kind \in {"read", "write"}
    <3>1. <<fd, kind>> \in Fds \X {"read", "write"}
      BY <2>2, <2>5
    <3>2. queue' = Append(queue, <<fd, kind>>) /\ UNCHANGED <<pc, cur>>
      BY <2>5, <1>4 DEF Dispatch, AddTask
    <3>3. queue' \in Seq(Fds \X {"read", "write"})
      BY <3>1, <3>2 DEF TypeOK
    <3>4. QED
      BY <2>1, <3>2, <3>3, <1>4 DEF Dispatch, TypeOK, Kinds
  <2>6. QED
    BY <2>3, <2>4, <2>5
<1>5. CASE BatchDone
  BY <1>1, <1>5, ThreadTypeFact DEF BatchDone, TypeOK
<1>6. ASSUME NEW fd \in Fds, Accept(fd) PROVE TypeOK'
  <2>1. timer' \in SUBSET Fds
    BY <1>6 DEF Accept, AddClient, AddTimer, TypeOK
  <2>2. 0 \in 0 .. MaxParts /\ backlog' \in Nat /\ userCount' \in Int
    BY <1>6, ServerAssumption DEF Accept, AddClient, TypeOK
  <2>3. QED
    BY <2>1, <2>2, <1>6 DEF Accept, AddClient, AddFd, TypeOK
<1>7. CASE AcceptBusy \/ AcceptFails
  <2>1. backlog' \in Nat
    BY <1>7 DEF AcceptBusy, AcceptFails, TypeOK
  <2>2. QED
    BY <2>1, <1>1, <1>7, ThreadTypeFact DEF AcceptBusy, AcceptFails, TypeOK
<1>8. CASE Close(Main)
  BY <1>1, <1>8, CloseTypeFact
<1>9. QED
  BY <1>2, <1>3, <1>4, <1>5, <1>6, <1>7, <1>8 DEF MainStep

(* The workers.                                                            *)
LEMMA WorkerTypeFact == ASSUME TypeOK, NEW w \in Workers, WorkerStep(w) PROVE TypeOK'
<1> USE DEF client, user, timers
<1>1. /\ {"read", "process", "write", "armIn", "armOut", "del"} \subseteq Labels
      /\ w \in Procs
  BY DEF Labels, Procs
<1>2. 0 \in 0 .. MaxParts
  BY ServerAssumption
<1>3. CASE Take(w)
  <2>1. /\ Head(queue) \in Fds \X {"read", "write"}
        /\ Tail(queue) \in Seq(Fds \X {"read", "write"})
    BY <1>3 DEF Take, TypeOK
  <2>2. Head(queue)[1] \in Fds /\ Head(queue)[2] \in {"read", "write"}
    BY <2>1
  <2>3. QED
    BY <2>1, <2>2, <1>1, <1>3, ThreadTypeFact DEF Take, TypeOK
<1>4. CASE Read(w)
  <2>1. pc' \in [Procs -> Labels]
    BY <1>1, <1>4, ThreadTypeFact DEF Read
  <2>2. got' \in [Fds -> 0 .. MaxParts]
    BY <1>4 DEF Read, TypeOK
  <2>3. QED
    BY <2>1, <2>2, <1>4 DEF Read, TypeOK
<1>5. CASE Process(w)
  <2>1. PICK n \in 0 .. Parts :
          /\ parsed' = [parsed EXCEPT ![cur[w]] = n]
          /\ resp' = [resp EXCEPT ![cur[w]] = n = Parts \/ @]
          /\ Goto(w, IF n = Parts THEN "armOut" ELSE "armIn")
    BY <1>5 DEF Process
  <2>2. pc' \in [Procs -> Labels]
    BY <2>1, <1>1, ThreadTypeFact
  <2>3. taken' \in [Fds -> 0 .. MaxParts] /\ parsed' \in [Fds -> 0 .. MaxParts]
    BY <2>1, <1>5, PartsFact DEF Process, TypeOK
  <2>4. resp' \in [Fds -> BOOLEAN]
    BY <2>1 DEF TypeOK
  <2>5. QED
    BY <2>2, <2>3, <2>4, <1>5 DEF Process, TypeOK
<1>6. CASE WriteAll(w)
  <2>1. pc' \in [Procs -> Labels]
    BY <1>1, <1>6, ThreadTypeFact DEF WriteAll
  <2>2. /\ sent' \in [Fds -> 0 .. MaxParts] /\ got' \in [Fds -> 0 .. MaxParts]
        /\ taken' \in [Fds -> 0 .. MaxParts] /\ resp' \in [Fds -> BOOLEAN]
    BY <1>2, <1>6 DEF WriteAll, TypeOK
  <2>3. QED
    BY <2>1, <2>2, <1>6 DEF WriteAll, TypeOK
<1>7. CASE WriteBlocks(w)
  BY <1>1, <1>7, ThreadTypeFact DEF WriteBlocks, TypeOK
<1>8. CASE WriteFails(w)
  BY <1>1, <1>8, ThreadTypeFact DEF WriteFails, TypeOK
<1>9. CASE ModFd(w)
  <2>1. interest' \in [Fds -> {"none", "off", "in", "out"}]
    BY <1>9 DEF ModFd, TypeOK
  <2>2. QED
    BY <2>1, <1>1, <1>9, ThreadTypeFact DEF ModFd, TypeOK
<1>10. CASE Close(w)
  BY <1>1, <1>10, CloseTypeFact
<1>11. QED
  BY <1>3, <1>4, <1>5, <1>6, <1>7, <1>8, <1>9, <1>10 DEF WorkerStep

(* Every step.                                                             *)
LEMMA TypeFact == ASSUME TypeOK, [Next]_vars PROVE TypeOK'
<1>1. CASE UNCHANGED vars
  BY <1>1 DEF vars, client, user, timers, TypeOK
<1>2. QED
  BY <1>1, MainTypeFact, WorkerTypeFact, ClientTypeFact DEF Next

(* Before the first connection.                                            *)
LEMMA InitTypeFact == ASSUME Init PROVE TypeOK
<1>1. 0 \in 0 .. MaxParts /\ \A S : <<>> \in Seq(S)
  BY ServerAssumption
<1>2. pc \in [Procs -> Labels] /\ cur \in [Procs -> Fds \cup {ListenFd}]
  BY DEF Init, Labels
<1>3. /\ sock \in [Fds -> BOOLEAN] /\ closed \in [Fds -> BOOLEAN]
      /\ hup \in [Fds -> BOOLEAN] /\ full \in [Fds -> BOOLEAN]
      /\ resp \in [Fds -> BOOLEAN]
      /\ interest \in [Fds -> {"none", "off", "in", "out"}]
  BY DEF Init
<1>4. /\ sent \in [Fds -> 0 .. MaxParts] /\ got \in [Fds -> 0 .. MaxParts]
      /\ taken \in [Fds -> 0 .. MaxParts] /\ parsed \in [Fds -> 0 .. MaxParts]
  BY <1>1 DEF Init
<1>5. backlog \in Nat /\ conns \in Nat /\ userCount \in Int
  BY DEF Init
<1>6. edge \in BOOLEAN /\ timer \in SUBSET Fds /\ config \in Configs
  BY DEF Init
<1>7. /\ batch \in SUBSET (Fds \X {"disconnect", "read", "write"} \cup {<<ListenFd, "listen">>})
      /\ queue \in Seq(Fds \X {"read", "write"})
  BY <1>1 DEF Init
<1>8. QED
  BY <1>2, <1>3, <1>4, <1>5, <1>6, <1>7 DEF TypeOK

(* The variables keep to their types.                                      *)
THEOREM TypeCorrect == Spec => []TypeOK
<1>1. Init => TypeOK
  BY InitTypeFact
<1>2. TypeOK /\ [Next]_vars => TypeOK'
  BY TypeFact
<1>3. QED
  BY <1>1, <1>2, PTL DEF Spec

----------------------------------------------------------------------------
(***************************************************************************)
(* Descriptors that are left behind, with timers or without                *)
(***************************************************************************)

(* Who has marked a connection closed is the next to touch its descriptor. *)
LEMMA LeakFact ==
  ASSUME TypeOK, NoLeakedDescriptor, [Next]_vars
  PROVE  NoLeakedDescriptor'
<1> DEFINE Closes(p, fd) == pc[p] = "close" /\ cur[p] = fd
<1> USE DEF client, user, timers, Goto, Release
<1>1. SUFFICES ASSUME NEW fd \in Fds, sock'[fd], closed'[fd]
               PROVE  \E p \in Procs : Closes(p, fd)'
  BY DEF NoLeakedDescriptor
<1>2. Main \in Procs /\ Workers \subseteq Procs
  BY DEF Procs
<1>3. ASSUME NEW p \in Procs, Close(p) PROVE \E q \in Procs : Closes(q, fd)'
  <2>1. CASE MarkClosed(p) /\ cur[p] = fd
    BY <2>1, <1>3 DEF MarkClosed, TypeOK
  <2>2. CASE CloseFd(p) /\ cur[p] = fd
    BY <2>2, <1>1 DEF CloseFd, TypeOK
  <2>3. CASE ~ ((MarkClosed(p) \/ CloseFd(p)) /\ cur[p] = fd)
    <3>1. sock[fd] /\ closed[fd]
      BY <2>3, <1>1, <1>3
         DEF Close, DelFd, CheckClosed, MarkClosed, CloseFd, InitRequest, TypeOK
    <3>2. PICK q \in Procs : Closes(q, fd)
      BY <3>1 DEF NoLeakedDescriptor
    <3>3. CASE q = p
      BY <3>2, <3>3, <2>3, <1>3
         DEF Close, DelFd, CheckClosed, MarkClosed, CloseFd, InitRequest
    <3>4. CASE q # p
      BY <3>2, <3>4, <1>3
         DEF Close, DelFd, CheckClosed, MarkClosed, CloseFd, InitRequest, TypeOK
    <3>5. QED
      BY <3>3, <3>4
  <2>4. QED
    BY <2>1, <2>2, <2>3
<1>4. ASSUME sock[fd], closed[fd], NEW p \in Procs, pc[p] # "close",
             \A q \in Procs : q # p => pc'[q] = pc[q] /\ cur'[q] = cur[q]
      PROVE  \E q \in Procs : Closes(q, fd)'
  BY <1>4 DEF NoLeakedDescriptor
<1>5. CASE MainStep
  <2>1. CASE Close(Main)
    BY <2>1, <1>2, <1>3
  <2>2. ASSUME NEW g \in Fds, Accept(g) PROVE \E q \in Procs : Closes(q, fd)'
    <3>1. g # fd
      BY <2>2, <1>1 DEF Accept, AddClient, TypeOK
    <3>2. sock[fd] /\ closed[fd] /\ pc[Main] # "close" /\ UNCHANGED <<pc, cur>>
      BY <3>1, <2>2, <1>1 DEF Accept, AddClient, TypeOK
    <3>3. QED
      BY <3>2, <1>2, <1>4
  <2>3. CASE \/ \E g \in Fds : Timeout(g)
             \/ Wait \/ BatchDone \/ AcceptBusy \/ AcceptFails
             \/ \E g \in Fds \cup {ListenFd}, kind \in {"listen", "disconnect", "read", "write"} :
                  Dispatch(g, kind)
    <3>1. UNCHANGED <<sock, closed>> /\ pc[Main] # "close"
      BY <2>3 DEF Timeout, Wait, BatchDone, AcceptBusy, AcceptFails, Dispatch
    <3>2. \A q \in Procs : q # Main => pc'[q] = pc[q] /\ cur'[q] = cur[q]
      BY <2>3 DEF Timeout, Wait, BatchDone, AcceptBusy, AcceptFails, Dispatch, AddTask, TypeOK
    <3>3. QED
      BY <3>1, <3>2, <1>1, <1>2, <1>4
  <2>4. QED
    BY <2>1, <2>2, <2>3, <1>5 DEF MainStep
<1>6. ASSUME NEW w \in Workers, WorkerStep(w) PROVE \E q \in Procs : Closes(q, fd)'
  <2>1. CASE Close(w)
    BY <2>1, <1>2, <1>3
  <2>2. CASE Take(w) \/ Read(w) \/ Process(w) \/ WriteAll(w) \/ WriteBlocks(w)
               \/ WriteFails(w) \/ ModFd(w)
    <3>1. UNCHANGED <<sock, closed>> /\ pc[w] # "close"
      BY <2>2 DEF Take, Read, Process, WriteAll, WriteBlocks, WriteFails, ModFd
    <3>2. \A q \in Procs : q # w => pc'[q] = pc[q] /\ cur'[q] = cur[q]
      BY <2>2 DEF Take, Read, Process, WriteAll, WriteBlocks, WriteFails, ModFd, TypeOK
    <3>3. QED
      BY <3>1, <3>2, <1>1, <1>2, <1>4
  <2>3. QED
    BY <2>1, <2>2, <1>6 DEF WorkerStep
<1>7. CASE ClientStep \/ UNCHANGED vars
  <2>1. UNCHANGED <<sock, closed, pc, cur>>
    BY <1>7 DEF ClientStep, Connect, Send, HangUp, Drain, vars
  <2>2. QED
    BY <2>1, <1>1 DEF NoLeakedDescriptor
<1>8. QED
  BY <1>5, <1>6, <1>7 DEF Next

(* No descriptor stays open behind a connection that counts as closed      *)
(* (http_conn.cpp:92-106), although a timeout, a worker and the next       *)
(* connection on the descriptor may all meet there.                        *)
THEOREM NothingLeaks == Spec => []NoLeakedDescriptor
<1>1. Init => NoLeakedDescriptor
  BY DEF Init, NoLeakedDescriptor
<1>2. TypeOK /\ NoLeakedDescriptor /\ [Next]_vars => NoLeakedDescriptor'
  BY LeakFact
<1>3. QED
  BY <1>1, <1>2, TypeCorrect, PTL DEF Spec

----------------------------------------------------------------------------
(***************************************************************************)
(* Ownership, when the server is started without a timeout                 *)
(***************************************************************************)

(* No timer ever exists.                                                   *)
NoTimer == timer = {} /\ ~config.timeout

(* The four places where a connection may be.                              *)
Armed(fd) == interest[fd] \in {"in", "out"}
Batched(fd) == \E e \in batch : e[1] = fd
Queued(fd) == \E i \in DOMAIN queue : queue[i][1] = fd
Holds(p, fd) == cur[p] = fd /\ pc[p] \in Holding
Held(fd) == \E p \in Procs : Holds(p, fd)

(* An open connection is in one of the four places, a closed one in none.  *)
Owned == \A fd \in Fds : sock[fd] <=> Armed(fd) \/ Batched(fd) \/ Queued(fd) \/ Held(fd)

(* Nothing is in two of them,                                              *)
Exclusive ==
  \A fd \in Fds : /\ Armed(fd) => ~Batched(fd) /\ ~Queued(fd) /\ ~Held(fd)
                  /\ Batched(fd) => ~Queued(fd) /\ ~Held(fd)
                  /\ Queued(fd) => ~Held(fd)

(* nor twice in one.                                                       *)
Once ==
  /\ \A e, f \in batch : e[1] = f[1] => e = f
  /\ \A i, j \in DOMAIN queue : queue[i][1] = queue[j][1] => i = j
  /\ \A fd \in Fds : \A p, q \in Procs : Holds(p, fd) /\ Holds(q, fd) => p = q

Own == Owned /\ Exclusive /\ Once

(* A thread names a connection while it has to do with one, and the reactor *)
(* waits only when it is through with its batch.                           *)
Placed ==
  /\ \A p \in Procs : IF pc[p] \in Holding \cup {"init"} THEN cur[p] \in Fds
                                                         ELSE cur[p] = ListenFd
  /\ pc[Main] = "top" => batch = {}

(* How far a connection is in being closed: which thread that is at what   *)
(* place closes it, and until it does, epoll knows the descriptor.         *)
Closing ==
  /\ \A fd \in Fds : ~sock[fd] => closed[fd] /\ interest[fd] = "none"
  /\ \A p \in Procs : pc[p] = "close" => closed[cur[p]]
  /\ NoLeakedDescriptor
  /\ \A fd \in Fds : sock[fd] /\ interest[fd] = "none" =>
       \E p \in Procs : cur[p] = fd /\ pc[p] \in {"check", "mark", "close"}

IInv == TypeOK /\ NoTimer /\ Placed /\ Own /\ Closing

(* What a thread may rely on while it holds a connection.                  *)
LEMMA HandFact ==
  ASSUME IInv, NEW p \in Procs, pc[p] \in Holding
  PROVE  /\ cur[p] \in Fds /\ sock[cur[p]]
         /\ ~Armed(cur[p]) /\ ~Batched(cur[p]) /\ ~Queued(cur[p])
         /\ \A q \in Procs : Holds(q, cur[p]) => q = p
         /\ pc[p] # "close" => ~closed[cur[p]]
         /\ pc[p] \notin {"check", "mark", "close"} => interest[cur[p]] = "off"
<1>1. cur[p] \in Fds /\ Holds(p, cur[p])
  BY DEF IInv, Placed, Holds
<1>2. Held(cur[p]) /\ sock[cur[p]] /\ ~Armed(cur[p]) /\ ~Batched(cur[p]) /\ ~Queued(cur[p])
  BY <1>1 DEF IInv, Own, Owned, Exclusive, Held
<1>3. \A q \in Procs : Holds(q, cur[p]) => q = p
  BY <1>1 DEF IInv, Own, Once
<1>4. pc[p] # "close" => ~closed[cur[p]]
  <2>1. \A q \in Procs : pc[q] = "close" /\ cur[q] = cur[p] => q = p
    BY <1>3 DEF Holds, Holding
  <2>2. QED
    BY <2>1, <1>1, <1>2 DEF IInv, Closing, NoLeakedDescriptor
<1>5. pc[p] \notin {"check", "mark", "close"} => interest[cur[p]] = "off"
  <2>1. \A q \in Procs : pc[q] \in {"check", "mark", "close"} /\ cur[q] = cur[p] => q = p
    BY <1>3 DEF Holds, Holding
  <2>2. QED
    BY <2>1, <1>1, <1>2 DEF IInv, Closing, Armed, TypeOK
<1>6. QED
  BY <1>1, <1>2, <1>3, <1>4, <1>5

(* Steps after which every connection is where it was.                     *)
LEMMA KeepFact ==
  ASSUME Own, UNCHANGED <<sock, batch, queue, cur>>,
         \A fd \in Fds : interest[fd] \in {"in", "out"} <=> interest'[fd] \in {"in", "out"},
         \A p \in Procs : pc[p] \in Holding <=> pc'[p] \in Holding
  PROVE  Own'
<1>1. \A fd \in Fds : Armed(fd)' <=> Armed(fd)
  BY DEF Armed
<1>2. \A fd \in Fds : (Batched(fd)' <=> Batched(fd)) /\ (Queued(fd)' <=> Queued(fd))
  BY DEF Batched, Queued
<1>3. \A fd \in Fds, p \in Procs : Holds(p, fd)' <=> Holds(p, fd)
  BY DEF Holds
<1>4. \A fd \in Fds : Held(fd)' <=> Held(fd)
  BY <1>3 DEF Held
<1>5. Owned' /\ Exclusive'
  BY <1>1, <1>2, <1>4 DEF Own, Owned, Exclusive
<1>6. Once'
  BY <1>3 DEF Own, Once
<1>7. QED
  BY <1>5, <1>6 DEF Own

(* Steps of one thread that goes on with its connection.                   *)
LEMMA GoOnFact ==
  ASSUME IInv, NEW p \in Procs, pc[p] \in Holding,
         NEW l \in Holding, pc' = [pc EXCEPT ![p] = l],
         UNCHANGED <<sock, batch, queue, cur>>,
         interest' = interest \/ interest' = [interest EXCEPT ![cur[p]] = "none"]
  PROVE  Own' /\ Placed'
<1>1. \A fd \in Fds : interest[fd] \in {"in", "out"} <=> interest'[fd] \in {"in", "out"}
  BY HandFact DEF IInv, TypeOK, Armed
<1>2. \A q \in Procs : pc[q] \in Holding <=> pc'[q] \in Holding
  BY DEF IInv, TypeOK
<1>3. Own'
  BY <1>1, <1>2, KeepFact DEF IInv
<1>4. Placed'
  BY DEF IInv, Placed, TypeOK, Holding
<1>5. QED
  BY <1>3, <1>4

(* Steps that touch no connection and move no thread to or from one.       *)
LEMMA AsideFact ==
  ASSUME IInv, UNCHANGED <<sock, interest, closed, timer, config, batch, queue, cur>>,
         pc' = pc \/ \E l \in {"top", "dispatch", "accept"} :
                       /\ pc' = [pc EXCEPT ![Main] = l]
                       /\ pc[Main] \in {"top", "dispatch", "accept"}
                       /\ l = "top" => batch = {}
  PROVE  NoTimer' /\ Placed' /\ Own' /\ Closing'
<1>1. Main \in Procs /\ pc \in [Procs -> Labels]
  BY DEF Procs, IInv, TypeOK
<1>2. \A p \in Procs : \A l \in Holding \cup {"init"} : pc[p] = l <=> pc'[p] = l
  BY <1>1 DEF Holding
<1>3. \A p \in Procs : pc[p] \in Holding <=> pc'[p] \in Holding
  BY <1>2
<1>4. Own'
  BY <1>3, KeepFact DEF IInv
<1>5. Placed'
  <2>1. pc'[Main] = "top" => batch' = {}
    BY <1>1 DEF IInv, Placed
  <2>2. QED
    BY <2>1, <1>2, <1>3 DEF IInv, Placed
<1>6. Closing'
  <2>1. \A p \in Procs : /\ pc[p] = "close" <=> pc'[p] = "close"
                         /\ pc[p] \in {"check", "mark", "close"} <=> pc'[p] \in {"check", "mark", "close"}
    BY <1>2 DEF Holding
  <2>2. QED
    BY <2>1 DEF IInv, Closing, NoLeakedDescriptor
<1>7. QED
  BY <1>4, <1>5, <1>6 DEF IInv, NoTimer

(* epoll_wait: what was armed is in the batch.                             *)
LEMMA WaitFact == ASSUME IInv, Wait PROVE Placed' /\ Own' /\ Closing'
<1>1. /\ batch = {} /\ pc[Main] = "top" /\ pc' = [pc EXCEPT ![Main] = "dispatch"]
      /\ UNCHANGED <<sock, closed, queue, cur>>
      /\ interest' = [fd \in Fds |-> IF fd \in ReadyFds THEN "off" ELSE interest[fd]]
  BY DEF Wait, IInv, Placed, Goto, client, user
<1>2. /\ \A fd \in ReadyFds : fd \in Fds /\ Armed(fd)
      /\ \A e \in batch' : e[1] \in ReadyFds \cup {ListenFd}
      /\ \A e, f \in batch' : e[1] = f[1] => e = f
      /\ \A fd \in Fds : Batched(fd)' <=> fd \in ReadyFds
  <2>1. \A fd \in ReadyFds : fd \in Fds /\ Armed(fd)
    BY EventFact DEF ReadyFds, Armed, IInv, TypeOK
  <2>2. ListenFd \notin Fds
    BY ServerAssumption
  <2>3. \A e \in batch' : \/ \E fd \in ReadyFds : e = <<fd, Event(fd)>> /\ e[1] = fd
                          \/ e = <<ListenFd, "listen">> /\ e[1] = ListenFd
    <3>1. \A e \in batch' : \/ \E fd \in ReadyFds : e = <<fd, Event(fd)>>
                            \/ e = <<ListenFd, "listen">>
      BY DEF Wait
    <3>2. <<ListenFd, "listen">>[1] = ListenFd /\ \A fd : <<fd, Event(fd)>>[1] = fd
      OBVIOUS
    <3>3. QED
      BY <3>1, <3>2, Zenon
  <2>4. \A fd \in ReadyFds : \E e \in batch' : e[1] = fd
    <3>1. \A fd \in ReadyFds : <<fd, Event(fd)>> \in batch' /\ <<fd, Event(fd)>>[1] = fd
      BY DEF Wait
    <3>2. QED
      BY <3>1, Zenon
  <2>5. \A e, f \in batch' : e[1] = f[1] => e = f
    BY <2>1, <2>2, <2>3, Zenon
  <2>6. \A fd \in Fds : Batched(fd)' <=> fd \in ReadyFds
    <3>1. \A e \in batch' : e[1] \in Fds => e[1] \in ReadyFds
      BY <2>2, <2>3, Zenon
    <3>2. QED
      BY <2>4, <3>1 DEF Batched
  <2>7. QED
    BY <2>1, <2>3, <2>5, <2>6
<1>3. Main \in Procs /\ pc \in [Procs -> Labels] /\ interest \in [Fds -> {"none", "off", "in", "out"}]
  BY DEF Procs, IInv, TypeOK
<1>4. \A p \in Procs : \A l \in Holding \cup {"init"} : pc[p] = l <=> pc'[p] = l
  BY <1>1, <1>3 DEF Holding
<1>5. \A fd \in Fds, p \in Procs : Holds(p, fd)' <=> Holds(p, fd)
  BY <1>1, <1>4 DEF Holds
<1>6. \A fd \in Fds : /\ Armed(fd)' <=> Armed(fd) /\ fd \notin ReadyFds
                      /\ ~Batched(fd)
                      /\ Queued(fd)' <=> Queued(fd)
                      /\ Held(fd)' <=> Held(fd)
  BY <1>1, <1>5 DEF Armed, Batched, Queued, Held
<1>7. Owned' /\ Exclusive'
  BY <1>1, <1>2, <1>6 DEF IInv, Own, Owned, Exclusive
<1>8. Once'
  BY <1>1, <1>2, <1>5 DEF IInv, Own, Once
<1>9. Placed'
  BY <1>1, <1>3, <1>4 DEF IInv, Placed, Holding
<1>10. Closing'
  <2>1. \A fd \in Fds : interest'[fd] = "none" <=> interest[fd] = "none"
    BY <1>1, <1>2 DEF Armed
  <2>2. \A p \in Procs : /\ pc[p] = "close" <=> pc'[p] = "close"
                         /\ pc[p] \in {"check", "mark", "close"} <=> pc'[p] \in {"check", "mark", "close"}
    BY <1>4 DEF Holding
  <2>3. QED
    BY <1>1, <2>1, <2>2 DEF IInv, Closing, NoLeakedDescriptor
<1>11. QED
  BY <1>7, <1>8, <1>9, <1>10 DEF Own

(* An event leaves the batch for the reactor's own hands or for the queue.  *)
LEMMA DispatchFact ==
  ASSUME IInv, NEW fd \in Fds \cup {ListenFd},
         NEW kind \in {"listen", "disconnect", "read", "write"}, Dispatch(fd, kind)
  PROVE  Placed' /\ Own' /\ Closing'
<1>1. /\ pc[Main] = "dispatch" /\ <<fd, kind>> \in batch
      /\ batch' = batch \ {<<fd, kind>>}
      /\ UNCHANGED <<sock, interest, closed>>
      /\ Main \in Procs /\ pc \in [Procs -> Labels]
      /\ cur \in [Procs -> Fds \cup {ListenFd}]
      /\ cur[Main] = ListenFd /\ ListenFd \notin Fds
  BY ServerAssumption DEF Dispatch, IInv, TypeOK, Procs, user, Placed, Holding
<1>2. fd \in Fds <=> kind # "listen"
  BY <1>1 DEF IInv, TypeOK
<1>3. /\ \A g \in Fds : Batched(g)' <=> Batched(g) /\ g # fd
      /\ \A e, f \in batch' : e[1] = f[1] => e = f
      /\ fd \in Fds => /\ Batched(fd) /\ sock[fd] /\ ~closed[fd] /\ interest[fd] = "off"
                       /\ ~Armed(fd) /\ ~Queued(fd) /\ ~Held(fd)
  <2>1. \A e, f \in batch : e[1] = f[1] => e = f
    BY DEF IInv, Own, Once
  <2>2. <<fd, kind>>[1] = fd
    OBVIOUS
  <2>3. \A g \in Fds : Batched(g)' <=> Batched(g) /\ g # fd
    BY <1>1, <2>1, <2>2 DEF Batched
  <2>4. ASSUME fd \in Fds
        PROVE  Batched(fd) /\ sock[fd] /\ ~Armed(fd) /\ ~Queued(fd) /\ ~Held(fd)
    BY <1>1, <2>2, <2>4 DEF Batched, IInv, Own, Owned, Exclusive
  <2>5. ASSUME fd \in Fds PROVE ~closed[fd] /\ interest[fd] = "off"
    BY <2>4, <2>5 DEF IInv, Closing, NoLeakedDescriptor, Held, Holds, Holding, Armed, TypeOK
  <2>6. QED
    BY <1>1, <2>1, <2>3, <2>4, <2>5
<1>4. CASE kind = "listen"
  <2>1. pc' = [pc EXCEPT ![Main] = "accept"] /\ UNCHANGED <<queue, cur>>
    BY <1>4 DEF Dispatch, Goto
  <2>2. \A p \in Procs : \A l \in Holding \cup {"init"} : pc[p] = l <=> pc'[p] = l
    BY <1>1, <2>1 DEF Holding
  <2>3. \A g \in Fds, p \in Procs : Holds(p, g)' <=> Holds(p, g)
    BY <2>1, <2>2 DEF Holds
  <2>4. \A g \in Fds : /\ Armed(g)' <=> Armed(g)
                       /\ Batched(g)' <=> Batched(g)
                       /\ Queued(g)' <=> Queued(g)
                       /\ Held(g)' <=> Held(g)
    BY <1>1, <1>2, <1>3, <1>4, <2>1, <2>3 DEF Armed, Queued, Held
  <2>5. Own'
    BY <1>1, <1>3, <2>1, <2>3, <2>4 DEF IInv, Own, Owned, Exclusive, Once
  <2>6. Placed'
    BY <1>1, <2>1, <2>2 DEF IInv, Placed, Holding
  <2>7. Closing'
    <3>1. \A p \in Procs : /\ pc[p] = "close" <=> pc'[p] = "close"
                           /\ pc[p] \in {"check", "mark", "close"}
                                <=> pc'[p] \in {"check", "mark", "close"}
      BY <2>2 DEF Holding
    <3>2. QED
      BY <1>1, <2>1, <3>1 DEF IInv, Closing, NoLeakedDescriptor
  <2>8. QED
    BY <2>5, <2>6, <2>7
<1>5. CASE kind = "disconnect"
  <2>1. /\ pc' = [pc EXCEPT ![Main] = "del"] /\ cur' = [cur EXCEPT ![Main] = fd]
        /\ queue' = queue
    BY <1>5 DEF Dispatch, Goto
  <2>2. \A p \in Procs : p # Main => pc'[p] = pc[p] /\ cur'[p] = cur[p]
    BY <1>1, <2>1
  <2>3. pc'[Main] = "del" /\ cur'[Main] = fd /\ fd \in Fds
    BY <1>1, <1>2, <1>5, <2>1
  <2>4. \A g \in Fds, p \in Procs :
           Holds(p, g)' <=> Holds(p, g) \/ (p = Main /\ g = fd)
    BY <1>1, <2>2, <2>3 DEF Holds, Holding
  <2>5. \A g \in Fds : /\ Armed(g)' <=> Armed(g)
                       /\ Queued(g)' <=> Queued(g)
                       /\ Held(g)' <=> Held(g) \/ g = fd
    BY <1>1, <2>1, <2>4 DEF Armed, Queued, Held
  <2>6. Owned' /\ Exclusive'
    BY <1>1, <1>3, <2>3, <2>5 DEF IInv, Own, Owned, Exclusive
  <2>7. Once'
    <3>1. \A p \in Procs : ~Holds(p, fd)
      BY <1>3, <2>3 DEF Held
    <3>2. QED
      BY <1>3, <2>1, <2>4, <3>1 DEF IInv, Own, Once
  <2>8. Placed'
    BY <1>1, <2>2, <2>3 DEF IInv, Placed, Holding
  <2>9. Closing'
    BY <1>1, <2>2, <2>3 DEF IInv, Closing, NoLeakedDescriptor
  <2>10. QED
    BY <2>6, <2>7, <2>8, <2>9 DEF Own
<1>6. CASE kind \in {"read", "write"}
  <2>1. queue' = Append(queue, <<fd, kind>>) /\ UNCHANGED <<pc, cur>>
    BY <1>6 DEF Dispatch, AddTask
  <2>2. /\ DOMAIN queue = 1 .. Len(queue) /\ DOMAIN queue' = 1 .. Len(queue) + 1
        /\ Len(queue) \in Nat
        /\ \A i \in 1 .. Len(queue) : queue'[i] = queue[i]
        /\ queue'[Len(queue) + 1][1] = fd
    <3>1. queue \in Seq(Fds \X {"read", "write"})
      BY DEF IInv, TypeOK
    <3>2. QED
      BY <2>1, <3>1
  <2>3. fd \in Fds
    BY <1>2, <1>6
  <2>4. \A i \in DOMAIN queue' : i \in DOMAIN queue \/ i = Len(queue) + 1
    BY <2>2
  <2>5. \A i \in DOMAIN queue : i \in DOMAIN queue' /\ queue'[i] = queue[i]
    BY <2>2
  <2>6. Len(queue) + 1 \in DOMAIN queue'
    BY <2>2
  <2>7. \A g \in Fds : Queued(g)' <=> Queued(g) \/ g = fd
    BY <2>2, <2>4, <2>5, <2>6 DEF Queued
  <2>8. \A i, j \in DOMAIN queue' : queue'[i][1] = queue'[j][1] => i = j
    <3>1. \A i \in DOMAIN queue : queue[i][1] # fd
      BY <1>3, <2>3 DEF Queued
    <3>2. \A i, j \in DOMAIN queue : queue[i][1] = queue[j][1] => i = j
      BY DEF IInv, Own, Once
    <3>3. QED
      BY <2>2, <2>4, <2>5, <3>1, <3>2
  <2>9. \A g \in Fds, p \in Procs : Holds(p, g)' <=> Holds(p, g)
    BY <2>1 DEF Holds
  <2>10. \A g \in Fds : (Armed(g)' <=> Armed(g)) /\ (Held(g)' <=> Held(g))
    BY <1>1, <2>9 DEF Armed, Held
  <2>11. Owned' /\ Exclusive'
    BY <1>1, <1>3, <2>3, <2>7, <2>10 DEF IInv, Own, Owned, Exclusive
  <2>12. Once'
    BY <1>3, <2>8, <2>9 DEF IInv, Own, Once
  <2>13. Placed' /\ Closing'
    BY <1>1, <2>1 DEF IInv, Placed, Closing, NoLeakedDescriptor
  <2>14. QED
    BY <2>11, <2>12, <2>13 DEF Own
<1>7. QED
  BY <1>4, <1>5, <1>6

(* A number that nobody holds becomes a connection, armed.                 *)
LEMMA AcceptFact ==
  ASSUME IInv, NEW fd \in Fds, Accept(fd)
  PROVE  NoTimer' /\ Placed' /\ Own' /\ Closing'
<1>1. /\ ~sock[fd] /\ closed[fd] /\ UNCHANGED <<timer, config, batch, queue, pc, cur>>
      /\ sock' = [sock EXCEPT ![fd] = TRUE]
      /\ closed' = [closed EXCEPT ![fd] = FALSE]
      /\ interest' = [interest EXCEPT ![fd] = "in"]
  BY DEF Accept, AddClient, AddFd, IInv, NoTimer, Closing
<1>2. ~Armed(fd) /\ ~Batched(fd) /\ ~Queued(fd) /\ ~Held(fd)
  BY <1>1 DEF IInv, Own, Owned
<1>3. \A g \in Fds, p \in Procs : Holds(p, g)' <=> Holds(p, g)
  BY <1>1 DEF Holds
<1>4. \A g \in Fds : /\ Armed(g)' <=> Armed(g) \/ g = fd
                     /\ Batched(g)' <=> Batched(g)
                     /\ Queued(g)' <=> Queued(g)
                     /\ Held(g)' <=> Held(g)
  BY <1>1, <1>3 DEF Armed, Batched, Queued, Held, IInv, TypeOK
<1>5. \A g \in Fds : sock'[g] <=> sock[g] \/ g = fd
  BY <1>1 DEF IInv, TypeOK
<1>6. Owned' /\ Exclusive'
  BY <1>2, <1>4, <1>5 DEF IInv, Own, Owned, Exclusive
<1>7. Once'
  BY <1>1, <1>3 DEF IInv, Own, Once
<1>8. Closing'
  <2>1. \A p \in Procs : pc[p] = "close" => cur[p] # fd
    BY <1>2 DEF Held, Holds, Holding
  <2>2. \A g \in Fds : g # fd => /\ sock'[g] = sock[g] /\ closed'[g] = closed[g]
                                 /\ interest'[g] = interest[g]
    BY <1>1 DEF IInv, TypeOK
  <2>3. sock'[fd] /\ ~closed'[fd] /\ interest'[fd] = "in"
    BY <1>1 DEF IInv, TypeOK
  <2>4. \A p \in Procs : pc[p] = "close" => cur[p] \in Fds
    BY DEF IInv, Placed, Holding
  <2>5. QED
    BY <1>1, <2>1, <2>2, <2>3, <2>4 DEF IInv, Closing, NoLeakedDescriptor
<1>9. Placed' /\ NoTimer'
  BY <1>1 DEF IInv, Placed, NoTimer
<1>10. QED
  BY <1>6, <1>7, <1>8, <1>9 DEF Own

(* The head of the queue is in a worker's hands.                           *)
LEMMA TakeFact ==
  ASSUME IInv, NEW w \in Workers, Take(w)
  PROVE  Placed' /\ Own' /\ Closing'
<1> DEFINE fd == Head(queue)[1]
           n == Len(queue)
<1>1. /\ queue \in Seq(Fds \X {"read", "write"}) /\ n \in Nat /\ n >= 1
      /\ DOMAIN queue = 1 .. n /\ 1 \in DOMAIN queue
      /\ queue[1][1] = fd /\ fd \in Fds /\ Head(queue)[2] \in {"read", "write"}
  <2>1. queue \in Seq(Fds \X {"read", "write"}) /\ queue # <<>>
    BY DEF Take, IInv, TypeOK
  <2>2. Head(queue) \in Fds \X {"read", "write"} /\ Head(queue) = queue[1]
    BY <2>1
  <2>3. n \in Nat /\ n >= 1 /\ DOMAIN queue = 1 .. n /\ 1 \in DOMAIN queue
    BY <2>1
  <2>4. QED
    BY <2>1, <2>2, <2>3
<1>2. /\ DOMAIN queue' = 1 .. n - 1
      /\ \A i \in 1 .. n - 1 : i + 1 \in DOMAIN queue /\ queue'[i] = queue[i + 1]
      /\ \A i \in DOMAIN queue : i # 1 => i - 1 \in 1 .. n - 1 /\ queue'[i - 1] = queue[i]
  <2>1. queue' = Tail(queue)
    BY DEF Take
  <2>2. DOMAIN queue' = 1 .. n - 1 /\ \A i \in 1 .. n - 1 : queue'[i] = queue[i + 1]
    BY <1>1, <2>1
  <2>3. QED
    BY <1>1, <2>2
<1>3. /\ w \in Procs /\ pc[w] = "idle" /\ cur[w] = ListenFd
      /\ pc' = [pc EXCEPT ![w] = Head(queue)[2]] /\ cur' = [cur EXCEPT ![w] = fd]
      /\ UNCHANGED <<sock, interest, closed, batch>>
      /\ w # Main
  BY ServerAssumption DEF Take, Goto, user, Procs, IInv, Placed, Holding
<1> HIDE DEF fd, n
<1>4. pc'[w] \in {"read", "write"} /\ cur'[w] = fd
  BY <1>1, <1>3 DEF IInv, TypeOK
<1>5. \A p \in Procs : p # w => pc'[p] = pc[p] /\ cur'[p] = cur[p]
  BY <1>3 DEF IInv, TypeOK
<1>6. Queued(fd) /\ sock[fd] /\ ~Armed(fd) /\ ~Batched(fd) /\ ~Held(fd)
  BY <1>1 DEF Queued, IInv, Own, Owned, Exclusive
<1>7. /\ \A g \in Fds : Queued(g)' <=> Queued(g) /\ g # fd
      /\ \A i, j \in DOMAIN queue' : queue'[i][1] = queue'[j][1] => i = j
  <2>1. \A i, j \in DOMAIN queue : queue[i][1] = queue[j][1] => i = j
    BY DEF IInv, Own, Once
  <2>2. \A i \in DOMAIN queue' : i + 1 # 1
    BY <1>1, <1>2
  <2>3. ASSUME NEW g \in Fds PROVE Queued(g)' <=> Queued(g) /\ g # fd
    <3>1. ASSUME NEW i \in DOMAIN queue', queue'[i][1] = g PROVE Queued(g) /\ g # fd
      <4>1. i + 1 \in DOMAIN queue /\ queue[i + 1][1] = g /\ i + 1 # 1
        BY <3>1, <1>2, <2>2
      <4>2. queue[i + 1][1] # fd
        BY <4>1, <1>1, <2>1
      <4>3. QED
        BY <4>1, <4>2 DEF Queued
    <3>2. ASSUME NEW i \in DOMAIN queue, queue[i][1] = g, g # fd PROVE Queued(g)'
      <4>1. i # 1
        BY <3>2, <1>1
      <4>2. QED
        BY <4>1, <3>2, <1>2 DEF Queued
    <3>3. QED
      BY <3>1, <3>2 DEF Queued
  <2>4. ASSUME NEW i \in DOMAIN queue', NEW j \in DOMAIN queue', queue'[i][1] = queue'[j][1]
        PROVE  i = j
    <3>1. i + 1 = j + 1
      BY <2>1, <2>4, <1>2
    <3>2. QED
      BY <3>1, <1>1, <1>2
  <2>5. QED
    BY <2>3, <2>4
<1>8. \A g \in Fds, p \in Procs : Holds(p, g)' <=> Holds(p, g) \/ (p = w /\ g = fd)
  <2>1. \A g \in Fds : ~Holds(w, g)
    BY <1>3 DEF Holds, Holding
  <2>2. QED
    BY <2>1, <1>4, <1>5 DEF Holds, Holding
<1>9. \A g \in Fds : /\ Armed(g)' <=> Armed(g)
                     /\ Batched(g)' <=> Batched(g)
                     /\ Held(g)' <=> Held(g) \/ g = fd
  BY <1>3, <1>8 DEF Armed, Batched, Held
<1>10. Owned' /\ Exclusive'
  BY <1>1, <1>3, <1>6, <1>7, <1>9 DEF IInv, Own, Owned, Exclusive
<1>11. Once'
  <2>1. \A p \in Procs : ~Holds(p, fd)
    BY <1>6 DEF Held
  <2>2. QED
    BY <2>1, <1>3, <1>7, <1>8 DEF IInv, Own, Once
<1>12. Placed'
  BY <1>1, <1>3, <1>4, <1>5 DEF IInv, Placed, Holding
<1>13. Closing'
  BY <1>3, <1>4, <1>5 DEF IInv, Closing, NoLeakedDescriptor
<1>14. QED
  BY <1>10, <1>11, <1>12, <1>13 DEF Own

(* ModFd: the connection goes from a worker's hands back to epoll.         *)
LEMMA ModFdFact ==
  ASSUME IInv, NEW w \in Workers, ModFd(w)
  PROVE  Placed' /\ Own' /\ Closing'
<1> DEFINE fd == cur[w]
<1>1. /\ w \in Procs /\ w # Main /\ pc[w] \in {"armIn", "armOut"} /\ pc[w] \in Holding
      /\ UNCHANGED <<sock, closed, batch, queue>>
  BY ServerAssumption DEF ModFd, Procs, Holding, user
<1>2. /\ fd \in Fds /\ sock[fd] /\ ~Armed(fd) /\ ~Batched(fd) /\ ~Queued(fd)
      /\ \A q \in Procs : Holds(q, fd) => q = w
      /\ ~closed[fd] /\ interest[fd] = "off"
  BY <1>1, HandFact
<1>3. /\ interest'[fd] \in {"in", "out"}
      /\ \A g \in Fds : g # fd => interest'[g] = interest[g]
  BY <1>1, <1>2 DEF ModFd, IInv, TypeOK
<1>4. pc'[w] = "idle" /\ cur'[w] = ListenFd
  BY <1>1 DEF ModFd, Release, Goto, IInv, TypeOK
<1>5. \A p \in Procs : p # w => pc'[p] = pc[p] /\ cur'[p] = cur[p]
  BY <1>1 DEF ModFd, Release, Goto, IInv, TypeOK
<1> HIDE DEF fd
<1>6. \A g \in Fds, p \in Procs : Holds(p, g)' <=> Holds(p, g) /\ p # w
  BY <1>4, <1>5 DEF Holds, Holding
<1>7. \A g \in Fds : Holds(w, g) => g = fd
  BY DEF Holds, fd
<1>8. \A g \in Fds : /\ Armed(g)' <=> Armed(g) \/ g = fd
                     /\ Batched(g)' <=> Batched(g)
                     /\ Queued(g)' <=> Queued(g)
                     /\ Held(g)' <=> Held(g) /\ g # fd
  BY <1>1, <1>2, <1>3, <1>6, <1>7 DEF Armed, Batched, Queued, Held
<1>9. Owned' /\ Exclusive'
  BY <1>1, <1>2, <1>8 DEF IInv, Own, Owned, Exclusive
<1>10. Once'
  BY <1>1, <1>6 DEF IInv, Own, Once
<1>11. Placed'
  BY <1>1, <1>4, <1>5 DEF IInv, Placed, Holding, Procs
<1>12. Closing'
  BY <1>1, <1>2, <1>3, <1>4, <1>5 DEF IInv, Closing, NoLeakedDescriptor
<1>13. QED
  BY <1>9, <1>10, <1>11, <1>12 DEF Own

(* close(fd_): nobody has the number any more.                             *)
LEMMA CloseFdFact ==
  ASSUME IInv, NEW p \in Procs, CloseFd(p)
  PROVE  Placed' /\ Own' /\ Closing'
<1> DEFINE fd == cur[p]
<1>1. /\ pc[p] = "close" /\ pc[p] \in Holding
      /\ sock' = [sock EXCEPT ![fd] = FALSE] /\ interest' = [interest EXCEPT ![fd] = "none"]
      /\ pc' = [pc EXCEPT ![p] = "init"]
      /\ UNCHANGED <<closed, batch, queue, cur>>
  BY DEF CloseFd, Goto, user, Holding
<1>2. /\ fd \in Fds /\ sock[fd] /\ ~Armed(fd) /\ ~Batched(fd) /\ ~Queued(fd)
      /\ \A q \in Procs : Holds(q, fd) => q = p
      /\ closed[fd]
  BY <1>1, HandFact DEF IInv, Closing
<1>3. /\ ~sock'[fd] /\ interest'[fd] = "none"
      /\ \A g \in Fds : g # fd => sock'[g] = sock[g] /\ interest'[g] = interest[g]
  BY <1>1, <1>2 DEF IInv, TypeOK
<1>4. pc'[p] = "init" /\ \A q \in Procs : q # p => pc'[q] = pc[q]
  BY <1>1 DEF IInv, TypeOK
<1> HIDE DEF fd
<1>5. \A g \in Fds, q \in Procs : Holds(q, g)' <=> Holds(q, g) /\ q # p
  BY <1>1, <1>4 DEF Holds, Holding
<1>6. \A g \in Fds : Holds(p, g) => g = fd
  BY DEF Holds, fd
<1>7. \A g \in Fds : /\ Armed(g)' <=> Armed(g) /\ g # fd
                     /\ Batched(g)' <=> Batched(g)
                     /\ Queued(g)' <=> Queued(g)
                     /\ Held(g)' <=> Held(g) /\ g # fd
  BY <1>1, <1>2, <1>3, <1>5, <1>6 DEF Armed, Batched, Queued, Held
<1>8. Owned' /\ Exclusive'
  BY <1>2, <1>3, <1>7 DEF IInv, Own, Owned, Exclusive
<1>9. Once'
  BY <1>1, <1>5 DEF IInv, Own, Once
<1>10. Placed'
  BY <1>1, <1>4 DEF IInv, Placed, Holding
<1>11. Closing'
  <2>1. \A q \in Procs : pc'[q] = "close" => pc[q] = "close" /\ q # p
    BY <1>4
  <2>2. \A g \in Fds, q \in Procs :
           g # fd /\ cur[q] = g /\ pc[q] \in {"check", "mark", "close"} => q # p /\ pc'[q] = pc[q]
    BY <1>4, <1>6 DEF Holds, Holding
  <2>3. QED
    BY <1>1, <1>2, <1>3, <2>1, <2>2 DEF IInv, Closing, NoLeakedDescriptor
<1>12. QED
  BY <1>8, <1>9, <1>10, <1>11 DEF Own

(* The other steps of closing: the connection stays in the same hands, or  *)
(* has left them.                                                          *)
LEMMA CloseFact ==
  ASSUME IInv, NEW p \in Procs, Close(p)
  PROVE  Placed' /\ Own' /\ Closing'
<1>1. CASE DelFd(p)
  <2>1. /\ pc[p] = "del" /\ pc[p] \in Holding /\ "check" \in Holding
        /\ pc' = [pc EXCEPT ![p] = "check"]
        /\ interest' = [interest EXCEPT ![cur[p]] = "none"]
        /\ UNCHANGED <<sock, closed, batch, queue, cur>>
    BY <1>1 DEF DelFd, Goto, user, Holding
  <2>2. Own' /\ Placed'
    BY <2>1, GoOnFact
  <2>3. Closing'
    <3>1. pc'[p] = "check" /\ \A q \in Procs : q # p => pc'[q] = pc[q]
      BY <2>1 DEF IInv, TypeOK
    <3>2. \A fd \in Fds : fd # cur[p] => interest'[fd] = interest[fd]
      BY <2>1 DEF IInv, TypeOK
    <3>3. sock[cur[p]] /\ ~closed[cur[p]]
      BY <2>1, HandFact
    <3>4. QED
      BY <2>1, <3>1, <3>2, <3>3 DEF IInv, Closing, NoLeakedDescriptor
  <2>4. QED
    BY <2>2, <2>3
<1>2. CASE CheckClosed(p)
  <2>1. pc[p] = "check" /\ pc[p] \in Holding /\ "mark" \in Holding
    BY <1>2 DEF CheckClosed, Holding
  <2>2. ~closed[cur[p]]
    BY <2>1, HandFact
  <2>3. /\ pc' = [pc EXCEPT ![p] = "mark"]
        /\ UNCHANGED <<sock, interest, closed, batch, queue, cur>>
    BY <1>2, <2>2 DEF CheckClosed, Goto, user
  <2>4. Own' /\ Placed'
    BY <2>1, <2>3, GoOnFact
  <2>5. Closing'
    <3>1. pc'[p] = "mark" /\ \A q \in Procs : q # p => pc'[q] = pc[q]
      BY <2>3 DEF IInv, TypeOK
    <3>2. QED
      BY <2>1, <2>3, <3>1 DEF IInv, Closing, NoLeakedDescriptor
  <2>6. QED
    BY <2>4, <2>5
<1>3. CASE MarkClosed(p)
  <2>1. /\ pc[p] = "mark" /\ pc[p] \in Holding /\ "close" \in Holding
        /\ pc' = [pc EXCEPT ![p] = "close"]
        /\ closed' = [closed EXCEPT ![cur[p]] = TRUE]
        /\ UNCHANGED <<sock, interest, batch, queue, cur>>
    BY <1>3 DEF MarkClosed, Goto, Holding
  <2>2. Own' /\ Placed'
    BY <2>1, GoOnFact
  <2>3. Closing'
    <3>1. pc'[p] = "close" /\ \A q \in Procs : q # p => pc'[q] = pc[q]
      BY <2>1 DEF IInv, TypeOK
    <3>2. closed'[cur[p]] /\ \A fd \in Fds : fd # cur[p] => closed'[fd] = closed[fd]
      BY <2>1, HandFact DEF IInv, TypeOK
    <3>3. \A q \in Procs : pc[q] = "close" => cur[q] \in Fds
      BY DEF IInv, Placed, Holding
    <3>4. QED
      BY <2>1, <3>1, <3>2, <3>3 DEF IInv, Closing, NoLeakedDescriptor
  <2>4. QED
    BY <2>2, <2>3
<1>4. CASE CloseFd(p)
  BY <1>4, CloseFdFact
<1>5. CASE InitRequest(p)
  <2>1. /\ pc[p] = "init" /\ UNCHANGED <<sock, interest, closed, batch, queue>>
        /\ pc' = [pc EXCEPT ![p] = IF p = Main THEN "dispatch" ELSE "idle"]
        /\ cur' = [cur EXCEPT ![p] = ListenFd]
    BY <1>5 DEF InitRequest, Release, Goto
  <2>2. /\ pc'[p] \in {"dispatch", "idle"} /\ cur'[p] = ListenFd
        /\ \A q \in Procs : q # p => pc'[q] = pc[q] /\ cur'[q] = cur[q]
    BY <2>1 DEF IInv, TypeOK
  <2>3. pc'[Main] = "top" => pc[Main] = "top"
    BY <2>2 DEF Procs
  <2>4. \A fd \in Fds, q \in Procs : Holds(q, fd)' <=> Holds(q, fd)
    BY <2>1, <2>2 DEF Holds, Holding
  <2>5. \A fd \in Fds : /\ Armed(fd)' <=> Armed(fd)
                        /\ Batched(fd)' <=> Batched(fd)
                        /\ Queued(fd)' <=> Queued(fd)
                        /\ Held(fd)' <=> Held(fd)
    BY <2>1, <2>4 DEF Armed, Batched, Queued, Held
  <2>6. Own'
    BY <2>1, <2>4, <2>5 DEF IInv, Own, Owned, Exclusive, Once
  <2>7. Placed'
    BY <2>1, <2>2, <2>3 DEF IInv, Placed, Holding
  <2>8. Closing'
    BY <2>1, <2>2 DEF IInv, Closing, NoLeakedDescriptor
  <2>9. QED
    BY <2>6, <2>7, <2>8
<1>6. QED
  BY <1>1, <1>2, <1>3, <1>4, <1>5 DEF Close

(* A worker goes on with its connection.                                   *)
LEMMA WorkFact ==
  ASSUME IInv, NEW w \in Workers,
         Read(w) \/ Process(w) \/ WriteAll(w) \/ WriteBlocks(w) \/ WriteFails(w)
  PROVE  Placed' /\ Own' /\ Closing'
<1>1. w \in Procs /\ pc[w] \in {"read", "process", "write"} /\ pc[w] \in Holding
  BY DEF Read, Process, WriteAll, WriteBlocks, WriteFails, Procs, Holding
<1>2. UNCHANGED <<sock, interest, closed, batch, queue, cur>>
  BY DEF Read, Process, WriteAll, WriteBlocks, WriteFails, user
<1>3. PICK l \in {"process", "armIn", "armOut", "del"} : pc' = [pc EXCEPT ![w] = l]
  BY DEF Read, Process, WriteAll, WriteBlocks, WriteFails, Goto
<1>4. l \in Holding
  BY DEF Holding
<1>5. Own' /\ Placed'
  BY <1>1, <1>2, <1>3, <1>4, GoOnFact
<1>6. Closing'
  <2>1. /\ pc'[w] \notin {"check", "mark", "close"}
        /\ \A q \in Procs : q # w => pc'[q] = pc[q]
    BY <1>1, <1>3 DEF IInv, TypeOK
  <2>2. QED
    BY <1>1, <1>2, <2>1 DEF IInv, Closing, NoLeakedDescriptor
<1>7. QED
  BY <1>5, <1>6

(* Every step of a server without a timeout.                               *)
LEMMA OwnershipFact ==
  ASSUME IInv, [Next]_vars
  PROVE  IInv'
<1>1. TypeOK'
  BY TypeFact DEF IInv
<1>2. CASE ClientStep \/ UNCHANGED vars
  <2>1. UNCHANGED <<sock, interest, closed, timer, config, batch, queue, pc, cur>>
    BY <1>2 DEF ClientStep, Connect, Send, HangUp, Drain, vars, client, user, timers
  <2>2. QED
    BY <2>1, <1>1, AsideFact DEF IInv
<1>3. CASE MainStep
  <2>1. CASE \E fd \in Fds : Timeout(fd)
    BY <2>1 DEF Timeout, IInv, NoTimer
  <2>2. CASE Wait
    BY <2>2, <1>1, WaitFact DEF Wait, timers, IInv, NoTimer
  <2>3. CASE \E fd \in Fds \cup {ListenFd}, kind \in {"listen", "disconnect", "read", "write"} :
               Dispatch(fd, kind)
    BY <2>3, <1>1, DispatchFact DEF Dispatch, timers, IInv, NoTimer
  <2>4. CASE BatchDone \/ AcceptBusy \/ AcceptFails
    <3>1. /\ UNCHANGED <<sock, interest, closed, timer, config, batch, queue, cur>>
          /\ pc[Main] \in {"dispatch", "accept"}
          /\ \E l \in {"top", "dispatch"} :
               pc' = [pc EXCEPT ![Main] = l] /\ (l = "top" => batch = {})
      BY <2>4 DEF BatchDone, AcceptBusy, AcceptFails, Goto, user, timers
    <3>2. QED
      BY <3>1, <1>1, AsideFact DEF IInv
  <2>5. CASE \E fd \in Fds : Accept(fd)
    BY <2>5, <1>1, AcceptFact DEF IInv
  <2>6. CASE Close(Main)
    <3>1. Main \in Procs /\ UNCHANGED timers
      BY <2>6 DEF Procs, Close, DelFd, CheckClosed, MarkClosed, CloseFd, InitRequest
    <3>2. QED
      BY <2>6, <3>1, <1>1, CloseFact DEF timers, IInv, NoTimer
  <2>7. QED
    BY <2>1, <2>2, <2>3, <2>4, <2>5, <2>6, <1>3 DEF MainStep
<1>4. ASSUME NEW w \in Workers, WorkerStep(w) PROVE IInv'
  <2>1. w \in Procs /\ UNCHANGED timers
    BY <1>4 DEF Procs, WorkerStep, Take, Read, Process, WriteAll, WriteBlocks, WriteFails,
                ModFd, Close, DelFd, CheckClosed, MarkClosed, CloseFd, InitRequest
  <2>2. Placed' /\ Own' /\ Closing'
    BY <1>4, <2>1, TakeFact, WorkFact, ModFdFact, CloseFact DEF WorkerStep
  <2>3. QED
    BY <2>1, <2>2, <1>1 DEF timers, IInv, NoTimer
<1>5. QED
  BY <1>2, <1>3, <1>4 DEF Next

(* In the beginning there are no connections.                              *)
LEMMA InitFact == ASSUME Init, ~config.timeout PROVE IInv
<1>1. /\ \A fd \in Fds : ~sock[fd] /\ closed[fd] /\ interest[fd] = "none"
      /\ timer = {} /\ batch = {} /\ queue = <<>>
  BY DEF Init
<1>2. \A p \in Procs : pc[p] \in {"top", "idle"} /\ cur[p] = ListenFd
  BY DEF Init
<1>3. \A fd \in Fds : ~Armed(fd) /\ ~Batched(fd) /\ ~Queued(fd) /\ ~Held(fd)
  <2>1. DOMAIN queue = {}
    BY <1>1
  <2>2. QED
    BY <2>1, <1>1, <1>2 DEF Armed, Batched, Queued, Held, Holds, Holding
<1>4. Own
  <2>1. DOMAIN queue = {}
    BY <1>1
  <2>2. QED
    BY <2>1, <1>1, <1>2, <1>3 DEF Own, Owned, Exclusive, Once, Holds, Holding
<1>5. Placed
  BY <1>1, <1>2 DEF Placed, Holding
<1>6. Closing
  BY <1>1, <1>2 DEF Closing, NoLeakedDescriptor
<1>7. QED
  BY <1>1, <1>4, <1>5, <1>6, InitTypeFact DEF IInv, NoTimer

(* Nothing changes the configuration.                                      *)
LEMMA ConfigFact == [Next]_vars => config' = config
<1> USE DEF timers
<1>1. \A p \in Procs : Close(p) => config' = config
  BY DEF Close, DelFd, CheckClosed, MarkClosed, CloseFd, InitRequest
<1>2. MainStep => config' = config
  <2>1. Main \in Procs
    BY DEF Procs
  <2>2. QED
    BY <2>1, <1>1 DEF MainStep, Timeout, Wait, Dispatch, BatchDone, Accept, AcceptBusy, AcceptFails
<1>3. \A w \in Workers : WorkerStep(w) => config' = config
  BY <1>1 DEF WorkerStep, Take, Read, Process, WriteAll, WriteBlocks, WriteFails, ModFd, Procs
<1>4. ClientStep \/ UNCHANGED vars => config' = config
  BY DEF ClientStep, Connect, Send, HangUp, Drain, vars
<1>5. QED
  BY <1>2, <1>3, <1>4 DEF Next

(* Every state of a server without a timeout.                              *)
THEOREM OwnershipInvariant == Spec => [](~config.timeout => IInv)
<1>1. Init => (~config.timeout => IInv)
  BY InitFact
<1>2. (~config.timeout => IInv) /\ [Next]_vars => (~config.timeout => IInv)'
  BY OwnershipFact, ConfigFact
<1>3. QED
  BY <1>1, <1>2, PTL DEF Spec

(* The four places, counted.                                               *)
LEMMA HoldersFact ==
  ASSUME IInv, NEW fd \in Fds
  PROVE  Cardinality(Holders(fd)) = IF sock[fd] THEN 1 ELSE 0
<1> DEFINE E == IF interest[fd] \in {"in", "out"} THEN {<<"epoll">>} ELSE {}
           B == {<<"batch", e>> : e \in {x \in batch : x[1] = fd}}
           Q == {<<"queue", i>> : i \in {j \in DOMAIN queue : queue[j][1] = fd}}
           T == {<<"thread", p>> : p \in {q \in Procs : cur[q] = fd /\ pc[q] \in Holding}}
<1>1. Holders(fd) = E \cup B \cup Q \cup T
  BY DEF Holders
<1>2. /\ Armed(fd) => E = {<<"epoll">>}
      /\ ~Armed(fd) => E = {}
  BY DEF Armed
<1>3. /\ Batched(fd) => \E e : B = {<<"batch", e>>}
      /\ ~Batched(fd) => B = {}
  <2> DEFINE S == {x \in batch : x[1] = fd}
  <2>1. ~Batched(fd) => S = {}
    BY DEF Batched
  <2>2. Batched(fd) => \E e : S = {e}
    BY DEF Batched, IInv, Own, Once
  <2>3. B = {<<"batch", e>> : e \in S}
    OBVIOUS
  <2> HIDE DEF S, B
  <2>4. QED
    BY <2>1, <2>2, <2>3
<1>4. /\ Queued(fd) => \E i : Q = {<<"queue", i>>}
      /\ ~Queued(fd) => Q = {}
  BY DEF Queued, IInv, Own, Once
<1>5. /\ Held(fd) => \E p : T = {<<"thread", p>>}
      /\ ~Held(fd) => T = {}
  <2> DEFINE S == {q \in Procs : cur[q] = fd /\ pc[q] \in Holding}
  <2>1. S = {q \in Procs : Holds(q, fd)}
    BY DEF Holds
  <2>2. T = {<<"thread", p>> : p \in S}
    OBVIOUS
  <2> HIDE DEF S, T
  <2>3. ~Held(fd) => S = {}
    BY <2>1 DEF Held
  <2>4. Held(fd) => \E p : S = {p}
    BY <2>1 DEF Held, IInv, Own, Once
  <2>5. QED
    BY <2>2, <2>3, <2>4
<1> HIDE DEF E, B, Q, T
<1>6. CASE sock[fd]
  <2>1. \E h : Holders(fd) = {h}
    <3>1. CASE Armed(fd)
      BY <3>1, <1>1, <1>2, <1>3, <1>4, <1>5 DEF IInv, Own, Exclusive
    <3>2. CASE Batched(fd)
      BY <3>2, <1>1, <1>2, <1>3, <1>4, <1>5 DEF IInv, Own, Exclusive
    <3>3. CASE Queued(fd)
      BY <3>3, <1>1, <1>2, <1>3, <1>4, <1>5 DEF IInv, Own, Exclusive
    <3>4. CASE Held(fd)
      BY <3>4, <1>1, <1>2, <1>3, <1>4, <1>5 DEF IInv, Own, Exclusive
    <3>5. QED
      BY <3>1, <3>2, <3>3, <3>4, <1>6 DEF IInv, Own, Owned
  <2>2. QED
    BY <2>1, <1>6, FS_Singleton
<1>7. CASE ~sock[fd]
  <2>1. Holders(fd) = {}
    BY <1>1, <1>2, <1>3, <1>4, <1>5, <1>7 DEF IInv, Own, Owned
  <2>2. QED
    BY <2>1, <1>7, FS_EmptySet
<1>8. QED
  BY <1>6, <1>7

(* A connection is always in exactly one place, from accept() to close()   *)
(* (EPOLLONESHOT, http_server.cpp:171-340, for a server without a timeout).*)
THEOREM OneOwner == Spec => []ExactlyOneOwner
<1>1. (~config.timeout => IInv) => ExactlyOneOwner
  BY HoldersFact DEF ExactlyOneOwner
<1>2. QED
  BY <1>1, OwnershipInvariant, PTL

----------------------------------------------------------------------------
(***************************************************************************)
(* The number of users                                                     *)
(***************************************************************************)

Users == {fd \in Fds : ~closed[fd]}

(* Accept adds one, MarkClosed takes one away, and nothing else counts.    *)
LEMMA CountFact ==
  ASSUME IInv, userCount = Cardinality(Users), [Next]_vars
  PROVE  userCount' = Cardinality(Users')
<1>1. IsFiniteSet(Users)
  <2>1. Users \subseteq Fds
    BY DEF Users
  <2>2. QED
    BY <2>1, FS_Subset, ServerAssumption
<1>2. CASE closed' = closed /\ userCount' = userCount
  BY <1>2 DEF Users
<1>3. ASSUME NEW fd \in Fds, Accept(fd) PROVE userCount' = Cardinality(Users')
  <2>1. closed[fd] /\ closed' = [closed EXCEPT ![fd] = FALSE] /\ userCount' = userCount + 1
    BY <1>3 DEF Accept, AddClient, IInv, Closing
  <2>2. fd \notin Users /\ Users' = Users \cup {fd}
    BY <2>1 DEF Users, IInv, TypeOK
  <2>3. Cardinality(Users \cup {fd}) = Cardinality(Users) + 1
    BY <2>2, <1>1, FS_AddElement
  <2>4. userCount' = Cardinality(Users')
    BY <2>1, <2>2, <2>3, <1>1
  <2>5. QED
    BY <2>4
<1>4. ASSUME NEW p \in Procs, MarkClosed(p) PROVE userCount' = Cardinality(Users')
  <2>1. /\ pc[p] \in Holding /\ pc[p] # "close"
        /\ closed' = [closed EXCEPT ![cur[p]] = TRUE] /\ userCount' = userCount - 1
    BY <1>4 DEF MarkClosed, Holding
  <2>2. cur[p] \in Fds /\ ~closed[cur[p]]
    BY <2>1, HandFact
  <2>3. cur[p] \in Users /\ Users' = Users \ {cur[p]}
    BY <2>1, <2>2 DEF Users, IInv, TypeOK
  <2>4. Cardinality(Users \ {cur[p]}) = Cardinality(Users) - 1
    BY <2>3, <1>1, FS_RemoveElement
  <2>5. userCount' = Cardinality(Users')
    BY <2>1, <2>3, <2>4, <1>1
  <2>6. QED
    BY <2>5
<1>5. ASSUME NEW p \in Procs, Close(p), ~MarkClosed(p)
      PROVE  closed' = closed /\ userCount' = userCount
  BY <1>5 DEF Close, DelFd, CheckClosed, CloseFd, InitRequest, user
<1>6. CASE MainStep
  <2>1. CASE Close(Main)
    BY <2>1, <1>2, <1>4, <1>5 DEF Procs
  <2>2. CASE ~Close(Main)
    BY <2>2, <1>2, <1>3, <1>6
       DEF MainStep, Timeout, Wait, Dispatch, BatchDone, AcceptBusy, AcceptFails, user
  <2>3. QED
    BY <2>1, <2>2
<1>7. ASSUME NEW w \in Workers, WorkerStep(w) PROVE userCount' = Cardinality(Users')
  <2>1. CASE Close(w)
    BY <2>1, <1>2, <1>4, <1>5 DEF Procs
  <2>2. CASE ~Close(w)
    BY <2>2, <1>2, <1>7
       DEF WorkerStep, Take, Read, Process, WriteAll, WriteBlocks, WriteFails, ModFd, user
  <2>3. QED
    BY <2>1, <2>2
<1>8. CASE ClientStep \/ UNCHANGED vars
  BY <1>2, <1>8 DEF ClientStep, Connect, Send, HangUp, Drain, vars, user
<1>9. QED
  BY <1>6, <1>7, <1>8 DEF Next

(* user_count is the number of connections that are not closed             *)
(* (http_conn.cpp:33 and 99, for a server without a timeout).          *)
THEOREM CountExact == Spec => []UserCountExact
<1>1. Init => UserCountExact
  <2> SUFFICES ASSUME Init PROVE UserCountExact
    OBVIOUS
  <2>1. Users = {} /\ userCount = 0
    BY DEF Init, Users
  <2>2. QED
    BY <2>1, FS_EmptySet DEF UserCountExact, Users
<1>2. (~config.timeout => IInv) /\ UserCountExact /\ [Next]_vars => UserCountExact'
  BY CountFact, ConfigFact DEF UserCountExact, Users
<1>3. QED
  BY <1>1, <1>2, OwnershipInvariant, PTL DEF Spec

(* Nobody is turned away while fewer than the limit are connected          *)
(* (http_server.cpp:204-209, for a server without a timeout).              *)
THEOREM RefusalsAreJust == Spec => UntimedRefusesOnlyWhenFull
<1> DEFINE Open == {fd \in Fds : sock[fd]}
<1>1. (~config.timeout => IInv) /\ UserCountExact /\ TypeOK => (~config.timeout => RefusalIsJust)
  <2> SUFFICES ASSUME ~config.timeout, IInv, UserCountExact, TypeOK, AcceptBusy
               PROVE  Cardinality(Open) >= config.users
    BY DEF RefusalIsJust
  <2>1. config.users \in Nat
    BY ServerAssumption DEF TypeOK
  <2>2. Users \subseteq Open /\ IsFiniteSet(Open)
    <3>1. Open \subseteq Fds
      OBVIOUS
    <3>2. IsFiniteSet(Open)
      BY <3>1, FS_Subset, ServerAssumption
    <3>3. QED
      BY <3>2 DEF Users, IInv, Closing
  <2>3. /\ Cardinality(Users) <= Cardinality(Open)
        /\ Cardinality(Users) \in Nat /\ Cardinality(Open) \in Nat
    <3>1. IsFiniteSet(Users)
      BY <2>2, FS_Subset
    <3>2. QED
      BY <2>2, <3>1, FS_Subset, FS_CardinalityType
  <2>4. userCount = Cardinality(Users) /\ (userCount < 0 \/ userCount >= config.users)
    BY DEF UserCountExact, Users, AcceptBusy, AtLimit
  <2> HIDE DEF Open
  <2>5. QED
    BY <2>1, <2>3, <2>4
<1>2. (~config.timeout => IInv) /\ UserCountExact /\ TypeOK /\ [Next]_vars
        => [~config.timeout => RefusalIsJust]_vars
  BY <1>1
<1>3. QED
  BY <1>2, OwnershipInvariant, CountExact, TypeCorrect, PTL DEF Spec, UntimedRefusesOnlyWhenFull
=============================================================================
