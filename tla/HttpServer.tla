----------------------------- MODULE HttpServer -----------------------------
(***************************************************************************)
(* HttpServer (Sources/server/http_server.{h,cpp}) serving static files:   *)
(* one reactor thread around epoll, a pool of workers, and what they share *)
(* through users_ (Sources/protocol/http/http_conn.{h,cpp}).               *)
(*                                                                         *)
(* A connection is registered EPOLLONESHOT, and whoever holds it after the *)
(* event has been delivered (the reactor's batch, then a queued task, then *)
(* a worker) hands it back with epoll_ctl(MOD) or closes it.  Everything   *)
(* is indexed by descriptor, as in the code: users_[fd] is one HttpConn    *)
(* that serves, one after the other, every connection the kernel gives     *)
(* the number fd.                                                          *)
(*                                                                         *)
(* A client sends a well-formed request in Parts pieces and does not send  *)
(* the next one before the answer.  Pieces stand for the bytes: `sent' of  *)
(* the current request have left the client, `got' of them are or have     *)
(* been in read_buff_, `taken' of them have been parsed, and `parsed' is   *)
(* how far the request is in the parser's eyes.                            *)
(***************************************************************************)
EXTENDS Integers, Sequences, FiniteSets

CONSTANTS
  Fds,       \* descriptors accept() may return
  ListenFd,  \* listenfd_
  Workers,   \* the pool's threads
  Main,      \* the reactor thread
  MaxParts,  \* bound on the pieces of a request
  MaxConns,  \* bound on the connections clients open
  Configs    \* with what the server may be started

ASSUME ServerAssumption ==
  /\ ListenFd \notin Fds
  /\ Main \notin Workers
  /\ IsFiniteSet(Fds)
  /\ MaxParts \in Nat \ {0}
  /\ MaxConns \in Nat
  /\ Configs \subseteq [timeout: BOOLEAN, pool: SUBSET Workers, users: Nat, parts: 1 .. MaxParts]

VARIABLES
  \* the kernel and the clients
  sock,      \* which descriptors are open
  interest,  \* epoll registration: "none", "off" (disarmed), "in" or "out"
  sent,      \* by descriptor: pieces of the current request the client sent
  hup,       \* the client has closed or reset the connection
  full,      \* the send buffer is full
  backlog,   \* connections waiting to be accepted
  edge,      \* the listening socket has a new edge
  conns,     \* connections opened so far
  \* users_[fd] and the server
  closed,    \* is_close_
  got,       \* pieces read into read_buff_
  taken,     \* pieces of the current request that have been parsed
  parsed,    \* pieces the parser has of the request; Parts is state FINISH
  resp,      \* a response is waiting to be written
  userCount, \* HttpConn::user_count
  timer,     \* descriptors with a node in the timer
  config,    \* what stays as it is: timeout_ > 0, the threads of the pool, kMaxFd,
             \* and in how many pieces the clients send a request
  \* the threads
  batch,     \* events of the last epoll_wait not yet dispatched
  queue,     \* the pool's tasks
  pc,        \* where each thread is
  cur        \* the connection it works on; ListenFd for none

client == <<sent, hup, full, backlog, conns>>
user == <<closed, got, taken, parsed, resp, userCount>>
timers == <<timer, config>>
vars == <<sock, interest, client, edge, user, timers, batch, queue, pc, cur>>

Procs == Workers \cup {Main}

Parts == config.parts

(* What epoll_wait reports of a connection: the state at the time of the   *)
(* call counts, because EPOLLONESHOT disarms at each report and MOD polls  *)
(* the socket again.                                                       *)
Event(fd) ==
  IF interest[fd] \in {"none", "off"} THEN "quiet"
  ELSE IF hup[fd] THEN "disconnect"
  ELSE CASE interest[fd] = "in" /\ got[fd] < sent[fd] -> "read"
         [] interest[fd] = "out" /\ ~full[fd] -> "write"
         [] OTHER -> "quiet"

ReadyFds == {fd \in Fds : Event(fd) # "quiet"}

ListenReady == edge /\ backlog > 0

Goto(p, l) == pc' = [pc EXCEPT ![p] = l]

(* The connection is off a thread's hands: the reactor goes back to its    *)
(* batch, a worker to the queue.                                           *)
Release(p) ==
  /\ Goto(p, IF p = Main THEN "dispatch" ELSE "idle")
  /\ cur' = [cur EXCEPT ![p] = ListenFd]

----------------------------------------------------------------------------
(***************************************************************************)
(* The clients                                                             *)
(***************************************************************************)

Connect ==
  /\ conns < MaxConns
  /\ conns' = conns + 1
  /\ backlog' = backlog + 1
  /\ edge' = TRUE
  /\ UNCHANGED <<sock, interest, sent, hup, full, user, timers, batch, queue, pc, cur>>

Send(fd) ==
  /\ sock[fd] /\ ~hup[fd]
  /\ sent[fd] < Parts
  /\ sent' = [sent EXCEPT ![fd] = @ + 1]
  /\ UNCHANGED <<sock, interest, hup, full, backlog, conns, edge, user, timers, batch, queue, pc, cur>>

HangUp(fd) ==
  /\ sock[fd] /\ ~hup[fd]
  /\ hup' = [hup EXCEPT ![fd] = TRUE]
  /\ UNCHANGED <<sock, interest, sent, full, backlog, conns, edge, user, timers, batch, queue, pc, cur>>

(* The client reads, and the send buffer has room again.                   *)
Drain(fd) ==
  /\ sock[fd] /\ full[fd]
  /\ full' = [full EXCEPT ![fd] = FALSE]
  /\ UNCHANGED <<sock, interest, sent, hup, backlog, conns, edge, user, timers, batch, queue, pc, cur>>

----------------------------------------------------------------------------
(***************************************************************************)
(* Run: the reactor                                                        *)
(***************************************************************************)

(* A timer expires and its callback is CloseConn.  Which timer, and how    *)
(* early, is left open: module HeapTimer shows that AdjustTimer may extend *)
(* another descriptor's.                                                   *)
Timeout(fd) ==
  /\ pc[Main] = "top"
  /\ fd \in timer
  /\ timer' = timer \ {fd}
  /\ cur' = [cur EXCEPT ![Main] = fd]
  /\ Goto(Main, "del")
  /\ UNCHANGED <<sock, interest, client, edge, user, config, batch, queue>>

(* Faulty: registered without EPOLLONESHOT.                                *)
Wait_NotOneShot ==
  /\ pc[Main] = "top"
  /\ ReadyFds # {} \/ ListenReady
  /\ batch' = {<<fd, Event(fd)>> : fd \in ReadyFds}
                \cup (IF ListenReady THEN {<<ListenFd, "listen">>} ELSE {})
  /\ edge' = FALSE
  /\ Goto(Main, "dispatch")
  /\ UNCHANGED <<sock, interest, client, user, timers, queue, cur>>

(* epoll_wait returns every ready descriptor at once, and disarms those    *)
(* that are EPOLLONESHOT.                                                  *)
Wait ==
  /\ pc[Main] = "top"
  /\ ReadyFds # {} \/ ListenReady
  /\ batch' = {<<fd, Event(fd)>> : fd \in ReadyFds}
                \cup (IF ListenReady THEN {<<ListenFd, "listen">>} ELSE {})
  /\ interest' = [fd \in Fds |-> IF fd \in ReadyFds THEN "off" ELSE interest[fd]]
  /\ edge' = FALSE
  /\ Goto(Main, "dispatch")
  /\ UNCHANGED <<sock, client, user, timers, queue, cur>>

(* DealRead and DealWrite: a task for the pool.                            *)
AddTask(fd, kind) == queue' = Append(queue, <<fd, kind>>)

(* Faulty: the hang-up of a client is no reason to close.                  *)
Dispatch_NoHangUp(fd, kind) ==
  /\ pc[Main] = "dispatch"
  /\ <<fd, kind>> \in batch
  /\ batch' = batch \ {<<fd, kind>>}
  /\ CASE kind = "listen" -> Goto(Main, "accept") /\ UNCHANGED queue
       [] kind = "disconnect" -> UNCHANGED <<pc, queue>>
       [] OTHER -> AddTask(fd, kind) /\ UNCHANGED pc
  /\ UNCHANGED <<sock, interest, client, edge, user, timers, cur>>

(* The events come in the order of the kernel's ready list: any order.     *)
Dispatch(fd, kind) ==
  /\ pc[Main] = "dispatch"
  /\ <<fd, kind>> \in batch
  /\ batch' = batch \ {<<fd, kind>>}
  /\ CASE kind = "listen" ->
            Goto(Main, "accept") /\ UNCHANGED <<queue, cur>>
       [] kind = "disconnect" ->
            Goto(Main, "del") /\ cur' = [cur EXCEPT ![Main] = fd] /\ UNCHANGED queue
       [] OTHER ->
            AddTask(fd, kind) /\ UNCHANGED <<pc, cur>>
  /\ UNCHANGED <<sock, interest, client, edge, user, timers>>

BatchDone ==
  /\ pc[Main] = "dispatch"
  /\ batch = {}
  /\ Goto(Main, "top")
  /\ UNCHANGED <<sock, interest, client, edge, user, timers, batch, queue, cur>>

(* Faulty: off by one.                                                     *)
AtLimit_OffByOne == userCount < 0 \/ userCount >= config.users - 1

(* user_count is an unsigned number: one less than none is past any limit. *)
AtLimit == userCount < 0 \/ userCount >= config.users

(* AddTimer gives fd a node of its own, or, where fd still has a map entry *)
(* from an earlier connection, the node that entry points at, which may be *)
(* the node of another descriptor (module HeapTimer).                      *)
AddTimer(fd) ==
  \E lost \in {{}} \cup {{g} : g \in timer} : timer' = (timer \ lost) \cup {fd}

(* A new connection waits for EPOLLIN, armed once.                         *)
AddFd(fd) == interest' = [interest EXCEPT ![fd] = "in"]

(* AddClient and HttpConn::Init set the connection up.  Init does not touch *)
(* request_: the parser is as the last connection on fd left it.           *)
AddClient(fd) ==
  /\ sock' = [sock EXCEPT ![fd] = TRUE]
  /\ sent' = [sent EXCEPT ![fd] = 0]
  /\ hup' = [hup EXCEPT ![fd] = FALSE]
  /\ full' = [full EXCEPT ![fd] = FALSE]
  /\ closed' = [closed EXCEPT ![fd] = FALSE]
  /\ got' = [got EXCEPT ![fd] = 0]
  /\ taken' = [taken EXCEPT ![fd] = 0]
  /\ resp' = [resp EXCEPT ![fd] = FALSE]
  /\ userCount' = userCount + 1
  /\ IF config.timeout THEN AddTimer(fd) ELSE UNCHANGED timer
  /\ AddFd(fd)

(* Faulty: one connection per event of the edge-triggered socket.          *)
Accept_Once(fd) ==
  /\ pc[Main] = "accept"
  /\ backlog > 0 /\ ~sock[fd]
  /\ ~AtLimit
  /\ backlog' = backlog - 1
  /\ AddClient(fd)
  /\ Goto(Main, "dispatch")
  /\ UNCHANGED <<conns, edge, parsed, config, batch, queue, cur>>

(* One iteration of DealListen's loop: accept() returns fd.                *)
Accept(fd) ==
  /\ pc[Main] = "accept"
  /\ backlog > 0 /\ ~sock[fd]
  /\ ~AtLimit
  /\ backlog' = backlog - 1
  /\ AddClient(fd)
  /\ UNCHANGED <<conns, edge, parsed, config, batch, queue, pc, cur>>

(* At the limit one connection is told "Server busy", and DealListen       *)
(* returns although others may wait.                                       *)
AcceptBusy ==
  /\ pc[Main] = "accept"
  /\ backlog > 0 /\ \E fd \in Fds : ~sock[fd]
  /\ AtLimit
  /\ backlog' = backlog - 1
  /\ Goto(Main, "dispatch")
  /\ UNCHANGED <<sock, interest, sent, hup, full, conns, edge, user, timers, batch, queue, cur>>

(* accept() fails: nobody waits, or the process is out of descriptors.     *)
AcceptFails ==
  /\ pc[Main] = "accept"
  /\ backlog = 0 \/ \A fd \in Fds : sock[fd]
  /\ Goto(Main, "dispatch")
  /\ UNCHANGED <<sock, interest, client, edge, user, timers, batch, queue, cur>>

----------------------------------------------------------------------------
(***************************************************************************)
(* CloseConn and HttpConn::Close, which the reactor and the workers run    *)
(***************************************************************************)

DelFd(p) ==
  /\ pc[p] = "del"
  /\ interest' = [interest EXCEPT ![cur[p]] = "none"]
  /\ Goto(p, "check")
  /\ UNCHANGED <<sock, client, edge, user, timers, batch, queue, cur>>

CheckClosed(p) ==
  /\ pc[p] = "check"
  /\ IF closed[cur[p]] THEN Release(p) ELSE Goto(p, "mark") /\ UNCHANGED cur
  /\ UNCHANGED <<sock, interest, client, edge, user, timers, batch, queue>>

(* Faulty: user_count is not decremented.                                  *)
MarkClosed_KeepCount(p) ==
  /\ pc[p] = "mark"
  /\ closed' = [closed EXCEPT ![cur[p]] = TRUE]
  /\ Goto(p, "close")
  /\ UNCHANGED <<sock, interest, client, edge, got, taken, parsed, resp, userCount,
                 timers, batch, queue, cur>>

(* Faulty: the descriptor is never closed.                                 *)
MarkClosed_NoClose(p) ==
  /\ pc[p] = "mark"
  /\ closed' = [closed EXCEPT ![cur[p]] = TRUE]
  /\ userCount' = userCount - 1
  /\ Goto(p, "init")
  /\ UNCHANGED <<sock, interest, client, edge, got, taken, parsed, resp, timers, batch, queue, cur>>

MarkClosed(p) ==
  /\ pc[p] = "mark"
  /\ closed' = [closed EXCEPT ![cur[p]] = TRUE]
  /\ userCount' = userCount - 1
  /\ Goto(p, "close")
  /\ UNCHANGED <<sock, interest, client, edge, got, taken, parsed, resp, timers, batch, queue, cur>>

(* close(fd_): from here on accept() may return the number again.          *)
CloseFd(p) ==
  /\ pc[p] = "close"
  /\ sock' = [sock EXCEPT ![cur[p]] = FALSE]
  /\ interest' = [interest EXCEPT ![cur[p]] = "none"]
  /\ Goto(p, "init")
  /\ UNCHANGED <<client, edge, user, timers, batch, queue, cur>>

InitRequest(p) ==
  /\ pc[p] = "init"
  /\ parsed' = [parsed EXCEPT ![cur[p]] = 0]
  /\ Release(p)
  /\ UNCHANGED <<sock, interest, client, edge, closed, got, taken, resp, userCount, timers, batch, queue>>

----------------------------------------------------------------------------
(***************************************************************************)
(* The workers                                                             *)
(***************************************************************************)

Take(w) ==
  /\ pc[w] = "idle" /\ w \in config.pool
  /\ queue # <<>>
  /\ queue' = Tail(queue)
  /\ cur' = [cur EXCEPT ![w] = Head(queue)[1]]
  /\ Goto(w, Head(queue)[2])
  /\ UNCHANGED <<sock, interest, client, edge, user, timers, batch>>

(* Faulty: what was read before is counted again.                          *)
Read_Twice(w) ==
  LET fd == cur[w]
  IN  /\ pc[w] = "read"
      /\ got' = [got EXCEPT ![fd] = IF sock[fd] THEN @ + sent[fd] ELSE @]
      /\ \/ sock[fd] /\ Goto(w, "process")
         \/ (~sock[fd] \/ hup[fd]) /\ Goto(w, "del")
      /\ UNCHANGED <<sock, interest, client, edge, closed, taken, parsed, resp,
                     userCount, timers, batch, queue, cur>>

(* OnRead: read until EAGAIN, the end of the stream or an error.  At the   *)
(* end of the stream read() sets no error, and OnRead decides on a         *)
(* read_error nobody has written.                                          *)
Read(w) ==
  LET fd == cur[w]
  IN  /\ pc[w] = "read"
      /\ got' = [got EXCEPT ![fd] = IF sock[fd] THEN sent[fd] ELSE @]
      /\ \/ sock[fd] /\ Goto(w, "process")
         \/ (~sock[fd] \/ hup[fd]) /\ Goto(w, "del")
      /\ UNCHANGED <<sock, interest, client, edge, closed, taken, parsed, resp,
                     userCount, timers, batch, queue, cur>>

(* How far a finished parser, re-initialised by Process, or an unfinished  *)
(* one is when it is given more input.                                     *)
Resume(fd) == IF parsed[fd] = Parts THEN 0 ELSE parsed[fd]

(* OnProcessStatic up to its epoll_ctl.  A parser that is where the        *)
(* client's pieces are takes them in and is done with the last one.  One   *)
(* that is anywhere else may find anything in them.                        *)
Process(w) ==
  LET fd == cur[w]
  IN  /\ pc[w] = "process"
      /\ taken' = [taken EXCEPT ![fd] = got[fd]]
      /\ \E n \in 0 .. Parts :
           /\ taken[fd] = got[fd] => n = Resume(fd)
           /\ taken[fd] # got[fd] /\ taken[fd] = Resume(fd) => n = got[fd]
           /\ parsed' = [parsed EXCEPT ![fd] = n]
           /\ resp' = [resp EXCEPT ![fd] = n = Parts \/ @]
           /\ Goto(w, IF n = Parts THEN "armOut" ELSE "armIn")
      /\ UNCHANGED <<sock, interest, client, edge, closed, got, userCount, timers,
                     batch, queue, cur>>

(* OnWrite, when the whole response has gone out (PendingWriteBytes() = 0):*)
(* keep the connection for the next request or close it.  The client that  *)
(* had sent its request starts the next one.                               *)
WriteAll(w) ==
  LET fd == cur[w]
      answered == resp[fd] /\ sent[fd] = Parts
  IN  /\ pc[w] = "write"
      /\ sock[fd] /\ ~full[fd]
      /\ resp' = [resp EXCEPT ![fd] = FALSE]
      /\ sent' = [sent EXCEPT ![fd] = IF answered THEN 0 ELSE @]
      /\ got' = [got EXCEPT ![fd] = IF answered THEN 0 ELSE @]
      /\ taken' = [taken EXCEPT ![fd] = IF answered THEN 0 ELSE @]
      /\ \E l \in {"armIn", "del"} : Goto(w, l)
      /\ UNCHANGED <<sock, interest, hup, full, backlog, conns, edge, closed, parsed,
                     userCount, timers, batch, queue, cur>>

(* Faulty: waits for input with the response half written.                 *)
WriteBlocks_ArmIn(w) ==
  LET fd == cur[w]
  IN  /\ pc[w] = "write"
      /\ sock[fd] /\ resp[fd]
      /\ full' = [full EXCEPT ![fd] = TRUE]
      /\ Goto(w, "armIn")
      /\ UNCHANGED <<sock, interest, sent, hup, backlog, conns, edge, user, timers,
                     batch, queue, cur>>

WriteBlocks(w) ==
  LET fd == cur[w]
  IN  /\ pc[w] = "write"
      /\ sock[fd] /\ resp[fd]
      /\ full' = [full EXCEPT ![fd] = TRUE]
      /\ Goto(w, "armOut")
      /\ UNCHANGED <<sock, interest, sent, hup, backlog, conns, edge, user, timers,
                     batch, queue, cur>>

WriteFails(w) ==
  LET fd == cur[w]
  IN  /\ pc[w] = "write"
      /\ ~sock[fd] \/ hup[fd]
      /\ Goto(w, "del")
      /\ UNCHANGED <<sock, interest, client, edge, user, timers, batch, queue, cur>>

(* Faulty: EPOLLOUT whatever the task waits for.                           *)
ModFd_AlwaysOut(w) ==
  LET fd == cur[w]
  IN  /\ pc[w] \in {"armIn", "armOut"}
      /\ interest' = [interest EXCEPT ![fd] = IF @ = "none" THEN @ ELSE "out"]
      /\ Release(w)
      /\ UNCHANGED <<sock, client, edge, user, timers, batch, queue>>

(* ModFd, the last thing a task does: it fails on a descriptor that is not *)
(* registered.                                                             *)
ModFd(w) ==
  LET fd == cur[w]
  IN  /\ pc[w] \in {"armIn", "armOut"}
      /\ interest' = [interest EXCEPT
                       ![fd] = IF @ = "none" THEN @
                               ELSE IF pc[w] = "armIn" THEN "in" ELSE "out"]
      /\ Release(w)
      /\ UNCHANGED <<sock, client, edge, user, timers, batch, queue>>

----------------------------------------------------------------------------
Init ==
  /\ sock = [fd \in Fds |-> FALSE]
  /\ interest = [fd \in Fds |-> "none"]
  /\ sent = [fd \in Fds |-> 0]
  /\ hup = [fd \in Fds |-> FALSE]
  /\ full = [fd \in Fds |-> FALSE]
  /\ backlog = 0 /\ edge = FALSE /\ conns = 0
  /\ closed = [fd \in Fds |-> TRUE]
  /\ got = [fd \in Fds |-> 0]
  /\ taken = [fd \in Fds |-> 0]
  /\ parsed = [fd \in Fds |-> 0]
  /\ resp = [fd \in Fds |-> FALSE]
  /\ userCount = 0
  /\ timer = {} /\ config \in Configs
  /\ batch = {} /\ queue = <<>>
  /\ pc = [p \in Procs |-> IF p = Main THEN "top" ELSE "idle"]
  /\ cur = [p \in Procs |-> ListenFd]

Close(p) ==
  DelFd(p) \/ CheckClosed(p) \/ MarkClosed(p) \/ CloseFd(p) \/ InitRequest(p)

MainStep ==
  \/ \E fd \in Fds : Timeout(fd)
  \/ Wait
  \/ \E fd \in Fds \cup {ListenFd}, kind \in {"listen", "disconnect", "read", "write"} :
       Dispatch(fd, kind)
  \/ BatchDone
  \/ \E fd \in Fds : Accept(fd)
  \/ AcceptBusy
  \/ AcceptFails
  \/ Close(Main)

WorkerStep(w) ==
  \/ Take(w)
  \/ Read(w)
  \/ Process(w)
  \/ WriteAll(w) \/ WriteBlocks(w) \/ WriteFails(w)
  \/ ModFd(w)
  \/ Close(w)

ClientStep ==
  \/ Connect
  \/ \E fd \in Fds : Send(fd) \/ HangUp(fd) \/ Drain(fd)

Next == MainStep \/ (\E w \in Workers : WorkerStep(w)) \/ ClientStep

Spec == Init /\ [][Next]_vars

(* The reactor and every worker keep running.  Clients are free to stop,   *)
(* but one that is not reading its response starts to again; every time    *)
(* the socket is writable some of the response goes out, so that a         *)
(* response that is written again and again is written to the end.         *)
Writing(fd) == \E w \in Workers : cur[w] = fd /\ WriteAll(w)

FairSpec ==
  /\ Spec
  /\ WF_vars(MainStep)
  /\ \A w \in Workers : WF_vars(WorkerStep(w))
  /\ \A fd \in Fds : WF_vars(Drain(fd)) /\ SF_vars(Writing(fd))

----------------------------------------------------------------------------
(***************************************************************************)
(* Properties                                                              *)
(***************************************************************************)

Labels == {"top", "dispatch", "accept", "idle", "read", "process", "write",
           "armIn", "armOut", "del", "check", "mark", "close", "init"}

(* The variables keep to their types.                                      *)
TypeOK ==
  /\ sock \in [Fds -> BOOLEAN]
  /\ interest \in [Fds -> {"none", "off", "in", "out"}]
  /\ sent \in [Fds -> 0 .. MaxParts]
  /\ hup \in [Fds -> BOOLEAN]
  /\ full \in [Fds -> BOOLEAN]
  /\ backlog \in Nat /\ edge \in BOOLEAN /\ conns \in Nat
  /\ closed \in [Fds -> BOOLEAN]
  /\ got \in [Fds -> 0 .. MaxParts]
  /\ taken \in [Fds -> 0 .. MaxParts]
  /\ parsed \in [Fds -> 0 .. MaxParts]
  /\ resp \in [Fds -> BOOLEAN]
  /\ userCount \in Int
  /\ timer \in SUBSET Fds /\ config \in Configs
  /\ batch \in SUBSET (Fds \X {"disconnect", "read", "write"} \cup {<<ListenFd, "listen">>})
  /\ queue \in Seq(Fds \X {"read", "write"})
  /\ pc \in [Procs -> Labels]
  /\ cur \in [Procs -> Fds \cup {ListenFd}]

(* Who holds the connection on fd: epoll while it is armed, the batch, the *)
(* queue, or a thread until it has re-armed or closed the descriptor.      *)
Holding == {"read", "process", "write", "armIn", "armOut", "del", "check", "mark", "close"}

Holders(fd) ==
  (IF interest[fd] \in {"in", "out"} THEN {<<"epoll">>} ELSE {})
  \cup {<<"batch", e>> : e \in {x \in batch : x[1] = fd}}
  \cup {<<"queue", i>> : i \in {j \in DOMAIN queue : queue[j][1] = fd}}
  \cup {<<"thread", p>> : p \in {q \in Procs : cur[q] = fd /\ pc[q] \in Holding}}

(* EPOLLONESHOT makes a connection belong to exactly one of epoll, the     *)
(* batch, the queue and a thread as long as it is open (two tasks would    *)
(* race on its HttpConn, none would leave it open and unserved for good),  *)
(* and to nobody afterwards, so that no late task meets the descriptor's   *)
(* next connection.  (A timer closes connections that others hold.)        *)
ExactlyOneOwner ==
  ~config.timeout =>
    \A fd \in Fds : Cardinality(Holders(fd)) = IF sock[fd] THEN 1 ELSE 0

(* user_count, which the limit kMaxFd is compared with, is the number of   *)
(* connections that are not closed.  (With timers it wraps; see            *)
(* RefusesOnlyWhenFull.)                                                   *)
UserCountExact == ~config.timeout => userCount = Cardinality({fd \in Fds : ~closed[fd]})

(* http_server.cpp:207, "Client is full": a connection is turned away only *)
(* when as many others as the limit says are open.                         *)
RefusalIsJust == AcceptBusy => Cardinality({fd \in Fds : sock[fd]}) >= config.users

RefusesOnlyWhenFull == [][RefusalIsJust]_vars

(* That much is so when no timer closes connections others are closing.    *)
UntimedRefusesOnlyWhenFull == [][~config.timeout => RefusalIsJust]_vars

(* An open descriptor whose HttpConn is closed is about to be closed, by   *)
(* one of the threads that race to close it.                               *)
NoLeakedDescriptor ==
  \A fd \in Fds : sock[fd] /\ closed[fd] => \E p \in Procs : pc[p] = "close" /\ cur[p] = fd

(* Nothing in the specification tells one descriptor from another, so that *)
(* what holds of one holds of all.                                         *)
AnyFd == CHOOSE fd \in Fds : TRUE
IsOpen == sock[AnyFd]
Unread == got[AnyFd] < sent[AnyFd]

(* What a client sent is read, or its connection closed.                   *)
InputIsRead == (IsOpen /\ Unread) ~> (~IsOpen \/ ~Unread)

(* A response that has been made is written, or the connection closed,     *)
(* however often the send buffer fills up.                                 *)
ResponseIsWritten == (IsOpen /\ resp[AnyFd]) ~> (~IsOpen \/ ~resp[AnyFd])

(* A client that has gone does not keep its descriptor.                    *)
HangUpIsNoticed == (IsOpen /\ hup[AnyFd]) ~> ~IsOpen

(* With the limit out of reach, nobody waits for accept() for good,        *)
(* although the listening socket is edge-triggered, unless user_count has  *)
(* wrapped.                                                                *)
AllMayEnter == config.users >= Cardinality(Fds)
BacklogIsServed == (AllMayEnter /\ backlog > 0) ~> (backlog = 0 \/ userCount < 0)

=============================================================================
