------------------------------ MODULE HttpProxy ------------------------------
(***************************************************************************)
(* HttpServer (Sources/server/http_server.{h,cpp}) as a reverse proxy:     *)
(* each client has a descriptor of its own to the upstream server, both    *)
(* are registered EPOLLONESHOT, and the two of them, a task and an HttpConn *)
(* (Sources/protocol/http/http_conn.cpp, ProcessProxy) carry a request     *)
(* there and its answer back.                                              *)
(*                                                                         *)
(* Descriptors are numbers, and the kernel gives the lowest one that is    *)
(* free: a number serves as a client's at one time and as an upstream's at *)
(* another.  A message is <<connection, request>>, the same for the pieces *)
(* of a request, the request the server makes of them and its answer.      *)
(* Clients send well-formed requests in pieces and wait for answers;       *)
(* the upstream server answers in one piece ("response is small enough",   *)
(* http_conn.h:106).  timeout_ is 0: there are no timers.                  *)
(***************************************************************************)
EXTENDS Integers, Sequences, FiniteSets, FiniteSetsExt

CONSTANTS
  MaxFd,      \* descriptors are 1 .. MaxFd
  Workers,    \* the pool's threads
  Main,       \* the reactor thread
  MaxRetry,   \* failed reconnections before the client is closed: 5
  Loads,      \* what the environment may do, and kMaxFd; see below
  Reuse       \* accept() may return a number whose HttpConn is still in Close

(* A behaviour is under one load: the limit kMaxFd (`users'), the pieces   *)
(* of a request, and bounds on the connections clients open, the requests  *)
(* of each, and the connections the upstream server closes (`drops') and   *)
(* refuses.                                                                *)
ASSUME ProxyAssumption ==
  /\ MaxFd \in Nat /\ MaxRetry \in Nat /\ Main \notin Workers
  /\ Loads \subseteq [users: Nat, parts: Nat \ {0}, conns: Nat, asked: Nat,
                      drops: Nat, refused: Nat]
  /\ Reuse \in BOOLEAN

VARIABLES
  net,      \* by descriptor: the socket, its registration, and its peer
  users,    \* users_, with the entry 0 that proxy_fd_map_[fd] may lead to
  map,      \* proxy_fd_map_
  backlog,  \* connections waiting to be accepted
  edge,     \* the listening socket has a new edge
  batch,    \* events of the last epoll_wait not yet dispatched
  queue,    \* the pool's tasks
  pc,       \* where each thread is
  cur,      \* the user (in "reconnect": the descriptor) it works on
  retry,    \* retry_count
  load,     \* the load of this behaviour
  conns, drops, refused  \* how often the environment has acted

outside == <<load, conns, drops, refused>>
listener == <<backlog, edge>>
threads == <<batch, queue, pc, cur, retry>>
vars == <<net, users, map, listener, threads, outside>>

Fds == 1 .. MaxFd
NoFd == -1
Procs == Workers \cup {Main}

(* The bytes a stale iov_ makes the server send: Init has wiped what they  *)
(* were.                                                                   *)
Junk == <<0, 0>>

(* A descriptor as the kernel and the other end have it.  `lost' is open,  *)
(* and no part of the server knows of it.  `sent' and `ask' are a client's *)
(* (pieces sent of its current request), `pending' an upstream server's    *)
(* (requests it has not answered).                                         *)
Unused == [kind |-> "free", interest |-> "none", inbox |-> <<>>, hup |-> FALSE,
           full |-> FALSE, ask |-> Junk, sent |-> 0, pending |-> <<>>]
Lost == [Unused EXCEPT !.kind = "lost"]

Free == {fd \in Fds : net[fd].kind = "free"}
IsOpen(fd) == fd \in Fds /\ net[fd].kind # "free"

(* What epoll_wait reports.  A descriptor made by a reconnection is        *)
(* registered for EPOLLIN alone, level-triggered, until its first MOD: an  *)
(* upstream server that closes is input there.                             *)
Event(fd) ==
  LET n == net[fd]
  IN  IF n.hup /\ n.interest \in {"in", "out"} THEN "disconnect"
      ELSE CASE n.interest = "level" /\ (n.hup \/ n.inbox # <<>>) -> "read"
             [] n.interest = "in" /\ n.inbox # <<>> -> "read"
             [] n.interest = "out" /\ ~n.full -> "write"
             [] OTHER -> "quiet"

ReadyFds == {fd \in Fds : Event(fd) # "quiet"}
ListenReady == edge /\ backlog > 0

Goto(t, l) == pc' = [pc EXCEPT ![t] = l]

(* A thread is done with a user.  The reactor goes on with its batch, or,  *)
(* if it has given up, with its loop: it never leaves it while the         *)
(* upstream server stays away.  (What follows a later success is left out.) *)
Release(t) ==
  /\ Goto(t, IF t # Main THEN "idle" ELSE IF retry > MaxRetry THEN "stuck" ELSE "dispatch")
  /\ cur' = [cur EXCEPT ![t] = NoFd]

----------------------------------------------------------------------------
(***************************************************************************)
(* The clients and the upstream server                                     *)
(***************************************************************************)

Connect ==
  /\ conns < load.conns
  /\ conns' = conns + 1
  /\ backlog' = backlog + 1 /\ edge' = TRUE
  /\ UNCHANGED <<net, users, map, threads, load, drops, refused>>

Peer(fd, n) ==
  /\ net' = [net EXCEPT ![fd] = n]
  /\ UNCHANGED <<users, map, listener, threads, load, conns, refused>>

Send(c) ==
  LET n == net[c]
  IN  /\ n.kind = "client" /\ ~n.hup
      /\ n.sent < load.parts /\ n.ask[2] <= load.asked
      /\ Peer(c, [n EXCEPT !.sent = @ + 1, !.inbox = Append(@, n.ask)])
      /\ UNCHANGED drops

HangUp(c) ==
  /\ net[c].kind = "client" /\ ~net[c].hup
  /\ Peer(c, [net[c] EXCEPT !.hup = TRUE])
  /\ UNCHANGED drops

(* The other end reads, and the send buffer has room again.                *)
Drain(fd) ==
  /\ net[fd].full
  /\ Peer(fd, [net[fd] EXCEPT !.full = FALSE])
  /\ UNCHANGED drops

Answer(p) ==
  LET n == net[p]
  IN  /\ n.pending # <<>> /\ ~n.hup
      /\ Peer(p, [n EXCEPT !.pending = Tail(@), !.inbox = Append(@, Head(n.pending))])
      /\ UNCHANGED drops

(* The upstream server closes a connection, idle or not.                   *)
Drop(p) ==
  /\ net[p].kind = "upstream" /\ ~net[p].hup
  /\ drops < load.drops /\ drops' = drops + 1
  /\ Peer(p, [net[p] EXCEPT !.hup = TRUE])

----------------------------------------------------------------------------
(***************************************************************************)
(* Run: the reactor                                                        *)
(***************************************************************************)

(* Faulty: upstream descriptors are registered without EPOLLONESHOT.       *)
Disarmed_ClientsOnly(n) == IF n.kind = "client" THEN [n EXCEPT !.interest = "off"] ELSE n

(* EPOLLONESHOT.                                                           *)
Disarmed(n) == IF n.interest = "level" THEN n ELSE [n EXCEPT !.interest = "off"]

Wait ==
  /\ pc[Main] = "top"
  /\ ReadyFds # {} \/ ListenReady
  /\ batch' = {<<fd, Event(fd)>> : fd \in ReadyFds}
                \cup (IF ListenReady THEN {<<NoFd, "listen">>} ELSE {})
  /\ net' = [fd \in Fds |-> IF fd \in ReadyFds THEN Disarmed(net[fd]) ELSE net[fd]]
  /\ edge' = FALSE
  /\ Goto(Main, "dispatch")
  /\ UNCHANGED <<users, map, backlog, queue, cur, retry, outside>>

(* DealListen, DealDisconnect, DealRead or DealWrite.  proxy_fd_map_ tells *)
(* whether the descriptor is an upstream's and, if so, whose.              *)
Dispatch(fd, kind) ==
  LET inProxy == fd # NoFd /\ map[fd] # NoFd
      user == IF inProxy THEN map[fd] ELSE fd
      op == IF inProxy THEN [read |-> "readP", write |-> "writeP"]
                       ELSE [read |-> "readC", write |-> "writeC"]
  IN  /\ pc[Main] = "dispatch"
      /\ <<fd, kind>> \in batch
      /\ batch' = batch \ {<<fd, kind>>}
      /\ CASE kind = "listen" ->
                Goto(Main, "accept") /\ UNCHANGED <<queue, cur, retry>>
           [] kind = "disconnect" ->
                /\ Goto(Main, IF inProxy THEN "reconnect" ELSE "unregister")
                /\ cur' = [cur EXCEPT ![Main] = fd]
                /\ retry' = 0 /\ UNCHANGED queue
           [] OTHER ->
                queue' = Append(queue, <<user, op[kind]>>) /\ UNCHANGED <<pc, cur, retry>>
      /\ UNCHANGED <<net, users, map, listener, outside>>

BatchDone ==
  /\ pc[Main] = "dispatch"
  /\ batch = {}
  /\ Goto(Main, "top")
  /\ UNCHANGED <<net, users, map, listener, batch, queue, cur, retry, outside>>

(* DealListen's loop: accept() returns a number, and GetNewProxyFd's       *)
(* socket() the next one.  Without Reuse the close of a connection is over *)
(* before its number is given out.                                         *)
AtLimit == Cardinality({c \in Fds : ~users[c].closed}) >= load.users
Accepted == Min(Free)
Accepting ==
  /\ pc[Main] = "accept"
  /\ backlog > 0 /\ Free # {}
  /\ Reuse \/ \A t \in Procs : pc[t] = "closeProxy" => cur[t] # Accepted
  /\ backlog' = backlog - 1

(* Faulty: write_buff_ keeps what the last connection left.                *)
InitConn_NoClear(u, p) ==
  [u EXCEPT !.closed = FALSE, !.proxy = p, !.stage = "client", !.readBuff = <<>>]

(* HttpConn::Init, which leaves the parser and the lengths in iov_ as they *)
(* are.                                                                    *)
InitConn(u, p) ==
  [u EXCEPT !.closed = FALSE, !.proxy = p, !.stage = "client",
            !.readBuff = <<>>, !.writeBuff = <<>>, !.iov = [i \in DOMAIN @ |-> Junk]]

(* emplace() keeps an entry the map already has.                           *)
AddClient(c, p) ==
  /\ net' = [net EXCEPT
       ![c] = [Unused EXCEPT !.kind = "client", !.interest = "in",
                             !.ask = <<conns - backlog + 1, 1>>],
       ![p] = [Unused EXCEPT !.kind = "upstream", !.interest = "in"]]
  /\ users' = [users EXCEPT ![c] = InitConn(@, p)]
  /\ map' = [map EXCEPT ![p] = IF @ = NoFd THEN c ELSE @]

Accept ==
  /\ Accepting /\ ~AtLimit
  /\ Cardinality(Free) > 1
  /\ AddClient(Accepted, Min(Free \ {Accepted}))
  /\ UNCHANGED <<edge, threads, outside>>

(* The upstream connection fails: `continue' forgets the client, and       *)
(* GetNewProxyFd its socket, both open.                                    *)
AcceptUnreachable ==
  /\ Accepting /\ ~AtLimit
  /\ IF Cardinality(Free) > 1
     THEN /\ refused < load.refused /\ refused' = refused + 1
          /\ net' = [net EXCEPT ![Accepted] = Lost, ![Min(Free \ {Accepted})] = Lost]
     ELSE net' = [net EXCEPT ![Accepted] = Lost] /\ UNCHANGED refused
  /\ UNCHANGED <<users, map, edge, threads, load, conns, drops>>

AcceptBusy ==
  /\ Accepting /\ AtLimit
  /\ Goto(Main, "dispatch")
  /\ UNCHANGED <<net, users, map, edge, batch, queue, cur, retry, outside>>

AcceptFails ==
  /\ pc[Main] = "accept"
  /\ backlog = 0 \/ Free = {}
  /\ Goto(Main, "dispatch")
  /\ UNCHANGED <<net, users, map, listener, batch, queue, cur, retry, outside>>

(* Faulty: the old descriptor stays open.                                  *)
Replaced_KeepOld(old, new) ==
  [net EXCEPT ![new] = [Unused EXCEPT !.kind = "upstream", !.interest = "level"]]

Replaced(old, new) ==
  [net EXCEPT ![old] = Unused,
              ![new] = [Unused EXCEPT !.kind = "upstream", !.interest = "level"]]

(* DealDisconnect for an upstream descriptor: the user gets a new one.     *)
(* What was written to the old one, or waited to be, is not repeated.  An  *)
(* entry that is gone reads as 0.                                          *)
Reconnect ==
  LET old == cur[Main]
      new == Min(Free)
      user == IF map[old] = NoFd THEN 0 ELSE map[old]
  IN  /\ pc[Main] = "reconnect"
      /\ Free # {}
      /\ net' = Replaced(old, new)
      /\ users' = [users EXCEPT ![user].proxy = new]
      /\ map' = [map EXCEPT ![old] = NoFd, ![new] = IF @ = NoFd THEN user ELSE @]
      /\ Release(Main)
      /\ UNCHANGED <<listener, batch, queue, retry, outside>>

(* No number or no connection: the socket, if there is one, stays open.    *)
(* One failure too many closes the client.                                 *)
ReconnectFails ==
  LET old == cur[Main]
  IN  /\ pc[Main] = "reconnect"
      /\ IF Free = {} THEN UNCHANGED <<net, refused>>
         ELSE /\ refused < load.refused /\ refused' = refused + 1
              /\ net' = [net EXCEPT ![Min(Free)] = Lost]
      /\ retry' = retry + 1
      /\ IF retry' > MaxRetry
         THEN /\ Goto(Main, "unregister")
              /\ cur' = [cur EXCEPT ![Main] = IF map[old] = NoFd THEN 0 ELSE map[old]]
         ELSE UNCHANGED <<pc, cur>>
      /\ UNCHANGED <<users, map, listener, batch, queue, load, conns, drops>>

----------------------------------------------------------------------------
(***************************************************************************)
(* CloseConn and HttpConn::Close, which the reactor and the workers run    *)
(***************************************************************************)

(* Both registrations and the map's entry.                                 *)
Unregister(t) ==
  LET gone == {cur[t], users[cur[t]].proxy}
  IN  /\ pc[t] = "unregister"
      /\ net' = [fd \in Fds |-> IF fd \in gone THEN [net[fd] EXCEPT !.interest = "none"]
                                ELSE net[fd]]
      /\ map' = [fd \in Fds |-> IF fd = users[cur[t]].proxy THEN NoFd ELSE map[fd]]
      /\ Goto(t, "close")
      /\ UNCHANGED <<users, listener, batch, queue, cur, retry, outside>>

(* is_close_ and close(fd_): accept() may return the number again.         *)
CloseClient(t) ==
  LET c == cur[t]
  IN  /\ pc[t] = "close"
      /\ IF users[c].closed
         THEN Release(t) /\ UNCHANGED <<net, users>>
         ELSE /\ users' = [users EXCEPT ![c].closed = TRUE]
              /\ net' = [net EXCEPT ![c] = Unused]
              /\ Goto(t, "closeProxy") /\ UNCHANGED cur
      /\ UNCHANGED <<map, listener, batch, queue, retry, outside>>

(* close(proxy_fd_), read now, and request_.Init().                        *)
CloseProxy(t) ==
  LET p == users[cur[t]].proxy
  IN  /\ pc[t] = "closeProxy"
      /\ net' = [net EXCEPT ![p] = Unused]
      /\ users' = [users EXCEPT ![cur[t]].parsed = 0]
      /\ Release(t)
      /\ UNCHANGED <<map, listener, batch, queue, retry, outside>>

----------------------------------------------------------------------------
(***************************************************************************)
(* The workers                                                             *)
(***************************************************************************)

Take(w) ==
  /\ pc[w] = "idle"
  /\ queue # <<>>
  /\ queue' = Tail(queue)
  /\ cur' = [cur EXCEPT ![w] = Head(queue)[1]]
  /\ Goto(w, Head(queue)[2])
  /\ UNCHANGED <<net, users, map, listener, batch, retry, outside>>

(* The descriptor a task reads or writes: proxy_fd_ is read at the call.   *)
Target(w) ==
  IF pc[w] \in {"readC", "writeC", "armCIn", "armCOut"} THEN cur[w] ELSE users[cur[w]].proxy

InProxy(w) == pc[w] \in {"readP", "writeP"}

(* OnRead: everything there is, from either side, into read_buff_.  At the *)
(* end of the stream no error is set, and OnRead decides on a read_error   *)
(* nobody has written.                                                     *)
Read(w) ==
  LET fd == Target(w)
  IN  /\ pc[w] \in {"readC", "readP"}
      /\ IF IsOpen(fd)
         THEN /\ users' = [users EXCEPT ![cur[w]].readBuff = @ \o net[fd].inbox]
              /\ net' = [net EXCEPT ![fd].inbox = <<>>]
         ELSE UNCHANGED <<net, users>>
      /\ \/ IsOpen(fd) /\ Goto(w, "process")
         \/ (IF IsOpen(fd) THEN net[fd].hup ELSE TRUE) /\ Goto(w, "unregister")
      /\ UNCHANGED <<map, listener, batch, queue, cur, retry, outside>>

(* The request for the upstream server, behind whatever write_buff_ holds. *)
MakeProxyRequests(u) == Append(u.writeBuff, u.readBuff[Len(u.readBuff)])

(* ProcessProxy with a client's input: a finished parser is initialised    *)
(* first.  A complete request goes upstream; an incomplete one leads to a  *)
(* write to the client, of whatever iov_ holds.                            *)
ProcessRequest(w) ==
  LET u == users[cur[w]]
      had == IF u.parsed = load.parts THEN 0 ELSE u.parsed
      out == MakeProxyRequests(u)
  IN  /\ pc[w] = "process" /\ u.stage = "client"
      /\ \E n \in 0 .. load.parts :
           /\ had + Len(u.readBuff) <= load.parts => n = had + Len(u.readBuff)
           /\ IF n = load.parts /\ u.readBuff # <<>>
              THEN /\ users' = [users EXCEPT ![cur[w]] =
                        [u EXCEPT !.parsed = n, !.readBuff = <<>>, !.writeBuff = out,
                                  !.iov = out, !.stage = "upstream"]]
                   /\ Goto(w, "armPOut")
              ELSE /\ users' = [users EXCEPT ![cur[w]] =
                        [u EXCEPT !.parsed = n, !.readBuff = <<>>]]
                   /\ Goto(w, "armCOut")
      /\ UNCHANGED <<net, map, listener, batch, queue, cur, retry, outside>>

(* Faulty: the answer is copied, and stays in read_buff_.                  *)
Swapped_Copy(u) ==
  [u EXCEPT !.writeBuff = @ \o u.readBuff, !.iov = u.writeBuff \o u.readBuff, !.stage = "client"]

Swapped(u) ==
  [u EXCEPT !.readBuff = u.writeBuff, !.writeBuff = u.readBuff, !.iov = u.readBuff,
            !.stage = "client"]

(* ProcessProxy with the upstream server's answer: the buffers change      *)
(* places.                                                                 *)
ProcessAnswer(w) ==
  /\ pc[w] = "process" /\ users[cur[w]].stage = "upstream"
  /\ users' = [users EXCEPT ![cur[w]] = Swapped(@)]
  /\ Goto(w, "armCOut")
  /\ UNCHANGED <<net, map, listener, batch, queue, cur, retry, outside>>

(* OnWrite, when nothing is left to be written.  A client that has its     *)
(* answer goes on to its next request, if the connection is kept.  A       *)
(* request to an upstream server that has closed is lost.                  *)
WriteAll(w) ==
  LET fd == Target(w)
      u == users[cur[w]]
      n == net[fd]
      answered == \E i \in DOMAIN u.iov : u.iov[i] = n.ask
  IN  /\ pc[w] \in {"writeC", "writeP"}
      /\ u.iov = <<>> \/ IF IsOpen(fd) THEN ~net[fd].full ELSE FALSE
      /\ users' = [users EXCEPT ![cur[w]] = [u EXCEPT !.iov = <<>>, !.writeBuff = <<>>]]
      /\ IF u.iov = <<>> THEN UNCHANGED net
         ELSE net' = [net EXCEPT ![fd] =
                CASE InProxy(w) -> IF n.hup THEN n ELSE [n EXCEPT !.pending = @ \o u.iov]
                  [] ~InProxy(w) /\ answered ->
                       [n EXCEPT !.sent = 0, !.ask = <<n.ask[1], n.ask[2] + 1>>]
                  [] OTHER -> n]
      /\ \E l \in IF InProxy(w) THEN {"armPIn"} ELSE {"armCIn", "unregister"} : Goto(w, l)
      /\ UNCHANGED <<map, listener, batch, queue, cur, retry, outside>>

(* Faulty: waits for input with the message half written.                  *)
Again_In(w) == IF InProxy(w) THEN "armPIn" ELSE "armCIn"

Again(w) == IF InProxy(w) THEN "armPOut" ELSE "armCOut"

WriteBlocks(w) ==
  LET fd == Target(w)
  IN  /\ pc[w] \in {"writeC", "writeP"}
      /\ IsOpen(fd) /\ users[cur[w]].iov # <<>>
      /\ net' = [net EXCEPT ![fd].full = TRUE]
      /\ Goto(w, Again(w))
      /\ UNCHANGED <<users, map, listener, batch, queue, cur, retry, outside>>

(* An error on the client's side closes; one on the upstream's is ignored, *)
(* and nothing is armed.                                                   *)
WriteFails(w) ==
  LET fd == Target(w)
  IN  /\ pc[w] \in {"writeC", "writeP"}
      /\ users[cur[w]].iov # <<>>
      /\ IF IsOpen(fd) THEN net[fd].hup ELSE TRUE
      /\ IF InProxy(w) THEN Release(w) ELSE Goto(w, "unregister") /\ UNCHANGED cur
      /\ UNCHANGED <<net, users, map, listener, batch, queue, retry, outside>>

ModFd(w) ==
  LET fd == Target(w)
  IN  /\ pc[w] \in {"armCIn", "armCOut", "armPIn", "armPOut"}
      /\ net' = [net EXCEPT ![fd].interest =
                   IF @ = "none" THEN @ ELSE IF pc[w] \in {"armCIn", "armPIn"} THEN "in" ELSE "out"]
      /\ Release(w)
      /\ UNCHANGED <<users, map, listener, batch, queue, retry, outside>>

----------------------------------------------------------------------------
Init ==
  /\ net = [fd \in Fds |-> Unused]
  /\ users = [c \in 0 .. MaxFd |->
                [closed |-> TRUE, proxy |-> NoFd, stage |-> "client", parsed |-> 0,
                 readBuff |-> <<>>, writeBuff |-> <<>>, iov |-> <<>>]]
  /\ map = [fd \in Fds |-> NoFd]
  /\ backlog = 0 /\ edge = FALSE
  /\ batch = {} /\ queue = <<>>
  /\ pc = [t \in Procs |-> IF t = Main THEN "top" ELSE "idle"]
  /\ cur = [t \in Procs |-> NoFd]
  /\ retry = 0
  /\ load \in Loads /\ conns = 0 /\ drops = 0 /\ refused = 0

CloseConn(t) == Unregister(t) \/ CloseClient(t) \/ CloseProxy(t)

MainStep ==
  \/ Wait
  \/ \E fd \in Fds \cup {NoFd}, kind \in {"listen", "disconnect", "read", "write"} :
       Dispatch(fd, kind)
  \/ BatchDone
  \/ Accept \/ AcceptUnreachable \/ AcceptBusy \/ AcceptFails
  \/ Reconnect \/ ReconnectFails
  \/ CloseConn(Main)

WorkerStep(w) ==
  \/ Take(w)
  \/ Read(w)
  \/ ProcessRequest(w) \/ ProcessAnswer(w)
  \/ WriteAll(w) \/ WriteBlocks(w) \/ WriteFails(w)
  \/ ModFd(w)
  \/ CloseConn(w)

Outside ==
  \/ Connect
  \/ \E fd \in Fds : Send(fd) \/ HangUp(fd) \/ Drain(fd) \/ Answer(fd) \/ Drop(fd)

Next == MainStep \/ (\E w \in Workers : WorkerStep(w)) \/ Outside

Spec == Init /\ [][Next]_vars

(* The reactor and the workers keep running, the upstream server answers,  *)
(* and whoever is written to reads; a write that is possible again and     *)
(* again is completed in the end.                                          *)
Draining == \E fd \in Fds : Drain(fd)
Answering == \E fd \in Fds : Answer(fd)
Writing == \E w \in Workers : WriteAll(w)

FairSpec ==
  /\ Spec
  /\ WF_vars(MainStep)
  /\ \A w \in Workers : WF_vars(WorkerStep(w))
  /\ WF_vars(Draining) /\ WF_vars(Answering) /\ SF_vars(Writing)

----------------------------------------------------------------------------
(***************************************************************************)
(* Properties                                                              *)
(***************************************************************************)

Messages == {Junk} \cup (1 .. load.conns) \X (1 .. load.asked + 1)

Socket == [kind: {"free", "client", "upstream", "lost"},
           interest: {"none", "off", "in", "out", "level"},
           inbox: Seq(Messages), hup: BOOLEAN, full: BOOLEAN,
           ask: Messages, sent: 0 .. load.parts, pending: Seq(Messages)]

User == [closed: BOOLEAN, proxy: Fds \cup {NoFd}, stage: {"client", "upstream"},
         parsed: 0 .. load.parts, readBuff: Seq(Messages), writeBuff: Seq(Messages),
         iov: Seq(Messages)]

Ops == {"readC", "readP", "writeC", "writeP"}

Labels == Ops \cup {"top", "dispatch", "accept", "reconnect", "stuck", "idle", "process",
  "armCIn", "armCOut", "armPIn", "armPOut", "unregister", "close", "closeProxy"}

(* The variables keep to their types, and iov_ describes one message.      *)
TypeOK ==
  /\ net \in [Fds -> Socket]
  /\ users \in [0 .. MaxFd -> User] /\ \A c \in Fds : Len(users[c].iov) <= 1
  /\ map \in [Fds -> 0 .. MaxFd \cup {NoFd}]
  /\ backlog \in Nat /\ edge \in BOOLEAN /\ retry \in Nat
  /\ batch \subseteq Fds \X {"disconnect", "read", "write"} \cup {<<NoFd, "listen">>}
  /\ queue \in Seq((0 .. MaxFd) \X Ops)
  /\ pc \in [Procs -> Labels]
  /\ cur \in [Procs -> 0 .. MaxFd \cup {NoFd}]

(* Who has the next move for user c: epoll, because the client's           *)
(* descriptor is armed, or the upstream's with something to come; the      *)
(* batch; the queue; a thread.                                             *)
Waiting(p) ==
  p \in Fds /\ \/ net[p].interest = "out"
               \/ net[p].interest = "in" /\ (net[p].pending # <<>> \/ net[p].inbox # <<>>)

Holding == Labels \ {"top", "dispatch", "accept", "reconnect", "stuck", "idle", "closeProxy"}

Holders(c) ==
  LET p == users[c].proxy
  IN  {<<"epoll", fd>> : fd \in {f \in {c} : net[f].interest \in {"in", "out"}}
                                 \cup {f \in {p} : Waiting(f)}}
      \cup {<<"batch", e>> : e \in {x \in batch : x[1] \in {c, p}}}
      \cup {<<"queue", i>> : i \in {j \in DOMAIN queue : queue[j][1] = c}}
      \cup {<<"thread", t>> : t \in {q \in Procs : cur[q] = c /\ pc[q] \in Holding}}

(* Between a client and the upstream server a request is in one place:     *)
(* exactly one of the two descriptors, the batch, the queue and the        *)
(* threads has the next move for a user (with none its descriptors would   *)
(* stay open for good, with two its HttpConn would be worked on twice), as *)
(* long as the upstream server closes no connection.                       *)
OneHolder ==
  drops = 0 => \A c \in Fds : ~users[c].closed => Cardinality(Holders(c)) = 1

(* The reactor has not given up, and no reconnection has met a user that a *)
(* worker was closing (its entry in the map is gone, and entry 0 gets the  *)
(* new descriptor).                                                        *)
Settled == retry <= MaxRetry /\ users[0].proxy = NoFd

(* A user's two descriptors are opened and closed together, through        *)
(* reconnections as well: while a client is served its upstream descriptor *)
(* is open and maps to it, and any other one is about to be closed.        *)

Paired ==
  Settled =>
    /\ \A c \in Fds :
         ~users[c].closed =>
           LET p == users[c].proxy
           IN  /\ p \in Fds
               /\ net[c].kind = "client" /\ net[p].kind = "upstream"
               /\ map[p] = c \/ \E t \in Procs : cur[t] = c /\ pc[t] = "close"
    /\ \A fd \in Fds :
         /\ net[fd].kind = "client" => ~users[fd].closed
         /\ net[fd].kind = "upstream" =>
              \/ \E c \in Fds : ~users[c].closed /\ users[c].proxy = fd
              \/ \E t \in Procs : pc[t] = "closeProxy" /\ users[cur[t]].proxy = fd

(* What is written to a client answers the request it has sent, whoever    *)
(* had its numbers before.                                                 *)
OwnAnswers ==
  Settled =>
    \A w \in Workers :
      pc[w] = "writeC" /\ IsOpen(cur[w]) =>
        \A i \in DOMAIN users[cur[w]].iov :
          users[cur[w]].iov[i] \in {Junk, net[cur[w]].ask}

(* Unless the upstream server closes a connection, a request that has been *)
(* sent is answered, and a client that hangs up is let go.                 *)
Owed(c) == ~users[c].closed /\ (net[c].sent = load.parts \/ net[c].hup)

NobodyIsForgotten == \A c \in Fds : Owed(c) ~> (~Owed(c) \/ drops > 0)

=============================================================================
