--------------------------- MODULE HttpProxyProofs ---------------------------
(***************************************************************************)
(* HttpProxy, proved for any number of descriptors, workers and clients,   *)
(* as long as the upstream server closes no connection and accept() gives  *)
(* out no number whose last HttpConn is still in Close: first who holds    *)
(* each user (IInv), then where each message is (DInv).                    *)
(***************************************************************************)
EXTENDS HttpProxy, FiniteSetTheorems, SequenceTheorems, WellFoundedInduction, TLAPS

----------------------------------------------------------------------------
(***************************************************************************)
(* The invariant                                                           *)
(***************************************************************************)

Msg == Int \X Int

Sock == [kind: {"free", "client", "upstream", "lost"}, interest: {"none", "off", "in", "out"},
         inbox: Seq(Msg), hup: BOOLEAN, full: BOOLEAN,
         ask: Msg, sent: Nat, pending: Seq(Msg)]

Conn == [closed: BOOLEAN, proxy: Fds \cup {NoFd}, stage: {"client", "upstream"},
         parsed: Nat, readBuff: Seq(Msg), writeBuff: Seq(Msg), iov: Seq(Msg)]

(* The places in the program without those of a reconnection.              *)
Places == Labels \ {"reconnect", "stuck"}

(* What TypeOK says, without bounds on the environment, and that nothing   *)
(* is ever reconnected.                                                    *)
Typed ==
  /\ net \in [Fds -> Sock]
  /\ users \in [0 .. MaxFd -> Conn]
  /\ map \in [Fds -> Fds \cup {NoFd}]
  /\ batch \in SUBSET (Fds \X {"disconnect", "read", "write"} \cup {<<NoFd, "listen">>})
  /\ queue \in Seq(Fds \X Ops)
  /\ pc \in [Procs -> Places]
  /\ cur \in [Procs -> Fds \cup {NoFd}]
  /\ backlog \in Int /\ conns \in Int /\ retry = 0
  /\ load \in Loads

Kind(fd) == net[fd].kind
Reg(fd) == net[fd].interest
Traffic(fd) == net[fd].pending # <<>> \/ net[fd].inbox # <<>>
Open(c) == ~users[c].closed
Up(c) == users[c].proxy
Stage(c) == users[c].stage
Loaded(c) == users[c].iov # <<>>

(* The descriptor whose event is the next for c.                           *)
Side(c) == IF Stage(c) = "client" THEN c ELSE Up(c)

(* The four places where a user may be.                                    *)
Armed(c) == Reg(c) \in {"in", "out"} \/ Waiting(Up(c))
Batched(c) == \E e \in batch : e[1] = Side(c)
Queued(c) == \E i \in DOMAIN queue : queue[i][1] = c
Holds(t, c) == cur[t] = c /\ pc[t] \in Holding
Held(c) == \E t \in Procs : Holds(t, c)

(* A user is in one of the four,                                           *)
Owned ==
  \A c \in Fds : IF Open(c) THEN Armed(c) \/ Batched(c) \/ Queued(c) \/ Held(c)
                            ELSE ~Queued(c) /\ ~Held(c)

(* not in two of them,                                                     *)
Exclusive ==
  \A c \in Fds : Open(c) => /\ Armed(c) => ~Batched(c) /\ ~Queued(c) /\ ~Held(c)
                            /\ Batched(c) => ~Queued(c) /\ ~Held(c)
                            /\ Queued(c) => ~Held(c)

(* nor twice in one.                                                       *)
Once ==
  /\ \A e, f \in batch : e[1] = f[1] => e = f
  /\ \A i, j \in DOMAIN queue : queue[i][1] = queue[j][1] => i = j
  /\ \A c \in Fds : \A s, t \in Procs : Holds(s, c) /\ Holds(t, c) => s = t

Own == Owned /\ Exclusive /\ Once

(* The two descriptors of a user, and that they are nobody else's.         *)
Wired ==
  /\ \A c \in Fds : Open(c) => Up(c) \in Fds /\ Kind(c) = "client" /\ Kind(Up(c)) = "upstream"
  /\ \A c, d \in Fds : Open(c) /\ Open(d) /\ Up(c) = Up(d) => c = d
  /\ \A fd \in Fds : Kind(fd) = "client" => Open(fd)
  /\ \A fd \in Fds : Kind(fd) = "upstream" =>
       /\ ~net[fd].hup
       /\ \/ \E c \in Fds : Open(c) /\ Up(c) = fd
          \/ \E t \in Procs : pc[t] = "closeProxy" /\ Up(cur[t]) = fd
  /\ \A fd \in Fds : Kind(fd) \in {"free", "lost"} => Reg(fd) = "none"
  /\ \A fd \in Fds : map[fd] # NoFd => Open(map[fd]) /\ Up(map[fd]) = fd

(* How far a user is in being closed: until CloseConn unregisters them its *)
(* descriptors are registered and mapped, and after close(fd_) only the    *)
(* thread that closes knows of the other one.                              *)
Closing ==
  /\ \A c \in Fds : Open(c) =>
       \/ map[Up(c)] = c /\ Reg(c) # "none" /\ Reg(Up(c)) # "none"
       \/ \E t \in Procs : cur[t] = c /\ pc[t] = "close"
  /\ \A t \in Procs : pc[t] = "close" =>
       Reg(cur[t]) = "none" /\ Reg(Up(cur[t])) = "none" /\ map[Up(cur[t])] = NoFd
  /\ \A t \in Procs : pc[t] = "closeProxy" =>
       /\ ~Open(cur[t])
       /\ Up(cur[t]) \in Fds /\ Kind(Up(cur[t])) = "upstream" /\ Reg(Up(cur[t])) = "none"
       /\ \A c \in Fds : Open(c) => Up(c) # Up(cur[t])
       /\ \A s \in Procs : pc[s] = "closeProxy" /\ Up(cur[s]) = Up(cur[t]) => s = t

(* A thread names a user while it has to do with one, and the reactor      *)
(* waits only when it is through with its batch.                           *)
Placed ==
  /\ \A t \in Procs : pc[t] \in Holding \cup {"closeProxy"} => cur[t] \in Fds
  /\ pc[Main] = "top" => batch = {}

(* What is done for a user, and which of its descriptors is armed, agrees  *)
(* with its stage.                                                         *)
Staged ==
  /\ \A c \in Fds : Open(c) => /\ Stage(c) = "client" => ~Waiting(Up(c))
                               /\ Stage(c) = "upstream" => Reg(c) \notin {"in", "out"}
  /\ \A e \in batch : e[1] # NoFd =>
       /\ \E c \in Fds : Open(c) /\ e[1] = Side(c)
       /\ e[2] = "disconnect" => Kind(e[1]) = "client"
  /\ \A i \in DOMAIN queue :
       queue[i][2] \in {"readC", "writeC"} <=> Stage(queue[i][1]) = "client"
  /\ \A t \in Procs :
       /\ pc[t] \in {"readC", "writeC", "armCIn", "armCOut"} => Stage(cur[t]) = "client"
       /\ pc[t] \in {"readP", "writeP", "armPIn", "armPOut"} => Stage(cur[t]) = "upstream"

(* Where the upstream server is to be written to there is something to     *)
(* write, and where it is to be read from something has been written: an   *)
(* upstream descriptor with nothing to come waits only before the first    *)
(* request.                                                                *)
Filled ==
  /\ \A c \in Fds : Open(c) /\ Stage(c) = "upstream" =>
       /\ Reg(Up(c)) = "out" \/ <<Up(c), "write">> \in batch => Loaded(c)
       /\ Reg(Up(c)) = "in" => \/ Traffic(Up(c))
                               \/ \E t \in Procs : cur[t] = c /\ pc[t] = "armPOut"
  /\ \A i \in DOMAIN queue : queue[i][2] = "writeP" => Loaded(queue[i][1])
  /\ \A t \in Procs : /\ pc[t] \in {"armPOut", "writeP"} => Loaded(cur[t])
                      /\ pc[t] = "armPIn" => Traffic(Up(cur[t]))

IInv == Typed /\ Own /\ Wired /\ Closing /\ Placed /\ Staged /\ Filled

Quiet == ~Reuse /\ drops = 0 => IInv
----------------------------------------------------------------------------
(***************************************************************************)
(* Types                                                                   *)
(***************************************************************************)

(* The sets the numbers and the threads are taken from.                    *)
LEMMA NumberFact ==
  /\ MaxFd \in Nat /\ NoFd \notin 0 .. MaxFd /\ Fds \subseteq 0 .. MaxFd /\ Fds \subseteq Nat
  /\ Main \in Procs /\ Workers \subseteq Procs /\ Main \notin Workers
BY ProxyAssumption DEF Fds, NoFd, Procs

(* The lowest number that is free is one that is free.                     *)
LEMMA MinFact == ASSUME NEW S, S \subseteq Fds, S # {} PROVE Min(S) \in S
<1>1. S \subseteq Nat
  BY NumberFact
<1>2. ASSUME NEW x \in Nat, NEW y \in Nat, y < x PROVE <<y, x>> \in OpToRel(<, Nat)
  BY <1>2 DEF OpToRel
<1>3. \E x \in S : \A y \in S : x =< y
  <2>1. PICK x \in S : \A y \in S : ~(<<y, x>> \in OpToRel(<, Nat))
    BY <1>1, NatLessThanWellFounded, WFMin
  <2>2. \A y \in S : ~(y < x)
    BY <1>1, <1>2, <2>1
  <2>3. QED
    BY <1>1, <2>2
<1>4. QED
  BY <1>3 DEF Min

(* A thread that lets go of a user, and one that goes on.                  *)
LEMMA ThreadTypeFact ==
  ASSUME Typed, NEW t \in Procs
  PROVE  /\ Release(t) => /\ pc' = [pc EXCEPT ![t] = IF t = Main THEN "dispatch" ELSE "idle"]
                          /\ cur' = [cur EXCEPT ![t] = NoFd]
                          /\ pc' \in [Procs -> Places] /\ cur' \in [Procs -> Fds \cup {NoFd}]
         /\ \A l \in Places : Goto(t, l) => pc' \in [Procs -> Places]
         /\ \A fd \in Fds : [cur EXCEPT ![t] = fd] \in [Procs -> Fds \cup {NoFd}]
<1>1. "dispatch" \in Places /\ "idle" \in Places
  BY DEF Places, Labels
<1>2. ~(retry > MaxRetry)
  BY ProxyAssumption DEF Typed
<1>3. Release(t) => /\ pc' = [pc EXCEPT ![t] = IF t = Main THEN "dispatch" ELSE "idle"]
                    /\ cur' = [cur EXCEPT ![t] = NoFd]
  BY <1>2 DEF Release, Goto
<1>4. QED
  BY <1>1, <1>3 DEF Typed, Goto

(* What the other end does to a socket.                                    *)
LEMMA PeerTypeFact ==
  ASSUME Typed, NEW fd \in Fds, NEW n \in Sock, Peer(fd, n)
  PROVE  Typed'
<1>1. net' = [net EXCEPT ![fd] = n] /\ net' \in [Fds -> Sock]
  BY DEF Peer, Typed
<1>2. UNCHANGED <<users, map, batch, queue, pc, cur, backlog, conns, retry, load>>
  BY DEF Peer, listener, threads
<1>3. QED
  BY <1>1, <1>2 DEF Typed

(* What the clients, the upstream server and the network do.               *)
LEMMA OutsideTypeFact == ASSUME Typed, Outside PROVE Typed'
<1>1. CASE Connect
  <2>1. backlog' \in Int /\ conns' \in Int
    BY <1>1 DEF Connect, Typed
  <2>2. UNCHANGED <<net, users, map, batch, queue, pc, cur, retry, load>>
    BY <1>1 DEF Connect, threads
  <2>3. QED
    BY <2>1, <2>2 DEF Typed
<1>2. ASSUME NEW fd \in Fds, Send(fd) \/ HangUp(fd) \/ Drain(fd) \/ Answer(fd) \/ Drop(fd)
      PROVE  Typed'
  <2> DEFINE n == net[fd]
  <2>1. n \in Sock
    BY DEF Typed
  <2>2. CASE Send(fd)
    <3>1. Peer(fd, [n EXCEPT !.sent = @ + 1, !.inbox = Append(@, n.ask)])
      BY <2>2 DEF Send
    <3>2. n.sent + 1 \in Nat /\ Append(n.inbox, n.ask) \in Seq(Msg)
      BY <2>1 DEF Sock
    <3>3. [n EXCEPT !.sent = @ + 1, !.inbox = Append(@, n.ask)] \in Sock
      BY <2>1, <3>2 DEF Sock
    <3>4. QED
      BY <3>1, <3>3, PeerTypeFact
  <2>3. CASE HangUp(fd)
    <3>1. Peer(fd, [n EXCEPT !.hup = TRUE])
      BY <2>3 DEF HangUp
    <3>2. [n EXCEPT !.hup = TRUE] \in Sock
      BY <2>1 DEF Sock
    <3>3. QED
      BY <3>1, <3>2, PeerTypeFact
  <2>4. CASE Drain(fd)
    <3>1. Peer(fd, [n EXCEPT !.full = FALSE])
      BY <2>4 DEF Drain
    <3>2. [n EXCEPT !.full = FALSE] \in Sock
      BY <2>1 DEF Sock
    <3>3. QED
      BY <3>1, <3>2, PeerTypeFact
  <2>5. CASE Answer(fd)
    <3>1. /\ Peer(fd, [n EXCEPT !.pending = Tail(@), !.inbox = Append(@, Head(n.pending))])
          /\ n.pending # <<>>
      BY <2>5 DEF Answer
    <3>2. n.pending \in Seq(Msg) /\ n.inbox \in Seq(Msg)
      BY <2>1 DEF Sock
    <3>3. Tail(n.pending) \in Seq(Msg) /\ Append(n.inbox, Head(n.pending)) \in Seq(Msg)
      BY <3>1, <3>2
    <3>4. [n EXCEPT !.pending = Tail(@), !.inbox = Append(@, Head(n.pending))] \in Sock
      BY <2>1, <3>3 DEF Sock
    <3>5. QED
      BY <3>1, <3>4, PeerTypeFact
  <2>6. CASE Drop(fd)
    <3>1. Peer(fd, [n EXCEPT !.hup = TRUE])
      BY <2>6 DEF Drop
    <3>2. [n EXCEPT !.hup = TRUE] \in Sock
      BY <2>1 DEF Sock
    <3>3. QED
      BY <3>1, <3>2, PeerTypeFact
  <2>7. QED
    BY <1>2, <2>2, <2>3, <2>4, <2>5, <2>6
<1>3. QED
  BY <1>1, <1>2 DEF Outside

Kinds == {"disconnect", "read", "write"}

(* What epoll_wait may report of a descriptor, and of which.               *)
LEMMA EventFact ==
  ASSUME Typed, NEW fd \in Fds, Event(fd) # "quiet"
  PROVE  /\ Event(fd) \in Kinds /\ Reg(fd) \in {"in", "out"}
         /\ Event(fd) = "disconnect" => net[fd].hup
         /\ Event(fd) = "read" => Reg(fd) = "in" /\ net[fd].inbox # <<>>
         /\ Event(fd) = "write" => Reg(fd) = "out"
<1>1. Reg(fd) \in {"none", "off", "in", "out"} /\ net[fd].hup \in BOOLEAN
  BY DEF Typed, Sock, Reg
<1>2. CASE net[fd].hup /\ Reg(fd) \in {"in", "out"}
  BY <1>2 DEF Event, Kinds, Reg
<1>3. CASE ~(net[fd].hup /\ Reg(fd) \in {"in", "out"})
  <2>1. CASE Reg(fd) \in {"none", "off"}
    BY <2>1, <1>3 DEF Event, Reg
  <2>2. CASE Reg(fd) = "in"
    BY <2>2, <1>3 DEF Event, Kinds, Reg
  <2>3. CASE Reg(fd) = "out"
    BY <2>3, <1>3 DEF Event, Kinds, Reg
  <2>4. QED
    BY <2>1, <2>2, <2>3, <1>1
<1>4. QED
  BY <1>2, <1>3

(* Descriptors and users as they are made.                                 *)
LEMMA NewTypeFact ==
  ASSUME Typed
  PROVE  /\ Unused \in Sock /\ Lost \in Sock
         /\ [Unused EXCEPT !.kind = "upstream", !.interest = "in"] \in Sock
         /\ [Unused EXCEPT !.kind = "client", !.interest = "in",
                           !.ask = <<conns - backlog + 1, 1>>] \in Sock
         /\ \A u \in Conn, p \in Fds : InitConn(u, p) \in Conn
<1>1. Junk \in Msg /\ <<conns - backlog + 1, 1>> \in Msg /\ <<>> \in Seq(Msg) /\ 0 \in Nat
  BY DEF Junk, Msg, Typed
<1>2. Unused \in Sock
  BY <1>1 DEF Unused, Sock
<1>3. Lost \in Sock
  BY <1>2 DEF Lost, Sock
<1>4. [Unused EXCEPT !.kind = "upstream", !.interest = "in"] \in Sock
  BY <1>2 DEF Sock
<1>5. [Unused EXCEPT !.kind = "client", !.interest = "in",
                     !.ask = <<conns - backlog + 1, 1>>] \in Sock
  BY <1>1, <1>2 DEF Sock
<1>6. ASSUME NEW u \in Conn, NEW p \in Fds PROVE InitConn(u, p) \in Conn
  <2>1. u.iov \in Seq(Msg)
    BY DEF Conn
  <2>2. [i \in DOMAIN u.iov |-> Junk] \in Seq(Msg)
    BY <1>1, <2>1
  <2>3. QED
    BY <1>1, <2>2 DEF InitConn, Conn
<1>7. QED
  BY <1>2, <1>3, <1>4, <1>5, <1>6

(* CloseConn and Close.                                                    *)
LEMMA CloseTypeFact ==
  ASSUME Typed, Placed, NEW t \in Procs, CloseConn(t) PROVE Typed'
<1> USE DEF listener, outside
<1>1. {"close", "closeProxy"} \subseteq Places
  BY DEF Places, Labels
<1>2. CASE Unregister(t)
  <2> DEFINE gone == {cur[t], users[cur[t]].proxy}
  <2>1. net' \in [Fds -> Sock]
    <3>1. net' = [fd \in Fds |-> IF fd \in gone THEN [net[fd] EXCEPT !.interest = "none"]
                                 ELSE net[fd]]
      BY <1>2 DEF Unregister
    <3>2. ASSUME NEW fd \in Fds PROVE [net[fd] EXCEPT !.interest = "none"] \in Sock
      <4>1. net[fd] \in Sock
        BY DEF Typed
      <4>2. QED
        BY <4>1 DEF Sock
    <3> HIDE DEF gone
    <3>3. QED
      BY <3>1, <3>2 DEF Typed
  <2>2. map' \in [Fds -> Fds \cup {NoFd}]
    BY <1>2 DEF Unregister, Typed
  <2>3. pc' \in [Procs -> Places]
    BY <1>1, <1>2, ThreadTypeFact DEF Unregister
  <2>4. QED
    BY <2>1, <2>2, <2>3, <1>2 DEF Unregister, Typed
<1>3. CASE CloseClient(t)
  <2>1. net' \in [Fds -> Sock]
    BY <1>3, NewTypeFact DEF CloseClient, Typed
  <2>2. users' \in [0 .. MaxFd -> Conn]
    <3>1. \A c \in 0 .. MaxFd : [users[c] EXCEPT !.closed = TRUE] \in Conn
      BY DEF Typed, Conn
    <3>2. QED
      BY <3>1, <1>3 DEF CloseClient, Typed
  <2>3. pc' \in [Procs -> Places] /\ cur' \in [Procs -> Fds \cup {NoFd}]
    BY <1>1, <1>3, ThreadTypeFact DEF CloseClient, Typed
  <2>4. QED
    BY <2>1, <2>2, <2>3, <1>3 DEF CloseClient, Typed
<1>4. CASE CloseProxy(t)
  <2>1. net' \in [Fds -> Sock]
    BY <1>4, NewTypeFact DEF CloseProxy, Typed
  <2>2. users' \in [0 .. MaxFd -> Conn]
    <3>1. \A c \in 0 .. MaxFd : [users[c] EXCEPT !.parsed = 0] \in Conn
      BY DEF Typed, Conn
    <3>2. QED
      BY <3>1, <1>4 DEF CloseProxy, Typed
  <2>3. pc' \in [Procs -> Places] /\ cur' \in [Procs -> Fds \cup {NoFd}]
    BY <1>4, ThreadTypeFact DEF CloseProxy
  <2>4. QED
    BY <2>1, <2>2, <2>3, <1>4 DEF CloseProxy, Typed
<1>5. QED
  BY <1>2, <1>3, <1>4 DEF CloseConn

(* The reactor.  It reconnects nothing: upstream descriptors report no     *)
(* disconnection.                                                          *)
LEMMA MainTypeFact == ASSUME IInv, MainStep PROVE Typed'
<1> USE NumberFact DEF listener, outside, threads
<1>1. {"top", "dispatch", "accept", "unregister"} \subseteq Places /\ Typed
  BY DEF Places, Labels, IInv
<1>2. CASE Wait
  <2>1. \A fd \in ReadyFds : fd \in Fds /\ Event(fd) \in Kinds
    BY <1>1, EventFact DEF ReadyFds
  <2>2. batch' \in SUBSET (Fds \X Kinds \cup {<<NoFd, "listen">>})
    BY <2>1, <1>2 DEF Wait
  <2>3. net' \in [Fds -> Sock]
    <3>1. ASSUME NEW fd \in Fds PROVE Disarmed(net[fd]) \in Sock
      <4>1. net[fd] \in Sock
        BY <1>1 DEF Typed
      <4>2. QED
        BY <4>1 DEF Sock, Disarmed
    <3>2. QED
      BY <3>1, <1>1, <1>2 DEF Wait, Typed
  <2>4. QED
    BY <2>2, <2>3, <1>1, <1>2, ThreadTypeFact DEF Wait, Typed, Kinds
<1>3. ASSUME NEW fd \in Fds \cup {NoFd},
             NEW kind \in {"listen", "disconnect", "read", "write"}, Dispatch(fd, kind)
      PROVE  Typed'
  <2>1. batch' \in SUBSET (Fds \X Kinds \cup {<<NoFd, "listen">>})
    BY <1>1, <1>3 DEF Dispatch, Typed, Kinds
  <2>2. (fd \in Fds \/ kind = "listen") /\ <<fd, kind>> \in batch
    BY <1>1, <1>3 DEF Dispatch, Typed
  <2>3. UNCHANGED <<net, users, map, listener, outside>>
    BY <1>3 DEF Dispatch
  <2>4. CASE kind = "listen"
    <3>1. Goto(Main, "accept") /\ UNCHANGED <<queue, cur, retry>>
      BY <2>4, <1>3 DEF Dispatch
    <3>2. QED
      BY <2>1, <2>3, <3>1, <1>1, ThreadTypeFact DEF Typed, Kinds
  <2>5. CASE kind = "disconnect"
    <3>1. fd # NoFd => map[fd] = NoFd
      <4>1. <<fd, kind>>[1] = fd /\ <<fd, kind>>[2] = kind
        OBVIOUS
      <4>2. Kind(fd) = "client"
        BY <4>1, <2>2, <2>5 DEF IInv, Staged
      <4>3. QED
        BY <4>2, <2>2, <2>5 DEF IInv, Wired, Typed
    <3>2. /\ Goto(Main, "unregister") /\ cur' = [cur EXCEPT ![Main] = fd]
          /\ retry' = 0 /\ queue' = queue
      BY <3>1, <2>5, <1>3 DEF Dispatch
    <3>3. QED
      BY <2>1, <2>2, <2>3, <2>5, <3>2, <1>1, ThreadTypeFact DEF Typed, Kinds
  <2>6. CASE kind \in {"read", "write"}
    <3> DEFINE inProxy == fd # NoFd /\ map[fd] # NoFd
               user == IF inProxy THEN map[fd] ELSE fd
               op == IF inProxy THEN [read |-> "readP", write |-> "writeP"]
                                ELSE [read |-> "readC", write |-> "writeC"]
    <3>1. queue' = Append(queue, <<user, op[kind]>>) /\ UNCHANGED <<pc, cur, retry>>
      BY <2>6, <1>3 DEF Dispatch
    <3>2. user \in Fds /\ op[kind] \in Ops
      BY <1>1, <2>2, <2>6 DEF Typed, Ops
    <3> HIDE DEF inProxy, user, op
    <3>3. queue' \in Seq(Fds \X Ops)
      BY <1>1, <3>1, <3>2 DEF Typed
    <3>4. QED
      BY <2>1, <2>3, <3>1, <3>3, <1>1 DEF Typed, Kinds
  <2>7. QED
    BY <2>4, <2>5, <2>6
<1>4. CASE BatchDone \/ AcceptBusy \/ AcceptFails
  <2>1. backlog' \in Int
    BY <1>1, <1>4 DEF BatchDone, AcceptBusy, AcceptFails, Accepting, Typed
  <2>2. pc' \in [Procs -> Places]
    BY <1>1, <1>4, ThreadTypeFact DEF BatchDone, AcceptBusy, AcceptFails
  <2>3. QED
    BY <2>1, <2>2, <1>1, <1>4 DEF BatchDone, AcceptBusy, AcceptFails, Typed
<1>5. CASE Accept
  <2> DEFINE c == Accepted
             p == Min(Free \ {Accepted})
  <2>1. Free # {} /\ Cardinality(Free) > 1 /\ AddClient(c, p) /\ backlog' = backlog - 1
    BY <1>5 DEF Accept, Accepting
  <2>2. Free \subseteq Fds /\ Free \ {Accepted} # {}
    <3>1. Free \subseteq Fds
      BY DEF Free
    <3>2. Free # {Accepted}
      BY <2>1, FS_Singleton
    <3>3. QED
      BY <3>1, <3>2, <2>1
  <2>3. c \in Fds /\ p \in Fds
    BY <2>1, <2>2, MinFact DEF Accepted
  <2> HIDE DEF c, p
  <2>4. net' \in [Fds -> Sock] /\ users' \in [0 .. MaxFd -> Conn]
    BY <2>1, <2>3, <1>1, NewTypeFact DEF AddClient, Typed
  <2>5. map' \in [Fds -> Fds \cup {NoFd}]
    BY <2>1, <2>3, <1>1 DEF AddClient, Typed
  <2>6. backlog' \in Int /\ UNCHANGED <<threads, outside>>
    BY <2>1, <1>1, <1>5 DEF Accept, Typed
  <2>7. QED
    BY <2>4, <2>5, <2>6, <1>1 DEF Typed
<1>6. CASE AcceptUnreachable
  <2>1. net' \in [Fds -> Sock]
    <3>1. CASE Cardinality(Free) > 1
      BY <3>1, <1>1, <1>6, NewTypeFact DEF AcceptUnreachable, Typed
    <3>2. CASE ~(Cardinality(Free) > 1)
      BY <3>2, <1>1, <1>6, NewTypeFact DEF AcceptUnreachable, Typed
    <3>3. QED
      BY <3>1, <3>2
  <2>2. backlog' \in Int
    BY <1>1, <1>6 DEF AcceptUnreachable, Accepting, Typed
  <2>3. QED
    BY <2>1, <2>2, <1>1, <1>6 DEF AcceptUnreachable, Typed
<1>7. CASE Reconnect \/ ReconnectFails
  BY <1>1, <1>7 DEF Reconnect, ReconnectFails, Typed, Places
<1>8. CASE CloseConn(Main)
  BY <1>1, <1>8, CloseTypeFact DEF IInv
<1>9. QED
  BY <1>2, <1>3, <1>4, <1>5, <1>6, <1>7, <1>8 DEF MainStep

(* The workers.                                                            *)
LEMMA WorkerTypeFact ==
  ASSUME IInv, NEW w \in Workers, WorkerStep(w)
  PROVE  Typed'
<1> USE NumberFact DEF listener, outside
<1>1. /\ {"process", "unregister", "armCIn", "armCOut", "armPIn", "armPOut"} \cup Ops \subseteq Places
      /\ Typed
  BY DEF Places, Labels, IInv, Ops
<1>2. <<>> \in Seq(Msg)
  OBVIOUS
<1>3. CASE Take(w)
  <2>1. Head(queue) \in Fds \X Ops /\ Tail(queue) \in Seq(Fds \X Ops)
    BY <1>1, <1>3 DEF Take, Typed
  <2>2. Head(queue)[1] \in Fds /\ Head(queue)[2] \in Ops
    BY <2>1
  <2>3. QED
    BY <2>1, <2>2, <1>1, <1>3, ThreadTypeFact DEF Take, Typed
<1>4. ASSUME pc[w] \in Holding PROVE cur[w] \in Fds /\ users[cur[w]] \in Conn
  BY <1>1, <1>4 DEF IInv, Placed, Typed
<1>5. CASE Read(w)
  <2> DEFINE fd == Target(w)
             u == users[cur[w]]
  <2>1. cur[w] \in Fds /\ u \in Conn
    BY <1>4, <1>5 DEF Read, Holding, Labels, Ops
  <2>2. pc' \in [Procs -> Places]
    BY <1>1, <1>5, ThreadTypeFact DEF Read
  <2>3. net' \in [Fds -> Sock] /\ users' \in [0 .. MaxFd -> Conn]
    <3>1. CASE IsOpen(fd)
      <4>1. net[fd] \in Sock
        BY <1>1, <3>1 DEF Typed, IsOpen
      <4>2. [net[fd] EXCEPT !.inbox = <<>>] \in Sock
        BY <1>2, <4>1 DEF Sock
      <4>3. u.readBuff \o net[fd].inbox \in Seq(Msg)
        BY <2>1, <4>1 DEF Conn, Sock
      <4>4. [u EXCEPT !.readBuff = @ \o net[fd].inbox] \in Conn
        BY <2>1, <4>3 DEF Conn
      <4>5. /\ net' = [net EXCEPT ![fd] = [net[fd] EXCEPT !.inbox = <<>>]]
            /\ users' = [users EXCEPT ![cur[w]] = [u EXCEPT !.readBuff = @ \o net[fd].inbox]]
        BY <3>1, <1>5 DEF Read
      <4>6. QED
        BY <4>2, <4>4, <4>5, <1>1 DEF Typed
    <3>2. CASE ~IsOpen(fd)
      BY <3>2, <1>1, <1>5 DEF Read, Typed
    <3>3. QED
      BY <3>1, <3>2
  <2>4. QED
    BY <2>2, <2>3, <1>1, <1>5 DEF Read, Typed
<1>6. CASE ProcessRequest(w)
  <2> DEFINE u == users[cur[w]]
             out == MakeProxyRequests(u)
  <2>1. cur[w] \in Fds /\ u \in Conn
    BY <1>4, <1>6 DEF ProcessRequest, Holding, Labels
  <2>2. PICK n \in 0 .. load.parts :
          IF n = load.parts /\ u.readBuff # <<>>
          THEN /\ users' = [users EXCEPT ![cur[w]] =
                    [u EXCEPT !.parsed = n, !.readBuff = <<>>, !.writeBuff = out,
                              !.iov = out, !.stage = "upstream"]]
               /\ Goto(w, "armPOut")
          ELSE /\ users' = [users EXCEPT ![cur[w]] =
                    [u EXCEPT !.parsed = n, !.readBuff = <<>>]]
               /\ Goto(w, "armCOut")
    BY <1>6 DEF ProcessRequest
  <2>3. n \in Nat
    BY <1>1, ProxyAssumption DEF Typed
  <2>4. pc' \in [Procs -> Places]
    BY <2>2, <1>1, ThreadTypeFact
  <2>5. users' \in [0 .. MaxFd -> Conn]
    <3>1. CASE n = load.parts /\ u.readBuff # <<>>
      <4>1. u.readBuff \in Seq(Msg) /\ u.writeBuff \in Seq(Msg)
        BY <2>1 DEF Conn
      <4>2. u.readBuff[Len(u.readBuff)] \in Msg
        BY <3>1, <4>1
      <4>3. out \in Seq(Msg)
        BY <4>1, <4>2 DEF MakeProxyRequests
      <4> HIDE DEF out
      <4>4. [u EXCEPT !.parsed = n, !.readBuff = <<>>, !.writeBuff = out,
                      !.iov = out, !.stage = "upstream"] \in Conn
        BY <1>2, <2>1, <2>3, <4>3 DEF Conn
      <4>5. QED
        BY <3>1, <2>2, <4>4, <1>1 DEF Typed
    <3>2. CASE ~(n = load.parts /\ u.readBuff # <<>>)
      <4>1. [u EXCEPT !.parsed = n, !.readBuff = <<>>] \in Conn
        BY <1>2, <2>1, <2>3 DEF Conn
      <4>2. QED
        BY <3>2, <2>2, <4>1, <1>1 DEF Typed
    <3>3. QED
      BY <3>1, <3>2
  <2>6. QED
    BY <2>4, <2>5, <1>1, <1>6 DEF ProcessRequest, Typed
<1>7. CASE ProcessAnswer(w)
  <2>1. users[cur[w]] \in Conn
    BY <1>4, <1>7 DEF ProcessAnswer, Holding, Labels
  <2>2. Swapped(users[cur[w]]) \in Conn
    BY <2>1 DEF Swapped, Conn
  <2>3. pc' \in [Procs -> Places]
    BY <1>1, <1>7, ThreadTypeFact DEF ProcessAnswer
  <2>4. QED
    BY <2>2, <2>3, <1>1, <1>7 DEF ProcessAnswer, Typed
<1>8. CASE WriteAll(w)
  <2> DEFINE fd == Target(w)
             u == users[cur[w]]
  <2>1. u \in Conn
    BY <1>4, <1>8 DEF WriteAll, Holding, Labels, Ops
  <2>2. [u EXCEPT !.iov = <<>>, !.writeBuff = <<>>] \in Conn
    BY <1>2, <2>1 DEF Conn
  <2>3. users' \in [0 .. MaxFd -> Conn]
    BY <2>2, <1>1, <1>8 DEF WriteAll, Typed
  <2>4. pc' \in [Procs -> Places]
    BY <1>1, <1>8, ThreadTypeFact DEF WriteAll
  <2>5. net' \in [Fds -> Sock]
    <3>1. CASE u.iov = <<>>
      BY <3>1, <1>1, <1>8 DEF WriteAll, Typed
    <3>2. CASE u.iov # <<>>
      <4>1. net[fd] \in Sock
        BY <3>2, <1>1, <1>8 DEF WriteAll, IsOpen, Typed
      <4> DEFINE asked == [net[fd] EXCEPT !.pending = @ \o u.iov]
                 served == [net[fd] EXCEPT !.sent = 0, !.ask = <<net[fd].ask[1], net[fd].ask[2] + 1>>]
                 answered == \E i \in DOMAIN u.iov : u.iov[i] = net[fd].ask
      <4>2. asked \in Sock
        <5>1. net[fd].pending \o u.iov \in Seq(Msg)
          BY <4>1, <2>1 DEF Sock, Conn
        <5>2. QED
          BY <4>1, <5>1 DEF Sock
      <4>3. served \in Sock
        <5>1. <<net[fd].ask[1], net[fd].ask[2] + 1>> \in Msg /\ 0 \in Nat
          BY <4>1 DEF Sock, Msg
        <5>2. QED
          BY <4>1, <5>1 DEF Sock
      <4>4. net' = [net EXCEPT ![fd] = CASE InProxy(w) -> IF net[fd].hup THEN net[fd] ELSE asked
                                         [] ~InProxy(w) /\ answered -> served
                                         [] OTHER -> net[fd]]
        BY <3>2, <1>8 DEF WriteAll
      <4> HIDE DEF asked, served, answered, fd
      <4>5. CASE InProxy(w)
        <5>1. net' = [net EXCEPT ![fd] = IF net[fd].hup THEN net[fd] ELSE asked]
          BY <4>4, <4>5
        <5>2. QED
          BY <5>1, <4>1, <4>2, <1>1 DEF Typed
      <4>6. CASE ~InProxy(w)
        <5>1. net' = [net EXCEPT ![fd] = IF answered THEN served ELSE net[fd]]
          BY <4>4, <4>6
        <5>2. QED
          BY <5>1, <4>1, <4>3, <1>1 DEF Typed
      <4>7. QED
        BY <4>5, <4>6
    <3>3. QED
      BY <3>1, <3>2
  <2>6. QED
    BY <2>3, <2>4, <2>5, <1>1, <1>8 DEF WriteAll, Typed
<1>9. CASE WriteBlocks(w)
  <2>1. pc' \in [Procs -> Places]
    BY <1>1, <1>9, ThreadTypeFact DEF WriteBlocks, Again
  <2>2. net' \in [Fds -> Sock]
    <3>1. net[Target(w)] \in Sock
      BY <1>1, <1>9 DEF WriteBlocks, IsOpen, Typed
    <3>2. [net[Target(w)] EXCEPT !.full = TRUE] \in Sock
      BY <3>1 DEF Sock
    <3>3. QED
      BY <3>2, <1>1, <1>9 DEF WriteBlocks, Typed
  <2>3. QED
    BY <2>1, <2>2, <1>1, <1>9 DEF WriteBlocks, Typed
<1>10. CASE WriteFails(w)
  <2>1. pc' \in [Procs -> Places] /\ cur' \in [Procs -> Fds \cup {NoFd}]
    BY <1>1, <1>10, ThreadTypeFact DEF WriteFails, Typed
  <2>2. QED
    BY <2>1, <1>1, <1>10 DEF WriteFails, Typed
<1>11. CASE ModFd(w)
  <2>1. pc' \in [Procs -> Places] /\ cur' \in [Procs -> Fds \cup {NoFd}]
    BY <1>1, <1>11, ThreadTypeFact DEF ModFd
  <2>2. net' \in [Fds -> Sock]
    <3>1. CASE Target(w) \in Fds
      <4>1. net[Target(w)] \in Sock
        BY <1>1, <3>1 DEF Typed
      <4>2. \A i \in {"none", "in", "out"} : [net[Target(w)] EXCEPT !.interest = i] \in Sock
        BY <4>1 DEF Sock
      <4>3. \E i \in {"none", "in", "out"} :
              net' = [net EXCEPT ![Target(w)] = [net[Target(w)] EXCEPT !.interest = i]]
        BY <1>11 DEF ModFd
      <4>4. QED
        BY <4>2, <4>3, <1>1 DEF Typed
    <3>2. CASE Target(w) \notin Fds
      BY <3>2, <1>1, <1>11 DEF ModFd, Typed
    <3>3. QED
      BY <3>1, <3>2
  <2>3. QED
    BY <2>1, <2>2, <1>1, <1>11 DEF ModFd, Typed
<1>12. CASE CloseConn(w)
  BY <1>1, <1>12, CloseTypeFact DEF IInv
<1>13. QED
  BY <1>3, <1>5, <1>6, <1>7, <1>8, <1>9, <1>10, <1>11, <1>12 DEF WorkerStep

----------------------------------------------------------------------------
(***************************************************************************)
(* Ownership                                                               *)
(***************************************************************************)

(* What a descriptor and a user are known to be.                           *)
LEMMA FieldFact ==
  ASSUME IInv, NEW fd \in Fds
  PROVE  /\ Kind(fd) \in {"free", "client", "upstream", "lost"}
         /\ Reg(fd) \in {"none", "off", "in", "out"}
         /\ net[fd].hup \in BOOLEAN
         /\ users[fd].closed \in BOOLEAN
         /\ Up(fd) \in Fds \cup {NoFd}
         /\ Stage(fd) \in {"client", "upstream"}
         /\ map[fd] \in Fds \cup {NoFd}
<1>1. net[fd] \in Sock /\ users[fd] \in Conn /\ map[fd] \in Fds \cup {NoFd}
  BY NumberFact DEF IInv, Typed
<1>2. QED
  BY <1>1 DEF Sock, Conn, Kind, Reg, Up, Stage

(* Entries of the batch.                                                   *)
LEMMA BatchFact ==
  ASSUME IInv, NEW e \in batch
  PROVE  /\ e = <<e[1], e[2]>>
         /\ e[1] # NoFd => e[1] \in Fds /\ e[2] \in Kinds
         /\ e[1] = NoFd => e[2] = "listen"
<1>1. CASE e \in Fds \X Kinds
  <2>1. PICK fd \in Fds, k \in Kinds : e = <<fd, k>>
    BY <1>1
  <2>2. e[1] = fd /\ e[2] = k /\ fd # NoFd
    BY <2>1, NumberFact
  <2>3. QED
    BY <2>1, <2>2
<1>2. CASE e = <<NoFd, "listen">>
  <2>1. e[1] = NoFd /\ e[2] = "listen"
    BY <1>2
  <2>2. QED
    BY <1>2, <2>1
<1>3. QED
  BY <1>1, <1>2 DEF IInv, Typed, Kinds

(* The two descriptors of an open user.                                    *)
LEMMA WireFact ==
  ASSUME IInv, NEW c \in Fds, Open(c)
  PROVE  /\ Up(c) \in Fds /\ Up(c) # c /\ Side(c) \in {c, Up(c)}
         /\ Kind(c) = "client" /\ Kind(Up(c)) = "upstream" /\ ~net[Up(c)].hup
         /\ map[c] = NoFd
         /\ \A d \in Fds : Open(d) => /\ Up(d) # c /\ Up(c) # d
                                      /\ Up(c) = Up(d) \/ Side(c) = Side(d) => c = d
         /\ Waiting(Up(c)) <=> \/ Reg(Up(c)) = "out"
                               \/ Reg(Up(c)) = "in" /\ Traffic(Up(c))
<1>1. /\ Up(c) \in Fds /\ Kind(c) = "client" /\ Kind(Up(c)) = "upstream" /\ ~net[Up(c)].hup
      /\ \A d \in Fds : Open(d) => /\ Kind(d) = "client" /\ Kind(Up(d)) = "upstream"
                                   /\ Up(c) = Up(d) => c = d
  BY DEF IInv, Wired
<1>2. map[c] = NoFd
  BY <1>1, FieldFact DEF IInv, Wired
<1>3. \A d \in Fds : Open(d) => Up(d) # c /\ Up(c) # d
  BY <1>1
<1>4. \A d \in Fds : Open(d) /\ Side(c) = Side(d) => c = d
  BY <1>1, <1>3 DEF Side
<1>5. QED
  BY <1>1, <1>2, <1>3, <1>4 DEF Side, Waiting, Reg, Traffic

(* What a thread may rely on while it holds a user.                        *)
LEMMA HandFact ==
  ASSUME IInv, NEW t \in Procs, pc[t] \in Holding
  PROVE  /\ cur[t] \in Fds /\ Open(cur[t])
         /\ ~Armed(cur[t]) /\ ~Batched(cur[t]) /\ ~Queued(cur[t])
         /\ \A s \in Procs : Holds(s, cur[t]) => s = t
         /\ pc[t] # "close" => /\ map[Up(cur[t])] = cur[t]
                               /\ Reg(cur[t]) = "off"
                               /\ \/ Reg(Up(cur[t])) = "off"
                                  \/ Reg(Up(cur[t])) = "in" /\ ~Traffic(Up(cur[t]))
<1> DEFINE c == cur[t]
<1>1. c \in Fds /\ Holds(t, c)
  BY DEF IInv, Placed, Holds
<1>2. Held(c)
  BY <1>1 DEF Held
<1>3. Open(c) /\ ~Armed(c) /\ ~Batched(c) /\ ~Queued(c)
  BY <1>1, <1>2 DEF IInv, Own, Owned, Exclusive
<1>4. \A s \in Procs : Holds(s, c) => s = t
  BY <1>1 DEF IInv, Own, Once
<1> HIDE DEF c
<1>5. ASSUME pc[t] # "close"
      PROVE  /\ map[Up(c)] = c /\ Reg(c) = "off"
             /\ Reg(Up(c)) = "off" \/ (Reg(Up(c)) = "in" /\ ~Traffic(Up(c)))
  <2>1. \A s \in Procs : ~(cur[s] = c /\ pc[s] = "close")
    BY <1>4, <1>5 DEF Holds, Holding, Labels
  <2>2. map[Up(c)] = c /\ Reg(c) # "none" /\ Reg(Up(c)) # "none"
    BY <1>1, <1>3, <2>1 DEF IInv, Closing
  <2>3. Up(c) \in Fds /\ ~Waiting(Up(c)) /\ Reg(c) \notin {"in", "out"}
    BY <1>1, <1>3, WireFact DEF Armed
  <2>4. Reg(c) = "off" /\ Reg(Up(c)) \in {"off", "in", "out"}
    BY <1>1, <2>2, <2>3, FieldFact
  <2>5. Reg(Up(c)) # "out" /\ (Reg(Up(c)) = "in" => ~Traffic(Up(c)))
    BY <1>1, <1>3, <2>3, WireFact
  <2>6. QED
    BY <2>2, <2>4, <2>5
<1>6. QED
  BY <1>1, <1>3, <1>4, <1>5 DEF c

(* Steps that touch no user and move no thread to or from one.             *)
LEMMA AsideFact ==
  ASSUME IInv, UNCHANGED <<users, map, queue, cur>>,
         batch' = batch \/ batch' = batch \ {<<NoFd, "listen">>},
         \A fd \in Fds :
           /\ Reg(fd)' = Reg(fd)
           /\ \/ Kind(fd)' = Kind(fd)
              \/ Kind(fd) \in {"free", "lost"} /\ Kind(fd)' \in {"free", "lost"}
           /\ Kind(fd) = "upstream" => net'[fd].hup = net[fd].hup /\ Traffic(fd)' = Traffic(fd),
         pc' = pc \/ \E l \in {"top", "dispatch", "accept"} :
                       /\ pc' = [pc EXCEPT ![Main] = l]
                       /\ pc[Main] \in {"top", "dispatch", "accept"}
                       /\ l = "top" => batch' = {}
  PROVE  Own' /\ Wired' /\ Closing' /\ Placed' /\ Staged' /\ Filled'
<1>1. Main \in Procs /\ pc \in [Procs -> Places]
  BY NumberFact DEF IInv, Typed
<1>2. \A t \in Procs : \A l \in Holding \cup {"closeProxy"} : pc[t] = l <=> pc'[t] = l
  BY <1>1 DEF Holding
<1>3. \A t \in Procs : pc[t] \in Holding <=> pc'[t] \in Holding
  BY <1>2
<1>4. /\ \A c : /\ Open(c)' = Open(c) /\ Up(c)' = Up(c) /\ Stage(c)' = Stage(c)
                /\ Side(c)' = Side(c) /\ Loaded(c)' = Loaded(c)
      /\ \A c : Queued(c)' = Queued(c)
      /\ \A c \in Fds : Open(c) => Batched(c)' = Batched(c)
  <2>1. /\ \A c : /\ Open(c)' = Open(c) /\ Up(c)' = Up(c) /\ Stage(c)' = Stage(c)
                  /\ Side(c)' = Side(c) /\ Loaded(c)' = Loaded(c)
        /\ \A c : Queued(c)' = Queued(c)
    BY DEF Open, Up, Stage, Side, Loaded, Queued
  <2>2. <<NoFd, "listen">>[1] = NoFd
    OBVIOUS
  <2>3. \A c \in Fds : Open(c) => Side(c) # NoFd
    BY WireFact, NumberFact
  <2>4. \A c \in Fds : Open(c) => Batched(c)' = Batched(c)
    BY <2>1, <2>2, <2>3 DEF Batched
  <2>5. QED
    BY <2>1, <2>4
<1>5. \A c \in Fds : Open(c) => /\ Waiting(Up(c))' = Waiting(Up(c))
                                /\ Traffic(Up(c))' = Traffic(Up(c))
                                /\ Reg(Up(c))' = Reg(Up(c))
                                /\ Armed(c)' = Armed(c)
  <2> SUFFICES ASSUME NEW c \in Fds, Open(c)
               PROVE  /\ Waiting(Up(c))' = Waiting(Up(c))
                      /\ Traffic(Up(c))' = Traffic(Up(c))
                      /\ Reg(Up(c))' = Reg(Up(c))
                      /\ Armed(c)' = Armed(c)
    OBVIOUS
  <2>1. Up(c) \in Fds /\ Kind(Up(c)) = "upstream" /\ Up(c)' = Up(c)
    BY <1>4, WireFact
  <2>2. Reg(Up(c))' = Reg(Up(c)) /\ Traffic(Up(c))' = Traffic(Up(c)) /\ Reg(c)' = Reg(c)
    BY <2>1 DEF Reg, Traffic, Up
  <2>3. Waiting(Up(c))' = Waiting(Up(c))
    BY <2>1, <2>2 DEF Waiting, Reg, Traffic
  <2>4. QED
    BY <2>2, <2>3 DEF Armed
<1>6. \A c \in Fds : (\A t \in Procs : Holds(t, c)' = Holds(t, c)) /\ Held(c)' = Held(c)
  BY <1>3 DEF Holds, Held
<1>7. Own'
  BY <1>4, <1>5, <1>6 DEF IInv, Own, Owned, Exclusive, Once
<1>8. Wired'
  BY <1>2, <1>4 DEF IInv, Wired
<1>9. Closing'
  <2>1. \A t \in Procs : pc'[t] = "close" => pc[t] = "close" /\ cur[t] \in Fds /\ Open(cur[t])
    BY <1>2, HandFact DEF Holding, Labels
  <2>2. \A t \in Procs : pc'[t] = "closeProxy" <=> pc[t] = "closeProxy"
    BY <1>2
  <2>3. \A t \in Procs : pc[t] = "close" => pc'[t] = "close"
    BY <1>2 DEF Holding, Labels
  <2>4. \A t \in Procs : pc[t] = "closeProxy" => Up(cur[t]) \in Fds /\ Kind(Up(cur[t])) = "upstream"
    BY DEF IInv, Closing
  <2>5. \A fd \in Fds : Reg(fd)' = Reg(fd) /\ (Kind(fd) = "upstream" => Kind(fd)' = "upstream")
    OBVIOUS
  <2>6. \A c \in Fds : Open(c) => Up(c) \in Fds
    BY WireFact
  <2>7. QED
    BY <2>1, <2>2, <2>3, <2>4, <2>5, <2>6 DEF IInv, Closing, Open, Up, Reg, Kind
<1>10. Placed'
  BY <1>1, <1>2, <1>3 DEF IInv, Placed
<1>11. Staged'
  <2>1. \A t \in Procs : \A l \in {"readC", "writeC", "armCIn", "armCOut",
                                    "readP", "writeP", "armPIn", "armPOut"} :
          pc'[t] = l => pc[t] = l
    BY <1>2 DEF Holding, Labels, Ops
  <2>2. \A e \in batch : e[1] # NoFd /\ Kind(e[1]) = "client" => Kind(e[1])' = "client"
    BY BatchFact
  <2>3. \A c \in Fds : Open(c) => (Waiting(Up(c))' <=> Waiting(Up(c))) /\ Reg(c)' = Reg(c)
    BY <1>5
  <2> USE DEF Open, Up, Stage, Side, Kind
  <2>4. QED
    BY <2>1, <2>2, <2>3 DEF IInv, Staged
<1>12. Filled'
  <2>1. \A t \in Procs : \A l \in {"armPOut", "writeP", "armPIn"} : pc'[t] = l <=> pc[t] = l
    BY <1>2 DEF Holding, Labels, Ops
  <2>2. \A t \in Procs : pc[t] = "armPIn" => cur[t] \in Fds /\ Open(cur[t])
    BY HandFact DEF Holding, Labels
  <2>3. \A c \in Fds : Open(c) => Reg(Up(c))' = Reg(Up(c)) /\ Traffic(Up(c))' = Traffic(Up(c))
    BY <1>5
  <2> USE DEF Open, Up, Stage, Loaded
  <2>4. QED
    BY <2>1, <2>2, <2>3 DEF IInv, Filled
<1>13. QED
  BY <1>7, <1>8, <1>9, <1>10, <1>11, <1>12

(* Of a user that is not in the batch neither descriptor is.               *)
LEMMA NoEventFact ==
  ASSUME IInv, NEW c \in Fds, Open(c), ~Batched(c), NEW e \in batch
  PROVE  e[1] # c /\ e[1] # Up(c)
<1>1. CASE e[1] = NoFd
  BY <1>1, WireFact, NumberFact
<1>2. CASE e[1] # NoFd
  <2>1. PICK d \in Fds : Open(d) /\ e[1] = Side(d)
    BY <1>2 DEF IInv, Staged
  <2>2. d # c
    BY <2>1 DEF Batched
  <2>3. Side(d) \in {d, Up(d)}
    BY DEF Side
  <2>4. Up(d) # c /\ Up(c) # d /\ Up(c) # Up(d)
    BY <2>1, <2>2, WireFact
  <2>5. QED
    BY <2>1, <2>2, <2>3, <2>4
<1>3. QED
  BY <1>1, <1>2

(* What is done to a user and its descriptors opens, closes and arms none, *)
(* and touches no other one.                                               *)
Minds(c, p) ==
  /\ \A fd \in Fds : /\ Kind(fd)' = Kind(fd) /\ Reg(fd)' = Reg(fd)
                     /\ net'[fd].hup = net[fd].hup
                     /\ fd \notin {c, p} => Traffic(fd)' = Traffic(fd)
  /\ \A d \in Fds : /\ users'[d].closed = users[d].closed
                    /\ users'[d].proxy = users[d].proxy
                    /\ d # c => users'[d] = users[d]

(* A worker goes on with its user, in the same stage or the other one.     *)
LEMMA WorkFact ==
  ASSUME IInv, NEW w \in Workers, NEW c, c = cur[w], NEW p, p = Up(c),
         pc[w] \in {"readC", "readP", "writeC", "writeP", "process"},
         NEW l \in {"process", "unregister", "armCIn", "armCOut", "armPIn", "armPOut"},
         pc' = [pc EXCEPT ![w] = l],
         UNCHANGED <<map, batch, queue, cur>>,
         Minds(c, p),
         Reg(p) = "in" => ~Traffic(p)' /\ (users'[c].stage = "client" \/ l = "armPOut"),
         l \in {"armCIn", "armCOut"} => users'[c].stage = "client",
         l \in {"armPIn", "armPOut"} => users'[c].stage = "upstream",
         l = "armPOut" => users'[c].iov # <<>>,
         l = "armPIn" => Traffic(p)'
  PROVE  Own' /\ Wired' /\ Closing' /\ Placed' /\ Staged' /\ Filled'
<1>0. /\ \A fd \in Fds : /\ Kind(fd)' = Kind(fd) /\ Reg(fd)' = Reg(fd)
                         /\ net'[fd].hup = net[fd].hup
                         /\ fd \notin {c, p} => Traffic(fd)' = Traffic(fd)
      /\ \A d \in Fds : /\ users'[d].closed = users[d].closed
                        /\ users'[d].proxy = users[d].proxy
                        /\ d # c => users'[d] = users[d]
  BY DEF Minds
<1> USE <1>0
<1>1. /\ w \in Procs /\ w # Main /\ pc[w] \in Holding /\ l \in Holding
      /\ pc \in [Procs -> Places]
  BY NumberFact DEF Holding, Labels, Ops, IInv, Typed
<1>2. /\ c \in Fds /\ Open(c) /\ ~Batched(c) /\ ~Queued(c)
      /\ \A t \in Procs : Holds(t, c) => t = w
      /\ map[p] = c /\ Reg(c) = "off"
      /\ Reg(p) = "off" \/ (Reg(p) = "in" /\ ~Traffic(p))
  <2>1. pc[w] # "close"
    OBVIOUS
  <2>2. QED
    BY <1>1, <2>1, HandFact
<1>3. /\ p \in Fds /\ p # c /\ Kind(p) = "upstream"
      /\ \A d \in Fds : Open(d) => Up(d) # c /\ (Up(d) = p => d = c)
  BY <1>2, WireFact
<1>4. /\ pc'[w] = l /\ cur'[w] = c
      /\ \A t \in Procs : t # w => pc'[t] = pc[t]
  BY <1>1
<1>5. /\ \A d \in Fds : Open(d)' = Open(d) /\ Up(d)' = Up(d)
      /\ \A d \in Fds : d # c => /\ Stage(d)' = Stage(d) /\ Side(d)' = Side(d)
                                 /\ Loaded(d)' = Loaded(d)
  BY DEF Open, Up, Stage, Side, Loaded
<1>6. \A d \in Fds : Open(d) /\ d # c =>
        /\ Up(d) \in Fds \ {c, p} /\ Reg(d)' = Reg(d) /\ Reg(Up(d))' = Reg(Up(d))
        /\ Traffic(Up(d))' = Traffic(Up(d))
        /\ Waiting(Up(d))' = Waiting(Up(d))
        /\ Armed(d)' = Armed(d)
  <2> SUFFICES ASSUME NEW d \in Fds, Open(d), d # c
               PROVE  /\ Up(d) \in Fds \ {c, p} /\ Reg(d)' = Reg(d)
                      /\ Reg(Up(d))' = Reg(Up(d))
                      /\ Traffic(Up(d))' = Traffic(Up(d))
                      /\ Waiting(Up(d))' = Waiting(Up(d))
                      /\ Armed(d)' = Armed(d)
    OBVIOUS
  <2>1. Up(d) \in Fds \ {c, p} /\ Up(d)' = Up(d)
    BY <1>3, <1>5, WireFact
  <2>2. Reg(Up(d))' = Reg(Up(d)) /\ Traffic(Up(d))' = Traffic(Up(d)) /\ Reg(d)' = Reg(d)
    BY <2>1 DEF Reg, Traffic, Up
  <2>3. Waiting(Up(d))' = Waiting(Up(d))
    BY <2>1, <2>2 DEF Waiting, Reg, Traffic
  <2>4. QED
    BY <2>1, <2>2, <2>3 DEF Armed
<1>7. Up(c)' = p /\ ~Waiting(p)' /\ ~Armed(c)' /\ ~Batched(c)' /\ ~Queued(c)' /\ Holds(w, c)'
  <2>1. Up(c)' = p
    BY <1>2, <1>5
  <2>2. Reg(p)' # "out" /\ (Reg(p)' = "in" => ~Traffic(p)') /\ Reg(c)' = "off"
    BY <1>2, <1>3
  <2>3. ~Waiting(p)'
    BY <1>3, <2>2 DEF Waiting, Reg, Traffic
  <2>4. ~Armed(c)'
    BY <2>1, <2>2, <2>3 DEF Armed, Up, Reg
  <2>5. ~Batched(c)'
    <3>1. Side(c)' \in {c, p}
      BY <2>1 DEF Side, Stage, Up
    <3>2. QED
      BY <3>1, <1>2, NoEventFact DEF Batched
  <2>6. QED
    BY <2>1, <2>3, <2>4, <2>5, <1>1, <1>2, <1>4 DEF Queued, Holds
<1>8. \A d \in Fds : d # c => /\ Batched(d)' = Batched(d) /\ Queued(d)' = Queued(d)
                              /\ \A t \in Procs : Holds(t, d)' = Holds(t, d)
                              /\ Held(d)' = Held(d)
  <2>1. \A d \in Fds : d # c => Batched(d)' = Batched(d) /\ Queued(d)' = Queued(d)
    BY <1>5 DEF Batched, Queued
  <2>2. \A d \in Fds : d # c => \A t \in Procs : Holds(t, d)' = Holds(t, d)
    BY <1>4 DEF Holds
  <2>3. QED
    BY <2>1, <2>2 DEF Held
<1>9. Own'
  <2>1. Owned' /\ Exclusive'
    BY <1>1, <1>2, <1>5, <1>6, <1>7, <1>8 DEF IInv, Own, Owned, Exclusive, Held
  <2>2. \A d \in Fds : \A s, t \in Procs : Holds(s, d)' /\ Holds(t, d)' => s = t
    <3>1. \A t \in Procs : Holds(t, c)' => t = w
      BY <1>1, <1>2, <1>4 DEF Holds
    <3>2. QED
      BY <3>1, <1>8 DEF IInv, Own, Once
  <2>3. QED
    BY <2>1, <2>2 DEF IInv, Own, Once
<1>10. Wired'
  <2>1. \A t \in Procs : pc'[t] = "closeProxy" <=> pc[t] = "closeProxy"
    BY <1>4
  <2>2. \A t \in Procs : pc[t] = "closeProxy" => cur[t] \in Fds
    BY DEF IInv, Placed
  <2>3. /\ \A d \in Fds : Open(d) => Up(d) \in Fds
        /\ \A t \in Procs : pc[t] = "closeProxy" => Up(cur[t])' = Up(cur[t])
        /\ \A fd \in Fds : map'[fd] = map[fd] /\ (map[fd] = NoFd \/ map[fd] \in Fds)
    BY <2>2, <1>5, WireFact, FieldFact DEF Up
  <2>4. /\ \A fd \in Fds : Kind(fd)' = Kind(fd) /\ Reg(fd)' = Reg(fd)
        /\ \A fd \in Fds : net'[fd].hup = net[fd].hup
    OBVIOUS
  <2>5. /\ \A d \in Fds : Open(d)' => Up(d)' \in Fds /\ Kind(d)' = "client"
        /\ \A d \in Fds : Open(d)' => net'[Up(d)'].kind = "upstream"
    BY <2>3, <2>4, <1>5 DEF IInv, Wired, Kind
  <2>6. \A fd \in Fds : Kind(fd)' = "upstream" =>
          /\ ~net'[fd].hup
          /\ \/ \E d \in Fds : Open(d)' /\ Up(d)' = fd
             \/ \E t \in Procs : pc'[t] = "closeProxy" /\ Up(cur[t])' = fd
    BY <2>1, <2>3, <2>4, <1>5 DEF IInv, Wired
  <2>7. QED
    BY <2>3, <2>4, <2>5, <2>6, <1>5 DEF IInv, Wired, Kind, Up
<1>11. Closing'
  <2>1. \A t \in Procs : /\ pc'[t] = "closeProxy" <=> pc[t] = "closeProxy"
                         /\ pc'[t] = "close" <=> pc[t] = "close"
    BY <1>4
  <2>2. \A t \in Procs : pc[t] \in {"close", "closeProxy"} => cur[t] \in Fds
    BY DEF IInv, Placed, Holding, Labels
  <2>3. \A t \in Procs : pc[t] = "close" => Up(cur[t]) \in Fds
    BY HandFact, WireFact DEF Holding, Labels
  <2>4. \A d \in Fds : Open(d) => Up(d) \in Fds
    BY WireFact
  <2>5. \A t \in Procs : pc[t] = "closeProxy" => Up(cur[t]) \in Fds
    BY DEF IInv, Closing
  <2>6. \A fd \in Fds : Kind(fd)' = Kind(fd) /\ Reg(fd)' = Reg(fd)
    OBVIOUS
  <2>7. QED
    BY <2>1, <2>2, <2>3, <2>4, <2>5, <2>6 DEF IInv, Closing, Open, Up, Kind, Reg
<1>12. Placed'
  BY <1>1, <1>2, <1>4 DEF IInv, Placed
<1>13. Staged'
  <2>1. \A d \in Fds : Open(d)' => /\ Stage(d)' = "client" => ~Waiting(Up(d))'
                                   /\ Stage(d)' = "upstream" => Reg(d)' \notin {"in", "out"}
    <3>1. ~Waiting(Up(c))' /\ Reg(c)' = "off"
      BY <1>2, <1>7 DEF Armed
    <3>2. QED
      BY <3>1, <1>5, <1>6 DEF IInv, Staged
  <2>2. \A e \in batch' : e[1] # NoFd =>
          /\ \E d \in Fds : Open(d)' /\ e[1] = Side(d)'
          /\ e[2] = "disconnect" => Kind(e[1])' = "client"
    <3> SUFFICES ASSUME NEW e \in batch, e[1] # NoFd
                 PROVE  /\ \E d \in Fds : Open(d)' /\ e[1] = Side(d)'
                        /\ e[2] = "disconnect" => Kind(e[1])' = "client"
      OBVIOUS
    <3>1. PICK d \in Fds : Open(d) /\ e[1] = Side(d)
      BY DEF IInv, Staged
    <3>2. d # c
      BY <3>1, <1>2 DEF Batched
    <3>3. Open(d)' /\ e[1] = Side(d)'
      BY <3>1, <3>2, <1>5
    <3>4. e[2] = "disconnect" => Kind(e[1])' = "client"
      BY BatchFact DEF IInv, Staged
    <3>5. QED
      BY <3>3, <3>4
  <2>3. \A i \in DOMAIN queue' :
          queue'[i][2] \in {"readC", "writeC"} <=> Stage(queue[i][1])' = "client"
    <3>1. \A i \in DOMAIN queue : queue[i][1] \in Fds /\ queue[i][1] # c
      BY <1>2 DEF Queued, IInv, Typed
    <3>2. QED
      BY <3>1 DEF IInv, Staged, Stage
  <2>4. \A t \in Procs :
          /\ pc'[t] \in {"readC", "writeC", "armCIn", "armCOut"} => users'[cur'[t]].stage = "client"
          /\ pc'[t] \in {"readP", "writeP", "armPIn", "armPOut"} => users'[cur'[t]].stage = "upstream"
    <3>1. \A t \in Procs : t # w /\ pc[t] \in Holding => cur[t] \in Fds /\ cur[t] # c
      BY <1>2 DEF Holds, IInv, Placed
    <3>2. {"readC", "writeC", "armCIn", "armCOut", "readP", "writeP", "armPIn", "armPOut"}
            \subseteq Holding
      BY DEF Holding, Labels, Ops
    <3>3. QED
      BY <1>4, <3>1, <3>2 DEF IInv, Staged, Stage
  <2>5. QED
    BY <2>1, <2>2, <2>3, <2>4 DEF Staged, Stage
<1>14. Filled'
  <2>1. ASSUME NEW d \in Fds, Open(d)', Stage(d)' = "upstream"
        PROVE  /\ Reg(Up(d))' = "out" \/ <<Up(d)', "write">> \in batch' => Loaded(d)'
               /\ Reg(Up(d))' = "in" => \/ Traffic(Up(d))'
                                        \/ \E t \in Procs : cur'[t] = d /\ pc'[t] = "armPOut"
    <3>1. CASE d = c
      <4>1. <<p, "write">> \notin batch
        BY <1>2, NoEventFact
      <4>2. Reg(p)' = "in" => l = "armPOut"
        BY <1>3, <2>1, <3>1 DEF Stage
      <4>3. QED
        BY <4>1, <4>2, <3>1, <1>1, <1>2, <1>3, <1>4, <1>7
    <3>2. CASE d # c
      <4>1. \A t \in Procs : cur[t] = d /\ pc[t] = "armPOut" => cur'[t] = d /\ pc'[t] = "armPOut"
        BY <3>2, <1>4
      <4>2. Open(d) /\ Stage(d) = "upstream" /\ Up(d)' = Up(d) /\ Loaded(d)' = Loaded(d)
        BY <2>1, <3>2, <1>5
      <4>3. Reg(Up(d))' = Reg(Up(d)) /\ Traffic(Up(d))' = Traffic(Up(d))
        BY <3>2, <4>2, <1>6
      <4>4. QED
        BY <4>1, <4>2, <4>3 DEF IInv, Filled
    <3>3. QED
      BY <3>1, <3>2
  <2>2. \A i \in DOMAIN queue' : queue'[i][2] = "writeP" => users'[queue'[i][1]].iov # <<>>
    <3>1. \A i \in DOMAIN queue : queue[i][1] \in Fds /\ queue[i][1] # c
      BY <1>2 DEF Queued, IInv, Typed
    <3>2. QED
      BY <3>1 DEF IInv, Filled, Loaded
  <2>3. ASSUME NEW t \in Procs
        PROVE  /\ pc'[t] \in {"armPOut", "writeP"} => users'[cur'[t]].iov # <<>>
               /\ pc'[t] = "armPIn" => Traffic(Up(cur[t]))'
    <3>1. CASE t = w
      BY <3>1, <1>4, <1>7
    <3>2. CASE t # w
      <4>1. pc[t] \in {"armPOut", "writeP", "armPIn"} => /\ cur[t] \in Fds /\ cur[t] # c
                                                         /\ Open(cur[t])
        <5>1. {"armPOut", "writeP", "armPIn"} \subseteq Holding
          BY DEF Holding, Labels, Ops
        <5>2. QED
          BY <3>2, <5>1, <1>2, HandFact DEF Holds
      <4>2. pc[t] = "armPIn" => Traffic(Up(cur[t]))' = Traffic(Up(cur[t]))
        BY <4>1, <1>6
      <4>3. QED
        BY <3>2, <4>1, <4>2, <1>4 DEF IInv, Filled, Loaded
    <3>3. QED
      BY <3>1, <3>2
  <2>4. QED
    BY <2>1, <2>2, <2>3 DEF Filled, Loaded
<1>15. QED
  BY <1>9, <1>10, <1>11, <1>12, <1>13, <1>14

(* Descriptors other than c and p are left alone, and their sockets are.   *)
Spares(c, p) ==
  \A fd \in Fds : /\ Kind(fd)' = Kind(fd) /\ net'[fd].hup = net[fd].hup
                  /\ Traffic(fd)' = Traffic(fd)
                  /\ fd \notin {c, p} => Reg(fd)' = Reg(fd) /\ map'[fd] = map[fd]

(* If anybody has the user in hand it is this thread.                      *)
Sole(t, c) == \A s \in Procs : Holds(s, c) => s = t

(* A user goes from one of the four places to another, with thread t, which *)
(* goes from l0 to l: the hypotheses are about this user alone.            *)
LEMMA MoveFact ==
  ASSUME IInv, UNCHANGED users, NEW c \in Fds, Open(c), NEW p, p = Up(c),
         Spares(c, p), map'[c] = map[c], map'[p] = map[p] \/ map'[p] = NoFd,
         batch' \subseteq batch, \A e \in batch : e \in batch' \/ e[1] = Side(c),
         \A d \in Fds : d # c => Queued(d)' = Queued(d),
         \A i \in DOMAIN queue' : queue'[i][1] = c \/ \E j \in DOMAIN queue : queue'[i] = queue[j],
         \A i, j \in DOMAIN queue' : queue'[i][1] = queue'[j][1] => i = j,
         \A i \in DOMAIN queue' : queue'[i][1] = c =>
           /\ queue'[i][2] \in {"readC", "writeC"} <=> Stage(c) = "client"
           /\ queue'[i][2] = "writeP" => Loaded(c),
         NEW t \in Procs, NEW l, NEW x,
         pc' = [pc EXCEPT ![t] = l], cur' = [cur EXCEPT ![t] = x],
         Sole(t, c),
         pc[t] \in Holding => cur[t] = c, pc[t] \notin {"close", "closeProxy"},
         l \in Ops \cup {"dispatch", "idle", "unregister", "close"},
         l \in Holding => x = c,
         Armed(c)' => ~Batched(c)' /\ ~Queued(c)' /\ l \notin Holding,
         Batched(c)' => ~Queued(c)' /\ l \notin Holding,
         Queued(c)' => l \notin Holding,
         Armed(c)' \/ Batched(c)' \/ Queued(c)' \/ l \in Holding,
         l = "close" => Reg(c)' = "none" /\ Reg(p)' = "none" /\ map'[p] = NoFd,
         l # "close" => map'[p] = c /\ Reg(c)' # "none" /\ Reg(p)' # "none",
         Stage(c) = "client" => ~Waiting(p)',
         Stage(c) = "upstream" =>
           /\ Reg(c)' \notin {"in", "out"}
           /\ Reg(p)' = "out" => Loaded(c)
           /\ Reg(p)' = "in" => Traffic(p),
         l \in {"readC", "writeC"} => Stage(c) = "client",
         l \in {"readP", "writeP"} => Stage(c) = "upstream",
         l = "writeP" => Loaded(c)
  PROVE  Own' /\ Wired' /\ Closing' /\ Placed' /\ Staged' /\ Filled'
<1>0. \A fd \in Fds : /\ Kind(fd)' = Kind(fd) /\ net'[fd].hup = net[fd].hup
                      /\ Traffic(fd)' = Traffic(fd)
                      /\ fd \notin {c, p} => Reg(fd)' = Reg(fd) /\ map'[fd] = map[fd]
  BY DEF Spares
<1> USE <1>0
<1>1. /\ pc \in [Procs -> Places] /\ cur \in [Procs -> Fds \cup {NoFd}]
      /\ pc'[t] = l /\ cur'[t] = x
      /\ \A s \in Procs : s # t => pc'[s] = pc[s] /\ cur'[s] = cur[s]
  BY DEF IInv, Typed
<1>2. /\ p \in Fds /\ p # c /\ Kind(c) = "client" /\ Kind(p) = "upstream"
      /\ \A d \in Fds : Open(d) => Up(d) # c /\ (Up(d) = p => d = c) /\ d # p
  BY WireFact
<1>3. \A d : /\ Open(d)' = Open(d) /\ Up(d)' = Up(d) /\ Stage(d)' = Stage(d)
             /\ Side(d)' = Side(d) /\ Loaded(d)' = Loaded(d)
  BY DEF Open, Up, Stage, Side, Loaded
<1>4. \A d \in Fds : Open(d) /\ d # c =>
        /\ Up(d) \in Fds \ {c, p} /\ Reg(d)' = Reg(d) /\ Reg(Up(d))' = Reg(Up(d))
        /\ map'[Up(d)] = map[Up(d)]
        /\ Traffic(Up(d))' = Traffic(Up(d))
        /\ Waiting(Up(d))' = Waiting(Up(d))
        /\ Armed(d)' = Armed(d)
  <2> SUFFICES ASSUME NEW d \in Fds, Open(d), d # c
               PROVE  /\ Up(d) \in Fds \ {c, p} /\ Reg(d)' = Reg(d)
                      /\ Reg(Up(d))' = Reg(Up(d)) /\ map'[Up(d)] = map[Up(d)]
                      /\ Traffic(Up(d))' = Traffic(Up(d))
                      /\ Waiting(Up(d))' = Waiting(Up(d))
                      /\ Armed(d)' = Armed(d)
    OBVIOUS
  <2>1. Up(d) \in Fds \ {c, p} /\ Up(d)' = Up(d) /\ d \notin {c, p}
    BY <1>2, <1>3, WireFact
  <2>2. /\ Reg(Up(d))' = Reg(Up(d)) /\ Traffic(Up(d))' = Traffic(Up(d)) /\ Reg(d)' = Reg(d)
        /\ map'[Up(d)] = map[Up(d)]
    BY <2>1 DEF Reg, Traffic, Up
  <2>3. Waiting(Up(d))' = Waiting(Up(d))
    BY <2>1, <2>2 DEF Waiting, Reg, Traffic
  <2>4. QED
    BY <2>1, <2>2, <2>3 DEF Armed
<1>5. \A d \in Fds : Open(d) /\ d # c => Batched(d)' = Batched(d)
  <2>1. \A d \in Fds : Open(d) /\ d # c => Side(d) # Side(c)
    BY WireFact
  <2>2. QED
    BY <2>1, <1>3 DEF Batched
<1>6. \A d \in Fds : d # c => Queued(d)' = Queued(d)
  OBVIOUS
<1>7. \A d \in Fds : d # c => /\ \A s \in Procs : Holds(s, d)' = Holds(s, d)
                              /\ Held(d)' = Held(d)
  <2>1. \A d \in Fds : d # c => \A s \in Procs : Holds(s, d)' = Holds(s, d)
    BY <1>1 DEF Holds
  <2>2. QED
    BY <2>1 DEF Held
<1>8. /\ \A s \in Procs : Holds(s, c)' => s = t
      /\ Held(c)' <=> l \in Holding
  <2>1. \A s \in Procs : Holds(s, c)' => s = t
    BY <1>1 DEF Holds, Sole
  <2>2. Holds(t, c)' <=> l \in Holding
    BY <1>1 DEF Holds
  <2>3. QED
    BY <2>1, <2>2 DEF Held
<1>9. Own'
  <2>1. Owned' /\ Exclusive'
    <3>1. \A d \in Fds : d # c => IF Open(d)' THEN Armed(d)' \/ Batched(d)' \/ Queued(d)' \/ Held(d)'
                                  ELSE ~Queued(d)' /\ ~Held(d)'
      BY <1>3, <1>4, <1>5, <1>6, <1>7 DEF IInv, Own, Owned
    <3>2. \A d \in Fds : Open(d)' /\ d # c =>
            /\ Armed(d)' => ~Batched(d)' /\ ~Queued(d)' /\ ~Held(d)'
            /\ Batched(d)' => ~Queued(d)' /\ ~Held(d)'
            /\ Queued(d)' => ~Held(d)'
      BY <1>3, <1>4, <1>5, <1>6, <1>7 DEF IInv, Own, Exclusive
    <3>3. Open(c)'
      BY <1>3
    <3>4. QED
      BY <3>1, <3>2, <3>3, <1>8 DEF Owned, Exclusive
  <2>2. \A d \in Fds : \A r, s \in Procs : Holds(r, d)' /\ Holds(s, d)' => r = s
    BY <1>7, <1>8 DEF IInv, Own, Once
  <2>3. QED
    BY <2>1, <2>2 DEF IInv, Own, Once
<1>10. \A s \in Procs : /\ pc'[s] = "closeProxy" <=> pc[s] = "closeProxy"
                        /\ pc[s] = "closeProxy" => cur'[s] = cur[s] /\ cur[s] \in Fds
  BY <1>1 DEF IInv, Placed, Ops
<1>11. \A s \in Procs : pc[s] = "closeProxy" => /\ Up(cur[s]) \in Fds \ {c, p}
                                                /\ Kind(Up(cur[s])) = "upstream"
                                                /\ Reg(Up(cur[s]))' = "none"
  <2>1. \A s \in Procs : pc[s] = "closeProxy" => /\ Up(cur[s]) \in Fds /\ Up(cur[s]) # p
                                                 /\ Kind(Up(cur[s])) = "upstream"
                                                 /\ Reg(Up(cur[s])) = "none"
    BY DEF IInv, Closing
  <2>2. QED
    BY <2>1, <1>2, <1>10 DEF Reg, Up
<1>12. Wired'
  <2>1. /\ \A d \in Fds : Open(d)' => Up(d)' \in Fds /\ Kind(d)' = "client"
        /\ \A d \in Fds : Open(d)' => net'[Up(d)'].kind = "upstream"
        /\ \A d, e \in Fds : Open(d)' /\ Open(e)' /\ Up(d)' = Up(e)' => d = e
        /\ \A fd \in Fds : Kind(fd)' = "client" => Open(fd)'
    BY <1>3 DEF IInv, Wired, Kind
  <2>2. \A fd \in Fds : Kind(fd)' = "upstream" =>
          /\ ~net'[fd].hup
          /\ \/ \E d \in Fds : Open(d)' /\ Up(d)' = fd
             \/ \E s \in Procs : pc'[s] = "closeProxy" /\ Up(cur[s])' = fd
    BY <1>3, <1>10 DEF IInv, Wired, Up
  <2>3. \A fd \in Fds : Kind(fd)' \in {"free", "lost"} => Reg(fd)' = "none"
    BY <1>2 DEF IInv, Wired
  <2>4. \A fd \in Fds : map'[fd] # NoFd => map'[fd] = map[fd] /\ Open(map[fd]) /\ Up(map[fd]) = fd
    <3>1. \A fd \in Fds : map'[fd] # NoFd => map'[fd] = map[fd]
      OBVIOUS
    <3>2. QED
      BY <3>1 DEF IInv, Wired
  <2>5. \A fd \in Fds : map'[fd] # NoFd => Open(map[fd])' /\ Up(map[fd])' = fd
    BY <2>4 DEF Open, Up
  <2>6. QED
    BY <2>1, <2>2, <2>3, <2>4, <2>5 DEF Wired, Open, Up, Kind
<1>13. Closing'
  <2>1. \A d \in Fds : Open(d)' =>
          \/ map'[Up(d)'] = d /\ Reg(d)' # "none" /\ net'[Up(d)'].interest # "none"
          \/ \E s \in Procs : cur'[s] = d /\ pc'[s] = "close"
    <3> SUFFICES ASSUME NEW d \in Fds, Open(d)
                 PROVE  \/ map'[Up(d)] = d /\ Reg(d)' # "none" /\ net'[Up(d)].interest # "none"
                        \/ \E s \in Procs : cur'[s] = d /\ pc'[s] = "close"
      BY <1>3
    <3>1. CASE d = c
      <4>1. l = "close" => l \in Holding
        BY DEF Holding, Labels
      <4>2. QED
        BY <3>1, <4>1, <1>1 DEF Reg
    <3>2. CASE d # c
      <4>1. CASE \E s \in Procs : cur[s] = d /\ pc[s] = "close"
        BY <4>1, <1>1
      <4>2. CASE map[Up(d)] = d /\ Reg(d) # "none" /\ Reg(Up(d)) # "none"
        BY <3>2, <4>2, <1>4 DEF Reg, Up
      <4>3. QED
        BY <4>1, <4>2 DEF IInv, Closing
    <3>3. QED
      BY <3>1, <3>2
  <2>2. ASSUME NEW s \in Procs, pc'[s] = "close"
        PROVE  Reg(cur[s])' = "none" /\ Reg(Up(cur[s]))' = "none" /\ map'[Up(cur[s])'] = NoFd
    <3>1. CASE s = t
      <4>1. "close" \in Holding
        BY DEF Holding, Labels
      <4>2. x = c /\ cur'[s] = c
        BY <4>1, <3>1, <2>2, <1>1
      <4>3. QED
        BY <4>2, <3>1, <2>2, <1>1, <1>3 DEF Reg, Up
    <3>2. CASE s # t
      <4>1. pc[s] = "close" /\ cur'[s] = cur[s]
        BY <3>2, <2>2, <1>1
      <4>2. cur[s] \in Fds /\ Open(cur[s]) /\ cur[s] # c
        <5>1. "close" \in Holding
          BY DEF Holding, Labels
        <5>2. QED
          BY <3>2, <4>1, <5>1, HandFact DEF Holds, Sole
      <4>3. Reg(cur[s]) = "none" /\ Reg(Up(cur[s])) = "none" /\ map[Up(cur[s])] = NoFd
        BY <4>1 DEF IInv, Closing
      <4>4. QED
        BY <4>1, <4>2, <4>3, <1>4 DEF Reg, Up
    <3>3. QED
      BY <3>1, <3>2
  <2>3. ASSUME NEW s \in Procs, pc'[s] = "closeProxy"
        PROVE  /\ ~Open(cur[s])'
               /\ Up(cur[s])' \in Fds /\ Kind(Up(cur[s]))' = "upstream" /\ Reg(Up(cur[s]))' = "none"
               /\ \A d \in Fds : Open(d)' => Up(d)' # Up(cur[s])'
               /\ \A r \in Procs : pc'[r] = "closeProxy" /\ Up(cur[r])' = Up(cur[s])' => r = s
    <3>1. pc[s] = "closeProxy" /\ cur'[s] = cur[s]
      BY <2>3, <1>10
    <3>2. Up(cur[s])' = Up(cur[s]) /\ Open(cur[s])' = Open(cur[s])
      BY <3>1 DEF Up, Open
    <3>3. \A r \in Procs : pc'[r] = "closeProxy" => pc[r] = "closeProxy" /\ Up(cur[r])' = Up(cur[r])
      BY <1>10 DEF Up
    <3>4. Kind(Up(cur[s]))' = "upstream" /\ Reg(Up(cur[s]))' = "none"
      BY <3>1, <3>2, <1>11 DEF Kind, Reg
    <3>5. QED
      BY <3>1, <3>2, <3>3, <3>4, <1>3, <1>11 DEF IInv, Closing
  <2>4. QED
    BY <2>1, <2>2, <2>3 DEF Closing, Reg, Up
<1>14. Placed'
  <2>1. pc'[Main] = "top" => batch' = {}
    BY <1>1, NumberFact DEF IInv, Placed, Ops
  <2>2. QED
    BY <2>1, <1>1 DEF IInv, Placed, Ops
<1>15. Staged'
  <2>1. \A d \in Fds : Open(d)' => /\ Stage(d)' = "client" => ~Waiting(Up(d))'
                                   /\ Stage(d)' = "upstream" => Reg(d)' \notin {"in", "out"}
    <3>1. Up(c)' = p
      BY <1>3
    <3>2. Waiting(Up(c))' = Waiting(p)'
      BY <3>1 DEF Waiting
    <3>3. QED
      BY <3>2, <1>3, <1>4 DEF IInv, Staged
  <2>2. \A e \in batch' : e[1] # NoFd =>
          /\ \E d \in Fds : Open(d)' /\ e[1] = Side(d)'
          /\ e[2] = "disconnect" => Kind(e[1])' = "client"
    BY <1>3, BatchFact DEF IInv, Staged
  <2>3. \A i \in DOMAIN queue' :
          queue'[i][2] \in {"readC", "writeC"} <=> users'[queue'[i][1]].stage = "client"
    BY DEF IInv, Staged, Stage
  <2>4. \A s \in Procs :
          /\ pc'[s] \in {"readC", "writeC", "armCIn", "armCOut"} => users'[cur'[s]].stage = "client"
          /\ pc'[s] \in {"readP", "writeP", "armPIn", "armPOut"} => users'[cur'[s]].stage = "upstream"
    <3>1. Ops \subseteq Holding
      BY DEF Holding, Labels, Ops
    <3>2. l \notin {"armCIn", "armCOut", "armPIn", "armPOut"}
      BY DEF Ops
    <3>3. QED
      BY <3>1, <3>2, <1>1 DEF IInv, Staged, Stage, Ops
  <2>5. QED
    BY <2>1, <2>2, <2>3, <2>4 DEF Staged, Stage
<1>16. Filled'
  <2>1. ASSUME NEW d \in Fds, Open(d), Stage(d) = "upstream"
        PROVE  /\ Reg(Up(d))' = "out" \/ <<Up(d)', "write">> \in batch' => Loaded(d)
               /\ Reg(Up(d))' = "in" => \/ Traffic(Up(d))'
                                        \/ \E s \in Procs : cur'[s] = d /\ pc'[s] = "armPOut"
    <3>1. Up(d)' = Up(d)
      BY <1>3
    <3>2. CASE d = c
      <4>1. Reg(Up(d))' = Reg(p)' /\ Traffic(Up(d))' = Traffic(p) /\ Up(d)' = p
        BY <3>1, <3>2, <1>2 DEF Reg, Traffic
      <4>2. <<p, "write">> \in batch => Loaded(c)
        BY <2>1, <3>2 DEF IInv, Filled
      <4>3. QED
        BY <3>2, <4>1, <4>2, <2>1
    <3>3. CASE d # c
      <4>1. \A s \in Procs : cur[s] = d /\ pc[s] = "armPOut" => cur'[s] = d /\ pc'[s] = "armPOut"
        <5>1. "armPOut" \in Holding
          BY DEF Holding, Labels
        <5>2. QED
          BY <5>1, <3>3, <1>1
      <4>2. QED
        BY <2>1, <3>1, <3>3, <4>1, <1>4 DEF IInv, Filled
    <3>4. QED
      BY <3>2, <3>3
  <2>2. \A i \in DOMAIN queue' : queue'[i][2] = "writeP" => Loaded(queue'[i][1])
    BY DEF IInv, Filled
  <2>3. ASSUME NEW s \in Procs
        PROVE  /\ pc'[s] \in {"armPOut", "writeP"} => Loaded(cur'[s])
               /\ pc'[s] = "armPIn" => Traffic(Up(cur[s]))'
    <3>1. CASE s = t
      <4>1. l \notin {"armPOut", "armPIn"} /\ "writeP" \in Holding
        BY DEF Ops, Holding, Labels
      <4>2. QED
        BY <3>1, <4>1, <1>1
    <3>2. CASE s # t
      <4>1. pc'[s] = pc[s] /\ cur'[s] = cur[s]
        BY <3>2, <1>1
      <4>2. pc[s] = "armPIn" => cur[s] \in Fds /\ Open(cur[s]) /\ Up(cur[s]) \in Fds
        <5>1. "armPIn" \in Holding
          BY DEF Holding, Labels
        <5>2. QED
          BY <5>1, HandFact, WireFact
      <4>3. pc[s] = "armPIn" => Traffic(Up(cur[s]))' = Traffic(Up(cur[s]))
        BY <4>1, <4>2 DEF Traffic, Up
      <4>4. QED
        BY <3>2, <4>1, <4>3 DEF IInv, Filled
    <3>3. QED
      BY <3>1, <3>2
  <2>4. QED
    BY <2>1, <2>2, <2>3, <1>3 DEF Filled, Loaded, Up, Traffic
<1>17. QED
  BY <1>9, <1>12, <1>13, <1>14, <1>15, <1>16

(* A worker takes the next task.                                           *)
LEMMA TakeFact ==
  ASSUME IInv, NEW w \in Workers, Take(w)
  PROVE  Own' /\ Wired' /\ Closing' /\ Placed' /\ Staged' /\ Filled'
<1>1. /\ w \in Procs /\ pc[w] = "idle" /\ queue # <<>> /\ queue' = Tail(queue)
      /\ UNCHANGED <<net, users, map, batch>>
  BY NumberFact DEF Take
<1>2. queue \in Seq(Fds \X Ops)
  BY DEF IInv, Typed
<1>3. /\ Head(queue) = queue[1] /\ 1 \in DOMAIN queue
      /\ queue' \in Seq(Fds \X Ops)
      /\ \A i \in DOMAIN queue' : i + 1 \in DOMAIN queue /\ queue'[i] = queue[i + 1]
      /\ \A i \in DOMAIN queue : i = 1 \/ (i - 1 \in DOMAIN queue' /\ queue'[i - 1] = queue[i])
  BY <1>1, <1>2
<1>4. PICK c \in Fds, l \in Ops : /\ queue[1] = <<c, l>>
                                 /\ cur' = [cur EXCEPT ![w] = c]
                                 /\ pc' = [pc EXCEPT ![w] = l]
  <2>1. PICK c \in Fds, l \in Ops : queue[1] = <<c, l>>
    BY <1>2, <1>3
  <2>2. queue[1][1] = c /\ queue[1][2] = l
    BY <2>1
  <2>3. QED
    BY <2>1, <2>2, <1>3 DEF Take, Goto
<1> PICK p : p = Up(c)
  OBVIOUS
<1>5. Queued(c)
  <2>1. queue[1][1] = c
    BY <1>4
  <2>2. QED
    BY <2>1, <1>3 DEF Queued
<1>6. Open(c) /\ ~Held(c) /\ ~Armed(c) /\ ~Batched(c)
  BY <1>4, <1>5 DEF IInv, Own, Owned, Exclusive
<1>7. Sole(w, c) /\ \A s \in Procs : ~Holds(s, c)
  BY <1>6 DEF Held, Sole
<1>8. \A i, j \in DOMAIN queue : queue[i][1] = queue[j][1] => i = j
  BY DEF IInv, Own, Once
<1>9. /\ \A i \in DOMAIN queue' : queue'[i][1] # c /\ \E j \in DOMAIN queue : queue'[i] = queue[j]
      /\ \A i, j \in DOMAIN queue' : queue'[i][1] = queue'[j][1] => i = j
  <2>1. \A i \in DOMAIN queue' : i \in Nat \ {0}
    BY <1>3
  <2>2. \A i \in DOMAIN queue' : i + 1 # 1
    BY <2>1
  <2>3. QED
    BY <2>1, <2>2, <1>3, <1>4, <1>8
<1>10. /\ ~Queued(c)'
       /\ \A d \in Fds : d # c => Queued(d)' = Queued(d)
  BY <1>3, <1>4, <1>9 DEF Queued
<1>11. ~Armed(c)' /\ ~Batched(c)'
  BY <1>1, <1>6 DEF Armed, Batched, Waiting, Up, Side, Stage, Reg
<1>12. map[p] = c /\ Reg(c) # "none" /\ Reg(p) # "none"
  <2>1. \A t \in Procs : ~(cur[t] = c /\ pc[t] = "close")
    BY <1>7 DEF Holds, Holding, Labels
  <2>2. QED
    BY <2>1, <1>4, <1>6 DEF IInv, Closing
<1>13. /\ Stage(c) = "client" => ~Waiting(p)
       /\ Stage(c) = "upstream" => Reg(c) \notin {"in", "out"} /\ Reg(p) # "out" /\ Reg(p) # "in"
       /\ p \in Fds
  <2>1. \A t \in Procs : ~(cur[t] = c /\ pc[t] = "armPOut")
    BY <1>7 DEF Holds, Holding, Labels
  <2>2. Reg(p) # "out" /\ (Reg(p) = "in" => ~Traffic(p)) /\ Reg(c) \notin {"in", "out"} /\ ~Waiting(p)
    BY <1>4, <1>6, WireFact DEF Armed
  <2>3. Stage(c) = "upstream" => Reg(p) # "in"
    BY <2>1, <2>2, <1>4, <1>6 DEF IInv, Filled
  <2>4. QED
    BY <2>2, <2>3, <1>4, <1>6, WireFact
<1>14. /\ l \in {"readC", "writeC"} <=> Stage(c) = "client"
       /\ l = "writeP" => Loaded(c)
  BY <1>3, <1>4 DEF IInv, Staged, Filled
<1>15. Stage(c) \in {"client", "upstream"}
  BY <1>4, FieldFact
<1>16. Spares(c, p)
  BY <1>1 DEF Spares, Kind, Traffic, Reg
<1>17. Waiting(p)' = Waiting(p) /\ Reg(c)' = Reg(c) /\ Reg(p)' = Reg(p)
  BY <1>1 DEF Waiting, Reg, Up
<1>18. pc[w] \notin Holding /\ l # "close" /\ l \in Holding
  BY <1>1, <1>4 DEF Holding, Labels, Ops
<1>19. QED
  BY <1>1, <1>4, <1>6, <1>7, <1>9, <1>10, <1>11, <1>12, <1>13, <1>14, <1>15, <1>16, <1>17, <1>18,
     MoveFact

(* A worker arms one of its user's descriptors.                            *)
LEMMA ModFdFact ==
  ASSUME IInv, NEW w \in Workers, ModFd(w)
  PROVE  Own' /\ Wired' /\ Closing' /\ Placed' /\ Staged' /\ Filled'
<1>1. /\ w \in Procs /\ w # Main /\ pc[w] \in {"armCIn", "armCOut", "armPIn", "armPOut"}
      /\ pc[w] \in Holding /\ pc[w] \notin {"close", "closeProxy"}
      /\ UNCHANGED <<users, map, batch, queue>>
  BY NumberFact DEF ModFd, Holding, Labels
<1> PICK c : c = cur[w]
  OBVIOUS
<1> PICK p : p = Up(c)
  OBVIOUS
<1>2. /\ c \in Fds /\ Open(c) /\ ~Armed(c) /\ ~Batched(c) /\ ~Queued(c)
      /\ Sole(w, c)
      /\ map[p] = c /\ Reg(c) = "off"
      /\ Reg(p) = "off" \/ (Reg(p) = "in" /\ ~Traffic(p))
  BY <1>1, HandFact DEF Sole
<1>3. p \in Fds /\ p # c
  BY <1>2, WireFact
<1>4. pc' = [pc EXCEPT ![w] = "idle"] /\ cur' = [cur EXCEPT ![w] = NoFd]
  BY <1>1, ThreadTypeFact DEF ModFd, IInv
<1>5. PICK fd \in {c, p} :
        /\ fd = IF pc[w] \in {"armCIn", "armCOut"} THEN c ELSE p
        /\ net' = [net EXCEPT ![fd].interest =
                     IF pc[w] \in {"armCIn", "armPIn"} THEN "in" ELSE "out"]
  <2>1. Target(w) = IF pc[w] \in {"armCIn", "armCOut"} THEN c ELSE p
    BY <1>1 DEF Target, Up
  <2>2. Reg(Target(w)) # "none"
    BY <2>1, <1>2
  <2>3. QED
    BY <2>1, <2>2 DEF ModFd, Reg
<1>6. fd \in Fds /\ net \in [Fds -> Sock]
  BY <1>2, <1>3 DEF IInv, Typed
<1>7. /\ \A f \in Fds : /\ Kind(f)' = Kind(f) /\ net'[f].hup = net[f].hup
                        /\ Traffic(f)' = Traffic(f)
                        /\ f # fd => Reg(f)' = Reg(f)
      /\ Reg(fd)' = IF pc[w] \in {"armCIn", "armPIn"} THEN "in" ELSE "out"
  <2>1. \A f \in Fds : net[f] \in Sock
    BY <1>6
  <2>2. \A f \in Fds : f # fd => net'[f] = net[f]
    BY <1>5, <1>6
  <2>3. net'[fd] = [net[fd] EXCEPT !.interest = IF pc[w] \in {"armCIn", "armPIn"} THEN "in" ELSE "out"]
    BY <1>5, <1>6
  <2>4. /\ net'[fd].kind = net[fd].kind /\ net'[fd].hup = net[fd].hup
        /\ net'[fd].pending = net[fd].pending /\ net'[fd].inbox = net[fd].inbox
        /\ net'[fd].interest = IF pc[w] \in {"armCIn", "armPIn"} THEN "in" ELSE "out"
    BY <2>1, <2>3, <1>6 DEF Sock
  <2>5. QED
    BY <2>2, <2>4 DEF Kind, Traffic, Reg
<1>8. /\ pc[w] \in {"armCIn", "armCOut"} => Stage(c) = "client"
      /\ pc[w] \in {"armPIn", "armPOut"} => Stage(c) = "upstream"
      /\ pc[w] = "armPOut" => Loaded(c)
      /\ pc[w] = "armPIn" => Traffic(p)
  BY <1>1 DEF IInv, Staged, Filled
<1>9. Up(c)' = p /\ Side(c)' = Side(c)
  BY <1>1 DEF Up, Side, Stage
<1>10. Waiting(p)' <=> Reg(p)' = "out" \/ (Reg(p)' = "in" /\ Traffic(p)')
  BY <1>3 DEF Waiting, Reg, Traffic
<1>11. Armed(c)' <=> Reg(c)' \in {"in", "out"} \/ Waiting(p)'
  BY <1>9 DEF Armed, Reg, Waiting
<1>12. ~Batched(c)' /\ ~Queued(c)'
  BY <1>1, <1>2, <1>9 DEF Batched, Queued
<1>13. /\ Armed(c)' /\ Reg(c)' # "none" /\ Reg(p)' # "none"
       /\ Stage(c) = "client" => ~Waiting(p)'
       /\ Stage(c) = "upstream" => /\ Reg(c)' \notin {"in", "out"}
                                   /\ Reg(p)' = "out" => Loaded(c)
                                   /\ Reg(p)' = "in" => Traffic(p)
  <2>1. CASE pc[w] \in {"armCIn", "armCOut"}
    BY <2>1, <1>2, <1>3, <1>5, <1>7, <1>8, <1>10, <1>11
  <2>2. CASE pc[w] \in {"armPIn", "armPOut"}
    BY <2>2, <1>2, <1>3, <1>5, <1>7, <1>8, <1>10, <1>11
  <2>3. QED
    BY <2>1, <2>2, <1>1
<1>14. \A i, j \in DOMAIN queue : queue[i][1] = queue[j][1] => i = j
  BY DEF IInv, Own, Once
<1>15. \A i \in DOMAIN queue : queue[i][1] # c
  BY <1>2 DEF Queued
<1>16. "idle" \notin Holding /\ \A d \in Fds : Queued(d)' = Queued(d)
  BY <1>1 DEF Holding, Queued
<1>17. Spares(c, p)
  BY <1>1, <1>5, <1>7 DEF Spares
<1>18. QED
  BY <1>1, <1>2, <1>3, <1>4, <1>12, <1>13, <1>14, <1>15, <1>16, <1>17, MoveFact

(* A thread begins to close its user.                                      *)
LEMMA UnregisterFact ==
  ASSUME IInv, NEW t \in Procs, Unregister(t)
  PROVE  Own' /\ Wired' /\ Closing' /\ Placed' /\ Staged' /\ Filled'
<1>1. /\ pc[t] = "unregister" /\ pc[t] \in Holding /\ "close" \in Holding
      /\ pc' = [pc EXCEPT ![t] = "close"]
      /\ UNCHANGED <<users, batch, queue, cur>>
  BY DEF Unregister, Goto, listener, outside, Holding, Labels
<1> PICK c : c = cur[t]
  OBVIOUS
<1> PICK p : p = Up(c)
  OBVIOUS
<1>2. /\ c \in Fds /\ Open(c) /\ ~Armed(c) /\ ~Batched(c) /\ ~Queued(c)
      /\ Sole(t, c)
  BY <1>1, HandFact DEF Sole
<1>3. p \in Fds /\ p # c
  BY <1>2, WireFact
<1>4. cur' = [cur EXCEPT ![t] = c]
  BY <1>1 DEF IInv, Typed
<1>5. /\ \A fd \in Fds \ {c, p} : net'[fd] = net[fd] /\ map'[fd] = map[fd]
      /\ \A fd \in {c, p} : net'[fd] = [net[fd] EXCEPT !.interest = "none"]
      /\ map'[c] = map[c] /\ map'[p] = NoFd
  BY <1>2, <1>3 DEF Unregister, Up
<1>6. /\ \A f \in Fds : /\ Kind(f)' = Kind(f) /\ net'[f].hup = net[f].hup
                        /\ Traffic(f)' = Traffic(f)
                        /\ f \notin {c, p} => Reg(f)' = Reg(f)
      /\ \A f \in {c, p} : Reg(f)' = "none"
  <2>1. \A f \in Fds : net[f] \in Sock
    BY DEF IInv, Typed
  <2>2. \A fd \in {c, p} :
          /\ net'[fd].kind = net[fd].kind /\ net'[fd].hup = net[fd].hup
          /\ net'[fd].pending = net[fd].pending /\ net'[fd].inbox = net[fd].inbox
          /\ net'[fd].interest = "none"
    BY <2>1, <1>2, <1>3, <1>5 DEF Sock
  <2>3. QED
    BY <2>2, <1>5 DEF Kind, Traffic, Reg
<1>7. Up(c)' = p /\ Side(c)' = Side(c)
  BY <1>1 DEF Up, Side, Stage
<1>8. ~Waiting(p)' /\ ~Armed(c)' /\ ~Batched(c)' /\ ~Queued(c)'
  <2>1. ~Waiting(p)'
    BY <1>6 DEF Waiting, Reg
  <2>2. QED
    BY <2>1, <1>1, <1>2, <1>6, <1>7 DEF Armed, Waiting, Reg, Batched, Queued
<1>9. \A i, j \in DOMAIN queue : queue[i][1] = queue[j][1] => i = j
  BY DEF IInv, Own, Once
<1>10. \A i \in DOMAIN queue : queue[i][1] # c
  BY <1>2 DEF Queued
<1>11. \A d \in Fds : Queued(d)' = Queued(d)
  BY <1>1 DEF Queued
<1>12. Spares(c, p)
  BY <1>5, <1>6 DEF Spares
<1>13. /\ Reg(c)' = "none" /\ Reg(p)' = "none" /\ cur[t] = c /\ c \in Fds /\ Open(c)
       /\ pc[t] \notin {"close", "closeProxy"} /\ "close" \notin Ops
       /\ map'[c] = map[c] /\ map'[p] = NoFd
  BY <1>1, <1>2, <1>5, <1>6 DEF Ops
<1>14. QED
  BY <1>1, <1>2, <1>4, <1>8, <1>9, <1>10, <1>11, <1>12, <1>13, MoveFact

(* The reactor takes an event: what it is about is a user's descriptor, and *)
(* the map tells which user's.                                             *)
LEMMA DispatchFact ==
  ASSUME IInv, NEW fd \in Fds \cup {NoFd},
         NEW kind \in {"listen", "disconnect", "read", "write"}, Dispatch(fd, kind)
  PROVE  Own' /\ Wired' /\ Closing' /\ Placed' /\ Staged' /\ Filled'
<1>1. /\ Main \in Procs /\ pc[Main] = "dispatch" /\ <<fd, kind>> \in batch
      /\ batch' = batch \ {<<fd, kind>>}
      /\ UNCHANGED <<net, users, map>>
      /\ <<fd, kind>>[1] = fd /\ <<fd, kind>>[2] = kind
      /\ pc[Main] \notin Holding /\ "unregister" \in Holding /\ "unregister" \notin Ops
      /\ "dispatch" \notin Holding /\ pc[Main] \notin {"close", "closeProxy"}
  BY NumberFact DEF Dispatch, Holding, Labels, Ops
<1>2. CASE kind = "listen"
  <2>1. fd = NoFd
    BY <1>1, <1>2, BatchFact DEF Kinds
  <2>2. pc' = [pc EXCEPT ![Main] = "accept"] /\ UNCHANGED <<queue, cur>>
    BY <1>2 DEF Dispatch, Goto
  <2>3. \A f \in Fds : /\ Reg(f)' = Reg(f) /\ Kind(f)' = Kind(f)
                       /\ net'[f].hup = net[f].hup /\ Traffic(f)' = Traffic(f)
    BY <1>1 DEF Reg, Kind, Traffic
  <2>4. QED
    BY <1>1, <1>2, <2>1, <2>2, <2>3, AsideFact
<1>3. CASE kind # "listen"
  <2>1. fd \in Fds /\ fd # NoFd
    BY <1>1, <1>3, BatchFact, NumberFact
  <2>2. PICK c \in Fds : Open(c) /\ fd = Side(c)
    BY <1>1, <2>1 DEF IInv, Staged
  <2> PICK p : p = Up(c)
    OBVIOUS
  <2>3. Batched(c)
    BY <1>1, <2>2 DEF Batched
  <2>4. ~Armed(c) /\ ~Queued(c) /\ ~Held(c)
    BY <2>2, <2>3 DEF IInv, Own, Exclusive
  <2>5. Sole(Main, c)
    BY <2>4 DEF Sole, Held
  <2>6. map[p] = c /\ Reg(c) # "none" /\ Reg(p) # "none"
    <3>1. \A t \in Procs : ~(cur[t] = c /\ pc[t] = "close")
      BY <2>4 DEF Held, Holds, Holding, Labels
    <3>2. QED
      BY <3>1, <2>2 DEF IInv, Closing
  <2>7. p \in Fds /\ Kind(c) = "client" /\ Kind(p) = "upstream" /\ map[c] = NoFd
    BY <2>2, WireFact
  <2>8. /\ Stage(c) = "client" => ~Waiting(p)
        /\ Stage(c) = "upstream" => Reg(c) \notin {"in", "out"} /\ Reg(p) # "out" /\ Reg(p) # "in"
    <3>1. \A t \in Procs : ~(cur[t] = c /\ pc[t] = "armPOut")
      BY <2>4 DEF Held, Holds, Holding, Labels
    <3>2. Reg(p) # "out" /\ (Reg(p) = "in" => ~Traffic(p)) /\ Reg(c) \notin {"in", "out"} /\ ~Waiting(p)
      BY <2>2, <2>4, WireFact DEF Armed
    <3>3. Stage(c) = "upstream" => Reg(p) # "in"
      BY <3>1, <3>2, <2>2 DEF IInv, Filled
    <3>4. QED
      BY <3>2, <3>3
  <2>9. /\ Spares(c, p) /\ map'[c] = map[c] /\ map'[p] = map[p]
        /\ Reg(c)' = Reg(c) /\ Reg(p)' = Reg(p) /\ Waiting(p)' = Waiting(p)
        /\ Side(c)' = Side(c)
    BY <1>1 DEF Spares, Kind, Traffic, Reg, Waiting, Side, Stage, Up
  <2>10. ~Armed(c)'
    BY <2>4, <1>1 DEF Armed, Reg, Waiting, Up
  <2>11. /\ ~Batched(c)' /\ batch' \subseteq batch
         /\ \A e \in batch : e \in batch' \/ e[1] = Side(c)
    <3>1. \A e, f \in batch : e[1] = f[1] => e = f
      BY DEF IInv, Own, Once
    <3>2. \A e \in batch' : e[1] # fd
      BY <3>1, <1>1
    <3>3. QED
      BY <3>2, <1>1, <2>2, <2>9 DEF Batched
  <2>12. \A i, j \in DOMAIN queue : queue[i][1] = queue[j][1] => i = j
    BY DEF IInv, Own, Once
  <2>13. \A i \in DOMAIN queue : queue[i][1] # c
    BY <2>4 DEF Queued
  <2>14. Stage(c) \in {"client", "upstream"}
    BY FieldFact
  <2>15. CASE kind = "disconnect"
    <3>1. Kind(fd) = "client"
      BY <1>1, <2>1, <2>15 DEF IInv, Staged
    <3>2. fd = c
      BY <3>1, <2>2, <2>7 DEF Side
    <3>3. /\ pc' = [pc EXCEPT ![Main] = "unregister"] /\ cur' = [cur EXCEPT ![Main] = c]
          /\ queue' = queue
      BY <3>2, <2>7, <2>15 DEF Dispatch, Goto
    <3>4. ~Queued(c)' /\ \A d \in Fds : Queued(d)' = Queued(d)
      BY <3>3, <2>4 DEF Queued
    <3>5. QED
      BY <1>1, <2>2, <2>5, <2>6, <2>8, <2>9, <2>10, <2>11, <2>12, <2>13, <2>14, <3>3, <3>4, MoveFact
  <2>16. CASE kind \in {"read", "write"}
    <3>1. PICK op \in Ops :
            /\ queue' = Append(queue, <<c, op>>)
            /\ op = IF Stage(c) = "client" THEN IF kind = "read" THEN "readC" ELSE "writeC"
                                           ELSE IF kind = "read" THEN "readP" ELSE "writeP"
      <4>1. CASE Stage(c) = "client"
        <5>1. fd = c
          BY <4>1, <2>2 DEF Side
        <5>2. queue' = Append(queue, <<c, IF kind = "read" THEN "readC" ELSE "writeC">>)
          BY <5>1, <2>7, <2>16 DEF Dispatch
        <5>3. QED
          BY <5>2, <4>1 DEF Ops
      <4>2. CASE Stage(c) = "upstream"
        <5>1. fd = p /\ map[fd] = c /\ c # NoFd
          BY <4>2, <2>2, <2>6, NumberFact DEF Side
        <5>2. queue' = Append(queue, <<c, IF kind = "read" THEN "readP" ELSE "writeP">>)
          BY <5>1, <2>1, <2>16 DEF Dispatch
        <5>3. QED
          BY <5>2, <4>2 DEF Ops
      <4>3. QED
        BY <4>1, <4>2, <2>14
    <3>2. queue \in Seq(Fds \X Ops) /\ <<c, op>> \in Fds \X Ops
      BY DEF IInv, Typed
    <3>3. /\ DOMAIN queue' = DOMAIN queue \cup {Len(queue) + 1}
          /\ \A i \in DOMAIN queue : queue'[i] = queue[i]
          /\ queue'[Len(queue) + 1] = <<c, op>>
          /\ <<c, op>>[1] = c /\ <<c, op>>[2] = op
      BY <3>1, <3>2
    <3>4. /\ Queued(c)'
          /\ \A d \in Fds : d # c => Queued(d)' = Queued(d)
      <4>1. Queued(c)'
        BY <3>3 DEF Queued
      <4>2. \A d \in Fds : d # c => Queued(d)' = Queued(d)
        BY <3>3 DEF Queued
      <4>3. QED
        BY <4>1, <4>2
    <3>5. /\ \A i \in DOMAIN queue' :
               queue'[i][1] = c \/ \E j \in DOMAIN queue : queue'[i] = queue[j]
          /\ \A i, j \in DOMAIN queue' : queue'[i][1] = queue'[j][1] => i = j
      BY <3>3, <2>12, <2>13
    <3>6. op = "writeP" => Loaded(c)
      <4>1. op = "writeP" => Stage(c) = "upstream" /\ kind = "write"
        BY <3>1, <2>14, <2>16
      <4>2. Stage(c) = "upstream" => fd = p
        BY <2>2 DEF Side
      <4>3. QED
        BY <4>1, <4>2, <1>1, <2>2 DEF IInv, Filled
    <3>7. \A i \in DOMAIN queue' : queue'[i][1] = c =>
            /\ queue'[i][2] \in {"readC", "writeC"} <=> Stage(c) = "client"
            /\ queue'[i][2] = "writeP" => Loaded(c)
      <4>1. \A i \in DOMAIN queue' : queue'[i][1] = c => queue'[i] = <<c, op>>
        BY <3>3, <2>13
      <4>2. op \in {"readC", "writeC"} <=> Stage(c) = "client"
        BY <3>1, <2>14, <2>16
      <4>3. QED
        BY <4>1, <4>2, <3>3, <3>6
    <3>8. PICK x : x = cur[Main]
      OBVIOUS
    <3>9. pc' = [pc EXCEPT ![Main] = "dispatch"] /\ cur' = [cur EXCEPT ![Main] = x]
      BY <1>1, <2>16, <3>8 DEF Dispatch, IInv, Typed
    <3>10. QED
      BY <1>1, <2>2, <2>5, <2>6, <2>8, <2>9, <2>10, <2>11, <3>4, <3>5, <3>7, <3>9, MoveFact
  <2>17. QED
    BY <1>3, <2>15, <2>16
<1>4. QED
  BY <1>2, <1>3

(* The worker's target is a socket of its user, and, in the upstream stage, *)
(* nothing is to be read there that epoll would report.                    *)
LEMMA TargetFact ==
  ASSUME IInv, NEW w \in Workers, NEW c, c = cur[w], NEW p, p = Up(c),
         pc[w] \in {"readC", "readP", "writeC", "writeP", "process"}
  PROVE  /\ w \in Procs /\ c \in Fds /\ p \in Fds /\ p # c
         /\ Kind(c) = "client" /\ Kind(p) = "upstream" /\ ~net[p].hup
         /\ Reg(p) = "in" => ~Traffic(p) /\ Stage(c) = "client"
         /\ pc[w] \in {"readC", "writeC"} => Target(w) = c /\ Stage(c) = "client"
         /\ pc[w] \in {"readP", "writeP"} => Target(w) = p /\ Stage(c) = "upstream"
         /\ pc[w] \in Ops => IsOpen(Target(w))
         /\ pc[w] = "writeP" => Loaded(c)
         /\ net[c] \in Sock /\ net[p] \in Sock /\ users[c] \in Conn
<1>1. w \in Procs /\ pc[w] \in Holding /\ pc[w] # "close" /\ pc[w] # "armPOut"
  BY NumberFact DEF Holding, Labels, Ops
<1>2. /\ c \in Fds /\ Open(c) /\ Sole(w, c)
      /\ Reg(p) = "off" \/ (Reg(p) = "in" /\ ~Traffic(p))
  BY <1>1, HandFact DEF Sole
<1>3. p \in Fds /\ p # c /\ Kind(c) = "client" /\ Kind(p) = "upstream" /\ ~net[p].hup
  BY <1>2, WireFact
<1>4. /\ net[c] \in Sock /\ net[p] \in Sock /\ users[c] \in Conn
      /\ Stage(c) \in {"client", "upstream"}
  BY <1>2, <1>3, NumberFact, FieldFact DEF IInv, Typed
<1>5. Reg(p) = "in" => ~Traffic(p) /\ Stage(c) = "client"
  <2>1. ~ \E t \in Procs : cur[t] = c /\ pc[t] = "armPOut"
    BY <1>1, <1>2 DEF Sole, Holds, Holding, Labels
  <2>2. QED
    BY <2>1, <1>2, <1>4 DEF IInv, Filled
<1>6. /\ pc[w] \in {"readC", "writeC"} => Target(w) = c /\ Stage(c) = "client"
      /\ pc[w] \in {"readP", "writeP"} => Target(w) = p /\ Stage(c) = "upstream"
      /\ pc[w] = "writeP" => Loaded(c)
  BY <1>1 DEF Target, Up, IInv, Staged, Filled
<1>7. pc[w] \in Ops => IsOpen(Target(w))
  BY <1>2, <1>3, <1>6 DEF Ops, IsOpen, Kind
<1>8. QED
  BY <1>1, <1>2, <1>3, <1>4, <1>5, <1>6, <1>7

(* A worker reads.                                                         *)
LEMMA ReadFact ==
  ASSUME IInv, NEW w \in Workers, Read(w)
  PROVE  Own' /\ Wired' /\ Closing' /\ Placed' /\ Staged' /\ Filled'
<1> PICK c : c = cur[w]
  OBVIOUS
<1> PICK p : p = Up(c)
  OBVIOUS
<1> PICK fd : fd = Target(w)
  OBVIOUS
<1>1. pc[w] \in {"readC", "readP"} /\ UNCHANGED <<map, batch, queue, cur>>
  BY DEF Read
<1>2. /\ w \in Procs /\ c \in Fds /\ p \in Fds /\ p # c
      /\ Reg(p) = "in" => ~Traffic(p) /\ Stage(c) = "client"
      /\ pc[w] = "readC" => fd = c
      /\ fd \in {c, p} /\ IsOpen(fd)
      /\ Stage(c) = "client" => fd = c
  BY <1>1, TargetFact DEF Ops
<1>3. /\ users' = [users EXCEPT ![c].readBuff = @ \o net[fd].inbox]
      /\ net' = [net EXCEPT ![fd].inbox = <<>>]
      /\ \E l \in {"process", "unregister"} : pc' = [pc EXCEPT ![w] = l]
  BY <1>2 DEF Read, Goto
<1>4. PICK l \in {"process", "unregister"} : pc' = [pc EXCEPT ![w] = l]
  BY <1>3
<1>5. net \in [Fds -> Sock] /\ users \in [0 .. MaxFd -> Conn] /\ Fds \subseteq 0 .. MaxFd
  BY NumberFact DEF IInv, Typed
<1>6. /\ \A f \in Fds : /\ Kind(f)' = Kind(f) /\ Reg(f)' = Reg(f) /\ net'[f].hup = net[f].hup
                        /\ f # fd => Traffic(f)' = Traffic(f)
  <2>1. \A f \in Fds : f # fd => net'[f] = net[f]
    BY <1>2, <1>3, <1>5
  <2>2. net[fd] \in Sock /\ net'[fd] = [net[fd] EXCEPT !.inbox = <<>>]
    BY <1>2, <1>3, <1>5
  <2>3. /\ net'[fd].kind = net[fd].kind /\ net'[fd].interest = net[fd].interest
        /\ net'[fd].hup = net[fd].hup
    BY <2>2 DEF Sock
  <2>4. QED
    BY <2>1, <2>3 DEF Kind, Reg, Traffic
<1>7. \A d \in Fds : /\ users'[d].closed = users[d].closed /\ users'[d].proxy = users[d].proxy
                     /\ users'[d].stage = users[d].stage
                     /\ d # c => users'[d] = users[d]
  <2>1. \A d \in Fds : d # c => users'[d] = users[d]
    BY <1>3, <1>5
  <2>2. users[c] \in Conn /\ users'[c] = [users[c] EXCEPT !.readBuff = @ \o net[fd].inbox]
    BY <1>2, <1>3, <1>5
  <2>3. /\ users'[c].closed = users[c].closed /\ users'[c].proxy = users[c].proxy
        /\ users'[c].stage = users[c].stage
    BY <2>2 DEF Conn
  <2>4. QED
    BY <2>1, <2>3
<1>8. Reg(p) = "in" => ~Traffic(p)' /\ users'[c].stage = "client"
  BY <1>2, <1>6, <1>7 DEF Stage
<1>9. Minds(c, p)
  BY <1>2, <1>6, <1>7 DEF Minds
<1>10. QED
  BY <1>1, <1>4, <1>8, <1>9, WorkFact

(* A worker deals with a request.                                          *)
LEMMA RequestFact ==
  ASSUME IInv, NEW w \in Workers, ProcessRequest(w)
  PROVE  Own' /\ Wired' /\ Closing' /\ Placed' /\ Staged' /\ Filled'
<1> PICK c : c = cur[w]
  OBVIOUS
<1> PICK p : p = Up(c)
  OBVIOUS
<1> PICK u : u = users[c]
  OBVIOUS
<1>1. /\ pc[w] = "process" /\ u.stage = "client"
      /\ UNCHANGED <<net, map, batch, queue, cur>>
  BY DEF ProcessRequest, listener, outside
<1>2. /\ w \in Procs /\ c \in Fds /\ u \in Conn
      /\ Reg(p) = "in" => ~Traffic(p)
  BY <1>1, TargetFact
<1>3. users \in [0 .. MaxFd -> Conn] /\ Fds \subseteq 0 .. MaxFd
  BY NumberFact DEF IInv, Typed
<1>4. /\ \A f \in Fds : /\ Kind(f)' = Kind(f) /\ Reg(f)' = Reg(f) /\ net'[f].hup = net[f].hup
                        /\ Traffic(f)' = Traffic(f)
      /\ Traffic(p)' = Traffic(p)
  BY <1>1 DEF Kind, Reg, Traffic
<1>5. PICK n : \/ /\ users' = [users EXCEPT ![c] =
                        [u EXCEPT !.parsed = n, !.readBuff = <<>>,
                                  !.writeBuff = MakeProxyRequests(u),
                                  !.iov = MakeProxyRequests(u), !.stage = "upstream"]]
                  /\ pc' = [pc EXCEPT ![w] = "armPOut"]
               \/ /\ users' = [users EXCEPT ![c] = [u EXCEPT !.parsed = n, !.readBuff = <<>>]]
                  /\ pc' = [pc EXCEPT ![w] = "armCOut"]
  BY DEF ProcessRequest, Goto
<1>6. CASE /\ users' = [users EXCEPT ![c] =
                 [u EXCEPT !.parsed = n, !.readBuff = <<>>, !.writeBuff = MakeProxyRequests(u),
                           !.iov = MakeProxyRequests(u), !.stage = "upstream"]]
           /\ pc' = [pc EXCEPT ![w] = "armPOut"]
  <2>1. \A d \in Fds : d # c => users'[d] = users[d]
    BY <1>3, <1>6
  <2>2. /\ users'[c].closed = u.closed /\ users'[c].proxy = u.proxy
        /\ users'[c].stage = "upstream" /\ users'[c].iov = MakeProxyRequests(u)
    BY <1>2, <1>3, <1>6 DEF Conn
  <2>3. users'[c].iov # <<>>
    <3>1. u.writeBuff \in Seq(Msg)
      BY <1>2 DEF Conn
    <3>2. ASSUME NEW m PROVE Append(u.writeBuff, m) # <<>>
      <4>1. Len(u.writeBuff) \in Nat /\ Len(u.writeBuff) + 1 \in DOMAIN Append(u.writeBuff, m)
        BY <3>1
      <4>2. QED
        BY <4>1
    <3>3. QED
      BY <2>2, <3>2 DEF MakeProxyRequests
  <2>4. \A d \in Fds : users'[d].closed = users[d].closed /\ users'[d].proxy = users[d].proxy
    BY <2>1, <2>2
  <2>5. Minds(c, p)
    BY <1>4, <2>1, <2>4 DEF Minds
  <2>6. QED
    BY <1>1, <1>2, <1>4, <1>6, <2>2, <2>3, <2>5, WorkFact
<1>7. CASE /\ users' = [users EXCEPT ![c] = [u EXCEPT !.parsed = n, !.readBuff = <<>>]]
           /\ pc' = [pc EXCEPT ![w] = "armCOut"]
  <2>1. \A d \in Fds : d # c => users'[d] = users[d]
    BY <1>3, <1>7
  <2>2. /\ users'[c].closed = u.closed /\ users'[c].proxy = u.proxy
        /\ users'[c].stage = "client"
    BY <1>1, <1>2, <1>3, <1>7 DEF Conn
  <2>3. \A d \in Fds : users'[d].closed = users[d].closed /\ users'[d].proxy = users[d].proxy
    BY <2>1, <2>2
  <2>4. Minds(c, p)
    BY <1>4, <2>1, <2>3 DEF Minds
  <2>5. QED
    BY <1>1, <1>2, <1>4, <1>7, <2>2, <2>4, WorkFact
<1>8. QED
  BY <1>5, <1>6, <1>7

(* A worker deals with an answer.                                          *)
LEMMA AnswerFact ==
  ASSUME IInv, NEW w \in Workers, ProcessAnswer(w)
  PROVE  Own' /\ Wired' /\ Closing' /\ Placed' /\ Staged' /\ Filled'
<1> PICK c : c = cur[w]
  OBVIOUS
<1> PICK p : p = Up(c)
  OBVIOUS
<1> PICK u : u = users[c]
  OBVIOUS
<1>1. /\ pc[w] = "process" /\ UNCHANGED <<net, map, batch, queue, cur>>
      /\ users' = [users EXCEPT ![c] = Swapped(u)]
      /\ pc' = [pc EXCEPT ![w] = "armCOut"]
  BY DEF ProcessAnswer, listener, outside, Goto
<1>2. /\ w \in Procs /\ c \in Fds /\ u \in Conn
      /\ Reg(p) = "in" => ~Traffic(p)
  BY <1>1, TargetFact
<1>3. users \in [0 .. MaxFd -> Conn] /\ Fds \subseteq 0 .. MaxFd
  BY NumberFact DEF IInv, Typed
<1>4. /\ \A f \in Fds : /\ Kind(f)' = Kind(f) /\ Reg(f)' = Reg(f) /\ net'[f].hup = net[f].hup
                        /\ Traffic(f)' = Traffic(f)
      /\ Traffic(p)' = Traffic(p)
  BY <1>1 DEF Kind, Reg, Traffic
<1>5. \A d \in Fds : d # c => users'[d] = users[d]
  BY <1>1, <1>3
<1>6. users'[c].closed = u.closed /\ users'[c].proxy = u.proxy /\ users'[c].stage = "client"
  BY <1>1, <1>2, <1>3 DEF Conn, Swapped
<1>7. \A d \in Fds : users'[d].closed = users[d].closed /\ users'[d].proxy = users[d].proxy
  BY <1>5, <1>6
<1>8. Minds(c, p)
  BY <1>4, <1>5, <1>7 DEF Minds
<1>9. QED
  BY <1>1, <1>2, <1>4, <1>6, <1>8, WorkFact

(* A worker writes everything: the request is on its way to the upstream   *)
(* server, or the answer to the client.                                    *)
LEMMA WriteAllFact ==
  ASSUME IInv, NEW w \in Workers, WriteAll(w)
  PROVE  Own' /\ Wired' /\ Closing' /\ Placed' /\ Staged' /\ Filled'
<1> PICK c : c = cur[w]
  OBVIOUS
<1> PICK p : p = Up(c)
  OBVIOUS
<1> PICK u : u = users[c]
  OBVIOUS
<1>1. /\ pc[w] \in {"writeC", "writeP"} /\ UNCHANGED <<map, batch, queue, cur>>
      /\ users' = [users EXCEPT ![c] = [u EXCEPT !.iov = <<>>, !.writeBuff = <<>>]]
      /\ \E l \in IF InProxy(w) THEN {"armPIn"} ELSE {"armCIn", "unregister"} :
           pc' = [pc EXCEPT ![w] = l]
  BY DEF WriteAll, listener, outside, Goto
<1>2. PICK l : /\ pc' = [pc EXCEPT ![w] = l]
               /\ pc[w] = "writeP" => l = "armPIn"
               /\ pc[w] = "writeC" => l \in {"armCIn", "unregister"}
  BY <1>1 DEF InProxy
<1>3. /\ w \in Procs /\ c \in Fds /\ p \in Fds /\ p # c /\ u \in Conn
      /\ ~net[p].hup
      /\ Reg(p) = "in" => ~Traffic(p) /\ u.stage = "client"
      /\ pc[w] = "writeC" => Target(w) = c /\ u.stage = "client"
      /\ pc[w] = "writeP" => Target(w) = p /\ u.stage = "upstream" /\ u.iov # <<>>
      /\ net[c] \in Sock /\ net[p] \in Sock
  BY <1>1, TargetFact DEF Stage, Loaded
<1>4. /\ users \in [0 .. MaxFd -> Conn] /\ net \in [Fds -> Sock]
      /\ Fds \subseteq 0 .. MaxFd
  BY NumberFact DEF IInv, Typed
<1>5. /\ \A d \in Fds : d # c => users'[d] = users[d]
      /\ \A d \in Fds : users'[d].closed = users[d].closed /\ users'[d].proxy = users[d].proxy
      /\ users'[c].stage = u.stage
  <2>1. \A d \in Fds : d # c => users'[d] = users[d]
    BY <1>1, <1>4
  <2>2. /\ users'[c].closed = u.closed /\ users'[c].proxy = u.proxy
        /\ users'[c].stage = u.stage
    BY <1>1, <1>3, <1>4 DEF Conn
  <2>3. QED
    BY <2>1, <2>2
<1>6. CASE pc[w] = "writeC"
  <2>1. \A fd \in Fds : net'[fd] = net[fd] \/ fd = c
    BY <1>3, <1>4, <1>6 DEF WriteAll
  <2>2. /\ net'[c].kind = net[c].kind /\ net'[c].interest = net[c].interest
        /\ net'[c].hup = net[c].hup
    <3>1. \/ net' = net
          \/ net' = [net EXCEPT ![c] = net[c]]
          \/ net' = [net EXCEPT ![c] =
               [net[c] EXCEPT !.sent = 0, !.ask = <<net[c].ask[1], net[c].ask[2] + 1>>]]
      <4>1. CASE u.iov = <<>>
        BY <4>1 DEF WriteAll
      <4>2. CASE u.iov # <<>>
        <5>1. ~InProxy(w) /\ Target(w) = c
          BY <1>3, <1>6 DEF InProxy
        <5>2. \/ net' = [net EXCEPT ![Target(w)] = net[Target(w)]]
              \/ net' = [net EXCEPT ![Target(w)] =
                   [net[Target(w)] EXCEPT
                     !.sent = 0, !.ask = <<net[Target(w)].ask[1], net[Target(w)].ask[2] + 1>>]]
          BY <4>2, <5>1 DEF WriteAll
        <5>3. QED
          BY <5>1, <5>2
      <4>3. QED
        BY <4>1, <4>2
    <3>2. CASE \E a : net' = [net EXCEPT ![c] = [net[c] EXCEPT !.sent = 0, !.ask = a]]
      <4>1. PICK a : net' = [net EXCEPT ![c] = [net[c] EXCEPT !.sent = 0, !.ask = a]]
        BY <3>2
      <4>2. net'[c] = [net[c] EXCEPT !.sent = 0, !.ask = a]
        BY <4>1, <1>3, <1>4
      <4>3. QED
        BY <4>2, <1>3 DEF Sock
    <3>3. QED
      BY <3>1, <3>2, <1>3, <1>4
  <2>3. Minds(c, p) /\ Traffic(p)' = Traffic(p)
    BY <1>3, <1>5, <2>1, <2>2 DEF Minds, Kind, Reg, Traffic
  <2>4. QED
    BY <1>1, <1>2, <1>3, <1>5, <1>6, <2>3, WorkFact
<1>7. CASE pc[w] = "writeP"
  <2>1. net' = [net EXCEPT ![p] = [net[p] EXCEPT !.pending = @ \o u.iov]]
    BY <1>3, <1>7 DEF WriteAll, InProxy
  <2>2. \A fd \in Fds : fd # p => net'[fd] = net[fd]
    BY <1>4, <2>1
  <2>3. /\ net'[p].kind = net[p].kind /\ net'[p].interest = net[p].interest
        /\ net'[p].hup = net[p].hup
        /\ net'[p].pending = net[p].pending \o u.iov
    BY <1>3, <1>4, <2>1 DEF Sock
  <2>4. net'[p].pending # <<>>
    <3>1. net[p].pending \in Seq(Msg) /\ u.iov \in Seq(Msg)
      BY <1>3 DEF Sock, Conn
    <3>2. ASSUME NEW s \in Seq(Msg), NEW t \in Seq(Msg), t # <<>> PROVE s \o t # <<>>
      <4>1. Len(s \o t) = Len(s) + Len(t) /\ Len(s) \in Nat /\ Len(t) \in Nat \ {0}
        BY <3>2
      <4>2. Len(s \o t) # 0
        BY <4>1
      <4>3. Len(<<>>) = 0
        OBVIOUS
      <4>4. QED
        BY <4>2, <4>3
    <3>3. QED
      BY <3>1, <3>2, <2>3, <1>3, <1>7
  <2>5. Minds(c, p)
    BY <1>5, <2>2, <2>3 DEF Minds, Kind, Reg, Traffic
  <2>6. Traffic(p)'
    BY <2>4 DEF Traffic
  <2>7. Reg(p) # "in"
    BY <1>3, <1>7
  <2>8. QED
    BY <1>1, <1>2, <1>3, <1>5, <1>7, <2>5, <2>6, <2>7, WorkFact
<1>8. QED
  BY <1>1, <1>6, <1>7

(* A worker has to wait for room, and keeps what it writes.                *)
LEMMA BlocksFact ==
  ASSUME IInv, NEW w \in Workers, WriteBlocks(w)
  PROVE  Own' /\ Wired' /\ Closing' /\ Placed' /\ Staged' /\ Filled'
<1> PICK c : c = cur[w]
  OBVIOUS
<1> PICK p : p = Up(c)
  OBVIOUS
<1> PICK fd : fd = Target(w)
  OBVIOUS
<1>1. /\ pc[w] \in {"writeC", "writeP"} /\ UNCHANGED <<users, map, batch, queue, cur>>
      /\ Loaded(c)
      /\ net' = [net EXCEPT ![fd].full = TRUE]
  BY DEF WriteBlocks, listener, outside, Loaded
<1>2. PICK l : /\ pc' = [pc EXCEPT ![w] = l]
               /\ l = IF pc[w] = "writeP" THEN "armPOut" ELSE "armCOut"
  BY <1>1 DEF WriteBlocks, Goto, Again, InProxy
<1>3. /\ w \in Procs /\ c \in Fds /\ p \in Fds /\ p # c /\ fd \in {c, p}
      /\ Reg(p) = "in" => ~Traffic(p) /\ Stage(c) = "client"
      /\ pc[w] = "writeC" => Stage(c) = "client"
      /\ pc[w] = "writeP" => Stage(c) = "upstream"
      /\ net[c] \in Sock /\ net[p] \in Sock
  BY <1>1, TargetFact
<1>4. net \in [Fds -> Sock]
  BY DEF IInv, Typed
<1>5. \A f \in Fds : /\ Kind(f)' = Kind(f) /\ Reg(f)' = Reg(f) /\ net'[f].hup = net[f].hup
                     /\ Traffic(f)' = Traffic(f)
  <2>1. \A f \in Fds : f # fd => net'[f] = net[f]
    BY <1>1, <1>4
  <2>2. net[fd] \in Sock /\ net'[fd] = [net[fd] EXCEPT !.full = TRUE]
    BY <1>1, <1>3, <1>4
  <2>3. /\ net'[fd].kind = net[fd].kind /\ net'[fd].interest = net[fd].interest
        /\ net'[fd].hup = net[fd].hup
        /\ net'[fd].pending = net[fd].pending /\ net'[fd].inbox = net[fd].inbox
    BY <2>2 DEF Sock
  <2>4. QED
    BY <2>1, <2>3 DEF Kind, Reg, Traffic
<1>6. Minds(c, p)
  BY <1>1, <1>5 DEF Minds
<1>7. users'[c].stage = Stage(c) /\ users'[c].iov # <<>>
  BY <1>1 DEF Stage, Loaded
<1>8. Reg(p) = "in" => ~Traffic(p)'
  BY <1>3, <1>5
<1>9. QED
  BY <1>1, <1>2, <1>3, <1>6, <1>7, <1>8, WorkFact

(* A write fails on the client's side only.                                *)
LEMMA FailsFact ==
  ASSUME IInv, NEW w \in Workers, WriteFails(w)
  PROVE  Own' /\ Wired' /\ Closing' /\ Placed' /\ Staged' /\ Filled'
<1> PICK c : c = cur[w]
  OBVIOUS
<1> PICK p : p = Up(c)
  OBVIOUS
<1>1. /\ pc[w] \in {"writeC", "writeP"} /\ UNCHANGED <<net, users, map, batch, queue>>
  BY DEF WriteFails, listener, outside
<1>2. /\ w \in Procs /\ c \in Fds /\ p \in Fds
      /\ Reg(p) = "in" => ~Traffic(p) /\ Stage(c) = "client"
      /\ pc[w] = "writeC" => Stage(c) = "client"
      /\ pc[w] = "writeP" => Target(w) = p /\ ~net[p].hup
      /\ IsOpen(Target(w))
  BY <1>1, TargetFact DEF Ops
<1>3. pc[w] = "writeC"
  BY <1>1, <1>2 DEF WriteFails
<1>4. pc' = [pc EXCEPT ![w] = "unregister"] /\ cur' = cur
  BY <1>3 DEF WriteFails, InProxy, Goto
<1>5. Minds(c, p) /\ Traffic(p)' = Traffic(p) /\ users'[c].stage = Stage(c)
  BY <1>1 DEF Minds, Kind, Reg, Traffic, Stage
<1>6. QED
  BY <1>1, <1>2, <1>3, <1>4, <1>5, WorkFact

(* What epoll reports is the descriptor where a user in the kernel's hands *)
(* waits.                                                                  *)
LEMMA ReadyFact ==
  ASSUME IInv
  PROVE  /\ \A fd \in ReadyFds : /\ fd \in Fds /\ Event(fd) \in Kinds /\ Reg(fd) \in {"in", "out"}
                                 /\ \E c \in Fds : Open(c) /\ fd = Side(c) /\ Armed(c)
         /\ \A c \in Fds : Open(c) /\ Side(c) \notin ReadyFds =>
              c \notin ReadyFds /\ Up(c) \notin ReadyFds
         /\ \A c \in Fds : Open(c) /\ Stage(c) = "client" => Up(c) \notin ReadyFds
         /\ \A c \in Fds : Open(c) /\ Stage(c) = "upstream" => c \notin ReadyFds
<1>1. \A fd \in ReadyFds : /\ fd \in Fds /\ Event(fd) # "quiet" /\ Event(fd) \in Kinds
                           /\ Reg(fd) \in {"in", "out"}
                           /\ Event(fd) = "disconnect" => net[fd].hup
                           /\ Event(fd) = "read" => Reg(fd) = "in" /\ net[fd].inbox # <<>>
                           /\ Event(fd) = "write" => Reg(fd) = "out"
  BY EventFact DEF ReadyFds, IInv
<1>2. ASSUME NEW fd \in ReadyFds PROVE \E c \in Fds : Open(c) /\ fd = Side(c) /\ Armed(c)
  <2>1. fd \in Fds /\ Reg(fd) \in {"in", "out"} /\ Kind(fd) \in {"client", "upstream"}
    BY <1>1, FieldFact DEF IInv, Wired
  <2>2. CASE Kind(fd) = "client"
    <3>1. Open(fd) /\ Armed(fd)
      BY <2>1, <2>2 DEF IInv, Wired, Armed
    <3>2. Stage(fd) = "client"
      BY <2>1, <3>1, FieldFact DEF IInv, Staged
    <3>3. QED
      BY <2>1, <3>1, <3>2 DEF Side
  <2>3. CASE Kind(fd) = "upstream"
    <3>1. PICK c \in Fds : Open(c) /\ Up(c) = fd
      <4>1. ~ \E t \in Procs : pc[t] = "closeProxy" /\ Up(cur[t]) = fd
        BY <2>1 DEF IInv, Closing
      <4>2. QED
        BY <4>1, <2>1, <2>3 DEF IInv, Wired
    <3>2. Waiting(fd)
      <4>1. ~net[fd].hup
        BY <2>1, <2>3 DEF IInv, Wired
      <4>2. Event(fd) = "write" \/ Event(fd) = "read"
        BY <4>1, <1>1 DEF Kinds
      <4>3. QED
        BY <4>2, <1>1 DEF Waiting, Reg
    <3>3. Armed(c) /\ Stage(c) = "upstream"
      BY <3>1, <3>2, FieldFact DEF Armed, IInv, Staged
    <3>4. QED
      BY <3>1, <3>3 DEF Side
  <2>4. QED
    BY <2>1, <2>2, <2>3
<1>3. \A c \in Fds : Open(c) =>
        /\ c \in ReadyFds => Side(c) = c
        /\ Up(c) \in ReadyFds => Side(c) = Up(c)
  <2> SUFFICES ASSUME NEW c \in Fds, Open(c)
               PROVE  /\ c \in ReadyFds => Side(c) = c
                      /\ Up(c) \in ReadyFds => Side(c) = Up(c)
    OBVIOUS
  <2>1. \A d \in Fds : Open(d) => Side(d) \in {d, Up(d)}
    BY DEF Side
  <2>2. \A d \in Fds : Open(d) => Up(d) # c /\ Up(c) # d /\ (Up(c) = Up(d) => c = d)
    BY WireFact
  <2>3. QED
    BY <1>2, <2>1, <2>2
<1>4. \A c \in Fds : Open(c) => Up(c) # c
  BY WireFact
<1>5. QED
  BY <1>1, <1>2, <1>3, <1>4 DEF Side

(* epoll_wait moves users from the kernel's hands to the batch.            *)
LEMMA WaitFact ==
  ASSUME IInv, Wait
  PROVE  Own' /\ Wired' /\ Closing' /\ Placed' /\ Staged' /\ Filled'
<1> USE DEF listener, outside
<1>1. /\ Main \in Procs /\ pc[Main] = "top" /\ batch = {}
      /\ pc' = [pc EXCEPT ![Main] = "dispatch"]
      /\ batch' = {<<fd, Event(fd)>> : fd \in ReadyFds}
                    \cup (IF ListenReady THEN {<<NoFd, "listen">>} ELSE {})
      /\ net' = [fd \in Fds |-> IF fd \in ReadyFds THEN Disarmed(net[fd]) ELSE net[fd]]
      /\ UNCHANGED <<users, map, queue, cur>>
  BY NumberFact DEF Wait, Goto, IInv, Placed
<1>2. /\ \A t \in Procs : \A l \in Holding \cup {"closeProxy"} : pc[t] = l <=> pc'[t] = l
      /\ \A t \in Procs : pc[t] \in Holding <=> pc'[t] \in Holding
      /\ pc'[Main] = "dispatch"
  BY <1>1 DEF Holding, IInv, Typed
<1>3. /\ \A fd \in Fds : /\ Kind(fd)' = Kind(fd) /\ net'[fd].hup = net[fd].hup
                         /\ Traffic(fd)' = Traffic(fd)
                         /\ fd \notin ReadyFds => Reg(fd)' = Reg(fd)
                         /\ fd \in ReadyFds => Reg(fd)' = "off" /\ Reg(fd) \in {"in", "out"}
  <2> SUFFICES ASSUME NEW fd \in Fds
               PROVE  /\ Kind(fd)' = Kind(fd) /\ net'[fd].hup = net[fd].hup
                      /\ Traffic(fd)' = Traffic(fd)
                      /\ fd \notin ReadyFds => Reg(fd)' = Reg(fd)
                      /\ fd \in ReadyFds => Reg(fd)' = "off" /\ Reg(fd) \in {"in", "out"}
    OBVIOUS
  <2>1. CASE fd \notin ReadyFds
    <3>1. net'[fd] = net[fd]
      BY <1>1, <2>1
    <3>2. QED
      BY <2>1, <3>1 DEF Kind, Reg, Traffic
  <2>2. CASE fd \in ReadyFds
    <3>1. Reg(fd) \in {"in", "out"} /\ net[fd] \in Sock
      BY <2>2, ReadyFact DEF IInv, Typed
    <3>2. net'[fd] = [net[fd] EXCEPT !.interest = "off"]
      BY <1>1, <2>2, <3>1 DEF Disarmed, Reg
    <3>3. /\ net'[fd].kind = net[fd].kind /\ net'[fd].hup = net[fd].hup
          /\ net'[fd].pending = net[fd].pending /\ net'[fd].inbox = net[fd].inbox
          /\ net'[fd].interest = "off"
      BY <3>1, <3>2 DEF Sock
    <3>4. QED
      BY <2>2, <3>1, <3>3 DEF Kind, Reg, Traffic
  <2>3. QED
    BY <2>1, <2>2
<1>4. \A c : /\ Open(c)' = Open(c) /\ Up(c)' = Up(c) /\ Stage(c)' = Stage(c)
             /\ Side(c)' = Side(c) /\ Loaded(c)' = Loaded(c)
             /\ Queued(c)' = Queued(c)
  BY <1>1 DEF Open, Up, Stage, Side, Loaded, Queued
<1>5. \A c \in Fds : (\A t \in Procs : Holds(t, c)' = Holds(t, c)) /\ Held(c)' = Held(c)
  BY <1>1, <1>2 DEF Holds, Held
<1>6. \A e \in batch' : e = <<NoFd, "listen">> \/ \E fd \in ReadyFds : e = <<fd, Event(fd)>>
  BY <1>1
<1>7. \A fd \in ReadyFds : <<fd, Event(fd)>> \in batch'
  BY <1>1
<1>8. ASSUME NEW c \in Fds, Open(c)
      PROVE  /\ Batched(c)' <=> Side(c) \in ReadyFds
             /\ Side(c) \in ReadyFds => Armed(c) /\ ~Armed(c)'
             /\ Side(c) \notin ReadyFds => Armed(c)' = Armed(c)
             /\ Stage(c) = "client" => ~Waiting(Up(c))'
             /\ Stage(c) = "upstream" => Reg(c)' \notin {"in", "out"}
  <2>1. /\ Up(c) \in Fds /\ Up(c) # c /\ Side(c) \in Fds /\ Side(c) # NoFd
        /\ Up(c)' = Up(c) /\ Side(c)' = Side(c)
        /\ Stage(c) \in {"client", "upstream"}
    BY <1>4, <1>8, WireFact, NumberFact, FieldFact
  <2>2. Batched(c)' <=> Side(c) \in ReadyFds
    <3>1. \A fd : <<fd, Event(fd)>>[1] = fd
      OBVIOUS
    <3>2. <<NoFd, "listen">>[1] = NoFd
      OBVIOUS
    <3>3. ASSUME Side(c) \in ReadyFds PROVE Batched(c)'
      <4>1. <<Side(c), Event(Side(c))>> \in batch'
        BY <3>3, <1>7
      <4>2. \E e \in batch' : e[1] = Side(c)
        BY <4>1, <3>1
      <4>3. QED
        BY <4>2, <2>1 DEF Batched
    <3>4. ASSUME Batched(c)' PROVE Side(c) \in ReadyFds
      <4>1. PICK e \in batch' : e[1] = Side(c)
        BY <3>4, <2>1 DEF Batched
      <4>2. e # <<NoFd, "listen">>
        BY <4>1, <3>2, <2>1
      <4>3. PICK fd \in ReadyFds : e = <<fd, Event(fd)>>
        BY <4>2, <1>6
      <4>4. QED
        BY <4>1, <4>3, <3>1
    <3>5. QED
      BY <3>3, <3>4
  <2>3. Side(c) \in ReadyFds => Armed(c)
    <3>1. Side(c) \in ReadyFds => \E d \in Fds : Open(d) /\ Side(c) = Side(d) /\ Armed(d)
      BY ReadyFact
    <3>2. QED
      BY <3>1, <1>8, WireFact
  <2>4. Up(c) \notin ReadyFds => Waiting(Up(c))' = Waiting(Up(c))
    <3>1. Up(c) \notin ReadyFds => /\ Reg(Up(c))' = Reg(Up(c))
                                   /\ Traffic(Up(c))' = Traffic(Up(c))
      BY <1>3, <2>1 DEF Reg, Traffic, Up
    <3>2. QED
      BY <3>1, <2>1 DEF Waiting, Reg, Traffic
  <2>5. Up(c) \in ReadyFds => ~Waiting(Up(c))'
    BY <1>3, <2>1 DEF Waiting, Reg, Up
  <2>6. /\ Stage(c) = "client" => Up(c) \notin ReadyFds /\ Side(c) = c /\ ~Waiting(Up(c))
        /\ Stage(c) = "upstream" => /\ c \notin ReadyFds /\ Side(c) = Up(c)
                                    /\ Reg(c) \notin {"in", "out"}
    BY <1>8, ReadyFact DEF Side, IInv, Staged
  <2>7. Side(c) \notin ReadyFds => c \notin ReadyFds /\ Up(c) \notin ReadyFds
    BY <1>8, ReadyFact
  <2>8. /\ c \in ReadyFds => Reg(c)' \notin {"in", "out"}
        /\ c \notin ReadyFds => Reg(c)' = Reg(c)
    BY <1>3
  <2>9. Side(c) \in ReadyFds => ~Armed(c)'
    BY <2>1, <2>4, <2>5, <2>6, <2>8 DEF Armed
  <2>10. Side(c) \notin ReadyFds => Armed(c)' = Armed(c)
    BY <2>4, <2>7, <2>8 DEF Armed
  <2>11. QED
    BY <2>2, <2>3, <2>4, <2>6, <2>8, <2>9, <2>10
<1>9. Own'
  <2>1. Owned'
    <3>1. ASSUME NEW c \in Fds, Open(c) PROVE Armed(c)' \/ Batched(c)' \/ Queued(c)' \/ Held(c)'
      <4>1. Armed(c) \/ Batched(c) \/ Queued(c) \/ Held(c)
        BY <3>1 DEF IInv, Own, Owned
      <4>2. ~Batched(c)
        BY <1>1 DEF Batched
      <4>3. Armed(c) => Armed(c)' \/ Batched(c)'
        BY <3>1, <1>8
      <4>4. Queued(c)' = Queued(c) /\ Held(c)' = Held(c)
        BY <1>4, <1>5
      <4>5. QED
        BY <4>1, <4>2, <4>3, <4>4
    <3>2. \A c \in Fds : ~Open(c) => ~Queued(c)' /\ ~Held(c)'
      BY <1>4, <1>5 DEF IInv, Own, Owned
    <3>3. QED
      BY <3>1, <3>2, <1>4 DEF Owned
  <2>2. Exclusive'
    BY <1>4, <1>5, <1>8 DEF IInv, Own, Exclusive
  <2>3. \A e, f \in batch' : e[1] = f[1] => e = f
    <3>1. NoFd \notin ReadyFds
      BY NumberFact, ReadyFact
    <3>2. \A fd : <<fd, Event(fd)>>[1] = fd
      OBVIOUS
    <3>3. <<NoFd, "listen">>[1] = NoFd
      OBVIOUS
    <3>4. QED
      BY <3>1, <3>2, <3>3, <1>6
  <2>4. Once'
    BY <2>3, <1>1, <1>5 DEF IInv, Own, Once
  <2>5. QED
    BY <2>1, <2>2, <2>4 DEF Own
<1>10. \A t \in Procs : /\ pc'[t] = "closeProxy" <=> pc[t] = "closeProxy"
                        /\ pc'[t] = "close" <=> pc[t] = "close"
  BY <1>2 DEF Holding, Labels
<1>11. Wired'
  <2>1. \A fd \in Fds : Kind(fd)' \in {"free", "lost"} => Reg(fd)' = "none"
    BY <1>3 DEF IInv, Wired
  <2>2. /\ \A d \in Fds : Open(d)' => Up(d)' \in Fds /\ Kind(d)' = "client"
        /\ \A d \in Fds : Open(d)' => net'[Up(d)'].kind = "upstream"
        /\ \A fd \in Fds : Kind(fd)' = "client" => Open(fd)'
    BY <1>3, <1>4 DEF IInv, Wired, Kind
  <2>3. \A fd \in Fds : Kind(fd)' = "upstream" =>
          /\ ~net'[fd].hup
          /\ \/ \E d \in Fds : Open(d)' /\ Up(d)' = fd
             \/ \E t \in Procs : pc'[t] = "closeProxy" /\ Up(cur[t])' = fd
    BY <1>1, <1>3, <1>4, <1>10 DEF IInv, Wired, Up
  <2>4. \A fd \in Fds : map'[fd] = map[fd]
    BY <1>1
  <2>5. \A fd \in Fds : map[fd] # NoFd => Open(map[fd]) /\ Up(map[fd]) = fd
    BY DEF IInv, Wired
  <2>6. \A c, d \in Fds : Open(c)' /\ Open(d)' /\ Up(c)' = Up(d)' => c = d
    BY <1>4 DEF IInv, Wired
  <2>7. \A fd \in Fds : map'[fd] # NoFd => Open(map[fd])' /\ Up(map[fd])' = fd
    BY <2>4, <2>5, <1>1 DEF Open, Up
  <2>8. QED
    BY <2>1, <2>2, <2>3, <2>6, <2>7 DEF Wired, Kind, Up
<1>12. Closing'
  <2>1. \A d \in Fds : Open(d)' =>
          \/ map'[Up(d)] = d /\ Reg(d)' # "none" /\ net'[Up(d)].interest # "none"
          \/ \E t \in Procs : cur'[t] = d /\ pc'[t] = "close"
    <3>1. \A d \in Fds : Open(d) => Up(d) \in Fds
      BY WireFact
    <3>2. \A fd \in Fds : Reg(fd) # "none" => Reg(fd)' # "none"
      BY <1>3
    <3>3. QED
      BY <3>1, <3>2, <1>1, <1>4, <1>10 DEF IInv, Closing, Reg
  <2>2. ASSUME NEW t \in Procs, pc'[t] = "close"
        PROVE  Reg(cur[t])' = "none" /\ Reg(Up(cur[t]))' = "none" /\ map'[Up(cur[t])'] = NoFd
    <3>1. pc[t] = "close" /\ cur'[t] = cur[t] /\ Up(cur[t])' = Up(cur[t])
      BY <2>2, <1>1, <1>10 DEF Up
    <3>2. cur[t] \in Fds /\ Up(cur[t]) \in Fds
      BY <3>1, HandFact, WireFact DEF Holding, Labels
    <3>3. Reg(cur[t]) = "none" /\ Reg(Up(cur[t])) = "none" /\ map[Up(cur[t])] = NoFd
      BY <3>1 DEF IInv, Closing
    <3>4. cur[t] \notin ReadyFds /\ Up(cur[t]) \notin ReadyFds
      BY <3>3, ReadyFact
    <3>5. QED
      BY <3>1, <3>2, <3>3, <3>4, <1>1, <1>3 DEF Reg, Up
  <2>3. ASSUME NEW t \in Procs, pc'[t] = "closeProxy"
        PROVE  /\ ~Open(cur[t])'
               /\ Up(cur[t])' \in Fds /\ Kind(Up(cur[t]))' = "upstream" /\ Reg(Up(cur[t]))' = "none"
               /\ \A d \in Fds : Open(d)' => Up(d)' # Up(cur[t])'
               /\ \A r \in Procs : pc'[r] = "closeProxy" /\ Up(cur[r])' = Up(cur[t])' => r = t
    <3>1. pc[t] = "closeProxy" /\ cur'[t] = cur[t]
      BY <2>3, <1>1, <1>10
    <3>2. \A r \in Procs : Up(cur[r])' = Up(cur[r]) /\ Open(cur[r])' = Open(cur[r])
      BY <1>1 DEF Up, Open
    <3>3. Up(cur[t]) \in Fds /\ Kind(Up(cur[t])) = "upstream" /\ Reg(Up(cur[t])) = "none"
      BY <3>1 DEF IInv, Closing
    <3>4. Kind(Up(cur[t]))' = "upstream" /\ Reg(Up(cur[t]))' = "none"
      BY <3>1, <3>2, <3>3, <1>3, ReadyFact DEF Kind, Reg
    <3>5. QED
      BY <3>1, <3>2, <3>3, <3>4, <1>4, <1>10 DEF IInv, Closing
  <2>4. QED
    BY <2>1, <2>2, <2>3, <1>4 DEF Closing, Reg, Up
<1>13. Placed'
  BY <1>1, <1>2 DEF IInv, Placed
<1>14. Staged'
  <2>1. \A d \in Fds : Open(d)' => /\ Stage(d)' = "client" => ~Waiting(Up(d))'
                                   /\ Stage(d)' = "upstream" => Reg(d)' \notin {"in", "out"}
    BY <1>4, <1>8
  <2>2. \A e \in batch' : e[1] # NoFd =>
          /\ \E d \in Fds : Open(d)' /\ e[1] = Side(d)'
          /\ e[2] = "disconnect" => Kind(e[1])' = "client"
    <3> SUFFICES ASSUME NEW fd \in ReadyFds
                 PROVE  /\ \E d \in Fds : Open(d)' /\ fd = Side(d)'
                        /\ Event(fd) = "disconnect" => Kind(fd)' = "client"
      BY <1>6
    <3>1. PICK d \in Fds : Open(d) /\ fd = Side(d)
      BY ReadyFact
    <3>2. fd \in Fds /\ Event(fd) # "quiet"
      BY ReadyFact DEF Kinds
    <3>3. Event(fd) = "disconnect" => net[fd].hup
      BY <3>2, EventFact DEF IInv
    <3>4. Kind(d) = "client" /\ ~net[Up(d)].hup /\ Side(d) \in {d, Up(d)}
      BY <3>1, WireFact
    <3>5. QED
      BY <3>1, <3>2, <3>3, <3>4, <1>3, <1>4
  <2>3. \A i \in DOMAIN queue' :
          queue'[i][2] \in {"readC", "writeC"} <=> users'[queue'[i][1]].stage = "client"
    BY <1>1 DEF IInv, Staged, Stage
  <2>4. \A t \in Procs :
          /\ pc'[t] \in {"readC", "writeC", "armCIn", "armCOut"} => users'[cur'[t]].stage = "client"
          /\ pc'[t] \in {"readP", "writeP", "armPIn", "armPOut"} => users'[cur'[t]].stage = "upstream"
    <3>1. {"readC", "writeC", "armCIn", "armCOut", "readP", "writeP", "armPIn", "armPOut"}
            \subseteq Holding
      BY DEF Holding, Labels, Ops
    <3>2. QED
      BY <3>1, <1>1, <1>2 DEF IInv, Staged, Stage
  <2>5. QED
    BY <2>1, <2>2, <2>3, <2>4 DEF Staged, Stage
<1>15. Filled'
  <2>1. {"armPOut", "writeP", "armPIn"} \subseteq Holding
    BY DEF Holding, Labels, Ops
  <2>2. ASSUME NEW d \in Fds, Open(d), Stage(d) = "upstream"
        PROVE  /\ Reg(Up(d))' = "out" \/ <<Up(d)', "write">> \in batch' => Loaded(d)
               /\ Reg(Up(d))' = "in" => \/ Traffic(Up(d))'
                                        \/ \E t \in Procs : cur'[t] = d /\ pc'[t] = "armPOut"
    <3>1. Up(d)' = Up(d) /\ Up(d) \in Fds /\ Up(d) # NoFd
      BY <2>2, <1>4, WireFact, NumberFact
    <3>2. <<Up(d), "write">> \in batch' => Reg(Up(d)) = "out"
      <4>1. <<Up(d), "write">> \in batch' => Event(Up(d)) = "write"
        BY <3>1, <1>6
      <4>2. QED
        BY <4>1, <3>1, EventFact DEF IInv
    <3>3. /\ Reg(Up(d))' = "out" => Reg(Up(d)) = "out"
          /\ Reg(Up(d))' = "in" => Reg(Up(d)) = "in"
          /\ Traffic(Up(d))' = Traffic(Up(d))
      BY <3>1, <1>3 DEF Reg, Traffic, Up
    <3>4. \A t \in Procs : cur[t] = d /\ pc[t] = "armPOut" => cur'[t] = d /\ pc'[t] = "armPOut"
      BY <2>1, <1>1, <1>2
    <3>5. QED
      BY <2>2, <3>1, <3>2, <3>3, <3>4 DEF IInv, Filled
  <2>3. ASSUME NEW t \in Procs
        PROVE  /\ pc'[t] \in {"armPOut", "writeP"} => Loaded(cur[t])'
               /\ pc'[t] = "armPIn" => Traffic(Up(cur[t]))'
    <3>1. /\ pc'[t] \in {"armPOut", "writeP"} => pc[t] \in {"armPOut", "writeP"}
          /\ pc'[t] = "armPIn" => pc[t] = "armPIn"
          /\ cur'[t] = cur[t] /\ Up(cur[t])' = Up(cur[t]) /\ Loaded(cur[t])' = Loaded(cur[t])
      BY <2>1, <1>1, <1>2 DEF Up, Loaded
    <3>2. pc[t] = "armPIn" => cur[t] \in Fds /\ Open(cur[t]) /\ Up(cur[t]) \in Fds
      BY <2>1, HandFact, WireFact
    <3>3. pc[t] = "armPIn" => Traffic(Up(cur[t]))' = Traffic(Up(cur[t]))
      BY <3>1, <3>2, <1>3 DEF Traffic
    <3>4. QED
      BY <3>1, <3>3 DEF IInv, Filled
  <2>4. \A i \in DOMAIN queue' : queue'[i][2] = "writeP" => users'[queue'[i][1]].iov # <<>>
    BY <1>1 DEF IInv, Filled, Loaded
  <2>5. QED
    BY <2>2, <2>3, <2>4, <1>1, <1>4 DEF Filled, Loaded, Up, Traffic
<1>16. QED
  BY <1>9, <1>11, <1>12, <1>13, <1>14, <1>15

(* The first descriptor of a user is closed: nobody knows of the other one *)
(* now but the thread that goes on to close it.                            *)
LEMMA CloseClientFact ==
  ASSUME IInv, NEW t \in Procs, CloseClient(t)
  PROVE  Own' /\ Wired' /\ Closing' /\ Placed' /\ Staged' /\ Filled'
<1> PICK c : c = cur[t]
  OBVIOUS
<1> PICK p : p = Up(c)
  OBVIOUS
<1>1. /\ pc[t] = "close" /\ pc[t] \in Holding
      /\ "closeProxy" \notin Holding
  BY DEF CloseClient, Holding, Labels
<1>2. /\ c \in Fds /\ Open(c) /\ ~Armed(c) /\ ~Batched(c) /\ ~Queued(c)
      /\ \A s \in Procs : Holds(s, c) => s = t
  BY <1>1, HandFact
<1>3. /\ p \in Fds /\ p # c /\ Kind(c) = "client" /\ Kind(p) = "upstream"
      /\ Reg(c) = "none" /\ Reg(p) = "none" /\ map[p] = NoFd
      /\ \A d \in Fds : Open(d) => Up(d) # c /\ (Up(d) = p => d = c)
  BY <1>1, <1>2, WireFact DEF IInv, Closing
<1>4. /\ net' = [net EXCEPT ![c] = Unused]
      /\ users' = [users EXCEPT ![c].closed = TRUE]
      /\ pc' = [pc EXCEPT ![t] = "closeProxy"]
      /\ UNCHANGED <<map, batch, queue, cur>>
  BY <1>2 DEF CloseClient, Open, Goto, listener, outside
<1>5. /\ \A fd \in Fds \ {c} : net'[fd] = net[fd]
      /\ net'[c].kind = "free" /\ net'[c].interest = "none"
  BY <1>2, <1>4 DEF IInv, Typed, Unused
<1>6. \A d \in Fds : /\ users'[d].proxy = users[d].proxy /\ users'[d].stage = users[d].stage
                     /\ users'[d].iov = users[d].iov
                     /\ ~users'[d].closed <=> ~users[d].closed /\ d # c
  <2>1. \A d \in Fds : users[d] \in Conn /\ d \in 0 .. MaxFd
    BY NumberFact DEF IInv, Typed
  <2>2. \A d \in Fds \ {c} : users'[d] = users[d]
    BY <1>4
  <2>3. users'[c] = [users[c] EXCEPT !.closed = TRUE]
    BY <1>2, <1>4, <2>1 DEF IInv, Typed
  <2>4. users'[c].proxy = users[c].proxy /\ users'[c].stage = users[c].stage
        /\ users'[c].iov = users[c].iov /\ users'[c].closed = TRUE
    BY <1>2, <2>1, <2>3 DEF Conn
  <2>5. QED
    BY <2>2, <2>4
<1>7. /\ \A s \in Procs \ {t} : pc'[s] = pc[s]
      /\ pc'[t] = "closeProxy"
  BY <1>4 DEF IInv, Typed
<1>8. \A d \in Fds : d # c /\ Open(d) =>
        /\ Up(d) \in Fds /\ Up(d) # c /\ Kind(d) = "client" /\ Kind(Up(d)) = "upstream"
        /\ Reg(d)' = Reg(d) /\ Reg(Up(d))' = Reg(Up(d)) /\ Traffic(Up(d))' = Traffic(Up(d))
        /\ Waiting(Up(d))' = Waiting(Up(d))
        /\ Armed(d)' = Armed(d) /\ Batched(d)' = Batched(d)
  <2> SUFFICES ASSUME NEW d \in Fds, d # c, Open(d)
               PROVE  /\ Up(d) \in Fds /\ Up(d) # c /\ Kind(d) = "client" /\ Kind(Up(d)) = "upstream"
                      /\ Reg(d)' = Reg(d) /\ Reg(Up(d))' = Reg(Up(d))
                      /\ Traffic(Up(d))' = Traffic(Up(d))
                      /\ Waiting(Up(d))' = Waiting(Up(d))
                      /\ Armed(d)' = Armed(d) /\ Batched(d)' = Batched(d)
    OBVIOUS
  <2>1. Up(d) \in Fds /\ Up(d) # c /\ Kind(d) = "client" /\ Kind(Up(d)) = "upstream"
    BY <1>3, WireFact
  <2>2. Up(d)' = Up(d) /\ Side(d)' = Side(d)
    BY <1>6 DEF Up, Side, Stage
  <2>3. net'[d] = net[d] /\ net'[Up(d)] = net[Up(d)]
    BY <2>1, <1>5
  <2>4. /\ Reg(d)' = Reg(d) /\ Reg(Up(d))' = Reg(Up(d)) /\ Traffic(Up(d))' = Traffic(Up(d))
        /\ Waiting(Up(d))' = Waiting(Up(d))
    BY <2>2, <2>3 DEF Reg, Traffic, Waiting
  <2>5. Armed(d)' = Armed(d) /\ Batched(d)' = Batched(d)
    BY <2>2, <2>4, <1>4 DEF Armed, Batched
  <2>6. QED
    BY <2>1, <2>4, <2>5
<1>9. \A d \in Fds : /\ Open(d)' <=> Open(d) /\ d # c
                     /\ Up(d)' = Up(d) /\ Side(d)' = Side(d) /\ Stage(d)' = Stage(d)
                     /\ Loaded(d)' = Loaded(d) /\ Queued(d)' = Queued(d)
  BY <1>4, <1>6 DEF Open, Up, Side, Stage, Loaded, Queued
<1>10. /\ \A s \in Procs, d \in Fds : d # c => Holds(s, d)' = Holds(s, d)
       /\ ~Held(c)'
       /\ \A d \in Fds : d # c => Held(d)' = Held(d)
  <2>1. \A s \in Procs, d \in Fds : d # c => Holds(s, d)' = Holds(s, d)
    BY <1>1, <1>4, <1>7 DEF Holds
  <2>2. \A s \in Procs : ~Holds(s, c)'
    BY <1>1, <1>2, <1>4, <1>7 DEF Holds
  <2>3. QED
    BY <2>1, <2>2 DEF Held
<1>11. Own'
  <2>1. Owned' /\ Exclusive'
    BY <1>2, <1>8, <1>9, <1>10 DEF IInv, Own, Owned, Exclusive
  <2>2. Once'
    <3>1. \A d \in Fds : \A r, s \in Procs : Holds(r, d)' /\ Holds(s, d)' => r = s
      BY <1>10 DEF IInv, Own, Once, Held
    <3>2. QED
      BY <3>1, <1>4 DEF IInv, Own, Once
  <2>3. QED
    BY <2>1, <2>2 DEF Own
<1>12. /\ \A s \in Procs \ {t} : pc[s] = "closeProxy" => cur[s] \in Fds /\ Up(cur[s]) # c /\ cur[s] # c
       /\ \A s \in Procs \ {t} : pc[s] \in Holding => cur[s] \in Fds /\ cur[s] # c
  <2>1. \A s \in Procs : pc[s] \in Holding \cup {"closeProxy"} => cur[s] \in Fds
    BY DEF IInv, Placed
  <2>2. \A s \in Procs : pc[s] = "closeProxy" => Kind(Up(cur[s])) = "upstream" /\ ~Open(cur[s])
    BY DEF IInv, Closing
  <2>3. \A s \in Procs \ {t} : pc[s] \in Holding => cur[s] # c
    BY <1>2 DEF Holds
  <2>4. QED
    BY <2>1, <2>2, <2>3, <1>2, <1>3
<1>13. Wired'
  <2>1. \A d \in Fds : Open(d)' =>
        /\ Up(d)' \in Fds /\ Kind(d)' = "client"
        /\ net'[Up(d)'].kind = "upstream"
    BY <1>5, <1>8, <1>9 DEF Kind
  <2>2. \A d, e \in Fds : Open(d)' /\ Open(e)' /\ Up(d)' = Up(e)' => d = e
    BY <1>9 DEF IInv, Wired
  <2>3. \A fd \in Fds : Kind(fd)' = "client" => Open(fd)'
    BY <1>5, <1>9 DEF IInv, Wired, Kind
  <2>4. ASSUME NEW fd \in Fds, Kind(fd)' = "upstream"
        PROVE  /\ ~net'[fd].hup
               /\ \/ \E d \in Fds : Open(d)' /\ Up(d)' = fd
                  \/ \E s \in Procs : pc'[s] = "closeProxy" /\ Up(cur[s])' = fd
    <3>1. fd # c /\ Kind(fd) = "upstream" /\ net'[fd] = net[fd]
      BY <2>4, <1>5 DEF Kind
    <3>2. \/ \E d \in Fds : Open(d) /\ Up(d) = fd
          \/ \E s \in Procs : pc[s] = "closeProxy" /\ Up(cur[s]) = fd
      BY <3>1 DEF IInv, Wired
    <3>3. ASSUME NEW d \in Fds, Open(d), Up(d) = fd
          PROVE  \/ \E e \in Fds : Open(e)' /\ Up(e)' = fd
                 \/ \E s \in Procs : pc'[s] = "closeProxy" /\ Up(cur[s])' = fd
      <4>1. CASE d # c
        BY <4>1, <3>3, <1>9
      <4>2. CASE d = c
        BY <4>2, <3>3, <1>4, <1>6, <1>7 DEF Up
      <4>3. QED
        BY <4>1, <4>2
    <3>4. ASSUME NEW s \in Procs, pc[s] = "closeProxy", Up(cur[s]) = fd
          PROVE  pc'[s] = "closeProxy" /\ Up(cur[s])' = fd
      BY <3>4, <1>1, <1>4, <1>6, <1>7, <1>12 DEF Up
    <3>5. QED
      BY <3>1, <3>2, <3>3, <3>4 DEF IInv, Wired
  <2>5. \A fd \in Fds : Kind(fd)' \in {"free", "lost"} => Reg(fd)' = "none"
    BY <1>5 DEF IInv, Wired, Kind, Reg
  <2>6. \A fd \in Fds : map'[fd] # NoFd => ~users'[map'[fd]].closed /\ users'[map'[fd]].proxy = fd
    <3> SUFFICES ASSUME NEW fd \in Fds, map[fd] # NoFd
                 PROVE  ~users'[map[fd]].closed /\ users'[map[fd]].proxy = fd
      BY <1>4
    <3>1. map[fd] \in Fds /\ Open(map[fd]) /\ Up(map[fd]) = fd
      BY FieldFact DEF IInv, Wired
    <3>2. map[fd] # c
      BY <3>1, <1>3
    <3>3. QED
      BY <3>1, <3>2, <1>6 DEF Open, Up
  <2>7. QED
    BY <2>1, <2>2, <2>3, <2>4, <2>5, <2>6 DEF Wired, Open, Up, Kind
<1>14. Closing'
  <2>1. \A d \in Fds : Open(d)' =>
          \/ map'[Up(d)'] = d /\ Reg(d)' # "none" /\ Reg(Up(d))' # "none"
          \/ \E s \in Procs : cur'[s] = d /\ pc'[s] = "close"
    <3> SUFFICES ASSUME NEW d \in Fds, Open(d), d # c
                 PROVE  \/ map'[Up(d)'] = d /\ Reg(d)' # "none" /\ Reg(Up(d))' # "none"
                        \/ \E s \in Procs : cur'[s] = d /\ pc'[s] = "close"
      BY <1>9
    <3>1. \/ map[Up(d)] = d /\ Reg(d) # "none" /\ Reg(Up(d)) # "none"
          \/ \E s \in Procs : cur[s] = d /\ pc[s] = "close"
      BY DEF IInv, Closing
    <3>2. \A s \in Procs : cur[s] = d /\ pc[s] = "close" => cur'[s] = d /\ pc'[s] = "close"
      BY <1>4, <1>7
    <3>3. QED
      BY <3>1, <3>2, <1>4, <1>8, <1>9
  <2>2. ASSUME NEW s \in Procs, pc'[s] = "close"
        PROVE  Reg(cur[s])' = "none" /\ Reg(Up(cur[s]))' = "none" /\ map'[Up(cur[s])'] = NoFd
    <3>1. s # t /\ pc[s] = "close" /\ pc[s] \in Holding
      BY <2>2, <1>1, <1>7
    <3>2. cur[s] \in Fds /\ cur[s] # c /\ Open(cur[s]) /\ Up(cur[s])' = Up(cur[s]) /\ cur'[s] = cur[s]
      BY <3>1, <1>4, <1>6, <1>12, HandFact DEF Up
    <3>3. Reg(cur[s]) = "none" /\ Reg(Up(cur[s])) = "none" /\ map[Up(cur[s])] = NoFd
      BY <3>1 DEF IInv, Closing
    <3>4. QED
      BY <3>2, <3>3, <1>4, <1>8 DEF Reg, Up
  <2>3. ASSUME NEW s \in Procs, pc'[s] = "closeProxy"
        PROVE  /\ ~Open(cur[s])'
               /\ Up(cur[s])' \in Fds /\ Kind(Up(cur[s]))' = "upstream" /\ Reg(Up(cur[s]))' = "none"
               /\ \A d \in Fds : Open(d)' => Up(d)' # Up(cur[s])'
               /\ \A r \in Procs : pc'[r] = "closeProxy" /\ Up(cur[r])' = Up(cur[s])' => r = s
    <3>1. \A r \in Procs : pc'[r] = "closeProxy" =>
            /\ cur[r] \in Fds /\ Up(cur[r])' = Up(cur[r])
            /\ r = t \/ pc[r] = "closeProxy"
      BY <1>2, <1>4, <1>6, <1>7, <1>12 DEF Up
    <3>2. CASE s = t
      <4>1. Up(cur[s])' = p /\ ~Open(cur[s])'
        BY <3>2, <1>2, <1>4, <1>6 DEF Up, Open
      <4>2. Kind(Up(cur[s]))' = "upstream" /\ Reg(Up(cur[s]))' = "none"
        BY <4>1, <1>3, <1>5 DEF Kind, Reg
      <4>3. \A d \in Fds : Open(d)' => Up(d)' # p
        BY <1>3, <1>9
      <4>4. \A r \in Procs : pc[r] = "closeProxy" => Up(cur[r]) # p
        BY <1>2 DEF IInv, Closing
      <4>5. \A r \in Procs : pc'[r] = "closeProxy" /\ Up(cur[r])' = p => r = t
        BY <3>1, <4>4
      <4>6. QED
        BY <3>2, <4>1, <4>2, <4>3, <4>5, <1>3
    <3>3. CASE s # t
      <4>1. /\ pc[s] = "closeProxy" /\ cur[s] \in Fds /\ cur[s] # c /\ Up(cur[s]) # c
            /\ Up(cur[s])' = Up(cur[s])
        BY <2>3, <3>1, <3>3, <1>12
      <4>2. /\ ~Open(cur[s]) /\ Up(cur[s]) \in Fds /\ Kind(Up(cur[s])) = "upstream"
            /\ Reg(Up(cur[s])) = "none"
            /\ \A d \in Fds : Open(d) => Up(d) # Up(cur[s])
            /\ \A r \in Procs : pc[r] = "closeProxy" /\ Up(cur[r]) = Up(cur[s]) => r = s
        BY <4>1 DEF IInv, Closing
      <4>3. ~Open(cur[s])' /\ Kind(Up(cur[s]))' = "upstream" /\ Reg(Up(cur[s]))' = "none"
        BY <4>1, <4>2, <1>4, <1>5, <1>6 DEF Open, Kind, Reg, Up
      <4>4. \A r \in Procs : pc'[r] = "closeProxy" /\ Up(cur[r])' = Up(cur[s])' => r = s
        <5>1. Up(cur[t]) # Up(cur[s])
          BY <4>2, <1>2
        <5>2. QED
          BY <4>1, <4>2, <5>1, <3>1
      <4>5. QED
        BY <4>1, <4>2, <4>3, <4>4, <1>9
    <3>4. QED
      BY <3>2, <3>3
  <2>4. QED
    BY <2>1, <2>2, <2>3 DEF Closing, Reg, Up, Kind, Open
<1>15. Placed'
  <2>1. t = Main => pc'[Main] # "top"
    BY <1>7
  <2>2. t # Main => pc'[Main] = pc[Main]
    BY <1>7, NumberFact
  <2>3. \A s \in Procs : pc'[s] \in Holding \cup {"closeProxy"} => cur'[s] \in Fds
    BY <1>2, <1>4, <1>7, <1>12
  <2>4. QED
    BY <2>1, <2>2, <2>3, <1>4 DEF IInv, Placed
<1>16. Staged'
  <2>1. \A d \in Fds : Open(d)' => /\ Stage(d)' = "client" => ~Waiting(Up(d))'
                                   /\ Stage(d)' = "upstream" => Reg(d)' \notin {"in", "out"}
    BY <1>8, <1>9 DEF IInv, Staged
  <2>2. ASSUME NEW e \in batch', e[1] # NoFd
        PROVE  /\ \E d \in Fds : Open(d)' /\ e[1] = Side(d)'
               /\ e[2] = "disconnect" => net'[e[1]].kind = "client"
    <3>1. e \in batch
      BY <1>4
    <3>2. e[1] \in Fds /\ e[1] # c
      BY <2>2, <3>1, <1>2, BatchFact, NoEventFact
    <3>3. PICK d \in Fds : Open(d) /\ e[1] = Side(d)
      BY <2>2, <3>1 DEF IInv, Staged
    <3>4. d # c
      BY <3>1, <3>3, <1>2 DEF Batched
    <3>5. e[2] = "disconnect" => net[e[1]].kind = "client"
      BY <2>2, <3>1 DEF IInv, Staged, Kind
    <3>6. QED
      BY <3>2, <3>3, <3>4, <3>5, <1>5, <1>9
  <2>3. \A i \in DOMAIN queue' :
          queue'[i][2] \in {"readC", "writeC"} <=> users'[queue'[i][1]].stage = "client"
    <3>1. \A i \in DOMAIN queue : queue[i][1] \in Fds
      BY DEF IInv, Typed
    <3>2. QED
      BY <3>1, <1>4, <1>6 DEF IInv, Staged, Stage
  <2>4. \A s \in Procs :
          /\ pc'[s] \in {"readC", "writeC", "armCIn", "armCOut"} => users'[cur'[s]].stage = "client"
          /\ pc'[s] \in {"readP", "writeP", "armPIn", "armPOut"} => users'[cur'[s]].stage = "upstream"
    <3>1. {"readC", "writeC", "armCIn", "armCOut", "readP", "writeP", "armPIn", "armPOut"}
            \subseteq Holding
      BY DEF Holding, Labels, Ops
    <3>2. ASSUME NEW s \in Procs, pc'[s] \in Holding
          PROVE  pc[s] = pc'[s] /\ cur[s] \in Fds /\ users'[cur'[s]].stage = Stage(cur[s])
      BY <3>2, <1>1, <1>4, <1>6, <1>7, <1>12 DEF Stage
    <3>3. QED
      BY <3>1, <3>2 DEF IInv, Staged
  <2>5. QED
    BY <2>1, <2>2, <2>3, <2>4 DEF Staged, Stage, Kind
<1>17. Filled'
  <2>1. {"armPOut", "writeP", "armPIn"} \subseteq Holding
    BY DEF Holding, Labels, Ops
  <2>2. ASSUME NEW d \in Fds, Open(d)', Stage(d)' = "upstream"
        PROVE  /\ Reg(Up(d))' = "out" \/ <<Up(d)', "write">> \in batch' => Loaded(d)'
               /\ Reg(Up(d))' = "in" => \/ Traffic(Up(d))'
                                        \/ \E s \in Procs : cur'[s] = d /\ pc'[s] = "armPOut"
    <3>1. Open(d) /\ d # c /\ Stage(d) = "upstream" /\ Up(d)' = Up(d)
      BY <2>2, <1>9
    <3>2. /\ Reg(Up(d)) = "out" \/ <<Up(d), "write">> \in batch => Loaded(d)
          /\ Reg(Up(d)) = "in" => \/ Traffic(Up(d))
                                  \/ \E s \in Procs : cur[s] = d /\ pc[s] = "armPOut"
      BY <3>1 DEF IInv, Filled
    <3>3. \A s \in Procs : cur[s] = d /\ pc[s] = "armPOut" => cur'[s] = d /\ pc'[s] = "armPOut"
      BY <3>1, <1>4, <1>7
    <3>4. Reg(Up(d))' = Reg(Up(d)) /\ Traffic(Up(d))' = Traffic(Up(d)) /\ Loaded(d)' = Loaded(d)
      BY <3>1, <1>8, <1>9
    <3>5. QED
      BY <3>1, <3>2, <3>3, <3>4, <1>4
  <2>3. ASSUME NEW s \in Procs
        PROVE  /\ pc'[s] \in {"armPOut", "writeP"} => Loaded(cur[s])'
               /\ pc'[s] = "armPIn" => Traffic(Up(cur[s]))'
    <3>1. pc'[s] \in Holding =>
            /\ s # t /\ pc[s] = pc'[s] /\ cur[s] \in Fds /\ cur[s] # c
            /\ cur'[s] = cur[s] /\ Loaded(cur[s])' = Loaded(cur[s]) /\ Up(cur[s])' = Up(cur[s])
      BY <1>1, <1>4, <1>6, <1>7, <1>12 DEF Loaded, Up
    <3>2. pc'[s] \in Holding => Open(cur[s])
      BY <3>1, HandFact
    <3>3. pc'[s] \in Holding => Traffic(Up(cur[s]))' = Traffic(Up(cur[s]))
      BY <3>1, <3>2, <1>8 DEF Traffic
    <3>4. QED
      BY <2>1, <3>1, <3>3 DEF IInv, Filled
  <2>4. \A i \in DOMAIN queue' : queue'[i][2] = "writeP" => users'[queue'[i][1]].iov # <<>>
    <3>1. \A i \in DOMAIN queue : queue[i][1] \in Fds
      BY DEF IInv, Typed
    <3>2. QED
      BY <3>1, <1>4, <1>6 DEF IInv, Filled, Loaded
  <2>5. QED
    BY <2>2, <2>3, <2>4 DEF Filled, Loaded, Up, Traffic, Reg, Open, Stage
<1>18. QED
  BY <1>11, <1>13, <1>14, <1>15, <1>16, <1>17

(* The second descriptor is closed, and the user is done with.             *)
LEMMA CloseProxyFact ==
  ASSUME IInv, NEW t \in Procs, CloseProxy(t)
  PROVE  Own' /\ Wired' /\ Closing' /\ Placed' /\ Staged' /\ Filled'
<1> PICK c : c = cur[t]
  OBVIOUS
<1> PICK p : p = Up(c)
  OBVIOUS
<1>1. pc[t] = "closeProxy" /\ c \in Fds /\ ~(pc[t] \in Holding)
  BY DEF CloseProxy, Holding, IInv, Placed
<1>2. /\ p \in Fds /\ ~Open(c) /\ Kind(p) = "upstream" /\ Reg(p) = "none"
      /\ \A d \in Fds : Open(d) => Up(d) # p
      /\ \A s \in Procs : pc[s] = "closeProxy" /\ Up(cur[s]) = p => s = t
  BY <1>1 DEF IInv, Closing
<1>3. PICK l \in {"idle", "dispatch"} : pc' = [pc EXCEPT ![t] = l] /\ cur' = [cur EXCEPT ![t] = NoFd]
  BY ThreadTypeFact DEF CloseProxy, IInv
<1>4. /\ net' = [net EXCEPT ![p] = Unused]
      /\ users' = [users EXCEPT ![c].parsed = 0]
      /\ UNCHANGED <<map, batch, queue>>
  BY DEF CloseProxy, Up, listener, outside
<1>5. /\ \A fd \in Fds \ {p} : net'[fd] = net[fd]
      /\ net'[p].kind = "free" /\ net'[p].interest = "none"
  BY <1>2, <1>4 DEF IInv, Typed, Unused
<1>6. \A d \in Fds : /\ users'[d].proxy = users[d].proxy /\ users'[d].stage = users[d].stage
                     /\ users'[d].iov = users[d].iov /\ users'[d].closed = users[d].closed
  <2>1. \A d \in Fds : users[d] \in Conn /\ d \in 0 .. MaxFd
    BY NumberFact DEF IInv, Typed
  <2>2. \A d \in Fds \ {c} : users'[d] = users[d]
    BY <1>4
  <2>3. users'[c] = [users[c] EXCEPT !.parsed = 0]
    BY <1>1, <1>4, <2>1 DEF IInv, Typed
  <2>4. users'[c].proxy = users[c].proxy /\ users'[c].stage = users[c].stage
        /\ users'[c].iov = users[c].iov /\ users'[c].closed = users[c].closed
    BY <1>1, <2>1, <2>3 DEF Conn
  <2>5. QED
    BY <2>2, <2>4
<1>7. /\ \A s \in Procs \ {t} : pc'[s] = pc[s] /\ cur'[s] = cur[s]
      /\ pc'[t] = l /\ l \notin Holding \cup {"closeProxy", "top"}
  BY <1>3 DEF IInv, Typed, Holding
<1>8. \A d \in Fds : Open(d) =>
        /\ Up(d) \in Fds /\ Up(d) # p /\ d # p /\ Kind(d) = "client" /\ Kind(Up(d)) = "upstream"
        /\ Reg(d)' = Reg(d) /\ Reg(Up(d))' = Reg(Up(d)) /\ Traffic(Up(d))' = Traffic(Up(d))
        /\ Waiting(Up(d))' = Waiting(Up(d))
        /\ Armed(d)' = Armed(d) /\ Batched(d)' = Batched(d)
  <2> SUFFICES ASSUME NEW d \in Fds, Open(d)
               PROVE  /\ Up(d) \in Fds /\ Up(d) # p /\ d # p
                      /\ Kind(d) = "client" /\ Kind(Up(d)) = "upstream"
                      /\ Reg(d)' = Reg(d) /\ Reg(Up(d))' = Reg(Up(d))
                      /\ Traffic(Up(d))' = Traffic(Up(d))
                      /\ Waiting(Up(d))' = Waiting(Up(d))
                      /\ Armed(d)' = Armed(d) /\ Batched(d)' = Batched(d)
    OBVIOUS
  <2>1. /\ Up(d) \in Fds /\ Up(d) # p /\ d # p
        /\ Kind(d) = "client" /\ Kind(Up(d)) = "upstream"
    BY <1>2, WireFact
  <2>2. Up(d)' = Up(d) /\ Side(d)' = Side(d)
    BY <1>6 DEF Up, Side, Stage
  <2>3. net'[d] = net[d] /\ net'[Up(d)] = net[Up(d)]
    BY <2>1, <1>5
  <2>4. /\ Reg(d)' = Reg(d) /\ Reg(Up(d))' = Reg(Up(d)) /\ Traffic(Up(d))' = Traffic(Up(d))
        /\ Waiting(Up(d))' = Waiting(Up(d))
    BY <2>2, <2>3 DEF Reg, Traffic, Waiting
  <2>5. Armed(d)' = Armed(d) /\ Batched(d)' = Batched(d)
    BY <2>2, <2>4, <1>4 DEF Armed, Batched
  <2>6. QED
    BY <2>1, <2>4, <2>5
<1>9. \A d \in Fds : /\ Open(d)' = Open(d) /\ Up(d)' = Up(d)
                     /\ Side(d)' = Side(d) /\ Stage(d)' = Stage(d)
                     /\ Loaded(d)' = Loaded(d) /\ Queued(d)' = Queued(d)
  BY <1>4, <1>6 DEF Open, Up, Side, Stage, Loaded, Queued
<1>10. /\ \A s \in Procs, d \in Fds : Holds(s, d)' = Holds(s, d)
       /\ \A d \in Fds : Held(d)' = Held(d)
  <2>1. \A s \in Procs, d \in Fds : Holds(s, d)' = Holds(s, d)
    BY <1>1, <1>7 DEF Holds
  <2>2. QED
    BY <2>1 DEF Held
<1>11. Own'
  <2>1. Owned' /\ Exclusive'
    BY <1>8, <1>9, <1>10 DEF IInv, Own, Owned, Exclusive
  <2>2. Once'
    BY <1>4, <1>10 DEF IInv, Own, Once
  <2>3. QED
    BY <2>1, <2>2 DEF Own
<1>12. \A s \in Procs : pc'[s] \in Holding \cup {"closeProxy"} =>
         s # t /\ pc[s] = pc'[s] /\ cur'[s] = cur[s] /\ cur[s] \in Fds
  BY <1>7 DEF IInv, Placed
<1>13. Wired'
  <2>1. \A d \in Fds : Open(d)' =>
        /\ Up(d)' \in Fds /\ Kind(d)' = "client"
        /\ net'[Up(d)'].kind = "upstream"
    BY <1>5, <1>8, <1>9 DEF Kind
  <2>2. \A d, e \in Fds : Open(d)' /\ Open(e)' /\ Up(d)' = Up(e)' => d = e
    BY <1>9 DEF IInv, Wired
  <2>3. \A fd \in Fds : Kind(fd)' = "client" => Open(fd)'
    BY <1>5, <1>9 DEF IInv, Wired, Kind
  <2>4. ASSUME NEW fd \in Fds, Kind(fd)' = "upstream"
        PROVE  /\ ~net'[fd].hup
               /\ \/ \E d \in Fds : Open(d)' /\ Up(d)' = fd
                  \/ \E s \in Procs : pc'[s] = "closeProxy" /\ users'[cur'[s]].proxy = fd
    <3>1. fd # p /\ Kind(fd) = "upstream" /\ net'[fd] = net[fd]
      BY <2>4, <1>5 DEF Kind
    <3>2. \/ \E d \in Fds : Open(d) /\ Up(d) = fd
          \/ \E s \in Procs : pc[s] = "closeProxy" /\ Up(cur[s]) = fd
      BY <3>1 DEF IInv, Wired
    <3>3. ASSUME NEW s \in Procs, pc[s] = "closeProxy", Up(cur[s]) = fd
          PROVE  pc'[s] = "closeProxy" /\ users'[cur'[s]].proxy = fd
      <4>1. s # t
        BY <3>1, <3>3
      <4>2. pc'[s] = "closeProxy" /\ cur'[s] = cur[s] /\ cur[s] \in Fds
        BY <4>1, <3>3, <1>7 DEF IInv, Placed
      <4>3. QED
        BY <4>2, <3>3, <1>6 DEF Up
    <3>4. QED
      BY <3>1, <3>2, <3>3, <1>9 DEF IInv, Wired
  <2>5. \A fd \in Fds : Kind(fd)' \in {"free", "lost"} => Reg(fd)' = "none"
    BY <1>5 DEF IInv, Wired, Kind, Reg
  <2>6. \A fd \in Fds : map'[fd] # NoFd => ~users'[map'[fd]].closed /\ users'[map'[fd]].proxy = fd
    <3>1. \A fd \in Fds : map[fd] # NoFd => map[fd] \in Fds /\ Open(map[fd]) /\ Up(map[fd]) = fd
      BY FieldFact DEF IInv, Wired
    <3>2. QED
      BY <3>1, <1>4, <1>6 DEF Open, Up
  <2>7. QED
    BY <2>1, <2>2, <2>3, <2>4, <2>5, <2>6 DEF Wired, Open, Up, Kind
<1>14. Closing'
  <2>1. \A d \in Fds : Open(d)' =>
          \/ map'[Up(d)'] = d /\ Reg(d)' # "none" /\ Reg(Up(d))' # "none"
          \/ \E s \in Procs : cur'[s] = d /\ pc'[s] = "close"
    <3> SUFFICES ASSUME NEW d \in Fds, Open(d)
                 PROVE  \/ map'[Up(d)'] = d /\ Reg(d)' # "none" /\ Reg(Up(d))' # "none"
                        \/ \E s \in Procs : cur'[s] = d /\ pc'[s] = "close"
      BY <1>9
    <3>1. \/ map[Up(d)] = d /\ Reg(d) # "none" /\ Reg(Up(d)) # "none"
          \/ \E s \in Procs : cur[s] = d /\ pc[s] = "close"
      BY DEF IInv, Closing
    <3>2. \A s \in Procs : cur[s] = d /\ pc[s] = "close" => cur'[s] = d /\ pc'[s] = "close"
      BY <1>1, <1>7
    <3>3. QED
      BY <3>1, <3>2, <1>4, <1>8, <1>9
  <2>2. ASSUME NEW s \in Procs, pc'[s] = "close"
        PROVE  /\ net'[cur'[s]].interest = "none" /\ net'[users'[cur'[s]].proxy].interest = "none"
               /\ map'[users'[cur'[s]].proxy] = NoFd
    <3>1. pc'[s] \in Holding
      BY <2>2 DEF Holding, Labels
    <3>2. pc[s] = "close" /\ cur'[s] = cur[s] /\ cur[s] \in Fds /\ pc[s] \in Holding
      BY <2>2, <3>1, <1>12
    <3>3. Open(cur[s])
      BY <3>2, HandFact
    <3>4. Reg(cur[s]) = "none" /\ Reg(Up(cur[s])) = "none" /\ map[Up(cur[s])] = NoFd
      BY <3>2 DEF IInv, Closing
    <3>5. Up(cur[s]) \in Fds /\ Up(cur[s]) # p /\ cur[s] # p
      BY <3>2, <3>3, <1>8
    <3>6. QED
      BY <3>2, <3>4, <3>5, <1>4, <1>5, <1>6 DEF Reg, Up
  <2>3. ASSUME NEW s \in Procs, pc'[s] = "closeProxy"
        PROVE  /\ users'[cur'[s]].closed
               /\ users'[cur'[s]].proxy \in Fds
               /\ net'[users'[cur'[s]].proxy].kind = "upstream"
               /\ net'[users'[cur'[s]].proxy].interest = "none"
               /\ \A d \in Fds : Open(d)' => Up(d)' # users'[cur'[s]].proxy
               /\ \A r \in Procs :
                    pc'[r] = "closeProxy" /\ users'[cur'[r]].proxy = users'[cur'[s]].proxy => r = s
    <3>1. \A r \in Procs : pc'[r] = "closeProxy" =>
            /\ r # t /\ pc[r] = "closeProxy" /\ cur'[r] = cur[r] /\ cur[r] \in Fds
            /\ users'[cur'[r]].proxy = Up(cur[r])
      BY <1>6, <1>12 DEF Up
    <3>2. /\ ~Open(cur[s]) /\ Up(cur[s]) \in Fds /\ Kind(Up(cur[s])) = "upstream"
          /\ Reg(Up(cur[s])) = "none"
          /\ \A d \in Fds : Open(d) => Up(d) # Up(cur[s])
          /\ \A r \in Procs : pc[r] = "closeProxy" /\ Up(cur[r]) = Up(cur[s]) => r = s
      BY <2>3, <3>1 DEF IInv, Closing
    <3>3. Up(cur[s]) # p
      BY <2>3, <3>1, <1>2
    <3>4. users'[cur'[s]].closed
      BY <2>3, <3>1, <3>2, <1>6 DEF Open
    <3>5. /\ users'[cur'[s]].proxy = Up(cur[s])
          /\ net'[Up(cur[s])].kind = "upstream" /\ net'[Up(cur[s])].interest = "none"
      BY <2>3, <3>1, <3>2, <3>3, <1>5 DEF Kind, Reg
    <3>6. QED
      BY <3>1, <3>2, <3>4, <3>5, <1>9
  <2>4. QED
    BY <2>1, <2>2, <2>3 DEF Closing, Reg, Up, Kind, Open
<1>15. Placed'
  <2>1. t = Main => pc'[Main] # "top"
    BY <1>7
  <2>2. t # Main => pc'[Main] = pc[Main]
    BY <1>7, NumberFact
  <2>3. QED
    BY <2>1, <2>2, <1>4, <1>12 DEF IInv, Placed
<1>16. Staged'
  <2>1. \A d \in Fds : Open(d)' => /\ Stage(d)' = "client" => ~Waiting(Up(d))'
                                   /\ Stage(d)' = "upstream" => Reg(d)' \notin {"in", "out"}
    BY <1>8, <1>9 DEF IInv, Staged
  <2>2. ASSUME NEW e \in batch', e[1] # NoFd
        PROVE  /\ \E d \in Fds : Open(d)' /\ e[1] = Side(d)'
               /\ e[2] = "disconnect" => net'[e[1]].kind = "client"
    <3>1. e \in batch /\ e[1] \in Fds
      BY <2>2, <1>4, BatchFact
    <3>2. PICK d \in Fds : Open(d) /\ e[1] = Side(d)
      BY <2>2, <3>1 DEF IInv, Staged
    <3>3. e[1] # p
      BY <3>2, <1>8 DEF Side
    <3>4. e[2] = "disconnect" => net[e[1]].kind = "client"
      BY <2>2, <3>1 DEF IInv, Staged, Kind
    <3>5. QED
      BY <3>1, <3>2, <3>3, <3>4, <1>5, <1>9
  <2>3. \A i \in DOMAIN queue' :
          queue'[i][2] \in {"readC", "writeC"} <=> users'[queue'[i][1]].stage = "client"
    <3>1. \A i \in DOMAIN queue : queue[i][1] \in Fds
      BY DEF IInv, Typed
    <3>2. QED
      BY <3>1, <1>4, <1>6 DEF IInv, Staged, Stage
  <2>4. \A s \in Procs :
          /\ pc'[s] \in {"readC", "writeC", "armCIn", "armCOut"} => users'[cur'[s]].stage = "client"
          /\ pc'[s] \in {"readP", "writeP", "armPIn", "armPOut"} => users'[cur'[s]].stage = "upstream"
    <3>1. {"readC", "writeC", "armCIn", "armCOut", "readP", "writeP", "armPIn", "armPOut"}
            \subseteq Holding
      BY DEF Holding, Labels, Ops
    <3>2. ASSUME NEW s \in Procs, pc'[s] \in Holding
          PROVE  pc[s] = pc'[s] /\ users'[cur'[s]].stage = Stage(cur[s])
      BY <3>2, <1>6, <1>12 DEF Stage
    <3>3. QED
      BY <3>1, <3>2 DEF IInv, Staged
  <2>5. QED
    BY <2>1, <2>2, <2>3, <2>4 DEF Staged, Stage, Kind
<1>17. Filled'
  <2>1. {"armPOut", "writeP", "armPIn"} \subseteq Holding
    BY DEF Holding, Labels, Ops
  <2>2. ASSUME NEW d \in Fds, Open(d)', Stage(d)' = "upstream"
        PROVE  /\ Reg(Up(d))' = "out" \/ <<Up(d)', "write">> \in batch' => Loaded(d)'
               /\ Reg(Up(d))' = "in" => \/ Traffic(Up(d))'
                                        \/ \E s \in Procs : cur'[s] = d /\ pc'[s] = "armPOut"
    <3>1. Open(d) /\ Stage(d) = "upstream" /\ Up(d)' = Up(d)
      BY <2>2, <1>9
    <3>2. /\ Reg(Up(d)) = "out" \/ <<Up(d), "write">> \in batch => Loaded(d)
          /\ Reg(Up(d)) = "in" => \/ Traffic(Up(d))
                                  \/ \E s \in Procs : cur[s] = d /\ pc[s] = "armPOut"
      BY <3>1 DEF IInv, Filled
    <3>3. \A s \in Procs : cur[s] = d /\ pc[s] = "armPOut" => cur'[s] = d /\ pc'[s] = "armPOut"
      BY <1>1, <1>7
    <3>4. Reg(Up(d))' = Reg(Up(d)) /\ Traffic(Up(d))' = Traffic(Up(d)) /\ Loaded(d)' = Loaded(d)
      BY <3>1, <1>8, <1>9
    <3>5. QED
      BY <3>1, <3>2, <3>3, <3>4, <1>4
  <2>3. ASSUME NEW s \in Procs
        PROVE  /\ pc'[s] \in {"armPOut", "writeP"} => users'[cur'[s]].iov # <<>>
               /\ pc'[s] = "armPIn" => \/ net'[users'[cur'[s]].proxy].pending # <<>>
                                       \/ net'[users'[cur'[s]].proxy].inbox # <<>>
    <3>1. pc'[s] \in Holding =>
            /\ pc[s] = pc'[s] /\ cur[s] \in Fds /\ cur'[s] = cur[s]
            /\ users'[cur'[s]].iov = users[cur[s]].iov /\ users'[cur'[s]].proxy = Up(cur[s])
      BY <1>6, <1>12 DEF Up
    <3>2. pc'[s] \in Holding => Open(cur[s])
      BY <3>1, HandFact
    <3>3. pc'[s] \in Holding => Up(cur[s]) \in Fds /\ net'[Up(cur[s])] = net[Up(cur[s])]
      BY <3>1, <3>2, <1>5, <1>8
    <3>4. QED
      BY <2>1, <3>1, <3>3 DEF IInv, Filled, Loaded, Traffic
  <2>4. \A i \in DOMAIN queue' : queue'[i][2] = "writeP" => users'[queue'[i][1]].iov # <<>>
    <3>1. \A i \in DOMAIN queue : queue[i][1] \in Fds
      BY DEF IInv, Typed
    <3>2. QED
      BY <3>1, <1>4, <1>6 DEF IInv, Filled, Loaded
  <2>5. QED
    BY <2>2, <2>3, <2>4 DEF Filled, Loaded, Up, Traffic, Reg, Open, Stage
<1>18. QED
  BY <1>11, <1>13, <1>14, <1>15, <1>16, <1>17

(* A client and its connection to the upstream server get two descriptors  *)
(* that nobody knows of any more.                                          *)
LEMMA AcceptFact ==
  ASSUME IInv, ~Reuse, Accept
  PROVE  Own' /\ Wired' /\ Closing' /\ Placed' /\ Staged' /\ Filled'
<1> PICK c : c = Accepted
  OBVIOUS
<1> PICK p : p = Min(Free \ {Accepted})
  OBVIOUS
<1>1. c \in Free /\ p \in Free /\ p # c /\ c \in Fds /\ p \in Fds
  <2>1. Free \subseteq Fds /\ Free # {} /\ Cardinality(Free) > 1
    BY DEF Accept, Accepting, Free
  <2>2. c \in Free
    BY <2>1, MinFact DEF Accepted
  <2>3. Free # {c}
    BY <2>1, FS_Singleton
  <2>4. Free \ {c} # {} /\ Free \ {c} \subseteq Fds
    BY <2>1, <2>2, <2>3
  <2>5. p \in Free \ {c}
    BY <2>4, MinFact
  <2>6. QED
    BY <2>1, <2>2, <2>5
<1>2. /\ Kind(c) = "free" /\ Kind(p) = "free"
      /\ \A s \in Procs : pc[s] = "closeProxy" => cur[s] # c
      /\ AddClient(c, p)
      /\ UNCHANGED <<batch, queue, pc, cur>>
  BY <1>1 DEF Accept, Accepting, Free, Kind, threads
<1>3. /\ \A d \in Fds : Open(d) => d \notin {c, p} /\ Up(d) \in Fds /\ Up(d) \notin {c, p}
      /\ \A fd \in Fds : map[fd] # NoFd => fd \notin {c, p} /\ map[fd] \in Fds /\ map[fd] # c
  <2>1. \A d \in Fds : Open(d) => d \notin {c, p} /\ Up(d) \in Fds /\ Up(d) \notin {c, p}
    BY <1>2, WireFact
  <2>2. \A fd \in Fds : map[fd] # NoFd => map[fd] \in Fds /\ Open(map[fd]) /\ Up(map[fd]) = fd
    BY FieldFact DEF IInv, Wired
  <2>3. QED
    BY <2>1, <2>2
<1>4. ~Open(c) /\ map[p] = NoFd /\ ~Queued(c) /\ \A s \in Procs : ~Holds(s, c)
  BY <1>1, <1>3 DEF IInv, Own, Owned, Held
<1>5. /\ \A fd \in Fds \ {c, p} : net'[fd] = net[fd]
      /\ net'[c].kind = "client" /\ net'[c].interest = "in"
      /\ net'[p].kind = "upstream" /\ net'[p].interest = "in" /\ ~net'[p].hup
      /\ net'[p].pending = <<>> /\ net'[p].inbox = <<>>
  BY <1>1, <1>2 DEF AddClient, IInv, Typed, Unused
<1>6. /\ \A d \in Fds \ {c} : users'[d] = users[d]
      /\ ~users'[c].closed /\ users'[c].proxy = p /\ users'[c].stage = "client"
  <2>1. users[c] \in Conn /\ users' = [users EXCEPT ![c] = InitConn(users[c], p)]
    BY <1>1, <1>2, NumberFact DEF AddClient, IInv, Typed
  <2>2. users'[c] = InitConn(users[c], p)
    BY <1>1, <2>1, NumberFact DEF IInv, Typed
  <2>3. ~users'[c].closed /\ users'[c].proxy = p /\ users'[c].stage = "client"
    <3> PICK u : u = users[c]
      OBVIOUS
    <3> PICK v : v = [i \in DOMAIN u.iov |-> Junk]
      OBVIOUS
    <3>1. users'[c] = [u EXCEPT !.closed = FALSE, !.proxy = p, !.stage = "client",
                                !.readBuff = <<>>, !.writeBuff = <<>>, !.iov = v]
      BY <2>2 DEF InitConn
    <3>2. u \in Conn
      BY <2>1
    <3>3. QED
      BY <3>1, <3>2 DEF Conn
  <2>4. QED
    BY <2>1, <2>3
<1>7. map'[p] = c /\ \A fd \in Fds \ {p} : map'[fd] = map[fd]
  BY <1>1, <1>2, <1>4 DEF AddClient, IInv, Typed
<1>8. \A d \in Fds : Open(d) =>
        /\ Reg(d)' = Reg(d) /\ Reg(Up(d))' = Reg(Up(d)) /\ Traffic(Up(d))' = Traffic(Up(d))
        /\ Waiting(Up(d))' = Waiting(Up(d))
        /\ Armed(d)' = Armed(d) /\ Batched(d)' = Batched(d)
  <2> SUFFICES ASSUME NEW d \in Fds, Open(d)
               PROVE  /\ Reg(d)' = Reg(d) /\ Reg(Up(d))' = Reg(Up(d))
                      /\ Traffic(Up(d))' = Traffic(Up(d))
                      /\ Waiting(Up(d))' = Waiting(Up(d))
                      /\ Armed(d)' = Armed(d) /\ Batched(d)' = Batched(d)
    OBVIOUS
  <2>1. Up(d)' = Up(d) /\ Side(d)' = Side(d)
    BY <1>3, <1>6 DEF Up, Side, Stage
  <2>2. net'[d] = net[d] /\ net'[Up(d)] = net[Up(d)]
    BY <1>3, <1>5
  <2>3. /\ Reg(d)' = Reg(d) /\ Reg(Up(d))' = Reg(Up(d)) /\ Traffic(Up(d))' = Traffic(Up(d))
        /\ Waiting(Up(d))' = Waiting(Up(d))
    BY <2>1, <2>2 DEF Reg, Traffic, Waiting
  <2>4. Armed(d)' = Armed(d) /\ Batched(d)' = Batched(d)
    BY <2>1, <2>3, <1>2 DEF Armed, Batched
  <2>5. QED
    BY <2>3, <2>4
<1>9. /\ \A d \in Fds : /\ Open(d)' <=> Open(d) \/ d = c
                        /\ Queued(d)' = Queued(d)
      /\ \A d \in Fds : d # c => /\ Up(d)' = Up(d) /\ Side(d)' = Side(d)
                                 /\ Stage(d)' = Stage(d) /\ Loaded(d)' = Loaded(d)
  BY <1>2, <1>6 DEF Open, Up, Side, Stage, Loaded, Queued
<1>10. \A d \in Fds : Held(d)' = Held(d) /\ \A s \in Procs : Holds(s, d)' = Holds(s, d)
  BY <1>2 DEF Holds, Held
<1>11. Up(c)' = p /\ Side(c)' = c /\ Stage(c)' = "client" /\ Reg(c)' = "in" /\ Armed(c)'
  BY <1>5, <1>6 DEF Up, Side, Stage, Reg, Armed
<1>12. \A e \in batch : e[1] # NoFd => e[1] \in Fds /\ e[1] \notin {c, p}
  <2>1. \A e \in batch : e[1] # NoFd => \E d \in Fds : Open(d) /\ e[1] = Side(d)
    BY DEF IInv, Staged
  <2>2. \A d \in Fds : Open(d) => Side(d) \in Fds /\ Side(d) \notin {c, p}
    BY <1>3 DEF Side
  <2>3. QED
    BY <2>1, <2>2
<1>13. ~Batched(c)' /\ ~Queued(c)' /\ ~Held(c)' /\ ~Waiting(p)'
  <2>1. ~Batched(c)'
    BY <1>1, <1>2, <1>11, <1>12, NumberFact DEF Batched
  <2>2. ~Waiting(p)'
    BY <1>5 DEF Waiting
  <2>3. QED
    BY <2>1, <2>2, <1>1, <1>4, <1>9, <1>10 DEF Held
<1>14. Own'
  <2>1. Owned'
    BY <1>8, <1>9, <1>10, <1>11 DEF IInv, Own, Owned
  <2>2. Exclusive'
    BY <1>8, <1>9, <1>10, <1>13 DEF IInv, Own, Exclusive
  <2>3. Once'
    BY <1>2, <1>10 DEF IInv, Own, Once
  <2>4. QED
    BY <2>1, <2>2, <2>3 DEF Own
<1>15. \A s \in Procs : pc[s] \in Holding \cup {"closeProxy"} => cur[s] \in Fds /\ cur[s] # c
  BY <1>2, <1>4 DEF IInv, Placed, Holds
<1>16. Wired'
  <2>1. \A d \in Fds : Open(d)' =>
        /\ Up(d)' \in Fds /\ Kind(d)' = "client"
        /\ net'[Up(d)'].kind = "upstream"
    <3>1. \A d \in Fds : Open(d) => Kind(d) = "client" /\ Kind(Up(d)) = "upstream"
      BY WireFact
    <3>2. \A d \in Fds : Open(d) =>
            Up(d)' = Up(d) /\ net'[d] = net[d] /\ net'[Up(d)] = net[Up(d)]
      BY <1>3, <1>5, <1>9
    <3>3. \A d \in Fds : Open(d) => Up(d)' \in Fds /\ Kind(d)' = "client" /\ net'[Up(d)'].kind = "upstream"
      BY <3>1, <3>2, <1>3 DEF Kind
    <3>4. Up(c)' \in Fds /\ Kind(c)' = "client" /\ net'[Up(c)'].kind = "upstream"
      BY <1>1, <1>5, <1>11 DEF Kind
    <3>5. QED
      BY <3>3, <3>4, <1>9
  <2>2. \A d, e \in Fds : Open(d)' /\ Open(e)' /\ Up(d)' = Up(e)' => d = e
    BY <1>3, <1>9, <1>11 DEF IInv, Wired
  <2>3. \A fd \in Fds : Kind(fd)' = "client" => Open(fd)'
    BY <1>5, <1>9 DEF IInv, Wired, Kind
  <2>4. ASSUME NEW fd \in Fds, Kind(fd)' = "upstream"
        PROVE  /\ ~net'[fd].hup
               /\ \/ \E d \in Fds : Open(d)' /\ Up(d)' = fd
                  \/ \E s \in Procs : pc'[s] = "closeProxy" /\ users'[cur'[s]].proxy = fd
    <3>1. CASE fd = p
      BY <3>1, <1>1, <1>5, <1>9, <1>11
    <3>2. CASE fd # p
      <4>1. fd # c /\ Kind(fd) = "upstream" /\ net'[fd] = net[fd]
        BY <2>4, <3>2, <1>5 DEF Kind
      <4>2. \/ \E d \in Fds : Open(d) /\ Up(d) = fd
            \/ \E s \in Procs : pc[s] = "closeProxy" /\ Up(cur[s]) = fd
        BY <4>1 DEF IInv, Wired
      <4>3. \A d \in Fds : Open(d) => Open(d)' /\ Up(d)' = Up(d)
        BY <1>3, <1>9
      <4>4. \A s \in Procs : pc[s] = "closeProxy" => users'[cur'[s]].proxy = Up(cur[s])
        BY <1>2, <1>6, <1>15 DEF Up
      <4>5. QED
        BY <4>1, <4>2, <4>3, <4>4, <1>2 DEF IInv, Wired
    <3>3. QED
      BY <3>1, <3>2
  <2>5. \A fd \in Fds : Kind(fd)' \in {"free", "lost"} => Reg(fd)' = "none"
    <3>1. \A fd \in {c, p} : Kind(fd)' \notin {"free", "lost"}
      BY <1>5 DEF Kind
    <3>2. \A fd \in Fds \ {c, p} : Kind(fd)' = Kind(fd) /\ Reg(fd)' = Reg(fd)
      BY <1>5 DEF Kind, Reg
    <3>3. QED
      BY <3>1, <3>2 DEF IInv, Wired
  <2>6. \A fd \in Fds : map'[fd] # NoFd => ~users'[map'[fd]].closed /\ users'[map'[fd]].proxy = fd
    <3>1. \A fd \in Fds : map[fd] # NoFd => map[fd] \in Fds /\ Open(map[fd]) /\ Up(map[fd]) = fd
      BY FieldFact DEF IInv, Wired
    <3>2. map'[p] = c /\ ~users'[c].closed /\ users'[c].proxy = p
      BY <1>6, <1>7
    <3>3. \A fd \in Fds \ {p} : map'[fd] = map[fd]
      BY <1>7
    <3>4. \A d \in Fds \ {c} : users'[d] = users[d]
      BY <1>6
    <3>5. ASSUME NEW fd \in Fds, fd # p, map[fd] # NoFd
          PROVE  ~users'[map[fd]].closed /\ users'[map[fd]].proxy = fd
      <4>1. map[fd] \in Fds \ {c} /\ ~users[map[fd]].closed /\ users[map[fd]].proxy = fd
        BY <3>1, <3>5, <1>3 DEF Open, Up
      <4>2. QED
        BY <4>1, <3>4
    <3>6. QED
      BY <3>2, <3>3, <3>5
  <2>7. QED
    BY <2>1, <2>2, <2>3, <2>4, <2>5, <2>6 DEF Wired, Open, Up, Kind
<1>17. Closing'
  <2>1. \A d \in Fds : Open(d)' =>
          \/ map'[Up(d)'] = d /\ Reg(d)' # "none" /\ net'[Up(d)'].interest # "none"
          \/ \E s \in Procs : cur'[s] = d /\ pc'[s] = "close"
    <3>1. map'[p] = c /\ Reg(c)' # "none" /\ net'[p].interest # "none"
      BY <1>5, <1>7, <1>11
    <3>2. ASSUME NEW d \in Fds, Open(d), d # c
          PROVE  \/ map'[Up(d)'] = d /\ Reg(d)' # "none" /\ net'[Up(d)'].interest # "none"
                 \/ \E s \in Procs : cur'[s] = d /\ pc'[s] = "close"
      <4>1. \/ map[Up(d)] = d /\ Reg(d) # "none" /\ Reg(Up(d)) # "none"
            \/ \E s \in Procs : cur[s] = d /\ pc[s] = "close"
        BY <3>2 DEF IInv, Closing
      <4>2. Up(d)' = Up(d) /\ map'[Up(d)] = map[Up(d)] /\ net'[d] = net[d] /\ net'[Up(d)] = net[Up(d)]
        BY <3>2, <1>3, <1>5, <1>7, <1>9
      <4>3. QED
        BY <4>1, <4>2, <1>2 DEF Reg
    <3>3. QED
      BY <3>1, <3>2, <1>9, <1>11
  <2>2. ASSUME NEW s \in Procs, pc'[s] = "close"
        PROVE  /\ net'[cur'[s]].interest = "none" /\ net'[users'[cur'[s]].proxy].interest = "none"
               /\ map'[users'[cur'[s]].proxy] = NoFd
    <3>1. pc[s] = "close" /\ pc[s] \in Holding /\ cur'[s] = cur[s] /\ cur[s] \in Fds /\ cur[s] # c
      BY <2>2, <1>2, <1>15 DEF Holding, Labels
    <3>2. Open(cur[s])
      BY <3>1, HandFact
    <3>3. Reg(cur[s]) = "none" /\ Reg(Up(cur[s])) = "none" /\ map[Up(cur[s])] = NoFd
      BY <3>1 DEF IInv, Closing
    <3>4. /\ Up(cur[s]) \in Fds /\ Up(cur[s]) \notin {c, p} /\ cur[s] \notin {c, p}
          /\ users'[cur[s]].proxy = Up(cur[s])
      BY <3>1, <3>2, <1>3, <1>6 DEF Up
    <3>5. QED
      BY <3>1, <3>3, <3>4, <1>5, <1>7 DEF Reg
  <2>3. ASSUME NEW s \in Procs, pc'[s] = "closeProxy"
        PROVE  /\ users'[cur'[s]].closed
               /\ users'[cur'[s]].proxy \in Fds
               /\ net'[users'[cur'[s]].proxy].kind = "upstream"
               /\ net'[users'[cur'[s]].proxy].interest = "none"
               /\ \A d \in Fds : Open(d)' => Up(d)' # users'[cur'[s]].proxy
               /\ \A r \in Procs :
                    pc'[r] = "closeProxy" /\ users'[cur'[r]].proxy = users'[cur'[s]].proxy => r = s
    <3>1. \A r \in Procs : pc'[r] = "closeProxy" =>
            /\ pc[r] = "closeProxy" /\ cur'[r] = cur[r] /\ cur[r] \in Fds
            /\ users'[cur'[r]].proxy = Up(cur[r]) /\ users'[cur'[r]].closed = users[cur[r]].closed
      BY <1>2, <1>6, <1>15 DEF Up
    <3>2. /\ ~Open(cur[s]) /\ Up(cur[s]) \in Fds /\ Kind(Up(cur[s])) = "upstream"
          /\ Reg(Up(cur[s])) = "none"
          /\ \A d \in Fds : Open(d) => Up(d) # Up(cur[s])
          /\ \A r \in Procs : pc[r] = "closeProxy" /\ Up(cur[r]) = Up(cur[s]) => r = s
      BY <2>3, <3>1 DEF IInv, Closing
    <3>3. Up(cur[s]) \notin {c, p}
      BY <3>2, <1>2
    <3>4. users'[cur'[s]].closed
      BY <2>3, <3>1, <3>2 DEF Open
    <3>5. /\ users'[cur'[s]].proxy = Up(cur[s])
          /\ net'[Up(cur[s])].kind = "upstream" /\ net'[Up(cur[s])].interest = "none"
      BY <2>3, <3>1, <3>2, <3>3, <1>5 DEF Kind, Reg
    <3>6. \A d \in Fds : Open(d)' => Up(d)' # Up(cur[s])
      BY <3>2, <3>3, <1>9, <1>11
    <3>7. QED
      BY <3>1, <3>2, <3>4, <3>5, <3>6
  <2>4. QED
    BY <2>1, <2>2, <2>3 DEF Closing, Reg, Up, Kind, Open
<1>18. Placed'
  BY <1>2 DEF IInv, Placed
<1>19. Staged'
  <2>1. \A d \in Fds : Open(d)' => /\ Stage(d)' = "client" => ~Waiting(Up(d))'
                                   /\ Stage(d)' = "upstream" => Reg(d)' \notin {"in", "out"}
    <3>1. Stage(c)' = "client" /\ ~Waiting(Up(c))'
      BY <1>11, <1>13 DEF Waiting
    <3>2. QED
      BY <3>1, <1>8, <1>9 DEF IInv, Staged
  <2>2. ASSUME NEW e \in batch', e[1] # NoFd
        PROVE  /\ \E d \in Fds : Open(d)' /\ e[1] = Side(d)'
               /\ e[2] = "disconnect" => net'[e[1]].kind = "client"
    <3>1. e \in batch /\ e[1] \in Fds /\ e[1] \notin {c, p}
      BY <2>2, <1>2, <1>12
    <3>2. PICK d \in Fds : Open(d) /\ e[1] = Side(d)
      BY <2>2, <3>1 DEF IInv, Staged
    <3>3. d # c
      BY <3>2, <1>4
    <3>4. e[2] = "disconnect" => net[e[1]].kind = "client"
      BY <2>2, <3>1 DEF IInv, Staged, Kind
    <3>5. QED
      BY <3>1, <3>2, <3>3, <3>4, <1>5, <1>9
  <2>3. \A i \in DOMAIN queue' :
          queue'[i][2] \in {"readC", "writeC"} <=> users'[queue'[i][1]].stage = "client"
    <3>1. \A i \in DOMAIN queue : queue[i][1] \in Fds /\ queue[i][1] # c
      BY <1>4 DEF IInv, Typed, Queued
    <3>2. QED
      BY <3>1, <1>2, <1>6 DEF IInv, Staged, Stage
  <2>4. \A s \in Procs :
          /\ pc'[s] \in {"readC", "writeC", "armCIn", "armCOut"} => users'[cur'[s]].stage = "client"
          /\ pc'[s] \in {"readP", "writeP", "armPIn", "armPOut"} => users'[cur'[s]].stage = "upstream"
    <3>1. {"readC", "writeC", "armCIn", "armCOut", "readP", "writeP", "armPIn", "armPOut"}
            \subseteq Holding
      BY DEF Holding, Labels, Ops
    <3>2. QED
      BY <3>1, <1>2, <1>6, <1>15 DEF IInv, Staged, Stage
  <2>5. QED
    BY <2>1, <2>2, <2>3, <2>4 DEF Staged, Stage, Kind
<1>20. Filled'
  <2>1. {"armPOut", "writeP", "armPIn"} \subseteq Holding
    BY DEF Holding, Labels, Ops
  <2>2. ASSUME NEW d \in Fds, Open(d)', Stage(d)' = "upstream"
        PROVE  /\ Reg(Up(d))' = "out" \/ <<Up(d)', "write">> \in batch' => Loaded(d)'
               /\ Reg(Up(d))' = "in" => \/ Traffic(Up(d))'
                                        \/ \E s \in Procs : cur'[s] = d /\ pc'[s] = "armPOut"
    <3>1. d # c /\ Open(d) /\ Stage(d) = "upstream" /\ Up(d)' = Up(d) /\ Loaded(d)' = Loaded(d)
      BY <2>2, <1>9, <1>11
    <3>2. /\ Reg(Up(d)) = "out" \/ <<Up(d), "write">> \in batch => Loaded(d)
          /\ Reg(Up(d)) = "in" => \/ Traffic(Up(d))
                                  \/ \E s \in Procs : cur[s] = d /\ pc[s] = "armPOut"
      BY <3>1 DEF IInv, Filled
    <3>3. Reg(Up(d))' = Reg(Up(d)) /\ Traffic(Up(d))' = Traffic(Up(d))
      BY <3>1, <1>8
    <3>4. QED
      BY <3>1, <3>2, <3>3, <1>2
  <2>3. ASSUME NEW s \in Procs
        PROVE  /\ pc'[s] \in {"armPOut", "writeP"} => users'[cur'[s]].iov # <<>>
               /\ pc'[s] = "armPIn" => \/ net'[users'[cur'[s]].proxy].pending # <<>>
                                       \/ net'[users'[cur'[s]].proxy].inbox # <<>>
    <3>1. pc'[s] \in Holding =>
            /\ pc[s] = pc'[s] /\ cur[s] \in Fds /\ cur'[s] = cur[s]
            /\ users'[cur'[s]].iov = users[cur[s]].iov /\ users'[cur'[s]].proxy = Up(cur[s])
      BY <1>2, <1>6, <1>15 DEF Up
    <3>2. pc'[s] \in Holding => Open(cur[s])
      BY <3>1, HandFact
    <3>3. pc'[s] \in Holding => Up(cur[s]) \in Fds /\ net'[Up(cur[s])] = net[Up(cur[s])]
      BY <3>1, <3>2, <1>3, <1>5
    <3>4. QED
      BY <2>1, <3>1, <3>3 DEF IInv, Filled, Loaded, Traffic
  <2>4. \A i \in DOMAIN queue' : queue'[i][2] = "writeP" => users'[queue'[i][1]].iov # <<>>
    <3>1. \A i \in DOMAIN queue : queue[i][1] \in Fds /\ queue[i][1] # c
      BY <1>4 DEF IInv, Typed, Queued
    <3>2. QED
      BY <3>1, <1>2, <1>6 DEF IInv, Filled, Loaded
  <2>5. QED
    BY <2>2, <2>3, <2>4 DEF Filled, Loaded, Up, Traffic, Reg, Open, Stage
<1>21. QED
  BY <1>14, <1>16, <1>17, <1>18, <1>19, <1>20

(* The other ends close no upstream connection, and what an upstream       *)
(* server has to answer stays on its way until the answer is read.         *)
LEMMA OutsideFact ==
  ASSUME IInv, Outside, drops' = 0, drops \in Nat
  PROVE  Own' /\ Wired' /\ Closing' /\ Placed' /\ Staged' /\ Filled'
<1> USE DEF listener, outside, threads
<1>1. CASE Connect
  BY <1>1, AsideFact DEF Connect, Reg, Kind, Traffic
<1>2. ASSUME NEW fd \in Fds, NEW n \in Sock, Peer(fd, n),
             n.kind = net[fd].kind, n.interest = net[fd].interest,
             Kind(fd) = "upstream" =>
               /\ n.hup = net[fd].hup
               /\ n.pending # <<>> \/ n.inbox # <<>> <=> Traffic(fd)
      PROVE  Own' /\ Wired' /\ Closing' /\ Placed' /\ Staged' /\ Filled'
  <2>1. UNCHANGED <<users, map, queue, cur, batch, pc>> /\ net' = [net EXCEPT ![fd] = n]
    BY <1>2 DEF Peer
  <2>2. net'[fd] = n /\ \A f \in Fds \ {fd} : net'[f] = net[f]
    BY <2>1 DEF IInv, Typed
  <2>3. \A f \in Fds :
          /\ Reg(f)' = Reg(f) /\ Kind(f)' = Kind(f)
          /\ Kind(f) = "upstream" => net'[f].hup = net[f].hup /\ Traffic(f)' = Traffic(f)
    BY <2>2, <1>2 DEF Reg, Kind, Traffic
  <2>4. QED
    BY <2>1, <2>3, AsideFact
<1>3. ASSUME NEW fd \in Fds, Send(fd) \/ HangUp(fd) \/ Drain(fd) \/ Answer(fd) \/ Drop(fd)
      PROVE  Own' /\ Wired' /\ Closing' /\ Placed' /\ Staged' /\ Filled'
  <2> PICK n : n = net[fd]
    OBVIOUS
  <2>1. n \in Sock
    BY DEF IInv, Typed
  <2>2. CASE Send(fd)
    <3>1. Append(n.inbox, n.ask) \in Seq(Msg) /\ n.sent + 1 \in Nat /\ n.kind = "client"
      BY <2>1, <2>2 DEF Sock, Send
    <3> PICK m : m = [n EXCEPT !.sent = n.sent + 1, !.inbox = Append(n.inbox, n.ask)]
      OBVIOUS
    <3>2. Peer(fd, m)
      BY <2>2 DEF Send
    <3>3. m \in Sock /\ m.kind = n.kind /\ m.interest = n.interest
      BY <2>1, <3>1 DEF Sock
    <3>4. Kind(fd) # "upstream"
      BY <3>1 DEF Kind
    <3>5. QED
      BY <3>2, <3>3, <3>4, <1>2
  <2>3. CASE HangUp(fd)
    <3> PICK m : m = [n EXCEPT !.hup = TRUE]
      OBVIOUS
    <3>1. Peer(fd, m) /\ n.kind = "client"
      BY <2>3 DEF HangUp
    <3>2. m \in Sock /\ m.kind = n.kind /\ m.interest = n.interest
      BY <2>1 DEF Sock
    <3>3. Kind(fd) # "upstream"
      BY <3>1 DEF Kind
    <3>4. QED
      BY <3>1, <3>2, <3>3, <1>2
  <2>4. CASE Drain(fd)
    <3> PICK m : m = [n EXCEPT !.full = FALSE]
      OBVIOUS
    <3>1. Peer(fd, m)
      BY <2>4 DEF Drain
    <3>2. /\ m \in Sock /\ m.kind = n.kind /\ m.interest = n.interest
          /\ m.hup = n.hup /\ m.pending = n.pending /\ m.inbox = n.inbox
      BY <2>1 DEF Sock
    <3>3. m.pending # <<>> \/ m.inbox # <<>> <=> Traffic(fd)
      BY <3>2 DEF Traffic
    <3>4. QED
      BY <3>1, <3>2, <3>3, <1>2
  <2>5. CASE Answer(fd)
    <3>1. n.pending # <<>> /\ n.pending \in Seq(Msg) /\ n.inbox \in Seq(Msg)
      BY <2>1, <2>5 DEF Sock, Answer
    <3> PICK rest : rest = Tail(n.pending)
      OBVIOUS
    <3> PICK more : more = Append(n.inbox, Head(n.pending))
      OBVIOUS
    <3>2. rest \in Seq(Msg) /\ more \in Seq(Msg) /\ more # <<>>
      BY <3>1
    <3> PICK m : m = [n EXCEPT !.pending = rest, !.inbox = more]
      OBVIOUS
    <3>3. Peer(fd, m)
      BY <2>5 DEF Answer
    <3>4. /\ m \in Sock /\ m.kind = n.kind /\ m.interest = n.interest
          /\ m.hup = n.hup /\ m.inbox = more
      BY <2>1, <3>2 DEF Sock
    <3>5. Traffic(fd)
      BY <3>1 DEF Traffic
    <3>6. QED
      BY <3>2, <3>3, <3>4, <3>5, <1>2
  <2>6. CASE Drop(fd)
    <3>1. drops' = drops + 1
      BY <2>6 DEF Drop
    <3>2. QED
      BY <3>1
  <2>7. QED
    BY <1>3, <2>2, <2>3, <2>4, <2>5, <2>6
<1>4. QED
  BY <1>1, <1>3 DEF Outside

(* The reactor's steps.                                                    *)
LEMMA MainFact ==
  ASSUME IInv, ~Reuse, MainStep
  PROVE  Own' /\ Wired' /\ Closing' /\ Placed' /\ Staged' /\ Filled'
<1> USE NumberFact DEF listener, outside, threads
<1>1. pc[Main] \in Places /\ pc[Main] \notin {"reconnect", "stuck"}
  BY DEF IInv, Typed, Places
<1>2. CASE Wait
  BY <1>2, WaitFact
<1>3. ASSUME NEW fd \in Fds \cup {NoFd},
             NEW kind \in {"listen", "disconnect", "read", "write"}, Dispatch(fd, kind)
      PROVE  Own' /\ Wired' /\ Closing' /\ Placed' /\ Staged' /\ Filled'
  BY <1>3, DispatchFact
<1>4. CASE BatchDone \/ AcceptBusy \/ AcceptFails
  <2>1. UNCHANGED <<net, users, map, queue, cur, batch>>
    BY <1>4 DEF BatchDone, AcceptBusy, AcceptFails
  <2>2. \E l \in {"top", "dispatch", "accept"} :
          /\ pc' = [pc EXCEPT ![Main] = l] /\ pc[Main] \in {"top", "dispatch", "accept"}
          /\ l = "top" => batch' = {}
    BY <1>4 DEF BatchDone, AcceptBusy, AcceptFails, Accepting, Goto
  <2>3. \A f \in Fds : Reg(f)' = Reg(f) /\ Kind(f)' = Kind(f) /\ net'[f].hup = net[f].hup
                       /\ Traffic(f)' = Traffic(f)
    BY <2>1 DEF Reg, Kind, Traffic
  <2>4. QED
    BY <2>1, <2>2, <2>3, AsideFact
<1>5. CASE Accept
  BY <1>5, AcceptFact
<1>6. CASE AcceptUnreachable
  <2>1. UNCHANGED <<users, map, queue, cur, batch, pc>>
    BY <1>6 DEF AcceptUnreachable
  <2>2. Accepted \in Free /\ (Cardinality(Free) > 1 => Min(Free \ {Accepted}) \in Free)
    <3>1. Free \subseteq Fds /\ Free # {}
      BY <1>6 DEF AcceptUnreachable, Accepting, Free
    <3>2. Accepted \in Free
      BY <3>1, MinFact DEF Accepted
    <3>3. Cardinality(Free) > 1 => Free # {Accepted}
      BY FS_Singleton
    <3>4. Cardinality(Free) > 1 => Free \ {Accepted} # {} /\ Free \ {Accepted} \subseteq Fds
      BY <3>1, <3>2, <3>3
    <3>5. Cardinality(Free) > 1 => Min(Free \ {Accepted}) \in Free \ {Accepted}
      BY <3>4, MinFact
    <3>6. QED
      BY <3>2, <3>5
  <2>3. \A f \in Fds : net'[f] = net[f] \/ (f \in Free /\ net'[f] = Lost)
    BY <2>2, <1>6 DEF AcceptUnreachable, IInv, Typed
  <2>4. \A f \in Free : Kind(f) = "free" /\ Reg(f) = "none"
    BY DEF Free, Kind, IInv, Wired
  <2>5. Lost.kind = "lost" /\ Lost.interest = "none"
    BY DEF Lost, Unused
  <2>6. \A f \in Fds : /\ Reg(f)' = Reg(f)
                       /\ \/ Kind(f)' = Kind(f)
                          \/ Kind(f) \in {"free", "lost"} /\ Kind(f)' \in {"free", "lost"}
                       /\ Kind(f) = "upstream" =>
                            net'[f].hup = net[f].hup /\ Traffic(f)' = Traffic(f)
    BY <2>3, <2>4, <2>5 DEF Reg, Kind, Traffic
  <2>7. QED
    BY <2>1, <2>6, AsideFact
<1>7. CASE Reconnect \/ ReconnectFails
  BY <1>1, <1>7 DEF Reconnect, ReconnectFails
<1>8. CASE CloseConn(Main)
  BY <1>8, UnregisterFact, CloseClientFact, CloseProxyFact DEF CloseConn
<1>9. QED
  BY <1>2, <1>3, <1>4, <1>5, <1>6, <1>7, <1>8 DEF MainStep

(* A worker's steps.                                                       *)
LEMMA WorkerFact ==
  ASSUME IInv, NEW w \in Workers, WorkerStep(w)
  PROVE  Own' /\ Wired' /\ Closing' /\ Placed' /\ Staged' /\ Filled'
<1>1. w \in Procs
  BY NumberFact
<1>2. CASE CloseConn(w)
  BY <1>1, <1>2, UnregisterFact, CloseClientFact, CloseProxyFact DEF CloseConn
<1>3. CASE ~CloseConn(w)
  BY <1>3, TakeFact, ReadFact, RequestFact, AnswerFact, WriteAllFact, BlocksFact, FailsFact,
     ModFdFact DEF WorkerStep
<1>4. QED
  BY <1>2, <1>3

----------------------------------------------------------------------------
(***************************************************************************)
(* The theorems                                                            *)
(***************************************************************************)

(* At first there is no user, and nobody waits for one.                    *)
LEMMA InitFact == ASSUME Init PROVE IInv
<1> USE DEF Init
<1>1. Typed
  <2>1. \A c \in 0 .. MaxFd : users[c] \in Conn
    BY DEF Conn
  <2>2. Unused \in Sock
    BY DEF Unused, Junk, Msg, Sock
  <2>3. "top" \in Places /\ "idle" \in Places
    BY DEF Places, Labels
  <2>4. net \in [Fds -> Sock] /\ users \in [0 .. MaxFd -> Conn]
    BY <2>1, <2>2
  <2>5. map \in [Fds -> Fds \cup {NoFd}] /\ cur \in [Procs -> Fds \cup {NoFd}]
    OBVIOUS
  <2>6. pc \in [Procs -> Places]
    BY <2>3
  <2>7. batch = {} /\ queue = <<>> /\ retry = 0 /\ load \in Loads
    OBVIOUS
  <2>8. backlog \in Int /\ conns \in Int /\ queue \in Seq(Fds \X Ops)
    BY <2>7
  <2>9. QED
    BY <2>4, <2>5, <2>6, <2>7, <2>8 DEF Typed
<1>2. /\ \A c \in Fds : ~Open(c) /\ ~Queued(c) /\ Kind(c) = "free" /\ Reg(c) = "none"
                        /\ map[c] = NoFd
      /\ \A t \in Procs : pc[t] \notin Holding \cup {"closeProxy"}
  BY NumberFact DEF Open, Queued, Kind, Reg, Unused, Holding
<1>3. \A c \in Fds, t \in Procs : ~Holds(t, c)
  BY <1>2 DEF Holds
<1>4. Own
  BY <1>2, <1>3 DEF Own, Owned, Exclusive, Once, Held
<1>5. Wired /\ Closing /\ Placed
  <2>1. \A t \in Procs : pc[t] # "close"
    BY <1>2 DEF Holding, Labels
  <2>2. QED
    BY <1>2, <2>1 DEF Wired, Closing, Placed
<1>6. Staged /\ Filled
  <2>1. {"readC", "writeC", "armCIn", "armCOut", "readP", "writeP", "armPIn", "armPOut"}
          \subseteq Holding
    BY DEF Holding, Labels, Ops
  <2>2. QED
    BY <1>2, <2>1 DEF Staged, Filled
<1>7. QED
  BY <1>1, <1>4, <1>5, <1>6 DEF IInv

(* No connection to the upstream server is given back once it is dropped.  *)
LEMMA DropsFact ==
  ASSUME drops \in Nat, [Next]_vars
  PROVE  drops' \in Nat /\ (drops' = 0 => drops = 0)
<1> USE DEF listener, outside, threads
<1>1. CASE MainStep
  BY <1>1 DEF MainStep, Wait, Dispatch, BatchDone, Accept, AcceptUnreachable, AcceptBusy,
     AcceptFails, Reconnect, ReconnectFails, CloseConn, Unregister, CloseClient, CloseProxy
<1>2. ASSUME NEW w \in Workers, WorkerStep(w) PROVE drops' = drops
  BY <1>2 DEF WorkerStep, Take, Read, ProcessRequest, ProcessAnswer, WriteAll, WriteBlocks,
     WriteFails, ModFd, CloseConn, Unregister, CloseClient, CloseProxy
<1>3. CASE Outside
  <2>1. ASSUME NEW fd \in Fds, Drop(fd) PROVE drops' = drops + 1
    BY <2>1 DEF Drop
  <2>2. ASSUME NEW fd \in Fds, Send(fd) \/ HangUp(fd) \/ Drain(fd) \/ Answer(fd)
        PROVE  drops' = drops
    BY <2>2 DEF Send, HangUp, Drain, Answer
  <2>3. Connect => drops' = drops
    BY DEF Connect
  <2>4. drops' = drops \/ drops' = drops + 1
    BY <2>1, <2>2, <2>3, <1>3 DEF Outside
  <2>5. QED
    BY <2>4
<1>4. CASE UNCHANGED vars
  BY <1>4 DEF vars
<1>5. QED
  BY <1>1, <1>2, <1>3, <1>4 DEF Next

(* A step of the system keeps the invariant.                               *)
LEMMA StepFact ==
  ASSUME IInv, ~Reuse, drops \in Nat, drops' = 0, [Next]_vars
  PROVE  IInv'
<1>1. CASE MainStep
  BY <1>1, MainTypeFact, MainFact DEF IInv
<1>2. ASSUME NEW w \in Workers, WorkerStep(w) PROVE IInv'
  BY <1>2, WorkerTypeFact, WorkerFact DEF IInv
<1>3. CASE Outside
  BY <1>3, OutsideTypeFact, OutsideFact DEF IInv
<1>4. CASE UNCHANGED vars
  <2>1. UNCHANGED <<net, users, map, queue, cur, batch, pc, backlog, conns, retry, load>>
    BY <1>4 DEF vars, listener, outside, threads
  <2>2. Typed'
    BY <2>1 DEF IInv, Typed
  <2>3. \A f \in Fds : Reg(f)' = Reg(f) /\ Kind(f)' = Kind(f) /\ net'[f].hup = net[f].hup
                       /\ Traffic(f)' = Traffic(f)
    BY <2>1 DEF Reg, Kind, Traffic
  <2>4. QED
    BY <2>1, <2>2, <2>3, AsideFact DEF IInv
<1>5. QED
  BY <1>1, <1>2, <1>3, <1>4 DEF Next

(* While no upstream connection has been dropped, and without Reuse, the   *)
(* invariant holds.                                                        *)
THEOREM ProxyInvariant == Spec => [](drops \in Nat /\ Quiet)
<1>1. Init => drops \in Nat /\ Quiet
  <2>1. Init => drops = 0
    BY DEF Init
  <2>2. QED
    BY <2>1, InitFact DEF Quiet
<1>2. (drops \in Nat /\ Quiet) /\ [Next]_vars => (drops \in Nat /\ Quiet)'
  BY DropsFact, StepFact DEF Quiet
<1>3. QED
  BY <1>1, <1>2, PTL DEF Spec

(* The four places, counted.                                               *)
LEMMA HoldersFact ==
  ASSUME IInv, NEW c \in Fds, Open(c)
  PROVE  Cardinality(Holders(c)) = 1
<1> DEFINE F == {f \in {c} : net[f].interest \in {"in", "out"}} \cup {f \in {Up(c)} : Waiting(f)}
           S == {x \in batch : x[1] \in {c, Up(c)}}
           I == {j \in DOMAIN queue : queue[j][1] = c}
           P == {q \in Procs : cur[q] = c /\ pc[q] \in Holding}
           E == {<<"epoll", fd>> : fd \in F}
           B == {<<"batch", e>> : e \in S}
           Q == {<<"queue", i>> : i \in I}
           T == {<<"thread", t>> : t \in P}
<1>1. Holders(c) = E \cup B \cup Q \cup T
  BY DEF Holders, Up
<1>2. (Armed(c) => \E f : F = {f}) /\ (~Armed(c) => F = {})
  <2>1. Stage(c) \in {"client", "upstream"}
    BY FieldFact
  <2>2. /\ Stage(c) = "client" => ~Waiting(Up(c))
        /\ Stage(c) = "upstream" => Reg(c) \notin {"in", "out"}
    BY DEF IInv, Staged
  <2>3. Armed(c) <=> Reg(c) \in {"in", "out"} \/ Waiting(Up(c))
    BY DEF Armed
  <2>4. Reg(c) = net[c].interest
    BY DEF Reg
  <2>5. F = (IF Reg(c) \in {"in", "out"} THEN {c} ELSE {}) \cup (IF Waiting(Up(c)) THEN {Up(c)} ELSE {})
    BY <2>4
  <2> HIDE DEF F
  <2>6. QED
    BY <2>1, <2>2, <2>3, <2>5
<1>3. (Batched(c) => \E e : S = {e}) /\ (~Batched(c) => S = {})
  <2>1. \A x \in batch : x[1] \in {c, Up(c)} <=> x[1] = Side(c)
    <3> SUFFICES ASSUME NEW x \in batch PROVE x[1] \in {c, Up(c)} <=> x[1] = Side(c)
      OBVIOUS
    <3>1. ASSUME x[1] \in {c, Up(c)} PROVE x[1] = Side(c)
      <4>1. x[1] # NoFd
        BY <3>1, WireFact, NumberFact
      <4>2. PICK d \in Fds : Open(d) /\ x[1] = Side(d)
        BY <4>1 DEF IInv, Staged
      <4>3. Side(d) \in {d, Up(d)} /\ Up(d) # c /\ Up(c) # d /\ (Up(c) = Up(d) => c = d)
        BY <4>2, WireFact
      <4>4. QED
        BY <3>1, <4>2, <4>3
    <3>2. Side(c) \in {c, Up(c)}
      BY WireFact
    <3>3. QED
      BY <3>1, <3>2
  <2>2. S = {x \in batch : x[1] = Side(c)}
    BY <2>1
  <2> HIDE DEF S
  <2>3. \A e, f \in batch : e[1] = f[1] => e = f
    BY DEF IInv, Own, Once
  <2>4. ASSUME Batched(c) PROVE \E e : S = {e}
    <3>1. PICK e \in batch : e[1] = Side(c)
      BY <2>4 DEF Batched
    <3>2. S = {e}
      BY <2>2, <2>3, <3>1
    <3>3. QED
      BY <3>2
  <2>5. ~Batched(c) => S = {}
    BY <2>2 DEF Batched
  <2>6. QED
    BY <2>4, <2>5
<1>4. (Queued(c) => \E i : I = {i}) /\ (~Queued(c) => I = {})
  BY DEF Queued, IInv, Own, Once
<1>5. (Held(c) => \E t : P = {t}) /\ (~Held(c) => P = {})
  <2>1. P = {q \in Procs : Holds(q, c)}
    BY DEF Holds
  <2> HIDE DEF P
  <2>2. \A s, t \in Procs : Holds(s, c) /\ Holds(t, c) => s = t
    BY DEF IInv, Own, Once
  <2>3. QED
    BY <2>1, <2>2 DEF Held
<1> HIDE DEF F, S, I, P
<1>6. /\ \A f : F = {f} => E = {<<"epoll", f>>}
      /\ \A e : S = {e} => B = {<<"batch", e>>}
      /\ \A i : I = {i} => Q = {<<"queue", i>>}
      /\ \A t : P = {t} => T = {<<"thread", t>>}
      /\ F = {} => E = {}
      /\ S = {} => B = {}
      /\ I = {} => Q = {}
      /\ P = {} => T = {}
  OBVIOUS
<1> HIDE DEF E, B, Q, T
<1>7. /\ Armed(c) => ~Batched(c) /\ ~Queued(c) /\ ~Held(c)
      /\ Batched(c) => ~Queued(c) /\ ~Held(c)
      /\ Queued(c) => ~Held(c)
      /\ Armed(c) \/ Batched(c) \/ Queued(c) \/ Held(c)
  BY DEF IInv, Own, Owned, Exclusive
<1>8. \E h : Holders(c) = {h}
  <2>1. CASE Armed(c)
    <3>1. (\E h : E = {h}) /\ B = {} /\ Q = {} /\ T = {}
      BY <2>1, <1>2, <1>3, <1>4, <1>5, <1>6, <1>7
    <3>2. QED
      BY <3>1, <1>1
  <2>2. CASE Batched(c)
    <3>1. E = {} /\ (\E h : B = {h}) /\ Q = {} /\ T = {}
      BY <2>2, <1>2, <1>3, <1>4, <1>5, <1>6, <1>7
    <3>2. QED
      BY <3>1, <1>1
  <2>3. CASE Queued(c)
    <3>1. E = {} /\ B = {} /\ (\E h : Q = {h}) /\ T = {}
      BY <2>3, <1>2, <1>3, <1>4, <1>5, <1>6, <1>7
    <3>2. QED
      BY <3>1, <1>1
  <2>4. CASE Held(c)
    <3>1. E = {} /\ B = {} /\ Q = {} /\ (\E h : T = {h})
      BY <2>4, <1>2, <1>3, <1>4, <1>5, <1>6, <1>7
    <3>2. QED
      BY <3>1, <1>1
  <2>5. QED
    BY <2>1, <2>2, <2>3, <2>4, <1>7
<1>9. QED
  BY <1>8, FS_Singleton

(* As long as the upstream server closes no connection a user is always in *)
(* exactly one place, with one of its two descriptors armed or none        *)
(* (EPOLLONESHOT and ModFd, http_server.cpp:181-361), if accept() gives    *)
(* out no number whose last HttpConn is still in Close.                    *)
THEOREM OneHolderOfEach == Spec => [](~Reuse => OneHolder)
<1>1. drops \in Nat /\ Quiet => (~Reuse => OneHolder)
  BY HoldersFact DEF Quiet, OneHolder, Open
<1>2. QED
  BY <1>1, ProxyInvariant, PTL

(* Until then a user's two descriptors are opened and closed together, and *)
(* belong to nobody else (http_server.cpp:181-216 and 263-272,             *)
(* http_conn.cpp:93-106).                                                  *)
THEOREM UsersArePaired == Spec => [](~Reuse /\ drops = 0 => Paired)
<1>1. Quiet => (~Reuse /\ drops = 0 => Paired)
  <2> SUFFICES ASSUME IInv PROVE Paired
    BY DEF Quiet
  <2>1. ASSUME NEW c \in Fds, Open(c)
        PROVE  /\ Up(c) \in Fds
               /\ Kind(c) = "client" /\ Kind(Up(c)) = "upstream"
               /\ map[Up(c)] = c \/ \E t \in Procs : cur[t] = c /\ pc[t] = "close"
    BY <2>1 DEF IInv, Wired, Closing
  <2>2. ASSUME NEW fd \in Fds
        PROVE  /\ Kind(fd) = "client" => Open(fd)
               /\ Kind(fd) = "upstream" =>
                    \/ \E c \in Fds : Open(c) /\ Up(c) = fd
                    \/ \E t \in Procs : pc[t] = "closeProxy" /\ Up(cur[t]) = fd
    BY DEF IInv, Wired
  <2>3. QED
    BY <2>1, <2>2 DEF Paired, Open, Up, Kind
<1>2. QED
  BY <1>1, ProxyInvariant, PTL

----------------------------------------------------------------------------
(***************************************************************************)
(* Messages                                                                *)
(***************************************************************************)

(* The messages of a load: l is the load, u a user, s its client's socket  *)
(* and p its upstream descriptor's.                                        *)
Known(l) == {Junk} \cup (1 .. l.conns) \X (1 .. l.asked + 1)
SocketFits(l, s) ==
  /\ s.inbox \in Seq(Known(l)) /\ s.pending \in Seq(Known(l))
  /\ s.ask \in Known(l) /\ s.sent \in 0 .. l.parts
UserFits(l, u) ==
  /\ u.readBuff \in Seq(Known(l)) /\ u.writeBuff \in Seq(Known(l))
  /\ u.iov \in Seq(Known(l)) /\ Len(u.iov) <= 1
  /\ u.parsed \in 0 .. l.parts

(* A client asks, and is not asked.                                        *)
Asking(l, s) ==
  /\ s.ask \in (1 .. l.conns) \X (1 .. l.asked + 1)
  /\ s.pending = <<>>
  /\ s.sent > 0 => s.ask[2] <= l.asked

(* All of a request has been read, and one of these four holds it, or what *)
(* has been made of it.                                                    *)
Whole(l, u, s) == s.inbox = <<>> /\ s.sent = l.parts /\ u.parsed = l.parts
Only(m, x, a, b, c) == x = <<m>> /\ a = <<>> /\ b = <<>> /\ c = <<>>

(* Where the request of a user is: in part with the client still;          *)
Copies(q, m) == \A i \in DOMAIN q : q[i] = m
Had(l, u) == IF u.parsed = l.parts THEN 0 ELSE u.parsed
Collects(l, u, s, p) ==
  /\ u.stage = "client" /\ u.writeBuff = <<>> /\ p.pending = <<>> /\ p.inbox = <<>>
  /\ Copies(u.iov, Junk) /\ Copies(u.readBuff, s.ask) /\ Copies(s.inbox, s.ask)
  /\ s.sent = Had(l, u) + Len(u.readBuff) + Len(s.inbox)

(* about to be written to the upstream server; there; answered; read from  *)
(* there;                                                                  *)
Forwards(l, u, s, p) ==
  /\ Whole(l, u, s) /\ u.stage = "upstream" /\ u.iov = u.writeBuff
  /\ Only(s.ask, u.writeBuff, p.pending, p.inbox, u.readBuff)
Awaits(l, u, s, p) ==
  /\ Whole(l, u, s) /\ u.stage = "upstream" /\ u.iov = u.writeBuff
  /\ Only(s.ask, p.pending, u.writeBuff, p.inbox, u.readBuff)
Receives(l, u, s, p) ==
  /\ Whole(l, u, s) /\ u.stage = "upstream" /\ u.iov = u.writeBuff
  /\ Only(s.ask, p.inbox, u.writeBuff, p.pending, u.readBuff)
Converts(l, u, s, p) ==
  /\ Whole(l, u, s) /\ u.stage = "upstream" /\ u.iov = u.writeBuff
  /\ Only(s.ask, u.readBuff, u.writeBuff, p.pending, p.inbox)

(* about to be written to the client.                                      *)
Returns(l, u, s, p) ==
  /\ Whole(l, u, s) /\ u.stage = "client" /\ u.iov = u.writeBuff
  /\ Only(s.ask, u.writeBuff, u.readBuff, p.pending, p.inbox)

Carries(l, u, s, p) ==
  \/ Collects(l, u, s, p) \/ Forwards(l, u, s, p) \/ Awaits(l, u, s, p)
  \/ Receives(l, u, s, p) \/ Converts(l, u, s, p) \/ Returns(l, u, s, p)

(* Who is sent to read for user c, or is sent there next: from the client, *)
(* from the upstream server; and who has read.                             *)
ToClient(c) ==
  \/ Reg(c) = "in" \/ <<c, "read">> \in batch
  \/ \E i \in DOMAIN queue : queue[i] = <<c, "readC">>
  \/ \E t \in Procs : cur[t] = c /\ pc[t] \in {"readC", "armCIn", "process"}
ToServer(c) ==
  \/ <<Up(c), "read">> \in batch
  \/ \E i \in DOMAIN queue : queue[i] = <<c, "readP">>
  \/ \E t \in Procs : cur[t] = c /\ pc[t] = "readP"
HasRead(c) == \E t \in Procs : cur[t] = c /\ pc[t] = "process"

(* Whoever is sent to read finds what there is to be read, and Close has   *)
(* initialised the parser when a number is given out again.                *)
Serves(c) ==
  /\ Carries(load, users[c], net[c], net[Up(c)])
  /\ Stage(c) = "client" /\ ToClient(c) => Collects(load, users[c], net[c], net[Up(c)])
  /\ Stage(c) = "upstream" =>
       /\ ToServer(c) => Receives(load, users[c], net[c], net[Up(c)])
       /\ HasRead(c) => Converts(load, users[c], net[c], net[Up(c)])
Served(c) ==
  /\ Kind(c) = "client" => Asking(load, net[c])
  /\ Open(c) => Serves(c)
  /\ ~Open(c) => \/ users[c].parsed = 0
                 \/ \E t \in Procs : pc[t] = "closeProxy" /\ cur[t] = c

Fits ==
  /\ \A fd \in Fds : SocketFits(load, net[fd])
  /\ \A c \in 0 .. MaxFd : UserFits(load, users[c])
Counted == edge \in BOOLEAN /\ conns \in 0 .. load.conns /\ backlog \in 0 .. conns

DInv == Fits /\ Counted /\ \A c \in Fds : Served(c)

----------------------------------------------------------------------------
(* The data of a socket that Carries speaks of.                            *)
Same(n, m) == /\ m.inbox = n.inbox /\ m.pending = n.pending
              /\ m.ask = n.ask /\ m.sent = n.sent

(* Where a request is depends on nothing else.                             *)
LEMMA SameFact ==
  ASSUME NEW l, NEW u, NEW s, NEW p, NEW s2, NEW p2, Same(s, s2), Same(p, p2)
  PROVE  /\ Carries(l, u, s, p) => Carries(l, u, s2, p2)
         /\ Collects(l, u, s, p) => Collects(l, u, s2, p2)
         /\ Receives(l, u, s, p) => Receives(l, u, s2, p2)
         /\ Converts(l, u, s, p) => Converts(l, u, s2, p2)
         /\ Asking(l, s) => Asking(l, s2)
         /\ SocketFits(l, s) => SocketFits(l, s2)
<1>1. Collects(l, u, s, p) => Collects(l, u, s2, p2)
  BY DEF Same, Collects
<1>2. Forwards(l, u, s, p) => Forwards(l, u, s2, p2)
  BY DEF Same, Forwards, Whole, Only
<1>3. Awaits(l, u, s, p) => Awaits(l, u, s2, p2)
  BY DEF Same, Awaits, Whole, Only
<1>4. Receives(l, u, s, p) => Receives(l, u, s2, p2)
  BY DEF Same, Receives, Whole, Only
<1>5. Converts(l, u, s, p) => Converts(l, u, s2, p2)
  BY DEF Same, Converts, Whole, Only
<1>6. Returns(l, u, s, p) => Returns(l, u, s2, p2)
  BY DEF Same, Returns, Whole, Only
<1>7. (Asking(l, s) => Asking(l, s2)) /\ (SocketFits(l, s) => SocketFits(l, s2))
  BY DEF Same, Asking, SocketFits
<1> QED
  BY <1>1, <1>2, <1>3, <1>4, <1>5, <1>6, <1>7 DEF Carries

(* Only a user whose answer has arrived has something to be read from the  *)
(* upstream server.                                                        *)
LEMMA InboxFact ==
  ASSUME NEW l, NEW u, NEW s, NEW p, Carries(l, u, s, p), p.inbox # <<>>
  PROVE  Receives(l, u, s, p)
BY DEF Carries, Collects, Forwards, Awaits, Converts, Returns, Only

(* A user that a step leaves alone.                                        *)
LEMMA AloneFact ==
  ASSUME NEW d \in Fds, Served(d), load' = load, users'[d] = users[d],
         Kind(d)' = "client" => Kind(d) = "client" /\ Same(net[d], net'[d]),
         Open(d) =>
           /\ Same(net[d], net'[d]) /\ Same(net[Up(d)], net'[Up(d)])
           /\ ToClient(d)' => ToClient(d)
           /\ ToServer(d)' => ToServer(d) \/ net[Up(d)].inbox # <<>>
           /\ HasRead(d)' => HasRead(d),
         \A t \in Procs : pc[t] = "closeProxy" /\ cur[t] = d => pc'[t] = "closeProxy" /\ cur'[t] = d
  PROVE  Served(d)'
<1>1. /\ Open(d)' = Open(d) /\ Up(d)' = Up(d) /\ Stage(d)' = Stage(d)
      /\ users'[d].parsed = users[d].parsed
  BY DEF Open, Up, Stage
<1>2. Kind(d)' = "client" => Asking(load, net[d])'
  BY SameFact DEF Served
<1>3. ~Open(d)' => \/ users'[d].parsed = 0
                   \/ \E t \in Procs : pc'[t] = "closeProxy" /\ cur'[t] = d
  BY <1>1 DEF Served
<1>4. ASSUME Open(d) PROVE Serves(d)'
  <2> PICK u : u = users[d]
    OBVIOUS
  <2> PICK s, p, s2, p2 : s = net[d] /\ p = net[Up(d)] /\ s2 = net'[d] /\ p2 = net'[Up(d)]
    OBVIOUS
  <2>1. Same(s, s2) /\ Same(p, p2) /\ Serves(d)
    BY <1>4 DEF Served
  <2>2. /\ Carries(load, u, s, p) => Carries(load, u, s2, p2)
        /\ Collects(load, u, s, p) => Collects(load, u, s2, p2)
        /\ Receives(load, u, s, p) => Receives(load, u, s2, p2)
        /\ Converts(load, u, s, p) => Converts(load, u, s2, p2)
    BY <2>1, SameFact
  <2>3. /\ Carries(load, u, s, p)
        /\ Stage(d) = "client" /\ ToClient(d) => Collects(load, u, s, p)
        /\ Stage(d) = "upstream" /\ ToServer(d) => Receives(load, u, s, p)
        /\ Stage(d) = "upstream" /\ HasRead(d) => Converts(load, u, s, p)
    BY <2>1 DEF Serves
  <2>4. Stage(d) = "upstream" /\ ToServer(d)' => Receives(load, u, s, p)
    BY <1>4, <2>3, InboxFact
  <2>5. /\ Carries(load, u, s2, p2)
        /\ Stage(d) = "client" /\ ToClient(d)' => Collects(load, u, s2, p2)
        /\ Stage(d) = "upstream" /\ ToServer(d)' => Receives(load, u, s2, p2)
        /\ Stage(d) = "upstream" /\ HasRead(d)' => Converts(load, u, s2, p2)
    BY <1>4, <2>2, <2>3, <2>4
  <2>6. s2 = net'[d] /\ p2 = net'[Up(d)'] /\ u = users'[d]
    BY <1>1
  <2> QED
    BY <1>1, <2>5, <2>6 DEF Serves
<1> QED
  BY <1>1, <1>2, <1>3, <1>4 DEF Served

(* What is known of the three records of an open user.                     *)
LEMMA HereFact ==
  ASSUME IInv, DInv, NEW c \in Fds
  PROVE  /\ SocketFits(load, net[c]) /\ UserFits(load, users[c]) /\ Served(c)
         /\ Kind(c) = "client" => Asking(load, net[c])
         /\ Open(c) => /\ Up(c) \in Fds /\ Up(c) # c
                       /\ SocketFits(load, net[Up(c)])
                       /\ Asking(load, net[c]) /\ Serves(c)
                       /\ Carries(load, users[c], net[c], net[Up(c)])
<1>1. SocketFits(load, net[c]) /\ UserFits(load, users[c]) /\ Served(c)
  BY NumberFact DEF DInv, Fits
<1>2. Open(c) => /\ Up(c) \in Fds /\ Up(c) # c /\ SocketFits(load, net[Up(c)])
                 /\ Kind(c) = "client"
  BY WireFact DEF DInv, Fits
<1> QED
  BY <1>1, <1>2 DEF Served, Serves

(* Both descriptors of a user stand in the batch for it.                   *)
LEMMA EntryFact ==
  ASSUME IInv, NEW c \in Fds, Open(c), NEW k, <<c, k>> \in batch \/ <<Up(c), k>> \in batch
  PROVE  Batched(c)
<1>1. PICK fd \in {c, Up(c)} : <<fd, k>> \in batch
  OBVIOUS
<1>2. fd \in Fds /\ fd # NoFd /\ <<fd, k>>[1] = fd
  BY WireFact, NumberFact
<1>3. PICK d \in Fds : Open(d) /\ fd = Side(d)
  BY <1>1, <1>2 DEF IInv, Staged
<1>4. d = c
  BY <1>1, <1>3, WireFact
<1> QED
  BY <1>1, <1>2, <1>3, <1>4 DEF Batched

(* A thread that has a user in its hands is the only one to be sent to     *)
(* read for it.                                                            *)
LEMMA CallFact ==
  ASSUME IInv, NEW w \in Procs, NEW c, c = cur[w], pc[w] \in Holding, pc[w] # "close",
         NEW l, pc' = [pc EXCEPT ![w] = l], UNCHANGED <<batch, queue, cur>>,
         Reg(c)' = Reg(c), users'[c].proxy = users[c].proxy
  PROVE  /\ ToClient(c)' => l \in {"readC", "armCIn", "process"}
         /\ ToServer(c)' => l = "readP"
         /\ HasRead(c)' => l = "process"
<1>1. /\ c \in Fds /\ Open(c) /\ ~Batched(c) /\ ~Queued(c) /\ Reg(c) = "off"
      /\ \A s \in Procs : Holds(s, c) => s = w
  BY HandFact
<1>2. \A k : <<c, k>> \notin batch /\ <<Up(c), k>> \notin batch
  BY <1>1, EntryFact
<1>3. \A i \in DOMAIN queue : \A k : queue[i] # <<c, k>>
  <2>1. ASSUME NEW i \in DOMAIN queue, NEW k, queue[i] = <<c, k>> PROVE FALSE
    <3>1. queue[i][1] = c
      BY <2>1
    <3> QED
      BY <3>1, <1>1 DEF Queued
  <2> QED
    BY <2>1
<1>4. {"readC", "armCIn", "process", "readP"} \subseteq Holding
  BY DEF Holding, Labels, Ops
<1>5. pc \in [Procs -> Places]
  BY DEF IInv, Typed
<1>6. \A t \in Procs : cur'[t] = c /\ pc'[t] \in {"readC", "armCIn", "process", "readP"} => pc'[t] = l
  <2>1. \A t \in Procs : t # w => pc'[t] = pc[t]
    BY <1>5
  <2>2. pc'[w] = l
    BY <1>5
  <2> QED
    BY <1>1, <1>4, <2>1, <2>2 DEF Holds
<1>7. Up(c)' = Up(c)
  BY DEF Up
<1> QED
  BY <1>1, <1>2, <1>3, <1>6, <1>7 DEF ToClient, ToServer, HasRead

(* Threads that close are none of those that go on.                        *)
LEMMA ClosersFact ==
  ASSUME IInv, NEW w \in Procs, pc[w] # "closeProxy", NEW l, pc' = [pc EXCEPT ![w] = l],
         \A t \in Procs : t # w => cur'[t] = cur[t]
  PROVE  \A d, t : t \in Procs /\ pc[t] = "closeProxy" /\ cur[t] = d =>
           pc'[t] = "closeProxy" /\ cur'[t] = d
<1>1. pc \in [Procs -> Places]
  BY DEF IInv, Typed
<1> QED
  BY <1>1

(* What is done to the descriptors c and p leaves the data of others alone *)
(* and opens, closes and arms none.                                        *)
Heeds(c, p) ==
  \A fd \in Fds : /\ fd \notin {c, p} => Same(net[fd], net'[fd])
                  /\ Kind(fd)' = Kind(fd) /\ Reg(fd)' = Reg(fd)

(* Users other than the one a worker goes on with.                         *)
LEMMA OthersFact ==
  ASSUME IInv, DInv, NEW w \in Procs, NEW c, c = cur[w],
         pc[w] \in Holding, pc[w] # "close", NEW p, p = Up(c),
         NEW l, pc' = [pc EXCEPT ![w] = l], UNCHANGED <<batch, queue, cur, load>>,
         \A d \in Fds : d # c => users'[d] = users[d],
         Heeds(c, p)
  PROVE  \A d \in Fds : d # c => Served(d)'
<1> USE DEF Heeds
<1> SUFFICES ASSUME NEW d \in Fds, d # c PROVE Served(d)'
  OBVIOUS
<1>1. c \in Fds /\ Open(c)
  BY HandFact
<1>2. Served(d)
  BY HereFact
<1>3. CASE Open(d)
  <2>1. Up(d) \in Fds /\ d # p /\ Up(d) # c /\ Up(d) # p
    BY <1>1, <1>3, WireFact
  <2>2. Same(net[d], net'[d]) /\ Same(net[Up(d)], net'[Up(d)])
    BY <2>1
  <2>3. \A t \in Procs : cur[t] = d => pc'[t] = pc[t] /\ cur'[t] = cur[t]
    BY DEF IInv, Typed
  <2>4. Up(d)' = Up(d) /\ Reg(d)' = Reg(d)
    BY DEF Up
  <2>5. /\ ToClient(d)' => ToClient(d)
        /\ ToServer(d)' => ToServer(d)
        /\ HasRead(d)' => HasRead(d)
    BY <2>3, <2>4 DEF ToClient, ToServer, HasRead
  <2>6. \A t \in Procs : pc[t] = "closeProxy" /\ cur[t] = d => pc'[t] = "closeProxy" /\ cur'[t] = d
    BY <2>3
  <2> QED
    BY <1>2, <1>3, <2>2, <2>5, <2>6, AloneFact
<1>4. CASE ~Open(d)
  <2>1. Kind(d) # "client"
    BY <1>4 DEF IInv, Wired
  <2>2. users'[d].closed /\ Kind(d)' # "client" /\ users'[d].parsed = users[d].parsed
    BY <1>4, <2>1 DEF Open
  <2>3. \A t \in Procs : pc[t] = "closeProxy" /\ cur[t] = d => pc'[t] = "closeProxy" /\ cur'[t] = d
    BY ClosersFact DEF Holding
  <2> QED
    BY <1>2, <1>4, <2>2, <2>3 DEF Served, Open
<1> QED
  BY <1>3, <1>4

(* A step gives user c the record u, its client's socket s and its         *)
(* upstream descriptor's q, and they are as they should be.                *)
Moves(c, p, u, s, q) ==
  /\ users' = [users EXCEPT ![c] = u] /\ u.closed = users[c].closed /\ u.proxy = p
  /\ net'[c] = s /\ net'[p] = q
  /\ \A fd \in Fds : /\ fd \notin {c, p} => net'[fd] = net[fd]
                     /\ Kind(fd)' = Kind(fd) /\ Reg(fd)' = Reg(fd)
Sound(l, u, s, q) ==
  /\ UserFits(l, u) /\ SocketFits(l, s) /\ SocketFits(l, q)
  /\ Asking(l, s) /\ Carries(l, u, s, q)

(* A worker goes on with its user, and moves the user's request.           *)
LEMMA CarryFact ==
  ASSUME IInv, DInv, NEW w \in Workers, NEW c, c = cur[w], NEW p, p = Up(c),
         pc[w] \in Ops \cup {"process"},
         NEW l \in {"process", "unregister", "armCIn", "armCOut", "armPIn", "armPOut"},
         pc' = [pc EXCEPT ![w] = l],
         UNCHANGED <<batch, queue, cur, load, edge, conns, backlog>>,
         NEW u, NEW s, NEW q, Moves(c, p, u, s, q), Sound(load, u, s, q),
         l = "armCIn" => Collects(load, u, s, q),
         l = "process" => IF u.stage = "client" THEN Collects(load, u, s, q)
                                                ELSE Converts(load, u, s, q)
  PROVE  DInv'
<1> USE DEF Moves, Sound
<1>1. w \in Procs /\ pc[w] \in Holding /\ pc[w] # "close"
  BY NumberFact DEF Ops, Holding, Labels
<1>2. c \in Fds /\ Open(c) /\ p \in Fds /\ p # c
  BY <1>1, HandFact, WireFact
<1>3. users \in [0 .. MaxFd -> Conn] /\ Fds \subseteq 0 .. MaxFd
  BY NumberFact DEF IInv, Typed
<1>4. users'[c] = u /\ \A d \in 0 .. MaxFd : d # c => users'[d] = users[d]
  BY <1>2, <1>3
<1>5. \A d \in Fds : d # c => Served(d)'
  <2>1. \A d \in Fds : d # c => users'[d] = users[d]
    BY <1>3, <1>4
  <2>2. Heeds(c, p)
    BY DEF Same, Heeds
  <2>3. UNCHANGED <<batch, queue, cur, load>>
    OBVIOUS
  <2> QED
    BY <1>1, <2>1, <2>2, <2>3, OthersFact
<1>6. Served(c)'
  <2>1. Up(c)' = p /\ Stage(c)' = u.stage /\ Open(c)' /\ Reg(c)' = Reg(c)
    BY <1>2, <1>4 DEF Up, Stage, Open
  <2>2. /\ ToClient(c)' => l \in {"readC", "armCIn", "process"}
        /\ ToServer(c)' => l = "readP"
        /\ HasRead(c)' => l = "process"
    BY <1>1, <1>4, <2>1, CallFact DEF Up
  <2>3. /\ Carries(load, u, s, q)
        /\ u.stage = "client" /\ ToClient(c)' => Collects(load, u, s, q)
        /\ u.stage = "upstream" /\ ToServer(c)' => Receives(load, u, s, q)
        /\ u.stage = "upstream" /\ HasRead(c)' => Converts(load, u, s, q)
    BY <2>2
  <2>4. u = users'[c] /\ s = net'[c] /\ q = net'[Up(c)']
    BY <1>4, <2>1
  <2>5. Serves(c)'
    BY <2>1, <2>3, <2>4 DEF Serves
  <2>6. Asking(load, net[c])'
    OBVIOUS
  <2> QED
    BY <2>1, <2>5, <2>6 DEF Served
<1>7. Fits'
  <2>1. \A fd \in Fds : SocketFits(load, net'[fd])
    BY DEF DInv, Fits
  <2>2. \A d \in 0 .. MaxFd : UserFits(load, users'[d])
    BY <1>4 DEF DInv, Fits
  <2> QED
    BY <2>1, <2>2 DEF Fits
<1>8. Counted'
  BY DEF DInv, Counted
<1> QED
  BY <1>5, <1>6, <1>7, <1>8 DEF DInv

----------------------------------------------------------------------------
(***************************************************************************)
(* A worker's work                                                         *)
(***************************************************************************)

(* Pieces of one request.                                                  *)
LEMMA CopiesFact ==
  ASSUME NEW M, NEW m, NEW a \in Seq(M), NEW b \in Seq(M), Copies(a, m), Copies(b, m)
  PROVE  /\ a \o b \in Seq(M) /\ Len(a \o b) = Len(a) + Len(b)
         /\ Copies(a \o b, m) /\ Copies(Append(a, m), m) /\ Copies(<<>>, m)
<1>1. Len(a) \in Nat /\ Len(b) \in Nat /\ DOMAIN a = 1 .. Len(a) /\ DOMAIN b = 1 .. Len(b)
  OBVIOUS
<1>2. a \o b \in Seq(M) /\ Len(a \o b) = Len(a) + Len(b)
  OBVIOUS
<1>3. ASSUME NEW i \in 1 .. Len(a) + Len(b) PROVE (a \o b)[i] = m
  <2>1. (a \o b)[i] = IF i <= Len(a) THEN a[i] ELSE b[i - Len(a)]
    OBVIOUS
  <2>2. CASE i <= Len(a)
    <3>1. i \in DOMAIN a
      BY <1>1, <2>2
    <3> QED
      BY <2>1, <2>2, <3>1 DEF Copies
  <2>3. CASE ~(i <= Len(a))
    <3>1. i - Len(a) \in DOMAIN b
      BY <1>1, <2>3
    <3> QED
      BY <2>1, <2>3, <3>1 DEF Copies
  <2> QED
    BY <2>2, <2>3
<1>4. Copies(a \o b, m)
  <2>1. DOMAIN (a \o b) = 1 .. Len(a) + Len(b)
    BY <1>2
  <2> QED
    BY <1>3, <2>1 DEF Copies
<1>5. Copies(Append(a, m), m)
  BY <1>1 DEF Copies
<1>6. Copies(<<>>, m)
  BY DEF Copies
<1> QED
  BY <1>2, <1>4, <1>5, <1>6

(* The length of a sequence.                                               *)
LEMMA LengthFact ==
  /\ Len(<<>>) = 0
  /\ \A M : \A a \in Seq(M) : Len(a) \in Nat
OBVIOUS

(* Nothing in front of something.                                          *)
LEMMA EmptyFact ==
  ASSUME NEW M, NEW a \in Seq(M)
  PROVE  /\ <<>> \o a = a /\ a \o <<>> = a
         /\ \A m \in M : Append(<<>>, m) = <<m>> /\ <<m>> # <<>> /\ Tail(<<m>>) = <<>> /\ Head(<<m>>) = m
         /\ Len(<<>>) = 0 /\ (Len(a) = 0 <=> a = <<>>)
<1>1. <<>> \o a = a /\ a \o <<>> = a
  BY ConcatEmptySeq
<1>2. ASSUME NEW m \in M PROVE Append(<<>>, m) = <<m>> /\ <<m>> # <<>> /\ Tail(<<m>>) = <<>> /\ Head(<<m>>) = m
  OBVIOUS
<1>3. Len(<<>>) = 0 /\ (Len(a) = 0 <=> a = <<>>)
  BY EmptySeq
<1> QED
  BY <1>1, <1>2, <1>3

(* A user's buffer gains what a socket's loses.                            *)
Gains(u, u2, b) ==
  /\ u2.stage = u.stage /\ u2.parsed = u.parsed /\ u2.iov = u.iov
  /\ u2.writeBuff = u.writeBuff /\ u2.readBuff = u.readBuff \o b
Emptied(n, n2) ==
  /\ n2.ask = n.ask /\ n2.sent = n.sent /\ n2.pending = n.pending
  /\ n2.inbox = <<>>

(* A worker reads from the client.                                         *)
LEMMA ReadClientFact ==
  ASSUME NEW l, NEW u, NEW s, NEW p, Collects(l, u, s, p), UserFits(l, u), SocketFits(l, s),
         NEW u2, NEW s2, Gains(u, u2, s.inbox), Emptied(s, s2)
  PROVE  Collects(l, u2, s2, p) /\ UserFits(l, u2) /\ SocketFits(l, s2)
<1>1. /\ u.readBuff \in Seq(Known(l)) /\ s.inbox \in Seq(Known(l))
      /\ Copies(u.readBuff, s.ask) /\ Copies(s.inbox, s.ask)
  BY DEF Collects, UserFits, SocketFits
<1> PICK a, b : a = u.readBuff /\ b = s.inbox
  OBVIOUS
<1> PICK e : e = a \o b
  OBVIOUS
<1>2. /\ e \in Seq(Known(l)) /\ Len(e) = Len(a) + Len(b)
      /\ Copies(e, s.ask) /\ Copies(<<>>, s.ask)
  BY <1>1, CopiesFact
<1> USE DEF Gains, Emptied
<1>3. Len(e) \in Nat /\ Len(<<>>) = 0 /\ Len(a) \in Nat /\ Len(b) \in Nat
  BY <1>1, <1>2, LengthFact, Zenon
<1>4. Had(l, u2) = Had(l, u) /\ u.parsed \in 0 .. l.parts
  BY DEF Had, UserFits
<1>5. s2.sent = Had(l, u2) + Len(e) + Len(<<>>)
  <2>1. s.sent = Had(l, u) + Len(a) + Len(b)
    BY DEF Collects
  <2>2. Had(l, u) \in Int
    BY <1>4 DEF Had
  <2>3. \A h \in Int, x, y \in Nat : h + x + y = h + (x + y) + 0
    OBVIOUS
  <2>4. Had(l, u) + Len(a) + Len(b) = Had(l, u) + (Len(a) + Len(b)) + 0
    BY <1>3, <2>2, <2>3, Zenon
  <2> QED
    BY <1>2, <1>3, <1>4, <2>1, <2>4, Zenon
<1>6. Collects(l, u2, s2, p)
  BY <1>2, <1>5 DEF Collects
<1>7. UserFits(l, u2)
  BY <1>2 DEF UserFits
<1>8. SocketFits(l, s2)
  BY DEF SocketFits
<1> QED
  BY <1>6, <1>7, <1>8

(* A worker reads the answer.                                              *)
LEMMA ReadAnswerFact ==
  ASSUME NEW l, NEW u, NEW s, NEW p, Receives(l, u, s, p), UserFits(l, u), SocketFits(l, p),
         NEW u2, NEW p2, Gains(u, u2, p.inbox), Emptied(p, p2)
  PROVE  Converts(l, u2, s, p2) /\ UserFits(l, u2) /\ SocketFits(l, p2)
<1> USE DEF Gains, Emptied
<1>1. u.readBuff = <<>> /\ p.inbox \in Seq(Known(l))
  BY DEF Receives, Only, SocketFits
<1>2. u2.readBuff = p.inbox
  BY <1>1, EmptyFact
<1> QED
  BY <1>1, <1>2 DEF Receives, Converts, Whole, Only, UserFits, SocketFits

(* What a worker finds when it is about to work for its user.              *)
LEMMA FindFact ==
  ASSUME IInv, DInv, NEW w \in Workers, NEW c, c = cur[w], pc[w] \in Ops \cup {"process"}
  PROVE  /\ w \in Procs /\ c \in Fds /\ Open(c) /\ Up(c) \in Fds /\ Up(c) # c
         /\ SocketFits(load, net[c]) /\ SocketFits(load, net[Up(c)]) /\ UserFits(load, users[c])
         /\ Asking(load, net[c]) /\ Carries(load, users[c], net[c], net[Up(c)])
         /\ pc[w] = "readC" => Collects(load, users[c], net[c], net[Up(c)])
         /\ pc[w] = "readP" => Receives(load, users[c], net[c], net[Up(c)])
         /\ pc[w] = "process" => IF Stage(c) = "client"
                                 THEN Collects(load, users[c], net[c], net[Up(c)])
                                 ELSE Converts(load, users[c], net[c], net[Up(c)])
<1>1. w \in Procs /\ pc[w] \in Holding /\ pc[w] # "close"
  BY NumberFact DEF Ops, Holding, Labels
<1>2. c \in Fds /\ Open(c)
  BY <1>1, HandFact
<1>3. Stage(c) \in {"client", "upstream"} /\ Serves(c)
  BY <1>2, HereFact, FieldFact
<1>4. /\ pc[w] = "readC" => Stage(c) = "client"
      /\ pc[w] = "readP" => Stage(c) = "upstream"
  BY <1>1 DEF IInv, Staged
<1>5. /\ pc[w] \in {"readC", "process"} => ToClient(c)
      /\ pc[w] = "readP" => ToServer(c)
      /\ pc[w] = "process" => HasRead(c)
  BY <1>1 DEF ToClient, ToServer, HasRead
<1>6. /\ pc[w] = "readC" => Collects(load, users[c], net[c], net[Up(c)])
      /\ pc[w] = "readP" => Receives(load, users[c], net[c], net[Up(c)])
      /\ pc[w] = "process" => IF Stage(c) = "client"
                              THEN Collects(load, users[c], net[c], net[Up(c)])
                              ELSE Converts(load, users[c], net[c], net[Up(c)])
  BY <1>3, <1>4, <1>5 DEF Serves
<1> QED
  BY <1>1, <1>2, <1>6, HereFact

(* A worker reads all there is.                                            *)
LEMMA ReadDataFact == ASSUME IInv, DInv, NEW w \in Workers, Read(w) PROVE DInv'
<1> PICK c : c = cur[w]
  OBVIOUS
<1> PICK p : p = Up(c)
  OBVIOUS
<1> PICK fd : fd = Target(w)
  OBVIOUS
<1> PICK u : u = users[c]
  OBVIOUS
<1> PICK s, q : s = net[c] /\ q = net[p]
  OBVIOUS
<1>1. /\ pc[w] \in {"readC", "readP"} /\ pc[w] \in Ops
      /\ UNCHANGED <<batch, queue, cur, load, edge, conns, backlog>>
  BY DEF Read, Ops, listener, outside
<1>2. /\ w \in Procs /\ c \in Fds /\ p \in Fds /\ p # c /\ Open(c)
      /\ pc[w] = "readC" => fd = c /\ Stage(c) = "client"
      /\ pc[w] = "readP" => fd = p /\ Stage(c) = "upstream"
      /\ IsOpen(fd) /\ net[fd] \in Sock /\ u \in Conn
  BY <1>1, TargetFact, FindFact DEF Ops
<1>3. PICK l \in {"process", "unregister"} : pc' = [pc EXCEPT ![w] = l]
  BY <1>2 DEF Read, Goto
<1>4. /\ users' = [users EXCEPT ![c].readBuff = @ \o net[fd].inbox]
      /\ net' = [net EXCEPT ![fd].inbox = <<>>]
  BY <1>2 DEF Read
<1>5. net \in [Fds -> Sock] /\ users \in [0 .. MaxFd -> Conn] /\ Fds \subseteq 0 .. MaxFd
  BY NumberFact DEF IInv, Typed
<1>6. PICK u2, n2 :
        /\ users' = [users EXCEPT ![c] = u2] /\ net' = [net EXCEPT ![fd] = n2]
        /\ Gains(u, u2, net[fd].inbox) /\ u2.closed = users[c].closed /\ u2.proxy = p
        /\ Emptied(net[fd], n2) /\ n2.kind = net[fd].kind /\ n2.interest = net[fd].interest
  <2>1. PICK b : b = u.readBuff \o net[fd].inbox
    OBVIOUS
  <2>2. PICK u2, n2 : u2 = [u EXCEPT !.readBuff = b] /\ n2 = [net[fd] EXCEPT !.inbox = <<>>]
    OBVIOUS
  <2>3. /\ u2.stage = u.stage /\ u2.parsed = u.parsed /\ u2.iov = u.iov
        /\ u2.writeBuff = u.writeBuff /\ u2.closed = u.closed /\ u2.proxy = u.proxy
        /\ u2.readBuff = b
    BY <2>2, <1>2 DEF Conn
  <2>4. /\ n2.ask = net[fd].ask /\ n2.sent = net[fd].sent /\ n2.pending = net[fd].pending
        /\ n2.inbox = <<>> /\ n2.kind = net[fd].kind /\ n2.interest = net[fd].interest
    BY <2>2, <1>2 DEF Sock
  <2>5. users' = [users EXCEPT ![c] = u2] /\ net' = [net EXCEPT ![fd] = n2]
    BY <2>1, <2>2, <1>4
  <2>6. Gains(u, u2, net[fd].inbox) /\ Emptied(net[fd], n2)
    BY <2>1, <2>3, <2>4 DEF Gains, Emptied
  <2>7. u2.closed = users[c].closed /\ u2.proxy = p
    BY <2>3 DEF Up
  <2> QED
    BY <2>4, <2>5, <2>6, <2>7
<1>7. /\ \A f \in Fds : f # fd => net'[f] = net[f]
      /\ net'[fd] = n2
      /\ \A f \in Fds : Kind(f)' = Kind(f) /\ Reg(f)' = Reg(f)
  <2>1. fd \in Fds
    BY <1>1, <1>2
  <2>2. net'[fd] = n2 /\ \A f \in Fds : f # fd => net'[f] = net[f]
    BY <2>1, <1>5, <1>6
  <2> QED
    BY <2>2, <1>6 DEF Kind, Reg
<1>8. UserFits(load, u) /\ SocketFits(load, s) /\ SocketFits(load, q) /\ Asking(load, s)
  BY <1>1, FindFact
<1>9. CASE pc[w] = "readC"
  <2>1. Collects(load, u, s, q) /\ u.stage = "client" /\ net[fd] = s
    BY <1>1, <1>2, <1>9, FindFact DEF Stage
  <2>2. Gains(u, u2, s.inbox) /\ Emptied(s, n2)
    BY <2>1, <1>6
  <2>3. Collects(load, u2, n2, q) /\ UserFits(load, u2) /\ SocketFits(load, n2)
    BY <2>1, <2>2, <1>8, ReadClientFact
  <2>4. Asking(load, n2) /\ u2.stage = "client"
    BY <2>1, <2>2, <1>8 DEF Asking, Emptied, Gains
  <2>5. Sound(load, u2, n2, q)
    BY <2>3, <2>4, <1>8 DEF Sound, Carries
  <2>6. Moves(c, p, u2, n2, q)
    BY <1>2, <1>6, <1>7, <1>9 DEF Moves
  <2> QED
    BY <2>3, <2>4, <2>5, <2>6, <1>1, <1>3, CarryFact
<1>10. CASE pc[w] = "readP"
  <2>1. Receives(load, u, s, q) /\ u.stage = "upstream" /\ net[fd] = q
    BY <1>1, <1>2, <1>10, FindFact DEF Stage
  <2>2. Gains(u, u2, q.inbox) /\ Emptied(q, n2)
    BY <2>1, <1>6
  <2>3. Converts(load, u2, s, n2) /\ UserFits(load, u2) /\ SocketFits(load, n2)
    BY <2>1, <2>2, <1>8, ReadAnswerFact
  <2>4. u2.stage = "upstream"
    BY <2>1, <2>2 DEF Gains
  <2>5. Sound(load, u2, s, n2)
    BY <2>3, <1>8 DEF Sound, Carries
  <2>6. Moves(c, p, u2, s, n2)
    BY <1>2, <1>6, <1>7, <1>10 DEF Moves
  <2> QED
    BY <2>3, <2>4, <2>5, <2>6, <1>1, <1>3, CarryFact
<1> QED
  BY <1>1, <1>9, <1>10

(* A request of which something is missing, and one that is complete.      *)
LEMMA RequestDataFact ==
  ASSUME NEW l, NEW u, NEW s, NEW p, Collects(l, u, s, p), UserFits(l, u), SocketFits(l, s),
         l.parts \in Nat \ {0},
         NEW n \in 0 .. l.parts, Had(l, u) + Len(u.readBuff) <= l.parts => n = Had(l, u) + Len(u.readBuff),
         NEW u2, u2.parsed = n, u2.readBuff = <<>>
  PROVE  /\ /\ ~(n = l.parts /\ u.readBuff # <<>>)
            /\ u2.stage = u.stage /\ u2.iov = u.iov /\ u2.writeBuff = u.writeBuff
            => Collects(l, u2, s, p) /\ UserFits(l, u2)
         /\ /\ n = l.parts /\ u.readBuff # <<>>
            /\ u2.stage = "upstream" /\ u2.iov = u2.writeBuff
            /\ u2.writeBuff = MakeProxyRequests(u)
            => Forwards(l, u2, s, p) /\ UserFits(l, u2)
<1> PICK r, i : r = Len(u.readBuff) /\ i = Len(s.inbox)
  OBVIOUS
<1>1. /\ u.readBuff \in Seq(Known(l)) /\ s.inbox \in Seq(Known(l))
      /\ r \in Nat /\ i \in Nat /\ (r = 0 <=> u.readBuff = <<>>) /\ (i = 0 <=> s.inbox = <<>>)
  <2>1. u.readBuff \in Seq(Known(l)) /\ s.inbox \in Seq(Known(l))
    BY DEF UserFits, SocketFits
  <2>2. (r = 0 <=> u.readBuff = <<>>) /\ (i = 0 <=> s.inbox = <<>>)
    BY <2>1, EmptyFact, Zenon
  <2>3. r \in Nat /\ i \in Nat
    BY <2>1, LengthFact, Zenon
  <2> QED
    BY <2>1, <2>2, <2>3
<1> PICK h, k : h = Had(l, u) /\ k = l.parts
  OBVIOUS
<1>2. k \in Nat \ {0} /\ h \in 0 .. k - 1 /\ s.sent = h + r + i /\ s.sent \in 0 .. k
  <2>1. u.parsed \in 0 .. l.parts
    BY DEF UserFits
  <2>2. h \in 0 .. k - 1
    BY <2>1 DEF Had
  <2> QED
    BY <2>2 DEF Collects, SocketFits
<1>3. h + r <= k /\ n = h + r
  <2>1. h + r <= k
    BY <1>1, <1>2
  <2> QED
    BY <2>1
<1>4. ASSUME ~(n = k /\ u.readBuff # <<>>)
      PROVE  n # k /\ s.sent = n + 0 + i
  <2>1. r = 0 => n # k
    BY <1>1, <1>2, <1>3
  <2>2. n # k
    BY <2>1, <1>1, <1>4
  <2>3. s.sent = n + 0 + i
    BY <1>1, <1>2, <1>3
  <2> QED
    BY <2>2, <2>3
<1>5. ASSUME ~(n = k /\ u.readBuff # <<>>), u2.stage = u.stage, u2.iov = u.iov, u2.writeBuff = u.writeBuff
      PROVE  Collects(l, u2, s, p) /\ UserFits(l, u2)
  <2>1. Had(l, u2) = n /\ Len(u2.readBuff) = 0
    BY <1>4, <1>5, LengthFact DEF Had
  <2>2. Copies(u2.readBuff, s.ask)
    BY DEF Copies
  <2>3. u2.readBuff \in Seq(Known(l))
    OBVIOUS
  <2>4. s.sent = Had(l, u2) + Len(u2.readBuff) + Len(s.inbox)
    BY <2>1, <1>4, <1>5
  <2>5. Collects(l, u2, s, p)
    BY <2>2, <2>4, <1>5 DEF Collects
  <2>6. UserFits(l, u2)
    BY <2>3, <1>5 DEF UserFits
  <2> QED
    BY <2>5, <2>6
<1>6. ASSUME n = k, u.readBuff # <<>>, u2.stage = "upstream", u2.iov = u2.writeBuff,
             u2.writeBuff = MakeProxyRequests(u)
      PROVE  Forwards(l, u2, s, p) /\ UserFits(l, u2)
  <2>1. i = 0 /\ s.sent = k /\ s.inbox = <<>>
    <3>1. s.sent = k + i
      BY <1>2, <1>3, <1>6
    <3>2. i = 0 /\ s.sent = k
      BY <1>1, <1>2, <3>1
    <3> QED
      BY <1>1, <3>2
  <2>2. r \in DOMAIN u.readBuff
    BY <1>1, <1>6
  <2>3. u.readBuff[r] = s.ask /\ s.ask \in Known(l)
    BY <2>2 DEF Collects, Copies, SocketFits
  <2>4. u2.writeBuff = Append(<<>>, s.ask)
    BY <2>3, <1>6 DEF MakeProxyRequests, Collects
  <2>5. u2.writeBuff = <<s.ask>>
    BY <2>4
  <2>6. u2.writeBuff \in Seq(Known(l)) /\ Len(u2.writeBuff) <= 1 /\ <<>> \in Seq(Known(l))
    BY <2>3, <2>5
  <2>7. Forwards(l, u2, s, p)
    BY <2>1, <2>5, <1>6 DEF Forwards, Whole, Only, Collects
  <2>8. UserFits(l, u2)
    BY <2>6, <1>6 DEF UserFits
  <2> QED
    BY <2>7, <2>8
<1> QED
  BY <1>5, <1>6

(* The buffers change places.                                              *)
LEMMA SwapDataFact ==
  ASSUME NEW l, NEW u, NEW s, NEW p, Converts(l, u, s, p), UserFits(l, u), SocketFits(l, s),
         NEW u2, u2.readBuff = u.writeBuff, u2.writeBuff = u.readBuff, u2.iov = u.readBuff,
         u2.stage = "client", u2.parsed = u.parsed
  PROVE  Returns(l, u2, s, p) /\ UserFits(l, u2)
<1>1. Returns(l, u2, s, p)
  BY DEF Converts, Returns, Whole, Only
<1>2. u.readBuff = <<s.ask>>
  BY DEF Converts, Only
<1>3. Len(u2.iov) <= 1
  BY <1>2
<1> QED
  BY <1>1, <1>3 DEF UserFits

(* A user's buffers are written out, and a socket gains what was in them.  *)
Written(u, u2) ==
  /\ u2.iov = <<>> /\ u2.writeBuff = <<>>
  /\ u2.readBuff = u.readBuff /\ u2.stage = u.stage /\ u2.parsed = u.parsed
Pends(p, p2, b) ==
  /\ p2.pending = p.pending \o b
  /\ p2.inbox = p.inbox /\ p2.ask = p.ask /\ p2.sent = p.sent

(* Something is written to the upstream server,                            *)
LEMMA SentDataFact ==
  ASSUME NEW l, NEW u, NEW s, NEW p, Carries(l, u, s, p), u.stage = "upstream", u.iov # <<>>,
         UserFits(l, u), SocketFits(l, p),
         NEW u2, Written(u, u2), NEW p2, Pends(p, p2, u.iov)
  PROVE  Awaits(l, u2, s, p2) /\ UserFits(l, u2) /\ SocketFits(l, p2)
<1> USE DEF Written, Pends
<1>1. Forwards(l, u, s, p)
  BY DEF Carries, Collects, Awaits, Receives, Converts, Returns, Only
<1>2. p.pending = <<>> /\ u.iov = <<s.ask>> /\ u.iov \in Seq(Known(l))
  BY <1>1 DEF Forwards, Only, UserFits
<1>3. p2.pending = u.iov
  BY <1>2, EmptyFact
<1>4. Awaits(l, u2, s, p2)
  BY <1>1, <1>2, <1>3 DEF Forwards, Awaits, Whole, Only
<1>5. UserFits(l, u2)
  <2>1. <<>> \in Seq(Known(l)) /\ Len(<<>>) <= 1
    OBVIOUS
  <2> QED
    BY <2>1 DEF UserFits
<1>6. SocketFits(l, p2)
  BY <1>2, <1>3 DEF SocketFits
<1> QED
  BY <1>4, <1>5, <1>6

(* or to the client: a piece of an earlier request, or the answer.         *)
LEMMA ReturnedDataFact ==
  ASSUME NEW l, NEW u, NEW s, NEW p, Carries(l, u, s, p), u.stage = "client",
         UserFits(l, u), SocketFits(l, s), Asking(l, s), l.parts \in Nat \ {0},
         l.asked \in Nat,
         NEW u2, u2.iov = <<>>, u2.writeBuff = <<>>,
         u2.readBuff = u.readBuff, u2.stage = u.stage, u2.parsed = u.parsed
  PROVE  /\ UserFits(l, u2)
         /\ (u.iov = <<>> \/ ~ \E i \in DOMAIN u.iov : u.iov[i] = s.ask) => Collects(l, u2, s, p)
         /\ \A s2 : /\ \E i \in DOMAIN u.iov : u.iov[i] = s.ask
                    /\ s2.inbox = s.inbox /\ s2.pending = s.pending /\ s2.sent = 0
                    /\ s2.ask = <<s.ask[1], s.ask[2] + 1>>
                    => Collects(l, u2, s2, p) /\ SocketFits(l, s2) /\ Asking(l, s2)
<1>1. UserFits(l, u2)
  <2>1. <<>> \in Seq(Known(l)) /\ Len(<<>>) <= 1
    OBVIOUS
  <2> QED
    BY <2>1 DEF UserFits
<1>2. Collects(l, u, s, p) \/ Returns(l, u, s, p)
  BY DEF Carries, Forwards, Awaits, Receives, Converts
<1>3. ASSUME Collects(l, u, s, p)
      PROVE  Collects(l, u2, s, p) /\ ~ \E i \in DOMAIN u.iov : u.iov[i] = s.ask
  <2>1. Copies(<<>>, Junk) /\ Had(l, u2) = Had(l, u)
    BY DEF Copies, Had
  <2>2. s.ask # Junk
    BY DEF Asking, Junk
  <2>3. ~ \E i \in DOMAIN u.iov : u.iov[i] = s.ask
    BY <2>2, <1>3 DEF Collects, Copies
  <2>4. Collects(l, u2, s, p)
    BY <2>1, <1>3 DEF Collects
  <2> QED
    BY <2>3, <2>4
<1>4. ASSUME Returns(l, u, s, p)
      PROVE  u.iov # <<>> /\ \E i \in DOMAIN u.iov : u.iov[i] = s.ask
  <2>1. u.iov = <<s.ask>>
    BY <1>4 DEF Returns, Only
  <2>2. 1 \in DOMAIN u.iov /\ u.iov[1] = s.ask
    BY <2>1
  <2> QED
    BY <2>1, <2>2
<1>5. ASSUME Returns(l, u, s, p), NEW s2,
             s2.inbox = s.inbox, s2.pending = s.pending, s2.sent = 0,
             s2.ask = <<s.ask[1], s.ask[2] + 1>>
      PROVE  Collects(l, u2, s2, p) /\ SocketFits(l, s2) /\ Asking(l, s2)
  <2>1. /\ s.inbox = <<>> /\ u.readBuff = <<>> /\ p.pending = <<>> /\ p.inbox = <<>>
        /\ u.parsed = l.parts /\ s.sent = l.parts
    BY <1>5 DEF Returns, Whole, Only
  <2>2. PICK a \in 1 .. l.conns, b \in 1 .. l.asked + 1 : s.ask = <<a, b>>
    BY DEF Asking
  <2>3. b <= l.asked
    BY <2>1, <2>2 DEF Asking
  <2>4. s2.ask = <<a, b + 1>>
    BY <2>2, <1>5
  <2>5. b + 1 \in 1 .. l.asked + 1
    BY <2>2, <2>3
  <2>6. s2.ask \in (1 .. l.conns) \X (1 .. l.asked + 1)
    BY <2>4, <2>5
  <2>7. Asking(l, s2) /\ SocketFits(l, s2)
    <3>1. 0 \in 0 .. l.parts /\ ~(0 > 0)
      OBVIOUS
    <3> QED
      BY <2>6, <3>1, <1>5 DEF Asking, SocketFits, Known
  <2>8. Had(l, u2) = 0 /\ Len(<<>>) = 0 /\ \A m : Copies(<<>>, m)
    BY <2>1 DEF Had, Copies
  <2>9. s2.sent = Had(l, u2) + Len(u2.readBuff) + Len(s2.inbox)
    BY <2>1, <2>8, <1>5
  <2>10. Collects(l, u2, s2, p)
    BY <2>1, <2>8, <2>9, <1>5 DEF Collects
  <2> QED
    BY <2>7, <2>10
<1> QED
  BY <1>1, <1>2, <1>3, <1>4, <1>5

(* What a load bounds.                                                     *)
LEMMA LoadFact ==
  ASSUME IInv
  PROVE  load.parts \in Nat \ {0} /\ load.conns \in Nat /\ load.asked \in Nat
BY ProxyAssumption DEF IInv, Typed

(* A worker deals with the client's input.                                 *)
LEMMA ProcessRequestFact ==
  ASSUME IInv, DInv, NEW w \in Workers, ProcessRequest(w) PROVE DInv'
<1> PICK c : c = cur[w]
  OBVIOUS
<1> PICK p : p = Up(c)
  OBVIOUS
<1> PICK u, s, q : u = users[c] /\ s = net[c] /\ q = net[p]
  OBVIOUS
<1>1. /\ pc[w] = "process" /\ u.stage = "client" /\ net' = net
      /\ UNCHANGED <<batch, queue, cur, load, edge, conns, backlog>>
  BY DEF ProcessRequest, listener, outside
<1>2. /\ c \in Fds /\ p \in Fds /\ u \in Conn /\ UserFits(load, u) /\ SocketFits(load, s)
      /\ SocketFits(load, q) /\ Asking(load, s) /\ Collects(load, u, s, q)
  BY <1>1, TargetFact, FindFact DEF Stage
<1>3. PICK n \in 0 .. load.parts :
        /\ Had(load, u) + Len(u.readBuff) <= load.parts => n = Had(load, u) + Len(u.readBuff)
        /\ IF n = load.parts /\ u.readBuff # <<>>
           THEN /\ users' = [users EXCEPT ![c] =
                     [u EXCEPT !.parsed = n, !.readBuff = <<>>,
                               !.writeBuff = MakeProxyRequests(u),
                               !.iov = MakeProxyRequests(u), !.stage = "upstream"]]
                /\ pc' = [pc EXCEPT ![w] = "armPOut"]
           ELSE /\ users' = [users EXCEPT ![c] = [u EXCEPT !.parsed = n, !.readBuff = <<>>]]
                /\ pc' = [pc EXCEPT ![w] = "armCOut"]
  BY DEF ProcessRequest, Goto, Had
<1>4. load.parts \in Nat \ {0}
  BY LoadFact
<1>5. CASE n = load.parts /\ u.readBuff # <<>>
  <2>1. PICK out : out = MakeProxyRequests(u)
    OBVIOUS
  <2>2. PICK u2 : u2 = [u EXCEPT !.parsed = n, !.readBuff = <<>>, !.writeBuff = out,
                                 !.iov = out, !.stage = "upstream"]
    OBVIOUS
  <2>3. users' = [users EXCEPT ![c] = u2] /\ pc' = [pc EXCEPT ![w] = "armPOut"]
    BY <1>3, <1>5, <2>1, <2>2
  <2>4. /\ u2.parsed = n /\ u2.readBuff = <<>> /\ u2.stage = "upstream" /\ u2.iov = u2.writeBuff
        /\ u2.writeBuff = out /\ u2.closed = u.closed /\ u2.proxy = u.proxy
    BY <2>2, <1>2 DEF Conn
  <2>5. Forwards(load, u2, s, q) /\ UserFits(load, u2)
    BY <2>1, <2>4, <1>2, <1>3, <1>4, <1>5, RequestDataFact
  <2>6. Sound(load, u2, s, q)
    BY <2>5, <1>2 DEF Sound, Carries
  <2>7. Moves(c, p, u2, s, q)
    BY <2>3, <2>4, <1>1 DEF Moves, Up, Kind, Reg
  <2> QED
    BY <2>3, <2>6, <2>7, <1>1, CarryFact
<1>6. CASE ~(n = load.parts /\ u.readBuff # <<>>)
  <2>1. PICK u2 : u2 = [u EXCEPT !.parsed = n, !.readBuff = <<>>]
    OBVIOUS
  <2>2. users' = [users EXCEPT ![c] = u2] /\ pc' = [pc EXCEPT ![w] = "armCOut"]
    BY <1>3, <1>6, <2>1
  <2>3. /\ u2.parsed = n /\ u2.readBuff = <<>> /\ u2.stage = u.stage /\ u2.iov = u.iov
        /\ u2.writeBuff = u.writeBuff /\ u2.closed = u.closed /\ u2.proxy = u.proxy
    BY <2>1, <1>2 DEF Conn
  <2>4. Collects(load, u2, s, q) /\ UserFits(load, u2)
    BY <2>3, <1>2, <1>3, <1>4, <1>6, RequestDataFact
  <2>5. Sound(load, u2, s, q)
    BY <2>4, <1>2 DEF Sound, Carries
  <2>6. Moves(c, p, u2, s, q)
    BY <2>2, <2>3, <1>1 DEF Moves, Up, Kind, Reg
  <2> QED
    BY <2>2, <2>5, <2>6, <1>1, CarryFact
<1> QED
  BY <1>5, <1>6

(* A worker deals with the upstream server's answer.                       *)
LEMMA ProcessAnswerFact ==
  ASSUME IInv, DInv, NEW w \in Workers, ProcessAnswer(w) PROVE DInv'
<1> PICK c : c = cur[w]
  OBVIOUS
<1> PICK p : p = Up(c)
  OBVIOUS
<1> PICK u, s, q : u = users[c] /\ s = net[c] /\ q = net[p]
  OBVIOUS
<1>1. /\ pc[w] = "process" /\ u.stage = "upstream" /\ net' = net
      /\ UNCHANGED <<batch, queue, cur, load, edge, conns, backlog>>
      /\ users' = [users EXCEPT ![c] = Swapped(u)] /\ pc' = [pc EXCEPT ![w] = "armCOut"]
  BY DEF ProcessAnswer, listener, outside, Goto
<1>2. /\ c \in Fds /\ p \in Fds /\ u \in Conn /\ UserFits(load, u) /\ SocketFits(load, s)
      /\ SocketFits(load, q) /\ Asking(load, s) /\ Converts(load, u, s, q)
  BY <1>1, TargetFact, FindFact DEF Stage
<1>3. PICK u2 : u2 = Swapped(u)
  OBVIOUS
<1>4. /\ u2.readBuff = u.writeBuff /\ u2.writeBuff = u.readBuff /\ u2.iov = u.readBuff
      /\ u2.stage = "client" /\ u2.parsed = u.parsed
      /\ u2.closed = u.closed /\ u2.proxy = u.proxy
  BY <1>2, <1>3 DEF Swapped, Conn
<1>5. Returns(load, u2, s, q) /\ UserFits(load, u2)
  BY <1>2, <1>4, SwapDataFact
<1>6. Sound(load, u2, s, q)
  BY <1>2, <1>5 DEF Sound, Carries
<1>7. Moves(c, p, u2, s, q)
  BY <1>1, <1>3, <1>4 DEF Moves, Up, Kind, Reg
<1> QED
  BY <1>1, <1>6, <1>7, CarryFact

(* A worker writes all there is to be written.                             *)
LEMMA WriteDataFact == ASSUME IInv, DInv, NEW w \in Workers, WriteAll(w) PROVE DInv'
<1> PICK c : c = cur[w]
  OBVIOUS
<1> PICK p : p = Up(c)
  OBVIOUS
<1> PICK u, s, q : u = users[c] /\ s = net[c] /\ q = net[p]
  OBVIOUS
<1>1. /\ pc[w] \in {"writeC", "writeP"} /\ pc[w] \in Ops
      /\ UNCHANGED <<batch, queue, cur, load, edge, conns, backlog>>
      /\ users' = [users EXCEPT ![c] = [u EXCEPT !.iov = <<>>, !.writeBuff = <<>>]]
      /\ \E l \in IF InProxy(w) THEN {"armPIn"} ELSE {"armCIn", "unregister"} :
           pc' = [pc EXCEPT ![w] = l]
  BY DEF WriteAll, listener, outside, Goto, Ops
<1>2. PICK l \in {"armPIn", "armCIn", "unregister"} :
        /\ pc' = [pc EXCEPT ![w] = l]
        /\ pc[w] = "writeP" => l = "armPIn"
        /\ pc[w] = "writeC" => l \in {"armCIn", "unregister"}
  BY <1>1 DEF InProxy
<1>3. /\ c \in Fds /\ p \in Fds /\ p # c /\ u \in Conn /\ UserFits(load, u) /\ SocketFits(load, s)
      /\ SocketFits(load, q) /\ Asking(load, s) /\ Carries(load, u, s, q)
      /\ s \in Sock /\ q \in Sock
  BY <1>1, TargetFact, FindFact
<1>4. /\ pc[w] = "writeC" => Target(w) = c /\ u.stage = "client"
      /\ pc[w] = "writeP" => Target(w) = p /\ u.stage = "upstream" /\ u.iov # <<>> /\ ~q.hup
  BY <1>1, TargetFact DEF Stage, Loaded
<1>5. net \in [Fds -> Sock]
  BY DEF IInv, Typed
<1>6. PICK u2 : u2 = [u EXCEPT !.iov = <<>>, !.writeBuff = <<>>]
  OBVIOUS
<1>7. /\ u2.iov = <<>> /\ u2.writeBuff = <<>> /\ u2.readBuff = u.readBuff
      /\ u2.stage = u.stage /\ u2.parsed = u.parsed
      /\ u2.closed = u.closed /\ u2.proxy = u.proxy
  BY <1>3, <1>6 DEF Conn
<1>8. users' = [users EXCEPT ![c] = u2]
  BY <1>1, <1>6
<1>9. CASE pc[w] = "writeP"
  <2>1. net' = [net EXCEPT ![p] = [q EXCEPT !.pending = q.pending \o u.iov]]
    BY <1>4, <1>9 DEF WriteAll, InProxy
  <2>2. PICK more : more = q.pending \o u.iov
    OBVIOUS
  <2>3. PICK q2 : q2 = [q EXCEPT !.pending = more]
    OBVIOUS
  <2>4. net' = [net EXCEPT ![p] = q2]
    BY <2>1, <2>2, <2>3
  <2>5. /\ q2.pending = more /\ q2.inbox = q.inbox /\ q2.ask = q.ask /\ q2.sent = q.sent
        /\ q2.kind = q.kind /\ q2.interest = q.interest
    BY <2>3, <1>3 DEF Sock
  <2>6. Awaits(load, u2, s, q2) /\ UserFits(load, u2) /\ SocketFits(load, q2)
    <3>1. Written(u, u2) /\ Pends(q, q2, u.iov)
      BY <2>2, <2>5, <1>7 DEF Written, Pends
    <3> QED
      BY <3>1, <1>3, <1>4, <1>9, SentDataFact
  <2>7. Sound(load, u2, s, q2)
    BY <2>6, <1>3 DEF Sound, Carries
  <2>8. net'[p] = q2 /\ \A f \in Fds : f # p => net'[f] = net[f]
    BY <2>4, <1>3, <1>5
  <2>9. Moves(c, p, u2, s, q2)
    BY <2>5, <2>8, <1>3, <1>7, <1>8 DEF Moves, Up, Kind, Reg
  <2> QED
    BY <2>7, <2>9, <1>1, <1>2, <1>9, CarryFact
<1>10. CASE pc[w] = "writeC"
  <2> PICK answered : answered = (\E i \in DOMAIN u.iov : u.iov[i] = s.ask)
    OBVIOUS
  <2>1. \/ net' = net /\ u.iov = <<>>
        \/ net' = [net EXCEPT ![c] = s] /\ ~ \E i \in DOMAIN u.iov : u.iov[i] = s.ask
        \/ /\ net' = [net EXCEPT ![c] = [s EXCEPT !.sent = 0, !.ask = <<s.ask[1], s.ask[2] + 1>>]]
           /\ \E i \in DOMAIN u.iov : u.iov[i] = s.ask
    <3>1. ~InProxy(w) /\ Target(w) = c
      BY <1>4, <1>10 DEF InProxy
    <3>2. CASE u.iov = <<>>
      BY <3>2 DEF WriteAll
    <3>3. CASE u.iov # <<>>
      BY <3>1, <3>3 DEF WriteAll
    <3> QED
      BY <3>2, <3>3
  <2>2. UserFits(load, u2)
    BY <1>3, <1>4, <1>7, <1>10, LoadFact, ReturnedDataFact
  <2>3. CASE \/ net' = net /\ u.iov = <<>>
             \/ net' = [net EXCEPT ![c] = s] /\ ~ \E i \in DOMAIN u.iov : u.iov[i] = s.ask
    <3>1. net' = net
      BY <2>3, <1>3, <1>5
    <3>2. Collects(load, u2, s, q)
      BY <2>3, <1>3, <1>4, <1>7, <1>10, LoadFact, ReturnedDataFact
    <3>3. Sound(load, u2, s, q)
      BY <2>2, <3>2, <1>3 DEF Sound, Carries
    <3>4. Moves(c, p, u2, s, q)
      BY <3>1, <1>7, <1>8 DEF Moves, Up, Kind, Reg
    <3> QED
      BY <3>2, <3>3, <3>4, <1>1, <1>2, <1>10, CarryFact
  <2>4. CASE /\ net' = [net EXCEPT ![c] = [s EXCEPT !.sent = 0, !.ask = <<s.ask[1], s.ask[2] + 1>>]]
             /\ \E i \in DOMAIN u.iov : u.iov[i] = s.ask
    <3>1. PICK a : a = <<s.ask[1], s.ask[2] + 1>>
      OBVIOUS
    <3>2. PICK s2 : s2 = [s EXCEPT !.sent = 0, !.ask = a]
      OBVIOUS
    <3>3. net' = [net EXCEPT ![c] = s2]
      BY <2>4, <3>1, <3>2
    <3>4. /\ s2.inbox = s.inbox /\ s2.pending = s.pending /\ s2.sent = 0 /\ s2.ask = a
          /\ s2.kind = s.kind /\ s2.interest = s.interest
      BY <3>2, <1>3 DEF Sock
    <3>5. Collects(load, u2, s2, q) /\ SocketFits(load, s2) /\ Asking(load, s2)
      BY <2>4, <3>1, <3>4, <1>3, <1>4, <1>7, <1>10, LoadFact, ReturnedDataFact
    <3>6. Sound(load, u2, s2, q)
      BY <2>2, <3>5, <1>3 DEF Sound, Carries
    <3>7. net'[c] = s2 /\ \A f \in Fds : f # c => net'[f] = net[f]
      BY <3>3, <1>3, <1>5
    <3>8. Moves(c, p, u2, s2, q)
      BY <3>4, <3>7, <1>3, <1>7, <1>8 DEF Moves, Up, Kind, Reg
    <3> QED
      BY <3>5, <3>6, <3>8, <1>1, <1>2, <1>10, CarryFact
  <2> QED
    BY <2>1, <2>3, <2>4
<1> QED
  BY <1>1, <1>9, <1>10

----------------------------------------------------------------------------
(***************************************************************************)
(* Steps that leave every request where it is                              *)
(***************************************************************************)

(* Sockets keep their data, nobody is sent to read that was not, and who   *)
(* closes goes on closing.                                                 *)
Keeps ==
  \A fd \in Fds : /\ Kind(fd) \in {"client", "upstream"} => Same(net[fd], net'[fd])
                  /\ Kind(fd)' = "client" => Kind(fd) = "client"
                  /\ SocketFits(load, net'[fd])
Calls ==
  \A d \in Fds : Open(d) =>
    /\ ToClient(d)' => ToClient(d)
    /\ ToServer(d)' => ToServer(d) \/ net[Up(d)].inbox # <<>>
    /\ HasRead(d)' => HasRead(d)
Ends ==
  \A d, t : t \in Procs /\ pc[t] = "closeProxy" /\ cur[t] = d =>
    pc'[t] = "closeProxy" /\ cur'[t] = d

(* Such a step.                                                            *)
LEMMA StillFact ==
  ASSUME IInv, DInv, UNCHANGED <<users, load>>, Keeps, Calls, Ends, Counted'
  PROVE  DInv'
<1>1. ASSUME NEW d \in Fds PROVE Served(d)'
  <2>1. Served(d)
    BY HereFact
  <2>2. Kind(d)' = "client" => Kind(d) = "client" /\ Same(net[d], net'[d])
    BY DEF Keeps
  <2>3. Open(d) => Same(net[d], net'[d]) /\ Same(net[Up(d)], net'[Up(d)])
    BY WireFact DEF Keeps
  <2>4. Open(d) => /\ ToClient(d)' => ToClient(d)
                   /\ ToServer(d)' => ToServer(d) \/ net[Up(d)].inbox # <<>>
                   /\ HasRead(d)' => HasRead(d)
    BY DEF Calls
  <2>5. \A t \in Procs : pc[t] = "closeProxy" /\ cur[t] = d => pc'[t] = "closeProxy" /\ cur'[t] = d
    BY DEF Ends
  <2> QED
    BY <2>1, <2>2, <2>3, <2>4, <2>5, AloneFact
<1>2. Fits'
  BY DEF DInv, Fits, Keeps
<1> QED
  BY <1>1, <1>2 DEF DInv

(* Sockets that a step does not touch.                                     *)
LEMMA UntouchedFact ==
  ASSUME DInv, UNCHANGED <<net, load>>
  PROVE  Keeps
BY DEF Keeps, DInv, Fits, Same, Kind

(* The sockets' data alone matter.                                         *)
LEMMA KeepsFact ==
  ASSUME DInv, load' = load,
         \A fd \in Fds : Same(net[fd], net'[fd]) /\ (Kind(fd)' = "client" => Kind(fd) = "client")
  PROVE  Keeps
<1>1. \A fd \in Fds : SocketFits(load, net[fd])
  BY DEF DInv, Fits
<1>2. \A fd \in Fds : SocketFits(load, net'[fd])
  BY <1>1 DEF Same, SocketFits
<1> QED
  BY <1>2 DEF Keeps

(* A thread goes on, and not to read.                                      *)
Arms(t) ==
  \A d \in Fds : Open(d) /\ Reg(d)' = "in" =>
    Reg(d) = "in" \/ (cur[t] = d /\ pc[t] = "armCIn")
LEMMA GoFact ==
  ASSUME IInv, NEW t \in Procs, pc[t] # "closeProxy",
         NEW l, l \notin {"readC", "armCIn", "process", "readP"}, pc' = [pc EXCEPT ![t] = l],
         \A r \in Procs : r # t => cur'[r] = cur[r],
         UNCHANGED <<batch, queue, users>>, Arms(t)
  PROVE  Calls /\ Ends
<1>1. pc'[t] = l /\ \A r \in Procs : r # t => pc'[r] = pc[r] /\ cur'[r] = cur[r]
  BY DEF IInv, Typed
<1>2. ASSUME NEW d \in Fds, Open(d)
      PROVE  /\ ToClient(d)' => ToClient(d)
             /\ ToServer(d)' => ToServer(d)
             /\ HasRead(d)' => HasRead(d)
  <2>1. Reg(d)' = "in" => Reg(d) = "in" \/ (cur[t] = d /\ pc[t] = "armCIn")
    BY <1>2 DEF Arms
  <2>2. Up(d)' = Up(d)
    BY DEF Up
  <2>3. ToClient(d)' => ToClient(d)
    BY <1>1, <2>1 DEF ToClient
  <2>4. ToServer(d)' => ToServer(d)
    BY <1>1, <2>2 DEF ToServer
  <2>5. HasRead(d)' => HasRead(d)
    BY <1>1 DEF HasRead
  <2> QED
    BY <2>3, <2>4, <2>5
<1>3. Calls
  BY <1>2 DEF Calls
<1>4. Ends
  BY <1>1 DEF Ends
<1> QED
  BY <1>3, <1>4

(* A worker has to wait for room, or fails to write.                       *)
LEMMA BlockedDataFact ==
  ASSUME IInv, DInv, NEW w \in Workers, WriteBlocks(w) \/ WriteFails(w)
  PROVE  DInv'
<1> PICK fd : fd = Target(w)
  OBVIOUS
<1>1. /\ w \in Procs /\ pc[w] \in {"writeC", "writeP"} /\ pc[w] # "closeProxy"
      /\ UNCHANGED <<users, load, batch, queue, conns, backlog, edge>>
  BY NumberFact DEF WriteBlocks, WriteFails, listener, outside
<1>2. /\ fd \in Fds /\ net[fd] \in Sock
      /\ pc[w] = "writeP" => ~net[fd].hup
      /\ IsOpen(fd)
  BY <1>1, TargetFact DEF Ops
<1>3. PICK l \in {"armCOut", "armPOut", "unregister"} : pc' = [pc EXCEPT ![w] = l] /\ cur' = cur
  <2>1. WriteFails(w) => pc[w] = "writeC"
    BY <1>1, <1>2 DEF WriteFails
  <2>2. CASE WriteFails(w)
    BY <2>1, <2>2 DEF WriteFails, InProxy, Goto
  <2>3. CASE WriteBlocks(w)
    BY <2>3 DEF WriteBlocks, Again, Goto
  <2> QED
    BY <2>2, <2>3
<1>4. \A f \in Fds : Same(net[f], net'[f]) /\ Kind(f)' = Kind(f) /\ Reg(f)' = Reg(f)
  <2>1. CASE WriteFails(w)
    BY <2>1 DEF WriteFails, Same, Kind, Reg
  <2>2. CASE WriteBlocks(w)
    <3>1. net' = [net EXCEPT ![fd] = [net[fd] EXCEPT !.full = TRUE]]
      BY <2>2, <1>2 DEF WriteBlocks, IInv, Typed
    <3>2. PICK n : n = [net[fd] EXCEPT !.full = TRUE]
      OBVIOUS
    <3>3. Same(net[fd], n) /\ n.kind = net[fd].kind /\ n.interest = net[fd].interest
      BY <3>2, <1>2 DEF Sock, Same
    <3>4. net'[fd] = n /\ \A f \in Fds : f # fd => net'[f] = net[f]
      BY <3>1, <3>2, <1>2 DEF IInv, Typed
    <3> QED
      BY <3>3, <3>4 DEF Same, Kind, Reg
  <2> QED
    BY <2>1, <2>2
<1>5. Keeps
  BY <1>1, <1>4, KeepsFact
<1>6. Calls /\ Ends
  BY <1>1, <1>3, <1>4, GoFact DEF Arms
<1>7. Counted'
  BY <1>1 DEF DInv, Counted
<1> QED
  BY <1>1, <1>5, <1>6, <1>7, StillFact

(* A worker arms a descriptor.                                             *)
LEMMA ModDataFact == ASSUME IInv, DInv, NEW w \in Workers, ModFd(w) PROVE DInv'
<1> PICK c : c = cur[w]
  OBVIOUS
<1> PICK fd : fd = Target(w)
  OBVIOUS
<1>1. /\ w \in Procs /\ pc[w] \in {"armCIn", "armCOut", "armPIn", "armPOut"}
      /\ pc[w] \in Holding /\ pc[w] # "closeProxy" /\ pc[w] # "close"
      /\ UNCHANGED <<users, load, batch, queue, conns, backlog, edge>>
  BY NumberFact DEF ModFd, listener, outside, Holding, Labels
<1>2. c \in Fds /\ Open(c)
  BY <1>1, HandFact
<1>3. /\ fd \in Fds /\ net[fd] \in Sock
      /\ pc[w] \in {"armCIn", "armCOut"} => fd = c
      /\ pc[w] \in {"armPIn", "armPOut"} => fd = Up(c)
  <2>1. Up(c) \in Fds
    BY <1>2, WireFact
  <2>2. /\ pc[w] \in {"armCIn", "armCOut"} => fd = c
        /\ pc[w] \in {"armPIn", "armPOut"} => fd = Up(c)
    BY DEF Target, Up
  <2> QED
    BY <2>1, <2>2, <1>1, <1>2 DEF IInv, Typed
<1>4. PICK l \in {"idle", "dispatch"} : pc' = [pc EXCEPT ![w] = l] /\ cur' = [cur EXCEPT ![w] = NoFd]
  BY <1>1, ThreadTypeFact DEF ModFd, IInv
<1>5. PICK i : /\ net' = [net EXCEPT ![fd].interest = i]
               /\ i = "in" => pc[w] \in {"armCIn", "armPIn"}
  <2>1. net' = [net EXCEPT ![fd].interest =
                  IF net[fd].interest = "none" THEN net[fd].interest
                  ELSE IF pc[w] \in {"armCIn", "armPIn"} THEN "in" ELSE "out"]
    BY <1>1, <1>3 DEF ModFd, IInv, Typed
  <2>2. Reg(fd) # "none"
    BY <1>1, <1>2, <1>3, HandFact
  <2>3. PICK i : i = IF pc[w] \in {"armCIn", "armPIn"} THEN "in" ELSE "out"
    OBVIOUS
  <2>4. net' = [net EXCEPT ![fd].interest = i]
    BY <2>1, <2>2, <2>3 DEF Reg
  <2>5. i = "in" => pc[w] \in {"armCIn", "armPIn"}
    BY <2>3
  <2> QED
    BY <2>4, <2>5
<1>6. PICK n : n = [net[fd] EXCEPT !.interest = i]
  OBVIOUS
<1>7. Same(net[fd], n) /\ n.kind = net[fd].kind /\ n.interest = i
  BY <1>3, <1>6 DEF Sock, Same
<1>8. net'[fd] = n /\ \A f \in Fds : f # fd => net'[f] = net[f]
  BY <1>3, <1>5, <1>6 DEF IInv, Typed
<1>9. Keeps
  <2>1. \A f \in Fds : Same(net[f], net'[f]) /\ Kind(f)' = Kind(f)
    BY <1>7, <1>8 DEF Same, Kind
  <2> QED
    BY <1>1, <2>1, KeepsFact
<1>10. Arms(w)
  <2>1. ASSUME NEW d \in Fds, Open(d), Reg(d)' = "in", d = fd
        PROVE  cur[w] = d /\ pc[w] = "armCIn"
    <3>1. fd # Up(c)
      BY <2>1, <1>2, WireFact
    <3>2. i = "in"
      BY <2>1, <1>7, <1>8 DEF Reg
    <3> QED
      BY <3>1, <3>2, <2>1, <1>1, <1>3, <1>5
  <2>2. \A d \in Fds : d # fd => Reg(d)' = Reg(d)
    BY <1>8 DEF Reg
  <2> QED
    BY <2>1, <2>2 DEF Arms
<1>11. Calls /\ Ends
  <2>1. \A r \in Procs : r # w => cur'[r] = cur[r]
    BY <1>4
  <2> QED
    BY <2>1, <1>1, <1>4, <1>10, GoFact
<1>12. Counted'
  BY <1>1 DEF DInv, Counted
<1> QED
  BY <1>1, <1>9, <1>11, <1>12, StillFact

(* A thread begins to close its user.                                      *)
LEMMA UnregisterDataFact ==
  ASSUME IInv, DInv, NEW t \in Procs, Unregister(t)
  PROVE  DInv'
<1>1. /\ pc[t] = "unregister" /\ pc[t] # "closeProxy" /\ pc' = [pc EXCEPT ![t] = "close"]
      /\ UNCHANGED <<users, batch, queue, cur, load, conns, backlog, edge>>
  BY DEF Unregister, Goto, listener, outside
<1> PICK gone : gone = {cur[t], users[cur[t]].proxy}
  OBVIOUS
<1>2. net' = [fd \in Fds |-> IF fd \in gone THEN [net[fd] EXCEPT !.interest = "none"] ELSE net[fd]]
  BY DEF Unregister
<1>3. ASSUME NEW fd \in Fds
      PROVE  Same(net[fd], net'[fd]) /\ Kind(fd)' = Kind(fd) /\ (Reg(fd)' = Reg(fd) \/ Reg(fd)' = "none")
  <2>1. net[fd] \in Sock
    BY DEF IInv, Typed
  <2>2. CASE fd \in gone
    <3>1. net'[fd] = [net[fd] EXCEPT !.interest = "none"]
      BY <1>2, <2>2
    <3> QED
      BY <2>1, <3>1 DEF Sock, Same, Kind, Reg
  <2>3. CASE fd \notin gone
    <3>1. net'[fd] = net[fd]
      BY <1>2, <2>3
    <3> QED
      BY <3>1 DEF Same, Kind, Reg
  <2> QED
    BY <2>2, <2>3
<1>4. Keeps
  BY <1>1, <1>3, KeepsFact
<1>5. Calls /\ Ends
  <2>1. Arms(t)
    BY <1>3 DEF Arms
  <2> QED
    BY <2>1, <1>1, GoFact
<1>6. Counted'
  BY <1>1 DEF DInv, Counted
<1> QED
  BY <1>1, <1>4, <1>5, <1>6, StillFact

(* The reactor goes on.                                                    *)
LEMMA ReactorDataFact ==
  ASSUME IInv, DInv, BatchDone \/ AcceptBusy \/ AcceptFails
  PROVE  DInv'
<1>1. /\ Main \in Procs /\ pc[Main] # "closeProxy"
      /\ UNCHANGED <<net, users, batch, queue, cur, load, conns, edge>>
      /\ \E l \in {"top", "dispatch"} : pc' = [pc EXCEPT ![Main] = l]
      /\ backlog' = backlog \/ (backlog > 0 /\ backlog' = backlog - 1)
  BY NumberFact DEF BatchDone, AcceptBusy, AcceptFails, Accepting, Goto, listener, outside
<1>2. Arms(Main)
  BY <1>1 DEF Arms, Reg
<1>3. Calls /\ Ends
  BY <1>1, <1>2, GoFact
<1>4. Counted'
  BY <1>1, LoadFact DEF DInv, Counted
<1>5. Keeps
  BY <1>1, UntouchedFact
<1> QED
  BY <1>1, <1>3, <1>4, <1>5, StillFact

(* The reactor takes an event.                                             *)
LEMMA DispatchDataFact ==
  ASSUME IInv, DInv, NEW fd \in Fds \cup {NoFd},
         NEW kind \in {"listen", "disconnect", "read", "write"}, Dispatch(fd, kind)
  PROVE  DInv'
<1>1. /\ Main \in Procs /\ pc[Main] = "dispatch" /\ pc[Main] # "closeProxy" /\ <<fd, kind>> \in batch
      /\ batch' = batch \ {<<fd, kind>>}
      /\ UNCHANGED <<net, users, load, conns, backlog, edge>>
  BY NumberFact DEF Dispatch, listener, outside
<1>2. /\ \A r \in Procs : r # Main => pc'[r] = pc[r] /\ cur'[r] = cur[r]
      /\ pc'[Main] \in {"accept", "unregister", "dispatch", "reconnect"}
  <2>1. CASE kind = "listen"
    BY <1>1, <2>1 DEF Dispatch, Goto, IInv, Typed
  <2>2. CASE kind = "disconnect"
    BY <1>1, <2>2 DEF Dispatch, Goto, IInv, Typed
  <2>3. CASE kind \in {"read", "write"}
    BY <1>1, <2>3 DEF Dispatch
  <2> QED
    BY <2>1, <2>2, <2>3
<1>3. ASSUME NEW i \in DOMAIN queue', NEW d \in Fds, Open(d)
      PROVE  /\ queue'[i] = <<d, "readC">> => \/ \E j \in DOMAIN queue : queue[j] = <<d, "readC">>
                                              \/ <<d, "read">> \in batch
             /\ queue'[i] = <<d, "readP">> => \/ \E j \in DOMAIN queue : queue[j] = <<d, "readP">>
                                              \/ <<Up(d), "read">> \in batch
  <2>1. CASE kind \in {"listen", "disconnect"}
    <3>1. queue' = queue
      BY <2>1 DEF Dispatch
    <3> QED
      BY <3>1
  <2>2. CASE kind \in {"read", "write"}
    <3>1. fd \in Fds /\ fd # NoFd
      <4>1. <<fd, kind>>[1] = fd /\ <<fd, kind>>[2] = kind
        OBVIOUS
      <4>2. fd # NoFd
        BY <4>1, <2>2, <1>1, BatchFact
      <4> QED
        BY <4>2
    <3>2. PICK user, op : /\ queue' = Append(queue, <<user, op>>)
                          /\ IF map[fd] # NoFd
                             THEN user = map[fd] /\ op = IF kind = "read" THEN "readP" ELSE "writeP"
                             ELSE user = fd /\ op = IF kind = "read" THEN "readC" ELSE "writeC"
      BY <2>2, <3>1 DEF Dispatch
    <3>3. queue'[i] = <<user, op>> \/ \E j \in DOMAIN queue : queue[j] = queue'[i]
      <4>1. queue \in Seq(Fds \X Ops)
        BY DEF IInv, Typed
      <4> PICK e : e = <<user, op>>
        OBVIOUS
      <4>2. queue' = Append(queue, e)
        BY <3>2
      <4>3. i \in 1 .. Len(queue) + 1
        BY <4>1, <4>2
      <4>4. CASE i = Len(queue) + 1
        BY <4>1, <4>2, <4>4
      <4>5. CASE i \in 1 .. Len(queue)
        BY <4>1, <4>2, <4>5
      <4> QED
        BY <4>3, <4>4, <4>5, <4>1
    <3>4. map[fd] # NoFd => Up(map[fd]) = fd
      BY <3>1 DEF IInv, Wired
    <3>5. <<user, op>> = <<d, "readC">> => user = d /\ op = "readC"
      OBVIOUS
    <3>6. <<user, op>> = <<d, "readP">> => user = d /\ op = "readP"
      OBVIOUS
    <3>7. user = d /\ op = "readC" => <<d, "read">> \in batch
      BY <3>2, <2>2, <1>1
    <3>8. user = d /\ op = "readP" => <<Up(d), "read">> \in batch
      BY <3>2, <3>4, <2>2, <1>1
    <3> QED
      BY <3>3, <3>5, <3>6, <3>7, <3>8
  <2> QED
    BY <2>1, <2>2
<1>4. Calls
  <2>1. ASSUME NEW d \in Fds, Open(d)
        PROVE  /\ ToClient(d)' => ToClient(d)
               /\ ToServer(d)' => ToServer(d)
               /\ HasRead(d)' => HasRead(d)
    <3>1. Up(d)' = Up(d) /\ Reg(d)' = Reg(d)
      BY <1>1 DEF Up, Reg
    <3>2. \A t \in Procs : cur'[t] = d /\ pc'[t] \in {"readC", "readP", "armCIn", "process"} =>
            cur[t] = d /\ pc[t] = pc'[t]
      BY <1>2
    <3>3. ToClient(d)' => ToClient(d)
      BY <3>1, <3>2, <2>1, <1>1, <1>3 DEF ToClient
    <3>4. ToServer(d)' => ToServer(d)
      BY <3>1, <3>2, <2>1, <1>1, <1>3 DEF ToServer
    <3>5. HasRead(d)' => HasRead(d)
      BY <3>2 DEF HasRead
    <3> QED
      BY <3>3, <3>4, <3>5
  <2> QED
    BY <2>1 DEF Calls
<1>5. Ends
  BY <1>1, <1>2 DEF Ends
<1>6. Keeps
  BY <1>1, UntouchedFact
<1>7. Counted'
  BY <1>1 DEF DInv, Counted
<1> QED
  BY <1>1, <1>4, <1>5, <1>6, <1>7, StillFact

(* A worker takes the next task.                                           *)
LEMMA TakeDataFact == ASSUME IInv, DInv, NEW w \in Workers, Take(w) PROVE DInv'
<1>1. /\ w \in Procs /\ pc[w] = "idle" /\ pc[w] # "closeProxy" /\ queue # <<>> /\ queue' = Tail(queue)
      /\ UNCHANGED <<net, users, batch, load, conns, backlog, edge>>
  BY NumberFact DEF Take, listener, outside
<1>2. queue \in Seq(Fds \X Ops)
  BY DEF IInv, Typed
<1>3. /\ Head(queue) = queue[1] /\ 1 \in DOMAIN queue
      /\ \A i \in DOMAIN queue' : i + 1 \in DOMAIN queue /\ queue'[i] = queue[i + 1]
  BY <1>1, <1>2
<1>4. PICK c \in Fds, l \in Ops : /\ queue[1] = <<c, l>>
                                 /\ cur' = [cur EXCEPT ![w] = c]
                                 /\ pc' = [pc EXCEPT ![w] = l]
  <2>1. PICK c \in Fds, l \in Ops : queue[1] = <<c, l>>
    BY <1>2, <1>3
  <2>2. queue[1][1] = c /\ queue[1][2] = l
    BY <2>1
  <2> QED
    BY <2>1, <2>2, <1>3 DEF Take, Goto
<1>5. /\ cur'[w] = c /\ pc'[w] = l /\ l \notin {"armCIn", "process"}
      /\ \A r \in Procs : r # w => pc'[r] = pc[r] /\ cur'[r] = cur[r]
  BY <1>1, <1>4 DEF IInv, Typed, Ops
<1>6. \A i \in DOMAIN queue' : \E j \in DOMAIN queue : queue'[i] = queue[j]
  BY <1>3
<1>7. ASSUME NEW d \in Fds, Open(d)
      PROVE  /\ ToClient(d)' => ToClient(d)
             /\ ToServer(d)' => ToServer(d)
             /\ HasRead(d)' => HasRead(d)
  <2>1. Up(d)' = Up(d) /\ Reg(d)' = Reg(d)
    BY <1>1 DEF Up, Reg
  <2>2. c = d => queue[1] = <<d, l>>
    BY <1>4
  <2>3. ToClient(d)' => ToClient(d)
    BY <2>1, <2>2, <1>1, <1>3, <1>5, <1>6 DEF ToClient
  <2>4. ToServer(d)' => ToServer(d)
    BY <2>1, <2>2, <1>1, <1>3, <1>5, <1>6 DEF ToServer
  <2>5. HasRead(d)' => HasRead(d)
    BY <1>5 DEF HasRead
  <2> QED
    BY <2>3, <2>4, <2>5
<1>8. Calls
  BY <1>7 DEF Calls
<1>9. Ends
  BY <1>1, <1>5 DEF Ends
<1>10. Keeps
  BY <1>1, UntouchedFact
<1>11. Counted'
  BY <1>1 DEF DInv, Counted
<1> QED
  BY <1>1, <1>8, <1>9, <1>10, <1>11, StillFact

(* The reactor gets the next events.                                       *)
LEMMA WaitDataFact == ASSUME IInv, DInv, Wait PROVE DInv'
<1>1. /\ Main \in Procs /\ pc[Main] = "top" /\ batch = {}
      /\ pc' = [pc EXCEPT ![Main] = "dispatch"]
      /\ batch' = {<<fd, Event(fd)>> : fd \in ReadyFds}
                    \cup (IF ListenReady THEN {<<NoFd, "listen">>} ELSE {})
      /\ net' = [fd \in Fds |-> IF fd \in ReadyFds THEN Disarmed(net[fd]) ELSE net[fd]]
      /\ UNCHANGED <<users, queue, cur, load, conns, backlog>> /\ edge' = FALSE
  BY NumberFact DEF Wait, Goto, IInv, Placed, listener, outside
<1>2. ASSUME NEW fd \in Fds
      PROVE  Same(net[fd], net'[fd]) /\ Kind(fd)' = Kind(fd) /\ (Reg(fd)' = Reg(fd) \/ Reg(fd)' = "off")
  <2>1. net[fd] \in Sock
    BY DEF IInv, Typed
  <2>2. CASE fd \in ReadyFds
    <3>1. net'[fd] = [net[fd] EXCEPT !.interest = "off"] \/ net'[fd] = net[fd]
      BY <1>1, <2>2 DEF Disarmed
    <3> QED
      BY <2>1, <3>1 DEF Sock, Same, Kind, Reg
  <2>3. CASE fd \notin ReadyFds
    <3>1. net'[fd] = net[fd]
      BY <1>1, <2>3
    <3> QED
      BY <3>1 DEF Same, Kind, Reg
  <2> QED
    BY <2>2, <2>3
<1>3. \A fd \in Fds : <<fd, "read">> \in batch' => Reg(fd) = "in" /\ net[fd].inbox # <<>>
  <2>1. ASSUME NEW fd \in Fds, <<fd, "read">> \in batch' PROVE fd \in ReadyFds /\ Event(fd) = "read"
    <3>1. <<fd, "read">> # <<NoFd, "listen">>
      BY NumberFact
    <3>2. PICK f \in ReadyFds : <<fd, "read">> = <<f, Event(f)>>
      BY <3>1, <2>1, <1>1
    <3> QED
      BY <3>2
  <2> QED
    BY <2>1, EventFact DEF IInv
<1>4. \A t \in Procs : pc'[t] = pc[t] \/ (t = Main /\ pc'[t] = "dispatch")
  BY <1>1 DEF IInv, Typed
<1>5. ASSUME NEW d \in Fds, Open(d)
      PROVE  /\ ToClient(d)' => ToClient(d)
             /\ ToServer(d)' => ToServer(d) \/ net[Up(d)].inbox # <<>>
             /\ HasRead(d)' => HasRead(d)
  <2>1. Up(d)' = Up(d) /\ Up(d) \in Fds
    BY <1>1, <1>5, WireFact DEF Up
  <2>2. <<d, "read">> \in batch' \/ Reg(d)' = "in" => Reg(d) = "in"
    BY <1>2, <1>3
  <2>3. <<Up(d), "read">> \in batch' => net[Up(d)].inbox # <<>>
    BY <1>3, <2>1
  <2>4. ToClient(d)' => ToClient(d)
    BY <2>2, <1>1, <1>4 DEF ToClient
  <2>5. ToServer(d)' => ToServer(d) \/ net[Up(d)].inbox # <<>>
    BY <2>1, <2>3, <1>1, <1>4 DEF ToServer
  <2>6. HasRead(d)' => HasRead(d)
    BY <1>1, <1>4 DEF HasRead
  <2> QED
    BY <2>4, <2>5, <2>6
<1>6. Calls
  BY <1>5 DEF Calls
<1>7. Ends
  <2>1. \A t \in Procs : pc[t] = "closeProxy" => pc'[t] = "closeProxy"
    BY <1>1, <1>4
  <2> QED
    BY <2>1, <1>1 DEF Ends
<1>8. Keeps
  BY <1>1, <1>2, KeepsFact
<1>9. Counted'
  BY <1>1 DEF DInv, Counted
<1> QED
  BY <1>1, <1>6, <1>7, <1>8, <1>9, StillFact

(* An upstream server that is away: two descriptors are lost.              *)
LEMMA LostDataFact == ASSUME IInv, DInv, AcceptUnreachable PROVE DInv'
<1>1. /\ UNCHANGED <<users, batch, queue, pc, cur, load, conns, edge>>
      /\ backlog > 0 /\ backlog' = backlog - 1
  BY DEF AcceptUnreachable, Accepting, threads
<1>2. Accepted \in Free /\ (Cardinality(Free) > 1 => Min(Free \ {Accepted}) \in Free)
  <2>1. Free \subseteq Fds /\ Free # {}
    BY DEF AcceptUnreachable, Accepting, Free
  <2>2. Accepted \in Free
    BY <2>1, MinFact DEF Accepted
  <2>3. Cardinality(Free) > 1 => Free # {Accepted}
    BY FS_Singleton
  <2>4. Cardinality(Free) > 1 => Free \ {Accepted} # {} /\ Free \ {Accepted} \subseteq Fds
    BY <2>1, <2>2, <2>3
  <2>5. Cardinality(Free) > 1 => Min(Free \ {Accepted}) \in Free \ {Accepted}
    BY <2>4, MinFact
  <2> QED
    BY <2>2, <2>5
<1>3. \A f \in Fds : net'[f] = net[f] \/ (f \in Free /\ net'[f] = Lost)
  BY <1>2 DEF AcceptUnreachable, IInv, Typed
<1>4. /\ Lost.kind = "lost" /\ Lost.interest = "none"
      /\ SocketFits(load, Lost)
  <2>1. /\ Lost.kind = "lost" /\ Lost.interest = "none" /\ Lost.inbox = <<>>
        /\ Lost.pending = <<>> /\ Lost.ask = Junk /\ Lost.sent = 0
    BY DEF Lost, Unused
  <2>2. 0 \in 0 .. load.parts
    BY LoadFact
  <2> QED
    BY <2>1, <2>2 DEF SocketFits, Known
<1>5. Keeps
  <2>1. \A f \in Fds : SocketFits(load, net'[f])
    BY <1>3, <1>4 DEF DInv, Fits
  <2>2. \A f \in Free : Kind(f) = "free"
    BY DEF Free, Kind
  <2>3. \A f \in Fds : /\ Kind(f) \in {"client", "upstream"} => Same(net[f], net'[f])
                       /\ Kind(f)' = "client" => Kind(f) = "client"
    BY <1>3, <1>4, <2>2 DEF Same, Kind
  <2> QED
    BY <2>1, <2>3 DEF Keeps
<1>6. Calls
  <2>1. \A d \in Fds : Open(d) => Reg(d)' = Reg(d) /\ Up(d)' = Up(d)
    <3>1. \A d \in Fds : Open(d) => d \notin Free
      BY WireFact DEF Free, Kind
    <3> QED
      BY <3>1, <1>1, <1>3 DEF Reg, Up
  <2> QED
    BY <2>1, <1>1 DEF Calls, ToClient, ToServer, HasRead
<1>7. Ends
  BY <1>1 DEF Ends
<1>8. Counted'
  BY <1>1, LoadFact DEF DInv, Counted
<1> QED
  BY <1>1, <1>5, <1>6, <1>7, <1>8, StillFact

----------------------------------------------------------------------------
(***************************************************************************)
(* The other ends, and users that come and go                              *)
(***************************************************************************)

(* One more piece of a request is on its way.                              *)
LEMMA PieceFact ==
  ASSUME NEW l, NEW u, NEW s, NEW p, Carries(l, u, s, p), Asking(l, s),
         SocketFits(l, s), UserFits(l, u), s.sent < l.parts, s.ask[2] <= l.asked, l.parts \in Nat,
         NEW s2, s2.sent = s.sent + 1, s2.inbox = Append(s.inbox, s.ask),
         s2.ask = s.ask, s2.pending = s.pending
  PROVE  Collects(l, u, s2, p) /\ Asking(l, s2) /\ SocketFits(l, s2)
<1>1. s.sent \in 0 .. l.parts /\ s.inbox \in Seq(Known(l)) /\ s.ask \in Known(l)
  BY DEF SocketFits
<1>2. Collects(l, u, s, p)
  <2>1. s.sent # l.parts
    BY <1>1
  <2> QED
    BY <2>1 DEF Carries, Forwards, Awaits, Receives, Converts, Returns, Whole
<1> PICK a, m : a = s.inbox /\ m = s.ask
  OBVIOUS
<1> PICK e : e = Append(a, m)
  OBVIOUS
<1>3. e \in Seq(Known(l)) /\ Len(e) = Len(a) + 1 /\ Len(a) \in Nat
  BY <1>1
<1>4. Copies(e, m)
  BY <1>1, <1>2, CopiesFact DEF Collects
<1>5. s2.sent = Had(l, u) + Len(u.readBuff) + Len(e)
  <2> PICK h, r : h = Had(l, u) /\ r = Len(u.readBuff)
    OBVIOUS
  <2>1. h \in Int /\ r \in Int
    BY LengthFact DEF Had, UserFits
  <2>2. s.sent = h + r + Len(a)
    BY <1>2 DEF Collects
  <2>3. s2.sent = h + r + Len(a) + 1
    BY <2>2
  <2>4. \A x, y, z \in Int : x + y + z + 1 = x + y + (z + 1)
    OBVIOUS
  <2>5. Len(a) \in Int
    BY <1>3
  <2>6. h + r + Len(a) + 1 = h + r + (Len(a) + 1)
    BY <2>1, <2>4, <2>5, Zenon
  <2> QED
    BY <2>3, <2>6, <1>3, Zenon
<1>6. Collects(l, u, s2, p)
  BY <1>2, <1>4, <1>5 DEF Collects
<1>7. Asking(l, s2)
  BY DEF Asking
<1>8. s.sent + 1 \in 0 .. l.parts
  BY <1>1
<1>9. SocketFits(l, s2)
  BY <1>1, <1>3, <1>8 DEF SocketFits
<1> QED
  BY <1>6, <1>7, <1>9

(* The upstream server answers.                                            *)
Replies(p, p2) ==
  p2.pending = Tail(p.pending) /\ p2.inbox = Append(p.inbox, Head(p.pending))
LEMMA ReplyFact ==
  ASSUME NEW l, NEW u, NEW s, NEW p, Carries(l, u, s, p), SocketFits(l, p), p.pending # <<>>,
         NEW p2, Replies(p, p2)
  PROVE  /\ Receives(l, u, s, p2) /\ u.stage = "upstream"
         /\ ~Receives(l, u, s, p) /\ ~Converts(l, u, s, p)
<1>1. Awaits(l, u, s, p)
  BY DEF Carries, Collects, Forwards, Receives, Converts, Returns, Only
<1>2. p.pending = <<s.ask>> /\ p.inbox = <<>>
  BY <1>1 DEF Awaits, Only
<1>3. p2.pending = <<>> /\ p2.inbox = <<s.ask>>
  BY <1>2 DEF Replies
<1>4. Receives(l, u, s, p2) /\ u.stage = "upstream"
  BY <1>1, <1>3 DEF Awaits, Receives, Whole, Only
<1> QED
  BY <1>4 DEF Receives, Converts, Only

(* What the other end of one socket does.                                  *)
Alters(fd, n) ==
  /\ net'[fd] = n /\ \A f \in Fds : f # fd => net'[f] = net[f]
  /\ \A f \in Fds : Kind(f)' = Kind(f) /\ Reg(f)' = Reg(f)
LEMMA OtherEndFact ==
  ASSUME IInv, DInv, NEW fd \in Fds, NEW n, Alters(fd, n), SocketFits(load, n),
         UNCHANGED <<users, load, batch, queue, pc, cur, conns, backlog, edge>>
  PROVE  /\ Fits' /\ Counted'
         /\ \A d \in Fds : /\ ToClient(d)' = ToClient(d)
                           /\ ToServer(d)' = ToServer(d)
                           /\ HasRead(d)' = HasRead(d)
         /\ \A d \in Fds : d # fd /\ (Open(d) => Up(d) # fd) => Served(d)'
         /\ \A d \in Fds : Same(net[fd], n) => Served(d)'
<1>1. Fits'
  BY DEF DInv, Fits, Alters
<1>2. Counted'
  BY DEF DInv, Counted
<1>3. ASSUME NEW d \in Fds
      PROVE  /\ ToClient(d)' = ToClient(d)
             /\ ToServer(d)' = ToServer(d)
             /\ HasRead(d)' = HasRead(d)
  <2>1. Reg(d)' = Reg(d) /\ Up(d)' = Up(d)
    BY DEF Alters, Up
  <2> QED
    BY <2>1 DEF ToClient, ToServer, HasRead
<1>4. ASSUME NEW d \in Fds,
             (d # fd /\ (Open(d) => Up(d) # fd)) \/ Same(net[fd], n)
      PROVE  Served(d)'
  <2>1. Served(d) /\ users'[d] = users[d] /\ Kind(d)' = Kind(d)
    BY HereFact DEF Alters
  <2>2. Same(net[d], net'[d]) /\ (Open(d) => Same(net[Up(d)], net'[Up(d)]))
    BY <1>4, WireFact DEF Alters, Same
  <2>3. \A t \in Procs : pc[t] = "closeProxy" /\ cur[t] = d => pc'[t] = "closeProxy" /\ cur'[t] = d
    OBVIOUS
  <2> QED
    BY <1>3, <2>1, <2>2, <2>3, AloneFact
<1> QED
  BY <1>1, <1>2, <1>3, <1>4

(* The clients and the upstream server.                                    *)
LEMMA OutsideDataFact ==
  ASSUME IInv, DInv, Outside, drops' = 0, drops \in Nat
  PROVE  DInv'
<1>1. CASE Connect
  <2>1. /\ UNCHANGED <<net, users, load, batch, queue, pc, cur>>
        /\ conns < load.conns /\ conns' = conns + 1 /\ backlog' = backlog + 1 /\ edge' = TRUE
    BY <1>1 DEF Connect, threads
  <2>2. Keeps
    BY <2>1, UntouchedFact
  <2>3. Calls /\ Ends
    BY <2>1 DEF Calls, Ends, ToClient, ToServer, HasRead, Reg, Up
  <2>4. Counted'
    BY <2>1, LoadFact DEF DInv, Counted
  <2> QED
    BY <2>1, <2>2, <2>3, <2>4, StillFact
<1>2. ASSUME NEW fd \in Fds, Send(fd) \/ HangUp(fd) \/ Drain(fd) \/ Answer(fd) \/ Drop(fd)
      PROVE  DInv'
  <2> PICK n : n = net[fd]
    OBVIOUS
  <2>1. n \in Sock /\ SocketFits(load, n)
    BY HereFact DEF IInv, Typed
  <2>2. UNCHANGED <<users, load, batch, queue, pc, cur, conns, backlog, edge>>
    BY <1>2 DEF Send, HangUp, Drain, Answer, Drop, Peer, listener, threads
  <2>3. ASSUME NEW m, net' = [net EXCEPT ![fd] = m], m.kind = n.kind, m.interest = n.interest
        PROVE  Alters(fd, m)
    <3>1. net'[fd] = m /\ \A f \in Fds : f # fd => net'[f] = net[f]
      BY <2>3 DEF IInv, Typed
    <3> QED
      BY <2>3, <3>1 DEF Alters, Kind, Reg
  <2>4. CASE HangUp(fd) \/ Drain(fd)
    <3>1. PICK m : /\ net' = [net EXCEPT ![fd] = m]
                   /\ m = [n EXCEPT !.hup = TRUE] \/ m = [n EXCEPT !.full = FALSE]
      BY <2>4 DEF HangUp, Drain, Peer
    <3>2. Same(n, m) /\ m.kind = n.kind /\ m.interest = n.interest
      BY <2>1, <3>1 DEF Sock, Same
    <3>3. Alters(fd, m) /\ SocketFits(load, m)
      BY <2>1, <2>3, <3>1, <3>2, SameFact
    <3>4. Fits' /\ Counted' /\ \A d \in Fds : Served(d)'
      BY <2>2, <3>2, <3>3, OtherEndFact
    <3> QED
      BY <3>4 DEF DInv
  <2>5. CASE Send(fd)
    <3>1. n.kind = "client" /\ n.sent < load.parts /\ n.ask[2] <= load.asked
      BY <2>5 DEF Send
    <3> PICK more : more = Append(n.inbox, n.ask)
      OBVIOUS
    <3> PICK m : m = [n EXCEPT !.sent = n.sent + 1, !.inbox = more]
      OBVIOUS
    <3>2. net' = [net EXCEPT ![fd] = m]
      BY <2>5 DEF Send, Peer
    <3>3. /\ m.kind = n.kind /\ m.interest = n.interest /\ m.sent = n.sent + 1
          /\ m.inbox = more /\ m.ask = n.ask /\ m.pending = n.pending
      BY <2>1 DEF Sock
    <3>4. Open(fd)
      BY <3>1 DEF IInv, Wired, Kind
    <3> PICK p : p = Up(fd)
      OBVIOUS
    <3> PICK u, q : u = users[fd] /\ q = net[p]
      OBVIOUS
    <3>5. /\ p \in Fds /\ p # fd /\ Asking(load, n) /\ Carries(load, u, n, q)
          /\ UserFits(load, u)
      BY <3>4, HereFact
    <3>6. Collects(load, u, m, q) /\ Asking(load, m) /\ SocketFits(load, m)
      BY <2>1, <3>1, <3>3, <3>5, LoadFact, PieceFact
    <3>7. Alters(fd, m)
      BY <2>3, <3>2, <3>3
    <3>8. /\ Fits' /\ Counted'
          /\ \A d \in Fds : d # fd /\ (Open(d) => Up(d) # fd) => Served(d)'
      BY <2>2, <3>6, <3>7, OtherEndFact
    <3>9. \A d \in Fds : Open(d) => Up(d) # fd
      BY <3>4, WireFact
    <3>10. Served(fd)'
      <4>1. net'[fd] = m /\ net'[p] = q /\ users'[fd] = u /\ Up(fd)' = p /\ Open(fd)'
        BY <2>2, <3>4, <3>5, <3>7 DEF Alters, Up, Open
      <4>2. Stage(fd)' = "client"
        BY <3>6, <4>1 DEF Collects, Stage
      <4>3. Carries(load, u, m, q)
        BY <3>6 DEF Carries
      <4>4. Serves(fd)'
        BY <2>2, <3>6, <4>1, <4>2, <4>3 DEF Serves
      <4> QED
        BY <2>2, <3>6, <4>1, <4>4 DEF Served
    <3> QED
      BY <3>8, <3>9, <3>10 DEF DInv
  <2>6. CASE Answer(fd)
    <3>1. n.pending # <<>>
      BY <2>6 DEF Answer
    <3> PICK rest, more : rest = Tail(n.pending) /\ more = Append(n.inbox, Head(n.pending))
      OBVIOUS
    <3> PICK m : m = [n EXCEPT !.pending = rest, !.inbox = more]
      OBVIOUS
    <3>2. net' = [net EXCEPT ![fd] = m]
      BY <2>6 DEF Answer, Peer
    <3>3. /\ m.kind = n.kind /\ m.interest = n.interest /\ m.sent = n.sent
          /\ m.inbox = more /\ m.ask = n.ask /\ m.pending = rest
      BY <2>1 DEF Sock
    <3>4. rest \in Seq(Known(load)) /\ more \in Seq(Known(load))
      <4>1. n.pending \in Seq(Known(load)) /\ n.inbox \in Seq(Known(load))
        BY <2>1 DEF SocketFits
      <4> QED
        BY <4>1, <3>1
    <3>5. SocketFits(load, m)
      BY <2>1, <3>3, <3>4 DEF SocketFits
    <3>6. Alters(fd, m)
      BY <2>3, <3>2, <3>3
    <3>7. /\ Fits' /\ Counted'
          /\ \A d \in Fds : /\ ToClient(d)' = ToClient(d)
                            /\ ToServer(d)' = ToServer(d)
                            /\ HasRead(d)' = HasRead(d)
          /\ \A d \in Fds : d # fd /\ (Open(d) => Up(d) # fd) => Served(d)'
      BY <2>2, <3>5, <3>6, OtherEndFact
    <3>8. Kind(fd) # "client"
      <4>1. Kind(fd) = "client" => Asking(load, n)
        BY HereFact
      <4> QED
        BY <4>1, <3>1 DEF Asking
    <3>9. ~Open(fd)
      BY <3>8 DEF IInv, Wired
    <3>10. ASSUME NEW d \in Fds, Open(d), Up(d) = fd PROVE Served(d)'
      <4> PICK u, s : u = users[d] /\ s = net[d]
        OBVIOUS
      <4>1. d # fd /\ Asking(load, s) /\ Serves(d) /\ Carries(load, u, s, n)
        BY <3>9, <3>10, HereFact
      <4>2. /\ Receives(load, u, s, m) /\ u.stage = "upstream"
            /\ ~Receives(load, u, s, n) /\ ~Converts(load, u, s, n)
        <5>1. Replies(n, m)
          BY <3>3 DEF Replies
        <5> QED
          BY <4>1, <2>1, <3>1, <5>1, ReplyFact
      <4>3. ~HasRead(d)
        BY <4>1, <4>2, <3>10 DEF Serves, Stage
      <4>4. net'[d] = s /\ net'[fd] = m /\ users'[d] = u /\ Up(d)' = fd /\ Open(d)'
        BY <2>2, <3>6, <3>10, <4>1 DEF Alters, Up, Open
      <4>5. Stage(d)' = "upstream"
        BY <4>2, <4>4 DEF Stage
      <4>6. Carries(load, u, s, m)
        BY <4>2 DEF Carries
      <4>7. ~HasRead(d)'
        BY <3>7, <4>3
      <4>8. Serves(d)'
        BY <2>2, <4>2, <4>4, <4>5, <4>6, <4>7 DEF Serves
      <4> QED
        BY <2>2, <4>1, <4>4, <4>8 DEF Served
    <3>11. Served(fd)'
      <4>1. Served(fd)
        BY HereFact
      <4>2. Kind(fd)' # "client" /\ ~Open(fd)' /\ users'[fd] = users[fd]
        BY <2>2, <3>6, <3>8, <3>9 DEF Alters, Open
      <4> QED
        BY <2>2, <3>9, <4>1, <4>2 DEF Served
    <3>12. \A d \in Fds : Served(d)'
      BY <3>7, <3>10, <3>11
    <3> QED
      BY <3>7, <3>12 DEF DInv
  <2>7. CASE Drop(fd)
    <3>1. drops' = drops + 1
      BY <2>7 DEF Drop
    <3> QED
      BY <3>1
  <2> QED
    BY <1>2, <2>4, <2>5, <2>6, <2>7
<1> QED
  BY <1>1, <1>2 DEF Outside

(* A descriptor that is closed.                                            *)
LEMMA UnusedFact ==
  ASSUME IInv
  PROVE  Unused.kind = "free" /\ Unused.interest = "none" /\ SocketFits(load, Unused)
<1>1. /\ Unused.kind = "free" /\ Unused.interest = "none" /\ Unused.inbox = <<>>
      /\ Unused.pending = <<>> /\ Unused.ask = Junk /\ Unused.sent = 0
  BY DEF Unused
<1>2. 0 \in 0 .. load.parts
  BY LoadFact
<1> QED
  BY <1>1, <1>2 DEF SocketFits, Known

(* close(fd_).                                                             *)
LEMMA CloseClientDataFact ==
  ASSUME IInv, DInv, NEW t \in Procs, CloseClient(t)
  PROVE  DInv'
<1> PICK c : c = cur[t]
  OBVIOUS
<1>1. pc[t] = "close" /\ pc[t] \in Holding
  BY DEF CloseClient, Holding, Labels
<1>2. c \in Fds /\ Open(c)
  BY <1>1, HandFact
<1>3. /\ net' = [net EXCEPT ![c] = Unused]
      /\ users' = [users EXCEPT ![c].closed = TRUE]
      /\ pc' = [pc EXCEPT ![t] = "closeProxy"]
      /\ UNCHANGED <<batch, queue, cur, load, conns, backlog, edge>>
  BY <1>2 DEF CloseClient, Open, Goto, listener, outside
<1>4. /\ \A fd \in Fds : fd # c => net'[fd] = net[fd]
      /\ net'[c] = Unused
  BY <1>2, <1>3 DEF IInv, Typed
<1>5. /\ \A d \in 0 .. MaxFd : d # c => users'[d] = users[d]
      /\ users'[c].closed /\ c \in 0 .. MaxFd
      /\ UserFits(load, users'[c])
  <2>1. users \in [0 .. MaxFd -> Conn] /\ c \in 0 .. MaxFd
    BY <1>2, NumberFact DEF IInv, Typed
  <2>2. /\ \A d \in 0 .. MaxFd : d # c => users'[d] = users[d]
        /\ users'[c] = [users[c] EXCEPT !.closed = TRUE]
    BY <1>3, <2>1
  <2>3. users[c] \in Conn /\ UserFits(load, users[c])
    BY <2>1 DEF DInv, Fits
  <2>4. UserFits(load, users'[c]) /\ users'[c].closed
    BY <2>2, <2>3 DEF Conn, UserFits
  <2> QED
    BY <2>1, <2>2, <2>4
<1>6. pc'[t] = "closeProxy" /\ \A r \in Procs : r # t => pc'[r] = pc[r]
  BY <1>3 DEF IInv, Typed
<1>7. Unused.kind = "free" /\ SocketFits(load, Unused)
  BY UnusedFact
<1>8. ASSUME NEW d \in Fds, d # c PROVE Served(d)'
  <2>1. Served(d) /\ users'[d] = users[d] /\ net'[d] = net[d]
    BY <1>4, <1>5, <1>8, HereFact, NumberFact
  <2>2. Kind(d)' = Kind(d) /\ Reg(d)' = Reg(d) /\ Up(d)' = Up(d)
    BY <2>1 DEF Kind, Reg, Up
  <2>3. Open(d) => net'[Up(d)] = net[Up(d)]
    BY <1>2, <1>4, WireFact
  <2>4. /\ ToClient(d)' => ToClient(d)
        /\ ToServer(d)' => ToServer(d)
        /\ HasRead(d)' => HasRead(d)
    BY <2>2, <1>3, <1>6 DEF ToClient, ToServer, HasRead
  <2>5. \A r \in Procs : pc[r] = "closeProxy" /\ cur[r] = d => pc'[r] = "closeProxy" /\ cur'[r] = d
    BY <1>1, <1>3, <1>6
  <2>6. Same(net[d], net'[d]) /\ (Open(d) => Same(net[Up(d)], net'[Up(d)]))
    BY <2>1, <2>3 DEF Same
  <2> QED
    BY <1>3, <2>1, <2>2, <2>4, <2>5, <2>6, AloneFact
<1>9. Served(c)'
  <2>1. Kind(c)' # "client" /\ ~Open(c)'
    BY <1>4, <1>5, <1>7 DEF Kind, Open
  <2>2. \E r \in Procs : pc'[r] = "closeProxy" /\ cur'[r] = c
    BY <1>3, <1>6
  <2> QED
    BY <2>1, <2>2 DEF Served
<1>10. Fits'
  <2>1. \A fd \in Fds : SocketFits(load, net'[fd])
    BY <1>4, <1>7 DEF DInv, Fits
  <2>2. \A d \in 0 .. MaxFd : UserFits(load, users'[d])
    BY <1>5 DEF DInv, Fits
  <2> QED
    BY <1>3, <2>1, <2>2 DEF Fits
<1>11. Counted'
  BY <1>3 DEF DInv, Counted
<1> QED
  BY <1>8, <1>9, <1>10, <1>11 DEF DInv

(* close(proxy_fd_), and the parser is initialised.                        *)
LEMMA CloseProxyDataFact ==
  ASSUME IInv, DInv, NEW t \in Procs, CloseProxy(t)
  PROVE  DInv'
<1> PICK c : c = cur[t]
  OBVIOUS
<1> PICK p : p = Up(c)
  OBVIOUS
<1>1. pc[t] = "closeProxy" /\ c \in Fds
  BY DEF CloseProxy, IInv, Placed
<1>2. /\ p \in Fds /\ ~Open(c) /\ Kind(p) = "upstream"
      /\ \A d \in Fds : Open(d) => Up(d) # p
  BY <1>1 DEF IInv, Closing
<1>3. PICK l \in {"idle", "dispatch"} : pc' = [pc EXCEPT ![t] = l] /\ cur' = [cur EXCEPT ![t] = NoFd]
  BY ThreadTypeFact DEF CloseProxy, IInv
<1>4. /\ net' = [net EXCEPT ![p] = Unused]
      /\ users' = [users EXCEPT ![c].parsed = 0]
      /\ UNCHANGED <<batch, queue, load, conns, backlog, edge>>
  BY DEF CloseProxy, Up, listener, outside
<1>5. /\ \A fd \in Fds : fd # p => net'[fd] = net[fd]
      /\ net'[p] = Unused
  BY <1>2, <1>4 DEF IInv, Typed
<1>6. /\ \A d \in 0 .. MaxFd : d # c => users'[d] = users[d]
      /\ users'[c].closed = users[c].closed /\ users'[c].parsed = 0 /\ c \in 0 .. MaxFd
      /\ UserFits(load, users'[c])
  <2>1. users \in [0 .. MaxFd -> Conn] /\ c \in 0 .. MaxFd
    BY <1>1, NumberFact DEF IInv, Typed
  <2>2. /\ \A d \in 0 .. MaxFd : d # c => users'[d] = users[d]
        /\ users'[c] = [users[c] EXCEPT !.parsed = 0]
    BY <1>4, <2>1
  <2>3. users[c] \in Conn /\ UserFits(load, users[c]) /\ 0 \in 0 .. load.parts
    BY <2>1, LoadFact DEF DInv, Fits
  <2>4. /\ UserFits(load, users'[c])
        /\ users'[c].closed = users[c].closed /\ users'[c].parsed = 0
    BY <2>2, <2>3 DEF Conn, UserFits
  <2> QED
    BY <2>1, <2>2, <2>4
<1>7. pc'[t] = l /\ \A r \in Procs : r # t => pc'[r] = pc[r] /\ cur'[r] = cur[r]
  BY <1>3 DEF IInv, Typed
<1>8. Unused.kind = "free" /\ SocketFits(load, Unused)
  BY UnusedFact
<1>9. ASSUME NEW d \in Fds, d # c PROVE Served(d)'
  <2>1. Served(d) /\ users'[d] = users[d]
    BY <1>6, <1>9, HereFact, NumberFact
  <2>2. Up(d)' = Up(d)
    BY <2>1 DEF Up
  <2>3. Kind(d)' = "client" => d # p
    BY <1>5, <1>8 DEF Kind
  <2>4. Kind(d)' = "client" => Kind(d) = "client" /\ Same(net[d], net'[d])
    BY <1>5, <2>3 DEF Kind, Same
  <2>5. ASSUME Open(d)
        PROVE  /\ Same(net[d], net'[d]) /\ Same(net[Up(d)], net'[Up(d)])
               /\ ToClient(d)' => ToClient(d)
               /\ ToServer(d)' => ToServer(d)
               /\ HasRead(d)' => HasRead(d)
    <3>1. d # p /\ Up(d) \in Fds /\ Up(d) # p
      BY <2>5, <1>2, WireFact
    <3>2. net'[d] = net[d] /\ net'[Up(d)] = net[Up(d)]
      BY <1>5, <3>1
    <3>3. Reg(d)' = Reg(d)
      BY <3>2 DEF Reg
    <3>4. /\ ToClient(d)' => ToClient(d)
          /\ ToServer(d)' => ToServer(d)
          /\ HasRead(d)' => HasRead(d)
      BY <2>2, <3>3, <1>4, <1>7 DEF ToClient, ToServer, HasRead
    <3> QED
      BY <3>2, <3>4 DEF Same
  <2>6. \A r \in Procs : pc[r] = "closeProxy" /\ cur[r] = d => pc'[r] = "closeProxy" /\ cur'[r] = d
    BY <1>7, <1>9
  <2> QED
    BY <1>4, <2>1, <2>4, <2>5, <2>6, AloneFact
<1>10. Served(c)'
  <2>1. ~Open(c)' /\ users'[c].parsed = 0
    BY <1>2, <1>6 DEF Open
  <2>2. Kind(c)' # "client"
    <3>1. Kind(c) # "client"
      BY <1>1, <1>2 DEF IInv, Wired
    <3> QED
      BY <3>1, <1>1, <1>5, <1>8 DEF Kind
  <2> QED
    BY <2>1, <2>2 DEF Served
<1>11. Fits'
  <2>1. \A fd \in Fds : SocketFits(load, net'[fd])
    BY <1>5, <1>8 DEF DInv, Fits
  <2>2. \A d \in 0 .. MaxFd : UserFits(load, users'[d])
    BY <1>6 DEF DInv, Fits
  <2> QED
    BY <1>4, <2>1, <2>2 DEF Fits
<1>12. Counted'
  BY <1>4 DEF DInv, Counted
<1> QED
  BY <1>9, <1>10, <1>11, <1>12 DEF DInv

(* A client and its connection to the upstream server.                     *)
LEMMA AcceptDataFact == ASSUME IInv, DInv, ~Reuse, Accept PROVE DInv'
<1> PICK c : c = Accepted
  OBVIOUS
<1> PICK p : p = Min(Free \ {Accepted})
  OBVIOUS
<1>1. c \in Free /\ p \in Free /\ p # c /\ c \in Fds /\ p \in Fds
  <2>1. Free \subseteq Fds /\ Free # {} /\ Cardinality(Free) > 1
    BY DEF Accept, Accepting, Free
  <2>2. c \in Free
    BY <2>1, MinFact DEF Accepted
  <2>3. Free # {c}
    <3>1. Cardinality({c}) = 1
      BY FS_Singleton
    <3> QED
      BY <2>1, <3>1
  <2>4. Free \ {c} # {} /\ Free \ {c} \subseteq Fds
    BY <2>1, <2>2, <2>3
  <2>5. p \in Free \ {c}
    BY <2>4, MinFact
  <2> QED
    BY <2>1, <2>2, <2>5
<1>2. /\ Kind(c) = "free" /\ Kind(p) = "free"
      /\ \A s \in Procs : pc[s] = "closeProxy" => cur[s] # c
      /\ AddClient(c, p)
      /\ UNCHANGED <<batch, queue, pc, cur, load, conns, edge>>
      /\ backlog > 0 /\ backlog' = backlog - 1
  BY <1>1 DEF Accept, Accepting, Free, Kind, threads, outside
<1>3. \A d \in Fds : Open(d) => d \notin {c, p} /\ Up(d) \in Fds /\ Up(d) \notin {c, p}
  BY <1>2, WireFact
<1>4. ~Open(c) /\ users[c].parsed = 0 /\ ~HasRead(c)
  <2>1. ~Open(c)
    BY <1>1, <1>3
  <2>2. users[c].parsed = 0
    BY <1>1, <1>2, <2>1, HereFact DEF Served
  <2>3. ~HasRead(c)
    <3>1. \A s \in Procs : ~Holds(s, c)
      BY <1>1, <2>1 DEF IInv, Own, Owned, Held
    <3>2. "process" \in Holding
      BY DEF Holding, Labels
    <3> QED
      BY <3>1, <3>2 DEF Holds, HasRead
  <2> QED
    BY <2>1, <2>2, <2>3
<1> PICK m : m = <<conns - backlog + 1, 1>>
  OBVIOUS
<1> PICK s, q : /\ s = [Unused EXCEPT !.kind = "client", !.interest = "in", !.ask = m]
                /\ q = [Unused EXCEPT !.kind = "upstream", !.interest = "in"]
  OBVIOUS
<1>5. /\ \A fd \in Fds : fd \notin {c, p} => net'[fd] = net[fd]
      /\ net'[c] = s /\ net'[p] = q
  BY <1>1, <1>2 DEF AddClient, IInv, Typed
<1>6. /\ s.inbox = <<>> /\ s.pending = <<>> /\ s.ask = m /\ s.sent = 0
      /\ q.kind = "upstream" /\ q.inbox = <<>> /\ q.pending = <<>> /\ q.ask = Junk /\ q.sent = 0
  BY DEF Unused
<1>7. Asking(load, s) /\ SocketFits(load, s) /\ SocketFits(load, q)
  <2>1. conns - backlog + 1 \in 1 .. load.conns /\ 1 \in 1 .. load.asked + 1 /\ 0 \in 0 .. load.parts
    BY <1>2, LoadFact DEF DInv, Counted
  <2>2. m \in (1 .. load.conns) \X (1 .. load.asked + 1)
    BY <2>1
  <2>3. /\ <<>> \in Seq(Known(load)) /\ Junk \in Known(load) /\ m \in Known(load)
        /\ 0 \in 0 .. load.parts /\ ~(0 > 0)
    BY <2>1, <2>2 DEF Known
  <2>4. Asking(load, s)
    BY <1>6, <2>2, <2>3 DEF Asking
  <2>5. SocketFits(load, s)
    BY <1>6, <2>3 DEF SocketFits
  <2>6. SocketFits(load, q)
    BY <1>6, <2>3 DEF SocketFits
  <2> QED
    BY <2>4, <2>5, <2>6
<1> PICK u, v : u = users[c] /\ v = [i \in DOMAIN u.iov |-> Junk]
  OBVIOUS
<1>8. u \in Conn /\ UserFits(load, u) /\ users \in [0 .. MaxFd -> Conn] /\ c \in 0 .. MaxFd
  BY <1>1, NumberFact, HereFact DEF IInv, Typed
<1>9. v \in Seq(Known(load)) /\ Len(v) <= 1 /\ Copies(v, Junk)
  <2>1. u.iov \in Seq(Known(load)) /\ Len(u.iov) <= 1 /\ Junk \in Known(load)
    BY <1>8 DEF UserFits, Known
  <2>2. Len(u.iov) \in Nat /\ DOMAIN u.iov = 1 .. Len(u.iov)
    BY <2>1
  <2>3. v \in [1 .. Len(u.iov) -> Known(load)]
    BY <2>1, <2>2
  <2>4. v \in Seq(Known(load)) /\ Len(v) = Len(u.iov)
    BY <2>2, <2>3
  <2>5. Copies(v, Junk)
    BY DEF Copies
  <2> QED
    BY <2>1, <2>4, <2>5
<1> PICK u2 : u2 = [u EXCEPT !.closed = FALSE, !.proxy = p, !.stage = "client",
                             !.readBuff = <<>>, !.writeBuff = <<>>, !.iov = v]
  OBVIOUS
<1>10. users'[c] = u2 /\ \A d \in 0 .. MaxFd : d # c => users'[d] = users[d]
  BY <1>2, <1>8 DEF AddClient, InitConn
<1>11. /\ ~u2.closed /\ u2.proxy = p /\ u2.stage = "client" /\ u2.readBuff = <<>>
       /\ u2.writeBuff = <<>> /\ u2.iov = v /\ u2.parsed = 0
  BY <1>4, <1>8 DEF Conn
<1>12. Collects(load, u2, s, q) /\ UserFits(load, u2)
  <2>1. Had(load, u2) = 0 /\ Len(<<>>) = 0 /\ Copies(<<>>, m)
    BY <1>11, LoadFact DEF Had, Copies
  <2>2. s.sent = Had(load, u2) + Len(u2.readBuff) + Len(s.inbox)
    BY <1>6, <1>11, <2>1
  <2>3. 0 \in 0 .. load.parts /\ <<>> \in Seq(Known(load))
    BY LoadFact
  <2>4. Collects(load, u2, s, q)
    BY <1>6, <1>9, <1>11, <2>1, <2>2 DEF Collects
  <2>5. UserFits(load, u2)
    BY <1>9, <1>11, <2>3 DEF UserFits
  <2> QED
    BY <2>4, <2>5
<1>13. ASSUME NEW d \in Fds, d # c PROVE Served(d)'
  <2>1. Served(d) /\ users'[d] = users[d]
    BY <1>10, <1>13, HereFact, NumberFact
  <2>2. Up(d)' = Up(d)
    BY <2>1 DEF Up
  <2>3. Kind(d)' = "client" => Kind(d) = "client" /\ Same(net[d], net'[d])
    BY <1>5, <1>6, <1>13 DEF Kind, Same
  <2>4. ASSUME Open(d)
        PROVE  /\ Same(net[d], net'[d]) /\ Same(net[Up(d)], net'[Up(d)])
               /\ ToClient(d)' => ToClient(d)
               /\ ToServer(d)' => ToServer(d)
               /\ HasRead(d)' => HasRead(d)
    <3>1. net'[d] = net[d] /\ net'[Up(d)] = net[Up(d)]
      BY <2>4, <1>3, <1>5
    <3>2. Reg(d)' = Reg(d)
      BY <3>1 DEF Reg
    <3> QED
      BY <3>1, <3>2, <2>2, <1>2 DEF Same, ToClient, ToServer, HasRead
  <2> QED
    BY <1>2, <2>1, <2>3, <2>4, AloneFact
<1>14. Served(c)'
  <2>1. Up(c)' = p /\ Stage(c)' = "client" /\ Open(c)'
    BY <1>10, <1>11 DEF Up, Stage, Open
  <2>2. Carries(load, u2, s, q)
    BY <1>12 DEF Carries
  <2>3. Serves(c)'
    BY <1>2, <1>5, <1>10, <1>12, <2>1, <2>2 DEF Serves
  <2> QED
    BY <1>2, <1>5, <1>7, <2>1, <2>3 DEF Served
<1>15. Fits'
  <2>1. \A fd \in Fds : SocketFits(load, net'[fd])
    BY <1>5, <1>7 DEF DInv, Fits
  <2>2. \A d \in 0 .. MaxFd : UserFits(load, users'[d])
    BY <1>10, <1>12 DEF DInv, Fits
  <2> QED
    BY <1>2, <2>1, <2>2 DEF Fits
<1>16. Counted'
  BY <1>2, LoadFact DEF DInv, Counted
<1> QED
  BY <1>13, <1>14, <1>15, <1>16 DEF DInv

(* At first there are no messages.                                         *)
LEMMA InitDataFact == ASSUME Init PROVE DInv
<1>1. IInv
  BY InitFact
<1>2. /\ \A fd \in Fds : net[fd] = Unused
      /\ \A c \in 0 .. MaxFd :
           users[c] = [closed |-> TRUE, proxy |-> NoFd, stage |-> "client", parsed |-> 0,
                       readBuff |-> <<>>, writeBuff |-> <<>>, iov |-> <<>>]
      /\ edge = FALSE /\ conns = 0 /\ backlog = 0
  BY DEF Init
<1>3. Fits
  <2>1. 0 \in 0 .. load.parts /\ <<>> \in Seq(Known(load)) /\ Len(<<>>) <= 1
    BY <1>1, LoadFact
  <2>2. \A fd \in Fds : SocketFits(load, net[fd])
    BY <1>1, <1>2, UnusedFact
  <2>3. ASSUME NEW c \in 0 .. MaxFd PROVE UserFits(load, users[c])
    <3>1. /\ users[c].readBuff = <<>> /\ users[c].writeBuff = <<>> /\ users[c].iov = <<>>
          /\ users[c].parsed = 0
      BY <1>2
    <3> QED
      BY <2>1, <3>1 DEF UserFits
  <2> QED
    BY <2>2, <2>3 DEF Fits
<1>4. Counted
  <2>1. 0 \in 0 .. load.conns /\ 0 \in 0 .. 0
    BY <1>1, LoadFact
  <2>2. edge = FALSE /\ conns = 0 /\ backlog = 0
    BY <1>2
  <2> QED
    BY <2>1, <2>2 DEF Counted
<1>5. ASSUME NEW c \in Fds PROVE Served(c)
  <2>1. Kind(c) # "client"
    BY <1>1, <1>2, UnusedFact DEF Kind
  <2>2. ~Open(c) /\ users[c].parsed = 0
    BY <1>2, NumberFact DEF Open
  <2> QED
    BY <2>1, <2>2 DEF Served
<1> QED
  BY <1>3, <1>4, <1>5 DEF DInv

(* A step of the system keeps the messages where they should be.           *)
LEMMA DataStepFact ==
  ASSUME IInv, DInv, ~Reuse, drops \in Nat, drops' = 0, [Next]_vars
  PROVE  DInv'
<1>1. CASE MainStep
  <2>1. Main \in Procs /\ pc[Main] \in Places /\ pc[Main] # "reconnect"
    BY NumberFact DEF IInv, Typed, Places
  <2>2. CASE Reconnect \/ ReconnectFails
    BY <2>1, <2>2 DEF Reconnect, ReconnectFails
  <2>3. CASE CloseConn(Main)
    BY <2>1, <2>3, UnregisterDataFact, CloseClientDataFact, CloseProxyDataFact DEF CloseConn
  <2>4. CASE Wait \/ \E fd \in Fds \cup {NoFd}, kind \in {"listen", "disconnect", "read", "write"} :
                       Dispatch(fd, kind)
    BY <2>4, WaitDataFact, DispatchDataFact
  <2>5. CASE BatchDone \/ AcceptBusy \/ AcceptFails
    BY <2>5, ReactorDataFact
  <2>6. CASE Accept \/ AcceptUnreachable
    BY <2>6, AcceptDataFact, LostDataFact
  <2> QED
    BY <1>1, <2>2, <2>3, <2>4, <2>5, <2>6 DEF MainStep
<1>2. ASSUME NEW w \in Workers, WorkerStep(w) PROVE DInv'
  <2>1. w \in Procs
    BY NumberFact
  <2>2. CASE CloseConn(w)
    BY <2>1, <2>2, UnregisterDataFact, CloseClientDataFact, CloseProxyDataFact DEF CloseConn
  <2>3. CASE Take(w) \/ Read(w) \/ ProcessRequest(w) \/ ProcessAnswer(w)
    BY <2>3, TakeDataFact, ReadDataFact, ProcessRequestFact, ProcessAnswerFact
  <2>4. CASE WriteAll(w) \/ WriteBlocks(w) \/ WriteFails(w) \/ ModFd(w)
    BY <2>4, WriteDataFact, BlockedDataFact, ModDataFact
  <2> QED
    BY <1>2, <2>2, <2>3, <2>4 DEF WorkerStep
<1>3. CASE Outside
  BY <1>3, OutsideDataFact
<1>4. CASE UNCHANGED vars
  <2>1. UNCHANGED <<net, users, map, queue, cur, batch, pc, backlog, edge, conns, load>>
    BY <1>4 DEF vars, listener, outside, threads
  <2>2. Keeps
    BY <2>1, UntouchedFact
  <2>3. Calls /\ Ends
    BY <2>1 DEF Calls, Ends, ToClient, ToServer, HasRead, Reg, Up
  <2>4. Counted'
    BY <2>1 DEF DInv, Counted
  <2> QED
    BY <2>1, <2>2, <2>3, <2>4, StillFact
<1> QED
  BY <1>1, <1>2, <1>3, <1>4 DEF Next

(* Both invariants, together.                                              *)
Dry == ~Reuse /\ drops = 0 => DInv
LEMMA MessagesAreKept == Spec => [](Quiet /\ Dry)
<1>1. Init => drops \in Nat /\ Quiet /\ Dry
  <2>1. Init => drops = 0
    BY DEF Init
  <2> QED
    BY <2>1, InitFact, InitDataFact DEF Quiet, Dry
<1>2. (drops \in Nat /\ Quiet /\ Dry) /\ [Next]_vars => (drops \in Nat /\ Quiet /\ Dry)'
  BY DropsFact, StepFact, DataStepFact DEF Quiet, Dry
<1> QED
  BY <1>1, <1>2, PTL DEF Spec

(* The variables keep to their types: no message is made up, and iov_      *)
(* describes one at most (the buffers, http_conn.cpp).                     *)
THEOREM TypesAreKept == Spec => [](~Reuse /\ drops = 0 => TypeOK)
<1>1. ASSUME IInv, DInv PROVE TypeOK
  <2>1. Typed /\ Messages = Known(load) /\ Fds \subseteq 0 .. MaxFd
    BY <1>1, NumberFact DEF IInv, Messages, Known
  <2>2. net \in [Fds -> Socket]
    <3>1. ASSUME NEW fd \in Fds PROVE net[fd] \in Socket
      <4> PICK n : n = net[fd]
        OBVIOUS
      <4>1. n \in Sock /\ SocketFits(load, n)
        BY <1>1, <2>1, HereFact DEF Typed
      <4> QED
        BY <2>1, <4>1 DEF Sock, SocketFits, Socket
    <3> QED
      BY <2>1, <3>1 DEF Typed
  <2>3. users \in [0 .. MaxFd -> User] /\ \A c \in Fds : Len(users[c].iov) <= 1
    <3>1. ASSUME NEW c \in 0 .. MaxFd PROVE users[c] \in User /\ Len(users[c].iov) <= 1
      <4> PICK u : u = users[c]
        OBVIOUS
      <4>1. u \in Conn /\ UserFits(load, u)
        BY <1>1, <2>1 DEF Typed, DInv, Fits
      <4> QED
        BY <2>1, <4>1 DEF Conn, UserFits, User
    <3> QED
      BY <2>1, <3>1 DEF Typed
  <2>4. map \in [Fds -> 0 .. MaxFd \cup {NoFd}] /\ cur \in [Procs -> 0 .. MaxFd \cup {NoFd}]
    BY <2>1 DEF Typed
  <2>5. backlog \in Nat /\ edge \in BOOLEAN /\ retry \in Nat
    BY <1>1, <2>1 DEF DInv, Counted, Typed
  <2>6. /\ batch \subseteq Fds \X {"disconnect", "read", "write"} \cup {<<NoFd, "listen">>}
        /\ pc \in [Procs -> Labels]
    BY <2>1 DEF Typed, Places
  <2>7. queue \in Seq((0 .. MaxFd) \X Ops)
    <3>1. queue \in Seq(Fds \X Ops) /\ Fds \X Ops \subseteq (0 .. MaxFd) \X Ops
      BY <2>1 DEF Typed
    <3> QED
      BY <3>1
  <2> QED
    BY <2>2, <2>3, <2>4, <2>5, <2>6, <2>7 DEF TypeOK
<1>2. Quiet /\ Dry => (~Reuse /\ drops = 0 => TypeOK)
  BY <1>1 DEF Quiet, Dry
<1> QED
  BY <1>2, MessagesAreKept, PTL

(* What a worker writes to a client answers the request the client has     *)
(* sent, whoever had its numbers before (ProcessProxy and OnWrite,         *)
(* http_conn.cpp).                                                         *)
THEOREM AnswersAreOwn == Spec => [](~Reuse /\ drops = 0 => OwnAnswers)
<1>1. ASSUME IInv, DInv PROVE OwnAnswers
  <2> SUFFICES ASSUME NEW w \in Workers, pc[w] = "writeC", NEW i \in DOMAIN users[cur[w]].iov
               PROVE  users[cur[w]].iov[i] \in {Junk, net[cur[w]].ask}
    BY DEF OwnAnswers
  <2> PICK c : c = cur[w]
    OBVIOUS
  <2> PICK u, s, q : u = users[c] /\ s = net[c] /\ q = net[Up(c)]
    OBVIOUS
  <2>1. pc[w] \in Ops
    BY DEF Ops
  <2>2. Carries(load, u, s, q) /\ u.stage = "client"
    BY <1>1, <2>1, FindFact, TargetFact DEF Stage
  <2>3. Collects(load, u, s, q) \/ Returns(load, u, s, q)
    BY <2>2 DEF Carries, Forwards, Awaits, Receives, Converts
  <2>4. Collects(load, u, s, q) => u.iov[i] = Junk
    BY DEF Collects, Copies
  <2>5. Returns(load, u, s, q) => u.iov = <<s.ask>>
    BY DEF Returns, Only
  <2>6. u.iov = <<s.ask>> => u.iov[i] = s.ask
    OBVIOUS
  <2> QED
    BY <2>3, <2>4, <2>5, <2>6
<1>2. Quiet /\ Dry => (~Reuse /\ drops = 0 => OwnAnswers)
  BY <1>1 DEF Quiet, Dry
<1> QED
  BY <1>2, MessagesAreKept, PTL
=============================================================================
