------------------------- MODULE HeapTimerDeadline -------------------------
(***************************************************************************)
(* HeapTimer with the time its users asked for: `deadline[fd]' is when the *)
(* connection on fd, as last added or extended, is to time out.            *)
(***************************************************************************)
EXTENDS HeapTimer

VARIABLE deadline

DeadlineInit == Init /\ deadline = [fd \in Fds |-> 0]

DeadlineNext ==
  \/ Rest /\ UNCHANGED deadline
  \/ \E fd \in Fds, t \in Clock :
       Extend(fd, t) /\ deadline' = [deadline EXCEPT ![fd] = t + Timeout]

DeadlineSpec == DeadlineInit /\ [][DeadlineNext]_<<vars, deadline>>

(* http_server.cpp:184, "close after timeout": the callback that closes    *)
(* a connection runs no earlier than Timeout after the connection was      *)
(* added or last extended.                                                 *)
ClosesOnlyAfterTimeout ==
  [][(\E t \in Clock : TickFire(t)) => deadline[heap[0].cb] <= now']_<<vars, deadline>>

=============================================================================
