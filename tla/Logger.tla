------------------------------- MODULE Logger -------------------------------
(***************************************************************************)
(* Logger and LogStream (Sources/logger/logger.h, log_stream.h): the front *)
(* end of the log.  The one LogStream of the process takes what every      *)
(* thread's LOG_* call puts into it, piece by piece, and Flush hands its   *)
(* content to AsyncLoggerCore::Append and clears it.  None of this is      *)
(* locked.  Here each operator<< is a step; in the code two of them may    *)
(* also meet in the same Buffer, which has no defined outcome.             *)
(***************************************************************************)
EXTENDS Integers, Sequences

CONSTANTS
  Threads,   \* the threads that log
  Inputs,    \* inputs of a call
  MaxCalls   \* bound on the calls of a thread

VARIABLES
  level,     \* level_
  stream,    \* stream_'s buffer: pieces <<thread, call, place in the line>>
  handed,    \* what async_log_core_->Append has been given, call by call
  calls,     \* calls a thread has begun
  next       \* 0 outside LOG_*, else the place of the piece it puts next

vars == <<level, stream, handed, calls, next>>

(* Time and level come before the inputs, the newline after them; then the *)
(* stream is handed over and cleared.                                      *)
NewLine == Inputs + 3
HandOver == Inputs + 4
ClearStream == Inputs + 5

(* What a call is to log, from the time to the newline.                    *)
Line(t, n) == [k \in 1 .. NewLine |-> <<t, n, k>>]

(* CheckLevel: a call below the level returns at once.                     *)
CheckLevel(l) == l >= level

(* LOG_DEBUG, LOG_INFO, LOG_WARN, LOG_ERROR are the levels 0 to 3.         *)
Log(t, l) ==
  /\ next[t] = 0 /\ calls[t] < MaxCalls
  /\ calls' = [calls EXCEPT ![t] = @ + 1]
  /\ next' = [next EXCEPT ![t] = IF CheckLevel(l) THEN 1 ELSE 0]
  /\ UNCHANGED <<level, stream, handed>>

(* FormatedInputStream and LogInputHelper, one operator<< after the other. *)
Put(t) ==
  /\ next[t] \in 1 .. NewLine
  /\ stream' = Append(stream, <<t, calls[t], next[t]>>)
  /\ next' = [next EXCEPT ![t] = @ + 1]
  /\ UNCHANGED <<level, handed, calls>>

(* Flush, in two steps.                                                    *)
FlushAppend(t) ==
  /\ next[t] = HandOver
  /\ handed' = Append(handed, stream)
  /\ next' = [next EXCEPT ![t] = @ + 1]
  /\ UNCHANGED <<level, stream, calls>>

FlushClear(t) ==
  /\ next[t] = ClearStream
  /\ stream' = <<>>
  /\ next' = [next EXCEPT ![t] = 0]
  /\ UNCHANGED <<level, handed, calls>>

(* LOG_LEVEL_RESET.                                                        *)
SetLevel(l) ==
  /\ level' = IF l < 0 THEN 0 ELSE IF l > 3 THEN 3 ELSE l
  /\ UNCHANGED <<stream, handed, calls, next>>

(* After LOG_INIT; a second one changes nothing.                           *)
Init ==
  /\ level = 0
  /\ stream = <<>> /\ handed = <<>>
  /\ calls = [t \in Threads |-> 0]
  /\ next = [t \in Threads |-> 0]

Next ==
  \/ \E t \in Threads : (\E l \in 0 .. 3 : Log(t, l)) \/ Put(t) \/ FlushAppend(t) \/ FlushClear(t)
  \/ \E l \in -1 .. 4 : SetLevel(l)

Spec == Init /\ [][Next]_vars

(* test_logger.cpp:20, "Multithreading Stressing Test Start": threads log  *)
(* at the same time, and each call gives the log one line, whole and       *)
(* unmixed.                                                                *)
RecordIsOneLine ==
  \A i \in DOMAIN handed :
    \E t \in Threads : \E n \in 1 .. calls[t] : handed[i] = Line(t, n)

=============================================================================
