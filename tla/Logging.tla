------------------------------- MODULE Logging -------------------------------
(***************************************************************************)
(* AsyncLoggerCore writing to its LogFile, through restarts of the         *)
(* process: what is in the files, in the end, of the lines appended.       *)
(***************************************************************************)
EXTENDS AsyncLogger, LogFile

CONSTANT MaxRestarts  \* bound: how many times the process dies

ASSUME RestartAssumption == MaxRestarts \in Nat

VARIABLE restarts

loggingVars == <<vars, logVars, restarts>>

(* The files' lines: the renamed ones by number, then <name>.              *)
OnDisk ==
  FlattenSeq([n \in 1..Cardinality(DOMAIN rotated) |-> rotated[n - 1]]) \o main

----------------------------------------------------------------------------
(* Appenders, Start, Stop and the steps of the thread without the file.    *)
InMemory ==
  /\ AppendLine \/ Start \/ Stop \/ Wait \/ Swap \/ Drop
  /\ UNCHANGED <<logVars, restarts>>

(* ThreadFunction's `output', from its construction to its last flush.     *)
OpenOutput == Begin /\ Open /\ UNCHANGED restarts

AppendBuffer ==
  /\ WriteBuffer
  /\ LogAppend(content[toWrite[written + 1]])
  /\ UNCHANGED restarts

FlushRound == Recycle /\ Flush /\ UNCHANGED restarts

Loop ==
  /\ LoopHead
  /\ IF isStop THEN Flush ELSE UNCHANGED logVars
  /\ UNCHANGED restarts

(* The process dies at any point (the server's processes are killed with   *)
(* SIGTERM, for which there is no handler) and is started again.  `file'   *)
(* and `dropped' go on with what is left.                                  *)
Restart ==
  /\ restarts < MaxRestarts
  /\ pc # "off"
  /\ restarts' = restarts + 1
  /\ Die
  /\ content' = [b \in Buffers |-> <<>>]
  /\ current' = Fresh(Buffers) /\ next' = Fresh(Buffers \ {current'})
  /\ vec' = <<>> /\ toWrite' = <<>> /\ written' = 0
  /\ new1' = NoBuffer /\ new2' = NoBuffer
  /\ pc' = "off" /\ isStop' = TRUE
  /\ file' = OnDisk'
  /\ dropped' = 1..appended \ ToSet(OnDisk')
  /\ UNCHANGED appended

LoggingInit == Init /\ LogFileInit /\ restarts = 0

Thread ==
  \/ (Wait \/ Swap \/ Drop) /\ UNCHANGED <<logVars, restarts>>
  \/ OpenOutput \/ AppendBuffer \/ FlushRound \/ Loop

LoggingNext == InMemory \/ OpenOutput \/ AppendBuffer \/ FlushRound \/ Loop \/ Restart

(* The thread runs, and its wait ends after flush_interval_ at the latest. *)
LoggingSpec == LoggingInit /\ [][LoggingNext]_loggingVars /\ WF_loggingVars(Thread)

----------------------------------------------------------------------------
(***************************************************************************)
(* Properties                                                              *)
(***************************************************************************)

(* Rotation neither loses nor moves a line: the files hold, in the order   *)
(* of their numbers, everything the logger has written, also across        *)
(* restarts of the process.                                                *)
FilesHoldTheLog == OnDisk \o unflushed = file

(* A file that has been renamed is never written to or overwritten.        *)
RotatedIsFinal ==
  [][\A n \in DOMAIN rotated : n \in DOMAIN rotated' /\ rotated'[n] = rotated[n]]_loggingVars

(* When a round of the thread is over the kernel has all its lines: a      *)
(* process that dies then loses only what was still in memory buffers.     *)
RoundIsFlushed == pc \in {"head", "lock", "waiting", "swapped", "ended"} => unflushed = <<>>

(* A line gets to the disk without any further call, unless its buffer is  *)
(* dropped or the logger is stopped or dies first.                         *)
LineIsOnDisk ==
  \A l \in 1..MaxLines :
    (appended >= l) ~> (l \in ToSet(OnDisk) \cup dropped \/ isStop)
=============================================================================
