------------------------------- MODULE LogFile -------------------------------
(***************************************************************************)
(* LogFile and the File it writes through (Sources/logger/logfile.h,       *)
(* file.h): a log that is renamed to <name>.0, <name>.1, ... when it gets  *)
(* too long.  Lines stand for bytes: each counts 1 towards the limit.      *)
(*                                                                         *)
(* One LogFile of one process is open at a time, and nobody else touches   *)
(* the directory.  A process may die and another go on with its files.     *)
(***************************************************************************)
EXTENDS Integers, Sequences, FiniteSets

CONSTANTS
  FlushEvery,  \* flush_every_n_
  SizeLimit    \* log_file_size_limit_

ASSUME LogFileAssumption == FlushEvery \in Nat \ {0} /\ SizeLimit \in Nat \ {0}

VARIABLES
  rotated,    \* the renamed files, by number
  main,       \* the file <name>, as the kernel has it
  unflushed,  \* what fwrite still holds in the FILE's buffer
  count,      \* count_
  curBytes,   \* cur_bytes
  splits      \* file_split_count_

logVars == <<rotated, main, unflushed, count, curBytes, splits>>

LogFileInit ==
  /\ rotated = [n \in {} |-> <<>>] /\ main = <<>> /\ unflushed = <<>>
  /\ count = 0 /\ curBytes = 0 /\ splits = 0

(* Faulty: numbering starts at 0 again.                                    *)
Open_FromZero ==
  /\ splits' = 0 /\ count' = 0 /\ curBytes' = 0
  /\ UNCHANGED <<rotated, main, unflushed>>

(* The constructor: the first number without a file, and <name> opened for *)
(* appending; what it holds already does not count towards the limit.      *)
Open ==
  /\ splits' \in 0..Cardinality(DOMAIN rotated)
  /\ splits' \notin DOMAIN rotated /\ 0..splits' - 1 \subseteq DOMAIN rotated
  /\ count' = 0 /\ curBytes' = 0
  /\ UNCHANGED <<rotated, main, unflushed>>

(* Append: what was written goes to the kernel at every FlushEvery-th call. *)
Write(lines) ==
  /\ curBytes + Len(lines) < SizeLimit
  /\ curBytes' = curBytes + Len(lines)
  /\ IF count + 1 >= FlushEvery
       THEN main' = main \o unflushed \o lines /\ unflushed' = <<>> /\ count' = 0
       ELSE unflushed' = unflushed \o lines /\ count' = count + 1 /\ UNCHANGED main
  /\ UNCHANGED <<rotated, splits>>

(* Faulty: <name> is renamed before the buffer is flushed, and truncated.  *)
Rotate_Unflushed(lines) ==
  /\ curBytes + Len(lines) >= SizeLimit
  /\ rotated' = [n \in DOMAIN rotated \cup {splits} |->
                   IF n = splits THEN main ELSE rotated[n]]
  /\ main' = <<>> /\ unflushed' = <<>>
  /\ count' = 0 /\ curBytes' = 0
  /\ splits' = splits + 1

(* Append reaches the limit: flush, rename (over a file of that name, if   *)
(* there is one) and begin anew.                                           *)
Rotate(lines) ==
  /\ curBytes + Len(lines) >= SizeLimit
  /\ rotated' = [n \in DOMAIN rotated \cup {splits} |->
                   IF n = splits THEN main \o unflushed \o lines ELSE rotated[n]]
  /\ main' = <<>> /\ unflushed' = <<>>
  /\ count' = 0 /\ curBytes' = 0
  /\ splits' = splits + 1

LogAppend(lines) == Write(lines) \/ Rotate(lines)

(* Faulty: nothing is flushed.                                             *)
Flush_Later == UNCHANGED logVars

Flush ==
  /\ main' = main \o unflushed /\ unflushed' = <<>>
  /\ count' = 0
  /\ UNCHANGED <<rotated, curBytes, splits>>

(* The process dies: of what the FILE's buffer held, what did not fit had  *)
(* been written before.                                                    *)
Die ==
  /\ \E n \in 0..Len(unflushed) : main' = main \o SubSeq(unflushed, 1, n)
  /\ unflushed' = <<>>
  /\ UNCHANGED <<rotated, count, curBytes, splits>>
=============================================================================
