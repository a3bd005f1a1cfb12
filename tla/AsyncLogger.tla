----------------------------- MODULE AsyncLogger -----------------------------
(***************************************************************************)
(* AsyncLoggerCore (Sources/logger/async_logger_core.{h,cpp}): threads     *)
(* append lines to a shared buffer under a mutex; one background thread    *)
(* swaps the full buffers out under the mutex, writes them to the LogFile  *)
(* without it, and keeps two of the written buffers as the replacements of *)
(* the next round.                                                         *)
(*                                                                         *)
(* The buffers are shared_ptrs to heap objects, so a role (current_buffer_,*)
(* new_buffer_1, ...) holds the identity of a buffer and `content' what is *)
(* in it.  Lines are numbered in the order they are appended.  A section   *)
(* under the mutex is one step; the background thread's pc says where it   *)
(* is between two of them:                                                 *)
(*   off      not started yet                                              *)
(*   begin    started, its locals are not constructed yet                  *)
(*   head     about to read is_stop_, without the mutex                    *)
(*   lock     about to take the mutex                                      *)
(*   waiting  asleep in cond_.wait_for                                     *)
(*   swapped  has taken the full buffers, has released the mutex           *)
(*   write    writes buffers_to_write out                                  *)
(*   ended    has left the loop                                            *)
(***************************************************************************)
EXTENDS Integers, Sequences, FiniteSets, SequencesExt

CONSTANTS
  Buffers,     \* the buffers make_shared can return
  NoBuffer,    \* an empty shared_ptr
  BufLines,    \* how many ordinary lines fit into kBufferSize
  LongLines,   \* numbers of the lines longer than that
  MaxPending,  \* 25: more buffers than this are not written all
  MaxLines     \* bound: how many lines are appended

ASSUME LoggerAssumption ==
  /\ NoBuffer \notin Buffers /\ IsFiniteSet(Buffers) /\ Cardinality(Buffers) >= 2
  /\ BufLines \in Nat \ {0}
  /\ MaxPending \in Nat /\ MaxPending >= 2
  /\ MaxLines \in Nat

VARIABLES
  content,   \* the lines in each buffer
  current,   \* current_buffer_
  next,      \* next_buffer_
  vec,       \* buffer_vector_
  new1,      \* new_buffer_1
  new2,      \* new_buffer_2
  toWrite,   \* buffers_to_write
  written,   \* how many of them the loop of lines 69-70 has written
  pc,        \* where the background thread is
  isStop,    \* is_stop_
  file,      \* history: the lines handed to the LogFile
  dropped,   \* history: the lines of the buffers that were not written
  appended   \* history: the number of the last line

shared == <<current, next, vec>>
local == <<new1, new2, toWrite, written>>
vars == <<content, shared, local, pc, isStop, file, dropped, appended>>

LinesOf(bs) == UNION {ToSet(content[b]) : b \in bs}

Referenced == {current, next, new1, new2} \cup ToSet(vec) \cup ToSet(toWrite)
Unused == Buffers \ Referenced

(* make_shared<Buffer>: which of the buffers without a user it is does not *)
(* matter.                                                                 *)
Fresh(bs) == CHOOSE b \in bs : TRUE

(* Bound: an appender takes no buffer that the thread, as it begins, will  *)
(* want; nothing else in the thread allocates.                             *)
MoreMemory == Cardinality(Unused) > IF pc = "begin" THEN 2 ELSE 0

(* current_buffer_->WritableBytes() > len.                                 *)
Fits(l) == l \notin LongLines /\ Len(content[current]) < BufLines

----------------------------------------------------------------------------
(***************************************************************************)
(* Append, Start and Stop: any other thread                                *)
(***************************************************************************)
(* Calls are made while the object lives: its destructor joins the thread. *)
Alive == pc # "off" /\ ~(isStop /\ pc = "ended")

AppendFits(l) ==
  /\ Fits(l)
  /\ content' = [content EXCEPT ![current] = Append(@, l)]
  /\ UNCHANGED shared

(* Faulty: std::move from next_buffer_ leaves it as it was.                *)
AppendFull_KeepNext(l) ==
  /\ ~Fits(l)
  /\ vec' = Append(vec, current)
  /\ \/ next # NoBuffer /\ current' = next /\ next' = next
     \/ next = NoBuffer /\ MoreMemory /\ current' = Fresh(Unused) /\ next' = next
  /\ content' = [content EXCEPT ![current'] = Append(@, l)]

(* The current buffer is full: the next one, or a new one, takes its place. *)
AppendFull(l) ==
  /\ ~Fits(l)
  /\ vec' = Append(vec, current)
  /\ \/ next # NoBuffer /\ current' = next /\ next' = NoBuffer
     \/ next = NoBuffer /\ MoreMemory /\ current' = Fresh(Unused) /\ next' = next
  /\ content' = [content EXCEPT ![current'] = Append(@, l)]

AppendLine ==
  /\ Alive
  /\ appended < MaxLines
  /\ appended' = appended + 1
  /\ AppendFits(appended') \/ AppendFull(appended')
  /\ UNCHANGED <<local, pc, isStop, file, dropped>>

Start ==
  /\ pc = "off"
  /\ isStop' = FALSE
  /\ pc' = "begin"
  /\ UNCHANGED <<content, shared, local, file, dropped, appended>>

(* is_stop_ is written without the mutex; who calls it then joins.         *)
Stop ==
  /\ ~isStop
  /\ isStop' = TRUE
  /\ UNCHANGED <<content, shared, local, pc, file, dropped, appended>>

----------------------------------------------------------------------------
(***************************************************************************)
(* ThreadFunction                                                          *)
(***************************************************************************)
Begin ==
  /\ pc = "begin"
  /\ Cardinality(Unused) >= 2
  /\ new1' = Fresh(Unused)
  /\ new2' = Fresh(Unused \ {new1'})
  /\ pc' = "head"
  /\ UNCHANGED <<content, shared, toWrite, written, isStop, file, dropped, appended>>

(* while(!is_stop_): the final flush writes nothing that is still buffered. *)
LoopHead ==
  /\ pc = "head"
  /\ pc' = IF isStop THEN "ended" ELSE "lock"
  /\ UNCHANGED <<content, shared, local, isStop, file, dropped, appended>>

(* No full buffer: the thread waits, with the mutex released.              *)
Wait ==
  /\ pc = "lock"
  /\ vec = <<>>
  /\ pc' = "waiting"
  /\ UNCHANGED <<content, shared, local, isStop, file, dropped, appended>>

(* Faulty: the current buffer is replaced but not put into the vector.     *)
Swap_ForgetCurrent ==
  /\ pc = "waiting" \/ (pc = "lock" /\ vec # <<>>)
  /\ toWrite' = vec
  /\ vec' = <<>>
  /\ current' = new1
  /\ new1' = NoBuffer
  /\ IF next = NoBuffer THEN next' = new2 /\ new2' = NoBuffer
                        ELSE UNCHANGED <<next, new2>>
  /\ pc' = "swapped"
  /\ UNCHANGED <<content, written, isStop, file, dropped, appended>>

(* Faulty: the wait ends only when there is a full buffer.                 *)
Swap_NoTimeout ==
  /\ pc \in {"waiting", "lock"} /\ vec # <<>>
  /\ toWrite' = Append(vec, current)
  /\ vec' = <<>>
  /\ current' = new1
  /\ new1' = NoBuffer
  /\ IF next = NoBuffer THEN next' = new2 /\ new2' = NoBuffer
                        ELSE UNCHANGED <<next, new2>>
  /\ pc' = "swapped"
  /\ UNCHANGED <<content, written, isStop, file, dropped, appended>>

(* There is a full buffer, or the wait is over: notified, after            *)
(* flush_interval_, or for no reason, so at any time.                      *)
Swap ==
  /\ pc = "waiting" \/ (pc = "lock" /\ vec # <<>>)
  /\ toWrite' = Append(vec, current)
  /\ vec' = <<>>
  /\ current' = new1
  /\ new1' = NoBuffer
  /\ IF next = NoBuffer THEN next' = new2 /\ new2' = NoBuffer
                        ELSE UNCHANGED <<next, new2>>
  /\ pc' = "swapped"
  /\ UNCHANGED <<content, written, isStop, file, dropped, appended>>

Emptied(bs) == [b \in Buffers |-> IF b \in bs THEN <<>> ELSE content[b]]

(* Faulty: only two buffers are kept for recycling before any is written.   *)
Drop_CutFirst ==
  /\ pc = "swapped"
  /\ toWrite' = IF Len(toWrite) > 2 THEN SubSeq(toWrite, 1, 2) ELSE toWrite
  /\ pc' = "write"
  /\ UNCHANGED <<content, shared, new1, new2, written, isStop, file, dropped, appended>>

(* Too many buffers: all but the two oldest are erased.                    *)
Drop ==
  /\ pc = "swapped"
  /\ IF Len(toWrite) > MaxPending
       THEN LET erased == {toWrite[i] : i \in 3..Len(toWrite)}
            IN  /\ dropped' = dropped \cup LinesOf(erased)
                /\ content' = Emptied(erased)
                /\ toWrite' = SubSeq(toWrite, 1, 2)
       ELSE UNCHANGED <<dropped, content, toWrite>>
  /\ pc' = "write"
  /\ UNCHANGED <<shared, new1, new2, written, isStop, file, appended>>

WriteBuffer ==
  /\ pc = "write"
  /\ written < Len(toWrite)
  /\ file' = file \o content[toWrite[written + 1]]
  /\ written' = written + 1
  /\ UNCHANGED <<content, shared, new1, new2, toWrite, pc, isStop, dropped, appended>>

(* Faulty: only new_buffer_2 is replaced.                                  *)
Recycle_SecondOnly ==
  /\ pc = "write"
  /\ written = Len(toWrite)
  /\ LET kept == SubSeq(toWrite, 1, IF Len(toWrite) > 2 THEN 2 ELSE Len(toWrite))
     IN  /\ new1' = new1
         /\ new2' = IF new2 = NoBuffer THEN kept[Len(kept)] ELSE new2
  /\ content' = Emptied(ToSet(toWrite))
  /\ toWrite' = <<>> /\ written' = 0
  /\ pc' = "head"
  /\ UNCHANGED <<shared, isStop, file, dropped, appended>>

(* The last of at most two written buffers becomes new_buffer_1, the one   *)
(* before it new_buffer_2 if that was used up; each is popped from the     *)
(* vector and cleared, the others are destroyed.                           *)
Recycle ==
  /\ pc = "write"
  /\ written = Len(toWrite)
  /\ LET kept == SubSeq(toWrite, 1, IF Len(toWrite) > 2 THEN 2 ELSE Len(toWrite))
     IN  /\ new1' = kept[Len(kept)]
         /\ new2' = IF new2 = NoBuffer THEN kept[Len(kept) - 1] ELSE new2
  /\ content' = Emptied(ToSet(toWrite))
  /\ toWrite' = <<>> /\ written' = 0
  /\ pc' = "head"
  /\ UNCHANGED <<shared, isStop, file, dropped, appended>>

----------------------------------------------------------------------------
Init ==
  /\ content = [b \in Buffers |-> <<>>]
  /\ current = Fresh(Buffers) /\ next = Fresh(Buffers \ {current})
  /\ vec = <<>> /\ toWrite = <<>> /\ written = 0
  /\ new1 = NoBuffer /\ new2 = NoBuffer
  /\ pc = "off" /\ isStop = TRUE
  /\ file = <<>> /\ dropped = {} /\ appended = 0

ThreadFunction ==
  Begin \/ LoopHead \/ Wait \/ Swap \/ Drop \/ WriteBuffer \/ Recycle

Next == AppendLine \/ Start \/ Stop \/ ThreadFunction

Spec == Init /\ [][Next]_vars

----------------------------------------------------------------------------
(***************************************************************************)
(* Properties                                                              *)
(***************************************************************************)

Labels == {"off", "begin", "head", "lock", "waiting", "swapped", "write", "ended"}

(* The pointers hold a buffer wherever the code dereferences or moves from *)
(* them: there is always a current buffer, and new_buffer_1 whenever the   *)
(* thread may swap.                                                        *)
TypeOK ==
  /\ content \in [Buffers -> Seq(1..appended)]
  /\ current \in Buffers
  /\ next \in Buffers \cup {NoBuffer}
  /\ vec \in Seq(Buffers) /\ toWrite \in Seq(Buffers)
  /\ new1 \in Buffers \cup {NoBuffer} /\ new2 \in Buffers \cup {NoBuffer}
  /\ pc \in {"head", "lock", "waiting"} => new1 # NoBuffer
  /\ written \in 0..Len(toWrite)
  /\ pc \in Labels
  /\ isStop \in BOOLEAN
  /\ dropped \in SUBSET (1..appended)
  /\ appended \in 0..MaxLines

(* The thread pops a written buffer for each pointer it has to replace,    *)
(* and never from an empty vector: each swap that used up new_buffer_2     *)
(* also brought a second buffer.                                           *)
EnoughToRecycle ==
  pc \in {"swapped", "write"} =>
    Len(toWrite) >= 1 /\ (new2 = NoBuffer => Len(toWrite) >= 2)

Holders == <<current, next, new1, new2>> \o vec \o toWrite

(* No buffer has two roles: what the thread writes to the file and clears  *)
(* without the mutex is never the buffer others append to.                 *)
NoSharedBuffer ==
  \A i, j \in DOMAIN Holders : i # j /\ Holders[i] # NoBuffer => Holders[i] # Holders[j]

(* The buffers that hold lines to be written, the oldest first.            *)
Pipeline == SubSeq(toWrite, written + 1, Len(toWrite)) \o vec \o <<current>>

(* No line is lost, repeated or overtaken: those in the file, then buffer  *)
(* after buffer, are the appended ones in their order, without those that  *)
(* were dropped with the buffers beyond the limit.                         *)
NoLineLost ==
  LET log == file \o FlattenSeq([i \in DOMAIN Pipeline |-> content[Pipeline[i]]])
  IN  /\ \A i, j \in DOMAIN log : i < j => log[i] < log[j]
      /\ ToSet(log) = 1..appended \ dropped
=============================================================================
