------------------------------- MODULE Buffer -------------------------------
(***************************************************************************)
(* Buffer (Sources/buffer/buffer.{h,cpp}): the growable byte buffer that   *)
(* connections and loggers fill at one end and consume at the other.       *)
(*                                                                         *)
(* A buffer is buffer_container_ as a function from positions to bytes,    *)
(* its size, and the two indices; the bytes from `r' to `w' - 1 are the    *)
(* ones to be read.  Several buffers, because Swap exchanges two.          *)
(***************************************************************************)
EXTENDS Integers, Sequences

CONSTANTS
  Bufs,      \* the buffers
  Byte,      \* byte values
  Zero,      \* '\0'
  Strings,   \* what Append is called with and readv returns
  InitSize,  \* buff_size
  MaxSize    \* bound on the size a buffer grows to

ASSUME BufferAssumption ==
  /\ Zero \in Byte
  /\ Strings \subseteq Seq(Byte)
  /\ InitSize \in Nat /\ InitSize > 1
  /\ MaxSize \in Nat

VARIABLE buf

(* x.data has the positions 0 .. x.size - 1.                               *)
Storage(n) == [0 .. n - 1 -> Byte]

ReadableBytes(x) == x.w - x.r
WritableBytes(x) == x.size - x.w
PrependableBytes(x) == x.r

----------------------------------------------------------------------------
(***************************************************************************)
(* What the operations do to a buffer                                      *)
(***************************************************************************)

(* Faulty: the byte in front of the first is left behind.                  *)
MakeSpace_DropPrev(x, len) ==
  IF WritableBytes(x) + PrependableBytes(x) < len + 1
  THEN [data |-> [i \in 0 .. x.w + len |-> IF i < x.size THEN x.data[i] ELSE Zero],
        size |-> x.w + len + 1, r |-> x.r, w |-> x.w]
  ELSE [data |-> [i \in 0 .. x.size - 1 |->
                    IF 1 <= i /\ i <= ReadableBytes(x) THEN x.data[x.r - 1 + i] ELSE Zero],
        size |-> x.size, r |-> 1, w |-> 1 + ReadableBytes(x)]

(* Faulty: the byte in front is not counted when the room is compared.     *)
MakeSpace_Short(x, len) ==
  IF WritableBytes(x) + PrependableBytes(x) < len
  THEN [data |-> [i \in 0 .. x.w + len |-> IF i < x.size THEN x.data[i] ELSE Zero],
        size |-> x.w + len + 1, r |-> x.r, w |-> x.w]
  ELSE [data |-> [i \in 0 .. x.size - 1 |->
                    IF i <= ReadableBytes(x) THEN x.data[x.r - 1 + i] ELSE Zero],
        size |-> x.size, r |-> 1, w |-> 1 + ReadableBytes(x)]

(* Faulty: what lies behind the moved bytes is not wiped.                  *)
MakeSpace_NoWipe(x, len) ==
  IF WritableBytes(x) + PrependableBytes(x) < len + 1
  THEN [data |-> [i \in 0 .. x.w + len |-> IF i < x.size THEN x.data[i] ELSE Zero],
        size |-> x.w + len + 1, r |-> x.r, w |-> x.w]
  ELSE [data |-> [i \in 0 .. x.size - 1 |->
                    IF i <= ReadableBytes(x) THEN x.data[x.r - 1 + i] ELSE x.data[i]],
        size |-> x.size, r |-> 1, w |-> 1 + ReadableBytes(x)]

(* Grow the container, or move the readable bytes, and the one in front of *)
(* them, to its start and wipe the rest.                                   *)
MakeSpace(x, len) ==
  IF WritableBytes(x) + PrependableBytes(x) < len + 1
  THEN [data |-> [i \in 0 .. x.w + len |-> IF i < x.size THEN x.data[i] ELSE Zero],
        size |-> x.w + len + 1, r |-> x.r, w |-> x.w]
  ELSE [data |-> [i \in 0 .. x.size - 1 |->
                    IF i <= ReadableBytes(x) THEN x.data[x.r - 1 + i] ELSE Zero],
        size |-> x.size, r |-> 1, w |-> 1 + ReadableBytes(x)]

EnsureWriteable(x, len) == IF WritableBytes(x) < len THEN MakeSpace(x, len) ELSE x

(* The bytes of s are copied to the write position and counted             *)
(* (HasWritten).                                                           *)
Fill(x, s) ==
  [x EXCEPT !.data = [i \in 0 .. x.size - 1 |->
                        IF x.w <= i /\ i < x.w + Len(s) THEN s[i - x.w + 1] ELSE x.data[i]],
            !.w = x.w + Len(s)]

Appended(x, s) == Fill(EnsureWriteable(x, Len(s)), s)

(* readv filled the writable bytes first and an overflow buffer with the   *)
(* rest.                                                                   *)
Received(x, s) ==
  LET n == WritableBytes(x)
  IN  IF Len(s) < n
      THEN Fill(x, s)
      ELSE Appended(Fill(x, SubSeq(s, 1, n)), SubSeq(s, n + 1, Len(s)))

(* What does not fit is not retrieved at all.                              *)
Retrieved(x, len) == IF len > ReadableBytes(x) THEN x ELSE [x EXCEPT !.r = @ + len]

Cleared(x) ==
  [data |-> [i \in 0 .. x.size - 1 |-> Zero], size |-> x.size, r |-> 1, w |-> 1]

----------------------------------------------------------------------------
(***************************************************************************)
(* Operations                                                              *)
(***************************************************************************)
AppendTo(b, s) ==
  /\ s # <<>>
  /\ Appended(buf[b], s).size <= MaxSize
  /\ buf' = [buf EXCEPT ![b] = Appended(@, s)]

(* One readv; at the end of the stream or on an error nothing changes.     *)
ReadFromFd(b, s) ==
  /\ s # <<>>
  /\ Received(buf[b], s).size <= MaxSize
  /\ buf' = [buf EXCEPT ![b] = Received(@, s)]

(* Retrieve, RetrieveUntil after its subtraction, and a WriteToFd that     *)
(* wrote len bytes.                                                        *)
Retrieve(b, len) == buf' = [buf EXCEPT ![b] = Retrieved(@, len)]

(* Clear, and RetrieveAllToString after its copy.                          *)
Clear(b) == buf' = [buf EXCEPT ![b] = Cleared(@)]

(* The parser writes '\0' through ReadBegin(), also to the byte before it. *)
Terminate(b, n) ==
  /\ n <= ReadableBytes(buf[b])
  /\ buf' = [buf EXCEPT ![b].data[buf[b].r - 1 + n] = Zero]

Swap(b, c) == buf' = [buf EXCEPT ![b] = buf[c], ![c] = buf[b]]

Init ==
  buf = [b \in Bufs |-> [data |-> [i \in 0 .. InitSize - 1 |-> Zero],
                         size |-> InitSize, r |-> 1, w |-> 1]]

Next ==
  \E b \in Bufs :
    \/ \E s \in Strings : AppendTo(b, s) \/ ReadFromFd(b, s)
    \/ \E n \in 0 .. MaxSize : Retrieve(b, n) \/ Terminate(b, n)
    \/ Clear(b)
    \/ \E c \in Bufs : Swap(b, c)

Spec == Init /\ [][Next]_buf

----------------------------------------------------------------------------
(***************************************************************************)
(* Properties                                                              *)
(***************************************************************************)

(* buffer.h:128, "Always guarantee that it is safe to get the element      *)
(* immediately before the beginning": the indices stay in order, inside    *)
(* the container and off its first byte, and no write goes past its end.   *)
ValidBuffer(x) ==
  /\ x = [data |-> x.data, size |-> x.size, r |-> x.r, w |-> x.w]
  /\ x.size \in Nat /\ x.r \in Nat /\ x.w \in Nat
  /\ 1 <= x.r /\ x.r <= x.w /\ x.w <= x.size
  /\ x.data \in Storage(x.size)

TypeOK == DOMAIN buf = Bufs /\ \A b \in Bufs : ValidBuffer(buf[b])

(* Behind the readable bytes there are only '\0': the parser, which reads  *)
(* lines and bodies as C strings, never runs on into old bytes.            *)
Wiped(x) == \A i \in 0 .. x.size - 1 : i >= x.w => x.data[i] = Zero

WipedBehind == \A b \in Bufs : Wiped(buf[b])

(* The buffer implements the queue of bytes with its byte in front:        *)
(* growing, moving and reading through the overflow buffer lose, repeat or *)
(* reorder nothing.                                                        *)
Content(x) == [i \in 1 .. ReadableBytes(x) |-> x.data[x.r + i - 1]]
Front(x) == x.data[x.r - 1]

Contents == [b \in Bufs |-> Content(buf[b])]
Fronts == [b \in Bufs |-> Front(buf[b])]

Queue == INSTANCE ByteQueue WITH bytes <- Contents, prev <- Fronts
ImplementsByteQueue == Queue!Spec

=============================================================================
