------------------------------ MODULE ByteQueue ------------------------------
(***************************************************************************)
(* What a Buffer promises: a queue of bytes that also remembers the byte   *)
(* in front of the first, because the parser looks at it                   *)
(* (HttpRequest::ParseLine reads begin[-1]).                               *)
(***************************************************************************)
EXTENDS Integers, Sequences

CONSTANTS
  Bufs,     \* the buffers
  Zero,     \* '\0'
  Strings   \* what is put into them

VARIABLES
  bytes,  \* by buffer: the bytes between the two indices
  prev    \* the byte before them

Init ==
  /\ bytes = [b \in Bufs |-> <<>>]
  /\ prev = [b \in Bufs |-> Zero]

Put(b, s) ==
  /\ bytes' = [bytes EXCEPT ![b] = @ \o s]
  /\ UNCHANGED prev

Drop(b, n) ==
  /\ n > 0
  /\ bytes' = [bytes EXCEPT ![b] = SubSeq(@, n + 1, Len(@))]
  /\ prev' = [prev EXCEPT ![b] = bytes[b][n]]

Reset(b) ==
  /\ bytes' = [bytes EXCEPT ![b] = <<>>]
  /\ prev' = [prev EXCEPT ![b] = Zero]

(* The parser ends a token in place; n = 0 is the byte before the first.   *)
Erase(b, n) ==
  \/ n > 0 /\ bytes' = [bytes EXCEPT ![b][n] = Zero] /\ UNCHANGED prev
  \/ n = 0 /\ prev' = [prev EXCEPT ![b] = Zero] /\ UNCHANGED bytes

Swap(b, c) ==
  /\ bytes' = [bytes EXCEPT ![b] = bytes[c], ![c] = bytes[b]]
  /\ prev' = [prev EXCEPT ![b] = prev[c], ![c] = prev[b]]

Next ==
  \E b \in Bufs :
    \/ \E s \in Strings : Put(b, s)
    \/ \E n \in 0 .. Len(bytes[b]) : Drop(b, n) \/ Erase(b, n)
    \/ Reset(b)
    \/ \E c \in Bufs : Swap(b, c)

Spec == Init /\ [][Next]_<<bytes, prev>>
=============================================================================
