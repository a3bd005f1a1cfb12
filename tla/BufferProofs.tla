---------------------------- MODULE BufferProofs ----------------------------
(***************************************************************************)
(* Buffer, proved for every set of bytes, of strings and of buffers: no    *)
(* operation leaves the container, and together they implement ByteQueue.  *)
(***************************************************************************)
EXTENDS Buffer, SequenceTheorems, TLAPS

Good(x) == ValidBuffer(x) /\ Wiped(x)

(* The same bytes to read, and the same byte before them.                  *)
SameView(x, y) == Content(y) = Content(x) /\ Front(y) = Front(x)

(* A valid buffer, component by component.                                 *)
LEMMA ValidFact ==
  ASSUME NEW x, ValidBuffer(x)
  PROVE  /\ x.size \in Nat /\ x.r \in Nat /\ x.w \in Nat
         /\ 1 <= x.r /\ x.r <= x.w /\ x.w <= x.size
         /\ x.data \in [0 .. x.size - 1 -> Byte]
         /\ ReadableBytes(x) = x.w - x.r /\ ReadableBytes(x) \in Nat
         /\ WritableBytes(x) = x.size - x.w /\ WritableBytes(x) \in Nat
  BY DEF ValidBuffer, Storage, ReadableBytes, WritableBytes

(* What there is to read is a sequence of bytes.                           *)
LEMMA ContentFact ==
  ASSUME NEW x, ValidBuffer(x)
  PROVE  /\ Content(x) \in Seq(Byte)
         /\ Len(Content(x)) = x.w - x.r
         /\ \A i \in 1 .. x.w - x.r : Content(x)[i] = x.data[x.r + i - 1]
         /\ Front(x) \in Byte
<1>1. ASSUME NEW i \in 1 .. ReadableBytes(x) PROVE x.data[x.r + i - 1] \in Byte
  <2>1. x.r + i - 1 \in 0 .. x.size - 1
    BY ValidFact
  <2>2. QED
    BY <2>1, ValidFact
<1>2. Content(x) \in [1 .. ReadableBytes(x) -> Byte]
  BY <1>1 DEF Content
<1>3. Content(x) \in Seq(Byte) /\ Len(Content(x)) = ReadableBytes(x)
  BY <1>2, ValidFact
<1>4. \A i \in 1 .. x.w - x.r : Content(x)[i] = x.data[x.r + i - 1]
  BY ValidFact DEF Content
<1>5. Front(x) \in Byte
  <2>1. x.r - 1 \in 0 .. x.size - 1
    BY ValidFact
  <2>2. QED
    BY <2>1, ValidFact DEF Front
<1>6. QED
  BY <1>3, <1>4, <1>5, ValidFact

(* Two buffers with the same bytes from their read positions on show the   *)
(* same content.                                                           *)
LEMMA SameContent ==
  ASSUME NEW x, NEW y, ValidBuffer(x), ValidBuffer(y), y.w - y.r = x.w - x.r,
         \A i \in 1 .. x.w - x.r : y.data[y.r + i - 1] = x.data[x.r + i - 1]
  PROVE  Content(y) = Content(x)
<1>1. Content(x) \in Seq(Byte) /\ Content(y) \in Seq(Byte) /\ Len(Content(y)) = Len(Content(x))
  BY ContentFact
<1>2. ASSUME NEW i \in 1 .. Len(Content(y)) PROVE Content(y)[i] = Content(x)[i]
  <2>1. i \in 1 .. x.w - x.r /\ i \in 1 .. y.w - y.r
    BY ContentFact
  <2>2. Content(y)[i] = y.data[y.r + i - 1] /\ Content(x)[i] = x.data[x.r + i - 1]
    BY <2>1, ContentFact
  <2>3. QED
    BY <2>1, <2>2
<1>3. QED
  BY <1>1, <1>2, SeqEqual

(* MakeSpace makes the room asked for and changes nothing of what is read. *)
LEMMA MakeSpaceFact ==
  ASSUME NEW x, Good(x), NEW len \in Nat, WritableBytes(x) < len
  PROVE  /\ Good(MakeSpace(x, len))
         /\ WritableBytes(MakeSpace(x, len)) >= len
         /\ SameView(x, MakeSpace(x, len))
<1> DEFINE y == MakeSpace(x, len)
<1>0. ValidBuffer(x) /\ Wiped(x)
  BY DEF Good
<1>a. /\ x.size \in Nat /\ x.r \in Nat /\ x.w \in Nat
      /\ 1 <= x.r /\ x.r <= x.w /\ x.w <= x.size
      /\ x.data \in [0 .. x.size - 1 -> Byte]
      /\ ReadableBytes(x) = x.w - x.r /\ ReadableBytes(x) \in Nat
      /\ WritableBytes(x) = x.size - x.w /\ WritableBytes(x) \in Nat
  BY <1>0, ValidFact
<1>b. /\ x.size \in Nat /\ x.r \in Nat /\ x.w \in Nat
      /\ 1 <= x.r /\ x.r <= x.w /\ x.w <= x.size
  BY <1>a
<1>1. CASE WritableBytes(x) + PrependableBytes(x) < len + 1
  <2>1. /\ y = [data |-> y.data, size |-> y.size, r |-> y.r, w |-> y.w]
        /\ y.size = x.w + len + 1 /\ y.r = x.r /\ y.w = x.w
        /\ y.data = [i \in 0 .. x.w + len |-> IF i < x.size THEN x.data[i] ELSE Zero]
    BY <1>1 DEF MakeSpace
  <2>2. x.size < x.w + len + 1
    BY <1>1, <1>a DEF PrependableBytes
  <2> HIDE DEF y
  <2>3. \A i \in 0 .. y.size - 1 : y.data[i] = IF i < x.size THEN x.data[i] ELSE Zero
    BY <2>1, <1>a
  <2>4. y.data \in Storage(y.size)
    BY <2>1, <2>2, <1>a, BufferAssumption DEF Storage
  <2>5. ValidBuffer(y)
    BY <2>1, <2>2, <2>4, <1>a DEF ValidBuffer
  <2>6. Wiped(y)
    BY <2>1, <2>3, <1>0, <1>a DEF Wiped
  <2>7. WritableBytes(y) >= len
    BY <2>1, <1>a DEF WritableBytes
  <2>8. Content(y) = Content(x)
    <3>1. ASSUME NEW i \in 1 .. x.w - x.r
          PROVE  y.data[y.r + i - 1] = x.data[x.r + i - 1]
      <4>1. x.r + i - 1 \in 0 .. y.size - 1 /\ x.r + i - 1 < x.size
        BY <2>1, <2>2, <1>b
      <4>2. QED
        BY <4>1, <2>1, <2>3
    <3>2. QED
      BY <3>1, <2>1, <2>5, <1>0, SameContent
  <2>9. Front(y) = Front(x)
    <3>1. x.r - 1 \in 0 .. y.size - 1 /\ x.r - 1 < x.size
      BY <2>1, <2>2, <1>b
    <3>2. QED
      BY <3>1, <2>1, <2>3 DEF Front
  <2>10. QED
    BY <2>5, <2>6, <2>7, <2>8, <2>9 DEF Good, SameView, y
<1>2. CASE ~ (WritableBytes(x) + PrependableBytes(x) < len + 1)
  <2>1. /\ y = [data |-> y.data, size |-> y.size, r |-> y.r, w |-> y.w]
        /\ y.size = x.size /\ y.r = 1 /\ y.w = 1 + ReadableBytes(x)
        /\ y.data = [i \in 0 .. x.size - 1 |->
                       IF i <= ReadableBytes(x) THEN x.data[x.r - 1 + i] ELSE Zero]
    BY <1>2 DEF MakeSpace
  <2>2. x.size - x.w + x.r >= len + 1
    BY <1>2, <1>a DEF PrependableBytes
  <2> HIDE DEF y
  <2>3. \A i \in 0 .. y.size - 1 :
           y.data[i] = IF i <= x.w - x.r THEN x.data[x.r - 1 + i] ELSE Zero
    BY <2>1, <1>a
  <2>4. ASSUME NEW i \in 0 .. x.size - 1, i <= x.w - x.r
        PROVE  x.data[x.r - 1 + i] \in Byte
    <3>1. x.r - 1 + i \in 0 .. x.size - 1
      BY <2>4, <1>b
    <3>2. QED
      BY <3>1, <1>a
  <2>5. y.data \in Storage(y.size)
    BY <2>1, <2>4, <1>a, BufferAssumption DEF Storage
  <2>6. ValidBuffer(y)
    <3>1. y.size \in Nat /\ y.r \in Nat /\ y.w \in Nat
          /\ 1 <= y.r /\ y.r <= y.w /\ y.w <= y.size
      BY <2>1, <2>2, <1>a
    <3>2. QED
      BY <3>1, <2>1, <2>5, Zenon DEF ValidBuffer
  <2>7. Wiped(y)
    BY <2>1, <2>3, <1>a DEF Wiped
  <2>8. WritableBytes(y) >= len
    BY <2>1, <2>2, <1>a DEF WritableBytes
  <2>9. ASSUME NEW i \in 1 .. x.w - x.r
        PROVE  y.data[y.r + i - 1] = x.data[x.r + i - 1]
    <3>1. i \in 0 .. y.size - 1 /\ y.r + i - 1 = i /\ x.r - 1 + i = x.r + i - 1
      BY <2>1, <1>a
    <3>2. QED
      BY <3>1, <2>3
  <2>10. Content(y) = Content(x)
    <3>1. y.w - y.r = x.w - x.r
      BY <2>1, <1>a
    <3>2. QED
      BY <3>1, <2>6, <2>9, <1>0, SameContent
  <2>11. Front(y) = Front(x)
    BY <2>1, <2>3, <1>a DEF Front
  <2>12. QED
    BY <2>6, <2>7, <2>8, <2>10, <2>11 DEF Good, SameView, y
<1>3. QED
  BY <1>1, <1>2

(* Fill puts a string that fits behind the bytes to be read.               *)
LEMMA FillFact ==
  ASSUME NEW x, Good(x), NEW s \in Seq(Byte), Len(s) <= WritableBytes(x)
  PROVE  /\ Good(Fill(x, s))
         /\ WritableBytes(Fill(x, s)) = WritableBytes(x) - Len(s)
         /\ Content(Fill(x, s)) = Content(x) \o s
         /\ Front(Fill(x, s)) = Front(x)
<1> DEFINE y == Fill(x, s)
<1>0. ValidBuffer(x) /\ Wiped(x)
  BY DEF Good
<1>a. /\ x.size \in Nat /\ x.r \in Nat /\ x.w \in Nat /\ Len(s) \in Nat
      /\ 1 <= x.r /\ x.r <= x.w /\ x.w + Len(s) <= x.size
  BY <1>0, ValidFact
<1>1. /\ y = [data |-> y.data, size |-> y.size, r |-> y.r, w |-> y.w]
      /\ y.size = x.size /\ y.r = x.r /\ y.w = x.w + Len(s)
      /\ y.data = [i \in 0 .. x.size - 1 |->
                     IF x.w <= i /\ i < x.w + Len(s) THEN s[i - x.w + 1] ELSE x.data[i]]
  <2>1. x = [data |-> x.data, size |-> x.size, r |-> x.r, w |-> x.w]
    BY <1>0 DEF ValidBuffer
  <2> DEFINE d == [i \in 0 .. x.size - 1 |->
                     IF x.w <= i /\ i < x.w + Len(s) THEN s[i - x.w + 1] ELSE x.data[i]]
  <2>2. y = [x EXCEPT !.data = d, !.w = x.w + Len(s)]
    BY DEF Fill
  <2> HIDE DEF d, y
  <2>3. y = [data |-> d, size |-> x.size, r |-> x.r, w |-> x.w + Len(s)]
    BY <2>1, <2>2
  <2>4. QED
    BY <2>3 DEF d
<1> HIDE DEF y
<1>2. ASSUME NEW i \in 0 .. x.size - 1
      PROVE  /\ x.w <= i /\ i < x.w + Len(s) => y.data[i] = s[i - x.w + 1]
             /\ ~ (x.w <= i /\ i < x.w + Len(s)) => y.data[i] = x.data[i]
  BY <1>1
<1>3. y.data \in Storage(y.size)
  <2>1. ASSUME NEW i \in 0 .. x.size - 1 PROVE y.data[i] \in Byte
    <3>1. CASE x.w <= i /\ i < x.w + Len(s)
      <4>1. i - x.w + 1 \in 1 .. Len(s)
        BY <3>1, <1>a
      <4>2. QED
        BY <4>1, <3>1, <1>2
    <3>2. CASE ~ (x.w <= i /\ i < x.w + Len(s))
      BY <3>2, <1>2, <1>0, ValidFact
    <3>3. QED
      BY <3>1, <3>2
  <2>2. QED
    BY <2>1, <1>1 DEF Storage
<1>4. ValidBuffer(y)
  <2>1. y.size \in Nat /\ y.r \in Nat /\ y.w \in Nat
        /\ 1 <= y.r /\ y.r <= y.w /\ y.w <= y.size
    BY <1>1, <1>a
  <2>2. QED
    BY <2>1, <1>1, <1>3, Zenon DEF ValidBuffer
<1>5. Wiped(y)
  <2>1. ASSUME NEW i \in 0 .. x.size - 1, i >= x.w + Len(s) PROVE y.data[i] = Zero
    <3>1. i >= x.w /\ ~ (x.w <= i /\ i < x.w + Len(s))
      BY <2>1, <1>a
    <3>2. QED
      BY <3>1, <1>2, <1>0 DEF Wiped
  <2>2. QED
    BY <2>1, <1>1 DEF Wiped
<1>6. WritableBytes(y) = WritableBytes(x) - Len(s)
  BY <1>1, <1>a DEF WritableBytes
<1>7. Content(y) = Content(x) \o s
  <2>1. /\ Content(x) \in Seq(Byte) /\ Len(Content(x)) = x.w - x.r
        /\ Content(y) \in Seq(Byte) /\ Len(Content(y)) = y.w - y.r
    BY <1>0, <1>4, ContentFact
  <2>2. /\ Content(x) \o s \in Seq(Byte) /\ Len(Content(x) \o s) = Len(Content(y))
        /\ \A i \in 1 .. (x.w - x.r) + Len(s) :
             (Content(x) \o s)[i] = IF i <= x.w - x.r THEN Content(x)[i] ELSE s[i - (x.w - x.r)]
    <3>1. /\ Content(x) \o s \in Seq(Byte)
          /\ Len(Content(x) \o s) = Len(Content(x)) + Len(s)
          /\ \A i \in 1 .. Len(Content(x)) + Len(s) :
               (Content(x) \o s)[i] = IF i <= Len(Content(x)) THEN Content(x)[i]
                                      ELSE s[i - Len(Content(x))]
      BY <2>1, ConcatProperties, Zenon
    <3>2. y.w - y.r = (x.w - x.r) + Len(s)
      BY <1>1, <1>a
    <3>3. QED
      BY <2>1, <3>1, <3>2
  <2>3. ASSUME NEW i \in 1 .. Len(Content(y))
        PROVE  Content(y)[i] = (Content(x) \o s)[i]
    <3>1. i \in 1 .. y.w - y.r /\ x.r + i - 1 \in 0 .. x.size - 1
      BY <2>1, <1>1, <1>a
    <3>a. i \in 1 .. (x.w - x.r) + Len(s)
      BY <3>1, <1>1, <1>a
    <3>2. Content(y)[i] = y.data[x.r + i - 1]
      <4>1. Content(y)[i] = y.data[y.r + i - 1]
        BY <3>1, <1>4, ContentFact
      <4>2. QED
        BY <4>1, <1>1
    <3>3. CASE i <= x.w - x.r
      <4>1. i \in 1 .. x.w - x.r /\ ~ (x.w <= x.r + i - 1)
        BY <3>1, <3>3, <1>a
      <4>2. Content(x)[i] = x.data[x.r + i - 1]
        BY <4>1, <1>0, ContentFact
      <4>3. (Content(x) \o s)[i] = Content(x)[i]
        BY <3>3, <3>a, <2>2
      <4>4. QED
        BY <3>1, <3>2, <4>1, <4>2, <4>3, <1>2
    <3>4. CASE ~ (i <= x.w - x.r)
      <4>1. x.w <= x.r + i - 1 /\ x.r + i - 1 < x.w + Len(s)
        BY <3>1, <3>4, <1>1, <1>a
      <4>2. (x.r + i - 1) - x.w + 1 = i - (x.w - x.r)
        BY <3>1, <1>a
      <4>3. (Content(x) \o s)[i] = s[i - (x.w - x.r)]
        BY <3>4, <3>a, <2>2
      <4>4. QED
        BY <3>1, <3>2, <4>1, <4>2, <4>3, <1>2
    <3>5. QED
      BY <3>3, <3>4
  <2>4. QED
    BY <2>1, <2>2, <2>3, SeqEqual
<1>8. Front(y) = Front(x)
  <2>1. x.r - 1 \in 0 .. x.size - 1 /\ ~ (x.w <= x.r - 1)
    BY <1>a
  <2>2. QED
    BY <2>1, <1>1, <1>2 DEF Front
<1>9. QED
  BY <1>4, <1>5, <1>6, <1>7, <1>8 DEF Good, y

(* Append, whatever it does to find room, puts the string behind the bytes *)
(* to be read.                                                             *)
LEMMA AppendedFact ==
  ASSUME NEW x, Good(x), NEW s \in Seq(Byte)
  PROVE  /\ Good(Appended(x, s))
         /\ Content(Appended(x, s)) = Content(x) \o s
         /\ Front(Appended(x, s)) = Front(x)
<1>1. Len(s) \in Nat /\ WritableBytes(x) \in Nat
  BY ValidFact DEF Good
<1>2. CASE WritableBytes(x) < Len(s)
  <2>1. EnsureWriteable(x, Len(s)) = MakeSpace(x, Len(s))
    BY <1>2 DEF EnsureWriteable
  <2>2. /\ Good(MakeSpace(x, Len(s))) /\ Len(s) <= WritableBytes(MakeSpace(x, Len(s)))
        /\ SameView(x, MakeSpace(x, Len(s)))
    BY <1>1, <1>2, MakeSpaceFact DEF Good, ValidBuffer, WritableBytes
  <2>3. QED
    BY <2>1, <2>2, FillFact DEF Appended, SameView
<1>3. CASE ~ (WritableBytes(x) < Len(s))
  <2>1. EnsureWriteable(x, Len(s)) = x /\ Len(s) <= WritableBytes(x)
    BY <1>1, <1>3 DEF EnsureWriteable
  <2>2. QED
    BY <2>1, FillFact DEF Appended
<1>4. QED
  BY <1>2, <1>3

(* A readv across the end of the container arrives in one piece.           *)
LEMMA ReceivedFact ==
  ASSUME NEW x, Good(x), NEW s \in Seq(Byte)
  PROVE  /\ Good(Received(x, s))
         /\ Content(Received(x, s)) = Content(x) \o s
         /\ Front(Received(x, s)) = Front(x)
<1> DEFINE n == WritableBytes(x)
           s1 == SubSeq(s, 1, n)
           s2 == SubSeq(s, n + 1, Len(s))
<1>1. Len(s) \in Nat /\ n \in Nat
  BY ValidFact DEF Good
<1>2. CASE Len(s) < n
  BY <1>1, <1>2, FillFact DEF Received
<1>3. CASE ~ (Len(s) < n)
  <2>1. Received(x, s) = Appended(Fill(x, s1), s2)
    BY <1>3 DEF Received
  <2> HIDE DEF n
  <2>2. s1 \in Seq(Byte) /\ Len(s1) = n /\ s2 \in Seq(Byte) /\ s1 \o s2 = s
    <3>1. \A i \in 1 .. Len(s) : s[i] \in Byte
      BY ElementOfSeq
    <3>2. \A i \in 1 .. n : s[i] \in Byte
      BY <3>1, <1>1, <1>3
    <3>3. s1 \in Seq(Byte) /\ Len(s1) = n
      BY <3>2, <1>1, SubSeqProperties
    <3>4. \A i \in n + 1 .. Len(s) : s[i] \in Byte
      BY <3>1, <1>1
    <3>5. s2 \in Seq(Byte)
      BY <3>4, <1>1, SubSeqProperties
    <3>6. SubSeq(s, 1, n) \o SubSeq(s, n + 1, Len(s)) = SubSeq(s, 1, Len(s))
      <4>1. 1 \in 1 .. Len(s) + 1 /\ n \in 1 - 1 .. Len(s) /\ Len(s) \in n .. Len(s)
        BY <1>1, <1>3
      <4>2. QED
        BY <4>1, ConcatAdjacentSubSeq
    <3>7. QED
      BY <3>3, <3>5, <3>6, SubSeqFull
  <2>3. Content(x) \in Seq(Byte)
    BY ContentFact DEF Good
  <2> HIDE DEF s1, s2
  <2>4. /\ Good(Fill(x, s1)) /\ Content(Fill(x, s1)) = Content(x) \o s1
        /\ Front(Fill(x, s1)) = Front(x)
    BY <2>2, <1>1, FillFact DEF n
  <2>5. (Content(x) \o s1) \o s2 = Content(x) \o (s1 \o s2)
    <3>1. ASSUME NEW c \in Seq(Byte), NEW t \in Seq(Byte), NEW u \in Seq(Byte)
          PROVE  (c \o t) \o u = c \o (t \o u)
      OBVIOUS
    <3>2. QED
      BY <2>2, <2>3, <3>1, Zenon
  <2>6. QED
    BY <2>1, <2>2, <2>4, <2>5, AppendedFact
<1>4. QED
  BY <1>2, <1>3

(* What Retrieve takes off the front becomes, with its last byte, the byte *)
(* in front; what it refuses leaves everything as it is.                   *)
LEMMA RetrievedFact ==
  ASSUME NEW x, Good(x), NEW len \in Nat
  PROVE  /\ Good(Retrieved(x, len))
         /\ len = 0 \/ len > Len(Content(x)) => Retrieved(x, len) = x
         /\ len \in 1 .. Len(Content(x)) =>
              /\ Content(Retrieved(x, len)) = SubSeq(Content(x), len + 1, Len(Content(x)))
              /\ Front(Retrieved(x, len)) = Content(x)[len]
<1> DEFINE y == Retrieved(x, len)
<1>0. ValidBuffer(x) /\ Wiped(x)
  BY DEF Good
<1>a. /\ x.size \in Nat /\ x.r \in Nat /\ x.w \in Nat
      /\ 1 <= x.r /\ x.r <= x.w /\ x.w <= x.size
      /\ ReadableBytes(x) = x.w - x.r /\ Len(Content(x)) = x.w - x.r
      /\ x = [data |-> x.data, size |-> x.size, r |-> x.r, w |-> x.w]
  BY <1>0, ValidFact, ContentFact DEF ValidBuffer
<1>1. CASE len > x.w - x.r
  BY <1>1, <1>a DEF Retrieved
<1>2. CASE ~ (len > x.w - x.r)
  <2>1. /\ y = [data |-> y.data, size |-> y.size, r |-> y.r, w |-> y.w]
        /\ y.data = x.data /\ y.size = x.size /\ y.r = x.r + len /\ y.w = x.w
    <3>1. y = [x EXCEPT !.r = x.r + len]
      BY <1>2, <1>a DEF Retrieved
    <3> HIDE DEF y
    <3>2. y = [data |-> x.data, size |-> x.size, r |-> x.r + len, w |-> x.w]
      BY <3>1, <1>a
    <3>3. QED
      BY <3>2
  <2>2. CASE len = 0
    <3>1. y = [x EXCEPT !.r = x.r + len]
      BY <1>2, <1>a DEF Retrieved
    <3> HIDE DEF y
    <3>2. y = x
      BY <3>1, <2>2, <1>a
    <3>3. QED
      BY <3>2, <2>2, <1>a DEF y
  <2> HIDE DEF y
  <2>3. ValidBuffer(y)
    <3>1. y.size \in Nat /\ y.r \in Nat /\ y.w \in Nat
          /\ 1 <= y.r /\ y.r <= y.w /\ y.w <= y.size
      BY <2>1, <1>a, <1>2
    <3>2. y.data \in Storage(y.size)
      BY <2>1, <1>0 DEF ValidBuffer
    <3>3. QED
      BY <3>1, <3>2, <2>1, Zenon DEF ValidBuffer
  <2>4. Wiped(y)
    BY <2>1, <1>0 DEF Wiped
  <2>5. ASSUME len \in 1 .. Len(Content(x))
        PROVE  /\ Content(y) = SubSeq(Content(x), len + 1, Len(Content(x)))
               /\ Front(y) = Content(x)[len]
    <3> DEFINE n == Len(Content(x))
               t == SubSeq(Content(x), len + 1, n)
    <3>1. /\ Content(x) \in Seq(Byte) /\ Content(y) \in Seq(Byte)
          /\ Len(Content(y)) = n - len /\ n \in Nat /\ len <= n
      BY <2>1, <2>3, <2>5, <1>0, <1>a, ContentFact
    <3>2. /\ t \in Seq(Byte) /\ Len(t) = n - len
          /\ \A i \in 1 .. n - len : t[i] = Content(x)[len + i]
      <4>1. \A i \in len + 1 .. n : Content(x)[i] \in Byte
        BY <3>1, ElementOfSeq
      <4> HIDE DEF n
      <4>2. /\ t \in Seq(Byte)
            /\ Len(t) = IF len + 1 <= n THEN n - (len + 1) + 1 ELSE 0
            /\ \A i \in 1 .. n - (len + 1) + 1 : t[i] = Content(x)[len + 1 + i - 1]
        BY <4>1, <3>1, SubSeqProperties
      <4> HIDE DEF t
      <4>3. QED
        BY <4>2, <3>1
    <3> HIDE DEF t
    <3>3. ASSUME NEW i \in 1 .. Len(Content(y)) PROVE Content(y)[i] = t[i]
      <4>1. /\ i \in 1 .. n - len /\ i \in 1 .. y.w - y.r /\ len + i \in 1 .. x.w - x.r
            /\ y.r + i - 1 = x.r + (len + i) - 1
        BY <3>1, <2>1, <1>a
      <4>2. Content(y)[i] = y.data[y.r + i - 1] /\ Content(x)[len + i] = x.data[x.r + (len + i) - 1]
        BY <4>1, <2>3, <1>0, ContentFact
      <4>3. QED
        BY <4>1, <4>2, <3>2, <2>1
    <3>4. Content(y) = t
      BY <3>1, <3>2, <3>3, SeqEqual
    <3>5. Front(y) = Content(x)[len]
      <4>1. len \in 1 .. x.w - x.r /\ y.r - 1 = x.r + len - 1
        BY <2>1, <2>5, <1>a
      <4>2. QED
        BY <4>1, <2>1, <1>0, ContentFact DEF Front
    <3>6. QED
      BY <3>4, <3>5 DEF t
  <2>6. ~ (len > Len(Content(x)))
    BY <1>2, <1>a
  <2>7. QED
    BY <2>2, <2>3, <2>4, <2>5, <2>6 DEF Good, y
<1>3. QED
  BY <1>1, <1>2

(* Clear leaves nothing to read, behind a '\0'.                            *)
LEMMA ClearedFact ==
  ASSUME NEW x, Good(x)
  PROVE  Good(Cleared(x)) /\ Content(Cleared(x)) = <<>> /\ Front(Cleared(x)) = Zero
<1> DEFINE y == Cleared(x)
<1>1. x.size \in Nat /\ 1 <= x.size
  BY ValidFact DEF Good
<1>2. /\ y = [data |-> y.data, size |-> y.size, r |-> y.r, w |-> y.w]
      /\ y.data = [i \in 0 .. x.size - 1 |-> Zero] /\ y.size = x.size /\ y.r = 1 /\ y.w = 1
  BY DEF Cleared
<1> HIDE DEF y
<1>3. ValidBuffer(y)
  <2>1. y.data \in Storage(y.size)
    BY <1>2, BufferAssumption DEF Storage
  <2>2. y.size \in Nat /\ y.r \in Nat /\ y.w \in Nat /\ 1 <= y.r /\ y.r <= y.w /\ y.w <= y.size
    BY <1>1, <1>2
  <2>3. QED
    BY <2>1, <2>2, <1>2, Zenon DEF ValidBuffer
<1>4. Wiped(y) /\ Front(y) = Zero
  BY <1>1, <1>2 DEF Wiped, Front
<1>5. Content(y) = <<>>
  <2>1. Content(y) \in Seq(Byte) /\ Len(Content(y)) = 0
    BY <1>2, <1>3, ContentFact
  <2>2. QED
    BY <2>1, EmptySeq
<1>6. QED
  BY <1>3, <1>4, <1>5 DEF Good, y

(* Ending a token in place erases that byte, in the text or in front of it.*)
LEMMA TerminatedFact ==
  ASSUME NEW x, Good(x), NEW n \in 0 .. ReadableBytes(x), NEW y,
         y = [x EXCEPT !.data[x.r - 1 + n] = Zero]
  PROVE  /\ Good(y)
         /\ n > 0 => Content(y) = [Content(x) EXCEPT ![n] = Zero] /\ Front(y) = Front(x)
         /\ n = 0 => Content(y) = Content(x) /\ Front(y) = Zero
<1> DEFINE k == x.r - 1 + n
<1>0. ValidBuffer(x) /\ Wiped(x)
  BY DEF Good
<1>a. /\ x.size \in Nat /\ x.r \in Nat /\ x.w \in Nat
      /\ 1 <= x.r /\ x.r <= x.w /\ x.w <= x.size
      /\ n \in Nat /\ n <= x.w - x.r
  BY <1>0, ValidFact
<1>b. k \in 0 .. x.size - 1 /\ k < x.w
  BY <1>a
<1>1. /\ y = [data |-> y.data, size |-> y.size, r |-> y.r, w |-> y.w]
      /\ y.data = [x.data EXCEPT ![k] = Zero] /\ y.size = x.size /\ y.r = x.r /\ y.w = x.w
  BY <1>0 DEF ValidBuffer
<1> HIDE DEF k
<1>2. ASSUME NEW i \in 0 .. x.size - 1
      PROVE  y.data[i] = IF i = k THEN Zero ELSE x.data[i]
  BY <1>0, <1>1, ValidFact
<1>3. ValidBuffer(y)
  <2>1. y.data \in Storage(y.size)
    BY <1>0, <1>1, <1>b, BufferAssumption, ValidFact DEF Storage
  <2>2. y.size \in Nat /\ y.r \in Nat /\ y.w \in Nat /\ 1 <= y.r /\ y.r <= y.w /\ y.w <= y.size
    BY <1>1, <1>a
  <2>3. QED
    BY <2>1, <2>2, <1>1, Zenon DEF ValidBuffer
<1>4. Wiped(y)
  BY <1>0, <1>1, <1>2 DEF Wiped
<1>5. /\ Content(x) \in Seq(Byte) /\ Len(Content(x)) = x.w - x.r
      /\ Content(y) \in Seq(Byte) /\ Len(Content(y)) = x.w - x.r
  BY <1>0, <1>1, <1>3, ContentFact
<1>6. ASSUME NEW i \in 1 .. x.w - x.r
      PROVE  Content(y)[i] = IF i = n THEN Zero ELSE Content(x)[i]
  <2>1. x.r + i - 1 \in 0 .. x.size - 1 /\ (x.r + i - 1 = k <=> i = n)
    BY <1>a DEF k
  <2>2. Content(x)[i] = x.data[x.r + i - 1]
    BY <1>0, ContentFact
  <2>3. Content(y)[i] = y.data[y.r + i - 1]
    <3>1. i \in 1 .. y.w - y.r
      BY <1>1
    <3>2. QED
      BY <3>1, <1>3, ContentFact
  <2>4. QED
    BY <2>1, <2>2, <2>3, <1>1, <1>2
<1>7. CASE n = 0
  <2>1. Content(y) = Content(x)
    BY <1>5, <1>6, <1>7, SeqEqual
  <2>2. Front(y) = Zero
    <3>1. x.r - 1 = k
      BY <1>7, <1>a DEF k
    <3>2. QED
      BY <3>1, <1>1, <1>2, <1>b DEF Front
  <2>3. QED
    BY <2>1, <2>2, <1>3, <1>4, <1>7 DEF Good
<1>8. CASE n > 0
  <2>1. n \in 1 .. Len(Content(x))
    BY <1>5, <1>8, <1>a
  <2> DEFINE t == [Content(x) EXCEPT ![n] = Zero]
  <2>2. /\ t \in Seq(Byte) /\ Len(t) = Len(Content(x))
        /\ \A i \in 1 .. Len(Content(x)) : t[i] = IF i = n THEN Zero ELSE Content(x)[i]
    BY <2>1, <1>5, BufferAssumption, ExceptSeq
  <2> HIDE DEF t
  <2>3. Content(y) = t
    BY <2>2, <1>5, <1>6, SeqEqual
  <2>4. Front(y) = Front(x)
    <3>1. x.r - 1 \in 0 .. x.size - 1 /\ x.r - 1 # k
      BY <1>8, <1>a DEF k
    <3>2. QED
      BY <3>1, <1>1, <1>2 DEF Front
  <2>5. QED
    BY <2>3, <2>4, <1>3, <1>4, <1>8, <1>a DEF Good, t
<1>9. QED
  BY <1>7, <1>8, <1>a

----------------------------------------------------------------------------
IInv == DOMAIN buf = Bufs /\ \A b \in Bufs : Good(buf[b])

(* A step that changes one buffer changes one queue.                       *)
LEMMA OneBuffer ==
  ASSUME IInv, NEW b \in Bufs, NEW y, Good(y), buf' = [buf EXCEPT ![b] = y]
  PROVE  /\ IInv'
         /\ Contents' = [Contents EXCEPT ![b] = Content(y)]
         /\ Fronts' = [Fronts EXCEPT ![b] = Front(y)]
<1>1. DOMAIN buf' = Bufs /\ \A c \in Bufs : buf'[c] = IF c = b THEN y ELSE buf[c]
  BY DEF IInv
<1>2. IInv'
  BY <1>1 DEF IInv
<1>3. Contents' = [Contents EXCEPT ![b] = Content(y)]
  <2>1. Contents' = [c \in Bufs |-> Content(buf'[c])]
    BY DEF Contents
  <2>2. \A c \in Bufs : Content(buf'[c]) = IF c = b THEN Content(y) ELSE Contents[c]
    BY <1>1 DEF Contents
  <2>3. QED
    BY <2>1, <2>2 DEF Contents
<1>4. Fronts' = [Fronts EXCEPT ![b] = Front(y)]
  <2>1. Fronts' = [c \in Bufs |-> Front(buf'[c])]
    BY DEF Fronts
  <2>2. \A c \in Bufs : Front(buf'[c]) = IF c = b THEN Front(y) ELSE Fronts[c]
    BY <1>1 DEF Fronts
  <2>3. QED
    BY <2>1, <2>2 DEF Fronts
<1>5. QED
  BY <1>2, <1>3, <1>4

(* Replacing an entry by itself changes nothing.                           *)
LEMMA SameEntry ==
  /\ \A b \in Bufs : Contents[b] = Content(buf[b]) /\ [Contents EXCEPT ![b] = Contents[b]] = Contents
  /\ \A b \in Bufs : Fronts[b] = Front(buf[b]) /\ [Fronts EXCEPT ![b] = Fronts[b]] = Fronts
  BY DEF Contents, Fronts

(* Every step of a buffer is a step of its queue, or none, and leaves it   *)
(* valid and wiped.                                                        *)
LEMMA StepFact ==
  ASSUME IInv, Next
  PROVE  IInv' /\ [Queue!Next]_<<Contents, Fronts>>
<1> SUFFICES ASSUME NEW b \in Bufs,
                    \/ \E s \in Strings : AppendTo(b, s) \/ ReadFromFd(b, s)
                    \/ \E n \in 0 .. MaxSize : Retrieve(b, n) \/ Terminate(b, n)
                    \/ Clear(b)
                    \/ \E c \in Bufs : Swap(b, c)
             PROVE  IInv' /\ [Queue!Next]_<<Contents, Fronts>>
  BY DEF Next
<1>0. Good(buf[b]) /\ ValidBuffer(buf[b]) /\ DOMAIN buf = Bufs
  BY DEF IInv, Good
<1>a. ASSUME NEW s \in Strings, NEW y, Good(y), buf' = [buf EXCEPT ![b] = y],
             Content(y) = Content(buf[b]) \o s, Front(y) = Front(buf[b])
      PROVE  IInv' /\ Queue!Next
  <2>1. /\ IInv'
        /\ Contents' = [Contents EXCEPT ![b] = Content(y)]
        /\ Fronts' = [Fronts EXCEPT ![b] = Front(y)]
    BY <1>a, OneBuffer
  <2>2. Queue!Put(b, s)
    BY <2>1, <1>a, SameEntry DEF Queue!Put
  <2>3. QED
    BY <2>1, <2>2 DEF Queue!Next
<1>1. ASSUME NEW s \in Strings, AppendTo(b, s)
      PROVE  IInv' /\ Queue!Next
  <2>1. s \in Seq(Byte) /\ buf' = [buf EXCEPT ![b] = Appended(buf[b], s)]
    BY <1>1, BufferAssumption DEF AppendTo
  <2>2. QED
    BY <2>1, <1>0, <1>a, AppendedFact
<1>2. ASSUME NEW s \in Strings, ReadFromFd(b, s)
      PROVE  IInv' /\ Queue!Next
  <2>1. s \in Seq(Byte) /\ buf' = [buf EXCEPT ![b] = Received(buf[b], s)]
    BY <1>2, BufferAssumption DEF ReadFromFd
  <2>2. QED
    BY <2>1, <1>0, <1>a, ReceivedFact
<1>3. ASSUME NEW n \in 0 .. MaxSize, Retrieve(b, n)
      PROVE  IInv' /\ [Queue!Next]_<<Contents, Fronts>>
  <2> DEFINE y == Retrieved(buf[b], n)
  <2>1. n \in Nat /\ buf' = [buf EXCEPT ![b] = y]
    BY <1>3, BufferAssumption DEF Retrieve
  <2>2. /\ Good(y)
        /\ n = 0 \/ n > Len(Content(buf[b])) => y = buf[b]
        /\ n \in 1 .. Len(Content(buf[b])) =>
             /\ Content(y) = SubSeq(Content(buf[b]), n + 1, Len(Content(buf[b])))
             /\ Front(y) = Content(buf[b])[n]
    BY <2>1, <1>0, RetrievedFact
  <2> HIDE DEF y
  <2>3. /\ IInv'
        /\ Contents' = [Contents EXCEPT ![b] = Content(y)]
        /\ Fronts' = [Fronts EXCEPT ![b] = Front(y)]
    BY <2>1, <2>2, OneBuffer
  <2>4. CASE y = buf[b]
    BY <2>3, <2>4, SameEntry
  <2>5. CASE y # buf[b]
    <3>1. n > 0 /\ n \in 1 .. Len(Content(buf[b])) /\ n \in 0 .. Len(Contents[b])
      BY <2>1, <2>2, <2>5, <1>0, ContentFact, SameEntry
    <3>2. Queue!Drop(b, n)
      BY <2>2, <2>3, <3>1, SameEntry DEF Queue!Drop
    <3>3. QED
      BY <2>3, <3>1, <3>2 DEF Queue!Next
  <2>6. QED
    BY <2>4, <2>5
<1>4. ASSUME NEW n \in 0 .. MaxSize, Terminate(b, n)
      PROVE  IInv' /\ Queue!Next
  <2> DEFINE y == [buf[b] EXCEPT !.data[buf[b].r - 1 + n] = Zero]
  <2>1. n \in 0 .. ReadableBytes(buf[b]) /\ buf' = [buf EXCEPT ![b] = y]
    BY <1>4, <1>0, ValidFact DEF Terminate
  <2>2. /\ Good(y)
        /\ n > 0 => Content(y) = [Content(buf[b]) EXCEPT ![n] = Zero] /\ Front(y) = Front(buf[b])
        /\ n = 0 => Content(y) = Content(buf[b]) /\ Front(y) = Zero
    BY <2>1, <1>0, TerminatedFact
  <2> HIDE DEF y
  <2>3. /\ IInv'
        /\ Contents' = [Contents EXCEPT ![b] = Content(y)]
        /\ Fronts' = [Fronts EXCEPT ![b] = Front(y)]
    BY <2>1, <2>2, OneBuffer
  <2>4. n \in 0 .. Len(Contents[b])
    BY <2>1, <1>0, ValidFact, ContentFact, SameEntry
  <2>5. CASE n = 0
    BY <2>2, <2>3, <2>4, <2>5, SameEntry DEF Queue!Next, Queue!Erase
  <2>6. CASE n > 0
    BY <2>2, <2>3, <2>4, <2>6, SameEntry DEF Queue!Next, Queue!Erase
  <2>7. QED
    BY <2>4, <2>5, <2>6
<1>5. ASSUME Clear(b)
      PROVE  IInv' /\ Queue!Next
  <2>1. buf' = [buf EXCEPT ![b] = Cleared(buf[b])]
    BY <1>5 DEF Clear
  <2>2. /\ IInv'
        /\ Contents' = [Contents EXCEPT ![b] = <<>>]
        /\ Fronts' = [Fronts EXCEPT ![b] = Zero]
    <3> DEFINE y == Cleared(buf[b])
    <3>1. Good(y) /\ Content(y) = <<>> /\ Front(y) = Zero
      BY <1>0, ClearedFact
    <3> HIDE DEF y
    <3>2. buf' = [buf EXCEPT ![b] = y]
      BY <2>1 DEF y
    <3>3. QED
      BY <3>1, <3>2, OneBuffer
  <2>3. QED
    BY <2>2 DEF Queue!Next, Queue!Reset
<1>6. ASSUME NEW c \in Bufs, Swap(b, c)
      PROVE  IInv' /\ Queue!Next
  <2>1. /\ DOMAIN buf' = Bufs
        /\ \A d \in Bufs : buf'[d] = IF d = c THEN buf[b] ELSE IF d = b THEN buf[c] ELSE buf[d]
    BY <1>0, <1>6 DEF Swap
  <2>2. IInv'
    BY <2>1 DEF IInv
  <2>3. Contents' = [Contents EXCEPT ![b] = Contents[c], ![c] = Contents[b]]
    <3>1. Contents' = [d \in Bufs |-> Content(buf'[d])]
      BY DEF Contents
    <3>2. \A d \in Bufs : Content(buf'[d]) =
            IF d = c THEN Contents[b] ELSE IF d = b THEN Contents[c] ELSE Contents[d]
      BY <2>1 DEF Contents
    <3>3. QED
      BY <3>1, <3>2 DEF Contents
  <2>4. Fronts' = [Fronts EXCEPT ![b] = Fronts[c], ![c] = Fronts[b]]
    <3>1. Fronts' = [d \in Bufs |-> Front(buf'[d])]
      BY DEF Fronts
    <3>2. \A d \in Bufs : Front(buf'[d]) =
            IF d = c THEN Fronts[b] ELSE IF d = b THEN Fronts[c] ELSE Fronts[d]
      BY <2>1 DEF Fronts
    <3>3. QED
      BY <3>1, <3>2 DEF Fronts
  <2>5. QED
    BY <2>2, <2>3, <2>4 DEF Queue!Next, Queue!Swap
<1>7. QED
  BY <1>1, <1>2, <1>3, <1>4, <1>5, <1>6

----------------------------------------------------------------------------
(* A new buffer satisfies IInv and looks like an empty queue to its        *)
(* callers.                                                                *)
LEMMA InitFact == Init => IInv /\ Queue!Init
<1> SUFFICES ASSUME Init PROVE IInv /\ Queue!Init
  OBVIOUS
<1> DEFINE x == [data |-> [i \in 0 .. InitSize - 1 |-> Zero], size |-> InitSize, r |-> 1, w |-> 1]
<1>1. ValidBuffer(x)
  BY BufferAssumption DEF ValidBuffer, Storage
<1>2. Wiped(x)
  BY BufferAssumption DEF Wiped
<1>3. Front(x) = Zero
  BY BufferAssumption DEF Front
<1>4. Content(x) = <<>>
  <2>1. Content(x) \in Seq(Byte) /\ Len(Content(x)) = 0
    BY <1>1, ContentFact
  <2>2. QED
    BY <2>1, EmptySeq
<1>5. buf = [b \in Bufs |-> x]
  BY DEF Init
<1> HIDE DEF x
<1>6. IInv
  BY <1>1, <1>2, <1>5 DEF IInv, Good
<1>7. Contents = [b \in Bufs |-> <<>>] /\ Fronts = [b \in Bufs |-> Zero]
  BY <1>3, <1>4, <1>5 DEF Contents, Fronts
<1>8. QED
  BY <1>6, <1>7 DEF Queue!Init

(* After any calls on the buffers (Append, Retrieve, ReadFromFd,           *)
(* WriteToFd, Swap, Clear) every buffer satisfies IInv.                    *)
THEOREM Invariance == Spec => []IInv
<1>1. IInv /\ UNCHANGED buf => IInv'
  BY DEF IInv
<1>2. IInv /\ [Next]_buf => IInv'
  BY <1>1, StepFact
<1>3. QED
  BY <1>2, InitFact, PTL DEF Spec

(* No operation moves an index out of order or out of the container, and   *)
(* the byte in front of the first is always there.                         *)
THEOREM TypeCorrect == Spec => []TypeOK
<1>1. IInv => TypeOK
  BY DEF IInv, TypeOK, Good
<1>2. QED
  BY <1>1, Invariance, PTL

(* There is nothing but '\0' behind the bytes to be read.                  *)
THEOREM AlwaysWiped == Spec => []WipedBehind
<1>1. IInv => WipedBehind
  BY DEF IInv, WipedBehind, Good
<1>2. QED
  BY <1>1, Invariance, PTL

(* Whatever a buffer is asked to do, the bytes come out as they went in.   *)
THEOREM Refinement == Spec => ImplementsByteQueue
<1>1. UNCHANGED buf => UNCHANGED <<Contents, Fronts>>
  BY DEF Contents, Fronts
<1>2. IInv /\ [Next]_buf => [Queue!Next]_<<Contents, Fronts>>
  BY <1>1, StepFact
<1>3. QED
  BY <1>2, InitFact, Invariance, PTL DEF Spec, ImplementsByteQueue, Queue!Spec
=============================================================================
