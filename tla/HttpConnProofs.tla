--------------------------- MODULE HttpConnProofs ---------------------------
(***************************************************************************)
(* HttpConn for any files, histories of requests and cuts: what the vector *)
(* for writev points to is exactly what has been made and not been sent; a *)
(* connection that is to be kept is closed for nothing but a stale length; *)
(* and a client that waits for each answer gets one for each request, in   *)
(* whatever pieces the request arrives.                                    *)
(***************************************************************************)
EXTENDS HttpConn, SequenceTheorems, TLAPS

(* What the bytes of responses are.                                        *)
Token == Bytes \cup {"200", "301", "400", "403", "404", "header", "page"}

(* The part of the file that iov_[1] points to.                            *)
FilePart ==
  IF iovCnt = 2 THEN SubSeq(file, iov.base1 + 1, iov.base1 + iov.len1) ELSE <<>>

(* The types of the variables that the vector is made of.                  *)
Shape ==
  /\ writeBuff \in Seq(Token) /\ file \in Seq(Token)
  /\ made \in Seq(Token) /\ out \in Seq(Token)
  /\ iov \in [len0 : Nat, len1 : Nat, base1 : Nat]
  /\ iovCnt \in {1, 2}

(* iov_[0] covers write_buff_, iov_[1] ends where the file does.           *)
Covers ==
  /\ iov.len0 = Len(writeBuff)
  /\ iovCnt = 2 => iov.base1 + iov.len1 = Len(file)

(* Only a connection that writes, or was closed writing, has bytes left.   *)
Places == {"in", "process", "parse", "good", "bad", "out", "write", "closed"}
Drained ==
  /\ pc \in Places
  /\ pc \notin {"out", "write", "closed"} => Vector = <<>>

(* What the parser's request_ may hold.                                    *)
Requests == [state : States, length : -1..2, keep : BOOLEAN]

(* The inductive invariant for what is written.                            *)
IInv == Shape /\ Covers /\ Drained /\ WrittenInOrder

----------------------------------------------------------------------------
(* What a suffix consists of.                                              *)
LEMMA SubSeqWhole ==
  ASSUME NEW S, NEW s \in Seq(S), NEW k \in Nat, k <= Len(s)
  PROVE  /\ SubSeq(s, k + 1, Len(s)) \in Seq(S)
         /\ Len(SubSeq(s, k + 1, Len(s))) = Len(s) - k
         /\ \A i \in 1..Len(s) - k : SubSeq(s, k + 1, Len(s))[i] = s[i + k]
<1>1. \A i \in k + 1..Len(s) : s[i] \in S
  BY ElementOfSeq
<1>2. k + 1 \in Int /\ Len(s) \in Int
  OBVIOUS
<1>3. /\ SubSeq(s, k + 1, Len(s)) \in Seq(S)
      /\ Len(SubSeq(s, k + 1, Len(s))) = IF k + 1 <= Len(s) THEN Len(s) - (k + 1) + 1 ELSE 0
      /\ \A i \in 1..Len(s) - (k + 1) + 1 : SubSeq(s, k + 1, Len(s))[i] = s[k + 1 + i - 1]
  BY <1>1, <1>2, SubSeqProperties
<1>4. Len(SubSeq(s, k + 1, Len(s))) = Len(s) - k
  BY <1>3
<1>5. \A i \in 1..Len(s) - k : SubSeq(s, k + 1, Len(s))[i] = s[i + k]
  BY <1>3
<1> QED
  BY <1>3, <1>4, <1>5

(* A prefix and the rest make up the sequence.                             *)
LEMMA SplitAt ==
  ASSUME NEW S, NEW s \in Seq(S), NEW n \in 1..Len(s)
  PROVE  /\ SubSeq(s, 1, n) \in Seq(S)
         /\ SubSeq(s, n + 1, Len(s)) \in Seq(S)
         /\ SubSeq(s, 1, n) \o SubSeq(s, n + 1, Len(s)) = s
<1>1. SubSeq(s, n + 1, Len(s)) \in Seq(S)
  BY SubSeqWhole
<1>2. SubSeq(s, 1, n) \in Seq(S)
  BY ElementOfSeq, SubSeqProperties
<1>3. 1 \in 1..Len(s) + 1 /\ n \in 1 - 1..Len(s) /\ Len(s) \in n..Len(s)
  OBVIOUS
<1>4. SubSeq(s, 1, n) \o SubSeq(s, n + 1, Len(s)) = SubSeq(s, 1, Len(s))
  BY <1>3, ConcatAdjacentSubSeq, Zenon
<1>5. SubSeq(s, 1, Len(s)) = s
  BY SubSeqFull
<1> QED
  BY <1>1, <1>2, <1>4, <1>5

(* Dropping less than the first of two sequences.                          *)
LEMMA DropInFirst ==
  ASSUME NEW S, NEW s \in Seq(S), NEW t \in Seq(S), NEW n \in Nat, n <= Len(s)
  PROVE  SubSeq(s \o t, n + 1, Len(s \o t)) = SubSeq(s, n + 1, Len(s)) \o t
<1> DEFINE l == SubSeq(s \o t, n + 1, Len(s \o t))
           r == SubSeq(s, n + 1, Len(s)) \o t
<1>1. /\ s \o t \in Seq(S)
      /\ Len(s \o t) = Len(s) + Len(t)
      /\ \A i \in 1..Len(s) + Len(t) :
           (s \o t)[i] = IF i <= Len(s) THEN s[i] ELSE t[i - Len(s)]
  BY ConcatProperties
<1>2. /\ l \in Seq(S)
      /\ Len(l) = Len(s) + Len(t) - n
      /\ \A i \in 1..Len(s) + Len(t) - n : l[i] = (s \o t)[i + n]
  BY <1>1, SubSeqWhole
<1>3. /\ SubSeq(s, n + 1, Len(s)) \in Seq(S)
      /\ Len(SubSeq(s, n + 1, Len(s))) = Len(s) - n
      /\ \A i \in 1..Len(s) - n : SubSeq(s, n + 1, Len(s))[i] = s[i + n]
  BY SubSeqWhole
<1>4. /\ r \in Seq(S)
      /\ Len(r) = Len(s) - n + Len(t)
      /\ \A i \in 1..Len(s) - n + Len(t) :
           r[i] = IF i <= Len(s) - n THEN SubSeq(s, n + 1, Len(s))[i]
                  ELSE t[i - (Len(s) - n)]
  <2>1. /\ r \in Seq(S)
        /\ Len(r) = Len(SubSeq(s, n + 1, Len(s))) + Len(t)
        /\ \A i \in 1..Len(SubSeq(s, n + 1, Len(s))) + Len(t) :
             r[i] = IF i <= Len(SubSeq(s, n + 1, Len(s))) THEN SubSeq(s, n + 1, Len(s))[i]
                    ELSE t[i - Len(SubSeq(s, n + 1, Len(s)))]
    BY <1>3, ConcatProperties, Zenon
  <2> HIDE DEF r
  <2> QED
    BY <2>1, <1>3
<1> HIDE DEF l, r
<1>5. ASSUME NEW i \in 1..Len(l)
      PROVE  l[i] = r[i]
  <2>1. i \in 1..Len(s) + Len(t) - n
    BY <1>2
  <2>2. l[i] = (s \o t)[i + n]
    BY <2>1, <1>2
  <2>3. (s \o t)[i + n] = IF i + n <= Len(s) THEN s[i + n] ELSE t[i + n - Len(s)]
    BY <2>1, <1>1
  <2>4. r[i] = IF i <= Len(s) - n THEN SubSeq(s, n + 1, Len(s))[i] ELSE t[i - (Len(s) - n)]
    BY <2>1, <1>4
  <2>5. CASE i <= Len(s) - n
    <3>1. SubSeq(s, n + 1, Len(s))[i] = s[i + n]
      BY <2>5, <1>3
    <3> QED
      BY <3>1, <2>2, <2>3, <2>4, <2>5
  <2>6. CASE ~(i <= Len(s) - n)
    <3>1. i + n - Len(s) = i - (Len(s) - n)
      OBVIOUS
    <3> QED
      BY <3>1, <2>2, <2>3, <2>4, <2>6
  <2> QED
    BY <2>5, <2>6
<1>6. Len(l) = Len(r)
  BY <1>2, <1>4
<1>7. l = r
  BY <1>2, <1>4, <1>5, <1>6, SeqEqual
<1> QED
  BY <1>7 DEF l, r

(* Dropping all of the first of two sequences, and some of the second.     *)
LEMMA DropInSecond ==
  ASSUME NEW S, NEW s \in Seq(S), NEW t \in Seq(S), NEW n \in Nat,
         Len(s) <= n, n <= Len(s) + Len(t)
  PROVE  SubSeq(s \o t, n + 1, Len(s \o t)) = SubSeq(t, n - Len(s) + 1, Len(t))
<1> DEFINE l == SubSeq(s \o t, n + 1, Len(s \o t))
           k == n - Len(s)
           r == SubSeq(t, k + 1, Len(t))
<1>1. /\ s \o t \in Seq(S)
      /\ Len(s \o t) = Len(s) + Len(t)
      /\ \A i \in 1..Len(s) + Len(t) :
           (s \o t)[i] = IF i <= Len(s) THEN s[i] ELSE t[i - Len(s)]
  BY ConcatProperties
<1>2. /\ l \in Seq(S)
      /\ Len(l) = Len(s) + Len(t) - n
      /\ \A i \in 1..Len(s) + Len(t) - n : l[i] = (s \o t)[i + n]
  BY <1>1, SubSeqWhole
<1>3. k \in Nat /\ k <= Len(t)
  OBVIOUS
<1>4. /\ r \in Seq(S)
      /\ Len(r) = Len(t) - k
      /\ \A i \in 1..Len(t) - k : r[i] = t[i + k]
  BY <1>3, SubSeqWhole
<1> HIDE DEF l, r
<1>5. ASSUME NEW i \in 1..Len(l)
      PROVE  l[i] = r[i]
  <2>1. l[i] = (s \o t)[i + n]
    BY <1>2
  <2>2. (s \o t)[i + n] = t[i + n - Len(s)]
    BY <1>1, <1>2
  <2>3. i + n - Len(s) = i + k
    OBVIOUS
  <2>4. r[i] = t[i + k]
    BY <1>2, <1>4
  <2> QED
    BY <2>1, <2>2, <2>3, <2>4
<1>6. Len(l) = Len(r)
  BY <1>2, <1>4
<1>7. l = r
  BY <1>2, <1>4, <1>5, <1>6, SeqEqual
<1> QED
  BY <1>7 DEF l, r

(* Of a suffix, the rest is a suffix.                                      *)
LEMMA SuffixOfSuffix ==
  ASSUME NEW S, NEW s \in Seq(S), NEW b \in Nat, NEW k \in Nat, b + k <= Len(s)
  PROVE  SubSeq(SubSeq(s, b + 1, Len(s)), k + 1, Len(SubSeq(s, b + 1, Len(s))))
           = SubSeq(s, b + k + 1, Len(s))
<1> DEFINE m == SubSeq(s, b + 1, Len(s))
           l == SubSeq(m, k + 1, Len(m))
           r == SubSeq(s, b + k + 1, Len(s))
<1>1. /\ m \in Seq(S)
      /\ Len(m) = Len(s) - b
      /\ \A i \in 1..Len(s) - b : m[i] = s[i + b]
  BY SubSeqWhole
<1> HIDE DEF m
<1>2. k <= Len(m)
  BY <1>1
<1>3. /\ l \in Seq(S)
      /\ Len(l) = Len(m) - k
      /\ \A i \in 1..Len(m) - k : l[i] = m[i + k]
  BY <1>1, <1>2, SubSeqWhole
<1>4. /\ r \in Seq(S)
      /\ Len(r) = Len(s) - (b + k)
      /\ \A i \in 1..Len(s) - (b + k) : r[i] = s[i + (b + k)]
  BY SubSeqWhole
<1> HIDE DEF l, r
<1>5. ASSUME NEW i \in 1..Len(l)
      PROVE  l[i] = r[i]
  <2>1. i \in 1..Len(m) - k /\ i \in 1..Len(s) - (b + k) /\ i + k \in 1..Len(s) - b
    BY <1>1, <1>3
  <2>2. l[i] = m[i + k] /\ m[i + k] = s[i + k + b] /\ r[i] = s[i + (b + k)]
    BY <2>1, <1>1, <1>3, <1>4
  <2>3. i + k + b = i + (b + k)
    OBVIOUS
  <2> QED
    BY <2>2, <2>3
<1>6. Len(l) = Len(r)
  BY <1>1, <1>3, <1>4
<1>7. l = r
  BY <1>3, <1>4, <1>5, <1>6, SeqEqual
<1> QED
  BY <1>7 DEF l, r, m

----------------------------------------------------------------------------
(* What the vector points to: all of write_buff_, then the file's part.    *)
LEMMA VectorIs ==
  ASSUME Shape, Covers
  PROVE  /\ Vector = writeBuff \o FilePart
         /\ FilePart = IF iovCnt = 2 THEN SubSeq(file, iov.base1 + 1, Len(file)) ELSE <<>>
         /\ FilePart \in Seq(Token) /\ Vector \in Seq(Token)
         /\ Len(FilePart) = IF iovCnt = 2 THEN iov.len1 ELSE 0
         /\ Len(Vector) = iov.len0 + Len(FilePart)
<1> DEFINE T == Token
<1> HIDE DEF T
<1>1. writeBuff \in Seq(Token) /\ file \in Seq(Token)
  BY DEF Shape
<1>2. iov.len0 \in Nat /\ iov.len1 \in Nat /\ iov.base1 \in Nat
  BY DEF Shape
<1>3. iov.len0 = Len(writeBuff)
  BY DEF Covers
<1>4. SubSeq(writeBuff, 1, iov.len0) = writeBuff
  BY <1>1, <1>3, SubSeqFull
<1>5. Vector = writeBuff \o FilePart
  BY <1>4 DEF Vector, FilePart
<1>6. CASE iovCnt = 2
  <2>1. iov.base1 + iov.len1 = Len(file)
    BY <1>6 DEF Covers
  <2>2. FilePart = SubSeq(file, iov.base1 + 1, Len(file))
    BY <1>6, <2>1 DEF FilePart
  <2>3. FilePart \in Seq(Token) /\ Len(FilePart) = Len(file) - iov.base1
    <3>1. iov.base1 <= Len(file)
      BY <2>1, <1>1, <1>2
    <3> QED
      BY <3>1, <2>2, <1>1, <1>2, SubSeqWhole
  <2>4. Len(FilePart) = iov.len1
    BY <2>1, <2>3, <1>1, <1>2
  <2>5. Vector \in Seq(Token) /\ Len(Vector) = iov.len0 + Len(FilePart)
    BY <2>3, <1>1, <1>3, <1>5, ConcatProperties
  <2> QED
    BY <1>5, <1>6, <2>2, <2>3, <2>4, <2>5
<1>7. CASE iovCnt # 2
  <2>1. FilePart = <<>>
    BY <1>7 DEF FilePart
  <2>2. FilePart \in Seq(Token) /\ Len(FilePart) = 0
    BY <2>1
  <2>3. Vector \in Seq(Token) /\ Len(Vector) = iov.len0 + Len(FilePart)
    BY <2>2, <1>1, <1>3, <1>5, ConcatProperties
  <2> QED
    BY <1>5, <1>7, <2>1, <2>2, <2>3
<1> QED
  BY <1>6, <1>7

(* A connection with nothing left to write has sent all that was made, and *)
(* its buffer is empty.                                                    *)
LEMMA NothingLeft ==
  ASSUME IInv, Vector = <<>>
  PROVE  out = made /\ writeBuff = <<>> /\ iov.len0 = 0
<1>1. out \o <<>> = made
  BY DEF IInv, WrittenInOrder
<1>2. out \o <<>> = out
  BY ConcatEmptySeq DEF IInv, Shape
<1>3. Len(Vector) = iov.len0 + Len(FilePart) /\ FilePart \in Seq(Token)
  BY VectorIs DEF IInv
<1>4. iov.len0 \in Nat /\ writeBuff \in Seq(Token) /\ iov.len0 = Len(writeBuff)
  BY DEF IInv, Shape, Covers
<1>5. iov.len0 = 0
  BY <1>3, <1>4
<1>6. writeBuff = <<>>
  <2>1. Len(writeBuff) = 0
    BY <1>4, <1>5
  <2> QED
    BY <2>1, <1>4, EmptySeq
<1> QED
  BY <1>1, <1>2, <1>5, <1>6

(* Steps that leave the response alone.                                    *)
LEMMA ResponseAlone ==
  ASSUME IInv, UNCHANGED response, pc' \in Places,
         pc' \notin {"out", "write", "closed"} => Vector = <<>>
  PROVE  IInv'
<1>1. Vector' = Vector
  BY DEF Vector, response
<1>2. UNCHANGED <<writeBuff, file, iov, iovCnt, made, out>>
  BY DEF response
<1>3. Shape' /\ Covers'
  BY <1>2 DEF IInv, Shape, Covers
<1>4. WrittenInOrder'
  BY <1>1, <1>2 DEF IInv, WrittenInOrder
<1>5. Drained'
  BY <1>1 DEF Drained
<1> QED
  BY <1>3, <1>4, <1>5 DEF IInv

(* A response: appended to an empty buffer, with a file or without.        *)
LEMMA RespondKeeps ==
  ASSUME IInv, Vector = <<>>, NEW code, NEW text \in Seq(Token), NEW f \in Seq(Token),
         Respond(code, text, f)
  PROVE  IInv'
<1>1. out = made /\ writeBuff = <<>> /\ made \in Seq(Token)
  BY NothingLeft DEF IInv, Shape
<1>2. writeBuff' = text
  <2>1. writeBuff' = writeBuff \o text
    BY DEF Respond
  <2> QED
    BY <2>1, <1>1, ConcatEmptySeq
<1>3. /\ file' = f /\ out' = out /\ made' = made \o text \o f /\ pc' = "out"
      /\ iovCnt' = IF f = <<>> THEN 1 ELSE 2
  BY DEF Respond
<1>4. iov' = [len0 |-> Len(text),
              len1 |-> IF f = <<>> THEN iov.len1 ELSE Len(f),
              base1 |-> IF f = <<>> THEN iov.base1 ELSE 0]
  BY <1>2 DEF Respond
<1>5. Len(text) \in Nat /\ Len(f) \in Nat /\ iov.len1 \in Nat /\ iov.base1 \in Nat
  BY DEF IInv, Shape
<1>6. made' \in Seq(Token)
  BY <1>1, <1>3, ConcatProperties
<1>7. Shape'
  <2>1. iov' \in [len0 : Nat, len1 : Nat, base1 : Nat]
    BY <1>4, <1>5
  <2>2. iovCnt' \in {1, 2}
    BY <1>3
  <2> QED
    BY <1>1, <1>2, <1>3, <1>6, <2>1, <2>2 DEF Shape
<1>8. Covers'
  <2>1. iov'.len0 = Len(writeBuff')
    BY <1>2, <1>4
  <2>2. ASSUME iovCnt' = 2
        PROVE  iov'.base1 + iov'.len1 = Len(file')
    <3>1. f # <<>>
      BY <2>2, <1>3
    <3> QED
      BY <3>1, <1>3, <1>4, <1>5
  <2> QED
    BY <2>1, <2>2 DEF Covers
<1>9. Vector' = text \o f
  <2>1. SubSeq(text, 1, Len(text)) = text /\ SubSeq(f, 1, Len(f)) = f
    BY SubSeqFull
  <2>2. iov'.len0 = Len(text)
    BY <1>4
  <2>3. CASE f = <<>>
    <3>1. Vector' = text \o <<>>
      BY <2>1, <2>2, <2>3, <1>2, <1>3 DEF Vector
    <3> QED
      BY <3>1, <2>3
  <2>4. CASE f # <<>>
    <3>1. iov'.base1 + 1 = 1 /\ iov'.base1 + iov'.len1 = Len(f)
      BY <2>4, <1>4, <1>5
    <3> QED
      BY <3>1, <2>1, <2>2, <2>4, <1>2, <1>3 DEF Vector
  <2> QED
    BY <2>3, <2>4
<1>10. WrittenInOrder'
  <2>1. (made \o text) \o f = made \o (text \o f)
    BY <1>1, ConcatAssociative
  <2> QED
    BY <2>1, <1>1, <1>3, <1>9 DEF WrittenInOrder
<1>11. Drained'
  BY <1>3 DEF Drained, Places
<1> QED
  BY <1>7, <1>8, <1>10, <1>11 DEF IInv

(* writev wrote n bytes: the vector has lost its first n.                  *)
LEMMA AdvanceDrops ==
  ASSUME IInv, NEW n \in 1..Len(Vector), Advance(n), UNCHANGED <<file, iovCnt>>
  PROVE  /\ writeBuff' \in Seq(Token)
         /\ iov' \in [len0 : Nat, len1 : Nat, base1 : Nat]
         /\ Covers'
         /\ Vector' = SubSeq(Vector, n + 1, Len(Vector))
<1>1. /\ writeBuff \in Seq(Token) /\ file \in Seq(Token)
      /\ iov \in [len0 : Nat, len1 : Nat, base1 : Nat]
      /\ iov.len0 \in Nat /\ iov.len1 \in Nat /\ iov.base1 \in Nat
      /\ iovCnt \in {1, 2} /\ iov.len0 = Len(writeBuff)
  BY DEF IInv, Shape, Covers
<1>2. /\ Vector = writeBuff \o FilePart
      /\ FilePart = IF iovCnt = 2 THEN SubSeq(file, iov.base1 + 1, Len(file)) ELSE <<>>
      /\ FilePart \in Seq(Token) /\ Vector \in Seq(Token)
      /\ Len(FilePart) = IF iovCnt = 2 THEN iov.len1 ELSE 0
      /\ Len(Vector) = iov.len0 + Len(FilePart)
  BY VectorIs DEF IInv
<1>3. n \in Nat
  BY <1>2
<1>4. CASE n > iov.len0
  <2>1. iovCnt = 2 /\ n <= iov.len0 + iov.len1
    BY <1>1, <1>2, <1>4
  <2>2. /\ iov' = [len0 |-> 0, len1 |-> iov.len1 + iov.len0 - n,
                   base1 |-> iov.base1 + n - iov.len0]
        /\ writeBuff' = IF iov.len0 > 0 THEN <<>> ELSE writeBuff
    BY <1>4 DEF Advance
  <2>3. writeBuff' = <<>>
    BY <2>2, <1>1
  <2>4. iov' \in [len0 : Nat, len1 : Nat, base1 : Nat]
    BY <2>1, <2>2, <1>1, <1>3, <1>4
  <2>5. iov.base1 + iov.len1 = Len(file)
    BY <2>1 DEF IInv, Covers
  <2> DEFINE k == n - iov.len0
  <2>6. k \in Nat /\ iov.base1 + k <= Len(file)
    BY <2>1, <2>5, <1>1, <1>3, <1>4
  <2>7. iov'.base1 = iov.base1 + k /\ iov'.base1 + iov'.len1 = Len(file) /\ iov'.len0 = 0
    BY <2>2, <2>5, <1>1, <1>3
  <2>8. Covers'
    BY <2>3, <2>7 DEF Covers
  <2>9. Vector' = SubSeq(file, iov.base1 + k + 1, Len(file))
    <3>1. SubSeq(<<>>, 1, 0) = <<>>
      BY SubSeqEmpty
    <3>2. Vector' = <<>> \o SubSeq(file, iov.base1 + k + 1, Len(file))
      BY <3>1, <2>1, <2>3, <2>7 DEF Vector
    <3>3. SubSeq(file, iov.base1 + k + 1, Len(file)) \in Seq(Token)
      BY <2>6, <1>1, SubSeqWhole
    <3> QED
      BY <3>2, <3>3, ConcatEmptySeq
  <2>10. SubSeq(Vector, n + 1, Len(Vector)) = SubSeq(FilePart, k + 1, Len(FilePart))
    <3>1. Len(writeBuff) <= n /\ n <= Len(writeBuff) + Len(FilePart)
      BY <2>1, <1>1, <1>2, <1>4
    <3>2. SubSeq(writeBuff \o FilePart, n + 1, Len(writeBuff \o FilePart))
            = SubSeq(FilePart, n - Len(writeBuff) + 1, Len(FilePart))
      <4>1. \A s, t \in Seq(Token) : \A i \in Nat :
              Len(s) <= i /\ i <= Len(s) + Len(t) =>
                SubSeq(s \o t, i + 1, Len(s \o t)) = SubSeq(t, i - Len(s) + 1, Len(t))
        BY DropInSecond, Zenon
      <4>2. writeBuff \in Seq(Token) /\ FilePart \in Seq(Token)
        BY <1>1, <1>2
      <4> HIDE DEF k
      <4> QED
        BY <4>1, <4>2, <3>1, <1>3, Zenon
    <3> QED
      BY <3>2, <1>1, <1>2
  <2>11. SubSeq(FilePart, k + 1, Len(FilePart)) = SubSeq(file, iov.base1 + k + 1, Len(file))
    <3>1. FilePart = SubSeq(file, iov.base1 + 1, Len(file))
      BY <2>1, <1>2
    <3> HIDE DEF k
    <3>2. SubSeq(SubSeq(file, iov.base1 + 1, Len(file)), k + 1,
                 Len(SubSeq(file, iov.base1 + 1, Len(file))))
            = SubSeq(file, iov.base1 + k + 1, Len(file))
      BY <2>6, <1>1, SuffixOfSuffix, Zenon
    <3> QED
      BY <3>1, <3>2
  <2>12. Vector' = SubSeq(Vector, n + 1, Len(Vector))
    BY <2>9, <2>10, <2>11
  <2>13. writeBuff' \in Seq(Token)
    BY <2>3, EmptySeq
  <2> QED
    BY <2>4, <2>8, <2>12, <2>13
<1>5. CASE ~(n > iov.len0)
  <2>1. iov' = [iov EXCEPT !.len0 = @ - n] /\ writeBuff' = SubSeq(writeBuff, n + 1, Len(writeBuff))
    BY <1>5 DEF Advance
  <2>2. n <= Len(writeBuff)
    BY <1>1, <1>3, <1>5
  <2>3. writeBuff' \in Seq(Token) /\ Len(writeBuff') = Len(writeBuff) - n
    BY <2>1, <2>2, <1>1, <1>3, SubSeqWhole
  <2>4. iov'.len0 = iov.len0 - n /\ iov'.len1 = iov.len1 /\ iov'.base1 = iov.base1
    BY <2>1, <1>1
  <2>5. iov' \in [len0 : Nat, len1 : Nat, base1 : Nat]
    <3>1. iov.len0 - n \in Nat
      BY <1>1, <1>3, <1>5
    <3> QED
      BY <3>1, <2>1, <1>1
  <2>6. Covers'
    <3>1. iov'.len0 = Len(writeBuff')
      BY <2>3, <2>4, <1>1
    <3> QED
      BY <3>1, <2>4 DEF IInv, Covers
  <2>7. Vector' = writeBuff' \o FilePart
    <3>1. SubSeq(writeBuff', 1, Len(writeBuff')) = writeBuff'
      BY <2>3, SubSeqFull
    <3>2. iov'.len0 = Len(writeBuff')
      BY <2>6 DEF Covers
    <3>3. FilePart' = FilePart
      BY <2>4 DEF FilePart
    <3>4. Vector' = SubSeq(writeBuff', 1, iov'.len0) \o FilePart'
      BY DEF Vector, FilePart
    <3> QED
      BY <3>1, <3>2, <3>3, <3>4
  <2>8. SubSeq(writeBuff \o FilePart, n + 1, Len(writeBuff \o FilePart))
          = SubSeq(writeBuff, n + 1, Len(writeBuff)) \o FilePart
    <3>1. \A s, t \in Seq(Token) : \A i \in Nat :
            i <= Len(s) => SubSeq(s \o t, i + 1, Len(s \o t)) = SubSeq(s, i + 1, Len(s)) \o t
      BY DropInFirst, Zenon
    <3> QED
      BY <3>1, <2>2, <1>1, <1>2, <1>3, Zenon
  <2> QED
    BY <2>1, <2>3, <2>5, <2>6, <2>7, <2>8, <1>2
<1> QED
  BY <1>4, <1>5

(* What was sent and what is left are what was made.                       *)
LEMMA WritevKeeps ==
  ASSUME IInv, NEW n \in 1..Len(Vector), Writev(n)
  PROVE  IInv'
<1>1. /\ pc = "write" /\ out' = out \o SubSeq(Vector, 1, n) /\ Advance(n)
      /\ UNCHANGED <<file, iovCnt, pc, made>>
  BY DEF Writev
<1>2. /\ writeBuff' \in Seq(Token)
      /\ iov' \in [len0 : Nat, len1 : Nat, base1 : Nat]
      /\ Covers'
      /\ Vector' = SubSeq(Vector, n + 1, Len(Vector))
  BY <1>1, AdvanceDrops
<1>3. Vector \in Seq(Token) /\ out \in Seq(Token) /\ out \o Vector = made
  BY VectorIs DEF IInv, Shape, WrittenInOrder
<1>4. /\ SubSeq(Vector, 1, n) \in Seq(Token)
      /\ SubSeq(Vector, n + 1, Len(Vector)) \in Seq(Token)
      /\ SubSeq(Vector, 1, n) \o SubSeq(Vector, n + 1, Len(Vector)) = Vector
  BY <1>3, SplitAt, Zenon
<1>5. Shape'
  <2>1. out' \in Seq(Token)
    BY <1>1, <1>3, <1>4, ConcatProperties
  <2> QED
    BY <2>1, <1>1, <1>2 DEF IInv, Shape
<1>6. WrittenInOrder'
  <2>1. (out \o SubSeq(Vector, 1, n)) \o SubSeq(Vector, n + 1, Len(Vector))
          = out \o (SubSeq(Vector, 1, n) \o SubSeq(Vector, n + 1, Len(Vector)))
    <3>1. \A a, b, c \in Seq(Token) : (a \o b) \o c = a \o (b \o c)
      BY ConcatAssociative
    <3> QED
      BY <3>1, <1>3, <1>4, Zenon
  <2> QED
    BY <2>1, <1>1, <1>2, <1>3, <1>4 DEF WrittenInOrder
<1>7. Drained'
  BY <1>1 DEF Drained, Places
<1> QED
  BY <1>2, <1>5, <1>6, <1>7 DEF IInv

----------------------------------------------------------------------------
(* A new connection has written nothing and has nothing to write.          *)
LEMMA InitHolds == Init => IInv
<1> SUFFICES ASSUME Init PROVE IInv
  OBVIOUS
<1>1. PICK n \in StaleLens : iov = [len0 |-> 0, len1 |-> n, base1 |-> 0]
  BY DEF Init
<1>2. /\ writeBuff = <<>> /\ file = <<>> /\ iovCnt = 1 /\ pc = "in"
      /\ made = <<>> /\ out = <<>>
  BY DEF Init
<1>3. n \in Nat
  BY ConnAssumption
<1>4. Shape
  BY <1>1, <1>2, <1>3 DEF Shape
<1>5. Covers
  BY <1>1, <1>2 DEF Covers
<1>6. Vector = <<>>
  <2>1. SubSeq(<<>>, 1, 0) = <<>>
    BY SubSeqEmpty
  <2>2. Vector = SubSeq(<<>>, 1, 0) \o <<>>
    BY <1>1, <1>2 DEF Vector
  <2> QED
    BY <2>1, <2>2
<1>7. WrittenInOrder
  BY <1>2, <1>6 DEF WrittenInOrder
<1>8. Drained
  BY <1>2, <1>6 DEF Drained, Places
<1> QED
  BY <1>4, <1>5, <1>7, <1>8 DEF IInv

(* Every step of a worker, of the reactor and of the client keeps IInv.    *)
LEMMA StepHolds == IInv /\ [Next]_vars => IInv'
<1> SUFFICES ASSUME IInv, [Next]_vars PROVE IInv'
  OBVIOUS
<1>0. pc \in Places /\ (pc \notin {"out", "write", "closed"} => Vector = <<>>)
  BY DEF IInv, Drained
<1>1. ASSUME NEW k \in Kinds, Ask(k) PROVE IInv'
  <2>1. UNCHANGED <<response, pc>>
    BY <1>1 DEF Ask
  <2> QED
    BY <2>1, <1>0, ResponseAlone
<1>2. ASSUME Read PROVE IInv'
  <2>1. pc = "in" /\ pc' = "process" /\ UNCHANGED response
    BY <1>2 DEF Read, Receive
  <2> QED
    BY <2>1, <1>0, ResponseAlone DEF Places
<1>3. ASSUME Parse PROVE IInv'
  <2>1. /\ pc \in {"process", "parse"} /\ pc' \in {"in", "parse", "bad", "good"}
        /\ UNCHANGED response
    BY <1>3 DEF Parse, Process, ParseIncomplete, ParseOneLine, ParseBadLine, ParseEnd
  <2> QED
    BY <2>1, <1>0, ResponseAlone DEF Places
<1>4. ASSUME Answer PROVE IInv'
  <2>1. Vector = <<>>
    BY <1>0, <1>4 DEF Answer, BadRequest, MakeResponse
  <2>2. /\ \A code \in {"200", "301", "400", "403", "404"} :
             Header(code) \in Seq(Token) /\ ErrorPage(code) \in Seq(Token)
        /\ <<>> \in Seq(Token)
    BY DEF Header, ErrorPage, Token
  <2>3. \A f \in Files : f \in Seq(Token)
    <3>1. \A f \in Files : f \in Seq(Bytes)
      BY ConnAssumption
    <3> QED
      BY <3>1 DEF Token
  <2>4. \/ \E code \in {"200", "400", "403", "404"} : Respond(code, ErrorPage(code), <<>>)
        \/ \E code \in {"200", "301"} : \E f \in Files : Respond(code, Header(code), f)
    BY <1>4 DEF Answer, BadRequest, MakeResponse
  <2> QED
    BY <2>1, <2>2, <2>3, <2>4, RespondKeeps
<1>5. ASSUME Writable \/ WouldBlock \/ WriteError PROVE IInv'
  <2>1. pc' \in {"write", "out", "closed"} /\ UNCHANGED response
    BY <1>5 DEF Writable, WouldBlock, WriteError
  <2> QED
    BY <2>1, ResponseAlone DEF Places
<1>6. ASSUME Write PROVE IInv'
  BY <1>6, WritevKeeps DEF Write
<1>7. ASSUME WriteDone PROVE IInv'
  <2>1. Vector = <<>> /\ pc' \in {"in", "closed"} /\ UNCHANGED response
    BY <1>7 DEF WriteDone
  <2> QED
    BY <2>1, ResponseAlone DEF Places
<1>8. ASSUME UNCHANGED vars PROVE IInv'
  <2>1. UNCHANGED <<response, pc>>
    BY <1>8 DEF vars, response
  <2> QED
    BY <2>1, <1>0, ResponseAlone
<1> QED
  BY <1>1, <1>2, <1>3, <1>4, <1>5, <1>6, <1>7, <1>8 DEF Next

(* The parser keeps to its states, and to the lengths it has seen.         *)
LEMMA RequestInit == Init => request \in Requests
BY DEF Init, NewRequest, Requests, States

(* What a line makes of the request.                                       *)
LEMMA LineKeeps ==
  ASSUME NEW b, request \in Requests
  PROVE  AfterLine(b) \in Requests
<1>1. \A s \in States : [request EXCEPT !.state = s] \in Requests
  BY DEF Requests
<1>2. \A l \in -1..2 : [request EXCEPT !.length = l] \in Requests
  BY DEF Requests
<1>3. [request EXCEPT !.keep = FALSE] \in Requests
  BY DEF Requests
<1>4. \A text : LengthOf(text) \in -1..2
  BY DEF LengthOf
<1>5. \A c \in BOOLEAN : (IF c THEN "BODY" ELSE "FINISH") \in States
  BY DEF States
<1>6. "HEADERS" \in States /\ "FINISH" \in States /\ "BODY" \in States
  BY DEF States
<1>7. [request EXCEPT !.state = IF request.length >= 0 THEN "BODY" ELSE "FINISH"] \in Requests
  BY <1>1, <1>6
<1>8. [request EXCEPT !.length = LengthOf(Text(b)[1])] \in Requests
  BY <1>2, <1>4
<1>9. [request EXCEPT !.state = "HEADERS"] \in Requests /\ [request EXCEPT !.state = "FINISH"] \in Requests
  BY <1>1, <1>6
<1> QED
  BY <1>3, <1>7, <1>8, <1>9 DEF AfterLine

(* The parser keeps request_ within its type.                              *)
LEMMA RequestStep == request \in Requests /\ [Next]_vars => request' \in Requests
<1> SUFFICES ASSUME request \in Requests, [Next]_vars PROVE request' \in Requests
  OBVIOUS
<1>1. ASSUME Parse PROVE request' \in Requests
  <2>1. ASSUME Process PROVE request' \in Requests
    BY <2>1 DEF Process, NewRequest, Requests, States
  <2>2. ASSUME ParseOneLine PROVE request' \in Requests
    BY <2>2, LineKeeps DEF ParseOneLine
  <2>3. ASSUME ParseBadLine PROVE request' \in Requests
    BY <2>3 DEF ParseBadLine, Requests, States
  <2>4. ASSUME ParseIncomplete \/ ParseEnd PROVE request' \in Requests
    BY <2>4 DEF ParseIncomplete, ParseEnd
  <2> QED
    BY <1>1, <2>1, <2>2, <2>3, <2>4 DEF Parse
<1>2. ASSUME ~Parse PROVE request' = request
  BY <1>2 DEF Next, Ask, Read, Receive, Answer, BadRequest, MakeResponse, Respond,
              Writable, Write, Writev, WouldBlock, WriteError, WriteDone, vars
<1> QED
  BY <1>1, <1>2

----------------------------------------------------------------------------
(* The inductive invariant holds in every reachable state.                 *)
THEOREM ConnInvariant == Spec => [](IInv /\ request \in Requests)
<1>1. Init => IInv /\ request \in Requests
  BY InitHolds, RequestInit
<1>2. (IInv /\ request \in Requests) /\ [Next]_vars => (IInv /\ request \in Requests)'
  BY StepHolds, RequestStep
<1> QED
  BY <1>1, <1>2, PTL DEF Spec

(* The variables keep to their types; iov_[0] stays within write_buff_ and *)
(* iov_[1] within the mapped file, for files of any length.                *)
THEOREM VectorStaysInside == Spec => []TypeOK
<1>1. IInv /\ request \in Requests => TypeOK
  <2> SUFFICES ASSUME IInv, request \in Requests PROVE TypeOK
    OBVIOUS
  <2>1. request.state \in States /\ request.length \in -1..2 /\ request.keep \in BOOLEAN
    BY DEF Requests
  <2>2. iov.len1 \in Nat /\ iov.base1 \in Nat /\ writeBuff \in Seq(Token)
    BY DEF IInv, Shape
  <2>3. iov.len0 \in 0..Len(writeBuff)
    BY <2>2 DEF IInv, Covers
  <2>4. iovCnt = 2 => iov.base1 + iov.len1 <= Len(file)
    <3>1. Len(file) \in Nat
      BY DEF IInv, Shape
    <3> QED
      BY <3>1 DEF IInv, Covers
  <2>5. pc \in {"in", "process", "parse", "good", "bad", "out", "write", "closed"}
    BY DEF IInv, Drained, Places
  <2> QED
    BY <2>1, <2>2, <2>3, <2>4, <2>5 DEF TypeOK
<1> QED
  BY <1>1, ConnInvariant, PTL

(* Whatever writev's return values, nothing of a response is lost, sent    *)
(* twice or out of order, across any number of responses on the            *)
(* connection: WriteToFd's three cases keep iov_, write_buff_ and the      *)
(* mapped file in step.                                                    *)
THEOREM BytesInOrder == Spec => []WrittenInOrder
<1>1. IInv => WrittenInOrder
  BY DEF IInv
<1> QED
  BY <1>1, ConnInvariant, PTL

(* A connection that reads or processes has sent everything it made.       *)
THEOREM ReadsWithNothingLeft ==
  Spec => [](pc \in {"in", "process", "parse", "good", "bad"} => out = made)
<1>1. IInv => (pc \in {"in", "process", "parse", "good", "bad"} => out = made)
  BY NothingLeft DEF IInv, Drained
<1> QED
  BY <1>1, ConnInvariant, PTL


----------------------------------------------------------------------------
(***************************************************************************)
(* Keep-alive                                                              *)
(***************************************************************************)
(* While iov_[1] is not in use its length is what a response with a file   *)
(* left, 0, or what it was before the first such response.                 *)
Unused == iovCnt = 1 => iov.len1 \in StaleLens \cup {0}

(* A vector with nothing to write has no length left but a stale one.      *)
LEMMA NothingPending ==
  ASSUME IInv, Unused, Vector = <<>>
  PROVE  iov.len0 = 0 /\ iov.len1 \in StaleLens \cup {0}
<1>1. iov.len0 = 0
  BY NothingLeft
<1>2. Len(Vector) = iov.len0 + Len(FilePart) /\ Len(FilePart) = IF iovCnt = 2 THEN iov.len1 ELSE 0
  BY VectorIs DEF IInv
<1>3. iov.len1 \in Nat /\ iovCnt \in {1, 2}
  BY DEF IInv, Shape
<1>4. iovCnt = 2 => iov.len1 = 0
  BY <1>1, <1>2, <1>3
<1> QED
  BY <1>1, <1>3, <1>4 DEF Unused

(* Every step keeps Unused.                                                *)
LEMMA UnusedStep == IInv /\ Unused /\ [Next]_vars => Unused'
<1> SUFFICES ASSUME IInv, Unused, [Next]_vars PROVE Unused'
  OBVIOUS
<1>1. ASSUME NEW code, NEW text, NEW f, pc \in {"good", "bad"}, Respond(code, text, f)
      PROVE  Unused'
  <2>1. Vector = <<>>
    BY <1>1 DEF IInv, Drained
  <2>2. iov.len1 \in StaleLens \cup {0}
    BY <2>1, NothingPending
  <2>3. /\ iovCnt' = IF f = <<>> THEN 1 ELSE 2
        /\ iov' = [len0 |-> Len(writeBuff'),
                   len1 |-> IF f = <<>> THEN iov.len1 ELSE Len(f),
                   base1 |-> IF f = <<>> THEN iov.base1 ELSE 0]
    BY <1>1 DEF Respond
  <2> QED
    BY <2>2, <2>3 DEF Unused
<1>2. ASSUME Answer PROVE Unused'
  BY <1>1, <1>2 DEF Answer, BadRequest, MakeResponse
<1>3. ASSUME NEW n \in 1..Len(Vector), Writev(n) PROVE Unused'
  <2> SUFFICES ASSUME iovCnt' = 1 PROVE iov'.len1 \in StaleLens \cup {0}
    BY DEF Unused
  <2>1. iovCnt = 1 /\ Advance(n)
    BY <1>3 DEF Writev
  <2>2. Len(Vector) = iov.len0 + Len(FilePart) /\ Len(FilePart) = 0
    BY <2>1, VectorIs DEF IInv
  <2>3. iov \in [len0 : Nat, len1 : Nat, base1 : Nat]
    BY DEF IInv, Shape
  <2>4. ~(n > iov.len0)
    BY <2>2, <2>3
  <2>5. iov' = [iov EXCEPT !.len0 = @ - n]
    BY <2>1, <2>4 DEF Advance
  <2>6. iov'.len1 = iov.len1
    BY <2>3, <2>5
  <2> QED
    BY <2>1, <2>6 DEF Unused
<1>4. ASSUME ~Answer, ~Write PROVE Unused'
  <2>1. UNCHANGED <<iov, iovCnt>>
    BY <1>4 DEF Next, Ask, Read, Receive, Parse, Process, ParseIncomplete, ParseOneLine,
                ParseBadLine, ParseEnd, Writable, WouldBlock, WriteError, WriteDone,
                vars, response
  <2> QED
    BY <2>1 DEF Unused
<1> QED
  BY <1>2, <1>3, <1>4 DEF Write

(* Unused holds throughout, with IInv, which names the places.             *)
LEMMA UnusedInvariant == Spec => [](IInv /\ Unused)
<1>1. Init => IInv /\ Unused
  <2>1. Init => Unused
    BY DEF Init, Unused
  <2> QED
    BY <2>1, InitHolds
<1>2. (IInv /\ Unused) /\ [Next]_vars => (IInv /\ Unused)'
  BY StepHolds, UnusedStep
<1> QED
  BY <1>1, <1>2, PTL DEF Spec

(* A connection that its client wants to keep, with nothing left to write, *)
(* is closed after a response only for what iov_[1] held before it was     *)
(* first set.                                                              *)
ClosedOnlyByStaleLength ==
  [][pc = "write" /\ pc' = "closed" =>
       ~IsKeepAlive \/ Vector # <<>> \/ iov.len1 \in StaleLens \ {0}]_vars

(* What a step that closes the connection shows.                           *)
LEMMA ClosingStep ==
  ASSUME IInv, Unused, [Next]_vars, pc = "write", pc' = "closed"
  PROVE  ~IsKeepAlive \/ Vector # <<>> \/ iov.len1 \in StaleLens \ {0}
<1>1. WriteError \/ WriteDone
  BY DEF Next, Ask, Read, Receive, Parse, Process, ParseIncomplete, ParseOneLine,
         ParseBadLine, ParseEnd, Answer, BadRequest, MakeResponse, Respond,
         Writable, Write, Writev, WouldBlock, vars
<1>2. CASE WriteError
  BY <1>2 DEF WriteError
<1>3. CASE WriteDone
  <2>1. Vector = <<>> /\ ~(PendingWriteBytes = 0 /\ IsKeepAlive)
    BY <1>3 DEF WriteDone
  <2>2. iov.len0 = 0 /\ iov.len1 \in StaleLens \cup {0} /\ iov.len1 \in Nat
    BY <2>1, NothingPending DEF IInv, Shape
  <2>3. iov.len1 = 0 => PendingWriteBytes = 0
    BY <2>2 DEF PendingWriteBytes
  <2> QED
    BY <2>1, <2>2, <2>3
<1> QED
  BY <1>1, <1>2, <1>3

(* Whatever iov_[1] holds at first: if OnWrite closes a connection that    *)
(* its client wants to keep, and all bytes are written, then for that very *)
(* value, still in iov_[1].iov_len when it tests PendingWriteBytes.        *)
THEOREM KeptButForStale == Spec => ClosedOnlyByStaleLength
<1>1. (IInv /\ Unused) /\ [Next]_vars =>
        [pc = "write" /\ pc' = "closed" =>
           ~IsKeepAlive \/ Vector # <<>> \/ iov.len1 \in StaleLens \ {0}]_vars
  BY ClosingStep
<1> QED
  BY <1>1, UnusedInvariant, PTL DEF Spec, ClosedOnlyByStaleLength

(* Where iov_[1].iov_len is 0 at first, every connection whose client      *)
(* wants to keep it and whose response could be written is kept.           *)
THEOREM ConnectionIsKept == StaleLens \subseteq {0} => (Spec => KeepAliveKept)
<1> SUFFICES ASSUME StaleLens \subseteq {0} PROVE Spec => KeepAliveKept
  OBVIOUS
<1>1. (IInv /\ Unused) /\ [Next]_vars =>
        [pc = "write" /\ pc' = "closed" => ~IsKeepAlive \/ Vector # <<>>]_vars
  BY ClosingStep
<1> QED
  BY <1>1, UnusedInvariant, PTL DEF Spec, KeepAliveKept

(* What requests consist of.                                               *)
Letters == RequestLines \cup HeaderLines \cup {"word", "cr", "lf", "x"}

(* The requests in which every line ends as it should.                     *)
Lined == {"get", "close", "post", "empty", "bad", "badhead"}
SizeOf(k) == IF k = "post" THEN 10 ELSE 8
FirstOf(k) == IF k = "bad" THEN "word" ELSE "GET"
SecondOf(k) ==
  CASE k \in {"get", "bad"} -> "other" [] k = "close" -> "close"
    [] k = "post" -> "length2" [] k = "empty" -> "length0" [] OTHER -> "word"

(* Which kinds of requests there are.                                      *)
LEMMA KindsFact == DOMAIN Message = Lined \cup {"barelf"}
BY DEF Message, Lined

(* A request without a body, and one with a body of two tokens.            *)
Short(a, b) == Line(a) \o Line(b) \o Blank
Long(a, b) == Short(a, b) \o <<"x", "x">>

(* A request is these tokens.                                              *)
LEMMA ShortFact ==
  ASSUME NEW S, NEW a \in S, NEW b \in S, "cr" \in S, "lf" \in S,
         NEW m, m = Short(a, b)
  PROVE  /\ m \in Seq(S) /\ Len(m) = 8
         /\ m[1] = a /\ m[2] = "cr" /\ m[3] = "lf"
         /\ m[4] = b /\ m[5] = "cr" /\ m[6] = "lf" /\ m[7] = "cr" /\ m[8] = "lf"
<1>1. PICK la, lb, bl : la = Line(a) /\ lb = Line(b) /\ bl = Blank
  OBVIOUS
<1>2. la \in Seq(S) /\ Len(la) = 3 /\ la[1] = a /\ la[2] = "cr" /\ la[3] = "lf"
  BY <1>1 DEF Line
<1>3. lb \in Seq(S) /\ Len(lb) = 3 /\ lb[1] = b /\ lb[2] = "cr" /\ lb[3] = "lf"
  BY <1>1 DEF Line
<1>4. bl \in Seq(S) /\ Len(bl) = 2 /\ bl[1] = "cr" /\ bl[2] = "lf"
  BY <1>1 DEF Blank
<1>5. PICK u : u = la \o lb
  OBVIOUS
<1>6. /\ u \in Seq(S) /\ Len(u) = 3 + 3
      /\ \A i \in 1..3 + 3 : u[i] = IF i <= 3 THEN la[i] ELSE lb[i - 3]
  <2>1. /\ u \in Seq(S) /\ Len(u) = Len(la) + Len(lb)
        /\ \A i \in 1..Len(la) + Len(lb) : u[i] = IF i <= Len(la) THEN la[i] ELSE lb[i - Len(la)]
    BY <1>2, <1>3, <1>5, ConcatProperties, Zenon
  <2> QED
    BY <2>1, <1>2, <1>3
<1>7. PICK n : n = u \o bl
  OBVIOUS
<1>8. /\ n \in Seq(S) /\ Len(n) = 6 + 2
      /\ \A i \in 1..6 + 2 : n[i] = IF i <= 6 THEN u[i] ELSE bl[i - 6]
  <2>1. /\ n \in Seq(S) /\ Len(n) = Len(u) + Len(bl)
        /\ \A i \in 1..Len(u) + Len(bl) : n[i] = IF i <= Len(u) THEN u[i] ELSE bl[i - Len(u)]
    BY <1>4, <1>6, <1>7, ConcatProperties, Zenon
  <2> QED
    BY <2>1, <1>4, <1>6
<1>9. m = n
  BY <1>1, <1>5, <1>7 DEF Short
<1> QED
  BY <1>2, <1>3, <1>4, <1>6, <1>8, <1>9

(* The tokens of a request that has a body.                                *)
LEMMA LongFact ==
  ASSUME NEW S, NEW a \in S, NEW b \in S, "cr" \in S, "lf" \in S, "x" \in S,
         NEW m, m = Long(a, b)
  PROVE  /\ m \in Seq(S) /\ Len(m) = 10
         /\ m[1] = a /\ m[2] = "cr" /\ m[3] = "lf"
         /\ m[4] = b /\ m[5] = "cr" /\ m[6] = "lf" /\ m[7] = "cr" /\ m[8] = "lf"
         /\ m[9] = "x" /\ m[10] = "x"
<1>1. PICK h, xs : h = Short(a, b) /\ xs = <<"x", "x">>
  OBVIOUS
<1>2. /\ h \in Seq(S) /\ Len(h) = 8
      /\ h[1] = a /\ h[2] = "cr" /\ h[3] = "lf"
      /\ h[4] = b /\ h[5] = "cr" /\ h[6] = "lf" /\ h[7] = "cr" /\ h[8] = "lf"
  BY <1>1, ShortFact
<1>3. xs \in Seq(S) /\ Len(xs) = 2 /\ xs[1] = "x" /\ xs[2] = "x"
  BY <1>1
<1>4. PICK n : n = h \o xs
  OBVIOUS
<1>5. /\ n \in Seq(S) /\ Len(n) = 8 + 2
      /\ \A i \in 1..8 + 2 : n[i] = IF i <= 8 THEN h[i] ELSE xs[i - 8]
  <2>1. /\ n \in Seq(S) /\ Len(n) = Len(h) + Len(xs)
        /\ \A i \in 1..Len(h) + Len(xs) : n[i] = IF i <= Len(h) THEN h[i] ELSE xs[i - Len(h)]
    BY <1>2, <1>3, <1>4, ConcatProperties, Zenon
  <2> QED
    BY <2>1, <1>2, <1>3
<1>6. m = n
  BY <1>1, <1>4 DEF Long
<1> QED
  BY <1>2, <1>3, <1>5, <1>6

(* Every request but the one with bare line feeds, token by token.         *)
LEMMA LinedFact ==
  ASSUME NEW k \in Lined, NEW m, m = Message[k]
  PROVE  /\ m \in Seq(Letters) /\ Len(m) = SizeOf(k)
         /\ m[1] = FirstOf(k) /\ m[2] = "cr" /\ m[3] = "lf"
         /\ m[4] = SecondOf(k) /\ m[5] = "cr" /\ m[6] = "lf" /\ m[7] = "cr" /\ m[8] = "lf"
         /\ k = "post" => m[9] = "x" /\ m[10] = "x"
<1>1. /\ FirstOf(k) \in Letters /\ SecondOf(k) \in Letters
      /\ "cr" \in Letters /\ "lf" \in Letters /\ "x" \in Letters
  BY DEF FirstOf, SecondOf, Letters, RequestLines, HeaderLines
<1>2. CASE k = "post"
  <2>1. m = Long(FirstOf(k), SecondOf(k))
    BY <1>2 DEF Message, FirstOf, SecondOf, Long, Short
  <2>2. SizeOf(k) = 10
    BY <1>2 DEF SizeOf
  <2> QED
    BY <2>1, <2>2, <1>1, LongFact
<1>3. CASE k # "post"
  <2>1. m = Short(FirstOf(k), SecondOf(k))
    <3>1. k \in {"get", "close", "empty", "bad", "badhead"}
      BY <1>3 DEF Lined
    <3>2. /\ k = "get" => FirstOf(k) = "GET" /\ SecondOf(k) = "other"
          /\ k = "bad" => FirstOf(k) = "word" /\ SecondOf(k) = "other"
          /\ k = "close" => FirstOf(k) = "GET" /\ SecondOf(k) = "close"
          /\ k = "empty" => FirstOf(k) = "GET" /\ SecondOf(k) = "length0"
          /\ k = "badhead" => FirstOf(k) = "GET" /\ SecondOf(k) = "word"
      BY DEF FirstOf, SecondOf
    <3>3. /\ Message["get"] = Short("GET", "other")
          /\ Message["bad"] = Short("word", "other")
          /\ Message["close"] = Short("GET", "close")
          /\ Message["empty"] = Short("GET", "length0")
          /\ Message["badhead"] = Short("GET", "word")
      BY DEF Message, Short
    <3> QED
      BY <3>1, <3>2, <3>3
  <2>2. SizeOf(k) = 8
    BY <1>3 DEF SizeOf
  <2> QED
    BY <2>1, <2>2, <1>1, <1>3, ShortFact
<1> QED
  BY <1>2, <1>3

(* The request with bare line feeds, token by token.                       *)
LEMMA BareFact ==
  ASSUME NEW m, m = Message["barelf"]
  PROVE  m \in Seq(Letters) /\ Len(m) = 3 /\ m[1] = "GET" /\ m[2] = "lf" /\ m[3] = "lf"
<1>1. m = <<"GET", "lf", "lf">>
  BY DEF Message
<1> QED
  BY <1>1 DEF Letters, RequestLines

(* What a piece of a sequence consists of.                                 *)
LEMMA PieceFact ==
  ASSUME NEW S, NEW s \in Seq(S), NEW p \in Nat, NEW r \in p..Len(s)
  PROVE  /\ SubSeq(s, p + 1, r) \in Seq(S) /\ Len(SubSeq(s, p + 1, r)) = r - p
         /\ \A i \in 1..r - p : SubSeq(s, p + 1, r)[i] = s[p + i]
<1>1. \A i \in p + 1..r : s[i] \in S
  BY ElementOfSeq
<1>2. p + 1 \in Int /\ r \in Int
  OBVIOUS
<1>3. /\ SubSeq(s, p + 1, r) \in Seq(S)
      /\ Len(SubSeq(s, p + 1, r)) = IF p + 1 <= r THEN r - (p + 1) + 1 ELSE 0
      /\ \A i \in 1..r - (p + 1) + 1 : SubSeq(s, p + 1, r)[i] = s[p + 1 + i - 1]
  BY <1>1, <1>2, SubSeqProperties
<1> QED
  BY <1>3

(* Where the line that begins after p tokens has its CR.                   *)
EndOf(p) == IF p = 6 THEN 7 ELSE p + 2
NextOf(p) == EndOf(p) + 1

(* Where the CRs and LFs are.                                              *)
LEMMA EndsFact ==
  ASSUME NEW k \in Lined, NEW m, m = Message[k]
  PROVE  \A i \in 1..Len(m) : /\ m[i] = "cr" <=> i \in {2, 5, 7}
                              /\ m[i] = "lf" <=> i \in {3, 6, 8}
<1>1. /\ FirstOf(k) \notin {"cr", "lf"} /\ SecondOf(k) \notin {"cr", "lf"}
  BY DEF FirstOf, SecondOf
<1>2. /\ Len(m) = SizeOf(k)
      /\ m[1] = FirstOf(k) /\ m[2] = "cr" /\ m[3] = "lf"
      /\ m[4] = SecondOf(k) /\ m[5] = "cr" /\ m[6] = "lf" /\ m[7] = "cr" /\ m[8] = "lf"
      /\ k = "post" => m[9] = "x" /\ m[10] = "x"
  BY LinedFact
<1>3. Len(m) = 8 \/ (k = "post" /\ Len(m) = 10)
  <2>1. Len(m) = SizeOf(k)
    BY <1>2
  <2> QED
    BY <2>1 DEF SizeOf
<1> SUFFICES ASSUME NEW i \in 1..Len(m)
             PROVE  (m[i] = "cr" <=> i \in {2, 5, 7}) /\ (m[i] = "lf" <=> i \in {3, 6, 8})
  OBVIOUS
<1>4. i \in 1..8 \/ (k = "post" /\ i \in {9, 10})
  <2>1. CASE Len(m) = 8
    <3>1. i \in 1..8
      BY <2>1
    <3> QED
      BY <3>1
  <2>2. CASE k = "post" /\ Len(m) = 10
    <3>1. i \in 1..10
      BY <2>2
    <3>2. i <= 8 \/ i = 9 \/ i = 10
      BY <3>1
    <3>3. i \in 1..8 \/ i \in {9, 10}
      BY <3>1, <3>2
    <3> QED
      BY <2>2, <3>3
  <2> QED
    BY <1>3, <2>1, <2>2
<1>5. CASE i \in 1..8
  <2>1. \/ i \in {1, 4} /\ m[i] \notin {"cr", "lf"}
        \/ i \in {2, 5, 7} /\ m[i] = "cr"
        \/ i \in {3, 6, 8} /\ m[i] = "lf"
    BY <1>1, <1>2, <1>5
  <2> QED
    BY <2>1
<1>6. CASE k = "post" /\ i \in {9, 10}
  BY <1>2, <1>6
<1> QED
  BY <1>4, <1>5, <1>6

(* What ParseLine finds in a piece that begins where a line does.          *)
LEMMA LineEndFact ==
  ASSUME NEW k \in Lined, NEW m, m = Message[k], NEW p \in {0, 3, 6}, NEW r \in p..Len(m),
         NEW b, b = SubSeq(m, p + 1, r)
  PROVE  LineEnd(b) = IF EndOf(p) < r THEN EndOf(p) - p ELSE 0
<1>1. Len(b) = r - p /\ \A i \in 1..r - p : b[i] = m[p + i]
  <2>1. m \in Seq(Letters)
    BY LinedFact
  <2> QED
    BY <2>1, PieceFact
<1>2. Len(m) \in Nat /\ Len(m) >= 8
  <2>1. Len(m) = SizeOf(k)
    BY LinedFact
  <2> QED
    BY <2>1 DEF SizeOf
<1>3. \A i \in 1..r - p : /\ b[i] = "cr" <=> p + i \in {2, 5, 7}
                          /\ b[i] = "lf" <=> p + i \in {3, 6, 8}
  <2>1. \A i \in 1..r - p : p + i \in 1..Len(m)
    BY <1>2
  <2> QED
    BY <2>1, <1>1, EndsFact
<1> DEFINE ends == {i \in 1..Len(b) - 1 :
                      /\ b[i] = "cr" /\ b[i + 1] = "lf"
                      /\ \A j \in 1..i - 1 : b[j] # "lf"}
           c == EndOf(p) - p
<1>4. c \in Nat /\ c > 0 /\ EndOf(p) \in {2, 5, 7} /\ EndOf(p) = p + c
  BY DEF EndOf
<1>5. \A i \in ends : c <= i /\ EndOf(p) < r
  <2> SUFFICES ASSUME NEW i \in ends PROVE c <= i /\ EndOf(p) < r
    OBVIOUS
  <2>1. i \in 1..r - p /\ i + p < r /\ b[i] = "cr"
    BY <1>1
  <2>2. p + i \in {2, 5, 7}
    BY <2>1, <1>3
  <2>3. p + i >= EndOf(p)
    BY <2>1, <2>2 DEF EndOf
  <2> QED
    BY <2>1, <2>3, <1>4
<1>6. ASSUME EndOf(p) < r
      PROVE  c \in ends
  <2>1. c \in 1..Len(b) - 1 /\ c + 1 \in 1..r - p /\ c \in 1..r - p
    BY <1>1, <1>4, <1>6
  <2>2. b[c] = "cr" /\ b[c + 1] = "lf"
    <3>1. p + (c + 1) \in {3, 6, 8} /\ p + c \in {2, 5, 7}
      BY <1>4
    <3> HIDE DEF c
    <3> QED
      BY <3>1, <2>1, <1>3
  <2>3. \A j \in 1..c - 1 : b[j] # "lf"
    <3> SUFFICES ASSUME NEW j \in 1..c - 1 PROVE b[j] # "lf"
      OBVIOUS
    <3>1. j \in 1..r - p /\ p + j \notin {3, 6, 8}
      BY <2>1 DEF EndOf
    <3> QED
      BY <3>1, <1>3
  <2> QED
    BY <2>1, <2>2, <2>3
<1>7. LineEnd(b) = IF ends = {} THEN 0 ELSE CHOOSE i \in ends : \A j \in ends : i <= j
  BY DEF LineEnd
<1> HIDE DEF ends, c
<1>8. CASE EndOf(p) < r
  <2>1. c \in ends /\ \A j \in ends : c <= j
    BY <1>5, <1>6, <1>8
  <2>2. \A i \in ends : (\A j \in ends : i <= j) => i = c
    <3>1. \A i \in ends : i \in Nat
      BY DEF ends
    <3> QED
      BY <3>1, <2>1, <1>4
  <2>3. (CHOOSE i \in ends : \A j \in ends : i <= j) = c
    BY <2>1, <2>2
  <2> QED
    BY <2>1, <2>3, <1>7, <1>8 DEF c
<1>9. CASE ~(EndOf(p) < r)
  <2>1. ends = {}
    BY <1>5, <1>9
  <2> QED
    BY <2>1, <1>7, <1>9
<1> QED
  BY <1>8, <1>9

(* In a request with bare line feeds it finds none.                        *)
LEMMA BareEndFact ==
  ASSUME NEW m, m = Message["barelf"], NEW r \in 0..Len(m), NEW b, b = SubSeq(m, 1, r)
  PROVE  LineEnd(b) = 0
<1>1. m \in Seq(Letters) /\ Len(m) = 3 /\ m[1] = "GET" /\ m[2] = "lf" /\ m[3] = "lf"
  BY BareFact
<1>2. Len(b) = r /\ \A i \in 1..r : b[i] = m[i]
  <2>1. \A p \in Nat : r \in p..Len(m) =>
          /\ Len(SubSeq(m, p + 1, r)) = r - p
          /\ \A i \in 1..r - p : SubSeq(m, p + 1, r)[i] = m[p + i]
    BY <1>1, PieceFact
  <2>2. r \in Nat /\ 0 + 1 = 1 /\ r - 0 = r /\ \A i \in 1..r : 0 + i = i
    BY <1>1
  <2>3. Len(SubSeq(m, 0 + 1, r)) = r - 0 /\ \A i \in 1..r - 0 : SubSeq(m, 0 + 1, r)[i] = m[0 + i]
    BY <2>1
  <2> QED
    BY <2>2, <2>3
<1>3. \A i \in 1..r : i \in 1..3 /\ b[i] # "cr"
  BY <1>1, <1>2
<1>4. {i \in 1..Len(b) - 1 : /\ b[i] = "cr" /\ b[i + 1] = "lf"
                             /\ \A j \in 1..i - 1 : b[j] # "lf"} = {}
  BY <1>1, <1>2, <1>3
<1> QED
  BY <1>4 DEF LineEnd

(* The first token of a sequence.                                          *)
LEMMA FirstFact ==
  ASSUME NEW S, NEW s \in Seq(S), Len(s) >= 1
  PROVE  SubSeq(s, 1, 1) = <<s[1]>>
<1>1. \A i \in 1..1 : s[i] \in S
  <2>1. 1 \in 1..Len(s)
    OBVIOUS
  <2> QED
    BY <2>1, ElementOfSeq
<1>2. /\ SubSeq(s, 1, 1) \in Seq(S)
      /\ Len(SubSeq(s, 1, 1)) = IF 1 <= 1 THEN 1 - 1 + 1 ELSE 0
      /\ \A i \in 1..1 - 1 + 1 : SubSeq(s, 1, 1)[i] = s[1 + i - 1]
  BY <1>1, SubSeqProperties
<1>3. PICK t, v : t = SubSeq(s, 1, 1) /\ v = s[1]
  OBVIOUS
<1>4. t \in Seq(S) /\ Len(t) = 1 /\ t[1] = v
  BY <1>2, <1>3
<1>5. v \in S
  BY <1>1, <1>3
<1>6. t = <<v>>
  BY <1>4, <1>5
<1> QED
  BY <1>3, <1>6

(* The text of a line of a request.                                        *)
LEMMA TextFact ==
  ASSUME NEW k \in Lined, NEW m, m = Message[k], NEW p \in {0, 3, 6}, NEW r \in p..Len(m),
         EndOf(p) < r, NEW b, b = SubSeq(m, p + 1, r)
  PROVE  (p = 6 => Text(b) = <<>>) /\ (p # 6 => Text(b) = <<m[p + 1]>>)
<1>1. m \in Seq(Letters)
  BY LinedFact
<1>2. b \in Seq(Letters) /\ Len(b) = r - p /\ \A i \in 1..r - p : b[i] = m[p + i]
  BY <1>1, PieceFact
<1>3. r \in Nat /\ p \in Nat /\ Len(m) \in Nat
  BY <1>1
<1>4. \A i \in 1..r - p : b[i] = "cr" <=> p + i \in {2, 5, 7}
  <2>1. \A i \in 1..r - p : p + i \in 1..Len(m)
    BY <1>3
  <2>2. \A i \in 1..Len(m) : m[i] = "cr" <=> i \in {2, 5, 7}
    BY EndsFact
  <2> QED
    BY <2>1, <2>2, <1>2
<1>5. \A i \in 1..Len(b) : b[i] # "nul"
  <2>1. "nul" \notin Letters
    BY DEF Letters, RequestLines, HeaderLines
  <2> QED
    BY <2>1, <1>2
<1> DEFINE cut == {i \in 1..Len(b) : b[i] \in {"cr", "nul"}}
           c == EndOf(p) - p
<1>6. c \in 1..Len(b) /\ p + c \in {2, 5, 7}
  BY <1>2, <1>3 DEF EndOf
<1>7. \A i \in cut : i \in Nat /\ c <= i
  <2> SUFFICES ASSUME NEW i \in cut PROVE i \in Nat /\ c <= i
    OBVIOUS
  <2>1. i \in 1..r - p /\ b[i] = "cr"
    BY <1>2, <1>5
  <2>2. p + i \in {2, 5, 7}
    BY <2>1, <1>4
  <2> QED
    BY <2>1, <2>2 DEF EndOf
<1>8. c \in cut
  <2>1. b[c] = "cr"
    <3> HIDE DEF c
    <3> QED
      BY <1>2, <1>4, <1>6
  <2> QED
    BY <2>1, <1>6
<1>9. Text(b) = SubSeq(b, 1, (CHOOSE i \in cut : \A j \in cut : i <= j) - 1)
  BY DEF Text
<1>10. (CHOOSE i \in cut : \A j \in cut : i <= j) = c
  <2> HIDE DEF cut, c
  <2>1. c \in Nat
    BY <1>7, <1>8
  <2>2. \A i \in cut : (\A j \in cut : i <= j) => i = c
    BY <2>1, <1>7, <1>8
  <2> QED
    BY <2>2, <1>7, <1>8
<1>11. Text(b) = SubSeq(b, 1, c - 1)
  <2> HIDE DEF cut, c
  <2> QED
    BY <1>9, <1>10
<1>12. CASE p = 6
  <2>1. c - 1 = 0
    BY <1>12 DEF EndOf
  <2>2. SubSeq(b, 1, 0) = <<>>
    BY SubSeqEmpty
  <2> HIDE DEF cut, c
  <2> QED
    BY <2>1, <2>2, <1>11, <1>12
<1>13. CASE p # 6
  <2>1. c - 1 = 1 /\ 1 \in 1..r - p
    BY <1>3, <1>13 DEF EndOf
  <2>2. SubSeq(b, 1, 1) = <<b[1]>>
    <3>1. Len(b) >= 1
      BY <2>1, <1>2, <1>3
    <3> QED
      BY <3>1, <1>2, FirstFact, Zenon
  <2>3. b[1] = m[p + 1]
    BY <1>2, <2>1
  <2> HIDE DEF cut, c
  <2> QED
    BY <2>1, <2>2, <2>3, <1>11, <1>13
<1> QED
  BY <1>12, <1>13

----------------------------------------------------------------------------
(***************************************************************************)
(* Requests of a client that waits for its answers                         *)
(***************************************************************************)
(* After how many tokens of a request of kind k the parser may stop, and   *)
(* what state and length it has there.                                     *)
MayStop(k, p) ==
  \/ p = 0
  \/ p = 3 /\ k \in WellFormed \cup {"badhead"}
  \/ p \in {6, 8} /\ k \in WellFormed
  \/ p = 10 /\ k = "post"
HasBody(k) == k \in {"post", "empty"}
StateAt(k, p) ==
  CASE p = 0 -> "REQUEST_LINE"
    [] p \in {3, 6} -> "HEADERS"
    [] p = 8 /\ HasBody(k) -> "BODY"
    [] OTHER -> "FINISH"
LengthAt(k, p) == IF p < 6 \/ ~HasBody(k) THEN -1 ELSE IF k = "post" THEN 2 ELSE 0

(* The line at the beginning of b leads from p to q, or is malformed.      *)
Leads(k, p, q, b) ==
  /\ ParseLine(b) = q - p
  /\ LineParses(b) <=> MayStop(k, q)
  /\ MayStop(k, q) =>
       AfterLine(b).state = StateAt(k, q) /\ AfterLine(b).length = LengthAt(k, q)

(* A line that is complete leads from one such place to the next, or is    *)
(* malformed.                                                              *)
LEMMA LineStep ==
  ASSUME NEW k \in Lined, NEW m, m = Message[k], NEW p \in {0, 3, 6}, NEW r \in p..Len(m),
         EndOf(p) < r, NEW b, b = SubSeq(m, p + 1, r), MayStop(k, p),
         request \in Requests, request.state = StateAt(k, p), request.length = LengthAt(k, p),
         NEW q, q = NextOf(p)
  PROVE  Leads(k, p, q, b)
<1> SUFFICES /\ ParseLine(b) = q - p
             /\ LineParses(b) <=> MayStop(k, q)
             /\ MayStop(k, q) => /\ AfterLine(b).state = StateAt(k, q)
                                 /\ AfterLine(b).length = LengthAt(k, q)
  BY DEF Leads
<1>1. LineEnd(b) = EndOf(p) - p /\ EndOf(p) - p \in Nat /\ EndOf(p) - p > 0
  <2>1. LineEnd(b) = IF EndOf(p) < r THEN EndOf(p) - p ELSE 0
    BY LineEndFact, Zenon
  <2> QED
    BY <2>1 DEF EndOf
<1>2. (p = 6 => Text(b) = <<>>) /\ (p # 6 => Text(b) = <<m[p + 1]>>)
  BY TextFact, Zenon
<1>3. m[1] = FirstOf(k) /\ m[4] = SecondOf(k)
  BY LinedFact
<1>4. request.state # "BODY"
  BY DEF StateAt
<1>5. ParseLine(b) = q - p
  <2>1. ParseLine(b) = EndOf(p) - p + 1
    BY <1>1, <1>4 DEF ParseLine
  <2>2. EndOf(p) \in Nat /\ q = EndOf(p) + 1
    BY DEF EndOf, NextOf
  <2> QED
    BY <2>1, <2>2
<1>6. /\ \A s \in States : /\ [request EXCEPT !.state = s].state = s
                           /\ [request EXCEPT !.state = s].length = request.length
      /\ \A l \in -1..2 : /\ [request EXCEPT !.length = l].length = l
                          /\ [request EXCEPT !.length = l].state = request.state
      /\ [request EXCEPT !.keep = FALSE].state = request.state
      /\ [request EXCEPT !.keep = FALSE].length = request.length
  BY DEF Requests
<1>7. "HEADERS" \in States /\ "BODY" \in States /\ "FINISH" \in States
  BY DEF States
<1>8. k \in WellFormed \cup {"bad", "badhead"}
  BY DEF Lined, WellFormed
<1>9. CASE p = 0
  <2>1. q = 3 /\ request.state = "REQUEST_LINE" /\ request.length = -1
    BY <1>9 DEF EndOf, NextOf, StateAt, LengthAt
  <2>2. Text(b) = <<FirstOf(k)>>
    BY <1>2, <1>3, <1>9
  <2>3. ParseRequestLine(b) <=> FirstOf(k) = "GET"
    BY <2>2 DEF ParseRequestLine, RequestLines
  <2>4. MayStop(k, q) <=> FirstOf(k) = "GET"
    BY <2>1, <1>8 DEF MayStop, FirstOf, WellFormed
  <2>5. LineParses(b) <=> ParseRequestLine(b)
    BY <2>1 DEF LineParses
  <2>6. AfterLine(b) = [request EXCEPT !.state = "HEADERS"]
    BY <2>1 DEF AfterLine
  <2>7. StateAt(k, q) = "HEADERS" /\ LengthAt(k, q) = -1
    BY <2>1 DEF StateAt, LengthAt
  <2> QED
    BY <2>1, <2>3, <2>4, <2>5, <2>6, <2>7, <1>5, <1>6, <1>7
<1>10. CASE p = 3
  <2>1. q = 6 /\ request.state = "HEADERS" /\ request.length = -1
    BY <1>10 DEF EndOf, NextOf, StateAt, LengthAt
  <2>2. PICK w : w = SecondOf(k)
    OBVIOUS
  <2>3. Text(b) = <<w>>
    BY <2>2, <1>2, <1>3, <1>10
  <2>4. k \in WellFormed \cup {"badhead"}
    BY <1>10 DEF MayStop
  <2>5. /\ k = "get" => w = "other"
        /\ k = "close" => w = "close"
        /\ k = "post" => w = "length2"
        /\ k = "empty" => w = "length0"
        /\ k = "badhead" => w = "word"
    BY <2>2 DEF SecondOf
  <2>6. LineParses(b) <=> w \in RequestLines \cup HeaderLines
    <3>1. LineParses(b) <=> Text(b) = <<>> \/ ParseHeader(b)
      BY <2>1 DEF LineParses
    <3>2. <<w>> # <<>> /\ DOMAIN <<w>> = {1} /\ <<w>>[1] = w
      OBVIOUS
    <3>3. ParseHeader(b) <=> w \in RequestLines \cup HeaderLines
      BY <2>3, <3>2 DEF ParseHeader
    <3> QED
      BY <2>3, <3>1, <3>2, <3>3
  <2>7. MayStop(k, q) <=> k \in WellFormed
    BY <2>1 DEF MayStop
  <2>8. w \in RequestLines \cup HeaderLines <=> k \in WellFormed
    BY <2>4, <2>5 DEF WellFormed, RequestLines, HeaderLines
  <2>9. ASSUME k \in WellFormed
        PROVE  AfterLine(b).state = StateAt(k, q) /\ AfterLine(b).length = LengthAt(k, q)
    <3>1. /\ StateAt(k, q) = "HEADERS"
          /\ LengthAt(k, q) = IF k = "post" THEN 2 ELSE IF k = "empty" THEN 0 ELSE -1
      BY <2>1 DEF StateAt, LengthAt, HasBody
    <3>2. /\ <<w>> # <<>> /\ <<w>>[1] = w
          /\ <<w>> = <<"close">> <=> w = "close"
          /\ <<w>> = <<"length0">> <=> w = "length0"
          /\ <<w>> = <<"length2">> <=> w = "length2"
      OBVIOUS
    <3>3. CASE k = "get"
      <4>1. AfterLine(b) = request
        BY <2>1, <2>3, <2>5, <3>2, <3>3 DEF AfterLine
      <4> QED
        BY <4>1, <2>1, <3>1, <3>3
    <3>4. CASE k = "close"
      <4>1. AfterLine(b) = [request EXCEPT !.keep = FALSE]
        BY <2>1, <2>3, <2>5, <3>2, <3>4 DEF AfterLine
      <4> QED
        BY <4>1, <2>1, <3>1, <3>4, <1>6
    <3>5. CASE k \in {"post", "empty"}
      <4>1. AfterLine(b) = [request EXCEPT !.length = LengthOf(w)]
        BY <2>1, <2>3, <2>5, <3>2, <3>5 DEF AfterLine
      <4>2. LengthOf(w) = IF k = "post" THEN 2 ELSE 0
        BY <2>5, <3>5 DEF LengthOf
      <4>3. LengthOf(w) \in -1..2
        BY <4>2
      <4> QED
        BY <4>1, <4>2, <4>3, <2>1, <3>1, <3>5, <1>6
    <3> QED
      BY <2>9, <3>3, <3>4, <3>5 DEF WellFormed
  <2> QED
    BY <2>6, <2>7, <2>8, <2>9, <1>5
<1>11. CASE p = 6
  <2>1. q = 8 /\ request.state = "HEADERS" /\ Text(b) = <<>> /\ k \in WellFormed
    BY <1>2, <1>11 DEF EndOf, NextOf, StateAt, MayStop
  <2>2. MayStop(k, q) /\ LineParses(b)
    BY <2>1 DEF MayStop, LineParses
  <2>3. AfterLine(b) = [request EXCEPT !.state = IF request.length >= 0 THEN "BODY" ELSE "FINISH"]
    BY <2>1 DEF AfterLine
  <2>4. request.length = IF ~HasBody(k) THEN -1 ELSE IF k = "post" THEN 2 ELSE 0
    BY <1>11 DEF LengthAt
  <2>5. request.length >= 0 <=> HasBody(k)
    BY <2>4
  <2>6. /\ StateAt(k, q) = IF HasBody(k) THEN "BODY" ELSE "FINISH"
        /\ LengthAt(k, q) = IF ~HasBody(k) THEN -1 ELSE IF k = "post" THEN 2 ELSE 0
    BY <2>1 DEF StateAt, LengthAt
  <2> QED
    BY <2>2, <2>3, <2>4, <2>5, <2>6, <1>5, <1>6, <1>7
<1> QED
  BY <1>9, <1>10, <1>11

(* A piece of a piece.                                                     *)
LEMMA PieceOfPiece ==
  ASSUME NEW S, NEW s \in Seq(S), NEW p \in Nat, NEW r \in p..Len(s),
         NEW i \in Nat, NEW j \in i..r - p
  PROVE  SubSeq(SubSeq(s, p + 1, r), i + 1, j) = SubSeq(s, p + i + 1, p + j)
<1>1. PICK b : b = SubSeq(s, p + 1, r)
  OBVIOUS
<1>2. b \in Seq(S) /\ Len(b) = r - p /\ \A l \in 1..r - p : b[l] = s[p + l]
  BY <1>1, PieceFact
<1>3. PICK t, u : t = SubSeq(b, i + 1, j) /\ u = SubSeq(s, (p + i) + 1, p + j)
  OBVIOUS
<1>4. t \in Seq(S) /\ Len(t) = j - i /\ \A l \in 1..j - i : t[l] = b[i + l]
  <2>1. j \in i..Len(b)
    BY <1>2
  <2> QED
    BY <2>1, <1>2, <1>3, PieceFact
<1>5. u \in Seq(S) /\ Len(u) = j - i /\ \A l \in 1..j - i : u[l] = s[(p + i) + l]
  <2>1. p + i \in Nat /\ p + j \in p + i..Len(s) /\ (p + j) - (p + i) = j - i
    OBVIOUS
  <2>2. /\ u \in Seq(S) /\ Len(u) = (p + j) - (p + i)
        /\ \A l \in 1..(p + j) - (p + i) : u[l] = s[(p + i) + l]
    BY <2>1, <1>3, PieceFact
  <2> QED
    BY <2>1, <2>2
<1>6. \A l \in 1..Len(t) : t[l] = u[l]
  <2> SUFFICES ASSUME NEW l \in 1..j - i PROVE t[l] = u[l]
    BY <1>4
  <2>1. i + l \in 1..r - p /\ p + (i + l) = (p + i) + l
    OBVIOUS
  <2> QED
    BY <2>1, <1>2, <1>4, <1>5
<1>7. t = u
  BY <1>4, <1>5, <1>6, SeqEqual
<1> QED
  BY <1>1, <1>3, <1>7

(* The request asked last, and its bytes.                                  *)
Last == asked[Len(asked)].kind
Asked == Message[Last]

(* All requests before it were well-formed.                                *)
Sane == Patient /\ WellFormedUpTo(Len(asked) - 1)

(* Of the last request the parser has taken p tokens, and r were read.     *)
At(p, r) ==
  /\ p \in 0..r /\ r \in 0..Len(Asked)
  /\ readBuff = SubSeq(Asked, p + 1, r)
  /\ coming = SubSeq(Asked, r + 1, Len(Asked))

(* The last request is not begun: the parser is where the one before left  *)
(* it.                                                                     *)
Untouched ==
  /\ pc \in {"in", "process", "out", "write", "closed"}
  /\ IsFinish
  /\ \E r \in 0..10 : At(0, r)

(* The parser is in the last request; while the worker waits, there is no  *)
(* complete line in the buffer.                                            *)
Begun ==
  /\ pc \in {"in", "process", "parse", "good"}
  /\ pc \in {"in", "process"} => ~IsFinish
  /\ pc = "in" => NeedsMore \/ readBuff = <<>>
  /\ pc = "good" => IsFinish
  /\ \E p, r \in 0..10 :
       /\ At(p, r) /\ MayStop(Last, p)
       /\ request.state = StateAt(Last, p) /\ request.length = LengthAt(Last, p)

(* It has been refused.                                                    *)
Refused == pc = "bad" /\ Last \notin WellFormed

(* An orderly client's last request, until it is answered.                 *)
During == Sane /\ Len(answers) < Len(asked) => Untouched \/ Begun \/ Refused

(* When everything is answered nothing has been left in between.           *)
After ==
  Orderly /\ Len(answers) = Len(asked) =>
    /\ readBuff = <<>> /\ coming = <<>>
    /\ \/ pc = "in" /\ request = NewRequest
       \/ pc \in {"in", "out", "write", "closed"} /\ IsFinish

(* A client that waits has at most one request without an answer, and gets *)
(* no answer it did not ask for.                                           *)
OneAtATime ==
  /\ Patient => Len(asked) <= Len(answers) + 1
  /\ Orderly => Len(answers) <= Len(asked)

(* What has been answered was answered with what it deserved.              *)
RightStatus ==
  \A i \in DOMAIN answers \cap DOMAIN asked :
    Patient /\ WellFormedUpTo(i - 1) =>
      ((answers[i] = "400") <=> (asked[i].kind \notin WellFormed))

(* What histories of requests and answers consist of.                      *)
Asks == [kind : DOMAIN Message, early : BOOLEAN]
Codes == {"200", "301", "400", "403", "404"}
History == asked \in Seq(Asks) /\ answers \in Seq(Codes)

(* The inductive invariant for requests and answers.                       *)
OInv == History /\ OneAtATime /\ RightStatus /\ During /\ After

----------------------------------------------------------------------------
(* How long requests are.                                                  *)
LEMMA SizeFact ==
  ASSUME NEW k \in DOMAIN Message, NEW m, m = Message[k]
  PROVE  /\ m \in Seq(Letters)
         /\ Len(m) = IF k = "barelf" THEN 3 ELSE SizeOf(k)
         /\ Len(m) \in 0..10
<1>1. k = "barelf" => m \in Seq(Letters) /\ Len(m) = 3
  BY BareFact
<1>2. k # "barelf" => m \in Seq(Letters) /\ Len(m) = SizeOf(k)
  <2>1. k # "barelf" => k \in Lined
    BY KindsFact
  <2> QED
    BY <2>1, LinedFact
<1>3. SizeOf(k) \in 0..10
  BY DEF SizeOf
<1>4. Len(m) = IF k = "barelf" THEN 3 ELSE SizeOf(k)
  BY <1>1, <1>2
<1>5. Len(m) \in 0..10
  BY <1>3, <1>4
<1> QED
  BY <1>1, <1>2, <1>4, <1>5

(* The last request is one of those there are.                             *)
LEMMA AskedFact ==
  ASSUME History, asked # <<>>
  PROVE  /\ Last \in DOMAIN Message /\ Asked \in Seq(Letters)
         /\ Len(Asked) = IF Last = "barelf" THEN 3 ELSE SizeOf(Last)
         /\ Len(Asked) \in 0..10
<1>1. Last \in DOMAIN Message
  <2>1. asked \in Seq(Asks) /\ Len(asked) \in 1..Len(asked)
    BY DEF History
  <2>2. asked[Len(asked)] \in Asks
    BY <2>1, ElementOfSeq
  <2> QED
    BY <2>2 DEF Last, Asks
<1> QED
  BY <1>1, SizeFact DEF Asked

(* At the end of a request nothing is left of it.                          *)
LEMMA FinishFact ==
  ASSUME History, asked # <<>>, NEW p, NEW r, At(p, r), MayStop(Last, p),
         StateAt(Last, p) = "FINISH"
  PROVE  Last \in WellFormed /\ readBuff = <<>> /\ coming = <<>>
<1>1. p \notin {0, 3, 6} /\ ~(p = 8 /\ HasBody(Last))
  BY DEF StateAt
<1>2. \/ p = 8 /\ Last \in WellFormed /\ Last \notin {"post", "empty"}
      \/ p = 10 /\ Last = "post"
  BY <1>1 DEF MayStop, HasBody
<1>3. Last \in WellFormed
  BY <1>2 DEF WellFormed
<1>4. Len(Asked) = SizeOf(Last)
  <2>1. Last # "barelf"
    BY <1>3 DEF WellFormed
  <2> QED
    BY <2>1, AskedFact
<1>5. p = Len(Asked) /\ p \in Nat
  BY <1>2, <1>4 DEF SizeOf
<1>6. r = p
  BY <1>5 DEF At
<1>7. /\ readBuff = SubSeq(Asked, p + 1, p)
      /\ coming = SubSeq(Asked, p + 1, p)
  BY <1>5, <1>6 DEF At
<1>8. SubSeq(Asked, p + 1, p) = <<>>
  BY <1>5, SubSeqEmpty
<1> QED
  BY <1>3, <1>7, <1>8

(* What the parser's loop does, by the place where it is.                  *)
LEMMA LoopFact ==
  ASSUME History, asked # <<>>, request \in Requests, NEW p \in 0..10, NEW r, At(p, r),
         MayStop(Last, p), request.state = StateAt(Last, p), request.length = LengthAt(Last, p),
         readBuff # <<>>, ~NeedsMore
  PROVE  \E q \in p + 1..r :
           Leads(Last, p, q, readBuff) /\ (Last \in WellFormed => MayStop(Last, q))
<1>1. /\ r \in p..Len(Asked) /\ r \in Nat /\ Len(Asked) \in Nat
      /\ readBuff = SubSeq(Asked, p + 1, r) /\ Asked \in Seq(Letters)
      /\ Len(Asked) = IF Last = "barelf" THEN 3 ELSE SizeOf(Last)
      /\ Last \in Lined \cup {"barelf"}
  BY AskedFact, KindsFact DEF At
<1>2. ParseLine(readBuff) # 0 /\ ~(request.state = "BODY" /\ Len(readBuff) < request.length)
  BY DEF NeedsMore
<1>3. StateAt(Last, p) # "FINISH"
  BY FinishFact
<1>4. CASE Last = "barelf"
  <2>1. p = 0
    BY <1>4 DEF MayStop, WellFormed
  <2>2. readBuff = SubSeq(Asked, 1, r) /\ r \in 0..Len(Asked) /\ Asked = Message["barelf"]
    BY <2>1, <1>1, <1>4 DEF Asked
  <2>3. LineEnd(readBuff) = 0
    BY <2>2, BareEndFact, Zenon
  <2>4. request.state # "BODY"
    BY <2>1 DEF StateAt
  <2> QED
    BY <2>3, <2>4, <1>2 DEF ParseLine
<1>5. CASE Last # "barelf" /\ p \in {0, 3, 6}
  <2>1. Last \in Lined
    BY <1>1, <1>5
  <2>2. request.state # "BODY"
    BY <1>5 DEF StateAt
  <2>3. LineEnd(readBuff) = IF EndOf(p) < r THEN EndOf(p) - p ELSE 0
    <3>1. Asked = Message[Last]
      BY DEF Asked
    <3> QED
      BY <3>1, <2>1, <1>1, <1>5, LineEndFact, Zenon
  <2>4. EndOf(p) < r
    BY <2>2, <2>3, <1>2 DEF ParseLine
  <2>5. PICK q : q = NextOf(p)
    OBVIOUS
  <2>6. PICK k, m, b : k = Last /\ m = Asked /\ b = readBuff
    OBVIOUS
  <2>7. k \in Lined /\ m = Message[k] /\ r \in p..Len(m) /\ b = SubSeq(m, p + 1, r)
    BY <2>1, <2>6, <1>1 DEF Asked
  <2>8. MayStop(k, p) /\ request.state = StateAt(k, p) /\ request.length = LengthAt(k, p)
    BY <2>6
  <2>9. Leads(k, p, q, b)
    BY <2>4, <2>5, <2>7, <2>8, <1>5, LineStep, Zenon
  <2>10. Leads(Last, p, q, readBuff)
    BY <2>6, <2>9
  <2>11. q \in p + 1..r
    BY <2>4, <2>5, <1>1, <1>5 DEF EndOf, NextOf
  <2>12. q \in {3, 6, 8}
    BY <2>5, <1>5 DEF EndOf, NextOf
  <2>13. Last \in WellFormed => MayStop(Last, q)
    BY <2>12 DEF MayStop
  <2> QED
    BY <2>10, <2>11, <2>13
<1>6. CASE Last # "barelf" /\ p \notin {0, 3, 6}
  <2>1. p = 8 /\ HasBody(Last) /\ request.state = "BODY"
    BY <1>3, <1>6 DEF StateAt
  <2>2. Len(readBuff) = r - 8
    BY <2>1, <1>1, PieceFact
  <2>3. Last = "post"
    <3>1. ASSUME Last = "empty" PROVE FALSE
      <4>1. r = 8
        BY <3>1, <2>1, <1>1 DEF SizeOf
      <4>2. readBuff = SubSeq(Asked, 9, 8)
        BY <4>1, <2>1, <1>1
      <4>3. SubSeq(Asked, 9, 8) = <<>>
        BY SubSeqEmpty
      <4> QED
        BY <4>2, <4>3
    <3> QED
      BY <3>1, <2>1 DEF HasBody
  <2>4. request.length = 2 /\ Len(Asked) = 10
    BY <2>1, <2>3, <1>1 DEF LengthAt, HasBody, SizeOf
  <2>5. r = 10
    BY <2>1, <2>2, <2>4, <1>1, <1>2
  <2>6. LineParses(readBuff) /\ ParseLine(readBuff) = Len(readBuff)
    BY <2>1 DEF LineParses, ParseLine
  <2>7. AfterLine(readBuff) = [request EXCEPT !.state = "FINISH"]
    BY <2>1 DEF AfterLine
  <2>8. /\ AfterLine(readBuff).state = "FINISH"
        /\ AfterLine(readBuff).length = request.length
    BY <2>7 DEF Requests
  <2>9. StateAt(Last, 10) = "FINISH" /\ LengthAt(Last, 10) = 2
    BY <2>3 DEF StateAt, LengthAt, HasBody
  <2>10. MayStop(Last, 10)
    BY <2>3 DEF MayStop
  <2>11. ParseLine(readBuff) = 10 - 8
    BY <2>2, <2>5, <2>6
  <2>12. Leads(Last, 8, 10, readBuff)
    BY <2>4, <2>6, <2>8, <2>9, <2>10, <2>11 DEF Leads
  <2> QED
    BY <2>1, <2>5, <2>10, <2>12
<1> QED
  BY <1>4, <1>5, <1>6

----------------------------------------------------------------------------
(* Steps that neither ask nor answer.                                      *)
LEMMA SameHistory ==
  ASSUME OInv, UNCHANGED <<asked, answers>>
  PROVE  /\ History' /\ OneAtATime' /\ RightStatus'
         /\ Sane' <=> Sane
         /\ Orderly' <=> Orderly
         /\ Last' = Last /\ Asked' = Asked
         /\ Len(asked') = Len(asked) /\ Len(answers') = Len(answers)
<1>1. History' /\ Last' = Last /\ Asked' = Asked
  BY DEF OInv, History, Last, Asked
<1>2. (Patient' <=> Patient) /\ \A i : WellFormedUpTo(i)' <=> WellFormedUpTo(i)
  BY DEF Patient, WellFormedUpTo
<1>3. (Sane' <=> Sane) /\ (Orderly' <=> Orderly)
  BY <1>2 DEF Sane, Orderly
<1>4. OneAtATime'
  BY <1>2, <1>3 DEF OInv, OneAtATime
<1>5. RightStatus'
  BY <1>2 DEF OInv, RightStatus
<1> QED
  BY <1>1, <1>3, <1>4, <1>5

(* They keep the invariant if they lead the last request from one of its   *)
(* forms to another.                                                       *)
LEMMA OneRequest ==
  ASSUME OInv, UNCHANGED <<asked, answers>>,
         Sane /\ Len(answers) < Len(asked) => Untouched' \/ Begun' \/ Refused',
         After'
  PROVE  OInv'
<1>1. During'
  BY SameHistory DEF During
<1> QED
  BY <1>1, SameHistory DEF OInv

(* In an answered connection the parser does nothing.                      *)
LEMMA AfterIsIdle ==
  ASSUME OInv, UNCHANGED <<asked, answers>>,
         pc \in {"process", "parse", "good", "bad"} \/ (pc = "in" /\ coming # <<>>)
  PROVE  After'
<1>1. ~(Orderly /\ Len(answers) = Len(asked))
  BY DEF OInv, After
<1> QED
  BY <1>1, SameHistory DEF After

(* The request under way, if there is one.                                 *)
LEMMA AskedSomething ==
  ASSUME History, Len(answers) < Len(asked)
  PROVE  asked # <<>>
BY DEF History

(* Reading a piece of the request keeps the invariant.                     *)
LEMMA ReceiveKeeps ==
  ASSUME OInv, NEW n \in 1..Len(coming), Receive(n)
  PROVE  OInv'
<1>1. /\ pc = "in" /\ pc' = "process"
      /\ readBuff' = readBuff \o SubSeq(coming, 1, n)
      /\ coming' = SubSeq(coming, n + 1, Len(coming))
      /\ UNCHANGED <<request, asked, answers>>
  BY DEF Receive, response
<1>2. After'
  <2>1. ASSUME coming = <<>> PROVE FALSE
    BY <2>1
  <2> QED
    BY <2>1, <1>1, AfterIsIdle
<1>3. ASSUME Sane, Len(answers) < Len(asked)
      PROVE  Untouched' \/ Begun' \/ Refused'
  <2>1. History /\ asked # <<>>
    BY <1>3, AskedSomething DEF OInv
  <2>2. Asked \in Seq(Letters) /\ Len(Asked) \in 0..10
    BY <2>1, AskedFact
  <2>3. Asked' = Asked /\ Last' = Last
    BY <1>1, SameHistory
  <2>4. ASSUME NEW p, NEW r, At(p, r)
        PROVE  At(p, r + n)' /\ r + n \in 0..10
    <3>1. PICK m : m = Asked
      OBVIOUS
    <3>2. /\ m \in Seq(Letters) /\ Len(m) \in 0..10
          /\ p \in 0..r /\ r \in 0..Len(m)
          /\ readBuff = SubSeq(m, p + 1, r) /\ coming = SubSeq(m, r + 1, Len(m))
      BY <2>2, <2>4, <3>1 DEF At
    <3>3. Len(coming) = Len(m) - r
      BY <3>2, PieceFact
    <3>4. n \in Nat /\ n >= 1 /\ r + n <= Len(m) /\ r \in Nat /\ p \in Nat
      BY <3>2, <3>3
    <3>5. SubSeq(coming, 1, n) = SubSeq(m, r + 1, r + n)
      <4>1. 0 \in Nat /\ n \in 0..Len(m) - r /\ Len(m) \in r..Len(m) /\ Len(m) \in Nat
        BY <3>2, <3>4
      <4>2. SubSeq(SubSeq(m, r + 1, Len(m)), 0 + 1, n) = SubSeq(m, r + 0 + 1, r + n)
        BY <4>1, <3>2, <3>4, PieceOfPiece
      <4> QED
        BY <4>2, <3>2, <3>4
    <3>6. coming' = SubSeq(m, r + n + 1, Len(m))
      <4>1. n \in Nat /\ Len(m) - r \in n..Len(m) - r /\ Len(m) \in r..Len(m)
        BY <3>2, <3>4
      <4>2. SubSeq(SubSeq(m, r + 1, Len(m)), n + 1, Len(m) - r) = SubSeq(m, r + n + 1, r + (Len(m) - r))
        BY <4>1, <3>2, <3>4, PieceOfPiece
      <4>3. r + (Len(m) - r) = Len(m)
        BY <3>2, <3>4
      <4> QED
        BY <4>2, <4>3, <3>2, <3>3, <1>1
    <3>7. readBuff' = SubSeq(m, p + 1, r + n)
      <4>1. /\ p + 1 \in 1..Len(m) + 1 /\ r \in (p + 1) - 1..Len(m) /\ r + n \in r..Len(m)
        BY <3>2, <3>4
      <4>2. SubSeq(m, p + 1, r) \o SubSeq(m, r + 1, r + n) = SubSeq(m, p + 1, r + n)
        BY <4>1, <3>2, ConcatAdjacentSubSeq, Zenon
      <4> QED
        BY <4>2, <3>2, <3>5, <1>1
    <3>8. Asked' = m
      BY <3>1, <2>3
    <3>9. p \in 0..r + n /\ r + n \in 0..Len(m) /\ r + n \in 0..10
      <4>1. p \in 0..r /\ Len(m) \in 0..10
        BY <3>2, Zenon
      <4>2. r \in Nat /\ n \in Nat /\ r + n <= Len(m)
        BY <3>4, Zenon
      <4>3. PICK l \in 0..10 : l = Len(m)
        BY <4>1
      <4>4. r + n \in 0..10
        <5>1. r + n <= l
          BY <4>2, <4>3
        <5> QED
          BY <5>1, <4>2
      <4>5. p \in 0..r + n /\ r + n \in 0..Len(m)
        BY <4>1, <4>2
      <4> QED
        BY <4>4, <4>5
    <3> QED
      BY <3>6, <3>7, <3>8, <3>9 DEF At
  <2>5. CASE Untouched
    <3>1. PICK r \in 0..10 : At(0, r)
      BY <2>5 DEF Untouched
    <3>2. At(0, r + n)' /\ r + n \in 0..10
      BY <3>1, <2>4
    <3> QED
      BY <3>2, <2>5, <1>1 DEF Untouched, IsFinish
  <2>6. CASE Begun
    <3>1. PICK p, r \in 0..10 :
            /\ At(p, r) /\ MayStop(Last, p)
            /\ request.state = StateAt(Last, p) /\ request.length = LengthAt(Last, p)
      BY <2>6 DEF Begun
    <3>2. At(p, r + n)' /\ r + n \in 0..10
      BY <3>1, <2>4
    <3>3. ~IsFinish
      BY <2>6, <1>1 DEF Begun
    <3>4. pc' = "process" /\ ~IsFinish'
      BY <3>3, <1>1 DEF IsFinish
    <3>5. /\ MayStop(Last', p)
          /\ request'.state = StateAt(Last', p) /\ request'.length = LengthAt(Last', p)
      BY <3>1, <2>3, <1>1
    <3>6. \E i, j \in 0..10 :
            /\ At(i, j)' /\ MayStop(Last', i)
            /\ request'.state = StateAt(Last', i) /\ request'.length = LengthAt(Last', i)
      BY <3>2, <3>5
    <3> QED
      BY <3>4, <3>6 DEF Begun
  <2> QED
    BY <2>5, <2>6, <1>1, <1>3 DEF OInv, During, Refused
<1> QED
  BY <1>1, <1>2, <1>3, OneRequest

(* The parser takes what the last request has it take.                     *)
LEMMA BegunAt ==
  ASSUME NEW p \in 0..10, NEW r \in 0..10, UNCHANGED <<asked>>,
         At(p, r)', MayStop(Last, p), request'.state = StateAt(Last, p),
         request'.length = LengthAt(Last, p),
         pc' \in {"in", "process", "parse", "good"},
         pc' \in {"in", "process"} => ~IsFinish',
         pc' = "in" => (NeedsMore \/ readBuff = <<>>)',
         pc' = "good" => IsFinish'
  PROVE  Begun'
<1>1. Last' = Last
  BY DEF Last
<1>2. \E i, j \in 0..10 :
        /\ At(i, j)' /\ MayStop(Last', i)
        /\ request'.state = StateAt(Last', i) /\ request'.length = LengthAt(Last', i)
  BY <1>1
<1> QED
  BY <1>2 DEF Begun

(* What has been read and taken stays so.                                  *)
LEMMA SameAt ==
  ASSUME NEW p, NEW r, At(p, r), UNCHANGED <<asked, coming, readBuff>>
  PROVE  At(p, r)'
BY DEF At, Asked, Last

(* A turn of the parser keeps it.                                          *)
LEMMA ParseKeeps ==
  ASSUME OInv, request \in Requests, Parse
  PROVE  OInv'
<1>1. /\ pc \in {"process", "parse"} /\ UNCHANGED <<coming, asked, answers>>
  BY DEF Parse, Process, ParseIncomplete, ParseOneLine, ParseBadLine, ParseEnd, wire, response
<1>2. After'
  BY <1>1, AfterIsIdle
<1>3. ASSUME Sane, Len(answers) < Len(asked)
      PROVE  Untouched' \/ Begun' \/ Refused'
  <2>1. History /\ asked # <<>>
    BY <1>3, AskedSomething DEF OInv
  <2>2. Last' = Last /\ Asked' = Asked
    BY <1>1, SameHistory
  <2>3. Untouched \/ Begun
    BY <1>1, <1>3 DEF OInv, During, Refused
  <2>4. CASE Untouched
    <3>1. pc = "process" /\ IsFinish /\ Process
      BY <2>4, <1>1 DEF Untouched, Parse, Process, ParseIncomplete, ParseOneLine,
                        ParseBadLine, ParseEnd
    <3>2. PICK r \in 0..10 : At(0, r)
      BY <2>4 DEF Untouched
    <3>3. /\ request' = NewRequest /\ readBuff' = readBuff
          /\ pc' = IF readBuff = <<>> THEN "in" ELSE "parse"
      BY <3>1 DEF Process
    <3>4. At(0, r)'
      BY <3>2, <3>3, <1>1, SameAt
    <3>5. /\ MayStop(Last, 0)
          /\ request'.state = StateAt(Last, 0) /\ request'.length = LengthAt(Last, 0)
      BY <3>3 DEF MayStop, NewRequest, StateAt, LengthAt
    <3>6. ~IsFinish'
      BY <3>3 DEF IsFinish, NewRequest
    <3>7. /\ pc' \in {"in", "parse"}
          /\ pc' = "in" => readBuff' = <<>>
      BY <3>3
    <3>8. 0 \in 0..10
      OBVIOUS
    <3> QED
      BY <3>2, <3>4, <3>5, <3>6, <3>7, <3>8, <1>1, BegunAt
  <2>5. CASE Begun
    <3>1. PICK p, r \in 0..10 :
            /\ At(p, r) /\ MayStop(Last, p)
            /\ request.state = StateAt(Last, p) /\ request.length = LengthAt(Last, p)
      BY <2>5 DEF Begun
    <3>2. IsFinish => readBuff = <<>> /\ Last \in WellFormed
      BY <3>1, <2>1, FinishFact DEF IsFinish
    <3>3. CASE Process
      <4>1. pc = "process" /\ ~IsFinish
        BY <3>3, <2>5 DEF Process, Begun
      <4>2. /\ request' = request /\ readBuff' = readBuff
            /\ pc' = IF readBuff = <<>> THEN "in" ELSE "parse"
        BY <3>3, <4>1 DEF Process
      <4>3. At(p, r)' /\ ~IsFinish'
        BY <3>1, <4>1, <4>2, <1>1, SameAt DEF IsFinish
      <4>4. /\ pc' \in {"in", "parse"}
            /\ pc' = "in" => readBuff' = <<>>
        BY <4>2
      <4> QED
        BY <3>1, <4>2, <4>3, <4>4, <1>1, BegunAt
    <3>4. CASE ParseIncomplete
      <4>1. pc' = "in" /\ UNCHANGED <<request, readBuff>> /\ NeedsMore /\ readBuff # <<>>
        BY <3>4 DEF ParseIncomplete
      <4>2. At(p, r)' /\ ~IsFinish'
        BY <3>1, <3>2, <4>1, <1>1, SameAt DEF IsFinish
      <4>3. NeedsMore'
        BY <4>1 DEF NeedsMore, ParseLine
      <4> QED
        BY <3>1, <4>1, <4>2, <4>3, <1>1, BegunAt
    <3>5. CASE ParseOneLine
      <4>1. /\ pc = "parse" /\ pc' = "parse" /\ readBuff # <<>> /\ ~NeedsMore
            /\ LineParses(readBuff) /\ request' = AfterLine(readBuff)
            /\ readBuff' = SubSeq(readBuff, ParseLine(readBuff) + 1, Len(readBuff))
        BY <3>5 DEF ParseOneLine
      <4>2. PICK q \in p + 1..r : Leads(Last, p, q, readBuff)
        BY <3>1, <4>1, <2>1, LoopFact
      <4>3. /\ ParseLine(readBuff) = q - p /\ MayStop(Last, q)
            /\ request'.state = StateAt(Last, q) /\ request'.length = LengthAt(Last, q)
        BY <4>1, <4>2 DEF Leads
      <4>4. PICK m : m = Asked
        OBVIOUS
      <4>5. /\ m \in Seq(Letters) /\ p \in 0..r /\ r \in 0..Len(m)
            /\ readBuff = SubSeq(m, p + 1, r) /\ coming = SubSeq(m, r + 1, Len(m))
        BY <3>1, <4>4, <2>1, AskedFact DEF At
      <4>6. p \in Nat /\ q \in Nat /\ r \in Nat /\ p < q /\ q <= r /\ r \in p..Len(m)
            /\ q - p \in Nat /\ r - p \in q - p..r - p /\ q \in 0..10
        BY <4>5
      <4>7. Len(readBuff) = r - p
        BY <4>5, <4>6, PieceFact
      <4>8. readBuff' = SubSeq(m, q + 1, r)
        <5>1. SubSeq(SubSeq(m, p + 1, r), (q - p) + 1, r - p)
                = SubSeq(m, p + (q - p) + 1, p + (r - p))
          BY <4>5, <4>6, PieceOfPiece
        <5>2. p + (q - p) + 1 = q + 1 /\ p + (r - p) = r
          BY <4>6
        <5> QED
          BY <5>1, <5>2, <4>1, <4>3, <4>5, <4>7
      <4>9. At(q, r)'
        <5>1. q \in 0..r
          BY <4>6
        <5>2. Asked' = m
          BY <4>4, <2>2
        <5> QED
          BY <5>1, <5>2, <4>5, <4>8, <1>1 DEF At
      <4> QED
        BY <4>1, <4>3, <4>6, <4>9, <1>1, BegunAt
    <3>6. CASE ParseBadLine
      <4>1. readBuff # <<>> /\ ~NeedsMore /\ ~LineParses(readBuff) /\ pc' = "bad"
        BY <3>6 DEF ParseBadLine
      <4>2. PICK q \in p + 1..r :
              Leads(Last, p, q, readBuff) /\ (Last \in WellFormed => MayStop(Last, q))
        BY <3>1, <4>1, <2>1, LoopFact
      <4>3. Last \notin WellFormed
        BY <4>1, <4>2 DEF Leads
      <4> QED
        BY <4>1, <4>3, <2>2 DEF Refused
    <3>7. CASE ParseEnd
      <4>1. /\ UNCHANGED <<request, readBuff>> /\ readBuff = <<>>
            /\ pc' = IF IsFinish THEN "good" ELSE "in"
        BY <3>7 DEF ParseEnd
      <4>2. At(p, r)' /\ (IsFinish' <=> IsFinish)
        BY <3>1, <4>1, <1>1, SameAt DEF IsFinish
      <4>3. /\ pc' \in {"in", "good"} /\ readBuff' = <<>>
            /\ pc' = "in" => ~IsFinish'
            /\ pc' = "good" => IsFinish'
        BY <4>1, <4>2
      <4> QED
        BY <3>1, <4>1, <4>2, <4>3, <1>1, BegunAt
    <3> QED
      BY <3>3, <3>4, <3>5, <3>6, <3>7 DEF Parse
  <2> QED
    BY <2>3, <2>4, <2>5
<1> QED
  BY <1>1, <1>2, <1>3, OneRequest

(* One more answer.                                                        *)
LEMMA AnswerKeeps ==
  ASSUME OInv, Answer
  PROVE  OInv'
<1>1. PICK code \in Codes :
        /\ answers' = Append(answers, code) /\ pc \in {"good", "bad"} /\ pc' = "out"
        /\ (code = "400") <=> (pc = "bad")
  <2>1. CASE BadRequest
    BY <2>1 DEF BadRequest, Respond, Codes
  <2>2. CASE \E o \in Outcomes : MakeResponse(o)
    BY <2>2 DEF MakeResponse, Respond, Codes
  <2> QED
    BY <2>1, <2>2 DEF Answer
<1>2. UNCHANGED <<coming, asked, readBuff, request>>
  BY DEF Answer, BadRequest, MakeResponse, Respond, wire
<1>3. PICK n, a : n = Len(asked) /\ a = Len(answers)
  OBVIOUS
<1>4. /\ asked \in Seq(Asks) /\ answers \in Seq(Codes) /\ n \in Nat /\ a \in Nat
      /\ DOMAIN asked = 1..n /\ DOMAIN answers = 1..a
  BY <1>3 DEF OInv, History
<1>5. /\ answers' \in Seq(Codes) /\ Len(answers') = a + 1 /\ DOMAIN answers' = 1..a + 1
      /\ answers'[a + 1] = code
      /\ \A i \in 1..a : answers'[i] = answers[i]
  BY <1>1, <1>3, <1>4
<1>6. /\ Patient' <=> Patient
      /\ \A i : WellFormedUpTo(i)' <=> WellFormedUpTo(i)
      /\ Orderly' <=> Orderly
      /\ Sane' <=> Sane
  <2>1. (Patient' <=> Patient) /\ \A i : WellFormedUpTo(i)' <=> WellFormedUpTo(i)
    BY <1>2 DEF Patient, WellFormedUpTo
  <2> QED
    BY <2>1, <1>2 DEF Orderly, Sane
<1>7. (Patient => n <= a + 1) /\ (Orderly => a <= n) /\ ~(Orderly /\ a = n)
  BY <1>1, <1>3 DEF OInv, OneAtATime, After
<1>8. Patient /\ WellFormedUpTo(n - 1) /\ a + 1 = n
        => /\ pc = "bad" => asked[n].kind \notin WellFormed
           /\ pc = "good" => asked[n].kind \in WellFormed /\ readBuff = <<>> /\ coming = <<>> /\ IsFinish
  <2> SUFFICES ASSUME Patient, WellFormedUpTo(n - 1), a + 1 = n
               PROVE  /\ pc = "bad" => asked[n].kind \notin WellFormed
                      /\ pc = "good" => asked[n].kind \in WellFormed /\ readBuff = <<>> /\ coming = <<>> /\ IsFinish
    OBVIOUS
  <2>1. Sane /\ Len(answers) < Len(asked)
    BY <1>3, <1>4 DEF Sane
  <2>2. Begun \/ Refused
    BY <2>1, <1>1 DEF OInv, During, Untouched
  <2>3. Last = asked[n].kind
    BY <1>3 DEF Last
  <2>4. pc = "bad" => Last \notin WellFormed
    BY <2>2 DEF Begun, Refused
  <2>5. ASSUME pc = "good"
        PROVE  Last \in WellFormed /\ readBuff = <<>> /\ coming = <<>> /\ IsFinish
    <3>1. Begun /\ IsFinish
      BY <2>2, <2>5 DEF Begun, Refused
    <3>2. PICK p, r \in 0..10 :
            /\ At(p, r) /\ MayStop(Last, p)
            /\ request.state = StateAt(Last, p) /\ request.length = LengthAt(Last, p)
      BY <3>1 DEF Begun
    <3>3. History /\ asked # <<>>
      BY <2>1, AskedSomething DEF OInv
    <3> QED
      BY <3>1, <3>2, <3>3, FinishFact DEF IsFinish
  <2> QED
    BY <2>3, <2>4, <2>5
<1>9. History'
  BY <1>2, <1>5 DEF OInv, History
<1>10. OneAtATime'
  <2>1. Len(asked') = n /\ Len(answers') = a + 1
    BY <1>2, <1>3, <1>5
  <2>2. (Patient => n <= (a + 1) + 1) /\ (Orderly => a + 1 <= n)
    BY <1>4, <1>7
  <2> QED
    BY <2>1, <2>2, <1>6 DEF OneAtATime
<1>11. RightStatus'
  <2> SUFFICES ASSUME NEW i \in DOMAIN answers' \cap DOMAIN asked', Patient', WellFormedUpTo(i - 1)'
               PROVE  (answers'[i] = "400") <=> (asked'[i].kind \notin WellFormed)
    BY DEF RightStatus
  <2>1. Patient /\ WellFormedUpTo(i - 1) /\ i \in 1..a + 1 /\ i \in 1..n /\ asked' = asked
    BY <1>2, <1>4, <1>5, <1>6
  <2>2. CASE i \in 1..a
    <3>1. i \in DOMAIN answers \cap DOMAIN asked /\ answers'[i] = answers[i]
      BY <2>1, <2>2, <1>4, <1>5
    <3> QED
      BY <2>1, <3>1 DEF OInv, RightStatus
  <2>3. CASE i = a + 1
    <3>1. i = n /\ a + 1 = n
      BY <2>1, <2>3, <1>4, <1>7
    <3>2. /\ pc = "bad" => asked[n].kind \notin WellFormed
          /\ pc = "good" => asked[n].kind \in WellFormed
      BY <2>1, <3>1, <1>8
    <3>3. answers'[i] = code
      BY <2>3, <1>5
    <3> QED
      BY <2>1, <3>1, <3>2, <3>3, <1>1
  <2>4. i \in 1..a \/ i = a + 1
    BY <2>1, <1>4
  <2> QED
    BY <2>2, <2>3, <2>4
<1>12. During'
  <2>1. ASSUME Sane', Len(answers') < Len(asked') PROVE FALSE
    <3>1. Patient /\ a + 1 < n
      BY <2>1, <1>2, <1>3, <1>5, <1>6 DEF Sane
    <3> QED
      BY <3>1, <1>4, <1>7
  <2> QED
    BY <2>1 DEF During
<1>13. After'
  <2> SUFFICES ASSUME Orderly', Len(answers') = Len(asked')
               PROVE  readBuff' = <<>> /\ coming' = <<>> /\ pc' = "out" /\ IsFinish'
    BY DEF After
  <2>1. Orderly /\ a + 1 = n
    BY <1>2, <1>3, <1>5, <1>6
  <2>2. Patient /\ WellFormedUpTo(n)
    BY <2>1, <1>3 DEF Orderly
  <2>3. WellFormedUpTo(n - 1) /\ asked[n].kind \in WellFormed
    <3>1. \A j \in 1..n - 1 : j \in 1..n
      BY <1>4
    <3>2. n \in 1..n
      BY <2>1, <1>4
    <3> QED
      BY <2>2, <3>1, <3>2 DEF WellFormedUpTo
  <2>4. pc # "bad"
    BY <2>1, <2>2, <2>3, <1>8
  <2>5. readBuff = <<>> /\ coming = <<>> /\ IsFinish
    BY <2>1, <2>2, <2>3, <2>4, <1>1, <1>8
  <2> QED
    BY <2>5, <1>1, <1>2 DEF IsFinish
<1> QED
  BY <1>9, <1>10, <1>11, <1>12, <1>13 DEF OInv

(* Writing leaves the requests alone.                                      *)
LEMMA WritingKeeps ==
  ASSUME OInv, Writable \/ Write \/ WouldBlock \/ WriteError \/ WriteDone
  PROVE  OInv'
<1>1. /\ pc \in {"out", "write"} /\ pc' \in {"in", "out", "write", "closed"}
      /\ UNCHANGED <<coming, asked, readBuff, request, answers>>
  BY DEF Writable, Write, Writev, WouldBlock, WriteError, WriteDone, wire, response
<1>2. After'
  <2>1. Orderly /\ Len(answers) = Len(asked) => readBuff = <<>> /\ coming = <<>> /\ IsFinish
    BY <1>1 DEF OInv, After
  <2> QED
    BY <2>1, <1>1, SameHistory DEF After, IsFinish
<1>3. ASSUME Sane, Len(answers) < Len(asked)
      PROVE  Untouched'
  <2>1. Untouched
    BY <1>1, <1>3 DEF OInv, During, Begun, Refused
  <2>2. PICK r \in 0..10 : At(0, r)
    BY <2>1 DEF Untouched
  <2>3. At(0, r)'
    BY <2>2, <1>1, SameAt
  <2> QED
    BY <2>1, <2>3, <1>1 DEF Untouched, IsFinish
<1> QED
  BY <1>1, <1>2, <1>3, OneRequest

(* One more request.                                                       *)
LEMMA AskKeeps ==
  ASSUME OInv, NEW k \in Kinds, Ask(k)
  PROVE  OInv'
<1>1. PICK x : x = [kind |-> k, early |-> ~Answered]
  OBVIOUS
<1>2. /\ asked' = Append(asked, x) /\ coming' = coming \o Message[k] /\ pc # "closed"
      /\ UNCHANGED <<readBuff, request, pc, answers, out, made>>
  BY <1>1 DEF Ask, response
<1>3. x \in Asks /\ x.kind = k /\ (x.early <=> ~Answered)
  <2>1. k \in DOMAIN Message
    BY ConnAssumption
  <2> QED
    BY <2>1, <1>1 DEF Asks, Answered
<1>4. PICK n, a : n = Len(asked) /\ a = Len(answers)
  OBVIOUS
<1>5. /\ asked \in Seq(Asks) /\ answers \in Seq(Codes) /\ n \in Nat /\ a \in Nat
      /\ DOMAIN asked = 1..n /\ DOMAIN answers = 1..a
  BY <1>4 DEF OInv, History
<1>6. /\ asked' \in Seq(Asks) /\ Len(asked') = n + 1 /\ DOMAIN asked' = 1..n + 1
      /\ asked'[n + 1] = x
      /\ \A j \in 1..n : asked'[j] = asked[j]
  BY <1>2, <1>3, <1>4, <1>5
<1>7. Patient' <=> Patient /\ Answered
  <2>1. Patient' <=> \A j \in 1..n + 1 : ~asked'[j].early
    BY <1>6 DEF Patient
  <2>2. Patient <=> \A j \in 1..n : ~asked[j].early
    BY <1>5 DEF Patient
  <2>3. \A j \in 1..n + 1 : j \in 1..n \/ j = n + 1
    BY <1>5
  <2>4. n + 1 \in 1..n + 1 /\ \A j \in 1..n : j \in 1..n + 1
    BY <1>5
  <2> QED
    BY <2>1, <2>2, <2>3, <2>4, <1>3, <1>6
<1>8. \A i \in Int : i <= n => (WellFormedUpTo(i)' <=> WellFormedUpTo(i))
  <2> SUFFICES ASSUME NEW i \in Int, i <= n
               PROVE  WellFormedUpTo(i)' <=> WellFormedUpTo(i)
    OBVIOUS
  <2>1. \A j \in 1..i : j \in 1..n
    BY <1>5
  <2>2. \A j \in 1..i : asked'[j] = asked[j]
    BY <2>1, <1>6
  <2> QED
    BY <2>2 DEF WellFormedUpTo
<1>9. Answered => a = n
  BY <1>4 DEF Answered
<1>10. Sane' => Orderly /\ a = n
  <2> SUFFICES ASSUME Sane' PROVE Orderly /\ a = n
    OBVIOUS
  <2>1. Patient /\ a = n
    BY <1>7, <1>9 DEF Sane
  <2>2. WellFormedUpTo(n)'
    <3>1. Len(asked') - 1 = n
      BY <1>5, <1>6
    <3>2. WellFormedUpTo(Len(asked) - 1)'
      BY DEF Sane
    <3>3. \A j \in 1..n : asked'[j].kind \in WellFormed
      BY <3>1, <3>2 DEF WellFormedUpTo
    <3> QED
      BY <3>3 DEF WellFormedUpTo
  <2>3. WellFormedUpTo(n)
    <3>1. n \in Int /\ n <= n
      BY <1>5
    <3> QED
      BY <2>2, <3>1, <1>8
  <2> QED
    BY <2>1, <2>3, <1>4 DEF Orderly
<1>11. History'
  BY <1>2, <1>6 DEF OInv, History
<1>12. OneAtATime'
  <2>1. Patient' => a = n
    BY <1>7, <1>9
  <2>2. Orderly' => Patient'
    BY DEF Orderly
  <2>3. Len(asked') = n + 1 /\ Len(answers') = a
    BY <1>2, <1>4, <1>6
  <2> QED
    BY <2>1, <2>2, <2>3, <1>5 DEF OneAtATime
<1>13. RightStatus'
  <2> SUFFICES ASSUME NEW i \in DOMAIN answers' \cap DOMAIN asked', Patient', WellFormedUpTo(i - 1)'
               PROVE  (answers'[i] = "400") <=> (asked'[i].kind \notin WellFormed)
    BY DEF RightStatus
  <2>1. Patient /\ a = n
    BY <1>7, <1>9
  <2>2. i \in 1..a /\ i \in 1..n /\ i - 1 \in Int /\ i - 1 <= n
    BY <2>1, <1>2, <1>5
  <2>3. WellFormedUpTo(i - 1)
    BY <2>2, <1>8
  <2>4. (answers[i] = "400") <=> (asked[i].kind \notin WellFormed)
    BY <2>1, <2>2, <2>3, <1>5 DEF OInv, RightStatus
  <2> QED
    BY <2>2, <2>4, <1>2, <1>6
<1>14. During'
  <2> SUFFICES ASSUME Sane' PROVE Untouched' \/ Begun'
    BY DEF During
  <2>1. /\ readBuff = <<>> /\ coming = <<>>
        /\ \/ pc = "in" /\ request = NewRequest
           \/ pc \in {"in", "out", "write", "closed"} /\ IsFinish
    BY <1>4, <1>10 DEF OInv, After
  <2>2. Last' = k
    BY <1>3, <1>5, <1>6 DEF Last
  <2>3. Asked' = Message[k] /\ asked' # <<>>
    BY <2>2, <1>5, <1>6 DEF Asked
  <2>4. Asked' \in Seq(Letters) /\ Len(Asked') \in 0..10
    <3>1. k \in DOMAIN Message
      BY ConnAssumption
    <3> QED
      BY <2>3, <3>1, SizeFact
  <2>5. At(0, 0)'
    <3>1. PICK m : m = Message[k]
      OBVIOUS
    <3>2. m \in Seq(Letters) /\ Asked' = m
      BY <2>3, <2>4, <3>1
    <3>3. SubSeq(m, 0 + 1, 0) = <<>> /\ SubSeq(m, 0 + 1, Len(m)) = m
      BY <3>2, SubSeqEmpty, SubSeqFull
    <3>4. coming' = <<>> \o m
      BY <2>1, <3>1, <1>2
    <3>5. <<>> \o m = m
      BY <3>2, ConcatEmptySeq
    <3>6. 0 \in 0..0 /\ 0 \in 0..Len(m)
      BY <3>2
    <3> QED
      BY <2>1, <3>2, <3>3, <3>4, <3>5, <3>6, <1>2 DEF At
  <2>6. CASE pc = "in" /\ request = NewRequest
    <3>1. /\ MayStop(Last', 0) /\ request'.state = StateAt(Last', 0)
          /\ request'.length = LengthAt(Last', 0)
      BY <2>6, <1>2 DEF MayStop, NewRequest, StateAt, LengthAt
    <3>2. pc' = "in" /\ ~IsFinish' /\ readBuff' = <<>>
      BY <2>1, <2>6, <1>2 DEF IsFinish, NewRequest
    <3>3. \E i, j \in 0..10 :
            /\ At(i, j)' /\ MayStop(Last', i)
            /\ request'.state = StateAt(Last', i) /\ request'.length = LengthAt(Last', i)
      <4>1. 0 \in 0..10
        OBVIOUS
      <4> QED
        BY <4>1, <2>5, <3>1
    <3> QED
      BY <3>2, <3>3 DEF Begun
  <2>7. CASE pc \in {"in", "out", "write", "closed"} /\ IsFinish
    <3>1. 0 \in 0..10
      OBVIOUS
    <3> QED
      BY <3>1, <2>5, <2>7, <1>2 DEF Untouched, IsFinish
  <2> QED
    BY <2>1, <2>6, <2>7
<1>15. After'
  <2>1. ASSUME Orderly', Len(answers') = Len(asked') PROVE FALSE
    <3>1. a = n
      BY <2>1, <1>7, <1>9 DEF Orderly
    <3> QED
      BY <2>1, <3>1, <1>2, <1>4, <1>5, <1>6
  <2> QED
    BY <2>1 DEF After
<1> QED
  BY <1>11, <1>12, <1>13, <1>14, <1>15 DEF OInv

(* A new connection.                                                       *)
LEMMA OrderlyInit == Init => OInv
<1> SUFFICES ASSUME Init PROVE OInv
  OBVIOUS
<1>1. /\ coming = <<>> /\ readBuff = <<>> /\ request = NewRequest /\ pc = "in"
      /\ asked = <<>> /\ answers = <<>>
  BY DEF Init
<1>2. History /\ Len(asked) = 0 /\ Len(answers) = 0 /\ DOMAIN asked = {}
  BY <1>1 DEF History
<1>3. OneAtATime /\ RightStatus /\ During /\ After
  BY <1>1, <1>2 DEF OneAtATime, RightStatus, During, After
<1> QED
  BY <1>2, <1>3 DEF OInv

(* Every step keeps it.                                                    *)
LEMMA OrderlyStep == OInv /\ request \in Requests /\ [Next]_vars => OInv'
<1> SUFFICES ASSUME OInv, request \in Requests, [Next]_vars PROVE OInv'
  OBVIOUS
<1>1. ASSUME NEW k \in Kinds, Ask(k) PROVE OInv'
  BY <1>1, AskKeeps
<1>2. ASSUME Read PROVE OInv'
  BY <1>2, ReceiveKeeps DEF Read
<1>3. ASSUME Parse PROVE OInv'
  BY <1>3, ParseKeeps
<1>4. ASSUME Answer PROVE OInv'
  BY <1>4, AnswerKeeps
<1>5. ASSUME Writable \/ Write \/ WouldBlock \/ WriteError \/ WriteDone PROVE OInv'
  BY <1>5, WritingKeeps
<1>6. ASSUME UNCHANGED vars PROVE OInv'
  BY <1>6 DEF vars, OInv, History, OneAtATime, RightStatus, During, After, Sane, Orderly, Patient,
              WellFormedUpTo, Untouched, Begun, Refused, At, Asked, Last, IsFinish,
              NeedsMore, ParseLine
<1> QED
  BY <1>1, <1>2, <1>3, <1>4, <1>5, <1>6 DEF Next

(* What is known of the requests and answers of a client that waits for    *)
(* its answers.                                                            *)
THEOREM OrderlyInvariant == Spec => []OInv
<1>1. Init => OInv /\ request \in Requests
  BY OrderlyInit, RequestInit
<1>2. (OInv /\ request \in Requests) /\ [Next]_vars => (OInv /\ request \in Requests)'
  BY OrderlyStep, RequestStep
<1> QED
  BY <1>1, <1>2, PTL DEF Spec


(* No request of a client that waits is answered before all of it has      *)
(* arrived, or twice, and 400 goes to exactly those that are malformed, in *)
(* whatever pieces they arrive (http_conn.cpp's Process and the loop of    *)
(* HttpRequest::Parse).                                                    *)
THEOREM EachIsAnsweredOnce == Spec => []AnsweredOnce
<1>1. OInv => AnsweredOnce
  BY DEF OInv, OneAtATime, After, RightStatus, AnsweredOnce
<1> QED
  BY <1>1, OrderlyInvariant, PTL

(* What a parse of the first r tokens of a well-formed request would say.  *)
LEMMA StateAfterFact ==
  ASSUME NEW k \in WellFormed, NEW m, m = Message[k], NEW r \in 0..Len(m),
         NEW b, b = SubSeq(m, 1, r)
  PROVE  StateAfter(b) = IF r < 3 THEN "REQUEST_LINE" ELSE IF r < 8 THEN "HEADERS" ELSE "BODY"
<1>1. k \in Lined
  BY DEF WellFormed, Lined
<1>2. m \in Seq(Letters) /\ Len(m) \in Nat
  BY <1>1, LinedFact
<1>3. Len(b) = r /\ \A i \in 1..r : b[i] = m[i]
  <2>1. r \in 0..Len(m) /\ 0 \in Nat
    OBVIOUS
  <2>2. /\ Len(SubSeq(m, 0 + 1, r)) = r - 0
        /\ \A i \in 1..r - 0 : SubSeq(m, 0 + 1, r)[i] = m[0 + i]
    BY <2>1, <1>2, PieceFact
  <2>3. 0 + 1 = 1 /\ r - 0 = r /\ \A i \in 1..r : 0 + i = i
    BY <1>2
  <2> QED
    BY <2>2, <2>3
<1>4. \A i \in 1..r : (b[i] = "cr" <=> i \in {2, 5, 7}) /\ (b[i] = "lf" <=> i \in {3, 6, 8})
  <2>1. \A i \in 1..Len(m) : (m[i] = "cr" <=> i \in {2, 5, 7}) /\ (m[i] = "lf" <=> i \in {3, 6, 8})
    BY <1>1, EndsFact
  <2>2. \A i \in 1..r : i \in 1..Len(m)
    BY <1>2
  <2> QED
    BY <2>1, <2>2, <1>3
<1> DEFINE ends == {i \in 1..Len(b) - 1 : b[i] = "cr" /\ b[i + 1] = "lf"}
           blank == {i \in ends : (i + 2) \in ends}
<1>5. \A i : i \in ends <=> i \in {2, 5, 7} /\ i < r
  <2> SUFFICES ASSUME NEW i PROVE i \in ends <=> i \in {2, 5, 7} /\ i < r
    OBVIOUS
  <2>1. ASSUME i \in ends PROVE i \in {2, 5, 7} /\ i < r
    <3>1. i \in 1..r - 1 /\ i \in 1..r /\ b[i] = "cr"
      BY <2>1, <1>2, <1>3
    <3> QED
      BY <3>1, <1>4
  <2>2. ASSUME i \in {2, 5, 7}, i < r PROVE i \in ends
    <3>1. i \in 1..r - 1 /\ i \in 1..r /\ i + 1 \in 1..r /\ i + 1 \in {3, 6, 8}
      BY <2>2, <1>2
    <3>2. b[i] = "cr" /\ b[i + 1] = "lf"
      BY <2>2, <3>1, <1>4
    <3> QED
      BY <3>1, <3>2, <1>3
  <2> QED
    BY <2>1, <2>2
<1>6. StateAfter(b) = IF ends = {} THEN "REQUEST_LINE" ELSE IF blank = {} THEN "HEADERS" ELSE "BODY"
  BY DEF StateAfter
<1>7. ends = {} <=> r < 3
  <2> HIDE DEF ends
  <2>1. ASSUME r < 3 PROVE \A i : i \notin ends
    <3>1. \A i \in {2, 5, 7} : ~(i < r)
      BY <2>1, <1>2
    <3> QED
      BY <3>1, <1>5, Zenon
  <2>2. ASSUME ~(r < 3) PROVE 2 \in ends
    <3>1. 2 < r
      BY <2>2, <1>2
    <3> QED
      BY <3>1, <1>5, Zenon
  <2> QED
    BY <2>1, <2>2, Zenon
<1>8. blank = {} <=> r < 8
  <2>1. \A i : i \in blank <=> i \in ends /\ i + 2 \in ends
    OBVIOUS
  <2> HIDE DEF ends, blank
  <2>2. \A i : i \in blank <=> i = 5 /\ 7 < r
    BY <2>1, <1>2, <1>5
  <2>3. ~(7 < r) <=> r < 8
    BY <1>2
  <2> QED
    BY <2>2, <2>3, Zenon
<1> QED
  BY <1>6, <1>7, <1>8

(* While a worker waits, the parser is where a parse of everything that    *)
(* has arrived in one piece would be: the state it keeps from one call of  *)
(* HttpRequest::Parse to the next is enough.                               *)
THEOREM PiecesDoNotMatter == Spec => []CutsDoNotMatter
<1>1. OInv => CutsDoNotMatter
  <2> SUFFICES ASSUME OInv, pc = "in", ~IsFinish, Len(answers) < Len(asked), Orderly
               PROVE  request.state = StateAfter(Received)
    BY DEF CutsDoNotMatter
  <2>1. History /\ asked # <<>>
    BY AskedSomething DEF OInv
  <2>2. Last \in WellFormed /\ Sane
    <3>1. asked \in Seq(Asks) /\ Len(asked) \in 1..Len(asked)
      BY <2>1 DEF History
    <3>2. \A j \in 1..Len(asked) - 1 : j \in 1..Len(asked)
      BY <3>1
    <3> QED
      BY <3>1, <3>2 DEF Orderly, WellFormedUpTo, Last, Sane
  <2>3. Begun
    BY <2>2 DEF OInv, During, Untouched, Refused
  <2>4. PICK p, r \in 0..10 :
          /\ At(p, r) /\ MayStop(Last, p)
          /\ request.state = StateAt(Last, p) /\ request.length = LengthAt(Last, p)
    BY <2>3 DEF Begun
  <2>5. NeedsMore \/ readBuff = <<>>
    BY <2>3 DEF Begun
  <2>6. PICK m : m = Asked
    OBVIOUS
  <2>7. /\ m \in Seq(Letters) /\ Len(m) \in Nat /\ p \in 0..r /\ r \in p..Len(m) /\ r \in 0..Len(m)
        /\ readBuff = SubSeq(m, p + 1, r) /\ coming = SubSeq(m, r + 1, Len(m)) /\ m = Message[Last]
    BY <2>1, <2>4, <2>6, AskedFact DEF At, Asked
  <2>8. Last \in Lined
    BY <2>2 DEF WellFormed, Lined
  <2>9. Received = SubSeq(m, 1, r)
    <3>1. Len(coming) = Len(m) - r
      BY <2>7, PieceFact
    <3>2. Received = SubSeq(m, 1, Len(m) - Len(coming))
      BY <2>6 DEF Received, Asked, Last
    <3>3. Len(m) - Len(coming) = r
      BY <3>1, <2>7
    <3> QED
      BY <3>2, <3>3
  <2>10. StateAfter(Received) = IF r < 3 THEN "REQUEST_LINE" ELSE IF r < 8 THEN "HEADERS" ELSE "BODY"
    BY <2>2, <2>7, <2>9, StateAfterFact, Zenon
  <2>11. CASE p \in {0, 3, 6}
    <3>1. request.state # "BODY"
      BY <2>4, <2>11 DEF StateAt
    <3>2. LineEnd(readBuff) = IF EndOf(p) < r THEN EndOf(p) - p ELSE 0
      BY <2>7, <2>8, <2>11, LineEndFact, Zenon
    <3>3. Len(readBuff) = r - p
      BY <2>7, PieceFact
    <3>4. ~(EndOf(p) < r)
      <4>1. CASE NeedsMore
        <5>1. ParseLine(readBuff) = 0
          BY <4>1, <3>1 DEF NeedsMore
        <5>2. EndOf(p) - p \in Nat /\ EndOf(p) - p + 1 # 0 /\ EndOf(p) - p # 0
          BY <2>11 DEF EndOf
        <5> QED
          BY <5>1, <5>2, <3>1, <3>2 DEF ParseLine
      <4>2. CASE readBuff = <<>>
        <5>1. r = p
          BY <4>2, <3>3, <2>7
        <5> QED
          BY <5>1, <2>11 DEF EndOf
      <4> QED
        BY <4>1, <4>2, <2>5
    <3>5. p <= r /\ r <= EndOf(p)
      <4>1. p <= r /\ r \in Nat
        BY <2>7
      <4> QED
        BY <4>1, <3>4, <2>11 DEF EndOf
    <3>6. CASE p = 0
      BY <3>5, <3>6, <2>4, <2>10 DEF EndOf, StateAt
    <3>7. CASE p = 3
      BY <3>5, <3>7, <2>4, <2>10 DEF EndOf, StateAt
    <3>8. CASE p = 6
      BY <3>5, <3>8, <2>4, <2>10 DEF EndOf, StateAt
    <3> QED
      BY <3>6, <3>7, <3>8, <2>11
  <2>12. CASE p \notin {0, 3, 6}
    <3>1. request.state = "BODY" /\ p = 8
      BY <2>4, <2>12 DEF StateAt, IsFinish
    <3>2. ~(r < 3) /\ ~(r < 8)
      BY <3>1, <2>7
    <3> QED
      BY <3>1, <3>2, <2>10
  <2> QED
    BY <2>11, <2>12
<1> QED
  BY <1>1, OrderlyInvariant, PTL
=============================================================================
