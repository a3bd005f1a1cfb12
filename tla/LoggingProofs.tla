--------------------------- MODULE LoggingProofs ---------------------------
(***************************************************************************)
(* AsyncLogger and LogFile together, proved for any number of buffers and  *)
(* lines, any limits and any number of restarts.                           *)
(***************************************************************************)
EXTENDS Logging, FiniteSetTheorems, SequenceTheorems, WellFoundedInduction, TLAPS

(* No buffer has two roles, role by role: the four pointers, the vector of *)
(* full buffers and the thread's vector.                                   *)
Separate ==
  /\ current \notin {next, new1, new2}
  /\ next # NoBuffer => next \notin {new1, new2}
  /\ new1 # NoBuffer => new1 # new2
  /\ IsInjective(vec) /\ IsInjective(toWrite)
  /\ ToSet(vec) \cap ToSet(toWrite) = {}
  /\ {current, next, new1, new2} \cap (ToSet(vec) \cup ToSet(toWrite)) = {}

(* Where the thread is tells what it has: both spares before a swap; and   *)
(* the next buffer is used up only when a full one waits.                  *)
Stocked ==
  /\ next = NoBuffer => vec # <<>>
  /\ pc \in {"head", "lock", "waiting"} => new2 # NoBuffer
  /\ pc \notin {"swapped", "write"} => toWrite = <<>>
  /\ pc # "write" => written = 0
  /\ EnoughToRecycle

IInv == TypeOK /\ Separate /\ Stocked

----------------------------------------------------------------------------
(***************************************************************************)
(* Sequences of buffers                                                    *)
(***************************************************************************)

(* push_back.                                                              *)
LEMMA AppendFact ==
  ASSUME NEW S, NEW s \in Seq(S), NEW x \in S
  PROVE  /\ Append(s, x) \in Seq(S) /\ Append(s, x) # <<>>
         /\ Len(Append(s, x)) = Len(s) + 1
         /\ ToSet(Append(s, x)) = ToSet(s) \cup {x}
         /\ IsInjective(s) /\ x \notin ToSet(s) => IsInjective(Append(s, x))
<1> DEFINE t == Append(s, x)
<1>1. t \in Seq(S) /\ Len(t) = Len(s) + 1 /\ DOMAIN t = 1 .. Len(s) + 1
  OBVIOUS
<1>2. t[Len(s) + 1] = x /\ \A i \in 1 .. Len(s) : t[i] = s[i]
  OBVIOUS
<1>3. DOMAIN s = 1 .. Len(s) /\ Len(s) \in Nat
  OBVIOUS
<1> HIDE DEF t
<1>4. t # <<>>
  BY <1>1, <1>3
<1>5. ToSet(t) = ToSet(s) \cup {x}
  <2>1. \A i \in 1 .. Len(s) + 1 : i \in 1 .. Len(s) \/ i = Len(s) + 1
    BY <1>3
  <2>2. \A i \in 1 .. Len(s) : i \in 1 .. Len(s) + 1
    BY <1>3
  <2>3. Len(s) + 1 \in 1 .. Len(s) + 1
    BY <1>3
  <2>4. QED
    BY <2>1, <2>2, <2>3, <1>1, <1>2, <1>3 DEF ToSet
<1>6. ASSUME IsInjective(s), x \notin ToSet(s) PROVE IsInjective(t)
  <2>1. ASSUME NEW i \in 1 .. Len(s) + 1, NEW j \in 1 .. Len(s) + 1, t[i] = t[j]
        PROVE  i = j
    <3>1. (i \in 1 .. Len(s) \/ i = Len(s) + 1) /\ (j \in 1 .. Len(s) \/ j = Len(s) + 1)
      BY <1>3
    <3>2. \A k \in 1 .. Len(s) : s[k] # x
      BY <1>6, <1>3 DEF ToSet
    <3>3. QED
      BY <3>1, <3>2, <2>1, <1>2, <1>3, <1>6 DEF IsInjective
  <2>2. QED
    BY <2>1, <1>1 DEF IsInjective
<1>7. QED
  BY <1>1, <1>4, <1>5, <1>6 DEF t

(* The first of some buffers.                                              *)
LEMMA PrefixFact ==
  ASSUME NEW S, NEW s \in Seq(S), NEW n \in 0 .. Len(s)
  PROVE  /\ SubSeq(s, 1, n) \in Seq(S) /\ Len(SubSeq(s, 1, n)) = n
         /\ \A i \in 1 .. n : SubSeq(s, 1, n)[i] = s[i]
         /\ ToSet(SubSeq(s, 1, n)) \subseteq ToSet(s)
         /\ IsInjective(s) => IsInjective(SubSeq(s, 1, n))
<1> DEFINE t == SubSeq(s, 1, n)
<1>1. t \in Seq(S) /\ Len(t) = n /\ DOMAIN t = 1 .. n
  OBVIOUS
<1>2. \A i \in 1 .. n : t[i] = s[i]
  OBVIOUS
<1>3. DOMAIN s = 1 .. Len(s) /\ \A i \in 1 .. n : i \in 1 .. Len(s)
  OBVIOUS
<1> HIDE DEF t
<1>4. ToSet(t) \subseteq ToSet(s)
  BY <1>1, <1>2, <1>3 DEF ToSet
<1>5. IsInjective(s) => IsInjective(t)
  BY <1>1, <1>2, <1>3 DEF IsInjective
<1>6. QED
  BY <1>1, <1>2, <1>4, <1>5 DEF t

(* Lines that were numbered stay so.                                       *)
LEMMA WiderFact ==
  ASSUME NEW S, NEW T, S \subseteq T, NEW s \in Seq(S)
  PROVE  s \in Seq(T)
<1>1. Len(s) \in Nat /\ s \in [1 .. Len(s) -> T]
  OBVIOUS
<1>2. QED
  BY <1>1

(* What is in a sequence.                                                  *)
LEMMA ElementFact == ASSUME NEW S, NEW s \in Seq(S) PROVE ToSet(s) \subseteq S
<1>1. DOMAIN s = 1 .. Len(s) /\ \A i \in 1 .. Len(s) : s[i] \in S
  OBVIOUS
<1>2. QED
  BY <1>1 DEF ToSet

(* A vector that is empty has no buffers.                                  *)
LEMMA EmptyFact ==
  ToSet(<<>>) = {} /\ IsInjective(<<>>) /\ Len(<<>>) = 0 /\ \A S : <<>> \in Seq(S)
  BY DEF ToSet, IsInjective

(* make_shared: a buffer nobody refers to, while there is one.             *)
LEMMA FreshFact ==
  /\ \A bs : bs # {} => Fresh(bs) \in bs
  /\ Cardinality(Unused) > 0 => Unused # {}
  /\ Cardinality(Unused) >= 2 => \A b : Unused \ {b} # {}
  /\ \A b \in Buffers : Buffers \ {b} # {}
<1>1. \A bs : bs # {} => Fresh(bs) \in bs
  BY DEF Fresh
<1>2. Cardinality(Unused) > 0 => Unused # {}
  BY FS_EmptySet
<1>3. ASSUME NEW S, Cardinality(S) >= 2, NEW b PROVE S \ {b} # {}
  <2>1. SUFFICES ASSUME S \ {b} = {} PROVE FALSE
    OBVIOUS
  <2>2. CASE S = {}
    BY <2>2, <1>3, FS_EmptySet
  <2>3. CASE S = {b}
    <3>1. Cardinality({b}) = 1
      BY FS_Singleton
    <3>2. QED
      BY <3>1, <2>3, <1>3
  <2>4. QED
    BY <2>1, <2>2, <2>3
<1>4. QED
  BY <1>1, <1>2, <1>3, LoggerAssumption

----------------------------------------------------------------------------
(***************************************************************************)
(* The inductive invariant                                                 *)
(***************************************************************************)

(* The constructor.                                                        *)
LEMMA InitFact == Init => IInv
<1> SUFFICES ASSUME Init PROVE IInv
  OBVIOUS
<1>1. current \in Buffers /\ next \in Buffers /\ next # current
  <2>1. Buffers # {}
    BY FS_EmptySet, LoggerAssumption
  <2>2. current \in Buffers
    BY <2>1, FreshFact DEF Init
  <2>3. next \in Buffers \ {current}
    BY <2>2, FreshFact DEF Init
  <2>4. QED
    BY <2>2, <2>3
<1>2. content \in [Buffers -> Seq(1 .. appended)]
  BY EmptyFact DEF Init
<1>3. TypeOK
  BY <1>1, <1>2, EmptyFact, LoggerAssumption DEF Init, TypeOK, Labels
<1>4. Separate
  BY <1>1, EmptyFact, LoggerAssumption DEF Init, Separate
<1>5. Stocked
  BY <1>1, LoggerAssumption DEF Init, Stocked, EnoughToRecycle
<1>6. QED
  BY <1>3, <1>4, <1>5 DEF IInv

(* Append, into the current buffer or into the one that takes its place.   *)
LEMMA AppendLineFact == ASSUME IInv, AppendLine PROVE IInv'
<1> USE DEF shared, local
<1> DEFINE l == appended + 1
<1>1. appended \in Nat /\ appended' = l /\ l \in Nat /\ l <= MaxLines
  BY LoggerAssumption DEF IInv, TypeOK, AppendLine
<1>2. TypeOK /\ Separate /\ Stocked
  BY DEF IInv
<1>3. UNCHANGED <<new1, new2, toWrite, written, pc, isStop, file, dropped>>
  BY DEF AppendLine
<1>4. content \in [Buffers -> Seq(1 .. l)] /\ dropped' \in SUBSET (1 .. l) /\ l \in 1 .. l
  <2>1. 1 .. appended \subseteq 1 .. l /\ l \in 1 .. l
    BY <1>1
  <2>2. \A b \in Buffers : content[b] \in Seq(1 .. l)
    BY <2>1, <1>2, WiderFact DEF TypeOK
  <2>3. QED
    BY <2>1, <2>2, <1>2, <1>3 DEF TypeOK
<1>5. CASE AppendFits(l)
  <2>1. content' = [content EXCEPT ![current] = Append(@, l)] /\ UNCHANGED shared
    BY <1>5 DEF AppendFits
  <2>2. content' \in [Buffers -> Seq(1 .. l)]
    BY <2>1, <1>2, <1>4 DEF TypeOK
  <2>3. TypeOK'
    BY <2>1, <2>2, <1>1, <1>2, <1>3, <1>4 DEF TypeOK
  <2>4. Separate' /\ Stocked'
    BY <2>1, <1>2, <1>3 DEF Separate, Stocked, EnoughToRecycle
  <2>5. QED
    BY <2>3, <2>4 DEF IInv
<1>6. CASE AppendFull(l)
  <2>1. /\ vec' = Append(vec, current)
        /\ content' = [content EXCEPT ![current'] = Append(@, l)]
        /\ \/ next # NoBuffer /\ current' = next /\ next' = NoBuffer
           \/ next = NoBuffer /\ current' \in Unused /\ next' = NoBuffer
    <3>1. MoreMemory => Unused # {}
      <4>1. CASE pc = "begin"
        BY <4>1, FS_EmptySet DEF MoreMemory
      <4>2. CASE pc # "begin"
        BY <4>2, FreshFact DEF MoreMemory
      <4>3. QED
        BY <4>1, <4>2
    <3>2. QED
      BY <3>1, <1>6, FreshFact DEF AppendFull
  <2>2. /\ vec' \in Seq(Buffers) /\ vec' # <<>>
        /\ ToSet(vec') = ToSet(vec) \cup {current}
        /\ IsInjective(vec')
    <3>1. vec \in Seq(Buffers) /\ current \in Buffers /\ current \notin ToSet(vec)
      BY <1>2 DEF TypeOK, Separate
    <3>2. IsInjective(vec)
      BY <1>2 DEF Separate
    <3>3. QED
      BY <3>1, <3>2, <2>1, AppendFact
  <2>3. /\ current' \in Buffers /\ next' = NoBuffer
        /\ current' \notin {current, new1, new2} \cup ToSet(vec) \cup ToSet(toWrite)
    BY <2>1, <1>2 DEF TypeOK, Separate, Unused, Referenced
  <2>4. content' \in [Buffers -> Seq(1 .. l)]
    BY <2>1, <2>3, <1>4
  <2>5. TypeOK'
    BY <2>2, <2>3, <2>4, <1>1, <1>2, <1>3, <1>4, SMTT(30) DEF TypeOK
  <2>6. Separate'
    <3>1. NoBuffer \notin ToSet(vec') \cup ToSet(toWrite)
      BY <2>2, <1>2, LoggerAssumption DEF TypeOK, ToSet
    <3>2. QED
      BY <3>1, <2>2, <2>3, <1>2, <1>3, LoggerAssumption DEF Separate, TypeOK
  <2>7. Stocked'
    BY <2>2, <1>2, <1>3 DEF Stocked, EnoughToRecycle
  <2>8. QED
    BY <2>5, <2>6, <2>7 DEF IInv
<1>7. QED
  BY <1>1, <1>5, <1>6 DEF AppendLine

(* Start, Stop and the head of the loop touch no buffer.                   *)
LEMMA ControlFact == ASSUME IInv, Start \/ Stop \/ LoopHead \/ Wait PROVE IInv'
<1>1. UNCHANGED <<content, shared, local, file, dropped, appended>> /\ isStop' \in BOOLEAN
  BY DEF Start, Stop, LoopHead, Wait, IInv, TypeOK
<1>2. /\ pc' \in Labels
      /\ pc' \in {"head", "lock", "waiting"} => pc \in {"head", "lock", "waiting"}
      /\ pc' \in {"swapped", "write"} <=> pc \in {"swapped", "write"}
      /\ pc' = "write" <=> pc = "write"
  BY DEF Start, Stop, LoopHead, Wait, IInv, TypeOK, Labels
<1>3. QED
  BY <1>1, <1>2 DEF IInv, TypeOK, Separate, Stocked, EnoughToRecycle, shared, local

(* The thread's two spares.                                                *)
LEMMA BeginFact == ASSUME IInv, Begin PROVE IInv'
<1> USE DEF shared, local
<1>1. TypeOK /\ Separate /\ Stocked /\ pc = "begin" /\ pc' = "head"
  BY DEF IInv, Begin
<1>2. /\ UNCHANGED <<content, current, next, vec, toWrite, written>>
      /\ UNCHANGED <<isStop, file, dropped, appended>>
  BY DEF Begin
<1>3. new1' \in Unused /\ new2' \in Unused \ {new1'}
  <2>1. Cardinality(Unused) >= 2 /\ new1' = Fresh(Unused) /\ new2' = Fresh(Unused \ {new1'})
    BY DEF Begin
  <2>2. Unused # {} /\ Unused \ {new1'} # {}
    BY <2>1, FreshFact
  <2>3. QED
    BY <2>1, <2>2, FreshFact
<1>4. /\ new1' \in Buffers /\ new2' \in Buffers /\ new1' # new2'
      /\ {new1', new2'} \cap ({current, next} \cup ToSet(vec) \cup ToSet(toWrite)) = {}
  BY <1>3 DEF Unused, Referenced
<1>5. TypeOK'
  BY <1>1, <1>2, <1>4, LoggerAssumption DEF TypeOK, Labels
<1>6. Separate'
  BY <1>1, <1>2, <1>4 DEF Separate
<1>7. Stocked'
  BY <1>1, <1>2, <1>4, LoggerAssumption DEF Stocked, EnoughToRecycle
<1>8. QED
  BY <1>5, <1>6, <1>7 DEF IInv

(* The exchange.                                                           *)
LEMMA SwapFact == ASSUME IInv, Swap PROVE IInv'
<1> USE DEF shared, local
<1>1. /\ TypeOK /\ Separate /\ Stocked
      /\ pc \in {"lock", "waiting"} /\ pc' = "swapped"
  BY DEF IInv, Swap
<1>2. /\ toWrite' = Append(vec, current) /\ vec' = <<>>
      /\ current' = new1 /\ new1' = NoBuffer
      /\ IF next = NoBuffer THEN next' = new2 /\ new2' = NoBuffer
                            ELSE next' = next /\ new2' = new2
      /\ UNCHANGED <<content, written, isStop, file, dropped, appended>>
  BY DEF Swap
<1>3. /\ toWrite = <<>> /\ written = 0
      /\ new1 \in Buffers /\ new2 \in Buffers
      /\ next = NoBuffer => vec # <<>>
  BY <1>1 DEF TypeOK, Stocked
<1>4. /\ toWrite' \in Seq(Buffers) /\ Len(toWrite') = Len(vec) + 1
      /\ ToSet(toWrite') = ToSet(vec) \cup {current} /\ IsInjective(toWrite')
  <2>1. vec \in Seq(Buffers) /\ current \in Buffers /\ current \notin ToSet(vec)
    BY <1>1 DEF TypeOK, Separate
  <2>2. IsInjective(vec)
    BY <1>1 DEF Separate
  <2>3. QED
    BY <2>1, <2>2, <1>2, AppendFact
<1>5. Len(vec) \in Nat /\ (vec # <<>> => Len(vec) >= 1)
  BY <1>1 DEF TypeOK
<1>6. TypeOK'
  BY <1>1, <1>2, <1>3, <1>4, <1>5, EmptyFact, LoggerAssumption DEF TypeOK, Labels
<1>7. Separate'
  <2>1. NoBuffer \notin ToSet(toWrite')
    BY <1>4, LoggerAssumption DEF ToSet
  <2>2. QED
    BY <2>1, <1>1, <1>2, <1>3, <1>4, EmptyFact, LoggerAssumption DEF Separate, TypeOK
<1>8. Stocked'
  BY <1>1, <1>2, <1>3, <1>4, <1>5, LoggerAssumption DEF Stocked, EnoughToRecycle
<1>9. QED
  BY <1>6, <1>7, <1>8 DEF IInv

(* Clearing buffers.                                                       *)
LEMMA EmptiedFact ==
  ASSUME TypeOK, NEW bs
  PROVE  Emptied(bs) \in [Buffers -> Seq(1 .. appended)]
  BY EmptyFact DEF TypeOK, Emptied

(* The limit on pending buffers.                                           *)
LEMMA DropFact == ASSUME IInv, Drop PROVE IInv'
<1> USE DEF shared, local
<1>1. /\ TypeOK /\ Separate /\ Stocked
      /\ pc = "swapped" /\ pc' = "write"
      /\ UNCHANGED <<shared, new1, new2, written, isStop, file, appended>>
  BY DEF IInv, Drop
<1>2. /\ toWrite \in Seq(Buffers) /\ Len(toWrite) \in Nat /\ written = 0
      /\ Len(toWrite) >= 1 /\ (new2 = NoBuffer => Len(toWrite) >= 2)
  BY <1>1 DEF TypeOK, Stocked, EnoughToRecycle
<1>3. CASE Len(toWrite) > MaxPending
  <2> DEFINE erased == {toWrite[i] : i \in 3..Len(toWrite)}
  <2>1. /\ toWrite' = SubSeq(toWrite, 1, 2)
        /\ content' = Emptied(erased)
        /\ dropped' = dropped \cup LinesOf(erased)
    BY <1>3 DEF Drop
  <2>2. 2 \in 0 .. Len(toWrite)
    BY <1>2, <1>3, LoggerAssumption
  <2>3. /\ toWrite' \in Seq(Buffers) /\ Len(toWrite') = 2
        /\ ToSet(toWrite') \subseteq ToSet(toWrite)
        /\ IsInjective(toWrite) => IsInjective(toWrite')
    BY <2>1, <2>2, <1>2, PrefixFact
  <2>4. content' \in [Buffers -> Seq(1 .. appended)]
    BY <2>1, <1>1, EmptiedFact
  <2>5. LinesOf(erased) \subseteq 1 .. appended
    <3>1. erased \subseteq Buffers
      BY <1>2
    <3>2. ASSUME NEW b \in Buffers PROVE ToSet(content[b]) \subseteq 1 .. appended
      <4>1. content[b] \in Seq(1 .. appended)
        BY <1>1 DEF TypeOK
      <4>2. QED
        BY <4>1, ElementFact
    <3>3. QED
      BY <3>1, <3>2 DEF LinesOf
  <2> HIDE DEF erased
  <2>6. TypeOK'
    <3>1. dropped' \in SUBSET (1 .. appended)
      BY <2>1, <2>5, <1>1 DEF TypeOK
    <3>2. written' = 0 /\ 0 \in 0 .. Len(toWrite')
      BY <2>3, <1>1, <1>2
    <3>3. pc' \in Labels /\ pc' \notin {"head", "lock", "waiting"}
      BY <1>1 DEF Labels
    <3>4. QED
      BY <3>1, <3>2, <3>3, <2>3, <2>4, <1>1 DEF TypeOK
  <2>7. Separate'
    BY <2>3, <1>1 DEF Separate
  <2>8. Stocked'
    BY <2>3, <1>1, <1>2 DEF Stocked, EnoughToRecycle
  <2>9. QED
    BY <2>6, <2>7, <2>8 DEF IInv
<1>4. CASE ~ (Len(toWrite) > MaxPending)
  <2>1. UNCHANGED <<toWrite, content, dropped>>
    BY <1>4 DEF Drop
  <2>2. QED
    BY <2>1, <1>1 DEF IInv, TypeOK, Separate, Stocked, EnoughToRecycle, Labels
<1>5. QED
  BY <1>3, <1>4

(* A buffer is written out.                                                *)
LEMMA WriteBufferFact == ASSUME IInv, WriteBuffer PROVE IInv'
<1> USE DEF shared, local
<1>1. /\ TypeOK /\ Separate /\ Stocked
      /\ pc = "write" /\ written < Len(toWrite) /\ written' = written + 1
      /\ UNCHANGED <<content, shared, new1, new2, toWrite, pc, isStop, dropped, appended>>
  BY DEF IInv, WriteBuffer
<1>2. written' \in 0 .. Len(toWrite)
  BY <1>1 DEF TypeOK
<1>3. QED
  BY <1>1, <1>2 DEF IInv, TypeOK, Separate, Stocked, EnoughToRecycle

(* The written buffers are the next round's spares.                        *)
LEMMA RecycleFact == ASSUME IInv, Recycle PROVE IInv'
<1> USE DEF shared, local
<1> DEFINE n == IF Len(toWrite) > 2 THEN 2 ELSE Len(toWrite)
           kept == SubSeq(toWrite, 1, n)
<1>1. /\ TypeOK /\ Separate /\ Stocked
      /\ pc = "write" /\ pc' = "head" /\ toWrite' = <<>> /\ written' = 0
      /\ content' = Emptied(ToSet(toWrite))
      /\ UNCHANGED <<shared, isStop, file, dropped, appended>>
  BY DEF IInv, Recycle
<1>2. /\ toWrite \in Seq(Buffers) /\ Len(toWrite) \in Nat
      /\ Len(toWrite) >= 1 /\ (new2 = NoBuffer => Len(toWrite) >= 2)
  BY <1>1 DEF TypeOK, Stocked, EnoughToRecycle
<1>3. /\ n \in 1 .. Len(toWrite) /\ n \in 0 .. Len(toWrite)
      /\ new2 = NoBuffer => n = 2 /\ n - 1 \in 1 .. Len(toWrite)
  <2>1. (Len(toWrite) > 2 => n = 2) /\ (~ (Len(toWrite) > 2) => n = Len(toWrite))
    OBVIOUS
  <2> HIDE DEF n
  <2>2. CASE Len(toWrite) > 2
    BY <2>1, <2>2, <1>2
  <2>3. CASE ~ (Len(toWrite) > 2)
    BY <2>1, <2>3, <1>2
  <2>4. QED
    BY <2>2, <2>3
<1>4. /\ new1' = toWrite[n]
      /\ new2' = IF new2 = NoBuffer THEN toWrite[n - 1] ELSE new2
  <2>1. Len(kept) = n /\ \A i \in 1 .. n : kept[i] = toWrite[i]
    BY <1>2, <1>3, PrefixFact
  <2>2. new1' = kept[Len(kept)] /\ new2' = IF new2 = NoBuffer THEN kept[Len(kept) - 1] ELSE new2
    BY DEF Recycle
  <2> HIDE DEF n, kept
  <2>3. n \in 1 .. n /\ (new2 = NoBuffer => n - 1 \in 1 .. n)
    BY <1>3
  <2>4. QED
    BY <2>1, <2>2, <2>3
<1> HIDE DEF n
<1>5. /\ new1' \in ToSet(toWrite) /\ new1' \in Buffers
      /\ new2' \in Buffers /\ new1' # new2'
      /\ new2' \in ToSet(toWrite) \cup {new2}
  <2>1. new1' \in ToSet(toWrite) /\ new1' \in Buffers
    BY <1>2, <1>3, <1>4 DEF ToSet
  <2>2. CASE new2 = NoBuffer
    <3>1. new2' \in ToSet(toWrite) /\ new2' \in Buffers
      BY <2>2, <1>2, <1>3, <1>4 DEF ToSet
    <3>2. n \in DOMAIN toWrite /\ n - 1 \in DOMAIN toWrite /\ n # n - 1
      BY <2>2, <1>2, <1>3
    <3>3. toWrite[n] # toWrite[n - 1]
      BY <3>2, <1>1 DEF Separate, IsInjective
    <3>4. QED
      BY <2>1, <2>2, <3>1, <3>3, <1>4
  <2>3. CASE new2 # NoBuffer
    <3>1. new2' = new2 /\ new2 \in Buffers
      BY <2>3, <1>1, <1>4 DEF TypeOK
    <3>2. new2 \notin ToSet(toWrite)
      BY <1>1 DEF Separate
    <3>3. QED
      BY <2>1, <3>1, <3>2
  <2>4. QED
    BY <2>2, <2>3
<1>6. content' \in [Buffers -> Seq(1 .. appended)]
  BY <1>1, EmptiedFact
<1>7. TypeOK'
  BY <1>1, <1>5, <1>6, EmptyFact, LoggerAssumption, SMTT(30) DEF TypeOK, Labels
<1>8. Separate'
  BY <1>1, <1>5, EmptyFact DEF Separate
<1>9. Stocked'
  BY <1>1, <1>5, LoggerAssumption DEF Stocked, EnoughToRecycle
<1>10. QED
  BY <1>7, <1>8, <1>9 DEF IInv

(* A new process begins as the first one did; the lines of the old one     *)
(* that are not in the files count as dropped.                             *)
LEMMA RestartFact == ASSUME IInv, Restart PROVE IInv'
<1> USE DEF shared, local
<1>1. /\ content' = [b \in Buffers |-> <<>>]
      /\ current' = Fresh(Buffers) /\ next' = Fresh(Buffers \ {current'})
      /\ vec' = <<>> /\ toWrite' = <<>> /\ written' = 0
      /\ new1' = NoBuffer /\ new2' = NoBuffer
      /\ pc' = "off" /\ isStop' = TRUE
      /\ dropped' \subseteq 1 .. appended /\ appended' = appended
  BY DEF Restart
<1>2. current' \in Buffers /\ next' \in Buffers /\ next' # current'
  <2>1. Buffers # {}
    BY FS_EmptySet, LoggerAssumption
  <2>2. current' \in Buffers
    BY <2>1, <1>1, FreshFact
  <2>3. next' \in Buffers \ {current'}
    BY <2>2, <1>1, FreshFact
  <2>4. QED
    BY <2>2, <2>3
<1>3. TypeOK'
  <2>1. content' \in [Buffers -> Seq(1 .. appended)]
    BY <1>1, EmptyFact
  <2>2. appended \in 0 .. MaxLines
    BY DEF IInv, TypeOK
  <2>3. QED
    BY <2>1, <2>2, <1>1, <1>2, EmptyFact DEF TypeOK, Labels
<1>4. Separate'
  BY <1>1, <1>2, EmptyFact, LoggerAssumption DEF Separate
<1>5. Stocked'
  BY <1>1, <1>2, LoggerAssumption DEF Stocked, EnoughToRecycle
<1>6. QED
  BY <1>3, <1>4, <1>5 DEF IInv

(* Every step, the file's part of it included.                             *)
LEMMA Inductive == ASSUME IInv, [LoggingNext]_loggingVars PROVE IInv'
<1>1. CASE AppendLine
  BY <1>1, AppendLineFact
<1>2. CASE Start \/ Stop \/ LoopHead \/ Wait
  BY <1>2, ControlFact
<1>3. CASE Begin
  BY <1>3, BeginFact
<1>4. CASE Swap
  BY <1>4, SwapFact
<1>5. CASE Drop
  BY <1>5, DropFact
<1>6. CASE WriteBuffer
  BY <1>6, WriteBufferFact
<1>7. CASE Recycle
  BY <1>7, RecycleFact
<1>8. CASE Restart
  BY <1>8, RestartFact
<1>9. CASE UNCHANGED loggingVars
  BY <1>9 DEF IInv, TypeOK, Separate, Stocked, EnoughToRecycle, loggingVars, vars,
              shared, local
<1>10. QED
  BY <1>1, <1>2, <1>3, <1>4, <1>5, <1>6, <1>7, <1>8, <1>9
     DEF LoggingNext, InMemory, OpenOutput, AppendBuffer, FlushRound, Loop

(* Every state of the logger has its pointers in order.                    *)
THEOREM LoggerInvariant == LoggingSpec => []IInv
<1>1. LoggingInit => IInv
  BY InitFact DEF LoggingInit
<1>2. IInv /\ [LoggingNext]_loggingVars => IInv'
  BY Inductive
<1>3. QED
  BY <1>1, <1>2, PTL DEF LoggingSpec

(* Wherever the code dereferences or moves from one of its pointers it     *)
(* holds a buffer (async_logger_core.cpp:16-34 and 49-90).                 *)
THEOREM PointersHold == LoggingSpec => []TypeOK
<1>1. IInv => TypeOK
  BY DEF IInv
<1>2. QED
  BY <1>1, LoggerInvariant, PTL

(* The thread never pops from an empty vector when it replaces its spares  *)
(* (async_logger_core.cpp:75-88).                                          *)
THEOREM AlwaysEnoughToRecycle == LoggingSpec => []EnoughToRecycle
<1>1. IInv => EnoughToRecycle
  BY DEF IInv, Stocked
<1>2. QED
  BY <1>1, LoggerInvariant, PTL

----------------------------------------------------------------------------
(***************************************************************************)
(* Who holds a buffer                                                      *)
(***************************************************************************)

(* One sequence behind another, place by place.                            *)
LEMMA ConcatFact ==
  ASSUME NEW S, NEW s \in Seq(S), NEW t \in Seq(S)
  PROVE  /\ s \o t \in Seq(S) /\ Len(s \o t) = Len(s) + Len(t)
         /\ DOMAIN (s \o t) = 1 .. Len(s) + Len(t)
         /\ \A i \in 1 .. Len(s) : (s \o t)[i] = s[i]
         /\ \A i \in Len(s) + 1 .. Len(s) + Len(t) : (s \o t)[i] = t[i - Len(s)]
<1>1. s \o t \in Seq(S) /\ Len(s \o t) = Len(s) + Len(t)
  OBVIOUS
<1>2. DOMAIN (s \o t) = 1 .. Len(s) + Len(t)
  BY <1>1
<1>3. \A i \in 1 .. Len(s) : (s \o t)[i] = s[i]
  OBVIOUS
<1>4. \A i \in Len(s) + 1 .. Len(s) + Len(t) : (s \o t)[i] = t[i - Len(s)]
  OBVIOUS
<1>5. QED
  BY <1>1, <1>2, <1>3, <1>4

(* Role by role is place by place.                                         *)
LEMMA SeparateFact == ASSUME TypeOK, Separate PROVE NoSharedBuffer
<1> DEFINE four == <<current, next, new1, new2>>
           roles == four \o vec
           m == Len(vec)
           n == Len(toWrite)
<1>1. /\ vec \in Seq(Buffers) /\ toWrite \in Seq(Buffers)
      /\ m \in Nat /\ n \in Nat
      /\ DOMAIN vec = 1 .. m /\ DOMAIN toWrite = 1 .. n
  BY DEF TypeOK
<1>2. /\ four \in Seq(Buffers \cup {NoBuffer}) /\ Len(four) = 4
      /\ four[1] = current /\ four[2] = next /\ four[3] = new1 /\ four[4] = new2
  BY DEF TypeOK
<1>3. vec \in Seq(Buffers \cup {NoBuffer}) /\ toWrite \in Seq(Buffers \cup {NoBuffer})
  BY <1>1, WiderFact
<1> HIDE DEF four
<1>4. /\ roles \in Seq(Buffers \cup {NoBuffer}) /\ Len(roles) = 4 + m
      /\ \A i \in 1 .. 4 : roles[i] = four[i]
      /\ \A i \in 5 .. 4 + m : roles[i] = vec[i - 4]
  <2>1. /\ roles \in Seq(Buffers \cup {NoBuffer}) /\ Len(roles) = Len(four) + m
        /\ \A i \in 1 .. Len(four) : roles[i] = four[i]
        /\ \A i \in Len(four) + 1 .. Len(four) + m : roles[i] = vec[i - Len(four)]
    <3> DEFINE all == Buffers \cup {NoBuffer}
    <3>1. four \in Seq(all) /\ vec \in Seq(all)
      BY <1>2, <1>3
    <3> HIDE DEF all, m, roles
    <3>3. roles = four \o vec /\ m = Len(vec)
      BY DEF roles, m
    <3>2. QED
      BY <3>1, <3>3, ConcatFact DEF all
  <2> HIDE DEF roles, m
  <2>2. 4 + 1 = 5
    OBVIOUS
  <2>3. QED
    BY <2>1, <2>2, <1>2
<1> HIDE DEF roles
<1>5. /\ DOMAIN Holders = 1 .. 4 + m + n
      /\ \A i \in 1 .. 4 + m : Holders[i] = roles[i]
      /\ \A i \in 5 + m .. 4 + m + n : Holders[i] = toWrite[i - (4 + m)]
  <2>1. Holders = roles \o toWrite
    BY DEF Holders, roles, four
  <2>2. /\ DOMAIN (roles \o toWrite) = 1 .. Len(roles) + n
        /\ \A i \in 1 .. Len(roles) : (roles \o toWrite)[i] = roles[i]
        /\ \A i \in Len(roles) + 1 .. Len(roles) + n :
             (roles \o toWrite)[i] = toWrite[i - Len(roles)]
    <3> DEFINE all == Buffers \cup {NoBuffer}
    <3>1. roles \in Seq(all) /\ toWrite \in Seq(all)
      BY <1>3, <1>4
    <3> HIDE DEF all
    <3>2. QED
      BY <3>1, ConcatFact, Zenon
  <2> HIDE DEF m, n
  <2>3. Len(roles) = 4 + m /\ (4 + m) + 1 = 5 + m
    BY <1>1, <1>4
  <2>4. QED
    BY <2>1, <2>2, <2>3
<1> HIDE DEF m, n
<1>6. /\ \A i \in 1 .. 4 : Holders[i] = four[i]
      /\ \A i \in 5 .. 4 + m : i - 4 \in DOMAIN vec /\ Holders[i] = vec[i - 4]
      /\ \A i \in 5 + m .. 4 + m + n :
           i - (4 + m) \in DOMAIN toWrite /\ Holders[i] = toWrite[i - (4 + m)]
  BY <1>1, <1>4, <1>5
<1>7. \A i \in DOMAIN Holders :
         i \in 1 .. 4 \/ i \in 5 .. 4 + m \/ i \in 5 + m .. 4 + m + n
  BY <1>1, <1>5
<1>8. SUFFICES ASSUME NEW i \in DOMAIN Holders, NEW j \in DOMAIN Holders,
                      i < j, Holders[i] # NoBuffer
               PROVE  Holders[i] # Holders[j]
  <2>1. \A i, j \in DOMAIN Holders : i # j => i < j \/ j < i
    BY <1>1, <1>5
  <2>2. QED
    BY <2>1 DEF NoSharedBuffer
<1>9. CASE i \in 1 .. 4
  <2>1. Holders[i] \in {current, next, new1, new2} /\ Holders[i] = four[i]
    BY <1>9, <1>2, <1>6
  <2>2. CASE j \in 1 .. 4
    <3>1. Holders[j] = four[j]
      BY <2>2, <1>6
    <3>2. \/ i = 1 /\ j \in {2, 3, 4}
          \/ i = 2 /\ j \in {3, 4}
          \/ i = 3 /\ j = 4
      BY <2>2, <1>8, <1>9
    <3>3. QED
      BY <3>1, <3>2, <2>1, <1>2, <1>8 DEF Separate
  <2>3. CASE j \notin 1 .. 4
    <3>1. Holders[j] \in ToSet(vec) \cup ToSet(toWrite)
      BY <2>3, <1>6, <1>7 DEF ToSet
    <3>2. QED
      BY <3>1, <2>1 DEF Separate
  <2>4. QED
    BY <2>2, <2>3
<1>10. CASE i \in 5 .. 4 + m
  <2>1. i - 4 \in DOMAIN vec /\ Holders[i] = vec[i - 4]
    BY <1>10, <1>6
  <2>2. CASE j \in 5 .. 4 + m
    <3>1. j - 4 \in DOMAIN vec /\ Holders[j] = vec[j - 4] /\ i - 4 # j - 4
      BY <2>2, <1>1, <1>6, <1>8, <1>10
    <3>2. QED
      BY <3>1, <2>1 DEF Separate, IsInjective
  <2>3. CASE j \in 5 + m .. 4 + m + n
    <3>1. Holders[j] \in ToSet(toWrite) /\ Holders[i] \in ToSet(vec)
      BY <2>1, <2>3, <1>6 DEF ToSet
    <3>2. QED
      BY <3>1 DEF Separate
  <2>4. j \notin 1 .. 4
    BY <1>1, <1>8, <1>10
  <2>5. QED
    BY <2>2, <2>3, <2>4, <1>7
<1>11. CASE i \in 5 + m .. 4 + m + n
  <2>1. j \in 5 + m .. 4 + m + n
    BY <1>1, <1>5, <1>8, <1>11
  <2>2. /\ i - (4 + m) \in DOMAIN toWrite /\ Holders[i] = toWrite[i - (4 + m)]
        /\ j - (4 + m) \in DOMAIN toWrite /\ Holders[j] = toWrite[j - (4 + m)]
        /\ i - (4 + m) # j - (4 + m)
    BY <2>1, <1>1, <1>6, <1>8, <1>11
  <2>3. QED
    BY <2>2 DEF Separate, IsInjective
<1>12. QED
  BY <1>7, <1>9, <1>10, <1>11

(* What the thread writes out and clears without the mutex is never the    *)
(* buffer others append to (async_logger_core.cpp:14-34 and 62-90).        *)
THEOREM NoBufferIsShared == LoggingSpec => []NoSharedBuffer
<1>1. IInv => NoSharedBuffer
  BY SeparateFact DEF IInv
<1>2. QED
  BY <1>1, LoggerInvariant, PTL

----------------------------------------------------------------------------
(***************************************************************************)
(* The files                                                               *)
(***************************************************************************)

(* The renamed files have the first numbers, and the LogFile, once it is   *)
(* constructed, goes on with the next.                                     *)
Numbered ==
  \E k \in Nat : /\ DOMAIN rotated = 0 .. k - 1
                 /\ pc \notin {"off", "begin"} => splits = k

(* The steps that leave the LogFile alone do not need it more than before. *)
LEMMA NumberedFact ==
  ASSUME Numbered, [LoggingNext]_loggingVars
  PROVE  /\ Numbered'
         /\ \A f \in DOMAIN rotated : f \in DOMAIN rotated' /\ rotated'[f] = rotated[f]
<1> USE DEF shared, local
<1>1. PICK k \in Nat : /\ DOMAIN rotated = 0 .. k - 1
                       /\ pc \notin {"off", "begin"} => splits = k
  BY DEF Numbered
<1>2. CASE /\ rotated' = rotated /\ splits' = splits
           /\ pc' \in {"off", "begin"} \/ pc \notin {"off", "begin"}
  BY <1>1, <1>2 DEF Numbered
<1>3. CASE Begin /\ Open
  <2>1. rotated' = rotated /\ splits' \in 0 .. Cardinality(0 .. k - 1)
    BY <1>1, <1>3 DEF Open
  <2>2. Cardinality(0 .. k - 1) = k
    BY FS_Interval
  <2>3. splits' \in 0 .. k /\ splits' \notin 0 .. k - 1
    BY <2>1, <2>2, <1>1, <1>3 DEF Open
  <2>4. splits' = k
    BY <2>3
  <2>5. QED
    BY <2>1, <2>4, <1>1 DEF Numbered
<1>4. CASE WriteBuffer /\ Rotate(content[toWrite[written + 1]])
  <2>1. pc = "write" /\ pc' = "write" /\ splits = k /\ splits' = k + 1
    BY <1>1, <1>4 DEF WriteBuffer, Rotate
  <2>2. /\ DOMAIN rotated' = DOMAIN rotated \cup {splits}
        /\ \A f \in DOMAIN rotated : f # splits => rotated'[f] = rotated[f]
    BY <1>4 DEF Rotate
  <2>3. DOMAIN rotated' = 0 .. (k + 1) - 1 /\ k + 1 \in Nat /\ k \notin 0 .. k - 1
    BY <2>1, <2>2, <1>1
  <2>4. Numbered'
    BY <2>1, <2>3 DEF Numbered
  <2>5. QED
    BY <2>1, <2>2, <2>3, <2>4, <1>1
<1>5. QED
  <2>1. CASE InMemory
    BY <2>1, <1>2 DEF InMemory, AppendLine, Start, Stop, Wait, Swap, Drop, logVars
  <2>2. CASE OpenOutput
    BY <2>2, <1>3 DEF OpenOutput
  <2>3. CASE AppendBuffer
    BY <2>3, <1>2, <1>4 DEF AppendBuffer, LogAppend, WriteBuffer, Write
  <2>4. CASE FlushRound
    BY <2>4, <1>2 DEF FlushRound, Recycle, Flush
  <2>5. CASE Loop
    BY <2>5, <1>2 DEF Loop, LoopHead, Flush, logVars
  <2>6. CASE Restart
    BY <2>6, <1>2 DEF Restart, Die
  <2>7. CASE UNCHANGED loggingVars
    BY <2>7, <1>2 DEF loggingVars, vars, logVars
  <2>8. QED
    BY <2>1, <2>2, <2>3, <2>4, <2>5, <2>6, <2>7 DEF LoggingNext

(* A renamed file is never written to or overwritten, however often the    *)
(* process is started again (logfile.h:69-75 and 99, the choice of the number). *)
THEOREM RenamedIsFinal == LoggingSpec => RotatedIsFinal
<1>1. LoggingInit => Numbered
  BY DEF LoggingInit, LogFileInit, Init, Numbered
<1>2. Numbered /\ [LoggingNext]_loggingVars => Numbered'
  BY NumberedFact
<1>3. Numbered /\ [LoggingNext]_loggingVars
        => [\A n \in DOMAIN rotated : n \in DOMAIN rotated' /\ rotated'[n] = rotated[n]]_loggingVars
  BY NumberedFact
<1>4. QED
  BY <1>1, <1>2, <1>3, PTL DEF LoggingSpec, RotatedIsFinal

(* Outside the writing of a round the kernel has all that was written      *)
(* (async_logger_core.cpp:90 and 93).                                      *)
THEOREM RoundsAreFlushed == LoggingSpec => []RoundIsFlushed
<1> DEFINE Flushed == pc # "write" => unflushed = <<>>
<1>1. LoggingInit => Flushed
  BY DEF LoggingInit, LogFileInit
<1>2. Flushed /\ [LoggingNext]_loggingVars => Flushed'
  <2> USE DEF logVars
  <2> SUFFICES ASSUME Flushed, [LoggingNext]_loggingVars PROVE Flushed'
    OBVIOUS
  <2>1. CASE InMemory
    BY <2>1 DEF InMemory, AppendLine, Start, Stop, Wait, Swap, Drop
  <2>2. CASE OpenOutput
    BY <2>2 DEF OpenOutput, Begin, Open
  <2>3. CASE AppendBuffer
    BY <2>3 DEF AppendBuffer, WriteBuffer
  <2>4. CASE FlushRound
    BY <2>4 DEF FlushRound, Flush
  <2>5. CASE Loop
    BY <2>5 DEF Loop, LoopHead, Flush
  <2>6. CASE Restart
    BY <2>6 DEF Restart, Die
  <2>7. CASE UNCHANGED loggingVars
    BY <2>7 DEF loggingVars, vars
  <2>8. QED
    BY <2>1, <2>2, <2>3, <2>4, <2>5, <2>6, <2>7 DEF LoggingNext
<1>3. Flushed => RoundIsFlushed
  BY DEF RoundIsFlushed
<1>4. QED
  BY <1>1, <1>2, <1>3, PTL DEF LoggingSpec

----------------------------------------------------------------------------
(***************************************************************************)
(* Joined sequences                                                        *)
(***************************************************************************)

(* Induction, over a set of numbers: the library's rule takes an operator. *)
LEMMA InductionFact ==
  ASSUME NEW T, 0 \in T, \A n \in Nat : n \in T => n + 1 \in T
  PROVE  Nat \subseteq T
<1>1. SUFFICES ASSUME Nat \ T # {} PROVE FALSE
  OBVIOUS
<1>2. \A x, y \in Nat : y < x => <<y, x>> \in OpToRel(<, Nat)
  BY DEF OpToRel
<1>3. PICK x \in Nat \ T : \A y \in Nat \ T : ~(<<y, x>> \in OpToRel(<, Nat))
  BY <1>1, NatLessThanWellFounded, WFMin
<1>4. x \in Nat /\ x \notin T /\ x # 0
  BY <1>3
<1>8. x - 1 \in Nat /\ x - 1 < x /\ (x - 1) + 1 = x
  BY <1>4
<1>5. x - 1 \in T
  BY <1>2, <1>3, <1>4, <1>8
<1>6. (x - 1) + 1 \in T
  BY <1>8, <1>5
<1>7. QED
  BY <1>4, <1>6, <1>8

(* What FlattenSeq recurs on: the first i sequences joined.                *)
Joins(g, ss, n) ==
  g = [i \in 1 .. n |-> IF i = 1 THEN ss[i] ELSE g[i - 1] \o ss[i]]

(* There are such joins.                                                   *)
LEMMA JoinsExist ==
  ASSUME NEW S, NEW ss \in Seq(Seq(S)), NEW n \in 0 .. Len(ss)
  PROVE  \E g \in [1 .. n -> Seq(S)] : Joins(g, ss, n)
<1> DEFINE T == {k \in Nat : k <= Len(ss) => \E g \in [1 .. k -> Seq(S)] : Joins(g, ss, k)}
<1>1. 0 \in T
  <2>1. [i \in 1 .. 0 |-> <<>>] \in [1 .. 0 -> Seq(S)] /\ Joins([i \in 1 .. 0 |-> <<>>], ss, 0)
    BY DEF Joins
  <2>2. QED
    BY <2>1
<1>2. ASSUME NEW k \in Nat, k \in T PROVE k + 1 \in T
  <2>1. SUFFICES ASSUME k + 1 <= Len(ss) PROVE \E g \in [1 .. k + 1 -> Seq(S)] : Joins(g, ss, k + 1)
    OBVIOUS
  <2>2. PICK g \in [1 .. k -> Seq(S)] : Joins(g, ss, k)
    BY <1>2, <2>1
  <2>3. PICK x : x = IF k = 0 THEN ss[k + 1] ELSE g[k] \o ss[k + 1]
    OBVIOUS
  <2>4. x \in Seq(S)
    <3>1. ss[k + 1] \in Seq(S)
      BY <2>1
    <3>2. k # 0 => g[k] \in Seq(S)
      OBVIOUS
    <3>3. QED
      BY <2>3, <3>1, <3>2
  <2>5. PICK h : h = [i \in 1 .. k + 1 |-> IF i = k + 1 THEN x ELSE g[i]]
    OBVIOUS
  <2>6. h \in [1 .. k + 1 -> Seq(S)]
    <3>1. \A i \in 1 .. k + 1 : i # k + 1 => i \in 1 .. k
      OBVIOUS
    <3>2. QED
      BY <3>1, <2>4, <2>5
  <2>7. ASSUME NEW i \in 1 .. k + 1
        PROVE  h[i] = IF i = 1 THEN ss[i] ELSE h[i - 1] \o ss[i]
    <3>1. CASE i = k + 1
      <4>1. i # 1 => i - 1 = k /\ k # 0 /\ h[i - 1] = g[k]
        BY <3>1, <2>5
      <4>2. QED
        BY <4>1, <3>1, <2>3, <2>5
    <3>2. CASE i # k + 1
      <4>1. i \in 1 .. k /\ h[i] = g[i]
        BY <3>2, <2>5
      <4>2. g[i] = IF i = 1 THEN ss[i] ELSE g[i - 1] \o ss[i]
        BY <4>1, <2>2 DEF Joins
      <4>3. i # 1 => h[i - 1] = g[i - 1]
        BY <3>2, <2>5
      <4>4. QED
        BY <4>1, <4>2, <4>3
    <3>3. QED
      BY <3>1, <3>2
  <2>8. Joins(h, ss, k + 1)
    BY <2>6, <2>7 DEF Joins
  <2>9. QED
    BY <2>6, <2>8
<1> HIDE DEF T
<1>3. n \in T
  <2>1. n \in Nat
    OBVIOUS
  <2>2. QED
    BY <2>1, <1>1, <1>2, InductionFact
<1>4. QED
  BY <1>3 DEF T

(* They are all the same.                                                  *)
LEMMA JoinsAgree ==
  ASSUME NEW ss, NEW n \in Nat, NEW g, NEW h, Joins(g, ss, n), Joins(h, ss, n),
         NEW i \in 1 .. n
  PROVE  g[i] = h[i]
<1> DEFINE T == {k \in Nat : k \in 1 .. n => g[k] = h[k]}
<1>1. 0 \in T
  OBVIOUS
<1>2. ASSUME NEW k \in Nat, k \in T PROVE k + 1 \in T
  <2>1. SUFFICES ASSUME k + 1 \in 1 .. n PROVE g[k + 1] = h[k + 1]
    OBVIOUS
  <2>2. /\ g[k + 1] = IF k + 1 = 1 THEN ss[k + 1] ELSE g[(k + 1) - 1] \o ss[k + 1]
        /\ h[k + 1] = IF k + 1 = 1 THEN ss[k + 1] ELSE h[(k + 1) - 1] \o ss[k + 1]
    BY <2>1 DEF Joins
  <2>3. k + 1 # 1 => (k + 1) - 1 = k /\ k \in 1 .. n
    BY <2>1
  <2>4. QED
    BY <2>2, <2>3, <1>2
<1> HIDE DEF T
<1>3. i \in T
  BY <1>1, <1>2, InductionFact
<1>4. QED
  BY <1>3 DEF T

(* FlattenSeq is the last of the joins.                                    *)
LEMMA FlattenIs ==
  ASSUME NEW S, NEW ss \in Seq(Seq(S)), Len(ss) # 0,
         NEW g, Joins(g, ss, Len(ss))
  PROVE  FlattenSeq(ss) = g[Len(ss)]
<1>1. PICK f : f = CHOOSE h : Joins(h, ss, Len(ss))
  OBVIOUS
<1>2. Joins(f, ss, Len(ss))
  BY <1>1
<1>3. FlattenSeq(ss) = f[Len(ss)]
  BY <1>1 DEF FlattenSeq, Joins
<1>4. Len(ss) \in Nat /\ Len(ss) \in 1 .. Len(ss)
  OBVIOUS
<1>5. QED
  BY <1>2, <1>3, <1>4, JoinsAgree

(* Sequences and functions.                                                *)
LEMMA SeqFact ==
  ASSUME NEW S
  PROVE  /\ \A n \in Nat : \A s \in [1 .. n -> S] : s \in Seq(S) /\ Len(s) = n
         /\ \A s \in Seq(S) : Len(s) = 0 => s = <<>>
         /\ \A s \in Seq(S), x \in S : Append(s, x) = s \o <<x>> /\ <<x>> \in Seq(S)
         /\ <<>> \in Seq(S)
  OBVIOUS

(* Joining sequences in either order.                                      *)
LEMMA JoinFact ==
  ASSUME NEW S, NEW s \in Seq(S), NEW t \in Seq(S), NEW u \in Seq(S)
  PROVE  /\ s \o t \in Seq(S)
         /\ (s \o t) \o u = s \o (t \o u)
         /\ s \o <<>> = s /\ <<>> \o s = s
  BY ConcatProperties, ConcatAssociative, ConcatEmptySeq

(* FlattenSeq, of nothing and of one sequence more.                        *)
LEMMA FlattenFact ==
  ASSUME NEW S, NEW ss \in Seq(Seq(S)), NEW x \in Seq(S)
  PROVE  /\ FlattenSeq(<<>>) = <<>>
         /\ FlattenSeq(ss) \in Seq(S)
         /\ FlattenSeq(Append(ss, x)) = FlattenSeq(ss) \o x
<1>1. FlattenSeq(<<>>) = <<>>
  BY DEF FlattenSeq
<1>2. PICK n \in Nat : n = Len(ss)
  OBVIOUS
<1>3. PICK tt : tt = Append(ss, x)
  OBVIOUS
<1>4. /\ tt \in Seq(Seq(S)) /\ Len(tt) = n + 1 /\ tt[n + 1] = x
      /\ \A i \in 1 .. n : tt[i] = ss[i]
  <2>1. /\ Append(ss, x) \in Seq(Seq(S)) /\ Len(Append(ss, x)) = Len(ss) + 1
        /\ Append(ss, x)[Len(ss) + 1] = x
        /\ \A i \in 1 .. Len(ss) : Append(ss, x)[i] = ss[i]
    OBVIOUS
  <2>2. QED
    BY <2>1, <1>2, <1>3
<1>5. PICK g \in [1 .. n + 1 -> Seq(S)] : Joins(g, tt, n + 1)
  <2>1. n + 1 \in 0 .. Len(tt)
    BY <1>4
  <2>2. QED
    BY <2>1, <1>4, JoinsExist
<1>6. FlattenSeq(tt) = g[n + 1]
  <2>1. Len(tt) # 0
    BY <1>4
  <2>2. QED
    BY <2>1, <1>4, <1>5, FlattenIs
<1>7. g[n + 1] = IF n = 0 THEN x ELSE g[n] \o x
  <2>1. n + 1 \in 1 .. n + 1 /\ (n + 1) - 1 = n /\ (n + 1 = 1 <=> n = 0)
    OBVIOUS
  <2>2. g[n + 1] = IF n + 1 = 1 THEN tt[n + 1] ELSE g[(n + 1) - 1] \o tt[n + 1]
    BY <2>1, <1>5 DEF Joins
  <2>3. QED
    BY <2>1, <2>2, <1>4
<1>8. CASE n = 0
  <2>1. ss = <<>>
    BY <1>2, <1>8, SeqFact
  <2>2. <<>> \o x = x /\ <<>> \in Seq(S)
    OBVIOUS
  <2>3. QED
    BY <2>1, <2>2, <1>1, <1>3, <1>6, <1>7, <1>8
<1>9. CASE n # 0
  <2>1. PICK h : h = [i \in 1 .. n |-> g[i]]
    OBVIOUS
  <2>2. Joins(h, ss, n)
    <3>1. ASSUME NEW i \in 1 .. n
          PROVE  h[i] = IF i = 1 THEN ss[i] ELSE h[i - 1] \o ss[i]
      <4>1. i \in 1 .. n + 1 /\ h[i] = g[i] /\ tt[i] = ss[i]
        BY <2>1, <1>4
      <4>2. g[i] = IF i = 1 THEN tt[i] ELSE g[i - 1] \o tt[i]
        BY <4>1, <1>5 DEF Joins
      <4>3. i # 1 => h[i - 1] = g[i - 1]
        BY <2>1
      <4>4. QED
        BY <4>1, <4>2, <4>3
    <3>2. QED
      BY <3>1, <2>1 DEF Joins
  <2>3. FlattenSeq(ss) = h[n]
    BY <2>2, <1>2, <1>9, FlattenIs
  <2>4. h[n] = g[n] /\ g[n] \in Seq(S)
    BY <2>1, <1>9
  <2>5. QED
    BY <2>3, <2>4, <1>1, <1>3, <1>6, <1>7, <1>9
<1>10. QED
  BY <1>8, <1>9

----------------------------------------------------------------------------
(***************************************************************************)
(* The lines of some buffers, one after the other                          *)
(***************************************************************************)
Log == Seq(Nat)
Vectors == Seq(Buffers)

Lines(c, bs) == FlattenSeq([i \in DOMAIN bs |-> c[bs[i]]])

(* Joining sequences of lines, and of buffers, in either order.            *)
LEMMA LogJoins ==
  /\ <<>> \in Log
  /\ \A s, t \in Log : s \o t \in Log
  /\ \A s, t, u \in Log : (s \o t) \o u = s \o (t \o u)
  /\ \A s \in Log : s \o <<>> = s /\ <<>> \o s = s
<1>1. PICK T : T = Nat
  OBVIOUS
<1>2. Log = Seq(T) /\ <<>> \in Seq(T)
  BY <1>1, SeqFact DEF Log
<1>3. ASSUME NEW s \in Seq(T), NEW t \in Seq(T)
      PROVE  s \o t \in Seq(T) /\ s \o <<>> = s /\ <<>> \o s = s
  BY JoinFact
<1>4. ASSUME NEW s \in Seq(T), NEW t \in Seq(T), NEW u \in Seq(T)
      PROVE  (s \o t) \o u = s \o (t \o u)
  BY JoinFact
<1>5. ASSUME NEW s \in Log, NEW t \in Log
      PROVE  s \o t \in Log /\ s \o <<>> = s /\ <<>> \o s = s
  <2>1. s \in Seq(T) /\ t \in Seq(T)
    BY <1>2
  <2>2. QED
    BY <2>1, <1>2, <1>3
<1>6. ASSUME NEW s \in Log, NEW t \in Log, NEW u \in Log
      PROVE  (s \o t) \o u = s \o (t \o u)
  <2>1. s \in Seq(T) /\ t \in Seq(T) /\ u \in Seq(T)
    BY <1>2
  <2>2. QED
    BY <2>1, <1>4
<1>7. <<>> \in Log
  BY <1>2
<1>8. QED
  BY <1>5, <1>6, <1>7

(* And of buffers.                                                         *)
LEMMA VectorJoins ==
  /\ <<>> \in Vectors
  /\ \A s, t \in Vectors : s \o t \in Vectors
  /\ \A s, t, u \in Vectors : (s \o t) \o u = s \o (t \o u)
  /\ \A s \in Vectors : s \o <<>> = s /\ <<>> \o s = s
<1>2. Vectors = Seq(Buffers) /\ <<>> \in Seq(Buffers)
  BY SeqFact DEF Vectors
<1>3. ASSUME NEW s \in Seq(Buffers), NEW t \in Seq(Buffers)
      PROVE  s \o t \in Seq(Buffers) /\ s \o <<>> = s /\ <<>> \o s = s
  BY JoinFact
<1>4. ASSUME NEW s \in Seq(Buffers), NEW t \in Seq(Buffers), NEW u \in Seq(Buffers)
      PROVE  (s \o t) \o u = s \o (t \o u)
  BY JoinFact
<1>5. ASSUME NEW s \in Vectors, NEW t \in Vectors
      PROVE  s \o t \in Vectors /\ s \o <<>> = s /\ <<>> \o s = s
  <2>1. s \in Seq(Buffers) /\ t \in Seq(Buffers)
    BY <1>2
  <2>2. QED
    BY <2>1, <1>2, <1>3
<1>6. ASSUME NEW s \in Vectors, NEW t \in Vectors, NEW u \in Vectors
      PROVE  (s \o t) \o u = s \o (t \o u)
  <2>1. s \in Seq(Buffers) /\ t \in Seq(Buffers) /\ u \in Seq(Buffers)
    BY <1>2
  <2>2. QED
    BY <2>1, <1>4
<1>7. <<>> \in Vectors
  BY <1>2
<1>8. QED
  BY <1>5, <1>6, <1>7

(* No buffer, and one buffer more.                                         *)
LEMMA LinesFact ==
  ASSUME NEW c \in [Buffers -> Log], NEW bs \in Vectors, NEW b \in Buffers
  PROVE  /\ Lines(c, <<>>) = <<>>
         /\ Lines(c, bs) \in Log
         /\ Lines(c, bs \o <<b>>) = Lines(c, bs) \o c[b]
<1> PICK T : T = Nat
  OBVIOUS
<1>0. c \in [Buffers -> Seq(T)] /\ bs \in Seq(Buffers) /\ Log = Seq(T)
  BY DEF Log, Vectors
<1>1. PICK ss : ss = [i \in DOMAIN bs |-> c[bs[i]]]
  OBVIOUS
<1>2. DOMAIN bs = 1 .. Len(bs) /\ Len(bs) \in Nat /\ \A i \in 1 .. Len(bs) : bs[i] \in Buffers
  BY <1>0
<1>3. ss \in [1 .. Len(bs) -> Seq(T)]
  BY <1>0, <1>1, <1>2
<1>4. ss \in Seq(Seq(T)) /\ Len(ss) = Len(bs)
  BY <1>2, <1>3, SeqFact
<1>5. [i \in DOMAIN Append(bs, b) |-> c[Append(bs, b)[i]]] = Append(ss, c[b])
  <2>1. PICK as : as = Append(bs, b)
    OBVIOUS
  <2>2. /\ DOMAIN as = 1 .. Len(bs) + 1 /\ as[Len(bs) + 1] = b
        /\ \A i \in 1 .. Len(bs) : as[i] = bs[i]
    BY <2>1, <1>0
  <2>3. PICK ts : ts = Append(ss, c[b])
    OBVIOUS
  <2>4. c[b] \in Seq(T)
    BY <1>0
  <2>5. /\ ts = [i \in 1 .. Len(bs) + 1 |-> ts[i]] /\ ts[Len(bs) + 1] = c[b]
        /\ \A i \in 1 .. Len(bs) : ts[i] = ss[i]
    <3>1. ts \in Seq(Seq(T)) /\ Len(ts) = Len(ss) + 1 /\ ts[Len(ss) + 1] = c[b]
      BY <2>3, <2>4, <1>4
    <3>2. \A i \in 1 .. Len(ss) : ts[i] = ss[i]
      BY <2>3, <2>4, <1>4
    <3>3. ts = [i \in 1 .. Len(ts) |-> ts[i]]
      BY <3>1
    <3>4. QED
      BY <3>1, <3>2, <3>3, <1>4
  <2>6. \A i \in 1 .. Len(bs) + 1 : ts[i] = c[as[i]]
    <3>1. \A i \in 1 .. Len(bs) + 1 : i \in 1 .. Len(bs) \/ i = Len(bs) + 1
      BY <1>2
    <3>2. \A i \in 1 .. Len(bs) : ss[i] = c[bs[i]]
      BY <1>1, <1>2
    <3>3. QED
      BY <3>1, <3>2, <2>2, <2>5
  <2>7. [i \in DOMAIN as |-> c[as[i]]] = ts
    BY <2>2, <2>5, <2>6
  <2>8. QED
    BY <2>7, <2>1, <2>3
<1>6. [i \in DOMAIN <<>> |-> c[<<>>[i]]] = <<>>
  OBVIOUS
<1>7. c[b] \in Seq(T)
  BY <1>0
<1>8. FlattenSeq(<<>>) = <<>> /\ FlattenSeq(ss) \in Seq(T)
      /\ FlattenSeq(Append(ss, c[b])) = FlattenSeq(ss) \o c[b]
  BY <1>4, <1>7, FlattenFact
<1>9. QED
  <2>1. Append(bs, b) = bs \o <<b>>
    BY <1>0, SeqFact
  <2>2. QED
    BY <2>1, <1>0, <1>1, <1>5, <1>6, <1>8 DEF Lines

(* The lines of two vectors of buffers.                                    *)
LEMMA LinesOfBoth ==
  ASSUME NEW c \in [Buffers -> Log], NEW s \in Vectors, NEW t \in Vectors
  PROVE  Lines(c, s \o t) = Lines(c, s) \o Lines(c, t)
<1> DEFINE T == {n \in Nat : \A u \in Vectors : Len(u) = n =>
                               Lines(c, s \o u) = Lines(c, s) \o Lines(c, u)}
<1>b. \E b : b \in Buffers
  BY FS_EmptySet, LoggerAssumption
<1>1. 0 \in T
  <2>1. ASSUME NEW u \in Vectors, Len(u) = 0
        PROVE  Lines(c, s \o u) = Lines(c, s) \o Lines(c, u)
    <3>1. u = <<>>
      BY <2>1, SeqFact DEF Vectors
    <3>2. Lines(c, <<>>) = <<>> /\ Lines(c, s) \in Log
      BY <1>b, LinesFact
    <3>3. QED
      BY <3>1, <3>2, LogJoins, VectorJoins, Zenon
  <2>2. QED
    BY <2>1
<1>2. ASSUME NEW n \in Nat, n \in T PROVE n + 1 \in T
  <2>1. ASSUME NEW u \in Vectors, Len(u) = n + 1
        PROVE  Lines(c, s \o u) = Lines(c, s) \o Lines(c, u)
    <3>1. PICK v \in Vectors, b \in Buffers : u = v \o <<b>> /\ Len(v) = n /\ <<b>> \in Vectors
      <4>1. u \in Seq(Buffers) /\ u # <<>>
        BY <2>1 DEF Vectors
      <4>2. PICK v \in Seq(Buffers), b \in Buffers : u = Append(v, b)
        BY <4>1, SequenceEmptyOrAppend
      <4>3. Len(v) = n /\ u = v \o <<b>> /\ <<b>> \in Seq(Buffers)
        <5>1. Len(v) = n
          BY <4>2, <2>1
        <5>2. QED
          BY <5>1, <4>2, SeqFact
      <4>4. QED
        BY <4>3 DEF Vectors
    <3>2. s \o v \in Vectors /\ s \o u = (s \o v) \o <<b>>
      BY <3>1, VectorJoins, Zenon
    <3>3. Lines(c, s \o v) = Lines(c, s) \o Lines(c, v)
      BY <3>1, <1>2
    <3>4. /\ Lines(c, (s \o v) \o <<b>>) = Lines(c, s \o v) \o c[b]
          /\ Lines(c, v \o <<b>>) = Lines(c, v) \o c[b]
          /\ Lines(c, s) \in Log /\ Lines(c, v) \in Log /\ c[b] \in Log
      BY <3>2, LinesFact
    <3>5. (Lines(c, s) \o Lines(c, v)) \o c[b] = Lines(c, s) \o (Lines(c, v) \o c[b])
      BY <3>4, LogJoins, Zenon
    <3>6. QED
      BY <3>1, <3>2, <3>3, <3>4, <3>5, Zenon
  <2>2. QED
    BY <2>1
<1> HIDE DEF T
<1>3. Len(t) \in T
  <2>1. Len(t) \in Nat
    BY DEF Vectors
  <2>2. QED
    BY <2>1, <1>1, <1>2, InductionFact
<1>4. QED
  BY <1>3 DEF T

----------------------------------------------------------------------------
(***************************************************************************)
(* Lines in their order                                                    *)
(***************************************************************************)
Increasing(s) == \A i, j \in DOMAIN s : i < j => s[i] < s[j]

(* Everything that is, or is still to be, written.                         *)
Pending == Lines(content, SubSeq(toWrite, written + 1, Len(toWrite)))
Four(f, p, v, c) == ((f \o p) \o v) \o c
AllLines == Four(file, Pending, Lines(content, vec), content[current])

InOrder == Increasing(AllLines) /\ ToSet(AllLines) = 1 .. appended \ dropped

(* Concatenation, for proofs in which only its laws matter.                *)
Cat(s, t) == s \o t

LEMMA CatFact ==
  /\ \A s, t \in Log : Cat(s, t) \in Log
  /\ \A s, t, u \in Log : Cat(Cat(s, t), u) = Cat(s, Cat(t, u))
  /\ \A s \in Log : Cat(s, <<>>) = s /\ Cat(<<>>, s) = s
  BY LogJoins DEF Cat

(* Where one part of the lines ends and the next begins does not matter.   *)
LEMMA FourFact ==
  ASSUME NEW f \in Log, NEW p \in Log, NEW v \in Log, NEW c \in Log
  PROVE  /\ Four(f, p, v, c) \in Log
         /\ Four(f, p, v, c) = Cat(f, Cat(Cat(p, v), c))
         /\ Four(f, p, v, c) = Cat(Cat(f, p), Cat(v, c))
         /\ Four(f, <<>>, v, c) = Four(f, Cat(v, c), <<>>, <<>>)
<1>1. Cat(Cat(Cat(f, p), v), c) \in Log
  BY CatFact
<1>2. Cat(Cat(Cat(f, p), v), c) = Cat(f, Cat(Cat(p, v), c))
  BY CatFact
<1>3. Cat(Cat(Cat(f, p), v), c) = Cat(Cat(f, p), Cat(v, c))
  BY CatFact
<1>4. Cat(Cat(Cat(f, <<>>), v), c) = Cat(Cat(Cat(f, Cat(v, c)), <<>>), <<>>)
  BY CatFact
<1>5. QED
  BY <1>1, <1>2, <1>3, <1>4 DEF Four, Cat

(* Nor where a line is added to them, or a part of them moved.             *)
LEMMA FiveFact ==
  ASSUME NEW f \in Log, NEW p \in Log, NEW v \in Log, NEW c \in Log, NEW x \in Log
  PROVE  /\ Four(f, p, v, Cat(c, x)) = Cat(Four(f, p, v, c), x)
         /\ Four(f, p, Cat(v, c), x) = Cat(Four(f, p, v, c), x)
         /\ Four(f, Cat(p, v), c, x) = Four(Cat(f, p), v, c, x)
<1>1. Cat(Cat(Cat(f, p), v), Cat(c, x)) = Cat(Cat(Cat(Cat(f, p), v), c), x)
  <2>1. PICK s \in Log : s = Cat(Cat(f, p), v)
    BY CatFact
  <2>2. Cat(s, Cat(c, x)) = Cat(Cat(s, c), x)
    BY CatFact
  <2>3. QED
    BY <2>1, <2>2
<1>2. Cat(Cat(Cat(f, p), Cat(v, c)), x) = Cat(Cat(Cat(Cat(f, p), v), c), x)
  BY CatFact
<1>3. Cat(Cat(Cat(f, Cat(p, v)), c), x) = Cat(Cat(Cat(Cat(f, p), v), c), x)
  BY CatFact
<1>4. QED
  BY <1>1, <1>2, <1>3 DEF Four, Cat

(* What two parts have in them, and when the whole of them is in order.    *)
LEMMA OrderFact ==
  ASSUME NEW s \in Log, NEW t \in Log
  PROVE  /\ ToSet(s \o t) = ToSet(s) \cup ToSet(t)
         /\ Increasing(s \o t) <=> /\ Increasing(s) /\ Increasing(t)
                                   /\ \A x \in ToSet(s), y \in ToSet(t) : x < y
<1>1. s \in Seq(Nat) /\ t \in Seq(Nat)
  BY DEF Log
<1> PICK m : m = Len(s)
  OBVIOUS
<1> PICK n : n = Len(t)
  OBVIOUS
<1> PICK u : u = s \o t
  OBVIOUS
<1>2. /\ m \in Nat /\ n \in Nat
      /\ DOMAIN s = 1 .. m /\ DOMAIN t = 1 .. n /\ DOMAIN u = 1 .. m + n
      /\ \A i \in 1 .. m : u[i] = s[i]
      /\ \A i \in m + 1 .. m + n : u[i] = t[i - m]
  <2>1. Len(s) \in Nat /\ Len(t) \in Nat /\ DOMAIN s = 1 .. Len(s) /\ DOMAIN t = 1 .. Len(t)
    BY <1>1
  <2>2. PICK T : T = Nat
    OBVIOUS
  <2>3. s \in Seq(T) /\ t \in Seq(T)
    BY <2>2, <1>1
  <2>4. /\ DOMAIN (s \o t) = 1 .. Len(s) + Len(t)
        /\ \A i \in 1 .. Len(s) : (s \o t)[i] = s[i]
        /\ \A i \in Len(s) + 1 .. Len(s) + Len(t) : (s \o t)[i] = t[i - Len(s)]
    BY <2>3, ConcatFact
  <2>5. QED
    BY <2>1, <2>4
<1>3. /\ \A i \in 1 .. m : i \in 1 .. m + n /\ s[i] = u[i]
      /\ \A i \in 1 .. n : m + i \in 1 .. m + n /\ t[i] = u[m + i]
      /\ \A i \in 1 .. m + n : i \in 1 .. m \/ i \in m + 1 .. m + n
      /\ \A i \in m + 1 .. m + n : i - m \in 1 .. n
  <2>1. \A i \in 1 .. n : m + i \in m + 1 .. m + n /\ m + i \in 1 .. m + n /\ (m + i) - m = i
    OBVIOUS
  <2>2. \A i \in 1 .. n : t[i] = u[m + i]
    BY <2>1, <1>2
  <2>3. QED
    BY <2>1, <2>2, <1>2
<1>4. ToSet(u) = ToSet(s) \cup ToSet(t)
  <2>1. ToSet(u) = {u[i] : i \in 1 .. m + n}
    BY <1>2 DEF ToSet
  <2>2. ToSet(s) = {s[i] : i \in 1 .. m} /\ ToSet(t) = {t[i] : i \in 1 .. n}
    BY <1>2 DEF ToSet
  <2>3. ASSUME NEW i \in 1 .. m + n PROVE u[i] \in ToSet(s) \cup ToSet(t)
    BY <2>2, <1>2, <1>3
  <2>4. ASSUME NEW i \in 1 .. m PROVE s[i] \in ToSet(u)
    BY <2>1, <1>3
  <2>5. ASSUME NEW i \in 1 .. n PROVE t[i] \in ToSet(u)
    BY <2>1, <1>3
  <2>6. \A x \in ToSet(u) : x \in ToSet(s) \cup ToSet(t)
    BY <2>1, <2>3
  <2>7. \A x \in ToSet(s) \cup ToSet(t) : x \in ToSet(u)
    BY <2>2, <2>4, <2>5
  <2>8. QED
    BY <2>6, <2>7, Zenon
<1>5. ASSUME Increasing(u)
      PROVE  /\ Increasing(s) /\ Increasing(t)
             /\ \A x \in ToSet(s), y \in ToSet(t) : x < y
  <2>1. \A i, j \in 1 .. m + n : i < j => u[i] < u[j]
    BY <1>5, <1>2 DEF Increasing
  <2>2. \A i, j \in 1 .. m : i < j => s[i] < s[j]
    BY <2>1, <1>3
  <2>3. \A i, j \in 1 .. n : i < j => t[i] < t[j]
    <3>1. \A i, j \in 1 .. n : i < j => m + i < m + j
      OBVIOUS
    <3>2. QED
      BY <3>1, <2>1, <1>3
  <2>4. \A i \in 1 .. m, j \in 1 .. n : s[i] < t[j]
    <3>1. \A i \in 1 .. m, j \in 1 .. n : i < m + j
      OBVIOUS
    <3>2. QED
      BY <3>1, <2>1, <1>3
  <2>5. Increasing(s) /\ Increasing(t)
    BY <2>2, <2>3, <1>2 DEF Increasing
  <2>6. ASSUME NEW x \in ToSet(s), NEW y \in ToSet(t) PROVE x < y
    <3>1. PICK i \in 1 .. m, j \in 1 .. n : x = s[i] /\ y = t[j]
      BY <1>2 DEF ToSet
    <3>2. QED
      BY <3>1, <2>4
  <2>7. QED
    BY <2>5, <2>6
<1>6. ASSUME Increasing(s), Increasing(t), \A x \in ToSet(s), y \in ToSet(t) : x < y
      PROVE  Increasing(u)
  <2>1. /\ \A i, j \in 1 .. m : i < j => s[i] < s[j]
        /\ \A i, j \in 1 .. n : i < j => t[i] < t[j]
        /\ \A i \in 1 .. m, j \in 1 .. n : s[i] < t[j]
    <3>1. \A i \in 1 .. m, j \in 1 .. n : s[i] \in ToSet(s) /\ t[j] \in ToSet(t)
      BY <1>2 DEF ToSet
    <3>2. QED
      BY <3>1, <1>6, <1>2 DEF Increasing
  <2>2. ASSUME NEW i \in 1 .. m + n, NEW j \in 1 .. m + n, i < j PROVE u[i] < u[j]
    <3>1. CASE i \in 1 .. m /\ j \in 1 .. m
      BY <3>1, <2>1, <2>2, <1>3
    <3>2. CASE i \in 1 .. m /\ j \in m + 1 .. m + n
      BY <3>2, <2>1, <1>2, <1>3
    <3>3. CASE i \in m + 1 .. m + n /\ j \in m + 1 .. m + n
      <4>1. i - m < j - m /\ i - m \in 1 .. n /\ j - m \in 1 .. n
        BY <3>3, <2>2
      <4>2. QED
        BY <4>1, <3>3, <2>1, <1>2
    <3>4. ~(i \in m + 1 .. m + n /\ j \in 1 .. m)
      BY <2>2
    <3>5. QED
      BY <3>1, <3>2, <3>3, <3>4, <1>3
  <2>3. QED
    BY <2>2, <1>2 DEF Increasing
<1>7. QED
  BY <1>2, <1>4, <1>5, <1>6

(* A line with the next number.                                            *)
LEMMA GrowFact ==
  ASSUME NEW s \in Log, Increasing(s), NEW l \in Nat, \A x \in ToSet(s) : x < l
  PROVE  /\ s \o <<l>> \in Log /\ Increasing(s \o <<l>>)
         /\ ToSet(s \o <<l>>) = ToSet(s) \cup {l}
<1>1. <<l>> \in Log /\ ToSet(<<l>>) = {l} /\ Increasing(<<l>>)
  BY DEF Log, ToSet, Increasing
<1>2. s \o <<l>> \in Log
  BY <1>1, LogJoins
<1>3. \A x \in ToSet(s), y \in ToSet(<<l>>) : x < y
  BY <1>1
<1>4. QED
  BY <1>1, <1>2, <1>3, OrderFact

(* A part of the lines taken out of the middle.                            *)
LEMMA CutFact ==
  ASSUME NEW s \in Log, NEW t \in Log, NEW u \in Log, Increasing((s \o t) \o u)
  PROVE  /\ Increasing(s \o u)
         /\ ToSet(s \o u) = ToSet((s \o t) \o u) \ ToSet(t)
<1>1. s \o t \in Log
  BY LogJoins
<1>2. /\ ToSet((s \o t) \o u) = ToSet(s) \cup ToSet(t) \cup ToSet(u)
      /\ ToSet(s \o t) = ToSet(s) \cup ToSet(t)
      /\ Increasing(s \o t) /\ Increasing(u)
      /\ \A x \in ToSet(s \o t), y \in ToSet(u) : x < y
  BY <1>1, OrderFact
<1>3. Increasing(s) /\ \A x \in ToSet(s), y \in ToSet(t) : x < y
  BY <1>2, OrderFact
<1>4. Increasing(s \o u) /\ ToSet(s \o u) = ToSet(s) \cup ToSet(u)
  BY <1>2, <1>3, OrderFact
<1>5. ToSet(s) \subseteq Nat /\ ToSet(t) \subseteq Nat /\ ToSet(u) \subseteq Nat
  BY ElementFact DEF Log
<1>6. \A x \in Nat : ~(x < x)
  OBVIOUS
<1>7. ToSet(t) \cap (ToSet(s) \cup ToSet(u)) = {}
  BY <1>2, <1>3, <1>5, <1>6
<1>8. QED
  BY <1>2, <1>4, <1>7

(* What the lines of some buffers are.                                     *)
LEMMA LinesSet ==
  ASSUME NEW c \in [Buffers -> Log], NEW bs \in Vectors
  PROVE  ToSet(Lines(c, bs)) = UNION {ToSet(c[b]) : b \in ToSet(bs)}
<1> DEFINE T == {n \in Nat : \A u \in Vectors : Len(u) = n =>
                   ToSet(Lines(c, u)) = UNION {ToSet(c[b]) : b \in ToSet(u)}}
<1>b. \E b : b \in Buffers
  BY FS_EmptySet, LoggerAssumption
<1>1. 0 \in T
  <2>1. ASSUME NEW u \in Vectors, Len(u) = 0
        PROVE  ToSet(Lines(c, u)) = UNION {ToSet(c[b]) : b \in ToSet(u)}
    <3>1. u = <<>>
      BY <2>1, SeqFact DEF Vectors
    <3>2. Lines(c, <<>>) = <<>>
      BY <1>b, VectorJoins, LinesFact
    <3>3. ToSet(<<>>) = {}
      BY EmptyFact
    <3>4. QED
      BY <3>1, <3>2, <3>3
  <2>2. QED
    BY <2>1
<1>2. ASSUME NEW n \in Nat, n \in T PROVE n + 1 \in T
  <2>1. ASSUME NEW u \in Vectors, Len(u) = n + 1
        PROVE  ToSet(Lines(c, u)) = UNION {ToSet(c[b]) : b \in ToSet(u)}
    <3>1. PICK v \in Seq(Buffers), a \in Buffers : u = Append(v, a)
      <4>1. u \in Seq(Buffers) /\ u # <<>>
        BY <2>1 DEF Vectors
      <4>2. QED
        BY <4>1, SequenceEmptyOrAppend
    <3>2. Len(v) = n /\ v \in Vectors
      BY <3>1, <2>1 DEF Vectors
    <3>3. ToSet(u) = ToSet(v) \cup {a} /\ u = v \o <<a>>
      BY <3>1, AppendFact, SeqFact
    <3>4. /\ Lines(c, v \o <<a>>) = Lines(c, v) \o c[a]
          /\ Lines(c, v) \in Log /\ c[a] \in Log
      BY <3>2, LinesFact
    <3>5. ToSet(Lines(c, v) \o c[a]) = ToSet(Lines(c, v)) \cup ToSet(c[a])
      BY <3>4, OrderFact
    <3>6. ToSet(Lines(c, v)) = UNION {ToSet(c[b]) : b \in ToSet(v)}
      BY <3>2, <1>2
    <3>7. QED
      BY <3>3, <3>4, <3>5, <3>6
  <2>2. QED
    BY <2>1
<1> HIDE DEF T
<1>3. Len(bs) \in T
  <2>1. Len(bs) \in Nat
    BY DEF Vectors
  <2>2. QED
    BY <2>1, <1>1, <1>2, InductionFact
<1>4. QED
  BY <1>3 DEF T

(* The lines of buffers that have not changed.                             *)
Same(c, d, bs) == \A b \in ToSet(bs) : c[b] = d[b]

LEMMA LinesSame ==
  ASSUME NEW c, NEW d, NEW bs, Same(c, d, bs)
  PROVE  Lines(c, bs) = Lines(d, bs)
<1>1. \A i \in DOMAIN bs : bs[i] \in ToSet(bs)
  BY DEF ToSet
<1>2. [i \in DOMAIN bs |-> c[bs[i]]] = [i \in DOMAIN bs |-> d[bs[i]]]
  BY <1>1 DEF Same
<1>3. QED
  BY <1>2 DEF Lines

----------------------------------------------------------------------------
(***************************************************************************)
(* No line is lost                                                         *)
(***************************************************************************)

(* A buffer with nothing to be written is empty.                           *)
Clean ==
  \A b \in Buffers : b \notin {current} \cup ToSet(vec) \cup ToSet(toWrite) => content[b] = <<>>

(* What the files hold are lines.                                          *)
Stored ==
  /\ file \in Log /\ main \in Log /\ unflushed \in Log
  /\ \A n \in DOMAIN rotated : rotated[n] \in Log

(* What is left of a vector after its first n.                             *)
LEMMA SuffixFact ==
  ASSUME NEW S, NEW s \in Seq(S), NEW n \in 0 .. Len(s)
  PROVE  /\ SubSeq(s, n + 1, Len(s)) \in Seq(S)
         /\ ToSet(SubSeq(s, n + 1, Len(s))) \subseteq ToSet(s)
         /\ n = 0 => SubSeq(s, n + 1, Len(s)) = s
         /\ n = Len(s) => SubSeq(s, n + 1, Len(s)) = <<>>
         /\ n < Len(s) => SubSeq(s, n + 1, Len(s))
                            = <<s[n + 1]>> \o SubSeq(s, (n + 1) + 1, Len(s))
<1>1. Len(s) \in Nat /\ DOMAIN s = 1 .. Len(s) /\ n \in Nat
  OBVIOUS
<1>2. SubSeq(s, n + 1, Len(s)) \in Seq(S)
  OBVIOUS
<1>3. ToSet(SubSeq(s, n + 1, Len(s))) \subseteq ToSet(s)
  <2>1. PICK t : t = SubSeq(s, n + 1, Len(s))
    OBVIOUS
  <2>2. \A i \in DOMAIN t : \E j \in DOMAIN s : t[i] = s[j]
    <3>1. DOMAIN t = 1 .. Len(s) - n
      BY <2>1
    <3>2. \A i \in 1 .. Len(s) - n : t[i] = s[i + n] /\ i + n \in DOMAIN s
      BY <2>1, <1>1
    <3>3. QED
      BY <3>1, <3>2
  <2>3. QED
    BY <2>1, <2>2 DEF ToSet
<1>4. n = 0 => SubSeq(s, n + 1, Len(s)) = s
  BY SubSeqFull
<1>5. n = Len(s) => SubSeq(s, n + 1, Len(s)) = <<>>
  BY <1>1, SubSeqEmpty
<1>6. ASSUME n < Len(s)
      PROVE  SubSeq(s, n + 1, Len(s)) = <<s[n + 1]>> \o SubSeq(s, (n + 1) + 1, Len(s))
  <2>1. n + 1 \in 1 .. Len(s) /\ Len(s) \in (n + 1) .. Len(s)
    BY <1>6, <1>1
  <2>2. QED
    BY <2>1, SubSeqRecursiveFirst
<1>7. QED
  BY <1>2, <1>3, <1>4, <1>5, <1>6

(* The lines are sequences of numbers.                                     *)
LEMMA StoredFact ==
  ASSUME TypeOK, file \in Log
  PROVE  /\ content \in [Buffers -> Log]
         /\ vec \in Vectors /\ toWrite \in Vectors
         /\ SubSeq(toWrite, written + 1, Len(toWrite)) \in Vectors
         /\ ToSet(SubSeq(toWrite, written + 1, Len(toWrite))) \subseteq ToSet(toWrite)
         /\ Pending \in Log /\ Lines(content, vec) \in Log /\ content[current] \in Log
         /\ AllLines \in Log
         /\ \A b \in Buffers : ToSet(content[b]) \subseteq 1 .. appended
<1>1. \A b \in Buffers : content[b] \in Log /\ ToSet(content[b]) \subseteq 1 .. appended
  <2>1. ASSUME NEW b \in Buffers PROVE content[b] \in Log /\ ToSet(content[b]) \subseteq 1 .. appended
    <3>1. content[b] \in Seq(1 .. appended) /\ 1 .. appended \subseteq Nat
      BY DEF TypeOK
    <3>2. QED
      BY <3>1, WiderFact, ElementFact DEF Log
  <2>2. QED
    BY <2>1
<1>2. content \in [Buffers -> Log]
  BY <1>1 DEF TypeOK
<1>3. vec \in Vectors /\ toWrite \in Vectors /\ current \in Buffers
  BY DEF TypeOK, Vectors
<1>4. /\ SubSeq(toWrite, written + 1, Len(toWrite)) \in Vectors
      /\ ToSet(SubSeq(toWrite, written + 1, Len(toWrite))) \subseteq ToSet(toWrite)
  BY SuffixFact DEF TypeOK, Vectors
<1>5. Pending \in Log /\ Lines(content, vec) \in Log /\ content[current] \in Log
  BY <1>1, <1>2, <1>3, <1>4, LinesFact DEF Pending
<1>6. AllLines \in Log
  BY <1>5, FourFact DEF AllLines
<1>7. QED
  BY <1>1, <1>2, <1>3, <1>4, <1>5, <1>6

(* What the property joins are these lines.                                *)
LEMMA AllLinesFact ==
  ASSUME TypeOK, file \in Log
  PROVE  file \o FlattenSeq([i \in DOMAIN Pipeline |-> content[Pipeline[i]]]) = AllLines
<1> PICK rest : rest = SubSeq(toWrite, written + 1, Len(toWrite))
  OBVIOUS
<1>1. /\ content \in [Buffers -> Log] /\ rest \in Vectors /\ vec \in Vectors
      /\ current \in Buffers
      /\ Lines(content, rest) \in Log /\ Lines(content, vec) \in Log
      /\ content[current] \in Log
  BY StoredFact DEF TypeOK, Pending
<1>2. Pipeline = (rest \o vec) \o <<current>> /\ rest \o vec \in Vectors
  BY <1>1, VectorJoins DEF Pipeline
<1>3. Lines(content, (rest \o vec) \o <<current>>) = Lines(content, rest \o vec) \o content[current]
  BY <1>1, <1>2, LinesFact
<1>4. Lines(content, rest \o vec) = Lines(content, rest) \o Lines(content, vec)
  BY <1>1, LinesOfBoth
<1>5. AllLines = Four(file, Lines(content, rest), Lines(content, vec), content[current])
  BY DEF AllLines, Pending
<1>6. file \o ((Lines(content, rest) \o Lines(content, vec)) \o content[current]) = AllLines
  <2>1. PICK p \in Log, v \in Log, c \in Log :
          p = Lines(content, rest) /\ v = Lines(content, vec) /\ c = content[current]
    BY <1>1
  <2>2. PICK f \in Log : f = file
    OBVIOUS
  <2>3. Four(f, p, v, c) = Cat(f, Cat(Cat(p, v), c))
    BY FourFact
  <2>4. QED
    BY <2>1, <2>2, <2>3, <1>5 DEF Cat
<1>7. FlattenSeq([i \in DOMAIN Pipeline |-> content[Pipeline[i]]]) = Lines(content, Pipeline)
  BY DEF Lines
<1>8. QED
  BY <1>2, <1>3, <1>4, <1>6, <1>7, Zenon

(* A line that is appended is the last one.                                *)
LEMMA AppendOrder ==
  ASSUME IInv, Stored, Clean, AppendLine
  PROVE  Clean' /\ AllLines' = AllLines \o <<appended + 1>>
<1> USE DEF shared, local
<1> PICK l : l = appended + 1
  OBVIOUS
<1>1. TypeOK /\ Separate /\ file \in Log
  BY DEF IInv, Stored
<1>2. UNCHANGED <<new1, new2, toWrite, written, file>> /\ (AppendFits(l) \/ AppendFull(l))
  BY DEF AppendLine
<1>3. PICK rest : rest = SubSeq(toWrite, written + 1, Len(toWrite))
  OBVIOUS
<1>4. /\ content \in [Buffers -> Log] /\ rest \in Vectors /\ vec \in Vectors
      /\ current \in Buffers
      /\ Lines(content, rest) \in Log /\ Lines(content, vec) \in Log
      /\ content[current] \in Log
      /\ ToSet(rest) \subseteq ToSet(toWrite)
  BY <1>1, <1>3, StoredFact DEF TypeOK, Pending
<1>5. <<l>> \in Log /\ \A s \in Log : Append(s, l) = s \o <<l>>
  <2>1. l \in Nat
    BY <1>1, LoggerAssumption DEF TypeOK
  <2>2. QED
    BY <2>1, SeqFact DEF Log
<1>6. /\ AllLines = Four(file, Lines(content, rest), Lines(content, vec), content[current])
      /\ AllLines' = Four(file, Lines(content', rest), Lines(content', vec'), content'[current'])
  BY <1>2, <1>3 DEF AllLines, Pending
<1>7. CASE AppendFits(l)
  <2>1. content' = [content EXCEPT ![current] = Append(@, l)] /\ current' = current /\ vec' = vec
    BY <1>7 DEF AppendFits
  <2>2. current \notin ToSet(rest) /\ current \notin ToSet(vec)
    BY <1>1, <1>4 DEF Separate
  <2>3. Same(content', content, rest) /\ Same(content', content, vec)
    BY <2>1, <2>2, <1>1 DEF TypeOK, Same
  <2>4. /\ Lines(content', rest) = Lines(content, rest)
        /\ Lines(content', vec') = Lines(content, vec)
    BY <2>1, <2>3, LinesSame
  <2>5. content'[current'] = content[current] \o <<l>>
    BY <2>1, <1>4, <1>5
  <2>6. AllLines' = AllLines \o <<l>>
    <3>1. PICK f \in Log, p \in Log, v \in Log, c \in Log, x \in Log :
            /\ f = file /\ p = Lines(content, rest) /\ v = Lines(content, vec)
            /\ c = content[current] /\ x = <<l>>
      BY <1>1, <1>4, <1>5
    <3>2. Four(f, p, v, Cat(c, x)) = Cat(Four(f, p, v, c), x)
      BY FiveFact
    <3>3. QED
      BY <3>1, <3>2, <2>4, <2>5, <1>6 DEF Cat
  <2>7. Clean'
    BY <2>1, <1>2, <1>4 DEF Clean
  <2>8. QED
    BY <2>6, <2>7
<1>8. CASE AppendFull(l)
  <2>1. /\ vec' = Append(vec, current)
        /\ content' = [content EXCEPT ![current'] = Append(@, l)]
        /\ \/ next # NoBuffer /\ current' = next
           \/ next = NoBuffer /\ current' \in Unused
    <3>1. MoreMemory => Unused # {}
      BY FS_EmptySet, FreshFact DEF MoreMemory
    <3>2. QED
      BY <3>1, <1>8, FreshFact DEF AppendFull
  <2>2. /\ vec' = vec \o <<current>> /\ ToSet(vec') = ToSet(vec) \cup {current}
    BY <2>1, <1>4, AppendFact, SeqFact DEF Vectors
  <2>3. PICK b \in Buffers :
          b = current' /\ b \notin {current} \cup ToSet(vec) \cup ToSet(toWrite)
    BY <2>1, <1>1 DEF TypeOK, Separate, Unused, Referenced
  <2>4. content[b] = <<>>
    BY <2>3 DEF Clean
  <2>5. Same(content', content, rest) /\ Same(content', content, vec')
    <3>1. b \notin ToSet(rest) /\ b \notin ToSet(vec')
      BY <2>2, <2>3, <1>4
    <3>2. \A a \in Buffers : a # b => content'[a] = content[a]
      BY <2>1, <2>3, <1>4
    <3>3. ToSet(rest) \subseteq Buffers /\ ToSet(vec') \subseteq Buffers
      BY <2>2, <1>1, <1>4, ElementFact DEF TypeOK, Vectors
    <3>4. QED
      BY <3>1, <3>2, <3>3 DEF Same
  <2>6. /\ Lines(content', rest) = Lines(content, rest)
        /\ Lines(content', vec') = Lines(content, vec')
    BY <2>5, LinesSame
  <2>7. Lines(content, vec') = Lines(content, vec) \o content[current]
    BY <2>2, <1>4, LinesFact
  <2>8. content'[current'] = <<l>>
    <3>1. content'[b] = Append(<<>>, l)
      BY <2>1, <2>3, <2>4, <1>4
    <3>2. QED
      BY <3>1, <2>3
  <2>9. AllLines' = AllLines \o <<l>>
    <3>1. PICK f \in Log, p \in Log, v \in Log, c \in Log, x \in Log :
            /\ f = file /\ p = Lines(content, rest) /\ v = Lines(content, vec)
            /\ c = content[current] /\ x = <<l>>
      BY <1>1, <1>4, <1>5
    <3>2. Four(f, p, Cat(v, c), x) = Cat(Four(f, p, v, c), x)
      BY FiveFact
    <3>3. QED
      BY <3>1, <3>2, <2>6, <2>7, <2>8, <1>6 DEF Cat
  <2>10. Clean'
    BY <2>1, <2>2, <2>3, <1>2, <1>4 DEF Clean
  <2>11. QED
    BY <2>9, <2>10
<1>9. QED
  BY <1>2, <1>7, <1>8

(* The steps of the thread that neither take lines away nor put any out.   *)
LEMMA StillOrder ==
  ASSUME Clean, Start \/ Stop \/ LoopHead \/ Wait \/ Begin
  PROVE  Clean' /\ AllLines' = AllLines /\ file' = file
<1>1. UNCHANGED <<content, current, vec, toWrite, written, file>>
  BY DEF Start, Stop, LoopHead, Wait, Begin, shared, local
<1>2. QED
  BY <1>1 DEF Clean, AllLines, Pending

(* The exchange moves the lines from the appenders to the thread.          *)
LEMMA SwapOrder ==
  ASSUME IInv, Stored, Clean, Swap
  PROVE  Clean' /\ AllLines' = AllLines /\ file' = file
<1>1. TypeOK /\ Separate /\ Stocked /\ file \in Log
  BY DEF IInv, Stored
<1>2. /\ toWrite' = Append(vec, current) /\ vec' = <<>>
      /\ current' = new1 /\ pc \in {"lock", "waiting"}
      /\ UNCHANGED <<content, written, file>>
  BY DEF Swap
<1>3. toWrite = <<>> /\ written = 0 /\ new1 \in Buffers
  BY <1>1, <1>2 DEF TypeOK, Stocked
<1>4. /\ content \in [Buffers -> Log] /\ vec \in Vectors /\ current \in Buffers
      /\ Lines(content, vec) \in Log /\ content[current] \in Log
  BY <1>1, StoredFact DEF TypeOK
<1>5. /\ toWrite' \in Seq(Buffers) /\ toWrite' = vec \o <<current>>
      /\ ToSet(toWrite') = ToSet(vec) \cup {current}
  BY <1>2, <1>4, AppendFact, SeqFact DEF Vectors
<1>6. content[new1] = <<>>
  <2>1. new1 \notin {current} \cup ToSet(vec) \cup ToSet(toWrite)
    BY <1>1, <1>3 DEF Separate
  <2>2. QED
    BY <2>1, <1>3 DEF Clean
<1>7. Pending = <<>>
  <2>1. SubSeq(toWrite, written + 1, Len(toWrite)) = <<>>
    BY <1>3
  <2>2. Lines(content, <<>>) = <<>>
    BY <1>4, LinesFact
  <2>3. QED
    BY <2>1, <2>2 DEF Pending
<1>8. Pending' = Cat(Lines(content, vec), content[current])
  <2>1. SubSeq(toWrite', written' + 1, Len(toWrite')) = toWrite'
    BY <1>2, <1>3, <1>5, SubSeqFull
  <2>2. Lines(content, vec \o <<current>>) = Lines(content, vec) \o content[current]
    BY <1>4, LinesFact
  <2>3. QED
    BY <2>1, <2>2, <1>2, <1>5 DEF Pending, Cat
<1>9. Lines(content', vec') = <<>> /\ content'[current'] = <<>>
  BY <1>2, <1>4, <1>6, LinesFact
<1>10. AllLines' = AllLines
  <2>1. PICK f \in Log, v \in Log, c \in Log :
          f = file /\ v = Lines(content, vec) /\ c = content[current]
    BY <1>1, <1>4
  <2>2. Four(f, <<>>, v, c) = Four(f, Cat(v, c), <<>>, <<>>)
    BY FourFact
  <2>3. QED
    BY <2>1, <2>2, <1>2, <1>7, <1>8, <1>9 DEF AllLines
<1>11. Clean'
  BY <1>2, <1>3, <1>5, EmptyFact DEF Clean
<1>12. QED
  BY <1>2, <1>10, <1>11

(* The next buffer goes to the file.                                       *)
LEMMA WriteOrder ==
  ASSUME IInv, Stored, Clean, WriteBuffer
  PROVE  /\ Clean' /\ AllLines' = AllLines
         /\ toWrite[written + 1] \in Buffers
         /\ content[toWrite[written + 1]] \in Log
         /\ file' = file \o content[toWrite[written + 1]] /\ file' \in Log
<1> USE DEF shared
<1>1. /\ TypeOK /\ file \in Log /\ written < Len(toWrite)
      /\ file' = file \o content[toWrite[written + 1]] /\ written' = written + 1
      /\ UNCHANGED <<content, current, vec, toWrite>>
  BY DEF IInv, Stored, WriteBuffer
<1>2. PICK b : b = toWrite[written + 1]
  OBVIOUS
<1>3. PICK rest : rest = SubSeq(toWrite, written' + 1, Len(toWrite))
  OBVIOUS
<1>4. /\ toWrite \in Seq(Buffers) /\ written \in 0 .. Len(toWrite)
      /\ written + 1 \in 0 .. Len(toWrite) /\ b \in Buffers
  BY <1>1, <1>2 DEF TypeOK
<1>5. /\ content \in [Buffers -> Log] /\ rest \in Vectors /\ <<b>> \in Vectors
      /\ Lines(content, vec) \in Log /\ content[current] \in Log
      /\ content[b] \in Log
  <2>1. rest \in Vectors
    BY <1>1, <1>3, <1>4, SuffixFact DEF Vectors
  <2>2. <<b>> \in Vectors
    BY <1>4, SeqFact DEF Vectors
  <2>3. QED
    BY <2>1, <2>2, <1>1, <1>4, StoredFact
<1>6. SubSeq(toWrite, written + 1, Len(toWrite)) = <<b>> \o rest
  BY <1>1, <1>2, <1>3, <1>4, SuffixFact
<1>7. Lines(content, <<b>>) = content[b]
  <2>1. <<>> \in Vectors /\ <<>> \o <<b>> = <<b>>
    BY <1>5, VectorJoins
  <2>2. Lines(content, <<>>) = <<>> /\ Lines(content, <<>> \o <<b>>) = Lines(content, <<>>) \o content[b]
    BY <2>1, <1>4, <1>5, LinesFact
  <2>3. <<>> \o content[b] = content[b]
    BY <1>5, LogJoins
  <2>4. QED
    BY <2>1, <2>2, <2>3
<1>8. Pending = Cat(content[b], Lines(content, rest)) /\ Pending' = Lines(content, rest)
  <2>1. Lines(content, <<b>> \o rest) = Lines(content, <<b>>) \o Lines(content, rest)
    BY <1>5, LinesOfBoth
  <2>2. QED
    BY <2>1, <1>1, <1>3, <1>6, <1>7 DEF Pending, Cat
<1>9. Lines(content, rest) \in Log
  BY <1>4, <1>5, LinesFact
<1>10. AllLines' = AllLines
  <2>1. PICK f \in Log, p \in Log, v \in Log, c \in Log, x \in Log :
          /\ f = file /\ p = content[b] /\ v = Lines(content, rest)
          /\ c = Lines(content, vec) /\ x = content[current]
    BY <1>1, <1>5, <1>9
  <2>2. Four(f, Cat(p, v), c, x) = Four(Cat(f, p), v, c, x)
    BY FiveFact
  <2>3. QED
    BY <2>1, <2>2, <1>1, <1>2, <1>8 DEF AllLines, Cat
<1>11. Clean'
  BY <1>1 DEF Clean
<1>12. file' \in Log
  BY <1>1, <1>2, <1>5, LogJoins
<1>13. QED
  BY <1>1, <1>2, <1>4, <1>5, <1>10, <1>11, <1>12

(* What is written is cleared.                                             *)
LEMMA RecycleOrder ==
  ASSUME IInv, Stored, Clean, Recycle
  PROVE  Clean' /\ AllLines' = AllLines /\ file' = file
<1> USE DEF shared
<1>1. /\ TypeOK /\ Separate /\ file \in Log /\ written = Len(toWrite)
      /\ toWrite' = <<>> /\ written' = 0 /\ content' = Emptied(ToSet(toWrite))
      /\ UNCHANGED <<current, vec, file>>
  BY DEF IInv, Stored, Recycle
<1>2. content \in [Buffers -> Log] /\ vec \in Vectors /\ current \in Buffers
  BY <1>1, StoredFact DEF TypeOK
<1>3. content' \in [Buffers -> Log]
  BY <1>1, <1>2, LogJoins DEF Emptied
<1>4. Pending = <<>> /\ Pending' = <<>>
  <2>1. SubSeq(toWrite, written + 1, Len(toWrite)) = <<>>
    <3>1. toWrite \in Seq(Buffers) /\ written \in 0 .. Len(toWrite)
      BY <1>1 DEF TypeOK
    <3>2. QED
      BY <3>1, <1>1, SuffixFact
  <2>2. SubSeq(toWrite', written' + 1, Len(toWrite')) = <<>>
    BY <1>1
  <2>3. Lines(content, <<>>) = <<>> /\ Lines(content', <<>>) = <<>>
    BY <1>2, <1>3, LinesFact
  <2>4. QED
    BY <2>1, <2>2, <2>3 DEF Pending
<1>5. \A b \in Buffers : b \notin ToSet(toWrite) => content'[b] = content[b]
  BY <1>1 DEF Emptied
<1>6. Same(content', content, vec) /\ content'[current] = content[current]
  <2>1. ToSet(vec) \cap ToSet(toWrite) = {} /\ current \notin ToSet(toWrite)
    BY <1>1 DEF Separate
  <2>2. ToSet(vec) \subseteq Buffers
    BY <1>1, ElementFact DEF TypeOK
  <2>3. QED
    BY <2>1, <2>2, <1>2, <1>5 DEF Same
<1>7. AllLines' = AllLines
  BY <1>1, <1>4, <1>6, LinesSame DEF AllLines
<1>8. Clean'
  <2>1. \A b \in ToSet(toWrite) : b \in Buffers => content'[b] = <<>>
    BY <1>1 DEF Emptied
  <2>2. QED
    BY <2>1, <1>1, <1>5 DEF Clean
<1>9. QED
  BY <1>1, <1>7, <1>8

(* Buffers beyond the limit are taken out of the middle.                   *)
LEMMA DropOrder ==
  ASSUME IInv, Stored, Clean, InOrder, Drop
  PROVE  Clean' /\ InOrder' /\ file' = file
<1> USE DEF shared
<1>1. /\ TypeOK /\ Separate /\ Stocked /\ file \in Log /\ pc = "swapped"
      /\ UNCHANGED <<current, vec, written, file, appended>>
  BY DEF IInv, Stored, Drop
<1>2. CASE Len(toWrite) > MaxPending
  <2>1. PICK two, tail, erased :
          /\ two = SubSeq(toWrite, 1, 2)
          /\ tail = SubSeq(toWrite, 2 + 1, Len(toWrite))
          /\ erased = {toWrite[i] : i \in 3 .. Len(toWrite)}
    OBVIOUS
  <2>2. /\ dropped' = dropped \cup LinesOf(erased)
        /\ content' = Emptied(erased)
        /\ toWrite' = two
    BY <2>1, <1>2 DEF Drop
  <2>3. /\ toWrite \in Seq(Buffers) /\ Len(toWrite) \in Nat
        /\ 2 \in 0 .. Len(toWrite) /\ written = 0
    BY <1>1, <1>2, LoggerAssumption DEF TypeOK, Stocked
  <2>4. /\ two \in Vectors /\ tail \in Vectors /\ Len(two) = 2
        /\ toWrite = two \o tail
        /\ \A i \in 1 .. 2 : two[i] = toWrite[i]
    <3>1. two \in Seq(Buffers) /\ Len(two) = 2 /\ \A i \in 1 .. 2 : two[i] = toWrite[i]
      BY <2>1, <2>3, PrefixFact
    <3>2. tail \in Seq(Buffers)
      BY <2>1, <2>3, SuffixFact
    <3>3. two \o tail = SubSeq(toWrite, 1, Len(toWrite))
      <4>1. 1 \in 1 .. Len(toWrite) + 1 /\ 2 \in 1 - 1 .. Len(toWrite) /\ Len(toWrite) \in 2 .. Len(toWrite)
        BY <2>3
      <4>2. QED
        BY <4>1, <2>1, <2>3, ConcatAdjacentSubSeq
    <3>4. SubSeq(toWrite, 1, Len(toWrite)) = toWrite
      BY <2>3, SubSeqFull
    <3>5. QED
      BY <3>1, <3>2, <3>3, <3>4 DEF Vectors
  <2>5. ToSet(tail) = erased
    <3>1. /\ DOMAIN tail = 1 .. Len(toWrite) - 2
          /\ \A i \in 1 .. Len(toWrite) - 2 : tail[i] = toWrite[i + 2]
      BY <2>1, <2>3
    <3>2. \A i \in 1 .. Len(toWrite) - 2 : i + 2 \in 3 .. Len(toWrite)
      BY <2>3
    <3>3. \A i \in 3 .. Len(toWrite) : i - 2 \in 1 .. Len(toWrite) - 2 /\ (i - 2) + 2 = i
      BY <2>3
    <3>4. \A i \in 3 .. Len(toWrite) : toWrite[i] = tail[i - 2]
      BY <3>1, <3>3
    <3>5. ToSet(tail) = {tail[i] : i \in 1 .. Len(toWrite) - 2}
      BY <3>1 DEF ToSet
    <3>6. \A y \in ToSet(tail) : y \in erased
      BY <3>1, <3>2, <3>5, <2>1
    <3>7. \A y \in erased : y \in ToSet(tail)
      BY <3>3, <3>4, <3>5, <2>1
    <3>8. QED
      BY <3>6, <3>7, Zenon
  <2>6. /\ content \in [Buffers -> Log] /\ vec \in Vectors /\ current \in Buffers
        /\ Lines(content, vec) \in Log /\ content[current] \in Log
        /\ Lines(content, two) \in Log /\ Lines(content, tail) \in Log
        /\ erased \subseteq Buffers
    <3>1. content \in [Buffers -> Log] /\ vec \in Vectors /\ current \in Buffers
          /\ Lines(content, vec) \in Log /\ content[current] \in Log
      BY <1>1, StoredFact DEF TypeOK
    <3>2. Lines(content, two) \in Log /\ Lines(content, tail) \in Log
      BY <3>1, <2>4, LinesFact
    <3>3. erased \subseteq Buffers
      BY <2>4, <2>5, ElementFact DEF Vectors
    <3>4. QED
      BY <3>1, <3>2, <3>3
  <2>7. /\ ToSet(two) \cap erased = {} /\ ToSet(two) \subseteq ToSet(toWrite)
        /\ ToSet(toWrite) = ToSet(two) \cup erased
    <3>1. ToSet(two) = {toWrite[i] : i \in 1 .. 2}
      <4>1. DOMAIN two = 1 .. 2
        BY <2>4 DEF Vectors
      <4>2. QED
        BY <4>1, <2>4 DEF ToSet
    <3>2. ToSet(toWrite) = {toWrite[i] : i \in 1 .. Len(toWrite)}
      BY <2>3 DEF ToSet
    <3>3. \A i \in 1 .. 2 : i \in 1 .. Len(toWrite) /\ i \notin 3 .. Len(toWrite)
      BY <2>3
    <3>4. \A i \in 1 .. Len(toWrite) : i \in 1 .. 2 \/ i \in 3 .. Len(toWrite)
      BY <2>3
    <3>5. \A i \in 3 .. Len(toWrite) : i \in 1 .. Len(toWrite)
      BY <2>3
    <3>6. \A i, j \in 1 .. Len(toWrite) : toWrite[i] = toWrite[j] => i = j
      BY <1>1, <2>3 DEF Separate, IsInjective
    <3>7. ToSet(two) \cap erased = {}
      BY <3>1, <3>3, <3>5, <3>6, <2>1
    <3>8. ToSet(toWrite) = ToSet(two) \cup erased
      BY <3>1, <3>2, <3>3, <3>4, <3>5, <2>1
    <3>9. QED
      BY <3>7, <3>8
  <2>8. \A b \in Buffers : content'[b] = IF b \in erased THEN <<>> ELSE content[b]
    BY <2>2 DEF Emptied
  <2>9. /\ Same(content', content, two) /\ Same(content', content, vec)
        /\ content'[current] = content[current]
    <3>1. ToSet(vec) \cap erased = {} /\ current \notin erased
      BY <1>1, <2>7 DEF Separate
    <3>2. ToSet(vec) \subseteq Buffers /\ ToSet(two) \subseteq Buffers
      BY <2>4, <2>6, ElementFact DEF Vectors
    <3>3. QED
      BY <3>1, <3>2, <2>6, <2>7, <2>8 DEF Same
  <2>10. PICK f \in Log, p \in Log, x \in Log, v \in Log, c \in Log :
           /\ f = file /\ p = Lines(content, two) /\ x = Lines(content, tail)
           /\ v = Lines(content, vec) /\ c = content[current]
    BY <1>1, <2>6
  <2>11. AllLines = Four(f, Cat(p, x), v, c) /\ AllLines' = Four(f, p, v, c)
    <3>1. SubSeq(toWrite, written + 1, Len(toWrite)) = two \o tail
      BY <2>3, <2>4, SubSeqFull
    <3>2. Lines(content, two \o tail) = Lines(content, two) \o Lines(content, tail)
      BY <2>4, <2>6, LinesOfBoth
    <3>3. SubSeq(toWrite', written' + 1, Len(toWrite')) = two
      BY <1>1, <2>2, <2>3, <2>4, SubSeqFull DEF Vectors
    <3>4. Pending = Cat(p, x)
      BY <3>1, <3>2, <2>10 DEF Pending, Cat
    <3>5. Pending' = p
      BY <3>3, <2>9, <2>10, LinesSame DEF Pending
    <3>6. QED
      BY <3>4, <3>5, <1>1, <2>9, <2>10, LinesSame DEF AllLines
  <2>12. PICK s \in Log, u \in Log : s = Cat(f, p) /\ u = Cat(v, c)
    BY CatFact
  <2>13. AllLines = Cat(Cat(s, x), u) /\ AllLines' = Cat(s, u)
    <3>1. PICK px \in Log : px = Cat(p, x)
      BY CatFact
    <3>2. Four(f, px, v, c) = Cat(Cat(f, px), Cat(v, c)) /\ Four(f, p, v, c) = Cat(Cat(f, p), Cat(v, c))
      BY FourFact
    <3>3. Cat(f, px) = Cat(s, x)
      BY <3>1, <2>12, CatFact
    <3>4. QED
      BY <3>1, <3>2, <3>3, <2>11, <2>12
  <2>14. Increasing(AllLines') /\ ToSet(AllLines') = ToSet(AllLines) \ ToSet(x)
    BY <2>13, CutFact DEF Cat, InOrder
  <2>15. ToSet(x) = LinesOf(erased)
    <3>1. ToSet(x) = UNION {ToSet(content[b]) : b \in ToSet(tail)}
      BY <2>4, <2>6, <2>10, LinesSet
    <3>2. QED
      BY <3>1, <2>5 DEF LinesOf
  <2>16. InOrder'
    BY <2>2, <2>14, <2>15, <1>1 DEF InOrder
  <2>17. Clean'
    BY <2>2, <2>7, <2>8, <1>1 DEF Clean
  <2>18. QED
    BY <2>16, <2>17, <1>1
<1>3. CASE ~(Len(toWrite) > MaxPending)
  <2>1. UNCHANGED <<content, dropped, toWrite>>
    BY <1>3 DEF Drop
  <2>2. QED
    BY <2>1, <1>1 DEF Clean, InOrder, AllLines, Pending
<1>4. QED
  BY <1>2, <1>3

----------------------------------------------------------------------------
(***************************************************************************)
(* The files hold the log                                                  *)
(***************************************************************************)

(* The renamed files, in the order of their numbers.                       *)
Renamed == [n \in 1 .. Cardinality(DOMAIN rotated) |-> rotated[n - 1]]

LEMMA LogFlatten ==
  ASSUME NEW ss \in Seq(Log), NEW x \in Log
  PROVE  /\ FlattenSeq(ss) \in Log
         /\ FlattenSeq(Append(ss, x)) = FlattenSeq(ss) \o x
<1>1. PICK T : T = Nat
  OBVIOUS
<1>2. ss \in Seq(Seq(T)) /\ x \in Seq(T)
  BY <1>1 DEF Log
<1>3. FlattenSeq(ss) \in Seq(T) /\ FlattenSeq(Append(ss, x)) = FlattenSeq(ss) \o x
  BY <1>2, FlattenFact
<1>4. QED
  BY <1>1, <1>3 DEF Log

(* With the numbers they have, they are a sequence of logs.                *)
LEMMA RenamedFact ==
  ASSUME Numbered, Stored
  PROVE  /\ Renamed \in Seq(Log) /\ OnDisk = FlattenSeq(Renamed) \o main
         /\ FlattenSeq(Renamed) \in Log /\ OnDisk \in Log
         /\ \E k \in Nat : /\ DOMAIN rotated = 0 .. k - 1 /\ Len(Renamed) = k
                           /\ Renamed = [n \in 1 .. k |-> rotated[n - 1]]
                           /\ pc \notin {"off", "begin"} => splits = k
<1>1. PICK k \in Nat : /\ DOMAIN rotated = 0 .. k - 1
                       /\ pc \notin {"off", "begin"} => splits = k
  BY DEF Numbered
<1>2. Cardinality(0 .. k - 1) = k
  BY FS_Interval
<1>3. Renamed = [n \in 1 .. k |-> rotated[n - 1]]
  BY <1>1, <1>2 DEF Renamed
<1>4. \A n \in 1 .. k : rotated[n - 1] \in Log
  <2>1. \A n \in 1 .. k : n - 1 \in 0 .. k - 1
    OBVIOUS
  <2>2. QED
    BY <2>1, <1>1 DEF Stored
<1>5. Renamed \in Seq(Log) /\ Len(Renamed) = k
  BY <1>3, <1>4, SeqFact
<1>6. FlattenSeq(Renamed) \in Log /\ main \in Log
  BY <1>5, LogFlatten DEF Stored
<1>7. OnDisk = FlattenSeq(Renamed) \o main
  BY DEF OnDisk, Renamed
<1>8. OnDisk \in Log
  BY <1>6, <1>7, LogJoins
<1>9. QED
  BY <1>1, <1>3, <1>5, <1>6, <1>7, <1>8

(* LogFile::Append adds to what the files and the FILE's buffer hold.      *)
LEMMA AppendDisk ==
  ASSUME Numbered, Stored, pc = "write", NEW lines \in Log, LogAppend(lines)
  PROVE  /\ main' \in Log /\ unflushed' \in Log
         /\ \A n \in DOMAIN rotated' : rotated'[n] \in Log
         /\ OnDisk' \o unflushed' = (OnDisk \o unflushed) \o lines
<1>1. /\ Renamed \in Seq(Log) /\ OnDisk = FlattenSeq(Renamed) \o main
      /\ FlattenSeq(Renamed) \in Log /\ main \in Log /\ unflushed \in Log
  BY RenamedFact DEF Stored
<1>2. PICK k \in Nat : /\ DOMAIN rotated = 0 .. k - 1 /\ Len(Renamed) = k
                       /\ Renamed = [n \in 1 .. k |-> rotated[n - 1]]
                       /\ pc \notin {"off", "begin"} => splits = k
  BY RenamedFact
<1>3. PICK r \in Log, m \in Log, u \in Log, l \in Log :
        r = FlattenSeq(Renamed) /\ m = main /\ u = unflushed /\ l = lines
  BY <1>1
<1>4. OnDisk' = FlattenSeq(Renamed') \o main'
  BY DEF OnDisk, Renamed
<1>5. /\ Cat(m, u) \in Log /\ Cat(Cat(m, u), l) \in Log /\ Cat(u, l) \in Log
      /\ Cat(Cat(r, Cat(Cat(m, u), l)), <<>>) = Cat(Cat(Cat(r, m), u), l)
      /\ Cat(Cat(Cat(r, Cat(Cat(m, u), l)), <<>>), <<>>) = Cat(Cat(Cat(r, m), u), l)
      /\ Cat(Cat(r, m), Cat(u, l)) = Cat(Cat(Cat(r, m), u), l)
  <2>1. PICK rm \in Log, mu \in Log, mul \in Log :
          rm = Cat(r, m) /\ mu = Cat(m, u) /\ mul = Cat(mu, l)
    BY CatFact
  <2>2. Cat(rm, Cat(u, l)) = Cat(Cat(rm, u), l) /\ Cat(rm, u) = Cat(r, mu)
    BY <2>1, CatFact
  <2>3. Cat(Cat(r, mu), l) = Cat(r, mul) /\ Cat(r, mul) \in Log
    BY <2>1, CatFact
  <2>4. Cat(Cat(r, mul), <<>>) = Cat(r, mul)
    BY <2>3, CatFact
  <2>5. Cat(u, l) \in Log
    BY CatFact
  <2>6. QED
    BY <2>1, <2>2, <2>3, <2>4, <2>5
<1>6. <<>> \in Log
  BY LogJoins
<1>7. CASE Write(lines)
  <2>1. rotated' = rotated /\ Renamed' = Renamed
    BY <1>7 DEF Write, Renamed
  <2>2. CASE count + 1 >= FlushEvery
    <3>1. main' = Cat(Cat(m, u), l) /\ unflushed' = <<>>
      BY <2>2, <1>3, <1>7 DEF Write, Cat
    <3>2. QED
      BY <3>1, <2>1, <1>1, <1>3, <1>4, <1>5, <1>6 DEF Cat, Stored
  <2>3. CASE ~(count + 1 >= FlushEvery)
    <3>1. main' = m /\ unflushed' = Cat(u, l)
      BY <2>3, <1>3, <1>7 DEF Write, Cat
    <3>2. QED
      BY <3>1, <2>1, <1>1, <1>3, <1>4, <1>5, <1>6 DEF Cat, Stored
  <2>4. QED
    BY <2>2, <2>3
<1>8. CASE Rotate(lines)
  <2>1. /\ rotated' = [n \in 0 .. k |-> IF n = k THEN Cat(Cat(m, u), l) ELSE rotated[n]]
        /\ main' = <<>> /\ unflushed' = <<>>
    <3>1. splits = k /\ DOMAIN rotated \cup {splits} = 0 .. k
      BY <1>2
    <3>2. QED
      BY <3>1, <1>3, <1>8 DEF Rotate, Cat
  <2>2. \A n \in DOMAIN rotated' : rotated'[n] \in Log
    <3>1. \A n \in 0 .. k : n # k => n \in DOMAIN rotated
      BY <1>2
    <3>2. QED
      BY <3>1, <2>1, <1>5 DEF Stored
  <2>3. Renamed' = Append(Renamed, Cat(Cat(m, u), l))
    <3>1. DOMAIN rotated' = 0 .. k /\ Cardinality(0 .. (k + 1) - 1) = k + 1 /\ (k + 1) - 1 = k
      BY <2>1, FS_Interval
    <3>2. Renamed' = [n \in 1 .. k + 1 |-> rotated'[n - 1]]
      BY <3>1 DEF Renamed
    <3>3. PICK w \in Log : w = Cat(Cat(m, u), l)
      BY <1>5
    <3>4. PICK a : a = Append(Renamed, w)
      OBVIOUS
    <3>5. /\ a \in Seq(Log) /\ Len(a) = k + 1 /\ a[k + 1] = w
          /\ \A n \in 1 .. k : a[n] = Renamed[n]
      BY <3>4, <1>1, <1>2
    <3>6. a = [n \in 1 .. k + 1 |-> a[n]]
      BY <3>5
    <3>7. \A n \in 1 .. k + 1 : a[n] = rotated'[n - 1]
      <4>1. (k + 1) - 1 = k /\ rotated'[k] = w
        BY <2>1, <3>3
      <4>2. \A n \in 1 .. k : n - 1 \in 0 .. k /\ n - 1 # k /\ Renamed[n] = rotated[n - 1]
        BY <1>2
      <4>3. \A n \in 1 .. k : rotated'[n - 1] = rotated[n - 1]
        BY <4>2, <2>1
      <4>4. \A n \in 1 .. k + 1 : n = k + 1 \/ n \in 1 .. k
        OBVIOUS
      <4>5. QED
        BY <4>1, <4>2, <4>3, <4>4, <3>5
    <3>8. QED
      BY <3>2, <3>3, <3>4, <3>6, <3>7
  <2>4. FlattenSeq(Renamed') = Cat(r, Cat(Cat(m, u), l))
    BY <2>3, <1>1, <1>3, <1>5, LogFlatten DEF Cat
  <2>5. QED
    BY <2>1, <2>2, <2>4, <1>1, <1>3, <1>4, <1>5, <1>6 DEF Cat
<1>9. QED
  BY <1>7, <1>8 DEF LogAppend

(* A flush, or the end of the process, leaves a part of the buffer in the  *)
(* file; what follows is what is lost.                                     *)
LEMMA FlushDisk ==
  ASSUME Numbered, Stored
  PROVE  /\ Flush => /\ main' \in Log /\ unflushed' = <<>> /\ rotated' = rotated
                     /\ OnDisk' \o unflushed' = OnDisk \o unflushed
         /\ Die => /\ main' \in Log /\ unflushed' = <<>> /\ rotated' = rotated
                   /\ OnDisk' \in Log
                   /\ \E lost \in Log : OnDisk \o unflushed = OnDisk' \o lost
<1>1. /\ OnDisk = FlattenSeq(Renamed) \o main
      /\ FlattenSeq(Renamed) \in Log /\ main \in Log /\ unflushed \in Log
  BY RenamedFact DEF Stored
<1>2. PICK r \in Log, m \in Log, u \in Log :
        r = FlattenSeq(Renamed) /\ m = main /\ u = unflushed
  BY <1>1
<1>3. OnDisk' = FlattenSeq(Renamed') \o main'
  BY DEF OnDisk, Renamed
<1>4. ASSUME Flush
      PROVE  /\ main' \in Log /\ unflushed' = <<>> /\ rotated' = rotated
             /\ OnDisk' \o unflushed' = OnDisk \o unflushed
  <2>1. main' = Cat(m, u) /\ unflushed' = <<>> /\ rotated' = rotated /\ Renamed' = Renamed
    BY <1>2, <1>4 DEF Flush, Cat, Renamed
  <2>2. Cat(m, u) \in Log /\ Cat(Cat(r, Cat(m, u)), <<>>) = Cat(Cat(r, m), u)
    <3>1. PICK mu \in Log : mu = Cat(m, u)
      BY CatFact
    <3>2. Cat(r, mu) \in Log /\ Cat(r, mu) = Cat(Cat(r, m), u)
      BY <3>1, CatFact
    <3>3. QED
      BY <3>1, <3>2, CatFact
  <2>3. QED
    BY <2>1, <2>2, <1>1, <1>2, <1>3 DEF Cat
<1>5. ASSUME Die
      PROVE  /\ main' \in Log /\ unflushed' = <<>> /\ rotated' = rotated
             /\ OnDisk' \in Log
             /\ \E lost \in Log : OnDisk \o unflushed = OnDisk' \o lost
  <2>1. PICK n \in 0 .. Len(unflushed) : main' = main \o SubSeq(unflushed, 1, n)
    BY <1>5 DEF Die
  <2>2. unflushed' = <<>> /\ rotated' = rotated /\ Renamed' = Renamed
    BY <1>5 DEF Die, Renamed
  <2>3. PICK a \in Log, b \in Log : a = SubSeq(unflushed, 1, n) /\ u = Cat(a, b)
    <3>1. PICK T : T = Nat
      OBVIOUS
    <3>2. unflushed \in Seq(T) /\ Log = Seq(T)
      BY <3>1, <1>1 DEF Log
    <3>3. SubSeq(unflushed, 1, n) \in Seq(T)
      BY <3>2, PrefixFact
    <3>4. SubSeq(unflushed, n + 1, Len(unflushed)) \in Seq(T)
      BY <3>2, SuffixFact
    <3>5. SubSeq(unflushed, 1, n) \o SubSeq(unflushed, n + 1, Len(unflushed))
            = SubSeq(unflushed, 1, Len(unflushed))
      <4>1. 1 \in 1 .. Len(unflushed) + 1 /\ n \in 1 - 1 .. Len(unflushed)
            /\ Len(unflushed) \in n .. Len(unflushed)
        BY <3>2
      <4>2. QED
        BY <4>1, <3>2, ConcatAdjacentSubSeq
    <3>6. SubSeq(unflushed, 1, Len(unflushed)) = unflushed
      BY <3>2, SubSeqFull
    <3>7. QED
      BY <3>2, <3>3, <3>4, <3>5, <3>6, <1>2 DEF Cat
  <2>4. /\ Cat(m, a) \in Log /\ Cat(r, Cat(m, a)) \in Log
        /\ Cat(Cat(r, m), Cat(a, b)) = Cat(Cat(r, Cat(m, a)), b)
    <3>1. PICK rm \in Log, ma \in Log : rm = Cat(r, m) /\ ma = Cat(m, a)
      BY CatFact
    <3>2. Cat(rm, Cat(a, b)) = Cat(Cat(rm, a), b) /\ Cat(rm, a) = Cat(r, ma) /\ Cat(r, ma) \in Log
      BY <3>1, CatFact
    <3>3. QED
      BY <3>1, <3>2
  <2>5. main' = Cat(m, a) /\ OnDisk' = Cat(r, Cat(m, a)) /\ OnDisk = Cat(r, m)
    BY <2>1, <2>2, <2>3, <1>1, <1>2, <1>3 DEF Cat
  <2>6. OnDisk \o unflushed = OnDisk' \o b
    BY <2>3, <2>4, <2>5, <1>2 DEF Cat
  <2>7. QED
    BY <2>2, <2>4, <2>5, <2>6
<1>6. QED
  BY <1>4, <1>5

----------------------------------------------------------------------------
(***************************************************************************)
(* The whole way of a line                                                 *)
(***************************************************************************)
LogInv == IInv /\ Numbered /\ Stored /\ Clean /\ InOrder /\ FilesHoldTheLog

(* The constructors.                                                       *)
LEMMA LogInitFact == LoggingInit => LogInv
<1> SUFFICES ASSUME LoggingInit PROVE LogInv
  OBVIOUS
<1>1. IInv /\ Numbered
  BY InitFact DEF LoggingInit, LogFileInit, Init, Numbered
<1>2. /\ content = [b \in Buffers |-> <<>>] /\ vec = <<>> /\ toWrite = <<>> /\ written = 0
      /\ file = <<>> /\ dropped = {} /\ appended = 0
      /\ main = <<>> /\ unflushed = <<>> /\ rotated = [n \in {} |-> <<>>]
  BY DEF LoggingInit, Init, LogFileInit
<1>3. Stored /\ Clean
  BY <1>2, LogJoins DEF Stored, Clean
<1>4. current \in Buffers
  BY <1>1 DEF IInv, TypeOK
<1>5. AllLines = <<>>
  <2>1. content \in [Buffers -> Log] /\ <<>> \in Vectors
    BY <1>2, LogJoins, VectorJoins
  <2>2. Lines(content, <<>>) = <<>>
    BY <2>1, <1>4, LinesFact
  <2>3. SubSeq(toWrite, written + 1, Len(toWrite)) = <<>>
    BY <1>2
  <2>4. ((<<>> \o <<>>) \o <<>>) \o <<>> = <<>>
    OBVIOUS
  <2>5. QED
    BY <2>2, <2>3, <2>4, <1>2, <1>4 DEF AllLines, Four, Pending
<1>6. InOrder
  BY <1>2, <1>5, EmptyFact DEF InOrder, Increasing
<1>7. FilesHoldTheLog
  <2>1. Renamed = <<>>
    <3>1. DOMAIN rotated = {}
      BY <1>2
    <3>2. Cardinality(DOMAIN rotated) = 0
      BY <3>1, FS_EmptySet
    <3>3. QED
      BY <3>2 DEF Renamed
  <2>2. FlattenSeq(<<>>) = <<>> /\ (<<>> \o <<>>) \o <<>> = <<>>
    BY DEF FlattenSeq
  <2>3. OnDisk = FlattenSeq(Renamed) \o main
    BY DEF OnDisk, Renamed
  <2>4. QED
    BY <2>1, <2>2, <2>3, <1>2 DEF FilesHoldTheLog
<1>8. QED
  BY <1>1, <1>3, <1>6, <1>7 DEF LogInv

(* Appenders, Start, Stop, and the thread where it does not touch the file. *)
LEMMA InMemoryOrder ==
  ASSUME LogInv, InMemory
  PROVE  Stored' /\ Clean' /\ InOrder' /\ FilesHoldTheLog'
<1>1. /\ IInv /\ Stored /\ Clean /\ InOrder /\ FilesHoldTheLog
      /\ UNCHANGED logVars
  BY DEF LogInv, InMemory
<1>2. file' = file => Stored' /\ FilesHoldTheLog'
  BY <1>1 DEF Stored, FilesHoldTheLog, OnDisk, logVars
<1>3. CASE AppendLine
  <2>1. PICK l : l = appended + 1
    OBVIOUS
  <2>2. /\ Clean' /\ AllLines' = AllLines \o <<l>> /\ file' = file
        /\ appended' = l /\ dropped' = dropped
    BY <2>1, <1>1, <1>3, AppendOrder DEF AppendLine
  <2>3. appended \in Nat /\ l \in Nat /\ AllLines \in Log /\ dropped \subseteq 1 .. appended
    BY <2>1, <1>1, StoredFact, LoggerAssumption DEF IInv, TypeOK, Stored
  <2>4. \A x \in ToSet(AllLines) : x < l
    BY <2>1, <2>3, <1>1 DEF InOrder
  <2>5. /\ Increasing(AllLines \o <<l>>)
        /\ ToSet(AllLines \o <<l>>) = ToSet(AllLines) \cup {l}
    BY <2>3, <2>4, <1>1, GrowFact DEF InOrder
  <2>6. 1 .. l \ dropped = (1 .. appended \ dropped) \cup {l}
    <3>1. l \notin dropped /\ \A x : x \in 1 .. l <=> x \in 1 .. appended \/ x = l
      BY <2>1, <2>3
    <3>2. QED
      BY <3>1
  <2>7. InOrder'
    BY <2>2, <2>5, <2>6, <1>1 DEF InOrder
  <2>8. QED
    BY <2>2, <2>7, <1>2
<1>4. CASE Start \/ Stop \/ Wait
  BY <1>1, <1>2, <1>4, StillOrder DEF InOrder, Start, Stop, Wait
<1>5. CASE Swap
  <2>1. appended' = appended /\ dropped' = dropped
    BY <1>5 DEF Swap
  <2>2. QED
    BY <2>1, <1>1, <1>2, <1>5, SwapOrder DEF InOrder
<1>6. CASE Drop
  BY <1>1, <1>2, <1>6, DropOrder
<1>7. QED
  BY <1>3, <1>4, <1>5, <1>6 DEF InMemory

(* The thread, where it does.                                              *)
LEMMA OutputOrder ==
  ASSUME LogInv, OpenOutput \/ AppendBuffer \/ FlushRound \/ Loop
  PROVE  Stored' /\ Clean' /\ InOrder' /\ FilesHoldTheLog'
<1>1. IInv /\ Numbered /\ Stored /\ Clean /\ InOrder /\ FilesHoldTheLog
  BY DEF LogInv
<1>2. ASSUME UNCHANGED <<rotated, main, unflushed, file>>
      PROVE  Stored' /\ FilesHoldTheLog'
  BY <1>1, <1>2 DEF Stored, FilesHoldTheLog, OnDisk
<1>3. ASSUME Flush, file' = file
      PROVE  Stored' /\ FilesHoldTheLog'
  BY <1>1, <1>3, FlushDisk, LogJoins DEF Stored, FilesHoldTheLog
<1>4. CASE OpenOutput
  BY <1>1, <1>2, <1>4, StillOrder DEF InOrder, OpenOutput, Begin, Open
<1>5. CASE AppendBuffer
  <2>1. PICK lines : lines = content[toWrite[written + 1]]
    OBVIOUS
  <2>2. /\ WriteBuffer /\ LogAppend(lines) /\ pc = "write"
        /\ appended' = appended /\ dropped' = dropped
    BY <2>1, <1>5 DEF AppendBuffer, WriteBuffer
  <2>3. /\ Clean' /\ AllLines' = AllLines /\ lines \in Log
        /\ file' = file \o lines /\ file' \in Log
    BY <2>1, <2>2, <1>1, WriteOrder
  <2>4. /\ main' \in Log /\ unflushed' \in Log
        /\ \A n \in DOMAIN rotated' : rotated'[n] \in Log
        /\ OnDisk' \o unflushed' = (OnDisk \o unflushed) \o lines
    BY <2>2, <2>3, <1>1, AppendDisk
  <2>5. Stored' /\ FilesHoldTheLog'
    BY <2>3, <2>4, <1>1 DEF Stored, FilesHoldTheLog
  <2>6. QED
    BY <2>2, <2>3, <2>5, <1>1 DEF InOrder
<1>6. CASE FlushRound
  <2>1. Recycle /\ Flush /\ appended' = appended /\ dropped' = dropped
    BY <1>6 DEF FlushRound, Recycle
  <2>2. Clean' /\ AllLines' = AllLines /\ file' = file
    BY <2>1, <1>1, RecycleOrder
  <2>3. QED
    BY <2>1, <2>2, <1>1, <1>3 DEF InOrder
<1>7. CASE Loop
  <2>1. LoopHead /\ appended' = appended /\ dropped' = dropped /\ file' = file
    BY <1>7 DEF Loop, LoopHead
  <2>2. Flush \/ UNCHANGED <<rotated, main, unflushed>>
    BY <1>7 DEF Loop, logVars
  <2>3. QED
    BY <2>1, <2>2, <1>1, <1>2, <1>3, StillOrder DEF InOrder
<1>8. QED
  BY <1>4, <1>5, <1>6, <1>7

(* A new process finds what is on the disk: the first of what was written. *)
LEMMA RestartOrder ==
  ASSUME LogInv, Restart
  PROVE  Stored' /\ Clean' /\ InOrder' /\ FilesHoldTheLog'
<1>1. IInv /\ Numbered /\ Stored /\ Clean /\ InOrder /\ FilesHoldTheLog
  BY DEF LogInv
<1>2. /\ Die /\ content' = [b \in Buffers |-> <<>>]
      /\ vec' = <<>> /\ toWrite' = <<>> /\ written' = 0
      /\ file' = OnDisk' /\ dropped' = 1 .. appended \ ToSet(OnDisk')
      /\ appended' = appended
  BY DEF Restart
<1>3. /\ main' \in Log /\ unflushed' = <<>> /\ rotated' = rotated /\ OnDisk' \in Log
      /\ \E lost \in Log : OnDisk \o unflushed = OnDisk' \o lost
  BY <1>1, <1>2, FlushDisk
<1>4. Stored'
  BY <1>1, <1>2, <1>3, LogJoins DEF Stored
<1>5. FilesHoldTheLog'
  BY <1>2, <1>3, LogJoins DEF FilesHoldTheLog
<1>6. current' \in Buffers
  BY <1>1, RestartFact DEF IInv, TypeOK
<1>7. Clean'
  BY <1>2 DEF Clean
<1>8. AllLines' = OnDisk'
  <2>1. content' \in [Buffers -> Log] /\ <<>> \in Vectors
    BY <1>2, LogJoins, VectorJoins
  <2>2. Lines(content', <<>>) = <<>> /\ content'[current'] = <<>>
    BY <2>1, <1>2, <1>6, LinesFact
  <2>3. SubSeq(toWrite', written' + 1, Len(toWrite')) = <<>>
    BY <1>2
  <2>4. PICK d \in Log : d = OnDisk'
    BY <1>3
  <2>5. Cat(Cat(Cat(d, <<>>), <<>>), <<>>) = d
    BY CatFact
  <2>6. QED
    BY <2>2, <2>3, <2>4, <2>5, <1>2 DEF AllLines, Four, Pending, Cat
<1>9. Increasing(OnDisk') /\ ToSet(OnDisk') \subseteq 1 .. appended
  <2>1. PICK lost \in Log : file = OnDisk' \o lost
    BY <1>1, <1>3 DEF FilesHoldTheLog
  <2>2. PICK rest \in Log : AllLines = file \o rest
    <3>1. /\ file \in Log /\ Pending \in Log /\ Lines(content, vec) \in Log
          /\ content[current] \in Log
      BY <1>1, StoredFact DEF IInv, Stored
    <3>2. PICK f \in Log, p \in Log, v \in Log, c \in Log :
            /\ f = file /\ p = Pending /\ v = Lines(content, vec) /\ c = content[current]
      BY <3>1
    <3>3. Four(f, p, v, c) = Cat(f, Cat(Cat(p, v), c)) /\ Cat(Cat(p, v), c) \in Log
      BY FourFact, CatFact
    <3>4. QED
      BY <3>2, <3>3 DEF AllLines, Cat
  <2>3. Increasing(file) /\ ToSet(file) \subseteq ToSet(AllLines)
    BY <2>2, <1>1, OrderFact DEF InOrder, Stored
  <2>4. Increasing(OnDisk') /\ ToSet(OnDisk') \subseteq ToSet(file)
    BY <2>1, <2>3, <1>3, OrderFact
  <2>5. QED
    BY <2>3, <2>4, <1>1 DEF InOrder
<1>10. InOrder'
  BY <1>2, <1>8, <1>9 DEF InOrder
<1>11. QED
  BY <1>4, <1>5, <1>7, <1>10

(* From the appenders to the files, through rotation and restarts.         *)
THEOREM LogInvariant == LoggingSpec => []LogInv
<1>1. LogInv /\ [LoggingNext]_loggingVars => LogInv'
  <2> SUFFICES ASSUME LogInv, [LoggingNext]_loggingVars PROVE LogInv'
    OBVIOUS
  <2>1. IInv' /\ Numbered'
    BY Inductive, NumberedFact DEF LogInv
  <2>2. CASE InMemory
    BY <2>1, <2>2, InMemoryOrder DEF LogInv
  <2>3. CASE OpenOutput \/ AppendBuffer \/ FlushRound \/ Loop
    BY <2>1, <2>3, OutputOrder DEF LogInv
  <2>4. CASE Restart
    BY <2>1, <2>4, RestartOrder DEF LogInv
  <2>5. CASE UNCHANGED loggingVars
    BY <2>1, <2>5 DEF LogInv, Stored, Clean, InOrder, AllLines, Pending, FilesHoldTheLog,
                      OnDisk, loggingVars, vars, shared, local, logVars
  <2>6. QED
    BY <2>2, <2>3, <2>4, <2>5 DEF LoggingNext
<1>2. QED
  BY <1>1, LogInitFact, PTL DEF LoggingSpec

(* No line is lost, repeated or overtaken between an appender's call and   *)
(* the file, but with a buffer beyond the limit or a process that dies     *)
(* (async_logger_core.cpp:14-34 and 49-91).                                *)
THEOREM NoLineIsLost == LoggingSpec => []NoLineLost
<1>1. LogInv => NoLineLost
  <2> SUFFICES ASSUME LogInv PROVE NoLineLost
    OBVIOUS
  <2>1. TypeOK /\ file \in Log /\ InOrder
    BY DEF LogInv, IInv, Stored
  <2>2. QED
    BY <2>1, AllLinesFact DEF NoLineLost, InOrder, Increasing
<1>2. QED
  BY <1>1, LogInvariant, PTL

(* Rotation and restarts neither lose nor move a line that was written     *)
(* (logfile.h:69-76 and 84-110).                                           *)
THEOREM FilesAreTheLog == LoggingSpec => []FilesHoldTheLog
<1>1. LogInv => FilesHoldTheLog
  BY DEF LogInv
<1>2. QED
  BY <1>1, LogInvariant, PTL
=============================================================================
