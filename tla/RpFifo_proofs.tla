--------------------------- MODULE RpFifo_proofs ---------------------------
(***************************************************************************)
(* Proofs about the ring buffer, for every capacity and every set of bytes: *)
(* its counters always agree, its raw windows never overlap what is queued, *)
(* and it implements the queue of bytes.                                    *)
(***************************************************************************)
EXTENDS RpFifo, SequenceTheorems, TLAPS

-----------------------------------------------------------------------------
(* The inductive invariant.                                                 *)

\* At most one call is running.
OneCall == src = <<>> \/ want = 0

RingOK == TypeOK /\ TailFollowsHead /\ OneCall

(***************************************************************************)
(* rp_fifo_consume, from at most what rp_fifo_raw_r allows, keeps the        *)
(* counters in agreement.                                                   *)
(***************************************************************************)
LEMMA ConsumeKeepsRing ==
  ASSUME TypeOK, TailFollowsHead, NEW n \in Nat, n <= RawR, Consume(n)
  PROVE  /\ buffer' = buffer
         /\ head' \in Slot
         /\ tail' \in Slot
         /\ count' = count - n
         /\ count' \in 0 .. Capacity
         /\ TailFollowsHead'
  BY FifoAssumption
  DEF TypeOK, TailFollowsHead, Consume, RawR, Lesser, Slot

(***************************************************************************)
(* rp_fifo_reserve, of at most what rp_fifo_raw_w allows, keeps them in      *)
(* agreement too.                                                           *)
(***************************************************************************)
LEMMA ReserveKeepsRing ==
  ASSUME TypeOK, TailFollowsHead, NEW s \in Seq(Byte), Len(s) <= RawW, Reserve(s)
  PROVE  /\ buffer' \in [Slot -> Byte]
         /\ head' \in Slot
         /\ tail' \in Slot
         /\ count' = count + Len(s)
         /\ count' \in 0 .. Capacity
         /\ TailFollowsHead'
<1>1. Len(s) \in Nat
  BY LenProperties
<1>2. \A p \in Slot : p \in tail .. tail + Len(s) - 1 => s[p - tail + 1] \in Byte
  <2> SUFFICES ASSUME NEW p \in Slot, p \in tail .. tail + Len(s) - 1
               PROVE  s[p - tail + 1] \in Byte
    OBVIOUS
  <2>1. p - tail + 1 \in 1 .. Len(s)
    BY <1>1, FifoAssumption DEF TypeOK, Slot
  <2> QED
    BY <2>1, ElementOfSeq
<1>3. buffer' \in [Slot -> Byte]
  BY <1>2 DEF Reserve, TypeOK
<1>4. /\ Capacity \in Nat /\ head \in 0 .. Capacity - 1 /\ tail \in 0 .. Capacity - 1
      /\ count \in 0 .. Capacity
      /\ Len(s) <= Capacity - count /\ Len(s) <= Capacity - tail
  BY <1>1, FifoAssumption DEF TypeOK, Slot, RawW, BytesFree, Lesser
<1>5. head' = head /\ count' = count + Len(s)
      /\ tail' = IF tail + Len(s) = Capacity THEN 0 ELSE tail + Len(s)
  BY DEF Reserve
<1>6. head' \in Slot /\ tail' \in Slot /\ count' \in 0 .. Capacity
  BY <1>1, <1>4, <1>5 DEF Slot
<1>7. TailFollowsHead'
  BY <1>1, <1>4, <1>5 DEF TailFollowsHead
<1> QED
  BY <1>3, <1>5, <1>6, <1>7

(***************************************************************************)
(* The bytes at the head, up to the window's length, are bytes.              *)
(***************************************************************************)
LEMMA AtHeadIsSeq ==
  ASSUME TypeOK, NEW n \in Nat, n <= RawR
  PROVE  /\ AtHead(n) \in Seq(Byte)
         /\ Len(AtHead(n)) = n
         /\ \A i \in 1 .. n : AtHead(n)[i] = buffer[head + i - 1]
<1>1. \A i \in 1 .. n : buffer[head + i - 1] \in Byte
  <2> SUFFICES ASSUME NEW i \in 1 .. n
               PROVE  buffer[head + i - 1] \in Byte
    OBVIOUS
  <2>1. head + i - 1 \in Slot
    BY FifoAssumption DEF TypeOK, Slot, RawR, Lesser
  <2> QED
    BY <2>1 DEF TypeOK
<1>2. AtHead(n) \in [1 .. n -> Byte]
  BY <1>1 DEF AtHead
<1> QED
  BY <1>2, SeqDef DEF AtHead

(***************************************************************************)
(* A prefix and the rest of a sequence are sequences of the right length.   *)
(***************************************************************************)
LEMMA CutSeq ==
  ASSUME NEW S, NEW s \in Seq(S), NEW n \in 0 .. Len(s)
  PROVE  /\ SubSeq(s, 1, n) \in Seq(S)
         /\ Len(SubSeq(s, 1, n)) = n
         /\ \A i \in 1 .. n : SubSeq(s, 1, n)[i] = s[i]
         /\ SubSeq(s, n + 1, Len(s)) \in Seq(S)
         /\ Len(SubSeq(s, n + 1, Len(s))) = Len(s) - n
         /\ \A i \in 1 .. Len(s) - n : SubSeq(s, n + 1, Len(s))[i] = s[n + i]
<1>1. Len(s) \in Nat /\ \A i \in 1 .. Len(s) : s[i] \in S
  BY LenProperties, ElementOfSeq
<1>2. /\ SubSeq(s, 1, n) \in Seq(S)
      /\ Len(SubSeq(s, 1, n)) = IF 1 <= n THEN n - 1 + 1 ELSE 0
      /\ \A i \in 1 .. n - 1 + 1 : SubSeq(s, 1, n)[i] = s[1 + i - 1]
  BY <1>1, SubSeqProperties
<1>3. /\ SubSeq(s, n + 1, Len(s)) \in Seq(S)
      /\ Len(SubSeq(s, n + 1, Len(s))) = IF n + 1 <= Len(s) THEN Len(s) - (n + 1) + 1 ELSE 0
      /\ \A i \in 1 .. Len(s) - (n + 1) + 1 : SubSeq(s, n + 1, Len(s))[i] = s[n + 1 + i - 1]
  BY <1>1, SubSeqProperties
<1> QED
  BY <1>1, <1>2, <1>3

(***************************************************************************)
(* Initially the ring is empty and no call is running.                      *)
(***************************************************************************)
LEMMA RingInit == Init => RingOK
  BY FifoAssumption, EmptySeq
  DEF Init, RingOK, TypeOK, TailFollowsHead, OneCall, BytesFree, Slot

(***************************************************************************)
(* Every step, one iteration of a copy loop included, keeps the ring in     *)
(* order.                                                                   *)
(***************************************************************************)
LEMMA RingNext == RingOK /\ [Next]_vars => RingOK'
<1> SUFFICES ASSUME RingOK, [Next]_vars
             PROVE  RingOK'
  OBVIOUS
<1> USE DEF RingOK
<1>0. /\ Len(src) \in Nat /\ Capacity \in Nat /\ count \in 0 .. Capacity
      /\ BytesFree = Capacity - count /\ BytesFree \in 0 .. Capacity
      /\ Len(src) <= BytesFree /\ want \in 0 .. count
  BY LenProperties, FifoAssumption DEF TypeOK, BytesFree
<1>1. ASSUME NEW s \in Strings, Put(s)
      PROVE  RingOK'
  <2>1. s \in Seq(Byte) /\ Len(s) \in Nat
    BY FifoAssumption, LenProperties
  <2>2. Lesser(Len(s), BytesFree) \in 0 .. Len(s) /\ Lesser(Len(s), BytesFree) <= BytesFree
    BY <1>0, <2>1 DEF Lesser
  <2>3. src' \in Seq(Byte) /\ Len(src') <= BytesFree
    BY <1>1, <2>1, <2>2, CutSeq DEF Put
  <2> QED
    BY <1>0, <1>1, <2>3 DEF Put, TypeOK, TailFollowsHead, OneCall, BytesFree, ring, Idle
<1>2. ASSUME NEW s \in Strings, RawWrite(s)
      PROVE  RingOK'
  <2>1. s \in Seq(Byte) /\ Len(s) \in Nat
    BY FifoAssumption, LenProperties
  <2>2. Len(s) <= RawW /\ Reserve(s) /\ UNCHANGED <<src, want, dest>> /\ src = <<>> /\ want = 0
    BY <1>2 DEF RawWrite, Idle
  <2>3. /\ buffer' \in [Slot -> Byte]
        /\ head' \in Slot /\ tail' \in Slot
        /\ count' = count + Len(s) /\ count' \in 0 .. Capacity
        /\ TailFollowsHead'
    BY <2>1, <2>2, ReserveKeepsRing
  <2>4. BytesFree' \in Nat /\ Len(src') = 0
    BY <1>0, <2>2, <2>3, EmptySeq DEF BytesFree
  <2>5. want' \in 0 .. count'
    BY <2>2, <2>3
  <2>6. src' \in Seq(Byte) /\ dest' \in Seq(Byte)
    BY <2>2 DEF TypeOK
  <2>7. TypeOK'
    BY <2>3, <2>4, <2>5, <2>6 DEF TypeOK
  <2>8. OneCall'
    BY <2>2 DEF OneCall
  <2> QED
    BY <2>3, <2>7, <2>8
<1>3. ASSUME NEW n \in 0 .. Capacity + 1, Get(n)
      PROVE  RingOK'
  <2>1. want' \in Nat /\ want' <= count
    BY <1>0, <1>3 DEF Get, Lesser
  <2>2. dest' \in Seq(Byte)
    BY <1>3, EmptySeq DEF Get
  <2> QED
    BY <1>0, <1>3, <2>1, <2>2 DEF Get, TypeOK, TailFollowsHead, OneCall, BytesFree, ring, Idle
<1>4. ASSUME NEW n \in 0 .. Capacity + 1, RawRead(n)
      PROVE  RingOK'
  <2>1. n \in Nat /\ n <= RawR /\ Consume(n) /\ UNCHANGED <<src, want>> /\ src = <<>> /\ want = 0
    BY <1>0, <1>4 DEF RawRead, Idle
  <2>2. /\ buffer' = buffer
        /\ head' \in Slot /\ tail' \in Slot
        /\ count' = count - n /\ count' \in 0 .. Capacity
        /\ TailFollowsHead'
    BY <2>1, ConsumeKeepsRing
  <2>3. dest' \in Seq(Byte)
    BY <1>4, <2>1, AtHeadIsSeq DEF RawRead
  <2>4. BytesFree' \in Nat /\ Len(src') = 0
    BY <1>0, <2>1, <2>2, EmptySeq DEF BytesFree
  <2>5. want' \in 0 .. count'
    BY <2>1, <2>2
  <2>6. buffer' \in [Slot -> Byte] /\ src' \in Seq(Byte)
    BY <2>1, <2>2 DEF TypeOK
  <2>7. TypeOK'
    BY <2>2, <2>3, <2>4, <2>5, <2>6 DEF TypeOK
  <2>8. OneCall'
    BY <2>1 DEF OneCall
  <2> QED
    BY <2>2, <2>7, <2>8
<1>5. CASE PutCopy
  <2> DEFINE n == Lesser(Len(src), Capacity - tail)
  <2>1. /\ src # <<>> /\ Reserve(SubSeq(src, 1, n))
        /\ src' = SubSeq(src, n + 1, Len(src)) /\ UNCHANGED <<want, dest>>
    BY <1>5 DEF PutCopy
  <2>2. n \in 0 .. Len(src) /\ n <= Capacity - tail /\ src \in Seq(Byte) /\ want = 0
    BY <1>0, <2>1 DEF Lesser, TypeOK, Slot, OneCall
  <2>3. /\ SubSeq(src, 1, n) \in Seq(Byte) /\ Len(SubSeq(src, 1, n)) = n
        /\ src' \in Seq(Byte) /\ Len(src') = Len(src) - n
    BY <2>1, <2>2, CutSeq
  <2>4. n <= RawW
    BY <1>0, <2>2 DEF RawW, Lesser, OneCall
  <2> HIDE DEF n
  <2>5. /\ buffer' \in [Slot -> Byte]
        /\ head' \in Slot /\ tail' \in Slot
        /\ count' = count + n /\ count' \in 0 .. Capacity
        /\ TailFollowsHead'
    BY <2>1, <2>3, <2>4, ReserveKeepsRing
  <2>6. Len(src') <= BytesFree'
    BY <1>0, <2>2, <2>3, <2>5 DEF BytesFree
  <2>7. want' \in 0 .. count' /\ want' = 0 /\ dest' \in Seq(Byte)
    BY <2>1, <2>2, <2>5 DEF TypeOK
  <2>8. TypeOK'
    BY <2>3, <2>5, <2>6, <2>7 DEF TypeOK
  <2>9. OneCall'
    BY <2>7 DEF OneCall
  <2> QED
    BY <2>5, <2>8, <2>9
<1>6. CASE GetCopy
  <2> DEFINE n == Lesser(want, Capacity - head)
  <2>1. /\ want > 0 /\ dest' = dest \o AtHead(n) /\ Consume(n)
        /\ want' = want - n /\ UNCHANGED src
    BY <1>6 DEF GetCopy
  <2>2. n \in Nat /\ n <= want /\ n <= RawR /\ want \in Nat /\ src = <<>>
    BY <1>0, <2>1 DEF Lesser, RawR, TypeOK, Slot, OneCall
  <2> HIDE DEF n
  <2>3. /\ buffer' = buffer
        /\ head' \in Slot /\ tail' \in Slot
        /\ count' = count - n /\ count' \in 0 .. Capacity
        /\ TailFollowsHead'
    BY <2>1, <2>2, ConsumeKeepsRing
  <2>4. dest' \in Seq(Byte)
    BY <2>1, <2>2, AtHeadIsSeq, ConcatProperties DEF TypeOK
  <2>5. BytesFree' \in Nat /\ Len(src') = 0
    BY <1>0, <2>1, <2>2, <2>3, EmptySeq DEF BytesFree
  <2>6. want' \in 0 .. count'
    BY <1>0, <2>1, <2>2, <2>3
  <2>7. buffer' \in [Slot -> Byte] /\ src' \in Seq(Byte)
    BY <2>1, <2>3 DEF TypeOK
  <2>8. TypeOK'
    BY <2>3, <2>4, <2>5, <2>6, <2>7 DEF TypeOK
  <2>9. OneCall'
    BY <2>1, <2>2 DEF OneCall
  <2> QED
    BY <2>3, <2>8, <2>9
<1>7. CASE UNCHANGED vars
  BY <1>7 DEF vars, TypeOK, TailFollowsHead, OneCall, BytesFree
<1> QED
  BY <1>1, <1>2, <1>3, <1>4, <1>5, <1>6, <1>7 DEF Next

(***************************************************************************)
(* The windows are right wherever the counters agree: a window is empty     *)
(* only when there is no room (no data), and the one to write to holds no   *)
(* queued byte.                                                             *)
(***************************************************************************)
LEMMA RingGivesWindows == RingOK => RawWindows
<1> SUFFICES ASSUME RingOK
             PROVE  RawWindows
  OBVIOUS
<1> DEFINE Queued == {Position(i) : i \in 1 .. count}
<1>1. /\ Capacity \in Nat \ {0} /\ count \in 0 .. Capacity
      /\ head \in 0 .. Capacity - 1 /\ tail \in 0 .. Capacity - 1
      /\ tail = IF head + count >= Capacity THEN head + count - Capacity ELSE head + count
  BY FifoAssumption DEF RingOK, TypeOK, TailFollowsHead, Slot
<1>2. (BytesFree > 0 => RawW > 0) /\ (count > 0 => RawR > 0)
  BY <1>1 DEF BytesFree, RawW, RawR, Lesser
<1>3. (tail .. tail + RawW - 1) \subseteq Slot \ Queued
  BY <1>1 DEF RawW, BytesFree, Lesser, Slot, Position
<1>4. ASSUME NEW p \in head .. head + RawR - 1
      PROVE  p \in Queued
  <2>1. p - head + 1 \in 1 .. count /\ Position(p - head + 1) = p
    BY <1>1 DEF RawR, Lesser, Position
  <2> QED
    BY <2>1
<1> QED
  BY <1>2, <1>3, <1>4 DEF RawWindows

-----------------------------------------------------------------------------
(* Every behaviour keeps the ring in order.                                 *)

\* The pointers stay inside buffer[] and the count inside the capacity: rp_fifo
\* never touches memory outside its block.
THEOREM FifoTypeCorrect == Spec => []TypeOK
<1>1. RingOK => TypeOK
  BY DEF RingOK
<1> QED
  BY RingInit, RingNext, <1>1, PTL DEF Spec

\* head, tail and count always agree, so that full and empty are told apart.
THEOREM FifoCountersAgree == Spec => []TailFollowsHead
<1>1. RingOK => TailFollowsHead
  BY DEF RingOK
<1> QED
  BY RingInit, RingNext, <1>1, PTL DEF Spec

\* Callers of rp_fifo_raw_r and rp_fifo_raw_w get what their loops rely on.
THEOREM FifoWindowsRight == Spec => []RawWindows
  BY RingInit, RingNext, RingGivesWindows, PTL DEF Spec

-----------------------------------------------------------------------------
(* What the ring holds, as a sequence.                                      *)

(***************************************************************************)
(* The content is a sequence of count bytes, found at their positions.      *)
(***************************************************************************)
LEMMA ContentIsSeq ==
  ASSUME TypeOK
  PROVE  /\ Content \in Seq(Byte)
         /\ Len(Content) = count
         /\ \A i \in 1 .. count : /\ Position(i) \in Slot
                                  /\ Content[i] = buffer[Position(i)]
                                  /\ Content[i] \in Byte
<1>1. \A i \in 1 .. count : Position(i) \in Slot
  BY FifoAssumption DEF TypeOK, Position, Slot
<1>2. \A i \in 1 .. count : buffer[Position(i)] \in Byte
  BY <1>1 DEF TypeOK
<1>3. Content \in [1 .. count -> Byte]
  BY <1>2 DEF Content
<1>4. count \in Nat
  BY FifoAssumption DEF TypeOK
<1>5. Content \in Seq(Byte) /\ Len(Content) = count
  BY <1>3, <1>4, SeqDef DEF Content
<1> QED
  BY <1>1, <1>2, <1>5 DEF Content

(***************************************************************************)
(* The window rp_fifo_raw_r returns starts with the oldest byte.            *)
(***************************************************************************)
LEMMA WindowIsPrefix ==
  ASSUME TypeOK, NEW n \in Nat, n <= RawR
  PROVE  AtHead(n) = SubSeq(Content, 1, n)
<1>1. n <= count /\ n <= Capacity - head /\ count \in Nat /\ Capacity \in Nat /\ head \in Nat
  BY FifoAssumption DEF RawR, Lesser, TypeOK, Slot
<1>2. AtHead(n) \in Seq(Byte) /\ Len(AtHead(n)) = n
      /\ \A i \in 1 .. n : AtHead(n)[i] = buffer[head + i - 1]
  BY AtHeadIsSeq
<1>3. SubSeq(Content, 1, n) \in Seq(Byte) /\ Len(SubSeq(Content, 1, n)) = n
      /\ \A i \in 1 .. n : SubSeq(Content, 1, n)[i] = Content[i]
  BY <1>1, ContentIsSeq, CutSeq
<1>4. ASSUME NEW i \in 1 .. n
      PROVE  Content[i] = buffer[head + i - 1]
  <2>1. i \in 1 .. count /\ Position(i) = head + i - 1
    BY <1>1 DEF Position
  <2> QED
    BY <2>1, ContentIsSeq
<1>5. \A i \in 1 .. Len(AtHead(n)) : AtHead(n)[i] = SubSeq(Content, 1, n)[i]
  BY <1>2, <1>3, <1>4
<1> QED
  BY <1>2, <1>3, <1>5, SeqEqual

(***************************************************************************)
(* rp_fifo_consume drops the oldest n bytes and no other.                   *)
(***************************************************************************)
LEMMA ConsumeDrops ==
  ASSUME TypeOK, TailFollowsHead, NEW n \in Nat, n <= RawR, Consume(n)
  PROVE  /\ Content' = SubSeq(Content, n + 1, count)
         /\ count' = count - n
<1>1. /\ n <= count /\ n <= Capacity - head /\ count \in 0 .. Capacity
      /\ Capacity \in Nat /\ head \in 0 .. Capacity - 1
  BY FifoAssumption DEF RawR, Lesser, TypeOK, Slot
<1>2. buffer' = buffer /\ count' = count - n
      /\ head' = IF head + n = Capacity THEN 0 ELSE head + n
  BY DEF Consume
<1> DEFINE rest == SubSeq(Content, n + 1, count)
<1>3. rest \in Seq(Byte) /\ Len(rest) = count - n
      /\ \A i \in 1 .. count - n : rest[i] = Content[n + i]
  BY <1>1, ContentIsSeq, CutSeq
<1>4. ASSUME NEW i \in 1 .. count - n
      PROVE  Content'[i] = rest[i] /\ Content'[i] \in Byte
  <2>1. n + i \in 1 .. count /\ Position(i)' = Position(n + i)
    BY <1>1, <1>2 DEF Position
  <2>2. Content'[i] = buffer[Position(n + i)]
    BY <1>2, <2>1 DEF Content
  <2> QED
    BY <1>3, <2>1, <2>2, ContentIsSeq
<1> HIDE DEF rest
<1>5. Content' \in [1 .. count - n -> Byte]
  BY <1>2, <1>4 DEF Content
<1>6. Content' \in Seq(Byte) /\ Len(Content') = count - n
  <2>1. count - n \in Nat
    BY <1>1
  <2>2. DOMAIN Content' = 1 .. count - n
    BY <1>5
  <2> QED
    BY <1>5, <2>1, <2>2, SeqDef, LenProperties
<1>7. Content' = rest
  BY <1>3, <1>4, <1>6, SeqEqual
<1> QED
  BY <1>2, <1>7 DEF rest

(***************************************************************************)
(* rp_fifo_reserve, after the copy, adds the new bytes at the end and       *)
(* disturbs none that was queued.                                           *)
(***************************************************************************)
LEMMA ReserveAppends ==
  ASSUME TypeOK, TailFollowsHead, NEW s \in Seq(Byte), Len(s) <= RawW, Reserve(s)
  PROVE  /\ Content' = Content \o s
         /\ count' = count + Len(s)
<1> DEFINE m == Len(s)
           whole == Content \o s
<1>1. m \in Nat /\ \A i \in 1 .. m : s[i] \in Byte
  BY LenProperties, ElementOfSeq
<1>2. /\ m <= Capacity - count /\ m <= Capacity - tail /\ count \in 0 .. Capacity
      /\ Capacity \in Nat /\ head \in 0 .. Capacity - 1 /\ tail \in 0 .. Capacity - 1
      /\ tail = IF head + count >= Capacity THEN head + count - Capacity ELSE head + count
  BY <1>1, FifoAssumption DEF RawW, BytesFree, Lesser, TypeOK, TailFollowsHead, Slot
<1>3. /\ \A p \in Slot : buffer'[p] = IF p \in tail .. tail + m - 1
                                      THEN s[p - tail + 1] ELSE buffer[p]
      /\ count' = count + m /\ head' = head
  BY DEF Reserve
<1>4. whole \in Seq(Byte) /\ Len(whole) = count + m
      /\ \A i \in 1 .. count + m : whole[i] = IF i <= count THEN Content[i] ELSE s[i - count]
  <2>1. Content \in Seq(Byte) /\ Len(Content) = count
    BY ContentIsSeq
  <2> QED
    BY <2>1, ConcatProperties
<1> HIDE DEF m, whole
<1>5. ASSUME NEW i \in 1 .. count + m
      PROVE  Content'[i] = whole[i] /\ Content'[i] \in Byte
  <2>1. Position(i) \in Slot /\ Position(i)' = Position(i)
    BY <1>1, <1>2, <1>3 DEF Position, Slot
  <2>2. Content'[i] = buffer'[Position(i)]
    BY <1>3, <2>1 DEF Content
  <2>3. CASE i <= count
    <3>1. i \in 1 .. count /\ Position(i) \notin tail .. tail + m - 1
      BY <1>1, <1>2, <2>3 DEF Position
    <3> QED
      BY <1>3, <1>4, <2>1, <2>2, <2>3, <3>1, ContentIsSeq
  <2>4. CASE i > count
    <3>1. i - count \in 1 .. m /\ Position(i) \in tail .. tail + m - 1
          /\ Position(i) - tail + 1 = i - count
      BY <1>1, <1>2, <2>4 DEF Position
    <3>2. buffer'[Position(i)] = s[i - count] /\ whole[i] = s[i - count]
      BY <1>2, <1>3, <1>4, <2>1, <2>4, <3>1
    <3> QED
      BY <1>1, <2>2, <3>1, <3>2
  <2> QED
    BY <1>1, <1>2, <2>3, <2>4
<1>6. Content' \in [1 .. count + m -> Byte]
  BY <1>3, <1>5 DEF Content
<1>7. Content' \in Seq(Byte) /\ Len(Content') = count + m
  <2>1. count + m \in Nat
    BY <1>1, <1>2
  <2>2. DOMAIN Content' = 1 .. count + m
    BY <1>6
  <2> QED
    BY <1>6, <2>1, <2>2, SeqDef, LenProperties
<1>8. Content' = whole
  BY <1>4, <1>5, <1>7, SeqEqual
<1> QED
  BY <1>3, <1>8 DEF whole, m

-----------------------------------------------------------------------------
(* Facts about cutting and joining sequences.                               *)

(***************************************************************************)
(* A sequence is its first n elements and the rest.                         *)
(***************************************************************************)
LEMMA CutAndJoin ==
  ASSUME NEW S, NEW s \in Seq(S), NEW n \in 0 .. Len(s)
  PROVE  SubSeq(s, 1, n) \o SubSeq(s, n + 1, Len(s)) = s
<1> DEFINE a == SubSeq(s, 1, n)
           b == SubSeq(s, n + 1, Len(s))
<1>1. Len(s) \in Nat
  BY LenProperties
<1>2. /\ a \in Seq(S) /\ Len(a) = n /\ \A i \in 1 .. n : a[i] = s[i]
      /\ b \in Seq(S) /\ Len(b) = Len(s) - n /\ \A i \in 1 .. Len(s) - n : b[i] = s[n + i]
  BY CutSeq
<1> HIDE DEF a, b
<1>3. a \o b \in Seq(S) /\ Len(a \o b) = Len(s)
      /\ \A i \in 1 .. Len(s) : (a \o b)[i] = IF i <= n THEN a[i] ELSE b[i - n]
  BY <1>1, <1>2, ConcatProperties
<1>4. ASSUME NEW i \in 1 .. Len(s)
      PROVE  (a \o b)[i] = s[i]
  <2>1. CASE i <= n
    BY <1>1, <1>2, <1>3, <2>1
  <2>2. CASE i > n
    <3>1. i - n \in 1 .. Len(s) - n /\ n + (i - n) = i
      BY <1>1, <2>2
    <3> QED
      BY <1>2, <1>3, <2>2, <3>1
  <2>3. i <= n \/ i > n
    BY <1>1
  <2> QED
    BY <2>1, <2>2, <2>3
<1>5. a \o b = s
  BY <1>3, <1>4, SeqEqual
<1> QED
  BY <1>5 DEF a, b

(***************************************************************************)
(* Dropping n elements and then m - n more is dropping m; the first n and   *)
(* the first m - n of the rest are the first m.                             *)
(***************************************************************************)
LEMMA CutTwice ==
  ASSUME NEW S, NEW s \in Seq(S), NEW m \in 0 .. Len(s), NEW n \in 0 .. m
  PROVE  LET rest == SubSeq(s, n + 1, Len(s)) IN
         /\ SubSeq(rest, m - n + 1, Len(s) - n) = SubSeq(s, m + 1, Len(s))
         /\ SubSeq(s, 1, n) \o SubSeq(rest, 1, m - n) = SubSeq(s, 1, m)
<1> DEFINE rest == SubSeq(s, n + 1, Len(s))
<1>1. Len(s) \in Nat /\ n \in 0 .. Len(s) /\ m - n \in 0 .. Len(s) - n
  BY LenProperties
<1>2. rest \in Seq(S) /\ Len(rest) = Len(s) - n
      /\ \A i \in 1 .. Len(s) - n : rest[i] = s[n + i]
  BY <1>1, CutSeq
<1>3. /\ SubSeq(s, 1, n) \in Seq(S) /\ Len(SubSeq(s, 1, n)) = n
      /\ \A i \in 1 .. n : SubSeq(s, 1, n)[i] = s[i]
  BY <1>1, CutSeq
<1>4. /\ SubSeq(s, 1, m) \in Seq(S) /\ Len(SubSeq(s, 1, m)) = m
      /\ \A i \in 1 .. m : SubSeq(s, 1, m)[i] = s[i]
      /\ SubSeq(s, m + 1, Len(s)) \in Seq(S) /\ Len(SubSeq(s, m + 1, Len(s))) = Len(s) - m
      /\ \A i \in 1 .. Len(s) - m : SubSeq(s, m + 1, Len(s))[i] = s[m + i]
  BY CutSeq
<1> HIDE DEF rest
<1> DEFINE k == m - n
<1>5. /\ SubSeq(rest, 1, k) \in Seq(S) /\ Len(SubSeq(rest, 1, k)) = k
      /\ \A i \in 1 .. k : SubSeq(rest, 1, k)[i] = rest[i]
      /\ SubSeq(rest, k + 1, Len(rest)) \in Seq(S)
      /\ Len(SubSeq(rest, k + 1, Len(rest))) = Len(rest) - k
      /\ \A i \in 1 .. Len(rest) - k : SubSeq(rest, k + 1, Len(rest))[i] = rest[k + i]
  <2>1. k \in 0 .. Len(rest)
    BY <1>1, <1>2
  <2> HIDE DEF k
  <2> QED
    BY <1>2, <2>1, CutSeq
<1>6. SubSeq(rest, m - n + 1, Len(s) - n) = SubSeq(s, m + 1, Len(s))
  <2> DEFINE x == SubSeq(rest, k + 1, Len(rest))
             y == SubSeq(s, m + 1, Len(s))
  <2>1. x \in Seq(S) /\ Len(x) = Len(s) - m
    BY <1>1, <1>2, <1>5
  <2>2. y \in Seq(S) /\ Len(y) = Len(s) - m
    BY <1>4
  <2>3. ASSUME NEW i \in 1 .. Len(s) - m
        PROVE  x[i] = y[i]
    <3>1. i \in 1 .. Len(rest) - k /\ k + i \in 1 .. Len(s) - n /\ n + (k + i) = m + i
      BY <1>1, <1>2
    <3>2. x[i] = rest[k + i] /\ y[i] = s[m + i] /\ rest[k + i] = s[n + (k + i)]
      BY <1>2, <1>4, <1>5, <3>1
    <3> QED
      BY <3>1, <3>2
  <2> HIDE DEF x, y, k
  <2>4. x = y
    BY <2>1, <2>2, <2>3, SeqEqual
  <2> QED
    BY <1>2, <2>4 DEF x, y, k
<1>7. SubSeq(s, 1, n) \o SubSeq(rest, 1, m - n) = SubSeq(s, 1, m)
  <2> DEFINE a == SubSeq(s, 1, n)
             b == SubSeq(rest, 1, k)
             c == SubSeq(s, 1, m)
  <2>1. a \in Seq(S) /\ Len(a) = n /\ b \in Seq(S) /\ Len(b) = m - n /\ c \in Seq(S) /\ Len(c) = m
    BY <1>3, <1>4, <1>5
  <2>2. \A i \in 1 .. n : a[i] = c[i]
    BY <1>1, <1>3, <1>4
  <2>3. ASSUME NEW j \in 1 .. m - n
        PROVE  b[j] = c[n + j]
    <3>1. j \in 1 .. k /\ j \in 1 .. Len(s) - n /\ n + j \in 1 .. m
      BY <1>1
    <3> QED
      BY <1>2, <1>4, <1>5, <3>1
  <2> HIDE DEF a, b, c, k
  <2>4. a \o b \in Seq(S) /\ Len(a \o b) = m
        /\ \A i \in 1 .. m : (a \o b)[i] = IF i <= n THEN a[i] ELSE b[i - n]
    <3>1. n + (m - n) = m
      BY <1>1
    <3>2. a \o b \in Seq(S) /\ Len(a \o b) = Len(a) + Len(b)
          /\ \A i \in 1 .. Len(a) + Len(b) : (a \o b)[i] = IF i <= Len(a) THEN a[i] ELSE b[i - Len(a)]
      BY <2>1, ConcatProperties
    <3>3. Len(a) = n /\ Len(a) + Len(b) = m
      BY <2>1, <3>1
    <3> QED
      BY <3>2, <3>3
  <2>5. ASSUME NEW i \in 1 .. m
        PROVE  (a \o b)[i] = c[i]
    <3>1. CASE i <= n
      BY <1>1, <2>2, <2>4, <3>1
    <3>2. CASE i > n
      <4>1. i - n \in 1 .. m - n /\ n + (i - n) = i
        BY <1>1, <3>2
      <4> QED
        BY <2>3, <2>4, <3>2, <4>1
    <3>3. i <= n \/ i > n
      BY <1>1
    <3> QED
      BY <3>1, <3>2, <3>3
  <2>6. a \o b = c
    BY <2>1, <2>4, <2>5, SeqEqual
  <2> QED
    BY <2>6 DEF a, b, c, k
<1> QED
  BY <1>6, <1>7 DEF rest

-----------------------------------------------------------------------------
(* The ring implements the queue.                                           *)

(***************************************************************************)
(* Cutting and joining at the ends changes nothing.                         *)
(***************************************************************************)
LEMMA Ends ==
  ASSUME NEW S, NEW c \in Seq(S)
  PROVE  /\ SubSeq(c, 1, Len(c)) = c
         /\ SubSeq(c, 1, 0) = <<>>
         /\ c \o <<>> = c
         /\ <<>> \o c = c
<1>1. SubSeq(c, 1, Len(c)) = c
  BY SubSeqFull
<1>2. SubSeq(c, 1, 0) = <<>>
  BY SubSeqEmpty
<1>3. c \o <<>> = c /\ <<>> \o c = c
  BY ConcatEmptySeq
<1> QED
  BY <1>1, <1>2, <1>3

\* In which order three parts are joined does not matter.
LEMMA JoinsAssociate == \A a, b, c \in Seq(Byte) : (a \o b) \o c = a \o (b \o c)
  BY ConcatAssociative

(***************************************************************************)
(* While no rp_fifo_get is running, the queue is the content and what the   *)
(* running rp_fifo_put will add.                                            *)
(***************************************************************************)
LEMMA QueueOutsideGet ==
  ASSUME TypeOK, want = 0
  PROVE  /\ Pledged = Content \o src
         /\ Handed = dest
<1>1. Content \in Seq(Byte) /\ Len(Content) = count
  BY ContentIsSeq
<1>2. SubSeq(Content, 1, count) = Content /\ SubSeq(Content, 1, 0) = <<>>
  BY <1>1, Ends
<1>3. dest \o <<>> = dest
  BY Ends DEF TypeOK
<1>4. SubSeq(Content, want + 1, count) = Content /\ SubSeq(Content, 1, want) = <<>>
  BY <1>2
<1> QED
  BY <1>3, <1>4 DEF Pledged, Handed

\* The same, as a state predicate that can be primed.
SeenOutsideGet == TypeOK /\ want = 0 => Pledged = Content \o src /\ Handed = dest

LEMMA QueueOutsideGetAlways == SeenOutsideGet
  BY QueueOutsideGet DEF SeenOutsideGet

\* The same of the state a step leads to.
LEMMA QueueOutsideGetNext == SeenOutsideGet'
  BY QueueOutsideGetAlways, PTL

\* Initially the queue is empty.
LEMMA QueueInit == Init => Queue!Init
<1> SUFFICES ASSUME Init
             PROVE  Queue!Init
  OBVIOUS
<1>1. TypeOK /\ want = 0 /\ src = <<>> /\ dest = <<>> /\ count = 0
  BY RingInit DEF RingOK, Init
<1>2. Pledged = Content \o src /\ Handed = dest
  BY <1>1, QueueOutsideGet
<1>3. Content = <<>>
  <2>1. Content \in Seq(Byte) /\ Len(Content) = 0
    BY <1>1, ContentIsSeq
  <2> QED
    BY <2>1, EmptySeq
<1>4. <<>> \o <<>> = <<>>
  BY EmptySeq, ConcatEmptySeq
<1> QED
  BY <1>1, <1>2, <1>3, <1>4 DEF Queue!Init

(***************************************************************************)
(* The step that starts an rp_fifo_put is the queue's put, the one that     *)
(* starts an rp_fifo_get its take, and the copy loops change nothing that   *)
(* can be seen; the raw windows put and take at once.                       *)
(***************************************************************************)
LEMMA QueueNext == RingOK /\ RingOK' /\ [Next]_vars => [Queue!Next]_(Queue!qvars)
<1> SUFFICES ASSUME RingOK, RingOK', [Next]_vars
             PROVE  Queue!Next \/ (Pledged' = Pledged /\ Handed' = Handed)
  BY DEF Queue!qvars
<1>0. /\ TypeOK /\ TailFollowsHead /\ OneCall /\ TypeOK'
      /\ Capacity \in Nat /\ count \in 0 .. Capacity /\ Len(src) \in Nat
      /\ src \in Seq(Byte) /\ dest \in Seq(Byte) /\ want \in Nat
      /\ Content \in Seq(Byte) /\ Len(Content) = count
  BY FifoAssumption, LenProperties, ContentIsSeq DEF RingOK, TypeOK
<1>1. ASSUME NEW s \in Strings, Put(s)
      PROVE  Queue!Put(s)
  <2> DEFINE P == SubSeq(s, 1, Lesser(Len(s), Capacity - count))
  <2>1. /\ src = <<>> /\ want = 0 /\ src' = P
        /\ UNCHANGED <<buffer, head, tail, count, want, dest>>
    BY <1>1 DEF Put, Idle, ring, BytesFree
  <2>2. Content' = Content
    BY <2>1 DEF Content, Position
  <2>3. Pledged = Content /\ Handed = dest
    BY <1>0, <2>1, QueueOutsideGet, Ends
  <2>4. Pledged' = Content \o P /\ Handed' = dest
    BY <1>0, <2>1, <2>2, QueueOutsideGetNext DEF SeenOutsideGet
  <2> QED
    BY <1>0, <2>3, <2>4 DEF Queue!Put, Queue!Lesser, Lesser
<1>2. ASSUME NEW s \in Strings, RawWrite(s)
      PROVE  Queue!Put(s)
  <2>1. /\ src = <<>> /\ want = 0 /\ src' = <<>> /\ want' = 0 /\ dest' = dest
        /\ Len(s) <= RawW /\ Reserve(s) /\ s \in Seq(Byte) /\ Len(s) \in Nat
    BY <1>2, FifoAssumption, LenProperties DEF RawWrite, Idle
  <2>2. Content' = Content \o s /\ Content' \in Seq(Byte)
    <3>1. Content' = Content \o s
      BY <1>0, <2>1, ReserveAppends
    <3>2. Content \o s \in Seq(Byte)
      BY <1>0, <2>1, ConcatProperties
    <3> QED
      BY <3>1, <3>2
  <2>3. Pledged = Content /\ Handed = dest
    BY <1>0, <2>1, QueueOutsideGet, Ends
  <2>4. Pledged' = Content' /\ Handed' = dest
    BY <1>0, <2>1, <2>2, QueueOutsideGetNext, Ends DEF SeenOutsideGet
  <2>5. Len(s) <= Capacity - Len(Pledged) /\ Len(Pledged) = count
    BY <1>0, <2>1, <2>3 DEF RawW, Lesser, BytesFree, TypeOK, Slot
  <2>6. SubSeq(s, 1, Queue!Lesser(Len(s), Capacity - Len(Pledged))) = s
    <3>1. Queue!Lesser(Len(s), Capacity - Len(Pledged)) = Len(s)
      BY <1>0, <2>1, <2>5 DEF Queue!Lesser
    <3> QED
      BY <2>1, <3>1, Ends
  <2> QED
    BY <2>2, <2>3, <2>4, <2>6 DEF Queue!Put
<1>3. ASSUME NEW n \in 0 .. Capacity + 1, Get(n)
      PROVE  \E k \in 0 .. Len(Pledged) : Queue!Take(k)
  <2> DEFINE k == Lesser(n, count)
  <2>1. /\ src = <<>> /\ want = 0 /\ want' = k /\ src' = <<>> /\ dest' = <<>>
        /\ UNCHANGED <<buffer, head, tail, count>>
    BY <1>3 DEF Get, Idle, ring
  <2>2. k \in 0 .. count
    BY <1>0 DEF Lesser
  <2> HIDE DEF k
  <2>3. Content' = Content
    BY <2>1 DEF Content, Position
  <2>4. Pledged = Content /\ Len(Pledged) = count
    BY <1>0, <2>1, QueueOutsideGet, Ends
  <2>5. Pledged' = SubSeq(Content, k + 1, count) \o <<>>
        /\ Handed' = <<>> \o SubSeq(Content, 1, k)
    BY <2>1, <2>3 DEF Pledged, Handed
  <2>6. SubSeq(Content, k + 1, count) \in Seq(Byte) /\ SubSeq(Content, 1, k) \in Seq(Byte)
    BY <1>0, <2>2, CutSeq
  <2>7. Pledged' = SubSeq(Content, k + 1, count) /\ Handed' = SubSeq(Content, 1, k)
    BY <2>5, <2>6, Ends
  <2>8. Queue!Take(k)
    BY <2>4, <2>7 DEF Queue!Take
  <2> QED
    BY <2>2, <2>4, <2>8
<1>4. ASSUME NEW n \in 0 .. Capacity + 1, RawRead(n)
      PROVE  \E k \in 0 .. Len(Pledged) : Queue!Take(k)
  <2>1. /\ src = <<>> /\ want = 0 /\ want' = 0 /\ src' = <<>> /\ dest' = AtHead(n)
        /\ n \in Nat /\ n <= RawR /\ Consume(n)
    BY <1>0, <1>4 DEF RawRead, Idle
  <2>2. Content' = SubSeq(Content, n + 1, count) /\ dest' = SubSeq(Content, 1, n)
    BY <1>0, <2>1, ConsumeDrops, WindowIsPrefix
  <2>3. n \in 0 .. count
    BY <1>0, <2>1 DEF RawR, Lesser, TypeOK, Slot
  <2>4. Content' \in Seq(Byte)
    BY <1>0, <2>2, <2>3, CutSeq
  <2>5. Pledged = Content /\ Len(Pledged) = count
    BY <1>0, <2>1, QueueOutsideGet, Ends
  <2>6. Pledged' = Content' /\ Handed' = dest'
    BY <1>0, <2>1, <2>4, QueueOutsideGetNext, Ends DEF SeenOutsideGet
  <2>7. Queue!Take(n)
    BY <2>2, <2>5, <2>6 DEF Queue!Take
  <2> QED
    BY <2>3, <2>5, <2>7
<1>5. CASE PutCopy
  <2> DEFINE n == Lesser(Len(src), Capacity - tail)
             P == SubSeq(src, 1, n)
             R == SubSeq(src, n + 1, Len(src))
  <2>1. src # <<>> /\ Reserve(P) /\ src' = R /\ UNCHANGED <<want, dest>>
    BY <1>5 DEF PutCopy
  <2>2. n \in 0 .. Len(src) /\ n <= RawW /\ want = 0 /\ want' = 0
    BY <1>0, <2>1 DEF Lesser, RawW, BytesFree, TypeOK, Slot, OneCall
  <2> HIDE DEF n
  <2>3. P \in Seq(Byte) /\ Len(P) = n /\ R \in Seq(Byte) /\ P \o R = src
    BY <1>0, <2>2, CutSeq, CutAndJoin
  <2> HIDE DEF P, R
  <2>4. Content' = Content \o P
    BY <1>0, <2>1, <2>2, <2>3, ReserveAppends
  <2>5. Pledged = Content \o src /\ Handed = dest
    BY <1>0, <2>2, QueueOutsideGet
  <2>6. Pledged' = (Content \o P) \o R /\ Handed' = dest
    BY <1>0, <2>1, <2>2, <2>4, QueueOutsideGetNext DEF SeenOutsideGet
  <2>7. (Content \o P) \o R = Content \o (P \o R)
    <3>1. Content \in Seq(Byte)
      BY <1>0
    <3> QED
      BY <2>3, <3>1, JoinsAssociate, Zenon
  <2> QED
    BY <2>3, <2>5, <2>6, <2>7
<1>6. CASE GetCopy
  <2> DEFINE n == Lesser(want, Capacity - head)
             rest == SubSeq(Content, n + 1, count)
  <2>1. /\ want > 0 /\ dest' = dest \o AtHead(n) /\ Consume(n)
        /\ want' = want - n /\ src' = src
    BY <1>6 DEF GetCopy
  <2>2. n \in 0 .. want /\ n <= RawR /\ want \in 0 .. count /\ src = <<>>
    BY <1>0, <2>1 DEF Lesser, RawR, TypeOK, Slot, OneCall
  <2>3. n \in Nat /\ n \in 0 .. count
    BY <1>0, <2>2
  <2> HIDE DEF n
  <2>4. Content' = rest /\ count' = count - n /\ AtHead(n) = SubSeq(Content, 1, n)
    BY <1>0, <2>1, <2>2, <2>3, ConsumeDrops, WindowIsPrefix
  <2>5. /\ SubSeq(rest, want - n + 1, count - n) = SubSeq(Content, want + 1, count)
        /\ SubSeq(Content, 1, n) \o SubSeq(rest, 1, want - n) = SubSeq(Content, 1, want)
    BY <1>0, <2>2, CutTwice
  <2>6. /\ rest \in Seq(Byte) /\ Len(rest) = count - n /\ SubSeq(Content, 1, n) \in Seq(Byte)
    BY <1>0, <2>3, CutSeq
  <2> HIDE DEF rest
  <2>7. SubSeq(rest, 1, want - n) \in Seq(Byte)
    <3>1. want - n \in 0 .. Len(rest)
      BY <1>0, <2>2, <2>6
    <3> QED
      BY <2>6, <3>1, CutSeq
  <2>8. Pledged' = SubSeq(rest, want - n + 1, count - n) \o src
    BY <2>1, <2>4 DEF Pledged
  <2>9. Pledged' = Pledged
    BY <2>5, <2>8 DEF Pledged
  <2>10. Handed' = (dest \o SubSeq(Content, 1, n)) \o SubSeq(rest, 1, want - n)
    BY <2>1, <2>4 DEF Handed
  <2>11. (dest \o SubSeq(Content, 1, n)) \o SubSeq(rest, 1, want - n)
           = dest \o (SubSeq(Content, 1, n) \o SubSeq(rest, 1, want - n))
    <3>1. dest \in Seq(Byte)
      BY <1>0
    <3> QED
      BY <2>6, <2>7, <3>1, JoinsAssociate, Zenon
  <2>12. Handed' = Handed
    BY <2>5, <2>10, <2>11 DEF Handed
  <2> QED
    BY <2>9, <2>12
<1>7. CASE UNCHANGED vars
  BY <1>7 DEF vars, Pledged, Handed, Content, Position
<1> QED
  BY <1>1, <1>2, <1>3, <1>4, <1>5, <1>6, <1>7 DEF Next, Queue!Next

(***************************************************************************)
(* rp_fifo is a bounded queue of bytes: nothing put is lost, duplicated,    *)
(* reordered or invented, whatever the capacity and wherever the ring wraps. *)
(***************************************************************************)
THEOREM FifoImplementsQueue == Spec => ImplementsQueue
<1>1. Spec => []RingOK
  BY RingInit, RingNext, PTL DEF Spec
<1> QED
  BY <1>1, QueueInit, QueueNext, PTL DEF Spec, ImplementsQueue, Queue!Spec
=============================================================================
