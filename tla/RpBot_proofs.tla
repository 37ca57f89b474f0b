---------------------------- MODULE RpBot_proofs ----------------------------
(***************************************************************************)
(* Of the bot: its rings hold what fits, whatever is put into them; its     *)
(* parser goes from stage to stage of a message, across reads, ends of the  *)
(* ring and connections; the ring hands the parser the bytes that were      *)
(* read, in their order; so it is where one run over these bytes would be,  *)
(* and handles the lines of the stream.                                     *)
(*                                                                         *)
(* The lines: what one run has handled after each byte is what the lines    *)
(* up to there mean (OfStream, byte by byte).  The output: what is due      *)
(* after each byte parsed (AtByte) grows by the answer of a message where   *)
(* it ends and by a login where it comes, and by nothing else; a put        *)
(* appends it, or, with write_buf full, a first part of it (OutInv).        *)
(***************************************************************************)
EXTENDS RpBot, RpIrcsm_proofs

\* What the texts of an answer are made of.
Piece ==
  Byte \cup {"PONG ", "JOIN ", "\r\n", "NICK ", "\r\nUSER ", " 8 * :",
             Channel, MyNick, MyLogin, MyName}
\* A text.
Chunk == Seq(Piece)

\* The units so far, one text after the other.
UnitsRun(texts, f) ==
  /\ f[0] = <<>>
  /\ \A i \in 1 .. Len(texts) :
       f[i] = IF texts[i] = <<>> THEN f[i - 1] ELSE Append(f[i - 1], texts[i])

\* What is put is where such a run ends.
LEMMA UnitsSteps ==
  ASSUME NEW texts \in Seq(Chunk)
  PROVE  \E f : /\ UnitsRun(texts, f) /\ Units(texts) = f[Len(texts)]
                /\ f[Len(texts)] \in Seq(Chunk)
<1> DEFINE n == Len(texts)
           Queues == Seq(Chunk)
           Kept(s, i) == IF texts[i] = <<>> THEN s ELSE Append(s, texts[i])
           next == [i \in 1 .. n |-> [s \in Queues |-> Kept(s, i)]]
           Is(kept) ==
             kept = [k \in 0 .. n |->
                       IF k = 0 THEN <<>>
                       ELSE IF texts[k] = <<>> THEN kept[k - 1] ELSE Append(kept[k - 1], texts[k])]
           kept == CHOOSE kept : Is(kept)
<1>1. n \in Nat /\ (\A i \in 1 .. n : texts[i] \in Chunk) /\ <<>> \in Queues
  OBVIOUS
<1>2. \A i \in 1 .. n, s \in Queues : Kept(s, i) \in Queues
  BY <1>1
<1>3. next \in [1 .. n -> [Queues -> Queues]]
  <2> HIDE DEF Kept, Queues, n
  <2> QED
    BY <1>2
<1>4. \A f \in [0 .. n -> Queues] :
        f[0] = <<>> /\ (\A i \in 1 .. n : f[i] = next[i][f[i - 1]]) => Is(f)
  <2> SUFFICES ASSUME NEW f \in [0 .. n -> Queues], f[0] = <<>>,
                      \A i \in 1 .. n : f[i] = next[i][f[i - 1]]
               PROVE  Is(f)
    OBVIOUS
  <2>1. ASSUME NEW i \in 1 .. n
        PROVE  f[i] = Kept(f[i - 1], i)
    <3>1. i - 1 \in 0 .. n
      BY <1>1
    <3> HIDE DEF Kept, Queues, n
    <3>2. f[i - 1] \in Queues
      BY <3>1
    <3> QED
      BY <3>2
  <2>2. \A i \in 0 .. n :
          f[i] = IF i = 0 THEN <<>>
                 ELSE IF texts[i] = <<>> THEN f[i - 1] ELSE Append(f[i - 1], texts[i])
    <3> TAKE i \in 0 .. n
    <3>1. CASE i = 0
      BY <3>1
    <3>2. CASE i # 0
      <4>1. i \in 1 .. n
        BY <3>2, <1>1
      <4> HIDE DEF next, n, Queues
      <4> QED
        BY <4>1, <3>2, <2>1
    <3> QED
      BY <3>1, <3>2
  <2> HIDE DEF n, Queues
  <2> QED
    BY <2>2
<1>5. \E f : Is(f)
  <2> DEFINE begin == <<>>
  <2>1. \A f \in [0 .. n -> Queues] :
          f[0] = begin /\ (\A i \in 1 .. n : f[i] = next[i][f[i - 1]]) => Is(f)
    BY <1>4
  <2>2. n \in Nat /\ begin \in Queues
    BY <1>1
  <2> HIDE DEF n, next, Is, Queues, begin
  <2>3. \E f \in [0 .. n -> Queues] :
          f[0] = begin /\ \A i \in 1 .. n : f[i] = next[i][f[i - 1]]
    BY <1>3, <2>2, RecursionUpTo
  <2> QED
    BY <2>1, <2>3, Zenon
<1>6. Is(kept)
  <2> HIDE DEF Is
  <2> QED
    BY <1>5
<1>7. kept[0] = <<>> /\ \A i \in 1 .. n : kept[i] = Kept(kept[i - 1], i)
  <2> HIDE DEF kept, n
  <2>1. 0 \in 0 .. n /\ \A i \in 1 .. n : i \in 0 .. n /\ i # 0
    BY <1>1
  <2> QED
    BY <1>6, <2>1
<1> HIDE DEF kept, n
<1> DEFINE S == {i \in 0 .. n : kept[i] \in Queues}
<1>8. 0 \in S
  <2> HIDE DEF Queues
  <2> QED
    BY <1>1, <1>7
<1>9. ASSUME NEW i \in 1 .. n, i - 1 \in S
      PROVE  i \in S
  <2>1. kept[i - 1] \in Queues /\ i \in 0 .. n
    BY <1>1, <1>9
  <2>2. kept[i] = Kept(kept[i - 1], i)
    BY <1>7
  <2> HIDE DEF Kept, Queues
  <2> QED
    BY <2>1, <2>2, <1>2
<1>10. n \in S
  <2> HIDE DEF S
  <2>1. 0 .. n \subseteq S
    BY <1>1, <1>8, <1>9, InductionUpTo
  <2> QED
    BY <1>1, <2>1
<1>11. Units(texts) = kept[n]
  BY DEF Units, kept, n
<1>12. UnitsRun(texts, kept)
  BY <1>7 DEF UnitsRun, n
<1>13. UnitsRun(texts, kept) /\ Units(texts) = kept[n] /\ kept[n] \in Seq(Chunk)
  BY <1>10, <1>11, <1>12
<1> QED
  BY <1>13 DEF n

\* What is put are texts.
LEMMA UnitsType ==
  ASSUME NEW texts \in Seq(Chunk)
  PROVE  Units(texts) \in Seq(Chunk)
BY UnitsSteps

\* The login is made of texts.
LEMMA HelloType == Hello \in Seq(Chunk)
<1> DEFINE Text1(x) == <<x>>
<1>1. \A x \in Piece : <<x>> \in Chunk
  BY DEF Chunk
<1>2. /\ <<"NICK ">> \in Chunk /\ <<MyNick>> \in Chunk /\ <<"\r\nUSER ">> \in Chunk
      /\ <<MyLogin>> \in Chunk /\ <<" 8 * :">> \in Chunk /\ <<MyName>> \in Chunk
      /\ <<"\r\n">> \in Chunk
  BY <1>1 DEF Piece
<1> HIDE DEF Chunk
<1>3. \A a, b, c, d, x, y, z \in Chunk : <<a, b, c, d, x, y, z>> \in Seq(Chunk)
  OBVIOUS
<1> QED
  BY <1>2, <1>3 DEF Hello

\* What a handler answers is made of texts.
LEMMA HandlerOutputType ==
  ASSUME NEW m \in Msg, NEW handler
  PROVE  HandlerOutput(handler, m) \in Seq(Chunk)
<1>1. \A x \in Piece : <<x>> \in Chunk
  BY DEF Chunk
<1>2. /\ <<"PONG ">> \in Chunk /\ <<"JOIN ">> \in Chunk /\ <<Channel>> \in Chunk
      /\ <<"\r\n">> \in Chunk
  BY <1>1 DEF Piece
<1>3. m.params \in Chunk
  <2>1. m.params \in Seq(Byte) /\ Byte \subseteq Piece
    BY DEF Msg, Piece
  <2> QED
    BY <2>1 DEF Chunk
<1> HIDE DEF Chunk
<1>4. \A a, b, c \in Chunk : <<a, b, c>> \in Seq(Chunk)
  OBVIOUS
<1> QED
  BY <1>2, <1>3, <1>4 DEF HandlerOutput, HandlePing, HandleAuth

\* The table has one handler for PING and one for 004.
LEMMA HandlersShape ==
  /\ DOMAIN Handlers = {PING, AUTH}
  /\ Handlers[PING] = <<"ping">> /\ Handlers[AUTH] = <<"auth">>
<1> DEFINE H == RegisterHandler(NoHandlers, PING, "ping")
<1>0. PING # AUTH
  BY DEF PING, AUTH
<1>1. DOMAIN H = {PING} /\ H[PING] = <<"ping">>
  <2>1. DOMAIN NoHandlers = {}
    BY DEF NoHandlers
  <2>2. DOMAIN H = {PING} /\ H[PING] = Append(<<>>, "ping")
    BY <2>1 DEF RegisterHandler
  <2> QED
    BY <2>2
<1> HIDE DEF H
<1>2. /\ DOMAIN RegisterHandler(H, AUTH, "auth") = {PING, AUTH}
      /\ RegisterHandler(H, AUTH, "auth")[PING] = <<"ping">>
      /\ RegisterHandler(H, AUTH, "auth")[AUTH] = <<"auth">>
  <2>1. /\ DOMAIN RegisterHandler(H, AUTH, "auth") = {PING, AUTH}
        /\ RegisterHandler(H, AUTH, "auth")[PING] = H[PING]
        /\ RegisterHandler(H, AUTH, "auth")[AUTH] = Append(<<>>, "auth")
    BY <1>0, <1>1 DEF RegisterHandler
  <2> QED
    BY <1>1, <2>1
<1> QED
  BY <1>2 DEF H, Handlers

\* The handlers of a message, and what they answer, one after the other.
HandlersOf(m) == IF SeenCode(m) \in DOMAIN Handlers THEN Handlers[SeenCode(m)] ELSE <<>>
OutputRun(m, f) ==
  /\ f[0] = <<>>
  /\ \A i \in 1 .. Len(HandlersOf(m)) : f[i] = f[i - 1] \o HandlerOutput(HandlersOf(m)[i], m)

\* What they answer together is where such a run ends.
LEMMA OutputSteps ==
  ASSUME NEW m \in Msg
  PROVE  \E f : /\ OutputRun(m, f) /\ Output(m) = f[Len(HandlersOf(m))]
                /\ f[Len(HandlersOf(m))] \in Seq(Chunk)
<1> DEFINE list == HandlersOf(m)
           n == Len(list)
           Queues == Seq(Chunk)
           More(s, k) == s \o HandlerOutput(list[k], m)
           next == [k \in 1 .. n |-> [s \in Queues |-> More(s, k)]]
           Is(upto) ==
             upto = [k \in 0 .. n |->
                       IF k = 0 THEN <<>> ELSE upto[k - 1] \o HandlerOutput(list[k], m)]
           upto == CHOOSE upto : Is(upto)
<1>1. n \in Nat /\ <<>> \in Queues
  <2>1. list \in {<<>>, <<"ping">>, <<"auth">>}
    BY HandlersShape DEF HandlersOf
  <2> HIDE DEF list
  <2> QED
    BY <2>1
<1> HIDE DEF list, n
<1>2. \A k, s : s \in Queues => More(s, k) \in Queues
  <2>1. \A s, t \in Queues : s \o t \in Queues
    OBVIOUS
  <2> HIDE DEF Queues
  <2>2. \A k : HandlerOutput(list[k], m) \in Queues
    BY HandlerOutputType DEF Queues
  <2> QED
    BY <2>1, <2>2
<1>3. next \in [1 .. n -> [Queues -> Queues]]
  <2> HIDE DEF More, Queues
  <2> QED
    BY <1>2
<1>4. \A f \in [0 .. n -> Queues] :
        f[0] = <<>> /\ (\A i \in 1 .. n : f[i] = next[i][f[i - 1]]) => Is(f)
  <2> SUFFICES ASSUME NEW f \in [0 .. n -> Queues], f[0] = <<>>,
                      \A i \in 1 .. n : f[i] = next[i][f[i - 1]]
               PROVE  Is(f)
    OBVIOUS
  <2>1. ASSUME NEW i \in 1 .. n
        PROVE  f[i] = More(f[i - 1], i)
    <3>1. i - 1 \in 0 .. n
      BY <1>1
    <3> HIDE DEF More, Queues
    <3>2. f[i - 1] \in Queues
      BY <3>1
    <3> QED
      BY <3>2
  <2>2. \A i \in 0 .. n :
          f[i] = IF i = 0 THEN <<>> ELSE f[i - 1] \o HandlerOutput(list[i], m)
    <3> TAKE i \in 0 .. n
    <3>1. CASE i = 0
      BY <3>1
    <3>2. CASE i # 0
      <4>1. i \in 1 .. n
        BY <3>2, <1>1
      <4> HIDE DEF next, Queues
      <4> QED
        BY <4>1, <3>2, <2>1
    <3> QED
      BY <3>1, <3>2
  <2> HIDE DEF Queues
  <2> QED
    BY <2>2
<1>5. \E f : Is(f)
  <2> DEFINE begin == <<>>
  <2>1. \A f \in [0 .. n -> Queues] :
          f[0] = begin /\ (\A i \in 1 .. n : f[i] = next[i][f[i - 1]]) => Is(f)
    BY <1>4
  <2>2. n \in Nat /\ begin \in Queues
    BY <1>1
  <2> HIDE DEF next, Is, Queues, begin
  <2>3. \E f \in [0 .. n -> Queues] :
          f[0] = begin /\ \A i \in 1 .. n : f[i] = next[i][f[i - 1]]
    BY <1>3, <2>2, RecursionUpTo
  <2> QED
    BY <2>1, <2>3, Zenon
<1>6. Is(upto)
  <2> HIDE DEF Is
  <2> QED
    BY <1>5
<1>7. upto[0] = <<>> /\ \A i \in 1 .. n : upto[i] = More(upto[i - 1], i)
  <2> HIDE DEF upto
  <2>1. 0 \in 0 .. n /\ \A i \in 1 .. n : i \in 0 .. n /\ i # 0
    BY <1>1
  <2> QED
    BY <1>6, <2>1
<1> HIDE DEF upto, Queues, More
<1> DEFINE S == {i \in 0 .. n : upto[i] \in Queues}
<1>8. 0 \in S
  BY <1>1, <1>7
<1>9. ASSUME NEW i \in 1 .. n, i - 1 \in S
      PROVE  i \in S
  <2>1. upto[i - 1] \in Queues /\ i \in 0 .. n
    BY <1>1, <1>9
  <2> QED
    BY <2>1, <1>7, <1>2
<1>10. n \in S
  <2> HIDE DEF S
  <2>1. 0 .. n \subseteq S
    BY <1>1, <1>8, <1>9, InductionUpTo
  <2> QED
    BY <1>1, <2>1
<1>11. Output(m) = upto[n]
  BY DEF Output, upto, n, list, HandlersOf
<1>12. OutputRun(m, upto)
  BY <1>7 DEF OutputRun, More, n, list
<1>13. OutputRun(m, upto) /\ Output(m) = upto[n] /\ upto[n] \in Seq(Chunk)
  BY <1>10, <1>11, <1>12 DEF Queues
<1> QED
  BY <1>13 DEF n, list

\* What the handlers of a message answer is made of texts.
LEMMA OutputType ==
  ASSUME NEW m \in Msg
  PROVE  Output(m) \in Seq(Chunk)
BY OutputSteps

\* A put never takes more room than there is, and never touches what is queued.
LEMMA PutFits ==
  ASSUME write_buf \in Seq(Chunk), Len(write_buf) <= WriteCapacity,
         NEW texts \in Seq(Chunk), Put(texts)
  PROVE  /\ write_buf' \in Seq(Chunk) /\ Len(write_buf') <= WriteCapacity
         /\ Len(write_buf') \in Nat
<1> DEFINE units == Units(texts)
           room == WriteCapacity - Len(write_buf)
           kept == Lesser(Len(units), room)
<1>1. units \in Seq(Chunk)
  BY UnitsType
<1>2. room \in Nat /\ Len(write_buf) \in Nat
  BY IrcAssumption
<1> HIDE DEF units
<1>3. Len(units) \in Nat
  BY <1>1
<1>4. kept \in Nat /\ kept <= Len(units) /\ kept <= room
  BY <1>2, <1>3 DEF Lesser
<1>5. write_buf' = write_buf \o SubSeq(units, 1, kept)
  BY DEF Put, units
<1> HIDE DEF kept
<1>6. SubSeq(units, 1, kept) \in Seq(Chunk) /\ Len(SubSeq(units, 1, kept)) = kept
  BY <1>1, <1>3, <1>4
<1> DEFINE front == SubSeq(units, 1, kept)
<1> HIDE DEF front
<1>7. front \in Seq(Chunk) /\ Len(front) = kept
  BY <1>6 DEF front
<1>8. write_buf \o front \in Seq(Chunk) /\ Len(write_buf \o front) = Len(write_buf) + kept
  BY <1>7
<1>9. write_buf' = write_buf \o front
  BY <1>5 DEF front
<1> QED
  BY <1>2, <1>4, <1>8, <1>9, IrcAssumption

\* The rest of a queue,
LEMMA FromLen ==
  ASSUME NEW queue \in Seq(Byte), NEW k \in 0 .. Len(queue)
  PROVE  /\ From(queue, k) \in Seq(Byte) /\ Len(From(queue, k)) = Len(queue) - k
         /\ \A i \in 1 .. Len(queue) - k : From(queue, k)[i] = queue[k + i]
BY DEF From

\* its first part,
LEMMA UptoLen ==
  ASSUME NEW queue \in Seq(Byte), NEW k \in 0 .. Len(queue)
  PROVE  /\ Upto(queue, k) \in Seq(Byte) /\ Len(Upto(queue, k)) = k
         /\ \A i \in 1 .. k : Upto(queue, k)[i] = queue[i]
BY DEF Upto

\* and two queues one after the other.
LEMMA ConcatLen ==
  ASSUME NEW queue \in Seq(Byte), NEW more \in Seq(Byte)
  PROVE  /\ queue \o more \in Seq(Byte)
         /\ Len(queue \o more) = Len(queue) + Len(more)
OBVIOUS

\* Two sequences of one length and with the same members are one.
LEMMA SameSequence ==
  ASSUME NEW s \in Seq(Byte), NEW t \in Seq(Byte), Len(s) = Len(t),
         \A i \in 1 .. Len(s) : s[i] = t[i]
  PROVE  s = t
OBVIOUS

\* The rest of the rest.
LEMMA FromFrom ==
  ASSUME NEW queue \in Seq(Byte), NEW j \in Nat, NEW k \in Nat, j + k <= Len(queue)
  PROVE  From(From(queue, j), k) = From(queue, j + k)
<1> DEFINE tail == From(queue, j)
           l == From(tail, k)
           r == From(queue, j + k)
<1>0. Len(queue) \in Nat /\ j \in 0 .. Len(queue) /\ j + k \in 0 .. Len(queue)
  OBVIOUS
<1>1. /\ tail \in Seq(Byte) /\ Len(tail) = Len(queue) - j
      /\ \A i \in 1 .. Len(queue) - j : tail[i] = queue[j + i]
  BY <1>0, FromLen
<1> HIDE DEF tail
<1>2. k \in 0 .. Len(tail)
  BY <1>0, <1>1
<1>3. /\ l \in Seq(Byte) /\ Len(l) = Len(tail) - k
      /\ \A i \in 1 .. Len(tail) - k : l[i] = tail[k + i]
  BY <1>1, <1>2, FromLen
<1>4. /\ r \in Seq(Byte) /\ Len(r) = Len(queue) - (j + k)
      /\ \A i \in 1 .. Len(queue) - (j + k) : r[i] = queue[(j + k) + i]
  BY <1>0, FromLen
<1> HIDE DEF l, r
<1>5. Len(l) = Len(r)
  BY <1>0, <1>1, <1>3, <1>4
<1>6. ASSUME NEW i \in 1 .. Len(l)
      PROVE  l[i] = r[i]
  <2>1. /\ i \in 1 .. Len(tail) - k /\ k + i \in 1 .. Len(queue) - j
        /\ i \in 1 .. Len(queue) - (j + k) /\ j + (k + i) = (j + k) + i
    BY <1>0, <1>1, <1>3, <1>5
  <2>2. l[i] = tail[k + i]
    BY <1>3, <2>1
  <2>3. tail[k + i] = queue[j + (k + i)]
    BY <1>1, <2>1
  <2>4. r[i] = queue[(j + k) + i]
    BY <1>4, <2>1
  <2> QED
    BY <2>1, <2>2, <2>3, <2>4
<1>7. l = r
  BY <1>3, <1>4, <1>5, <1>6, SameSequence
<1> QED
  BY <1>7 DEF l, r, tail

\* The rest of a queue that has grown.
LEMMA FromConcat ==
  ASSUME NEW queue \in Seq(Byte), NEW more \in Seq(Byte), NEW k \in 0 .. Len(queue)
  PROVE  From(queue \o more, k) = From(queue, k) \o more
<1> DEFINE all == queue \o more
           l == From(all, k)
           front == From(queue, k)
           r == front \o more
<1>0. Len(queue) \in Nat /\ Len(more) \in Nat
  OBVIOUS
<1>1. /\ all \in Seq(Byte) /\ Len(all) = Len(queue) + Len(more)
      /\ \A i \in 1 .. Len(queue) : all[i] = queue[i]
      /\ \A i \in 1 .. Len(more) : all[Len(queue) + i] = more[i]
  OBVIOUS
<1> HIDE DEF all
<1>2. k \in 0 .. Len(all)
  BY <1>0, <1>1
<1>3. /\ l \in Seq(Byte) /\ Len(l) = Len(all) - k
      /\ \A i \in 1 .. Len(all) - k : l[i] = all[k + i]
  BY <1>1, <1>2, FromLen
<1>4. /\ front \in Seq(Byte) /\ Len(front) = Len(queue) - k
      /\ \A i \in 1 .. Len(queue) - k : front[i] = queue[k + i]
  BY FromLen
<1> HIDE DEF l, front
<1>5. /\ r \in Seq(Byte) /\ Len(r) = Len(front) + Len(more)
      /\ \A i \in 1 .. Len(front) : r[i] = front[i]
      /\ \A i \in 1 .. Len(more) : r[Len(front) + i] = more[i]
  <2>1. front \in Seq(Byte)
    BY <1>4
  <2> QED
    BY <2>1
<1> HIDE DEF r
<1>6. Len(l) = Len(r)
  BY <1>0, <1>1, <1>3, <1>4, <1>5
<1>7. ASSUME NEW i \in 1 .. Len(l)
      PROVE  l[i] = r[i]
  <2>1. l[i] = all[k + i]
    BY <1>3
  <2>2. CASE i <= Len(front)
    <3>1. k + i \in 1 .. Len(queue) /\ i \in 1 .. Len(front) /\ i \in 1 .. Len(queue) - k
      BY <2>2, <1>0, <1>4
    <3>2. all[k + i] = queue[k + i]
      BY <3>1, <1>1
    <3>3. r[i] = front[i]
      BY <3>1, <1>5
    <3>4. front[i] = queue[k + i]
      BY <3>1, <1>4
    <3> QED
      BY <2>1, <3>2, <3>3, <3>4
  <2>3. CASE i > Len(front)
    <3> DEFINE d == i - Len(front)
    <3>1. /\ d \in 1 .. Len(more) /\ Len(front) + d = i /\ Len(queue) + d = k + i
      BY <2>3, <1>0, <1>1, <1>3, <1>4
    <3> HIDE DEF d
    <3>2. all[Len(queue) + d] = more[d]
      BY <3>1, <1>1
    <3>3. r[Len(front) + d] = more[d]
      BY <3>1, <1>5
    <3> QED
      BY <2>1, <3>1, <3>2, <3>3
  <2>4. i \in Nat /\ Len(front) \in Nat
    BY <1>0, <1>4
  <2> QED
    BY <2>2, <2>3, <2>4
<1>8. l = r
  BY <1>3, <1>5, <1>6, <1>7, SameSequence
<1> QED
  BY <1>8 DEF l, r, all, front

\* Between the socket and the parser no byte is lost, doubled or moved: what is in
\* the ring is the end of all that was read.
StreamKept ==
  /\ Len(read_buf) <= Len(stream)
  /\ read_buf = From(stream, Parsed)

\* The inductive invariant.  TypeOK alone is not: that a finished message points
\* into its own prefix depends on what was recorded at each stage of it (Staged).
BotInv ==
  /\ TypeOK
  /\ msg \in Msg /\ Staged(msg, cs)
  /\ write_buf \in Seq(Chunk)
  /\ StreamKept

\* The message of rp_ircsm_msg_init is at the first stage.
LEMMA EmptyMsgStaged ==
  EmptyMsg \in Msg /\ Staged(EmptyMsg, {Start}) /\ {Start} \subseteq Position
<1>1. <<>> \in Seq(Byte) /\ Slice(0, 0) \in Slices
  BY DEF Slice, Slices
<1>2. EmptyMsg \in Msg
  BY <1>1 DEF EmptyMsg, Msg
<1>3. ~EmptyMsg.is_servername /\ ~EmptyMsg.is_hostmask
  BY DEF EmptyMsg
<1>4. Staged(EmptyMsg, {Start})
  BY <1>3 DEF Staged, AtStart, SlicesInPrefix
<1>5. Edge(Start, {":"}, Colon, {"msg_start"}) \in Edges
  BY DEF Edges
<1>6. Start \in Position
  BY <1>5, EdgeFields DEF Position
<1> QED
  BY <1>2, <1>4, <1>6

\* The bot starts in its invariant.
LEMMA BotInit == Init => BotInv
<1> SUFFICES ASSUME Init
             PROVE  BotInv
  OBVIOUS
<1> USE DEF Init, IrcInit
<1>1. msg \in Msg /\ Staged(msg, cs) /\ cs \subseteq Position
  BY EmptyMsgStaged
<1>2. SlicesInPrefix(msg)
  BY <1>1, StagedSlices
<1>3. /\ unread \in Seq(Byte) /\ read_buf \in Seq(Byte) /\ stream \in Seq(Byte)
      /\ write_buf \in Seq(Chunk)
      /\ Len(read_buf) = 0 /\ Len(write_buf) = 0 /\ Len(stream) = 0
  OBVIOUS
<1>4. msg.prefix \in Seq(Byte) /\ msg.code \in Seq(Byte) /\ msg.params \in Seq(Byte)
  BY <1>1 DEF Msg
<1>5. TypeOK
  <2>1. connected \in BOOLEAN /\ link \in BOOLEAN /\ full \in BOOLEAN
    BY Zenon
  <2>2. pc \in {"poll", "drain", "stopped", "undefined"}
    OBVIOUS
  <2>3. Len(read_buf) <= ReadCapacity /\ Len(write_buf) <= WriteCapacity
    BY <1>3, BotAssumption, IrcAssumption
  <2>4. \A q \in {unread, read_buf, stream, msg.prefix, msg.code, msg.params} : q \in Seq(Byte)
    <3> HIDE DEF Init, IrcInit
    <3> QED
      BY <1>3, <1>4
  <2> HIDE DEF Init, IrcInit
  <2> QED
    BY <1>1, <1>2, <2>1, <2>2, <2>3, <2>4 DEF TypeOK
<1>6. StreamKept
  BY <1>3 DEF StreamKept, Parsed, From
<1> QED
  BY <1>1, <1>3, <1>5, <1>6 DEF BotInv

\* The parts of TypeOK.
LEMMA BotTypes ==
  ASSUME BotInv
  PROVE  /\ unread \in Seq(Byte) /\ read_buf \in Seq(Byte) /\ stream \in Seq(Byte)
         /\ Len(unread) \in Nat /\ Len(read_buf) \in Nat /\ Len(stream) \in Nat
         /\ Len(read_buf) <= ReadCapacity /\ Len(write_buf) <= WriteCapacity
         /\ ReadCapacity \in Nat /\ WriteCapacity \in Nat /\ ReadCapacity > 0
         /\ cs \in SUBSET Position /\ SlicesInPrefix(msg)
         /\ pc \in {"poll", "drain", "stopped", "undefined"}
         /\ connected \in BOOLEAN /\ link \in BOOLEAN /\ full \in BOOLEAN
         /\ Parsed \in 0 .. Len(stream)
<1>1. unread \in Seq(Byte) /\ read_buf \in Seq(Byte) /\ stream \in Seq(Byte)
  BY DEF BotInv, TypeOK
<1>2. Len(unread) \in Nat /\ Len(read_buf) \in Nat /\ Len(stream) \in Nat
  BY <1>1
<1>3. Parsed \in 0 .. Len(stream)
  BY <1>2 DEF BotInv, StreamKept, Parsed
<1> QED
  BY <1>1, <1>2, <1>3, BotAssumption, IrcAssumption DEF BotInv, TypeOK

\* What a step has to show for BotInv to hold after it.
LEMMA BotInvNext ==
  ASSUME pc' \in {"poll", "drain", "stopped", "undefined"},
         connected' \in BOOLEAN, link' \in BOOLEAN, full' \in BOOLEAN,
         unread' \in Seq(Byte), read_buf' \in Seq(Byte), stream' \in Seq(Byte),
         Len(read_buf') <= ReadCapacity, Len(write_buf') <= WriteCapacity,
         write_buf' \in Seq(Chunk),
         msg' \in Msg, Staged(msg', cs'), cs' \in SUBSET Position,
         StreamKept'
  PROVE  BotInv'
<1>1. SlicesInPrefix(msg')
  BY StagedSlices
<1>2. msg'.prefix \in Seq(Byte) /\ msg'.code \in Seq(Byte) /\ msg'.params \in Seq(Byte)
  BY DEF Msg
<1>3. TypeOK'
  BY <1>1, <1>2 DEF TypeOK
<1> QED
  BY <1>3 DEF BotInv

\* rp_fifo_raw_r offers the first bytes of the ring, and no more than there is.
LEMMA WindowFits ==
  ASSUME BotInv
  PROVE  /\ Window \in Seq(Byte) /\ Len(Window) <= Len(read_buf)
         /\ \A i \in 1 .. Len(Window) : Window[i] = read_buf[i]
<1> DEFINE k == Lesser(Len(read_buf), ReadCapacity - (Parsed % ReadCapacity))
<1>1. Parsed % ReadCapacity \in 0 .. ReadCapacity - 1
  <2>1. Parsed \in Nat
    BY BotTypes
  <2> QED
    BY <2>1, BotAssumption
<1>2. k \in 0 .. Len(read_buf)
  BY <1>1, BotTypes DEF Lesser
<1> HIDE DEF k
<1>3. read_buf \in Seq(Byte)
  BY BotTypes
<1>4. /\ Upto(read_buf, k) \in Seq(Byte) /\ Len(Upto(read_buf, k)) = k
      /\ \A i \in 1 .. k : Upto(read_buf, k)[i] = read_buf[i]
  BY <1>2, <1>3, UptoLen
<1>5. Window = Upto(read_buf, k)
  BY DEF Window, k
<1> QED
  BY <1>2, <1>4, <1>5, BotTypes

\* What a read does: a part of what had arrived goes into the ring and the stream,
\* and nothing is parsed.
LEMMA ReadEffect ==
  ASSUME BotInv, NEW n \in Amounts(ReadSizes, Readable), ReadSome(n)
  PROVE  LET part == Upto(unread, n) IN
         /\ part \in Seq(Byte) /\ unread' \in Seq(Byte)
         /\ read_buf' = read_buf \o part /\ stream' = stream \o part
         /\ read_buf' \in Seq(Byte) /\ Len(read_buf') = Len(read_buf) + n
         /\ stream' \in Seq(Byte) /\ Len(stream') = Len(stream) + n
         /\ Len(read_buf') <= ReadCapacity
         /\ Parsed' = Parsed
<1> USE BotTypes
<1> DEFINE part == Upto(unread, n)
<1>1. n \in Nat /\ n <= Len(unread) /\ n <= ReadCapacity - Len(read_buf)
  <2>1. Readable \in Nat /\ Readable <= Len(unread) /\ Readable <= ReadCapacity - Len(read_buf)
    BY DEF Readable, Lesser
  <2>2. n \in Nat /\ n <= Readable
    BY <2>1, BotAssumption DEF Amounts
  <2> QED
    BY <2>1, <2>2
<1>2. part \in Seq(Byte) /\ Len(part) = n
  BY <1>1, UptoLen
<1>3. unread' \in Seq(Byte)
  <2>1. n \in 0 .. Len(unread)
    BY <1>1
  <2>2. From(unread, n) \in Seq(Byte)
    BY <2>1, FromLen
  <2>3. unread' = From(unread, n)
    BY DEF ReadSome
  <2> QED
    BY <2>2, <2>3
<1>4. read_buf' = read_buf \o part /\ stream' = stream \o part
  BY DEF ReadSome
<1> HIDE DEF part
<1>5. /\ read_buf' \in Seq(Byte) /\ Len(read_buf') = Len(read_buf) + n
      /\ stream' \in Seq(Byte) /\ Len(stream') = Len(stream) + n
  <2>1. read_buf \in Seq(Byte) /\ stream \in Seq(Byte)
    OBVIOUS
  <2>2. /\ read_buf \o part \in Seq(Byte)
        /\ Len(read_buf \o part) = Len(read_buf) + n
    BY <1>2, <2>1, ConcatLen
  <2>3. /\ stream \o part \in Seq(Byte)
        /\ Len(stream \o part) = Len(stream) + n
    BY <1>2, <2>1, ConcatLen
  <2> QED
    BY <1>4, <2>2, <2>3
<1>6. Parsed' = Parsed
  BY <1>1, <1>5 DEF Parsed
<1>7. Len(read_buf') <= ReadCapacity
  BY <1>1, <1>5
<1> QED
  BY <1>2, <1>3, <1>4, <1>5, <1>6, <1>7 DEF part

\* What a turn of the inner loop does to the ring: what the parser consumed of the
\* window is gone, and nothing else.
LEMMA ParseEffect ==
  ASSUME BotInv, ParseWindow
  PROVE  LET r == Parse(msg, cs, Window) IN
         /\ Window \in Seq(Byte) /\ Len(Window) <= Len(read_buf)
         /\ r \in GoodRuns /\ r.len \in 0 .. Len(read_buf)
         /\ ParseAndHandle(r)
         /\ read_buf' = From(read_buf, r.len)
         /\ handled' = IF Complete(r) THEN Append(handled, Shown(r.msg)) ELSE handled
         /\ read_buf' \in Seq(Byte) /\ Len(read_buf') = Len(read_buf) - r.len
         /\ stream' = stream
         /\ Parsed' = Parsed + r.len
<1> USE BotTypes
<1> DEFINE r == Parse(msg, cs, Window)
<1>1. Window \in Seq(Byte) /\ Len(Window) <= Len(read_buf)
  BY WindowFits
<1>2. r \in GoodRuns /\ r.len <= Len(Window)
  BY <1>1, GoodParse DEF BotInv
<1>3. /\ ParseAndHandle(r) /\ read_buf' = From(read_buf, r.len)
      /\ handled' = IF Complete(r) THEN Append(handled, Shown(r.msg)) ELSE handled
  BY DEF ParseWindow
<1> HIDE DEF r
<1>4. r.len \in Nat
  BY <1>2 DEF GoodRuns
<1>5. r.len \in 0 .. Len(read_buf)
  BY <1>1, <1>2, <1>4
<1>6. read_buf' \in Seq(Byte) /\ Len(read_buf') = Len(read_buf) - r.len
  BY <1>3, <1>5, FromLen
<1>7. stream' = stream
  BY DEF ParseWindow
<1>8. Parsed' = Parsed + r.len
  BY <1>5, <1>6, <1>7 DEF Parsed
<1> QED
  BY <1>1, <1>2, <1>3, <1>5, <1>6, <1>7, <1>8 DEF r

\* Every step keeps the invariant.
LEMMA BotStep == BotInv /\ [Next]_vars => BotInv'
<1> SUFFICES ASSUME BotInv, [Next]_vars
             PROVE  BotInv'
  OBVIOUS
<1> USE BotTypes
<1>0. msg \in Msg /\ Staged(msg, cs) /\ write_buf \in Seq(Chunk) /\ StreamKept
  BY DEF BotInv
\* Where the ring and the stream stay, so does what relates them.
<1>s. ASSUME read_buf' = read_buf, stream' = stream
      PROVE  StreamKept'
  BY <1>0, <1>s DEF StreamKept, Parsed
<1>1. ASSUME NEW line \in Lines, ServerSends(line)
      PROVE  BotInv'
  <2>1. unread' \in Seq(Byte)
    <3>1. line \in Seq(Byte)
      BY BotAssumption
    <3> QED
      BY <1>1, <3>1 DEF ServerSends
  <2>2. StreamKept'
    BY <1>1, <1>s DEF ServerSends, history
  <2> QED
    BY <1>0, <1>1, <2>1, <2>2, BotInvNext DEF ServerSends, irc, loop, history
<1>2. ASSUME Connect
      PROVE  BotInv'
  <2>1. StreamKept'
    BY <1>2, <1>s DEF Connect, history
  <2>2. connected' \in BOOLEAN /\ link' \in BOOLEAN
    BY <1>2, Zenon DEF Connect
  <2> QED
    BY <1>0, <1>2, <2>1, <2>2, BotInvNext DEF Connect, irc, history
<1>3. ASSUME Disconnect
      PROVE  BotInv'
  <2>1. StreamKept'
    BY <1>3, <1>s DEF Disconnect, history
  <2>2. link' \in BOOLEAN
    BY <1>3, Zenon DEF Disconnect
  <2>3. unread' \in Seq(Byte)
    BY <1>3 DEF Disconnect
  <2> QED
    BY <1>0, <1>3, <2>1, <2>2, <2>3, BotInvNext DEF Disconnect, irc, loop, history
<1>4. ASSUME NEW n \in Amounts(ReadSizes, Readable), ReadSome(n)
      PROVE  BotInv'
  <2> DEFINE part == Upto(unread, n)
  <2>1. /\ part \in Seq(Byte) /\ unread' \in Seq(Byte)
        /\ read_buf' = read_buf \o part /\ stream' = stream \o part
        /\ read_buf' \in Seq(Byte) /\ Len(read_buf') = Len(read_buf) + n
        /\ stream' \in Seq(Byte) /\ Len(stream') = Len(stream) + n
        /\ Len(read_buf') <= ReadCapacity
        /\ Parsed' = Parsed
    BY <1>4, ReadEffect
  <2> HIDE DEF part
  <2>2. n \in Nat
    BY BotAssumption DEF Amounts, Readable, Lesser
  <2>3. From(stream \o part, Parsed) = From(stream, Parsed) \o part
    BY <2>1, FromConcat
  <2>4. read_buf = From(stream, Parsed) /\ Len(read_buf) <= Len(stream)
    BY <1>0 DEF StreamKept
  <2>5. read_buf' = From(stream', Parsed')
    BY <2>1, <2>3, <2>4
  <2>6. Len(read_buf') <= Len(stream')
    BY <2>1, <2>2, <2>4
  <2>7. StreamKept'
    BY <2>5, <2>6 DEF StreamKept
  <2> QED
    BY <1>0, <1>4, <2>1, <2>7, BotInvNext DEF ReadSome, irc, loop
<1>5. ASSUME NEW n \in Amounts(WriteSizes, Len(write_buf)), WriteSome(n)
      PROVE  BotInv'
  <2>1. n \in Nat /\ n <= Len(write_buf) /\ Len(write_buf) \in Nat
    BY <1>0, BotAssumption DEF Amounts
  <2>2. write_buf' = SubSeq(write_buf, n + 1, Len(write_buf))
    BY <1>5 DEF WriteSome, From
  <2>3. write_buf' \in Seq(Chunk) /\ Len(write_buf') = Len(write_buf) - n
    BY <1>0, <2>1, <2>2
  <2>4. StreamKept'
    BY <1>5, <1>s DEF WriteSome
  <2>5. Len(write_buf') <= WriteCapacity
    BY <2>1, <2>3
  <2> QED
    BY <1>0, <1>5, <2>3, <2>4, <2>5, BotInvNext DEF WriteSome, loop, net
<1>6. ASSUME LeavePoll
      PROVE  BotInv'
  <2>1. /\ write_buf' \in Seq(Chunk) /\ Len(write_buf') <= WriteCapacity
        /\ msg' = msg /\ cs' = cs /\ full' \in BOOLEAN
    <3>1. CASE connected
      <4>1. OnConnect /\ NoteFull
        BY <1>6, <3>1 DEF LeavePoll
      <4>2. full' \in BOOLEAN
        BY <4>1 DEF NoteFull
      <4> QED
        BY <1>0, <4>1, <4>2, HelloType, PutFits DEF OnConnect
    <3>2. CASE ~connected
      BY <1>0, <1>6, <3>2 DEF LeavePoll, irc
    <3> QED
      BY <3>1, <3>2
  <2>2. StreamKept'
    BY <1>6, <1>s DEF LeavePoll
  <2>3. connected' \in BOOLEAN
    BY <1>6, Zenon DEF LeavePoll
  <2>4. pc' \in {"poll", "drain", "stopped", "undefined"}
    BY <1>6 DEF LeavePoll
  <2> QED
    BY <1>0, <1>6, <2>1, <2>2, <2>3, <2>4, BotInvNext DEF LeavePoll, net
<1>7. ASSUME Stop
      PROVE  BotInv'
  <2>1. StreamKept'
    BY <1>7, <1>s DEF Stop, history
  <2> QED
    BY <1>0, <1>7, <2>1, BotInvNext DEF Stop, irc, net, history
<1>8. ASSUME ParseWindow
      PROVE  BotInv'
  <2> DEFINE r == Parse(msg, cs, Window)
  <2>1. /\ r \in GoodRuns /\ r.len \in 0 .. Len(read_buf)
        /\ ParseAndHandle(r)
        /\ read_buf' = From(read_buf, r.len)
        /\ read_buf' \in Seq(Byte) /\ Len(read_buf') = Len(read_buf) - r.len
        /\ stream' = stream
        /\ Parsed' = Parsed + r.len
    BY <1>8, ParseEffect
  <2> HIDE DEF r
  <2>2. r.msg \in Msg /\ r.cs \in SUBSET Position /\ r.len \in Nat /\ Staged(r.msg, r.cs)
    BY <2>1 DEF GoodRuns
  <2>3. read_buf = From(stream, Parsed) /\ Len(read_buf) <= Len(stream)
    BY <1>0 DEF StreamKept
  <2>4. StreamKept'
    <3>1. Parsed + r.len <= Len(stream)
      BY <2>1, <2>3 DEF Parsed
    <3>2. From(From(stream, Parsed), r.len) = From(stream, Parsed + r.len)
      BY <2>2, <3>1, FromFrom
    <3>3. read_buf' = From(stream', Parsed')
      BY <2>1, <2>3, <3>2
    <3> QED
      BY <2>1, <2>3, <3>3 DEF StreamKept
  <2>5. msg' \in Msg /\ Staged(msg', cs') /\ cs' \in SUBSET Position
    <3>1. msg' = r.msg /\ cs' = Saved(r)
      BY <2>1 DEF ParseAndHandle
    <3>2. Staged(r.msg, {Start})
      BY <2>2, StagedSlices DEF Staged, AtStart
    <3> QED
      BY <2>2, <3>1, <3>2, EmptyMsgStaged DEF Saved
  <2>6. write_buf' \in Seq(Chunk) /\ Len(write_buf') <= WriteCapacity
    <3>1. CASE Complete(r)
      <4>1. Put(Output(r.msg))
        BY <2>1, <3>1 DEF ParseAndHandle, Handle
      <4> QED
        BY <1>0, <2>2, <4>1, OutputType, PutFits
    <3>2. CASE ~Complete(r)
      BY <1>0, <2>1, <3>2 DEF ParseAndHandle
    <3> QED
      BY <3>1, <3>2
  <2>7. full' \in BOOLEAN
    BY <1>8 DEF ParseWindow, NoteFull
  <2>8. Len(read_buf') <= ReadCapacity
    BY <2>1
  <2> QED
    BY <1>8, <2>1, <2>4, <2>5, <2>6, <2>7, <2>8, BotInvNext
    DEF ParseWindow, loop, net
<1>9. ASSUME Drained
      PROVE  BotInv'
  <2>1. StreamKept'
    BY <1>9, <1>s DEF Drained, history
  <2> QED
    BY <1>0, <1>9, <2>1, BotInvNext DEF Drained, irc, net, history
<1>10. ASSUME UNCHANGED vars
       PROVE  BotInv'
  <2>1. StreamKept'
    BY <1>10, <1>s DEF vars, history
  <2> QED
    BY <1>0, <1>10, <2>1, BotInvNext DEF vars, irc, loop, net, history
<1>11. ASSUME RunAstray
       PROVE  BotInv'
  <2>1. StreamKept'
    BY <1>11, <1>s DEF RunAstray, history
  <2> QED
    BY <1>0, <1>11, <2>1, BotInvNext DEF RunAstray, irc, net, history
<1> QED
  BY <1>1, <1>2, <1>3, <1>4, <1>5, <1>6, <1>7, <1>8, <1>9, <1>10, <1>11 DEF Next, Drain, Halted

\* The inductive invariant holds in every behaviour of the bot.
THEOREM BotInvariant == Spec => []BotInv
BY BotInit, BotStep, PTL DEF Spec

\* The rings of the bot hold what fits, its parser is in a state of its grammar,
\* and a message never points outside its own prefix, wherever in the rooms of
\* the message, or behind them, that prefix has run on to.
THEOREM BotTypeCorrect == Spec => []TypeOK
<1>1. BotInv => TypeOK
  BY DEF BotInv
<1> QED
  BY <1>1, BotInvariant, PTL

\* What is in the ring is always the end of what was read: between the socket
\* and the parser no byte is lost, doubled or moved.
THEOREM BotStreamKept == Spec => []StreamKept
<1>1. BotInv => StreamKept
  BY DEF BotInv
<1> QED
  BY <1>1, BotInvariant, PTL
-----------------------------------------------------------------------------
(* The parser as one run over all the bytes it is given.                    *)

\* One byte more: the message and the state it leaves, and, if it ends a
\* message, that message as handled.
Onward(one, byte) ==
  LET r == Step([msg |-> one.msg, cs |-> one.cs, len |-> 0], byte) IN
  [msg |-> r.msg, cs |-> Saved(r),
   handled |-> IF Complete(r) THEN Append(one.handled, Shown(r.msg)) ELSE one.handled]

NoInput == [msg |-> EmptyMsg, cs |-> {Start}, handled |-> <<>>]

\* Where one run over s is after each of its bytes.
OneRun(s) ==
  LET run[k \in 0 .. Len(s)] == IF k = 0 THEN NoInput ELSE Onward(run[k - 1], s[k]) IN run

\* A byte no edge takes.
Refused(positions, byte) == \A e \in Edges : e.from \in positions => byte \notin e.on

\* However the input was cut by reads, by the end of the ring and by connections,
\* the parser is where one run over the bytes parsed is, has the message that run
\* has, and the messages handled are those of that run.  In its error state it
\* has not taken the first byte that run would refuse.
ParsedAsOne ==
  LET one == OneRun(stream)[Parsed] IN
  /\ msg = one.msg
  /\ handled = one.handled
  /\ \/ cs = one.cs
     \/ cs = {} /\ Parsed < Len(stream) /\ Refused(one.cs, stream[Parsed + 1])

\* The states of such a run.
Views == {Shown(m) : m \in Msg}
Ones ==
  {one \in [msg : Msg, cs : SUBSET Position, handled : Seq(Views)] :
     Staged(one.msg, one.cs) /\ Done \notin one.cs}

\* A message is not complete at its start.
LEMMA StartNotDone == Start # Done
BY DEF Start, Done

\* They are what a byte more leads to.
LEMMA OnwardGood ==
  ASSUME NEW one \in Ones, NEW byte \in Byte
  PROVE  Onward(one, byte) \in Ones
<1> DEFINE begin == [msg |-> one.msg, cs |-> one.cs, len |-> 0]
           r == Step(begin, byte)
           out == IF Complete(r) THEN Append(one.handled, Shown(r.msg)) ELSE one.handled
<1>1. /\ one.msg \in Msg /\ one.cs \in SUBSET Position /\ Staged(one.msg, one.cs)
      /\ one.handled \in Seq(Views)
  BY DEF Ones
<1>2. begin \in GoodRuns
  BY <1>1 DEF GoodRuns
<1>3. r \in GoodRuns
  <2> HIDE DEF begin
  <2> QED
    BY <1>2, GoodStep
<1>4. Onward(one, byte) = [msg |-> r.msg, cs |-> Saved(r), handled |-> out]
  BY DEF Onward
<1> HIDE DEF begin, r
<1>5. r.msg \in Msg /\ r.cs \in SUBSET Position /\ Staged(r.msg, r.cs)
  BY <1>3 DEF GoodRuns
<1>6. out \in Seq(Views)
  <2>1. Shown(r.msg) \in Views
    BY <1>5 DEF Views
  <2> HIDE DEF Views
  <2> QED
    BY <1>1, <2>1
<1>7. Staged(r.msg, {Start})
  BY <1>5, StagedSlices DEF Staged, AtStart
<1>8. Saved(r) \in SUBSET Position /\ Staged(r.msg, Saved(r))
  BY <1>5, <1>7, EmptyMsgStaged DEF Saved
<1>9. Done \notin Saved(r)
  BY StartNotDone DEF Saved, Complete
<1> HIDE DEF out, Views
<1> QED
  BY <1>4, <1>5, <1>6, <1>8, <1>9 DEF Ones

\* A run begins in one of them.
LEMMA NoInputGood == NoInput \in Ones
<1>1. <<>> \in Seq(Views)
  OBVIOUS
<1> HIDE DEF Views
<1> QED
  BY <1>1, EmptyMsgStaged, StartNotDone DEF NoInput, Ones

\* One run is what its definition says.
LEMMA OneRunSteps ==
  ASSUME NEW s \in Seq(Byte)
  PROVE  /\ OneRun(s)[0] = NoInput
         /\ \A k \in 1 .. Len(s) : OneRun(s)[k] = Onward(OneRun(s)[k - 1], s[k])
         /\ \A k \in 0 .. Len(s) : OneRun(s)[k] \in Ones
<1> DEFINE n == Len(s)
           next == [i \in 1 .. n |-> [one \in Ones |-> Onward(one, s[i])]]
           Is(f) == f = [k \in 0 .. n |-> IF k = 0 THEN NoInput ELSE Onward(f[k - 1], s[k])]
           run == CHOOSE f : Is(f)
<1>1. n \in Nat /\ \A i \in 1 .. n : s[i] \in Byte
  OBVIOUS
<1>2. next \in [1 .. n -> [Ones -> Ones]]
  <2> SUFFICES ASSUME NEW i \in 1 .. n, NEW one \in Ones
               PROVE  Onward(one, s[i]) \in Ones
    OBVIOUS
  <2> QED
    BY <1>1, OnwardGood
<1>3. \A g \in [0 .. n -> Ones] :
        g[0] = NoInput /\ (\A i \in 1 .. n : g[i] = next[i][g[i - 1]]) => Is(g)
  <2> SUFFICES ASSUME NEW g \in [0 .. n -> Ones], g[0] = NoInput,
                      \A i \in 1 .. n : g[i] = next[i][g[i - 1]]
               PROVE  Is(g)
    OBVIOUS
  <2>1. \A i \in 1 .. n : g[i] = Onward(g[i - 1], s[i])
    <3> TAKE i \in 1 .. n
    <3>1. i - 1 \in 0 .. n
      BY <1>1
    <3> QED
      BY <3>1
  <2>2. \A k \in 0 .. n : g[k] = IF k = 0 THEN NoInput ELSE Onward(g[k - 1], s[k])
    <3> TAKE k \in 0 .. n
    <3>1. CASE k = 0
      BY <3>1
    <3>2. CASE k # 0
      <4>1. k \in 1 .. n
        BY <3>2, <1>1
      <4> HIDE DEF next, n
      <4> QED
        BY <4>1, <3>2, <2>1, Zenon
    <3> QED
      BY <3>1, <3>2
  <2> HIDE DEF n, next
  <2> QED
    BY <2>2
<1>4. \E g : Is(g)
  <2> HIDE DEF n, next, Is
  <2>1. n \in Nat
    BY <1>1
  <2>2. \E f \in [0 .. n -> Ones] :
          f[0] = NoInput /\ \A i \in 1 .. n : f[i] = next[i][f[i - 1]]
    BY <1>2, <2>1, NoInputGood, RecursionUpTo
  <2> QED
    BY <1>3, <2>2
<1>5. Is(run)
  <2> HIDE DEF Is
  <2> QED
    BY <1>4
<1>6. OneRun(s) = run
  BY DEF OneRun
<1> HIDE DEF n, run, next
<1>7. \A k \in 0 .. n : run[k] = IF k = 0 THEN NoInput ELSE Onward(run[k - 1], s[k])
  BY <1>5
<1>8. run[0] = NoInput
  BY <1>1, <1>7
<1>9. \A k \in 1 .. n : run[k] = Onward(run[k - 1], s[k])
  <2> TAKE k \in 1 .. n
  <2>1. k \in 0 .. n /\ k # 0
    BY <1>1
  <2> QED
    BY <1>7, <2>1, Zenon
<1> DEFINE S == {k \in 0 .. n : run[k] \in Ones}
<1>10. 0 \in S
  BY <1>1, <1>8, NoInputGood
<1>11. ASSUME NEW k \in 1 .. n, k - 1 \in S
       PROVE  k \in S
  <2>1. run[k - 1] \in Ones /\ s[k] \in Byte
    BY <1>1, <1>11
  <2>2. run[k] \in Ones
    BY <1>9, <2>1, OnwardGood
  <2> QED
    BY <1>1, <2>2
<1>12. 0 .. n \subseteq S
  <2> HIDE DEF S
  <2> QED
    BY <1>1, <1>10, <1>11, InductionUpTo
<1> QED
  BY <1>6, <1>8, <1>9, <1>12 DEF n

\* What comes later does not change it.
LEMMA OneRunGrows ==
  ASSUME NEW s \in Seq(Byte), NEW t \in Seq(Byte), NEW k \in 0 .. Len(s)
  PROVE  OneRun(s \o t)[k] = OneRun(s)[k]
<1> DEFINE all == s \o t
           long == OneRun(all)
           short == OneRun(s)
           S == {i \in 0 .. Len(s) : long[i] = short[i]}
<1>1. /\ all \in Seq(Byte) /\ Len(all) = Len(s) + Len(t) /\ Len(s) \in Nat /\ Len(t) \in Nat
      /\ \A i \in 1 .. Len(s) : all[i] = s[i]
  OBVIOUS
<1> HIDE DEF all
<1>2. /\ long[0] = NoInput /\ short[0] = NoInput
      /\ \A i \in 1 .. Len(all) : long[i] = Onward(long[i - 1], all[i])
      /\ \A i \in 1 .. Len(s) : short[i] = Onward(short[i - 1], s[i])
  BY <1>1, OneRunSteps
<1> HIDE DEF long, short
<1>3. 0 \in S
  BY <1>1, <1>2
<1>4. ASSUME NEW i \in 1 .. Len(s), i - 1 \in S
      PROVE  i \in S
  <2>1. i \in 1 .. Len(all) /\ i \in 0 .. Len(s)
    BY <1>1
  <2>2. long[i - 1] = short[i - 1]
    BY <1>4
  <2>3. long[i] = short[i]
    BY <1>1, <1>2, <2>1, <2>2
  <2> QED
    BY <2>1, <2>3
<1>5. 0 .. Len(s) \subseteq S
  <2> HIDE DEF S
  <2> QED
    BY <1>1, <1>3, <1>4, InductionUpTo
<1> QED
  BY <1>5 DEF long, short, all

\* What a step does: nothing after the end of a message, nothing but to note the
\* error at a byte no edge takes, and else the same wherever its window began.
LEMMA StepCases ==
  ASSUME NEW r \in GoodRuns, NEW byte \in Byte
  PROVE  /\ Done \in r.cs => Step(r, byte) = r
         /\ Done \notin r.cs /\ Refused(r.cs, byte) =>
              Step(r, byte) = [msg |-> r.msg, cs |-> {}, len |-> r.len]
         /\ Done \notin r.cs /\ ~Refused(r.cs, byte) =>
              LET first == Step([msg |-> r.msg, cs |-> r.cs, len |-> 0], byte) IN
              Step(r, byte) = [msg |-> first.msg, cs |-> first.cs, len |-> r.len + 1]
<1> DEFINE taken == {e \in UNION {EdgesFrom[p] : p \in r.cs} : byte \in e.on}
           begin == [msg |-> r.msg, cs |-> r.cs, len |-> 0]
           does == UNION {e.does : e \in taken}
           to == {e.to : e \in taken}
<1>1. /\ r.msg \in Msg /\ r.cs \in SUBSET Position /\ r.len \in Nat
      /\ r = [msg |-> r.msg, cs |-> r.cs, len |-> r.len]
  BY DEF GoodRuns
<1>2. Step(r, byte) =
        IF Done \in r.cs THEN r
        ELSE IF taken = {} THEN [r EXCEPT !.cs = {}]
        ELSE [msg |-> Perform(r.msg, byte, does), cs |-> to, len |-> r.len + 1]
  BY DEF Step
<1>3. Step(begin, byte) =
        IF Done \in r.cs THEN begin
        ELSE IF taken = {} THEN [begin EXCEPT !.cs = {}]
        ELSE [msg |-> Perform(r.msg, byte, does), cs |-> to, len |-> 0 + 1]
  BY DEF Step
<1>4. Refused(r.cs, byte) <=> taken = {}
  <2>1. ASSUME NEW e \in taken
        PROVE  ~Refused(r.cs, byte)
    BY <1>1 DEF EdgesFrom, Refused
  <2>2. ASSUME NEW e \in Edges, e.from \in r.cs, byte \in e.on
        PROVE  e \in taken
    BY <1>1, <2>2 DEF EdgesFrom
  <2> HIDE DEF taken
  <2> QED
    BY <2>1, <2>2 DEF Refused
<1> HIDE DEF taken, does, to
<1>5. Done \in r.cs => Step(r, byte) = r
  BY <1>2
<1>6. Done \notin r.cs /\ taken = {} => Step(r, byte) = [msg |-> r.msg, cs |-> {}, len |-> r.len]
  <2>1. [r EXCEPT !.cs = {}] = [msg |-> r.msg, cs |-> {}, len |-> r.len]
    BY <1>1
  <2> QED
    BY <1>2, <2>1
<1>7. ASSUME Done \notin r.cs, taken # {}
      PROVE  Step(r, byte) =
               [msg |-> Step(begin, byte).msg, cs |-> Step(begin, byte).cs, len |-> r.len + 1]
  <2>1. Step(r, byte) = [msg |-> Perform(r.msg, byte, does), cs |-> to, len |-> r.len + 1]
    BY <1>2, <1>7
  <2>2. Step(begin, byte) = [msg |-> Perform(r.msg, byte, does), cs |-> to, len |-> 0 + 1]
    BY <1>3, <1>7
  <2>3. Step(begin, byte).msg = Perform(r.msg, byte, does) /\ Step(begin, byte).cs = to
    BY <2>2
  <2> QED
    BY <2>1, <2>3
<1> HIDE DEF begin
<1>8. Done \notin r.cs /\ ~Refused(r.cs, byte) =>
        Step(r, byte) = [msg |-> Step(begin, byte).msg, cs |-> Step(begin, byte).cs, len |-> r.len + 1]
  BY <1>4, <1>7
<1> QED
  BY <1>4, <1>5, <1>6, <1>8 DEF begin

\* Where a window of s that begins after its first p bytes has led, seen from the
\* one run over s: r is there, has ended a message, or has met a byte that run
\* refuses.
Along(s, p, r, i) ==
  LET one == OneRun(s)[p]
      to == OneRun(s)[p + r.len]
  IN
  /\ r.len \in 0 .. i
  /\ to.msg = r.msg
  /\ \/ /\ r.len = i /\ Done \notin r.cs /\ to.cs = r.cs
        /\ to.handled = one.handled
     \/ /\ Done \in r.cs /\ to.cs = {Start}
        /\ to.handled = Append(one.handled, Shown(r.msg))
     \/ /\ r.cs = {} /\ p + r.len < Len(s) /\ Refused(to.cs, s[p + r.len + 1])
        /\ to.handled = one.handled

\* One byte of the window more.
LEMMA AlongStep ==
  ASSUME NEW s \in Seq(Byte), NEW p \in Nat, NEW i \in Nat, p + i + 1 <= Len(s),
         NEW r \in GoodRuns, Along(s, p, r, i)
  PROVE  Along(s, p, Step(r, s[p + i + 1]), i + 1)
<1> DEFINE byte == s[p + i + 1]
           one == OneRun(s)[p]
           to == OneRun(s)[p + r.len]
           after == Step(r, byte)
<1>1. byte \in Byte
  <2>1. p + i + 1 \in 1 .. Len(s)
    OBVIOUS
  <2> QED
    BY <2>1
<1>2. r.msg \in Msg /\ r.cs \in SUBSET Position /\ r.len \in Nat /\ r.len \in 0 .. i
  BY DEF GoodRuns, Along
<1>3. r.len \in 0 .. i + 1
  BY <1>2
<1>4. /\ to.msg = r.msg
      /\ \/ /\ r.len = i /\ Done \notin r.cs /\ to.cs = r.cs
            /\ to.handled = one.handled
         \/ /\ Done \in r.cs /\ to.cs = {Start}
            /\ to.handled = Append(one.handled, Shown(r.msg))
         \/ /\ r.cs = {} /\ p + r.len < Len(s) /\ Refused(to.cs, s[p + r.len + 1])
            /\ to.handled = one.handled
  BY DEF Along
<1>5. CASE Done \in r.cs
  <2>1. after = r
    BY <1>1, <1>5, StepCases
  <2>2. Along(s, p, r, i + 1)
    BY <1>3, <1>4, <1>5 DEF Along
  <2> QED
    BY <2>1, <2>2 DEF after, byte
<1>6. CASE Done \notin r.cs /\ r.cs = {} /\ p + r.len < Len(s)
           /\ Refused(to.cs, s[p + r.len + 1]) /\ to.handled = one.handled
  <2>1. Refused(r.cs, byte)
    BY <1>6 DEF Refused
  <2>2. after = [msg |-> r.msg, cs |-> {}, len |-> r.len]
    BY <1>1, <1>6, <2>1, StepCases
  <2>3. after.msg = r.msg /\ after.cs = {} /\ after.len = r.len
    BY <2>2
  <2> HIDE DEF after, byte
  <2>4. Along(s, p, after, i + 1)
    BY <1>3, <1>4, <1>6, <2>3 DEF Along
  <2> QED
    BY <2>4 DEF after, byte
<1>7. CASE r.len = i /\ Done \notin r.cs /\ to.cs = r.cs /\ to.handled = one.handled
  <2>1. CASE Refused(r.cs, byte)
    <3>1. after = [msg |-> r.msg, cs |-> {}, len |-> r.len]
      BY <1>1, <1>7, <2>1, StepCases
    <3>2. after.msg = r.msg /\ after.cs = {} /\ after.len = r.len
      BY <3>1
    <3>3. p + r.len < Len(s) /\ Refused(to.cs, s[p + r.len + 1])
      BY <1>7, <2>1
    <3> HIDE DEF after, byte
    <3>4. Along(s, p, after, i + 1)
      BY <1>3, <1>4, <1>7, <3>2, <3>3 DEF Along
    <3> QED
      BY <3>4 DEF after, byte
  <2>2. CASE ~Refused(r.cs, byte)
    <3> DEFINE first == Step([msg |-> r.msg, cs |-> r.cs, len |-> 0], byte)
               next == OneRun(s)[p + i + 1]
    <3>1. after = [msg |-> first.msg, cs |-> first.cs, len |-> r.len + 1]
      BY <1>1, <1>7, <2>2, StepCases
    <3>2. after.msg = first.msg /\ after.cs = first.cs /\ after.len = i + 1
      BY <1>7, <3>1
    <3>3. next = Onward(to, byte)
      <4>1. p + i + 1 \in 1 .. Len(s) /\ p + i + 1 - 1 = p + r.len
        BY <1>7
      <4>2. OneRun(s)[p + i + 1] = Onward(OneRun(s)[p + i + 1 - 1], s[p + i + 1])
        BY <4>1, OneRunSteps
      <4> QED
        BY <4>1, <4>2
    <3>4. to.msg = r.msg /\ to.cs = r.cs
      BY <1>4, <1>7
    <3>5. /\ next.msg = first.msg /\ next.cs = Saved(first)
          /\ next.handled = IF Complete(first) THEN Append(to.handled, Shown(first.msg))
                                               ELSE to.handled
      BY <3>3, <3>4 DEF Onward
    <3> HIDE DEF after, byte, first, next
    <3>6. OneRun(s)[p + after.len] = next
      <4>1. p + after.len = p + i + 1
        BY <3>2
      <4> QED
        BY <4>1 DEF next
    <3>7. after.len \in 0 .. i + 1 /\ after.len = i + 1
      BY <3>2
    <3>8. CASE Done \in after.cs
      <4>1. next.cs = {Start} /\ next.handled = Append(one.handled, Shown(after.msg))
        BY <1>7, <3>2, <3>5, <3>8 DEF Saved, Complete
      <4>2. Along(s, p, after, i + 1)
        BY <3>2, <3>5, <3>6, <3>7, <3>8, <4>1 DEF Along
      <4> QED
        BY <4>2 DEF after, byte
    <3>9. CASE Done \notin after.cs
      <4>1. next.cs = after.cs /\ next.handled = one.handled
        BY <1>7, <3>2, <3>5, <3>9 DEF Saved, Complete
      <4>2. Along(s, p, after, i + 1)
        BY <3>2, <3>5, <3>6, <3>7, <3>9, <4>1 DEF Along
      <4> QED
        BY <4>2 DEF after, byte
    <3> QED
      BY <3>8, <3>9
  <2> QED
    BY <2>1, <2>2
<1> QED
  BY <1>4, <1>5, <1>6, <1>7

\* A whole window.
LEMMA AlongParse ==
  ASSUME NEW s \in Seq(Byte), NEW p \in Nat, NEW window \in Seq(Byte),
         p + Len(window) <= Len(s), \A i \in 1 .. Len(window) : window[i] = s[p + i],
         NEW m \in Msg, NEW cs0 \in SUBSET Position, Staged(m, cs0),
         Along(s, p, [msg |-> m, cs |-> cs0, len |-> 0], 0)
  PROVE  Along(s, p, Parse(m, cs0, window), Len(window))
<1> DEFINE n == Len(window)
           begin == [msg |-> m, cs |-> cs0, len |-> 0]
<1>1. n \in Nat /\ \A i \in 1 .. n : window[i] \in Byte
  OBVIOUS
<1>2. PICK run :
        /\ run[0] = begin
        /\ \A i \in 1 .. n : run[i] = Step(run[i - 1], window[i])
        /\ Parse(m, cs0, window) = run[n]
  BY ParseSteps
<1>3. begin \in GoodRuns
  BY DEF GoodRuns
<1>4. Along(s, p, begin, 0)
  OBVIOUS
<1>5. p + n <= Len(s) /\ \A i \in 1 .. n : window[i] = s[p + i]
  OBVIOUS
<1> HIDE DEF n, begin
<1> DEFINE S == {i \in 0 .. n : run[i] \in GoodRuns /\ Along(s, p, run[i], i)}
<1>6. 0 \in S
  BY <1>1, <1>2, <1>3, <1>4
<1>7. ASSUME NEW i \in 1 .. n, i - 1 \in S
      PROVE  i \in S
  <2>1. run[i - 1] \in GoodRuns /\ Along(s, p, run[i - 1], i - 1) /\ window[i] \in Byte
    BY <1>1, <1>7
  <2>2. run[i] = Step(run[i - 1], window[i])
    BY <1>2
  <2>3. run[i] \in GoodRuns
    BY <2>1, <2>2, GoodStep
  <2>4. i - 1 \in Nat /\ p + (i - 1) + 1 <= Len(s) /\ p + (i - 1) + 1 = p + i /\ (i - 1) + 1 = i
    BY <1>1, <1>5
  <2>5. Along(s, p, Step(run[i - 1], s[p + (i - 1) + 1]), (i - 1) + 1)
    BY <2>1, <2>4, AlongStep
  <2>6. window[i] = s[p + i]
    BY <1>5
  <2> QED
    BY <1>1, <2>2, <2>3, <2>4, <2>5, <2>6
<1>8. 0 .. n \subseteq S
  <2> HIDE DEF S
  <2> QED
    BY <1>1, <1>6, <1>7, InductionUpTo
<1>9. Along(s, p, run[n], n)
  BY <1>1, <1>8
<1> QED
  BY <1>2, <1>9 DEF n

\* At the start nothing has been parsed.
LEMMA AsOneInit == Init => ParsedAsOne
<1> SUFFICES ASSUME Init
             PROVE  ParsedAsOne
  OBVIOUS
<1>1. stream = <<>> /\ read_buf = <<>> /\ msg = EmptyMsg /\ cs = {Start} /\ handled = <<>>
  BY DEF Init, IrcInit
<1>2. stream \in Seq(Byte) /\ Parsed = 0
  BY <1>1 DEF Parsed
<1>3. OneRun(stream)[Parsed] = NoInput
  BY <1>2, OneRunSteps
<1> QED
  BY <1>1, <1>3 DEF ParsedAsOne, NoInput

\* Every step keeps the parser where one run would be.
LEMMA AsOneStep == BotInv /\ ParsedAsOne /\ [Next]_vars => ParsedAsOne'
<1> SUFFICES ASSUME BotInv, ParsedAsOne, [Next]_vars
             PROVE  ParsedAsOne'
  OBVIOUS
<1> USE BotTypes
<1>1. ASSUME UNCHANGED <<msg, cs, handled, stream, read_buf>>
      PROVE  ParsedAsOne'
  BY <1>1 DEF ParsedAsOne, Parsed
<1>2. ASSUME NEW n \in Amounts(ReadSizes, Readable), ReadSome(n)
      PROVE  ParsedAsOne'
  <2> DEFINE part == Upto(unread, n)
  <2>1. part \in Seq(Byte) /\ stream' = stream \o part /\ Parsed' = Parsed
    BY <1>2, ReadEffect
  <2> HIDE DEF part
  <2>2. OneRun(stream \o part)[Parsed] = OneRun(stream)[Parsed]
    BY <2>1, OneRunGrows
  <2>3. Parsed < Len(stream) => /\ Parsed < Len(stream \o part)
                                /\ (stream \o part)[Parsed + 1] = stream[Parsed + 1]
    BY <2>1
  <2>4. msg' = msg /\ cs' = cs /\ handled' = handled
    BY <1>2 DEF ReadSome, irc
  <2> QED
    BY <2>1, <2>2, <2>3, <2>4 DEF ParsedAsOne
<1>3. ASSUME ParseWindow
      PROVE  ParsedAsOne'
  <2> DEFINE r == Parse(msg, cs, Window)
             p == Parsed
             n == Len(Window)
             one == OneRun(stream)[p]
             to == OneRun(stream)[p + r.len]
             begin == [msg |-> msg, cs |-> cs, len |-> 0]
  <2>1. /\ Window \in Seq(Byte) /\ n <= Len(read_buf)
        /\ ParseAndHandle(r)
        /\ handled' = IF Complete(r) THEN Append(handled, Shown(r.msg)) ELSE handled
        /\ stream' = stream
        /\ Parsed' = p + r.len
    BY <1>3, ParseEffect
  <2>2. /\ p \in Nat /\ p \in 0 .. Len(stream) /\ p + n <= Len(stream)
        /\ \A i \in 1 .. n : Window[i] = stream[p + i]
    <3>1. read_buf = From(stream, p) /\ Len(read_buf) = Len(stream) - p
      BY DEF BotInv, StreamKept, Parsed
    <3>2. \A i \in 1 .. Len(read_buf) : read_buf[i] = stream[p + i]
      BY <3>1, FromLen
    <3>3. \A i \in 1 .. n : Window[i] = read_buf[i]
      BY WindowFits
    <3>4. n \in Nat
      BY <2>1
    <3> HIDE DEF n, p
    <3>5. p \in 0 .. Len(stream)
      BY DEF p
    <3>6. \A i \in 1 .. n : i \in 1 .. Len(read_buf)
      BY <2>1, <3>4
    <3> QED
      BY <2>1, <3>1, <3>2, <3>3, <3>4, <3>5, <3>6
  <2>3. /\ msg \in Msg /\ cs \in SUBSET Position /\ Staged(msg, cs)
        /\ one \in Ones
    BY <2>2, OneRunSteps DEF BotInv
  <2>4. /\ msg = one.msg /\ handled = one.handled /\ Done \notin one.cs
        /\ \/ cs = one.cs
           \/ cs = {} /\ p < Len(stream) /\ Refused(one.cs, stream[p + 1])
    BY <2>3 DEF ParsedAsOne, Ones
  <2>5. Along(stream, p, begin, 0)
    <3>1. begin.len = 0 /\ begin.msg = msg /\ begin.cs = cs
      OBVIOUS
    <3> HIDE DEF begin, p
    <3>2. p + begin.len = p
      BY <2>2, <3>1
    <3>3. 0 \in 0 .. 0
      OBVIOUS
    <3> QED
      BY <2>4, <3>1, <3>2, <3>3 DEF Along
  <2>6. Along(stream, p, r, n)
    <3> HIDE DEF p
    <3> QED
      BY <2>1, <2>2, <2>3, <2>5, AlongParse
  <2>7. msg' = r.msg /\ cs' = Saved(r)
    BY <2>1 DEF ParseAndHandle
  <2> HIDE DEF r, p, begin
  <2>8. to.msg = r.msg
    BY <2>6 DEF Along
  <2>9. \/ Done \notin r.cs /\ to.cs = r.cs /\ to.handled = one.handled
        \/ Done \in r.cs /\ to.cs = {Start} /\ to.handled = Append(one.handled, Shown(r.msg))
        \/ r.cs = {} /\ p + r.len < Len(stream) /\ Refused(to.cs, stream[p + r.len + 1])
           /\ to.handled = one.handled
    BY <2>6 DEF Along
  <2>10. handled' = to.handled
    BY <2>1, <2>4, <2>9 DEF Complete
  <2>11. \/ cs' = to.cs
         \/ cs' = {} /\ p + r.len < Len(stream) /\ Refused(to.cs, stream[p + r.len + 1])
    BY <2>7, <2>9 DEF Saved, Complete
  <2> QED
    BY <2>1, <2>7, <2>8, <2>10, <2>11 DEF ParsedAsOne
<1>4. ASSUME NEW line \in Lines, ServerSends(line)
      PROVE  ParsedAsOne'
  BY <1>1, <1>4 DEF ServerSends, irc, history
<1>5. CASE Connect
  BY <1>1, <1>5 DEF Connect, irc, history
<1>6. CASE Disconnect
  BY <1>1, <1>6 DEF Disconnect, irc, history
<1>7. ASSUME NEW n \in Amounts(WriteSizes, Len(write_buf)), WriteSome(n)
      PROVE  ParsedAsOne'
  BY <1>1, <1>7 DEF WriteSome
<1>8. CASE LeavePoll
  <2>1. msg' = msg /\ cs' = cs
    BY <1>8 DEF LeavePoll, OnConnect, irc
  <2> QED
    BY <1>1, <1>8, <2>1 DEF LeavePoll
<1>9. CASE Stop
  BY <1>1, <1>9 DEF Stop, irc, history
<1>10. CASE Drained
  BY <1>1, <1>10 DEF Drained, irc, history
<1>11. CASE UNCHANGED vars
  BY <1>1, <1>11 DEF vars, irc, history
<1>12. CASE RunAstray
  BY <1>1, <1>12 DEF RunAstray, irc, history
<1> QED
  BY <1>2, <1>3, <1>4, <1>5, <1>6, <1>7, <1>8, <1>9, <1>10, <1>11, <1>12 DEF Next, Drain, Halted

\* The messages handled do not depend on how the input was cut: by what a read
\* brought, by the end of the ring (rp_fifo_raw_r offers no more than up to it),
\* or by the number of turns of the inner loop.  That holds of a text that runs over
\* its room too, and of what it leaves of the texts behind it, up to the byte put
\* behind all three rooms, where the bot is undefined and no longer moves.
THEOREM BotParsesAsOne == Spec => []ParsedAsOne
BY AsOneInit, AsOneStep, BotInvariant, PTL DEF Spec
-----------------------------------------------------------------------------
\* What is found of a prefix is as long as the prefix.
LEMMA SeenType ==
  ASSUME NEW x \in Seq(Byte), NEW code \in Seq(Byte), NEW params \in Seq(Byte)
  PROVE  LET seen == Over(Over(x, 0, code, CodeAt), 0, params, ParamsAt) IN
         seen \in Seq(Byte) /\ Len(seen) = Len(x)
<1> DEFINE z == Over(x, 0, code, CodeAt)
<1>1. 0 \in Nat /\ CodeAt \in Nat /\ ParamsAt \in Nat
  BY Rooms
<1>2. z \in Seq(Byte) /\ Len(z) = Len(x)
  BY <1>1, OverType
<1> HIDE DEF z
<1>3. Over(z, 0, params, ParamsAt) \in Seq(Byte) /\ Len(Over(z, 0, params, ParamsAt)) = Len(z)
  BY <1>1, <1>2, OverType
<1> QED
  BY <1>2, <1>3 DEF z

\* What a message shows once all of it is recorded.
LEMMA MeaningShown ==
  ASSUME NEW m \in Msg, NEW t \in Seq(Byte), NEW stale \in Seq(Byte),
         FrontRight(m, t), RearRight(m, t, stale), IsMessage(t)
  PROVE  Shown(m) = Meaning(t, stale)
<1> DEFINE x == PrefixOf(t)
           code == Before(Body(t), {" "})
           params == IF Has(Body(t), " ") THEN After(Body(t), {" "})
                     ELSE Over(Over(stale, ParamsAt, x, 0), ParamsAt, code, CodeAt)
           seen == Over(Over(x, 0, code, CodeAt), 0, params, ParamsAt)
           found == Over(code, CodeAt, params, ParamsAt)
           isname == HasPrefix(t) /\ IsHostname(x)
           ismask == HasPrefix(t) /\ IsHostmask(x)
           names == IF isname THEN <<seen>> ELSE <<>>
           masks == IF ismask THEN <<Ending(seen, Len(NickOf(x)), NickOf(x)),
                                     Ending(seen, Len(NameOf(x)), UserOf(x)),
                                     Ending(seen, Len(x), HostOf(x))>> ELSE <<>>
           servername == IF m.is_servername THEN <<Text(m, "servername")>> ELSE <<>>
           hostmask == IF m.is_hostmask THEN <<Text(m, "nick"), Text(m, "user"), Text(m, "host")>> ELSE <<>>
           shown(c, p, s, h) == [code |-> c, params |-> p, servername |-> s, hostmask |-> h]
<1>1. Body(t) # <<>> /\ t # <<>> /\ (HasPrefix(t) => Has(t, " "))
  BY MessageHasBody
<1>2. m.code = code /\ m.params = params
  BY <1>1 DEF RearRight, Worn
<1>3. SeenCode(m) = found
  BY <1>2 DEF SeenCode
<1>4. Shown(m) = shown(found, params, servername, hostmask)
  BY <1>2, <1>3 DEF Shown
<1>5. Meaning(t, stale) = shown(found, params, names, masks)
  BY DEF Meaning, NickOf, UserOf, HostOf, NameOf, PrefixOf
<1>6. m.code \in Seq(Byte) /\ m.params \in Seq(Byte)
  BY DEF Msg
<1>7. x \in Seq(Byte)
  BY PrefixOfType
<1>8. code \in Seq(Byte) /\ params \in Seq(Byte)
  BY <1>2, <1>6
<1> HIDE DEF code, params, x
<1>9. seen \in Seq(Byte) /\ Len(seen) = Len(x)
  BY <1>7, <1>8, SeenType
<1>10. m.prefix = x => SeenPrefix(m) = seen
  BY <1>2 DEF SeenPrefix
<1>11. /\ m.is_servername <=> isname
       /\ m.is_hostmask <=> ismask
       /\ m.is_servername => m.prefix = x /\ m.servername = Slice(0, Len(x))
       /\ m.is_hostmask => m.prefix = x /\ Masked(m, x)
  <2>1. CASE HasPrefix(t)
    <3>1. Shows(m, x)
      BY <1>1, <2>1 DEF FrontRight, x, PrefixOf
    <3> QED
      BY <2>1, <3>1 DEF Shows
  <2>2. CASE ~HasPrefix(t)
    BY <1>1, <2>2 DEF FrontRight, NoFlags
  <2> QED
    BY <2>1, <2>2
<1> HIDE DEF seen
<1>12. servername = names
  <2>1. CASE m.is_servername
    <3>1. SeenPrefix(m) = seen /\ m.servername = Slice(0, Len(seen)) /\ isname
      BY <1>9, <1>10, <1>11, <2>1
    <3>2. Text(m, "servername") = seen
      BY <1>9, <3>1, NameText
    <3> QED
      BY <2>1, <3>1, <3>2
  <2>2. CASE ~m.is_servername
    BY <1>11, <2>2
  <2> QED
    BY <2>1, <2>2
<1>13. hostmask = masks
  <2>1. CASE m.is_hostmask
    <3>1. SeenPrefix(m) = seen /\ Masked(m, x) /\ ismask
      BY <1>10, <1>11, <2>1
    <3>2. /\ Text(m, "nick") = Ending(seen, Len(NickOf(x)), NickOf(x))
          /\ Text(m, "user") = Ending(seen, Len(NameOf(x)), UserOf(x))
          /\ Text(m, "host") = Ending(seen, Len(x), HostOf(x))
      BY <1>7, <1>9, <3>1, MaskedTexts
    <3> QED
      BY <2>1, <3>1, <3>2
  <2>2. CASE ~m.is_hostmask
    BY <1>11, <2>2
  <2> QED
    BY <2>1, <2>2
<1> HIDE DEF servername, names, hostmask, masks, found, shown
<1> QED
  BY <1>4, <1>5, <1>12, <1>13

-----------------------------------------------------------------------------
(* The lines of a stream, one byte later.                                   *)

\* Where lines end, the bytes since the last of these places, and: does a byte
\* end a line?
EndSet(s) == {k \in 2 .. Len(s) : s[k - 1] = "\r" /\ s[k] = "\n"}
LastEnd(s) == IF Len(Ends(s)) = 0 THEN 0 ELSE Ends(s)[Len(Ends(s))]
Since(s) == SubSeq(s, LastEnd(s) + 1, Len(s))
Closes(s, b) == b = "\n" /\ s # <<>> /\ s[Len(s)] = "\r"

\* The ends of lines are places of the stream, in order.
LEMMA EndsType ==
  ASSUME NEW s \in Seq(Byte)
  PROVE  /\ EndSet(s) \subseteq Nat /\ Counted(EndSet(s)) /\ Ends(s) = Ascending(EndSet(s))
         /\ Len(Ends(s)) \in Nat /\ DOMAIN Ends(s) = 1 .. Len(Ends(s))
         /\ \A k \in 1 .. Len(Ends(s)) :
              /\ Ends(s)[k] \in 2 .. Len(s)
              /\ s[Ends(s)[k] - 1] = "\r" /\ s[Ends(s)[k]] = "\n"
         /\ LastEnd(s) \in 0 .. Len(s)
         /\ LastEnd(s) # 0 => s[LastEnd(s)] = "\n"
<1> DEFINE T == EndSet(s)
           e == Ends(s)
           n == Len(e)
<1>1. T \subseteq Nat /\ T \subseteq 0 .. Len(s) /\ Len(s) \in Nat
  BY DEF EndSet
<1>2. Counted(T)
  <2> HIDE DEF T
  <2> QED
    BY <1>1, CountedAll
<1>3. e = Ascending(T)
  BY DEF Ends, EndSet
<1>4. \A k \in T : k \in 2 .. Len(s) /\ s[k - 1] = "\r" /\ s[k] = "\n"
  BY DEF EndSet
<1> HIDE DEF T, e
<1>5. /\ e \in Seq(T) /\ n = Cardinality(T) /\ Cardinality(T) \in Nat
      /\ \A k \in 1 .. Cardinality(T) : e[k] \in T
  BY <1>1, <1>2, <1>3, AscendingMembers
<1>6. n \in Nat /\ DOMAIN e = 1 .. n /\ \A k \in 1 .. n : e[k] \in T
  BY <1>5
<1> HIDE DEF n
<1>7. LastEnd(s) \in 0 .. Len(s) /\ (LastEnd(s) # 0 => s[LastEnd(s)] = "\n")
  <2>1. LastEnd(s) = IF n = 0 THEN 0 ELSE e[n]
    BY DEF LastEnd, e, n
  <2>2. CASE n = 0
    BY <1>1, <2>1, <2>2
  <2>3. CASE n # 0
    <3>1. n \in 1 .. n
      BY <1>6, <2>3
    <3>2. e[n] \in T
      BY <1>6, <3>1
    <3> QED
      BY <1>1, <1>4, <2>1, <2>3, <3>2
  <2> QED
    BY <2>2, <2>3
<1> QED
  BY <1>1, <1>2, <1>3, <1>4, <1>6, <1>7 DEF n, e, T

\* A byte more ends a line, or leaves the ends as they are.
LEMMA EndsMore ==
  ASSUME NEW s \in Seq(Byte), NEW b \in Byte
  PROVE  LET u == Append(s, b)
             n == Len(Ends(s))
         IN
         /\ ~Closes(s, b) => Ends(u) = Ends(s)
         /\ Closes(s, b) => /\ Len(Ends(u)) = n + 1
                            /\ \A k \in 1 .. n : Ends(u)[k] = Ends(s)[k]
                            /\ Ends(u)[n + 1] = Len(s) + 1
<1> DEFINE u == Append(s, b)
           l == Len(s)
           T == EndSet(s)
           U == EndSet(u)
<1>1. /\ u \in Seq(Byte) /\ Len(u) = l + 1 /\ l \in Nat /\ \A i \in 1 .. l : u[i] = s[i]
      /\ u[l + 1] = b /\ (s # <<>> <=> l # 0)
  BY AppendType, EmptySeq
<1>2. T \subseteq Nat /\ Counted(T) /\ Ends(s) = Ascending(T) /\ Ends(u) = Ascending(U)
  BY <1>1, EndsType
<1>3. \A k : k \in T <=> k \in 2 .. l /\ s[k - 1] = "\r" /\ s[k] = "\n"
  BY DEF EndSet
<1>4. \A k : k \in U <=> k \in 2 .. l + 1 /\ u[k - 1] = "\r" /\ u[k] = "\n"
  BY <1>1 DEF EndSet
<1>5. Closes(s, b) <=> b = "\n" /\ l # 0 /\ s[l] = "\r"
  BY <1>1 DEF Closes
<1> HIDE DEF u, l, T, U
<1>6. \A k \in 2 .. l : k \in U <=> k \in T
  <2> TAKE k \in 2 .. l
  <2>1. u[k - 1] = s[k - 1] /\ u[k] = s[k] /\ k \in 2 .. l + 1
    BY <1>1
  <2> QED
    BY <1>3, <1>4, <2>1
<1>7. l + 1 \in U <=> Closes(s, b)
  <2>1. l + 1 \in 2 .. l + 1 <=> l # 0
    BY <1>1
  <2>2. l # 0 => u[(l + 1) - 1] = s[l]
    BY <1>1
  <2> QED
    BY <1>1, <1>4, <1>5, <2>1, <2>2
<1>8. \A k : k \in 2 .. l + 1 <=> k \in 2 .. l \/ (k = l + 1 /\ l # 0)
  BY <1>1
<1>9. CASE ~Closes(s, b)
  <2>1. U = T
    BY <1>3, <1>4, <1>6, <1>7, <1>8, <1>9
  <2> QED
    BY <1>2, <1>9, <2>1 DEF u
<1>10. CASE Closes(s, b)
  <2>1. U = T \cup {l + 1}
    BY <1>3, <1>4, <1>6, <1>7, <1>8, <1>10
  <2>2. l + 1 \in Nat /\ \A x \in T : x < l + 1
    BY <1>1, <1>3
  <2> DEFINE m == l + 1
  <2> HIDE DEF m
  <2>3. /\ Len(Ascending(T \cup {m})) = Len(Ascending(T)) + 1
        /\ \A k \in 1 .. Len(Ascending(T)) : Ascending(T \cup {m})[k] = Ascending(T)[k]
        /\ Ascending(T \cup {m})[Len(Ascending(T)) + 1] = m
    BY <1>2, <2>2, AscendingAdd DEF m
  <2> QED
    BY <1>2, <1>10, <2>1, <2>3 DEF m, u, l
<1> QED
  BY <1>9, <1>10

\* A part of a sequence, whatever comes after it.
LEMMA PartKept ==
  ASSUME NEW s \in Seq(Byte), NEW b \in Byte, NEW i \in Nat \ {0}, NEW j \in Int, j <= Len(s)
  PROVE  SubSeq(Append(s, b), i, j) = SubSeq(s, i, j)
<1> DEFINE u == Append(s, b)
<1>1. Len(s) \in Nat /\ \A k \in 1 .. Len(s) : u[k] = s[k]
  BY AppendType
<1> HIDE DEF u
<1>2. \A k \in 1 .. j - i + 1 : k + i - 1 \in 1 .. Len(s)
  BY <1>1
<1> SUFFICES SubSeq(u, i, j) = SubSeq(s, i, j)
  BY DEF u
<1>3. CASE j < i
  BY <1>3, SubSeqEmpty
<1>4. CASE j >= i
  <2>1. i \in 1 .. Len(s) + 1 /\ j \in i - 1 .. Len(s) /\ u \in Seq(Byte) /\ Len(u) = Len(s) + 1
    BY <1>1, <1>4, AppendType DEF u
  <2>2. i \in 1 .. Len(u) + 1 /\ j \in i - 1 .. Len(u)
    BY <1>1, <2>1
  <2>3. /\ SubSeq(u, i, j) \in Seq(Byte) /\ Len(SubSeq(u, i, j)) = j - i + 1
        /\ \A k \in 1 .. j - i + 1 : SubSeq(u, i, j)[k] = u[k + i - 1]
    BY <1>4, <2>1, <2>2, SubSeqProperties
  <2>4. /\ SubSeq(s, i, j) \in Seq(Byte) /\ Len(SubSeq(s, i, j)) = j - i + 1
        /\ \A k \in 1 .. j - i + 1 : SubSeq(s, i, j)[k] = s[k + i - 1]
    BY <1>4, <2>1, SubSeqProperties
  <2>5. \A k \in 1 .. j - i + 1 : u[k + i - 1] = s[k + i - 1]
    BY <1>1, <1>2
  <2> DEFINE x == SubSeq(u, i, j)
             y == SubSeq(s, i, j)
  <2> HIDE DEF x, y
  <2>6. x = y
    BY <2>3, <2>4, <2>5, SameSequence DEF x, y
  <2> QED
    BY <2>6 DEF x, y
<1> QED
  BY <1>3, <1>4

\* The bytes since the last line, one byte later; and the line a byte ends.
LEMMA LinesMore ==
  ASSUME NEW s \in Seq(Byte), NEW b \in Byte
  PROVE  LET u == Append(s, b)
             n == Len(Ends(s))
         IN
         /\ Since(s) \in Seq(Byte)
         /\ \A k \in 1 .. n : LineOf(u, k) = LineOf(s, k) /\ LineOf(s, k) \in Seq(Byte)
         /\ ~Closes(s, b) => Since(u) = Append(Since(s), b)
         /\ Closes(s, b) => /\ Since(u) = <<>>
                            /\ LineOf(u, n + 1) \in Seq(Byte)
                            /\ Since(s) = Append(LineOf(u, n + 1), "\r")
<1> DEFINE u == Append(s, b)
           n == Len(Ends(s))
           l == Len(s)
           z == LastEnd(s)
           e(k) == Ends(s)[k]
           f(k) == Ends(u)[k]
           S(i, j) == SubSeq(s, i, j)
           T(i, j) == SubSeq(u, i, j)
<1>1. /\ u \in Seq(Byte) /\ Len(u) = l + 1 /\ l \in Nat /\ \A i \in 1 .. l : u[i] = s[i] /\ s[i] \in Byte
      /\ u[l + 1] = b
  BY AppendType
<1>2. /\ n \in Nat
      /\ \A k \in 1 .. n : e(k) \in 2 .. l
      /\ z \in 0 .. l
      /\ z # 0 => s[z] = "\n"
      /\ z = IF n = 0 THEN 0 ELSE e(n)
  BY EndsType DEF LastEnd
<1>3. /\ ~Closes(s, b) => Ends(u) = Ends(s)
      /\ Closes(s, b) => /\ Len(Ends(u)) = n + 1
                         /\ \A k \in 1 .. n : f(k) = e(k)
                         /\ f(n + 1) = l + 1
  BY EndsMore
<1>4. \A k : LineOf(s, k) = S((IF k = 1 THEN 0 ELSE e(k - 1)) + 1, e(k) - 2)
  BY DEF LineOf
<1>5. \A k : LineOf(u, k) = T((IF k = 1 THEN 0 ELSE f(k - 1)) + 1, f(k) - 2)
  BY DEF LineOf
<1>6. /\ \A i \in Nat \ {0} : \A j \in Int : j <= l => T(i, j) = S(i, j)
      /\ \A i \in Nat \ {0} : \A j \in Int : j <= l => S(i, j) \in Seq(Byte)
  <2>1. \A i \in Nat \ {0} : \A j \in Int : j <= l => T(i, j) = S(i, j)
    BY PartKept
  <2>2. ASSUME NEW i \in Nat \ {0}, NEW j \in Int, j <= l
        PROVE  S(i, j) \in Seq(Byte)
    <3>1. \A k \in i .. j : s[k] \in Byte
      BY <1>1, <2>2
    <3> QED
      BY <3>1, SubSeqProperties
  <2> QED
    BY <2>1, <2>2
<1>7. Since(s) = S(z + 1, l)
  BY DEF Since
<1>8. Closes(s, b) => l # 0 /\ s[l] = "\r" /\ b = "\n"
  BY <1>1, EmptySeq DEF Closes
<1>9. Len(Ends(u)) = IF Closes(s, b) THEN n + 1 ELSE n
  BY <1>3
<1>10. LastEnd(u) = IF Len(Ends(u)) = 0 THEN 0 ELSE f(Len(Ends(u)))
  BY DEF LastEnd
<1>11. Since(u) = T(LastEnd(u) + 1, l + 1)
  BY <1>1 DEF Since
<1>12. \A i \in 1 .. l + 1 : /\ S(i, l) \in Seq(Byte) /\ T(i, l + 1) = Append(S(i, l), b)
  <2> TAKE i \in 1 .. l + 1
  <2>1. i \in 1 .. Len(u) /\ Len(u) \in i .. Len(u) /\ Len(u) - 1 = l /\ u[Len(u)] = b
    BY <1>1
  <2>2. SubSeq(u, i, Len(u)) = SubSeq(u, i, Len(u) - 1) \o <<u[Len(u)]>>
    BY <1>1, <2>1, SubSeqRecursiveSecond
  <2>3. T(i, l + 1) = T(i, l) \o <<b>>
    BY <1>1, <2>1, <2>2
  <2>4. T(i, l) = S(i, l) /\ S(i, l) \in Seq(Byte)
    BY <1>1, <1>6
  <2> DEFINE x == S(i, l)
  <2> HIDE DEF x, T
  <2>5. x \o <<b>> = Append(x, b)
    BY <2>4 DEF x
  <2> QED
    BY <2>3, <2>4, <2>5 DEF x
<1>13. l # 0 => \A i \in 1 .. l : S(i, l) = Append(S(i, l - 1), s[l]) /\ S(i, l - 1) \in Seq(Byte)
  <2> SUFFICES ASSUME l # 0, NEW i \in 1 .. l
               PROVE  S(i, l) = Append(S(i, l - 1), s[l]) /\ S(i, l - 1) \in Seq(Byte)
    OBVIOUS
  <2>1. i \in 1 .. Len(s) /\ l \in i .. Len(s)
    BY <1>1
  <2>2. SubSeq(s, i, l) = SubSeq(s, i, l - 1) \o <<s[l]>>
    BY <2>1, SubSeqRecursiveSecond
  <2>3. S(i, l - 1) \in Seq(Byte) /\ s[l] \in Byte
    BY <1>1, <1>6
  <2> DEFINE x == S(i, l - 1)
             c == s[l]
  <2> HIDE DEF x, c
  <2>4. x \o <<c>> = Append(x, c)
    BY <2>3 DEF x, c
  <2> QED
    BY <2>2, <2>3, <2>4 DEF x, c
<1> HIDE DEF u, n, l, z, e, f, S, T
<1>14. ASSUME NEW k \in 1 .. n
       PROVE  LineOf(u, k) = LineOf(s, k) /\ LineOf(s, k) \in Seq(Byte)
  <2> DEFINE i == (IF k = 1 THEN 0 ELSE e(k - 1)) + 1
             j == e(k) - 2
  <2>1. k # 1 => k - 1 \in 1 .. n
    BY <1>2
  <2>2. i \in Nat \ {0} /\ j \in Int /\ j <= l
    <3>1. e(k) \in 2 .. l
      BY <1>2
    <3>2. CASE k = 1
      BY <1>1, <3>1, <3>2
    <3>3. CASE k # 1
      <4>1. e(k - 1) \in 2 .. l
        BY <1>2, <2>1, <3>3
      <4> QED
        BY <1>1, <3>1, <3>3, <4>1
    <3> QED
      BY <3>2, <3>3
  <2>3. f(k) = e(k) /\ (k # 1 => f(k - 1) = e(k - 1))
    <3>1. CASE Closes(s, b)
      BY <1>3, <2>1, <3>1
    <3>2. CASE ~Closes(s, b)
      BY <1>3, <3>2 DEF e, f
    <3> QED
      BY <3>1, <3>2
  <2>4. LineOf(s, k) = S(i, j)
    BY <1>4
  <2>5. LineOf(u, k) = T(i, j)
    BY <1>5, <2>3
  <2> HIDE DEF i, j
  <2> QED
    BY <1>6, <2>2, <2>4, <2>5
<1>15. Since(s) \in Seq(Byte)
  <2>1. z + 1 \in Nat \ {0} /\ l \in Int /\ l <= l
    BY <1>1, <1>2
  <2> QED
    BY <1>6, <1>7, <2>1
<1>16. ASSUME ~Closes(s, b)
       PROVE  Since(u) = Append(Since(s), b)
  <2>1. LastEnd(u) = z
    BY <1>2, <1>3, <1>9, <1>10, <1>16 DEF z, e, f, n, LastEnd
  <2>2. z + 1 \in 1 .. l + 1
    BY <1>1, <1>2
  <2> QED
    BY <1>7, <1>11, <1>12, <2>1, <2>2
<1>17. ASSUME Closes(s, b)
       PROVE  /\ Since(u) = <<>>
              /\ LineOf(u, n + 1) \in Seq(Byte)
              /\ Since(s) = Append(LineOf(u, n + 1), "\r")
  <2>1. n + 1 # 0 /\ LastEnd(u) = l + 1
    BY <1>2, <1>3, <1>9, <1>10, <1>17
  <2>2. Since(u) = <<>>
    <3>1. (l + 1) + 1 \in Int /\ l + 1 \in Int /\ l + 1 < (l + 1) + 1
      BY <1>1
    <3>2. T((l + 1) + 1, l + 1) = <<>>
      BY <3>1, SubSeqEmpty DEF T
    <3> QED
      BY <1>11, <2>1, <3>2
  <2>3. LineOf(u, n + 1) = S(z + 1, l - 1)
    <3>1. (IF n + 1 = 1 THEN 0 ELSE f((n + 1) - 1)) = z
      <4>1. CASE n = 0
        BY <1>2, <4>1
      <4>2. CASE n # 0
        <5>1. n + 1 # 1 /\ (n + 1) - 1 = n /\ n \in 1 .. n
          BY <1>2, <4>2
        <5>2. f(n) = e(n)
          BY <1>3, <1>17, <5>1
        <5> QED
          BY <1>2, <4>2, <5>1, <5>2
      <4> QED
        BY <4>1, <4>2
    <3>2. f(n + 1) - 2 = l - 1
      BY <1>1, <1>3, <1>17
    <3>3. LineOf(u, n + 1) = T(z + 1, l - 1)
      BY <1>5, <3>1, <3>2
    <3>4. z + 1 \in Nat \ {0} /\ l - 1 \in Int /\ l - 1 <= l
      BY <1>1, <1>2
    <3> QED
      BY <1>6, <3>3, <3>4
  <2>4. z + 1 \in 1 .. l /\ l # 0
    <3>1. z # l
      BY <1>2, <1>8, <1>17
    <3> QED
      BY <1>1, <1>2, <1>8, <1>17, <3>1
  <2>5. S(z + 1, l) = Append(S(z + 1, l - 1), s[l]) /\ S(z + 1, l - 1) \in Seq(Byte)
    BY <1>13, <2>4
  <2> QED
    BY <1>7, <1>8, <1>17, <2>2, <2>3, <2>5
<1> QED
  BY <1>14, <1>15, <1>16, <1>17 DEF u, n

-----------------------------------------------------------------------------
(* The messages of a stream, one byte later.                                *)

\* Are the first n lines of a stream messages, and is the next, if any, none?
LegalUpTo(s, n) ==
  /\ n \in 0 .. Len(Ends(s))
  /\ \A k \in 1 .. n : IsMessage(LineOf(s, k))
  /\ n < Len(Ends(s)) => ~IsMessage(LineOf(s, n + 1))

\* There is exactly one such number.
LEMMA LegalIs ==
  ASSUME NEW s \in Seq(Byte)
  PROVE  LegalUpTo(s, Legal(s)) /\ \A n : LegalUpTo(s, n) => n = Legal(s)
<1> DEFINE l == Len(Ends(s))
           bad == {k \in DOMAIN Ends(s) : ~IsMessage(LineOf(s, k))}
           x == Min(bad)
           Ok(k) == IsMessage(LineOf(s, k))
<1>1. l \in Nat /\ DOMAIN Ends(s) = 1 .. l
  BY EndsType
<1>2. \A k : k \in bad <=> k \in 1 .. l /\ ~Ok(k)
  BY <1>1
<1>3. Legal(s) = IF bad = {} THEN l ELSE x - 1
  BY DEF Legal
<1>4. bad # {} => x \in bad /\ \A y \in bad : x <= y
  <2>1. bad \subseteq Nat
    BY <1>1
  <2> DEFINE B == bad
  <2> HIDE DEF B
  <2>2. B \subseteq Nat /\ B # {} => \E z \in B : \A y \in B : z <= y
    BY LeastMember
  <2>3. B # {} => Min(B) \in B /\ \A y \in B : Min(B) <= y
    BY <2>1, <2>2 DEF Min, B
  <2> QED
    BY <2>3 DEF B
<1>5. \A n : LegalUpTo(s, n) <=> /\ n \in 0 .. l /\ \A k \in 1 .. n : Ok(k)
                                 /\ n < l => ~Ok(n + 1)
  BY DEF LegalUpTo
<1> HIDE DEF l, bad, x, Ok
<1>6. LegalUpTo(s, Legal(s))
  <2>1. CASE bad = {}
    BY <1>1, <1>2, <1>3, <1>5, <2>1
  <2>2. CASE bad # {}
    <3>1. x \in 1 .. l /\ ~Ok(x) /\ Legal(s) = x - 1
      BY <1>2, <1>3, <1>4, <2>2
    <3>2. \A k \in 1 .. x - 1 : Ok(k)
      <4> TAKE k \in 1 .. x - 1
      <4>1. k \in 1 .. l /\ ~(x <= k)
        BY <1>1, <3>1
      <4> QED
        BY <1>2, <1>4, <2>2, <4>1
    <3>3. x - 1 \in 0 .. l /\ (x - 1) + 1 = x
      BY <1>1, <3>1
    <3> QED
      BY <1>5, <3>1, <3>2, <3>3
  <2> QED
    BY <2>1, <2>2
<1>7. ASSUME NEW n, LegalUpTo(s, n), NEW j, LegalUpTo(s, j), n < j
      PROVE  FALSE
  <2>1. n \in 0 .. l /\ j \in 0 .. l
    BY <1>5, <1>7
  <2>2. n + 1 \in 1 .. j /\ n < l
    BY <1>1, <1>7, <2>1
  <2> QED
    BY <1>5, <1>7, <2>2
<1>8. ASSUME NEW n, LegalUpTo(s, n)
      PROVE  n = Legal(s)
  <2>1. n \in 0 .. l /\ Legal(s) \in 0 .. l
    BY <1>5, <1>6, <1>8
  <2>2. ~(n < Legal(s)) /\ ~(Legal(s) < n)
    BY <1>6, <1>7, <1>8
  <2> QED
    BY <1>1, <2>1, <2>2
<1> QED
  BY <1>6, <1>8

\* A line more is one message more, if all before it were messages.
LEMMA LegalMore ==
  ASSUME NEW s \in Seq(Byte), NEW b \in Byte
  PROVE  LET u == Append(s, b)
             n == Len(Ends(s))
         IN
         /\ Legal(s) \in 0 .. n
         /\ ~Closes(s, b) => Legal(u) = Legal(s)
         /\ Closes(s, b) =>
              Legal(u) = IF Legal(s) = n /\ IsMessage(LineOf(u, n + 1)) THEN n + 1 ELSE Legal(s)
<1> DEFINE u == Append(s, b)
           n == Len(Ends(s))
           l == Legal(s)
           L == LineOf(u, n + 1)
           Old(k) == IsMessage(LineOf(s, k))
           New(k) == IsMessage(LineOf(u, k))
<1>1. u \in Seq(Byte) /\ n \in Nat
  BY AppendType, EndsType
<1>2. \A k \in 1 .. n : New(k) <=> Old(k)
  BY LinesMore
<1>3. Len(Ends(u)) = IF Closes(s, b) THEN n + 1 ELSE n
  BY EndsMore
<1>4. /\ l \in 0 .. n /\ \A k \in 1 .. l : Old(k)
      /\ l < n => ~Old(l + 1)
  BY LegalIs DEF LegalUpTo
<1>5. \A j : /\ j \in 0 .. Len(Ends(u)) /\ \A k \in 1 .. j : New(k)
             /\ j < Len(Ends(u)) => ~New(j + 1)
             => j = Legal(u)
  BY <1>1, LegalIs DEF LegalUpTo
<1>6. IsMessage(L) <=> New(n + 1)
  OBVIOUS
<1> HIDE DEF u, n, l, L, Old, New
<1>7. \A k \in 1 .. l : New(k)
  <2> TAKE k \in 1 .. l
  <2>1. k \in 1 .. n
    BY <1>1, <1>4
  <2> QED
    BY <1>2, <1>4, <2>1
<1>8. l < n => ~New(l + 1)
  <2>1. l < n => l + 1 \in 1 .. n
    BY <1>1, <1>4
  <2> QED
    BY <1>2, <1>4, <2>1
<1>9. CASE ~Closes(s, b)
  <2>1. Legal(u) = l
    BY <1>3, <1>4, <1>5, <1>7, <1>8, <1>9
  <2> QED
    BY <1>4, <1>9, <2>1 DEF u, n, l
<1>10. CASE Closes(s, b) /\ l = n /\ New(n + 1)
  <2>1. \A k \in 1 .. n + 1 : k \in 1 .. l \/ k = n + 1
    BY <1>1, <1>10
  <2>2. n + 1 \in 0 .. n + 1 /\ ~(n + 1 < n + 1)
    BY <1>1
  <2>3. Legal(u) = n + 1
    BY <1>3, <1>5, <1>7, <1>10, <2>1, <2>2
  <2> QED
    BY <1>4, <1>6, <1>10, <2>3 DEF u, n, l, L
<1>11. CASE Closes(s, b) /\ ~(l = n /\ New(n + 1))
  <2>1. l \in 0 .. n + 1 /\ (l < n + 1 => l < n \/ l = n)
    BY <1>1, <1>4
  <2>2. Legal(u) = l
    BY <1>3, <1>5, <1>7, <1>8, <1>11, <2>1
  <2> QED
    BY <1>4, <1>6, <1>11, <2>2 DEF u, n, l, L
<1> QED
  BY <1>9, <1>10, <1>11

-----------------------------------------------------------------------------
(* What the messages of a stream mean, one message later.                   *)

\* What a line can mean, and the parameters the last of a list of meanings has.
Notes == {Meaning(line, stale) : line \in Seq(Byte), stale \in Seq(Byte)}
StaleAfter(list) == IF list = <<>> THEN <<>> ELSE Last(list).params

\* The parameters are a text.
LEMMA MeaningType ==
  ASSUME NEW line \in Seq(Byte), NEW stale \in Seq(Byte)
  PROVE  Meaning(line, stale).params \in Seq(Byte) /\ Meaning(line, stale) \in Notes
<1>1. Body(line) \in Seq(Byte)
  BY CutType DEF Body
<1>2. After(Body(line), {" "}) \in Seq(Byte)
  BY <1>1, CutType
<1> DEFINE code == Before(Body(line), {" "})
           x == PrefixOf(line)
           worn == Over(stale, ParamsAt, x, 0)
           left == Over(worn, ParamsAt, code, CodeAt)
<1>3. Meaning(line, stale).params = IF Has(Body(line), " ") THEN After(Body(line), {" "}) ELSE left
  BY DEF Meaning, PrefixOf
<1>4. Meaning(line, stale) \in Notes
  BY DEF Notes
<1>5. code \in Seq(Byte) /\ x \in Seq(Byte)
  BY <1>1, CutType, PrefixOfType
<1> HIDE DEF code, x
<1>6. 0 \in Nat /\ CodeAt \in Nat /\ ParamsAt \in Nat
  BY Rooms
<1>7. worn \in Seq(Byte)
  BY <1>5, <1>6, OverType
<1> HIDE DEF worn
<1>8. left \in Seq(Byte)
  BY <1>5, <1>6, <1>7, OverType
<1> HIDE DEF left
<1> QED
  BY <1>2, <1>3, <1>4, <1>8

\* So are those of a list.
LEMMA StaleType ==
  ASSUME NEW list \in Seq(Notes)
  PROVE  StaleAfter(list) \in Seq(Byte)
<1>1. CASE list = <<>>
  BY <1>1 DEF StaleAfter
<1>2. CASE list # <<>>
  <2>1. Last(list) \in Notes
    <3> DEFINE N == Notes
    <3> HIDE DEF N
    <3>1. list \in Seq(N)
      BY DEF N
    <3>2. Len(list) \in 1 .. Len(list) /\ \A k \in 1 .. Len(list) : list[k] \in N
      BY <1>2, <3>1, EmptySeq
    <3> QED
      BY <3>2 DEF Last, N
  <2>2. \A m \in Notes : m.params \in Seq(Byte)
    BY MeaningType DEF Notes
  <2> QED
    BY <1>2, <2>1, <2>2 DEF StaleAfter
<1> QED
  BY <1>1, <1>2

\* The meanings of the first n lines, of the first n - 1, and so on.
MeaningRun(s, n, f) ==
  /\ f[0] = <<>>
  /\ \A k \in 1 .. n : f[k] = Append(f[k - 1], Meaning(LineOf(s, k), StaleAfter(f[k - 1])))

\* One meaning for each line.
LEMMA MeaningRunLen ==
  ASSUME NEW s \in Seq(Byte), NEW n \in Nat, \A k \in 1 .. n : LineOf(s, k) \in Seq(Byte),
         NEW f, MeaningRun(s, n, f)
  PROVE  \A k \in 0 .. n : f[k] \in Seq(Notes) /\ Len(f[k]) = k
<1> DEFINE S == {k \in 0 .. n : f[k] \in Seq(Notes) /\ Len(f[k]) = k}
<1>1. 0 \in S
  <2>1. <<>> \in Seq(Notes) /\ Len(<<>>) = 0 /\ 0 \in 0 .. n
    OBVIOUS
  <2>2. f[0] = <<>>
    BY DEF MeaningRun
  <2> DEFINE N == Notes
  <2> HIDE DEF N
  <2>3. f[0] \in Seq(N) /\ Len(f[0]) = 0
    BY <2>1, <2>2 DEF N
  <2> QED
    BY <2>1, <2>3 DEF N
<1>2. ASSUME NEW k \in 1 .. n, k - 1 \in S
      PROVE  k \in S
  <2>1. f[k - 1] \in Seq(Notes) /\ Len(f[k - 1]) = k - 1
    BY <1>2
  <2>2. Meaning(LineOf(s, k), StaleAfter(f[k - 1])) \in Notes
    BY <2>1, StaleType, MeaningType
  <2>3. f[k] = Append(f[k - 1], Meaning(LineOf(s, k), StaleAfter(f[k - 1])))
    BY DEF MeaningRun
  <2> DEFINE N == Notes
             m == Meaning(LineOf(s, k), StaleAfter(f[k - 1]))
             list == f[k - 1]
  <2> HIDE DEF N, m, list
  <2>4. Append(list, m) \in Seq(N) /\ Len(Append(list, m)) = Len(list) + 1
    BY <2>1, <2>2 DEF N, m, list
  <2>5. k \in 0 .. n /\ (k - 1) + 1 = k
    OBVIOUS
  <2> QED
    BY <2>1, <2>3, <2>4, <2>5 DEF N, m, list
<1>3. 0 .. n \subseteq S
  <2> HIDE DEF S
  <2> QED
    BY <1>1, <1>2, InductionUpTo
<1> QED
  BY <1>3

\* There is no other run.
LEMMA MeaningRunOne ==
  ASSUME NEW s, NEW t, NEW n \in Nat, \A k \in 1 .. n : LineOf(s, k) = LineOf(t, k),
         NEW f, MeaningRun(s, n, f), NEW g, MeaningRun(t, n, g)
  PROVE  f[n] = g[n]
<1> DEFINE S == {k \in 0 .. n : f[k] = g[k]}
<1>1. 0 \in S
  BY DEF MeaningRun
<1>2. ASSUME NEW k \in 1 .. n, k - 1 \in S
      PROVE  k \in S
  <2>1. f[k] = g[k]
    BY <1>2 DEF MeaningRun
  <2> QED
    BY <2>1
<1>3. 0 .. n \subseteq S
  <2> HIDE DEF S
  <2> QED
    BY <1>1, <1>2, InductionUpTo
<1> QED
  BY <1>3

\* Meanings is where such a run ends.
LEMMA MeaningsRun ==
  ASSUME NEW s \in Seq(Byte)
  PROVE  \E f : MeaningRun(s, Legal(s), f) /\ Meanings(s) = f[Legal(s)]
<1> DEFINE n == Legal(s)
           N == Notes
           R == Seq(N)
           To(i, list) == Append(list, Meaning(LineOf(s, i), StaleAfter(list)))
           next == [i \in 1 .. n |-> [list \in R |-> To(i, list)]]
           Go(f, k) == IF k = 0 THEN <<>>
                       ELSE Append(f[k - 1], Meaning(LineOf(s, k), IF k = 1 THEN <<>> ELSE Last(f[k - 1]).params))
           Is(f) == f = [k \in 0 .. n |-> Go(f, k)]
           run == CHOOSE f : Is(f)
<1>1. n \in Nat /\ \A k \in 1 .. n : LineOf(s, k) \in Seq(Byte)
  <2>1. n \in 0 .. Len(Ends(s)) /\ Len(Ends(s)) \in Nat
    BY LegalIs, EndsType DEF LegalUpTo
  <2>2. \A b \in Byte : \A k \in 1 .. Len(Ends(s)) : LineOf(s, k) \in Seq(Byte)
    BY LinesMore
  <2>3. Nul \in Byte
    BY DEF Byte
  <2> HIDE DEF n
  <2> QED
    BY <2>1, <2>2, <2>3
<1>2. next \in [1 .. n -> [R -> R]] /\ <<>> \in R
  <2> SUFFICES ASSUME NEW i \in 1 .. n, NEW list \in R
               PROVE  To(i, list) \in R
    OBVIOUS
  <2>1. Meaning(LineOf(s, i), StaleAfter(list)) \in N
    BY <1>1, StaleType, MeaningType
  <2> HIDE DEF N
  <2> QED
    BY <2>1
<1>3. Meanings(s) = run[n]
  BY DEF Meanings
<1>4. PICK g \in [0 .. n -> R] : g[0] = <<>> /\ \A i \in 1 .. n : g[i] = next[i][g[i - 1]]
  <2> DEFINE a == <<>>
  <2>1. Machine(R, a, n, next)
    BY <1>1, <1>2 DEF Machine
  <2> HIDE DEF n, R, next, a
  <2>2. HasRun(R, a, n, next)
    BY <2>1, MachineRuns
  <2> QED
    BY <2>2 DEF a, HasRun
<1>5. \A i \in 1 .. n : g[i] = To(i, g[i - 1])
  <2> TAKE i \in 1 .. n
  <2>1. i - 1 \in 0 .. n
    BY <1>1
  <2>2. g[i - 1] \in R
    BY <2>1
  <2> HIDE DEF To, R
  <2> QED
    BY <1>4, <2>2
<1>6. MeaningRun(s, n, g)
  BY <1>4, <1>5 DEF MeaningRun
<1>7. \A k \in 0 .. n : g[k] \in R /\ Len(g[k]) = k
  <2> HIDE DEF n
  <2> QED
    BY <1>1, <1>6, MeaningRunLen
<1>8. Is(g)
  <2>1. \A k \in 1 .. n : g[k] = Go(g, k)
    <3> TAKE k \in 1 .. n
    <3>1. k - 1 \in 0 .. n /\ k # 0 /\ (k - 1 = 0 <=> k = 1)
      BY <1>1
    <3>2. g[k - 1] = <<>> <=> k = 1
      <4>1. Len(g[k - 1]) = k - 1 /\ g[k - 1] \in R
        BY <1>7, <3>1
      <4> DEFINE list == g[k - 1]
      <4> HIDE DEF list, N
      <4>2. list = <<>> <=> Len(list) = 0
        BY <4>1 DEF list
      <4> QED
        BY <3>1, <4>1, <4>2 DEF list
    <3>3. StaleAfter(g[k - 1]) = IF k = 1 THEN <<>> ELSE Last(g[k - 1]).params
      BY <3>2 DEF StaleAfter
    <3> QED
      BY <1>5, <3>1, <3>3
  <2>2. \A k \in 0 .. n : g[k] = Go(g, k)
    <3> TAKE k \in 0 .. n
    <3>1. k = 0 \/ k \in 1 .. n
      BY <1>1
    <3> QED
      BY <1>4, <2>1, <3>1
  <2> HIDE DEF n, Go, R
  <2> QED
    BY <2>2
<1>9. Is(run)
  <2> HIDE DEF Is
  <2> QED
    BY <1>8
<1> DEFINE S == {k \in 0 .. n : run[k] = g[k]}
<1>10. \A k \in 0 .. n : run[k] = Go(run, k)
  <2> HIDE DEF run, Go, n
  <2> QED
    BY <1>9
<1>11. 0 \in S
  <2>1. 0 \in 0 .. n
    BY <1>1
  <2>2. run[0] = <<>>
    BY <1>10, <2>1
  <2> HIDE DEF run, n
  <2> QED
    BY <1>4, <2>1, <2>2
<1>12. ASSUME NEW k \in 1 .. n, k - 1 \in S
       PROVE  k \in S
  <2>1. k \in 0 .. n /\ k # 0
    BY <1>1
  <2>2. run[k - 1] = g[k - 1]
    BY <1>12
  <2> HIDE DEF run, n, R
  <2>3. run[k] = Go(run, k) /\ g[k] = Go(g, k)
    BY <1>8, <1>10, <2>1
  <2> QED
    BY <2>1, <2>2, <2>3
<1>13. 0 .. n \subseteq S
  <2> HIDE DEF S, n
  <2> QED
    BY <1>1, <1>11, <1>12, InductionUpTo
<1>14. Meanings(s) = g[n]
  <2>1. n \in 0 .. n
    BY <1>1
  <2> HIDE DEF n, run
  <2> QED
    BY <1>3, <1>13, <2>1
<1> QED
  BY <1>6, <1>14

\* What the messages mean when one more line is one, or none.
LEMMA MeaningsMore ==
  ASSUME NEW s \in Seq(Byte), NEW b \in Byte
  PROVE  LET u == Append(s, b)
             n == Legal(s)
         IN
         /\ Meanings(s) \in Seq(Notes) /\ Len(Meanings(s)) = n
         /\ Legal(u) = n => Meanings(u) = Meanings(s)
         /\ Legal(u) = n + 1 =>
              Meanings(u) = Append(Meanings(s), Meaning(LineOf(u, n + 1), StaleAfter(Meanings(s))))
<1> DEFINE u == Append(s, b)
           n == Legal(s)
<1>1. u \in Seq(Byte)
  BY AppendType
<1>2. n \in Nat /\ n \in 0 .. Len(Ends(s)) /\ Len(Ends(s)) \in Nat
  <2>1. n \in 0 .. Len(Ends(s)) /\ Len(Ends(s)) \in Nat
    BY LegalMore, EndsType
  <2> HIDE DEF n
  <2> QED
    BY <2>1
<1>3. \A k \in 1 .. Len(Ends(s)) : LineOf(u, k) = LineOf(s, k) /\ LineOf(s, k) \in Seq(Byte)
  BY LinesMore
<1>4. PICK f : MeaningRun(s, n, f) /\ Meanings(s) = f[n]
  BY MeaningsRun
<1>5. PICK g : MeaningRun(u, Legal(u), g) /\ Meanings(u) = g[Legal(u)]
  BY <1>1, MeaningsRun
<1> HIDE DEF u, n
<1>6. \A k \in 1 .. n : LineOf(s, k) = LineOf(u, k) /\ LineOf(s, k) \in Seq(Byte)
  BY <1>2, <1>3
<1>7. Meanings(s) \in Seq(Notes) /\ Len(Meanings(s)) = n
  <2>1. \A k \in 0 .. n : f[k] \in Seq(Notes) /\ Len(f[k]) = k
    BY <1>2, <1>4, <1>6, MeaningRunLen
  <2> QED
    BY <1>2, <1>4, <2>1
<1>8. ASSUME Legal(u) = n
      PROVE  Meanings(u) = Meanings(s)
  <2>1. f[n] = g[n]
    BY <1>2, <1>4, <1>5, <1>6, <1>8, MeaningRunOne
  <2> QED
    BY <1>4, <1>5, <1>8, <2>1
<1>9. ASSUME Legal(u) = n + 1
      PROVE  Meanings(u) = Append(Meanings(s), Meaning(LineOf(u, n + 1), StaleAfter(Meanings(s))))
  <2>1. MeaningRun(u, n + 1, g)
    BY <1>5, <1>9
  <2>2. MeaningRun(u, n, g)
    <3>1. \A k \in 1 .. n : k \in 1 .. n + 1
      BY <1>2
    <3> QED
      BY <2>1, <3>1 DEF MeaningRun
  <2>3. f[n] = g[n]
    BY <1>2, <1>4, <1>6, <2>2, MeaningRunOne
  <2>4. n + 1 \in 1 .. n + 1 /\ (n + 1) - 1 = n
    BY <1>2
  <2>5. g[n + 1] = Append(g[n], Meaning(LineOf(u, n + 1), StaleAfter(g[n])))
    BY <2>1, <2>4 DEF MeaningRun
  <2> QED
    BY <1>4, <1>5, <1>9, <2>3, <2>5
<1> QED
  BY <1>7, <1>8, <1>9 DEF u, n

-----------------------------------------------------------------------------
(* One run over a stream, one byte later.                                   *)

\* What a byte does, by the edges it takes.
LEMMA OnwardIs ==
  ASSUME NEW one \in Ones, NEW b \in Byte
  PROVE  LET T == Taken(one.cs, b)
             m == Perform(one.msg, b, Acts(T))
             to == {e.to : e \in T}
             out == Onward(one, b)
         IN
         /\ T = {} => out.msg = one.msg /\ out.cs = {} /\ out.handled = one.handled
         /\ T # {} /\ Done \in to => /\ out.msg = m /\ out.cs = {Start}
                                     /\ out.handled = Append(one.handled, Shown(m))
         /\ T # {} /\ Done \notin to => out.msg = m /\ out.cs = to /\ out.handled = one.handled
<1> DEFINE T == Taken(one.cs, b)
           m == Perform(one.msg, b, Acts(T))
           to == {e.to : e \in T}
           out == Onward(one, b)
           begin == [msg |-> one.msg, cs |-> one.cs, len |-> 0]
           r == Step(begin, b)
<1>1. Done \notin one.cs
  BY DEF Ones
<1>2. r = IF T = {} THEN [begin EXCEPT !.cs = {}]
          ELSE [msg |-> m, cs |-> to, len |-> 1]
  BY <1>1 DEF Step, Taken, Acts
<1>3. out = [msg |-> r.msg, cs |-> IF Done \in r.cs THEN {Start} ELSE r.cs,
             handled |-> IF Done \in r.cs THEN Append(one.handled, Shown(r.msg)) ELSE one.handled]
  BY DEF Onward, Saved, Complete
<1>4. T = {} => r.msg = one.msg /\ r.cs = {}
  BY <1>2
<1>5. T # {} => r.msg = m /\ r.cs = to
  <2> HIDE DEF m, to, T
  <2> QED
    BY <1>2
<1> HIDE DEF r, T, m, to, out, begin
<1>6. /\ out.msg = r.msg
      /\ Done \in r.cs => out.cs = {Start} /\ out.handled = Append(one.handled, Shown(r.msg))
      /\ Done \notin r.cs => out.cs = r.cs /\ out.handled = one.handled
  BY <1>3
<1> QED
  BY <1>4, <1>5, <1>6 DEF T, m, to, out

\* What a message holds of the line it is in, up to the end of that line.
Recorded(m, t, stale) ==
  /\ (\E p : InnerLeads(t, p)) => FrontRight(m, t) /\ RearRight(m, t, stale)
  /\ \A line \in Seq(Byte) : t = Append(line, "\r") /\ IsMessage(line) => Shown(m) = Meaning(line, stale)

\* The texts that lead somewhere, by their last byte.
LEMMA EndCases ==
  ASSUME NEW t \in Seq(Byte), NEW b \in Byte
  PROVE  LET u == Append(t, b) IN
         /\ b = "\r" => ~Ended(u) /\ ~(\E p : InnerLeads(u, p))
         /\ b = "\n" => /\ ~Returned(u) /\ ~(\E p : InnerLeads(u, p))
                        /\ Ended(u) => Returned(t)
         /\ b # "\r" /\ b # "\n" =>
              ~Ended(u) /\ ~Returned(u) /\ \A line \in Seq(Byte) : u # Append(line, "\r")
<1> DEFINE u == Append(t, b)
<1>1. "\r" \in Byte /\ "\n" \in Byte /\ "\r" # "\n"
  BY DEF Byte, Marks
<1>2. \A v \in Seq(Byte) : \A c \in Byte : u = Append(v, c) => v = t /\ c = b
  BY LastByte
<1>3. \A p : InnerLeads(u, p) => b # "\r" /\ b # "\n"
  BY InnerByte
<1> HIDE DEF u
<1>4. Returned(u) => b = "\r"
  BY <1>1, <1>2 DEF Returned
<1>5. Ended(u) => b = "\n" /\ Returned(t)
  BY <1>1, <1>2 DEF Ended
<1>6. \A line \in Seq(Byte) : u = Append(line, "\r") => b = "\r"
  BY <1>1, <1>2
<1> QED
  BY <1>1, <1>3, <1>4, <1>5, <1>6 DEF u

\* What it holds one byte later, and what it shows when the line ends.
LEMMA RecordedStep ==
  ASSUME NEW m \in Msg, NEW t \in Seq(Byte), NEW b \in Byte, NEW stale \in Seq(Byte),
         Recorded(m, t, stale), Reached(Append(t, b)) # {}
  PROVE  LET u == Append(t, b)
             out == Perform(m, b, Acts(Taken(Reached(t), b)))
         IN
         /\ Done \notin Reached(u) => b # "\n" /\ Recorded(out, u, stale)
         /\ Done \in Reached(u) =>
              b = "\n" /\ \E line \in Seq(Byte) : /\ t = Append(line, "\r") /\ IsMessage(line)
                                                  /\ Shown(out) = Meaning(line, stale)
<1> DEFINE u == Append(t, b)
           T == Taken(Reached(t), b)
           out == Perform(m, b, Acts(T))
<1>1. u \in Seq(Byte)
  BY AppendType
<1>2. Done \in Reached(u) <=> Ended(u)
  BY <1>1, DoneReached
<1>3. PICK q : TopLeads(u, q)
  BY DEF Reached
<1>4. /\ b = "\r" => ~Ended(u) /\ ~(\E p : InnerLeads(u, p))
      /\ b = "\n" => /\ ~Returned(u) /\ ~(\E p : InnerLeads(u, p))
                     /\ Ended(u) => Returned(t)
      /\ b # "\r" /\ b # "\n" =>
           ~Ended(u) /\ ~Returned(u) /\ \A line \in Seq(Byte) : u # Append(line, "\r")
  BY EndCases
<1>5. b \in {"\r", "\n"} => out = m
  <2>1. b \in {"\r", "\n"} => \A e \in T : e.does = {}
    BY EndTaken
  <2>2. b \in {"\r", "\n"} => Acts(T) = {}
    BY <2>1 DEF Acts
  <2> HIDE DEF T
  <2> QED
    BY <2>2, PerformNothing
<1>6. InnerLeads(u, q) => FrontRight(out, u) /\ RearRight(out, u, stale)
  <2> SUFFICES ASSUME InnerLeads(u, q)
               PROVE  FrontRight(out, u) /\ RearRight(out, u, stale)
    OBVIOUS
  <2>1. \E p : InnerLeads(t, p)
    BY InnerByte
  <2>2. FrontRight(m, t) /\ RearRight(m, t, stale)
    BY <2>1 DEF Recorded
  <2> QED
    BY <2>2, FrontStep, RearStep
<1> HIDE DEF T, out
<1>7. CASE b = "\r"
  <2>1. ASSUME NEW line \in Seq(Byte), u = Append(line, "\r"), IsMessage(line)
        PROVE  Shown(m) = Meaning(line, stale)
    <3>1. "\r" \in Byte
      BY DEF Byte, Marks
    <3>2. line = t
      BY <2>1, <3>1, LastByte DEF u
    <3>3. \E p : InnerLeads(t, p)
      BY <2>1, <3>2, InnerAtEnd
    <3>4. FrontRight(m, t) /\ RearRight(m, t, stale)
      BY <3>3 DEF Recorded
    <3> QED
      BY <2>1, <3>2, <3>4, MeaningShown
  <2>2. Recorded(out, u, stale)
    BY <1>4, <1>5, <1>7, <2>1 DEF Recorded
  <2>3. b # "\n"
    BY <1>7
  <2> QED
    BY <1>2, <1>4, <1>7, <2>2, <2>3 DEF u, out, T
<1>8. CASE b = "\n"
  <2>1. Ended(u)
    BY <1>3, <1>4, <1>8 DEF TopLeads
  <2>2. PICK line \in Seq(Byte) : t = Append(line, "\r") /\ IsMessage(line)
    BY <1>4, <1>8, <2>1 DEF Returned
  <2>3. Shown(out) = Meaning(line, stale)
    BY <1>5, <1>8, <2>2 DEF Recorded
  <2> QED
    BY <1>2, <1>8, <2>1, <2>2, <2>3 DEF u, out, T
<1>9. CASE b # "\r" /\ b # "\n"
  <2>1. InnerLeads(u, q)
    BY <1>3, <1>4, <1>9 DEF TopLeads
  <2>2. Recorded(out, u, stale)
    BY <1>4, <1>6, <1>9, <2>1 DEF Recorded
  <2> QED
    BY <1>2, <1>4, <1>9, <2>2 DEF u, out, T
<1> QED
  BY <1>7, <1>8, <1>9

\* The last byte since the last line is the last of all.
LEMMA SinceLast ==
  ASSUME NEW s \in Seq(Byte), NEW line \in Seq(Byte), NEW c \in Byte, Since(s) = Append(line, c)
  PROVE  s # <<>> /\ s[Len(s)] = c
<1> DEFINE z == LastEnd(s)
           l == Len(s)
           t == Since(s)
           n == Len(line)
<1>1. z \in 0 .. l /\ l \in Nat
  BY EndsType
<1>2. t = SubSeq(s, z + 1, l)
  BY DEF Since
<1>3. Len(t) = n + 1 /\ n \in Nat /\ t[n + 1] = c
  BY AppendType
<1> HIDE DEF z, l, t, n
<1>4. \A i \in z + 1 .. l : s[i] \in Byte
  BY <1>1 DEF l
<1>5. /\ Len(t) = IF z + 1 <= l THEN l - (z + 1) + 1 ELSE 0
      /\ \A i \in 1 .. l - (z + 1) + 1 : t[i] = s[z + 1 + i - 1]
  <2>1. z + 1 \in Int /\ l \in Int
    BY <1>1
  <2> DEFINE y == z + 1
  <2> HIDE DEF y
  <2>2. /\ Len(SubSeq(s, y, l)) = IF y <= l THEN l - y + 1 ELSE 0
        /\ \A i \in 1 .. l - y + 1 : SubSeq(s, y, l)[i] = s[y + i - 1]
    BY <1>4, <2>1, SubSeqProperties DEF y
  <2> QED
    BY <1>2, <2>2 DEF y
<1>6. z + 1 <= l /\ l - (z + 1) + 1 = n + 1
  BY <1>1, <1>3, <1>5
<1>7. n + 1 \in 1 .. l - (z + 1) + 1 /\ z + 1 + (n + 1) - 1 = l /\ l # 0
  BY <1>1, <1>3, <1>6
<1>8. s[l] = c
  BY <1>3, <1>5, <1>7
<1> QED
  BY <1>7, <1>8, EmptySeq DEF l

\* One run over a stream handles its messages, and its state is where the bytes
\* since the last line lead, until a line is not a message.
OfStream(s, one) ==
  /\ one.handled = Meanings(s)
  /\ Legal(s) < Len(Ends(s)) => one.cs = {}
  /\ Legal(s) = Len(Ends(s)) => one.cs = Reached(Since(s))
  /\ one.cs # {} => Recorded(one.msg, Since(s), StaleAfter(Meanings(s)))

\* At the start of a line nothing is recorded yet but the parameters before.
LEMMA RecordedNothing ==
  ASSUME NEW m \in Msg
  PROVE  Recorded(m, <<>>, m.params)
<1>1. ~HasPrefix(<<>>)
  BY DEF HasPrefix
<1>2. Body(<<>>) = <<>> /\ ~Has(<<>>, " ") /\ PrefixOf(<<>>) = <<>>
  BY <1>1, NothingHas DEF Body, PrefixOf
<1>3. Before(<<>>, {" "}) = <<>>
  BY PartsEmpty DEF Before
<1> DEFINE s == m.params
<1>4. s \in Seq(Byte)
  BY DEF Msg
<1> HIDE DEF s
<1>5. Over(Worn(<<>>, s), ParamsAt, <<>>, CodeAt) = s
  BY <1>2, <1>4, OverNothing DEF Worn
<1>6. FrontRight(m, <<>>) /\ RearRight(m, <<>>, m.params)
  BY <1>1, <1>2, <1>3, <1>5 DEF FrontRight, RearRight, s
<1>7. \A line \in Seq(Byte) : <<>> # Append(line, "\r")
  <2>1. "\r" \in Byte
    BY DEF Byte, Marks
  <2> QED
    BY <2>1, AppendType
<1> QED
  BY <1>6, <1>7 DEF Recorded

\* The parameters of the last of a list.
LEMMA StaleIs ==
  ASSUME NEW list \in Seq(Notes), NEW m \in Notes
  PROVE  StaleAfter(Append(list, m)) = m.params
<1> DEFINE N == Notes
           more == Append(list, m)
<1> HIDE DEF N
<1>1. list \in Seq(N) /\ m \in N
  BY DEF N
<1>2. more # <<>> /\ more[Len(more)] = m
  BY <1>1
<1> HIDE DEF more
<1>3. StaleAfter(more) = m.params
  BY <1>2 DEF StaleAfter, Last
<1> QED
  BY <1>3 DEF more

\* One byte later.
LEMMA OfStreamStep ==
  ASSUME NEW s \in Seq(Byte), NEW b \in Byte, NEW one \in Ones, OfStream(s, one)
  PROVE  OfStream(Append(s, b), Onward(one, b))
<1> DEFINE u == Append(s, b)
           n == Len(Ends(s))
           l == Legal(s)
           L == LineOf(u, n + 1)
           t == Since(s)
           v == Append(t, b)
           T == Taken(one.cs, b)
           m == Perform(one.msg, b, Acts(T))
           to == {e.to : e \in T}
           out == Onward(one, b)
           st == StaleAfter(Meanings(s))
<1>1. /\ one.msg \in Msg /\ Start # Done
      /\ one.handled = Meanings(s)
      /\ l < n => one.cs = {}
      /\ l = n => one.cs = Reached(t)
      /\ one.cs # {} => Recorded(one.msg, t, st)
  BY StartNotDone DEF Ones, OfStream
<1>2. /\ T = {} => out.msg = one.msg /\ out.cs = {} /\ out.handled = one.handled
      /\ T # {} /\ Done \in to => /\ out.msg = m /\ out.cs = {Start}
                                  /\ out.handled = Append(one.handled, Shown(m))
      /\ T # {} /\ Done \notin to => out.msg = m /\ out.cs = to /\ out.handled = one.handled
  BY OnwardIs
<1>3. /\ t \in Seq(Byte)
      /\ ~Closes(s, b) => Since(u) = v
      /\ Closes(s, b) => Since(u) = <<>> /\ L \in Seq(Byte) /\ t = Append(L, "\r")
  BY LinesMore
<1>4. /\ l \in 0 .. n
      /\ ~Closes(s, b) => Legal(u) = l
      /\ Closes(s, b) => Legal(u) = IF l = n /\ IsMessage(L) THEN n + 1 ELSE l
  BY LegalMore
<1>5. n \in Nat /\ Len(Ends(u)) = IF Closes(s, b) THEN n + 1 ELSE n
  BY EndsType, EndsMore
<1>6. /\ Meanings(s) \in Seq(Notes)
      /\ Legal(u) = l => Meanings(u) = Meanings(s)
      /\ Legal(u) = l + 1 =>
           Meanings(u) = Append(Meanings(s), Meaning(LineOf(u, l + 1), st))
  BY MeaningsMore
<1>7. one.cs = {} => T = {}
  BY DEF Taken
<1>8. Closes(s, b) => b = "\n"
  BY DEF Closes
<1>9. l = n => to = Reached(v) /\ (Reached(v) = {} <=> T = {})
  BY <1>1, <1>3, ReachedMore
<1>10. st \in Seq(Byte)
  BY <1>6, StaleType
<1>11. l = n /\ T # {} =>
         /\ Done \notin Reached(v) => b # "\n" /\ Recorded(m, v, st)
         /\ Done \in Reached(v) =>
              b = "\n" /\ \E line \in Seq(Byte) : /\ t = Append(line, "\r") /\ IsMessage(line)
                                                  /\ Shown(m) = Meaning(line, st)
  <2> SUFFICES ASSUME l = n, T # {}
               PROVE  /\ Done \notin Reached(v) => b # "\n" /\ Recorded(m, v, st)
                      /\ Done \in Reached(v) =>
                         b = "\n" /\ \E line \in Seq(Byte) : /\ t = Append(line, "\r") /\ IsMessage(line)
                                                             /\ Shown(m) = Meaning(line, st)
    OBVIOUS
  <2>1. Recorded(one.msg, t, st) /\ Reached(v) # {} /\ one.cs = Reached(t)
    BY <1>1, <1>7, <1>9
  <2> DEFINE y == one.msg
  <2> HIDE DEF y, t, st
  <2>2. /\ y \in Msg /\ t \in Seq(Byte) /\ st \in Seq(Byte)
        /\ Recorded(y, t, st) /\ Reached(Append(t, b)) # {}
    BY <1>1, <1>3, <1>10, <2>1 DEF y
  <2>3. LET w == Perform(y, b, Acts(Taken(Reached(t), b))) IN
         /\ Done \notin Reached(v) => b # "\n" /\ Recorded(w, v, st)
         /\ Done \in Reached(v) =>
              b = "\n" /\ \E line \in Seq(Byte) : /\ t = Append(line, "\r") /\ IsMessage(line)
                                                  /\ Shown(w) = Meaning(line, st)
    BY <2>2, RecordedStep
  <2> QED
    BY <2>1, <2>3 DEF y
<1>17. m \in Msg
  BY <1>1, PerformType
<1> HIDE DEF u, n, l, L, t, v, T, m, to, out, st
<1> SUFFICES OfStream(u, out)
  BY DEF u, out
<1>12. CASE l # n
  <2>1. l < n /\ Legal(u) = l /\ l < Len(Ends(u))
    BY <1>4, <1>5, <1>12
  <2>2. out.cs = {} /\ out.handled = Meanings(u)
    BY <1>1, <1>2, <1>6, <1>7, <2>1
  <2>3. Legal(u) # Len(Ends(u))
    BY <1>4, <1>5, <2>1
  <2> QED
    BY <2>1, <2>2, <2>3 DEF OfStream
<1>13. CASE l = n /\ T = {} /\ ~Closes(s, b)
  <2>1. Legal(u) = l /\ Len(Ends(u)) = l /\ ~(l < l)
    BY <1>4, <1>5, <1>13
  <2>2. out.cs = {} /\ Since(u) = v /\ Reached(v) = {}
    BY <1>2, <1>3, <1>9, <1>13
  <2>3. out.handled = Meanings(u)
    BY <1>1, <1>2, <1>6, <1>13, <2>1
  <2> QED
    BY <2>1, <2>2, <2>3 DEF OfStream
<1>14. CASE l = n /\ T = {} /\ Closes(s, b)
  <2>1. ~IsMessage(L)
    <3>1. Reached(v) = {} /\ b = "\n" /\ t = Append(L, "\r") /\ L \in Seq(Byte)
      BY <1>3, <1>8, <1>9, <1>14
    <3>2. v \in Seq(Byte)
      BY <1>3, AppendType DEF v
    <3>3. ~Ended(v)
      BY <3>1, <3>2, DoneReached
    <3>4. ~Returned(t)
      BY <1>3, <3>1, <3>3 DEF Ended, v
    <3> QED
      BY <3>1, <3>4 DEF Returned
  <2>2. Legal(u) = l /\ l < Len(Ends(u)) /\ l # Len(Ends(u))
    BY <1>4, <1>5, <1>14, <2>1
  <2>3. out.cs = {} /\ out.handled = Meanings(u)
    BY <1>1, <1>2, <1>6, <1>14, <2>2
  <2> QED
    BY <2>2, <2>3 DEF OfStream
<1>15. CASE l = n /\ T # {} /\ Done \notin Reached(v)
  <2>1. ~Closes(s, b) /\ Recorded(m, v, st)
    BY <1>8, <1>11, <1>15
  <2>2. Legal(u) = l /\ Len(Ends(u)) = l /\ ~(l < l)
    BY <1>4, <1>5, <1>15, <2>1
  <2>3. Since(u) = v /\ out.cs = Reached(v) /\ out.msg = m /\ out.handled = Meanings(u)
    BY <1>1, <1>2, <1>3, <1>6, <1>9, <1>15, <2>1, <2>2
  <2>4. StaleAfter(Meanings(u)) = st
    BY <1>6, <2>2 DEF st
  <2> QED
    BY <2>1, <2>2, <2>3, <2>4 DEF OfStream
<1>16. CASE l = n /\ T # {} /\ Done \in Reached(v)
  <2>1. PICK line \in Seq(Byte) : t = Append(line, "\r") /\ IsMessage(line) /\ Shown(m) = Meaning(line, st)
    BY <1>11, <1>16
  <2>2. b = "\n"
    BY <1>11, <1>16
  <2>3. "\r" \in Byte
    BY DEF Byte, Marks
  <2>4. Closes(s, b)
    BY <2>1, <2>2, <2>3, SinceLast DEF Closes, t
  <2>5. L = line
    BY <1>3, <2>1, <2>3, <2>4, LastByte
  <2>6. Legal(u) = n + 1 /\ Len(Ends(u)) = n + 1 /\ ~(n + 1 < n + 1)
    BY <1>4, <1>5, <1>16, <2>1, <2>4, <2>5
  <2>7. Meanings(u) = Append(Meanings(s), Meaning(line, st))
    BY <1>6, <1>16, <2>5, <2>6 DEF L
  <2>8. out.msg = m /\ out.cs = {Start} /\ out.handled = Meanings(u)
    BY <1>1, <1>2, <1>9, <1>16, <2>1, <2>7
  <2>9. Since(u) = <<>> /\ {Start} = Reached(<<>>)
    BY <1>3, <2>4, NothingReached
  <2>10. StaleAfter(Meanings(u)) = m.params
    <3> DEFINE x == Meaning(line, st)
    <3>1. x \in Notes
      BY <1>10, <2>1, MeaningType
    <3>2. x.params = m.params
      <4>1. Shown(m).params = m.params
        BY DEF Shown
      <4> QED
        BY <2>1, <4>1
    <3> HIDE DEF x
    <3>3. StaleAfter(Append(Meanings(s), x)) = x.params
      BY <1>6, <3>1, StaleIs
    <3> QED
      BY <2>7, <3>2, <3>3 DEF x
  <2>11. Recorded(m, <<>>, m.params)
    BY <1>17, RecordedNothing
  <2> QED
    BY <2>6, <2>8, <2>9, <2>10, <2>11 DEF OfStream
<1> QED
  BY <1>12, <1>13, <1>14, <1>15, <1>16

\* Before the first byte.
LEMMA OfStreamNothing == OfStream(<<>>, NoInput)
<1> DEFINE s == <<>>
<1>1. s \in Seq(Byte) /\ Len(s) = 0
  OBVIOUS
<1>2. EmptyMsg \in Msg
  BY EmptyMsgStaged
<1> HIDE DEF s
<1>3. Len(Ends(s)) = 0
  <2>1. Len(Ends(s)) \in Nat /\ \A k \in 1 .. Len(Ends(s)) : Ends(s)[k] \in 2 .. Len(s)
    BY <1>1, EndsType
  <2>2. ~(1 \in 1 .. Len(Ends(s)))
    <3>1. ASSUME 1 \in 1 .. Len(Ends(s))
          PROVE  FALSE
      <4>1. Ends(s)[1] \in 2 .. 0
        BY <1>1, <2>1, <3>1
      <4> QED
        BY <4>1
    <3> QED
      BY <3>1
  <2> QED
    BY <2>1, <2>2
<1>4. Nul \in Byte
  BY DEF Byte
<1>5. Legal(s) = 0
  <2>1. Legal(s) \in 0 .. 0
    BY <1>1, <1>3, LegalIs DEF LegalUpTo
  <2> QED
    BY <2>1
<1>6. Meanings(s) = <<>>
  <2>1. Meanings(s) \in Seq(Notes) /\ Len(Meanings(s)) = Legal(s)
    BY <1>1, <1>4, MeaningsMore
  <2> DEFINE N == Notes
             list == Meanings(s)
  <2> HIDE DEF N, list
  <2>2. list \in Seq(N) /\ Len(list) = 0
    BY <1>5, <2>1 DEF N, list
  <2>3. list = <<>>
    BY <2>2
  <2> QED
    BY <2>3 DEF list
<1>7. Since(s) = <<>>
  <2>1. LastEnd(s) = 0
    BY <1>3 DEF LastEnd
  <2>2. SubSeq(s, 0 + 1, 0) = <<>>
    BY SubSeqEmpty
  <2> QED
    BY <1>1, <2>1, <2>2 DEF Since
<1>8. NoInput.msg = EmptyMsg /\ NoInput.cs = {Start} /\ NoInput.handled = <<>>
  BY DEF NoInput
<1>9. StaleAfter(<<>>) = <<>>
  BY DEF StaleAfter
<1>10. EmptyMsg.params = <<>>
  BY DEF EmptyMsg
<1>11. Recorded(EmptyMsg, <<>>, EmptyMsg.params)
  BY <1>2, RecordedNothing
<1>12. Reached(<<>>) = {Start}
  BY NothingReached
<1>13. OfStream(s, NoInput)
  BY <1>3, <1>5, <1>6, <1>7, <1>8, <1>9, <1>10, <1>11, <1>12 DEF OfStream
<1> QED
  BY <1>13 DEF s

\* A first part of a stream is a shorter one and a byte.
LEMMA UptoMore ==
  ASSUME NEW s \in Seq(Byte), NEW k \in 1 .. Len(s)
  PROVE  /\ Upto(s, k - 1) \in Seq(Byte) /\ s[k] \in Byte
         /\ Upto(s, k) = Append(Upto(s, k - 1), s[k])
         /\ Upto(s, 0) = <<>> /\ Upto(s, Len(s)) = s
<1>1. k - 1 \in 0 .. Len(s) /\ s[k] \in Byte /\ 1 \in 1 .. Len(s) /\ k \in 1 .. Len(s)
  OBVIOUS
<1>2. Upto(s, k - 1) \in Seq(Byte)
  BY <1>1, UptoLen
<1>3. SubSeq(s, 1, k) = SubSeq(s, 1, k - 1) \o <<s[k]>>
  BY <1>1, SubSeqRecursiveSecond
<1> DEFINE x == Upto(s, k - 1)
           c == s[k]
<1>4. Upto(s, k) = x \o <<c>>
  BY <1>3 DEF Upto
<1> HIDE DEF x, c
<1>5. x \o <<c>> = Append(x, c)
  BY <1>1, <1>2 DEF x, c
<1>6. Upto(s, 0) = <<>>
  BY SubSeqEmpty DEF Upto
<1>7. Upto(s, Len(s)) = s
  BY SubSeqFull DEF Upto
<1> QED
  BY <1>1, <1>2, <1>4, <1>5, <1>6, <1>7 DEF x, c

\* All along a stream.
LEMMA OfStreamRuns ==
  ASSUME NEW s \in Seq(Byte)
  PROVE  \A k \in 0 .. Len(s) : OfStream(Upto(s, k), OneRun(s)[k])
<1> DEFINE n == Len(s)
           S == {k \in 0 .. n : OfStream(Upto(s, k), OneRun(s)[k])}
<1>1. n \in Nat
  OBVIOUS
<1>2. /\ OneRun(s)[0] = NoInput
      /\ \A k \in 1 .. n : OneRun(s)[k] = Onward(OneRun(s)[k - 1], s[k])
      /\ \A k \in 0 .. n : OneRun(s)[k] \in Ones
  BY OneRunSteps
<1>3. 0 \in S
  <2>1. Upto(s, 0) = <<>>
    BY SubSeqEmpty DEF Upto
  <2>2. OfStream(Upto(s, 0), OneRun(s)[0])
    BY <1>2, <2>1, OfStreamNothing
  <2> HIDE DEF n
  <2> QED
    BY <1>1, <2>2
<1>4. ASSUME NEW k \in 1 .. n, k - 1 \in S
      PROVE  k \in S
  <2>1. OneRun(s)[k - 1] \in Ones /\ k \in 0 .. n
    BY <1>1, <1>2
  <2>2. Upto(s, k - 1) \in Seq(Byte) /\ s[k] \in Byte /\ Upto(s, k) = Append(Upto(s, k - 1), s[k])
    BY UptoMore
  <2>3. OfStream(Upto(s, k - 1), OneRun(s)[k - 1])
    BY <1>4
  <2>4. OfStream(Append(Upto(s, k - 1), s[k]), Onward(OneRun(s)[k - 1], s[k]))
    BY <2>1, <2>2, <2>3, OfStreamStep
  <2>5. OfStream(Upto(s, k), OneRun(s)[k])
    BY <1>2, <2>2, <2>4
  <2> QED
    BY <2>1, <2>5
<1>5. 0 .. n \subseteq S
  <2> HIDE DEF S, n
  <2> QED
    BY <1>1, <1>3, <1>4, InductionUpTo
<1> QED
  BY <1>5

-----------------------------------------------------------------------------
(* The messages handled are those of the stream.                            *)

\* The first part of MessagesRight.
HandledRight == handled = Meanings(Upto(stream, Parsed))

\* As one run handles the messages of the stream, so does the bot.
LEMMA HandledAsOne == BotInv /\ ParsedAsOne => HandledRight
<1> SUFFICES ASSUME BotInv, ParsedAsOne
             PROVE  HandledRight
  OBVIOUS
<1>1. stream \in Seq(Byte) /\ Parsed \in 0 .. Len(stream)
  <2>1. stream \in Seq(Byte) /\ read_buf \in Seq(Byte) /\ Len(read_buf) <= Len(stream)
    BY DEF BotInv, TypeOK, StreamKept
  <2> QED
    BY <2>1 DEF Parsed
<1>2. OfStream(Upto(stream, Parsed), OneRun(stream)[Parsed])
  BY <1>1, OfStreamRuns
<1> QED
  BY <1>2 DEF OfStream, ParsedAsOne, HandledRight

-----------------------------------------------------------------------------
(* When the parser is stuck.                                                *)

\* A byte that leads nowhere is not consumed.
LEMMA StepStuck ==
  ASSUME NEW r \in GoodRuns, NEW byte \in Byte, Step(r, byte).cs = {}
  PROVE  Step(r, byte).len = r.len
<1> DEFINE taken == {e \in UNION {EdgesFrom[p] : p \in r.cs} : byte \in e.on}
           does == UNION {e.does : e \in taken}
           to == {e.to : e \in taken}
           after == Step(r, byte)
<1>1. after = IF Done \in r.cs THEN r
              ELSE IF taken = {} THEN [r EXCEPT !.cs = {}]
              ELSE [msg |-> Perform(r.msg, byte, does), cs |-> to, len |-> r.len + 1]
  BY DEF Step
<1>2. taken # {} => to # {}
  OBVIOUS
<1>3. r = [msg |-> r.msg, cs |-> r.cs, len |-> r.len]
  BY DEF GoodRuns
<1> HIDE DEF taken, does, to, after
<1>4. Done \notin r.cs /\ taken # {} => after.cs = to
  BY <1>1
<1>5. Done \in r.cs => after = r
  BY <1>1
<1>6. Done \notin r.cs /\ taken = {} => after.len = r.len
  <2>1. [r EXCEPT !.cs = {}] = [msg |-> r.msg, cs |-> {}, len |-> r.len]
    BY <1>3
  <2> QED
    BY <1>1, <2>1
<1>7. after.cs = {} => after.len = r.len
  BY <1>2, <1>4, <1>5, <1>6
<1> QED
  BY <1>7 DEF after

\* Stuck in a window, the parser has not taken all of it.
LEMMA ParseStuck ==
  ASSUME NEW m \in Msg, NEW cs0 \in SUBSET Position, Staged(m, cs0),
         NEW window \in Seq(Byte), window # <<>>, Parse(m, cs0, window).cs = {}
  PROVE  Parse(m, cs0, window).len < Len(window)
<1> DEFINE n == Len(window)
           begin == [msg |-> m, cs |-> cs0, len |-> 0]
<1>1. n \in Nat /\ n # 0 /\ \A i \in 1 .. n : window[i] \in Byte
  BY EmptySeq
<1>2. PICK run :
        /\ run[0] = begin
        /\ \A i \in 1 .. n : run[i] = Step(run[i - 1], window[i])
        /\ Parse(m, cs0, window) = run[n]
  BY ParseSteps
<1>3. begin \in GoodRuns /\ begin.len = 0
  BY DEF GoodRuns
<1> HIDE DEF n, begin
<1> DEFINE S == {i \in 0 .. n : run[i] \in GoodRuns /\ run[i].len <= i}
<1>4. 0 \in S
  BY <1>1, <1>2, <1>3
<1>5. ASSUME NEW i \in 1 .. n, i - 1 \in S
      PROVE  i \in S
  <2>1. run[i - 1] \in GoodRuns /\ run[i - 1].len <= i - 1 /\ window[i] \in Byte
    BY <1>1, <1>5
  <2>2. run[i] = Step(run[i - 1], window[i])
    BY <1>2
  <2>3. run[i] \in GoodRuns /\ run[i].len <= run[i - 1].len + 1
    BY <2>1, <2>2, GoodStep
  <2>4. run[i].len \in Nat /\ run[i - 1].len \in Nat
    BY <2>1, <2>3 DEF GoodRuns
  <2>5. run[i].len <= i
    BY <1>1, <2>1, <2>3, <2>4
  <2> QED
    BY <1>1, <2>3, <2>5
<1>6. 0 .. n \subseteq S
  <2> HIDE DEF S
  <2> QED
    BY <1>1, <1>4, <1>5, InductionUpTo
<1>7. run[n - 1] \in GoodRuns /\ run[n - 1].len <= n - 1
  <2>1. n - 1 \in 0 .. n
    BY <1>1
  <2> QED
    BY <1>6, <2>1
<1>8. n \in 1 .. n /\ run[n] = Step(run[n - 1], window[n]) /\ window[n] \in Byte
  BY <1>1, <1>2
<1>9. run[n].cs = {} => run[n].len = run[n - 1].len
  BY <1>7, <1>8, StepStuck
<1>10. run[n - 1].len \in Nat
  BY <1>7 DEF GoodRuns
<1> QED
  BY <1>1, <1>2, <1>7, <1>9, <1>10 DEF n

\* There is always something in the window, while there is in the ring.
LEMMA WindowNonempty ==
  ASSUME BotInv, read_buf # <<>>
  PROVE  Window # <<>>
<1> DEFINE k == Lesser(Len(read_buf), ReadCapacity - (Parsed % ReadCapacity))
<1>1. Parsed % ReadCapacity \in 0 .. ReadCapacity - 1
  <2>1. Parsed \in Nat
    BY BotTypes
  <2> QED
    BY <2>1, BotAssumption
<1>2. read_buf \in Seq(Byte) /\ Len(read_buf) \in Nat \ {0}
  BY BotTypes, EmptySeq
<1>3. k \in 0 .. Len(read_buf) /\ k # 0
  BY <1>1, <1>2, BotAssumption DEF Lesser
<1> HIDE DEF k
<1>4. Upto(read_buf, k) \in Seq(Byte) /\ Len(Upto(read_buf, k)) = k
  BY <1>2, <1>3, UptoLen
<1>5. Window = Upto(read_buf, k)
  BY DEF Window, k
<1> QED
  BY <1>3, <1>4, <1>5, EmptySeq

\* Three texts joined are the same whichever two are joined first.
Associates(a, b, c) == (a \o b) \o c = a \o (b \o c)

\* All texts are such.
LEMMA JoinedThrice ==
  ASSUME NEW T, NEW a \in Seq(T), NEW b \in Seq(T), NEW c \in Seq(T)
  PROVE  Associates(a, b, c)
BY ConcatAssociative DEF Associates

\* Nothing, or lines up to its end.
EndsInLine(s) == s = <<>> \/ (Len(s) >= 2 /\ s[Len(s) - 1] = "\r" /\ s[Len(s)] = "\n")

\* No bytes are left over then.
LEMMA NothingSince ==
  ASSUME NEW s \in Seq(Byte), EndsInLine(s)
  PROVE  Since(s) = <<>>
<1> DEFINE l == Len(s)
           x == Upto(s, l - 1)
<1>0. l \in Nat /\ (s = <<>> <=> l = 0)
  BY EmptySeq
<1>1. CASE s = <<>>
  <2>1. Since(s) \in Seq(Byte) /\ LastEnd(s) \in 0 .. 0
    <3>1. Nul \in Byte
      BY DEF Byte
    <3> QED
      BY <1>0, <1>1, <3>1, LinesMore, EndsType
  <2>2. LastEnd(s) = 0 /\ l = 0
    BY <1>0, <1>1, <2>1
  <2>3. SubSeq(s, 0 + 1, 0) = <<>>
    BY SubSeqEmpty
  <2> QED
    BY <2>2, <2>3 DEF Since
<1>2. CASE l >= 2 /\ s[l - 1] = "\r" /\ s[l] = "\n"
  <2>1. l \in 1 .. l /\ l - 1 \in 0 .. l /\ l - 1 # 0 /\ l - 1 \in 1 .. l - 1
    BY <1>0, <1>2
  <2>2. x \in Seq(Byte) /\ s[l] \in Byte /\ Upto(s, l) = Append(x, s[l]) /\ Upto(s, l) = s
    BY <2>1, UptoMore
  <2>3. Len(x) = l - 1 /\ x[l - 1] = s[l - 1]
    BY <2>1, UptoLen
  <2> DEFINE b == "\n"
  <2> HIDE DEF x, l
  <2>4. b \in Byte /\ s = Append(x, b)
    BY <1>2, <2>2
  <2>5. Closes(x, b)
    BY <1>2, <2>1, <2>2, <2>3, EmptySeq DEF Closes
  <2> HIDE DEF b
  <2>6. Since(Append(x, b)) = <<>>
    BY <2>2, <2>4, <2>5, LinesMore
  <2> QED
    BY <2>4, <2>6
<1> QED
  BY <1>1, <1>2 DEF EndsInLine

\* A line more.
LEMMA LineMore ==
  ASSUME NEW s \in Seq(Byte), NEW line \in Lines
  PROVE  EndsInLine(s \o line) /\ line \in Seq(Byte)
<1> DEFINE n == Len(line)
           l == Len(s)
           all == s \o line
<1>1. line \in Seq(Byte) /\ n >= 2 /\ line[n - 1] = "\r" /\ line[n] = "\n"
  BY BotAssumption, LinesAssumption
<1>2. n \in Nat /\ l \in Nat
  BY <1>1
<1>3. Len(all) = l + n /\ \A i \in 1 .. n : all[l + i] = line[i]
  BY <1>1
<1>4. n - 1 \in 1 .. n /\ n \in 1 .. n /\ l + (n - 1) = (l + n) - 1 /\ l + n >= 2
  BY <1>1, <1>2
<1> HIDE DEF n, l, all
<1>5. Len(all) >= 2 /\ all[Len(all) - 1] = "\r" /\ all[Len(all)] = "\n"
  BY <1>1, <1>3, <1>4
<1> QED
  BY <1>1, <1>5 DEF EndsInLine, all

\* The parser is stuck only from the inner loop on, for good, at a byte of the
\* ring; and all that has come over a first connection is whole lines.
StuckInv ==
  /\ cs = {} => pc \in {"drain", "undefined"} /\ read_buf # <<>>
  /\ pc \in {"drain", "undefined"} => ~connected
  /\ connected => link
  /\ logins \in Seq(Int)
  /\ Len(logins) = 0 => (link <=> connected)
  /\ Len(logins) = 0 /\ ~link => stream = <<>> /\ unread = <<>>
  /\ link /\ Len(logins) <= 1 /\ (connected => Len(logins) = 0) => EndsInLine(stream \o unread)

\* At first nothing has come.
LEMMA StuckInit == Init => StuckInv
<1> SUFFICES ASSUME Init
             PROVE  StuckInv
  OBVIOUS
<1>1. /\ cs = {Start} /\ connected = FALSE /\ link = FALSE /\ stream = <<>> /\ unread = <<>>
      /\ logins = <<>> /\ pc \in {"poll", "undefined"}
  BY DEF Init, IrcInit
<1>2. <<>> \in Seq(Int)
  OBVIOUS
<1> QED
  BY <1>1, <1>2 DEF StuckInv

\* Every step keeps it.
LEMMA StuckStep == BotInv /\ StuckInv /\ [Next]_vars => StuckInv'
<1> SUFFICES ASSUME BotInv, StuckInv, [Next]_vars
             PROVE  StuckInv'
  OBVIOUS
<1>0. /\ stream \in Seq(Byte) /\ unread \in Seq(Byte) /\ read_buf \in Seq(Byte)
      /\ pc \in {"poll", "drain", "stopped", "undefined"}
      /\ Len(logins) \in Nat /\ connected \in BOOLEAN /\ link \in BOOLEAN
  BY BotTypes DEF StuckInv
<1>1. ASSUME UNCHANGED <<cs, pc, connected, link, unread, stream, logins, read_buf>>
      PROVE  StuckInv'
  BY <1>1 DEF StuckInv
<1>2. ASSUME pc = "poll"
      PROVE  cs # {}
  BY <1>2 DEF StuckInv
<1>3. ASSUME NEW line \in Lines, ServerSends(line)
      PROVE  StuckInv'
  <2>1. /\ pc = "poll" /\ link /\ unread' = unread \o line
        /\ UNCHANGED <<cs, pc, connected, link, stream, logins, read_buf>>
    BY <1>3 DEF ServerSends, irc, loop, history
  <2>2. EndsInLine((stream \o unread) \o line) /\ line \in Seq(Byte)
    <3>1. stream \o unread \in Seq(Byte)
      BY <1>0
    <3> DEFINE all == stream \o unread
    <3> HIDE DEF all
    <3>2. EndsInLine(all \o line) /\ line \in Seq(Byte)
      BY <3>1, LineMore DEF all
    <3> QED
      BY <3>2 DEF all
  <2>3. (stream \o unread) \o line = stream \o (unread \o line)
    <3>1. Associates(stream, unread, line)
      BY <1>0, <2>2, JoinedThrice
    <3> QED
      BY <3>1 DEF Associates
  <2>4. EndsInLine(stream' \o unread')
    BY <2>1, <2>2, <2>3
  <2> QED
    BY <1>2, <2>1, <2>4 DEF StuckInv
<1>4. CASE Connect
  <2>1. /\ pc = "poll" /\ ~link /\ link' = TRUE /\ connected' = TRUE
        /\ UNCHANGED <<cs, pc, unread, stream, logins, read_buf>>
    BY <1>4 DEF Connect, irc, history
  <2>2. Len(logins) = 0 => EndsInLine(stream' \o unread')
    <3>1. <<>> \o <<>> = <<>>
      OBVIOUS
    <3>2. Len(logins) = 0 => stream' = <<>> /\ unread' = <<>>
      BY <2>1 DEF StuckInv
    <3> QED
      BY <3>1, <3>2 DEF EndsInLine
  <2> QED
    BY <1>2, <2>1, <2>2 DEF StuckInv
<1>5. CASE Disconnect
  <2>1. /\ pc = "poll" /\ link /\ ~connected /\ link' = FALSE
        /\ UNCHANGED <<cs, pc, connected, stream, logins, read_buf>>
    BY <1>5 DEF Disconnect, irc, loop, history
  <2>2. Len(logins) # 0
    BY <2>1 DEF StuckInv
  <2> QED
    BY <1>2, <2>1, <2>2 DEF StuckInv
<1>6. ASSUME NEW n \in Amounts(ReadSizes, Readable), ReadSome(n)
      PROVE  StuckInv'
  <2> DEFINE part == Upto(unread, n)
             rest == From(unread, n)
  <2>1. /\ pc = "poll" /\ link
        /\ UNCHANGED <<cs, pc, connected, link, logins>>
        /\ stream' = stream \o part /\ unread' = rest
    BY <1>6 DEF ReadSome, irc, loop
  <2>2. part \in Seq(Byte) /\ rest \in Seq(Byte)
    BY <1>6, ReadEffect DEF ReadSome
  <2>3. part \o rest = unread
    <3>1. n \in 0 .. Len(unread)
      <4>1. Readable \in Nat /\ Readable <= Len(unread)
        BY BotTypes DEF Readable, Lesser
      <4>2. n \in Nat /\ n <= Readable
        BY <1>6, <4>1, BotAssumption DEF Amounts
      <4> QED
        BY <1>0, <4>1, <4>2
    <3>2. /\ Len(part) = n /\ \A i \in 1 .. n : part[i] = unread[i]
          /\ Len(rest) = Len(unread) - n /\ \A i \in 1 .. Len(unread) - n : rest[i] = unread[n + i]
      BY <1>0, <3>1, UptoLen, FromLen
    <3> HIDE DEF part, rest
    <3> DEFINE l == Len(unread)
               both == part \o rest
    <3>3. /\ both \in Seq(Byte) /\ Len(both) = Len(part) + Len(rest)
          /\ \A i \in 1 .. Len(part) : both[i] = part[i]
          /\ \A i \in 1 .. Len(rest) : both[Len(part) + i] = rest[i]
      BY <2>2
    <3> HIDE DEF both, l
    <3>4. l \in Nat /\ n \in 0 .. l /\ Len(both) = l
      BY <1>0, <3>1, <3>2, <3>3 DEF l
    <3>5. ASSUME NEW i \in 1 .. l
          PROVE  both[i] = unread[i]
      <4>1. CASE i <= n
        <5>1. i \in 1 .. n
          BY <3>4, <4>1
        <5> QED
          BY <3>2, <3>3, <5>1
      <4>2. CASE i > n
        <5>1. i - n \in 1 .. l - n /\ n + (i - n) = i
          BY <3>4, <4>2
        <5>2. both[n + (i - n)] = rest[i - n]
          BY <3>2, <3>3, <5>1 DEF l
        <5>3. rest[i - n] = unread[n + (i - n)]
          BY <3>2, <5>1 DEF l
        <5> QED
          BY <5>1, <5>2, <5>3
      <4> QED
        BY <3>4, <4>1, <4>2
    <3>6. both = unread
      BY <1>0, <3>3, <3>4, <3>5, SameSequence DEF l
    <3> QED
      BY <3>6 DEF both
  <2>4. (stream \o part) \o rest = stream \o (part \o rest)
    <3>1. Associates(stream, part, rest)
      BY <1>0, <2>2, JoinedThrice
    <3> QED
      BY <3>1 DEF Associates
  <2> HIDE DEF part, rest
  <2>5. stream' \o unread' = stream \o unread
    BY <2>1, <2>3, <2>4
  <2>6. Len(logins) = 0 => link
    BY <2>1
  <2> QED
    BY <1>2, <2>1, <2>5 DEF StuckInv
<1>7. ASSUME NEW n \in Amounts(WriteSizes, Len(write_buf)), WriteSome(n)
      PROVE  StuckInv'
  BY <1>1, <1>7 DEF WriteSome, loop, net
<1>8. CASE LeavePoll
  <2>1. /\ pc = "poll" /\ pc' \in {"drain", "stopped"} /\ connected' = FALSE
        /\ UNCHANGED <<cs, link, unread, stream, read_buf>>
        /\ IF connected THEN logins' = Append(logins, Parsed) ELSE logins' = logins
    BY <1>8 DEF LeavePoll, OnConnect, irc, net
  <2>2. Parsed \in Int
    BY BotTypes
  <2>3. CASE connected
    <3>1. logins' \in Seq(Int) /\ Len(logins') = Len(logins) + 1
      BY <2>1, <2>2, <2>3 DEF StuckInv
    <3> QED
      BY <1>0, <1>2, <2>1, <2>3, <3>1 DEF StuckInv
  <2>4. CASE ~connected
    BY <1>0, <1>2, <2>1, <2>4 DEF StuckInv
  <2> QED
    BY <1>0, <2>3, <2>4
<1>9. CASE Stop
  <2>1. pc = "poll" /\ pc' = "stopped" /\ UNCHANGED <<cs, connected, link, unread, stream, logins, read_buf>>
    BY <1>9 DEF Stop, irc, net, history
  <2> QED
    BY <1>2, <2>1 DEF StuckInv
<1>10. CASE ParseWindow
  <2> DEFINE r == Parse(msg, cs, Window)
  <2>1. /\ pc = "drain" /\ read_buf # <<>>
        /\ UNCHANGED <<pc, connected, link, unread, stream, logins>>
    BY <1>10 DEF ParseWindow, loop, net
  <2>2. /\ ParseAndHandle(r) /\ Window \in Seq(Byte) /\ Len(Window) <= Len(read_buf)
        /\ read_buf' \in Seq(Byte) /\ Len(read_buf') = Len(read_buf) - r.len
        /\ r.len \in 0 .. Len(read_buf)
    BY <1>10, ParseEffect
  <2>3. Window # <<>>
    BY <2>1, WindowNonempty
  <2>4. r.cs = {} => r.len < Len(Window)
    BY <2>2, <2>3, ParseStuck DEF BotInv, TypeOK
  <2>5. cs' = IF Done \in r.cs THEN {Start} ELSE r.cs
    BY <2>2 DEF ParseAndHandle, Saved, Complete
  <2> HIDE DEF r
  <2>6. cs' = {} => read_buf' # <<>>
    <3>1. cs' = {} => r.len < Len(Window)
      BY <2>4, <2>5
    <3>2. Len(Window) \in Nat /\ Len(read_buf) \in Nat
      BY <1>0, <2>2
    <3>3. cs' = {} => Len(read_buf') # 0
      BY <2>2, <3>1, <3>2
    <3> QED
      BY <3>3
  <2> QED
    BY <2>1, <2>6 DEF StuckInv
<1>11. CASE Drained
  <2>1. pc = "drain" /\ read_buf = <<>> /\ pc' = "poll"
        /\ UNCHANGED <<cs, connected, link, unread, stream, logins, read_buf>>
    BY <1>11 DEF Drained, irc, net, history
  <2> QED
    BY <2>1 DEF StuckInv
<1>12. CASE UNCHANGED vars
  BY <1>1, <1>12 DEF vars, irc, loop, net, history
<1>13. CASE RunAstray
  <2>1. pc = "drain" /\ read_buf # <<>> /\ pc' = "undefined"
        /\ UNCHANGED <<cs, connected, link, unread, stream, logins, read_buf>>
    BY <1>13 DEF RunAstray, irc, net, history
  <2> QED
    BY <2>1 DEF StuckInv
<1> QED
  BY <1>3, <1>4, <1>5, <1>6, <1>7, <1>8, <1>9, <1>10, <1>11, <1>12, <1>13 DEF Next, Drain, Halted

\* A byte that no edge takes stops the machine.
LEMMA RefusedStops ==
  ASSUME NEW one \in Ones, NEW b \in Byte, Refused(one.cs, b)
  PROVE  Onward(one, b).cs = {}
<1> DEFINE T == Taken(one.cs, b)
<1>1. one.cs \in SUBSET Position
  BY DEF Ones
<1>2. T = {}
  <2>1. ASSUME NEW e \in T
        PROVE  FALSE
    BY <1>1, <2>1 DEF Taken, EdgesFrom, Refused
  <2> HIDE DEF T
  <2> QED
    BY <2>1
<1> QED
  BY <1>2, OnwardIs

\* Once stopped, it stays so.
LEMMA StopsForGood ==
  ASSUME NEW s \in Seq(Byte), NEW j \in 0 .. Len(s), OneRun(s)[j].cs = {}
  PROVE  OneRun(s)[Len(s)].cs = {}
<1> DEFINE n == Len(s)
           S == {k \in 0 .. n : k >= j => OneRun(s)[k].cs = {}}
<1>1. n \in Nat /\ j \in 0 .. n
  OBVIOUS
<1>2. /\ \A k \in 1 .. n : OneRun(s)[k] = Onward(OneRun(s)[k - 1], s[k])
      /\ \A k \in 0 .. n : OneRun(s)[k] \in Ones
  BY OneRunSteps
<1>3. \A k \in 1 .. n : s[k] \in Byte
  OBVIOUS
<1> HIDE DEF n
<1>4. 0 \in S
  <2>1. 0 \in 0 .. n /\ (0 >= j => j = 0)
    BY <1>1
  <2> QED
    BY <2>1
<1>5. ASSUME NEW k \in 1 .. n, k - 1 \in S
      PROVE  k \in S
  <2>1. k \in 0 .. n /\ k - 1 \in 0 .. n /\ (k >= j => k = j \/ k - 1 >= j)
    BY <1>1
  <2>2. ASSUME OneRun(s)[k - 1].cs = {}
        PROVE  OneRun(s)[k].cs = {}
    <3> DEFINE one == OneRun(s)[k - 1]
    <3>1. one \in Ones /\ s[k] \in Byte /\ OneRun(s)[k] = Onward(one, s[k]) /\ one.cs = {}
      BY <1>2, <1>3, <2>1, <2>2
    <3> HIDE DEF one
    <3>2. Refused(one.cs, s[k])
      BY <3>1 DEF Refused
    <3> QED
      BY <3>1, <3>2, RefusedStops
  <2>3. k >= j => OneRun(s)[k].cs = {}
    BY <1>5, <2>1, <2>2
  <2> QED
    BY <2>1, <2>3
<1>6. 0 .. n \subseteq S
  <2> HIDE DEF S
  <2> QED
    BY <1>1, <1>4, <1>5, InductionUpTo
<1>7. n \in 0 .. n /\ n >= j
  BY <1>1
<1>8. OneRun(s)[n].cs = {}
  BY <1>6, <1>7
<1> QED
  BY <1>8 DEF n

\* A stuck parser has met a line that is not a message, if all that came is lines.
LEMMA StuckAtLine ==
  ASSUME BotInv, ParsedAsOne, cs = {},
         NEW t \in Seq(Byte), EndsInLine(stream \o t)
  PROVE  Legal(stream \o t) < Len(Ends(stream \o t))
<1> DEFINE all == stream \o t
           n == Len(all)
           one == OneRun(all)[n]
<1>1. /\ stream \in Seq(Byte) /\ Parsed \in 0 .. Len(stream)
  BY BotTypes
<1>2. /\ all \in Seq(Byte) /\ n = Len(stream) + Len(t) /\ n \in Nat
      /\ \A k \in 1 .. Len(stream) : all[k] = stream[k]
      /\ \A k \in 0 .. Len(stream) : k \in 0 .. n
  BY <1>1
<1>3. \A k \in 0 .. Len(stream) : OneRun(all)[k] = OneRun(stream)[k]
  BY <1>1, OneRunGrows
<1>4. EndsInLine(all)
  OBVIOUS
<1>5. PICK j \in 0 .. Len(stream) : OneRun(stream)[j].cs = {}
  <2>1. CASE cs = OneRun(stream)[Parsed].cs
    BY <1>1, <2>1
  <2>2. CASE /\ Parsed < Len(stream)
             /\ Refused(OneRun(stream)[Parsed].cs, stream[Parsed + 1])
    <3> DEFINE p == Parsed
               l == Len(stream)
    <3>1. p \in 0 .. l /\ l \in Nat /\ p < l /\ Refused(OneRun(stream)[p].cs, stream[p + 1])
      BY <1>1, <2>2
    <3>2. /\ \A k \in 1 .. l : OneRun(stream)[k] = Onward(OneRun(stream)[k - 1], stream[k])
          /\ \A k \in 0 .. l : OneRun(stream)[k] \in Ones
      BY <1>1, OneRunSteps
    <3>3. \A k \in 1 .. l : stream[k] \in Byte
      BY <1>1
    <3> HIDE DEF p, l
    <3>4. p + 1 \in 1 .. l /\ p + 1 \in 0 .. l /\ (p + 1) - 1 = p
      BY <3>1
    <3>5. OneRun(stream)[p + 1] = Onward(OneRun(stream)[p], stream[p + 1])
      BY <3>2, <3>4
    <3>6. OneRun(stream)[p + 1].cs = {}
      BY <3>1, <3>2, <3>3, <3>4, <3>5, RefusedStops
    <3> QED
      BY <3>4, <3>6 DEF l
  <2> QED
    BY <2>1, <2>2 DEF ParsedAsOne
<1>6. j \in 0 .. n /\ OneRun(all)[j].cs = {}
  BY <1>2, <1>3, <1>5
<1> HIDE DEF all, n
<1>7. one.cs = {}
  BY <1>2, <1>6, StopsForGood DEF n
<1>8. OfStream(all, one)
  <2>1. n \in 0 .. Len(all) /\ Upto(all, n) = all
    <3>1. n \in 0 .. Len(all)
      BY <1>2 DEF n
    <3>2. SubSeq(all, 1, Len(all)) = all
      BY <1>2
    <3> QED
      BY <3>1, <3>2 DEF Upto, n
  <2>2. OfStream(Upto(all, n), OneRun(all)[n])
    BY <1>2, <2>1, OfStreamRuns
  <2> QED
    BY <2>1, <2>2
<1>9. Since(all) = <<>>
  BY <1>2, <1>4, NothingSince
<1>10. Reached(<<>>) = {Start}
  BY NothingReached
<1>11. Legal(all) # Len(Ends(all))
  BY <1>7, <1>8, <1>9, <1>10 DEF OfStream
<1>12. Legal(all) \in 0 .. Len(Ends(all)) /\ Len(Ends(all)) \in Nat
  BY <1>2, LegalIs, EndsType DEF LegalUpTo
<1>13. Legal(all) < Len(Ends(all))
  BY <1>11, <1>12
<1> QED
  BY <1>13 DEF all

\* So the messages handled are right.
LEMMA MessagesRightHolds == BotInv /\ ParsedAsOne /\ StuckInv => MessagesRight
<1> SUFFICES ASSUME BotInv, ParsedAsOne, StuckInv
             PROVE  MessagesRight
  OBVIOUS
<1>1. handled = Meanings(Upto(stream, Parsed))
  BY HandledAsOne DEF HandledRight
<1>2. ASSUME cs = {}, Len(logins) <= 1, link
      PROVE  Legal(stream \o unread) < Len(Ends(stream \o unread))
  <2>1. EndsInLine(stream \o unread)
    BY <1>2 DEF StuckInv
  <2>2. unread \in Seq(Byte)
    BY BotTypes
  <2> QED
    BY <1>2, <2>1, <2>2, StuckAtLine
<1> QED
  BY <1>1, <1>2 DEF MessagesRight

\* However the input is cut by reads and by the end of the ring, the messages
\* handled are the lines of the stream up to the first that is not one, each with
\* the prefix, code and parameters Meaning gives it: the line's own where each fits
\* its room; what texts put down later have left of the one before, where one runs
\* over; and the parameters of the message before, so worn, where the line has
\* none.  On a first connection the parser is stuck only at a line that is none.
THEOREM BotMessagesRight == Spec => []MessagesRight
<1>1. Spec => []StuckInv
  BY StuckInit, StuckStep, BotInvariant, PTL DEF Spec
<1> QED
  BY <1>1, MessagesRightHolds, BotInvariant, BotParsesAsOne, PTL

-----------------------------------------------------------------------------
(* Texts that follow each other, whole or cut.                              *)

\* Where in out a text x that begins after p may end, and how far the first k of
\* some texts may reach.
Stretch(out, x, cut, p) ==
  {p + n : n \in {i \in (IF cut THEN 0 ELSE Len(x)) .. Lesser(Len(x), Len(out) - p) :
                    SubSeq(out, p + 1, p + i) = Upto(x, i)}}
ReachRun(out, due, cut, f) ==
  /\ f[0] = {0}
  /\ \A k \in 1 .. Len(due) : f[k] = UNION {Stretch(out, due[k], cut, p) : p \in f[k - 1]}

\* A text ends where it is the same byte by byte so far.
Follows(out, x, cut, p) ==
  \A q : q \in Stretch(out, x, cut, p) <=>
           /\ q \in p .. Len(out) /\ q - p <= Len(x) /\ (~cut => q - p = Len(x))
           /\ \A i \in 1 .. q - p : out[p + i] = x[i]

\* That is where it ends.
LEMMA StretchIs ==
  ASSUME NEW T, NEW out \in Seq(T), NEW x \in Seq(T), NEW cut \in BOOLEAN,
         NEW p \in 0 .. Len(out)
  PROVE  Follows(out, x, cut, p)
<1> DEFINE a == Len(x)
           l == Len(out)
           low == IF cut THEN 0 ELSE a
           high == Lesser(a, l - p)
<1>1. a \in Nat /\ l \in Nat /\ p \in 0 .. l
  OBVIOUS
<1>2. /\ high <= a /\ high <= l - p /\ high \in Nat /\ low \in Nat /\ low <= a
      /\ \A i \in Nat : i <= a /\ i <= l - p => i <= high
      /\ \A i \in Nat : i <= a => (low <= i <=> (~cut => i = a))
  <2> HIDE DEF a, l
  <2> QED
    BY <1>1 DEF Lesser
<1>3. ASSUME NEW i \in 0 .. high
      PROVE  SubSeq(out, p + 1, p + i) = Upto(x, i) <=> \A j \in 1 .. i : out[p + j] = x[j]
  <2> DEFINE u == SubSeq(out, p + 1, p + i)
             v == SubSeq(x, 1, i)
  <2>0. i \in Nat /\ i <= a /\ p + i <= l /\ p + 1 >= 1
    BY <1>1, <1>2
  <2>1. u \in Seq(T) /\ Len(u) = i /\ \A j \in 1 .. i : u[j] = out[p + j]
    <3>1. /\ p + 1 \in 1 .. Len(out) + 1 /\ p + i \in p .. Len(out)
      BY <1>1, <2>0
    <3> QED
      BY <2>0, <3>1, SMTT(30)
  <2>2. v \in Seq(T) /\ Len(v) = i /\ \A j \in 1 .. i : v[j] = x[j]
    BY <2>0
  <2>3. u = v <=> \A j \in 1 .. i : u[j] = v[j]
    <3> HIDE DEF u, v
    <3> QED
      BY <2>0, <2>1, <2>2, SeqEqual
  <2> QED
    BY <2>1, <2>2, <2>3 DEF Upto
<1> HIDE DEF a, l, low, high
<1>4. ASSUME NEW q, q \in Stretch(out, x, cut, p)
      PROVE  /\ q \in p .. l /\ q - p <= a /\ (~cut => q - p = a)
             /\ \A i \in 1 .. q - p : out[p + i] = x[i]
  <2>1. PICK i \in low .. high : q = p + i /\ SubSeq(out, p + 1, p + i) = Upto(x, i)
    BY <1>4 DEF Stretch, a, l, low, high
  <2>2. i \in 0 .. high /\ i \in Nat /\ q - p = i /\ i <= a /\ i <= l - p /\ q \in p .. l
    BY <1>1, <1>2, <2>1
  <2>3. \A j \in 1 .. i : out[p + j] = x[j]
    BY <1>3, <2>1, <2>2
  <2> QED
    BY <1>2, <2>1, <2>2, <2>3
<1>5. ASSUME NEW q, q \in p .. l, q - p <= a, ~cut => q - p = a,
             \A i \in 1 .. q - p : out[p + i] = x[i]
      PROVE  q \in Stretch(out, x, cut, p)
  <2> DEFINE i == q - p
  <2>1. i \in Nat /\ i <= l - p /\ i <= a /\ q = p + i
    BY <1>1, <1>5
  <2>2. i \in low .. high /\ i \in 0 .. high
    BY <1>2, <1>5, <2>1
  <2>3. \A j \in 1 .. i : out[p + j] = x[j]
    BY <1>5
  <2> HIDE DEF i
  <2>4. SubSeq(out, p + 1, p + i) = Upto(x, i)
    BY <1>3, <2>2, <2>3
  <2> QED
    BY <2>1, <2>2, <2>4 DEF Stretch, a, l, low, high
<1> QED
  BY <1>4, <1>5 DEF a, l, Follows

\* How far texts reach is where such a run ends.
LEMMA ReachIs ==
  ASSUME NEW T, NEW out \in Seq(T), NEW due \in Seq(Seq(T)), NEW cut \in BOOLEAN
  PROVE  \E f : /\ ReachRun(out, due, cut, f)
                /\ \A k \in 0 .. Len(due) : f[k] \subseteq 0 .. Len(out)
                /\ Concatenates(out, due, cut) <=> Len(out) \in f[Len(due)]
<1> DEFINE n == Len(due)
           l == Len(out)
           R == SUBSET (0 .. l)
           a == {0}
           To(k, S) == UNION {Stretch(out, due[k], cut, p) : p \in S}
           next == [k \in 1 .. n |-> [S \in R |-> To(k, S)]]
           Go(f, k) == IF k = 0 THEN {0}
                       ELSE UNION {{p + m : m \in {i \in (IF cut THEN 0 ELSE Len(due[k])) .. Lesser(Len(due[k]), Len(out) - p) :
                                      SubSeq(out, p + 1, p + i) = Upto(due[k], i)}} :
                                   p \in f[k - 1]}
           Is(f) == f = [k \in 0 .. n |-> Go(f, k)]
           run == CHOOSE f : Is(f)
<1>1. n \in Nat /\ l \in Nat /\ \A k \in 1 .. n : due[k] \in Seq(T)
  OBVIOUS
<1>2. next \in [1 .. n -> [R -> R]] /\ a \in R
  <2>1. a \in R
    <3> HIDE DEF l
    <3>1. 0 \in 0 .. l
      BY <1>1
    <3> QED
      BY <3>1
  <2>2. ASSUME NEW k \in 1 .. n, NEW S \in R
        PROVE  To(k, S) \in R
    <3>1. ASSUME NEW p \in S, NEW q, q \in Stretch(out, due[k], cut, p)
          PROVE  q \in 0 .. l
      <4>1. p \in 0 .. l /\ due[k] \in Seq(T)
        BY <1>1
      <4>2. q \in p .. l
        <5>1. Follows(out, due[k], cut, p)
          BY <4>1, StretchIs
        <5> QED
          BY <3>1, <5>1 DEF Follows
      <4> HIDE DEF l
      <4> QED
        BY <1>1, <4>1, <4>2
    <3> HIDE DEF l
    <3> QED
      BY <3>1
  <2> HIDE DEF To, R, n
  <2> QED
    BY <2>1, <2>2
<1>3. Concatenates(out, due, cut) <=> l \in run[n]
  BY DEF Concatenates
<1>4. PICK g \in [0 .. n -> R] : g[0] = a /\ \A i \in 1 .. n : g[i] = next[i][g[i - 1]]
  <2>1. Machine(R, a, n, next)
    BY <1>1, <1>2 DEF Machine
  <2> HIDE DEF n, R, next, a
  <2>2. HasRun(R, a, n, next)
    BY <2>1, MachineRuns
  <2> QED
    BY <2>2 DEF HasRun
<1>5. \A i \in 1 .. n : g[i] = To(i, g[i - 1])
  <2> TAKE i \in 1 .. n
  <2>1. i - 1 \in 0 .. n
    BY <1>1
  <2>2. g[i - 1] \in R
    BY <2>1
  <2> HIDE DEF To, R
  <2> QED
    BY <1>4, <2>2
<1>6. ReachRun(out, due, cut, g)
  BY <1>4, <1>5 DEF ReachRun
<1>7. Is(g)
  <2>1. \A k \in 1 .. n : g[k] = Go(g, k)
    <3> TAKE k \in 1 .. n
    <3>1. k # 0
      BY <1>1
    <3>2. To(k, g[k - 1]) = Go(g, k)
      BY <3>1 DEF Stretch
    <3> QED
      BY <1>5, <3>2
  <2>2. \A k \in 0 .. n : g[k] = Go(g, k)
    <3> TAKE k \in 0 .. n
    <3>1. CASE k = 0
      BY <1>4, <3>1
    <3>2. CASE k \in 1 .. n
      BY <2>1, <3>2
    <3>3. k = 0 \/ k \in 1 .. n
      BY <1>1
    <3> QED
      BY <3>1, <3>2, <3>3
  <2>3. g = [k \in 0 .. n |-> g[k]]
    BY <1>4
  <2> HIDE DEF Go
  <2> QED
    BY <2>2, <2>3
<1>8. Is(run)
  <2> HIDE DEF Is
  <2> QED
    BY <1>7
<1>9. /\ run[0] = {0}
      /\ \A k \in 1 .. n : run[k] = To(k, run[k - 1])
  <2>1. \A k \in 0 .. n : run[k] = Go(run, k)
    <3> HIDE DEF Go, run
    <3> QED
      BY <1>8
  <2>2. 0 \in 0 .. n /\ \A k \in 1 .. n : k \in 0 .. n /\ k # 0
    BY <1>1
  <2> HIDE DEF run
  <2>3. \A k \in 1 .. n : Go(run, k) = To(k, run[k - 1])
    BY <2>2 DEF Stretch
  <2>4. Go(run, 0) = {0}
    OBVIOUS
  <2> HIDE DEF Go, To
  <2> QED
    BY <2>1, <2>2, <2>3, <2>4
<1> HIDE DEF run
<1>10. \A k \in 0 .. n : run[k] \in R
  <2> DEFINE S == {k \in 0 .. n : run[k] \in R}
  <2>1. 0 \in S
    <3>1. 0 \in 0 .. n
      BY <1>1
    <3> HIDE DEF R
    <3> QED
      BY <1>2, <1>9, <3>1
  <2>2. ASSUME NEW k \in 1 .. n, k - 1 \in S
        PROVE  k \in S
    <3>1. run[k - 1] \in R /\ k \in 0 .. n
      BY <1>1, <2>2
    <3>2. next[k][run[k - 1]] \in R
      <4> HIDE DEF R, next
      <4> QED
        BY <1>2, <3>1
    <3>3. next[k][run[k - 1]] = To(k, run[k - 1])
      <4> HIDE DEF R, To
      <4> QED
        BY <3>1
    <3> HIDE DEF R, To, next
    <3> QED
      BY <1>9, <3>1, <3>2, <3>3
  <2>3. 0 .. n \subseteq S
    <3> HIDE DEF S
    <3> QED
      BY <1>1, <2>1, <2>2, InductionUpTo
  <2> QED
    BY <2>3
<1>11. ReachRun(out, due, cut, run)
  BY <1>9 DEF ReachRun
<1> QED
  BY <1>3, <1>10, <1>11

\* What reaches so far in out reaches as far in any longer text, and also if more
\* may be cut.
LEMMA StretchMore ==
  ASSUME NEW T, NEW out \in Seq(T), NEW y \in Seq(T), NEW x \in Seq(T),
         NEW cut \in BOOLEAN, NEW cut2 \in BOOLEAN, cut => cut2, NEW p \in 0 .. Len(out)
  PROVE  Stretch(out, x, cut, p) \subseteq Stretch(out \o y, x, cut2, p)
<1> DEFINE l == Len(out)
           all == out \o y
           a == Len(x)
<1>1. l \in Nat /\ p \in 0 .. l /\ a \in Nat
  OBVIOUS
<1>2. all \in Seq(T) /\ Len(all) >= l /\ Len(all) \in Nat /\ \A i \in 1 .. l : all[i] = out[i]
  OBVIOUS
<1>3. p \in 0 .. Len(all)
  <2> HIDE DEF l, all
  <2> QED
    BY <1>1, <1>2
<1>4. ASSUME NEW q, q \in Stretch(out, x, cut, p)
      PROVE  q \in Stretch(all, x, cut2, p)
  <2>0. \A r : r \in Stretch(out, x, cut, p) <=>
                  /\ r \in p .. Len(out) /\ r - p <= Len(x) /\ (~cut => r - p = Len(x))
                  /\ \A i \in 1 .. r - p : out[p + i] = x[i]
    <3>1. Follows(out, x, cut, p)
      BY StretchIs
    <3> QED
      BY <3>1 DEF Follows
  <2>1. /\ q \in p .. l /\ q - p <= a /\ (~cut => q - p = a)
        /\ \A i \in 1 .. q - p : out[p + i] = x[i]
    BY <1>4, <2>0
  <2> HIDE DEF l, all, a
  <2>2. q \in p .. Len(all) /\ (~cut2 => q - p = a)
    BY <1>1, <1>2, <2>1
  <2>3. \A i \in 1 .. q - p : p + i \in 1 .. l
    BY <1>1, <2>1
  <2>4. \A i \in 1 .. q - p : all[p + i] = x[i]
    BY <1>2, <2>1, <2>3
  <2> QED
    <3>1. Follows(all, x, cut2, p)
      BY <1>2, <1>3, StretchIs
    <3> QED
      BY <2>1, <2>2, <2>4, <3>1 DEF a, Follows
<1> QED
  BY <1>4 DEF all

\* One text more, whole or cut.
LEMMA ConcatenatesMore ==
  ASSUME NEW T, NEW out \in Seq(T), NEW due \in Seq(Seq(T)), NEW x \in Seq(T),
         NEW n \in 0 .. Len(x), NEW cut \in BOOLEAN, NEW cut2 \in BOOLEAN,
         cut => cut2, ~cut2 => n = Len(x), Concatenates(out, due, cut)
  PROVE  Concatenates(out \o Upto(x, n), Append(due, x), cut2)
<1> DEFINE y == Upto(x, n)
           all == out \o y
           l == Len(out)
           d == Len(due)
           more == Append(due, x)
           a == Len(x)
<1>1. /\ l \in Nat /\ d \in Nat /\ a \in Nat /\ n \in 0 .. a
  OBVIOUS
<1>2. /\ more \in Seq(Seq(T)) /\ Len(more) = d + 1 /\ more[d + 1] = x
      /\ \A k \in 1 .. d : more[k] = due[k] /\ due[k] \in Seq(T)
  OBVIOUS
<1>3. y \in Seq(T) /\ Len(y) = n /\ \A i \in 1 .. n : y[i] = x[i]
  <2>1. n \in Nat /\ n <= Len(x)
    BY <1>1
  <2> QED
    BY <2>1 DEF Upto
<1> HIDE DEF y
<1>4. all \in Seq(T) /\ Len(all) = l + n /\ \A i \in 1 .. n : all[l + i] = y[i]
  <2>0. y \in Seq(T)
    BY <1>3
  <2>1. /\ all \in Seq(T) /\ Len(all) = l + Len(y)
        /\ \A i \in 1 .. Len(y) : all[l + i] = y[i]
    BY <2>0
  <2> HIDE DEF all, l
  <2> QED
    BY <1>3, <2>1
<1>5. PICK f : /\ ReachRun(out, due, cut, f) /\ \A k \in 0 .. d : f[k] \subseteq 0 .. l
               /\ l \in f[d]
  BY ReachIs
<1>6. PICK g : /\ ReachRun(all, more, cut2, g)
               /\ \A k \in 0 .. Len(more) : g[k] \subseteq 0 .. Len(all)
               /\ Concatenates(all, more, cut2) <=> Len(all) \in g[Len(more)]
  <2> HIDE DEF all, more
  <2> QED
    BY <1>2, <1>4, ReachIs
<1>7. \A k \in 1 .. d, p \in 0 .. l : Stretch(out, due[k], cut, p) \subseteq Stretch(all, due[k], cut2, p)
  BY <1>2, <1>3, StretchMore
<1> HIDE DEF l, d, all, more, a
<1>8. \A k \in 0 .. d : f[k] \subseteq g[k]
  <2> DEFINE S == {k \in 0 .. d : f[k] \subseteq g[k]}
  <2>1. 0 \in S
    <3>1. 0 \in 0 .. d
      BY <1>1
    <3>2. f[0] = {0} /\ g[0] = {0}
      BY <1>5, <1>6 DEF ReachRun
    <3> QED
      BY <3>1, <3>2
  <2>2. ASSUME NEW k \in 1 .. d, k - 1 \in S
        PROVE  k \in S
    <3>1. k \in 0 .. d /\ k - 1 \in 0 .. d /\ k \in 1 .. Len(more) /\ f[k - 1] \subseteq g[k - 1]
      BY <1>1, <1>2, <2>2
    <3>2. f[k] = UNION {Stretch(out, due[k], cut, p) : p \in f[k - 1]}
      BY <1>5 DEF ReachRun, d
    <3>3. g[k] = UNION {Stretch(all, due[k], cut2, p) : p \in g[k - 1]}
      <4>1. g[k] = UNION {Stretch(all, more[k], cut2, p) : p \in g[k - 1]}
        BY <1>6, <3>1 DEF ReachRun
      <4>2. more[k] = due[k]
        BY <1>2
      <4> QED
        BY <4>1, <4>2
    <3>4. ASSUME NEW q \in f[k]
          PROVE  q \in g[k]
      <4>1. PICK p \in f[k - 1] : q \in Stretch(out, due[k], cut, p)
        BY <3>2
      <4>2. p \in 0 .. l
        BY <1>5, <3>1
      <4>3. q \in Stretch(all, due[k], cut2, p)
        BY <1>7, <4>1, <4>2
      <4> QED
        BY <3>1, <3>3, <4>1, <4>3
    <3> QED
      BY <3>1, <3>4
  <2>3. 0 .. d \subseteq S
    <3> HIDE DEF S
    <3> QED
      BY <1>1, <2>1, <2>2, InductionUpTo
  <2> QED
    BY <2>3
<1>9. l \in g[d]
  <2>1. d \in 0 .. d
    BY <1>1
  <2> QED
    BY <1>5, <1>8, <2>1
<1>10. l + n \in Stretch(all, x, cut2, l)
  <2>1. l \in 0 .. Len(all) /\ l + n \in l .. Len(all) /\ (l + n) - l = n /\ n <= a
    BY <1>1, <1>4
  <2>2. \A i \in 1 .. n : all[l + i] = x[i]
    BY <1>3, <1>4
  <2> QED
    <3>1. Follows(all, x, cut2, l)
      BY <1>4, <2>1, StretchIs
    <3> QED
      BY <2>1, <2>2, <3>1 DEF a, Follows
<1>11. l + n \in g[d + 1]
  <2>1. d + 1 \in 1 .. Len(more) /\ (d + 1) - 1 = d
    BY <1>1, <1>2
  <2>2. g[d + 1] = UNION {Stretch(all, x, cut2, p) : p \in g[d]}
    BY <1>2, <1>6, <2>1 DEF ReachRun
  <2> QED
    BY <1>9, <1>10, <2>2
<1>12. Concatenates(all, more, cut2)
  BY <1>2, <1>4, <1>6, <1>11
<1> QED
  BY <1>12 DEF all, more, y

\* What is whole is also right if it may be cut.
LEMMA ConcatenatesCut ==
  ASSUME NEW T, NEW out \in Seq(T), NEW due \in Seq(Seq(T)),
         NEW cut \in BOOLEAN, NEW cut2 \in BOOLEAN, cut => cut2, Concatenates(out, due, cut)
  PROVE  Concatenates(out, due, cut2)
<1> DEFINE l == Len(out)
           d == Len(due)
<1>1. l \in Nat /\ d \in Nat /\ <<>> \in Seq(T) /\ out \o <<>> = out
  OBVIOUS
<1>2. \A k \in 1 .. d : due[k] \in Seq(T)
  OBVIOUS
<1>3. PICK f : /\ ReachRun(out, due, cut, f) /\ \A k \in 0 .. d : f[k] \subseteq 0 .. l
               /\ l \in f[d]
  BY ReachIs
<1>4. PICK g : /\ ReachRun(out, due, cut2, g)
               /\ Concatenates(out, due, cut2) <=> l \in g[d]
  BY ReachIs
<1>5. ASSUME NEW k \in 1 .. d, NEW p \in 0 .. l
      PROVE  Stretch(out, due[k], cut, p) \subseteq Stretch(out, due[k], cut2, p)
  <2> DEFINE y == <<>>
  <2>1. y \in Seq(T) /\ due[k] \in Seq(T)
    BY <1>1, <1>2
  <2> HIDE DEF y
  <2>2. Stretch(out, due[k], cut, p) \subseteq Stretch(out \o y, due[k], cut2, p)
    BY <2>1, StretchMore
  <2> QED
    BY <1>1, <2>2 DEF y
<1>6. \A k \in 0 .. d : f[k] \subseteq g[k]
  <2> DEFINE S == {k \in 0 .. d : f[k] \subseteq g[k]}
  <2> HIDE DEF l
  <2>1. 0 \in S
    <3>1. 0 \in 0 .. d
      BY <1>1
    <3> QED
      BY <1>3, <1>4, <3>1 DEF ReachRun
  <2>2. ASSUME NEW k \in 1 .. d, k - 1 \in S
        PROVE  k \in S
    <3>1. f[k] = UNION {Stretch(out, due[k], cut, p) : p \in f[k - 1]}
      BY <1>3 DEF ReachRun
    <3>2. g[k] = UNION {Stretch(out, due[k], cut2, p) : p \in g[k - 1]}
      BY <1>4 DEF ReachRun
    <3> HIDE DEF d
    <3>3. k \in 0 .. d /\ k - 1 \in 0 .. d /\ f[k - 1] \subseteq g[k - 1]
      BY <1>1, <2>2
    <3>4. ASSUME NEW q \in f[k]
          PROVE  q \in g[k]
      <4>1. PICK p \in f[k - 1] : q \in Stretch(out, due[k], cut, p)
        BY <3>1
      <4>2. p \in 0 .. l
        BY <1>3, <3>3
      <4>3. q \in Stretch(out, due[k], cut2, p)
        BY <1>5, <4>1, <4>2
      <4> QED
        BY <3>2, <3>3, <4>1, <4>3
    <3> QED
      BY <3>3, <3>4
  <2>3. 0 .. d \subseteq S
    <3> HIDE DEF S, d
    <3> QED
      BY <1>1, <2>1, <2>2, InductionUpTo
  <2> QED
    BY <2>3
<1> HIDE DEF d, l
<1>7. d \in 0 .. d
  BY <1>1
<1> QED
  BY <1>3, <1>4, <1>6, <1>7

\* Nothing is due at first, and nothing is there.
LEMMA ConcatenatesNothing ==
  ASSUME NEW T, NEW cut \in BOOLEAN
  PROVE  Concatenates(<<>>, <<>>, cut)
<1> DEFINE out == <<>>
           due == <<>>
<1>1. out \in Seq(T) /\ due \in Seq(Seq(T)) /\ Len(out) = 0 /\ Len(due) = 0
  OBVIOUS
<1> HIDE DEF out, due
<1>2. PICK f : ReachRun(out, due, cut, f) /\ (Concatenates(out, due, cut) <=> Len(out) \in f[Len(due)])
  BY <1>1, ReachIs
<1>3. Concatenates(out, due, cut)
  BY <1>1, <1>2 DEF ReachRun
<1> QED
  BY <1>3 DEF out, due

-----------------------------------------------------------------------------
(* What is put, and what is due for it.                                     *)

\* Texts none of which is empty are put as they are.
LEMMA UnitsWhole ==
  ASSUME NEW texts \in Seq(Chunk), \A i \in 1 .. Len(texts) : texts[i] # <<>>
  PROVE  Units(texts) = texts
<1> DEFINE n == Len(texts)
           C == Chunk
<1>1. PICK f : UnitsRun(texts, f) /\ Units(texts) = f[n]
  BY UnitsSteps
<1>2. texts \in Seq(C) /\ n \in Nat
  OBVIOUS
<1>3. /\ f[0] = <<>>
      /\ \A i \in 1 .. n : f[i] = Append(f[i - 1], texts[i])
  BY <1>1 DEF UnitsRun
<1>4. /\ SubSeq(texts, 1, 0) = <<>> /\ SubSeq(texts, 1, n) = texts
      /\ \A i \in 1 .. n : SubSeq(texts, 1, i) = Append(SubSeq(texts, 1, i - 1), texts[i])
  <2> HIDE DEF C
  <2>1. SubSeq(texts, 1, 0) = <<>> /\ SubSeq(texts, 1, n) = texts
    BY <1>2, SubSeqEmpty, SubSeqFull
  <2>2. ASSUME NEW i \in 1 .. n
        PROVE  SubSeq(texts, 1, i) = Append(SubSeq(texts, 1, i - 1), texts[i])
    <3>1. 1 \in 1 .. Len(texts) /\ i \in 1 .. Len(texts) /\ 1 <= i
      BY <1>2
    <3> QED
      BY <1>2, <3>1, SubSeqRecursiveSecond
  <2> QED
    BY <2>1, <2>2
<1> HIDE DEF n, C
<1> DEFINE S == {i \in 0 .. n : f[i] = SubSeq(texts, 1, i)}
<1>5. 0 \in S
  <2>1. 0 \in 0 .. n
    BY <1>2
  <2> QED
    BY <1>3, <1>4, <2>1
<1>6. ASSUME NEW i \in 1 .. n, i - 1 \in S
      PROVE  i \in S
  <2>1. i \in 0 .. n /\ f[i - 1] = SubSeq(texts, 1, i - 1)
    BY <1>2, <1>6
  <2> QED
    BY <1>3, <1>4, <2>1
<1>7. n \in S
  <2>1. 0 .. n \subseteq S
    <3> HIDE DEF S
    <3> QED
      BY <1>2, <1>5, <1>6, InductionUpTo
  <2> QED
    BY <1>2, <2>1
<1> QED
  BY <1>1, <1>4, <1>7

\* No part of the login is empty.
LEMMA HelloWhole == Units(Hello) = Hello
<1>1. Len(Hello) = 7 /\ \A i \in 1 .. 7 : Hello[i] # <<>>
  <2>1. Len(Hello) = 7
    BY DEF Hello
  <2>2. /\ Hello[1] # <<>> /\ Hello[2] # <<>> /\ Hello[3] # <<>> /\ Hello[4] # <<>>
        /\ Hello[5] # <<>> /\ Hello[6] # <<>> /\ Hello[7] # <<>>
    BY DEF Hello
  <2> HIDE DEF Hello
  <2>3. \A i \in 1 .. 7 : i = 1 \/ i = 2 \/ i = 3 \/ i = 4 \/ i = 5 \/ i = 6 \/ i = 7
    OBVIOUS
  <2> QED
    BY <2>1, <2>2, <2>3
<1> QED
  BY <1>1, HelloType, UnitsWhole

\* Of three texts none of which is empty.
LEMMA ThreeWhole ==
  ASSUME NEW a \in Chunk, NEW b \in Chunk, NEW c \in Chunk, a # <<>>, b # <<>>, c # <<>>
  PROVE  Units(<<a, b, c>>) = <<a, b, c>>
<1> DEFINE texts == <<a, b, c>>
<1>1. texts \in Seq(Chunk)
  <2> DEFINE C == Chunk
  <2>1. a \in C /\ b \in C /\ c \in C
    OBVIOUS
  <2> HIDE DEF C
  <2>2. texts \in Seq(C)
    BY <2>1
  <2> QED
    BY <2>2 DEF C
<1>2. Len(texts) = 3 /\ texts[1] = a /\ texts[2] = b /\ texts[3] = c
  OBVIOUS
<1> HIDE DEF texts
<1>3. \A i \in 1 .. 3 : i = 1 \/ i = 2 \/ i = 3
  OBVIOUS
<1>4. Units(texts) = texts
  BY <1>1, <1>2, <1>3, UnitsWhole
<1> QED
  BY <1>4 DEF texts

\* What the handlers of a message answer.
LEMMA OutputIs ==
  ASSUME NEW m \in Msg
  PROVE  /\ SeenCode(m) = PING => Output(m) = HandlePing(m)
         /\ SeenCode(m) = AUTH => Output(m) = HandleAuth(m)
         /\ SeenCode(m) # PING /\ SeenCode(m) # AUTH => Output(m) = <<>>
<1> DEFINE list == HandlersOf(m)
           n == Len(list)
<1>1. PICK f : OutputRun(m, f) /\ Output(m) = f[n]
  BY OutputSteps
<1>2. PING # AUTH
  BY DEF PING, AUTH
<1>3. ASSUME NEW h, list = <<h>>
      PROVE  Output(m) = HandlerOutput(h, m)
  <2> DEFINE out == HandlerOutput(h, m)
  <2>1. n = 1 /\ list[1] = h /\ 1 \in 1 .. n /\ 1 - 1 = 0
    BY <1>3
  <2> HIDE DEF list, n
  <2>2. f[0] = <<>> /\ f[1] = f[0] \o out
    BY <1>1, <2>1 DEF OutputRun, list, n
  <2>3. out \in Seq(Chunk)
    BY HandlerOutputType
  <2> HIDE DEF out
  <2>4. <<>> \o out = out
    BY <2>3
  <2> QED
    BY <1>1, <2>1, <2>2, <2>4 DEF out
<1>4. CASE SeenCode(m) = PING
  <2>1. list = <<"ping">>
    BY <1>4, HandlersShape DEF HandlersOf
  <2>2. Output(m) = HandlerOutput("ping", m)
    BY <1>3, <2>1
  <2> QED
    BY <1>2, <1>4, <2>2 DEF HandlerOutput
<1>5. CASE SeenCode(m) = AUTH
  <2>1. list = <<"auth">>
    BY <1>5, HandlersShape DEF HandlersOf
  <2>2. Output(m) = HandlerOutput("auth", m)
    BY <1>3, <2>1
  <2> QED
    BY <1>2, <1>5, <2>2 DEF HandlerOutput
<1>6. CASE SeenCode(m) # PING /\ SeenCode(m) # AUTH
  <2>1. list = <<>>
    BY <1>6, HandlersShape DEF HandlersOf
  <2>2. n = 0
    BY <2>1
  <2>3. f[0] = <<>>
    BY <1>1 DEF OutputRun
  <2> HIDE DEF n
  <2> QED
    BY <1>1, <1>6, <2>2, <2>3
<1> QED
  BY <1>4, <1>5, <1>6

\* So what they put is the answer due for the message, if any is.
LEMMA AnswerIs ==
  ASSUME NEW m \in Msg
  PROVE  \/ Answer(Shown(m)) = <<>> /\ Units(Output(m)) = <<>>
         \/ Answer(Shown(m)) = <<Units(Output(m))>>
<1> DEFINE v == Shown(m)
<1>1. PING # AUTH
  BY DEF PING, AUTH
<1>0. v.code = SeenCode(m) /\ v.params = m.params
  BY DEF Shown
<1> HIDE DEF v
<1>2. CASE SeenCode(m) = PING
  <2>1. Answer(v) = <<Units(HandlePing(m))>>
    BY <1>0, <1>1, <1>2 DEF Answer, HandlePing
  <2> QED
    BY <1>2, <2>1, OutputIs DEF v
<1>3. CASE SeenCode(m) = AUTH
  <2>1. Answer(v) = <<HandleAuth(m)>>
    BY <1>0, <1>1, <1>3 DEF Answer, HandleAuth
  <2>2. Units(HandleAuth(m)) = HandleAuth(m)
    <3> DEFINE a == <<"JOIN ">>
               b == <<Channel>>
               c == <<"\r\n">>
    <3>1. a \in Chunk /\ b \in Chunk /\ c \in Chunk
      <4>1. \A x \in Piece : <<x>> \in Chunk
        BY DEF Chunk
      <4> HIDE DEF Chunk
      <4> QED
        BY <4>1 DEF Piece
    <3>2. a # <<>> /\ b # <<>> /\ c # <<>>
      OBVIOUS
    <3>3. HandleAuth(m) = <<a, b, c>>
      BY DEF HandleAuth
    <3> HIDE DEF a, b, c
    <3> QED
      BY <3>1, <3>2, <3>3, ThreeWhole
  <2> QED
    BY <1>3, <2>1, <2>2, OutputIs DEF v
<1>4. CASE SeenCode(m) # PING /\ SeenCode(m) # AUTH
  <2>1. Answer(v) = <<>>
    BY <1>0, <1>4 DEF Answer
  <2>2. Output(m) = <<>>
    BY <1>4, OutputIs
  <2>3. Units(<<>>) = <<>>
    <3> DEFINE texts == <<>>
    <3>1. texts \in Seq(Chunk) /\ Len(texts) = 0
      OBVIOUS
    <3> HIDE DEF texts
    <3>2. Units(texts) = texts
      <4>1. \A i \in 1 .. Len(texts) : texts[i] # <<>>
        <5>1. 1 .. 0 = {}
          OBVIOUS
        <5> QED
          BY <3>1, <5>1
      <4> QED
        BY <3>1, <4>1, UnitsWhole
    <3> QED
      BY <3>2 DEF texts
  <2> QED
    BY <2>1, <2>2, <2>3 DEF v
<1> QED
  BY <1>2, <1>3, <1>4

\* A put appends the units, whole or up to where the ring is full.
LEMMA PutAppends ==
  ASSUME write_buf \in Seq(Chunk), Len(write_buf) <= WriteCapacity,
         NEW texts \in Seq(Chunk), Put(texts)
  PROVE  \E k \in 0 .. Len(Units(texts)) :
           /\ write_buf' = write_buf \o Upto(Units(texts), k)
           /\ k # Len(Units(texts)) => Len(write_buf') >= WriteCapacity
<1> DEFINE units == Units(texts)
           room == WriteCapacity - Len(write_buf)
           k == Lesser(Len(units), room)
<1>1. units \in Seq(Chunk)
  BY UnitsType
<1>2. room \in Nat /\ Len(write_buf) \in Nat /\ WriteCapacity \in Nat
  BY IrcAssumption
<1>3. write_buf' = write_buf \o Upto(units, k)
  BY DEF Put, Upto
<1> HIDE DEF units
<1>4. Len(units) \in Nat
  BY <1>1
<1>5. k \in 0 .. Len(units) /\ (k # Len(units) => k = room)
  BY <1>2, <1>4 DEF Lesser
<1> HIDE DEF k
<1>6. Len(write_buf') = Len(write_buf) + k
  <2> DEFINE part == Upto(units, k)
             C == Chunk
  <2>1. part \in Seq(C) /\ Len(part) = k /\ write_buf \in Seq(C)
    <3>1. units \in Seq(C) /\ k \in Nat /\ k <= Len(units)
      BY <1>1, <1>4, <1>5
    <3> HIDE DEF C
    <3>2. part \in Seq(C) /\ Len(part) = k
      BY <3>1 DEF Upto
    <3> QED
      BY <3>2 DEF C
  <2> HIDE DEF part, C
  <2>2. Len(write_buf \o part) = Len(write_buf) + k
    BY <2>1
  <2> QED
    BY <1>3, <2>2 DEF part
<1>7. k # Len(units) => Len(write_buf') >= WriteCapacity
  BY <1>2, <1>5, <1>6
<1> QED
  BY <1>3, <1>5, <1>7 DEF units

-----------------------------------------------------------------------------
(* What is due.                                                             *)

\* What is due at the k-th byte, the logins given: DueAt and DueUpto.
EndedAt(k, ends, list) == {j \in DOMAIN list : ends[j] = k}
LoginsAt(k, log) == {l \in DOMAIN log : log[l] = k}
AtByte(k, ends, list, log) ==
  (IF EndedAt(k, ends, list) = {} THEN <<>> ELSE Answer(list[Min(EndedAt(k, ends, list))]))
  \o [j \in 1 .. Cardinality(LoginsAt(k, log)) |-> Hello]
UptoByte(n, ends, list, log) ==
  LET upto[k \in -1 .. n] ==
        IF k = -1 THEN <<>> ELSE upto[k - 1] \o AtByte(k, ends, list, log)
  IN  upto[n]
DueRun(n, ends, list, log, f) ==
  /\ f[-1] = <<>>
  /\ \A k \in 0 .. n : f[k] = f[k - 1] \o AtByte(k, ends, list, log)

Texts == Seq(Seq(Chunk))

\* An answer is made of texts.
LEMMA AnswerType ==
  ASSUME NEW v \in Views
  PROVE  Answer(v) \in Texts
<1>1. PICK m \in Msg : v = Shown(m)
  BY DEF Views
<1>2. Units(Output(m)) \in Seq(Chunk)
  BY OutputType, UnitsType
<1> DEFINE T == Seq(Chunk)
           u == Units(Output(m))
<1>3. Answer(v) = <<>> \/ Answer(v) = <<u>>
  BY <1>1, AnswerIs
<1>4. u \in T
  BY <1>2
<1> HIDE DEF T, u
<1>5. <<>> \in Seq(T) /\ <<u>> \in Seq(T)
  BY <1>4
<1>6. Answer(v) \in Seq(T)
  BY <1>3, <1>5
<1> QED
  BY <1>6 DEF T, Texts

\* The logins at a byte are finitely many.
LEMMA LoginsCounted ==
  ASSUME NEW log \in Seq(Nat), NEW k
  PROVE  /\ IsFiniteSet(LoginsAt(k, log)) /\ Cardinality(LoginsAt(k, log)) \in Nat
         /\ LoginsAt(k, log) \subseteq 1 .. Len(log)
<1>1. Len(log) \in Nat /\ DOMAIN log = 1 .. Len(log)
  OBVIOUS
<1>2. IsFiniteSet(1 .. Len(log))
  BY <1>1, FS_Interval
<1>3. LoginsAt(k, log) \subseteq 1 .. Len(log)
  BY <1>1 DEF LoginsAt
<1>4. IsFiniteSet(LoginsAt(k, log))
  BY <1>2, <1>3, FS_Subset
<1> QED
  BY <1>3, <1>4, FS_CardinalityType

\* And so is all that is due at one.
LEMMA AtByteType ==
  ASSUME NEW k, NEW ends, NEW list \in Seq(Views), NEW log \in Seq(Nat), ends \in Seq(Nat)
  PROVE  AtByte(k, ends, list, log) \in Texts
<1> DEFINE E == EndedAt(k, ends, list)
           a == IF E = {} THEN <<>> ELSE Answer(list[Min(E)])
           c == Cardinality(LoginsAt(k, log))
           b == [j \in 1 .. c |-> Hello]
           T == Seq(Chunk)
<1>1. c \in Nat
  BY LoginsCounted
<1>2. a \in Texts
  <2>1. CASE E = {}
    <3>1. <<>> \in Texts
      BY DEF Texts
    <3> QED
      BY <2>1, <3>1
  <2>2. CASE E # {}
    <3>1. E \in SUBSET Nat /\ E \subseteq DOMAIN list
      BY DEF EndedAt
    <3> HIDE DEF E
    <3>2. Min(E) \in E
      BY <2>2, <3>1, LeastOf
    <3> DEFINE V == Views
    <3>3. list \in Seq(V)
      OBVIOUS
    <3> HIDE DEF V
    <3>4. list[Min(E)] \in V
      <4> DEFINE i == Min(E)
      <4>1. i \in DOMAIN list
        BY <3>1, <3>2
      <4> HIDE DEF i
      <4>2. list[i] \in V
        BY <3>3, <4>1
      <4> QED
        BY <4>2 DEF i
    <3> QED
      BY <2>2, <3>4, AnswerType DEF V
  <2> QED
    BY <2>1, <2>2
<1>3. b \in Seq(T)
  <2>1. Hello \in T
    BY HelloType
  <2> HIDE DEF T, c
  <2> QED
    BY <1>1, <2>1
<1> HIDE DEF a, b, T
<1>4. a \o b \in Seq(T)
  BY <1>2, <1>3 DEF Texts, T
<1> QED
  BY <1>4 DEF AtByte, Texts, a, b, c, E, T

\* What is due up to a byte is where such a run ends.
HasDueRun(n, ends, list, log) ==
  \E f : /\ DueRun(n, ends, list, log, f) /\ UptoByte(n, ends, list, log) = f[n]
         /\ \A k \in -1 .. n : f[k] \in Texts

\* There is one.
LEMMA UptoByteRuns ==
  ASSUME NEW n \in Nat, NEW ends \in Seq(Nat), NEW list \in Seq(Views), NEW log \in Seq(Nat)
  PROVE  HasDueRun(n, ends, list, log)
<1> DEFINE R == Texts
           m == n + 1
           a == <<>>
           To(k, due) == due \o AtByte(k, ends, list, log)
           next == [i \in 1 .. m |-> [due \in R |-> To(i - 1, due)]]
           Go(f, k) == IF k = -1 THEN <<>> ELSE f[k - 1] \o AtByte(k, ends, list, log)
           Is(f) == f = [k \in -1 .. n |-> Go(f, k)]
           run == CHOOSE f : Is(f)
<1>1. m \in Nat /\ m = n + 1
  OBVIOUS
<1>2. /\ a \in R
      /\ \A k, due : due \in R => To(k, due) \in R
  <2>1. a \in R
    BY DEF Texts
  <2>2. ASSUME NEW k, NEW due \in R
        PROVE  To(k, due) \in R
    <3> DEFINE at == AtByte(k, ends, list, log)
               T == Seq(Chunk)
    <3>1. at \in Seq(T) /\ due \in Seq(T)
      BY AtByteType DEF Texts
    <3> HIDE DEF at, T
    <3>2. due \o at \in Seq(T)
      BY <3>1
    <3> QED
      BY <3>2 DEF at, T, Texts
  <2> HIDE DEF To, R
  <2> QED
    BY <2>1, <2>2
<1>3. next \in [1 .. m -> [R -> R]]
  <2> HIDE DEF To, R, m
  <2> QED
    BY <1>2
<1>4. UptoByte(n, ends, list, log) = run[n]
  BY DEF UptoByte
<1>5. PICK g \in [0 .. m -> R] : g[0] = a /\ \A i \in 1 .. m : g[i] = next[i][g[i - 1]]
  <2> HIDE DEF m, R, next, a
  <2>1. Machine(R, a, m, next)
    BY <1>1, <1>2, <1>3 DEF Machine
  <2>2. HasRun(R, a, m, next)
    BY <2>1, MachineRuns
  <2> QED
    BY <2>2 DEF HasRun
<1>6. \A i \in 1 .. m : g[i] = To(i - 1, g[i - 1])
  <2> TAKE i \in 1 .. m
  <2>1. i - 1 \in 0 .. m
    <3> HIDE DEF m
    <3> QED
      BY <1>1
  <2>2. g[i - 1] \in R
    BY <2>1
  <2> HIDE DEF To, R
  <2> QED
    BY <1>5, <2>2
<1> HIDE DEF m
<1> DEFINE h == [k \in -1 .. n |-> g[k + 1]]
<1>7. /\ \A k \in -1 .. n : k + 1 \in 0 .. m /\ h[k] = g[k + 1]
      /\ h[-1] = <<>>
  <2>1. \A k \in -1 .. n : k + 1 \in 0 .. m /\ h[k] = g[k + 1]
    BY <1>1
  <2>2. -1 \in -1 .. n /\ -1 + 1 = 0
    OBVIOUS
  <2> HIDE DEF h
  <2>3. h[-1] = g[0]
    BY <2>1, <2>2
  <2> QED
    BY <1>5, <2>1, <2>3
<1>8. Is(h)
  <2>1. \A k \in -1 .. n : h[k] = Go(h, k)
    <3> TAKE k \in -1 .. n
    <3> HIDE DEF h
    <3>1. CASE k = -1
      BY <1>7, <3>1
    <3>2. CASE k # -1
      <4>1. k + 1 \in 1 .. m /\ k - 1 \in -1 .. n /\ (k + 1) - 1 = k /\ (k - 1) + 1 = k
        BY <1>1, <3>2
      <4>2. g[k + 1] = To(k, g[k])
        <5> HIDE DEF To
        <5> QED
          BY <1>6, <4>1
      <4>3. h[k - 1] = g[k]
        BY <1>7, <4>1
      <4> QED
        BY <1>7, <3>2, <4>2, <4>3
    <3> QED
      BY <3>1, <3>2
  <2>2. h = [k \in -1 .. n |-> h[k]]
    OBVIOUS
  <2> HIDE DEF Go, h
  <2> QED
    BY <2>1, <2>2
<1>9. Is(run)
  <2> HIDE DEF Is, h
  <2> QED
    BY <1>8
<1>10. DueRun(n, ends, list, log, run)
  <2> HIDE DEF run
  <2>1. \A k \in -1 .. n : run[k] = Go(run, k)
    <3> HIDE DEF Go
    <3> QED
      BY <1>9
  <2>2. -1 \in -1 .. n /\ \A k \in 0 .. n : k \in -1 .. n /\ k # -1
    OBVIOUS
  <2>3. run[-1] = <<>>
    BY <2>1, <2>2
  <2>4. \A k \in 0 .. n : run[k] = run[k - 1] \o AtByte(k, ends, list, log)
    BY <2>1, <2>2
  <2> QED
    BY <2>3, <2>4 DEF DueRun
<1> HIDE DEF run
<1>11. \A k \in -1 .. n : run[k] \in Texts
  <2> DEFINE S == {i \in 0 .. m : run[i - 1] \in R}
  <2>1. 0 \in S
    <3>1. 0 \in 0 .. m /\ 0 - 1 = -1
      BY <1>1
    <3>2. run[-1] \in R
      <4> HIDE DEF R
      <4> QED
        BY <1>2, <1>10 DEF DueRun
    <3> HIDE DEF R
    <3> QED
      BY <3>1, <3>2
  <2>2. ASSUME NEW i \in 1 .. m, i - 1 \in S
        PROVE  i \in S
    <3>1. i \in 0 .. m /\ i - 1 \in 0 .. n /\ run[(i - 1) - 1] \in R
      BY <1>1, <2>2
    <3>2. run[i - 1] = To(i - 1, run[(i - 1) - 1])
      BY <1>10, <3>1 DEF DueRun
    <3> HIDE DEF To, R
    <3> QED
      BY <1>2, <3>1, <3>2
  <2>3. 0 .. m \subseteq S
    <3> HIDE DEF S
    <3> QED
      BY <1>1, <2>1, <2>2, InductionUpTo
  <2>4. ASSUME NEW k \in -1 .. n
        PROVE  run[k] \in R
    <3>1. k + 1 \in 0 .. m /\ (k + 1) - 1 = k
      BY <1>1
    <3>2. run[(k + 1) - 1] \in R
      <4> HIDE DEF R
      <4> QED
        BY <2>3, <3>1
    <3> QED
      BY <3>1, <3>2
  <2> QED
    BY <2>4
<1> QED
  BY <1>4, <1>10, <1>11 DEF HasDueRun

\* Two such runs agree as long as what is due at each byte is the same.
LEMMA DueSame ==
  ASSUME NEW n \in Int, n >= -1, NEW m \in Int, m >= n,
         NEW e1, NEW l1, NEW g1, NEW f, DueRun(n, e1, l1, g1, f),
         NEW e2, NEW l2, NEW g2, NEW g, DueRun(m, e2, l2, g2, g),
         \A k \in 0 .. n : AtByte(k, e1, l1, g1) = AtByte(k, e2, l2, g2)
  PROVE  f[n] = g[n]
<1> DEFINE c == n + 1
           S == {i \in 0 .. c : f[i - 1] = g[i - 1]}
<1>1. c \in Nat
  OBVIOUS
<1>2. f[-1] = <<>> /\ g[-1] = <<>>
  BY DEF DueRun
<1>3. 0 \in S
  <2>1. 0 \in 0 .. c /\ 0 - 1 = -1
    BY <1>1
  <2> QED
    BY <1>2, <2>1
<1>4. ASSUME NEW i \in 1 .. c, i - 1 \in S
      PROVE  i \in S
  <2>1. i \in 0 .. c /\ i - 1 \in 0 .. n /\ i - 1 \in 0 .. m
    BY <1>1
  <2>2. f[(i - 1) - 1] = g[(i - 1) - 1]
    BY <1>4
  <2>3. /\ f[i - 1] = f[(i - 1) - 1] \o AtByte(i - 1, e1, l1, g1)
        /\ g[i - 1] = g[(i - 1) - 1] \o AtByte(i - 1, e2, l2, g2)
    BY <2>1 DEF DueRun
  <2>4. AtByte(i - 1, e1, l1, g1) = AtByte(i - 1, e2, l2, g2)
    BY <2>1
  <2>5. f[i - 1] = g[i - 1]
    BY <2>2, <2>3, <2>4
  <2> QED
    BY <2>1, <2>5
<1>5. 0 .. c \subseteq S
  <2> HIDE DEF S, c
  <2> QED
    BY <1>1, <1>3, <1>4, InductionUpTo
<1>6. c \in 0 .. c /\ c - 1 = n
  BY <1>1
<1>7. f[c - 1] = g[c - 1]
  BY <1>5, <1>6
<1> QED
  BY <1>6, <1>7

\* Bytes at which nothing is due change nothing.
LEMMA DueIdle ==
  ASSUME NEW n \in Int, n >= -1, NEW m \in Int, m >= n,
         NEW ends, NEW list, NEW log, NEW g, DueRun(m, ends, list, log, g),
         \A k \in -1 .. m : g[k] \in Texts,
         \A k \in n + 1 .. m : AtByte(k, ends, list, log) = <<>>
  PROVE  g[m] = g[n]
<1> DEFINE c == m - n
           S == {i \in 0 .. c : g[n + i] = g[n]}
<1>1. c \in Nat
  OBVIOUS
<1>2. 0 \in S
  <2>1. 0 \in 0 .. c /\ n + 0 = n
    BY <1>1
  <2> QED
    BY <2>1
<1>3. ASSUME NEW i \in 1 .. c, i - 1 \in S
      PROVE  i \in S
  <2>1. i \in 0 .. c /\ n + i \in n + 1 .. m /\ n + i \in 0 .. m /\ (n + i) - 1 = n + (i - 1)
        /\ n \in -1 .. m
    BY <1>1
  <2>2. g[n + i] = g[n + (i - 1)] \o AtByte(n + i, ends, list, log)
    BY <2>1 DEF DueRun
  <2>3. g[n + (i - 1)] = g[n]
    BY <1>3
  <2>4. g[n] \o <<>> = g[n]
    BY <2>1 DEF Texts
  <2>5. g[n + i] = g[n]
    BY <2>1, <2>2, <2>3, <2>4
  <2> QED
    BY <2>1, <2>5
<1>4. 0 .. c \subseteq S
  <2> HIDE DEF S, c
  <2> QED
    BY <1>1, <1>2, <1>3, InductionUpTo
<1>5. c \in 0 .. c /\ n + c = m
  BY <1>1
<1>6. g[n + c] = g[n]
  BY <1>4, <1>5
<1> QED
  BY <1>5, <1>6

\* Where no line ends and nobody logs in, nothing is due.
LEMMA NothingAtByte ==
  ASSUME NEW k, NEW ends, NEW list, NEW log, EndedAt(k, ends, list) = {}, LoginsAt(k, log) = {}
  PROVE  AtByte(k, ends, list, log) = <<>>
<1>1. Cardinality(LoginsAt(k, log)) = 0
  BY FS_EmptySet
<1>2. [j \in 1 .. 0 |-> Hello] = <<>>
  <2>1. \A T : [j \in 1 .. 0 |-> T] = <<>>
    OBVIOUS
  <2> QED
    BY <2>1
<1>3. <<>> \o <<>> = <<>>
  OBVIOUS
<1> QED
  BY <1>1, <1>2, <1>3 DEF AtByte

\* What the bytes up to the n-th make due with one login more.
LEMMA DueLogin ==
  ASSUME NEW n \in Nat, NEW ends \in Seq(Nat), NEW list \in Seq(Views), NEW log \in Seq(Nat)
  PROVE  UptoByte(n, ends, list, Append(log, n)) = Append(UptoByte(n, ends, list, log), Hello)
<1> DEFINE l == Len(log)
           more == Append(log, n)
<1>1. /\ l \in Nat /\ more \in Seq(Nat) /\ DOMAIN log = 1 .. l /\ DOMAIN more = 1 .. l + 1
      /\ more[l + 1] = n /\ \A i \in 1 .. l : more[i] = log[i]
  OBVIOUS
<1> HIDE DEF l, more
<1>2. /\ \A k : k # n => LoginsAt(k, more) = LoginsAt(k, log)
      /\ LoginsAt(n, more) = LoginsAt(n, log) \cup {l + 1}
      /\ ~(l + 1 \in LoginsAt(n, log))
  <2>1. \A i : i \in 1 .. l + 1 <=> i \in 1 .. l \/ i = l + 1
    BY <1>1
  <2>2. ~(l + 1 \in 1 .. l)
    BY <1>1
  <2> QED
    BY <1>1, <2>1, <2>2 DEF LoginsAt
<1>3. \A k : k # n => AtByte(k, ends, list, log) = AtByte(k, ends, list, more)
  BY <1>2 DEF AtByte
<1>4. AtByte(n, ends, list, more) = Append(AtByte(n, ends, list, log), Hello)
  <2> DEFINE c == Cardinality(LoginsAt(n, log))
             x == Hello
             T == Seq(Chunk)
             E == EndedAt(n, ends, list)
             a == IF E = {} THEN <<>> ELSE Answer(list[Min(E)])
             b == [j \in 1 .. c |-> x]
             d == [j \in 1 .. c + 1 |-> x]
  <2>1. c \in Nat /\ Cardinality(LoginsAt(n, more)) = c + 1
    <3>1. IsFiniteSet(LoginsAt(n, log)) /\ c \in Nat
      BY LoginsCounted
    <3> QED
      BY <1>2, <3>1, FS_AddElement
  <2>2. x \in T
    BY HelloType
  <2>3. a \in Seq(T)
    <3>1. a \o b \in Seq(T) /\ AtByte(n, ends, list, log) = a \o b
      BY AtByteType DEF AtByte, Texts
    <3>2. CASE E = {}
      <4>1. <<>> \in Seq(T)
        OBVIOUS
      <4> QED
        BY <3>2, <4>1
    <3>3. CASE E # {}
      <4>1. E \in SUBSET Nat /\ E \subseteq DOMAIN list
        BY DEF EndedAt
      <4> HIDE DEF E
      <4>2. Min(E) \in DOMAIN list
        BY <3>3, <4>1, LeastOf
      <4> DEFINE V == Views
                 i == Min(E)
      <4> HIDE DEF V, i
      <4>3. list[i] \in V
        BY <4>2 DEF V, i
      <4>4. Answer(list[i]) \in Seq(T)
        BY <4>3, AnswerType DEF V, Texts
      <4> QED
        BY <3>3, <4>4 DEF i
    <3> QED
      BY <3>2, <3>3
  <2> HIDE DEF a, c, x, T
  <2>4. d = Append(b, x) /\ b \in Seq(T)
    <3>1. b \in Seq(T) /\ Len(b) = c /\ d \in Seq(T) /\ Len(d) = c + 1
      BY <2>1, <2>2
    <3>2. \A i \in 1 .. c + 1 : d[i] = Append(b, x)[i]
      BY <2>1, <2>2, <3>1
    <3> HIDE DEF b, d
    <3>3. Append(b, x) \in Seq(T) /\ Len(Append(b, x)) = c + 1
      BY <2>2, <3>1
    <3> QED
      BY <2>1, <3>1, <3>2, <3>3, SeqEqual
  <2>5. AtByte(n, ends, list, log) = a \o b /\ AtByte(n, ends, list, more) = a \o d
    BY <2>1 DEF AtByte, a, c, x
  <2> HIDE DEF b, d
  <2>6. a \o Append(b, x) = Append(a \o b, x)
    BY <2>2, <2>3, <2>4
  <2> QED
    BY <2>4, <2>5, <2>6 DEF x
<1>5. PICK f : /\ DueRun(n, ends, list, log, f) /\ UptoByte(n, ends, list, log) = f[n]
               /\ \A k \in -1 .. n : f[k] \in Texts
  <2>1. HasDueRun(n, ends, list, log)
    BY UptoByteRuns
  <2> QED
    BY <2>1 DEF HasDueRun
<1>6. PICK g : DueRun(n, ends, list, more, g) /\ UptoByte(n, ends, list, more) = g[n]
  <2>1. HasDueRun(n, ends, list, more)
    BY <1>1, UptoByteRuns
  <2> QED
    BY <2>1 DEF HasDueRun
<1>7. f[n - 1] = g[n - 1]
  <2> DEFINE p == n - 1
  <2>1. p \in Int /\ p >= -1 /\ n >= p /\ n \in Int /\ \A k \in 0 .. p : k # n /\ k \in 0 .. n
    OBVIOUS
  <2>2. DueRun(p, ends, list, log, f)
    BY <1>5, <2>1 DEF DueRun
  <2>3. \A k \in 0 .. p : AtByte(k, ends, list, log) = AtByte(k, ends, list, more)
    BY <1>3, <2>1
  <2> HIDE DEF p
  <2>4. f[p] = g[p]
    BY <1>6, <2>1, <2>2, <2>3, DueSame
  <2> QED
    BY <2>4 DEF p
<1>8. /\ f[n] = f[n - 1] \o AtByte(n, ends, list, log)
      /\ g[n] = g[n - 1] \o AtByte(n, ends, list, more)
  <2>1. n \in 0 .. n
    OBVIOUS
  <2> QED
    BY <1>5, <1>6, <2>1 DEF DueRun
<1>9. g[n] = Append(f[n], Hello)
  <2> DEFINE T == Seq(Chunk)
             a == f[n - 1]
             b == AtByte(n, ends, list, log)
             x == Hello
  <2>1. n - 1 \in -1 .. n
    OBVIOUS
  <2>2. a \in Seq(T) /\ b \in Seq(T) /\ x \in T
    BY <1>5, <2>1, AtByteType, HelloType DEF Texts
  <2> HIDE DEF T, a, b, x
  <2>3. a \o Append(b, x) = Append(a \o b, x)
    BY <2>2
  <2> QED
    BY <1>4, <1>7, <1>8, <2>3 DEF a, b, x
<1> QED
  BY <1>5, <1>6, <1>9 DEF more

\* Of the bytes after the first n none makes anything due.
IdleRun(n, m, ends, list, log, g) ==
  /\ n \in Int /\ n >= -1 /\ m \in Int /\ m >= n
  /\ DueRun(m, ends, list, log, g)
  /\ \A k \in -1 .. m : g[k] \in Texts
  /\ \A k \in n + 1 .. m : AtByte(k, ends, list, log) = <<>>
\* So all stays as it was after them.
LEMMA IdleRuns ==
  ASSUME NEW n, NEW m, NEW ends, NEW list, NEW log, NEW g, IdleRun(n, m, ends, list, log, g)
  PROVE  g[m] = g[n]
<1>1. /\ n \in Int /\ n >= -1 /\ m \in Int /\ m >= n
      /\ DueRun(m, ends, list, log, g)
      /\ \A k \in -1 .. m : g[k] \in Texts
      /\ \A k \in n + 1 .. m : AtByte(k, ends, list, log) = <<>>
  BY DEF IdleRun
<1> QED
  BY <1>1, DueIdle

\* The lines of list have ended, and all logins come, within the first n bytes.
AllBy(n, ends, list, log) ==
  /\ \A j \in DOMAIN list : ends[j] <= n
  /\ \A i \in DOMAIN log : log[i] <= n

\* More bytes that end no message make nothing due.
LEMMA DueQuiet ==
  ASSUME NEW n \in Nat, NEW m \in Nat, n <= m,
         NEW e1 \in Seq(Nat), NEW e2 \in Seq(Nat), NEW list \in Seq(Views), NEW log \in Seq(Nat),
         AllBy(n, e1, list, log), \A j \in DOMAIN list : e1[j] = e2[j]
  PROVE  UptoByte(m, e2, list, log) = UptoByte(n, e1, list, log)
<1>1. PICK f : DueRun(n, e1, list, log, f) /\ UptoByte(n, e1, list, log) = f[n]
  <2>1. HasDueRun(n, e1, list, log)
    BY UptoByteRuns
  <2> QED
    BY <2>1 DEF HasDueRun
<1>2. PICK g : /\ DueRun(m, e2, list, log, g) /\ UptoByte(m, e2, list, log) = g[m]
               /\ \A k \in -1 .. m : g[k] \in Texts
  <2>1. HasDueRun(m, e2, list, log)
    BY UptoByteRuns
  <2> QED
    BY <2>1 DEF HasDueRun
<1>3. /\ n \in Int /\ n >= -1 /\ m \in Int /\ m >= n
      /\ \A k \in n + 1 .. m : k > n /\ \A i \in Int : i <= n => i # k
  OBVIOUS
<1>4. \A k : EndedAt(k, e1, list) = EndedAt(k, e2, list)
  BY DEF EndedAt
<1>5. \A k : AtByte(k, e1, list, log) = AtByte(k, e2, list, log)
  <2> TAKE k
  <2> DEFINE E == EndedAt(k, e1, list)
  <2> HIDE DEF E
  <2>1. EndedAt(k, e1, list) = E /\ EndedAt(k, e2, list) = E
    BY <1>4 DEF E
  <2> QED
    BY <2>1 DEF AtByte
<1>6. f[n] = g[n]
  BY <1>1, <1>2, <1>3, <1>5, DueSame
<1>7. ASSUME NEW k \in n + 1 .. m
      PROVE  AtByte(k, e2, list, log) = <<>>
  <2>1. /\ \A j \in DOMAIN list : e1[j] # k
        /\ \A i \in DOMAIN log : log[i] # k
    <3>1. k \in Int /\ k > n
      OBVIOUS
    <3>2. \A j \in DOMAIN list : e1[j] <= n
      BY DEF AllBy
    <3>3. \A i \in DOMAIN log : log[i] <= n
      BY DEF AllBy
    <3> QED
      BY <3>1, <3>2, <3>3
  <2>2. EndedAt(k, e2, list) = {} /\ LoginsAt(k, log) = {}
    BY <2>1 DEF EndedAt, LoginsAt
  <2> QED
    BY <2>2, NothingAtByte
<1>8. g[m] = g[n]
  <2>1. DueRun(m, e2, list, log, g) /\ \A k \in -1 .. m : g[k] \in Texts
    BY <1>2
  <2>2. \A k \in n + 1 .. m : AtByte(k, e2, list, log) = <<>>
    BY <1>7
  <2>3. n \in Int /\ n >= -1 /\ m \in Int /\ m >= n
    BY <1>3
  <2>4. IdleRun(n, m, e2, list, log, g)
    BY <2>1, <2>2, <2>3 DEF IdleRun
  <2> QED
    BY <2>4, IdleRuns
<1> QED
  BY <1>1, <1>2, <1>6, <1>8

\* Of the bytes up to m those after the first n end one more message, v, with the
\* last of them.
MessageRun(n, m, e1, e2, list, log, v) ==
  /\ n \in Nat /\ m \in Nat /\ n < m
  /\ e1 \in Seq(Nat) /\ e2 \in Seq(Nat) /\ list \in Seq(Views) /\ log \in Seq(Nat)
  /\ AllBy(n, e1, list, log) /\ \A j \in DOMAIN list : e1[j] = e2[j]
  /\ v \in Views /\ e2[Len(list) + 1] = m

\* Then its answer is due.
LEMMA DueMessage ==
  ASSUME NEW n, NEW m, NEW e1, NEW e2, NEW list, NEW log, NEW v,
         MessageRun(n, m, e1, e2, list, log, v)
  PROVE  UptoByte(m, e2, Append(list, v), log) = UptoByte(n, e1, list, log) \o Answer(v)
<1> SUFFICES ASSUME n \in Nat, m \in Nat, n < m,
                    e1 \in Seq(Nat), e2 \in Seq(Nat), list \in Seq(Views), log \in Seq(Nat),
                    AllBy(n, e1, list, log), \A j \in DOMAIN list : e1[j] = e2[j],
                    v \in Views, e2[Len(list) + 1] = m
             PROVE  UptoByte(m, e2, Append(list, v), log) = UptoByte(n, e1, list, log) \o Answer(v)
  BY DEF MessageRun
<1> DEFINE l == Len(list)
           more == Append(list, v)
           p == m - 1
           V == Views
<1>1. /\ l \in Nat /\ DOMAIN list = 1 .. l /\ more[l + 1] = v
      /\ DOMAIN more = 1 .. l + 1 /\ \A j \in 1 .. l : more[j] = list[j]
  <2>1. list \in Seq(V) /\ v \in V
    OBVIOUS
  <2> HIDE DEF V
  <2> QED
    BY <2>1
<1>2. more \in Seq(Views)
  <2>1. list \in Seq(V) /\ v \in V
    OBVIOUS
  <2> HIDE DEF V
  <2>2. more \in Seq(V)
    BY <2>1
  <2> QED
    BY <2>2 DEF V
<1> HIDE DEF l, more, V
<1>3. PICK f : DueRun(n, e1, list, log, f) /\ UptoByte(n, e1, list, log) = f[n]
  <2>1. HasDueRun(n, e1, list, log)
    BY UptoByteRuns
  <2> QED
    BY <2>1 DEF HasDueRun
<1>4. PICK g : /\ DueRun(m, e2, more, log, g) /\ UptoByte(m, e2, more, log) = g[m]
               /\ \A k \in -1 .. m : g[k] \in Texts
  <2>1. HasDueRun(m, e2, more, log)
    BY <1>2, UptoByteRuns
  <2> QED
    BY <2>1 DEF HasDueRun
<1>5. /\ p \in Nat /\ n <= p /\ p <= m /\ m \in 0 .. m /\ p \in -1 .. m
      /\ \A k \in 0 .. p : k # m /\ k \in 0 .. m
      /\ \A k \in n + 1 .. p : k # m /\ k \in Int /\ k > n
      /\ \A k \in -1 .. p : k \in -1 .. m
      /\ \A k \in 0 .. n : k # m
      /\ n \in Int /\ n >= -1 /\ p \in Int /\ p >= n
  OBVIOUS
<1>6. /\ \A j \in 1 .. l : e1[j] <= n /\ e1[j] = e2[j]
      /\ \A i \in DOMAIN log : log[i] <= n
  BY <1>1 DEF AllBy
<1>7. /\ \A j : j \in 1 .. l + 1 <=> j \in 1 .. l \/ j = l + 1
      /\ ~(l + 1 \in 1 .. l)
  BY <1>1
<1>8. \A k : k # m => EndedAt(k, e2, more) = EndedAt(k, e1, list)
  BY <1>1, <1>6, <1>7 DEF EndedAt, l
<1>9. EndedAt(m, e2, more) = {l + 1}
  <2>1. \A j \in 1 .. l : e2[j] # m
    <3>1. \A j \in 1 .. l : e2[j] <= n
      BY <1>6
    <3> QED
      BY <3>1
  <2>2. \A j : j \in 1 .. l + 1 /\ e2[j] = m <=> j = l + 1
    BY <1>7, <2>1 DEF l
  <2> QED
    BY <1>1, <2>2 DEF EndedAt
<1>10. ASSUME NEW k \in 0 .. n
       PROVE  AtByte(k, e1, list, log) = AtByte(k, e2, more, log)
  <2>1. EndedAt(k, e2, more) = EndedAt(k, e1, list)
    BY <1>5, <1>8
  <2>2. EndedAt(k, e1, list) # {} => more[Min(EndedAt(k, e1, list))] = list[Min(EndedAt(k, e1, list))]
    <3> DEFINE E == EndedAt(k, e1, list)
    <3>1. E \in SUBSET Nat /\ E \subseteq 1 .. l
      BY <1>1 DEF EndedAt
    <3> HIDE DEF E
    <3>2. E # {} => Min(E) \in 1 .. l
      BY <3>1, LeastOf
    <3>3. E # {} => more[Min(E)] = list[Min(E)]
      BY <1>1, <3>2
    <3> QED
      BY <3>3 DEF E
  <2> DEFINE E == EndedAt(k, e1, list)
  <2> HIDE DEF E
  <2>3. EndedAt(k, e2, more) = E /\ EndedAt(k, e1, list) = E
    BY <2>1 DEF E
  <2>4. E # {} => more[Min(E)] = list[Min(E)]
    BY <2>2 DEF E
  <2>5. (IF E = {} THEN <<>> ELSE Answer(more[Min(E)])) = (IF E = {} THEN <<>> ELSE Answer(list[Min(E)]))
    BY <2>4
  <2> QED
    BY <2>3, <2>5 DEF AtByte
<1>11. \A k : k \in Int /\ k > n => LoginsAt(k, log) = {}
  <2> SUFFICES ASSUME NEW k \in Int, k > n
               PROVE  LoginsAt(k, log) = {}
    OBVIOUS
  <2>1. \A i \in DOMAIN log : log[i] # k
    BY <1>6
  <2> QED
    BY <2>1 DEF LoginsAt
<1>12. ASSUME NEW k \in n + 1 .. p
       PROVE  AtByte(k, e2, more, log) = <<>>
  <2>1. k # m /\ k \in Int /\ k > n
    BY <1>5
  <2>2. \A j \in 1 .. l : e1[j] # k
    <3>1. \A j \in 1 .. l : e1[j] <= n
      BY <1>6
    <3> QED
      BY <2>1, <3>1
  <2>3. EndedAt(k, e1, list) = {}
    BY <1>1, <2>2 DEF EndedAt
  <2>4. EndedAt(k, e2, more) = {} /\ LoginsAt(k, log) = {}
    BY <1>8, <1>11, <2>1, <2>3
  <2> QED
    BY <2>4, NothingAtByte
<1>13. AtByte(m, e2, more, log) = Answer(v)
  <2> DEFINE a == Answer(v)
             T == Seq(Chunk)
  <2>1. Min({l + 1}) = l + 1
    <3>1. {l + 1} \in SUBSET Nat /\ {l + 1} # {}
      BY <1>1
    <3>2. Min({l + 1}) \in {l + 1}
      BY <3>1, LeastOf
    <3> QED
      BY <3>2
  <2>2. LoginsAt(m, log) = {}
    <3>1. m \in Int /\ m > n
      OBVIOUS
    <3> QED
      BY <1>11, <3>1
  <2>3. Cardinality(LoginsAt(m, log)) = 0
    BY <2>2, FS_EmptySet
  <2>4. [j \in 1 .. 0 |-> Hello] = <<>>
    <3>1. \A t : [j \in 1 .. 0 |-> t] = <<>>
      OBVIOUS
    <3> QED
      BY <3>1
  <2>5. AtByte(m, e2, more, log) = Answer(more[l + 1]) \o <<>>
    <3>1. EndedAt(m, e2, more) # {} /\ Min(EndedAt(m, e2, more)) = l + 1
      BY <1>9, <2>1
    <3> QED
      BY <2>3, <2>4, <3>1 DEF AtByte
  <2>6. a \in Seq(T)
    BY AnswerType DEF Texts
  <2> HIDE DEF a, T
  <2>7. a \o <<>> = a
    BY <2>6
  <2> QED
    BY <1>1, <2>5, <2>7 DEF a
<1>14. f[n] = g[n]
  <2>1. DueRun(m, e2, more, log, g)
    BY <1>4
  <2>2. m \in Int /\ m >= n
    OBVIOUS
  <2> QED
    BY <1>3, <1>5, <1>10, <2>1, <2>2, DueSame
<1>15. g[p] = g[n]
  <2>1. DueRun(p, e2, more, log, g)
    BY <1>4, <1>5 DEF DueRun
  <2>2. \A k \in -1 .. p : g[k] \in Texts
    BY <1>4, <1>5
  <2> HIDE DEF p
  <2>3. \A k \in n + 1 .. p : AtByte(k, e2, more, log) = <<>>
    BY <1>12
  <2>4. n \in Int /\ n >= -1 /\ p \in Int /\ p >= n
    BY <1>5
  <2>5. IdleRun(n, p, e2, more, log, g)
    BY <2>1, <2>2, <2>3, <2>4 DEF IdleRun
  <2> QED
    BY <2>5, IdleRuns
<1>16. g[m] = g[m - 1] \o AtByte(m, e2, more, log)
  BY <1>4, <1>5 DEF DueRun
<1> QED
  BY <1>3, <1>4, <1>13, <1>14, <1>15, <1>16 DEF more

-----------------------------------------------------------------------------
(* Where the messages of a stream end.                                      *)

\* Only no bytes at all lead to the start.
LEMMA StartReached ==
  ASSUME NEW t, Start \in Reached(t)
  PROVE  t = <<>>
<1>1. TopLeads(t, Start)
  BY DEF Reached
<1>2. Start[1] = "message" /\ Start # Cr /\ Start # Done /\ Space[1] = "prefix"
  BY PrefixPlaces
<1>3. \A x : ~PrefixLeads(x, Start)
  BY <1>2, PrefixPlaces
<1>4. \A x : ~BodyLeads(x, Start)
  BY <1>2, BodyPlaces
<1> QED
  BY <1>1, <1>2, <1>3, <1>4 DEF TopLeads, InnerLeads

\* The ends of lines stay the ends of lines.
LEMMA EndsGrow ==
  ASSUME NEW s \in Seq(Byte), NEW a \in 0 .. Len(s), NEW b \in 0 .. Len(s), a <= b
  PROVE  \A j \in 1 .. Len(Ends(Upto(s, a))) :
           j \in 1 .. Len(Ends(Upto(s, b))) /\ Ends(Upto(s, b))[j] = Ends(Upto(s, a))[j]
<1> DEFINE n == Len(s)
           x(k) == Ends(Upto(s, k))
           Kept(k) == \A j \in 1 .. Len(x(a)) : j \in 1 .. Len(x(k)) /\ x(k)[j] = x(a)[j]
           S == {k \in 0 .. n : k >= a => Kept(k)}
<1>1. n \in Nat /\ a \in 0 .. n /\ b \in 0 .. n
  OBVIOUS
<1>2. ASSUME NEW k \in 1 .. n
      PROVE  /\ Len(x(k - 1)) \in Nat /\ Len(x(k)) >= Len(x(k - 1)) /\ Len(x(k)) \in Nat
             /\ \A j \in 1 .. Len(x(k - 1)) : x(k)[j] = x(k - 1)[j]
  <2> DEFINE t == Upto(s, k - 1)
             c == s[k]
  <2>1. t \in Seq(Byte) /\ c \in Byte /\ Upto(s, k) = Append(t, c)
    BY UptoMore
  <2> HIDE DEF t, c
  <2>2. /\ Len(Ends(t)) \in Nat
        /\ ~Closes(t, c) => Ends(Append(t, c)) = Ends(t)
        /\ Closes(t, c) => /\ Len(Ends(Append(t, c))) = Len(Ends(t)) + 1
                           /\ \A j \in 1 .. Len(Ends(t)) : Ends(Append(t, c))[j] = Ends(t)[j]
    BY <2>1, EndsMore, EndsType
  <2> DEFINE e == Ends(t)
             d == Ends(Append(t, c))
  <2> HIDE DEF e, d
  <2>3. /\ Len(e) \in Nat /\ Len(d) >= Len(e) /\ Len(d) \in Nat
        /\ \A j \in 1 .. Len(e) : d[j] = e[j]
    <3>1. CASE ~Closes(t, c)
      BY <2>2, <3>1 DEF e, d
    <3>2. CASE Closes(t, c)
      BY <2>2, <3>2 DEF e, d
    <3> QED
      BY <3>1, <3>2
  <2> QED
    BY <2>1, <2>3 DEF e, d, t
<1> HIDE DEF n, x
<1>3. 0 \in S
  <2>1. 0 \in 0 .. n /\ (0 >= a => a = 0)
    BY <1>1
  <2> QED
    BY <2>1
<1>4. ASSUME NEW k \in 1 .. n, k - 1 \in S
      PROVE  k \in S
  <2>1. k \in 0 .. n /\ (k >= a => k = a \/ k - 1 >= a)
    BY <1>1
  <2>2. ASSUME k - 1 >= a
        PROVE  Kept(k)
    <3>1. Kept(k - 1)
      BY <1>4, <2>2
    <3>2. \A j : j \in 1 .. Len(x(k - 1)) => j \in 1 .. Len(x(k))
      BY <1>2
    <3> QED
      BY <1>2, <3>1, <3>2
  <2> QED
    BY <2>1, <2>2
<1>5. 0 .. n \subseteq S
  <2> HIDE DEF S
  <2> QED
    BY <1>1, <1>3, <1>4, InductionUpTo
<1>6. Kept(b)
  <2>1. b \in S /\ b >= a
    BY <1>1, <1>5
  <2> QED
    BY <2>1
<1> QED
  BY <1>6 DEF x

\* The ends of lines are numbers, in a sequence.
LEMMA EndsNumbers ==
  ASSUME NEW s \in Seq(Byte)
  PROVE  Ends(s) \in Seq(Nat)
<1>1. /\ EndSet(s) \subseteq Nat /\ Ends(s) = Ascending(EndSet(s)) /\ Len(Ends(s)) \in Nat
      /\ DOMAIN Ends(s) = 1 .. Len(Ends(s))
      /\ \A k \in 1 .. Len(Ends(s)) : Ends(s)[k] \in 2 .. Len(s)
  BY EndsType
<1>2. \A k \in 1 .. Len(Ends(s)) : Ends(s)[k] \in Nat
  BY <1>1
<1> DEFINE f == Ends(s)
           n == Len(Ends(s))
<1>3. f = [k \in 1 .. n |-> f[k]]
  <2>1. f = [k \in DOMAIN f |-> f[k]]
    BY <1>1 DEF Ascending
  <2> HIDE DEF f
  <2> QED
    BY <1>1, <2>1 DEF f
<1> HIDE DEF f, n
<1>4. \A k \in 1 .. n : f[k] \in Nat
  BY <1>2 DEF f, n
<1>5. n \in Nat
  BY <1>1 DEF n
<1>6. f \in Seq(Nat)
  BY <1>3, <1>4, <1>5
<1> QED
  BY <1>6 DEF f

\* When the machine begins anew, a line has just ended, and it was the last of the
\* messages so far.
LEMMA MessageEnded ==
  ASSUME NEW s \in Seq(Byte), NEW one, OfStream(s, one), one.cs = {Start}, Meanings(s) # <<>>
  PROVE  Ends(s)[Len(Meanings(s))] = Len(s)
<1> DEFINE n == Len(Ends(s))
           l == Len(s)
           e == LastEnd(s)
<1>1. n \in Nat /\ e \in 0 .. l /\ l \in Nat
  BY EndsType
<1>2. Legal(s) \in 0 .. n
  BY LegalIs DEF LegalUpTo
<1>3. Legal(s) = n
  BY <1>1, <1>2 DEF OfStream
<1>4. Start \in Reached(Since(s))
  BY <1>3 DEF OfStream
<1>5. Since(s) = <<>>
  BY <1>4, StartReached
<1> DEFINE N == Notes
           list == Meanings(s)
<1>6. list \in Seq(N) /\ Len(list) = n
  <2>1. Nul \in Byte
    BY DEF Byte
  <2> QED
    BY <1>3, <2>1, MeaningsMore
<1> HIDE DEF n, l, e, N, list
<1>7. n # 0
  BY <1>6 DEF list
<1>8. e = l
  <2>1. SubSeq(s, e + 1, l) = <<>>
    BY <1>5 DEF Since, e, l
  <2>2. CASE e < l
    <3>1. Len(SubSeq(s, e + 1, l)) = l - e
      <4>1. e + 1 \in 1 .. Len(s) + 1 /\ l \in e .. Len(s) /\ e \in Nat
        BY <1>1, <2>2 DEF l
      <4> QED
        BY <4>1
    <3>2. Len(SubSeq(s, e + 1, l)) = 0
      <4> DEFINE part == SubSeq(s, e + 1, l)
      <4>1. part = <<>>
        BY <2>1
      <4> HIDE DEF part
      <4>2. Len(part) = 0
        BY <4>1
      <4> QED
        BY <4>2 DEF part
    <3> QED
      BY <1>1, <2>2, <3>1, <3>2
  <2> QED
    BY <1>1, <2>2
<1>9. e = Ends(s)[n]
  BY <1>7 DEF LastEnd, e, n
<1> QED
  BY <1>6, <1>8, <1>9 DEF list, l

-----------------------------------------------------------------------------
(* The output is the answers and logins due.                                *)

\* What is due, in the terms of what has been handled.
LEMMA DueIs ==
  /\ HandledRight => Due = UptoByte(Parsed, Ends(Upto(stream, Parsed)), handled, logins)
  /\ HandledRight' =>
       Due' = UptoByte(Parsed', Ends(Upto(stream', Parsed')), handled', logins')
<1>1. ASSUME HandledRight
      PROVE  Due = UptoByte(Parsed, Ends(Upto(stream, Parsed)), handled, logins)
  <2>1. handled = Meanings(Upto(stream, Parsed))
    BY <1>1 DEF HandledRight
  <2>2. Due = UptoByte(Parsed, Ends(Upto(stream, Parsed)), Meanings(Upto(stream, Parsed)), logins)
    BY DEF Due, DueUpto, DueAt, UptoByte, AtByte, EndedAt, LoginsAt
  <2> QED
    BY <2>1, <2>2
<1>2. ASSUME HandledRight'
      PROVE  Due' = UptoByte(Parsed', Ends(Upto(stream', Parsed')), handled', logins')
  <2>1. handled' = Meanings(Upto(stream', Parsed'))
    BY <1>2 DEF HandledRight
  <2>2. Due' = UptoByte(Parsed', Ends(Upto(stream', Parsed')), Meanings(Upto(stream', Parsed')), logins')
    BY DEF Due, DueUpto, DueAt, UptoByte, AtByte, EndedAt, LoginsAt
  <2> QED
    BY <2>1, <2>2
<1> QED
  BY <1>1, <1>2

\* It is made of texts.
LEMMA UptoByteType ==
  ASSUME NEW n \in Nat, NEW ends \in Seq(Nat), NEW list \in Seq(Views), NEW log \in Seq(Nat)
  PROVE  UptoByte(n, ends, list, log) \in Texts
<1>1. PICK f : /\ DueRun(n, ends, list, log, f) /\ UptoByte(n, ends, list, log) = f[n]
               /\ \A k \in -1 .. n : f[k] \in Texts
  <2>1. HasDueRun(n, ends, list, log)
    BY UptoByteRuns
  <2> QED
    BY <2>1 DEF HasDueRun
<1>2. n \in -1 .. n
  OBVIOUS
<1> QED
  BY <1>1, <1>2

\* The messages handled, and where they end.
LEMMA HandledFacts ==
  ASSUME NEW s \in Seq(Byte), NEW p \in 0 .. Len(s), NEW list,
         list = OneRun(s)[p].handled, list = Meanings(Upto(s, p))
  PROVE  /\ list \in Seq(Views) /\ Ends(Upto(s, p)) \in Seq(Nat)
         /\ Upto(s, p) \in Seq(Byte) /\ Len(Upto(s, p)) = p
         /\ \A j \in DOMAIN list : /\ j \in 1 .. Len(Ends(Upto(s, p)))
                                   /\ Ends(Upto(s, p))[j] <= p
<1> DEFINE t == Upto(s, p)
           e == Ends(t)
           N == Notes
<1>1. t \in Seq(Byte) /\ Len(t) = p
  BY UptoLen
<1>2. list \in Seq(Views)
  <2>1. OneRun(s)[p] \in Ones
    BY OneRunSteps
  <2> QED
    BY <2>1 DEF Ones
<1> HIDE DEF t
<1>3. e \in Seq(Nat) /\ Len(e) \in Nat /\ \A j \in 1 .. Len(e) : e[j] \in 2 .. p
  BY <1>1, EndsNumbers, EndsType
<1>4. Legal(t) \in 0 .. Len(e)
  BY <1>1, LegalIs DEF LegalUpTo
<1>5. list \in Seq(N) /\ Len(list) = Legal(t)
  <2>1. Nul \in Byte
    BY DEF Byte
  <2> QED
    BY <1>1, <2>1, MeaningsMore DEF t
<1> HIDE DEF e, N
<1>6. DOMAIN list = 1 .. Len(list)
  BY <1>5
<1>7. \A j \in DOMAIN list : j \in 1 .. Len(e)
  BY <1>3, <1>4, <1>5, <1>6
<1>8. \A j \in DOMAIN list : e[j] <= p
  BY <1>3, <1>7
<1> QED
  BY <1>1, <1>2, <1>3, <1>7, <1>8 DEF t, e

\* A put of what is due keeps the output as expected.
LEMMA PutExpected ==
  ASSUME sent \in Seq(Chunk), write_buf \in Seq(Chunk), full \in BOOLEAN,
         Len(write_buf) <= WriteCapacity,
         NEW due \in Texts, Concatenates(sent \o write_buf, due, full),
         NEW texts \in Seq(Chunk), Put(texts), NoteFull
  PROVE  /\ Concatenates(sent \o write_buf', Append(due, Units(texts)), full')
         /\ Units(texts) = <<>> => Concatenates(sent \o write_buf', due, full')
<1> DEFINE u == Units(texts)
           C == Chunk
           out == sent \o write_buf
<1>1. PICK k \in 0 .. Len(u) : /\ write_buf' = write_buf \o Upto(u, k)
                               /\ k # Len(u) => Len(write_buf') >= WriteCapacity
  BY PutAppends
<1>2. u \in Seq(C)
  BY UnitsType
<1>3. /\ out \in Seq(C) /\ due \in Seq(Seq(C)) /\ sent \in Seq(C) /\ write_buf \in Seq(C)
  <2>1. sent \in Seq(C) /\ write_buf \in Seq(C) /\ due \in Seq(Seq(C))
    BY DEF Texts
  <2> HIDE DEF C
  <2>2. out \in Seq(C)
    BY <2>1
  <2> QED
    BY <2>1, <2>2
<1>4. full' \in BOOLEAN /\ (full => full') /\ (~full' => k = Len(u))
  BY <1>1 DEF NoteFull
<1> HIDE DEF u, C
<1>5. Len(u) \in Nat
  BY <1>2
<1>6. Upto(u, k) \in Seq(C)
  BY <1>2, <1>5 DEF Upto
<1>7. sent \o write_buf' = out \o Upto(u, k)
  <2> DEFINE y == Upto(u, k)
  <2>1. y \in Seq(C)
    BY <1>6
  <2> HIDE DEF y
  <2>2. sent \o (write_buf \o y) = (sent \o write_buf) \o y
    <3> HIDE DEF out
    <3>1. sent \in Seq(C) /\ write_buf \in Seq(C) /\ y \in Seq(C)
      BY <1>3, <2>1
    <3> QED
      <4>1. Associates(sent, write_buf, y)
        BY <3>1, JoinedThrice
      <4> QED
        BY <4>1 DEF Associates
  <2> QED
    BY <1>1, <2>2 DEF y
<1> HIDE DEF out
<1>8. Concatenates(out, due, full)
  BY DEF out
<1>9. Concatenates(out \o Upto(u, k), Append(due, u), full')
  BY <1>2, <1>3, <1>4, <1>8, ConcatenatesMore
<1>10. ASSUME u = <<>>
       PROVE  Concatenates(out \o Upto(u, k), due, full')
  <2>1. Len(u) = 0 /\ k = 0
    <3>1. Len(u) = 0
      BY <1>10
    <3> QED
      BY <3>1
  <2>2. Upto(u, k) = <<>>
    BY <2>1, SubSeqEmpty DEF Upto
  <2>3. out \o <<>> = out
    BY <1>3
  <2>4. Concatenates(out, due, full')
    BY <1>3, <1>4, <1>8, ConcatenatesCut
  <2> QED
    BY <2>2, <2>3, <2>4
<1> QED
  BY <1>7, <1>9, <1>10 DEF u

\* The output is as expected, and no login came after what has been parsed.
OutInv ==
  /\ sent \in Seq(Chunk)
  /\ logins \in Seq(Nat) /\ \A i \in DOMAIN logins : logins[i] <= Parsed
  /\ OutputExpected

\* At first nothing is due and nothing is there.
LEMMA OutInit == BotInv /\ HandledRight /\ ParsedAsOne /\ Init => OutInv
<1> SUFFICES ASSUME BotInv, HandledRight, ParsedAsOne, Init
             PROVE  OutInv
  OBVIOUS
<1>1. /\ stream = <<>> /\ read_buf = <<>> /\ handled = <<>> /\ logins = <<>> /\ sent = <<>>
      /\ write_buf = <<>> /\ full = FALSE
  BY DEF Init, IrcInit
<1>2. Parsed = 0
  BY <1>1 DEF Parsed
<1> DEFINE s == Upto(stream, Parsed)
           e == Ends(s)
           none == <<>>
<1>3. s \in Seq(Byte) /\ e \in Seq(Nat)
  <2>1. s \in Seq(Byte)
    BY BotTypes, UptoLen
  <2> HIDE DEF s
  <2> QED
    BY <2>1, EndsNumbers
<1>4. Due = UptoByte(0, e, none, none)
  BY <1>1, <1>2, DueIs
<1> HIDE DEF e
<1>5. none \in Seq(Views) /\ none \in Seq(Nat) /\ DOMAIN none = {}
  OBVIOUS
<1> HIDE DEF none
<1>6. PICK f : DueRun(0, e, none, none, f) /\ UptoByte(0, e, none, none) = f[0]
  <2>1. 0 \in Nat
    OBVIOUS
  <2> QED
    <3>1. HasDueRun(0, e, none, none)
      BY <1>3, <1>5, <2>1, UptoByteRuns
    <3> QED
      BY <3>1 DEF HasDueRun
<1>7. AtByte(0, e, none, none) = <<>>
  <2>1. EndedAt(0, e, none) = {} /\ LoginsAt(0, none) = {}
    BY <1>5 DEF EndedAt, LoginsAt
  <2> QED
    BY <2>1, NothingAtByte
<1>8. f[0] = <<>>
  <2>1. 0 \in 0 .. 0 /\ 0 - 1 = -1
    OBVIOUS
  <2>2. f[0] = f[-1] \o AtByte(0, e, none, none) /\ f[-1] = <<>>
    BY <1>6, <2>1 DEF DueRun
  <2>3. <<>> \o <<>> = <<>>
    OBVIOUS
  <2> QED
    BY <1>7, <2>2, <2>3
<1>9. Concatenates(<<>>, <<>>, FALSE)
  BY ConcatenatesNothing
<1>10. OutputExpected
  <2>1. <<>> \o <<>> = <<>>
    OBVIOUS
  <2> QED
    BY <1>1, <1>4, <1>6, <1>8, <1>9, <2>1 DEF OutputExpected
<1>11. /\ sent \in Seq(Chunk) /\ logins \in Seq(Nat) /\ \A i \in DOMAIN logins : logins[i] <= Parsed
  BY <1>1
<1> QED
  BY <1>10, <1>11 DEF OutInv

\* The same facts as of the messages handled, before a step.
LEMMA OutFacts ==
  ASSUME BotInv, ParsedAsOne, HandledRight, OutInv
  PROVE  LET t == Upto(stream, Parsed) IN
         /\ handled \in Seq(Views) /\ Ends(t) \in Seq(Nat) /\ t \in Seq(Byte) /\ Parsed \in Nat
         /\ \A j \in DOMAIN handled : j \in 1 .. Len(Ends(t))
         /\ AllBy(Parsed, Ends(t), handled, logins)
         /\ Due = UptoByte(Parsed, Ends(t), handled, logins) /\ Due \in Texts
<1> DEFINE t == Upto(stream, Parsed)
<1>1. stream \in Seq(Byte) /\ Parsed \in 0 .. Len(stream) /\ Parsed \in Nat
  BY BotTypes
<1>2. handled = OneRun(stream)[Parsed].handled /\ handled = Meanings(t)
  BY DEF ParsedAsOne, HandledRight
<1>3. /\ handled \in Seq(Views) /\ Ends(t) \in Seq(Nat) /\ t \in Seq(Byte)
      /\ \A j \in DOMAIN handled : j \in 1 .. Len(Ends(t)) /\ Ends(t)[j] <= Parsed
  BY <1>1, <1>2, HandledFacts
<1>4. Due = UptoByte(Parsed, Ends(t), handled, logins)
  BY DueIs
<1> HIDE DEF t
<1>5. AllBy(Parsed, Ends(t), handled, logins)
  BY <1>3 DEF OutInv, AllBy
<1>6. logins \in Seq(Nat)
  BY DEF OutInv
<1>7. Due \in Texts
  BY <1>1, <1>3, <1>4, <1>6, UptoByteType
<1> QED
  BY <1>1, <1>3, <1>4, <1>5, <1>7 DEF t

\* A step that neither parses nor logs in nor puts.
LEMMA OutSame ==
  ASSUME BotInv, ParsedAsOne, HandledRight, HandledRight', OutInv,
         UNCHANGED <<handled, logins, full>>, Parsed' = Parsed,
         Upto(stream', Parsed) = Upto(stream, Parsed),
         sent' \in Seq(Chunk), sent' \o write_buf' = sent \o write_buf
  PROVE  OutInv'
<1>1. Due' = Due
  BY DueIs
<1>2. OutputExpected'
  BY <1>1 DEF OutputExpected, OutInv
<1> QED
  BY <1>2 DEF OutInv

\* A login puts the login, and it is due after all that was parsed.
LEMMA OutLogin ==
  ASSUME BotInv, ParsedAsOne, HandledRight, HandledRight', OutInv, LeavePoll
  PROVE  OutInv'
<1> DEFINE t == Upto(stream, Parsed)
           e == Ends(t)
<1>1. /\ UNCHANGED <<stream, read_buf, handled, sent>>
      /\ connected => Put(Hello) /\ NoteFull /\ logins' = Append(logins, Parsed)
      /\ ~connected => UNCHANGED <<write_buf, full, logins>>
  BY DEF LeavePoll, OnConnect, irc
<1>2. Parsed' = Parsed /\ connected \in BOOLEAN
  BY <1>1, BotTypes DEF Parsed
<1>3. /\ handled \in Seq(Views) /\ e \in Seq(Nat) /\ Parsed \in Nat
      /\ Due = UptoByte(Parsed, e, handled, logins) /\ Due \in Texts
  BY OutFacts
<1>4. /\ sent \in Seq(Chunk) /\ logins \in Seq(Nat) /\ \A i \in DOMAIN logins : logins[i] <= Parsed
      /\ Concatenates(sent \o write_buf, Due, full)
  BY DEF OutInv, OutputExpected
<1>5. CASE ~connected
  <2>1. OutInv'
    BY <1>1, <1>2, <1>4, <1>5, OutSame
  <2> QED
    BY <2>1
<1>6. CASE connected
  <2>1. Put(Hello) /\ NoteFull /\ logins' = Append(logins, Parsed)
    BY <1>1, <1>6
  <2>2. Due' = UptoByte(Parsed, e, handled, logins')
    BY <1>1, <1>2, DueIs
  <2> HIDE DEF e
  <2>3. Due' = Append(Due, Hello)
    BY <1>3, <1>4, <2>1, <2>2, DueLogin
  <2>4. write_buf \in Seq(Chunk) /\ full \in BOOLEAN /\ Len(write_buf) <= WriteCapacity
    BY BotTypes DEF BotInv
  <2>5. Concatenates(sent \o write_buf', Append(Due, Units(Hello)), full')
    BY <1>3, <1>4, <2>1, <2>4, HelloType, PutExpected
  <2>6. OutputExpected'
    BY <1>1, <2>3, <2>5, HelloWhole DEF OutputExpected
  <2>7. logins' \in Seq(Nat) /\ \A i \in DOMAIN logins' : logins'[i] <= Parsed
    <3> DEFINE p == Parsed
               l == logins
               more == Append(l, p)
    <3>1. p \in Nat /\ l \in Seq(Nat) /\ \A i \in DOMAIN l : l[i] <= p
      BY <1>3, <1>4
    <3> HIDE DEF p, l
    <3>2. more \in Seq(Nat) /\ Len(l) \in Nat /\ DOMAIN more = 1 .. Len(l) + 1 /\ DOMAIN l = 1 .. Len(l)
          /\ more[Len(l) + 1] = p /\ \A i \in 1 .. Len(l) : more[i] = l[i]
      BY <3>1
    <3> HIDE DEF more
    <3>3. \A i \in DOMAIN more : more[i] <= p
      <4> TAKE i \in DOMAIN more
      <4>1. i = Len(l) + 1 \/ i \in 1 .. Len(l)
        BY <3>2
      <4>2. p <= p
        BY <3>1
      <4> QED
        BY <3>1, <3>2, <4>1, <4>2
    <3> QED
      BY <2>1, <3>2, <3>3 DEF more, l, p
  <2>8. sent' \in Seq(Chunk)
    BY <1>1, <1>4
  <2> QED
    BY <1>2, <2>6, <2>7, <2>8 DEF OutInv
<1> QED
  BY <1>2, <1>5, <1>6

\* A turn of the inner loop puts the answer of the message it completes, if it
\* completes one, and it is due where the message ends.
LEMMA OutParse ==
  ASSUME BotInv, ParsedAsOne, ParsedAsOne', HandledRight, HandledRight', OutInv, ParseWindow
  PROVE  OutInv'
<1> DEFINE r == Parse(msg, cs, Window)
           p == Parsed
           q == Parsed'
           t == Upto(stream, p)
           u == Upto(stream, q)
           e == Ends(t)
           d == Ends(u)
           v == Shown(r.msg)
<1>1. /\ r \in GoodRuns /\ r.len \in 0 .. Len(read_buf) /\ ParseAndHandle(r)
      /\ handled' = IF Complete(r) THEN Append(handled, v) ELSE handled
      /\ stream' = stream /\ q = p + r.len
  BY ParseEffect
<1>2. NoteFull /\ UNCHANGED <<stream, logins, sent>>
  BY DEF ParseWindow, history
<1>3. p \in 0 .. Len(stream) /\ q \in 0 .. Len(stream) /\ p <= q /\ stream \in Seq(Byte)
      /\ p \in Nat /\ q \in Nat
  <2>1. /\ p = Len(stream) - Len(read_buf) /\ Len(stream) \in Nat /\ Len(read_buf) \in Nat
        /\ p \in 0 .. Len(stream) /\ stream \in Seq(Byte)
    BY BotTypes DEF Parsed
  <2> HIDE DEF p, q, r
  <2> QED
    BY <1>1, <2>1
<1>4. /\ handled \in Seq(Views) /\ e \in Seq(Nat)
      /\ \A j \in DOMAIN handled : j \in 1 .. Len(e)
      /\ AllBy(p, e, handled, logins)
      /\ Due = UptoByte(p, e, handled, logins) /\ Due \in Texts
  BY OutFacts
<1>5. /\ sent \in Seq(Chunk) /\ logins \in Seq(Nat) /\ \A i \in DOMAIN logins : logins[i] <= p
      /\ Concatenates(sent \o write_buf, Due, full)
  BY DEF OutInv, OutputExpected
<1>6. handled' = OneRun(stream)[q].handled /\ handled' = Meanings(u)
  BY <1>2 DEF ParsedAsOne, HandledRight
<1>7. handled' \in Seq(Views) /\ d \in Seq(Nat) /\ u \in Seq(Byte) /\ Len(u) = q
  <2> HIDE DEF p, q
  <2> QED
    BY <1>3, <1>6, HandledFacts
<1>8. Due' = UptoByte(q, d, handled', logins)
  BY <1>2, DueIs
<1>9. \A j \in DOMAIN handled : e[j] = d[j]
  <2>1. \A j \in 1 .. Len(Ends(Upto(stream, p))) : Ends(Upto(stream, q))[j] = Ends(Upto(stream, p))[j]
    <3> HIDE DEF p, q
    <3> QED
      BY <1>3, EndsGrow
  <2> QED
    BY <1>4, <2>1
<1>10. write_buf \in Seq(Chunk) /\ full \in BOOLEAN /\ Len(write_buf) <= WriteCapacity
  BY BotTypes DEF BotInv
<1>11. r.msg \in Msg
  BY <1>1 DEF GoodRuns
<1>12. /\ sent' \in Seq(Chunk) /\ logins' \in Seq(Nat) /\ \A i \in DOMAIN logins' : logins'[i] <= q
  <2> HIDE DEF p, q
  <2>1. \A i \in DOMAIN logins : logins[i] \in Nat
    BY <1>5
  <2> QED
    BY <1>2, <1>3, <1>5, <2>1
<1> HIDE DEF r
<1>13. OutputExpected' => OutInv'
  BY <1>12 DEF OutInv
<1>14. CASE ~Complete(r)
  <2>1. handled' = handled /\ write_buf' = write_buf
    BY <1>1, <1>14 DEF ParseAndHandle
  <2>2. Due' = Due
    <3> HIDE DEF p, q, e, d
    <3> QED
      BY <1>3, <1>4, <1>5, <1>7, <1>8, <1>9, <2>1, DueQuiet
  <2>3. full' \in BOOLEAN /\ (full => full')
    BY <1>2, <1>10 DEF NoteFull
  <2>4. Concatenates(sent \o write_buf, Due, full')
    <3> DEFINE C == Chunk
               out == sent \o write_buf
    <3>1. sent \in Seq(C) /\ write_buf \in Seq(C) /\ Due \in Seq(Seq(C))
      BY <1>4, <1>5, <1>10 DEF Texts
    <3> HIDE DEF C
    <3>2. out \in Seq(C)
      BY <3>1
    <3>3. Concatenates(out, Due, full)
      BY <1>5
    <3> HIDE DEF out
    <3>4. Concatenates(out, Due, full')
      BY <1>10, <2>3, <3>1, <3>2, <3>3, ConcatenatesCut
    <3> QED
      BY <3>4 DEF out
  <2>5. OutputExpected'
    BY <1>2, <2>1, <2>2, <2>4 DEF OutputExpected
  <2> QED
    BY <1>13, <2>5
<1>15. CASE Complete(r)
  <2>1. /\ handled' = Append(handled, v) /\ Put(Output(r.msg))
        /\ cs' = {Start}
    BY <1>1, <1>15 DEF ParseAndHandle, Handle, Saved
  <2>2. v \in Views
    BY <1>11 DEF Views
  <2>3. Len(handled) \in Nat /\ Len(handled') = Len(handled) + 1 /\ handled' # <<>>
    <3> DEFINE V == Views
    <3>1. handled \in Seq(V) /\ v \in V
      BY <1>4, <2>2
    <3> HIDE DEF V, v
    <3> QED
      BY <2>1, <3>1
  <2>4. p < q
    <3>1. p # q
      <4>1. ASSUME p = q
            PROVE  handled' = handled
        <5>1. u = t
          BY <4>1
        <5> HIDE DEF t, u
        <5> QED
          BY <1>6, <5>1 DEF HandledRight, t
      <4>2. Len(handled') # Len(handled)
        BY <2>3
      <4> HIDE DEF p, q
      <4> QED
        BY <4>1, <4>2
    <3> HIDE DEF p, q
    <3> QED
      BY <1>3, <3>1
  <2>5. d[Len(handled) + 1] = q
    <3> DEFINE one == OneRun(stream)[q]
    <3>1. OfStream(u, one)
      <4> HIDE DEF p, q
      <4> QED
        BY <1>3, OfStreamRuns
    <3>2. one.cs = {Start}
      BY <1>2, <2>1 DEF ParsedAsOne
    <3> HIDE DEF u, q, one
    <3>3. Ends(u)[Len(Meanings(u))] = Len(u)
      BY <1>6, <1>7, <2>3, <3>1, <3>2, MessageEnded
    <3> QED
      BY <1>6, <1>7, <2>3, <3>3
  <2>6. Due' = Due \o Answer(v)
    <3> HIDE DEF p, q, e, d, v
    <3>1. MessageRun(p, q, e, d, handled, logins, v)
      BY <1>3, <1>4, <1>5, <1>7, <1>9, <2>2, <2>4, <2>5 DEF MessageRun
    <3>2. UptoByte(q, d, Append(handled, v), logins) = UptoByte(p, e, handled, logins) \o Answer(v)
      BY <3>1, DueMessage
    <3> QED
      BY <1>4, <1>8, <2>1, <3>2
  <2> DEFINE x == Units(Output(r.msg))
             texts == Output(r.msg)
  <2>7. texts \in Seq(Chunk) /\ x \in Seq(Chunk)
    BY <1>11, OutputType, UnitsType
  <2>8. /\ Concatenates(sent \o write_buf', Append(Due, x), full')
        /\ x = <<>> => Concatenates(sent \o write_buf', Due, full')
    BY <1>2, <1>4, <1>5, <1>10, <2>1, <2>7, PutExpected
  <2>9. \/ Answer(v) = <<>> /\ x = <<>>
        \/ Answer(v) = <<x>>
    BY <1>11, AnswerIs
  <2> DEFINE T == Seq(Chunk)
  <2>10. Due \in Seq(T) /\ x \in T
    BY <1>4, <2>7 DEF Texts
  <2> HIDE DEF x, T
  <2>11. Due \o <<>> = Due /\ Due \o <<x>> = Append(Due, x)
    BY <2>10
  <2>12. Concatenates(sent \o write_buf', Due', full')
    BY <2>6, <2>8, <2>9, <2>11
  <2>13. OutputExpected'
    BY <1>2, <2>12 DEF OutputExpected
  <2> QED
    BY <1>13, <2>13
<1> QED
  BY <1>14, <1>15

\* Moving the first bytes of a queue to the end of another keeps both together
\* what they are.
LEMMA MovedOver ==
  ASSUME NEW T, NEW out \in Seq(T), NEW queue \in Seq(T), NEW n \in 0 .. Len(queue)
  PROVE  /\ out \o Upto(queue, n) \in Seq(T)
         /\ (out \o Upto(queue, n)) \o From(queue, n) = out \o queue
<1> DEFINE a == Len(out)
           l == Len(queue)
           part == Upto(queue, n)
           rest == From(queue, n)
           moved == out \o part
           left == moved \o rest
           right == out \o queue
<1>1. /\ a \in Nat /\ l \in Nat /\ n \in Nat /\ n <= l
      /\ \A i \in 1 .. n : i \in 1 .. l
  OBVIOUS
<1>2. /\ part \in Seq(T) /\ Len(part) = n /\ \A i \in 1 .. n : part[i] = queue[i]
  BY DEF Upto
<1>3. /\ rest \in Seq(T) /\ Len(rest) = l - n /\ \A i \in 1 .. l - n : rest[i] = queue[n + i]
  BY DEF From
<1> HIDE DEF part, rest
<1>4. /\ moved \in Seq(T) /\ Len(moved) = a + n
      /\ \A i \in 1 .. a : moved[i] = out[i]
      /\ \A i \in 1 .. n : moved[a + i] = queue[i]
  BY <1>1, <1>2
<1> HIDE DEF moved
<1>5. /\ left \in Seq(T) /\ Len(left) = a + l
      /\ \A i \in 1 .. a + n : left[i] = moved[i]
      /\ \A i \in 1 .. l - n : left[(a + n) + i] = queue[n + i]
  <2> HIDE DEF a, l
  <2>1. /\ left \in Seq(T) /\ Len(left) = Len(moved) + Len(rest)
        /\ \A i \in 1 .. Len(moved) : left[i] = moved[i]
        /\ \A i \in 1 .. Len(rest) : left[Len(moved) + i] = rest[i]
    <3>1. moved \in Seq(T) /\ rest \in Seq(T)
      BY <1>3, <1>4
    <3> QED
      BY <3>1
  <2> HIDE DEF left
  <2>2. Len(left) = a + l
    BY <1>1, <1>3, <1>4, <2>1
  <2>3. \A i \in 1 .. l - n : left[(a + n) + i] = queue[n + i]
    BY <1>3, <1>4, <2>1
  <2> QED
    BY <1>4, <2>1, <2>2, <2>3
<1>6. /\ right \in Seq(T) /\ Len(right) = a + l
      /\ \A i \in 1 .. a : right[i] = out[i]
      /\ \A i \in 1 .. l : right[a + i] = queue[i]
  OBVIOUS
<1> HIDE DEF left, right, a, l
<1>7. ASSUME NEW i \in 1 .. a + l
      PROVE  left[i] = right[i]
  <2>1. CASE i <= a
    <3>1. i \in 1 .. a /\ i \in 1 .. a + n
      BY <1>1, <2>1
    <3> QED
      BY <1>4, <1>5, <1>6, <3>1
  <2>2. CASE i > a /\ i <= a + n
    <3>1. i - a \in 1 .. n /\ i - a \in 1 .. l /\ i \in 1 .. a + n /\ a + (i - a) = i
      BY <1>1, <2>2
    <3> QED
      BY <1>4, <1>5, <1>6, <3>1
  <2>3. CASE i > a + n
    <3>1. /\ i - (a + n) \in 1 .. l - n /\ (a + n) + (i - (a + n)) = i
          /\ i - a \in 1 .. l /\ n + (i - (a + n)) = i - a /\ a + (i - a) = i
      BY <1>1, <2>3
    <3> QED
      BY <1>5, <1>6, <3>1
  <2> QED
    BY <1>1, <2>1, <2>2, <2>3
<1>8. left = right
  BY <1>5, <1>6, <1>7, SeqEqual
<1> QED
  BY <1>4, <1>8 DEF left, right, moved, part, rest

\* No step breaks it.
LEMMA OutStep ==
  ASSUME BotInv, ParsedAsOne, ParsedAsOne', HandledRight, HandledRight', OutInv, [Next]_vars
  PROVE  OutInv'
<1>1. sent \in Seq(Chunk) /\ write_buf \in Seq(Chunk)
  BY BotTypes DEF BotInv, OutInv
<1>2. ASSUME UNCHANGED <<stream, read_buf, handled, logins, full, sent, write_buf>>
      PROVE  OutInv'
  <2>1. Parsed' = Parsed /\ Upto(stream', Parsed) = Upto(stream, Parsed)
    BY <1>2 DEF Parsed
  <2> QED
    BY <1>1, <1>2, <2>1, OutSame
<1>3. ASSUME NEW line \in Lines, ServerSends(line)
      PROVE  OutInv'
  BY <1>2, <1>3 DEF ServerSends, irc, history
<1>4. CASE Connect
  BY <1>2, <1>4 DEF Connect, irc, history
<1>5. CASE Disconnect
  BY <1>2, <1>5 DEF Disconnect, irc, history
<1>6. ASSUME NEW n \in Amounts(ReadSizes, Readable), ReadSome(n)
      PROVE  OutInv'
  <2> DEFINE part == Upto(unread, n)
  <2>1. /\ part \in Seq(Byte) /\ stream' = stream \o part /\ Parsed' = Parsed
    BY <1>6, ReadEffect
  <2>2. UNCHANGED <<handled, logins, full, sent, write_buf>>
    BY <1>6 DEF ReadSome, irc
  <2>3. stream \in Seq(Byte) /\ Parsed \in 0 .. Len(stream)
    BY BotTypes
  <2> HIDE DEF part
  <2>4. Upto(stream', Parsed) = Upto(stream, Parsed)
    <3> DEFINE p == Parsed
    <3> HIDE DEF p
    <3>1. SubSeq(stream \o part, 1, p) = SubSeq(stream, 1, p)
      BY <2>1, <2>3 DEF p
    <3> QED
      BY <2>1, <3>1 DEF Upto, p
  <2> QED
    BY <1>1, <2>1, <2>2, <2>4, OutSame
<1>7. ASSUME NEW n \in Amounts(WriteSizes, Len(write_buf)), WriteSome(n)
      PROVE  OutInv'
  <2>1. /\ sent' = sent \o Upto(write_buf, n) /\ write_buf' = From(write_buf, n)
        /\ UNCHANGED <<handled, logins, full, stream, read_buf>>
    BY <1>7 DEF WriteSome
  <2>2. n \in 0 .. Len(write_buf)
    BY <1>1, BotAssumption DEF Amounts
  <2>3. sent' \in Seq(Chunk) /\ sent' \o write_buf' = sent \o write_buf
    BY <1>1, <2>1, <2>2, MovedOver
  <2>4. Parsed' = Parsed /\ Upto(stream', Parsed) = Upto(stream, Parsed)
    BY <2>1 DEF Parsed
  <2> QED
    BY <2>1, <2>3, <2>4, OutSame
<1>8. CASE LeavePoll
  BY <1>8, OutLogin
<1>9. CASE Stop
  BY <1>2, <1>9 DEF Stop, irc, history
<1>10. CASE ParseWindow
  BY <1>10, OutParse
<1>11. CASE Drained
  BY <1>2, <1>11 DEF Drained, irc, history
<1>12. CASE UNCHANGED vars
  BY <1>2, <1>12 DEF vars, irc, history
<1>13. CASE RunAstray
  BY <1>2, <1>13 DEF RunAstray, irc, history
<1> QED
  BY <1>3, <1>4, <1>5, <1>6, <1>7, <1>8, <1>9, <1>10, <1>11, <1>12, <1>13 DEF Next, Drain, Halted

\* What the bot has put on the wire and what waits in write_buf is the login of
\* every connection and the answer to every message handled whose code, after all
\* that was put over it, is found to be PING or 004, in the order of their causes,
\* whole until write_buf was once full.  A PONG repeats the parameters Meaning
\* gives: stale ones, or bytes of a prefix that ran on into them, where it says so.
THEOREM BotOutputExpected == Spec => []OutputExpected
<1>1. BotInv /\ ParsedAsOne => HandledRight
  BY HandledAsOne
<1>2. Init /\ BotInv /\ ParsedAsOne /\ HandledRight => OutInv
  BY OutInit
<1>3. /\ BotInv /\ ParsedAsOne /\ ParsedAsOne' /\ HandledRight /\ HandledRight' /\ OutInv
      /\ [Next]_vars
      => OutInv'
  BY OutStep
<1>4. Spec => []OutInv
  BY <1>1, <1>2, <1>3, BotInvariant, BotParsesAsOne, PTL DEF Spec
<1>5. OutInv => OutputExpected
  BY DEF OutInv
<1> QED
  BY <1>4, <1>5, PTL
=============================================================================
