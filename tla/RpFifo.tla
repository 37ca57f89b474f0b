------------------------------- MODULE RpFifo -------------------------------
(***************************************************************************)
(* The ring buffer of src/util/rp_fifo.h and rp_fifo.c: one instance holds  *)
(* the bytes read from the server's socket, another the bytes to be         *)
(* written to it.                                                           *)
(*                                                                         *)
(* Pointers into buffer[] are offsets 0 .. Capacity-1; `end' is the offset  *)
(* Capacity.  The copy loops of rp_fifo_put and rp_fifo_get take one step   *)
(* per iteration; src and want are the locals of the running call, and a    *)
(* call is over when both are empty.                                        *)
(***************************************************************************)
EXTENDS Integers, Sequences

CONSTANTS
  Byte,       \* the values a byte can have
  Capacity,   \* rp_fifo.capacity: IRC_BUFFER_SZ for both of rpbot's buffers
  Strings     \* the byte strings handed to rp_fifo_put and read() from a socket

ASSUME FifoAssumption ==
  /\ Capacity \in Nat \ {0}
  /\ Strings \subseteq Seq(Byte)

VARIABLES
  buffer,     \* u_char buffer[]
  head,       \* offset of the oldest byte
  tail,       \* offset the next byte goes to
  count,      \* number of bytes in the buffer
  src,        \* what the running rp_fifo_put has still to copy
  want,       \* how many bytes the running rp_fifo_get has still to copy
  dest        \* the bytes the last reading call handed out

ring == <<buffer, head, tail, count>>
vars == <<buffer, head, tail, count, src, want, dest>>

Slot == 0 .. Capacity - 1

Lesser(m, n) == IF m < n THEN m ELSE n

\* Mutant: off by one.
BytesFreeOffByOne == Capacity - count + 1

BytesFree == Capacity - count

\* Mutant: the window runs to the end whatever is queued there.
RawWToEnd == Capacity - tail

\* Contiguous room at the tail, and contiguous data at the head.
RawW == Lesser(BytesFree, Capacity - tail)
RawR == Lesser(count, Capacity - head)

\* The n bytes from the head on, which do not run past the end.
AtHead(n) == [i \in 1 .. n |-> buffer[head + i - 1]]

Idle == src = <<>> /\ want = 0

-----------------------------------------------------------------------------

\* rp_fifo_init; the bytes themselves are whatever the pool block contained.
Init ==
  /\ buffer \in [Slot -> Byte]
  /\ head = 0
  /\ tail = 0
  /\ count = 0
  /\ src = <<>>
  /\ want = 0
  /\ dest = <<>>

Consume(n) ==
  /\ head' = IF head + n = Capacity THEN 0 ELSE head + n
  /\ count' = count - n
  /\ UNCHANGED <<buffer, tail>>

\* Mutant: the wrap is tested before the bytes are counted.
ReserveWrapsLate(s) ==
  /\ buffer' = [p \in Slot |-> IF p \in tail .. tail + Len(s) - 1
                               THEN s[p - tail + 1] ELSE buffer[p]]
  /\ tail' = IF tail = Capacity THEN 0 ELSE tail + Len(s)
  /\ count' = count + Len(s)
  /\ UNCHANGED head

\* Mutant: the tail is left at the end.
ReserveNoWrap(s) ==
  /\ buffer' = [p \in Slot |-> IF p \in tail .. tail + Len(s) - 1
                               THEN s[p - tail + 1] ELSE buffer[p]]
  /\ tail' = tail + Len(s)
  /\ count' = count + Len(s)
  /\ UNCHANGED head

\* memcpy or read() of s to the tail, then rp_fifo_reserve.
Reserve(s) ==
  /\ buffer' = [p \in Slot |-> IF p \in tail .. tail + Len(s) - 1
                               THEN s[p - tail + 1] ELSE buffer[p]]
  /\ tail' = IF tail + Len(s) = Capacity THEN 0 ELSE tail + Len(s)
  /\ count' = count + Len(s)
  /\ UNCHANGED head

\* rp_fifo_put, up to its loop: what does not fit is dropped.
Put(s) ==
  /\ Idle
  /\ src' = SubSeq(s, 1, Lesser(Len(s), BytesFree))
  /\ UNCHANGED <<ring, want, dest>>

\* One iteration of rp_fifo_put's loop.
PutCopy ==
  LET n == Lesser(Len(src), Capacity - tail) IN
  /\ src # <<>>
  /\ Reserve(SubSeq(src, 1, n))
  /\ src' = SubSeq(src, n + 1, Len(src))
  /\ UNCHANGED <<want, dest>>

\* rp_fifo_get, up to its loop.
Get(n) ==
  /\ Idle
  /\ want' = Lesser(n, count)
  /\ dest' = <<>>
  /\ UNCHANGED <<ring, src>>

\* Mutant: the destination pointer does not move on.
GetCopyOver ==
  LET n == Lesser(want, Capacity - head) IN
  /\ want > 0
  /\ dest' = AtHead(n)
  /\ Consume(n)
  /\ want' = want - n
  /\ UNCHANGED src

\* One iteration of rp_fifo_get's loop.
GetCopy ==
  LET n == Lesser(want, Capacity - head) IN
  /\ want > 0
  /\ dest' = dest \o AtHead(n)
  /\ Consume(n)
  /\ want' = want - n
  /\ UNCHANGED src

\* rp_fifo_raw_w, a read() into the window it returned, rp_fifo_reserve.
RawWrite(s) ==
  /\ Idle
  /\ s # <<>>
  /\ Len(s) <= RawW
  /\ Reserve(s)
  /\ UNCHANGED <<src, want, dest>>

\* rp_fifo_raw_r, a write() or parse of the first n bytes of the window it
\* returned, rp_fifo_consume.
RawRead(n) ==
  /\ Idle
  /\ n <= RawR
  /\ dest' = AtHead(n)
  /\ Consume(n)
  /\ UNCHANGED <<src, want>>

\* Asking for more than Capacity + 1 bytes is asking for Capacity + 1.
Next ==
  \/ \E s \in Strings : Put(s) \/ RawWrite(s)
  \/ \E n \in 0 .. Capacity + 1 : Get(n) \/ RawRead(n)
  \/ PutCopy
  \/ GetCopy

Spec == Init /\ [][Next]_vars

\* A call that has started runs to its end: the program has one thread.
FairSpec == Spec /\ WF_vars(PutCopy) /\ WF_vars(GetCopy)

-----------------------------------------------------------------------------

\* The offset of the i-th queued byte.
Position(i) == IF head + i > Capacity THEN head + i - 1 - Capacity ELSE head + i - 1

Content == [i \in 1 .. count |-> buffer[Position(i)]]

(***************************************************************************)
(* Both pointers stay inside buffer[], the count never exceeds the          *)
(* capacity, and the locals of a call never exceed the room or the data it  *)
(* was clamped to.                                                          *)
(***************************************************************************)
TypeOK ==
  /\ buffer \in [Slot -> Byte]
  /\ head \in Slot
  /\ tail \in Slot
  /\ count \in 0 .. Capacity
  /\ src \in Seq(Byte) /\ Len(src) <= BytesFree
  /\ want \in 0 .. count
  /\ dest \in Seq(Byte)

(***************************************************************************)
(* The three counters agree: the tail is count bytes after the head, around *)
(* the ring.  head = tail alone cannot tell an empty buffer from a full     *)
(* one; the code relies on count never disagreeing with the pointers.       *)
(***************************************************************************)
TailFollowsHead == tail = IF head + count >= Capacity THEN head + count - Capacity
                                                      ELSE head + count

(***************************************************************************)
(* The contract of the raw windows that do_read, do_write and main_loop     *)
(* build on: there is a window whenever there is room (data), so neither a  *)
(* copy loop nor a system call ever works on zero bytes; the window to      *)
(* write to holds no queued byte, the window to read from holds only such.  *)
(***************************************************************************)
RawWindows ==
  LET Queued == {Position(i) : i \in 1 .. count} IN
  /\ BytesFree > 0 => RawW > 0
  /\ count > 0 => RawR > 0
  /\ (tail .. tail + RawW - 1) \subseteq Slot \ Queued
  /\ (head .. head + RawR - 1) \subseteq Queued

\* Every rp_fifo_put and rp_fifo_get returns: each iteration makes progress,
\* also when the data wraps around the end of the buffer.
CallsReturn == ~Idle ~> Idle

-----------------------------------------------------------------------------

(***************************************************************************)
(* The buffer implements the queue of bytes.  A running call has, seen from *)
(* outside, already happened: the bytes it will still append are in the     *)
(* queue, the bytes it will still hand out are not.                         *)
(***************************************************************************)
Pledged == SubSeq(Content, want + 1, count) \o src
Handed == dest \o SubSeq(Content, 1, want)

Queue == INSTANCE ByteQueue WITH queue <- Pledged, out <- Handed

\* No caller of rp_fifo can tell the ring from the queue: no byte is lost,
\* duplicated, reordered or invented, and a put drops exactly what does not fit.
ImplementsQueue == Queue!Spec
=============================================================================
