----------------------------- MODULE ByteQueue -----------------------------
(***************************************************************************)
(* What rp_fifo promises its callers: a bounded queue of bytes.  A put      *)
(* appends the longest prefix of its argument that fits and silently drops  *)
(* the rest; a take hands out the oldest bytes, in order, at most as many   *)
(* as there are.  Wrap-around, the two raw windows and the copy loops of    *)
(* src/util/rp_fifo.c are invisible here.                                   *)
(***************************************************************************)
EXTENDS Integers, Sequences

CONSTANTS
  Byte,       \* the values a byte can have
  Capacity,   \* rp_fifo.capacity
  Strings     \* the byte strings callers may put

VARIABLES
  queue,      \* the bytes put and not yet taken, oldest first
  out         \* the bytes the last take handed out

qvars == <<queue, out>>

Lesser(m, n) == IF m < n THEN m ELSE n

Init ==
  /\ queue = <<>>
  /\ out = <<>>

\* Append what fits of s.
Put(s) ==
  /\ queue' = queue \o SubSeq(s, 1, Lesser(Len(s), Capacity - Len(queue)))
  /\ UNCHANGED out

\* Hand out the n oldest bytes.
Take(n) ==
  /\ out' = SubSeq(queue, 1, n)
  /\ queue' = SubSeq(queue, n + 1, Len(queue))

Next ==
  \/ \E s \in Strings : Put(s)
  \/ \E n \in 0 .. Len(queue) : Take(n)

Spec == Init /\ [][Next]_qvars
=============================================================================
