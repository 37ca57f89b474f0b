-------------------------------- MODULE RpBot --------------------------------
(***************************************************************************)
(* The bot as its server sees it: main_loop of src/rpbot.c around a         *)
(* connection, the two rings, the parser and the handlers.  The connection  *)
(* is what ConnLifecycle and RpEvent leave of it: it comes up, moves bytes  *)
(* both ways as far as there is room, and goes down.  The rings are the     *)
(* queues RpFifo implements.                                                *)
(***************************************************************************)
EXTENDS RpIrc, RpIrcGrammar

CONSTANTS
  Lines,          \* what the server may send, ends included
  ReadCapacity,   \* read_buf->capacity
  ReadSizes,      \* how much a read or write moves when it does not
  WriteSizes,     \* move all it could
  MaxLines,       \* lines the server sends
  MaxBytes,       \* and the bytes of all of them
  MaxConnects     \* times the connection comes up

ASSUME BotAssumption ==
  /\ Lines \subseteq Seq(Byte) \ {<<>>}
  /\ ReadSizes \subseteq Nat \ {0} /\ WriteSizes \subseteq Nat \ {0}
  /\ ReadCapacity \in Nat \ {0} /\ MaxLines \in Nat /\ MaxBytes \in Nat /\ MaxConnects \in Nat

\* What a server sends ends in CR LF, line by line.
ASSUME LinesAssumption ==
  \A line \in Lines :
    Len(line) >= 2 /\ line[Len(line) - 1] = "\r" /\ line[Len(line)] = "\n"

VARIABLES
  pc,         \* in rp_event_poll ("poll"), in the inner loop ("drain"), or at an end
  connected,  \* evs.connected
  link,       \* is there a connection?
  unread,     \* received by the kernel, not read
  read_buf,   \* the ring, as a queue
  lines,      \* how many lines the server has sent
  stream,     \* all bytes ever read
  handled,    \* every message rp_irc_handle was called for
  logins,     \* for each login, how much of stream had been parsed
  sent,       \* everything written to a socket
  full        \* has write_buf ever been full?

loop == <<pc, connected>>
net == <<link, unread, lines>>
history == <<stream, handled, logins, sent, full>>
vars == <<irc, loop, net, read_buf, history>>

Parsed == Len(stream) - Len(read_buf)

\* The n first of a queue, and the rest.
Upto(queue, n) == SubSeq(queue, 1, n)
From(queue, n) == SubSeq(queue, n + 1, Len(queue))

NoteFull == full' = (full \/ Len(write_buf') >= WriteCapacity)

-----------------------------------------------------------------------------
(* The server, and rp_event_poll.                                           *)

\* What arrives while the program is elsewhere it finds at the next poll.
ServerSends(line) ==
  /\ pc = "poll" /\ link
  /\ lines < MaxLines /\ Len(stream) + Len(unread) + Len(line) <= MaxBytes
  /\ unread' = unread \o line
  /\ lines' = lines + 1
  /\ UNCHANGED <<irc, loop, link, read_buf, history>>

Connect ==
  /\ pc = "poll" /\ ~link
  /\ Len(logins) < MaxConnects
  /\ link' = TRUE
  /\ connected' = TRUE
  /\ UNCHANGED <<irc, pc, unread, lines, read_buf, history>>

\* The rings, the parser and the message it is in stay as they are.
Disconnect ==
  /\ pc = "poll" /\ link /\ ~connected
  /\ link' = FALSE
  /\ unread' = <<>>
  /\ UNCHANGED <<irc, loop, lines, read_buf, history>>

\* Some of what there is, or all.
Amounts(sizes, all) == {n \in sizes \cup {all} : 0 < n /\ n <= all}

Readable == Lesser(Len(unread), ReadCapacity - Len(read_buf))

ReadSome(n) ==
  /\ pc = "poll" /\ link
  /\ read_buf' = read_buf \o Upto(unread, n)
  /\ unread' = From(unread, n)
  /\ stream' = stream \o Upto(unread, n)
  /\ UNCHANGED <<irc, loop, link, lines, handled, logins, sent, full>>

WriteSome(n) ==
  /\ pc = "poll" /\ link
  /\ sent' = sent \o Upto(write_buf, n)
  /\ write_buf' = From(write_buf, n)
  /\ UNCHANGED <<msg, cs, loop, net, read_buf, stream, handled, logins, full>>

-----------------------------------------------------------------------------
(* main_loop after the poll.                                                *)

\* SIGINT is looked at after the login.
LeavePoll ==
  /\ pc = "poll"
  /\ pc' \in {"drain", "stopped"}
  /\ connected' = FALSE
  /\ IF connected
       THEN /\ OnConnect
            /\ NoteFull
            /\ logins' = Append(logins, Parsed)
       ELSE UNCHANGED <<irc, full, logins>>
  /\ UNCHANGED <<net, read_buf, stream, handled, sent>>

\* rp_event_poll fails or aborts.
Stop ==
  /\ pc = "poll"
  /\ pc' = "stopped"
  /\ UNCHANGED <<irc, connected, net, read_buf, history>>

\* What a handler, or a later user of msg, finds in it.
Shown(m) ==
  [code |-> SeenCode(m), params |-> m.params,
   servername |-> IF m.is_servername THEN <<Text(m, "servername")>> ELSE <<>>,
   hostmask |-> IF m.is_hostmask THEN <<Text(m, "nick"), Text(m, "user"), Text(m, "host")>>
                                 ELSE <<>>]

\* Mutant: the end of the ring is taken for its last byte.
WindowShort == Upto(read_buf, Lesser(Len(read_buf), ReadCapacity - 1 - (Parsed % ReadCapacity)))

\* rp_fifo_raw_r: the head of the ring is where the bytes parsed so far have taken it.
Window == Upto(read_buf, Lesser(Len(read_buf), ReadCapacity - (Parsed % ReadCapacity)))

\* One turn of the inner loop.
ParseWindow ==
  /\ pc = "drain" /\ read_buf # <<>>
  /\ \E r \in {Parse(msg, cs, Window)} :
       /\ ~Astray(r.msg)
       /\ ParseAndHandle(r)
       /\ read_buf' = From(read_buf, r.len)
       /\ handled' = IF Complete(r) THEN Append(handled, Shown(r.msg)) ELSE handled
  /\ NoteFull
  /\ UNCHANGED <<loop, net, stream, logins, sent>>

\* A text of the message runs into the handlers behind it.
RunAstray ==
  /\ pc = "drain" /\ read_buf # <<>>
  /\ Astray(Parse(msg, cs, Window).msg)
  /\ pc' = "undefined"
  /\ UNCHANGED <<irc, connected, net, read_buf, history>>

Drained ==
  /\ pc = "drain" /\ read_buf = <<>>
  /\ pc' = "poll"
  /\ UNCHANGED <<irc, connected, net, read_buf, history>>

Drain == ParseWindow \/ RunAstray \/ Drained

Halted == pc \in {"stopped", "undefined"} /\ UNCHANGED vars

\* The pool does not clear what it hands out: if ehash->ev is not NULL by luck,
\* LL_APPEND follows it anywhere.
Init ==
  /\ pc \in {"poll", "undefined"}
  /\ IrcInit
  /\ connected = FALSE /\ link = FALSE
  /\ unread = <<>> /\ read_buf = <<>> /\ lines = 0
  /\ stream = <<>> /\ handled = <<>> /\ logins = <<>> /\ sent = <<>> /\ full = FALSE

Next ==
  \/ \E line \in Lines : ServerSends(line)
  \/ Connect \/ Disconnect
  \/ \E n \in Amounts(ReadSizes, Readable) : ReadSome(n)
  \/ \E n \in Amounts(WriteSizes, Len(write_buf)) : WriteSome(n)
  \/ LeavePoll \/ Stop
  \/ Drain
  \/ Halted

\* The inner loop runs on.
Spec == Init /\ [][Next]_vars /\ WF_vars(Drain)

-----------------------------------------------------------------------------

\* The rings never hold more than their capacity, and neither does a message
\* point outside its prefix.
TypeOK ==
  /\ pc \in {"poll", "drain", "stopped", "undefined"}
  /\ connected \in BOOLEAN /\ link \in BOOLEAN /\ full \in BOOLEAN
  /\ \A q \in {unread, read_buf, stream, msg.prefix, msg.code, msg.params} : q \in Seq(Byte)
  /\ Len(read_buf) <= ReadCapacity /\ Len(write_buf) <= WriteCapacity
  /\ SlicesInPrefix(msg)
  /\ cs \subseteq Position

\* Where the lines of a stream end, those lines, and how many of them at the
\* start are messages.
Ends(s) == Ascending({k \in 2 .. Len(s) : s[k - 1] = "\r" /\ s[k] = "\n"})
LineOf(s, k) == LET ends == Ends(s) IN
  SubSeq(s, (IF k = 1 THEN 0 ELSE ends[k - 1]) + 1, ends[k] - 2)
Legal(s) ==
  LET bad == {k \in DOMAIN Ends(s) : ~IsMessage(LineOf(s, k))} IN
  IF bad = {} THEN Len(Ends(s)) ELSE Min(bad) - 1

Meanings(s) ==
  LET upto[k \in 0 .. Legal(s)] ==
        IF k = 0 THEN <<>>
        ELSE Append(upto[k - 1],
                    Meaning(LineOf(s, k), IF k = 1 THEN <<>> ELSE Last(upto[k - 1]).params))
  IN  upto[Legal(s)]

(***************************************************************************)
(* However the input was cut by reads and by the end of the ring, the       *)
(* messages handled are the lines of the stream up to the first that is not *)
(* a message, each with the prefix, code and parameters Meaning gives it:   *)
(* its own as long as each fits its room; where one does not, the bytes     *)
(* past its room are those of the text put there last; and a message        *)
(* without parameters has those of the message before.  On the first        *)
(* connection the parser is never stuck unless the server sent such a line; *)
(* a later connection starts in the middle of what the one before left.     *)
(***************************************************************************)
MessagesRight ==
  /\ handled = Meanings(Upto(stream, Parsed))
  /\ cs = {} /\ Len(logins) <= 1 /\ link =>
       LET all == stream \o unread IN Legal(all) < Len(Ends(all))

\* What a message calls for.
Answer(m) ==
  CASE m.code = PING -> <<Units(<<<<"PONG ">>, m.params, <<"\r\n">>>>)>>
    [] m.code = AUTH -> <<<<<<"JOIN ">>, <<Channel>>, <<"\r\n">>>>>>
    [] OTHER -> <<>>

\* What the k-th byte parsed makes due: the answer to the message it ends, and
\* the logins before the next.
DueAt(k, ends, meanings) ==
  LET ended == {j \in DOMAIN meanings : ends[j] = k} IN
  (IF ended = {} THEN <<>> ELSE Answer(meanings[Min(ended)]))
  \o [j \in 1 .. Cardinality({l \in DOMAIN logins : logins[l] = k}) |-> Hello]

DueUpto(n, ends, meanings) ==
  LET upto[k \in -1 .. n] ==
        IF k = -1 THEN <<>> ELSE upto[k - 1] \o DueAt(k, ends, meanings)
  IN  upto[n]

\* Every login and every answer due so far, in order.
Due ==
  LET s == Upto(stream, Parsed) IN DueUpto(Parsed, Ends(s), Meanings(s))

\* Is out all of due in order, each whole or, if cut is allowed, up to its end?
Concatenates(out, due, cut) ==
  LET \* How far the first k may reach into out.
      reach[k \in 0 .. Len(due)] ==
        IF k = 0 THEN {0}
        ELSE UNION {{p + n : n \in {i \in (IF cut THEN 0 ELSE Len(due[k])) .. Lesser(Len(due[k]), Len(out) - p) :
                                      SubSeq(out, p + 1, p + i) = Upto(due[k], i)}} :
                    p \in reach[k - 1]}
  IN  Len(out) \in reach[Len(due)]

(***************************************************************************)
(* What the bot has put on the wire, over all its connections, and what is  *)
(* still in write_buf, is the login of every connection and one answer per  *)
(* message whose code is found to be PING or 004, in the order of their     *)
(* causes, a PONG with the parameters Meaning gives its PING (stale ones, or *)
(* bytes of a prefix that has run on, where it says so).  Each is whole as  *)
(* long as write_buf was never full; after that each may have lost its end. *)
(***************************************************************************)
OutputExpected == Concatenates(sent \o write_buf, Due, full)

\* The inner loop comes to an end, and with it SIGINT and the connection get
\* their turn, unless the parser is in its error state.
DrainEnds == pc = "drain" ~> pc # "drain" \/ cs = {}
=============================================================================
