-------------------------------- MODULE RpIrc --------------------------------
(***************************************************************************)
(* The handlers of src/rp_irc.c: which handler a message's code selects and *)
(* what it puts into write_buf.  Each argument of rp_fifo_putstr or         *)
(* rp_fifo_putstring is one unit of that buffer; where in it a text is cut  *)
(* does not matter.                                                         *)
(***************************************************************************)
EXTENDS RpIrcsm

CONSTANTS
  MyNick, MyLogin, MyName,  \* cfg->identity
  Channel,                  \* cfg->channels->name, of the first channel
  WriteCapacity             \* write_buf->capacity, in units

ASSUME IrcAssumption == WriteCapacity \in Nat \ {0}

VARIABLES
  msg,        \* ctx->msg
  cs,         \* ctx->cs, as the set of positions it stands for
  write_buf   \* the ring, as the queue ByteQueue promises

irc == <<msg, cs, write_buf>>

PING == <<"P", "I", "N", "G">>
AUTH == <<"0", "0", "4">>

Lesser(m, n) == IF m < n THEN m ELSE n

\* An empty text takes no room.
Units(texts) ==
  LET kept[k \in 0 .. Len(texts)] ==
        IF k = 0 THEN <<>>
        ELSE IF texts[k] = <<>> THEN kept[k - 1] ELSE Append(kept[k - 1], texts[k])
  IN  kept[Len(texts)]

\* Mutant: a put does not look at the room there is.
PutAll(texts) == write_buf' = write_buf \o Units(texts)

\* Several rp_fifo_put in a row: once one of them is cut there is no room for
\* the next.
Put(texts) ==
  LET units == Units(texts)
      room == WriteCapacity - Len(write_buf)
  IN
  write_buf' = write_buf \o SubSeq(units, 1, Lesser(Len(units), room))

-----------------------------------------------------------------------------
(* The handlers, by name, and the table of ctx->hash.                       *)

\* Mutant: the line is not ended.
HandlePingUnended(m) == <<<<"PONG ">>, m.params>>

HandlePing(m) == <<<<"PONG ">>, m.params, <<"\r\n">>>>
HandleAuth(m) == <<<<"JOIN ">>, <<Channel>>, <<"\r\n">>>>

HandlerOutput(handler, m) == IF handler = "ping" THEN HandlePing(m) ELSE HandleAuth(m)

\* A new entry is linked into the hash, an old one gets one more handler.
RegisterHandler(hash, cmd, handler) ==
  LET before(c) == IF c \in DOMAIN hash THEN hash[c] ELSE <<>> IN
  [c \in DOMAIN hash \cup {cmd} |->
     IF c = cmd THEN Append(before(c), handler) ELSE before(c)]

NoHandlers == [cmd \in {} |-> <<>>]
Handlers == RegisterHandler(RegisterHandler(NoHandlers, PING, "ping"), AUTH, "auth")

\* rp_irc_handle: every handler of the code, in the order of registration.
Output(m) ==
  LET code == SeenCode(m)
      list == IF code \in DOMAIN Handlers THEN Handlers[code] ELSE <<>>
      upto[k \in 0 .. Len(list)] ==
        IF k = 0 THEN <<>> ELSE upto[k - 1] \o HandlerOutput(list[k], m)
  IN  upto[Len(list)]

Handle(m) == Put(Output(m))

\* rp_irc_onconnect.
Hello ==
  <<<<"NICK ">>, <<MyNick>>, <<"\r\nUSER ">>, <<MyLogin>>, <<" 8 * :">>, <<MyName>>, <<"\r\n">>>>

OnConnect == Put(Hello) /\ UNCHANGED <<msg, cs>>

\* rp_irc_parse and, if it completes a message, rp_irc_handle.
ParseAndHandle(r) ==
  /\ msg' = r.msg
  /\ cs' = Saved(r)
  /\ IF Complete(r) THEN Handle(r.msg) ELSE UNCHANGED write_buf

\* rp_irc_init.
IrcInit ==
  /\ msg = EmptyMsg
  /\ cs = {Start}
  /\ write_buf = <<>>
=============================================================================
