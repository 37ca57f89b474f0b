# rpbot in TLA+

rpbot is an IRC bot in C: one thread, one non-blocking socket, edge-triggered
epoll, glibc's asynchronous resolver announced by a real-time signal, and two
ring buffers between the socket and a Ragel parser.  This directory models it,
checks the models with TLC and proves the central theorems with TLAPS.  Paths
below are relative to the repository.

## 1. Inventory

| component | state | operations | talks to |
|---|---|---|---|
| ring buffer `src/util/rp_fifo.[ch]` | `head`, `tail`, `count`, `buffer[]` | init, put, get, raw_r/consume, raw_w/reserve | called by everything below |
| event system `src/rp_event.c` | connection `state`, `sock_fd`, address list `res0`/`res`, gaicb `host`, two deadlines, `read_full`/`write_full` | `rp_event_poll` and its handlers | kernel (epoll, sockets, signalfd), resolver thread, both rings |
| main loop `src/rpbot.c` | `rp_current_msec`, `struct rp_events` of one turn | `main_loop`, `rp_updatetime`, `rp_init` | polls the event system, calls the IRC layer, drains `read_buf` |
| IRC handlers `src/rp_irc.c` | handler hash, `msg`, parser state `cs` | register, handle, onconnect, PING and 004 handlers | puts lines into `write_buf` |
| parser `src/ircsm/rp_ircsm.rl` | `cs`, fields of `rp_ircsm_msg` | `rp_ircsm_parse` on any chunk | fed from `read_buf` |
| configuration `src/rp_config.c` | a state enum, the item being filled | ten yajl callbacks, load | fills `struct rp_config` from the pool |
| pool allocator `src/util/rp_palloc.c` | chain of blocks, `current`, large list | create, palloc, pnalloc, pfree, pmemalign, reset, destroy | everything allocates from one pool |
| slab allocator `src/util/rp_slab.c` | page table, free list, slot lists | alloc, free | nobody (compiled, unused) |
| `rp_string.c`, `rp_os.c`, `rp_options.c` | none worth naming | tokens, page size, argv | |
| `uthash.h`, `utlist.h` | vendored | | |

What is hard here is not threads (there is one) but what may happen between two
system calls of that thread: the peer closes, resets, sends, acknowledges; the
resolver finishes; SIGINT arrives; time passes.  Edge-triggered epoll makes a
missed edge permanent, and the program keeps descriptors, lists and deadlines
alive over several turns of its loop.

What makes each component correct:

* ring buffer: no caller can tell it from a bounded queue of bytes; its raw
  windows never expose a byte that is not queued nor offer one that is; its
  loops end.
* event system: the descriptor, the state, the list and the pending events
  agree; every address of a lookup is tried once and in order; no edge is lost;
  the client always comes back; SIGINT stops it (the code keeps to this as long as
  the parser refuses no line, see section 4).
* main loop: it logs in on a live connection only; it drains all input.
* IRC handlers: one answer per PING and 004 and one login per connection, in order,
  whole while there is room; a message is answered with what its buffers hold, which
  may be the parameters of the message before.
* parser: the messages are those of the grammar and do not depend on how the
  input was cut; each shows its own prefix, code and parameters where they fit their
  buffers, and a known mixture where they do not.
* configuration: what is loaded is what the document says, at the place where
  it says it; a document of the expected shape is never refused.
* pool: live blocks are disjoint and inside their chunk; large blocks are freed
  exactly once; a failing allocation changes nothing.
* slab: every page has one owner; slot lists hold exactly the pages with room; what
  callers hold is what the page table has as busy, as long as they free nothing that
  has become someone else's.

## 2. Plan

Ordered by how much of the bot depends on it.  All modules and proofs of
the plan exist.

| module | what | abstract specification | proof |
|---|---|---|---|
| `RpFifo` | ring buffer | `ByteQueue` | done: invariants, refinement |
| `RpEvent` | event system, main loop, kernel | `ConnLifecycle` | done: invariants, refinement |
| `RpEventClaims` | what comments promise and the code does not do | | refuted by runs |
| `RpPalloc` | blocks, `current`, large list, failing malloc | | done: disjointness, large list |
| `RpIrcsm`, `RpIrc`, `RpBot` | parser, handlers, and their composition with both rings and the connection | `RpIrcGrammar`: lines in; the answers due: lines out | done: invariants, independence of how the input is cut, the grammar, what is handled, what is put out |
| `RpConfig` | yajl callbacks, `rp_init` | the document's nesting and meaning | done: invariants, action property |
| `RpSlab` | page table, bitmaps and slot lists | the regions callers hold | done: all five invariants |

`RpBot` takes its rings as the queues `RpFifo` is proved to implement and its connection as
what `RpEvent` is proved to keep to: a login is only written on a live connection, and
bytes move only while there is one.

## 3. Modules

**`RpFifo`** — pointers are offsets into `buffer[]`.  `Put`, `Get`: the call up
to its loop; `PutCopy`, `GetCopy`: one iteration; `RawWrite`, `RawRead`: window,
system call or parse, then `rp_fifo_reserve` / `rp_fifo_consume`, the way
`do_read`, `do_write` and `main_loop` use them.  `src`, `want`, `dest` are the
locals of the running call.  **`ByteQueue`** is a bounded queue that drops what
does not fit.  The refinement maps a running call to one that has already
happened.

**`RpEvent`** — `rp_event.c` driven by `main_loop`.  Each system call is a step
of its own and what runs between two system calls is one step, so the
environment acts at every point where the real one can.  `pc` is the place in
the code:

| `pc` | action | code |
|---|---|---|
| `top` | `LoopTop` | memset of `evs`, `rp_updatetime`, test of the state |
| `flush_*` | `FlushRead`, `DoRead`, `FlushWrite`, `DoWrite`, `FlushCtl` | `rp_tryflush` |
| `wait` | `EpollWait`, `EpollFails` | `epoll_wait` and its errors |
| `dispatch` | `SockEvent`, `SigEvent`, `OtherEvent`, then `Switch` | the event loop, then the switch on the state |
| `sock_reading`, `sock_out`, `sock_writing` | `DoRead`, `SockOut`, `DoWrite` | the rest of `handle_sock_event` |
| `main`, `parse` | `HandleEvents`, `ParseInput` | `main_loop` after the poll |

`exited`, `aborted`, `undefined` (a freed list is walked) and `wedged` (the drain
loop of `main_loop` spins after a parse error) are the ways to stop.

The kernel is external and modelled from its use: a socket is its link state, the
bytes in both queues, whether the peer has closed, and its epoll interest;
`ready` is epoll's ready list.  An edge puts a descriptor on the list,
`EPOLL_CTL_ADD`/`MOD` does if it is ready (`Armed`), and `epoll_wait` empties the list and
reports what poll says at that moment (`EventsOf`).  Events of one batch are
handled in any order.  `Faults` says what may fail: `getaddrinfo_a`, the lookup,
`socket`, `connect` (or `fcntl`), `epoll_wait` with EINTR or otherwise, the
parse.

Abstractions, all in `RpEvent`:

* Buffers are byte counts.  `RpFifo`'s `RawWindows` is what makes this right:
  a window is never empty while there is room or data, so a system call moves
  between 1 byte and everything, which is what `ReadBytes` and `WriteBytes` allow.
* Deadlines are the ticks left, 0 once passed: the code only compares them with
  `rp_current_msec`.  The clock does not go backwards (`gettimeofday` may).
* `HANGUP` stands for any of EPOLLRDHUP, EPOLLERR, EPOLLHUP: the code treats
  them alike.  A reset socket still delivers what it had received before its error.
* `MAX_EVENTS` (64) exceeds the two descriptors that are ever registered with an
  event the context knows.
* A lookup that fails leaves `ar_result` alone, as glibc does; POSIX has no say.
* At least one server is configured; the handlers put any number of bytes up to
  `MaxReply` for one batch of input; `rp_irc_onconnect` puts `HelloLen`.

**`ConnLifecycle`** — what all this promises of one connection: look up, try the
addresses in order, be connected, and wait `RetryDelay` after every failure.
`left` is `res0 - res`, `delay` is `next_conn` while disconnected.

**`RpEventClaims`** — statements made in comments which the code breaks.  Two more are properties of
`RpEvent` itself, `LookupPickedUp` and `InterruptStops`, under faults the passing run leaves out.

**`RpPalloc`** — one pool.  The chain from `pool` on is the sequence `blocks` of
`d.last` (an offset) and `d.failed`; `current` is a position in it, `large` the `alloc`
fields of the large list.  `heap` is what malloc has handed out and not got back,
`used` every region returned since the pool was created or reset, which the code does not
record.  `Palloc` is `rp_palloc`, `rp_pnalloc` and `rp_pcalloc` of a small size
(`UseBlock` or, when no block from `current` on has room, `NewBlock` with the counting of
`rp_palloc_block`); `PallocLarge`, `Pmemalign`, `Pfree`, `CreatePool`, `ResetPool`
and `DestroyPool` are the functions of those names.  An entry of the large list is itself a small request
(`Link`), and if that fails the chunk goes back (`LinkFails`).  A call whose first
system allocation fails changes nothing and is a stutter.  Header sizes and alignment are those
of the 64-bit build.  The size of a large chunk does not matter and is left out, as
is what is written into a region.  malloc is external: it returns any free member of `Chunk`.
`ResetPool` sets `d.last` of every block to the header of the first, as the code does,
which wastes 24 bytes of each other block.

**`RpSlab`** — one pool of pages.  `pool` is the page table with the heads of the lists, which
in the code are the same structure: a node is a page number, the head of a slot, or
`pool->free`.  `slab` is the word of that name with its bits, `type` the low bits of
`prev`, `bitmap` what a page of small chunks keeps in its own first chunks.  `live` is what callers
hold; the code does not record it.  `Alloc` is `rp_slab_alloc`: a run of pages (`AllocRun`,
through `FirstFit`, `Split` and `TakeRun` of `rp_slab_alloc_pages`), a chunk of the first page
in the slot (`AllocChunk`), or a new page (`AllocNewPage`).  `Free` is `rp_slab_free`: `FreeChunk`, `FreeRun`
or `FreeRefused`.  Callers pass a region they hold (`FreeHeld`), one they gave back while its memory is
nobody's (`FreeAgain`; `stale` remembers up to `MaxStale` of them), or an address inside one they hold (`FreeInside`).
Other addresses are not modelled, because `rp_slab_free` does not protect anyone from them: a second free after the memory was handed
out again takes it from its new holder, or, if the page has been cut into small chunks meanwhile, clears a bit of the page's own
bitmap (line 354), which the next allocation then hands out; `pool->end` passes line 318 and has line 324 read behind the
page table.  `SlabAssumption` also asks that the reserved bits of a bitmap fit an `int`, in which line 261 computes them.  The three classes (`SMALL`, `EXACT`, `BIG`) differ only in where the
busy bits are, so `Busy`, `SetBusy` and `ClearBusy` say that once.  The `do`-loops of the code go on to
`page->next` when a page is full; `SlotsHaveRoom` shows that this never happens, and the model does not
have it.  Word width, page size and headers are constants; the formulas of `rp_slab_init` are the code's.  Shifts are powers of
two (`Pow2`, a recursive function the proofs can reason about), masks are remainders by them.

**`RpConfig`** — `rp_init` up to `main_loop`.  yajl is external: it reports the tokens of any well-nested
document, in any order, and may find a syntax error or the end of the file at any
token.  `path`, `key` and `more` are the document's nesting, known to yajl only; `state`, `server`, `heap`
and `cfg` are the program's.  Each callback is an action (`ReadString`, `StartMap`, `EndMap`,
`MapKey`, `StartArray`, `EndArray`; `ReadScalar` for the values without one).  `said` is what the document
means when it is read by its nesting, for as long as it has the shape of `rpbot.json.example`
(`shaped`), with items in any order and repeated.  Allocations are used without a look at their result:
`NewServer` may leave `server` NULL, and a host, a port or the end of the item then writes through it (`WriteToNull`);
every other failure ends in `undefined` at once (`OutOfMemory`).  `starved` records that memory has run out.  `Matches` is the `strncmp` over the length of the key in
the document.  Strings are values; `Null` is a string never set.

**`RpIrcsm`** — Ragel makes a deterministic machine of the grammar; the model keeps it as the set of
positions in the grammar (`cs`), with one `Edge` per byte class and the actions the grammar embeds in it.
`Perform` is the effect of all actions one byte triggers, in Ragel's order: entering before
others, outer last among the others.  `Parse` is `rp_ircsm_parse` on one window; the byte that no edge takes
is not consumed and leaves `cs = {}`, the error state.  Bytes are one or two members of each class the
grammar distinguishes.  The counts of the grammar (15 more bytes of a nickname, 14 words, 8 groups, 5 zeros)
are constants.

The buffers of prefix, code and parameters (64, 32 and 512 bytes, here `PrefixRoom`, `CodeRoom` and `ParamsRoom`) lie
one after another in the pool, and no action tests where it puts a byte.  `msg.prefix`, `msg.code` and `msg.params` are the bytes put
into each; `Over` is what is left of a text when another was put over a part of it, `SeenPrefix` and `SeenCode`
what a reader finds.  The parameters of the message before may still be in use, so `Perform` keeps `msg.params` as it would be found.
A byte behind all three buffers (`Astray`) hits what the pool gave out next, the handler table: `RpBot` is `undefined`
from there on (`RunAstray`).

**`RpIrcGrammar`** reads the same grammar without a machine: `IsMessage` is a condition
on a whole line, `Meaning` what such a line shows a handler, given the sizes of the buffers and the parameters of the
message before.  It shares the byte classes, counts and buffers with `RpIrcsm` and
nothing else; `MCRpBot` assumes, and TLC evaluates, that both accept the same lines
(`MachineIsGrammar`, all texts up to three bytes in six contexts), and the theorem `AcceptsTheGrammar` of every
text.

A slice of the prefix keeps its offsets when the next message has the other kind of prefix, or none; it may
then point past the end of a shorter prefix.  `SlicesInPrefix` is what holds, and what the handlers
need: the slices of the kind of prefix the message has lie inside the bytes put into it. In a prefix that is longer than
its buffer they do not lie in the buffer, whatever `rp_ircsm.h:8-10` says; `Meaning` says what is found there then.

**`RpIrc`** — the handlers of `rp_irc.c`.  `write_buf` is a queue of texts: each argument of
`rp_fifo_putstr` and `rp_fifo_putstring` is one unit of its capacity, so a cut falls between texts; where
inside a text it falls in the code does not matter to what is stated.

**`RpBot`** — the bot as its server sees it: `main_loop` around a connection that comes up, moves bytes
both ways and goes down.  `Window` is where the ring's end cuts `read_buf`.  `stream`, `handled`, `logins`, `sent` and
`full` record what happened; the code has none of them.  The server sends whole lines, each with CR LF at its end
(`LinesAssumption`): what becomes of one that is cut off by the end of a connection is modelled, by `Disconnect`.  `Init` may be `undefined`: `register_handler` reads
`ehash->ev` before it was written.

`MCRpFifo`, `MCRpEvent`, `MCRpPalloc`, `MCRpSlab`, `MCRpConfig` and `MCRpBot` instantiate the modules for TLC.  Definitions preceded
by a comment `Mutant:` are wrong versions of the definition after them, used to show that the
properties can fail; nothing in the specifications refers to them.

## 4. Runs

| run | bounds | shows |
|---|---|---|
| `fifo` | ring of 3, two byte values, strings up to 4 | `TypeOK`, `TailFollowsHead`, `RawWindows`, `ImplementsQueue`, `CallsReturn` |
| `event_connection` | 2 descriptors, 2 addresses, rings of 1, delays of 2 ticks, all faults | `SocketOwned`, `LoginOnLiveConnection`, `OneLookup`, `ListLifetime`, `FollowsLifecycle` |
| `event_progress` | 1 descriptor, 2 addresses, rings and kernel queues of 2, `connect` fails | `TypeOK`, `LoopsHaveWork`, `InputRead`, `OutputSent`, `RetriesForever`, `LookupPickedUp`, `AttemptEnds`, `InterruptStops` |
| `pool` | blocks of 88 bytes, at most 4; requests of 15 and 32; 2 chunks; both limits 0 | `TypeOK`, `RegionsDisjoint`, `LargeOwned`, `TiredSkipped` |
| `slab` | 3 pages of 16 bytes, words of 4 bits, chunks from 2 bytes; requests of 2, 4, 7, 16 and 20; 6 regions, 1 address given back twice | `TypeOK`, `ListsLinked`, `PagesConserved`, `SlotsHaveRoom`, `BusyIsLive` |
| `config` | 2 strings stored, of 2 values; nesting of 4; 2 servers | `TypeOK`, `FollowsDocument`, `ShapedNeverRefused`, `ServersSound`, `StoredUnderOwnKey` |
| `bot` | 2 of 11 lines, 22 bytes in all; 2 connections; `read_buf` of 7 bytes, `write_buf` of 8 texts; nicknames of 4, 2 words, 3 groups; buffers of 2, 4 and 10 bytes | `TypeOK`, `MessagesRight`, `OutputExpected`, `DrainEnds` |
| `claim_orphan_socket` | 2 descriptors, 2 addresses | `NoOrphanSocket` is violated |
| `claim_peer_loss` | the same | `PeerLossReported` is violated |
| `claim_freed_list` | the same, lookups may fail | `NoFreedList` is violated |
| `claim_lookup` | 1 descriptor, `getaddrinfo_a` may fail | `LookupPickedUp` is violated |
| `claim_interrupt` | 1 descriptor, 1 address, the server may send an illegal line | `InterruptStops` is violated |

Why the bounds are enough.  A ring of 3 has every relation of head, tail and end:
empty, full, contiguous, wrapped with one or two bytes on either side; a string of 4 exceeds it.
Rings and kernel queues of 2 can be empty, partly and completely full, and one
call can move less than all, which is what the flags and the edges react to.
Two descriptors are needed for a socket left behind next to the current one
(and, with both taken, for `socket()` to fail by itself); two addresses for an
attempt that fails in the middle; delays of 2 ticks against steps of at most 1 for a deadline that
is set, running and passed.  A first block of 88 bytes has exactly 32 after its header, so a request fills
it or leaves an unaligned rest; 16-byte list entries come between.  The 4 of
`rp_palloc_block` and the 3 of `rp_palloc_large` are constants of the module; at 0,
four blocks are enough for one to be given up before the end of the chain and three entries for a vacant one
behind the scan.  The safety theorems below hold for all bounds of their modules.

Words of 4 bits and pages of 16 bytes keep the relations of the code: chunks of 2 bytes need
a bitmap of two words, which lies in the page (SMALL), chunks of 4 bytes are exactly one word (EXACT), chunks of 8 bytes
take the upper half of it (BIG); 16 and 20 bytes are runs of one and two pages.  The pool
ends inside a page, so that the table has to be corrected.  Three pages split, leave a rest, and run
out; six regions fill a page of any class (small: 8 chunks, 2 of them the bitmap).  One remembered address is enough for a repeated free: its
effect is on the lists, whatever else was given back.  A nesting of 4 is the deepest the example
has; two strings are enough to fill two fields of one item or one of each of two; the two values are
interchangeable.  The eleven lines of `bot` have every kind of prefix, a code of either kind,
no parameters, a last parameter with and without colon, and the largest counts; two are just outside the grammar or end in
a way that is easy to get wrong.  With buffers of 2, 4 and 10 bytes there are prefixes that fit, run into the code and run into the
parameters, a code that runs into the parameters, a PING without parameters after each of them, and parameters that run out
of the message.  A `read_buf` of 7 cuts every line, at varying places as the head of the
ring moves.  A `write_buf` of 8 holds one login of 7 texts but not the PONG after it.
Reads move 3 bytes or all there is, writes all there is.

Fairness (`RpEvent!Fairness`), and why the code and its surroundings justify it:
the thread always runs on (`WF(Program)`: there is no lock to wait for and
`epoll_wait` has a timeout of 500 ms); real time passes between turns of the loop
(`SF` on `LoopTop` with a positive step: strong because the loop is at `top` only now and
then); glibc finishes a lookup it has accepted; a live peer's TCP takes what was sent.
`RpBot` assumes of the drain loop only that the thread runs on (`WF(Drain)`), for the same reason.
Nothing is assumed of the server's behaviour, and EINTR is not among the
faults of the liveness runs: an `epoll_wait` interrupted for ever would starve
the switch on the state.

`InterruptStops` ends in `exited`, `aborted` or `undefined`, not in `wedged`; the passing run has no illegal lines among its
faults, `claim_interrupt` has.

Deadlock is checked in every run: `Halted` is the only way to stay where one is.

What the violation runs show:

* `NoOrphanSocket`: the timeout of an attempt overwrites `sock_fd`
  (`rp_event.c:242`) without closing it; the list ends, `rp_disconnect` closes the
  newest socket only.
* `PeerLossReported`: the server closes after `epoll_wait` returned the input
  event; `do_read` reads the bytes, then 0, and aborts (`rp_event.c:314`).
* `NoFreedList`: lookup, attempt, disconnect (the list is freed), failed lookup: the
  signal handler takes the freed list again (`rp_event.c:428`).
* `LookupPickedUp` without the assumption that `getaddrinfo_a` accepts: its
  result is ignored (`rp_event.c:205`) and the client stays in RESOLVING.
* `InterruptStops` with an illegal line: the parser consumes nothing any more, the
  loop of `rpbot.c:77-86` spins, and SIGINT, which only `rp_event_poll` reads, stays pending.

Seen while reading, with no run of its own: the branch that would drop EPOLLOUT
(`rp_event.c:480`) is dead, because `ctl_event.events` never contains EPOLLOUT there;
a failed attempt sets `next_conn_msec` but the next address is tried at once.
On a reconnect the parser goes on in the middle of the old connection's line, and what
`write_buf` still held is sent to the new server before the login.  A PING without parameters is
answered with those of the message before.  A truncated configuration file is accepted, and so is any prefix of a key's
name.  A page run that was given back is never joined with its neighbours, and giving it back twice before its memory is
handed out again moves it in the free list and takes nothing from anyone (`BusyIsLive`); a second free after that
does take it from its new holder.  A prefix of more than 64 bytes, which fits in a line and is legal, has its end in the buffer of the code, and the
code is written over it; one of more than 96 leaves its end for the answer to a PING without parameters.

## 5. Proofs

**`RpFifo_proofs`**, for every capacity, set of bytes and set of strings
(`FifoAssumption`).  The inductive invariant `RingOK` is `TypeOK`, `TailFollowsHead`
and `OneCall`: a call is in one of its loops at most.  `TypeOK` says too that what a running call has still to copy fits the room or the
data; without that, a step of `PutCopy` could overrun the count, and without the
second, `BytesFree` and the pointers are unrelated.  `RawWindows` follows from it.
For the refinement, lemmas say that the content of the ring is a sequence, that a raw
window is a prefix of it, that `Consume` drops and `Reserve` appends, each through the
wrap-around; every action is then a `Put`, a `Take` or a stutter of `ByteQueue`.

**`RpEvent_proofs`**, for any number of descriptors, addresses, bytes, ticks and any set of
faults (`EventAssumption`).  The inductive invariant `EventInv` adds to the
safety properties what each place in the code knows: rp_tryflush runs in CONNECTED
only (`AtLocation`); a reported socket is past `connect()` (`ReportedIsUp`), so a hang-up
is never taken in RESOLVED; a resolved address has no open socket yet
(`ResolvedHoldsNone`, a part of `SocketOwned`), so nothing of a failed attempt survives under its old
number; `connected` is reported only after the socket's event of this batch was
used up (`EventsFresh`), so no later hang-up of the same batch can follow it; the list in use
is the one the gaicb holds (`ListHeld`).  There is one lemma per action.
`EventFollowsLifecycle` then maps `LoopTop` to `Tick`, `SockEvent` to `Lost`, `SockOut`
to `Up`, `SigEvent` to `Answer`, `Switch` to `LookUp`, `Try` or `GiveUp`, everything else
to a stutter.

**`RpPalloc_proofs`**, for any block and page size, limits, chunks and requests
(`PoolAssumption`: the block holds its header and two list entries, as
`RP_MIN_POOL_SIZE` asks, and ends aligned).  The inductive invariant `PoolInv` adds to the four
properties `FailedFalls`: from `current` on, `d.failed` never rises along the chain.
Without it `current` could jump over a fresh block because a later one had refused too often, and
`TiredSkipped` would break.

**`RpSlab_proofs`**, for every width of the word, size of a page and smallest chunk, every pool that has a page and
fewer than a word can count, any requests, and the frees described in section 3 (`SlabAssumption`).  None of the five invariants is inductive, and no
field of the pool says what is: `SlabInv` asserts that every page has an owner (the head of the list
it is in, or none), a rank in that list and an extent, and that all words, types and links agree with them (`Sound`):
the next page of a list has a higher rank, a page's word and list say which of four things it is (head of a free run,
inside an extent, head of a run handed out, cut into chunks), the extents tile the table.  Each operation is
proved to leave some owners, ranks and extents: the lists in `UnlinkListed`, `PushListed` and `SplitListed`, the pages in
`TakeRunSound`, `FreePagesSound`, `MarkSound`, `ClearSound` and `FirstSound`, what callers hold in `AgreeAdd` and `AgreeDrop`.
`SlabInv` also says of every address in `stale` that no region starts there and, if its page is cut into chunks, that it is
not in the page's bitmap: so a repeated free is refused or finds the head of a free run, and moving that
in the free list takes nothing from anyone.  A free inside a region is refused.
Back to the properties: a walk along `next` meets pages of rising rank, so it
is closed after as many steps as there are pages (`ChainEnds`) and, by
counting, misses none (`MembersOwn`), which gives `ListsLinked`, `PagesConserved` and `SlotsHaveRoom`.  The words are
proved about without any theory of bit strings: `AroundBit` takes a word apart into what is above a bit, the bit, and what is
below, so that setting and clearing a vacant or busy bit is adding or subtracting its value and changes no other.
`SlabInv` quantifies over functions on pages, which TLC cannot enumerate; the run checks the five properties it implies.

**`RpConfig_proofs`**, for any set of values, any document nested to any depth and any number
of strings and servers (`ConfigAssumption`: `Null` is none of them).  Two invariants carry it.  `Nesting` says, of
any document at all, what the program's state tells about the nesting it cannot see: a list state
is only reached inside that list, `HOST` and `PORT` only inside an item of the
server list with a server that is not linked yet, unless memory has run out (`Fresh`), and a state waiting for a value only under a key
that passes for its name.  `ServersSound` and `StoredUnderOwnKey` follow from it.  `Shaped` says of a document of the
expected shape that the place in it determines the state (`StateAt`), and that what is stored, with the server being read
last, is what was said; `FollowsDocument` and `ShapedNeverRefused` follow.  `FollowsDocument`
alone is not inductive: it says nothing before the end of the document.

**`Recursion_proofs`** — induction and recursion up to n, stated about sets and functions (a set that
contains 0 and with every i the next one contains 0 .. n; a run of given step functions exists), from
the well-foundedness theorems of the library.  This is how the recursive functions of the models are reasoned about; the
induction theorems of the library that take a predicate as a parameter cannot be used by the provers.

**`RpIrcsm_proofs`**, for any byte classes that are disjoint from the marks of the grammar
and any counts (`IrcsmAssumption`).  Every edge is of one of seventeen kinds (`EdgeKinds`): where it comes from, where it leads, what
actions it carries, which bytes it is for.  `Staged` says at which of eight stages of a message the
parser is, and what the slices are there: in a servername the slice is the
whole prefix, in a host the parts of the hostmask lie in it and its own slice ends with it, and so on.  Several paths
through the grammar may be open at once (a servername and a nickname begin alike), so the stage is
a property of the whole set of positions; a byte that ends a part (`!`, `@`, a space) tells which kinds it takes.
`GoodParse` then goes over a window of any length.

The same module proves that the machine and `RpIrcGrammar` agree, which share nothing but the classes of bytes.
For each part of a message an operator says, without a machine, to which positions a text that begins such a part
leads: `HostLeads`, `Ip4Leads`, `GroupLeads`, `MappedLeads`, `AddressLeads`, `MaskLeads`, `PrefixLeads`, `CodeLeads`,
`ParamsLeads`, and `InnerLeads` of the whole.  Its `...More` lemma says that a text one byte longer leads exactly over the
edges from where the text leads, and its `...AtEnd` lemma that the texts which lead to a last position are those the
grammar allows.  Below them are lemmas about the parts of a text between separators and how a byte more
changes them (`PartsGrow`, `CutMore`): this is how texts of any length are reasoned about, a byte at a time, without induction
on the grammar.  `AcceptsTheGrammar` follows.  What a message means is carried along the same bytes: `FrontRight` says what is
recorded of the prefix and `RearRight` what of code and parameters after each byte, whatever paths are open, and what of
the stale parameters is left under them; buffers may have any size.

**`RpBot_proofs`**, for any lines, capacities, sizes of reads and writes, and any number of connections
(`BotAssumption`, `LinesAssumption`).  Nothing is claimed of what follows once a text has run astray (`undefined`).
The inductive invariant `BotInv` is `TypeOK` with `Staged`, the type of what is in `write_buf` and `StreamKept`: the
ring holds the end of what was read.  `TypeOK` by itself is not inductive, because that a finished hostmask
lies in its prefix depends on what was recorded at each of its bytes.
`BotParsesAsOne` shows that cutting the input has no effect: `OneRun(stream)` is one run of the machine over
all bytes, and the parser is always where it is after the bytes parsed, with the same message under construction and the
same messages handled, or it is in its error state before the first byte that run refuses.  Its core is
`AlongParse`: a window that begins where the run is leads along it.

`BotMessagesRight` needs two more facts.  `OfStream` says of the first bytes of any stream where the one run over them is: as
long as every line was a message, at the positions the bytes since the last end lead to, with what `FrontRight` and
`RearRight` say recorded of them; after a line that is none, nowhere; and the messages it completed are the meanings of the
lines.  It holds after no byte and is kept by each (`OfStreamStep`), so the first half of `MessagesRight` is
`BotParsesAsOne` read through it.  For the second half, `StuckInv` says that on the first connection
what came so far ends in a whole line; this is where `LinesAssumption` is used, that what a server sends is whole lines.  A parser
that is stuck has then met the end of a line that is no message.

`BotOutputExpected` carries `OutInv`: the output is as expected, and no login came after more bytes than were parsed.  The
proof takes `Due` apart by bytes (`AtByte`): a turn of the parser makes due nothing at the bytes that end no message, and
the answer where one ends (`DueQuiet`, `DueMessage`); a login is due after all that was parsed (`DueLogin`).  What a put adds to
`write_buf` is all of its texts or, if it fills up, a first part (`PutAppends`), which is what `Concatenates` allows
(`ConcatenatesMore`); writing to the socket moves texts and changes nothing of both together.  The strengthening is needed because
`OutputExpected` does not say where the logins are among the messages that are still to come.

Only model-checked, and why:

* the liveness properties (`CallsReturn`, `InputRead`, `OutputSent`, `RetriesForever`, `LookupPickedUp`, `AttemptEnds`,
  `InterruptStops`, `DrainEnds`), which need fairness and ENABLED.

Every invariant the passing runs check, and every action property, is a theorem; the runs show on small
instances that the cases they speak of occur, and the mutants what breaks each.

## 6. Not modelled

* `rp_string.c`: `rp_strtoken` and `rp_strstr` are stateless and nothing calls them.
* `rp_os.c`: the page size and `posix_memalign`, which is an allocation that may fail in `RpPalloc`.
* The allocation functions handed to yajl (`rpcfg_alloc`, `rpcfg_realloc`, `rpcfg_free`): yajl's own memory.
* `uthash.h` and `utlist.h` are vendored; the handler hash is a function and the lists are sequences.
* The build files and the parser test, whose lines are of the kinds in `MCRpBot`.
* Failing allocations in `rp_irc.c` and `rp_ircsm.rl`, at the start and once, whose results the code never looks at.
* Frees by a caller of the slab who no longer has any right to the address, and addresses it never had (section 3).
