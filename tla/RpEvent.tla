------------------------------ MODULE RpEvent ------------------------------
(***************************************************************************)
(* The event system of src/rp_event.c driven by main_loop of src/rpbot.c:   *)
(* one thread that resolves the server's name, connects, and moves bytes    *)
(* between a non-blocking socket and two buffers, with edge-triggered epoll. *)
(*                                                                         *)
(* Every system call is a step of its own, so that the peer, the resolver   *)
(* thread and signals may act between any two of them.  What runs between   *)
(* two system calls is one step.  The kernel, glibc's resolver and the      *)
(* server are external: they are modelled from how rp_event.c uses them.    *)
(*                                                                         *)
(* The buffers are their byte counts (RpFifo shows that a window is never   *)
(* empty while there is room or data).  The two deadlines are kept as the   *)
(* ticks left until rp_current_msec reaches them, 0 once it has: the code   *)
(* only ever compares them with rp_current_msec.                            *)
(***************************************************************************)
EXTENDS Integers

CONSTANTS
  FdLimit,         \* sockets the process may have open at once
  MaxAddrs,        \* longest addrinfo list a lookup returns
  ReadCap,         \* capacity of read_buf
  WriteCap,        \* capacity of write_buf
  InCap,           \* bytes the kernel's receive queue holds
  OutCap,          \* bytes the kernel's send queue holds
  ConnectTimeout,  \* IRC_CONNECT_TIMEOUT in ticks
  RetryDelay,      \* IRC_RETRY_DELAY in ticks
  MaxElapsed,      \* most ticks between two rp_updatetime
  HelloLen,        \* bytes rp_irc_onconnect puts
  MaxReply,        \* most bytes the handlers put for one batch of input
  Faults           \* what may go wrong: see FaultKind

FaultKind == {"gai", "lookup", "socket", "connect", "eintr", "epoll", "parse"}

ASSUME EventAssumption ==
  /\ FdLimit \in Nat \ {0}
  /\ MaxAddrs \in Nat \ {0}
  /\ ReadCap \in Nat \ {0}
  /\ WriteCap \in Nat \ {0}
  /\ InCap \in Nat \ {0}
  /\ OutCap \in Nat \ {0}
  /\ ConnectTimeout \in Nat \ {0}
  /\ RetryDelay \in Nat \ {0}
  /\ MaxElapsed \in Nat \ {0}
  /\ HelloLen \in Nat
  /\ MaxReply \in Nat
  /\ Faults \subseteq FaultKind

VARIABLES
  \* struct rp_event_ctx
  state,           \* connection state
  sock_fd,         \* the socket, NoFd, or the number of a closed socket
  res0,            \* length of the list res0 points to, 0 for NULL
  res,             \* position of res in that list, 0 for NULL
  next_conn,       \* ticks left to next_conn_msec
  conn_timeout,    \* ticks left to conn_timeout_msec
  read_full, write_full,
  host,            \* the gaicb: result list, is it still allocated, did the lookup fail
  \* the fifos, the control flow and its locals
  rcount, wcount,  \* bytes in read_buf and write_buf
  pc,              \* where the thread is
  evs,             \* struct rp_events
  batch,           \* events epoll_wait returned, not handled yet, by fd
  ctl,             \* rp_tryflush's ctl_event.events if update_epoll, else {}
  \* external: kernel, resolver thread
  sock,            \* sockets by fd
  ready,           \* fds on epoll's ready list
  signals,         \* signals pending on sig_fd
  resolver         \* is a lookup running

ctx == <<state, sock_fd, res0, res, next_conn, conn_timeout>>
fifos == <<rcount, wcount, read_full, write_full>>
flow == <<pc, evs, batch, ctl>>
kernel == <<sock, ready, signals, resolver>>
vars == <<ctx, host, fifos, flow, kernel>>

Fds == 1 .. FdLimit
SigFd == 0
NoFd == -1

State == {"DISCONNECTED", "RESOLVING", "RESOLVED", "CONNECTING", "CONNECTED"}
Event == {"IN", "OUT", "HANGUP"}  \* HANGUP: any of EPOLLRDHUP, EPOLLERR, EPOLLHUP
Stopped == {"exited", "aborted", "undefined", "wedged"}
InLoops == {"flush_reading", "flush_writing", "sock_reading", "sock_writing"}
Location == {"top", "flush_read", "flush_write", "flush_ctl", "wait", "dispatch",
             "sock_out", "main", "parse"} \cup InLoops \cup Stopped
Running == pc \notin Stopped

\* Mutant: rp_min and rp_max mixed up.
Greater(m, n) == IF m < n THEN n ELSE m

Lesser(m, n) == IF m < n THEN m ELSE n

\* Mutant: the test for room is off by one.
CanReadOffByOne == rcount <= ReadCap

\* There is room in read_buf, there is data in write_buf.
CanRead == rcount < ReadCap
CanWrite == wcount > 0

-----------------------------------------------------------------------------
(* External: sockets and epoll.                                             *)

Socket == [link : {"closed", "connecting", "up", "reset"},
           inq  : 0 .. InCap,     \* bytes received and not read
           fin  : BOOLEAN,        \* the peer has closed its side
           outq : 0 .. OutCap,    \* bytes written and not acknowledged
           mask : SUBSET Event]   \* epoll interest, {} if not registered

Closed == [link |-> "closed", inq |-> 0, fin |-> FALSE, outq |-> 0, mask |-> {}]

IsOpen(fd) == sock[fd].link # "closed"

\* EPOLLRDHUP | EPOLLERR | EPOLLHUP are part of every interest set.
InOnly == {"IN", "HANGUP"}
InOut == {"IN", "OUT", "HANGUP"}

\* What poll says of socket s, restricted to what epoll was asked for.
EventsOf(s) ==
  {e \in s.mask :
     \/ e = "IN" /\ s.link = "up" /\ (s.inq > 0 \/ s.fin)
     \/ e = "OUT" /\ s.link = "up" /\ s.outq < OutCap
     \/ e = "HANGUP" /\ s.link = "up" /\ s.fin
     \/ s.link = "reset"}

SigEvents == IF signals = {} THEN {} ELSE {"IN"}

\* epoll_ctl ADD or MOD queues the fd if it is ready: an edge is not needed.
Armed(fd, s) == IF EventsOf(s) = {} THEN ready ELSE ready \cup {fd}

\* An edge queues the fd if epoll was asked for the event.
Woken(fd, e) == IF e \in sock[fd].mask THEN ready \cup {fd} ELSE ready

-----------------------------------------------------------------------------

Init ==
  /\ state = "DISCONNECTED"
  /\ sock_fd = NoFd
  /\ res0 = 0
  /\ res = 0
  /\ next_conn = 0
  /\ conn_timeout = 0
  /\ read_full = FALSE
  /\ write_full = FALSE
  /\ host = [list |-> 0, live |-> FALSE, failed |-> FALSE]
  /\ rcount = 0
  /\ wcount = 0
  /\ pc = "top"
  /\ evs = {}
  /\ batch = [fd \in Fds \cup {SigFd} |-> {}]
  /\ ctl = {}
  /\ sock = [fd \in Fds |-> Closed]
  /\ ready = {}
  /\ signals = {}
  /\ resolver = "idle"

-----------------------------------------------------------------------------
(* main_loop: top of the loop, up to rp_tryflush or epoll_wait.             *)

\* Mutant: the loop forgets rp_updatetime.
RemainingForever(deadline, d) == deadline

Remaining(deadline, d) == IF deadline > d THEN deadline - d ELSE 0

\* Mutant: struct rp_events outlives the iteration.
EarlierEvents == evs

\* memset of evs.
NoEvents == {}

\* memset, rp_updatetime, and rp_event_poll's test of the state.
LoopTop(d) ==
  /\ pc = "top"
  /\ next_conn' = Remaining(next_conn, d)
  /\ conn_timeout' = Remaining(conn_timeout, d)
  /\ evs' = NoEvents
  /\ pc' = IF state = "CONNECTED" THEN "flush_read" ELSE "wait"
  /\ UNCHANGED <<state, sock_fd, res0, res, host, fifos, batch, ctl, kernel>>

-----------------------------------------------------------------------------
(* do_read and do_write: one step per system call of their loops.           *)

\* read() returned n bytes.
ReadBytes(at, after) ==
  /\ pc = at
  /\ \E n \in 1 .. Lesser(ReadCap - rcount, sock[sock_fd].inq) :
       /\ rcount' = rcount + n
       /\ sock' = [sock EXCEPT ![sock_fd].inq = @ - n]
       /\ IF rcount + n = ReadCap
            THEN read_full' = TRUE /\ pc' = after
            ELSE UNCHANGED <<read_full, pc>>
  /\ UNCHANGED <<ctx, host, wcount, write_full, evs, batch, ctl, ready, signals, resolver>>

\* read() failed with EAGAIN, or with anything else, or returned 0.
ReadNothing(at, after) ==
  LET s == sock[sock_fd] IN
  /\ pc = at
  /\ s.inq = 0
  /\ pc' = IF s.link = "up" /\ ~s.fin THEN after ELSE "aborted"
  /\ UNCHANGED <<ctx, host, fifos, evs, batch, ctl, kernel>>

DoRead(at, after) == ReadBytes(at, after) \/ ReadNothing(at, after)

\* write() took n bytes.
WriteBytes(at, after) ==
  /\ pc = at
  /\ sock[sock_fd].link = "up"
  /\ \E n \in 1 .. Lesser(wcount, OutCap - sock[sock_fd].outq) :
       /\ wcount' = wcount - n
       /\ sock' = [sock EXCEPT ![sock_fd].outq = @ + n]
       /\ pc' = IF wcount = n THEN after ELSE at
  /\ UNCHANGED <<ctx, host, rcount, read_full, write_full, evs, batch, ctl,
                 ready, signals, resolver>>

\* write() failed with EAGAIN, or with anything else.
WriteNothing(at, after) ==
  LET s == sock[sock_fd] IN
  /\ pc = at
  /\ \/ /\ s.link = "up"
        /\ s.outq = OutCap
        /\ write_full' = TRUE
        /\ pc' = after
     \/ /\ s.link = "reset"
        /\ pc' = "aborted"
        /\ UNCHANGED write_full
  /\ UNCHANGED <<ctx, host, rcount, wcount, read_full, evs, batch, ctl, kernel>>

DoWrite(at, after) == WriteBytes(at, after) \/ WriteNothing(at, after)

-----------------------------------------------------------------------------
(* rp_tryflush.                                                             *)

\* Mutant: a read_buf that has been full is not armed again.
ReadInterestKept == ctl

ReadInterest == IF CanRead THEN InOnly ELSE ctl

\* Mutant: EPOLLOUT is not added.
WriteInterestKept == IF CanWrite THEN InOnly ELSE ctl

WriteInterest == IF CanWrite THEN InOut ELSE ctl

\* The read half: re-arm epoll if the buffer was ever full, else read now.
FlushRead ==
  /\ pc = "flush_read"
  /\ IF CanRead /\ ~read_full
       THEN pc' = "flush_reading" /\ UNCHANGED ctl
       ELSE /\ pc' = "flush_write"
            /\ ctl' = ReadInterest
  /\ UNCHANGED <<ctx, host, fifos, evs, batch, kernel>>

\* The write half.  ctl_event.events is a local that starts without EPOLLOUT:
\* the test for it succeeds here, and the branch that would drop it is dead.
FlushWrite ==
  /\ pc = "flush_write"
  /\ IF CanWrite /\ ~write_full
       THEN pc' = "flush_writing" /\ UNCHANGED ctl
       ELSE /\ pc' = "flush_ctl"
            /\ ctl' = WriteInterest
  /\ UNCHANGED <<ctx, host, fifos, evs, batch, kernel>>

FlushCtl ==
  /\ pc = "flush_ctl"
  /\ IF ctl # {}
       THEN /\ sock' = [sock EXCEPT ![sock_fd].mask = ctl]
            /\ ready' = Armed(sock_fd, sock'[sock_fd])
       ELSE UNCHANGED <<sock, ready>>
  /\ ctl' = {}
  /\ pc' = "wait"
  /\ UNCHANGED <<ctx, host, fifos, evs, batch, signals, resolver>>

TryFlush ==
  \/ FlushRead
  \/ DoRead("flush_reading", "flush_write")
  \/ FlushWrite
  \/ DoWrite("flush_writing", "flush_ctl")
  \/ FlushCtl

-----------------------------------------------------------------------------
(* rp_event_poll: epoll_wait.                                               *)

\* The ready list is emptied into the batch; an empty batch is a timeout.
EpollWait ==
  /\ pc = "wait"
  /\ batch' = [fd \in Fds \cup {SigFd} |->
                 IF fd \notin ready THEN {}
                 ELSE IF fd = SigFd THEN SigEvents ELSE EventsOf(sock[fd])]
  /\ ready' = {}
  /\ pc' = "dispatch"
  /\ UNCHANGED <<ctx, host, fifos, evs, ctl, sock, signals, resolver>>

\* EINTR returns before the switch on the state; any other error ends main_loop.
EpollFails ==
  /\ pc = "wait"
  /\ \/ "eintr" \in Faults /\ pc' = "main"
     \/ "epoll" \in Faults /\ pc' = "exited"
  /\ UNCHANGED <<ctx, host, fifos, evs, batch, ctl, kernel>>

-----------------------------------------------------------------------------
(* rp_disconnect and rp_tryconnect.                                         *)

\* Mutant: the list is forgotten, not freed.
RpFreeAddrInfoLeaks == res0' = 0 /\ res' = 0 /\ UNCHANGED host

RpFreeAddrInfo ==
  /\ host' = [host EXCEPT !.live = @ /\ res0 = 0]
  /\ res0' = 0
  /\ res' = 0

\* epoll_ctl DEL and close of sock_fd, which may be no open socket.
CloseSocket ==
  /\ sock' = [fd \in Fds |-> IF fd = sock_fd THEN Closed ELSE sock[fd]]
  /\ ready' = ready \ {sock_fd}

\* Mutant: the socket is closed, its number kept.
RpDisconnectKeepsFd ==
  /\ CloseSocket
  /\ RpFreeAddrInfo
  /\ state' = "DISCONNECTED"
  /\ next_conn' = RetryDelay
  /\ UNCHANGED <<sock_fd, conn_timeout>>

RpDisconnect ==
  /\ CloseSocket
  /\ RpFreeAddrInfo
  /\ sock_fd' = NoFd
  /\ state' = "DISCONNECTED"
  /\ next_conn' = RetryDelay
  /\ UNCHANGED conn_timeout

\* Mutant: after the last address comes the first.
NextAddrWraps == IF res < res0 THEN res + 1 ELSE Lesser(res0, 1)

\* The address rp_tryconnect moves on to: the first, or the one after res.
NextAddr == IF res < res0 THEN res + 1 ELSE 0

\* socket() returns the lowest free descriptor, if there is one.
NewFds == {fd \in Fds : ~IsOpen(fd) /\ \A other \in 1 .. fd - 1 : IsOpen(other)}

\* socket(), fcntl() or connect() failed: the descriptor is closed, but
\* neither sock_fd nor the state is reset.
ConnFail ==
  /\ \/ /\ NewFds = {} \/ "socket" \in Faults
        /\ sock_fd' = NoFd
     \/ /\ "connect" \in Faults
        /\ sock_fd' \in NewFds
  /\ next_conn' = RetryDelay
  /\ UNCHANGED <<state, conn_timeout, sock, ready>>

\* connect() is in progress and the socket registered with epoll.
ConnStarted ==
  /\ \E fd \in NewFds :
       /\ sock_fd' = fd
       /\ sock' = [sock EXCEPT ![fd] = [Closed EXCEPT !.link = "connecting", !.mask = InOut]]
  /\ state' = "CONNECTING"
  /\ conn_timeout' = ConnectTimeout
  /\ UNCHANGED <<next_conn, ready>>

RpTryConnect ==
  IF NextAddr = 0
    THEN RpDisconnect /\ pc' = "main"
    ELSE IF host.live
      THEN /\ res' = NextAddr
           /\ ConnFail \/ ConnStarted
           /\ pc' = "main"
           /\ UNCHANGED <<res0, host>>
      \* the list was freed by an earlier rp_disconnect
      ELSE pc' = "undefined" /\ UNCHANGED <<ctx, host, sock, ready>>

-----------------------------------------------------------------------------
(* rp_event_poll: the loop over the batch.                                  *)

\* handle_sock_event up to and including its read.
SockEvent ==
  /\ pc = "dispatch"
  /\ sock_fd \in Fds
  /\ batch[sock_fd] # {}
  /\ IF "HANGUP" \in batch[sock_fd]
       THEN /\ RpDisconnect
            /\ evs' = evs \cup {"disconnected"}
            /\ batch' = [batch EXCEPT ![sock_fd] = {}]
            /\ UNCHANGED pc
       ELSE /\ pc' = IF "IN" \in batch[sock_fd] /\ CanRead
                       THEN "sock_reading" ELSE "sock_out"
            /\ UNCHANGED <<ctx, host, evs, batch, sock, ready>>
  /\ UNCHANGED <<fifos, ctl, signals, resolver>>

\* The rest of handle_sock_event.
SockOut ==
  /\ pc = "sock_out"
  /\ batch' = [batch EXCEPT ![sock_fd] = {}]
  /\ IF "OUT" \in batch[sock_fd] /\ state = "CONNECTING"
       THEN /\ sock' = [sock EXCEPT ![sock_fd].mask = InOnly]
            /\ ready' = Armed(sock_fd, sock'[sock_fd])
            /\ state' = "CONNECTED"
            /\ evs' = evs \cup {"connected"}
            /\ pc' = "dispatch"
       ELSE /\ pc' = IF "OUT" \in batch[sock_fd] /\ CanWrite
                       THEN "sock_writing" ELSE "dispatch"
            /\ UNCHANGED <<sock, ready, state, evs>>
  /\ UNCHANGED <<sock_fd, res0, res, next_conn, conn_timeout, host, fifos, ctl,
                 signals, resolver>>

\* The signals read from sig_fd take effect.
Deliver(taken) ==
  /\ pc = "dispatch"
  /\ batch[SigFd] # {}
  /\ batch' = [batch EXCEPT ![SigFd] = {}]
  /\ signals' = signals \ taken
  /\ evs' = IF "SIGINT" \in taken THEN evs \cup {"sig_int"} ELSE evs
  /\ IF "ADDR" \in taken
       THEN res0' = host.list /\ res' = 0 /\ state' = "RESOLVED"
       ELSE UNCHANGED <<res0, res, state>>
  /\ UNCHANGED <<sock_fd, next_conn, conn_timeout, host, fifos, pc, ctl, sock,
                 ready, resolver>>

\* Mutant: one read() for each edge.
SigEventOnce == \E sig \in signals : Deliver({sig})

\* handle_sig_event reads until nothing is pending.
SigEvent == Deliver(signals)

\* An event of a socket the context no longer knows is skipped.
OtherEvent ==
  /\ pc = "dispatch"
  /\ \E fd \in Fds \ {sock_fd} :
       /\ batch[fd] # {}
       /\ batch' = [batch EXCEPT ![fd] = {}]
  /\ UNCHANGED <<ctx, host, fifos, pc, evs, ctl, kernel>>

\* Mutant: the lookup is never handed to the resolver.
StartResolveNot == state' = "RESOLVING" /\ UNCHANGED resolver

\* What getaddrinfo_a returns is not looked at.
StartResolve ==
  /\ state' = "RESOLVING"
  /\ resolver' = "busy" \/ ("gai" \in Faults /\ resolver' = resolver)

\* Mutant: a deadline passing during a lookup starts another.
ResolveDueEarly == state \in {"DISCONNECTED", "RESOLVING"} /\ next_conn = 0

ResolveDue == state = "DISCONNECTED" /\ next_conn = 0

ConnectDue == state = "RESOLVED" \/ (state = "CONNECTING" /\ conn_timeout = 0)

\* The switch on the state after the loop.
Switch ==
  /\ pc = "dispatch"
  /\ \A fd \in Fds \cup {SigFd} : batch[fd] = {}
  /\ \/ /\ ResolveDue
        /\ StartResolve
        /\ pc' = "main"
        /\ UNCHANGED <<sock_fd, res0, res, next_conn, conn_timeout, host, sock, ready>>
     \/ /\ ConnectDue
        /\ RpTryConnect
        /\ UNCHANGED resolver
     \/ /\ ~ResolveDue /\ ~ConnectDue
        /\ pc' = "main"
        /\ UNCHANGED <<ctx, host, sock, ready, resolver>>
  /\ UNCHANGED <<fifos, evs, batch, ctl, signals>>

Dispatch ==
  \/ SockEvent
  \/ DoRead("sock_reading", "sock_out")
  \/ SockOut
  \/ DoWrite("sock_writing", "dispatch")
  \/ SigEvent
  \/ OtherEvent
  \/ Switch

-----------------------------------------------------------------------------
(* main_loop: after rp_event_poll.                                          *)

\* React to the events: log in on a new connection, stop on SIGINT.
HandleEvents ==
  /\ pc = "main"
  /\ wcount' = IF "connected" \in evs THEN Lesser(WriteCap, wcount + HelloLen) ELSE wcount
  /\ pc' = IF "sig_int" \in evs THEN "exited" ELSE "parse"
  /\ UNCHANGED <<ctx, host, rcount, read_full, write_full, evs, batch, ctl, kernel>>

\* Parse and handle everything in read_buf.  A parse error leaves the parser
\* consuming nothing, and the loop never ends.
ParseInput ==
  /\ pc = "parse"
  /\ \/ /\ rcount' = 0
        /\ pc' = "top"
        /\ \E n \in 0 .. MaxReply :
             /\ rcount = 0 => n = 0
             /\ wcount' = Lesser(WriteCap, wcount + n)
     \/ /\ "parse" \in Faults
        /\ rcount > 0
        /\ pc' = "wedged"
        /\ UNCHANGED <<rcount, wcount>>
  /\ UNCHANGED <<ctx, host, read_full, write_full, evs, batch, ctl, kernel>>

Program ==
  \/ \E d \in 0 .. MaxElapsed : LoopTop(d)
  \/ TryFlush
  \/ EpollWait
  \/ EpollFails
  \/ Dispatch
  \/ HandleEvents
  \/ ParseInput

-----------------------------------------------------------------------------
(* External: the server, the network, the resolver thread, the user.        *)

NetStep(fd, s, edge) ==
  /\ Running
  /\ sock' = [sock EXCEPT ![fd] = s]
  /\ ready' = Woken(fd, edge)
  /\ UNCHANGED <<ctx, host, fifos, flow, signals, resolver>>

Establish(fd) ==
  /\ sock[fd].link = "connecting"
  /\ NetStep(fd, [sock[fd] EXCEPT !.link = "up"], "OUT")

\* Connection refused, or unreachable, or reset later on.
Reset(fd) ==
  /\ sock[fd].link \in {"connecting", "up"}
  /\ NetStep(fd, [sock[fd] EXCEPT !.link = "reset"], "HANGUP")

PeerSend(fd) ==
  /\ sock[fd].link = "up"
  /\ ~sock[fd].fin
  /\ sock[fd].inq < InCap
  /\ NetStep(fd, [sock[fd] EXCEPT !.inq = @ + 1], "IN")

PeerClose(fd) ==
  /\ sock[fd].link = "up"
  /\ ~sock[fd].fin
  /\ NetStep(fd, [sock[fd] EXCEPT !.fin = TRUE], "HANGUP")

\* The peer takes what was written; a queue that was full becomes writable.
PeerAck(fd) ==
  /\ sock[fd].link = "up"
  /\ sock[fd].outq > 0
  /\ NetStep(fd, [sock[fd] EXCEPT !.outq = 0],
             IF sock[fd].outq = OutCap THEN "OUT" ELSE "NONE")

Raise(sig) ==
  /\ Running
  /\ signals' = signals \cup {sig}
  /\ ready' = ready \cup {SigFd}
  /\ UNCHANGED <<ctx, fifos, flow, sock>>

\* The lookup is over.  A failed one leaves ar_result as it was.
LookupDone ==
  /\ resolver = "busy"
  /\ resolver' = "idle"
  /\ \/ \E n \in 1 .. MaxAddrs : host' = [list |-> n, live |-> TRUE, failed |-> FALSE]
     \/ "lookup" \in Faults /\ host' = [host EXCEPT !.failed = TRUE]
  /\ Raise("ADDR")

UserInterrupt ==
  /\ "SIGINT" \notin signals
  /\ Raise("SIGINT")
  /\ UNCHANGED <<host, resolver>>

Environment ==
  \/ \E fd \in Fds :
       Establish(fd) \/ Reset(fd) \/ PeerSend(fd) \/ PeerClose(fd) \/ PeerAck(fd)
  \/ LookupDone
  \/ UserInterrupt

\* A program that has stopped stays so.
Halted == ~Running /\ UNCHANGED vars

Next == Program \/ Environment \/ Halted

Spec == Init /\ [][Next]_vars

(***************************************************************************)
(* The thread always runs on and real time passes between turns of its      *)
(* loop; glibc finishes a lookup it has accepted; a live peer's TCP takes   *)
(* what was sent to it.  Nothing is assumed of anyone else.                 *)
(***************************************************************************)
Fairness ==
  /\ WF_vars(Program)
  /\ SF_vars(\E d \in 1 .. MaxElapsed : LoopTop(d))
  /\ WF_vars(LookupDone)
  /\ \A fd \in Fds : WF_vars(PeerAck(fd))

FairSpec == Spec /\ Fairness

-----------------------------------------------------------------------------

TypeOK ==
  /\ state \in State
  /\ sock_fd \in Fds \cup {NoFd}
  /\ res0 \in 0 .. MaxAddrs
  /\ res \in 0 .. MaxAddrs
  /\ next_conn \in 0 .. RetryDelay
  /\ conn_timeout \in 0 .. ConnectTimeout
  /\ read_full \in BOOLEAN
  /\ write_full \in BOOLEAN
  /\ host \in [list : 0 .. MaxAddrs, live : BOOLEAN, failed : BOOLEAN]
  /\ rcount \in 0 .. ReadCap
  /\ wcount \in 0 .. WriteCap
  /\ pc \in Location
  /\ evs \subseteq {"connected", "disconnected", "sig_int"}
  /\ batch \in [Fds \cup {SigFd} -> SUBSET Event]
  /\ ctl \in {{}, InOnly, InOut}
  /\ sock \in [Fds -> Socket]
  /\ ready \subseteq Fds \cup {SigFd}
  /\ signals \subseteq {"SIGINT", "ADDR"}
  /\ resolver \in {"idle", "busy"}

(***************************************************************************)
(* The notes above do_read and do_write: there is room in read_buf (data in *)
(* write_buf) at every read() (write()), and the descriptor is an open      *)
(* socket.  A call on an empty window returns 0, which aborts the program.  *)
(***************************************************************************)
LoopsHaveWork ==
  /\ pc \in {"flush_reading", "sock_reading"} => rcount < ReadCap
  /\ pc \in {"flush_writing", "sock_writing"} => wcount > 0
  /\ pc \in InLoops => sock_fd \in Fds /\ sock[sock_fd].link \in {"up", "reset"}

\* What the state says of sock_fd, and the events that wait of the descriptors.
SocketAgrees ==
  /\ state = "CONNECTED" => /\ sock_fd \in Fds
                            /\ sock[sock_fd].link \in {"up", "reset"}
                            /\ InOnly \subseteq sock[sock_fd].mask
  /\ state \in {"DISCONNECTED", "RESOLVING"} => sock_fd = NoFd
  /\ \A fd \in Fds : batch[fd] # {} => IsOpen(fd)

\* An attempt that failed leaves the number of its socket behind, closed.
ResolvedHoldsNone ==
  state = "RESOLVED" /\ sock_fd \in Fds => sock[sock_fd].link = "closed"

(***************************************************************************)
(* In state CONNECTED the context holds an established socket that epoll    *)
(* watches for input and loss; in DISCONNECTED and RESOLVING it holds none; *)
(* in RESOLVED it may hold an old number, never that of an open socket,     *)
(* which rp_disconnect would close; and an event waiting to be handled is   *)
(* never of a closed descriptor, whose number the next socket() may reuse.  *)
(***************************************************************************)
SocketOwned == SocketAgrees /\ ResolvedHoldsNone

(***************************************************************************)
(* main_loop logs in on `connected' after the whole poll is over: by then   *)
(* the connection must still be there.  One poll never reports both that it *)
(* came up and that it went down.                                           *)
(***************************************************************************)
LoginOnLiveConnection == "connected" \in evs => state = "CONNECTED" /\ "disconnected" \notin evs

(***************************************************************************)
(* The context has one gaicb and one list: a lookup is only started when    *)
(* none is running and none is waiting to be picked up, so the state can    *)
(* never be taken back to RESOLVED under a live connection.                 *)
(***************************************************************************)
OneLookup ==
  /\ resolver = "busy" \/ "ADDR" \in signals => state = "RESOLVING"
  /\ ~(resolver = "busy" /\ "ADDR" \in signals)

(***************************************************************************)
(* The addrinfo list: the one in use is allocated (unless a failed lookup   *)
(* left an old one in the gaicb), and none is leaked: whenever a lookup may *)
(* overwrite ar_result, the list it pointed to has been freed.              *)
(***************************************************************************)
ListLifetime ==
  /\ res0 # 0 => res0 = host.list /\ (host.live \/ host.failed)
  /\ state = "DISCONNECTED" \/ resolver = "busy" => res0 = 0 /\ ~host.live

-----------------------------------------------------------------------------

(***************************************************************************)
(* The connection goes through the life of ConnLifecycle: every address is  *)
(* tried at most once, in order, all of them before giving up, and no lookup *)
(* starts before RetryDelay has passed since the last disconnect.           *)
(***************************************************************************)
Lifecycle == INSTANCE ConnLifecycle WITH
  phase <- state,
  left  <- IF state \in {"RESOLVED", "CONNECTING"} THEN res0 - res ELSE 0,
  delay <- IF state = "DISCONNECTED" THEN next_conn ELSE 0

FollowsLifecycle == Lifecycle!Spec

-----------------------------------------------------------------------------

\* A client that is not connected starts over, again and again.
RetriesForever == state = "DISCONNECTED" ~> (state = "RESOLVING" \/ ~Running)

\* A lookup's answer is always picked up.
LookupPickedUp == state = "RESOLVING" ~> (state = "RESOLVED" \/ ~Running)

\* Trying the addresses ends, though every attempt may fail in its own way.
AttemptEnds ==
  state \in {"RESOLVED", "CONNECTING"} ~> (state \in {"CONNECTED", "DISCONNECTED"} \/ ~Running)

(***************************************************************************)
(* No edge is lost: bytes waiting in the kernel are read while the          *)
(* connection lasts, also when the edge that announced them came while      *)
(* read_buf was full and the event was dropped.                             *)
(***************************************************************************)
InputRead ==
  (state = "CONNECTED" /\ sock[sock_fd].inq > 0)
    ~> (rcount > 0 \/ state # "CONNECTED" \/ ~Running)

\* A full write_buf drains while the connection lasts, also after write() has
\* met a full kernel queue.
OutputSent ==
  (state = "CONNECTED" /\ wcount = WriteCap)
    ~> (wcount < WriteCap \/ state # "CONNECTED" \/ ~Running)

(***************************************************************************)
(* SIGINT is noticed, whatever the connection is doing: the program leaves  *)
(* main_loop, or has been aborted before it could.  That the drain loop     *)
(* spins for ever (`wedged') is no such end: it holds as long as the server *)
(* sends no line the parser refuses, and is refuted with one.               *)
(***************************************************************************)
InterruptStops == "SIGINT" \in signals ~> pc \in {"exited", "aborted", "undefined"}
=============================================================================
