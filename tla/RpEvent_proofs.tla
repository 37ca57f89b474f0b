--------------------------- MODULE RpEvent_proofs ---------------------------
(***************************************************************************)
(* Proofs about the event system, for any number of descriptors, addresses, *)
(* buffer sizes, delays and faults: its safety invariants, and that the     *)
(* connection follows the life cycle of ConnLifecycle.                      *)
(***************************************************************************)
EXTENDS RpEvent, TLAPS

-----------------------------------------------------------------------------
(* The inductive invariant: the properties of RpEvent, and what holds at    *)
(* each place of the code for them to be kept.                              *)

\* A closed descriptor is not registered with epoll.
ClosedUnwatched == \A fd \in Fds : sock[fd].link = "closed" => sock[fd].mask = {}

\* epoll reported an event of a socket: it is past connect().
ReportedIsUp == \A fd \in Fds : batch[fd] # {} => sock[fd].link \in {"up", "reset"}

\* What the code at each location knows of the connection.
AtLocation ==
  /\ pc \in {"flush_read", "flush_reading", "flush_write", "flush_writing", "flush_ctl"} =>
       state = "CONNECTED"
  /\ pc \in {"sock_reading", "sock_out"} => sock_fd \in Fds /\ batch[sock_fd] # {}

\* What the events of this iteration say of the connection.
EventsFresh ==
  /\ pc \in {"flush_read", "flush_reading", "flush_write", "flush_writing", "flush_ctl", "wait"} =>
       evs = {}
  /\ "connected" \in evs => batch[sock_fd] = {} /\ sock_fd \in Fds
  /\ "disconnected" \in evs => state = "DISCONNECTED" /\ next_conn = RetryDelay

\* The list in use, and the one a lookup has left to be picked up.
ListHeld ==
  /\ res <= res0
  /\ host.live => host.list # 0
  /\ "ADDR" \in signals => host.live \/ host.failed
  /\ state \in {"DISCONNECTED", "RESOLVING"} => res0 = 0
  /\ state \in {"RESOLVED", "CONNECTING", "CONNECTED"} /\ host.live => res0 = host.list

EventInv ==
  /\ TypeOK
  /\ LoopsHaveWork
  /\ SocketAgrees
  /\ LoginOnLiveConnection
  /\ OneLookup
  /\ ListLifetime
  /\ ClosedUnwatched
  /\ ReportedIsUp
  /\ AtLocation
  /\ ResolvedHoldsNone
  /\ EventsFresh
  /\ ListHeld

-----------------------------------------------------------------------------
(* Each step of the program and of its environment keeps the invariant.     *)

\* A closed descriptor and a fresh connection are sockets.
LEMMA FreshSockets ==
  /\ Closed \in Socket
  /\ [Closed EXCEPT !.link = "connecting", !.mask = InOut] \in Socket
<1>1. 0 \in 0 .. InCap /\ 0 \in 0 .. OutCap
  BY EventAssumption
<1>2. {} \in SUBSET Event /\ InOut \in SUBSET Event
  BY DEF InOut, Event
<1>3. Closed \in Socket
  BY <1>1, <1>2 DEF Closed, Socket
<1>4. [Closed EXCEPT !.link = "connecting"] \in Socket
  BY <1>3 DEF Socket
<1>5. [[Closed EXCEPT !.link = "connecting"] EXCEPT !.mask = InOut] \in Socket
  BY <1>2, <1>4 DEF Socket
<1> QED
  BY <1>3, <1>5

\* Initially nothing is open, nothing is running and nothing is waiting.
LEMMA EventInit == Init => EventInv
<1> SUFFICES ASSUME Init
             PROVE  EventInv
  OBVIOUS
<1> USE EventAssumption DEF Init, Fds, SigFd, NoFd
<1>1. TypeOK
  <2>1. sock \in [Fds -> Socket]
    BY FreshSockets
  <2>2. batch \in [Fds \cup {SigFd} -> SUBSET Event]
    OBVIOUS
  <2>3. /\ res0 \in 0 .. MaxAddrs /\ res \in 0 .. MaxAddrs
        /\ next_conn \in 0 .. RetryDelay /\ conn_timeout \in 0 .. ConnectTimeout
        /\ rcount \in 0 .. ReadCap /\ wcount \in 0 .. WriteCap
    OBVIOUS
  <2>4. host \in [list : 0 .. MaxAddrs, live : BOOLEAN, failed : BOOLEAN]
    OBVIOUS
  <2>5. /\ state \in State /\ pc \in Location /\ sock_fd \in Fds \cup {NoFd}
        /\ read_full \in BOOLEAN /\ write_full \in BOOLEAN
        /\ evs \subseteq {"connected", "disconnected", "sig_int"}
        /\ ctl \in {{}, InOnly, InOut} /\ ready \subseteq Fds \cup {SigFd}
        /\ signals \subseteq {"SIGINT", "ADDR"} /\ resolver \in {"idle", "busy"}
    BY DEF State, Location
  <2> QED
    BY <2>1, <2>2, <2>3, <2>4, <2>5 DEF TypeOK
<1>2. LoopsHaveWork /\ SocketAgrees /\ LoginOnLiveConnection
  BY DEF LoopsHaveWork, SocketAgrees, LoginOnLiveConnection, InLoops
<1>3. OneLookup /\ ListLifetime /\ ListHeld
  BY DEF OneLookup, ListLifetime, ListHeld
<1>4. ClosedUnwatched /\ ReportedIsUp /\ AtLocation /\ ResolvedHoldsNone /\ EventsFresh
  BY DEF ClosedUnwatched, ReportedIsUp, AtLocation, ResolvedHoldsNone, EventsFresh, Closed
<1> QED
  BY <1>1, <1>2, <1>3, <1>4 DEF EventInv

\* The top of the loop: time passes and the events of the last turn are gone.
LEMMA LoopTopKeeps ==
  ASSUME EventInv, NEW d \in 0 .. MaxElapsed, LoopTop(d)
  PROVE  EventInv'
<1> USE DEF EventInv, LoopTop, fifos, kernel
<1>1. TypeOK'
  BY EventAssumption DEF TypeOK, Remaining, NoEvents, State, Location, InLoops
<1>2. (LoopsHaveWork /\ SocketAgrees /\ LoginOnLiveConnection)'
  BY DEF LoopsHaveWork, SocketAgrees, LoginOnLiveConnection, InLoops, IsOpen, NoEvents
<1>3. (OneLookup /\ ListLifetime /\ ListHeld)'
  BY DEF OneLookup, ListLifetime, ListHeld
<1>4. (ClosedUnwatched /\ ReportedIsUp /\ AtLocation /\ ResolvedHoldsNone /\ EventsFresh)'
  BY DEF ClosedUnwatched, ReportedIsUp, AtLocation, ResolvedHoldsNone, EventsFresh, NoEvents
<1> QED
  BY <1>1, <1>2, <1>3, <1>4

\* do_read keeps the bytes it was told to read inside read_buf.
LEMMA DoReadKeeps ==
  ASSUME EventInv, NEW at, NEW after, DoRead(at, after),
         \/ at = "flush_reading" /\ after = "flush_write"
         \/ at = "sock_reading" /\ after = "sock_out"
  PROVE  EventInv'
<1> USE DEF EventInv, ctx, fifos, kernel
<1>1. /\ sock_fd \in Fds /\ sock[sock_fd] \in Socket /\ rcount < ReadCap
      /\ rcount \in Nat /\ ReadCap \in Nat /\ sock[sock_fd].inq \in 0 .. InCap /\ pc = at
      /\ sock[sock_fd].link \in {"up", "reset"}
  BY EventAssumption DEF DoRead, ReadBytes, ReadNothing, LoopsHaveWork, TypeOK, Socket, InLoops
<1>2. CASE ReadBytes(at, after)
  <2>1. PICK n \in 1 .. Lesser(ReadCap - rcount, sock[sock_fd].inq) :
          /\ rcount' = rcount + n
          /\ sock' = [sock EXCEPT ![sock_fd].inq = @ - n]
          /\ IF rcount + n = ReadCap
               THEN read_full' = TRUE /\ pc' = after
               ELSE UNCHANGED <<read_full, pc>>
    BY <1>2 DEF ReadBytes
  <2>2. UNCHANGED <<ctx, host, wcount, write_full, evs, batch, ctl, ready, signals, resolver>>
    BY <1>2 DEF ReadBytes
  <2>3. n <= ReadCap - rcount /\ n <= sock[sock_fd].inq /\ n \in Nat
    BY <1>1 DEF Lesser
  <2>4. \A fd \in Fds : /\ sock'[fd].link = sock[fd].link /\ sock'[fd].mask = sock[fd].mask
                        /\ sock'[fd] \in Socket
    <3> SUFFICES ASSUME NEW fd \in Fds
                 PROVE  /\ sock'[fd].link = sock[fd].link /\ sock'[fd].mask = sock[fd].mask
                        /\ sock'[fd] \in Socket
      OBVIOUS
    <3>1. CASE fd = sock_fd
      <4>1. sock'[fd] = [sock[fd] EXCEPT !.inq = sock[fd].inq - n]
        BY <2>1, <3>1 DEF TypeOK
      <4>2. sock[fd].inq - n \in 0 .. InCap
        BY <1>1, <2>3, <3>1, EventAssumption
      <4> QED
        BY <1>1, <3>1, <4>1, <4>2 DEF Socket
    <3>2. CASE fd # sock_fd
      BY <2>1, <3>2 DEF TypeOK, Socket
    <3> QED
      BY <3>1, <3>2
  <2>5. TypeOK'
    <3>1. sock' \in [Fds -> Socket]
      BY <2>1, <2>4 DEF TypeOK
    <3>2. rcount' \in 0 .. ReadCap
      BY <1>1, <2>1, <2>3
    <3>3. read_full' \in BOOLEAN /\ pc' \in Location
      BY <2>1, Zenon DEF TypeOK, Location, InLoops
    <3> QED
      BY <2>2, <3>1, <3>2, <3>3 DEF TypeOK
  <2>6. (LoopsHaveWork /\ SocketAgrees /\ LoginOnLiveConnection)'
    BY <1>1, <2>1, <2>2, <2>3, <2>4 DEF LoopsHaveWork, SocketAgrees, LoginOnLiveConnection, InLoops, IsOpen
  <2>7. (OneLookup /\ ListLifetime /\ ListHeld)'
    BY <2>2 DEF OneLookup, ListLifetime, ListHeld
  <2>8. (ClosedUnwatched /\ ReportedIsUp /\ AtLocation /\ ResolvedHoldsNone /\ EventsFresh)'
    BY <1>1, <2>1, <2>2, <2>4
    DEF ClosedUnwatched, ReportedIsUp, AtLocation, ResolvedHoldsNone, EventsFresh
  <2> QED
    BY <2>5, <2>6, <2>7, <2>8
<1>3. CASE ReadNothing(at, after)
  <2>1. /\ pc' \in {after, "aborted"}
        /\ UNCHANGED <<ctx, host, fifos, evs, batch, ctl, kernel>>
    BY <1>3 DEF ReadNothing
  <2>2. TypeOK'
    BY <2>1 DEF TypeOK, Location, InLoops, Stopped
  <2>3. (LoopsHaveWork /\ SocketAgrees /\ LoginOnLiveConnection)'
    BY <2>1 DEF LoopsHaveWork, SocketAgrees, LoginOnLiveConnection, InLoops, IsOpen
  <2>4. (OneLookup /\ ListLifetime /\ ListHeld)'
    BY <2>1 DEF OneLookup, ListLifetime, ListHeld
  <2>5. (ClosedUnwatched /\ ReportedIsUp /\ AtLocation /\ ResolvedHoldsNone /\ EventsFresh)'
    BY <1>1, <2>1
    DEF ClosedUnwatched, ReportedIsUp, AtLocation, ResolvedHoldsNone, EventsFresh
  <2> QED
    BY <2>2, <2>3, <2>4, <2>5
<1> QED
  BY <1>2, <1>3 DEF DoRead

\* do_write keeps to the bytes that are in write_buf and to the room in the
\* kernel's queue.
LEMMA DoWriteKeeps ==
  ASSUME EventInv, NEW at, NEW after, DoWrite(at, after),
         \/ at = "flush_writing" /\ after = "flush_ctl"
         \/ at = "sock_writing" /\ after = "dispatch"
  PROVE  EventInv'
<1> USE DEF EventInv, ctx, fifos, kernel
<1>1. /\ sock_fd \in Fds /\ sock[sock_fd] \in Socket /\ wcount > 0
      /\ wcount \in 0 .. WriteCap /\ WriteCap \in Nat
      /\ sock[sock_fd].outq \in 0 .. OutCap /\ OutCap \in Nat /\ pc = at
  BY EventAssumption DEF DoWrite, WriteBytes, WriteNothing, LoopsHaveWork, TypeOK, Socket, InLoops
<1>2. CASE WriteBytes(at, after)
  <2>1. PICK n \in 1 .. Lesser(wcount, OutCap - sock[sock_fd].outq) :
          /\ wcount' = wcount - n
          /\ sock' = [sock EXCEPT ![sock_fd].outq = @ + n]
          /\ pc' = IF wcount = n THEN after ELSE at
    BY <1>2 DEF WriteBytes
  <2>2. UNCHANGED <<ctx, host, rcount, read_full, write_full, evs, batch, ctl, ready, signals, resolver>>
    BY <1>2 DEF WriteBytes
  <2>3. n <= wcount /\ n <= OutCap - sock[sock_fd].outq /\ n \in Nat
    BY <1>1 DEF Lesser
  <2>4. \A fd \in Fds : /\ sock'[fd].link = sock[fd].link /\ sock'[fd].mask = sock[fd].mask
                        /\ sock'[fd] \in Socket
    <3> SUFFICES ASSUME NEW fd \in Fds
                 PROVE  /\ sock'[fd].link = sock[fd].link /\ sock'[fd].mask = sock[fd].mask
                        /\ sock'[fd] \in Socket
      OBVIOUS
    <3>1. CASE fd = sock_fd
      <4>1. sock'[fd] = [sock[fd] EXCEPT !.outq = sock[fd].outq + n]
        BY <2>1, <3>1 DEF TypeOK
      <4>2. sock[fd].outq + n \in 0 .. OutCap
        BY <1>1, <2>3, <3>1
      <4> QED
        BY <1>1, <3>1, <4>1, <4>2 DEF Socket
    <3>2. CASE fd # sock_fd
      BY <2>1, <3>2 DEF TypeOK, Socket
    <3> QED
      BY <3>1, <3>2
  <2>5. TypeOK'
    <3>1. sock' \in [Fds -> Socket]
      BY <2>1, <2>4 DEF TypeOK
    <3>2. wcount' \in 0 .. WriteCap
      BY <1>1, <2>1, <2>3
    <3>3. pc' \in Location
      BY <1>1, <2>1 DEF Location, InLoops
    <3> QED
      BY <2>2, <3>1, <3>2, <3>3 DEF TypeOK
  <2>6. (LoopsHaveWork /\ SocketAgrees /\ LoginOnLiveConnection)'
    <3>1. pc' = at => wcount' > 0
      BY <1>1, <2>1, <2>3
    <3> QED
      BY <1>1, <2>1, <2>2, <2>4, <3>1
      DEF LoopsHaveWork, SocketAgrees, LoginOnLiveConnection, InLoops, IsOpen
  <2>7. (OneLookup /\ ListLifetime /\ ListHeld)'
    BY <2>2 DEF OneLookup, ListLifetime, ListHeld
  <2>8. (ClosedUnwatched /\ ReportedIsUp /\ AtLocation /\ ResolvedHoldsNone /\ EventsFresh)'
    BY <1>1, <2>1, <2>2, <2>4
    DEF ClosedUnwatched, ReportedIsUp, AtLocation, ResolvedHoldsNone, EventsFresh
  <2> QED
    BY <2>5, <2>6, <2>7, <2>8
<1>3. CASE WriteNothing(at, after)
  <2>1. /\ pc' \in {after, "aborted"} /\ write_full' \in {write_full, TRUE}
        /\ UNCHANGED <<ctx, host, rcount, wcount, read_full, evs, batch, ctl, kernel>>
    BY <1>3 DEF WriteNothing
  <2>2. TypeOK'
    BY <2>1 DEF TypeOK, Location, InLoops, Stopped
  <2>3. (LoopsHaveWork /\ SocketAgrees /\ LoginOnLiveConnection)'
    BY <2>1 DEF LoopsHaveWork, SocketAgrees, LoginOnLiveConnection, InLoops, IsOpen
  <2>4. (OneLookup /\ ListLifetime /\ ListHeld)'
    BY <2>1 DEF OneLookup, ListLifetime, ListHeld
  <2>5. (ClosedUnwatched /\ ReportedIsUp /\ AtLocation /\ ResolvedHoldsNone /\ EventsFresh)'
    BY <1>1, <2>1
    DEF ClosedUnwatched, ReportedIsUp, AtLocation, ResolvedHoldsNone, EventsFresh
  <2> QED
    BY <2>2, <2>3, <2>4, <2>5
<1> QED
  BY <1>2, <1>3 DEF DoWrite

\* The two halves of rp_tryflush read or write only with room or data.
LEMMA FlushChoiceKeeps ==
  ASSUME EventInv, FlushRead \/ FlushWrite
  PROVE  EventInv'
<1> USE DEF EventInv, ctx, fifos, kernel
<1>1. /\ \/ pc = "flush_read" /\ pc' \in {"flush_reading", "flush_write"}
         \/ pc = "flush_write" /\ pc' \in {"flush_writing", "flush_ctl"}
      /\ pc' = "flush_reading" => rcount < ReadCap
      /\ pc' = "flush_writing" => wcount > 0
      /\ ctl' \in {ctl, InOnly, InOut}
      /\ UNCHANGED <<ctx, host, fifos, evs, batch, kernel>>
  BY DEF FlushRead, FlushWrite, CanRead, CanWrite, ReadInterest, WriteInterest
<1>2. TypeOK'
  BY <1>1 DEF TypeOK, Location, InLoops
<1>3. (LoopsHaveWork /\ SocketAgrees /\ LoginOnLiveConnection)'
  BY <1>1 DEF LoopsHaveWork, SocketAgrees, LoginOnLiveConnection, AtLocation, InLoops, IsOpen
<1>4. (OneLookup /\ ListLifetime /\ ListHeld)'
  BY <1>1 DEF OneLookup, ListLifetime, ListHeld
<1>5. (ClosedUnwatched /\ ReportedIsUp /\ AtLocation /\ ResolvedHoldsNone /\ EventsFresh)'
  BY <1>1 DEF ClosedUnwatched, ReportedIsUp, AtLocation, ResolvedHoldsNone, EventsFresh
<1> QED
  BY <1>2, <1>3, <1>4, <1>5

\* Whatever it asks epoll for, rp_tryflush keeps input and loss watched.
LEMMA FlushCtlKeeps ==
  ASSUME EventInv, FlushCtl
  PROVE  EventInv'
<1> USE DEF EventInv, ctx, fifos
<1>1. /\ pc = "flush_ctl" /\ pc' = "wait" /\ ctl' = {} /\ state = "CONNECTED" /\ sock_fd \in Fds
      /\ UNCHANGED <<ctx, host, fifos, evs, batch, signals, resolver>>
      /\ ready' \subseteq ready \cup {sock_fd}
  BY DEF FlushCtl, AtLocation, SocketAgrees, Armed
<1>2. ASSUME NEW fd \in Fds
      PROVE  /\ sock'[fd] \in Socket /\ sock'[fd].link = sock[fd].link
             /\ sock'[fd].mask = sock[fd].mask \/ (fd = sock_fd /\ sock'[fd].mask \in {InOnly, InOut})
  <2>1. sock[fd] \in Socket /\ ctl \in {{}, InOnly, InOut} /\ InOnly \in SUBSET Event /\ InOut \in SUBSET Event
    BY DEF TypeOK, InOnly, InOut, Event
  <2>2. sock'[fd] = sock[fd] \/ (fd = sock_fd /\ ctl # {} /\ sock'[fd] = [sock[fd] EXCEPT !.mask = ctl])
    BY DEF FlushCtl, TypeOK
  <2> QED
    BY <2>1, <2>2 DEF Socket
<1>3. sock' \in [Fds -> Socket]
  <2>1. DOMAIN sock' = Fds /\ sock' = [fd \in Fds |-> sock'[fd]]
    BY DEF FlushCtl, TypeOK
  <2> QED
    BY <1>2, <2>1
<1>4. TypeOK'
  BY <1>1, <1>3 DEF TypeOK, Location
<1>5. (LoopsHaveWork /\ SocketAgrees /\ LoginOnLiveConnection)'
  BY <1>1, <1>2 DEF LoopsHaveWork, SocketAgrees, LoginOnLiveConnection, InLoops, IsOpen, InOnly, InOut
<1>6. (OneLookup /\ ListLifetime /\ ListHeld)'
  BY <1>1 DEF OneLookup, ListLifetime, ListHeld
<1>7. (ClosedUnwatched /\ ReportedIsUp /\ AtLocation /\ ResolvedHoldsNone /\ EventsFresh)'
  BY <1>1, <1>2
  DEF ClosedUnwatched, ReportedIsUp, AtLocation, ResolvedHoldsNone, EventsFresh, SocketAgrees
<1> QED
  BY <1>4, <1>5, <1>6, <1>7

\* epoll reports sockets that are up or lost, never one still connecting.
LEMMA EpollWaitKeeps ==
  ASSUME EventInv, EpollWait
  PROVE  EventInv'
<1> USE DEF EventInv, EpollWait, ctx, fifos
<1>1. \A fd \in Fds : fd # SigFd
  BY DEF Fds, SigFd
<1>2. ASSUME NEW fd \in Fds
      PROVE  batch'[fd] = {} \/ batch'[fd] = EventsOf(sock[fd])
  BY <1>1
<1>3. ASSUME NEW fd \in Fds, EventsOf(sock[fd]) # {}
      PROVE  sock[fd].link \in {"up", "reset"}
  BY <1>3 DEF EventsOf
<1>4. batch' \in [Fds \cup {SigFd} -> SUBSET Event]
  <2>1. SigEvents \in SUBSET Event
    BY DEF SigEvents, Event
  <2>2. ASSUME NEW fd \in Fds
        PROVE  EventsOf(sock[fd]) \in SUBSET Event
    BY DEF TypeOK, Socket, EventsOf
  <2> QED
    BY <1>1, <2>1, <2>2
<1>5. TypeOK'
  BY <1>4 DEF TypeOK, Location
<1>6. (LoopsHaveWork /\ SocketAgrees /\ LoginOnLiveConnection)'
  BY <1>2, <1>3 DEF LoopsHaveWork, SocketAgrees, LoginOnLiveConnection, InLoops, IsOpen, EventsFresh
<1>7. (OneLookup /\ ListLifetime /\ ListHeld)'
  BY DEF OneLookup, ListLifetime, ListHeld
<1>8. (ClosedUnwatched /\ ReportedIsUp /\ AtLocation /\ ResolvedHoldsNone /\ EventsFresh)'
  BY <1>2, <1>3
  DEF ClosedUnwatched, ReportedIsUp, AtLocation, ResolvedHoldsNone, EventsFresh
<1> QED
  BY <1>5, <1>6, <1>7, <1>8

\* A failing epoll_wait changes nothing but the place in the code.
LEMMA EpollFailsKeeps ==
  ASSUME EventInv, EpollFails
  PROVE  EventInv'
<1> USE DEF EventInv, ctx, fifos, kernel
<1>1. pc = "wait" /\ pc' \in {"main", "exited"} /\ UNCHANGED <<ctx, host, fifos, evs, batch, ctl, kernel>>
  BY DEF EpollFails
<1>2. TypeOK'
  BY <1>1 DEF TypeOK, Location, Stopped
<1>3. (LoopsHaveWork /\ SocketAgrees /\ LoginOnLiveConnection)'
  BY <1>1 DEF LoopsHaveWork, SocketAgrees, LoginOnLiveConnection, InLoops, IsOpen
<1>4. (OneLookup /\ ListLifetime /\ ListHeld)'
  BY <1>1 DEF OneLookup, ListLifetime, ListHeld
<1>5. (ClosedUnwatched /\ ReportedIsUp /\ AtLocation /\ ResolvedHoldsNone /\ EventsFresh)'
  BY <1>1 DEF ClosedUnwatched, ReportedIsUp, AtLocation, ResolvedHoldsNone, EventsFresh
<1> QED
  BY <1>2, <1>3, <1>4, <1>5

(***************************************************************************)
(* rp_disconnect: what it closes is unregistered, and the list it frees is  *)
(* the one that was in use, so none is left allocated.                      *)
(***************************************************************************)
LEMMA DisconnectCleans ==
  ASSUME EventInv, RpDisconnect, state \notin {"DISCONNECTED", "RESOLVING"}
  PROVE  /\ sock' \in [Fds -> Socket]
         /\ \A fd \in Fds : sock'[fd] = IF fd = sock_fd THEN Closed ELSE sock[fd]
         /\ ready' \subseteq Fds \cup {SigFd}
         /\ state' = "DISCONNECTED" /\ sock_fd' = NoFd /\ NoFd \notin Fds
         /\ next_conn' = RetryDelay /\ next_conn' \in 0 .. RetryDelay
         /\ conn_timeout' = conn_timeout
         /\ res0' = 0 /\ res' = 0
         /\ host' \in [list : 0 .. MaxAddrs, live : BOOLEAN, failed : BOOLEAN]
         /\ ~host'.live /\ host'.list = host.list /\ host'.failed = host.failed
<1> USE DEF EventInv, RpDisconnect, CloseSocket, RpFreeAddrInfo
<1>1. sock' \in [Fds -> Socket]
  BY FreshSockets DEF TypeOK
<1>2. \A fd \in Fds : sock'[fd] = IF fd = sock_fd THEN Closed ELSE sock[fd]
  OBVIOUS
<1>3. ready' \subseteq Fds \cup {SigFd}
  BY DEF TypeOK
<1>4. NoFd \notin Fds /\ RetryDelay \in 0 .. RetryDelay /\ 0 \in 0 .. MaxAddrs
  BY EventAssumption DEF NoFd, Fds
<1>5. /\ host' = [host EXCEPT !.live = host.live /\ res0 = 0]
      /\ host \in [list : 0 .. MaxAddrs, live : BOOLEAN, failed : BOOLEAN]
  BY DEF TypeOK
<1>6. host.live => res0 # 0
  BY DEF TypeOK, State, ListHeld
<1>7. (host.live /\ res0 = 0) = FALSE
  BY <1>5, <1>6
<1>8. host' = [host EXCEPT !.live = FALSE]
  BY <1>5, <1>7
<1>9. /\ host' \in [list : 0 .. MaxAddrs, live : BOOLEAN, failed : BOOLEAN]
      /\ ~host'.live /\ host'.list = host.list /\ host'.failed = host.failed
  BY <1>5, <1>8
<1> QED
  BY <1>1, <1>2, <1>3, <1>4, <1>9

\* handle_sock_event: either the connection is given up, or there is an event
\* to handle on a socket that is up.
LEMMA SockEventKeeps ==
  ASSUME EventInv, SockEvent
  PROVE  EventInv'
<1> USE DEF EventInv
<1>1. /\ pc = "dispatch" /\ sock_fd \in Fds /\ batch[sock_fd] # {}
      /\ sock[sock_fd].link \in {"up", "reset"}
      /\ UNCHANGED <<fifos, ctl, signals, resolver>>
  BY DEF SockEvent, ReportedIsUp
<1>2. state \in {"CONNECTING", "CONNECTED"}
  BY <1>1 DEF TypeOK, State, SocketAgrees, ResolvedHoldsNone, NoFd, Fds
<1>3. CASE "HANGUP" \in batch[sock_fd]
  <2>1. /\ RpDisconnect /\ evs' = evs \cup {"disconnected"} /\ pc' = "dispatch"
        /\ batch' = [batch EXCEPT ![sock_fd] = {}]
    BY <1>1, <1>3 DEF SockEvent
  <2>2. /\ sock' \in [Fds -> Socket]
        /\ \A fd \in Fds : sock'[fd] = IF fd = sock_fd THEN Closed ELSE sock[fd]
        /\ ready' \subseteq Fds \cup {SigFd}
        /\ state' = "DISCONNECTED" /\ sock_fd' = NoFd /\ NoFd \notin Fds
        /\ next_conn' = RetryDelay /\ next_conn' \in 0 .. RetryDelay
        /\ conn_timeout' = conn_timeout
        /\ res0' = 0 /\ res' = 0
        /\ host' \in [list : 0 .. MaxAddrs, live : BOOLEAN, failed : BOOLEAN]
        /\ ~host'.live /\ host'.list = host.list /\ host'.failed = host.failed
    BY <1>2, <2>1, DisconnectCleans
  <2>3. batch' \in [Fds \cup {SigFd} -> SUBSET Event] /\ batch'[sock_fd] = {}
        /\ \A fd \in Fds : fd # sock_fd => batch'[fd] = batch[fd]
    BY <1>1, <2>1 DEF TypeOK
  <2>4. "connected" \notin evs /\ resolver # "busy" /\ "ADDR" \notin signals
    BY <1>1, <1>2 DEF EventsFresh, OneLookup
  <2>5. TypeOK'
    <3>1. 0 \in 0 .. MaxAddrs
      BY EventAssumption
    <3> QED
      BY <1>1, <2>1, <2>2, <2>3, <3>1 DEF TypeOK, State, Location, fifos
  <2>6. (LoopsHaveWork /\ SocketAgrees /\ LoginOnLiveConnection)'
    BY <2>1, <2>2, <2>3, <2>4
    DEF LoopsHaveWork, SocketAgrees, LoginOnLiveConnection, InLoops, IsOpen
  <2>7. (OneLookup /\ ListLifetime /\ ListHeld)'
    BY <1>1, <2>2, <2>4 DEF OneLookup, ListLifetime, ListHeld
  <2>8. (ClosedUnwatched /\ ReportedIsUp /\ AtLocation /\ ResolvedHoldsNone /\ EventsFresh)'
    BY <1>1, <2>1, <2>2, <2>3, <2>4
    DEF ClosedUnwatched, ReportedIsUp, AtLocation, ResolvedHoldsNone, EventsFresh, Closed
  <2> QED
    BY <2>5, <2>6, <2>7, <2>8
<1>4. CASE "HANGUP" \notin batch[sock_fd]
  <2>1. /\ pc' \in {"sock_reading", "sock_out"}
        /\ pc' = "sock_reading" => rcount < ReadCap
        /\ UNCHANGED <<ctx, host, fifos, evs, batch, ctl, kernel>>
    BY <1>1, <1>4 DEF SockEvent, CanRead, kernel
  <2> USE DEF ctx, fifos, kernel
  <2>2. TypeOK'
    BY <2>1 DEF TypeOK, Location, InLoops
  <2>3. (LoopsHaveWork /\ SocketAgrees /\ LoginOnLiveConnection)'
    BY <1>1, <2>1 DEF LoopsHaveWork, SocketAgrees, LoginOnLiveConnection, InLoops, IsOpen
  <2>4. (OneLookup /\ ListLifetime /\ ListHeld)'
    BY <2>1 DEF OneLookup, ListLifetime, ListHeld
  <2>5. (ClosedUnwatched /\ ReportedIsUp /\ AtLocation /\ ResolvedHoldsNone /\ EventsFresh)'
    BY <1>1, <2>1 DEF ClosedUnwatched, ReportedIsUp, AtLocation, ResolvedHoldsNone, EventsFresh
  <2> QED
    BY <2>2, <2>3, <2>4, <2>5
<1> QED
  BY <1>3, <1>4

\* The rest of handle_sock_event: a connection that comes up is watched.
LEMMA SockOutKeeps ==
  ASSUME EventInv, SockOut
  PROVE  EventInv'
<1> USE DEF EventInv
<1>1. /\ pc = "sock_out" /\ sock_fd \in Fds /\ batch[sock_fd] # {}
      /\ sock[sock_fd].link \in {"up", "reset"} /\ sock[sock_fd] \in Socket
      /\ UNCHANGED <<sock_fd, res0, res, next_conn, conn_timeout, host, fifos, ctl, signals, resolver>>
  BY DEF SockOut, AtLocation, ReportedIsUp, TypeOK
<1>2. batch' \in [Fds \cup {SigFd} -> SUBSET Event] /\ batch'[sock_fd] = {}
      /\ \A fd \in Fds : fd # sock_fd => batch'[fd] = batch[fd]
  BY <1>1 DEF SockOut, TypeOK
<1>3. CASE "OUT" \in batch[sock_fd] /\ state = "CONNECTING"
  <2>1. /\ sock' = [sock EXCEPT ![sock_fd].mask = InOnly] /\ ready' \subseteq ready \cup {sock_fd}
        /\ state' = "CONNECTED" /\ evs' = evs \cup {"connected"} /\ pc' = "dispatch"
    BY <1>3 DEF SockOut, Armed
  <2>2. InOnly \in SUBSET Event
    BY DEF InOnly, Event
  <2>3. sock'[sock_fd] = [sock[sock_fd] EXCEPT !.mask = InOnly]
        /\ \A fd \in Fds : fd # sock_fd => sock'[fd] = sock[fd]
    BY <1>1, <2>1 DEF TypeOK
  <2>4. sock'[sock_fd] \in Socket /\ sock'[sock_fd].link = sock[sock_fd].link /\ sock'[sock_fd].mask = InOnly
    BY <1>1, <2>2, <2>3 DEF Socket
  <2>5. sock' \in [Fds -> Socket]
    <3>1. \A fd \in Fds : sock'[fd] \in Socket
      BY <2>3, <2>4 DEF TypeOK
    <3> QED
      BY <2>1, <3>1 DEF TypeOK
  <2>6. "disconnected" \notin evs /\ resolver # "busy" /\ "ADDR" \notin signals
    BY <1>3 DEF EventsFresh, OneLookup
  <2>7. TypeOK'
    BY <1>1, <1>2, <2>1, <2>5 DEF TypeOK, State, Location, fifos
  <2>8. (LoopsHaveWork /\ SocketAgrees /\ LoginOnLiveConnection)'
    BY <1>1, <1>2, <2>1, <2>3, <2>4, <2>6
    DEF LoopsHaveWork, SocketAgrees, LoginOnLiveConnection, InLoops, IsOpen
  <2>9. (OneLookup /\ ListLifetime /\ ListHeld)'
    BY <1>1, <1>3, <2>1, <2>6 DEF OneLookup, ListLifetime, ListHeld
  <2>10. (ClosedUnwatched /\ ReportedIsUp /\ AtLocation /\ ResolvedHoldsNone /\ EventsFresh)'
    BY <1>1, <1>2, <2>1, <2>3, <2>4, <2>6
    DEF ClosedUnwatched, ReportedIsUp, AtLocation, ResolvedHoldsNone, EventsFresh
  <2> QED
    BY <2>7, <2>8, <2>9, <2>10
<1>4. CASE ~("OUT" \in batch[sock_fd] /\ state = "CONNECTING")
  <2>1. /\ pc' \in {"sock_writing", "dispatch"}
        /\ pc' = "sock_writing" => wcount > 0
        /\ UNCHANGED <<sock, ready, state, evs>>
    BY <1>4 DEF SockOut, CanWrite
  <2>2. TypeOK'
    BY <1>1, <1>2, <2>1 DEF TypeOK, Location, InLoops, fifos
  <2>3. (LoopsHaveWork /\ SocketAgrees /\ LoginOnLiveConnection)'
    BY <1>1, <1>2, <2>1
    DEF LoopsHaveWork, SocketAgrees, LoginOnLiveConnection, InLoops, IsOpen, fifos
  <2>4. (OneLookup /\ ListLifetime /\ ListHeld)'
    BY <1>1, <2>1 DEF OneLookup, ListLifetime, ListHeld
  <2>5. (ClosedUnwatched /\ ReportedIsUp /\ AtLocation /\ ResolvedHoldsNone /\ EventsFresh)'
    BY <1>1, <1>2, <2>1
    DEF ClosedUnwatched, ReportedIsUp, AtLocation, ResolvedHoldsNone, EventsFresh
  <2> QED
    BY <2>2, <2>3, <2>4, <2>5
<1> QED
  BY <1>3, <1>4

\* handle_sig_event: an answer is only waiting while the name is being resolved.
LEMMA SigEventKeeps ==
  ASSUME EventInv, SigEvent
  PROVE  EventInv'
<1> USE DEF EventInv, SigEvent, Deliver
<1>1. /\ pc = "dispatch" /\ signals' = {}
      /\ evs' \in {evs, evs \cup {"sig_int"}}
      /\ UNCHANGED <<sock_fd, next_conn, conn_timeout, host, fifos, pc, ctl, sock, ready, resolver>>
  OBVIOUS
<1>2. batch' \in [Fds \cup {SigFd} -> SUBSET Event]
      /\ \A fd \in Fds : batch'[fd] = batch[fd]
  BY DEF TypeOK, SigFd, Fds
<1>3. CASE "ADDR" \in signals
  <2>1. /\ res0' = host.list /\ res' = 0 /\ state' = "RESOLVED"
        /\ state = "RESOLVING" /\ sock_fd = NoFd /\ NoFd \notin Fds /\ resolver # "busy"
        /\ "connected" \notin evs /\ "disconnected" \notin evs
    BY <1>3 DEF OneLookup, SocketAgrees, LoginOnLiveConnection, EventsFresh, NoFd, Fds
  <2>2. host.list \in 0 .. MaxAddrs /\ 0 \in 0 .. MaxAddrs
    BY EventAssumption DEF TypeOK
  <2>3. TypeOK'
    BY <1>1, <1>2, <2>1, <2>2 DEF TypeOK, State, fifos
  <2>4. (LoopsHaveWork /\ SocketAgrees /\ LoginOnLiveConnection)'
    BY <1>1, <1>2, <2>1
    DEF LoopsHaveWork, SocketAgrees, LoginOnLiveConnection, InLoops, IsOpen
  <2>5. (OneLookup /\ ListLifetime /\ ListHeld)'
    BY <1>1, <1>3, <2>1, <2>2 DEF OneLookup, ListLifetime, ListHeld
  <2>6. (ClosedUnwatched /\ ReportedIsUp /\ AtLocation /\ ResolvedHoldsNone /\ EventsFresh)'
    BY <1>1, <1>2, <2>1
    DEF ClosedUnwatched, ReportedIsUp, AtLocation, ResolvedHoldsNone, EventsFresh
  <2> QED
    BY <2>3, <2>4, <2>5, <2>6
<1>4. CASE "ADDR" \notin signals
  <2>1. UNCHANGED <<res0, res, state>>
    BY <1>4
  <2>2. TypeOK'
    BY <1>1, <1>2, <2>1 DEF TypeOK, fifos
  <2>3. (LoopsHaveWork /\ SocketAgrees /\ LoginOnLiveConnection)'
    BY <1>1, <1>2, <2>1
    DEF LoopsHaveWork, SocketAgrees, LoginOnLiveConnection, InLoops, IsOpen
  <2>4. (OneLookup /\ ListLifetime /\ ListHeld)'
    BY <1>1, <2>1 DEF OneLookup, ListLifetime, ListHeld
  <2>5. (ClosedUnwatched /\ ReportedIsUp /\ AtLocation /\ ResolvedHoldsNone /\ EventsFresh)'
    BY <1>1, <1>2, <2>1
    DEF ClosedUnwatched, ReportedIsUp, AtLocation, ResolvedHoldsNone, EventsFresh
  <2> QED
    BY <2>2, <2>3, <2>4, <2>5
<1> QED
  BY <1>3, <1>4

\* An event nobody handles is forgotten.
LEMMA OtherEventKeeps ==
  ASSUME EventInv, OtherEvent
  PROVE  EventInv'
<1> USE DEF EventInv, ctx, fifos, kernel
<1>1. PICK fd \in Fds \ {sock_fd} : batch' = [batch EXCEPT ![fd] = {}]
  BY DEF OtherEvent
<1>2. UNCHANGED <<ctx, host, fifos, pc, evs, ctl, kernel>>
  BY DEF OtherEvent
<1>3. /\ batch' \in [Fds \cup {SigFd} -> SUBSET Event]
      /\ \A other \in Fds : batch'[other] \in {{}, batch[other]}
      /\ sock_fd \in Fds => batch'[sock_fd] = batch[sock_fd]
  BY <1>1 DEF TypeOK
<1>4. TypeOK'
  BY <1>2, <1>3 DEF TypeOK
<1>5. (LoopsHaveWork /\ SocketAgrees /\ LoginOnLiveConnection)'
  BY <1>2, <1>3 DEF LoopsHaveWork, SocketAgrees, LoginOnLiveConnection, InLoops, IsOpen
<1>6. (OneLookup /\ ListLifetime /\ ListHeld)'
  BY <1>2 DEF OneLookup, ListLifetime, ListHeld
<1>7. (ClosedUnwatched /\ ReportedIsUp /\ AtLocation /\ ResolvedHoldsNone /\ EventsFresh)'
  BY <1>2, <1>3 DEF ClosedUnwatched, ReportedIsUp, AtLocation, ResolvedHoldsNone, EventsFresh
<1> QED
  BY <1>4, <1>5, <1>6, <1>7

(***************************************************************************)
(* rp_tryconnect, called between two batches of events: whether it gives    *)
(* up, fails or starts a connection, the context never holds an open socket *)
(* in a state that should hold none.                                        *)
(***************************************************************************)
LEMMA TryConnectKeeps ==
  ASSUME EventInv, pc = "dispatch", \A fd \in Fds \cup {SigFd} : batch[fd] = {},
         ConnectDue, RpTryConnect,
         UNCHANGED <<fifos, evs, batch, ctl, signals, resolver>>
  PROVE  EventInv'
<1> USE DEF EventInv
<1>1. state \in {"RESOLVED", "CONNECTING"} /\ resolver # "busy" /\ "ADDR" \notin signals
      /\ "disconnected" \notin evs
  BY DEF ConnectDue, OneLookup, EventsFresh
<1>2. "connected" \notin evs
  BY DEF ConnectDue, LoginOnLiveConnection
<1>3. CASE NextAddr = 0
  <2>1. RpDisconnect /\ pc' = "main"
    BY <1>3 DEF RpTryConnect
  <2>2. /\ sock' \in [Fds -> Socket]
        /\ \A fd \in Fds : sock'[fd] = IF fd = sock_fd THEN Closed ELSE sock[fd]
        /\ ready' \subseteq Fds \cup {SigFd}
        /\ state' = "DISCONNECTED" /\ sock_fd' = NoFd /\ NoFd \notin Fds
        /\ next_conn' = RetryDelay /\ next_conn' \in 0 .. RetryDelay
        /\ conn_timeout' = conn_timeout
        /\ res0' = 0 /\ res' = 0
        /\ host' \in [list : 0 .. MaxAddrs, live : BOOLEAN, failed : BOOLEAN]
        /\ ~host'.live /\ host'.list = host.list /\ host'.failed = host.failed
    BY <1>1, <2>1, DisconnectCleans
  <2>3. TypeOK'
    <3>1. 0 \in 0 .. MaxAddrs
      BY EventAssumption
    <3> QED
      BY <2>1, <2>2, <3>1 DEF TypeOK, State, Location, fifos
  <2>4. (LoopsHaveWork /\ SocketAgrees /\ LoginOnLiveConnection)'
    BY <1>2, <2>1, <2>2
    DEF LoopsHaveWork, SocketAgrees, LoginOnLiveConnection, InLoops, IsOpen
  <2>5. (OneLookup /\ ListLifetime /\ ListHeld)'
    BY <1>1, <2>2 DEF OneLookup, ListLifetime, ListHeld
  <2>6. (ClosedUnwatched /\ ReportedIsUp /\ AtLocation /\ ResolvedHoldsNone /\ EventsFresh)'
    BY <1>1, <1>2, <2>1, <2>2
    DEF ClosedUnwatched, ReportedIsUp, AtLocation, ResolvedHoldsNone, EventsFresh, Closed
  <2> QED
    BY <2>3, <2>4, <2>5, <2>6
<1>4. CASE NextAddr # 0 /\ ~host.live
  <2>1. pc' = "undefined" /\ UNCHANGED <<ctx, host, sock, ready>>
    BY <1>4 DEF RpTryConnect
  <2> USE DEF ctx, fifos
  <2>2. TypeOK'
    BY <2>1 DEF TypeOK, Location, Stopped
  <2>3. (LoopsHaveWork /\ SocketAgrees /\ LoginOnLiveConnection)'
    BY <2>1 DEF LoopsHaveWork, SocketAgrees, LoginOnLiveConnection, InLoops, IsOpen
  <2>4. (OneLookup /\ ListLifetime /\ ListHeld)'
    BY <2>1 DEF OneLookup, ListLifetime, ListHeld
  <2>5. (ClosedUnwatched /\ ReportedIsUp /\ AtLocation /\ ResolvedHoldsNone /\ EventsFresh)'
    BY <2>1 DEF ClosedUnwatched, ReportedIsUp, AtLocation, ResolvedHoldsNone, EventsFresh
  <2> QED
    BY <2>2, <2>3, <2>4, <2>5
<1>5. CASE NextAddr # 0 /\ host.live
  <2>1. /\ res' = NextAddr /\ pc' = "main" /\ res0' = res0 /\ host' = host
        /\ ConnFail \/ ConnStarted
    BY <1>5 DEF RpTryConnect
  <2>2. NextAddr = res + 1 /\ res < res0 /\ res + 1 \in 0 .. MaxAddrs /\ res + 1 <= res0
    BY <1>5, EventAssumption DEF NextAddr, TypeOK
  <2>3. (OneLookup /\ ListLifetime /\ ListHeld)'
    <3>1. state' = state \/ state' = "CONNECTING"
      BY <2>1 DEF ConnFail, ConnStarted
    <3>2. state' \in {"RESOLVED", "CONNECTING"}
      BY <1>1, <3>1
    <3> QED
      BY <1>1, <1>5, <2>1, <2>2, <3>2 DEF OneLookup, ListLifetime, ListHeld
  <2>4. CASE ConnFail
    <3>1. /\ sock_fd' = NoFd \/ (sock_fd' \in Fds /\ sock[sock_fd'].link = "closed")
          /\ next_conn' = RetryDelay
          /\ UNCHANGED <<state, conn_timeout, sock, ready>>
      BY <2>4 DEF ConnFail, NewFds, IsOpen
    <3>2. NoFd \notin Fds /\ RetryDelay \in 0 .. RetryDelay
      BY EventAssumption DEF NoFd, Fds
    <3>3. TypeOK'
      <4>1. sock_fd' \in Fds \cup {NoFd} /\ res' \in 0 .. MaxAddrs /\ next_conn' \in 0 .. RetryDelay
        BY <2>1, <2>2, <3>1, <3>2
      <4>2. pc' \in Location
        BY <2>1 DEF Location
      <4> QED
        BY <2>1, <3>1, <4>1, <4>2 DEF TypeOK, fifos
    <3>4. (LoopsHaveWork /\ SocketAgrees /\ LoginOnLiveConnection)'
      BY <1>1, <1>2, <2>1, <3>1 DEF LoopsHaveWork, SocketAgrees, LoginOnLiveConnection, InLoops, IsOpen
    <3>5. (ClosedUnwatched /\ ReportedIsUp /\ AtLocation /\ ResolvedHoldsNone /\ EventsFresh)'
      BY <1>1, <1>2, <2>1, <3>1, <3>2
      DEF ClosedUnwatched, ReportedIsUp, AtLocation, ResolvedHoldsNone, EventsFresh
    <3> QED
      BY <2>3, <3>3, <3>4, <3>5
  <2>5. CASE ConnStarted
    <3> DEFINE fresh == [Closed EXCEPT !.link = "connecting", !.mask = InOut]
    <3>1. PICK fd \in NewFds : sock_fd' = fd /\ sock' = [sock EXCEPT ![fd] = fresh]
      BY <2>5 DEF ConnStarted
    <3>2. /\ fd \in Fds /\ sock[fd].link = "closed"
          /\ fresh \in Socket /\ fresh.link = "connecting"
      BY <3>1, FreshSockets DEF NewFds, IsOpen, Closed
    <3> HIDE DEF fresh
    <3>3. /\ state' = "CONNECTING" /\ conn_timeout' = ConnectTimeout
          /\ UNCHANGED <<next_conn, ready>>
      BY <2>5 DEF ConnStarted
    <3>4. sock' \in [Fds -> Socket] /\ \A other \in Fds : sock'[other] = IF other = fd THEN fresh ELSE sock[other]
      BY <3>1, <3>2 DEF TypeOK
    <3>5. TypeOK'
      <4>1. ConnectTimeout \in 0 .. ConnectTimeout
        BY EventAssumption
      <4> QED
        BY <2>1, <2>2, <3>1, <3>2, <3>3, <3>4, <4>1 DEF TypeOK, Location, State, fifos
    <3>6. (LoopsHaveWork /\ SocketAgrees /\ LoginOnLiveConnection)'
      BY <1>1, <1>2, <2>1, <3>1, <3>2, <3>3, <3>4
      DEF LoopsHaveWork, SocketAgrees, LoginOnLiveConnection, InLoops, IsOpen
    <3>7. (ClosedUnwatched /\ ReportedIsUp /\ AtLocation /\ ResolvedHoldsNone /\ EventsFresh)'
      BY <1>1, <1>2, <2>1, <3>1, <3>2, <3>3, <3>4
      DEF ClosedUnwatched, ReportedIsUp, AtLocation, ResolvedHoldsNone, EventsFresh
    <3> QED
      BY <2>3, <3>5, <3>6, <3>7
  <2> QED
    BY <2>1, <2>4, <2>5
<1> QED
  BY <1>3, <1>4, <1>5

\* The switch on the state: a lookup starts only when none is under way.
LEMMA SwitchKeeps ==
  ASSUME EventInv, Switch
  PROVE  EventInv'
<1> USE DEF EventInv
<1>1. /\ pc = "dispatch" /\ \A fd \in Fds \cup {SigFd} : batch[fd] = {}
      /\ UNCHANGED <<fifos, evs, batch, ctl, signals>>
  BY DEF Switch
<1>2. CASE /\ ResolveDue /\ StartResolve /\ pc' = "main"
           /\ UNCHANGED <<sock_fd, res0, res, next_conn, conn_timeout, host, sock, ready>>
  <2>1. /\ state = "DISCONNECTED" /\ next_conn = 0 /\ state' = "RESOLVING" /\ sock_fd = NoFd
        /\ resolver' \in {"busy", resolver} /\ resolver # "busy" /\ "ADDR" \notin signals
        /\ "connected" \notin evs /\ res0 = 0 /\ ~host.live
    BY <1>2 DEF ResolveDue, StartResolve, OneLookup, LoginOnLiveConnection, SocketAgrees, ListLifetime
  <2>2. "disconnected" \notin evs
    BY <2>1, EventAssumption DEF EventsFresh
  <2>3. TypeOK'
    BY <1>1, <1>2, <2>1 DEF TypeOK, State, Location, fifos
  <2>4. (LoopsHaveWork /\ SocketAgrees /\ LoginOnLiveConnection)'
    BY <1>1, <1>2, <2>1 DEF LoopsHaveWork, SocketAgrees, LoginOnLiveConnection, InLoops, IsOpen
  <2>5. (OneLookup /\ ListLifetime /\ ListHeld)'
    BY <1>1, <1>2, <2>1 DEF OneLookup, ListLifetime, ListHeld
  <2>6. (ClosedUnwatched /\ ReportedIsUp /\ AtLocation /\ ResolvedHoldsNone /\ EventsFresh)'
    BY <1>1, <1>2, <2>1, <2>2
    DEF ClosedUnwatched, ReportedIsUp, AtLocation, ResolvedHoldsNone, EventsFresh
  <2> QED
    BY <2>3, <2>4, <2>5, <2>6
<1>3. CASE ConnectDue /\ RpTryConnect /\ UNCHANGED resolver
  BY <1>1, <1>3, TryConnectKeeps
<1>4. CASE pc' = "main" /\ UNCHANGED <<ctx, host, sock, ready, resolver>>
  <2> USE DEF ctx, fifos
  <2>1. TypeOK'
    BY <1>1, <1>4 DEF TypeOK, Location
  <2>2. (LoopsHaveWork /\ SocketAgrees /\ LoginOnLiveConnection)'
    BY <1>1, <1>4 DEF LoopsHaveWork, SocketAgrees, LoginOnLiveConnection, InLoops, IsOpen
  <2>3. (OneLookup /\ ListLifetime /\ ListHeld)'
    BY <1>1, <1>4 DEF OneLookup, ListLifetime, ListHeld
  <2>4. (ClosedUnwatched /\ ReportedIsUp /\ AtLocation /\ ResolvedHoldsNone /\ EventsFresh)'
    BY <1>1, <1>4 DEF ClosedUnwatched, ReportedIsUp, AtLocation, ResolvedHoldsNone, EventsFresh
  <2> QED
    BY <2>1, <2>2, <2>3, <2>4
<1> QED
  BY <1>2, <1>3, <1>4 DEF Switch

\* main_loop's own part only touches the buffers.
LEMMA MainKeeps ==
  ASSUME EventInv, HandleEvents \/ ParseInput
  PROVE  EventInv'
<1> USE DEF EventInv, ctx, kernel
<1>1. /\ pc' \in {"exited", "parse", "top", "wedged"}
      /\ UNCHANGED <<ctx, host, read_full, write_full, evs, batch, ctl, kernel>>
  BY DEF HandleEvents, ParseInput
<1>2. rcount' \in 0 .. ReadCap /\ wcount' \in 0 .. WriteCap
  <2>1. rcount \in 0 .. ReadCap /\ wcount \in 0 .. WriteCap /\ 0 \in 0 .. ReadCap
    BY EventAssumption DEF TypeOK
  <2>2. \A n \in Nat : Lesser(WriteCap, wcount + n) \in 0 .. WriteCap
    BY <2>1, EventAssumption DEF Lesser
  <2>3. CASE HandleEvents
    BY <2>1, <2>2, <2>3, EventAssumption DEF HandleEvents
  <2>4. CASE ParseInput
    BY <2>1, <2>2, <2>4, EventAssumption DEF ParseInput
  <2> QED
    BY <2>3, <2>4
<1>3. TypeOK'
  BY <1>1, <1>2 DEF TypeOK, Location, Stopped
<1>4. (LoopsHaveWork /\ SocketAgrees /\ LoginOnLiveConnection)'
  BY <1>1 DEF LoopsHaveWork, SocketAgrees, LoginOnLiveConnection, InLoops, IsOpen
<1>5. (OneLookup /\ ListLifetime /\ ListHeld)'
  BY <1>1 DEF OneLookup, ListLifetime, ListHeld
<1>6. (ClosedUnwatched /\ ReportedIsUp /\ AtLocation /\ ResolvedHoldsNone /\ EventsFresh)'
  BY <1>1 DEF ClosedUnwatched, ReportedIsUp, AtLocation, ResolvedHoldsNone, EventsFresh
<1> QED
  BY <1>3, <1>4, <1>5, <1>6

(***************************************************************************)
(* Whatever the network does to a socket: it stays registered as it was, an *)
(* open one stays open, and one that is up does not go back to connecting.  *)
(***************************************************************************)
LEMMA NetStepKeeps ==
  ASSUME EventInv, NEW fd \in Fds, NEW s \in Socket, NEW edge, NetStep(fd, s, edge),
         sock[fd].link # "closed", s.link \in {"up", "reset"}, s.mask = sock[fd].mask
  PROVE  EventInv'
<1> USE DEF EventInv, ctx, fifos, flow
<1>1. /\ sock' = [sock EXCEPT ![fd] = s] /\ ready' \subseteq ready \cup {fd}
      /\ UNCHANGED <<ctx, host, fifos, flow, signals, resolver>>
  BY DEF NetStep, Woken
<1>2. sock' \in [Fds -> Socket] /\ \A other \in Fds : sock'[other] = IF other = fd THEN s ELSE sock[other]
  BY <1>1 DEF TypeOK
<1>3. TypeOK'
  BY <1>1, <1>2 DEF TypeOK
<1>4. (LoopsHaveWork /\ SocketAgrees /\ LoginOnLiveConnection)'
  BY <1>1, <1>2 DEF LoopsHaveWork, SocketAgrees, LoginOnLiveConnection, InLoops, IsOpen
<1>5. (OneLookup /\ ListLifetime /\ ListHeld)'
  BY <1>1 DEF OneLookup, ListLifetime, ListHeld
<1>6. (ClosedUnwatched /\ ReportedIsUp /\ AtLocation /\ ResolvedHoldsNone /\ EventsFresh)'
  BY <1>1, <1>2 DEF ClosedUnwatched, ReportedIsUp, AtLocation, ResolvedHoldsNone, EventsFresh
<1> QED
  BY <1>3, <1>4, <1>5, <1>6

\* The server and the network.
LEMMA PeerKeeps ==
  ASSUME EventInv, NEW fd \in Fds,
         Establish(fd) \/ Reset(fd) \/ PeerSend(fd) \/ PeerClose(fd) \/ PeerAck(fd)
  PROVE  EventInv'
<1> DEFINE s == sock[fd]
<1>1. s \in Socket /\ InCap \in Nat /\ OutCap \in Nat
  BY EventAssumption DEF EventInv, TypeOK
<1>2. s.inq \in 0 .. InCap /\ s.outq \in 0 .. OutCap
  BY <1>1 DEF Socket
<1>3. CASE Establish(fd)
  <2>1. [s EXCEPT !.link = "up"] \in Socket
    BY <1>1 DEF Socket
  <2> QED
    BY <1>1, <1>3, <2>1, NetStepKeeps DEF Establish, Socket
<1>4. CASE Reset(fd)
  <2>1. [s EXCEPT !.link = "reset"] \in Socket
    BY <1>1 DEF Socket
  <2> QED
    BY <1>1, <1>4, <2>1, NetStepKeeps DEF Reset, Socket
<1>5. CASE PeerSend(fd)
  <2>1. s.inq + 1 \in 0 .. InCap
    BY <1>1, <1>2, <1>5 DEF PeerSend
  <2>2. [s EXCEPT !.inq = s.inq + 1] \in Socket
    BY <1>1, <2>1 DEF Socket
  <2> QED
    BY <1>1, <1>5, <2>2, NetStepKeeps DEF PeerSend, Socket
<1>6. CASE PeerClose(fd)
  <2>1. [s EXCEPT !.fin = TRUE] \in Socket
    BY <1>1 DEF Socket
  <2> QED
    BY <1>1, <1>6, <2>1, NetStepKeeps DEF PeerClose, Socket
<1>7. CASE PeerAck(fd)
  <2>1. 0 \in 0 .. OutCap
    BY <1>1
  <2>2. [s EXCEPT !.outq = 0] \in Socket
    BY <1>1, <2>1 DEF Socket
  <2> QED
    BY <1>1, <1>7, <2>2, NetStepKeeps DEF PeerAck, Socket
<1> QED
  BY <1>3, <1>4, <1>5, <1>6, <1>7

\* The resolver's answer: the list it stores is new, or the old one is stale.
LEMMA LookupDoneKeeps ==
  ASSUME EventInv, LookupDone
  PROVE  EventInv'
<1> USE DEF EventInv, ctx, fifos, flow
<1>1. /\ resolver = "busy" /\ resolver' = "idle" /\ signals' = signals \cup {"ADDR"}
      /\ ready' = ready \cup {SigFd} /\ UNCHANGED <<ctx, fifos, flow, sock>>
  BY DEF LookupDone, Raise
<1>2. state = "RESOLVING" /\ res0 = 0
  BY <1>1 DEF OneLookup, ListLifetime
<1>3. /\ host' \in [list : 0 .. MaxAddrs, live : BOOLEAN, failed : BOOLEAN]
      /\ host'.live \/ host'.failed
      /\ host'.live => host'.list # 0
  <2>1. host \in [list : 0 .. MaxAddrs, live : BOOLEAN, failed : BOOLEAN] /\ (host.live => host.list # 0)
    BY DEF TypeOK, ListHeld
  <2>2. CASE \E n \in 1 .. MaxAddrs : host' = [list |-> n, live |-> TRUE, failed |-> FALSE]
    <3>1. PICK n \in 1 .. MaxAddrs : host' = [list |-> n, live |-> TRUE, failed |-> FALSE]
      BY <2>2
    <3>2. n \in 0 .. MaxAddrs /\ n # 0
      BY EventAssumption
    <3> QED
      BY <3>1, <3>2
  <2>3. CASE host' = [host EXCEPT !.failed = TRUE]
    BY <2>1, <2>3
  <2> QED
    BY <2>2, <2>3 DEF LookupDone
<1>4. TypeOK'
  BY <1>1, <1>3 DEF TypeOK
<1>5. (LoopsHaveWork /\ SocketAgrees /\ LoginOnLiveConnection)'
  BY <1>1 DEF LoopsHaveWork, SocketAgrees, LoginOnLiveConnection, InLoops, IsOpen
<1>6. (OneLookup /\ ListLifetime /\ ListHeld)'
  BY <1>1, <1>2, <1>3 DEF OneLookup, ListLifetime, ListHeld
<1>7. (ClosedUnwatched /\ ReportedIsUp /\ AtLocation /\ ResolvedHoldsNone /\ EventsFresh)'
  BY <1>1 DEF ClosedUnwatched, ReportedIsUp, AtLocation, ResolvedHoldsNone, EventsFresh
<1> QED
  BY <1>4, <1>5, <1>6, <1>7

\* The user's SIGINT, and doing nothing.
LEMMA IdleKeeps ==
  ASSUME EventInv, UserInterrupt \/ UNCHANGED vars
  PROVE  EventInv'
<1> USE DEF EventInv, ctx, fifos, flow, kernel
<1>1. /\ UNCHANGED <<ctx, host, fifos, flow, sock, resolver>>
      /\ signals' \in {signals, signals \cup {"SIGINT"}}
      /\ ready' \in {ready, ready \cup {SigFd}}
  BY DEF UserInterrupt, Raise, vars
<1>2. TypeOK'
  BY <1>1 DEF TypeOK
<1>3. (LoopsHaveWork /\ SocketAgrees /\ LoginOnLiveConnection)'
  BY <1>1 DEF LoopsHaveWork, SocketAgrees, LoginOnLiveConnection, InLoops, IsOpen
<1>4. (OneLookup /\ ListLifetime /\ ListHeld)'
  BY <1>1 DEF OneLookup, ListLifetime, ListHeld
<1>5. (ClosedUnwatched /\ ReportedIsUp /\ AtLocation /\ ResolvedHoldsNone /\ EventsFresh)'
  BY <1>1 DEF ClosedUnwatched, ReportedIsUp, AtLocation, ResolvedHoldsNone, EventsFresh
<1> QED
  BY <1>2, <1>3, <1>4, <1>5

\* Every step.
LEMMA EventNext == EventInv /\ [Next]_vars => EventInv'
<1> SUFFICES ASSUME EventInv, [Next]_vars
             PROVE  EventInv'
  OBVIOUS
<1>1. CASE \E d \in 0 .. MaxElapsed : LoopTop(d)
  BY <1>1, LoopTopKeeps
<1>2. CASE TryFlush
  BY <1>2, FlushChoiceKeeps, DoReadKeeps, DoWriteKeeps, FlushCtlKeeps DEF TryFlush
<1>3. CASE EpollWait \/ EpollFails
  BY <1>3, EpollWaitKeeps, EpollFailsKeeps
<1>4. CASE Dispatch
  BY <1>4, SockEventKeeps, DoReadKeeps, SockOutKeeps, DoWriteKeeps, SigEventKeeps,
     OtherEventKeeps, SwitchKeeps DEF Dispatch
<1>5. CASE HandleEvents \/ ParseInput
  BY <1>5, MainKeeps
<1>6. CASE Environment
  BY <1>6, PeerKeeps, LookupDoneKeeps, IdleKeeps DEF Environment
<1>7. CASE Halted \/ UNCHANGED vars
  BY <1>7, IdleKeeps DEF Halted
<1> QED
  BY <1>1, <1>2, <1>3, <1>4, <1>5, <1>6, <1>7 DEF Next, Program


-----------------------------------------------------------------------------
(* The invariants.                                                          *)

\* EventInv holds in every reachable state.
LEMMA EventAlways == Spec => []EventInv
<1>1. Init => EventInv
  BY EventInit
<1>2. EventInv /\ [Next]_vars => EventInv'
  BY EventNext
<1> QED
  BY <1>1, <1>2, PTL DEF Spec

\* Every field of the context, every local and every kernel object keeps to its
\* range: no deadline, count or position in the address list leaves its bounds.
THEOREM EventTypeCorrect == Spec => []TypeOK
<1>1. EventInv => TypeOK
  BY DEF EventInv
<1> QED
  BY <1>1, EventAlways, PTL

\* do_read and do_write never call read() or write() on an empty window or on
\* a descriptor that is no connected socket, whatever epoll and the peer do.
THEOREM EventLoopsHaveWork == Spec => []LoopsHaveWork
<1>1. EventInv => LoopsHaveWork
  BY DEF EventInv
<1> QED
  BY <1>1, EventAlways, PTL

\* The connection state and the descriptor agree, no number a failed attempt left in
\* sock_fd is that of an open socket, and no event that waits to be handled is of a
\* descriptor rp_disconnect has closed.
THEOREM EventSocketOwned == Spec => []SocketOwned
<1>1. EventInv => SocketOwned
  BY DEF EventInv, SocketOwned
<1> QED
  BY <1>1, EventAlways, PTL

\* rp_irc_onconnect, which main_loop calls after the poll, only ever runs while
\* the connection that was reported is up.
THEOREM EventLoginOnLive == Spec => []LoginOnLiveConnection
<1>1. EventInv => LoginOnLiveConnection
  BY DEF EventInv
<1> QED
  BY <1>1, EventAlways, PTL

\* start_resolve is never called while the one gaicb is in use.
THEOREM EventOneLookup == Spec => []OneLookup
<1>1. EventInv => OneLookup
  BY DEF EventInv
<1> QED
  BY <1>1, EventAlways, PTL

\* The addrinfo list in use is allocated unless a lookup failed, and no list is
\* leaked when a lookup overwrites ar_result.
THEOREM EventListLifetime == Spec => []ListLifetime
<1>1. EventInv => ListLifetime
  BY DEF EventInv
<1> QED
  BY <1>1, EventAlways, PTL

-----------------------------------------------------------------------------
(* The detailed event system implements the life cycle.                     *)


\* A step that leaves the connection's own variables alone is a stutter.
LEMMA CtxStutters ==
  ASSUME UNCHANGED ctx
  PROVE  UNCHANGED Lifecycle!lvars
BY DEF ctx, Lifecycle!lvars

\* Time passing is Tick while disconnected and nothing otherwise.
LEMMA LoopTopTicks ==
  ASSUME EventInv, NEW d \in 0 .. MaxElapsed, LoopTop(d)
  PROVE  [Lifecycle!Next]_(Lifecycle!lvars)
<1>1. UNCHANGED <<state, res0, res>> /\ next_conn' = Remaining(next_conn, d)
  BY DEF LoopTop
<1>2. CASE state = "DISCONNECTED"
  <2>1. next_conn \in 0 .. RetryDelay
    BY DEF EventInv, TypeOK
  <2>2. next_conn' \in 0 .. next_conn
    BY <1>1, <2>1, EventAssumption DEF Remaining
  <2>3. Lifecycle!Tick
    BY <1>1, <1>2, <2>2 DEF Lifecycle!Tick
  <2> QED
    BY <2>3 DEF Lifecycle!Next
<1>3. CASE state # "DISCONNECTED"
  BY <1>1, <1>3 DEF Lifecycle!lvars
<1> QED
  BY <1>2, <1>3

\* rp_disconnect takes the connection down.
LEMMA DisconnectIsDown ==
  ASSUME RpDisconnect
  PROVE  Lifecycle!Down
BY DEF RpDisconnect, Lifecycle!Down

\* A hang-up of the context's socket is Lost.
LEMMA SockEventLoses ==
  ASSUME EventInv, SockEvent
  PROVE  [Lifecycle!Next]_(Lifecycle!lvars)
<1>1. CASE "HANGUP" \in batch[sock_fd]
  <2>1. RpDisconnect /\ sock_fd \in Fds /\ batch[sock_fd] # {}
    BY <1>1 DEF SockEvent
  <2>2. state \in {"CONNECTING", "CONNECTED"}
    <3>1. sock[sock_fd].link \in {"up", "reset"}
      BY <2>1 DEF EventInv, ReportedIsUp
    <3>2. sock_fd # NoFd
      BY <2>1 DEF Fds, NoFd
    <3>3. state \notin {"DISCONNECTED", "RESOLVING"}
      BY <3>2 DEF EventInv, SocketAgrees
    <3>4. state # "RESOLVED"
      BY <2>1, <3>1 DEF EventInv, ResolvedHoldsNone
    <3>5. state \in State
      BY DEF EventInv, TypeOK
    <3> QED
      BY <3>3, <3>4, <3>5 DEF State
  <2>3. Lifecycle!Lost
    BY <2>1, <2>2, DisconnectIsDown DEF Lifecycle!Lost
  <2> QED
    BY <2>3 DEF Lifecycle!Next
<1>2. CASE "HANGUP" \notin batch[sock_fd]
  <2>1. UNCHANGED ctx
    BY <1>2 DEF SockEvent
  <2> QED
    BY <2>1, CtxStutters
<1> QED
  BY <1>1, <1>2

\* EPOLLOUT on a connecting socket is Up.
LEMMA SockOutComesUp ==
  ASSUME EventInv, SockOut
  PROVE  [Lifecycle!Next]_(Lifecycle!lvars)
<1>1. UNCHANGED <<sock_fd, res0, res, next_conn, conn_timeout>>
  BY DEF SockOut
<1>2. CASE "OUT" \in batch[sock_fd] /\ state = "CONNECTING"
  <2>1. state' = "CONNECTED"
    BY <1>2 DEF SockOut
  <2>2. Lifecycle!Up
    BY <1>1, <1>2, <2>1 DEF Lifecycle!Up
  <2> QED
    BY <2>2 DEF Lifecycle!Next
<1>3. CASE ~("OUT" \in batch[sock_fd] /\ state = "CONNECTING")
  <2>1. UNCHANGED ctx
    BY <1>1, <1>3 DEF SockOut, ctx
  <2> QED
    BY <2>1, CtxStutters
<1> QED
  BY <1>2, <1>3

\* The resolver's signal is Answer: it comes in RESOLVING only.
LEMMA SigEventAnswers ==
  ASSUME EventInv, SigEvent
  PROVE  [Lifecycle!Next]_(Lifecycle!lvars)
<1>1. UNCHANGED <<sock_fd, next_conn, conn_timeout>>
  BY DEF SigEvent, Deliver
<1>2. CASE "ADDR" \in signals
  <2>1. state = "RESOLVING"
    BY <1>2 DEF EventInv, OneLookup
  <2>2. res0' = host.list /\ res' = 0 /\ state' = "RESOLVED"
    BY <1>2 DEF SigEvent, Deliver
  <2>3. host.list \in 0 .. MaxAddrs
    BY DEF EventInv, TypeOK
  <2>4. res0' - res' \in 0 .. MaxAddrs
    BY <2>2, <2>3
  <2>5. Lifecycle!Answer
    BY <2>1, <2>2, <2>4 DEF Lifecycle!Answer
  <2> QED
    BY <2>5 DEF Lifecycle!Next
<1>3. CASE "ADDR" \notin signals
  <2>1. UNCHANGED ctx
    BY <1>1, <1>3 DEF SigEvent, Deliver, ctx
  <2> QED
    BY <2>1, CtxStutters
<1> QED
  BY <1>2, <1>3

\* rp_tryconnect uses up an address, or gives up when there is none left.
LEMMA TryConnectTries ==
  ASSUME EventInv, ConnectDue, RpTryConnect
  PROVE  [Lifecycle!Next]_(Lifecycle!lvars)
<1>1. Lifecycle!Attempting
  BY DEF ConnectDue, Lifecycle!Attempting
<1>2. res0 \in 0 .. MaxAddrs /\ res \in 0 .. MaxAddrs /\ res <= res0
  BY DEF EventInv, TypeOK, ListHeld
<1>3. CASE NextAddr = 0
  <2>1. res0 = res
    BY <1>2, <1>3 DEF NextAddr
  <2>2. RpDisconnect
    BY <1>3 DEF RpTryConnect
  <2>3. res0 - res = 0
    BY <1>2, <2>1
  <2>4. Lifecycle!GiveUp
    BY <1>1, <2>2, <2>3, DisconnectIsDown DEF Lifecycle!GiveUp, Lifecycle!Attempting
  <2> QED
    BY <2>4 DEF Lifecycle!Next
<1>4. CASE NextAddr # 0 /\ host.live
  <2>1. res < res0 /\ NextAddr = res + 1
    BY <1>4 DEF NextAddr
  <2>2. res' = res + 1 /\ res0' = res0 /\ (ConnFail \/ ConnStarted)
    BY <1>4, <2>1 DEF RpTryConnect
  <2>3. state' \in {state, "CONNECTING"}
    BY <2>2 DEF ConnFail, ConnStarted
  <2>4. res0 - res > 0 /\ res0' - res' = (res0 - res) - 1
    BY <1>2, <2>1, <2>2
  <2>5. state \in {"RESOLVED", "CONNECTING"} /\ state' \in {"RESOLVED", "CONNECTING"}
    BY <1>1, <2>3 DEF Lifecycle!Attempting
  <2>6. Lifecycle!Try
    BY <1>1, <2>3, <2>4, <2>5 DEF Lifecycle!Try
  <2> QED
    BY <2>6 DEF Lifecycle!Next
<1>5. CASE NextAddr # 0 /\ ~host.live
  <2>1. UNCHANGED ctx
    BY <1>5 DEF RpTryConnect
  <2> QED
    BY <2>1, CtxStutters
<1> QED
  BY <1>3, <1>4, <1>5

\* The switch on the state: LookUp, an attempt, or nothing.
LEMMA SwitchMovesOn ==
  ASSUME EventInv, Switch
  PROVE  [Lifecycle!Next]_(Lifecycle!lvars)
<1>1. CASE ResolveDue /\ StartResolve /\ UNCHANGED <<sock_fd, res0, res, next_conn, conn_timeout>>
  <2>1. state = "DISCONNECTED" /\ next_conn = 0 /\ state' = "RESOLVING"
    BY <1>1 DEF ResolveDue, StartResolve
  <2>2. Lifecycle!LookUp
    BY <2>1 DEF Lifecycle!LookUp
  <2> QED
    BY <2>2 DEF Lifecycle!Next
<1>2. CASE ConnectDue /\ RpTryConnect
  BY <1>2, TryConnectTries
<1>3. CASE UNCHANGED ctx
  BY <1>3, CtxStutters
<1> QED
  BY <1>1, <1>2, <1>3 DEF Switch

\* Initially nothing is left to try and nothing to wait for.
LEMMA LifecycleInit == Init => Lifecycle!Init
BY DEF Init, Lifecycle!Init

\* Every step is a step of the life cycle or none.
LEMMA LifecycleNext == EventInv /\ [Next]_vars => [Lifecycle!Next]_(Lifecycle!lvars)
<1> SUFFICES ASSUME EventInv, [Next]_vars
             PROVE  [Lifecycle!Next]_(Lifecycle!lvars)
  OBVIOUS
<1>1. CASE \E d \in 0 .. MaxElapsed : LoopTop(d)
  BY <1>1, LoopTopTicks
<1>2. CASE TryFlush \/ EpollWait \/ EpollFails
  <2>1. UNCHANGED ctx
    BY <1>2 DEF TryFlush, FlushRead, FlushWrite, FlushCtl, DoRead, ReadBytes, ReadNothing,
       DoWrite, WriteBytes, WriteNothing, EpollWait, EpollFails
  <2> QED
    BY <2>1, CtxStutters
<1>3. CASE Dispatch
  <2>1. CASE DoRead("sock_reading", "sock_out") \/ DoWrite("sock_writing", "dispatch") \/ OtherEvent
    <3>1. UNCHANGED ctx
      BY <2>1 DEF DoRead, ReadBytes, ReadNothing, DoWrite, WriteBytes, WriteNothing, OtherEvent
    <3> QED
      BY <3>1, CtxStutters
  <2> QED
    BY <1>3, <2>1, SockEventLoses, SockOutComesUp, SigEventAnswers, SwitchMovesOn DEF Dispatch
<1>4. CASE HandleEvents \/ ParseInput
  <2>1. UNCHANGED ctx
    BY <1>4 DEF HandleEvents, ParseInput
  <2> QED
    BY <2>1, CtxStutters
<1>5. CASE Environment
  <2>1. UNCHANGED ctx
    BY <1>5 DEF Environment, Establish, Reset, PeerSend, PeerClose, PeerAck, NetStep,
       LookupDone, UserInterrupt, Raise
  <2> QED
    BY <2>1, CtxStutters
<1>6. CASE Halted \/ UNCHANGED vars
  <2>1. UNCHANGED ctx
    BY <1>6 DEF Halted, vars
  <2> QED
    BY <2>1, CtxStutters
<1> QED
  BY <1>1, <1>2, <1>3, <1>4, <1>5, <1>6 DEF Next, Program

\* The event system implements ConnLifecycle: whatever the peer, the resolver
\* and the system calls do, each address of a lookup is tried at most once and
\* in order, none is skipped before giving up, and no lookup starts before
\* RetryDelay has passed since the last disconnect.
THEOREM EventFollowsLifecycle == Spec => FollowsLifecycle
<1>1. Init => Lifecycle!Init
  BY LifecycleInit
<1>2. EventInv /\ [Next]_vars => [Lifecycle!Next]_(Lifecycle!lvars)
  BY LifecycleNext
<1> QED
  BY <1>1, <1>2, EventAlways, PTL DEF Spec, FollowsLifecycle, Lifecycle!Spec
=============================================================================
