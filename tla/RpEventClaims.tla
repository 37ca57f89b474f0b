--------------------------- MODULE RpEventClaims ---------------------------
(***************************************************************************)
(* What the comments, the interface and the error checks of rp_event.c and  *)
(* rp_event.h say of the event system, and the code does not do.  Each is   *)
(* refuted by a run of its own.                                             *)
(***************************************************************************)
EXTENDS RpEvent

(***************************************************************************)
(* rp_event.c:210: rp_disconnect will "disconnect and clean up the socket". *)
(* An attempt that times out moves on to the next address with its socket   *)
(* still open (rp_tryconnect overwrites sock_fd), so a disconnected client  *)
(* may own a socket nothing will ever close.                                *)
(***************************************************************************)
NoOrphanSocket == state = "DISCONNECTED" => \A fd \in Fds : ~IsOpen(fd)

(***************************************************************************)
(* rp_event.h:11-14: `disconnected' is one of the "events that have         *)
(* occurred during rp_poll".  When the peer closes the connection between   *)
(* epoll_wait and a read() or write(), the program aborts instead.          *)
(***************************************************************************)
PeerLossReported == pc # "aborted"

(***************************************************************************)
(* rp_event.c:427: on the resolver's signal the "address was resolved".     *)
(* gai_error is never asked: after a failed lookup ar_result still points   *)
(* to the list of the lookup before, which rp_disconnect has freed.         *)
(***************************************************************************)
NoFreedList == pc # "undefined"
=============================================================================
