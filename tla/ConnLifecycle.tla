--------------------------- MODULE ConnLifecycle ---------------------------
(***************************************************************************)
(* What the event system promises of one server connection, without         *)
(* sockets, epoll, signals or buffers: look the server up, try its          *)
(* addresses one after the other, be connected, and after every failure     *)
(* wait RetryDelay before looking it up again.                              *)
(***************************************************************************)
EXTENDS Integers

CONSTANTS
  MaxAddrs,     \* most addresses a lookup returns
  RetryDelay    \* ticks between a disconnect and the next lookup

VARIABLES
  phase,        \* the connection state
  left,         \* addresses the attempt has not tried yet
  delay         \* ticks to wait before the next lookup

lvars == <<phase, left, delay>>

Init == phase = "DISCONNECTED" /\ left = 0 /\ delay = 0

Attempting == phase \in {"RESOLVED", "CONNECTING"}

Tick ==
  /\ phase = "DISCONNECTED"
  /\ delay' \in 0 .. delay
  /\ UNCHANGED <<phase, left>>

LookUp ==
  /\ phase = "DISCONNECTED"
  /\ delay = 0
  /\ phase' = "RESOLVING"
  /\ UNCHANGED <<left, delay>>

Answer ==
  /\ phase = "RESOLVING"
  /\ phase' = "RESOLVED"
  /\ left' \in 0 .. MaxAddrs
  /\ UNCHANGED delay

\* One address is used up; the attempt may get under way.
Try ==
  /\ Attempting
  /\ left > 0
  /\ left' = left - 1
  /\ phase' \in {phase, "CONNECTING"}
  /\ UNCHANGED delay

Up ==
  /\ phase = "CONNECTING"
  /\ phase' = "CONNECTED"
  /\ left' = 0
  /\ UNCHANGED delay

Down ==
  /\ phase' = "DISCONNECTED"
  /\ left' = 0
  /\ delay' = RetryDelay

\* The peer or the network refused or ended it.
Lost == phase \in {"CONNECTING", "CONNECTED"} /\ Down

\* No address is left to try.
GiveUp == Attempting /\ left = 0 /\ Down

Next == Tick \/ LookUp \/ Answer \/ Try \/ Up \/ Lost \/ GiveUp

Spec == Init /\ [][Next]_lvars
=============================================================================
