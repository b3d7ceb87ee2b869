------------------------------- MODULE Channel --------------------------------
(***************************************************************************)
(* HttpChannel (server/channel.rs): the connections of one worker, the     *)
(* detection of their protocol from the bytes that arrive first, and the   *)
(* count of open channels the worker keeps (server/settings.rs), which it  *)
(* waits for when it shuts down.                                           *)
(*                                                                         *)
(* A connection brings `good' bytes that agree with the preface of HTTP/2  *)
(* and then other ones.  A task is woken when bytes arrive after a read    *)
(* that would have blocked, as the reactor does (external).                *)
(***************************************************************************)
EXTENDS Integers, FiniteSets

CONSTANTS
  Conns,     \* connections
  Preface,   \* 14, the length of HTTP2_PREFACE
  MaxBytes   \* bound: bytes a connection brings

VARIABLES
  proto,     \* "none", "Unknown", "H1", "H2" or "gone" of each connection
  secure,    \* whether HTTP/2 was negotiated before
  good,      \* how many of its first bytes agree with the preface
  socket,    \* bytes that arrived and are not read
  buf,       \* bytes read
  waiting,   \* whether the task is to be woken by a read
  woken,     \* whether the task is scheduled
  channels   \* the count of the worker's settings

vars == <<proto, secure, good, socket, buf, waiting, woken, channels>>

Init ==
  /\ proto = [c \in Conns |-> "none"] /\ secure = [c \in Conns |-> FALSE]
  /\ good \in [Conns -> {0, Preface - 1, Preface}]
  /\ socket = [c \in Conns |-> 0] /\ buf = [c \in Conns |-> 0]
  /\ waiting = [c \in Conns |-> FALSE] /\ woken = [c \in Conns |-> FALSE] /\ channels = 0

(* HttpChannel::new                                                        *)
New(c) ==
  /\ proto[c] = "none" /\ channels' = channels + 1 /\ woken' = [woken EXCEPT ![c] = TRUE]
  /\ \E http2 \in BOOLEAN :
       /\ proto' = [proto EXCEPT ![c] = IF http2 THEN "H2" ELSE "Unknown"]
       /\ secure' = [secure EXCEPT ![c] = http2]
  /\ UNCHANGED <<good, socket, buf, waiting>>

(* Bytes arrive: the reactor wakes the task that waits for them.           *)
Arrive(c) ==
  /\ proto[c] \in {"Unknown", "H1", "H2"} /\ socket[c] + buf[c] < MaxBytes
  /\ \E n \in 1..(MaxBytes - socket[c] - buf[c]) : socket' = [socket EXCEPT ![c] = @ + n]
  /\ woken' = [woken EXCEPT ![c] = @ \/ waiting[c]] /\ waiting' = [waiting EXCEPT ![c] = FALSE]
  /\ UNCHANGED <<proto, secure, good, buf, channels>>

(* remove_channel, as a channel ends.                                      *)
Remove(c) ==
  /\ proto' = [proto EXCEPT ![c] = "gone"]
  /\ channels' = IF channels > 0 THEN channels - 1 ELSE channels

(* What the first bytes read make of the connection.                       *)
KindShort(c, n) == IF n >= Preface - 1 /\ good[c] >= Preface - 1 THEN "H2" ELSE IF n >= Preface THEN "H1" ELSE "Unknown"
Kind(c, n) == IF n < Preface THEN "Unknown" ELSE IF good[c] >= Preface THEN "H2" ELSE "H1"

(* poll of a channel whose protocol is not known: one read, and the        *)
(* protocol's own first poll when it is settled.  The peer may have gone.  *)
PollUnknown(c) ==
  /\ proto[c] = "Unknown" /\ woken[c] /\ woken' = [woken EXCEPT ![c] = FALSE]
  /\ \/ Remove(c) /\ UNCHANGED <<buf, socket, waiting>>
     \/ /\ buf' = [buf EXCEPT ![c] = @ + socket[c]] /\ socket' = [socket EXCEPT ![c] = 0]
        /\ proto' = [proto EXCEPT ![c] = Kind(c, buf'[c])] /\ UNCHANGED channels
        /\ waiting' = [waiting EXCEPT ![c] = (socket[c] = 0) \/ proto'[c] # "Unknown"]
  /\ UNCHANGED <<secure, good>>

(* poll of Http1 or Http2, with its end or its failure.                    *)
PollProtocol(c) ==
  /\ proto[c] \in {"H1", "H2"} /\ woken[c] /\ woken' = [woken EXCEPT ![c] = FALSE]
  /\ buf' = [buf EXCEPT ![c] = @ + socket[c]] /\ socket' = [socket EXCEPT ![c] = 0]
  /\ \/ Remove(c) /\ UNCHANGED waiting
     \/ waiting' = [waiting EXCEPT ![c] = TRUE] /\ UNCHANGED <<proto, channels>>
  /\ UNCHANGED <<secure, good>>

(* A timer or another part of the connection wakes the task.               *)
Wake(c) ==
  /\ proto[c] \in {"H1", "H2"} /\ ~woken[c] /\ woken' = [woken EXCEPT ![c] = TRUE]
  /\ UNCHANGED <<proto, secure, good, socket, buf, waiting, channels>>

Next == \E c \in Conns : New(c) \/ Arrive(c) \/ PollUnknown(c) \/ PollProtocol(c) \/ Wake(c)

Spec == Init /\ [][Next]_vars

-----------------------------------------------------------------------------
(* The values of the variables.                                            *)
TypeOK ==
  /\ proto \in [Conns -> {"none", "Unknown", "H1", "H2", "gone"}]
  /\ socket \in [Conns -> 0..MaxBytes] /\ buf \in [Conns -> 0..MaxBytes]
  /\ channels \in Nat

(* The count is the number of open channels, so that a worker told to stop *)
(* waits for all of them and for no other (the error of settings.rs:195,   *)
(* "Number of removed channels is bigger than added channel", is never     *)
(* logged).                                                                *)
CountsChannels ==
  channels = Cardinality({c \in Conns : proto[c] \in {"Unknown", "H1", "H2"}})

(* However its first bytes are cut, a connection is taken for HTTP/2       *)
(* exactly if they are the preface.                                        *)
RightProtocol ==
  \A c \in Conns :
     /\ proto[c] = "H2" /\ ~secure[c] => good[c] >= Preface /\ buf[c] >= Preface
     /\ proto[c] = "H1" => good[c] < Preface /\ buf[c] >= Preface
     /\ proto[c] = "Unknown" => buf[c] < Preface

(* A channel whose protocol is open is woken by the bytes that settle it,  *)
(* unless a read has given it only a part of them: no task waits then.     *)
WokenByBytes ==
  \A c \in Conns :
     (proto[c] = "Unknown" /\ buf[c] = 0) => woken[c] \/ (waiting[c] /\ socket[c] = 0)
=============================================================================
