------------------------------- MODULE MCServing ------------------------------
(***************************************************************************)
(* What TLC checks and the proofs state of Channel (the protocol of a      *)
(* connection), Pools (the objects its requests borrow) and Compose (the   *)
(* middlewares of a resource).  They share no state.  A behaviour is one   *)
(* of one of them, which mode names; the variables of the others stay      *)
(* empty.                                                                  *)
(***************************************************************************)
EXTENDS Integers, Sequences

CONSTANTS
  Conns, Preface, MaxBytes,    \* of Channel
  Objects, PoolSize, MaxRefs,  \* of Pools
  Mws                          \* of Compose

ASSUME ChannelAssumption == Preface \in Nat \ {0} /\ MaxBytes \in Nat
ASSUME PoolsAssumption == PoolSize \in Nat /\ MaxRefs \in Nat \ {0}
ASSUME ComposeAssumption == Mws \in Nat

VARIABLES
  mode,
  proto, secure, good, socket, buf, waiting, woken, channels,
  pooled, pool, refs, stale, used, builder,
  composing, state, count, curr, fut, started, waited, handled, seen

ofChannel == <<proto, secure, good, socket, buf, waiting, woken, channels>>
ofPools == <<pooled, pool, refs, stale, used, builder>>
ofCompose == <<composing, state, count, curr, fut, started, waited, handled,
               seen>>

C == INSTANCE Channel
O == INSTANCE Pools WITH Capacity <- PoolSize, kind <- pooled
W == INSTANCE Compose WITH pc <- composing

(* Channel: the count a stopping worker waits for is that of its open      *)
(* channels; a connection is taken for HTTP/2 exactly if its first bytes   *)
(* are the preface, however they are cut; and a channel that has read      *)
(* nothing yet is woken by the bytes that arrive (HttpChannel::poll,       *)
(* add_channel, remove_channel).                                           *)
ChannelsServed ==
  mode = "Channel" => C!TypeOK /\ C!CountsChannels /\ C!RightProtocol /\ C!WokenByBytes

(* Pools: whoever takes an object out of a pool sees nothing of its last   *)
(* user, and an object in a pool has no handle and is there once           *)
(* (release_bytes, HttpInnerMessage::reset, HttpResponsePool, and the Drop *)
(* of SharedBytes, SharedHttpInnerMessage and HttpResponse).               *)
ObjectsFresh == mode = "Pools" => O!TypeOK /\ O!NothingStale /\ O!NotShared

(* Compose: the hooks run once each and in order, the handler once at most *)
(* and after every start hook; it indexes past the middlewares only when   *)
(* the last of them starts at once after another one's future              *)
(* (StartMiddlewares, RunMiddlewares).                                     *)
HooksInOrder == mode = "Compose" => W!TypeOK /\ W!HooksInOrder /\ W!PanicsOnlyThere
=============================================================================
