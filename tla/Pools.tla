-------------------------------- MODULE Pools ---------------------------------
(***************************************************************************)
(* The objects the server uses again: write buffers (server/shared.rs),    *)
(* requests (server/helpers.rs, httprequest.rs) and responses              *)
(* (httpresponse.rs), each handed out of a pool, passed on by reference    *)
(* counting and put back, and the builder through which a response is      *)
(* made.  `stale' is the set of fields of an object that still hold what   *)
(* an earlier user left.                                                   *)
(***************************************************************************)
EXTENDS Integers, Sequences, FiniteSets, Functions

CONSTANTS
  Objects,   \* bound: objects ever made
  Capacity,  \* 128, the size of a pool
  MaxRefs    \* bound: handles of one object

VARIABLES
  kind,      \* which pool it is: "bytes", "message" or "response"
  pool,      \* the pool, a sequence of objects
  refs,      \* number of handles of each object
  stale,     \* fields set by an earlier user
  used,      \* fields set by this user
  builder    \* builders: [object, err] of those not yet finished

vars == <<kind, pool, refs, stale, used, builder>>

HttpInnerMessage == {"method", "uri", "version", "headers", "extensions", "params", "query",
                     "query_loaded", "cookies", "addr", "info", "payload", "resource"}
InnerHttpResponse == {"version", "headers", "status", "reason", "body", "chunked", "encoding",
                      "connection_type", "write_capacity", "response_size", "error"}
Fields(k) == CASE k = "bytes" -> {"content"}
               [] k = "message" -> HttpInnerMessage [] k = "response" -> InnerHttpResponse

(* What release clears: HttpInnerMessage::reset, HttpResponsePool::release *)
(* and SharedBytesPool::release_bytes.                                     *)
Reset == HttpInnerMessage \ {"method", "uri", "version"}
Release == InnerHttpResponse \ {"status", "body"}
ClearedForgets(k) == Fields(k) \ {"body", "extensions", "method", "uri", "version"}
Cleared(k) ==
  CASE k = "bytes" -> {"content"}
    [] k = "message" -> Reset
    [] k = "response" -> Release

(* What whoever takes an object out sets before anyone can look at it:     *)
(* parse_message, get_builder with body, get_response.                     *)
SetAgain(k) ==
  CASE k = "bytes" -> {}
    [] k = "message" -> {"method", "uri", "version"}
    [] k = "response" -> {"status", "body"}

Made == {o \in Objects : refs[o] > 0 \/ o \in Range(pool)}
NotBuilt == {b.object : b \in builder}

-----------------------------------------------------------------------------
Init ==
  /\ kind \in {"bytes", "message", "response"} /\ pool = <<>>
  /\ refs = [o \in Objects |-> 0] /\ stale = [o \in Objects |-> {}]
  /\ used = [o \in Objects |-> {}] /\ builder = {}

(* get_bytes, SharedMessagePool::get, get_response, get_builder: the last  *)
(* object put back, or a new one.  A builder sets the body at its end.     *)
Get ==
  /\ \E o \in IF pool # <<>> THEN {pool[1]} ELSE Objects \ Made, built \in BOOLEAN :
       /\ built => kind = "response"
       /\ refs' = [refs EXCEPT ![o] = 1] /\ used' = [used EXCEPT ![o] = {}]
       /\ stale' = [stale EXCEPT ![o] = (IF pool = <<>> THEN {} ELSE @)
                                          \ (IF built THEN {"status"} ELSE SetAgain(kind))]
       /\ builder' = IF built THEN builder \cup {[object |-> o, err |-> FALSE]} ELSE builder
  /\ pool' = IF pool = <<>> THEN <<>> ELSE Tail(pool)
  /\ UNCHANGED kind

(* The user of an object sets one of its fields (bound: one beside the     *)
(* body); a builder with an error sets nothing.                            *)
Set(o, f) ==
  /\ refs[o] > 0 /\ f \in Fields(kind) /\ used[o] \subseteq {"body"} /\ f \notin used[o]
  /\ \A b \in builder : b.object = o => ~b.err
  /\ used' = [used EXCEPT ![o] = @ \cup {f}] /\ stale' = [stale EXCEPT ![o] = @ \ {f}]
  /\ UNCHANGED <<kind, pool, refs, builder>>

(* header, content_type or set with a value that cannot be converted.      *)
BadHeader(o) ==
  /\ \E b \in builder : b.object = o /\ builder' = (builder \ {b}) \cup {[object |-> o, err |-> TRUE]}
  /\ UNCHANGED <<kind, pool, refs, stale, used>>

(* body: the response, or the error met on the way or in writing the       *)
(* cookies; the response begun is dropped then, and not put back.          *)
Body(o) ==
  /\ \E b \in builder :
       /\ b.object = o /\ builder' = builder \ {b}
       /\ \/ refs' = [refs EXCEPT ![o] = 0] /\ UNCHANGED <<stale, used>>
          \/ /\ ~b.err /\ stale' = [stale EXCEPT ![o] = @ \ {"body"}]
               /\ used' = [used EXCEPT ![o] = @ \cup {"body"}] /\ UNCHANGED refs
  /\ UNCHANGED <<kind, pool>>

(* into_builder: a response given back to a builder keeps its fields.      *)
IntoBuilder(o) ==
  /\ kind = "response" /\ refs[o] > 0 /\ o \notin NotBuilt
  /\ builder' = builder \cup {[object |-> o, err |-> FALSE]}
  /\ UNCHANGED <<kind, pool, refs, stale, used>>

(* Clone of a SharedBytes or of a HttpRequest; a response has one owner.   *)
CloneHandle(o) ==
  /\ kind # "response" /\ refs[o] \in 1..(MaxRefs - 1) /\ refs' = [refs EXCEPT ![o] = @ + 1]
  /\ UNCHANGED <<kind, pool, stale, used, builder>>

(* Drop: the last handle puts the object back, if the pool has room.       *)
Drop(o) ==
  /\ refs[o] > 0 /\ o \notin NotBuilt /\ refs' = [refs EXCEPT ![o] = @ - 1]
  /\ IF refs[o] = 1 /\ Len(pool) < Capacity
     THEN /\ pool' = <<o>> \o pool /\ stale' = [stale EXCEPT ![o] = (@ \cup used[o]) \ Cleared(kind)]
          /\ used' = [used EXCEPT ![o] = {}]
     ELSE UNCHANGED <<pool, stale, used>>
  /\ UNCHANGED <<kind, builder>>

Next ==
  \/ Get
  \/ \E o \in Objects :
       (\E f \in Fields(kind) : Set(o, f)) \/ BadHeader(o) \/ Body(o)
       \/ IntoBuilder(o) \/ CloneHandle(o) \/ Drop(o)

Spec == Init /\ [][Next]_vars

-----------------------------------------------------------------------------
(* The values of the variables.                                            *)
TypeOK ==
  /\ Len(pool) <= Capacity /\ refs \in [Objects -> 0..MaxRefs]
  /\ \A o \in Objects : stale[o] \cup used[o] \subseteq Fields(kind)

(* Whoever holds a request, a response or a buffer sees nothing of its     *)
(* last user: what release leaves, taking it out sets again.               *)
NothingStale == \A o \in Objects : refs[o] > 0 /\ o \notin NotBuilt => stale[o] = {}

(* An object in a pool has no handle and is there once: no two connections *)
(* write into one buffer, and no answer changes after it is given away.    *)
NotShared ==
  /\ \A o \in Range(pool) : refs[o] = 0
  /\ Cardinality(Range(pool)) = Len(pool)
=============================================================================
