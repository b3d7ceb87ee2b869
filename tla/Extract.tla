------------------------------- MODULE Extract --------------------------------
(***************************************************************************)
(* A handler with extractors (with.rs): the future that makes the          *)
(* arguments one after the other from the request (extractor.rs, json.rs), *)
(* reading its body through MessageBody, UrlEncoded or JsonBody            *)
(* (httpmessage.rs, json.rs), and calls the handler with all of them.      *)
(* There are three such futures, for one, two and three extractors, each   *)
(* with one path for its first poll, which keeps what it has made in       *)
(* locals until something is not ready, and one for the later polls.  The  *)
(* body arrives in chunks between the polls and is read once.              *)
(***************************************************************************)
EXTENDS Integers, Sequences, FiniteSets

CONSTANTS
  Shapes,     \* the extractors of a handler: sequences of one to three kinds
  Default,    \* 262,144: the limit of a body that is not configured
  Limits,     \* limits that are configured
  MaxBody     \* bound: bytes of a body

VARIABLES
  shape,      \* the kinds of the extractors
  config,     \* their limit, and whether a mime type is required
  head,       \* length (declared, -1: none, -2: no number), chunked, type
  sent,       \* bytes of the body that have arrived
  unread,     \* those not yet read
  stream,     \* the body: "open", "eof" or "error"
  with,       \* WithHandlerFut: started, which of fut1..fut3 are Some, the items kept
  pc,         \* "idle", in its "first" poll or in one "again", or "panic"
  at,         \* the extractor this poll is at
  local,      \* the items the first poll has made
  folded,     \* bytes the body's future has read, -1 before its first poll
  args,       \* the arguments of each call of the handler
  result      \* "none", "called", "ok" or an error

body == <<sent, unread, stream>>
vars == <<shape, config, head, body, with, pc, at, local, folded, args, result>>

OfBody == {"Bytes", "String", "Form", "Json"}
N == Len(shape)
kind == shape[at]
None == -1

(* A body with a declared length has this length: the connection sees to   *)
(* it.                                                                     *)
Size == IF head.length < 0 THEN MaxBody ELSE head.length

(* WithHandlerFut3; the smaller ones have less of it.                      *)
NewFut == [started |-> FALSE, futs |-> {}, items |-> <<None, None>>]

(* With::handle makes the future, and polls it at once.                    *)
Init ==
  /\ shape \in Shapes
  /\ config \in [limit : Limits, mimetype : BOOLEAN]
  /\ head \in [length : -2..MaxBody, chunked : BOOLEAN, type : {"fits", "other", "bad"}]
  /\ head.chunked => head.length = -1
  /\ sent = 0 /\ unread = 0 /\ stream = "open"
  /\ with = NewFut
  /\ pc = "idle" /\ at = 1 /\ local = <<>> /\ folded = None /\ args = <<>> /\ result = "none"

(* The body arrives, ends, or fails.                                       *)
Arrive ==
  /\ pc = "idle" /\ stream = "open" /\ sent < Size
  /\ \E n \in 1..(Size - sent) : sent' = sent + n /\ unread' = unread + n
  /\ UNCHANGED <<shape, config, head, stream, with, pc, at, local, folded, args, result>>
End ==
  /\ pc = "idle" /\ stream = "open" /\ (head.length < 0 \/ sent = Size) /\ stream' = "eof"
  /\ UNCHANGED <<shape, config, head, sent, unread, with, pc, at, local, folded, args, result>>
Break ==
  /\ pc = "idle" /\ stream = "open" /\ stream' = "error"
  /\ UNCHANGED <<shape, config, head, sent, unread, with, pc, at, local, folded, args, result>>

-----------------------------------------------------------------------------
(* What an extractor objects to before it reads: the first of the          *)
(* conditions that holds gives the error.                                  *)
FirstOf(checks) ==
  LET failing == {i \in DOMAIN checks : checks[i][1]}
  IN IF failing = {} THEN "none"
     ELSE checks[CHOOSE i \in failing : \A j \in failing : i <= j][2]
TooLong(bound) == head.length > bound

(* The first poll of MessageBody, of JsonBody, and of UrlEncoded, which    *)
(* holds a declared length against the default, whatever its limit.        *)
MessageBody == FirstOf(<< <<TooLong(config.limit), "Overflow">>, <<head.length = -2, "UnknownLength">> >>)
JsonBody == FirstOf(<< <<TooLong(config.limit) \/ head.length = -2, "Overflow">>,
                       <<head.type # "fits", "ContentType">> >>)
UrlEncoded == FirstOf(<< <<head.chunked, "Chunked">>, <<TooLong(Default), "Overflow">>,
                         <<head.length = -2, "UnknownLength">>, <<head.type # "fits", "ContentType">> >>)

CheckMimetype == ~config.mimetype \/ head.type = "fits"
BytesFromRequest == IF CheckMimetype THEN MessageBody ELSE "BadRequest"
StringFromRequest == IF CheckMimetype /\ head.type # "bad" THEN MessageBody ELSE "BadRequest"
JsonFromRequest == JsonBody
FormFromRequest == UrlEncoded
Objection == CASE kind = "Bytes" -> BytesFromRequest [] kind = "String" -> StringFromRequest
               [] kind = "Json" -> JsonFromRequest [] kind = "Form" -> FormFromRequest

-----------------------------------------------------------------------------
(* The handler is called with its arguments; its reply is a message, an    *)
(* error or a future that is polled from then on.                          *)
Call(items) ==
  /\ args' = Append(args, items) /\ result' = "called" /\ pc' = "idle" /\ folded' = None
  /\ UNCHANGED <<with, at, local>>

(* An extractor is ready in the first poll: the next one is made from a    *)
(* local, or the handler is called.                                        *)
ReadyFirst(item) ==
  IF at = N THEN Call(Append(local, item))
  ELSE /\ local' = Append(local, item) /\ at' = at + 1 /\ folded' = None
       /\ UNCHANGED <<with, pc, args, result>>

(* ... and in a later one: the item is kept and the next future too.       *)
Keep(item) == [with EXCEPT !.items[at] = item, !.futs = {at + 1}]
ReadyAgain(item) ==
  IF at = N
  THEN LET items == SubSeq(with.items, 1, N - 1) IN
       IF None \in {items[i] : i \in DOMAIN items}
       THEN pc' = "panic" /\ UNCHANGED <<with, at, local, folded, args, result>>
       ELSE Call(Append(items, item))
  ELSE /\ with' = Keep(item) /\ at' = at + 1 /\ folded' = None
       /\ UNCHANGED <<pc, local, args, result>>
Ready(item) == IF pc = "first" THEN ReadyFirst(item) ELSE ReadyAgain(item)

(* It is not ready: the first poll moves what it has into the future.      *)
FirstNotReady ==
  with' = [with EXCEPT !.futs = {at},
           !.items = [i \in 1..2 |-> IF i <= Len(local) THEN local[i] ELSE None]]
NotReady ==
  /\ pc' = "idle" /\ local' = <<>>
  /\ IF pc = "first" THEN FirstNotReady ELSE UNCHANGED with
  /\ UNCHANGED <<at, folded, args, result>>
Failed(e) == result' = e /\ pc' = "idle" /\ UNCHANGED <<with, at, local, folded, args>>

-----------------------------------------------------------------------------
(* The future that a later poll goes to: the first that is kept, and the   *)
(* last one without asking.                                                *)
Again1 == 1
Again2 == IF 1 \in with.futs THEN 1 ELSE 2
Again3 == IF 1 \in with.futs THEN 1 ELSE IF 2 \in with.futs THEN 2 ELSE 3
Again == CASE N = 1 -> Again1 [] N = 2 -> Again2 [] N = 3 -> Again3

Poll ==
  /\ pc = "idle" /\ result = "none"
  /\ IF ~with.started
     THEN with' = [with EXCEPT !.started = TRUE] /\ pc' = "first" /\ at' = 1
     ELSE /\ at' = Again /\ pc' = IF Again \in with.futs THEN "again" ELSE "panic"
          /\ UNCHANGED with
  /\ UNCHANGED <<shape, config, head, body, local, folded, args, result>>

Polling == pc \in {"first", "again"}
NoBody == UNCHANGED <<shape, config, head, body>>

(* Path and Query are made from the head, or fail, at once.                *)
PathFromRequest == kind = "Path" /\ (Ready(0) \/ Failed("BadRequest"))
QueryFromRequest == kind = "Query" /\ (Ready(0) \/ Failed("BadRequest"))
FromHead == Polling /\ (PathFromRequest \/ QueryFromRequest) /\ NoBody

FirstPoll ==
  /\ Polling /\ kind \in OfBody /\ folded = None
  /\ IF Objection = "none" THEN folded' = 0 /\ UNCHANGED <<with, pc, at, local, args, result>>
     ELSE Failed(Objection)
  /\ NoBody

(* The fold over the body: a chunk, any part of what has arrived.          *)
Over(n) == folded + n > config.limit
Chunk ==
  /\ Polling /\ kind \in OfBody /\ folded >= 0 /\ unread > 0
  /\ \E n \in 1..unread :
       /\ unread' = unread - n
       /\ IF Over(n) THEN Failed("Overflow")
          ELSE folded' = folded + n /\ UNCHANGED <<with, pc, at, local, args, result>>
  /\ UNCHANGED <<shape, config, head, sent, stream>>

(* Its end: the body is made into the item, or is not what it should be.   *)
FoldEarly ==
  /\ Polling /\ kind \in OfBody /\ folded >= 0 /\ unread = 0
  /\ \/ stream # "error" /\ Ready(folded)
     \/ stream = "error" /\ Failed("Payload")
  /\ NoBody
FoldWaits ==
  /\ Polling /\ kind \in OfBody /\ folded >= 0 /\ unread = 0
  /\ IF stream = "open" \/ folded = 0 THEN NotReady ELSE Ready(folded)
  /\ NoBody
Fold ==
  /\ Polling /\ kind \in OfBody /\ folded >= 0 /\ unread = 0
  /\ \/ stream = "open" /\ NotReady
     \/ stream = "eof" /\ (Ready(folded) \/ (kind # "Bytes" /\ Failed("BadRequest")))
     \/ stream = "error" /\ Failed("Payload")
  /\ NoBody

(* The handler's reply; while it is a future, every poll goes to it.       *)
Reply ==
  /\ pc = "idle" /\ result = "called" /\ result' \in {"ok", "Handler"}
  /\ UNCHANGED <<shape, config, head, body, with, pc, at, local, folded, args>>

Step == Poll \/ FromHead \/ FirstPoll \/ Chunk \/ Fold \/ Reply
Next == Arrive \/ End \/ Break \/ Step

Spec == Init /\ [][Next]_vars
FairSpec == Spec /\ WF_vars(Step)

-----------------------------------------------------------------------------
FirstOfBody == {i \in DOMAIN shape : shape[i] \in OfBody /\ \A j \in 1..(i - 1) : shape[j] \notin OfBody}

(* The values of the variables.                                            *)
TypeOK ==
  /\ at \in 1..N /\ folded \in None..MaxBody /\ Len(args) <= 1 /\ Len(local) < N
  /\ unread \in 0..sent /\ sent \in 0..MaxBody /\ Cardinality(with.futs) <= 1

(* Whenever the body arrives, the futures find the future and the items    *)
(* they unwrap.                                                            *)
NoUnwrap == pc # "panic"

(* The handler is called with every argument in its place: the first that  *)
(* takes the body has the whole of it, neither cut at a chunk nor read     *)
(* before its end; one after it finds nothing left to read.                *)
WholeBody ==
  args # <<>> =>
     /\ Len(args[1]) = N
     /\ \A i \in DOMAIN shape :
          args[1][i] = IF i \in FirstOfBody THEN sent ELSE 0
     /\ FirstOfBody # {} => stream = "eof"

(* No more than the limit is ever held in memory, however the body is cut  *)
(* and whatever its declared length.                                       *)
WithinLimit == folded <= config.limit

(* A body is refused as too large only if it is: except that of a form,    *)
(* whose declared length is held against the default even if another limit *)
(* is set (httpmessage.rs:374).                                            *)
OverflowIsReal ==
  (result = "Overflow" /\ head.length # -2) =>
     \/ sent > config.limit \/ head.length > config.limit
     \/ kind = "Form" /\ head.length > Default

(* Once the body has ended or failed the request is answered, whatever the *)
(* extractors and however they were polled before.                         *)
Answered == (stream # "open") ~> (result \notin {"none", "called"})
=============================================================================
