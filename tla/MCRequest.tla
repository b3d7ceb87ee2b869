------------------------------- MODULE MCRequest ------------------------------
(***************************************************************************)
(* The modules about the way of one request through a connection, for TLC: *)
(* those of MCServing, Payload (its body) and Extract (the arguments of    *)
(* its handler).  They share no state.  A behaviour is one of one of them, *)
(* which mode names; the variables of the others stay empty.               *)
(***************************************************************************)
EXTENDS MCServing

CONSTANTS
  Shapes, Default, Limits, MaxBody,  \* of Extract
  Totals, Kinds, Owners, Capacity, ReadMax, MaxUnread, MaxWaits, MayClose  \* of Payload

(* The handlers' extractors TLC is given.                                  *)
MCShapes == {<<"Bytes">>, <<"String">>, <<"Json">>, <<"Form">>, <<"Json", "Bytes">>,
             <<"Path", "Form", "Bytes">>, <<"Json", "Query", "String">>}

VARIABLES
  shape, config, head, sent, unread, stream, with, extracting, at, local,
  folded, args, result,
  items, len, eof, err, needRead, task, ioTask, left, payload, error, sock,
  unsent, closed, interest, reader, pos, last, budget, total, kind, owner,
  pc, cur, retry, wake

ofExtract == <<shape, config, head, sent, unread, stream, with, extracting,
               at, local, folded, args, result>>
ofPayload == <<items, len, eof, err, needRead, task, ioTask, left, payload,
               error, sock, unsent, closed, interest, reader, pos, last,
               budget, total, kind, owner, pc, cur, retry, wake>>
vars == <<mode, ofChannel, ofPools, ofCompose, ofExtract, ofPayload>>

E == INSTANCE Extract WITH pc <- extracting
P == INSTANCE Payload

NoChannel ==
  /\ proto = 0 /\ secure = 0 /\ good = 0 /\ socket = 0 /\ buf = 0 /\
     waiting = 0 /\ woken = 0 /\ channels = 0
NoPools ==
  /\ pooled = 0 /\ pool = 0 /\ refs = 0 /\ stale = 0 /\ used = 0 /\
     builder = 0
NoCompose ==
  /\ composing = 0 /\ state = 0 /\ count = 0 /\ curr = 0 /\ fut = 0 /\
     started = 0 /\ waited = 0 /\ handled = 0 /\ seen = 0
NoExtract ==
  /\ shape = 0 /\ config = 0 /\ head = 0 /\ sent = 0 /\ unread = 0 /\
     stream = 0 /\ with = 0 /\ extracting = 0 /\ at = 0 /\ local = 0 /\
     folded = 0 /\ args = 0 /\ result = 0
NoPayload ==
  /\ items = 0 /\ len = 0 /\ eof = 0 /\ err = 0 /\ needRead = 0 /\
     task = 0 /\ ioTask = 0 /\ left = 0 /\ payload = 0 /\ error = 0 /\
     sock = 0 /\ unsent = 0 /\ closed = 0 /\ interest = 0 /\ reader = 0 /\
     pos = 0 /\ last = 0 /\ budget = 0 /\ total = 0 /\ kind = 0 /\
     owner = 0 /\ pc = 0 /\ cur = 0 /\ retry = 0 /\ wake = 0

Init ==
  \/ mode = "Channel" /\ C!Init /\ NoPools /\ NoCompose /\ NoExtract /\ NoPayload
  \/ mode = "Pools" /\ O!Init /\ NoChannel /\ NoCompose /\ NoExtract /\ NoPayload
  \/ mode = "Compose" /\ W!Init /\ NoChannel /\ NoPools /\ NoExtract /\ NoPayload
  \/ mode = "Extract" /\ E!Init /\ NoChannel /\ NoPools /\ NoCompose /\ NoPayload
  \/ mode = "Payload" /\ P!Init /\ NoChannel /\ NoPools /\ NoCompose /\ NoExtract

(* A step of the module that mode names.                                   *)
OfCompose(A) == mode = "Compose" /\ A /\ UNCHANGED <<mode, ofChannel, ofPools, ofExtract, ofPayload>>
OfExtract(A) == mode = "Extract" /\ A /\ UNCHANGED <<mode, ofChannel, ofPools, ofCompose, ofPayload>>
OfPayload(A) == mode = "Payload" /\ A /\ UNCHANGED <<mode, ofChannel, ofPools, ofCompose, ofExtract>>

Next ==
  \/ mode = "Channel" /\ C!Next /\ UNCHANGED <<mode, ofPools, ofCompose, ofExtract, ofPayload>>
  \/ mode = "Pools" /\ O!Next /\ UNCHANGED <<mode, ofChannel, ofCompose, ofExtract, ofPayload>>
  \/ OfCompose(W!Next)
  \/ OfExtract(E!Next)
  \/ OfPayload(P!Next)

Spec == Init /\ [][Next]_vars

(* Payload: the event loop runs every notified task, the peer goes on      *)
(* sending until it closes, and what the handler waits for happens.        *)
(* Compose and Extract: a future that is pending is polled when it is      *)
(* woken.                                                                  *)
FairSpec ==
  /\ Spec
  /\ WF_vars(OfPayload(P!Connection)) /\ WF_vars(OfPayload(P!OtherPoll))
  /\ WF_vars(OfPayload(P!ReadAny)) /\ WF_vars(OfPayload(P!Resume))
  /\ WF_vars(OfPayload(P!Send \/ P!Close))
  /\ WF_vars(OfCompose(W!Next) \/ OfExtract(E!Step))

-----------------------------------------------------------------------------
(* Extract: the futures find what they unwrap; every argument is whole and *)
(* in its place; no more than the limit is held in memory, and a body is   *)
(* refused as too large only if it is, but for the form whose declared     *)
(* length meets the default limit (WithHandlerFut1 to 3, MessageBody,      *)
(* UrlEncoded, JsonBody).                                                  *)
ArgumentsWhole ==
  mode = "Extract" => E!TypeOK /\ E!NoUnwrap /\ E!WholeBody /\ E!WithinLimit /\ E!OverflowIsReal

(* Payload: the chunks in the buffer are the units fed and not yet taken,  *)
(* in order; the handler sees the end only after the whole body, and a     *)
(* failure only if units are missing; a reader that waits while data is    *)
(* there has been notified, contrary to the comment at payload.rs:25, and  *)
(* so has a connection that may read on (Inner::feed_data, readany,        *)
(* unread_data, Reader::parse).                                            *)
PayloadKept ==
  mode = "Payload" => /\ P!TypeOK /\ P!Buffered /\ P!EndMeansAll /\ P!IncompleteMeansShort
                      /\ P!DataWakesReader /\ P!RoomWakesConnection

(* Nobody is left waiting: if the hooks' futures resolve there is a        *)
(* response (Compose); once the body has ended the handler's arguments are *)
(* made or the request is refused (WithHandlerFut1 to 3); and the body,    *)
(* its failure or the loss of the peer reaches a handler in the task of    *)
(* the connection (Http1::poll_io, Inner::readany).  These are Answers of  *)
(* Compose, Answered of Extract and DeliveredInTask of Payload.            *)
Answered ==
  /\ (mode = "Compose") ~> (mode = "Compose" /\ composing \in {"done", "panic"})
  /\ (mode = "Extract" /\ stream # "open") ~> (mode = "Extract" /\ result \notin {"none", "called"})
  /\ (mode = "Payload" /\ owner = "conn") ~> (mode = "Payload" /\ reader \in {"end", "failed", "dropped"})
=============================================================================
