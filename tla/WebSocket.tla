------------------------------ MODULE WebSocket -------------------------------
(***************************************************************************)
(* One direction of a WebSocket: frames written by one side (ws/context.rs *)
(* on the server, the writer of ws/client.rs on the client), or sent by    *)
(* some other implementation, carried in chunks of any size and read by    *)
(* the other side (ws/frame.rs with WsStream of ws/mod.rs on the server,   *)
(* ClientReader of ws/client.rs on the client).                            *)
(*                                                                         *)
(* A byte is the number of its frame and its place in it.  The lengths     *)
(* that change the header, 125 and 65535, are constants.                   *)
(***************************************************************************)
EXTENDS Integers, Sequences, SequencesExt, FiniteSets, PayloadHelper

CONSTANTS
  Small,      \* 125, the longest payload with a 7 bit length
  Medium,     \* 65535, the longest with a 16 bit length
  MaxSize,    \* max_size of the reader
  Written,    \* bound: the kinds of messages written
  Lengths,    \* bound: lengths of their payloads
  PeerLengths,  \* bound: lengths of other frames
  MaxFrames,  \* bound: frames
  Cuts,       \* bound: sizes of the chunks the frames arrive in, but the last
  MaxChunks   \* bound: chunks

VARIABLES
  server,     \* whether the reader is the server
  frames,     \* the frames written so far
  context,    \* numbers of the frames still in the writer's context
  disconnected, \* whether the writer's actor has seen the connection go
  wire,       \* bytes sent and not yet delivered
  chunks,     \* chunks delivered so far
  rx,         \* the reader's PayloadHelper
  closed,     \* closed of the reader
  got,        \* what the reader yielded
  last        \* what its last poll answered

writer == <<server, frames, context, disconnected>>
reader == <<rx, closed, got, last>>
vars == <<writer, wire, chunks, reader>>

OpCodes == {"Continue", "Text", "Binary", "Close", "Ping", "Pong", "Bad"}
Control == {"Close", "Ping", "Pong"}

-----------------------------------------------------------------------------
(* Frame                                                                   *)

(* Bytes of the extended length.                                           *)
LenBytes(len) == IF len <= Small THEN 0 ELSE IF len <= Medium THEN 2 ELSE 8

HeaderSize(f) == 2 + LenBytes(f.len) + (IF f.masked THEN 4 ELSE 0)

(* Frame::message and Frame::close: the bytes of frame number k.           *)
Message(k, f) == [i \in 1..HeaderSize(f) + f.len |-> <<k, i>>]

(* Bytes of the mask, which the server reads, and the bytes a frame takes. *)
MaskBytesNone(srv) == 0
MaskBytes(srv) == IF srv THEN 4 ELSE 0
Wanted(idx, len) == idx + len

(* What the reader makes of the first n bytes of frame f: "short", an      *)
(* error or "ok", with the number of bytes it has to see.                  *)
Metadata(f, n, srv) ==
  LET idx == 2 + LenBytes(f.len) IN
  CASE n < 2 -> <<"short", 2>>
    [] n >= 2 /\ srv /\ ~f.masked -> <<"UnmaskedFrame", 2>>
    [] n >= 2 /\ ~srv /\ f.masked -> <<"MaskedFrame", 2>>
    [] n >= 2 /\ srv = f.masked /\ f.op = "Bad" -> <<"InvalidOpcode", 2>>
    [] OTHER ->
         CASE n < idx -> <<"short", idx>>
           [] n >= idx /\ f.len > MaxSize -> <<"Overflow", idx>>
           [] n >= idx /\ f.len <= MaxSize /\ n < idx + MaskBytes(srv) -> <<"short", idx + MaskBytes(srv)>>
           [] OTHER -> <<"ok", idx + MaskBytes(srv)>>

(* The frame at the front of the bytes; the parser never loses its place.  *)
FrameAt(bytes, fs) == fs[bytes[1][1]]

Answer(a, h) == [ans |-> a, h |-> h, k |-> 0, data |-> <<>>]

(* read_copy_md: the same over several chunks, copied again for each part. *)
RECURSIVE ReadCopyMd(_, _, _)
ReadCopyMd(h, f, srv) ==
  LET md == Metadata(f, Size(h.items), srv)
      c  == Copy(h, md[2])
  IN  IF md[1] = "short" /\ c.ans = "Ready" THEN ReadCopyMd(c.h, f, srv)
      ELSE <<md, IF md[1] = "short" THEN c.h ELSE h>>

(* read_chunk_md, or read_copy_md if the chunk c is too short.             *)
ReadMd(c, f, srv) ==
  LET one == Metadata(f, Len(c.data), srv) IN
  IF one[1] = "short" THEN ReadCopyMd(c.h, f, srv) ELSE <<one, c.h>>

(* Frame::parse, from its end: the payload of frame k, once it is read.    *)
ParseBody(k, f, body) ==
  IF f.len > Small /\ f.op \in {"Ping", "Pong"} THEN Answer("InvalidLength", body.h)
  ELSE [ans |-> "Ready", h |-> body.h, k |-> k,
        data |-> IF f.len > Small /\ f.op = "Close" THEN <<>> ELSE body.data]

(* All of the frame must be there before any of it is taken.               *)
ParsePayload(k, f, idx, all) ==
  IF all.ans # "Ready" THEN Answer(all.ans, all.h)
  ELSE ParseBody(k, f, ReadExact(DropPayload(all.h, idx), f.len))

ParseMd(k, f, md, h) ==
  CASE md[1] = "short" -> Answer(Short(h).ans, h)
    [] md[1] = "ok" -> ParsePayload(k, f, md[2], CanRead(h, Wanted(md[2], f.len)))
    [] OTHER -> Answer(md[1], h)

ParseHead(k, f, r) == ParseMd(k, f, r[1], r[2])

ParseChunk(c, fs, srv) ==
  IF c.ans # "Ready" THEN Answer(c.ans, c.h)
  ELSE ParseHead(c.data[1][1], FrameAt(c.data, fs), ReadMd(c, FrameAt(c.data, fs), srv))

Parse(h, fs, srv) == ParseChunk(GetChunk(h), fs, srv)

(* The two readers: what a frame becomes, and whether the reader closes.   *)
(* A close frame is read for its code: two bytes it may not have.          *)
HasCode(data) == Len(data) >= 2
Received(f, data, srv) ==
  CASE srv /\ ~f.fin -> <<"NoContinuation", TRUE>>
    [] (srv => f.fin) /\ f.op = "Continue" -> <<"NoContinuation", ~srv>>
    [] (srv => f.fin) /\ f.op = "Close" -> <<IF HasCode(data) THEN "Close" ELSE "panic", TRUE>>
    [] (srv => f.fin) /\ f.op = "Text" -> IF f.utf8 THEN <<"Text", FALSE>> ELSE <<"BadEncoding", TRUE>>
    [] OTHER -> <<f.op, FALSE>>

-----------------------------------------------------------------------------
Init ==
  /\ server \in BOOLEAN /\ frames = <<>> /\ context = <<>>
  /\ disconnected = FALSE /\ wire = <<>> /\ chunks = 0
  /\ rx = New(<<>>, "open") /\ closed = FALSE /\ got = <<>> /\ last = "NotReady"

(* WebsocketContext::write and ClientWriter::write: text, binary, ping,    *)
(* pong and close, on a connection that is still up.                       *)
Write ==
  /\ ~disconnected /\ Len(frames) < MaxFrames
  /\ \E op \in Written, len \in Lengths :
       frames' = Append(frames, [op |-> op, fin |-> TRUE, len |-> len, masked |-> server,
                                 utf8 |-> TRUE])
  /\ context' = Append(context, Len(frames'))
  /\ UNCHANGED <<server, disconnected, wire, chunks, reader>>

(* Another implementation sends a frame this one would not write: part of  *)
(* a message, one masked for the wrong side, a text that is not UTF-8, or  *)
(* an unknown opcode.                                                      *)
PeerSends ==
  /\ Len(frames) < MaxFrames /\ context = <<>> /\ ~disconnected
  /\ \E op \in {"Continue", "Text", "Bad"}, odd \in {"fin", "masked", "utf8", "op"},
        len \in PeerLengths :
       LET f == [op |-> op, fin |-> odd # "fin", len |-> len,
                 masked |-> IF odd = "masked" THEN ~server ELSE server, utf8 |-> odd # "utf8"] IN
       /\ op = "Text" <=> odd # "op"
       /\ frames' = Append(frames, f) /\ wire' = wire \o Message(Len(frames'), f)
  /\ UNCHANGED <<server, context, disconnected, chunks, reader>>

(* The pipeline polls the context and writes all its frames out.           *)
ContextPoll ==
  /\ context # <<>> /\ context' = <<>>
  /\ wire' = wire \o FlattenSeq([i \in 1..Len(context) |-> Message(context[i], frames[context[i]])])
  /\ UNCHANGED <<server, frames, disconnected, chunks, reader>>

(* The connection goes down: the actor stops, what it wrote still goes out.*)
Disconnected ==
  /\ ~disconnected /\ disconnected' = TRUE
  /\ UNCHANGED <<server, frames, context, wire, chunks, reader>>

Deliver ==
  /\ wire # <<>> /\ chunks < MaxChunks /\ chunks' = chunks + 1
  /\ \E n \in {Len(wire)} \cup (IF chunks' = MaxChunks THEN {} ELSE {c \in Cuts : c < Len(wire)}) :
       /\ rx' = [rx EXCEPT !.src = Append(@, SubSeq(wire, 1, n))]
       /\ wire' = SubSeq(wire, n + 1, Len(wire))
  /\ UNCHANGED <<writer, closed, got, last>>

StreamEnds ==
  /\ rx.end = "open" /\ \E e \in {"eof", "err"} : rx' = [rx EXCEPT !.end = e]
  /\ disconnected /\ context = <<>>
  /\ wire' = <<>> /\ UNCHANGED <<writer, chunks, closed, got, last>>

(* WsStream::poll, ClientReader::poll.                                     *)
Poll ==
  /\ ~closed /\ last # "panic"
  /\ \E r \in {Parse(rx, frames, server)} :
     /\ rx' = r.h
     /\ IF r.ans = "Ready" THEN
          LET m == Received(frames[r.k], r.data, server) IN
          /\ last' = m[1] /\ closed' = m[2]
          /\ got' = Append(got, [k |-> r.k, as |-> m[1], data |-> r.data])
        ELSE /\ last' = r.ans /\ closed' = (r.ans \notin {"NotReady", "None"})
             /\ UNCHANGED got
  /\ UNCHANGED <<writer, wire, chunks>>

Next == Write \/ PeerSends \/ ContextPoll \/ Disconnected \/ Deliver \/ StreamEnds \/ Poll

Spec == Init /\ [][Next]_vars

-----------------------------------------------------------------------------
Errors == {"UnmaskedFrame", "MaskedFrame", "InvalidOpcode", "Overflow", "InvalidLength",
           "NoContinuation", "BadEncoding", "Err"}

(* The values of the variables.                                            *)
TypeOK ==
  /\ \A i \in 1..Len(frames) : frames[i].op \in OpCodes /\ frames[i].len \in Lengths \cup PeerLengths
  /\ \A i \in 1..Len(got) : got[i].k \in 1..Len(frames)
  /\ {server, disconnected, closed} \subseteq BOOLEAN
  /\ last \in {"NotReady", "None", "Text", "Binary", "Ping", "Pong", "Close", "panic"} \cup Errors

(* However the bytes are cut, the reader yields every frame it has passed, *)
(* each once, in order and with exactly its payload.                       *)
InOrder ==
  \A i \in 1..Len(got) :
     LET f == frames[i] IN
     /\ got[i].k = i
     /\ got[i].data = IF f.op = "Close" /\ f.len > Small THEN <<>>
                      ELSE SubSeq(Message(i, f), HeaderSize(f) + 1, HeaderSize(f) + f.len)

Buffered == FlattenSeq(rx.items \o rx.src)

(* An open reader waits only for bytes that have not come: a frame that is *)
(* there whole is never left lying.                                        *)
NeverStuck ==
  (last \in {"NotReady", "None"} /\ ~closed /\ rx.src = <<>> /\ Buffered # <<>>) =>
     LET f == FrameAt(Buffered, frames) IN Len(Buffered) < HeaderSize(f) + f.len

(* Nothing longer than max_size is yielded, no long ping or pong, and      *)
(* nothing after a close frame or an error that closes the reader.         *)
Accepted ==
  \A i \in 1..Len(got) :
     /\ Len(got[i].data) <= MaxSize
     /\ got[i].as \in Control => Len(got[i].data) <= Small
     /\ i < Len(got) => got[i].as \notin {"Close", "BadEncoding"}

(* The reader panics only on a close frame without a code.                 *)
PanicOnlyOnEmptyClose ==
  last = "panic" => LET f == frames[got[Len(got)].k] IN
                    f.op = "Close" /\ (f.len < 2 \/ f.len > Small)
=============================================================================
