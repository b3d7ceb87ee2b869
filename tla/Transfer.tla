------------------------------- MODULE Transfer -------------------------------
(***************************************************************************)
(* The body of one message between the server and the client of this       *)
(* crate: how the writer frames it (ContentEncoder and TransferEncoding of *)
(* server/encoding.rs, H1Writer::start, and client/writer.rs), what the    *)
(* reader makes of the headers (parse_message in server/h1.rs and          *)
(* client/parser.rs) and how it takes the body out of what arrives         *)
(* (Decoder of server/h1.rs, PayloadStream of server/encoding.rs).         *)
(*                                                                         *)
(* A byte of the body is "d1", "d2"...; a compressed body is its bytes     *)
(* between "gz" and "end".  "next" is what follows the message.  Chunk     *)
(* sizes are written in base Radix, 16 in the code.  The reader starts     *)
(* when the message is written: the two share nothing but the bytes.       *)
(***************************************************************************)
EXTENDS Integers, Sequences, SequencesExt, FiniteSets

CONSTANTS
  Radix,      \* 16, base of chunk sizes
  Width,      \* 64, bits of a chunk size
  Sizes,      \* bound: sizes of the pieces the application writes
  MaxWrites,  \* bound: number of pieces
  Cuts,       \* bound: sizes of the reads, but the last
  MaxReads    \* bound: number of reads

VARIABLES
  m,          \* the message and what is asked for it
  head,       \* framing headers: cl (-1 if none), te, ce, switching
  enc,        \* the encoder: kind, left, eof, comp, held
  wstate,     \* "writing", "done" or "error"
  sent,       \* bytes the application wrote
  dropped,    \* whether it wrote some after an empty piece that ended the chunks
  wire,       \* bytes written and not yet read
  reads, buf, \* reads so far, the reader's buffer
  dec,        \* the decoder: kind, state, size
  unzip,      \* its decompressor: "off", "new", "open", "ended" or "error"
  rstate,     \* "head", "body", "done" or "error"
  got         \* bytes the reader's payload has

writer == <<m, head, enc, wstate, sent, dropped>>
reader == <<reads, buf, dec, unzip, rstate, got>>
vars == <<writer, wire, reader>>

-----------------------------------------------------------------------------
(* Messages.  chunked is resp.chunked() or req.chunked(), clen a           *)
(* Content-Length the application set (-1 none), comp the compression      *)
(* chosen, "no" for identity.                                              *)
Messages ==
  {x \in [dir : {"response", "request"}, body : {"Empty", "Binary", "Streaming"},
          head : BOOLEAN, http11 : BOOLEAN, upgrade : BOOLEAN,
          chunked : {"unset", "on", "off"}, clen : {-1} \cup Sizes, comp : {"no", "gzip", "deflate"}] :
     /\ x.dir = "request" => ~x.head /\ x.chunked # "off"
     /\ x.upgrade => x.body = "Streaming" /\ ~x.head
     /\ x.body # "Streaming" => x.chunked = "unset"
     /\ x.body = "Empty" => x.comp = "no"}

Encoder(kind, left, comp) == [kind |-> kind, left |-> left, eof |-> FALSE, comp |-> comp, held |-> <<>>]
MessageHead(cl, te, ce, up) == [cl |-> cl, te |-> te, ce |-> ce, switching |-> up]

(* streaming_encoding, of the server and of the client.                    *)
StreamingEncoding(x) ==
  CASE x.chunked = "on" -> <<MessageHead(-1, TRUE, x.comp, FALSE), Encoder("Chunked", 0, x.comp)>>
    [] x.chunked = "off" -> <<MessageHead(x.clen, FALSE, x.comp, FALSE), Encoder("Eof", 0, x.comp)>>
    [] x.chunked = "unset" /\ x.clen >= 0 ->
         <<MessageHead(x.clen, FALSE, x.comp, FALSE), Encoder("Length", x.clen, x.comp)>>
    [] x.chunked = "unset" /\ x.clen < 0 /\ x.http11 ->
         <<MessageHead(-1, TRUE, x.comp, FALSE), Encoder("Chunked", 0, x.comp)>>
    [] OTHER -> <<MessageHead(-1, FALSE, x.comp, FALSE), Encoder("Eof", 0, x.comp)>>

Compress(data) == <<"gz">> \o data \o <<"end">>
BinaryBytes(x, data) == IF x.comp = "no" THEN data ELSE Compress(data)

(* ContentEncoder::for_server with the headers H1Writer::start writes, and *)
(* content_encoder of the client.  data is a binary body.                  *)
ContentEncoder(x, data) ==
  CASE x.body = "Empty" -> <<MessageHead(-1, FALSE, "no", FALSE), Encoder("Length", 0, "no")>>
    [] x.body = "Binary" ->
         <<MessageHead(Len(BinaryBytes(x, data)), FALSE, x.comp, FALSE), Encoder("Eof", 0, "no")>>
    [] x.body = "Streaming" /\ x.upgrade ->
         <<MessageHead(x.clen, FALSE, "no", TRUE), Encoder("Eof", 0, "no")>>
    [] OTHER -> StreamingEncoding(x)

ForServer(x, data) ==
  LET r == IF x.body # "Empty" THEN ContentEncoder(x, data)
           ELSE <<MessageHead(IF x.head THEN x.clen ELSE 0, FALSE, "no", FALSE), Encoder("Length", 0, "no")>>
  IN  IF x.head THEN <<r[1], [r[2] EXCEPT !.kind = "Length", !.left = 0]>> ELSE r

-----------------------------------------------------------------------------
(* TransferEncoding                                                        *)

Digit == <<"0", "1", "2", "3", "4", "5", "6", "7", "8", "9", "A", "B", "C", "D", "E", "F">>
RECURSIVE Numeral(_)
Numeral(n) == (IF n < Radix THEN <<>> ELSE Numeral(n \div Radix)) \o <<Digit[(n % Radix) + 1]>>

(* encode: the encoder after msg, and the bytes it adds to the buffer.     *)
Encode(e, msg) ==
  LET n == IF Len(msg) < e.left THEN Len(msg) ELSE e.left IN
  CASE e.kind = "Eof" -> <<e, msg>>
    [] e.kind = "Length" -> <<[e EXCEPT !.left = @ - n], SubSeq(msg, 1, n)>>
    [] e.kind = "Chunked" /\ e.eof -> <<e, <<>>>>
    [] e.kind = "Chunked" /\ ~e.eof /\ msg = <<>> ->
         <<[e EXCEPT !.eof = TRUE], <<"0", "r", "n", "r", "n">>>>
    [] OTHER -> <<e, Numeral(Len(msg)) \o <<"r", "n">> \o msg \o <<"r", "n">>>>

EncodeEof(e) ==
  IF e.kind = "Chunked" /\ ~e.eof
  THEN <<[e EXCEPT !.eof = TRUE], <<"0", "r", "n", "r", "n">>>> ELSE <<e, <<>>>>

IsEof(e) == e.kind = "Eof" \/ (e.kind = "Chunked" /\ e.eof) \/ (e.kind = "Length" /\ e.left = 0)

(* ContentEncoder::write and write_eof: a compressor gives out what it     *)
(* holds when it is finished.                                              *)
EncoderWrite(e, msg) ==
  IF e.comp = "no" THEN Encode(e, msg) ELSE <<[e EXCEPT !.held = @ \o msg], <<>>>>

EncoderEof(e) ==
  LET f == IF e.comp = "no" THEN <<e, <<>>>>
           ELSE Encode([e EXCEPT !.comp = "no", !.held = <<>>], Compress(e.held))
      g == EncodeEof(f[1])
  IN  <<g[1], f[2] \o g[2]>>

-----------------------------------------------------------------------------
(* Decoder                                                                 *)

Decoder(kind, size) == [kind |-> kind, state |-> "Size", size |-> size]

(* The decoder the reader picks from the headers; the client looks for a   *)
(* length first, the server for chunked, and the server takes an upgrade   *)
(* as one without end.                                                     *)
PickDecoder(x, h) ==
  CASE x.dir = "response" /\ h.switching -> Decoder("Eof", 0)
    [] x.dir = "response" /\ ~h.switching /\ h.cl >= 0 -> Decoder("Length", h.cl)
    [] x.dir = "response" /\ ~h.switching /\ h.cl < 0 /\ h.te -> Decoder("Chunked", 0)
    [] x.dir = "request" /\ h.te -> Decoder("Chunked", 0)
    [] x.dir = "request" /\ ~h.te /\ h.cl >= 0 -> Decoder("Length", h.cl)
    [] x.dir = "request" /\ ~h.te /\ h.cl < 0 /\ h.switching -> Decoder("Eof", 0)
    [] OTHER -> Decoder("None", 0)

Value(b) == CHOOSE i \in 0..15 : Digit[i + 1] = b
Step(state, size, rest, out) == [state |-> state, size |-> size, rest |-> rest, out |-> out]

ReadBody(size, bytes) ==
  LET n == IF Len(bytes) < size THEN Len(bytes) ELSE size IN
  Step(IF n < size THEN "Body" ELSE "BodyCr", size - n,
       SubSeq(bytes, n + 1, Len(bytes)), SubSeq(bytes, 1, n))

(* ChunkedState::step on a buffer that is not empty.                       *)
ChunkedStep(state, size, bytes) ==
  LET b == bytes[1]
      rest == SubSeq(bytes, 2, Len(bytes))
      To(s) == Step(s, size, rest, <<>>)
      Expect(c, s) == To(IF b = c THEN s ELSE "Invalid")
  IN CASE state = "Size" ->
            CASE b \in Range(Digit) -> Step("Size", (size * Radix + Value(b)) % (2^Width), rest, <<>>)
              [] b = "sp" -> To("SizeLws")
              [] b = ";" -> To("Extension")
              [] b = "r" -> To("SizeLf")
              [] OTHER -> To("Invalid")
       [] state = "SizeLws" ->
            To(CASE b = "sp" -> "SizeLws" [] b = ";" -> "Extension" [] b = "r" -> "SizeLf" [] OTHER -> "Invalid")
       [] state = "Extension" -> To(IF b = "r" THEN "SizeLf" ELSE "Extension")
       [] state = "SizeLf" -> Expect("n", IF size > 0 THEN "Body" ELSE "EndCr")
       [] state = "Body" -> ReadBody(size, bytes)
       [] state = "BodyCr" -> Expect("r", "BodyLf")
       [] state = "BodyLf" -> Expect("n", "Size")
       [] state = "EndCr" -> Expect("r", "EndLf")
       [] state = "EndLf" -> Expect("n", "End")

-----------------------------------------------------------------------------
Bytes(from, n) == [i \in 1..n |-> (<<"d1", "d2", "d3", "d4", "d5", "d6">>)[from + i]]

(* H1Writer::start or HttpClientWriter::start: the head, and a binary body *)
(* with it.  A HEAD response has no body.                                  *)
Init ==
  /\ m \in Messages
  /\ \E n \in (IF m.body = "Binary" THEN Sizes ELSE {0}) :
       LET data == Bytes(0, n)
           r == IF m.dir = "response" THEN ForServer(m, data) ELSE ContentEncoder(m, data)
           body == IF m.body = "Binary" /\ ~m.head THEN BinaryBytes(m, data) ELSE <<>>
       IN  /\ head = r[1] /\ enc = r[2] /\ sent = data
           /\ wire = IF m.body = "Binary" THEN Encode(r[2], body)[2] ELSE <<>>
  /\ wstate = "writing" /\ dropped = FALSE /\ reads = 0 /\ buf = <<>> /\ dec = Decoder("None", 0)
  /\ unzip = "off" /\ rstate = "head" /\ got = <<>>

(* Writer::write of a piece of a streaming body; after an upgrade the      *)
(* encoder is passed by.                                                   *)
Write ==
  /\ wstate = "writing" /\ m.body = "Streaming" /\ ~m.head
  /\ \E n \in Sizes :
       /\ Len(sent) + n <= MaxWrites
       /\ LET data == Bytes(Len(sent), n)
              r == IF m.upgrade THEN <<enc, data>> ELSE EncoderWrite(enc, data)
          IN  /\ enc' = r[1] /\ wire' = wire \o r[2] /\ sent' = sent \o data
              /\ dropped' = (dropped \/ (data # <<>> /\ enc.kind = "Chunked" /\ enc.eof))
  /\ UNCHANGED <<m, head, wstate, reader>>

(* Writer::write_eof, and what the connection carries next.                *)
WriteEof ==
  /\ wstate = "writing"
  /\ LET r == EncoderEof(enc) IN
     /\ enc' = r[1] /\ wstate' = IF IsEof(r[1]) THEN "done" ELSE "error"
     /\ wire' = wire \o r[2] \o <<"next">>
  /\ UNCHANGED <<m, head, sent, dropped, reader>>

Read ==
  /\ wire # <<>> /\ reads < MaxReads /\ reads' = reads + 1 /\ wstate # "writing"
  /\ \E n \in {Len(wire)} \cup (IF reads' = MaxReads THEN {} ELSE {c \in Cuts : c < Len(wire)}) :
       buf' = buf \o SubSeq(wire, 1, n) /\ wire' = SubSeq(wire, n + 1, Len(wire))
  /\ UNCHANGED <<writer, dec, unzip, rstate, got>>

(* PayloadType::new                                                        *)
PayloadType == IF head.ce = "no" THEN "off" ELSE "new"

(* parse_message, once the head is there.                                  *)
ParseMessage ==
  /\ rstate = "head" /\ wstate # "writing" /\ dec' = PickDecoder(m, head)
  /\ unzip' = PayloadType
  /\ rstate' = IF dec'.kind = "None" THEN "done" ELSE "body"
  /\ UNCHANGED <<writer, wire, reads, buf, got>>

(* PayloadStream::feed_data: deflate answers with what it has; gzip fails  *)
(* when a piece gives no output before the end of the stream.              *)
StreamData(data) ==
  LET plain == SelectSeq(data, LAMBDA b : b \notin {"gz", "end"})
      ended == unzip = "ended" \/ "end" \in Range(data)
  IN  IF plain = <<>> /\ head.ce = "gzip" /\ ~ended THEN <<"error", <<>>>>
      ELSE <<IF ended THEN "ended" ELSE "open", plain>>

(* PayloadStream::feed_eof: gzip fails if the stream is cut short, deflate *)
(* may or may not.                                                         *)
StreamEof(u) == CASE u # "open" -> {u}
                  [] u = "open" /\ head.ce = "gzip" -> {"error"}
                  [] OTHER -> {"open", "error"}

(* feed_data and, at the end, feed_eof of PayloadType and EncodedPayload.  *)
Feed(data, ends) ==
  LET f == CASE data = <<>> \/ unzip = "error" -> <<unzip, <<>>>>
             [] data # <<>> /\ unzip = "off" -> <<unzip, data>>
             [] OTHER -> StreamData(data)
  IN  got' = got \o f[2] /\ unzip' \in IF ends THEN StreamEof(f[1]) ELSE {f[1]}

(* One round of the loop of Decoder::decode.                               *)
Decode ==
  /\ rstate = "body"
  /\ CASE dec.kind = "Length" ->
            LET n == IF Len(buf) < dec.size THEN Len(buf) ELSE dec.size IN
            /\ dec.size > 0 => buf # <<>>
            /\ buf' = SubSeq(buf, n + 1, Len(buf)) /\ dec' = [dec EXCEPT !.size = @ - n]
            /\ Feed(SubSeq(buf, 1, n), dec'.size = 0)
            /\ rstate' = IF dec'.size = 0 THEN "done" ELSE "body"
       [] dec.kind = "Eof" ->
            /\ buf # <<>> /\ buf' = <<>> /\ Feed(buf, FALSE) /\ UNCHANGED <<dec, rstate>>
       [] dec.kind = "Chunked" ->
            /\ buf # <<>>
            /\ LET s == ChunkedStep(dec.state, dec.size, buf) IN
               /\ buf' = s.rest /\ dec' = [dec EXCEPT !.state = s.state, !.size = s.size]
               /\ Feed(s.out, s.state = "End")
               /\ rstate' = CASE s.state = "End" -> "done" [] s.state = "Invalid" -> "error" [] OTHER -> "body"
  /\ UNCHANGED <<writer, wire, reads>>

Next == Write \/ WriteEof \/ Read \/ ParseMessage \/ Decode

Spec == Init /\ [][Next]_vars

-----------------------------------------------------------------------------
(* The values of the variables.                                            *)
TypeOK ==
  /\ m.dir \in {"response", "request"} /\ wstate \in {"writing", "done", "error"}
  /\ rstate \in {"head", "body", "done", "error"} /\ unzip \in {"off", "new", "open", "ended", "error"}
  /\ dec.size \in 0..(2^Width - 1) /\ enc.left \in Nat

(* Pieces of the wire after the head that chunked framing may consist of.  *)
Body == SelectSeq(wire, LAMBDA b : b # "next")

(* When write_eof succeeds, exactly the bytes the headers announce follow  *)
(* them: none after the answer to HEAD, the length, or chunks to the last. *)
(* The application may ask for a body without framing (chunked off).       *)
Announced ==
  (wstate = "done" /\ reads = 0 /\ m.chunked # "off" /\ ~m.upgrade) =>
     CASE m.head -> Body = <<>>
       [] ~m.head /\ head.cl >= 0 -> Len(Body) = head.cl
       [] ~m.head /\ head.te -> IsSuffix(<<"0", "r", "n", "r", "n">>, Body)
       [] OTHER -> TRUE

Delimited == ~m.head /\ ~m.upgrade /\ m.chunked # "off" /\ (head.cl >= 0 \/ head.te)

(* What the encoders do not carry over: a length set by the application    *)
(* for a body that is compressed or longer.                                *)
Misdeclared == m.body = "Streaming" /\ enc.kind = "Length" /\ (m.comp # "no" \/ m.clen < Len(sent))

(* However a body is written and however it arrives, the reader's decoder  *)
(* does not fail, waits only for bytes that were sent, and ends at the     *)
(* next message; its payload has the bytes, in order, and at the end all   *)
(* of them, unless the decompressor has failed.  It fails for gzip only,   *)
(* and only when the body came in several reads: on a piece that gives no  *)
(* output (PayloadStream::feed_data returns the WouldBlock of GzDecoder).  *)
Sound == wstate = "done" /\ Delimited /\ ~Misdeclared /\ ~dropped
RoundTrip ==
  Sound => /\ rstate # "error"
           /\ rstate = "body" => buf \o wire # <<>>
           /\ rstate = "done" => buf \o wire = <<"next">> /\ (got = sent \/ unzip = "error")
           /\ IsPrefix(got, sent)
           /\ unzip = "error" => head.ce = "gzip" /\ (reads > 1 \/ wire # <<>>)
=============================================================================
