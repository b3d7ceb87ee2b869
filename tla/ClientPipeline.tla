---------------------------- MODULE ClientPipeline ----------------------------
(***************************************************************************)
(* One request of the HTTP client: the future SendRequest, the Pipeline    *)
(* that writes the request and reads the response (client/pipeline.rs),    *)
(* its writer (client/writer.rs) and its parser (client/parser.rs).        *)
(*                                                                         *)
(* A poll runs from pc = "idle" back to "idle" and happens only when the   *)
(* task was woken: sources in waits wake it.  The request is counted in    *)
(* units; the response is a head, and then chunks and an end, total units  *)
(* in all, of which arrived have come to the socket, read have been read   *)
(* into parser_buf and parsed have been handed on.  The peer sends what    *)
(* its head announces.  A stream is not polled again after its error.      *)
(***************************************************************************)
EXTENDS Integers, Sequences, FiniteSets

CONSTANTS
  Bodies,      \* request bodies: subset of {"binary", "stream", "actor"}
  Capacity,    \* write_buffer_capacity of a streaming request, in units
  Decompress,  \* BOOLEAN or {FALSE}: may the response be compressed
  Framings,    \* of responses: subset of {"sized", "close", "switch"}
  Responses,   \* bound: numbers of units of a response, head and end included
  MaxUnits,    \* bound: units of the request
  MayFail      \* whether connections, streams and the peer may fail

ASSUME ClientPipelineAssumption ==
  /\ Bodies \subseteq {"binary", "stream", "actor"} /\ Decompress \subseteq BOOLEAN
  /\ Framings \subseteq {"sized", "close", "switch"}
  /\ Capacity \in Nat /\ MaxUnits \in Nat /\ Responses \subseteq Nat \ {0} /\ MayFail \in BOOLEAN

VARIABLES
  state,       \* SendRequest.state; then "body" (the response is out), "error" (its
               \* stream has failed), "done", "failed"
  conn,        \* Pipeline.conn: "none", "held", "released" or "closed"
  body,        \* Pipeline.body: "stream", "actor" or "done"
  buf, cap,    \* the writer's buffer and its capacity, in units
  given, sent, \* units the request has produced, and units the socket took
  ended,       \* whether the end of the request was written (write_eof)
  ws,          \* write_state
  disconnected, drain,
  done,        \* local variable of poll_write
  needRun,     \* local variable of Pipeline::poll
  parser, decoder, decompress,  \* whether they are there
  framing,     \* "none" before the head is parsed; then "sized" (by a length or chunks),
               \* "close" (ends with the connection) or "switch" (status 101)
  total, arrived, read, parsed, \* the response
  peer,        \* "open" or "closed"
  expired,     \* whether the timer of the request has woken the task
  pc, woken, waits,
  gap          \* history: "chunk": a chunk decompressed to nothing; "tail": the tail
               \* came out early; "stop": an actor stopped without an end

reader == <<parser, decoder, decompress, framing, total, arrived, read, parsed, peer>>
writer == <<body, buf, cap, given, sent, ended, ws, disconnected, drain>>
vars == <<state, conn, writer, done, needRun, reader, expired, pc, woken, waits, gap>>

Init ==
  /\ state \in {"New", "Connection"} /\ conn = "none" /\ body \in Bodies /\ buf = 0 /\ cap = 0
  /\ given = 0 /\ sent = 0 /\ ended = FALSE /\ ws = "Running" /\ disconnected = FALSE /\ drain = FALSE
  /\ done = FALSE /\ needRun = FALSE /\ parser = TRUE /\ decoder = FALSE /\ decompress = FALSE
  /\ framing = "none" /\ total \in Responses /\ arrived = 0 /\ read = 0 /\ parsed = 0
  /\ peer = "open" /\ expired = FALSE
  /\ pc = "idle" /\ woken = TRUE /\ waits = {} /\ gap = {}

Over == {"done", "failed"}

(* Pipeline::drop closes the connection.  Nobody waits any more.           *)
Drop == /\ state' = "failed" /\ waits' = {}
        /\ conn' = IF conn = "held" THEN "closed" ELSE conn

(* SendRequest fails and drops its Pipeline; that of a response stays with *)
(* the response.                                                           *)
Fail == /\ pc' = "idle"
        /\ IF state = "body" THEN state' = "error" /\ waits' = {} /\ UNCHANGED conn ELSE Drop

Wake(source) == /\ woken' = (woken \/ source \in waits)
                /\ waits' = waits \ {source}

-----------------------------------------------------------------------------
(* The environment                                                         *)

Environment(source) ==
  /\ state \notin Over \cup {"error"} /\ pc = "idle" /\ Wake(source)
  /\ UNCHANGED <<state, conn, writer, done, needRun, parser, decoder, decompress, framing,
                 total, read, parsed, pc, gap>>

PeerSends ==
  /\ Environment("read") /\ conn = "held" /\ peer = "open" /\ arrived < total
  /\ arrived' = arrived + 1 /\ UNCHANGED <<peer, expired>>

PeerCloses ==
  /\ Environment("read") /\ conn = "held" /\ MayFail /\ peer = "open"
  /\ peer' = "closed" /\ UNCHANGED <<arrived, expired>>

SocketWritable == Environment("write") /\ "write" \in waits /\ UNCHANGED <<arrived, peer, expired>>
BodyReady == Environment("body") /\ "body" \in waits /\ UNCHANGED <<arrived, peer, expired>>

(* A timer that was polled wakes the task when it expires.                 *)
TimerExpires ==
  /\ Environment("timer") /\ "timer" \in waits /\ expired' = TRUE /\ UNCHANGED <<arrived, peer>>

(* The caller drops the future or the response.                            *)
Dropped ==
  /\ state \notin Over /\ pc = "idle" /\ MayFail /\ Drop /\ woken' = FALSE
  /\ UNCHANGED <<pc, writer, done, needRun, reader, expired, gap>>

-----------------------------------------------------------------------------
(* SendRequest::poll                                                       *)

PollNew ==
  /\ state = "New" /\ pc = "idle" /\ state' = "Connect"
  /\ UNCHANGED <<conn, writer, done, needRun, reader, expired, pc, woken, waits, gap>>

(* The connector answers, or the caller gave a connection;                 *)
(* HttpClientWriter::start renders the head (and a body in memory) into    *)
(* the buffer.                                                             *)
PollConnect ==
  /\ state \in {"Connect", "Connection"} /\ pc = "idle"
  /\ \/ /\ conn' = "held" /\ state' = "Send" /\ pc' = "fill"
        /\ given' = 1 + (IF body = "binary" THEN 1 ELSE 0)
        /\ buf' = given' /\ cap' = IF body = "binary" THEN 0 ELSE Capacity
        /\ body' = (IF body = "binary" THEN "done" ELSE body) /\ ended' = (body = "binary")
        /\ woken' = FALSE
     \/ /\ MayFail /\ state' = "failed" /\ conn' \in {"none", "closed"}
        /\ UNCHANGED <<body, buf, cap, given, ended, pc, woken>>
  /\ UNCHANGED <<sent, ws, disconnected, drain, done, needRun, reader, expired, waits, gap>>

(* Pipeline::poll without a connection.                                    *)
PollReleased ==
  /\ state = "body" /\ pc = "idle" /\ woken /\ conn # "held"
  /\ state' = "done"
  /\ UNCHANGED <<conn, writer, done, needRun, reader, expired, pc, woken, waits, gap>>

Poll ==
  /\ state \in {"Send", "body"} /\ pc = "idle" /\ woken /\ conn = "held"
  /\ woken' = FALSE /\ pc' = "fill"
  /\ UNCHANGED <<state, conn, writer, done, needRun, reader, expired, waits, gap>>

-----------------------------------------------------------------------------
(* poll_write                                                              *)

InFill == /\ pc = "fill" /\ ws # "Done" /\ UNCHANGED <<needRun, reader, expired, woken>>
Filling == InFill /\ ~drain /\ ws # "Paused" /\ UNCHANGED gap
ToFlush(d) == done' = d /\ pc' = "flush"

(* The write side is finished, or must flush first.                        *)
WriteDone ==
  /\ pc = "fill" /\ ws = "Done" /\ done' = TRUE /\ pc' = "written"
  /\ UNCHANGED <<state, conn, writer, needRun, reader, expired, woken, waits, gap>>

MustFlush ==
  /\ InFill /\ (drain \/ ws = "Paused") /\ ToFlush(FALSE)
  /\ UNCHANGED <<state, conn, writer, waits, gap>>

BodyChunk ==
  /\ Filling /\ body # "done" /\ given < MaxUnits
  /\ buf' = buf + 1 /\ given' = given + 1
  /\ IF buf' > cap THEN ws' = "Paused" /\ ToFlush(FALSE)
                   ELSE ws' = "Running" /\ UNCHANGED <<done, pc>>
  /\ UNCHANGED <<state, conn, body, cap, sent, ended, disconnected, drain, waits>>

(* write_eof after the last chunk.                                         *)
BodyEnds ==
  /\ Filling /\ body # "done" /\ body' = "done" /\ ended' = TRUE /\ disconnected' = TRUE
  /\ ToFlush(FALSE)
  /\ UNCHANGED <<state, conn, buf, cap, given, sent, ws, drain, waits>>

BodyNotReady ==
  /\ Filling /\ body # "done" /\ waits' = waits \cup {"body"} /\ ToFlush(TRUE)
  /\ UNCHANGED <<state, conn, writer>>

(* An actor may ask to be told when all is written, or stop: then nothing  *)
(* calls write_eof, and the next round takes the request for written.      *)
ActorDrains ==
  /\ Filling /\ body = "actor" /\ drain' = TRUE /\ ws' = "Running" /\ ToFlush(FALSE)
  /\ UNCHANGED <<state, conn, body, buf, cap, given, sent, ended, disconnected, waits>>

ActorStops ==
  /\ InFill /\ ~drain /\ ws # "Paused" /\ body = "actor" /\ MayFail
  /\ body' = "done" /\ ToFlush(TRUE) /\ gap' = gap \cup {"stop"}
  /\ UNCHANGED <<state, conn, buf, cap, given, sent, ended, ws, disconnected, drain, waits>>

BodyFails ==
  /\ Filling /\ body # "done" /\ MayFail /\ Fail
  /\ UNCHANGED <<writer, done>>

NoBody ==
  /\ Filling /\ body = "done" /\ disconnected' = TRUE /\ ToFlush(TRUE)
  /\ UNCHANGED <<state, conn, body, buf, cap, given, sent, ended, ws, drain, waits>>

(* poll_completed: the socket takes n units; what is left counts as        *)
(* written when it is within the capacity.  A socket that takes nothing    *)
(* for good (a write of 0 bytes) has the buffer thrown away.               *)
FlushAnything(left) == TRUE
Flushed(left) == left <= cap

FlushKeeps ==
  /\ pc = "flush"
  /\ \E n \in 0..buf, refused \in {FALSE, MayFail} :
       /\ buf' = buf /\ sent' = sent + n
       /\ waits' = IF buf' > 0 THEN waits \cup {"write"} ELSE waits
       /\ IF Flushed(buf')
          THEN /\ ws' = IF disconnected THEN "Done" ELSE "Running"
               /\ drain' = FALSE
               /\ pc' = IF ~done \/ ws' = "Done" THEN "fill" ELSE "written"
          ELSE pc' = "written" /\ UNCHANGED <<ws, drain>>
  /\ done' = FALSE
  /\ UNCHANGED <<state, conn, body, cap, given, ended, disconnected, needRun, reader, expired, woken,
                 gap>>
Flush ==
  /\ pc = "flush"
  /\ \E n \in 0..buf, refused \in {FALSE, MayFail} :
       /\ buf' = (IF refused THEN 0 ELSE buf - n) /\ sent' = sent + n
       /\ waits' = IF buf' > 0 THEN waits \cup {"write"} ELSE waits
       /\ IF Flushed(buf')
          THEN /\ ws' = IF disconnected THEN "Done" ELSE "Running"
               /\ drain' = FALSE
               /\ pc' = IF ~done \/ ws' = "Done" THEN "fill" ELSE "written"
          ELSE pc' = "written" /\ UNCHANGED <<ws, drain>>
  /\ done' = FALSE
  /\ UNCHANGED <<state, conn, body, cap, given, ended, disconnected, needRun, reader, expired, woken,
                 gap>>

FlushFails ==
  /\ pc = "flush" /\ MayFail /\ Fail
  /\ UNCHANGED <<writer, done, needRun, reader, expired, woken, gap>>

-----------------------------------------------------------------------------
(* Reading the response                                                    *)

(* The answer of poll_write counts only once the response is out; then the *)
(* timeout is looked at when all is written, and may have expired.         *)
Written ==
  /\ pc = "written" /\ ~(state = "body" /\ done /\ expired)
  /\ needRun' = (state = "body" /\ ~done) /\ done' = FALSE
  /\ pc' = IF state = "Send" THEN "parse" ELSE "payload"
  /\ waits' = IF state = "body" /\ done THEN waits \cup {"timer"} ELSE waits
  /\ UNCHANGED <<state, conn, writer, reader, expired, woken, gap>>

TimesOut ==
  /\ pc = "written" /\ state = "body" /\ done /\ Fail
  /\ UNCHANGED <<writer, done, needRun, reader, expired, woken, gap>>

Idle == pc' = "idle" /\ UNCHANGED <<state, conn>>

(* Pipeline::parse looks at the encoding of the body,                      *)
(* HttpResponseParser::parse for the head, reading it if need be.  A body  *)
(* that ends with the connection gets no decoder.                          *)
CheckEncoding == decompress' \in Decompress
Parse ==
  /\ pc = "parse"
  /\ IF arrived > 0
     THEN /\ state' = "body" /\ pc' = "idle" /\ woken' = TRUE /\ UNCHANGED <<conn, waits>>
          /\ read' = arrived /\ parsed' = 1
          /\ framing' \in Framings /\ decoder' = (framing' # "close")
          /\ CheckEncoding
     ELSE /\ UNCHANGED <<read, parsed, framing, decoder, decompress, woken>>
          /\ IF peer = "closed" THEN Fail
             ELSE Idle /\ waits' = waits \cup {"read"}
  /\ UNCHANGED <<writer, done, needRun, parser, total, arrived, peer, expired, gap>>

(* parse_payload: a chunk, which decompression may keep to itself.  The    *)
(* last unit is the end, but for the decoder of status 101, which has none.*)
PayloadChunk ==
  /\ pc = "payload" /\ parser /\ decoder /\ arrived > parsed
  /\ parsed < total - 1 \/ framing = "switch"
  /\ read' = arrived /\ parsed' = parsed + 1 /\ Idle
  /\ waits' = IF arrived = read THEN waits \cup {"read"} ELSE waits
  /\ \/ woken' = TRUE /\ UNCHANGED gap
     \/ decompress /\ UNCHANGED woken /\ gap' = gap \cup {"chunk"}
  /\ UNCHANGED <<writer, done, needRun, parser, decoder, decompress, framing, total, arrived, peer,
                 expired>>

PayloadEnds ==
  /\ pc = "payload" /\ parser
  /\ \/ /\ decoder /\ framing # "switch" /\ parsed' = total
        /\ parsed = total \/ (arrived > parsed /\ parsed = total - 1)
     \/ ~decoder /\ UNCHANGED parsed
  /\ read' = arrived /\ decoder' = FALSE /\ parser' = FALSE /\ pc' = "eof"
  /\ UNCHANGED <<state, conn, writer, done, needRun, decompress, framing, total, arrived, peer,
                 expired, woken, waits, gap>>

PayloadNotReadyQuiet ==
  /\ pc = "payload" /\ parser /\ decoder /\ arrived = parsed
  /\ parsed < total \/ framing = "switch"
  /\ IF peer = "closed" THEN Fail ELSE Idle /\ UNCHANGED waits
  /\ UNCHANGED <<writer, done, needRun, reader, expired, woken, gap>>
PayloadNotReady ==
  /\ pc = "payload" /\ parser /\ decoder /\ arrived = parsed
  /\ parsed < total \/ framing = "switch"
  /\ IF peer = "closed" THEN Fail
     ELSE Idle /\ waits' = waits \cup {"read"}
  /\ UNCHANGED <<writer, done, needRun, reader, expired, woken, gap>>

PayloadWasOver ==
  /\ pc = "payload" /\ ~parser /\ pc' = "eof"
  /\ UNCHANGED <<state, conn, writer, done, needRun, reader, expired, woken, waits, gap>>

(* The socket fails, or the head, the body or its compression is broken.   *)
ReadFails ==
  /\ pc \in {"parse", "payload"} \/ (pc = "eof" /\ decompress)
  /\ MayFail /\ Fail
  /\ UNCHANGED <<writer, done, needRun, reader, expired, woken, gap>>

(* The end: the decompressor's tail, then the connection goes back.        *)
Eof ==
  /\ pc = "eof" /\ pc' = "idle" /\ decompress' = FALSE
  /\ \/ /\ decompress /\ conn' = "released" /\ woken' = TRUE /\ UNCHANGED state
        /\ gap' = IF needRun THEN gap \cup {"tail"} ELSE gap
     \/ /\ UNCHANGED <<woken, gap>>
        /\ IF needRun THEN UNCHANGED <<state, conn>>
                      ELSE conn' = "released" /\ state' = "done"
  /\ UNCHANGED <<writer, done, needRun, parser, decoder, framing, total, arrived, read, parsed, peer,
                 expired, waits>>

-----------------------------------------------------------------------------
PollWrite == \/ WriteDone \/ MustFlush \/ BodyChunk \/ BodyEnds \/ BodyNotReady \/ ActorDrains
             \/ ActorStops \/ BodyFails \/ NoBody \/ Flush \/ FlushFails

PollRead == \/ Written \/ TimesOut \/ Parse \/ PayloadChunk \/ PayloadEnds \/ PayloadNotReady
            \/ PayloadWasOver \/ ReadFails \/ Eof

Step == PollNew \/ PollConnect \/ PollReleased \/ Poll \/ PollWrite \/ PollRead

Next == \/ Step \/ PeerSends \/ PeerCloses \/ SocketWritable \/ BodyReady \/ TimerExpires
        \/ Dropped

Spec == Init /\ [][Next]_vars

(* The executor polls a woken task; the peer answers, the socket takes     *)
(* what it is offered, and the body goes on and ends.                      *)
FairSpec == /\ Spec /\ WF_vars(Step)
            /\ WF_vars(PeerSends) /\ WF_vars(SocketWritable) /\ WF_vars(BodyReady)
            /\ SF_vars(BodyEnds) /\ SF_vars(Flush /\ buf' = 0)

-----------------------------------------------------------------------------
(* The values of the variables.                                            *)
TypeOK ==
  /\ state \in {"New", "Connect", "Connection", "Send", "body", "error", "done", "failed"}
  /\ conn \in {"none", "held", "released", "closed"}
  /\ body \in {"binary", "stream", "actor", "done"} /\ ws \in {"Running", "Paused", "Done"}
  /\ buf + sent <= given /\ given \in 0..MaxUnits + 2 /\ cap \in {0, Capacity}
  /\ {disconnected, drain, ended, expired, done, needRun, parser, decoder, decompress, woken}
       \subseteq BOOLEAN
  /\ parsed <= read /\ read <= arrived /\ arrived <= total
  /\ framing \in Framings \cup {"none"} /\ peer \in {"open", "closed"}
  /\ pc \in {"idle", "fill", "flush", "written", "parse", "payload", "eof"}
  /\ waits \subseteq {"read", "write", "body", "timer"} /\ gap \subseteq {"chunk", "tail", "stop"}

(* A connection goes back to the pool with the response read to its end,   *)
(* unless the body was to end with the connection, which is then left in   *)
(* the socket; with the request written to its end, unless its actor       *)
(* stopped without one or the decompressor's tail came out first; and with *)
(* no more in the buffer than its capacity, but for that tail (poll and    *)
(* release_conn of Pipeline).                                              *)
ReleasedClean ==
  conn = "released" =>
    /\ parsed = total \/ framing = "close"
    /\ ended \/ {"stop", "tail"} \cap gap # {}
    /\ buf <= cap \/ "tail" \in gap

(* Pipeline::poll returned NotReady with nothing to wake it: after a chunk *)
(* that decompressed to nothing, or an actor that stopped without an end.  *)
LeftAsleep == {"chunk", "stop"} \cap gap # {}

(* The exchange ends: once the response is out it is read to its end, or   *)
(* fails, and the request is written to its end, or the exchange is over.  *)
(* What follows status 101 has no end of its own.                          *)
ExchangeEnds ==
  /\ state = "body" ~> (state # "body" \/ LeftAsleep \/ framing = "switch")
  /\ conn = "held" ~> (conn # "held" \/ ws = "Done" \/ state = "error" \/ LeftAsleep)
=============================================================================
