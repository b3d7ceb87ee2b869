------------------------- MODULE ClientPipelineProofs -------------------------
(***************************************************************************)
(* Proofs about ClientPipeline: what becomes of the connection of a        *)
(* request, for requests, responses and buffers of any size.               *)
(***************************************************************************)
EXTENDS ClientPipeline, TLAPS

Types ==
  /\ state \in {"New", "Connect", "Connection", "Send", "body", "error", "done", "failed"}
  /\ conn \in {"none", "held", "released", "closed"}
  /\ pc \in {"idle", "fill", "flush", "written", "parse", "payload", "eof"}
  /\ buf \in Nat /\ cap \in Nat /\ total \in Nat \ {0}
  /\ done \in BOOLEAN /\ needRun \in BOOLEAN /\ disconnected \in BOOLEAN
  /\ parser \in BOOLEAN /\ decoder \in BOOLEAN /\ decompress \in BOOLEAN

(* Who holds the connection: a poll runs only on a connection it holds,    *)
(* and none is held before there is one or once the request is over.       *)
Holding ==
  /\ pc # "idle" => conn = "held" /\ state \in {"Send", "body"}
  /\ state \in Over => conn # "held"
  /\ state \in {"New", "Connect", "Connection"} =>
       conn = "none" /\ ws = "Running" /\ ~disconnected /\ body # "done"

(* The writer is Done only when the body is over and was flushed, and      *)
(* poll_write says so only then; a body that is over was ended, or its     *)
(* actor stopped.                                                          *)
Writing ==
  /\ body = "done" => ended \/ "stop" \in gap
  /\ disconnected => body = "done"
  /\ ws = "Done" => disconnected /\ buf <= cap
  /\ pc = "flush" => ws # "Done"
  /\ pc = "written" /\ done => ws = "Done"
  /\ pc \in {"payload", "eof"} /\ ~needRun => ws = "Done"

(* A response without a decoder is read to its end, or ends with the       *)
(* connection.                                                             *)
Reading ==
  /\ pc = "parse" => state = "Send"
  /\ pc \in {"payload", "eof"} => state = "body"
  /\ state = "body" /\ ~decoder => parsed = total \/ framing = "close"
  /\ ~parser => ~decoder /\ state \notin {"New", "Connect", "Connection", "Send"}
  /\ pc = "eof" => parsed = total \/ framing = "close"

ConnInv == Types /\ Holding /\ Writing /\ Reading /\ ReleasedClean

LEMMA ConnInit == ASSUME Init PROVE ConnInv
<1>1. Types
  BY ClientPipelineAssumption, Zenon DEF Init, Types
<1>2. Holding
  BY ClientPipelineAssumption DEF Init, Holding, Over
<1>3. Writing
  BY ClientPipelineAssumption DEF Init, Writing
<1>4. Reading /\ ReleasedClean
  BY DEF Init, Reading, ReleasedClean
<1> QED BY <1>1, <1>2, <1>3, <1>4 DEF ConnInv

(* What happens between two polls, and how a poll begins.                  *)
LEMMA OutsideStep ==
  ASSUME ConnInv,
         PeerSends \/ PeerCloses \/ SocketWritable \/ BodyReady \/ TimerExpires \/ Dropped
           \/ PollNew \/ PollConnect \/ PollReleased \/ Poll
  PROVE  ConnInv'
<1> USE DEF ConnInv, Types, Holding, Writing, Reading, ReleasedClean, Over
<1>1. CASE PeerSends \/ PeerCloses \/ SocketWritable \/ BodyReady \/ TimerExpires
  BY <1>1 DEF PeerSends, PeerCloses, SocketWritable, BodyReady, TimerExpires, Environment, writer
<1>2. CASE Dropped
  BY <1>2 DEF Dropped, Drop, writer, reader
<1>3. CASE PollNew
  BY <1>3 DEF PollNew, writer, reader
<1>4. CASE PollConnect
  <2>1. UNCHANGED <<ws, disconnected, done, needRun, reader, gap>>
    BY <1>4 DEF PollConnect
  <2>2. CASE state' = "failed" /\ conn' \in {"none", "closed"} /\ UNCHANGED <<body, buf, cap, ended, pc>>
    BY <1>4, <2>1, <2>2 DEF PollConnect, reader
  <2>3. CASE /\ conn' = "held" /\ state' = "Send" /\ pc' = "fill"
             /\ buf' = 1 + (IF body = "binary" THEN 1 ELSE 0)
             /\ cap' = (IF body = "binary" THEN 0 ELSE Capacity)
             /\ body' = (IF body = "binary" THEN "done" ELSE body) /\ ended' = (body = "binary")
    <3>1. body # "done"
      BY <1>4 DEF PollConnect
    <3> QED BY <1>4, <2>1, <2>3, <3>1, ClientPipelineAssumption DEF PollConnect, reader
  <2> QED BY <1>4, <2>2, <2>3 DEF PollConnect
<1>5. CASE PollReleased \/ Poll
  BY <1>5, SMTT(30) DEF PollReleased, Poll, writer, reader
<1> QED BY <1>1, <1>2, <1>3, <1>4, <1>5

(* poll_write.                                                             *)
LEMMA WriteStep == ASSUME ConnInv, PollWrite PROVE ConnInv'
<1> USE DEF ConnInv, Types, Holding, Writing, Reading, ReleasedClean, Over
<1>1. CASE WriteDone \/ MustFlush
  <2>1. Types'
    BY <1>1, Zenon DEF WriteDone, MustFlush, InFill, ToFlush, writer, reader
  <2>2. Holding'
    BY <1>1 DEF WriteDone, MustFlush, InFill, ToFlush, writer, reader
  <2>3. Writing'
    BY <1>1 DEF WriteDone, MustFlush, InFill, ToFlush, writer, reader
  <2>4. Reading'
    BY <1>1 DEF WriteDone, MustFlush, InFill, ToFlush, writer, reader
  <2>5. ReleasedClean'
    BY <1>1 DEF WriteDone, MustFlush, InFill, ToFlush, writer, reader
  <2> QED BY <2>1, <2>2, <2>3, <2>4, <2>5
<1>2. CASE BodyChunk
  <2>1. Types'
    <3>1. buf' = buf + 1 /\ (ToFlush(FALSE) \/ UNCHANGED <<done, pc>>)
      BY <1>2, Zenon DEF BodyChunk
    <3>2. UNCHANGED <<state, conn, cap, disconnected, needRun, total, parser, decoder, decompress>>
      BY <1>2 DEF BodyChunk, Filling, InFill, reader
    <3>3. buf' \in Nat
      BY <3>1
    <3>4. CASE ToFlush(FALSE)
      BY <3>2, <3>3, <3>4, Zenon DEF ToFlush
    <3>5. CASE UNCHANGED <<done, pc>>
      BY <3>2, <3>3, <3>5
    <3> QED BY <3>1, <3>4, <3>5, Zenon
  <2>2. Holding'
    BY <1>2 DEF BodyChunk, Filling, InFill, ToFlush, reader
  <2>3. Writing'
    BY <1>2 DEF BodyChunk, Filling, InFill, ToFlush, reader
  <2>4. Reading'
    BY <1>2 DEF BodyChunk, Filling, InFill, ToFlush, reader
  <2>5. ReleasedClean'
    BY <1>2 DEF BodyChunk, Filling, InFill, ToFlush, reader
  <2> QED BY <2>1, <2>2, <2>3, <2>4, <2>5
<1>3. CASE BodyEnds \/ NoBody
  <2>1. Types'
    BY <1>3, Zenon DEF BodyEnds, NoBody, Filling, InFill, ToFlush, reader
  <2>2. Holding'
    BY <1>3 DEF BodyEnds, NoBody, Filling, InFill, ToFlush, reader
  <2>3. Writing'
    BY <1>3 DEF BodyEnds, NoBody, Filling, InFill, ToFlush, reader
  <2>4. Reading'
    BY <1>3 DEF BodyEnds, NoBody, Filling, InFill, ToFlush, reader
  <2>5. ReleasedClean'
    BY <1>3 DEF BodyEnds, NoBody, Filling, InFill, ToFlush, reader
  <2> QED BY <2>1, <2>2, <2>3, <2>4, <2>5
<1>4. CASE BodyNotReady \/ ActorDrains \/ ActorStops
  <2>1. Types'
    BY <1>4, Zenon DEF BodyNotReady, ActorDrains, ActorStops, Filling, InFill, ToFlush, reader, writer
  <2>2. Holding'
    BY <1>4 DEF BodyNotReady, ActorDrains, ActorStops, Filling, InFill, ToFlush, reader, writer
  <2>3. Writing'
    BY <1>4 DEF BodyNotReady, ActorDrains, ActorStops, Filling, InFill, ToFlush, reader, writer
  <2>4. Reading'
    BY <1>4 DEF BodyNotReady, ActorDrains, ActorStops, Filling, InFill, ToFlush, reader, writer
  <2>5. ReleasedClean'
    BY <1>4 DEF BodyNotReady, ActorDrains, ActorStops, Filling, InFill, ToFlush, reader, writer
  <2> QED BY <2>1, <2>2, <2>3, <2>4, <2>5
<1>5. CASE BodyFails \/ FlushFails
  BY <1>5 DEF BodyFails, FlushFails, Fail, Drop, Filling, InFill, reader, writer
<1>6. CASE Flush
  <2>1. Types'
    <3>1. PICK n \in 0..buf, refused \in {FALSE, MayFail} : buf' = (IF refused THEN 0 ELSE buf - n)
      BY <1>6 DEF Flush
    <3>2. buf' \in Nat
      BY <3>1
    <3>3. pc' \in {"fill", "written"} /\ done' = FALSE
      BY <1>6 DEF Flush
    <3>4. UNCHANGED <<state, conn, cap, disconnected, needRun, total, parser, decoder, decompress>>
      BY <1>6 DEF Flush, reader
    <3> QED BY <3>2, <3>3, <3>4, ZenonT(30)
  <2>2. Holding'
    BY <1>6 DEF Flush, Flushed, reader
  <2>3. Writing'
    BY <1>6 DEF Flush, Flushed, reader
  <2>4. Reading'
    BY <1>6 DEF Flush, Flushed, reader
  <2>5. ReleasedClean'
    BY <1>6 DEF Flush, Flushed, reader
  <2> QED BY <2>1, <2>2, <2>3, <2>4, <2>5
<1> QED BY <1>1, <1>2, <1>3, <1>4, <1>5, <1>6 DEF PollWrite

(* The response is read.                                                   *)
LEMMA ReadStep == ASSUME ConnInv, PollRead PROVE ConnInv'
<1> USE DEF ConnInv, Types, Holding, Writing, Reading, ReleasedClean, Over
<1>1. CASE Written
  BY <1>1, Zenon DEF Written, writer, reader
<1>2. CASE Parse
  <2>1. UNCHANGED <<body, buf, cap, ws, disconnected, done, needRun, parser, total, gap>> /\ ended' = ended /\ pc' = "idle"
    BY <1>2 DEF Parse, Fail, Drop, Idle, writer
  <2>2. CASE arrived > 0
    <3>1. state' = "body" /\ conn' = conn /\ parsed' = 1 /\ decompress' \in Decompress
      BY <1>2, <2>2 DEF Parse, CheckEncoding
    <3>2. decoder' \in BOOLEAN /\ (~decoder' => framing' = "close")
      BY <1>2, <2>2 DEF Parse
    <3>3. parser
      BY <1>2 DEF Parse
    <3> QED BY <1>2, <2>1, <3>1, <3>2, <3>3, ClientPipelineAssumption DEF Parse
  <2>3. CASE ~(arrived > 0)
    BY <1>2, <2>1, <2>3 DEF Parse, Fail, Drop, Idle
  <2> QED BY <2>2, <2>3
<1>3. CASE PayloadChunk \/ PayloadNotReady \/ PayloadWasOver
  BY <1>3 DEF PayloadChunk, PayloadNotReady, PayloadWasOver, Fail, Drop, Idle, writer, reader
<1>4. CASE PayloadEnds
  BY <1>4, Zenon DEF PayloadEnds, writer
<1>5. CASE ReadFails
  BY <1>5 DEF ReadFails, Fail, Drop, writer, reader
<1>6. CASE Eof
  BY <1>6, Zenon DEF Eof, writer
<1>7. CASE TimesOut
  BY <1>7 DEF TimesOut, Fail, Drop, writer, reader
<1> QED BY <1>1, <1>2, <1>3, <1>4, <1>5, <1>6, <1>7, Zenon DEF PollRead

LEMMA ConnStep == ASSUME ConnInv, [Next]_vars PROVE ConnInv'
<1>1. CASE UNCHANGED vars
  BY <1>1 DEF vars, writer, reader, ConnInv, Types, Holding, Writing, Reading, ReleasedClean, Over
<1> QED BY <1>1, OutsideStep, WriteStep, ReadStep DEF Next, Step

LEMMA ConnInvariance == Spec => []ConnInv
  BY ConnInit, ConnStep, PTL DEF Spec

(* What release_conn gives back to the pool, whatever the sizes: the       *)
(* response read to its end unless it was to end with the connection, the  *)
(* request ended unless its actor stopped without an end or the tail of    *)
(* the decompressor came first, and the rest of it within the capacity.    *)
THEOREM CleanRelease == Spec => []ReleasedClean
<1>1. ConnInv => ReleasedClean
  BY DEF ConnInv
<1> QED BY <1>1, ConnInvariance, PTL

-----------------------------------------------------------------------------
(* Units are neither made up nor lost on the way out: what is in the       *)
(* buffer and what was sent never exceeds what the request has produced.   *)
Produced ==
  /\ sent \in Nat /\ buf \in Nat /\ buf + sent <= given
  /\ given \in 0..MaxUnits + 2 /\ cap \in {0, Capacity}
  /\ state \in {"New", "Connect", "Connection"} => sent = 0

(* Nor on the way in.                                                      *)
Received ==
  /\ parsed \in Nat /\ read \in Nat /\ arrived \in Nat /\ total \in Nat
  /\ parsed <= read /\ read <= arrived /\ arrived <= total

Labels ==
  /\ body \in {"binary", "stream", "actor", "done"} /\ ws \in {"Running", "Paused", "Done"}
  /\ peer \in {"open", "closed"} /\ expired \in BOOLEAN
  /\ waits \subseteq {"read", "write", "body", "timer"} /\ gap \subseteq {"chunk", "tail", "stop"}
  /\ framing \in Framings \cup {"none"} /\ ended \in BOOLEAN
  /\ drain \in BOOLEAN /\ woken \in BOOLEAN

ValueInv == ConnInv /\ Produced /\ Received /\ Labels

(* A request that was just made.                                           *)
LEMMA ValueInit == ASSUME Init PROVE ValueInv
<1>1. Produced /\ Received
  BY ClientPipelineAssumption DEF Init, Produced, Received
<1>2. Labels
  BY ClientPipelineAssumption, Zenon DEF Init, Labels
<1> QED BY <1>1, <1>2, ConnInit DEF ValueInv

(* HttpClientWriter: a chunk goes into the buffer, the socket takes some.  *)
LEMMA ProducedStep == ASSUME ValueInv, [Next]_vars PROVE Produced'
<1> USE ClientPipelineAssumption DEF ValueInv, Produced
<1>1. CASE PollConnect
  <2>1. CASE state' = "failed" /\ UNCHANGED <<buf, cap, given, sent>>
    BY <2>1
  <2>2. CASE /\ given' = 1 + (IF body = "binary" THEN 1 ELSE 0) /\ buf' = given'
             /\ cap' = (IF body = "binary" THEN 0 ELSE Capacity) /\ UNCHANGED sent /\ sent = 0
    BY <2>2
  <2> QED BY <1>1, <2>1, <2>2 DEF PollConnect
<1>2. CASE BodyChunk
  <2>1. buf' = buf + 1 /\ given' = given + 1 /\ given < MaxUnits /\ UNCHANGED <<state, cap, sent>>
    BY <1>2 DEF BodyChunk
  <2> QED BY <2>1
<1>3. CASE Flush
  <2>1. PICK n \in 0..buf, refused \in {FALSE, MayFail} :
          buf' = (IF refused THEN 0 ELSE buf - n) /\ sent' = sent + n
    BY <1>3, Zenon DEF Flush
  <2>2. UNCHANGED <<state, cap, given>> /\ state \in {"Send", "body"}
    BY <1>3 DEF Flush, ConnInv, Holding
  <2>3. buf' \in Nat /\ buf' <= buf - n
    BY <2>1
  <2> QED BY <2>1, <2>2, <2>3
<1>4. ASSUME UNCHANGED <<buf, sent, given, cap>>,
             state' \in {"New", "Connect", "Connection"} => state \in {"New", "Connect", "Connection"}
      PROVE  Produced'
  BY <1>4
<1>5. CASE PeerSends \/ PeerCloses \/ SocketWritable \/ BodyReady \/ TimerExpires \/ Dropped
  BY <1>4, <1>5 DEF PeerSends, PeerCloses, SocketWritable, BodyReady, TimerExpires, Dropped,
                    Environment, Drop, writer
<1>6. CASE PollNew \/ PollReleased \/ Poll
  BY <1>4, <1>6 DEF PollNew, PollReleased, Poll, writer
<1>7. CASE WriteDone \/ MustFlush \/ BodyEnds \/ BodyNotReady \/ ActorDrains \/ ActorStops
             \/ BodyFails \/ NoBody \/ FlushFails
  BY <1>4, <1>7, ZenonT(30) DEF WriteDone, MustFlush, BodyEnds, BodyNotReady, ActorDrains, ActorStops, BodyFails,
                    NoBody, FlushFails, Fail, Drop, writer
<1>8. CASE PollRead
  <2>1. UNCHANGED <<buf, sent, given, cap>>
    BY <1>8 DEF PollRead, Written, TimesOut, Parse, PayloadChunk, PayloadEnds, PayloadNotReady, PayloadWasOver,
                ReadFails, Eof, writer
  <2>2. state' \in {state, "failed", "body", "error", "done"}
    BY <1>8 DEF PollRead, Written, TimesOut, Parse, PayloadChunk, PayloadEnds, PayloadNotReady, PayloadWasOver,
                ReadFails, Eof, Fail, Drop, Idle
  <2> QED BY <1>4, <2>1, <2>2
<1>9. CASE UNCHANGED vars
  BY <1>4, <1>9 DEF vars, writer
<1> QED BY <1>1, <1>2, <1>3, <1>5, <1>6, <1>7, <1>8, <1>9 DEF Next, Step, PollWrite

(* HttpResponseParser: what is handed on was read, and what is read came.  *)
LEMMA ReceivedStep == ASSUME ValueInv, [Next]_vars PROVE Received'
<1> USE DEF ValueInv, Received
<1>1. CASE PeerSends
  <2>1. arrived < total /\ arrived' = arrived + 1 /\ UNCHANGED <<parsed, read, total>>
    BY <1>1 DEF PeerSends, Environment
  <2> QED BY <2>1
<1>2. CASE Parse
  <2>1. UNCHANGED <<arrived, total>>
    BY <1>2 DEF Parse
  <2>2. CASE arrived > 0
    BY <1>2, <2>1, <2>2 DEF Parse
  <2>3. CASE ~(arrived > 0)
    BY <1>2, <2>1, <2>3 DEF Parse
  <2> QED BY <2>2, <2>3
<1>3. CASE PayloadChunk \/ PayloadEnds
  <2>1. UNCHANGED <<arrived, total>> /\ read' = arrived
    BY <1>3 DEF PayloadChunk, PayloadEnds
  <2>2. \/ arrived > parsed /\ parsed' = parsed + 1
        \/ arrived > parsed /\ parsed = total - 1 /\ parsed' = total
        \/ parsed' = parsed
    BY <1>3 DEF PayloadChunk, PayloadEnds
  <2> QED BY <2>1, <2>2
<1>4. ASSUME UNCHANGED <<arrived, total, read, parsed>> PROVE Received'
  BY <1>4
<1>5. CASE PeerCloses \/ SocketWritable \/ BodyReady \/ TimerExpires \/ Dropped
  BY <1>4, <1>5 DEF PeerCloses, SocketWritable, BodyReady, TimerExpires, Dropped, Environment, reader
<1>6. CASE PollNew \/ PollConnect \/ PollReleased \/ Poll
  BY <1>4, <1>6, SMTT(30) DEF PollNew, PollConnect, PollReleased, Poll, reader
<1>7. CASE PollWrite
  BY <1>4, <1>7, Zenon DEF PollWrite, WriteDone, MustFlush, BodyChunk, BodyEnds, BodyNotReady, ActorDrains,
                    ActorStops, BodyFails, NoBody, Flush, FlushFails, Filling, InFill, reader
<1>8. CASE Written \/ TimesOut \/ PayloadNotReady \/ PayloadWasOver \/ ReadFails \/ Eof
  BY <1>4, <1>8 DEF Written, TimesOut, PayloadNotReady, PayloadWasOver, ReadFails, Eof, reader
<1>9. CASE UNCHANGED vars
  BY <1>4, <1>9 DEF vars, reader
<1> QED BY <1>1, <1>2, <1>3, <1>5, <1>6, <1>7, <1>8, <1>9 DEF Next, Step, PollRead

(* The other variables keep their values.                                  *)
LEMMA LabelsStep == ASSUME ValueInv, [Next]_vars PROVE Labels'
<1> USE DEF ValueInv, Labels
<1>1. CASE PeerSends \/ PeerCloses \/ SocketWritable \/ BodyReady \/ TimerExpires \/ Dropped
  <2>1. UNCHANGED <<body, ws, drain, gap, ended, framing>>
    BY <1>1 DEF PeerSends, PeerCloses, SocketWritable, BodyReady, TimerExpires, Dropped, Environment,
                writer, reader
  <2>2. peer' \in {peer, "closed"} /\ expired' \in {expired, TRUE}
    BY <1>1, Zenon DEF PeerSends, PeerCloses, SocketWritable, BodyReady, TimerExpires, Dropped, reader
  <2>3. waits' \subseteq waits /\ woken' \in BOOLEAN
    <3>1. (\E source : Wake(source)) \/ (woken' = FALSE /\ waits' = {})
      BY <1>1 DEF PeerSends, PeerCloses, SocketWritable, BodyReady, TimerExpires, Dropped, Drop,
                  Environment
    <3> QED BY <3>1, Zenon DEF Wake
  <2> QED BY <2>1, <2>2, <2>3, Zenon
<1>2. CASE PollNew \/ PollConnect \/ PollReleased \/ Poll
  <2>1. UNCHANGED <<ws, drain, gap, waits, peer, expired, framing>> /\ body' \in {body, "done"}
    BY <1>2 DEF PollNew, PollConnect, PollReleased, Poll, writer, reader
  <2>2. woken' \in {woken, FALSE} /\ ended' \in {ended, TRUE, FALSE}
    BY <1>2, Zenon DEF PollNew, PollConnect, PollReleased, Poll, writer
  <2> QED BY <2>1, <2>2, ZenonT(30)
<1>3. CASE WriteDone \/ MustFlush \/ BodyChunk \/ BodyEnds \/ NoBody
  <2>1. UNCHANGED <<peer, expired, woken, waits, gap, drain, framing>> /\ body' \in {body, "done"}
    BY <1>3, Zenon DEF WriteDone, MustFlush, BodyChunk, BodyEnds, NoBody, Filling, InFill, writer, reader
  <2>2. ws' \in {ws, "Running", "Paused"} /\ ended' \in {ended, TRUE}
    BY <1>3, Zenon DEF WriteDone, MustFlush, BodyChunk, BodyEnds, NoBody, writer
  <2> QED BY <2>1, <2>2, ZenonT(30)
<1>4. CASE BodyNotReady \/ ActorDrains \/ ActorStops \/ BodyFails \/ FlushFails
  <2>1. UNCHANGED <<peer, expired, woken, ended, framing>> /\ body' \in {body, "done"}
    BY <1>4, Zenon DEF BodyNotReady, ActorDrains, ActorStops, BodyFails, FlushFails, Filling, InFill, writer,
                reader
  <2>2. ws' \in {ws, "Running"} /\ drain' \in {drain, TRUE}
    BY <1>4, Zenon DEF BodyNotReady, ActorDrains, ActorStops, BodyFails, FlushFails, writer
  <2>3. waits' \subseteq waits \cup {"body"} /\ gap' \subseteq gap \cup {"stop"}
    BY <1>4, Zenon DEF BodyNotReady, ActorDrains, ActorStops, BodyFails, FlushFails, Filling, Fail, Drop
  <2> QED BY <2>1, <2>2, <2>3, ZenonT(30)
<1>5. CASE Flush
  BY <1>5, Zenon DEF Flush, reader
<1>6. CASE PollRead
  <2>1. UNCHANGED <<writer, peer, expired>>
    BY <1>6, SMTT(30) DEF PollRead, Written, TimesOut, Parse, PayloadChunk, PayloadEnds, PayloadNotReady,
                PayloadWasOver, ReadFails, Eof, reader
  <2>2. framing' \in Framings \cup {framing}
    BY <1>6, SMTT(30) DEF PollRead, Written, TimesOut, Parse, PayloadChunk, PayloadEnds, PayloadNotReady,
                PayloadWasOver, ReadFails, Eof, reader
  <2>3. woken' \in {woken, TRUE} /\ gap' \subseteq gap \cup {"chunk", "tail"}
    BY <1>6, Zenon DEF PollRead, Written, TimesOut, Parse, PayloadChunk, PayloadEnds, PayloadNotReady,
                PayloadWasOver, ReadFails, Eof
  <2>4. waits' \subseteq waits \cup {"read", "timer"}
    BY <1>6 DEF PollRead, Written, TimesOut, Parse, PayloadChunk, PayloadEnds, PayloadNotReady,
                PayloadWasOver, ReadFails, Eof, Fail, Drop, Idle
  <2> QED BY <2>1, <2>2, <2>3, <2>4, ZenonT(30) DEF writer
<1>7. CASE UNCHANGED vars
  BY <1>7 DEF vars, writer, reader
<1> QED BY <1>1, <1>2, <1>3, <1>4, <1>5, <1>6, <1>7 DEF Next, Step, PollWrite

(* The counts of a request stay in order whatever its size: the socket     *)
(* takes no more than the writer was given, the parser hands on no more    *)
(* than was read, and the buffer has the capacity of its kind of body.     *)
THEOREM CountsInOrder == Spec => []TypeOK
<1>1. ValueInv /\ [Next]_vars => ValueInv'
  BY ConnStep, ProducedStep, ReceivedStep, LabelsStep DEF ValueInv
<1>2. ValueInv => TypeOK
  <2> SUFFICES ASSUME ValueInv PROVE TypeOK
    OBVIOUS
  <2>1. {disconnected, drain, ended, expired, done, needRun, parser, decoder, decompress, woken} \subseteq BOOLEAN
    BY Zenon DEF ValueInv, ConnInv, Types, Labels
  <2> QED BY <2>1 DEF ValueInv, ConnInv, Types, Produced, Received, Labels, TypeOK
<1> QED BY <1>1, <1>2, ValueInit, PTL DEF Spec
=============================================================================
