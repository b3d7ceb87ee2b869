------------------------------ MODULE MCExchange ------------------------------
(***************************************************************************)
(* The modules about what is written on the wire and read from it, and     *)
(* about what an application does with a request, for TLC: WebSocket,      *)
(* Multipart, Transfer, Handshake and Heads; Routing, Cors, Session and    *)
(* Files.  They share no state.  A behaviour is one of one of them, which  *)
(* mode names; its variables are the slots s1, s2... and the slots it does *)
(* not need stay empty.  The bounds of each module are the values it is    *)
(* instantiated with.                                                      *)
(***************************************************************************)
EXTENDS Integers, Sequences

VARIABLES mode, s1, s2, s3, s4, s5, s6, s7, s8, s9, s10, s11, s12, s13

vars == <<mode, s1, s2, s3, s4, s5, s6, s7, s8, s9, s10, s11, s12, s13>>

W == INSTANCE WebSocket WITH
  Small <- 2, Medium <- 3, MaxSize <- 4, Written <- {"Text", "Ping", "Close"},
  Lengths <- {0, 2, 3, 4, 5}, PeerLengths <- {3}, MaxFrames <- 2, Cuts <- {1, 6}, MaxChunks <- 3,
  server <- s1, frames <- s2, context <- s3, disconnected <- s4, wire <- s5, chunks <- s6,
  rx <- s7, closed <- s8, got <- s9, last <- s10

M == INSTANCE Multipart WITH
  MaxData <- 2, Levels <- {1, 2}, Cuts <- {1, 4, 11}, MaxChunks <- 3, MayStop <- TRUE,
  parts <- s1, wire <- s2, chunks <- s3, rx <- s4, stack <- s5, field <- s6, handles <- s7,
  at <- s8, seen <- s9, last <- s10

T == INSTANCE Transfer WITH
  Radix <- 2, Width <- 5, Sizes <- {0, 1, 2, 3}, MaxWrites <- 4, Cuts <- {1, 3}, MaxReads <- 3,
  m <- s1, head <- s2, enc <- s3, wstate <- s4, sent <- s5, dropped <- s6, wire <- s7,
  reads <- s8, buf <- s9, dec <- s10, unzip <- s11, rstate <- s12, got <- s13

H == INSTANCE Handshake WITH
  Clients <- {"c1", "c2"}, MaxFaults <- 1,
  client <- s1, requests <- s2, responses <- s3, started <- s4, faults <- s5

(* Numbers around the borders of the cases of write_content_length, and    *)
(* the largest TLC can hold.                                               *)
MCNumbers ==
  (0..12) \cup (98..111) \cup (998..1011) \cup (9998..10011) \cup (99998..100002)
    \cup {10099, 10100, 1000000, 12345678, 99999999, 100000000, 2147483647}
N == INSTANCE Heads WITH
  Statuses <- 100..599, Numbers <- MCNumbers, MaxTags <- 3, call <- s1, out <- s2

(* Patterns as an application writes them, and paths around them.          *)
MCPatterns == {<<>>, <<"a">>, <<"/", "a">>, <<"a", "/">>, <<"VAR">>, <<"a", "/", "VAR">>,
               <<"VAR", "a">>, <<"a", "TAIL">>}
MCPaths ==
  {<<>>, <<"*">>, <<"/">>, <<"/", "a">>, <<"/", "/">>, <<"/", "!">>, <<"/", "%">>}
    \cup {<<"/", "a">> \o s : s \in {<<"/">>, <<"a">>, <<"b">>, <<"%">>, <<"/", "/">>, <<"/", "a">>,
                                     <<"%", "a">>, <<"a", "/">>, <<"/", "/", "a">>, <<"/", "a", "/">>,
                                     <<"/", "a", "a">>}}
    \cup {<<"/", "/", "a">>, <<"/", "/", "a", "/">>}

R == INSTANCE Routing WITH
  Patterns <- MCPatterns, AppPrefixes <- {<<"/">>, <<"a">>, <<"/", "a", "/">>}, Paths <- MCPaths,
  Methods <- {"GET", "POST"}, MaxRoutes <- 2,
  prefix <- s1, handlers <- s2, resources <- s3, added <- s4, normalize <- s5, answer <- s6

C == INSTANCE Cors WITH
  Origins <- {"o1", "o2"}, Methods <- {"GET", "POST", "OPTIONS"},
  builder <- s1, cors <- s2, csrf <- s3, out <- s4

S == INSTANCE Session WITH
  Reqs <- {"r1", "r2"}, Keys <- {"k1", "k2", "k3"}, MaxSize <- 2,
  jar <- s1, forged <- s2, req <- s3, done <- s4, alone <- s5

F == INSTANCE Files WITH
  Segments <- {"..", ".h", "", "a", "d", "i"}, MaxDepth <- 3, Sizes <- {0, 1, 4}, ChunkSize <- 3,
  Inline <- 2, MaxTime <- 4,
  config <- s1, disk <- s2, clock <- s3, cache <- s4, out <- s5, reader <- s6

From11 == s11 = 0 /\ s12 = 0 /\ s13 = 0
From7 == s7 = 0 /\ s8 = 0 /\ s9 = 0 /\ s10 = 0 /\ From11
From6 == s6 = 0 /\ From7
From5 == s5 = 0 /\ From6
From3 == s3 = 0 /\ s4 = 0 /\ From5

Init ==
  \/ mode = "WebSocket" /\ W!Init /\ From11
  \/ mode = "Multipart" /\ M!Init /\ From11
  \/ mode = "Transfer" /\ T!Init
  \/ mode = "Handshake" /\ H!Init /\ From6
  \/ mode = "Heads" /\ N!Init /\ From3
  \/ mode = "Routing" /\ R!Init /\ From7
  \/ mode = "Cors" /\ C!Init /\ From5
  \/ mode = "Session" /\ S!Init /\ From6
  \/ mode = "Files" /\ F!Init /\ From7

Keep3 == UNCHANGED <<s3, s4, s5, s6, s7, s8, s9, s10, s11, s12, s13>>
Keep5 == UNCHANGED <<s5, s6, s7, s8, s9, s10, s11, s12, s13>>
Keep6 == UNCHANGED <<s6, s7, s8, s9, s10, s11, s12, s13>>
Keep7 == UNCHANGED <<s7, s8, s9, s10, s11, s12, s13>>
Keep11 == UNCHANGED <<s11, s12, s13>>

Next ==
  /\ UNCHANGED mode
  /\ \/ mode = "WebSocket" /\ W!Next /\ Keep11
     \/ mode = "Multipart" /\ M!Next /\ Keep11
     \/ mode = "Transfer" /\ T!Next
     \/ mode = "Handshake" /\ H!Next /\ Keep6
     \/ mode = "Heads" /\ N!Next /\ Keep3
     \/ mode = "Routing" /\ R!Next /\ Keep7
     \/ mode = "Cors" /\ C!Next /\ Keep5
     \/ mode = "Session" /\ S!Next /\ Keep6
     \/ mode = "Files" /\ F!Next /\ Keep7

Spec == Init /\ [][Next]_vars

-----------------------------------------------------------------------------
(* WebSocket: however its bytes are cut, the reader yields every frame     *)
(* once, in order and with exactly its payload; a frame that has arrived   *)
(* whole is never left lying; nothing over max_size, no long control frame *)
(* and nothing after a close is yielded; and only a close frame without a  *)
(* code makes it panic (Frame::parse, WsStream::poll, ClientReader::poll). *)
FramesRead ==
  mode = "WebSocket" =>
     W!TypeOK /\ W!InOrder /\ W!NeverStuck /\ W!Accepted /\ W!PanicOnlyOnEmptyClose

(* Multipart: each part the handler reads has its own bytes, all of them   *)
(* when it ends; a body of well-formed parts that arrives whole is read to *)
(* its end, whichever of its handles the handler reads or drops, unless it *)
(* drops one that is not the newest, which panics; the end is reported for *)
(* such a body only (InnerField::read_len, read_stream,                    *)
(* InnerMultipart::poll, Safety::drop).  A part without a length that has  *)
(* a return close to its end is left out: its bytes are mangled.           *)
PartsRead == mode = "Multipart" => M!TypeOK /\ M!PartsIntact /\ M!ReadsThrough


(* Handshake: a client has a WebSocket only if an actor was started for    *)
(* its own request; with nothing altered on the way the two ends agree;    *)
(* and a request has every header asked for, unless an error was reported  *)
(* before it (ClientHandshake::poll, handshake, ClientRequestBuilder).     *)
HandshakesAgree == mode = "Handshake" => H!TypeOK /\ H!OnlyItsOwn /\ H!Agree /\ H!Complete

(* Heads: a content length and a status are written as their decimal       *)
(* numerals, and compression is one the client named                       *)
(* (write_content_length, write_status_line, AcceptEncoding::parse).       *)
HeadsWritten == mode = "Heads" => N!TypeOK /\ N!Decimal /\ N!ThreeDigits /\ N!Negotiated

(* Routing: an application answers the paths below its prefix, cut at a    *)
(* slash; a registered route is reached unless an earlier one fits;        *)
(* url_for with the values a request was matched with leads back to it;    *)
(* and a redirect leads to a resource (HttpApplication::handle,            *)
(* Router::recognize, Resource::resource_path, NormalizePath::handle).     *)
RoutesLead ==
  mode = "Routing" => R!TypeOK /\ R!TakesItsOwn /\ R!Reached /\ R!LinksBack /\ R!RedirectArrives

(* Cors: whom the filter lets through finds its origin in the answer, the  *)
(* request a preflight was granted for is let through, credentials are     *)
(* never offered to every origin, and a request that changes state comes   *)
(* from an allowed one (Cors::start, Cors::response, construct,            *)
(* CsrfFilter::validate).                                                  *)
OriginsJudged ==
  mode = "Cors" =>
     C!TypeOK /\ C!OriginGranted /\ C!PreflightKept /\ C!NoOpenCredentials /\ C!UnsafeFromAllowed

(* Session: a request sees the session as the last one left it, and one    *)
(* that does not change the session never overwrites what another wrote    *)
(* meanwhile (CookieSessionInner::load, set_cookie, CookieSession::write). *)
SessionKept == [][mode = "Session" => S!ReadersLeave /\ (S!TypeOK /\ S!SeesTheLast)']_vars

(* Files: 304 is answered only for the version the client keeps and a      *)
(* precondition lets only that one through; a body has no more than the    *)
(* size the file had, unless it is written meanwhile; what is looked up is *)
(* below the directory and what the path says; and the redirect for the    *)
(* directory itself leads to the index (NamedFile::respond_to,             *)
(* ChunkedReadFile::poll, PathBuf::from_param, StaticFiles::handle).       *)
FilesServed ==
  mode = "Files" =>
     F!TypeOK /\ F!NeverStale /\ F!Guarded /\ F!ReadsWithin /\ F!StaysBelow /\ F!LeadsToIndex
=============================================================================
