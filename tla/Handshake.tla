------------------------------ MODULE Handshake -------------------------------
(***************************************************************************)
(* The opening handshake of a WebSocket between the client of this crate   *)
(* (Client and ClientHandshake of ws/client.rs, over ClientRequestBuilder  *)
(* of client/request.rs) and its server (handshake and start of            *)
(* ws/mod.rs).  Between them something may alter one header, or bring a    *)
(* client the answer to another one's request, as a reused connection with *)
(* an unread response does.                                                *)
(***************************************************************************)
EXTENDS Integers, FiniteSets, Sequences

CONSTANTS
  Clients,    \* names of the clients; each stands for its random key as well
  MaxFaults   \* bound: faults on the way

VARIABLES
  client,     \* per client: its builder, and what has come of it
  requests,   \* per client: its request at the server, once it is sent
  responses,  \* per client: the answer to its request
  started,    \* clients whose request started an actor
  faults      \* faults so far

vars == <<client, requests, responses, started, faults>>

NoRequest == [method |-> "none", upgrade |-> "none", connection |-> "none",
              version |-> "none", key |-> "none"]
NoResponse == [status |-> 0, upgrade |-> "none", connection |-> "none", accept |-> "none"]

(* with_connector.  A URI that does not parse leaves an error in the       *)
(* builder.                                                                *)
(* ClientRequestBuilder::uri: an address that does not parse is an error   *)
(* of the builder, to be told later.                                       *)
Uri(b, u) == [b EXCEPT !.uri = u, !.err = u = "bad"]

Init ==
  /\ client \in
       [Clients -> {Uri([uri |-> "", asked |-> {}, headers |-> {}, origin |-> FALSE, httpErr |-> FALSE,
                         err |-> FALSE, reported |-> FALSE, request |-> TRUE, st |-> "build"], u) :
                    u \in {"ok", "nohost", "scheme", "bad"}}]
  /\ requests = [c \in Clients |-> NoRequest] /\ responses = [c \in Clients |-> NoResponse]
  /\ started = {} /\ faults = 0

-----------------------------------------------------------------------------
(* Client::origin keeps a value that is no header value as an error, and   *)
(* ClientRequestBuilder::header too: it adds nothing after an error, or    *)
(* once the request is taken.                                              *)
Origin(c, good) ==
  /\ client[c].st \in {"build", "failed"} /\ "origin" \notin client[c].asked
  /\ client' = [client EXCEPT ![c].asked = @ \cup {"origin"}, ![c].origin = good, ![c].httpErr = ~good]
  /\ UNCHANGED <<requests, responses, started, faults>>

SetHeader(b, h, good) ==
  CASE b.err \/ ~b.request -> b
    [] good -> [b EXCEPT !.headers = @ \cup {h}]
    [] OTHER -> [b EXCEPT !.err = TRUE]
Header(c, good) ==
  /\ client[c].st \in {"build", "failed"} /\ "extra" \notin client[c].asked
  /\ client' = [client EXCEPT ![c] = SetHeader([@ EXCEPT !.asked = @ \cup {"extra"}], "extra", good)]
  /\ UNCHANGED <<requests, responses, started, faults>>

(* connect: an error is reported once.  The headers of the handshake       *)
(* replace those of the application, and ClientHandshake::new adds its     *)
(* key.                                                                    *)
Reports(b) == [b EXCEPT !.st = "failed", !.reported = TRUE]
Finish(b) ==
  CASE b.err -> Reports([b EXCEPT !.err = FALSE])
    [] ~b.err /\ ~b.request -> [b EXCEPT !.st = "panic"]
    [] b.uri = "ok" -> [b EXCEPT !.request = FALSE, !.st = "wait"]
    [] OTHER -> Reports([b EXCEPT !.request = FALSE])
Connected(b) ==
  IF b.httpErr THEN Reports([b EXCEPT !.httpErr = FALSE])
  ELSE Finish([IF b.origin THEN SetHeader(b, "origin", TRUE) ELSE b EXCEPT !.origin = FALSE])
Request(c) == [method |-> "GET", upgrade |-> "websocket", connection |-> "upgrade",
               version |-> "13", key |-> c]
Connect(c) ==
  /\ client[c].st \in {"build", "failed"}
  /\ client' = [client EXCEPT ![c] = Connected(@)]
  /\ requests' = IF client'[c].st = "wait" THEN [requests EXCEPT ![c] = Request(c)] ELSE requests
  /\ UNCHANGED <<responses, started, faults>>

-----------------------------------------------------------------------------
(* The server.  handshake gives the answer 101, or an error's; the accept  *)
(* header is a hash of the key.                                            *)
Refusal(r) ==
  CASE r.method # "GET" -> 405
    [] r.method = "GET" /\ (r.upgrade # "websocket" \/ r.connection # "upgrade"
                            \/ r.version \notin {"13", "8", "7"} \/ r.key = "none") -> 400
    [] OTHER -> 0
HashKey(k) == "sha1 of " \o k
Answer(r) == [status |-> 101, upgrade |-> "websocket", connection |-> "none", accept |-> HashKey(r.key)]

(* H1Writer::start writes the Connection header of an upgrade.             *)
WriterStart(resp) == [resp EXCEPT !.connection = "upgrade"]

(* start: the actor and its stream are made if the handshake succeeds.     *)
Start(c) ==
  /\ responses[c] = NoResponse /\ requests[c] # NoRequest
  /\ IF Refusal(requests[c]) = 0
     THEN /\ responses' = [responses EXCEPT ![c] = WriterStart(Answer(requests[c]))]
          /\ started' = started \cup {requests[c].key}
     ELSE /\ responses' = [responses EXCEPT ![c] = [NoResponse EXCEPT !.status = Refusal(requests[c])]]
          /\ UNCHANGED started
  /\ UNCHANGED <<client, requests, faults>>

-----------------------------------------------------------------------------
(* On the way: a header or a status is altered, or the answer to another   *)
(* request arrives.                                                        *)
Fault == faults < MaxFaults /\ faults' = faults + 1 /\ UNCHANGED <<client, started>>
AlterRequest(c) ==
  /\ Fault /\ requests[c] # NoRequest /\ responses[c] = NoResponse
  /\ \/ requests' = [requests EXCEPT ![c].method = "POST"]
     \/ \E f \in {"upgrade", "connection", "version", "key"} : requests' = [requests EXCEPT ![c][f] = "none"]
     \/ requests' = [requests EXCEPT ![c].version = "99"]
  /\ UNCHANGED responses
AlterResponse(c) ==
  /\ Fault /\ responses[c] # NoResponse /\ client[c].st = "wait"
  /\ \/ \E f \in {"upgrade", "connection", "accept"}, v \in {"none", "other"} :
          responses' = [responses EXCEPT ![c][f] = v]
     \/ responses' = [responses EXCEPT ![c].status = 200]
  /\ UNCHANGED requests
CrossResponse(c) ==
  /\ Fault /\ client[c].st = "wait"
  /\ \E d \in Clients \ {c} :
       responses[d] # NoResponse /\ responses' = [responses EXCEPT ![c] = responses[d]]
  /\ UNCHANGED requests

-----------------------------------------------------------------------------
(* ClientHandshake::poll: what it thinks of the answer.                    *)
VerdictNoKey(c, r) ==
  IF r.status # 101 THEN "InvalidResponseStatus" ELSE IF r.upgrade # "websocket" THEN "InvalidUpgradeHeader" ELSE "open"
Verdict(c, r) ==
  CASE r.status # 101 -> "InvalidResponseStatus"
    [] r.status = 101 /\ r.upgrade # "websocket" -> "InvalidUpgradeHeader"
    [] r.status = 101 /\ r.upgrade = "websocket" /\ r.connection = "none" -> "MissingConnectionHeader"
    [] r.status = 101 /\ r.upgrade = "websocket" /\ r.connection = "other" -> "InvalidConnectionHeader"
    [] r.status = 101 /\ r.upgrade = "websocket" /\ r.connection = "upgrade" /\ r.accept = "none" ->
         "MissingWebSocketAcceptHeader"
    [] r.status = 101 /\ r.upgrade = "websocket" /\ r.connection = "upgrade"
         /\ r.accept \notin {"none", HashKey(c)} -> "InvalidChallengeResponse"
    [] OTHER -> "open"
Poll(c) ==
  /\ client[c].st = "wait" /\ responses[c] # NoResponse
  /\ client' = [client EXCEPT ![c].st = Verdict(c, responses[c])]
  /\ UNCHANGED <<requests, responses, started, faults>>

Next ==
  \E c \in Clients :
     \/ \E good \in BOOLEAN : Origin(c, good) \/ Header(c, good)
     \/ Connect(c) \/ Start(c) \/ Poll(c)
     \/ AlterRequest(c) \/ AlterResponse(c) \/ CrossResponse(c)

Spec == Init /\ [][Next]_vars

-----------------------------------------------------------------------------
(* The values of the variables.                                            *)
TypeOK ==
  /\ started \subseteq Clients /\ faults \in 0..MaxFaults
  /\ \A c \in Clients : client[c].headers \subseteq client[c].asked /\ (client[c].st = "wait" => ~client[c].request)

(* A client has a WebSocket only if a server has started an actor for the  *)
(* very request it made, whatever answer it is brought.                    *)
OnlyItsOwn == \A c \in Clients : client[c].st = "open" => c \in started

(* The two ends agree: with nothing altered on the way, every handshake    *)
(* the client sends succeeds, whatever headers the application set.        *)
Agree == faults = 0 => \A c \in Clients :
  client[c].st \in {"build", "failed", "panic", "wait", "open"}

(* A request that is sent has every header the application asked for,      *)
(* unless connect has reported an error before: then the headers after the *)
(* wrong one, and the origin, are gone when connect is called again.       *)
Complete == \A c \in Clients :
  (client[c].st \in {"wait", "open"} /\ ~client[c].reported) => client[c].headers = client[c].asked
=============================================================================
