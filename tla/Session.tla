------------------------------- MODULE Session --------------------------------
(***************************************************************************)
(* The session middleware with its cookie backend (middleware/session.rs). *)
(* A session lives in the client: a request carries it in, the middleware  *)
(* loads it, the handler changes it, and the answer carries it out again   *)
(* if it was changed.  A client may have two requests under way; the       *)
(* pipeline calls the response hooks or, when a future of the handler      *)
(* fails, leaves them out.                                                 *)
(***************************************************************************)
EXTENDS Integers, FiniteSets

CONSTANTS
  Reqs,       \* requests of one client
  Keys,       \* keys of a session
  MaxSize     \* a session with more entries than this is over 4064 bytes

None == {}    \* the empty session, and the client's jar without the cookie

VARIABLES
  jar,        \* the session in the client's cookie
  forged,     \* whether that cookie is not one of the server's
  req,        \* requests: the phase, the session and whether it was changed
  done,       \* the session as the last handler left it (history)
  alone       \* whether requests have come one at a time, and all were kept (history)

vars == <<jar, forged, req, done, alone>>

Idle == [phase |-> "idle", state |-> None, changed |-> FALSE]

Init ==
  /\ jar = None /\ forged = FALSE /\ req = [r \in Reqs |-> Idle]
  /\ done = None /\ alone = TRUE

Busy == {r \in Reqs : req[r].phase # "idle"}

(* The client sends a request with its cookie.  SessionStorage::start:     *)
(* from_request with load, which takes a cookie that does not verify for   *)
(* none.                                                                   *)
Load(cookie, bad) == IF bad THEN None ELSE cookie

Start(r) ==
  /\ req[r].phase = "idle"
  /\ req' = [req EXCEPT ![r] = [Idle EXCEPT !.phase = "handler", !.state = Load(jar, forged)]]
  /\ alone' = (alone /\ Busy = {} /\ ~forged)
  /\ UNCHANGED <<jar, forged, done>>

(* Session::set, remove and clear, by the handler.                         *)
Set(r, k) ==
  /\ req[r].phase = "handler" /\ req' = [req EXCEPT ![r].state = @ \cup {k}, ![r].changed = TRUE]
  /\ UNCHANGED <<jar, forged, done, alone>>
Remove(r, k) ==
  /\ req[r].phase = "handler" /\ req' = [req EXCEPT ![r].state = @ \ {k}, ![r].changed = TRUE]
  /\ UNCHANGED <<jar, forged, done, alone>>
Clear(r) ==
  /\ req[r].phase = "handler" /\ req' = [req EXCEPT ![r].state = None, ![r].changed = TRUE]
  /\ UNCHANGED <<jar, forged, done, alone>>

(* The handler answers: write adds a cookie to the answer if the session   *)
(* was changed and is not too large, and says nothing if it is.            *)
WriteAlways(s) == Cardinality(s.state) <= MaxSize
Write(s) == s.changed /\ Cardinality(s.state) <= MaxSize

Respond(r) ==
  /\ req[r].phase = "handler"
  /\ req' = [req EXCEPT ![r].phase = IF Write(req[r]) THEN "cookie" ELSE "plain"]
  /\ done' = req[r].state /\ alone' = (alone /\ (req[r].changed => Write(req[r])))
  /\ UNCHANGED <<jar, forged>>

(* A handler's future fails: the response hooks are not called.            *)
Fail(r) ==
  /\ req[r].phase = "handler" /\ req' = [req EXCEPT ![r].phase = "plain"]
  /\ done' = req[r].state /\ alone' = (alone /\ ~req[r].changed)
  /\ UNCHANGED <<jar, forged>>

(* The answer reaches the client, which keeps its cookie.                  *)
Arrive(r) ==
  /\ req[r].phase \in {"cookie", "plain"} /\ req' = [req EXCEPT ![r] = Idle]
  /\ IF req[r].phase = "cookie" THEN jar' = req[r].state /\ forged' = FALSE
     ELSE UNCHANGED <<jar, forged>>
  /\ UNCHANGED <<done, alone>>

(* The client's cookie is damaged or replaced.                             *)
Damage ==
  /\ ~forged /\ forged' = TRUE /\ jar' \in SUBSET Keys
  /\ UNCHANGED <<req, done, alone>>

Next ==
  \/ \E r \in Reqs : Start(r) \/ Clear(r) \/ Respond(r) \/ Fail(r) \/ Arrive(r)
                     \/ \E k \in Keys : Set(r, k) \/ Remove(r, k)
  \/ Damage

Spec == Init /\ [][Next]_vars

-----------------------------------------------------------------------------
(* The values of the variables.                                            *)
TypeOK ==
  /\ jar \subseteq Keys
  /\ \A r \in Reqs : req[r].state \subseteq Keys
                      /\ req[r].phase = "cookie" => Cardinality(req[r].state) <= MaxSize

(* A request sees the session as the one before it left it, every set,     *)
(* remove and clear included, as long as requests come one at a time, none *)
(* fails or overfills the session after changing it, and the cookie is the *)
(* server's.                                                               *)
SeesTheLast ==
  (alone /\ ~forged /\ Busy = {}) => Load(jar, forged) = done

(* A request that does not change the session takes no part in it: while   *)
(* it is under way, another one's cookie is never overwritten by it.       *)
ReadersLeave ==
  \A r \in Reqs : (req[r].phase # "idle" /\ req'[r].phase = "idle" /\ ~req[r].changed) => jar' = jar
=============================================================================
