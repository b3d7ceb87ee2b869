-------------------------------- MODULE Http2 ---------------------------------
(***************************************************************************)
(* One HTTP/2 connection (server/h2.rs) with the writer of each of its     *)
(* streams (server/h2writer.rs).  The tasks are those of HttpTask, driven  *)
(* through poll_io the way pipeline.rs uses a Writer; the h2 library, the  *)
(* peer and the handlers answer freely.                                    *)
(*                                                                         *)
(* Http2::poll runs from pc = "idle" back to "idle".  Body data is counted *)
(* in units.  The library grants capacity only where some was reserved.    *)
(***************************************************************************)
EXTENDS Integers, Sequences, FiniteSets, FiniteSetsExt

CONSTANTS
  KeepAlive,    \* subset of {"enabled", "timer"}: keep_alive_enabled, keep_alive > 0
  Capacity,     \* write_buffer_capacity of a streaming response, in units
  AsyncFinish,  \* whether a task may go on after its response is written
  Kinds,        \* bodies of the responses: subset of {"empty", "binary", "stream"}
  MaxStreams,   \* bound: requests on the connection
  MaxFaults,    \* bound: tasks that fail, resets by the peer, connection errors
  MaxUnits      \* bound: units in the buffer of a response

ASSUME Http2Assumption ==
  /\ KeepAlive \subseteq {"enabled", "timer"} /\ Kinds \subseteq {"empty", "binary", "stream"}
  /\ Capacity \in Nat /\ MaxStreams \in Nat /\ MaxUnits \in Nat
  /\ AsyncFinish \in BOOLEAN /\ MaxFaults \in Nat

VARIABLES
  state,         \* Http2.state
  disconnected,  \* the flag DISCONNECTED
  tasks,         \* Http2.tasks
  timer,         \* keepalive_timer: "none", "set" or "fired"
  pc, idx, notReady, retry,  \* the place in Http2::poll and its local variables
  accepted,      \* requests accepted so far
  faults,        \* faults so far
  closed         \* "no", "done" (Ready), "failed" (Err) or "shutdown"

locals == <<idx, notReady, retry>>
vars == <<state, disconnected, tasks, timer, pc, locals, accepted, faults, closed>>

H == INSTANCE HttpTask WITH phase <- "work", answer <- "NotReady"

(* Entry and its H2Writer: w are the writer's flags, send the sending side *)
(* of the stream, pay what need_read answers.  RESERVED is not in w: some  *)
(* capacity is reserved whenever the buffer holds data.  REOF is not in    *)
(* flags: it keeps recv from being polled after its end, and nothing more. *)
Entry(n) ==
  [id |-> n, phase |-> "work", flags |-> {}, kind |-> "none", w |-> {}, buf |-> 0,
   paused |-> FALSE, send |-> "none", gone |-> FALSE, pay |-> "Read"]

Fault(occurs) == IF occurs THEN faults < MaxFaults /\ faults' = faults + 1
                 ELSE UNCHANGED faults

Init ==
  /\ state = "handshake" /\ disconnected = FALSE /\ tasks = <<>> /\ timer = "none"
  /\ pc = "idle" /\ idx = 1 /\ notReady = TRUE /\ retry = FALSE
  /\ accepted = 0 /\ faults = 0 /\ closed = "no"

-----------------------------------------------------------------------------
(* H2Writer                                                                *)

(* start: what the writer and the stream become for a body of n units.     *)
Start(e, kind, n) ==
  CASE kind = "empty" ->
         [e EXCEPT !.kind = kind, !.w = {"STARTED", "EOF"}, !.send = "ended"]
    [] kind = "binary" ->
         [e EXCEPT !.kind = kind, !.w = {"STARTED", "EOF"}, !.send = "open",
                   !.buf = n, !.paused = TRUE]
    [] kind = "stream" ->
         [e EXCEPT !.kind = kind, !.w = {"STARTED"}, !.send = "open"]

WriteNoPause(e) == [e EXCEPT !.buf = @ + 1]
Write(e) == [e EXCEPT !.buf = @ + 1, !.paused = e.buf + 1 > Capacity]

(* poll_completed: n units are sent, the end of the stream with the last.  *)
SendEarly(e, n) == [e EXCEPT !.buf = @ - n, !.send = IF "EOF" \in e.w THEN "ended" ELSE @]
Send(e, n) == [e EXCEPT !.buf = @ - n,
                        !.send = IF e.buf = n /\ "EOF" \in e.w THEN "ended" ELSE @]

(* The answers of poll_completed, each with the entry it leaves.           *)
PollCompletedStuck(e) ==
  IF "STARTED" \notin e.w \/ e.send = "none" \/ ~e.gone THEN {<<e, "NotReady">>} ELSE {<<e, "Ready">>}
PollCompleted(e) ==
  IF "STARTED" \notin e.w \/ e.send = "none" THEN {<<e, "NotReady">>}
  ELSE IF e.send = "ended" \/ e.gone
       THEN {<<e, "Ready">>} \cup (IF e.gone THEN {<<e, "Err">>} ELSE {})
       ELSE {<<e, "NotReady">>} \cup {<<Send(e, n), "NotReady">> : n \in 1..e.buf}

-----------------------------------------------------------------------------
(* Http2::poll and the environment                                         *)

TimerFires ==
  /\ timer = "set" /\ pc = "idle" /\ closed = "no" /\ timer' = "fired"
  /\ UNCHANGED <<state, disconnected, tasks, pc, locals, accepted, faults, closed>>

(* The peer resets a stream.                                               *)
PeerResets ==
  /\ Fault(TRUE) /\ pc = "idle" /\ closed = "no"
  /\ \E i \in 1..Len(tasks) :
       ~tasks[i].gone /\ tasks' = [tasks EXCEPT ![i].gone = TRUE]
  /\ UNCHANGED <<state, disconnected, timer, pc, locals, accepted, closed>>

(* HttpChannel::shutdown.                                                  *)
Shutdown ==
  /\ pc = "idle" /\ closed = "no"
  /\ state' = "empty" /\ tasks' = <<>> /\ timer' = "none" /\ closed' = "shutdown"
  /\ UNCHANGED <<disconnected, pc, locals, accepted, faults>>

Return(result) == pc' = "idle" /\ closed' = result /\ idx' = 1 /\ notReady' = TRUE
StartLoop == pc' = "payload" /\ idx' = 1 /\ notReady' = TRUE

PollConnection ==
  /\ pc = "idle" /\ closed = "no" /\ state = "connection"
  /\ IF timer = "fired" THEN Return("done")
                        ELSE StartLoop /\ UNCHANGED closed
  /\ UNCHANGED <<state, disconnected, tasks, timer, retry, accepted, faults>>

PollHandshake ==
  /\ pc = "idle" /\ closed = "no" /\ state = "handshake"
  /\ \/ state' = "connection" /\ StartLoop /\ UNCHANGED closed
     \/ UNCHANGED <<state, pc, idx, notReady, closed>>
     \/ MaxFaults > 0 /\ Return("failed") /\ UNCHANGED state
  /\ UNCHANGED <<disconnected, tasks, timer, retry, accepted, faults>>

-----------------------------------------------------------------------------
(* The entries                                                             *)

Item == tasks[idx]
SetItem(e) == tasks' = [tasks EXCEPT ![idx] = e]

(* Entry::poll_payload, and which of poll_io and poll comes next.          *)
PollPayload ==
  /\ pc = "payload" /\ idx <= Len(tasks)
  /\ \/ UNCHANGED tasks
     \/ Item.pay # "Dropped" /\ \E s \in {"Read", "Pause"} : SetItem([Item EXCEPT !.pay = s])
  /\ retry' = ("EOF" \notin Item.flags /\ tasks'[idx].pay = "Read")
  /\ pc' = IF "EOF" \notin Item.flags THEN "io"
           ELSE IF "FINISHED" \notin Item.flags THEN "task" ELSE "write"
  /\ UNCHANGED <<state, disconnected, timer, idx, notReady, accepted, faults, closed>>

(* What the loop does with the answer of poll_io.  Nobody looks at the     *)
(* payload of a task once its response is over.                            *)
IoReturns(e, answer) ==
  /\ SetItem(IF answer = "NotReady" THEN e
             ELSE [e EXCEPT !.pay = "Dropped", !.gone = @ \/ answer = "Err",
                            !.flags = @ \cup CASE answer = "Ready" -> {"EOF", "FINISHED"}
                                                [] answer = "ReadyFalse" -> {"EOF"}
                                                [] answer = "Err" -> {"EOF", "ERROR", "WRITE_DONE"}])
  /\ notReady' = (notReady /\ answer \notin {"Ready", "ReadyFalse"})
  /\ IF answer = "NotReady" /\ e.pay = "Read" /\ ~retry
     THEN UNCHANGED <<pc, retry>>
     ELSE pc' = "write" /\ retry' = FALSE

InIo == pc = "io" /\ UNCHANGED <<state, disconnected, timer, idx, accepted, closed>>
IoGoesOn(e) == SetItem(e) /\ UNCHANGED <<pc, retry, notReady, faults>>

(* The handler reads the body, or drops it.                                *)
HandlerReads ==
  /\ InIo /\ Item.phase = "work"
  /\ \/ Item.pay = "Pause" /\ IoGoesOn([Item EXCEPT !.pay = "Read"])
     \/ Item.pay # "Dropped" /\ IoGoesOn([Item EXCEPT !.pay = "Dropped"])

HandlerWaits == InIo /\ Item.phase = "work" /\ IoReturns(Item, "NotReady") /\ Fault(FALSE)

(* Where the task goes when its response is over, and what it answers.     *)
Finishes(e) ==
  \E p \in H!Succ(e.phase) \cap {"finish", "done", "fail"}, a \in {"NotReady", "Ready", "ReadyFalse", "Err"} :
     /\ a \in H!IoAnswers(p)
     /\ (p = "finish" \/ e.phase = "finish") => AsyncFinish
     /\ Fault(a = "Err")
     /\ IoReturns([e EXCEPT !.phase = p], a)

(* send_response fails only on a stream that is gone.                      *)
ResponseStarts ==
  /\ InIo /\ Item.phase = "work"
  /\ IF Item.gone
     THEN IoReturns([Item EXCEPT !.phase = "done", !.w = {"STARTED"}], "Err") /\ Fault(FALSE)
     ELSE \E kind \in Kinds, n \in 0..MaxUnits :
            /\ kind # "binary" => n = 0
            /\ IoGoesOn([Start(Item, kind, n) EXCEPT !.phase = "send"])

(* The body yields a unit, or has nothing now.                             *)
BodyYields ==
  /\ InIo /\ Item.phase = "send" /\ Item.kind = "stream" /\ ~Item.paused
  /\ \/ Item.buf < MaxUnits /\ IoGoesOn(Write(Item))
     \/ IoReturns(Item, "NotReady") /\ Fault(FALSE)

(* A paused response waits for poll_completed.                             *)
BodyFlushed ==
  /\ InIo /\ Item.phase = "send" /\ Item.paused
  /\ \E r \in PollCompleted(Item) :
       CASE r[2] = "Ready" -> IoGoesOn([r[1] EXCEPT !.paused = FALSE])
         [] r[2] = "NotReady" -> IoReturns(r[1], "NotReady") /\ Fault(FALSE)
         [] r[2] = "Err" -> IoReturns([r[1] EXCEPT !.phase = "done"], "Err") /\ Fault(FALSE)

(* write_eof, and the task finishes.                                       *)
BodyEnds ==
  /\ InIo /\ Item.phase = "send" /\ ~Item.paused
  /\ Finishes([Item EXCEPT !.w = @ \cup {"EOF"}])

TaskFinishes == InIo /\ Item.phase = "finish" /\ Finishes(Item)

(* A task that failed before the peer took its response.                   *)
TaskFails ==
  /\ InIo /\ Item.phase \in {"work", "send"} /\ Fault(TRUE)
  /\ IoReturns([Item EXCEPT !.phase = "done"], "Err")

(* task.poll once the response is written.                                 *)
PollTask ==
  /\ pc = "task" /\ pc' = "write"
  /\ \E p \in H!Succ(Item.phase), a \in {"NotReady", "Ready", "Err"} :
       /\ a \in H!PollAnswers(p) \cup {"Err"} /\ Fault(a = "Err")
       /\ SetItem([Item EXCEPT !.phase = p,
            !.flags = @ \cup CASE a = "Ready" -> {"FINISHED"} [] a = "NotReady" -> {}
                               [] a = "Err" -> {"ERROR", "WRITE_DONE", "FINISHED"}])
       /\ notReady' = (notReady /\ a # "Ready")
  /\ UNCHANGED <<state, disconnected, timer, idx, retry, accepted, closed>>

PollWriter ==
  /\ pc = "write" /\ pc' = "payload" /\ idx' = idx + 1
  /\ IF "WRITE_DONE" \in Item.flags THEN UNCHANGED <<tasks, notReady>>
     ELSE \E r \in PollCompleted(Item) :
            /\ SetItem([r[1] EXCEPT !.flags = @ \cup
                 CASE r[2] = "Ready" -> {"WRITE_DONE"} [] r[2] = "NotReady" -> {}
                   [] r[2] = "Err" -> {"ERROR"}])
            /\ notReady' = (notReady /\ r[2] # "Ready")
  /\ UNCHANGED <<state, disconnected, timer, retry, accepted, faults, closed>>

-----------------------------------------------------------------------------
(* Cleanup, the next request, keep-alive                                   *)

RemovableEarly(e) == "EOF" \in e.flags \/ "ERROR" \in e.flags
Removable(e) == {"EOF", "WRITE_DONE"} \subseteq e.flags \/ "ERROR" \in e.flags

Cleanup ==
  /\ pc = "payload" /\ idx > Len(tasks)
  /\ LET kept == {i \in 1..Len(tasks) : ~Removable(tasks[i])} IN
       tasks' = IF kept = {} THEN <<>> ELSE SubSeq(tasks, Min(kept), Len(tasks))
  /\ pc' = IF disconnected THEN "tail" ELSE "request"
  /\ UNCHANGED <<state, disconnected, timer, locals, accepted, faults, closed>>

(* conn.poll yields a request.                                             *)
Request ==
  /\ pc = "request" /\ accepted < MaxStreams
  /\ accepted' = accepted + 1 /\ tasks' = Append(tasks, Entry(accepted'))
  /\ timer' = "none" /\ StartLoop
  /\ UNCHANGED <<state, disconnected, retry, faults, closed>>

(* The peer has closed the connection, or it failed.                       *)
Disconnect ==
  /\ pc = "request" /\ disconnected' = TRUE
  /\ \/ StartLoop /\ Fault(FALSE) /\ UNCHANGED timer
     \/ Fault(TRUE) /\ timer' = "none" /\ pc' = "tail" /\ UNCHANGED <<idx, notReady>>
  /\ UNCHANGED <<state, tasks, retry, accepted, closed>>

(* poll_close.                                                             *)
PollClose == \E c \in {"done", "no"} \cup (IF MaxFaults > 0 THEN {"failed"} ELSE {}) : Return(c)

NoRequest ==
  /\ pc = "request"
  /\ IF tasks # <<>> THEN Return("no") /\ UNCHANGED timer
     ELSE IF "enabled" \notin KeepAlive THEN PollClose /\ UNCHANGED timer
     ELSE /\ timer' = IF "timer" \in KeepAlive /\ timer = "none" THEN "set" ELSE timer
          /\ pc' = "tail" /\ UNCHANGED <<idx, notReady, closed>>
  /\ UNCHANGED <<state, disconnected, tasks, retry, accepted, faults>>

LoopForever ==
  /\ pc = "tail"
  /\ IF ~notReady \/ tasks # <<>> THEN StartLoop /\ UNCHANGED closed
     ELSE IF disconnected THEN PollClose ELSE Return("no")
  /\ UNCHANGED <<state, disconnected, tasks, timer, retry, accepted, faults>>
LoopEnds ==
  /\ pc = "tail"
  /\ IF ~notReady THEN StartLoop /\ UNCHANGED closed
     ELSE IF tasks = <<>> /\ disconnected THEN PollClose ELSE Return("no")
  /\ UNCHANGED <<state, disconnected, tasks, timer, retry, accepted, faults>>

-----------------------------------------------------------------------------
Poll == PollConnection \/ PollHandshake

Step == \/ PollPayload \/ HandlerReads \/ HandlerWaits \/ ResponseStarts
        \/ BodyYields \/ BodyFlushed \/ BodyEnds \/ TaskFinishes \/ TaskFails
        \/ PollTask \/ PollWriter \/ Cleanup \/ Request \/ Disconnect
        \/ NoRequest \/ LoopEnds

Next == TimerFires \/ PeerResets \/ Shutdown \/ Poll \/ Step

Spec == Init /\ [][Next]_vars

(* The connection is polled as long as it is open, every poll goes on, and *)
(* the peer grants capacity again and again where some is asked for.       *)
Grant(i) == PollWriter /\ idx = i /\ tasks'[i].buf < tasks[i].buf /\ tasks'[i].buf = 0

Fairness == /\ WF_vars(Poll) /\ WF_vars(Step)
            /\ \A i \in 1..MaxStreams : SF_vars(Grant(i))

FairSpec == Spec /\ Fairness

-----------------------------------------------------------------------------
(* The values of the variables.                                            *)
TypeOK ==
  /\ state \in {"handshake", "connection", "empty"}
  /\ {disconnected, notReady, retry} \subseteq BOOLEAN
  /\ \A i \in 1..Len(tasks) :
       /\ tasks[i].phase \in H!Phases
       /\ tasks[i].flags \subseteq {"EOF", "ERROR", "FINISHED", "WRITE_DONE"}
       /\ tasks[i].w \subseteq {"STARTED", "EOF"}
       /\ tasks[i].kind \in Kinds \cup {"none"} /\ tasks[i].send \in {"none", "open", "ended"}
       /\ tasks[i].pay \in {"Read", "Pause", "Dropped"}
       /\ tasks[i].buf \in 0..MaxUnits
  /\ timer \in {"none", "set", "fired"} /\ closed \in {"no", "done", "failed", "shutdown"}
  /\ pc \in {"idle", "payload", "io", "task", "write", "request", "tail"}
  /\ idx \in 1..Len(tasks) \/ pc \notin {"io", "task", "write"}

(* What the peer sees ended is whole: END_STREAM goes out with the last of *)
(* the data, once the task has written all of it, and the connection never *)
(* ends in order while a request is in flight (the keep-alive timer runs   *)
(* only between requests).                                                 *)
EndedWhole ==
  /\ \A i \in 1..Len(tasks) :
       tasks[i].send = "ended" => "EOF" \in tasks[i].w /\ tasks[i].buf = 0
  /\ closed = "done" => tasks = <<>>

(* An entry leaves the connection only after its response: the stream is   *)
(* ended or gone, or an error gave it up.                                  *)
RemovedAnswered ==
  [][state' # "empty" =>
       \A i \in 1..Len(tasks) :
          \/ \E j \in 1..Len(tasks') : tasks'[j].id = tasks[i].id
          \/ tasks[i].send = "ended" \/ tasks[i].gone \/ "ERROR" \in tasks[i].flags]_vars

(* The fields keep their types, and on a stream the peer has not reset the *)
(* writer holds one chunk more than the capacity of the response at most.  *)
BufferBounded ==
  TypeOK /\ \A i \in 1..Len(tasks) :
     tasks[i].kind = "stream" /\ ~tasks[i].gone => tasks[i].buf <= Capacity + 1

(* poll_io is called again as long as the task waits and its payload, full *)
(* when the loop began, has room.                                          *)
Spinning == pc = "io" /\ ~retry /\ Item.pay = "Read"

(* Http2::poll returns, unless it spins on a task that drained a full      *)
(* payload.                                                                *)
PollReturns == []<>(pc = "idle" \/ Spinning)

Owed(n) == \E i \in 1..Len(tasks) :
             /\ tasks[i].id = n /\ tasks[i].send = "open" /\ ~tasks[i].gone
             /\ "EOF" \in tasks[i].w /\ tasks[i].buf > 0

(* A response that is complete while some of it is still buffered is sent  *)
(* to its end.                                                             *)
BufferedEnds == \A n \in 1..MaxStreams : Owed(n) ~> (~Owed(n) \/ Spinning \/ closed # "no")
=============================================================================
