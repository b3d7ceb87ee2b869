-------------------------------- MODULE Http1 ---------------------------------
(***************************************************************************)
(* One HTTP/1 connection (server/h1.rs) with its writer (server/h1writer): *)
(* parsing pipelined requests, polling their tasks, writing the responses  *)
(* in order, keep-alive and shutdown.  The tasks are those of HttpTask.    *)
(*                                                                         *)
(* Http1::poll runs from pc = "idle" back to "idle"; every call of user    *)
(* code and of the socket in between is one step.  The peer, the socket    *)
(* and the handlers answer freely.  A response is a head, some chunks and  *)
(* an end; buffer holds the pieces not yet written, wire those that are.   *)
(***************************************************************************)
EXTENDS Integers, Sequences, FiniteSetsExt

CONSTANTS
  MaxPipelined,    \* MAX_PIPELINED_MESSAGES
  StreamCapacity,  \* write_buffer_capacity of a streaming response, in pieces
  KeepAlive,       \* subset of {"enabled", "timer"}: ka_enabled, keep_alive > 0
  ParseErrors,     \* subset of {"Disconnect", "Payload", "Error"}
  Bodies,          \* BOOLEAN or {FALSE}: may a request have a body
  AsyncFinish,     \* whether a task may go on after its response is written
  MayFail,         \* whether tasks and the socket may fail
  MaxRequests,     \* bound: requests on the connection
  MaxChunks        \* bound: chunks of a response

ASSUME Http1Assumption ==
  /\ MaxPipelined \in Nat \ {0} /\ StreamCapacity \in Nat
  /\ MaxRequests \in Nat /\ MaxChunks \in Nat
  /\ KeepAlive \subseteq {"enabled", "timer"}
  /\ ParseErrors \subseteq {"Disconnect", "Payload", "Error"}
  /\ Bodies \subseteq BOOLEAN /\ AsyncFinish \in BOOLEAN /\ MayFail \in BOOLEAN

VARIABLES
  flags,      \* Http1.flags
  tasks,      \* Http1.tasks
  timer,      \* keepalive_timer: "none", "set" or "fired"
  payload,    \* Reader.payload: its request and the status of need_read
  wflags,     \* H1Writer.flags
  buffer,     \* H1Writer.buffer
  capacity,   \* H1Writer.buffer_capacity
  wire,       \* what the socket has taken
  pc,         \* the next step of Http1::poll
  needRead, retry, io, idx,  \* local variables of poll_io
  requests,   \* requests parsed so far
  lastKeep,   \* history: did the response written last allow keep-alive
  discarded,  \* history: H1Writer::disconnected threw buffered pieces away
  late,       \* history: a task answered Ready again, after its response
  closed      \* "no", "done" (poll returned Ready) or "failed" (Err)

locals == <<needRead, retry, io, idx>>
writer == <<wflags, buffer, capacity, wire>>
hist == <<requests, lastKeep, discarded, late, closed>>
vars == <<flags, tasks, timer, payload, writer, pc, locals, hist>>

H == INSTANCE HttpTask WITH phase <- "work", answer <- "NotReady"

NoPayload == [id |-> 0, status |-> "Read"]

(* Entry: its flags, the phase of its task and what the task has written.  *)
Entry(n, p, keep) == [id |-> n, phase |-> p, flags |-> {}, keep |-> keep,
                      out |-> "none", chunks |-> 0]

Init ==
  /\ flags = {"KEEPALIVE"} /\ tasks = <<>> /\ timer = "none" /\ payload = NoPayload
  /\ wflags = {} /\ buffer = <<>> /\ capacity = 0 /\ wire = <<>>
  /\ pc = "idle" /\ needRead = FALSE /\ retry = FALSE /\ io = FALSE /\ idx = 1
  /\ requests = 0 /\ lastKeep = TRUE /\ discarded = FALSE /\ late = FALSE /\ closed = "no"

-----------------------------------------------------------------------------
(* Http1::poll                                                             *)

TimerFires ==
  /\ timer = "set" /\ pc = "idle" /\ closed = "no" /\ timer' = "fired"
  /\ UNCHANGED <<flags, tasks, payload, writer, pc, locals, hist>>

Poll ==
  /\ pc = "idle" /\ closed = "no"
  /\ flags' = IF timer = "fired" THEN flags \cup {"SHUTDOWN"} ELSE flags
  /\ pc' = IF "SHUTDOWN" \in flags' THEN "shutdown" ELSE "io"
  /\ UNCHANGED <<tasks, timer, payload, writer, locals, hist>>

(* H1Writer::poll_completed: n pieces go out; it is not ready while more   *)
(* than buffer_capacity is left.                                           *)
Flushed(n) == /\ wire' = wire \o SubSeq(buffer, 1, n)
              /\ buffer' = SubSeq(buffer, n + 1, Len(buffer))

Full == Len(buffer') > capacity

Stop(c) == pc' = "idle" /\ closed' = c

(* poll_completed(true) on the way out.                                    *)
FlushAndClose(result) ==
  /\ \/ /\ \E n \in 0..Len(buffer) : Flushed(n)
        /\ IF Full THEN pc' = "idle" /\ UNCHANGED closed ELSE Stop(result)
     \/ /\ MayFail /\ Stop("failed")
        /\ UNCHANGED <<buffer, wire>>
  /\ UNCHANGED <<wflags, capacity, requests, lastKeep, discarded, late>>

Shutdown ==
  /\ pc = "shutdown"
  /\ FlushAndClose("done")
  /\ UNCHANGED <<flags, tasks, timer, payload, locals>>

-----------------------------------------------------------------------------
(* poll_io: reading                                                        *)

ToTasks == pc' = "tasks" /\ idx' = 1 /\ io' = FALSE

PollIo ==
  /\ pc = "io"
  /\ needRead' = ("ERROR" \in flags \/ Len(tasks) >= MaxPipelined)
  /\ pc' = IF needRead' THEN "retry" ELSE "parse"
  /\ UNCHANGED <<flags, tasks, timer, payload, writer, retry, io, idx, hist>>

(* Reader::parse returns a request, perhaps with a body to follow; the     *)
(* loop goes round without looking at MAX_PIPELINED_MESSAGES again.        *)
ParseRequest ==
  /\ pc = "parse" /\ payload = NoPayload /\ requests < MaxRequests
  /\ requests' = requests + 1
  /\ flags' = flags \cup {"STARTED"}
  /\ timer' = "none"
  /\ \E keep \in BOOLEAN, b \in Bodies, s \in {"Read", "Pause"} :
       /\ tasks' = Append(tasks, Entry(requests', "work", keep))
       /\ payload' = IF b THEN [id |-> requests', status |-> s] ELSE NoPayload
  /\ UNCHANGED <<writer, pc, locals, lastKeep, discarded, late, closed>>

(* The body goes on: it ends, fills up, or waits for the peer.             *)
ParseBody ==
  /\ pc = "parse" /\ payload # NoPayload /\ payload.status = "Read"
  /\ \/ payload' = NoPayload /\ UNCHANGED pc
     \/ \E s \in {"Read", "Pause"} :
          payload' = [payload EXCEPT !.status = s] /\ pc' = "retry"
  /\ UNCHANGED <<flags, tasks, timer, writer, locals, hist>>

ParseNotReady ==
  /\ pc = "parse" /\ (payload = NoPayload \/ payload.status = "Pause")
  /\ pc' = "retry"
  /\ UNCHANGED <<flags, tasks, timer, payload, writer, locals, hist>>

WriterDisconnected == buffer' = <<>> /\ discarded' = (discarded \/ buffer # <<>>)

ParseError ==
  /\ pc = "parse"
  /\ \E e \in ParseErrors \cup {"PayloadDropped"} :
       /\ e = "PayloadDropped" <=> payload.status = "Dropped"
       /\ e = "Payload" => payload # NoPayload /\ payload.status = "Read"
       /\ e \in {"Disconnect", "Error"} => payload = NoPayload
       /\ tasks' = IF e = "Error" /\ tasks = <<>>
                   THEN <<Entry(requests + 1, "send", FALSE)>> ELSE tasks
       /\ requests' = requests + (Len(tasks') - Len(tasks))
  /\ WriterDisconnected
  /\ flags' = (flags \ {"KEEPALIVE"}) \cup {"ERROR"}
  /\ timer' = "none"
  /\ pc' = "retry"
  /\ UNCHANGED <<payload, wflags, capacity, wire, locals, lastKeep, late, closed>>

Retry ==
  /\ pc = "retry"
  /\ retry' = (payload.status = "Read")
  /\ ToTasks
  /\ UNCHANGED <<flags, tasks, timer, payload, writer, needRead, hist>>

-----------------------------------------------------------------------------
(* poll_io: the tasks in flight                                            *)

Item == tasks[idx]
InTasks == pc = "tasks" /\ idx <= Len(tasks)
DoesIo == ~io /\ "EOF" \notin Item.flags

(* While the handler of a request runs it may read its body or drop it.    *)
HandlerReads ==
  payload' \in {payload} \cup
    IF payload.id # Item.id \/ payload.status = "Dropped" THEN {}
    ELSE {[payload EXCEPT !.status = s] : s \in {"Read", "Dropped"}}

(* The pieces task e adds: the head with H1Writer::start, k chunks, the    *)
(* end.  A chunk goes through the encoder only while the writer's STARTED  *)
(* flag is up; otherwise its bytes are appended as they are.               *)
Pieces(e, k, eof) ==
  (IF e.out = "none" THEN <<[id |-> e.id, part |-> "head", framed |-> TRUE]>> ELSE <<>>)
  \o [i \in 1..k |-> [id |-> e.id, part |-> "chunk",
                      framed |-> e.out = "none" \/ "STARTED" \in wflags]]
  \o (IF eof THEN <<[id |-> e.id, part |-> "eof", framed |-> TRUE]>> ELSE <<>>)

(* H1Writer::start                                                         *)
WriterFlags(e) == IF e.out # "none" THEN wflags
                  ELSE wflags \cup {"STARTED"} \cup (IF e.keep THEN {"KEEPALIVE"} ELSE {})

(* A response with a body in memory is buffered whole; a streaming one     *)
(* sets the capacity, and may be flushed on the way.                       *)
Binary(e) ==
  /\ e.out = "none" /\ UNCHANGED <<capacity, wire>>
  /\ buffer' = buffer \o Pieces(e, 0, TRUE)

Streaming(e, k, eof) ==
  /\ capacity' = StreamCapacity
  /\ LET all == buffer \o Pieces(e, k, eof) IN
     \E n \in 0..Len(all) : /\ wire' = wire \o SubSeq(all, 1, n)
                            /\ buffer' = SubSeq(all, n + 1, Len(all))

SetItem(e) == tasks' = [tasks EXCEPT ![idx] = e]

NextItem == idx' = idx + 1 /\ UNCHANGED <<pc, io>>

(* No more IO in this iteration.                                           *)
LeaveIo == UNCHANGED io
BlockIo == io' = TRUE

(* poll_io of the task answers NotReady.                                   *)
TaskWaits ==
  /\ InTasks /\ DoesIo /\ "ERROR" \notin Item.flags
  /\ HandlerReads
  /\ \/ /\ Item.phase \in {"work", "finish"}
        /\ UNCHANGED <<tasks, writer>>
     \/ /\ Item.phase \in {"work", "send"}
        /\ \E k \in 0..MaxChunks - Item.chunks :
             /\ Streaming(Item, k, FALSE)
             /\ wflags' = WriterFlags(Item)
             /\ SetItem([Item EXCEPT !.phase = "send", !.out = "head", !.chunks = @ + k])
  /\ IF payload'.status = "Read" /\ ~retry
     THEN pc' = "io" /\ UNCHANGED <<idx, io>>
     ELSE idx' = idx + 1 /\ BlockIo /\ UNCHANGED pc
  /\ UNCHANGED <<flags, timer, needRead, retry, hist>>

(* poll_io of the task answers Ready: keep-alive is taken over from the    *)
(* writer, and the writer is reset.                                        *)
Override(keep) == flags' = (flags \ {"KEEPALIVE"}) \cup (IF keep THEN {"KEEPALIVE"} ELSE {})

WriterReset == wflags' = {}

EntryDone(a) == IF a = "Ready" THEN {"EOF", "FINISHED"} ELSE {"FINISHED"}

TaskReady ==
  /\ InTasks /\ DoesIo /\ "ERROR" \notin Item.flags
  /\ HandlerReads
  /\ \/ /\ Item.phase = "finish"
        /\ Override("KEEPALIVE" \in wflags)
        /\ SetItem([Item EXCEPT !.phase = "done", !.flags = @ \cup EntryDone("Ready")])
        /\ late' = TRUE
        /\ UNCHANGED <<buffer, capacity, wire, lastKeep>>
     \/ /\ Item.phase \in {"work", "send"}
        /\ \/ Binary(Item)
           \/ \E k \in 0..MaxChunks - Item.chunks : Streaming(Item, k, TRUE)
        /\ Override("KEEPALIVE" \in WriterFlags(Item))
        /\ \E p \in {"done"} \cup (IF AsyncFinish THEN {"finish"} ELSE {}) :
             SetItem([Item EXCEPT !.phase = p, !.out = "eof", !.flags = @ \cup
                        EntryDone(IF p = "done" THEN "Ready" ELSE "ReadyFalse")])
        /\ lastKeep' = Item.keep /\ UNCHANGED late
  /\ WriterReset
  /\ NextItem
  /\ UNCHANGED <<timer, needRead, retry, requests, discarded, closed>>

(* poll_io of the task answers Err: what is buffered is sent, and the      *)
(* connection given up.  (What it wrote before failing counts as written   *)
(* in an earlier poll.)                                                    *)
TaskFails ==
  /\ InTasks /\ DoesIo /\ "ERROR" \notin Item.flags /\ MayFail
  /\ HandlerReads
  /\ \E p \in IF Item.phase = "finish" THEN {"fail"}
              ELSE {"done"} \cup (IF AsyncFinish THEN {"finish"} ELSE {}) :
       SetItem([Item EXCEPT !.flags = @ \cup {"ERROR"}, !.phase = p])
  /\ FlushAndClose("failed")
  /\ UNCHANGED <<flags, timer, locals>>

TaskCorrupted ==
  /\ InTasks /\ DoesIo /\ "ERROR" \in Item.flags
  /\ FlushAndClose("failed")
  /\ UNCHANGED <<flags, tasks, timer, payload, locals>>

(* A task behind one that still has IO to do is polled without the writer: *)
(* it may get as far as having a response to write, or, if it failed       *)
(* before, finish.                                                         *)
PollFlags(p) == IF "Ready" \in H!PollAnswers(p) THEN {"FINISHED"} ELSE {}

TaskPolled ==
  /\ InTasks /\ ~DoesIo /\ "FINISHED" \notin Item.flags
  /\ HandlerReads
  /\ \E p \in H!Succ(Item.phase) :
       /\ Item.phase = "send" => p = "send"
       /\ SetItem([Item EXCEPT !.phase = p, !.flags = @ \cup PollFlags(p)])
  /\ NextItem
  /\ UNCHANGED <<flags, timer, writer, needRead, retry, hist>>

TaskSkipped ==
  /\ InTasks /\ ~DoesIo /\ "FINISHED" \in Item.flags
  /\ NextItem
  /\ UNCHANGED <<flags, tasks, timer, payload, writer, needRead, retry, hist>>

-----------------------------------------------------------------------------
(* poll_io: cleanup, flush and keep-alive                                  *)

Finished(e) == {"EOF", "FINISHED"} \subseteq e.flags

(* The entries left once the finished ones in front are popped.            *)
Unfinished ==
  LET kept == {i \in 1..Len(tasks) : ~Finished(tasks[i])}
  IN  IF kept = {} THEN <<>> ELSE SubSeq(tasks, Min(kept), Len(tasks))

Cleanup ==
  /\ pc = "tasks" /\ idx > Len(tasks)
  /\ tasks' = Unfinished
  /\ payload' = IF payload # NoPayload /\ \A i \in 1..Len(tasks') : tasks'[i].id # payload.id
                THEN [payload EXCEPT !.status = "Dropped"] ELSE payload
  /\ pc' = IF needRead /\ tasks' # tasks THEN "io" ELSE "flush"
  /\ UNCHANGED <<flags, timer, writer, locals, hist>>

Flush ==
  /\ pc = "flush" /\ "STARTED" \in flags
  /\ \/ /\ \E n \in 0..Len(buffer) : Flushed(n)
        /\ pc' = IF Full THEN "idle" ELSE "keepalive"
        /\ UNCHANGED closed
     \/ MayFail /\ Stop("failed") /\ UNCHANGED <<buffer, wire>>
  /\ UNCHANGED <<flags, tasks, timer, payload, wflags, capacity, locals, requests,
                 lastKeep, discarded, late>>

NotStarted ==
  /\ pc = "flush" /\ "STARTED" \notin flags /\ pc' = "keepalive"
  /\ UNCHANGED <<flags, tasks, timer, payload, writer, locals, hist>>

MustClose == \/ "ERROR" \in flags
             \/ /\ "KEEPALIVE" \notin flags \/ "enabled" \notin KeepAlive
                /\ "STARTED" \in flags

CloseBusy == pc = "keepalive" /\ MustClose
CloseIdle == pc = "keepalive" /\ tasks = <<>> /\ MustClose

KeepAliveClose ==
  /\ CloseIdle
  /\ flags' = flags \cup {"SHUTDOWN"} /\ pc' = "shutdown"
  /\ UNCHANGED <<tasks, timer, payload, writer, locals, hist>>

KeepAliveStart ==
  /\ pc = "keepalive" /\ ~CloseIdle
  /\ timer' = IF tasks = <<>> /\ timer = "none" /\ "timer" \in KeepAlive
              THEN "set" ELSE timer
  /\ pc' = "idle"
  /\ UNCHANGED <<flags, tasks, payload, writer, locals, hist>>

-----------------------------------------------------------------------------
Step == \/ Shutdown \/ PollIo \/ ParseRequest \/ ParseBody \/ ParseNotReady
        \/ ParseError \/ Retry \/ TaskWaits \/ TaskReady \/ TaskFails
        \/ TaskCorrupted \/ TaskPolled \/ TaskSkipped \/ Cleanup \/ Flush
        \/ NotStarted \/ KeepAliveClose \/ KeepAliveStart

Next == TimerFires \/ Poll \/ Step

Spec == Init /\ [][Next]_vars

-----------------------------------------------------------------------------
(* The values of the variables.                                            *)
TypeOK ==
  /\ flags \subseteq {"STARTED", "ERROR", "KEEPALIVE", "SHUTDOWN"}
  /\ \A i \in 1..Len(tasks) :
       /\ tasks[i].phase \in H!Phases /\ tasks[i].out \in {"none", "head", "eof"}
       /\ tasks[i].flags \subseteq {"EOF", "ERROR", "FINISHED"}
       /\ tasks[i].chunks \in 0..MaxChunks
  /\ timer \in {"none", "set", "fired"}
  /\ payload.status \in {"Read", "Pause", "Dropped"}
  /\ wflags \subseteq {"STARTED", "KEEPALIVE"}
  /\ capacity \in {0, StreamCapacity}
  /\ pc \in {"idle", "io", "parse", "retry", "tasks", "flush", "keepalive", "shutdown"}
  /\ {needRead, retry, io, lastKeep, discarded, late} \subseteq BOOLEAN
  /\ idx \in 1..Len(tasks) + 1 \/ pc # "tasks"
  /\ closed \in {"no", "done", "failed"}

Out == wire \o buffer

(* Responses leave in the order of the requests, each as one head, its     *)
(* chunks through the encoder, and its end, never interleaved, unless      *)
(* buffered data was thrown away: the writer is reset for the next         *)
(* response, never during one.                                             *)
Framed ==
  ~discarded => \A i \in 1..Len(Out) :
     /\ Out[i].framed
     /\ IF i = 1 \/ Out[i - 1].part = "eof"
        THEN Out[i].part = "head" /\ (i > 1 => Out[i].id = Out[i - 1].id + 1)
        ELSE Out[i].part # "head" /\ Out[i].id = Out[i - 1].id

(* The same, as long as every task is done when its response is.           *)
WellFramed == ~late => Framed

(* When the connection has shut down in order, every request it parsed has *)
(* its whole response written, except for at most buffer_capacity that is  *)
(* still in the buffer: poll_completed counts that much as flushed.        *)
Delivered ==
  (closed = "done" /\ ~discarded) =>
     /\ Len(buffer) <= capacity
     /\ \A r \in 1..requests :
          \E i \in 1..Len(Out) : Out[i].id = r /\ Out[i].part = "eof"

(* The connection shuts down only when no request is in progress, neither  *)
(* by the keep-alive timer nor by a response that forbids keep-alive; and  *)
(* with keep-alive on it has a reason: an error, the timer, or such a      *)
(* response, as long as every task is done when its response is.           *)
ClosedForReason ==
  "SHUTDOWN" \in flags =>
     /\ tasks = <<>>
     /\ ("enabled" \in KeepAlive /\ ~late) => "ERROR" \in flags \/ timer = "fired" \/ ~lastKeep

(* A connection keeps its types and ends in order: with nothing in         *)
(* progress, for a reason, and with every response written (Http1::poll    *)
(* and H1Writer::poll_completed).                                          *)
ClosesInOrder == TypeOK /\ ClosedForReason /\ Delivered
=============================================================================
