------------------------------- MODULE Payload --------------------------------
(***************************************************************************)
(* A request body on its way from the socket to the handler: the buffer    *)
(* between the two (payload.rs), the loop of Reader::parse that fills it,  *)
(* and the part of Http1::poll_io that runs both sides (h1.rs).            *)
(*                                                                         *)
(* The connection and the reader are futures.  A future runs only when its *)
(* task has been notified (it is in wake).  The handler that reads the     *)
(* body usually runs inside the connection's task "conn"; when it has      *)
(* handed the stream to another one, it runs in the task "other".          *)
(*                                                                         *)
(* The body consists of units 0, 1, 2, ...  A chunk is the interval        *)
(* [lo, hi) of the units it holds.  With chunked encoding one more unit,   *)
(* the terminating chunk, follows and carries no data.                     *)
(***************************************************************************)
EXTENDS Integers, Sequences

CONSTANTS
  Totals,      \* lengths a body may have
  Kinds,       \* subset of {"length", "chunked"}: the decoders
  Owners,      \* subset of {"conn", "other"}: tasks the reader may run in
  Capacity,    \* Inner.capacity
  ReadMax,     \* units read_from_io takes at most
  MaxUnread,   \* bound: calls of unread_data
  MaxWaits,    \* bound: times the handler waits for something else
  MayClose     \* whether the peer may close before the body is complete

VARIABLES
  items, len, eof, err, needRead,  \* Inner
  task,        \* Inner.task: the task to notify of data, or "none"
  ioTask,      \* Inner.io_task is Some(_): it is always the connection's
  total, kind, \* the body announced by the request
  left,        \* units the decoder still expects, the terminator included
  payload,     \* Reader.payload is Some(_)
  error,       \* Flags::ERROR
  pc,          \* what runs: "idle", "parse", "read", "tasks" or "handler"
  cur,         \* the task that runs
  retry,       \* local variable of poll_io
  wake,        \* the tasks that have been notified
  sock, unsent, closed,  \* units readable, units to come, end of stream
  interest,    \* a read returned WouldBlock: the socket will notify "conn"
  reader,      \* the handler's side of the stream
  owner,       \* the task the reader runs in
  pos,         \* units the handler has taken, less those it put back
  last,        \* the chunk the handler took last and may put back
  budget       \* what is left of the bounds

inner == <<items, len, eof, err, needRead, task, ioTask>>
conn == <<left, payload, error>>
socket == <<sock, unsent, closed, interest>>
hand == <<reader, pos, last, budget>>
body == <<total, kind, owner>>
vars == <<inner, conn, socket, hand, body, pc, cur, retry, wake>>

MinOf(a, b) == IF a < b THEN a ELSE b
Size(c) == c.hi - c.lo
NoChunk == [lo |-> 0, hi |-> 0]

(* Units of data still to be fed.                                          *)
DataLeft == IF kind = "chunked" /\ left > 0 THEN left - 1 ELSE left

Init ==
  /\ total \in Totals /\ kind \in Kinds /\ owner \in Owners
  /\ left = total + (IF kind = "chunked" THEN 1 ELSE 0)
  /\ items = <<>> /\ len = 0 /\ eof = FALSE /\ err = FALSE /\ needRead = TRUE
  /\ task = "none" /\ ioTask = FALSE
  /\ payload = TRUE /\ error = FALSE
  /\ pc = "idle" /\ cur = "conn" /\ retry = FALSE /\ wake = {"conn", "other"}
  /\ sock = 0 /\ unsent = left /\ closed = FALSE /\ interest = FALSE
  /\ reader = "ready" /\ pos = 0 /\ last = NoChunk
  /\ budget = [unread |-> MaxUnread, waits |-> MaxWaits]

-----------------------------------------------------------------------------
(* The peer.                                                               *)

SocketReady == /\ interest' = FALSE
               /\ wake' = IF interest THEN wake \cup {"conn"} ELSE wake

Send ==
  /\ unsent > 0 /\ ~closed
  /\ \E n \in 1..unsent : unsent' = unsent - n /\ sock' = sock + n
  /\ SocketReady
  /\ UNCHANGED <<inner, conn, hand, body, pc, cur, retry, closed>>

Close ==
  /\ ~closed /\ (MayClose \/ unsent = 0)
  /\ closed' = TRUE /\ unsent' = 0
  /\ SocketReady
  /\ UNCHANGED <<inner, conn, hand, body, pc, cur, retry, sock>>

-----------------------------------------------------------------------------
(* PayloadSender::need_read.  A paused connection leaves its task behind.  *)
Status == IF reader = "dropped" THEN "Dropped"
          ELSE IF needRead THEN "Read" ELSE "Pause"

ReaderStatus == IF payload THEN Status ELSE "Read"

RegisterIo == ioTask' = (ioTask \/ ReaderStatus = "Pause")

(* Inner::feed_data, without effect once the other side is gone.           *)
FeedNoNotify(n) ==
  IF n = 0 \/ reader = "dropped" THEN UNCHANGED <<items, len, needRead, task, wake>>
  ELSE /\ items' = Append(items, [lo |-> total - DataLeft, hi |-> total - DataLeft + n])
       /\ len' = len + n
       /\ needRead' = (len' < Capacity)
       /\ UNCHANGED <<task, wake>>

FeedData(n) ==
  IF n = 0 \/ reader = "dropped" THEN UNCHANGED <<items, len, needRead, task, wake>>
  ELSE /\ items' = Append(items, [lo |-> total - DataLeft, hi |-> total - DataLeft + n])
       /\ len' = len + n
       /\ needRead' = (len' < Capacity)
       /\ task' = "none"
       /\ wake' = wake \cup ({task} \ {"none"})

ConnPoll ==
  /\ pc = "idle" /\ "conn" \in wake
  /\ wake' = wake \ {"conn"} /\ pc' = "parse" /\ cur' = "conn"
  /\ UNCHANGED <<inner, conn, socket, hand, body, retry>>

(* Reader::parse up to the read.  Without a body it waits for the next     *)
(* message.                                                                *)
Parse ==
  /\ pc = "parse"
  /\ \/ /\ error /\ pc' = "tasks" /\ UNCHANGED <<ioTask, error, interest>>
     \/ /\ ~error /\ ~payload /\ pc' = "tasks"
        /\ error' = closed /\ interest' = ~closed
        /\ UNCHANGED ioTask
     \/ /\ ~error /\ payload /\ RegisterIo
        /\ pc' = IF Status = "Read" THEN "read" ELSE "tasks"
        /\ error' = (Status = "Dropped")
        /\ UNCHANGED interest
  /\ UNCHANGED <<items, len, eof, err, needRead, task, left, payload, sock, unsent,
                 closed, hand, body, cur, retry, wake>>

(* The loop of parse: read, decode everything, feed it, read again.        *)
Complete == payload' = FALSE /\ pc' = "parse" /\ eof' = TRUE

ReadSome ==
  /\ pc = "read" /\ sock > 0
  /\ \E n \in 1..MinOf(ReadMax, sock) :
       /\ sock' = sock - n /\ left' = left - n
       /\ FeedData(MinOf(n, DataLeft))
       /\ IF left' = 0 THEN Complete ELSE UNCHANGED <<eof, payload, pc>>
  /\ UNCHANGED <<err, ioTask, error, unsent, closed, interest, hand, body, cur, retry>>

ReadWouldBlock ==
  /\ pc = "read" /\ sock = 0 /\ ~closed
  /\ interest' = TRUE
  /\ IF left = 0 THEN Complete ELSE pc' = "tasks" /\ UNCHANGED <<eof, payload>>
  /\ UNCHANGED <<items, len, err, needRead, task, ioTask, left, error, sock, unsent,
                 closed, hand, body, cur, retry, wake>>

ReadClosed ==
  /\ pc = "read" /\ sock = 0 /\ closed
  /\ err' = TRUE /\ error' = TRUE /\ pc' = "tasks"
  /\ UNCHANGED <<items, len, eof, needRead, task, ioTask, left, payload, socket, hand,
                 body, cur, retry, wake>>

(* poll_io then polls the handler.  When the handler made room that was    *)
(* not there before, poll_io starts over.                                  *)
Tasks ==
  /\ pc = "tasks"
  /\ retry' = (ReaderStatus = "Read") /\ RegisterIo
  /\ pc' = "handler"
  /\ reader' = IF owner = "conn" /\ reader = "parked" THEN "ready" ELSE reader
  /\ UNCHANGED <<items, len, eof, err, needRead, task, conn, socket, pos, last, budget,
                 body, cur, wake>>

OtherPoll ==
  /\ pc = "idle" /\ owner = "other" /\ "other" \in wake
  /\ wake' = wake \ {"other"} /\ pc' = "handler" /\ cur' = "other"
  /\ reader' = IF reader = "parked" THEN "ready" ELSE reader
  /\ UNCHANGED <<inner, conn, socket, pos, last, budget, body, retry>>

Running == pc = "handler" /\ cur = owner /\ reader = "ready"

Restart == pc' = IF cur = "conn" /\ ReaderStatus = "Read" /\ ~retry
                 THEN "parse" ELSE "idle"

HandlerReturns ==
  /\ pc = "handler" /\ ~Running
  /\ Restart
  /\ IF cur = "conn" THEN RegisterIo ELSE UNCHANGED ioTask
  /\ UNCHANGED <<items, len, eof, err, needRead, task, conn, socket, hand, body, cur,
                 retry, wake>>

-----------------------------------------------------------------------------
(* The handler.                                                            *)

NotifyIo == /\ ioTask' = FALSE
            /\ wake' = IF ioTask THEN wake \cup {"conn"} ELSE wake

(* Inner::readany: a chunk, the error, the end, or nothing yet.            *)
ReadChunk ==
  /\ items # <<>>
  /\ items' = Tail(items)
  /\ len' = len - Size(Head(items))
  /\ needRead' = (len' < Capacity)
  /\ task' = IF needRead' /\ task = "none" THEN cur ELSE task
  /\ NotifyIo
  /\ pos' = Head(items).hi /\ last' = Head(items)
  /\ UNCHANGED <<err, reader>>

ReadNothing ==
  /\ items = <<>> /\ ~err /\ ~eof
  /\ needRead' = TRUE /\ reader' = "parked"
  /\ task' = IF task = "none" THEN cur ELSE task
  /\ NotifyIo
  /\ UNCHANGED <<items, len, err, pos, last>>

ReadError ==
  /\ items = <<>> /\ err /\ err' = FALSE /\ reader' = "failed"
  /\ UNCHANGED <<items, len, needRead, task, ioTask, wake, pos, last>>

ReadEof ==
  /\ items = <<>> /\ ~err /\ eof /\ reader' = "end"
  /\ UNCHANGED <<items, len, err, needRead, task, ioTask, wake, pos, last>>

ReadAny ==
  /\ Running
  /\ ReadChunk \/ ReadError \/ ReadEof \/ ReadNothing
  /\ UNCHANGED <<eof, conn, socket, budget, body, pc, cur, retry>>

(* Payload::unread_data puts back the end of the chunk read last.          *)
PushFront(c) == items' = <<c>> \o items /\ len' = len + Size(c)

UnreadData ==
  /\ Running /\ budget.unread > 0
  /\ \E k \in last.lo..last.hi - 1 :
       PushFront([lo |-> k, hi |-> last.hi]) /\ pos' = k
  /\ last' = NoChunk
  /\ budget' = [budget EXCEPT !.unread = @ - 1]
  /\ UNCHANGED <<eof, err, needRead, task, ioTask, conn, socket, reader, body, pc, cur,
                 retry, wake>>

(* The handler waits for something else, and goes on when it happens.      *)
Wait ==
  /\ Running /\ budget.waits > 0
  /\ reader' = "busy" /\ budget' = [budget EXCEPT !.waits = @ - 1]
  /\ UNCHANGED <<inner, conn, socket, pos, last, body, pc, cur, retry, wake>>

Resume ==
  /\ pc = "idle" /\ reader = "busy"
  /\ reader' = "ready" /\ wake' = wake \cup {owner}
  /\ UNCHANGED <<inner, conn, socket, pos, last, budget, body, pc, cur, retry>>

(* The handler drops the stream, and Inner with it.                        *)
Drop ==
  /\ Running
  /\ reader' = "dropped" /\ items' = <<>> /\ len' = 0 /\ task' = "none"
  /\ ioTask' = FALSE /\ eof' = FALSE /\ err' = FALSE /\ last' = NoChunk
  /\ UNCHANGED <<needRead, conn, socket, pos, budget, body, pc, cur, retry, wake>>

-----------------------------------------------------------------------------
Connection == \/ ConnPoll \/ Parse \/ ReadSome \/ ReadWouldBlock \/ ReadClosed
              \/ Tasks \/ HandlerReturns
Handler == OtherPoll \/ ReadAny \/ UnreadData \/ Wait \/ Resume \/ Drop
Next == Send \/ Close \/ Connection \/ Handler

Spec == Init /\ [][Next]_vars

(* The event loop runs every notified task, the peer goes on sending until *)
(* it closes, and what the handler waits for happens.                      *)
FairSpec == Spec /\ WF_vars(Connection) /\ WF_vars(OtherPoll) /\ WF_vars(ReadAny)
                 /\ WF_vars(Resume) /\ WF_vars(Send \/ Close)

-----------------------------------------------------------------------------
(* The values of the variables.                                            *)
TypeOK ==
  /\ total \in Nat /\ kind \in {"length", "chunked"} /\ owner \in {"conn", "other"}
  /\ items \in Seq([lo: Nat, hi: Nat]) /\ len \in Nat
  /\ {eof, err, needRead, ioTask, payload, error, retry, closed, interest} \subseteq BOOLEAN
  /\ task \in {"none", "conn", "other"} /\ cur \in {"conn", "other"}
  /\ wake \subseteq {"conn", "other"}
  /\ left \in Nat /\ sock \in Nat /\ unsent \in Nat /\ pos \in Nat
  /\ pc \in {"idle", "parse", "read", "tasks", "handler"}
  /\ reader \in {"ready", "parked", "busy", "end", "failed", "dropped"}
  /\ last \in [lo: Nat, hi: Nat]
  /\ budget \in [unread: Nat, waits: Nat]

(* The chunks in the buffer are the units fed and not yet taken, in order, *)
(* without gap or overlap, and len counts them, whatever is put back.      *)
Buffered ==
  reader # "dropped" =>
    /\ len = total - DataLeft - pos
    /\ IF items = <<>> THEN pos = total - DataLeft
       ELSE /\ items[1].lo = pos
            /\ items[Len(items)].hi = total - DataLeft
            /\ \A i \in 1..Len(items) - 1 : items[i].hi = items[i + 1].lo

(* The handler sees the end of the stream only after the whole body.       *)
EndMeansAll == reader = "end" => pos = total

(* A reader that waits while data is there has been notified: readany      *)
(* leaves its task behind and feed_data notifies it, although the comment  *)
(* on Payload says it "does not notify current task when new data is       *)
(* available" (payload.rs:25).  Of the end and of an error that is true:   *)
(* feed_eof and set_error notify nobody, and this says nothing of them.    *)
DataWakesReader ==
  (reader = "parked" /\ items # <<>> /\ pc = "idle") => owner \in wake

(* A connection that may read the body again, and is not waiting for the   *)
(* socket, has been notified.                                              *)
RoomWakesConnection ==
  (pc = "idle" /\ payload /\ ~error /\ reader # "dropped" /\ needRead /\ ~interest)
     => "conn" \in wake

(* The body, its failure or the loss of the peer reaches the handler.      *)
BodyDelivered == <>(reader \in {"end", "failed", "dropped"})

(* The same for a reader in the task of the connection, which is polled    *)
(* whenever the connection is.                                             *)
DeliveredInTask == owner = "conn" => BodyDelivered

(* A body with data in it is reported incomplete only if units of it are   *)
(* missing, however the end of the body and the end of the stream race.    *)
IncompleteMeansShort == (reader = "failed" /\ total > 0) => left > 0
=============================================================================
