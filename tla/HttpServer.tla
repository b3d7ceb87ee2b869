------------------------------ MODULE HttpServer ------------------------------
(***************************************************************************)
(* The life of an actix-web server: the HttpServer actor, one accept       *)
(* thread per bound address and the workers (server/srv.rs,                *)
(* server/worker.rs).                                                      *)
(*                                                                         *)
(* The three kinds of actors run in threads of their own.  Accept threads  *)
(* hand sockets to workers round robin and tell the server, through one    *)
(* channel, when the channel of a worker is closed.  The server restarts   *)
(* the worker and tells every accept thread, through a command channel     *)
(* whose mio readiness wakes the thread.  StopServer stops both.           *)
(*                                                                         *)
(* A worker is named by the order in which it was started; the idx by      *)
(* which server and accept threads know it is a separate number, and may   *)
(* be used again.  A connection is only counted.                           *)
(***************************************************************************)
EXTENDS Integers, Sequences, FiniteSets

CONSTANTS
  Accept,           \* accept threads, one per bound address
  Threads,          \* HttpServer.threads, the workers started first
  ShutdownTimeout,  \* HttpServer.shutdown_timeout, in seconds
  MaxWorkers,       \* bound: workers ever started
  MaxConns,         \* bound: clients that connect
  MaxPanics,        \* bound: workers whose thread panics
  MaxStops,         \* bound: StopServer messages and stop signals
  MaxPauses,        \* bound: PauseServer messages
  MaxErrors         \* bound: accept() errors that are not per connection

ASSUME ServerAssumption ==
  /\ Threads \in Nat \ {0}
  /\ MaxWorkers \in Nat
  /\ Threads <= MaxWorkers
  /\ ShutdownTimeout \in Nat
  /\ {MaxConns, MaxPanics, MaxStops, MaxPauses, MaxErrors} \subseteq Nat

VARIABLES
  workers,    \* HttpServer.workers: sequence of [idx, w]
  exit,       \* HttpServer.exit
  exiting,    \* a run_later that sends SystemExit is pending
  exited,     \* the actix system has stopped
  died,       \* ServerCommand channel: idx of workers reported dead
  replies,    \* answers to StopWorker on their way to the server
  stopReq,    \* StopServer has been handled
  paused,     \* the last of PauseServer / ResumeServer was a pause
  misused,    \* history: ResumeServer was sent while not paused
  started,    \* number of workers started so far
  status,     \* worker thread: "new", "up", "stopping" (StopArbiter sent), "down"
  queue,      \* sockets in the worker's channel
  channels,   \* WorkerSettings.channels: open HttpChannels of the worker
  mailbox,    \* StopWorker messages not handled yet (TRUE: graceful)
  timers,     \* seconds left in each running shutdown_timeout of the worker
  aworkers,   \* the accept thread's own list of [idx, w]
  next,       \* round robin position, counted from 0
  pc,         \* "event", "accept", "send", "stopped", "panicked"
  events,     \* events returned by the last poll and not handled yet
  listening,  \* server is Some(_)
  backlog,    \* connections waiting in the listening socket
  srvReady,   \* an edge for the listening socket is pending in mio
  cmds,       \* Command channel of the accept thread
  cmdReady,   \* an edge for the command registration is pending in mio
  budget      \* what the bounds still allow

serverVars == <<workers, exit, exiting, exited, died, replies, stopReq, paused, misused>>
workerVars == <<started, status, queue, channels, mailbox, timers>>
acceptVars == <<aworkers, next, pc, events, listening, backlog, srvReady,
                cmds, cmdReady>>
vars == <<serverVars, workerVars, acceptVars, budget>>

Worker == 1..MaxWorkers
Entry == [idx: Nat, w: Worker]
Cmd(kind) == [cmd |-> kind]
WorkerCmd(e) == [cmd |-> "worker", entry |-> e]
Command == [cmd: {"pause", "resume", "stop"}] \cup [cmd: {"worker"}, entry: Entry]
Bounds == [{"conns", "panics", "stops", "pauses", "errors"} -> Nat]

(* Vec::swap_remove: the last element takes the place of the removed one.  *)
SwapRemove(s, i) == [j \in 1..Len(s) - 1 |-> IF j = i THEN s[Len(s)] ELSE s[j]]

Idxs(ws) == {ws[i].idx : i \in 1..Len(ws)}
Members(ws) == {ws[i].w : i \in 1..Len(ws)}
Alive(w) == status[w] \in {"up", "stopping"}
Running(a) == pc[a] \notin {"stopped", "panicked"}

Spend(b) == /\ budget[b] > 0
            /\ budget' = [budget EXCEPT ![b] = @ - 1]

-----------------------------------------------------------------------------
(* start_workers and start: every accept thread begins with its own copy   *)
(* of the list of workers.                                                 *)

FirstWorkers == [i \in 1..Threads |-> [idx |-> i - 1, w |-> i]]

Init ==
  /\ workers = FirstWorkers
  /\ exit = FALSE /\ exiting = FALSE /\ exited = FALSE
  /\ died = <<>> /\ replies = 0 /\ stopReq = FALSE
  /\ paused = FALSE /\ misused = FALSE
  /\ started = Threads
  /\ status = [w \in Worker |-> IF w <= Threads THEN "up" ELSE "new"]
  /\ queue = [w \in Worker |-> 0]
  /\ channels = [w \in Worker |-> 0]
  /\ mailbox = [w \in Worker |-> <<>>]
  /\ timers = [w \in Worker |-> <<>>]
  /\ aworkers = [a \in Accept |-> FirstWorkers]
  /\ next = [a \in Accept |-> 0]
  /\ pc = [a \in Accept |-> "event"]
  /\ events = [a \in Accept |-> {}]
  /\ listening = [a \in Accept |-> TRUE]
  /\ backlog = [a \in Accept |-> 0]
  /\ srvReady = [a \in Accept |-> FALSE]
  /\ cmds = [a \in Accept |-> <<>>]
  /\ cmdReady = [a \in Accept |-> FALSE]
  /\ budget = [b \in {"conns", "panics", "stops", "pauses", "errors"} |->
                 CASE b = "conns" -> MaxConns [] b = "panics" -> MaxPanics
                   [] b = "stops" -> MaxStops [] b = "pauses" -> MaxPauses
                   [] b = "errors" -> MaxErrors]

-----------------------------------------------------------------------------
(* Accept threads.                                                         *)

(* A client connects: the kernel queues the connection and raises an edge. *)
Connect(a) ==
  /\ listening[a] /\ Spend("conns")
  /\ backlog' = [backlog EXCEPT ![a] = @ + 1]
  /\ srvReady' = [srvReady EXCEPT ![a] = TRUE]
  /\ UNCHANGED <<serverVars, workerVars, aworkers, next, pc, events, listening,
                 cmds, cmdReady>>

(* poll.poll(): every pending edge becomes one event, however many times   *)
(* it was raised.                                                          *)
Poll(a) ==
  /\ pc[a] = "event" /\ events[a] = {}
  /\ srvReady[a] \/ cmdReady[a]
  /\ events' = [events EXCEPT ![a] = (IF srvReady[a] THEN {"SRV"} ELSE {})
                                \cup (IF cmdReady[a] THEN {"CMD"} ELSE {})]
  /\ srvReady' = [srvReady EXCEPT ![a] = FALSE]
  /\ cmdReady' = [cmdReady EXCEPT ![a] = FALSE]
  /\ UNCHANGED <<serverVars, workerVars, aworkers, next, pc, listening, backlog,
                 cmds, budget>>

(* SRV: start the accept loop, unless the listener was taken by a pause.   *)
SrvEvent(a) ==
  /\ pc[a] = "event" /\ "SRV" \in events[a]
  /\ events' = [events EXCEPT ![a] = @ \ {"SRV"}]
  /\ pc' = [pc EXCEPT ![a] = IF listening[a] THEN "accept" ELSE "event"]
  /\ UNCHANGED <<serverVars, workerVars, aworkers, next, listening, backlog,
                 srvReady, cmds, cmdReady, budget>>

(* accept_std() returned a socket, or nothing is left (WouldBlock).        *)
AcceptStd(a) ==
  /\ pc[a] = "accept"
  /\ IF backlog[a] > 0
     THEN /\ backlog' = [backlog EXCEPT ![a] = @ - 1]
          /\ pc' = [pc EXCEPT ![a] = "send"]
     ELSE /\ pc' = [pc EXCEPT ![a] = "event"]
          /\ UNCHANGED backlog
  /\ UNCHANGED <<serverVars, workerVars, aworkers, next, events, listening,
                 srvReady, cmds, cmdReady, budget>>

(* accept_std() failed: an error of one connection loses that connection   *)
(* and the loop goes on; any other error leaves the loop after a sleep.    *)
AcceptErrorConn(a) ==
  /\ pc[a] = "accept" /\ backlog[a] > 0 /\ Spend("errors")
  /\ backlog' = [backlog EXCEPT ![a] = @ - 1]
  /\ UNCHANGED <<serverVars, workerVars, aworkers, next, pc, events, listening,
                 srvReady, cmds, cmdReady>>

AcceptErrorLoop(a) ==
  /\ pc[a] = "accept" /\ Spend("errors")
  /\ pc' = [pc EXCEPT ![a] = "event"]
  /\ UNCHANGED <<serverVars, workerVars, aworkers, next, events, listening,
                 backlog, srvReady, cmds, cmdReady>>

(* The position after the worker at position n was removed from the list.  *)
NextAfterRemove(n, len) == IF len <= n THEN 0 ELSE n

(* After a socket is handed over the loop accepts the next one: mio        *)
(* reports the listener only when a new connection arrives.                *)
AcceptOne == "event"
AcceptMore == "accept"

(* One turn of the loop that looks for a worker for the accepted socket.   *)
SendConn(a) ==
  LET ws == aworkers[a]
      e  == ws[next[a] + 1]
      rest == SwapRemove(ws, next[a] + 1)
  IN
  /\ pc[a] = "send"
  /\ \/ (* no worker is left: the socket is dropped *)
        /\ ws = <<>>
        /\ pc' = [pc EXCEPT ![a] = "accept"]
        /\ UNCHANGED <<died, queue, aworkers, next>>
     \/ (* unbounded_send succeeded *)
        /\ ws # <<>> /\ Alive(e.w)
        /\ queue' = [queue EXCEPT ![e.w] = @ + 1]
        /\ next' = [next EXCEPT ![a] = (@ + 1) % Len(ws)]
        /\ pc' = [pc EXCEPT ![a] = AcceptMore]
        /\ UNCHANGED <<died, aworkers>>
     \/ (* the worker's end of the channel is gone *)
        /\ ws # <<>> /\ ~Alive(e.w)
        /\ died' = Append(died, e.idx)
        /\ aworkers' = [aworkers EXCEPT ![a] = rest]
        /\ IF rest = <<>>
           THEN /\ pc' = [pc EXCEPT ![a] = "accept"]
                /\ UNCHANGED next
           ELSE /\ next' = [next EXCEPT ![a] = NextAfterRemove(@, Len(rest))]
                /\ UNCHANGED pc
        /\ UNCHANGED queue
  /\ UNCHANGED <<workers, exit, exiting, exited, replies, stopReq, paused, misused,
                 started, status, channels, mailbox, timers, events,
                 listening, backlog, srvReady, cmds, cmdReady, budget>>

(* A pause takes the listener out of server.                               *)
ListenerKept == TRUE
ListenerTaken == FALSE

(* CMD: exactly one try_recv per event.  The channel cannot be empty here  *)
(* (CommandForEvent below), and it is disconnected only after SystemExit.  *)
CmdEvent(a) ==
  LET c == Head(cmds[a])
      take == /\ cmds' = [cmds EXCEPT ![a] = Tail(@)]
              /\ events' = [events EXCEPT ![a] = @ \ {"CMD"}]
      close == /\ listening' = [listening EXCEPT ![a] = FALSE]
               /\ backlog' = [backlog EXCEPT ![a] = 0]
               /\ srvReady' = [srvReady EXCEPT ![a] = FALSE]
      quit(how) == /\ pc' = [pc EXCEPT ![a] = how]
                   /\ cmds' = [cmds EXCEPT ![a] = <<>>]
                   /\ events' = [events EXCEPT ![a] = {}]
                   /\ cmdReady' = [cmdReady EXCEPT ![a] = FALSE]
  IN
  /\ pc[a] = "event" /\ "CMD" \in events[a] /\ cmds[a] # <<>>
  /\ \/ /\ c.cmd = "pause" /\ take
        /\ listening' = [listening EXCEPT ![a] = @ /\ ListenerTaken]
        /\ backlog' = [backlog EXCEPT ![a] = 0]
        /\ srvReady' = [srvReady EXCEPT ![a] = FALSE]
        /\ UNCHANGED <<aworkers, pc, cmdReady>>
     \/ (* a second listener cannot be bound while the first is open:      *)
        (* create_tcp_listener fails and expect() panics                   *)
        /\ c.cmd = "resume" /\ listening[a] /\ quit("panicked") /\ close
        /\ UNCHANGED aworkers
     \/ /\ c.cmd = "resume" /\ ~listening[a] /\ take
        /\ listening' = [listening EXCEPT ![a] = TRUE]
        /\ UNCHANGED <<aworkers, pc, backlog, srvReady, cmdReady>>
     \/ /\ c.cmd = "stop" /\ quit("stopped") /\ close
        /\ UNCHANGED aworkers
     \/ /\ c.cmd = "worker" /\ take
        /\ aworkers' = [aworkers EXCEPT ![a] = Append(@, c.entry)]
        /\ UNCHANGED <<pc, listening, backlog, srvReady, cmdReady>>
  /\ UNCHANGED <<serverVars, workerVars, next, budget>>

-----------------------------------------------------------------------------
(* Workers.                                                                *)

(* Handler<Conn>: the socket becomes a spawned HttpChannel.                *)
WorkerConn(w) ==
  /\ Alive(w) /\ queue[w] > 0
  /\ queue' = [queue EXCEPT ![w] = @ - 1]
  /\ channels' = [channels EXCEPT ![w] = @ + 1]
  /\ UNCHANGED <<serverVars, started, status, mailbox, timers,
                 acceptVars, budget>>

(* An HttpChannel completes: WorkerSettings::remove_channel.               *)
ChannelDone(w) ==
  /\ Alive(w) /\ channels[w] > 0
  /\ channels' = [channels EXCEPT ![w] = @ - 1]
  /\ UNCHANGED <<serverVars, started, status, queue, mailbox, timers,
                 acceptVars, budget>>

(* Handler<StopWorker>.  Node::traverse closes the channels linked to the  *)
(* list of the worker; no HttpChannel ever links itself, so that a forced  *)
(* stop leaves every channel open.                                         *)
StopWorker(w) ==
  LET graceful == Head(mailbox[w]) IN
  /\ Alive(w) /\ mailbox[w] # <<>>
  /\ mailbox' = [mailbox EXCEPT ![w] = Tail(@)]
  /\ \/ /\ channels[w] = 0 \/ ~graceful
        /\ replies' = replies + 1
        /\ UNCHANGED timers
     \/ /\ channels[w] > 0 /\ graceful
        /\ timers' = [timers EXCEPT ![w] = Append(@, ShutdownTimeout)]
        /\ UNCHANGED replies
  /\ UNCHANGED <<workers, exit, exiting, exited, died, stopReq, paused, misused, started,
                 status, queue, channels, acceptVars, budget>>

(* The run_later of shutdown_timeout fires, one second after it was set.   *)
ShutdownTimer(w, i) ==
  LET left == timers[w][i] IN
  /\ Alive(w)
  /\ \/ /\ channels[w] # 0 /\ left >= 1
        /\ timers' = [timers EXCEPT ![w][i] = left - 1]
        /\ UNCHANGED <<replies, status>>
     \/ /\ channels[w] = 0 \/ left = 0
        /\ timers' = [timers EXCEPT ![w] = SwapRemove(@, i)]
        /\ replies' = replies + 1
        /\ status' = [status EXCEPT ![w] = "stopping"]
  /\ UNCHANGED <<workers, exit, exiting, exited, died, stopReq, paused, misused, started,
                 queue, channels, mailbox, acceptVars, budget>>

(* The worker's thread ends.  Its sockets are closed, and every StopWorker *)
(* it has not answered resolves with an error, which the server treats as  *)
(* an answer.                                                              *)
ThreadEnds(w) ==
  /\ status' = [status EXCEPT ![w] = "down"]
  /\ replies' = replies + Len(mailbox[w]) + Len(timers[w])
  /\ mailbox' = [mailbox EXCEPT ![w] = <<>>]
  /\ timers' = [timers EXCEPT ![w] = <<>>]
  /\ queue' = [queue EXCEPT ![w] = 0]
  /\ channels' = [channels EXCEPT ![w] = 0]
  /\ UNCHANGED <<workers, exit, exiting, exited, died, stopReq, paused, misused, started,
                 acceptVars>>

(* The arbiter handles StopArbiter.                                        *)
StopArbiter(w) == /\ status[w] = "stopping"
                  /\ ThreadEnds(w)
                  /\ UNCHANGED budget

(* A request handler panics, which takes down the thread of its worker.    *)
WorkerPanics(w) == /\ status[w] = "up"
                   /\ Spend("panics")
                   /\ ThreadEnds(w)

-----------------------------------------------------------------------------
(* The HttpServer actor.                                                   *)

(* item.1.send(cmd); item.0.set_readiness(readable()), for every thread    *)
(* that still holds its end of the channel.                                *)
RaiseOnly(c) == UNCHANGED cmds /\ cmdReady' = [a \in Accept |-> Running(a)]
SendToAccept(c) ==
  /\ cmds' = [a \in Accept |-> IF Running(a) THEN Append(cmds[a], c) ELSE cmds[a]]
  /\ cmdReady' = [a \in Accept |-> Running(a)]

PauseServer ==
  /\ Spend("pauses")
  /\ paused' = TRUE
  /\ SendToAccept(Cmd("pause"))
  /\ UNCHANGED <<workers, exit, exiting, exited, died, replies, stopReq, misused,
                 workerVars, aworkers, next, pc, events, listening, backlog,
                 srvReady>>

ResumeServer ==
  /\ Spend("pauses")
  /\ paused' = FALSE
  /\ misused' = (misused \/ ~paused)
  /\ SendToAccept(Cmd("resume"))
  /\ UNCHANGED <<workers, exit, exiting, exited, died, replies, stopReq,
                 workerVars, aworkers, next, pc, events, listening, backlog,
                 srvReady>>

(* The first index, from Len(ws) on, that no worker of the list has.       *)
NewIdx(ws) == CHOOSE n \in Len(ws)..2 * Len(ws) :
                /\ n \notin Idxs(ws)
                /\ \A m \in Len(ws)..n - 1 : m \in Idxs(ws)

(* The new worker takes its place in the list.                             *)
Listed(ws, e) == Append(ws, e)

(* ServerCommand::WorkerDied(idx).  It is ignored when no worker has the   *)
(* index any more.                                                         *)
WorkerDied ==
  LET idx == Head(died)
      at == {i \in 1..Len(workers) : workers[i].idx = idx}
  IN
  /\ died # <<>>
  /\ died' = Tail(died)
  /\ \/ /\ at = {}
        /\ UNCHANGED <<workers, started, status, cmds, cmdReady>>
     \/ /\ started < MaxWorkers
        /\ \E i \in at :
             LET rest == SwapRemove(workers, i)
                 e == [idx |-> NewIdx(rest), w |-> started + 1]
             IN /\ \A j \in at : i <= j
                /\ workers' = Listed(rest, e)
                /\ status' = [status EXCEPT ![started + 1] = "up"]
                /\ SendToAccept(WorkerCmd(e))
        /\ started' = started + 1
  /\ UNCHANGED <<exit, exiting, exited, replies, stopReq, paused, misused, queue, channels,
                 mailbox, timers, aworkers, next, pc, events, listening,
                 backlog, srvReady, budget>>

(* A StopWorker sent to a worker whose thread is gone fails at once.       *)
NoMailboxErrors == 0
MailboxErrors == Cardinality({w \in Members(workers) : ~Alive(w)})

(* Handler<StopServer>, from a message or (sig) from a signal, which also  *)
(* sets exit.  A worker whose thread is gone answers with a mailbox error. *)
StopServer(graceful, sig) ==
  /\ Spend("stops")
  /\ exit' = (exit \/ sig)
  /\ stopReq' = TRUE
  /\ SendToAccept(Cmd("stop"))
  /\ mailbox' = [w \in Worker |-> IF w \in Members(workers) /\ Alive(w)
                                  THEN Append(mailbox[w], graceful)
                                  ELSE mailbox[w]]
  /\ replies' = replies + MailboxErrors
  /\ exiting' = (exiting \/ (workers = <<>> /\ exit'))
  /\ UNCHANGED <<workers, exited, died, paused, misused, started, status, queue, channels,
                 timers, aworkers, next, pc, events, listening, backlog,
                 srvReady>>

AnyGone(ws) == TRUE
AllGone(ws) == ws = <<>>

(* The then() of one StopWorker: whichever worker answered, the last one   *)
(* of the list is popped.                                                  *)
StopReply ==
  LET rest == IF workers = <<>> THEN <<>> ELSE SubSeq(workers, 1, Len(workers) - 1)
  IN
  /\ replies > 0
  /\ replies' = replies - 1
  /\ workers' = rest
  /\ exiting' = (exiting \/ (AllGone(rest) /\ exit))
  /\ UNCHANGED <<exit, exited, died, stopReq, paused, misused, workerVars, acceptVars,
                 budget>>

(* 300 ms later SystemExit stops every arbiter.                            *)
SystemExit ==
  /\ exiting /\ exited' = TRUE
  /\ UNCHANGED <<workers, exit, exiting, died, replies, stopReq, paused, misused,
                 workerVars, acceptVars, budget>>

-----------------------------------------------------------------------------
AcceptStep(a) == \/ Poll(a) \/ SrvEvent(a) \/ AcceptStd(a) \/ SendConn(a)
                 \/ CmdEvent(a)

WorkerStep(w) == \/ WorkerConn(w) \/ StopWorker(w) \/ StopArbiter(w)
                 \/ \E i \in 1..Len(timers[w]) : ShutdownTimer(w, i)

ServerStep == WorkerDied \/ StopReply \/ SystemExit

Environment ==
  \/ \E a \in Accept : Connect(a) \/ AcceptErrorConn(a) \/ AcceptErrorLoop(a)
  \/ \E w \in Worker : ChannelDone(w) \/ WorkerPanics(w)
  \/ PauseServer \/ ResumeServer
  \/ \E graceful, sig \in BOOLEAN : StopServer(graceful, sig)

Next ==
  /\ ~exited
  /\ \/ \E a \in Accept : AcceptStep(a)
     \/ \E w \in Worker : WorkerStep(w)
     \/ ServerStep
     \/ Environment

Spec == Init /\ [][Next]_vars

(* Threads are scheduled, mailboxes are served and timers fire; clients,   *)
(* handlers and operators owe nothing.                                     *)
Fairness ==
  /\ \A a \in Accept : WF_vars(~exited /\ AcceptStep(a))
  /\ \A w \in Worker : WF_vars(~exited /\ WorkerStep(w))
  /\ WF_vars(~exited /\ WorkerDied)
  /\ WF_vars(~exited /\ StopReply)
  /\ WF_vars(~exited /\ SystemExit)

FairSpec == Spec /\ Fairness

-----------------------------------------------------------------------------
(* The values of the variables.                                            *)
ServerType ==
  /\ workers \in Seq(Entry)
  /\ exit \in BOOLEAN /\ exiting \in BOOLEAN /\ exited \in BOOLEAN
  /\ stopReq \in BOOLEAN /\ paused \in BOOLEAN /\ misused \in BOOLEAN
  /\ died \in Seq(Nat)
  /\ replies \in Nat

WorkerType ==
  /\ started \in Threads..MaxWorkers
  /\ status \in [Worker -> {"new", "up", "stopping", "down"}]
  /\ queue \in [Worker -> Nat]
  /\ channels \in [Worker -> Nat]
  /\ mailbox \in [Worker -> Seq(BOOLEAN)]
  /\ timers \in [Worker -> Seq(Nat)]

AcceptType ==
  /\ aworkers \in [Accept -> Seq(Entry)]
  /\ next \in [Accept -> Nat]
  /\ pc \in [Accept -> {"event", "accept", "send", "stopped", "panicked"}]
  /\ events \in [Accept -> SUBSET {"SRV", "CMD"}]
  /\ listening \in [Accept -> BOOLEAN]
  /\ backlog \in [Accept -> Nat]
  /\ srvReady \in [Accept -> BOOLEAN]
  /\ cmds \in [Accept -> Seq(Command)]
  /\ cmdReady \in [Accept -> BOOLEAN]

TypeOK == ServerType /\ WorkerType /\ AcceptType /\ budget \in Bounds

(* workers[next] in the accept loop never indexes past the end of the      *)
(* list, whatever workers died and were replaced meanwhile.                *)
NextInRange ==
  \A a \in Accept : aworkers[a] # <<>> => next[a] < Len(aworkers[a])

(* Two workers of the server never share an index: WorkerDied(idx) names   *)
(* one worker.                                                             *)
DistinctIdx ==
  \A i, j \in 1..Len(workers) : workers[i].idx = workers[j].idx => i = j

(* A CMD event always finds a command in the channel, although readiness   *)
(* is raised and consumed by different threads.                            *)
CommandForEvent ==
  \A a \in Accept :
    (IF "CMD" \in events[a] THEN 1 ELSE 0) + (IF cmdReady[a] THEN 1 ELSE 0)
      <= Len(cmds[a])

(* An accept thread has e in its list, has a command that announces e, or  *)
(* the death of e is reported.                                             *)
KnownTo(a, e) ==
  \/ \E j \in 1..Len(aworkers[a]) : aworkers[a][j] = e
  \/ \E j \in 1..Len(cmds[a]) : cmds[a][j] = WorkerCmd(e)
  \/ ~Alive(e.w) /\ \E j \in 1..Len(died) : died[j] = e.idx

(* Every worker of the server is known to every running accept thread, is  *)
(* announced to it by a command it has not read, or is dead and about to   *)
(* be replaced: no worker is left without work and no death goes unseen.   *)
Tracked ==
  \A a \in Accept : \A i \in 1..Len(workers) :
    Running(a) => KnownTo(a, workers[i])

(* Until it is told to stop, the server can reach every worker thread that *)
(* runs, so that StopServer stops them all.                                *)
AllWorkersKnown ==
  ~stopReq => \A w \in Worker : status[w] = "up" => w \in Members(workers)

(* SystemExit is not scheduled while a worker still has requests to finish *)
(* and time left to finish them.                                           *)
ExitAfterGrace ==
  exiting => \A w \in Worker : timers[w] = <<>> /\ mailbox[w] = <<>>

(* An accept thread ends in a panic only if ResumeServer was sent to a     *)
(* server that was not paused.                                             *)
PanicOnlyIfMisused ==
  \A a \in Accept : pc[a] = "panicked" => misused

(* The accept loop and the actor do not panic and do not mix workers up:   *)
(* the round robin position is an index of the list, a CMD event finds a   *)
(* command, indices are unique although they are reused, and a resume      *)
(* fails only on a server that was not paused.                             *)
NothingPanics ==
  NextInRange /\ CommandForEvent /\ DistinctIdx /\ PanicOnlyIfMisused

(* A stop signal ends the process.                                         *)
SignalExits == (stopReq /\ exit) ~> exited

(* A connection that waits in a listening socket is taken from it.         *)
BacklogServed ==
  \A a \in Accept : (backlog[a] > 0) ~> (backlog[a] = 0 \/ exited)
=============================================================================
