--------------------------- MODULE HttpServerSteps --------------------------
(***************************************************************************)
(* What the steps of HttpServer keep: the types of its variables, the      *)
(* round robin position, the commands and the indices, and what its        *)
(* operations on lists return.                                             *)
(***************************************************************************)
EXTENDS HttpServer, TLAPS

(* Vec::swap_remove yields a list one shorter, of elements of the old one. *)
LEMMA SwapRemoveType ==
  ASSUME NEW S, NEW s \in Seq(S), NEW i \in 1..Len(s)
  PROVE  /\ SwapRemove(s, i) \in Seq(S)
         /\ Len(SwapRemove(s, i)) = Len(s) - 1
         /\ \A j \in 1..Len(s) - 1 :
              SwapRemove(s, i)[j] = IF j = i THEN s[Len(s)] ELSE s[j]
BY DEF SwapRemove

(* It drops only the element it is asked to drop.                          *)
LEMMA SwapRemoveKeeps ==
  ASSUME NEW S, NEW s \in Seq(S), NEW i \in 1..Len(s), NEW j \in 1..Len(s), j # i
  PROVE  \E k \in 1..Len(SwapRemove(s, i)) : SwapRemove(s, i)[k] = s[j]
<1>1. CASE j = Len(s)
  BY SMTT(30), <1>1, SwapRemoveType, i \in 1..Len(s) - 1
<1>2. CASE j # Len(s)
  BY <1>2, SwapRemoveType, j \in 1..Len(s) - 1
<1> QED BY <1>1, <1>2

-----------------------------------------------------------------------------
(* Type correctness.  An action touches one or two groups of variables;    *)
(* the others are unchanged.                                               *)

USE DEF Worker, Spend, serverVars, workerVars, acceptVars

(* The rest of a non-empty list has elements of the list.                  *)
LEMMA TailType ==
  ASSUME NEW S, NEW s \in Seq(S), s # <<>>
  PROVE  /\ Tail(s) \in Seq(S) /\ Len(Tail(s)) = Len(s) - 1
         /\ \A j \in 1..Len(s) - 1 : Tail(s)[j] = s[j + 1]
OBVIOUS

(* A list without its last element (Vec::pop) has elements of the list.    *)
LEMMA ButLast ==
  ASSUME NEW S, NEW s \in Seq(S), s # <<>>
  PROVE  /\ SubSeq(s, 1, Len(s) - 1) \in Seq(S)
         /\ Len(SubSeq(s, 1, Len(s) - 1)) = Len(s) - 1
         /\ \A i \in 1..Len(s) - 1 : SubSeq(s, 1, Len(s) - 1)[i] = s[i]
<1> DEFINE n == Len(s) - 1
           t == [i \in 1..n |-> s[i]]
<1>1. n \in Nat /\ \A i \in 1..n : s[i] \in S
  OBVIOUS
<1>2. SubSeq(s, 1, n) = t
  BY <1>1
<1>3. t \in Seq(S) /\ Len(t) = n /\ \A i \in 1..n : t[i] = s[i]
  BY <1>1
<1> HIDE DEF t
<1> QED BY <1>2, <1>3

(* A server that has just started is type correct.                         *)
LEMMA TypeInit == Init => TypeOK
<1> SUFFICES ASSUME Init PROVE TypeOK
  OBVIOUS
<1>1. FirstWorkers \in Seq(Entry)
  BY ServerAssumption DEF FirstWorkers, Entry
<1>0. <<>> \in Seq(Nat)
  OBVIOUS
<1>2. ServerType
  BY Zenon, <1>0, <1>1 DEF Init, ServerType
<1>3. WorkerType
  BY ServerAssumption DEF Init, WorkerType
<1>4. AcceptType
  BY <1>1 DEF Init, AcceptType
<1>5. budget \in Bounds
  BY ServerAssumption DEF Init, Bounds
<1> QED BY <1>2, <1>3, <1>4, <1>5 DEF TypeOK

(* What an action leaves alone keeps its type.                             *)
LEMMA TypeFrame ==
  ASSUME TypeOK
  PROVE  /\ UNCHANGED serverVars => ServerType'
         /\ UNCHANGED workerVars => WorkerType'
         /\ UNCHANGED acceptVars => AcceptType'
         /\ UNCHANGED budget => (budget \in Bounds)'
BY DEF TypeOK, ServerType, WorkerType, AcceptType

(* Spending what a bound allows keeps the bounds.                          *)
LEMMA TypeSpend ==
  ASSUME TypeOK, NEW b \in {"conns", "panics", "stops", "pauses", "errors"}, Spend(b)
  PROVE  (budget \in Bounds)'
BY DEF TypeOK, Bounds

(* Steps of an accept thread and of its listener keep every type.          *)
LEMMA TypeAccept ==
  ASSUME TypeOK, NextInRange, NEW a \in Accept,
         AcceptStep(a) \/ Connect(a) \/ AcceptErrorConn(a) \/ AcceptErrorLoop(a)
  PROVE  TypeOK'
<1>1. CASE Poll(a)
  <2>3. AcceptType'
    BY <1>1 DEF Poll, TypeOK, AcceptType
  <2> QED BY <1>1, <2>3, TypeFrame DEF TypeOK, Poll
<1>2. CASE SrvEvent(a)
  <2>3. AcceptType'
    BY <1>2 DEF SrvEvent, TypeOK, AcceptType
  <2> QED BY <1>2, <2>3, TypeFrame DEF TypeOK, SrvEvent
<1>3. CASE AcceptStd(a)
  <2>3. AcceptType'
    <3>1. (backlog \in [Accept -> Nat])'
      <4>1. backlog \in [Accept -> Nat]
        BY DEF TypeOK, AcceptType
      <4>2. \/ backlog[a] > 0 /\ backlog' = [backlog EXCEPT ![a] = @ - 1]
            \/ backlog' = backlog
        BY <1>3 DEF AcceptStd
      <4> QED BY <4>1, <4>2
    <3>2. (pc \in [Accept -> {"event", "accept", "send", "stopped", "panicked"}])'
      BY ZenonT(30), <1>3 DEF AcceptStd, TypeOK, AcceptType
    <3> QED BY <1>3, <3>1, <3>2 DEF AcceptStd, TypeOK, AcceptType
  <2> QED BY <1>3, <2>3, TypeFrame DEF TypeOK, AcceptStd
<1>4. CASE SendConn(a)
  <2>0. aworkers[a] # <<>> => /\ next[a] + 1 \in 1..Len(aworkers[a])
                             /\ aworkers[a][next[a] + 1] \in Entry
    BY DEF TypeOK, AcceptType, NextInRange
  <2>1. ServerType'
    <3>1. died \in Seq(Nat)
      BY DEF TypeOK, ServerType
    <3>2. \/ died' = died
          \/ aworkers[a] # <<>> /\ died' = Append(died, aworkers[a][next[a] + 1].idx)
      BY <1>4 DEF SendConn
    <3>3. aworkers[a] # <<>> => aworkers[a][next[a] + 1].idx \in Nat
      BY <2>0 DEF Entry
    <3>4. (died \in Seq(Nat))'
      BY <3>1, <3>2, <3>3
    <3> QED BY <1>4, <3>4 DEF SendConn, TypeOK, ServerType
  <2>2. WorkerType'
    <3>1. queue \in [Worker -> Nat]
      BY SMTT(30) DEF TypeOK, WorkerType
    <3>2. \/ queue' = queue
          \/ /\ aworkers[a] # <<>>
             /\ queue' = [queue EXCEPT ![aworkers[a][next[a] + 1].w] = @ + 1]
      BY <1>4 DEF SendConn
    <3>3. (queue \in [Worker -> Nat])'
      BY <2>0, <3>1, <3>2 DEF Entry
    <3> QED BY <1>4, <3>3 DEF SendConn, TypeOK, WorkerType
  <2>3. AcceptType'
    <3>1. (aworkers \in [Accept -> Seq(Entry)])'
      <4>1. aworkers \in [Accept -> Seq(Entry)]
        BY DEF TypeOK, AcceptType
      <4>2. aworkers[a] # <<>> => SwapRemove(aworkers[a], next[a] + 1) \in Seq(Entry)
        BY <2>0, <4>1, SwapRemoveType
      <4>3. \/ aworkers' = aworkers
            \/ /\ aworkers[a] # <<>>
               /\ aworkers' = [aworkers EXCEPT ![a] = SwapRemove(aworkers[a], next[a] + 1)]
        BY <1>4 DEF SendConn
      <4> QED BY <4>1, <4>2, <4>3
    <3>2. (next \in [Accept -> Nat])'
      <4>1. next \in [Accept -> Nat] /\ aworkers \in [Accept -> Seq(Entry)]
        BY SMTT(30) DEF TypeOK, AcceptType
      <4>2. PICK len : \/ next' = next
                       \/ /\ aworkers[a] # <<>>
                          /\ next' = [next EXCEPT ![a] = (next[a] + 1) % Len(aworkers[a])]
                       \/ next' = [next EXCEPT ![a] = NextAfterRemove(next[a], len)]
        BY <1>4 DEF SendConn
      <4>3. NextAfterRemove(next[a], len) \in Nat
        BY <4>1 DEF NextAfterRemove
      <4>4. aworkers[a] # <<>> => (next[a] + 1) % Len(aworkers[a]) \in Nat
        BY <4>1
      <4> QED BY <4>1, <4>2, <4>3, <4>4
    <3>3. (pc \in [Accept -> {"event", "accept", "send", "stopped", "panicked"}])'
      BY SMTT(30), <1>4 DEF SendConn, TypeOK, AcceptType, AcceptMore
    <3> QED BY SMTT(30), <1>4, <3>1, <3>2, <3>3 DEF SendConn, TypeOK, AcceptType
  <2> QED BY <1>4, <2>1, <2>2, <2>3, TypeFrame DEF TypeOK, SendConn
<1>5. CASE CmdEvent(a)
  <2>3. AcceptType'
    <3>1. cmds[a] \in Seq(Command) /\ cmds[a] # <<>>
      BY <1>5 DEF CmdEvent, TypeOK, AcceptType
    <3>2. (cmds \in [Accept -> Seq(Command)])'
      <4>1. Tail(cmds[a]) \in Seq(Command) /\ <<>> \in Seq(Command)
        BY <3>1
      <4>2. \/ cmds' = [cmds EXCEPT ![a] = Tail(cmds[a])]
            \/ cmds' = [cmds EXCEPT ![a] = <<>>]
        BY <1>5 DEF CmdEvent
      <4> QED BY Zenon, <4>1, <4>2 DEF TypeOK, AcceptType
    <3>3. (aworkers \in [Accept -> Seq(Entry)])'
      <4>1. Head(cmds[a]).cmd = "worker" => Head(cmds[a]).entry \in Entry
        BY <3>1 DEF Command
      <4>2. \/ aworkers' = aworkers
            \/ /\ Head(cmds[a]).cmd = "worker"
               /\ aworkers' = [aworkers EXCEPT ![a] = Append(@, Head(cmds[a]).entry)]
        BY <1>5 DEF CmdEvent
      <4>3. aworkers \in [Accept -> Seq(Entry)]
        BY DEF TypeOK, AcceptType
      <4>4. Head(cmds[a]).cmd = "worker" => Append(aworkers[a], Head(cmds[a]).entry) \in Seq(Entry)
        BY <4>1, <4>3
      <4> QED BY Zenon, <4>2, <4>3, <4>4
    <3>4. (pc \in [Accept -> {"event", "accept", "send", "stopped", "panicked"}])'
      <4>1. \/ pc' = pc
            \/ \E how \in {"stopped", "panicked"} : pc' = [pc EXCEPT ![a] = how]
        BY <1>5 DEF CmdEvent
      <4> QED BY Zenon, <4>1 DEF TypeOK, AcceptType
    <3>5. (events \in [Accept -> SUBSET {"SRV", "CMD"}])'
      <4>1. \/ events' = [events EXCEPT ![a] = @ \ {"CMD"}]
            \/ events' = [events EXCEPT ![a] = {}]
        BY <1>5 DEF CmdEvent
      <4>2. events \in [Accept -> SUBSET {"SRV", "CMD"}]
        BY DEF TypeOK, AcceptType
      <4> QED BY <4>1, <4>2
    <3>6. (listening \in [Accept -> BOOLEAN] /\ srvReady \in [Accept -> BOOLEAN])'
      BY Zenon, <1>5 DEF CmdEvent, TypeOK, AcceptType, ListenerTaken
    <3>7. (backlog \in [Accept -> Nat] /\ cmdReady \in [Accept -> BOOLEAN])'
      <4>1. \/ backlog' = backlog
            \/ backlog' = [backlog EXCEPT ![a] = 0]
        BY <1>5 DEF CmdEvent
      <4>2. \/ cmdReady' = cmdReady
            \/ cmdReady' = [cmdReady EXCEPT ![a] = FALSE]
        BY <1>5 DEF CmdEvent
      <4>3. backlog \in [Accept -> Nat] /\ cmdReady \in [Accept -> BOOLEAN]
        BY DEF TypeOK, AcceptType
      <4>4. (backlog \in [Accept -> Nat])'
        BY <4>1, <4>3
      <4>5. (cmdReady \in [Accept -> BOOLEAN])'
        BY Zenon, <4>2, <4>3
      <4> QED BY <4>4, <4>5
    <3> QED BY Zenon, <1>5, <3>2, <3>3, <3>4, <3>5, <3>6, <3>7 DEF CmdEvent, TypeOK, AcceptType
  <2> QED BY <1>5, <2>3, TypeFrame DEF TypeOK, CmdEvent
<1>6. CASE Connect(a)
  <2>3. AcceptType'
    BY <1>6 DEF Connect, TypeOK, AcceptType
  <2> QED BY <1>6, <2>3, TypeFrame, TypeSpend DEF TypeOK, Connect
<1>7. CASE AcceptErrorConn(a)
  <2>3. AcceptType'
    BY <1>7 DEF AcceptErrorConn, TypeOK, AcceptType
  <2> QED BY <1>7, <2>3, TypeFrame, TypeSpend DEF TypeOK, AcceptErrorConn
<1>8. CASE AcceptErrorLoop(a)
  <2>3. AcceptType'
    BY <1>8 DEF AcceptErrorLoop, TypeOK, AcceptType
  <2> QED BY <1>8, <2>3, TypeFrame, TypeSpend DEF TypeOK, AcceptErrorLoop
<1> QED BY <1>1, <1>2, <1>3, <1>4, <1>5, <1>6, <1>7, <1>8 DEF AcceptStep

(* Steps of a worker keep every type.                                      *)
LEMMA TypeWorker ==
  ASSUME TypeOK, NEW w \in Worker,
         WorkerStep(w) \/ ChannelDone(w) \/ WorkerPanics(w)
  PROVE  TypeOK'
<1>1. CASE WorkerConn(w)
  <2>2. WorkerType'
    <3>1. queue \in [Worker -> Nat] /\ channels \in [Worker -> Nat]
      BY DEF TypeOK, WorkerType
    <3>2. /\ queue[w] > 0 /\ queue' = [queue EXCEPT ![w] = queue[w] - 1]
          /\ channels' = [channels EXCEPT ![w] = channels[w] + 1]
      BY <1>1 DEF WorkerConn
    <3>3. queue' \in [Worker -> Nat] /\ channels' \in [Worker -> Nat]
      BY <3>1, <3>2
    <3>4. UNCHANGED <<started, status, mailbox, timers>>
      BY <1>1 DEF WorkerConn
    <3> QED BY <3>3, <3>4 DEF TypeOK, WorkerType
  <2> QED BY <1>1, <2>2, TypeFrame DEF TypeOK, WorkerConn
<1>2. CASE StopWorker(w)
  <2>1. ServerType'
    <3>1. replies' = replies \/ replies' = replies + 1
      BY Zenon, <1>2 DEF StopWorker
    <3>2. (replies \in Nat)'
      BY <3>1 DEF TypeOK, ServerType
    <3> QED BY Zenon, <1>2, <3>2 DEF StopWorker, TypeOK, ServerType
  <2>2. WorkerType'
    <3>1. (mailbox \in [Worker -> Seq(BOOLEAN)])'
      <4>1. mailbox[w] \in Seq(BOOLEAN) /\ mailbox[w] # <<>>
        BY Zenon, <1>2 DEF StopWorker, TypeOK, WorkerType
      <4>2. Tail(mailbox[w]) \in Seq(BOOLEAN)
        BY Zenon, <4>1, TailType
      <4>3. mailbox' = [mailbox EXCEPT ![w] = Tail(mailbox[w])]
        BY Zenon, <1>2 DEF StopWorker
      <4> QED BY <4>2, <4>3 DEF TypeOK, WorkerType
    <3>2. (timers \in [Worker -> Seq(Nat)])'
      <4>1. timers' = timers \/ timers' = [timers EXCEPT ![w] = Append(@, ShutdownTimeout)]
        BY Zenon, <1>2 DEF StopWorker
      <4>2. timers \in [Worker -> Seq(Nat)]
        BY DEF TypeOK, WorkerType
      <4>3. Append(timers[w], ShutdownTimeout) \in Seq(Nat)
        BY <4>2, ServerAssumption
      <4> QED BY Zenon, <4>1, <4>2, <4>3
    <3> QED BY Zenon, <1>2, <3>1, <3>2 DEF StopWorker, TypeOK, WorkerType
  <2> QED BY <1>2, <2>1, <2>2, TypeFrame DEF TypeOK, StopWorker
<1>3. CASE StopArbiter(w)
  <2>1. ServerType'
    BY <1>3 DEF StopArbiter, ThreadEnds, TypeOK, ServerType, WorkerType
  <2>2. WorkerType'
    BY <1>3 DEF StopArbiter, ThreadEnds, TypeOK, WorkerType
  <2> QED BY <1>3, <2>1, <2>2, TypeFrame DEF TypeOK, StopArbiter, ThreadEnds
<1>4. ASSUME NEW i \in 1..Len(timers[w]), ShutdownTimer(w, i)
      PROVE  TypeOK'
  <2>1. ServerType'
    BY <1>4 DEF ShutdownTimer, TypeOK, ServerType
  <2>2. WorkerType'
    <3>1. (timers \in [Worker -> Seq(Nat)])'
      <4>1. timers[w] \in Seq(Nat) /\ timers[w][i] \in Nat
        BY SMTT(30), <1>4 DEF TypeOK, WorkerType
      <4>2. SwapRemove(timers[w], i) \in Seq(Nat)
        BY <1>4, <4>1, SwapRemoveType
      <4>3. timers[w][i] >= 1 => [timers[w] EXCEPT ![i] = timers[w][i] - 1] \in Seq(Nat)
        BY <1>4, <4>1
      <4> QED BY Zenon, <1>4, <4>2, <4>3 DEF ShutdownTimer, TypeOK, WorkerType
    <3>2. (status \in [Worker -> {"new", "up", "stopping", "down"}])'
      BY SMTT(30), <1>4 DEF ShutdownTimer, TypeOK, WorkerType
    <3> QED BY <1>4, <3>1, <3>2 DEF ShutdownTimer, TypeOK, WorkerType
  <2> QED BY <1>4, <2>1, <2>2, TypeFrame DEF TypeOK, ShutdownTimer
<1>5. CASE ChannelDone(w)
  <2>2. WorkerType'
    BY <1>5 DEF ChannelDone, TypeOK, WorkerType
  <2> QED BY <1>5, <2>2, TypeFrame DEF TypeOK, ChannelDone
<1>6. CASE WorkerPanics(w)
  <2>1. ServerType'
    BY <1>6 DEF WorkerPanics, ThreadEnds, TypeOK, ServerType, WorkerType
  <2>2. WorkerType'
    BY <1>6 DEF WorkerPanics, ThreadEnds, TypeOK, WorkerType
  <2> QED BY <1>6, <2>1, <2>2, TypeFrame, TypeSpend DEF TypeOK, WorkerPanics, ThreadEnds
<1> QED BY <1>1, <1>2, <1>3, <1>4, <1>5, <1>6 DEF WorkerStep

(* Sending a command to the accept threads keeps their types.              *)
LEMMA TypeSend ==
  ASSUME AcceptType, NEW c \in Command, SendToAccept(c),
         UNCHANGED <<aworkers, next, pc, events, listening, backlog, srvReady>>
  PROVE  AcceptType'
<1>1. (cmds \in [Accept -> Seq(Command)])'
  BY DEF AcceptType, SendToAccept
<1>2. (cmdReady \in [Accept -> BOOLEAN])'
  BY DEF AcceptType, SendToAccept, Running
<1> QED BY <1>1, <1>2 DEF AcceptType

(* The search of WorkerDied for an index ends at one no worker has.        *)
IndexFound ==
  \A ws \in Seq(Entry) : NewIdx(ws) \in Nat /\ NewIdx(ws) \notin Idxs(ws)

(* The worker that replaces a dead one has a proper entry.                 *)
LEMMA NewEntry ==
  ASSUME TypeOK, IndexFound, NEW i \in 1..Len(workers), started < MaxWorkers
  PROVE  /\ SwapRemove(workers, i) \in Seq(Entry)
         /\ [idx |-> NewIdx(SwapRemove(workers, i)), w |-> started + 1] \in Entry
<1>1. SwapRemove(workers, i) \in Seq(Entry)
  BY SwapRemoveType DEF TypeOK, ServerType
<1>2. NewIdx(SwapRemove(workers, i)) \in Nat
  BY <1>1 DEF IndexFound
<1>3. started + 1 \in Worker
  BY ServerAssumption DEF TypeOK, WorkerType
<1> QED BY <1>1, <1>2, <1>3 DEF Entry

(* The handlers of the server keep every type.                             *)
LEMMA TypeServer ==
  ASSUME TypeOK, IndexFound, MailboxErrors \in Nat,
                 \/ ServerStep \/ PauseServer \/ ResumeServer
                 \/ \E graceful, sig \in BOOLEAN : StopServer(graceful, sig)
  PROVE  TypeOK'
<1>1. CASE WorkerDied
  <2> DEFINE at == {i \in 1..Len(workers) : workers[i].idx = Head(died)}
             rest(i) == SwapRemove(workers, i)
             e(i) == [idx |-> NewIdx(rest(i)), w |-> started + 1]
  <2>0. ASSUME NEW i \in at, started < MaxWorkers
        PROVE  rest(i) \in Seq(Entry) /\ e(i) \in Entry
    BY Zenon, <2>0, NewEntry
  <2>1. ServerType'
    <3>1. CASE at = {} /\ UNCHANGED workers
      BY <1>1, <3>1 DEF WorkerDied, TypeOK, ServerType
    <3>2. ASSUME NEW i \in at, started < MaxWorkers, workers' = Listed(rest(i), e(i))
          PROVE  ServerType'
      <4>1. workers' \in Seq(Entry)
        BY <2>0, <3>2 DEF Listed
      <4> QED BY <1>1, <4>1 DEF WorkerDied, TypeOK, ServerType
    <3> QED BY Zenon, <1>1, <3>1, <3>2 DEF WorkerDied
  <2>2. WorkerType'
    <3>1. /\ started \in Threads..MaxWorkers
          /\ status \in [Worker -> {"new", "up", "stopping", "down"}]
      BY DEF TypeOK, WorkerType
    <3>2. \/ started' = started /\ status' = status
          \/ /\ started < MaxWorkers /\ started' = started + 1
             /\ status' = [status EXCEPT ![started + 1] = "up"]
      BY Zenon, <1>1 DEF WorkerDied
    <3>3. (started \in Threads..MaxWorkers)'
      BY <3>1, <3>2, ServerAssumption
    <3>4. (status \in [Worker -> {"new", "up", "stopping", "down"}])'
      BY <3>1, <3>2
    <3> QED BY <1>1, <3>3, <3>4 DEF WorkerDied, TypeOK, WorkerType
  <2>3. AcceptType'
    <3>1. CASE UNCHANGED <<cmds, cmdReady>>
      BY SMTT(30), <1>1, <3>1 DEF WorkerDied, TypeOK, AcceptType
    <3>2. ASSUME NEW i \in at, started < MaxWorkers, SendToAccept(WorkerCmd(e(i)))
          PROVE  AcceptType'
      <4>1. WorkerCmd(e(i)) \in Command
        BY Zenon, <2>0, <3>2 DEF WorkerCmd, Command
      <4> QED BY SMTT(30), <1>1, <3>2, <4>1, TypeSend DEF WorkerDied, TypeOK
    <3> QED BY ZenonT(30), <1>1, <3>1, <3>2 DEF WorkerDied
  <2> QED BY <1>1, <2>1, <2>2, <2>3, TypeFrame DEF TypeOK, WorkerDied
<1>2. CASE StopReply
  <2>1. ServerType'
    BY <1>2 DEF StopReply, TypeOK, ServerType
  <2> QED BY <1>2, <2>1, TypeFrame DEF TypeOK, StopReply
<1>3. CASE SystemExit
  <2>1. ServerType'
    BY <1>3 DEF SystemExit, TypeOK, ServerType
  <2> QED BY <1>3, <2>1, TypeFrame DEF TypeOK, SystemExit
<1>4. CASE PauseServer
  <2>1. ServerType'
    BY <1>4 DEF PauseServer, TypeOK, ServerType
  <2>3. AcceptType'
    BY Zenon, <1>4, TypeSend DEF PauseServer, Cmd, Command, TypeOK
  <2> QED BY <1>4, <2>1, <2>3, TypeFrame, TypeSpend DEF TypeOK, PauseServer
<1>5. CASE ResumeServer
  <2>1. ServerType'
    BY Zenon, <1>5 DEF ResumeServer, TypeOK, ServerType
  <2>3. AcceptType'
    BY <1>5, TypeSend DEF ResumeServer, Cmd, Command, TypeOK
  <2> QED BY <1>5, <2>1, <2>3, TypeFrame, TypeSpend DEF TypeOK, ResumeServer
<1>6. ASSUME NEW graceful \in BOOLEAN, NEW sig \in BOOLEAN, StopServer(graceful, sig)
      PROVE  TypeOK'
  <2>1. ServerType'
    <3>2. (replies \in Nat)'
      BY SMTT(30), <1>6 DEF StopServer, TypeOK, ServerType
    <3>3. (exit \in BOOLEAN /\ exiting \in BOOLEAN /\ stopReq \in BOOLEAN)'
      BY SMTT(30), <1>6 DEF StopServer, TypeOK, ServerType
    <3> QED BY SMTT(30), <1>6, <3>2, <3>3 DEF StopServer, TypeOK, ServerType
  <2>2. WorkerType'
    <3>1. mailbox' = [w \in Worker |-> IF w \in Members(workers) /\ Alive(w)
                                       THEN Append(mailbox[w], graceful)
                                       ELSE mailbox[w]]
      BY <1>6 DEF StopServer
    <3>2. \A w \in Worker : /\ mailbox[w] \in Seq(BOOLEAN)
                             /\ Append(mailbox[w], graceful) \in Seq(BOOLEAN)
      BY <1>6 DEF TypeOK, WorkerType
    <3>3. (mailbox \in [Worker -> Seq(BOOLEAN)])'
      BY Zenon, <3>1, <3>2
    <3> QED BY SMTT(30), <1>6, <3>3 DEF StopServer, TypeOK, WorkerType
  <2>3. AcceptType'
    BY SMTT(30), <1>6, TypeSend DEF StopServer, Cmd, Command, TypeOK
  <2> QED BY SMTT(30), <1>6, <2>1, <2>2, <2>3, TypeFrame, TypeSpend DEF TypeOK, StopServer
<1> QED BY <1>1, <1>2, <1>3, <1>4, <1>5, <1>6 DEF ServerStep

-----------------------------------------------------------------------------
(* The round robin position, the commands and the indices.                 *)

(* NextInRange says nothing of an empty list, to which a worker may be     *)
(* added: there the position has gone back to 0.                           *)
NextInv == \A a \in Accept : next[a] = 0 \/ next[a] < Len(aworkers[a])

(* The stronger statement implies that the accept loop stays in range.     *)
LEMMA NextInvRange ==
  ASSUME TypeOK, NextInv
  PROVE  NextInRange
<1> SUFFICES ASSUME NEW a \in Accept, aworkers[a] # <<>>
             PROVE  next[a] < Len(aworkers[a])
  BY DEF NextInRange
<1>1. Len(aworkers[a]) \in Nat \ {0}
  BY DEF TypeOK, AcceptType
<1> QED BY <1>1 DEF NextInv

(* No step takes the round robin position out of range.                    *)
LEMMA NextStep ==
  ASSUME TypeOK, NextInv, Next
  PROVE  NextInv'
<1>1. ASSUME NEW a \in Accept, SendConn(a)
      PROVE  NextInv'
  <2> DEFINE ws == aworkers[a]
             rest == SwapRemove(ws, next[a] + 1)
  <2>1. aworkers \in [Accept -> Seq(Entry)] /\ next \in [Accept -> Nat]
    BY DEF TypeOK, AcceptType
  <2>2. ws # <<>> => /\ Len(ws) \in Nat \ {0} /\ next[a] < Len(ws)
                     /\ rest \in Seq(Entry) /\ Len(rest) = Len(ws) - 1
    BY <2>1, SwapRemoveType DEF NextInv
  <2>3. \/ aworkers' = aworkers /\ next' = next
        \/ /\ ws # <<>> /\ aworkers' = aworkers
           /\ next' = [next EXCEPT ![a] = (next[a] + 1) % Len(ws)]
        \/ /\ ws # <<>> /\ rest = <<>> /\ next' = next
           /\ aworkers' = [aworkers EXCEPT ![a] = rest]
        \/ /\ ws # <<>> /\ rest # <<>>
           /\ next' = [next EXCEPT ![a] = NextAfterRemove(next[a], Len(rest))]
           /\ aworkers' = [aworkers EXCEPT ![a] = rest]
    BY <1>1 DEF SendConn
  <2>4. next'[a] = 0 \/ next'[a] < Len(aworkers'[a])
    <3>1. ws # <<>> => (next[a] + 1) % Len(ws) < Len(ws)
      BY <2>1, <2>2
    <3>2. rest # <<>> /\ ws # <<>> => NextAfterRemove(next[a], Len(rest)) < Len(rest)
      BY <2>1, <2>2 DEF NextAfterRemove
    <3> QED BY <2>1, <2>2, <2>3, <3>1, <3>2 DEF NextInv
  <2>5. \A b \in Accept \ {a} : aworkers'[b] = aworkers[b] /\ next'[b] = next[b]
    BY <2>1, <2>3
  <2> QED BY <2>4, <2>5 DEF NextInv
<1>2. ASSUME NEW a \in Accept, CmdEvent(a)
      PROVE  NextInv'
  <2>1. aworkers \in [Accept -> Seq(Entry)] /\ next \in [Accept -> Nat]
    BY DEF TypeOK, AcceptType
  <2>2. next' = next /\ \/ aworkers' = aworkers
                        \/ \E e \in Entry : aworkers' = [aworkers EXCEPT ![a] = Append(@, e)]
    <3>1. Head(cmds[a]).cmd = "worker" => Head(cmds[a]).entry \in Entry
      BY <1>2 DEF CmdEvent, TypeOK, AcceptType, Command
    <3> QED BY <1>2, <3>1 DEF CmdEvent
  <2>3. CASE aworkers' = aworkers
    BY <2>2, <2>3 DEF NextInv
  <2>4. ASSUME NEW e \in Entry, aworkers' = [aworkers EXCEPT ![a] = Append(@, e)]
        PROVE  NextInv'
    BY <2>1, <2>2, <2>4 DEF NextInv
  <2> QED BY <2>2, <2>3, <2>4
<1>3. CASE UNCHANGED <<aworkers, next>>
  BY <1>3 DEF NextInv
<1> QED BY ZenonT(30), <1>1, <1>2, <1>3
   DEF Next, AcceptStep, WorkerStep, ServerStep, Environment, Poll, SrvEvent,
       AcceptStd, Connect, AcceptErrorConn, AcceptErrorLoop, WorkerConn,
       ChannelDone, StopWorker, ShutdownTimer, StopArbiter, WorkerPanics,
       ThreadEnds, WorkerDied, StopReply, SystemExit, PauseServer, ResumeServer,
       StopServer

(* A command is sent before its readiness is raised: none is raised alone. *)
LEMMA CommandSend ==
  ASSUME TypeOK, CommandForEvent, NEW c, SendToAccept(c), UNCHANGED events
  PROVE  CommandForEvent'
<1> SUFFICES ASSUME NEW b \in Accept
             PROVE  (IF "CMD" \in events[b] THEN 1 ELSE 0)
                      + (IF cmdReady'[b] THEN 1 ELSE 0) <= Len(cmds'[b])
  BY DEF CommandForEvent
<1>1. cmds[b] \in Seq(Command) /\ Len(cmds[b]) \in Nat
  BY DEF TypeOK, AcceptType
<1>2. CASE Running(b)
  <2>1. Len(cmds'[b]) = Len(cmds[b]) + 1
    BY <1>1, <1>2 DEF SendToAccept
  <2> QED BY <1>1, <2>1 DEF CommandForEvent
<1>3. CASE ~Running(b)
  <2>1. cmds'[b] = cmds[b] /\ cmdReady'[b] = FALSE
    BY <1>3 DEF SendToAccept
  <2> QED BY <1>1, <2>1 DEF CommandForEvent
<1> QED BY <1>2, <1>3

(* No step consumes a command without consuming its event.                 *)
LEMMA CommandStep ==
  ASSUME TypeOK, CommandForEvent, Next
  PROVE  CommandForEvent'
<1>0. /\ cmds \in [Accept -> Seq(Command)] /\ cmdReady \in [Accept -> BOOLEAN]
      /\ events \in [Accept -> SUBSET {"SRV", "CMD"}]
  BY DEF TypeOK, AcceptType
<1>1. ASSUME NEW a \in Accept, Poll(a)
      PROVE  CommandForEvent'
  BY <1>0, <1>1 DEF Poll, CommandForEvent
<1>2. ASSUME NEW a \in Accept, SrvEvent(a)
      PROVE  CommandForEvent'
  BY <1>0, <1>2 DEF SrvEvent, CommandForEvent
<1>3. ASSUME NEW a \in Accept, CmdEvent(a)
      PROVE  CommandForEvent'
  <2>1. Len(Tail(cmds[a])) = Len(cmds[a]) - 1 /\ Len(cmds[a]) \in Nat
    BY <1>0, <1>3, TailType DEF CmdEvent
  <2>2. \/ /\ cmds' = [cmds EXCEPT ![a] = Tail(cmds[a])]
           /\ events' = [events EXCEPT ![a] = events[a] \ {"CMD"}]
           /\ cmdReady' = cmdReady
        \/ /\ cmds' = [cmds EXCEPT ![a] = <<>>]
           /\ events' = [events EXCEPT ![a] = {}]
           /\ cmdReady' = [cmdReady EXCEPT ![a] = FALSE]
    BY <1>3 DEF CmdEvent
  <2>3. "CMD" \in events[a]
    BY <1>3 DEF CmdEvent
  <2>4. (IF "CMD" \in events'[a] THEN 1 ELSE 0) + (IF cmdReady'[a] THEN 1 ELSE 0)
          <= Len(cmds'[a])
    BY <1>0, <2>1, <2>2, <2>3 DEF CommandForEvent
  <2>5. \A b \in Accept \ {a} : /\ cmds'[b] = cmds[b] /\ events'[b] = events[b]
                                 /\ cmdReady'[b] = cmdReady[b]
    BY <1>0, <2>2
  <2> QED BY <2>4, <2>5 DEF CommandForEvent
<1>4. CASE PauseServer
  BY <1>4, CommandSend DEF PauseServer
<1>5. CASE ResumeServer
  BY <1>5, CommandSend DEF ResumeServer
<1>6. CASE WorkerDied
  <2>1. CASE UNCHANGED <<cmds, cmdReady>>
    BY <1>6, <2>1 DEF WorkerDied, CommandForEvent
  <2>2. CASE \E e : SendToAccept(WorkerCmd(e))
    BY <1>6, <2>2, CommandSend DEF WorkerDied
  <2> QED BY Zenon, <1>6, <2>1, <2>2 DEF WorkerDied
<1>7. ASSUME NEW graceful \in BOOLEAN, NEW sig \in BOOLEAN, StopServer(graceful, sig)
      PROVE  CommandForEvent'
  BY <1>7, CommandSend DEF StopServer
<1>8. CASE UNCHANGED <<cmds, events, cmdReady>>
  BY <1>8 DEF CommandForEvent
<1> QED BY Zenon, <1>1, <1>2, <1>3, <1>4, <1>5, <1>6, <1>7, <1>8
   DEF Next, AcceptStep, WorkerStep, ServerStep, Environment,
       AcceptStd, SendConn, Connect, AcceptErrorConn, AcceptErrorLoop, WorkerConn,
       ChannelDone, StopWorker, ShutdownTimer, StopArbiter, WorkerPanics,
       ThreadEnds, StopReply, SystemExit

(* The server names only workers it has started.                           *)
OnlyStarted == \A i \in 1..Len(workers) : workers[i].w <= started

(* Indices stay distinct, and only started workers are listed.             *)
LEMMA WorkersStep ==
  ASSUME TypeOK, IndexFound, DistinctIdx, OnlyStarted, Next
  PROVE  DistinctIdx' /\ OnlyStarted'
<1>0. workers \in Seq(Entry) /\ started \in Nat
  BY ServerAssumption DEF TypeOK, ServerType, WorkerType
<1>1. CASE WorkerDied
  <2>1. CASE UNCHANGED <<workers, started>>
    BY <2>1 DEF DistinctIdx, OnlyStarted
  <2>2. ASSUME NEW i \in 1..Len(workers), started' = started + 1,
               LET rest == SwapRemove(workers, i)
                   e == [idx |-> NewIdx(rest), w |-> started + 1]
               IN  workers' = Listed(rest, e)
        PROVE  DistinctIdx' /\ OnlyStarted'
    <3> DEFINE rest == SwapRemove(workers, i)
               e == [idx |-> NewIdx(rest), w |-> started + 1]
               n == Len(workers)
    <3>1. /\ rest \in Seq(Entry) /\ Len(rest) = n - 1 /\ n \in Nat
          /\ \A j \in 1..n - 1 : rest[j] = IF j = i THEN workers[n] ELSE workers[j]
      <4>1. n \in Nat
        BY <1>0
      <4>2. /\ rest \in Seq(Entry) /\ Len(rest) = Len(workers) - 1
            /\ \A j \in 1..Len(workers) - 1 :
                 rest[j] = IF j = i THEN workers[Len(workers)] ELSE workers[j]
        <5> HIDE DEF rest
        <5>1. rest = SwapRemove(workers, i)
          BY DEF rest
        <5> QED BY Zenon, <1>0, <2>2, <5>1, SwapRemoveType
      <4> QED BY <4>1, <4>2
    <3>2. NewIdx(rest) \notin Idxs(rest)
      BY <3>1 DEF IndexFound
    <3>3. workers' = Append(rest, e)
      BY <2>2 DEF Listed
    <3> HIDE DEF rest
    <3>4. Len(workers') = n /\ workers'[n] = e
      BY <3>1, <3>3
    <3>5. \A j \in 1..n - 1 : workers'[j] = rest[j]
      BY <3>1, <3>3
    <3>6. \A j, k \in 1..n - 1 : rest[j].idx = rest[k].idx => j = k
      BY SMTT(30), <3>1 DEF DistinctIdx
    <3>7. \A j \in 1..n - 1 : rest[j].idx # e.idx
      BY <3>1, <3>2 DEF Idxs
    <3>8. \A j \in 1..n - 1 : rest[j].w <= started
      BY <3>1 DEF OnlyStarted
    <3> HIDE DEF e, n
    <3>9. e.w = started + 1
      BY DEF e
    <3>10. DistinctIdx'
      BY <3>1, <3>4, <3>5, <3>6, <3>7 DEF DistinctIdx
    <3>11. OnlyStarted'
      <4>1. \A j \in 1..n : workers'[j].w <= started + 1
        <5> SUFFICES ASSUME NEW j \in 1..n PROVE workers'[j].w <= started + 1
          OBVIOUS
        <5>1. CASE j = n
          BY <1>0, <3>4, <3>9, <5>1
        <5>2. CASE j \in 1..n - 1
          <6>0. rest[j] \in Entry
            BY <3>1, <5>2
          <6>1. rest[j].w \in Nat
            BY <6>0 DEF Entry
          <6> QED BY <1>0, <3>5, <3>8, <5>2, <6>1
        <5> QED BY <3>1, <5>1, <5>2
      <4> QED BY <2>2, <3>4, <4>1 DEF OnlyStarted
    <3> QED BY <3>10, <3>11
  <2> QED BY Zenon, <1>1, <2>1, <2>2 DEF WorkerDied
<1>2. CASE StopReply
  <2>1. /\ Len(workers') \in Nat /\ Len(workers') <= Len(workers)
        /\ \A i \in 1..Len(workers') : workers'[i] = workers[i]
    <3>1. CASE workers = <<>>
      BY <1>2, <3>1 DEF StopReply
    <3>2. CASE workers # <<>>
      <4>1. workers' = SubSeq(workers, 1, Len(workers) - 1)
        BY <1>2, <3>2 DEF StopReply
      <4>2. Len(workers) \in Nat \ {0}
        BY <1>0, <3>2
      <4>3. /\ Len(SubSeq(workers, 1, Len(workers) - 1)) = Len(workers) - 1
            /\ \A i \in 1..Len(workers) - 1 :
                 SubSeq(workers, 1, Len(workers) - 1)[i] = workers[i]
        BY <1>0, <3>2, ButLast
      <4> QED BY <4>1, <4>2, <4>3
    <3> QED BY <3>1, <3>2
  <2>2. started' = started
    BY <1>2 DEF StopReply
  <2>3. Len(workers) \in Nat
    BY <1>0
  <2>4. \A i \in 1..Len(workers') : i \in 1..Len(workers)
    BY <2>1, <2>3
  <2>5. DistinctIdx'
    BY <2>1, <2>4 DEF DistinctIdx
  <2>6. OnlyStarted'
    BY <2>1, <2>2, <2>4 DEF OnlyStarted
  <2> QED BY <2>5, <2>6
<1>3. CASE UNCHANGED <<workers, started>>
  BY <1>3 DEF DistinctIdx, OnlyStarted
<1> QED BY Zenon, <1>1, <1>2, <1>3
   DEF Next, AcceptStep, WorkerStep, ServerStep, Environment, Poll, SrvEvent,
       AcceptStd, SendConn, CmdEvent, Connect, AcceptErrorConn, AcceptErrorLoop,
       WorkerConn, ChannelDone, StopWorker, ShutdownTimer, StopArbiter,
       WorkerPanics, ThreadEnds, SystemExit, PauseServer, ResumeServer, StopServer
=============================================================================
