------------------------- MODULE HttpServerTracking -------------------------
(***************************************************************************)
(* No step of HttpServer loses sight of a worker, and none makes an accept *)
(* thread panic unless ResumeServer is misused.                            *)
(***************************************************************************)
EXTENDS HttpServerSteps

USE DEF Worker, Spend, serverVars, workerVars, acceptVars

(* A command reaches every running thread and overtakes none.              *)
LEMMA KnownSend ==
  ASSUME TypeOK, NEW b \in Accept, NEW c, Running(b), SendToAccept(c)
  PROVE  /\ Len(cmds'[b]) = Len(cmds[b]) + 1 /\ Len(cmds[b]) \in Nat
         /\ cmds'[b][Len(cmds[b]) + 1] = c
         /\ \A j \in 1..Len(cmds[b]) : cmds'[b][j] = cmds[b][j]
<1>1. cmds[b] \in Seq(Command) /\ cmds'[b] = Append(cmds[b], c)
  BY DEF TypeOK, AcceptType, SendToAccept
<1> QED BY <1>1

(* An accept thread loses a worker from its list only by reporting it.     *)
LEMMA KnownSendConn ==
  ASSUME TypeOK, NextInRange, NEW a \in Accept, SendConn(a),
         NEW b \in Accept, NEW e \in Entry, KnownTo(b, e)
  PROVE  KnownTo(b, e)'
<1>0. aworkers \in [Accept -> Seq(Entry)] /\ next \in [Accept -> Nat] /\ died \in Seq(Nat)
  BY DEF TypeOK, AcceptType, ServerType
<1>1. UNCHANGED <<cmds, status>>
  BY DEF SendConn
<1> DEFINE k == next[a] + 1
           ws == aworkers[a]
<1>2. CASE UNCHANGED <<died, aworkers>>
  BY <1>1, <1>2 DEF KnownTo, Alive
<1>3. CASE /\ ws # <<>> /\ ~Alive(ws[k].w)
           /\ died' = Append(died, ws[k].idx)
           /\ aworkers' = [aworkers EXCEPT ![a] = SwapRemove(ws, k)]
  <2>1. k \in 1..Len(ws) /\ ws \in Seq(Entry) /\ ws[k] \in Entry
    BY <1>0, <1>3 DEF NextInRange
  <2>2. /\ Len(died') = Len(died) + 1 /\ died'[Len(died) + 1] = ws[k].idx
        /\ \A j \in 1..Len(died) : died'[j] = died[j]
        /\ Len(died) \in Nat
    <3>1. died' = Append(died, ws[k].idx) /\ ws[k].idx \in Nat /\ died \in Seq(Nat)
      BY SMTT(30), <1>0, <1>3, <2>1 DEF Entry
    <3> HIDE DEF k, ws
    <3> QED BY <3>1
  <2>3. ASSUME NEW j \in 1..Len(died), ~Alive(e.w), died[j] = e.idx
        PROVE  KnownTo(b, e)'
    <3>1. j \in 1..Len(died')
      BY <2>2
    <3>2. died'[j] = e.idx
      BY <2>2, <2>3
    <3> QED BY <1>1, <2>3, <3>1, <3>2 DEF KnownTo, Alive
  <2>4. ASSUME NEW j \in 1..Len(cmds[b]), cmds[b][j] = WorkerCmd(e)
        PROVE  KnownTo(b, e)'
    BY <1>1, <2>4 DEF KnownTo
  <2>5. ASSUME NEW j \in 1..Len(aworkers[b]), aworkers[b][j] = e
        PROVE  KnownTo(b, e)'
    <3>1. CASE b # a
      BY <1>0, <1>3, <2>5, <3>1 DEF KnownTo
    <3>2. CASE b = a /\ j = k
      <4>1. ~Alive(e.w)' /\ Len(died) + 1 \in 1..Len(died') /\ died'[Len(died) + 1] = e.idx
        BY <1>1, <1>3, <2>2, <2>5, <3>2 DEF Alive
      <4> QED BY <4>1 DEF KnownTo
    <3>3. CASE b = a /\ j # k
      <4>1. \E i \in 1..Len(SwapRemove(ws, k)) : SwapRemove(ws, k)[i] = e
        BY <2>1, <2>5, <3>3, SwapRemoveKeeps
      <4>2. aworkers'[b] = SwapRemove(ws, k)
        BY <1>0, <1>3, <3>3
      <4> QED BY <4>1, <4>2 DEF KnownTo
    <3> QED BY <3>1, <3>2, <3>3
  <2> QED BY <2>3, <2>4, <2>5 DEF KnownTo
<1> QED BY <1>2, <1>3 DEF SendConn

(* A command that is read and announces a worker adds it to the list.      *)
LEMMA KnownCmdEvent ==
  ASSUME TypeOK, NEW a \in Accept, CmdEvent(a),
         NEW b \in Accept, NEW e \in Entry, KnownTo(b, e), Running(b)'
  PROVE  KnownTo(b, e)'
<1>0. /\ aworkers \in [Accept -> Seq(Entry)] /\ cmds \in [Accept -> Seq(Command)]
      /\ DOMAIN pc = Accept
  BY DEF TypeOK, AcceptType
<1>1. UNCHANGED <<died, status>> /\ cmds[a] # <<>>
  BY DEF CmdEvent
<1> DEFINE c == Head(cmds[a])
<1>2. \/ \E how \in {"stopped", "panicked"} : pc' = [pc EXCEPT ![a] = how]
      \/ /\ cmds' = [cmds EXCEPT ![a] = Tail(cmds[a])]
         /\ c.cmd # "worker" /\ aworkers' = aworkers
      \/ /\ cmds' = [cmds EXCEPT ![a] = Tail(cmds[a])]
         /\ c.cmd = "worker" /\ aworkers' = [aworkers EXCEPT ![a] = Append(aworkers[a], c.entry)]
  BY DEF CmdEvent
<1>3. b # a => aworkers'[b] = aworkers[b] /\ cmds'[b] = cmds[b]
  BY <1>0 DEF CmdEvent
<1>4. CASE b # a
  BY <1>1, <1>3, <1>4 DEF KnownTo, Alive
<1>5. CASE b = a
  <2>1. ~\E how \in {"stopped", "panicked"} : pc' = [pc EXCEPT ![a] = how]
    BY <1>0, <1>5 DEF Running
  <2>2. /\ cmds'[a] = Tail(cmds[a])
        /\ \/ c.cmd # "worker" /\ aworkers'[a] = aworkers[a]
           \/ c.cmd = "worker" /\ aworkers'[a] = Append(aworkers[a], c.entry)
    BY SMTT(30), <1>0, <1>2, <2>1
  <2>3. /\ c = cmds[a][1] /\ Len(cmds[a]) \in Nat
        /\ Len(Tail(cmds[a])) = Len(cmds[a]) - 1
        /\ \A j \in 1..Len(cmds[a]) - 1 : Tail(cmds[a])[j] = cmds[a][j + 1]
    BY <1>0, <1>1, TailType
  <2>4. c.cmd = "worker" => c.entry \in Entry
    <3>1. c \in Command
      BY <1>0, <1>1
    <3> QED BY <3>1 DEF Command
  <2>5. /\ Len(aworkers[a]) \in Nat /\ Len(aworkers'[a]) \in Nat
        /\ Len(aworkers'[a]) >= Len(aworkers[a])
        /\ \A j \in 1..Len(aworkers[a]) : aworkers'[a][j] = aworkers[a][j]
        /\ c.cmd = "worker" => /\ Len(aworkers'[a]) = Len(aworkers[a]) + 1
                               /\ aworkers'[a][Len(aworkers[a]) + 1] = c.entry
    BY SMTT(30), <1>0, <2>2, <2>4
  <2> HIDE DEF c
  <2>6. ASSUME NEW j \in 1..Len(aworkers[a]), aworkers[a][j] = e
        PROVE  KnownTo(b, e)'
    BY <1>5, <2>5, <2>6 DEF KnownTo
  <2>7. ASSUME NEW j \in 1..Len(cmds[a]), cmds[a][j] = WorkerCmd(e)
        PROVE  KnownTo(b, e)'
    <3>1. CASE j = 1
      <4>1. c.cmd = "worker" /\ c.entry = e
        BY <2>3, <2>7, <3>1 DEF WorkerCmd
      <4> QED BY <1>5, <2>5, <4>1 DEF KnownTo
    <3>2. CASE j # 1
      <4>1. j - 1 \in 1..Len(cmds'[a]) /\ cmds'[a][j - 1] = WorkerCmd(e)
        BY <2>2, <2>3, <2>7, <3>2
      <4> QED BY <1>5, <4>1 DEF KnownTo
    <3> QED BY <3>1, <3>2
  <2>8. CASE ~Alive(e.w) /\ \E j \in 1..Len(died) : died[j] = e.idx
    BY <1>1, <2>8 DEF KnownTo, Alive
  <2> QED BY <1>5, <2>6, <2>7, <2>8 DEF KnownTo
<1> QED BY <1>4, <1>5

(* A dead worker stays dead: its name is not used again.                   *)
LEMMA KnownDeath ==
  ASSUME TypeOK, NEW w \in Worker,
         StopArbiter(w) \/ WorkerPanics(w)
         \/ \E i \in 1..Len(timers[w]) : ShutdownTimer(w, i),
         NEW b \in Accept, NEW e \in Entry, KnownTo(b, e)
  PROVE  KnownTo(b, e)'
<1>1. UNCHANGED <<aworkers, cmds, died>>
  BY DEF StopArbiter, WorkerPanics, ThreadEnds, ShutdownTimer
<1>2. status \in [Worker -> {"new", "up", "stopping", "down"}] /\ e.w \in Worker
  BY DEF TypeOK, WorkerType, Entry
<1>3. ~Alive(e.w) => ~Alive(e.w)'
  <2>1. CASE status' = [status EXCEPT ![w] = "down"]
    BY <1>2, <2>1 DEF Alive
  <2>2. CASE status' = status
    BY <2>2 DEF Alive
  <2>3. CASE Alive(w) /\ status' = [status EXCEPT ![w] = "stopping"]
    BY <1>2, <2>3 DEF Alive
  <2> QED BY <2>1, <2>2, <2>3 DEF StopArbiter, WorkerPanics, ThreadEnds, ShutdownTimer
<1> QED BY <1>1, <1>3 DEF KnownTo

(* What the server and its workers do with messages touches no list.       *)
LEMMA KnownMessage ==
  ASSUME TypeOK, NEW c, SendToAccept(c), UNCHANGED <<aworkers, died, status>>,
         NEW b \in Accept, NEW e \in Entry, Running(b), KnownTo(b, e)
  PROVE  KnownTo(b, e)'
<1>1. ASSUME NEW j \in 1..Len(cmds[b]), cmds[b][j] = WorkerCmd(e)
      PROVE  KnownTo(b, e)'
  <2>1. /\ Len(cmds'[b]) = Len(cmds[b]) + 1 /\ Len(cmds[b]) \in Nat
        /\ cmds'[b][j] = cmds[b][j]
    BY KnownSend
  <2>2. j \in 1..Len(cmds'[b])
    BY <2>1
  <2> QED BY <1>1, <2>1, <2>2 DEF KnownTo
<1> QED BY <1>1 DEF KnownTo, Alive

(* WorkerDied drops a report; it concerns no worker that stays.            *)
LEMMA KnownReport ==
  ASSUME TypeOK, WorkerDied, NEW b \in Accept, Running(b),
         NEW e \in Entry, KnownTo(b, e), e.idx # Head(died), e.w <= started
  PROVE  KnownTo(b, e)'
<1>0. /\ died \in Seq(Nat) /\ died # <<>> /\ died' = Tail(died) /\ aworkers' = aworkers
      /\ started \in Nat /\ status \in [Worker -> {"new", "up", "stopping", "down"}]
      /\ e.w \in Nat
  <2>1. died \in Seq(Nat) /\ died # <<>> /\ died' = Tail(died) /\ aworkers' = aworkers
    BY DEF WorkerDied, TypeOK, ServerType
  <2>2. started \in Nat /\ status \in [Worker -> {"new", "up", "stopping", "down"}]
    BY ServerAssumption DEF TypeOK, WorkerType
  <2>3. e.w \in Nat
    BY DEF Entry
  <2> QED BY <2>1, <2>2, <2>3
<1>1. Alive(e.w)' = Alive(e.w)
  <2>1. \/ status' = status
        \/ status' = [status EXCEPT ![started + 1] = "up"]
    BY Zenon DEF WorkerDied
  <2>2. e.w # started + 1
    BY <1>0
  <2>3. status'[e.w] = status[e.w]
    BY Zenon, <1>0, <2>1, <2>2 DEF Entry
  <2> QED BY <2>3 DEF Alive
<1>2. ASSUME NEW j \in 1..Len(cmds[b]), cmds[b][j] = WorkerCmd(e)
      PROVE  KnownTo(b, e)'
  <2>1. CASE cmds' = cmds
    BY <1>2, <2>1 DEF KnownTo
  <2>2. CASE \E c : SendToAccept(c)
    <3>1. j \in 1..Len(cmds'[b]) /\ cmds'[b][j] = WorkerCmd(e)
      BY <1>2, <2>2, KnownSend
    <3> QED BY <3>1 DEF KnownTo
  <2> QED BY Zenon, <2>1, <2>2 DEF WorkerDied
<1>3. ASSUME NEW j \in 1..Len(died), ~Alive(e.w), died[j] = e.idx
      PROVE  KnownTo(b, e)'
  <2>1. j # 1
    BY <1>0, <1>3
  <2>2. j - 1 \in 1..Len(died') /\ died'[j - 1] = e.idx
    BY <1>0, <1>3, <2>1, TailType
  <2> QED BY <1>1, <1>3, <2>2 DEF KnownTo
<1> QED BY SMTT(30), <1>0, <1>2, <1>3 DEF KnownTo

(* Replacing a dead worker keeps every worker known to every thread.       *)
LEMMA TrackedWorkerDied ==
  ASSUME TypeOK, DistinctIdx, OnlyStarted, Tracked, WorkerDied
  PROVE  Tracked'
<1>0. workers \in Seq(Entry) /\ UNCHANGED pc
  BY DEF TypeOK, ServerType, WorkerDied
<1> SUFFICES ASSUME NEW b \in Accept, NEW k \in 1..Len(workers'), Running(b),
                    NEW m, m = workers'[k]
             PROVE  KnownTo(b, m)'
  BY ZenonT(30), <1>0 DEF Tracked, Running, KnownTo, Alive
<1>1. \A i \in 1..Len(workers) :
        /\ workers[i] \in Entry /\ KnownTo(b, workers[i]) /\ workers[i].w <= started
  BY <1>0 DEF Tracked, OnlyStarted
<1>2. ASSUME NEW i \in 1..Len(workers), m = workers[i], m.idx # Head(died)
      PROVE  KnownTo(b, m)'
  BY <1>1, <1>2, KnownReport
<1>3. CASE /\ {i \in 1..Len(workers) : workers[i].idx = Head(died)} = {}
           /\ workers' = workers
  BY <1>2, <1>3
<1>4. ASSUME NEW i \in 1..Len(workers), workers[i].idx = Head(died),
             LET rest == SwapRemove(workers, i)
                 e == [idx |-> NewIdx(rest), w |-> started + 1]
             IN  workers' = Listed(rest, e) /\ SendToAccept(WorkerCmd(e))
      PROVE  KnownTo(b, m)'
  <2> DEFINE rest == SwapRemove(workers, i)
             e == [idx |-> NewIdx(rest), w |-> started + 1]
             n == Len(workers)
  <2>0. workers' = Append(rest, e) /\ SendToAccept(WorkerCmd(e)) /\ n \in Nat
    BY <1>0, <1>4 DEF Listed
  <2>1. /\ rest \in Seq(Entry) /\ Len(rest) = n - 1
        /\ \A j \in 1..n - 1 : rest[j] = IF j = i THEN workers[n] ELSE workers[j]
    <3> HIDE DEF rest
    <3>1. rest = SwapRemove(workers, i)
      BY DEF rest
    <3> QED BY Zenon, <1>0, <1>4, <3>1, SwapRemoveType
  <2> HIDE DEF rest, e
  <2>2. Len(workers') = n /\ workers'[n] = e /\ \A j \in 1..n - 1 : workers'[j] = rest[j]
    BY <2>0, <2>1
  <2>3. CASE k = n
    <3>1. cmds'[b][Len(cmds[b]) + 1] = WorkerCmd(e) /\ Len(cmds[b]) + 1 \in 1..Len(cmds'[b])
      BY <2>0, KnownSend
    <3> QED BY <2>2, <2>3, <3>1 DEF KnownTo
  <2>4. CASE k # n
    <3>1. k \in 1..n - 1 /\ workers'[k] = rest[k]
      BY <2>0, <2>2, <2>4
    <3>2. PICK j \in 1..n : j # i /\ rest[k] = workers[j]
      <4>1. CASE k = i
        BY <2>0, <2>1, <3>1, <4>1, n # i, n \in 1..n
      <4>2. CASE k # i
        BY <2>0, <2>1, <3>1, <4>2
      <4> QED BY <4>1, <4>2
    <3>3. workers[j].idx # Head(died)
      BY <1>4, <3>2 DEF DistinctIdx
    <3> QED BY <1>2, <3>1, <3>2, <3>3
  <2> QED BY <2>3, <2>4
<1> QED BY Zenon, <1>3, <1>4 DEF WorkerDied

(* No step loses sight of a worker.                                        *)
LEMMA TrackedStep ==
  ASSUME TypeOK, NextInRange, DistinctIdx, OnlyStarted, Tracked, Next
  PROVE  Tracked'
<1>0. /\ workers \in Seq(Entry)
      /\ pc \in [Accept -> {"event", "accept", "send", "stopped", "panicked"}]
  BY DEF TypeOK, ServerType, AcceptType
<1>1. CASE WorkerDied
  BY <1>1, TrackedWorkerDied
<1>2. CASE StopReply
  <2>1. \A k \in 1..Len(workers') : k \in 1..Len(workers) /\ workers'[k] = workers[k]
    <3>1. CASE workers = <<>>
      BY <1>2, <3>1 DEF StopReply
    <3>2. CASE workers # <<>>
      <4>1. workers' = SubSeq(workers, 1, Len(workers) - 1)
        BY <1>2, <3>2 DEF StopReply
      <4>2. Len(workers) \in Nat \ {0}
        BY <1>0, <3>2
      <4> QED BY <1>0, <3>2, <4>1, <4>2, ButLast
    <3> QED BY <3>1, <3>2
  <2>2. UNCHANGED <<died, status, aworkers, cmds, pc>>
    BY <1>2 DEF StopReply
  <2>3. ASSUME NEW b \in Accept, Running(b)', NEW e, KnownTo(b, e)
        PROVE  Running(b) /\ KnownTo(b, e)'
    BY <2>2, <2>3 DEF KnownTo, Running, Alive
  <2>4. \A b \in Accept : Running(b)' => Running(b)
    BY <2>2 DEF Running
  <2>5. \A b \in Accept, i \in 1..Len(workers) : Running(b) => KnownTo(b, workers[i])
    BY DEF Tracked
  <2> SUFFICES ASSUME NEW b \in Accept, NEW i \in 1..Len(workers'), Running(b)',
                      NEW e, e = workers'[i]
               PROVE  KnownTo(b, e)'
    BY SMTT(30) DEF Tracked, KnownTo, Alive
  <2>6. KnownTo(b, e)
    BY <2>1, <2>4, <2>5
  <2> QED BY <2>3, <2>6
<1>3. CASE UNCHANGED <<workers, died, status, aworkers, cmds, pc>>
  BY SMTT(30), <1>3 DEF Tracked, KnownTo, Running, Alive
<1>4. ASSUME NEW a \in Accept, Poll(a) \/ SrvEvent(a) \/ AcceptStd(a) \/ AcceptErrorLoop(a)
      PROVE  Tracked'
  <2>1. UNCHANGED <<workers, died, status, aworkers, cmds>>
    BY SMTT(30), <1>4 DEF Poll, SrvEvent, AcceptStd, AcceptErrorLoop
  <2>2. \A b \in Accept : Running(b)' => Running(b)
    BY <1>0, <1>4 DEF Poll, SrvEvent, AcceptStd, AcceptErrorLoop, Running
  <2> QED BY ZenonT(30), <2>1, <2>2 DEF Tracked, KnownTo, Alive
<1>5. ASSUME UNCHANGED workers,
             \A b \in Accept : Running(b)' => Running(b),
             \A b \in Accept : \A e \in Entry :
               Running(b) /\ Running(b)' /\ KnownTo(b, e) => KnownTo(b, e)'
      PROVE  Tracked'
  <2>0. workers' = workers
    BY <1>5
  <2> SUFFICES ASSUME NEW b \in Accept, NEW k \in 1..Len(workers'), Running(b)',
                      NEW e, e = workers'[k]
               PROVE  KnownTo(b, e)'
    BY SMTT(30) DEF Tracked, KnownTo, Alive
  <2>1. Running(b) /\ KnownTo(b, e) /\ e \in Entry
    BY <1>0, <1>5, <2>0 DEF Tracked
  <2> QED BY <1>5, <2>1
<1>6. ASSUME NEW a \in Accept, SendConn(a)
      PROVE  Tracked'
  <2>1. UNCHANGED workers /\ \A b \in Accept : Running(b)' => Running(b)
    BY Zenon, <1>0, <1>6 DEF SendConn, Running
  <2> QED BY SMTT(30), <1>5, <1>6, <2>1, KnownSendConn
<1>7. ASSUME NEW a \in Accept, CmdEvent(a)
      PROVE  Tracked'
  <2>1. UNCHANGED workers /\ \A b \in Accept : Running(b)' => Running(b)
    BY <1>0, <1>7 DEF CmdEvent, Running
  <2> QED BY SMTT(30), <1>5, <1>7, <2>1, KnownCmdEvent
<1>8. ASSUME NEW w \in Worker,
             StopArbiter(w) \/ WorkerPanics(w)
             \/ \E i \in 1..Len(timers[w]) : ShutdownTimer(w, i)
      PROVE  Tracked'
  <2>1. UNCHANGED <<workers, pc>>
    BY <1>8 DEF StopArbiter, WorkerPanics, ThreadEnds, ShutdownTimer
  <2>2. \A b \in Accept : Running(b)' => Running(b)
    BY <2>1 DEF Running
  <2> QED BY <1>5, <1>8, <2>1, <2>2, KnownDeath
<1>9. ASSUME NEW c, SendToAccept(c), UNCHANGED <<workers, died, status, aworkers, pc>>
      PROVE  Tracked'
  <2>1. \A b \in Accept : Running(b)' => Running(b)
    BY <1>9 DEF Running
  <2> QED BY <1>5, <1>9, <2>1, KnownMessage
<1>10. CASE PauseServer
  BY <1>9, <1>10 DEF PauseServer
<1>11. CASE ResumeServer
  BY <1>9, <1>11 DEF ResumeServer
<1>12. ASSUME NEW graceful \in BOOLEAN, NEW sig \in BOOLEAN, StopServer(graceful, sig)
       PROVE  Tracked'
  BY <1>9, <1>12 DEF StopServer
<1> QED BY Zenon, <1>1, <1>2, <1>3, <1>4, <1>6, <1>7, <1>8, <1>10, <1>11, <1>12
   DEF Next, AcceptStep, WorkerStep, ServerStep, Environment, Connect,
       AcceptErrorConn, WorkerConn, ChannelDone, StopWorker, SystemExit

-----------------------------------------------------------------------------
(* ResumeServer binds a second listener only if the first one is gone.     *)

(* A thread that now listens (on) and reads the commands of s has no       *)
(* listener when it comes to the j-th: a pause was the last word on it.    *)
OffBefore(on, s, j) ==
  \/ ~on /\ \A k \in 1..j - 1 : s[k].cmd # "resume"
  \/ \E i \in 1..j - 1 : /\ s[i].cmd = "pause"
                          /\ \A k \in i + 1..j - 1 : s[k].cmd # "resume"

(* Every resume in s finds the listener gone.                              *)
ResumesFit(on, s) == \A j \in 1..Len(s) : s[j].cmd = "resume" => OffBefore(on, s, j)

(* As long as the operators do not misuse ResumeServer, no thread has      *)
(* panicked and none will: the commands it has not read fit its listener,  *)
(* and a server that believes itself paused has no listener in the end.    *)
ResumeInv ==
  ~misused => \A a \in Accept :
     /\ pc[a] # "panicked"
     /\ Running(a) => /\ ResumesFit(listening[a], cmds[a])
                      /\ paused => OffBefore(listening[a], cmds[a], Len(cmds[a]) + 1)

(* A command at the end changes nothing for those before it.               *)
LEMMA OffAppend ==
  ASSUME NEW s \in Seq(Command), NEW c \in Command, NEW on \in BOOLEAN,
         NEW j \in 1..Len(s) + 1
  PROVE  OffBefore(on, Append(s, c), j) <=> OffBefore(on, s, j)
<1>1. \A k \in 1..j - 1 : Append(s, c)[k] = s[k]
  OBVIOUS
<1>2. \A i \in 1..j - 1 : \A k \in i + 1..j - 1 : Append(s, c)[k] = s[k]
  OBVIOUS
<1> QED BY <1>1, <1>2 DEF OffBefore

(* Sending c: a resume fits if the listener is gone by then, and any other *)
(* command fits; a pause leaves the listener gone, a resume does not.      *)
LEMMA FitAppend ==
  ASSUME NEW s \in Seq(Command), NEW c \in Command, NEW on \in BOOLEAN,
         ResumesFit(on, s), c.cmd = "resume" => OffBefore(on, s, Len(s) + 1)
  PROVE  /\ ResumesFit(on, Append(s, c))
         /\ c.cmd = "pause" => OffBefore(on, Append(s, c), Len(s) + 2)
         /\ c.cmd # "resume" /\ OffBefore(on, s, Len(s) + 1)
              => OffBefore(on, Append(s, c), Len(s) + 2)
<1> DEFINE t == Append(s, c)
           n == Len(s)
<1>0. /\ n \in Nat /\ Len(t) = n + 1 /\ t[n + 1] = c
      /\ \A k \in 1..n : t[k] = s[k]
  OBVIOUS
<1>1. \A j \in 1..n + 1 : OffBefore(on, t, j) <=> OffBefore(on, s, j)
  BY OffAppend
<1> HIDE DEF t, n
<1>2. ResumesFit(on, t)
  <2> SUFFICES ASSUME NEW j \in 1..Len(t), t[j].cmd = "resume"
               PROVE  OffBefore(on, t, j)
    BY DEF ResumesFit
  <2>1. CASE j = n + 1
    BY <1>0, <1>1, <2>1 DEF n
  <2>2. CASE j \in 1..n
    BY <1>0, <1>1, <2>2 DEF n, ResumesFit
  <2> QED BY <1>0, <2>1, <2>2
<1>3. ASSUME c.cmd = "pause"
      PROVE  OffBefore(on, t, n + 2)
  <2>1. n + 1 \in 1..(n + 2) - 1 /\ \A k \in (n + 1) + 1..(n + 2) - 1 : FALSE
    BY <1>0
  <2> QED BY <1>0, <1>3, <2>1 DEF OffBefore
<1>4. ASSUME c.cmd # "resume", OffBefore(on, s, n + 1)
      PROVE  OffBefore(on, t, n + 2)
  BY <1>0, <1>4 DEF OffBefore
<1> QED BY <1>2, <1>3, <1>4 DEF t, n

(* Reading the first command: what the others expect of the listener stays *)
(* true when the thread does what the command says.                        *)
LEMMA OffTail ==
  ASSUME NEW s \in Seq(Command), s # <<>>, NEW on \in BOOLEAN, NEW then \in BOOLEAN,
         then = CASE s[1].cmd = "pause" -> FALSE [] s[1].cmd = "resume" -> TRUE
                   [] OTHER -> on,
         NEW j \in Nat \ {0}, j <= Len(s), OffBefore(on, s, j + 1)
  PROVE  OffBefore(then, Tail(s), j)
<1>1. /\ Len(s) \in Nat /\ Len(Tail(s)) = Len(s) - 1
      /\ \A k \in 1..Len(s) - 1 : Tail(s)[k] = s[k + 1]
  BY TailType
<1>2. CASE ~on /\ \A k \in 1..j : s[k].cmd # "resume"
  <2>1. ~then /\ \A k \in 1..j - 1 : Tail(s)[k].cmd # "resume"
    BY <1>1, <1>2
  <2> QED BY <2>1 DEF OffBefore
<1>3. ASSUME NEW i \in 1..j, s[i].cmd = "pause", \A k \in i + 1..j : s[k].cmd # "resume"
      PROVE  OffBefore(then, Tail(s), j)
  <2>1. CASE i = 1
    <3>1. ~then /\ \A k \in 1..j - 1 : Tail(s)[k].cmd # "resume"
      BY <1>1, <1>3, <2>1
    <3> QED BY <3>1 DEF OffBefore
  <2>2. CASE i # 1
    <3>1. /\ i - 1 \in 1..j - 1 /\ Tail(s)[i - 1].cmd = "pause"
          /\ \A k \in (i - 1) + 1..j - 1 : Tail(s)[k].cmd # "resume"
      BY <1>1, <1>3, <2>2
    <3> QED BY <3>1 DEF OffBefore
  <2> QED BY <2>1, <2>2
<1>4. (j + 1) - 1 = j
  OBVIOUS
<1> QED BY <1>2, <1>3, <1>4 DEF OffBefore

(* The same for every resume among them.                                   *)
LEMMA FitTail ==
  ASSUME NEW s \in Seq(Command), s # <<>>, NEW on \in BOOLEAN, NEW then \in BOOLEAN,
         then = CASE s[1].cmd = "pause" -> FALSE [] s[1].cmd = "resume" -> TRUE
                   [] OTHER -> on,
         ResumesFit(on, s)
  PROVE  ResumesFit(then, Tail(s))
<1>1. /\ Len(s) \in Nat /\ Len(Tail(s)) = Len(s) - 1
      /\ \A k \in 1..Len(s) - 1 : Tail(s)[k] = s[k + 1]
  BY TailType
<1> SUFFICES ASSUME NEW j \in 1..Len(Tail(s)), Tail(s)[j].cmd = "resume"
             PROVE  OffBefore(then, Tail(s), j)
  BY DEF ResumesFit
<1>2. j + 1 \in 1..Len(s) /\ s[j + 1].cmd = "resume" /\ j \in Nat \ {0} /\ j <= Len(s)
  BY <1>1
<1>3. OffBefore(on, s, j + 1)
  BY <1>2 DEF ResumesFit
<1> QED BY <1>2, <1>3, OffTail

(* The server sends a command to every running thread.                     *)
LEMMA ResumeSend ==
  ASSUME TypeOK, ResumeInv, NEW c \in Command, SendToAccept(c),
         UNCHANGED <<pc, listening>>,
         \/ c.cmd = "pause" /\ misused' = misused
         \/ c.cmd = "resume" /\ misused' = (misused \/ ~paused) /\ paused' = FALSE
         \/ c.cmd \notin {"pause", "resume"} /\ UNCHANGED <<paused, misused>>
  PROVE  ResumeInv'
<1> SUFFICES ASSUME ~misused', NEW a \in Accept
             PROVE  /\ pc[a] # "panicked"
                    /\ Running(a) =>
                         /\ ResumesFit(listening[a], cmds'[a])
                         /\ paused' => OffBefore(listening[a], cmds'[a], Len(cmds'[a]) + 1)
  BY DEF ResumeInv, Running
<1>1. ~misused /\ (c.cmd = "resume" => paused)
  BY DEF TypeOK, ServerType
<1>2. pc[a] # "panicked"
  BY <1>1 DEF ResumeInv
<1>3. ASSUME Running(a)
      PROVE  /\ ResumesFit(listening[a], cmds'[a])
             /\ paused' => OffBefore(listening[a], cmds'[a], Len(cmds'[a]) + 1)
  <2>1. /\ cmds[a] \in Seq(Command) /\ listening[a] \in BOOLEAN
        /\ cmds'[a] = Append(cmds[a], c)
    BY <1>3 DEF TypeOK, AcceptType, SendToAccept
  <2>2. Len(cmds'[a]) + 1 = Len(cmds[a]) + 2
    BY <2>1
  <2>3. /\ ResumesFit(listening[a], cmds[a])
        /\ paused => OffBefore(listening[a], cmds[a], Len(cmds[a]) + 1)
    BY <1>1, <1>3 DEF ResumeInv
  <2>4. /\ ResumesFit(listening[a], cmds'[a])
        /\ c.cmd = "pause" => OffBefore(listening[a], cmds'[a], Len(cmds[a]) + 2)
        /\ c.cmd # "resume" /\ OffBefore(listening[a], cmds[a], Len(cmds[a]) + 1)
              => OffBefore(listening[a], cmds'[a], Len(cmds[a]) + 2)
    BY <1>1, <2>1, <2>3, FitAppend
  <2> QED BY <2>2, <2>3, <2>4
<1> QED BY <1>2, <1>3

(* An accept thread that reads a command follows it.                       *)
LEMMA ResumeCmdEvent ==
  ASSUME TypeOK, ResumeInv, NEW a \in Accept, CmdEvent(a)
  PROVE  ResumeInv'
<1>0. /\ cmds \in [Accept -> Seq(Command)] /\ listening \in [Accept -> BOOLEAN]
      /\ DOMAIN pc = Accept /\ cmds[a] # <<>> /\ Running(a)
      /\ UNCHANGED <<misused, paused>>
  BY DEF TypeOK, AcceptType, CmdEvent, Running
<1> DEFINE s == cmds[a]
           c == Head(s)
<1>1. s \in Seq(Command) /\ c = s[1] /\ Len(s) \in Nat /\ Len(s) # 0
      /\ listening[a] \in BOOLEAN /\ c \in Command
  BY <1>0
<1>2. c.cmd \in {"pause", "resume", "stop", "worker"}
  BY <1>1 DEF Command
<1> SUFFICES ASSUME ~misused, NEW b \in Accept
             PROVE  /\ pc'[b] # "panicked"
                    /\ Running(b)' =>
                         /\ ResumesFit(listening'[b], cmds'[b])
                         /\ paused => OffBefore(listening'[b], cmds'[b], Len(cmds'[b]) + 1)
  BY <1>0 DEF ResumeInv
<1>3. /\ ResumesFit(listening[a], s)
      /\ paused => OffBefore(listening[a], s, Len(s) + 1)
  BY <1>0 DEF ResumeInv
<1>4. CASE b # a
  <2>1. pc'[b] = pc[b] /\ listening'[b] = listening[b] /\ cmds'[b] = cmds[b]
    BY <1>0, <1>4 DEF CmdEvent
  <2> QED BY <2>1 DEF ResumeInv, Running
<1>5. CASE b = a
  <2>1. c.cmd = "resume" => ~listening[a]
    <3>1. ASSUME c.cmd = "resume" PROVE OffBefore(listening[a], s, 1)
      BY <1>1, <1>3, <3>1 DEF ResumesFit
    <3> QED BY <3>1 DEF OffBefore
  <2>2. CASE c.cmd = "stop"
    BY <1>0, <1>5, <2>2 DEF CmdEvent, Running
  <2>3. CASE c.cmd # "stop"
    <3> DEFINE on == CASE s[1].cmd = "pause" -> FALSE [] s[1].cmd = "resume" -> TRUE
                       [] OTHER -> listening[a]
    <3>1. /\ pc'[a] # "panicked" /\ cmds'[a] = Tail(s)
          /\ listening'[a] = on /\ on \in BOOLEAN
      <4>1. CASE c.cmd = "pause"
        BY <1>0, <1>1, <4>1 DEF CmdEvent, ListenerTaken
      <4>2. CASE c.cmd = "resume"
        BY <1>0, <1>1, <2>1, <4>2 DEF CmdEvent
      <4>3. CASE c.cmd = "worker"
        BY <1>0, <1>1, <4>3 DEF CmdEvent
      <4> QED BY <1>2, <2>3, <4>1, <4>2, <4>3
    <3>2. s \in Seq(Command) /\ s # <<>> /\ listening[a] \in BOOLEAN
      BY <1>0, <1>1
    <3>3. Len(s) \in Nat \ {0} /\ Len(s) <= Len(s) /\ Len(Tail(s)) + 1 = Len(s)
      BY <1>1, <3>2, TailType
    <3> HIDE DEF s
    <3>4. ResumesFit(on, Tail(s))
      BY <1>3, <3>1, <3>2, FitTail
    <3>5. paused => OffBefore(on, Tail(s), Len(s))
      BY <1>3, <3>1, <3>2, <3>3, OffTail
    <3> QED BY <1>5, <3>1, <3>3, <3>4, <3>5
  <2> QED BY <2>2, <2>3
<1> QED BY <1>4, <1>5

(* No step lets a thread panic unless ResumeServer is misused.             *)
LEMMA ResumeStep ==
  ASSUME TypeOK, IndexFound, ResumeInv, Next
  PROVE  ResumeInv'
<1>0. pc \in [Accept -> {"event", "accept", "send", "stopped", "panicked"}]
  BY DEF TypeOK, AcceptType
<1>1. ASSUME NEW a \in Accept, CmdEvent(a)
      PROVE  ResumeInv'
  BY <1>1, ResumeCmdEvent
<1>2. ASSUME UNCHANGED <<misused, paused, listening, cmds>>,
             \A a \in Accept : /\ pc'[a] = "panicked" <=> pc[a] = "panicked"
                               /\ Running(a)' => Running(a)
      PROVE  ResumeInv'
  BY <1>2 DEF ResumeInv
<1>3. ASSUME NEW a \in Accept,
             Poll(a) \/ SrvEvent(a) \/ AcceptStd(a) \/ SendConn(a) \/ AcceptErrorLoop(a)
      PROVE  ResumeInv'
  <2>1. UNCHANGED <<misused, paused, listening, cmds>>
    BY ZenonT(30), <1>3 DEF Poll, SrvEvent, AcceptStd, SendConn, AcceptErrorLoop
  <2>2. \/ pc' = pc
        \/ /\ pc[a] \in {"event", "accept", "send"}
           /\ \E q \in {"event", "accept", "send"} : pc' = [pc EXCEPT ![a] = q]
    BY <1>3 DEF Poll, SrvEvent, AcceptStd, SendConn, AcceptErrorLoop, AcceptMore
  <2>3. \A b \in Accept : /\ pc'[b] = "panicked" <=> pc[b] = "panicked"
                          /\ Running(b)' => Running(b)
    BY <1>0, <2>2 DEF Running
  <2> QED BY <1>2, <2>1, <2>3
<1>4. CASE UNCHANGED <<misused, paused, listening, cmds, pc>>
  BY <1>2, <1>4 DEF Running
<1>5. CASE PauseServer
  <2>1. Cmd("pause") \in Command /\ Cmd("pause").cmd = "pause"
    BY DEF Cmd, Command
  <2> QED BY <1>5, <2>1, ResumeSend DEF PauseServer
<1>6. CASE ResumeServer
  <2>1. Cmd("resume") \in Command /\ Cmd("resume").cmd = "resume"
    BY DEF Cmd, Command
  <2> QED BY <1>6, <2>1, ResumeSend DEF ResumeServer
<1>7. ASSUME NEW graceful \in BOOLEAN, NEW sig \in BOOLEAN, StopServer(graceful, sig)
      PROVE  ResumeInv'
  <2>1. Cmd("stop") \in Command /\ Cmd("stop").cmd = "stop"
    BY DEF Cmd, Command
  <2> QED BY <1>7, <2>1, ResumeSend DEF StopServer
<1>8. CASE WorkerDied
  <2>1. CASE UNCHANGED cmds
    BY <1>4, <1>8, <2>1 DEF WorkerDied
  <2> DEFINE e(i) == [idx |-> NewIdx(SwapRemove(workers, i)), w |-> started + 1]
  <2>2. ASSUME NEW i \in 1..Len(workers), started < MaxWorkers, SendToAccept(WorkerCmd(e(i)))
        PROVE  ResumeInv'
    <3>1. e(i) \in Entry
      BY <2>2, NewEntry
    <3> HIDE DEF e
    <3>2. WorkerCmd(e(i)) \in Command /\ WorkerCmd(e(i)).cmd = "worker"
      BY <3>1 DEF WorkerCmd, Command
    <3> QED BY <1>8, <2>2, <3>2, ResumeSend DEF WorkerDied
  <2> QED BY Zenon, <1>8, <2>1, <2>2 DEF WorkerDied
<1> QED BY Zenon, <1>1, <1>3, <1>4, <1>5, <1>6, <1>7, <1>8
   DEF Next, AcceptStep, WorkerStep, ServerStep, Environment, Connect,
       AcceptErrorConn, WorkerConn, ChannelDone, StopWorker, ShutdownTimer, StopArbiter,
       WorkerPanics, ThreadEnds, StopReply, SystemExit
=============================================================================
