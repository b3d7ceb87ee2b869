---------------------------- MODULE PipelineProofs ----------------------------
(***************************************************************************)
(* Proofs about Pipeline, for any number of middlewares and any number of  *)
(* chunks: the pipeline implements HttpTask, its hooks run in order, and   *)
(* finish() reaches every middleware that has started.                     *)
(***************************************************************************)
EXTENDS Pipeline, TLAPS

Work == {"Starting", "Handler", "RunMiddlewares"}
Pcs == {"idle", "panic", "start", "startfut", "startnext", "handlerfut", "respinit", "respfut",
        "respnext", "io", "flush", "finish", "finfut", "context"}

(* The calls each state makes; the constructor makes only the first ones.  *)
Places ==
  /\ st \in States /\ pc \in Pcs
  /\ pc \in {"start", "startfut", "startnext"} => st = "Starting"
  /\ pc = "handlerfut" => st = "Handler"
  /\ pc = "respinit" => st \in {"Starting", "Handler"}
  /\ pc \in {"respfut", "respnext"} => st = "RunMiddlewares"
  /\ pc \in {"io", "flush"} => st = "Response"
  /\ pc \in {"finish", "finfut"} => st \in {"Response", "Finishing"}
  /\ pc = "context" => st = "Completed"
  /\ mode = "new" => pc \in {"idle", "start", "respinit"}

(* What the last poll returned, also while the next one runs.              *)
Told ==
  /\ st \in Work \cup {"Response"} => ret = "NotReady"
  /\ st \in {"Finishing", "Completed"} => ret \in {"NotReady", "ReadyFalse", "Err"}
  /\ st \in {"None", "Error"} => ret \in {"Ready", "Err"}

(* The states a step may lead to.                                          *)
Onward ==
  /\ st \in Work => st' \in Work \cup {"Response"}
  /\ st = "Response" => st' \in {"Response", "Finishing", "Completed", "None"}
  /\ st \in {"Finishing", "Completed"} => st' \in {"Finishing", "Completed", "None", "Error"}
  /\ st \in {"None", "Error"} => st' = st

TaskInv == Places /\ Told

-----------------------------------------------------------------------------
(* Entering a state calls what belongs to it, and answers nothing wrong.   *)
LEMMA EnterPlaces ==
  ASSUME NEW s \in States, Enter(s), UNCHANGED mode
  PROVE  Places' /\ st' = s
BY DEF Enter, Places, States, Pcs, PollPc

LEMMA EnterWork ==
  ASSUME NEW s \in Work \cup {"Response"}, Told, st \in Work, Enter(s)
  PROVE  Told' /\ Onward
BY DEF Enter, Told, Onward, Work

LEMMA EnterEnd ==
  ASSUME NEW s \in {"Completed", "None", "Error"}, Told, mode # "new",
         st \in {"Finishing", "Completed"}, Enter(s)
  PROVE  Told' /\ Onward
BY DEF Enter, Told, Onward, Work

LEMMA IoReturnTask ==
  ASSUME NEW s \in {"Finishing", "Completed", "None"}, NEW e, Told, st = "Response",
         IoReturn(s, e), UNCHANGED mode, mode # "new"
  PROVE  Places' /\ Told' /\ Onward
BY DEF IoReturn, Told, Onward, Work, Places, States, Pcs

LEMMA FinishInitTask ==
  ASSUME NEW e, NEW c, TaskInv, pc \in {"io", "flush"}, FinishInit(e, c), UNCHANGED mode
  PROVE  Places' /\ Told' /\ Onward
<1>1. st = "Response" /\ mode # "new"
  BY DEF TaskInv, Places
<1>2. CASE count = 0
  BY <1>1, <1>2, IoReturnTask DEF FinishInit, CompletedState, TaskInv
<1>3. CASE count # 0
  BY <1>1, <1>3 DEF FinishInit, Goto, TaskInv, Places, Told, Onward, Work, States, Pcs
<1> QED BY <1>2, <1>3

(* RunMiddlewares::init and a handler's Reply, called while there is no    *)
(* response yet.                                                           *)
LEMMA EnterResponseTask ==
  ASSUME TaskInv, st \in Work, EnterResponse, UNCHANGED mode
  PROVE  Places' /\ Told' /\ Onward
BY EnterPlaces, EnterWork DEF EnterResponse, TaskInv, States

LEMMA RunMiddlewaresTask ==
  ASSUME NEW n, TaskInv, st \in {"Starting", "Handler"}, RunMiddlewares(n), UNCHANGED mode
  PROVE  Places' /\ Told' /\ Onward
<1>1. CASE n = 0
  BY <1>1, EnterResponseTask DEF RunMiddlewares, Work
<1>2. CASE n # 0
  BY <1>2 DEF RunMiddlewares, Goto, TaskInv, Places, Told, Onward, Work, States, Pcs
<1> QED BY <1>1, <1>2

LEMMA HandleTask ==
  ASSUME NEW n, TaskInv, st \in {"Starting", "Handler"}, Handle(n), UNCHANGED mode
  PROVE  Places' /\ Told' /\ Onward
BY RunMiddlewaresTask, EnterPlaces, EnterWork DEF Handle, TaskInv, Work, States

(* A call that stays in its state: NotReady, or the next call.             *)
LEMMA StayTask ==
  ASSUME TaskInv, UNCHANGED <<st, mode>>,
         \/ pc' = "idle"
         \/ mode # "new" /\ pc' = "panic"
         \/ st = "Starting" /\ mode # "new" /\ pc' \in {"startfut", "startnext"}
         \/ st = "Starting" /\ pc' = "start"
         \/ st = "RunMiddlewares" /\ mode # "new" /\ pc' \in {"respfut", "respnext"}
         \/ st \in {"Starting", "Handler"} /\ pc' = "respinit"
         \/ st = "Response" /\ mode # "new" /\ pc' \in {"io", "flush", "finish", "finfut"}
         \/ st = "Finishing" /\ mode # "new" /\ pc' \in {"finish", "finfut"},
         ret' = ret \/ (ret' = "NotReady" /\ st \notin {"None", "Error"})
  PROVE  Places' /\ Told' /\ Onward
<1>1. Places'
  BY DEF TaskInv, Places, States, Pcs
<1>2. Told' /\ Onward
  BY DEF TaskInv, Places, Told, Onward, Work, States
<1> QED BY <1>1, <1>2
-----------------------------------------------------------------------------
(* Pipeline::new and Pipeline::error.                                      *)
LEMMA TaskInit ==
  Init => TaskInv
BY DEF Init, TaskInv, Places, Told, Work, States, Pcs

(* Every call keeps the relation of states, calls and answers, and none    *)
(* goes back to an earlier phase.                                          *)
LEMMA TaskStep ==
  ASSUME TaskInv, [Next]_vars
  PROVE  TaskInv' /\ Onward
<1> SUFFICES Places' /\ Told' /\ Onward
  BY DEF TaskInv
<1> USE DEF TaskInv
<1>1. CASE PollIo
  BY <1>1 DEF PollIo, PollPc, Places, Told, Onward, Work, States, Pcs
<1>2. CASE PollTask
  BY <1>2 DEF PollTask, PollPc, Places, Told, Onward, Work, States, Pcs
<1>3. CASE Disconnected
  BY <1>3 DEF Disconnected, Places, Told, Onward, Work, States, Pcs
<1>4. CASE Start
  <2>1. st = "Starting" /\ UNCHANGED mode
    BY <1>4 DEF Start, Places
  <2>2. \/ Handle(count) \/ RunMiddlewares(count) \/ EnterResponse
        \/ Goto("start") \/ Enter("Starting")
    BY <1>4 DEF Start
  <2> QED BY <2>1, <2>2, HandleTask, RunMiddlewaresTask, EnterResponseTask, StayTask, EnterPlaces,
             EnterWork DEF Goto, Work, States
<1>5. CASE StartFuture
  <2>1. st = "Starting" /\ UNCHANGED mode /\ mode # "new"
    BY <1>5 DEF StartFuture, Places
  <2>2. \/ NotReady /\ UNCHANGED st
        \/ RunMiddlewares(count') \/ Handle(count') \/ Goto("startnext") \/ EnterResponse
    BY <1>5 DEF StartFuture
  <2> QED BY <2>1, <2>2, HandleTask, RunMiddlewaresTask, EnterResponseTask, StayTask
          DEF Goto, NotReady, Work
<1>6. CASE StartNext
  <2>1. st = "Starting" /\ UNCHANGED mode /\ mode # "new"
    BY <1>6 DEF StartNext, Places
  <2>2. \/ pc' = "panic" /\ UNCHANGED <<st, ret>>
        \/ Goto("startnext") \/ RunMiddlewares(count) \/ Goto("startfut") \/ EnterResponse
    BY <1>6 DEF StartNext
  <2> QED BY <2>1, <2>2, RunMiddlewaresTask, EnterResponseTask, StayTask DEF Goto, Work
<1>7. CASE HandlerFuture
  <2>1. st = "Handler" /\ UNCHANGED mode
    BY <1>7 DEF HandlerFuture, Places
  <2>2. (NotReady /\ UNCHANGED st) \/ RunMiddlewares(count) \/ EnterResponse
    BY <1>7 DEF HandlerFuture
  <2> QED BY <2>1, <2>2, RunMiddlewaresTask, EnterResponseTask, StayTask DEF NotReady, Work
<1>8. CASE ResponseInit
  <2>1. st \in {"Starting", "Handler"} /\ UNCHANGED mode
    BY <1>8 DEF ResponseInit, Places
  <2>2. EnterResponse \/ Goto("respinit") \/ Enter("RunMiddlewares")
    BY <1>8 DEF ResponseInit
  <2> QED BY <2>1, <2>2, EnterResponseTask, StayTask, EnterPlaces, EnterWork DEF Goto, Work, States
<1>9. CASE ResponseFuture \/ ResponseNext
  <2>1. st = "RunMiddlewares" /\ UNCHANGED mode /\ mode # "new"
    BY <1>9 DEF ResponseFuture, ResponseNext, Places
  <2>2. \/ NotReady /\ UNCHANGED st
        \/ EnterResponse \/ Goto("respnext") \/ Goto("respfut")
    BY <1>9 DEF ResponseFuture, ResponseNext
  <2> QED BY <2>1, <2>2, EnterResponseTask, StayTask DEF Goto, NotReady, Work
<1>10. CASE IoStart \/ IoPayload \/ IoActor \/ IoDone \/ IoFlush \/ IoEnd
  <2>1. pc \in {"io", "flush"} /\ UNCHANGED mode
    BY <1>10 DEF IoStart, IoPayload, IoActor, IoDone, IoFlush, IoEnd
  <2>2. st = "Response" /\ mode # "new"
    BY <2>1 DEF Places
  <2>3. \/ NotReady /\ UNCHANGED st
        \/ Goto("io") \/ Goto("flush")
        \/ \E e, c \in {TRUE, FALSE, context} : FinishInit(e, c)
    BY <1>10 DEF IoStart, IoPayload, IoActor, IoDone, IoFlush, IoEnd, ActorFrames, Written, Loop,
                 Fail, FailWith
  <2> QED BY <2>1, <2>2, <2>3, FinishInitTask, StayTask DEF Goto, NotReady
<1>11. CASE Finish \/ FinishFuture
  <2>1. st \in {"Response", "Finishing"} /\ UNCHANGED mode /\ mode # "new"
    BY <1>11 DEF Finish, FinishFuture, Places
  <2>2. \/ pc' = "panic" /\ UNCHANGED <<st, ret>>
        \/ FinishReturn(CompletedState(context)) \/ Goto("finish") \/ Goto("finfut")
        \/ st = "Response" /\ IoReturn("Finishing", error)
        \/ NotReady /\ UNCHANGED st
    BY <1>11 DEF Finish, FinishFuture
  <2>3. CASE FinishReturn(CompletedState(context))
    BY <2>1, <2>3, IoReturnTask, EnterPlaces, EnterEnd DEF FinishReturn, CompletedState, States
  <2> QED BY <2>1, <2>2, <2>3, IoReturnTask, StayTask DEF Goto, NotReady
<1>12. CASE ContextPoll
  <2>1. st = "Completed" /\ UNCHANGED mode /\ mode # "new"
    BY <1>12 DEF ContextPoll, Places
  <2>2. (NotReady /\ UNCHANGED st) \/ Enter("None") \/ Enter("Error")
    BY <1>12 DEF ContextPoll
  <2> QED BY <2>1, <2>2, StayTask, EnterPlaces, EnterEnd DEF NotReady, States
<1>13. CASE UNCHANGED vars
  BY <1>13 DEF vars, Places, Told, Onward, Work, States, Pcs
<1> QED BY <1>1, <1>2, <1>3, <1>4, <1>5, <1>6, <1>7, <1>8, <1>9, <1>10, <1>11, <1>12, <1>13
        DEF Next, Step

(* The pipeline is a task in the sense of HttpTask: PipelineState never    *)
(* goes back from a later phase to an earlier one, and poll_io and poll    *)
(* answer Ready(true), Ready(false), Err or NotReady as the phase they     *)
(* leave it in allows.                                                     *)
THEOREM PipelineIsTask ==
  Spec => IsHttpTask
<1>1. Init => Task!Init
  BY DEF Init, Task!Init, Phase
<1>2. TaskInv /\ [Next]_vars => TaskInv' /\ [Task!Next]_<<Phase, ret>>
  <2> SUFFICES ASSUME TaskInv, [Next]_vars PROVE TaskInv' /\ Task!Next
    OBVIOUS
  <2>1. TaskInv' /\ Onward
    BY TaskStep
  <2>2. Phase' \in Task!Succ(Phase)
    BY <2>1 DEF TaskInv, Places, States, Onward, Work, Phase, Task!Succ
  <2>3. ret' \in Task!IoAnswers(Phase') \cup Task!PollAnswers(Phase')
    BY <2>1 DEF TaskInv, Places, Told, States, Work, Phase, Task!IoAnswers, Task!PollAnswers
  <2> QED BY <2>1, <2>2, <2>3 DEF Task!Next
<1> QED BY <1>1, <1>2, TaskInit, PTL DEF Spec, IsHttpTask, Task!Spec

-----------------------------------------------------------------------------
(* The start hooks are being called.                                       *)
Beginning == pc \in {"start", "startfut", "startnext"} \/ (pc = "idle" /\ st = "Starting")

(* count is the number of middlewares that have started until the handler  *)
(* or a middleware answers.                                                *)
StartInv ==
  /\ count \in Nat /\ curr \in Nat /\ begun \subseteq Nat
  /\ Beginning => ~handled /\ begun = 0..count - 1
  /\ HandlerAfterStarts

(* finish() is not called before the response is over; then count is the   *)
(* middleware called last, and those it has not reached are below it.      *)
Reached(m) == m < count \/ \E i \in 1..Len(finished) : finished[i] = m
FinishInv ==
  /\ finished \in Seq(Int)
  /\ st \in Work \/ (st = "Response" /\ pc \notin {"finish", "finfut", "panic"}) => finished = <<>>
  /\ finished # <<>> => finished[Len(finished)] = count
  /\ FinishReversed
  /\ ~failed => \A m \in begun : Reached(m)
  /\ st \in {"Completed", "None", "Error"} => count = 0

(* The end of the body is written last, and before any finish().           *)
BodyInv ==
  /\ pc \in {"finish", "finfut"} \/ st = "Finishing" \/ finished # <<>> => wstate = "eof" \/ faulted
  /\ iostate \in {"Payload", "Actor"} => wstate = "started"

HookInv == TaskInv /\ StartInv /\ FinishInv /\ BodyInv

LEMMA HookInit ==
  Init => HookInv
<1> SUFFICES ASSUME Init PROVE HookInv
  OBVIOUS
<1>1. StartInv
  BY PipelineAssumption DEF Init, StartInv, Beginning, HandlerAfterStarts
<1>2. FinishInv
  BY DEF Init, FinishInv, FinishReversed, Reached
<1>3. BodyInv
  BY DEF Init, BodyInv
<1> QED BY <1>1, <1>2, <1>3, TaskInit DEF HookInv

-----------------------------------------------------------------------------
(* Entering a later state ends the start hooks.                            *)
LEMMA EnterAway ==
  ASSUME NEW s \in {"Handler", "RunMiddlewares", "Response"}, Enter(s)
  PROVE  ~Beginning' /\ st' = s /\ pc' \notin {"finish", "finfut"}
BY DEF Enter, Beginning, PollPc

LEMMA ResponseAway ==
  ASSUME EnterResponse
  PROVE  /\ ~Beginning' /\ st' = "Response" /\ pc' \notin {"finish", "finfut"}
         /\ iostate' = "Response" /\ UNCHANGED wstate
BY EnterAway DEF EnterResponse

LEMMA RunAway ==
  ASSUME NEW n, RunMiddlewares(n), curr \in Nat
  PROVE  /\ ~Beginning' /\ st' \in {st, "Response"} /\ pc' \notin {"finish", "finfut"}
         /\ iostate' \in {iostate, "Response"} /\ UNCHANGED wstate /\ curr' \in Nat
BY ResponseAway DEF RunMiddlewares, Goto, Beginning, io

LEMMA HandleAway ==
  ASSUME NEW n, Handle(n), curr \in Nat
  PROVE  /\ ~Beginning' /\ st' \in {st, "Handler", "Response"} /\ pc' \notin {"finish", "finfut"}
         /\ iostate' \in {iostate, "Response"} /\ UNCHANGED wstate /\ curr' \in Nat
         /\ handled' = TRUE
BY RunAway, EnterAway DEF Handle, io

(* A call made while there is no response yet.                             *)
Early == /\ st \in Work /\ st' \in Work \cup {"Response"} /\ pc' \notin {"finish", "finfut"}
         /\ iostate' \in {iostate, "Response"} /\ UNCHANGED <<wstate, finished, faulted>>

LEMMA EarlyBody ==
  ASSUME BodyInv, FinishInv, Early
  PROVE  BodyInv'
BY DEF BodyInv, FinishInv, Early, Work

LEMMA EarlyFinish ==
  ASSUME FinishInv, Early, ~failed' => \A m \in begun' : Reached(m)'
  PROVE  FinishInv'
BY DEF FinishInv, FinishReversed, Early, Work

(* A start hook is called: it has completed, or it has not.                *)
LEMMA BeginStep ==
  ASSUME StartInv, Beginning, curr' \in Nat,
         \/ UNCHANGED <<count, begun>>
         \/ count' = count + 1 /\ begun' = begun \cup {count},
         \/ UNCHANGED handled
         \/ handled' = TRUE /\ count' = N /\ ~Beginning'
  PROVE  StartInv'
<1>1. count' \in Nat /\ begun' = 0..count' - 1
  <2>1. count \in Nat /\ begun = 0..count - 1
    BY DEF StartInv
  <2>2. (0..count - 1) \cup {count} = 0..(count + 1) - 1
    BY <2>1
  <2>3. CASE UNCHANGED <<count, begun>>
    BY <2>1, <2>3
  <2>4. CASE count' = count + 1 /\ begun' = begun \cup {count}
    BY <2>1, <2>2, <2>4
  <2> QED BY <2>3, <2>4
<1>2. CASE UNCHANGED handled
  BY <1>1, <1>2 DEF StartInv, HandlerAfterStarts
<1>3. CASE handled' = TRUE /\ count' = N /\ ~Beginning'
  BY <1>1, <1>3 DEF StartInv, HandlerAfterStarts
<1> QED BY <1>2, <1>3

LEMMA BeginReached ==
  ASSUME FinishInv, StartInv, Beginning, UNCHANGED <<finished, failed>>,
         \/ UNCHANGED <<count, begun>>
         \/ count' = count + 1 /\ begun' = begun \cup {count}
  PROVE  ~failed' => \A m \in begun' : Reached(m)'
BY DEF FinishInv, StartInv, Reached

(* The calls of StartMiddlewares keep the invariant.                       *)
LEMMA StartHooks ==
  ASSUME HookInv, Start \/ StartFuture \/ StartNext
  PROVE  StartInv' /\ FinishInv' /\ BodyInv'
<1>1. Beginning /\ st = "Starting" /\ curr \in Nat
  BY DEF Start, StartFuture, StartNext, Beginning, HookInv, TaskInv, Places, StartInv
<1>2. UNCHANGED <<finished, failed, faulted>>
  BY DEF Start, StartFuture, StartNext
<1>3. UNCHANGED <<count, begun>> \/ (count' = count + 1 /\ begun' = begun \cup {count})
  BY DEF Start, StartFuture, StartNext, StartFutureDone
<1>4. \/ (Handle(count) \/ Handle(count')) /\ count' = N
      \/ RunMiddlewares(count) /\ UNCHANGED handled
      \/ RunMiddlewares(count') /\ UNCHANGED handled
      \/ EnterResponse /\ UNCHANGED <<curr, handled>>
      \/ /\ Goto("start") \/ Goto("startfut") \/ Goto("startnext") \/ Enter("Starting")
            \/ (NotReady /\ UNCHANGED st) \/ (pc' = "panic" /\ UNCHANGED st)
         /\ UNCHANGED <<curr, io, handled>>
  BY DEF Start, StartFuture, StartNext, AllStarted
<1>5. /\ st' \in Work \cup {"Response"} /\ pc' \notin {"finish", "finfut"} /\ curr' \in Nat
      /\ iostate' \in {iostate, "Response"} /\ UNCHANGED wstate
      /\ UNCHANGED handled \/ (handled' = TRUE /\ count' = N /\ ~Beginning')
  <2>1. CASE (Handle(count) \/ Handle(count')) /\ count' = N
    BY <1>1, <2>1, HandleAway DEF Work
  <2>2. CASE (RunMiddlewares(count) \/ RunMiddlewares(count')) /\ UNCHANGED handled
    BY <1>1, <2>2, RunAway DEF Work
  <2>3. CASE EnterResponse /\ UNCHANGED <<curr, handled>>
    BY <1>1, <2>3, ResponseAway DEF Work
  <2>4. CASE /\ Goto("start") \/ Goto("startfut") \/ Goto("startnext") \/ Enter("Starting")
                \/ (NotReady /\ UNCHANGED st) \/ (pc' = "panic" /\ UNCHANGED st)
             /\ UNCHANGED <<curr, io, handled>>
    BY <1>1, <2>4 DEF Work, Goto, Enter, NotReady, PollPc, io
  <2> QED BY <1>4, <2>1, <2>2, <2>3, <2>4
<1>6. Early
  BY <1>1, <1>2, <1>5 DEF Early, Work
<1> QED BY <1>1, <1>2, <1>3, <1>5, <1>6, BeginStep, BeginReached, EarlyBody, EarlyFinish DEF HookInv

(* So do those of WaitingResponse and RunMiddlewares: a failing response   *)
(* hook sets failed, and the others leave the counts alone.                *)
LEMMA ResponseHooks ==
  ASSUME HookInv, HandlerFuture \/ ResponseInit \/ ResponseFuture \/ ResponseNext
  PROVE  StartInv' /\ FinishInv' /\ BodyInv'
<1>1. st \in Work /\ curr \in Nat /\ count \in Nat
  BY DEF HandlerFuture, ResponseInit, ResponseFuture, ResponseNext, HookInv, TaskInv, Places,
         StartInv, Work
<1>2. UNCHANGED <<begun, handled, finished, faulted>>
  BY DEF HandlerFuture, ResponseInit, ResponseFuture, ResponseNext, history
<1>3. (failed' = TRUE /\ count' = curr + 1) \/ UNCHANGED <<count, failed>>
  BY DEF HandlerFuture, ResponseInit, ResponseFuture, ResponseNext, history, Asked
<1>4. pc \notin {"start", "startfut", "startnext"} /\ (pc = "idle" => FALSE)
      /\ (pc # "respinit" => st # "Starting")
  BY DEF HandlerFuture, ResponseInit, ResponseFuture, ResponseNext, HookInv, TaskInv, Places
<1>5. /\ ~Beginning' /\ st' \in Work \cup {"Response"} /\ pc' \notin {"finish", "finfut"}
      /\ curr' \in Nat /\ iostate' \in {iostate, "Response"} /\ UNCHANGED wstate
  <2>1. CASE NotReady /\ UNCHANGED <<st, curr, io>> /\ pc # "respinit"
    BY <1>1, <1>4, <2>1 DEF NotReady, Beginning, io, Work
  <2>2. CASE RunMiddlewares(count)
    BY <1>1, <2>2, RunAway DEF Work
  <2>3. CASE EnterResponse /\ curr' \in {curr, curr + 1}
    BY <1>1, <2>3, ResponseAway
  <2>4. CASE /\ Goto("respinit") \/ Goto("respnext") \/ Goto("respfut")
             /\ curr' \in {curr, curr + 1} /\ UNCHANGED io
    BY <1>1, <2>4 DEF Goto, Beginning, io
  <2>5. CASE Enter("RunMiddlewares") /\ UNCHANGED <<curr, io>>
    BY <1>1, <2>5, EnterAway DEF Work, io
  <2> QED BY <1>4, <2>1, <2>2, <2>3, <2>4, <2>5
          DEF HandlerFuture, ResponseInit, ResponseFuture, ResponseNext
<1>6. Early
  BY <1>1, <1>2, <1>5 DEF Early
<1>7. StartInv'
  BY <1>1, <1>2, <1>3, <1>5 DEF HookInv, StartInv, HandlerAfterStarts
<1>8. ~failed' => \A m \in begun' : Reached(m)'
  BY <1>2, <1>3 DEF HookInv, FinishInv, Reached
<1> QED BY <1>6, <1>7, <1>8, EarlyBody, EarlyFinish DEF HookInv

-----------------------------------------------------------------------------
(* Writing the response keeps the counts; it ends with an error, or after  *)
(* the end of the body.                                                    *)
LEMMA IoHooks ==
  ASSUME HookInv, IoStart \/ IoPayload \/ IoActor \/ IoDone \/ IoFlush \/ IoEnd
  PROVE  StartInv' /\ FinishInv' /\ BodyInv'
<1>1. pc \in {"io", "flush"}
  BY DEF IoStart, IoPayload, IoActor, IoDone, IoFlush, IoEnd
<1>2. st = "Response" /\ finished = <<>>
  BY <1>1 DEF HookInv, TaskInv, Places, FinishInv
<1>3. UNCHANGED <<count, curr, begun, handled, finished, failed>>
  BY DEF IoStart, IoPayload, IoActor, IoDone, IoFlush, IoEnd, history
<1>4. \/ pc' \in {"idle", "io", "flush"} /\ st' = st
      \/ \E e, c \in {TRUE, FALSE, context} : FinishInit(e, c) /\ (faulted' = TRUE \/ wstate' = "eof")
  BY DEF IoStart, IoPayload, IoActor, IoDone, IoFlush, IoEnd, ActorFrames, Written, Loop, Goto,
         NotReady, Fail, FailWith, WriteEof
<1>5. \/ pc' \in {"idle", "io", "flush"} /\ st' = "Response"
      \/ /\ faulted' = TRUE \/ wstate' = "eof"
         /\ (pc' = "idle" /\ count = 0 /\ st' \in {"Completed", "None"}) \/ (pc' = "finish" /\ st' = st)
  BY <1>2, <1>4 DEF FinishInit, IoReturn, Goto, CompletedState
<1>6. iostate' \in {"Payload", "Actor"} => wstate' = "started"
  BY DEF HookInv, BodyInv, IoStart, IoPayload, IoActor, IoDone, IoFlush, IoEnd, ActorFrames, Written,
         Loop, Fail, FailWith, WriteEof, StreamEnded, io
<1>7. StartInv'
  BY <1>2, <1>3, <1>5 DEF HookInv, StartInv, Beginning, HandlerAfterStarts
<1>8. FinishInv'
  <2>1. ~failed' => \A m \in begun' : Reached(m)'
    BY <1>3 DEF HookInv, FinishInv, Reached
  <2> QED BY <1>2, <1>3, <1>5, <2>1 DEF HookInv, FinishInv, FinishReversed, Work
<1>9. BodyInv'
  BY <1>2, <1>3, <1>5, <1>6 DEF BodyInv
<1> QED BY <1>7, <1>8, <1>9

(* The finish hooks go down the list from count.                           *)
LEMMA FinishHooks ==
  ASSUME HookInv, Finish \/ FinishFuture
  PROVE  StartInv' /\ FinishInv' /\ BodyInv'
<1>1. pc \in {"finish", "finfut"} /\ st \in {"Response", "Finishing"} /\ count \in Nat
  BY DEF Finish, FinishFuture, HookInv, TaskInv, Places, StartInv
<1>2. UNCHANGED <<curr, begun, handled, failed, faulted, wstate, iostate>>
  BY DEF Finish, FinishFuture, history, io
<1>3. st' \in {"Response", "Finishing", "Completed", "None"} /\ ~Beginning'
  BY <1>1 DEF Finish, FinishFuture, FinishReturn, IoReturn, Enter, Goto, NotReady, CompletedState,
              PollPc, Beginning
<1>4. st' = "Response" => pc' \in {"finish", "finfut", "panic"}
  BY <1>1 DEF Finish, FinishFuture, FinishReturn, IoReturn, Enter, Goto, NotReady, CompletedState,
              PollPc
<1>5. st' \in {"Completed", "None"} => count' = 0
  BY <1>1 DEF Finish, FinishFuture, FinishReturn, IoReturn, Enter, Goto, NotReady, CompletedState,
              PollPc
<1>6. \/ UNCHANGED <<count, finished>>
      \/ count > 0 /\ count' = count - 1 /\ finished' = Append(finished, count')
  BY <1>1 DEF Finish, FinishFuture, FinishIndex, history
<1>7. StartInv'
  BY <1>1, <1>2, <1>3, <1>6 DEF HookInv, StartInv, HandlerAfterStarts
<1>8. BodyInv'
  BY <1>1, <1>2 DEF HookInv, BodyInv
<1>9. FinishInv'
  <2>1. CASE UNCHANGED <<count, finished>>
    BY <1>1, <1>2, <1>3, <1>4, <1>5, <2>1 DEF HookInv, FinishInv, FinishReversed, Reached, Work
  <2>2. CASE count > 0 /\ count' = count - 1 /\ finished' = Append(finished, count')
    <3>1. finished \in Seq(Int) /\ count' \in Int
      BY <1>1, <2>2 DEF HookInv, FinishInv
    <3>2. /\ finished' \in Seq(Int) /\ Len(finished') = Len(finished) + 1
          /\ finished'[Len(finished')] = count'
          /\ \A i \in 1..Len(finished) : finished'[i] = finished[i]
      BY <2>2, <3>1
    <3>3. FinishReversed'
      BY <1>1, <2>2, <3>1, <3>2 DEF HookInv, FinishInv, FinishReversed
    <3>4. ~failed' => \A m \in begun' : Reached(m)'
      <4> SUFFICES ASSUME ~failed, NEW m \in begun PROVE Reached(m)'
        BY <1>2
      <4>1. Reached(m)
        BY DEF HookInv, FinishInv
      <4>2. m < count => m < count' \/ m = count'
        BY <1>1, <2>2 DEF HookInv, StartInv
      <4> QED BY <2>2, <3>1, <3>2, <4>1, <4>2 DEF Reached
    <3> QED BY <1>3, <1>4, <1>5, <3>2, <3>3, <3>4 DEF FinishInv, Work
  <2> QED BY <1>6, <2>1, <2>2
<1> QED BY <1>7, <1>8, <1>9

-----------------------------------------------------------------------------
LEMMA HookStep ==
  HookInv /\ [Next]_vars => HookInv'
<1> SUFFICES ASSUME HookInv, [Next]_vars PROVE HookInv'
  OBVIOUS
<1> SUFFICES StartInv' /\ FinishInv' /\ BodyInv'
  BY TaskStep DEF HookInv
<1>1. CASE PollIo \/ PollTask \/ Disconnected
  <2>1. pc = "idle" /\ UNCHANGED <<st, count, curr, wstate, iostate, history>>
    BY <1>1 DEF PollIo, PollTask, Disconnected, io
  <2>2. /\ pc' \notin {"start", "startnext", "finish"}
        /\ pc' \in {"idle", "startfut"} /\ Beginning' => Beginning
        /\ pc' = "finfut" => st = "Finishing"
    BY <1>1, <2>1 DEF PollIo, PollTask, Disconnected, PollPc, Beginning, HookInv, TaskInv, Places, States
  <2>3. StartInv'
    BY <2>1, <2>2 DEF HookInv, StartInv, Beginning, HandlerAfterStarts, history
  <2>4. FinishInv'
    BY <2>1, <2>2 DEF HookInv, FinishInv, FinishReversed, Reached, Work, history
  <2>5. BodyInv'
    BY <2>1, <2>2 DEF HookInv, BodyInv, history
  <2> QED BY <2>3, <2>4, <2>5
<1>2. CASE Start \/ StartFuture \/ StartNext
  BY <1>2, StartHooks
<1>3. CASE HandlerFuture \/ ResponseInit \/ ResponseFuture \/ ResponseNext
  BY <1>3, ResponseHooks
<1>4. CASE IoStart \/ IoPayload \/ IoActor \/ IoDone \/ IoFlush \/ IoEnd
  BY <1>4, IoHooks
<1>5. CASE Finish \/ FinishFuture
  BY <1>5, FinishHooks
<1>6. CASE ContextPoll
  <2>1. /\ st = "Completed" /\ st' \in {"Completed", "None", "Error"} /\ ~Beginning'
        /\ pc' \notin {"finish", "finfut"}
        /\ UNCHANGED <<count, curr, wstate, iostate, history>>
    BY <1>6 DEF ContextPoll, Enter, NotReady, PollPc, Beginning, HookInv, TaskInv, Places, io
  <2>2. StartInv'
    BY <2>1 DEF HookInv, StartInv, HandlerAfterStarts, history
  <2>3. FinishInv'
    BY <2>1 DEF HookInv, FinishInv, FinishReversed, Reached, Work, history
  <2>4. BodyInv'
    BY <2>1 DEF HookInv, BodyInv, history
  <2> QED BY <2>2, <2>3, <2>4
<1>7. CASE UNCHANGED vars
  <2>1. StartInv'
    BY <1>7 DEF HookInv, StartInv, Beginning, HandlerAfterStarts, vars, history
  <2>2. FinishInv'
    BY <1>7 DEF HookInv, FinishInv, FinishReversed, Reached, vars, history
  <2>3. BodyInv'
    BY <1>7 DEF HookInv, BodyInv, vars, io, history
  <2> QED BY <2>1, <2>2, <2>3
<1> QED BY <1>1, <1>2, <1>3, <1>4, <1>5, <1>6, <1>7 DEF Next, Step

LEMMA HookInvariance ==
  Spec => []HookInv
BY HookInit, HookStep, PTL DEF Spec

(* The handler is called only after start() of every middleware has        *)
(* completed (StartMiddlewares::init and poll).                            *)
THEOREM StartsBeforeHandler ==
  Spec => []HandlerAfterStarts
<1>1. HookInv => HandlerAfterStarts
  BY DEF HookInv, StartInv
<1> QED BY <1>1, HookInvariance, PTL

(* finish() goes down the list without leaving one out or calling one      *)
(* twice (FinishingMiddlewares::poll).                                     *)
THEOREM FinishInReverse ==
  Spec => []FinishReversed
<1>1. HookInv => FinishReversed
  BY DEF HookInv, FinishInv
<1> QED BY <1>1, HookInvariance, PTL

(* finish() is called only once the end of the body is written or an error *)
(* is kept (ProcessResponse::poll_io and FinishingMiddlewares::init).      *)
THEOREM BodyBeforeFinish ==
  Spec => []FinishAfterBody
<1>1. HookInv => FinishAfterBody
  BY DEF HookInv, BodyInv, FinishAfterBody
<1> QED BY <1>1, HookInvariance, PTL

(* A task that reports it is done, and is dropped, has called finish() of  *)
(* every middleware that started, unless a response() failed               *)
(* (Pipeline::poll_io and poll, RunMiddlewares::init).                     *)
THEOREM AllFinished ==
  Spec => []DoneMeansFinished
<1>1. HookInv => DoneMeansFinished
  <2> SUFFICES ASSUME HookInv, pc = "idle", ret = "Ready"
               PROVE  /\ st \in {"None", "Error"}
                      /\ ~failed => \A m \in begun : \E i \in 1..Len(finished) : finished[i] = m
    BY DEF DoneMeansFinished
  <2>1. st \in {"None", "Error"}
    BY DEF HookInv, TaskInv, Places, Told, States, Work
  <2>2. count = 0 /\ begun \subseteq Nat
    BY <2>1 DEF HookInv, FinishInv, StartInv
  <2> QED BY <2>1, <2>2 DEF HookInv, FinishInv, Reached
<1> QED BY <1>1, HookInvariance, PTL

(* A chunk or a frame is taken from a body only between the start and the  *)
(* end of the response (ProcessResponse::poll_io).                         *)
THEOREM NothingAfterEof ==
  Spec => NoWriteAfterEof
<1>1. HookInv /\ [Next]_vars => [(pc = "io" /\ iostate \in {"Payload", "Actor"}) => wstate = "started"]_vars
  BY DEF HookInv, BodyInv
<1> QED BY <1>1, HookInvariance, PTL DEF Spec, NoWriteAfterEof

-----------------------------------------------------------------------------
(* The indices of the middlewares stay in bounds: a future is awaited only *)
(* for a middleware of the list, in StartMiddlewares and RunMiddlewares.   *)
Numbers ==
  /\ count \in 0..N /\ curr \in 0..N /\ begun \subseteq 0..N - 1
  /\ finished \in Seq(0..N - 1)
  /\ pc = "startfut" \/ (pc = "idle" /\ st = "Starting") => count < N
  /\ pc \in {"respinit", "respfut", "respnext"} \/ (pc = "idle" /\ st = "RunMiddlewares") => curr < N

Labels ==
  /\ mode \in {"new", "poll_io", "poll"}
  /\ iostate \in {"Response", "Payload", "Actor", "Done"}
  /\ running \in {"Running", "Paused"}
  /\ wstate \in {"new", "started", "eof"}
  /\ chunks \in 0..MaxChunks

Flags ==
  /\ drain \in BOOLEAN /\ context \in BOOLEAN /\ error \in BOOLEAN /\ gone \in BOOLEAN
  /\ handled \in BOOLEAN /\ failed \in BOOLEAN /\ faulted \in BOOLEAN

ValueInv == HookInv /\ Numbers /\ Labels /\ Flags

LEMMA ValueInit ==
  Init => ValueInv
<1> SUFFICES ASSUME Init PROVE ValueInv
  OBVIOUS
<1>1. Numbers
  <2>1. count = 0 /\ curr = 0 /\ begun = {} /\ finished = <<>>
    BY DEF Init
  <2>2. pc # "startfut" /\ ~(pc = "idle" /\ st = "Starting") /\ ~(pc = "idle" /\ st = "RunMiddlewares")
        /\ pc \notin {"respinit", "respfut", "respnext"}
    BY DEF Init
  <2> QED BY <2>1, <2>2, PipelineAssumption DEF Numbers
<1>2. Labels
  BY PipelineAssumption DEF Init, Labels
<1>3. Flags
  BY DEF Init, Flags
<1> QED BY <1>1, <1>2, <1>3, HookInit DEF ValueInv

(* Where a call that enters a state leads, with curr if it asks for a      *)
(* response() next.                                                        *)
LEMMA RunWithin ==
  ASSUME NEW n \in 0..N, RunMiddlewares(n), curr \in 0..N
  PROVE  /\ curr' \in 0..N
         /\ pc' \notin {"startfut", "respfut", "respnext"} /\ (pc' = "respinit" => curr' < N)
         /\ pc' = "idle" => st' = "Response"
BY PipelineAssumption DEF RunMiddlewares, EnterResponse, Enter, Goto

LEMMA HandleWithin ==
  ASSUME NEW n \in 0..N, Handle(n), curr \in 0..N
  PROVE  /\ curr' \in 0..N
         /\ pc' \notin {"startfut", "respfut", "respnext"} /\ (pc' = "respinit" => curr' < N)
         /\ pc' = "idle" => st' \in {"Response", "Handler"}
BY RunWithin DEF Handle, Enter, PollPc

LEMMA ResponseWithin ==
  ASSUME EnterResponse
  PROVE  /\ pc' \in {"io", "idle"} /\ st' = "Response"
BY DEF EnterResponse, Enter

(* The start hooks keep the indices within the list.                       *)
LEMMA StartNumbers ==
  ASSUME ValueInv, Start \/ StartFuture \/ StartNext
  PROVE  Numbers'
<1> USE PipelineAssumption
<1>1. /\ count \in 0..N /\ curr \in 0..N /\ begun \subseteq 0..N - 1
      /\ finished \in Seq(0..N - 1) /\ UNCHANGED finished
      /\ st = "Starting" /\ (pc = "startfut" => count < N)
  BY DEF ValueInv, Numbers, HookInv, TaskInv, Places, Start, StartFuture, StartNext
<1>2. \/ UNCHANGED <<count, begun>>
      \/ count < N /\ count' = count + 1 /\ begun' = begun \cup {count}
  BY <1>1 DEF Start, StartFuture, StartNext, StartFutureDone, AllStarted
<1>3. count' \in 0..N /\ begun' \subseteq 0..N - 1
  <2>1. CASE UNCHANGED <<count, begun>>
    BY <1>1, <2>1
  <2>2. CASE count < N /\ count' = count + 1 /\ begun' = begun \cup {count}
    BY <1>1, <2>2
  <2> QED BY <1>2, <2>1, <2>2
<1>4. \/ Handle(count) \/ Handle(count')
      \/ RunMiddlewares(count) \/ RunMiddlewares(count')
      \/ EnterResponse /\ UNCHANGED curr
      \/ (Goto("start") \/ Goto("startnext") \/ (pc' = "panic" /\ UNCHANGED st)) /\ UNCHANGED curr
      \/ (Goto("startfut") \/ Enter("Starting") \/ (NotReady /\ UNCHANGED st))
            /\ UNCHANGED <<count, curr>> /\ count < N
  BY <1>1 DEF Start, StartFuture, StartNext, AllStarted
<1>5. /\ curr' \in 0..N
      /\ pc' = "startfut" \/ (pc' = "idle" /\ st' = "Starting") => count' < N
      /\ pc' \in {"respinit", "respfut", "respnext"} \/ (pc' = "idle" /\ st' = "RunMiddlewares")
           => curr' < N
  <2>1. CASE Handle(count) \/ Handle(count')
    BY <1>1, <1>3, <2>1, HandleWithin
  <2>2. CASE RunMiddlewares(count) \/ RunMiddlewares(count')
    BY <1>1, <1>3, <2>2, RunWithin
  <2>3. CASE EnterResponse /\ UNCHANGED curr
    BY <1>1, <2>3, ResponseWithin
  <2>4. CASE (Goto("start") \/ Goto("startnext") \/ (pc' = "panic" /\ UNCHANGED st)) /\ UNCHANGED curr
    BY <1>1, <2>4 DEF Goto
  <2>5. CASE (Goto("startfut") \/ Enter("Starting") \/ (NotReady /\ UNCHANGED st))
               /\ UNCHANGED <<count, curr>> /\ count < N
    BY <1>1, <2>5 DEF Goto, Enter, NotReady, PollPc
  <2> QED BY <1>4, <2>1, <2>2, <2>3, <2>4, <2>5
<1> QED BY <1>1, <1>3, <1>5 DEF Numbers

(* So do the response hooks.                                               *)
LEMMA ResponseNumbers ==
  ASSUME ValueInv, HandlerFuture \/ ResponseInit \/ ResponseFuture \/ ResponseNext
  PROVE  Numbers'
<1> USE PipelineAssumption
<1>1. /\ count \in 0..N /\ curr \in 0..N /\ UNCHANGED <<begun, finished>>
      /\ pc # "handlerfut" => curr < N
      /\ pc = "handlerfut" => st = "Handler"
      /\ pc \in {"respfut", "respnext"} => st = "RunMiddlewares"
  BY DEF ValueInv, Numbers, HookInv, TaskInv, Places, HandlerFuture, ResponseInit, ResponseFuture,
         ResponseNext, history
<1>2. count' \in {count, curr + 1} /\ (count' # count => curr < N)
  BY <1>1 DEF HandlerFuture, ResponseInit, ResponseFuture, ResponseNext, Asked
<1>3. \/ RunMiddlewares(count)
      \/ EnterResponse /\ (UNCHANGED curr \/ (curr < N /\ curr' = curr + 1))
      \/ /\ Goto("respinit") \/ Goto("respnext")
         /\ curr < N /\ curr' = curr + 1 /\ curr' # N
      \/ (Goto("respfut") \/ Enter("RunMiddlewares")) /\ UNCHANGED curr /\ curr < N
      \/ NotReady /\ UNCHANGED <<st, curr>> /\ pc \in {"handlerfut", "respfut"}
  BY <1>1 DEF HandlerFuture, ResponseInit, ResponseFuture, ResponseNext
<1>4. /\ curr' \in 0..N
      /\ pc' # "startfut" /\ ~(pc' = "idle" /\ st' = "Starting")
      /\ pc' \in {"respinit", "respfut", "respnext"} \/ (pc' = "idle" /\ st' = "RunMiddlewares")
           => curr' < N
  <2>1. CASE RunMiddlewares(count)
    BY <1>1, <2>1, RunWithin
  <2>2. CASE EnterResponse /\ (UNCHANGED curr \/ (curr < N /\ curr' = curr + 1))
    BY <1>1, <2>2, ResponseWithin
  <2>3. CASE /\ Goto("respinit") \/ Goto("respnext")
             /\ curr < N /\ curr' = curr + 1 /\ curr' # N
    BY <1>1, <2>3 DEF Goto
  <2>4. CASE (Goto("respfut") \/ Enter("RunMiddlewares")) /\ UNCHANGED curr /\ curr < N
    BY <1>1, <2>4 DEF Goto, Enter, PollPc
  <2>5. CASE NotReady /\ UNCHANGED <<st, curr>> /\ pc \in {"handlerfut", "respfut"}
    BY <1>1, <2>5 DEF NotReady
  <2> QED BY <1>3, <2>1, <2>2, <2>3, <2>4, <2>5
<1> QED BY <1>1, <1>2, <1>4 DEF ValueInv, Numbers

(* The response is written and the finish hooks are called: count goes     *)
(* down, and no call of the earlier hooks follows.                         *)
LEMMA LateNumbers ==
  ASSUME ValueInv,
         \/ IoStart \/ IoPayload \/ IoActor \/ IoDone \/ IoFlush \/ IoEnd
         \/ Finish \/ FinishFuture \/ ContextPoll
  PROVE  Numbers'
<1> USE PipelineAssumption
<1>1. /\ count \in 0..N /\ curr \in 0..N /\ UNCHANGED <<curr, begun>>
      /\ finished \in Seq(0..N - 1) /\ st \notin Work
  BY DEF ValueInv, Numbers, HookInv, TaskInv, Places, IoStart, IoPayload, IoActor, IoDone, IoFlush,
         IoEnd, Finish, FinishFuture, ContextPoll, history, Work
<1>2. \/ UNCHANGED <<count, finished>>
      \/ count > 0 /\ count' = count - 1 /\ finished' = Append(finished, count - 1)
  BY DEF IoStart, IoPayload, IoActor, IoDone, IoFlush, IoEnd, Finish, FinishFuture, ContextPoll,
         history, FinishIndex
<1>3. count' \in 0..N /\ finished' \in Seq(0..N - 1)
  <2>1. CASE UNCHANGED <<count, finished>>
    BY <1>1, <2>1
  <2>2. CASE count > 0 /\ count' = count - 1 /\ finished' = Append(finished, count - 1)
    BY <1>1, <2>2
  <2> QED BY <1>2, <2>1, <2>2
<1>4. st' \notin Work /\ Places'
  BY <1>1, TaskStep DEF ValueInv, HookInv, TaskInv, Places, States, Onward, Work, Next, Step
<1>5. pc' \notin {"startfut", "respinit", "respfut", "respnext"}
  BY <1>4 DEF Places, Work
<1> QED BY <1>1, <1>3, <1>4, <1>5 DEF ValueInv, Numbers, Work

(* Every call keeps the indices within the list.                           *)
LEMMA NumbersStep ==
  ASSUME ValueInv, [Next]_vars
  PROVE  Numbers'
<1>1. CASE PollIo \/ PollTask \/ Disconnected
  <2>1. pc = "idle" /\ UNCHANGED <<st, count, curr, begun, finished>>
    BY <1>1 DEF PollIo, PollTask, Disconnected, history
  <2>2. /\ pc' \in Pcs /\ pc' \notin {"respinit", "respnext"}
        /\ pc' = "startfut" => st = "Starting"
        /\ pc' = "respfut" => st = "RunMiddlewares"
    BY <1>1, <2>1 DEF PollIo, PollTask, Disconnected, PollPc, ValueInv, HookInv, TaskInv, Places,
                      States, Pcs
  <2> QED BY <2>1, <2>2 DEF ValueInv, Numbers
<1>2. CASE UNCHANGED vars
  BY <1>2 DEF ValueInv, Numbers, vars, history
<1> QED BY <1>1, <1>2, StartNumbers, ResponseNumbers, LateNumbers DEF Next, Step

(* Every call keeps the values of the other variables.                     *)
LEMMA LabelsStep ==
  ASSUME ValueInv, [Next]_vars
  PROVE  Labels'
<1> USE PipelineAssumption DEF io
<1>1. CASE PollIo \/ PollTask \/ Disconnected \/ ContextPoll \/ Finish \/ FinishFuture \/ IoDone
  BY <1>1 DEF ValueInv, Labels, PollIo, PollTask, Disconnected, ContextPoll, Finish, FinishFuture,
              IoDone
<1>2. CASE Start \/ StartFuture \/ StartNext
  BY <1>2 DEF ValueInv, Labels, Start, StartFuture, StartNext, Handle, RunMiddlewares, EnterResponse
<1>3. CASE HandlerFuture \/ ResponseInit \/ ResponseFuture \/ ResponseNext
  BY <1>3 DEF ValueInv, Labels, HandlerFuture, ResponseInit, ResponseFuture, ResponseNext,
              RunMiddlewares, EnterResponse
<1>4. CASE IoStart \/ IoPayload \/ IoActor
  <2>1. /\ iostate' \in {iostate, "Payload", "Actor", "Done"}
        /\ running' \in {running, "Running", "Paused"}
        /\ wstate' \in {wstate, "started", "eof"} /\ mode' = mode
    BY <1>4 DEF IoStart, IoPayload, IoActor, ActorFrames, Fail, FailWith, Written, StreamEnded
  <2>2. UNCHANGED chunks \/ (chunks < MaxChunks /\ chunks' = chunks + 1)
    BY <1>4 DEF IoStart, IoPayload, IoActor
  <2>3. chunks' \in 0..MaxChunks
    BY <2>2 DEF ValueInv, Labels
  <2> QED BY <2>1, <2>3 DEF ValueInv, Labels
<1>5. CASE IoFlush \/ IoEnd
  BY <1>5 DEF ValueInv, Labels, IoFlush, IoEnd, Fail, FailWith, WriteEof
<1>6. CASE UNCHANGED vars
  BY <1>6 DEF ValueInv, Labels, vars
<1> QED BY <1>1, <1>2, <1>3, <1>4, <1>5, <1>6 DEF Next, Step

LEMMA FlagsStep ==
  ASSUME ValueInv, [Next]_vars
  PROVE  Flags'
<1> USE DEF io, history
<1>1. CASE PollIo \/ PollTask \/ Disconnected \/ ContextPoll \/ IoDone
  BY <1>1 DEF ValueInv, Flags, PollIo, PollTask, Disconnected, ContextPoll, IoDone
<1>2. CASE Start \/ StartFuture \/ StartNext
  BY <1>2 DEF ValueInv, Flags, Start, StartFuture, StartNext, Handle, RunMiddlewares, EnterResponse
<1>3. CASE HandlerFuture \/ ResponseInit \/ ResponseFuture \/ ResponseNext
  BY <1>3 DEF ValueInv, Flags, HandlerFuture, ResponseInit, ResponseFuture, ResponseNext,
              RunMiddlewares, EnterResponse
<1>4. CASE IoStart \/ IoPayload
  BY <1>4 DEF ValueInv, Flags, IoStart, IoPayload, Fail, FailWith, FinishInit, IoReturn, Written,
              Loop
<1>5. CASE IoActor
  BY <1>5 DEF ValueInv, Flags, IoActor, ActorFrames, Batches, Fail, FailWith, FinishInit, IoReturn,
              Written, Loop
<1>6. CASE IoFlush \/ IoEnd
  BY <1>6 DEF ValueInv, Flags, IoFlush, IoEnd, Fail, FailWith, FinishInit, IoReturn, Loop, DrainTaken
<1>7. CASE Finish \/ FinishFuture
  BY <1>7 DEF ValueInv, Flags, Finish, FinishFuture, FinishReturn, IoReturn
<1>8. CASE UNCHANGED vars
  BY <1>8 DEF ValueInv, Flags, vars
<1> QED BY <1>1, <1>2, <1>3, <1>4, <1>5, <1>6, <1>7, <1>8 DEF Next, Step

(* The variables keep their values; above all, the indices of the          *)
(* middlewares stay in the list in every call (StartMiddlewares,           *)
(* RunMiddlewares and FinishingMiddlewares).                               *)
THEOREM PipelineTypes ==
  Spec => []TypeOK
<1>1. ValueInv /\ [Next]_vars => ValueInv'
  BY HookStep, NumbersStep, LabelsStep, FlagsStep DEF ValueInv
<1>2. ValueInv => TypeOK
  <2> SUFFICES ASSUME ValueInv PROVE TypeOK
    OBVIOUS
  <2>1. st \in States /\ pc \in Pcs /\ ret \in {"NotReady", "Ready", "ReadyFalse", "Err"}
    BY DEF ValueInv, HookInv, TaskInv, Places, Told, States, Work
  <2>2. {drain, context, error, gone, handled, failed, faulted} \subseteq BOOLEAN
    BY Zenon DEF ValueInv, Flags
  <2> QED BY <2>1, <2>2 DEF ValueInv, Numbers, Labels, TypeOK, Pcs
<1> QED BY <1>1, <1>2, ValueInit, PTL DEF Spec
=============================================================================
