------------------------------- MODULE Pipeline -------------------------------
(***************************************************************************)
(* One request in its pipeline (pipeline.rs): the middlewares' start       *)
(* hooks, the handler, the response hooks, the response itself and the     *)
(* finish hooks.  The connection drives it with poll_io until the response *)
(* is written and with poll afterwards; between two polls it may report    *)
(* that the peer is gone.                                                  *)
(*                                                                         *)
(* A poll runs user code several times in a row.  Each such call is a step *)
(* here, and pc says which call comes next; pc = "idle" between polls.     *)
(* What middlewares, handler, body and writer answer is chosen freely      *)
(* among the kinds the constants allow.                                    *)
(***************************************************************************)
EXTENDS Integers, Sequences

CONSTANTS
  N,              \* number of middlewares, mws.len()
  StartKinds,     \* what start() may return
  ResponseKinds,  \* what response() may return
  FinishKinds,    \* what finish() may return
  Bodies,         \* bodies a response may have
  MaxChunks       \* bound: chunks and frame batches a body produces

ASSUME PipelineAssumption ==
  /\ N \in Nat
  /\ MaxChunks \in Nat
  /\ StartKinds \subseteq {"done", "response", "future", "err"}
  /\ ResponseKinds \subseteq {"done", "future", "err"}
  /\ FinishKinds \subseteq {"done", "future"}
  /\ Bodies \subseteq {"binary", "stream", "actor"}

VARIABLES
  st,        \* PipelineState
  pc,        \* the call that comes next
  mode,      \* who runs the pipeline: "new", "poll_io" or "poll"
  ret,       \* what the last poll returned
  count,     \* PipelineInfo.count
  curr,      \* RunMiddlewares.curr
  iostate,   \* ProcessResponse.iostate
  running,   \* ProcessResponse.running
  drain,     \* ProcessResponse.drain is Some(_)
  context,   \* PipelineInfo.context is Some(_)
  error,     \* PipelineInfo.error is Some(_)
  gone,      \* PipelineInfo.disconnected is Some(_)
  wstate,    \* the writer: "new", "started" or "eof" (write_eof succeeded)
  chunks,    \* chunks and frame batches taken from the body so far
  begun,     \* history: middlewares whose start() has completed
  handled,   \* history: the handler was called
  finished,  \* history: middlewares whose finish() was called, in order
  failed,    \* history: a response() failed inside RunMiddlewares::init
  faulted    \* history: info.error was set

io == <<iostate, running, drain, wstate, chunks>>
history == <<begun, handled, finished, failed, faulted>>
vars == <<st, pc, mode, ret, count, curr, io, context, error, gone, history>>

States == {"None", "Error", "Starting", "Handler", "RunMiddlewares", "Response",
           "Finishing", "Completed"}

(* PipelineState::poll: the call each state makes when it is polled.       *)
PollPc(s) == CASE s = "Starting" -> "startfut"
               [] s = "Handler" -> "handlerfut"
               [] s = "RunMiddlewares" -> "respfut"
               [] s = "Finishing" -> "finfut"
               [] s = "Completed" -> "context"

(* The state becomes s, and the loop of poll_io, of poll, or the           *)
(* constructor goes on from there.                                         *)
Enter(s) ==
  /\ st' = s
  /\ IF mode = "new" THEN pc' = "idle" /\ ret' = "NotReady"
     ELSE IF s \in {"None", "Error"}
     THEN /\ pc' = "idle"
          /\ ret' = IF s = "Error" /\ mode = "poll_io" THEN "Err" ELSE "Ready"
     ELSE IF s = "Response"
     THEN IF mode = "poll_io" THEN pc' = "io" /\ UNCHANGED ret
                              ELSE pc' = "idle" /\ ret' = "NotReady"
     ELSE pc' = PollPc(s) /\ UNCHANGED ret

(* PipelineState::poll returned None.                                      *)
NotReady == pc' = "idle" /\ ret' = "NotReady"

Goto(p) == pc' = p /\ UNCHANGED <<st, ret>>

(* ProcessResponse::init                                                   *)
EnterResponse ==
  /\ iostate' = "Response" /\ running' = "Running" /\ drain' = FALSE
  /\ Enter("Response")
  /\ UNCHANGED <<wstate, chunks>>

(* RunMiddlewares::init: nothing to run when no middleware has started.    *)
RunMiddlewares(n) ==
  IF n = 0
  THEN EnterResponse /\ UNCHANGED curr
  ELSE curr' = 0 /\ Goto("respinit") /\ UNCHANGED io

(* The handler's Reply: a message, or a future.                            *)
Handle(n) ==
  /\ handled' = TRUE
  /\ \/ RunMiddlewares(n)
     \/ Enter("Handler") /\ UNCHANGED <<curr, io>>

-----------------------------------------------------------------------------
(* Pipeline::new, and Pipeline::error with a response ready to be sent.    *)
Init ==
  /\ \/ st = "Starting" /\ pc = "start"
     \/ st = "Response" /\ pc = "idle"
  /\ mode = "new" /\ ret = "NotReady"
  /\ count = 0 /\ curr = 0
  /\ iostate = "Response" /\ running = "Running" /\ drain = FALSE
  /\ context = FALSE /\ error = FALSE /\ gone = FALSE
  /\ wstate = "new" /\ chunks = 0
  /\ begun = {} /\ handled = FALSE /\ finished = <<>> /\ failed = FALSE
  /\ faulted = FALSE

(* The connection polls the pipeline; is_response and the first match of   *)
(* poll_io and poll decide what is called.                                 *)
PollIo ==
  /\ pc = "idle" /\ mode' = "poll_io"
  /\ IF st = "None" THEN ret' = "Ready" /\ UNCHANGED pc
     ELSE IF st = "Error" THEN ret' = "Err" /\ UNCHANGED pc
     ELSE /\ pc' = IF st # "Response" THEN PollPc(st)
                   ELSE IF running = "Paused" \/ drain THEN "flush" ELSE "io"
          /\ UNCHANGED ret
  /\ UNCHANGED <<st, count, curr, io, context, error, gone, history>>

PollTask ==
  /\ pc = "idle" /\ mode' = "poll"
  /\ IF st \in {"None", "Error"} THEN ret' = "Ready" /\ UNCHANGED pc
     ELSE IF st = "Response" THEN ret' = "NotReady" /\ UNCHANGED pc
     ELSE pc' = PollPc(st) /\ UNCHANGED ret
  /\ UNCHANGED <<st, count, curr, io, context, error, gone, history>>

(* HttpHandlerTask::disconnected                                           *)
Disconnected ==
  /\ pc = "idle" /\ gone' = TRUE
  /\ UNCHANGED <<st, pc, mode, ret, count, curr, io, context, error, history>>

-----------------------------------------------------------------------------
(* StartMiddlewares.  init ("start") looks at the number of middlewares    *)
(* before every call; poll ("startnext") only after a future has resolved. *)

AllButOneStarted(n) == n + 1 >= N
AllStarted(n) == n = N

Start ==
  /\ pc = "start"
  /\ \/ /\ AllStarted(count)
        /\ Handle(count)
        /\ UNCHANGED <<count, begun>>
     \/ /\ ~AllStarted(count) /\ "done" \in StartKinds
        /\ count' = count + 1 /\ begun' = begun \cup {count}
        /\ Goto("start")
        /\ UNCHANGED <<curr, io, handled>>
     \/ /\ ~AllStarted(count) /\ "response" \in StartKinds
        /\ RunMiddlewares(count)
        /\ UNCHANGED <<count, begun, handled>>
     \/ (* the future is polled at once *)
        /\ ~AllStarted(count) /\ "future" \in StartKinds
        /\ \/ /\ Enter("Starting")
              /\ UNCHANGED <<count, begun, curr, io>>
           \/ /\ count' = count + 1 /\ begun' = begun \cup {count}
              /\ Goto("start")
              /\ UNCHANGED <<curr, io>>
           \/ /\ RunMiddlewares(count)
              /\ UNCHANGED <<count, begun>>
        /\ UNCHANGED handled
     \/ /\ ~AllStarted(count) /\ "err" \in StartKinds
        /\ EnterResponse
        /\ UNCHANGED <<count, begun, curr, handled>>
  /\ UNCHANGED <<mode, context, error, gone, finished, failed, faulted>>

(* The future of a start() is polled.                                      *)
StartFutureCount(c) == c
StartFutureDone(c) == c + 1

StartFuture ==
  /\ pc = "startfut"
  /\ \/ /\ NotReady
        /\ UNCHANGED <<st, count, curr, io, begun, handled>>
     \/ /\ count' = StartFutureDone(count) /\ begun' = begun \cup {count}
        /\ \/ /\ RunMiddlewares(count')
              /\ UNCHANGED handled
           \/ /\ AllStarted(count')
              /\ Handle(count')
           \/ /\ ~AllStarted(count')
              /\ Goto("startnext")
              /\ UNCHANGED <<curr, io, handled>>
     \/ /\ EnterResponse
        /\ UNCHANGED <<count, curr, begun, handled>>
  /\ UNCHANGED <<mode, context, error, gone, finished, failed, faulted>>

(* The inner loop of poll calls start() without comparing count to len:    *)
(* past the last middleware the index is out of bounds.                    *)
StartNext ==
  /\ pc = "startnext"
  /\ \/ /\ count = N
        /\ pc' = "panic"
        /\ UNCHANGED <<st, ret, count, curr, io, begun>>
     \/ /\ count < N /\ "done" \in StartKinds
        /\ count' = count + 1 /\ begun' = begun \cup {count}
        /\ Goto("startnext")
        /\ UNCHANGED <<curr, io>>
     \/ /\ count < N /\ "response" \in StartKinds
        /\ RunMiddlewares(count)
        /\ UNCHANGED <<count, begun>>
     \/ /\ count < N /\ "future" \in StartKinds
        /\ Goto("startfut")
        /\ UNCHANGED <<count, curr, io, begun>>
     \/ /\ count < N /\ "err" \in StartKinds
        /\ EnterResponse
        /\ UNCHANGED <<count, curr, begun>>
  /\ UNCHANGED <<mode, context, error, gone, handled, finished, failed, faulted>>

(* WaitingResponse::poll                                                   *)
HandlerFuture ==
  /\ pc = "handlerfut"
  /\ \/ NotReady /\ UNCHANGED <<st, curr, io>>
     \/ RunMiddlewares(count)
     \/ EnterResponse /\ UNCHANGED curr
  /\ UNCHANGED <<mode, count, context, error, gone, history>>

-----------------------------------------------------------------------------
(* RunMiddlewares: response() of every middleware, in the order of the     *)
(* list.  A failure inside init cuts count back to the middlewares already *)
(* asked; a failure inside poll leaves it alone.                           *)

AskedNext(i) == i + 2
Asked(i) == i + 1

ResponseInit ==
  /\ pc = "respinit"
  /\ \/ /\ "err" \in ResponseKinds
        /\ count' = Asked(curr) /\ failed' = TRUE
        /\ EnterResponse
        /\ UNCHANGED curr
     \/ /\ "done" \in ResponseKinds
        /\ curr' = curr + 1
        /\ IF curr' = N THEN EnterResponse
                        ELSE Goto("respinit") /\ UNCHANGED io
        /\ UNCHANGED <<count, failed>>
     \/ /\ "future" \in ResponseKinds
        /\ Enter("RunMiddlewares")
        /\ UNCHANGED <<count, curr, io, failed>>
  /\ UNCHANGED <<mode, context, error, gone, begun, handled, finished, faulted>>

ResponseFuture ==
  /\ pc = "respfut"
  /\ \/ /\ NotReady
        /\ UNCHANGED <<st, curr, io>>
     \/ /\ curr' = curr + 1
        /\ IF curr' = N THEN EnterResponse
                        ELSE Goto("respnext") /\ UNCHANGED io
     \/ EnterResponse /\ UNCHANGED curr
  /\ UNCHANGED <<mode, count, context, error, gone, history>>

ResponseNext ==
  /\ pc = "respnext"
  /\ \/ /\ "err" \in ResponseKinds
        /\ EnterResponse
        /\ UNCHANGED curr
     \/ /\ "done" \in ResponseKinds
        /\ curr' = curr + 1
        /\ IF curr' = N THEN EnterResponse
                        ELSE Goto("respnext") /\ UNCHANGED io
     \/ /\ "future" \in ResponseKinds
        /\ Goto("respfut")
        /\ UNCHANGED <<curr, io>>
  /\ UNCHANGED <<mode, count, context, error, gone, history>>

-----------------------------------------------------------------------------
IoReturnDone(s, err) ==
  /\ st' = s /\ pc' = "idle" /\ error' = FALSE
  /\ ret' = IF err THEN "Err" ELSE "Ready"

(* ProcessResponse::poll_io returns Ok(s): poll_io takes info.error, or    *)
(* reports whether the pipeline is done (is_done).                         *)
IoReturn(s, err) ==
  /\ st' = s /\ pc' = "idle" /\ error' = FALSE
  /\ ret' = IF err THEN "Err" ELSE IF s = "None" THEN "Ready" ELSE "ReadyFalse"

(* Completed::init                                                         *)
CompletedState(ctx) == IF ctx THEN "Completed" ELSE "None"

(* FinishingMiddlewares::init, with or without info.error and context.     *)
FinishInit(err, ctx) ==
  IF count = 0 THEN IoReturn(CompletedState(ctx), err)
               ELSE Goto("finish") /\ error' = err

FailWith(ctx) == /\ FinishInit(TRUE, ctx) /\ faulted' = TRUE
                 /\ UNCHANGED <<iostate, running, drain, wstate>>

Fail == FailWith(context)

Loop(p) == Goto(p) /\ UNCHANGED <<error, faulted>>

(* The writer's answer: Pause leaves the inner loop, Done goes round.      *)
Written == \/ running' = "Paused" /\ Loop("flush")
           \/ running' = "Running" /\ Loop("io")

(* IOState::Response                                                       *)
IoStart ==
  /\ pc = "io" /\ iostate = "Response"
  /\ \/ Fail
     \/ /\ wstate' = "started"
        /\ \/ "stream" \in Bodies /\ iostate' = "Payload" /\ Loop("io")
              /\ UNCHANGED running
           \/ "actor" \in Bodies /\ iostate' = "Actor" /\ Loop("io")
              /\ UNCHANGED running
           \/ "binary" \in Bodies /\ iostate' = "Done" /\ Written
        /\ UNCHANGED drain
  /\ UNCHANGED <<mode, count, curr, chunks, context, gone, begun, handled,
                 finished, failed>>

StreamEnded == "Done"

(* IOState::Payload: end of the stream, a chunk, nothing yet, or an error. *)
IoPayload ==
  /\ pc = "io" /\ iostate = "Payload"
  /\ \/ /\ \/ Fail
           \/ /\ wstate' = "eof" /\ iostate' = StreamEnded /\ Loop("flush")
              /\ UNCHANGED <<running, drain>>
           \/ Loop("flush") /\ UNCHANGED <<iostate, running, drain, wstate>>
        /\ UNCHANGED chunks
     \/ /\ chunks < MaxChunks /\ chunks' = chunks + 1
        /\ \/ Fail
           \/ Written /\ UNCHANGED <<iostate, drain, wstate>>
  /\ UNCHANGED <<mode, count, curr, context, gone, begun, handled, finished,
                 failed>>

(* IOState::Actor: the frames of one batch are written up to the first     *)
(* Chunk(None); the context then lives on in info.context.                 *)
Batches == [chunk: BOOLEAN, drain: BOOLEAN, eof: BOOLEAN]

ActorFrames(b) ==
  \/ b.eof /\ context' = TRUE /\ FailWith(TRUE)
  \/ b.chunk /\ Fail /\ UNCHANGED context
  \/ /\ drain' = (drain \/ b.drain)
     /\ \/ /\ b.eof /\ context' = TRUE
           /\ iostate' = "Done" /\ wstate' = "eof" /\ Loop("flush")
           /\ UNCHANGED running
        \/ /\ ~b.eof /\ b.drain /\ running' = "Running" /\ Loop("flush")
           /\ UNCHANGED <<context, iostate, wstate>>
        \/ /\ ~b.eof /\ ~b.drain /\ b.chunk /\ Written
           /\ UNCHANGED <<context, iostate, wstate>>
        \/ (* an empty batch *)
           /\ ~b.eof /\ ~b.drain /\ ~b.chunk /\ Loop("flush")
           /\ UNCHANGED <<context, iostate, wstate, running>>

IoActor ==
  /\ pc = "io" /\ iostate = "Actor"
  /\ gone' = FALSE
  /\ \/ /\ chunks < MaxChunks /\ chunks' = chunks + 1
        /\ \E b \in Batches : ActorFrames(b)
     \/ /\ \/ Fail
           \/ (* the context has stopped *)
              /\ iostate' = "Done" /\ Loop("flush")
              /\ UNCHANGED <<running, drain, wstate>>
           \/ Loop("flush") /\ UNCHANGED <<iostate, running, drain, wstate>>
        /\ UNCHANGED <<chunks, context>>
  /\ UNCHANGED <<mode, count, curr, begun, handled, finished, failed>>

IoDone ==
  /\ pc = "io" /\ iostate = "Done" /\ Goto("flush")
  /\ UNCHANGED <<mode, count, curr, io, context, error, gone, history>>

DrainKept == drain
DrainTaken == FALSE

(* Flush if the task is paused or drains; then either start over, wait for *)
(* the body, or finish the response.                                       *)
IoFlush ==
  /\ pc = "flush" /\ (running = "Paused" \/ drain)
  /\ \/ /\ running' = "Running" /\ drain' = DrainTaken
        /\ Loop("io")
        /\ UNCHANGED <<iostate, wstate>>
     \/ NotReady /\ UNCHANGED <<st, iostate, running, drain, wstate, error, faulted>>
     \/ Fail
  /\ UNCHANGED <<mode, count, curr, chunks, context, gone, begun, handled,
                 finished, failed>>

WriteEof == wstate' = "eof"

IoEnd ==
  /\ pc = "flush" /\ ~(running = "Paused" \/ drain)
  /\ \/ /\ iostate # "Done" /\ NotReady
        /\ UNCHANGED <<st, iostate, running, drain, wstate, error, faulted>>
     \/ /\ iostate = "Done"
        /\ \/ Fail
           \/ /\ WriteEof /\ FinishInit(FALSE, context)
              /\ UNCHANGED <<iostate, running, drain, faulted>>
  /\ UNCHANGED <<mode, count, curr, chunks, context, gone, begun, handled,
                 finished, failed>>

-----------------------------------------------------------------------------
(* FinishingMiddlewares::poll returns: to init (st is still Response) or   *)
(* to PipelineState::poll.                                                 *)
FinishReturn(s) == IF st = "Response" THEN IoReturn(s, error)
                                      ELSE Enter(s) /\ UNCHANGED error

(* info.count -= 1, and finish() of that middleware.  At 0 the subtraction *)
(* underflows.                                                             *)
ForwardIndex(c) == N - c
FinishIndex(c) == c - 1

Finish ==
  /\ pc = "finish"
  /\ \/ /\ count = 0
        /\ pc' = "panic"
        /\ UNCHANGED <<st, ret, count, error, finished>>
     \/ /\ count > 0
        /\ count' = count - 1
        /\ finished' = Append(finished, FinishIndex(count))
        /\ \/ /\ "done" \in FinishKinds
              /\ IF count' = 0 THEN FinishReturn(CompletedState(context))
                               ELSE Goto("finish") /\ UNCHANGED error
           \/ /\ "future" \in FinishKinds
              /\ Goto("finfut")
              /\ UNCHANGED error
  /\ UNCHANGED <<mode, curr, io, context, gone, begun, handled, failed, faulted>>

(* The future of a finish() is polled; its error is only logged.           *)
FinishFuture ==
  /\ pc = "finfut"
  /\ \/ IF st = "Response" THEN IoReturn("Finishing", error)
                           ELSE NotReady /\ UNCHANGED <<st, error>>
     \/ Goto("finish") /\ UNCHANGED error
  /\ UNCHANGED <<mode, count, curr, io, context, gone, history>>

(* Completed::poll                                                         *)
ContextPoll ==
  /\ pc = "context"
  /\ \/ NotReady /\ UNCHANGED st
     \/ Enter("None")
     \/ Enter("Error")
  /\ UNCHANGED <<mode, count, curr, io, context, error, gone, history>>

-----------------------------------------------------------------------------
Step == \/ Start \/ StartFuture \/ StartNext \/ HandlerFuture
        \/ ResponseInit \/ ResponseFuture \/ ResponseNext
        \/ IoStart \/ IoPayload \/ IoActor \/ IoDone \/ IoFlush \/ IoEnd
        \/ Finish \/ FinishFuture \/ ContextPoll

Next == PollIo \/ PollTask \/ Disconnected \/ Step

Spec == Init /\ [][Next]_vars

(* A poll runs on its thread until it returns.                             *)
FairSpec == Spec /\ WF_vars(Step)

-----------------------------------------------------------------------------
(* The values of the variables.                                            *)
TypeOK ==
  /\ st \in States
  /\ pc \in {"idle", "panic", "start", "startfut", "startnext", "handlerfut",
             "respinit", "respfut", "respnext", "io", "flush", "finish",
             "finfut", "context"}
  /\ mode \in {"new", "poll_io", "poll"}
  /\ ret \in {"NotReady", "Ready", "ReadyFalse", "Err"}
  /\ count \in 0..N /\ curr \in 0..N
  /\ iostate \in {"Response", "Payload", "Actor", "Done"}
  /\ running \in {"Running", "Paused"}
  /\ wstate \in {"new", "started", "eof"}
  /\ {drain, context, error, gone, handled, failed, faulted} \subseteq BOOLEAN
  /\ chunks \in 0..MaxChunks
  /\ begun \subseteq 0..N - 1
  /\ finished \in Seq(0..N - 1)

(* The handler runs only after start() of every middleware has completed.  *)
HandlerAfterStarts == handled => begun = 0..N - 1

(* finish() is called in the reverse order of the list and at most once    *)
(* for a middleware, over all polls of the pipeline.                       *)
FinishReversed ==
  \A i \in 1..Len(finished) - 1 : finished[i + 1] = finished[i] - 1

(* The connection is told that the task is done, and drops it, only when    *)
(* finish() was called for every middleware whose start() completed (unless *)
(* a response() hook failed on the way) and the actor behind the body, if   *)
(* any, has been polled to an answer.                                       *)
DoneMeansFinished ==
  (pc = "idle" /\ ret = "Ready") =>
     /\ st \in {"None", "Error"}
     /\ ~failed => \A m \in begun : \E i \in 1..Len(finished) : finished[i] = m

(* finish() is called only after the end of the body was written, or after *)
(* an error made that impossible.                                          *)
FinishAfterBody == finished # <<>> => wstate = "eof" \/ faulted

(* Nothing is written after the end of the body.                           *)
NoWriteAfterEof ==
  [][(pc = "io" /\ iostate \in {"Payload", "Actor"}) => wstate = "started"]_vars

(* Every poll returns: flushing, draining and going round the loops never  *)
(* keeps the thread, with a body of at most MaxChunks pieces.              *)
PollReturns == (pc # "idle") ~> (pc \in {"idle", "panic"})

(* The pipeline implements HttpTask: its phase never goes back, and what a *)
(* poll answers tells the connection the phase, so that no response is     *)
(* taken for written, and no task dropped, too early.                      *)
Phase == CASE st \in {"Starting", "Handler", "RunMiddlewares"} -> "work"
           [] st = "Response" -> "send"
           [] st \in {"Finishing", "Completed"} -> "finish"
           [] st = "None" -> "done"
           [] st = "Error" -> "fail"

Task == INSTANCE HttpTask WITH phase <- Phase, answer <- ret

IsHttpTask == Task!Spec

(* No poll panics.                                                         *)
NoPanic == pc # "panic"
=============================================================================
