------------------------------- MODULE Compose --------------------------------
(***************************************************************************)
(* The middlewares of a resource around one of its routes: the future      *)
(* Compose (route.rs) that the pipeline polls as the handler's reply.      *)
(* What a hook or a future answers is chosen freely; every such answer is  *)
(* a step, and pc says which call comes next.                              *)
(***************************************************************************)
EXTENDS Integers, Sequences

CONSTANT Mws   \* number of middlewares of the resource

VARIABLES
  pc,        \* "start", "startnext", "resp", "respnext", "idle", "panic" or "done"
  state,     \* ComposeState: "Starting", "Handler", "RunMiddlewares" or "Response"
  count,     \* ComposeInfo.count
  curr,      \* RunMiddlewares.curr
  fut,       \* the future held: "none", "pending" or "done"
  started,   \* history: middlewares whose start was called, in order
  waited,    \* history: those whose start gave a future
  handled,   \* history: calls of the handler
  seen       \* history: middlewares whose response was called, in order

vars == <<pc, state, count, curr, fut, started, waited, handled, seen>>

Init ==
  /\ pc = "start" /\ state = "Starting" /\ count = 0 /\ curr = 0 /\ fut = "none"
  /\ started = <<>> /\ waited = {} /\ handled = 0 /\ seen = <<>>

(* Response::init, of an answer or of an error.                            *)
Respond == pc' = "done" /\ state' = "Response" /\ fut' = "none" /\ UNCHANGED curr

(* RunMiddlewares::init                                                    *)
Run == pc' = "resp" /\ curr' = 0 /\ fut' = "none" /\ UNCHANGED state

(* A future is kept, and Compose returns NotReady, or is polled at once.   *)
Hold(s, at) == state' = s /\ pc' = at /\ fut' = "pending" /\ UNCHANGED curr

(* InnerHandler::handle and WaitingResponse::init                          *)
CallHandler ==
  /\ handled' = handled + 1 /\ (Run \/ Hold("Handler", "idle"))

(* The next start hook is called: it lets the request pass, answers it,    *)
(* gives a future or fails.                                                *)
StartHook ==
  /\ count < Mws /\ started' = Append(started, count) /\ UNCHANGED handled
  /\ \/ count' = count + 1 /\ UNCHANGED <<pc, state, curr, fut, waited>>
     \/ (Run \/ Respond) /\ UNCHANGED <<count, waited>>
     \/ Hold("Starting", "idle") /\ waited' = waited \cup {count} /\ UNCHANGED count

(* StartMiddlewares::init looks at the number of middlewares before every  *)
(* call, poll only after a future has resolved.                            *)
Start ==
  /\ pc = "start" /\ UNCHANGED seen
  /\ StartHook \/ (count = Mws /\ CallHandler /\ UNCHANGED <<count, started, waited>>)

StartNext ==
  /\ pc = "startnext" /\ UNCHANGED seen
  /\ \/ StartHook
     \/ count = Mws /\ pc' = "panic" /\ UNCHANGED <<state, count, curr, fut, started, waited, handled>>

(* StartMiddlewares::poll: the future of a start hook resolves, with an    *)
(* answer, with none, or with an error.                                    *)
Started ==
  /\ pc = "idle" /\ state = "Starting" /\ UNCHANGED <<started, waited, seen>>
  /\ \/ count' = count + 1 /\ Run /\ UNCHANGED handled
     \/ /\ count' = count + 1
        /\ IF count' = Mws THEN CallHandler
           ELSE pc' = "startnext" /\ fut' = "done" /\ UNCHANGED <<state, curr, handled>>
     \/ Respond /\ UNCHANGED <<count, handled>>

(* WaitingResponse::poll                                                   *)
Handled ==
  /\ pc = "idle" /\ state = "Handler" /\ (Run \/ Respond)
  /\ UNCHANGED <<count, started, waited, handled, seen>>

(* RunMiddlewares: the next response hook, in init and in poll.            *)
Response ==
  /\ pc = "resp" /\ UNCHANGED <<started, waited, handled>>
  /\ IF curr = Mws THEN Respond /\ UNCHANGED <<count, seen>>
     ELSE /\ seen' = Append(seen, curr)
          /\ \/ curr' = curr + 1 /\ UNCHANGED <<pc, state, fut, count>>
             \/ Hold("RunMiddlewares", "idle") /\ UNCHANGED count
             \/ Respond /\ count' = curr + 1

(* RunMiddlewares::poll: the future of a response hook resolves.           *)
RespondedSame ==
  /\ pc = "idle" /\ state = "RunMiddlewares" /\ UNCHANGED <<count, started, waited, handled, seen>>
  /\ \/ pc' = "resp" /\ fut' = "done" /\ UNCHANGED <<state, curr>>
     \/ Respond
Responded ==
  /\ pc = "idle" /\ state = "RunMiddlewares" /\ UNCHANGED <<count, started, waited, handled, seen>>
  /\ \/ pc' = "resp" /\ fut' = "done" /\ curr' = curr + 1 /\ UNCHANGED state
     \/ Respond

Next == Start \/ StartNext \/ Started \/ Handled \/ Response \/ Responded

Spec == Init /\ [][Next]_vars
FairSpec == Spec /\ WF_vars(Next)

-----------------------------------------------------------------------------
InOrder(s) == \A i \in DOMAIN s : s[i] = i - 1

(* The values of the variables.                                            *)
TypeOK ==
  /\ count \in 0..Mws /\ curr \in 0..Mws /\ handled \in 0..1
  /\ pc \in {"start", "startnext", "resp", "idle", "panic", "done"}
  /\ pc = "idle" <=> fut = "pending"

(* The hooks run once each, from the first middleware to the last; the     *)
(* handler runs once at most, and only if every start hook let it.         *)
HooksInOrder ==
  /\ InOrder(started) /\ InOrder(seen)
  /\ handled > 0 => Len(started) = Mws

(* Compose indexes past the middlewares (route.rs:380) exactly when the    *)
(* last of them starts at once after another one's future has resolved.    *)
PanicsOnlyThere == pc = "panic" => handled = 0 /\ waited # {} /\ Mws - 1 \notin waited

(* If the hooks' futures resolve, the pipeline gets its response.          *)
Answers == <>(pc \in {"done", "panic"})
=============================================================================
