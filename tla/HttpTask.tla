------------------------------- MODULE HttpTask -------------------------------
(***************************************************************************)
(* What a connection may expect of the task of one request (the trait      *)
(* HttpHandlerTask, server/mod.rs): the phases it goes through and what a  *)
(* poll may answer in each.  The pipeline implements this specification;   *)
(* the HTTP/1 connection is modelled on top of it.                         *)
(*                                                                         *)
(*   work    no response yet                                               *)
(*   send    the response is being written                                 *)
(*   finish  it is written, or failed; finish hooks or an actor still run  *)
(*   done    nothing is left to do                                         *)
(*   fail    the actor behind the response failed after it was written     *)
(***************************************************************************)
VARIABLES phase, answer

Phases == {"work", "send", "finish", "done", "fail"}

(* The phases one step may lead to.                                        *)
Succ(p) == CASE p = "work" -> {"work", "send"}
             [] p = "send" -> {"send", "finish", "done"}
             [] p = "finish" -> {"finish", "done", "fail"}
             [] p \in {"done", "fail"} -> {p}

(* Answers of poll_io when it leaves the task in phase p: NotReady, Err,   *)
(* Ready(true) as "Ready" and Ready(false) as "ReadyFalse".                *)
IoAnswers(p) == CASE p \in {"work", "send"} -> {"NotReady"}
                  [] p = "finish" -> {"NotReady", "ReadyFalse", "Err"}
                  [] p = "done" -> {"Ready", "Err"}
                  [] p = "fail" -> {"Err"}

(* Answers of poll.                                                        *)
PollAnswers(p) == IF p \in {"done", "fail"} THEN {"Ready"} ELSE {"NotReady"}

Init == phase \in {"work", "send"} /\ answer = "NotReady"

Next == /\ phase' \in Succ(phase)
        /\ answer' \in IoAnswers(phase') \cup PollAnswers(phase')

Spec == Init /\ [][Next]_<<phase, answer>>
=============================================================================
