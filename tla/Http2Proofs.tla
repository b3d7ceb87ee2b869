----------------------------- MODULE Http2Proofs ------------------------------
(***************************************************************************)
(* Proofs about Http2, for any number of streams and buffers of any size:  *)
(* a stream is ended with all of its response, the writer of a stream      *)
(* holds one chunk more than its capacity at most, and an entry leaves the *)
(* connection only after its response.                                     *)
(***************************************************************************)
EXTENDS Http2, TLAPS, WellFoundedInduction, NaturalsInduction

Answers == {"NotReady", "Ready", "ReadyFalse", "Err"}
After == {"finish", "done", "fail"}

Stream ==
  [id: Nat, phase: {"work", "send"} \cup After,
   flags: SUBSET {"EOF", "ERROR", "FINISHED", "WRITE_DONE"},
   kind: Kinds \cup {"none"}, w: SUBSET {"STARTED", "EOF"}, buf: 0..MaxUnits,
   paused: BOOLEAN, send: {"none", "open", "ended"}, gone: BOOLEAN,
   pay: {"Read", "Pause", "Dropped"}]

(* A task without a response has written nothing; one that still sends a   *)
(* stream has not ended it; a stream is ended with its last unit; what is  *)
(* buffered beyond the capacity pauses the task; the writer is done with a *)
(* stream that is ended or gone.                                           *)
EntryInv(e) ==
  /\ e.phase = "work" => e.w = {} /\ e.send = "none" /\ e.buf = 0
  /\ e.phase = "send" /\ e.kind = "stream" => "EOF" \notin e.w
  /\ "EOF" \in e.flags => e.phase \in After
  /\ e.send = "ended" => "EOF" \in e.w /\ e.buf = 0
  /\ e.kind = "stream" /\ ~e.gone => e.buf <= Capacity + 1 /\ (e.paused \/ e.buf <= Capacity)
  /\ "WRITE_DONE" \in e.flags => e.send = "ended" \/ e.gone \/ "ERROR" \in e.flags

TasksInv == tasks \in Seq(Stream) /\ \A i \in 1..Len(tasks) : EntryInv(tasks[i])

(* The keep-alive timer runs only while there is no task, and a poll only  *)
(* on a connection that is open.                                           *)
Flags == disconnected \in BOOLEAN /\ notReady \in BOOLEAN /\ retry \in BOOLEAN
Places ==
  /\ state \in {"handshake", "connection", "empty"}
  /\ timer \in {"none", "set", "fired"} /\ closed \in {"no", "done", "failed", "shutdown"}
  /\ pc \in {"idle", "payload", "io", "task", "write", "request", "tail"}
  /\ idx \in Nat \ {0} /\ (pc \in {"io", "task", "write"} => idx <= Len(tasks))
  /\ pc = "task" => "EOF" \in tasks[idx].flags
  /\ accepted \in Nat
  /\ timer # "none" => tasks = <<>>
  /\ closed # "no" => pc = "idle"
  /\ closed = "done" => tasks = <<>>

ConnInv == Flags /\ Places
Inv == TasksInv /\ ConnInv

-----------------------------------------------------------------------------
(* A set of positions that is not empty has a first one.                   *)
LEMMA FirstExists ==
  ASSUME NEW S \in SUBSET Nat, S # {}
  PROVE  Min(S) \in S /\ \A n \in S : Min(S) <= n
<1> DEFINE less == OpToRel(<, Nat)
<1>1. \A x, y \in Nat : y < x => <<y, x>> \in less
  BY DEF OpToRel
<1>2. IsWellFoundedOn(less, Nat)
  BY NatLessThanWellFounded
<1> HIDE DEF less
<1>3. PICK x \in S : \A y \in S : ~(<<y, x>> \in less)
  BY <1>2, WFMin
<1>4. ASSUME NEW y \in S PROVE x <= y
  <2>1. x \in Nat /\ y \in Nat
    OBVIOUS
  <2>2. ~(y < x)
    BY Zenon, <1>1, <1>3, <2>1
  <2> QED BY <2>1, <2>2
<1> QED BY <1>4 DEF Min

(* The loop of Http2::poll that removes the entries it is done with: it    *)
(* stops at the first it is not done with, and keeps that and the rest.    *)
LEMMA CleanupKeeps ==
  ASSUME tasks \in Seq(Stream), Cleanup
  PROVE  \E n \in 0..Len(tasks) :
           /\ tasks' = SubSeq(tasks, n + 1, Len(tasks))
           /\ \A i \in 1..n : Removable(tasks[i])
<1> DEFINE Kept == {i \in 1..Len(tasks) : ~Removable(tasks[i])}
<1>1. Kept \in SUBSET Nat /\ Kept \subseteq 1..Len(tasks) /\ Len(tasks) \in Nat
  OBVIOUS
<1>2. \A i \in 1..Len(tasks) : i \notin Kept => Removable(tasks[i])
  OBVIOUS
<1>3. tasks' = IF Kept = {} THEN <<>> ELSE SubSeq(tasks, Min(Kept), Len(tasks))
  BY DEF Cleanup
<1> HIDE DEF Kept
<1>4. CASE Kept = {}
  <2>1. tasks' = <<>>
    BY <1>3, <1>4
  <2>2. tasks' = SubSeq(tasks, Len(tasks) + 1, Len(tasks))
    BY <1>1, <2>1
  <2> QED BY <1>1, <1>2, <1>4, <2>2
<1>5. CASE Kept # {}
  <2>1. Min(Kept) \in Kept /\ \A n \in Kept : Min(Kept) <= n
    BY <1>1, <1>5, FirstExists
  <2>2. Min(Kept) \in 1..Len(tasks)
    BY <1>1, <2>1
  <2>3. \A i \in 1..Min(Kept) - 1 : i \notin Kept
    BY <2>1, <2>2
  <2>4. tasks' = SubSeq(tasks, Min(Kept), Len(tasks))
    BY <1>3, <1>5
  <2>5. Min(Kept) - 1 \in 0..Len(tasks) /\ (Min(Kept) - 1) + 1 = Min(Kept)
    BY <1>1, <2>2
  <2>6. \A i \in 1..Min(Kept) - 1 : Removable(tasks[i])
    BY <1>1, <1>2, <2>2, <2>3
  <2> QED BY <2>4, <2>5, <2>6
<1> QED BY <1>4, <1>5

-----------------------------------------------------------------------------
(* What poll_completed leaves of an entry, and when it says Ready.         *)
LEMMA CompletedEntry ==
  ASSUME NEW e \in Stream, EntryInv(e), NEW r \in PollCompleted(e)
  PROVE  /\ r[1] \in Stream /\ EntryInv(r[1]) /\ r[1].id = e.id /\ r[1].phase = e.phase
         /\ r[1].flags = e.flags
         /\ r[2] \in {"Ready", "NotReady", "Err"}
         /\ r[2] = "Ready" => r[1] = e /\ (e.send = "ended" \/ e.gone)
<1>1. \/ r = <<e, "NotReady">> \/ r = <<e, "Err">>
      \/ r = <<e, "Ready">> /\ (e.send = "ended" \/ e.gone)
      \/ \E n \in 1..e.buf : r = <<Send(e, n), "NotReady">>
  BY DEF PollCompleted
<1>2. CASE r = <<e, "NotReady">> \/ r = <<e, "Err">> \/ (r = <<e, "Ready">> /\ (e.send = "ended" \/ e.gone))
  BY <1>2
<1>3. ASSUME NEW n \in 1..e.buf, r = <<Send(e, n), "NotReady">>
      PROVE  /\ r[1] \in Stream /\ EntryInv(r[1]) /\ r[1].id = e.id /\ r[1].phase = e.phase
             /\ r[1].flags = e.flags /\ r[2] = "NotReady"
  <2>1. r[1] = Send(e, n) /\ r[2] = "NotReady"
    BY <1>3
  <2>2. e.buf - n \in 0..MaxUnits /\ e.buf - n <= e.buf /\ e.buf \in Nat /\ n \in Nat
    BY Http2Assumption DEF Stream
  <2>3. Send(e, n) \in Stream
    BY <2>2 DEF Send, Stream
  <2>4. EntryInv(Send(e, n))
    BY <2>2, Http2Assumption DEF Send, Stream, EntryInv
  <2> QED BY <2>1, <2>3, <2>4 DEF Send, Stream
<1> QED BY <1>1, <1>2, <1>3

(* What the loop makes of an entry whose poll_io has answered.             *)
Answered(e, answer) ==
  IF answer = "NotReady" THEN e
  ELSE [e EXCEPT !.pay = "Dropped", !.gone = @ \/ answer = "Err",
                 !.flags = @ \cup CASE answer = "Ready" -> {"EOF", "FINISHED"}
                                     [] answer = "ReadyFalse" -> {"EOF"}
                                     [] answer = "Err" -> {"EOF", "ERROR", "WRITE_DONE"}]

LEMMA AnsweredEntry ==
  ASSUME NEW e \in Stream, EntryInv(e), NEW answer \in Answers,
         answer # "NotReady" => e.phase \in After
  PROVE  Answered(e, answer) \in Stream /\ EntryInv(Answered(e, answer))
         /\ Answered(e, answer).id = e.id
<1>1. CASE answer = "NotReady"
  BY <1>1 DEF Answered
<1>2. CASE answer = "Ready"
  <2> DEFINE r == [e EXCEPT !.pay = "Dropped", !.flags = @ \cup {"EOF", "FINISHED"}]
  <2>1. e.gone \in BOOLEAN /\ [e EXCEPT !.gone = e.gone] = e
    BY DEF Stream
  <2>2. Answered(e, answer) = r
    BY <1>2, <2>1 DEF Answered, Stream
  <2>3. r \in Stream
    BY DEF Stream
  <2>4. EntryInv(r) /\ r.id = e.id
    BY <1>2 DEF Stream, EntryInv
  <2> QED BY <2>2, <2>3, <2>4
<1>3. CASE answer = "ReadyFalse"
  <2> DEFINE r == [e EXCEPT !.pay = "Dropped", !.flags = @ \cup {"EOF"}]
  <2>1. e.gone \in BOOLEAN /\ [e EXCEPT !.gone = e.gone] = e
    BY DEF Stream
  <2>2. Answered(e, answer) = r
    BY <1>3, <2>1 DEF Answered, Stream
  <2>3. r \in Stream
    BY DEF Stream
  <2>4. EntryInv(r) /\ r.id = e.id
    BY <1>3 DEF Stream, EntryInv
  <2> QED BY <2>2, <2>3, <2>4
<1>4. CASE answer = "Err"
  BY <1>4 DEF Answered, Stream, EntryInv, After
<1> QED BY <1>1, <1>2, <1>3, <1>4 DEF Answers

(* H2Writer::start, for a task that had no response.                       *)
LEMMA StartedEntry ==
  ASSUME NEW e \in Stream, EntryInv(e), e.phase = "work", NEW kind \in Kinds,
         NEW n \in 0..MaxUnits
  PROVE  LET s == [Start(e, kind, n) EXCEPT !.phase = "send"] IN
           s \in Stream /\ EntryInv(s) /\ s.id = e.id
<1> USE Http2Assumption
<1>1. CASE kind = "empty"
  BY <1>1 DEF Start, Stream, EntryInv, After
<1>2. CASE kind = "binary"
  BY <1>2 DEF Start, Stream, EntryInv, After
<1>3. CASE kind = "stream"
  <2> DEFINE s == [Start(e, kind, n) EXCEPT !.phase = "send"]
  <2>1. s = [e EXCEPT !.kind = "stream", !.w = {"STARTED"}, !.send = "open", !.phase = "send"]
    BY <1>3 DEF Start, Stream
  <2> HIDE DEF s
  <2>2. /\ s \in Stream /\ s.id = e.id /\ s.phase = "send" /\ s.w = {"STARTED"} /\ s.send = "open"
        /\ s.flags = e.flags /\ s.buf = e.buf /\ s.gone = e.gone
    BY <1>3, <2>1 DEF Stream
  <2>3. e.buf = 0 /\ e.send # "ended" /\ "EOF" \notin e.flags
    BY DEF EntryInv, After
  <2>4. EntryInv(s)
    BY <2>2, <2>3 DEF EntryInv, After
  <2> QED BY <2>2, <2>4 DEF s
<1> QED BY <1>1, <1>2, <1>3

(* H2Writer::write, for a stream that is not paused.                       *)
LEMMA WrittenEntry ==
  ASSUME NEW e \in Stream, EntryInv(e), e.phase = "send", e.kind = "stream", ~e.paused,
         e.buf < MaxUnits
  PROVE  Write(e) \in Stream /\ EntryInv(Write(e)) /\ Write(e).id = e.id
<1>1. e.buf \in Nat /\ e.buf + 1 \in 0..MaxUnits /\ Capacity \in Nat
  BY Http2Assumption DEF Stream
<1> DEFINE p == e.buf + 1 > Capacity
<1>2. p \in BOOLEAN /\ (p \/ e.buf + 1 <= Capacity)
  BY <1>1
<1>3. Write(e) = [e EXCEPT !.buf = e.buf + 1, !.paused = p]
  BY DEF Write
<1>4. e.send # "ended" /\ (~e.gone => e.buf <= Capacity)
  BY DEF EntryInv
<1> HIDE DEF p
<1>5. Write(e) \in Stream /\ Write(e).id = e.id
  BY <1>1, <1>2, <1>3 DEF Stream
<1>6. EntryInv(Write(e))
  BY <1>1, <1>2, <1>3, <1>4 DEF Stream, EntryInv, After
<1> QED BY <1>5, <1>6

-----------------------------------------------------------------------------
(* The entry at idx is replaced by one that keeps the invariant.           *)
ItemStep == \E e \in Stream : EntryInv(e) /\ e.id = Item.id /\ SetItem(e)

SameIds == /\ Len(tasks') = Len(tasks)
           /\ \A i \in 1..Len(tasks) : tasks'[i].id = tasks[i].id

LEMMA ItemStepInv ==
  ASSUME TasksInv, idx \in 1..Len(tasks), ItemStep
  PROVE  TasksInv' /\ SameIds
<1>1. PICK e \in Stream : EntryInv(e) /\ e.id = tasks[idx].id /\ tasks' = [tasks EXCEPT ![idx] = e]
  BY DEF ItemStep, SetItem, Item
<1>2. tasks' \in Seq(Stream) /\ Len(tasks') = Len(tasks)
  BY <1>1 DEF TasksInv
<1>3. \A i \in 1..Len(tasks) : tasks'[i] = IF i = idx THEN e ELSE tasks[i]
  BY <1>1 DEF TasksInv
<1> QED BY <1>1, <1>2, <1>3 DEF TasksInv, SameIds

(* poll_io has answered: the entry, and the place in the loop.             *)
LEMMA IoReturnsItem ==
  ASSUME NEW e \in Stream, EntryInv(e), e.id = Item.id, NEW answer \in Answers,
         answer # "NotReady" => e.phase \in After, IoReturns(e, answer), pc = "io",
         retry \in BOOLEAN, notReady \in BOOLEAN
  PROVE  /\ ItemStep /\ pc' \in {"io", "write"} /\ retry' \in BOOLEAN /\ notReady' \in BOOLEAN
<1>1. SetItem(Answered(e, answer))
  BY DEF IoReturns, Answered
<1>2. ItemStep
  BY <1>1, AnsweredEntry DEF ItemStep
<1> QED BY <1>2 DEF IoReturns

-----------------------------------------------------------------------------
(* What a step inside poll_io does: the entry, and the place in the loop.  *)
InLoop ==
  /\ ItemStep /\ pc' \in {"io", "write"} /\ retry' \in BOOLEAN /\ notReady' \in BOOLEAN
  /\ UNCHANGED <<state, disconnected, timer, idx, accepted, closed>>

IoSteps == \/ HandlerReads \/ HandlerWaits \/ ResponseStarts \/ BodyYields \/ BodyFlushed
           \/ BodyEnds \/ TaskFinishes \/ TaskFails

LEMMA FinishesItem ==
  ASSUME NEW e \in Stream, EntryInv(e), e.id = Item.id, Finishes(e), pc = "io",
         retry \in BOOLEAN, notReady \in BOOLEAN
  PROVE  ItemStep /\ pc' \in {"io", "write"} /\ retry' \in BOOLEAN /\ notReady' \in BOOLEAN
<1>1. PICK p \in After, a \in Answers : IoReturns([e EXCEPT !.phase = p], a)
  BY DEF Finishes, After, Answers
<1> DEFINE f == [e EXCEPT !.phase = p]
<1>2. f \in Stream /\ f.id = e.id /\ f.phase \in After
  BY DEF Stream
<1>3. EntryInv(f)
  BY DEF Stream, EntryInv, After
<1> QED BY <1>1, <1>2, <1>3, IoReturnsItem

LEMMA IoStep ==
  ASSUME Inv, IoSteps
  PROVE  InLoop
<1>1. /\ pc = "io" /\ retry \in BOOLEAN /\ notReady \in BOOLEAN /\ idx \in 1..Len(tasks)
      /\ UNCHANGED <<state, disconnected, timer, idx, accepted, closed>>
  <2>1. InIo
    BY DEF IoSteps, HandlerReads, HandlerWaits, ResponseStarts, BodyYields, BodyFlushed, BodyEnds,
           TaskFinishes, TaskFails
  <2> QED BY <2>1 DEF Inv, ConnInv, Flags, Places, TasksInv, InIo
<1>2. Item \in Stream /\ EntryInv(Item)
  BY <1>1 DEF Inv, TasksInv, Item
<1> DEFINE Turn == ItemStep /\ pc' \in {"io", "write"} /\ retry' \in BOOLEAN /\ notReady' \in BOOLEAN
<1> SUFFICES Turn
  BY <1>1 DEF InLoop
<1>3. ASSUME NEW e \in Stream, EntryInv(e), e.id = Item.id, IoGoesOn(e) PROVE Turn
  BY <1>1, <1>3 DEF IoGoesOn, ItemStep
<1>4. ASSUME NEW e \in Stream, EntryInv(e), e.id = Item.id, IoReturns(e, "NotReady") PROVE Turn
  BY <1>1, <1>4, IoReturnsItem DEF Answers
<1>5. ASSUME NEW e \in Stream, EntryInv(e), e.id = Item.id, e.phase \in After, IoReturns(e, "Err")
      PROVE  Turn
  BY <1>1, <1>5, IoReturnsItem DEF Answers
<1> HIDE DEF Turn
<1>6. CASE HandlerReads
  <2>1. PICK s \in {"Read", "Dropped"} : IoGoesOn([Item EXCEPT !.pay = s])
    BY <1>6 DEF HandlerReads
  <2>2. [Item EXCEPT !.pay = s] \in Stream
    BY <1>2 DEF Stream
  <2>3. EntryInv([Item EXCEPT !.pay = s]) /\ [Item EXCEPT !.pay = s].id = Item.id
    BY <1>2 DEF EntryInv, Stream
  <2> QED BY <1>3, <2>1, <2>2, <2>3
<1>7. CASE HandlerWaits
  BY <1>2, <1>4, <1>7 DEF HandlerWaits
<1>8. CASE ResponseStarts
  <2>1. Item.phase = "work"
    BY <1>8 DEF ResponseStarts
  <2>2. CASE Item.gone
    <3> DEFINE f == [Item EXCEPT !.phase = "done", !.w = {"STARTED"}]
    <3>1. IoReturns(f, "Err")
      BY <1>8, <2>2 DEF ResponseStarts
    <3>2. f \in Stream /\ f.id = Item.id /\ f.phase \in After
      BY <1>2 DEF Stream, After
    <3>3. EntryInv(f)
      BY <1>2, <2>1 DEF EntryInv, Stream, After
    <3> QED BY <1>5, <3>1, <3>2, <3>3
  <2>3. CASE ~Item.gone
    <3>1. PICK kind \in Kinds, n \in 0..MaxUnits : IoGoesOn([Start(Item, kind, n) EXCEPT !.phase = "send"])
      BY <1>8, <2>3 DEF ResponseStarts
    <3> QED BY <1>2, <1>3, <2>1, <3>1, StartedEntry
  <2> QED BY <2>2, <2>3
<1>9. CASE BodyYields
  <2>1. CASE Item.buf < MaxUnits /\ IoGoesOn(Write(Item))
    BY <1>2, <1>3, <1>9, <2>1, WrittenEntry DEF BodyYields
  <2>2. CASE IoReturns(Item, "NotReady")
    BY <1>2, <1>4, <2>2
  <2> QED BY <1>9, <2>1, <2>2 DEF BodyYields
<1>10. CASE BodyFlushed
  <2>1. PICK r \in PollCompleted(Item) :
          CASE r[2] = "Ready" -> IoGoesOn([r[1] EXCEPT !.paused = FALSE])
            [] r[2] = "NotReady" -> IoReturns(r[1], "NotReady") /\ Fault(FALSE)
            [] r[2] = "Err" -> IoReturns([r[1] EXCEPT !.phase = "done"], "Err") /\ Fault(FALSE)
    BY <1>10 DEF BodyFlushed
  <2>2. /\ r[1] \in Stream /\ EntryInv(r[1]) /\ r[1].id = Item.id
        /\ r[2] \in {"Ready", "NotReady", "Err"}
        /\ r[2] = "Ready" => r[1] = Item /\ (Item.send = "ended" \/ Item.gone)
    BY <1>2, CompletedEntry
  <2>3. CASE r[2] = "Ready"
    <3> DEFINE f == [Item EXCEPT !.paused = FALSE]
    <3>1. IoGoesOn(f) /\ (Item.send = "ended" \/ Item.gone)
      BY <2>1, <2>2, <2>3
    <3>2. f \in Stream /\ f.id = Item.id
      BY <1>2 DEF Stream
    <3>3. EntryInv(f)
      BY <1>2, <3>1, Http2Assumption DEF EntryInv, Stream
    <3> QED BY <1>3, <3>1, <3>2, <3>3
  <2>4. CASE r[2] = "NotReady"
    BY <1>4, <2>1, <2>2, <2>4
  <2>5. CASE r[2] = "Err"
    <3> DEFINE f == [r[1] EXCEPT !.phase = "done"]
    <3>1. IoReturns(f, "Err")
      BY <2>1, <2>5
    <3>2. f \in Stream /\ f.id = Item.id /\ f.phase \in After
      BY <2>2 DEF Stream, After
    <3>3. EntryInv(f)
      BY <2>2 DEF EntryInv, Stream, After
    <3> QED BY <1>5, <3>1, <3>2, <3>3
  <2> QED BY <2>2, <2>3, <2>4, <2>5
<1>11. CASE BodyEnds
  <2> DEFINE f == [Item EXCEPT !.w = @ \cup {"EOF"}]
  <2>1. Finishes(f) /\ Item.phase = "send"
    BY <1>11 DEF BodyEnds
  <2>2. PICK p \in After, a \in Answers : IoReturns([f EXCEPT !.phase = p], a)
    BY <2>1 DEF Finishes, After, Answers
  <2> DEFINE g == [f EXCEPT !.phase = p]
  <2>3. g \in Stream /\ g.id = Item.id /\ g.phase \in After
    BY <1>2 DEF Stream
  <2>4. EntryInv(g)
    BY <1>2 DEF EntryInv, Stream, After
  <2> QED BY <1>1, <2>2, <2>3, <2>4, IoReturnsItem DEF Turn
<1>12. CASE TaskFinishes
  BY <1>1, <1>2, <1>12, FinishesItem DEF TaskFinishes, Turn
<1>13. CASE TaskFails
  <2> DEFINE f == [Item EXCEPT !.phase = "done"]
  <2>1. IoReturns(f, "Err")
    BY <1>13 DEF TaskFails
  <2>2. f \in Stream /\ f.id = Item.id /\ f.phase \in After
    BY <1>2 DEF Stream, After
  <2>3. EntryInv(f)
    BY <1>2 DEF EntryInv, Stream, After
  <2> QED BY <1>5, <2>1, <2>2, <2>3
<1> QED BY <1>6, <1>7, <1>8, <1>9, <1>10, <1>11, <1>12, <1>13 DEF IoSteps

-----------------------------------------------------------------------------
(* The other steps of the loop on the entry at idx.                        *)
LEMMA LoopStep ==
  ASSUME Inv, PollPayload \/ PollTask \/ PollWriter
  PROVE  TasksInv' /\ SameIds
<1>1. idx \in 1..Len(tasks)
  <2>1. idx \in Nat \ {0} /\ Len(tasks) \in Nat
    BY DEF Inv, ConnInv, Flags, Places, TasksInv
  <2>2. idx <= Len(tasks)
    BY DEF Inv, ConnInv, Flags, Places, PollPayload, PollTask, PollWriter
  <2> QED BY <2>1, <2>2
<1>2. Item \in Stream /\ EntryInv(Item)
  BY <1>1 DEF Inv, TasksInv, Item
<1>3. ASSUME UNCHANGED tasks PROVE TasksInv' /\ SameIds
  BY <1>3 DEF Inv, TasksInv, SameIds
<1>4. ASSUME ItemStep PROVE TasksInv' /\ SameIds
  BY <1>1, <1>4, ItemStepInv DEF Inv
<1>5. CASE PollPayload
  <2>1. ASSUME NEW s \in {"Read", "Pause"}, SetItem([Item EXCEPT !.pay = s]) PROVE ItemStep
    <3>1. [Item EXCEPT !.pay = s] \in Stream
      BY <1>2 DEF Stream
    <3>2. EntryInv([Item EXCEPT !.pay = s]) /\ [Item EXCEPT !.pay = s].id = Item.id
      BY <1>2 DEF EntryInv, Stream
    <3> QED BY <2>1, <3>1, <3>2 DEF ItemStep
  <2> QED BY <1>3, <1>4, <1>5, <2>1 DEF PollPayload
<1>6. CASE PollTask
  <2>1. Item.phase \in After
    BY <1>2, <1>6 DEF EntryInv, Inv, ConnInv, Flags, Places, PollTask, Item
  <2>2. PICK p \in H!Succ(Item.phase), a \in {"NotReady", "Ready", "Err"} :
          SetItem([Item EXCEPT !.phase = p,
            !.flags = @ \cup CASE a = "Ready" -> {"FINISHED"} [] a = "NotReady" -> {}
                               [] a = "Err" -> {"ERROR", "WRITE_DONE", "FINISHED"}])
    BY <1>6 DEF PollTask
  <2> DEFINE more == CASE a = "Ready" -> {"FINISHED"} [] a = "NotReady" -> {}
                       [] a = "Err" -> {"ERROR", "WRITE_DONE", "FINISHED"}
             f == [Item EXCEPT !.phase = p, !.flags = @ \cup more]
  <2>3. /\ more \subseteq {"ERROR", "FINISHED", "WRITE_DONE"}
        /\ "WRITE_DONE" \in more => "ERROR" \in more
    OBVIOUS
  <2>4. Item.phase \in After /\ p \in After
    BY <2>1, <2>2 DEF H!Succ, After
  <2> HIDE DEF more
  <2>5. f \in Stream /\ f.id = Item.id
    BY <1>2, <2>3, <2>4 DEF Stream
  <2>6. EntryInv(f)
    BY <1>2, <2>3, <2>4 DEF EntryInv, Stream, After
  <2> QED BY <1>4, <2>2, <2>5, <2>6 DEF ItemStep, more
<1>7. CASE PollWriter
  <2>1. CASE "WRITE_DONE" \in Item.flags
    BY <1>3, <1>7, <2>1 DEF PollWriter
  <2>2. CASE "WRITE_DONE" \notin Item.flags
    <3>1. PICK r \in PollCompleted(Item) :
            SetItem([r[1] EXCEPT !.flags = @ \cup
                 CASE r[2] = "Ready" -> {"WRITE_DONE"} [] r[2] = "NotReady" -> {}
                   [] r[2] = "Err" -> {"ERROR"}])
      BY <1>7, <2>2 DEF PollWriter
    <3> DEFINE more == CASE r[2] = "Ready" -> {"WRITE_DONE"} [] r[2] = "NotReady" -> {}
                         [] r[2] = "Err" -> {"ERROR"}
               f == [r[1] EXCEPT !.flags = @ \cup more]
    <3>2. /\ r[1] \in Stream /\ EntryInv(r[1]) /\ r[1].id = Item.id
          /\ r[2] \in {"Ready", "NotReady", "Err"}
          /\ r[2] = "Ready" => r[1] = Item /\ (Item.send = "ended" \/ Item.gone)
      BY <1>2, CompletedEntry
    <3>3. /\ more \subseteq {"ERROR", "WRITE_DONE"}
          /\ "WRITE_DONE" \in more => r[1].send = "ended" \/ r[1].gone
      BY <3>2
    <3> HIDE DEF more
    <3>4. f \in Stream /\ f.id = Item.id
      BY <3>2, <3>3 DEF Stream
    <3>5. EntryInv(f)
      BY <3>2, <3>3 DEF EntryInv, Stream
    <3> QED BY <1>4, <3>1, <3>4, <3>5 DEF ItemStep, more
  <2> QED BY <2>1, <2>2
<1> QED BY <1>5, <1>6, <1>7

(* The peer resets a stream.                                               *)
LEMMA ResetStep ==
  ASSUME TasksInv, PeerResets
  PROVE  TasksInv' /\ SameIds
<1>1. PICK k \in 1..Len(tasks) : tasks' = [tasks EXCEPT ![k].gone = TRUE]
  BY DEF PeerResets
<1> DEFINE f == [tasks[k] EXCEPT !.gone = TRUE]
<1>2. tasks' = [tasks EXCEPT ![k] = f]
  BY <1>1
<1>3. tasks[k] \in Stream /\ EntryInv(tasks[k])
  BY DEF TasksInv
<1>4. f \in Stream /\ f.id = tasks[k].id
  BY <1>3 DEF Stream
<1>5. EntryInv(f)
  BY <1>3 DEF EntryInv, Stream
<1> HIDE DEF f
<1>6. tasks' \in Seq(Stream) /\ Len(tasks') = Len(tasks)
  BY <1>2, <1>4 DEF TasksInv
<1>7. \A i \in 1..Len(tasks) : tasks'[i] = IF i = k THEN f ELSE tasks[i]
  BY <1>2 DEF TasksInv
<1> QED BY <1>4, <1>5, <1>6, <1>7 DEF TasksInv, SameIds

(* A request is accepted.                                                  *)
LEMMA RequestStep ==
  ASSUME Inv, Request
  PROVE  /\ TasksInv' /\ accepted' \in Nat /\ Len(tasks') = Len(tasks) + 1
         /\ \A i \in 1..Len(tasks) : tasks'[i].id = tasks[i].id
<1>1. accepted' \in Nat /\ tasks' = Append(tasks, Entry(accepted'))
  BY DEF Inv, ConnInv, Flags, Places, Request
<1> DEFINE f == Entry(accepted')
<1>2. f \in Stream
  BY <1>1, Http2Assumption DEF Entry, Stream
<1>3. EntryInv(f)
  BY DEF EntryInv, Entry, After
<1> HIDE DEF f
<1>4. tasks \in Seq(Stream) /\ tasks' = Append(tasks, f)
  BY <1>1 DEF Inv, TasksInv, f
<1>5. /\ tasks' \in Seq(Stream) /\ Len(tasks') = Len(tasks) + 1 /\ tasks'[Len(tasks) + 1] = f
      /\ \A i \in 1..Len(tasks) : tasks'[i] = tasks[i]
  BY <1>2, <1>4
<1> QED BY <1>1, <1>3, <1>4, <1>5 DEF Inv, TasksInv

(* The entries that are done with are removed.                             *)
LEMMA CleanupStep ==
  ASSUME Inv, Cleanup
  PROVE  /\ TasksInv' /\ (tasks = <<>> => tasks' = <<>>)
         /\ \A i \in 1..Len(tasks) :
              \/ \E j \in 1..Len(tasks') : tasks'[j].id = tasks[i].id
              \/ tasks[i].send = "ended" \/ tasks[i].gone \/ "ERROR" \in tasks[i].flags
<1>1. tasks \in Seq(Stream) /\ Len(tasks) \in Nat
  BY DEF Inv, TasksInv
<1>2. PICK n \in 0..Len(tasks) : /\ tasks' = SubSeq(tasks, n + 1, Len(tasks))
                                 /\ \A i \in 1..n : Removable(tasks[i])
  BY <1>1, CleanupKeeps
<1>3. /\ tasks' \in Seq(Stream) /\ Len(tasks') = Len(tasks) - n
      /\ \A j \in 1..Len(tasks) - n : tasks'[j] = tasks[j + n]
  BY <1>1, <1>2
<1>4. TasksInv'
  BY <1>1, <1>3 DEF Inv, TasksInv
<1>5. tasks = <<>> => tasks' = <<>>
  BY <1>1, <1>3
<1>6. ASSUME NEW i \in 1..Len(tasks)
      PROVE  \/ \E j \in 1..Len(tasks') : tasks'[j].id = tasks[i].id
             \/ tasks[i].send = "ended" \/ tasks[i].gone \/ "ERROR" \in tasks[i].flags
  <2>1. CASE i <= n
    <3>1. i \in 1..n
      BY <1>1, <2>1
    <3>2. Removable(tasks[i])
      BY <1>2, <3>1
    <3> QED BY <3>2 DEF Removable, Inv, TasksInv, EntryInv
  <2>2. CASE ~(i <= n)
    <3>1. i - n \in 1..Len(tasks') /\ (i - n) + n = i
      BY <1>1, <1>3, <2>2
    <3>2. tasks'[i - n] = tasks[i]
      BY <1>3, <3>1
    <3> QED BY <3>1, <3>2
  <2> QED BY <2>1, <2>2
<1> QED BY <1>4, <1>5, <1>6

-----------------------------------------------------------------------------
LEMMA InvInit == Init => Inv
<1> SUFFICES ASSUME Init PROVE Inv
  OBVIOUS
<1>1. tasks = <<>> /\ Flags
  BY DEF Init, Flags
<1>2. TasksInv
  BY <1>1 DEF TasksInv
<1>3. Places
  BY <1>1 DEF Init, Places
<1> QED BY <1>1, <1>2, <1>3 DEF Inv, ConnInv

(* A step of the connection that leaves the entries alone.                 *)
LEMMA OuterStep ==
  ASSUME Inv, \/ TimerFires \/ PollConnection \/ PollHandshake \/ Disconnect \/ NoRequest \/ LoopEnds
  PROVE  ConnInv' /\ UNCHANGED tasks
<1>1. UNCHANGED tasks
  BY DEF TimerFires, PollConnection, PollHandshake, Disconnect, NoRequest, LoopEnds
<1>2. Flags'
  BY DEF Inv, ConnInv, Flags, TimerFires, PollConnection, PollHandshake, Disconnect, NoRequest,
         LoopEnds, Return, StartLoop, PollClose, locals
<1>3. Places'
  <2> USE DEF Inv, ConnInv, Places
  <2>1. CASE TimerFires
    BY <2>1 DEF TimerFires, locals
  <2>2. CASE PollConnection
    BY <2>2 DEF PollConnection, Return, StartLoop
  <2>3. CASE PollHandshake
    BY <2>3 DEF PollHandshake, Return, StartLoop
  <2>4. CASE Disconnect
    <3>1. /\ UNCHANGED <<state, tasks, accepted, closed>> /\ pc = "request"
          /\ pc' \in {"payload", "tail"} /\ idx' \in {1, idx} /\ timer' \in {timer, "none"}
      BY <2>4 DEF Disconnect, StartLoop
    <3> QED BY <3>1
  <2>5. CASE NoRequest
    BY <2>5 DEF NoRequest, PollClose, Return
  <2>6. CASE LoopEnds
    BY <2>6 DEF LoopEnds, PollClose, Return, StartLoop
  <2> QED BY <2>1, <2>2, <2>3, <2>4, <2>5, <2>6
<1> QED BY <1>1, <1>2, <1>3 DEF ConnInv

(* A poll that works on an entry runs on an open connection, without the   *)
(* keep-alive timer.                                                       *)
LEMMA Busy ==
  ASSUME Inv, idx \in 1..Len(tasks), pc # "idle"
  PROVE  closed = "no" /\ timer = "none"
<1>1. tasks # <<>>
  BY DEF Inv, TasksInv
<1> QED BY <1>1 DEF Inv, ConnInv, Places

(* Every step of Http2::poll, of the peer and of the timer keeps the       *)
(* invariant.                                                              *)
LEMMA InvNext == Inv /\ [Next]_vars => Inv'
<1> SUFFICES ASSUME Inv, [Next]_vars PROVE Inv'
  OBVIOUS
<1>1. CASE \/ TimerFires \/ PollConnection \/ PollHandshake \/ Disconnect \/ NoRequest \/ LoopEnds
  BY <1>1, OuterStep DEF Inv, TasksInv
<1>2. CASE IoSteps
  <2>1. InLoop /\ idx \in 1..Len(tasks)
    <3>1. InLoop /\ InIo
      BY <1>2, IoStep DEF IoSteps, HandlerReads, HandlerWaits, ResponseStarts, BodyYields,
                          BodyFlushed, BodyEnds, TaskFinishes, TaskFails
    <3> QED BY <3>1 DEF InIo, Inv, ConnInv, Flags, Places, TasksInv
  <2>2. TasksInv' /\ Len(tasks') = Len(tasks)
    BY <2>1, ItemStepInv DEF InLoop, Inv, SameIds
  <2>3. closed = "no" /\ timer = "none"
    <3>1. InIo
      BY <1>2 DEF IoSteps, HandlerReads, HandlerWaits, ResponseStarts, BodyYields, BodyFlushed,
                  BodyEnds, TaskFinishes, TaskFails
    <3> QED BY <2>1, <3>1, Busy DEF InIo
  <2>4. ConnInv'
    BY <2>1, <2>2, <2>3 DEF InLoop, Inv, ConnInv, Flags, Places
  <2> QED BY <2>2, <2>4 DEF Inv
<1>3. CASE PollPayload \/ PollTask \/ PollWriter
  <2>1. TasksInv' /\ Len(tasks') = Len(tasks)
    BY <1>3, LoopStep DEF SameIds
  <2>2. closed = "no" /\ timer = "none" /\ idx <= Len(tasks)
    <3>1. pc # "idle" /\ idx <= Len(tasks)
      BY <1>3 DEF PollPayload, PollTask, PollWriter, Inv, ConnInv, Places
    <3>2. idx \in 1..Len(tasks)
      BY <3>1 DEF Inv, TasksInv, ConnInv, Places
    <3> QED BY <3>1, <3>2, Busy
  <2>3. /\ UNCHANGED <<state, disconnected, timer, accepted, closed>>
        /\ pc' \in {"io", "task", "write", "payload"} /\ (pc' # "payload" => UNCHANGED idx)
    BY <1>3 DEF PollPayload, PollTask, PollWriter
  <2>4. idx' \in Nat \ {0} /\ retry' \in BOOLEAN /\ notReady' \in BOOLEAN
    <3>1. idx' \in {idx, idx + 1}
      BY <1>3 DEF PollPayload, PollTask, PollWriter
    <3>2. idx' \in Nat \ {0}
      BY <3>1 DEF Inv, ConnInv, Places
    <3>3. retry' \in BOOLEAN /\ notReady' \in BOOLEAN
      BY Zenon, <1>3 DEF PollPayload, PollTask, PollWriter, Inv, ConnInv, Flags
    <3> QED BY <3>2, <3>3
  <2>5. pc' = "task" => "EOF" \in tasks'[idx].flags
    <3> SUFFICES ASSUME PollPayload, pc' = "task" PROVE "EOF" \in tasks'[idx].flags
      BY <1>3 DEF PollTask, PollWriter
    <3>1. "EOF" \in Item.flags /\ idx \in 1..Len(tasks)
      BY <2>2 DEF PollPayload, Inv, ConnInv, Flags, Places, TasksInv
    <3>2. tasks[idx] \in Stream
      BY <3>1 DEF Inv, TasksInv
    <3>3. tasks' = tasks \/ \E s \in {"Read", "Pause"} : tasks'[idx] = [tasks[idx] EXCEPT !.pay = s]
      BY <3>1 DEF PollPayload, SetItem, Item, Inv, TasksInv
    <3> QED BY <3>1, <3>2, <3>3 DEF Item, Stream
  <2>6. ConnInv'
    BY <2>1, <2>2, <2>3, <2>4, <2>5 DEF Inv, ConnInv, Flags, Places
  <2> QED BY <2>1, <2>6 DEF Inv
<1>4. CASE PeerResets
  <2>1. TasksInv' /\ Len(tasks') = Len(tasks) /\ Len(tasks) \in Nat
    BY <1>4, ResetStep DEF Inv, TasksInv, SameIds
  <2>2. Len(tasks) # 0 /\ tasks # <<>>
    BY <1>4, <2>1 DEF PeerResets, Inv, TasksInv
  <2>3. pc = "idle" /\ UNCHANGED <<state, disconnected, timer, pc, idx, notReady, retry, accepted, closed>>
    BY <1>4 DEF PeerResets, locals
  <2> QED BY <2>1, <2>2, <2>3 DEF Inv, ConnInv, Flags, Places
<1>5. CASE Shutdown
  BY <1>5 DEF Shutdown, Inv, TasksInv, ConnInv, Flags, Places, locals
<1>6. CASE Cleanup
  <2>1. TasksInv' /\ (tasks = <<>> => tasks' = <<>>)
    BY <1>6, CleanupStep
  <2>2. /\ UNCHANGED <<state, disconnected, timer, idx, notReady, retry, accepted, closed>>
        /\ pc = "payload" /\ pc' \in {"tail", "request"}
    BY <1>6 DEF Cleanup, locals
  <2> QED BY <2>1, <2>2 DEF Inv, ConnInv, Flags, Places
<1>7. CASE Request
  <2>1. TasksInv' /\ accepted' \in Nat
    BY <1>7, RequestStep
  <2>2. /\ UNCHANGED <<state, disconnected, retry, closed>> /\ timer' = "none"
        /\ pc = "request" /\ pc' = "payload" /\ idx' = 1 /\ notReady' = TRUE
    BY <1>7 DEF Request, StartLoop
  <2> QED BY <2>1, <2>2 DEF Inv, ConnInv, Flags, Places
<1>8. CASE UNCHANGED vars
  BY <1>8 DEF vars, locals, Inv, TasksInv, ConnInv, Flags, Places
<1> QED BY <1>1, <1>2, <1>3, <1>4, <1>5, <1>6, <1>7, <1>8 DEF Next, Poll, Step, IoSteps

LEMMA Invariance == Spec => []Inv
BY InvInit, InvNext, PTL DEF Spec

(* END_STREAM goes out with the last of the data, once the task has        *)
(* written all of it (H2Writer::poll_completed), and the connection ends   *)
(* in order only when no request is in flight (Http2::poll).               *)
THEOREM StreamsWhole == Spec => []EndedWhole
<1>1. Inv => EndedWhole
  BY DEF Inv, TasksInv, EntryInv, ConnInv, Flags, Places, EndedWhole
<1> QED BY <1>1, Invariance, PTL

(* Whatever capacity the peer grants, H2Writer holds one chunk more than   *)
(* the capacity of a streaming response at most, unless the peer reset the *)
(* stream, and the loop of Http2::poll indexes an entry that is there.     *)
THEOREM WriterBounded == Spec => []BufferBounded
<1>1. Inv => BufferBounded
  <2> SUFFICES ASSUME Inv PROVE BufferBounded
    OBVIOUS
  <2>1. \A i \in 1..Len(tasks) : tasks[i] \in Stream /\ EntryInv(tasks[i])
    BY DEF Inv, TasksInv
  <2>2. {disconnected, notReady, retry} \subseteq BOOLEAN
    BY Zenon DEF Inv, ConnInv, Flags, Places
  <2>3. idx \in 1..Len(tasks) \/ pc \notin {"io", "task", "write"}
    BY DEF Inv, ConnInv, Flags, Places, TasksInv
  <2>4. TypeOK
    BY <2>1, <2>2, <2>3 DEF Inv, ConnInv, Flags, Places, TypeOK, Stream, H!Phases, After
  <2> QED BY <2>1, <2>4 DEF BufferBounded, EntryInv
<1> QED BY <1>1, Invariance, PTL

(* The cleanup loop of Http2::poll removes an entry only when its stream   *)
(* is ended or gone or an error gave it up, and no other step but the      *)
(* shutdown of the connection removes one.                                 *)
THEOREM AnsweredBeforeRemoved == Spec => RemovedAnswered
<1> DEFINE Answer(i) == \/ \E j \in 1..Len(tasks') : tasks'[j].id = tasks[i].id
                        \/ tasks[i].send = "ended" \/ tasks[i].gone \/ "ERROR" \in tasks[i].flags
<1>1. ASSUME Inv, Next, state' # "empty", NEW i \in 1..Len(tasks) PROVE Answer(i)
  <2>1. ASSUME SameIds PROVE Answer(i)
    BY <2>1 DEF SameIds
  <2>2. CASE \/ TimerFires \/ PollConnection \/ PollHandshake \/ Disconnect \/ NoRequest \/ LoopEnds
    BY <1>1, <2>2, OuterStep
  <2>3. CASE IoSteps
    <3>1. InLoop /\ idx \in 1..Len(tasks)
      <4>1. InLoop /\ InIo
        BY <1>1, <2>3, IoStep DEF IoSteps, HandlerReads, HandlerWaits, ResponseStarts, BodyYields,
                            BodyFlushed, BodyEnds, TaskFinishes, TaskFails
      <4> QED BY <1>1, <4>1 DEF InIo, Inv, ConnInv, Flags, Places, TasksInv
    <3> QED BY <1>1, <2>1, <3>1, ItemStepInv DEF InLoop, Inv
  <2>4. CASE PollPayload \/ PollTask \/ PollWriter
    BY <1>1, <2>1, <2>4, LoopStep
  <2>5. CASE PeerResets
    BY <1>1, <2>1, <2>5, ResetStep DEF Inv
  <2>6. CASE Cleanup
    BY <1>1, <2>6, CleanupStep
  <2>7. CASE Request
    <3>1. Len(tasks') = Len(tasks) + 1 /\ tasks'[i].id = tasks[i].id /\ Len(tasks) \in Nat
      BY <1>1, <2>7, RequestStep DEF Inv, TasksInv
    <3> QED BY <3>1
  <2> QED BY <1>1, <2>2, <2>3, <2>4, <2>5, <2>6, <2>7 DEF Next, Poll, Step, IoSteps, Shutdown
<1>2. Inv /\ [Next]_vars =>
        [state' # "empty" => \A i \in 1..Len(tasks) : Answer(i)]_vars
  BY <1>1
<1> QED BY <1>2, Invariance, PTL DEF Spec, RemovedAnswered
=============================================================================
