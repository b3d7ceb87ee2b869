----------------------------- MODULE Http1Proofs ------------------------------
(***************************************************************************)
(* Proofs about Http1, for any number of requests, of pipelined tasks and  *)
(* of chunks and for a writer of any capacity: the responses leave in the  *)
(* order of the requests and through the encoder, and a connection that    *)
(* closes in order has answered every request.                             *)
(***************************************************************************)
EXTENDS Http1, TLAPS, WellFoundedInduction, NaturalsInduction

Piece == [id : Nat, part : {"head", "chunk", "eof"}, framed : BOOLEAN]
Task ==
  [id : Nat, phase : H!Phases, flags : SUBSET {"EOF", "ERROR", "FINISHED"}, keep : BOOLEAN,
   out : {"none", "head", "eof"}, chunks : 0..MaxChunks]

(* What has been written ends: the number of responses that are complete,  *)
(* and whether another one has begun.                                      *)
LastOf(o) == o[Len(o)]
Open(o) == o # <<>> /\ LastOf(o).part # "eof"
Ended(o) == IF o = <<>> THEN 0 ELSE IF LastOf(o).part = "eof" THEN LastOf(o).id ELSE LastOf(o).id - 1

(* Heads, chunks and ends in order, for the responses 1, 2, ...            *)
Turn(o, i) ==
  IF i = 1 \/ o[i - 1].part = "eof"
  THEN o[i].part = "head" /\ (i > 1 => o[i].id = o[i - 1].id + 1)
  ELSE o[i].part # "head" /\ o[i].id = o[i - 1].id
InTurn(o) ==
  /\ \A i \in 1..Len(o) : Turn(o, i)
  /\ \A r \in 1..Ended(o) : \E i \in 1..Len(o) : o[i].id = r /\ o[i].part = "eof"
Encoded(o) == \A i \in 1..Len(o) : o[i].framed

(* A task: it is finished when its response is complete, and otherwise     *)
(* only after an error.                                                    *)
TaskInv(e) ==
  /\ e.out = "eof" => "FINISHED" \in e.flags
  /\ "FINISHED" \in e.flags => e.out = "eof" \/ "ERROR" \in e.flags
  /\ "EOF" \in e.flags => e.out = "eof"
  /\ IF e.phase \in {"work", "send"} THEN e.out # "eof"
     ELSE e.out = "eof" \/ "ERROR" \in e.flags

Numbered == \A i \in 1..Len(tasks) : tasks[i].id = requests - Len(tasks) + i
Ordered == \A j \in 1..Len(tasks) : tasks[j].out # "none" => \A i \in 1..j - 1 : tasks[i].out = "eof"

TasksInv ==
  /\ tasks \in Seq(Task) /\ requests \in Nat /\ Len(tasks) <= requests
  /\ \A i \in 1..Len(tasks) : TaskInv(tasks[i])
  /\ Numbered /\ Ordered
  /\ pc = "tasks" => idx \in 1..Len(tasks) + 1 /\ (~io => \A i \in 1..idx - 1 : tasks[i].out = "eof")

OutputInv ==
  /\ wire \in Seq(Piece) /\ buffer \in Seq(Piece)
  /\ ~discarded =>
       /\ InTurn(Out)
       /\ Ended(Out) \in requests - Len(tasks)..requests
       /\ Open(Out) => Ended(Out) < requests
       /\ \A i \in 1..Len(tasks) :
            tasks[i].out = IF tasks[i].id <= Ended(Out) THEN "eof"
                           ELSE IF Open(Out) /\ tasks[i].id = Ended(Out) + 1 THEN "head" ELSE "none"

WriterInv ==
  /\ wflags \subseteq {"STARTED", "KEEPALIVE"}
  /\ ~late => /\ ~discarded => Encoded(Out)
              /\ \A i \in 1..Len(tasks) : tasks[i].out = "head" =>
                   "STARTED" \in wflags /\ (tasks[i].keep => "KEEPALIVE" \in wflags)

ReasonInv ==
  /\ flags \subseteq {"STARTED", "ERROR", "KEEPALIVE", "SHUTDOWN"}
  /\ ~late /\ "KEEPALIVE" \notin flags => "ERROR" \in flags \/ ~lastKeep
  /\ timer # "none" => tasks = <<>>
  /\ timer = "fired" => pc = "idle" \/ "SHUTDOWN" \in flags
  /\ "SHUTDOWN" \in flags => tasks = <<>> /\ pc \in {"idle", "shutdown"}
  /\ pc = "shutdown" => "SHUTDOWN" \in flags
  /\ closed # "no" => pc = "idle"
  /\ ("SHUTDOWN" \in flags /\ "enabled" \in KeepAlive /\ ~late) =>
        "ERROR" \in flags \/ timer = "fired" \/ ~lastKeep
  /\ closed = "done" => "SHUTDOWN" \in flags /\ Len(buffer) <= capacity

Places ==
  /\ timer \in {"none", "set", "fired"} /\ payload \in [id : Nat, status : {"Read", "Pause", "Dropped"}]
  /\ capacity \in {0, StreamCapacity} /\ closed \in {"no", "done", "failed"}
  /\ pc \in {"idle", "io", "parse", "retry", "tasks", "flush", "keepalive", "shutdown"}
Booleans ==
  /\ needRead \in BOOLEAN /\ retry \in BOOLEAN /\ io \in BOOLEAN /\ lastKeep \in BOOLEAN
  /\ discarded \in BOOLEAN /\ late \in BOOLEAN

(* What the tasks have written is what is in the buffer and on the wire.   *)
WriteInv == TasksInv /\ OutputInv /\ WriterInv
Inv == WriteInv /\ ReasonInv /\ Places /\ Booleans
-----------------------------------------------------------------------------
(* Sequences of pieces.                                                    *)

(* Appending one to another.                                               *)
LEMMA Concatenation ==
  ASSUME NEW a \in Seq(Piece), NEW b \in Seq(Piece)
  PROVE  /\ a \o b \in Seq(Piece) /\ Len(a \o b) = Len(a) + Len(b)
         /\ \A i \in 1..Len(a) : (a \o b)[i] = a[i]
         /\ \A i \in Len(a) + 1..Len(a) + Len(b) : (a \o b)[i] = b[i - Len(a)]
  OBVIOUS

(* Two sequences with the same members are the same.                       *)
LEMMA SameSequence ==
  ASSUME NEW a \in Seq(Piece), NEW b \in Seq(Piece), Len(a) = Len(b),
         \A i \in 1..Len(a) : a[i] = b[i]
  PROVE  a = b
  OBVIOUS

(* Appending twice is appending both.                                      *)
LEMMA Associative ==
  ASSUME NEW a \in Seq(Piece), NEW b \in Seq(Piece), NEW c \in Seq(Piece)
  PROVE  a \o (b \o c) = (a \o b) \o c
  OBVIOUS

(* What the socket takes of the buffer is in front of what is left.        *)
LEMMA Cut ==
  ASSUME NEW w \in Seq(Piece), NEW b \in Seq(Piece), NEW n \in 0..Len(b)
  PROVE  /\ w \o SubSeq(b, 1, n) \in Seq(Piece) /\ SubSeq(b, n + 1, Len(b)) \in Seq(Piece)
         /\ (w \o SubSeq(b, 1, n)) \o SubSeq(b, n + 1, Len(b)) = w \o b
<1> DEFINE x == SubSeq(b, 1, n)
           y == SubSeq(b, n + 1, Len(b))
<1>1. /\ x \in Seq(Piece) /\ Len(x) = n /\ \A i \in 1..n : x[i] = b[i]
      /\ y \in Seq(Piece) /\ Len(y) = Len(b) - n /\ \A i \in 1..Len(b) - n : y[i] = b[n + i]
  <2>1. x \in Seq(Piece) /\ Len(x) = n /\ \A i \in 1..n : x[i] = b[i]
    OBVIOUS
  <2>2. y \in Seq(Piece) /\ Len(y) = Len(b) - n /\ \A i \in 1..Len(b) - n : y[i] = b[n + i]
    OBVIOUS
  <2> QED BY <2>1, <2>2, Zenon
<1> HIDE DEF x, y
<1>2. x \o y = b
  <2>0. Len(b) \in Nat /\ n \in Nat /\ n <= Len(b)
    OBVIOUS
  <2>1. x \o y \in Seq(Piece) /\ Len(x \o y) = Len(b)
    <3>1. x \o y \in Seq(Piece) /\ Len(x \o y) = Len(x) + Len(y)
      BY <1>1, Concatenation, Zenon
    <3> QED BY <1>1, <2>0, <3>1
  <2>2. ASSUME NEW i \in 1..Len(b) PROVE (x \o y)[i] = b[i]
    <3>1. CASE i <= n
      BY <1>1, <3>1, Concatenation
    <3>2. CASE i > n
      <4>1. i - n \in 1..Len(b) - n /\ n + (i - n) = i /\ i \in Len(x) + 1..Len(x) + Len(y)
        BY <1>1, <3>2
      <4>2. (x \o y)[i] = y[i - n]
        BY <1>1, <4>1, Concatenation
      <4> QED BY <1>1, <4>1, <4>2
    <3>3. i <= n \/ i > n
      BY <2>0
    <3> QED BY <3>1, <3>2, <3>3, Zenon
  <2> QED BY <2>1, <2>2, SameSequence, Zenon
<1>3. (w \o x) \o y = w \o (x \o y)
  BY <1>1, Associative, SMTT(30)
<1>4. w \o x \in Seq(Piece) /\ (w \o x) \o y = w \o b
  BY <1>1, <1>2, <1>3, Concatenation
<1> QED BY <1>1, <1>4, Zenon DEF x, y

(* What a task adds: the head if there was none, k chunks, the end.        *)
HeadOf(e) == IF e.out = "none" THEN 1 ELSE 0
EndOf(eof) == IF eof THEN 1 ELSE 0
PartOf(i, h, k) == IF i <= h THEN "head" ELSE IF i <= h + k THEN "chunk" ELSE "eof"

PiecesRight(e, k, eof) ==
  /\ Pieces(e, k, eof) \in Seq(Piece)
  /\ Len(Pieces(e, k, eof)) = HeadOf(e) + k + EndOf(eof)
  /\ \A i \in 1..HeadOf(e) + k + EndOf(eof) :
       /\ Pieces(e, k, eof)[i].id = e.id
       /\ Pieces(e, k, eof)[i].part = PartOf(i, HeadOf(e), k)
       /\ e.out = "none" \/ "STARTED" \in wflags => Pieces(e, k, eof)[i].framed

(* Pieces adds what the three definitions above say.                       *)
LEMMA PiecesAre ==
  ASSUME NEW e \in Task, NEW k \in Nat, NEW eof \in BOOLEAN
  PROVE  PiecesRight(e, k, eof)
<1> DEFINE h == HeadOf(e)
           t == EndOf(eof)
           f == e.out = "none" \/ "STARTED" \in wflags
           A == IF e.out = "none" THEN <<[id |-> e.id, part |-> "head", framed |-> TRUE]>> ELSE <<>>
           B == [i \in 1..k |-> [id |-> e.id, part |-> "chunk", framed |-> f]]
           D == IF eof THEN <<[id |-> e.id, part |-> "eof", framed |-> TRUE]>> ELSE <<>>
<1>1. Pieces(e, k, eof) = A \o B \o D
  BY Zenon DEF Pieces
<1>2. /\ A \in Seq(Piece) /\ Len(A) = h
      /\ \A i \in 1..h : A[i].id = e.id /\ A[i].part = "head" /\ A[i].framed = TRUE
  <2> DEFINE p == [id |-> e.id, part |-> "head", framed |-> TRUE]
  <2>1. p \in Piece /\ p.id = e.id /\ p.part = "head" /\ p.framed = TRUE
    BY DEF Task, Piece
  <2> HIDE DEF p
  <2>2. CASE e.out = "none"
    <3>1. A = <<p>> /\ h = 1
      BY <2>2 DEF p, HeadOf, EndOf
    <3>2. <<p>> \in Seq(Piece) /\ Len(<<p>>) = 1 /\ <<p>>[1] = p
      BY <2>1
    <3> HIDE DEF A, D, h, t
    <3> QED BY <2>1, <3>1, <3>2
  <2>3. CASE e.out # "none"
    BY <2>3 DEF HeadOf
  <2> QED BY <2>2, <2>3, Zenon
<1>3. /\ B \in Seq(Piece) /\ Len(B) = k
      /\ \A i \in 1..k : B[i].id = e.id /\ B[i].part = "chunk" /\ B[i].framed = f
  BY DEF Task, Piece
<1>4. /\ D \in Seq(Piece) /\ Len(D) = t
      /\ \A i \in 1..t : D[i].id = e.id /\ D[i].part = "eof" /\ D[i].framed = TRUE
  <2> DEFINE p == [id |-> e.id, part |-> "eof", framed |-> TRUE]
  <2>1. p \in Piece /\ p.id = e.id /\ p.part = "eof" /\ p.framed = TRUE
    BY DEF Task, Piece
  <2> HIDE DEF p
  <2>2. CASE eof
    <3>1. D = <<p>> /\ t = 1
      BY <2>2, Zenon DEF p, HeadOf, EndOf
    <3>2. <<p>> \in Seq(Piece) /\ Len(<<p>>) = 1 /\ <<p>>[1] = p
      BY <2>1
    <3> HIDE DEF A, D, h, t
    <3> QED BY <2>1, <3>1, <3>2
  <2>3. CASE ~eof
    BY <2>3 DEF EndOf
  <2> QED BY <2>2, <2>3, Zenon
<1>5. h \in {0, 1} /\ t \in {0, 1}
  BY DEF HeadOf, EndOf
<1> HIDE DEF A, B, D, h, t, f
<1>6. /\ A \o B \in Seq(Piece) /\ Len(A \o B) = h + k
      /\ \A i \in 1..h : (A \o B)[i] = A[i]
      /\ \A i \in h + 1..h + k : (A \o B)[i] = B[i - h]
  <2>1. /\ A \o B \in Seq(Piece) /\ Len(A \o B) = Len(A) + Len(B)
        /\ \A i \in 1..Len(A) : (A \o B)[i] = A[i]
        /\ \A i \in Len(A) + 1..Len(A) + Len(B) : (A \o B)[i] = B[i - Len(A)]
    BY <1>2, <1>3, Concatenation, Zenon
  <2> QED BY <1>2, <1>3, <2>1, Zenon
<1> DEFINE q == A \o B \o D
<1>7. /\ q \in Seq(Piece) /\ Len(q) = h + k + t
      /\ \A i \in 1..h + k : q[i] = (A \o B)[i]
      /\ \A i \in h + k + 1..h + k + t : q[i] = D[i - (h + k)]
  <2> DEFINE ab == A \o B
  <2>1. ab \in Seq(Piece) /\ Len(ab) = h + k
    BY <1>6
  <2> HIDE DEF ab
  <2>2. /\ ab \o D \in Seq(Piece) /\ Len(ab \o D) = Len(ab) + Len(D)
        /\ \A i \in 1..Len(ab) : (ab \o D)[i] = ab[i]
        /\ \A i \in Len(ab) + 1..Len(ab) + Len(D) : (ab \o D)[i] = D[i - Len(ab)]
    BY <1>4, <2>1, Concatenation, Zenon
  <2>3. q = ab \o D
    BY DEF ab
  <2> HIDE DEF q
  <2> QED BY <1>4, <2>1, <2>2, <2>3, Zenon DEF ab
<1> HIDE DEF q
<1>8. ASSUME NEW i \in 1..h + k + t
      PROVE  /\ q[i].id = e.id
             /\ q[i].part = PartOf(i, h, k)
             /\ f => q[i].framed
  <2>1. CASE i <= h
    <3>1. i \in 1..h /\ i \in 1..h + k
      BY <1>5, <2>1
    <3>2. q[i] = A[i]
      BY <1>6, <1>7, <3>1
    <3> QED BY <1>2, <2>1, <3>1, <3>2 DEF PartOf
  <2>2. CASE i > h /\ i <= h + k
    <3>1. i \in h + 1..h + k /\ i \in 1..h + k /\ i - h \in 1..k /\ ~(i <= h)
      BY <1>5, <2>2
    <3>2. q[i] = B[i - h]
      BY <1>6, <1>7, <3>1, Zenon
    <3> QED BY <1>3, <2>2, <3>1, <3>2 DEF PartOf
  <2>3. CASE i > h + k
    <3>1. i \in h + k + 1..h + k + t /\ i - (h + k) \in 1..t /\ ~(i <= h) /\ ~(i <= h + k)
      BY <1>5, <2>3
    <3>2. q[i] = D[i - (h + k)]
      BY <1>7, <3>1
    <3> QED BY <1>4, <3>1, <3>2 DEF PartOf
  <2> QED BY <1>5, <2>1, <2>2, <2>3
<1> QED BY <1>1, <1>7, <1>8 DEF PiecesRight, q, h, t, f

(* The pieces of the task whose turn it is keep what is written in order.  *)
Extended(o, n, e, eof) ==
  /\ n \in Seq(Piece) /\ InTurn(n)
  /\ eof => Ended(n) = e.id /\ ~Open(n)
  /\ ~eof => Ended(n) = Ended(o) /\ Open(n)

LEMMA Extend ==
  ASSUME NEW o \in Seq(Piece), InTurn(o), NEW e \in Task, NEW k \in Nat, NEW eof \in BOOLEAN,
         e.id = Ended(o) + 1, e.out # "eof", e.out = "head" <=> Open(o), Ended(o) \in Nat
  PROVE  Extended(o, o \o Pieces(e, k, eof), e, eof)
<1>0. PiecesRight(e, k, eof)
  BY PiecesAre
<1> DEFINE q == Pieces(e, k, eof)
           h == HeadOf(e)
           t == EndOf(eof)
           b == Len(o)
           n == o \o q
<1>1. /\ q \in Seq(Piece) /\ Len(q) = h + k + t
      /\ \A i \in 1..h + k + t :
           /\ q[i].id = e.id
           /\ q[i].part = PartOf(i, h, k)
  BY <1>0, Zenon DEF PiecesRight
<1>2. /\ h \in {0, 1} /\ t \in {0, 1} /\ h \in Nat /\ t \in Nat /\ h <= 1 /\ t <= 1
      /\ b \in Nat /\ e.id \in Nat
      /\ (h = 1 <=> e.out = "none") /\ (t = 1 <=> eof)
  BY DEF Task, HeadOf, EndOf
<1>3. /\ h = 0 => b > 0 /\ o[b].part # "eof" /\ o[b].id = e.id
      /\ h = 1 => b = 0 \/ (o[b].part = "eof" /\ o[b].id + 1 = e.id)
  <2>1. o # <<>> <=> b > 0
    OBVIOUS
  <2>2. b > 0 => o[b].id \in Nat
    <3>1. b > 0 => o[b] \in Piece
      OBVIOUS
    <3> QED BY <3>1 DEF Piece
  <2>3. e.out \in {"none", "head"}
    BY DEF Task
  <2> QED BY <1>2, <2>1, <2>2, <2>3 DEF Open, Ended, LastOf
<1> HIDE DEF q, h, t
<1>4. /\ n \in Seq(Piece) /\ Len(n) = b + h + k + t
      /\ \A i \in 1..b : n[i] = o[i]
      /\ \A i \in b + 1..b + h + k + t : n[i] = q[i - b]
  <2>1. /\ n \in Seq(Piece) /\ Len(n) = Len(o) + Len(q)
        /\ \A i \in 1..Len(o) : n[i] = o[i]
        /\ \A i \in Len(o) + 1..Len(o) + Len(q) : n[i] = q[i - Len(o)]
    BY <1>1, Concatenation, Zenon
  <2>2. Len(o) + Len(q) = b + h + k + t
    BY <1>1, <1>2
  <2> QED BY <2>1, <2>2
<1> HIDE DEF n, b
<1>5. ASSUME NEW i \in 1..Len(n) PROVE Turn(n, i)
  <2>1. CASE i <= b
    <3>1. i \in 1..b /\ n[i] = o[i] /\ (i > 1 => i - 1 \in 1..b /\ n[i - 1] = o[i - 1])
      BY <1>2, <1>4, <2>1
    <3>2. Turn(o, i)
      BY <3>1 DEF InTurn, b
    <3> QED BY <3>1, <3>2 DEF Turn
  <2>2. CASE i = b + 1
    <3>1. n[i] = q[1] /\ 1 \in 1..h + k + t
      BY <1>2, <1>4, <2>2
    <3>2. b > 0 => n[i - 1] = o[b] /\ o[b].id \in Nat
      <4>1. b > 0 => b \in 1..b /\ o[b] \in Piece
        BY <1>2 DEF b
      <4> QED BY <1>2, <1>4, <2>2, <4>1 DEF Piece
    <3>3. q[1].id = e.id /\ (h = 1 <=> q[1].part = "head")
      BY <1>1, <1>2, <3>1 DEF PartOf
    <3>4. CASE h = 1
      BY <1>2, <1>3, <2>2, <3>1, <3>2, <3>3, <3>4 DEF Turn
    <3>5. CASE h = 0
      BY <1>2, <1>3, <2>2, <3>1, <3>2, <3>3, <3>5 DEF Turn
    <3> QED BY <1>2, <3>4, <3>5
  <2>3. CASE i > b + 1
    <3> DEFINE j == i - b
    <3>1. j \in 2..h + k + t /\ j - 1 \in 1..h + k + t /\ n[i] = q[j] /\ n[i - 1] = q[j - 1]
      <4>0. i \in Nat /\ i <= b + h + k + t /\ i >= b + 2
        <5>1. i \in 1..b + h + k + t
          BY <1>4
        <5> QED BY <1>2, <2>3, <5>1
      <4>1. i \in b + 1..b + h + k + t /\ i - 1 \in b + 1..b + h + k + t /\ (i - 1) - b = j - 1
        BY <1>2, <4>0
      <4>2. n[i] = q[i - b] /\ n[i - 1] = q[(i - 1) - b]
        BY <1>4, <4>1
      <4>3. j \in 2..h + k + t /\ j - 1 \in 1..h + k + t
        BY <1>2, <4>0
      <4> QED BY <4>1, <4>2, <4>3
    <3>2. j - 1 <= h + k /\ ~(j <= h) /\ i # 1
      <4>1. i \in Nat /\ j \in Nat /\ j <= h + k + t /\ j >= 2
        BY <1>2, <1>4, <3>1
      <4> QED BY <1>2, <2>3, <4>1
    <3>3. q[j - 1].part # "eof" /\ q[j].part # "head" /\ q[j].id = q[j - 1].id
      BY <1>1, <1>2, <3>1, <3>2 DEF PartOf
    <3> HIDE DEF j
    <3> QED BY <3>1, <3>2, <3>3 DEF Turn
  <2> QED BY <1>2, <1>4, <2>1, <2>2, <2>3
<1>6. (eof => Ended(n) = e.id /\ ~Open(n)) /\ (~eof => Ended(n) = Ended(o) /\ Open(n))
  <2>1. CASE h + k + t = 0
    <3>1. ~eof /\ h = 0 /\ n # <<>> /\ LastOf(n) = o[b]
      BY <1>2, <1>3, <1>4, <2>1 DEF LastOf
    <3> QED BY <1>2, <1>3, <3>1 DEF Ended, Open
  <2>2. CASE h + k + t > 0
    <3>1. n # <<>> /\ LastOf(n) = q[h + k + t] /\ h + k + t \in 1..h + k + t
      <4>1. Len(n) \in b + 1..b + h + k + t /\ Len(n) - b = h + k + t
        <5>1. b + h + k + t \in b + 1..b + h + k + t /\ (b + h + k + t) - b = h + k + t
          BY <1>2, <2>2
        <5> QED BY <1>4, <5>1
      <4>2. n[Len(n)] = q[Len(n) - b]
        BY <1>4, <4>1
      <4>3. n # <<>>
        BY <1>2, <1>4, <4>1
      <4> QED BY <1>2, <2>2, <4>1, <4>2, <4>3 DEF LastOf
    <3>2. LastOf(n).id = e.id /\ (LastOf(n).part = "eof" <=> eof)
      <4>1. h + k + t <= h + k <=> t = 0
        BY <1>2
      <4> QED BY <1>1, <1>2, <2>2, <3>1, <4>1 DEF PartOf
    <3> QED BY <1>2, <3>1, <3>2 DEF Ended, Open
  <2> QED BY <1>2, <2>1, <2>2
<1>7. ASSUME NEW r \in 1..Ended(n) PROVE \E i \in 1..Len(n) : n[i].id = r /\ n[i].part = "eof"
  <2>1. CASE r <= Ended(o)
    <3>1. PICK i \in 1..b : o[i].id = r /\ o[i].part = "eof"
      BY <2>1 DEF InTurn, b
    <3>2. i \in 1..Len(n) /\ n[i] = o[i]
      BY <1>2, <1>4
    <3> QED BY <3>1, <3>2
  <2>2. CASE ~(r <= Ended(o))
    <3>1. eof /\ r = e.id
      BY <1>2, <1>6, <2>2
    <3>2. Len(n) \in b + 1..b + h + k + t /\ Len(n) - b = h + k + t /\ h + k + t \in 1..h + k + t /\ Len(n) \in 1..Len(n)
      BY <1>2, <1>4, <3>1
    <3>3. n[Len(n)] = q[h + k + t] /\ ~(h + k + t <= h + k) /\ ~(h + k + t <= h)
      BY <1>2, <1>4, <3>1, <3>2
    <3>4. n[Len(n)].id = r /\ n[Len(n)].part = "eof"
      BY <1>1, <1>2, <3>1, <3>2, <3>3 DEF PartOf
    <3> QED BY <3>2, <3>4
  <2> QED BY <2>1, <2>2
<1> QED BY <1>4, <1>5, <1>6, <1>7, Zenon DEF Extended, InTurn, n, q

(* They go through the encoder if the writer's flag is up, or go up now.   *)
LEMMA ExtendEncoded ==
  ASSUME NEW o \in Seq(Piece), Encoded(o), NEW e \in Task, NEW k \in Nat, NEW eof \in BOOLEAN
  PROVE  e.out = "none" \/ "STARTED" \in wflags => Encoded(o \o Pieces(e, k, eof))
<1>0. PiecesRight(e, k, eof)
  BY PiecesAre
<1> HAVE e.out = "none" \/ "STARTED" \in wflags
<1> DEFINE q == Pieces(e, k, eof)
<1>1. q \in Seq(Piece) /\ \A i \in 1..Len(q) : q[i].framed
  BY <1>0, Zenon DEF PiecesRight
<1> HIDE DEF q
<1>2. /\ Len(o \o q) = Len(o) + Len(q) /\ Len(o) \in Nat /\ Len(q) \in Nat
      /\ \A i \in 1..Len(o) : (o \o q)[i] = o[i]
      /\ \A i \in Len(o) + 1..Len(o) + Len(q) : (o \o q)[i] = q[i - Len(o)]
  BY <1>1, Concatenation
<1>3. ASSUME NEW i \in 1..Len(o \o q) PROVE (o \o q)[i].framed
  <2>1. CASE i <= Len(o)
    <3>1. i \in 1..Len(o) /\ (o \o q)[i] = o[i]
      BY <1>2, <2>1
    <3> QED BY <3>1, Zenon DEF Encoded
  <2>2. CASE i > Len(o)
    <3>1. i - Len(o) \in 1..Len(q) /\ (o \o q)[i] = q[i - Len(o)]
      BY <1>2, <2>2
    <3> QED BY <1>1, <3>1, Zenon
  <2>3. i <= Len(o) \/ i > Len(o)
    BY <1>2
  <2> QED BY <2>1, <2>2, <2>3, Zenon
<1> QED BY <1>3, Zenon DEF Encoded, q

-----------------------------------------------------------------------------
(* How the loop over the tasks goes on: it starts anew, or goes past a     *)
(* task, with the writer only past one whose response is complete.         *)
Advance ==
  pc' = "tasks" => \/ idx' = 1
                   \/ /\ pc = "tasks" /\ idx <= Len(tasks) /\ idx' = idx + 1
                      /\ ~io' => ~io /\ tasks'[idx].out = "eof"

(* Nothing more is written, or what was buffered is thrown away.           *)
NothingWritten ==
  /\ wire' \in Seq(Piece) /\ buffer' \in Seq(Piece)
  /\ ~discarded' => ~discarded /\ Out' = Out

(* The loop stays within the tasks, behind complete responses.             *)
LEMMA Advances ==
  ASSUME TasksInv, Advance, Len(tasks') = Len(tasks),
         \A i \in 1..Len(tasks) : tasks[i].out = "eof" => tasks'[i].out = "eof"
  PROVE  pc' = "tasks" =>
           idx' \in 1..Len(tasks') + 1 /\ (~io' => \A i \in 1..idx' - 1 : tasks'[i].out = "eof")
<1>0. Len(tasks) \in Nat
  BY DEF TasksInv
  <1>1. CASE idx' = 1
    BY <1>1
  <1>2. CASE /\ pc = "tasks" /\ idx <= Len(tasks) /\ idx' = idx + 1
             /\ ~io' => ~io /\ tasks'[idx].out = "eof"
    <2>1. idx \in 1..Len(tasks) /\ 1..idx' - 1 = 1..idx /\ idx' \in 1..Len(tasks') + 1
      BY <1>2 DEF TasksInv
    <2>2. ASSUME ~io', NEW i \in 1..idx PROVE tasks'[i].out = "eof"
      <3>1. ~io /\ tasks'[idx].out = "eof" /\ \A j \in 1..idx - 1 : tasks[j].out = "eof"
        BY <1>2, <2>2 DEF TasksInv
      <3>2. i = idx \/ i \in 1..idx - 1
        BY <1>0, <2>1
      <3>3. i \in 1..Len(tasks)
        BY <1>0, <2>1, <3>2
      <3> QED BY <3>1, <3>2, <3>3
    <2> QED BY <2>1, <2>2, Zenon
  <1> QED BY <1>1, <1>2 DEF Advance

(* A step that leaves every task with what it has written.                 *)
LEMMA SameOuts ==
  ASSUME WriteInv, tasks' \in Seq(Task), Len(tasks') = Len(tasks),
         \A i \in 1..Len(tasks) : /\ TaskInv(tasks[i])'
                                  /\ tasks'[i].id = tasks[i].id /\ tasks'[i].out = tasks[i].out
                                  /\ tasks'[i].keep = tasks[i].keep,
         requests' = requests, NothingWritten, Advance,
         late' \/ (late' = late /\ wflags' = wflags), wflags' \subseteq {"STARTED", "KEEPALIVE"}
  PROVE  WriteInv'
<1> USE DEF WriteInv
<1>1. TasksInv'
  <2>0. Len(tasks) \in Nat
    BY DEF TasksInv
  <2>1. Numbered'
    BY SMTT(30) DEF TasksInv, Numbered
  <2>3. Ordered'
    <3>1. ASSUME NEW j \in 1..Len(tasks), tasks'[j].out # "none", NEW i \in 1..j - 1
          PROVE  tasks'[i].out = "eof"
      <4>1. i \in 1..Len(tasks) /\ tasks[j].out # "none"
        BY <2>0, <3>1
      <4>2. tasks[i].out = "eof"
        BY <3>1, <4>1, Zenon DEF TasksInv, Ordered
      <4> QED BY <4>1, <4>2, Zenon
    <3> QED BY <3>1, SMTT(30) DEF Ordered
  <2>2. pc' = "tasks" => idx' \in 1..Len(tasks') + 1 /\ (~io' => \A i \in 1..idx' - 1 : tasks'[i].out = "eof")
    BY Advances
  <2> QED BY <2>1, <2>2, <2>3 DEF TasksInv
<1>2. OutputInv'
  BY DEF OutputInv, NothingWritten
<1>3. WriterInv'
  BY DEF WriterInv, NothingWritten
<1> QED BY <1>1, <1>2, <1>3

(* A step in which the task at the loop's position writes: it is the first *)
(* whose response is not complete, so what it adds is next in turn.        *)
LEMMA Wrote ==
  ASSUME WriteInv, pc = "tasks", ~io, idx \in 1..Len(tasks), tasks[idx].out # "eof",
         NEW k \in Nat, NEW eof \in BOOLEAN, NEW f \in Task, TaskInv(f),
         f.id = tasks[idx].id, f.keep = tasks[idx].keep, f.out = IF eof THEN "eof" ELSE "head",
         tasks' = [tasks EXCEPT ![idx] = f], requests' = requests, discarded' = discarded, late' = late,
         wire' \in Seq(Piece), buffer' \in Seq(Piece), Out' = Out \o Pieces(tasks[idx], k, eof),
         wflags' = IF eof THEN {} ELSE WriterFlags(tasks[idx]), Advance
  PROVE  WriteInv'
<1> DEFINE e == tasks[idx]
           n == Len(tasks)
<1>0. TasksInv /\ OutputInv /\ WriterInv
  BY DEF WriteInv
<1>a. \A i \in 1..n : tasks[i] \in Task /\ TaskInv(tasks[i]) /\ tasks[i].id = requests - n + i
  BY <1>0 DEF TasksInv, Numbered
<1>b. n \in Nat /\ requests \in Nat /\ n <= requests /\ idx \in 1..n
  BY <1>0 DEF TasksInv
<1>c. e \in Task /\ TaskInv(e) /\ e.id = requests - n + idx
  BY <1>a
<1>d. e.id \in Nat /\ e.out \in {"none", "head"}
  BY <1>c DEF Task
<1>1. /\ n \in Nat /\ requests \in Nat /\ n <= requests /\ idx \in Nat /\ idx \in 1..n
      /\ e \in Task /\ TaskInv(e) /\ e.id = requests - n + idx /\ e.id \in Nat
      /\ e.out \in {"none", "head"}
  BY <1>b, <1>c, <1>d
<1>2. /\ tasks' \in Seq(Task) /\ Len(tasks') = n /\ tasks'[idx] = f
      /\ \A i \in 1..n : i # idx => tasks'[i] = tasks[i]
  BY <1>0 DEF TasksInv
<1>3. \A i \in 1..n : i < idx => tasks[i].out = "eof"
  <2>1. \A i \in 1..idx - 1 : tasks[i].out = "eof"
    BY <1>0 DEF TasksInv
  <2>2. \A i \in 1..n : i < idx => i \in 1..idx - 1
    BY <1>1
  <2> QED BY <2>1, <2>2, Zenon
<1>4. \A i \in 1..n : i > idx => tasks[i].out = "none"
  <2>1. \A j \in 1..n : tasks[j].out # "none" => \A i \in 1..j - 1 : tasks[i].out = "eof"
    BY <1>0, Zenon DEF TasksInv, Ordered
  <2>2. \A i \in 1..n : i > idx => idx \in 1..i - 1
    BY <1>1
  <2> QED BY <2>1, <2>2, Zenon
<1>5. \A i \in 1..n : i < idx \/ i = idx \/ i > idx
  BY <1>1
<1> USE DEF WriteInv
<1>6. TasksInv'
  <2>1. Numbered'
    BY <1>a, <1>1, <1>2 DEF Numbered
  <2>2. \A i \in 1..n : TaskInv(tasks'[i])
    BY <1>a, <1>1, <1>2, Zenon
  <2>3. Ordered'
    <3>1. ASSUME NEW j \in 1..n, tasks'[j].out # "none", NEW i \in 1..j - 1
          PROVE  tasks'[i].out = "eof"
      <4>1. ~(j > idx)
        BY <1>1, <1>2, <1>4, <3>1
      <4>2. i \in 1..n /\ i < idx /\ i # idx
        BY <1>1, <4>1
      <4> QED BY <1>2, <1>3, <4>2
    <3> QED BY <1>2, <3>1 DEF Ordered
  <2>4. pc' = "tasks" => idx' \in 1..Len(tasks') + 1 /\ (~io' => \A i \in 1..idx' - 1 : tasks'[i].out = "eof")
    <3>1. \A i \in 1..n : tasks[i].out = "eof" => tasks'[i].out = "eof"
      BY <1>2, SMTT(30)
    <3> QED BY <1>0, <1>2, <3>1, Advances
  <2> QED BY <1>1, <1>2, <2>1, <2>2, <2>3, <2>4 DEF TasksInv
<1>7. Out \in Seq(Piece)
  BY <1>0, Concatenation DEF OutputInv, Out
<1>8. OutputInv'
  <2>1. SUFFICES ASSUME ~discarded
                 PROVE  /\ InTurn(Out')
                        /\ Ended(Out') \in requests - n..requests
                        /\ Open(Out') => Ended(Out') < requests
                        /\ \A i \in 1..n :
                             tasks'[i].out = IF tasks'[i].id <= Ended(Out') THEN "eof"
                                             ELSE IF Open(Out') /\ tasks'[i].id = Ended(Out') + 1
                                                  THEN "head" ELSE "none"
    BY <1>2 DEF OutputInv
  <2> DEFINE m == Ended(Out)
             b == Open(Out)
             o == Out
  <2>2. /\ InTurn(o) /\ m \in requests - n..requests /\ (b => m < requests)
        /\ \A i \in 1..n : tasks[i].out = IF tasks[i].id <= m THEN "eof"
                                          ELSE IF b /\ tasks[i].id = m + 1 THEN "head" ELSE "none"
    BY <1>0, <2>1, Zenon DEF OutputInv
  <2> HIDE DEF m, b, o
  <2>3. m \in Nat /\ m >= requests - n /\ m <= requests
    BY <1>1, <2>2
  <2>4. e.id = m + 1
    <3>1. ~(e.id <= m)
      BY <2>2
    <3> HIDE DEF e, n
    <3>2. CASE idx = 1
      BY <1>1, <2>3, <3>1, <3>2
    <3>3. CASE idx > 1
      <4>1. idx - 1 \in 1..n /\ idx - 1 < idx
        BY <1>1, <3>3
      <4>2. tasks[idx - 1].out = "eof"
        BY <1>3, <4>1
      <4>3. tasks[idx - 1].id <= m
        BY <2>2, <4>1, <4>2
      <4>4. tasks[idx - 1].id = requests - n + (idx - 1)
        BY <1>a, <4>1
      <4> QED BY <1>1, <2>3, <3>1, <4>3, <4>4
    <3> QED BY <1>1, <3>2, <3>3
  <2>5. e.out = "head" <=> b
    <3>1. e.out = IF e.id <= m THEN "eof" ELSE IF b /\ e.id = m + 1 THEN "head" ELSE "none"
      BY <2>2
    <3>2. ~(e.id <= m)
      BY <2>3, <2>4
    <3> QED BY <2>4, <3>1, <3>2
  <2>6. /\ InTurn(o \o Pieces(e, k, eof))
        /\ eof => Ended(o \o Pieces(e, k, eof)) = e.id /\ ~Open(o \o Pieces(e, k, eof))
        /\ ~eof => Ended(o \o Pieces(e, k, eof)) = Ended(o) /\ Open(o \o Pieces(e, k, eof))
    <3>1. Ended(o) = m /\ Open(o) = b /\ o \in Seq(Piece)
      BY <1>7 DEF m, b, o
    <3>2. /\ InTurn(o) /\ e \in Task /\ e.id = Ended(o) + 1 /\ e.out # "eof"
          /\ e.out = "head" <=> Open(o)
          /\ Ended(o) \in Nat
      BY <1>1, <2>2, <2>3, <2>4, <2>5, <3>1, Zenon
    <3> HIDE DEF e
    <3>3. Extended(o, o \o Pieces(e, k, eof), e, eof)
      BY <3>1, <3>2, Extend
    <3> QED BY <3>3, Zenon DEF Extended
  <2>7. Out' = o \o Pieces(e, k, eof) /\ Ended(o) = m
    BY DEF m, o
  <2> DEFINE x == Out'
             y == Ended(Out')
             z == Open(Out')
  <2>8. InTurn(x) /\ (eof => y = m + 1 /\ ~z) /\ (~eof => y = m /\ z)
    BY <2>4, <2>6, <2>7
  <2>9. ASSUME NEW i \in 1..n
        PROVE  (i < idx => tasks[i].id <= m) /\ (i > idx => tasks[i].id > m + 1) /\ tasks[i].id \in Int
    <3>1. tasks[i].id = requests - n + i
      BY <1>a
    <3> QED BY <1>1, <2>3, <2>4, <3>1, SMTT(30)
  <2> HIDE DEF x, y, z, e
  <2>10. y \in requests - n..requests /\ (z => y < requests)
    BY <1>1, <2>3, <2>4, <2>8, SMTT(30)
  <2>11. ASSUME NEW i \in 1..n
         PROVE  tasks'[i].out = IF tasks'[i].id <= y THEN "eof"
                                ELSE IF z /\ tasks'[i].id = y + 1 THEN "head" ELSE "none"
    <3>1. CASE i < idx
      <4>1. tasks'[i].out = "eof" /\ tasks'[i].id <= m /\ tasks'[i].id \in Int
        BY <1>1, <1>2, <1>3, <2>9, <3>1
      <4> QED BY <2>3, <2>8, <4>1
    <3>2. CASE i = idx
      <4>1. tasks'[i].out = f.out /\ tasks'[i].id = m + 1
        BY <1>2, <2>4, <3>2 DEF e
      <4> QED BY <2>3, <2>8, <4>1
    <3>3. CASE i > idx
      <4>1. tasks'[i].out = "none" /\ tasks'[i].id > m + 1 /\ tasks'[i].id \in Int
        BY <1>1, <1>2, <1>4, <2>9, <3>3
      <4> QED BY <2>3, <2>8, <4>1
    <3> QED BY <1>5, <3>1, <3>2, <3>3
  <2> QED BY <2>8, <2>10, <2>11 DEF x, y, z
<1>9. WriterInv'
  <2>1. wflags' \subseteq {"STARTED", "KEEPALIVE"}
    BY <1>0, Zenon DEF WriterInv, WriterFlags
  <2>2. ASSUME ~late
        PROVE  /\ ~discarded => Encoded(Out')
               /\ \A i \in 1..n : tasks'[i].out = "head" =>
                    "STARTED" \in wflags' /\ (tasks'[i].keep => "KEEPALIVE" \in wflags')
    <3>1. /\ ~discarded => Encoded(Out)
          /\ e.out = "head" => "STARTED" \in wflags /\ (e.keep => "KEEPALIVE" \in wflags)
      BY <1>0, <2>2 DEF WriterInv
    <3>2. ~discarded => Encoded(Out')
      <4>1. e.out = "none" \/ "STARTED" \in wflags
        BY <1>1, <3>1
      <4> QED BY <1>1, <1>7, <3>1, <4>1, ExtendEncoded
    <3>3. ASSUME NEW i \in 1..n, tasks'[i].out = "head"
          PROVE  i = idx /\ ~eof
      BY <1>2, <1>3, <1>4, <1>5, <3>3
    <3>4. ~eof => "STARTED" \in wflags' /\ (e.keep => "KEEPALIVE" \in wflags')
      BY <1>1, <3>1 DEF WriterFlags
    <3> QED BY <1>2, <3>2, <3>3, <3>4
  <2> QED BY <1>2, <2>1, <2>2 DEF WriterInv, Encoded
<1> QED BY <1>6, <1>8, <1>9

(* A request that has just been parsed waits behind the others.            *)
LEMMA Added ==
  ASSUME WriteInv, NEW p \in {"work", "send"}, NEW keep \in BOOLEAN,
         tasks' = Append(tasks, Entry(requests + 1, p, keep)), requests' = requests + 1,
         NothingWritten, pc' # "tasks", late' = late, wflags' = wflags
  PROVE  WriteInv'
<1> DEFINE x == Entry(requests + 1, p, keep)
           n == Len(tasks)
<1>0. TasksInv /\ OutputInv /\ WriterInv
  BY DEF WriteInv
<1>1. n \in Nat /\ requests \in Nat /\ n <= requests /\ tasks \in Seq(Task)
  BY <1>0 DEF TasksInv
<1>2. x \in Task /\ TaskInv(x) /\ x.id = requests + 1 /\ x.out = "none"
  BY <1>1, Http1Assumption DEF Task, TaskInv, Entry, H!Phases
<1> HIDE DEF x
<1>3. /\ tasks' \in Seq(Task) /\ Len(tasks') = n + 1 /\ tasks'[n + 1] = x
      /\ \A i \in 1..n : tasks'[i] = tasks[i]
  BY <1>1, <1>2 DEF x
<1>4. \A i \in 1..n + 1 : i = n + 1 \/ i \in 1..n
  BY <1>1
<1>5. TasksInv'
  <2>1. Numbered'
    <3>1. \A i \in 1..n : tasks[i].id = requests - n + i
      BY <1>0 DEF TasksInv, Numbered
    <3>2. ASSUME NEW i \in 1..n + 1 PROVE tasks'[i].id = requests' - Len(tasks') + i
      BY <1>1, <1>2, <1>3, <1>4, <3>1
    <3> QED BY <1>3, <3>2 DEF Numbered
  <2>2. \A i \in 1..n + 1 : TaskInv(tasks'[i])
    <3>1. \A i \in 1..n : TaskInv(tasks[i])
      BY <1>0 DEF TasksInv
    <3> QED BY <1>2, <1>3, <1>4, <3>1, Zenon
  <2>3. Ordered'
    <3>1. ASSUME NEW j \in 1..n + 1, tasks'[j].out # "none", NEW i \in 1..j - 1
          PROVE  tasks'[i].out = "eof"
      <4>1. j \in 1..n /\ tasks'[j] = tasks[j]
        BY <1>2, <1>3, <1>4, <3>1, Zenon
      <4>2. i \in 1..n
        BY <1>1, <4>1
      <4>3. tasks[i].out = "eof"
        BY <1>0, <3>1, <4>1, Zenon DEF TasksInv, Ordered
      <4> QED BY <1>3, <4>2, <4>3
    <3> QED BY <1>3, <3>1 DEF Ordered
  <2>4. requests' \in Nat /\ Len(tasks') <= requests'
    BY <1>1, <1>3
  <2> QED BY <1>3, <2>1, <2>2, <2>3, <2>4 DEF TasksInv
<1>6. OutputInv'
  <2>1. SUFFICES ASSUME ~discarded'
                 PROVE  /\ InTurn(Out')
                        /\ Ended(Out') \in requests' - Len(tasks')..requests'
                        /\ Open(Out') => Ended(Out') < requests'
                        /\ \A i \in 1..n + 1 :
                             tasks'[i].out = IF tasks'[i].id <= Ended(Out') THEN "eof"
                                             ELSE IF Open(Out') /\ tasks'[i].id = Ended(Out') + 1
                                                  THEN "head" ELSE "none"
    BY <1>3, SMTT(30) DEF OutputInv, NothingWritten
  <2>2. ~discarded /\ Out' = Out
    BY <2>1 DEF NothingWritten
  <2> DEFINE m == Ended(Out)
             b == Open(Out)
  <2>3. /\ InTurn(Out) /\ m \in requests - n..requests /\ (b => m < requests)
        /\ \A i \in 1..n : tasks[i].out = IF tasks[i].id <= m THEN "eof"
                                          ELSE IF b /\ tasks[i].id = m + 1 THEN "head" ELSE "none"
    BY <1>0, <2>2, Zenon DEF OutputInv
  <2>4. Ended(Out') = m /\ Open(Out') = b /\ InTurn(Out')
    BY <2>2, <2>3
  <2> HIDE DEF m, b
  <2>5. m \in Int /\ m <= requests /\ m >= requests - n
    BY <1>1, <2>3
  <2>6. m \in requests' - Len(tasks')..requests' /\ (b => m < requests')
    BY <1>1, <1>3, <2>5
  <2>7. ASSUME NEW i \in 1..n + 1
        PROVE  tasks'[i].out = IF tasks'[i].id <= m THEN "eof"
                               ELSE IF b /\ tasks'[i].id = m + 1 THEN "head" ELSE "none"
    <3>1. CASE i \in 1..n
      BY <1>3, <2>3, <3>1
    <3>2. CASE i = n + 1
      <4>1. tasks'[i].out = "none" /\ tasks'[i].id = requests + 1
        BY <1>2, <1>3, <3>2
      <4>2. ~(requests + 1 <= m) /\ (b => requests + 1 # m + 1)
        BY <1>1, <2>3, <2>5, SMTT(30)
      <4> QED BY <4>1, <4>2
    <3> QED BY <1>4, <3>1, <3>2
  <2> QED BY <2>4, <2>6, <2>7
<1>7. WriterInv'
  <2>1. \A i \in 1..n + 1 : tasks'[i].out = "head" => i \in 1..n /\ tasks'[i] = tasks[i]
    BY <1>2, <1>3, <1>4
  <2> QED BY <1>0, <1>3, <2>1 DEF WriterInv, NothingWritten
<1> QED BY <1>5, <1>6, <1>7 DEF WriteInv

(* A set of positions that is not empty has a first one.                   *)
LEMMA FirstExists ==
  ASSUME NEW S \in SUBSET Nat, S # {}
  PROVE  Min(S) \in S /\ \A n \in S : Min(S) <= n
<1> DEFINE before == OpToRel(<, Nat)
<1>1. \A x, y \in Nat : y < x => <<y, x>> \in before
  BY DEF OpToRel
<1>2. IsWellFoundedOn(before, Nat)
  BY NatLessThanWellFounded
<1> HIDE DEF before
<1>3. PICK x \in S : \A y \in S : ~(<<y, x>> \in before)
  BY <1>2, WFMin, Zenon
<1>4. ASSUME NEW y \in S PROVE x <= y
  <2>1. x \in Nat /\ y \in Nat
    OBVIOUS
  <2>2. ~(y < x)
    BY Zenon, <1>1, <1>3, <2>1
  <2> QED BY <2>1, <2>2
<1> QED BY <1>4, Zenon DEF Min

(* The entries popped at the end of poll_io are finished ones in front.    *)
LEMMA UnfinishedKeeps ==
  ASSUME tasks \in Seq(Task)
  PROVE  \E d \in 0..Len(tasks) : /\ Unfinished = SubSeq(tasks, d + 1, Len(tasks))
                                  /\ \A i \in 1..d : Finished(tasks[i])
<1> DEFINE Kept == {i \in 1..Len(tasks) : ~Finished(tasks[i])}
<1>1. Kept \in SUBSET Nat /\ Kept \subseteq 1..Len(tasks) /\ Len(tasks) \in Nat
  OBVIOUS
<1>2. \A i \in 1..Len(tasks) : i \notin Kept => Finished(tasks[i])
  OBVIOUS
<1>3. Unfinished = IF Kept = {} THEN <<>> ELSE SubSeq(tasks, Min(Kept), Len(tasks))
  BY DEF Unfinished
<1> HIDE DEF Kept
<1>4. CASE Kept = {}
  <2>1. Unfinished = SubSeq(tasks, Len(tasks) + 1, Len(tasks))
    BY <1>1, <1>3, <1>4
  <2> QED BY <1>1, <1>2, <1>4, <2>1
<1>5. CASE Kept # {}
  <2>1. Min(Kept) \in Kept /\ \A n \in Kept : Min(Kept) <= n
    BY <1>1, <1>5, FirstExists
  <2>2. Min(Kept) \in 1..Len(tasks)
    BY <1>1, <2>1, Zenon
  <2>3. \A i \in 1..Min(Kept) - 1 : i \notin Kept
    BY <2>1, <2>2
  <2>4. Unfinished = SubSeq(tasks, Min(Kept), Len(tasks))
    BY <1>3, <1>5, Zenon
  <2>5. Min(Kept) - 1 \in 0..Len(tasks) /\ (Min(Kept) - 1) + 1 = Min(Kept)
    BY <1>1, <2>2
  <2>6. \A i \in 1..Min(Kept) - 1 : Finished(tasks[i])
    BY <1>1, <1>2, <2>2, <2>3
  <2> QED BY <2>4, <2>5, <2>6, Zenon
<1> QED BY <1>4, <1>5

(* Popping them leaves what is written as it is.                           *)
LEMMA Popped ==
  ASSUME WriteInv, NEW d \in 0..Len(tasks), \A i \in 1..d : Finished(tasks[i]),
         tasks' = SubSeq(tasks, d + 1, Len(tasks)), pc' # "tasks",
         UNCHANGED <<requests, wire, buffer, wflags, discarded, late>>
  PROVE  WriteInv'
<1> DEFINE n == Len(tasks)
<1>0. TasksInv /\ OutputInv /\ WriterInv
  BY DEF WriteInv
<1>1. n \in Nat /\ requests \in Nat /\ n <= requests /\ tasks \in Seq(Task) /\ d \in Nat /\ d <= n
  BY <1>0 DEF TasksInv
<1>2. /\ tasks' \in Seq(Task) /\ Len(tasks') = n - d
      /\ \A i \in 1..n - d : tasks'[i] = tasks[d + i]
  BY <1>1
<1>3. \A i \in 1..n - d : d + i \in 1..n
  BY <1>1
<1>4. TasksInv'
  <2>1. Numbered'
    <3>1. \A i \in 1..n : tasks[i].id = requests - n + i
      BY <1>0 DEF TasksInv, Numbered
    <3>2. ASSUME NEW i \in 1..n - d PROVE tasks'[i].id = requests' - Len(tasks') + i
      <4>1. tasks'[i].id = requests - n + (d + i)
        BY <1>2, <1>3, <3>1
      <4>2. requests' = requests /\ Len(tasks') = n - d
        BY <1>2
      <4>3. requests - n + (d + i) = requests - (n - d) + i
        BY <1>1
      <4> QED BY <4>1, <4>2, <4>3
    <3> QED BY <1>2, <3>2, Zenon DEF Numbered
  <2>2. \A i \in 1..n - d : TaskInv(tasks'[i])
    <3>1. \A i \in 1..n : TaskInv(tasks[i])
      BY <1>0 DEF TasksInv
    <3> QED BY <1>2, <1>3, <3>1, Zenon
  <2>3. Ordered'
    <3>1. ASSUME NEW j \in 1..n - d, tasks'[j].out # "none", NEW i \in 1..j - 1
          PROVE  tasks'[i].out = "eof"
      <4>1. i \in 1..n - d /\ d + i \in 1..(d + j) - 1 /\ d + j \in 1..n
        BY <1>1
      <4>2. tasks[d + j].out # "none"
        BY <1>2, <3>1
      <4>3. tasks[d + i].out = "eof"
        BY <1>0, <4>1, <4>2, Zenon DEF TasksInv, Ordered
      <4> QED BY <1>2, <4>1, <4>3
    <3> QED BY <1>2, <3>1, Zenon DEF Ordered
  <2>4. requests' \in Nat /\ Len(tasks') <= requests'
    BY <1>1, <1>2
  <2> QED BY <1>2, <2>1, <2>2, <2>3, <2>4, Zenon DEF TasksInv
<1>5. OutputInv'
  <2>0. Out' = Out
    BY SMTT(30) DEF Out
  <2>1. SUFFICES ASSUME ~discarded
                 PROVE  /\ InTurn(Out)
                        /\ Ended(Out) \in requests - Len(tasks')..requests
                        /\ Open(Out) => Ended(Out) < requests
                        /\ \A i \in 1..n - d :
                             tasks'[i].out = IF tasks'[i].id <= Ended(Out) THEN "eof"
                                             ELSE IF Open(Out) /\ tasks'[i].id = Ended(Out) + 1
                                                  THEN "head" ELSE "none"
    BY <1>0, <1>2, <2>0, SMTT(30) DEF OutputInv
  <2> DEFINE m == Ended(Out)
             b == Open(Out)
  <2>2. /\ InTurn(Out) /\ m \in requests - n..requests /\ (b => m < requests)
        /\ \A i \in 1..n : tasks[i].out = IF tasks[i].id <= m THEN "eof"
                                          ELSE IF b /\ tasks[i].id = m + 1 THEN "head" ELSE "none"
    BY <1>0, <2>1, Zenon DEF OutputInv
  <2> HIDE DEF m, b
  <2>3. m \in Int /\ m <= requests /\ m >= requests - n
    BY <1>1, <2>2
  <2>4. m >= requests - (n - d)
    <3>1. CASE d = 0
      BY <1>1, <2>3, <3>1
    <3>2. CASE d > 0
      <4>1. d \in 1..n /\ d \in 1..d
        BY <1>1, <3>2
      <4>2. tasks[d].out = "eof" /\ tasks[d].id = requests - n + d
        BY <1>0, <4>1 DEF TasksInv, TaskInv, Numbered, Finished
      <4>3. tasks[d].id <= m
        BY <2>2, <4>1, <4>2
      <4> QED BY <1>1, <2>3, <4>2, <4>3
    <3> QED BY <1>1, <3>1, <3>2
  <2>5. m \in requests - Len(tasks')..requests
    BY <1>1, <1>2, <2>3, <2>4
  <2>6. \A i \in 1..n - d : tasks'[i].out = IF tasks'[i].id <= m THEN "eof"
                                ELSE IF b /\ tasks'[i].id = m + 1 THEN "head" ELSE "none"
    BY <1>2, <1>3, <2>2, Zenon
  <2> QED BY <2>2, <2>5, <2>6 DEF m, b
<1>6. WriterInv'
  <2>0. Out' = Out
    BY DEF Out
  <2> QED BY <1>0, <1>2, <1>3, <2>0 DEF WriterInv
<1> QED BY <1>4, <1>5, <1>6 DEF WriteInv

-----------------------------------------------------------------------------
(* What is written stays in order, action by action.                       *)

(* Nothing is written at first.                                            *)
LEMMA WriteInit == Init => WriteInv
<1> SUFFICES ASSUME Init PROVE WriteInv
  OBVIOUS
<1>1. Out = <<>> /\ tasks = <<>> /\ requests = 0 /\ wire = <<>> /\ buffer = <<>>
  BY DEF Init, Out
<1>2. TasksInv
  BY <1>1 DEF Init, TasksInv, Numbered, Ordered
<1>3. OutputInv
  <2>1. Ended(Out) = 0 /\ ~Open(Out) /\ InTurn(Out)
    BY <1>1 DEF Ended, Open, InTurn
  <2> QED BY <1>1, <2>1 DEF OutputInv
<1>4. WriterInv
  BY <1>1 DEF Init, WriterInv, Encoded
<1> QED BY <1>2, <1>3, <1>4 DEF WriteInv

(* Steps that leave the tasks and the writer alone.                        *)
LEMMA StillWritten ==
  ASSUME WriteInv, NothingWritten, Advance, UNCHANGED <<tasks, requests, wflags, late>>
  PROVE  WriteInv'
<1>1. tasks \in Seq(Task) /\ (\A i \in 1..Len(tasks) : TaskInv(tasks[i])) /\ wflags \subseteq {"STARTED", "KEEPALIVE"}
  BY DEF WriteInv, TasksInv, WriterInv
<1>2. \A i \in 1..Len(tasks) : TaskInv(tasks[i])'
  BY <1>1
<1> QED BY <1>1, <1>2, SameOuts

(* What poll_completed takes from the buffer it puts on the wire.          *)
LEMMA FlushKeeps ==
  ASSUME WriteInv, discarded' = discarded,
         (\E n \in 0..Len(buffer) : Flushed(n)) \/ UNCHANGED <<buffer, wire>>
  PROVE  NothingWritten
<1>0. wire \in Seq(Piece) /\ buffer \in Seq(Piece)
  BY DEF WriteInv, OutputInv
<1>1. CASE UNCHANGED <<buffer, wire>>
  BY <1>0, <1>1 DEF NothingWritten, Out
<1>2. ASSUME NEW n \in 0..Len(buffer), Flushed(n) PROVE NothingWritten
  <2>1. wire' \in Seq(Piece) /\ buffer' \in Seq(Piece) /\ wire' \o buffer' = wire \o buffer
    BY <1>0, <1>2, Cut, Zenon DEF Flushed
  <2> QED BY <2>1 DEF NothingWritten, Out
<1> QED BY <1>1, <1>2

(* The steps of poll and of the reader that touch neither.                 *)
LEMMA WriteQuiet ==
  ASSUME WriteInv,
         TimerFires \/ Poll \/ PollIo \/ ParseBody \/ ParseNotReady \/ Retry \/ TaskSkipped
           \/ NotStarted \/ KeepAliveClose \/ KeepAliveStart
  PROVE  WriteInv'
<1>0. wire \in Seq(Piece) /\ buffer \in Seq(Piece)
  BY DEF WriteInv, OutputInv
<1>1. UNCHANGED <<tasks, requests, wflags, late, wire, buffer, discarded>>
  BY Zenon DEF TimerFires, Poll, PollIo, ParseBody, ParseNotReady, Retry, TaskSkipped, NotStarted,
     KeepAliveClose, KeepAliveStart, writer, hist
<1>2. NothingWritten
  BY <1>0, <1>1 DEF NothingWritten, Out
<1>3. CASE TaskSkipped
  <2>1. tasks \in Seq(Task) /\ idx \in 1..Len(tasks) /\ TaskInv(Item) /\ pc = "tasks"
    BY <1>3 DEF TaskSkipped, InTasks, WriteInv, TasksInv, Item
  <2>2. io \/ tasks[idx].out = "eof"
    BY <1>3, <2>1, Zenon DEF TaskSkipped, DoesIo, Item, TaskInv
  <2>3. Advance
    BY <1>1, <1>3, <2>1, <2>2 DEF TaskSkipped, NextItem, Advance, InTasks
  <2> QED BY <1>1, <1>2, <2>3, StillWritten
<1>4. CASE ~TaskSkipped
  <2>1. Advance
    BY <1>4 DEF TimerFires, Poll, PollIo, ParseBody, ParseNotReady, Retry, ToTasks, NotStarted,
       KeepAliveClose, KeepAliveStart, CloseIdle, Advance
  <2> QED BY <1>1, <1>2, <2>1, StillWritten
<1> QED BY <1>3, <1>4

(* The steps that only flush.                                              *)
LEMMA WriteFlush ==
  ASSUME WriteInv, Shutdown \/ TaskCorrupted \/ Flush
  PROVE  WriteInv'
<1>1. /\ UNCHANGED <<tasks, requests, wflags, late, discarded>> /\ pc' # "tasks"
      /\ (\E n \in 0..Len(buffer) : Flushed(n)) \/ UNCHANGED <<buffer, wire>>
  BY DEF Shutdown, TaskCorrupted, Flush, FlushAndClose, Stop
<1>2. NothingWritten /\ Advance
  BY <1>1, FlushKeeps, SMTT(30) DEF Advance
<1> QED BY <1>1, <1>2, StillWritten, SMTT(30)

(* Steps of one task.                                                      *)
LEMMA ItemIs ==
  ASSUME WriteInv, InTasks
  PROVE  /\ tasks \in Seq(Task) /\ idx \in 1..Len(tasks) /\ pc = "tasks" /\ idx <= Len(tasks)
         /\ Item \in Task /\ TaskInv(Item)
         /\ wire \in Seq(Piece) /\ buffer \in Seq(Piece) /\ wflags \subseteq {"STARTED", "KEEPALIVE"}
<1>1. tasks \in Seq(Task) /\ idx \in 1..Len(tasks) /\ pc = "tasks" /\ idx <= Len(tasks)
  BY DEF WriteInv, TasksInv, InTasks
<1>2. Item \in Task /\ TaskInv(Item)
  BY <1>1 DEF WriteInv, TasksInv, Item
<1> QED BY <1>1, <1>2 DEF WriteInv, OutputInv, WriterInv

(* A step that changes the task, and not what it has written.              *)
LEMMA ItemKept ==
  ASSUME WriteInv, InTasks, NEW f \in Task, TaskInv(f), f.id = Item.id, f.out = Item.out,
         f.keep = Item.keep, SetItem(f), requests' = requests, NothingWritten, Advance,
         late' \/ (late' = late /\ wflags' = wflags), wflags' \subseteq {"STARTED", "KEEPALIVE"}
  PROVE  WriteInv'
<1>1. tasks \in Seq(Task) /\ idx \in 1..Len(tasks)
  BY ItemIs
<1>2. tasks' \in Seq(Task) /\ Len(tasks') = Len(tasks)
  BY <1>1, SMTT(30) DEF SetItem
<1>3. ASSUME NEW i \in 1..Len(tasks)
      PROVE  /\ TaskInv(tasks'[i])
             /\ tasks'[i].id = tasks[i].id /\ tasks'[i].out = tasks[i].out
             /\ tasks'[i].keep = tasks[i].keep
  <2>1. CASE i = idx
    <3>1. tasks'[i] = f /\ tasks[i] = Item
      BY <1>1, <2>1 DEF SetItem, Item
    <3> QED BY <3>1, Zenon
  <2>2. CASE i # idx
    <3>1. tasks'[i] = tasks[i]
      BY <1>1, <2>2 DEF SetItem
    <3>2. TaskInv(tasks[i])
      BY DEF WriteInv, TasksInv
    <3> QED BY <3>1, <3>2, Zenon
  <2> QED BY <2>1, <2>2
<1> QED BY <1>2, <1>3, SameOuts, Zenon

(* A task that fails keeps what it wrote; the rest is flushed.             *)
LEMMA WriteFails ==
  ASSUME WriteInv, TaskFails
  PROVE  WriteInv'
<1>0. InTasks
  BY DEF TaskFails
<1>p. PICK p \in {"fail", "done", "finish"} : SetItem([Item EXCEPT !.flags = @ \cup {"ERROR"}, !.phase = p])
  BY Zenon DEF TaskFails
<1> DEFINE f == [Item EXCEPT !.flags = @ \cup {"ERROR"}, !.phase = p]
<1>1. Item \in Task /\ TaskInv(Item) /\ wflags \subseteq {"STARTED", "KEEPALIVE"}
  BY <1>0, ItemIs
<1>2. f \in Task /\ f.id = Item.id /\ f.out = Item.out /\ f.keep = Item.keep
  BY <1>1, Zenon DEF Task, H!Phases
<1>3. TaskInv(f)
  BY <1>1 DEF TaskInv, Task
<1>4. /\ SetItem(f) /\ UNCHANGED <<requests, wflags, late, discarded>> /\ pc' # "tasks"
      /\ (\E n \in 0..Len(buffer) : Flushed(n)) \/ UNCHANGED <<buffer, wire>>
  BY <1>p DEF TaskFails, FlushAndClose, Stop
<1>5. NothingWritten /\ Advance
  BY <1>4, FlushKeeps DEF Advance
<1> HIDE DEF f
<1> QED BY <1>0, <1>1, <1>2, <1>3, <1>4, <1>5, ItemKept

(* A task polled without the writer writes nothing.                        *)
LEMMA WritePolled ==
  ASSUME WriteInv, TaskPolled
  PROVE  WriteInv'
<1>0. InTasks
  BY DEF TaskPolled
<1>1. /\ Item \in Task /\ TaskInv(Item) /\ wflags \subseteq {"STARTED", "KEEPALIVE"}
      /\ pc = "tasks" /\ idx <= Len(tasks) /\ wire \in Seq(Piece) /\ buffer \in Seq(Piece)
  BY <1>0, ItemIs, SMTT(30)
<1>2. PICK p \in H!Succ(Item.phase) :
        SetItem([Item EXCEPT !.phase = p, !.flags = @ \cup PollFlags(p)]) /\ (Item.phase = "send" => p = "send")
  BY Zenon DEF TaskPolled
<1> DEFINE f == [Item EXCEPT !.phase = p, !.flags = @ \cup PollFlags(p)]
<1>3. "FINISHED" \notin Item.flags /\ Item.out # "eof" /\ "EOF" \notin Item.flags /\ io
  BY <1>1 DEF TaskPolled, TaskInv, DoesIo
<1>4. /\ p \in H!Phases /\ PollFlags(p) \subseteq {"FINISHED"}
      /\ IF Item.phase \in {"work", "send"} THEN p \in {"work", "send"} /\ PollFlags(p) = {}
         ELSE p \notin {"work", "send"}
  <2>1. Item.phase \in {"work", "send", "finish", "done", "fail"}
    BY <1>1 DEF Task, H!Phases
  <2>2. CASE Item.phase = "work"
    BY <1>2, <2>2 DEF H!Succ, H!Phases, PollFlags, H!PollAnswers
  <2>3. CASE Item.phase = "send"
    BY <1>2, <2>3 DEF H!Succ, H!Phases, PollFlags, H!PollAnswers
  <2>4. CASE Item.phase \in {"finish", "done", "fail"}
    BY <1>2, <2>4 DEF H!Succ, H!Phases, PollFlags, H!PollAnswers
  <2> QED BY <2>1, <2>2, <2>3, <2>4
<1>5. f \in Task /\ f.id = Item.id /\ f.out = Item.out /\ f.keep = Item.keep
  BY <1>1, <1>4, Zenon DEF Task, H!Phases
<1>6. TaskInv(f)
  BY <1>1, <1>3, <1>4 DEF TaskInv, Task
<1>7. SetItem(f) /\ UNCHANGED <<requests, wflags, late, discarded, wire, buffer, pc, io>> /\ idx' = idx + 1
  BY <1>2 DEF TaskPolled, writer, hist, NextItem
<1>8. NothingWritten
  BY <1>1, <1>7 DEF NothingWritten, Out
<1>9. Advance
  BY <1>1, <1>3, <1>7 DEF Advance
<1> HIDE DEF f
<1> QED BY <1>0, <1>1, <1>5, <1>6, <1>7, <1>8, <1>9, ItemKept

(* What a streaming response adds goes behind what was written.            *)
LEMMA StreamingAdds ==
  ASSUME NEW e \in Task, NEW k \in Nat, NEW eof \in BOOLEAN,
         wire \in Seq(Piece), buffer \in Seq(Piece), Streaming(e, k, eof)
  PROVE  wire' \in Seq(Piece) /\ buffer' \in Seq(Piece) /\ Out' = Out \o Pieces(e, k, eof)
<1> DEFINE q == Pieces(e, k, eof)
           all == buffer \o q
<1>1. q \in Seq(Piece)
  <2>1. PiecesRight(e, k, eof)
    BY PiecesAre
  <2> QED BY <2>1, Zenon DEF PiecesRight
<1>2. PICK n \in 0..Len(all) : wire' = wire \o SubSeq(all, 1, n) /\ buffer' = SubSeq(all, n + 1, Len(all))
  BY Zenon DEF Streaming
<1> HIDE DEF q
<1>3. all \in Seq(Piece) /\ wire \o all = (wire \o buffer) \o q
  BY <1>1, Concatenation, Associative, SMTT(30)
<1> HIDE DEF all
<1>4. wire' \in Seq(Piece) /\ buffer' \in Seq(Piece) /\ wire' \o buffer' = wire \o all
  BY <1>2, <1>3, Cut, Zenon
<1> QED BY <1>3, <1>4 DEF Out, q

(* So does what a response with its body in memory adds.                   *)
LEMMA BinaryAdds ==
  ASSUME NEW e \in Task, wire \in Seq(Piece), buffer \in Seq(Piece), Binary(e)
  PROVE  wire' \in Seq(Piece) /\ buffer' \in Seq(Piece) /\ Out' = Out \o Pieces(e, 0, TRUE)
<1> DEFINE q == Pieces(e, 0, TRUE)
<1>1. q \in Seq(Piece)
  <2>1. PiecesRight(e, 0, TRUE)
    BY PiecesAre, Zenon
  <2> QED BY <2>1, Zenon DEF PiecesRight
<1>2. wire' = wire /\ buffer' = buffer \o q
  BY DEF Binary
<1> HIDE DEF q
<1>3. buffer \o q \in Seq(Piece) /\ wire \o (buffer \o q) = (wire \o buffer) \o q
  BY <1>1, Concatenation, Associative
<1> QED BY <1>2, <1>3, Zenon DEF Out, q

(* A task that is not ready has written some of its response, or nothing.  *)
LEMMA WriteWaits ==
  ASSUME WriteInv, TaskWaits
  PROVE  WriteInv'
<1>0. InTasks
  BY Zenon DEF TaskWaits
<1>1. /\ Item \in Task /\ TaskInv(Item) /\ wflags \subseteq {"STARTED", "KEEPALIVE"}
      /\ pc = "tasks" /\ idx <= Len(tasks) /\ idx \in 1..Len(tasks)
      /\ wire \in Seq(Piece) /\ buffer \in Seq(Piece)
  BY <1>0, ItemIs
<1>2. UNCHANGED <<requests, late, discarded>> /\ ~io /\ "ERROR" \notin Item.flags
  BY Zenon DEF TaskWaits, hist, DoesIo
<1>3. Advance
  BY <1>1, Zenon DEF TaskWaits, Advance, BlockIo
<1>4. CASE UNCHANGED <<tasks, writer>>
  <2>1. UNCHANGED <<tasks, wflags, wire, buffer>>
    BY <1>4 DEF writer
  <2>2. NothingWritten
    BY <1>1, <1>2, <2>1 DEF NothingWritten, Out
  <2> QED BY <1>2, <1>3, <2>1, <2>2, StillWritten
<1>5. ASSUME Item.phase \in {"work", "send"}, NEW k \in 0..MaxChunks - Item.chunks,
             Streaming(Item, k, FALSE), wflags' = WriterFlags(Item),
             SetItem([Item EXCEPT !.phase = "send", !.out = "head", !.chunks = @ + k])
      PROVE  WriteInv'
  <2> DEFINE f == [Item EXCEPT !.phase = "send", !.out = "head", !.chunks = @ + k]
  <2>1. Item.out # "eof" /\ "FINISHED" \notin Item.flags /\ "EOF" \notin Item.flags
    BY <1>1, <1>2, <1>5, Zenon DEF TaskInv
  <2>2. k \in Nat /\ Item.chunks + k \in 0..MaxChunks
    BY <1>1, Http1Assumption DEF Task
  <2>3. f \in Task /\ f.id = Item.id /\ f.out = "head" /\ f.keep = Item.keep
    BY <1>1, <2>2, Zenon DEF Task, H!Phases
  <2>4. TaskInv(f)
    BY <1>1, <2>1 DEF TaskInv, Task
  <2>5. wire' \in Seq(Piece) /\ buffer' \in Seq(Piece) /\ Out' = Out \o Pieces(Item, k, FALSE)
    BY <1>1, <1>5, <2>2, StreamingAdds, Zenon
  <2>6. tasks' = [tasks EXCEPT ![idx] = f]
    BY <1>5 DEF SetItem
  <2> HIDE DEF f
  <2> QED BY <1>1, <1>2, <1>3, <1>5, <2>1, <2>2, <2>3, <2>4, <2>5, <2>6, Wrote, Zenon DEF Item
<1> QED BY <1>4, <1>5, Zenon DEF TaskWaits

(* A task that is ready has written the rest, or had before.               *)
LEMMA WriteReady ==
  ASSUME WriteInv, TaskReady
  PROVE  WriteInv'
<1>0. InTasks
  BY Zenon DEF TaskReady
<1>1. /\ Item \in Task /\ TaskInv(Item) /\ wflags \subseteq {"STARTED", "KEEPALIVE"}
      /\ pc = "tasks" /\ idx <= Len(tasks) /\ idx \in 1..Len(tasks) /\ tasks \in Seq(Task)
      /\ wire \in Seq(Piece) /\ buffer \in Seq(Piece)
  BY <1>0, ItemIs
<1>2. /\ UNCHANGED <<requests, discarded, pc, io>> /\ ~io /\ idx' = idx + 1 /\ wflags' = {}
      /\ "ERROR" \notin Item.flags
  BY Zenon DEF TaskReady, DoesIo, NextItem, WriterReset
<1>3. ASSUME Item.phase = "finish", late' = TRUE, UNCHANGED <<buffer, wire>>,
             SetItem([Item EXCEPT !.phase = "done", !.flags = @ \cup EntryDone("Ready")])
      PROVE  WriteInv'
  <2> DEFINE f == [Item EXCEPT !.phase = "done", !.flags = @ \cup EntryDone("Ready")]
  <2>1. Item.out = "eof"
    BY <1>1, <1>2, <1>3 DEF TaskInv
  <2>2. f \in Task /\ f.id = Item.id /\ f.out = Item.out /\ f.keep = Item.keep
    BY <1>1, Zenon DEF Task, H!Phases, EntryDone
  <2>3. TaskInv(f)
    BY <1>1, <2>1 DEF TaskInv, Task, EntryDone
  <2>4. NothingWritten
    BY <1>1, <1>2, <1>3 DEF NothingWritten, Out
  <2>5. SetItem(f)
    BY <1>3
  <2>6. Advance
    <3>1. tasks'[idx] = f
      BY <1>1, <2>5 DEF SetItem
    <3>2. tasks'[idx].out = "eof"
      BY <2>1, <2>2, <3>1
    <3> QED BY <1>1, <1>2, <3>2 DEF Advance
  <2> HIDE DEF f
  <2> QED BY <1>0, <1>2, <1>3, <2>2, <2>3, <2>4, <2>5, <2>6, ItemKept
<1>4. ASSUME Item.phase \in {"work", "send"},
             Binary(Item) \/ (\E k \in 0..MaxChunks - Item.chunks : Streaming(Item, k, TRUE)),
             NEW p \in {"done", "finish"}, late' = late,
             SetItem([Item EXCEPT !.phase = p, !.out = "eof", !.flags = @ \cup
                        EntryDone(IF p = "done" THEN "Ready" ELSE "ReadyFalse")])
      PROVE  WriteInv'
  <2> DEFINE f == [Item EXCEPT !.phase = p, !.out = "eof", !.flags = @ \cup
                     EntryDone(IF p = "done" THEN "Ready" ELSE "ReadyFalse")]
  <2>1. Item.out # "eof"
    BY <1>1, <1>4 DEF TaskInv
  <2>2. f \in Task /\ f.id = Item.id /\ f.out = "eof" /\ f.keep = Item.keep
    BY <1>1, Zenon DEF Task, H!Phases, EntryDone
  <2>3. TaskInv(f)
    BY <1>1, <1>4 DEF TaskInv, Task, EntryDone
  <2>4. PICK k \in Nat : wire' \in Seq(Piece) /\ buffer' \in Seq(Piece) /\ Out' = Out \o Pieces(Item, k, TRUE)
    <3>1. CASE Binary(Item)
      BY <1>1, <3>1, BinaryAdds, Zenon
    <3>2. ASSUME NEW k \in 0..MaxChunks - Item.chunks, Streaming(Item, k, TRUE)
          PROVE  wire' \in Seq(Piece) /\ buffer' \in Seq(Piece) /\ Out' = Out \o Pieces(Item, k, TRUE) /\ k \in Nat
      <4>1. k \in Nat
        BY <1>1, Http1Assumption DEF Task
      <4> QED BY <1>1, <3>2, <4>1, StreamingAdds, Zenon
    <3> QED BY <1>4, <3>1, <3>2, Zenon
  <2>5. tasks' = [tasks EXCEPT ![idx] = f]
    BY <1>4 DEF SetItem
  <2>6. Advance
    <3>1. tasks'[idx] = f
      BY <1>1, <2>5
    <3>2. tasks'[idx].out = "eof"
      BY <2>2, <3>1
    <3> QED BY <1>1, <1>2, <3>2 DEF Advance
  <2> HIDE DEF f
  <2> QED BY <1>1, <1>2, <1>4, <2>1, <2>2, <2>3, <2>4, <2>5, <2>6, Wrote, Zenon DEF Item
<1> QED BY <1>3, <1>4, Zenon DEF TaskReady

(* Parsing adds a task, or throws the buffer away.                         *)
LEMMA WriteParsed ==
  ASSUME WriteInv, ParseRequest \/ ParseError
  PROVE  WriteInv'
<1>0. wire \in Seq(Piece) /\ buffer \in Seq(Piece) /\ tasks \in Seq(Task) /\ requests \in Nat
  BY DEF WriteInv, OutputInv, TasksInv
<1>1. NothingWritten
  <2>1. CASE ParseRequest
    BY <1>0, <2>1 DEF ParseRequest, writer, NothingWritten, Out
  <2>2. CASE ParseError
    <3>1. wire' = wire /\ buffer' = <<>> /\ (~discarded' => ~discarded /\ buffer = <<>>)
      BY <2>2, Zenon DEF ParseError, WriterDisconnected
    <3> QED BY <1>0, <3>1 DEF NothingWritten, Out
  <2> QED BY <2>1, <2>2, SMTT(30)
<1>2. UNCHANGED <<late, wflags>> /\ pc' # "tasks"
  BY Zenon DEF ParseRequest, ParseError, writer
<1>3. CASE UNCHANGED <<tasks, requests>>
  <2>1. Advance
    BY <1>2 DEF Advance
  <2> QED BY <1>1, <1>2, <1>3, <2>1, StillWritten
<1>4. ASSUME NEW p \in {"work", "send"}, NEW keep \in BOOLEAN,
             tasks' = Append(tasks, Entry(requests + 1, p, keep)), requests' = requests + 1
      PROVE  WriteInv'
  BY <1>1, <1>2, <1>4, Added
<1>5. CASE ParseRequest
  BY <1>4, <1>5 DEF ParseRequest
<1>6. CASE ParseError
  <2>1. PICK e \in ParseErrors \cup {"PayloadDropped"} :
          /\ tasks' = IF e = "Error" /\ tasks = <<>>
                      THEN <<Entry(requests + 1, "send", FALSE)>> ELSE tasks
          /\ requests' = requests + (Len(tasks') - Len(tasks))
    BY <1>6 DEF ParseError
  <2>2. CASE e = "Error" /\ tasks = <<>>
    <3>1. tasks' = <<Entry(requests + 1, "send", FALSE)>>
      BY <2>1, <2>2
    <3>2. requests' = requests + 1
      BY <1>0, <2>1, <2>2, <3>1
    <3>3. tasks' = Append(tasks, Entry(requests + 1, "send", FALSE))
      BY <2>2, <3>1
    <3> QED BY <1>4, <3>2, <3>3, Zenon
  <2>3. CASE ~(e = "Error" /\ tasks = <<>>)
    <3>1. tasks' = tasks
      BY <2>1, <2>3, Zenon
    <3>2. requests' = requests + (Len(tasks) - Len(tasks))
      BY <2>1, <3>1, Zenon
    <3>3. requests' = requests
      BY <1>0, <3>2
    <3> QED BY <1>3, <3>1, <3>3
  <2> QED BY <2>2, <2>3
<1> QED BY <1>5, <1>6, SMTT(30)

(* Cleanup pops finished tasks.                                            *)
LEMMA WriteCleanup ==
  ASSUME WriteInv, Cleanup
  PROVE  WriteInv'
<1>1. tasks \in Seq(Task)
  BY DEF WriteInv, TasksInv
<1>2. PICK d \in 0..Len(tasks) : /\ Unfinished = SubSeq(tasks, d + 1, Len(tasks))
                                 /\ \A i \in 1..d : Finished(tasks[i])
  BY <1>1, UnfinishedKeeps, SMTT(30)
<1>3. tasks' = Unfinished /\ pc' # "tasks" /\ UNCHANGED <<requests, wire, buffer, wflags, discarded, late>>
  BY DEF Cleanup, writer, hist
<1> QED BY <1>2, <1>3, Popped

(* Every step keeps what is written in order.                              *)
LEMMA WriteStep == WriteInv /\ [Next]_vars => WriteInv'
<1> SUFFICES ASSUME WriteInv, [Next]_vars PROVE WriteInv'
  OBVIOUS
<1>1. CASE UNCHANGED vars
  <2>1. UNCHANGED <<tasks, requests, wire, buffer, wflags, discarded, late, pc, idx, io>>
    BY <1>1 DEF vars, writer, hist, locals
  <2> QED BY <2>1, Zenon DEF WriteInv, TasksInv, Numbered, Ordered, OutputInv, WriterInv, Out
<1>2. CASE Next
  BY <1>2, WriteQuiet, WriteFlush, WriteFails, WritePolled, WriteWaits, WriteReady, WriteParsed,
     WriteCleanup DEF Next, Step
<1> QED BY <1>1, <1>2

-----------------------------------------------------------------------------
(* Keep-alive and shutdown.                                                *)

(* A new connection is open.                                               *)
LEMMA ReasonInit == Init => ReasonInv /\ Places /\ Booleans
<1> SUFFICES ASSUME Init PROVE ReasonInv /\ Places /\ Booleans
  OBVIOUS
<1>1. ReasonInv
  BY DEF Init, ReasonInv
<1>2. Places
  BY DEF Init, Places, NoPayload
<1>3. Booleans
  BY Zenon DEF Init, Booleans
<1> QED BY <1>1, <1>2, <1>3

(* The Boolean variables stay Boolean.                                     *)
LEMMA BooleansStep == WriteInv /\ Booleans /\ [Next]_vars => Booleans'
<1> SUFFICES ASSUME WriteInv, Booleans, [Next]_vars PROVE Booleans'
  OBVIOUS
<1> USE DEF Booleans
<1>1. CASE UNCHANGED vars
  BY <1>1, Zenon DEF vars, hist, locals
<1>2. CASE TimerFires \/ Poll \/ ParseBody \/ ParseNotReady \/ TaskSkipped \/ TaskPolled \/ Cleanup
             \/ NotStarted \/ KeepAliveClose \/ KeepAliveStart \/ ParseRequest
  <2>1. UNCHANGED <<needRead, retry, io, lastKeep, discarded, late>>
    BY <1>2, Zenon DEF TimerFires, Poll, ParseBody, ParseNotReady, TaskSkipped, TaskPolled, Cleanup,
       NotStarted, KeepAliveClose, KeepAliveStart, ParseRequest, hist, locals, NextItem
  <2> QED BY <2>1, Zenon
<1>3. CASE Shutdown \/ TaskFails \/ TaskCorrupted \/ Flush
  <2>1. UNCHANGED <<needRead, retry, io, lastKeep, discarded, late>>
    BY <1>3, Zenon DEF Shutdown, TaskFails, TaskCorrupted, Flush, FlushAndClose, locals
  <2> QED BY <2>1, Zenon
<1>4. CASE PollIo
  <2>1. needRead' \in BOOLEAN /\ UNCHANGED <<retry, io, lastKeep, discarded, late>>
    BY <1>4 DEF PollIo, hist
  <2> QED BY <2>1, Zenon
<1>5. CASE ParseError
  <2>1. discarded' \in BOOLEAN /\ UNCHANGED <<needRead, retry, io, lastKeep, late>>
    BY <1>5 DEF ParseError, WriterDisconnected, locals
  <2> QED BY <2>1, Zenon
<1>6. CASE Retry
  <2>1. retry' \in BOOLEAN /\ io' = FALSE /\ UNCHANGED <<needRead, lastKeep, discarded, late>>
    BY <1>6 DEF Retry, ToTasks, hist
  <2> QED BY <2>1, Zenon
<1>7. CASE TaskWaits
  <2>1. (io' = io \/ io' = TRUE) /\ UNCHANGED <<needRead, retry, lastKeep, discarded, late>>
    BY <1>7, Zenon DEF TaskWaits, BlockIo, hist
  <2> QED BY <2>1, Zenon
<1>8. CASE TaskReady
  <2>1. Item \in Task
    BY <1>8, ItemIs, Zenon DEF TaskReady
  <2>2. Item.keep \in BOOLEAN
    BY <2>1 DEF Task
  <2>3. (late' = late \/ late' = TRUE) /\ (lastKeep' = lastKeep \/ lastKeep' = Item.keep)
        /\ UNCHANGED <<needRead, retry, io, discarded>>
    BY <1>8, Zenon DEF TaskReady, NextItem
  <2> QED BY <2>2, <2>3, Zenon
<1> QED BY <1>1, <1>2, <1>3, <1>4, <1>5, <1>6, <1>7, <1>8 DEF Next, Step

(* The other variables keep their types.                                   *)
LEMMA PlacesStep == WriteInv /\ Places /\ [Next]_vars => Places'
<1> SUFFICES ASSUME WriteInv, Places, [Next]_vars PROVE Places'
  OBVIOUS
<1> USE DEF Places, NoPayload
<1>1. CASE UNCHANGED vars
  BY <1>1, SMTT(30) DEF vars, hist, writer
<1>2. CASE TimerFires \/ Poll \/ PollIo \/ NotStarted \/ KeepAliveClose \/ KeepAliveStart \/ Retry
  BY <1>2 DEF TimerFires, Poll, PollIo, NotStarted, KeepAliveClose, KeepAliveStart, Retry, ToTasks,
     hist, writer
<1>3. CASE ParseRequest
  <2>1. requests \in Nat
    BY DEF WriteInv, TasksInv
  <2>2. payload' \in [id : Nat, status : {"Read", "Pause", "Dropped"}]
    BY <1>3, <2>1 DEF ParseRequest
  <2> QED BY <1>3, <2>2, SMTT(30) DEF ParseRequest, writer
<1>4. CASE ParseError
  BY <1>4 DEF ParseError
<1>5. CASE ParseBody \/ ParseNotReady
  <2>1. payload' \in [id : Nat, status : {"Read", "Pause", "Dropped"}]
    BY <1>5, SMTT(30) DEF ParseBody, ParseNotReady
  <2> QED BY <1>5, <2>1 DEF ParseBody, ParseNotReady, hist, writer
<1>6. CASE Shutdown \/ TaskCorrupted \/ Flush
  BY <1>6 DEF Shutdown, TaskCorrupted, Flush, FlushAndClose, Stop
<1>7. CASE TaskFails
  <2>1. payload' \in [id : Nat, status : {"Read", "Pause", "Dropped"}]
    BY <1>7, SMTT(30) DEF TaskFails, HandlerReads
  <2> QED BY <1>7, <2>1 DEF TaskFails, FlushAndClose, Stop
<1>8. CASE TaskPolled \/ TaskSkipped
  <2>1. payload' \in [id : Nat, status : {"Read", "Pause", "Dropped"}]
    BY <1>8, Zenon DEF TaskPolled, TaskSkipped, HandlerReads
  <2> QED BY <1>8, <2>1, Zenon DEF TaskPolled, TaskSkipped, NextItem, hist, writer
<1>9. CASE TaskWaits
  <2>1. payload' \in [id : Nat, status : {"Read", "Pause", "Dropped"}]
    BY <1>9, Zenon DEF TaskWaits, HandlerReads
  <2>2. capacity' = capacity \/ capacity' = StreamCapacity
    BY <1>9, Zenon DEF TaskWaits, Streaming, writer
  <2> QED BY <1>9, <2>1, <2>2, Zenon DEF TaskWaits, hist
<1>10. CASE TaskReady
  <2>1. payload' \in [id : Nat, status : {"Read", "Pause", "Dropped"}]
    BY <1>10, Zenon DEF TaskReady, HandlerReads
  <2>2. capacity' = capacity \/ capacity' = StreamCapacity
    BY <1>10, Zenon DEF TaskReady, Streaming, Binary
  <2> QED BY <1>10, <2>1, <2>2, Zenon DEF TaskReady, NextItem
<1>11. CASE Cleanup
  BY <1>11 DEF Cleanup, hist, writer
<1> QED BY <1>1, <1>2, <1>3, <1>4, <1>5, <1>6, <1>7, <1>8, <1>9, <1>10, <1>11, SMTT(30) DEF Next, Step

(* No step closes the connection without a reason or with a task left.     *)
LEMMA ReasonStep == WriteInv /\ Places /\ ReasonInv /\ [Next]_vars => ReasonInv'
<1> SUFFICES ASSUME WriteInv, Places, ReasonInv, [Next]_vars PROVE ReasonInv'
  BY SMTT(30)
<1> USE DEF ReasonInv
<1>0. tasks \in Seq(Task) /\ buffer \in Seq(Piece) /\ capacity \in Nat
  BY Http1Assumption, SMTT(30) DEF WriteInv, TasksInv, OutputInv, Places
<1>1. CASE UNCHANGED vars
  BY <1>1 DEF vars, hist, writer
<1>2. CASE TimerFires
  BY <1>2, SMTT(30) DEF TimerFires, hist, writer
<1>3. CASE Poll
  BY <1>3 DEF Poll, hist, writer
<1>4. CASE PollIo
  BY <1>4, SMTT(30) DEF PollIo, hist, writer
<1>5. CASE ParseRequest
  BY <1>5, SMTT(30) DEF ParseRequest, writer
<1>6. CASE ParseError
  BY <1>6 DEF ParseError
<1>7. CASE ParseBody \/ ParseNotReady
  BY <1>7 DEF ParseBody, ParseNotReady, hist, writer
<1>8. CASE Retry
  BY <1>8, SMTT(30) DEF Retry, ToTasks, hist, writer
<1>9. CASE Shutdown
  <2>1. closed' = "done" => Len(buffer') <= capacity
    <3>1. ASSUME NEW n \in 0..Len(buffer), Flushed(n), ~Full PROVE Len(buffer') <= capacity
      <4>1. buffer' \in Seq(Piece)
        BY <1>0, <3>1 DEF Flushed
      <4> QED BY <1>0, <3>1, <4>1 DEF Full
    <3> QED BY <1>9, <3>1 DEF Shutdown, FlushAndClose, Stop
  <2> QED BY <1>9, <2>1 DEF Shutdown, FlushAndClose, Stop
<1>10. CASE TaskFails \/ TaskCorrupted
  <2>0. InTasks
    BY <1>10, Zenon DEF TaskFails, TaskCorrupted
  <2>1. tasks # <<>>
    BY <1>0, <2>0, ItemIs, SMTT(30)
  <2>2. pc = "tasks"
    BY <1>10, Zenon DEF TaskFails, TaskCorrupted, InTasks
  <2>3. UNCHANGED <<flags, timer, late, lastKeep>> /\ pc' = "idle" /\ closed' \in {closed, "failed"}
    BY <1>10, Zenon DEF TaskFails, TaskCorrupted, FlushAndClose, Stop
  <2> QED BY <2>1, <2>2, <2>3
<1>11. CASE TaskPolled \/ TaskSkipped
  <2>0. InTasks
    BY <1>11, Zenon DEF TaskPolled, TaskSkipped
  <2>1. tasks # <<>>
    BY <1>0, <2>0, ItemIs
  <2>2. pc = "tasks"
    BY <1>11, Zenon DEF TaskPolled, TaskSkipped, InTasks
  <2>3. UNCHANGED <<flags, timer, late, lastKeep, pc, closed>>
    BY <1>11, Zenon DEF TaskPolled, TaskSkipped, NextItem, hist
  <2> QED BY <2>1, <2>2, <2>3
<1>12. CASE TaskWaits
  <2>0. InTasks
    BY <1>12, Zenon DEF TaskWaits
  <2>1. tasks # <<>>
    BY <1>0, <2>0, ItemIs
  <2>2. pc = "tasks"
    BY <1>12, Zenon DEF TaskWaits, InTasks
  <2> QED BY <1>12, <2>1, <2>2, Zenon DEF TaskWaits, hist
<1>13. CASE TaskReady
  <2>0. InTasks
    BY <1>13, Zenon DEF TaskReady
  <2>1. tasks # <<>> /\ Item \in Task /\ TaskInv(Item) /\ idx \in 1..Len(tasks)
    BY <1>0, <2>0, ItemIs
  <2>2. pc = "tasks" /\ timer = "none" /\ "SHUTDOWN" \notin flags /\ closed = "no"
    BY <1>13, <2>1, Zenon DEF TaskReady, InTasks, Places
  <2>3. /\ pc' = pc /\ timer' = timer /\ closed' = closed
        /\ flags' \subseteq flags \cup {"KEEPALIVE"} /\ (flags \ {"KEEPALIVE"}) \subseteq flags'
    BY <1>13, Zenon DEF TaskReady, NextItem, Override
  <2>4. ~late' /\ "KEEPALIVE" \notin flags' => ~lastKeep'
    <3>1. CASE Item.phase = "finish"
      BY <1>13, <3>1 DEF TaskReady
    <3>2. CASE Item.phase \in {"work", "send"}
      <4>1. Item.out \in {"none", "head"}
        BY <2>1, <3>2 DEF TaskInv, Task
      <4>2. late' = late /\ lastKeep' = Item.keep /\ ("KEEPALIVE" \in WriterFlags(Item) => "KEEPALIVE" \in flags')
        BY <1>13, <3>2, Zenon DEF TaskReady, Override
      <4>3. ~late /\ Item.out = "head" => (Item.keep => "KEEPALIVE" \in wflags)
        BY <2>1 DEF WriteInv, WriterInv, Item
      <4>4. ~late /\ Item.keep => "KEEPALIVE" \in WriterFlags(Item)
        BY <4>1, <4>3 DEF WriterFlags
      <4> QED BY <4>2, <4>4, SMTT(30)
    <3> QED BY <1>13, <3>1, <3>2, Zenon DEF TaskReady
  <2> QED BY <2>2, <2>3, <2>4
<1>14. CASE Cleanup
  <2>1. tasks = <<>> => tasks' = <<>>
    BY <1>14, <1>0, SMTT(30) DEF Cleanup, Unfinished
  <2> QED BY <1>14, <2>1 DEF Cleanup, hist, writer
<1>15. CASE Flush
  BY <1>15, SMTT(30) DEF Flush, Stop
<1>16. CASE NotStarted
  BY <1>16, SMTT(30) DEF NotStarted, hist, writer
<1>17. CASE KeepAliveClose
  BY <1>17 DEF KeepAliveClose, CloseIdle, MustClose, hist, writer
<1>18. CASE KeepAliveStart
  BY <1>18 DEF KeepAliveStart, hist, writer
<1> QED BY Zenon, <1>1, <1>2, <1>3, <1>4, <1>5, <1>6, <1>7, <1>8, <1>9, <1>10, <1>11, <1>12, <1>13, <1>14,
           <1>15, <1>16, <1>17, <1>18 DEF Next, Step

-----------------------------------------------------------------------------
(* The inductive invariant.                                                *)
LEMMA Invariance == Spec => []Inv
<1>1. Init => Inv
  BY WriteInit, ReasonInit DEF Inv
<1>2. Inv /\ [Next]_vars => Inv'
  BY WriteStep, BooleansStep, PlacesStep, ReasonStep DEF Inv
<1> QED BY <1>1, <1>2, PTL DEF Spec

(* It implies the types,                                                   *)
LEMMA InvTypes == Inv => TypeOK
<1> SUFFICES ASSUME Inv PROVE TypeOK
  OBVIOUS
<1>1. {needRead, retry, io, lastKeep, discarded, late} \subseteq BOOLEAN
  BY Zenon DEF Inv, Booleans
<1>2. \A i \in 1..Len(tasks) :
        /\ tasks[i].phase \in H!Phases /\ tasks[i].out \in {"none", "head", "eof"}
        /\ tasks[i].flags \subseteq {"EOF", "ERROR", "FINISHED"}
        /\ tasks[i].chunks \in 0..MaxChunks
  <2>1. \A i \in 1..Len(tasks) : tasks[i] \in Task
    BY DEF Inv, WriteInv, TasksInv
  <2> QED BY <2>1 DEF Task
<1>3. idx \in 1..Len(tasks) + 1 \/ pc # "tasks"
  BY DEF Inv, WriteInv, TasksInv
<1>4. flags \subseteq {"STARTED", "ERROR", "KEEPALIVE", "SHUTDOWN"} /\ wflags \subseteq {"STARTED", "KEEPALIVE"}
  BY DEF Inv, WriteInv, WriterInv, ReasonInv
<1>5. /\ timer \in {"none", "set", "fired"} /\ payload.status \in {"Read", "Pause", "Dropped"}
      /\ capacity \in {0, StreamCapacity} /\ closed \in {"no", "done", "failed"}
      /\ pc \in {"idle", "io", "parse", "retry", "tasks", "flush", "keepalive", "shutdown"}
  BY DEF Inv, Places
<1> QED BY <1>1, <1>2, <1>3, <1>4, <1>5, Zenon DEF TypeOK

(* and that a connection that is done has answered every request.          *)
LEMMA InvDelivered == Inv => Delivered
<1> SUFFICES ASSUME Inv, closed = "done", ~discarded PROVE Delivered
  BY DEF Delivered
<1>1. tasks = <<>> /\ Len(buffer) <= capacity
  BY SMTT(30) DEF Inv, ReasonInv
<1>2. InTurn(Out) /\ Ended(Out) \in requests - Len(tasks)..requests /\ requests \in Nat
  BY DEF Inv, WriteInv, OutputInv, TasksInv
<1>3. Ended(Out) = requests
  BY <1>1, <1>2
<1>4. \A r \in 1..requests : \E i \in 1..Len(Out) : Out[i].id = r /\ Out[i].part = "eof"
  BY <1>2, <1>3, Zenon DEF InTurn
<1> QED BY <1>1, <1>4, Zenon DEF Delivered

(* Whatever the requests, the handlers, the socket and the peer do, the    *)
(* pieces on the wire and in the buffer are whole responses in the order   *)
(* of the requests, every chunk through the encoder (Http1::poll_io with   *)
(* H1Writer), as long as no task answers Ready again after its response.   *)
THEOREM ResponsesFramed == Spec => []WellFramed
<1>1. Inv => WellFramed
  <2> SUFFICES ASSUME Inv, ~late, ~discarded, NEW i \in 1..Len(Out)
               PROVE  /\ Out[i].framed
                      /\ IF i = 1 \/ Out[i - 1].part = "eof"
                         THEN Out[i].part = "head" /\ (i > 1 => Out[i].id = Out[i - 1].id + 1)
                         ELSE Out[i].part # "head" /\ Out[i].id = Out[i - 1].id
    BY Zenon DEF WellFramed, Framed
  <2>1. Turn(Out, i) /\ Encoded(Out)
    BY Zenon DEF Inv, WriteInv, OutputInv, WriterInv, InTurn
  <2> QED BY <2>1, Zenon DEF Turn, Encoded
<1> QED BY <1>1, Invariance, PTL

(* A connection shuts down only with no request in progress and for a      *)
(* reason, and one that is done has put the end of every response on the   *)
(* wire or among the buffer_capacity pieces poll_completed leaves behind   *)
(* (Http1::poll, poll_io and H1Writer::poll_completed).                    *)
THEOREM ConnectionsClose == Spec => []ClosesInOrder
<1>1. Inv => ClosedForReason
  BY DEF Inv, ReasonInv, ClosedForReason
<1>2. Inv => ClosesInOrder
  BY <1>1, InvTypes, InvDelivered DEF ClosesInOrder
<1> QED BY <1>2, Invariance, PTL
=============================================================================
