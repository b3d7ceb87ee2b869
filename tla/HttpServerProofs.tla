-------------------------- MODULE HttpServerProofs --------------------------
(***************************************************************************)
(* Proofs about HttpServer, for any number of accept threads, workers,     *)
(* connections, panics, stops, pauses and errors.                          *)
(***************************************************************************)
EXTENDS HttpServerTracking, FiniteSetTheorems, WellFoundedInduction

USE DEF Worker, Spend, serverVars, workerVars, acceptVars

(* The search of WorkerDied for an index ends: among Len(ws) + 1 indices   *)
(* one is free, and the first free one is what NewIdx returns.             *)
LEMMA NewIdxFresh ==
  ASSUME NEW ws \in Seq(Entry)
  PROVE  NewIdx(ws) \in Nat /\ NewIdx(ws) \notin Idxs(ws)
<1> DEFINE L == Len(ws)
           I == L..2 * L
           Free == {n \in I : n \notin Idxs(ws)}
<1>1. Free # {}
  <2> SUFFICES ASSUME \A n \in I : n \in Idxs(ws) PROVE FALSE
    OBVIOUS
  <2> DEFINE f == [n \in I |-> CHOOSE i \in 1..L : ws[i].idx = n]
  <2>1. \A n \in I : f[n] \in 1..L /\ ws[f[n]].idx = n
    BY DEF Idxs
  <2>2. Cardinality(1..L) < Cardinality(I) /\ IsFiniteSet(1..L) /\ IsFiniteSet(I)
    <3> L \in Int /\ L >= 0 /\ 2 * L \in Int /\ 1 \in Int
      OBVIOUS
    <3> HIDE DEF L
    <3>1. IsFiniteSet(1..L) /\ Cardinality(1..L) = IF 1 > L THEN 0 ELSE L - 1 + 1
      BY FS_Interval
    <3>2. IsFiniteSet(I) /\ Cardinality(I) = IF L > 2 * L THEN 0 ELSE 2 * L - L + 1
      BY FS_Interval
    <3> QED BY <3>1, <3>2
  <2>3. f \in [I -> 1..L]
    BY <2>1
  <2>4. \E x, y \in I : x # y /\ f[x] = f[y]
    <3> HIDE DEF f, I, L
    <3> QED BY Zenon, <2>2, <2>3, FS_PigeonHole
  <2> QED BY <2>1, <2>4
<1>2. PICK n \in Free : \A m \in Free : n <= m
  <2> DEFINE Less == OpToRel(<, Nat)
  <2>1. Free \subseteq Nat
    OBVIOUS
  <2>2. IsWellFoundedOn(Less, Nat)
    BY Zenon, NatLessThanWellFounded
  <2>3. \A a, b \in Nat : a < b => <<a, b>> \in Less
    BY DEF OpToRel
  <2> HIDE DEF Free, Less
  <2>4. PICK n \in Free : \A m \in Free : ~(<<m, n>> \in Less)
    BY Zenon, <1>1, <2>1, <2>2, WFMin
  <2>5. ASSUME NEW m \in Free PROVE n <= m
    <3>1. n \in Nat /\ m \in Nat
      BY <2>1
    <3>2. ~(m < n)
      BY Zenon, <2>3, <2>4, <3>1
    <3> QED BY <3>1, <3>2
  <2> QED BY <2>5
<1>3. \A m \in L..n - 1 : m \in Idxs(ws)
  BY <1>2
<1> QED BY <1>2, <1>3 DEF NewIdx

(* A stop counts the dead among the finitely many workers it writes to.    *)
LEMMA MailboxCount ==
  ASSUME TypeOK
  PROVE  MailboxErrors \in Nat
<1>1. {w \in Members(workers) : ~Alive(w)} \subseteq Worker
  <2>1. \A i \in 1..Len(workers) : workers[i] \in Entry
    BY DEF TypeOK, ServerType
  <2>2. \A i \in 1..Len(workers) : workers[i].w \in Worker
    BY <2>1 DEF Entry
  <2> QED BY <2>2 DEF Members
<1>2. IsFiniteSet(Worker)
  BY ServerAssumption, FS_Interval DEF Worker
<1>3. IsFiniteSet({w \in Members(workers) : ~Alive(w)})
  BY Zenon, <1>1, <1>2, FS_Subset
<1> QED BY <1>3, FS_CardinalityType DEF MailboxErrors

-----------------------------------------------------------------------------
(* SystemExit waits for the answers of the workers.                        *)

(* At most one stop was asked for.                                         *)
StoppedOnce == MaxStops - budget["stops"] <= 1

(* The answers to StopWorker that a worker still owes, and the workers     *)
(* that owe some.                                                          *)
Mail(w) == Len(mailbox[w])
Clocks(w) == Len(timers[w])
Owes(w) == Mail(w) + Clocks(w)
Pending == {w \in Worker : Owes(w) # 0}

(* A stop is answered once by every worker it was sent to, and every       *)
(* answer takes one worker off the list: those that owe an answer, with    *)
(* the answers on their way, are no more than the workers on the list.     *)
GraceInv ==
  StoppedOnce =>
    /\ budget["stops"] = IF stopReq THEN MaxStops - 1 ELSE MaxStops
    /\ ~stopReq => Pending = {} /\ replies = 0 /\ ~exiting
    /\ \A w \in Worker : Owes(w) <= 1
    /\ Cardinality(Pending) + replies <= Len(workers)
    /\ exiting => workers = <<>>

(* There are finitely many workers.                                        *)
LEMMA PendingFinite == IsFiniteSet(Pending) /\ Cardinality(Pending) \in Nat
<1>1. IsFiniteSet(Worker)
  BY ServerAssumption, FS_Interval DEF Worker
<1>2. Pending \subseteq Worker
  BY DEF Pending
<1>3. IsFiniteSet(Pending)
  BY Zenon, <1>1, <1>2, FS_Subset
<1> QED BY <1>3, FS_CardinalityType

(* The counts of a type-correct state.                                     *)
LEMMA OwesType ==
  ASSUME TypeOK, NEW w \in Worker
  PROVE  /\ Owes(w) \in Nat /\ Mail(w) \in Nat /\ Clocks(w) \in Nat
         /\ Owes(w) = 0 => mailbox[w] = <<>> /\ timers[w] = <<>>
<1>1. mailbox[w] \in Seq(BOOLEAN) /\ timers[w] \in Seq(Nat)
  BY DEF TypeOK, WorkerType
<1>2. Mail(w) \in Nat /\ (Mail(w) = 0 => mailbox[w] = <<>>)
  BY <1>1 DEF Mail
<1>3. Clocks(w) \in Nat /\ (Clocks(w) = 0 => timers[w] = <<>>)
  BY <1>1 DEF Clocks
<1> QED BY <1>2, <1>3 DEF Owes

(* The numbers the server keeps.                                           *)
LEMMA CountsType ==
  ASSUME TypeOK
  PROVE  replies \in Nat /\ Len(workers) \in Nat /\ budget["stops"] \in Nat
<1>1. replies \in Nat /\ Len(workers) \in Nat
  BY DEF TypeOK, ServerType
<1>2. budget["stops"] \in Nat
  BY DEF TypeOK, Bounds
<1> QED BY <1>1, <1>2

(* A worker answers k of the messages it has: handling StopWorker, the end *)
(* of its shutdown timer and the end of its thread are all of this form.   *)
LEMMA GraceAnswer ==
  ASSUME TypeOK, GraceInv, NEW w \in Worker, NEW k \in Nat, Owes(w)' \in Nat,
         \A v \in Worker \ {w} : Owes(v)' = Owes(v),
         Owes(w) = Owes(w)' + k, replies' = replies + k,
         UNCHANGED <<workers, exiting, stopReq>>, budget'["stops"] = budget["stops"]
  PROVE  GraceInv'
<1> SUFFICES ASSUME StoppedOnce
             PROVE  /\ ~stopReq => Pending' = {} /\ replies' = 0
                    /\ \A v \in Worker : Owes(v)' <= 1
                    /\ Cardinality(Pending') + replies' <= Len(workers)
  BY DEF GraceInv, StoppedOnce
<1>1. /\ Owes(w) \in Nat /\ Owes(w) <= 1 /\ replies \in Nat /\ Len(workers) \in Nat
      /\ Cardinality(Pending) \in Nat
      /\ Cardinality(Pending) + replies <= Len(workers)
      /\ ~stopReq => Pending = {} /\ replies = 0
  BY OwesType, CountsType, PendingFinite DEF GraceInv
<1>2. \A v \in Worker : Owes(v)' <= 1
  BY <1>1 DEF GraceInv
<1>3. CASE k = 0
  <2>1. Owes(w)' = Owes(w) /\ replies' = replies
    BY <1>1, <1>3
  <2>2. Pending' = Pending
    BY <2>1 DEF Pending
  <2> QED BY <1>1, <1>2, <2>1, <2>2
<1>4. CASE k = 1
  <2>1. Owes(w) = 1 /\ Owes(w)' = 0 /\ replies' = replies + 1
    BY <1>1, <1>4
  <2>2. w \in Pending /\ Pending' = Pending \ {w}
    BY <2>1 DEF Pending
  <2>3. Cardinality(Pending') = Cardinality(Pending) - 1
    BY <2>2, PendingFinite, FS_RemoveElement
  <2>4. stopReq
    BY <1>1, <2>2
  <2> QED BY <1>1, <1>2, <2>1, <2>3, <2>4
<1>5. k = 0 \/ k = 1
  BY <1>1
<1> QED BY <1>3, <1>4, <1>5

(* Asking for a stop: a live worker owes an answer from now on, a dead one *)
(* has answered at once; both are among the workers of the list.           *)
LEMMA GraceStop ==
  ASSUME TypeOK, GraceInv, NEW graceful \in BOOLEAN, NEW sig \in BOOLEAN,
         StopServer(graceful, sig)
  PROVE  GraceInv'
<1> SUFFICES ASSUME StoppedOnce'
             PROVE  /\ budget'["stops"] = IF stopReq' THEN MaxStops - 1 ELSE MaxStops
                    /\ ~stopReq' => Pending' = {} /\ replies' = 0 /\ ~exiting'
                    /\ \A v \in Worker : Owes(v)' <= 1
                    /\ Cardinality(Pending') + replies' <= Len(workers')
                    /\ exiting' => workers' = <<>>
  BY DEF GraceInv
<1>1. /\ budget["stops"] > 0 /\ budget'["stops"] = budget["stops"] - 1
      /\ budget["stops"] \in Nat /\ stopReq' /\ workers' = workers /\ timers' = timers
      /\ MaxStops \in Nat
  <2>1. budget \in Bounds
    BY DEF TypeOK
  <2>2. MaxStops \in Nat
    BY ServerAssumption
  <2> QED BY <2>1, <2>2 DEF StopServer, Bounds
<1>2. ~stopReq /\ budget["stops"] = MaxStops
  <2>1. StoppedOnce
    BY <1>1 DEF StoppedOnce
  <2>2. MaxStops - (budget["stops"] - 1) <= 1
    BY <1>1 DEF StoppedOnce
  <2>3. budget["stops"] = IF stopReq THEN MaxStops - 1 ELSE MaxStops
    BY <2>1 DEF GraceInv
  <2> QED BY <1>1, <2>2, <2>3
<1>3. Pending = {} /\ replies = 0 /\ ~exiting
  BY <1>1, <1>2 DEF GraceInv, StoppedOnce
<1> DEFINE Live == {w \in Members(workers) : Alive(w)}
           Dead == {w \in Members(workers) : ~Alive(w)}
<1>4. Members(workers) \subseteq Worker /\ IsFiniteSet(Members(workers))
      /\ Cardinality(Members(workers)) <= Len(workers)
  <2>0. workers \in Seq(Entry) /\ Len(workers) \in Nat
    BY DEF TypeOK, ServerType
  <2>1. \A i \in 1..Len(workers) : workers[i] \in Entry
    BY <2>0
  <2>2. \A i \in 1..Len(workers) : workers[i].w \in Worker
    BY <2>1 DEF Entry
  <2>3. IsFiniteSet(1..Len(workers)) /\ Cardinality(1..Len(workers)) = Len(workers)
    <3> DEFINE L == Len(workers)
    <3>1. L \in Int /\ L >= 0 /\ 1 \in Int
      BY <2>0
    <3> HIDE DEF L
    <3>2. IsFiniteSet(1..L) /\ Cardinality(1..L) = IF 1 > L THEN 0 ELSE L - 1 + 1
      BY <3>1, FS_Interval
    <3>3. Cardinality(1..L) = L
      BY <3>1, <3>2
    <3> QED BY <3>2, <3>3 DEF L
  <2> DEFINE f == [i \in 1..Len(workers) |-> workers[i].w]
             D == 1..Len(workers)
  <2>4. f \in Surjection(D, Members(workers))
    BY DEF Surjection, Members
  <2> HIDE DEF f, D
  <2>5. IsFiniteSet(D) /\ Cardinality(D) = Len(workers)
    BY <2>3 DEF D
  <2>6. IsFiniteSet(Members(workers)) /\ Cardinality(Members(workers)) <= Cardinality(D)
    BY Zenon, <2>4, <2>5, FS_Surjection
  <2> QED BY <2>2, <2>5, <2>6 DEF Members
<1>5. \A w \in Worker : Owes(w)' = IF w \in Live THEN 1 ELSE 0
  <2> SUFFICES ASSUME NEW w \in Worker
               PROVE  Owes(w)' = IF w \in Live THEN 1 ELSE 0
    OBVIOUS
  <2>1. mailbox[w] = <<>> /\ timers[w] = <<>>
    <3>1. Owes(w) = 0
      BY <1>3 DEF Pending
    <3> QED BY Zenon, <3>1, OwesType
  <2>2. mailbox'[w] = IF w \in Live THEN Append(<<>>, graceful) ELSE <<>>
    BY <2>1 DEF StopServer
  <2>3. Mail(w)' = IF w \in Live THEN 1 ELSE 0
    BY <2>2 DEF Mail
  <2>4. Clocks(w)' = 0
    BY <1>1, <2>1 DEF Clocks
  <2> QED BY <2>3, <2>4 DEF Owes
<1>7. Pending' = Live
  <2>1. Live \subseteq Worker
    BY <1>4
  <2>2. \A w \in Worker : Owes(w)' # 0 <=> w \in Live
    BY <1>5
  <2> HIDE DEF Live
  <2> QED BY <2>1, <2>2 DEF Pending
<1>8. Cardinality(Live) + Cardinality(Dead) <= Len(workers)
  <2>1. IsFiniteSet(Live) /\ IsFiniteSet(Dead) /\ Live \cup Dead = Members(workers)
        /\ Live \cap Dead = {}
    <3>1. Live \subseteq Members(workers) /\ Dead \subseteq Members(workers)
      OBVIOUS
    <3> QED BY Zenon, <1>4, <3>1, FS_Subset
  <2> HIDE DEF Live, Dead
  <2>2. Cardinality(Live \cup Dead)
          = Cardinality(Live) + Cardinality(Dead) - Cardinality(Live \cap Dead)
    BY Zenon, <2>1, FS_Union
  <2>3. Cardinality(Live \cap Dead) = 0
    BY Zenon, <2>1, FS_EmptySet
  <2>4. Cardinality(Live) \in Nat /\ Cardinality(Dead) \in Nat
    BY Zenon, <2>1, FS_CardinalityType
  <2>5. Cardinality(Members(workers)) <= Len(workers)
    BY <1>4
  <2>6. Cardinality(Members(workers)) = Cardinality(Live) + Cardinality(Dead) - 0
    BY Zenon, <2>1, <2>2, <2>3
  <2> QED BY <2>4, <2>5, <2>6
<1>9. replies' = Cardinality(Dead)
  <2>1. replies' = replies + Cardinality(Dead)
    BY DEF StopServer, MailboxErrors
  <2>2. IsFiniteSet(Dead)
    BY Zenon, <1>4, Dead \subseteq Members(workers), FS_Subset
  <2>3. Cardinality(Dead) \in Nat
    BY Zenon, <2>2, FS_CardinalityType
  <2> QED BY <1>3, <2>1, <2>3
<1>10. \A v \in Worker : Owes(v)' <= 1
  BY <1>5
<1>11. exiting' => workers' = <<>>
  BY <1>1, <1>3 DEF StopServer
<1> HIDE DEF Live, Dead
<1> QED BY <1>1, <1>2, <1>7, <1>8, <1>9, <1>10, <1>11

(* No step schedules SystemExit while an answer is owed.                   *)
LEMMA GraceStep ==
  ASSUME TypeOK, GraceInv, Next
  PROVE  GraceInv'
<1>0. /\ budget \in Bounds /\ mailbox \in [Worker -> Seq(BOOLEAN)]
      /\ timers \in [Worker -> Seq(Nat)] /\ workers \in Seq(Entry) /\ replies \in Nat
  BY DEF TypeOK, WorkerType, ServerType
<1>1. ASSUME UNCHANGED <<mailbox, timers, replies, workers, exiting, stopReq>>,
             budget'["stops"] = budget["stops"]
      PROVE  GraceInv'
  BY <1>1 DEF GraceInv, StoppedOnce, Pending, Owes, Mail, Clocks
<1>2. ASSUME NEW w \in Worker, StopWorker(w)
      PROVE  GraceInv'
  <2>1. /\ mailbox[w] \in Seq(BOOLEAN) /\ timers[w] \in Seq(Nat) /\ mailbox[w] # <<>>
        /\ mailbox'[w] = Tail(mailbox[w])
    BY <1>0, <1>2 DEF StopWorker
  <2>2. Mail(w) \in Nat \ {0} /\ Clocks(w) \in Nat /\ Mail(w)' = Mail(w) - 1
    BY <2>1, TailType DEF Mail, Clocks
  <2>3. /\ \A v \in Worker \ {w} : mailbox'[v] = mailbox[v] /\ timers'[v] = timers[v]
        /\ UNCHANGED <<workers, exiting, stopReq, budget>>
    BY <1>0, <1>2 DEF StopWorker
  <2>4. \A v \in Worker \ {w} : Owes(v)' = Owes(v)
    BY <2>3 DEF Owes, Mail, Clocks
  <2>5. CASE replies' = replies + 1 /\ UNCHANGED timers
    <3>1. Clocks(w)' = Clocks(w)
      BY <2>5 DEF Clocks
    <3>2. Owes(w) = Owes(w)' + 1 /\ Owes(w)' \in Nat
      BY <2>2, <3>1 DEF Owes
    <3> QED BY <2>3, <2>4, <2>5, <3>2, GraceAnswer
  <2>6. CASE timers' = [timers EXCEPT ![w] = Append(@, ShutdownTimeout)] /\ UNCHANGED replies
    <3>1. timers'[w] = Append(timers[w], ShutdownTimeout)
      BY <1>0, <2>6
    <3>2. Clocks(w)' = Clocks(w) + 1
      BY <2>1, <3>1 DEF Clocks
    <3>3. Owes(w) = Owes(w)' + 0 /\ Owes(w)' \in Nat
      BY <2>2, <3>2 DEF Owes
    <3>4. replies' = replies + 0
      BY <1>0, <2>6
    <3> QED BY <2>3, <2>4, <3>3, <3>4, GraceAnswer
  <2> QED BY <1>2, <2>5, <2>6 DEF StopWorker
<1>3. ASSUME NEW w \in Worker, NEW i \in 1..Len(timers[w]), ShutdownTimer(w, i)
      PROVE  GraceInv'
  <2>1. timers[w] \in Seq(Nat) /\ Mail(w) \in Nat /\ Clocks(w) \in Nat
    BY Zenon, <1>0, OwesType
  <2>2. /\ \A v \in Worker \ {w} : mailbox'[v] = mailbox[v] /\ timers'[v] = timers[v]
        /\ UNCHANGED <<workers, exiting, stopReq, budget, mailbox>>
    BY <1>0, <1>3 DEF ShutdownTimer
  <2>3. Mail(w)' = Mail(w) /\ \A v \in Worker \ {w} : Owes(v)' = Owes(v)
    BY <2>2 DEF Owes, Mail, Clocks
  <2>4. CASE timers' = [timers EXCEPT ![w][i] = timers[w][i] - 1] /\ UNCHANGED replies
    <3>1. timers'[w] = [timers[w] EXCEPT ![i] = timers[w][i] - 1]
      BY <1>0, <2>4
    <3>2. Clocks(w)' = Clocks(w)
      BY <2>1, <3>1 DEF Clocks
    <3>3. Owes(w) = Owes(w)' + 0 /\ Owes(w)' \in Nat
      BY <2>1, <2>3, <3>2 DEF Owes
    <3>4. replies' = replies + 0
      BY <1>0, <2>4
    <3> QED BY <2>2, <2>3, <3>3, <3>4, GraceAnswer
  <2>5. CASE timers' = [timers EXCEPT ![w] = SwapRemove(@, i)] /\ replies' = replies + 1
    <3>1. timers'[w] = SwapRemove(timers[w], i)
      BY <1>0, <2>5
    <3>2. Clocks(w)' = Clocks(w) - 1 /\ Clocks(w)' \in Nat
      <4>1. Len(SwapRemove(timers[w], i)) = Len(timers[w]) - 1 /\ Len(timers[w]) \in Nat \ {0}
        <5>1. Len(SwapRemove(timers[w], i)) = Len(timers[w]) - 1
          BY Zenon, <2>1, SwapRemoveType
        <5>2. Len(timers[w]) \in Nat \ {0}
          BY <2>1
        <5> QED BY <5>1, <5>2
      <4> QED BY <3>1, <4>1 DEF Clocks
    <3>3. Owes(w) = Owes(w)' + 1 /\ Owes(w)' \in Nat
      BY <2>1, <2>3, <3>2 DEF Owes
    <3> QED BY <2>2, <2>3, <2>5, <3>3, GraceAnswer
  <2> QED BY <1>3, <2>4, <2>5 DEF ShutdownTimer
<1>4. ASSUME NEW w \in Worker, ThreadEnds(w), budget'["stops"] = budget["stops"]
      PROVE  GraceInv'
  <2>1. /\ \A v \in Worker \ {w} : mailbox'[v] = mailbox[v] /\ timers'[v] = timers[v]
        /\ UNCHANGED <<workers, exiting, stopReq>>
        /\ mailbox'[w] = <<>> /\ timers'[w] = <<>>
        /\ replies' = replies + Mail(w) + Clocks(w)
    BY <1>0, <1>4 DEF ThreadEnds, Mail, Clocks
  <2>2. Mail(w)' = 0 /\ Clocks(w)' = 0 /\ \A v \in Worker \ {w} : Owes(v)' = Owes(v)
    BY <2>1 DEF Owes, Mail, Clocks
  <2>3. Mail(w) \in Nat /\ Clocks(w) \in Nat
    BY Zenon, OwesType
  <2>4. Owes(w)' = 0 /\ replies' = replies + Owes(w) /\ Owes(w) \in Nat
    BY <1>0, <2>1, <2>2, <2>3 DEF Owes
  <2>5. Owes(w) = Owes(w)' + Owes(w) /\ Owes(w)' \in Nat
    BY <2>4
  <2> QED BY <1>4, <2>1, <2>2, <2>4, <2>5, GraceAnswer
<1>5. ASSUME NEW w \in Worker, StopArbiter(w)
      PROVE  GraceInv'
  BY <1>4, <1>5 DEF StopArbiter
<1>6. ASSUME NEW w \in Worker, WorkerPanics(w)
      PROVE  GraceInv'
  <2>1. budget'["stops"] = budget["stops"]
    BY <1>0, <1>6 DEF WorkerPanics, Bounds
  <2> QED BY <1>4, <1>6, <2>1 DEF WorkerPanics
<1>7. CASE StopReply
  <2>0. UNCHANGED <<budget, stopReq, mailbox, timers, exit>> /\ replies > 0
        /\ replies' = replies - 1
    BY <1>7 DEF StopReply
  <2> SUFFICES ASSUME StoppedOnce
               PROVE  /\ stopReq
                      /\ Cardinality(Pending) + replies' <= Len(workers')
                      /\ exiting' => workers' = <<>>
    BY <2>0 DEF GraceInv, StoppedOnce, Pending, Owes, Mail, Clocks
  <2>1. stopReq /\ Cardinality(Pending) \in Nat /\ Len(workers) \in Nat
        /\ Cardinality(Pending) + replies <= Len(workers)
    BY <1>0, <2>0, PendingFinite DEF GraceInv
  <2>2. workers # <<>>
    BY <1>0, <2>0, <2>1
  <2>3. workers' = SubSeq(workers, 1, Len(workers) - 1)
    BY <1>7, <2>2 DEF StopReply
  <2>4. Len(workers') = Len(workers) - 1
    BY <1>0, <2>2, <2>3, ButLast
  <2>5. exiting' => workers' = <<>>
    <3>1. ~exiting
      BY <2>2 DEF GraceInv
    <3> QED BY <1>7, <2>2, <2>3, <3>1 DEF StopReply, AllGone
  <2> QED BY <1>0, <2>0, <2>1, <2>4, <2>5
<1>8. CASE WorkerDied
  <2>0. UNCHANGED <<budget, stopReq, mailbox, timers, replies, exiting>>
    BY <1>8 DEF WorkerDied
  <2>1. Len(workers') = Len(workers) /\ (workers = <<>> => workers' = <<>>)
    <3>1. CASE workers' = workers
      BY <3>1
    <3>2. ASSUME NEW i \in 1..Len(workers), NEW e, workers' = Listed(SwapRemove(workers, i), e)
          PROVE  Len(workers') = Len(workers) /\ workers # <<>>
      <4>1. Len(SwapRemove(workers, i)) = Len(workers) - 1 /\ Len(workers) \in Nat
            /\ SwapRemove(workers, i) \in Seq(Entry)
        BY <1>0, SwapRemoveType
      <4>2. workers' = Append(SwapRemove(workers, i), e)
        BY <3>2 DEF Listed
      <4>3. Len(workers') = Len(SwapRemove(workers, i)) + 1
        BY <4>1, <4>2
      <4> QED BY <4>1, <4>3
    <3> QED BY Zenon, <1>8, <3>1, <3>2 DEF WorkerDied
  <2> QED BY <2>0, <2>1 DEF GraceInv, StoppedOnce, Pending, Owes, Mail, Clocks
<1>9. ASSUME NEW graceful \in BOOLEAN, NEW sig \in BOOLEAN, StopServer(graceful, sig)
      PROVE  GraceInv'
  BY <1>9, GraceStop
<1>10. ASSUME NEW a \in Accept, AcceptStep(a)
       PROVE  GraceInv'
  <2>1. UNCHANGED <<mailbox, timers, replies, workers, exiting, stopReq, budget>>
    BY ZenonT(30), <1>10 DEF AcceptStep, Poll, SrvEvent, AcceptStd, SendConn, CmdEvent
  <2> QED BY <1>1, <2>1
<1>11. ASSUME NEW a \in Accept, Connect(a) \/ AcceptErrorConn(a) \/ AcceptErrorLoop(a)
       PROVE  GraceInv'
  <2>1. /\ UNCHANGED <<mailbox, timers, replies, workers, exiting, stopReq>>
        /\ budget'["stops"] = budget["stops"]
    BY <1>0, <1>11 DEF Connect, AcceptErrorConn, AcceptErrorLoop, Bounds
  <2> QED BY <1>1, <2>1
<1>12. CASE PauseServer \/ ResumeServer
  <2>1. /\ UNCHANGED <<mailbox, timers, replies, workers, exiting, stopReq>>
        /\ budget'["stops"] = budget["stops"]
    BY <1>0, <1>12 DEF PauseServer, ResumeServer, Bounds
  <2> QED BY <1>1, <2>1
<1>13. ASSUME UNCHANGED <<mailbox, timers, replies, workers, exiting, stopReq, budget>>
       PROVE  GraceInv'
  BY <1>1, <1>13
<1> QED BY Zenon, <1>2, <1>3, <1>5, <1>6, <1>7, <1>8, <1>9, <1>10, <1>11, <1>12, <1>13
   DEF Next, WorkerStep, ServerStep, Environment, WorkerConn, ChannelDone, SystemExit

-----------------------------------------------------------------------------
(* The inductive invariant.                                                *)
Inv == /\ TypeOK /\ NextInv /\ CommandForEvent
       /\ DistinctIdx /\ OnlyStarted /\ Tracked
       /\ ResumeInv /\ GraceInv

(* The invariant holds when the server has started.                        *)
LEMMA InvInit == Init => Inv
<1> SUFFICES ASSUME Init PROVE Inv
  OBVIOUS
<1>1. TypeOK
  BY TypeInit
<1>2. NextInv /\ CommandForEvent
  BY DEF Init, NextInv, CommandForEvent
<1>3. /\ workers = FirstWorkers /\ Len(FirstWorkers) = Threads /\ Threads \in Nat
      /\ \A i \in 1..Threads : FirstWorkers[i] = [idx |-> i - 1, w |-> i]
  BY ServerAssumption DEF Init, FirstWorkers
<1>4. DistinctIdx /\ OnlyStarted
  BY <1>3 DEF Init, DistinctIdx, OnlyStarted
<1>5. Tracked
  BY <1>3 DEF Init, Tracked, KnownTo
<1>6. ResumeInv
  <2>1. ~paused /\ \A a \in Accept : pc[a] = "event" /\ cmds[a] = <<>>
    BY DEF Init
  <2>2. \A a \in Accept : ResumesFit(listening[a], cmds[a])
    BY <2>1 DEF ResumesFit
  <2> QED BY <2>1, <2>2 DEF ResumeInv
<1>7. GraceInv
  <2>1. MaxStops \in Nat /\ budget["stops"] = MaxStops /\ ~stopReq /\ ~exiting /\ replies = 0
    BY ServerAssumption DEF Init
  <2>2. \A w \in Worker : Owes(w) = 0
    <3> SUFFICES ASSUME NEW w \in Worker PROVE Owes(w) = 0
      OBVIOUS
    <3>1. Mail(w) = 0 /\ Clocks(w) = 0
      BY DEF Init, Mail, Clocks
    <3> QED BY <3>1 DEF Owes
  <2>3. Pending = {}
    BY <2>2 DEF Pending
  <2>4. Cardinality(Pending) = 0 /\ Len(workers) \in Nat
    BY <1>3, <2>3, FS_EmptySet
  <2> QED BY <2>1, <2>2, <2>3, <2>4 DEF GraceInv
<1> QED BY <1>1, <1>2, <1>4, <1>5, <1>6, <1>7 DEF Inv

(* Every step of the server keeps the invariant.                           *)
LEMMA InvNext == Inv /\ [Next]_vars => Inv'
<1> SUFFICES ASSUME Inv, [Next]_vars PROVE Inv'
  OBVIOUS
<1>1. CASE UNCHANGED vars
  <2>1. UNCHANGED <<serverVars, workerVars, acceptVars, budget>>
    BY <1>1 DEF vars
  <2>2. TypeOK'
    BY <2>1 DEF Inv, TypeOK, ServerType, WorkerType, AcceptType,
                serverVars, workerVars, acceptVars
  <2>3. NextInv' /\ CommandForEvent'
    BY <2>1 DEF Inv, NextInv, CommandForEvent, serverVars, workerVars, acceptVars
  <2>4. DistinctIdx' /\ OnlyStarted'
    BY <2>1 DEF Inv, DistinctIdx, OnlyStarted, serverVars, workerVars, acceptVars
  <2>5. Tracked'
    BY <2>1 DEF Inv, Tracked, KnownTo, Running, Alive, serverVars, workerVars, acceptVars
  <2>6. ResumeInv'
    BY <2>1 DEF Inv, ResumeInv, Running, serverVars, workerVars, acceptVars
  <2>7. GraceInv'
    BY <2>1 DEF Inv, GraceInv, StoppedOnce, Pending, Owes, Mail, Clocks,
                serverVars, workerVars, acceptVars
  <2> QED BY <2>2, <2>3, <2>4, <2>5, <2>6, <2>7 DEF Inv
<1>2. CASE Next
  <2>1. NextInRange
    BY NextInvRange DEF Inv
  <2>0. IndexFound /\ MailboxErrors \in Nat
    BY NewIdxFresh, MailboxCount DEF IndexFound, Inv
  <2>2. TypeOK'
    BY <1>2, <2>0, <2>1, TypeAccept, TypeWorker, TypeServer DEF Inv, Next, Environment
  <2>3. NextInv' /\ CommandForEvent' /\ DistinctIdx' /\ OnlyStarted' /\ Tracked'
    BY <1>2, <2>0, <2>1, NextStep, CommandStep, WorkersStep, TrackedStep DEF Inv
  <2>4. ResumeInv' /\ GraceInv'
    BY <1>2, <2>0, ResumeStep, GraceStep DEF Inv
  <2> QED BY <2>2, <2>3, <2>4 DEF Inv
<1> QED BY <1>1, <1>2

(* The invariant holds in every state of every behaviour of the server.    *)
THEOREM Invariance == Spec => []Inv
<1>1. Inv /\ [Next]_vars => Inv'
  BY InvNext
<1> QED BY InvInit, <1>1, PTL DEF Spec

(* Every variable of the server, the workers and the accept threads keeps  *)
(* its type.                                                               *)
THEOREM TypeCorrect == Spec => []TypeOK
<1>1. Inv => TypeOK
  BY DEF Inv
<1> QED BY Invariance, <1>1, PTL

(* The accept loop never indexes past the end of its list of workers.      *)
THEOREM RoundRobinInRange == Spec => []NextInRange
<1>1. Inv => NextInRange
  BY NextInvRange DEF Inv
<1> QED BY Invariance, <1>1, PTL

(* WorkerDied(idx) never has two workers to choose from.                   *)
THEOREM IndexUnique == Spec => []DistinctIdx
<1>1. Inv => DistinctIdx
  BY DEF Inv
<1> QED BY Invariance, <1>1, PTL

(* try_recv of a CMD event always finds a command.                         *)
THEOREM CommandFound == Spec => []CommandForEvent
<1>1. Inv => CommandForEvent
  BY DEF Inv
<1> QED BY Invariance, <1>1, PTL

(* No worker of the server is forgotten by a running accept thread, and no *)
(* death that a thread has noticed is lost on its way to the server.       *)
THEOREM WorkersTracked == Spec => []Tracked
<1>1. Inv => Tracked
  BY DEF Inv
<1> QED BY Invariance, <1>1, PTL

(* The server and its accept threads do not index out of range, do not     *)
(* poll an empty channel, do not mix two workers up, and bind a listener a *)
(* second time only if ResumeServer was sent to a server not paused.       *)
THEOREM NoThreadPanics == Spec => []NothingPanics
<1>1. Inv => PanicOnlyIfMisused
  BY DEF Inv, ResumeInv, PanicOnlyIfMisused, TypeOK, ServerType
<1>2. Inv => NothingPanics
  BY <1>1, NextInvRange DEF Inv, NothingPanics
<1> QED BY Invariance, <1>2, PTL

(* As long as at most one stop was asked for, the system is not told to    *)
(* exit while a worker has not answered it: whatever workers died, were    *)
(* replaced or ran out of time, their answers were all counted.            *)
THEOREM GraceKept == Spec => [](StoppedOnce => ExitAfterGrace)
<1>1. Inv => (StoppedOnce => ExitAfterGrace)
  <2> SUFFICES ASSUME Inv, StoppedOnce, exiting, NEW w \in Worker
               PROVE  timers[w] = <<>> /\ mailbox[w] = <<>>
    BY DEF ExitAfterGrace
  <2>1. TypeOK /\ workers = <<>> /\ Cardinality(Pending) + replies <= Len(workers)
    BY DEF Inv, GraceInv
  <2>2. Cardinality(Pending) = 0
    BY <2>1, CountsType, PendingFinite
  <2>3. Pending = {}
    BY Zenon, <2>2, PendingFinite, FS_EmptySet
  <2>4. Owes(w) = 0
    BY <2>3 DEF Pending
  <2> QED BY Zenon, <2>1, <2>4, OwesType
<1> QED BY Invariance, <1>1, PTL
=============================================================================
