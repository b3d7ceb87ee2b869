---------------------------- MODULE ClientConnector ---------------------------
(***************************************************************************)
(* The connection pool of the HTTP client (client/connector.rs): the actor *)
(* ClientConnector with its future Maintenance, the Pool through which     *)
(* connections come back, and the clients that use them.                   *)
(*                                                                         *)
(* Clients and actor run in one thread.  A poll of the actor's context     *)
(* handles messages and timers (ctx = "running") and then Maintenance,     *)
(* which goes through the waiters one by one; no client runs in between.   *)
(* A wake-up that has not led to a poll yet is ctx = "notified".           *)
(*                                                                         *)
(* Time passes in units; a unit waits for the actor and for the timers     *)
(* that are due, so it is longer than any handler.  The code only uses     *)
(* differences of instants: an instant in the past is modelled by its age  *)
(* and one in the future by the time left.                                 *)
(*                                                                         *)
(* A request is the number of its message, and a Connection is [id, key,   *)
(* age], with the number of the request it was opened for as id.           *)
(***************************************************************************)
EXTENDS Integers, Sequences, FiniteSets, TLC

CONSTANTS
  Keys,          \* endpoints (host, port, ssl)
  Schemes,       \* subset of {"http", "ws", "invalid"} that requests have
  Limits, LimitsPerHost,  \* values of limit and limit_per_host; 0 is no limit
  KeepAlive, Lifetime,  \* conn_keep_alive, conn_lifetime
  Period,        \* the second between two calls of collect_periodic
  Waits,         \* wait_timeout of a request
  Pauses,        \* durations of a pause; 0 is a pause without an end
  MaxMessages    \* bound: messages Connect and Pause

ASSUME ConnectorAssumption ==
  /\ Limits \subseteq Nat /\ LimitsPerHost \subseteq Nat /\ KeepAlive \in Nat /\ Lifetime \in Nat
  /\ Period \in Nat \ {0} /\ Waits \subseteq Nat \ {0} /\ Pauses \subseteq Nat
  /\ MaxMessages \in Nat
  /\ Schemes \subseteq {"http", "ws", "invalid"}

VARIABLES
  act,     \* the fields of ClientConnector, see TypeOK
  pool,    \* Pool: keys, to_close, to_release and modified
  req,     \* the requests: status, and as long as it matters the key, the
           \* Connection and whether AcquiredConn.1 is Some(_)
  ctx,     \* the task of the actor: "idle", "notified" or "running"
  todo,    \* the keys whose waiters Maintenance has still to look at
  turn,    \* the one it is at, if any
  nextCollect   \* time left until the timer of collect_periodic fires

vars == <<act, pool, req, ctx, todo, turn, nextCollect>>

Ids == 1 .. MaxMessages

(* A pause or a timer is the time left, or one of these.                   *)
NoPause == -1
Forever == -2
NoTimer == -1
Fired == -2

EmptyPool == [keys |-> <<>>, close |-> <<>>, release |-> <<>>, modified |-> FALSE]

Init ==
  /\ \E l \in Limits, h \in LimitsPerHost :
       act = [limit |-> l, limitPerHost |-> h, acquired |-> 0,
              perHost |-> [k \in Keys |-> 0],
              available |-> [k \in Keys |-> <<>>], toClose |-> {},
              waiters |-> [k \in Keys |-> <<>>],
              timeout |-> NoTimer, paused |-> NoPause]
  /\ pool = EmptyPool
  /\ req = [r \in Ids |-> [status |-> "new"]]
  /\ ctx = "idle" /\ todo = {} /\ turn = {} /\ nextCollect = Period

-------------------------------------------------------------------------------
(* acquire and release_key.  acquired_per_host has no entry that is 0.     *)

HostAtLimit(a, k) == a.limitPerHost > 0 /\ a.perHost[k] > 0 /\ a.limitPerHost >= a.perHost[k]

AtLimit(a, k) == (a.limit > 0 /\ a.acquired >= a.limit) \/ HostAtLimit(a, k)

Stale(e) == e.idle > KeepAlive \/ e.conn.age > Lifetime

(* a connection is looked at and not taken out                             *)
AcquireKeeps(a, k, i, closed) == [a EXCEPT !.acquired = @ + 1, !.perHost[k] = @ + 1]

(* acquire when the limits allow it.  i is the index of the connection     *)
(* released last that can be used, or 0: it is not stale and a read from   *)
(* it returns nothing.  Those behind it are popped; closed are the indices *)
(* of those to close, which are stale or had data.  The others are         *)
(* dropped: their peer has closed them.                                    *)
CanAcquire(a, k, i, closed) ==
  LET conns == a.available[k] IN
  /\ i \in 0 .. Len(conns) /\ closed \subseteq (i + 1) .. Len(conns)
  /\ i # 0 => ~Stale(conns[i])
  /\ \A j \in (i + 1) .. Len(conns) : Stale(conns[j]) => j \in closed
Acquire(a, k, i, closed) ==
  [a EXCEPT !.acquired = @ + 1, !.perHost[k] = @ + 1,
            !.available[k] = SubSeq(@, 1, IF i = 0 THEN 0 ELSE i - 1),
            !.toClose = @ \cup {a.available[k][j].conn.id : j \in closed}]

(* release_key for the users of the keys that have come back               *)
InKeys(k) == {i \in DOMAIN pool.keys : pool.keys[i] = k}
InClose(k) == {i \in DOMAIN pool.close : pool.close[i].key = k}
InRelease(k) == {i \in DOMAIN pool.release : pool.release[i].key = k}
Returned(k) == Cardinality(InKeys(k)) + Cardinality(InClose(k)) + Cardinality(InRelease(k))
AllReturned == Len(pool.keys) + Len(pool.close) + Len(pool.release)

ReleaseKeys(a) ==
  [a EXCEPT !.acquired = @ - AllReturned,
            !.perHost = [k \in Keys |-> IF @[k] > Returned(k) THEN @[k] - Returned(k) ELSE 0]]

-------------------------------------------------------------------------------
(* collect, collect_waiters and install_wait_timeout                       *)

(* The n-th number of a set, and what a sequence has at the places of a    *)
(* set, in its order.                                                      *)
Nth(S, n) == CHOOSE j \in S : Cardinality({h \in S : h <= j}) = n
Only(s, S) == [n \in 1 .. Cardinality(S) |-> s[Nth(S, n)]]

(* What has come back and may be used again, in the order it came back.    *)
Young(k) == {i \in InRelease(k) : pool.release[i].age < Lifetime}
Back(k) == Only([i \in DOMAIN pool.release |-> [conn |-> pool.release[i], idle |-> 0]], Young(k))

CollectPool(a) ==
  [ReleaseKeys(a) EXCEPT
     !.toClose = @ \cup {pool.close[i].id : i \in DOMAIN pool.close},
     !.available = [k \in Keys |-> @[k] \o Back(k)]]

(* the check of keep-alive: from the front, up to the first that is fresh  *)
FromFresh(conns) == {j \in DOMAIN conns : \E i \in 1 .. j : ~Stale(conns[i])}
CollectIdle(a) ==
  [a EXCEPT
     !.available = [k \in Keys |-> Only(@[k], FromFresh(@[k]))],
     !.toClose = @ \cup UNION {{a.available[k][j].conn.id :
                                j \in DOMAIN a.available[k] \ FromFresh(a.available[k])} : k \in Keys}]

Collect(a) == CollectIdle(IF pool.modified THEN CollectPool(a) ELSE a)

CollectIfModified(a) == IF pool.modified THEN Collect(a) ELSE a

(* The instant of a timer that has fired is in the past.                   *)
InstallWaitTimeout(a, time) ==
  IF a.timeout = Fired \/ (a.timeout # NoTimer /\ a.timeout < time) THEN a
  ELSE [a EXCEPT !.timeout = time]

(* swap_remove_back at every index whose waiter is due: the places of      *)
(* those among the first are taken by the others from the back.            *)
RemoveDue(ws) ==
  LET kept == {i \in DOMAIN ws : ws[i].left > 0}
      holes == (1 .. Cardinality(kept)) \ kept
      back == kept \ 1 .. Cardinality(kept)
      from(i) == Nth(back, Cardinality({h \in holes : h >= i}))
  IN [i \in 1 .. Cardinality(kept) |-> ws[IF i \in kept THEN i ELSE from(i)]]

CollectWaiters(a) ==
  LET left == [k \in Keys |-> RemoveDue(a.waiters[k])]
      times == UNION {{left[k][i].left : i \in DOMAIN left[k]} : k \in Keys}
      b == [a EXCEPT !.waiters = left]
  IN \/ times = {} /\ act' = b
     \/ \E t \in times : (\A u \in times : t <= u) /\ act' = InstallWaitTimeout(b, t)

-------------------------------------------------------------------------------
(* The handlers of Connect, Pause and Resume                               *)

IsNext(r) == req[r].status = "new" /\ \A q \in 1 .. r - 1 : req[q].status # "new"

(* Maintenance is done with the waiters before the actor goes on.          *)
Running == todo = {} /\ ctx' = "running" /\ UNCHANGED <<todo, turn>>

NewPool == IF pool.modified THEN EmptyPool ELSE pool

WaitFor(a, r, k, wait) ==
  LET b == InstallWaitTimeout(a, wait)
  IN /\ act' = [b EXCEPT !.waiters[k] = Append(@, [req |-> r, left |-> wait])]
     /\ req' = [req EXCEPT ![r] = [status |-> "waiting", key |-> k]]

Connecting(k, pooled) == [status |-> "connecting", key |-> k, pooled |-> pooled]
Held(k, pooled, conn) == [status |-> "held", key |-> k, pooled |-> pooled, conn |-> conn]

(* A request takes what acquire found, or starts to connect.               *)
Taken(a, k, i) == IF i = 0 THEN Connecting(k, TRUE) ELSE Held(k, TRUE, a.available[k][i].conn)
Take(a, r, k) ==
  \E i \in 0 .. Len(a.available[k]) : \E closed \in SUBSET ((i + 1) .. Len(a.available[k])) :
    /\ CanAcquire(a, k, i, closed)
    /\ act' = Acquire(a, k, i, closed)
    /\ req' = [req EXCEPT ![r] = Taken(a, k, i)]

AcquireFor(a, r, k, wait) ==
  \/ AtLimit(a, k) /\ WaitFor(a, r, k, wait)
  \/ ~AtLimit(a, k) /\ Take(a, r, k)

Ended == [status |-> "ended"]

Connect(r, k, scheme, wait) ==
  LET a == CollectIfModified(act) IN
  /\ IsNext(r)
  /\ \/ scheme = "invalid" /\ act' = a /\ req' = [req EXCEPT ![r] = Ended]
     \/ scheme # "invalid" /\ a.paused # NoPause /\ WaitFor(a, r, k, wait)
     \/ scheme = "http" /\ a.paused = NoPause /\ AcquireFor(a, r, k, wait)
     \/ scheme = "ws" /\ a.paused = NoPause /\ act' = a /\ req' = [req EXCEPT ![r] = Connecting(k, FALSE)]
  /\ pool' = NewPool
  /\ Running
  /\ UNCHANGED nextCollect

Pause(r, time) ==
  /\ IsNext(r)
  /\ act' = [act EXCEPT !.paused =
               IF time > 0 THEN time ELSE IF @ = NoPause THEN Forever ELSE @]
  /\ req' = [req EXCEPT ![r] = Ended]
  /\ Running
  /\ UNCHANGED <<pool, nextCollect>>

(* Without a pause the handler changes nothing.                            *)
Resume ==
  /\ act.paused # NoPause
  /\ act' = [act EXCEPT !.paused = NoPause]
  /\ Running
  /\ UNCHANGED <<pool, req, nextCollect>>

-------------------------------------------------------------------------------
(* Maintenance::poll: up to the loop over the waiters, and what the loop   *)
(* does with one of them.  The order of a HashMap is any order.            *)

Due(r) == \E k \in Keys : \E i \in DOMAIN act.waiters[k] :
            act.waiters[k][i].req = r /\ act.waiters[k][i].left <= 0

Maintenance ==
  LET awake == [act EXCEPT !.paused = IF @ = 0 THEN NoPause ELSE @] IN
  /\ ctx \in {"notified", "running"} /\ todo = {}
  /\ CollectWaiters(CollectIfModified(awake))
  /\ req' = [r \in Ids |-> IF req[r].status = "waiting" /\ Due(r) THEN Ended ELSE req[r]]
  /\ pool' = NewPool
  /\ todo' = {k \in Keys : act'.waiters[k] # <<>>}
  /\ ctx' = IF todo' = {} THEN "idle" ELSE "running"
  /\ UNCHANGED <<turn, nextCollect>>

(* The loop goes on with the waiters of k, or is done with them.           *)
Goes(k) == turn' = {k} /\ UNCHANGED <<todo, ctx>>
Breaks(k) ==
  /\ todo' = todo \ {k} /\ turn' = {}
  /\ ctx' = IF todo' = {} THEN "idle" ELSE ctx
Loops(k) == IF act'.waiters[k] = <<>> THEN Breaks(k) ELSE Goes(k)

Popped(k) == [act EXCEPT !.waiters[k] = Tail(@)]

(* a request that was given up ends the loop                               *)
ServeOneBreaks(k) ==
  LET r == Head(act.waiters[k]).req IN
  /\ k \in todo /\ turn \subseteq {k}
  /\ \/ req[r].status # "waiting" /\ act' = Popped(k) /\ UNCHANGED req /\ Breaks(k)
     \/ req[r].status = "waiting" /\ ~AtLimit(act, k) /\ Take(Popped(k), r, k) /\ Loops(k)
     \/ req[r].status = "waiting" /\ AtLimit(act, k) /\ UNCHANGED <<act, req>> /\ Breaks(k)
  /\ UNCHANGED <<pool, nextCollect>>

ServeOne(k) ==
  LET r == Head(act.waiters[k]).req IN
  /\ k \in todo /\ turn \subseteq {k}
  /\ \/ req[r].status # "waiting" /\ act' = Popped(k) /\ UNCHANGED req /\ Loops(k)
     \/ req[r].status = "waiting" /\ ~AtLimit(act, k) /\ Take(Popped(k), r, k) /\ Loops(k)
     \/ req[r].status = "waiting" /\ AtLimit(act, k) /\ UNCHANGED <<act, req>> /\ Breaks(k)
  /\ UNCHANGED <<pool, nextCollect>>

-------------------------------------------------------------------------------
(* What comes back through the Pool                                        *)

Woken == IF ctx = "idle" THEN "notified" ELSE ctx

(* Drop for AcquiredConn                                                   *)
ReleaseKey(r) ==
  IF req[r].pooled THEN [pool EXCEPT !.keys = Append(@, req[r].key), !.modified = TRUE] ELSE pool

(* A connect future is done.  The connection of a request that has been    *)
(* given up is dropped with the answer.                                    *)
Connected(r) ==
  /\ req[r].status \in {"connecting", "abandoned"}
  /\ \/ /\ req[r].status = "connecting"
        /\ req' = [req EXCEPT ![r] = Held(@.key, @.pooled, [id |-> r, key |-> @.key, age |-> 0])]
        /\ UNCHANGED pool
     \/ /\ req[r].status = "abandoned"
        /\ req' = [req EXCEPT ![r] = Ended]
        /\ pool' = ReleaseKey(r)
  /\ Running
  /\ UNCHANGED <<act, nextCollect>>

(* the key of a request that could not connect is not released             *)
ConnectFailedLeaks(r) ==
  /\ req[r].status \in {"connecting", "abandoned"}
  /\ req' = [req EXCEPT ![r] = Ended]
  /\ Running
  /\ UNCHANGED <<act, pool, nextCollect>>

ConnectFailed(r) ==
  /\ req[r].status \in {"connecting", "abandoned"}
  /\ req' = [req EXCEPT ![r] = Ended]
  /\ pool' = ReleaseKey(r)
  /\ Running
  /\ UNCHANGED <<act, nextCollect>>

(* Connection::release, Connection::close, and a connection that is dropped *)
Return(r, newPool) ==
  /\ req' = [req EXCEPT ![r] = Ended]
  /\ pool' = IF req[r].pooled THEN newPool ELSE pool
  /\ ctx' = IF req[r].pooled THEN Woken ELSE ctx
  /\ UNCHANGED <<act, todo, turn, nextCollect>>

HeldBy(r) == ctx # "running" /\ req[r].status = "held"

Release(r) ==
  HeldBy(r) /\ Return(r, [pool EXCEPT !.release = Append(@, req[r].conn), !.modified = TRUE])

Close(r) ==
  HeldBy(r) /\ Return(r, [pool EXCEPT !.close = Append(@, req[r].conn), !.modified = TRUE])

DropConn(r) == HeldBy(r) /\ Return(r, ReleaseKey(r))

(* A client gives up before it has an answer.                              *)
GiveUp(r) ==
  /\ ctx # "running"
  /\ \/ req[r].status = "waiting" /\ req' = [req EXCEPT ![r] = Ended]
     \/ req[r].status = "connecting" /\ req' = [req EXCEPT ![r] = [status |-> "abandoned", key |-> @.key, pooled |-> @.pooled]]
  /\ UNCHANGED <<act, pool, ctx, todo, turn, nextCollect>>

-------------------------------------------------------------------------------
(* Timers and the clock                                                    *)

(* the timer is not set again                                              *)
PeriodicOnce ==
  /\ nextCollect = 0
  /\ act' = Collect(act)
  /\ pool' = NewPool
  /\ nextCollect' = -1
  /\ Running
  /\ UNCHANGED req

(* collect_periodic; shutdown of some connections is not done yet          *)
Periodic ==
  LET a == Collect(act) IN
  /\ nextCollect = 0
  /\ \E closing \in SUBSET a.toClose : act' = [a EXCEPT !.toClose = closing]
  /\ pool' = NewPool
  /\ nextCollect' = Period
  /\ Running
  /\ UNCHANGED req

(* The timer stays in wait_timeout after it has fired.                     *)
WaitTimer ==
  /\ act.timeout = 0
  /\ act' = [act EXCEPT !.timeout = Fired]
  /\ Running
  /\ UNCHANGED <<pool, req, nextCollect>>

PauseTimer ==
  /\ act.paused = 0
  /\ Running
  /\ UNCHANGED <<act, pool, req, nextCollect>>

TimerDue == nextCollect = 0 \/ act.paused = 0 \/ act.timeout = 0

Older(c) == [c EXCEPT !.age = IF @ > Lifetime THEN @ ELSE @ + 1]

Tick ==
  /\ ctx = "idle" /\ ~TimerDue
  /\ act' = [act EXCEPT
       !.available = [k \in Keys |-> [i \in DOMAIN @[k] |->
                        [conn |-> Older(@[k][i].conn), idle |-> @[k][i].idle + 1]]],
       !.waiters = [k \in Keys |-> [i \in DOMAIN @[k] |->
                        [req |-> @[k][i].req, left |-> @[k][i].left - 1]]],
       !.timeout = IF @ > 0 THEN @ - 1 ELSE @, !.paused = IF @ > 0 THEN @ - 1 ELSE @]
  /\ req' = [r \in Ids |-> IF req[r].status = "held"
                           THEN Held(req[r].key, req[r].pooled, Older(req[r].conn)) ELSE req[r]]
  /\ nextCollect' = nextCollect - 1
  /\ UNCHANGED <<pool, ctx, todo, turn>>

Next ==
  \/ \E r \in Ids, k \in Keys, s \in Schemes, w \in Waits : Connect(r, k, s, w)
  \/ \E r \in Ids, t \in Pauses : Pause(r, t)
  \/ Resume
  \/ Maintenance \/ \E k \in Keys : ServeOne(k)
  \/ \E r \in Ids : Connected(r) \/ ConnectFailed(r)
  \/ \E r \in Ids : Release(r) \/ Close(r) \/ DropConn(r) \/ GiveUp(r)
  \/ Periodic \/ WaitTimer \/ PauseTimer \/ Tick

Spec == Init /\ [][Next]_vars

KeySymmetry == Permutations(Keys)

-------------------------------------------------------------------------------
AllUsers == {r \in Ids : req[r].status \in {"connecting", "abandoned", "held"} /\ req[r].pooled}
Users(k) == {r \in AllUsers : req[r].key = k}

Conns == [id : Ids, key : Keys, age : 0 .. Lifetime + 1]

Waiting(k) == {i \in DOMAIN act.waiters[k] : req[act.waiters[k][i].req].status = "waiting"}

(* Types.  acquired is a usize: release_key never subtracts from 0.  The   *)
(* lists of the Pool are empty when modified is not set, so that collect   *)
(* never leaves something behind.                                          *)
TypeOK ==
  /\ act.acquired \in Nat /\ act.perHost \in [Keys -> Nat] /\ act.toClose \subseteq Ids
  /\ \A k \in Keys :
       /\ act.available[k] \in Seq([conn : Conns, idle : Nat])
       /\ act.waiters[k] \in Seq([req : Ids, left : Int])
  /\ act.timeout \in Nat \cup {NoTimer, Fired} /\ act.paused \in Nat \cup {NoPause, Forever}
  /\ pool.modified \in BOOLEAN /\ (~pool.modified => pool = EmptyPool)
  /\ pool.keys \in Seq(Keys) /\ pool.close \in Seq(Conns) /\ pool.release \in Seq(Conns)
  /\ \A r \in Ids :
       req[r].status \in {"new", "waiting", "connecting", "abandoned", "held", "ended"}
  /\ ctx \in {"idle", "notified", "running"} /\ turn \subseteq todo /\ todo \subseteq Keys
  /\ nextCollect \in 0 .. Period

(* Types aside, the counters of reserve and release_key agree with what is *)
(* in use, for every end a request can have (an error, a dropped request, a *)
(* released, closed or dropped connection): none is leaked or freed twice, *)
(* and limit and limit_per_host, which are compared with them, are never   *)
(* exceeded by connections that are used or being opened for the pool.     *)
Accounting ==
  /\ TypeOK
  /\ \A k \in Keys : act.perHost[k] = Cardinality(Users(k)) + Returned(k)
  /\ act.acquired = Cardinality(AllUsers) + AllReturned
  /\ act.limit > 0 => Cardinality(AllUsers) <= act.limit
  /\ act.limitPerHost > 0 => \A k \in Keys : Cardinality(Users(k)) <= act.limitPerHost

(* Where a connection is: used by a request or opened for it, on its way   *)
(* back, in the queue of available ones or about to be closed.             *)
Uses(r, c) ==
  \/ r = c /\ req[r].status \in {"connecting", "abandoned"}
  \/ req[r].status = "held" /\ req[r].conn.id = c

UsedAt(c) == {<<"used", r>> : r \in {x \in Ids : Uses(x, c)}}

ListedAt(c) ==
  {<<"close", i>> : i \in {j \in DOMAIN pool.close : pool.close[j].id = c}}
  \cup {<<"release", i>> : i \in {j \in DOMAIN pool.release : pool.release[j].id = c}}

IdleAt(c) ==
  UNION {{<<"idle", k, i>> : i \in {j \in DOMAIN act.available[k] : act.available[k][j].conn.id = c}} : k \in Keys}

ClosingAt(c) == {<<"toClose">> : x \in act.toClose \cap {c}}

Places(c) == UsedAt(c) \cup ListedAt(c) \cup IdleAt(c) \cup ClosingAt(c)

(* A connection is in one place.                                           *)
SoleOwner == \A c \in Ids : \A p, q \in Places(c) : p = q

(* Nothing is kept longer than it was configured for and one period: an    *)
(* idle connection, although its queue is checked from the front only, and *)
(* a request that waits, although a wait timer that has fired is never     *)
(* installed again.                                                        *)
InTime ==
  \A k \in Keys :
     /\ \A i \in DOMAIN act.available[k] : act.available[k][i].idle <= KeepAlive + Period
     /\ \A i \in Waiting(k) : act.waiters[k][i].left >= -Period

(* When the connector sleeps, whoever waits has somebody to wait for: the  *)
(* pool is full, or its endpoint is in use under limit_per_host.  Every    *)
(* connection that comes back wakes Maintenance, and Maintenance serves    *)
(* all waiters it can, past those that gave up; so no waiter depends on a  *)
(* timer.  That holds during a pause too, since Maintenance does not look  *)
(* at it: Pause, of which connector.rs:89 says that all requests enter the *)
(* wait state, keeps nobody waiting beyond the poll it arrives in.         *)
NobodyStranded ==
  ctx = "idle" => \A k \in Keys : Waiting(k) # {} =>
    \/ act.limit > 0 /\ Cardinality(AllUsers) >= act.limit
    \/ act.limitPerHost > 0 /\ Users(k) # {}

(* What the setters promise of the limits, "total number of simultaneous   *)
(* connections" and "to the same endpoint" (connector.rs:327, 336): a      *)
(* request waits only when one of them is reached.  acquire compares       *)
(* limit_per_host the wrong way round (connector.rs:378, 385), so that one *)
(* connection to an endpoint makes the others wait whatever the limit is.  *)
WaitOnlyAtLimit ==
  ctx = "idle" => \A k \in Keys : Waiting(k) # {} =>
    \/ act.limit > 0 /\ Cardinality(AllUsers) >= act.limit
    \/ act.limitPerHost > 0 /\ Cardinality(Users(k)) >= act.limitPerHost
===============================================================================
