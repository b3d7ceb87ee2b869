---------------------------- MODULE RequestProofs -----------------------------
(***************************************************************************)
(* Proofs about Channel, for any set of connections, finite or not, and    *)
(* any length of the preface and of what a connection brings; about Pools, *)
(* for any set of objects, any capacity and any number of handles; and     *)
(* about Compose, for any number of middlewares.                           *)
(***************************************************************************)
EXTENDS MCServing, FiniteSetTheorems, TLAPS

-----------------------------------------------------------------------------
Open == {c \in Conns : proto[c] \in {"Unknown", "H1", "H2"}}

(* The count is right only together with the fact that finitely many       *)
(* connections are open; what is not linked yet has read nothing and       *)
(* waits for nothing.                                                      *)
CInv ==
  /\ proto \in [Conns -> {"none", "Unknown", "H1", "H2", "gone"}]
  /\ secure \in [Conns -> BOOLEAN] /\ good \in [Conns -> Int]
  /\ socket \in [Conns -> Nat] /\ buf \in [Conns -> Nat]
  /\ waiting \in [Conns -> BOOLEAN] /\ woken \in [Conns -> BOOLEAN]
  /\ IsFiniteSet(Open) /\ channels = Cardinality(Open)
  /\ \A c \in Conns : /\ proto[c] = "none" => buf[c] = 0 /\ socket[c] = 0
                      /\ socket[c] + buf[c] <= MaxBytes

(* A channel that is opened adds one to the open ones; one that ends takes *)
(* one away; remove_channel never finds the count at zero.                 *)
LEMMA OpenCount ==
  ASSUME CInv, NEW c \in Conns, NEW k \in {"none", "Unknown", "H1", "H2", "gone"},
         proto' = [proto EXCEPT ![c] = k]
  PROVE  /\ IsFiniteSet(Open') /\ Cardinality(Open) \in Nat
         /\ c \notin Open /\ k \in {"Unknown", "H1", "H2"} => Cardinality(Open') = Cardinality(Open) + 1
         /\ c \in Open /\ k \in {"none", "gone"} => /\ Cardinality(Open') = Cardinality(Open) - 1
                                                    /\ Cardinality(Open) > 0
         /\ c \in Open /\ k \in {"Unknown", "H1", "H2"} => Cardinality(Open') = Cardinality(Open)
<1>1. IsFiniteSet(Open) /\ Cardinality(Open) \in Nat
  BY FS_CardinalityType DEF CInv
<1>2. /\ IsFiniteSet(Open \cup {c})
      /\ Cardinality(Open \cup {c}) = IF c \in Open THEN Cardinality(Open) ELSE Cardinality(Open) + 1
  BY <1>1, FS_AddElement
<1>3. /\ IsFiniteSet(Open \ {c})
      /\ Cardinality(Open \ {c}) = IF c \in Open THEN Cardinality(Open) - 1 ELSE Cardinality(Open)
  BY <1>1, FS_RemoveElement
<1>4. Cardinality(Open \ {c}) \in Nat
  BY <1>3, FS_CardinalityType
<1>5. Open' = IF k \in {"Unknown", "H1", "H2"} THEN Open \cup {c} ELSE Open \ {c}
  BY DEF Open, CInv
<1> QED BY <1>1, <1>2, <1>3, <1>4, <1>5

(* No channel is open at first.                                            *)
LEMMA InitInv == ASSUME C!Init PROVE CInv
<1>1. Open = {} /\ IsFiniteSet({}) /\ Cardinality({}) = 0
  BY FS_EmptySet DEF C!Init, Open
<1> QED BY <1>1, ChannelAssumption DEF C!Init, CInv

(* remove_channel with what it does to the count.                          *)
LEMMA RemoveInv ==
  ASSUME CInv, NEW c \in Conns, c \in Open, C!Remove(c)
  PROVE  /\ IsFiniteSet(Open') /\ channels' = Cardinality(Open')
         /\ proto' \in [Conns -> {"none", "Unknown", "H1", "H2", "gone"}] /\ proto' = [proto EXCEPT ![c] = "gone"]
<1>1. proto' = [proto EXCEPT ![c] = "gone"]
  BY DEF C!Remove
<1> QED BY <1>1, OpenCount DEF C!Remove, CInv

(* Every step of every connection keeps the invariant.                     *)
LEMMA StepInv == ASSUME CInv, [C!Next]_(C!vars) PROVE CInv'
<1>1. ASSUME NEW c \in Conns, C!New(c) PROVE CInv'
  <2>1. PICK h \in BOOLEAN : /\ proto' = [proto EXCEPT ![c] = IF h THEN "H2" ELSE "Unknown"]
                             /\ secure' = [secure EXCEPT ![c] = h]
    BY <1>1 DEF C!New
  <2>2. c \notin Open
    BY <1>1 DEF C!New, Open
  <2>3. IsFiniteSet(Open') /\ Cardinality(Open') = Cardinality(Open) + 1
    BY <2>1, <2>2, OpenCount
  <2> QED BY <1>1, <2>1, <2>3 DEF C!New, CInv
<1>2. ASSUME NEW c \in Conns, C!Arrive(c) PROVE CInv'
  <2>1. Open' = Open
    BY <1>2 DEF C!Arrive, Open
  <2>2. socket' \in [Conns -> Nat] /\ proto[c] # "none" /\ \A d \in Conns \ {c} : socket'[d] = socket[d]
    BY <1>2 DEF C!Arrive, CInv
  <2>3. \A d \in Conns : socket'[d] + buf[d] <= MaxBytes
    <3>1. socket'[c] + buf[c] <= MaxBytes
      <4>1. PICK n \in 1..(MaxBytes - socket[c] - buf[c]) : socket'[c] = socket[c] + n
        BY <1>2 DEF C!Arrive, CInv
      <4> QED BY <4>1, ChannelAssumption DEF CInv
    <3> QED BY <2>2, <3>1 DEF CInv
  <2>4. waiting' \in [Conns -> BOOLEAN] /\ woken' \in [Conns -> BOOLEAN]
    BY <1>2 DEF C!Arrive, CInv
  <2> QED BY <1>2, <2>1, <2>2, <2>3, <2>4 DEF C!Arrive, CInv
<1>3. ASSUME NEW c \in Conns, C!PollUnknown(c) PROVE CInv'
  <2>1. c \in Open
    BY <1>3 DEF C!PollUnknown, Open
  <2>2. CASE C!Remove(c) /\ UNCHANGED <<buf, socket, waiting>>
    BY <1>3, <2>1, <2>2, RemoveInv DEF C!PollUnknown, CInv
  <2>3. CASE /\ buf' = [buf EXCEPT ![c] = @ + socket[c]] /\ socket' = [socket EXCEPT ![c] = 0]
             /\ proto' = [proto EXCEPT ![c] = C!Kind(c, buf'[c])] /\ UNCHANGED channels
             /\ waiting' = [waiting EXCEPT ![c] = (socket[c] = 0) \/ proto'[c] # "Unknown"]
    <3>1. C!Kind(c, buf'[c]) \in {"Unknown", "H1", "H2"}
      BY DEF C!Kind
    <3>2. IsFiniteSet(Open') /\ Cardinality(Open') = Cardinality(Open)
      BY <2>1, <2>3, <3>1, OpenCount
    <3>3. waiting' \in [Conns -> BOOLEAN]
      BY <2>3 DEF CInv
    <3> QED BY <1>3, <2>1, <2>3, <3>1, <3>2, <3>3 DEF C!PollUnknown, CInv
  <2> QED BY <1>3, <2>2, <2>3 DEF C!PollUnknown
<1>4. ASSUME NEW c \in Conns, C!PollProtocol(c) PROVE CInv'
  <2>1. c \in Open
    BY <1>4 DEF C!PollProtocol, Open
  <2>2. CASE C!Remove(c) /\ UNCHANGED waiting
    BY <1>4, <2>1, <2>2, RemoveInv DEF C!PollProtocol, CInv
  <2>3. CASE waiting' = [waiting EXCEPT ![c] = TRUE] /\ UNCHANGED <<proto, channels>>
    <3>1. Open' = Open
      BY <2>3 DEF Open
    <3> QED BY <1>4, <2>3, <3>1 DEF C!PollProtocol, CInv
  <2> QED BY <1>4, <2>2, <2>3 DEF C!PollProtocol
<1>5. ASSUME NEW c \in Conns, C!Wake(c) PROVE CInv'
  <2>1. Open' = Open
    BY <1>5 DEF C!Wake, Open
  <2> QED BY <1>5, <2>1 DEF C!Wake, CInv
<1>6. CASE UNCHANGED C!vars
  <2>1. Open' = Open
    BY <1>6 DEF C!vars, Open
  <2> QED BY <1>6, <2>1 DEF C!vars, CInv
<1> QED BY <1>1, <1>2, <1>3, <1>4, <1>5, <1>6 DEF C!Next

(* The count of the worker's settings is the number of its open channels:  *)
(* add_channel of HttpChannel::new and remove_channel of its ends balance, *)
(* whatever the order in which connections open, settle and end.           *)
THEOREM CountKept == C!Spec => []C!CountsChannels
<1>1. CInv => C!CountsChannels
  BY DEF CInv, C!CountsChannels, Open, Cardinality, C!Cardinality
<1>2. C!Init => CInv
  BY InitInv
<1>3. CInv /\ [C!Next]_(C!vars) => CInv'
  BY StepInv
<1> QED BY <1>1, <1>2, <1>3, PTL DEF C!Spec

(* However its first bytes are cut, HttpChannel::poll takes a connection   *)
(* for HTTP/2 exactly if they are the preface.                             *)
THEOREM ProtocolRight == C!Spec => []C!RightProtocol
<1>1. C!Init => CInv
  BY InitInv
<1>2. CInv /\ [C!Next]_(C!vars) => CInv'
  BY StepInv
<1>3. C!Init => C!RightProtocol
  BY DEF C!Init, C!RightProtocol
<1>4. ASSUME CInv, CInv', C!RightProtocol, [C!Next]_(C!vars) PROVE C!RightProtocol'
  <2>1. ASSUME NEW c \in Conns, C!New(c) PROVE C!RightProtocol'
    BY <1>4, <2>1, ChannelAssumption DEF C!New, C!RightProtocol, CInv
  <2>2. ASSUME NEW c \in Conns, C!Arrive(c) PROVE C!RightProtocol'
    BY <1>4, <2>2 DEF C!Arrive, C!RightProtocol, CInv
  <2>3. ASSUME NEW c \in Conns, C!PollUnknown(c) PROVE C!RightProtocol'
    BY <1>4, <2>3, ChannelAssumption DEF C!PollUnknown, C!Remove, C!Kind, C!RightProtocol, CInv
  <2>4. ASSUME NEW c \in Conns, C!PollProtocol(c) PROVE C!RightProtocol'
    BY <1>4, <2>4, ChannelAssumption DEF C!PollProtocol, C!Remove, C!RightProtocol, CInv
  <2>5. ASSUME NEW c \in Conns, C!Wake(c) PROVE C!RightProtocol'
    BY <1>4, <2>5 DEF C!Wake, C!RightProtocol, CInv
  <2>6. CASE UNCHANGED C!vars
    BY <1>4, <2>6 DEF C!vars, C!RightProtocol
  <2> QED BY <1>4, <2>1, <2>2, <2>3, <2>4, <2>5, <2>6 DEF C!Next
<1> QED BY <1>1, <1>2, <1>3, <1>4, PTL DEF C!Spec

(* A channel of which no byte is read is scheduled, or will be by the next *)
(* byte: the reactor holds its task since the read that would have blocked.*)
THEOREM FirstBytesWake == C!Spec => []C!WokenByBytes
<1>1. C!Init => CInv
  BY InitInv
<1>2. CInv /\ [C!Next]_(C!vars) => CInv'
  BY StepInv
<1>3. C!Init => C!WokenByBytes
  BY DEF C!Init, C!WokenByBytes
<1>4. ASSUME CInv, CInv', C!WokenByBytes, [C!Next]_(C!vars) PROVE C!WokenByBytes'
  <2>1. ASSUME NEW c \in Conns, C!New(c) PROVE C!WokenByBytes'
    BY <1>4, <2>1 DEF C!New, C!WokenByBytes, CInv
  <2>2. ASSUME NEW c \in Conns, C!Arrive(c) PROVE C!WokenByBytes'
    BY <1>4, <2>2 DEF C!Arrive, C!WokenByBytes, CInv
  <2>3. ASSUME NEW c \in Conns, C!PollUnknown(c) PROVE C!WokenByBytes'
    <3>1. CASE C!Remove(c) /\ UNCHANGED <<buf, socket, waiting>>
      BY <1>4, <2>3, <3>1 DEF C!PollUnknown, C!Remove, C!WokenByBytes, CInv
    <3>2. CASE /\ buf' = [buf EXCEPT ![c] = @ + socket[c]] /\ socket' = [socket EXCEPT ![c] = 0]
               /\ proto' = [proto EXCEPT ![c] = C!Kind(c, buf'[c])]
               /\ waiting' = [waiting EXCEPT ![c] = (socket[c] = 0) \/ proto'[c] # "Unknown"]
      <4>1. buf'[c] = 0 => waiting'[c] /\ socket'[c] = 0
        <5>1. buf'[c] = 0 => socket[c] = 0
          BY <1>4, <3>2 DEF CInv
        <5>2. waiting'[c] = (socket[c] = 0 \/ proto'[c] # "Unknown") /\ socket'[c] = 0
          BY <1>4, <3>2, Zenon DEF CInv
        <5> QED BY <5>1, <5>2
      <4>2. woken' = [woken EXCEPT ![c] = FALSE]
        BY <2>3 DEF C!PollUnknown
      <4> QED BY <1>4, <3>2, <4>1, <4>2 DEF C!WokenByBytes, CInv
    <3> QED BY <2>3, <3>1, <3>2 DEF C!PollUnknown
  <2>4. ASSUME NEW c \in Conns, C!PollProtocol(c) PROVE C!WokenByBytes'
    BY <1>4, <2>4 DEF C!PollProtocol, C!Remove, C!WokenByBytes, CInv
  <2>5. ASSUME NEW c \in Conns, C!Wake(c) PROVE C!WokenByBytes'
    BY <1>4, <2>5 DEF C!Wake, C!WokenByBytes, CInv
  <2>6. CASE UNCHANGED C!vars
    BY <1>4, <2>6 DEF C!vars, C!WokenByBytes
  <2> QED BY <1>4, <2>1, <2>2, <2>3, <2>4, <2>5, <2>6 DEF C!Next
<1> QED BY <1>1, <1>2, <1>3, <1>4, PTL DEF C!Spec

(* All that is asked of the channels of a worker (HttpChannel::new, poll,  *)
(* add_channel, remove_channel), and that a connection never holds more    *)
(* bytes than have arrived.                                                *)
THEOREM ChannelsRight == C!Spec => []ChannelsServed
<1>1. CInv => C!TypeOK
  <2>1. ASSUME CInv PROVE socket \in [Conns -> 0..MaxBytes] /\ buf \in [Conns -> 0..MaxBytes]
    <3>1. \A c \in Conns : socket[c] \in 0..MaxBytes /\ buf[c] \in 0..MaxBytes
      <4> TAKE c \in Conns
      <4>1. socket[c] \in Nat /\ buf[c] \in Nat /\ socket[c] + buf[c] <= MaxBytes
        BY <2>1 DEF CInv
      <4> QED BY <4>1, ChannelAssumption
    <3> QED BY <2>1, <3>1 DEF CInv
  <2>2. ASSUME CInv PROVE channels \in Nat
    BY <2>2, FS_CardinalityType DEF CInv
  <2> QED BY <2>1, <2>2 DEF CInv, C!TypeOK
<1>2. C!Init => CInv
  BY InitInv
<1>3. CInv /\ [C!Next]_(C!vars) => CInv'
  BY StepInv
<1>4. C!TypeOK /\ C!CountsChannels /\ C!RightProtocol /\ C!WokenByBytes => ChannelsServed
  BY DEF ChannelsServed
<1> QED BY <1>1, <1>2, <1>3, <1>4, CountKept, ProtocolRight, FirstBytesWake, PTL DEF C!Spec

-----------------------------------------------------------------------------
(* What is in a pool is there once, has no handle and is stale at most     *)
(* where taking it out sets it again; what is held is stale at most in the *)
(* body its builder has not set; a builder holds an object of its own.     *)
PInv ==
  /\ pooled \in {"bytes", "message", "response"}
  /\ pool \in Seq(Objects) /\ Len(pool) <= PoolSize /\ refs \in [Objects -> 0..MaxRefs]
  /\ stale \in [Objects -> SUBSET O!Fields(pooled)] /\ used \in [Objects -> SUBSET O!Fields(pooled)]
  /\ builder \subseteq [object : Objects, err : BOOLEAN]
  /\ builder # {} => pooled = "response"
  /\ \A a, b \in builder : a.object = b.object => a = b
  /\ \A b \in builder : refs[b.object] > 0
  /\ \A i, j \in 1..Len(pool) : pool[i] = pool[j] => i = j
  /\ \A i \in 1..Len(pool) : refs[pool[i]] = 0 /\ stale[pool[i]] \subseteq O!SetAgain(pooled)
  /\ \A o \in Objects : refs[o] > 0 /\ o \notin O!NotBuilt => stale[o] = {}
  /\ \A o \in Objects : refs[o] > 0 /\ o \in O!NotBuilt => stale[o] \subseteq {"body"}

(* What release leaves, taking the object out sets again.                  *)
LEMMA LeftIsSet ==
  ASSUME pooled \in {"bytes", "message", "response"}
  PROVE  /\ O!Fields(pooled) \ O!Cleared(pooled) \subseteq O!SetAgain(pooled) /\ O!SetAgain(pooled) \subseteq O!Fields(pooled)
         /\ pooled = "response" => O!SetAgain(pooled) = {"status", "body"} /\ "body" \in O!Fields(pooled)
  BY DEF O!Fields, O!Cleared, O!Reset, O!Release, O!SetAgain, O!HttpInnerMessage, O!InnerHttpResponse

(* No object is made yet.                                                  *)
LEMMA PoolInit == O!Init => PInv
  BY PoolsAssumption DEF O!Init, PInv, O!NotBuilt

(* Taking out the first object of a pool, and putting one in front.        *)
LEMMA TakeFirst ==
  ASSUME NEW s \in Seq(Objects), s # <<>>
  PROVE  /\ Tail(s) \in Seq(Objects) /\ Len(Tail(s)) = Len(s) - 1 /\ s[1] \in Objects /\ Len(s) > 0
         /\ \A i \in 1..Len(Tail(s)) : Tail(s)[i] = s[i + 1]
  OBVIOUS

LEMMA PutFirst ==
  ASSUME NEW s \in Seq(Objects), NEW o \in Objects
  PROVE  /\ <<o>> \o s \in Seq(Objects) /\ Len(<<o>> \o s) = Len(s) + 1
         /\ (<<o>> \o s)[1] = o
         /\ \A i \in 2..Len(s) + 1 : (<<o>> \o s)[i] = s[i - 1]
  OBVIOUS

(* The record of a new builder.                                            *)
LEMMA BuilderRecord ==
  ASSUME NEW o \in Objects, NEW e \in BOOLEAN
  PROVE  [object |-> o, err |-> e] \in [object : Objects, err : BOOLEAN] /\ [object |-> o, err |-> e].object = o
  OBVIOUS

(* A builder added to those of other objects.                              *)
LEMMA AddBuilder ==
  ASSUME NEW o \in Objects, NEW r \in [object : Objects, err : BOOLEAN], r.object = o,
         NEW B \in SUBSET [object : Objects, err : BOOLEAN],
         \A a \in B : a.object # o,
         \A a, b \in B : a.object = b.object => a = b,
         builder' = B \cup {r}
  PROVE  /\ builder' \subseteq [object : Objects, err : BOOLEAN]
         /\ O!NotBuilt' = {b.object : b \in B} \cup {o}
         /\ \A a, b \in builder' : a.object = b.object => a = b
         /\ \A b \in builder' : b \in B \/ b.object = o
<1>1. O!NotBuilt' = {b.object : b \in B} \cup {o}
  BY DEF O!NotBuilt
<1>2. \A a, b \in builder' : a.object = b.object => a = b
  OBVIOUS
<1> QED BY <1>1, <1>2

(* Every operation on the objects keeps the invariant: taking one out, ... *)
LEMMA GetInv == ASSUME PInv, O!Get PROVE PInv'
<1>1. PICK o \in (IF pool # <<>> THEN {pool[1]} ELSE Objects \ O!Made), built \in BOOLEAN :
        /\ built => pooled = "response"
        /\ refs' = [refs EXCEPT ![o] = 1] /\ used' = [used EXCEPT ![o] = {}]
        /\ stale' = [stale EXCEPT ![o] = (IF pool = <<>> THEN {} ELSE @)
                                           \ (IF built THEN {"status"} ELSE O!SetAgain(pooled))]
        /\ builder' = IF built THEN builder \cup {[object |-> o, err |-> FALSE]} ELSE builder
  BY DEF O!Get
<1>2. pooled' = pooled /\ pool' = IF pool = <<>> THEN <<>> ELSE Tail(pool)
  BY DEF O!Get
<1>3. o \in Objects /\ refs[o] = 0
  <2>1. CASE pool # <<>>
    <3>1. o = pool[1] /\ 1 \in 1..Len(pool) /\ pool[1] \in Objects
      BY <1>1, <2>1, TakeFirst DEF PInv
    <3> QED BY <3>1 DEF PInv
  <2>2. CASE pool = <<>>
    BY <1>1, <2>2 DEF PInv, O!Made
  <2> QED BY <2>1, <2>2
<1>4. o \notin O!NotBuilt
  BY <1>3 DEF PInv, O!NotBuilt
<1>5. /\ pool' \in Seq(Objects) /\ Len(pool') <= PoolSize
      /\ \A i, j \in 1..Len(pool') : pool'[i] = pool'[j] => i = j
      /\ \A i \in 1..Len(pool') : pool'[i] # o /\ pool'[i] \in Objects
                                  /\ refs[pool'[i]] = 0 /\ stale[pool'[i]] \subseteq O!SetAgain(pooled)
  <2>1. CASE pool # <<>>
    <3>1. o = pool[1] /\ pool' = Tail(pool)
      BY <1>1, <1>2, <2>1
    <3>2. \A i \in 1..Len(pool') : i + 1 \in 1..Len(pool) /\ pool'[i] = pool[i + 1] /\ 1 \in 1..Len(pool)
      BY <2>1, <3>1, TakeFirst DEF PInv
    <3>3. pool' \in Seq(Objects) /\ Len(pool') <= PoolSize
      BY <2>1, <3>1, TakeFirst, PoolsAssumption DEF PInv
    <3> QED BY <2>1, <3>1, <3>2, <3>3 DEF PInv
  <2>2. CASE pool = <<>>
    BY <1>2, <2>2, PoolsAssumption
  <2> QED BY <2>1, <2>2
<1>6. stale'[o] \subseteq (IF built THEN {"body"} ELSE {}) /\ stale'[o] \subseteq O!Fields(pooled)
  <2>1. pool # <<>> => stale[o] \subseteq O!SetAgain(pooled)
    BY <1>1, TakeFirst DEF PInv
  <2> QED BY <1>1, <1>3, <2>1, LeftIsSet DEF PInv
<1>7. /\ O!NotBuilt' = IF built THEN O!NotBuilt \cup {o} ELSE O!NotBuilt
      /\ builder' \subseteq [object : Objects, err : BOOLEAN]
      /\ \A a, b \in builder' : a.object = b.object => a = b
      /\ \A b \in builder' : b \in builder \/ b.object = o
  <2>1. /\ builder \in SUBSET [object : Objects, err : BOOLEAN]
        /\ \A a \in builder : a.object # o
        /\ \A a, b \in builder : a.object = b.object => a = b
    BY <1>4 DEF PInv, O!NotBuilt
  <2>2. CASE built
    <3> DEFINE r == [object |-> o, err |-> FALSE]
    <3>1. builder' = builder \cup {r}
      BY <1>1, <2>2
    <3>2. r \in [object : Objects, err : BOOLEAN] /\ r.object = o
      BY <1>3, BuilderRecord
    <3> HIDE DEF r
    <3> QED BY <1>3, <2>1, <2>2, <3>1, <3>2, AddBuilder DEF O!NotBuilt
  <2>3. CASE ~built
    BY <1>1, <2>1, <2>3 DEF O!NotBuilt
  <2> QED BY <2>2, <2>3
<1>8. (builder' # {} => pooled = "response") /\ \A b \in builder' : refs'[b.object] > 0
  BY <1>1, <1>3, <1>7 DEF PInv
<1>9. refs' \in [Objects -> 0..MaxRefs]
  BY <1>1, <1>3, PoolsAssumption DEF PInv
<1> QED BY <1>1, <1>2, <1>3, <1>4, <1>5, <1>6, <1>7, <1>8, <1>9 DEF PInv

(* ... setting a field,                                                    *)
LEMMA SetInv == ASSUME PInv, NEW o \in Objects, NEW f \in O!Fields(pooled), O!Set(o, f) PROVE PInv'
<1>1. /\ refs[o] > 0 /\ UNCHANGED <<pooled, pool, refs, builder>>
      /\ used' = [used EXCEPT ![o] = @ \cup {f}] /\ stale' = [stale EXCEPT ![o] = @ \ {f}]
  BY DEF O!Set
<1>2. O!NotBuilt' = O!NotBuilt
  BY <1>1 DEF O!NotBuilt
<1>3. used' \in [Objects -> SUBSET O!Fields(pooled)] /\ stale' \in [Objects -> SUBSET O!Fields(pooled)]
  BY <1>1 DEF PInv
<1>4. \A p \in Objects : stale'[p] \subseteq stale[p]
  BY <1>1 DEF PInv
<1>5. \A i \in 1..Len(pool) : pool[i] \in Objects
  BY DEF PInv
<1> QED BY <1>1, <1>2, <1>3, <1>4, <1>5 DEF PInv

(* ... a builder that meets an error,                                      *)
LEMMA BadHeaderInv == ASSUME PInv, NEW o \in Objects, O!BadHeader(o) PROVE PInv'
<1>1. PICK b \in builder : b.object = o /\ builder' = (builder \ {b}) \cup {[object |-> o, err |-> TRUE]}
  BY DEF O!BadHeader
<1> DEFINE B == builder \ {b}
<1>2. /\ B \in SUBSET [object : Objects, err : BOOLEAN] /\ \A a \in B : a.object # o
      /\ \A a, c \in B : a.object = c.object => a = c
  BY <1>1 DEF PInv
<1>3. /\ builder' \subseteq [object : Objects, err : BOOLEAN]
      /\ O!NotBuilt' = {a.object : a \in B} \cup {o}
      /\ \A a, c \in builder' : a.object = c.object => a = c
      /\ \A a \in builder' : a \in B \/ a.object = o
  <2> DEFINE r == [object |-> o, err |-> TRUE]
  <2>1. builder' = B \cup {r}
    BY <1>1
  <2>2. r \in [object : Objects, err : BOOLEAN] /\ r.object = o
    BY BuilderRecord
  <2> HIDE DEF B, r
  <2> QED BY <1>2, <2>1, <2>2, AddBuilder
<1>4. O!NotBuilt' = O!NotBuilt
  BY <1>1, <1>3 DEF O!NotBuilt
<1>5. UNCHANGED <<pooled, pool, refs, stale, used>>
  BY DEF O!BadHeader
<1>6. (builder' # {} => pooled = "response") /\ \A a \in builder' : refs[a.object] > 0
  BY <1>1, <1>3 DEF PInv
<1> QED BY <1>3, <1>4, <1>5, <1>6 DEF PInv

(* ... a builder that ends, with a response or with its error,             *)
LEMMA BodyInv == ASSUME PInv, NEW o \in Objects, O!Body(o) PROVE PInv'
<1>1. PICK b \in builder :
       /\ b.object = o /\ builder' = builder \ {b}
       /\ \/ refs' = [refs EXCEPT ![o] = 0] /\ UNCHANGED <<stale, used>>
          \/ /\ ~b.err /\ stale' = [stale EXCEPT ![o] = @ \ {"body"}]
             /\ used' = [used EXCEPT ![o] = @ \cup {"body"}] /\ UNCHANGED refs
  BY DEF O!Body
<1>2. UNCHANGED <<pooled, pool>>
  BY DEF O!Body
<1>3. O!NotBuilt' = O!NotBuilt \ {o} /\ o \in O!NotBuilt /\ pooled = "response" /\ "body" \in O!Fields(pooled)
  BY <1>1, LeftIsSet DEF O!NotBuilt, PInv
<1>4. \A i \in 1..Len(pool) : pool[i] # o /\ pool[i] \in Objects
  BY <1>1 DEF PInv
<1>5. CASE refs' = [refs EXCEPT ![o] = 0] /\ UNCHANGED <<stale, used>>
  <2>1. refs' \in [Objects -> 0..MaxRefs] /\ \A p \in Objects : p # o => refs'[p] = refs[p]
    BY <1>5, PoolsAssumption DEF PInv
  <2>2. \A p \in Objects : refs'[p] > 0 => p # o /\ (p \in O!NotBuilt' <=> p \in O!NotBuilt)
    BY <1>3, <1>5 DEF PInv
  <2>3. \A c \in builder' : c.object # o /\ c.object \in Objects
    BY <1>1 DEF PInv
  <2> QED BY <1>1, <1>2, <1>3, <1>4, <1>5, <2>1, <2>2, <2>3 DEF PInv
<1>6. CASE /\ stale' = [stale EXCEPT ![o] = @ \ {"body"}]
           /\ used' = [used EXCEPT ![o] = @ \cup {"body"}] /\ UNCHANGED refs
  BY <1>1, <1>2, <1>3, <1>4, <1>6 DEF PInv
<1> QED BY <1>1, <1>5, <1>6

(* ... a response that becomes a builder again,                            *)
LEMMA IntoBuilderInv == ASSUME PInv, NEW o \in Objects, O!IntoBuilder(o) PROVE PInv'
<1>1. /\ pooled = "response" /\ refs[o] > 0 /\ o \notin O!NotBuilt
      /\ builder' = builder \cup {[object |-> o, err |-> FALSE]}
      /\ UNCHANGED <<pooled, pool, refs, stale, used>>
  BY DEF O!IntoBuilder
<1>2. /\ builder \in SUBSET [object : Objects, err : BOOLEAN] /\ \A a \in builder : a.object # o
      /\ \A a, b \in builder : a.object = b.object => a = b
  BY <1>1 DEF PInv, O!NotBuilt
<1>3. /\ builder' \subseteq [object : Objects, err : BOOLEAN] /\ O!NotBuilt' = O!NotBuilt \cup {o}
      /\ \A a, b \in builder' : a.object = b.object => a = b
      /\ \A b \in builder' : b \in builder \/ b.object = o
  <2> DEFINE r == [object |-> o, err |-> FALSE]
  <2>1. r \in [object : Objects, err : BOOLEAN] /\ r.object = o /\ builder' = builder \cup {r}
    BY <1>1, BuilderRecord
  <2> HIDE DEF r
  <2> QED BY <1>2, <2>1, AddBuilder DEF O!NotBuilt
<1>4. \A b \in builder' : refs[b.object] > 0
  BY <1>1, <1>3 DEF PInv
<1> QED BY <1>1, <1>3, <1>4 DEF PInv

(* ... another handle,                                                     *)
LEMMA CloneInv == ASSUME PInv, NEW o \in Objects, O!CloneHandle(o) PROVE PInv'
<1>1. O!NotBuilt' = O!NotBuilt /\ refs[o] > 0 /\ refs' = [refs EXCEPT ![o] = @ + 1]
  BY DEF O!CloneHandle, O!NotBuilt, PInv
<1>2. /\ refs' \in [Objects -> 0..MaxRefs] /\ refs'[o] > 0
      /\ \A p \in Objects : p # o => refs'[p] = refs[p]
  BY <1>1, PoolsAssumption DEF O!CloneHandle, PInv
<1>3. \A i \in 1..Len(pool) : pool[i] # o /\ pool[i] \in Objects
  BY <1>1 DEF PInv
<1> QED BY <1>1, <1>2, <1>3 DEF O!CloneHandle, PInv

(* ... and the end of a handle, which puts the object back or not.         *)
LEMMA DropInv == ASSUME PInv, NEW o \in Objects, O!Drop(o) PROVE PInv'
<1>1. /\ refs[o] > 0 /\ o \notin O!NotBuilt /\ refs' = [refs EXCEPT ![o] = @ - 1]
      /\ pooled' = pooled /\ builder' = builder /\ O!NotBuilt' = O!NotBuilt
  BY DEF O!Drop, O!NotBuilt
<1>2. \A b \in builder : b.object # o
  BY <1>1 DEF O!NotBuilt
<1>3. CASE refs[o] = 1 /\ Len(pool) < PoolSize
  <2>1. /\ pool' = <<o>> \o pool /\ used' = [used EXCEPT ![o] = {}]
        /\ stale' = [stale EXCEPT ![o] = (@ \cup used[o]) \ O!Cleared(pooled)]
    BY <1>3 DEF O!Drop
  <2>2. stale'[o] \subseteq O!SetAgain(pooled) /\ stale'[o] \subseteq O!Fields(pooled) /\ refs'[o] = 0
    BY <1>1, <1>3, <2>1, LeftIsSet DEF PInv
  <2>3. \A i \in 1..Len(pool) : pool[i] # o /\ pool[i] \in Objects
    BY <1>1 DEF PInv
  <2>4. /\ pool' \in Seq(Objects) /\ Len(pool') = Len(pool) + 1 /\ pool'[1] = o
        /\ \A i \in 2..Len(pool) + 1 : pool'[i] = pool[i - 1] /\ i - 1 \in 1..Len(pool)
    BY <2>1, PutFirst DEF PInv
  <2>5. ASSUME NEW i \in 1..Len(pool'), NEW j \in 1..Len(pool'), pool'[i] = pool'[j] PROVE i = j
    <3>1. \A k \in 2..Len(pool) + 1 : pool'[k] # o
      BY <2>3, <2>4
    <3>2. CASE i = 1 \/ j = 1
      BY <2>4, <2>5, <3>1, <3>2
    <3>3. CASE i # 1 /\ j # 1
      <4>1. i \in 2..Len(pool) + 1 /\ j \in 2..Len(pool) + 1
        BY <2>4, <3>3
      <4>2. pool[i - 1] = pool[j - 1] /\ i - 1 \in 1..Len(pool) /\ j - 1 \in 1..Len(pool)
        BY <2>4, <2>5, <4>1
      <4>3. i - 1 = j - 1
        BY <4>2 DEF PInv
      <4> QED BY <4>1, <4>3
    <3> QED BY <3>2, <3>3
  <2>6. \A i \in 1..Len(pool') : refs'[pool'[i]] = 0 /\ stale'[pool'[i]] \subseteq O!SetAgain(pooled)
    <3> TAKE i \in 1..Len(pool')
    <3>1. CASE i = 1
      BY <2>2, <2>4, <3>1
    <3>2. CASE i # 1
      <4>1. i \in 2..Len(pool) + 1
        BY <2>4, <3>2
      <4> QED BY <1>1, <2>1, <2>3, <2>4, <4>1 DEF PInv
    <3> QED BY <3>1, <3>2
  <2>7. /\ refs' \in [Objects -> 0..MaxRefs] /\ Len(pool') <= PoolSize
        /\ \A p \in Objects : p # o => refs'[p] = refs[p]
    BY <1>1, <1>3, <2>4, PoolsAssumption DEF PInv
  <2>8. /\ stale' \in [Objects -> SUBSET O!Fields(pooled)] /\ used' \in [Objects -> SUBSET O!Fields(pooled)]
        /\ \A p \in Objects : p # o => stale'[p] = stale[p]
    BY <2>1, <2>2 DEF PInv
  <2>9. \A b \in builder : refs'[b.object] > 0
    BY <1>2, <2>7 DEF PInv
  <2> QED BY <1>1, <2>2, <2>4, <2>5, <2>6, <2>7, <2>8, <2>9 DEF PInv
<1>4. CASE ~(refs[o] = 1 /\ Len(pool) < PoolSize)
  <2>1. UNCHANGED <<pool, stale, used>>
    BY <1>4 DEF O!Drop
  <2>2. \A i \in 1..Len(pool) : pool[i] # o /\ pool[i] \in Objects
    BY <1>1 DEF PInv
  <2>3. /\ refs' \in [Objects -> 0..MaxRefs] /\ \A p \in Objects : p # o => refs'[p] = refs[p]
        /\ refs'[o] > 0 => refs[o] > 0
    BY <1>1, PoolsAssumption DEF PInv
  <2>4. \A i \in 1..Len(pool) : refs'[pool[i]] = 0 /\ stale[pool[i]] \subseteq O!SetAgain(pooled)
    BY <2>2, <2>3 DEF PInv
  <2>5. \A b \in builder : refs'[b.object] > 0
    BY <1>2, <2>3 DEF PInv
  <2> QED BY <1>1, <2>1, <2>3, <2>4, <2>5 DEF PInv
<1> QED BY <1>3, <1>4

(* Together: every step of Pools.                                          *)
LEMMA PoolStep == ASSUME PInv, [O!Next]_(O!vars) PROVE PInv'
<1>1. CASE UNCHANGED O!vars
  BY <1>1 DEF O!vars, PInv, O!NotBuilt
<1> QED BY <1>1, GetInv, SetInv, BadHeaderInv, BodyInv, IntoBuilderInv, CloneInv, DropInv DEF O!Next

(* The invariant of the pools.                                             *)
LEMMA PoolInvariance == O!Spec => []PInv
  BY PoolInit, PoolStep, PTL DEF O!Spec

(* Whoever holds a request, a response or a buffer sees nothing of its     *)
(* last user, however often objects go through the pools.                  *)
THEOREM FreshWhenHeld == O!Spec => []O!NothingStale
<1>1. PInv => O!NothingStale
  BY DEF PInv, O!NothingStale
<1> QED BY <1>1, PoolInvariance, PTL

(* A sequence that repeats nothing has as many elements as places.         *)
LEMMA NoRepeatCount ==
  ASSUME NEW s \in Seq(Objects), \A i, j \in 1..Len(s) : s[i] = s[j] => i = j
  PROVE  Cardinality(O!Range(s)) = Len(s)
<1>1. s \in Bijection(1..Len(s), O!Range(s))
  BY DEF Bijection, Injection, Surjection, IsInjective, O!Range
<1>2. ExistsBijection(1..Len(s), O!Range(s)) /\ Len(s) \in Nat
  BY <1>1 DEF ExistsBijection
<1> QED BY <1>2, FS_CountingElements

(* An object in a pool has no handle and is there once: no buffer is       *)
(* written by two connections, no message is handed out while it is used.  *)
THEOREM PooledOnce == O!Spec => []O!NotShared
<1>1. ASSUME PInv PROVE O!NotShared
  <2>1. Cardinality(O!Range(pool)) = Len(pool)
    BY <1>1, NoRepeatCount DEF PInv
  <2>2. \A o \in O!Range(pool) : refs[o] = 0
    BY <1>1 DEF PInv, O!Range
  <2> QED BY <2>1, <2>2 DEF O!NotShared, Cardinality, O!Cardinality
<1> QED BY <1>1, PoolInvariance, PTL

(* Both, with the size of a pool and the number of handles kept in their   *)
(* bounds (release_bytes, HttpInnerMessage::reset, HttpResponsePool and    *)
(* the Drop of SharedBytes, SharedHttpInnerMessage and HttpResponse).      *)
THEOREM ObjectsReused == O!Spec => []ObjectsFresh
<1>1. PInv => O!TypeOK
  BY DEF PInv, O!TypeOK
<1>2. O!TypeOK /\ O!NothingStale /\ O!NotShared => ObjectsFresh
  BY DEF ObjectsFresh
<1> QED BY <1>1, <1>2, PoolInvariance, FreshWhenHeld, PooledOnce, PTL

-----------------------------------------------------------------------------
(* Compose: where the future stands in the hooks.  While the start hooks   *)
(* run, those called are the first count of them, one more while the       *)
(* future of one is awaited; a future has resolved before the loop that    *)
(* does not look at the number of middlewares, and not that of the last    *)
(* one when the loop comes to their end.  So for the response hooks and    *)
(* curr.                                                                   *)
Starting == composing \in {"start", "startnext"}
AwaitsStart == composing = "idle" /\ state = "Starting"
AwaitsHandler == composing = "idle" /\ state = "Handler"
AwaitsResponse == composing = "idle" /\ state = "RunMiddlewares"

Values ==
  /\ count \in 0..Mws /\ curr \in 0..Mws /\ handled \in 0..1
  /\ composing \in {"start", "startnext", "resp", "idle", "panic", "done"}
  /\ composing = "idle" <=> fut = "pending"
  /\ composing = "idle" => state \in {"Starting", "Handler", "RunMiddlewares"}

StartHooks ==
  /\ started \in Seq(Nat) /\ W!InOrder(started)
  /\ Starting => Len(started) = count /\ handled = 0
  /\ AwaitsStart => Len(started) = count + 1 /\ count < Mws /\ handled = 0
  /\ handled > 0 => Len(started) = Mws

ResponseHooks ==
  /\ seen \in Seq(Nat) /\ W!InOrder(seen)
  /\ Starting \/ AwaitsStart \/ AwaitsHandler => seen = <<>>
  /\ composing = "resp" => Len(seen) = curr
  /\ AwaitsResponse => Len(seen) = curr + 1 /\ curr < Mws

Futures ==
  /\ waited \subseteq Nat
  /\ Starting => \A w \in waited : w < count
  /\ AwaitsStart => count \in waited /\ \A w \in waited : w <= count
  /\ composing = "startnext" => waited # {} /\ (count = Mws => Mws - 1 \notin waited)
  /\ W!PanicsOnlyThere

WInv == Values /\ StartHooks /\ ResponseHooks /\ Futures

(* The next hook after those called in order.                              *)
LEMMA AppendInOrder ==
  ASSUME NEW s \in Seq(Nat), W!InOrder(s)
  PROVE  /\ Append(s, Len(s)) \in Seq(Nat) /\ Len(Append(s, Len(s))) = Len(s) + 1
         /\ W!InOrder(Append(s, Len(s)))
  BY DEF W!InOrder

(* No hook is called yet.                                                  *)
LEMMA ComposeInit == W!Init => WInv
  BY ComposeAssumption DEF W!Init, WInv, Values, StartHooks, ResponseHooks, Futures, Starting, AwaitsStart,
     AwaitsHandler, AwaitsResponse, W!InOrder, W!PanicsOnlyThere


(* The next start hook, called from either loop, keeps the invariant.      *)
LEMMA StartHookInv ==
  ASSUME WInv, Starting, W!StartHook, UNCHANGED seen
  PROVE  WInv'
<1> USE ComposeAssumption DEF WInv
<1>1. /\ count < Mws /\ started' = Append(started, Len(started)) /\ handled' = handled /\ handled = 0
      /\ Len(started) = count /\ seen = <<>>
  BY DEF W!StartHook, StartHooks, ResponseHooks
<1>2. started' \in Seq(Nat) /\ W!InOrder(started)' /\ Len(started') = count + 1
  BY <1>1, AppendInOrder DEF StartHooks, W!InOrder
<1>3. CASE count' = count + 1 /\ UNCHANGED <<composing, state, curr, fut, waited>>
  BY <1>1, <1>2, <1>3 DEF Values, StartHooks, ResponseHooks, Futures, Starting, AwaitsStart, AwaitsHandler,
     AwaitsResponse, W!InOrder, W!PanicsOnlyThere
<1>4. CASE (W!Run \/ W!Respond) /\ UNCHANGED <<count, waited>>
  BY <1>1, <1>2, <1>4 DEF W!Run, W!Respond, Values, StartHooks, ResponseHooks, Futures, Starting, AwaitsStart,
     AwaitsHandler, AwaitsResponse, W!InOrder, W!PanicsOnlyThere
<1>5. CASE W!Hold("Starting", "idle") /\ waited' = waited \cup {count} /\ UNCHANGED count
  BY <1>1, <1>2, <1>5 DEF W!Hold, Values, StartHooks, ResponseHooks, Futures, Starting, AwaitsStart,
     AwaitsHandler, AwaitsResponse, W!InOrder, W!PanicsOnlyThere
<1> QED BY <1>3, <1>4, <1>5 DEF W!StartHook

(* The loop that looks at the number of middlewares, ...                   *)
LEMMA StartInv == ASSUME WInv, W!Start PROVE WInv'
<1> USE ComposeAssumption DEF WInv
<1>1. Starting /\ seen' = seen
  BY DEF W!Start, Starting
<1>2. CASE W!StartHook
  BY <1>1, <1>2, StartHookInv
<1>3. CASE count = Mws /\ W!CallHandler /\ UNCHANGED <<count, started, waited>>
  BY <1>1, <1>3 DEF W!CallHandler, W!Run, W!Hold, Values, StartHooks, ResponseHooks, Futures, Starting, AwaitsStart,
     AwaitsHandler, AwaitsResponse, W!InOrder, W!PanicsOnlyThere
<1> QED BY <1>2, <1>3 DEF W!Start

(* ... the loop that does not, ...                                         *)
LEMMA StartNextInv == ASSUME WInv, W!StartNext PROVE WInv'
<1> USE ComposeAssumption DEF WInv
<1>1. Starting /\ seen' = seen
  BY DEF W!StartNext, Starting
<1>2. CASE W!StartHook
  BY <1>1, <1>2, StartHookInv
<1>3. CASE /\ count = Mws /\ composing' = "panic"
           /\ UNCHANGED <<state, count, curr, fut, started, waited, handled>>
  <2>1. composing = "startnext"
    BY DEF W!StartNext
  <2> QED BY <1>1, <1>3, <2>1 DEF Values, StartHooks, ResponseHooks, Futures, Starting, AwaitsStart,
       AwaitsHandler, AwaitsResponse, W!InOrder, W!PanicsOnlyThere
<1> QED BY <1>2, <1>3 DEF W!StartNext

(* ... the future of a start hook, ...                                     *)
LEMMA StartedInv == ASSUME WInv, W!Started PROVE WInv'
<1> USE ComposeAssumption DEF WInv
<1>1. AwaitsStart /\ UNCHANGED <<started, waited, seen>>
  BY DEF W!Started, AwaitsStart
<1>2. CASE count' = count + 1 /\ W!Run /\ UNCHANGED handled
  BY <1>1, <1>2 DEF W!Run, Values, StartHooks, ResponseHooks, Futures, Starting, AwaitsStart,
     AwaitsHandler, AwaitsResponse, W!InOrder, W!PanicsOnlyThere
<1>3. CASE count' = count + 1 /\ count' = Mws /\ W!CallHandler
  BY <1>1, <1>3 DEF W!CallHandler, W!Run, W!Hold, Values, StartHooks, ResponseHooks, Futures, Starting, AwaitsStart,
     AwaitsHandler, AwaitsResponse, W!InOrder, W!PanicsOnlyThere
<1>4. CASE /\ count' = count + 1 /\ count' # Mws
           /\ composing' = "startnext" /\ fut' = "done" /\ UNCHANGED <<state, curr, handled>>
  BY <1>1, <1>4 DEF Values, StartHooks, ResponseHooks, Futures, Starting, AwaitsStart,
     AwaitsHandler, AwaitsResponse, W!InOrder, W!PanicsOnlyThere
<1>5. CASE W!Respond /\ UNCHANGED <<count, handled>>
  BY <1>1, <1>5 DEF W!Respond, Values, StartHooks, ResponseHooks, Futures, Starting, AwaitsStart,
     AwaitsHandler, AwaitsResponse, W!InOrder, W!PanicsOnlyThere
<1> QED BY <1>2, <1>3, <1>4, <1>5 DEF W!Started

(* ... that of the handler, ...                                            *)
LEMMA HandledInv == ASSUME WInv, W!Handled PROVE WInv'
  BY ComposeAssumption DEF WInv, W!Handled, W!Run, W!Respond, Values, StartHooks, ResponseHooks, Futures, Starting,
     AwaitsStart, AwaitsHandler, AwaitsResponse, W!InOrder, W!PanicsOnlyThere

(* ... the response hooks ...                                              *)
LEMMA ResponseInv == ASSUME WInv, W!Response PROVE WInv'
<1> USE ComposeAssumption DEF WInv
<1>1. composing = "resp" /\ UNCHANGED <<started, waited, handled>> /\ Len(seen) = curr
  BY DEF W!Response, ResponseHooks
<1>2. CASE curr = Mws /\ W!Respond /\ UNCHANGED <<count, seen>>
  BY <1>1, <1>2 DEF W!Respond, Values, StartHooks, ResponseHooks, Futures, Starting, AwaitsStart,
     AwaitsHandler, AwaitsResponse, W!InOrder, W!PanicsOnlyThere
<1>3. ASSUME curr # Mws, seen' = Append(seen, curr),
             \/ curr' = curr + 1 /\ UNCHANGED <<composing, state, fut, count>>
             \/ W!Hold("RunMiddlewares", "idle") /\ UNCHANGED count
             \/ W!Respond /\ count' = curr + 1
      PROVE  WInv'
  <2>1. seen' \in Seq(Nat) /\ W!InOrder(seen)' /\ Len(seen') = curr + 1
    BY <1>1, <1>3, AppendInOrder DEF ResponseHooks, W!InOrder
  <2> QED BY <1>1, <1>3, <2>1 DEF W!Respond, W!Hold, Values, StartHooks, ResponseHooks, Futures, Starting,
       AwaitsStart, AwaitsHandler, AwaitsResponse, W!InOrder, W!PanicsOnlyThere
<1> QED BY <1>2, <1>3 DEF W!Response

(* ... and their futures keep it.                                          *)
LEMMA RespondedInv == ASSUME WInv, W!Responded PROVE WInv'
  BY ComposeAssumption DEF WInv, W!Responded, W!Respond, Values, StartHooks, ResponseHooks, Futures, Starting,
     AwaitsStart, AwaitsHandler, AwaitsResponse, W!InOrder, W!PanicsOnlyThere

(* Together: every step of Compose.                                        *)
LEMMA ComposeStep == ASSUME WInv, [W!Next]_(W!vars) PROVE WInv'
<1>1. CASE UNCHANGED W!vars
  BY <1>1 DEF W!vars, WInv, Values, StartHooks, ResponseHooks, Futures, Starting, AwaitsStart, AwaitsHandler,
     AwaitsResponse, W!InOrder, W!PanicsOnlyThere
<1> QED BY <1>1, StartInv, StartNextInv, StartedInv, HandledInv, ResponseInv, RespondedInv DEF W!Next

(* The hooks of a resource's middlewares run once each and in order, the   *)
(* handler once at most and after every start hook, and Compose indexes    *)
(* past the middlewares only when the last of them starts at once after    *)
(* another one's future: for any number of middlewares (StartMiddlewares   *)
(* and RunMiddlewares of route.rs).                                        *)
THEOREM MiddlewaresInOrder == W!Spec => []HooksInOrder
<1>1. WInv => HooksInOrder
  BY DEF WInv, Values, StartHooks, ResponseHooks, Futures, HooksInOrder, W!TypeOK, W!HooksInOrder
<1>2. W!Init => WInv
  BY ComposeInit
<1>3. WInv /\ [W!Next]_(W!vars) => WInv'
  BY ComposeStep
<1> QED BY <1>1, <1>2, <1>3, PTL DEF W!Spec
=============================================================================
