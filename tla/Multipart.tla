------------------------------ MODULE Multipart -------------------------------
(***************************************************************************)
(* Reading a multipart body (multipart.rs): the stream of parts, the       *)
(* stream of bytes of each, one part that is itself a multipart, and the   *)
(* Safety counter that lets only the newest of the handles given out read. *)
(*                                                                         *)
(* A body has parts; a byte is "r", "n", "-", "x", the one byte of a       *)
(* boundary ("b" outside, "c" in the nested part) or the header of a part, *)
(* "h1", "h2" or "hM" for the nested one, which stands for the header      *)
(* lines.  The handler polls its newest handle (an older one answers       *)
(* NotReady and changes nothing), and drops any of its handles at any time *)
(* between polls.  It does not poll on after an error or the last end.     *)
(***************************************************************************)
EXTENDS Integers, Sequences, SequencesExt, FiniteSets, PayloadHelper

CONSTANTS
  MaxData,    \* bound: bytes of a part
  Levels,     \* bound: the levels the parts are at
  Cuts,       \* bound: sizes of the chunks the body arrives in, but the last
  MaxChunks,  \* bound: chunks
  MayStop     \* bound: whether the body may end early

VARIABLES
  parts,      \* the body: [level, head, data] of each part; the head gives a
              \* "length", "none", or is "bad": it cannot be parsed, has a length that
              \* is no number, or is that of a multipart without a boundary
  wire,       \* its bytes not yet delivered
  chunks,     \* chunks delivered so far
  rx,         \* the PayloadHelper all handles share
  stack,      \* the InnerMultiparts: [state, item]
  field,      \* the InnerField: [part, length, payload]
  handles,    \* handles the handler holds, the newest last
  at,         \* level of the InnerMultipart being polled, 0 if none
  seen,       \* parts given out: [part, data, whole]
  last        \* what the last poll of a handle answered

body == <<parts, wire, chunks>>
inner == <<rx, stack, field, at>>
vars == <<body, inner, handles, seen, last>>

-----------------------------------------------------------------------------
Boundary(level) == IF level = 1 THEN "b" ELSE "c"
Headers == <<"h1", "h2">>
CRLF == <<"r", "n">>

PartBytes(ps, k, level) ==
  <<"-", "-", Boundary(level)>> \o CRLF \o <<Headers[k]>> \o CRLF \o CRLF \o ps[k].data \o CRLF

(* The parts in the nested multipart are in one run.                       *)
NestedBytes(ps, ks) ==
  <<"-", "-", "b">> \o CRLF \o <<"hM">> \o CRLF \o CRLF
  \o FlattenSeq([i \in 1..Len(ks) |-> PartBytes(ps, ks[i], 2)])
  \o <<"-", "-", "c", "-", "-">> \o CRLF

Bytes(ps) ==
  LET deep == SelectSeq([k \in 1..Len(ps) |-> k], LAMBDA k : ps[k].level = 2)
      of(k) == IF ps[k].level = 1 THEN PartBytes(ps, k, 1)
               ELSE IF k = deep[1] THEN NestedBytes(ps, deep) ELSE <<>>
  IN  <<"x">> \o CRLF \o FlattenSeq([k \in 1..Len(ps) |-> of(k)])
      \o <<"-", "-", "b", "-", "-">> \o CRLF

(* Any short data, and one with a return far from its end.                 *)
Datas == {<<"r", "x", "x", "x", "x">>}
           \cup UNION {[1..n -> {"x", "r", "-"}] : n \in 0..MaxData}

Part == [level : Levels, head : {"length", "none"}, data : Datas]
          \cup [level : Levels, head : {"bad"}, data : {<<"x">>}]
Bodies == [1..1 -> Part] \cup {<<p, [level |-> l, head |-> "none", data |-> <<"x">>]>> :
                                 p \in Part, l \in Levels}

-----------------------------------------------------------------------------
Incomplete(h) == [ans |-> "Err", h |-> h, data |-> <<>>]
OrIncomplete(r) == IF r.ans = "None" THEN Incomplete(r.h) ELSE r

(* InnerField::read_len; `left' is the length that remains, and what was   *)
(* read past it goes back.                                                 *)
GiveBack(h, over) == IF over = <<>> THEN h ELSE UnreadData(h, over)
LenRead(r, left) ==
  LET n == IF Len(r.data) < left THEN Len(r.data) ELSE left IN
  IF r.ans # "Ready" THEN OrIncomplete(r)
  ELSE [ans |-> "Ready", data |-> SubSeq(r.data, 1, n),
        h |-> GiveBack(r.h, SubSeq(r.data, n + 1, Len(r.data)))]
ReadLen(h, left) ==
  IF left = 0 THEN [ans |-> "None", h |-> h, data |-> <<>>] ELSE LenRead(ReadAny(h), left)

(* InnerField::read_stream: up to the next return; at a return, the bytes  *)
(* x that a boundary would take.                                           *)
AtReturn(x, boundary) ==
  IF x.ans = "Ready" /\ x.data = CRLF \o <<"-", "-", boundary>>
  THEN [ans |-> "None", h |-> UnreadData(x.h, x.data), data |-> <<>>]
  ELSE OrIncomplete(x)
StreamReadKeeps(r, boundary) ==
  IF r.ans # "Ready" \/ Len(r.data) > 1 THEN OrIncomplete(r)
  ELSE AtReturn(ReadExact(UnreadData(r.h, <<"r">>), 5), boundary)
StreamRead(r, boundary) ==
  IF r.ans # "Ready" THEN OrIncomplete(r)
  ELSE IF Len(r.data) > 1
  THEN [ans |-> "Ready", h |-> UnreadData(r.h, <<"r">>), data |-> SubSeq(r.data, 1, Len(r.data) - 1)]
  ELSE AtReturn(ReadExact(UnreadData(r.h, <<"r">>), 5), boundary)
ReadStream(h, boundary) == StreamRead(ReadUntil(h, <<"r">>), boundary)

(* InnerField::poll: bytes, or the end of the part and the line after it.  *)
FieldLine(line, f) ==
  CASE line.ans = "NotReady" -> [line EXCEPT !.data = <<>>] @@ [f |-> f]
    [] line.ans = "Err" -> line @@ [f |-> f]
    [] OTHER -> [ans |-> "None", h |-> line.h, data |-> <<>>, f |-> [f EXCEPT !.payload = FALSE]]
FieldRead(r, f) ==
  IF r.ans = "None" THEN FieldLine(ReadUntil(r.h, <<"n">>), f)
  ELSE r @@ [f |-> [f EXCEPT !.length = IF @ > Len(r.data) THEN @ - Len(r.data) ELSE 0]]
FieldPoll(h, f, boundary) ==
  IF ~f.payload THEN [ans |-> "None", h |-> h, data |-> <<>>, f |-> f]
  ELSE FieldRead(IF parts[f.part].head = "length" THEN ReadLen(h, f.length) ELSE ReadStream(h, boundary), f)

NoField == [part |-> 0, length |-> 0, payload |-> FALSE]

-----------------------------------------------------------------------------
Init ==
  /\ parts \in Bodies /\ wire = Bytes(parts) /\ chunks = 0 /\ rx = New(<<>>, "open")
  /\ stack = <<[state |-> "FirstBoundary", item |-> "None"]>> /\ field = NoField
  /\ handles = <<"Multipart">> /\ at = 0 /\ seen = <<>> /\ last = "NotReady"

Deliver ==
  /\ wire # <<>> /\ chunks < MaxChunks /\ chunks' = chunks + 1 /\ at = 0 /\ rx.end = "open"
  /\ \E n \in {Len(wire)} \cup (IF chunks' = MaxChunks THEN {} ELSE {c \in Cuts : c < Len(wire)}) :
       /\ rx' = [rx EXCEPT !.src = Append(@, SubSeq(wire, 1, n))]
       /\ wire' = SubSeq(wire, n + 1, Len(wire))
  /\ UNCHANGED <<parts, stack, field, at, handles, seen, last>>

StreamEnds ==
  /\ rx.end = "open" /\ at = 0 /\ (wire = <<>> \/ MayStop) /\ rx' = [rx EXCEPT !.end = "eof"]
  /\ UNCHANGED <<body, stack, field, at, handles, seen, last>>

Top == handles[Len(handles)]
Stopped == last \in {"None", "Err"} \/ handles = <<>>

(* The level of the multipart that the newest handle reads.                *)
Base == IF Top = "Nested" THEN 2 ELSE 1

(* Field::poll by the handler: older handles answer NotReady (Safety).     *)
PollField ==
  /\ ~Stopped /\ at = 0 /\ Top = "Field"
  /\ \E r \in {FieldPoll(rx, field, Boundary(Len(stack)))} :
     /\ rx' = r.h /\ field' = r.f
     /\ seen' = [seen EXCEPT ![Len(seen)].data = @ \o r.data,
                             ![Len(seen)].whole = (r.ans = "None")]
     /\ last' = IF r.ans = "None" THEN "Ready" ELSE r.ans
  /\ UNCHANGED <<body, stack, at, handles>>

(* Safety::drop: with its newest handle the handler's task is woken; with  *)
(* an older one, below a handle that is still there, it panics.            *)
DropHandle ==
  /\ ~Stopped /\ at = 0
  /\ \E i \in 1..Len(handles) :
       IF i = Len(handles) THEN handles' = Front(handles) /\ last' = "Ready"
                           ELSE handles' = <<>> /\ last' = "panic"
  /\ UNCHANGED <<body, inner, seen>>

(* Multipart::poll starts.                                                 *)
PollMultipart ==
  /\ ~Stopped /\ at = 0 /\ Top # "Field" /\ at' = Base
  /\ UNCHANGED <<body, rx, stack, field, handles, seen, last>>

Return(a) == at' = 0 /\ last' = a

(* A poll goes through the item it gave out before, to its end.            *)
DrainField ==
  /\ at > 0 /\ stack[at].state # "Eof" /\ stack[at].item = "Field"
  /\ \E r \in {FieldPoll(rx, field, Boundary(at))} :
     /\ rx' = r.h /\ field' = r.f
     /\ CASE r.ans = "Ready" -> UNCHANGED <<stack, at, last>>
          [] r.ans = "None" -> stack' = [stack EXCEPT ![at].item = "None"] /\ UNCHANGED <<at, last>>
          [] OTHER -> UNCHANGED stack /\ Return(r.ans)
  /\ UNCHANGED <<body, handles, seen>>

DrainNested ==
  /\ at = 1 /\ stack[at].item = "Multipart" /\ at' = 2
  /\ UNCHANGED <<body, rx, stack, field, handles, seen, last>>

(* The end of a multipart: of the handle polled, or of the nested one its  *)
(* parent goes through.                                                    *)
AtEof ==
  /\ at > 0 /\ stack[at].state = "Eof"
  /\ IF at = Base
     THEN Return(IF at = 2 THEN "Ready" ELSE "None") /\ UNCHANGED stack
     ELSE stack' = <<[stack[1] EXCEPT !.item = "None"]>> /\ at' = 1 /\ UNCHANGED last
  /\ UNCHANGED <<body, rx, field, handles, seen>>

(* skip_until_boundary, one line of its loop; read_boundary.               *)
ReadBoundary ==
  /\ at > 0 /\ stack[at].item = "None" /\ stack[at].state \in {"FirstBoundary", "Boundary"}
  /\ \E r \in {ReadUntil(rx, <<"n">>)} :
     LET open == <<"-", "-", Boundary(at)>> \o CRLF
         close == <<"-", "-", Boundary(at), "-", "-">> \o CRLF
         first == stack[at].state = "FirstBoundary"
     IN /\ rx' = r.h
        /\ CASE r.ans = "NotReady" -> UNCHANGED stack /\ Return("NotReady")
             [] r.ans \in {"None", "Err"} -> UNCHANGED stack /\ Return("Err")
             [] r.ans = "Ready" /\ r.data = open ->
                  stack' = [stack EXCEPT ![at].state = "Headers"] /\ UNCHANGED <<at, last>>
             [] r.ans = "Ready" /\ r.data = close /\ ~first ->
                  stack' = [stack EXCEPT ![at].state = "Eof"] /\ UNCHANGED <<at, last>>
             [] OTHER -> UNCHANGED stack /\ IF first THEN UNCHANGED <<at, last>> ELSE Return("Err")
  /\ UNCHANGED <<body, field, handles, seen>>

BadHead(h) == \E k \in 1..Len(parts) : Headers[k] = h /\ parts[k].head = "bad"

(* read_headers, and the item made of them: a field, or a nested           *)
(* multipart.  A head that cannot be parsed leaves the state, the other    *)
(* errors come after it was set.  A parent that goes through its item      *)
(* drops what it yields.                                                   *)
ReadHeaders ==
  /\ at > 0 /\ stack[at].item = "None" /\ stack[at].state = "Headers"
  /\ \E r \in {ReadUntil(rx, CRLF \o CRLF)} :
     /\ rx' = r.h
     /\ IF r.ans # "Ready" THEN
          UNCHANGED <<stack, field, handles, seen>> /\ Return(OrIncomplete(r).ans)
        ELSE IF r.data[1] = "hM" THEN
          /\ stack' = <<[state |-> "Boundary", item |-> "Multipart"],
                        [state |-> "FirstBoundary", item |-> "None"]>>
          /\ handles' = Append(handles, "Nested") /\ Return("Ready") /\ UNCHANGED <<field, seen>>
        ELSE IF BadHead(r.data[1]) THEN
          /\ stack' \in {stack, [stack EXCEPT ![at].state = "Boundary"]}
          /\ Return("Err") /\ UNCHANGED <<field, handles, seen>>
        ELSE \E k \in {k \in 1..2 : Headers[k] = r.data[1]} :
          /\ stack' = [stack EXCEPT ![at] = [state |-> "Boundary", item |-> "Field"]]
          /\ field' = [part |-> k, length |-> Len(parts[k].data), payload |-> TRUE]
          /\ IF at = Base
             THEN /\ seen' = Append(seen, [part |-> k, data |-> <<>>, whole |-> FALSE])
                  /\ handles' = Append(handles, "Field") /\ Return("Ready")
             ELSE UNCHANGED <<seen, handles, at, last>>
  /\ UNCHANGED body

Next == Deliver \/ StreamEnds \/ PollField \/ DropHandle \/ PollMultipart
        \/ DrainField \/ DrainNested \/ AtEof \/ ReadBoundary \/ ReadHeaders

Spec == Init /\ [][Next]_vars

-----------------------------------------------------------------------------
(* The values of the variables.                                            *)
TypeOK ==
  /\ Len(parts) \in 1..2 /\ at \in 0..Len(stack) /\ Len(stack) \in 1..2
  /\ \A i \in 1..Len(handles) : handles[i] \in {"Multipart", "Nested", "Field"}
  /\ field.part \in 0..Len(parts) /\ last \in {"Ready", "NotReady", "None", "Err", "panic"}

(* A part without a length that has a return less than the length of a     *)
(* boundary line before its end.                                           *)
Returns(p) ==
  p.head = "none" /\ \E i \in 1..Len(p.data) : p.data[i] = "r" /\ i > Len(p.data) - 4
Broken == \E k \in 1..Len(parts) : Returns(parts[k])
Malformed == \E k \in 1..Len(parts) : parts[k].head = "bad"

(* Every part the handler is given has its bytes, in order and no others;  *)
(* all of them when its stream ends (multipart.rs:481-482: the length is   *)
(* not necessary).                                                         *)
Intact ==
  \A i \in 1..Len(seen) :
     /\ IsPrefix(seen[i].data, parts[seen[i].part].data)
     /\ seen[i].whole => seen[i].data = parts[seen[i].part].data
     /\ i > 1 => seen[i - 1].part < seen[i].part
PartsIntact == ~Broken => Intact

(* A body of well-formed parts that arrives whole is read without an error *)
(* and to its end: the newest handle waits only for bytes that are still   *)
(* to come.  The end is reported only when all parts were well-formed and  *)
(* have arrived, also those the handler did not read.                      *)
ReadsThrough ==
  ~Broken =>
    /\ wire = <<>> /\ ~Malformed => last # "Err"
    /\ wire = <<>> /\ last = "NotReady" /\ at = 0 => rx.src # <<>>
    /\ last = "None" => wire = <<>> /\ ~Malformed
=============================================================================
