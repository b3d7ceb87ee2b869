---------------------------- MODULE PayloadHelper -----------------------------
(***************************************************************************)
(* PayloadHelper (payload.rs): reading bytes across the boundaries of the  *)
(* chunks of a stream.  A helper h is                                      *)
(*   items  chunks taken from the stream, each a sequence of bytes         *)
(*   src    chunks the stream can yield now                                *)
(*   end    what the stream answers after them: "open" (NotReady), "eof"   *)
(*          (None) or "err"                                                *)
(* A read answers with a record: ans is "Ready", "NotReady", "None" or     *)
(* "Err", h the helper after it and data what it yields.                   *)
(***************************************************************************)
EXTENDS Integers, Sequences, SequencesExt, FiniteSetsExt

New(src, end) == [items |-> <<>>, src |-> src, end |-> end]

Size(chunks) == Len(FlattenSeq(chunks))

Ready(h, data) == [ans |-> "Ready", h |-> h, data |-> data]

(* poll_stream answers with no chunk.                                      *)
Short(h) ==
  [ans |-> CASE h.end = "open" -> "NotReady" [] h.end = "eof" -> "None" [] h.end = "err" -> "Err",
   h |-> h, data |-> <<>>]

(* poll_stream, k times.                                                   *)
Pull(h, k) == [h EXCEPT !.items = @ \o SubSeq(h.src, 1, k),
                        !.src = SubSeq(@, k + 1, Len(@))]

(* Polls the stream until one of the numbers of chunks is reached that are *)
(* enough, or it has none.                                                 *)
PullFirst(h, enough) == Pull(h, Min(enough \cup {Len(h.src)}))

PullTo(h, size) == PullFirst(h, {k \in 0..Len(h.src) : Size(Pull(h, k).items) >= size})

(* What is left of chunks without their first n bytes.                     *)
Cut(chunks, n) ==
  SelectSeq([i \in 1..Len(chunks) |->
               LET before == Size(SubSeq(chunks, 1, i - 1)) IN
               SubSeq(chunks[i], 1 + (IF n > before THEN n - before ELSE 0), Len(chunks[i]))],
            LAMBDA c : c # <<>>)

Take(h, n) == Ready([h EXCEPT !.items = Cut(@, n)], SubSeq(FlattenSeq(h.items), 1, n))

-----------------------------------------------------------------------------
(* The first chunk, if there is one; those from number next on stay.       *)
First(p, next) ==
  IF p.items = <<>> THEN Short(p)
  ELSE Ready([p EXCEPT !.items = SubSeq(@, next, Len(@))], p.items[1])
PullChunk(h) == PullFirst(h, {k \in 0..Len(h.src) : Pull(h, k).items # <<>>})
ReadAny(h) == First(PullChunk(h), 2)
GetChunk(h) == First(PullChunk(h), 1)

(* What each read makes of the chunks it has taken.                        *)
IfEnough(p, size, answer) == IF Size(p.items) >= size THEN answer ELSE Short(p)
Checked(p, size) == IfEnough(p, size, Ready(p, <<>>))
Taken(p, size) == IfEnough(p, size, Take(p, size))
Copied(p, size) == IfEnough(p, size, Ready(p, SubSeq(FlattenSeq(p.items), 1, size)))

CanRead(h, size) == Checked(PullTo(h, size), size)
ReadExact(h, size) == Taken(PullTo(h, size), size)
Copy(h, size) == Copied(PullTo(h, size), size)

DropPayload(h, size) == [h EXCEPT !.items = IF size <= Size(@) THEN Cut(@, size) ELSE @]

UnreadData(h, data) == [h EXCEPT !.items = <<data>> \o @]

(* read_until: the end of the first match the scan finds, 0 if none.  The  *)
(* scan starts over after a byte that does not fit.                        *)
RECURSIVE Scan(_, _, _, _)
Scan(bytes, line, p, idx) ==
  CASE idx = Len(line) -> p
    [] idx < Len(line) /\ p = Len(bytes) -> 0
    [] OTHER -> Scan(bytes, line, p + 1, IF bytes[p + 1] = line[idx + 1] THEN idx + 1 ELSE 0)
ScanEnd(bytes, line) == Scan(bytes, line, 0, 0)

TakeFound(p, n) == IF n > 0 THEN Take(p, n) ELSE Short(p)
TakeLine(p, line) == TakeFound(p, ScanEnd(FlattenSeq(p.items), line))
ReadUntil(h, line) ==
  TakeLine(PullFirst(h, {k \in 0..Len(h.src) : ScanEnd(FlattenSeq(Pull(h, k).items), line) > 0}), line)
=============================================================================
