-------------------------------- MODULE Files ---------------------------------
(***************************************************************************)
(* Static files (fs.rs): StaticFiles finds what a path names below its     *)
(* directory, with PathBuf::from_param (param.rs); NamedFile answers with  *)
(* the file unless a conditional header says otherwise; ChunkedReadFile    *)
(* reads it piece by piece on a thread pool.  The file may be rewritten at *)
(* any time, also while it is being read, and a client keeps what it has   *)
(* received, with its entity tag and date, to make conditional requests.   *)
(* There are no symbolic links and all may be read.                        *)
(***************************************************************************)
EXTENDS Integers, Sequences, FiniteSets

CONSTANTS
  Segments,   \* segments of a requested path
  MaxDepth,   \* bound: segments of a path
  Sizes,      \* sizes of the file
  ChunkSize,  \* 65,536: the largest piece asked for at once
  Inline,     \* 31: the least capacity of a BytesMut
  MaxTime     \* bound: the clock

VARIABLES
  config,     \* accessible, index, listing, onlyget and status of the handler
  disk,       \* the file: version, size and time of modification
  clock,      \* the time, in units of which two make a second
  cache,      \* what the client keeps: version, tag and date of a whole response
  out,        \* the last answer
  reader      \* the ChunkedReadFile of the answer

vars == <<config, disk, clock, cache, out, reader>>

Nothing == [version |-> 0, tag |-> <<0, 0>>, date |-> -1]
NoAnswer == [status |-> 0, cond |-> "none", tail |-> <<>>, path |-> <<>>,
             version |-> 0, tag |-> <<0, 0>>, date |-> -1, held |-> 0]
Idle == [state |-> "none", size |-> 0, offset |-> 0, read |-> 0, seen |-> {}]

(* The directory: a file, its index, and a directory with one.             *)
File == <<"a">>
IndexName == "i"
Dirs == {<<>>, <<"d">>}
Exists == Dirs \cup {File, <<IndexName>>, <<"d", IndexName>>}

(* A StaticFiles, and a NamedFile that a handler returns.                  *)
Static == [accessible : BOOLEAN, index : BOOLEAN, listing : BOOLEAN, onlyget : {FALSE}, status : {200}]
Named == [accessible : {TRUE}, index : {FALSE}, listing : {FALSE}, onlyget : BOOLEAN, status : {200, 404}]

Init ==
  /\ config \in Static \cup Named
  /\ \E n \in Sizes : disk = [version |-> 1, size |-> n, time |-> 1]
  /\ clock = 1 /\ cache = Nothing /\ out = NoAnswer /\ reader = Idle

(* Another process writes the file, later than before.                     *)
Modify ==
  /\ clock < MaxTime /\ clock' = clock + 1
  /\ \/ UNCHANGED disk
     \/ \E n \in Sizes : disk' = [version |-> disk.version + 1, size |-> n, time |-> clock']
  /\ UNCHANGED <<config, cache, out, reader>>

-----------------------------------------------------------------------------
(* PathBuf::from_param over the segments of the decoded tail: ".." drops a *)
(* segment, an empty one counts for nothing, a hidden or odd one refuses   *)
(* the path.                                                               *)
Bad == {".h", "*", "c:"}
Step(buf, segment) ==
  IF segment = ".." THEN SubSeq(buf, 1, Len(buf) - 1)
  ELSE IF segment = "" THEN buf ELSE Append(buf, segment)
FromParam(tail) ==
  LET walk[i \in 0..Len(tail)] ==
        IF i = 0 THEN <<>> ELSE LET before == walk[i - 1] IN Step(before, tail[i])
  IN [ok |-> \A i \in DOMAIN tail : tail[i] \notin Bad, path |-> walk[Len(tail)]]

(* The entity tag and the date of the file; a date in a header has no      *)
(* fractions of a second.                                                  *)
Etag(f) == <<f.size, f.time>>
HeaderDate(t) == (t \div 2) * 2

(* any_match, none_match and the dates, for headers made from the cache.   *)
AnyMatch(cond) == cond = "If-Match" => cache.tag = Etag(disk)
NoneMatch(cond) == cond = "If-None-Match" => cache.tag # Etag(disk)
PreconditionFailed(cond) ==
  ~AnyMatch(cond) \/ (cond = "If-Unmodified-Since" /\ disk.time > cache.date)
NotModifiedBySecond(cond) ==
  ~NoneMatch(cond) \/ (cond = "If-Modified-Since" /\ HeaderDate(disk.time) <= cache.date)
NotModified(cond) ==
  ~NoneMatch(cond) \/ (cond = "If-Modified-Since" /\ disk.time <= cache.date)

(* NamedFile::respond_to: what it answers with, and whether it reads.      *)
Streaming == [Idle EXCEPT !.state = "new", !.size = disk.size]
FileStatus(method, cond) ==
  IF config.status # 200 THEN config.status
  ELSE IF config.onlyget /\ method \notin {"GET", "HEAD"} THEN 405
  ELSE IF PreconditionFailed(cond) THEN 412
  ELSE IF NotModified(cond) THEN 304 ELSE 200
Respond(tail, method, cond) ==
  LET status == FileStatus(method, cond)
      streams == status = config.status /\ (status = 200 => method # "HEAD")
  IN /\ out' = [status |-> status, cond |-> cond, tail |-> tail, path |-> File,
                version |-> disk.version, tag |-> Etag(disk),
                date |-> HeaderDate(disk.time), held |-> cache.version]
     /\ reader' = IF streams THEN Streaming ELSE Idle

(* The redirect to the index of a directory: the path as requested, then   *)
(* the segments below the handler's directory again, then the index.       *)
Location(tail, path) ==
  LET asked == SelectSeq(tail, LAMBDA segment : segment # "")
      open == tail # <<>> /\ tail[Len(tail)] = ""
  IN IF path = <<>> THEN Append(asked, IndexName)
     ELSE IF open \/ asked = <<>> THEN Append(asked \o path, IndexName)
     ELSE SubSeq(asked, 1, Len(asked) - 1) \o <<asked[Len(asked)] \o path[1]>>
          \o SubSeq(path, 2, Len(path)) \o <<IndexName>>

(* StaticFiles::handle, up to the file.  What canonicalize does not find   *)
(* is an io::Error, NotFound, and is answered with 404 like the rest.      *)
Found(tail) == config.accessible /\ FromParam(tail).ok
Elsewhere(tail) ==
  LET path == FromParam(tail).path
      is(status, result) == out' = [NoAnswer EXCEPT !.status = status, !.tail = tail, !.path = result]
  IN /\ ~Found(tail) \/ path # File
     /\ IF ~Found(tail) THEN is(404, <<>>)
        ELSE IF path \notin Exists THEN is(404, path)
        ELSE IF path \notin Dirs THEN is(200, path)
        ELSE IF config.index THEN is(302, Location(tail, path))
        ELSE IF config.listing THEN is(200, path) ELSE is(404, path)

Tails == UNION {[1..n -> Segments] : n \in 0..MaxDepth}
Conditions == {"none", "If-Match", "If-None-Match", "If-Modified-Since", "If-Unmodified-Since"}

(* A request: the first for any path, a later one for the file, with what  *)
(* the client keeps.                                                       *)
First == out = NoAnswer /\ clock = 1
Handle ==
  /\ reader.state = "none"
  /\ \/ /\ First
        /\ \E tail \in Tails : Elsewhere(tail) /\ UNCHANGED reader
     \/ \E tail \in (IF First THEN Tails ELSE {File}),
             method \in {"GET", "HEAD", "POST"}, cond \in Conditions :
          /\ Found(tail) /\ FromParam(tail).path = File
          /\ cond # "none" => cache # Nothing
          /\ Respond(tail, method, cond)
  /\ UNCHANGED <<config, disk, clock, cache>>

-----------------------------------------------------------------------------
(* ChunkedReadFile::poll: nothing is being read.                           *)
AtEnd(r) == r.offset = r.size
Spawn ==
  /\ reader.state = "new"
  /\ IF AtEnd(reader)
     THEN /\ reader' = Idle
          /\ cache' = [version |-> out.version, tag |-> out.tag, date |-> out.date]
     ELSE reader' = [reader EXCEPT !.state = "reading"] /\ UNCHANGED cache
  /\ UNCHANGED <<config, disk, clock, out>>

(* The pool's thread seeks to the offset and reads at most what the buffer *)
(* takes of what the file now has; nothing there is an error.  The buffer  *)
(* is made for the rest of the size, or a chunk, and takes at least Inline *)
(* bytes: of a file that has grown, more than the size may be read.        *)
Smallest(S) == CHOOSE n \in S : \A k \in S : n <= k
Asked(r) == Smallest({IF r.size > r.offset THEN r.size - r.offset ELSE 0, ChunkSize})
Piece(r) == Smallest({IF Asked(r) < Inline THEN Inline ELSE Asked(r), disk.size - r.offset})
ReadChunk ==
  /\ reader.state = "reading"
  /\ IF Piece(reader) <= 0 THEN reader' = [Idle EXCEPT !.state = "failed"]
     ELSE \E n \in 1..Piece(reader) :
            reader' = [reader EXCEPT !.state = "read", !.read = n, !.seen = @ \cup {disk.version}]
  /\ UNCHANGED <<config, disk, clock, cache, out>>

(* The next poll takes the piece, and gives it to the response.            *)
Take ==
  /\ reader.state = "read"
  /\ reader' = [reader EXCEPT !.state = "new", !.offset = @ + reader.read, !.read = 0]
  /\ UNCHANGED <<config, disk, clock, cache, out>>

(* An error ends the response; the client keeps nothing of it.             *)
Fail ==
  /\ reader.state = "failed" /\ reader' = Idle
  /\ UNCHANGED <<config, disk, clock, cache, out>>

Next == Modify \/ Handle \/ Spawn \/ ReadChunk \/ Take \/ Fail
Spec == Init /\ [][Next]_vars

-----------------------------------------------------------------------------
(* The values of the variables.                                            *)
TypeOK ==
  /\ clock \in 1..MaxTime /\ disk.time \in 1..clock /\ disk.size \in Sizes
  /\ \E n \in Sizes : reader.offset + reader.read <= n
  /\ reader.state \in {"none", "new", "reading", "read", "failed"}

(* A client told that what it keeps is still the file, keeps the file as   *)
(* it was at that time, although the dates of the headers are cut to       *)
(* seconds and the file may change twice in one.                           *)
NeverStale == out.status = 304 => out.held = out.version

(* A request made on the condition that the file is still the one the      *)
(* client keeps is not carried out on another one.                         *)
Guarded ==
  (out.status = 200 /\ out.cond \in {"If-Match", "If-Unmodified-Since"}) => out.held = out.version

(* A body has no more than the size found when the file was opened, unless *)
(* the file was written while it was read; its pieces come from the        *)
(* version answered with or later ones (ChunkedReadFile::poll).            *)
ReadsWithin ==
  reader.state \in {"new", "reading", "read"} =>
     /\ reader.offset + reader.read > reader.size => disk.version > out.version
     /\ reader.seen \subseteq out.version..disk.version

(* What the handler looks up is what the segments of the path say, where   *)
(* ".." takes back the last one that is left and never leads out of the    *)
(* directory; a path with a hidden or odd segment is looked up nowhere     *)
(* (PathBuf::from_param, StaticFiles::handle).                             *)
Names(tail) == {i \in DOMAIN tail : tail[i] \notin {"..", ""}}
TakenBack(tail, i) ==
  \E j \in (i + 1)..Len(tail) :
     Cardinality({k \in (i + 1)..j : tail[k] = ".."}) > Cardinality(Names(tail) \cap (i + 1)..j)
Left(tail) == {i \in Names(tail) : ~TakenBack(tail, i)}
StaysBelow ==
  (out.status # 0 /\ config.accessible) =>
     IF FromParam(out.tail).ok
     THEN out.status # 302 =>
            /\ Len(out.path) = Cardinality(Left(out.tail))
            /\ \A i \in Left(out.tail) : out.path[Cardinality(Left(out.tail) \cap 1..i)] = out.tail[i]
     ELSE out.status = 404 /\ out.path = <<>>

(* The redirect for the directory of the handler itself leads to its       *)
(* index.  (For one below it the code repeats the path, fs.rs:567.)        *)
LeadsToIndex ==
  (out.status = 302 /\ FromParam(out.tail).path = <<>> /\ ".." \notin {out.tail[i] : i \in DOMAIN out.tail}) =>
     FromParam(out.path).path = <<IndexName>>
=============================================================================
