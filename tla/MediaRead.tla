------------------------------ MODULE MediaRead ------------------------------
(***************************************************************************)
(* One download, by any of five routes: the gRPC handler stream_media      *)
(* (crates/kaidadb-api/src/grpc.rs), the REST handler get_media (rest.rs)  *)
(* and the engine's own stream, read_range and read (engine.rs).  Each     *)
(* reads the manifest once and its chunks one by one much later, while     *)
(* other requests overwrite and delete the object, reclaim its files, fill *)
(* and invalidate the shared cache, and files rot.                         *)
(*                                                                         *)
(* An object is the sequence of its chunks; byte i of chunk c is <<c, i>>. *)
(* u64 arithmetic wraps at Width.  What commits, deletes and the collector *)
(* do inside the engine is StorageEngine's matter: here a commit is one    *)
(* step and files go once no object refers to them.                        *)
(***************************************************************************)
EXTENDS ChunkCache

CONSTANTS
  Objects,           \* the objects clients store: sequences of chunks
  ChunkSize,         \* chunk_size, in bytes
  Width,             \* u64 wraps here
  Ranges,            \* what clients ask for over gRPC or of the engine: <<offset, length>>
  Headers,           \* Range headers: see RangeHeaders
  Popular,           \* bound: the chunks other downloads read
  Capacity,          \* of the channel, per route
  Window,            \* chunks get_media reads ahead
  MaxWrites,         \* bound: overwrites and deletes
  MaxFaults,         \* bound: files that rot
  None

Routes == {"grpc", "rest", "stream", "range", "whole"}
RangeHeaders == {None} \cup [kind : {"suffix"}, n : Nat]
                  \cup [kind : {"from"}, first : Nat, last : Nat \cup {None}]

Total(o) == Size(o)
WellFormed(o) ==
  \A i \in 1..Len(o) : IF i = Len(o) THEN Bytes[o[i]] \in 1..ChunkSize ELSE Bytes[o[i]] = ChunkSize

ASSUME ReadBounds ==
  /\ Objects \subseteq Seq(Chunks) /\ \A o \in Objects : WellFormed(o) /\ Total(o) < Width
  /\ {ChunkSize, Width, Window} \subseteq Nat \ {0}
  /\ Ranges \subseteq (0..(Width - 1)) \X (0..(Width - 1))
  /\ Headers \subseteq RangeHeaders
  /\ Capacity \in [{"grpc", "rest", "stream"} -> Nat \ {0}]
  /\ {MaxWrites, MaxFaults} \subseteq Nat /\ Popular \subseteq Chunks

VARIABLES
  manifest,   \* the object under the key, or None
  files,      \* chunk files: "absent", "whole" or "damaged"
  deleting,   \* chunks a delete has still to invalidate, or None
  writes, faults,
  route, object, offset, end,   \* the request and the manifest it read
  declared,   \* Content-Length, None where there is none
  changed,    \* history: the key was written or a file rotted since, or was
              \* damaged already
  task,       \* idle, lookup, read, insert, send, fail, over
  ahead,      \* get_media is still reading ahead
  idx,        \* the chunk it is at
  data,       \* the chunk's bytes, in hand
  position,   \* current_offset
  chan,       \* the channel
  got,        \* the messages the client has
  client      \* idle, reading, gone, or how it ended: done, failed, not found

storeVars   == <<manifest, files, deleting, writes, faults>>
requestVars == <<route, object, offset, end, declared>>
taskVars    == <<task, ahead, idx, data, position>>
clientVars  == <<chan, got, client>>
vars == <<storeVars, cacheVars, requestVars, changed, taskVars, clientVars>>

Error == [error |-> TRUE]
Lesser(a, b) == IF a < b THEN a ELSE b
Content(c) == [i \in 1..Bytes[c] |-> <<c, i>>]
ContentOf(o) == FlattenSeq([i \in 1..Len(o) |-> Content(o[i])])

Init ==
  /\ manifest \in Objects \cup {None}
  /\ files = [c \in Chunks |->
                IF manifest # None /\ c \in Range(manifest) THEN "whole" ELSE "absent"]
  /\ deleting = None /\ writes = 0 /\ faults = 0
  /\ CacheInit
  /\ route = None /\ object = <<>> /\ offset = 0 /\ end = 0 /\ declared = None
  /\ changed = FALSE
  /\ task = "idle" /\ ahead = FALSE /\ idx = 0 /\ data = <<>> /\ position = 0
  /\ chan = <<>> /\ got = <<>> /\ client = "idle"

-----------------------------------------------------------------------------
(* The other requests *)

Referenced(c) == manifest # None /\ c \in Range(manifest)

\* A commit: the chunks it lacks are written, files that exist are kept as
\* they are, then the manifest names the new object.
Store(o) ==
  /\ writes < MaxWrites /\ writes' = writes + 1
  /\ manifest' = o
  /\ files' = [c \in Chunks |->
                 IF c \in Range(o) /\ files[c] = "absent" THEN "whole" ELSE files[c]]
  /\ changed' = TRUE
  /\ UNCHANGED <<deleting, faults, cacheVars, requestVars, taskVars, clientVars>>

\* delete_media, gRPC's and REST's, first invalidates the chunks of the
\* manifest it finds, then has the engine delete whatever is there.
BeginDelete ==
  /\ deleting = None /\ writes < MaxWrites /\ manifest # None
  /\ deleting' = manifest
  /\ UNCHANGED <<manifest, files, writes, faults, cacheVars, requestVars, changed, taskVars,
                 clientVars>>

InvalidateNext ==
  /\ deleting \notin {None, <<>>}
  /\ deleting' = Tail(deleting)
  /\ CacheInvalidate(Head(deleting))
  /\ UNCHANGED <<manifest, files, writes, faults, requestVars, changed, taskVars, clientVars>>

CommitDelete ==
  /\ deleting = <<>> /\ writes < MaxWrites /\ writes' = writes + 1
  /\ deleting' = None /\ manifest' = None
  /\ changed' = TRUE
  /\ UNCHANGED <<files, faults, cacheVars, requestVars, taskVars, clientVars>>

Reclaim_Any(c) ==
  /\ files[c] # "absent"
  /\ files' = [files EXCEPT ![c] = "absent"]
  /\ UNCHANGED <<manifest, deleting, writes, faults, cacheVars, requestVars, changed, taskVars,
                 clientVars>>

\* The file of a chunk that no object refers to any more is removed.
Reclaim(c) ==
  /\ files[c] # "absent" /\ ~Referenced(c)
  /\ files' = [files EXCEPT ![c] = "absent"]
  /\ UNCHANGED <<manifest, deleting, writes, faults, cacheVars, requestVars, changed, taskVars,
                 clientVars>>

Rot(c) ==
  /\ faults < MaxFaults /\ faults' = faults + 1
  /\ files[c] = "whole"
  /\ files' = [files EXCEPT ![c] = "damaged"]
  /\ changed' = TRUE
  /\ UNCHANGED <<manifest, deleting, writes, cacheVars, requestVars, taskVars, clientVars>>

Readable_NoCrc(c) == files[c] # "absent"

\* read_chunk and decode: a file that is there and whose header, length and CRC
\* agree.
Readable(c) == files[c] = "whole"

\* What a decode without its checks would yield: byte 0 stands for any rot.
Decoded(c) == IF files[c] = "whole" THEN Content(c) ELSE [i \in 1..Bytes[c] |-> <<c, 0>>]

\* Another download takes a chunk through the cache.
OtherDownload(c) ==
  /\ IF Cached(c) THEN CacheGet(c) ELSE Readable(c) /\ CacheInsert(c)
  /\ UNCHANGED <<storeVars, requestVars, changed, taskVars, clientVars>>

\* (Nothing they do matters to it once the task has ended.)
Others ==
  /\ task # "over"
  /\ \/ \E o \in Objects : Store(o)
     \/ BeginDelete \/ InvalidateNext \/ CommitDelete
     \/ \E c \in Chunks : Reclaim(c) \/ Rot(c)
     \/ \E c \in Popular : OtherDownload(c)

-----------------------------------------------------------------------------
(* The request *)

\* parse_range_header: the offset, the length (0: to the end), and whether the
\* answer is partial.  What cannot be satisfied is ignored.
ParseRange(h, total) ==
  LET whole == [offset |-> 0, length |-> 0, partial |-> FALSE]
      part(first, last) == [offset |-> first, length |-> last - first + 1, partial |-> TRUE]
  IN IF total = 0 \/ h = None THEN whole
     ELSE IF h.kind = "suffix"
     THEN IF h.n = 0 THEN whole
          ELSE part(IF h.n > total THEN 0 ELSE total - h.n, total - 1)
     ELSE LET last == IF h.last = None THEN total - 1 ELSE Lesser(h.last, total - 1)
          IN IF h.first >= total \/ last < h.first THEN whole ELSE part(h.first, last)

\* The first byte not wanted; offset + length wraps.
EndOf(off, len, total) == IF len = 0 THEN total ELSE Lesser((off + len) % Width, total)

Ask(r, off, len) ==
  /\ task = "idle" /\ client = "idle" /\ manifest # None
  /\ route' = r /\ object' = manifest
  /\ changed' = \E c \in Range(manifest) : ~Readable(c)
  /\ offset' = off /\ position' = off
  /\ end' = EndOf(off, len, Total(manifest))
  /\ idx' = off \div ChunkSize
  /\ UNCHANGED <<storeVars, cacheVars, data, chan, got>>

\* Where offset + length wraps to an end before offset, read_range asks for a
\* buffer of nearly 2^64 bytes and stream may slice the chunk list backwards:
\* both panic in the caller.
Panics(r, off, e, o) ==
  /\ off < Total(o) /\ e < off
  /\ r = "range" \/ (r = "stream" /\ e > 0 /\ off \div ChunkSize > ((e - 1) \div ChunkSize) + 1)

\* stream_media, stream and read_range: nothing is sent from behind the end.
AskRange(r, off, len) ==
  /\ r \in {"grpc", "stream", "range"}
  /\ Ask(r, off, len)
  /\ LET e == EndOf(off, len, Total(manifest))
     IN /\ client' = IF Panics(r, off, e, manifest) THEN "failed" ELSE "reading"
        /\ task' = IF off >= Total(manifest) \/ Panics(r, off, e, manifest)
                   THEN "over" ELSE "lookup"
  /\ ahead' = FALSE /\ declared' = None

\* get_media: the answer's Content-Length is announced before any chunk is read.
AskHeader(h) ==
  LET q == ParseRange(h, Total(manifest))
      e == EndOf(q.offset, q.length, Total(manifest))
  IN /\ manifest # None
     /\ Ask("rest", q.offset, q.length)
     /\ task' = "lookup" /\ ahead' = TRUE /\ client' = "reading"
     /\ declared' = IF q.partial THEN e - q.offset ELSE Total(manifest)

\* read
AskWhole ==
  /\ Ask("whole", 0, 0)
  /\ task' = "lookup" /\ ahead' = FALSE /\ declared' = None /\ client' = "reading"

NotFound ==
  /\ task = "idle" /\ client = "idle" /\ manifest = None
  /\ client' = "not found"
  /\ UNCHANGED <<storeVars, cacheVars, requestVars, changed, taskVars, chan, got>>

-----------------------------------------------------------------------------
(* The task that reads and sends the chunks *)

HasChannel == route \in {"grpc", "rest", "stream"}
UsesCache == route \in {"grpc", "rest"}

StartIdx == offset \div ChunkSize
EndIdx == IF route = "rest" /\ end = 0 THEN 0 ELSE ((end - 1) % Width) \div ChunkSize
LastIdx == Lesser(EndIdx, Len(object) - 1)
AheadEnd == Lesser(Lesser(EndIdx + 1, StartIdx + Window), Len(object))
Chunk == object[idx + 1]

Over == task' = "over" /\ data' = <<>> /\ UNCHANGED <<ahead, idx, position>>

\* The next chunk, or the end.  get_media's task looks whether its client is
\* still there, and panics on the first chunk of an empty object, which has none.
\* (Both ends of the body are empty then.)
Lookup ==
  /\ task = "lookup"
  /\ \/ /\ ahead /\ idx >= AheadEnd
        /\ ahead' = FALSE /\ idx' = StartIdx
        /\ UNCHANGED <<cacheVars, task, data, position>>
     \/ /\ ahead /\ idx < AheadEnd
        /\ CacheGet(Chunk)
        /\ IF Cached(Chunk) THEN idx' = idx + 1 /\ UNCHANGED task
                            ELSE task' = "read" /\ UNCHANGED idx
        /\ UNCHANGED <<ahead, data, position>>
     \/ /\ ~ahead /\ (idx > LastIdx \/ (route = "rest" /\ client # "reading"))
        /\ Over /\ UNCHANGED cacheVars
     \/ /\ ~ahead /\ idx <= LastIdx /\ (route # "rest" \/ client = "reading")
        /\ UNCHANGED <<ahead, idx, position>>
        /\ IF UsesCache THEN CacheGet(Chunk) ELSE UNCHANGED cacheVars
        /\ IF UsesCache /\ Cached(Chunk) THEN task' = "send" /\ data' = Content(Chunk)
                                         ELSE task' = "read" /\ UNCHANGED data
  /\ UNCHANGED <<storeVars, requestVars, changed, clientVars>>

\* read_chunk; reading ahead, an error is passed over.
Read ==
  /\ task = "read"
  /\ \/ /\ Readable(Chunk)
        /\ data' = Decoded(Chunk)
        /\ task' = IF UsesCache THEN "insert" ELSE "send"
        /\ UNCHANGED <<idx, ahead>>
     \/ /\ ~Readable(Chunk) /\ ahead
        /\ idx' = idx + 1 /\ task' = "lookup"
        /\ UNCHANGED <<ahead, data>>
     \/ /\ ~Readable(Chunk) /\ ~ahead
        /\ task' = "fail"
        /\ UNCHANGED <<idx, ahead, data>>
  /\ UNCHANGED <<storeVars, cacheVars, requestVars, changed, position, clientVars>>

Insert ==
  /\ task = "insert"
  /\ CacheInsert(Chunk)
  /\ IF ahead THEN task' = "lookup" /\ idx' = idx + 1
              ELSE task' = "send" /\ UNCHANGED idx
  /\ data' = IF ahead THEN <<>> ELSE data
  /\ UNCHANGED <<storeVars, requestVars, changed, ahead, position, clientVars>>

SliceEnd_Inclusive ==
  Lesser(IF idx = EndIdx /\ route # "whole" THEN (end - 1 - idx * ChunkSize) % Width ELSE Len(data),
         Len(data))

\* The slice of the chunk the request covers, counted from 0.
SliceStart == IF idx = StartIdx /\ route # "whole" THEN offset - idx * ChunkSize ELSE 0
SliceEnd ==
  Lesser(IF idx = EndIdx /\ route # "whole" THEN (end - idx * ChunkSize) % Width ELSE Len(data),
         Len(data))

HasRoom == HasChannel => Len(chan) < Capacity[route]

\* is_last
IsLast == idx = LastIdx

Send_IgnoresClose ==
  /\ task = "send"
  /\ client = "reading" /\ SliceStart <= SliceEnd /\ HasRoom
  /\ LET slice == SubSeq(data, SliceStart + 1, SliceEnd)
     IN /\ chan' = Append(chan, [bytes |-> slice, offset |-> position, last |-> IsLast])
        /\ position' = position + Len(slice)
  /\ idx' = idx + 1 /\ task' = "lookup"
  /\ UNCHANGED <<ahead, data, storeVars, cacheVars, requestVars, changed, got, client>>

\* tx.send waits for room; a slice whose start lies behind its end panics and
\* ends the task, which ends the stream; so does a client that is gone.
Send ==
  /\ task = "send"
  /\ \/ /\ HasChannel /\ client # "reading"
        /\ Over /\ UNCHANGED chan
     \/ /\ client = "reading" /\ SliceStart > SliceEnd
        /\ Over /\ UNCHANGED chan
     \/ /\ client = "reading" /\ SliceStart <= SliceEnd /\ HasRoom
        /\ LET slice == SubSeq(data, SliceStart + 1, SliceEnd)
           IN /\ chan' = Append(chan, [bytes |-> slice, offset |-> position, last |-> IsLast])
              /\ position' = position + Len(slice)
        /\ idx' = idx + 1 /\ task' = "lookup" /\ data' = <<>>
        /\ UNCHANGED ahead
  /\ UNCHANGED <<storeVars, cacheVars, requestVars, changed, got, client>>

\* The error follows what was sent; read_range and read return nothing else.
Fail ==
  /\ task = "fail"
  /\ \/ client # "reading" /\ UNCHANGED chan
     \/ /\ client = "reading" /\ HasRoom
        /\ chan' = IF HasChannel THEN Append(chan, Error) ELSE <<Error>>
  /\ Over
  /\ UNCHANGED <<storeVars, cacheVars, requestVars, changed, got, client>>

Task == Lookup \/ Read \/ Insert \/ Send \/ Fail

-----------------------------------------------------------------------------
(* The client *)

Receive ==
  /\ client = "reading" /\ chan # <<>> /\ (HasChannel \/ task = "over")
  /\ chan' = Tail(chan)
  /\ IF Head(chan) = Error THEN client' = "failed" /\ UNCHANGED got
                           ELSE got' = Append(got, Head(chan)) /\ UNCHANGED client
  /\ UNCHANGED <<storeVars, cacheVars, requestVars, changed, taskVars>>

\* The stream ends when the task has dropped its sender.
StreamEnds ==
  /\ client = "reading" /\ chan = <<>> /\ task = "over"
  /\ client' = "done"
  /\ UNCHANGED <<storeVars, cacheVars, requestVars, changed, taskVars, chan, got>>

Leave ==
  /\ client = "reading" /\ HasChannel
  /\ client' = "gone" /\ chan' = <<>>
  /\ UNCHANGED <<storeVars, cacheVars, requestVars, changed, taskVars, got>>

Request ==
  \/ \E r \in {"grpc", "stream", "range"}, q \in Ranges : AskRange(r, q[1], q[2])
  \/ \E h \in Headers : AskHeader(h)
  \/ AskWhole \/ NotFound

Next == Others \/ Request \/ Task \/ Receive \/ StreamEnds \/ Leave

Spec == Init /\ [][Next]_vars

\* The runtime runs the task; a client may stall for ever.
FairSpec == Spec /\ WF_vars(Task)

-----------------------------------------------------------------------------
(* Properties *)

\* Every variable has its type.
ReadTypeOK ==
  /\ manifest \in Objects \cup {None} /\ files \in [Chunks -> {"absent", "whole", "damaged"}]
  /\ deleting \in {None} \cup Seq(Chunks)
  /\ writes \in 0..MaxWrites /\ faults \in 0..MaxFaults
  /\ CacheTypeOK
  /\ route \in Routes \cup {None} /\ object \in Objects \cup {<<>>}
  /\ {offset, end, idx, position} \subseteq Nat /\ declared \in Nat \cup {None}
  /\ changed \in BOOLEAN /\ ahead \in BOOLEAN
  /\ task \in {"idle", "lookup", "read", "insert", "send", "fail", "over"}
  /\ \A i \in 1..Len(chan) :
       chan[i] = Error \/ (chan[i].offset \in Nat /\ chan[i].last \in BOOLEAN)
  /\ client \in {"idle", "reading", "gone", "done", "failed", "not found"}

Delivered == FlattenSeq([i \in 1..Len(got) |-> got[i].bytes])

\* The bytes asked for, in unbounded arithmetic: `end` as it would be without
\* the wrap is the total whenever the addition wrapped.
Wrapped == end < offset
Wanted == SubSeq(ContentOf(object), offset + 1, IF Wrapped THEN Total(object) ELSE end)

\* Whatever happens to the object, its files and the cache meanwhile, a client
\* holds at every moment a prefix of the range it asked for, of the one object
\* the key had when it asked: never a mix of two, never a byte of a damaged file.
OneVersion == IsPrefix(Delivered, Wanted)

\* A stream that ends without an error is complete; and an answer over REST has
\* exactly the Content-Length it announced.  (Where offset + length wraps, the
\* stream ends early and in silence: engine.rs:247, grpc.rs:174.)
EndMeansWhole ==
  client = "done" /\ ~Wrapped =>
    /\ Delivered = Wanted
    /\ route = "rest" => Len(Delivered) = declared

\* A client fails only if the object was replaced or deleted, or a file rotted,
\* after it asked, or had before; a download of an object left alone succeeds.
FailureHasCause == client = "failed" /\ ~Wrapped => changed

\* gRPC messages number their bytes without gap, and the one marked is_last
\* completes the range.
MarksTrue ==
  route = "grpc" =>
    /\ \A i \in 1..Len(got) :
         got[i].offset = offset + Len(FlattenSeq([j \in 1..(i - 1) |-> got[j].bytes]))
    /\ \A i \in 1..Len(got) : got[i].last <=> (i = Len(got) /\ Delivered = Wanted)

\* What holds of the cache and of the messages a client has, throughout: the
\* counter of lib.rs:80 included, and the marks of grpc.rs:235.
ReadInv == ReadTypeOK /\ CacheWithinLimits /\ MarksTrue

\* The task never hangs: it ends, or waits for room in the channel of a client
\* that is still there; a client that goes away ends it.
TaskEnds ==
  task \notin {"idle", "over"} ~> task = "over" \/ (client = "reading" /\ ~HasRoom)
=============================================================================
