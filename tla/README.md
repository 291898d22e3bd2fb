# KaidaDB: verification project

KaidaDB is a media database: objects are cut into content-addressed chunks,
stored as files; an append-only log with two in-memory maps indexes them; gRPC
and REST servers, a command line client and a terminal UI sit on top. This
directory holds TLA+ models of its components, the TLC runs that check them and
the TLAPS proofs about them. Paths are relative to `src/`.

## 1. The system

| Component | State | Operations | Hard parts |
|---|---|---|---|
| `StorageEngine`, `StoreSession` (`kaidadb-storage/src/engine.rs`) | per-key mutexes; per session: chunk list, buffer, size | begin_store, write, finish, abort, delete, rename, gc, read, list | races of commits, deletes, renames and the collector over shared chunks; calls that fail half-way; the process dying between two steps |
| `Index` (`index.rs`) | manifests, chunk locations with counts; the log file; entry counter; locks | put/delete manifest, add/decrement chunk reference, list, compact, open (replay) | lines written in two system calls, torn tails, compaction while others append, power loss |
| `BlobStore`, chunk format (`blob_store.rs`, `chunk_format.rs`) | chunk files in place | write (temp file, rename), read, delete, enumerate | exists-then-act races; leftovers of kills |
| `ChunkCache` (`kaidadb-cache`) | LRU map, byte counter | get, insert, invalidate, stats | two limits (bytes, entries) and one counter |
| gRPC and REST handlers (`kaidadb-api`) | per request: a bounded channel, a worker, a stream | store/put, stream/get with ranges, delete, rename, list, streams, HLS/DASH | disconnects and timeouts in the middle of an upload; range arithmetic; pagination |
| Server process (`kaidadb-server`, `service/`) | engine, cache, collector task, shutdown signal | start, collect periodically, drain, exit | requests in flight at shutdown, SIGTERM |
| Server key (`kaidadb-common/src/server_key.rs`) | hash file | create, load, regenerate | non-atomic, unsynced write |
| Terminal UI (`kaidadb-tui`) | staged uploads, worker, progress, selections | upload, cancel, rename, delete directories | events of a worker that outlives its view; batches that fail half-way |
| CLI (`kaidadb-cli`), cluster (`kaidadb-cluster`) | none | one request per run; placeholder | |

Components interact by direct calls (handlers -> engine -> index and blob
store), by a bounded channel between an upload handler and its blocking worker,
by the shared cache, and through two kinds of shared state on disk: the log and
the chunk files, which every restart reads back.

What makes each correct:

* engine: counts equal the references objects hold; an object is visible whole
  or not at all, leaves only by its own delete or replacement, and never comes
  back; what is stored can be read, but for the races named; calls end.
* index: what a call acknowledged survives a restart; the memory is the replay
  of the log.
* cache: never above its limits; its counter never below its content.
* handlers: only complete uploads are committed; a download is a prefix of one
  version, and complete if it ends without an error; a walk through pages
  meets every key that stays; a playlist is whole and in order.
* server: one lock per key whatever the table of mutexes drops; the key survives
  kills, and opens for nobody whose key was replaced before the start; a signalled
  server stops.
* terminal UI: what a key acts on is what the screen shows; only what was asked
  for is removed; a worker's events add up.

The hazards behind these are listed, with their source lines and the properties
that cover them, in `PROJECT.json`.

## 2. Plan

The plan and its order; all of it is in this directory.

| Module | Models | Composed with |
|---|---|---|
| `StorageEngine` | sessions, deletes, renames, collector, failures, restarts | `MediaStore` (what the engine promises), mapped by `StorageRefinement`; `StorageInvariant`; proved in `StorageEngineProofs` |
| `IndexLog` | the log line by line: appends, sync, compaction, kill, power loss, replay | `LogInvariant`, proved in `IndexLogProofs` |
| `Upload` | handler, channel, worker, client failures, timeout | `UploadProofs` |
| `MediaRead` | downloads by five routes under overwrites, deletes and damaged files | extends `ChunkCache`; `MediaReadInvariant`, proved in `MediaReadProofs` |
| `Listing`, `Streams` | pagination; streams, HLS, DASH | Streams extends Listing; `StreamsInvariant`, proved in `StreamsProofs` |
| `Selection` | filtering a list, and the order that sorting gives | used by Listing and Tui |
| `SequenceLemmas` | induction; what recursive functions, filters, sums and orders compute | used by `IndexLogProofs`, `MediaReadProofs`, `StreamsProofs` and `TuiProofs` |
| `KeyLocks` | the table of key mutexes and its pruning | implements `KeyMutex`, a lock per key, which StorageEngine takes for granted; proved in `ServerProofs` |
| `Server` | start, server key, requests, shutdown, kills | extends KeyLocks; `ServerProofs` |
| `TuiText`, `TuiBrowse`, `TuiUpload`, `Tui` | text fields; list and dialogs; browsers and worker; the event loop | each extends the one before; `TuiInvariant`, proved in `TuiProofs` |

`MC*` modules are the instances for TLC. The violation runs are kept for what
data loss or a broken promise hangs on; other disagreements are described in
section 11.

What could be added: two uploads of one process sharing the pool of blocking threads;
a second process on the same data directory; the drawing of the terminal UI.

## 3. The storage engine (StorageEngine.tla)

State. `manifests`, `refs` and `keyLock` are the index maps and the per-key
mutexes; `files` and `old` the chunk files and those past the collector's grace
period; `pc`, `key`, `dest`, `cur`, `man`, `pos` the locals of sessions and
callers; `gc` the collector's: its phase, the index it has read, the files it will
not take for recent (`stale`), those left to visit. A session is used once, so it names the object it
writes: a manifest is the session, its chunk list is `chunks[session]`. `held`
(references taken and not released), `contended` (chunks a session counted while
their file was on its way out), `damaged` (objects a failure left half released or
under two names) and `faults` are history.

The collector's clock. gc reads the index and the time before it lists the directory,
and a file written after that has no age (`duration_since` fails), which
`unwrap_or(false)` makes "not recent". So a file is passed over only if it was there
when gc began, and young then; WriteChunk beside a collection at work leaves a file on
either side of that time, because a file's time comes from the write before the rename
and from the kernel's coarser clock. Age never overtakes a session between
write_chunk and add_chunk_ref: the grace is an hour by default and that step is two
calls, an assumption about time.

Steps. One action per step another thread can observe. Index updates are single
steps (the index serialises them; IndexLog looks inside). Between
`path.exists()` and the file operation, and between the file and the index, there is
a step boundary, because the code holds no lock there. The loop that releases
an object's references is shared by finish (the replaced object), abort (its
own) and delete; they differ in what a failure does and in how they end, and
the actions keep these differences.

| Actions | Code |
|---|---|
| BeginStore, FlushChunk, WriteChunk, AddChunkRef | begin_store; write and flush_chunk, with write_chunk and add_chunk_ref |
| Finish, LockCommit, PutManifest, Abort | finish, abort |
| DeleteCall, DeleteLock; DecrementChunkRef, DeleteChunkCheck, DeleteChunk, DeleteChunkGone, ReleaseDone | delete; the release loop with decrement_chunk_ref and delete_chunk |
| RenameCall, RenameLockFirst, RenameLockSecond, RenamePut, RenameDelete | rename |
| GcReadIndex, GcListFiles, GcSkip, GcFindOrphan, GcRemoveFile, GcDone, Age | gc; time |
| FlushFails, CommitFails, ReleaseFails, RenameFails, Crash | an I/O error of one call; the process is killed and started again |

Failures leave the call's index update undone. RenameFails and ReleaseFails stand for
every step of rename and delete that can fail, a failing delete_manifest or
put_manifest included. That a failed or interrupted
append may still be in the log belongs to IndexLog. A restart keeps what is on
disk; power loss (unsynced data) belongs to IndexLog too.

Left out: key validation, sizes and the size limit (a reason to abort),
checksums, timestamps, metadata, `read` (MediaRead), the temporary file of a
chunk (unique per writer, never read).

`MediaStore` is the promise to callers: objects appear whole at their commit,
leave by removal or replacement, and a move keeps the object visible.
`StorageRefinement` maps sessions to uploads and a rename between its two writes
to a half-done move.

## 4. The index log (IndexLog.tla)

State. `manifests` and `counts` are the maps of `Index.state`; `disk` is the file
`index.log` as a sequence of items: an entry, the newline behind it, or the rest of
an entry that was cut (`torn`, or `mangled` when the cut is inside a character).
`stable` items survive a loss of power. `handle` says whether `log_file` appends to
the file that has the path or to one that compaction's rename has unlinked. The four
locks are those of the code: `log_file`'s, `chunk_ref_lock`, the compaction lock and
the key locks of the engine. `work` holds the index updates the writer's operation
has left. `may` is history: per key the value readers saw last and those of failed
operations since; `raced` says that an entry went astray: it was appended while
another thread compacted (or was on its way to the memory when that began), to a file
that is not the log's any more because compaction could not reopen it, or behind a
line that a failure or a kill had cut. A last line cut inside a character is what
index.rs:74-77 says is truncated and index.rs:81 does not: the open fails, `up` is FALSE
and nothing more happens.

| Actions | Code |
|---|---|
| Store, Delete | the order in which the engine's operations update the index |
| AddChunkRef, DecrementChunkRef, PutManifest, DeleteManifest | the beginnings of these functions, with the locks they take |
| AppendLine, AppendNewline, Sync | append_entry: writeln! issues two writes, then sync_data for manifests |
| Apply | the update of the state behind the append |
| SkipCompaction, StartCompaction, DropState, RenameLog, SwapHandle, EndCompaction | maybe_compact and compact |
| AppendFails, CompactionFails | an error of a write, a sync or a step of compaction |
| Kill, PowerCut with Restart | the process dies; unsynced data is lost from some point on; open_with replays and truncates |

An object has one chunk, so a manifest is its chunk; renames are puts and removes
to this module and are left out. A rename of a file counts as durable (file
systems order it before a later sync); JSON is abstracted to whole or cut lines.
`durability = sync` is modelled, the setting that never syncs is not.

What does not hold is kept apart: AckedSurvive, MemoryIsReplay and CountsMatch
exclude behaviours in which an entry went astray (`raced`). x_log_compact shows such
an entry lost to a compaction; the others are described in section 11. All else is
covered by AckedSurvive, any number of failures, kills and power cuts included; where
the open fails it speaks of what the file holds before the cut.
MemoryIsReplay, CountsMatch and RefsCovered speak of the time up to the first failure
(RefsCovered of the crash that is the first): an operation that fails leaves its count
behind, in the log or in memory. LogInvariant says why they hold, and section 12 how it
is proved.

## 5. Uploads (Upload.tla)

One upload through the gRPC handler store_media or the REST handler put_media.
Frames are numbered and have size one. `handler` is the async function: it
receives a frame, sends it into the bounded channel `chan`, ends or breaks the
stream, joins the worker. `worker` is the blocking task with its StoreSession:
`taken` are the frames the session accepted, `stored` is what the key holds.
`tx` and `rx` say which end of the channel is alive: the handler drops the sender
when it stops pumping or when its future is dropped, the worker drops the receiver
when it returns.

| Actions | Code |
|---|---|
| Open, Receive, SendFrame, SendFails, EndOfStream, StreamError, Join | the handler, await by await |
| Begin, Recv, Write, Abort, Finish, FinishFails | the worker: begin_store, blocking_recv, write (limit, flush), abort, finish |
| ClientBreaks | the client's stream yields an error |
| Cancel | hyper or tonic drops the future of a broken connection, at any await |
| Timeout | REST's TimeoutLayer drops it after 60 seconds; gRPC has none |

Uploads meet only in the engine, so one is enough here and its commit is one step;
StorageEngine has the commit's steps. Authentication, metadata and the thread pool
the workers run on are not modelled.

## 6. Downloads (MediaRead.tla, ChunkCache.tla)

One download, by stream_media (gRPC), get_media (REST, with its read-ahead), or the
engine's stream, read_range or read. The manifest is read once (Lookup is part of
the request's first step), the chunks one by one, later. `task` is the sender's
side, `chan` the channel, `client` and `got` the receiver's.

| Actions | Code |
|---|---|
| AskRange, AskHeader, AskWhole, NotFound | the five entries: range arithmetic modulo 2^64 (`Width`), the Range header with its clamping and refusals, 404 |
| Lookup, Read, Insert, Send, Fail | cache, then chunk file (checked by length and CRC), then cache again; the slice of the chunk; the send into the channel; the error item |
| Receive, StreamEnds, Leave | the client reads, sees the end, or goes away |
| Store, BeginDelete, InvalidateNext, CommitDelete, Reclaim, Rot, OtherDownload | others: a commit, the delete handlers (which invalidate the chunks of the manifest they find, one by one, and only then delete), the unlink of unreferenced files, damage to a file, a download that fills the cache |

ChunkCache is the LRU with its two limits and the counter that both insert and
invalidate keep, and that an eviction by the entry limit does not. Commits are one
step here: their inside is StorageEngine's.

## 7. Listing and streams (Listing.tla, Streams.tla)

One request at a time against a set of keys that others change between any two
calls of list_manifests. A key is a sequence of tokens, numbered in the order of
their bytes, so that order, prefixes and cursors are those of strings.

| Actions | Code |
|---|---|
| ListMedia, MediaPage | list_media and its pages, followed by the client |
| ListStreams, StreamsPage | list_streams with its cursor `streams/<id>0` |
| DeleteStream, DeleteList, DeleteNext | delete_stream: a page, its deletes one by one, the next page behind the last key |
| GetMaster, Master | the master playlist: variants, groups, entries |
| GetPlaylist, PlaylistInit, PlaylistSegments | the variant's playlist: a lookup, then a listing |
| GetDash, DashVariants, DashSegments | the DASH manifest: one listing for the variants and one for each variant's segments |
| StoreKey, DeleteKey | other clients |

`Template` is the SegmentTemplate of the manifest, `Fetched` what a player computes from
it and from the presentation. Durations count in tenths of a millisecond, so that both
conversions of the code lose something: `Tenths` prints the presentation to 0.1 s,
`Millis` cuts a segment's duration off to ms, and each is a set of two where the float
may fall to either side. Wording, URLs and
attributes that are copied through are left out; a playlist is the sequence of its
entries, with the group references between them. `ScanLimit` and `VariantScan` are the
fixed limits of the calls that look for streams, segments and variants: the properties
promise completeness only while the store holds no more keys than these, and the rest
at any number. A duration that is not positive is outside DashReaches, since a player
cannot count with it. DashReaches allows one request too many: a segment of 2.06 s is a
presentation of `PT2.1S` and a duration of 2060, and the player asks for a second one.

## 8. The server (Server.tla, KeyLocks.tla)

KeyLocks is the table `key_locks`: a lookup makes or finds a mutex and, when the
table is above its limit, drops the entries nobody refers to. An upload looks its
mutex up at its begin and locks it at its commit; a delete does both at once; a
rename looks up two and locks them in key order. Server adds the process around it.

| State | Code |
|---|---|
| proc | the phase of main: down, creating, filling, announcing, opening, serving, draining, leaving |
| keyFile, torn | what `.server_key` holds; a file of another length |
| older | what a power cut may leave in its place: its states since it was last written back, the missing file included |
| keyMem | the hash the running server compares with |
| regen, regenKey | the second process, `--regenerate-key` |
| map, handle, owner, want, body | key_locks; the Arcs and guards of each thread; its keys; whether its upload still receives |
| conn, pass | requests whose client is connected, and the key each presented |
| shown, lost, since, rewritten, reverted, issued | history |

| Actions | Code |
|---|---|
| StartLoad; StartCreate, CreateTruncate, CreateFill, Announce; Open | load_or_create_key; the log line with the plaintext; opening the engine and binding |
| RegenBegin, RegenTruncate, RegenFill, RegenAnnounce, RegenKilled | regenerate_key, by another process at any time |
| Arrive, Work, Disconnect | check_auth and auth_middleware; a step of the request's thread; the client goes, the thread goes on |
| Collect, Collected | the ticker |
| Signal, Drained, Deadline, Leave | Ctrl-C; both servers have drained; 30 seconds are over; the runtime's blocking threads are done |
| Kill, RegenKilled | SIGKILL, or SIGTERM, which main.rs does not catch: the file stays |
| Writeback; PowerCut | the kernel, some seconds after a write that nothing syncs (server_key.rs:64, 81); loss of power, which may take the file back |

Keys are numbered and a hash is its key's number: that SHA-256 is injective here is
an assumption. So is that a power cut leaves the file in one of the states it was in;
64 zero bytes, which some file systems leave, would be taken for a hash nobody has the
key of. What a power cut does to the index and the chunks is IndexLog's.

## 9. The terminal UI (Tui*.tla)

The event loop handles one key, one worker event or one answer at a time; an action
is one handler with the refreshes it awaits. `TuiText` is a text field as the four
dialogs edit it: characters of one or two bytes (`Width`) and a byte cursor.
`TuiBrowse` is the list: items, search, directory, hidden option, cached entries and
cursors, and the dialogs that delete, rename and make directories; a directory's
requests are sent one by one (`job`), while other clients change the store.
`TuiUpload` has the two browsers, marks, confirmation, and the worker task with its
channel of events and the cancel flag. `Tui` puts them together.

| Actions | Code |
|---|---|
| MoveSelection, WheelElsewhere, BrowseInto, BrowseUp, ViewDetail, LeaveDetail | navigation (app.rs:400-518) |
| EnterSearch, LeaveSearch, ExecuteSearch, AskRefresh, ToggleHidden | search, refresh, hidden files |
| EnterDelete, RefuseDelete, ConfirmDelete, ConfirmDeleteDir, StartJob, Request | deletion of an object or a directory |
| EnterRename, EditRename, LeaveRename, ExecuteRename, EnterMkdir, EditMkdir, LeaveMkdir, ExecuteMkdir | renaming, new directories |
| EnterStore, Path*, EnterNewDir .. ConfirmNewDir, AdvanceToFileBrowser | choice of the destination |
| Browser*, SelectFile, ToggleMark, AskClearMarks, AnswerClearMarks, EnterFilter, LeaveFilter, TypeFilter, EditStoreKey, StoreFile, PrepareUpload, ConfirmUpload, CancelPending | choice of the files |
| WorkerStart, WorkerCannotRead, WorkerSends, WorkerAnswered, WorkerStops | run_upload_worker |
| DrainEvent, CancelUpload, Quit | drain_upload_events; Esc; leaving |

Drawing, layout, messages (but for how an upload is reported) and timing are left
out. The worker's check of the cancel flag and its read of the file (app.rs:1609) are
one step, so CancelReturns takes for granted that the read returns. `Size` is one
constant for staging and reading: a file that grows in between is outside the model
(the code clamps its progress, app.rs:1180). A text of the search or of a filter stands for the one name it matches.

## 10. Runs

Engine: two keys (the least number on which renames can cross) and the model
values of `MCStorageEngine`; symmetric values are permuted in the safety runs.

| Run | Checks | Instance and why |
|---|---|---|
| engine | IInv, RefsExact, StoredHeld, QuiescentExact, ReadableUnlessContended, ImplementsMediaStore | 2 sessions, 2 callers, a chunk up to twice per object, 1 failure or kill at any step, collector off (it changes only files and its own state): objects sharing a chunk, one naming it twice, every race of two commits, deletes and renames |
| engine_live | ReadableUnlessContended, EveryCallEnds, OrphansReclaimed | 1 session, 2 callers (opposite renames against a commit), 1 failure or kill, the collector beside all of them, collector and time fair |
| log | LogInv (types, the memory is the replay of the log, counts match), AckedSurvive, RefsCovered, OperationsReturn | 2 writers, 3 operations, 2 keys sharing a chunk, 1 failure; compaction from 2 entries on, so that it runs in nearly every behaviour |
| upload | CreatedWhole, RefusedUnchanged, UploadInv, UploadEnds | channel of 2, chunks of 2 frames, limit 4, bodies of 0 to 6 frames (below, at and above the limit; longer than channel and hands together), 1 failure |
| read | ReadInv (types, cache limits, offsets and is_last), OneVersion, EndMeansWhole, FailureHasCause, TaskEnds | chunks of 2, 2 and 1 bytes; an object of three, one of the last two of these (so that chunks are shared at different places) and an empty one; ranges at, across and behind the end and one that wraps 16; cache of 2 entries and 5 bytes, so that both limits bind; 1 overwrite or delete, 1 damaged file |
| listing | PagesExact, StreamsExact, StreamDeleted, HlsExact (whole, in order, references resolved), DashReaches, CursorAdvances | 11 keys: streams `a`, `a-b`, `a0`, `b` (ids around the cursor's `0` and the slash), two variants, padded and unpadded numbers; 3 initial stores, pages of 1, 2, 3 and "0", 2 changes |
| tui | ViewsFresh (types, list, detail, browsers), CursorsValid, EventsAccounted, OutcomeTrue, OnlyAskedChanges, CancelReturns | a directory, a file, a hidden name; 3 kinds of user (MCTui) that between them take every action; batches of 2 files, a queue of 2 events, 1 operation, 1 change by others |
| server | AuthCurrent, MapBounded, KeySurvives, ImplementsKeyMutex, StopEnds, CallsReturn | 3 scenes (MCServer): every request kind on two keys with shutdown; deletes and renames on three keys with a table for one; one delete or rename with 2 kills or power cuts and 3 generated keys |

No run checks for deadlock: sessions never run again, callers may stop, operations
are bounded, an upload, a download and a listing end, a user may leave. The liveness
properties say what must not block.

Bounds: MaxChunks (chunks per object), MaxOps (operations), MaxFrames (frames of a
body), MaxFaults (failures), MaxWrites and MaxChanges (changes by others), Popular
(chunks others read), MaxDepth (segments of a typed path), MaxQueue (waiting events),
MaxKeys (generated keys), MaxKills (kills and power cuts); the number of sessions bounds the uploads. The
scenes and users of MCServer and MCTui keep the product of independent parts apart:
what a request does to the table does not depend on how often the key file was
rewritten, and a user who renames is not uploading at the time (the modes exclude
each other); the theorems about Server and Tui hold without them.

Fairness. Engine: threads that have begun a step finish it (weak fairness of
`Proceed`), and a mutex is not denied for ever (strong fairness of `Acquire`;
parking_lot's mutexes hand over eventually). Clients owe nothing: no call need
start and an open session may stay open. OrphansReclaimed adds the server's
ticker, which starts a collection again and again, and the passing of time.
Log: a writer in an operation runs on; with MaxOps operations no lock is taken
infinitely often, so weak fairness is enough. Upload: the worker has its thread,
the handler's sends and its join are polled, the timer fires; the client may stall
for ever, and then a gRPC upload stays, a REST upload ends with the timeout.
Read: the runtime runs the task; the client may stall. Server: a thread runs on
unless it waits for a connected client's body, a lock released again and again is
granted in the end (strong fairness), collections end, the timer fires. UI: the
event loop drains its queue and the worker notices a cancellation; the server need
never answer. Listing has no fairness: a walk is the client's to continue, and
CursorAdvances shows that no walk can run in a circle.

## 11. What the code does otherwise

Four runs show the code doing other than a comment or document says; each finding
quotes it:

* x_shared_chunk: a store that re-uses a chunk file races the delete of its last
  reference; the file of a stored object is gone.
* x_gc: one upload and one collection, and nothing else. The upload's chunk file is
  written after gc has read the index and the clock, is not in the index and not recent,
  and is removed; the upload goes on, and the object is stored without its file.
* x_log_compact: an entry appended between compaction's snapshot and the swap of the
  log is acknowledged and lost.
* x_upload_partial: a dropped sender stands for the end of the body, so the part of
  an upload that was cut is committed.

The passing runs exclude exactly these: ReadableUnlessContended leaves out chunks counted
while their file was on its way out, AckedSurvive and LogInv leave out behaviours in which an entry went astray (`raced`,
section 4).

Seen while modelling, without a run of their own. Most are allowed for by name in
the property concerned, so that the property says what remains true.

Storage:

* An old orphan that an upload takes up again beside a collection is removed in the
  same way as the new file of x_gc (engine.rs:197): flush_chunk finds the file in place,
  and the index gc has read does not name it.
* A delete that failed half-way and is retried drops references a second time
  (engine.rs:382), also those of an object that shares the chunk; `damaged` marks
  such objects in IInv.
* The chunks of a session dropped without abort stay referenced and are never
  collected (engine.rs:575 says gc does). A rename interrupted between its two log
  records leaves the object under both names with one set of references.
* Replay accepts a last line without newline and appends continue it (index.rs:80):
  the start after that truncates the glued line and all that follows. A last line
  cut inside a character makes open_with fail instead of truncating it (index.rs:81).
  A failed write leaves its piece of a line to be continued in the same way, and a
  compaction that renames the log but cannot reopen it leaves the appends of every
  later operation in the unlinked file (index.rs:355).
* Storing an object again does not repair a damaged chunk file: write_chunk keeps a
  file that exists.
* The cache's counter keeps the bytes of entries the LRU drops at its entry limit
  (lib.rs:80); ReadInv bounds the drift by max_size, and the cache holds less than it
  could.
* offset + length near 2^64 wraps (engine.rs:247, grpc.rs:174): a stream ends early
  without an error, and a debug build panics.
* Each upload holds one of tokio's 512 blocking threads until its client ends
  (grpc.rs:109); the pool is not modelled.

Listing and streams:

* discover_variants puts no slash between prefix and id (streaming.rs:36), so its
  keys are those of docs/streaming-guide.md:36 only for an id that ends with one;
  the model takes ids of both kinds.
* The cursor of list_streams lies behind `movie-2` when the page ends with `movie`
  (streaming.rs:560): such streams are skipped (SteppedOver). And it lies before
  `movie/` when the page ends with `movie-2`, because ids are grouped in their own
  order: `movie`, returned already, comes again on the next page (ComesAgain), where
  the comment at streaming.rs:519 speaks of "unique stream IDs".
* Beyond 10000 keys of variants, or 100000 of segments or of all streams, the rest is
  missing without a notice (streaming.rs:38, 108, 535): a stream whose variants have 10000
  segments between them shows the first variants only. HlsExact and StreamsExact
  promise completeness below these limits.
* A DASH presentation is printed to 0.1 s and a segment's duration cut off to ms
  (streaming.rs:448, 497): a player may ask for one segment more than there is.
* A SegmentTimeline comes without a way to address its segments (streaming.rs:471).

Server:

* A running server accepts the old key after --regenerate-key until its restart
  (grpc.rs:63); docs/configuration.md:138 says "Any clients using the old password
  will be rejected". AuthCurrent says what holds: not after a restart.
* SIGTERM is not handled, so `kaidadb-ctl stop` ends requests half-way, where
  docs/getting-started.md:327 says "Graceful shutdown (SIGTERM, then SIGKILL after
  10s)".
* `.server_key` is never synced (server_key.rs:64, 81). A loss of power soon after the
  first start may leave no file, and the next start generates another key without a
  word, though the first "only displayed once" (docs/getting-started.md:57) was saved by
  its user; or an empty one, and the start fails. Soon after --regenerate-key it may
  leave the old key, which opens the server again. KeySurvives names this exception.
* A key written but not yet printed when the process is killed is known to nobody; a
  torn key file makes every start fail; both need --regenerate-key. A first start
  that saw no file, and --regenerate-key, may overwrite each other's key.
* A second server opens, replays and may compact the same data directory before its
  port turns out to be taken (main.rs:117). A failed gRPC bind leaves REST running
  alone (main.rs:205). After draining, the runtime waits for blocking threads with no
  deadline ("leaving").

Terminal UI:

* The message of an upload, a delete or a rename is overwritten by the refresh
  behind it (app.rs:1142, 297). upload_overall_sent counts the last file's
  bytes twice between two files. The dialog of a directory deletion shows the number
  of filtered items and all are deleted.
* A remembered cursor is an index into the filtered list (app.rs:901). Marks survive
  leaving the browser. Two marked files of one name get one key, and the second
  replaces the first (app.rs:1024). Marked directories upload hidden files too.
* docs/cli-and-tui.md:299 says Esc clears the filter and `n` cycles through the
  matches; Esc leaves the search as it was, `n` moves down and stops at the last entry.
* Without a connection a directory's rename reports success with 0 items, and
  confirming an upload overwrites "Not connected".

## 12. Proofs

`StorageEngineProofs`, for every set of keys, chunks, sessions and callers and every
bound:

* TypeCorrect: `Spec => []TypeOK`.
* Invariant: `Spec => []IInv`, and from it CountsExact (RefsExact), ObjectsHeld
  (StoredHeld), NamesUnique (OneName) and QuietCounts (QuiescentExact).
* StoredReadable: `Spec => []ReadableUnlessContended`.
* Implements: `Spec => ImplementsMediaStore`.

Assumptions: keys are numbers (rename compares them), bounds are numbers,
sessions and callers are disjoint, None is none of the others.

The argument. RefsExact alone is not inductive: a release must be known to drop
a reference that is still held. IInv adds, in the order of the proof, the locals
(LocalsOK), which locks each step holds (LocksHeld), that what was read under a
lock still holds (ReadsStable), that only committed uploads are stored or
released by others (OnlyCommitted), one name per object (OneName), that a
replaced object is out of sight and released by one session only
(ReplacedOnce). From these, ReleaseExclusive: no two actors release the same
undamaged object. So the references ahead of a release loop stay held
(ReferencesHeld), a stored object keeps all of them (StoredHeld), and each
increment and decrement changes one member of `held` (AddExact, DecrementExact).
Objects a failure left half released are excluded through `damaged`. QuiescentExact
needs the converse, that every reference held is somebody's: Accounted says that it
belongs to an upload under way or to a stored object, or that a release loop has still
to reach it, and that none is left behind a loop; when nothing is under way, `held`
is then exactly the references of the stored objects.

ReadableUnlessContended is about files, and the code has no lock between a file and
its count. FilesKept, the last conjunct of IInv, is what holds without one: of a chunk
that is not contended, what the index counts and what a session is about to count is on
disk, and a file on its way out (Removing) is counted by nobody. A release unlinks only
what it has seen counted down to nothing (DecrementKeeps, ReleaseKeeps), the collector
only what neither the index it has read nor anybody since has counted (GcKeeps); a
session that counts a chunk on its way out, or sees its file go, makes it contended
(AddKeeps, WriteKeeps, RemoveKeeps). AsideKeeps covers the steps that touch neither
counts nor files. IInv gives a stored object all its references and a count for each,
and so a file (CountedReadable).

The refinement. A session's place tells the state of its upload, a caller's place
whether it is between the two writes of a rename, so a step that moves one actor
between places of one kind is a stutter (MovedUploads, MovedMoves, Stutters). The
abstract store allows a commit, a removal or a new move only at keys no move is
under way on. That is where IInv is needed: a rename keeps both its locks until its
second write, and the step in question holds the lock of its key, hence its key is
not moving (NotMoving); for the same reason two moves never share a key (OneMove),
so ending one leaves the others (MoveEnds). ReadsStable says that what rename moves
and delete removes is still what it read. A kill and a failed write are steps of the
abstract store too (RestartRefines, GiveUpRefines).

`UploadProofs`, for every capacity, chunk size, object limit, body and number of
failures:

* UploadTypes: `Spec => []UploadTypeOK`, UploadInvariant: `Spec => []UInv`, and
  UploadInvHolds, both as the run checks them.
* From these AcknowledgedWhole (CreatedWhole), StoredPrefix (NoHoles),
  RefusalHarmless (RefusedUnchanged), LimitKept (LimitHolds), BoundedBuffers
  (Backpressure).

Assumptions: the parameters are numbers, capacity and chunk size positive; None is
no result. The argument: CreatedWhole needs to know that at a commit the session
holds the whole body. InFlight relates what was read to what is taken, in hand, in
the channel and in the handler's hand, in order; Ends relates the states of the
channel's ends to those of handler and worker; Session says that the session holds a
beginning of the body within the limit. Together, a worker that finds the channel
empty and closed while an undisturbed handler waits has taken all frames (OverTheLimit,
Outcome).

`ServerProofs` has the proofs about KeyLocks first, for every number of threads, keys
and mutexes and every limit:

* LocksInvariant: `LocksSpec => []LocksInv`; TableImplementsMutex: `LocksSpec =>
  ImplementsKeyMutex`; TableBounded: `LocksSpec => MapBounded`.

and then the same for the server, with exits and kills at any step:

* ServerLocksInv, Exclusion (MutualExclusion), ServerImplementsMutex, TableStaysSmall
  (MapBounded).
* TypeCorrect, KeyIsUsable (KeyUsable), AuthIsCurrent
  (AuthCurrent), KeyIsKept (KeySurvives), for every number of keys and kills.

Assumptions: keys are numbers (their order), the limit is a number, NoMutex and
NoThread are none of the others. The argument for the table: a thread that refers to
a key's mutex keeps the entry shared, so pruning leaves it (PrunedKeeps), and whoever
refers to the key's mutex refers to the entry (HandlesCurrent); a new mutex is one
nobody refers to, so two keys never share one (KeysApart), and an owner wants what
it owns (OwnersHold). Then two threads inside for one key hold one mutex, hence are
one; a lookup is a stutter of KeyMutex, a lock an acquisition, every drop a release.
After a pruning, what is left is what is referred to (KeysApart turns a shared entry
into a reference under its own key), which is MapBounded. For the key, KeyInv says of
each phase what file and memory hold: once the server has a hash, the file exists
unless a power cut has taken it back (`reverted`), and unless --regenerate-key touched
it either the two are equal; so a later start finds the same key. What a power cut may
leave (`older`) has been in the file, so its key too was printed, or lost to a kill.

`SequenceLemmas`. The induction theorems of the library take the predicate as an
operator; here the numbers a fact holds of form a set, and a set with 0 and with n + 1
whenever it has n is Nat (Induction), because intervals are well ordered by inclusion.
From it: a function defined by iteration exists and is unique (Iteration, IterationAgree),
FlattenSeq of one more member appends it (FlattenAppend), a filter keeps the members
asked for, in their order (KeptIs). The same over finite sets (Minimal,
FiniteInduction): folds that sum exist, agree and add up (SumsExist, SumsAgree,
SumsAdd, SumsEqual), the n-th of a finite ordered set is well defined, so sorting
gives each member once, in order (RankedIs), and a set of paths has a first one in the
order of keys (FirstOfAll). So what the functions of the modules compute is proved for
arguments of every size.

`MediaReadProofs`, for all objects, chunk sizes, ranges, headers, capacities and cache
limits:

* ReadInvariant: `Spec => []ReadIInv`, and from it ReadKeepsOrder (ReadInv),
  HoldsOneVersion (OneVersion), EndIsWhole (EndMeansWhole) and FailuresHaveCauses
  (FailureHasCause).

Assumptions (ReadBounds, CacheBounds): an object's chunks are full but the last one
and its size is below the width; sizes, windows and capacities are positive. The
argument. What a client holds is a flattened sequence of messages, and OneVersion
compares it with the flattened chunks of the object. ReadIInv reduces both to places:
every message is the piece of the object between its offset and its end (Piece), the
messages in the channel follow those the client has and each other without a gap up to
`position` (ChannelOK), and `position` is where the task's chunk begins, cut to the
range (TaskOK). Chunk by chunk the content of an object is that of its chunks at
multiples of the chunk size (ChunkIs), so a slice sent is the next piece
(SliceIsPiece), and a piece received makes a longer prefix (HeldOK). The bytes in hand
are the chunk's true ones whatever the cache and the files do meanwhile, since content
names them; Untouched says that files are there as long as nothing happened. The
wrapped ranges are carried along in `Limit` and excluded where the code ends in silence.

`IndexLogProofs`, for all keys, chunks, writers, thresholds and numbers of operations
and failures:

* IndexInvariant: `Spec => []LogIInv`, and from it LogMatchesMemory (LogInv) and
  NothingLost (AckedSurvive).
* LogCovered: `Spec => []CoverOK`, and from both ReferencesKept (RefsCovered).

Assumptions (LogBounds): keys, chunks and writers are finitely many, None is none of
them, the bounds are numbers. The argument. The state of the log is what a replay of
it gives, so the lemmas say what a replay does: to a log with one more entry or
newline (ReplayAppend, CleanAppend), to a log compaction wrote (SnapshotIs: the replay
of a snapshot is the memory), and to a cut one (ReplayCut: the torn or mangled item
changes nothing, and truncation keeps what the replay gave). WriterOK says of each
writer which update it is at, which locks it has and that its line is still right: the
count it read is current because it has chunk_ref_lock, the object it replaces or
removes is the one under the key because it has the key's lock. FileOK says that lines
stand apart, and that a snapshot under way is still the memory. SurviveOK is about
every prefix from `stable` on, because a power cut may leave any of them: a key's value
there is one that readers saw or that is on its way, and behind the sync it is the new
one. AheadOK is the converse without failures: the log is ahead of the memory by the
entries on their way only. CountsOK counts: a chunk's count is the number of objects
with it (Owners, without one whose delete has dropped its reference) and of writers
that have a reference for no object yet, or of a replaced one (Claim). An Apply moves
one of these to the other (ApplyCount, ApplyObject); no other step changes either.
LogInv is what is left of the last two when nobody is in an operation.

CoverOK is about references in every prefix from `stable` on, before the first
failure: the objects a prefix has are at most the references it counts and the deletes
under way whose object it still has (Deleters; a delete drops the references first).
Of the whole log it follows from the rest (NowCovered): an object that the log has and
the memory does not count belongs to a mover, a writer that puts it and has a claim, or
removes it and is a deleter, no two to one writer; and the one writer whose smaller
count is in the log and not in the memory is among those two, and no mover
(LoggedMoved, LoggedCount). A shorter prefix was once the whole log, and covered; what
changes for it since are the deletes, and a delete stays one until its entry is in
memory, when it is synced and no prefix has the object any more (DeletingStays,
StaysCovered). A restart takes one of these prefixes over (Reopened).

`StreamsProofs`, for every index of keys, every page limit and scan limit, all
requests and any number of changes by others:

* ListingInvariant: `Spec => []ListingInv`, and from it PagesAreExact (PagesExact),
  StreamIsDeleted (StreamDeleted), StreamsAreExact (StreamsExact), PlaylistsAreExact
  (HlsExact), DashIsReached (DashReaches) and CursorsAdvance (CursorAdvances).

Assumptions: keys are non-empty sequences of numbers, listed in their order
(KeysAreTokens, ListingBounds); the fixed tokens are numbers, the slash before "0"
(StreamTokens); bandwidths and indices parse as natural numbers and durations as
integers, and "seg-" is neither a number nor what follows one (StreamNumbers). The
argument. A page is the next stretch of the keys with the prefix behind the cursor
(GoodPage, ListIs), in an order that is total (LessOrders). So a walk has met every key
that stayed up to the cursor (MediaInv), and what delete_stream has still to meet is
on its page or behind the cursor (DeleteInv). list_streams orders ids, not keys: the
keys of one id lie together (StreamOfIs), but a later id may have earlier keys. BehindThenLater
and LaterThenBehind say exactly when, by the character that follows the common
beginning, and give the two exceptions of StreamsExact. discover_segments sorts by an
index: a stable sort rearranges (StableSortIs), so keys stay distinct and those whose
metadata do not contradict their names come in the order of their numbers
(SegmentsAre). An entry taken is whole from then on, since the keys that stayed only
become fewer and those that were ever there more (WholeNow, WholeStays). In the master
playlist every variant has its entry, and the groups an entry names are defined before
it (VariantsAre, MasterEntriesAre). For DASH, n segments of length t last n * t
(SumIs); cut off and rounded (CutIs, RoundIs) the quotient is still n or n + 1 while n + 50
stays below a segment's milliseconds (CountIs); and the first segment's name gives the
others by its last "seg-" (PatternIs).

`TuiProofs`, for every store, set of local files with any sizes, width of characters,
any number of operations and of changes by others:

* ClientInvariant: `Spec => []TuiInv`, and from it ViewsAreFresh (ViewsFresh),
  CursorsAreValid (CursorsValid), DeletionIsComplete (DirDeletionComplete; proved only, no run repeats it),
  EventsAreAccounted (EventsAccounted), OutcomeIsTrue (OutcomeTrue) and
  ChangesWereAsked (OnlyAskedChanges).

Assumptions: names are numbers (their order) and have a width in bytes; the local
files, and the keys the store begins with, are finitely many (FilesAssumption,
KeysAssumption); the directory marker is a hidden name. The argument. What the screen
shows is a function of the copy of the list, the directory and the options, and every
handler that changes one of them computes it again or clears it; so what a question is
about is still what the cursor is on when it is answered (Questions), and what a job
has left to do was asked for or lies under what was asked for (JobAsked). A text
field's cursor stays on a character because each edit moves it by the width of the
character it passes (EditedIs, BytesNext). For the upload, WorkerOK keeps the sets of
files left, on their way, done and failed apart, and CountsOK balances each counter of
the view, with the events that are still queued, against those sets. That no bar ever
shows more than the batch is about the future of the queue: ProgressOK says that the
views the queued events lead to exist, each within its bounds, and that the last one
agrees with the worker (CountedIs, DrainedMore, DrainedLess).

The inductive invariants were model-checked on the runs' instances before they were
proved (`IInv`, `LogIInv`, `KeyInv`, `UInv`, `ReadIInv`, `TuiInv`, `ListingInv`; for
the last two, conjuncts that say an infinite set of sequences contains something were
left out, as TLC cannot test them).

Only model-checked: liveness (EveryCallEnds, OrphansReclaimed, OperationsReturn,
UploadEnds, TaskEnds, CancelReturns, StopEnds, CallsReturn), which is beyond the
prover. Every invariant and every action property of the passing runs is a theorem.
The log run has one failure; with more (operations, compactions and further kills
after what the first one left), AckedSurvive rests on its theorem.

## 13. Not modelled

Configuration, types and errors are plain data; the CLI sends one request per run and
keeps nothing; the cluster crate is a placeholder; the UI's drawing (ui.rs) reads
state and changes none but list offsets; install scripts and service files. In the
modelled components: key validation, metadata and timestamps, HEAD requests and
statistics (they read one manifest or a counter and change nothing), panics of
handlers, `durability` settings other than sync, several processes on one directory.
