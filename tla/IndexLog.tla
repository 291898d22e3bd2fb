------------------------------- MODULE IndexLog -------------------------------
(***************************************************************************)
(* The index's append-only log: lines appended by several writers, synced  *)
(* at operation boundaries, compacted while others append, cut by kills    *)
(* and power loss, replayed at the next start                              *)
(* (crates/kaidadb-storage/src/index.rs).                                  *)
(*                                                                         *)
(* Writers run the index updates of the engine's operations, in the        *)
(* engine's order and under its key locks.  An object has one chunk, so a  *)
(* manifest is its chunk.  The log is a sequence of items: an entry, the   *)
(* newline that ends it (writeln! issues two writes), or what is left of   *)
(* an entry that was cut.                                                  *)
(***************************************************************************)
EXTENDS Integers, Sequences, FiniteSets, SequencesExt

CONSTANTS
  Keys, Chunks, Writers,
  Floor, Ratio,   \* COMPACTION_FLOOR, COMPACTION_RATIO
  MaxOps,         \* bound: operations
  MaxFaults,      \* bound: failed writes, syncs and compactions, kills, power cuts
  None

ASSUME LogBounds ==
  /\ {Floor, Ratio, MaxOps, MaxFaults} \subseteq Nat
  /\ None \notin Keys \cup Chunks \cup Writers
  /\ IsFiniteSet(Keys) /\ IsFiniteSet(Chunks) /\ IsFiniteSet(Writers)

VARIABLES
  manifests,   \* state.manifests
  counts,      \* state.chunk_locations: ref_count, 0 when absent
  disk,        \* the items of the file index.log
  stable,      \* how many of them are on stable storage
  handle,      \* what log_file appends to: "log", or "unlinked" by a rename
  entries,     \* log_entries
  tmp,         \* index.log.tmp
  logLock, refLock, compactLock, keyLock,
  pc, work,    \* per writer: its step, the updates its operation has left
  line,        \* per writer: the entry it appends
  up,          \* the index is open; FALSE when replay failed
  may,         \* history: per key, the value readers saw last, and failed ones since
  raced,       \* history: an entry went astray, see AckedSurvive
  ops, faults, restarts

memVars   == <<manifests, counts>>
fileVars  == <<disk, stable, handle, tmp>>
lockVars  == <<logLock, refLock, compactLock, keyLock>>
localVars == <<pc, work, line>>
histVars  == <<may, raced>>
boundVars == <<ops, faults, restarts>>
vars == <<memVars, fileVars, entries, lockVars, localVars, up, histVars, boundVars>>

-----------------------------------------------------------------------------
(* The log and its replay *)

NL   == [kind |-> "newline"]
Torn == [kind |-> "torn"]
Mangled == [kind |-> "mangled"]   \* torn inside a character: not UTF-8
Count(c, n)    == [kind |-> "count", key |-> c, val |-> n]
Manifest(k, c) == [kind |-> "manifest", key |-> k, val |-> c]
IsEntry(x) == x.kind \in {"count", "manifest"}

\* Entries that end an operation are synced (append_entry's second argument).
Boundary(x) == x.kind = "manifest"

apply_entry(s, x) ==
  IF x.kind = "count" THEN [s EXCEPT !.counts[x.key] = x.val]
  ELSE [s EXCEPT !.manifests[x.key] = x.val]

EmptyState == [manifests |-> [k \in Keys |-> None], counts |-> [c \in Chunks |-> 0]]

\* One item of the file: text collects on the current line; a newline ends it.
\* A line that is no single entry ends the replay, undecodable text fails it.
ReplayItem(r, x) ==
  IF r.stopped \/ r.failed THEN r
  ELSE IF x.kind = "mangled" THEN [r EXCEPT !.failed = TRUE]
  ELSE IF x # NL THEN [r EXCEPT !.text = Append(@, x)]
  ELSE IF r.text = <<>> THEN [r EXCEPT !.good = @ + 1]
  ELSE IF Len(r.text) = 1 /\ IsEntry(r.text[1])
    THEN [r EXCEPT !.state = apply_entry(@, r.text[1]), !.text = <<>>,
                   !.good = @ + 2, !.read = @ + 1]
  ELSE [r EXCEPT !.stopped = TRUE]

ReplayStart ==
  [state |-> EmptyState, text |-> <<>>, good |-> 0, read |-> 0, stopped |-> FALSE, failed |-> FALSE]

ReplayItems(items) ==
  LET from[i \in 0..Len(items)] ==
        IF i = 0 THEN ReplayStart ELSE ReplayItem(from[i - 1], items[i])
  IN from[Len(items)]

\* A last line without newline is a line like any other.
Replay(items) ==
  LET r == ReplayItems(items)
  IN IF r.stopped \/ r.failed \/ r.text = <<>> THEN r
     ELSE IF Len(r.text) = 1 /\ IsEntry(r.text[1])
       THEN [r EXCEPT !.state = apply_entry(@, r.text[1]), !.read = @ + 1]
     ELSE [r EXCEPT !.stopped = TRUE]

Live == {Manifest(k, manifests[k]) : k \in {j \in Keys : manifests[j] # None}}
        \cup {Count(c, counts[c]) : c \in {d \in Chunks : counts[d] > 0}}

\* What compact writes: one line per live entry.
Snapshot ==
  LET order == SetToSeq(Live)
  IN [i \in 1..(2 * Len(order)) |-> IF i % 2 = 1 THEN order[(i + 1) \div 2] ELSE NL]

-----------------------------------------------------------------------------
Init ==
  /\ manifests = EmptyState.manifests /\ counts = EmptyState.counts
  /\ disk = <<>> /\ stable = 0 /\ handle = "log" /\ tmp = <<>> /\ entries = 0
  /\ logLock = None /\ refLock = None /\ compactLock = None
  /\ keyLock = [k \in Keys |-> None]
  /\ pc = [w \in Writers |-> "idle"]
  /\ work = [w \in Writers |-> <<>>]
  /\ line = [w \in Writers |-> NL]
  /\ up = TRUE
  /\ may = [k \in Keys |-> {None}]
  /\ raced = FALSE
  /\ ops = 0 /\ faults = 0 /\ restarts = 0

Goto(w, label) == pc' = [pc EXCEPT ![w] = label]
Update(op, k, c) == [op |-> op, key |-> k, chunk |-> c]

\* The operation returns, with w's locks released.
Leave(w) ==
  /\ Goto(w, "idle")
  /\ work' = [work EXCEPT ![w] = <<>>]
  /\ refLock' = IF refLock = w THEN None ELSE refLock
  /\ keyLock' = [k \in Keys |-> IF keyLock[k] = w THEN None ELSE keyLock[k]]
  /\ UNCHANGED line

\* An update is done: on to the next one, or the operation is acknowledged.
Advance(w) ==
  \/ /\ Len(work[w]) > 1
     /\ Goto(w, "begin")
     /\ work' = [work EXCEPT ![w] = Tail(@)]
     /\ refLock' = IF refLock = w THEN None ELSE refLock
     /\ UNCHANGED <<keyLock, line>>
  \/ /\ Len(work[w]) = 1
     /\ Leave(w)

\* The values that operations under way are about to give k.
UnderWay(k) ==
  {v \in Chunks \cup {None} : \E w \in Writers : \E i \in DOMAIN work[w] :
     work[w][i].key = k /\ work[w][i].chunk = v}

-----------------------------------------------------------------------------
(* Operations and their index updates *)

Call(w, updates) ==
  /\ pc[w] = "idle" /\ ops < MaxOps
  /\ ops' = ops + 1
  /\ Goto(w, "begin")
  /\ work' = [work EXCEPT ![w] = updates]
  /\ UNCHANGED <<memVars, fileVars, entries, logLock, refLock, compactLock, line,
                 up, histVars, faults, restarts>>

Store_PutsFirst(w, k, c) ==
  /\ Call(w, <<Update("put", k, c), Update("add", None, c)>>)
  /\ UNCHANGED keyLock

\* An upload: the chunk's reference, then the manifest under the key's lock.
Store(w, k, c) ==
  /\ Call(w, <<Update("add", None, c), Update("put", k, c)>>)
  /\ UNCHANGED keyLock

\* delete: the references first, then the manifest, all under the key's lock.
Delete(w, k) ==
  /\ keyLock[k] = None /\ manifests[k] # None
  /\ Call(w, <<Update("drop", None, manifests[k]), Update("remove", k, None)>>)
  /\ keyLock' = [keyLock EXCEPT ![k] = w]

\* add_chunk_ref reads the count under chunk_ref_lock, and keeps the lock until
\* the new count is in the log and in memory.
AddChunkRef(w) ==
  LET u == Head(work[w]) IN
  /\ pc[w] = "begin" /\ u.op = "add"
  /\ refLock = None
  /\ refLock' = w
  /\ line' = [line EXCEPT ![w] = Count(u.chunk, counts[u.chunk] + 1)]
  /\ Goto(w, "line")
  /\ UNCHANGED <<memVars, fileVars, entries, logLock, compactLock, keyLock, work,
                 up, histVars, boundVars>>

\* decrement_chunk_ref: so does it; an absent chunk writes nothing.
DecrementChunkRef(w) ==
  LET u == Head(work[w]) IN
  /\ pc[w] = "begin" /\ u.op = "drop"
  /\ refLock = None
  /\ \/ /\ counts[u.chunk] > 0
        /\ refLock' = w
        /\ line' = [line EXCEPT ![w] = Count(u.chunk, counts[u.chunk] - 1)]
        /\ Goto(w, "line")
        /\ UNCHANGED <<keyLock, work>>
     \/ /\ counts[u.chunk] = 0
        /\ Advance(w)
  /\ UNCHANGED <<memVars, fileVars, entries, logLock, compactLock, up, histVars, boundVars>>

\* put_manifest under the key's lock; a replaced object's reference is dropped
\* afterwards.
PutManifest(w) ==
  LET u == Head(work[w]) IN
  /\ pc[w] = "begin" /\ u.op = "put"
  /\ keyLock[u.key] = None
  /\ keyLock' = [keyLock EXCEPT ![u.key] = w]
  /\ line' = [line EXCEPT ![w] = Manifest(u.key, u.chunk)]
  /\ work' = [work EXCEPT ![w] =
       IF manifests[u.key] = None THEN @
       ELSE Append(@, Update("drop", None, manifests[u.key]))]
  /\ Goto(w, "line")
  /\ UNCHANGED <<memVars, fileVars, entries, logLock, refLock, compactLock, up, histVars, boundVars>>

DeleteManifest(w) ==
  LET u == Head(work[w]) IN
  /\ pc[w] = "begin" /\ u.op = "remove"
  /\ line' = [line EXCEPT ![w] = Manifest(u.key, None)]
  /\ Goto(w, "line")
  /\ UNCHANGED <<memVars, fileVars, entries, lockVars, work, up, histVars, boundVars>>

-----------------------------------------------------------------------------
(* append_entry, and the update of the memory *)

\* What is appended now does not come into the log that takes over.
Compacting == \E x \in Writers : pc[x] \in {"snapshot", "rename", "reopen"}

\* The writer of the log's last line failed, or was killed, before its newline.
LineCut == disk # <<>> /\ Last(disk) # NL /\ \A w \in Writers : pc[w] # "newline"

\* No restart finds what is appended now: another thread compacts, the file is
\* not the log's any more, or the entry continues a line that was cut.
Astray == Compacting \/ handle # "log" \/ LineCut

Write(x) == disk' = IF handle = "log" THEN Append(disk, x) ELSE disk

AppendLine_Unlocked(w) ==
  /\ pc[w] = "line"
  /\ Write(line[w])
  /\ Goto(w, "newline")
  /\ raced' = (raced \/ Astray)
  /\ UNCHANGED <<memVars, stable, handle, tmp, entries, lockVars, work, line, up, may, boundVars>>

\* log_file's write lock, then the text of the line.
AppendLine(w) ==
  /\ pc[w] = "line" /\ logLock = None
  /\ logLock' = w
  /\ Write(line[w])
  /\ Goto(w, "newline")
  /\ raced' = (raced \/ Astray)
  /\ UNCHANGED <<memVars, stable, handle, tmp, entries, refLock, compactLock, keyLock,
                 work, line, up, may, boundVars>>

AppendNewline_NeverSyncs(w) ==
  /\ pc[w] = "newline"
  /\ Write(NL)
  /\ Goto(w, "apply") /\ logLock' = None /\ entries' = entries + 1
  /\ UNCHANGED <<memVars, stable, handle, tmp, refLock, compactLock, keyLock, work, line,
                 up, histVars, boundVars>>

\* writeln!'s second write; without sync the lock is dropped here.
AppendNewline(w) ==
  /\ pc[w] = "newline"
  /\ Write(NL)
  /\ \/ /\ Boundary(line[w])
        /\ Goto(w, "sync")
        /\ UNCHANGED <<logLock, entries>>
     \/ /\ ~Boundary(line[w])
        /\ Goto(w, "apply")
        /\ logLock' = None /\ entries' = entries + 1
  /\ UNCHANGED <<memVars, stable, handle, tmp, refLock, compactLock, keyLock, work, line,
                 up, histVars, boundVars>>

\* sync_data (durability = sync).
Sync(w) ==
  /\ pc[w] = "sync"
  /\ stable' = IF handle = "log" THEN Len(disk) ELSE stable
  /\ logLock' = None /\ entries' = entries + 1
  /\ Goto(w, "apply")
  /\ UNCHANGED <<memVars, disk, handle, tmp, refLock, compactLock, keyLock, work, line,
                 up, histVars, boundVars>>

\* state.write(): waits while compact reads the state.
Apply(w) ==
  LET next == apply_entry([manifests |-> manifests, counts |-> counts], line[w]) IN
  /\ pc[w] = "apply"
  /\ \A x \in Writers : pc[x] # "snapshot"
  /\ manifests' = next.manifests /\ counts' = next.counts
  /\ \/ /\ Boundary(line[w])
        /\ Goto(w, "compact?")
        /\ may' = [may EXCEPT ![line[w].key] = {line[w].val}]
        /\ UNCHANGED <<refLock, keyLock, work, line>>
     \/ /\ ~Boundary(line[w])
        /\ Advance(w)
        /\ UNCHANGED may
  /\ UNCHANGED <<fileVars, entries, logLock, compactLock, up, raced, boundVars>>

-----------------------------------------------------------------------------
(* maybe_compact and compact *)

Worthwhile == entries >= Floor /\ entries >= Ratio * Cardinality(Live)

SkipCompaction(w) ==
  /\ pc[w] = "compact?"
  /\ ~Worthwhile \/ compactLock # None
  /\ Advance(w)
  /\ UNCHANGED <<memVars, fileVars, entries, logLock, compactLock, up, histVars, boundVars>>

StartCompaction_HoldsLog(w) ==
  /\ pc[w] = "compact?"
  /\ Worthwhile /\ compactLock = None /\ logLock = None
  /\ compactLock' = w /\ logLock' = w
  /\ tmp' = Snapshot
  /\ Goto(w, "snapshot")
  /\ raced' = (raced \/ \E x \in Writers : pc[x] \in {"newline", "sync", "apply"})
  /\ UNCHANGED <<memVars, disk, stable, handle, entries, refLock, keyLock, work,
                 line, up, may, boundVars>>

\* compact takes the state's read lock and writes the live entries.
StartCompaction(w) ==
  /\ pc[w] = "compact?"
  /\ Worthwhile /\ compactLock = None
  /\ compactLock' = w
  /\ tmp' = Snapshot
  /\ Goto(w, "snapshot")
  /\ raced' = (raced \/ \E x \in Writers : pc[x] \in {"newline", "sync", "apply"})
  /\ UNCHANGED <<memVars, disk, stable, handle, entries, logLock, refLock, keyLock, work,
                 line, up, may, boundVars>>

\* The temporary file is synced and the state's lock is dropped.
DropState(w) ==
  /\ pc[w] = "snapshot"
  /\ Goto(w, "rename")
  /\ UNCHANGED <<memVars, fileVars, entries, lockVars, work, line, up, histVars, boundVars>>

\* fs::rename: the path names the new file, log_file still the old one.  A rename
\* counts as durable: file systems order it before a later sync of the file.
RenameLog(w) ==
  /\ pc[w] = "rename"
  /\ disk' = tmp /\ stable' = Len(tmp) /\ handle' = "unlinked"
  /\ Goto(w, "reopen")
  /\ UNCHANGED <<memVars, tmp, entries, lockVars, work, line, up, histVars, boundVars>>

\* The renamed log is opened and takes log_file's place.
SwapHandle(w) ==
  /\ pc[w] = "reopen" /\ logLock = None
  /\ handle' = "log"
  /\ Goto(w, "settle")
  /\ UNCHANGED <<memVars, disk, stable, tmp, entries, lockVars, work, line, up, histVars, boundVars>>

\* log_entries.store(written).
EndCompaction(w) ==
  /\ pc[w] = "settle"
  /\ entries' = Len(tmp) \div 2
  /\ tmp' = <<>> /\ compactLock' = None
  /\ Advance(w)
  /\ UNCHANGED <<memVars, disk, stable, handle, logLock, up, histVars, boundVars>>

-----------------------------------------------------------------------------
(* Failures *)

Fault == faults < MaxFaults /\ faults' = faults + 1

\* A write or the sync of append_entry fails: the operation fails with what was
\* written left in the log, and its effect not in memory.
AppendFails(w) ==
  /\ Fault
  /\ \/ /\ pc[w] = "line" /\ logLock = None
        /\ disk' = disk \/ Write(Torn)
        /\ raced' = (raced \/ LineCut)
     \/ /\ pc[w] \in {"newline", "sync"}
        /\ UNCHANGED <<disk, raced>>
  /\ logLock' = IF logLock = w THEN None ELSE logLock
  /\ may' = [k \in Keys |-> IF Boundary(line[w]) /\ line[w].key = k
                           THEN may[k] \cup {line[w].val} ELSE may[k]]
  /\ Leave(w)
  /\ UNCHANGED <<memVars, stable, handle, tmp, entries, compactLock, up, ops, restarts>>

\* compact fails before its rename, or cannot reopen the log after it; the
\* operation goes on (maybe_compact only warns).
CompactionFails(w) ==
  /\ Fault
  /\ pc[w] \in {"snapshot", "rename", "reopen"}
  /\ compactLock' = None /\ tmp' = <<>>
  /\ Advance(w)
  /\ UNCHANGED <<memVars, disk, stable, handle, entries, logLock, up, histVars, ops, restarts>>

\* open_with on what is left of the file; sound says that all of it is on
\* stable storage.
Restart(items, sound) ==
  LET r == Replay(items) IN
  /\ up' = ~r.failed
  /\ manifests' = r.state.manifests /\ counts' = r.state.counts
  /\ disk' = IF r.stopped THEN SubSeq(items, 1, r.good) ELSE items
  /\ stable' = IF r.stopped \/ sound THEN Len(disk') ELSE stable
  /\ entries' = r.read
  /\ handle' = "log" /\ tmp' = <<>>
  /\ logLock' = None /\ refLock' = None /\ compactLock' = None
  /\ keyLock' = [k \in Keys |-> None]
  /\ pc' = [w \in Writers |-> "idle"]
  /\ work' = [w \in Writers |-> <<>>]
  /\ restarts' = restarts + 1
  /\ UNCHANGED <<line, raced, ops>>

\* The process is killed: what was written stays, synced or not.
Kill ==
  /\ Fault
  /\ may' = [k \in Keys |-> may[k] \cup UnderWay(k)]
  /\ Restart(disk, FALSE)

\* Power is lost: of what was not synced a prefix stays, the last item cut.
PowerCut ==
  /\ Fault
  /\ \E n \in stable..Len(disk) :
       \/ Restart(SubSeq(disk, 1, n), TRUE)
       \/ /\ n < Len(disk) /\ IsEntry(disk[n + 1])
          /\ \E cut \in {Torn, Mangled} : Restart(Append(SubSeq(disk, 1, n), cut), TRUE)
  /\ may' = [k \in Keys |-> {manifests'[k]}]

\* A thread in an operation runs on, and every lock is granted in the end
\* (parking_lot's locks are fair in the long run).
Progress(w) ==
  \/ AddChunkRef(w) \/ DecrementChunkRef(w) \/ PutManifest(w) \/ DeleteManifest(w)
  \/ AppendLine(w) \/ AppendNewline(w) \/ Sync(w) \/ Apply(w)
  \/ SkipCompaction(w) \/ StartCompaction(w) \/ DropState(w) \/ RenameLog(w)
  \/ SwapHandle(w) \/ EndCompaction(w)

WriterStep(w) ==
  \/ \E k \in Keys, c \in Chunks : Store(w, k, c)
  \/ \E k \in Keys : Delete(w, k)
  \/ Progress(w)
  \/ AppendFails(w) \/ CompactionFails(w)

Next == up /\ (Kill \/ PowerCut \/ \E w \in Writers : WriterStep(w))

Spec == Init /\ [][Next]_vars

FairSpec == Spec /\ \A w \in Writers : WF_vars(Progress(w))

-----------------------------------------------------------------------------
(* Properties *)

Idle == \A w \in Writers : pc[w] = "idle"
Restarted == restarts' > restarts
KeysSurvive == \A k \in Keys : manifests'[k] \in may[k] \cup UnderWay(k)

\* Every variable has its type.
LogTypeOK ==
  /\ manifests \in [Keys -> Chunks \cup {None}] /\ counts \in [Chunks -> Nat]
  /\ stable \in 0..Len(disk) /\ handle \in {"log", "unlinked"} /\ entries \in Nat
  /\ {logLock, refLock, compactLock} \subseteq Writers \cup {None}
  /\ keyLock \in [Keys -> Writers \cup {None}]
  /\ up \in BOOLEAN /\ may \in [Keys -> SUBSET (Chunks \cup {None})]

\* Without failures the log, replayed, gives the memory whenever no operation is
\* under way: lines of several writers never mix, the order of lines is the order
\* of updates, a compaction no append overlapped drops nothing that matters.
MemoryIsReplay ==
  Idle /\ faults = 0 /\ ~raced =>
    Replay(disk).state = [manifests |-> manifests, counts |-> counts]

\* Then every chunk's count is the number of objects with it: no two writers
\* read the same count (chunk_ref_lock).
CountsMatch ==
  Idle /\ faults = 0 /\ ~raced =>
    \A c \in Chunks : counts[c] = Cardinality({k \in Keys : manifests[k] = c})

\* What a reader of the index and of the log may rely on between operations.
LogInv == LogTypeOK /\ MemoryIsReplay /\ CountsMatch

\* After a restart every key has the value readers last saw, or that of an
\* operation that was under way or failed: a store, overwrite or delete that took
\* effect is not lost (config.rs:37, of the sync at each operation's end:
\* "Durable").  Nothing is said once an entry has gone astray (raced), which the
\* code does not prevent:
\*   - it is written while another thread compacts, or between its writing and
\*     its effect in memory another thread takes a snapshot (index.rs:323-371);
\*   - it goes to the file a compaction unlinked and could not reopen;
\*   - it continues a line that a failed write has cut (index.rs:146).
\* A line cut inside a character makes the open fail, where index.rs:74-77 speaks
\* of truncating it; then this speaks of what the file holds before the cut.
AckedSurvive == [][Restarted /\ ~raced => KeysSurvive]_vars

\* After a first crash every object has its references recorded, those apart
\* that a delete had begun to drop: the one sync at the end of an upload makes the
\* entries before it durable.
RefsCovered ==
  [][Restarted /\ faults = 0 /\ ~raced =>
       \A c \in Chunks :
         Cardinality({k \in Keys : manifests'[k] = c})
           <= counts'[c] + Cardinality({w \in Writers : \E k \in Keys :
                             keyLock[k] = w /\ manifests[k] = c})]_vars

\* Every operation returns, with failed writes, syncs and compactions: the locks
\* of keys, counts, the log and compaction never wait on one another in a circle.
OperationsReturn == \A w \in Writers : pc[w] # "idle" ~> pc[w] = "idle"

\* docs/architecture.md:149, of compaction: "This is safe": nor is an entry lost that
\* was written while another thread compacted.
CompactionSafe == [][Restarted => KeysSurvive]_vars
=============================================================================
