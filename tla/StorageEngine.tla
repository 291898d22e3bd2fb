---------------------------- MODULE StorageEngine ----------------------------
(***************************************************************************)
(* The storage engine of KaidaDB: upload sessions, deletes, renames and    *)
(* the orphan collector, over one content-addressed chunk store and one    *)
(* reference-counted index (crates/kaidadb-storage).                       *)
(*                                                                         *)
(* The steps are those another thread can observe: every lock acquisition, *)
(* every index update (atomic under the index's own locks), every file     *)
(* system call on a chunk.  The index is modelled by its in-memory state;  *)
(* its log, with torn writes and compaction, is module IndexLog.           *)
(*                                                                         *)
(* An upload session lives once (finish, abort and drop consume it), so    *)
(* the session that wrote an object identifies the object: a manifest is   *)
(* the session, and its chunk list is chunks[session].  Keys are compared  *)
(* with < by rename, so they are numbers.                                  *)
(*                                                                         *)
(* An operator named Action_Slip is the action with a plausible slip in    *)
(* it; no behaviour uses it, it shows which property the slip would break. *)
(***************************************************************************)
EXTENDS Integers, Sequences, FiniteSets

CONSTANTS
  Keys,        \* object keys
  Chunks,      \* chunk contents, that is chunk ids
  Sessions,    \* StoreSession values, each used at most once
  Callers,     \* threads that call delete and rename
  MaxChunks,   \* bound: chunks per object
  MaxFaults,   \* bound: failed file or log operations, and crashes
  None         \* no key, no chunk, no manifest, no lock owner

Actors == Sessions \cup Callers

ASSUME KeysAssumption == Keys \subseteq Nat
ASSUME BoundsAssumption == MaxChunks \in Nat /\ MaxFaults \in Nat
ASSUME ActorsAssumption == Sessions \cap Callers = {}
ASSUME NoneAssumption == None \notin Keys \cup Chunks \cup Actors

VARIABLES
  manifests,  \* Index.state.manifests: the object stored under each key
  refs,       \* Index.state.chunk_locations: ref_count, 0 when absent
  files,      \* chunk files in place on disk
  old,        \* those whose mtime is older than the collector's grace
  keyLock,    \* the holder of each per-key mutex
  pc,         \* where each session or caller is
  key,        \* the key an actor works on (from_key of a rename)
  dest,       \* to_key of a rename
  chunks,     \* StoreSession.chunks = referenced_chunks = manifest.chunks
  cur,        \* the chunk being flushed or unlinked
  man,        \* the manifest it read: to release its references, or to move
  pos,        \* the position of that loop
  gc,         \* the collector: what it knows and what it has left to visit
  held,       \* history: references <<session, position>> taken, not released
  contended,  \* history: chunks counted while their file was on its way out
  damaged,    \* history: objects a failure left half released or half renamed
  faults      \* history: failures so far

dataVars  == <<manifests, refs, files, old>>
localVars == <<key, dest, chunks, cur, man, pos>>
histVars  == <<held, contended, damaged, faults>>
vars == <<dataVars, keyLock, pc, localVars, gc, histVars>>

-----------------------------------------------------------------------------
SessionPc == {"none", "open", "write", "addref", "finish", "put",
              "release", "check", "unlink", "done", "lost"}
CallerPc  == {"idle", "dlock", "rlock1", "rlock2", "rput", "rdel",
              "release", "check", "unlink"}

\* The loop that drops the references of man[a]: finish's overwritten object,
\* abort's own chunks, or delete's object.
ReleasePc == {"release", "check", "unlink"}
Aborting(s) == pc[s] \in ReleasePc /\ man[s] = s
Deleting(t) == t \in Callers /\ pc[t] \in ReleasePc

NoSweep == [phase |-> "idle", indexed |-> {}, stale |-> {}, todo |-> {}, victim |-> None]

\* The order in which rename takes its two locks.
FirstKey_Unsorted(t) == key[t]
FirstKey(t)  == IF key[t] < dest[t] THEN key[t] ELSE dest[t]
SecondKey(t) == IF FirstKey(t) = key[t] THEN dest[t] ELSE key[t]

Init ==
  /\ manifests = [k \in Keys |-> None]
  /\ refs = [c \in Chunks |-> 0]
  /\ files = {}
  /\ old = {}
  /\ keyLock = [k \in Keys |-> None]
  /\ pc = [a \in Actors |-> IF a \in Sessions THEN "none" ELSE "idle"]
  /\ key = [a \in Actors |-> None]
  /\ dest = [t \in Callers |-> None]
  /\ chunks = [s \in Sessions |-> <<>>]
  /\ cur = [a \in Actors |-> None]
  /\ man = [a \in Actors |-> None]
  /\ pos = [a \in Actors |-> 1]
  /\ gc = NoSweep
  /\ held = {}
  /\ contended = {}
  /\ damaged = {}
  /\ faults = 0

Goto(a, label) == pc' = [pc EXCEPT ![a] = label]

\* Guards are dropped when the function returns: every lock of a is free.
Unlock(a) == keyLock' = [k \in Keys |-> IF keyLock[k] = a THEN None ELSE keyLock[k]]

\* a leaves its operation for good or until its next call; the chunk list of
\* an object stays, the other locals are dead.
Return(a, label) ==
  /\ Goto(a, label)
  /\ Unlock(a)
  /\ key' = [key EXCEPT ![a] = None]
  /\ dest' = [t \in Callers |-> IF t = a THEN None ELSE dest[t]]
  /\ cur' = [cur EXCEPT ![a] = None]
  /\ man' = [man EXCEPT ![a] = None]
  /\ pos' = [pos EXCEPT ![a] = 1]
  /\ UNCHANGED chunks

\* a starts dropping the references of object m, from the first on.
StartRelease(a, m) ==
  /\ Goto(a, "release")
  /\ man' = [man EXCEPT ![a] = m]
  /\ pos' = [pos EXCEPT ![a] = 1]

\* A file that the collector at work will not take for recent: older than the
\* grace when it read the clock, or written later (a negative age is no age).
Recent(c) == c \in files \ gc.stale

\* The file of c is on its way out: a release has dropped the last reference,
\* or the collector, at g, knows no entry of c and will not take its file for recent.
Removing(c, g) ==
  \/ \E a \in Actors : pc[a] \in {"check", "unlink"} /\ cur[a] = c
  \/ g.phase # "idle" /\ c \in g.stale \ g.indexed
  \/ g.victim = c

\* Somebody has seen the file of c in place and is about to count it.
Counting(c) == \E s \in Sessions : pc[s] = "addref" /\ cur[s] = c

\* The file of c is removed.
Remove(c) ==
  /\ files' = files \ {c}
  /\ old' = old \ {c}
  /\ contended' = IF Counting(c) THEN contended \cup {c} ELSE contended

\* A reference to c is recorded.
Count(c) == contended' = IF Removing(c, gc) THEN contended \cup {c} ELSE contended

-----------------------------------------------------------------------------
(* Upload sessions: begin_store, write, finish, abort *)

BeginStore(s, k) ==
  /\ pc[s] = "none"
  /\ Goto(s, "open")
  /\ key' = [key EXCEPT ![s] = k]
  /\ UNCHANGED <<dataVars, keyLock, dest, chunks, cur, man, pos, gc, histVars>>

\* flush_chunk up to write_chunk's path.exists(): a chunk file already there is
\* not written again.
FlushChunk(s, c) ==
  /\ pc[s] = "open"
  /\ Len(chunks[s]) < MaxChunks
  /\ Goto(s, IF c \in files THEN "addref" ELSE "write")
  /\ cur' = [cur EXCEPT ![s] = c]
  /\ UNCHANGED <<dataVars, keyLock, key, dest, chunks, man, pos, gc, histVars>>

\* write_chunk's rename of the temporary file into place.  Its mtime is that of
\* the write before the rename, by the kernel's coarser clock: beside a collection
\* at work it may lie before the time that one started from, or behind it.
WriteChunk(s) ==
  /\ pc[s] = "write"
  /\ files' = files \cup {cur[s]}
  /\ old' = old \ {cur[s]}
  /\ \E stale \in IF gc.phase = "idle" THEN {gc.stale}
                  ELSE {gc.stale \cup {cur[s]}, gc.stale \ {cur[s]}} :
       gc' = [gc EXCEPT !.stale = stale]
  /\ contended' = IF Removing(cur[s], gc') THEN contended \cup {cur[s]}
                                           ELSE contended \ {cur[s]}
  /\ Goto(s, "addref")
  /\ UNCHANGED <<manifests, refs, keyLock, localVars, held, damaged, faults>>

AddChunkRef_Overwrites(s) ==
  /\ pc[s] = "addref"
  /\ refs' = [refs EXCEPT ![cur[s]] = 1]
  /\ chunks' = [chunks EXCEPT ![s] = Append(@, cur[s])]
  /\ cur' = [cur EXCEPT ![s] = None]
  /\ held' = held \cup {<<s, Len(chunks[s]) + 1>>}
  /\ Count(cur[s])
  /\ Goto(s, "open")
  /\ UNCHANGED <<manifests, files, old, keyLock, key, dest, man, pos, gc, damaged, faults>>

AddChunkRef(s) ==
  /\ pc[s] = "addref"
  /\ refs' = [refs EXCEPT ![cur[s]] = @ + 1]
  /\ chunks' = [chunks EXCEPT ![s] = Append(@, cur[s])]
  /\ cur' = [cur EXCEPT ![s] = None]
  /\ held' = held \cup {<<s, Len(chunks[s]) + 1>>}
  /\ Count(cur[s])
  /\ Goto(s, "open")
  /\ UNCHANGED <<manifests, files, old, keyLock, key, dest, man, pos, gc, damaged, faults>>

Finish(s) ==
  /\ pc[s] = "open"
  /\ Goto(s, "finish")
  /\ UNCHANGED <<dataVars, keyLock, localVars, gc, histVars>>

\* finish takes the key's lock and reads the object it is about to replace.
LockCommit(s) ==
  /\ pc[s] = "finish"
  /\ keyLock[key[s]] = None
  /\ keyLock' = [keyLock EXCEPT ![key[s]] = s]
  /\ man' = [man EXCEPT ![s] = manifests[key[s]]]
  /\ Goto(s, "put")
  /\ UNCHANGED <<dataVars, key, dest, chunks, cur, pos, gc, histVars>>

PutManifest_ReleasesItself(s) ==
  /\ pc[s] = "put"
  /\ manifests' = [manifests EXCEPT ![key[s]] = s]
  /\ \/ man[s] = None /\ Return(s, "done")
     \/ /\ man[s] # None
        /\ StartRelease(s, s)
        /\ UNCHANGED <<keyLock, key, dest, chunks, cur>>
  /\ UNCHANGED <<refs, files, old, gc, histVars>>

PutManifest_Leaks(s) ==
  /\ pc[s] = "put"
  /\ manifests' = [manifests EXCEPT ![key[s]] = s]
  /\ Return(s, "done")
  /\ UNCHANGED <<refs, files, old, gc, histVars>>

\* finish stores the manifest, then releases the previous object if any.
PutManifest(s) ==
  /\ pc[s] = "put"
  /\ manifests' = [manifests EXCEPT ![key[s]] = s]
  /\ \/ /\ man[s] = None
        /\ Return(s, "done")
     \/ /\ man[s] # None
        /\ StartRelease(s, man[s])
        /\ UNCHANGED <<keyLock, key, dest, chunks, cur>>
  /\ UNCHANGED <<refs, files, old, gc, histVars>>

\* The driver gives up: a size limit, a failed write, a broken request body.
Abort(s) ==
  /\ pc[s] = "open"
  /\ StartRelease(s, s)
  /\ UNCHANGED <<dataVars, keyLock, key, dest, chunks, cur, gc, histVars>>

-----------------------------------------------------------------------------
(* delete *)

DeleteCall(t, k) ==
  /\ pc[t] = "idle"
  /\ Goto(t, "dlock")
  /\ key' = [key EXCEPT ![t] = k]
  /\ UNCHANGED <<dataVars, keyLock, dest, chunks, cur, man, pos, gc, histVars>>

\* delete takes the lock and looks the object up; no object ends the call.
DeleteLock(t) ==
  /\ pc[t] = "dlock"
  /\ keyLock[key[t]] = None
  /\ \/ /\ manifests[key[t]] = None
        /\ Return(t, "idle")
     \/ /\ manifests[key[t]] # None
        /\ keyLock' = [keyLock EXCEPT ![key[t]] = t]
        /\ StartRelease(t, manifests[key[t]])
        /\ UNCHANGED <<key, dest, chunks, cur>>
  /\ UNCHANGED <<dataVars, gc, histVars>>

-----------------------------------------------------------------------------
(* The release loop shared by finish, abort and delete *)

DecrementChunkRef_Early(a) ==
  /\ pc[a] = "release"
  /\ pos[a] <= Len(chunks[man[a]])
  /\ LET c == chunks[man[a]][pos[a]] IN
       /\ refs' = [refs EXCEPT ![c] = IF @ > 0 THEN @ - 1 ELSE 0]
       /\ held' = held \ {<<man[a], pos[a]>>}
       /\ contended' = IF refs[c] > 1 \/ Counting(c) THEN contended ELSE contended \ {c}
       /\ \/ /\ refs[c] \in {1, 2}
             /\ Goto(a, "check")
             /\ cur' = [cur EXCEPT ![a] = c]
             /\ UNCHANGED pos
          \/ /\ refs[c] \notin {1, 2}
             /\ pos' = [pos EXCEPT ![a] = @ + 1]
             /\ UNCHANGED <<pc, cur>>
  /\ UNCHANGED <<manifests, files, old, keyLock, key, dest, chunks, man, gc, damaged, faults>>

\* decrement_chunk_ref: the last reference removes the index entry and sends
\* the actor to delete_chunk; an absent entry is left alone.
DecrementChunkRef(a) ==
  /\ pc[a] = "release"
  /\ pos[a] <= Len(chunks[man[a]])
  /\ LET c == chunks[man[a]][pos[a]] IN
       /\ refs' = [refs EXCEPT ![c] = IF @ > 0 THEN @ - 1 ELSE 0]
       /\ held' = held \ {<<man[a], pos[a]>>}
       /\ contended' = IF refs[c] > 1 \/ Counting(c) THEN contended ELSE contended \ {c}
       /\ \/ /\ refs[c] = 1
             /\ Goto(a, "check")
             /\ cur' = [cur EXCEPT ![a] = c]
             /\ UNCHANGED pos
          \/ /\ refs[c] # 1
             /\ pos' = [pos EXCEPT ![a] = @ + 1]
             /\ UNCHANGED <<pc, cur>>
  /\ UNCHANGED <<manifests, files, old, keyLock, key, dest, chunks, man, gc, damaged, faults>>

Continue(a) ==
  /\ Goto(a, "release")
  /\ pos' = [pos EXCEPT ![a] = @ + 1]
  /\ cur' = [cur EXCEPT ![a] = None]
  /\ UNCHANGED <<keyLock, key, dest, chunks, man>>

\* delete_chunk's path.exists().
DeleteChunkCheck(a) ==
  /\ pc[a] = "check"
  /\ \/ /\ cur[a] \in files
        /\ Goto(a, "unlink")
        /\ UNCHANGED <<keyLock, localVars>>
     \/ /\ cur[a] \notin files
        /\ Continue(a)
  /\ UNCHANGED <<dataVars, gc, histVars>>

\* delete_chunk's remove_file, when the file is still there.
DeleteChunk(a) ==
  /\ pc[a] = "unlink"
  /\ cur[a] \in files
  /\ Remove(cur[a])
  /\ Continue(a)
  /\ UNCHANGED <<manifests, refs, gc, held, damaged, faults>>

\* remove_file finds the file gone since the check: finish and abort ignore the
\* error, delete returns it with the object half released and still stored.
DeleteChunkGone(a) ==
  /\ pc[a] = "unlink"
  /\ cur[a] \notin files
  /\ \/ /\ a \in Sessions
        /\ Continue(a)
        /\ UNCHANGED damaged
     \/ /\ a \in Callers
        /\ Return(a, "idle")
        /\ damaged' = damaged \cup {man[a]}
  /\ UNCHANGED <<dataVars, gc, held, contended, faults>>

\* The end of the loop: delete removes the manifest, finish and abort return.
ReleaseDone(a) ==
  /\ pc[a] = "release"
  /\ pos[a] > Len(chunks[man[a]])
  /\ \/ /\ a \in Sessions
        /\ Return(a, "done")
        /\ UNCHANGED manifests
     \/ /\ a \in Callers
        /\ manifests' = [manifests EXCEPT ![key[a]] = None]
        /\ Return(a, "idle")
  /\ UNCHANGED <<refs, files, old, gc, histVars>>

-----------------------------------------------------------------------------
(* rename *)

RenameCall(t, from, to) ==
  /\ pc[t] = "idle"
  /\ from # to
  /\ Goto(t, "rlock1")
  /\ key' = [key EXCEPT ![t] = from]
  /\ dest' = [dest EXCEPT ![t] = to]
  /\ UNCHANGED <<dataVars, keyLock, chunks, cur, man, pos, gc, histVars>>

RenameLockFirst(t) ==
  /\ pc[t] = "rlock1"
  /\ keyLock[FirstKey(t)] = None
  /\ keyLock' = [keyLock EXCEPT ![FirstKey(t)] = t]
  /\ Goto(t, "rlock2")
  /\ UNCHANGED <<dataVars, localVars, gc, histVars>>

RenameLockSecond_Clobbers(t) ==
  /\ pc[t] = "rlock2"
  /\ keyLock[SecondKey(t)] = None
  /\ \/ manifests[key[t]] = None /\ Return(t, "idle")
     \/ /\ manifests[key[t]] # None
        /\ keyLock' = [keyLock EXCEPT ![SecondKey(t)] = t]
        /\ man' = [man EXCEPT ![t] = manifests[key[t]]]
        /\ Goto(t, "rput")
        /\ UNCHANGED <<key, dest, chunks, cur, pos>>
  /\ UNCHANGED <<dataVars, gc, histVars>>

\* With both locks: no object under from, or one under to, ends the call.
RenameLockSecond(t) ==
  /\ pc[t] = "rlock2"
  /\ keyLock[SecondKey(t)] = None
  /\ \/ /\ manifests[key[t]] = None \/ manifests[dest[t]] # None
        /\ Return(t, "idle")
     \/ /\ manifests[key[t]] # None /\ manifests[dest[t]] = None
        /\ keyLock' = [keyLock EXCEPT ![SecondKey(t)] = t]
        /\ man' = [man EXCEPT ![t] = manifests[key[t]]]
        /\ Goto(t, "rput")
        /\ UNCHANGED <<key, dest, chunks, cur, pos>>
  /\ UNCHANGED <<dataVars, gc, histVars>>

RenamePut(t) ==
  /\ pc[t] = "rput"
  /\ manifests' = [manifests EXCEPT ![dest[t]] = man[t]]
  /\ Goto(t, "rdel")
  /\ UNCHANGED <<refs, files, old, keyLock, localVars, gc, histVars>>

RenameDelete(t) ==
  /\ pc[t] = "rdel"
  /\ manifests' = [manifests EXCEPT ![key[t]] = None]
  /\ Return(t, "idle")
  /\ UNCHANGED <<refs, files, old, gc, histVars>>

-----------------------------------------------------------------------------
(* gc: the index is read first, the directory next, then file by file *)

GcReadIndex_Directory ==
  /\ gc.phase = "idle"
  /\ gc' = [NoSweep EXCEPT !.phase = "list", !.indexed = files, !.stale = old]
  /\ UNCHANGED <<dataVars, keyLock, pc, localVars, histVars>>

\* The index first, and the time from which the files' age is counted.
GcReadIndex ==
  /\ gc.phase = "idle"
  /\ gc' = [NoSweep EXCEPT !.phase = "list", !.indexed = {c \in Chunks : refs[c] > 0},
                           !.stale = old]
  /\ UNCHANGED <<dataVars, keyLock, pc, localVars, histVars>>

GcListFiles ==
  /\ gc.phase = "list"
  /\ gc' = [gc EXCEPT !.phase = "sweep", !.todo = files]
  /\ UNCHANGED <<dataVars, keyLock, pc, localVars, histVars>>

\* An indexed file and a recent one are passed over.
GcSkip(c) ==
  /\ gc.phase = "sweep" /\ gc.victim = None
  /\ c \in gc.todo
  /\ c \in gc.indexed \/ Recent(c)
  /\ gc' = [gc EXCEPT !.todo = @ \ {c}]
  /\ UNCHANGED <<dataVars, keyLock, pc, localVars, histVars>>

GcFindOrphan_NoGrace(c) ==
  /\ gc.phase = "sweep" /\ gc.victim = None
  /\ c \in gc.todo
  /\ c \notin gc.indexed
  /\ gc' = [gc EXCEPT !.victim = c]
  /\ UNCHANGED <<dataVars, keyLock, pc, localVars, histVars>>

\* Any other file is to go.  One that is gone by now has no metadata, is not
\* recent, and remove_file fails with a warning.
GcFindOrphan(c) ==
  /\ gc.phase = "sweep" /\ gc.victim = None
  /\ c \in gc.todo
  /\ c \notin gc.indexed /\ ~Recent(c)
  /\ gc' = [gc EXCEPT !.victim = c]
  /\ UNCHANGED <<dataVars, keyLock, pc, localVars, histVars>>

GcRemoveFile ==
  /\ gc.phase = "sweep" /\ gc.victim # None
  /\ Remove(gc.victim)
  /\ gc' = [gc EXCEPT !.todo = @ \ {gc.victim}, !.victim = None]
  /\ UNCHANGED <<manifests, refs, keyLock, pc, localVars, held, damaged, faults>>

\* The pass over the index that counts dangling entries changes nothing.
GcDone ==
  /\ gc.phase = "sweep" /\ gc.victim = None /\ gc.todo = {}
  /\ gc' = NoSweep
  /\ contended' = {c \in contended : c \notin files \/ Removing(c, NoSweep)}
  /\ UNCHANGED <<dataVars, keyLock, pc, localVars, held, damaged, faults>>

\* The grace period passes for a file.  It is far longer than the step from
\* write_chunk to add_chunk_ref, so no session is between the two.
Age(c) ==
  /\ c \in files \ old
  /\ \A s \in Sessions : pc[s] = "addref" => cur[s] # c
  /\ old' = old \cup {c}
  /\ UNCHANGED <<manifests, refs, files, keyLock, pc, localVars, gc, histVars>>

-----------------------------------------------------------------------------
(* Failures: an I/O error of one call, or the process is killed *)

Fault == faults < MaxFaults /\ faults' = faults + 1

FlushFails_PushedEarly(s) ==
  /\ pc[s] \in {"write", "addref"}
  /\ Fault
  /\ StartRelease(s, s)
  /\ chunks' = [chunks EXCEPT ![s] = Append(@, cur[s])]
  /\ cur' = [cur EXCEPT ![s] = None]
  /\ UNCHANGED <<dataVars, keyLock, key, dest, gc, held, contended, damaged>>

\* write_chunk or add_chunk_ref fails: write's caller aborts the session,
\* finish (trailing chunk) drops it without releasing what it took.
FlushFails(s) ==
  /\ pc[s] \in {"write", "addref"}
  /\ Fault
  /\ \/ /\ StartRelease(s, s)
        /\ cur' = [cur EXCEPT ![s] = None]
        /\ UNCHANGED <<keyLock, key, dest, chunks>>
     \/ Return(s, "lost")
  /\ UNCHANGED <<dataVars, gc, held, contended, damaged>>

\* finish's put_manifest fails before its line is in the log: the session is dropped.
CommitFails(s) ==
  /\ pc[s] = "put"
  /\ Fault
  /\ Return(s, "lost")
  /\ UNCHANGED <<dataVars, gc, held, contended, damaged>>

\* decrement_chunk_ref fails: abort goes on with the next chunk, finish returns
\* the error, and so does delete.  delete also returns a failing delete_chunk or
\* delete_manifest.
ReleaseFails(a) ==
  /\ \/ pc[a] = "release" /\ (pos[a] <= Len(chunks[man[a]]) \/ a \in Callers)
     \/ pc[a] \in {"check", "unlink"} /\ a \in Callers
  /\ Fault
  /\ \/ /\ a \in Sessions /\ Aborting(a)
        /\ Continue(a)
        /\ UNCHANGED damaged
     \/ /\ a \in Sessions /\ ~Aborting(a)
        /\ Return(a, "done")
        /\ UNCHANGED damaged
     \/ /\ a \in Callers
        /\ Return(a, "idle")
        /\ damaged' = damaged \cup {man[a]}
  /\ UNCHANGED <<dataVars, gc, held, contended>>

\* rename's put_manifest fails before its line is in the log, or its
\* delete_manifest after the put.
RenameFails(t) ==
  /\ pc[t] \in {"rput", "rdel"}
  /\ Fault
  /\ Return(t, "idle")
  /\ damaged' = IF pc[t] = "rdel" THEN damaged \cup {man[t]} ELSE damaged
  /\ UNCHANGED <<dataVars, gc, held, contended>>

\* The process dies and is started again: what is on disk stays, sessions and
\* calls are gone where they stood.
Crash ==
  /\ Fault
  /\ damaged' = damaged
       \cup {man[t] : t \in {a \in Callers : Deleting(a) \/ pc[a] = "rdel"}}
  /\ keyLock' = [k \in Keys |-> None]
  /\ pc' = [a \in Actors |->
              IF a \in Callers THEN "idle"
              ELSE IF pc[a] \in {"none", "done"} THEN pc[a]
              ELSE IF pc[a] \in ReleasePc /\ ~Aborting(a) THEN "done"
              ELSE "lost"]
  /\ key' = [a \in Actors |-> None]
  /\ dest' = [t \in Callers |-> None]
  /\ cur' = [a \in Actors |-> None]
  /\ man' = [a \in Actors |-> None]
  /\ pos' = [a \in Actors |-> 1]
  /\ gc' = NoSweep
  /\ UNCHANGED <<dataVars, chunks, held, contended>>

-----------------------------------------------------------------------------
SessionStep(s) ==
  \/ \E k \in Keys : BeginStore(s, k)
  \/ \E c \in Chunks : FlushChunk(s, c)
  \/ WriteChunk(s) \/ AddChunkRef(s)
  \/ Finish(s) \/ LockCommit(s) \/ PutManifest(s) \/ Abort(s)

CallerStep(t) ==
  \/ \E k \in Keys : DeleteCall(t, k)
  \/ DeleteLock(t)
  \/ \E from, to \in Keys : RenameCall(t, from, to)
  \/ RenameLockFirst(t) \/ RenameLockSecond(t) \/ RenamePut(t) \/ RenameDelete(t)

ReleaseStep(a) ==
  \/ DecrementChunkRef(a)
  \/ DeleteChunkCheck(a) \/ DeleteChunk(a) \/ DeleteChunkGone(a)
  \/ ReleaseDone(a)

GcStep ==
  \/ GcReadIndex \/ GcListFiles
  \/ \E c \in Chunks : GcSkip(c) \/ GcFindOrphan(c)
  \/ GcRemoveFile \/ GcDone

FaultStep ==
  \/ \E s \in Sessions : FlushFails(s) \/ CommitFails(s)
  \/ \E a \in Actors : ReleaseFails(a)
  \/ \E t \in Callers : RenameFails(t)
  \/ Crash

Next ==
  \/ \E s \in Sessions : SessionStep(s)
  \/ \E t \in Callers : CallerStep(t)
  \/ \E a \in Actors : ReleaseStep(a)
  \/ GcStep
  \/ \E c \in Chunks : Age(c)
  \/ FaultStep

Spec == Init /\ [][Next]_vars

-----------------------------------------------------------------------------
(* Scheduling *)

Acquire(a) ==
  \/ a \in Sessions /\ LockCommit(a)
  \/ a \in Callers /\ (DeleteLock(a) \/ RenameLockFirst(a) \/ RenameLockSecond(a))

\* What a thread does on its own once a call is under way.
Proceed(a) ==
  \/ a \in Sessions /\ (WriteChunk(a) \/ AddChunkRef(a) \/ PutManifest(a))
  \/ a \in Callers /\ (RenamePut(a) \/ RenameDelete(a))
  \/ ReleaseStep(a)

\* Threads are scheduled by the operating system (weak fairness) and
\* parking_lot's mutexes hand themselves over eventually, so that a waiter is
\* not overtaken for ever (strong fairness).  Clients owe nothing: no call need
\* ever start, and an open session may stay open.
Fairness == \A a \in Actors : WF_vars(Proceed(a)) /\ SF_vars(Acquire(a))

\* The server's ticker starts a collection again and again, and time passes.
GcFairness ==
  /\ WF_vars(GcReadIndex \/ GcListFiles \/ GcRemoveFile \/ GcDone)
  /\ \A c \in Chunks : WF_vars(GcSkip(c) \/ GcFindOrphan(c)) /\ WF_vars(Age(c))

FairSpec == Spec /\ Fairness
FairGcSpec == FairSpec /\ GcFairness

-----------------------------------------------------------------------------
(* Properties *)

Contents(u) == {chunks[u][i] : i \in 1..Len(chunks[u])}
Stored(u) == \E k \in Keys : manifests[k] = u
References(u) == {u} \X (1..Len(chunks[u]))
Undamaged(c) == \A u \in damaged : c \notin Contents(u)

DataTypeOK ==
  /\ manifests \in [Keys -> Sessions \cup {None}]
  /\ refs \in [Chunks -> Nat]
  /\ files \subseteq Chunks /\ old \subseteq files
  /\ gc \in [phase : {"idle", "list", "sweep"}, indexed : SUBSET Chunks,
            stale : SUBSET Chunks, todo : SUBSET Chunks, victim : Chunks \cup {None}]
  /\ held \subseteq Sessions \X (Nat \ {0})
  /\ contended \subseteq Chunks
  /\ damaged \subseteq Sessions
  /\ faults \in 0..MaxFaults

ActorTypeOK ==
  /\ keyLock \in [Keys -> Actors \cup {None}]
  /\ pc \in [Actors -> SessionPc \cup CallerPc]
  /\ \A s \in Sessions : pc[s] \in SessionPc
  /\ \A t \in Callers : pc[t] \in CallerPc
  /\ key \in [Actors -> Keys \cup {None}]
  /\ dest \in [Callers -> Keys \cup {None}]
  /\ chunks \in [Sessions -> Seq(Chunks)]
  /\ cur \in [Actors -> Chunks \cup {None}]
  /\ man \in [Actors -> Sessions \cup {None}]
  /\ pos \in [Actors -> Nat \ {0}]

\* Every variable has its type.
TypeOK == DataTypeOK /\ ActorTypeOK

\* The count of a chunk is exactly the number of references that were taken on
\* it and not released: no increment is lost and no reference is dropped twice
\* by racing finish, abort, delete and rename (chunk_ref_lock, the key locks),
\* for every chunk of which no object was left half released by a failure.
RefsExact ==
  \A c \in Chunks : Undamaged(c) =>
    refs[c] = Cardinality({r \in held : chunks[r[1]][r[2]] = c})

\* A stored object holds all its references, except the prefix its running
\* delete has dropped: overwriting, renaming or deleting one object never
\* costs another one a reference.
StoredHeld ==
  \A k \in Keys : \A u \in Sessions \ damaged :
    manifests[k] = u =>
      \/ References(u) \subseteq held
      \/ \E t \in Callers : Deleting(t) /\ key[t] = k /\ man[t] = u

\* An object has one name: two keys share a manifest only between the two steps
\* of a rename of one to the other.
OneName ==
  \A k1, k2 \in Keys : \A u \in Sessions \ damaged :
    k1 # k2 /\ manifests[k1] = u /\ manifests[k2] = u =>
      \E t \in Callers : pc[t] = "rdel" /\ {k1, k2} = {key[t], dest[t]}

\* With every call returned, no session dropped and no failure, the index
\* counts exactly the references of the stored objects: nothing leaks (an
\* overwritten, aborted or deleted object leaves no entry) and nothing is short.
QuiescentExact ==
  (/\ \A a \in Actors : pc[a] \in {"none", "done", "idle"}
   /\ faults = 0 /\ damaged = {}) =>
     \A c \in Chunks : refs[c] =
       Cardinality({r \in UNION {References(u) : u \in {v \in Sessions : Stored(v)}} :
                      chunks[r[1]][r[2]] = c})

\* Every chunk of a stored object is on disk, however uploads, overwrites,
\* deletes, renames, collections, failures and restarts interleave: releases
\* unlink what nobody counts, and the collector leaves alone what is indexed and
\* what is recent.  Excepted are an object whose delete is under way, chunks of
\* an object a failure left half released, and a chunk that a session counted
\* (exists(), or its own write, then add_chunk_ref) while its file was on its way
\* out, until nobody counts it any more, its file is written with nobody about
\* to remove it, or the collection ends that left the file where it was.
ReadableUnlessContended ==
  \A k \in Keys : \A u \in Sessions : manifests[k] = u =>
    \/ \A c \in Contents(u) \ contended : Undamaged(c) => c \in files
    \/ \E t \in Callers : Deleting(t) /\ key[t] = k /\ man[t] = u

\* Every delete and rename returns and every finish ends, whoever else holds
\* or wants the same keys: the sorted lock order leaves no cycle.
EveryCallEnds ==
  /\ \A t \in Callers : (pc[t] # "idle") ~> (pc[t] = "idle")
  /\ \A s \in Sessions : (pc[s] = "finish") ~> (pc[s] \in {"done", "lost"})

\* A chunk file no index entry names (left by a kill or a failed call between
\* the file's step and the index's) is collected, or used again.
OrphansReclaimed ==
  \A c \in Chunks : (c \in files /\ refs[c] = 0) ~> (c \notin files \/ refs[c] > 0)

-----------------------------------------------------------------------------
(* What the repository says, and the code does not do *)

\* docs/architecture.md:179: "the shared chunks remain on disk until all
\* references are gone".
SharedChunksRemain == \A c \in Chunks : refs[c] > 0 => c \in files

\* crates/kaidadb-storage/src/engine.rs:194-195, of gc: "Orphans modified within
\* `grace` are skipped to avoid racing in-flight uploads. Safe to run
\* concurrently with normal traffic": beside uploads alone, with no failure,
\* what is stored stays readable.
GcSparesUploads ==
  \A k \in Keys : \A u \in Sessions : manifests[k] = u => Contents(u) \subseteq files
=============================================================================
