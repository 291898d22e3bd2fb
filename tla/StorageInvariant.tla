-------------------------- MODULE StorageInvariant ---------------------------
(***************************************************************************)
(* The inductive invariant of StorageEngine: what every step of sessions,  *)
(* callers, the collector and failures preserves, and what makes the       *)
(* reference counts exact.                                                 *)
(***************************************************************************)
EXTENDS StorageEngine

\* The locals of an actor are set where its code has set them.
LocalsOK ==
  /\ \A a \in Actors : pc[a] \in {"write", "addref", "check", "unlink"} => cur[a] \in Chunks
  /\ \A a \in Actors : pc[a] \in {"check", "unlink"} => pos[a] <= Len(chunks[man[a]])
  /\ \A a \in Actors : pc[a] \in ReleasePc => man[a] \in Sessions
  /\ \A s \in Sessions : pc[s] \in {"open", "write", "addref", "finish", "put"} => key[s] \in Keys
  /\ \A s \in Sessions : pc[s] \in ReleasePc => key[s] \in Keys
  /\ \A t \in Callers : pc[t] # "idle" => key[t] \in Keys
  /\ \A t \in Callers : pc[t] \in {"rlock1", "rlock2", "rput", "rdel"} =>
       dest[t] \in Keys /\ dest[t] # key[t]
  /\ \A t \in Callers : pc[t] \in {"rput", "rdel"} => man[t] \in Sessions

Basic == TypeOK /\ LocalsOK

\* s has put its manifest and is releasing the object it replaced.
Replacing(s) == s \in Sessions /\ pc[s] \in ReleasePc /\ man[s] # s

\* Who holds which key's lock.
LocksHeld ==
  /\ \A s \in Sessions : pc[s] = "put" \/ Replacing(s) => keyLock[key[s]] = s
  /\ \A t \in Callers : Deleting(t) => keyLock[key[t]] = t
  /\ \A t \in Callers : pc[t] = "rlock2" => keyLock[FirstKey(t)] = t
  /\ \A t \in Callers : pc[t] \in {"rput", "rdel"} =>
       keyLock[key[t]] = t /\ keyLock[dest[t]] = t

\* What an actor read of its key under the lock still holds.
ReadsStable ==
  /\ \A s \in Sessions : pc[s] = "put" => man[s] = manifests[key[s]]
  /\ \A t \in Callers : Deleting(t) => manifests[key[t]] = man[t]
  /\ \A t \in Callers : pc[t] \in {"rput", "rdel"} => manifests[key[t]] = man[t]
  /\ \A t \in Callers : pc[t] = "rput" => manifests[dest[t]] = None
  /\ \A t \in Callers : pc[t] = "rdel" => manifests[dest[t]] = man[t]

\* Only an upload that was committed is stored, or released by somebody else.
Committed(u) == pc[u] = "done" \/ Replacing(u)
OnlyCommitted ==
  /\ \A k \in Keys : manifests[k] # None => Committed(manifests[k])
  /\ \A a \in Actors : pc[a] \in ReleasePc /\ man[a] # a => Committed(man[a])

\* References that were not dropped yet: all of an upload that is under way;
\* of an object somebody releases, those the loop has still to reach.
UnderWay(s) == pc[s] \in {"none", "open", "write", "addref", "finish", "put"}
Ahead(a) == {i \in 1..Len(chunks[man[a]]) : i > pos[a] \/ (i = pos[a] /\ pc[a] = "release")}
ReferencesHeld ==
  /\ \A r \in held : r[2] <= Len(chunks[r[1]])
  /\ \A s \in Sessions : UnderWay(s) => References(s) \subseteq held
  /\ \A a \in Actors : pc[a] \in ReleasePc /\ man[a] \notin damaged =>
       \A i \in Ahead(a) : <<man[a], i>> \in held

\* An object that was replaced is nobody else's to release, and not stored.
ReplacedOnce ==
  \A s \in Sessions : Replacing(s) /\ man[s] \notin damaged =>
    /\ ~Stored(man[s])
    /\ \A a \in Actors : pc[a] \in ReleasePc /\ man[a] = man[s] => a = s

\* Without failures nothing leaks: behind a release loop no reference is left, and
\* one that is held belongs to an upload under way or to a stored object, or some
\* loop has still to reach it.
Storing(s) == pc[s] \in {"open", "write", "addref", "finish", "put"}
Accounted ==
  faults = 0 =>
    /\ \A a \in Actors : pc[a] \in ReleasePc =>
         \A i \in 1..Len(chunks[man[a]]) \ Ahead(a) : <<man[a], i>> \notin held
    /\ \A r \in held :
         \/ Storing(r[1]) \/ Stored(r[1])
         \/ \E a \in Actors : pc[a] \in ReleasePc /\ man[a] = r[1] /\ r[2] \in Ahead(a)

\* Of a chunk that is not contended: what the index counts and what a session is
\* about to count is on disk, and a file on its way out is counted by nobody.
FilesKept ==
  \A c \in Chunks \ contended :
    /\ refs[c] > 0 \/ Counting(c) => c \in files
    /\ Removing(c, gc) => refs[c] = 0

IInv ==
  /\ Basic
  /\ LocksHeld /\ ReadsStable /\ OnlyCommitted
  /\ ReferencesHeld /\ ReplacedOnce /\ StoredHeld /\ OneName
  /\ IsFiniteSet(held) /\ RefsExact /\ Accounted /\ FilesKept
=============================================================================
