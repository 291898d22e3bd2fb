----------------------------- MODULE LogInvariant -----------------------------
(***************************************************************************)
(* Why the properties of IndexLog hold: an inductive invariant, whose      *)
(* parts say what each writer is about and which locks it has, what the    *)
(* file looks like, and what a replay of it, cut anywhere behind what is   *)
(* on stable storage, would give.                                          *)
(***************************************************************************)
EXTENDS IndexLog

Entry == [kind : {"count"}, key : Chunks, val : Nat]
           \cup [kind : {"manifest"}, key : Keys, val : Chunks \cup {None}]
Item == Entry \cup {NL, Torn, Mangled}

Updates == [op : {"add", "drop"}, key : {None}, chunk : Chunks]
             \cup [op : {"put"}, key : Keys, chunk : Chunks]
             \cup [op : {"remove"}, key : Keys, chunk : {None}]

Appending == {"line", "newline", "sync", "apply"}
Compaction == {"snapshot", "rename", "reopen", "settle"}

StateOK ==
  /\ LogTypeOK
  /\ disk \in Seq(Item) /\ tmp \in Seq(Item)
  /\ work \in [Writers -> Seq(Updates)] /\ line \in [Writers -> Item]
  /\ pc \in [Writers -> {"idle", "begin", "compact?"} \cup Appending \cup Compaction]
  /\ raced \in BOOLEAN /\ {ops, faults, restarts} \subseteq Nat

\* The update the writer is at.
Doing(w) == work[w][1]

\* What is left of an operation, and the locks and the line of its first update.
\* What a key's lock protects stays as it was read: the object that is replaced,
\* and the one that is deleted.
AddOK(w) ==
  /\ pc[w] \in {"begin", "line", "newline", "apply"}
  /\ Len(work[w]) = 2 /\ work[w][2].op = "put" /\ work[w][2].chunk = Doing(w).chunk
  /\ pc[w] # "begin" =>
       refLock = w /\ line[w] = Count(Doing(w).chunk, counts[Doing(w).chunk] + 1)

DropOK(w) ==
  /\ pc[w] \in {"begin", "line", "newline", "apply"}
  /\ \/ Len(work[w]) = 1
     \/ /\ Len(work[w]) = 2 /\ work[w][2].op = "remove"
        /\ keyLock[work[w][2].key] = w /\ manifests[work[w][2].key] = Doing(w).chunk
  /\ pc[w] # "begin" =>
       /\ refLock = w /\ counts[Doing(w).chunk] > 0
       /\ line[w] = Count(Doing(w).chunk, counts[Doing(w).chunk] - 1)

PutOK(w) ==
  /\ Len(work[w]) = 1 \/ (Len(work[w]) = 2 /\ work[w][2].op = "drop")
  /\ pc[w] = "begin" => Len(work[w]) = 1
  /\ pc[w] # "begin" => keyLock[Doing(w).key] = w
  /\ pc[w] \in Appending =>
       /\ line[w] = Manifest(Doing(w).key, Doing(w).chunk)
       /\ Len(work[w]) = 1 <=> manifests[Doing(w).key] = None
       /\ Len(work[w]) = 2 => work[w][2].chunk = manifests[Doing(w).key]

RemoveOK(w) ==
  /\ Len(work[w]) = 1 /\ keyLock[Doing(w).key] = w
  /\ pc[w] \in Appending => line[w] = Manifest(Doing(w).key, None)
  /\ pc[w] \notin {"begin"} \cup Appending => manifests[Doing(w).key] = None

WriterOK(w) ==
  /\ pc[w] = "idle" <=> work[w] = <<>>
  /\ pc[w] # "idle" =>
       /\ Doing(w).op = "add" => AddOK(w)
       /\ Doing(w).op = "drop" => DropOK(w)
       /\ Doing(w).op = "put" => PutOK(w)
       /\ Doing(w).op = "remove" => RemoveOK(w)
  /\ pc[w] \in {"newline", "sync"} => logLock = w
  /\ pc[w] \in Compaction => compactLock = w

WorkOK == \A w \in Writers : WriterOK(w)

\* Lines stand apart: only the last one may have no newline, or be cut.
Clean(d) == \A i \in 1..(Len(d) - 1) : d[i] # NL => IsEntry(d[i]) /\ d[i + 1] = NL

\* The entry is written, the memory is not updated yet.
Pending(w) == pc[w] \in {"newline", "sync", "apply"}

\* What the compaction under way wrote is still what the memory holds, and no
\* entry is between the log and the memory.
FileOK ==
  ~raced =>
    /\ Clean(disk)
    /\ \A w \in Writers :
         /\ Pending(w) => handle = "log" /\ ~Compacting
         /\ pc[w] = "newline" => disk # <<>> /\ Last(disk) = line[w]
         /\ pc[w] \in {"snapshot", "rename"} => tmp = Snapshot

\* What the first n items of the log replay to.
Logged(n) == Replay(SubSeq(disk, 1, n)).state

Written(k) ==
  {line[w].val : w \in {x \in Writers : Pending(x) /\ Boundary(line[x]) /\ line[x].key = k}}

\* However much of the log behind its stable part is lost, every key has a value
\* that was seen or is on its way.
SurviveOK ==
  ~raced =>
    /\ \A k \in Keys : manifests[k] \in may[k]
    /\ \A n \in stable..Len(disk), k \in Keys : Logged(n).manifests[k] \in may[k] \cup Written(k)
    /\ \A w \in Writers : Pending(w) /\ Boundary(line[w]) =>
         /\ Logged(Len(disk)).manifests[line[w].key] = line[w].val
         /\ pc[w] = "apply" =>
              \A n \in stable..Len(disk) : Logged(n).manifests[line[w].key] = line[w].val

\* Without failures the log is ahead of the memory by the entries on their way.
AheadOK ==
  faults = 0 /\ ~raced =>
    /\ \A k \in Keys :
         (\A w \in Writers : Pending(w) /\ Boundary(line[w]) => line[w].key # k)
           => Logged(Len(disk)).manifests[k] = manifests[k]
    /\ \A c \in Chunks :
         (\A w \in Writers : Pending(w) /\ ~Boundary(line[w]) => line[w].key # c)
           => Logged(Len(disk)).counts[c] = counts[c]
    /\ \A w \in Writers :
         Pending(w) /\ ~Boundary(line[w]) => Logged(Len(disk)).counts[line[w].key] = line[w].val

\* The objects with the chunk, but those whose delete has dropped the reference.
Owners(c) ==
  {k \in Keys : /\ manifests[k] = c
                /\ \A w \in Writers :
                     pc[w] # "idle" /\ Doing(w).op = "remove" => Doing(w).key # k}

\* The chunk that a writer has a reference on, for no object: for one that it is
\* going to store, or of one that it has replaced.
Claim(w) ==
  IF pc[w] = "idle" THEN None
  ELSE IF Doing(w).op = "put"
    THEN IF pc[w] \in {"begin"} \cup Appending THEN Doing(w).chunk
         ELSE IF Len(work[w]) = 2 THEN work[w][2].chunk ELSE None
  ELSE IF Doing(w).op = "drop" /\ Len(work[w]) = 1 THEN Doing(w).chunk ELSE None

CountsOK ==
  faults = 0 =>
    \A c \in Chunks :
      counts[c] = Cardinality(Owners(c)) + Cardinality({w \in Writers : Claim(w) = c})

\* The delete under way that has the object k to remove.
Deleting(w, k) ==
  /\ pc[w] # "idle"
  /\ \/ Doing(w).op = "remove" /\ Doing(w).key = k
     \/ Doing(w).op = "drop" /\ Len(work[w]) = 2 /\ work[w][2].key = k

\* The deletes whose objects, with the chunk, the first n items still have.
Deleters(n, c) ==
  {w \in Writers : \E k \in Keys :
     Deleting(w, k) /\ manifests[k] = c /\ Logged(n).manifests[k] = c}

LoggedOwners(n, c) == {k \in Keys : Logged(n).manifests[k] = c}

Covered(n, c) ==
  Cardinality(LoggedOwners(n, c)) <= Logged(n).counts[c] + Cardinality(Deleters(n, c))

\* However much of the log behind its stable part is lost, it has the references
\* of its objects, apart from what deletes have begun to drop.
CoverOK ==
  faults = 0 /\ ~raced => \A n \in stable..Len(disk), c \in Chunks : Covered(n, c)

LogIInv == StateOK /\ WorkOK /\ FileOK /\ SurviveOK /\ AheadOK /\ CountsOK
=============================================================================
