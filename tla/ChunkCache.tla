------------------------------ MODULE ChunkCache ------------------------------
(***************************************************************************)
(* The LRU cache of chunk data that all downloads share                    *)
(* (crates/kaidadb-cache/src/lib.rs).  Every operation holds the write     *)
(* lock, so each is one step.  Two limits bound the cache: max_size, which *)
(* insert keeps by a counter of its own, and the LruCache's capacity,      *)
(* which the LruCache keeps by dropping its oldest entry in silence.       *)
(* The hit and miss counts are left out.                                   *)
(***************************************************************************)
EXTENDS Integers, Sequences, SequencesExt

CONSTANTS
  Chunks,      \* chunk ids
  Bytes,       \* the size of each chunk
  MaxSize,     \* max_size: bytes
  MaxEntries   \* the LruCache's capacity: entries

ASSUME CacheBounds ==
  /\ Bytes \in [Chunks -> Nat]
  /\ MaxSize \in Nat /\ MaxEntries \in Nat \ {0}

VARIABLES
  lru,         \* the cached chunks, least recently used first
  current      \* current_size

cacheVars == <<lru, current>>

Size(s) ==
  LET sum[i \in 0..Len(s)] == IF i = 0 THEN 0 ELSE sum[i - 1] + Bytes[s[i]]
  IN sum[Len(s)]
Cached(c) == c \in Range(lru)
Without(s, c) ==
  IF c \in Range(s) THEN RemoveAt(s, CHOOSE i \in 1..Len(s) : s[i] = c) ELSE s

CacheInit == lru = <<>> /\ current = 0

\* get: a hit makes the chunk the most recently used.
CacheGet(c) ==
  /\ lru' = IF Cached(c) THEN Append(Without(lru, c), c) ELSE lru
  /\ UNCHANGED current

\* How many of the oldest entries insert pops before len bytes fit, by the
\* counter, or nothing is left.
Popped(len) ==
  CHOOSE n \in 0..Len(lru) :
    LET enough(i) == i = Len(lru) \/ current - Size(SubSeq(lru, 1, i)) + len <= MaxSize
    IN enough(n) /\ \A i \in 0..(n - 1) : ~enough(i)

CacheInsert_NoReplace(c) ==
  IF Bytes[c] > MaxSize THEN UNCHANGED cacheVars ELSE
  LET n    == Popped(Bytes[c])
      kept == SubSeq(lru, n + 1, Len(lru))
  IN /\ lru' = Append(Without(kept, c), c)
     /\ current' = current - Size(SubSeq(lru, 1, n)) - (IF Cached(c) THEN Bytes[c] ELSE 0)
                     + Bytes[c]

\* insert: oversized data is not cached.  put replaces an entry of the same
\* chunk, whose size is subtracted; at its capacity it drops the oldest entry,
\* whose size is not.
CacheInsert(c) ==
  IF Bytes[c] > MaxSize THEN UNCHANGED cacheVars ELSE
  LET n    == Popped(Bytes[c])
      kept == SubSeq(lru, n + 1, Len(lru))
      left == current - Size(SubSeq(lru, 1, n))
  IN IF c \in Range(kept)
     THEN lru' = Append(Without(kept, c), c) /\ current' = left
     ELSE /\ lru' = Append(IF Len(kept) = MaxEntries THEN Tail(kept) ELSE kept, c)
          /\ current' = left + Bytes[c]

CacheInvalidate_Always(c) == lru' = Without(lru, c) /\ current' = current - Bytes[c]

\* invalidate
CacheInvalidate(c) ==
  /\ lru' = Without(lru, c)
  /\ current' = current - (IF Cached(c) THEN Bytes[c] ELSE 0)

CacheTypeOK == lru \in Seq(Chunks) /\ IsInjective(lru) /\ current \in Nat

\* The data held never exceeds max_size nor the entry capacity; the counter is
\* never below the data (so `current_size -=` cannot wrap), and what it counts
\* for entries dropped in silence is at most max_size, so that `current_size +
\* data_len` stays far from the end of usize.
CacheWithinLimits ==
  /\ Size(lru) <= MaxSize /\ Len(lru) <= MaxEntries
  /\ Size(lru) <= current /\ current - Size(lru) <= MaxSize
=============================================================================
