------------------------------ MODULE KeyLocks ------------------------------
(***************************************************************************)
(* The engine's table of key mutexes (engine.rs:66-116).  A mutex is made  *)
(* when a key is first used and shared by every thread that looks the key  *)
(* up while it is in the table.  A lookup that finds the table too large   *)
(* first drops the entries nobody else refers to.  An upload looks its     *)
(* mutex up when it begins and locks it when it commits; a delete does     *)
(* both at once; a rename looks up two and locks them in key order.        *)
(***************************************************************************)
EXTENDS Integers, FiniteSets

CONSTANTS Threads,   \* requests, each on a thread of its own
          Keys,      \* numbered in their order
          Mutexes,   \* the mutexes there can be at one time
          NoMutex, NoThread,
          MapLimit   \* entries above which a lookup prunes (1024)

ASSUME LocksAssumption ==
    /\ Keys \subseteq Nat /\ MapLimit \in Nat
    /\ NoMutex \notin Mutexes /\ NoThread \notin Threads

VARIABLES
    map,      \* key_locks: the mutex of each key in the table
    handle,   \* the Arcs each thread holds, by key
    owner,    \* who has locked each mutex
    want,     \* the keys of each thread's operation
    body      \* the threads whose upload still receives its body

lockVars == <<map, handle, owner, want, body>>

Fetched(t, k) == handle[t][k] # NoMutex

Locked(t, k) == Fetched(t, k) /\ owner[handle[t][k]] = t

InMap == {k \in Keys : map[k] # NoMutex}

\* Arc::strong_count(v) > 1
Shared(m) == \E t \in Threads, k \in Keys : handle[t][k] = m

Pruned_Emptied == IF Cardinality(InMap) > MapLimit THEN [k \in Keys |-> NoMutex] ELSE map

Pruned_Never == map

\* The table a lookup inserts into.
Pruned ==
    IF Cardinality(InMap) > MapLimit
      THEN [k \in Keys |-> IF Shared(map[k]) THEN map[k] ELSE NoMutex]
      ELSE map

\* The memory a new mutex can take.
Free(table) == {m \in Mutexes : ~Shared(m) /\ \A k \in Keys : table[k] # m}

LocksInit ==
    /\ map = [k \in Keys |-> NoMutex]
    /\ handle = [t \in Threads |-> [k \in Keys |-> NoMutex]]
    /\ owner = [m \in Mutexes |-> NoThread]
    /\ want = [t \in Threads |-> {}]
    /\ body = {}

\* A delete (one key), a rename (two) or an upload begins.
Begin(t, ks, uploads) ==
    /\ want[t] = {}
    /\ want' = [want EXCEPT ![t] = ks]
    /\ body' = IF uploads THEN body \cup {t} ELSE body
    /\ UNCHANGED <<map, handle, owner>>

\* key_lock, under the table's own mutex.
Fetch(t, k) ==
    /\ k \in want[t] /\ ~Fetched(t, k)
    /\ \A j \in want[t] : j < k => Fetched(t, j)
    /\ \E m \in IF Pruned[k] # NoMutex THEN {Pruned[k]} ELSE Free(Pruned) :
         /\ map' = [Pruned EXCEPT ![k] = m]
         /\ handle' = [handle EXCEPT ![t][k] = m]
    /\ UNCHANGED <<owner, want, body>>

Lock_AnyOrder(t, k) ==
    /\ k \in want[t] /\ t \notin body /\ \A j \in want[t] : Fetched(t, j)
    /\ owner[handle[t][k]] = NoThread
    /\ owner' = [owner EXCEPT ![handle[t][k]] = t]
    /\ UNCHANGED <<map, handle, want, body>>

\* The upload's worker has all it will get and goes on to finish.
BodyEnds(t) ==
    /\ t \in body /\ \A k \in want[t] : Fetched(t, k)
    /\ body' = body \ {t}
    /\ UNCHANGED <<map, handle, owner, want>>

\* lock(), in key order.
Lock(t, k) ==
    /\ k \in want[t] /\ t \notin body /\ \A j \in want[t] : Fetched(t, j)
    /\ \A j \in want[t] : j < k => Locked(t, j)
    /\ owner[handle[t][k]] = NoThread
    /\ owner' = [owner EXCEPT ![handle[t][k]] = t]
    /\ UNCHANGED <<map, handle, want, body>>

\* Guards and Arcs of the threads in T are dropped.
Drop(T) ==
    /\ owner' = [m \in Mutexes |-> IF owner[m] \in T THEN NoThread ELSE owner[m]]
    /\ handle' = [t \in Threads |-> IF t \in T THEN [k \in Keys |-> NoMutex] ELSE handle[t]]
    /\ want' = [t \in Threads |-> IF t \in T THEN {} ELSE want[t]]
    /\ body' = body \ T
    /\ UNCHANGED map

Inside(t) == want[t] # {} /\ \A k \in want[t] : Locked(t, k)

\* The operation is over.
Finish(t) == Inside(t) /\ Drop({t})

\* An upload is given up before it commits.
Abandon(t) ==
    /\ t \in body /\ \A k \in want[t] : Fetched(t, k)
    /\ Drop({t})

LocksStep(t) ==
    \/ \E k \in Keys : Fetch(t, k) \/ Lock(t, k)
    \/ BodyEnds(t)
    \/ Finish(t)
    \/ Abandon(t)

LocksNext ==
    \E t \in Threads :
      \/ \E j, k \in Keys : Begin(t, {j, k}, FALSE)
      \/ \E k \in Keys : Begin(t, {k}, TRUE)
      \/ LocksStep(t)

LocksSpec == LocksInit /\ [][LocksNext]_lockVars

----------------------------------------------------------------------------
(* Properties.                                                             *)

LocksTypeOK ==
    /\ map \in [Keys -> Mutexes \cup {NoMutex}]
    /\ handle \in [Threads -> [Keys -> Mutexes \cup {NoMutex}]]
    /\ owner \in [Mutexes -> Threads \cup {NoThread}]
    /\ want \in [Threads -> SUBSET Keys]
    /\ body \subseteq Threads

\* Two threads are never inside for one key, whatever was pruned while they
\* waited (engine.rs:106, 372, 410, 549).
MutualExclusion ==
    \A t, u \in Threads : \A k \in Keys : Locked(t, k) /\ Locked(u, k) => t = u

\* Whoever refers to a key's mutex refers to the one in the table: pruning
\* must keep every entry in use (engine.rs:110).
HandlesCurrent == \A t \in Threads, k \in Keys : Fetched(t, k) => map[k] = handle[t][k]

\* Two keys never share a mutex, or a rename would wait for itself.
KeysApart == \A j, k \in Keys : map[j] = map[k] /\ map[j] # NoMutex => j = k

OwnersHold ==
    \A m \in Mutexes, t \in Threads :
      owner[m] = t => \E k \in want[t] : handle[t][k] = m

LocksInv == LocksTypeOK /\ HandlesCurrent /\ KeysApart /\ OwnersHold

InUse == {k \in Keys : \E t \in Threads : Fetched(t, k)}

\* The table does not grow with the keys ever touched: beyond the limit an
\* entry is added only when all the others are in use (engine.rs:108).
MapBounded ==
    [][InMap' # InMap => \/ Cardinality(InMap') <= MapLimit + 1
                         \/ InMap' = InUse']_lockVars

Holders == [k \in Keys |-> {t \in Threads : Locked(t, k)}]

Mutex == INSTANCE KeyMutex WITH holders <- Holders

\* The table gives every key a lock of its own.
ImplementsKeyMutex == Mutex!MutexSpec
=============================================================================
