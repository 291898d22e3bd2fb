---------------------------- MODULE ServerProofs ----------------------------
(***************************************************************************)
(* Proofs about Server and the table of key mutexes in it.  First the      *)
(* table by itself (KeyLocks): its invariant, that no two threads are      *)
(* inside for one key, and that it implements a lock for each key.  Then   *)
(* the server, for every number of requests, keys, mutexes, kills and      *)
(* generated keys: the locks stay exclusive while the process comes and    *)
(* goes, and its key is the one on disk while no power cut takes it back.  *)
(***************************************************************************)
EXTENDS Server, FiniteSetTheorems, TLAPS

-----------------------------------------------------------------------------
(* The table of mutexes *)

\* Pruning leaves an entry as it is or drops one that no thread refers to.
LEMMA PrunedKeeps ==
    ASSUME LocksTypeOK, NEW k \in Keys
    PROVE  /\ Pruned \in [Keys -> Mutexes \cup {NoMutex}]
           /\ Pruned[k] # NoMutex => Pruned[k] = map[k]
           /\ Shared(map[k]) => Pruned[k] = map[k]
  BY DEF Pruned, LocksTypeOK

\* A thread that refers to a key's mutex makes its entry shared.
LEMMA FetchedShared ==
    ASSUME LocksInv, NEW t \in Threads, NEW k \in Keys, Fetched(t, k)
    PROVE  map[k] = handle[t][k] /\ Shared(map[k]) /\ handle[t][k] \in Mutexes
  BY DEF LocksInv, HandlesCurrent, Fetched, Shared, LocksTypeOK

\* What a lookup changes: one entry and one handle, to a mutex that no other
\* key has and that the thread does not own.
LEMMA FetchEffect ==
    ASSUME LocksInv, NEW t \in Threads, NEW k \in Keys, Fetch(t, k)
    PROVE  \E m \in Mutexes :
             /\ map' = [Pruned EXCEPT ![k] = m]
             /\ handle' = [handle EXCEPT ![t][k] = m]
             /\ \A j \in Keys : j # k => Pruned[j] # m
             /\ \A u \in Threads : Fetched(u, k) => handle[u][k] = m
             /\ owner[m] # t
  <1>1. PICK m \in IF Pruned[k] # NoMutex THEN {Pruned[k]} ELSE Free(Pruned) :
          /\ map' = [Pruned EXCEPT ![k] = m]
          /\ handle' = [handle EXCEPT ![t][k] = m]
    BY DEF Fetch
  <1>2. ~Fetched(t, k)
    BY DEF Fetch
  <1>t. LocksTypeOK
    BY DEF LocksInv
  <1>3. CASE Pruned[k] # NoMutex
    <2>1. m = Pruned[k] /\ m = map[k] /\ m \in Mutexes
      BY <1>1, <1>3, <1>t, PrunedKeeps DEF LocksTypeOK
    <2>2. \A j \in Keys : j # k => Pruned[j] # m
      BY <2>1, <1>t, PrunedKeeps, LocksAssumption DEF LocksInv, KeysApart
    <2>3. \A u \in Threads : Fetched(u, k) => handle[u][k] = m
      BY <2>1 DEF LocksInv, HandlesCurrent
    <2>4. owner[m] # t
      <3>1. SUFFICES ASSUME owner[m] = t PROVE FALSE
        OBVIOUS
      <3>2. PICK j \in want[t] : handle[t][j] = m
        BY <3>1, <2>1 DEF LocksInv, OwnersHold
      <3>3. j \in Keys
        BY <1>t DEF LocksTypeOK
      <3>4. map[j] = m
        BY <3>2, <3>3, <2>1, LocksAssumption DEF LocksInv, HandlesCurrent, Fetched
      <3>5. j = k
        BY <3>3, <3>4, <2>1, LocksAssumption DEF LocksInv, KeysApart
      <3> QED
        BY <3>5, <3>2, <2>1, <1>2, LocksAssumption DEF Fetched
    <2> QED
      BY <1>1, <2>1, <2>2, <2>3, <2>4
  <1>4. CASE Pruned[k] = NoMutex
    <2>1. m \in Mutexes /\ ~Shared(m) /\ \A j \in Keys : Pruned[j] # m
      BY <1>1, <1>4 DEF Free
    <2>2. \A u \in Threads : ~Fetched(u, k)
      BY <1>4, <1>t, PrunedKeeps, FetchedShared, LocksAssumption
    <2>3. owner[m] # t
      BY <2>1, <1>t DEF LocksInv, OwnersHold, Shared, LocksTypeOK
    <2> QED
      BY <1>1, <2>1, <2>2, <2>3
  <1> QED
    BY <1>3, <1>4

\* The initial state satisfies the invariant.
LEMMA LocksInvInit == LocksInit => LocksInv
  BY LocksAssumption DEF LocksInit, LocksInv, LocksTypeOK, HandlesCurrent, KeysApart,
     OwnersHold, Fetched

\* An operation that begins has no lock yet.
LEMMA LocksInvBegin ==
    ASSUME LocksInv, NEW t \in Threads, NEW ks \in SUBSET Keys,
           NEW uploads \in BOOLEAN, Begin(t, ks, uploads)
    PROVE  LocksInv'
  BY DEF Begin, LocksInv, LocksTypeOK, HandlesCurrent, KeysApart, OwnersHold, Fetched

\* A lookup leaves every reference that is held in the table.
LEMMA LocksInvFetch ==
    ASSUME LocksInv, NEW t \in Threads, NEW k \in Keys, Fetch(t, k)
    PROVE  LocksInv'
  <1>t. LocksTypeOK
    BY DEF LocksInv
  <1>1. PICK m \in Mutexes :
          /\ map' = [Pruned EXCEPT ![k] = m]
          /\ handle' = [handle EXCEPT ![t][k] = m]
          /\ \A j \in Keys : j # k => Pruned[j] # m
          /\ \A u \in Threads : Fetched(u, k) => handle[u][k] = m
          /\ owner[m] # t
    BY FetchEffect
  <1>2. UNCHANGED <<owner, want, body>> /\ ~Fetched(t, k)
    BY DEF Fetch
  <1>p. Pruned \in [Keys -> Mutexes \cup {NoMutex}]
    BY <1>t, PrunedKeeps
  <1>3. LocksTypeOK'
    BY <1>1, <1>2, <1>p, <1>t DEF LocksTypeOK
  <1>4. HandlesCurrent'
    <2>1. SUFFICES ASSUME NEW u \in Threads, NEW j \in Keys, handle'[u][j] # NoMutex
                   PROVE  map'[j] = handle'[u][j]
      BY DEF HandlesCurrent, Fetched
    <2>2. CASE u = t /\ j = k
      BY <2>2, <1>1, <1>p, <1>t DEF LocksTypeOK
    <2>3. CASE ~(u = t /\ j = k)
      <3>1. handle'[u][j] = handle[u][j]
        BY <2>3, <1>1, <1>t DEF LocksTypeOK
      <3>2. Fetched(u, j)
        BY <3>1, <2>1 DEF Fetched
      <3>3. Pruned[j] = handle[u][j]
        BY <3>2, <1>t, PrunedKeeps, FetchedShared
      <3>4. CASE j = k
        BY <3>4, <3>1, <3>2, <1>1, <1>p
      <3>5. CASE j # k
        BY <3>5, <3>1, <3>3, <1>1, <1>p
      <3> QED
        BY <3>4, <3>5
    <2> QED
      BY <2>2, <2>3
  <1>5. KeysApart'
    <2>1. SUFFICES ASSUME NEW i \in Keys, NEW j \in Keys,
                          map'[i] = map'[j], map'[i] # NoMutex
                   PROVE  i = j
      BY DEF KeysApart
    <2>2. CASE i # k /\ j # k
      BY <2>1, <2>2, <1>1, <1>p, <1>t, PrunedKeeps DEF LocksInv, KeysApart
    <2>3. CASE i = k \/ j = k
      BY <2>1, <2>3, <1>1, <1>p
    <2> QED
      BY <2>2, <2>3
  <1>6. OwnersHold'
    <2>1. SUFFICES ASSUME NEW n \in Mutexes, NEW u \in Threads, owner[n] = u
                   PROVE  \E j \in want[u] : handle'[u][j] = n
      BY <1>2 DEF OwnersHold
    <2>2. PICK j \in want[u] : handle[u][j] = n
      BY <2>1 DEF LocksInv, OwnersHold
    <2>3. j \in Keys /\ ~(u = t /\ j = k)
      BY <2>2, <1>2, <1>t, LocksAssumption DEF LocksTypeOK, Fetched
    <2> QED
      BY <2>2, <2>3, <1>1, <1>t DEF LocksTypeOK
  <1> QED
    BY <1>3, <1>4, <1>5, <1>6 DEF LocksInv

\* Locking changes an owner only.
LEMMA LocksInvLock ==
    ASSUME LocksInv, NEW t \in Threads, NEW k \in Keys, Lock(t, k)
    PROVE  LocksInv'
  <1>1. handle[t][k] \in Mutexes /\ k \in want[t]
    BY DEF Lock, LocksInv, LocksTypeOK, Fetched
  <1>2. LocksTypeOK' /\ HandlesCurrent' /\ KeysApart'
    BY <1>1 DEF Lock, LocksInv, LocksTypeOK, HandlesCurrent, KeysApart, Fetched
  <1>3. OwnersHold'
    BY <1>1 DEF Lock, LocksInv, LocksTypeOK, OwnersHold
  <1> QED
    BY <1>2, <1>3 DEF LocksInv

\* Threads that end drop their locks and references together.
LEMMA LocksInvDrop ==
    ASSUME LocksInv, NEW T \in SUBSET Threads, Drop(T)
    PROVE  LocksInv'
  <1>1. LocksTypeOK'
    BY DEF Drop, LocksInv, LocksTypeOK
  <1>2. HandlesCurrent' /\ KeysApart'
    BY DEF Drop, LocksInv, LocksTypeOK, HandlesCurrent, KeysApart, Fetched
  <1>3. OwnersHold'
    BY LocksAssumption DEF Drop, LocksInv, LocksTypeOK, OwnersHold
  <1> QED
    BY <1>1, <1>2, <1>3 DEF LocksInv

\* Every step of a thread preserves the invariant.
LEMMA LocksInvStep ==
    ASSUME LocksInv, NEW t \in Threads, LocksStep(t)
    PROVE  LocksInv'
  <1>1. CASE \E k \in Keys : Fetch(t, k)
    BY <1>1, LocksInvFetch
  <1>2. CASE \E k \in Keys : Lock(t, k)
    BY <1>2, LocksInvLock
  <1>3. CASE BodyEnds(t)
    BY <1>3 DEF BodyEnds, LocksInv, LocksTypeOK, HandlesCurrent, KeysApart, OwnersHold,
       Fetched
  <1>4. CASE Finish(t) \/ Abandon(t)
    <2>1. Drop({t})
      BY <1>4 DEF Finish, Abandon
    <2> QED
      BY <2>1, LocksInvDrop
  <1> QED
    BY <1>1, <1>2, <1>3, <1>4 DEF LocksStep

\* Whatever happens, the invariant stays.
LEMMA LocksInvNext ==
    ASSUME LocksInv, [LocksNext]_lockVars
    PROVE  LocksInv'
  <1>1. CASE \E t \in Threads : LocksStep(t)
    BY <1>1, LocksInvStep
  <1>2. CASE \E t \in Threads, ks \in SUBSET Keys, uploads \in BOOLEAN : Begin(t, ks, uploads)
    BY <1>2, LocksInvBegin
  <1>3. CASE UNCHANGED lockVars
    BY <1>3 DEF lockVars, LocksInv, LocksTypeOK, HandlesCurrent, KeysApart, OwnersHold,
       Fetched
  <1>4. ASSUME NEW t \in Threads, NEW j \in Keys, NEW k \in Keys,
               Begin(t, {j, k}, FALSE) \/ Begin(t, {k}, TRUE)
        PROVE  \E ks \in SUBSET Keys, uploads \in BOOLEAN : Begin(t, ks, uploads)
    <2>1. {j, k} \in SUBSET Keys /\ {k} \in SUBSET Keys
      OBVIOUS
    <2> QED
      BY <1>4, <2>1
  <1> QED
    BY <1>1, <1>2, <1>3, <1>4 DEF LocksNext

\* Two threads inside for one key refer to the mutex in the table, which has
\* one owner.
LEMMA InvExcludes == LocksInv => MutualExclusion
  BY DEF LocksInv, HandlesCurrent, MutualExclusion, Locked

----------------------------------------------------------------------------
(* The refinement.                                                         *)

\* A lookup gives nobody a lock and takes none away.
LEMMA FetchStutters ==
    ASSUME LocksInv, NEW t \in Threads, NEW k \in Keys, Fetch(t, k)
    PROVE  Holders' = Holders
  <1>t. LocksTypeOK
    BY DEF LocksInv
  <1>1. PICK m \in Mutexes :
          /\ handle' = [handle EXCEPT ![t][k] = m]
          /\ owner[m] # t
    BY FetchEffect
  <1>2. owner' = owner /\ ~Fetched(t, k)
    BY DEF Fetch
  <1>3. ASSUME NEW u \in Threads, NEW j \in Keys
        PROVE  Locked(u, j)' <=> Locked(u, j)
    <2>1. CASE u = t /\ j = k
      BY <2>1, <1>1, <1>2, <1>t DEF Locked, LocksTypeOK
    <2>2. CASE ~(u = t /\ j = k)
      BY <2>2, <1>1, <1>2, <1>t DEF Locked, Fetched, LocksTypeOK
    <2> QED
      BY <2>1, <2>2
  <1> QED
    BY <1>3 DEF Holders

\* Locking a mutex acquires the lock of one key, which was free.
LEMMA LockAcquires ==
    ASSUME LocksInv, NEW t \in Threads, NEW k \in Keys, Lock(t, k)
    PROVE  Holders[k] = {} /\ Holders' = [Holders EXCEPT ![k] = {t}]
  <1>t. LocksTypeOK
    BY DEF LocksInv
  <1>1. /\ Fetched(t, k) /\ handle[t][k] \in Mutexes /\ handle' = handle
        /\ owner[handle[t][k]] = NoThread
        /\ owner' = [owner EXCEPT ![handle[t][k]] = t]
    BY <1>t DEF Lock, LocksTypeOK, Fetched
  <1>2. ASSUME NEW u \in Threads, Fetched(u, k)
        PROVE  handle[u][k] = handle[t][k]
    BY <1>1, <1>2 DEF LocksInv, HandlesCurrent
  <1>3. ASSUME NEW u \in Threads PROVE ~Locked(u, k)
    BY <1>1, <1>2, LocksAssumption DEF Locked
  <1>4. ASSUME NEW u \in Threads PROVE Locked(u, k)' <=> u = t
    BY <1>1, <1>2, <1>t, LocksAssumption DEF Locked, Fetched, LocksTypeOK
  <1>5. ASSUME NEW u \in Threads, NEW j \in Keys, j # k
        PROVE  Locked(u, j)' <=> Locked(u, j)
    <2>1. CASE Fetched(u, j)
      <3>1. handle[u][j] # handle[t][k]
        BY <2>1, <1>1, <1>5 DEF LocksInv, HandlesCurrent, KeysApart, Fetched
      <3> QED
        BY <3>1, <2>1, <1>1, <1>t DEF Locked, Fetched, LocksTypeOK
    <2>2. CASE ~Fetched(u, j)
      BY <2>2, <1>1 DEF Locked, Fetched
    <2> QED
      BY <2>1, <2>2
  <1> QED
    BY <1>3, <1>4, <1>5 DEF Holders

\* Threads that end release what they hold.
LEMMA DropReleases ==
    ASSUME LocksInv, NEW T \in SUBSET Threads, Drop(T)
    PROVE  Holders' = [k \in Keys |-> Holders[k] \ T]
  <1>1. ASSUME NEW u \in Threads, NEW j \in Keys
        PROVE  Locked(u, j)' <=> Locked(u, j) /\ u \notin T
    BY LocksAssumption DEF Drop, Locked, Fetched, LocksInv, LocksTypeOK
  <1> QED
    BY <1>1 DEF Holders

\* A step of the table is a step of the locks of the keys, or none.
LEMMA StepRefines ==
    ASSUME LocksInv, NEW t \in Threads, LocksStep(t)
    PROVE  [Mutex!MutexNext]_Holders
  <1>1. CASE \E k \in Keys : Fetch(t, k)
    BY <1>1, FetchStutters
  <1>2. CASE \E k \in Keys : Lock(t, k)
    <2>1. PICK k \in Keys : Lock(t, k)
      BY <1>2
    <2>2. Mutex!Acquire(t, k)
      BY <2>1, LockAcquires DEF Mutex!Acquire
    <2> QED
      BY <2>2 DEF Mutex!MutexNext
  <1>3. CASE BodyEnds(t)
    BY <1>3 DEF BodyEnds, Holders, Locked, Fetched
  <1>4. CASE Finish(t) \/ Abandon(t)
    <2>1. Drop({t})
      BY <1>4 DEF Finish, Abandon
    <2>2. Mutex!ReleaseAll({t})
      BY <2>1, DropReleases DEF Mutex!ReleaseAll
    <2> QED
      BY <2>2 DEF Mutex!MutexNext
  <1> QED
    BY <1>1, <1>2, <1>3, <1>4 DEF LocksStep

\* Nobody holds a lock at the start.
LEMMA InitRefines == LocksInit => Mutex!MutexInit
  BY LocksAssumption DEF LocksInit, Mutex!MutexInit, Holders, Locked, Fetched

\* Beginning an operation holds nothing.
LEMMA BeginStutters ==
    ASSUME NEW t \in Threads, NEW ks, NEW uploads, Begin(t, ks, uploads)
    PROVE  Holders' = Holders
  BY DEF Begin, Holders, Locked, Fetched

\* Every step of the lock table is one of the mutexes, or none.
LEMMA NextRefines ==
    ASSUME LocksInv, [LocksNext]_lockVars
    PROVE  [Mutex!MutexNext]_Holders
  <1>1. CASE \E t \in Threads : LocksStep(t)
    BY <1>1, StepRefines
  <1>2. CASE \E t \in Threads, j, k \in Keys : Begin(t, {j, k}, FALSE) \/ Begin(t, {k}, TRUE)
    BY <1>2, BeginStutters
  <1>3. CASE UNCHANGED lockVars
    BY <1>3 DEF lockVars, Holders, Locked, Fetched
  <1> QED
    BY <1>1, <1>2, <1>3 DEF LocksNext

----------------------------------------------------------------------------
(* The size of the table.                                                  *)

TableFinite == IsFiniteSet(InMap)

\* One element more is at most one more.
LEMMA OneMore ==
    ASSUME NEW S, IsFiniteSet(S), NEW x
    PROVE  IsFiniteSet(S \cup {x}) /\ Cardinality(S \cup {x}) <= Cardinality(S) + 1
  <1>1. Cardinality(S) \in Nat
    BY FS_CardinalityType
  <1>2. /\ IsFiniteSet(S \cup {x})
        /\ Cardinality(S \cup {x}) = IF x \in S THEN Cardinality(S) ELSE Cardinality(S) + 1
    BY FS_AddElement
  <1> QED
    BY <1>1, <1>2

\* What a lookup leaves in the table: at most one entry more, or after a
\* pruning only entries in use.
LEMMA FetchBounded ==
    ASSUME LocksInv, TableFinite, NEW t \in Threads, NEW k \in Keys, Fetch(t, k)
    PROVE  /\ TableFinite'
           /\ Cardinality(InMap') <= MapLimit + 1 \/ InMap' = InUse'
  <1>t. LocksTypeOK
    BY DEF LocksInv
  <1>1. PICK m \in Mutexes : /\ map' = [Pruned EXCEPT ![k] = m]
                             /\ handle' = [handle EXCEPT ![t][k] = m]
    BY FetchEffect
  <1>2. InMap' \subseteq InMap \cup {k}
    BY <1>1, <1>t, PrunedKeeps DEF InMap
  <1>3. IsFiniteSet(InMap \cup {k}) /\ Cardinality(InMap \cup {k}) <= Cardinality(InMap) + 1
    BY OneMore DEF TableFinite
  <1>4. TableFinite' /\ Cardinality(InMap') <= Cardinality(InMap) + 1
    <2>1. TableFinite' /\ Cardinality(InMap') <= Cardinality(InMap \cup {k})
      BY <1>2, <1>3, FS_Subset DEF TableFinite
    <2> QED
      BY <2>1, <1>3, FS_CardinalityType DEF TableFinite
  <1>5. CASE Cardinality(InMap) <= MapLimit
    BY <1>4, <1>5, FS_CardinalityType, LocksAssumption DEF TableFinite
  <1>6. CASE ~(Cardinality(InMap) <= MapLimit)
    <2>1. Cardinality(InMap) > MapLimit
      BY <1>6, FS_CardinalityType, LocksAssumption DEF TableFinite
    <2>2. map' = [[j \in Keys |-> IF Shared(map[j]) THEN map[j] ELSE NoMutex] EXCEPT ![k] = m]
      BY <1>1, <2>1 DEF Pruned
    <2>3. Fetched(t, k)'
      BY <1>1, <1>t, LocksAssumption DEF Fetched, LocksTypeOK
    <2>4. ASSUME NEW j \in Keys, j # k PROVE j \in InMap' <=> j \in InUse'
      <3>1. j \in InUse' <=> \E u \in Threads : Fetched(u, j)
        BY <2>4, <1>1, <1>t DEF InUse, Fetched, LocksTypeOK
      <3>2. j \in InMap' <=> map[j] # NoMutex /\ Shared(map[j])
        BY <2>4, <2>2 DEF InMap
      <3>3. ASSUME NEW u \in Threads, Fetched(u, j)
            PROVE  map[j] # NoMutex /\ Shared(map[j])
        BY <3>3, FetchedShared, LocksAssumption
      <3>4. ASSUME map[j] # NoMutex, Shared(map[j])
            PROVE  \E u \in Threads : Fetched(u, j)
        <4>1. PICK u \in Threads, i \in Keys : handle[u][i] = map[j]
          BY <3>4 DEF Shared
        <4>2. Fetched(u, i) /\ map[i] = map[j]
          BY <4>1, <3>4 DEF Fetched, LocksInv, HandlesCurrent
        <4>3. i = j
          BY <4>2, <3>4 DEF LocksInv, KeysApart
        <4> QED
          BY <4>2, <4>3
      <3> QED
        BY <3>1, <3>2, <3>3, <3>4
    <2>5. k \in InMap' /\ k \in InUse'
      BY <2>2, <2>3, LocksAssumption DEF InMap, InUse
    <2>6. InMap' \subseteq Keys /\ InUse' \subseteq Keys
      BY DEF InMap, InUse
    <2>7. InMap' = InUse'
      BY <2>4, <2>5, <2>6
    <2> QED
      BY <1>4, <2>7
  <1> QED
    BY <1>5, <1>6

\* Nothing but a lookup enters a key into the table.
LEMMA StepBounded ==
    ASSUME LocksInv, TableFinite, NEW t \in Threads, LocksStep(t)
    PROVE  /\ TableFinite'
           /\ InMap' # InMap => Cardinality(InMap') <= MapLimit + 1 \/ InMap' = InUse'
  <1>1. CASE \E k \in Keys : Fetch(t, k)
    BY <1>1, FetchBounded
  <1>2. CASE ~(\E k \in Keys : Fetch(t, k))
    <2>1. map' = map
      BY <1>2 DEF LocksStep, Lock, Inside, Finish, Abandon, BodyEnds, Drop
    <2> QED
      BY <2>1 DEF InMap, TableFinite
  <1> QED
    BY <1>1, <1>2

----------------------------------------------------------------------------

\* The table of mutexes by itself keeps its invariant: whoever refers to a
\* key's mutex refers to the one in the table (engine.rs:106-116).
THEOREM LocksInvariant == LocksSpec => []LocksInv
  <1>1. LocksInit => LocksInv
    BY LocksInvInit
  <1>2. LocksInv /\ [LocksNext]_lockVars => LocksInv'
    BY LocksInvNext
  <1> QED
    BY <1>1, <1>2, PTL DEF LocksSpec

\* The table of mutexes, pruned as it is, gives every key a lock of its own,
\* for every number of threads and keys and every limit.
THEOREM TableImplementsMutex == LocksSpec => ImplementsKeyMutex
  <1>1. LocksInit => Mutex!MutexInit
    BY InitRefines
  <1>2. LocksInv /\ [LocksNext]_lockVars => [Mutex!MutexNext]_Holders
    BY NextRefines
  <1> QED
    BY <1>1, <1>2, LocksInvariant, PTL DEF LocksSpec, ImplementsKeyMutex, Mutex!MutexSpec

\* The table stays small (engine.rs:108), for every limit.
THEOREM TableBounded == LocksSpec => MapBounded
  <1>1. LocksInit => TableFinite
    <2>1. LocksInit => InMap = {}
      BY DEF LocksInit, InMap
    <2> QED
      BY <2>1, FS_EmptySet DEF TableFinite
  <1>2. LocksInv /\ TableFinite /\ [LocksNext]_lockVars =>
          /\ TableFinite'
          /\ [InMap' # InMap =>
                Cardinality(InMap') <= MapLimit + 1 \/ InMap' = InUse']_lockVars
    <2> SUFFICES ASSUME LocksInv, TableFinite, [LocksNext]_lockVars
                 PROVE  /\ TableFinite'
                        /\ InMap' # InMap =>
                             Cardinality(InMap') <= MapLimit + 1 \/ InMap' = InUse'
      OBVIOUS
    <2>1. CASE \E t \in Threads : LocksStep(t)
      BY <2>1, StepBounded
    <2>2. CASE ~(\E t \in Threads : LocksStep(t))
      <3>1. map' = map
        BY <2>2 DEF LocksNext, Begin, lockVars
      <3> QED
        BY <3>1 DEF InMap, TableFinite
    <2> QED
      BY <2>1, <2>2
  <1> QED
    BY <1>1, <1>2, LocksInvariant, PTL DEF LocksSpec, MapBounded

-----------------------------------------------------------------------------
(* The server *)

\* What a step of the server does to the table of mutexes: an operation
\* begins, a thread takes a step, the process ends, or nothing.
LEMMA LocksSteps ==
    ASSUME [Next]_vars
    PROVE  \/ \E t \in Threads : LocksStep(t)
           \/ \E t \in Threads, ks \in SUBSET Keys, uploads \in BOOLEAN : Begin(t, ks, uploads)
           \/ Exit
           \/ UNCHANGED lockVars
  <1>1. CASE \E t \in Threads : Work(t)
    BY <1>1 DEF Work, LocksStep
  <1>2. CASE \E t \in Threads, key \in 0 .. issued, j, k \in Keys :
               Arrive(t, key, {j, k}, FALSE) \/ Arrive(t, key, {k}, TRUE)
    <2>1. PICK t \in Threads, key \in 0 .. issued, j \in Keys, k \in Keys :
            Arrive(t, key, {j, k}, FALSE) \/ Arrive(t, key, {k}, TRUE)
      BY <1>2
    <2>2. Begin(t, {j, k}, FALSE) \/ Begin(t, {k}, TRUE)
      BY <2>1 DEF Arrive
    <2>3. {j, k} \in SUBSET Keys /\ {k} \in SUBSET Keys
      OBVIOUS
    <2> QED
      BY <2>2, <2>3
  <1>3. CASE Deadline \/ Leave \/ Kill \/ PowerCut
    BY <1>3 DEF Deadline, Leave, Kill, PowerCut
  <1>4. CASE \E t \in Threads : Disconnect(t)
    BY <1>4 DEF Disconnect
  <1>5. CASE \/ StartLoad \/ StartCreate \/ CreateTruncate \/ CreateFill \/ Announce
             \/ Open \/ RegenBegin \/ RegenTruncate \/ RegenFill \/ RegenAnnounce
             \/ RegenKilled \/ Collect \/ Collected \/ Signal \/ Drained \/ Writeback
    BY <1>5 DEF StartLoad, StartCreate, CreateTruncate, CreateFill, Announce, Open,
       RegenBegin, RegenTruncate, RegenFill, RegenAnnounce, RegenKilled, Collect,
       Collected, Signal, Drained, Writeback
  <1>6. CASE UNCHANGED vars
    BY <1>6 DEF vars
  <1> QED
    BY <1>1, <1>2, <1>3, <1>4, <1>5, <1>6 DEF Next

\* A process that ends releases every lock.
LEMMA ExitReleases ==
    ASSUME Exit
    PROVE  LocksInv' /\ Holders' = [k \in Keys |-> {}]
  BY LocksAssumption DEF Exit, LocksInv, LocksTypeOK, HandlesCurrent, KeysApart,
     OwnersHold, Fetched, Holders, Locked

\* The server's steps keep the lock table in order.
LEMMA LocksPreserved ==
    ASSUME LocksInv, [Next]_vars
    PROVE  LocksInv'
  <1>1. CASE \E t \in Threads : LocksStep(t)
    BY <1>1, LocksInvStep
  <1>2. CASE \E t \in Threads, ks \in SUBSET Keys, uploads \in BOOLEAN : Begin(t, ks, uploads)
    BY <1>2, LocksInvBegin
  <1>3. CASE Exit
    BY <1>3, ExitReleases
  <1>4. CASE UNCHANGED lockVars
    BY <1>4, LocksInvNext
  <1> QED
    BY <1>1, <1>2, <1>3, <1>4, LocksSteps

\* And each is a step of the key mutexes, or none.
LEMMA MutexRefined ==
    ASSUME LocksInv, [Next]_vars
    PROVE  [Mutex!MutexNext]_Holders
  <1>1. CASE \E t \in Threads : LocksStep(t)
    BY <1>1, StepRefines
  <1>2. CASE \E t \in Threads, ks \in SUBSET Keys, uploads \in BOOLEAN : Begin(t, ks, uploads)
    BY <1>2, BeginStutters
  <1>3. CASE Exit
    <2>1. Mutex!ReleaseAll(Threads)
      BY <1>3, ExitReleases DEF Mutex!ReleaseAll, Holders
    <2> QED
      BY <2>1 DEF Mutex!MutexNext
  <1>4. CASE UNCHANGED lockVars
    BY <1>4, NextRefines
  <1> QED
    BY <1>1, <1>2, <1>3, <1>4, LocksSteps

----------------------------------------------------------------------------

\* However the server starts, stops and is killed, whoever refers to a key's
\* mutex refers to the one in the table (engine.rs:106-116).
THEOREM ServerLocksInv == Spec => []LocksInv
  <1>1. Init => LocksInv
    BY LocksInvInit DEF Init
  <1>2. LocksInv /\ [Next]_vars => LocksInv'
    BY LocksPreserved
  <1> QED
    BY <1>1, <1>2, PTL DEF Spec

\* Two requests are never inside for one key (engine.rs:372, 410, 549).
THEOREM Exclusion == Spec => []MutualExclusion
  <1>1. LocksInv => MutualExclusion
    BY InvExcludes
  <1> QED
    BY <1>1, ServerLocksInv, PTL

\* The server's requests see a lock for each key: what StorageEngine takes
\* for granted.
THEOREM ServerImplementsMutex == Spec => ImplementsKeyMutex
  <1>1. Init => Mutex!MutexInit
    BY InitRefines DEF Init
  <1>2. LocksInv /\ [Next]_vars => [Mutex!MutexNext]_Holders
    BY MutexRefined
  <1> QED
    BY <1>1, <1>2, ServerLocksInv, PTL DEF Spec, ImplementsKeyMutex, Mutex!MutexSpec

\* What a step of the server does to the table's size.
LEMMA SizeKept ==
    ASSUME LocksInv, TableFinite, [Next]_vars
    PROVE  /\ TableFinite'
           /\ InMap' # InMap => Cardinality(InMap') <= MapLimit + 1 \/ InMap' = InUse'
  <1>1. CASE \E t \in Threads : LocksStep(t)
    BY <1>1, StepBounded
  <1>2. CASE Exit
    <2>1. InMap' = {}
      BY <1>2 DEF Exit, InMap
    <2>2. IsFiniteSet({}) /\ Cardinality({}) = 0
      BY FS_EmptySet
    <2> QED
      BY <2>1, <2>2, LocksAssumption DEF TableFinite
  <1>3. CASE map' = map
    BY <1>3 DEF InMap, TableFinite
  <1>4. CASE \E t \in Threads, ks \in SUBSET Keys, uploads \in BOOLEAN : Begin(t, ks, uploads)
    <2>1. map' = map
      BY <1>4 DEF Begin
    <2> QED
      BY <2>1, <1>3
  <1>5. CASE UNCHANGED lockVars
    BY <1>3, <1>5 DEF lockVars
  <1> QED
    BY <1>1, <1>2, <1>4, <1>5, LocksSteps

\* A server's table does not grow with the keys it has met (engine.rs:108).
THEOREM TableStaysSmall == Spec => MapBounded
  <1>1. Init => TableFinite
    <2>1. Init => InMap = {}
      BY DEF Init, LocksInit, InMap
    <2> QED
      BY <2>1, FS_EmptySet DEF TableFinite
  <1>2. LocksInv /\ TableFinite /\ [Next]_vars =>
          /\ TableFinite'
          /\ [InMap' # InMap => Cardinality(InMap') <= MapLimit + 1 \/ InMap' = InUse']_lockVars
    BY SizeKept
  <1> QED
    BY <1>1, <1>2, ServerLocksInv, PTL DEF Spec, MapBounded

----------------------------------------------------------------------------
(* The keys.                                                               *)

\* No step leaves the types.
LEMMA TypesPreserved ==
    ASSUME ProcessTypeOK, OlderOK, KeyInv, [Next]_vars
    PROVE  ProcessTypeOK'
  <1> USE ServerAssumption
  <1>1. CASE StartLoad
    BY <1>1 DEF StartLoad, ProcessTypeOK, keyVars, fileVars, regenVars, reqVars, KeyInv
  <1>2. CASE StartCreate
    BY <1>2 DEF StartCreate, Exists, ProcessTypeOK, keyVars, fileVars, regenVars, reqVars, KeyInv
  <1>3. CASE CreateTruncate
    BY <1>3 DEF CreateTruncate, Truncate, Superseded, ProcessTypeOK, keyVars, fileVars, regenVars, reqVars,
       KeyInv
  <1>4. CASE CreateFill
    BY <1>4 DEF CreateFill, Fill, Superseded, ProcessTypeOK, keyVars, fileVars, regenVars, reqVars, KeyInv
  <1>5. CASE Announce
    BY <1>5 DEF Announce, ProcessTypeOK, keyVars, fileVars, regenVars, reqVars, KeyInv
  <1>6. CASE Open
    BY <1>6 DEF Open, ProcessTypeOK, keyVars, fileVars, regenVars, reqVars, KeyInv
  <1>7. CASE RegenBegin
    BY <1>7 DEF RegenBegin, ProcessTypeOK, keyVars, fileVars, regenVars, reqVars, KeyInv
  <1>8. CASE RegenTruncate
    BY <1>8 DEF RegenTruncate, Truncate, Superseded, ProcessTypeOK, keyVars, fileVars, regenVars, reqVars,
       KeyInv
  <1>9. CASE RegenFill
    BY <1>9 DEF RegenFill, Fill, Superseded, ProcessTypeOK, keyVars, fileVars, regenVars, reqVars, KeyInv
  <1>10. CASE RegenAnnounce
    BY <1>10 DEF RegenAnnounce, ProcessTypeOK, keyVars, fileVars, regenVars, reqVars, KeyInv
  <1>11. CASE RegenKilled
    BY <1>11 DEF RegenKilled, Silenced, RegenSilenced, ProcessTypeOK, keyVars, fileVars, regenVars, reqVars, KeyInv
  <1>12. CASE Collect
    BY <1>12 DEF Collect, ProcessTypeOK, keyVars, fileVars, regenVars, reqVars, KeyInv
  <1>13. CASE Collected
    BY <1>13 DEF Collected, ProcessTypeOK, keyVars, fileVars, regenVars, reqVars, KeyInv
  <1>14. CASE Signal
    BY <1>14 DEF Signal, ProcessTypeOK, keyVars, fileVars, regenVars, reqVars, KeyInv
  <1>15. CASE Drained
    BY <1>15 DEF Drained, ProcessTypeOK, keyVars, fileVars, regenVars, reqVars, KeyInv
  <1>16. CASE Deadline
    BY <1>16 DEF Deadline, Exit, ProcessTypeOK, keyVars, fileVars, regenVars, reqVars, KeyInv
  <1>17. CASE Leave
    BY <1>17 DEF Leave, Exit, ProcessTypeOK, keyVars, fileVars, regenVars, reqVars, KeyInv
  <1>18. CASE Kill
    BY <1>18 DEF Kill, Exit, Silenced, RegenSilenced, ProcessTypeOK, keyVars, fileVars, regenVars, reqVars, KeyInv
  <1>19. ASSUME NEW t \in Threads, NEW key \in 0 .. issued, NEW ks, NEW uploads,
               Arrive(t, key, ks, uploads)
        PROVE  ProcessTypeOK'
    BY <1>19 DEF Arrive, Admits, ProcessTypeOK, keyVars, fileVars, regenVars, reqVars, KeyInv
  <1>20. ASSUME NEW t \in Threads, Work(t)
        PROVE  ProcessTypeOK'
    BY <1>20 DEF Work, Answered, ProcessTypeOK, keyVars, fileVars, regenVars, reqVars, KeyInv
  <1>21. ASSUME NEW t \in Threads, Disconnect(t)
        PROVE  ProcessTypeOK'
    BY <1>21 DEF Disconnect, ProcessTypeOK, keyVars, fileVars, regenVars, reqVars, KeyInv
  <1>22. CASE UNCHANGED vars
    BY <1>22 DEF vars, ProcessTypeOK, keyVars, fileVars, regenVars, reqVars, KeyInv
  <1>23. CASE Writeback
    BY <1>23 DEF Writeback, ProcessTypeOK, KeyInv, keyVars, fileVars, regenVars, reqVars
  <1>24. CASE PowerCut
    BY <1>24 DEF PowerCut, Exit, OlderOK, ProcessTypeOK, KeyInv, keyVars, fileVars, regenVars, reqVars, Silenced, RegenSilenced
  <1> QED
    BY <1>1, <1>2, <1>3, <1>4, <1>5, <1>6, <1>7, <1>8, <1>9, <1>10, <1>11, <1>12,
       <1>13, <1>14, <1>15, <1>16, <1>17, <1>18, <1>19, <1>20, <1>21, <1>22, <1>23, <1>24 DEF Next

\* No step leaves a flag undefined.
LEMMA FlagsPreserved ==
    ASSUME FlagsOK, OlderOK, [Next]_vars
    PROVE  FlagsOK'
  <1> USE ServerAssumption
  <1>1. CASE StartLoad
    BY <1>1 DEF StartLoad, FlagsOK, keyVars, fileVars, regenVars, reqVars
  <1>2. CASE StartCreate
    BY <1>2 DEF StartCreate, Exists, FlagsOK, keyVars, fileVars, regenVars, reqVars
  <1>3. CASE CreateTruncate
    BY <1>3 DEF CreateTruncate, Truncate, Superseded, FlagsOK, keyVars, fileVars, regenVars, reqVars
  <1>4. CASE CreateFill
    BY <1>4 DEF CreateFill, Fill, Superseded, FlagsOK, keyVars, fileVars, regenVars, reqVars
  <1>5. CASE Announce
    BY <1>5 DEF Announce, FlagsOK, keyVars, fileVars, regenVars, reqVars
  <1>6. CASE Open
    BY <1>6 DEF Open, FlagsOK, keyVars, fileVars, regenVars, reqVars
  <1>7. CASE RegenBegin
    BY <1>7 DEF RegenBegin, FlagsOK, keyVars, fileVars, regenVars, reqVars
  <1>8. CASE RegenTruncate
    BY <1>8 DEF RegenTruncate, Truncate, Superseded, FlagsOK, keyVars, fileVars, regenVars, reqVars
  <1>9. CASE RegenFill
    BY <1>9 DEF RegenFill, Fill, Superseded, FlagsOK, keyVars, fileVars, regenVars, reqVars
  <1>10. CASE RegenAnnounce
    BY <1>10 DEF RegenAnnounce, FlagsOK, keyVars, fileVars, regenVars, reqVars
  <1>11. CASE RegenKilled
    BY <1>11 DEF RegenKilled, Silenced, RegenSilenced, FlagsOK, keyVars, fileVars, regenVars, reqVars
  <1>12. CASE Collect
    BY <1>12 DEF Collect, FlagsOK, keyVars, fileVars, regenVars, reqVars
  <1>13. CASE Collected
    BY <1>13 DEF Collected, FlagsOK, keyVars, fileVars, regenVars, reqVars
  <1>14. CASE Signal
    BY <1>14 DEF Signal, FlagsOK, keyVars, fileVars, regenVars, reqVars
  <1>15. CASE Drained
    BY <1>15 DEF Drained, FlagsOK, keyVars, fileVars, regenVars, reqVars
  <1>16. CASE Deadline
    BY <1>16 DEF Deadline, Exit, FlagsOK, keyVars, fileVars, regenVars, reqVars
  <1>17. CASE Leave
    BY <1>17 DEF Leave, Exit, FlagsOK, keyVars, fileVars, regenVars, reqVars
  <1>18. CASE Kill
    BY <1>18 DEF Kill, Exit, Silenced, RegenSilenced, FlagsOK, keyVars, fileVars, regenVars, reqVars
  <1>19. ASSUME NEW t \in Threads, NEW key \in 0 .. issued, NEW ks, NEW uploads,
               Arrive(t, key, ks, uploads)
        PROVE  FlagsOK'
    BY <1>19 DEF Arrive, Admits, FlagsOK, keyVars, fileVars, regenVars, reqVars
  <1>20. ASSUME NEW t \in Threads, Work(t)
        PROVE  FlagsOK'
    BY <1>20 DEF Work, Answered, FlagsOK, keyVars, fileVars, regenVars, reqVars
  <1>21. ASSUME NEW t \in Threads, Disconnect(t)
        PROVE  FlagsOK'
    BY <1>21 DEF Disconnect, FlagsOK, keyVars, fileVars, regenVars, reqVars
  <1>22. CASE UNCHANGED vars
    BY <1>22 DEF vars, FlagsOK, keyVars, fileVars, regenVars, reqVars
  <1>23. CASE Writeback
    BY <1>23 DEF Writeback, FlagsOK, keyVars, fileVars, regenVars, reqVars
  <1>24. CASE PowerCut
    <2>1. torn' \in BOOLEAN /\ reverted' \in BOOLEAN
      <3>1. CASE UNCHANGED <<keyFile, torn, reverted>>
        BY <3>1 DEF FlagsOK
      <3>2. CASE \E f \in older : keyFile' = f.key /\ torn' = f.torn /\ reverted' = TRUE
        <4>1. PICK f \in older : torn' = f.torn /\ reverted' = TRUE
          BY <3>2
        <4>2. f.torn \in BOOLEAN
          BY DEF OlderOK
        <4> QED
          BY <4>1, <4>2, Zenon
      <3> QED
        BY <1>24, <3>1, <3>2 DEF PowerCut
    <2> QED
      BY <1>24, <2>1 DEF PowerCut, Exit, FlagsOK
  <1> QED
    BY <1>1, <1>2, <1>3, <1>4, <1>5, <1>6, <1>7, <1>8, <1>9, <1>10, <1>11, <1>12,
       <1>13, <1>14, <1>15, <1>16, <1>17, <1>18, <1>19, <1>20, <1>21, <1>22, <1>23, <1>24 DEF Next

\* What a power cut may leave of the file has been in it.
LEMMA OlderPreserved ==
    ASSUME FlagsOK, ProcessTypeOK, OlderOK, [Next]_vars
    PROVE  OlderOK'
  <1>1. CASE older' = older
    BY <1>1 DEF OlderOK
  <1>2. CASE Superseded
    <2>1. keyFile \in 0 .. MaxKeys /\ torn \in BOOLEAN
      BY DEF ProcessTypeOK, FlagsOK
    <2>2. [key |-> keyFile, torn |-> torn] \in [key : 0 .. MaxKeys, torn : BOOLEAN]
      BY <2>1, Zenon
    <2> QED
      BY <1>2, <2>2 DEF Superseded, OlderOK
  <1>3. CASE older' = {}
    BY <1>3 DEF OlderOK
  <1>4. CASE CreateTruncate \/ CreateFill \/ RegenTruncate \/ RegenFill
    BY <1>2, <1>4 DEF CreateTruncate, CreateFill, RegenTruncate, RegenFill, Truncate, Fill
  <1>5. CASE Writeback \/ PowerCut
    BY <1>3, <1>5 DEF Writeback, PowerCut
  <1>6. CASE \/ StartLoad \/ StartCreate \/ Announce \/ Open \/ RegenBegin \/ RegenAnnounce
             \/ RegenKilled \/ Collect \/ Collected \/ Signal \/ Drained \/ Deadline \/ Leave
             \/ Kill
    BY <1>1, <1>6 DEF StartLoad, StartCreate, Announce, Open, RegenBegin, RegenAnnounce,
       RegenKilled, Collect, Collected, Signal, Drained, Deadline, Leave, Kill, keyVars,
       fileVars
  <1>7. CASE \E t \in Threads : Work(t) \/ Disconnect(t)
    BY <1>1, <1>7 DEF Work, Disconnect, keyVars, fileVars
  <1>8. CASE \E t \in Threads, key \in 0 .. issued, ks \in SUBSET Keys, uploads \in BOOLEAN :
               Arrive(t, key, ks, uploads)
    BY <1>1, <1>8 DEF Arrive, keyVars, fileVars
  <1>9. CASE UNCHANGED vars
    BY <1>1, <1>9 DEF vars, keyVars, fileVars
  <1>10. ASSUME NEW t \in Threads, NEW key \in 0 .. issued, NEW j \in Keys, NEW k \in Keys,
                Arrive(t, key, {j, k}, FALSE) \/ Arrive(t, key, {k}, TRUE)
         PROVE  OlderOK'
    BY <1>8, <1>10
  <1> QED
    BY <1>4, <1>5, <1>6, <1>7, <1>9, <1>10 DEF Next

\* No step breaks what the phases mean.
LEMMA KeyInvPreserved ==
    ASSUME ProcessTypeOK, KeyInv, [Next]_vars
    PROVE  KeyInv'
  <1> USE ServerAssumption
  <1>1. CASE StartLoad
    BY <1>1 DEF StartLoad, KeyInv, Printed, Silenced, RegenSilenced, Exists, Up, keyVars, fileVars, regenVars, reqVars,
       ProcessTypeOK
  <1>2. CASE StartCreate
    BY <1>2 DEF StartCreate, Exists, KeyInv, Printed, Silenced, RegenSilenced, Exists, Up, keyVars, fileVars, regenVars,
       reqVars, ProcessTypeOK
  <1>3. CASE CreateTruncate
    BY <1>3 DEF CreateTruncate, Truncate, Superseded, KeyInv, Printed, Silenced, RegenSilenced, Exists, Up, keyVars, fileVars,
       regenVars, reqVars, ProcessTypeOK
  <1>4. CASE CreateFill
    BY <1>4 DEF CreateFill, Fill, Superseded, KeyInv, Printed, Silenced, RegenSilenced, Exists, Up, keyVars, fileVars, regenVars,
       reqVars, ProcessTypeOK
  <1>5. CASE Announce
    BY <1>5 DEF Announce, KeyInv, Printed, Silenced, RegenSilenced, Exists, Up, keyVars, fileVars, regenVars, reqVars,
       ProcessTypeOK
  <1>6. CASE Open
    BY <1>6 DEF Open, KeyInv, Printed, Silenced, RegenSilenced, Exists, Up, keyVars, fileVars, regenVars, reqVars,
       ProcessTypeOK
  <1>7. CASE RegenBegin
    BY <1>7 DEF RegenBegin, KeyInv, Printed, Silenced, RegenSilenced, Exists, Up, keyVars, fileVars, regenVars, reqVars,
       ProcessTypeOK
  <1>8. CASE RegenTruncate
    BY <1>8 DEF RegenTruncate, Truncate, Superseded, KeyInv, Printed, Silenced, RegenSilenced, Exists, Up, keyVars, fileVars,
       regenVars, reqVars, ProcessTypeOK
  <1>9. CASE RegenFill
    BY <1>9 DEF RegenFill, Fill, Superseded, KeyInv, Printed, Silenced, RegenSilenced, Exists, Up, keyVars, fileVars, regenVars,
       reqVars, ProcessTypeOK
  <1>10. CASE RegenAnnounce
    BY <1>10 DEF RegenAnnounce, KeyInv, Printed, Silenced, RegenSilenced, Exists, Up, keyVars, fileVars, regenVars,
       reqVars, ProcessTypeOK
  <1>11. CASE RegenKilled
    BY <1>11 DEF RegenKilled, Silenced, RegenSilenced, KeyInv, Printed, Silenced, RegenSilenced, Exists, Up, keyVars, fileVars, regenVars,
       reqVars, ProcessTypeOK
  <1>12. CASE Collect
    BY <1>12 DEF Collect, KeyInv, Printed, Silenced, RegenSilenced, Exists, Up, keyVars, fileVars, regenVars, reqVars,
       ProcessTypeOK
  <1>13. CASE Collected
    BY <1>13 DEF Collected, KeyInv, Printed, Silenced, RegenSilenced, Exists, Up, keyVars, fileVars, regenVars, reqVars,
       ProcessTypeOK
  <1>14. CASE Signal
    BY <1>14 DEF Signal, KeyInv, Printed, Silenced, RegenSilenced, Exists, Up, keyVars, fileVars, regenVars, reqVars,
       ProcessTypeOK
  <1>15. CASE Drained
    BY <1>15 DEF Drained, KeyInv, Printed, Silenced, RegenSilenced, Exists, Up, keyVars, fileVars, regenVars, reqVars,
       ProcessTypeOK
  <1>16. CASE Deadline
    BY <1>16 DEF Deadline, Exit, KeyInv, Printed, Silenced, RegenSilenced, Exists, Up, keyVars, fileVars, regenVars,
       reqVars, ProcessTypeOK
  <1>17. CASE Leave
    BY <1>17 DEF Leave, Exit, KeyInv, Printed, Silenced, RegenSilenced, Exists, Up, keyVars, fileVars, regenVars,
       reqVars, ProcessTypeOK
  <1>18. CASE Kill
    BY <1>18 DEF Kill, Exit, Silenced, RegenSilenced, KeyInv, Printed, Silenced, RegenSilenced, Exists, Up, keyVars, fileVars, regenVars, reqVars,
       ProcessTypeOK
  <1>19. ASSUME NEW t \in Threads, NEW key \in 0 .. issued, NEW ks, NEW uploads,
               Arrive(t, key, ks, uploads)
        PROVE  KeyInv'
    BY <1>19 DEF Arrive, Admits, KeyInv, Printed, Silenced, RegenSilenced, Exists, Up, keyVars, fileVars, regenVars,
       reqVars, ProcessTypeOK
  <1>20. ASSUME NEW t \in Threads, Work(t)
        PROVE  KeyInv'
    BY <1>20 DEF Work, Answered, KeyInv, Printed, Silenced, RegenSilenced, Exists, Up, keyVars, fileVars, regenVars,
       reqVars, ProcessTypeOK
  <1>21. ASSUME NEW t \in Threads, Disconnect(t)
        PROVE  KeyInv'
    BY <1>21 DEF Disconnect, KeyInv, Printed, Silenced, RegenSilenced, Exists, Up, keyVars, fileVars, regenVars, reqVars,
       ProcessTypeOK
  <1>22. CASE UNCHANGED vars
    BY <1>22 DEF vars, KeyInv, Printed, Silenced, RegenSilenced, Exists, Up, keyVars, fileVars, regenVars, reqVars,
       ProcessTypeOK
  <1>23. CASE Writeback
    BY <1>23 DEF Writeback, KeyInv, Printed, Silenced, RegenSilenced, Exists, Up, ProcessTypeOK, keyVars, fileVars, regenVars, reqVars
  <1>24. CASE PowerCut
    BY <1>24 DEF PowerCut, Exit, KeyInv, Printed, Silenced, RegenSilenced, Exists, Up, ProcessTypeOK, keyVars, fileVars, regenVars, reqVars
  <1> QED
    BY <1>1, <1>2, <1>3, <1>4, <1>5, <1>6, <1>7, <1>8, <1>9, <1>10, <1>11, <1>12,
       <1>13, <1>14, <1>15, <1>16, <1>17, <1>18, <1>19, <1>20, <1>21, <1>22, <1>23, <1>24 DEF Next

----------------------------------------------------------------------------

\* The initial state has the types and the phases' meaning.
LEMMA ProcessInit == Init => FlagsOK /\ ProcessTypeOK /\ OlderOK /\ KeyInv
  <1>1. Init => FlagsOK
    BY DEF Init, FlagsOK
  <1>2. Init => ProcessTypeOK
    BY ServerAssumption DEF Init, ProcessTypeOK
  <1>3. Init => KeyInv
    BY DEF Init, KeyInv, Up
  <1>4. Init => OlderOK
    BY DEF Init, OlderOK
  <1> QED
    BY <1>1, <1>2, <1>3, <1>4

\* Types and phases together.
LEMMA KeysInvariant == Spec => [](FlagsOK /\ ProcessTypeOK /\ OlderOK /\ KeyInv)
  <1>1. Init => FlagsOK /\ ProcessTypeOK /\ OlderOK /\ KeyInv
    BY ProcessInit
  <1>2. FlagsOK /\ ProcessTypeOK /\ OlderOK /\ KeyInv /\ [Next]_vars => (FlagsOK /\ ProcessTypeOK /\ OlderOK /\ KeyInv)'
    BY FlagsPreserved, TypesPreserved, OlderPreserved, KeyInvPreserved
  <1> QED
    BY <1>1, <1>2, PTL DEF Spec

\* Every variable keeps its type.
THEOREM TypeCorrect == Spec => []ServerTypeOK
  <1>1. LocksInv /\ FlagsOK /\ ProcessTypeOK /\ OlderOK /\ KeyInv => ServerTypeOK
    BY DEF LocksInv, ServerTypeOK
  <1> QED
    BY <1>1, ServerLocksInv, KeysInvariant, PTL

\* The key of a server that serves has been printed, unless a kill came in
\* between (server_key.rs:52, main.rs:106).
THEOREM KeyIsUsable == Spec => []KeyUsable
  <1>1. KeyInv => KeyUsable
    BY DEF KeyInv, KeyUsable, Printed, Silenced, RegenSilenced, Up
  <1> QED
    BY <1>1, KeysInvariant, PTL

\* No request is served on a key that was replaced before the process
\* began (grpc.rs:63, rest.rs:88).
THEOREM AuthIsCurrent == Spec => []AuthCurrent
  <1>1. KeyInv => AuthCurrent
    BY DEF KeyInv, AuthCurrent, Up
  <1> QED
    BY <1>1, KeysInvariant, PTL

\* A kill and a restart, at any step and any number of times, do not replace the
\* server's key; nor does a power cut that leaves the file as it was last
\* written (server_key.rs:45).
THEOREM KeyIsKept == Spec => KeySurvives
  <1>1. FlagsOK /\ ProcessTypeOK /\ OlderOK /\ KeyInv /\ [Next]_vars =>
          [keyMem' # keyMem => keyMem = 0 \/ rewritten \/ reverted]_vars
    <2>1. SUFFICES ASSUME KeyInv, Next, keyMem' # keyMem
                   PROVE  keyMem = 0 \/ rewritten \/ reverted
      BY DEF vars
    <2>2. CASE StartLoad
      BY <2>1, <2>2 DEF StartLoad, KeyInv
    <2>3. CASE CreateFill
      BY <2>1, <2>3 DEF CreateFill, KeyInv
    <2>4. ~StartLoad /\ ~CreateFill => keyMem' = keyMem
      BY <2>1 DEF Next, StartCreate, CreateTruncate, Announce, Open, RegenBegin,
         RegenTruncate, RegenFill, RegenAnnounce, RegenKilled, Arrive, Work, Disconnect,
         Collect, Collected, Signal, Drained, Deadline, Leave, Kill, PowerCut, Writeback,
         keyVars
    <2> QED
      BY <2>1, <2>2, <2>3, <2>4
  <1> QED
    BY <1>1, KeysInvariant, PTL DEF Spec, KeySurvives
=============================================================================
