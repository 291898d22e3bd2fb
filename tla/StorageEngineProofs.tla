------------------------- MODULE StorageEngineProofs -------------------------
(***************************************************************************)
(* Proofs about StorageEngine, for every set of keys, chunks, sessions and *)
(* callers and every bound on chunks and failures: its invariants, and     *)
(* that it implements MediaStore, each step of the engine being a step of  *)
(* the abstract store or leaving it as it is.                              *)
(***************************************************************************)
EXTENDS StorageInvariant, StorageRefinement, FiniteSetTheorems, TLAPS

USE DEF Actors

-----------------------------------------------------------------------------
(* How the shared pieces of the actions change the locals *)

LocalsSame(b) ==
  pc'[b] = pc[b] /\ key'[b] = key[b] /\ cur'[b] = cur[b] /\ man'[b] = man[b] /\ pos'[b] = pos[b]

\* A return releases the actor's key locks and leaves the others what they have.
LEMMA ReturnLocals ==
  ASSUME ActorTypeOK, NEW a \in Actors, NEW label, Return(a, label)
  PROVE  /\ \A b \in Actors \ {a} : LocalsSame(b)
         /\ \A t \in Callers \ {a} : dest'[t] = dest[t]
         /\ \A k \in Keys : keyLock'[k] = IF keyLock[k] = a THEN None ELSE keyLock[k]
         /\ pc'[a] = label
         /\ chunks' = chunks
  BY DEF ActorTypeOK, Return, Goto, Unlock, LocalsSame

\* A return keeps the actors' types.
LEMMA ReturnTypes ==
  ASSUME ActorTypeOK, NEW a \in Actors, NEW label, Return(a, label),
         \/ a \in Sessions /\ label \in {"done", "lost"}
         \/ a \in Callers /\ label = "idle"
  PROVE  ActorTypeOK'
<1> USE ActorsAssumption DEF ActorsAssumption, ActorTypeOK, Return, Goto, Unlock, SessionPc, CallerPc
<1>1. keyLock' \in [Keys -> Actors \cup {None}]
  OBVIOUS
<1>2. pc' \in [Actors -> SessionPc \cup CallerPc] /\ (\A s \in Sessions : pc'[s] \in SessionPc)
        /\ (\A t \in Callers : pc'[t] \in CallerPc)
  OBVIOUS
<1>3. dest' \in [Callers -> Keys \cup {None}]
  OBVIOUS
<1>4. /\ key' \in [Actors -> Keys \cup {None}] /\ chunks' \in [Sessions -> Seq(Chunks)]
      /\ cur' \in [Actors -> Chunks \cup {None}] /\ man' \in [Actors -> Sessions \cup {None}]
      /\ pos' \in [Actors -> Nat \ {0}]
  OBVIOUS
<1> QED
  BY <1>1, <1>2, <1>3, <1>4

\* And what each actor remembers.
LEMMA ReturnBasic ==
  ASSUME Basic, NEW a \in Actors, NEW label, Return(a, label),
         \/ a \in Sessions /\ label \in {"done", "lost"}
         \/ a \in Callers /\ label = "idle"
  PROVE  ActorTypeOK' /\ LocalsOK'
<1>1. ActorTypeOK'
  BY ReturnTypes DEF Basic, TypeOK
<1>2. LocalsOK'
  BY ReturnLocals, ActorsAssumption DEF ActorsAssumption, Basic, TypeOK, LocalsOK, LocalsSame, ReleasePc
<1> QED
  BY <1>1, <1>2

\* So does the start of a release of an object's references.
LEMMA StartReleaseBasic ==
  ASSUME Basic, NEW a \in Actors, NEW m \in Sessions, StartRelease(a, m),
         key[a] \in Keys, key' = key, dest' = dest, chunks' = chunks,
         cur' \in [Actors -> Chunks \cup {None}], \A b \in Actors \ {a} : cur'[b] = cur[b],
         keyLock' \in [Keys -> Actors \cup {None}],
         pc[a] \notin {"rlock1", "rlock2", "rput", "rdel"}
  PROVE  ActorTypeOK' /\ LocalsOK'
<1> USE ActorsAssumption DEF ActorsAssumption, Basic, TypeOK, StartRelease, Goto
<1>1. ActorTypeOK'
  BY DEF ActorTypeOK, SessionPc, CallerPc
<1>2. LocalsOK'
  BY DEF ActorTypeOK, LocalsOK, ReleasePc
<1> QED
  BY <1>1, <1>2

\* So does the next step of a release.
LEMMA ContinueBasic ==
  ASSUME Basic, NEW a \in Actors, Continue(a), pc[a] \in ReleasePc
  PROVE  ActorTypeOK' /\ LocalsOK'
<1> USE ActorsAssumption DEF ActorsAssumption, Basic, TypeOK, Continue, Goto
<1>1. ActorTypeOK'
  BY DEF ActorTypeOK, SessionPc, CallerPc
<1>2. LocalsOK'
  BY DEF ActorTypeOK, LocalsOK, ReleasePc
<1> QED
  BY <1>1, <1>2

-----------------------------------------------------------------------------
(* Types and locals *)

\* At the start the types are right.
LEMMA BasicInit == Init => Basic
  BY BoundsAssumption, ActorsAssumption
  DEF BoundsAssumption, ActorsAssumption, Init, Basic, TypeOK, DataTypeOK, ActorTypeOK, LocalsOK,
      ReleasePc, SessionPc, CallerPc, NoSweep

\* Every step keeps the types of the shared state.
LEMMA DataTypeNext == Basic /\ [Next]_vars => DataTypeOK'
<1> SUFFICES ASSUME Basic, [Next]_vars PROVE DataTypeOK'
  OBVIOUS
<1> USE DEF Basic, TypeOK, DataTypeOK, ActorTypeOK, LocalsOK, ReleasePc, dataVars, histVars
<1>1. ASSUME NEW s \in Sessions, SessionStep(s) PROVE DataTypeOK'
  <2>1. CASE \E k \in Keys : BeginStore(s, k)
    BY <2>1 DEF BeginStore
  <2>2. CASE \E c \in Chunks : FlushChunk(s, c)
    BY <2>2 DEF FlushChunk
  <2>3. CASE WriteChunk(s)
    <3>1. /\ cur[s] \in Chunks /\ UNCHANGED <<manifests, refs, held, damaged, faults>>
          /\ files' = files \cup {cur[s]} /\ old' = old \ {cur[s]}
      BY <2>3 DEF WriteChunk
    <3>2. contended' \subseteq Chunks
      BY <2>3, <3>1 DEF WriteChunk
    <3>3. gc' \in [phase : {"idle", "list", "sweep"}, indexed : SUBSET Chunks,
                   stale : SUBSET Chunks, todo : SUBSET Chunks, victim : Chunks \cup {None}]
      <4>1. PICK stale \in SUBSET Chunks : gc' = [gc EXCEPT !.stale = stale]
        BY <2>3, <3>1 DEF WriteChunk
      <4> QED
        BY <4>1
    <3> QED
      BY <3>1, <3>2, <3>3
  <2>4. CASE AddChunkRef(s)
    <3>1. /\ cur[s] \in Chunks /\ UNCHANGED <<manifests, files, old, gc, damaged, faults>>
          /\ refs' = [refs EXCEPT ![cur[s]] = @ + 1]
          /\ held' = held \cup {<<s, Len(chunks[s]) + 1>>}
      BY <2>4 DEF AddChunkRef
    <3>2. contended' \subseteq Chunks
      BY <2>4, <3>1 DEF AddChunkRef, Count
    <3>3. refs' \in [Chunks -> Nat] /\ held' \subseteq Sessions \X (Nat \ {0})
      BY <3>1
    <3> QED
      BY <3>1, <3>2, <3>3
  <2>5. CASE Finish(s)
    BY <2>5 DEF Finish
  <2>6. CASE LockCommit(s)
    BY <2>6 DEF LockCommit
  <2>7. CASE PutManifest(s)
    BY <2>7 DEF PutManifest
  <2>8. CASE Abort(s)
    BY <2>8 DEF Abort
  <2> QED
    BY <1>1, <2>1, <2>2, <2>3, <2>4, <2>5, <2>6, <2>7, <2>8 DEF SessionStep
<1>2. ASSUME NEW t \in Callers, CallerStep(t) PROVE DataTypeOK'
  <2>1. CASE \E k \in Keys : DeleteCall(t, k)
    BY <2>1 DEF DeleteCall
  <2>2. CASE DeleteLock(t)
    BY <2>2 DEF DeleteLock
  <2>3. CASE \E from, to \in Keys : RenameCall(t, from, to)
    BY <2>3 DEF RenameCall
  <2>4. CASE RenameLockFirst(t)
    BY <2>4 DEF RenameLockFirst
  <2>5. CASE RenameLockSecond(t)
    BY <2>5 DEF RenameLockSecond
  <2>6. CASE RenamePut(t)
    BY <2>6 DEF RenamePut
  <2>7. CASE RenameDelete(t)
    BY <2>7 DEF RenameDelete
  <2> QED
    BY <1>2, <2>1, <2>2, <2>3, <2>4, <2>5, <2>6, <2>7 DEF CallerStep
<1>3. ASSUME NEW a \in Actors, ReleaseStep(a) PROVE DataTypeOK'
  <2>1. CASE DecrementChunkRef(a)
    BY <2>1, SMTT(40) DEF DecrementChunkRef
  <2>2. CASE DeleteChunkCheck(a)
    BY <2>2 DEF DeleteChunkCheck
  <2>3. CASE DeleteChunk(a)
    BY <2>3 DEF DeleteChunk, Remove
  <2>4. CASE DeleteChunkGone(a)
    BY <2>4 DEF DeleteChunkGone
  <2>5. CASE ReleaseDone(a)
    BY <2>5 DEF ReleaseDone
  <2> QED
    BY <1>3, <2>1, <2>2, <2>3, <2>4, <2>5 DEF ReleaseStep
<1>4. CASE GcStep
  <2>1. CASE GcReadIndex
    BY <2>1 DEF GcReadIndex, NoSweep
  <2>2. CASE GcListFiles
    BY <2>2 DEF GcListFiles
  <2>3. CASE \E c \in Chunks : GcSkip(c)
    <3>1. PICK c \in Chunks : GcSkip(c)
      BY <2>3
    <3>2. gc' = [gc EXCEPT !.todo = gc.todo \ {c}] /\ UNCHANGED <<dataVars, histVars>>
      BY <3>1 DEF GcSkip
    <3>3. gc' \in [phase : {"idle", "list", "sweep"}, indexed : SUBSET Chunks,
                   stale : SUBSET Chunks, todo : SUBSET Chunks, victim : Chunks \cup {None}]
      BY <3>2
    <3> QED
      BY <3>2, <3>3 DEF dataVars, histVars
  <2>4. CASE \E c \in Chunks : GcFindOrphan(c)
    BY <2>4 DEF GcFindOrphan
  <2>5. CASE GcRemoveFile
    BY <2>5 DEF GcRemoveFile, Remove
  <2>6. CASE GcDone
    BY <2>6 DEF GcDone, NoSweep
  <2> QED
    BY <1>4, <2>1, <2>2, <2>3, <2>4, <2>5, <2>6 DEF GcStep
<1>5. CASE \E c \in Chunks : Age(c)
  BY <1>5 DEF Age
<1>6. CASE FaultStep
  <2> USE BoundsAssumption, ActorsAssumption DEF BoundsAssumption, ActorsAssumption, Fault
  <2>1. CASE \E s \in Sessions : FlushFails(s)
    BY <2>1 DEF FlushFails
  <2>2. CASE \E s \in Sessions : CommitFails(s)
    BY <2>2 DEF CommitFails
  <2>3. CASE \E a \in Actors : ReleaseFails(a)
    BY <2>3 DEF ReleaseFails
  <2>4. CASE \E t \in Callers : RenameFails(t)
    BY <2>4 DEF RenameFails
  <2>5. CASE Crash
    <3>1. /\ UNCHANGED <<dataVars, held, contended>> /\ gc' = NoSweep
          /\ faults' \in 0..MaxFaults
          /\ damaged' = damaged
               \cup {man[t] : t \in {a \in Callers : Deleting(a) \/ pc[a] = "rdel"}}
      BY <2>5 DEF Crash
    <3>2. \A t \in Callers : Deleting(t) \/ pc[t] = "rdel" => man[t] \in Sessions
      BY DEF Deleting
    <3>3. damaged' \subseteq Sessions
      BY <3>1, <3>2
    <3> QED
      BY <3>1, <3>3 DEF dataVars, NoSweep
  <2> QED
    BY <1>6, <2>1, <2>2, <2>3, <2>4, <2>5 DEF FaultStep
<1>7. CASE UNCHANGED vars
  BY <1>7 DEF vars
<1> QED
  BY <1>1, <1>2, <1>3, <1>4, <1>5, <1>6, <1>7 DEF Next

\* The collector and the passing of time touch files alone.
LEMMA Quiet ==
  ASSUME GcStep \/ (\E c \in Chunks : Age(c)) \/ UNCHANGED vars
  PROVE  UNCHANGED <<manifests, refs, keyLock, pc, localVars, held, damaged>>
<1>1. CASE GcStep
  BY <1>1 DEF GcStep, GcReadIndex, GcListFiles, GcSkip, GcFindOrphan, GcRemoveFile, GcDone,
              dataVars, histVars
<1>2. CASE (\E c \in Chunks : Age(c)) \/ UNCHANGED vars
  BY <1>2 DEF Age, vars, dataVars, histVars
<1> QED
  BY <1>1, <1>2

\* And those of the actors.
LEMMA ActorNext == Basic /\ [Next]_vars => ActorTypeOK' /\ LocalsOK'
<1> SUFFICES ASSUME Basic, [Next]_vars PROVE ActorTypeOK' /\ LocalsOK'
  OBVIOUS
<1> USE ActorsAssumption, NoneAssumption DEF ActorsAssumption, NoneAssumption
<1> DEFINE Goal == ActorTypeOK' /\ LocalsOK'
<1>a. TypeOK /\ ActorTypeOK /\ LocalsOK /\ DataTypeOK
  BY DEF Basic, TypeOK
<1>1. ASSUME NEW s \in Sessions, SessionStep(s) PROVE Goal
  <2> USE DEF Basic, TypeOK, ActorTypeOK, LocalsOK, ReleasePc, SessionPc, CallerPc, Goto, dataVars, localVars
  <2>1. CASE \E k \in Keys : BeginStore(s, k)
    BY <2>1 DEF BeginStore
  <2>2. CASE \E c \in Chunks : FlushChunk(s, c)
    BY <2>2 DEF FlushChunk
  <2>3. CASE WriteChunk(s)
    BY <2>3 DEF WriteChunk
  <2>4. CASE AddChunkRef(s)
    BY <2>4 DEF AddChunkRef
  <2>5. CASE Finish(s)
    BY <2>5 DEF Finish
  <2>6. CASE LockCommit(s)
    BY <2>6 DEF LockCommit, DataTypeOK
  <2>7. CASE PutManifest(s)
    <3>1. CASE man[s] = None
      BY <2>7, <3>1, ReturnBasic DEF PutManifest
    <3>2. CASE man[s] # None
      <4>1. /\ man[s] \in Sessions /\ key[s] \in Keys /\ pc[s] = "put"
            /\ StartRelease(s, man[s]) /\ UNCHANGED <<keyLock, key, dest, chunks, cur>>
            /\ cur \in [Actors -> Chunks \cup {None}] /\ keyLock \in [Keys -> Actors \cup {None}]
        BY <2>7, <3>2 DEF PutManifest, Return
      <4> HIDE DEF Basic, TypeOK, ActorTypeOK, LocalsOK
      <4> QED
        BY <4>1, StartReleaseBasic
    <3> QED
      BY <3>1, <3>2
  <2>8. CASE Abort(s)
    BY <2>8, StartReleaseBasic DEF Abort
  <2> QED
    BY <1>1, <2>1, <2>2, <2>3, <2>4, <2>5, <2>6, <2>7, <2>8 DEF SessionStep
<1>2. ASSUME NEW t \in Callers, CallerStep(t) PROVE Goal
  <2> USE DEF Basic, TypeOK, ActorTypeOK, LocalsOK, ReleasePc, SessionPc, CallerPc, Goto, dataVars, localVars
  <2>1. CASE \E k \in Keys : DeleteCall(t, k)
    BY <2>1 DEF DeleteCall
  <2>2. CASE DeleteLock(t)
    <3>1. CASE manifests[key[t]] = None
      BY <2>2, <3>1, ReturnBasic DEF DeleteLock
    <3>2. CASE manifests[key[t]] # None
      <4>1. /\ manifests[key[t]] \in Sessions /\ key[t] \in Keys /\ pc[t] = "dlock"
            /\ StartRelease(t, manifests[key[t]]) /\ UNCHANGED <<key, dest, chunks, cur>>
            /\ cur \in [Actors -> Chunks \cup {None}]
            /\ keyLock' = [keyLock EXCEPT ![key[t]] = t]
        BY <2>2, <3>2, <1>a DEF DeleteLock, DataTypeOK
      <4>2. keyLock' \in [Keys -> Actors \cup {None}]
        BY <4>1
      <4> HIDE DEF Basic, TypeOK, ActorTypeOK, LocalsOK
      <4> QED
        BY <4>1, <4>2, StartReleaseBasic
    <3> QED
      BY <3>1, <3>2
  <2>3. CASE \E from, to \in Keys : RenameCall(t, from, to)
    BY <2>3 DEF RenameCall
  <2>4. CASE RenameLockFirst(t)
    BY <2>4 DEF RenameLockFirst
  <2>5. CASE RenameLockSecond(t)
    <3>1. CASE Return(t, "idle")
      BY <3>1, ReturnBasic
    <3>2. CASE ~Return(t, "idle")
      <4>1. /\ manifests[key[t]] \in Sessions /\ key[t] \in Keys /\ dest[t] \in Keys
            /\ pc[t] = "rlock2" /\ pc' = [pc EXCEPT ![t] = "rput"]
            /\ man' = [man EXCEPT ![t] = manifests[key[t]]]
            /\ keyLock' = [keyLock EXCEPT ![SecondKey(t)] = t]
            /\ UNCHANGED <<key, dest, chunks, cur, pos>>
        BY <2>5, <3>2, <1>a DEF RenameLockSecond, DataTypeOK
      <4>2. ActorTypeOK'
        BY <4>1
      <4>3. LocalsOK'
        BY <4>1
      <4> QED
        BY <4>2, <4>3
    <3> QED
      BY <3>1, <3>2
  <2>6. CASE RenamePut(t)
    BY <2>6 DEF RenamePut
  <2>7. CASE RenameDelete(t)
    BY <2>7, ReturnBasic DEF RenameDelete
  <2> QED
    BY <1>2, <2>1, <2>2, <2>3, <2>4, <2>5, <2>6, <2>7 DEF CallerStep
<1>3. ASSUME NEW a \in Actors, ReleaseStep(a) PROVE Goal
  <2>1. CASE DecrementChunkRef(a)
    <3> DEFINE c == chunks[man[a]][pos[a]]
    <3>1. /\ pc[a] = "release" /\ man[a] \in Sessions /\ c \in Chunks /\ pos[a] \in Nat \ {0}
          /\ pos[a] <= Len(chunks[man[a]]) /\ UNCHANGED <<keyLock, key, dest, chunks, man>>
          /\ \/ /\ pc' = [pc EXCEPT ![a] = "check"] /\ cur' = [cur EXCEPT ![a] = c]
                /\ UNCHANGED pos
             \/ /\ pos' = [pos EXCEPT ![a] = @ + 1]
                /\ UNCHANGED <<pc, cur>>
      BY <2>1, <1>a DEF DecrementChunkRef, Goto, ActorTypeOK, LocalsOK, ReleasePc
    <3> HIDE DEF c
    <3>2. ActorTypeOK'
      <4>1. CASE pc' = [pc EXCEPT ![a] = "check"] /\ cur' = [cur EXCEPT ![a] = c] /\ UNCHANGED pos
        BY <4>1, <3>1, <1>a DEF ActorTypeOK, SessionPc, CallerPc
      <4>2. CASE pos' = [pos EXCEPT ![a] = @ + 1] /\ UNCHANGED <<pc, cur>>
        BY <4>2, <3>1, <1>a DEF ActorTypeOK
      <4> QED
        BY <3>1, <4>1, <4>2
    <3>3. LocalsOK'
      BY <3>1, <1>a DEF ActorTypeOK, LocalsOK, ReleasePc
    <3> QED
      BY <3>2, <3>3
  <2>2. CASE DeleteChunkCheck(a)
    <3>1. CASE Continue(a)
      BY <2>2, <3>1, ContinueBasic DEF DeleteChunkCheck, ReleasePc
    <3>2. CASE ~Continue(a)
      BY <2>2, <3>2, ZenonT(60) DEF DeleteChunkCheck, Basic, TypeOK, ActorTypeOK, LocalsOK, ReleasePc, SessionPc,
                        CallerPc, Goto, localVars
    <3> QED
      BY <3>1, <3>2
  <2>3. CASE DeleteChunk(a)
    BY <2>3, ContinueBasic DEF DeleteChunk, ReleasePc
  <2>4. CASE DeleteChunkGone(a)
    BY <2>4, ContinueBasic, ReturnBasic DEF DeleteChunkGone, ReleasePc
  <2>5. CASE ReleaseDone(a)
    BY <2>5, ReturnBasic DEF ReleaseDone
  <2> QED
    BY <1>3, <2>1, <2>2, <2>3, <2>4, <2>5 DEF ReleaseStep
<1>4. CASE GcStep \/ (\E c \in Chunks : Age(c)) \/ UNCHANGED vars
  BY <1>4, <1>a, Quiet DEF ActorTypeOK, LocalsOK, localVars
<1>5. CASE FaultStep
  <2>1. ASSUME NEW s \in Sessions, FlushFails(s) PROVE Goal
    <3>1. CASE Return(s, "lost")
      BY <3>1, ReturnBasic
    <3>2. CASE ~Return(s, "lost")
      <4>1. /\ StartRelease(s, s) /\ cur' = [cur EXCEPT ![s] = None]
            /\ UNCHANGED <<keyLock, key, dest, chunks>> /\ pc[s] \in {"write", "addref"}
        BY <2>1, <3>2 DEF FlushFails
      <4>2. key[s] \in Keys /\ cur' \in [Actors -> Chunks \cup {None}]
            /\ keyLock' \in [Keys -> Actors \cup {None}] /\ (\A b \in Actors \ {s} : cur'[b] = cur[b])
        BY <4>1, <1>a DEF ActorTypeOK, LocalsOK
      <4> QED
        BY <4>1, <4>2, StartReleaseBasic
    <3> QED
      BY <3>1, <3>2
  <2>2. CASE \E s \in Sessions : CommitFails(s)
    BY <2>2, ReturnBasic DEF CommitFails
  <2>3. CASE \E a \in Actors : ReleaseFails(a)
    BY <2>3, ReturnBasic, ContinueBasic DEF ReleaseFails, Aborting, ReleasePc
  <2>4. CASE \E t \in Callers : RenameFails(t)
    BY <2>4, ReturnBasic DEF RenameFails
  <2>5. CASE Crash
    BY <2>5, <1>a DEF Crash, ActorTypeOK, LocalsOK, ReleasePc, SessionPc, CallerPc, Aborting
  <2> QED
    BY <1>5, <2>1, <2>2, <2>3, <2>4, <2>5 DEF FaultStep
<1> QED
  BY <1>1, <1>2, <1>3, <1>4, <1>5 DEF Next

\* Every variable keeps its type, and every actor's locals are set when used.
THEOREM TypeCorrect == Spec => []TypeOK
<1>1. Basic /\ [Next]_vars => Basic'
  BY DataTypeNext, ActorNext DEF Basic, TypeOK
<1>2. Basic => TypeOK
  BY DEF Basic
<1> QED
  BY BasicInit, <1>1, <1>2, PTL DEF Spec

-----------------------------------------------------------------------------
(* Locks *)

\* An actor that returns holds nothing and leaves the others' locks alone.
LEMMA ReturnLocks ==
  ASSUME Basic, LocksHeld, NEW a \in Actors, NEW label, Return(a, label),
         label \in {"done", "lost", "idle"}
  PROVE  LocksHeld'
<1>1. ActorTypeOK /\ LocalsOK
  BY DEF Basic, TypeOK
<1>2. /\ \A b \in Actors \ {a} : LocalsSame(b)
      /\ \A t \in Callers \ {a} : dest'[t] = dest[t]
      /\ \A k \in Keys : keyLock'[k] = IF keyLock[k] = a THEN None ELSE keyLock[k]
      /\ pc'[a] = label
  BY <1>1, ReturnLocals
<1> QED
  BY <1>1, <1>2, ActorsAssumption
  DEF ActorsAssumption, LocksHeld, LocalsSame, LocalsOK, Replacing, Deleting, ReleasePc, FirstKey

\* Whoever works under a key's lock has it.
LEMMA LocksNext == Basic /\ LocksHeld /\ [Next]_vars => LocksHeld'
<1> SUFFICES ASSUME Basic, LocksHeld, [Next]_vars PROVE LocksHeld'
  OBVIOUS
<1> USE ActorsAssumption, NoneAssumption DEF ActorsAssumption, NoneAssumption
<1>a. ActorTypeOK /\ LocalsOK /\ DataTypeOK
  BY DEF Basic, TypeOK
<1> USE DEF LocksHeld, Replacing, Deleting, ReleasePc, FirstKey, SecondKey, Goto, localVars
<1>1. ASSUME NEW s \in Sessions, SessionStep(s) PROVE LocksHeld'
  <2>1. CASE \E k \in Keys : BeginStore(s, k)
    BY <2>1, <1>a DEF BeginStore, ActorTypeOK, LocalsOK
  <2>2. CASE \E c \in Chunks : FlushChunk(s, c)
    BY <2>2, <1>a DEF FlushChunk, ActorTypeOK, LocalsOK
  <2>3. CASE WriteChunk(s)
    BY <2>3, <1>a DEF WriteChunk, ActorTypeOK, LocalsOK
  <2>4. CASE AddChunkRef(s)
    BY <2>4, <1>a DEF AddChunkRef, ActorTypeOK, LocalsOK
  <2>5. CASE Finish(s)
    BY <2>5, <1>a DEF Finish, ActorTypeOK, LocalsOK
  <2>6. CASE LockCommit(s)
    BY <2>6, <1>a DEF LockCommit, ActorTypeOK, LocalsOK
  <2>7. CASE PutManifest(s)
    <3>1. CASE Return(s, "done")
      BY <3>1, ReturnLocks
    <3>2. CASE ~Return(s, "done")
      <4>1. /\ pc[s] = "put" /\ pc' = [pc EXCEPT ![s] = "release"]
            /\ man' = [man EXCEPT ![s] = man[s]] /\ UNCHANGED <<keyLock, key, dest>>
        BY <2>7, <3>2 DEF PutManifest, StartRelease
      <4> QED
        BY <4>1, <1>a DEF ActorTypeOK, LocalsOK
    <3> QED
      BY <3>1, <3>2
  <2>8. CASE Abort(s)
    BY <2>8, <1>a DEF Abort, StartRelease, ActorTypeOK, LocalsOK
  <2> QED
    BY <1>1, <2>1, <2>2, <2>3, <2>4, <2>5, <2>6, <2>7, <2>8 DEF SessionStep
<1>2. ASSUME NEW t \in Callers, CallerStep(t) PROVE LocksHeld'
  <2>1. CASE \E k \in Keys : DeleteCall(t, k)
    BY <2>1, <1>a DEF DeleteCall, ActorTypeOK, LocalsOK
  <2>2. CASE DeleteLock(t)
    <3>1. CASE Return(t, "idle")
      BY <3>1, ReturnLocks
    <3>2. CASE ~Return(t, "idle")
      <4>1. /\ pc[t] = "dlock" /\ pc' = [pc EXCEPT ![t] = "release"]
            /\ keyLock[key[t]] = None /\ keyLock' = [keyLock EXCEPT ![key[t]] = t]
            /\ \A b \in Actors \ {t} : man'[b] = man[b]
            /\ UNCHANGED <<key, dest>>
        BY <2>2, <3>2, <1>a DEF DeleteLock, StartRelease, ActorTypeOK
      <4> QED
        BY <4>1, <1>a DEF ActorTypeOK, LocalsOK
    <3> QED
      BY <3>1, <3>2
  <2>3. CASE \E from, to \in Keys : RenameCall(t, from, to)
    BY <2>3, <1>a DEF RenameCall, ActorTypeOK, LocalsOK
  <2>4. CASE RenameLockFirst(t)
    BY <2>4, <1>a DEF RenameLockFirst, ActorTypeOK, LocalsOK
  <2>5. CASE RenameLockSecond(t)
    <3>1. CASE Return(t, "idle")
      BY <3>1, ReturnLocks
    <3>2. CASE ~Return(t, "idle")
      <4>1. /\ pc[t] = "rlock2" /\ pc' = [pc EXCEPT ![t] = "rput"]
            /\ keyLock[SecondKey(t)] = None /\ keyLock' = [keyLock EXCEPT ![SecondKey(t)] = t]
            /\ \A b \in Actors \ {t} : man'[b] = man[b]
            /\ UNCHANGED <<key, dest>>
        BY <2>5, <3>2, <1>a DEF RenameLockSecond, ActorTypeOK
      <4> QED
        BY <4>1, <1>a DEF ActorTypeOK, LocalsOK
    <3> QED
      BY <3>1, <3>2
  <2>6. CASE RenamePut(t)
    BY <2>6, <1>a DEF RenamePut, ActorTypeOK, LocalsOK
  <2>7. CASE RenameDelete(t)
    BY <2>7, ReturnLocks DEF RenameDelete
  <2> QED
    BY <1>2, <2>1, <2>2, <2>3, <2>4, <2>5, <2>6, <2>7 DEF CallerStep
<1>3. ASSUME NEW a \in Actors, ReleaseStep(a) PROVE LocksHeld'
  <2>1. CASE DecrementChunkRef(a)
    <3>1. /\ pc[a] = "release" /\ UNCHANGED <<keyLock, key, dest, man>>
          /\ pc' \in {pc, [pc EXCEPT ![a] = "check"]}
      BY <2>1 DEF DecrementChunkRef
    <3> QED
      BY <3>1, <1>a DEF ActorTypeOK, LocalsOK
  <2>2. CASE DeleteChunkCheck(a)
    BY <2>2, <1>a DEF DeleteChunkCheck, Continue, ActorTypeOK, LocalsOK
  <2>3. CASE DeleteChunk(a)
    BY <2>3, <1>a DEF DeleteChunk, Continue, ActorTypeOK, LocalsOK
  <2>4. CASE DeleteChunkGone(a)
    <3>1. CASE Return(a, "idle")
      BY <3>1, ReturnLocks
    <3>2. CASE ~Return(a, "idle")
      <4>1. /\ pc[a] = "unlink" /\ pc' = [pc EXCEPT ![a] = "release"]
            /\ UNCHANGED <<keyLock, key, dest, man>>
        BY <2>4, <3>2 DEF DeleteChunkGone, Continue
      <4> QED
        BY <4>1, <1>a DEF ActorTypeOK, LocalsOK
    <3> QED
      BY <3>1, <3>2
  <2>5. CASE ReleaseDone(a)
    BY <2>5, ReturnLocks DEF ReleaseDone
  <2> QED
    BY <1>3, <2>1, <2>2, <2>3, <2>4, <2>5 DEF ReleaseStep
<1>4. CASE GcStep \/ (\E c \in Chunks : Age(c)) \/ UNCHANGED vars
  BY <1>4, Quiet
<1>5. CASE FaultStep
  <2>1. ASSUME NEW s \in Sessions, FlushFails(s) PROVE LocksHeld'
    <3>1. CASE Return(s, "lost")
      BY <3>1, ReturnLocks
    <3>2. CASE ~Return(s, "lost")
      BY <2>1, <3>2, <1>a DEF FlushFails, StartRelease, ActorTypeOK, LocalsOK
    <3> QED
      BY <3>1, <3>2
  <2>2. CASE \E s \in Sessions : CommitFails(s)
    BY <2>2, ReturnLocks DEF CommitFails
  <2>3. ASSUME NEW a \in Actors, ReleaseFails(a) PROVE LocksHeld'
    <3>1. CASE Continue(a)
      BY <2>3, <3>1, <1>a DEF ReleaseFails, Continue, ActorTypeOK, LocalsOK
    <3>2. CASE ~Continue(a)
      BY <2>3, <3>2, ReturnLocks DEF ReleaseFails
    <3> QED
      BY <3>1, <3>2
  <2>4. CASE \E t \in Callers : RenameFails(t)
    BY <2>4, ReturnLocks DEF RenameFails
  <2>5. CASE Crash
    BY <2>5, <1>a DEF Crash, Aborting, ActorTypeOK
  <2> QED
    BY <1>5, <2>1, <2>2, <2>3, <2>4, <2>5 DEF FaultStep
<1> QED
  BY <1>1, <1>2, <1>3, <1>4, <1>5 DEF Next

-----------------------------------------------------------------------------
(* A committed upload stays committed *)

\* A return takes no session's commit back.
LEMMA ReturnCommitted ==
  ASSUME Basic, NEW u \in Sessions, Committed(u), NEW a \in Actors, NEW label, Return(a, label),
         a = u => label = "done"
  PROVE  Committed(u)'
<1>1. /\ \A b \in Actors \ {a} : LocalsSame(b)
      /\ pc'[a] = label
  BY ReturnLocals DEF Basic, TypeOK
<1> QED
  BY <1>1 DEF Committed, Replacing, LocalsSame, ReleasePc

\* A committed session stays committed.
LEMMA CommittedStable ==
  ASSUME Basic, [Next]_vars, NEW u \in Sessions, Committed(u)
  PROVE  Committed(u)'
<1> USE ActorsAssumption DEF ActorsAssumption
<1>a. ActorTypeOK
  BY DEF Basic, TypeOK
<1>b. pc \in [Actors -> SessionPc \cup CallerPc] /\ man \in [Actors -> Sessions \cup {None}]
  BY <1>a DEF ActorTypeOK
<1> USE <1>b DEF Committed, Replacing, ReleasePc, Goto, localVars
<1>1. ASSUME NEW s \in Sessions, SessionStep(s) PROVE Committed(u)'
  <2>1. CASE \E k \in Keys : BeginStore(s, k)
    BY <2>1 DEF BeginStore
  <2>2. CASE \E c \in Chunks : FlushChunk(s, c)
    BY <2>2 DEF FlushChunk
  <2>3. CASE WriteChunk(s)
    BY <2>3 DEF WriteChunk
  <2>4. CASE AddChunkRef(s)
    BY <2>4 DEF AddChunkRef
  <2>5. CASE Finish(s)
    BY <2>5 DEF Finish
  <2>6. CASE LockCommit(s)
    BY <2>6 DEF LockCommit
  <2>7. CASE PutManifest(s)
    <3>1. CASE Return(s, "done")
      BY <3>1, <2>7, <1>a, ReturnCommitted DEF PutManifest
    <3>2. CASE ~Return(s, "done")
      BY <2>7, <3>2 DEF PutManifest, StartRelease
    <3> QED
      BY <3>1, <3>2
  <2>8. CASE Abort(s)
    BY <2>8 DEF Abort, StartRelease
  <2> QED
    BY <1>1, <2>1, <2>2, <2>3, <2>4, <2>5, <2>6, <2>7, <2>8 DEF SessionStep
<1>2. ASSUME NEW t \in Callers, CallerStep(t) PROVE Committed(u)'
  <2>1. CASE \E k \in Keys : DeleteCall(t, k)
    BY <2>1 DEF DeleteCall
  <2>2. CASE DeleteLock(t)
    <3>1. CASE Return(t, "idle")
      BY <3>1, <2>2, <1>a, ReturnCommitted DEF DeleteLock
    <3>2. CASE ~Return(t, "idle")
      BY <2>2, <3>2 DEF DeleteLock, StartRelease
    <3> QED
      BY <3>1, <3>2
  <2>3. CASE \E from, to \in Keys : RenameCall(t, from, to)
    BY <2>3 DEF RenameCall
  <2>4. CASE RenameLockFirst(t)
    BY <2>4 DEF RenameLockFirst
  <2>5. CASE RenameLockSecond(t)
    <3>1. CASE Return(t, "idle")
      BY <3>1, <2>5, <1>a, ReturnCommitted DEF RenameLockSecond
    <3>2. CASE ~Return(t, "idle")
      BY <2>5, <3>2 DEF RenameLockSecond
    <3> QED
      BY <3>1, <3>2
  <2>6. CASE RenamePut(t)
    BY <2>6 DEF RenamePut
  <2>7. CASE RenameDelete(t)
    BY <2>7, <1>a, ReturnCommitted DEF RenameDelete
  <2> QED
    BY <1>2, <2>1, <2>2, <2>3, <2>4, <2>5, <2>6, <2>7 DEF CallerStep
<1>3. ASSUME NEW a \in Actors, ReleaseStep(a) PROVE Committed(u)'
  <2>1. CASE DecrementChunkRef(a)
    BY <2>1 DEF DecrementChunkRef
  <2>2. CASE DeleteChunkCheck(a)
    BY <2>2 DEF DeleteChunkCheck, Continue
  <2>3. CASE DeleteChunk(a)
    BY <2>3 DEF DeleteChunk, Continue
  <2>4. CASE DeleteChunkGone(a)
    <3>1. CASE a \in Callers
      BY <3>1, <2>4, <1>a, ReturnCommitted DEF DeleteChunkGone
    <3>2. CASE a \in Sessions
      BY <2>4, <3>2 DEF DeleteChunkGone, Continue
    <3> QED
      BY <3>1, <3>2
  <2>5. CASE ReleaseDone(a)
    BY <2>5, <1>a, ReturnCommitted DEF ReleaseDone
  <2> QED
    BY <1>3, <2>1, <2>2, <2>3, <2>4, <2>5 DEF ReleaseStep
<1>4. CASE GcStep \/ (\E c \in Chunks : Age(c)) \/ UNCHANGED vars
  BY <1>4, Quiet DEF Committed, Replacing, localVars
<1>5. CASE FaultStep
  <2>1. ASSUME NEW s \in Sessions, FlushFails(s) PROVE Committed(u)'
    <3>1. CASE Return(s, "lost")
      BY <3>1, <2>1, <1>a, ReturnCommitted DEF FlushFails
    <3>2. CASE ~Return(s, "lost")
      BY <2>1, <3>2 DEF FlushFails, StartRelease
    <3> QED
      BY <3>1, <3>2
  <2>2. ASSUME NEW s \in Sessions, CommitFails(s) PROVE Committed(u)'
    BY <2>2, <1>a, ReturnCommitted DEF CommitFails
  <2>3. ASSUME NEW a \in Actors, ReleaseFails(a) PROVE Committed(u)'
    <3>1. CASE Continue(a)
      BY <2>3, <3>1, <1>a DEF ReleaseFails, Continue
    <3>2. CASE ~Continue(a)
      BY <2>3, <3>2, <1>a, ReturnCommitted DEF ReleaseFails, Aborting
    <3> QED
      BY <3>1, <3>2
  <2>4. ASSUME NEW t \in Callers, RenameFails(t) PROVE Committed(u)'
    BY <2>4, <1>a, ReturnCommitted DEF RenameFails
  <2>5. CASE Crash
    BY <2>5, <1>a DEF Crash, Aborting, ActorTypeOK
  <2> QED
    BY <1>5, <2>1, <2>2, <2>3, <2>4, <2>5 DEF FaultStep
<1> QED
  BY <1>1, <1>2, <1>3, <1>4, <1>5 DEF Next

-----------------------------------------------------------------------------
(* What an actor has read under its locks *)

\* An actor may return after it changed manifests under keys it has locked.
LEMMA ReturnReads ==
  ASSUME Basic, LocksHeld, ReadsStable, NEW a \in Actors, NEW label, Return(a, label),
         label \in {"done", "lost", "idle"},
         \A k \in Keys : keyLock[k] # a => manifests'[k] = manifests[k]
  PROVE  ReadsStable'
<1>1. ActorTypeOK /\ LocalsOK
  BY DEF Basic, TypeOK
<1>2. /\ \A b \in Actors \ {a} : LocalsSame(b)
      /\ \A t \in Callers \ {a} : dest'[t] = dest[t]
      /\ pc'[a] = label
  BY <1>1, ReturnLocals
<1> QED
  BY <1>1, <1>2, ActorsAssumption
  DEF ActorsAssumption, LocksHeld, ReadsStable, LocalsSame, LocalsOK, Deleting, ReleasePc

\* What was read under a key's lock stays as it was read.
LEMMA ReadsNext == Basic /\ LocksHeld /\ ReadsStable /\ [Next]_vars => ReadsStable'
<1> SUFFICES ASSUME Basic, LocksHeld, ReadsStable, [Next]_vars PROVE ReadsStable'
  OBVIOUS
<1> USE ActorsAssumption, NoneAssumption DEF ActorsAssumption, NoneAssumption
<1>a. LocalsOK /\ ActorTypeOK /\ DataTypeOK
  BY DEF Basic, TypeOK
<1>b. /\ pc \in [Actors -> SessionPc \cup CallerPc] /\ man \in [Actors -> Sessions \cup {None}]
      /\ key \in [Actors -> Keys \cup {None}] /\ dest \in [Callers -> Keys \cup {None}]
      /\ manifests \in [Keys -> Sessions \cup {None}] /\ keyLock \in [Keys -> Actors \cup {None}]
  BY <1>a DEF ActorTypeOK, DataTypeOK
<1>c. LocalsOK /\ LocksHeld /\ ReadsStable
  BY <1>a
<1> USE <1>b, <1>c DEF LocksHeld, ReadsStable, LocalsOK, Replacing, Deleting, ReleasePc, Goto,
                       dataVars, localVars
<1>1. ASSUME NEW s \in Sessions, SessionStep(s) PROVE ReadsStable'
  <2>1. CASE \E k \in Keys : BeginStore(s, k)
    BY <2>1 DEF BeginStore
  <2>2. CASE \E c \in Chunks : FlushChunk(s, c)
    BY <2>2 DEF FlushChunk
  <2>3. CASE WriteChunk(s)
    BY <2>3 DEF WriteChunk
  <2>4. CASE AddChunkRef(s)
    BY <2>4 DEF AddChunkRef
  <2>5. CASE Finish(s)
    BY <2>5 DEF Finish
  <2>6. CASE LockCommit(s)
    BY <2>6 DEF LockCommit
  <2>7. CASE PutManifest(s)
    <3>1. CASE Return(s, "done")
      BY <3>1, <2>7, ReturnReads DEF PutManifest
    <3>2. CASE ~Return(s, "done")
      BY <2>7, <3>2 DEF PutManifest, StartRelease
    <3> QED
      BY <3>1, <3>2
  <2>8. CASE Abort(s)
    BY <2>8 DEF Abort, StartRelease
  <2> QED
    BY <1>1, <2>1, <2>2, <2>3, <2>4, <2>5, <2>6, <2>7, <2>8 DEF SessionStep
<1>2. ASSUME NEW t \in Callers, CallerStep(t) PROVE ReadsStable'
  <2>1. CASE \E k \in Keys : DeleteCall(t, k)
    BY <2>1 DEF DeleteCall
  <2>2. CASE DeleteLock(t)
    <3>1. CASE Return(t, "idle")
      BY <3>1, <2>2, ReturnReads DEF DeleteLock
    <3>2. CASE ~Return(t, "idle")
      BY <2>2, <3>2 DEF DeleteLock, StartRelease
    <3> QED
      BY <3>1, <3>2
  <2>3. CASE \E from, to \in Keys : RenameCall(t, from, to)
    BY <2>3 DEF RenameCall
  <2>4. CASE RenameLockFirst(t)
    BY <2>4 DEF RenameLockFirst
  <2>5. CASE RenameLockSecond(t)
    <3>1. CASE Return(t, "idle")
      BY <3>1, <2>5, ReturnReads DEF RenameLockSecond
    <3>2. CASE ~Return(t, "idle")
      BY <2>5, <3>2 DEF RenameLockSecond
    <3> QED
      BY <3>1, <3>2
  <2>6. CASE RenamePut(t)
    BY <2>6 DEF RenamePut
  <2>7. CASE RenameDelete(t)
    BY <2>7, ReturnReads DEF RenameDelete
  <2> QED
    BY <1>2, <2>1, <2>2, <2>3, <2>4, <2>5, <2>6, <2>7 DEF CallerStep
<1>3. ASSUME NEW a \in Actors, ReleaseStep(a) PROVE ReadsStable'
  <2>1. CASE DecrementChunkRef(a)
    BY <2>1 DEF DecrementChunkRef
  <2>2. CASE DeleteChunkCheck(a)
    BY <2>2 DEF DeleteChunkCheck, Continue
  <2>3. CASE DeleteChunk(a)
    BY <2>3 DEF DeleteChunk, Continue
  <2>4. CASE DeleteChunkGone(a)
    <3>1. CASE a \in Callers
      BY <3>1, <2>4, ReturnReads DEF DeleteChunkGone
    <3>2. CASE a \in Sessions
      BY <2>4, <3>2 DEF DeleteChunkGone, Continue
    <3> QED
      BY <3>1, <3>2
  <2>5. CASE ReleaseDone(a)
    BY <2>5, ReturnReads DEF ReleaseDone
  <2> QED
    BY <1>3, <2>1, <2>2, <2>3, <2>4, <2>5 DEF ReleaseStep
<1>4. CASE GcStep \/ (\E c \in Chunks : Age(c)) \/ UNCHANGED vars
  BY <1>4, Quiet
<1>5. CASE FaultStep
  <2>1. ASSUME NEW s \in Sessions, FlushFails(s) PROVE ReadsStable'
    <3>1. CASE Return(s, "lost")
      BY <3>1, <2>1, ReturnReads DEF FlushFails
    <3>2. CASE ~Return(s, "lost")
      BY <2>1, <3>2 DEF FlushFails, StartRelease
    <3> QED
      BY <3>1, <3>2
  <2>2. ASSUME NEW s \in Sessions, CommitFails(s) PROVE ReadsStable'
    BY <2>2, ReturnReads DEF CommitFails
  <2>3. ASSUME NEW a \in Actors, ReleaseFails(a) PROVE ReadsStable'
    <3>1. CASE Continue(a)
      BY <2>3, <3>1 DEF ReleaseFails, Continue
    <3>2. CASE ~Continue(a)
      BY <2>3, <3>2, ReturnReads DEF ReleaseFails, Aborting
    <3> QED
      BY <3>1, <3>2
  <2>4. ASSUME NEW t \in Callers, RenameFails(t) PROVE ReadsStable'
    BY <2>4, ReturnReads DEF RenameFails
  <2>5. CASE Crash
    BY <2>5 DEF Crash
  <2> QED
    BY <1>5, <2>1, <2>2, <2>3, <2>4, <2>5 DEF FaultStep
<1> QED
  BY <1>1, <1>2, <1>3, <1>4, <1>5 DEF Next

-----------------------------------------------------------------------------
(* Only committed uploads are stored, or released by another actor *)

\* A return leaves only committed objects stored.
LEMMA ReturnOnlyCommitted ==
  ASSUME Basic, OnlyCommitted, [Next]_vars, NEW a \in Actors, NEW label, Return(a, label),
         label \in {"done", "lost", "idle"},
         \A k \in Keys : manifests'[k] # None =>
           manifests'[k] = manifests[k] \/ (manifests'[k] = a /\ a \in Sessions /\ label = "done")
  PROVE  OnlyCommitted'
<1>1. ActorTypeOK /\ LocalsOK /\ manifests \in [Keys -> Sessions \cup {None}]
  BY DEF Basic, TypeOK, DataTypeOK
<1>2. /\ \A b \in Actors \ {a} : LocalsSame(b)
      /\ pc'[a] = label
  BY <1>1, ReturnLocals
<1>3. \A u \in Sessions : Committed(u) => Committed(u)'
  BY CommittedStable
<1>4. ASSUME NEW k \in Keys, manifests'[k] # None PROVE Committed(manifests[k])'
  <2>1. CASE manifests'[k] = manifests[k]
    BY <1>1, <1>3, <1>4, <2>1 DEF OnlyCommitted, Committed, Replacing
  <2>2. CASE manifests'[k] = a /\ label = "done"
    BY <1>2, <2>2 DEF Committed
  <2> QED
    BY <1>4, <2>1, <2>2
<1>5. ASSUME NEW b \in Actors, pc'[b] \in ReleasePc, man'[b] # b PROVE Committed(man[b])'
  <2>1. b # a /\ pc[b] = pc'[b] /\ man[b] = man'[b] /\ man[b] \in Sessions
    BY <1>1, <1>2, <1>5 DEF LocalsSame, LocalsOK, ReleasePc
  <2> QED
    BY <1>3, <1>5, <2>1 DEF OnlyCommitted, Committed, Replacing
<1> QED
  BY <1>4, <1>5 DEF OnlyCommitted, Committed, Replacing

\* So does every step.
LEMMA OnlyCommittedNext ==
  Basic /\ ReadsStable /\ OnlyCommitted /\ [Next]_vars => OnlyCommitted'
<1> SUFFICES ASSUME Basic, ReadsStable, OnlyCommitted, [Next]_vars PROVE OnlyCommitted'
  OBVIOUS
<1> USE ActorsAssumption, NoneAssumption DEF ActorsAssumption, NoneAssumption
<1>a. LocalsOK /\ ActorTypeOK /\ DataTypeOK
  BY DEF Basic, TypeOK
<1>b. /\ pc \in [Actors -> SessionPc \cup CallerPc] /\ man \in [Actors -> Sessions \cup {None}]
      /\ manifests \in [Keys -> Sessions \cup {None}]
  BY <1>a DEF ActorTypeOK, DataTypeOK
<1>c. LocalsOK /\ ReadsStable /\ OnlyCommitted
  BY <1>a
<1>d. \A u \in Sessions : Committed(u) => Committed(u)'
  BY CommittedStable
<1> USE <1>b, <1>c, <1>d DEF ReadsStable, OnlyCommitted, LocalsOK, ReleasePc, Goto, dataVars, localVars
<1>1. ASSUME NEW s \in Sessions, SessionStep(s) PROVE OnlyCommitted'
  <2>1. CASE \E k \in Keys : BeginStore(s, k)
    BY <2>1 DEF BeginStore
  <2>2. CASE \E c \in Chunks : FlushChunk(s, c)
    BY <2>2 DEF FlushChunk
  <2>3. CASE WriteChunk(s)
    BY <2>3 DEF WriteChunk
  <2>4. CASE AddChunkRef(s)
    BY <2>4 DEF AddChunkRef
  <2>5. CASE Finish(s)
    BY <2>5 DEF Finish
  <2>6. CASE LockCommit(s)
    BY <2>6 DEF LockCommit
  <2>7. CASE PutManifest(s)
    <3>1. CASE Return(s, "done")
      BY <3>1, <2>7, ReturnOnlyCommitted DEF PutManifest
    <3>2. CASE ~Return(s, "done")
      <4>1. man[s] # s
        BY <2>7, <3>2 DEF PutManifest, Committed, Replacing
      <4>2. Committed(s)'
        BY <2>7, <3>2, <4>1 DEF PutManifest, StartRelease, Committed, Replacing
      <4> QED
        BY <2>7, <3>2, <4>2 DEF PutManifest, StartRelease, Committed, Replacing
    <3> QED
      BY <3>1, <3>2
  <2>8. CASE Abort(s)
    BY <2>8 DEF Abort, StartRelease
  <2> QED
    BY <1>1, <2>1, <2>2, <2>3, <2>4, <2>5, <2>6, <2>7, <2>8 DEF SessionStep
<1>2. ASSUME NEW t \in Callers, CallerStep(t) PROVE OnlyCommitted'
  <2>1. CASE \E k \in Keys : DeleteCall(t, k)
    BY <2>1 DEF DeleteCall
  <2>2. CASE DeleteLock(t)
    <3>1. CASE Return(t, "idle")
      BY <3>1, <2>2, ReturnOnlyCommitted DEF DeleteLock
    <3>2. CASE ~Return(t, "idle")
      BY <2>2, <3>2 DEF DeleteLock, StartRelease
    <3> QED
      BY <3>1, <3>2
  <2>3. CASE \E from, to \in Keys : RenameCall(t, from, to)
    BY <2>3 DEF RenameCall
  <2>4. CASE RenameLockFirst(t)
    BY <2>4 DEF RenameLockFirst
  <2>5. CASE RenameLockSecond(t)
    <3>1. CASE Return(t, "idle")
      BY <3>1, <2>5, ReturnOnlyCommitted DEF RenameLockSecond
    <3>2. CASE ~Return(t, "idle")
      BY <2>5, <3>2 DEF RenameLockSecond
    <3> QED
      BY <3>1, <3>2
  <2>6. CASE RenamePut(t)
    BY <2>6 DEF RenamePut
  <2>7. CASE RenameDelete(t)
    BY <2>7, ReturnOnlyCommitted DEF RenameDelete
  <2> QED
    BY <1>2, <2>1, <2>2, <2>3, <2>4, <2>5, <2>6, <2>7 DEF CallerStep
<1>3. ASSUME NEW a \in Actors, ReleaseStep(a) PROVE OnlyCommitted'
  <2>1. CASE DecrementChunkRef(a)
    BY <2>1 DEF DecrementChunkRef
  <2>2. CASE DeleteChunkCheck(a)
    BY <2>2 DEF DeleteChunkCheck, Continue
  <2>3. CASE DeleteChunk(a)
    BY <2>3 DEF DeleteChunk, Continue
  <2>4. CASE DeleteChunkGone(a)
    <3>1. CASE a \in Callers
      BY <3>1, <2>4, ReturnOnlyCommitted DEF DeleteChunkGone
    <3>2. CASE a \in Sessions
      BY <2>4, <3>2 DEF DeleteChunkGone, Continue
    <3> QED
      BY <3>1, <3>2
  <2>5. CASE ReleaseDone(a)
    BY <2>5, ReturnOnlyCommitted DEF ReleaseDone
  <2> QED
    BY <1>3, <2>1, <2>2, <2>3, <2>4, <2>5 DEF ReleaseStep
<1>4. CASE GcStep \/ (\E c \in Chunks : Age(c)) \/ UNCHANGED vars
  BY <1>4, Quiet DEF Committed, Replacing
<1>5. CASE FaultStep
  <2>1. ASSUME NEW s \in Sessions, FlushFails(s) PROVE OnlyCommitted'
    <3>1. CASE Return(s, "lost")
      BY <3>1, <2>1, ReturnOnlyCommitted DEF FlushFails
    <3>2. CASE ~Return(s, "lost")
      BY <2>1, <3>2 DEF FlushFails, StartRelease
    <3> QED
      BY <3>1, <3>2
  <2>2. ASSUME NEW s \in Sessions, CommitFails(s) PROVE OnlyCommitted'
    BY <2>2, ReturnOnlyCommitted DEF CommitFails
  <2>3. ASSUME NEW a \in Actors, ReleaseFails(a) PROVE OnlyCommitted'
    <3>1. CASE Continue(a)
      BY <2>3, <3>1 DEF ReleaseFails, Continue
    <3>2. CASE ~Continue(a)
      BY <2>3, <3>2, ReturnOnlyCommitted DEF ReleaseFails, Aborting
    <3> QED
      BY <3>1, <3>2
  <2>4. ASSUME NEW t \in Callers, RenameFails(t) PROVE OnlyCommitted'
    BY <2>4, ReturnOnlyCommitted DEF RenameFails
  <2>5. CASE Crash
    BY <2>5 DEF Crash
  <2> QED
    BY <1>5, <2>1, <2>2, <2>3, <2>4, <2>5 DEF FaultStep
<1> QED
  BY <1>1, <1>2, <1>3, <1>4, <1>5 DEF Next

-----------------------------------------------------------------------------
(* An object has one name *)

\* A return leaves no object under two keys.
LEMMA ReturnOneName ==
  ASSUME Basic, OneName, NEW a \in Actors, NEW label, Return(a, label), damaged \subseteq damaged',
         \A k \in Keys : manifests'[k] = manifests[k] \/ manifests'[k] = None
                         \/ (manifests'[k] = a /\ ~Stored(a) /\ k = key[a]),
         a \in Callers /\ pc[a] = "rdel" => manifests'[key[a]] = None \/ manifests[key[a]] \in damaged'
  PROVE  OneName'
<1>1. ActorTypeOK /\ LocalsOK /\ manifests \in [Keys -> Sessions \cup {None}]
  BY DEF Basic, TypeOK, DataTypeOK
<1>2. /\ \A b \in Actors \ {a} : LocalsSame(b)
      /\ \A t \in Callers \ {a} : dest'[t] = dest[t]
  BY <1>1, ReturnLocals
<1> SUFFICES ASSUME NEW k1 \in Keys, NEW k2 \in Keys, NEW u \in Sessions \ damaged', k1 # k2,
                    manifests'[k1] = u, manifests'[k2] = u
             PROVE  \E t \in Callers : pc'[t] = "rdel" /\ {k1, k2} = {key'[t], dest'[t]}
  BY DEF OneName
<1>3. manifests[k1] = u /\ manifests[k2] = u
  BY NoneAssumption DEF NoneAssumption, Stored
<1>4. PICK t \in Callers : pc[t] = "rdel" /\ {k1, k2} = {key[t], dest[t]}
  BY <1>3 DEF OneName
<1>5. t # a
  BY <1>3, <1>4, NoneAssumption DEF NoneAssumption
<1> QED
  BY <1>2, <1>4, <1>5 DEF LocalsSame

\* A step that stores nothing, or a session not stored before, and leaves the
\* renames between their two steps where they are.
LEMMA OneNameFrame ==
  ASSUME Basic, OneName, damaged \subseteq damaged',
         \/ manifests' = manifests
         \/ \E s \in Sessions : manifests' = [manifests EXCEPT ![key[s]] = s] /\ ~Stored(s),
         \A t \in Callers : pc[t] = "rdel" => pc'[t] = "rdel" /\ key'[t] = key[t] /\ dest'[t] = dest[t]
  PROVE  OneName'
<1> SUFFICES ASSUME NEW k1 \in Keys, NEW k2 \in Keys, NEW u \in Sessions \ damaged', k1 # k2,
                    manifests'[k1] = u, manifests'[k2] = u
             PROVE  \E t \in Callers : pc'[t] = "rdel" /\ {k1, k2} = {key'[t], dest'[t]}
  BY DEF OneName
<1>1. manifests[k1] = u /\ manifests[k2] = u
  BY DEF Stored, Basic, TypeOK, DataTypeOK
<1> QED
  BY <1>1 DEF OneName

\* Nor does the rename that stores an object under its new key.
LEMMA OneNameRenamePut ==
  ASSUME Basic, LocksHeld, ReadsStable, OneName, NEW r \in Callers, RenamePut(r)
  PROVE  OneName'
<1>a. /\ pc \in [Actors -> SessionPc \cup CallerPc] /\ manifests \in [Keys -> Sessions \cup {None}]
      /\ LocalsOK
  BY DEF Basic, TypeOK, ActorTypeOK, DataTypeOK
<1>1. /\ pc[r] = "rput" /\ pc' = [pc EXCEPT ![r] = "rdel"] /\ manifests[key[r]] = man[r]
      /\ manifests' = [manifests EXCEPT ![dest[r]] = man[r]]
      /\ key[r] \in Keys /\ dest[r] \in Keys /\ UNCHANGED <<key, dest, damaged>>
  BY <1>a DEF LocalsOK, RenamePut, ReadsStable, Goto, localVars, histVars
<1> SUFFICES ASSUME NEW k1 \in Keys, NEW k2 \in Keys, NEW u \in Sessions \ damaged', k1 # k2,
                    manifests'[k1] = u, manifests'[k2] = u
             PROVE  \E t \in Callers : pc'[t] = "rdel" /\ {k1, k2} = {key'[t], dest'[t]}
  BY DEF OneName
<1>2. CASE manifests[k1] = u /\ manifests[k2] = u
  <2>1. PICK t \in Callers : pc[t] = "rdel" /\ {k1, k2} = {key[t], dest[t]}
    BY <1>1, <1>2 DEF OneName
  <2>2. pc'[t] = "rdel"
    BY <1>a, <1>1, <2>1
  <2> QED
    BY <1>1, <2>1, <2>2
<1>3. ASSUME NEW k \in Keys, manifests[k] = man[r], man[r] \notin damaged PROVE k = key[r]
  <2>1. SUFFICES ASSUME k # key[r] PROVE FALSE
    OBVIOUS
  <2>2. PICK t \in Callers : pc[t] = "rdel" /\ {k, key[r]} = {key[t], dest[t]}
    BY <1>a, <1>1, <1>3, <2>1 DEF OneName, LocalsOK
  <2>3. key[r] \in {key[t], dest[t]}
    BY <2>2
  <2> QED
    BY <1>1, <2>2, <2>3 DEF LocksHeld
<1>4. CASE ~(manifests[k1] = u /\ manifests[k2] = u)
  <2>1. u = man[r] /\ {k1, k2} = {key[r], dest[r]}
    BY <1>a, <1>1, <1>3, <1>4
  <2> QED
    BY <1>a, <1>1, <2>1
<1> QED
  BY <1>2, <1>4

\* Nor does any step.
LEMMA OneNameNext ==
  Basic /\ LocksHeld /\ ReadsStable /\ OnlyCommitted /\ OneName /\ [Next]_vars => OneName'
<1> SUFFICES ASSUME Basic, LocksHeld, ReadsStable, OnlyCommitted, OneName, [Next]_vars PROVE OneName'
  OBVIOUS
<1> USE ActorsAssumption, NoneAssumption DEF ActorsAssumption, NoneAssumption
<1>a. LocalsOK /\ ActorTypeOK /\ DataTypeOK
  BY DEF Basic, TypeOK
<1>b. /\ pc \in [Actors -> SessionPc \cup CallerPc]
      /\ key \in [Actors -> Keys \cup {None}] /\ dest \in [Callers -> Keys \cup {None}]
      /\ manifests \in [Keys -> Sessions \cup {None}]
  BY <1>a DEF ActorTypeOK, DataTypeOK
<1>c. LocalsOK /\ ReadsStable /\ OneName
  BY <1>a
<1>d. \A s \in Sessions : ~Committed(s) => ~Stored(s)
  BY <1>b DEF OnlyCommitted, Stored
<1>e. \A s \in Sessions : pc[s] = "put" => ~Stored(s)
  BY <1>d DEF Committed, Replacing, ReleasePc
<1> USE <1>b, <1>c, <1>e DEF ReadsStable, LocalsOK, Goto, dataVars, localVars, histVars
<1>1. ASSUME NEW s \in Sessions, SessionStep(s) PROVE OneName'
  <2>1. CASE \E k \in Keys : BeginStore(s, k)
    BY <2>1, OneNameFrame DEF BeginStore
  <2>2. CASE \E c \in Chunks : FlushChunk(s, c)
    BY <2>2, OneNameFrame DEF FlushChunk
  <2>3. CASE WriteChunk(s)
    BY <2>3, OneNameFrame DEF WriteChunk
  <2>4. CASE AddChunkRef(s)
    BY <2>4, OneNameFrame DEF AddChunkRef
  <2>5. CASE Finish(s)
    BY <2>5, OneNameFrame DEF Finish
  <2>6. CASE LockCommit(s)
    BY <2>6, OneNameFrame DEF LockCommit
  <2>7. CASE PutManifest(s)
    <3>1. CASE Return(s, "done")
      BY <3>1, <2>7, ReturnOneName DEF PutManifest
    <3>2. CASE ~Return(s, "done")
      BY <2>7, <3>2, OneNameFrame DEF PutManifest, StartRelease
    <3> QED
      BY <3>1, <3>2
  <2>8. CASE Abort(s)
    BY <2>8, OneNameFrame DEF Abort, StartRelease
  <2> QED
    BY <1>1, <2>1, <2>2, <2>3, <2>4, <2>5, <2>6, <2>7, <2>8 DEF SessionStep
<1>2. ASSUME NEW t \in Callers, CallerStep(t) PROVE OneName'
  <2>1. CASE \E k \in Keys : DeleteCall(t, k)
    BY <2>1, OneNameFrame DEF DeleteCall
  <2>2. CASE DeleteLock(t)
    <3>1. CASE Return(t, "idle")
      BY <3>1, <2>2, ReturnOneName DEF DeleteLock
    <3>2. CASE ~Return(t, "idle")
      BY <2>2, <3>2, OneNameFrame DEF DeleteLock, StartRelease
    <3> QED
      BY <3>1, <3>2
  <2>3. CASE \E from, to \in Keys : RenameCall(t, from, to)
    BY <2>3, OneNameFrame DEF RenameCall
  <2>4. CASE RenameLockFirst(t)
    BY <2>4, OneNameFrame DEF RenameLockFirst
  <2>5. CASE RenameLockSecond(t)
    <3>1. CASE Return(t, "idle")
      BY <3>1, <2>5, ReturnOneName DEF RenameLockSecond
    <3>2. CASE ~Return(t, "idle")
      BY <2>5, <3>2, OneNameFrame DEF RenameLockSecond
    <3> QED
      BY <3>1, <3>2
  <2>6. CASE RenamePut(t)
    BY <2>6, OneNameRenamePut
  <2>7. CASE RenameDelete(t)
    BY <2>7, ReturnOneName DEF RenameDelete
  <2> QED
    BY <1>2, <2>1, <2>2, <2>3, <2>4, <2>5, <2>6, <2>7 DEF CallerStep
<1>3. ASSUME NEW a \in Actors, ReleaseStep(a) PROVE OneName'
  <2>1. CASE DecrementChunkRef(a)
    BY <2>1, OneNameFrame DEF DecrementChunkRef
  <2>2. CASE DeleteChunkCheck(a)
    BY <2>2, OneNameFrame DEF DeleteChunkCheck, Continue
  <2>3. CASE DeleteChunk(a)
    BY <2>3, OneNameFrame DEF DeleteChunk, Continue
  <2>4. CASE DeleteChunkGone(a)
    <3>1. CASE a \in Callers
      BY <3>1, <2>4, ReturnOneName DEF DeleteChunkGone
    <3>2. CASE a \in Sessions
      BY <2>4, <3>2, OneNameFrame DEF DeleteChunkGone, Continue
    <3> QED
      BY <3>1, <3>2
  <2>5. CASE ReleaseDone(a)
    BY <2>5, ReturnOneName DEF ReleaseDone
  <2> QED
    BY <1>3, <2>1, <2>2, <2>3, <2>4, <2>5 DEF ReleaseStep
<1>4. CASE GcStep \/ (\E c \in Chunks : Age(c)) \/ UNCHANGED vars
  BY <1>4, Quiet, OneNameFrame
<1>5. CASE FaultStep
  <2>1. ASSUME NEW s \in Sessions, FlushFails(s) PROVE OneName'
    <3>1. CASE Return(s, "lost")
      BY <3>1, <2>1, ReturnOneName DEF FlushFails
    <3>2. CASE ~Return(s, "lost")
      BY <2>1, <3>2, OneNameFrame DEF FlushFails, StartRelease
    <3> QED
      BY <3>1, <3>2
  <2>2. ASSUME NEW s \in Sessions, CommitFails(s) PROVE OneName'
    BY <2>2, ReturnOneName DEF CommitFails
  <2>3. ASSUME NEW a \in Actors, ReleaseFails(a) PROVE OneName'
    <3>1. CASE Continue(a)
      BY <2>3, <3>1, OneNameFrame DEF ReleaseFails, Continue
    <3>2. CASE ~Continue(a)
      BY <2>3, <3>2, ReturnOneName DEF ReleaseFails, Aborting
    <3> QED
      BY <3>1, <3>2
  <2>4. ASSUME NEW t \in Callers, RenameFails(t) PROVE OneName'
    BY <2>4, ReturnOneName DEF RenameFails
  <2>5. CASE Crash
    <3> SUFFICES ASSUME NEW k1 \in Keys, NEW k2 \in Keys, NEW u \in Sessions \ damaged', k1 # k2,
                        manifests'[k1] = u, manifests'[k2] = u
                 PROVE  FALSE
      BY DEF OneName
    <3>1. manifests[k1] = u /\ manifests[k2] = u /\ u \notin damaged
      BY <2>5 DEF Crash
    <3>2. PICK r \in Callers : pc[r] = "rdel" /\ {k1, k2} = {key[r], dest[r]}
      BY <3>1 DEF OneName
    <3>3. key[r] \in {k1, k2}
      BY <3>2
    <3>4. man[r] = u
      BY <3>1, <3>2, <3>3
    <3> QED
      BY <2>5, <3>2, <3>4 DEF Crash
  <2> QED
    BY <1>5, <2>1, <2>2, <2>3, <2>4, <2>5 DEF FaultStep
<1> QED
  BY <1>1, <1>2, <1>3, <1>4, <1>5 DEF Next

-----------------------------------------------------------------------------
(* A replaced object is released once *)

\* A step that brings no committed object back, and starts no release but of
\* an upload under way (abort) or of a stored object (delete).
LEMMA ReplacedFrame ==
  ASSUME Basic, OnlyCommitted, ReplacedOnce, damaged \subseteq damaged',
         \A u \in Sessions : Committed(u) /\ Stored(u)' => Stored(u),
         \A a \in Actors : pc'[a] \in ReleasePc =>
           \/ pc[a] \in ReleasePc /\ man'[a] = man[a]
           \/ a \in Sessions /\ man'[a] = a /\ ~Committed(a)
           \/ a \in Callers /\ Stored(man'[a])
  PROVE  ReplacedOnce'
<1>1. LocalsOK
  BY DEF Basic
<1> SUFFICES ASSUME NEW s \in Sessions, pc'[s] \in ReleasePc, man'[s] # s, man'[s] \notin damaged'
             PROVE  /\ ~Stored(man[s])'
                    /\ \A a \in Actors : pc'[a] \in ReleasePc /\ man'[a] = man'[s] => a = s
  BY DEF ReplacedOnce, Replacing
<1>2. pc[s] \in ReleasePc /\ man'[s] = man[s]
  BY ActorsAssumption DEF ActorsAssumption
<1>3. man[s] \in Sessions /\ Committed(man[s]) /\ Replacing(s)
  BY <1>1, <1>2 DEF LocalsOK, OnlyCommitted, Replacing
<1>4. /\ ~Stored(man[s])
      /\ \A a \in Actors : pc[a] \in ReleasePc /\ man[a] = man[s] => a = s
  BY <1>2, <1>3 DEF ReplacedOnce
<1>5. ~Stored(man[s])'
  BY <1>2, <1>3, <1>4 DEF Stored
<1> QED
  BY <1>2, <1>3, <1>4, <1>5

\* After a return each replaced object is still released by one actor only.
LEMMA ReturnReplaced ==
  ASSUME Basic, OnlyCommitted, ReplacedOnce, damaged \subseteq damaged',
         NEW a \in Actors, NEW label, Return(a, label), label \in {"done", "lost", "idle"},
         \A u \in Sessions : Committed(u) /\ Stored(u)' => Stored(u)
  PROVE  ReplacedOnce'
<1>1. /\ \A b \in Actors \ {a} : LocalsSame(b)
      /\ pc'[a] = label
  BY ReturnLocals DEF Basic, TypeOK
<1> QED
  BY <1>1, ReplacedFrame DEF LocalsSame, ReleasePc

\* The object a commit replaces is stored under that key only, and the key's
\* lock keeps deletes and renames of it away.
LEMMA PutReplaces ==
  ASSUME Basic, LocksHeld, ReadsStable, OnlyCommitted, OneName, ReplacedOnce,
         NEW s \in Sessions, pc[s] = "put", man[s] # None, man[s] \notin damaged
  PROVE  /\ man[s] \in Sessions /\ Committed(man[s]) /\ man[s] # s /\ ~Stored(s)
         /\ \A k \in Keys : manifests[k] = man[s] => k = key[s]
         /\ \A a \in Actors : ~(pc[a] \in ReleasePc /\ man[a] = man[s])
<1> USE ActorsAssumption, NoneAssumption DEF ActorsAssumption, NoneAssumption
<1>1. /\ LocalsOK /\ manifests \in [Keys -> Sessions \cup {None}] /\ key[s] \in Keys
      /\ manifests[key[s]] = man[s] /\ keyLock[key[s]] = s
  BY DEF Basic, TypeOK, DataTypeOK, LocalsOK, ReadsStable, LocksHeld
<1>2. ~Committed(s)
  BY DEF Committed, Replacing, ReleasePc
<1>3. man[s] \in Sessions /\ Committed(man[s]) /\ man[s] # s /\ ~Stored(s) /\ Stored(man[s])
  BY <1>1, <1>2 DEF OnlyCommitted, Stored
<1>4. ASSUME NEW k \in Keys, manifests[k] = man[s] PROVE k = key[s]
  <2>1. SUFFICES ASSUME k # key[s] PROVE FALSE
    OBVIOUS
  <2>2. PICK t \in Callers : pc[t] = "rdel" /\ {k, key[s]} = {key[t], dest[t]}
    BY <1>1, <1>3, <1>4, <2>1 DEF OneName
  <2>3. key[s] \in {key[t], dest[t]}
    BY <2>2
  <2> QED
    BY <1>1, <2>2, <2>3 DEF LocksHeld
<1>5. ASSUME NEW a \in Actors, pc[a] \in ReleasePc, man[a] = man[s] PROVE FALSE
  <2>1. CASE a \in Callers
    <3>1. manifests[key[a]] = man[s] /\ key[a] \in Keys /\ keyLock[key[a]] = a
      BY <1>1, <1>5, <2>1 DEF ReadsStable, LocksHeld, Deleting, LocalsOK, ReleasePc
    <3> QED
      BY <1>1, <1>4, <2>1, <3>1
  <2>2. CASE a \in Sessions
    BY <1>3, <1>5, <2>2 DEF ReplacedOnce, Replacing, Committed, ReleasePc
  <2> QED
    BY <2>1, <2>2
<1> QED
  BY <1>3, <1>4, <1>5

\* So it is after every step.
LEMMA ReplacedOnceNext ==
  Basic /\ LocksHeld /\ ReadsStable /\ OnlyCommitted /\ OneName /\ ReplacedOnce /\ [Next]_vars
    => ReplacedOnce'
<1> SUFFICES ASSUME Basic, LocksHeld, ReadsStable, OnlyCommitted, OneName, ReplacedOnce, [Next]_vars
             PROVE  ReplacedOnce'
  OBVIOUS
<1> USE ActorsAssumption, NoneAssumption DEF ActorsAssumption, NoneAssumption
<1>a. LocalsOK /\ ActorTypeOK /\ DataTypeOK
  BY DEF Basic, TypeOK
<1>b. /\ pc \in [Actors -> SessionPc \cup CallerPc] /\ man \in [Actors -> Sessions \cup {None}]
      /\ key \in [Actors -> Keys \cup {None}] /\ manifests \in [Keys -> Sessions \cup {None}]
  BY <1>a DEF ActorTypeOK, DataTypeOK
<1>c. LocalsOK /\ ReadsStable
  BY <1>a
<1>d. \A s \in Sessions : pc[s] \in {"open", "write", "addref", "put"} => ~Committed(s)
  BY DEF Committed, Replacing, ReleasePc
<1> USE <1>b, <1>c, <1>d DEF ReadsStable, LocalsOK, ReleasePc, Goto, dataVars, localVars, histVars
<1>1. ASSUME NEW s \in Sessions, SessionStep(s) PROVE ReplacedOnce'
  <2>1. CASE \E k \in Keys : BeginStore(s, k)
    BY <2>1, ReplacedFrame DEF Stored, BeginStore
  <2>2. CASE \E c \in Chunks : FlushChunk(s, c)
    BY <2>2, ReplacedFrame DEF Stored, FlushChunk
  <2>3. CASE WriteChunk(s)
    BY <2>3, ReplacedFrame DEF Stored, WriteChunk
  <2>4. CASE AddChunkRef(s)
    BY <2>4, ReplacedFrame DEF Stored, AddChunkRef
  <2>5. CASE Finish(s)
    BY <2>5, ReplacedFrame DEF Stored, Finish
  <2>6. CASE LockCommit(s)
    BY <2>6, ReplacedFrame DEF Stored, LockCommit
  <2>7. CASE PutManifest(s)
    <3>1. CASE Return(s, "done")
      BY <3>1, <2>7, ReturnReplaced DEF Stored, PutManifest
    <3>2. CASE ~Return(s, "done")
      <4>1. /\ pc[s] = "put" /\ man[s] # None /\ pc' = [pc EXCEPT ![s] = "release"]
            /\ man' = [man EXCEPT ![s] = man[s]] /\ manifests' = [manifests EXCEPT ![key[s]] = s]
            /\ damaged' = damaged /\ key[s] \in Keys
        BY <2>7, <3>2 DEF PutManifest, StartRelease
      <4> HIDE DEF ReadsStable, LocalsOK
      <4> SUFFICES ASSUME NEW r \in Sessions, pc'[r] \in ReleasePc, man'[r] # r, man'[r] \notin damaged
                   PROVE  /\ ~Stored(man[r])'
                          /\ \A a \in Actors : pc'[a] \in ReleasePc /\ man'[a] = man'[r] => a = r
        BY <4>1 DEF ReplacedOnce, Replacing
      <4>2. man' = man /\ (\A a \in Actors : a # s /\ pc'[a] \in ReleasePc => pc[a] \in ReleasePc)
        BY <4>1
      <4>3. CASE r = s
        BY <4>1, <4>2, <4>3, PutReplaces DEF Stored
      <4>4. CASE r # s
        <5>1. /\ Replacing(r) /\ man[r] \notin damaged /\ Committed(man[r]) /\ ~Stored(man[r])
              /\ \A a \in Actors : pc[a] \in ReleasePc /\ man[a] = man[r] => a = r
          BY <4>2, <4>4 DEF ReplacedOnce, Replacing, OnlyCommitted
        <5>2. man[r] # s
          BY <4>1, <5>1
        <5>3. man[r] # man[s]
          BY <4>1, <5>1 DEF Stored, ReadsStable
        <5> QED
          BY <4>1, <4>2, <5>1, <5>2, <5>3 DEF Stored
      <4> QED
        BY <4>3, <4>4
    <3> QED
      BY <3>1, <3>2
  <2>8. CASE Abort(s)
    BY <2>8, ReplacedFrame DEF Stored, Abort, StartRelease
  <2> QED
    BY <1>1, <2>1, <2>2, <2>3, <2>4, <2>5, <2>6, <2>7, <2>8 DEF SessionStep
<1>2. ASSUME NEW t \in Callers, CallerStep(t) PROVE ReplacedOnce'
  <2>1. CASE \E k \in Keys : DeleteCall(t, k)
    BY <2>1, ReplacedFrame DEF Stored, DeleteCall
  <2>2. CASE DeleteLock(t)
    <3>1. CASE Return(t, "idle")
      BY <3>1, <2>2, ReturnReplaced DEF Stored, DeleteLock
    <3>2. CASE ~Return(t, "idle")
      BY <2>2, <3>2, ReplacedFrame DEF Stored, DeleteLock, StartRelease
    <3> QED
      BY <3>1, <3>2
  <2>3. CASE \E from, to \in Keys : RenameCall(t, from, to)
    BY <2>3, ReplacedFrame DEF Stored, RenameCall
  <2>4. CASE RenameLockFirst(t)
    BY <2>4, ReplacedFrame DEF Stored, RenameLockFirst
  <2>5. CASE RenameLockSecond(t)
    <3>1. CASE Return(t, "idle")
      BY <3>1, <2>5, ReturnReplaced DEF Stored, RenameLockSecond
    <3>2. CASE ~Return(t, "idle")
      BY <2>5, <3>2, ReplacedFrame DEF Stored, RenameLockSecond
    <3> QED
      BY <3>1, <3>2
  <2>6. CASE RenamePut(t)
    BY <2>6, ReplacedFrame DEF Stored, RenamePut
  <2>7. CASE RenameDelete(t)
    BY <2>7, ReturnReplaced DEF Stored, RenameDelete
  <2> QED
    BY <1>2, <2>1, <2>2, <2>3, <2>4, <2>5, <2>6, <2>7 DEF CallerStep
<1>3. ASSUME NEW a \in Actors, ReleaseStep(a) PROVE ReplacedOnce'
  <2>1. CASE DecrementChunkRef(a)
    BY <2>1, ReplacedFrame DEF Stored, DecrementChunkRef
  <2>2. CASE DeleteChunkCheck(a)
    BY <2>2, ReplacedFrame DEF Stored, DeleteChunkCheck, Continue
  <2>3. CASE DeleteChunk(a)
    BY <2>3, ReplacedFrame DEF Stored, DeleteChunk, Continue
  <2>4. CASE DeleteChunkGone(a)
    <3>1. CASE a \in Callers
      BY <3>1, <2>4, ReturnReplaced DEF Stored, DeleteChunkGone
    <3>2. CASE a \in Sessions
      BY <2>4, <3>2, ReplacedFrame DEF Stored, DeleteChunkGone, Continue
    <3> QED
      BY <3>1, <3>2
  <2>5. CASE ReleaseDone(a)
    BY <2>5, ReturnReplaced DEF Stored, ReleaseDone
  <2> QED
    BY <1>3, <2>1, <2>2, <2>3, <2>4, <2>5 DEF ReleaseStep
<1>4. CASE GcStep \/ (\E c \in Chunks : Age(c)) \/ UNCHANGED vars
  BY <1>4, Quiet, ReplacedFrame DEF Stored
<1>5. CASE FaultStep
  <2>1. ASSUME NEW s \in Sessions, FlushFails(s) PROVE ReplacedOnce'
    <3>1. CASE Return(s, "lost")
      BY <3>1, <2>1, ReturnReplaced DEF Stored, FlushFails
    <3>2. CASE ~Return(s, "lost")
      BY <2>1, <3>2, ReplacedFrame DEF Stored, FlushFails, StartRelease
    <3> QED
      BY <3>1, <3>2
  <2>2. ASSUME NEW s \in Sessions, CommitFails(s) PROVE ReplacedOnce'
    BY <2>2, ReturnReplaced DEF Stored, CommitFails
  <2>3. ASSUME NEW a \in Actors, ReleaseFails(a) PROVE ReplacedOnce'
    <3>1. CASE Continue(a)
      BY <2>3, <3>1, ReplacedFrame DEF Stored, ReleaseFails, Continue
    <3>2. CASE ~Continue(a)
      BY <2>3, <3>2, ReturnReplaced DEF Stored, ReleaseFails, Aborting
    <3> QED
      BY <3>1, <3>2
  <2>4. ASSUME NEW t \in Callers, RenameFails(t) PROVE ReplacedOnce'
    BY <2>4, ReturnReplaced DEF Stored, RenameFails
  <2>5. CASE Crash
    BY <2>5, ReplacedFrame DEF Crash, Stored, Aborting
  <2> QED
    BY <1>5, <2>1, <2>2, <2>3, <2>4, <2>5 DEF FaultStep
<1> QED
  BY <1>1, <1>2, <1>3, <1>4, <1>5 DEF Next

-----------------------------------------------------------------------------
(* References that are held *)

\* No two actors release the same object.
LEMMA ReleaseExclusive ==
  ASSUME Basic, LocksHeld, ReadsStable, OnlyCommitted, OneName, ReplacedOnce,
         NEW a \in Actors, NEW b \in Actors, pc[a] \in ReleasePc, pc[b] \in ReleasePc,
         man[a] = man[b], man[a] \notin damaged
  PROVE  a = b
<1> USE ActorsAssumption DEF ActorsAssumption
<1>1. LocalsOK
  BY DEF Basic
<1>2. CASE a \in Sessions /\ man[a] # a
  BY <1>2 DEF ReplacedOnce, Replacing
<1>3. CASE b \in Sessions /\ man[b] # b
  BY <1>3 DEF ReplacedOnce, Replacing
<1>4. CASE man[a] = a \/ man[b] = b
  <2>1. ASSUME NEW x \in Sessions, NEW y \in Actors, pc[x] \in ReleasePc, pc[y] \in ReleasePc,
               man[x] = x, man[y] = x
        PROVE  y = x
    BY <2>1 DEF OnlyCommitted, Committed, Replacing, ReleasePc
  <2> QED
    BY <1>1, <1>4, <2>1 DEF LocalsOK
<1>5. CASE a \in Callers /\ b \in Callers
  <2>1. /\ manifests[key[a]] = man[a] /\ key[a] \in Keys /\ keyLock[key[a]] = a
        /\ manifests[key[b]] = man[a] /\ key[b] \in Keys /\ keyLock[key[b]] = b /\ man[a] \in Sessions
    BY <1>1, <1>5 DEF LocalsOK, ReadsStable, LocksHeld, Deleting, ReleasePc
  <2>2. CASE key[a] # key[b]
    <3>1. PICK t \in Callers : pc[t] = "rdel" /\ {key[a], key[b]} = {key[t], dest[t]}
      BY <2>1, <2>2 DEF OneName
    <3>2. key[a] \in {key[t], dest[t]} /\ key[b] \in {key[t], dest[t]}
      BY <3>1
    <3> QED
      BY <2>1, <3>1, <3>2 DEF LocksHeld, ReleasePc
  <2> QED
    BY <2>1, <2>2
<1> QED
  BY <1>2, <1>3, <1>4, <1>5

\* Under its key's lock a stored object nobody is deleting holds everything.
LEMMA LockedHeld ==
  ASSUME Basic, LocksHeld, StoredHeld, NEW k \in Keys, manifests[k] # None, manifests[k] \notin damaged,
         ~\E t \in Callers : keyLock[k] = t /\ Deleting(t)
  PROVE  References(manifests[k]) \subseteq held
  BY DEF Basic, TypeOK, DataTypeOK, StoredHeld, LocksHeld

\* Steps that release nothing themselves: releases only advance, or start on an
\* object that holds all its references.
LEMMA HeldFrame ==
  ASSUME Basic, ReferencesHeld, held' = held, chunks' = chunks, damaged \subseteq damaged',
         \A s \in Sessions : UnderWay(s)' => UnderWay(s),
         \A a \in Actors : pc'[a] \in ReleasePc /\ man'[a] \notin damaged' =>
           \/ /\ pc[a] \in ReleasePc /\ man'[a] = man[a]
              /\ pos'[a] = pos[a] + 1 \/ (pos'[a] = pos[a] /\ (pc'[a] = "release" => pc[a] = "release"))
           \/ man'[a] \in Sessions /\ References(man'[a]) \subseteq held
  PROVE  ReferencesHeld'
<1>1. /\ pos \in [Actors -> Nat \ {0}] /\ LocalsOK
  BY DEF Basic, TypeOK, ActorTypeOK
<1>2. ASSUME NEW s \in Sessions, UnderWay(s)' PROVE (References(s) \subseteq held)'
  BY <1>2 DEF ReferencesHeld, References
<1>3. ASSUME NEW a \in Actors, pc'[a] \in ReleasePc, man'[a] \notin damaged', NEW i \in Ahead(a)'
      PROVE  <<man'[a], i>> \in held'
  <2>1. i \in 1..Len(chunks[man'[a]]) /\ (i > pos'[a] \/ (i = pos'[a] /\ pc'[a] = "release"))
    BY <1>3 DEF Ahead
  <2>2. CASE man'[a] \in Sessions /\ References(man'[a]) \subseteq held
    BY <2>1, <2>2 DEF References
  <2>3. CASE /\ pc[a] \in ReleasePc /\ man'[a] = man[a]
             /\ pos'[a] = pos[a] + 1 \/ (pos'[a] = pos[a] /\ (pc'[a] = "release" => pc[a] = "release"))
    <3>1. i > pos[a] \/ (i = pos[a] /\ pc[a] = "release")
      BY <1>1, <2>1, <2>3
    <3>2. i \in Ahead(a)
      BY <2>1, <2>3, <3>1 DEF Ahead
    <3> QED
      BY <1>3, <2>3, <3>2 DEF ReferencesHeld
  <2> QED
    BY <1>3, <2>2, <2>3
<1> QED
  BY <1>2, <1>3 DEF ReferencesHeld, Ahead

\* A return leaves to every object in hand the references it has.
LEMMA ReturnHeld ==
  ASSUME Basic, ReferencesHeld, NEW a \in Actors, NEW label, Return(a, label),
         label \in {"done", "lost", "idle"}, held' = held, damaged \subseteq damaged'
  PROVE  ReferencesHeld'
<1>1. /\ \A b \in Actors \ {a} : LocalsSame(b)
      /\ pc'[a] = label /\ chunks' = chunks
  BY ReturnLocals DEF Basic, TypeOK
<1> QED
  BY <1>1, HeldFrame DEF LocalsSame, UnderWay, ReleasePc

\* A session takes the reference at the end of its list, which it did not hold.
LEMMA AddHeld ==
  ASSUME Basic, OnlyCommitted, ReferencesHeld, NEW s \in Sessions, AddChunkRef(s)
  PROVE  /\ ReferencesHeld'
         /\ <<s, Len(chunks[s]) + 1>> \notin held
         /\ Len(chunks'[s]) = Len(chunks[s]) + 1 /\ chunks'[s][Len(chunks[s]) + 1] = cur[s]
         /\ \A u \in Sessions : \A i \in 1..Len(chunks[u]) :
              chunks'[u][i] = chunks[u][i] /\ i <= Len(chunks'[u])
<1>1. /\ chunks \in [Sessions -> Seq(Chunks)] /\ pc \in [Actors -> SessionPc \cup CallerPc]
      /\ held \subseteq Sessions \X (Nat \ {0}) /\ pc[s] = "addref" /\ cur[s] \in Chunks
      /\ LocalsOK
  BY DEF Basic, TypeOK, ActorTypeOK, DataTypeOK, LocalsOK, AddChunkRef
<1>2. /\ chunks' = [chunks EXCEPT ![s] = Append(@, cur[s])]
      /\ held' = held \cup {<<s, Len(chunks[s]) + 1>>}
      /\ pc' = [pc EXCEPT ![s] = "open"] /\ UNCHANGED <<man, pos, damaged>>
  BY DEF AddChunkRef, Goto
<1>3. /\ Len(chunks'[s]) = Len(chunks[s]) + 1 /\ chunks'[s][Len(chunks[s]) + 1] = cur[s]
      /\ \A i \in 1..Len(chunks[s]) : chunks'[s][i] = chunks[s][i]
      /\ Len(chunks[s]) \in Nat
  BY <1>1, <1>2
<1>4. \A u \in Sessions \ {s} : chunks'[u] = chunks[u]
  BY <1>1, <1>2
<1>5. <<s, Len(chunks[s]) + 1>> \notin held
  BY <1>3 DEF ReferencesHeld
<1>6. \A r \in held' : r[2] <= Len(chunks'[r[1]])
  BY <1>1, <1>2, <1>3, <1>4 DEF ReferencesHeld
<1>7. ASSUME NEW u \in Sessions, UnderWay(u)' PROVE (References(u) \subseteq held)'
  <2>1. CASE u = s
    <3>1. References(s) \subseteq held
      BY <1>1 DEF ReferencesHeld, UnderWay
    <3> QED
      BY <1>2, <1>3, <2>1, <3>1 DEF References
  <2>2. CASE u # s
    BY <1>1, <1>2, <1>4, <1>7, <2>2 DEF ReferencesHeld, UnderWay, References
  <2> QED
    BY <2>1, <2>2
<1>8. ASSUME NEW a \in Actors, pc'[a] \in ReleasePc, man'[a] \notin damaged', NEW i \in Ahead(a)'
      PROVE  <<man'[a], i>> \in held'
  <2>1. a # s /\ pc[a] = pc'[a] /\ man[a] \in Sessions
    BY <1>1, <1>2, <1>8 DEF ReleasePc, LocalsOK
  <2>2. man[a] # s
    BY <1>1, <2>1, <1>8 DEF OnlyCommitted, Committed, Replacing, ReleasePc
  <2>3. i \in Ahead(a)
    BY <1>2, <1>4, <1>8, <2>1, <2>2 DEF Ahead
  <2> QED
    BY <1>2, <1>8, <2>1, <2>3 DEF ReferencesHeld
<1> QED
  BY <1>3, <1>4, <1>5, <1>6, <1>7, <1>8, SMTT(40) DEF ReferencesHeld, Ahead

\* A release drops a reference that is held, and no other actor counts on it.
LEMMA DecrementHeld ==
  ASSUME Basic, LocksHeld, ReadsStable, OnlyCommitted, OneName, ReplacedOnce, ReferencesHeld,
         NEW a \in Actors, DecrementChunkRef(a)
  PROVE  /\ ReferencesHeld'
         /\ man[a] \notin damaged => <<man[a], pos[a]>> \in held
<1>1. /\ chunks \in [Sessions -> Seq(Chunks)] /\ pc \in [Actors -> SessionPc \cup CallerPc]
      /\ pos \in [Actors -> Nat \ {0}]
      /\ held \subseteq Sessions \X (Nat \ {0}) /\ pc[a] = "release" /\ pos[a] <= Len(chunks[man[a]])
      /\ man[a] \in Sessions
  BY DEF Basic, TypeOK, ActorTypeOK, DataTypeOK, LocalsOK, DecrementChunkRef, ReleasePc
<1>2. /\ held' = held \ {<<man[a], pos[a]>>} /\ UNCHANGED <<chunks, man, damaged>>
      /\ \/ pc' = [pc EXCEPT ![a] = "check"] /\ pos' = pos
         \/ pc' = pc /\ pos' = [pos EXCEPT ![a] = @ + 1]
  BY DEF DecrementChunkRef, Goto
<1>3. man[a] \notin damaged => <<man[a], pos[a]>> \in held
  BY <1>1 DEF ReferencesHeld, Ahead, ReleasePc
<1>4. \A r \in held' : r[2] <= Len(chunks'[r[1]])
  BY <1>2 DEF ReferencesHeld
<1>5. ASSUME NEW s \in Sessions, UnderWay(s)' PROVE (References(s) \subseteq held)'
  <2>1. UnderWay(s) /\ pc[s] = pc'[s]
    BY <1>1, <1>2, <1>5 DEF UnderWay
  <2>2. man[a] # s
    BY <1>1, <2>1 DEF OnlyCommitted, Committed, Replacing, ReleasePc, UnderWay
  <2> QED
    BY <1>2, <2>1, <2>2 DEF ReferencesHeld, References
<1>6. ASSUME NEW b \in Actors, pc'[b] \in ReleasePc, man'[b] \notin damaged', NEW i \in Ahead(b)'
      PROVE  <<man'[b], i>> \in held'
  <2>1. pc[b] \in ReleasePc
    BY <1>1, <1>2, <1>6 DEF ReleasePc
  <2>2. CASE b = a
    <3>1. i \in 1..Len(chunks[man[a]]) /\ i > pos[a]
      BY <1>1, <1>2, <1>6, <2>2 DEF Ahead
    <3>2. i \in Ahead(a) /\ i # pos[a]
      BY <1>1, <3>1 DEF Ahead
    <3> QED
      BY <1>2, <1>6, <2>1, <2>2, <3>2 DEF ReferencesHeld
  <2>3. CASE b # a
    <3>1. man[b] # man[a]
      BY <1>1, <1>2, <1>6, <2>1, <2>3, ReleaseExclusive DEF ReleasePc
    <3>2. i \in Ahead(b)
      BY <1>1, <1>2, <1>6, <2>3 DEF Ahead
    <3> QED
      BY <1>2, <1>6, <2>1, <3>1, <3>2 DEF ReferencesHeld
  <2> QED
    BY <2>2, <2>3
<1> QED
  BY <1>3, <1>4, <1>5, <1>6 DEF ReferencesHeld, Ahead

\* An actor starts on an object that holds all its references.
LEMMA StartHeld ==
  ASSUME Basic, ReferencesHeld, NEW a \in Actors, NEW m \in Sessions, StartRelease(a, m),
         held' = held, chunks' = chunks, damaged' = damaged,
         m \in damaged \/ References(m) \subseteq held
  PROVE  ReferencesHeld'
<1>1. /\ pc \in [Actors -> SessionPc \cup CallerPc] /\ man \in [Actors -> Sessions \cup {None}]
      /\ pos \in [Actors -> Nat \ {0}]
  BY DEF Basic, TypeOK, ActorTypeOK
<1>2. /\ pc' = [pc EXCEPT ![a] = "release"] /\ man' = [man EXCEPT ![a] = m]
      /\ pos' = [pos EXCEPT ![a] = 1]
  BY DEF StartRelease, Goto
<1> QED
  BY <1>1, <1>2, HeldFrame DEF UnderWay

\* So does every step.
LEMMA ReferencesHeldNext ==
  /\ Basic /\ LocksHeld /\ ReadsStable /\ OnlyCommitted /\ OneName /\ ReplacedOnce
  /\ ReferencesHeld /\ StoredHeld /\ [Next]_vars
  => ReferencesHeld'
<1> SUFFICES ASSUME Basic, LocksHeld, ReadsStable, OnlyCommitted, OneName, ReplacedOnce,
                    ReferencesHeld, StoredHeld, [Next]_vars
             PROVE  ReferencesHeld'
  OBVIOUS
<1> USE ActorsAssumption, NoneAssumption DEF ActorsAssumption, NoneAssumption
<1>a. LocalsOK /\ ActorTypeOK /\ DataTypeOK
  BY DEF Basic, TypeOK
<1>b. /\ pc \in [Actors -> SessionPc \cup CallerPc] /\ man \in [Actors -> Sessions \cup {None}]
      /\ pos \in [Actors -> Nat \ {0}] /\ manifests \in [Keys -> Sessions \cup {None}]
      /\ keyLock \in [Keys -> Actors \cup {None}]
  BY <1>a DEF ActorTypeOK, DataTypeOK
<1>c. LocalsOK
  BY <1>a
<1>d. \A s \in Sessions : UnderWay(s) => References(s) \subseteq held
  BY DEF ReferencesHeld
<1> USE <1>b, <1>c, <1>d DEF LocalsOK, ReleasePc, Goto, dataVars, localVars, histVars
<1>1. ASSUME NEW s \in Sessions, SessionStep(s) PROVE ReferencesHeld'
  <2>1. CASE \E k \in Keys : BeginStore(s, k)
    BY <2>1, HeldFrame DEF UnderWay, BeginStore
  <2>2. CASE \E c \in Chunks : FlushChunk(s, c)
    BY <2>2, HeldFrame DEF UnderWay, FlushChunk
  <2>3. CASE WriteChunk(s)
    BY <2>3, HeldFrame DEF UnderWay, WriteChunk
  <2>4. CASE AddChunkRef(s)
    BY <2>4, AddHeld
  <2>5. CASE Finish(s)
    BY <2>5, HeldFrame DEF UnderWay, Finish
  <2>6. CASE LockCommit(s)
    BY <2>6, HeldFrame DEF UnderWay, LockCommit
  <2>7. CASE PutManifest(s)
    <3>1. CASE Return(s, "done")
      BY <3>1, <2>7, ReturnHeld DEF UnderWay, PutManifest
    <3>2. CASE ~Return(s, "done")
      <4>1. /\ StartRelease(s, man[s]) /\ pc[s] = "put" /\ man[s] \in Sessions /\ key[s] \in Keys
            /\ UNCHANGED <<held, chunks, damaged>>
        BY <2>7, <3>2 DEF PutManifest
      <4>2. manifests[key[s]] = man[s] /\ keyLock[key[s]] = s
        BY <4>1 DEF ReadsStable, LocksHeld
      <4> QED
        BY <4>1, <4>2, LockedHeld, StartHeld
    <3> QED
      BY <3>1, <3>2
  <2>8. CASE Abort(s)
    BY <2>8, HeldFrame DEF UnderWay, Abort, StartRelease
  <2> QED
    BY <1>1, <2>1, <2>2, <2>3, <2>4, <2>5, <2>6, <2>7, <2>8 DEF SessionStep
<1>2. ASSUME NEW t \in Callers, CallerStep(t) PROVE ReferencesHeld'
  <2>1. CASE \E k \in Keys : DeleteCall(t, k)
    BY <2>1, HeldFrame DEF UnderWay, DeleteCall
  <2>2. CASE DeleteLock(t)
    <3>1. CASE Return(t, "idle")
      BY <3>1, <2>2, ReturnHeld DEF UnderWay, DeleteLock
    <3>2. CASE ~Return(t, "idle")
      <4>1. /\ StartRelease(t, manifests[key[t]]) /\ manifests[key[t]] # None /\ key[t] \in Keys
            /\ keyLock[key[t]] = None /\ UNCHANGED <<held, chunks, damaged>>
        BY <2>2, <3>2 DEF DeleteLock
      <4> QED
        BY <4>1, LockedHeld, StartHeld
    <3> QED
      BY <3>1, <3>2
  <2>3. CASE \E from, to \in Keys : RenameCall(t, from, to)
    BY <2>3, HeldFrame DEF UnderWay, RenameCall
  <2>4. CASE RenameLockFirst(t)
    BY <2>4, HeldFrame DEF UnderWay, RenameLockFirst
  <2>5. CASE RenameLockSecond(t)
    <3>1. CASE Return(t, "idle")
      BY <3>1, <2>5, ReturnHeld DEF UnderWay, RenameLockSecond
    <3>2. CASE ~Return(t, "idle")
      BY <2>5, <3>2, HeldFrame DEF UnderWay, RenameLockSecond
    <3> QED
      BY <3>1, <3>2
  <2>6. CASE RenamePut(t)
    BY <2>6, HeldFrame DEF UnderWay, RenamePut
  <2>7. CASE RenameDelete(t)
    BY <2>7, ReturnHeld DEF UnderWay, RenameDelete
  <2> QED
    BY <1>2, <2>1, <2>2, <2>3, <2>4, <2>5, <2>6, <2>7 DEF CallerStep
<1>3. ASSUME NEW a \in Actors, ReleaseStep(a) PROVE ReferencesHeld'
  <2>1. CASE DecrementChunkRef(a)
    BY <2>1, DecrementHeld
  <2>2. CASE DeleteChunkCheck(a)
    BY <2>2, HeldFrame DEF UnderWay, DeleteChunkCheck, Continue
  <2>3. CASE DeleteChunk(a)
    BY <2>3, HeldFrame DEF UnderWay, DeleteChunk, Continue
  <2>4. CASE DeleteChunkGone(a)
    <3>1. CASE a \in Callers
      BY <3>1, <2>4, ReturnHeld DEF UnderWay, DeleteChunkGone
    <3>2. CASE a \in Sessions
      BY <2>4, <3>2, HeldFrame DEF UnderWay, DeleteChunkGone, Continue
    <3> QED
      BY <3>1, <3>2
  <2>5. CASE ReleaseDone(a)
    BY <2>5, ReturnHeld DEF UnderWay, ReleaseDone
  <2> QED
    BY <1>3, <2>1, <2>2, <2>3, <2>4, <2>5 DEF ReleaseStep
<1>4. CASE GcStep \/ (\E c \in Chunks : Age(c)) \/ UNCHANGED vars
  BY <1>4, Quiet, HeldFrame DEF UnderWay
<1>5. CASE FaultStep
  <2>1. ASSUME NEW s \in Sessions, FlushFails(s) PROVE ReferencesHeld'
    <3>1. CASE Return(s, "lost")
      BY <3>1, <2>1, ReturnHeld DEF UnderWay, FlushFails
    <3>2. CASE ~Return(s, "lost")
      BY <2>1, <3>2, HeldFrame DEF UnderWay, FlushFails, StartRelease
    <3> QED
      BY <3>1, <3>2
  <2>2. ASSUME NEW s \in Sessions, CommitFails(s) PROVE ReferencesHeld'
    BY <2>2, ReturnHeld DEF UnderWay, CommitFails
  <2>3. ASSUME NEW a \in Actors, ReleaseFails(a) PROVE ReferencesHeld'
    <3>1. CASE Continue(a)
      BY <2>3, <3>1, HeldFrame DEF UnderWay, ReleaseFails, Continue
    <3>2. CASE ~Continue(a)
      BY <2>3, <3>2, ReturnHeld DEF UnderWay, ReleaseFails, Aborting
    <3> QED
      BY <3>1, <3>2
  <2>4. ASSUME NEW t \in Callers, RenameFails(t) PROVE ReferencesHeld'
    BY <2>4, ReturnHeld DEF UnderWay, RenameFails
  <2>5. CASE Crash
    BY <2>5, HeldFrame DEF Crash, UnderWay
  <2> QED
    BY <1>5, <2>1, <2>2, <2>3, <2>4, <2>5 DEF FaultStep
<1> QED
  BY <1>1, <1>2, <1>3, <1>4, <1>5 DEF Next

\* Steps that drop no reference, put only whole objects under keys and leave a
\* running delete only when the object is gone or damaged.
LEMMA StoredFrame ==
  ASSUME Basic, StoredHeld, held' = held, chunks' = chunks, damaged \subseteq damaged',
         \A k \in Keys : manifests'[k] \in {manifests[k], None} \cup damaged'
                          \/ References(manifests'[k]) \subseteq held,
         \A t \in Callers : Deleting(t) /\ man[t] \notin damaged' =>
           \/ Deleting(t)' /\ key'[t] = key[t] /\ man'[t] = man[t]
           \/ manifests'[key[t]] # man[t]
  PROVE  StoredHeld'
<1> SUFFICES ASSUME NEW k \in Keys, NEW u \in Sessions \ damaged', manifests'[k] = u,
                    ~(References(u) \subseteq held)
             PROVE  \E t \in Callers : Deleting(t)' /\ key'[t] = k /\ man'[t] = u
  BY DEF StoredHeld, References
<1>1. manifests[k] = u
  BY NoneAssumption DEF NoneAssumption
<1>2. PICK t \in Callers : Deleting(t) /\ key[t] = k /\ man[t] = u
  BY <1>1 DEF StoredHeld
<1> QED
  BY <1>2

\* A return leaves to every stored object its references.
LEMMA ReturnStored ==
  ASSUME Basic, StoredHeld, NEW a \in Actors, NEW label, Return(a, label),
         label \in {"done", "lost", "idle"}, held' = held, damaged \subseteq damaged',
         \A k \in Keys : manifests'[k] \in {manifests[k], None}
                          \/ References(manifests'[k]) \subseteq held,
         Deleting(a) => man[a] \in damaged' \/ manifests'[key[a]] # man[a]
  PROVE  StoredHeld'
<1>1. /\ \A b \in Actors \ {a} : LocalsSame(b)
      /\ pc'[a] = label /\ chunks' = chunks
  BY ReturnLocals DEF Basic, TypeOK
<1> QED
  BY <1>1, StoredFrame DEF LocalsSame, Deleting, ReleasePc

\* So does a reference that is taken.
LEMMA AddStored ==
  ASSUME Basic, OnlyCommitted, ReferencesHeld, StoredHeld, NEW s \in Sessions, AddChunkRef(s)
  PROVE  StoredHeld'
<1>1. /\ chunks' = [chunks EXCEPT ![s] = Append(@, cur[s])] /\ held \subseteq held'
      /\ pc[s] = "addref" /\ pc' = [pc EXCEPT ![s] = "open"] /\ UNCHANGED <<manifests, key, man, damaged>>
      /\ chunks \in [Sessions -> Seq(Chunks)] /\ pc \in [Actors -> SessionPc \cup CallerPc]
  BY DEF AddChunkRef, Goto, Basic, TypeOK, ActorTypeOK
<1>2. \A k \in Keys : manifests[k] # s
  BY <1>1, NoneAssumption DEF NoneAssumption, OnlyCommitted, Committed, Replacing, ReleasePc
<1>3. \A u \in Sessions \ {s} : chunks'[u] = chunks[u]
  BY <1>1
<1>4. \A t \in Callers : Deleting(t) => Deleting(t)'
  BY <1>1 DEF Deleting, ReleasePc
<1> SUFFICES ASSUME NEW k \in Keys, NEW u \in Sessions \ damaged', manifests'[k] = u,
                    ~({u} \X (1..Len(chunks'[u])) \subseteq held')
             PROVE  \E t \in Callers : Deleting(t)' /\ key'[t] = k /\ man'[t] = u
  BY DEF StoredHeld, References
<1>5. ~(References(u) \subseteq held)
  BY <1>1, <1>2, <1>3 DEF References
<1>6. PICK t \in Callers : Deleting(t) /\ key[t] = k /\ man[t] = u
  BY <1>1, <1>5, SMTT(40) DEF StoredHeld
<1> QED
  BY <1>1, <1>4, <1>6

\* So does one that is dropped: it is that of an object no longer stored.
LEMMA DecrementStored ==
  ASSUME Basic, LocksHeld, ReadsStable, OnlyCommitted, OneName, ReplacedOnce, StoredHeld,
         NEW a \in Actors, DecrementChunkRef(a)
  PROVE  StoredHeld'
<1> USE ActorsAssumption, NoneAssumption DEF ActorsAssumption, NoneAssumption
<1>1. /\ pc \in [Actors -> SessionPc \cup CallerPc] /\ pc[a] = "release" /\ man[a] \in Sessions
      /\ a \in Callers => key[a] \in Keys
  BY DEF Basic, TypeOK, ActorTypeOK, LocalsOK, DecrementChunkRef, ReleasePc
<1>2. /\ held' = held \ {<<man[a], pos[a]>>} /\ UNCHANGED <<manifests, chunks, key, man, damaged>>
      /\ pc' = [pc EXCEPT ![a] = "check"] \/ pc' = pc
  BY DEF DecrementChunkRef, Goto
<1>3. \A t \in Callers : Deleting(t) => Deleting(t)'
  BY <1>1, <1>2 DEF Deleting, ReleasePc
<1>4. ASSUME NEW k \in Keys, manifests[k] = man[a], man[a] \notin damaged
      PROVE  a \in Callers /\ key[a] = k
  <2>1. a \in Callers
    <3>1. CASE a \in Sessions /\ man[a] = a
      BY <1>1, <1>4, <3>1 DEF OnlyCommitted, Committed, Replacing, ReleasePc
    <3>2. CASE a \in Sessions /\ man[a] # a
      BY <1>1, <1>4, <3>2 DEF ReplacedOnce, Replacing, ReleasePc, Stored
    <3> QED
      BY <3>1, <3>2
  <2>2. manifests[key[a]] = man[a] /\ keyLock[key[a]] = a
    BY <1>1, <2>1 DEF ReadsStable, LocksHeld, Deleting, ReleasePc
  <2>3. ASSUME key[a] # k PROVE FALSE
    <3>1. PICK t \in Callers : pc[t] = "rdel" /\ {k, key[a]} = {key[t], dest[t]}
      BY <1>1, <1>4, <2>1, <2>2, <2>3 DEF OneName
    <3>2. key[a] \in {key[t], dest[t]}
      BY <3>1
    <3> QED
      BY <1>1, <2>2, <3>1, <3>2 DEF LocksHeld
  <2> QED
    BY <2>1, <2>3
<1> SUFFICES ASSUME NEW k \in Keys, NEW u \in Sessions \ damaged, manifests[k] = u,
                    ~(References(u) \subseteq held')
             PROVE  \E t \in Callers : Deleting(t)' /\ key[t] = k /\ man[t] = u
  BY <1>2 DEF StoredHeld, References
<1>5. CASE u = man[a]
  <2>1. a \in Callers /\ key[a] = k
    BY <1>4, <1>5
  <2> QED
    BY <1>1, <1>3, <1>5, <2>1 DEF Deleting, ReleasePc
<1>6. CASE u # man[a]
  <2>1. ~(References(u) \subseteq held)
    BY <1>2, <1>6 DEF References
  <2>2. PICK t \in Callers : Deleting(t) /\ key[t] = k /\ man[t] = u
    BY <2>1 DEF StoredHeld
  <2> QED
    BY <1>3, <2>2
<1> QED
  BY <1>5, <1>6

\* So does every step.
LEMMA StoredHeldNext ==
  /\ Basic /\ LocksHeld /\ ReadsStable /\ OnlyCommitted /\ OneName /\ ReplacedOnce
  /\ ReferencesHeld /\ StoredHeld /\ [Next]_vars
  => StoredHeld'
<1> SUFFICES ASSUME Basic, LocksHeld, ReadsStable, OnlyCommitted, OneName, ReplacedOnce,
                    ReferencesHeld, StoredHeld, [Next]_vars
             PROVE  StoredHeld'
  OBVIOUS
<1> USE ActorsAssumption, NoneAssumption DEF ActorsAssumption, NoneAssumption
<1>a. LocalsOK /\ ActorTypeOK /\ DataTypeOK
  BY DEF Basic, TypeOK
<1>b. /\ pc \in [Actors -> SessionPc \cup CallerPc] /\ man \in [Actors -> Sessions \cup {None}]
      /\ key \in [Actors -> Keys \cup {None}] /\ manifests \in [Keys -> Sessions \cup {None}]
  BY <1>a DEF ActorTypeOK, DataTypeOK
<1>c. LocalsOK
  BY <1>a
<1>d. \A s \in Sessions : pc[s] = "put" => References(s) \subseteq held
  BY DEF ReferencesHeld, UnderWay
<1> USE <1>b, <1>c, <1>d DEF LocalsOK, ReleasePc, Goto, dataVars, localVars, histVars
<1>1. ASSUME NEW s \in Sessions, SessionStep(s) PROVE StoredHeld'
  <2>1. CASE \E k \in Keys : BeginStore(s, k)
    BY <2>1, StoredFrame DEF BeginStore, Deleting
  <2>2. CASE \E c \in Chunks : FlushChunk(s, c)
    BY <2>2, StoredFrame DEF FlushChunk, Deleting
  <2>3. CASE WriteChunk(s)
    BY <2>3, StoredFrame DEF WriteChunk, Deleting
  <2>4. CASE AddChunkRef(s)
    BY <2>4, AddStored
  <2>5. CASE Finish(s)
    BY <2>5, StoredFrame DEF Finish, Deleting
  <2>6. CASE LockCommit(s)
    BY <2>6, StoredFrame DEF LockCommit, Deleting
  <2>7. CASE PutManifest(s)
    <3>1. CASE Return(s, "done")
      BY <3>1, <2>7, ReturnStored DEF PutManifest, Deleting
    <3>2. CASE ~Return(s, "done")
      BY <2>7, <3>2, StoredFrame DEF PutManifest, StartRelease, Deleting
    <3> QED
      BY <3>1, <3>2
  <2>8. CASE Abort(s)
    BY <2>8, StoredFrame DEF Abort, StartRelease, Deleting
  <2> QED
    BY <1>1, <2>1, <2>2, <2>3, <2>4, <2>5, <2>6, <2>7, <2>8 DEF SessionStep
<1>2. ASSUME NEW t \in Callers, CallerStep(t) PROVE StoredHeld'
  <2>1. CASE \E k \in Keys : DeleteCall(t, k)
    BY <2>1, StoredFrame DEF DeleteCall, Deleting
  <2>2. CASE DeleteLock(t)
    <3>1. CASE Return(t, "idle")
      BY <3>1, <2>2, ReturnStored DEF DeleteLock, Deleting
    <3>2. CASE ~Return(t, "idle")
      BY <2>2, <3>2, StoredFrame DEF DeleteLock, StartRelease, Deleting
    <3> QED
      BY <3>1, <3>2
  <2>3. CASE \E from, to \in Keys : RenameCall(t, from, to)
    BY <2>3, StoredFrame DEF RenameCall, Deleting
  <2>4. CASE RenameLockFirst(t)
    BY <2>4, StoredFrame DEF RenameLockFirst, Deleting
  <2>5. CASE RenameLockSecond(t)
    <3>1. CASE Return(t, "idle")
      BY <3>1, <2>5, ReturnStored DEF RenameLockSecond, Deleting
    <3>2. CASE ~Return(t, "idle")
      BY <2>5, <3>2, StoredFrame DEF RenameLockSecond, Deleting
    <3> QED
      BY <3>1, <3>2
  <2>6. CASE RenamePut(t)
    <3>1. /\ manifests' = [manifests EXCEPT ![dest[t]] = man[t]] /\ pc' = [pc EXCEPT ![t] = "rdel"]
          /\ pc[t] = "rput" /\ key[t] \in Keys /\ UNCHANGED <<chunks, key, man, held, damaged>>
      BY <2>6 DEF RenamePut
    <3>2. manifests[key[t]] = man[t] /\ keyLock[key[t]] = t /\ man[t] \in Sessions
      BY <3>1 DEF ReadsStable, LocksHeld
    <3>3. man[t] \in damaged \/ References(man[t]) \subseteq held
      BY <3>1, <3>2, LockedHeld DEF Deleting
    <3> QED
      BY <3>1, <3>3, StoredFrame DEF Deleting
  <2>7. CASE RenameDelete(t)
    BY <2>7, ReturnStored DEF RenameDelete, Deleting
  <2> QED
    BY <1>2, <2>1, <2>2, <2>3, <2>4, <2>5, <2>6, <2>7 DEF CallerStep
<1>3. ASSUME NEW a \in Actors, ReleaseStep(a) PROVE StoredHeld'
  <2>1. CASE DecrementChunkRef(a)
    BY <2>1, DecrementStored
  <2>2. CASE DeleteChunkCheck(a)
    BY <2>2, StoredFrame DEF DeleteChunkCheck, Continue, Deleting
  <2>3. CASE DeleteChunk(a)
    BY <2>3, StoredFrame DEF DeleteChunk, Continue, Deleting
  <2>4. CASE DeleteChunkGone(a)
    <3>1. CASE a \in Callers
      BY <3>1, <2>4, ReturnStored DEF DeleteChunkGone, Deleting
    <3>2. CASE a \in Sessions
      BY <2>4, <3>2, StoredFrame DEF DeleteChunkGone, Continue, Deleting
    <3> QED
      BY <3>1, <3>2
  <2>5. CASE ReleaseDone(a)
    BY <2>5, ReturnStored DEF ReleaseDone, Deleting
  <2> QED
    BY <1>3, <2>1, <2>2, <2>3, <2>4, <2>5 DEF ReleaseStep
<1>4. CASE GcStep \/ (\E c \in Chunks : Age(c)) \/ UNCHANGED vars
  BY <1>4, Quiet, StoredFrame DEF Deleting
<1>5. CASE FaultStep
  <2>1. ASSUME NEW s \in Sessions, FlushFails(s) PROVE StoredHeld'
    <3>1. CASE Return(s, "lost")
      BY <3>1, <2>1, ReturnStored DEF FlushFails, Deleting
    <3>2. CASE ~Return(s, "lost")
      BY <2>1, <3>2, StoredFrame DEF FlushFails, StartRelease, Deleting
    <3> QED
      BY <3>1, <3>2
  <2>2. ASSUME NEW s \in Sessions, CommitFails(s) PROVE StoredHeld'
    BY <2>2, ReturnStored DEF CommitFails, Deleting
  <2>3. ASSUME NEW a \in Actors, ReleaseFails(a) PROVE StoredHeld'
    <3>1. CASE Continue(a)
      BY <2>3, <3>1, StoredFrame DEF ReleaseFails, Continue, Deleting
    <3>2. CASE ~Continue(a)
      BY <2>3, <3>2, ReturnStored DEF ReleaseFails, Aborting, Deleting
    <3> QED
      BY <3>1, <3>2
  <2>4. ASSUME NEW t \in Callers, RenameFails(t) PROVE StoredHeld'
    BY <2>4, ReturnStored DEF RenameFails, Deleting
  <2>5. CASE Crash
    BY <2>5, StoredFrame DEF Crash, Deleting
  <2> QED
    BY <1>5, <2>1, <2>2, <2>3, <2>4, <2>5 DEF FaultStep
<1> QED
  BY <1>1, <1>2, <1>3, <1>4, <1>5 DEF Next

-----------------------------------------------------------------------------
(* The counts *)

Holders(c) == {r \in held : chunks[r[1]][r[2]] = c}
Exact == IsFiniteSet(held) /\ RefsExact

\* Counts stay exact when neither they nor the references change.
LEMMA CountFrame ==
  ASSUME Exact, held' = held, chunks' = chunks, refs' = refs, damaged \subseteq damaged'
  PROVE  Exact'
  BY DEF Exact, RefsExact, Undamaged, Contents

\* Taking a reference adds one holder to the chunk and leaves the others.
LEMMA AddExact ==
  ASSUME Basic, OnlyCommitted, ReferencesHeld, Exact, NEW s \in Sessions, AddChunkRef(s)
  PROVE  Exact'
<1> DEFINE token == <<s, Len(chunks[s]) + 1>>
<1>1. /\ held' = held \cup {token} /\ refs' = [refs EXCEPT ![cur[s]] = @ + 1] /\ damaged' = damaged
      /\ refs \in [Chunks -> Nat] /\ held \subseteq Sessions \X (Nat \ {0}) /\ damaged \subseteq Sessions
      /\ chunks \in [Sessions -> Seq(Chunks)]
  BY DEF AddChunkRef, Basic, TypeOK, DataTypeOK, ActorTypeOK
<1>2. /\ token \notin held /\ chunks'[s][Len(chunks[s]) + 1] = cur[s]
      /\ \A u \in Sessions : \A i \in 1..Len(chunks[u]) :
           chunks'[u][i] = chunks[u][i] /\ i <= Len(chunks'[u])
  BY AddHeld
<1>3. \A r \in held : chunks'[r[1]][r[2]] = chunks[r[1]][r[2]]
  <2> SUFFICES ASSUME NEW r \in held PROVE chunks'[r[1]][r[2]] = chunks[r[1]][r[2]]
    OBVIOUS
  <2>1. r[1] \in Sessions /\ r[2] \in 1..Len(chunks[r[1]])
    BY <1>1 DEF ReferencesHeld
  <2> QED
    BY <1>2, <2>1
<1>4. IsFiniteSet(held')
  BY <1>1, FS_AddElement DEF Exact
<1>5. ASSUME NEW c \in Chunks, Undamaged(c)' PROVE refs'[c] = Cardinality(Holders(c)')
  <2>1. Undamaged(c)
    <3> SUFFICES ASSUME NEW u \in damaged, NEW i \in 1..Len(chunks[u]), chunks[u][i] = c PROVE FALSE
      BY DEF Undamaged, Contents
    <3>1. chunks'[u][i] = c /\ i \in 1..Len(chunks'[u])
      BY <1>1, <1>2
    <3> QED
      BY <1>1, <1>5, <3>1 DEF Undamaged, Contents
  <2>2. IsFiniteSet(Holders(c)) /\ refs[c] = Cardinality(Holders(c))
    BY <2>1, FS_Subset DEF Exact, RefsExact, Holders
  <2>3. CASE c = cur[s]
    <3>1. Holders(c)' = Holders(c) \cup {token} /\ token \notin Holders(c)
      BY <1>1, <1>2, <1>3, <2>3 DEF Holders
    <3>2. Cardinality(Holders(c) \cup {token}) = Cardinality(Holders(c)) + 1
      BY <2>2, <3>1, FS_AddElement
    <3> QED
      BY <1>1, <2>2, <2>3, <3>1, <3>2
  <2>4. CASE c # cur[s]
    <3>1. Holders(c)' = Holders(c)
      BY <1>1, <1>2, <1>3, <2>4 DEF Holders
    <3> QED
      BY <1>1, <2>2, <2>4, <3>1
  <2> QED
    BY <2>3, <2>4
<1> QED
  BY <1>4, <1>5 DEF Exact, RefsExact, Holders

\* Dropping a reference removes one holder of the chunk, unless an object with
\* this chunk is damaged.
LEMMA DecrementExact ==
  ASSUME Basic, LocksHeld, ReadsStable, OnlyCommitted, OneName, ReplacedOnce, ReferencesHeld, Exact,
         NEW a \in Actors, DecrementChunkRef(a)
  PROVE  Exact'
<1> DEFINE token == <<man[a], pos[a]>>
           d == chunks[man[a]][pos[a]]
<1>0. /\ held' = held \ {token} /\ refs' = [refs EXCEPT ![d] = IF @ > 0 THEN @ - 1 ELSE 0]
      /\ UNCHANGED <<chunks, damaged>>
      /\ pc[a] = "release" /\ pos[a] <= Len(chunks[man[a]])
  BY DEF DecrementChunkRef
<1>1. /\ held' = held \ {token} /\ refs' = [refs EXCEPT ![d] = IF @ > 0 THEN @ - 1 ELSE 0]
      /\ UNCHANGED <<chunks, damaged>>
      /\ refs \in [Chunks -> Nat] /\ held \subseteq Sessions \X (Nat \ {0})
      /\ chunks \in [Sessions -> Seq(Chunks)] /\ man[a] \in Sessions /\ pos[a] \in 1..Len(chunks[man[a]])
  <2>1. /\ refs \in [Chunks -> Nat] /\ held \subseteq Sessions \X (Nat \ {0})
        /\ chunks \in [Sessions -> Seq(Chunks)] /\ pos \in [Actors -> Nat \ {0}]
    BY DEF Basic, TypeOK, DataTypeOK, ActorTypeOK
  <2>2. man[a] \in Sessions
    BY <1>0 DEF Basic, LocalsOK, ReleasePc
  <2>3. pos[a] \in Nat \ {0} /\ Len(chunks[man[a]]) \in Nat
    BY <2>1, <2>2
  <2> QED
    BY <1>0, <2>1, <2>2, <2>3
<1>2. d \in Chunks /\ d \in Contents(man[a])
  BY <1>1 DEF Contents
<1>3. IsFiniteSet(held')
  BY <1>1, FS_Subset DEF Exact
<1>4. ASSUME NEW c \in Chunks, Undamaged(c)' PROVE refs'[c] = Cardinality(Holders(c)')
  <2>1. Undamaged(c)
    BY <1>1, <1>4 DEF Undamaged, Contents
  <2>2. IsFiniteSet(Holders(c)) /\ refs[c] = Cardinality(Holders(c))
    BY <2>1, FS_Subset DEF Exact, RefsExact, Holders
  <2>3. CASE c = d
    <3>1. token \in held
      BY <1>2, <2>1, <2>3, DecrementHeld DEF Undamaged
    <3>2. Holders(c)' = Holders(c) \ {token} /\ token \in Holders(c)
      BY <1>1, <2>3, <3>1 DEF Holders
    <3>3. /\ IsFiniteSet(Holders(c) \ {token})
          /\ Cardinality(Holders(c) \ {token}) = Cardinality(Holders(c)) - 1
      BY <2>2, <3>2, FS_RemoveElement
    <3>4. Cardinality(Holders(c) \ {token}) \in Nat /\ Cardinality(Holders(c)) \in Nat
      BY <2>2, <3>3, FS_CardinalityType
    <3>5. refs'[c] = IF refs[c] > 0 THEN refs[c] - 1 ELSE 0
      BY <1>1, <1>2, <2>3
    <3>6. refs'[c] = Cardinality(Holders(c) \ {token})
      BY <2>2, <3>3, <3>4, <3>5
    <3> QED
      BY <3>2, <3>6
  <2>4. CASE c # d
    <3>1. Holders(c)' = Holders(c)
      BY <1>1, <2>4 DEF Holders
    <3> QED
      BY <1>1, <1>2, <2>2, <2>4, <3>1
  <2> QED
    BY <2>3, <2>4
<1> QED
  BY <1>3, <1>4 DEF Exact, RefsExact, Holders

\* Every step keeps the counts exact.
LEMMA ExactNext ==
  /\ Basic /\ LocksHeld /\ ReadsStable /\ OnlyCommitted /\ OneName /\ ReplacedOnce
  /\ ReferencesHeld /\ Exact /\ [Next]_vars
  => Exact'
<1> SUFFICES ASSUME Basic, LocksHeld, ReadsStable, OnlyCommitted, OneName, ReplacedOnce,
                    ReferencesHeld, Exact, [Next]_vars
             PROVE  Exact'
  OBVIOUS
<1> USE DEF dataVars, localVars, histVars
<1>1. ASSUME NEW s \in Sessions, SessionStep(s) PROVE Exact'
  <2>1. CASE \E k \in Keys : BeginStore(s, k)
    BY <2>1, CountFrame DEF BeginStore
  <2>2. CASE \E c \in Chunks : FlushChunk(s, c)
    BY <2>2, CountFrame DEF FlushChunk
  <2>3. CASE WriteChunk(s)
    BY <2>3, CountFrame DEF WriteChunk
  <2>4. CASE AddChunkRef(s)
    BY <2>4, AddExact
  <2>5. CASE Finish(s)
    BY <2>5, CountFrame DEF Finish
  <2>6. CASE LockCommit(s)
    BY <2>6, CountFrame DEF LockCommit
  <2>7. CASE PutManifest(s)
    BY <2>7, CountFrame DEF PutManifest, StartRelease, Return
  <2>8. CASE Abort(s)
    BY <2>8, CountFrame DEF Abort, StartRelease
  <2> QED
    BY <1>1, <2>1, <2>2, <2>3, <2>4, <2>5, <2>6, <2>7, <2>8 DEF SessionStep
<1>2. ASSUME NEW t \in Callers, CallerStep(t) PROVE Exact'
  <2>1. CASE \E k \in Keys : DeleteCall(t, k)
    BY <2>1, CountFrame DEF DeleteCall
  <2>2. CASE DeleteLock(t)
    BY <2>2, CountFrame DEF DeleteLock, StartRelease, Return
  <2>3. CASE \E from, to \in Keys : RenameCall(t, from, to)
    BY <2>3, CountFrame DEF RenameCall
  <2>4. CASE RenameLockFirst(t)
    BY <2>4, CountFrame DEF RenameLockFirst
  <2>5. CASE RenameLockSecond(t)
    BY <2>5, CountFrame DEF RenameLockSecond, Return
  <2>6. CASE RenamePut(t)
    BY <2>6, CountFrame DEF RenamePut
  <2>7. CASE RenameDelete(t)
    BY <2>7, CountFrame DEF RenameDelete, Return
  <2> QED
    BY <1>2, <2>1, <2>2, <2>3, <2>4, <2>5, <2>6, <2>7 DEF CallerStep
<1>3. ASSUME NEW a \in Actors, ReleaseStep(a) PROVE Exact'
  <2>1. CASE DecrementChunkRef(a)
    BY <2>1, DecrementExact
  <2>2. CASE DeleteChunkCheck(a)
    BY <2>2, CountFrame DEF DeleteChunkCheck, Continue
  <2>3. CASE DeleteChunk(a)
    BY <2>3, CountFrame DEF DeleteChunk, Continue
  <2>4. CASE DeleteChunkGone(a)
    BY <2>4, CountFrame DEF DeleteChunkGone, Continue, Return
  <2>5. CASE ReleaseDone(a)
    BY <2>5, CountFrame DEF ReleaseDone, Return
  <2> QED
    BY <1>3, <2>1, <2>2, <2>3, <2>4, <2>5 DEF ReleaseStep
<1>4. CASE GcStep \/ (\E c \in Chunks : Age(c)) \/ UNCHANGED vars
  BY <1>4, CountFrame DEF GcStep, GcReadIndex, GcListFiles, GcSkip, GcFindOrphan,
                              GcRemoveFile, GcDone, Age, vars
<1>5. CASE FaultStep
  <2>1. ASSUME NEW s \in Sessions, FlushFails(s) PROVE Exact'
    BY <2>1, CountFrame DEF FlushFails, StartRelease, Return
  <2>2. ASSUME NEW s \in Sessions, CommitFails(s) PROVE Exact'
    BY <2>2, CountFrame DEF CommitFails, Return
  <2>3. ASSUME NEW a \in Actors, ReleaseFails(a) PROVE Exact'
    BY <2>3, CountFrame DEF ReleaseFails, Continue, Return
  <2>4. ASSUME NEW t \in Callers, RenameFails(t) PROVE Exact'
    BY <2>4, CountFrame DEF RenameFails, Return
  <2>5. CASE Crash
    BY <2>5, CountFrame DEF Crash
  <2> QED
    BY <1>5, <2>1, <2>2, <2>3, <2>4, <2>5 DEF FaultStep
<1> QED
  BY <1>1, <1>2, <1>3, <1>4, <1>5 DEF Next

-----------------------------------------------------------------------------
(* Nothing leaks *)

\* a's release goes on, with the same references ahead of it.
GoesOn(a) ==
  /\ pc[a] \in ReleasePc /\ pc'[a] \in ReleasePc /\ man'[a] = man[a]
  /\ \/ pos'[a] = pos[a] /\ (pc'[a] = "release" <=> pc[a] = "release")
     \/ pos'[a] = pos[a] + 1 /\ pc'[a] = "release" /\ pc[a] # "release"

Starts(a) == pc'[a] = "release" /\ pos'[a] = 1 /\ man'[a] \in Sessions

\* What is ahead of a loop that goes on, and of one that starts.
LEMMA AheadAfter ==
  ASSUME Basic, NEW a \in Actors, chunks' = chunks
  PROVE  /\ GoesOn(a) => Ahead(a)' = Ahead(a)
         /\ Starts(a) => Ahead(a)' = 1..Len(chunks[man'[a]])
<1>1. pos[a] \in Nat /\ pos'[a] \in {pos[a], pos[a] + 1, 1} => pos'[a] \in Nat
  BY DEF Basic, TypeOK, ActorTypeOK
<1>2. pos[a] \in Nat
  BY DEF Basic, TypeOK, ActorTypeOK
<1>3. ASSUME GoesOn(a) PROVE Ahead(a)' = Ahead(a)
  <2>1. man'[a] = man[a] /\ chunks'[man'[a]] = chunks[man[a]]
    BY <1>3 DEF GoesOn
  <2>2. \A i \in 1..Len(chunks[man[a]]) :
          (i > pos'[a] \/ (i = pos'[a] /\ pc'[a] = "release"))
            <=> (i > pos[a] \/ (i = pos[a] /\ pc[a] = "release"))
    BY <1>2, <1>3, 1..Len(chunks[man[a]]) \subseteq Int DEF GoesOn
  <2> QED
    BY <2>1, <2>2 DEF Ahead
<1>4. ASSUME Starts(a) PROVE Ahead(a)' = 1..Len(chunks[man'[a]])
  <2>1. \A i \in 1..Len(chunks[man'[a]]) : i > 1 \/ i = 1
    OBVIOUS
  <2> QED
    BY <1>4, <2>1 DEF Starts, Ahead
<1> QED
  BY <1>3, <1>4

\* A step that takes and drops no reference: loops go on, start at an object's
\* beginning, or end with nothing ahead or their object stored.
LEMMA AccountedFrame ==
  ASSUME Basic, ReferencesHeld, Accounted, held' = held, chunks' = chunks,
         faults' = 0 => faults = 0,
         \A s \in Sessions : Storing(s) \/ Stored(s) =>
           \/ (Storing(s) \/ Stored(s))'
           \/ \E a \in Actors : Starts(a) /\ man'[a] = s
           \/ \A r \in held : r[1] # s,
         \A a \in Actors : pc[a] \in ReleasePc =>
           \/ GoesOn(a) \/ Ahead(a) = {}
           \/ \A s \in Sessions : man[a] = s => Stored(s)',
         \A a \in Actors : pc'[a] \in ReleasePc => GoesOn(a) \/ Starts(a)
  PROVE  Accounted'
<1> SUFFICES ASSUME faults = 0
             PROVE  /\ \A a \in Actors : pc'[a] \in ReleasePc =>
                         \A i \in 1..Len(chunks[man'[a]]) \ Ahead(a)' : <<man'[a], i>> \notin held
                    /\ \A r \in held :
                         \/ Storing(r[1])' \/ Stored(r[1])'
                         \/ \E a \in Actors :
                              pc'[a] \in ReleasePc /\ man'[a] = r[1] /\ r[2] \in Ahead(a)'
  BY DEF Accounted
<1>1. ASSUME NEW a \in Actors, pc'[a] \in ReleasePc,
             NEW i \in 1..Len(chunks[man'[a]]) \ Ahead(a)'
      PROVE  <<man'[a], i>> \notin held
  <2>1. CASE GoesOn(a)
    BY <1>1, <2>1, AheadAfter DEF GoesOn, Accounted
  <2>2. CASE Starts(a)
    BY <1>1, <2>2, AheadAfter
  <2> QED
    BY <1>1, <2>1, <2>2
<1>2. ASSUME NEW r \in held
      PROVE  \/ Storing(r[1])' \/ Stored(r[1])'
             \/ \E a \in Actors : pc'[a] \in ReleasePc /\ man'[a] = r[1] /\ r[2] \in Ahead(a)'
  <2>1. r[1] \in Sessions /\ r[2] \in 1..Len(chunks[r[1]])
    BY <1>2 DEF ReferencesHeld, Basic, TypeOK, DataTypeOK, ActorTypeOK
  <2>2. CASE Storing(r[1]) \/ Stored(r[1])
    <3>1. CASE \E a \in Actors : Starts(a) /\ man'[a] = r[1]
      BY <2>1, <3>1, AheadAfter DEF Starts, ReleasePc
    <3> QED
      BY <2>1, <2>2, <3>1, <1>2
  <2>3. ASSUME NEW a \in Actors, pc[a] \in ReleasePc, man[a] = r[1], r[2] \in Ahead(a)
        PROVE  \/ Stored(r[1])'
               \/ pc'[a] \in ReleasePc /\ man'[a] = r[1] /\ r[2] \in Ahead(a)'
    <3>1. CASE GoesOn(a)
      BY <2>3, <3>1, AheadAfter DEF GoesOn
    <3> QED
      BY <2>1, <2>3, <3>1
  <2> QED
    BY <1>2, <2>2, <2>3 DEF Accounted
<1> QED
  BY <1>1, <1>2

\* A failure ends the account.
LEMMA AccountedFault ==
  ASSUME Basic, Fault
  PROVE  Accounted'
  BY DEF Fault, Accounted, Basic, TypeOK, DataTypeOK

\* Most steps concern no release: whoever releases goes on where it is.
LEMMA AccountedAside ==
  ASSUME Basic, ReferencesHeld, Accounted, held' = held, chunks' = chunks, faults' = faults,
         NEW a \in Actors, pc[a] \notin ReleasePc,
         \A b \in Actors \ {a} : LocalsSame(b),
         pc'[a] \in ReleasePc => Starts(a),
         a \in Sessions /\ Storing(a) =>
           Storing(a)' \/ Stored(a)' \/ (Starts(a) /\ man'[a] = a),
         \A s \in Sessions : Stored(s) => Stored(s)' \/ (Starts(a) /\ man'[a] = s)
  PROVE  Accounted'
<1>1. \A b \in Actors \ {a} : pc[b] \in ReleasePc \/ pc'[b] \in ReleasePc => GoesOn(b)
  BY DEF LocalsSame, GoesOn
<1>2. \A s \in Sessions : Storing(s) \/ Stored(s) =>
        (Storing(s) \/ Stored(s))' \/ (Starts(a) /\ man'[a] = s)
  BY DEF LocalsSame, Storing
<1> QED
  BY <1>1, <1>2, AccountedFrame

\* A reference that is taken is its session's, which is under way.
LEMMA AddAccounted ==
  ASSUME Basic, OnlyCommitted, ReferencesHeld, Accounted, NEW s \in Sessions, AddChunkRef(s)
  PROVE  Accounted'
<1> DEFINE token == <<s, Len(chunks[s]) + 1>>
<1>1. /\ held' = held \cup {token} /\ pc[s] = "addref" /\ faults' = faults
      /\ pc' = [pc EXCEPT ![s] = "open"] /\ chunks' = [chunks EXCEPT ![s] = Append(@, cur[s])]
      /\ manifests' = manifests /\ man' = man /\ pos' = pos
  BY DEF AddChunkRef, Goto
<1>2. /\ pc \in [Actors -> SessionPc \cup CallerPc] /\ chunks \in [Sessions -> Seq(Chunks)]
      /\ man \in [Actors -> Sessions \cup {None}] /\ LocalsOK
  BY DEF Basic, TypeOK, ActorTypeOK
<1>3. ASSUME NEW a \in Actors, pc'[a] \in ReleasePc
      PROVE  /\ pc[a] \in ReleasePc /\ man[a] # s /\ man[a] \in Sessions
             /\ chunks'[man[a]] = chunks[man[a]] /\ Ahead(a)' = Ahead(a)
  <2>1. pc[a] \in ReleasePc /\ pc'[a] = pc[a] /\ a # s
    BY <1>1, <1>2, <1>3 DEF ReleasePc
  <2>2. man[a] # s
    BY <1>1, <2>1 DEF OnlyCommitted, Committed, Replacing, ReleasePc
  <2>3. man[a] \in Sessions /\ chunks'[man[a]] = chunks[man[a]]
    BY <1>1, <1>2, <2>1, <2>2 DEF LocalsOK
  <2> QED
    BY <1>1, <2>1, <2>2, <2>3 DEF Ahead
<1> SUFFICES ASSUME faults = 0
             PROVE  /\ \A a \in Actors : pc'[a] \in ReleasePc =>
                         \A i \in 1..Len(chunks'[man'[a]]) \ Ahead(a)' : <<man'[a], i>> \notin held'
                    /\ \A r \in held' :
                         \/ Storing(r[1])' \/ Stored(r[1])'
                         \/ \E a \in Actors :
                              pc'[a] \in ReleasePc /\ man'[a] = r[1] /\ r[2] \in Ahead(a)'
  BY <1>1 DEF Accounted
<1>4. ASSUME NEW a \in Actors, pc'[a] \in ReleasePc,
             NEW i \in 1..Len(chunks'[man'[a]]) \ Ahead(a)'
      PROVE  <<man'[a], i>> \notin held'
  BY <1>1, <1>3, <1>4 DEF Accounted
<1>5. Storing(s)' /\ \A u \in Sessions : Storing(u) => Storing(u)'
  BY <1>1, <1>2 DEF Storing
<1>6. ASSUME NEW r \in held'
      PROVE  \/ Storing(r[1])' \/ Stored(r[1])'
             \/ \E a \in Actors : pc'[a] \in ReleasePc /\ man'[a] = r[1] /\ r[2] \in Ahead(a)'
  <2>1. CASE r = token
    BY <2>1, <1>5
  <2>2. CASE r \in held
    <3>1. r[1] \in Sessions
      BY <2>2 DEF Basic, TypeOK, DataTypeOK
    <3>2. ASSUME NEW a \in Actors, pc[a] \in ReleasePc, man[a] = r[1], r[2] \in Ahead(a)
          PROVE  pc'[a] \in ReleasePc /\ man'[a] = r[1] /\ r[2] \in Ahead(a)'
      <4>1. pc'[a] \in ReleasePc
        BY <1>1, <1>2, <3>2 DEF ReleasePc
      <4> QED
        BY <1>1, <1>3, <3>2, <4>1
    <3>3. Stored(r[1]) => Stored(r[1])'
      BY <1>1 DEF Stored
    <3> QED
      BY <1>5, <2>2, <3>1, <3>2, <3>3 DEF Accounted
  <2> QED
    BY <1>1, <2>1, <2>2
<1> QED
  BY <1>4, <1>6

\* The loop moves past the reference it drops.
LEMMA DecrementAccounted ==
  ASSUME Basic, ReferencesHeld, Accounted, NEW a \in Actors, DecrementChunkRef(a)
  PROVE  Accounted'
<1> DEFINE token == <<man[a], pos[a]>>
<1>1. /\ held' = held \ {token} /\ pc[a] = "release" /\ faults' = faults /\ chunks' = chunks
      /\ manifests' = manifests /\ man' = man
      /\ \/ pc' = [pc EXCEPT ![a] = "check"] /\ pos' = pos
         \/ pc' = pc /\ pos' = [pos EXCEPT ![a] = @ + 1]
  BY DEF DecrementChunkRef, Goto
<1>2. /\ pc \in [Actors -> SessionPc \cup CallerPc] /\ pos \in [Actors -> Nat \ {0}]
      /\ chunks \in [Sessions -> Seq(Chunks)] /\ man[a] \in Sessions
  BY <1>1 DEF Basic, TypeOK, ActorTypeOK, LocalsOK, ReleasePc
<1>3. \A b \in Actors : (pc'[b] \in ReleasePc <=> pc[b] \in ReleasePc) /\ (b # a => Ahead(b)' = Ahead(b))
  BY <1>1, <1>2 DEF Ahead, ReleasePc
<1>4. Ahead(a)' = Ahead(a) \ {pos[a]}
  <2>1. \A i \in 1..Len(chunks[man[a]]) :
          (i > pos'[a] \/ (i = pos'[a] /\ pc'[a] = "release"))
            <=> (i > pos[a] \/ (i = pos[a] /\ pc[a] = "release")) /\ i # pos[a]
    BY <1>1, <1>2, 1..Len(chunks[man[a]]) \subseteq Int
  <2> QED
    BY <1>1, <2>1 DEF Ahead
<1> SUFFICES ASSUME faults = 0
             PROVE  /\ \A b \in Actors : pc'[b] \in ReleasePc =>
                         \A i \in 1..Len(chunks'[man'[b]]) \ Ahead(b)' : <<man'[b], i>> \notin held'
                    /\ \A r \in held' :
                         \/ Storing(r[1])' \/ Stored(r[1])'
                         \/ \E b \in Actors :
                              pc'[b] \in ReleasePc /\ man'[b] = r[1] /\ r[2] \in Ahead(b)'
  BY <1>1 DEF Accounted
<1>5. ASSUME NEW b \in Actors, pc'[b] \in ReleasePc,
             NEW i \in 1..Len(chunks'[man'[b]]) \ Ahead(b)'
      PROVE  <<man'[b], i>> \notin held'
  BY <1>1, <1>3, <1>4, <1>5 DEF Accounted
<1>6. ASSUME NEW r \in held'
      PROVE  \/ Storing(r[1])' \/ Stored(r[1])'
             \/ \E b \in Actors : pc'[b] \in ReleasePc /\ man'[b] = r[1] /\ r[2] \in Ahead(b)'
  <2>1. r \in held /\ r # token /\ r[1] \in Sessions /\ r = <<r[1], r[2]>>
    BY <1>1, <1>6 DEF Basic, TypeOK, DataTypeOK
  <2>2. (Storing(r[1]) => Storing(r[1])') /\ (Stored(r[1]) => Stored(r[1])')
    BY <1>1, <1>2, <2>1 DEF Storing, Stored
  <2>3. ASSUME NEW b \in Actors, pc[b] \in ReleasePc, man[b] = r[1], r[2] \in Ahead(b)
        PROVE  pc'[b] \in ReleasePc /\ man'[b] = r[1] /\ r[2] \in Ahead(b)'
    BY <1>1, <1>3, <1>4, <2>1, <2>3
  <2> QED
    BY <2>1, <2>2, <2>3 DEF Accounted
<1> QED
  BY <1>5, <1>6

\* A loop that has come to the end of its object leaves none of its references.
LEMMA NoneLeft ==
  ASSUME Basic, ReferencesHeld, Accounted, faults = 0, NEW a \in Actors, ReleaseDone(a)
  PROVE  Ahead(a) = {} /\ \A r \in held : r[1] # man[a]
<1>1. /\ pc[a] = "release" /\ pos[a] > Len(chunks[man[a]]) /\ pos[a] \in Nat /\ man[a] \in Sessions
      /\ chunks \in [Sessions -> Seq(Chunks)]
  BY DEF ReleaseDone, Basic, TypeOK, ActorTypeOK, LocalsOK, ReleasePc
<1>2. Ahead(a) = {}
  BY <1>1, 1..Len(chunks[man[a]]) \subseteq Int DEF Ahead
<1>3. ASSUME NEW r \in held, r[1] = man[a] PROVE FALSE
  <2>1. r = <<man[a], r[2]>> /\ r[2] \in 1..Len(chunks[man[a]])
    BY <1>1, <1>3 DEF Basic, TypeOK, DataTypeOK, ReferencesHeld
  <2> QED
    BY <1>1, <1>2, <2>1 DEF Accounted, ReleasePc
<1> QED
  BY <1>2, <1>3

\* Every step keeps each reference accounted for: an object, a session or a
\* release has it.
LEMMA AccountedNext ==
  Basic /\ LocksHeld /\ ReadsStable /\ OnlyCommitted /\ ReferencesHeld /\ Accounted /\ [Next]_vars
    => Accounted'
<1> SUFFICES ASSUME Basic, LocksHeld, ReadsStable, OnlyCommitted, ReferencesHeld, Accounted,
                    [Next]_vars
             PROVE  Accounted'
  OBVIOUS
<1> USE ActorsAssumption, NoneAssumption DEF ActorsAssumption, NoneAssumption
<1>a. LocalsOK /\ ActorTypeOK /\ DataTypeOK
  BY DEF Basic, TypeOK
<1>b. /\ pc \in [Actors -> SessionPc \cup CallerPc] /\ man \in [Actors -> Sessions \cup {None}]
      /\ pos \in [Actors -> Nat \ {0}] /\ manifests \in [Keys -> Sessions \cup {None}]
  BY <1>a DEF ActorTypeOK, DataTypeOK
<1>1. ASSUME NEW s \in Sessions, SessionStep(s) PROVE Accounted'
  <2> USE DEF dataVars, localVars, histVars, Goto, LocalsSame, ReleasePc, Storing, Stored
  <2>1. CASE \E k \in Keys : BeginStore(s, k)
    BY <2>1, <1>b, AccountedAside DEF BeginStore
  <2>2. CASE \E c \in Chunks : FlushChunk(s, c)
    BY <2>2, <1>b, AccountedAside DEF FlushChunk
  <2>3. CASE WriteChunk(s)
    BY <2>3, <1>b, AccountedAside DEF WriteChunk
  <2>4. CASE AddChunkRef(s)
    BY <2>4, AddAccounted
  <2>5. CASE Finish(s)
    BY <2>5, <1>b, AccountedAside DEF Finish
  <2>6. CASE LockCommit(s)
    BY <2>6, <1>b, AccountedAside DEF LockCommit
  <2>7. CASE PutManifest(s)
    <3>1. /\ pc[s] = "put" /\ key[s] \in Keys /\ manifests' = [manifests EXCEPT ![key[s]] = s]
          /\ manifests[key[s]] = man[s] /\ manifests'[key[s]] = s
      BY <2>7, <1>a, <1>b DEF PutManifest, LocalsOK, ReadsStable
    <3>2. \A u \in Sessions : Stored(u) => Stored(u)' \/ u = man[s]
      BY <3>1
    <3>3. CASE man[s] = None
      <4>1. Return(s, "done") /\ held' = held /\ faults' = faults
        BY <2>7, <3>3 DEF PutManifest, StartRelease
      <4>2. pc'[s] = "done" /\ (\A b \in Actors \ {s} : LocalsSame(b)) /\ chunks' = chunks
        BY <4>1, <1>a, ReturnLocals
      <4>3. Stored(s)'
        BY <3>1
      <4> QED
        BY <3>1, <3>2, <3>3, <4>1, <4>2, <4>3, AccountedAside
    <3>4. CASE man[s] # None
      <4>1. /\ pc' = [pc EXCEPT ![s] = "release"] /\ pos' = [pos EXCEPT ![s] = 1]
            /\ man' = [man EXCEPT ![s] = man[s]]
            /\ UNCHANGED <<keyLock, key, dest, chunks, cur, held, faults>>
        BY <2>7, <3>4 DEF PutManifest, StartRelease
      <4>2. Starts(s) /\ man'[s] = man[s]
        BY <4>1, <3>4, <1>b DEF Starts
      <4>3. Stored(s)'
        BY <3>1
      <4>4. \A b \in Actors \ {s} : LocalsSame(b)
        BY <4>1, <1>b
      <4> QED
        BY <3>1, <3>2, <4>1, <4>2, <4>3, <4>4, AccountedAside
    <3> QED
      BY <3>3, <3>4
  <2>8. CASE Abort(s)
    <3>1. /\ pc' = [pc EXCEPT ![s] = "release"] /\ pos' = [pos EXCEPT ![s] = 1]
          /\ man' = [man EXCEPT ![s] = s] /\ pc[s] = "open"
          /\ UNCHANGED <<manifests, keyLock, key, dest, chunks, cur, held, faults>>
      BY <2>8 DEF Abort, StartRelease
    <3>2. Starts(s) /\ man'[s] = s
      BY <3>1, <1>b DEF Starts
    <3> QED
      BY <3>1, <3>2, <1>b, AccountedAside
  <2> QED
    BY <1>1, <2>1, <2>2, <2>3, <2>4, <2>5, <2>6, <2>7, <2>8 DEF SessionStep
<1>2. ASSUME NEW t \in Callers, CallerStep(t) PROVE Accounted'
  <2> USE DEF dataVars, localVars, histVars, Goto, LocalsSame, ReleasePc, Storing, Stored
  <2>1. CASE \E k \in Keys : DeleteCall(t, k)
    BY <2>1, <1>b, AccountedAside DEF DeleteCall
  <2>2. CASE DeleteLock(t)
    <3>1. pc[t] = "dlock" /\ UNCHANGED <<manifests, held, faults>>
      BY <2>2 DEF DeleteLock
    <3>2. CASE Return(t, "idle")
      BY <3>1, <3>2, <1>a, ReturnLocals, AccountedAside
    <3>3. CASE manifests[key[t]] # None /\ StartRelease(t, manifests[key[t]])
               /\ UNCHANGED <<key, dest, chunks, cur>>
      <4>1. manifests[key[t]] \in Sessions
        BY <3>1, <3>3, <1>a, <1>b DEF LocalsOK
      <4>2. Starts(t) /\ \A b \in Actors \ {t} : LocalsSame(b)
        BY <3>3, <4>1, <1>b DEF Starts, StartRelease
      <4> QED
        BY <3>1, <3>3, <4>2, AccountedAside
    <3> QED
      BY <2>2, <3>2, <3>3 DEF DeleteLock
  <2>3. CASE \E from, to \in Keys : RenameCall(t, from, to)
    BY <2>3, <1>b, AccountedAside DEF RenameCall
  <2>4. CASE RenameLockFirst(t)
    BY <2>4, <1>b, AccountedAside DEF RenameLockFirst
  <2>5. CASE RenameLockSecond(t)
    <3>1. pc[t] = "rlock2" /\ UNCHANGED <<manifests, held, faults>>
      BY <2>5 DEF RenameLockSecond
    <3>2. CASE Return(t, "idle")
      BY <3>1, <3>2, <1>a, ReturnLocals, AccountedAside
    <3>3. CASE ~Return(t, "idle")
      BY <2>5, <3>1, <3>3, <1>b, AccountedAside DEF RenameLockSecond
    <3> QED
      BY <3>2, <3>3
  <2>6. CASE RenamePut(t)
    <3>1. /\ pc[t] = "rput" /\ manifests[dest[t]] = None /\ dest[t] \in Keys
          /\ manifests' = [manifests EXCEPT ![dest[t]] = man[t]]
      BY <2>6, <1>a DEF RenamePut, ReadsStable, LocalsOK
    <3>2. \A u \in Sessions : Stored(u) => Stored(u)'
      BY <3>1, <1>b
    <3> QED
      BY <2>6, <3>1, <3>2, <1>b, AccountedAside DEF RenamePut
  <2>7. CASE RenameDelete(t)
    <3>1. /\ pc[t] = "rdel" /\ manifests[key[t]] = man[t] /\ manifests[dest[t]] = man[t]
          /\ key[t] # dest[t] /\ dest[t] \in Keys /\ key[t] \in Keys
          /\ manifests' = [manifests EXCEPT ![key[t]] = None]
          /\ Return(t, "idle") /\ held' = held /\ faults' = faults
      BY <2>7, <1>a DEF RenameDelete, ReadsStable, LocalsOK
    <3>2. \A u \in Sessions : Stored(u) => Stored(u)'
      BY <3>1, <1>b
    <3> QED
      BY <3>1, <3>2, <1>a, ReturnLocals, AccountedAside
  <2> QED
    BY <1>2, <2>1, <2>2, <2>3, <2>4, <2>5, <2>6, <2>7 DEF CallerStep
<1>3. ASSUME NEW a \in Actors, ReleaseStep(a) PROVE Accounted'
  <2>1. CASE DecrementChunkRef(a)
    BY <2>1, DecrementAccounted
  <2>2. CASE \/ DeleteChunkCheck(a) \/ DeleteChunk(a)
             \/ DeleteChunkGone(a) /\ a \in Sessions
    <3>1. /\ UNCHANGED <<manifests, held, faults, man, chunks>>
          /\ \A b \in Actors \ {a} : pc'[b] = pc[b] /\ pos'[b] = pos[b]
          /\ pc[a] \in {"check", "unlink"}
          /\ \/ pc'[a] = "unlink" /\ pos'[a] = pos[a] /\ pc[a] = "check"
             \/ pc'[a] = "release" /\ pos'[a] = pos[a] + 1
      BY <2>2, <1>b DEF DeleteChunkCheck, DeleteChunk, DeleteChunkGone, Continue, Goto, dataVars,
                        localVars, histVars
    <3>2. \A b \in Actors : pc[b] \in ReleasePc \/ pc'[b] \in ReleasePc => GoesOn(b)
      BY <3>1 DEF GoesOn, ReleasePc
    <3>3. \A s \in Sessions : Storing(s) \/ Stored(s) => (Storing(s) \/ Stored(s))'
      BY <3>1 DEF Storing, Stored
    <3> QED
      BY <3>1, <3>2, <3>3, AccountedFrame
  <2>3. CASE DeleteChunkGone(a) /\ a \in Callers
    <3>1. pc[a] = "unlink" /\ Return(a, "idle") /\ UNCHANGED <<manifests, held, faults>>
      BY <2>3 DEF DeleteChunkGone, dataVars
    <3>2. /\ pc'[a] = "idle" /\ chunks' = chunks /\ \A b \in Actors \ {a} : LocalsSame(b)
      BY <3>1, <1>a, ReturnLocals
    <3>3. manifests[key[a]] = man[a] /\ key[a] \in Keys
      BY <2>3, <3>1, <1>a DEF ReadsStable, LocalsOK, Deleting, ReleasePc
    <3>4. \A s \in Sessions : man[a] = s => Stored(s)'
      BY <3>1, <3>3 DEF Stored
    <3>5. \A b \in Actors \ {a} : pc[b] \in ReleasePc \/ pc'[b] \in ReleasePc => GoesOn(b)
      BY <3>2 DEF GoesOn, LocalsSame
    <3>6. \A s \in Sessions : Storing(s) \/ Stored(s) => (Storing(s) \/ Stored(s))'
      BY <2>3, <3>1, <3>2 DEF Storing, Stored, LocalsSame
    <3> QED
      BY <3>1, <3>2, <3>4, <3>5, <3>6, AccountedFrame DEF ReleasePc
  <2>4. CASE ReleaseDone(a) /\ faults = 0
    <3>1. /\ pc[a] = "release" /\ UNCHANGED <<held, faults>>
          /\ \/ a \in Sessions /\ Return(a, "done") /\ manifests' = manifests
             \/ a \in Callers /\ Return(a, "idle") /\ manifests' = [manifests EXCEPT ![key[a]] = None]
      BY <2>4 DEF ReleaseDone, histVars
    <3>2. /\ pc'[a] \in {"done", "idle"} /\ chunks' = chunks /\ \A b \in Actors \ {a} : LocalsSame(b)
      BY <3>1, <1>a, ReturnLocals
    <3>3. Ahead(a) = {} /\ \A r \in held : r[1] # man[a]
      BY <2>4, NoneLeft
    <3>4. a \in Callers => manifests[key[a]] = man[a] /\ key[a] \in Keys
      BY <3>1, <1>a DEF ReadsStable, LocalsOK, Deleting, ReleasePc
    <3>5. \A b \in Actors \ {a} : pc[b] \in ReleasePc \/ pc'[b] \in ReleasePc => GoesOn(b)
      BY <3>2 DEF GoesOn, LocalsSame
    <3>6. \A s \in Sessions : Storing(s) \/ Stored(s) => (Storing(s) \/ Stored(s))' \/ s = man[a]
      BY <1>b, <3>1, <3>2, <3>4 DEF Storing, Stored, LocalsSame
    <3> QED
      BY <3>1, <3>2, <3>3, <3>5, <3>6, AccountedFrame DEF ReleasePc
  <2>5. CASE ReleaseDone(a) /\ faults # 0
    BY <2>5 DEF ReleaseDone, histVars, Accounted
  <2> QED
    BY <1>3, <2>1, <2>2, <2>3, <2>4, <2>5 DEF ReleaseStep, DeleteChunkGone
<1>4. CASE GcStep \/ (\E c \in Chunks : Age(c)) \/ UNCHANGED vars
  <2>1. UNCHANGED <<manifests, pc, localVars, held, faults>>
    BY <1>4 DEF GcStep, GcReadIndex, GcListFiles, GcSkip, GcFindOrphan, GcRemoveFile, GcDone, Age,
                vars, dataVars, histVars
  <2> QED
    BY <2>1 DEF Accounted, Ahead, Storing, Stored, localVars
<1>5. CASE FaultStep
  BY <1>5, AccountedFault DEF FaultStep, FlushFails, CommitFails, ReleaseFails, RenameFails, Crash
<1> QED
  BY <1>1, <1>2, <1>3, <1>4, <1>5 DEF Next

-----------------------------------------------------------------------------
(* What the index counts is on disk *)

\* A step that leaves the counts and the files alone, keeps the collector where
\* it is or stops it, and brings nobody to count or remove a chunk.
Aside ==
  /\ UNCHANGED <<refs, files, contended>>
  /\ gc' = gc \/ gc' = NoSweep
  /\ \A a \in Actors : pc'[a] = "addref" => pc[a] = "addref" /\ cur'[a] = cur[a]
  /\ \A a \in Actors : pc'[a] \in {"check", "unlink"} =>
       pc[a] \in {"check", "unlink"} /\ cur'[a] = cur[a]

\* Such a step keeps what is counted on disk.
LEMMA AsideKeeps ==
  ASSUME FilesKept, Aside
  PROVE  FilesKept'
<1> SUFFICES ASSUME NEW c \in Chunks, c \notin contended'
             PROVE  (/\ refs[c] > 0 \/ Counting(c) => c \in files
                     /\ Removing(c, gc) => refs[c] = 0)'
  BY DEF FilesKept
<1>1. c \notin contended /\ refs' = refs /\ files' = files
  BY DEF Aside
<1>2. Counting(c)' => Counting(c)
  BY DEF Aside, Counting, Actors
<1>3. Removing(c, gc)' => Removing(c, gc)
  BY NoneAssumption DEF NoneAssumption, Aside, Removing, NoSweep
<1> QED
  BY <1>1, <1>2, <1>3 DEF FilesKept

\* The end of a call is such a step.
LEMMA ReturnAside ==
  ASSUME Basic, NEW a \in Actors, NEW label \in {"done", "lost", "idle"}, Return(a, label),
         UNCHANGED <<refs, files, gc, contended>>
  PROVE  Aside
  BY ReturnLocals DEF Basic, TypeOK, LocalsSame, Aside

\* So is the start of a release, and its next round.
LEMMA ReleaseAside ==
  ASSUME Basic, NEW a \in Actors, Goto(a, "release"), UNCHANGED <<refs, files, gc, contended>>,
         \A b \in Actors \ {a} : cur'[b] = cur[b]
  PROVE  Aside
  BY DEF Basic, TypeOK, ActorTypeOK, Goto, Aside

\* A file that is written is there for those who count it, and contended if
\* somebody is to remove it.
LEMMA WriteKeeps ==
  ASSUME Basic, FilesKept, NEW s \in Sessions, WriteChunk(s)
  PROVE  FilesKept'
<1> USE DEF Basic, TypeOK, ActorTypeOK, DataTypeOK, Goto
<1> DEFINE d == cur[s]
<1>1. /\ UNCHANGED <<refs, cur>> /\ files' = files \cup {d} /\ d \in Chunks
      /\ pc[s] = "write" /\ pc'[s] = "addref" /\ \A a \in Actors \ {s} : pc'[a] = pc[a]
      /\ contended' = IF Removing(d, gc') THEN contended \cup {d} ELSE contended \ {d}
  BY DEF WriteChunk, localVars, LocalsOK
<1>2. /\ gc'.phase = gc.phase /\ gc'.indexed = gc.indexed /\ gc'.victim = gc.victim
      /\ \A c \in Chunks \ {d} : c \in gc'.stale => c \in gc.stale
  BY DEF WriteChunk
<1> HIDE DEF d
<1> SUFFICES ASSUME NEW c \in Chunks, c \notin contended'
             PROVE  (/\ refs[c] > 0 \/ Counting(c) => c \in files
                     /\ Removing(c, gc) => refs[c] = 0)'
  BY DEF FilesKept
<1>3. CASE c = d
  <2>1. ~Removing(c, gc')
    BY <1>1, <1>3
  <2>2. ~Removing(c, gc)'
    BY <1>1, <2>1 DEF Removing
  <2> QED
    BY <1>1, <1>3, <2>2
<1>4. CASE c # d
  <2>1. c \notin contended
    BY <1>1, <1>4
  <2>2. Counting(c)' => Counting(c)
    BY <1>1, <1>4 DEF Counting, Actors, d
  <2>3. Removing(c, gc)' => Removing(c, gc)
    BY <1>1, <1>2, <1>4 DEF Removing
  <2> QED
    BY <1>1, <2>1, <2>2, <2>3 DEF FilesKept
<1> QED
  BY <1>3, <1>4

\* A chunk that is counted is on disk, and contended if it is on its way out.
LEMMA AddKeeps ==
  ASSUME Basic, FilesKept, NEW s \in Sessions, AddChunkRef(s)
  PROVE  FilesKept'
<1> USE DEF Basic, TypeOK, ActorTypeOK, DataTypeOK, Goto
<1> DEFINE d == cur[s]
<1>1. /\ UNCHANGED <<files, gc>> /\ d \in Chunks /\ refs' = [refs EXCEPT ![d] = @ + 1]
      /\ pc[s] = "addref" /\ pc'[s] = "open"
      /\ \A a \in Actors \ {s} : pc'[a] = pc[a] /\ cur'[a] = cur[a]
      /\ contended' = IF Removing(d, gc) THEN contended \cup {d} ELSE contended
  BY DEF AddChunkRef, Count, LocalsOK
<1>2. Counting(d)
  BY <1>1 DEF Counting
<1> HIDE DEF d
<1> SUFFICES ASSUME NEW c \in Chunks, c \notin contended'
             PROVE  (/\ refs[c] > 0 \/ Counting(c) => c \in files
                     /\ Removing(c, gc) => refs[c] = 0)'
  BY DEF FilesKept
<1>3. c \notin contended
  BY <1>1
<1>4. Counting(c)' => Counting(c)
  BY <1>1 DEF Counting, Actors
<1>5. Removing(c, gc)' => Removing(c, gc)
  BY <1>1 DEF Removing
<1>6. c = d => ~Removing(c, gc) /\ c \in files
  BY <1>1, <1>2, <1>3 DEF FilesKept
<1> QED
  BY <1>1, <1>3, <1>4, <1>5, <1>6 DEF FilesKept

\* What an upload's steps do to the counted chunks and the files.
LEMMA SessionKeeps ==
  ASSUME Basic, FilesKept, NEW s \in Sessions, SessionStep(s)
  PROVE  FilesKept'
<1> USE DEF Basic, TypeOK, ActorTypeOK, Goto, histVars
<1>1. CASE \E k \in Keys : BeginStore(s, k)
  <2>1. Aside
    BY <1>1 DEF BeginStore, Aside, dataVars
  <2> QED
    BY <2>1, AsideKeeps
<1>2. CASE \E c \in Chunks : FlushChunk(s, c)
  <2>1. PICK d \in Chunks : FlushChunk(s, d)
    BY <1>2
  <2>2. /\ UNCHANGED <<refs, files, gc, contended>>
        /\ pc'[s] = IF d \in files THEN "addref" ELSE "write"
        /\ cur'[s] = d
        /\ \A a \in Actors \ {s} : pc'[a] = pc[a] /\ cur'[a] = cur[a]
    BY <2>1 DEF FlushChunk, dataVars
  <2>3. ASSUME NEW c \in Chunks
        PROVE  /\ Counting(c)' => Counting(c) \/ c \in files
               /\ Removing(c, gc)' => Removing(c, gc)
    BY <2>2 DEF Counting, Removing, Actors
  <2> QED
    BY <2>2, <2>3 DEF FilesKept
<1>3. CASE WriteChunk(s)
  BY <1>3, WriteKeeps
<1>4. CASE AddChunkRef(s)
  BY <1>4, AddKeeps
<1>5. CASE Finish(s)
  <2>1. Aside
    BY <1>5 DEF Finish, Aside, dataVars, localVars
  <2> QED
    BY <2>1, AsideKeeps
<1>6. CASE LockCommit(s)
  <2>1. Aside
    BY <1>6 DEF LockCommit, Aside, dataVars
  <2> QED
    BY <2>1, AsideKeeps
<1>7. CASE PutManifest(s)
  <2>1. CASE Return(s, "done")
    BY <1>7, <2>1, ReturnAside, AsideKeeps DEF PutManifest
  <2>2. CASE StartRelease(s, man[s]) /\ cur' = cur
    BY <1>7, <2>2, ReleaseAside, AsideKeeps DEF PutManifest, StartRelease
  <2> QED
    BY <1>7, <2>1, <2>2 DEF PutManifest
<1>8. CASE Abort(s)
  BY <1>8, ReleaseAside, AsideKeeps DEF Abort, StartRelease, dataVars
<1> QED
  BY <1>1, <1>2, <1>3, <1>4, <1>5, <1>6, <1>7, <1>8 DEF SessionStep

\* Deletes and renames start and move objects, and count nothing.
LEMMA CallerKeeps ==
  ASSUME Basic, FilesKept, NEW t \in Callers, CallerStep(t)
  PROVE  FilesKept'
<1> USE DEF dataVars, localVars, histVars
<1>1. CASE \E k \in Keys : DeleteCall(t, k)
  <2>1. Aside
    BY <1>1 DEF Basic, TypeOK, ActorTypeOK, Goto, DeleteCall, Aside
  <2> QED
    BY <2>1, AsideKeeps
<1>2. CASE DeleteLock(t)
  <2>1. CASE Return(t, "idle")
    BY <1>2, <2>1, ReturnAside, AsideKeeps DEF DeleteLock
  <2>2. CASE StartRelease(t, manifests[key[t]]) /\ cur' = cur
    BY <1>2, <2>2, ReleaseAside, AsideKeeps DEF DeleteLock, StartRelease
  <2> QED
    BY <1>2, <2>1, <2>2 DEF DeleteLock
<1>3. CASE \E from, to \in Keys : RenameCall(t, from, to)
  <2>1. Aside
    BY <1>3 DEF Basic, TypeOK, ActorTypeOK, Goto, RenameCall, Aside
  <2> QED
    BY <2>1, AsideKeeps
<1>4. CASE RenameLockFirst(t)
  <2>1. Aside
    BY <1>4 DEF Basic, TypeOK, ActorTypeOK, Goto, RenameLockFirst, Aside
  <2> QED
    BY <2>1, AsideKeeps
<1>5. CASE RenameLockSecond(t)
  <2>1. CASE Return(t, "idle")
    BY <1>5, <2>1, ReturnAside, AsideKeeps DEF RenameLockSecond
  <2>2. CASE Goto(t, "rput") /\ cur' = cur
    <3>1. Aside
      BY <1>5, <2>2 DEF Basic, TypeOK, ActorTypeOK, Goto, RenameLockSecond, Aside
    <3> QED
      BY <3>1, AsideKeeps
  <2> QED
    BY <1>5, <2>1, <2>2 DEF RenameLockSecond
<1>6. CASE RenamePut(t)
  <2>1. Aside
    BY <1>6 DEF Basic, TypeOK, ActorTypeOK, Goto, RenamePut, Aside
  <2> QED
    BY <2>1, AsideKeeps
<1>7. CASE RenameDelete(t)
  BY <1>7, ReturnAside, AsideKeeps DEF RenameDelete
<1> QED
  BY <1>1, <1>2, <1>3, <1>4, <1>5, <1>6, <1>7 DEF CallerStep

\* Dropping a reference sends the actor to unlink a chunk nobody counts; a chunk
\* that was contended stays so while somebody counts it.
LEMMA DecrementKeeps ==
  ASSUME Basic, FilesKept, NEW a \in Actors, DecrementChunkRef(a)
  PROVE  FilesKept'
<1> DEFINE d == chunks[man[a]][pos[a]]
<1>1. /\ pc[a] = "release" /\ d \in Chunks /\ UNCHANGED <<files, gc>>
      /\ refs \in [Chunks -> Nat] /\ refs' = [refs EXCEPT ![d] = IF @ > 0 THEN @ - 1 ELSE 0]
      /\ contended' = IF refs[d] > 1 \/ Counting(d) THEN contended ELSE contended \ {d}
      /\ \A b \in Actors \ {a} : pc'[b] = pc[b] /\ cur'[b] = cur[b]
      /\ \/ refs[d] = 1 /\ pc'[a] = "check" /\ cur'[a] = d
         \/ refs[d] # 1 /\ pc'[a] = "release"
  BY DEF DecrementChunkRef, Basic, TypeOK, ActorTypeOK, DataTypeOK, LocalsOK, ReleasePc, Goto
<1> HIDE DEF d
<1> SUFFICES ASSUME NEW c \in Chunks, c \notin contended'
             PROVE  (/\ refs[c] > 0 \/ Counting(c) => c \in files
                     /\ Removing(c, gc) => refs[c] = 0)'
  BY DEF FilesKept
<1>2. Counting(c)' => Counting(c)
  BY <1>1 DEF Counting, Actors
<1>3. CASE c # d
  <2>1. c \notin contended /\ refs'[c] = refs[c]
    BY <1>1, <1>3
  <2>2. Removing(c, gc)' => Removing(c, gc)
    BY <1>1, <1>3 DEF Removing
  <2> QED
    BY <1>1, <1>2, <2>1, <2>2 DEF FilesKept
<1>4. CASE c = d /\ refs[d] <= 1
  <2>1. refs'[c] = 0
    BY <1>1, <1>4
  <2>2. Counting(c) => c \in files
    BY <1>1, <1>4 DEF FilesKept
  <2> QED
    BY <1>1, <1>2, <2>1, <2>2
<1>5. CASE c = d /\ refs[d] > 1
  <2>1. c \notin contended
    BY <1>1, <1>5
  <2>2. Removing(c, gc)' => Removing(c, gc)
    BY <1>1, <1>5 DEF Removing
  <2>3. c \in files /\ ~Removing(c, gc)
    BY <1>1, <1>5, <2>1 DEF FilesKept
  <2> QED
    BY <1>1, <2>2, <2>3
<1>6. refs[d] \in Nat
  BY <1>1
<1> QED
  BY <1>3, <1>4, <1>5, <1>6

\* A file that is removed is counted by nobody.
LEMMA RemoveKeeps ==
  ASSUME FilesKept, NEW d \in Chunks, Removing(d, gc), Remove(d), refs' = refs,
         \A c \in Chunks : Counting(c)' => Counting(c),
         \A c \in Chunks : Removing(c, gc)' => Removing(c, gc)
  PROVE  FilesKept'
  BY DEF FilesKept, Remove

\* A release removes the file of a chunk only when it dropped its last
\* reference.
LEMMA ReleaseKeeps ==
  ASSUME Basic, FilesKept, NEW a \in Actors, ReleaseStep(a)
  PROVE  FilesKept'
<1> USE DEF dataVars, histVars
<1>1. CASE DecrementChunkRef(a)
  BY <1>1, DecrementKeeps
<1>2. CASE DeleteChunkCheck(a)
  <2>1. CASE cur[a] \in files
    <3>1. Aside
      BY <1>2, <2>1 DEF Basic, TypeOK, ActorTypeOK, Goto, DeleteChunkCheck, Aside, localVars
    <3> QED
      BY <3>1, AsideKeeps
  <2>2. CASE cur[a] \notin files
    <3>1. /\ Goto(a, "release") /\ UNCHANGED <<refs, files, gc, contended>>
          /\ \A b \in Actors \ {a} : cur'[b] = cur[b]
      BY <1>2, <2>2 DEF Basic, TypeOK, ActorTypeOK, DeleteChunkCheck, Continue
    <3> QED
      BY <3>1, ReleaseAside, AsideKeeps
  <2> QED
    BY <2>1, <2>2
<1>3. CASE DeleteChunk(a)
  <2>1. /\ pc[a] = "unlink" /\ pc'[a] = "release" /\ cur[a] \in Chunks
        /\ Remove(cur[a]) /\ UNCHANGED <<refs, gc>>
        /\ \A b \in Actors \ {a} : pc'[b] = pc[b] /\ cur'[b] = cur[b]
    BY <1>3 DEF Basic, TypeOK, ActorTypeOK, LocalsOK, Goto, DeleteChunk, Continue
  <2>2. Removing(cur[a], gc)
    BY <2>1 DEF Removing
  <2>3. /\ \A c \in Chunks : Counting(c)' => Counting(c)
        /\ \A c \in Chunks : Removing(c, gc)' => Removing(c, gc)
    BY <2>1 DEF Counting, Removing, Actors
  <2> QED
    BY <2>1, <2>2, <2>3, RemoveKeeps
<1>4. CASE DeleteChunkGone(a)
  <2>1. CASE Continue(a)
    <3>1. /\ Goto(a, "release") /\ UNCHANGED <<refs, files, gc, contended>>
          /\ \A b \in Actors \ {a} : cur'[b] = cur[b]
      BY <1>4, <2>1 DEF Basic, TypeOK, ActorTypeOK, DeleteChunkGone, Continue
    <3> QED
      BY <3>1, ReleaseAside, AsideKeeps
  <2>2. CASE Return(a, "idle")
    BY <1>4, <2>2, ReturnAside, AsideKeeps DEF DeleteChunkGone
  <2> QED
    BY <1>4, <2>1, <2>2 DEF DeleteChunkGone
<1>5. CASE ReleaseDone(a)
  BY <1>5, ReturnAside, AsideKeeps DEF ReleaseDone
<1> QED
  BY <1>1, <1>2, <1>3, <1>4, <1>5 DEF ReleaseStep

\* What the collector takes for an orphan has no entry in the index, and gets
\* none from now on that does not make it contended.
LEMMA GcKeeps ==
  ASSUME Basic, FilesKept, GcStep
  PROVE  FilesKept'
<1> USE DEF dataVars, localVars, histVars
<1>1. /\ UNCHANGED <<refs, pc, cur>> /\ refs \in [Chunks -> Nat]
      /\ gc \in [phase : {"idle", "list", "sweep"}, indexed : SUBSET Chunks,
                 stale : SUBSET Chunks, todo : SUBSET Chunks, victim : Chunks \cup {None}]
  BY Quiet DEF Basic, TypeOK, DataTypeOK
<1>2. \A c \in Chunks : Counting(c)' => Counting(c)
  BY <1>1 DEF Counting
<1>3. ASSUME UNCHANGED <<files, contended>>,
             \A c \in Chunks \ contended :
               Removing(c, gc)' => Removing(c, gc) \/ refs[c] = 0
      PROVE  FilesKept'
  BY <1>1, <1>2, <1>3 DEF FilesKept
<1>4. CASE GcReadIndex
  <2>1. /\ UNCHANGED <<files, contended>> /\ gc'.victim = None
        /\ gc'.indexed = {c \in Chunks : refs[c] > 0}
    BY <1>4 DEF GcReadIndex, NoSweep
  <2>2. \A c \in Chunks \ contended : Removing(c, gc)' => Removing(c, gc) \/ refs[c] = 0
    BY <1>1, <2>1, NoneAssumption DEF NoneAssumption, Removing
  <2> QED
    BY <1>3, <2>1, <2>2
<1>5. CASE GcListFiles
  <2>1. /\ UNCHANGED <<files, contended>> /\ gc.phase # "idle"
        /\ gc'.victim = gc.victim /\ gc'.indexed = gc.indexed /\ gc'.stale = gc.stale
    BY <1>1, <1>5 DEF GcListFiles
  <2>2. \A c \in Chunks \ contended : Removing(c, gc)' => Removing(c, gc)
    BY <1>1, <2>1 DEF Removing
  <2> QED
    BY <1>3, <2>1, <2>2
<1>6. ASSUME NEW d \in Chunks, GcSkip(d) PROVE FilesKept'
  <2>1. /\ UNCHANGED <<files, contended>> /\ gc'.phase = gc.phase
        /\ gc'.victim = gc.victim /\ gc'.indexed = gc.indexed /\ gc'.stale = gc.stale
    BY <1>1, <1>6 DEF GcSkip
  <2>2. \A c \in Chunks \ contended : Removing(c, gc)' => Removing(c, gc)
    BY <1>1, <2>1 DEF Removing
  <2> QED
    BY <1>3, <2>1, <2>2
<1>7. ASSUME NEW d \in Chunks, GcFindOrphan(d) PROVE FilesKept'
  <2>1. /\ UNCHANGED <<files, contended>> /\ gc.phase = "sweep" /\ gc'.phase = gc.phase
        /\ gc'.victim = d /\ gc'.indexed = gc.indexed /\ gc'.stale = gc.stale
        /\ d \notin gc.indexed /\ (d \in files => d \in gc.stale)
    BY <1>1, <1>7 DEF GcFindOrphan, Recent
  <2>2. d \notin contended => refs[d] = 0
    <3>1. CASE d \in files
      BY <2>1, <3>1 DEF FilesKept, Removing
    <3>2. CASE d \notin files
      BY <1>1, <3>2 DEF FilesKept
    <3> QED
      BY <3>1, <3>2
  <2>3. \A c \in Chunks \ contended : Removing(c, gc)' => Removing(c, gc) \/ refs[c] = 0
    BY <1>1, <2>1, <2>2 DEF Removing
  <2> QED
    BY <1>3, <2>1, <2>3
<1>8. CASE GcRemoveFile
  <2>1. /\ gc.victim \in Chunks /\ Remove(gc.victim) /\ gc'.phase = gc.phase
        /\ gc'.victim = None /\ gc'.indexed = gc.indexed /\ gc'.stale = gc.stale
    BY <1>1, <1>8 DEF GcRemoveFile
  <2>2. Removing(gc.victim, gc)
    BY DEF Removing
  <2>3. \A c \in Chunks : Removing(c, gc)' => Removing(c, gc)
    BY <1>1, <2>1, NoneAssumption DEF NoneAssumption, Removing
  <2> QED
    BY <1>1, <1>2, <2>1, <2>2, <2>3, RemoveKeeps
<1>9. CASE GcDone
  <2>1. /\ files' = files /\ gc' = NoSweep /\ gc'.phase = "idle" /\ gc'.victim = None
        /\ contended' = {c \in contended : c \notin files \/ Removing(c, NoSweep)}
    BY <1>9 DEF GcDone, NoSweep
  <2>2. ASSUME NEW c \in Chunks, c \notin contended'
        PROVE  (/\ refs[c] > 0 \/ Counting(c) => c \in files
                /\ Removing(c, gc) => refs[c] = 0)'
    <3>1. Removing(c, gc)' => Removing(c, gc) /\ Removing(c, NoSweep)
      BY <1>1, <2>1, NoneAssumption DEF NoneAssumption, Removing
    <3>2. CASE c \in contended
      BY <1>1, <2>1, <2>2, <3>1, <3>2
    <3>3. CASE c \notin contended
      BY <1>1, <1>2, <2>1, <3>1, <3>3 DEF FilesKept
    <3> QED
      BY <3>2, <3>3
  <2> QED
    BY <2>2 DEF FilesKept
<1> QED
  BY <1>4, <1>5, <1>6, <1>7, <1>8, <1>9 DEF GcStep

\* Failures and kills leave counts and files as they are.
LEMMA FaultKeeps ==
  ASSUME Basic, FilesKept, FaultStep
  PROVE  FilesKept'
<1> USE DEF dataVars
<1>1. ASSUME NEW s \in Sessions, FlushFails(s) PROVE FilesKept'
  <2>1. CASE Return(s, "lost")
    BY <1>1, <2>1, ReturnAside, AsideKeeps DEF FlushFails
  <2>2. CASE StartRelease(s, s) /\ cur' = [cur EXCEPT ![s] = None]
    <3>1. /\ Goto(s, "release") /\ UNCHANGED <<refs, files, gc, contended>>
          /\ \A b \in Actors \ {s} : cur'[b] = cur[b]
      BY <1>1, <2>2 DEF Basic, TypeOK, ActorTypeOK, FlushFails, StartRelease
    <3> QED
      BY <3>1, ReleaseAside, AsideKeeps
  <2> QED
    BY <1>1, <2>1, <2>2 DEF FlushFails
<1>2. ASSUME NEW s \in Sessions, CommitFails(s) PROVE FilesKept'
  BY <1>2, ReturnAside, AsideKeeps DEF CommitFails
<1>3. ASSUME NEW a \in Actors, ReleaseFails(a) PROVE FilesKept'
  <2>1. CASE Continue(a)
    <3>1. /\ Goto(a, "release") /\ UNCHANGED <<refs, files, gc, contended>>
          /\ \A b \in Actors \ {a} : cur'[b] = cur[b]
      BY <1>3, <2>1 DEF Basic, TypeOK, ActorTypeOK, ReleaseFails, Continue
    <3> QED
      BY <3>1, ReleaseAside, AsideKeeps
  <2>2. CASE Return(a, "done")
    BY <1>3, <2>2, ReturnAside, AsideKeeps DEF ReleaseFails
  <2>3. CASE Return(a, "idle")
    BY <1>3, <2>3, ReturnAside, AsideKeeps DEF ReleaseFails
  <2> QED
    BY <1>3, <2>1, <2>2, <2>3 DEF ReleaseFails
<1>4. ASSUME NEW t \in Callers, RenameFails(t) PROVE FilesKept'
  BY <1>4, ReturnAside, AsideKeeps DEF RenameFails
<1>5. CASE Crash
  <2>1. Aside
    <3>1. \A a \in Actors : pc'[a] \notin {"addref", "check", "unlink"}
      BY <1>5 DEF Crash
    <3>2. UNCHANGED <<refs, files, contended>> /\ gc' = NoSweep
      BY <1>5 DEF Crash
    <3> QED
      BY <3>1, <3>2 DEF Aside
  <2> QED
    BY <2>1, AsideKeeps
<1> QED
  BY <1>1, <1>2, <1>3, <1>4, <1>5 DEF FaultStep

\* Every step keeps what is counted on disk.
LEMMA FilesNext == Basic /\ FilesKept /\ [Next]_vars => FilesKept'
<1> SUFFICES ASSUME Basic, FilesKept, [Next]_vars PROVE FilesKept'
  OBVIOUS
<1>1. CASE UNCHANGED vars
  <2>1. UNCHANGED <<pc, cur, refs, files, gc, contended>>
    BY <1>1 DEF vars, dataVars, localVars, histVars
  <2>2. Aside
    BY <2>1 DEF Aside
  <2> QED
    BY <2>2, AsideKeeps
<1>2. CASE Next
  <2>1. ASSUME NEW c \in Chunks, Age(c) PROVE Aside
    BY <2>1 DEF Age, Aside, localVars, histVars
  <2> QED
    BY <1>2, <2>1, AsideKeeps, SessionKeeps, CallerKeeps, ReleaseKeeps, GcKeeps, FaultKeeps DEF Next
<1> QED
  BY <1>1, <1>2

-----------------------------------------------------------------------------
(* The theorems *)

\* The invariant holds at the start.
LEMMA InvInit == Init => IInv
<1> SUFFICES ASSUME Init PROVE IInv
  OBVIOUS
<1> USE ActorsAssumption, NoneAssumption DEF ActorsAssumption, NoneAssumption
<1>1. Basic
  BY BasicInit
<1>2. /\ \A a \in Actors : pc[a] \in {"none", "idle"}
      /\ \A k \in Keys : manifests[k] = None
      /\ \A s \in Sessions : pc[s] = "none" /\ chunks[s] = <<>>
      /\ held = {} /\ refs = [c \in Chunks |-> 0]
  BY DEF Init
<1>3. LocksHeld /\ ReadsStable /\ OnlyCommitted /\ ReplacedOnce
  BY <1>2 DEF LocksHeld, ReadsStable, OnlyCommitted, ReplacedOnce, Replacing, Deleting, ReleasePc
<1>4. ReferencesHeld /\ StoredHeld /\ OneName
  BY <1>2 DEF ReferencesHeld, StoredHeld, OneName, References, ReleasePc
<1>5. IsFiniteSet(held) /\ RefsExact /\ Accounted
  <2>1. \A c \in Chunks : {r \in held : chunks[r[1]][r[2]] = c} = {}
    BY <1>2
  <2> QED
    BY <1>2, <2>1, FS_EmptySet DEF RefsExact, Accounted, ReleasePc
<1>6. FilesKept
  BY <1>2 DEF Init, NoSweep, FilesKept, Counting, Removing, Actors
<1> QED
  BY <1>1, <1>3, <1>4, <1>5, <1>6 DEF IInv

\* Every step keeps it.
LEMMA InvNext == IInv /\ [Next]_vars => IInv'
<1> SUFFICES ASSUME IInv, [Next]_vars PROVE IInv'
  OBVIOUS
<1>1. /\ Basic /\ LocksHeld /\ ReadsStable /\ OnlyCommitted /\ OneName /\ ReplacedOnce
      /\ ReferencesHeld /\ StoredHeld /\ Exact /\ Accounted /\ FilesKept
  BY DEF IInv, Exact
<1>2. Basic'
  BY <1>1, DataTypeNext, ActorNext DEF Basic, TypeOK
<1>3. LocksHeld' /\ ReadsStable' /\ OnlyCommitted' /\ OneName' /\ ReplacedOnce'
  BY <1>1, LocksNext, ReadsNext, OnlyCommittedNext, OneNameNext, ReplacedOnceNext
<1>4. ReferencesHeld' /\ StoredHeld' /\ Exact' /\ Accounted' /\ FilesKept'
  BY <1>1, ReferencesHeldNext, StoredHeldNext, ExactNext, AccountedNext, FilesNext
<1> QED
  BY <1>2, <1>3, <1>4 DEF IInv, Exact

\* The invariant holds in every state of every behaviour.
THEOREM Invariant == Spec => []IInv
  BY InvInit, InvNext, PTL DEF Spec

\* Reference counts are exact, whatever finish, abort, delete, rename, failures
\* and restarts do at the same time.
THEOREM CountsExact == Spec => []RefsExact
<1>1. IInv => RefsExact
  BY DEF IInv
<1> QED
  BY <1>1, Invariant, PTL

\* A stored object holds all its references until its delete runs.
THEOREM ObjectsHeld == Spec => []StoredHeld
<1>1. IInv => StoredHeld
  BY DEF IInv
<1> QED
  BY <1>1, Invariant, PTL

\* An object has one name except half-way through its rename.
THEOREM NamesUnique == Spec => []OneName
<1>1. IInv => OneName
  BY DEF IInv
<1> QED
  BY <1>1, Invariant, PTL

\* Between calls the references that are held are those of the stored objects.
LEMMA QuietReferences ==
  ASSUME IInv, faults = 0, damaged = {}, \A a \in Actors : pc[a] \in {"none", "done", "idle"}
  PROVE  held = UNION {References(u) : u \in {v \in Sessions : Stored(v)}}
<1> USE ActorsAssumption DEF ActorsAssumption
<1>1. ASSUME NEW r \in held
      PROVE  r \in UNION {References(u) : u \in {v \in Sessions : Stored(v)}}
  <2>1. r[1] \in Sessions /\ r = <<r[1], r[2]>> /\ r[2] \in 1..Len(chunks[r[1]])
    BY <1>1 DEF IInv, Basic, TypeOK, DataTypeOK, ActorTypeOK, ReferencesHeld
  <2>2. Stored(r[1])
    BY <1>1, <2>1 DEF IInv, Accounted, Storing, ReleasePc
  <2>3. r \in References(r[1])
    BY <2>1 DEF References
  <2> QED
    BY <2>1, <2>2, <2>3
<1>2. ASSUME NEW u \in Sessions, Stored(u) PROVE References(u) \subseteq held
  BY <1>2 DEF IInv, StoredHeld, Stored, Deleting, ReleasePc
<1> QED
  BY <1>1, <1>2

\* Between calls, without failures, the index counts exactly the references of
\* the stored objects: overwriting, aborting and deleting leak nothing.
THEOREM QuietCounts == Spec => []QuiescentExact
<1>1. IInv => QuiescentExact
  BY QuietReferences DEF IInv, QuiescentExact, RefsExact, Undamaged
<1> QED
  BY <1>1, Invariant, PTL

-----------------------------------------------------------------------------
(* What is stored can be read *)

\* A stored object whose delete is not under way holds a reference to each of
\* its chunks, a held reference is counted, and what is counted is on disk.
LEMMA CountedReadable == IInv => ReadableUnlessContended
<1> SUFFICES ASSUME IInv, NEW k \in Keys, NEW u \in Sessions, manifests[k] = u,
                    ~\E t \in Callers : Deleting(t) /\ key[t] = k /\ man[t] = u,
                    NEW c \in Contents(u), c \notin contended, Undamaged(c)
             PROVE  c \in files
  BY DEF ReadableUnlessContended
<1>1. PICK i \in 1..Len(chunks[u]) : chunks[u][i] = c
  BY DEF Contents
<1>2. chunks[u] \in Seq(Chunks) /\ c \in Chunks
  BY <1>1 DEF IInv, Basic, TypeOK, ActorTypeOK
<1>3. u \notin damaged
  BY DEF Undamaged
<1>5. <<u, i>> \in held
  <2>1. References(u) \subseteq held
    BY <1>3 DEF IInv, StoredHeld
  <2>2. <<u, i>> \in References(u)
    BY <1>1 DEF References
  <2> QED
    BY <2>1, <2>2
<1> DEFINE Of == {r \in held : chunks[r[1]][r[2]] = c}
<1>6. <<u, i>> \in Of
  BY <1>1, <1>5
<1>7. IsFiniteSet(Of)
  BY FS_Subset DEF IInv
<1>8. refs[c] = Cardinality(Of)
  BY <1>2 DEF IInv, RefsExact
<1>9. Cardinality(Of) \in Nat /\ Cardinality(Of) # 0
  BY <1>6, <1>7, FS_EmptySet, FS_CardinalityType
<1>10. refs[c] > 0
  BY <1>8, <1>9
<1> QED
  BY <1>2, <1>10 DEF IInv, FilesKept

\* Every chunk of a stored object is on disk, beside every other call, a
\* collection, failures and kills, unless it was counted while its file was on
\* its way out.
THEOREM StoredReadable == Spec => []ReadableUnlessContended
  BY CountedReadable, Invariant, PTL

-----------------------------------------------------------------------------
(* The refinement: what one actor's step does to the abstract state *)

StatusOf(label) ==
  CASE label = "none" -> "new"
    [] label \in {"open", "write", "addref", "finish", "put"} -> "running"
    [] OTHER -> "over"

\* a goes to label; no other actor goes anywhere.
Moved(a, label) ==
  /\ pc'[a] = label /\ \A b \in Actors \ {a} : pc'[b] = pc[b]
  /\ \A t \in Callers \ {a} : key'[t] = key[t] /\ dest'[t] = dest[t]

\* What becomes of an upload is what its session's place says.
LEMMA Uploads == uploadBar = [s \in Sessions |-> StatusOf(pc[s])]
  BY DEF uploadBar, StatusOf

\* The same after a step.
LEMMA UploadsPrimed == uploadBar' = [s \in Sessions |-> StatusOf(pc'[s])]
  BY DEF uploadBar, StatusOf

\* The places of a session and what they stand for.
LEMMA Labels ==
  /\ StatusOf("none") = "new"
  /\ \A l \in {"open", "write", "addref", "finish", "put"} : StatusOf(l) = "running"
  /\ \A l \in {"release", "check", "unlink", "done", "lost"} : StatusOf(l) = "over"
  BY DEF StatusOf

\* A caller's step changes no upload, a session's only its own.
LEMMA MovedUploads ==
  ASSUME NEW a \in Actors, NEW label, Moved(a, label)
  PROVE  /\ a \in Callers => uploadBar' = uploadBar
         /\ a \in Sessions => uploadBar' = [uploadBar EXCEPT ![a] = StatusOf(label)]
<1>1. CASE a \in Callers
  <2>1. \A s \in Sessions : pc'[s] = pc[s]
    BY <1>1, ActorsAssumption DEF Moved, ActorsAssumption
  <2> QED
    BY <1>1, <2>1, Uploads, UploadsPrimed, ActorsAssumption DEF ActorsAssumption
<1>2. CASE a \in Sessions
  <2>1. \A s \in Sessions : pc'[s] = IF s = a THEN label ELSE pc[s]
    BY <1>2 DEF Moved
  <2>2. \A s \in Sessions : StatusOf(pc'[s]) = IF s = a THEN StatusOf(label) ELSE StatusOf(pc[s])
    BY <2>1
  <2> QED
    BY <1>2, <2>2, Uploads, UploadsPrimed, ActorsAssumption DEF ActorsAssumption
<1> QED
  BY <1>1, <1>2

\* Only rename's second half is a move under way.
LEMMA MovedMoves ==
  ASSUME NEW a \in Actors, NEW label, Moved(a, label), label # "rdel", pc[a] # "rdel"
  PROVE  movesBar' = movesBar
<1>1. \A t \in Callers : pc'[t] = "rdel" <=> pc[t] = "rdel"
  BY DEF Moved
<1>2. \A t \in Callers : pc[t] = "rdel" => key'[t] = key[t] /\ dest'[t] = dest[t]
  BY DEF Moved
<1> QED
  BY <1>1, <1>2 DEF movesBar

\* A step of a session that does not change what its upload is, or of a caller
\* outside rename's second half, is a stutter if it changes no manifest.
LEMMA Stutters ==
  ASSUME NEW a \in Actors, NEW label, Moved(a, label), label # "rdel", pc[a] # "rdel",
         manifests' = manifests, a \in Sessions => StatusOf(label) = StatusOf(pc[a])
  PROVE  UNCHANGED MS!vars
<1>1. movesBar' = movesBar
  BY MovedMoves
<1>2. CASE a \in Callers
  BY <1>1, <1>2, MovedUploads DEF MS!vars
<1>3. CASE a \in Sessions
  <2>1. uploadBar' = [uploadBar EXCEPT ![a] = uploadBar[a]]
    BY <1>3, MovedUploads, Uploads
  <2>2. uploadBar' = uploadBar
    BY <2>1, Uploads
  <2> QED
    BY <1>1, <2>2 DEF MS!vars
<1> QED
  BY <1>2, <1>3

\* A step that leaves manifests, places and keys alone is a stutter (collector).
LEMMA SameStutters ==
  ASSUME UNCHANGED <<manifests, pc, key, dest>>
  PROVE  UNCHANGED MS!vars
  BY DEF MS!vars, uploadBar, movesBar

\* Ending an operation moves one actor and no other.
LEMMA ReturnMoved ==
  ASSUME ActorTypeOK, NEW a \in Actors, NEW label, Return(a, label)
  PROVE  Moved(a, label)
  BY ReturnLocals DEF Moved, LocalsSame

\* So does going on to its next step.
LEMMA GotoMoved ==
  ASSUME ActorTypeOK, NEW a \in Actors, NEW label, Goto(a, label), UNCHANGED <<key, dest>>
  PROVE  Moved(a, label)
  BY DEF Moved, Goto, ActorTypeOK

\* Whoever holds a key's lock, and is not in the middle of a move itself,
\* finds no move of the key under way.
LEMMA NotMoving ==
  ASSUME IInv, NEW a \in Actors, NEW k \in Keys, keyLock[k] = a, pc[a] # "rdel"
  PROVE  ~MS!Moving(k)
<1> SUFFICES ASSUME NEW t \in Callers, pc[t] = "rdel", k \in {key[t], dest[t]}
             PROVE  FALSE
  BY DEF MS!Moving, movesBar
<1>1. keyLock[k] = t
  BY DEF IInv, LocksHeld
<1> QED
  BY <1>1

\* Two renames are never half-way on the same keys.
LEMMA OneMove ==
  ASSUME IInv, NEW t \in Callers, NEW u \in Callers, pc[t] = "rdel", pc[u] = "rdel",
         key[t] = key[u]
  PROVE  t = u
  BY DEF IInv, LocksHeld

\* The end of a rename's second half is the end of its move.
LEMMA MoveEnds ==
  ASSUME IInv, NEW t \in Callers, NEW label, pc[t] = "rdel", Moved(t, label), label # "rdel"
  PROVE  /\ <<key[t], dest[t]>> \in movesBar
         /\ movesBar' = movesBar \ {<<key[t], dest[t]>>}
<1>1. <<key[t], dest[t]>> \in movesBar
  BY DEF movesBar
<1>2. ASSUME NEW m
      PROVE  m \in movesBar' <=> m \in movesBar /\ m # <<key[t], dest[t]>>
  <2>1. ASSUME m \in movesBar'
        PROVE  m \in movesBar /\ m # <<key[t], dest[t]>>
    <3>1. PICK u \in Callers : pc'[u] = "rdel" /\ m = <<key'[u], dest'[u]>>
      BY <2>1 DEF movesBar
    <3>2. u # t /\ pc[u] = "rdel" /\ m = <<key[u], dest[u]>>
      BY <3>1 DEF Moved
    <3>3. key[u] # key[t]
      BY <3>2, OneMove
    <3> QED
      BY <3>2, <3>3 DEF movesBar
  <2>2. ASSUME m \in movesBar, m # <<key[t], dest[t]>>
        PROVE  m \in movesBar'
    <3>1. PICK u \in Callers : pc[u] = "rdel" /\ m = <<key[u], dest[u]>>
      BY <2>2 DEF movesBar
    <3>2. u # t
      BY <3>1, <2>2
    <3>3. pc'[u] = "rdel" /\ m = <<key'[u], dest'[u]>>
      BY <3>1, <3>2 DEF Moved
    <3> QED
      BY <3>3 DEF movesBar
  <2> QED
    BY <2>1, <2>2
<1> QED
  BY <1>1, <1>2

-----------------------------------------------------------------------------
(* The steps that the abstract store sees *)

\* start_store begins an upload.
LEMMA BeginRefines ==
  ASSUME IInv, NEW s \in Sessions, NEW k \in Keys, BeginStore(s, k)
  PROVE  MS!Begin(s)
<1>1. Moved(s, "open") /\ pc[s] = "none" /\ manifests' = manifests
  BY ActorsAssumption DEF BeginStore, Moved, Goto, IInv, Basic, TypeOK, ActorTypeOK, dataVars,
     ActorsAssumption
<1>2. uploadBar' = [uploadBar EXCEPT ![s] = "running"] /\ movesBar' = movesBar
  BY <1>1, MovedUploads, MovedMoves, Labels
<1>3. uploadBar[s] = "new"
  BY <1>1, Uploads, Labels
<1> QED
  BY <1>1, <1>2, <1>3 DEF MS!Begin

\* An upload that is under way ends without a commit.
LEMMA Discards ==
  ASSUME NEW s \in Sessions, NEW label, Moved(s, label), manifests' = manifests,
         pc[s] \in {"open", "write", "addref", "finish", "put"}, label \in {"release", "lost"}
  PROVE  MS!Discard(s)
<1>1. uploadBar[s] = "running" /\ StatusOf(label) = "over"
  BY Uploads, Labels
<1>2. uploadBar' = [uploadBar EXCEPT ![s] = "over"] /\ movesBar' = movesBar
  BY <1>1, MovedUploads, MovedMoves
<1> QED
  BY <1>1, <1>2 DEF MS!Discard

\* put_manifest is where an upload's object appears, whole, at a key not under way.
LEMMA CommitRefines ==
  ASSUME IInv, NEW s \in Sessions, PutManifest(s)
  PROVE  \E k \in Keys : MS!Commit(s, k)
<1>t. ActorTypeOK /\ LocalsOK
  BY DEF IInv, Basic, TypeOK
<1>1. pc[s] = "put" /\ key[s] \in Keys /\ keyLock[key[s]] = s
  BY <1>t DEF PutManifest, IInv, LocksHeld, LocalsOK
<1>2. Moved(s, "done") \/ Moved(s, "release")
  <2>1. CASE Return(s, "done")
    BY <2>1, <1>t, ReturnMoved
  <2>2. CASE ~Return(s, "done")
    BY <2>2, <1>t, GotoMoved DEF PutManifest, StartRelease
  <2> QED
    BY <2>1, <2>2
<1>3. uploadBar' = [uploadBar EXCEPT ![s] = "over"] /\ movesBar' = movesBar
  BY <1>1, <1>2, MovedUploads, MovedMoves, Labels
<1>4. uploadBar[s] = "running"
  BY <1>1, Uploads, Labels
<1>5. ~MS!Moving(key[s])
  BY <1>1, NotMoving
<1>6. manifests' = [manifests EXCEPT ![key[s]] = s]
  BY DEF PutManifest
<1> QED
  BY <1>1, <1>3, <1>4, <1>5, <1>6 DEF MS!Commit

\* delete's index write, after its releases, is where an object leaves.
LEMMA RemoveRefines ==
  ASSUME IInv, NEW t \in Callers, ReleaseDone(t)
  PROVE  \E k \in Keys : MS!Remove(k)
<1>t. ActorTypeOK /\ LocalsOK /\ DataTypeOK
  BY DEF IInv, Basic, TypeOK
<1>1. Return(t, "idle") /\ manifests' = [manifests EXCEPT ![key[t]] = None] /\ pc[t] = "release"
  BY ActorsAssumption DEF ReleaseDone, ActorsAssumption
<1>2. key[t] \in Keys /\ Deleting(t) /\ man[t] \in Sessions
  BY <1>1, <1>t DEF LocalsOK, Deleting, ReleasePc
<1>3. keyLock[key[t]] = t /\ manifests[key[t]] # None
  BY <1>2, NoneAssumption DEF IInv, LocksHeld, ReadsStable, NoneAssumption
<1>4. ~MS!Moving(key[t])
  BY <1>1, <1>2, <1>3, NotMoving
<1>5. Moved(t, "idle")
  BY <1>1, <1>t, ReturnMoved
<1>6. uploadBar' = uploadBar /\ movesBar' = movesBar
  BY <1>1, <1>5, MovedUploads, MovedMoves
<1> QED
  BY <1>1, <1>2, <1>3, <1>4, <1>6 DEF MS!Remove

\* rename's first write makes the object visible at its new key as well.
LEMMA LinkRefines ==
  ASSUME IInv, NEW t \in Callers, RenamePut(t)
  PROVE  \E from, to \in Keys : MS!Link(from, to)
<1>t. ActorTypeOK /\ LocalsOK /\ DataTypeOK
  BY DEF IInv, Basic, TypeOK
<1>1. /\ pc[t] = "rput" /\ key' = key /\ dest' = dest
      /\ pc' = [pc EXCEPT ![t] = "rdel"]
      /\ manifests' = [manifests EXCEPT ![dest[t]] = man[t]]
  BY DEF RenamePut, Goto, localVars
<1>2. key[t] \in Keys /\ dest[t] \in Keys /\ man[t] \in Sessions
  BY <1>1, <1>t DEF LocalsOK
<1>3. /\ keyLock[key[t]] = t /\ keyLock[dest[t]] = t
      /\ manifests[key[t]] = man[t] /\ manifests[dest[t]] = None
  BY <1>1 DEF IInv, LocksHeld, ReadsStable
<1>4. ~MS!Moving(key[t]) /\ ~MS!Moving(dest[t])
  BY <1>1, <1>2, <1>3, NotMoving
<1>5. Moved(t, "rdel")
  BY <1>1, <1>t, GotoMoved DEF Goto
<1>6. uploadBar' = uploadBar
  BY <1>5, MovedUploads
<1>7. movesBar' = movesBar \cup {<<key[t], dest[t]>>}
  <2>1. {u \in Callers : pc'[u] = "rdel"} = {u \in Callers : pc[u] = "rdel"} \cup {t}
    BY <1>1, <1>5 DEF Moved
  <2> QED
    BY <2>1, <1>1 DEF movesBar
<1> QED
  BY <1>1, <1>2, <1>3, <1>4, <1>6, <1>7, NoneAssumption DEF MS!Link, NoneAssumption

\* rename's second write takes it from the old one.
LEMMA UnlinkRefines ==
  ASSUME IInv, NEW t \in Callers, RenameDelete(t)
  PROVE  \E from, to \in Keys : MS!Unlink(from, to)
<1>t. ActorTypeOK /\ LocalsOK
  BY DEF IInv, Basic, TypeOK
<1>1. pc[t] = "rdel" /\ key[t] \in Keys /\ dest[t] \in Keys
  BY <1>t DEF RenameDelete, LocalsOK
<1>2. Moved(t, "idle") /\ manifests' = [manifests EXCEPT ![key[t]] = None]
  BY <1>t, ReturnMoved DEF RenameDelete
<1>3. uploadBar' = uploadBar
  BY <1>2, MovedUploads
<1> QED
  BY <1>1, <1>2, <1>3, MoveEnds DEF MS!Unlink

\* A rename whose second write fails leaves the object at both keys.
LEMMA GiveUpRefines ==
  ASSUME IInv, NEW t \in Callers, RenameFails(t), pc[t] = "rdel"
  PROVE  \E from, to \in Keys : MS!GiveUp(from, to)
<1>t. ActorTypeOK /\ LocalsOK
  BY DEF IInv, Basic, TypeOK
<1>1. pc[t] = "rdel" /\ key[t] \in Keys /\ dest[t] \in Keys
  BY <1>t DEF RenameFails, LocalsOK
<1>2. Moved(t, "idle") /\ manifests' = manifests
  BY <1>t, ReturnMoved DEF RenameFails, dataVars
<1>3. uploadBar' = uploadBar
  BY <1>2, MovedUploads
<1> QED
  BY <1>1, <1>2, <1>3, MoveEnds DEF MS!GiveUp

\* A kill ends every upload and every move where it is; manifests are kept.
LEMMA RestartRefines ==
  ASSUME IInv, Crash
  PROVE  MS!Restart
<1>t. ActorTypeOK
  BY DEF IInv, Basic, TypeOK
<1>1. manifests' = manifests
  BY DEF Crash, dataVars
<1>2. \A t \in Callers : pc'[t] = "idle"
  BY DEF Crash
<1>3. movesBar' = {}
  BY <1>2 DEF movesBar
<1>4. ASSUME NEW s \in Sessions
      PROVE  StatusOf(pc'[s]) = IF StatusOf(pc[s]) = "running" THEN "over" ELSE StatusOf(pc[s])
  <2>1. pc'[s] = IF pc[s] \in {"none", "done"} THEN pc[s]
                 ELSE IF pc[s] \in ReleasePc /\ ~Aborting(s) THEN "done" ELSE "lost"
    BY ActorsAssumption DEF Crash, ActorsAssumption
  <2>2. pc[s] \in SessionPc
    BY <1>t DEF ActorTypeOK
  <2> QED
    BY <2>1, <2>2 DEF StatusOf, SessionPc, ReleasePc
<1> QED
  BY <1>1, <1>3, <1>4, Uploads, UploadsPrimed DEF MS!Restart

-----------------------------------------------------------------------------
(* Every step *)

AbstractStep == MS!Next \/ UNCHANGED MS!vars

\* Every step of a session: begin, commit, discard, or nothing to see.
LEMMA SessionRefines ==
  ASSUME IInv, NEW s \in Sessions, SessionStep(s)
  PROVE  AbstractStep
<1>t. ActorTypeOK
  BY DEF IInv, Basic, TypeOK
<1> USE DEF AbstractStep
<1>1. CASE \E k \in Keys : BeginStore(s, k)
  BY <1>1, BeginRefines DEF MS!Next
<1>2. CASE \E c \in Chunks : FlushChunk(s, c)
  <2>1. PICK l \in {"addref", "write"} : Goto(s, l)
    BY <1>2 DEF FlushChunk
  <2>2. pc[s] = "open" /\ manifests' = manifests /\ UNCHANGED <<key, dest>>
    BY <1>2 DEF FlushChunk, dataVars
  <2> QED
    BY <2>1, <2>2, <1>t, GotoMoved, Stutters, Labels
<1>3. CASE WriteChunk(s)
  <2>1. Moved(s, "addref") /\ pc[s] = "write" /\ manifests' = manifests
    BY <1>3, <1>t, GotoMoved DEF WriteChunk, localVars
  <2> QED
    BY <2>1, Stutters, Labels
<1>4. CASE AddChunkRef(s)
  <2>1. Moved(s, "open") /\ pc[s] = "addref" /\ manifests' = manifests
    BY <1>4, <1>t, GotoMoved DEF AddChunkRef
  <2> QED
    BY <2>1, Stutters, Labels
<1>5. CASE Finish(s)
  <2>1. Moved(s, "finish") /\ pc[s] = "open" /\ manifests' = manifests
    BY <1>5, <1>t, GotoMoved DEF Finish, localVars, dataVars
  <2> QED
    BY <2>1, Stutters, Labels
<1>6. CASE LockCommit(s)
  <2>1. Moved(s, "put") /\ pc[s] = "finish" /\ manifests' = manifests
    BY <1>6, <1>t, GotoMoved DEF LockCommit, dataVars
  <2> QED
    BY <2>1, Stutters, Labels
<1>7. CASE PutManifest(s)
  BY <1>7, CommitRefines DEF MS!Next
<1>8. CASE Abort(s)
  <2>1. Moved(s, "release") /\ pc[s] = "open" /\ manifests' = manifests
    BY <1>8, <1>t, GotoMoved DEF Abort, StartRelease, dataVars
  <2>2. MS!Discard(s)
    BY <2>1, Discards
  <2> QED
    BY <2>2 DEF MS!Next
<1> QED
  BY <1>1, <1>2, <1>3, <1>4, <1>5, <1>6, <1>7, <1>8 DEF SessionStep

\* Every step of a caller: remove, link, unlink, or nothing to see.
LEMMA CallerRefines ==
  ASSUME IInv, NEW t \in Callers, CallerStep(t)
  PROVE  AbstractStep
<1>t. ActorTypeOK
  BY DEF IInv, Basic, TypeOK
<1>s. t \notin Sessions
  BY ActorsAssumption DEF ActorsAssumption
<1> USE DEF AbstractStep
<1>1. CASE \E k \in Keys : DeleteCall(t, k)
  <2>1. Moved(t, "dlock") /\ pc[t] = "idle" /\ manifests' = manifests
    BY <1>1, <1>t DEF DeleteCall, Moved, Goto, ActorTypeOK, dataVars
  <2> QED
    BY <2>1, <1>s, Stutters
<1>2. CASE DeleteLock(t)
  <2>1. pc[t] = "dlock" /\ manifests' = manifests
    BY <1>2 DEF DeleteLock, dataVars
  <2>2. Moved(t, "idle") \/ Moved(t, "release")
    <3>1. CASE Return(t, "idle")
      BY <3>1, <1>t, ReturnMoved
    <3>2. CASE ~Return(t, "idle")
      BY <3>2, <1>2, <1>t, GotoMoved DEF DeleteLock, StartRelease
    <3> QED
      BY <3>1, <3>2
  <2> QED
    BY <2>1, <2>2, <1>s, Stutters
<1>3. CASE \E from, to \in Keys : RenameCall(t, from, to)
  <2>1. Moved(t, "rlock1") /\ pc[t] = "idle" /\ manifests' = manifests
    BY <1>3, <1>t DEF RenameCall, Moved, Goto, ActorTypeOK, dataVars
  <2> QED
    BY <2>1, <1>s, Stutters
<1>4. CASE RenameLockFirst(t)
  <2>1. Moved(t, "rlock2") /\ pc[t] = "rlock1" /\ manifests' = manifests
    BY <1>4, <1>t, GotoMoved DEF RenameLockFirst, localVars, dataVars
  <2> QED
    BY <2>1, <1>s, Stutters
<1>5. CASE RenameLockSecond(t)
  <2>1. pc[t] = "rlock2" /\ manifests' = manifests
    BY <1>5 DEF RenameLockSecond, dataVars
  <2>2. Moved(t, "idle") \/ Moved(t, "rput")
    <3>1. CASE Return(t, "idle")
      BY <3>1, <1>t, ReturnMoved
    <3>2. CASE ~Return(t, "idle")
      BY <3>2, <1>5, <1>t, GotoMoved DEF RenameLockSecond
    <3> QED
      BY <3>1, <3>2
  <2> QED
    BY <2>1, <2>2, <1>s, Stutters
<1>6. CASE RenamePut(t)
  BY <1>6, LinkRefines DEF MS!Next
<1>7. CASE RenameDelete(t)
  BY <1>7, UnlinkRefines DEF MS!Next
<1> QED
  BY <1>1, <1>2, <1>3, <1>4, <1>5, <1>6, <1>7 DEF CallerStep

\* In the release loop an upload is over.
LEMMA ReleaseRefines ==
  ASSUME IInv, NEW a \in Actors, ReleaseStep(a)
  PROVE  AbstractStep
<1>t. ActorTypeOK
  BY DEF IInv, Basic, TypeOK
<1> USE DEF AbstractStep
<1>1. CASE DecrementChunkRef(a)
  <2>1. pc[a] = "release" /\ manifests' = manifests
    BY <1>1 DEF DecrementChunkRef
  <2>2. Moved(a, "check") \/ Moved(a, "release")
    BY <1>1, <1>t DEF DecrementChunkRef, Goto, Moved, ActorTypeOK
  <2> QED
    BY <2>1, <2>2, Stutters, Labels
<1>2. CASE DeleteChunkCheck(a)
  <2>1. pc[a] = "check" /\ manifests' = manifests
    BY <1>2 DEF DeleteChunkCheck, dataVars
  <2>2. Moved(a, "unlink") \/ Moved(a, "release")
    BY <1>2, <1>t, GotoMoved DEF DeleteChunkCheck, Continue, localVars
  <2> QED
    BY <2>1, <2>2, Stutters, Labels
<1>3. CASE DeleteChunk(a)
  <2>1. pc[a] = "unlink" /\ manifests' = manifests /\ Moved(a, "release")
    BY <1>3, <1>t, GotoMoved DEF DeleteChunk, Continue
  <2> QED
    BY <2>1, Stutters, Labels
<1>4. CASE DeleteChunkGone(a)
  <2>1. pc[a] = "unlink" /\ manifests' = manifests
    BY <1>4 DEF DeleteChunkGone, dataVars
  <2>2. CASE a \in Sessions
    <3>1. Moved(a, "release")
      BY <1>4, <2>2, <1>t, GotoMoved, ActorsAssumption
      DEF DeleteChunkGone, Continue, ActorsAssumption
    <3> QED
      BY <2>1, <3>1, Stutters, Labels
  <2>3. CASE a \in Callers
    <3>1. Moved(a, "idle") /\ a \notin Sessions
      BY <1>4, <2>3, <1>t, ReturnMoved, ActorsAssumption DEF DeleteChunkGone, ActorsAssumption
    <3> QED
      BY <2>1, <3>1, Stutters
  <2> QED
    BY <2>2, <2>3
<1>5. CASE ReleaseDone(a)
  <2>1. CASE a \in Sessions
    <3>1. Moved(a, "done") /\ pc[a] = "release" /\ manifests' = manifests
      BY <1>5, <2>1, <1>t, ReturnMoved, ActorsAssumption DEF ReleaseDone, ActorsAssumption
    <3> QED
      BY <3>1, Stutters, Labels
  <2>2. CASE a \in Callers
    BY <1>5, <2>2, RemoveRefines DEF MS!Next
  <2> QED
    BY <2>1, <2>2
<1> QED
  BY <1>1, <1>2, <1>3, <1>4, <1>5 DEF ReleaseStep

\* A failed write gives up a move, discards an upload, or is nothing to see.
LEMMA FaultRefines ==
  ASSUME IInv, FaultStep
  PROVE  AbstractStep
<1>t. ActorTypeOK
  BY DEF IInv, Basic, TypeOK
<1> USE DEF AbstractStep
<1>1. ASSUME NEW s \in Sessions, FlushFails(s) PROVE AbstractStep
  <2>1. pc[s] \in {"write", "addref"} /\ manifests' = manifests
    BY <1>1 DEF FlushFails, dataVars
  <2>2. Moved(s, "release") \/ Moved(s, "lost")
    <3>1. CASE Return(s, "lost")
      BY <3>1, <1>t, ReturnMoved
    <3>2. CASE ~Return(s, "lost")
      BY <3>2, <1>1, <1>t, GotoMoved DEF FlushFails, StartRelease
    <3> QED
      BY <3>1, <3>2
  <2>3. MS!Discard(s)
    BY <2>1, <2>2, Discards
  <2> QED
    BY <2>3 DEF MS!Next
<1>2. ASSUME NEW s \in Sessions, CommitFails(s) PROVE AbstractStep
  <2>1. pc[s] = "put" /\ manifests' = manifests /\ Moved(s, "lost")
    BY <1>2, <1>t, ReturnMoved DEF CommitFails, dataVars
  <2>2. MS!Discard(s)
    BY <2>1, Discards
  <2> QED
    BY <2>2 DEF MS!Next
<1>3. ASSUME NEW a \in Actors, ReleaseFails(a) PROVE AbstractStep
  <2>1. pc[a] \in {"release", "check", "unlink"} /\ manifests' = manifests
    BY <1>3 DEF ReleaseFails, dataVars
  <2>2. CASE a \in Sessions
    <3>1. Moved(a, "release") \/ Moved(a, "done")
      <4>1. CASE Continue(a)
        BY <4>1, <1>t, GotoMoved DEF Continue
      <4>2. CASE ~Continue(a)
        BY <4>2, <2>2, <1>3, <1>t, ReturnMoved, ActorsAssumption DEF ReleaseFails, ActorsAssumption
      <4> QED
        BY <4>1, <4>2
    <3> QED
      BY <2>1, <3>1, Stutters, Labels
  <2>3. CASE a \in Callers
    <3>1. Moved(a, "idle") /\ a \notin Sessions
      BY <1>3, <2>3, <1>t, ReturnMoved, ActorsAssumption DEF ReleaseFails, ActorsAssumption
    <3> QED
      BY <2>1, <3>1, Stutters
  <2> QED
    BY <2>2, <2>3
<1>4. ASSUME NEW t \in Callers, RenameFails(t) PROVE AbstractStep
  <2>1. CASE pc[t] = "rput"
    <3>1. manifests' = manifests /\ Moved(t, "idle")
      BY <1>4, <1>t, ReturnMoved DEF RenameFails, dataVars
    <3> QED
      BY <2>1, <3>1, Stutters, ActorsAssumption DEF ActorsAssumption
  <2>2. CASE pc[t] = "rdel"
    BY <1>4, <2>2, GiveUpRefines DEF MS!Next
  <2> QED
    BY <1>4, <2>1, <2>2 DEF RenameFails
<1>5. CASE Crash
  BY <1>5, RestartRefines DEF MS!Next
<1> QED
  BY <1>1, <1>2, <1>3, <1>4, <1>5 DEF FaultStep

\* Every step of the engine is one of the abstract store, or a stutter.
LEMMA NextRefines ==
  ASSUME IInv, [Next]_vars
  PROVE  [MS!Next]_(MS!vars)
<1>1. CASE \E s \in Sessions : SessionStep(s)
  BY <1>1, SessionRefines DEF AbstractStep
<1>2. CASE \E t \in Callers : CallerStep(t)
  BY <1>2, CallerRefines DEF AbstractStep
<1>3. CASE \E a \in Actors : ReleaseStep(a)
  BY <1>3, ReleaseRefines DEF AbstractStep
<1>4. CASE GcStep \/ (\E c \in Chunks : Age(c)) \/ UNCHANGED vars
  <2>1. UNCHANGED <<manifests, pc, key, dest>>
    BY <1>4 DEF GcStep, GcReadIndex, GcListFiles, GcSkip, GcFindOrphan, GcRemoveFile, GcDone,
       Age, vars, dataVars, localVars
  <2> QED
    BY <2>1, SameStutters
<1>5. CASE FaultStep
  BY <1>5, FaultRefines DEF AbstractStep
<1> QED
  BY <1>1, <1>2, <1>3, <1>4, <1>5 DEF Next

\* An engine that has just started is an empty abstract store.
LEMMA InitRefines == Init => MS!Init
<1> SUFFICES ASSUME Init PROVE MS!Init
  OBVIOUS
<1>1. \A t \in Callers : pc[t] = "idle"
  BY ActorsAssumption DEF Init, ActorsAssumption
<1>2. movesBar = {}
  BY <1>1 DEF movesBar
<1>3. \A s \in Sessions : pc[s] = "none"
  BY DEF Init
<1>4. uploadBar = [s \in Sessions |-> "new"]
  BY <1>3, Uploads, Labels
<1> QED
  BY <1>2, <1>4 DEF Init, MS!Init

\* Whatever sessions, deletes, renames, collections, failures and restarts do at
\* the same time, callers see a map whose objects appear whole, leave by a
\* removal or a replacement, and move without vanishing (engine.rs:366-587).
THEOREM Implements == Spec => ImplementsMediaStore
<1>1. Init => MS!Init
  BY InitRefines
<1>2. IInv /\ [Next]_vars => [MS!Next]_(MS!vars)
  BY NextRefines
<1> QED
  BY <1>1, <1>2, Invariant, PTL DEF Spec, MS!Spec, ImplementsMediaStore
=============================================================================
