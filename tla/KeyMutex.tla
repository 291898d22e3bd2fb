------------------------------ MODULE KeyMutex ------------------------------
(***************************************************************************)
(* What the engine's operations rely on: one lock for each key.  The       *)
(* engine's own module takes it for granted; KeyLocks shows how the table  *)
(* of mutexes provides it.                                                 *)
(***************************************************************************)
CONSTANTS Threads, Keys

VARIABLE holders   \* for each key, the threads in its critical section

MutexInit == holders = [k \in Keys |-> {}]

Acquire(t, k) == /\ holders[k] = {}
                 /\ holders' = [holders EXCEPT ![k] = {t}]

ReleaseAll(T) == holders' = [k \in Keys |-> holders[k] \ T]

MutexNext == \/ \E t \in Threads, k \in Keys : Acquire(t, k)
             \/ \E T \in SUBSET Threads : ReleaseAll(T)

MutexSpec == MutexInit /\ [][MutexNext]_holders
=============================================================================
