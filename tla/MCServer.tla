------------------------------ MODULE MCServer ------------------------------
(***************************************************************************)
(* Three instances of Server for TLC, told apart by a variable that keeps  *)
(* its first value.  "requests": two requests of every kind on two keys,   *)
(* the collector and the end of the process.  "table": deletes and renames *)
(* over three keys, more than the table is to hold.  "keys": one request   *)
(* while the server is killed, loses power and is restarted, and its key   *)
(* regenerated.                                                            *)
(***************************************************************************)
EXTENDS Server

CONSTANTS r1, r2

VARIABLE scene

MCThreads == {r1, r2}
MCKeys == 1 .. 3
MCMutexes == 1 .. 3

OneKey == kills' = 0 /\ issued' <= 1 /\ regen' = "idle" /\ older \subseteq older'

Scene ==
    CASE scene = "requests" ->
           /\ OneKey /\ pass'[r2] = 0
           /\ \A t \in Threads : want'[t] \subseteq {1, 2}
      [] scene = "table" ->
           /\ OneKey /\ proc' # "draining" /\ ~collecting'
           /\ \A t \in Threads : pass'[t] = 0 /\ t \notin body' /\ (want'[t] # {} => t \in conn')
      [] scene = "keys" ->
           /\ want'[r2] = {} /\ want'[r1] \subseteq {1} /\ r1 \notin body'
           /\ want'[r1] # {} => r1 \in conn'
           /\ proc' # "draining" /\ ~collecting'

\* Which memory a new mutex takes is immaterial: the first that is free.
FirstFree ==
    \A t \in Threads, k \in Keys :
      handle'[t][k] \notin {NoMutex, handle[t][k], map[k]} =>
        \A m \in Free(Pruned) : handle'[t][k] <= m

InScene ==
    /\ FirstFree
    /\ Scene

MCInit == Init /\ scene \in {"requests", "table", "keys"}

MCNext == Next /\ InScene /\ UNCHANGED scene

MCSpec == MCInit /\ [][MCNext]_<<vars, scene>> /\ Fairness
=============================================================================
