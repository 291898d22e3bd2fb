------------------------------ MODULE MediaStore ------------------------------
(***************************************************************************)
(* What the storage engine promises its callers: a map from keys to        *)
(* objects.  An object comes into view once, whole, when its upload is     *)
(* committed; it leaves when it is removed or replaced; a move puts it     *)
(* under the new key before it takes it from the old one, and nobody       *)
(* touches either key in between.                                          *)
(***************************************************************************)
CONSTANTS Keys, Objects, None

VARIABLES
  store,   \* the object under each key
  upload,  \* what became of each upload: new, running, over
  moves    \* moves half done: pairs <<from, to>>

vars == <<store, upload, moves>>

Moving(k) == \E m \in moves : k \in {m[1], m[2]}

Init ==
  /\ store = [k \in Keys |-> None]
  /\ upload = [o \in Objects |-> "new"]
  /\ moves = {}

Begin(o) ==
  /\ upload[o] = "new"
  /\ upload' = [upload EXCEPT ![o] = "running"]
  /\ UNCHANGED <<store, moves>>

Commit(o, k) ==
  /\ upload[o] = "running" /\ ~Moving(k)
  /\ upload' = [upload EXCEPT ![o] = "over"]
  /\ store' = [store EXCEPT ![k] = o]
  /\ UNCHANGED moves

Discard(o) ==
  /\ upload[o] = "running"
  /\ upload' = [upload EXCEPT ![o] = "over"]
  /\ UNCHANGED <<store, moves>>

Remove(k) ==
  /\ store[k] # None /\ ~Moving(k)
  /\ store' = [store EXCEPT ![k] = None]
  /\ UNCHANGED <<upload, moves>>

Link(from, to) ==
  /\ store[from] # None /\ store[to] = None
  /\ ~Moving(from) /\ ~Moving(to)
  /\ store' = [store EXCEPT ![to] = store[from]]
  /\ moves' = moves \cup {<<from, to>>}
  /\ UNCHANGED upload

Unlink(from, to) ==
  /\ <<from, to>> \in moves
  /\ store' = [store EXCEPT ![from] = None]
  /\ moves' = moves \ {<<from, to>>}
  /\ UNCHANGED upload

\* A failure between the two steps of a move leaves both names.
GiveUp(from, to) ==
  /\ <<from, to>> \in moves
  /\ moves' = moves \ {<<from, to>>}
  /\ UNCHANGED <<store, upload>>

\* A restart ends every running upload and leaves half-done moves as they are.
Restart ==
  /\ upload' = [o \in Objects |-> IF upload[o] = "running" THEN "over" ELSE upload[o]]
  /\ moves' = {}
  /\ UNCHANGED store

Next ==
  \/ \E o \in Objects : Begin(o) \/ Discard(o) \/ \E k \in Keys : Commit(o, k)
  \/ \E k \in Keys : Remove(k)
  \/ \E from, to \in Keys : Link(from, to) \/ Unlink(from, to) \/ GiveUp(from, to)
  \/ Restart

Spec == Init /\ [][Next]_vars
=============================================================================
