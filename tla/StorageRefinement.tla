-------------------------- MODULE StorageRefinement --------------------------
(***************************************************************************)
(* The storage engine implements MediaStore, through failures and          *)
(* restarts: an upload runs until its commit, abort or loss, and a move is *)
(* half done between rename's two manifest writes.                         *)
(***************************************************************************)
EXTENDS StorageEngine

uploadBar == [s \in Sessions |->
  CASE pc[s] = "none" -> "new"
    [] pc[s] \in {"open", "write", "addref", "finish", "put"} -> "running"
    [] OTHER -> "over"]
movesBar == {<<key[t], dest[t]>> : t \in {a \in Callers : pc[a] = "rdel"}}

MS == INSTANCE MediaStore
  WITH Objects <- Sessions, store <- manifests, upload <- uploadBar, moves <- movesBar

\* Every step of sessions, deletes, renames, collections, failures and restarts
\* is a step of the abstract store or leaves it as it was.
ImplementsMediaStore == MS!Spec
=============================================================================
