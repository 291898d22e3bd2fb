--------------------------- MODULE MCStorageEngine ---------------------------
(* Instances of StorageEngine for TLC. *)
EXTENDS StorageRefinement, StorageInvariant, TLC

CONSTANTS c1, c2, s1, s2, s3, t1, t2

MCKeys == {1, 2}
OneChunk == {c1}
TwoChunks == {c1, c2}
OneSession == {s1}
TwoSessions == {s1, s2}
ThreeSessions == {s1, s2, s3}
NoCaller == {}
OneCaller == {t1}
TwoCallers == {t1, t2}
Interchangeable == Permutations(TwoChunks) \cup Permutations(ThreeSessions)
                     \cup Permutations(TwoCallers)

\* The collector never runs: uploads, deletes and renames alone.
NoGcSpec == Init /\ [][Next /\ UNCHANGED gc]_vars
=============================================================================
