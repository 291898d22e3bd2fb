------------------------------ MODULE MCIndexLog ------------------------------
(* Instances of IndexLog for TLC. *)
EXTENDS LogInvariant

CONSTANTS k1, k2, c1, c2, w1, w2

OneKey == {k1}
TwoKeys == {k1, k2}
OneChunk == {c1}
TwoChunks == {c1, c2}
OneWriter == {w1}
TwoWriters == {w1, w2}
=============================================================================
