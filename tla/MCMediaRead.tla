----------------------------- MODULE MCMediaRead -----------------------------
(* An instance of MediaRead for TLC: two objects that share chunks at        *)
(* different places, and an empty one.                                       *)
EXTENDS MediaReadInvariant

CONSTANTS a, b, c

MCChunks == {a, b, c}
MCBytes == [x \in MCChunks |-> IF x = c THEN 1 ELSE 2]
MCObjects == {<<a, b, c>>, <<b, c>>, <<>>}
MCRanges == {<<0, 0>>, <<1, 2>>, <<1, 15>>, <<4, 15>>}
MCHeaders ==
  {None, [kind |-> "suffix", n |-> 2],
   [kind |-> "from", first |-> 2, last |-> 9], [kind |-> "from", first |-> 4, last |-> 2]}
MCPopular == {c}
MCCapacity == [grpc |-> 1, rest |-> 2, stream |-> 1]
=============================================================================
