------------------------------ MODULE Selection ------------------------------
(***************************************************************************)
(* The filters over lists, as iter().filter(..).collect() computes them,   *)
(* and the orders that sort() and a BTreeMap put things in.                *)
(***************************************************************************)
EXTENDS Naturals, Sequences, FiniteSets

\* The members of s that are in T, in the order of s.
Kept(s, T) ==
    LET f[i \in 0..Len(s)] == IF i = 0 THEN << >>
                              ELSE IF s[i] \in T THEN Append(f[i - 1], s[i])
                              ELSE f[i - 1]
    IN  f[Len(s)]

\* The members of D in the order R, a set of pairs: the n-th has n - 1 before it.
Ranked(D, R) ==
    [n \in 1..Cardinality(D) |-> CHOOSE d \in D : Cardinality({c \in D : <<c, d>> \in R}) = n - 1]
=============================================================================
