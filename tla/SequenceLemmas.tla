--------------------------- MODULE SequenceLemmas ---------------------------
(***************************************************************************)
(* Induction over the numbers, without an operator for the predicate: the  *)
(* numbers it holds of form a set, and the intervals 0..n are well ordered *)
(* by inclusion.  From it, what the recursive functions of the modules     *)
(* compute: functions defined by iteration exist, FlattenSeq appends, a    *)
(* filter keeps members and their order.  The same for finite sets: sums   *)
(* over them, what sorting makes of them, and their first member in the    *)
(* order of paths.                                                         *)
(***************************************************************************)
EXTENDS Integers, SequencesExt, Selection, SequenceTheorems, FiniteSetTheorems, TLAPS

\* A set of numbers has a least member.
LEMMA LeastNumber ==
  ASSUME NEW T \in SUBSET Nat, T # {}
  PROVE  \E n \in T : \A m \in T : n <= m
<1> DEFINE R == StrictSubsetOrdering(Nat)
           U == {0..n : n \in T}
<1>1. \A n \in T : IsFiniteSet(0..n) /\ 0..n \in SUBSET Nat
  BY FS_Interval
<1>2. U \subseteq FiniteSubsetsOf(Nat)
  BY <1>1 DEF FiniteSubsetsOf
<1>3. U # {}
  OBVIOUS
<1>4. IsWellFoundedOn(R, FiniteSubsetsOf(Nat))
  BY FS_StrictSubsetOrderingWellFounded
<1> HIDE DEF R, U
<1>5. PICK X \in U : \A Y \in U : ~(<<Y, X>> \in R)
  BY <1>2, <1>3, <1>4, WFMin
<1>6. PICK n \in T : X = 0..n
  BY <1>5 DEF U
<1>7. ASSUME NEW m \in T, m < n PROVE FALSE
  <2>1. 0..m \in U /\ 0..m \subseteq 0..n /\ 0..m # 0..n
    BY <1>7 DEF U
  <2>2. <<0..m, 0..n>> \in R
    BY <2>1 DEF R, StrictSubsetOrdering
  <2> QED
    BY <2>1, <2>2, <1>5, <1>6
<1> QED
  BY <1>7

\* A set with 0, and with n + 1 when it has n, has every number.
LEMMA Induction ==
  ASSUME NEW S \in SUBSET Nat, 0 \in S, \A n \in S : n + 1 \in S
  PROVE  S = Nat
<1> SUFFICES ASSUME Nat \ S # {} PROVE FALSE
  OBVIOUS
<1>1. PICK n \in Nat \ S : \A m \in Nat \ S : n <= m
  BY LeastNumber, Nat \ S \in SUBSET Nat
<1>2. n # 0 /\ n - 1 \in Nat
  BY <1>1
<1>3. n - 1 \in S
  BY <1>1, <1>2
<1> QED
  BY <1>1, <1>3, (n - 1) + 1 = n

\* h is g iterated n times from x.
Iterated(x, g, n, h) == h[0] = x /\ \A i \in 0..(n - 1) : h[i + 1] = g[<<i, h[i]>>]

\* Iterating a function a number of times defines a function.
LEMMA Iteration ==
  ASSUME NEW S, NEW x \in S, NEW g \in [Nat \X S -> S], NEW n \in Nat
  PROVE  \E h \in [0..n -> S] : Iterated(x, g, n, h)
<1> DEFINE N == {m \in Nat : \E h \in [0..m -> S] : Iterated(x, g, m, h)}
<1>1. 0 \in N
  <2>1. [i \in 0..0 |-> x] \in [0..0 -> S] /\ Iterated(x, g, 0, [i \in 0..0 |-> x])
    BY DEF Iterated
  <2> QED
    BY <2>1
<1>2. ASSUME NEW m \in N PROVE m + 1 \in N
  <2>1. PICK h \in [0..m -> S] : Iterated(x, g, m, h)
    OBVIOUS
  <2>a. m \in Nat /\ m + 1 \in Nat /\ m \in 0..m
    OBVIOUS
  <2> HIDE DEF N
  <2>b. g[<<m, h[m]>>] \in S
    BY <2>a
  <2> DEFINE k == [i \in 0..(m + 1) |-> IF i = m + 1 THEN g[<<m, h[m]>>] ELSE h[i]]
  <2>2. k \in [0..(m + 1) -> S]
    BY <2>a, <2>b
  <2>3. k[0] = x
    BY <2>1, <2>a DEF Iterated
  <2>4. ASSUME NEW i \in 0..m PROVE k[i + 1] = g[<<i, k[i]>>]
    <3>1. i + 1 \in 0..(m + 1) /\ i \in 0..(m + 1) /\ i # m + 1
      BY <2>a
    <3>2. k[i] = h[i]
      BY <3>1
    <3>3. CASE i = m
      BY <3>1, <3>2, <3>3
    <3>4. CASE i # m
      <4>1. i \in 0..(m - 1) /\ i + 1 # m + 1
        BY <3>4, <2>a
      <4>2. h[i + 1] = g[<<i, h[i]>>]
        BY <2>1, <4>1 DEF Iterated
      <4> QED
        BY <3>1, <3>2, <4>1, <4>2
    <3> QED
      BY <3>3, <3>4
  <2> HIDE DEF k
  <2>5. Iterated(x, g, m + 1, k)
    BY <2>a, <2>3, <2>4, (m + 1) - 1 = m DEF Iterated
  <2> QED
    BY <2>2, <2>5, <2>a DEF N
<1> HIDE DEF N
<1>3. N \in SUBSET Nat
  BY DEF N
<1>4. N = Nat
  BY <1>1, <1>2, <1>3, Induction
<1> QED
  BY <1>4 DEF N

\* g and h take the same first m steps.
SameSteps(g, h, m, S) == \A i \in 0..(m - 1), y \in S : g[<<i, y>>] = h[<<i, y>>]

\* Two iterations that take the same first m steps agree as far.
LEMMA IterationAgree ==
  ASSUME NEW S, NEW x \in S, NEW g \in [Nat \X S -> S], NEW k \in [Nat \X S -> S],
         NEW n \in Nat, NEW p \in Nat, NEW h, NEW f, Iterated(x, g, n, h), Iterated(x, k, p, f),
         NEW m \in Nat, m <= n, m <= p, SameSteps(g, k, m, S)
  PROVE  \A i \in 0..m : h[i] = f[i] /\ h[i] \in S
<1> DEFINE N == {i \in Nat : i <= m => h[i] = f[i] /\ h[i] \in S}
<1>1. 0 \in N
  BY DEF Iterated
<1>2. ASSUME NEW i \in N PROVE i + 1 \in N
  <2>1. SUFFICES ASSUME i + 1 <= m PROVE h[i + 1] = f[i + 1] /\ h[i + 1] \in S
    OBVIOUS
  <2>2. i \in 0..(n - 1) /\ i \in 0..(p - 1) /\ i \in 0..(m - 1) /\ i \in Nat
    BY <2>1
  <2>3. h[i] = f[i] /\ h[i] \in S
    BY <2>1
  <2>4. h[i + 1] = g[<<i, h[i]>>] /\ f[i + 1] = k[<<i, f[i]>>]
    BY <2>2 DEF Iterated
  <2> HIDE DEF N
  <2>5. g[<<i, h[i]>>] = k[<<i, h[i]>>] /\ g[<<i, h[i]>>] \in S
    BY <2>2, <2>3 DEF SameSteps
  <2> QED
    BY <2>3, <2>4, <2>5
<1> HIDE DEF N
<1>3. N \in SUBSET Nat
  BY DEF N
<1>4. N = Nat
  BY <1>1, <1>2, <1>3, Induction
<1>5. \A i \in 0..m : i \in Nat /\ i <= m
  OBVIOUS
<1> QED
  BY <1>4, <1>5 DEF N

-----------------------------------------------------------------------------
(* Parts of a sequence, by where they begin and end *)

\* What lies in s behind a, up to b.
LEMMA PartIs ==
  ASSUME NEW S, NEW s \in Seq(S), NEW a \in Nat, NEW b \in Nat, a <= b, b <= Len(s)
  PROVE  /\ SubSeq(s, a + 1, b) \in Seq(S) /\ Len(SubSeq(s, a + 1, b)) = b - a
         /\ \A i \in 1..(b - a) : SubSeq(s, a + 1, b)[i] = s[a + i]
<1>1. a + 1 \in Int /\ b \in Int /\ \A i \in (a + 1)..b : s[i] \in S
  OBVIOUS
<1>2. b - (a + 1) + 1 = b - a /\ \A i \in 1..(b - a) : (a + 1) + i - 1 = a + i
  OBVIOUS
<1>3. SubSeq(s, a + 1, b) \in Seq(S)
      /\ Len(SubSeq(s, a + 1, b)) = (IF a + 1 <= b THEN b - (a + 1) + 1 ELSE 0)
      /\ \A i \in 1..(b - (a + 1) + 1) : SubSeq(s, a + 1, b)[i] = s[(a + 1) + i - 1]
  BY <1>1, SubSeqProperties, SMTT(40)
<1> QED
  BY <1>2, <1>3

\* One part after another is a part.
LEMMA PartsJoin ==
  ASSUME NEW S, NEW s \in Seq(S), NEW a \in Nat, NEW b \in Nat, NEW c \in Nat,
         a <= b, b <= c, c <= Len(s)
  PROVE  SubSeq(s, a + 1, b) \o SubSeq(s, b + 1, c) = SubSeq(s, a + 1, c)
<1>1. Len(s) \in Nat /\ a + 1 \in 1..(Len(s) + 1) /\ b \in ((a + 1) - 1)..Len(s) /\ c \in b..Len(s)
  OBVIOUS
<1> QED
  BY <1>1, ConcatAdjacentSubSeq

\* A part of a part is a part.
LEMMA PartOfPart ==
  ASSUME NEW S, NEW s \in Seq(S), NEW a \in Nat, NEW b \in Nat, a <= b, b <= Len(s),
         NEW i \in Nat, NEW j \in Nat, i <= j, j <= b - a
  PROVE  SubSeq(SubSeq(s, a + 1, b), i + 1, j) = SubSeq(s, (a + i) + 1, a + j)
<1> DEFINE p == SubSeq(s, a + 1, b)
<1>1. p \in Seq(S) /\ Len(p) = b - a /\ \A k \in 1..(b - a) : p[k] = s[a + k]
  BY PartIs
<1> HIDE DEF p
<1> DEFINE l == SubSeq(p, i + 1, j)
           r == SubSeq(s, (a + i) + 1, a + j)
<1>2. l \in Seq(S) /\ Len(l) = j - i /\ \A k \in 1..(j - i) : l[k] = p[i + k]
  BY <1>1, PartIs
<1>3. a + i \in Nat /\ a + j \in Nat /\ a + i <= a + j /\ a + j <= Len(s) /\ (a + j) - (a + i) = j - i
  OBVIOUS
<1>4. r \in Seq(S) /\ Len(r) = j - i /\ \A k \in 1..(j - i) : r[k] = s[(a + i) + k]
  BY <1>3, PartIs
<1> HIDE DEF l, r
<1>5. \A k \in 1..(j - i) : i + k \in 1..(b - a) /\ a + (i + k) = (a + i) + k
  OBVIOUS
<1>6. l = r
  BY <1>1, <1>2, <1>4, <1>5, SeqEqual
<1> QED
  BY <1>6 DEF l, r, p

\* A shorter part from the same place is a prefix.
LEMMA PartIsPrefix ==
  ASSUME NEW S, NEW s \in Seq(S), NEW a \in Nat, NEW b \in Nat, NEW c \in Nat,
         a <= b, b <= c, c <= Len(s)
  PROVE  IsPrefix(SubSeq(s, a + 1, b), SubSeq(s, a + 1, c))
<1> DEFINE l == SubSeq(s, a + 1, b)
           r == SubSeq(s, a + 1, c)
<1>1. l \in Seq(S) /\ Len(l) = b - a
  BY PartIs, b <= Len(s)
<1>2. r \in Seq(S) /\ Len(r) = c - a
  BY PartIs, a <= c
<1>3. SubSeq(l, 1, Len(l)) = l
  BY <1>1, SubSeqFull
<1>4. SubSeq(r, 0 + 1, b - a) = SubSeq(s, (a + 0) + 1, a + (b - a))
  BY PartOfPart, a <= c, b - a \in Nat, 0 <= b - a, b - a <= c - a
<1>5. 0 + 1 = 1 /\ (a + 0) + 1 = a + 1 /\ a + (b - a) = b
  OBVIOUS
<1>6. SubSeq(r, 1, Len(l)) = l
  BY <1>1, <1>4, <1>5
<1> HIDE DEF l, r
<1>7. Len(l) <= Len(r)
  BY <1>1, <1>2
<1>8. IsPrefix(l, r)
  BY <1>3, <1>6, <1>7 DEF IsPrefix
<1> QED
  BY <1>8 DEF l, r

-----------------------------------------------------------------------------
(* FlattenSeq *)

\* f[i] is the concatenation of the first i members of s.
Flattens(s, f) == f = [i \in 1..Len(s) |-> IF i = 1 THEN s[i] ELSE f[i - 1] \o s[i]]

\* The partial concatenations, one by one.
LEMMA FlattensAt ==
  ASSUME NEW T, NEW s \in Seq(Seq(T)), NEW f, Flattens(s, f), NEW i \in 1..Len(s)
  PROVE  f[i] = IF i = 1 THEN s[i] ELSE f[i - 1] \o s[i]
<1> DEFINE h == [j \in 1..Len(s) |-> IF j = 1 THEN s[j] ELSE f[j - 1] \o s[j]]
<1>1. f = h
  BY DEF Flattens
<1>2. h[i] = IF i = 1 THEN s[i] ELSE f[i - 1] \o s[i]
  OBVIOUS
<1> HIDE DEF h
<1> QED
  BY <1>1, <1>2

\* There are some for every sequence of sequences.
LEMMA FlattensExists ==
  ASSUME NEW T, NEW s \in Seq(Seq(T))
  PROVE  \E f : Flattens(s, f)
<1> DEFINE g == [p \in Nat \X Seq(T) |-> IF p[1] + 1 \in 1..Len(s) THEN p[2] \o s[p[1] + 1] ELSE <<>>]
<1>0. Len(s) \in Nat /\ <<>> \in Seq(T) /\ \A i \in 1..Len(s) : s[i] \in Seq(T)
  OBVIOUS
<1>1. g \in [Nat \X Seq(T) -> Seq(T)]
  BY <1>0
<1>2. \A i \in 1..Len(s), q \in Seq(T) : g[<<i - 1, q>>] = q \o s[i]
  <2> SUFFICES ASSUME NEW i \in 1..Len(s), NEW q \in Seq(T) PROVE g[<<i - 1, q>>] = q \o s[i]
    OBVIOUS
  <2>1. i - 1 \in Nat /\ (i - 1) + 1 = i
    BY <1>0
  <2> QED
    BY <2>1
<1> HIDE DEF g
<1>3. PICK h \in [0..Len(s) -> Seq(T)] : Iterated(<<>>, g, Len(s), h)
  BY <1>0, <1>1, Iteration
<1>4. ASSUME NEW i \in 1..Len(s) PROVE h[i] = h[i - 1] \o s[i]
  <2>1. i - 1 \in 0..(Len(s) - 1) /\ i - 1 \in 0..Len(s) /\ (i - 1) + 1 = i
    BY <1>0
  <2>2. h[i] = g[<<i - 1, h[i - 1]>>] /\ h[i - 1] \in Seq(T)
    BY <1>3, <2>1 DEF Iterated
  <2> QED
    BY <2>2, <1>2
<1> DEFINE f == [i \in 1..Len(s) |-> h[i]]
           k == [i \in 1..Len(s) |-> IF i = 1 THEN s[i] ELSE f[i - 1] \o s[i]]
<1>5. ASSUME NEW i \in 1..Len(s) PROVE h[i] = k[i]
  <2>1. CASE i = 1
    <3>0. h[0] = <<>>
      BY <1>3 DEF Iterated
    <3>1. h[i] = <<>> \o s[i]
      BY <3>0, <1>4, <2>1, i - 1 = 0
    <3> QED
      BY <3>1, <2>1, <1>0
  <2>2. CASE i # 1
    <3>1. i - 1 \in 1..Len(s)
      BY <2>2, <1>0
    <3>2. f[i - 1] = h[i - 1]
      BY <3>1
    <3> QED
      BY <1>4, <2>2, <3>2
  <2> QED
    BY <2>1, <2>2
<1>6. f = k
  BY <1>5
<1>7. Flattens(s, f)
  BY <1>6 DEF Flattens
<1> QED
  BY <1>7

\* What FlattenSeq is.
LEMMA FlattenIs ==
  ASSUME NEW T, NEW s \in Seq(Seq(T))
  PROVE  IF s = <<>> THEN FlattenSeq(s) = <<>>
         ELSE \E f : Flattens(s, f) /\ FlattenSeq(s) = f[Len(s)]
<1>1. CASE s = <<>>
  BY <1>1 DEF FlattenSeq
<1>2. CASE s # <<>>
  <2> DEFINE f == CHOOSE f : f = [i \in 1..Len(s) |-> IF i = 1 THEN s[i] ELSE f[i - 1] \o s[i]]
  <2>1. Flattens(s, f)
    BY FlattensExists DEF Flattens
  <2>2. FlattenSeq(s) = f[Len(s)]
    BY <1>2 DEF FlattenSeq
  <2> QED
    BY <1>2, <2>1, <2>2
<1> QED
  BY <1>1, <1>2

\* Two such functions agree on the members their sequences share.
LEMMA FlattensAgree ==
  ASSUME NEW T, NEW s \in Seq(Seq(T)), NEW t \in Seq(Seq(T)), NEW f, NEW h, Flattens(s, f), Flattens(t, h),
         NEW n \in Nat, n <= Len(s), n <= Len(t), \A i \in 1..n : s[i] = t[i]
  PROVE  \A i \in 1..n : f[i] = h[i] /\ f[i] \in Seq(T)
<1> DEFINE N == {m \in Nat : m \in 1..n => f[m] = h[m] /\ f[m] \in Seq(T)}
<1>1. 0 \in N
  OBVIOUS
<1>2. ASSUME NEW m \in N PROVE m + 1 \in N
  <2>1. SUFFICES ASSUME m + 1 \in 1..n PROVE f[m + 1] = h[m + 1] /\ f[m + 1] \in Seq(T)
    OBVIOUS
  <2>2. m + 1 \in 1..Len(s) /\ m + 1 \in 1..Len(t) /\ s[m + 1] \in Seq(T) /\ s[m + 1] = t[m + 1]
    BY <2>1, SMTT(40)
  <2>3. f[m + 1] = IF m + 1 = 1 THEN s[m + 1] ELSE f[m] \o s[m + 1]
    BY <2>2, FlattensAt, (m + 1) - 1 = m, SMTT(40)
  <2>4. h[m + 1] = IF m + 1 = 1 THEN t[m + 1] ELSE h[m] \o t[m + 1]
    BY <2>2, FlattensAt, (m + 1) - 1 = m
  <2>5. m = 0 \/ m \in 1..n
    BY <2>1
  <2> QED
    BY <2>1, <2>2, <2>3, <2>4, <2>5
<1> HIDE DEF N
<1>3. N \in SUBSET Nat
  BY DEF N
<1>4. N = Nat
  BY <1>1, <1>2, <1>3, Induction
<1>5. \A i \in 1..n : i \in Nat
  OBVIOUS
<1> QED
  BY <1>4, <1>5 DEF N

\* Flattening a sequence with one member more appends it.
LEMMA FlattenAppend ==
  ASSUME NEW T, NEW s \in Seq(Seq(T)), NEW e \in Seq(T)
  PROVE  FlattenSeq(s) \in Seq(T) /\ FlattenSeq(Append(s, e)) = FlattenSeq(s) \o e
<1> DEFINE t == Append(s, e)
<1>1. t \in Seq(Seq(T)) /\ Len(t) = Len(s) + 1 /\ t[Len(t)] = e /\ Len(s) \in Nat
  OBVIOUS
<1>a. \A i \in 1..Len(s) : s[i] = t[i]
  OBVIOUS
<1> HIDE DEF t
<1>b. t # <<>>
  BY <1>1
<1>2. PICK h : Flattens(t, h) /\ FlattenSeq(t) = h[Len(t)]
  BY <1>1, <1>b, FlattenIs
<1>3. h[Len(t)] = IF Len(t) = 1 THEN e ELSE h[Len(t) - 1] \o e
  BY <1>1, <1>2, FlattensAt, Len(t) \in 1..Len(t)
<1>c. Len(t) - 1 = Len(s)
  BY <1>1
<1>4. CASE s = <<>>
  <2>1. FlattenSeq(s) = <<>> /\ Len(t) = 1
    <3>1. Len(s) = 0
      BY <1>4
    <3>2. Len(t) = 1
      BY <1>1, <3>1
    <3>3. FlattenSeq(s) = <<>>
      BY <1>4, FlattenIs, Zenon
    <3> QED
      BY <3>2, <3>3
  <2>2. FlattenSeq(t) = e
    BY <2>1, <1>2, <1>3
  <2> QED
    BY <2>1, <2>2 DEF t
<1>5. CASE s # <<>>
  <2>1. PICK f : Flattens(s, f) /\ FlattenSeq(s) = f[Len(s)]
    BY <1>5, FlattenIs
  <2>a. Len(s) \in 1..Len(s) /\ Len(t) # 1 /\ Len(s) <= Len(t)
    BY <1>1, <1>5
  <2>2. f[Len(s)] = h[Len(s)] /\ f[Len(s)] \in Seq(T)
    <3>1. \A i \in 1..Len(s) : f[i] = h[i] /\ f[i] \in Seq(T)
      <4>1. t \in Seq(Seq(T)) /\ Flattens(t, h) /\ Len(s) \in Nat /\ Len(s) <= Len(s) /\ Len(s) <= Len(t)
        BY <1>1, <1>2, <2>a
      <4> QED
        BY <1>a, <2>1, <4>1, FlattensAgree, Zenon
    <3> QED
      BY <3>1, <2>a
  <2> QED
    BY <1>2, <1>3, <1>c, <2>1, <2>a, <2>2 DEF t
<1> QED
  BY <1>4, <1>5

\* Of nothing, it is nothing.
LEMMA FlattenEmpty == FlattenSeq(<<>>) = <<>>
BY DEF FlattenSeq

-----------------------------------------------------------------------------
(* Finite sets *)

\* A family of subsets of a finite set has a minimal member.
LEMMA Minimal ==
  ASSUME NEW S, IsFiniteSet(S), NEW F \in SUBSET SUBSET S, F # {}
  PROVE  \E T \in F : \A U \in F : U \subseteq T => U = T
<1> DEFINE R == StrictSubsetOrdering(S)
<1>1. F \subseteq FiniteSubsetsOf(S)
  BY FS_Subset DEF FiniteSubsetsOf
<1>2. IsWellFoundedOn(R, FiniteSubsetsOf(S))
  BY FS_StrictSubsetOrderingWellFounded
<1> HIDE DEF R
<1>3. PICK T \in F : \A U \in F : ~(<<U, T>> \in R)
  BY <1>1, <1>2, WFMin
<1>4. ASSUME NEW U \in F, U \subseteq T, U # T PROVE <<U, T>> \in R
  BY <1>4 DEF R, StrictSubsetOrdering
<1> SUFFICES ASSUME NEW U \in F, U \subseteq T, U # T PROVE FALSE
  OBVIOUS
<1> QED
  BY <1>3, <1>4

\* A family with {}, and with T and any other element of S when it has T, has
\* every subset of a finite S.
LEMMA FiniteInduction ==
  ASSUME NEW S, IsFiniteSet(S), NEW F, {} \in F,
         \A T \in SUBSET S : \A x \in S \ T : T \in F => T \cup {x} \in F
  PROVE  SUBSET S \subseteq F
<1> DEFINE G == {T \in SUBSET S : T \notin F}
<1> SUFFICES ASSUME G # {} PROVE FALSE
  OBVIOUS
<1>1. PICK T \in G : \A V \in G : V \subseteq T => V = T
  <2>1. G \in SUBSET SUBSET S
    OBVIOUS
  <2> HIDE DEF G
  <2> QED
    BY <2>1, Minimal
<1>2. T # {} /\ T \in SUBSET S /\ T \notin F
  OBVIOUS
<1>3. PICK x \in T : TRUE
  BY <1>2
<1>4. T \ {x} \in SUBSET S /\ T \ {x} # T /\ x \in S \ (T \ {x}) /\ (T \ {x}) \cup {x} = T
  BY <1>2, <1>3
<1>5. T \ {x} \in F
  BY <1>1, <1>4
<1> QED
  BY <1>2, <1>4, <1>5

-----------------------------------------------------------------------------
(* MapThenSumSet *)

Picked(S) == CHOOSE x \in S : TRUE

\* g[T] is the sum of w over T, for the subsets T of S.
IsSum(g, w, S) ==
  g = [T \in SUBSET S |-> IF T = {} THEN 0 ELSE w[Picked(T)] + g[T \ {Picked(T)}]]

\* w has a number for each member of S.
Weights(w, S) == \A x \in S : w[x] \in Nat

\* The sums, one by one.
LEMMA SumsAt ==
  ASSUME NEW S, NEW w, NEW g, IsSum(g, w, S), NEW T \in SUBSET S
  PROVE  /\ T = {} => g[T] = 0
         /\ T # {} => /\ g[T] = w[Picked(T)] + g[T \ {Picked(T)}]
                      /\ Picked(T) \in T /\ T \ {Picked(T)} \in SUBSET S
<1> DEFINE h == [U \in SUBSET S |-> IF U = {} THEN 0 ELSE w[Picked(U)] + g[U \ {Picked(U)}]]
<1>1. g = h
  BY DEF IsSum
<1>2. h[T] = IF T = {} THEN 0 ELSE w[Picked(T)] + g[T \ {Picked(T)}]
  OBVIOUS
<1> HIDE DEF h
<1>3. T # {} => Picked(T) \in T
  BY DEF Picked
<1> QED
  BY <1>1, <1>2, <1>3

\* The sum over nothing.
LEMMA SumsEmpty ==
  ASSUME NEW S, NEW w, NEW g, IsSum(g, w, S)
  PROVE  g[{}] = 0
<1>1. {} \in SUBSET S
  OBVIOUS
<1> QED
  BY <1>1, SumsAt

\* IsSum over the same weights are the same, whatever larger sets they are for.
LEMMA SumsAgree ==
  ASSUME NEW S, NEW w, NEW g, IsSum(g, w, S), NEW R, NEW v, NEW h, IsSum(h, v, R),
         NEW U \in SUBSET S, U \in SUBSET R, IsFiniteSet(U), Weights(w, U),
         \A x \in U : v[x] = w[x]
  PROVE  g[U] = h[U] /\ g[U] \in Nat
<1> DEFINE F == {T \in SUBSET U : ~(g[T] = h[T] /\ g[T] \in Nat)}
<1> SUFFICES ASSUME F # {} PROVE FALSE
  OBVIOUS
<1>1. PICK T \in F : \A V \in F : V \subseteq T => V = T
  <2>1. F \in SUBSET SUBSET U
    OBVIOUS
  <2> HIDE DEF F
  <2> QED
    BY <2>1, Minimal
<1>2. T \in SUBSET U /\ T \in SUBSET S /\ T \in SUBSET R /\ ~(g[T] = h[T] /\ g[T] \in Nat)
  OBVIOUS
<1> DEFINE x == Picked(T)
           Q == T \ {x}
<1>3. CASE T = {}
  <2> HIDE DEF F
  <2>0. g[{}] = 0 /\ h[{}] = 0
    BY SumsEmpty
  <2>1. g[T] = 0 /\ h[T] = 0
    BY <2>0, <1>3
  <2> QED
    BY <1>2, <2>1
<1>4. CASE T # {}
  <2>1. g[T] = w[x] + g[Q] /\ h[T] = v[x] + h[Q] /\ x \in T /\ x \in U
    BY <1>2, <1>4, SumsAt
  <2>2. Q \in SUBSET U /\ Q # T /\ Q \subseteq T
    BY <2>1, <1>2
  <2>3. g[Q] = h[Q] /\ g[Q] \in Nat
    BY <1>1, <2>2
  <2>4. w[x] \in Nat /\ v[x] = w[x]
    BY <2>1 DEF Weights
  <2> HIDE DEF x, Q, F
  <2> QED
    BY <2>1, <2>3, <2>4, <1>2
<1> QED
  BY <1>3, <1>4

\* There are sums over every finite set.
LEMMA SumsExist ==
  ASSUME NEW S, IsFiniteSet(S), NEW w, Weights(w, S)
  PROVE  \E g : IsSum(g, w, S)
<1> DEFINE F == {T \in SUBSET S : ~(\E g : IsSum(g, w, T))}
<1> SUFFICES ASSUME F # {} PROVE FALSE
  <2>1. S \notin F
    OBVIOUS
  <2> QED
    BY <2>1
<1>1. PICK T \in F : \A V \in F : V \subseteq T => V = T
  <2>1. F \in SUBSET SUBSET S
    OBVIOUS
  <2> HIDE DEF F
  <2> QED
    BY <2>1, Minimal
<1>2. T \in SUBSET S /\ ~(\E g : IsSum(g, w, T))
  OBVIOUS
<1> DEFINE h(V) == CHOOSE g : IsSum(g, w, V)
           k == [V \in SUBSET T |-> IF V = {} THEN 0
                                    ELSE w[Picked(V)] + h(V \ {Picked(V)})[V \ {Picked(V)}]]
           l == [V \in SUBSET T |-> IF V = {} THEN 0 ELSE w[Picked(V)] + k[V \ {Picked(V)}]]
<1>3. ASSUME NEW V \in SUBSET T, V # T PROVE IsSum(h(V), w, V)
  <2>1. V \in SUBSET S /\ V \notin F
    BY <1>1, <1>2, <1>3
  <2>2. \E g : IsSum(g, w, V)
    BY <2>1
  <2> QED
    BY <2>2
<1>4. \A V \in SUBSET T : V # {} => Picked(V) \in V
  BY DEF Picked
<1>5. ASSUME NEW V \in SUBSET T, V # T PROVE k[V] = h(V)[V]
  <2> HIDE DEF h, F
  <2>1. CASE V = {}
    <3>0. IsSum(h(V), w, V) /\ V \in SUBSET V
      BY <1>3, <1>5
    <3> DEFINE q == h(V)
    <3>1. q[V] = 0
      <4> HIDE DEF q
      <4> QED
        BY <3>0, <2>1, SumsAt DEF q
    <3> QED
      BY <3>1, <2>1
  <2>2. CASE V # {}
    <3> DEFINE x == Picked(V)
               Q == V \ {x}
    <3>1. x \in V /\ Q \in SUBSET T /\ Q # T /\ Q \in SUBSET V
      BY <1>4, <2>2
    <3>2. h(V)[V] = w[x] + h(V)[Q]
      BY <1>3, <1>5, <2>2, SumsAt
    <3>3. IsFiniteSet(Q) /\ Weights(w, Q)
      BY <3>1, <1>2, FS_Subset DEF Weights
    <3>4. IsSum(h(V), w, V) /\ IsSum(h(Q), w, Q)
      BY <1>3, <1>5, <3>1
    <3>5. h(V)[Q] = h(Q)[Q]
      <4> HIDE DEF Q, x
      <4> QED
        BY <3>1, <3>3, <3>4, SumsAgree
    <3>6. k[V] = w[x] + h(Q)[Q]
      BY <2>2
    <3> QED
      BY <3>2, <3>5, <3>6
  <2> QED
    BY <2>1, <2>2
<1>6. ASSUME NEW V \in SUBSET T PROVE k[V] = l[V]
  <2>1. CASE V = {}
    BY <2>1
  <2>2. CASE V # {}
    <3>1. V \ {Picked(V)} \in SUBSET T /\ V \ {Picked(V)} # T
      BY <1>4, <2>2
    <3>2. k[V \ {Picked(V)}] = h(V \ {Picked(V)})[V \ {Picked(V)}]
      <4> HIDE DEF h, k
      <4> QED
        BY <3>1, <1>5
    <3> HIDE DEF h
    <3> QED
      BY <2>2, <3>2
  <2> QED
    BY <2>1, <2>2
<1>7. k = l
  BY <1>6
<1>8. IsSum(k, w, T)
  <2> HIDE DEF h
  <2> QED
    BY <1>7 DEF IsSum
<1> QED
  BY <1>2, <1>8

\* A member more adds its weight, whichever members the sum begins with.
LEMMA SumsAdd ==
  ASSUME NEW S, IsFiniteSet(S), NEW w, Weights(w, S), NEW g, IsSum(g, w, S)
  PROVE  \A T \in SUBSET S, x \in S : x \notin T => g[T \cup {x}] = w[x] + g[T]
<1> DEFINE F == {T \in SUBSET S : \E x \in S : x \notin T /\ ~(g[T \cup {x}] = w[x] + g[T])}
<1> SUFFICES ASSUME F # {} PROVE FALSE
  OBVIOUS
<1>1. PICK T \in F : \A V \in F : V \subseteq T => V = T
  <2>1. F \in SUBSET SUBSET S
    OBVIOUS
  <2> HIDE DEF F
  <2> QED
    BY <2>1, Minimal
<1>2. PICK x \in S : x \notin T /\ ~(g[T \cup {x}] = w[x] + g[T])
  OBVIOUS
<1>3. T \in SUBSET S
  OBVIOUS
<1>4. \A V \in SUBSET S : g[V] \in Nat
  <2> SUFFICES ASSUME NEW V \in SUBSET S PROVE g[V] \in Nat
    OBVIOUS
  <2>1. IsFiniteSet(V) /\ Weights(w, V)
    BY FS_Subset DEF Weights
  <2> QED
    BY <2>1, SumsAgree
<1>5. \A y \in S : w[y] \in Nat
  BY DEF Weights
<1> DEFINE P == T \cup {x}
           y == Picked(P)
<1>6. P \in SUBSET S /\ P # {}
  BY <1>2, <1>3
<1>7. g[P] = w[y] + g[P \ {y}] /\ y \in P
  <2> HIDE DEF P, F
  <2>1. P # {} => /\ g[P] = w[Picked(P)] + g[P \ {Picked(P)}]
                  /\ Picked(P) \in P /\ P \ {Picked(P)} \in SUBSET S
    BY <1>6, SumsAt
  <2> QED
    BY <1>6, <2>1
<1>8. CASE y = x
  <2>1. P \ {y} = T
    BY <1>2, <1>8
  <2> HIDE DEF y
  <2> QED
    BY <1>2, <1>7, <1>8, <2>1
<1>9. CASE y # x
  <2> DEFINE Q == T \ {y}
  <2>1. y \in T /\ P \ {y} = Q \cup {x} /\ x \notin Q /\ Q \in SUBSET S /\ Q # T /\ Q \subseteq T
        /\ T = Q \cup {y} /\ y \notin Q /\ y \in S
    BY <1>2, <1>3, <1>7, <1>9
  <2>2. Q \notin F
    BY <1>1, <2>1
  <2>3. g[Q \cup {x}] = w[x] + g[Q] /\ g[Q \cup {y}] = w[y] + g[Q]
    <3> HIDE DEF y, Q
    <3> QED
      BY <2>1, <2>2, <1>2
  <2>4. g[P] = w[y] + (w[x] + g[Q]) /\ g[T] = w[y] + g[Q]
    BY <1>7, <2>1, <2>3
  <2>5. w[y] \in Nat /\ w[x] \in Nat /\ g[Q] \in Nat
    BY <1>4, <1>5, <2>1
  <2> HIDE DEF y, Q, P
  <2>6. w[y] + (w[x] + g[Q]) = w[x] + (w[y] + g[Q])
    BY <2>5
  <2>7. g[P] = w[x] + g[T]
    BY <2>4, <2>6
  <2> QED
    BY <2>7, <1>2 DEF P
<1> QED
  BY <1>8, <1>9

\* Of equal weights it is their number times one.
LEMMA SumsEqual ==
  ASSUME NEW S, IsFiniteSet(S), NEW d \in Nat, NEW w, \A x \in S : w[x] = d, NEW g, IsSum(g, w, S)
  PROVE  g[S] = Cardinality(S) * d
<1> DEFINE F == {T \in SUBSET S : g[T] = Cardinality(T) * d}
<1>0. Weights(w, S)
  BY DEF Weights
<1>1. {} \in F
  <2>1. g[{}] = 0 /\ Cardinality({}) = 0 /\ 0 * d = 0
    BY SumsEmpty, FS_EmptySet
  <2>2. g[{}] = Cardinality({}) * d
    BY <2>1
  <2> QED
    BY <2>2
<1>2. ASSUME NEW T \in SUBSET S, NEW x \in S \ T, T \in F PROVE T \cup {x} \in F
  <2>1. g[T \cup {x}] = w[x] + g[T] /\ w[x] = d /\ g[T] = Cardinality(T) * d
    BY <1>0, <1>2, SumsAdd
  <2>2. IsFiniteSet(T) /\ Cardinality(T \cup {x}) = Cardinality(T) + 1 /\ Cardinality(T) \in Nat
    BY FS_Subset, FS_AddElement, FS_CardinalityType
  <2> DEFINE c == Cardinality(T)
             e == Cardinality(T \cup {x})
  <2>3. e = c + 1 /\ c \in Nat /\ g[T] = c * d /\ g[T \cup {x}] = d + g[T]
    BY <2>1, <2>2
  <2> HIDE DEF c, e
  <2>4. e * d = d + c * d
    BY <2>3
  <2>5. g[T \cup {x}] = e * d
    BY <2>3, <2>4
  <2> QED
    BY <2>5 DEF e
<1> HIDE DEF F
<1>3. SUBSET S \subseteq F
  BY <1>1, <1>2, FiniteInduction
<1> QED
  BY <1>3 DEF F

-----------------------------------------------------------------------------
(* Sorting *)

\* R orders D.
Orders(R, D) ==
  /\ \A c \in D : <<c, c>> \notin R
  /\ \A a, b, c \in D : <<a, b>> \in R /\ <<b, c>> \in R => <<a, c>> \in R
  /\ \A a, b \in D : a = b \/ <<a, b>> \in R \/ <<b, a>> \in R

\* What sorting gives: each member of D, in the order R.
LEMMA RankedIs ==
  ASSUME NEW D, IsFiniteSet(D), NEW R, Orders(R, D)
  PROVE  /\ Ranked(D, R) \in Seq(D) /\ Len(Ranked(D, R)) = Cardinality(D)
         /\ \A i, j \in 1..Len(Ranked(D, R)) : i < j => <<Ranked(D, R)[i], Ranked(D, R)[j]>> \in R
         /\ \A d \in D : \E i \in 1..Len(Ranked(D, R)) : Ranked(D, R)[i] = d
<1> DEFINE B(d) == {c \in D : <<c, d>> \in R}
           N == Cardinality(D)
           q == Ranked(D, R)
           rank == [d \in D |-> Cardinality(B(d))]
<1>0. N \in Nat
  BY FS_CardinalityType
<1>1. ASSUME NEW d \in D PROVE IsFiniteSet(B(d)) /\ Cardinality(B(d)) \in 0..(N - 1)
  <2>1. B(d) \in SUBSET D /\ d \notin B(d)
    BY DEF Orders
  <2> HIDE DEF B
  <2>2. IsFiniteSet(B(d)) /\ Cardinality(B(d)) <= N /\ Cardinality(B(d)) # N
    BY <2>1, FS_Subset
  <2>3. Cardinality(B(d)) \in Nat
    BY <2>2, FS_CardinalityType
  <2> HIDE DEF N
  <2> QED
    BY <2>2, <2>3, <1>0
<1>2. ASSUME NEW c \in D, NEW d \in D, <<c, d>> \in R PROVE rank[c] < rank[d]
  <2>1. B(c) \cup {c} \in SUBSET B(d) /\ c \notin B(c)
    BY <1>2 DEF Orders
  <2>2. rank[c] = Cardinality(B(c)) /\ rank[d] = Cardinality(B(d))
    OBVIOUS
  <2> HIDE DEF B, rank
  <2>3. Cardinality(B(c) \cup {c}) = Cardinality(B(c)) + 1
    BY <2>1, <1>1, FS_AddElement
  <2>4. Cardinality(B(c) \cup {c}) <= Cardinality(B(d))
    BY <2>1, <1>1, FS_Subset
  <2>5. Cardinality(B(c)) \in Nat /\ Cardinality(B(d)) \in Nat
    BY <1>1, FS_CardinalityType
  <2> QED
    BY <2>2, <2>3, <2>4, <2>5
<1>3. rank \in [D -> 0..(N - 1)]
  <2> HIDE DEF B, N
  <2> QED
    BY <1>1
<1>r. \A d \in D : rank[d] = Cardinality(B(d))
  OBVIOUS
<1>q. q = [n \in 1..N |-> CHOOSE d \in D : Cardinality(B(d)) = n - 1]
  BY DEF Ranked
<1> HIDE DEF rank, B, N, q
<1>4. \A c, d \in D : c # d => rank[c] # rank[d]
  <2>1. \A c \in D : rank[c] \in Nat
    BY <1>3, <1>0
  <2>2. \A c, d \in D : c # d => rank[c] < rank[d] \/ rank[d] < rank[c]
    BY <1>2 DEF Orders
  <2> QED
    BY <2>1, <2>2
<1>5. rank \in Surjection(D, 0..(N - 1))
  <2>1. rank \in Injection(D, 0..(N - 1))
    BY <1>3, <1>4 DEF Injection, IsInjective
  <2>2. 0 \in Int /\ N - 1 \in Int /\ (IF 0 > N - 1 THEN 0 ELSE (N - 1) - 0 + 1) = N
    BY <1>0
  <2>3. IsFiniteSet(0..(N - 1)) /\ Cardinality(0..(N - 1)) = N
    BY <2>2, FS_Interval
  <2> QED
    BY <2>1, <2>3, FS_Injection DEF N
<1>6. ASSUME NEW n \in 1..N PROVE q[n] \in D /\ rank[q[n]] = n - 1
  <2>1. n - 1 \in 0..(N - 1)
    BY <1>0
  <2>2. \E d \in D : Cardinality(B(d)) = n - 1
    BY <2>1, <1>5, <1>r DEF Surjection
  <2>3. q[n] = CHOOSE d \in D : Cardinality(B(d)) = n - 1
    BY <1>q
  <2> QED
    BY <2>2, <2>3, <1>r
<1>7. q \in Seq(D) /\ Len(q) = N
  <2>1. q = [n \in 1..N |-> q[n]]
    BY <1>q
  <2> QED
    BY <2>1, <1>6, <1>0
<1>8. ASSUME NEW i \in 1..N, NEW j \in 1..N, i < j PROVE <<q[i], q[j]>> \in R
  <2>1. rank[q[i]] < rank[q[j]]
    BY <1>6, <1>8, <1>0
  <2>2. q[i] \in D /\ q[j] \in D /\ q[i] # q[j]
    BY <1>6, <1>8, <1>0, <2>1
  <2>3. ~(rank[q[j]] < rank[q[i]])
    BY <1>6, <1>8, <1>0
  <2> QED
    BY <2>2, <2>3, <1>2 DEF Orders
<1>9. ASSUME NEW d \in D PROVE \E i \in 1..N : q[i] = d
  <2>1. rank[d] \in 0..(N - 1) /\ rank[d] + 1 \in 1..N /\ (rank[d] + 1) - 1 = rank[d]
    BY <1>3, <1>0
  <2>2. q[rank[d] + 1] \in D /\ rank[q[rank[d] + 1]] = rank[d]
    BY <2>1, <1>6
  <2> QED
    BY <2>1, <2>2, <1>4
<1> QED
  BY <1>7, <1>8, <1>9, <1>0 DEF q, N

-----------------------------------------------------------------------------
(* Filters *)

\* f[i] is what the first i members of s leave in T.
Filters(s, T, f) ==
  f = [i \in 0..Len(s) |-> IF i = 0 THEN <<>> ELSE IF s[i] \in T THEN Append(f[i - 1], s[i]) ELSE f[i - 1]]

\* The filtered beginnings, one by one.
LEMMA FiltersAt ==
  ASSUME NEW S, NEW s \in Seq(S), NEW T, NEW f, Filters(s, T, f), NEW i \in 0..Len(s)
  PROVE  f[i] = IF i = 0 THEN <<>> ELSE IF s[i] \in T THEN Append(f[i - 1], s[i]) ELSE f[i - 1]
<1> DEFINE h == [j \in 0..Len(s) |-> IF j = 0 THEN <<>> ELSE IF s[j] \in T THEN Append(f[j - 1], s[j]) ELSE f[j - 1]]
<1>1. f = h
  BY DEF Filters
<1>2. h[i] = IF i = 0 THEN <<>> ELSE IF s[i] \in T THEN Append(f[i - 1], s[i]) ELSE f[i - 1]
  OBVIOUS
<1> HIDE DEF h
<1> QED
  BY <1>1, <1>2

\* There are some for every sequence.
LEMMA FiltersExist ==
  ASSUME NEW S, NEW s \in Seq(S), NEW T
  PROVE  \E f : Filters(s, T, f)
<1> DEFINE g == [p \in Nat \X Seq(S) |->
                   IF p[1] + 1 \in 1..Len(s) /\ s[p[1] + 1] \in T THEN Append(p[2], s[p[1] + 1]) ELSE p[2]]
<1>0. Len(s) \in Nat /\ <<>> \in Seq(S) /\ \A i \in 1..Len(s) : s[i] \in S
  OBVIOUS
<1>1. g \in [Nat \X Seq(S) -> Seq(S)]
  BY <1>0
<1>2. \A i \in 1..Len(s), q \in Seq(S) : g[<<i - 1, q>>] = IF s[i] \in T THEN Append(q, s[i]) ELSE q
  <2> SUFFICES ASSUME NEW i \in 1..Len(s), NEW q \in Seq(S)
               PROVE  g[<<i - 1, q>>] = IF s[i] \in T THEN Append(q, s[i]) ELSE q
    OBVIOUS
  <2>1. i - 1 \in Nat /\ (i - 1) + 1 = i
    BY <1>0
  <2> QED
    BY <2>1
<1> HIDE DEF g
<1>3. PICK h \in [0..Len(s) -> Seq(S)] : Iterated(<<>>, g, Len(s), h)
  BY <1>0, <1>1, Iteration
<1> DEFINE k == [i \in 0..Len(s) |-> IF i = 0 THEN <<>> ELSE IF s[i] \in T THEN Append(h[i - 1], s[i]) ELSE h[i - 1]]
<1>4. ASSUME NEW i \in 0..Len(s) PROVE h[i] = k[i]
  <2>1. CASE i = 0
    BY <1>3, <2>1 DEF Iterated
  <2>2. CASE i # 0
    <3>1. i \in 1..Len(s) /\ i - 1 \in 0..(Len(s) - 1) /\ i - 1 \in 0..Len(s) /\ (i - 1) + 1 = i
      BY <1>0, <2>2
    <3>2. h[i] = g[<<i - 1, h[i - 1]>>] /\ h[i - 1] \in Seq(S)
      BY <1>3, <3>1 DEF Iterated
    <3> QED
      BY <2>2, <3>1, <3>2, <1>2
  <2> QED
    BY <2>1, <2>2
<1>5. h = k
  BY <1>4
<1> QED
  BY <1>5 DEF Filters

\* What a filter leaves of s: members of s in T, each of them, and in the order
\* of s, which R is about.
LEMMA KeptIs ==
  ASSUME NEW S, NEW s \in Seq(S), NEW T, NEW R, \A a, b \in 1..Len(s) : a < b => <<s[a], s[b]>> \in R
  PROVE  /\ Kept(s, T) \in Seq(S)
         /\ \A j \in 1..Len(Kept(s, T)) : Kept(s, T)[j] \in T /\ \E a \in 1..Len(s) : Kept(s, T)[j] = s[a]
         /\ \A a \in 1..Len(s) : s[a] \in T => \E j \in 1..Len(Kept(s, T)) : Kept(s, T)[j] = s[a]
         /\ \A j, k \in 1..Len(Kept(s, T)) : j < k => <<Kept(s, T)[j], Kept(s, T)[k]>> \in R
<1> DEFINE f == CHOOSE f : f = [i \in 0..Len(s) |-> IF i = 0 THEN << >>
                              ELSE IF s[i] \in T THEN Append(f[i - 1], s[i])
                              ELSE f[i - 1]]
<1>1. Filters(s, T, f)
  <2>1. \E h : Filters(s, T, h)
    BY FiltersExist
  <2> QED
    BY <2>1 DEF Filters
<1>2. Kept(s, T) = f[Len(s)]
  BY DEF Kept
<1> HIDE DEF f
<1> DEFINE Good(i, q) == /\ q \in Seq(S)
                         /\ \A j \in 1..Len(q) : q[j] \in T /\ \E a \in 1..i : q[j] = s[a]
                         /\ \A a \in 1..i : s[a] \in T => \E j \in 1..Len(q) : q[j] = s[a]
                         /\ \A j, k \in 1..Len(q) : j < k => <<q[j], q[k]>> \in R
           N == {i \in Nat : i <= Len(s) => Good(i, f[i])}
<1>0. Len(s) \in Nat /\ <<>> \in Seq(S) /\ \A i \in 1..Len(s) : s[i] \in S
  OBVIOUS
<1>3. 0 \in N
  <2>1. f[0] = <<>>
    BY <1>0, <1>1, FiltersAt
  <2>2. Good(0, <<>>)
    BY <1>0
  <2>3. Good(0, f[0])
    <3> HIDE DEF Good
    <3> QED
      BY <2>1, <2>2
  <2> HIDE DEF Good
  <2> QED
    BY <2>3
<1>4. ASSUME NEW i \in N PROVE i + 1 \in N
  <2> SUFFICES ASSUME i + 1 <= Len(s) PROVE Good(i + 1, f[i + 1])
    <3>1. i + 1 \in Nat
      OBVIOUS
    <3> HIDE DEF Good
    <3> QED
      BY <3>1
  <2> DEFINE q == f[i]
             e == s[i + 1]
  <2>1. i \in Nat /\ i + 1 \in 0..Len(s) /\ i + 1 \in 1..Len(s) /\ i + 1 # 0 /\ (i + 1) - 1 = i /\ e \in S
    BY <1>0
  <2>2. Good(i, q)
    BY <2>1
  <2>3. f[i + 1] = IF e \in T THEN Append(q, e) ELSE q
    BY <2>1, <1>1, FiltersAt
  <2> HIDE DEF N, q, e
  <2>4. 1..(i + 1) = 1..i \cup {i + 1} /\ 1..i \subseteq 1..Len(s)
    BY <2>1
  <2>5. CASE e \notin T
    <3>1. f[i + 1] = q
      BY <2>3, <2>5
    <3>2. Good(i + 1, q)
      BY <2>2, <2>4, <2>5 DEF e
    <3> QED
      BY <3>1, <3>2
  <2>6. CASE e \in T
    <3> DEFINE p == Append(q, e)
               n == Len(q)
    <3>0. n \in Nat
      BY <2>2
    <3>1. p \in Seq(S) /\ Len(p) = n + 1 /\ p[n + 1] = e /\ \A j \in 1..n : p[j] = q[j]
      BY <2>2, <2>1
    <3>a. 1..(n + 1) = 1..n \cup {n + 1}
      BY <3>0
    <3> HIDE DEF p, n
    <3>2. \A j \in 1..n : q[j] \in T /\ \E a \in 1..i : q[j] = s[a]
      BY <2>2 DEF n
    <3>3. \A j \in 1..(n + 1) : p[j] \in T /\ \E a \in 1..(i + 1) : p[j] = s[a]
      <4> SUFFICES ASSUME NEW j \in 1..(n + 1)
                   PROVE  p[j] \in T /\ \E a \in 1..(i + 1) : p[j] = s[a]
        OBVIOUS
      <4>1. CASE j = n + 1
        BY <3>1, <2>4, <2>6, <4>1 DEF e
      <4>2. CASE j \in 1..n
        BY <3>1, <3>2, <2>4, <4>2
      <4> QED
        BY <3>a, <4>1, <4>2
    <3>4. \A a \in 1..(i + 1) : s[a] \in T => \E j \in 1..(n + 1) : p[j] = s[a]
      <4>1. \A a \in 1..i : s[a] \in T => \E j \in 1..n : q[j] = s[a]
        BY <2>2 DEF n
      <4> QED
        BY <3>1, <3>a, <2>4, <4>1 DEF e
    <3>5. \A j, k \in 1..(n + 1) : j < k => <<p[j], p[k]>> \in R
      <4> SUFFICES ASSUME NEW j \in 1..(n + 1), NEW k \in 1..(n + 1), j < k PROVE <<p[j], p[k]>> \in R
        OBVIOUS
      <4>0. j \in 1..n
        BY <3>0
      <4>1. CASE k = n + 1
        <5>1. PICK a \in 1..i : q[j] = s[a]
          BY <3>2, <4>0
        <5>2. a \in 1..Len(s) /\ a < i + 1
          BY <2>1
        <5>3. <<s[a], s[i + 1]>> \in R
          BY <5>2, <2>1
        <5> QED
          BY <5>1, <5>3, <3>1, <4>0, <4>1 DEF e
      <4>2. CASE k \in 1..n
        <5>1. <<q[j], q[k]>> \in R
          BY <2>2, <4>0, <4>2 DEF n
        <5> QED
          BY <5>1, <3>1, <4>0, <4>2
      <4> QED
        BY <3>a, <4>1, <4>2
    <3>6. f[i + 1] = p
      BY <2>3, <2>6 DEF p
    <3> QED
      BY <3>1, <3>3, <3>4, <3>5, <3>6
  <2> QED
    BY <2>5, <2>6
<1> HIDE DEF N, Good
<1>5. N \in SUBSET Nat
  BY DEF N
<1>6. N = Nat
  BY <1>3, <1>4, <1>5, Induction
<1>7. Good(Len(s), f[Len(s)])
  <2>1. Len(s) \in Nat /\ Len(s) <= Len(s)
    BY <1>0
  <2> QED
    BY <2>1, <1>6 DEF N
<1> QED
  BY <1>2, <1>7 DEF Good

-----------------------------------------------------------------------------
(* The order of sequences of numbers: by the first place they differ in *)

Precedes(a, b) ==
  \E n \in 0..Len(a) : /\ n < Len(b) /\ \A i \in 1..n : a[i] = b[i]
                       /\ n = Len(a) \/ a[n + 1] < b[n + 1]

\* It is irreflexive,
LEMMA PrecedesStrict == ASSUME NEW a \in Seq(Nat) PROVE ~Precedes(a, a)
<1> SUFFICES ASSUME Precedes(a, a) PROVE FALSE
  OBVIOUS
<1>1. PICK n \in 0..Len(a) : n < Len(a) /\ (n = Len(a) \/ a[n + 1] < a[n + 1])
  BY DEF Precedes
<1>2. n + 1 \in 1..Len(a) /\ n # Len(a)
  BY <1>1
<1>3. a[n + 1] \in Nat
  BY <1>2
<1> QED
  BY <1>1, <1>2, <1>3

\* transitive
LEMMA PrecedesTransitive ==
  ASSUME NEW a \in Seq(Nat), NEW b \in Seq(Nat), NEW c \in Seq(Nat), Precedes(a, b), Precedes(b, c)
  PROVE  Precedes(a, c)
<1>0. Len(a) \in Nat /\ Len(b) \in Nat /\ Len(c) \in Nat
  OBVIOUS
<1>1. PICK n \in 0..Len(a) : /\ n < Len(b) /\ \A i \in 1..n : a[i] = b[i]
                             /\ n = Len(a) \/ a[n + 1] < b[n + 1]
  BY DEF Precedes
<1>2. PICK m \in 0..Len(b) : /\ m < Len(c) /\ \A i \in 1..m : b[i] = c[i]
                             /\ m = Len(b) \/ b[m + 1] < c[m + 1]
  BY DEF Precedes
<1>3. CASE n < m
  <2>1. n < Len(c) /\ \A i \in 1..n : a[i] = c[i]
    BY <1>0, <1>1, <1>2, <1>3
  <2>2. n + 1 \in 1..m
    BY <1>0, <1>3
  <2>3. b[n + 1] = c[n + 1]
    BY <1>2, <2>2
  <2> QED
    BY <1>1, <2>1, <2>3 DEF Precedes
<1>4. CASE n = m
  <2>1. n < Len(c) /\ \A i \in 1..n : a[i] = c[i]
    BY <1>0, <1>1, <1>2, <1>4
  <2>2. CASE n = Len(a)
    BY <2>1, <2>2 DEF Precedes
  <2>3. CASE n # Len(a)
    <3>a. n + 1 \in 1..Len(a) /\ n + 1 \in 1..Len(b) /\ n + 1 \in 1..Len(c) /\ m # Len(b)
      BY <1>0, <1>1, <1>4, <2>1, <2>3, SMTT(40)
    <3>b. \A t \in Seq(Nat) : \A i \in 1..Len(t) : t[i] \in Nat
      OBVIOUS
    <3>1. a[n + 1] \in Nat /\ b[n + 1] \in Nat /\ c[n + 1] \in Nat
      BY <3>a, <3>b
    <3>2. a[n + 1] < b[n + 1] /\ b[n + 1] < c[n + 1]
      BY <1>1, <1>2, <1>4, <2>3, <3>a
    <3>3. a[n + 1] < c[n + 1]
      BY <3>1, <3>2, SMTT(40)
    <3> QED
      BY <2>1, <3>3 DEF Precedes
  <2> QED
    BY <2>2, <2>3
<1>5. CASE m < n
  <2>0. m \in 0..Len(a) /\ m # Len(a) /\ 1..m \subseteq 1..n
    BY <1>0, <1>5
  <2>1. m \in 0..Len(a) /\ m # Len(a) /\ \A i \in 1..m : a[i] = c[i]
    BY <1>1, <1>2, <2>0
  <2>2. m + 1 \in 1..n
    BY <1>0, <1>5
  <2>3. a[m + 1] = b[m + 1] /\ m # Len(b)
    BY <1>0, <1>1, <1>5, <2>2
  <2> QED
    BY <1>2, <2>1, <2>3 DEF Precedes
<1> QED
  BY <1>0, <1>3, <1>4, <1>5

\* and total.
LEMMA PrecedesTotal ==
  ASSUME NEW a \in Seq(Nat), NEW b \in Seq(Nat), a # b
  PROVE  Precedes(a, b) \/ Precedes(b, a)
<1>0. Len(a) \in Nat /\ Len(b) \in Nat
  OBVIOUS
<1> DEFINE D == {i \in Nat : i \in 1..Len(a) /\ i \in 1..Len(b) /\ a[i] # b[i]}
<1>1. CASE D = {}
  <2>1. \A i \in Nat : i \in 1..Len(a) /\ i \in 1..Len(b) => a[i] = b[i]
    BY <1>1
  <2>2. Len(a) # Len(b)
    <3> SUFFICES ASSUME Len(a) = Len(b) PROVE FALSE
      OBVIOUS
    <3>1. \A i \in 1..Len(a) : a[i] = b[i]
      BY <2>1, <1>0
    <3> QED
      BY <3>1, SeqEqual
  <2>3. CASE Len(a) < Len(b)
    <3>1. Len(a) \in 0..Len(a) /\ \A i \in 1..Len(a) : a[i] = b[i]
      BY <2>1, <2>3, <1>0
    <3> QED
      BY <3>1, <2>3 DEF Precedes
  <2>4. CASE Len(b) < Len(a)
    <3>1. Len(b) \in 0..Len(b) /\ \A i \in 1..Len(b) : b[i] = a[i]
      BY <2>1, <2>4, <1>0
    <3> QED
      BY <3>1, <2>4 DEF Precedes
  <2> QED
    BY <1>0, <2>2, <2>3, <2>4
<1>2. CASE D # {}
  <2>1. PICK d \in D : \A m \in D : d <= m
    <3>1. D \in SUBSET Nat
      OBVIOUS
    <3> HIDE DEF D
    <3> QED
      BY <3>1, <1>2, LeastNumber
  <2>2. d \in 1..Len(a) /\ d \in 1..Len(b) /\ a[d] # b[d]
    OBVIOUS
  <2> DEFINE n == d - 1
  <2>3. n \in 0..Len(a) /\ n \in 0..Len(b) /\ n < Len(b) /\ n < Len(a) /\ n + 1 = d
    BY <2>2, <1>0
  <2>4. \A i \in 1..n : a[i] = b[i]
    <3> SUFFICES ASSUME NEW i \in 1..n, a[i] # b[i] PROVE FALSE
      OBVIOUS
    <3>0. d \in Nat /\ d <= Len(a) /\ d <= Len(b)
      BY <2>2, <1>0
    <3>1. i \in Nat /\ i \in 1..Len(a) /\ i \in 1..Len(b) /\ ~(d <= i)
      <4> HIDE DEF D
      <4> QED
        BY <3>0, <1>0
    <3>2. i \in D
      BY <3>1
    <3> QED
      BY <3>1, <3>2, <2>1
  <2>5. a[d] \in Nat /\ b[d] \in Nat
    BY <2>2
  <2>6. a[d] < b[d] \/ b[d] < a[d]
    BY <2>2, <2>5
  <2> HIDE DEF n
  <2> QED
    BY <2>3, <2>4, <2>6 DEF Precedes
<1> QED
  BY <1>1, <1>2

\* A finite set of them has a first.
LEMMA FirstOfAll ==
  ASSUME NEW S, S \subseteq Seq(Nat), IsFiniteSet(S), S # {}
  PROVE  \E k \in S : \A j \in S : k = j \/ Precedes(k, j)
<1> DEFINE F == {T \in SUBSET S : T # {} => \E k \in T : \A j \in T : k = j \/ Precedes(k, j)}
<1>1. {} \in F
  OBVIOUS
<1>2. ASSUME NEW T \in SUBSET S, NEW x \in S \ T, T \in F PROVE T \cup {x} \in F
  <2>1. CASE T = {}
    <3>1. \A j \in T \cup {x} : x = j
      BY <2>1
    <3> QED
      BY <3>1
  <2>2. CASE T # {}
    <3>1. PICK k \in T : \A j \in T : k = j \/ Precedes(k, j)
      BY <1>2, <2>2
    <3>2. k \in Seq(Nat) /\ x \in Seq(Nat) /\ k # x
      OBVIOUS
    <3>3. CASE Precedes(k, x)
      <4>1. \A j \in T \cup {x} : k = j \/ Precedes(k, j)
        BY <3>1, <3>3
      <4> QED
        BY <4>1
    <3>4. CASE Precedes(x, k)
      <4>1. \A j \in T \cup {x} : x = j \/ Precedes(x, j)
        BY <3>1, <3>2, <3>4, PrecedesTransitive
      <4> QED
        BY <4>1
    <3> QED
      BY <3>2, <3>3, <3>4, PrecedesTotal
  <2> QED
    BY <2>1, <2>2
<1> HIDE DEF F
<1>3. SUBSET S \subseteq F
  BY <1>1, <1>2, FiniteInduction
<1>4. S \in F
  BY <1>3
<1> QED
  BY <1>4 DEF F
=============================================================================
