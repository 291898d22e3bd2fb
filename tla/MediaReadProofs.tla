--------------------------- MODULE MediaReadProofs ---------------------------
(***************************************************************************)
(* What MediaRead promises, for every set of objects, chunk size, request, *)
(* channel and cache: the invariant of MediaReadInvariant is inductive,    *)
(* and the properties follow from it.                                      *)
(***************************************************************************)
EXTENDS MediaReadInvariant, SequenceLemmas

-----------------------------------------------------------------------------
(* Size *)

\* One step of the sum: the size of the next chunk is added.
Adds(s) ==
  [p \in Nat \X Nat |-> IF p[1] + 1 \in 1..Len(s) THEN p[2] + Bytes[s[p[1] + 1]] ELSE p[2]]

\* What a step of the sum adds.
LEMMA AddsAt ==
  ASSUME NEW s \in Seq(Chunks)
  PROVE  /\ Adds(s) \in [Nat \X Nat -> Nat]
         /\ \A i \in 1..Len(s), n \in Nat : Adds(s)[<<i - 1, n>>] = n + Bytes[s[i]]
<1>1. Len(s) \in Nat /\ \A i \in 1..Len(s) : s[i] \in Chunks /\ Bytes[s[i]] \in Nat
  BY CacheBounds
<1>2. Adds(s) \in [Nat \X Nat -> Nat]
  BY <1>1 DEF Adds
<1>3. ASSUME NEW i \in 1..Len(s), NEW n \in Nat PROVE Adds(s)[<<i - 1, n>>] = n + Bytes[s[i]]
  <2>1. i - 1 \in Nat /\ (i - 1) + 1 = i
    BY <1>1
  <2> QED
    BY <2>1 DEF Adds
<1> QED
  BY <1>2, <1>3

\* Size iterates that step.
LEMMA SizeIs ==
  ASSUME NEW s \in Seq(Chunks)
  PROVE  \E f : Iterated(0, Adds(s), Len(s), f) /\ Size(s) = f[Len(s)]
<1>1. Len(s) \in Nat /\ Adds(s) \in [Nat \X Nat -> Nat]
  BY AddsAt
<1>2. PICK h \in [0..Len(s) -> Nat] : Iterated(0, Adds(s), Len(s), h)
  BY <1>1, Iteration
<1>3. h[0] = 0
  BY <1>2 DEF Iterated
<1>4. ASSUME NEW i \in 1..Len(s) PROVE h[i] = h[i - 1] + Bytes[s[i]]
  <2>1. i - 1 \in 0..(Len(s) - 1) /\ i - 1 \in 0..Len(s) /\ (i - 1) + 1 = i
    BY <1>1
  <2>2. h[i] = Adds(s)[<<i - 1, h[i - 1]>>] /\ h[i - 1] \in Nat
    BY <1>2, <2>1 DEF Iterated
  <2> QED
    BY <2>2, AddsAt
<1> DEFINE Sums(f) == f = [i \in 0..Len(s) |-> IF i = 0 THEN 0 ELSE f[i - 1] + Bytes[s[i]]]
           sum == CHOOSE f : Sums(f)
<1>5. Sums(h)
  <2> DEFINE k == [i \in 0..Len(s) |-> IF i = 0 THEN 0 ELSE h[i - 1] + Bytes[s[i]]]
  <2>1. ASSUME NEW i \in 0..Len(s) PROVE h[i] = k[i]
    <3>1. i = 0 \/ i \in 1..Len(s)
      BY <1>1
    <3> QED
      BY <1>3, <1>4, <3>1
  <2>2. h = k
    BY <2>1
  <2> QED
    BY <2>2
<1>6. Sums(sum)
  BY <1>5
<1>7. Size(s) = sum[Len(s)]
  BY DEF Size
<1> HIDE DEF sum
<1>8. sum[0] = 0 /\ \A i \in 1..Len(s) : sum[i] = sum[i - 1] + Bytes[s[i]]
  <2> DEFINE k == [i \in 0..Len(s) |-> IF i = 0 THEN 0 ELSE sum[i - 1] + Bytes[s[i]]]
  <2>1. sum = k
    BY <1>6
  <2>2. k[0] = 0 /\ \A i \in 1..Len(s) : k[i] = sum[i - 1] + Bytes[s[i]]
    BY <1>1
  <2> HIDE DEF k
  <2> QED
    BY <2>1, <2>2
<1> HIDE DEF Sums
<1> DEFINE N == {n \in Nat : n <= Len(s) => sum[n] = h[n]}
<1>9. 0 \in N
  BY <1>3, <1>8
<1>10. ASSUME NEW n \in N PROVE n + 1 \in N
  <2>1. SUFFICES ASSUME n + 1 <= Len(s) PROVE sum[n + 1] = h[n + 1]
    OBVIOUS
  <2>2. n + 1 \in 1..Len(s) /\ (n + 1) - 1 = n /\ n <= Len(s)
    BY <1>1, <2>1
  <2>3. sum[n] = h[n]
    BY <2>2
  <2> QED
    BY <1>4, <1>8, <2>2, <2>3
<1> HIDE DEF N
<1>11. N = Nat
  <2>1. N \in SUBSET Nat
    BY DEF N
  <2> QED
    BY <2>1, <1>9, <1>10, Induction
<1>12. sum[Len(s)] = h[Len(s)]
  BY <1>1, <1>11 DEF N
<1> QED
  BY <1>2, <1>7, <1>12

\* The size of nothing is 0.
LEMMA SizeEmpty == Size(<<>>) = 0
<1>0. <<>> \in Seq(Chunks)
  OBVIOUS
<1>1. PICK f : Iterated(0, Adds(<<>>), Len(<<>>), f) /\ Size(<<>>) = f[Len(<<>>)]
  BY <1>0, SizeIs
<1> QED
  BY <1>1 DEF Iterated

\* A chunk more adds its size.
LEMMA SizeAppend ==
  ASSUME NEW s \in Seq(Chunks), NEW c \in Chunks
  PROVE  Size(s) \in Nat /\ Size(Append(s, c)) = Size(s) + Bytes[c]
<1> DEFINE t == Append(s, c)
<1>1. t \in Seq(Chunks) /\ Len(t) = Len(s) + 1 /\ t[Len(s) + 1] = c /\ Len(s) \in Nat
      /\ \A i \in 1..Len(s) : t[i] = s[i]
  BY AppendProperties
<1> HIDE DEF t
<1>2. PICK f : Iterated(0, Adds(s), Len(s), f) /\ Size(s) = f[Len(s)]
  BY SizeIs
<1>3. PICK h : Iterated(0, Adds(t), Len(t), h) /\ Size(t) = h[Len(t)]
  BY <1>1, SizeIs
<1>4. ASSUME NEW i \in 0..(Len(s) - 1), NEW n \in Nat
      PROVE  Adds(s)[<<i, n>>] = Adds(t)[<<i, n>>]
  <2>1. i + 1 \in 1..Len(s) /\ i + 1 \in 1..Len(t) /\ (i + 1) - 1 = i /\ s[i + 1] = t[i + 1]
    BY <1>1
  <2>2. Adds(s)[<<(i + 1) - 1, n>>] = n + Bytes[s[i + 1]]
    BY <2>1, AddsAt
  <2>3. Adds(t)[<<(i + 1) - 1, n>>] = n + Bytes[t[i + 1]]
    BY <1>1, <2>1, AddsAt
  <2> QED
    BY <2>1, <2>2, <2>3
<1>5. \A i \in 0..Len(s) : f[i] = h[i] /\ f[i] \in Nat
  <2>1. Adds(s) \in [Nat \X Nat -> Nat] /\ Adds(t) \in [Nat \X Nat -> Nat]
    BY <1>1, AddsAt
  <2>2. Len(t) \in Nat /\ Len(s) <= Len(s) /\ Len(s) <= Len(t) /\ 0 \in Nat
    BY <1>1
  <2> QED
    <3>1. Iterated(0, Adds(s), Len(s), f) /\ Iterated(0, Adds(t), Len(t), h)
      BY <1>2, <1>3
    <3>2. SameSteps(Adds(s), Adds(t), Len(s), Nat)
      BY <1>4 DEF SameSteps
    <3>3. Len(s) \in Nat
      BY <1>1
    <3> QED
      BY <2>1, <2>2, <3>1, <3>2, <3>3, IterationAgree, ZenonT(60)
<1>6. f[Len(s)] = h[Len(s)] /\ f[Len(s)] \in Nat
  BY <1>1, <1>5
<1>7. h[Len(s) + 1] = Adds(t)[<<Len(s), h[Len(s)]>>]
  BY <1>1, <1>3, Len(s) \in 0..(Len(t) - 1) DEF Iterated
<1>8. Adds(t)[<<(Len(s) + 1) - 1, h[Len(s)]>>] = h[Len(s)] + Bytes[c]
  BY <1>1, <1>6, AddsAt, Len(s) + 1 \in 1..Len(t)
<1> QED
  BY <1>1, <1>2, <1>3, <1>6, <1>7, <1>8, (Len(s) + 1) - 1 = Len(s) DEF t

\* A size is a number.
LEMMA SizeType ==
  ASSUME NEW s \in Seq(Chunks)
  PROVE  Size(s) \in Nat
<1>1. CASE Chunks = {}
  <2>1. s = <<>>
    BY <1>1
  <2> QED
    BY <2>1, SizeEmpty
<1>2. CASE Chunks # {}
  BY <1>2, SizeAppend
<1> QED
  BY <1>1, <1>2

\* The size of a concatenation is the sum of the sizes.
LEMMA SizeConcat ==
  ASSUME NEW s \in Seq(Chunks), NEW t \in Seq(Chunks)
  PROVE  Size(s \o t) = Size(s) + Size(t)
<1> DEFINE P(u) == Size(s \o u) = Size(s) + Size(u)
           N == {n \in Nat : \A u \in Seq(Chunks) : Len(u) = n => P(u)}
<1>1. 0 \in N
  <2>1. SUFFICES ASSUME NEW u \in Seq(Chunks), Len(u) = 0 PROVE P(u)
    OBVIOUS
  <2>2. u = <<>> /\ s \o u = s
    BY <2>1, EmptySeq, ConcatEmptySeq
  <2>3. Size(s) \in Nat /\ Size(u) = 0
    BY <2>2, SizeEmpty, SizeType
  <2> QED
    BY <2>2, <2>3
<1>2. ASSUME NEW n \in N PROVE n + 1 \in N
  <2>1. SUFFICES ASSUME NEW u \in Seq(Chunks), Len(u) = n + 1 PROVE P(u)
    OBVIOUS
  <2>2. PICK v \in Seq(Chunks), e \in Chunks : u = Append(v, e)
    <3>1. u # <<>>
      BY <2>1
    <3> QED
      BY <3>1, SequenceEmptyOrAppend
  <2>3. Len(v) = n
    BY <2>1, <2>2, AppendProperties
  <2>4. Size(s \o v) = Size(s) + Size(v)
    BY <2>3
  <2>5. s \o u = Append(s \o v, e) /\ s \o v \in Seq(Chunks)
    BY <2>2, ConcatProperties
  <2>6. Size(s \o u) = Size(s \o v) + Bytes[e] /\ Size(u) = Size(v) + Bytes[e]
    BY <2>2, <2>5, SizeAppend
  <2>7. Size(s) \in Nat /\ Size(v) \in Nat /\ Bytes[e] \in Nat
    BY SizeType, CacheBounds
  <2> QED
    BY <2>4, <2>6, <2>7
<1> HIDE DEF N, P
<1>3. N = Nat
  <2>1. N \in SUBSET Nat
    BY DEF N
  <2> QED
    BY <2>1, <1>1, <1>2, Induction
<1> QED
  BY <1>3, Len(t) \in Nat DEF N, P

\* The size of a sequence and of any one of its chunks, taken out.
LEMMA SizeRemove ==
  ASSUME NEW s \in Seq(Chunks), NEW i \in 1..Len(s)
  PROVE  /\ RemoveAt(s, i) \in Seq(Chunks) /\ Len(RemoveAt(s, i)) = Len(s) - 1
         /\ \A j \in 1..(Len(s) - 1) : RemoveAt(s, i)[j] = s[IF j < i THEN j ELSE j + 1]
         /\ Size(s) = Size(RemoveAt(s, i)) + Bytes[s[i]]
<1>1. Len(s) \in Nat /\ i - 1 \in Nat /\ i \in Nat /\ i - 1 <= i /\ i <= Len(s) /\ s[i] \in Chunks
  OBVIOUS
<1> DEFINE l == SubSeq(s, 1, i - 1)
           r == SubSeq(s, i + 1, Len(s))
<1>2. l \in Seq(Chunks) /\ Len(l) = i - 1 /\ \A j \in 1..(i - 1) : l[j] = s[j]
  <2>1. SubSeq(s, 0 + 1, i - 1) \in Seq(Chunks) /\ Len(SubSeq(s, 0 + 1, i - 1)) = i - 1 - 0
        /\ \A j \in 1..(i - 1 - 0) : SubSeq(s, 0 + 1, i - 1)[j] = s[0 + j]
    BY <1>1, PartIs, 0 \in Nat, 0 <= i - 1, i - 1 <= Len(s)
  <2> QED
    BY <2>1, <1>1
<1>3. r \in Seq(Chunks) /\ Len(r) = Len(s) - i /\ \A j \in 1..(Len(s) - i) : r[j] = s[i + j]
  BY <1>1, PartIs, Len(s) <= Len(s)
<1>4. s = Append(l, s[i]) \o r
  <2>1. SubSeq(s, 1, i) = Append(l, s[i])
    <3>1. SubSeq(s, 1, i) = SubSeq(s, 1, i - 1) \o <<s[i]>>
      BY <1>1, SubSeqRecursiveSecond, 1 \in 1..Len(s), i \in 1..Len(s)
    <3> QED
      BY <3>1, <1>1, <1>2, AppendIsConcat
  <2>2. SubSeq(s, 1, i) \o SubSeq(s, i + 1, Len(s)) = SubSeq(s, 1, Len(s))
    BY <1>1, ConcatAdjacentSubSeq, 1 \in 1..(Len(s) + 1), i \in (1 - 1)..Len(s), Len(s) \in i..Len(s)
  <2>3. SubSeq(s, 1, Len(s)) = s
    BY SubSeqFull
  <2>4. SubSeq(s, 1, i) \o r = s
    BY <2>2, <2>3
  <2> HIDE DEF l, r
  <2> QED
    BY <2>1, <2>4
<1>5. RemoveAt(s, i) = l \o r
  BY DEF RemoveAt
<1> HIDE DEF l, r
<1>6. l \o r \in Seq(Chunks) /\ Len(l \o r) = Len(s) - 1
      /\ \A j \in 1..(Len(s) - 1) : (l \o r)[j] = s[IF j < i THEN j ELSE j + 1]
  <2>1. l \o r \in Seq(Chunks) /\ Len(l \o r) = Len(l) + Len(r)
        /\ \A j \in 1..(Len(l) + Len(r)) : (l \o r)[j] = IF j <= Len(l) THEN l[j] ELSE r[j - Len(l)]
    BY <1>2, <1>3, ConcatProperties
  <2>2. Len(l) + Len(r) = Len(s) - 1
    BY <1>1, <1>2, <1>3
  <2>3. ASSUME NEW j \in 1..(Len(s) - 1) PROVE (l \o r)[j] = s[IF j < i THEN j ELSE j + 1]
    <3>1. CASE j < i
      BY <1>1, <1>2, <2>1, <2>2, <3>1
    <3>2. CASE ~(j < i)
      <4>1. j - Len(l) \in 1..(Len(s) - i) /\ i + (j - Len(l)) = j + 1 /\ ~(j <= Len(l))
        BY <1>1, <1>2, <3>2
      <4>2. (l \o r)[j] = r[j - Len(l)]
        BY <2>1, <2>2, <4>1
      <4>3. r[j - Len(l)] = s[j + 1]
        BY <1>3, <4>1
      <4> QED
        BY <3>2, <4>2, <4>3
    <3> QED
      BY <3>1, <3>2
  <2> QED
    BY <2>1, <2>2, <2>3
<1>7. Size(s) = Size(l) + Bytes[s[i]] + Size(r) /\ Size(l \o r) = Size(l) + Size(r)
  <2>1. Append(l, s[i]) \in Seq(Chunks) /\ Size(Append(l, s[i])) = Size(l) + Bytes[s[i]]
    BY <1>1, <1>2, SizeAppend, AppendProperties
  <2>2. Size(Append(l, s[i]) \o r) = Size(Append(l, s[i])) + Size(r)
    BY <1>3, <2>1, SizeConcat
  <2>3. Size(l \o r) = Size(l) + Size(r)
    BY <1>2, <1>3, SizeConcat
  <2> QED
    BY <1>4, <2>1, <2>2, <2>3
<1>8. Size(l) \in Nat /\ Size(r) \in Nat /\ Bytes[s[i]] \in Nat
  BY <1>1, <1>2, <1>3, SizeType, CacheBounds
<1> QED
  BY <1>5, <1>6, <1>7, <1>8, SMTT(40)

-----------------------------------------------------------------------------
(* The cache *)

\* Without takes out the one place a chunk has.
LEMMA WithoutIs ==
  ASSUME NEW s \in Seq(Chunks), IsInjective(s), NEW c \in Range(s)
  PROVE  /\ Without(s, c) \in Seq(Chunks) /\ IsInjective(Without(s, c)) /\ c \notin Range(Without(s, c))
         /\ Len(s) = Len(Without(s, c)) + 1 /\ Size(s) = Size(Without(s, c)) + Bytes[c]
<1>1. Len(s) \in Nat /\ DOMAIN s = 1..Len(s)
  OBVIOUS
<1> DEFINE i == CHOOSE j \in 1..Len(s) : s[j] = c
           t == RemoveAt(s, i)
<1>2. i \in 1..Len(s) /\ s[i] = c
  BY <1>1 DEF Range
<1>3. Without(s, c) = t
  BY DEF Without
<1> HIDE DEF i
<1>4. t \in Seq(Chunks) /\ Len(t) = Len(s) - 1 /\ Size(s) = Size(t) + Bytes[c]
      /\ \A j \in 1..(Len(s) - 1) : t[j] = s[IF j < i THEN j ELSE j + 1]
  BY <1>2, SizeRemove
<1> HIDE DEF t
<1>5. \A j \in 1..(Len(s) - 1) : (IF j < i THEN j ELSE j + 1) \in 1..Len(s) \ {i}
  BY <1>1, <1>2
<1>6. DOMAIN t = 1..(Len(s) - 1)
  BY <1>4
<1>7. IsInjective(t)
  <2>1. SUFFICES ASSUME NEW j \in 1..(Len(s) - 1), NEW k \in 1..(Len(s) - 1), t[j] = t[k] PROVE j = k
    BY <1>6 DEF IsInjective
  <2>2. (IF j < i THEN j ELSE j + 1) = (IF k < i THEN k ELSE k + 1)
    BY <1>1, <1>4, <1>5, <2>1 DEF IsInjective
  <2> QED
    BY <1>1, <1>2, <2>2
<1>8. c \notin Range(t)
  <2>1. SUFFICES ASSUME NEW j \in 1..(Len(s) - 1), t[j] = c PROVE FALSE
    BY <1>6 DEF Range
  <2> QED
    BY <1>1, <1>2, <1>4, <1>5, <2>1 DEF IsInjective
<1> QED
  BY <1>1, <1>3, <1>4, <1>7, <1>8

\* A chunk that is not there may be added at the end.
LEMMA AppendFresh ==
  ASSUME NEW s \in Seq(Chunks), IsInjective(s), NEW c \in Chunks, c \notin Range(s)
  PROVE  /\ Append(s, c) \in Seq(Chunks) /\ IsInjective(Append(s, c))
         /\ Len(Append(s, c)) = Len(s) + 1 /\ Size(Append(s, c)) = Size(s) + Bytes[c]
<1> DEFINE t == Append(s, c)
<1>1. t \in Seq(Chunks) /\ Len(t) = Len(s) + 1 /\ t[Len(s) + 1] = c /\ Len(s) \in Nat
      /\ \A j \in 1..Len(s) : t[j] = s[j]
  BY AppendProperties
<1>2. Size(t) = Size(s) + Bytes[c]
  BY SizeAppend
<1> HIDE DEF t
<1>3. DOMAIN t = 1..(Len(s) + 1) /\ DOMAIN s = 1..Len(s)
  BY <1>1
<1>4. ASSUME NEW j \in 1..(Len(s) + 1), NEW k \in 1..(Len(s) + 1), t[j] = t[k] PROVE j = k
  <2>1. \A i \in 1..(Len(s) + 1) : i \in 1..Len(s) \/ i = Len(s) + 1
    BY <1>1
  <2>2. \A i \in 1..Len(s) : s[i] # c
    BY <1>3 DEF Range
  <2>3. CASE j \in 1..Len(s) /\ k \in 1..Len(s)
    BY <1>1, <1>3, <1>4, <2>3 DEF IsInjective
  <2>4. CASE j = Len(s) + 1 /\ k \in 1..Len(s)
    BY <1>1, <1>4, <2>2, <2>4
  <2>5. CASE k = Len(s) + 1 /\ j \in 1..Len(s)
    BY <1>1, <1>4, <2>2, <2>5
  <2> QED
    BY <2>1, <2>3, <2>4, <2>5
<1>5. IsInjective(t)
  BY <1>3, <1>4 DEF IsInjective
<1> QED
  BY <1>1, <1>2, <1>5 DEF t

\* What is left when the n oldest are gone.
LEMMA RestIs ==
  ASSUME NEW s \in Seq(Chunks), IsInjective(s), NEW n \in 0..Len(s)
  PROVE  /\ SubSeq(s, n + 1, Len(s)) \in Seq(Chunks) /\ IsInjective(SubSeq(s, n + 1, Len(s)))
         /\ Len(SubSeq(s, n + 1, Len(s))) = Len(s) - n
         /\ SubSeq(s, 1, n) \in Seq(Chunks)
         /\ Size(s) = Size(SubSeq(s, 1, n)) + Size(SubSeq(s, n + 1, Len(s)))
<1>1. Len(s) \in Nat /\ n \in Nat /\ n <= Len(s) /\ DOMAIN s = 1..Len(s)
  OBVIOUS
<1> DEFINE r == SubSeq(s, n + 1, Len(s))
           l == SubSeq(s, 1, n)
<1>2. r \in Seq(Chunks) /\ Len(r) = Len(s) - n /\ \A j \in 1..(Len(s) - n) : r[j] = s[n + j]
  BY <1>1, PartIs, Len(s) <= Len(s)
<1>3. l \in Seq(Chunks)
  <2>1. \A i \in 1..n : s[i] \in Chunks
    BY <1>1
  <2> QED
    BY <1>1, <2>1, SubSeqProperties, 1 \in Int, n \in Int
<1>4. l \o r = s
  <2>1. SubSeq(s, 1, n) \o SubSeq(s, n + 1, Len(s)) = SubSeq(s, 1, Len(s))
    BY <1>1, ConcatAdjacentSubSeq, 1 \in 1..(Len(s) + 1), n \in (1 - 1)..Len(s), Len(s) \in n..Len(s)
  <2> QED
    BY <2>1, SubSeqFull
<1>5. Size(l \o r) = Size(l) + Size(r)
  BY <1>2, <1>3, SizeConcat
<1> HIDE DEF l, r
<1>6. IsInjective(r)
  <2>1. DOMAIN r = 1..(Len(s) - n)
    BY <1>2
  <2>2. SUFFICES ASSUME NEW j \in 1..(Len(s) - n), NEW k \in 1..(Len(s) - n), r[j] = r[k] PROVE j = k
    BY <2>1 DEF IsInjective
  <2>3. n + j \in 1..Len(s) /\ n + k \in 1..Len(s) /\ s[n + j] = s[n + k]
    BY <1>1, <1>2, <2>2, SMTT(40)
  <2>4. n + j = n + k
    BY <1>1, <2>3 DEF IsInjective
  <2> QED
    BY <1>1, <2>4
<1> QED
  BY <1>2, <1>3, <1>4, <1>5, <1>6 DEF l, r

\* insert pops until the counter says the data fits, or nothing is left.
LEMMA PoppedIs ==
  ASSUME CacheTypeOK, NEW len \in Nat
  PROVE  /\ Popped(len) \in 0..Len(lru)
         /\ \/ Popped(len) = Len(lru)
            \/ current - Size(SubSeq(lru, 1, Popped(len))) + len <= MaxSize
<1> DEFINE enough(i) == i = Len(lru) \/ current - Size(SubSeq(lru, 1, i)) + len <= MaxSize
           E == {i \in 0..Len(lru) : enough(i)}
<1>1. Len(lru) \in Nat
  BY DEF CacheTypeOK
<1>2. E \in SUBSET Nat /\ Len(lru) \in E
  BY <1>1
<1>3. PICK n \in E : \A m \in E : n <= m
  BY <1>2, LeastNumber
<1>4. n \in 0..Len(lru) /\ enough(n) /\ \A i \in 0..(n - 1) : ~enough(i)
  <2>1. n \in 0..Len(lru) /\ enough(n)
    OBVIOUS
  <2>2. \A i \in 0..(n - 1) : i \in 0..Len(lru) /\ ~(n <= i)
    BY <1>1, <2>1
  <2> HIDE DEF enough
  <2> QED
    BY <1>3, <2>1, <2>2
<1>5. Popped(len) = CHOOSE i \in 0..Len(lru) : enough(i) /\ \A j \in 0..(i - 1) : ~enough(j)
  BY DEF Popped
<1> HIDE DEF enough
<1>6. Popped(len) \in 0..Len(lru) /\ enough(Popped(len))
  BY <1>4, <1>5
<1> QED
  BY <1>6 DEF enough

\* A hit moves its chunk to the front, and the cache stays in order.
LEMMA CacheGetOK ==
  ASSUME CacheOK, NEW c \in Chunks, CacheGet(c)
  PROVE  CacheOK'
<1>1. lru \in Seq(Chunks) /\ IsInjective(lru) /\ current' = current
  BY DEF CacheOK, CacheTypeOK, CacheGet
<1>2. CASE ~Cached(c)
  BY <1>1, <1>2 DEF CacheOK, CacheTypeOK, CacheWithinLimits, CacheGet
<1>3. CASE Cached(c)
  <2> DEFINE w == Without(lru, c)
  <2>1. c \in Range(lru) /\ lru' = Append(w, c)
    BY <1>3 DEF Cached, CacheGet
  <2>2. w \in Seq(Chunks) /\ IsInjective(w) /\ c \notin Range(w) /\ Len(lru) = Len(w) + 1
        /\ Size(lru) = Size(w) + Bytes[c]
    BY <1>1, <2>1, WithoutIs
  <2> HIDE DEF w
  <2>3. lru' \in Seq(Chunks) /\ IsInjective(lru') /\ Len(lru') = Len(lru) /\ Size(lru') = Size(lru)
    BY <2>1, <2>2, AppendFresh
  <2> QED
    BY <1>1, <2>3 DEF CacheOK, CacheTypeOK, CacheWithinLimits
<1> QED
  BY <1>2, <1>3

\* So it does when a chunk is thrown out.
LEMMA CacheInvalidateOK ==
  ASSUME CacheOK, NEW c \in Chunks, CacheInvalidate(c)
  PROVE  CacheOK'
<1>1. lru \in Seq(Chunks) /\ IsInjective(lru) /\ Bytes[c] \in Nat /\ current \in Nat
  BY CacheBounds DEF CacheOK, CacheTypeOK
<1>2. CASE ~Cached(c)
  BY <1>1, <1>2 DEF CacheOK, CacheTypeOK, CacheWithinLimits, CacheInvalidate, Cached, Without
<1>3. CASE Cached(c)
  <2> DEFINE w == Without(lru, c)
  <2>1. c \in Range(lru) /\ lru' = w /\ current' = current - Bytes[c]
    BY <1>3 DEF Cached, CacheInvalidate
  <2>2. w \in Seq(Chunks) /\ IsInjective(w) /\ Len(lru) = Len(w) + 1 /\ Size(lru) = Size(w) + Bytes[c]
    BY <1>1, <2>1, WithoutIs
  <2> HIDE DEF w
  <2>3. Size(w) \in Nat /\ Len(w) \in Nat /\ MaxSize \in Nat /\ MaxEntries \in Nat
    BY <2>2, SizeType, CacheBounds
  <2> QED
    BY <1>1, <2>1, <2>2, <2>3, SMTT(40) DEF CacheOK, CacheTypeOK, CacheWithinLimits
<1> QED
  BY <1>2, <1>3

\* insert: what it pops pays for what it adds; what the LruCache drops in
\* silence stays on the counter, which the next insert brings down again.
LEMMA CacheInsertOK ==
  ASSUME CacheOK, NEW c \in Chunks, CacheInsert(c)
  PROVE  CacheOK'
<1>1. lru \in Seq(Chunks) /\ IsInjective(lru) /\ Bytes[c] \in Nat /\ current \in Nat
      /\ MaxSize \in Nat /\ MaxEntries \in Nat \ {0} /\ Len(lru) \in Nat
  BY CacheBounds DEF CacheOK, CacheTypeOK
<1>2. CASE Bytes[c] > MaxSize
  BY <1>2 DEF CacheInsert, cacheVars, CacheOK, CacheTypeOK, CacheWithinLimits
<1>3. CASE ~(Bytes[c] > MaxSize)
  <2> DEFINE n    == Popped(Bytes[c])
             kept == SubSeq(lru, n + 1, Len(lru))
             cut  == SubSeq(lru, 1, n)
             left == current - Size(cut)
  <2>1. IF c \in Range(kept)
        THEN lru' = Append(Without(kept, c), c) /\ current' = left
        ELSE /\ lru' = Append(IF Len(kept) = MaxEntries THEN Tail(kept) ELSE kept, c)
             /\ current' = left + Bytes[c]
    BY <1>3 DEF CacheInsert
  <2>2. n \in 0..Len(lru) /\ (n = Len(lru) \/ left + Bytes[c] <= MaxSize)
    BY <1>1, PoppedIs DEF CacheOK
  <2> HIDE DEF n
  <2>3. kept \in Seq(Chunks) /\ IsInjective(kept) /\ Len(kept) = Len(lru) - n /\ cut \in Seq(Chunks)
        /\ Size(lru) = Size(cut) + Size(kept)
    BY <1>1, <2>2, RestIs
  <2> HIDE DEF kept, cut
  <2>4. Size(kept) \in Nat /\ Size(cut) \in Nat
    BY <2>3, SizeType
  <2>5. Size(lru) <= MaxSize /\ Len(lru) <= MaxEntries /\ Size(lru) <= current
        /\ current - Size(lru) <= MaxSize
    BY DEF CacheOK, CacheWithinLimits
  <2>6. n = Len(lru) => Size(kept) = 0 /\ Len(kept) = 0
    <3>1. n = Len(lru) => Len(kept) = 0
      BY <1>1, <2>3
    <3>2. Len(kept) = 0 => kept = <<>>
      BY <2>3
    <3> QED
      BY <3>1, <3>2, SizeEmpty
  <2>7. CASE c \in Range(kept)
    <3> DEFINE w == Without(kept, c)
    <3>1. w \in Seq(Chunks) /\ IsInjective(w) /\ c \notin Range(w) /\ Len(kept) = Len(w) + 1
          /\ Size(kept) = Size(w) + Bytes[c]
      BY <2>3, <2>7, WithoutIs
    <3>2. lru' = Append(w, c) /\ current' = left
      BY <2>1, <2>7
    <3> HIDE DEF w
    <3>3. lru' \in Seq(Chunks) /\ IsInjective(lru') /\ Len(lru') = Len(kept) /\ Size(lru') = Size(kept)
      BY <3>1, <3>2, AppendFresh
    <3>4. Len(w) \in Nat /\ Size(w) \in Nat
      BY <3>1, SizeType
    <3>5. n # Len(lru)
      BY <2>6, <3>1, <3>4
    <3>6. current' \in Nat /\ Size(lru') <= current' /\ current' - Size(lru') <= MaxSize
      BY <1>1, <2>3, <2>4, <2>5, <3>2, <3>3, SMTT(40)
    <3>7. Size(lru') <= MaxSize
      BY <1>1, <2>2, <2>4, <3>5, <3>2, <3>6, <3>3, SMTT(40)
    <3>8. Len(lru') <= MaxEntries
      BY <1>1, <2>2, <2>3, <2>5, <3>3
    <3> QED
      BY <3>3, <3>6, <3>7, <3>8 DEF CacheOK, CacheTypeOK, CacheWithinLimits
  <2>8. CASE c \notin Range(kept)
    <3> DEFINE rest == IF Len(kept) = MaxEntries THEN Tail(kept) ELSE kept
    <3>1. rest \in Seq(Chunks) /\ IsInjective(rest) /\ c \notin Range(rest) /\ Len(rest) < MaxEntries
          /\ Size(rest) \in Nat /\ Size(rest) <= Size(kept) /\ Size(kept) - Size(rest) <= MaxSize
      <4>1. CASE Len(kept) = MaxEntries
        <5>1. Len(kept) \in Nat /\ 1 \in 1..Len(kept) /\ kept # <<>> /\ 1 \in 0..Len(kept)
          BY <1>1, <2>3, <4>1
        <5>2. Tail(kept) = SubSeq(kept, 1 + 1, Len(kept))
          BY <2>3, <5>1, TailIsSubSeq
        <5>3. rest \in Seq(Chunks) /\ IsInjective(rest) /\ Len(rest) = Len(kept) - 1
              /\ SubSeq(kept, 1, 1) \in Seq(Chunks)
              /\ Size(kept) = Size(SubSeq(kept, 1, 1)) + Size(rest)
          BY <2>3, <4>1, <5>1, <5>2, RestIs
        <5>4. Size(SubSeq(kept, 1, 1)) \in Nat /\ Size(rest) \in Nat
          BY <5>3, SizeType
        <5>5. c \notin Range(rest)
          <6>1. \A j \in 1..Len(rest) : rest[j] = kept[j + 1] /\ j + 1 \in 1..Len(kept)
            BY <2>3, <4>1, <5>1, <5>3, HeadTailProperties
          <6> HIDE DEF rest
          <6>2. DOMAIN rest = 1..Len(rest) /\ DOMAIN kept = 1..Len(kept)
            BY <2>3, <5>3
          <6> QED
            BY <2>8, <6>1, <6>2 DEF Range
        <5> HIDE DEF rest
        <5>6. Size(rest) <= Size(kept) /\ Size(kept) - Size(rest) <= MaxSize
          <6>1. Size(kept) <= MaxSize
            BY <1>1, <2>3, <2>4, <2>5
          <6>2. PICK x \in Nat : Size(kept) = x + Size(rest)
            BY <5>3, <5>4
          <6> QED
            BY <1>1, <2>4, <5>4, <6>1, <6>2
        <5>7. Len(rest) < MaxEntries
          BY <1>1, <4>1, <5>3
        <5> QED
          BY <5>3, <5>4, <5>5, <5>6, <5>7
      <4>2. CASE Len(kept) # MaxEntries
        BY <1>1, <2>2, <2>3, <2>4, <2>5, <2>8, <4>2, SMTT(40)
      <4> QED
        BY <4>1, <4>2
    <3>2. lru' = Append(rest, c) /\ current' = left + Bytes[c]
      BY <2>1, <2>8
    <3> HIDE DEF rest
    <3>3. lru' \in Seq(Chunks) /\ IsInjective(lru') /\ Len(lru') = Len(rest) + 1
          /\ Size(lru') = Size(rest) + Bytes[c]
      BY <3>1, <3>2, AppendFresh
    <3>4. Len(lru') <= MaxEntries
      BY <1>1, <3>1, <3>3
    <3>5. Size(lru') <= MaxSize /\ Size(lru') <= current' /\ current' - Size(lru') <= MaxSize
      <4>1. left \in Nat /\ Size(kept) <= left /\ current' = left + Bytes[c]
        BY <1>1, <2>3, <2>4, <2>5, <3>2, SMTT(40)
      <4>2. left - Size(kept) = current - Size(lru)
        BY <1>1, <2>3, <2>4
      <4> HIDE DEF left
      <4>3. CASE n = Len(lru)
        BY <1>1, <1>3, <2>4, <2>5, <2>6, <3>1, <3>3, <4>1, <4>2, <4>3, SMTT(40)
      <4>4. CASE left + Bytes[c] <= MaxSize
        <5>1. Size(rest) + Bytes[c] <= left + Bytes[c]
          BY <1>1, <2>4, <3>1, <4>1, SMTT(40)
        <5>2. Size(lru') \in Nat /\ current' \in Nat /\ Size(lru') <= current' /\ current' <= MaxSize
          BY <1>1, <3>1, <3>3, <4>1, <4>4, <5>1, SMTT(40)
        <5> QED
          BY <1>1, <5>2
      <4> QED
        BY <2>2, <4>3, <4>4
    <3>6. current' \in Nat
      BY <1>1, <2>3, <2>4, <2>5, <3>2, SMTT(40)
    <3> QED
      BY <3>3, <3>4, <3>5, <3>6 DEF CacheOK, CacheTypeOK, CacheWithinLimits
  <2> QED
    BY <2>7, <2>8
<1> QED
  BY <1>2, <1>3

-----------------------------------------------------------------------------
(* Arithmetic *)

\* Multiples of k keep their order, k apart.
LEMMA Multiples ==
  ASSUME NEW k \in Nat \ {0}, NEW i \in Nat, NEW j \in Nat, i < j
  PROVE  i * k \in Nat /\ i * k + k <= j * k
<1>1. PICK d \in Nat : j = i + 1 + d
  <2> WITNESS j - i - 1 \in Nat
  <2> QED OBVIOUS
<1>2. j * k = i * k + k + d * k
  BY <1>1
<1>3. d * k \in Nat
  OBVIOUS
<1> QED
  BY <1>2, <1>3

\* The multiple of k that n lies at or behind.
LEMMA Quotient ==
  ASSUME NEW k \in Nat \ {0}, NEW n \in Nat, NEW i \in Nat
  PROVE  /\ n \div k \in Nat
         /\ i <= n \div k <=> i * k <= n
         /\ (n \div k) * k <= n /\ n < (n \div k) * k + k
  OBVIOUS

\* What % does to a number below the width.
LEMMA ModSame ==
  ASSUME NEW w \in Nat, NEW n \in Nat, n < w
  PROVE  n % w = n
  OBVIOUS

\* To one a little below 0, as wrapping_sub gives.
LEMMA ModNegative ==
  ASSUME NEW w \in Nat, NEW n \in Nat, 0 < n, n < w
  PROVE  (0 - n) % w = w - n
  OBVIOUS

\* And to one beyond the width, as wrapping_add gives.
LEMMA ModOver ==
  ASSUME NEW w \in Nat, NEW n \in Nat, w <= n, n < w + w
  PROVE  n % w = n - w
  OBVIOUS

-----------------------------------------------------------------------------
(* What an object holds *)

Byte == Chunks \X Nat

\* The content of the first k chunks of o.
First(o, k) == FlattenSeq([i \in 1..k |-> Content(o[i])])

\* A chunk's content has its length.
LEMMA ContentType ==
  ASSUME NEW c \in Chunks
  PROVE  Content(c) \in Seq(Byte) /\ Len(Content(c)) = Bytes[c] /\ Bytes[c] \in Nat
<1>1. Bytes[c] \in Nat
  BY CacheBounds
<1>2. \A i \in 1..Bytes[c] : <<c, i>> \in Byte
  BY <1>1 DEF Byte
<1> QED
  BY <1>1, <1>2 DEF Content

\* The next chunk's content follows that of the chunks before it.
LEMMA FirstNext ==
  ASSUME NEW o \in Seq(Chunks), NEW k \in 0..(Len(o) - 1)
  PROVE  First(o, k) \in Seq(Byte) /\ First(o, k + 1) = First(o, k) \o Content(o[k + 1])
<1> DEFINE s == [i \in 1..k |-> Content(o[i])]
           e == Content(o[k + 1])
<1>1. k \in Nat /\ k + 1 \in 1..Len(o) /\ o[k + 1] \in Chunks /\ \A i \in 1..k : o[i] \in Chunks
  OBVIOUS
<1>2. \A i \in 1..k : Content(o[i]) \in Seq(Byte)
  BY <1>1, ContentType
<1>3. s \in Seq(Seq(Byte)) /\ Len(s) = k
  BY <1>1, <1>2
<1>4. e \in Seq(Byte)
  BY <1>1, ContentType
<1>5. Append(s, e) = [i \in 1..(k + 1) |-> Content(o[i])]
  BY <1>1, <1>2, <1>3, <1>4
<1> HIDE DEF s, e
<1>6. FlattenSeq(s) \in Seq(Byte) /\ FlattenSeq(Append(s, e)) = FlattenSeq(s) \o e
  BY <1>3, <1>4, FlattenAppend
<1> QED
  BY <1>5, <1>6 DEF First, s, e

\* Where the chunks behind which a chunk lies end: chunk_size apart.
LEMMA ChunkStarts ==
  ASSUME NEW o \in Objects, NEW k \in 0..(Len(o) - 1)
  PROVE  Size(SubSeq(o, 1, k)) = k * ChunkSize
<1> DEFINE N == {n \in Nat : n < Len(o) => Size(SubSeq(o, 1, n)) = n * ChunkSize}
<1>1. o \in Seq(Chunks) /\ WellFormed(o) /\ Len(o) \in Nat /\ ChunkSize \in Nat
  BY ReadBounds
<1>2. 0 \in N
  <2>1. SubSeq(o, 1, 0) = <<>>
    BY SubSeqEmpty
  <2>2. Size(SubSeq(o, 1, 0)) = 0
    BY <2>1, SizeEmpty, Zenon
  <2>3. 0 * ChunkSize = 0
    BY <1>1
  <2> QED
    BY <2>2, <2>3
<1>3. ASSUME NEW n \in N PROVE n + 1 \in N
  <2>1. SUFFICES ASSUME n + 1 < Len(o) PROVE Size(SubSeq(o, 1, n + 1)) = (n + 1) * ChunkSize
    OBVIOUS
  <2>2. n \in Nat /\ n < Len(o) /\ n + 1 \in 1..Len(o) /\ o[n + 1] \in Chunks /\ Size(SubSeq(o, 1, n)) = n * ChunkSize
    BY <1>1, <2>1
  <2>3. Bytes[o[n + 1]] = ChunkSize
    BY <1>1, <2>1, <2>2 DEF WellFormed
  <2>4. SubSeq(o, 1, n + 1) = Append(SubSeq(o, 1, n), o[n + 1]) /\ SubSeq(o, 1, n) \in Seq(Chunks)
    <3>1. \A i \in 1..n : o[i] \in Chunks
      BY <1>1, <2>2
    <3>2. SubSeq(o, 1, n) \in Seq(Chunks)
      BY <2>2, <3>1, SubSeqProperties, 1 \in Int, n \in Int
    <3>3. SubSeq(o, 1, n + 1) = SubSeq(o, 1, (n + 1) - 1) \o <<o[n + 1]>>
      BY <1>1, <2>2, SubSeqRecursiveSecond, 1 \in 1..Len(o), n + 1 \in 1..Len(o)
    <3>4. (n + 1) - 1 = n
      BY <2>2
    <3> QED
      BY <2>2, <3>2, <3>3, <3>4, AppendIsConcat
  <2>5. Size(SubSeq(o, 1, n + 1)) = n * ChunkSize + ChunkSize
    BY <2>2, <2>3, <2>4, SizeAppend
  <2> QED
    BY <1>1, <2>2, <2>5
<1> HIDE DEF N
<1>4. N = Nat
  <2>1. N \in SUBSET Nat
    BY DEF N
  <2> QED
    BY <2>1, <1>2, <1>3, Induction
<1> QED
  BY <1>1, <1>4 DEF N

\* Each chunk's content stands where the chunk begins.
LEMMA FirstIs ==
  ASSUME NEW o \in Objects, NEW k \in 0..Len(o)
  PROVE  /\ First(o, k) \in Seq(Byte) /\ Len(First(o, k)) = Size(SubSeq(o, 1, k))
         /\ \A j \in 0..(k - 1) :
              /\ j * ChunkSize + Bytes[o[j + 1]] <= Len(First(o, k))
              /\ SubSeq(First(o, k), j * ChunkSize + 1, j * ChunkSize + Bytes[o[j + 1]]) = Content(o[j + 1])
<1> DEFINE Placed(n, j) ==
             /\ j * ChunkSize + Bytes[o[j + 1]] <= Len(First(o, n))
             /\ SubSeq(First(o, n), j * ChunkSize + 1, j * ChunkSize + Bytes[o[j + 1]]) = Content(o[j + 1])
           P(n) == /\ First(o, n) \in Seq(Byte) /\ Len(First(o, n)) = Size(SubSeq(o, 1, n))
                   /\ \A j \in 0..(n - 1) : Placed(n, j)
           N == {n \in Nat : n <= Len(o) => P(n)}
<1>1. o \in Seq(Chunks) /\ WellFormed(o) /\ Len(o) \in Nat /\ ChunkSize \in Nat \ {0}
  BY ReadBounds
<1>2. 0 \in N
  <2>1. First(o, 0) = <<>>
    BY FlattenEmpty DEF First
  <2>2. SubSeq(o, 1, 0) = <<>>
    BY SubSeqEmpty
  <2>3. Size(SubSeq(o, 1, 0)) = 0
    BY <2>2, SizeEmpty, Zenon
  <2>4. First(o, 0) \in Seq(Byte) /\ Len(First(o, 0)) = 0
    BY <2>1, EmptySeq, Zenon
  <2>a. \A j \in 0..(0 - 1) : FALSE
    OBVIOUS
  <2>5. P(0)
    BY <2>3, <2>4, <2>a
  <2> QED
    BY <2>5
<1>3. ASSUME NEW n \in N PROVE n + 1 \in N
  <2>1. SUFFICES ASSUME n + 1 <= Len(o) PROVE P(n + 1)
    OBVIOUS
  <2>2. n \in Nat /\ n \in 0..(Len(o) - 1) /\ n + 1 \in 1..Len(o) /\ o[n + 1] \in Chunks /\ n <= Len(o)
    BY <1>1, <2>1
  <2>3. P(n)
    BY <2>2
  <2> HIDE DEF N
  <2> DEFINE f == First(o, n)
             c == Content(o[n + 1])
  <2>4. f \in Seq(Byte) /\ First(o, n + 1) = f \o c
    BY <1>1, <2>2, FirstNext
  <2>5. c \in Seq(Byte) /\ Len(c) = Bytes[o[n + 1]] /\ Bytes[o[n + 1]] \in Nat \ {0}
    BY <1>1, <2>2, ContentType, SMTT(40) DEF WellFormed
  <2>6. Len(f) = n * ChunkSize
    BY <2>2, <2>3, ChunkStarts
  <2>7. Size(SubSeq(o, 1, n + 1)) = Size(SubSeq(o, 1, n)) + Bytes[o[n + 1]]
    <3>1. \A i \in 1..n : o[i] \in Chunks
      BY <1>1, <2>2
    <3>2. SubSeq(o, 1, n) \in Seq(Chunks)
      BY <2>2, <3>1, SubSeqProperties, 1 \in Int, n \in Int
    <3>3. SubSeq(o, 1, n + 1) = SubSeq(o, 1, (n + 1) - 1) \o <<o[n + 1]>>
      BY <1>1, <2>2, SubSeqRecursiveSecond, 1 \in 1..Len(o), n + 1 \in 1..Len(o)
    <3>4. (n + 1) - 1 = n
      BY <2>2
    <3>5. SubSeq(o, 1, n + 1) = Append(SubSeq(o, 1, n), o[n + 1])
      BY <2>2, <3>2, <3>3, <3>4, AppendIsConcat
    <3> QED
      BY <2>2, <3>2, <3>5, SizeAppend
  <2> HIDE DEF f, c
  <2>8. f \o c \in Seq(Byte) /\ Len(f \o c) = Len(f) + Len(c) /\ Len(f) \in Nat
    BY <2>4, <2>5, ConcatProperties
  <2>9. ASSUME NEW j \in 0..(n - 1) PROVE Placed(n + 1, j)
    <3> DEFINE l == j * ChunkSize
               b == Bytes[o[j + 1]]
    <3>1. j \in Nat /\ j < n /\ j + 1 \in 1..Len(o) /\ l \in Nat
      BY <1>1, <2>2
    <3>2. b \in Nat \ {0} /\ Content(o[j + 1]) = SubSeq(f, l + 1, l + b) /\ l + b <= Len(f)
      BY <1>1, <2>2, <2>3, <3>1, ContentType, SMTT(40) DEF WellFormed, f
    <3> HIDE DEF l, b
    <3>3. l + 1 \in 1..Len(f) /\ l + b \in 1..Len(f)
      BY <2>8, <3>1, <3>2
    <3>4. SubSeq(f \o c, l + 1, l + b) = SubSeq(f, l + 1, l + b)
      BY <2>4, <2>5, <3>3, SubSeqOfConcat1
    <3>5. l + b <= Len(f \o c)
      BY <2>5, <2>8, <3>1, <3>2
    <3> QED
      BY <2>4, <3>2, <3>4, <3>5 DEF l, b
  <2>10. Placed(n + 1, n)
    <3>1. Len(f) + 1 \in (Len(f) + 1)..(Len(f) + Len(c)) /\ Len(f) + Len(c) \in (Len(f) + 1)..(Len(f) + Len(c))
      BY <2>5, <2>8
    <3>2. SubSeq(f \o c, Len(f) + 1, Len(f) + Len(c)) = SubSeq(c, (Len(f) + 1) - Len(f), (Len(f) + Len(c)) - Len(f))
      BY <2>4, <2>5, <3>1, SubSeqOfConcat2
    <3>3. (Len(f) + 1) - Len(f) = 1 /\ (Len(f) + Len(c)) - Len(f) = Len(c)
      BY <2>5, <2>8
    <3>4. SubSeq(f \o c, Len(f) + 1, Len(f) + Len(c)) = c
      BY <2>5, <3>2, <3>3, SubSeqFull
    <3>5. Len(f) + Len(c) <= Len(f \o c)
      BY <2>5, <2>8
    <3>6. Len(c) = Bytes[o[n + 1]] /\ First(o, n + 1) = f \o c
      BY <2>4, <2>5
    <3> QED
      BY <2>6, <3>4, <3>5, <3>6, Zenon DEF c
  <2>11. First(o, n + 1) \in Seq(Byte) /\ Len(First(o, n + 1)) = Size(SubSeq(o, 1, n + 1))
    BY <2>3, <2>4, <2>5, <2>7, <2>8 DEF f
  <2>12. \A j \in 0..((n + 1) - 1) : j \in 0..(n - 1) \/ j = n
    BY <2>2
  <2> HIDE DEF Placed
  <2> QED
    BY <2>9, <2>10, <2>11, <2>12
<1> HIDE DEF N
<1>4. N = Nat
  <2>1. N \in SUBSET Nat
    BY DEF N
  <2> QED
    BY <2>1, <1>2, <1>3, Induction
<1>5. k \in Nat /\ k <= Len(o)
  BY <1>1
<1>6. P(k)
  BY <1>4, <1>5 DEF N
<1> QED
  BY <1>6

\* An object's bytes: chunk k holds those from k * chunk_size, up to the next
\* chunk or the end.
LEMMA ContentIs ==
  ASSUME NEW o \in Objects
  PROVE  /\ Total(o) \in Nat /\ ContentOf(o) \in Seq(Byte) /\ Len(ContentOf(o)) = Total(o)
         /\ \A k \in 0..(Len(o) - 1) :
              /\ k * ChunkSize < Total(o)
              /\ k * ChunkSize + Bytes[o[k + 1]] = Lesser(k * ChunkSize + ChunkSize, Total(o))
              /\ SubSeq(ContentOf(o), k * ChunkSize + 1, k * ChunkSize + Bytes[o[k + 1]]) = Content(o[k + 1])
         /\ Total(o) <= Len(o) * ChunkSize
<1>1. o \in Seq(Chunks) /\ WellFormed(o) /\ Len(o) \in Nat /\ ChunkSize \in Nat \ {0}
  BY ReadBounds
<1>2. ContentOf(o) = First(o, Len(o)) /\ SubSeq(o, 1, Len(o)) = o
  BY <1>1, SubSeqFull DEF ContentOf, First
<1>3. ContentOf(o) \in Seq(Byte) /\ Len(ContentOf(o)) = Size(o)
      /\ \A j \in 0..(Len(o) - 1) :
           /\ j * ChunkSize + Bytes[o[j + 1]] <= Len(ContentOf(o))
           /\ SubSeq(ContentOf(o), j * ChunkSize + 1, j * ChunkSize + Bytes[o[j + 1]]) = Content(o[j + 1])
  BY <1>1, <1>2, FirstIs, Len(o) \in 0..Len(o), ZenonT(60)
<1>4. Total(o) = Size(o) /\ Size(o) \in Nat
  BY <1>1, SizeType DEF Total
<1>5. \A k \in 0..(Len(o) - 1) : Bytes[o[k + 1]] \in 1..ChunkSize
                                 /\ (k # Len(o) - 1 => Bytes[o[k + 1]] = ChunkSize)
  BY <1>1 DEF WellFormed
<1>6. ASSUME Len(o) > 0
      PROVE  Size(o) = (Len(o) - 1) * ChunkSize + Bytes[o[(Len(o) - 1) + 1]]
  <2> DEFINE n == Len(o) - 1
  <2>1. n \in 0..(Len(o) - 1) /\ n + 1 = Len(o) /\ n \in Nat /\ Len(o) \in 1..Len(o) /\ o[n + 1] \in Chunks
    BY <1>1, <1>6
  <2>2. Size(SubSeq(o, 1, n)) = n * ChunkSize
    BY <2>1, ChunkStarts
  <2>3. SubSeq(o, 1, n) \in Seq(Chunks)
    <3>1. \A i \in 1..n : o[i] \in Chunks
      BY <1>1, <2>1
    <3> QED
      BY <2>1, <3>1, SubSeqProperties, 1 \in Int, n \in Int
  <2>4. o = SubSeq(o, 1, n) \o <<o[n + 1]>>
    BY <1>1, <1>2, <2>1, SubSeqRecursiveSecond, 1 \in 1..Len(o), ZenonT(60)
  <2>5. o = Append(SubSeq(o, 1, n), o[n + 1])
    BY <2>1, <2>3, <2>4, AppendIsConcat
  <2> QED
    BY <2>1, <2>2, <2>3, <2>5, SizeAppend
<1>7. ASSUME NEW k \in 0..(Len(o) - 1)
      PROVE  /\ k * ChunkSize < Total(o)
             /\ k * ChunkSize + Bytes[o[k + 1]] = Lesser(k * ChunkSize + ChunkSize, Total(o))
  <2>1. k \in Nat /\ Len(o) > 0 /\ k * ChunkSize \in Nat
    BY <1>1
  <2>2. CASE k = Len(o) - 1
    <3>1. Total(o) = k * ChunkSize + Bytes[o[k + 1]]
      BY <1>4, <1>6, <2>1, <2>2
    <3>2. Bytes[o[k + 1]] \in 1..ChunkSize
      BY <1>5
    <3> DEFINE at == k * ChunkSize
               b  == Bytes[o[k + 1]]
    <3>3. at \in Nat /\ b \in 1..ChunkSize /\ Total(o) = at + b
      BY <2>1, <3>1, <3>2
    <3> HIDE DEF at, b
    <3>4. at < Total(o) /\ at + b = Lesser(at + ChunkSize, Total(o))
      BY <1>1, <3>3 DEF Lesser
    <3> QED
      BY <3>4 DEF at, b
  <2>3. CASE k # Len(o) - 1
    <3>1. Len(o) - 1 \in Nat /\ k < Len(o) - 1 /\ Bytes[o[k + 1]] = ChunkSize
      <4>1. Bytes[o[k + 1]] = ChunkSize
        BY <1>5, <2>3
      <4> QED
        BY <1>1, <2>1, <2>3, <4>1
    <3>2. k * ChunkSize + ChunkSize <= (Len(o) - 1) * ChunkSize
      BY <1>1, <2>1, <3>1, Multiples
    <3>3. (Len(o) - 1) * ChunkSize \in Nat /\ Bytes[o[(Len(o) - 1) + 1]] \in Nat
      <4>1. Len(o) - 1 \in 0..(Len(o) - 1)
        BY <1>1, <3>1
      <4>2. Bytes[o[(Len(o) - 1) + 1]] \in 1..ChunkSize
        BY <1>5, <4>1
      <4>3. (Len(o) - 1) * ChunkSize \in Nat
        BY <1>1, <3>1
      <4> QED
        BY <1>1, <4>2, <4>3
    <3>4. k * ChunkSize + ChunkSize <= Size(o)
      BY <1>1, <1>6, <2>1, <3>2, <3>3, SMTT(40)
    <3> QED
      BY <1>1, <1>4, <2>1, <3>1, <3>4 DEF Lesser
  <2> QED
    BY <2>2, <2>3
<1>8. Total(o) <= Len(o) * ChunkSize
  <2>1. CASE Len(o) = 0
    <3>1. o = <<>>
      BY <1>1, <2>1
    <3> QED
      BY <1>1, <1>4, <2>1, <3>1, SizeEmpty
  <2>2. CASE Len(o) > 0
    <3>1. Len(o) - 1 \in Nat /\ Len(o) - 1 < Len(o) /\ Bytes[o[(Len(o) - 1) + 1]] \in 1..ChunkSize
      BY <1>1, <1>5, <2>2, SMTT(40)
    <3>2. (Len(o) - 1) * ChunkSize \in Nat /\ (Len(o) - 1) * ChunkSize + ChunkSize <= Len(o) * ChunkSize
      BY <1>1, <3>1, Multiples
    <3> QED
      BY <1>1, <1>4, <1>6, <2>2, <3>1, <3>2
  <2> QED
    BY <1>1, <2>1, <2>2
<1> QED
  BY <1>3, <1>4, <1>7, <1>8

-----------------------------------------------------------------------------
(* What a request asks for *)

\* The end a request computes never lies behind the object, and only a sum
\* that wraps brings it to the offset or before it.
LEMMA EndOfIs ==
  ASSUME NEW total \in Nat, total < Width, NEW off \in 0..(Width - 1), NEW len \in 0..(Width - 1)
  PROVE  /\ EndOf(off, len, total) \in Nat /\ EndOf(off, len, total) <= total
         /\ off < total => EndOf(off, len, total) # off
         /\ off + len <= total => EndOf(off, len, total) = IF len = 0 THEN total ELSE off + len
<1>1. Width \in Nat /\ off + len \in Nat /\ off + len < Width + Width
  BY ReadBounds
<1>2. CASE len = 0
  BY <1>2 DEF EndOf
<1>3. CASE len # 0 /\ off + len < Width
  <2>1. (off + len) % Width = off + len
    BY <1>1, <1>3, ModSame
  <2> QED
    BY <1>1, <1>3, <2>1 DEF EndOf, Lesser
<1>4. CASE len # 0 /\ Width <= off + len
  <2>1. (off + len) % Width = off + len - Width
    BY <1>1, <1>4, ModOver, SMTT(40)
  <2> QED
    BY <1>1, <1>4, <2>1 DEF EndOf, Lesser
<1> QED
  BY <1>1, <1>2, <1>3, <1>4

\* A Range header is either ignored or asks for bytes that are there.
LEMMA ParseRangeIs ==
  ASSUME NEW h \in Headers, NEW total \in Nat
  PROVE  LET q == ParseRange(h, total)
         IN /\ q.offset \in Nat /\ q.length \in Nat /\ q.partial \in BOOLEAN
            /\ q.offset + q.length <= total
            /\ ~q.partial => q.offset = 0 /\ q.length = 0
            /\ q.partial => q.length > 0
<1> DEFINE whole == [offset |-> 0, length |-> 0, partial |-> FALSE]
           part(first, last) == [offset |-> first, length |-> last - first + 1, partial |-> TRUE]
           Good(q) == /\ q.offset \in Nat /\ q.length \in Nat /\ q.partial \in BOOLEAN
                      /\ q.offset + q.length <= total
                      /\ ~q.partial => q.offset = 0 /\ q.length = 0
                      /\ q.partial => q.length > 0
<1>1. Good(whole)
  OBVIOUS
<1>2. ASSUME NEW f \in Nat, NEW l \in Nat, f <= l, l < total PROVE Good(part(f, l))
  BY <1>2
<1>3. CASE total = 0 \/ h = None
  <2>1. ParseRange(h, total) = whole
    BY <1>3 DEF ParseRange
  <2> QED
    BY <1>1, <2>1
<1>4. CASE ~(total = 0 \/ h = None) /\ h.kind = "suffix"
  <2>1. h.n \in Nat
    BY <1>4, ReadBounds DEF RangeHeaders
  <2>2. ParseRange(h, total) = IF h.n = 0 THEN whole
                               ELSE part(IF h.n > total THEN 0 ELSE total - h.n, total - 1)
    BY <1>4 DEF ParseRange
  <2>3. CASE h.n = 0
    BY <1>1, <2>2, <2>3
  <2>4. CASE h.n # 0
    <3> DEFINE f == IF h.n > total THEN 0 ELSE total - h.n
    <3>1. f \in Nat /\ total - 1 \in Nat /\ f <= total - 1 /\ total - 1 < total
      BY <1>4, <2>1, <2>4
    <3>2. ParseRange(h, total) = part(f, total - 1)
      BY <2>2, <2>4
    <3> HIDE DEF f, part, Good
    <3>3. Good(part(f, total - 1))
      BY <1>2, <3>1
    <3> QED
      BY <3>2, <3>3 DEF Good
  <2> QED
    BY <2>3, <2>4
<1>5. CASE ~(total = 0 \/ h = None) /\ h.kind # "suffix"
  <2> DEFINE l == IF h.last = None THEN total - 1 ELSE Lesser(h.last, total - 1)
  <2>1. h.first \in Nat /\ h.last \in Nat \cup {None}
    BY <1>5, ReadBounds DEF RangeHeaders
  <2>2. ParseRange(h, total) = IF h.first >= total \/ l < h.first THEN whole ELSE part(h.first, l)
    BY <1>5 DEF ParseRange
  <2>3. l \in Nat /\ l < total
    BY <1>5, <2>1 DEF Lesser
  <2> HIDE DEF l
  <2>4. CASE h.first >= total \/ l < h.first
    BY <1>1, <2>2, <2>4
  <2>5. CASE ~(h.first >= total \/ l < h.first)
    <3>1. ParseRange(h, total) = part(h.first, l)
      BY <2>2, <2>5
    <3>2. h.first <= l
      BY <2>1, <2>3, <2>5
    <3> HIDE DEF part, Good
    <3>3. Good(part(h.first, l))
      BY <1>2, <2>1, <2>3, <3>2
    <3> QED
      BY <3>1, <3>3 DEF Good
  <2> QED
    BY <2>4, <2>5
<1> QED
  BY <1>3, <1>4, <1>5

-----------------------------------------------------------------------------
(* The task's place *)

\* Which chunks the request covers.
LEMMA IndexIs ==
  ASSUME RequestOK, task # "idle", NEW i \in Nat
  PROVE  /\ StartIdx \in Nat /\ (i <= StartIdx <=> i * ChunkSize <= offset)
         /\ StartIdx * ChunkSize <= offset /\ offset < StartIdx * ChunkSize + ChunkSize
         /\ EndIdx \in Nat
         /\ end > 0 => /\ i <= EndIdx <=> i * ChunkSize <= end - 1
                       /\ EndIdx * ChunkSize <= end - 1 /\ end - 1 < EndIdx * ChunkSize + ChunkSize
         /\ end = 0 /\ route # "rest" => (i <= EndIdx <=> i * ChunkSize <= Width - 1)
<1>1. offset \in Nat /\ end \in Nat /\ Width \in Nat \ {0} /\ ChunkSize \in Nat \ {0} /\ end < Width
  <2>1. object \in Objects /\ end <= Total(object) /\ offset \in Nat /\ end \in Nat
    BY DEF RequestOK
  <2>2. Total(object) < Width /\ Total(object) \in Nat /\ Width \in Nat \ {0} /\ ChunkSize \in Nat \ {0}
    BY <2>1, ReadBounds, ContentIs
  <2> QED
    BY <2>1, <2>2
<1>2. StartIdx \in Nat /\ (i <= StartIdx <=> i * ChunkSize <= offset)
      /\ StartIdx * ChunkSize <= offset /\ offset < StartIdx * ChunkSize + ChunkSize
  BY <1>1, Quotient DEF StartIdx
<1>3. CASE end > 0
  <2>1. end - 1 \in Nat /\ end - 1 < Width
    BY <1>1, <1>3
  <2>2. (end - 1) % Width = end - 1
    BY <1>1, <2>1, ModSame
  <2>3. EndIdx = (end - 1) \div ChunkSize
    BY <1>1, <1>3, <2>2 DEF EndIdx
  <2> QED
    BY <1>1, <1>2, <1>3, <2>1, <2>3, Quotient
<1>4. CASE end = 0
  <2>1. (0 - 1) % Width = Width - 1
    <3>1. CASE Width = 1
      BY <3>1
    <3>2. CASE Width # 1
      <4>1. 1 \in Nat /\ Width \in Nat /\ 0 < 1 /\ 1 < Width
        BY <1>1, <3>2
      <4> QED
        BY <4>1, ModNegative
    <3> QED
      BY <3>1, <3>2
  <2>2. EndIdx = IF route = "rest" THEN 0 ELSE (Width - 1) \div ChunkSize
    BY <1>4, <2>1 DEF EndIdx
  <2>3. Width - 1 \in Nat
    BY <1>1
  <2> QED
    BY <1>1, <1>2, <1>4, <2>2, <2>3, Quotient
<1> QED
  BY <1>1, <1>3, <1>4

\* A range that ends in the object ends in one of its chunks.
LEMMA EndInside ==
  ASSUME RequestOK, task # "idle", end > 0
  PROVE  Len(object) \in Nat /\ EndIdx <= Len(object) - 1
<1> DEFINE n == Len(object)
           T == Total(object)
<1>1. object \in Objects /\ end \in Nat /\ end <= T
  BY DEF RequestOK
<1>2. n \in Nat /\ ChunkSize \in Nat \ {0} /\ T \in Nat /\ T <= n * ChunkSize
  BY <1>1, ContentIs, ReadBounds
<1>3. EndIdx \in Nat /\ EndIdx * ChunkSize <= end - 1
  BY IndexIs, 0 \in Nat
<1> HIDE DEF n, T
<1>4. EndIdx * ChunkSize \in Nat /\ n * ChunkSize \in Nat
  BY <1>2, <1>3
<1>5. ASSUME n < EndIdx PROVE FALSE
  BY <1>1, <1>2, <1>3, <1>4, <1>5, Multiples
<1>6. ASSUME n = EndIdx PROVE FALSE
  BY <1>1, <1>2, <1>3, <1>4, <1>6
<1> QED
  BY <1>2, <1>3, <1>5, <1>6 DEF n

\* Where the chunk in hand ends, or the range if it ends before.
NextPlace == Lesser(idx * ChunkSize + ChunkSize, Limit)

\* A chunk the task is at holds bytes of the object.
LEMMA ChunkIs ==
  ASSUME RequestOK, TaskOK, task \in {"read", "insert", "send", "fail"} \/ (task = "lookup" /\ ~ahead /\ idx <= LastIdx)
                            \/ (task = "lookup" /\ ahead /\ idx < AheadEnd)
  PROVE  /\ object \in Objects /\ idx \in 0..(Len(object) - 1) /\ Chunk \in Range(object) /\ Chunk \in Chunks
         /\ idx <= EndIdx /\ StartIdx <= idx /\ idx * ChunkSize \in Nat
         /\ idx * ChunkSize < Total(object)
         /\ idx * ChunkSize + Bytes[Chunk] = Lesser(idx * ChunkSize + ChunkSize, Total(object))
         /\ Content(Chunk) = SubSeq(ContentOf(object), idx * ChunkSize + 1, idx * ChunkSize + Bytes[Chunk])
<1>1. object \in Objects /\ idx \in Nat /\ task \notin {"idle", "over"} /\ StartIdx <= idx
  BY DEF RequestOK, TaskOK
<1>2. object \in Seq(Chunks) /\ Len(object) \in Nat /\ ChunkSize \in Nat
  BY <1>1, ReadBounds
<1>3. EndIdx \in Nat /\ StartIdx \in Nat
  BY <1>1, IndexIs, 0 \in Nat
<1>4. idx <= EndIdx /\ idx <= Len(object) - 1
  <2>1. idx < (IF ahead THEN AheadEnd ELSE LastIdx + 1)
    <3>1. LastIdx \in Int
      BY <1>2, <1>3 DEF LastIdx, Lesser
    <3> QED
      BY <1>1, <3>1 DEF TaskOK
  <2>2. CASE ahead
    BY <1>1, <1>2, <1>3, <2>1, <2>2, ReadBounds DEF AheadEnd, Lesser
  <2>3. CASE ~ahead
    BY <1>1, <1>2, <1>3, <2>1, <2>3 DEF LastIdx, Lesser
  <2> QED
    BY <2>2, <2>3
<1>5. idx \in 0..(Len(object) - 1) /\ idx + 1 \in 1..Len(object) /\ Chunk = object[idx + 1]
  BY <1>1, <1>2, <1>4 DEF Chunk
<1>6. Chunk \in Range(object) /\ Chunk \in Chunks
  BY <1>2, <1>5 DEF Range
<1>7. idx * ChunkSize \in Nat
  BY <1>1, <1>2
<1> QED
  BY <1>1, <1>4, <1>5, <1>6, <1>7, ContentIs

\* What Send sends stands where the task is, and takes it to the next chunk or
\* the end; unless offset + length wraps, it has something to send.
LEMMA SliceIs ==
  ASSUME RequestOK, TaskOK, task = "send"
  PROVE  /\ ~Wrapped => SliceStart <= SliceEnd
         /\ SliceStart <= SliceEnd =>
              /\ position \in Nat /\ NextPlace \in Nat /\ Limit \in Nat
              /\ position < NextPlace /\ NextPlace <= Limit /\ Limit <= Total(object)
              /\ SliceStart \in Nat /\ SliceEnd \in Nat /\ SliceEnd <= Bytes[Chunk]
              /\ idx * ChunkSize + SliceStart = position /\ idx * ChunkSize + SliceEnd = NextPlace
              /\ route = "grpc" => (IsLast <=> NextPlace = Limit)
<1> DEFINE l == idx * ChunkSize
           b == Bytes[Chunk]
           T == Total(object)
           sl == StartIdx * ChunkSize
           el == EndIdx * ChunkSize
<1>1. object \in Objects /\ idx \in 0..(Len(object) - 1) /\ Chunk \in Chunks /\ idx <= EndIdx /\ StartIdx <= idx
      /\ l \in Nat /\ l < T /\ l + b = Lesser(l + ChunkSize, T)
  BY ChunkIs
<1>2. T \in Nat /\ T < Width /\ T <= Len(object) * ChunkSize /\ Width \in Nat \ {0} /\ ChunkSize \in Nat \ {0}
      /\ Len(object) \in Nat /\ idx \in Nat
  BY <1>1, ContentIs, ReadBounds
<1>3. data = Content(Chunk) /\ Len(data) = b /\ b \in Nat
  BY <1>1, ContentType DEF TaskOK
<1>4. offset \in Nat /\ end \in Nat /\ end <= T /\ ~ahead /\ position \in Nat
      /\ position = (IF idx = StartIdx THEN offset ELSE Lesser(l, Limit))
      /\ (route = "whole" => offset = 0 /\ end = T)
      /\ (offset < end \/ (end < offset /\ offset < T /\ route \in {"grpc", "stream"}))
  BY <1>1, <1>2 DEF RequestOK, TaskOK, Wrapped
<1>5. StartIdx \in Nat /\ EndIdx \in Nat /\ sl <= offset /\ offset < sl + ChunkSize /\ sl \in Nat /\ el \in Nat
  <2>1. StartIdx \in Nat /\ EndIdx \in Nat /\ sl <= offset /\ offset < sl + ChunkSize
    BY IndexIs, 0 \in Nat
  <2> QED
    BY <1>2, <2>1
<1>6. end > 0 => el <= end - 1 /\ end - 1 < el + ChunkSize
  BY IndexIs, 0 \in Nat
<1>7. idx # StartIdx => sl + ChunkSize <= l
  BY <1>1, <1>2, <1>5, Multiples
<1>8. idx # EndIdx => l + ChunkSize <= el
  BY <1>1, <1>2, <1>5, Multiples
<1>9. idx # Len(object) - 1 => l + ChunkSize < T
  <2>1. SUFFICES ASSUME idx # Len(object) - 1 PROVE l + ChunkSize < T
    OBVIOUS
  <2>2. idx + 1 \in 0..(Len(object) - 1)
    BY <1>1, <1>2, <2>1
  <2>3. (idx + 1) * ChunkSize < T
    BY <1>1, <2>2, ContentIs
  <2> QED
    BY <1>1, <1>2, <2>3
<1>10. idx = Len(object) - 1 => T <= l + ChunkSize
  BY <1>1, <1>2
<1>11. SliceStart = (IF idx = StartIdx THEN offset - l ELSE 0)
  <2>1. CASE route = "whole"
    <3>1. StartIdx = 0
      BY <1>1, <1>2, <1>4, <1>5, <2>1
    <3>2. idx = StartIdx => l = 0
      BY <1>2, <3>1
    <3> QED
      BY <1>4, <2>1, <3>2 DEF SliceStart
  <2>2. CASE route # "whole"
    BY <2>2 DEF SliceStart
  <2> QED
    BY <2>1, <2>2
<1>12. SliceEnd = Lesser(IF idx = EndIdx /\ route # "whole" THEN (end - l) % Width ELSE b, b)
  BY <1>3 DEF SliceEnd
<1>13. idx = StartIdx => l = sl
  OBVIOUS
<1>14. idx = EndIdx => l = el
  OBVIOUS
<1>15. route # "grpc" \/ (IsLast <=> idx = Lesser(EndIdx, Len(object) - 1))
  BY DEF IsLast, LastIdx
<1>16. Wrapped <=> end < offset
  BY DEF Wrapped
<1>17. Limit = (IF Wrapped THEN T ELSE end) /\ NextPlace = Lesser(l + ChunkSize, Limit)
  BY DEF Limit, NextPlace
<1> HIDE DEF l, b, T, sl, el
<1>18. CASE offset < end
  <2>1. Limit = end /\ l < end /\ ~Wrapped
    BY <1>1, <1>2, <1>4, <1>5, <1>6, <1>8, <1>14, <1>16, <1>17, <1>18
  <2>2. l + SliceStart = position /\ SliceStart \in Nat /\ position < end /\ position < l + ChunkSize
    BY <1>1, <1>2, <1>4, <1>5, <1>7, <1>11, <1>13, <1>18, <2>1 DEF Lesser
  <2>3. l + SliceEnd = NextPlace /\ SliceEnd \in Nat /\ SliceEnd <= b
    <3>1. CASE idx = EndIdx /\ route # "whole"
      <4>1. (end - l) % Width = end - l
        BY <1>1, <1>2, <1>4, <2>1, ModSame, end - l \in Nat, end - l < Width
      <4> QED
        BY <1>1, <1>2, <1>3, <1>4, <1>5, <1>6, <1>12, <1>14, <1>17, <2>1, <3>1, <4>1 DEF Lesser
    <3>2. CASE route = "whole"
      BY <1>1, <1>2, <1>3, <1>4, <1>12, <1>17, <2>1, <3>2 DEF Lesser
    <3>3. CASE idx # EndIdx
      BY <1>1, <1>2, <1>3, <1>4, <1>5, <1>6, <1>8, <1>12, <1>17, <1>18, <2>1, <3>3 DEF Lesser
    <3> QED
      BY <3>1, <3>2, <3>3
  <2>4. NextPlace \in Nat /\ position < NextPlace /\ NextPlace <= Limit
    BY <1>1, <1>2, <1>4, <1>17, <2>1, <2>2 DEF Lesser
  <2>5. SliceStart <= SliceEnd
    BY <1>1, <1>4, <2>2, <2>3, <2>4
  <2>6. route = "grpc" => (IsLast <=> NextPlace = Limit)
    <3>1. EndIdx <= Len(object) - 1
      BY <1>4, <1>18, EndInside
    <3>2. Lesser(EndIdx, Len(object) - 1) = EndIdx
      BY <1>2, <1>5, <3>1 DEF Lesser
    <3>3. idx = EndIdx => NextPlace = Limit
      BY <1>1, <1>2, <1>4, <1>5, <1>6, <1>14, <1>17, <1>18, <2>1 DEF Lesser
    <3>4. idx # EndIdx => NextPlace # Limit
      BY <1>1, <1>2, <1>4, <1>5, <1>6, <1>8, <1>17, <1>18, <2>1 DEF Lesser
    <3> QED
      BY <1>15, <3>2, <3>3, <3>4
  <2> QED
    BY <1>4, <2>1, <2>2, <2>3, <2>4, <2>5, <2>6 DEF l, b, T
<1>19. CASE end < offset /\ offset < T /\ route \in {"grpc", "stream"}
  <2>1. Limit = T /\ Wrapped /\ route # "whole" /\ route # "rest"
    BY <1>16, <1>17, <1>19
  <2>2. CASE end > 0
    <3>1. idx = StartIdx /\ idx = EndIdx
      BY <1>1, <1>2, <1>4, <1>5, <1>6, <1>7, <1>8, <1>13, <1>14, <1>19, <2>2
    <3>2. (end - l) % Width = end - l
      BY <1>1, <1>2, <1>4, <1>5, <1>6, <1>14, <2>2, <3>1, ModSame, end - l \in Nat, end - l < Width
    <3>3. SliceEnd < SliceStart
      BY <1>1, <1>2, <1>3, <1>4, <1>5, <1>6, <1>11, <1>12, <1>14, <1>19, <2>1, <2>2, <3>1, <3>2 DEF Lesser
    <3>4. SliceStart \in Int /\ SliceEnd \in Int
      BY <1>1, <1>2, <1>3, <1>4, <1>11, <1>12, <3>1, <3>2 DEF Lesser
    <3> QED
      BY <2>1, <3>3, <3>4
  <2>3. CASE end = 0
    <3>1. l + SliceStart = position /\ SliceStart \in Nat /\ position < T /\ position < l + ChunkSize
      BY <1>1, <1>2, <1>4, <1>5, <1>7, <1>11, <1>13, <1>19, <2>1 DEF Lesser
    <3>2. \/ SliceEnd = b
          \/ idx = EndIdx /\ l = 0 /\ SliceEnd = 0
      <4>1. CASE idx # EndIdx
        BY <1>3, <1>12, <4>1 DEF Lesser
      <4>2. CASE idx = EndIdx /\ l = 0
        <5>1. (end - l) % Width = 0
          <6>1. end - l = 0
            BY <2>3, <4>2
          <6> QED
            BY <1>2, <6>1, ModSame, 0 \in Nat, 0 < Width
        <5>2. SliceEnd = Lesser(0, b)
          BY <1>12, <2>1, <4>2, <5>1
        <5> QED
          BY <1>3, <4>2, <5>2 DEF Lesser
      <4>3. CASE idx = EndIdx /\ l > 0
        <5>1. (end - l) % Width = Width - l
          <6>1. end - l = 0 - l
            BY <2>3
          <6> QED
            BY <1>1, <1>2, <4>3, <6>1, ModNegative
        <5>2. b < Width - l
          BY <1>1, <1>2, <1>3 DEF Lesser
        <5> QED
          BY <1>1, <1>2, <1>3, <1>12, <2>1, <4>3, <5>1, <5>2 DEF Lesser
      <4> QED
        BY <1>1, <4>1, <4>2, <4>3
    <3>3. CASE idx = EndIdx /\ l = 0 /\ SliceEnd = 0
      <4>1. idx = StartIdx
        BY <1>1, <1>2, <1>5, <1>7, <3>3
      <4>2. SliceStart = offset
        BY <1>4, <1>11, <3>3, <4>1
      <4> QED
        BY <1>4, <1>19, <2>1, <2>3, <3>3, <4>2
    <3>4. CASE SliceEnd = b
      <4>1. l + SliceEnd = NextPlace
        BY <1>1, <1>17, <2>1, <3>4
      <4>2. NextPlace \in Nat /\ position < NextPlace /\ NextPlace <= Limit
        BY <1>1, <1>2, <1>4, <1>17, <2>1, <3>1 DEF Lesser
      <4>3. route = "grpc" => (IsLast <=> NextPlace = Limit)
        <5>1. Len(object) - 1 \in Nat /\ Len(object) - 1 \in 0..(Len(object) - 1)
          BY <1>1, <1>2
        <5>2. (Len(object) - 1) * ChunkSize < T /\ (Len(object) - 1) * ChunkSize \in Nat
          <6>1. (Len(object) - 1) * ChunkSize < Total(object)
            BY <1>1, <5>1, ContentIs
          <6>2. (Len(object) - 1) * ChunkSize \in Nat
            BY <1>2, <5>1
          <6> QED
            BY <6>1, <6>2 DEF T
        <5>3. Len(object) - 1 <= EndIdx
          BY <1>2, <2>1, <2>3, <5>1, <5>2, IndexIs
        <5>4. Lesser(EndIdx, Len(object) - 1) = Len(object) - 1
          BY <1>2, <1>5, <5>3 DEF Lesser
        <5>5. idx = Len(object) - 1 => NextPlace = Limit
          BY <1>1, <1>2, <1>10, <1>17, <2>1 DEF Lesser
        <5>6. idx # Len(object) - 1 => NextPlace # Limit
          BY <1>1, <1>2, <1>9, <1>17, <2>1 DEF Lesser
        <5> QED
          BY <1>15, <5>4, <5>5, <5>6
      <4> QED
        BY <1>2, <1>3, <1>4, <2>1, <3>1, <3>4, <4>1, <4>2, <4>3 DEF l, b, T
    <3> QED
      BY <3>2, <3>3, <3>4
  <2> QED
    BY <1>4, <2>2, <2>3
<1> QED
  BY <1>4, <1>18, <1>19

\* The message Send makes.
Slice == [bytes |-> SubSeq(data, SliceStart + 1, SliceEnd), offset |-> position, last |-> IsLast]

\* What the task sends is the piece of the object at its place, and the next
\* piece begins behind it.
LEMMA SliceIsPiece ==
  ASSUME RequestOK, TaskOK, task = "send", SliceStart <= SliceEnd
  PROVE  Piece(Slice) /\ Past(Slice) = NextPlace
<1> DEFINE l == idx * ChunkSize
           b == Bytes[Chunk]
           C == ContentOf(object)
<1>1. object \in Objects /\ Chunk \in Chunks /\ l \in Nat /\ l + b = Lesser(l + ChunkSize, Total(object))
      /\ data = SubSeq(C, l + 1, l + b)
  BY ChunkIs DEF TaskOK
<1>2. b \in Nat /\ C \in Seq(Byte) /\ Len(C) = Total(object) /\ Total(object) \in Nat /\ ChunkSize \in Nat
  BY <1>1, ContentIs, ContentType, ReadBounds
<1>3. position \in Nat /\ NextPlace \in Nat /\ Limit \in Nat
      /\ position < NextPlace /\ NextPlace <= Limit /\ Limit <= Total(object)
      /\ SliceStart \in Nat /\ SliceEnd \in Nat /\ SliceEnd <= b
      /\ l + SliceStart = position /\ l + SliceEnd = NextPlace
      /\ (route = "grpc" => (IsLast <=> NextPlace = Limit))
  BY SliceIs
<1>4. l + b <= Len(C)
  BY <1>1, <1>2 DEF Lesser
<1> HIDE DEF l, b, C
<1>5. SubSeq(data, SliceStart + 1, SliceEnd) = SubSeq(C, position + 1, NextPlace)
  <2>1. SubSeq(SubSeq(C, l + 1, l + b), SliceStart + 1, SliceEnd) = SubSeq(C, (l + SliceStart) + 1, l + SliceEnd)
    <3>1. l + b \in Nat /\ l <= l + b /\ (l + b) - l = b
      BY <1>1, <1>2
    <3> QED
      BY <1>1, <1>2, <1>3, <1>4, <3>1, PartOfPart
  <2> QED
    BY <1>1, <1>3, <2>1
<1>6. SubSeq(C, position + 1, NextPlace) \in Seq(Byte) /\ Len(SubSeq(C, position + 1, NextPlace)) = NextPlace - position
  BY <1>2, <1>3, PartIs
<1> DEFINE p == SubSeq(C, position + 1, NextPlace)
<1>7. Slice = [bytes |-> p, offset |-> position, last |-> IsLast]
  BY <1>5 DEF Slice
<1>a. p \in Seq(Byte) /\ Len(p) = NextPlace - position
  BY <1>6
<1> HIDE DEF p
<1>8. p \in Seq(Byte) /\ Len(p) = NextPlace - position /\ p # <<>>
  BY <1>3, <1>a
<1>9. Slice.bytes = p /\ Slice.offset = position /\ Slice.last = IsLast
  BY <1>7
<1>10. Past(Slice) = NextPlace
  BY <1>3, <1>8, <1>9 DEF Past
<1>11. Slice \in Message
  <2>1. IsLast \in BOOLEAN
    BY DEF IsLast
  <2> QED
    BY <1>3, <1>7, <1>8, <2>1 DEF Message, Byte
<1>12. Slice.bytes = SubSeq(ContentOf(object), Slice.offset + 1, Past(Slice))
  BY <1>9, <1>10 DEF p, C
<1> QED
  BY <1>3, <1>8, <1>9, <1>10, <1>11, <1>12 DEF Piece

-----------------------------------------------------------------------------
(* The steps of other requests *)

\* What the request, its task and its client hold is theirs alone.
LEMMA Undisturbed ==
  ASSUME RequestOK, TaskOK, ChannelOK, HeldOK, ClientOK,
         UNCHANGED <<requestVars, taskVars, clientVars>>, changed' \in BOOLEAN, changed => changed'
  PROVE  RequestOK' /\ TaskOK' /\ ChannelOK' /\ HeldOK' /\ ClientOK'
<1>1. route' = route /\ object' = object /\ offset' = offset /\ end' = end /\ declared' = declared
      /\ task' = task /\ ahead' = ahead /\ idx' = idx /\ data' = data /\ position' = position
      /\ chan' = chan /\ got' = got /\ client' = client
  BY DEF requestVars, taskVars, clientVars
<1>2. Wrapped' = Wrapped /\ Limit' = Limit /\ GotTo' = GotTo /\ StartIdx' = StartIdx /\ EndIdx' = EndIdx
      /\ Delivered' = Delivered /\ Chunk' = Chunk
  BY <1>1 DEF Wrapped, Limit, GotTo, StartIdx, EndIdx, Delivered, Chunk, Past
<1>3. LastIdx' = LastIdx /\ AheadEnd' = AheadEnd
  BY <1>1, <1>2 DEF LastIdx, AheadEnd
<1>4. \A m : Piece(m)' <=> Piece(m)
  BY <1>1, <1>2 DEF Piece, Past
<1>5. RequestOK'
  BY <1>1, <1>2 DEF RequestOK
<1>6. TaskOK'
  BY <1>1, <1>2, <1>3 DEF TaskOK
<1>7. ChannelOK'
  BY <1>1, <1>2, <1>4 DEF ChannelOK, Past
<1>8. HeldOK'
  BY <1>1, <1>2 DEF HeldOK
<1>9. ClientOK'
  BY <1>1, <1>2 DEF ClientOK
<1> QED
  BY <1>5, <1>6, <1>7, <1>8, <1>9

\* No step of another request disturbs a download, but for its cause to fail.
LEMMA OthersOK ==
  ASSUME ReadIInv, Others
  PROVE  ReadIInv'
<1> USE DEF ReadIInv
<1>0. changed \in BOOLEAN /\ MaxWrites \in Nat /\ MaxFaults \in Nat /\ writes \in Nat /\ faults \in Nat
      /\ Objects \subseteq Seq(Chunks)
  BY ReadBounds DEF RequestOK, StoreOK
<1>1. task # "over" /\ (task = "idle" \/ task \notin {"idle", "over"})
  BY DEF Others
<1>2. ASSUME UNCHANGED cacheVars PROVE CacheOK'
  BY <1>2 DEF cacheVars, CacheOK, CacheTypeOK, CacheWithinLimits
<1>3. ASSUME NEW o \in Objects, Store(o) PROVE ReadIInv'
  <2>1. StoreOK'
    BY <1>0, <1>3 DEF Store, StoreOK
  <2>2. CacheOK'
    BY <1>2, <1>3 DEF Store
  <2>3. Untouched'
    BY <1>3 DEF Store, Untouched
  <2>4. RequestOK' /\ TaskOK' /\ ChannelOK' /\ HeldOK' /\ ClientOK'
    BY <1>3, Undisturbed DEF Store
  <2> QED
    BY <2>1, <2>2, <2>3, <2>4
<1>4. ASSUME BeginDelete PROVE ReadIInv'
  <2>1. StoreOK'
    BY <1>0, <1>4 DEF BeginDelete, StoreOK
  <2>2. CacheOK'
    BY <1>2, <1>4 DEF BeginDelete
  <2>3. Untouched'
    BY <1>4 DEF BeginDelete, Untouched, requestVars, taskVars
  <2>4. RequestOK' /\ TaskOK' /\ ChannelOK' /\ HeldOK' /\ ClientOK'
    BY <1>0, <1>4, Undisturbed DEF BeginDelete
  <2> QED
    BY <2>1, <2>2, <2>3, <2>4
<1>5. ASSUME InvalidateNext PROVE ReadIInv'
  <2>1. deleting \in Seq(Chunks) /\ deleting # <<>>
    BY <1>5 DEF InvalidateNext, StoreOK
  <2>2. StoreOK'
    BY <2>1, <1>5, HeadTailProperties DEF InvalidateNext, StoreOK
  <2>3. CacheOK'
    BY <2>1, <1>5, HeadTailProperties, CacheInvalidateOK DEF InvalidateNext
  <2>4. Untouched'
    BY <1>5 DEF InvalidateNext, Untouched, requestVars, taskVars
  <2>5. RequestOK' /\ TaskOK' /\ ChannelOK' /\ HeldOK' /\ ClientOK'
    BY <1>0, <1>5, Undisturbed DEF InvalidateNext
  <2> QED
    BY <2>2, <2>3, <2>4, <2>5
<1>6. ASSUME CommitDelete PROVE ReadIInv'
  <2>1. StoreOK'
    BY <1>0, <1>6 DEF CommitDelete, StoreOK
  <2>2. CacheOK'
    BY <1>2, <1>6 DEF CommitDelete
  <2>3. Untouched'
    BY <1>6 DEF CommitDelete, Untouched
  <2>4. RequestOK' /\ TaskOK' /\ ChannelOK' /\ HeldOK' /\ ClientOK'
    BY <1>6, Undisturbed DEF CommitDelete
  <2> QED
    BY <2>1, <2>2, <2>3, <2>4
<1>7. ASSUME NEW c \in Chunks, Reclaim(c) PROVE ReadIInv'
  <2>1. StoreOK'
    BY <1>7 DEF Reclaim, StoreOK
  <2>2. CacheOK'
    BY <1>2, <1>7 DEF Reclaim
  <2>3. Untouched'
    <3>1. SUFFICES ASSUME task \notin {"idle", "over"}, ~changed
                   PROVE  manifest' = object /\ manifest' # None /\ \A d \in Range(object) : files'[d] = "whole"
      BY <1>7 DEF Reclaim, Untouched, requestVars, taskVars
    <3>2. manifest = object /\ manifest # None /\ \A d \in Range(object) : files[d] = "whole"
      BY <3>1 DEF Untouched
    <3>3. c \notin Range(object)
      BY <1>7, <3>2 DEF Reclaim, Referenced
    <3>4. \A d : d # c => files'[d] = files[d]
      BY <1>7 DEF Reclaim, StoreOK
    <3> QED
      BY <1>7, <3>2, <3>3, <3>4 DEF Reclaim
  <2>4. RequestOK' /\ TaskOK' /\ ChannelOK' /\ HeldOK' /\ ClientOK'
    BY <1>0, <1>7, Undisturbed DEF Reclaim
  <2> QED
    BY <2>1, <2>2, <2>3, <2>4
<1>8. ASSUME NEW c \in Chunks, Rot(c) PROVE ReadIInv'
  <2>1. StoreOK'
    BY <1>0, <1>8 DEF Rot, StoreOK
  <2>2. CacheOK'
    BY <1>2, <1>8 DEF Rot
  <2>3. Untouched'
    BY <1>8 DEF Rot, Untouched
  <2>4. RequestOK' /\ TaskOK' /\ ChannelOK' /\ HeldOK' /\ ClientOK'
    BY <1>8, Undisturbed DEF Rot
  <2> QED
    BY <2>1, <2>2, <2>3, <2>4
<1>9. ASSUME NEW c \in Popular, OtherDownload(c) PROVE ReadIInv'
  <2>1. c \in Chunks
    BY ReadBounds
  <2>2. StoreOK'
    BY <1>9 DEF OtherDownload, storeVars, StoreOK
  <2>3. CacheOK'
    BY <1>9, <2>1, CacheGetOK, CacheInsertOK DEF OtherDownload
  <2>4. Untouched'
    BY <1>9 DEF OtherDownload, storeVars, Untouched, requestVars, taskVars
  <2>5. RequestOK' /\ TaskOK' /\ ChannelOK' /\ HeldOK' /\ ClientOK'
    BY <1>0, <1>9, Undisturbed DEF OtherDownload
  <2> QED
    BY <2>2, <2>3, <2>4, <2>5
<1> QED
  BY <1>3, <1>4, <1>5, <1>6, <1>7, <1>8, <1>9 DEF Others

-----------------------------------------------------------------------------
(* The request *)

\* However it asks, a client begins with nothing, at the offset, with the
\* object the key has then.
LEMMA AskOK ==
  ASSUME ReadIInv, NEW r \in Routes, NEW off \in 0..(Width - 1), NEW len \in 0..(Width - 1),
         Ask(r, off, len), task' \in {"lookup", "over"}, client' \in {"reading", "failed"}
  PROVE  /\ StoreOK' /\ CacheOK' /\ Untouched' /\ ChannelOK' /\ HeldOK'
         /\ route' = r /\ object' = manifest /\ manifest \in Objects /\ object' \in Objects
         /\ offset' = off /\ position' = off /\ GotTo' = off /\ got' = <<>> /\ chan' = <<>>
         /\ end' = EndOf(off, len, Total(manifest)) /\ end' \in Nat /\ end' <= Total(manifest)
         /\ Total(manifest) \in Nat /\ Total(manifest) < Width
         /\ offset' \in Nat /\ changed' \in BOOLEAN
         /\ (off < Total(manifest) => end' # off)
         /\ (off + len <= Total(manifest) => end' = IF len = 0 THEN Total(manifest) ELSE off + len)
         /\ idx' = StartIdx' /\ idx' \in Nat /\ data' \in Seq(Chunks \X Nat)
<1> USE DEF ReadIInv
<1>1. manifest # None /\ manifest \in Objects /\ task = "idle" /\ client = "idle"
  BY DEF Ask, StoreOK
<1>2. route' = r /\ object' = manifest /\ offset' = off /\ position' = off
      /\ end' = EndOf(off, len, Total(manifest)) /\ idx' = off \div ChunkSize
      /\ data' = data /\ chan' = chan /\ got' = got
      /\ changed' = \E c \in Range(manifest) : ~Readable(c)
  BY DEF Ask
<1>3. chan = <<>> /\ got = <<>>
  BY <1>1 DEF ChannelOK, HeldOK
<1>4. Total(manifest) \in Nat /\ Total(manifest) < Width /\ Width \in Nat \ {0} /\ ChunkSize \in Nat \ {0} /\ off \in Nat
  BY <1>1, ContentIs, ReadBounds
<1>5. end' \in Nat /\ end' <= Total(manifest)
      /\ (off < Total(manifest) => end' # off)
      /\ (off + len <= Total(manifest) => end' = IF len = 0 THEN Total(manifest) ELSE off + len)
  <2> DEFINE e == EndOf(off, len, Total(manifest))
  <2>1. e \in Nat /\ e <= Total(manifest)
        /\ (off < Total(manifest) => e # off)
        /\ (off + len <= Total(manifest) => e = IF len = 0 THEN Total(manifest) ELSE off + len)
    BY <1>4, EndOfIs
  <2>2. end' = e
    BY <1>2
  <2> HIDE DEF e
  <2> QED
    BY <2>1, <2>2
<1>6. idx' = StartIdx' /\ idx' \in Nat
  BY <1>2, <1>4, Quotient DEF StartIdx
<1>7. StoreOK' /\ CacheOK'
  BY DEF Ask, storeVars, cacheVars, StoreOK, CacheOK, CacheTypeOK, CacheWithinLimits
<1>8. Untouched'
  <2>1. SUFFICES ASSUME ~changed' PROVE manifest' = object' /\ manifest' # None
                                        /\ \A c \in Range(object') : files'[c] = "whole"
    BY DEF Untouched
  <2>2. manifest' = manifest /\ files' = files
    BY DEF Ask, storeVars
  <2> QED
    BY <1>1, <1>2, <2>1, <2>2 DEF Readable
<1>9. GotTo' = off
  BY <1>2, <1>3 DEF GotTo
<1>10. ChannelOK'
  BY <1>2, <1>3, <1>9 DEF ChannelOK
<1>11. HeldOK'
  <2>1. got' = <<>> /\ got' \in Seq(Message)
    BY <1>2, <1>3
  <2>2. Delivered' = <<>>
    BY <2>1, FlattenEmpty DEF Delivered
  <2>3. SubSeq(ContentOf(object'), off + 1, off) = <<>>
    BY <1>4, SubSeqEmpty, off + 1 \in Int, off \in Int, off < off + 1
  <2> QED
    BY <1>2, <1>9, <2>1, <2>2, <2>3 DEF HeldOK
<1>12. changed' \in BOOLEAN
  BY <1>2
<1> QED
  BY <1>1, <1>2, <1>3, <1>4, <1>5, <1>6, <1>7, <1>8, <1>9, <1>10, <1>11, <1>12 DEF TaskOK

\* The task begins at the first chunk, at the offset.
LEMMA TaskBegins ==
  ASSUME task' \in {"lookup", "over"}, idx' = StartIdx', idx' \in Nat, position' = offset', offset' \in Nat,
         data' \in Seq(Chunks \X Nat), ahead' \in BOOLEAN,
         ahead' => route' = "rest" /\ got' = <<>> /\ chan' = <<>>
  PROVE  TaskOK'
<1>1. position' = IF idx' = StartIdx' THEN offset' ELSE Lesser(idx' * ChunkSize, Limit')
  OBVIOUS
<1>2. idx' >= StartIdx'
  OBVIOUS
<1>3. task' # "lookup" => task' = "over"
  OBVIOUS
<1> QED
  BY <1>1, <1>2, <1>3 DEF TaskOK

\* A gRPC or read_range request keeps the invariant.
LEMMA AskRangeOK ==
  ASSUME ReadIInv, NEW r \in {"grpc", "stream", "range"}, NEW off \in 0..(Width - 1), NEW len \in 0..(Width - 1),
         AskRange(r, off, len)
  PROVE  ReadIInv'
<1> DEFINE T == Total(manifest)
           e == EndOf(off, len, T)
<1>1. Ask(r, off, len) /\ ahead' = FALSE /\ declared' = None
      /\ client' = (IF Panics(r, off, e, manifest) THEN "failed" ELSE "reading")
      /\ task' = (IF off >= T \/ Panics(r, off, e, manifest) THEN "over" ELSE "lookup")
  BY DEF AskRange
<1>2. r \in Routes /\ task' \in {"lookup", "over"} /\ client' \in {"reading", "failed"}
  BY <1>1 DEF Routes
<1>3. /\ StoreOK' /\ CacheOK' /\ Untouched' /\ ChannelOK' /\ HeldOK'
      /\ route' = r /\ object' = manifest /\ object' \in Objects
      /\ offset' = off /\ position' = off /\ got' = <<>> /\ chan' = <<>>
      /\ end' = e /\ end' \in Nat /\ end' <= T /\ T \in Nat /\ offset' \in Nat /\ changed' \in BOOLEAN
      /\ (off < T => end' # off)
      /\ idx' = StartIdx' /\ idx' \in Nat /\ data' \in Seq(Chunks \X Nat)
  BY <1>1, <1>2, AskOK
<1> HIDE DEF e
<1>4. Panics(r, off, e, manifest) => end' < offset'
  BY <1>3 DEF Panics
<1>5. off < T /\ r = "range" /\ ~Panics(r, off, e, manifest) => ~(end' < offset')
  BY <1>3 DEF Panics
<1>6. RequestOK'
  BY <1>1, <1>2, <1>3, <1>5 DEF RequestOK, Wrapped
<1>7. TaskOK'
  BY <1>1, <1>2, <1>3, TaskBegins
<1>8. ClientOK'
  <2>1. task' = "over" /\ client' = "reading" /\ ~Wrapped' => position' = Limit'
    BY <1>1, <1>3 DEF Wrapped, Limit
  <2> QED
    BY <1>1, <1>2, <1>4, <2>1 DEF ClientOK, Wrapped
<1> QED
  BY <1>3, <1>6, <1>7, <1>8 DEF ReadIInv

\* So does a request with a Range header, or without one.
LEMMA AskHeaderOK ==
  ASSUME ReadIInv, NEW h \in Headers, AskHeader(h)
  PROVE  ReadIInv'
<1> DEFINE T == Total(manifest)
           q == ParseRange(h, T)
<1>1. manifest # None /\ Ask("rest", q.offset, q.length) /\ task' = "lookup" /\ ahead' = TRUE /\ client' = "reading"
      /\ declared' = IF q.partial THEN EndOf(q.offset, q.length, T) - q.offset ELSE T
  BY DEF AskHeader
<1>2. manifest \in Objects /\ T \in Nat /\ T < Width /\ Width \in Nat
  BY <1>1, ContentIs, ReadBounds DEF ReadIInv, StoreOK
<1> HIDE DEF T
<1>3. /\ q.offset \in Nat /\ q.length \in Nat /\ q.partial \in BOOLEAN
      /\ q.offset + q.length <= T
      /\ ~q.partial => q.offset = 0 /\ q.length = 0
      /\ q.partial => q.length > 0
  BY <1>2, ParseRangeIs
<1> HIDE DEF q
<1>4. q.offset \in 0..(Width - 1) /\ q.length \in 0..(Width - 1) /\ "rest" \in Routes
  BY <1>2, <1>3 DEF Routes
<1>5. /\ StoreOK' /\ CacheOK' /\ Untouched' /\ ChannelOK' /\ HeldOK'
      /\ route' = "rest" /\ object' = manifest /\ object' \in Objects
      /\ offset' = q.offset /\ position' = q.offset /\ got' = <<>> /\ chan' = <<>>
      /\ end' = EndOf(q.offset, q.length, T) /\ end' \in Nat /\ end' <= T /\ offset' \in Nat /\ changed' \in BOOLEAN
      /\ (q.offset + q.length <= T => end' = IF q.length = 0 THEN T ELSE q.offset + q.length)
      /\ idx' = StartIdx' /\ idx' \in Nat /\ data' \in Seq(Chunks \X Nat)
  BY <1>1, <1>4, AskOK DEF T
<1>6. end' = (IF q.length = 0 THEN T ELSE q.offset + q.length) /\ declared' = end' - offset' /\ ~(end' < offset')
      /\ (T = 0 \/ offset' < end') /\ Total(object') = T
  BY <1>1, <1>2, <1>3, <1>5, SMTT(40) DEF T
<1>7. RequestOK'
  BY <1>1, <1>2, <1>3, <1>4, <1>5, <1>6, SMTT(40) DEF RequestOK, Wrapped
<1>8. TaskOK'
  BY <1>1, <1>5, TaskBegins
<1>9. ClientOK'
  BY <1>1 DEF ClientOK
<1> QED
  BY <1>5, <1>7, <1>8, <1>9 DEF ReadIInv

\* So does one that reads the object whole.
LEMMA AskWholeOK ==
  ASSUME ReadIInv, AskWhole
  PROVE  ReadIInv'
<1> DEFINE T == Total(manifest)
<1>1. Ask("whole", 0, 0) /\ task' = "lookup" /\ ahead' = FALSE /\ declared' = None /\ client' = "reading"
  BY DEF AskWhole
<1>2. "whole" \in Routes /\ 0 \in 0..(Width - 1)
  BY ReadBounds DEF Routes
<1>3. /\ StoreOK' /\ CacheOK' /\ Untouched' /\ ChannelOK' /\ HeldOK'
      /\ route' = "whole" /\ object' = manifest /\ object' \in Objects
      /\ offset' = 0 /\ position' = 0 /\ got' = <<>> /\ chan' = <<>>
      /\ end' \in Nat /\ end' <= T /\ offset' \in Nat /\ changed' \in BOOLEAN /\ T \in Nat
      /\ (0 + 0 <= T => end' = T)
      /\ idx' = StartIdx' /\ idx' \in Nat /\ data' \in Seq(Chunks \X Nat)
  BY <1>1, <1>2, AskOK
<1>4. end' = T /\ Total(object') = T
  BY <1>3
<1>5. RequestOK'
  BY <1>1, <1>2, <1>3, <1>4 DEF RequestOK, Wrapped
<1>6. TaskOK'
  BY <1>1, <1>3, TaskBegins
<1>7. ClientOK'
  BY <1>1 DEF ClientOK
<1> QED
  BY <1>3, <1>5, <1>6, <1>7 DEF ReadIInv

-----------------------------------------------------------------------------
(* The task *)

\* When there is no chunk left, all that was asked for has been sent.
LEMMA EndReached ==
  ASSUME RequestOK, TaskOK, task = "lookup", ~ahead, idx > LastIdx, ~Wrapped
  PROVE  position = Limit
<1>1. object \in Objects /\ offset \in Nat /\ end \in Nat /\ idx \in Nat /\ StartIdx <= idx /\ Limit = end
      /\ position = (IF idx = StartIdx THEN offset ELSE Lesser(idx * ChunkSize, end))
  BY DEF RequestOK, TaskOK, Limit
<1>2. ChunkSize \in Nat \ {0} /\ StartIdx \in Nat /\ EndIdx \in Nat
  BY ReadBounds, IndexIs, 0 \in Nat
<1>3. CASE offset < end
  <2>1. Len(object) \in Nat /\ EndIdx <= Len(object) - 1
    BY <1>1, <1>3, EndInside
  <2>2. LastIdx = EndIdx
    BY <1>2, <2>1 DEF LastIdx, Lesser
  <2>3. end - 1 < EndIdx * ChunkSize + ChunkSize /\ StartIdx <= EndIdx
    <3>1. StartIdx * ChunkSize <= offset /\ StartIdx * ChunkSize \in Nat
      BY <1>2, IndexIs
    <3> QED
      BY <1>1, <1>2, <1>3, <3>1, IndexIs
  <2>4. EndIdx * ChunkSize + ChunkSize <= idx * ChunkSize /\ EndIdx * ChunkSize \in Nat /\ idx * ChunkSize \in Nat
    BY <1>1, <1>2, <2>2, Multiples
  <2> QED
    BY <1>1, <1>2, <2>2, <2>3, <2>4 DEF Lesser
<1>4. CASE offset = 0 /\ end = 0
  <2>1. idx * ChunkSize \in Nat
    BY <1>1, <1>2
  <2> QED
    BY <1>1, <1>4, <2>1 DEF Lesser
<1> QED
  BY <1>3, <1>4 DEF RequestOK

\* A step of the task that sends nothing changes only the task and the cache.
LEMMA TaskStep ==
  ASSUME ReadIInv, task \notin {"idle", "over"}, task' \in {"lookup", "read", "insert", "send", "fail", "over"},
         UNCHANGED <<storeVars, requestVars, changed, clientVars, position>>
  PROVE  /\ StoreOK' /\ RequestOK' /\ Untouched' /\ ChannelOK' /\ HeldOK' /\ (task' # "over" => ClientOK')
         /\ StartIdx' = StartIdx /\ EndIdx' = EndIdx /\ LastIdx' = LastIdx /\ AheadEnd' = AheadEnd
         /\ Limit' = Limit /\ Wrapped' = Wrapped /\ offset' = offset /\ route' = route
         /\ got' = got /\ chan' = chan /\ client' = client /\ changed' = changed /\ object' = object
         /\ Limit' = Limit
<1> USE DEF ReadIInv
<1>1. route' = route /\ object' = object /\ offset' = offset /\ end' = end /\ declared' = declared
      /\ position' = position /\ chan' = chan /\ got' = got /\ client' = client /\ changed' = changed
  BY DEF requestVars, clientVars
<1>2. Wrapped' = Wrapped /\ Limit' = Limit /\ GotTo' = GotTo /\ StartIdx' = StartIdx /\ EndIdx' = EndIdx
      /\ Delivered' = Delivered
  BY <1>1 DEF Wrapped, Limit, GotTo, StartIdx, EndIdx, Delivered, Past
<1>3. LastIdx' = LastIdx /\ AheadEnd' = AheadEnd
  BY <1>1, <1>2 DEF LastIdx, AheadEnd
<1>4. \A m : Piece(m)' <=> Piece(m)
  BY <1>1, <1>2 DEF Piece, Past
<1>5. StoreOK'
  BY DEF storeVars, StoreOK
<1>6. RequestOK'
  BY <1>1, <1>2 DEF RequestOK
<1>7. Untouched'
  BY <1>1 DEF storeVars, Untouched
<1>8. ChannelOK'
  BY <1>1, <1>2, <1>4 DEF ChannelOK, Past
<1>9. HeldOK'
  BY <1>1, <1>2 DEF HeldOK
<1>10. task' # "over" => ClientOK'
  <2>1. client' \in {"reading", "gone", "done", "failed"} /\ task' # "idle"
    BY <1>1 DEF ClientOK
  <2>2. client' = "done" /\ ~Wrapped' => GotTo' = Limit'
    BY <1>1, <1>2 DEF ClientOK
  <2>3. client' = "failed" /\ ~Wrapped' => changed'
    BY <1>1, <1>2 DEF ClientOK
  <2> QED
    BY <2>1, <2>2, <2>3 DEF ClientOK
<1> QED
  BY <1>1, <1>2, <1>3, <1>5, <1>6, <1>7, <1>8, <1>9, <1>10

\* The cache is asked for the chunk, or the file is read.
LEMMA LookupOK ==
  ASSUME ReadIInv, Lookup
  PROVE  ReadIInv'
<1> USE DEF ReadIInv
<1>1. task = "lookup" /\ UNCHANGED <<storeVars, requestVars, changed, clientVars>>
  BY DEF Lookup
<1>2. task' \in {"lookup", "read", "send", "over"} /\ position' = position
  BY <1>1 DEF Lookup, Over
<1>3. /\ StoreOK' /\ RequestOK' /\ Untouched' /\ ChannelOK' /\ HeldOK' /\ (task' # "over" => ClientOK')
      /\ StartIdx' = StartIdx /\ EndIdx' = EndIdx /\ LastIdx' = LastIdx /\ AheadEnd' = AheadEnd
      /\ Limit' = Limit /\ Wrapped' = Wrapped /\ offset' = offset /\ route' = route
      /\ got' = got /\ chan' = chan /\ client' = client /\ changed' = changed /\ object' = object
  BY <1>1, <1>2, TaskStep
<1>4. idx \in Nat /\ position \in Nat /\ data \in Seq(Chunks \X Nat) /\ StartIdx <= idx /\ StartIdx \in Nat
  BY <1>1, IndexIs, 0 \in Nat DEF TaskOK
<1>5. ASSUME UNCHANGED cacheVars PROVE CacheOK'
  BY <1>5 DEF cacheVars, CacheOK, CacheTypeOK, CacheWithinLimits
<1>6. CASE ahead /\ idx >= AheadEnd /\ ahead' = FALSE /\ idx' = StartIdx /\ UNCHANGED <<cacheVars, task, data, position>>
  <2>1. position = offset /\ offset \in Nat
    BY <1>1, <1>4, <1>6 DEF TaskOK
  <2>2. TaskOK'
    BY <1>1, <1>3, <1>4, <1>6, <2>1, TaskBegins
  <2> QED
    BY <1>1, <1>3, <1>5, <1>6, <2>2
<1>7. CASE /\ ahead /\ idx < AheadEnd
           /\ CacheGet(Chunk)
           /\ IF Cached(Chunk) THEN idx' = idx + 1 /\ UNCHANGED task
                               ELSE task' = "read" /\ UNCHANGED idx
           /\ UNCHANGED <<ahead, data, position>>
  <2>1. Chunk \in Chunks
    BY <1>1, <1>7, ChunkIs
  <2>2. CacheOK'
    BY <1>7, <2>1, CacheGetOK
  <2>3. TaskOK'
    BY <1>1, <1>3, <1>4, <1>7 DEF TaskOK
  <2> QED
    BY <1>1, <1>2, <1>3, <1>7, <2>2, <2>3
<1>8. CASE ~ahead /\ (idx > LastIdx \/ (route = "rest" /\ client # "reading")) /\ Over /\ UNCHANGED cacheVars
  <2>1. TaskOK'
    BY <1>4, <1>8 DEF TaskOK, Over
  <2>2. client = "reading" /\ ~Wrapped => position = Limit
    BY <1>1, <1>8, EndReached
  <2>3. ClientOK'
    <3>1. GotTo' = GotTo
      BY <1>3 DEF GotTo, Past
    <3> QED
      BY <1>1, <1>2, <1>3, <1>8, <2>2, <3>1 DEF ClientOK, Over
  <2> QED
    BY <1>3, <1>5, <1>8, <2>1, <2>3
<1>9. CASE /\ ~ahead /\ idx <= LastIdx /\ (route # "rest" \/ client = "reading")
           /\ UNCHANGED <<ahead, idx, position>>
           /\ IF UsesCache THEN CacheGet(Chunk) ELSE UNCHANGED cacheVars
           /\ IF UsesCache /\ Cached(Chunk) THEN task' = "send" /\ data' = Content(Chunk)
                                            ELSE task' = "read" /\ UNCHANGED data
  <2>1. Chunk \in Chunks /\ Chunk' = Chunk
    BY <1>1, <1>3, <1>9, ChunkIs DEF Chunk
  <2>2. CacheOK'
    BY <1>5, <1>9, <2>1, CacheGetOK
  <2>3. LastIdx \in Int
    <3>1. object \in Objects /\ EndIdx \in Nat
      BY <1>1, IndexIs, 0 \in Nat DEF RequestOK
    <3>2. Len(object) \in Nat
      BY <3>1, ReadBounds
    <3> QED
      BY <3>1, <3>2 DEF LastIdx, Lesser
  <2>4. data' \in Seq(Chunks \X Nat)
    BY <1>4, <1>9, <2>1, ContentType DEF Byte
  <2>5. idx' < LastIdx' + 1
    BY <1>3, <1>4, <1>9, <2>3
  <2>6. position' = IF idx' = StartIdx' THEN offset' ELSE Lesser(idx' * ChunkSize, Limit')
    BY <1>1, <1>3, <1>9 DEF TaskOK
  <2>7. TaskOK'
    BY <1>3, <1>4, <1>9, <2>1, <2>4, <2>5, <2>6 DEF TaskOK
  <2> QED
    BY <1>3, <1>9, <2>2, <2>7
<1> QED
  BY <1>6, <1>7, <1>8, <1>9 DEF Lookup

\* read_chunk fails only if something happened to the object.
LEMMA ReadOK ==
  ASSUME ReadIInv, Read
  PROVE  ReadIInv'
<1> USE DEF ReadIInv
<1>1. task = "read" /\ UNCHANGED <<storeVars, requestVars, changed, clientVars, position>> /\ UNCHANGED cacheVars
      /\ task' \in {"insert", "send", "lookup", "fail"}
  BY DEF Read
<1>2. /\ StoreOK' /\ RequestOK' /\ Untouched' /\ ChannelOK' /\ HeldOK' /\ ClientOK'
      /\ StartIdx' = StartIdx /\ EndIdx' = EndIdx /\ LastIdx' = LastIdx /\ AheadEnd' = AheadEnd
      /\ Limit' = Limit /\ Wrapped' = Wrapped /\ offset' = offset /\ route' = route
      /\ got' = got /\ chan' = chan /\ client' = client /\ changed' = changed /\ object' = object
  BY <1>1, TaskStep
<1>3. CacheOK'
  BY <1>1 DEF cacheVars, CacheOK, CacheTypeOK, CacheWithinLimits
<1>4. Chunk \in Chunks /\ Chunk \in Range(object)
  BY <1>1, ChunkIs
<1>5. idx \in Nat /\ position \in Nat /\ data \in Seq(Chunks \X Nat) /\ StartIdx <= idx /\ StartIdx \in Nat
      /\ position' = position
  BY <1>1, IndexIs, 0 \in Nat DEF TaskOK
<1>6. CASE /\ Readable(Chunk) /\ data' = Decoded(Chunk)
           /\ task' = IF UsesCache THEN "insert" ELSE "send"
           /\ UNCHANGED <<idx, ahead>>
  <2>1. data' = Content(Chunk) /\ Chunk' = Chunk
    BY <1>2, <1>6 DEF Readable, Decoded, Chunk
  <2>2. data' \in Seq(Chunks \X Nat)
    BY <1>4, <2>1, ContentType DEF Byte
  <2>3. task' = "send" => ~ahead
    BY <1>1, <1>6 DEF UsesCache, TaskOK
  <2>4. TaskOK'
    BY <1>1, <1>2, <1>5, <1>6, <2>1, <2>2, <2>3 DEF TaskOK
  <2> QED
    BY <1>2, <1>3, <2>4
<1>7. CASE ~Readable(Chunk) /\ ahead /\ idx' = idx + 1 /\ task' = "lookup" /\ UNCHANGED <<ahead, data>>
  <2>1. TaskOK'
    BY <1>1, <1>2, <1>5, <1>7 DEF TaskOK
  <2> QED
    BY <1>2, <1>3, <2>1
<1>8. CASE ~Readable(Chunk) /\ ~ahead /\ task' = "fail" /\ UNCHANGED <<idx, ahead, data>>
  <2>1. changed
    BY <1>1, <1>4, <1>8 DEF Untouched, Readable
  <2>2. TaskOK'
    BY <1>1, <1>2, <1>5, <1>8, <2>1 DEF TaskOK
  <2> QED
    BY <1>2, <1>3, <2>2
<1> QED
  BY <1>6, <1>7, <1>8 DEF Read

\* A chunk that was read goes into the cache.
LEMMA InsertOK ==
  ASSUME ReadIInv, Insert
  PROVE  ReadIInv'
<1> USE DEF ReadIInv
<1>1. task = "insert" /\ UNCHANGED <<storeVars, requestVars, changed, clientVars, position>>
      /\ task' \in {"send", "lookup"} /\ ahead' = ahead
  BY DEF Insert
<1>2. /\ StoreOK' /\ RequestOK' /\ Untouched' /\ ChannelOK' /\ HeldOK' /\ ClientOK'
      /\ StartIdx' = StartIdx /\ EndIdx' = EndIdx /\ LastIdx' = LastIdx /\ AheadEnd' = AheadEnd
      /\ Limit' = Limit /\ Wrapped' = Wrapped /\ offset' = offset /\ route' = route
      /\ got' = got /\ chan' = chan /\ client' = client /\ changed' = changed /\ object' = object
  BY <1>1, TaskStep
<1>3. CacheOK'
  <2>1. Chunk \in Chunks
    BY <1>1, ChunkIs
  <2> QED
    BY <2>1, CacheInsertOK DEF Insert
<1>4. idx \in Nat /\ position \in Nat /\ data \in Seq(Chunks \X Nat) /\ StartIdx <= idx /\ StartIdx \in Nat
      /\ position' = position
  BY <1>1, IndexIs, 0 \in Nat DEF TaskOK
<1>5. TaskOK'
  <2>1. CASE ahead
    <3>1. task' = "lookup" /\ idx' = idx + 1 /\ data' = <<>>
      BY <2>1 DEF Insert
    <3> QED
      BY <1>1, <1>2, <1>4, <2>1, <3>1 DEF TaskOK
  <2>2. CASE ~ahead
    <3>1. task' = "send" /\ idx' = idx /\ data' = data
      BY <2>2 DEF Insert
    <3>2. Chunk' = Chunk
      BY <1>2, <3>1 DEF Chunk
    <3> QED
      BY <1>1, <1>2, <1>4, <2>2, <3>1, <3>2 DEF TaskOK
  <2> QED
    BY <2>1, <2>2
<1> QED
  BY <1>2, <1>3, <1>5

\* The bounds of a slice are numbers.
LEMMA SliceType ==
  ASSUME RequestOK, TaskOK, task = "send"
  PROVE  SliceStart \in Int /\ SliceEnd \in Int
<1>1. object \in Objects /\ offset \in Nat /\ end \in Nat /\ idx * ChunkSize \in Nat /\ Len(data) \in Nat
      /\ Width \in Nat \ {0}
  BY ChunkIs, ReadBounds DEF RequestOK, TaskOK
<1>2. (end - idx * ChunkSize) % Width \in Int
  BY <1>1
<1> QED
  BY <1>1, <1>2 DEF SliceStart, SliceEnd, Lesser

\* An error is not a message, and messages are not errors.
LEMMA Apart == \A m \in Message : m # Error
<1>1. ASSUME NEW b, NEW o, NEW l PROVE [bytes |-> b, offset |-> o, last |-> l] # Error
  BY DEF Error
<1>2. \A m \in Message : m = [bytes |-> m.bytes, offset |-> m.offset, last |-> m.last]
  BY DEF Message
<1> QED
  BY <1>1, <1>2

\* As long as the task runs there is no error in the channel.
LEMMA NoError ==
  ASSUME ChannelOK, NEW i \in 1..Len(chan), task # "over"
  PROVE  Piece(chan[i]) /\ chan[i].offset = (IF i = 1 THEN GotTo ELSE Past(chan[i - 1])) /\ chan[i] # Error
BY Apart DEF ChannelOK, Piece

\* The slice goes to the channel, or nothing of the chunk is wanted.
LEMMA SendOK ==
  ASSUME ReadIInv, Send
  PROVE  ReadIInv'
<1> USE DEF ReadIInv
<1>1. task = "send" /\ UNCHANGED <<storeVars, cacheVars, requestVars, changed, got, client>> /\ ~ahead
  BY DEF Send, TaskOK
<1>2. route' = route /\ object' = object /\ offset' = offset /\ end' = end /\ declared' = declared
      /\ got' = got /\ client' = client /\ changed' = changed
  BY <1>1 DEF requestVars
<1>3. Wrapped' = Wrapped /\ Limit' = Limit /\ GotTo' = GotTo /\ StartIdx' = StartIdx /\ EndIdx' = EndIdx
      /\ Delivered' = Delivered
  BY <1>2 DEF Wrapped, Limit, GotTo, StartIdx, EndIdx, Delivered, Past
<1>4. \A m : Piece(m)' <=> Piece(m)
  BY <1>2, <1>3 DEF Piece, Past
<1>5. StoreOK' /\ CacheOK'
  BY <1>1 DEF storeVars, cacheVars, StoreOK, CacheOK, CacheTypeOK, CacheWithinLimits
<1>6. idx \in Nat /\ position \in Nat /\ data \in Seq(Chunks \X Nat) /\ StartIdx <= idx /\ StartIdx \in Nat
      /\ ChunkSize \in Nat
  BY <1>1, ReadBounds, IndexIs, 0 \in Nat DEF TaskOK
<1>7. task' \in {"over", "lookup"} /\ ahead' = ahead
  BY DEF Send, Over
<1>8. RequestOK' /\ Untouched'
  BY <1>1, <1>2, <1>3, <1>7 DEF RequestOK, Untouched, storeVars
<1>9. HeldOK'
  BY <1>1, <1>2, <1>3, <1>7 DEF HeldOK
<1>10. ASSUME Over, UNCHANGED chan, client # "reading" \/ Wrapped PROVE ReadIInv'
  <2>1. task' = "over" /\ data' = <<>> /\ idx' = idx /\ position' = position
    BY <1>10 DEF Over
  <2>2. TaskOK'
    BY <1>1, <1>6, <1>7, <2>1 DEF TaskOK
  <2>3. ChannelOK'
    BY <1>1, <1>2, <1>3, <1>4, <1>10, <2>1 DEF ChannelOK, Past
  <2>4. ClientOK'
    BY <1>1, <1>2, <1>3, <1>10, <2>1 DEF ClientOK
  <2> QED
    BY <1>5, <1>8, <1>9, <2>2, <2>3, <2>4
<1>11. CASE HasChannel /\ client # "reading" /\ Over /\ UNCHANGED chan
  BY <1>10, <1>11
<1>12. CASE client = "reading" /\ SliceStart > SliceEnd /\ Over /\ UNCHANGED chan
  <2>1. Wrapped
    BY <1>1, <1>12, SliceIs, SliceType
  <2> QED
    BY <1>10, <1>12, <2>1
<1>13. CASE /\ client = "reading" /\ SliceStart <= SliceEnd
            /\ chan' = Append(chan, Slice) /\ position' = position + Len(Slice.bytes)
            /\ idx' = idx + 1 /\ task' = "lookup" /\ data' = <<>>
  <2>1. Piece(Slice) /\ Past(Slice) = NextPlace
    BY <1>1, <1>13, SliceIsPiece
  <2>2. Slice.offset = position
    BY DEF Slice
  <2>3. position' = NextPlace /\ NextPlace \in Nat
    BY <1>1, <1>13, <2>1, <2>2, SliceIs DEF Past
  <2>4. TaskOK'
    <3>1. idx' # StartIdx' /\ idx' \in Nat /\ idx' >= StartIdx'
      BY <1>3, <1>6, <1>13
    <3>2. idx' * ChunkSize = idx * ChunkSize + ChunkSize
      BY <1>6, <1>13
    <3>3. position' = Lesser(idx' * ChunkSize, Limit')
      BY <1>3, <2>3, <3>2 DEF NextPlace
    <3> QED
      BY <1>1, <1>7, <1>13, <2>3, <3>1, <3>3 DEF TaskOK
  <2>5. ChannelOK'
    <3> DEFINE n == Len(chan)
    <3>1. chan \in Seq(Message \cup {Error}) /\ n \in Nat /\ Slice \in Message \cup {Error}
      BY <2>1 DEF ChannelOK, Piece
    <3>2. chan' \in Seq(Message \cup {Error}) /\ Len(chan') = n + 1 /\ chan'[n + 1] = Slice
          /\ \A i \in 1..n : chan'[i] = chan[i]
      BY <1>13, <3>1, AppendProperties
    <3>3. Slice.offset = IF n + 1 = 1 THEN GotTo ELSE Past(chan[n])
      <4>1. position = IF chan = <<>> THEN GotTo ELSE Past(chan[n])
        <5>1. chan # <<>> => n \in 1..n
          BY <3>1
        <5> QED
          BY <1>1, <1>13, <5>1, NoError DEF ChannelOK
      <4>2. chan = <<>> <=> n + 1 = 1
        BY <3>1
      <4> QED
        BY <2>2, <4>1, <4>2
    <3>4. ASSUME NEW i \in 1..(n + 1)
          PROVE  Piece(chan[i])' /\ chan'[i].offset = IF i = 1 THEN GotTo' ELSE Past(chan'[i - 1])
      <4>1. CASE i \in 1..n
        <5>1. Piece(chan[i]) /\ chan[i].offset = (IF i = 1 THEN GotTo ELSE Past(chan[i - 1]))
          BY <1>1, <4>1, NoError
        <5>2. chan'[i] = chan[i] /\ (i # 1 => chan'[i - 1] = chan[i - 1])
          BY <3>1, <3>2, <4>1
        <5>3. Piece(chan[i])'
          BY <1>2, <1>3, <5>1, <5>2 DEF Piece, Past
        <5> QED
          BY <1>3, <5>1, <5>2, <5>3
      <4>2. CASE i = n + 1
        <5>1. n + 1 # 1 => chan'[n] = chan[n]
          BY <3>1, <3>2
        <5>2. (n + 1) - 1 = n
          BY <3>1
        <5>3. chan'[i] = Slice
          BY <3>2, <4>2
        <5>4. Piece(chan[i])'
          BY <1>2, <1>3, <2>1, <5>3 DEF Piece, Past
        <5> QED
          BY <1>3, <3>3, <4>2, <5>1, <5>2, <5>3, <5>4
      <4> QED
        BY <3>1, <4>1, <4>2
    <3>5. position' = Past(chan'[Len(chan')]) /\ chan' # <<>>
      BY <2>1, <2>3, <3>1, <3>2
    <3> HIDE DEF n
    <3>6. \A i \in 1..Len(chan') : Piece(chan[i])' /\ chan'[i].offset = IF i = 1 THEN GotTo' ELSE Past(chan[i - 1])'
      BY <3>2, <3>4 DEF Past
    <3> QED
      BY <1>13, <3>2, <3>5, <3>6 DEF ChannelOK, Past
  <2>6. ClientOK'
    BY <1>1, <1>2, <1>13 DEF ClientOK
  <2> QED
    BY <1>5, <1>8, <1>9, <2>4, <2>5, <2>6
<1> QED
  <2>1. Slice.bytes = SubSeq(data, SliceStart + 1, SliceEnd)
    BY DEF Slice
  <2> QED
    BY <1>11, <1>12, <1>13, <2>1 DEF Send, Slice

\* The error is the last thing sent, and something happened to the object.
LEMMA FailOK ==
  ASSUME ReadIInv, Fail
  PROVE  ReadIInv'
<1> USE DEF ReadIInv
<1>1. task = "fail" /\ UNCHANGED <<storeVars, cacheVars, requestVars, changed, got, client>> /\ ~ahead /\ changed
      /\ task' = "over" /\ data' = <<>> /\ idx' = idx /\ position' = position /\ ahead' = ahead
  BY DEF Fail, Over, TaskOK
<1>2. route' = route /\ object' = object /\ offset' = offset /\ end' = end /\ declared' = declared
      /\ got' = got /\ client' = client /\ changed' = changed
  BY <1>1 DEF requestVars
<1>3. Wrapped' = Wrapped /\ Limit' = Limit /\ GotTo' = GotTo /\ Delivered' = Delivered
  BY <1>2 DEF Wrapped, Limit, GotTo, Delivered, Past
<1>4. StoreOK' /\ CacheOK' /\ RequestOK' /\ Untouched' /\ HeldOK'
  <2>1. StoreOK' /\ CacheOK'
    BY <1>1 DEF storeVars, cacheVars, StoreOK, CacheOK, CacheTypeOK, CacheWithinLimits
  <2>2. RequestOK' /\ Untouched'
    BY <1>1, <1>2, <1>3 DEF RequestOK, Untouched, storeVars
  <2>3. HeldOK'
    BY <1>1, <1>2, <1>3 DEF HeldOK
  <2> QED
    BY <2>1, <2>2, <2>3
<1>5. TaskOK'
  BY <1>1 DEF TaskOK
<1>6. chan \in Seq(Message \cup {Error}) /\ Error \in Message \cup {Error} /\ Len(chan) \in Nat
  BY DEF ChannelOK
<1>7. CASE client # "reading" /\ UNCHANGED chan
  <2>1. \A m : Piece(m)' <=> Piece(m)
    BY <1>2, <1>3 DEF Piece, Past
  <2>2. ChannelOK'
    BY <1>1, <1>2, <1>3, <1>7, <2>1 DEF ChannelOK, Past
  <2>3. ClientOK'
    BY <1>1, <1>2, <1>3, <1>7 DEF ClientOK
  <2> QED
    BY <1>4, <1>5, <2>2, <2>3
<1>8. ASSUME client = "reading", chan' \in Seq(Message \cup {Error}), chan' # <<>>, chan'[Len(chan')] = Error,
             \A i \in 1..Len(chan') : \/ chan'[i] = Error /\ i = Len(chan')
                                      \/ chan'[i] = chan[i] /\ i \in 1..Len(chan)
                                         /\ (i # 1 => chan'[i - 1] = chan[i - 1])
      PROVE  ReadIInv'
  <2>1. ASSUME NEW i \in 1..Len(chan'), chan'[i] = chan[i], i \in 1..Len(chan), i # 1 => chan'[i - 1] = chan[i - 1]
        PROVE  Piece(chan[i])' /\ chan'[i].offset = IF i = 1 THEN GotTo' ELSE Past(chan[i - 1])'
    <3>1. Piece(chan[i]) /\ chan[i].offset = (IF i = 1 THEN GotTo ELSE Past(chan[i - 1]))
      BY <1>1, <2>1, NoError
    <3>2. Piece(chan[i])'
      BY <1>2, <1>3, <2>1, <3>1 DEF Piece, Past
    <3> QED
      BY <1>3, <2>1, <3>1, <3>2 DEF Past
  <2>2. \A i \in 1..Len(chan') :
          \/ chan'[i] = Error /\ i = Len(chan') /\ task' = "over" /\ changed'
          \/ Piece(chan[i])' /\ chan'[i].offset = IF i = 1 THEN GotTo' ELSE Past(chan[i - 1])'
    BY <1>1, <1>2, <1>8, <2>1
  <2>3. ChannelOK'
    BY <1>1, <1>8, <2>2 DEF ChannelOK
  <2>4. ClientOK'
    BY <1>1, <1>2, <1>8 DEF ClientOK
  <2> QED
    BY <1>4, <1>5, <2>3, <2>4
<1>9. CASE client = "reading" /\ chan' = Append(chan, Error)
  <2>1. chan' \in Seq(Message \cup {Error}) /\ Len(chan') = Len(chan) + 1 /\ chan'[Len(chan) + 1] = Error
        /\ \A i \in 1..Len(chan) : chan'[i] = chan[i]
    BY <1>6, <1>9, AppendProperties
  <2>2. chan' # <<>>
    BY <1>6, <2>1
  <2>3. \A i \in 1..Len(chan') : i = Len(chan') \/ (i \in 1..Len(chan) /\ (i # 1 => i - 1 \in 1..Len(chan)))
    BY <1>6, <2>1
  <2> QED
    BY <1>8, <1>9, <2>1, <2>2, <2>3
<1>10. CASE client = "reading" /\ chan' = <<Error>>
  BY <1>6, <1>8, <1>10
<1> QED
  BY <1>7, <1>9, <1>10 DEF Fail

-----------------------------------------------------------------------------
(* The client *)

\* A message that is received continues what the client has.
LEMMA ReceiveMessage ==
  ASSUME RequestOK, HeldOK, ChannelOK, NEW m \in Message, Piece(m), m.offset = GotTo, got' = Append(got, m),
         task # "idle", UNCHANGED <<requestVars, taskVars>>
  PROVE  HeldOK' /\ GotTo' = Past(m)
<1> DEFINE C == ContentOf(object)
           n == Len(got)
           parts == [i \in 1..n |-> got[i].bytes]
<1>1. route' = route /\ object' = object /\ offset' = offset /\ end' = end /\ task' = task
  BY DEF requestVars, taskVars
<1>2. Wrapped' = Wrapped /\ Limit' = Limit
  BY <1>1 DEF Wrapped, Limit
<1>3. got \in Seq(Message) /\ n \in Nat /\ offset \in Nat /\ m.offset \in Nat /\ Len(m.bytes) \in Nat
      /\ m.bytes \in Seq(Byte)
  BY DEF HeldOK, RequestOK, Message, Byte
<1>4. got' \in Seq(Message) /\ Len(got') = n + 1 /\ got'[n + 1] = m /\ (\A i \in 1..n : got'[i] = got[i])
      /\ got' # <<>>
  BY <1>3, AppendProperties
<1>5. GotTo' = Past(m) /\ Past(m) \in Nat /\ m.offset < Past(m) /\ Past(m) <= Limit
      /\ m.bytes = SubSeq(C, m.offset + 1, Past(m))
  <2>1. Len(m.bytes) # 0
    BY <1>3 DEF Piece
  <2>2. GotTo' = Past(m)
    BY <1>4 DEF GotTo, Past
  <2> QED
    BY <1>3, <2>1, <2>2, SMTT(40) DEF Piece, Past
<1>6. offset <= GotTo /\ GotTo \in Nat
  BY <1>3 DEF HeldOK, GotTo
<1>7. C \in Seq(Byte) /\ Len(C) \in Nat /\ Limit <= Len(C) /\ Limit \in Nat
  <2>1. object \in Objects /\ end <= Total(object) /\ end \in Nat
    BY DEF RequestOK
  <2> QED
    BY <2>1, ContentIs DEF Limit
<1>8. parts \in Seq(Seq(Byte)) /\ Delivered = FlattenSeq(parts) /\ Len(parts) = n
  <2>1. \A i \in 1..n : got[i] \in Message
    BY <1>3
  <2>2. \A i \in 1..n : got[i].bytes \in Seq(Byte)
    BY <2>1 DEF Message, Byte
  <2> QED
    BY <1>3, <2>2 DEF Delivered
<1>9. Delivered' = Delivered \o m.bytes
  <2>1. [i \in 1..(n + 1) |-> got'[i].bytes] = Append(parts, m.bytes)
    <3> DEFINE l == [i \in 1..(n + 1) |-> got'[i].bytes]
               r == Append(parts, m.bytes)
    <3>a. \A i \in 1..(n + 1) : got'[i] \in Message
      BY <1>4
    <3>1. \A i \in 1..(n + 1) : got'[i].bytes \in Seq(Byte)
      BY <3>a DEF Message, Byte
    <3>2. l \in Seq(Seq(Byte)) /\ Len(l) = n + 1
      BY <1>3, <3>1
    <3>3. r \in Seq(Seq(Byte)) /\ Len(r) = n + 1 /\ r[n + 1] = m.bytes /\ \A i \in 1..n : r[i] = parts[i]
      BY <1>3, <1>8, AppendProperties
    <3>4. \A i \in 1..(n + 1) : l[i] = r[i]
      <4>1. \A i \in 1..(n + 1) : i = n + 1 \/ i \in 1..n
        BY <1>3
      <4> HIDE DEF r
      <4> QED
        BY <1>3, <1>4, <3>3, <4>1
    <3> HIDE DEF l, r
    <3> QED
      BY <3>2, <3>3, <3>4, SeqEqual DEF l, r
  <2>2. Delivered' = FlattenSeq([i \in 1..(n + 1) |-> got'[i].bytes])
    BY <1>4 DEF Delivered
  <2> HIDE DEF parts
  <2> QED
    BY <1>3, <1>8, <2>1, <2>2, FlattenAppend
<1> HIDE DEF C, n, parts
<1>10. Delivered = SubSeq(C, offset + 1, GotTo)
  BY DEF HeldOK, C
<1>11. Delivered' = SubSeq(C, offset + 1, Past(m))
  <2> DEFINE p == Past(m)
  <2>1. p \in Nat /\ GotTo <= p /\ p <= Len(C) /\ m.bytes = SubSeq(C, GotTo + 1, p)
    BY <1>3, <1>5, <1>6, <1>7
  <2> HIDE DEF p
  <2>2. SubSeq(C, offset + 1, GotTo) \o SubSeq(C, GotTo + 1, p) = SubSeq(C, offset + 1, p)
    BY <1>3, <1>6, <1>7, <2>1, PartsJoin
  <2> QED
    BY <1>9, <1>10, <2>1, <2>2 DEF p
<1>12. Len(Delivered) = GotTo - offset
  BY <1>3, <1>5, <1>6, <1>7, <1>10, PartIs
<1>13. \A i \in 1..(n + 1) : got'[i].offset = offset + Len(FlattenSeq([j \in 1..(i - 1) |-> got'[j].bytes]))
  <2> SUFFICES ASSUME NEW i \in 1..(n + 1)
               PROVE  got'[i].offset = offset + Len(FlattenSeq([j \in 1..(i - 1) |-> got'[j].bytes]))
    OBVIOUS
  <2>1. [j \in 1..(i - 1) |-> got'[j].bytes] = [j \in 1..(i - 1) |-> got[j].bytes]
    <3>1. \A j \in 1..(i - 1) : j \in 1..n
      BY <1>3
    <3> QED
      BY <1>4, <3>1
  <2>2. CASE i \in 1..n
    <3>1. got[i].offset = offset + Len(FlattenSeq([j \in 1..(i - 1) |-> got[j].bytes]))
      BY <2>2 DEF HeldOK, n
    <3> QED
      BY <1>4, <2>1, <2>2, <3>1
  <2>3. CASE i = n + 1
    <3>1. i - 1 = n
      BY <1>3, <2>3
    <3>2. Delivered = FlattenSeq([j \in 1..(i - 1) |-> got[j].bytes])
      BY <1>8, <3>1 DEF parts
    <3>3. got'[i].offset = offset + Len(Delivered)
      BY <1>3, <1>4, <1>6, <1>12, <2>3
    <3> QED
      BY <2>1, <3>2, <3>3
  <2>4. i \in 1..n \/ i = n + 1
    BY <1>3
  <2> QED
    BY <2>2, <2>3, <2>4
<1>14. route' = "grpc" => \A i \in 1..(n + 1) : got'[i].last <=> (i = n + 1 /\ Past(m) = Limit)
  <2> SUFFICES ASSUME route = "grpc", NEW i \in 1..(n + 1)
               PROVE  got'[i].last <=> (i = n + 1 /\ Past(m) = Limit)
    BY <1>1
  <2>1. CASE i \in 1..n
    <3>1. got[i].last <=> (i = n /\ GotTo = Limit)
      BY <2>1 DEF HeldOK, n
    <3>2. GotTo # Limit /\ i # n + 1
      BY <1>3, <1>5, <1>6, <1>7, <2>1
    <3> QED
      BY <1>4, <2>1, <3>1, <3>2
  <2>2. CASE i = n + 1
    BY <1>4, <2>2 DEF Piece
  <2>3. i \in 1..n \/ i = n + 1
    BY <1>3
  <2> QED
    BY <2>1, <2>2, <2>3
<1>15. offset < Past(m)
  BY <1>3, <1>5, <1>6
<1> QED
  BY <1>1, <1>2, <1>4, <1>5, <1>11, <1>13, <1>14, <1>15 DEF HeldOK, C

\* The client takes a piece, and has a longer prefix.
LEMMA ReceiveOK ==
  ASSUME ReadIInv, Receive
  PROVE  ReadIInv'
<1> USE DEF ReadIInv
<1>1. client = "reading" /\ chan # <<>> /\ chan' = Tail(chan)
      /\ UNCHANGED <<storeVars, cacheVars, requestVars, changed, taskVars>>
  BY DEF Receive
<1>2. route' = route /\ object' = object /\ offset' = offset /\ end' = end /\ declared' = declared
      /\ task' = task /\ ahead' = ahead /\ idx' = idx /\ data' = data /\ position' = position
      /\ changed' = changed
  BY <1>1 DEF requestVars, taskVars
<1>3. Wrapped' = Wrapped /\ Limit' = Limit /\ StartIdx' = StartIdx /\ EndIdx' = EndIdx /\ Chunk' = Chunk
  BY <1>2 DEF Wrapped, Limit, StartIdx, EndIdx, Chunk
<1>4. LastIdx' = LastIdx /\ AheadEnd' = AheadEnd
  BY <1>2, <1>3 DEF LastIdx, AheadEnd
<1>5. task # "idle"
  BY <1>1 DEF ClientOK
<1>6. StoreOK' /\ CacheOK' /\ RequestOK' /\ Untouched'
  <2>1. StoreOK' /\ CacheOK'
    BY <1>1 DEF storeVars, cacheVars, StoreOK, CacheOK, CacheTypeOK, CacheWithinLimits
  <2>2. RequestOK' /\ Untouched'
    BY <1>1, <1>2, <1>3 DEF RequestOK, Untouched, storeVars
  <2> QED
    BY <2>1, <2>2
<1>7. TaskOK'
  <2>1. task \notin {"idle", "over"} => ~ahead
    BY <1>1 DEF TaskOK
  <2> QED
    BY <1>2, <1>3, <1>4, <2>1 DEF TaskOK
<1> DEFINE n == Len(chan)
<1>8. chan \in Seq(Message \cup {Error}) /\ n \in Nat \ {0} /\ Head(chan) = chan[1] /\ 1 \in 1..n /\ n \in 1..n
  BY <1>1 DEF ChannelOK
<1>9. chan' \in Seq(Message \cup {Error}) /\ Len(chan') = n - 1 /\ \A i \in 1..(n - 1) : chan'[i] = chan[i + 1]
  BY <1>1, <1>8, HeadTailProperties
<1>10. \A i \in 1..n :
         \/ chan[i] = Error /\ i = n /\ task = "over" /\ changed
         \/ Piece(chan[i]) /\ chan[i] # Error /\ chan[i].offset = (IF i = 1 THEN GotTo ELSE Past(chan[i - 1]))
  BY Apart DEF ChannelOK, Piece
<1>11. CASE Head(chan) = Error /\ client' = "failed" /\ UNCHANGED got
  <2>1. n = 1 /\ changed
    BY <1>8, <1>10, <1>11
  <2>2. chan' = <<>> /\ Len(chan') = 0
    BY <1>9, <2>1
  <2>3. ChannelOK'
    <3>1. \A i \in 1..Len(chan') : FALSE
      BY <2>2
    <3> QED
      BY <1>9, <1>11, <2>2, <3>1 DEF ChannelOK
  <2>4. HeldOK'
    <3>1. GotTo' = GotTo /\ Delivered' = Delivered
      BY <1>2, <1>11 DEF GotTo, Delivered, Past
    <3> QED
      BY <1>2, <1>3, <1>11, <3>1 DEF HeldOK
  <2>5. ClientOK'
    BY <1>2, <1>5, <1>11, <2>1 DEF ClientOK
  <2> QED
    BY <1>6, <1>7, <2>3, <2>4, <2>5
<1>12. CASE Head(chan) # Error /\ got' = Append(got, Head(chan)) /\ UNCHANGED client
  <2>1. Piece(chan[1]) /\ chan[1].offset = GotTo /\ chan[1] \in Message /\ chan[1] # Error
    BY <1>8, <1>10, <1>12 DEF Piece
  <2>2. HeldOK' /\ GotTo' = Past(chan[1])
    <3> DEFINE m == chan[1]
    <3>1. m \in Message /\ Piece(m) /\ m.offset = GotTo /\ got' = Append(got, m)
      BY <1>8, <1>12, <2>1
    <3> HIDE DEF m
    <3>2. HeldOK' /\ GotTo' = Past(m)
      BY <1>1, <1>5, <3>1, ReceiveMessage
    <3> QED
      BY <3>2 DEF m
  <2>3. ASSUME NEW i \in 1..Len(chan')
        PROVE  \/ chan'[i] = Error /\ i = Len(chan') /\ task' = "over" /\ changed'
               \/ Piece(chan[i])' /\ chan'[i].offset = IF i = 1 THEN GotTo' ELSE Past(chan[i - 1])'
    <3>1. i \in 1..(n - 1) /\ i + 1 \in 1..n /\ i + 1 # 1 /\ (i + 1) - 1 = i /\ i \in Nat
      BY <1>8, <1>9
    <3>2. chan'[i] = chan[i + 1]
      BY <1>9, <3>1
    <3>3. CASE chan[i + 1] = Error
      BY <1>2, <1>8, <1>9, <1>10, <3>1, <3>2, <3>3
    <3>4. CASE chan[i + 1] # Error
      <4>1. Piece(chan[i + 1]) /\ chan[i + 1].offset = Past(chan[i])
        BY <1>10, <3>1, <3>4
      <4>2. Piece(chan[i])'
        BY <1>2, <1>3, <3>2, <4>1 DEF Piece, Past
      <4>3. i # 1 => chan'[i - 1] = chan[i]
        BY <1>8, <1>9, <3>1
      <4>4. chan'[i].offset = IF i = 1 THEN GotTo' ELSE Past(chan[i - 1])'
        BY <2>2, <3>2, <4>1, <4>3 DEF Past
      <4> QED
        BY <4>2, <4>4
    <3> QED
      BY <3>3, <3>4
  <2>4. IF chan' = <<>> THEN position' = GotTo'
        ELSE chan'[Len(chan')] = Error \/ position' = Past(chan[Len(chan)])'
    <3>1. chan[n] = Error \/ position = Past(chan[n])
      BY <1>1, <1>5 DEF ChannelOK
    <3>2. CASE n = 1
      <4>1. chan' = <<>>
        BY <1>9, <3>2
      <4> QED
        BY <1>2, <2>1, <2>2, <3>1, <3>2, <4>1
    <3>3. CASE n # 1
      <4>1. chan' # <<>> /\ n - 1 \in 1..(n - 1) /\ (n - 1) + 1 = n
        BY <1>8, <1>9, <3>3
      <4>2. chan'[Len(chan')] = chan[n]
        BY <1>9, <4>1
      <4> QED
        BY <1>2, <3>1, <4>1, <4>2 DEF Past
    <3> QED
      BY <3>2, <3>3
  <2>5. ChannelOK'
    BY <1>2, <1>5, <1>9, <2>3, <2>4 DEF ChannelOK
  <2>6. ClientOK'
    <3>1. task = "over" /\ ~Wrapped => position = Limit \/ chan[n] = Error
      BY <1>1 DEF ClientOK
    <3>2. chan[n] = Error => chan' # <<>> /\ chan'[Len(chan')] = Error
      <4>1. chan[n] = Error => n # 1
        BY <2>1
      <4>2. n # 1 => chan' # <<>> /\ n - 1 \in 1..(n - 1) /\ (n - 1) + 1 = n
        BY <1>8, <1>9
      <4> QED
        BY <1>9, <4>1, <4>2
    <3> QED
      BY <1>1, <1>2, <1>3, <1>5, <1>12, <3>1, <3>2 DEF ClientOK
  <2> QED
    BY <1>6, <1>7, <2>2, <2>5, <2>6
<1> QED
  BY <1>11, <1>12 DEF Receive

\* A step of the client that only ends the stream leaves the rest as it is.
LEMMA ClientStep ==
  ASSUME ReadIInv, client = "reading", client' \in {"done", "gone"}, chan' = <<>>,
         UNCHANGED <<storeVars, cacheVars, requestVars, changed, taskVars, got>>,
         client' = "done" /\ ~Wrapped => GotTo = Limit
  PROVE  ReadIInv'
<1> USE DEF ReadIInv
<1>1. route' = route /\ object' = object /\ offset' = offset /\ end' = end /\ declared' = declared
      /\ task' = task /\ ahead' = ahead /\ idx' = idx /\ data' = data /\ position' = position
      /\ got' = got /\ changed' = changed
  BY DEF requestVars, taskVars
<1>2. Wrapped' = Wrapped /\ Limit' = Limit /\ GotTo' = GotTo /\ StartIdx' = StartIdx /\ EndIdx' = EndIdx
      /\ Delivered' = Delivered /\ Chunk' = Chunk
  BY <1>1 DEF Wrapped, Limit, GotTo, StartIdx, EndIdx, Delivered, Chunk, Past
<1>3. LastIdx' = LastIdx /\ AheadEnd' = AheadEnd
  BY <1>1, <1>2 DEF LastIdx, AheadEnd
<1>4. StoreOK' /\ CacheOK'
  BY DEF storeVars, cacheVars, StoreOK, CacheOK, CacheTypeOK, CacheWithinLimits
<1>5. RequestOK' /\ Untouched'
  BY <1>1, <1>2 DEF RequestOK, Untouched, storeVars
<1>6. TaskOK'
  BY <1>1, <1>2, <1>3 DEF TaskOK
<1>7. ChannelOK'
  <2>1. Len(<<>>) = 0 /\ <<>> \in Seq(Message \cup {Error}) /\ \A i \in 1..0 : FALSE
    OBVIOUS
  <2> QED
    BY <1>1, <2>1 DEF ChannelOK
<1>8. HeldOK'
  BY <1>1, <1>2 DEF HeldOK
<1>9. ClientOK'
  BY <1>1, <1>2 DEF ClientOK
<1> QED
  BY <1>4, <1>5, <1>6, <1>7, <1>8, <1>9

\* The sender is dropped only when all was sent, or an error was.
LEMMA StreamEndsOK ==
  ASSUME ReadIInv, StreamEnds
  PROVE  ReadIInv'
<1>1. client = "reading" /\ chan = <<>> /\ task = "over" /\ client' = "done" /\ chan' = <<>>
      /\ UNCHANGED <<storeVars, cacheVars, requestVars, changed, taskVars, got>>
  BY DEF StreamEnds
<1>2. ~Wrapped => GotTo = Limit
  BY <1>1 DEF ReadIInv, ChannelOK, ClientOK
<1> QED
  BY <1>1, <1>2, ClientStep

\* The client goes away.
LEMMA LeaveOK ==
  ASSUME ReadIInv, Leave
  PROVE  ReadIInv'
BY ClientStep DEF Leave

\* There is no object under the key.
LEMMA NotFoundOK ==
  ASSUME ReadIInv, NotFound
  PROVE  ReadIInv'
<1> USE DEF ReadIInv
<1>1. task = "idle" /\ client' = "not found"
      /\ UNCHANGED <<storeVars, cacheVars, requestVars, changed, taskVars, chan, got>>
  BY DEF NotFound
<1>2. route' = route /\ object' = object /\ offset' = offset /\ end' = end /\ declared' = declared
      /\ task' = task /\ ahead' = ahead /\ idx' = idx /\ data' = data /\ position' = position
      /\ got' = got /\ changed' = changed /\ chan' = chan
  BY <1>1 DEF requestVars, taskVars
<1>3. Wrapped' = Wrapped /\ Limit' = Limit /\ GotTo' = GotTo /\ Delivered' = Delivered
  BY <1>2 DEF Wrapped, Limit, GotTo, Delivered, Past
<1>4. StoreOK' /\ CacheOK'
  BY <1>1 DEF storeVars, cacheVars, StoreOK, CacheOK, CacheTypeOK, CacheWithinLimits
<1>5. RequestOK' /\ Untouched' /\ TaskOK'
  BY <1>1, <1>2, <1>3 DEF RequestOK, Untouched, TaskOK
<1>6. ChannelOK'
  <2>1. Len(<<>>) = 0 /\ \A i \in 1..0 : FALSE
    OBVIOUS
  <2>2. chan = <<>>
    BY <1>1 DEF ChannelOK
  <2> QED
    BY <1>1, <1>2, <2>1, <2>2 DEF ChannelOK
<1>7. HeldOK'
  BY <1>1, <1>2, <1>3 DEF HeldOK
<1>8. ClientOK'
  BY <1>1, <1>2 DEF ClientOK
<1> QED
  BY <1>4, <1>5, <1>6, <1>7, <1>8

-----------------------------------------------------------------------------
(* The invariant *)

\* An object without chunks has no bytes.
LEMMA ContentOfNothing == ContentOf(<<>>) = <<>>
<1> DEFINE e == <<>>
<1>1. 1..Len(e) = {}
  OBVIOUS
<1>2. [i \in 1..Len(e) |-> Content(e[i])] = <<>>
  BY <1>1
<1> HIDE DEF e
<1> QED
  BY <1>2, FlattenEmpty DEF ContentOf, e

\* A client without a message holds nothing.
LEMMA NothingHeld ==
  ASSUME got = <<>>
  PROVE  Delivered = <<>>
<1>1. [i \in 1..0 |-> got[i].bytes] = <<>>
  <2>1. 1..0 = {}
    OBVIOUS
  <2> QED
    BY <2>1
<1>2. Len(got) = 0
  OBVIOUS
<1> QED
  BY <1>1, <1>2, FlattenEmpty DEF Delivered

\* The invariant holds at first.
LEMMA ReadInit == Init => ReadIInv
<1> SUFFICES ASSUME Init PROVE ReadIInv
  OBVIOUS
<1>1. manifest \in Objects \cup {None} /\ lru = <<>> /\ current = 0 /\ deleting = None /\ writes = 0 /\ faults = 0
      /\ route = None /\ object = <<>> /\ offset = 0 /\ end = 0 /\ declared = None /\ changed = FALSE
      /\ task = "idle" /\ ahead = FALSE /\ idx = 0 /\ data = <<>> /\ position = 0
      /\ chan = <<>> /\ got = <<>> /\ client = "idle"
  BY DEF Init, CacheInit
<1>2. StoreOK
  BY <1>1, ReadBounds DEF Init, StoreOK
<1>3. CacheOK
  <2>1. Size(lru) = 0 /\ Len(lru) = 0 /\ lru \in Seq(Chunks)
    BY <1>1, SizeEmpty
  <2>2. IsInjective(lru)
    BY <1>1 DEF IsInjective
  <2> QED
    BY <1>1, <2>1, <2>2, CacheBounds DEF CacheOK, CacheTypeOK, CacheWithinLimits
<1>4. RequestOK /\ TaskOK /\ Untouched
  <2>1. RequestOK
    <3>1. offset \in Nat /\ end \in Nat /\ route \in Routes \cup {None} /\ object \in Objects \cup {<<>>}
          /\ declared \in Nat \cup {None} /\ changed \in BOOLEAN
      BY <1>1
    <3> QED
      BY <1>1, <3>1 DEF RequestOK
  <2>2. TaskOK
    <3>1. idx \in Nat /\ position \in Nat /\ ahead \in BOOLEAN
      BY <1>1
    <3>2. <<>> \in Seq(Chunks \X Nat)
      OBVIOUS
    <3> QED
      BY <1>1, <3>1, <3>2 DEF TaskOK
  <2>3. Untouched
    BY <1>1 DEF Untouched
  <2> QED
    BY <2>1, <2>2, <2>3
<1>5. ChannelOK /\ ClientOK
  BY <1>1 DEF ChannelOK, ClientOK
<1>6. HeldOK
  <2>1. GotTo = 0 /\ Delivered = <<>> /\ Len(got) = 0 /\ got \in Seq(Message)
    BY <1>1, NothingHeld DEF GotTo
  <2>2. ContentOf(object) = <<>>
    BY <1>1, ContentOfNothing
  <2>3. SubSeq(<<>>, 0 + 1, 0) = <<>>
    OBVIOUS
  <2> QED
    BY <1>1, <2>1, <2>2, <2>3 DEF HeldOK
<1> QED
  BY <1>2, <1>3, <1>4, <1>5, <1>6 DEF ReadIInv

\* Every step keeps the invariant.
LEMMA ReadNext == ReadIInv /\ [Next]_vars => ReadIInv'
<1> SUFFICES ASSUME ReadIInv, [Next]_vars PROVE ReadIInv'
  OBVIOUS
<1>1. ASSUME NEW r \in {"grpc", "stream", "range"}, NEW q \in Ranges, AskRange(r, q[1], q[2])
      PROVE  ReadIInv'
  <2>1. q[1] \in 0..(Width - 1) /\ q[2] \in 0..(Width - 1)
    BY ReadBounds
  <2> QED
    BY <1>1, <2>1, AskRangeOK
<1>2. CASE Others
  BY <1>2, OthersOK
<1>3. CASE Request
  BY <1>1, <1>3, AskHeaderOK, AskWholeOK, NotFoundOK DEF Request
<1>4. CASE Task
  BY <1>4, LookupOK, ReadOK, InsertOK, SendOK, FailOK DEF Task
<1>5. CASE Receive \/ StreamEnds \/ Leave
  BY <1>5, ReceiveOK, StreamEndsOK, LeaveOK
<1>6. CASE UNCHANGED vars
  <2>1. UNCHANGED <<storeVars, cacheVars>> /\ changed' = changed /\ task' = task /\ object' = object
    BY <1>6 DEF vars, taskVars, requestVars
  <2>2. RequestOK' /\ TaskOK' /\ ChannelOK' /\ HeldOK' /\ ClientOK'
    BY <1>6, Undisturbed DEF vars, ReadIInv, RequestOK
  <2>3. StoreOK' /\ CacheOK' /\ Untouched'
    BY <2>1 DEF ReadIInv, storeVars, cacheVars, StoreOK, CacheOK, CacheTypeOK, CacheWithinLimits, Untouched
  <2> QED
    BY <2>2, <2>3 DEF ReadIInv
<1> QED
  BY <1>2, <1>3, <1>4, <1>5, <1>6 DEF Next

\* What the parts of the invariant say holds of every download, throughout.
THEOREM ReadInvariant == Spec => []ReadIInv
<1> QED
  BY ReadInit, ReadNext, PTL DEF Spec

-----------------------------------------------------------------------------
(* What follows *)

\* What is wanted is a sequence of bytes, the empty one if there is no request.
LEMMA WantedType ==
  ASSUME RequestOK
  PROVE  Wanted \in Seq(Byte)
<1> DEFINE C == ContentOf(object)
           l == Limit
<1>1. C \in Seq(Byte) /\ l \in Nat /\ offset \in Nat /\ l <= Len(C)
  <2>1. CASE task # "idle"
    BY <2>1, ContentIs DEF RequestOK, Limit
  <2>2. CASE task = "idle"
    <3>1. object = <<>> /\ offset = 0 /\ end = 0
      BY <2>2 DEF RequestOK
    <3>2. l = 0
      BY <3>1 DEF Limit, Wrapped
    <3>3. C = <<>>
      BY <3>1, ContentOfNothing
    <3> HIDE DEF C, l
    <3> QED
      BY <3>1, <3>2, <3>3
  <2> QED
    BY <2>1, <2>2
<1>2. Wanted = SubSeq(C, offset + 1, l)
  BY DEF Wanted, Limit
<1> HIDE DEF C, l
<1>3. \A i \in (offset + 1)..l : C[i] \in Byte
  BY <1>1
<1> QED
  BY <1>1, <1>2, <1>3, SubSeqProperties

\* What is wanted, and what the client has of it, as parts of the object.
LEMMA HeldPart ==
  ASSUME RequestOK, HeldOK, got # <<>> \/ ~Wrapped, task # "idle"
  PROVE  /\ offset \in Nat /\ GotTo \in Nat /\ Limit \in Nat
         /\ offset <= GotTo /\ GotTo <= Limit /\ offset <= Limit
         /\ ContentOf(object) \in Seq(Byte) /\ Limit <= Len(ContentOf(object))
         /\ Delivered = SubSeq(ContentOf(object), offset + 1, GotTo)
         /\ Wanted = SubSeq(ContentOf(object), offset + 1, Limit)
         /\ Len(Delivered) = GotTo - offset /\ Len(Wanted) = Limit - offset
<1>1. object \in Objects /\ offset \in Nat /\ end \in Nat /\ end <= Total(object)
  BY DEF RequestOK
<1>2. Total(object) \in Nat /\ ContentOf(object) \in Seq(Byte) /\ Len(ContentOf(object)) = Total(object)
  BY <1>1, ContentIs
<1>3. Limit \in Nat /\ Limit <= Len(ContentOf(object))
  BY <1>1, <1>2 DEF Limit
<1>4. GotTo \in Nat /\ offset <= GotTo /\ GotTo <= Limit
  <2>1. CASE got = <<>>
    BY <1>1, <2>1 DEF GotTo, Limit, Wrapped
  <2>2. CASE got # <<>>
    <3>1. got[Len(got)] \in Message
      BY <2>2 DEF HeldOK
    <3>2. GotTo \in Nat
      BY <2>2, <3>1 DEF GotTo, Past, Message
    <3> QED
      BY <1>1, <2>2, <3>2 DEF HeldOK
  <2> QED
    BY <2>1, <2>2
<1>5. offset <= Limit
  BY <1>1, <1>3, <1>4
<1>6. Delivered = SubSeq(ContentOf(object), offset + 1, GotTo)
      /\ Wanted = SubSeq(ContentOf(object), offset + 1, Limit)
  BY DEF HeldOK, Wanted, Limit
<1> DEFINE C == ContentOf(object)
           g == GotTo
           l == Limit
<1>7. C \in Seq(Byte) /\ g \in Nat /\ l \in Nat /\ offset <= g /\ g <= l /\ l <= Len(C) /\ Len(C) \in Nat
  BY <1>2, <1>3, <1>4
<1> HIDE DEF C, g, l
<1>8. Len(SubSeq(C, offset + 1, g)) = g - offset /\ Len(SubSeq(C, offset + 1, l)) = l - offset
  <2>1. g <= Len(C) /\ offset <= l
    BY <1>1, <1>7
  <2> QED
    BY <1>1, <1>7, <2>1, PartIs
<1> QED
  BY <1>1, <1>2, <1>3, <1>4, <1>5, <1>6, <1>8 DEF C, g, l

\* The marks of the messages a gRPC client has.
LEMMA MarksFollow == ReadIInv => MarksTrue
<1> SUFFICES ASSUME ReadIInv, route = "grpc" PROVE MarksTrue
  BY DEF MarksTrue
<1>1. \A i \in 1..Len(got) :
        got[i].offset = offset + Len(FlattenSeq([j \in 1..(i - 1) |-> got[j].bytes]))
  BY DEF ReadIInv, HeldOK
<1>2. ASSUME NEW i \in 1..Len(got)
      PROVE  got[i].last <=> (i = Len(got) /\ Delivered = Wanted)
  <2>1. got # <<>> /\ task # "idle"
    <3>1. got # <<>>
      BY <1>2
    <3> QED
      BY <3>1 DEF ReadIInv, HeldOK
  <2>2. Delivered = Wanted <=> GotTo = Limit
    <3>1. /\ offset \in Nat /\ GotTo \in Nat /\ Limit \in Nat
          /\ Delivered = SubSeq(ContentOf(object), offset + 1, GotTo)
          /\ Wanted = SubSeq(ContentOf(object), offset + 1, Limit)
          /\ Len(Delivered) = GotTo - offset /\ Len(Wanted) = Limit - offset
      BY <2>1, HeldPart DEF ReadIInv
    <3>2. CASE GotTo = Limit
      BY <3>1, <3>2
    <3>3. CASE GotTo # Limit
      <4>1. Len(Delivered) # Len(Wanted)
        BY <3>1, <3>3
      <4> QED
        BY <3>3, <4>1
    <3> QED
      BY <3>2, <3>3
  <2>3. got[i].last <=> (i = Len(got) /\ GotTo = Limit)
    BY DEF ReadIInv, HeldOK
  <2> QED
    BY <2>2, <2>3
<1> QED
  BY <1>1, <1>2 DEF MarksTrue

\* Every variable keeps its type, the cache its limits and its counter (lib.rs:80),
\* and the messages of a gRPC client their marks (grpc.rs:235).
THEOREM ReadKeepsOrder == Spec => []ReadInv
<1>1. ReadIInv => ReadTypeOK
  <2> SUFFICES ASSUME ReadIInv PROVE ReadTypeOK
    OBVIOUS
  <2>1. \A i \in 1..Len(chan) : chan[i] = Error \/ (chan[i].offset \in Nat /\ chan[i].last \in BOOLEAN)
    <3>1. \A i \in 1..Len(chan) : chan[i] = Error \/ chan[i] \in Message
      BY DEF ReadIInv, ChannelOK, Piece
    <3> QED
      BY <3>1 DEF Message
  <2>2. client \in {"idle", "reading", "gone", "done", "failed", "not found"}
    BY DEF ReadIInv, ClientOK
  <2>3. idx \in Nat /\ position \in Nat /\ ahead \in BOOLEAN
    BY DEF ReadIInv, TaskOK
  <2> QED
    BY <2>1, <2>2, <2>3 DEF ReadIInv, ReadTypeOK, StoreOK, CacheOK, RequestOK
<1>2. ReadIInv => CacheWithinLimits
  BY DEF ReadIInv, CacheOK
<1>3. ReadIInv => ReadInv
  BY <1>1, <1>2, MarksFollow DEF ReadInv
<1> QED
  BY <1>3, ReadInvariant, PTL

\* A client holds at every moment a prefix of the range it asked for, of the one
\* object the key had when it asked (grpc.rs:174, rest.rs:214, engine.rs:247).
THEOREM HoldsOneVersion == Spec => []OneVersion
<1>1. ReadIInv => OneVersion
  <2> SUFFICES ASSUME ReadIInv PROVE IsPrefix(Delivered, Wanted)
    BY DEF OneVersion
  <2>1. CASE got = <<>>
    <3>1. Delivered = <<>> /\ Len(<<>>) = 0
      BY <2>1, NothingHeld
    <3>2. Wanted \in Seq(Byte)
      BY WantedType DEF ReadIInv
    <3>3. Len(Wanted) \in Nat /\ SubSeq(Wanted, 1, 0) = <<>> /\ SubSeq(<<>>, 1, 0) = <<>> /\ 0 <= Len(Wanted)
      BY <3>2
    <3> QED
      BY <3>1, <3>3 DEF IsPrefix
  <2>2. CASE got # <<>>
    <3>1. task # "idle" /\ RequestOK /\ HeldOK
      BY <2>2 DEF ReadIInv, HeldOK
    <3> DEFINE C == ContentOf(object)
               g == GotTo
               l == Limit
    <3>2. offset \in Nat /\ g \in Nat /\ l \in Nat /\ offset <= g /\ g <= l /\ C \in Seq(Byte) /\ l <= Len(C)
          /\ Delivered = SubSeq(C, offset + 1, g) /\ Wanted = SubSeq(C, offset + 1, l)
      BY <2>2, <3>1, HeldPart
    <3> HIDE DEF C, g, l
    <3> QED
      BY <3>2, PartIsPrefix
  <2> QED
    BY <2>1, <2>2
<1> QED
  BY <1>1, ReadInvariant, PTL

\* A stream that ends without an error is complete, and an answer over REST has
\* the length it announced (rest.rs:259), except where offset + length wraps.
THEOREM EndIsWhole == Spec => []EndMeansWhole
<1>1. ReadIInv => EndMeansWhole
  <2> SUFFICES ASSUME ReadIInv, client = "done", ~Wrapped
               PROVE  Delivered = Wanted /\ (route = "rest" => Len(Delivered) = declared)
    BY DEF EndMeansWhole
  <2>1. task # "idle" /\ GotTo = Limit /\ Limit = end
    BY DEF ReadIInv, ClientOK, Limit
  <2>2. Delivered = Wanted /\ Len(Delivered) = GotTo - offset
    BY <2>1, HeldPart DEF ReadIInv
  <2>3. route = "rest" => declared = end - offset
    BY <2>1 DEF ReadIInv, RequestOK
  <2> QED
    BY <2>1, <2>2, <2>3
<1> QED
  BY <1>1, ReadInvariant, PTL

\* A download fails only if its object was replaced, deleted or damaged.
THEOREM FailuresHaveCauses == Spec => []FailureHasCause
<1>1. ReadIInv => FailureHasCause
  BY DEF ReadIInv, ClientOK, FailureHasCause
<1> QED
  BY <1>1, ReadInvariant, PTL
=============================================================================
