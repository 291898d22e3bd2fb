----------------------------- MODULE TuiProofs -----------------------------
(***************************************************************************)
(* Proofs about the terminal client, for every list of keys, every set of  *)
(* local files and sizes, every width of characters and every bound: what  *)
(* the screen shows is what its keys act on, only what was asked for is    *)
(* removed, cursors stay on characters, and no event is lost.              *)
(***************************************************************************)
EXTENDS TuiInvariant, SequenceLemmas

-----------------------------------------------------------------------------
(* Paths and their order *)

\* A prefix agrees with what it begins.
LEMMA PrefixIs ==
  ASSUME NEW S, NEW a \in Seq(S), NEW b \in Seq(S)
  PROVE  IsPrefix(a, b) <=> Len(a) <= Len(b) /\ \A i \in 1..Len(a) : a[i] = b[i]
<1>0. Len(a) \in Nat /\ Len(b) \in Nat
  OBVIOUS
<1>1. CASE ~(Len(a) <= Len(b))
  BY <1>1 DEF IsPrefix
<1>2. CASE Len(a) <= Len(b)
  <2> DEFINE p == SubSeq(a, 1, Len(a))
             q == SubSeq(b, 1, Len(a))
  <2>1. p \in Seq(S) /\ Len(p) = Len(a) /\ \A i \in 1..Len(a) : p[i] = a[i]
    <3>1. SubSeq(a, 0 + 1, Len(a)) \in Seq(S) /\ Len(SubSeq(a, 0 + 1, Len(a))) = Len(a) - 0
          /\ \A i \in 1..(Len(a) - 0) : SubSeq(a, 0 + 1, Len(a))[i] = a[0 + i]
      BY <1>0, PartIs
    <3> QED
      BY <3>1, <1>0
  <2>2. q \in Seq(S) /\ Len(q) = Len(a) /\ \A i \in 1..Len(a) : q[i] = b[i]
    <3>1. SubSeq(b, 0 + 1, Len(a)) \in Seq(S) /\ Len(SubSeq(b, 0 + 1, Len(a))) = Len(a) - 0
          /\ \A i \in 1..(Len(a) - 0) : SubSeq(b, 0 + 1, Len(a))[i] = b[0 + i]
      BY <1>0, <1>2, PartIs
    <3> QED
      BY <3>1, <1>0
  <2>3. IsPrefix(a, b) <=> p = q
    BY <1>2 DEF IsPrefix
  <2> HIDE DEF p, q
  <2>4. p = q <=> \A i \in 1..Len(a) : p[i] = q[i]
    BY <2>1, <2>2, SeqEqual
  <2> QED
    BY <1>2, <2>1, <2>2, <2>3, <2>4
<1> QED
  BY <1>1, <1>2

\* The segments of a path.
LEMMA Segments ==
  ASSUME NEW p \in Paths
  PROVE  Len(p) \in Nat /\ \A i \in 1..Len(p) : p[i] \in Names /\ p[i] \in Nat
<1>1. Len(p) \in Nat /\ \A i \in 1..Len(p) : p[i] \in Names
  BY DEF Paths
<1>2. \A n \in Names : n \in Nat
  BY NamesAssumption
<1> QED
  BY <1>1, <1>2

\* What is under a directory of p is under p's entry for it.
LEMMA UnderEntry ==
  ASSUME NEW p \in Paths, NEW k \in Paths, Under(p, k), Len(k) > Len(p) + 1
  PROVE  Under(Append(p, k[Len(p) + 1]), k)
<1> DEFINE q == Append(p, k[Len(p) + 1])
<1>0. Len(p) \in Nat /\ Len(k) \in Nat /\ Len(p) + 1 \in 1..Len(k)
  BY DEF Paths
<1>1. k[Len(p) + 1] \in Names
  BY <1>0, Segments
<1>2. q \in Seq(Names) /\ Len(q) = Len(p) + 1 /\ q[Len(p) + 1] = k[Len(p) + 1] /\ \A i \in 1..Len(p) : q[i] = p[i]
  BY <1>0, <1>1 DEF Paths
<1>3. \A i \in 1..Len(p) : p[i] = k[i]
  BY PrefixIs DEF Under, Paths
<1>4. 1..Len(q) = 1..Len(p) \cup {Len(p) + 1}
  BY <1>0, <1>2
<1> HIDE DEF q
<1>5. \A i \in 1..Len(q) : q[i] = k[i]
  BY <1>2, <1>3, <1>4
<1>6. IsPrefix(q, k)
  BY <1>0, <1>2, <1>5, PrefixIs DEF Paths
<1> QED
  BY <1>0, <1>2, <1>6 DEF Under, q

\* A key one level below p is p's entry for it.
LEMMA FileEntry ==
  ASSUME NEW p \in Paths, NEW k \in Paths, Under(p, k), Len(k) = Len(p) + 1
  PROVE  Append(p, k[Len(p) + 1]) = k
<1> DEFINE q == Append(p, k[Len(p) + 1])
<1>0. Len(p) \in Nat /\ Len(k) \in Nat /\ Len(p) + 1 \in 1..Len(k)
  BY DEF Paths
<1>1. k[Len(p) + 1] \in Names
  BY <1>0, Segments
<1>2. q \in Seq(Names) /\ Len(q) = Len(p) + 1 /\ q[Len(p) + 1] = k[Len(p) + 1] /\ \A i \in 1..Len(p) : q[i] = p[i]
  BY <1>0, <1>1 DEF Paths
<1>3. \A i \in 1..Len(p) : p[i] = k[i]
  BY PrefixIs DEF Under, Paths
<1>4. 1..Len(q) = 1..Len(p) \cup {Len(p) + 1}
  BY <1>0, <1>2
<1> HIDE DEF q
<1>5. \A i \in 1..Len(q) : q[i] = k[i]
  BY <1>2, <1>3, <1>4
<1>6. q = k
  BY <1>2, <1>5, SeqEqual DEF Paths
<1> QED
  BY <1>6 DEF q

\* The beginning of a path is a path, and so is its rest.
LEMMA PartsOfPaths ==
  ASSUME NEW p \in Paths, NEW n \in Nat, n <= Len(p)
  PROVE  SubSeq(p, 1, n) \in Paths /\ SubSeq(p, n + 1, Len(p)) \in Paths
<1>0. Len(p) \in Nat /\ p \in Seq(Names) /\ 0 <= n
  BY DEF Paths
<1>1. SubSeq(p, 0 + 1, n) \in Seq(Names)
  BY <1>0, PartIs
<1>2. SubSeq(p, n + 1, Len(p)) \in Seq(Names)
  BY <1>0, PartIs
<1> QED
  BY <1>1, <1>2 DEF Paths

\* KeyBefore is the order of sequences of numbers,
LEMMA KeyBeforeIs ==
  ASSUME NEW a \in Paths, NEW b \in Paths, Precedes(a, b)
  PROVE  KeyBefore(a, b)
<1>0. Len(a) \in Nat /\ Len(b) \in Nat /\ a \in Seq(Names) /\ b \in Seq(Names)
  BY DEF Paths
<1>1. PICK n \in 0..Len(a) : /\ n < Len(b) /\ \A i \in 1..n : a[i] = b[i]
                             /\ n = Len(a) \/ a[n + 1] < b[n + 1]
  BY DEF Precedes
<1>2. CASE n = Len(a)
  <2>1. IsPrefix(a, b)
    BY <1>0, <1>1, <1>2, PrefixIs
  <2> QED
    BY <1>0, <1>1, <1>2, <2>1 DEF KeyBefore, Under
<1>3. CASE n # Len(a)
  <2>1. n + 1 \in 1..Len(a) /\ n + 1 <= Len(b) /\ a[n + 1] < b[n + 1] /\ (n + 1) - 1 = n
        /\ n <= Len(a) /\ n <= Len(b) /\ n \in Nat
    BY <1>0, <1>1, <1>3
  <2> DEFINE p == SubSeq(a, 1, n)
             q == SubSeq(b, 1, n)
  <2>2. p \in Seq(Names) /\ Len(p) = n /\ \A i \in 1..n : p[i] = a[i]
    <3>1. SubSeq(a, 0 + 1, n) \in Seq(Names) /\ Len(SubSeq(a, 0 + 1, n)) = n - 0
          /\ \A i \in 1..(n - 0) : SubSeq(a, 0 + 1, n)[i] = a[0 + i]
      BY <1>0, <2>1, PartIs
    <3> QED
      BY <3>1, <2>1, <1>0
  <2>3. q \in Seq(Names) /\ Len(q) = n /\ \A i \in 1..n : q[i] = b[i]
    <3>1. SubSeq(b, 0 + 1, n) \in Seq(Names) /\ Len(SubSeq(b, 0 + 1, n)) = n - 0
          /\ \A i \in 1..(n - 0) : SubSeq(b, 0 + 1, n)[i] = b[0 + i]
      BY <1>0, <2>1, PartIs
    <3> QED
      BY <3>1, <2>1, <1>0
  <2> HIDE DEF p, q
  <2>4. p = q
    BY <1>1, <2>2, <2>3, SeqEqual
  <2> QED
    BY <2>1, <2>4 DEF KeyBefore, p, q
<1> QED
  BY <1>2, <1>3

\* so a finite set of paths has a first.
LEMMA LeastIs ==
  ASSUME NEW S \in SUBSET Paths, IsFiniteSet(S), S # {}
  PROVE  Least(S) \in S
<1>1. Paths \subseteq Seq(Nat)
  <2> SUFFICES ASSUME NEW p \in Paths PROVE p \in Seq(Nat)
    OBVIOUS
  <2>1. Len(p) \in Nat /\ p \in [1..Len(p) -> Names]
    BY DEF Paths
  <2>2. p \in [1..Len(p) -> Nat]
    BY <2>1, Segments
  <2> QED
    BY <2>1, <2>2
<1>2. PICK k \in S : \A j \in S : k = j \/ Precedes(k, j)
  BY <1>1, FirstOfAll
<1>3. \A j \in S : k = j \/ KeyBefore(k, j)
  BY <1>2, KeyBeforeIs
<1>4. \E k_1 \in S : \A j \in S : k_1 = j \/ KeyBefore(k_1, j)
  BY <1>3
<1> QED
  BY <1>4 DEF Least

-----------------------------------------------------------------------------
(* What a list shows *)

ListLines == [name : Names, dir : BOOLEAN, count : Nat]

\* Sorting numbers gives numbers of theirs.
LEMMA SortedIs ==
  ASSUME NEW S \in SUBSET Names, IsFiniteSet(S)
  PROVE  Cardinality(S) \in Nat /\ \A i \in 1..Cardinality(S) : Sorted(S)[i] \in S
<1> DEFINE R == {p \in S \X S : p[1] < p[2]}
<1>0. Cardinality(S) \in Nat /\ S \in SUBSET Nat
  BY FS_CardinalityType, NamesAssumption
<1>1. \A m, n \in S : m \in Nat /\ n \in Nat /\ (<<m, n>> \in R <=> m < n)
  BY <1>0
<1> HIDE DEF R
<1>2. Orders(R, S)
  BY <1>1 DEF Orders
<1>3. Ranked(S, R) \in Seq(S) /\ Len(Ranked(S, R)) = Cardinality(S)
  BY <1>2, RankedIs
<1>4. Sorted(S) = Ranked(S, R)
  BY DEF Sorted, R
<1> QED
  BY <1>0, <1>3, <1>4

\* The names at one level of finitely many keys.
LEMMA NamesAt ==
  ASSUME NEW K \in SUBSET Paths, IsFiniteSet(K), NEW level \in Nat, \A k \in K : level \in 1..Len(k)
  PROVE  LET N == {k[level] : k \in K} IN N \in SUBSET Names /\ IsFiniteSet(N)
<1> DEFINE N == {k[level] : k \in K}
           f == [k \in K |-> k[level]]
<1>1. N \in SUBSET Names
  BY Segments
<1>2. f \in Surjection(K, N)
  BY DEF Surjection
<1> HIDE DEF f, N
<1>3. IsFiniteSet(N)
  BY <1>2, FS_Surjection
<1> QED
  BY <1>1, <1>3 DEF N

\* Each line of a list is a directory with something in it, or a key.
LEMMA EntriesAre ==
  ASSUME NEW keys \in SUBSET Paths, IsFiniteSet(keys), NEW p \in Paths, NEW all
  PROVE  LET E == EntriesOf(keys, p, all)
         IN  /\ E \in Seq(ListLines)
             /\ \A i \in 1..Len(E) :
                  /\ E[i].dir => \E k \in keys : Under(Append(p, E[i].name), k)
                  /\ ~E[i].dir => Append(p, E[i].name) \in keys
<1> DEFINE level  == Len(p) + 1
           inside == {k \in keys : Under(p, k) /\ (all \/ k[level] \notin HiddenNames)}
           above  == {k \in inside : Len(k) > level}
           at     == {k \in inside : Len(k) = level}
           dirs   == {k[level] : k \in above}
           files  == {k[level] : k \in at}
           Count(d) == Cardinality({k \in keys : Under(Append(p, d), k)})
           Dir(d)   == [name |-> d, dir |-> TRUE, count |-> Count(d)]
           File(f)  == [name |-> f, dir |-> FALSE, count |-> 0]
           A == [i \in 1..Cardinality(dirs) |-> Dir(Sorted(dirs)[i])]
           B == [i \in 1..Cardinality(files) |-> File(Sorted(files)[i])]
           E == EntriesOf(keys, p, all)
<1>1. E = A \o B
  BY DEF EntriesOf
<1>2. \A k \in inside : k \in keys /\ k \in Paths /\ Under(p, k) /\ level \in 1..Len(k)
  <2> SUFFICES ASSUME NEW k \in keys, Under(p, k) PROVE k \in Paths /\ level \in 1..Len(k)
    OBVIOUS
  <2>1. Len(k) > Len(p) /\ Len(p) \in Nat /\ Len(k) \in Nat
    BY Segments DEF Under
  <2> QED
    BY <2>1
<1>3. above \in SUBSET keys /\ at \in SUBSET keys /\ level \in Nat
  BY Segments
<1>4. IsFiniteSet(above) /\ IsFiniteSet(at)
  <2> HIDE DEF above, at
  <2> QED
    BY <1>3, FS_Subset
<1>5. dirs \in SUBSET Names /\ IsFiniteSet(dirs)
  <2>1. \A k \in above : level \in 1..Len(k)
    BY <1>2
  <2> HIDE DEF above, level
  <2> QED
    BY <1>3, <1>4, <2>1, NamesAt
<1>6. files \in SUBSET Names /\ IsFiniteSet(files)
  <2>1. \A k \in at : level \in 1..Len(k)
    BY <1>2
  <2> HIDE DEF at, level
  <2> QED
    BY <1>3, <1>4, <2>1, NamesAt
<1>7. \A d \in dirs : \E k \in keys : Under(Append(p, d), k)
  <2> SUFFICES ASSUME NEW k \in above PROVE \E l \in keys : Under(Append(p, k[level]), l)
    OBVIOUS
  <2>1. k \in keys /\ k \in Paths /\ Under(p, k) /\ Len(k) > Len(p) + 1
    OBVIOUS
  <2> HIDE DEF above
  <2> QED
    BY <2>1, UnderEntry
<1>8. \A f \in files : Append(p, f) \in keys
  <2> SUFFICES ASSUME NEW k \in at PROVE Append(p, k[level]) \in keys
    OBVIOUS
  <2>1. k \in keys /\ k \in Paths /\ Under(p, k) /\ Len(k) = Len(p) + 1
    OBVIOUS
  <2> HIDE DEF at
  <2> QED
    BY <2>1, FileEntry
<1> HIDE DEF dirs, files, level, inside, above, at
<1>9. \A d \in dirs : Count(d) \in Nat
  <2> SUFFICES ASSUME NEW d \in dirs PROVE Cardinality({k \in keys : Under(Append(p, d), k)}) \in Nat
    OBVIOUS
  <2>1. {k \in keys : Under(Append(p, d), k)} \in SUBSET keys
    OBVIOUS
  <2>2. IsFiniteSet({k \in keys : Under(Append(p, d), k)})
    BY <2>1, FS_Subset
  <2> QED
    BY <2>2, FS_CardinalityType
<1> DEFINE m == Cardinality(dirs)
           n == Cardinality(files)
<1>10. m \in Nat /\ \A i \in 1..m : Sorted(dirs)[i] \in dirs
  BY <1>5, SortedIs
<1>11. n \in Nat /\ \A i \in 1..n : Sorted(files)[i] \in files
  BY <1>6, SortedIs
<1> HIDE DEF Count
<1>12. \A i \in 1..m : A[i] \in ListLines /\ A[i].dir /\ A[i].name \in dirs
  <2> SUFFICES ASSUME NEW i \in 1..m PROVE A[i] \in ListLines /\ A[i].dir /\ A[i].name \in dirs
    OBVIOUS
  <2>1. Sorted(dirs)[i] \in dirs /\ Sorted(dirs)[i] \in Names /\ Count(Sorted(dirs)[i]) \in Nat
    BY <1>5, <1>9, <1>10
  <2>2. A[i] = [name |-> Sorted(dirs)[i], dir |-> TRUE, count |-> Count(Sorted(dirs)[i])]
    OBVIOUS
  <2> HIDE DEF A
  <2> QED
    BY <2>1, <2>2 DEF ListLines
<1>13. \A i \in 1..n : B[i] \in ListLines /\ ~B[i].dir /\ B[i].name \in files
  <2> SUFFICES ASSUME NEW i \in 1..n PROVE B[i] \in ListLines /\ ~B[i].dir /\ B[i].name \in files
    OBVIOUS
  <2>1. Sorted(files)[i] \in files /\ Sorted(files)[i] \in Names
    BY <1>6, <1>11
  <2>2. B[i] = [name |-> Sorted(files)[i], dir |-> FALSE, count |-> 0]
    OBVIOUS
  <2> HIDE DEF B
  <2> QED
    BY <2>1, <2>2 DEF ListLines
<1>14. A \in Seq(ListLines) /\ Len(A) = m /\ B \in Seq(ListLines) /\ Len(B) = n
  <2>1. A \in [1..m -> ListLines] /\ B \in [1..n -> ListLines]
    <3>1. DOMAIN A = 1..m /\ A = [i \in 1..m |-> A[i]]
      OBVIOUS
    <3>2. DOMAIN B = 1..n /\ B = [i \in 1..n |-> B[i]]
      OBVIOUS
    <3> HIDE DEF A, B, m, n
    <3> QED
      BY <3>1, <3>2, <1>12, <1>13
  <2> HIDE DEF A, B, m, n
  <2> QED
    BY <2>1, <1>10, <1>11
<1> HIDE DEF A, B, m, n, E
<1>15. E \in Seq(ListLines) /\ Len(E) = m + n
       /\ \A i \in 1..(m + n) : E[i] = IF i <= m THEN A[i] ELSE B[i - m]
  BY <1>1, <1>14, ConcatProperties
<1>16. ASSUME NEW i \in 1..Len(E)
       PROVE  /\ E[i].dir => \E k \in keys : Under(Append(p, E[i].name), k)
              /\ ~E[i].dir => Append(p, E[i].name) \in keys
  <2>1. CASE i <= m
    <3>1. i \in 1..m /\ E[i] = A[i]
      BY <1>15, <1>10, <1>11, <2>1
    <3> QED
      BY <3>1, <1>12, <1>7
  <2>2. CASE ~(i <= m)
    <3>1. i - m \in 1..n /\ E[i] = B[i - m]
      BY <1>15, <1>10, <1>11, <2>2
    <3> QED
      BY <3>1, <1>13, <1>8
  <2> QED
    BY <2>1, <2>2
<1> QED
  BY <1>15, <1>16 DEF E

\* A filter leaves lines of the list.
LEMMA MatchingIs ==
  ASSUME NEW list \in Seq(ListLines), NEW filter
  PROVE  /\ Matching(list, filter) \in Seq(ListLines)
         /\ \A i \in 1..Len(Matching(list, filter)) :
              \E a \in 1..Len(list) : Matching(list, filter)[i] = list[a]
<1>1. CASE filter = NoQuery
  <2>1. Matching(list, filter) = list
    BY <1>1 DEF Matching
  <2> QED
    BY <2>1
<1>2. CASE filter # NoQuery
  <2> DEFINE T == {e \in Range(list) : e.name = filter}
             R == ListLines \X ListLines
  <2>1. Matching(list, filter) = Kept(list, T)
    BY <1>2 DEF Matching
  <2>2. \A a, b \in 1..Len(list) : a < b => <<list[a], list[b]>> \in R
    BY ElementOfSeq
  <2> HIDE DEF T, R
  <2>3. /\ Kept(list, T) \in Seq(ListLines)
        /\ \A j \in 1..Len(Kept(list, T)) : Kept(list, T)[j] \in T /\ \E a \in 1..Len(list) : Kept(list, T)[j] = list[a]
        /\ \A a \in 1..Len(list) : list[a] \in T => \E j \in 1..Len(Kept(list, T)) : Kept(list, T)[j] = list[a]
        /\ \A j, k \in 1..Len(Kept(list, T)) : j < k => <<Kept(list, T)[j], Kept(list, T)[k]>> \in R
    BY <2>2, KeptIs, Zenon
  <2> QED
    BY <2>1, <2>3
<1> QED
  BY <1>1, <1>2

\* A clamped position is on a line.
LEMMA ClampIs ==
  ASSUME NEW list \in Seq(ListLines), NEW i \in Nat
  PROVE  Clamp(i, list) \in Nat /\ InRange(Clamp(i, list), list)
<1>1. Len(list) \in Nat /\ (list # <<>> => Len(list) # 0)
  BY EmptySeq
<1> QED
  BY <1>1 DEF Clamp, InRange

\* The first line is there, or the list is empty.
LEMMA FirstIs ==
  ASSUME NEW list \in Seq(ListLines)
  PROVE  InRange(0, list)
  BY EmptySeq DEF InRange

\* What is remembered is a position.
LEMMA RememberedIs ==
  ASSUME NEW pos, PositionsOK(pos), NEW at
  PROVE  Remembered(pos, at) \in Nat
  BY DEF PositionsOK, Remembered

\* Remembering one more keeps them positions.
LEMMA RememberIs ==
  ASSUME NEW pos, PositionsOK(pos), NEW at, NEW i \in Nat
  PROVE  PositionsOK(Remember(pos, at, i))
  BY DEF PositionsOK, Remember

\* The lists of the client have lines.
LEMMA ListsAre ==
  ASSUME NEW keys \in SUBSET Paths, IsFiniteSet(keys), NEW p \in Paths, NEW all, NEW q
  PROVE  /\ EntriesOf(keys, p, all) \in Seq(ListLines)
         /\ EntriesOf(Filtered(keys, q), p, all) \in Seq(ListLines)
         /\ LocalEntries(p, all) \in Seq(ListLines)
         /\ Matching(LocalEntries(p, all), q) \in Seq(ListLines)
<1>1. EntriesOf(keys, p, all) \in Seq(ListLines)
  BY EntriesAre
<1>2. Filtered(keys, q) \in SUBSET keys /\ Filtered(keys, q) \in SUBSET Paths
  BY DEF Filtered
<1>3. IsFiniteSet(Filtered(keys, q))
  BY <1>2, FS_Subset
<1>4. EntriesOf(Filtered(keys, q), p, all) \in Seq(ListLines)
  BY <1>2, <1>3, EntriesAre
<1>5. LocalFiles \in SUBSET Paths /\ IsFiniteSet(LocalFiles)
  BY FilesAssumption DEF Paths
<1>6. LocalEntries(p, all) \in Seq(ListLines)
  BY <1>5, EntriesAre DEF LocalEntries
<1> QED
  BY <1>1, <1>4, <1>6, MatchingIs

\* The line the cursor is on in the list, and what it stands for.
LEMMA EntryIs ==
  ASSUME NEW keys \in SUBSET Paths, IsFiniteSet(keys), NEW p \in Paths, NEW all, NEW q,
         NEW i \in Nat, EntriesOf(Filtered(keys, q), p, all) # <<>>,
         InRange(i, EntriesOf(Filtered(keys, q), p, all))
  PROVE  LET e == EntriesOf(Filtered(keys, q), p, all)[i + 1]
         IN  e \in ListLines /\ Append(p, e.name) \in Paths
<1> DEFINE E == EntriesOf(Filtered(keys, q), p, all)
<1>1. E \in Seq(ListLines) /\ Len(E) \in Nat /\ i < Len(E)
  BY ListsAre, EmptySeq DEF InRange
<1>2. i + 1 \in 1..Len(E)
  BY <1>1
<1> HIDE DEF E
<1>3. E[i + 1] \in ListLines
  BY <1>1, <1>2, ElementOfSeq
<1>4. E[i + 1].name \in Names
  BY <1>3 DEF ListLines
<1>5. Append(p, E[i + 1].name) \in Paths
  BY <1>4 DEF Paths
<1> QED
  BY <1>3, <1>5 DEF E

\* The line the cursor is on in the browser of local files: a directory with
\* files in it, or a file.
LEMMA LocalEntryIs ==
  ASSUME NEW p \in Paths, NEW all, NEW filter, NEW i \in Nat,
         Matching(LocalEntries(p, all), filter) # <<>>, InRange(i, Matching(LocalEntries(p, all), filter))
  PROVE  LET e == Matching(LocalEntries(p, all), filter)[i + 1]
         IN  /\ e \in ListLines /\ Append(p, e.name) \in Paths
             /\ e.dir => \E f \in LocalFiles : Under(Append(p, e.name), f)
             /\ ~e.dir => Append(p, e.name) \in LocalFiles
<1> DEFINE E == LocalEntries(p, all)
           M == Matching(E, filter)
<1>0. LocalFiles \in SUBSET Paths /\ IsFiniteSet(LocalFiles)
  BY FilesAssumption DEF Paths
<1>1. /\ E \in Seq(ListLines)
      /\ \A j \in 1..Len(E) :
           /\ E[j].dir => \E f \in LocalFiles : Under(Append(p, E[j].name), f)
           /\ ~E[j].dir => Append(p, E[j].name) \in LocalFiles
  BY <1>0, EntriesAre DEF LocalEntries
<1> HIDE DEF E
<1>2. M \in Seq(ListLines) /\ \A j \in 1..Len(M) : \E a \in 1..Len(E) : M[j] = E[a]
  BY <1>1, MatchingIs
<1>3. Len(M) \in Nat /\ i < Len(M)
  BY <1>2, EmptySeq DEF InRange, E
<1>4. i + 1 \in 1..Len(M)
  BY <1>3
<1> HIDE DEF M
<1>5. PICK a \in 1..Len(E) : M[i + 1] = E[a]
  BY <1>2, <1>4
<1>6. E[a] \in ListLines /\ Append(p, E[a].name) \in Paths
  <2>1. E[a] \in ListLines
    BY <1>1, ElementOfSeq
  <2>2. E[a].name \in Names
    BY <2>1 DEF ListLines
  <2> QED
    BY <2>1, <2>2 DEF Paths
<1>7. /\ M[i + 1] \in ListLines /\ Append(p, M[i + 1].name) \in Paths
      /\ M[i + 1].dir => \E f \in LocalFiles : Under(Append(p, M[i + 1].name), f)
      /\ ~M[i + 1].dir => Append(p, M[i + 1].name) \in LocalFiles
  BY <1>1, <1>5, <1>6
<1> QED
  BY <1>7 DEF M, E

-----------------------------------------------------------------------------
(* Text fields *)

WidthsOf(t) == [i \in 1..Len(t) |-> Width[t[i]]]

\* The bytes before a place are a sum of widths.
LEMMA BytesAreSum ==
  ASSUME NEW t \in Paths, NEW n \in 0..Len(t)
  PROVE  /\ Weights(WidthsOf(t), 1..n) /\ IsFiniteSet(1..n) /\ 1..n \subseteq 1..Len(t)
         /\ \E g : IsSum(g, WidthsOf(t), 1..n) /\ BytesTo(t, n) = g[1..n]
<1> DEFINE D == 1..n
           w == WidthsOf(t)
           f == CHOOSE f : f = [s \in SUBSET D |-> IF s = {} THEN 0
                  ELSE Width[t[CHOOSE x \in s : TRUE]] + f[s \ {CHOOSE x \in s : TRUE}]]
<1>0. Len(t) \in Nat /\ D \subseteq 1..Len(t) /\ IsFiniteSet(D)
  BY Segments, FS_Interval
<1>1. \A i \in 1..Len(t) : w[i] = Width[t[i]] /\ Width[t[i]] \in Nat
  BY Segments, WidthAssumption DEF WidthsOf
<1>2. Weights(w, D)
  BY <1>0, <1>1 DEF Weights
<1>3. BytesTo(t, n) = f[D]
  BY DEF BytesTo, MapThenSumSet, MapThenFoldSet
<1> HIDE DEF w, D, f
<1>4. PICK g : IsSum(g, w, D)
  BY <1>0, <1>2, SumsExist
<1> DEFINE a(h) == [s \in SUBSET D |-> IF s = {} THEN 0
                     ELSE Width[t[CHOOSE x \in s : TRUE]] + h[s \ {CHOOSE x \in s : TRUE}]]
           b(h) == [s \in SUBSET D |-> IF s = {} THEN 0 ELSE w[Picked(s)] + h[s \ {Picked(s)}]]
<1>5. ASSUME NEW h PROVE a(h) = b(h)
  <2>1. ASSUME NEW s \in SUBSET D PROVE a(h)[s] = b(h)[s]
    <3>1. CASE s = {}
      BY <3>1
    <3>2. CASE s # {}
      <4>1. (CHOOSE x \in s : TRUE) = Picked(s) /\ Picked(s) \in s
        BY <3>2 DEF Picked
      <4>2. Picked(s) \in 1..Len(t)
        BY <4>1, <1>0
      <4>3. w[Picked(s)] = Width[t[Picked(s)]]
        BY <4>2, <1>1
      <4>4. a(h)[s] = Width[t[CHOOSE x \in s : TRUE]] + h[s \ {CHOOSE x \in s : TRUE}]
        BY <3>2
      <4>5. b(h)[s] = w[Picked(s)] + h[s \ {Picked(s)}]
        BY <3>2
      <4> HIDE DEF a, b
      <4> QED
        BY <4>1, <4>3, <4>4, <4>5
    <3> QED
      BY <3>1, <3>2
  <2> QED
    BY <2>1
<1>6. g = a(g)
  <2>1. g = b(g)
    BY <1>4 DEF IsSum
  <2> HIDE DEF a, b
  <2> QED
    BY <2>1, <1>5
<1>7. f = a(f)
  BY <1>6 DEF f
<1>8. IsSum(f, w, D)
  <2>1. f = b(f)
    <3> HIDE DEF a, b
    <3> QED
      BY <1>5, <1>7
  <2> QED
    BY <2>1 DEF IsSum
<1> QED
  BY <1>0, <1>2, <1>3, <1>8 DEF D, w

\* There are none before the first character,
LEMMA BytesZero ==
  ASSUME NEW t \in Paths
  PROVE  BytesTo(t, 0) = 0
<1>1. 0 \in 0..Len(t) /\ 1..0 = {}
  BY Segments
<1>2. PICK g : IsSum(g, WidthsOf(t), 1..0) /\ BytesTo(t, 0) = g[1..0]
  BY <1>1, BytesAreSum
<1>3. g[{}] = 0
  BY <1>2, SumsEmpty
<1> QED
  BY <1>1, <1>2, <1>3

\* every character adds its width,
LEMMA BytesNext ==
  ASSUME NEW t \in Paths, NEW n \in Nat, n + 1 \in 1..Len(t)
  PROVE  BytesTo(t, n + 1) = BytesTo(t, n) + Width[t[n + 1]]
<1>0. n \in 0..Len(t) /\ n + 1 \in 0..Len(t) /\ 1..(n + 1) = 1..n \cup {n + 1} /\ n + 1 \notin 1..n
      /\ 1..n \in SUBSET (1..(n + 1)) /\ n + 1 \in 1..(n + 1) /\ 1..n \in SUBSET (1..n)
  BY Segments
<1>1. PICK g : IsSum(g, WidthsOf(t), 1..n) /\ BytesTo(t, n) = g[1..n]
  BY <1>0, BytesAreSum
<1>2. PICK h : IsSum(h, WidthsOf(t), 1..(n + 1)) /\ BytesTo(t, n + 1) = h[1..(n + 1)]
  BY <1>0, BytesAreSum
<1>3. Weights(WidthsOf(t), 1..n) /\ IsFiniteSet(1..n) /\ Weights(WidthsOf(t), 1..(n + 1)) /\ IsFiniteSet(1..(n + 1))
  BY <1>0, BytesAreSum
<1>4. g[1..n] = h[1..n] /\ g[1..n] \in Nat
  BY <1>0, <1>1, <1>2, <1>3, SumsAgree
<1>5. h[1..n \cup {n + 1}] = WidthsOf(t)[n + 1] + h[1..n]
  <2> DEFINE D == 1..(n + 1)
             w == WidthsOf(t)
  <2>0. 1..n \in SUBSET D /\ n + 1 \in D /\ n + 1 \notin 1..n /\ IsSum(h, w, D) /\ Weights(w, D) /\ IsFiniteSet(D)
    BY <1>0, <1>2, <1>3
  <2> HIDE DEF D, w
  <2>1. \A T \in SUBSET D, x \in D : x \notin T => h[T \cup {x}] = w[x] + h[T]
    BY <2>0, SumsAdd
  <2>2. h[1..n \cup {n + 1}] = w[n + 1] + h[1..n]
    BY <2>0, <2>1
  <2> QED
    BY <2>2 DEF w
<1>6. WidthsOf(t)[n + 1] = Width[t[n + 1]]
  BY DEF WidthsOf
<1>7. Width[t[n + 1]] \in Nat
  BY Segments, WidthAssumption
<1>8. BytesTo(t, n + 1) = h[1..n \cup {n + 1}] /\ BytesTo(t, n) = h[1..n] /\ h[1..n] \in Nat
  BY <1>0, <1>1, <1>2, <1>4
<1> QED
  BY <1>5, <1>6, <1>7, <1>8

\* and what is behind the place does not count.
LEMMA BytesAgree ==
  ASSUME NEW t \in Paths, NEW u \in Paths, NEW n \in Nat, n <= Len(t), n <= Len(u),
         \A i \in 1..n : t[i] = u[i]
  PROVE  BytesTo(t, n) = BytesTo(u, n)
<1>0. n \in 0..Len(t) /\ n \in 0..Len(u) /\ 1..n \in SUBSET (1..n) /\ 1..n \subseteq 1..Len(t) /\ 1..n \subseteq 1..Len(u)
  BY Segments
<1>1. PICK g : IsSum(g, WidthsOf(t), 1..n) /\ BytesTo(t, n) = g[1..n]
  BY <1>0, BytesAreSum
<1>2. PICK h : IsSum(h, WidthsOf(u), 1..n) /\ BytesTo(u, n) = h[1..n]
  BY <1>0, BytesAreSum
<1>3. Weights(WidthsOf(t), 1..n) /\ IsFiniteSet(1..n)
  BY <1>0, BytesAreSum
<1>4. \A i \in 1..n : WidthsOf(u)[i] = WidthsOf(t)[i]
  BY <1>0 DEF WidthsOf
<1>5. g[1..n] = h[1..n]
  BY <1>0, <1>1, <1>2, <1>3, <1>4, SumsAgree
<1> QED
  BY <1>1, <1>2, <1>5

\* A text without one of its characters.
LEMMA RemoveAtIs ==
  ASSUME NEW t \in Paths, NEW i \in 1..Len(t)
  PROVE  /\ RemoveAt(t, i) \in Paths /\ Len(RemoveAt(t, i)) = Len(t) - 1
         /\ \A j \in 1..(i - 1) : RemoveAt(t, i)[j] = t[j]
<1> DEFINE a == SubSeq(t, 1, i - 1)
           b == SubSeq(t, i + 1, Len(t))
<1>0. Len(t) \in Nat /\ i - 1 \in Nat /\ i - 1 <= Len(t) /\ i \in Nat /\ i <= Len(t) /\ t \in Seq(Names)
  BY Segments DEF Paths
<1>1. a \in Seq(Names) /\ Len(a) = i - 1 /\ \A j \in 1..(i - 1) : a[j] = t[j]
  <2>1. SubSeq(t, 0 + 1, i - 1) \in Seq(Names) /\ Len(SubSeq(t, 0 + 1, i - 1)) = (i - 1) - 0
        /\ \A j \in 1..((i - 1) - 0) : SubSeq(t, 0 + 1, i - 1)[j] = t[0 + j]
    BY <1>0, PartIs
  <2> QED
    BY <2>1, <1>0
<1>2. b \in Seq(Names) /\ Len(b) = Len(t) - i
  BY <1>0, PartIs
<1>3. RemoveAt(t, i) = a \o b
  BY DEF RemoveAt
<1> HIDE DEF a, b
<1>4. a \o b \in Seq(Names) /\ Len(a \o b) = Len(t) - 1 /\ \A j \in 1..(i - 1) : (a \o b)[j] = a[j]
  <2>1. /\ a \o b \in Seq(Names) /\ Len(a \o b) = Len(a) + Len(b)
        /\ \A j \in 1..(Len(a) + Len(b)) : (a \o b)[j] = IF j <= Len(a) THEN a[j] ELSE b[j - Len(a)]
    BY <1>1, <1>2, ConcatProperties
  <2>2. Len(a) + Len(b) = Len(t) - 1 /\ \A j \in 1..(i - 1) : j \in 1..(Len(a) + Len(b)) /\ j <= Len(a)
    BY <1>0, <1>1, <1>2
  <2> QED
    BY <2>1, <2>2
<1> QED
  BY <1>1, <1>3, <1>4 DEF Paths

\* A text with one character more.
LEMMA InsertAtIs ==
  ASSUME NEW t \in Paths, NEW i \in 1..(Len(t) + 1), NEW c \in Names
  PROVE  /\ InsertAt(t, i, c) \in Paths /\ Len(InsertAt(t, i, c)) = Len(t) + 1
         /\ InsertAt(t, i, c)[i] = c /\ \A j \in 1..(i - 1) : InsertAt(t, i, c)[j] = t[j]
<1> DEFINE a == SubSeq(t, 1, i - 1)
           b == SubSeq(t, i, Len(t))
           ac == a \o <<c>>
<1>0. Len(t) \in Nat /\ i - 1 \in Nat /\ i - 1 <= Len(t) /\ i \in Nat /\ t \in Seq(Names) /\ (i - 1) + 1 = i
  BY Segments DEF Paths
<1>1. a \in Seq(Names) /\ Len(a) = i - 1 /\ \A j \in 1..(i - 1) : a[j] = t[j]
  <2>1. SubSeq(t, 0 + 1, i - 1) \in Seq(Names) /\ Len(SubSeq(t, 0 + 1, i - 1)) = (i - 1) - 0
        /\ \A j \in 1..((i - 1) - 0) : SubSeq(t, 0 + 1, i - 1)[j] = t[0 + j]
    BY <1>0, PartIs
  <2> QED
    BY <2>1, <1>0
<1>2. b \in Seq(Names) /\ Len(b) = Len(t) - (i - 1)
  <2>1. SubSeq(t, (i - 1) + 1, Len(t)) \in Seq(Names) /\ Len(SubSeq(t, (i - 1) + 1, Len(t))) = Len(t) - (i - 1)
    BY <1>0, PartIs
  <2> QED
    BY <2>1, <1>0
<1>3. InsertAt(t, i, c) = ac \o b
  BY DEF InsertAt
<1>c. <<c>> \in Seq(Names) /\ Len(<<c>>) = 1 /\ <<c>>[1] = c
  OBVIOUS
<1> HIDE DEF a, b
<1>4. ac \in Seq(Names) /\ Len(ac) = i /\ ac[i] = c /\ \A j \in 1..(i - 1) : ac[j] = a[j]
  <2>1. /\ a \o <<c>> \in Seq(Names) /\ Len(a \o <<c>>) = Len(a) + 1
        /\ \A j \in 1..(Len(a) + 1) : (a \o <<c>>)[j] = IF j <= Len(a) THEN a[j] ELSE <<c>>[j - Len(a)]
    BY <1>1, <1>c, ConcatProperties
  <2>2. Len(a) + 1 = i /\ i \in 1..(Len(a) + 1) /\ ~(i <= Len(a)) /\ i - Len(a) = 1
    BY <1>0, <1>1
  <2>3. \A j \in 1..(i - 1) : j \in 1..(Len(a) + 1) /\ j <= Len(a)
    BY <1>0, <1>1
  <2> QED
    BY <2>1, <2>2, <2>3, <1>c
<1> HIDE DEF ac
<1>5. /\ ac \o b \in Seq(Names) /\ Len(ac \o b) = Len(t) + 1
      /\ \A j \in 1..i : (ac \o b)[j] = ac[j]
  <2>1. /\ ac \o b \in Seq(Names) /\ Len(ac \o b) = Len(ac) + Len(b)
        /\ \A j \in 1..(Len(ac) + Len(b)) : (ac \o b)[j] = IF j <= Len(ac) THEN ac[j] ELSE b[j - Len(ac)]
    BY <1>2, <1>4, ConcatProperties
  <2>2. Len(ac) + Len(b) = Len(t) + 1 /\ \A j \in 1..i : j \in 1..(Len(ac) + Len(b)) /\ j <= Len(ac)
    BY <1>0, <1>2, <1>4
  <2> QED
    BY <2>1, <2>2
<1>6. i \in 1..i /\ \A j \in 1..(i - 1) : j \in 1..i
  BY <1>0
<1> QED
  BY <1>1, <1>3, <1>4, <1>5, <1>6 DEF Paths

\* A field: a text and a cursor between two of its characters.
Field(f) == f.text \in Paths /\ OnBoundary(f)

\* The characters before the cursor.
LEMMA BeforeIs ==
  ASSUME NEW f, Field(f)
  PROVE  /\ Before(f) \in 0..Len(f.text) /\ f.cursor = BytesTo(f.text, Before(f))
         /\ Len(f.text) \in Nat /\ Before(f) \in Nat /\ Before(f) <= Len(f.text)
<1>1. Before(f) \in 0..Len(f.text) /\ f.cursor = BytesTo(f.text, Before(f))
  BY DEF Field, OnBoundary, Before
<1> QED
  BY <1>1, Segments DEF Field

\* A field filled with a path.
LEMMA FieldOfIs ==
  ASSUME NEW p \in Paths
  PROVE  Field(FieldOf(p)) /\ FieldOf(p).text = p
<1>1. Len(p) \in 0..Len(p)
  BY Segments
<1> QED
  BY <1>1 DEF Field, FieldOf, OnBoundary, Bytes

\* An empty one.
LEMMA EmptyFieldIs == Field(EmptyField) /\ EmptyField.text = <<>> /\ <<>> \in Paths
<1>1. <<>> \in Paths /\ 0 \in 0..Len(<<>>)
  BY EmptySeq DEF Paths
<1>2. BytesTo(<<>>, 0) = 0
  BY <1>1, BytesZero
<1> QED
  BY <1>1, <1>2 DEF Field, EmptyField, OnBoundary

\* Every key leaves the cursor between two characters.
LEMMA EditedIs ==
  ASSUME NEW f, Field(f), f = [text |-> f.text, cursor |-> f.cursor],
         NEW max, NEW chars \in SUBSET Names, NEW e \in EditedFully(f, max, chars)
  PROVE  Field(e)
<1> DEFINE n == Before(f)
           t == f.text
<1>0. n \in 0..Len(t) /\ f.cursor = BytesTo(t, n) /\ t \in Paths /\ Len(t) \in Nat /\ n \in Nat /\ n <= Len(t)
  BY BeforeIs DEF Field
<1> HIDE DEF n, t
<1>1. f.cursor > 0 => n - 1 \in Nat /\ n \in 1..Len(t) /\ n # 0
  BY <1>0, BytesZero
<1>2. f.cursor < Bytes(t) => n + 1 \in 1..Len(t)
  <2> SUFFICES ASSUME f.cursor < Bytes(t), n = Len(t) PROVE FALSE
    BY <1>0
  <2>1. f.cursor = Bytes(t)
    BY <1>0 DEF Bytes
  <2>2. BytesTo(t, n) \in Nat
    <3>1. PICK g : IsSum(g, WidthsOf(t), 1..n) /\ BytesTo(t, n) = g[1..n]
      BY <1>0, BytesAreSum
    <3>2. Weights(WidthsOf(t), 1..n) /\ IsFiniteSet(1..n) /\ 1..n \in SUBSET (1..n)
      BY <1>0, BytesAreSum
    <3>3. g[1..n] \in Nat
      BY <3>1, <3>2, SumsAgree
    <3> QED
      BY <3>1, <3>3
  <2> QED
    BY <2>1, <2>2, <1>0
<1>3. CASE e = Backspace(f) /\ f.cursor > 0
  <2>1. e = [text |-> RemoveAt(t, n), cursor |-> BytesTo(t, n - 1)]
    BY <1>3 DEF Backspace, n, t
  <2>2. /\ RemoveAt(t, n) \in Paths /\ Len(RemoveAt(t, n)) = Len(t) - 1
        /\ \A j \in 1..(n - 1) : RemoveAt(t, n)[j] = t[j]
    BY <1>1, <1>3, <1>0, RemoveAtIs
  <2>3. n - 1 \in 0..Len(RemoveAt(t, n)) /\ n - 1 \in Nat /\ n - 1 <= Len(t) /\ n - 1 <= Len(RemoveAt(t, n))
    BY <2>2, <1>0, <1>1, <1>3
  <2>4. BytesTo(RemoveAt(t, n), n - 1) = BytesTo(t, n - 1)
    BY <2>2, <2>3, <1>0, BytesAgree
  <2> QED
    BY <2>1, <2>2, <2>3, <2>4 DEF Field, OnBoundary
<1>4. CASE e = DeleteChar(f) /\ f.cursor < Bytes(t)
  <2>1. e = [text |-> RemoveAt(t, n + 1), cursor |-> f.cursor]
    BY <1>4 DEF DeleteChar, n, t
  <2>2. /\ RemoveAt(t, n + 1) \in Paths /\ Len(RemoveAt(t, n + 1)) = Len(t) - 1
        /\ \A j \in 1..((n + 1) - 1) : RemoveAt(t, n + 1)[j] = t[j]
    BY <1>2, <1>4, <1>0, RemoveAtIs
  <2>3. n \in 0..Len(RemoveAt(t, n + 1)) /\ n <= Len(RemoveAt(t, n + 1)) /\ (n + 1) - 1 = n
    BY <2>2, <1>0, <1>2, <1>4
  <2>4. BytesTo(RemoveAt(t, n + 1), n) = BytesTo(t, n)
    BY <2>2, <2>3, <1>0, BytesAgree
  <2> QED
    BY <2>1, <2>2, <2>3, <2>4, <1>0 DEF Field, OnBoundary
<1>5. CASE e = MoveLeft(f) /\ f.cursor > 0
  <2>1. e.text = t /\ e.cursor = BytesTo(t, n - 1)
    BY <1>5 DEF MoveLeft, n, t
  <2>2. n - 1 \in 0..Len(t)
    BY <1>0, <1>1, <1>5
  <2> QED
    BY <2>1, <2>2, <1>0 DEF Field, OnBoundary
<1>6. CASE e = MoveRight(f) /\ f.cursor < Bytes(t)
  <2>1. e.text = t /\ e.cursor = BytesTo(t, n + 1)
    BY <1>6 DEF MoveRight, n, t
  <2>2. n + 1 \in 0..Len(t)
    BY <1>0, <1>2, <1>6
  <2> QED
    BY <2>1, <2>2, <1>0 DEF Field, OnBoundary
<1>7. ASSUME NEW c \in chars, e = InsertChar(f, c) PROVE Field(e)
  <2> DEFINE u == InsertAt(t, n + 1, c)
  <2>1. e = [text |-> u, cursor |-> f.cursor + Width[c]]
    BY <1>7 DEF InsertChar, n, t
  <2>2. n + 1 \in 1..(Len(t) + 1) /\ c \in Names /\ (n + 1) - 1 = n
    BY <1>0
  <2>3. /\ u \in Paths /\ Len(u) = Len(t) + 1 /\ u[n + 1] = c
        /\ \A j \in 1..((n + 1) - 1) : u[j] = t[j]
    BY <2>2, <1>0, InsertAtIs
  <2> HIDE DEF u
  <2>4. n <= Len(u) /\ n + 1 \in 0..Len(u) /\ n + 1 \in 1..Len(u)
    BY <2>3, <1>0
  <2>5. BytesTo(u, n) = BytesTo(t, n)
    BY <2>2, <2>3, <2>4, <1>0, BytesAgree
  <2>6. BytesTo(u, n + 1) = BytesTo(u, n) + Width[u[n + 1]]
    BY <2>3, <2>4, <1>0, BytesNext
  <2>7. BytesTo(u, n + 1) = f.cursor + Width[c]
    BY <2>3, <2>5, <2>6, <1>0
  <2> QED
    BY <2>1, <2>3, <2>4, <2>7 DEF Field, OnBoundary
<1>8. CASE e = [f EXCEPT !.cursor = 0]
  <2>1. e.text = t /\ e.cursor = 0
    BY <1>8 DEF t
  <2>2. 0 \in 0..Len(t) /\ BytesTo(t, 0) = 0
    BY <1>0, BytesZero
  <2> QED
    BY <2>1, <2>2, <1>0 DEF Field, OnBoundary
<1>9. CASE e = [f EXCEPT !.cursor = Bytes(f.text)]
  <2>1. e.text = t /\ e.cursor = BytesTo(t, Len(t))
    BY <1>9 DEF t, Bytes
  <2>2. Len(t) \in 0..Len(t)
    BY <1>0
  <2> QED
    BY <2>1, <2>2, <1>0 DEF Field, OnBoundary
<1>10. CASE e = f
  BY <1>10
<1>11. \/ e \in {Backspace(f), DeleteChar(f), MoveLeft(f), MoveRight(f)}
       \/ \E c \in chars : e = InsertChar(f, c)
       \/ e = [f EXCEPT !.cursor = 0] \/ e = [f EXCEPT !.cursor = Bytes(f.text)]
  <2>1. e \in Edited(f, max, chars) \cup {[f EXCEPT !.cursor = 0], [f EXCEPT !.cursor = Bytes(f.text)]}
    BY DEF EditedFully
  <2>2. CASE e \in Edited(f, max, chars)
    <3>1. CASE e \in {Backspace(f), DeleteChar(f), MoveLeft(f), MoveRight(f)}
      BY <3>1
    <3>2. CASE e \notin {Backspace(f), DeleteChar(f), MoveLeft(f), MoveRight(f)}
      <4>1. e \in (IF Len(f.text) < max THEN {InsertChar(f, c) : c \in chars} ELSE {})
        BY <2>2, <3>2 DEF Edited
      <4> QED
        BY <4>1
    <3> QED
      BY <3>1, <3>2
  <2> QED
    BY <2>1, <2>2
<1>12. /\ ~(f.cursor > 0) => Backspace(f) = f /\ MoveLeft(f) = f
       /\ ~(f.cursor < Bytes(t)) => DeleteChar(f) = f /\ MoveRight(f) = f
  BY DEF Backspace, MoveLeft, DeleteChar, MoveRight, t
<1> QED
  BY <1>3, <1>4, <1>5, <1>6, <1>7, <1>8, <1>9, <1>10, <1>11, <1>12

\* A cursor is a number,
LEMMA BytesInNat ==
  ASSUME NEW t \in Paths, NEW n \in 0..Len(t)
  PROVE  BytesTo(t, n) \in Nat
<1>1. PICK g : IsSum(g, WidthsOf(t), 1..n) /\ BytesTo(t, n) = g[1..n]
  BY BytesAreSum
<1>2. Weights(WidthsOf(t), 1..n) /\ IsFiniteSet(1..n) /\ 1..n \in SUBSET (1..n)
  BY BytesAreSum
<1>3. g[1..n] \in Nat
  BY <1>1, <1>2, SumsAgree
<1> QED
  BY <1>1, <1>3

\* and a key makes a field of a field.
LEMMA EditedTyped ==
  ASSUME NEW f \in FieldValues, OnBoundary(f),
         NEW max, NEW chars \in SUBSET Names, NEW e \in EditedFully(f, max, chars)
  PROVE  e \in FieldValues /\ OnBoundary(e)
<1>1. Field(f) /\ f = [text |-> f.text, cursor |-> f.cursor]
  BY DEF Field, FieldValues
<1>2. Field(e)
  BY <1>1, EditedIs
<1>3. e = [text |-> e.text, cursor |-> e.cursor]
  <2>1. e \in Edited(f, max, chars) \/ e = [f EXCEPT !.cursor = 0] \/ e = [f EXCEPT !.cursor = Bytes(f.text)]
    BY DEF EditedFully
  <2>2. e \in Edited(f, max, chars) =>
          \/ e = Backspace(f) \/ e = DeleteChar(f) \/ e = MoveLeft(f) \/ e = MoveRight(f)
          \/ \E c \in chars : e = InsertChar(f, c)
    <3> SUFFICES ASSUME e \in Edited(f, max, chars),
                        ~(e = Backspace(f) \/ e = DeleteChar(f) \/ e = MoveLeft(f) \/ e = MoveRight(f))
                 PROVE  \E c \in chars : e = InsertChar(f, c)
      OBVIOUS
    <3>1. e \in (IF Len(f.text) < max THEN {InsertChar(f, c) : c \in chars} ELSE {})
      BY DEF Edited
    <3> QED
      BY <3>1
  <2>3. (e = Backspace(f) \/ e = DeleteChar(f)) => e = [text |-> e.text, cursor |-> e.cursor]
    BY <1>1 DEF Backspace, DeleteChar
  <2>4. (e = MoveLeft(f) \/ e = MoveRight(f)) => e = [text |-> e.text, cursor |-> e.cursor]
    BY <1>1 DEF MoveLeft, MoveRight
  <2>5. (\E c \in chars : e = InsertChar(f, c)) => e = [text |-> e.text, cursor |-> e.cursor]
    BY DEF InsertChar
  <2>6. (e = [f EXCEPT !.cursor = 0] \/ e = [f EXCEPT !.cursor = Bytes(f.text)])
          => e = [text |-> e.text, cursor |-> e.cursor]
    BY <1>1
  <2> QED
    BY <2>1, <2>2, <2>3, <2>4, <2>5, <2>6
<1>4. e.cursor \in Nat
  BY <1>2, BytesInNat DEF Field, OnBoundary
<1> QED
  BY <1>2, <1>3, <1>4 DEF Field, FieldValues

\* A plain line has fewer keys than a full one.
LEMMA EditedLess ==
  ASSUME NEW f, NEW max, NEW chars
  PROVE  Edited(f, max, chars) \subseteq EditedFully(f, max, chars)
  BY DEF EditedFully

\* What the dialogs fill a field with.
LEMMA FilledTyped ==
  ASSUME NEW p \in Paths
  PROVE  /\ FieldOf(p) \in FieldValues /\ OnBoundary(FieldOf(p))
         /\ EmptyField \in FieldValues /\ OnBoundary(EmptyField)
<1>1. Field(FieldOf(p)) /\ Field(EmptyField)
  BY FieldOfIs, EmptyFieldIs
<1>2. FieldOf(p).cursor \in Nat /\ EmptyField.cursor \in Nat
  BY <1>1, BytesInNat DEF Field, OnBoundary
<1> QED
  BY <1>1, <1>2 DEF Field, FieldValues, FieldOf, EmptyField

-----------------------------------------------------------------------------
(* What the invariant says of a screen *)

\* The entry under the cursor of the list.
LEMMA EntryOK ==
  ASSUME TuiInv, OnEntry
  PROVE  Entry \in ListLines /\ Entry.dir \in BOOLEAN /\ Entry.name \in Names /\ EntryPath \in Paths
<1>1. /\ items \in SUBSET Paths /\ IsFiniteSet(items) /\ prefix \in Paths /\ selected \in Nat
      /\ entries = EntriesOf(Filtered(items, query), prefix, show_hidden)
      /\ InRange(selected, entries) /\ entries # <<>>
  BY DEF TuiInv, ViewsFresh, TuiTypeOK, ListFresh, ListTypes, OnEntry
<1>2. Entry \in ListLines /\ Append(prefix, Entry.name) \in Paths
  BY <1>1, EntryIs DEF Entry
<1> QED
  BY <1>2 DEF EntryPath, ListLines

\* The line under the cursor of the browser.
LEMMA LocalOK ==
  ASSUME TuiInv, mode = "FileBrowser", OnLocal
  PROVE  /\ LocalEntry \in ListLines /\ LocalPath \in Paths /\ LocalPath # <<>>
         /\ LocalEntry.dir => \E f \in LocalFiles : Under(LocalPath, f)
         /\ ~LocalEntry.dir => LocalPath \in LocalFiles
<1>1. /\ browser_dir \in Paths /\ browser_selected \in Nat
      /\ browser_entries = Matching(LocalEntries(browser_dir, show_hidden), browser_filter)
      /\ InRange(browser_selected, browser_entries) /\ browser_entries # <<>>
  BY DEF TuiInv, ViewsFresh, TuiTypeOK, BrowsersFresh, Browsers, OnLocal
<1>2. /\ LocalEntry \in ListLines /\ Append(browser_dir, LocalEntry.name) \in Paths
      /\ LocalEntry.dir => \E f \in LocalFiles : Under(Append(browser_dir, LocalEntry.name), f)
      /\ ~LocalEntry.dir => Append(browser_dir, LocalEntry.name) \in LocalFiles
  BY <1>1, LocalEntryIs DEF LocalEntry
<1>3. Append(browser_dir, LocalEntry.name) # <<>>
  BY <1>1 DEF Paths
<1> QED
  BY <1>2, <1>3 DEF LocalPath

\* The line under the cursor of the destination browser.
LEMMA PathEntryOK ==
  ASSUME TuiInv, mode = "PathBrowser"
  PROVE  /\ path_entries \in Seq(ListLines) /\ path_selected \in Nat /\ InRange(path_selected, path_entries)
         /\ path_entries # <<>> => Append(path_prefix, path_entries[path_selected + 1].name) \in Paths
<1>1. /\ items \in SUBSET Paths /\ IsFiniteSet(items) /\ path_prefix \in Paths /\ path_selected \in Nat
      /\ path_entries = EntriesOf(items, path_prefix, TRUE) /\ InRange(path_selected, path_entries)
  BY DEF TuiInv, ViewsFresh, TuiTypeOK, BrowsersFresh, Browsers, ListTypes
<1>2. Filtered(items, NoQuery) = items
  BY DEF Filtered
<1>3. path_entries \in Seq(ListLines)
  BY <1>1, ListsAre
<1>4. path_entries # <<>> => Append(path_prefix, path_entries[path_selected + 1].name) \in Paths
  BY <1>1, <1>2, EntryIs
<1> QED
  BY <1>1, <1>3, <1>4

-----------------------------------------------------------------------------
(* Text fields and their cursors *)

FieldModes == {"RenameInput", "MkdirInput", "NewDirInput", "StoreKey"}

\* A handler that leaves the fields alone and opens no dialog.
LEMMA FieldsFrame ==
  ASSUME TuiInv, fields' = fields, mode' = mode \/ mode' \notin FieldModes
  PROVE  FieldTypes' /\ CursorsValid'
  BY DEF TuiInv, FieldTypes, CursorsValid, FieldModes, OnBoundary

\* A handler that sets a field while it opens a dialog, or none, that uses it.
LEMMA FieldsSet ==
  ASSUME TuiInv, NEW n \in FieldNames, NEW v \in FieldValues, SetField(n, v),
         mode' \in FieldModes => OnBoundary(v) /\ <<n, mode'>> \in
            {<<"rename", "RenameInput">>, <<"mkdir", "MkdirInput">>,
             <<"new_dir", "NewDirInput">>, <<"store_key", "StoreKey">>}
  PROVE  FieldTypes' /\ CursorsValid'
<1>1. fields' = [fields EXCEPT ![n] = v] /\ fields \in [FieldNames -> FieldValues]
  BY DEF TuiInv, FieldTypes, SetField
<1>2. FieldTypes' /\ fields'[n] = v
  BY <1>1 DEF FieldTypes
<1>3. CursorsValid'
  BY <1>2 DEF CursorsValid, FieldModes, OnBoundary
<1> QED
  BY <1>2, <1>3

\* A handler that takes a key of a dialog.
LEMMA FieldsEdited ==
  ASSUME TuiInv, NEW n \in FieldNames, NEW max,
         NEW S, S \subseteq EditedFully(fields[n], max, Typeable), OnBoundary(fields[n]),
         fields' \in {[fields EXCEPT ![n] = f] : f \in S}, mode' = mode,
         <<n, mode>> \in {<<"rename", "RenameInput">>, <<"mkdir", "MkdirInput">>,
                          <<"new_dir", "NewDirInput">>, <<"store_key", "StoreKey">>}
  PROVE  FieldTypes' /\ CursorsValid'
<1>1. PICK f \in S : fields' = [fields EXCEPT ![n] = f]
  OBVIOUS
<1>2. fields[n] \in FieldValues /\ Typeable \in SUBSET Names /\ f \in EditedFully(fields[n], max, Typeable)
  BY DEF TuiInv, FieldTypes, Typeable
<1>3. f \in FieldValues /\ OnBoundary(f)
  BY <1>2, EditedTyped
<1> QED
  BY <1>1, <1>3, FieldsSet DEF SetField, FieldModes

\* The empty field, and one with a cursor where it was.
LEMMA EmptyTyped == EmptyField \in FieldValues /\ OnBoundary(EmptyField)
  BY EmptyFieldIs, FilledTyped

\* Every handler keeps the cursors of the fields that take keys on characters.
LEMMA FieldsStep ==
  ASSUME TuiInv, Next
  PROVE  FieldTypes' /\ CursorsValid'
<1>1. CASE MoveSelection
  BY <1>1, FieldsFrame DEF MoveSelection, MoveTo, dialogVars
<1>2. CASE WheelElsewhere
  BY <1>2, FieldsFrame DEF WheelElsewhere, browseVars, dialogVars
<1>3. CASE BrowseInto
  BY <1>3, FieldsFrame DEF BrowseInto, dialogVars
<1>4. CASE ViewDetail
  BY <1>4, FieldsFrame DEF ViewDetail, FieldModes
<1>5. CASE BrowseUp
  BY <1>5, FieldsFrame DEF BrowseUp, dialogVars
<1>6. CASE LeaveDetail
  BY <1>6, FieldsFrame DEF LeaveDetail, FieldModes
<1>7. CASE EnterSearch
  BY <1>7, FieldsFrame DEF EnterSearch, ToMode, dialogVars, FieldModes
<1>8. CASE LeaveSearch
  BY <1>8, FieldsFrame DEF LeaveSearch, ToMode, dialogVars, FieldModes
<1>9. CASE ExecuteSearch
  BY <1>9, FieldsFrame DEF ExecuteSearch, dialogVars, FieldModes
<1>10. CASE EnterDelete
  BY <1>10, FieldsFrame DEF EnterDelete, FieldModes
<1>11. CASE RefuseDelete
  BY <1>11, FieldsFrame DEF RefuseDelete, FieldModes
<1>12. CASE ConfirmDelete
  BY <1>12, FieldsFrame DEF ConfirmDelete, dialogVars
<1>13. CASE ConfirmDeleteDir
  BY <1>13, FieldsFrame DEF ConfirmDeleteDir, dialogVars
<1>14. CASE ExecuteRename
  BY <1>14, FieldsFrame DEF ExecuteRename, FieldModes
<1>15. CASE Request
  BY <1>15, FieldsFrame DEF Request, dialogVars
<1>16. CASE AskRefresh
  BY <1>16, FieldsFrame DEF AskRefresh, dialogVars
<1>17. CASE OtherClient
  BY <1>17, FieldsFrame DEF OtherClient, dialogVars
<1>18. CASE EnterRename
  <2>1. EntryPath \in Paths /\ SetField("rename", FieldOf(EntryPath)) /\ mode' = "RenameInput"
    BY <1>18, EntryOK DEF EnterRename
  <2>2. FieldOf(EntryPath) \in FieldValues /\ OnBoundary(FieldOf(EntryPath))
    BY <2>1, FilledTyped
  <2> QED
    BY <2>1, <2>2, FieldsSet DEF FieldNames
<1>19. CASE LeaveRename
  BY <1>19, EmptyTyped, FieldsSet DEF LeaveRename, FieldNames, FieldModes
<1>20. CASE EnterMkdir
  BY <1>20, EmptyTyped, FieldsSet DEF EnterMkdir, FieldNames, FieldModes
<1>21. CASE LeaveMkdir
  BY <1>21, EmptyTyped, FieldsSet DEF LeaveMkdir, FieldNames, FieldModes
<1>22. CASE EditRename
  <2>1. OnBoundary(fields["rename"]) /\ mode = "RenameInput" /\ mode' = mode /\ "rename" \in FieldNames
    BY <1>22 DEF EditRename, Edit, Ready, TuiInv, CursorsValid, FieldNames
  <2> QED
    BY <1>22, <2>1, FieldsEdited DEF EditRename, Edit
<1>23. CASE EditMkdir
  <2>1. OnBoundary(fields["mkdir"]) /\ mode = "MkdirInput" /\ mode' = mode /\ "mkdir" \in FieldNames
    BY <1>23 DEF EditMkdir, Edit, Ready, TuiInv, CursorsValid, FieldNames
  <2> QED
    BY <1>23, <2>1, EditedLess, FieldsEdited DEF EditMkdir, Edit
<1>24. CASE ExecuteMkdir
  <2>1. CASE fields["mkdir"].text # << >> /\ connected
    BY <1>24, <2>1, FieldsFrame DEF ExecuteMkdir
  <2>2. CASE ~(fields["mkdir"].text # << >> /\ connected)
    BY <1>24, <2>2, EmptyTyped, FieldsSet DEF ExecuteMkdir, FieldNames, FieldModes
  <2> QED
    BY <2>1, <2>2
<1>25. CASE Refresh
  <2>1. Cleared
    BY <1>25 DEF Refresh
  <2>2. FieldTypes' /\ mode' = "Normal"
    BY <2>1, EmptyTyped DEF Cleared, TuiInv, FieldTypes
  <2> QED
    BY <2>2 DEF CursorsValid
<1>26. CASE NoRefresh
  <2>1. Cleared
    BY <1>26 DEF NoRefresh
  <2>2. FieldTypes' /\ mode' = "Normal"
    BY <2>1, EmptyTyped DEF Cleared, TuiInv, FieldTypes
  <2> QED
    BY <2>2 DEF CursorsValid
<1>27. CASE EnterStore
  BY <1>27, EmptyTyped, FieldsSet DEF EnterStore, FieldNames, FieldModes
<1>28. CASE BackToPathBrowser
  BY <1>28, FieldsFrame DEF BackToPathBrowser, FieldModes
<1>29. CASE PathMove
  BY <1>29, FieldsFrame DEF PathMove
<1>30. CASE PathEnter
  BY <1>30, FieldsFrame DEF PathEnter, PathGo, FieldModes
<1>31. CASE PathGoUp
  BY <1>31, FieldsFrame DEF PathGoUp, PathGo, FieldModes
<1>32. CASE EnterNewDir
  BY <1>32, EmptyTyped, FieldsSet DEF EnterNewDir, PathTo, FieldNames
<1>33. CASE EditNewDir
  <2>1. OnBoundary(fields["new_dir"]) /\ mode = "NewDirInput" /\ mode' = mode /\ "new_dir" \in FieldNames
    BY <1>33 DEF EditNewDir, PathTo, Ready, TuiInv, CursorsValid, FieldNames
  <2>2. fields' \in {[fields EXCEPT !["new_dir"] = f] : f \in Edited(fields["new_dir"], 1, Typeable)}
    BY <1>33 DEF EditNewDir, PathTo, SetField
  <2> QED
    BY <2>1, <2>2, EditedLess, FieldsEdited
<1>34. CASE LeaveNewDir
  <2>1. fields["new_dir"] \in FieldValues /\ "new_dir" \in FieldNames
    BY DEF TuiInv, FieldTypes, FieldNames
  <2> QED
    BY <1>34, <2>1, FieldsSet DEF LeaveNewDir, PathTo, FieldModes
<1>35. CASE ConfirmNewDir
  BY <1>35, FieldsFrame DEF ConfirmNewDir, PathGo, FieldModes
<1>36. CASE AdvanceToFileBrowser
  BY <1>36, FieldsFrame DEF AdvanceToFileBrowser, FieldModes
<1>37. CASE LeavePathBrowser
  <2>1. fields["store_key"] \in FieldValues /\ "store_key" \in FieldNames
    BY DEF TuiInv, FieldTypes, FieldNames
  <2> QED
    BY <1>37, <2>1, FieldsSet DEF LeavePathBrowser, PathTo, FieldModes
<1>38. CASE BrowserMove
  BY <1>38, FieldsFrame DEF BrowserMove, StaysInBrowser, FieldModes
<1>39. CASE BrowserEnter
  BY <1>39, FieldsFrame DEF BrowserEnter, BrowserGo, StaysInBrowser
<1>40. CASE BrowserGoUp
  BY <1>40, FieldsFrame DEF BrowserGoUp, BrowserGo, StaysInBrowser
<1>41. CASE SelectFile
  <2>1. OnLocal /\ mode = "FileBrowser" /\ path_prefix \in Paths
    BY <1>41 DEF SelectFile, Ready, TuiInv, Browsers
  <2>2. Append(path_prefix, LocalEntry.name) \in Paths
    BY <2>1, LocalOK DEF ListLines, Paths
  <2>3. FieldOf(Append(path_prefix, LocalEntry.name)) \in FieldValues
        /\ OnBoundary(FieldOf(Append(path_prefix, LocalEntry.name)))
    BY <2>2, FilledTyped
  <2> QED
    BY <1>41, <2>3, FieldsSet DEF SelectFile, FieldNames
<1>42. CASE ToggleMark
  BY <1>42, FieldsFrame DEF ToggleMark, StaysInBrowser
<1>43. CASE AskClearMarks
  BY <1>43, FieldsFrame DEF AskClearMarks, FileMode, StaysInBrowser, FieldModes
<1>44. CASE AnswerClearMarks
  BY <1>44, FieldsFrame DEF AnswerClearMarks, FileMode, StaysInBrowser, FieldModes
<1>45. CASE EnterFilter
  BY <1>45, FieldsFrame DEF EnterFilter, FileMode, StaysInBrowser, FieldModes
<1>46. CASE LeaveFilter
  BY <1>46, FieldsFrame DEF LeaveFilter, FileMode, StaysInBrowser, FieldModes
<1>47. CASE TypeFilter
  BY <1>47, FieldsFrame DEF TypeFilter, SetFilter, StaysInBrowser, FieldModes
<1>48. CASE LeaveFileBrowser
  <2>1. [fields["store_key"] EXCEPT !.text = << >>] \in FieldValues /\ "store_key" \in FieldNames
    BY EmptyFieldIs DEF TuiInv, FieldTypes, FieldNames, FieldValues
  <2> QED
    BY <1>48, <2>1, FieldsSet DEF LeaveFileBrowser, FieldModes
<1>49. CASE ToggleHidden
  BY <1>49, FieldsFrame DEF ToggleHidden, dialogVars
<1>50. CASE PrepareUpload
  BY <1>50, FieldsFrame DEF PrepareUpload, Stage, FieldModes
<1>51. CASE CancelPending
  BY <1>51, FieldsFrame DEF CancelPending, FieldModes
<1>52. CASE ConfirmUpload
  BY <1>52, FieldsFrame DEF ConfirmUpload, BeginUpload, FieldModes
<1>53. CASE EditStoreKey
  <2>1. OnBoundary(fields["store_key"]) /\ mode = "StoreKey" /\ mode' = mode /\ "store_key" \in FieldNames
    BY <1>53 DEF EditStoreKey, Edit, Ready, TuiInv, CursorsValid, FieldNames
  <2> QED
    BY <1>53, <2>1, FieldsEdited DEF EditStoreKey, Edit
<1>54. CASE LeaveStoreKey
  <2>1. /\ [fields["store_key"] EXCEPT !.text = << >>] \in FieldValues /\ "store_key" \in FieldNames
        /\ fields["store_key"] \in FieldValues
    BY EmptyFieldIs DEF TuiInv, FieldTypes, FieldNames, FieldValues
  <2> QED
    BY <1>54, <2>1, FieldsSet DEF LeaveStoreKey, PathTo, FieldModes
<1>55. CASE StoreFile
  <2>1. mode' \notin FieldModes
    BY <1>55 DEF StoreFile, BeginUpload, FieldModes
  <2> QED
    BY <1>55, <2>1, EmptyTyped, FieldsSet DEF StoreFile, FieldNames
<1>56. CASE WorkerStart
  BY <1>56, FieldsFrame DEF WorkerStart, WorkerKeeps, dialogVars
<1>57. CASE WorkerCannotRead
  BY <1>57, FieldsFrame DEF WorkerCannotRead, WorkerKeeps, dialogVars
<1>58. CASE WorkerSends
  BY <1>58, FieldsFrame DEF WorkerSends, WorkerKeeps, dialogVars
<1>59. CASE WorkerAnswered
  BY <1>59, FieldsFrame DEF WorkerAnswered, WorkerKeeps, dialogVars
<1>60. CASE WorkerStops
  BY <1>60, FieldsFrame DEF WorkerStops, WorkerKeeps, dialogVars
<1>61. CASE DrainEvent
  BY <1>61, FieldsFrame DEF DrainEvent, dialogVars, FieldModes
<1>62. CASE CancelUpload
  BY <1>62, FieldsFrame DEF CancelUpload, browseVars, dialogVars
<1>63. CASE Quit
  BY <1>63, FieldsFrame DEF Quit, dialogVars, FieldModes
<1> QED
  BY <1>1, <1>2, <1>3, <1>4, <1>5, <1>6, <1>7, <1>8, <1>9, <1>10, <1>11, <1>12, <1>13, <1>14, <1>15, <1>16, <1>17, <1>18, <1>19, <1>20, <1>21, <1>22, <1>23, <1>24, <1>25, <1>26, <1>27, <1>28, <1>29, <1>30, <1>31, <1>32, <1>33, <1>34, <1>35, <1>36, <1>37, <1>38, <1>39, <1>40, <1>41, <1>42, <1>43, <1>44, <1>45, <1>46, <1>47, <1>48, <1>49, <1>50, <1>51, <1>52, <1>53, <1>54, <1>55, <1>56, <1>57, <1>58, <1>59, <1>60, <1>61, <1>62, <1>63 DEF Next, Browsing, BrowseNext, Choosing, Uploads

-----------------------------------------------------------------------------
(* The browsers *)

FileModes == {"FileBrowser", "BrowserFilter", "StoreKey", "UploadConfirm", "ClearMarksConfirm"}

PathModes == {"PathBrowser", "NewDirInput"}

\* What the invariant says of the two browsers.
BrowsersOK == Browsers /\ BrowsersFresh /\ path_selected \in Nat /\ browser_selected \in Nat

\* A handler that leaves what a browser shows alone keeps it fresh.
LEMMA BrowsersFrame ==
  ASSUME TuiInv,
         UNCHANGED <<pathVars, browser_dir, browser_all, browser_entries, browser_selected,
                     browser_pos, browser_filter>>,
         marked' \subseteq marked, file' # NoFile => file' = file \/ file' \in LocalFiles,
         mode' \in FileModes => mode \in FileModes /\ show_hidden' = show_hidden,
         mode' \in PathModes => mode \in PathModes /\ items' = items
  PROVE  BrowsersOK'
<1>1. Browsers /\ BrowsersFresh /\ path_selected \in Nat /\ browser_selected \in Nat
  BY DEF TuiInv, ViewsFresh, TuiTypeOK
<1>2. IsFiniteSet(marked')
  BY <1>1, FS_Subset DEF Browsers
<1>3. Browsers'
  BY <1>1, <1>2 DEF Browsers, FileModes, pathVars
<1>4. BrowsersFresh'
  BY <1>1 DEF BrowsersFresh, FileModes, PathModes, pathVars
<1> QED
  BY <1>1, <1>3, <1>4 DEF BrowsersOK, pathVars

\* Loading a local directory.
LEMMA LoadedIs ==
  ASSUME LoadBrowserDir, browser_dir' \in Paths, PositionsOK(browser_pos')
  PROVE  /\ browser_all' = LocalEntries(browser_dir', show_hidden')
         /\ browser_entries' = Matching(LocalEntries(browser_dir', show_hidden'), browser_filter')
         /\ browser_selected' \in Nat /\ InRange(browser_selected', browser_entries')
<1>1. browser_entries' = Matching(LocalEntries(browser_dir', show_hidden'), browser_filter')
      /\ browser_selected' = Clamp(Remembered(browser_pos', browser_dir'), browser_entries')
      /\ browser_all' = LocalEntries(browser_dir', show_hidden')
  BY DEF LoadBrowserDir
<1>2. {} \in SUBSET Paths /\ IsFiniteSet({})
  BY FS_EmptySet
<1>3. browser_entries' \in Seq(ListLines)
  BY <1>1, <1>2, ListsAre
<1>4. Remembered(browser_pos', browser_dir') \in Nat
  BY RememberedIs
<1> QED
  BY <1>1, <1>3, <1>4, ClampIs

\* Loading a directory of the local list.
LEMMA PathLoadedIs ==
  ASSUME TuiInv, LoadPathEntries, path_prefix' \in Paths
  PROVE  /\ path_entries' = EntriesOf(items, path_prefix', TRUE)
         /\ path_selected' \in Nat /\ InRange(path_selected', path_entries')
<1>1. path_entries' = EntriesOf(items, path_prefix', TRUE) /\ path_selected' = 0
  BY DEF LoadPathEntries
<1>2. path_entries' \in Seq(ListLines)
  BY <1>1, ListsAre DEF TuiInv, ListTypes
<1> QED
  BY <1>1, <1>2, FirstIs

\* The parent of a path.
LEMMA ParentIs ==
  ASSUME NEW p \in Paths, p # <<>>
  PROVE  Parent(p) \in Paths /\ Len(Parent(p)) \in Nat /\ Len(Parent(p)) <= Len(p)
<1>1. Len(p) \in Nat /\ Len(p) - 1 \in Nat /\ Len(p) - 1 <= Len(p)
  BY EmptySeq DEF Paths
<1>2. SubSeq(p, 1, Len(p) - 1) \in Paths
  BY <1>1, PartsOfPaths
<1>3. Len(SubSeq(p, 1, Len(p) - 1)) = Len(p) - 1
  <2>0. p \in Seq(Names) /\ 0 \in Nat /\ 0 <= Len(p) - 1 /\ Len(p) - 1 \in Nat /\ Len(p) - 1 <= Len(p)
    BY <1>1 DEF Paths
  <2>1. Len(SubSeq(p, 0 + 1, Len(p) - 1)) = (Len(p) - 1) - 0
    BY <2>0, PartIs, ZenonT(60)
  <2> QED
    BY <2>1, <1>1
<1> QED
  BY <1>1, <1>2, <1>3 DEF Parent

\* A step of the destination browser.
LEMMA PathGone ==
  ASSUME TuiInv, NEW p \in Paths, PathGo(p)
  PROVE  BrowsersOK'
<1>1. /\ path_prefix' = p /\ LoadPathEntries /\ mode' = "PathBrowser" /\ items' = items
      /\ UNCHANGED fileVars
  BY DEF PathGo, KeepsOthers, listVars
<1>2. path_entries' = EntriesOf(items, path_prefix', TRUE) /\ path_selected' \in Nat
      /\ InRange(path_selected', path_entries')
  BY <1>1, PathLoadedIs
<1>3. Browsers /\ browser_selected \in Nat
  BY DEF TuiInv, ViewsFresh, TuiTypeOK
<1>4. Browsers'
  BY <1>1, <1>3 DEF Browsers, fileVars
<1>5. BrowsersFresh' /\ browser_selected' \in Nat
  BY <1>1, <1>2, <1>3 DEF BrowsersFresh, fileVars
<1> QED
  BY <1>2, <1>4, <1>5 DEF BrowsersOK

\* A step to another local directory.
LEMMA BrowserLoaded ==
  ASSUME TuiInv, LoadBrowserDir, browser_dir' \in Paths, PositionsOK(browser_pos'), path_prefix' \in Paths,
         path_selected' \in Nat, marked' = marked, file' = file, mode' \notin PathModes
  PROVE  BrowsersOK'
<1>1. /\ browser_all' = LocalEntries(browser_dir', show_hidden')
      /\ browser_entries' = Matching(LocalEntries(browser_dir', show_hidden'), browser_filter')
      /\ browser_selected' \in Nat /\ InRange(browser_selected', browser_entries')
  BY LoadedIs
<1>2. Browsers
  BY DEF TuiInv
<1>3. Browsers'
  BY <1>1, <1>2 DEF Browsers
<1>4. BrowsersFresh'
  BY <1>1 DEF BrowsersFresh, PathModes
<1> QED
  BY <1>1, <1>3, <1>4 DEF BrowsersOK

\* Moving about in a browser.
LEMMA MovedIs ==
  ASSUME NEW list \in Seq(ListLines), NEW i \in Nat, InRange(i, list), NEW j,
         \/ j \in {Clamp(i + 1, list)} \cup {k \in {i - 1} : i > 0}
         \/ j \in {0, Clamp(Len(list), list)}
  PROVE  j \in Nat /\ InRange(j, list)
<1>0. Len(list) \in Nat /\ i + 1 \in Nat
  OBVIOUS
<1>1. CASE j = i - 1 /\ i > 0
  BY <1>0, <1>1 DEF InRange
<1>2. CASE j = 0
  BY <1>2, FirstIs
<1>3. CASE j = Clamp(i + 1, list) \/ j = Clamp(Len(list), list)
  BY <1>0, <1>3, ClampIs
<1> QED
  BY <1>1, <1>2, <1>3

\* Every handler leaves both browsers with what their directories hold now,
\* and their cursors on a line.
LEMMA BrowsersStep ==
  ASSUME TuiInv, Next
  PROVE  BrowsersOK'
<1> USE DEF FileModes, PathModes
<1>1. CASE Browsing
  <2>1. /\ mode' \in FileModes => mode \in FileModes /\ show_hidden' = show_hidden
        /\ mode' \in PathModes => mode \in PathModes /\ items' = items
    <3>1. CASE MoveSelection \/ WheelElsewhere \/ BrowseInto \/ ViewDetail \/ BrowseUp \/ LeaveDetail
      BY <3>1 DEF MoveSelection, MoveTo, WheelElsewhere, browseVars, netVars, listVars, BrowseInto, ViewDetail, BrowseUp, LeaveDetail, Ready
    <3>2. CASE EnterSearch \/ LeaveSearch \/ ExecuteSearch
      BY <3>2 DEF EnterSearch, LeaveSearch, ExecuteSearch, ToMode
    <3>3. CASE EnterDelete \/ RefuseDelete \/ ConfirmDelete \/ ConfirmDeleteDir
      BY <3>3 DEF EnterDelete, RefuseDelete, ConfirmDelete, ConfirmDeleteDir, listVars
    <3>4. CASE EnterRename \/ LeaveRename \/ EditRename \/ ExecuteRename
      BY <3>4 DEF EnterRename, LeaveRename, EditRename, Edit, ExecuteRename, listVars
    <3>5. CASE EnterMkdir \/ LeaveMkdir \/ EditMkdir \/ ExecuteMkdir
      BY <3>5 DEF EnterMkdir, LeaveMkdir, EditMkdir, Edit, ExecuteMkdir, listVars
    <3>6. CASE Request \/ Refresh \/ NoRefresh \/ AskRefresh \/ OtherClient
      BY <3>6 DEF Request, Refresh, NoRefresh, Cleared, AskRefresh, OtherClient, listVars
    <3> QED
      BY <1>1, <3>1, <3>2, <3>3, <3>4, <3>5, <3>6 DEF Browsing, BrowseNext
  <2> QED
    BY <1>1, <2>1, BrowsersFrame DEF Browsing, fileVars
<1>2. CASE EnterStore
  <2>1. /\ LoadBrowserDir /\ browser_dir' = browser_dir /\ browser_pos' = browser_pos
        /\ path_prefix' = prefix /\ path_selected' = path_selected
        /\ marked' = marked /\ file' = file /\ mode' = "FileBrowser"
    BY <1>2 DEF EnterStore
  <2>2. browser_dir \in Paths /\ PositionsOK(browser_pos) /\ prefix \in Paths /\ path_selected \in Nat
    BY DEF TuiInv, ViewsFresh, TuiTypeOK, Browsers, ListTypes
  <2> QED
    BY <2>1, <2>2, BrowserLoaded
<1>3. CASE BackToPathBrowser
  <2>1. path_prefix \in Paths
    BY DEF TuiInv, Browsers
  <2>3. path_entries' = EntriesOf(items', path_prefix', TRUE) /\ path_selected' \in Nat
        /\ InRange(path_selected', path_entries') /\ mode' = "PathBrowser" /\ UNCHANGED <<path_prefix, fileVars>>
    BY <1>3, <2>1, PathLoadedIs DEF BackToPathBrowser, KeepsOthers, listVars
  <2>4. Browsers'
    BY <2>3 DEF TuiInv, Browsers, fileVars
  <2>5. BrowsersFresh' /\ browser_selected' \in Nat
    BY <2>3 DEF BrowsersFresh, TuiInv, ViewsFresh, TuiTypeOK, fileVars
  <2> QED
    BY <2>3, <2>4, <2>5 DEF BrowsersOK
<1>4. CASE PathMove
  <2>1. /\ mode = "PathBrowser" /\ mode' = mode /\ items' = items /\ UNCHANGED <<path_prefix, path_entries, fileVars>>
        /\ path_selected' \in {0, Clamp(path_selected + 1, path_entries), Clamp(Len(path_entries), path_entries)}
                              \cup {i \in {path_selected - 1} : path_selected > 0}
    BY <1>4 DEF PathMove, Ready, KeepsOthers, listVars
  <2>2. path_entries \in Seq(ListLines) /\ path_selected \in Nat /\ InRange(path_selected, path_entries)
    BY <2>1, PathEntryOK
  <2>3. path_selected' \in Nat /\ InRange(path_selected', path_entries)
    BY <2>1, <2>2, MovedIs
  <2>4. Browsers' /\ browser_selected' \in Nat
    BY <2>1 DEF TuiInv, ViewsFresh, TuiTypeOK, Browsers, fileVars
  <2>5. BrowsersFresh'
    BY <2>1, <2>3 DEF BrowsersFresh, TuiInv, ViewsFresh
  <2> QED
    BY <2>3, <2>4, <2>5 DEF BrowsersOK
<1>5. CASE PathEnter
  <2>1. /\ mode = "PathBrowser" /\ path_entries # <<>>
        /\ PathGo(Append(path_prefix, path_entries[path_selected + 1].name))
    BY <1>5 DEF PathEnter, Ready
  <2> QED
    BY <2>1, PathEntryOK, PathGone
<1>6. CASE PathGoUp
  <2>1. path_prefix \in Paths /\ path_prefix # <<>> /\ PathGo(Parent(path_prefix))
    BY <1>6 DEF PathGoUp, TuiInv, Browsers
  <2> QED
    BY <2>1, ParentIs, PathGone
<1>7. CASE EnterNewDir
  BY <1>7, BrowsersFrame DEF EnterNewDir, PathTo, Ready, fileVars, KeepsOthers, listVars
<1>8. CASE EditNewDir
  BY <1>8, BrowsersFrame DEF EditNewDir, PathTo, Ready, fileVars, KeepsOthers, listVars
<1>9. CASE LeaveNewDir
  BY <1>9, BrowsersFrame DEF LeaveNewDir, PathTo, Ready, fileVars, KeepsOthers, listVars
<1>10. CASE ConfirmNewDir
  <2>1. path_prefix \in Paths /\ fields["new_dir"].text \in Paths
    BY DEF TuiInv, Browsers, FieldTypes, FieldNames, FieldValues
  <2>2. path_prefix \o fields["new_dir"].text \in Paths
    BY <2>1 DEF Paths
  <2> QED
    BY <1>10, <2>2, PathGone DEF ConfirmNewDir
<1>11. CASE AdvanceToFileBrowser
  <2>1. /\ LoadBrowserDir /\ browser_dir' = browser_dir /\ browser_pos' = browser_pos
        /\ path_prefix' = path_prefix /\ path_selected' = path_selected
        /\ marked' = marked /\ file' = file /\ mode' = "FileBrowser"
    BY <1>11 DEF AdvanceToFileBrowser, pathVars
  <2>2. browser_dir \in Paths /\ PositionsOK(browser_pos) /\ path_prefix \in Paths /\ path_selected \in Nat
    BY DEF TuiInv, ViewsFresh, TuiTypeOK, Browsers, ListTypes
  <2> QED
    BY <2>1, <2>2, BrowserLoaded
<1>12. CASE LeavePathBrowser
  BY <1>12, BrowsersFrame DEF LeavePathBrowser, PathTo, fileVars
<1>lines. mode \in FileModes =>
             browser_entries \in Seq(ListLines) /\ browser_selected \in Nat /\ InRange(browser_selected, browser_entries)
  <2> SUFFICES ASSUME mode \in FileModes
               PROVE  browser_entries \in Seq(ListLines) /\ browser_selected \in Nat /\ InRange(browser_selected, browser_entries)
    OBVIOUS
  <2>1. /\ browser_dir \in Paths /\ browser_selected \in Nat /\ InRange(browser_selected, browser_entries)
        /\ browser_entries = Matching(LocalEntries(browser_dir, show_hidden), browser_filter)
    BY DEF TuiInv, ViewsFresh, TuiTypeOK, BrowsersFresh, Browsers
  <2>2. {} \in SUBSET Paths /\ IsFiniteSet({})
    BY FS_EmptySet
  <2>3. browser_entries \in Seq(ListLines)
    BY <2>1, <2>2, ListsAre
  <2> QED
    BY <2>1, <2>3
<1>13. CASE BrowserMove
  <2>1. /\ mode \in FileModes /\ mode' \in {"FileBrowser", "BrowserFilter"} /\ show_hidden' = show_hidden
        /\ UNCHANGED <<browser_dir, browser_all, browser_entries, browser_pos, browser_filter, marked, file, pathVars>>
        /\ \/ browser_selected' \in {Clamp(browser_selected + 1, browser_entries)}
                                   \cup {i \in {browser_selected - 1} : browser_selected > 0}
           \/ browser_selected' \in {0, Clamp(Len(browser_entries), browser_entries)}
    BY <1>13 DEF BrowserMove, Ready, StaysInBrowser, KeepsOthers, listVars
  <2>2. browser_selected' \in Nat /\ InRange(browser_selected', browser_entries)
    BY <2>1, <1>lines, MovedIs
  <2>3. Browsers' /\ path_selected' \in Nat
    BY <2>1 DEF TuiInv, ViewsFresh, TuiTypeOK, Browsers, pathVars
  <2>4. BrowsersFresh'
    BY <2>1, <2>2 DEF BrowsersFresh, TuiInv, ViewsFresh
  <2> QED
    BY <2>2, <2>3, <2>4 DEF BrowsersOK
<1>go. ASSUME NEW d \in Paths, BrowserGo(d) PROVE BrowsersOK'
  <2>1. /\ LoadBrowserDir /\ browser_dir' = d /\ browser_pos' = Remember(browser_pos, browser_dir, browser_selected)
        /\ path_prefix' = path_prefix /\ path_selected' = path_selected
        /\ marked' = marked /\ file' = file /\ mode' = "FileBrowser"
    BY <1>go DEF BrowserGo, StaysInBrowser, pathVars, Ready
  <2>2. PositionsOK(browser_pos) /\ browser_selected \in Nat /\ path_prefix \in Paths /\ path_selected \in Nat
    BY DEF TuiInv, ViewsFresh, TuiTypeOK, Browsers
  <2>3. PositionsOK(browser_pos')
    BY <2>1, <2>2, RememberIs
  <2> QED
    BY <2>1, <2>2, <2>3, BrowserLoaded
<1>14. CASE BrowserEnter
  <2>1. OnLocal /\ BrowserGo(LocalPath) /\ mode = "FileBrowser"
    BY <1>14 DEF BrowserEnter, BrowserGo, Ready
  <2> QED
    BY <2>1, LocalOK, <1>go
<1>15. CASE BrowserGoUp
  <2>1. browser_dir \in Paths /\ browser_dir # <<>> /\ BrowserGo(Parent(browser_dir))
    BY <1>15 DEF BrowserGoUp, TuiInv, Browsers
  <2> QED
    BY <2>1, ParentIs, <1>go
<1>16. CASE SelectFile
  <2>1. OnLocal /\ ~LocalEntry.dir /\ mode = "FileBrowser" /\ file' = LocalPath
    BY <1>16 DEF SelectFile, Ready
  <2>2. file' \in LocalFiles
    BY <2>1, LocalOK
  <2> QED
    BY <1>16, <2>1, <2>2, BrowsersFrame DEF SelectFile, KeepsOthers, listVars
<1>17. CASE ToggleMark
  <2>1. /\ OnLocal /\ mode = "FileBrowser" /\ mode' = mode /\ show_hidden' = show_hidden
        /\ UNCHANGED <<browser_dir, browser_all, browser_entries, browser_pos, browser_filter, file, pathVars>>
        /\ browser_selected' = Clamp(browser_selected + 1, browser_entries)
        /\ marked' = IF LocalPath \in marked THEN marked \ {LocalPath} ELSE marked \cup {LocalPath}
    BY <1>17 DEF ToggleMark, Ready, StaysInBrowser, KeepsOthers, listVars
  <2>2. browser_selected' \in Nat /\ InRange(browser_selected', browser_entries)
    BY <2>1, <1>lines, MovedIs
  <2>3. /\ LocalPath \in Paths /\ LocalPath # <<>>
        /\ LocalPath \in LocalFiles \/ \E f \in LocalFiles : Under(LocalPath, f)
    BY <2>1, LocalOK DEF ListLines
  <2>4. Browsers
    BY DEF TuiInv
  <2>5. /\ IsFiniteSet(marked') /\ marked' \subseteq Paths
        /\ \A m \in marked' : m # <<>> /\ (m \in LocalFiles \/ \E f \in LocalFiles : Under(m, f))
    BY <2>1, <2>3, <2>4, FS_AddElement, FS_RemoveElement DEF Browsers
  <2>6. Browsers' /\ path_selected' \in Nat
    BY <2>1, <2>4, <2>5 DEF TuiInv, ViewsFresh, TuiTypeOK, Browsers, pathVars
  <2>7. BrowsersFresh'
    BY <2>1, <2>2 DEF BrowsersFresh, TuiInv, ViewsFresh
  <2> QED
    BY <2>2, <2>6, <2>7 DEF BrowsersOK
<1>18. CASE AskClearMarks
  BY <1>18, BrowsersFrame DEF AskClearMarks, FileMode, StaysInBrowser, KeepsOthers, listVars, Ready
<1>19. CASE AnswerClearMarks
  BY <1>19, BrowsersFrame DEF AnswerClearMarks, FileMode, StaysInBrowser, KeepsOthers, listVars, Ready
<1>20. CASE EnterFilter
  BY <1>20, BrowsersFrame DEF EnterFilter, FileMode, StaysInBrowser, KeepsOthers, listVars, Ready
<1>21. CASE LeaveFilter
  BY <1>21, BrowsersFrame DEF LeaveFilter, FileMode, StaysInBrowser, KeepsOthers, listVars, Ready
<1>22. CASE TypeFilter
  <2>1. PICK q, to : SetFilter(q, to) /\ to \in {"BrowserFilter", "FileBrowser"}
    BY <1>22 DEF TypeFilter
  <2>2. /\ mode = "BrowserFilter" /\ mode' = to /\ show_hidden' = show_hidden /\ browser_filter' = q
        /\ UNCHANGED <<browser_dir, browser_all, browser_pos, marked, file, pathVars>>
        /\ browser_selected' = 0 /\ browser_entries' = Matching(browser_all, q)
    BY <2>1 DEF SetFilter, Ready, StaysInBrowser, KeepsOthers, listVars
  <2>3. browser_all = LocalEntries(browser_dir, show_hidden) /\ browser_dir \in Paths
    BY <2>2 DEF TuiInv, Browsers
  <2>4. {} \in SUBSET Paths /\ IsFiniteSet({})
    BY FS_EmptySet
  <2>5. browser_entries' \in Seq(ListLines)
    BY <2>2, <2>3, <2>4, ListsAre
  <2>6. InRange(browser_selected', browser_entries') /\ browser_selected' \in Nat
    BY <2>2, <2>5, FirstIs
  <2>7. Browsers' /\ path_selected' \in Nat
    BY <2>1, <2>2 DEF TuiInv, ViewsFresh, TuiTypeOK, Browsers, pathVars
  <2>8. BrowsersFresh'
    BY <2>1, <2>2, <2>3, <2>6 DEF BrowsersFresh
  <2> QED
    BY <2>6, <2>7, <2>8 DEF BrowsersOK
<1>23. CASE LeaveFileBrowser
  BY <1>23, BrowsersFrame DEF LeaveFileBrowser
<1>24. CASE ToggleHidden
  <2>1. /\ LoadBrowserDir /\ browser_dir' = browser_dir /\ browser_pos' = browser_pos
        /\ path_prefix' = path_prefix /\ path_selected' = path_selected
        /\ marked' = marked /\ file' = file /\ mode' \in {"Normal", "FileBrowser"}
    BY <1>24 DEF ToggleHidden, pathVars, Ready
  <2>2. browser_dir \in Paths /\ PositionsOK(browser_pos) /\ path_prefix \in Paths /\ path_selected \in Nat
    BY DEF TuiInv, ViewsFresh, TuiTypeOK, Browsers, ListTypes
  <2> QED
    BY <2>1, <2>2, BrowserLoaded
<1>25. CASE PrepareUpload
  BY <1>25, BrowsersFrame DEF PrepareUpload, Stage, Ready, fileVars, listVars
<1>26. CASE CancelPending
  BY <1>26, BrowsersFrame DEF CancelPending, Ready, fileVars, listVars
<1>27. CASE ConfirmUpload
  BY <1>27, BrowsersFrame DEF ConfirmUpload, BeginUpload
<1>28. CASE EditStoreKey
  BY <1>28, BrowsersFrame DEF EditStoreKey, Edit, fileVars, listVars
<1>29. CASE LeaveStoreKey
  BY <1>29, BrowsersFrame DEF LeaveStoreKey, PathTo, Ready, fileVars, KeepsOthers, listVars
<1>30. CASE StoreFile
  BY <1>30, BrowsersFrame DEF StoreFile, BeginUpload, fileVars
<1>31. CASE WorkerStart
  BY <1>31, BrowsersFrame DEF WorkerStart, WorkerKeeps, fileVars, listVars
<1>32. CASE WorkerCannotRead
  BY <1>32, BrowsersFrame DEF WorkerCannotRead, WorkerKeeps, fileVars, listVars
<1>33. CASE WorkerSends
  BY <1>33, BrowsersFrame DEF WorkerSends, WorkerKeeps, fileVars, listVars
<1>34. CASE WorkerAnswered
  BY <1>34, BrowsersFrame DEF WorkerAnswered, WorkerKeeps, fileVars, listVars
<1>35. CASE WorkerStops
  BY <1>35, BrowsersFrame DEF WorkerStops, WorkerKeeps, fileVars, listVars
<1>36. CASE DrainEvent
  BY <1>36, BrowsersFrame DEF DrainEvent, fileVars, listVars
<1>37. CASE CancelUpload
  BY <1>37, BrowsersFrame DEF CancelUpload, browseVars, fileVars, listVars
<1>38. CASE Quit
  BY <1>38, BrowsersFrame DEF Quit, fileVars, listVars
<1> QED
  BY <1>1, <1>2, <1>3, <1>4, <1>5, <1>6, <1>7, <1>8, <1>9, <1>10, <1>11, <1>12, <1>13, <1>14, <1>15, <1>16, <1>17, <1>18, <1>19, <1>20, <1>21, <1>22, <1>23, <1>24, <1>25, <1>26, <1>27, <1>28, <1>29, <1>30, <1>31, <1>32, <1>33, <1>34, <1>35, <1>36, <1>37, <1>38 DEF Next, Choosing, Uploads

-----------------------------------------------------------------------------
(* The list and the store *)

\* What the invariant says of the list.
ListOK == ListTypes /\ ListFresh /\ selected \in Nat

\* A handler that leaves the list alone.
LEMMA ListFrame ==
  ASSUME TuiInv, UNCHANGED listVars, server' \subseteq Paths, IsFiniteSet(server'), changes' \in Nat
  PROVE  ListOK'
<1>1. ListTypes /\ ListFresh /\ selected \in Nat
  BY DEF TuiInv, ViewsFresh, TuiTypeOK
<1>2. ListTypes'
  BY <1>1 DEF ListTypes, listVars
<1>3. ListFresh' /\ selected' \in Nat
  BY <1>1 DEF ListFresh, listVars
<1> QED
  BY <1>2, <1>3 DEF ListOK

\* A handler that rebuilds it.
LEMMA RebuiltIs ==
  ASSUME NEW sel \in Nat, Rebuild(sel), items' \subseteq Paths, IsFiniteSet(items'), prefix' \in Paths
  PROVE  ListFresh' /\ selected' \in Nat
<1>1. /\ entries' = EntriesOf(Filtered(items', query'), prefix', show_hidden')
      /\ selected' = Clamp(sel, entries')
  BY DEF Rebuild
<1>2. entries' \in Seq(ListLines)
  BY <1>1, ListsAre
<1>3. selected' \in Nat /\ InRange(selected', entries')
  BY <1>1, <1>2, ClampIs
<1> QED
  BY <1>1, <1>3 DEF ListFresh

\* The keys of a batch.
LEMMA KeysOfIs ==
  ASSUME NEW batch \in SUBSET Pairs, IsFiniteSet(batch)
  PROVE  KeysOf(batch) \in SUBSET Paths /\ IsFiniteSet(KeysOf(batch))
<1> DEFINE f == [p \in batch |-> p.key]
<1>1. KeysOf(batch) \in SUBSET Paths
  BY DEF KeysOf, Pairs
<1>2. f \in Surjection(batch, KeysOf(batch))
  BY DEF Surjection, KeysOf
<1>3. IsFiniteSet(KeysOf(batch))
  BY <1>2, FS_Surjection
<1> QED
  BY <1>1, <1>3

\* A key with another beginning.
LEMMA RenamedIs ==
  ASSUME NEW k \in Paths, NEW from \in Paths, NEW to \in Paths, Len(from) <= Len(k)
  PROVE  Renamed(k, from, to) \in Paths
<1>1. Len(from) \in Nat
  BY DEF Paths
<1>2. SubSeq(k, Len(from) + 1, Len(k)) \in Paths
  BY <1>1, PartsOfPaths
<1> QED
  BY <1>2 DEF Renamed, Paths

\* What a request does to the store.
LEMMA AfterIs ==
  ASSUME TuiInv, job.todo # {}
  PROVE  /\ Least(job.todo) \in job.todo /\ Least(job.todo) \in Paths
         /\ job.kind \in {"delete", "deldir", "rename", "rendir", "mkdir"}
         /\ job.kind # "mkdir" => \E a \in asked : a = Least(job.todo) \/ Under(a, Least(job.todo))
         /\ After(Least(job.todo)) \subseteq Paths /\ IsFiniteSet(After(Least(job.todo)))
<1> DEFINE k == Least(job.todo)
<1>1. /\ job.todo \in SUBSET Paths /\ IsFiniteSet(job.todo) /\ job.to \in Paths
      /\ target.key \in Paths /\ server \subseteq Paths /\ IsFiniteSet(server)
  BY DEF TuiInv, JobTypes, ListTypes
<1>2. k \in job.todo /\ k \in Paths
  BY <1>1, LeastIs
<1> HIDE DEF k
<1>3. job.kind \in {"delete", "deldir", "rename", "rendir", "mkdir"}
  BY DEF TuiInv, JobTypes, JobKinds, NoJob
<1>4. job.kind # "mkdir" => \E a \in asked : a = k \/ Under(a, k)
  BY <1>2, <1>3 DEF TuiInv, JobAsked
<1>5. CASE job.kind \in {"delete", "deldir"}
  <2>1. After(k) = server \ {k}
    BY <1>5 DEF After
  <2> QED
    BY <1>1, <1>2, <1>3, <1>4, <2>1, FS_RemoveElement DEF k
<1>6. CASE job.kind = "mkdir"
  <2>1. After(k) = server \cup {k}
    BY <1>6 DEF After
  <2> QED
    BY <1>1, <1>2, <1>3, <1>6, <2>1, FS_AddElement DEF k
<1>7. CASE job.kind \in {"rename", "rendir"}
  <2>1. After(k) = (server \ {k}) \cup {Renamed(k, target.key, job.to)}
    BY <1>7 DEF After
  <2>2. asked = {target.key}
    BY <1>7 DEF TuiInv, JobMode, Questions
  <2>3. Len(target.key) \in Nat /\ Len(k) \in Nat /\ Len(target.key) <= Len(k)
    BY <1>1, <1>2, <1>4, <1>7, <2>2 DEF Under, Paths
  <2>4. Renamed(k, target.key, job.to) \in Paths
    BY <1>1, <1>2, <2>3, RenamedIs
  <2>5. IsFiniteSet(server \ {k})
    BY <1>1, FS_RemoveElement
  <2>6. IsFiniteSet((server \ {k}) \cup {Renamed(k, target.key, job.to)})
    BY <2>5, FS_AddElement
  <2> QED
    BY <1>1, <1>2, <1>3, <1>4, <2>1, <2>4, <2>6 DEF k
<1> QED
  BY <1>3, <1>5, <1>6, <1>7

\* The keys of the file on its way.
LEMMA CurIs ==
  ASSUME TuiInv
  PROVE  KeysOf(worker.cur) \subseteq Paths /\ IsFiniteSet(KeysOf(worker.cur))
         /\ IsFiniteSet(server \cup KeysOf(worker.cur)) /\ server \cup KeysOf(worker.cur) \subseteq Paths
<1>1. worker.cur \in SUBSET Pairs /\ worker.cur \subseteq Batch /\ IsFiniteSet(Batch)
  BY DEF TuiInv, UploadTypes, Batch
<1>2. IsFiniteSet(worker.cur)
  BY <1>1, FS_Subset
<1>3. KeysOf(worker.cur) \subseteq Paths /\ IsFiniteSet(KeysOf(worker.cur))
  BY <1>1, <1>2, KeysOfIs
<1>4. server \subseteq Paths /\ IsFiniteSet(server)
  BY DEF TuiInv, ListTypes
<1> QED
  BY <1>3, <1>4, FS_Union

\* Every handler leaves the list as the local copy, the search, the directory
\* and the hidden option have it, and the cursor on one of its lines.
LEMMA ListStep ==
  ASSUME TuiInv, Next
  PROVE  ListOK'
<1>types. /\ server \subseteq Paths /\ IsFiniteSet(server) /\ items \subseteq Paths /\ IsFiniteSet(items)
          /\ prefix \in Paths /\ PositionsOK(browse_pos) /\ changes \in Nat /\ selected \in Nat
  BY DEF TuiInv, ViewsFresh, TuiTypeOK, ListTypes
<1>frame. ASSUME UNCHANGED listVars, server' = server, changes' = changes PROVE ListOK'
  BY <1>frame, <1>types, ListFrame
<1>rebuilt. ASSUME NEW sel \in Nat, Rebuild(sel), items' \in {items, server}, server' = server,
                   changes' = changes, prefix' \in Paths, PositionsOK(browse_pos')
            PROVE  ListOK'
  <2>1. ListFresh' /\ selected' \in Nat
    BY <1>rebuilt, <1>types, RebuiltIs
  <2>2. ListTypes'
    BY <1>rebuilt, <1>types DEF ListTypes
  <2> QED
    BY <2>1, <2>2 DEF ListOK
<1>1. CASE MoveSelection
  <2>1. /\ UNCHANGED <<items, query, prefix, show_hidden, entries, browse_pos, server, changes>>
        /\ \/ OnEntry /\ selected' = Clamp(selected + 1, entries)
           \/ selected > 0 /\ selected' = selected - 1
           \/ selected' = 0
           \/ OnEntry /\ selected' = Len(entries) - 1
    BY <1>1 DEF MoveSelection, MoveTo, netVars
  <2>2. /\ entries = EntriesOf(Filtered(items, query), prefix, show_hidden) /\ InRange(selected, entries)
    BY DEF TuiInv, ViewsFresh, ListFresh
  <2>3. entries \in Seq(ListLines)
    BY <2>2, <1>types, ListsAre
  <2>4. selected' \in Nat /\ InRange(selected', entries)
    <3>1. CASE selected' = Len(entries) - 1 /\ OnEntry
      BY <3>1, <2>3, EmptySeq DEF OnEntry, InRange
    <3> QED
      BY <2>1, <2>2, <2>3, <1>types, <3>1, MovedIs
  <2>5. ListTypes' /\ ListFresh'
    BY <2>1, <2>2, <2>4, <1>types DEF ListTypes, ListFresh
  <2> QED
    BY <2>4, <2>5 DEF ListOK
<1>2. CASE WheelElsewhere
  BY <1>2, <1>frame DEF WheelElsewhere, browseVars, listVars, netVars
<1>remembered. \A at, p : Remembered(Remember(browse_pos, at, selected), p) \in Nat
               /\ PositionsOK(Remember(browse_pos, at, selected))
  BY <1>types, RememberIs, RememberedIs
<1>3. CASE BrowseInto
  <2>1. /\ OnEntry /\ prefix' = EntryPath /\ browse_pos' = Remember(browse_pos, prefix, selected)
        /\ Rebuild(Remembered(browse_pos', prefix')) /\ UNCHANGED <<items, server, changes>>
    BY <1>3 DEF BrowseInto, netVars
  <2>2. prefix' \in Paths
    BY <2>1, EntryOK
  <2> QED
    BY <2>1, <2>2, <1>remembered, <1>rebuilt
<1>4. CASE ViewDetail
  BY <1>4, <1>frame DEF ViewDetail, listVars, netVars
<1>5. CASE BrowseUp
  <2>1. /\ prefix # <<>> /\ prefix' = Parent(prefix) /\ browse_pos' = Remember(browse_pos, prefix, selected)
        /\ Rebuild(Remembered(browse_pos', prefix')) /\ UNCHANGED <<items, server, changes>>
    BY <1>5 DEF BrowseUp, netVars
  <2>2. prefix' \in Paths
    BY <2>1, <1>types, ParentIs
  <2> QED
    BY <2>1, <2>2, <1>remembered, <1>rebuilt
<1>6. CASE LeaveDetail
  BY <1>6, <1>frame DEF LeaveDetail, listVars, netVars
<1>7. CASE EnterSearch \/ LeaveSearch
  BY <1>7, <1>frame DEF EnterSearch, LeaveSearch, ToMode, listVars, netVars
<1>8. CASE ExecuteSearch
  BY <1>8, <1>types, <1>rebuilt DEF ExecuteSearch, netVars
<1>9. CASE EnterDelete \/ RefuseDelete \/ ConfirmDelete \/ ConfirmDeleteDir
  BY <1>9, <1>frame DEF EnterDelete, RefuseDelete, ConfirmDelete, ConfirmDeleteDir, listVars, netVars
<1>10. CASE EnterRename \/ LeaveRename \/ EditRename \/ ExecuteRename
  BY <1>10, <1>frame DEF EnterRename, LeaveRename, EditRename, Edit, ExecuteRename, listVars, netVars
<1>11. CASE EnterMkdir \/ LeaveMkdir \/ EditMkdir \/ ExecuteMkdir
  BY <1>11, <1>frame DEF EnterMkdir, LeaveMkdir, EditMkdir, Edit, ExecuteMkdir, listVars, netVars
<1>12. CASE Request
  <2>1. UNCHANGED listVars /\ changes' = changes /\ job.todo # {} /\ server' \in {server, After(Least(job.todo))}
    BY <1>12 DEF Request
  <2>2. server' \subseteq Paths /\ IsFiniteSet(server')
    BY <2>1, <1>types, AfterIs
  <2> QED
    BY <2>1, <2>2, <1>types, ListFrame
<1>13. CASE Refresh
  <2>1. CASE items' = items
    BY <1>13, <2>1, <1>frame DEF Refresh, listVars
  <2>2. CASE items' # items
    BY <1>13, <2>2, <1>types, <1>rebuilt DEF Refresh
  <2> QED
    BY <2>1, <2>2
<1>14. CASE NoRefresh \/ AskRefresh
  BY <1>14, <1>frame DEF NoRefresh, AskRefresh, listVars, netVars
<1>15. CASE OtherClient
  <2>1. PICK key \in OtherKeys : server' = IF key \in server THEN server \ {key} ELSE server \cup {key}
    BY <1>15 DEF OtherClient
  <2>2. key \in Paths
    BY KeysAssumption DEF Paths
  <2>3. server' \subseteq Paths /\ IsFiniteSet(server')
    BY <2>1, <2>2, <1>types, FS_AddElement, FS_RemoveElement
  <2>4. UNCHANGED listVars /\ changes' \in Nat
    BY <1>15, <1>types DEF OtherClient
  <2> QED
    BY <2>3, <2>4, ListFrame
<1>16. CASE EnterStore \/ BackToPathBrowser \/ PathMove
  BY <1>16, <1>frame DEF EnterStore, BackToPathBrowser, PathMove, KeepsOthers, listVars, netVars
<1>17. CASE PathEnter \/ PathGoUp \/ ConfirmNewDir
  BY <1>17, <1>frame DEF PathEnter, PathGoUp, ConfirmNewDir, PathGo, KeepsOthers, listVars, netVars
<1>18. CASE EnterNewDir \/ EditNewDir \/ LeaveNewDir \/ LeavePathBrowser
  BY <1>18, <1>frame DEF EnterNewDir, EditNewDir, LeaveNewDir, LeavePathBrowser, PathTo, KeepsOthers, listVars, netVars
<1>19. CASE AdvanceToFileBrowser \/ SelectFile \/ LeaveFileBrowser
  BY <1>19, <1>frame DEF AdvanceToFileBrowser, SelectFile, LeaveFileBrowser, KeepsOthers, listVars, netVars
<1>20. CASE BrowserMove \/ ToggleMark \/ TypeFilter
  BY <1>20, <1>frame DEF BrowserMove, ToggleMark, TypeFilter, StaysInBrowser, SetFilter, KeepsOthers, listVars, netVars
<1>21. CASE BrowserEnter \/ BrowserGoUp
  BY <1>21, <1>frame DEF BrowserEnter, BrowserGoUp, BrowserGo, StaysInBrowser, KeepsOthers, listVars, netVars
<1>22. CASE AskClearMarks \/ AnswerClearMarks \/ EnterFilter \/ LeaveFilter
  BY <1>22, <1>frame DEF AskClearMarks, AnswerClearMarks, EnterFilter, LeaveFilter, FileMode, StaysInBrowser, KeepsOthers, listVars, netVars
<1>23. CASE ToggleHidden
  BY <1>23, <1>types, <1>rebuilt DEF ToggleHidden, netVars
<1>24. CASE PrepareUpload \/ CancelPending \/ ConfirmUpload
  BY <1>24, <1>frame DEF PrepareUpload, Stage, CancelPending, ConfirmUpload, BeginUpload, listVars, netVars
<1>25. CASE EditStoreKey \/ LeaveStoreKey \/ StoreFile
  BY <1>25, <1>frame DEF EditStoreKey, Edit, LeaveStoreKey, PathTo, KeepsOthers, StoreFile, BeginUpload, listVars, netVars
<1>26. CASE WorkerStart \/ WorkerCannotRead \/ WorkerSends
  BY <1>26, <1>frame DEF WorkerStart, WorkerCannotRead, WorkerSends, WorkerKeeps, listVars, netVars
<1>27. CASE WorkerAnswered \/ WorkerStops
  <2>1. UNCHANGED listVars /\ changes' = changes /\ server' \in {server, server \cup KeysOf(worker.cur)}
    BY <1>27 DEF WorkerAnswered, WorkerStops, WorkerKeeps
  <2>2. server' \subseteq Paths /\ IsFiniteSet(server')
    BY <2>1, <1>types, CurIs
  <2> QED
    BY <2>1, <2>2, <1>types, ListFrame
<1>28. CASE DrainEvent \/ CancelUpload \/ Quit
  BY <1>28, <1>frame DEF DrainEvent, CancelUpload, Quit, browseVars, listVars, netVars
<1> QED
  BY <1>1, <1>2, <1>3, <1>4, <1>5, <1>6, <1>7, <1>8, <1>9, <1>10, <1>11, <1>12, <1>13, <1>14, <1>15, <1>16, <1>17, <1>18, <1>19, <1>20, <1>21, <1>22, <1>23, <1>24, <1>25, <1>26, <1>27, <1>28 DEF Next, Browsing, BrowseNext, Choosing, Uploads

-----------------------------------------------------------------------------
(* Questions and the requests that follow from their answers *)

\* What the invariant says of the dialogs.
DialogsOK == JobTypes /\ JobMode /\ Questions /\ JobAsked /\ DetailIsSelected

DialogModes == {"Detail", "DeleteConfirm", "DeleteDirConfirm", "RenameInput", "UploadConfirm"}

Targets == [key : Paths, dir : BOOLEAN]

\* No request is in progress and the mode asks nothing about an entry.
LEMMA NothingAsked ==
  ASSUME job' = NoJob, mode' \notin DialogModes, target' \in Targets
  PROVE  DialogsOK'
<1>1. <<>> \in Paths /\ IsFiniteSet({})
  BY EmptyFieldIs, FS_EmptySet
<1>2. JobTypes'
  BY <1>1 DEF JobTypes, JobKinds, NoJob, Targets
<1>3. JobMode' /\ JobAsked'
  BY DEF JobMode, JobAsked, NoJob
<1>4. Questions' /\ DetailIsSelected'
  BY DEF Questions, DetailIsSelected, DialogModes
<1> QED
  BY <1>2, <1>3, <1>4 DEF DialogsOK

\* Only a refresh is in progress.
LEMMA OnlyRefresh ==
  ASSUME job' = [NoJob EXCEPT !.kind = "refresh", !.todo = {}, !.to = <<>>], mode' = "Normal", target' \in Targets
  PROVE  DialogsOK'
<1>1. <<>> \in Paths /\ IsFiniteSet({})
  BY EmptyFieldIs, FS_EmptySet
<1>2. job' = [kind |-> "refresh", todo |-> {}, done |-> {}, failed |-> {}, to |-> <<>>]
  BY DEF NoJob
<1>3. JobTypes'
  <2>1. job' \in [kind : JobKinds, todo : SUBSET Paths, done : SUBSET Paths, failed : SUBSET Paths, to : Paths]
    BY <1>1, <1>2 DEF JobKinds
  <2>2. /\ job'.todo = {} /\ job'.done = {} /\ job'.failed = {} /\ job'.kind = "refresh"
    <3> SUFFICES ASSUME NEW j, j = [kind |-> "refresh", todo |-> {}, done |-> {}, failed |-> {}, to |-> <<>>]
                 PROVE  j.todo = {} /\ j.done = {} /\ j.failed = {} /\ j.kind = "refresh"
      BY <1>2
    <3> QED
      OBVIOUS
  <2> QED
    BY <1>1, <2>1, <2>2 DEF JobTypes, Targets
<1>4. JobMode' /\ JobAsked'
  BY <1>2 DEF JobMode, JobAsked
<1>5. Questions' /\ DetailIsSelected'
  BY DEF Questions, DetailIsSelected
<1> QED
  BY <1>3, <1>4, <1>5 DEF DialogsOK

\* A step that leaves the question and the requests alone; the store may
\* change, but no directory is being deleted while this client's worker runs.
LEMMA DialogsFrame ==
  ASSUME TuiInv, UNCHANGED <<job, target, asked, detail, mode, prefix, entries, selected, items, pending>>,
         \/ server' = server /\ changes' = changes
         \/ changes' # 0
         \/ job.kind # "deldir"
  PROVE  DialogsOK'
<1>1. JobTypes /\ JobMode /\ Questions /\ JobAsked /\ DetailIsSelected
  BY DEF TuiInv, ViewsFresh
<1>2. JobTypes' /\ JobMode'
  BY <1>1 DEF JobTypes, JobMode
<1>3. OnEntry' = OnEntry /\ Entry' = Entry /\ EntryPath' = EntryPath
  BY DEF OnEntry, Entry, EntryPath
<1>4. Questions' /\ DetailIsSelected'
  BY <1>1, <1>3 DEF Questions, DetailIsSelected
<1>5. JobAsked'
  BY <1>1 DEF JobAsked
<1> QED
  BY <1>2, <1>4, <1>5 DEF DialogsOK

\* An operation on what the question was about starts.
LEMMA JobStarted ==
  ASSUME TuiInv, NEW kind \in {"delete", "deldir", "rename", "rendir", "mkdir"}, NEW keys \in SUBSET Paths,
         IsFiniteSet(keys), NEW to \in Paths, StartJob(kind, keys, to),
         UNCHANGED <<target, asked, detail, mode, prefix, entries, selected, items, pending>>,
         kind = "delete" => mode = "DeleteConfirm",
         kind = "deldir" => mode = "DeleteDirConfirm",
         kind \in {"rename", "rendir"} => mode = "RenameInput",
         kind = "mkdir" => mode = "MkdirInput",
         kind # "mkdir" => \A k \in keys : \E a \in asked : a = k \/ Under(a, k),
         kind = "deldir" => \A a \in asked, k \in items : Under(a, k) => k \in keys
  PROVE  DialogsOK'
<1>1. job' = [kind |-> kind, todo |-> keys, done |-> {}, failed |-> {}, to |-> to]
  BY DEF StartJob, NoJob
<1>2. Questions /\ DetailIsSelected /\ target \in Targets
  BY DEF TuiInv, ViewsFresh, JobTypes, Targets
<1>3. JobTypes' /\ JobMode'
  BY <1>1, <1>2 DEF JobTypes, JobMode, JobKinds, Targets
<1>4. OnEntry' = OnEntry /\ Entry' = Entry /\ EntryPath' = EntryPath
  BY DEF OnEntry, Entry, EntryPath
<1>5. Questions' /\ DetailIsSelected'
  BY <1>2, <1>4 DEF Questions, DetailIsSelected
<1>6. JobAsked'
  BY <1>1 DEF JobAsked
<1> QED
  BY <1>3, <1>5, <1>6 DEF DialogsOK

\* Every handler keeps the question about what the cursor is on, and the
\* requests within what was asked.
LEMMA DialogsStep ==
  ASSUME TuiInv, Next
  PROVE  DialogsOK'
<1>types. target \in Targets /\ NoTarget \in Targets
  BY EmptyFieldIs DEF TuiInv, JobTypes, NoTarget, Targets
<1>quiet. ASSUME job' = NoJob, mode' \notin DialogModes, target' = target \/ target' = NoTarget PROVE DialogsOK'
  BY <1>quiet, <1>types, NothingAsked
<1>1. CASE MoveSelection
  BY <1>1, <1>quiet DEF MoveSelection, MoveTo, Ready, listVars, netVars, dialogVars, DialogModes
<1>2. CASE Browsing /\ WheelElsewhere
  BY <1>2, DialogsFrame DEF WheelElsewhere, Browsing, browseVars, listVars, netVars, dialogVars
<1>3. CASE BrowseInto \/ BrowseUp \/ LeaveDetail
  BY <1>3, <1>quiet DEF BrowseInto, BrowseUp, LeaveDetail, Ready, listVars, netVars, dialogVars, DialogModes
<1>4. CASE EnterSearch \/ LeaveSearch \/ ExecuteSearch
  BY <1>4, <1>quiet DEF EnterSearch, LeaveSearch, ExecuteSearch, ToMode, Ready, listVars, netVars, dialogVars, DialogModes
<1>5. CASE ViewDetail
  <2>1. /\ job = NoJob /\ job' = job /\ OnEntry /\ ~Entry.dir /\ mode' = "Detail" /\ detail' = EntryPath
        /\ UNCHANGED <<target, prefix, entries, selected>>
    BY <1>5 DEF ViewDetail, Ready, listVars, netVars
  <2>2. JobTypes' /\ JobMode' /\ JobAsked'
    BY <2>1 DEF TuiInv, JobTypes, JobMode, JobAsked, NoJob
  <2>3. Questions' /\ DetailIsSelected'
    BY <2>1 DEF Questions, DetailIsSelected, OnEntry, Entry, EntryPath
  <2> QED
    BY <2>2, <2>3 DEF DialogsOK
<1>6. CASE EnterDelete
  <2>1. /\ job = NoJob /\ job' = job /\ OnEntry /\ mode \in {"Normal", "Detail"}
        /\ mode' = IF Entry.dir THEN "DeleteDirConfirm" ELSE "DeleteConfirm"
        /\ asked' = {Shown} /\ UNCHANGED <<target, prefix, entries, selected>>
    BY <1>6 DEF EnterDelete, Ready, listVars, netVars
  <2>2. Shown = EntryPath
    BY <2>1 DEF Shown, TuiInv, ViewsFresh, DetailIsSelected
  <2>3. JobTypes' /\ JobMode' /\ JobAsked'
    BY <2>1 DEF TuiInv, JobTypes, JobMode, JobAsked, NoJob
  <2>4. Questions' /\ DetailIsSelected'
    BY <2>1, <2>2 DEF Questions, DetailIsSelected, OnEntry, Entry, EntryPath
  <2> QED
    BY <2>3, <2>4 DEF DialogsOK
<1>7. CASE RefuseDelete
  BY <1>7, <1>quiet DEF RefuseDelete, Ready, listVars, netVars, dialogVars, DialogModes
<1>8. CASE Browsing /\ ConfirmDelete
  <2>1. /\ mode = "DeleteConfirm" /\ StartJob("delete", {EntryPath}, <<>>)
        /\ UNCHANGED <<target, asked, detail, mode, prefix, entries, selected, items, pending>>
    BY <1>8 DEF ConfirmDelete, Browsing, Ready, listVars, dialogVars
  <2>2. OnEntry /\ asked = {EntryPath}
    BY <2>1 DEF TuiInv, Questions
  <2>3. {EntryPath} \in SUBSET Paths /\ IsFiniteSet({EntryPath}) /\ <<>> \in Paths
    BY <2>2, EntryOK, EmptyFieldIs, FS_Singleton
  <2> QED
    BY <2>1, <2>2, <2>3, JobStarted
<1>9. CASE Browsing /\ ConfirmDeleteDir
  <2> DEFINE keys == {x \in items : Under(EntryPath, x)}
  <2>1. /\ mode = "DeleteDirConfirm" /\ StartJob("deldir", keys, <<>>)
        /\ UNCHANGED <<target, asked, detail, mode, prefix, entries, selected, items, pending>>
    BY <1>9 DEF ConfirmDeleteDir, Browsing, Ready, listVars, dialogVars
  <2>2. asked = {EntryPath}
    BY <2>1 DEF TuiInv, Questions
  <2>3. keys \in SUBSET Paths /\ IsFiniteSet(keys) /\ <<>> \in Paths
    BY EmptyFieldIs, FS_Subset DEF TuiInv, ListTypes
  <2>4. /\ \A x \in keys : \E a \in asked : a = x \/ Under(a, x)
        /\ \A a \in asked, x \in items : Under(a, x) => x \in keys
    BY <2>2
  <2> HIDE DEF keys
  <2> QED
    BY <2>1, <2>3, <2>4, JobStarted
<1>10. CASE EnterRename
  <2>1. /\ job = NoJob /\ job' = job /\ OnEntry /\ mode \in {"Normal", "Detail"} /\ mode' = "RenameInput"
        /\ target' = [key |-> EntryPath, dir |-> Entry.dir]
        /\ asked' = {Shown} /\ UNCHANGED <<prefix, entries, selected>>
    BY <1>10 DEF EnterRename, Ready, listVars, netVars
  <2>2. Shown = EntryPath /\ target' \in Targets
    BY <2>1, EntryOK DEF Shown, TuiInv, ViewsFresh, DetailIsSelected, Targets
  <2>3. JobTypes' /\ JobMode' /\ JobAsked'
    BY <2>1, <2>2 DEF TuiInv, JobTypes, JobMode, JobAsked, NoJob, Targets
  <2>4. Questions' /\ DetailIsSelected'
    BY <2>1, <2>2 DEF Questions, DetailIsSelected
  <2> QED
    BY <2>3, <2>4 DEF DialogsOK
<1>11. CASE LeaveRename
  <2>1. target' = [target EXCEPT !.key = <<>>] /\ job' = NoJob /\ mode' = "Normal"
    BY <1>11 DEF LeaveRename, Ready, netVars
  <2>2. target' \in Targets
    BY <2>1, <1>types, EmptyFieldIs DEF Targets
  <2> QED
    BY <2>1, <2>2, NothingAsked DEF DialogModes
<1>12. CASE Browsing /\ (EditRename \/ EditMkdir)
  BY <1>12, DialogsFrame DEF EditRename, EditMkdir, Edit, Browsing, listVars, netVars, dialogVars
<1>13. CASE Browsing /\ ExecuteRename
  <2> DEFINE new  == fields["rename"].text
             keys == IF target.dir THEN {x \in items : Under(target.key, x)} ELSE {target.key}
             kind == IF target.dir THEN "rendir" ELSE "rename"
  <2>1. CASE new = target.key \/ keys = {}
    BY <1>13, <2>1, <1>quiet DEF ExecuteRename, Ready, DialogModes
  <2>2. CASE ~(new = target.key \/ keys = {})
    <3>1. /\ mode = "RenameInput" /\ StartJob(kind, keys, new)
          /\ UNCHANGED <<target, asked, detail, mode, prefix, entries, selected, items, pending>>
      BY <1>13, <2>2 DEF ExecuteRename, Browsing, Ready, listVars
    <3>2. asked = {target.key} /\ target.key \in Paths /\ new \in Paths /\ items \subseteq Paths /\ IsFiniteSet(items)
      BY <3>1 DEF TuiInv, Questions, JobTypes, FieldTypes, FieldValues, FieldNames, ListTypes
    <3>3. keys \in SUBSET Paths /\ IsFiniteSet(keys)
      BY <3>2, FS_Singleton, FS_Subset
    <3>4. \A x \in keys : \E a \in asked : a = x \/ Under(a, x)
      BY <3>2
    <3>5. kind \in {"rename", "rendir"}
      OBVIOUS
    <3> HIDE DEF keys, kind, new
    <3> QED
      BY <3>1, <3>2, <3>3, <3>4, <3>5, JobStarted
  <2> QED
    BY <2>1, <2>2
<1>14. CASE EnterMkdir \/ LeaveMkdir
  BY <1>14, <1>quiet DEF EnterMkdir, LeaveMkdir, Ready, listVars, netVars, dialogVars, DialogModes
<1>15. CASE Browsing /\ ExecuteMkdir
  <2> DEFINE marker == Append(prefix \o fields["mkdir"].text, DirMarker)
  <2>1. CASE fields["mkdir"].text # <<>> /\ connected
    <3>1. /\ mode = "MkdirInput" /\ StartJob("mkdir", {marker}, <<>>)
          /\ UNCHANGED <<target, asked, detail, mode, prefix, entries, selected, items, pending>>
      BY <1>15, <2>1 DEF ExecuteMkdir, Browsing, Ready, listVars
    <3>2. prefix \in Paths /\ fields["mkdir"].text \in Paths /\ DirMarker \in Names /\ <<>> \in Paths
      BY DirMarkerAssumption, EmptyFieldIs DEF TuiInv, ListTypes, FieldTypes, FieldValues, FieldNames
    <3>3. marker \in Paths
      BY <3>2 DEF Paths
    <3> HIDE DEF marker
    <3>4. {marker} \in SUBSET Paths /\ IsFiniteSet({marker})
      BY <3>3, FS_Singleton
    <3> QED
      BY <3>1, <3>2, <3>4, JobStarted
  <2>2. CASE ~(fields["mkdir"].text # <<>> /\ connected)
    BY <1>15, <2>2, <1>quiet DEF ExecuteMkdir, Ready, DialogModes
  <2> QED
    BY <2>1, <2>2
<1>16. CASE Browsing /\ Request
  <2> DEFINE x == Least(job.todo)
  <2>1. /\ job.todo # {} /\ UNCHANGED <<target, asked, detail, mode, prefix, entries, selected, items, pending, changes>>
        /\ \/ server' = After(x) /\ job' = [job EXCEPT !.todo = @ \ {x}, !.done = @ \cup {x}]
           \/ server' \in {server, After(x)} /\ job' = [job EXCEPT !.todo = @ \ {x}, !.failed = @ \cup {x}]
    BY <1>16 DEF Request, Browsing, listVars, dialogVars
  <2>2. /\ x \in job.todo /\ x \in Paths
    BY <2>1, AfterIs
  <2> HIDE DEF x
  <2>3. JobTypes /\ JobMode /\ Questions /\ JobAsked /\ DetailIsSelected
    BY DEF TuiInv, ViewsFresh
  <2>4. /\ job'.kind = job.kind /\ job'.todo = job.todo \ {x} /\ job'.to = job.to
        /\ \/ server' = After(x) /\ job'.done = job.done \cup {x} /\ job'.failed = job.failed
           \/ server' \in {server, After(x)} /\ job'.failed = job.failed \cup {x} /\ job'.done = job.done
        /\ job' \in [kind : JobKinds, todo : SUBSET Paths, done : SUBSET Paths, failed : SUBSET Paths, to : Paths]
    <3>1. job \in [kind : JobKinds, todo : SUBSET Paths, done : SUBSET Paths, failed : SUBSET Paths, to : Paths]
      BY <2>3 DEF JobTypes
    <3>2. CASE server' = After(x) /\ job' = [job EXCEPT !.todo = @ \ {x}, !.done = @ \cup {x}]
      BY <2>2, <3>1, <3>2
    <3>3. CASE server' \in {server, After(x)} /\ job' = [job EXCEPT !.todo = @ \ {x}, !.failed = @ \cup {x}]
      BY <2>2, <3>1, <3>3
    <3> QED
      BY <2>1, <3>2, <3>3
  <2>5. IsFiniteSet(job'.todo) /\ job.kind # "none"
    BY <2>2, <2>3, <2>4, FS_RemoveElement DEF JobTypes, NoJob
  <2>6. JobTypes' /\ JobMode'
    BY <2>1, <2>2, <2>3, <2>4, <2>5 DEF JobTypes, JobMode
  <2>7. OnEntry' = OnEntry /\ Entry' = Entry /\ EntryPath' = EntryPath
    BY <2>1 DEF OnEntry, Entry, EntryPath
  <2>8. Questions' /\ DetailIsSelected'
    BY <2>1, <2>3, <2>7 DEF Questions, DetailIsSelected
  <2>9. job.kind = "deldir" => After(x) = server \ {x}
    BY DEF After
  <2>10. JobAsked'
    BY <2>1, <2>2, <2>3, <2>4, <2>9 DEF JobAsked
  <2> QED
    BY <2>6, <2>8, <2>10 DEF DialogsOK
<1>17. CASE Refresh \/ NoRefresh
  BY <1>17, <1>quiet DEF Refresh, NoRefresh, Cleared, Ready, listVars, netVars, dialogVars, DialogModes
<1>18. CASE AskRefresh
  BY <1>18, <1>types, OnlyRefresh DEF AskRefresh, StartJob, Ready, dialogVars
<1>19. CASE Browsing /\ OtherClient
  <2>1. changes' = changes + 1 /\ changes \in Nat
    BY <1>19 DEF OtherClient, TuiInv, ListTypes
  <2>2. changes' # 0
    BY <2>1
  <2> QED
    BY <1>19, <2>2, DialogsFrame DEF Browsing, OtherClient, listVars, dialogVars
<1>20. CASE EnterStore \/ BackToPathBrowser \/ PathMove
  BY <1>20, <1>quiet DEF EnterStore, BackToPathBrowser, PathMove, KeepsOthers, Ready, listVars, netVars, dialogVars, DialogModes
<1>21. CASE PathEnter \/ PathGoUp \/ ConfirmNewDir
  BY <1>21, <1>quiet DEF PathEnter, PathGoUp, ConfirmNewDir, PathGo, KeepsOthers, Ready, listVars, netVars, dialogVars, DialogModes
<1>22. CASE EnterNewDir \/ EditNewDir \/ LeaveNewDir \/ LeavePathBrowser
  BY <1>22, <1>quiet DEF EnterNewDir, EditNewDir, LeaveNewDir, LeavePathBrowser, PathTo, KeepsOthers, Ready, listVars, netVars, dialogVars, DialogModes
<1>23. CASE AdvanceToFileBrowser \/ SelectFile \/ LeaveFileBrowser
  BY <1>23, <1>quiet DEF AdvanceToFileBrowser, SelectFile, LeaveFileBrowser, KeepsOthers, Ready, listVars, netVars, dialogVars, DialogModes
<1>24. CASE BrowserMove \/ ToggleMark \/ TypeFilter
  BY <1>24, <1>quiet DEF BrowserMove, ToggleMark, TypeFilter, StaysInBrowser, SetFilter, KeepsOthers, Ready, listVars, netVars, dialogVars, DialogModes
<1>25. CASE BrowserEnter \/ BrowserGoUp
  BY <1>25, <1>quiet DEF BrowserEnter, BrowserGoUp, BrowserGo, StaysInBrowser, KeepsOthers, Ready, listVars, netVars, dialogVars, DialogModes
<1>26. CASE AskClearMarks \/ AnswerClearMarks \/ EnterFilter \/ LeaveFilter
  BY <1>26, <1>quiet DEF AskClearMarks, AnswerClearMarks, EnterFilter, LeaveFilter, FileMode, StaysInBrowser, KeepsOthers, Ready, listVars, netVars, dialogVars, DialogModes
<1>27. CASE ToggleHidden
  BY <1>27, <1>quiet DEF ToggleHidden, Ready, listVars, netVars, dialogVars, DialogModes
<1>28. CASE PrepareUpload
  <2>1. PICK batch : Stage(batch)
    BY <1>28 DEF PrepareUpload
  <2>2. /\ job = NoJob /\ job' = job /\ target' = target /\ mode' = "UploadConfirm"
        /\ asked' = KeysOf(pending')
    BY <1>28, <2>1 DEF PrepareUpload, Ready, Stage, netVars
  <2>3. JobTypes' /\ JobMode' /\ JobAsked'
    BY <2>2 DEF TuiInv, JobTypes, JobMode, JobAsked, NoJob
  <2>4. Questions' /\ DetailIsSelected'
    BY <2>2 DEF Questions, DetailIsSelected, KeysOf
  <2> QED
    BY <2>3, <2>4 DEF DialogsOK
<1>29. CASE CancelPending
  BY <1>29, <1>quiet DEF CancelPending, Ready, listVars, netVars, dialogVars, DialogModes
<1>30. CASE ConfirmUpload
  BY <1>30, <1>quiet DEF ConfirmUpload, BeginUpload, Ready, listVars, netVars, dialogVars, DialogModes
<1>31. CASE EditStoreKey
  BY <1>31, DialogsFrame DEF EditStoreKey, Edit, listVars, netVars, dialogVars
<1>32. CASE LeaveStoreKey
  BY <1>32, <1>quiet DEF LeaveStoreKey, PathTo, KeepsOthers, Ready, listVars, netVars, dialogVars, DialogModes
<1>33. CASE StoreFile
  BY <1>33, <1>quiet DEF StoreFile, BeginUpload, Ready, listVars, netVars, dialogVars, DialogModes
<1>34. CASE Uploads
  <2>1. UNCHANGED <<job, target, asked, detail, mode, prefix, entries, selected, items, pending>>
        /\ worker.pc # "off" /\ mode # "Exited"
    BY <1>34 DEF Uploads, WorkerStart, WorkerCannotRead, WorkerSends, WorkerAnswered, WorkerStops, Working,
                 WorkerKeeps, listVars, dialogVars
  <2>2. job.kind # "deldir"
    BY <2>1 DEF TuiInv, WorkerOK, JobMode
  <2> QED
    BY <2>1, <2>2, DialogsFrame
<1>35. CASE DrainEvent
  <2>1. CASE Head(queue).ev = "Finished"
    BY <1>35, <2>1, <1>types, OnlyRefresh DEF DrainEvent, StartJob, dialogVars
  <2>2. CASE Head(queue).ev # "Finished"
    BY <1>35, <2>2, <1>quiet DEF DrainEvent, DialogModes, dialogVars
  <2> QED
    BY <2>1, <2>2
<1>36. CASE CancelUpload
  BY <1>36, DialogsFrame DEF CancelUpload, browseVars, listVars, netVars, dialogVars
<1>37. CASE Quit
  BY <1>37, <1>quiet DEF Quit, Ready, listVars, netVars, dialogVars, DialogModes
<1> QED
  BY <1>1, <1>2, <1>3, <1>4, <1>5, <1>6, <1>7, <1>8, <1>9, <1>10, <1>11, <1>12, <1>13, <1>14, <1>15, <1>16, <1>17, <1>18, <1>19, <1>20, <1>21, <1>22, <1>23, <1>24, <1>25, <1>26, <1>27, <1>28, <1>29, <1>30, <1>31, <1>32, <1>33, <1>34, <1>35, <1>36, <1>37 DEF Next, Browsing, BrowseNext, Choosing

-----------------------------------------------------------------------------
(* Modes and what was chosen for an upload *)

Modes == {"Normal", "Search", "PathBrowser", "NewDirInput", "StoreKey", "FileBrowser",
          "BrowserFilter", "UploadConfirm", "ClearMarksConfirm", "DeleteConfirm",
          "DeleteDirConfirm", "Detail", "RenameInput", "MkdirInput", "Uploading", "Exited"}

\* What the invariant says of the mode and the files chosen.
ChosenOK == /\ mode \in Modes /\ (pending # {} <=> mode = "UploadConfirm")
            /\ PendingTypes

\* A handler that chooses no files.
LEMMA ChosenFrame ==
  ASSUME TuiInv, pending' = pending,
         mode' = mode \/ (mode # "UploadConfirm" /\ mode' \in Modes \ {"UploadConfirm"})
  PROVE  ChosenOK'
  BY DEF TuiInv, ViewsFresh, TuiTypeOK, PendingTypes, ChosenOK, Modes

\* One that drops those that were chosen.
LEMMA ChosenDropped ==
  ASSUME pending' = {}, mode' \in Modes \ {"UploadConfirm"}
  PROVE  ChosenOK'
  BY FS_EmptySet DEF PendingTypes, ChosenOK

\* The key of a file below a directory, or of the file itself.
LEMMA KeyOfIs ==
  ASSUME TuiInv, NEW f \in LocalFiles, NEW base \in Paths, Len(base) <= Len(f)
  PROVE  [file |-> f, key |-> KeyOf(f, base)] \in Pairs
<1>1. f \in Paths /\ path_prefix \in Paths /\ Len(base) \in Nat
  BY FilesAssumption DEF Paths, TuiInv, Browsers
<1>2. SubSeq(f, Len(base) + 1, Len(f)) \in Paths
  BY <1>1, PartsOfPaths
<1>3. KeyOf(f, base) \in Paths
  BY <1>1, <1>2 DEF KeyOf, Paths
<1> QED
  BY <1>3 DEF Pairs

\* The files of a directory, of which there are some.
LEMMA DirFilesAre ==
  ASSUME TuiInv, NEW dir \in Paths, NEW base \in Paths, Len(base) <= Len(dir),
         \E f \in LocalFiles : Under(dir, f)
  PROVE  /\ MapDirFiles(dir, base) \subseteq Pairs /\ IsFiniteSet(MapDirFiles(dir, base))
         /\ MapDirFiles(dir, base) # {}
<1> DEFINE F == {f \in LocalFiles : Under(dir, f)}
           g == [f \in F |-> [file |-> f, key |-> KeyOf(f, base)]]
<1>1. IsFiniteSet(F)
  BY FilesAssumption, FS_Subset
<1>2. MapDirFiles(dir, base) = {[file |-> f, key |-> KeyOf(f, base)] : f \in F}
  BY DEF MapDirFiles
<1>3. ASSUME NEW f \in F PROVE [file |-> f, key |-> KeyOf(f, base)] \in Pairs
  <2>1. f \in LocalFiles /\ Len(dir) \in Nat /\ Len(base) \in Nat /\ Len(f) \in Nat /\ Len(f) > Len(dir)
    BY FilesAssumption DEF Under, Paths
  <2>2. Len(base) <= Len(f)
    BY <2>1
  <2> QED
    BY <2>1, <2>2, KeyOfIs
<1>4. g \in Surjection(F, MapDirFiles(dir, base))
  BY <1>2 DEF Surjection
<1>5. IsFiniteSet(MapDirFiles(dir, base))
  BY <1>1, <1>4, FS_Surjection
<1>6. F # {}
  OBVIOUS
<1> QED
  BY <1>2, <1>3, <1>5, <1>6

\* The files of one mark.
MarkFiles(m) == IF m \in LocalFiles THEN {[file |-> m, key |-> KeyOf(m, Parent(m))]}
                                    ELSE MapDirFiles(m, Parent(m))

\* The marked files, of which there are some.
LEMMA MarkedBatchIs ==
  ASSUME TuiInv, marked # {}
  PROVE  MarkedBatch \subseteq Pairs /\ IsFiniteSet(MarkedBatch) /\ MarkedBatch # {}
<1> DEFINE g == [m \in marked |-> MarkFiles(m)]
           Sets == {MarkFiles(m) : m \in marked}
<1>1. /\ marked \subseteq Paths /\ IsFiniteSet(marked)
      /\ \A m \in marked : m # <<>> /\ (m \in LocalFiles \/ \E f \in LocalFiles : Under(m, f))
  BY DEF TuiInv, Browsers
<1>2. ASSUME NEW m \in marked
      PROVE  MarkFiles(m) \subseteq Pairs /\ IsFiniteSet(MarkFiles(m)) /\ MarkFiles(m) # {}
  <2>1. m \in Paths /\ Parent(m) \in Paths /\ Len(Parent(m)) <= Len(m)
    BY <1>1, ParentIs
  <2>2. CASE m \in LocalFiles
    <3>1. [file |-> m, key |-> KeyOf(m, Parent(m))] \in Pairs
      BY <2>1, <2>2, KeyOfIs
    <3> QED
      BY <2>2, <3>1, FS_Singleton DEF MarkFiles
  <2>3. CASE m \notin LocalFiles
    <3>1. \E f \in LocalFiles : Under(m, f)
      BY <1>1, <2>3
    <3> QED
      BY <2>1, <2>3, <3>1, DirFilesAre DEF MarkFiles
  <2> QED
    BY <2>2, <2>3
<1>3. MarkedBatch = UNION Sets
  BY DEF MarkedBatch, MarkFiles
<1>4. g \in Surjection(marked, Sets)
  BY DEF Surjection
<1>5. IsFiniteSet(Sets)
  BY <1>1, <1>4, FS_Surjection
<1>6. \A T \in Sets : IsFiniteSet(T) /\ T \subseteq Pairs /\ T # {}
  BY <1>2
<1>7. IsFiniteSet(UNION Sets)
  BY <1>5, <1>6, FS_UNION
<1>8. Sets # {}
  OBVIOUS
<1> HIDE DEF Sets
<1> QED
  BY <1>3, <1>6, <1>7, <1>8

\* Every handler leaves the program in one of its modes, and files to upload
\* exist while the question about them is on the screen and at no other time.
LEMMA ChosenStep ==
  ASSUME TuiInv, Next
  PROVE  ChosenOK'
<1> USE DEF Modes
<1>1. CASE Browsing
  <2>1. mode' = mode \/ (mode # "UploadConfirm" /\ mode' \in Modes \ {"UploadConfirm"})
    <3>1. CASE MoveSelection \/ WheelElsewhere \/ BrowseInto \/ ViewDetail \/ BrowseUp \/ LeaveDetail
      BY <3>1 DEF MoveSelection, MoveTo, WheelElsewhere, browseVars, BrowseInto, ViewDetail, BrowseUp, LeaveDetail, Ready
    <3>2. CASE EnterSearch \/ LeaveSearch \/ ExecuteSearch
      BY <3>2 DEF EnterSearch, LeaveSearch, ExecuteSearch, ToMode, Ready
    <3>3. CASE EnterDelete \/ RefuseDelete \/ ConfirmDelete \/ ConfirmDeleteDir
      BY <3>3 DEF EnterDelete, RefuseDelete, ConfirmDelete, ConfirmDeleteDir, Ready
    <3>4. CASE EnterRename \/ LeaveRename \/ EditRename \/ ExecuteRename
      BY <3>4 DEF EnterRename, LeaveRename, EditRename, Edit, ExecuteRename, Ready
    <3>5. CASE EnterMkdir \/ LeaveMkdir \/ EditMkdir \/ ExecuteMkdir
      BY <3>5 DEF EnterMkdir, LeaveMkdir, EditMkdir, Edit, ExecuteMkdir, Ready
    <3>6. CASE Request \/ AskRefresh \/ OtherClient
      BY <3>6 DEF Request, AskRefresh, OtherClient
    <3>7. CASE Refresh \/ NoRefresh
      <4>1. mode' = "Normal" /\ job # NoJob
        BY <3>7 DEF Refresh, NoRefresh, Cleared
      <4>2. mode # "UploadConfirm"
        BY <4>1 DEF TuiInv, JobTypes, JobMode, JobKinds
      <4> QED
        BY <4>1, <4>2
    <3> QED
      BY <1>1, <3>1, <3>2, <3>3, <3>4, <3>5, <3>6, <3>7 DEF Browsing, BrowseNext
  <2> QED
    BY <1>1, <2>1, ChosenFrame DEF Browsing
<1>2. CASE EnterStore \/ BackToPathBrowser \/ PathMove
  BY <1>2, ChosenFrame DEF EnterStore, BackToPathBrowser, PathMove, KeepsOthers, Ready
<1>3. CASE PathEnter \/ PathGoUp \/ ConfirmNewDir
  BY <1>3, ChosenFrame DEF PathEnter, PathGoUp, ConfirmNewDir, PathGo, KeepsOthers, Ready
<1>4. CASE EnterNewDir \/ EditNewDir \/ LeaveNewDir \/ LeavePathBrowser
  BY <1>4, ChosenFrame DEF EnterNewDir, EditNewDir, LeaveNewDir, LeavePathBrowser, PathTo, KeepsOthers, Ready
<1>5. CASE AdvanceToFileBrowser \/ SelectFile \/ LeaveFileBrowser
  BY <1>5, ChosenFrame DEF AdvanceToFileBrowser, SelectFile, LeaveFileBrowser, KeepsOthers, Ready
<1>6. CASE BrowserMove \/ ToggleMark \/ TypeFilter
  BY <1>6, ChosenFrame DEF BrowserMove, ToggleMark, TypeFilter, StaysInBrowser, SetFilter, KeepsOthers, Ready
<1>7. CASE BrowserEnter \/ BrowserGoUp
  BY <1>7, ChosenFrame DEF BrowserEnter, BrowserGoUp, BrowserGo, StaysInBrowser, KeepsOthers, Ready
<1>8. CASE AskClearMarks \/ AnswerClearMarks \/ EnterFilter \/ LeaveFilter
  BY <1>8, ChosenFrame DEF AskClearMarks, AnswerClearMarks, EnterFilter, LeaveFilter, FileMode, StaysInBrowser, KeepsOthers, Ready
<1>9. CASE ToggleHidden
  BY <1>9, ChosenFrame DEF ToggleHidden, Ready
<1>10. CASE PrepareUpload
  <2>1. PICK batch : /\ Stage(batch) /\ mode = "FileBrowser"
                     /\ \/ marked # {} /\ batch = MarkedBatch
                        \/ OnLocal /\ LocalEntry.dir /\ batch = MapDirFiles(LocalPath, LocalPath)
    BY <1>10 DEF PrepareUpload, Ready
  <2>2. batch \subseteq Pairs /\ IsFiniteSet(batch) /\ batch # {}
    <3>1. CASE marked # {} /\ batch = MarkedBatch
      BY <3>1, MarkedBatchIs
    <3>2. CASE OnLocal /\ LocalEntry.dir /\ batch = MapDirFiles(LocalPath, LocalPath)
      <4>1. LocalPath \in Paths /\ \E f \in LocalFiles : Under(LocalPath, f)
        BY <2>1, <3>2, LocalOK
      <4>2. Len(LocalPath) <= Len(LocalPath)
        BY <4>1 DEF Paths
      <4> QED
        BY <3>2, <4>1, <4>2, DirFilesAre
    <3> QED
      BY <2>1, <3>1, <3>2
  <2> QED
    BY <2>1, <2>2 DEF Stage, ChosenOK, PendingTypes
<1>11. CASE CancelPending \/ ConfirmUpload
  BY <1>11, ChosenDropped DEF CancelPending, ConfirmUpload, BeginUpload
<1>12. CASE EditStoreKey \/ LeaveStoreKey \/ StoreFile
  BY <1>12, ChosenFrame DEF EditStoreKey, Edit, LeaveStoreKey, PathTo, KeepsOthers, StoreFile, BeginUpload, Ready
<1>13. CASE Uploads
  BY <1>13, ChosenFrame DEF Uploads, WorkerStart, WorkerCannotRead, WorkerSends, WorkerAnswered, WorkerStops, WorkerKeeps, Ready
<1>14. CASE DrainEvent \/ CancelUpload \/ Quit
  BY <1>14, ChosenFrame DEF DrainEvent, CancelUpload, Quit, browseVars, Ready
<1> QED
  BY <1>1, <1>2, <1>3, <1>4, <1>5, <1>6, <1>7, <1>8, <1>9, <1>10, <1>11, <1>12, <1>13, <1>14 DEF Next, Choosing

-----------------------------------------------------------------------------
(* Events on their way and bytes to go *)

EventsIn(q, ev) == {i \in 1..Len(q) : q[i].ev = ev}

\* The events of a kind are a number, and the places of events are few.
LEMMA EventsCounted ==
  ASSUME NEW q \in Seq(Events), NEW ev
  PROVE  IsFiniteSet(EventsIn(q, ev)) /\ Cardinality(EventsIn(q, ev)) \in Nat
<1>1. Len(q) \in Nat /\ EventsIn(q, ev) \subseteq 1..Len(q)
  BY DEF EventsIn
<1>2. IsFiniteSet(1..Len(q))
  BY <1>1, FS_Interval
<1>3. IsFiniteSet(EventsIn(q, ev))
  BY <1>1, <1>2, FS_Subset
<1> QED
  BY <1>3, FS_CardinalityType

\* An event more.
LEMMA AppendCounts ==
  ASSUME NEW q \in Seq(Events), NEW e \in Events, NEW ev
  PROVE  Cardinality(EventsIn(Append(q, e), ev)) = Cardinality(EventsIn(q, ev)) + (IF e.ev = ev THEN 1 ELSE 0)
<1>0. Len(q) \in Nat /\ Len(q) + 1 \notin 1..Len(q) /\ Len(Append(q, e)) = Len(q) + 1
  OBVIOUS
<1>1. \A i \in 1..Len(q) : Append(q, e)[i] = q[i]
  OBVIOUS
<1>2. Append(q, e)[Len(q) + 1] = e
  OBVIOUS
<1>3. 1..(Len(q) + 1) = 1..Len(q) \cup {Len(q) + 1}
  BY <1>0
<1>4. IsFiniteSet(EventsIn(q, ev)) /\ Cardinality(EventsIn(q, ev)) \in Nat /\ Len(q) + 1 \notin EventsIn(q, ev)
  BY <1>0, EventsCounted DEF EventsIn
<1>5. CASE e.ev = ev
  <2>1. EventsIn(Append(q, e), ev) = EventsIn(q, ev) \cup {Len(q) + 1}
    BY <1>0, <1>1, <1>2, <1>3, <1>5 DEF EventsIn
  <2> QED
    BY <2>1, <1>4, <1>5, FS_AddElement, ZenonT(60)
<1>6. CASE e.ev # ev
  <2>1. EventsIn(Append(q, e), ev) = EventsIn(q, ev)
    BY <1>0, <1>1, <1>2, <1>3, <1>6 DEF EventsIn
  <2> QED
    BY <2>1, <1>4, <1>6
<1> QED
  BY <1>5, <1>6

\* An event less.
LEMMA TailCounts ==
  ASSUME NEW q \in Seq(Events), q # <<>>, NEW ev
  PROVE  Cardinality(EventsIn(q, ev)) = Cardinality(EventsIn(Tail(q), ev)) + (IF Head(q).ev = ev THEN 1 ELSE 0)
<1> DEFINE t == Tail(q)
           R == EventsIn(q, ev) \ {1}
           f == [i \in EventsIn(t, ev) |-> i + 1]
<1>0. /\ t \in Seq(Events) /\ Len(q) \in Nat /\ Len(q) >= 1 /\ Len(t) = Len(q) - 1 /\ Len(t) \in Nat
      /\ Head(q) = q[1] /\ \A i \in 1..Len(t) : t[i] = q[i + 1]
  BY EmptySeq
<1> HIDE DEF t
<1>1. EventsIn(t, ev) \subseteq 1..Len(t) /\ \A i \in EventsIn(t, ev) : i \in 1..Len(t) /\ t[i].ev = ev
  BY DEF EventsIn
<1>2. f \in Bijection(EventsIn(t, ev), R)
  <2>1. \A i \in EventsIn(t, ev) : f[i] \in R
    BY <1>0, <1>1 DEF EventsIn
  <2>2. \A i, j \in EventsIn(t, ev) : f[i] = f[j] => i = j
    BY <1>0, <1>1
  <2>3. ASSUME NEW j \in R PROVE \E i \in EventsIn(t, ev) : f[i] = j
    <3>1. j \in 2..Len(q) /\ q[j].ev = ev
      BY <1>0 DEF EventsIn
    <3>2. j - 1 \in 1..Len(t) /\ t[j - 1] = q[j]
      BY <3>1, <1>0
    <3>3. j - 1 \in EventsIn(t, ev)
      BY <3>1, <3>2 DEF EventsIn
    <3> QED
      BY <3>1, <3>3
  <2>4. f \in [EventsIn(t, ev) -> R]
    BY <2>1
  <2> HIDE DEF f, R
  <2>5. f \in Injection(EventsIn(t, ev), R)
    BY <2>2, <2>4 DEF Injection, IsInjective
  <2>6. f \in Surjection(EventsIn(t, ev), R)
    BY <2>3, <2>4 DEF Surjection
  <2> QED
    BY <2>5, <2>6 DEF Bijection
<1>3. IsFiniteSet(EventsIn(t, ev)) /\ Cardinality(EventsIn(t, ev)) \in Nat
  BY <1>0, EventsCounted
<1> DEFINE T == EventsIn(t, ev)
<1>r. R = EventsIn(q, ev) \ {1} /\ T = EventsIn(t, ev)
  OBVIOUS
<1> HIDE DEF f, R, T
<1>4. IsFiniteSet(R) /\ Cardinality(R) = Cardinality(T)
  BY <1>2, <1>3, <1>r, FS_Bijection DEF ExistsBijection
<1>5. CASE Head(q).ev = ev
  <2>1. EventsIn(q, ev) = R \cup {1} /\ 1 \notin R
    BY <1>0, <1>r, <1>5 DEF EventsIn
  <2>2. Cardinality(R \cup {1}) = Cardinality(R) + 1
    BY <2>1, <1>4, FS_AddElement
  <2> QED
    BY <2>1, <2>2, <1>3, <1>4, <1>5, <1>r DEF t
<1>6. CASE Head(q).ev # ev
  <2>1. EventsIn(q, ev) = R
    BY <1>0, <1>r, <1>6 DEF EventsIn
  <2> QED
    BY <2>1, <1>3, <1>4, <1>6, <1>r DEF t
<1> QED
  BY <1>5, <1>6

SizeOf == [p \in Pairs |-> Size[p.file]]

\* The bytes of a batch are a sum of sizes.
LEMMA BatchIsSum ==
  ASSUME NEW B \in SUBSET Pairs, IsFiniteSet(B)
  PROVE  Weights(SizeOf, B) /\ \E g : IsSum(g, SizeOf, B) /\ BytesOf(B) = g[B]
<1> DEFINE w == SizeOf
           f == CHOOSE f : f = [s \in SUBSET B |-> IF s = {} THEN 0
                  ELSE Size[(CHOOSE x \in s : TRUE).file] + f[s \ {CHOOSE x \in s : TRUE}]]
<1>1. \A p \in Pairs : w[p] = Size[p.file] /\ Size[p.file] \in Nat
  BY SizeAssumption DEF SizeOf, Pairs
<1>2. Weights(w, B)
  BY <1>1 DEF Weights
<1>3. BytesOf(B) = f[B]
  BY DEF BytesOf, MapThenSumSet, MapThenFoldSet
<1> HIDE DEF w, f
<1>4. PICK g : IsSum(g, w, B)
  BY <1>2, SumsExist
<1> DEFINE a(h) == [s \in SUBSET B |-> IF s = {} THEN 0
                     ELSE Size[(CHOOSE x \in s : TRUE).file] + h[s \ {CHOOSE x \in s : TRUE}]]
           b(h) == [s \in SUBSET B |-> IF s = {} THEN 0 ELSE w[Picked(s)] + h[s \ {Picked(s)}]]
<1>5. ASSUME NEW h PROVE a(h) = b(h)
  <2>1. ASSUME NEW s \in SUBSET B PROVE a(h)[s] = b(h)[s]
    <3>1. CASE s = {}
      BY <3>1
    <3>2. CASE s # {}
      <4>1. (CHOOSE x \in s : TRUE) = Picked(s) /\ Picked(s) \in s
        BY <3>2 DEF Picked
      <4>2. w[Picked(s)] = Size[Picked(s).file]
        BY <4>1, <1>1
      <4>3. a(h)[s] = Size[(CHOOSE x \in s : TRUE).file] + h[s \ {CHOOSE x \in s : TRUE}]
        BY <3>2
      <4>4. b(h)[s] = w[Picked(s)] + h[s \ {Picked(s)}]
        BY <3>2
      <4> HIDE DEF a, b
      <4> QED
        BY <4>1, <4>2, <4>3, <4>4
    <3> QED
      BY <3>1, <3>2
  <2> QED
    BY <2>1
<1>6. g = a(g)
  <2>1. g = b(g)
    BY <1>4 DEF IsSum
  <2> HIDE DEF a, b
  <2> QED
    BY <2>1, <1>5
<1>7. f = a(f)
  BY <1>6 DEF f
<1>8. IsSum(f, w, B)
  <2>1. f = b(f)
    <3> HIDE DEF a, b
    <3> QED
      BY <1>5, <1>7
  <2> QED
    BY <2>1 DEF IsSum
<1> QED
  BY <1>2, <1>3, <1>8 DEF w

\* Nothing is left of no files,
LEMMA NoBytes == BytesOf({}) = 0
<1>1. {} \in SUBSET Pairs /\ IsFiniteSet({})
  BY FS_EmptySet
<1>2. PICK g : IsSum(g, SizeOf, {}) /\ BytesOf({}) = g[{}]
  BY <1>1, BatchIsSum
<1> QED
  BY <1>2, SumsEmpty

\* and a file taken from a batch takes its bytes along.
LEMMA BytesTaken ==
  ASSUME NEW B \in SUBSET Pairs, IsFiniteSet(B), NEW p \in B
  PROVE  /\ BytesOf(B) = Size[p.file] + BytesOf(B \ {p})
         /\ Size[p.file] \in Nat /\ BytesOf(B) \in Nat /\ BytesOf(B \ {p}) \in Nat
<1> DEFINE C == B \ {p}
           w == SizeOf
<1>0. /\ C \in SUBSET Pairs /\ IsFiniteSet(C) /\ C \in SUBSET B /\ C \in SUBSET C /\ B \in SUBSET B
      /\ p \notin C /\ C \cup {p} = B
  BY FS_RemoveElement
<1> HIDE DEF C, w
<1>1. PICK g : IsSum(g, w, B) /\ BytesOf(B) = g[B]
  BY BatchIsSum DEF w
<1>2. PICK h : IsSum(h, w, C) /\ BytesOf(C) = h[C]
  BY <1>0, BatchIsSum DEF w
<1>3. Weights(w, B) /\ Weights(w, C)
  BY <1>0, BatchIsSum DEF w
<1>4. h[C] = g[C] /\ h[C] \in Nat
  BY <1>0, <1>1, <1>2, <1>3, SumsAgree
<1>5. \A T \in SUBSET B, x \in B : x \notin T => g[T \cup {x}] = w[x] + g[T]
  BY <1>1, <1>3, SumsAdd
<1>6. g[B] = w[p] + g[C]
  BY <1>0, <1>5
<1>7. w[p] = Size[p.file] /\ Size[p.file] \in Nat
  BY SizeAssumption DEF w, SizeOf, Pairs
<1>8. BytesOf(B) = Size[p.file] + BytesOf(C) /\ BytesOf(C) \in Nat
  BY <1>1, <1>2, <1>4, <1>6, <1>7
<1> QED
  BY <1>7, <1>8 DEF C

\* The bytes of a batch are a number.
LEMMA BytesOfInNat ==
  ASSUME NEW B \in SUBSET Pairs, IsFiniteSet(B)
  PROVE  BytesOf(B) \in Nat
<1>1. CASE B = {}
  BY <1>1, NoBytes
<1>2. CASE B # {}
  <2>1. PICK p : p \in B
    BY <1>2
  <2> QED
    BY <2>1, BytesTaken
<1> QED
  BY <1>1, <1>2

-----------------------------------------------------------------------------
(* What the event loop will show *)

\* Counting an event.
LEMMA CountedIs ==
  ASSUME NEW v \in Views, NEW e \in Events
  PROVE  /\ Counted(v, e) \in Views
         /\ Counted(v, e).total = v.total /\ Counted(v, e).bytes = v.bytes
         /\ Counted(v, e).current = v.current + (IF e.ev = "Started" THEN 1 ELSE 0)
         /\ Counted(v, e).ok = v.ok + (IF e.ev = "FileCompleted" THEN 1 ELSE 0)
         /\ Counted(v, e).bad = v.bad + (IF e.ev = "FileFailed" THEN 1 ELSE 0)
         /\ Counted(v, e).done = v.done + (IF e.ev \in {"FileCompleted", "FileFailed"} THEN v.size ELSE 0)
         /\ Counted(v, e).size = (IF e.ev = "Started" THEN e.n ELSE v.size)
         /\ Counted(v, e).sent = (CASE e.ev = "Started" -> 0 [] e.ev = "ChunkSent" -> e.n
                                    [] e.ev = "FileCompleted" -> v.size [] OTHER -> v.sent)
         /\ e.ev = "Finished" => Counted(v, e) = v
<1>1. e.n \in Nat /\ e.ev \in {"Started", "ChunkSent", "FileCompleted", "FileFailed", "Finished"}
  BY DEF Events
<1>v. v = [total |-> v.total, current |-> v.current, ok |-> v.ok, bad |-> v.bad, sent |-> v.sent,
           size |-> v.size, bytes |-> v.bytes, done |-> v.done]
      /\ v.total \in Nat /\ v.current \in Nat /\ v.ok \in Nat /\ v.bad \in Nat /\ v.sent \in Nat
      /\ v.size \in Nat /\ v.bytes \in Nat /\ v.done \in Nat
  BY DEF Views
<1>2. CASE e.ev = "Started"
  <2>1. Counted(v, e) = [v EXCEPT !.current = @ + 1, !.sent = 0, !.size = e.n]
    BY <1>2 DEF Counted
  <2>2. Counted(v, e) = [total |-> v.total, current |-> v.current + 1, ok |-> v.ok, bad |-> v.bad, sent |-> 0,
                         size |-> e.n, bytes |-> v.bytes, done |-> v.done]
    BY <2>1, <1>v
  <2> QED
    BY <2>2, <1>1, <1>2, <1>v DEF Views
<1>3. CASE e.ev = "ChunkSent"
  BY <1>1, <1>3 DEF Counted, Views
<1>4. CASE e.ev = "FileCompleted"
  <2>1. Counted(v, e) = [v EXCEPT !.ok = @ + 1, !.sent = v.size, !.done = @ + v.size]
    BY <1>4 DEF Counted
  <2>2. Counted(v, e) = [total |-> v.total, current |-> v.current, ok |-> v.ok + 1, bad |-> v.bad, sent |-> v.size,
                         size |-> v.size, bytes |-> v.bytes, done |-> v.done + v.size]
    BY <2>1, <1>v
  <2> QED
    BY <2>2, <1>1, <1>4, <1>v DEF Views
<1>5. CASE e.ev = "FileFailed"
  <2>1. Counted(v, e) = [v EXCEPT !.bad = @ + 1, !.done = @ + v.size]
    BY <1>5 DEF Counted
  <2>2. Counted(v, e) = [total |-> v.total, current |-> v.current, ok |-> v.ok, bad |-> v.bad + 1, sent |-> v.sent,
                         size |-> v.size, bytes |-> v.bytes, done |-> v.done + v.size]
    BY <2>1, <1>v
  <2> QED
    BY <2>2, <1>1, <1>5, <1>v DEF Views
<1>6. CASE e.ev = "Finished"
  BY <1>1, <1>6 DEF Counted, Views
<1> QED
  BY <1>1, <1>2, <1>3, <1>4, <1>5, <1>6

\* One event more to count.
LEMMA DrainedMore ==
  ASSUME NEW q \in Seq(Events), NEW v, NEW h, Drained(h, q, v), NEW e \in Events,
         Bounded(Counted(h[Len(q) + 1], e))
  PROVE  \E g : Drained(g, Append(q, e), v) /\ g[Len(Append(q, e)) + 1] = Counted(h[Len(q) + 1], e)
<1> DEFINE n == Len(q)
           u == Counted(h[n + 1], e)
           g == [i \in 1..((n + 1) + 1) |-> IF i = (n + 1) + 1 THEN u ELSE h[i]]
           r == Append(q, e)
<1>1. n \in Nat /\ Len(r) = n + 1 /\ r[n + 1] = e /\ \A i \in 1..n : r[i] = q[i]
  OBVIOUS
<1>2. h[n + 1] \in Views /\ u \in Views
  BY <1>1, CountedIs DEF Drained
<1> HIDE DEF u, r
<1>3. g \in [1..(Len(r) + 1) -> Views]
  BY <1>1, <1>2 DEF Drained
<1>4. g[1] = v /\ g[(n + 1) + 1] = u /\ g[n + 1] = h[n + 1] /\ \A i \in 1..(n + 1) : g[i] = h[i]
  BY <1>1 DEF Drained
<1> HIDE DEF g
<1>5. ASSUME NEW i \in 1..Len(r) PROVE g[i + 1] = Counted(g[i], r[i])
  <2>1. CASE i = n + 1
    BY <2>1, <1>1, <1>4 DEF u
  <2>2. CASE i # n + 1
    <3>1. i \in 1..n /\ i \in 1..(n + 1) /\ i + 1 \in 1..(n + 1)
      BY <2>2, <1>1
    <3> QED
      BY <3>1, <1>1, <1>4 DEF Drained
  <2> QED
    BY <2>1, <2>2
<1>6. ASSUME NEW i \in 1..(Len(r) + 1) PROVE Bounded(g[i])
  <2>1. CASE i = (n + 1) + 1
    BY <2>1, <1>4 DEF u
  <2>2. CASE i # (n + 1) + 1
    <3>1. i \in 1..(n + 1)
      BY <2>2, <1>1
    <3> QED
      BY <3>1, <1>4 DEF Drained
  <2> QED
    BY <2>1, <2>2
<1>7. Drained(g, r, v) /\ g[Len(r) + 1] = u
  BY <1>1, <1>3, <1>4, <1>5, <1>6 DEF Drained
<1> QED
  BY <1>7 DEF r, u

\* One event counted.
LEMMA DrainedLess ==
  ASSUME NEW q \in Seq(Events), q # <<>>, NEW v, NEW h, Drained(h, q, v)
  PROVE  \E g : Drained(g, Tail(q), Counted(v, Head(q))) /\ g[Len(Tail(q)) + 1] = h[Len(q) + 1]
<1> DEFINE t == Tail(q)
           g == [i \in 1..(Len(t) + 1) |-> h[i + 1]]
<1>1. /\ t \in Seq(Events) /\ Len(q) \in Nat /\ Len(q) >= 1 /\ Len(t) = Len(q) - 1 /\ Len(t) \in Nat
      /\ Head(q) = q[1] /\ \A i \in 1..Len(t) : t[i] = q[i + 1]
  BY EmptySeq
<1> HIDE DEF t
<1>2. /\ \A i \in 1..(Len(t) + 1) : i + 1 \in 1..(Len(q) + 1) /\ g[i] = h[i + 1] /\ h[i + 1] \in Views
      /\ g \in [1..(Len(t) + 1) -> Views]
  <2>1. \A i \in 1..(Len(t) + 1) : i + 1 \in 1..(Len(q) + 1)
    BY <1>1
  <2>2. \A i \in 1..(Len(q) + 1) : h[i] \in Views
    BY DEF Drained
  <2>3. \A i \in 1..(Len(t) + 1) : g[i] = h[i + 1] /\ h[i + 1] \in Views
    BY <2>1, <2>2
  <2> QED
    BY <2>1, <2>3
<1> HIDE DEF g
<1>3. g[1] = Counted(v, Head(q)) /\ g[Len(t) + 1] = h[Len(q) + 1]
  <2>1. 1 \in 1..(Len(t) + 1) /\ 1 \in 1..Len(q) /\ Len(t) + 1 \in 1..(Len(t) + 1) /\ (Len(t) + 1) + 1 = Len(q) + 1
    BY <1>1
  <2>2. h[1 + 1] = Counted(h[1], q[1])
    BY <2>1 DEF Drained
  <2> QED
    BY <2>1, <2>2, <1>1, <1>2 DEF Drained
<1>4. ASSUME NEW i \in 1..Len(t) PROVE g[i + 1] = Counted(g[i], t[i])
  <2>1. i \in 1..(Len(t) + 1) /\ i + 1 \in 1..(Len(t) + 1) /\ i + 1 \in 1..Len(q)
    BY <1>1
  <2>2. h[(i + 1) + 1] = Counted(h[i + 1], q[i + 1])
    BY <2>1 DEF Drained
  <2> QED
    BY <2>1, <2>2, <1>1, <1>2
<1>5. ASSUME NEW i \in 1..(Len(t) + 1) PROVE Bounded(g[i])
  BY <1>2 DEF Drained
<1>6. Drained(g, t, Counted(v, Head(q))) /\ g[Len(t) + 1] = h[Len(q) + 1]
  BY <1>2, <1>3, <1>4, <1>5 DEF Drained
<1> QED
  BY <1>6 DEF t

\* Nothing to count.
LEMMA DrainedEmpty ==
  ASSUME NEW v \in Views, Bounded(v)
  PROVE  \E h : Drained(h, <<>>, v) /\ h[Len(<<>>) + 1] = v
<1> DEFINE h == [i \in 1..1 |-> v]
<1>1. Len(<<>>) = 0 /\ h \in [1..1 -> Views] /\ h[1] = v /\ \A i \in 1..1 : h[i] = v
  OBVIOUS
<1> HIDE DEF h
<1>2. Drained(h, <<>>, v) /\ h[Len(<<>>) + 1] = v
  BY <1>1 DEF Drained
<1> QED
  BY <1>2

\* What the worker reports keeps the progress within the batch when counting
\* it does.
LEMMA ProgressMore ==
  ASSUME TuiInv, mode = "Uploading", mode' = mode, view' = view, NEW e \in Events, queue' = Append(queue, e),
         \A v \in Views : UpToDate(v) /\ Bounded(v) => Bounded(Counted(v, e)) /\ UpToDate(Counted(v, e))'
  PROVE  ProgressOK'
<1>1. PICK h : Drained(h, queue, view) /\ UpToDate(h[Len(queue) + 1])
  BY DEF TuiInv, ProgressOK
<1>2. queue \in Seq(Events) /\ Len(queue) \in Nat
  BY DEF TuiInv, UploadTypes
<1>3. PICK v \in Views : v = h[Len(queue) + 1] /\ Bounded(v) /\ UpToDate(v)
  BY <1>1, <1>2 DEF Drained
<1>4. Bounded(Counted(v, e)) /\ UpToDate(Counted(v, e))'
  BY <1>3
<1>5. PICK g : Drained(g, Append(queue, e), view) /\ g[Len(Append(queue, e)) + 1] = Counted(v, e)
  BY <1>1, <1>2, <1>3, <1>4, DrainedMore
<1>6. Drained(g, queue', view') /\ UpToDate(g[Len(queue) + 1])'
  BY <1>4, <1>5 DEF UpToDate
<1>7. g \in [1..(Len(queue') + 1) -> Views]
  BY <1>6 DEF Drained
<1> QED
  BY <1>6, <1>7 DEF ProgressOK

-----------------------------------------------------------------------------
(* Uploads *)

\* What the invariant says of an upload.
UploadOK == UploadTypes /\ WorkerOK /\ BatchOK /\ CountsOK /\ ReportOK /\ ProgressOK

\* A step outside of an upload, or one that leaves it alone.
LEMMA UploadFrame ==
  ASSUME TuiInv, UNCHANGED uploadVars,
         \/ mode' = mode /\ asked' = asked
         \/ mode \notin {"Uploading", "Exited"} /\ mode' # "Uploading"
  PROVE  UploadOK'
<1>0. UNCHANGED <<view, queue, cancel, worker, report>>
  BY DEF uploadVars
<1>1. UploadTypes' /\ WorkerOK' /\ ReportOK'
  BY <1>0 DEF TuiInv, UploadTypes, Batch, WorkerOK, ReportOK, OutcomeTrue
<1>2. BatchOK' /\ CountsOK'
  BY <1>0 DEF TuiInv, BatchOK, Batch, CountsOK, Queued
<1>3. ProgressOK'
  BY <1>0 DEF TuiInv, ProgressOK, UpToDate
<1> QED
  BY <1>1, <1>2, <1>3 DEF UploadOK

\* An upload begins, if there is a client to carry it.
LEMMA UploadBegun ==
  ASSUME TuiInv, NEW batch \in SUBSET Pairs, IsFiniteSet(batch), BeginUpload(batch),
         mode \in {"UploadConfirm", "StoreKey"}, KeysOf(batch) \subseteq asked'
  PROVE  UploadOK'
<1>1. view' = BatchView(batch) /\ report' = "none"
  BY DEF BeginUpload
<1>2. /\ view \in Views /\ queue \in Seq(Events) /\ cancel \in BOOLEAN
      /\ worker \in [pc : {"off", "check", "call"}, left : SUBSET Pairs, cur : SUBSET Pairs,
                     sent : Nat, good : SUBSET Pairs, bad : SUBSET Pairs]
      /\ IsFiniteSet(Batch) /\ WorkerOK
  BY DEF TuiInv, UploadTypes
<1>3. Cardinality(batch) \in Nat /\ BytesOf(batch) \in Nat
  BY BytesOfInNat, FS_CardinalityType
<1>4. /\ view' \in Views /\ view'.total = Cardinality(batch) /\ view'.bytes = BytesOf(batch)
      /\ view'.current = 0 /\ view'.ok = 0 /\ view'.bad = 0 /\ view'.done = 0
  <2>1. view' = [view EXCEPT !.total = Cardinality(batch), !.current = 0, !.ok = 0, !.bad = 0, !.done = 0,
                             !.bytes = BytesOf(batch)]
    BY <1>1 DEF BatchView, BytesOf
  <2> QED
    BY <2>1, <1>2, <1>3 DEF Views
<1>5. CASE ~connected
  <2>1. mode' = "Normal" /\ UNCHANGED <<queue, cancel, worker>> /\ worker.pc = "off"
    BY <1>2, <1>5 DEF BeginUpload, WorkerOK
  <2>2. UploadTypes' /\ WorkerOK' /\ ReportOK'
    BY <2>1, <1>1, <1>2, <1>4 DEF UploadTypes, Batch, WorkerOK, ReportOK, OutcomeTrue
  <2>3. BatchOK' /\ CountsOK' /\ ProgressOK'
    BY <2>1 DEF BatchOK, CountsOK, ProgressOK
  <2> QED
    BY <2>2, <2>3 DEF UploadOK
<1>6. CASE connected
  <2>1. /\ mode' = "Uploading" /\ queue' = <<>> /\ cancel' = FALSE
        /\ worker' = [pc |-> "check", left |-> batch, cur |-> {}, sent |-> 0, good |-> {}, bad |-> {}]
    BY <1>6 DEF BeginUpload, NoWorker
  <2>2. Batch' = batch /\ Len(<<>>) = 0 /\ <<>> \in Seq(Events)
    BY <2>1 DEF Batch
  <2>3. UploadTypes'
    BY <2>1, <2>2, <1>4 DEF UploadTypes
  <2>4. WorkerOK'
    BY <2>1, <2>2 DEF WorkerOK
  <2>5. ReportOK'
    BY <1>1 DEF ReportOK, OutcomeTrue
  <2>6. BatchOK'
    BY <2>1, <2>2, <1>4 DEF BatchOK
  <2>7. CountsOK'
    <3>1. Queued("Started")' = 0 /\ Queued("FileCompleted")' = 0 /\ Queued("FileFailed")' = 0
      <4>1. ASSUME NEW ev PROVE {i \in 1..Len(queue') : queue'[i].ev = ev} = {}
        BY <2>1, <2>2
      <4> QED
        BY <4>1, FS_EmptySet DEF Queued
    <3>2. Cardinality((worker.good \cup worker.bad \cup worker.cur)') = 0
          /\ Cardinality(worker'.good) = 0 /\ Cardinality(worker'.bad) = 0
      BY <2>1, FS_EmptySet
    <3> QED
      BY <3>1, <3>2, <1>4 DEF CountsOK
  <2>8. ProgressOK'
    <3>1. Bounded(view')
      BY <1>4 DEF Bounded
    <3>2. PICK h : Drained(h, <<>>, view') /\ h[Len(<<>>) + 1] = view'
      BY <3>1, <1>4, DrainedEmpty
    <3>3. UpToDate(view)'
      BY <2>1, <1>3, <1>4 DEF UpToDate
    <3>4. Drained(h, queue', view') /\ UpToDate(h[Len(queue) + 1])'
      BY <2>1, <3>2, <3>3 DEF UpToDate
    <3>5. h \in [1..(Len(queue') + 1) -> Views]
      BY <3>4 DEF Drained
    <3> QED
      BY <3>4, <3>5 DEF ProgressOK
  <2> QED
    BY <2>3, <2>4, <2>5, <2>6, <2>7, <2>8 DEF UploadOK
<1> QED
  BY <1>5, <1>6

\* A step of the worker: it moves files from one of its places to another,
\* appends events and leaves the view to the event loop.
LEMMA WorkerStepped ==
  ASSUME TuiInv, worker.pc # "off", mode # "Exited", UNCHANGED <<mode, asked, view, cancel, report>>,
         NEW pc \in {"off", "check", "call"}, NEW left \in SUBSET Pairs, NEW cur \in SUBSET Pairs,
         NEW sent \in Nat, NEW good \in SUBSET Pairs, NEW bad \in SUBSET Pairs,
         worker' = [pc |-> pc, left |-> left, cur |-> cur, sent |-> sent, good |-> good, bad |-> bad],
         left \cup cur \cup good \cup bad = Batch,
         left \cap cur = {}, left \cap good = {}, left \cap bad = {},
         cur \cap good = {}, cur \cap bad = {}, good \cap bad = {},
         pc = "call" => \E p \in Pairs : cur = {p},
         pc = "check" => cur = {},
         pc = "off" /\ ~cancel => left = {} /\ cur = {},
         queue' \in Seq(Events),
         \A i \in 1..Len(queue') : queue'[i].ev = "Finished" => i = Len(queue') /\ pc = "off",
         CountsOK', ProgressOK'
  PROVE  UploadOK'
<1>1. /\ mode = "Uploading" /\ report = "none" /\ UploadTypes /\ BatchOK
  BY DEF TuiInv, WorkerOK, ReportOK
<1>2. Batch' = Batch
  BY DEF Batch
<1>3. UploadTypes'
  BY <1>1, <1>2 DEF UploadTypes
<1>4. WorkerOK'
  BY <1>1 DEF WorkerOK
<1>5. BatchOK'
  BY <1>1, <1>2 DEF BatchOK
<1>6. ReportOK'
  BY <1>1 DEF ReportOK, OutcomeTrue
<1> QED
  BY <1>3, <1>4, <1>5, <1>6 DEF UploadOK

\* The queue with an event more.
LEMMA QueueMore ==
  ASSUME TuiInv, worker.pc # "off", NEW e \in Events, queue' = Append(queue, e)
  PROVE  /\ queue' \in Seq(Events)
         /\ \A i \in 1..Len(queue') : queue'[i].ev = "Finished" => i = Len(queue') /\ e.ev = "Finished"
         /\ \A ev : Queued(ev) \in Nat /\ Queued(ev)' = Queued(ev) + (IF e.ev = ev THEN 1 ELSE 0)
<1>1. queue \in Seq(Events) /\ \A i \in 1..Len(queue) : queue[i].ev # "Finished"
  BY DEF TuiInv, UploadTypes, WorkerOK
<1>2. queue' \in Seq(Events) /\ Len(queue') = Len(queue) + 1 /\ Len(queue) \in Nat
      /\ \A i \in 1..Len(queue) : queue'[i] = queue[i]
  BY <1>1
<1>3. queue'[Len(queue')] = e
  BY <1>1
<1>4. \A i \in 1..Len(queue') : i = Len(queue') \/ i \in 1..Len(queue)
  BY <1>2
<1>5. ASSUME NEW ev
      PROVE  Queued(ev) \in Nat /\ Queued(ev)' = Queued(ev) + (IF e.ev = ev THEN 1 ELSE 0)
  <2>1. Queued(ev) = Cardinality(EventsIn(queue, ev)) /\ Queued(ev)' = Cardinality(EventsIn(Append(queue, e), ev))
    BY DEF Queued, EventsIn
  <2> QED
    BY <2>1, <1>1, EventsCounted, AppendCounts
<1> QED
  BY <1>1, <1>2, <1>3, <1>4, <1>5

\* The worker, taken apart.
LEMMA WorkerIs ==
  ASSUME TuiInv, worker.pc # "off", mode # "Exited"
  PROVE  /\ mode = "Uploading" /\ worker.pc \in {"check", "call"} /\ worker.sent \in Nat
         /\ worker = [pc |-> worker.pc, left |-> worker.left, cur |-> worker.cur, sent |-> worker.sent,
                      good |-> worker.good, bad |-> worker.bad]
         /\ worker.left \in SUBSET Pairs /\ worker.cur \in SUBSET Pairs
         /\ worker.good \in SUBSET Pairs /\ worker.bad \in SUBSET Pairs
         /\ IsFiniteSet(worker.left) /\ IsFiniteSet(worker.cur) /\ IsFiniteSet(worker.good) /\ IsFiniteSet(worker.bad)
         /\ worker.left \cap worker.cur = {} /\ worker.left \cap worker.good = {} /\ worker.left \cap worker.bad = {}
         /\ worker.cur \cap worker.good = {} /\ worker.cur \cap worker.bad = {} /\ worker.good \cap worker.bad = {}
         /\ worker.pc = "call" => \E p \in Pairs : worker.cur = {p}
         /\ worker.pc = "check" => worker.cur = {}
<1>1. /\ worker \in [pc : {"off", "check", "call"}, left : SUBSET Pairs, cur : SUBSET Pairs,
                     sent : Nat, good : SUBSET Pairs, bad : SUBSET Pairs]
      /\ IsFiniteSet(Batch) /\ WorkerOK
  BY DEF TuiInv, UploadTypes
<1>2. worker.left \subseteq Batch /\ worker.cur \subseteq Batch /\ worker.good \subseteq Batch /\ worker.bad \subseteq Batch
  BY DEF Batch
<1>3. IsFiniteSet(worker.left) /\ IsFiniteSet(worker.cur) /\ IsFiniteSet(worker.good) /\ IsFiniteSet(worker.bad)
  BY <1>1, <1>2, FS_Subset
<1>4. mode = "Uploading"
  BY <1>1 DEF WorkerOK
<1> QED
  BY <1>1, <1>3, <1>4 DEF WorkerOK

\* The counters during an upload.
LEMMA CountersAre ==
  ASSUME TuiInv, mode = "Uploading"
  PROVE  /\ view.current \in Nat /\ view.ok \in Nat /\ view.bad \in Nat /\ view.total \in Nat /\ view \in Views
         /\ view.current + Queued("Started") = Cardinality(worker.good \cup worker.bad \cup worker.cur)
         /\ view.ok + Queued("FileCompleted") = Cardinality(worker.good)
         /\ view.bad + Queued("FileFailed") = Cardinality(worker.bad)
  BY DEF TuiInv, UploadTypes, Views, CountsOK

\* A file is read and announced.
LEMMA StartStep ==
  ASSUME TuiInv, WorkerStart
  PROVE  UploadOK'
<1>1. PICK p \in worker.left :
        /\ worker' = [worker EXCEPT !.pc = "call", !.left = @ \ {p}, !.cur = {p}, !.sent = 0]
        /\ queue' = Append(queue, Event("Started", Size[p.file]))
  BY DEF WorkerStart
<1>2. /\ worker.pc = "check" /\ mode # "Exited" /\ UNCHANGED <<mode, asked, view, cancel, report>>
  BY DEF WorkerStart, Working, WorkerKeeps, dialogVars
<1>w. /\ mode = "Uploading" /\ worker.sent \in Nat
      /\ worker = [pc |-> worker.pc, left |-> worker.left, cur |-> worker.cur, sent |-> worker.sent,
                   good |-> worker.good, bad |-> worker.bad]
      /\ worker.left \in SUBSET Pairs /\ worker.good \in SUBSET Pairs /\ worker.bad \in SUBSET Pairs
      /\ IsFiniteSet(worker.left) /\ IsFiniteSet(worker.good) /\ IsFiniteSet(worker.bad)
      /\ worker.left \cap worker.good = {} /\ worker.left \cap worker.bad = {}
      /\ worker.good \cap worker.bad = {} /\ worker.cur = {}
  BY <1>2, WorkerIs
<1> DEFINE e == Event("Started", Size[p.file])
           left == worker.left \ {p}
<1>3. worker' = [pc |-> "call", left |-> left, cur |-> {p}, sent |-> 0, good |-> worker.good, bad |-> worker.bad]
  BY <1>1, <1>w
<1>4. /\ Size[p.file] \in Nat /\ BytesOf(worker.left) = Size[p.file] + BytesOf(left)
      /\ BytesOf(worker.left) \in Nat /\ BytesOf(left) \in Nat
  BY <1>w, BytesTaken
<1>5. e \in Events /\ e.ev = "Started" /\ e.n = Size[p.file]
  BY <1>4 DEF Event, Events
<1> HIDE DEF e
<1>6. queue' = Append(queue, e)
  BY <1>1 DEF e
<1>7. CountsOK'
  <2>1. /\ Queued("Started")' = Queued("Started") + 1 /\ Queued("FileCompleted")' = Queued("FileCompleted")
        /\ Queued("FileFailed")' = Queued("FileFailed")
        /\ Queued("Started") \in Nat /\ Queued("FileCompleted") \in Nat /\ Queued("FileFailed") \in Nat
    BY <1>2, <1>5, <1>6, QueueMore
  <2>2. IsFiniteSet(worker.good \cup worker.bad) /\ p \notin worker.good \cup worker.bad
    BY <1>w, FS_Union
  <2>3. Cardinality((worker.good \cup worker.bad) \cup {p}) = Cardinality(worker.good \cup worker.bad) + 1
    BY <2>2, FS_AddElement
  <2>4. worker'.good \cup worker'.bad \cup worker'.cur = (worker.good \cup worker.bad) \cup {p}
        /\ worker.good \cup worker.bad \cup worker.cur = worker.good \cup worker.bad
        /\ worker'.good = worker.good /\ worker'.bad = worker.bad
    BY <1>3, <1>w
  <2>5. Cardinality(worker.good \cup worker.bad) \in Nat
    BY <2>2, FS_CardinalityType
  <2> QED
    BY <2>1, <2>3, <2>4, <2>5, <1>2, <1>w, CountersAre DEF CountsOK
<1>8. ProgressOK'
  <2>1. ASSUME NEW v \in Views, UpToDate(v), Bounded(v)
        PROVE  Bounded(Counted(v, e)) /\ UpToDate(Counted(v, e))'
    <3>1. /\ v.current = v.ok + v.bad /\ v.done + BytesOf(worker.left) <= v.bytes
          /\ v.done \in Nat /\ v.bytes \in Nat /\ v.ok \in Nat /\ v.bad \in Nat
      BY <2>1, <1>2 DEF UpToDate, Views
    <3> DEFINE u == Counted(v, e)
    <3>2. /\ u.current = v.current + 1 /\ u.ok = v.ok /\ u.bad = v.bad /\ u.sent = 0 /\ u.size = Size[p.file]
          /\ u.done = v.done /\ u.bytes = v.bytes
      <4>1. /\ u.current = v.current + (IF e.ev = "Started" THEN 1 ELSE 0)
            /\ u.ok = v.ok + (IF e.ev = "FileCompleted" THEN 1 ELSE 0)
            /\ u.bad = v.bad + (IF e.ev = "FileFailed" THEN 1 ELSE 0)
            /\ u.done = v.done + (IF e.ev \in {"FileCompleted", "FileFailed"} THEN v.size ELSE 0)
            /\ u.size = (IF e.ev = "Started" THEN e.n ELSE v.size)
            /\ u.bytes = v.bytes
            /\ u.sent = (CASE e.ev = "Started" -> 0 [] e.ev = "ChunkSent" -> e.n
                           [] e.ev = "FileCompleted" -> v.size [] OTHER -> v.sent)
        BY <1>5, CountedIs
      <4> QED
        BY <4>1, <3>1, <1>5
    <3> HIDE DEF u
    <3>3. Bounded(u)
      BY <3>1, <3>2, <1>4 DEF Bounded
    <3>4. UpToDate(u)'
      BY <3>1, <3>2, <1>3, <1>4 DEF UpToDate
    <3> QED
      BY <3>3, <3>4 DEF u
  <2> QED
    BY <2>1, <1>2, <1>w, <1>5, <1>6, ProgressMore
<1>9. /\ queue' \in Seq(Events)
      /\ \A i \in 1..Len(queue') : queue'[i].ev = "Finished" => i = Len(queue') /\ e.ev = "Finished"
  BY <1>2, <1>5, <1>6, QueueMore
<1>10. /\ left \in SUBSET Pairs /\ p \in Pairs /\ {p} \in SUBSET Pairs
       /\ left \cup {p} \cup worker.good \cup worker.bad = Batch
       /\ left \cap {p} = {} /\ left \cap worker.good = {} /\ left \cap worker.bad = {}
       /\ {p} \cap worker.good = {} /\ {p} \cap worker.bad = {}
  BY <1>w DEF Batch
<1> HIDE DEF left
<1> QED
  BY <1>2, <1>3, <1>5, <1>7, <1>8, <1>9, <1>10, <1>w, WorkerStepped

\* The five events, one by one.
LEMMA CountedKinds ==
  ASSUME NEW v \in Views, NEW e \in Events
  PROVE  LET u == Counted(v, e)
         IN  /\ u \in Views /\ u.bytes = v.bytes
             /\ e.ev = "Started" => /\ u.current = v.current + 1 /\ u.ok = v.ok /\ u.bad = v.bad
                                    /\ u.sent = 0 /\ u.size = e.n /\ u.done = v.done
             /\ e.ev = "ChunkSent" => /\ u.current = v.current /\ u.ok = v.ok /\ u.bad = v.bad
                                      /\ u.sent = e.n /\ u.size = v.size /\ u.done = v.done
             /\ e.ev = "FileCompleted" => /\ u.current = v.current /\ u.ok = v.ok + 1 /\ u.bad = v.bad
                                          /\ u.done = v.done + v.size
             /\ e.ev = "FileFailed" => /\ u.current = v.current /\ u.ok = v.ok /\ u.bad = v.bad + 1
                                       /\ u.done = v.done + v.size
             /\ e.ev = "Finished" => u = v
<1> DEFINE u == Counted(v, e)
<1>1. /\ u \in Views /\ u.bytes = v.bytes
      /\ u.current = v.current + (IF e.ev = "Started" THEN 1 ELSE 0)
      /\ u.ok = v.ok + (IF e.ev = "FileCompleted" THEN 1 ELSE 0)
      /\ u.bad = v.bad + (IF e.ev = "FileFailed" THEN 1 ELSE 0)
      /\ u.done = v.done + (IF e.ev \in {"FileCompleted", "FileFailed"} THEN v.size ELSE 0)
      /\ u.size = (IF e.ev = "Started" THEN e.n ELSE v.size)
      /\ u.sent = (CASE e.ev = "Started" -> 0 [] e.ev = "ChunkSent" -> e.n
                     [] e.ev = "FileCompleted" -> v.size [] OTHER -> v.sent)
      /\ e.ev = "Finished" => u = v
  BY CountedIs
<1>2. v.current \in Nat /\ v.ok \in Nat /\ v.bad \in Nat /\ v.done \in Nat
  BY DEF Views
<1> HIDE DEF u
<1>3. e.ev = "Started" => /\ u.current = v.current + 1 /\ u.ok = v.ok /\ u.bad = v.bad
                          /\ u.sent = 0 /\ u.size = e.n /\ u.done = v.done
  BY <1>1, <1>2
<1>4. e.ev = "ChunkSent" => /\ u.current = v.current /\ u.ok = v.ok /\ u.bad = v.bad
                            /\ u.sent = e.n /\ u.size = v.size /\ u.done = v.done
  BY <1>1, <1>2
<1>5. e.ev = "FileCompleted" => /\ u.current = v.current /\ u.ok = v.ok + 1 /\ u.bad = v.bad
                                /\ u.done = v.done + v.size
  BY <1>1, <1>2
<1>6. e.ev = "FileFailed" => /\ u.current = v.current /\ u.ok = v.ok /\ u.bad = v.bad + 1
                             /\ u.done = v.done + v.size
  BY <1>1, <1>2
<1> QED
  BY <1>1, <1>3, <1>4, <1>5, <1>6 DEF u

\* Two events more.
LEMMA TwoMore ==
  ASSUME NEW q \in Seq(Events), NEW a \in Events, NEW b \in Events
  PROVE  q \o <<a, b>> = Append(Append(q, a), b) /\ Append(q, a) \in Seq(Events)
  OBVIOUS

\* A file that cannot be read is announced and reported.
LEMMA CannotReadStep ==
  ASSUME TuiInv, WorkerCannotRead
  PROVE  UploadOK'
<1> DEFINE a == Event("Started", 0)
           b == Event("FileFailed", 0)
<1>1. PICK p \in worker.left :
        /\ worker' = [worker EXCEPT !.left = @ \ {p}, !.bad = @ \cup {p}]
        /\ queue' = queue \o <<a, b>>
  BY DEF WorkerCannotRead
<1>2. /\ worker.pc = "check" /\ mode # "Exited" /\ UNCHANGED <<mode, asked, view, cancel, report>>
  BY DEF WorkerCannotRead, Working, WorkerKeeps, dialogVars
<1>w. /\ mode = "Uploading" /\ worker.sent \in Nat
      /\ worker = [pc |-> worker.pc, left |-> worker.left, cur |-> worker.cur, sent |-> worker.sent,
                   good |-> worker.good, bad |-> worker.bad]
      /\ worker.left \in SUBSET Pairs /\ worker.good \in SUBSET Pairs /\ worker.bad \in SUBSET Pairs
      /\ IsFiniteSet(worker.left) /\ IsFiniteSet(worker.good) /\ IsFiniteSet(worker.bad)
      /\ worker.left \cap worker.good = {} /\ worker.left \cap worker.bad = {}
      /\ worker.good \cap worker.bad = {} /\ worker.cur = {}
  BY <1>2, WorkerIs
<1> DEFINE left == worker.left \ {p}
           bad == worker.bad \cup {p}
<1>3. worker' = [pc |-> "check", left |-> left, cur |-> {}, sent |-> worker.sent, good |-> worker.good, bad |-> bad]
  BY <1>1, <1>2, <1>w
<1>4. /\ Size[p.file] \in Nat /\ BytesOf(worker.left) = Size[p.file] + BytesOf(left)
      /\ BytesOf(worker.left) \in Nat /\ BytesOf(left) \in Nat
  BY <1>w, BytesTaken
<1>5. a \in Events /\ a.ev = "Started" /\ a.n = 0 /\ b \in Events /\ b.ev = "FileFailed"
  BY DEF Event, Events
<1>6. /\ queue' = Append(Append(queue, a), b) /\ queue \in Seq(Events) /\ Append(queue, a) \in Seq(Events)
      /\ \A i \in 1..Len(queue) : queue[i].ev # "Finished"
  <2>1. queue \in Seq(Events) /\ \A i \in 1..Len(queue) : queue[i].ev # "Finished"
    BY <1>2 DEF TuiInv, UploadTypes, WorkerOK
  <2> HIDE DEF a, b
  <2> QED
    BY <1>1, <1>5, <2>1, TwoMore
<1> HIDE DEF a, b
<1>7. CountsOK'
  <2>1. ASSUME NEW ev
        PROVE  /\ Queued(ev) \in Nat
               /\ Queued(ev)' = Queued(ev) + (IF a.ev = ev THEN 1 ELSE 0) + (IF b.ev = ev THEN 1 ELSE 0)
    <3>1. Queued(ev) = Cardinality(EventsIn(queue, ev)) /\ Queued(ev)' = Cardinality(EventsIn(queue', ev))
      BY DEF Queued, EventsIn
    <3>2. Cardinality(EventsIn(Append(queue, a), ev)) = Cardinality(EventsIn(queue, ev)) + (IF a.ev = ev THEN 1 ELSE 0)
      BY <1>5, <1>6, AppendCounts
    <3>3. Cardinality(EventsIn(Append(Append(queue, a), b), ev))
            = Cardinality(EventsIn(Append(queue, a), ev)) + (IF b.ev = ev THEN 1 ELSE 0)
      BY <1>5, <1>6, AppendCounts
    <3>4. Cardinality(EventsIn(queue, ev)) \in Nat
      BY <1>6, EventsCounted
    <3> QED
      BY <3>1, <3>2, <3>3, <3>4, <1>6
  <2>2. /\ Queued("Started")' = Queued("Started") + 1 /\ Queued("FileCompleted")' = Queued("FileCompleted")
        /\ Queued("FileFailed")' = Queued("FileFailed") + 1
        /\ Queued("Started") \in Nat /\ Queued("FileCompleted") \in Nat /\ Queued("FileFailed") \in Nat
    <3>1. /\ Queued("Started") \in Nat
          /\ Queued("Started")' = Queued("Started") + (IF a.ev = "Started" THEN 1 ELSE 0) + (IF b.ev = "Started" THEN 1 ELSE 0)
      BY <2>1
    <3>2. /\ Queued("FileCompleted") \in Nat
          /\ Queued("FileCompleted")' = Queued("FileCompleted") + (IF a.ev = "FileCompleted" THEN 1 ELSE 0)
                                          + (IF b.ev = "FileCompleted" THEN 1 ELSE 0)
      BY <2>1
    <3>3. /\ Queued("FileFailed") \in Nat
          /\ Queued("FileFailed")' = Queued("FileFailed") + (IF a.ev = "FileFailed" THEN 1 ELSE 0)
                                       + (IF b.ev = "FileFailed" THEN 1 ELSE 0)
      BY <2>1
    <3> QED
      BY <3>1, <3>2, <3>3, <1>5
  <2>3. IsFiniteSet(worker.good \cup worker.bad) /\ p \notin worker.good \cup worker.bad /\ p \notin worker.bad
    BY <1>w, FS_Union
  <2>4. /\ Cardinality((worker.good \cup worker.bad) \cup {p}) = Cardinality(worker.good \cup worker.bad) + 1
        /\ Cardinality(worker.bad \cup {p}) = Cardinality(worker.bad) + 1
    BY <2>3, <1>w, FS_AddElement
  <2>5. worker'.good \cup worker'.bad \cup worker'.cur = (worker.good \cup worker.bad) \cup {p}
        /\ worker.good \cup worker.bad \cup worker.cur = worker.good \cup worker.bad
        /\ worker'.good = worker.good /\ worker'.bad = worker.bad \cup {p}
    BY <1>3, <1>w
  <2>6. Cardinality(worker.good \cup worker.bad) \in Nat /\ Cardinality(worker.bad) \in Nat
    BY <2>3, <1>w, FS_CardinalityType
  <2>7. /\ view.current \in Nat /\ view.ok \in Nat /\ view.bad \in Nat
        /\ view.current + Queued("Started") = Cardinality(worker.good \cup worker.bad \cup worker.cur)
        /\ view.ok + Queued("FileCompleted") = Cardinality(worker.good)
        /\ view.bad + Queued("FileFailed") = Cardinality(worker.bad)
    BY <1>w, CountersAre
  <2>8. /\ view.current + Queued("Started")' = Cardinality(worker'.good \cup worker'.bad \cup worker'.cur)
        /\ view.ok + Queued("FileCompleted")' = Cardinality(worker'.good)
        /\ view.bad + Queued("FileFailed")' = Cardinality(worker'.bad)
    <3>1. /\ Cardinality(worker'.good \cup worker'.bad \cup worker'.cur) = Cardinality(worker.good \cup worker.bad) + 1
          /\ Cardinality(worker.good \cup worker.bad \cup worker.cur) = Cardinality(worker.good \cup worker.bad)
          /\ Cardinality(worker'.good) = Cardinality(worker.good)
          /\ Cardinality(worker'.bad) = Cardinality(worker.bad) + 1
      BY <2>4, <2>5
    <3> QED
      BY <2>2, <2>6, <2>7, <3>1
  <2> QED
    BY <2>8, <1>2 DEF CountsOK
<1>8. ProgressOK'
  <2>1. PICK h : Drained(h, queue, view) /\ UpToDate(h[Len(queue) + 1])
    BY <1>w DEF TuiInv, ProgressOK
  <2>2. PICK v \in Views : v = h[Len(queue) + 1] /\ Bounded(v) /\ UpToDate(v)
    BY <2>1, <1>6 DEF Drained
  <2> DEFINE u == Counted(v, a)
             x == Counted(u, b)
  <2>3. /\ v.current = v.ok + v.bad /\ v.done + BytesOf(worker.left) <= v.bytes
        /\ v.done \in Nat /\ v.bytes \in Nat /\ v.ok \in Nat /\ v.bad \in Nat
    BY <2>2, <1>2 DEF UpToDate, Views
  <2>4. /\ u \in Views /\ u.bytes = v.bytes /\ u.current = v.current + 1 /\ u.ok = v.ok /\ u.bad = v.bad
        /\ u.sent = 0 /\ u.size = 0 /\ u.done = v.done
    BY <1>5, CountedKinds
  <2> HIDE DEF u
  <2>5. /\ x \in Views /\ x.bytes = u.bytes /\ x.current = u.current /\ x.ok = u.ok /\ x.bad = u.bad + 1
        /\ x.done = u.done + u.size
    BY <2>4, <1>5, CountedKinds
  <2> HIDE DEF x
  <2>6. Bounded(u)
    BY <2>3, <2>4, <1>4 DEF Bounded
  <2>7. Bounded(x)
    BY <2>3, <2>4, <2>5 DEF Bounded
  <2>8. UpToDate(x)'
    BY <2>3, <2>4, <2>5, <1>3, <1>4 DEF UpToDate
  <2>9. PICK g : Drained(g, Append(queue, a), view) /\ g[Len(Append(queue, a)) + 1] = u
    BY <2>1, <2>2, <2>6, <1>5, <1>6, DrainedMore DEF u
  <2>10. PICK k : Drained(k, queue', view) /\ k[Len(queue') + 1] = x
    <3> DEFINE q == Append(queue, a)
    <3>a. q \in Seq(Events) /\ Drained(g, q, view) /\ Counted(g[Len(q) + 1], b) = x /\ g[Len(q) + 1] = u
      BY <2>9, <1>6 DEF x
    <3> HIDE DEF q
    <3>b. \E k : Drained(k, Append(q, b), view) /\ k[Len(Append(q, b)) + 1] = Counted(g[Len(q) + 1], b)
      BY <3>a, <2>7, <1>5, DrainedMore
    <3>1. \E k : /\ Drained(k, Append(Append(queue, a), b), view)
                 /\ k[Len(Append(Append(queue, a), b)) + 1] = Counted(u, b)
      BY <3>a, <3>b DEF q
    <3> QED
      BY <3>1, <1>6 DEF x
  <2>11. k \in [1..(Len(queue') + 1) -> Views] /\ UpToDate(k[Len(queue) + 1])'
    BY <2>8, <2>10 DEF Drained, UpToDate
  <2> QED
    BY <2>10, <2>11, <1>2 DEF ProgressOK
<1>9. /\ queue' \in Seq(Events)
      /\ \A i \in 1..Len(queue') : queue'[i].ev # "Finished"
  <2>1. \A i \in 1..Len(Append(queue, a)) : Append(queue, a)[i].ev # "Finished"
    BY <1>5, <1>6
  <2>2. \A i \in 1..Len(Append(Append(queue, a), b)) : Append(Append(queue, a), b)[i].ev # "Finished"
    BY <1>5, <1>6, <2>1
  <2> QED
    BY <2>2, <1>5, <1>6
<1>10. /\ left \in SUBSET Pairs /\ bad \in SUBSET Pairs /\ {} \in SUBSET Pairs
       /\ left \cup {} \cup worker.good \cup bad = Batch
       /\ left \cap {} = {} /\ left \cap worker.good = {} /\ left \cap bad = {}
       /\ {} \cap worker.good = {} /\ {} \cap bad = {} /\ worker.good \cap bad = {}
  BY <1>w DEF Batch
<1> HIDE DEF left, bad
<1> QED
  BY <1>2, <1>3, <1>7, <1>8, <1>9, <1>10, <1>w, WorkerStepped

\* A chunk of the file is sent.
LEMMA SendsStep ==
  ASSUME TuiInv, WorkerSends
  PROVE  UploadOK'
<1>1. /\ worker.pc = "call" /\ mode # "Exited" /\ worker.sent <= CurrentSize
      /\ worker' = [worker EXCEPT !.sent = @ + 1]
      /\ queue' = Append(queue, Event("ChunkSent", worker.sent))
      /\ UNCHANGED <<mode, asked, view, cancel, report>>
  BY DEF WorkerSends, Working, WorkerKeeps, dialogVars
<1>w. /\ mode = "Uploading" /\ worker.sent \in Nat
      /\ worker = [pc |-> worker.pc, left |-> worker.left, cur |-> worker.cur, sent |-> worker.sent,
                   good |-> worker.good, bad |-> worker.bad]
      /\ worker.left \in SUBSET Pairs /\ worker.cur \in SUBSET Pairs
      /\ worker.good \in SUBSET Pairs /\ worker.bad \in SUBSET Pairs /\ IsFiniteSet(worker.left)
      /\ worker.left \cap worker.cur = {} /\ worker.left \cap worker.good = {} /\ worker.left \cap worker.bad = {}
      /\ worker.cur \cap worker.good = {} /\ worker.cur \cap worker.bad = {} /\ worker.good \cap worker.bad = {}
      /\ \E p \in Pairs : worker.cur = {p}
  BY <1>1, WorkerIs
<1> DEFINE c == Event("ChunkSent", worker.sent)
<1>c. c \in Events /\ c.ev = "ChunkSent" /\ c.n = worker.sent
  BY <1>w DEF Event, Events
<1>2. PICK e \in Events : e = c /\ e.ev = "ChunkSent" /\ e.n = worker.sent
  BY <1>c
<1>3. queue' = Append(queue, e)
  BY <1>1, <1>2
<1> DEFINE n == worker.sent + 1
<1>n. n \in Nat
  BY <1>w
<1>q. worker' = [worker EXCEPT !.sent = n]
  BY <1>1
<1> HIDE DEF n
<1>4. worker' = [pc |-> "call", left |-> worker.left, cur |-> worker.cur, sent |-> n,
                 good |-> worker.good, bad |-> worker.bad] /\ n \in Nat
  BY <1>1, <1>w, <1>q, <1>n
<1>5. PICK p \in Pairs : worker.cur = {p}
  BY <1>w
<1>6. worker.sent <= Size[p.file] /\ Size[p.file] \in Nat /\ BytesOf(worker.left) \in Nat
  <2>1. (CHOOSE x \in worker.cur : TRUE) = p
    BY <1>5
  <2>2. Size[p.file] \in Nat
    BY SizeAssumption DEF Pairs
  <2> QED
    BY <1>1, <1>w, <2>1, <2>2, BytesOfInNat DEF CurrentSize
<1>7. CountsOK'
  <2>1. /\ Queued("Started")' = Queued("Started") /\ Queued("FileCompleted")' = Queued("FileCompleted")
        /\ Queued("FileFailed")' = Queued("FileFailed")
        /\ Queued("Started") \in Nat /\ Queued("FileCompleted") \in Nat /\ Queued("FileFailed") \in Nat
    BY <1>1, <1>2, <1>3, QueueMore
  <2>2. worker'.good = worker.good /\ worker'.bad = worker.bad /\ worker'.cur = worker.cur
    BY <1>4
  <2> QED
    BY <2>1, <2>2, <1>1, <1>w, CountersAre DEF CountsOK
<1>8. ProgressOK'
  <2>1. ASSUME NEW v \in Views, UpToDate(v), Bounded(v)
        PROVE  Bounded(Counted(v, e)) /\ UpToDate(Counted(v, e))'
    <3>1. /\ v.current = v.ok + v.bad + 1 /\ v.size = Size[p.file]
          /\ v.done + v.size + BytesOf(worker.left) <= v.bytes
          /\ v.done \in Nat /\ v.bytes \in Nat /\ v.ok \in Nat /\ v.bad \in Nat
      BY <2>1, <1>1, <1>5 DEF UpToDate, Views
    <3> DEFINE u == Counted(v, e)
    <3>2. /\ u.current = v.current /\ u.ok = v.ok /\ u.bad = v.bad /\ u.sent = worker.sent /\ u.size = v.size
          /\ u.done = v.done /\ u.bytes = v.bytes
      BY <1>2, CountedKinds
    <3> HIDE DEF u
    <3>3. Bounded(u)
      BY <3>1, <3>2, <1>w, <1>6 DEF Bounded
    <3>4. worker'.pc = "call" /\ worker'.cur = {p} /\ worker'.left = worker.left
      BY <1>4, <1>5
    <3>5. /\ u.current = u.ok + u.bad + 1 /\ u.sent <= u.size /\ u.size = Size[p.file]
          /\ u.done + u.size + BytesOf(worker.left) <= u.bytes
      BY <3>1, <3>2, <1>6
    <3>6. UpToDate(u)'
      BY <3>4, <3>5 DEF UpToDate
    <3> QED
      BY <3>3, <3>6 DEF u
  <2>2. mode = "Uploading" /\ mode' = mode /\ view' = view
    BY <1>1, <1>w
  <2> QED
    BY <2>1, <2>2, <1>2, <1>3, ProgressMore
<1>9. /\ queue' \in Seq(Events)
      /\ \A i \in 1..Len(queue') : queue'[i].ev = "Finished" => i = Len(queue') /\ e.ev = "Finished"
  BY <1>1, <1>2, <1>3, QueueMore
<1>10. worker.left \cup worker.cur \cup worker.good \cup worker.bad = Batch
  BY DEF Batch
<1> QED
  BY <1>1, <1>2, <1>4, <1>7, <1>8, <1>9, <1>10, <1>w, WorkerStepped, SMTT(40)

\* The answer to a call.
LEMMA AnsweredStep ==
  ASSUME TuiInv, WorkerAnswered
  PROVE  UploadOK'
<1> DEFINE c == Event("FileCompleted", 0)
           f == Event("FileFailed", 0)
<1>1. /\ worker.pc = "call" /\ mode # "Exited"
      /\ \/ /\ worker' = [worker EXCEPT !.pc = "check", !.cur = {}, !.good = @ \cup worker.cur]
            /\ queue' = Append(queue, c)
         \/ /\ worker' = [worker EXCEPT !.pc = "check", !.cur = {}, !.bad = @ \cup worker.cur]
            /\ queue' = Append(queue, f)
      /\ UNCHANGED <<mode, asked, view, cancel, report>>
  BY DEF WorkerAnswered, Working, WorkerKeeps, dialogVars
<1>w. /\ mode = "Uploading" /\ worker.sent \in Nat
      /\ worker = [pc |-> worker.pc, left |-> worker.left, cur |-> worker.cur, sent |-> worker.sent,
                   good |-> worker.good, bad |-> worker.bad]
      /\ worker.left \in SUBSET Pairs /\ worker.cur \in SUBSET Pairs
      /\ worker.good \in SUBSET Pairs /\ worker.bad \in SUBSET Pairs /\ IsFiniteSet(worker.left)
      /\ IsFiniteSet(worker.good) /\ IsFiniteSet(worker.bad)
      /\ worker.left \cap worker.cur = {} /\ worker.left \cap worker.good = {} /\ worker.left \cap worker.bad = {}
      /\ worker.cur \cap worker.good = {} /\ worker.cur \cap worker.bad = {} /\ worker.good \cap worker.bad = {}
      /\ \E p \in Pairs : worker.cur = {p}
  BY <1>1, WorkerIs
<1>2. c \in Events /\ c.ev = "FileCompleted" /\ f \in Events /\ f.ev = "FileFailed"
  BY DEF Event, Events
<1> HIDE DEF c, f
<1>3. PICK p \in Pairs : worker.cur = {p}
  BY <1>w
<1>4. PICK e \in {c, f} :
        /\ queue' = Append(queue, e)
        /\ worker' = [pc |-> "check", left |-> worker.left, cur |-> {}, sent |-> worker.sent,
                      good |-> worker.good \cup (IF e.ev = "FileCompleted" THEN {p} ELSE {}),
                      bad |-> worker.bad \cup (IF e.ev = "FileCompleted" THEN {} ELSE {p})]
  <2>1. CASE /\ worker' = [worker EXCEPT !.pc = "check", !.cur = {}, !.good = @ \cup worker.cur]
             /\ queue' = Append(queue, c)
    BY <2>1, <1>2, <1>3, <1>w
  <2>2. CASE /\ worker' = [worker EXCEPT !.pc = "check", !.cur = {}, !.bad = @ \cup worker.cur]
             /\ queue' = Append(queue, f)
    BY <2>2, <1>2, <1>3, <1>w
  <2> QED
    BY <1>1, <2>1, <2>2
<1> DEFINE good == worker.good \cup (IF e.ev = "FileCompleted" THEN {p} ELSE {})
           bad == worker.bad \cup (IF e.ev = "FileCompleted" THEN {} ELSE {p})
<1>5. e \in Events /\ e.ev \in {"FileCompleted", "FileFailed"}
  BY <1>2, <1>4
<1>6. BytesOf(worker.left) \in Nat
  BY <1>w, BytesOfInNat
<1>7. CountsOK'
  <2>1. /\ Queued("Started")' = Queued("Started")
        /\ Queued("FileCompleted")' = Queued("FileCompleted") + (IF e.ev = "FileCompleted" THEN 1 ELSE 0)
        /\ Queued("FileFailed")' = Queued("FileFailed") + (IF e.ev = "FileCompleted" THEN 0 ELSE 1)
        /\ Queued("Started") \in Nat /\ Queued("FileCompleted") \in Nat /\ Queued("FileFailed") \in Nat
    BY <1>1, <1>4, <1>5, QueueMore
  <2>2. /\ worker'.good \cup worker'.bad \cup worker'.cur = worker.good \cup worker.bad \cup worker.cur
        /\ worker'.good = good /\ worker'.bad = bad
    BY <1>3, <1>4
  <2>3. /\ Cardinality(good) = Cardinality(worker.good) + (IF e.ev = "FileCompleted" THEN 1 ELSE 0)
        /\ Cardinality(bad) = Cardinality(worker.bad) + (IF e.ev = "FileCompleted" THEN 0 ELSE 1)
        /\ Cardinality(worker.good) \in Nat /\ Cardinality(worker.bad) \in Nat
    <3>1. p \notin worker.good /\ p \notin worker.bad
      BY <1>3, <1>w
    <3>2. /\ Cardinality(worker.good \cup {p}) = Cardinality(worker.good) + 1
          /\ Cardinality(worker.bad \cup {p}) = Cardinality(worker.bad) + 1
          /\ Cardinality(worker.good) \in Nat /\ Cardinality(worker.bad) \in Nat
      BY <3>1, <1>w, FS_AddElement, FS_CardinalityType
    <3>3. CASE e.ev = "FileCompleted"
      <4>1. good = worker.good \cup {p} /\ bad = worker.bad
        BY <3>3
      <4> HIDE DEF good, bad
      <4> QED
        BY <3>2, <3>3, <4>1
    <3>4. CASE e.ev # "FileCompleted"
      <4>1. good = worker.good /\ bad = worker.bad \cup {p}
        BY <3>4
      <4> HIDE DEF good, bad
      <4> QED
        BY <3>2, <3>4, <4>1
    <3> QED
      BY <3>3, <3>4
  <2> HIDE DEF good, bad
  <2>4. /\ view.current \in Nat /\ view.ok \in Nat /\ view.bad \in Nat
        /\ view.current + Queued("Started") = Cardinality(worker.good \cup worker.bad \cup worker.cur)
        /\ view.ok + Queued("FileCompleted") = Cardinality(worker.good)
        /\ view.bad + Queued("FileFailed") = Cardinality(worker.bad)
    BY <1>w, CountersAre
  <2>5. Cardinality(worker'.good \cup worker'.bad \cup worker'.cur) = Cardinality(worker.good \cup worker.bad \cup worker.cur)
        /\ Cardinality(worker'.good) = Cardinality(good) /\ Cardinality(worker'.bad) = Cardinality(bad)
    BY <2>2
  <2>6. /\ view.current + Queued("Started")' = Cardinality(worker'.good \cup worker'.bad \cup worker'.cur)
        /\ view.ok + Queued("FileCompleted")' = Cardinality(worker'.good)
        /\ view.bad + Queued("FileFailed")' = Cardinality(worker'.bad)
    BY <2>1, <2>3, <2>4, <2>5
  <2> QED
    BY <2>6, <1>1 DEF CountsOK
<1>8. ProgressOK'
  <2>1. ASSUME NEW v \in Views, UpToDate(v), Bounded(v)
        PROVE  Bounded(Counted(v, e)) /\ UpToDate(Counted(v, e))'
    <3>1. /\ v.current = v.ok + v.bad + 1
          /\ v.done + v.size + BytesOf(worker.left) <= v.bytes
          /\ v.done \in Nat /\ v.size \in Nat /\ v.bytes \in Nat /\ v.ok \in Nat /\ v.bad \in Nat
      BY <2>1, <1>1 DEF UpToDate, Views
    <3> DEFINE u == Counted(v, e)
    <3>2. /\ u.current = v.current /\ u.done = v.done + v.size /\ u.bytes = v.bytes
          /\ \/ u.ok = v.ok + 1 /\ u.bad = v.bad
             \/ u.ok = v.ok /\ u.bad = v.bad + 1
      BY <1>5, CountedKinds
    <3> HIDE DEF u
    <3>3. Bounded(u)
      BY <3>1, <3>2 DEF Bounded
    <3>4. UpToDate(u)'
      BY <3>1, <3>2, <1>4, <1>6 DEF UpToDate
    <3> QED
      BY <3>3, <3>4 DEF u
  <2> QED
    BY <2>1, <1>1, <1>w, <1>4, <1>5, ProgressMore
<1>9. /\ queue' \in Seq(Events)
      /\ \A i \in 1..Len(queue') : queue'[i].ev = "Finished" => i = Len(queue') /\ e.ev = "Finished"
  BY <1>1, <1>4, <1>5, QueueMore
<1>10. /\ good \in SUBSET Pairs /\ bad \in SUBSET Pairs /\ {} \in SUBSET Pairs
       /\ worker.left \cup {} \cup good \cup bad = Batch
       /\ worker.left \cap {} = {} /\ worker.left \cap good = {} /\ worker.left \cap bad = {}
       /\ {} \cap good = {} /\ {} \cap bad = {} /\ good \cap bad = {}
  BY <1>w, <1>3 DEF Batch
<1>11. worker' = [pc |-> "check", left |-> worker.left, cur |-> {}, sent |-> worker.sent, good |-> good, bad |-> bad]
  BY <1>4
<1> HIDE DEF good, bad
<1> QED
  BY <1>1, <1>5, <1>7, <1>8, <1>9, <1>10, <1>11, <1>w, WorkerStepped

\* The worker ends.
LEMMA StopsStep ==
  ASSUME TuiInv, WorkerStops
  PROVE  UploadOK'
<1> DEFINE e == Event("Finished", 0)
<1>1. /\ \/ worker.pc = "check" /\ (cancel \/ worker.left = {})
         \/ worker.pc = "call" /\ cancel
      /\ mode # "Exited"
      /\ worker' = [worker EXCEPT !.pc = "off"]
      /\ queue' = Append(queue, e)
      /\ UNCHANGED <<mode, asked, view, cancel, report>>
  BY DEF WorkerStops, Working, WorkerKeeps, dialogVars
<1>2. e \in Events /\ e.ev = "Finished"
  BY DEF Event, Events
<1> HIDE DEF e
<1>w. /\ mode = "Uploading" /\ worker.sent \in Nat
      /\ worker = [pc |-> worker.pc, left |-> worker.left, cur |-> worker.cur, sent |-> worker.sent,
                   good |-> worker.good, bad |-> worker.bad]
      /\ worker.left \in SUBSET Pairs /\ worker.cur \in SUBSET Pairs
      /\ worker.good \in SUBSET Pairs /\ worker.bad \in SUBSET Pairs
      /\ worker.left \cap worker.cur = {} /\ worker.left \cap worker.good = {} /\ worker.left \cap worker.bad = {}
      /\ worker.cur \cap worker.good = {} /\ worker.cur \cap worker.bad = {} /\ worker.good \cap worker.bad = {}
      /\ worker.pc = "check" => worker.cur = {}
  BY <1>1, WorkerIs
<1>4. worker' = [pc |-> "off", left |-> worker.left, cur |-> worker.cur, sent |-> worker.sent,
                 good |-> worker.good, bad |-> worker.bad]
  BY <1>1, <1>w
<1>5. ~cancel => worker.left = {} /\ worker.cur = {}
  BY <1>1, <1>w
<1>6. CountsOK'
  <2>1. /\ Queued("Started")' = Queued("Started") /\ Queued("FileCompleted")' = Queued("FileCompleted")
        /\ Queued("FileFailed")' = Queued("FileFailed")
        /\ Queued("Started") \in Nat /\ Queued("FileCompleted") \in Nat /\ Queued("FileFailed") \in Nat
    BY <1>1, <1>2, QueueMore
  <2>2. worker'.good = worker.good /\ worker'.bad = worker.bad /\ worker'.cur = worker.cur
    BY <1>4
  <2> QED
    BY <2>1, <2>2, <1>1, <1>w, CountersAre DEF CountsOK
<1>7. ProgressOK'
  <2>1. ASSUME NEW v \in Views, UpToDate(v), Bounded(v)
        PROVE  Bounded(Counted(v, e)) /\ UpToDate(Counted(v, e))'
    <3>1. Counted(v, e) = v
      BY <1>2, CountedKinds
    <3>2. UpToDate(v)'
      BY <1>4 DEF UpToDate
    <3> QED
      BY <2>1, <3>1, <3>2 DEF UpToDate
  <2> QED
    BY <2>1, <1>1, <1>w, <1>2, ProgressMore
<1>8. /\ queue' \in Seq(Events)
      /\ \A i \in 1..Len(queue') : queue'[i].ev = "Finished" => i = Len(queue') /\ e.ev = "Finished"
  BY <1>1, <1>2, QueueMore
<1>9. worker.left \cup worker.cur \cup worker.good \cup worker.bad = Batch
  BY DEF Batch
<1> QED
  BY <1>1, <1>4, <1>5, <1>6, <1>7, <1>8, <1>9, <1>w, WorkerStepped, SMTT(40)

\* The event loop counts an event, and after the last one reports.
LEMMA DrainStep ==
  ASSUME TuiInv, DrainEvent
  PROVE  UploadOK'
<1> DEFINE q == queue
           t == Tail(queue)
<1>t. /\ view \in Views /\ queue \in Seq(Events) /\ cancel \in BOOLEAN /\ WorkerOK /\ ReportOK /\ BatchOK
      /\ worker \in [pc : {"off", "check", "call"}, left : SUBSET Pairs, cur : SUBSET Pairs,
                     sent : Nat, good : SUBSET Pairs, bad : SUBSET Pairs]
      /\ IsFiniteSet(Batch) /\ mode = "Uploading" /\ queue # <<>>
  BY DEF TuiInv, UploadTypes, DrainEvent
<1>1. PICK e \in Events : e = Head(queue)
  BY <1>t
<1>2. /\ view' = Counted(view, e) /\ queue' = Tail(queue)
      /\ e.ev = "Finished" => report' = Outcome(view) /\ mode' = "Normal"
      /\ e.ev # "Finished" => UNCHANGED <<report, mode>>
      /\ UNCHANGED <<asked, cancel, worker>>
  BY <1>1 DEF DrainEvent, dialogVars
<1>3. Counted(view, e) \in Views /\ Counted(view, e).total = view.total /\ (e.ev = "Finished" => Counted(view, e) = view)
  BY <1>t, CountedIs
<1>4. /\ Tail(queue) \in Seq(Events) /\ Len(queue) \in Nat /\ Len(queue) >= 1
      /\ Len(Tail(queue)) = Len(queue) - 1 /\ Head(queue) = queue[1]
      /\ \A i \in 1..Len(Tail(queue)) : Tail(queue)[i] = queue[i + 1]
  BY <1>t, EmptySeq
<1>5. UploadTypes'
  BY <1>t, <1>2, <1>3, <1>4 DEF UploadTypes, Batch
<1>6. CASE e.ev # "Finished"
  <2>1. UNCHANGED <<mode, report, asked, cancel, worker>> /\ report = "none"
    BY <1>t, <1>2, <1>6 DEF ReportOK
  <2>2. \A i \in 1..Len(queue') : queue'[i].ev = "Finished" => i = Len(queue') /\ worker.pc = "off"
    <3> SUFFICES ASSUME NEW i \in 1..Len(Tail(queue)), Tail(queue)[i].ev = "Finished"
                 PROVE  i = Len(Tail(queue)) /\ worker.pc = "off"
      BY <1>2
    <3>1. i + 1 \in 1..Len(queue) /\ queue[i + 1].ev = "Finished"
      BY <1>4
    <3>2. i + 1 = Len(queue) /\ worker.pc = "off"
      BY <3>1, <1>t DEF WorkerOK
    <3> QED
      BY <3>2, <1>4
  <2>3. WorkerOK'
    BY <2>1, <2>2, <1>t DEF WorkerOK
  <2>4. BatchOK'
    BY <2>1, <1>t, <1>2, <1>3 DEF BatchOK, Batch
  <2>5. ReportOK'
    BY <2>1, <1>t DEF ReportOK, OutcomeTrue
  <2>6. CountsOK'
    <3>1. \A ev : /\ Queued(ev) = Queued(ev)' + (IF e.ev = ev THEN 1 ELSE 0)
                  /\ Queued(ev)' \in Nat
      <4> SUFFICES ASSUME NEW ev PROVE /\ Queued(ev) = Queued(ev)' + (IF e.ev = ev THEN 1 ELSE 0)
                                       /\ Queued(ev)' \in Nat
        OBVIOUS
      <4>1. Queued(ev) = Cardinality(EventsIn(queue, ev)) /\ Queued(ev)' = Cardinality(EventsIn(Tail(queue), ev))
        BY <1>2 DEF Queued, EventsIn
      <4>2. Cardinality(EventsIn(Tail(queue), ev)) \in Nat
        BY <1>4, EventsCounted
      <4>3. Cardinality(EventsIn(queue, ev)) = Cardinality(EventsIn(Tail(queue), ev)) + (IF Head(queue).ev = ev THEN 1 ELSE 0)
        BY <1>t, TailCounts
      <4> QED
        BY <4>1, <4>2, <4>3, <1>1
    <3>2. /\ view'.current = view.current + (IF e.ev = "Started" THEN 1 ELSE 0)
          /\ view'.ok = view.ok + (IF e.ev = "FileCompleted" THEN 1 ELSE 0)
          /\ view'.bad = view.bad + (IF e.ev = "FileFailed" THEN 1 ELSE 0)
      BY <1>t, <1>2, CountedIs
    <3>3. /\ view.current \in Nat /\ view.ok \in Nat /\ view.bad \in Nat
          /\ view.current + Queued("Started") = Cardinality(worker.good \cup worker.bad \cup worker.cur)
          /\ view.ok + Queued("FileCompleted") = Cardinality(worker.good)
          /\ view.bad + Queued("FileFailed") = Cardinality(worker.bad)
      BY <1>t, CountersAre
    <3>4. /\ view'.current + Queued("Started")' = view.current + Queued("Started")
          /\ view'.ok + Queued("FileCompleted")' = view.ok + Queued("FileCompleted")
          /\ view'.bad + Queued("FileFailed")' = view.bad + Queued("FileFailed")
      <4>1. /\ Queued("Started") = Queued("Started")' + (IF e.ev = "Started" THEN 1 ELSE 0)
            /\ Queued("FileCompleted") = Queued("FileCompleted")' + (IF e.ev = "FileCompleted" THEN 1 ELSE 0)
            /\ Queued("FileFailed") = Queued("FileFailed")' + (IF e.ev = "FileFailed" THEN 1 ELSE 0)
            /\ Queued("Started")' \in Nat /\ Queued("FileCompleted")' \in Nat /\ Queued("FileFailed")' \in Nat
        BY <3>1
      <4> QED
        BY <4>1, <3>2, <3>3
    <3> QED
      BY <3>3, <3>4, <2>1 DEF CountsOK
  <2>7. ProgressOK'
    <3>1. PICK h : Drained(h, queue, view) /\ UpToDate(h[Len(queue) + 1])
      BY <1>t DEF TuiInv, ProgressOK
    <3>2. PICK g : Drained(g, Tail(queue), Counted(view, Head(queue))) /\ g[Len(Tail(queue)) + 1] = h[Len(queue) + 1]
      BY <1>t, <3>1, DrainedLess
    <3>3. Drained(g, queue', view') /\ g[Len(queue') + 1] = h[Len(queue) + 1]
      BY <3>2, <1>1, <1>2
    <3>4. PICK u : u = h[Len(queue) + 1] /\ UpToDate(u)
      BY <3>1
    <3>5. UpToDate(u)'
      BY <3>4, <1>2 DEF UpToDate
    <3>6. g \in [1..(Len(queue') + 1) -> Views]
      BY <3>3 DEF Drained
    <3>7. UpToDate(g[Len(queue) + 1])'
      BY <3>3, <3>4, <3>5
    <3> QED
      BY <3>3, <3>6, <3>7 DEF ProgressOK
  <2> QED
    BY <1>5, <2>3, <2>4, <2>5, <2>6, <2>7 DEF UploadOK
<1>7. CASE e.ev = "Finished"
  <2>1. mode' = "Normal" /\ report' = Outcome(view) /\ view' = view
    BY <1>2, <1>3, <1>7
  <2>2. 1 = Len(queue) /\ worker.pc = "off"
    <3>1. 1 \in 1..Len(queue) /\ queue[1].ev = "Finished"
      BY <1>1, <1>4, <1>7
    <3> QED
      BY <3>1, <1>t DEF WorkerOK
  <2>3. Len(queue') = 0
    BY <2>2, <1>2, <1>4
  <2>4. WorkerOK'
    <3>1. \A i \in 1..Len(queue') : FALSE
      BY <2>3
    <3>2. worker' = worker /\ cancel' = cancel
      BY <1>2
    <3> QED
      BY <2>1, <2>2, <3>1, <3>2, <1>t DEF WorkerOK
  <2>5. BatchOK' /\ CountsOK' /\ ProgressOK'
    BY <2>1 DEF BatchOK, CountsOK, ProgressOK
  <2>6. /\ view.ok \in Nat /\ view.bad \in Nat /\ view.total \in Nat
        /\ view.ok = Cardinality(worker.good) /\ view.bad = Cardinality(worker.bad)
        /\ Cardinality(Batch) = view.total
    <3>1. \A i \in 1..Len(queue) : i = 1 /\ queue[i].ev = "Finished"
      BY <2>2, <1>1, <1>4, <1>7
    <3>2. EventsIn(queue, "FileCompleted") = {} /\ EventsIn(queue, "FileFailed") = {}
      BY <3>1 DEF EventsIn
    <3>3. Queued("FileCompleted") = 0 /\ Queued("FileFailed") = 0
      BY <3>2, FS_EmptySet DEF Queued, EventsIn
    <3> QED
      BY <3>3, <1>t, CountersAre DEF BatchOK
  <2>7. worker.good \cap worker.bad = {} /\ IsFiniteSet(worker.good) /\ IsFiniteSet(worker.bad)
    <3>1. worker.good \subseteq Batch /\ worker.bad \subseteq Batch
      BY DEF Batch
    <3> QED
      BY <3>1, <1>t, FS_Subset DEF WorkerOK
  <2>8. ASSUME ~cancel PROVE view.ok + view.bad = view.total
    <3>1. Batch = worker.good \cup worker.bad
      BY <2>2, <2>8, <1>t DEF WorkerOK, Batch
    <3>2. Cardinality(worker.good \cup worker.bad) = Cardinality(worker.good) + Cardinality(worker.bad)
          - Cardinality(worker.good \cap worker.bad)
      BY <2>7, FS_Union
    <3>3. Cardinality(worker.good \cap worker.bad) = 0
      BY <2>7, FS_EmptySet
    <3> QED
      BY <3>1, <3>2, <3>3, <2>6
  <2>9. view.ok + view.bad <= view.total
    <3>1. Cardinality(worker.good \cup worker.bad) = Cardinality(worker.good) + Cardinality(worker.bad)
          - Cardinality(worker.good \cap worker.bad)
      BY <2>7, FS_Union
    <3>2. Cardinality(worker.good \cap worker.bad) = 0
      BY <2>7, FS_EmptySet
    <3>3. Cardinality(worker.good \cup worker.bad) <= Cardinality(Batch)
      <4>1. worker.good \cup worker.bad \subseteq Batch
        BY DEF Batch
      <4> QED
        BY <4>1, <1>t, FS_Subset
    <3> QED
      BY <3>1, <3>2, <3>3, <2>6
  <2>10. report' = "cancelled" => cancel
    BY <2>1, <2>6, <2>8 DEF Outcome
  <2>11. report' = "uploaded" /\ view.bad = 0 => Cardinality(worker.good) = view.total
    BY <2>1, <2>6, <2>9 DEF Outcome
  <2>12. OutcomeTrue'
    BY <2>10, <2>11, <2>1, <1>2 DEF OutcomeTrue
  <2>13. ReportOK'
    BY <2>1, <2>2, <2>12, <1>2 DEF ReportOK
  <2> QED
    BY <1>5, <2>4, <2>5, <2>13 DEF UploadOK
<1> QED
  BY <1>6, <1>7

\* What the invariant says of the uploads is kept by every step.
LEMMA UploadStep ==
  ASSUME TuiInv, Next
  PROVE  UploadOK'
<1>1. CASE Browsing
  <2>1. UNCHANGED uploadVars
    BY <1>1 DEF Browsing
  <2>2. \/ mode' = mode /\ asked' = asked
        \/ mode \notin {"Uploading", "Exited"} /\ mode' # "Uploading"
    <3>1. CASE MoveSelection
      BY <3>1 DEF MoveSelection, MoveTo, dialogVars
    <3>2. CASE WheelElsewhere
      BY <3>2 DEF WheelElsewhere, browseVars, dialogVars
    <3>3. CASE BrowseInto
      BY <3>3 DEF BrowseInto, dialogVars
    <3>4. CASE ViewDetail
      BY <3>4 DEF ViewDetail, Ready
    <3>5. CASE BrowseUp
      BY <3>5 DEF BrowseUp, dialogVars
    <3>6. CASE LeaveDetail
      BY <3>6 DEF LeaveDetail, Ready
    <3>7. CASE EnterSearch
      BY <3>7 DEF EnterSearch, ToMode, Ready
    <3>8. CASE LeaveSearch
      BY <3>8 DEF LeaveSearch, ToMode, Ready
    <3>9. CASE ExecuteSearch
      BY <3>9 DEF ExecuteSearch, Ready
    <3>10. CASE EnterDelete
      BY <3>10 DEF EnterDelete, Ready
    <3>11. CASE RefuseDelete
      BY <3>11 DEF RefuseDelete, Ready
    <3>12. CASE ConfirmDelete
      BY <3>12 DEF ConfirmDelete, dialogVars
    <3>13. CASE ConfirmDeleteDir
      BY <3>13 DEF ConfirmDeleteDir, dialogVars
    <3>14. CASE EnterRename
      BY <3>14 DEF EnterRename, Ready
    <3>15. CASE LeaveRename
      BY <3>15 DEF LeaveRename, Ready
    <3>16. CASE EditRename
      BY <3>16 DEF EditRename, Edit
    <3>17. CASE ExecuteRename
      BY <3>17 DEF ExecuteRename, Ready
    <3>18. CASE EnterMkdir
      BY <3>18 DEF EnterMkdir, Ready
    <3>19. CASE LeaveMkdir
      BY <3>19 DEF LeaveMkdir, Ready
    <3>20. CASE EditMkdir
      BY <3>20 DEF EditMkdir, Edit
    <3>21. CASE ExecuteMkdir
      BY <3>21 DEF ExecuteMkdir, Ready
    <3>22. CASE Request
      BY <3>22 DEF Request, dialogVars
    <3>23. CASE AskRefresh
      BY <3>23 DEF AskRefresh, dialogVars
    <3>24. CASE OtherClient
      BY <3>24 DEF OtherClient, dialogVars
    <3>25. CASE Refresh
      <4>1. mode' = "Normal"
        BY <3>25 DEF Refresh, Cleared
      <4>2. mode \notin {"Uploading", "Exited"}
        <5>1. job # NoJob /\ JobMode /\ JobTypes
          BY <3>25 DEF Refresh, TuiInv
        <5>2. job.kind \in JobKinds /\ job.kind # "none"
          BY <5>1 DEF JobTypes
        <5> QED
          BY <5>1, <5>2 DEF JobMode, JobKinds
      <4> QED
        BY <4>1, <4>2
    <3>26. CASE NoRefresh
      <4>1. mode' = "Normal"
        BY <3>26 DEF NoRefresh, Cleared
      <4>2. mode \notin {"Uploading", "Exited"}
        <5>1. job # NoJob /\ JobMode /\ JobTypes
          BY <3>26 DEF NoRefresh, TuiInv
        <5>2. job.kind \in JobKinds /\ job.kind # "none"
          BY <5>1 DEF JobTypes
        <5> QED
          BY <5>1, <5>2 DEF JobMode, JobKinds
      <4> QED
        BY <4>1, <4>2
    <3> QED
      BY <1>1, <3>1, <3>2, <3>3, <3>4, <3>5, <3>6, <3>7, <3>8, <3>9, <3>10, <3>11, <3>12, <3>13,
         <3>14, <3>15, <3>16, <3>17, <3>18, <3>19, <3>20, <3>21, <3>22, <3>23, <3>24, <3>25, <3>26 DEF Browsing, BrowseNext
  <2> QED
    BY <2>1, <2>2, UploadFrame
<1>2. CASE Choosing
  <2>1. CASE EnterStore
    <3>1. UNCHANGED uploadVars
      BY <2>1 DEF EnterStore, Ready, KeepsOthers, dialogVars
    <3>2. \/ mode' = mode /\ asked' = asked
          \/ mode \notin {"Uploading", "Exited"} /\ mode' # "Uploading"
      BY <2>1 DEF EnterStore, Ready, KeepsOthers, dialogVars
    <3> QED
      BY <3>1, <3>2, UploadFrame
  <2>2. CASE BackToPathBrowser
    <3>1. UNCHANGED uploadVars
      BY <2>2 DEF BackToPathBrowser, Ready, KeepsOthers, dialogVars
    <3>2. \/ mode' = mode /\ asked' = asked
          \/ mode \notin {"Uploading", "Exited"} /\ mode' # "Uploading"
      BY <2>2 DEF BackToPathBrowser, Ready, KeepsOthers, dialogVars
    <3> QED
      BY <3>1, <3>2, UploadFrame
  <2>3. CASE PathMove
    <3>1. UNCHANGED uploadVars
      BY <2>3 DEF PathMove, KeepsOthers, Ready, dialogVars
    <3>2. \/ mode' = mode /\ asked' = asked
          \/ mode \notin {"Uploading", "Exited"} /\ mode' # "Uploading"
      BY <2>3 DEF PathMove, KeepsOthers, Ready, dialogVars
    <3> QED
      BY <3>1, <3>2, UploadFrame
  <2>4. CASE PathEnter
    <3>1. UNCHANGED uploadVars
      BY <2>4 DEF PathEnter, PathGo, Ready, KeepsOthers, dialogVars
    <3>2. \/ mode' = mode /\ asked' = asked
          \/ mode \notin {"Uploading", "Exited"} /\ mode' # "Uploading"
      BY <2>4 DEF PathEnter, PathGo, Ready, KeepsOthers, dialogVars
    <3> QED
      BY <3>1, <3>2, UploadFrame
  <2>5. CASE PathGoUp
    <3>1. UNCHANGED uploadVars
      BY <2>5 DEF PathGoUp, PathGo, Ready, KeepsOthers, dialogVars
    <3>2. \/ mode' = mode /\ asked' = asked
          \/ mode \notin {"Uploading", "Exited"} /\ mode' # "Uploading"
      BY <2>5 DEF PathGoUp, PathGo, Ready, KeepsOthers, dialogVars
    <3> QED
      BY <3>1, <3>2, UploadFrame
  <2>6. CASE EnterNewDir
    <3>1. UNCHANGED uploadVars
      BY <2>6 DEF EnterNewDir, PathTo, Ready, KeepsOthers, dialogVars
    <3>2. \/ mode' = mode /\ asked' = asked
          \/ mode \notin {"Uploading", "Exited"} /\ mode' # "Uploading"
      BY <2>6 DEF EnterNewDir, PathTo, Ready, KeepsOthers, dialogVars
    <3> QED
      BY <3>1, <3>2, UploadFrame
  <2>7. CASE EditNewDir
    <3>1. UNCHANGED uploadVars
      BY <2>7 DEF EditNewDir, PathTo, Ready, KeepsOthers, dialogVars
    <3>2. \/ mode' = mode /\ asked' = asked
          \/ mode \notin {"Uploading", "Exited"} /\ mode' # "Uploading"
      BY <2>7 DEF EditNewDir, PathTo, Ready, KeepsOthers, dialogVars
    <3> QED
      BY <3>1, <3>2, UploadFrame
  <2>8. CASE LeaveNewDir
    <3>1. UNCHANGED uploadVars
      BY <2>8 DEF LeaveNewDir, PathTo, Ready, KeepsOthers, dialogVars
    <3>2. \/ mode' = mode /\ asked' = asked
          \/ mode \notin {"Uploading", "Exited"} /\ mode' # "Uploading"
      BY <2>8 DEF LeaveNewDir, PathTo, Ready, KeepsOthers, dialogVars
    <3> QED
      BY <3>1, <3>2, UploadFrame
  <2>9. CASE ConfirmNewDir
    <3>1. UNCHANGED uploadVars
      BY <2>9 DEF ConfirmNewDir, PathGo, Ready, KeepsOthers, dialogVars
    <3>2. \/ mode' = mode /\ asked' = asked
          \/ mode \notin {"Uploading", "Exited"} /\ mode' # "Uploading"
      BY <2>9 DEF ConfirmNewDir, PathGo, Ready, KeepsOthers, dialogVars
    <3> QED
      BY <3>1, <3>2, UploadFrame
  <2>10. CASE AdvanceToFileBrowser
    <3>1. UNCHANGED uploadVars
      BY <2>10 DEF AdvanceToFileBrowser, Ready, KeepsOthers, dialogVars
    <3>2. \/ mode' = mode /\ asked' = asked
          \/ mode \notin {"Uploading", "Exited"} /\ mode' # "Uploading"
      BY <2>10 DEF AdvanceToFileBrowser, Ready, KeepsOthers, dialogVars
    <3> QED
      BY <3>1, <3>2, UploadFrame
  <2>11. CASE LeavePathBrowser
    <3>1. UNCHANGED uploadVars
      BY <2>11 DEF LeavePathBrowser, PathTo, Ready, KeepsOthers, dialogVars
    <3>2. \/ mode' = mode /\ asked' = asked
          \/ mode \notin {"Uploading", "Exited"} /\ mode' # "Uploading"
      BY <2>11 DEF LeavePathBrowser, PathTo, Ready, KeepsOthers, dialogVars
    <3> QED
      BY <3>1, <3>2, UploadFrame
  <2>12. CASE BrowserMove
    <3>1. UNCHANGED uploadVars
      BY <2>12 DEF BrowserMove, StaysInBrowser, Ready, KeepsOthers, dialogVars
    <3>2. \/ mode' = mode /\ asked' = asked
          \/ mode \notin {"Uploading", "Exited"} /\ mode' # "Uploading"
      BY <2>12 DEF BrowserMove, StaysInBrowser, Ready, KeepsOthers, dialogVars
    <3> QED
      BY <3>1, <3>2, UploadFrame
  <2>13. CASE BrowserEnter
    <3>1. UNCHANGED uploadVars
      BY <2>13 DEF BrowserEnter, BrowserGo, StaysInBrowser, KeepsOthers, Ready, dialogVars
    <3>2. \/ mode' = mode /\ asked' = asked
          \/ mode \notin {"Uploading", "Exited"} /\ mode' # "Uploading"
      BY <2>13 DEF BrowserEnter, BrowserGo, StaysInBrowser, KeepsOthers, Ready, dialogVars
    <3> QED
      BY <3>1, <3>2, UploadFrame
  <2>14. CASE BrowserGoUp
    <3>1. UNCHANGED uploadVars
      BY <2>14 DEF BrowserGoUp, BrowserGo, StaysInBrowser, KeepsOthers, Ready, dialogVars
    <3>2. \/ mode' = mode /\ asked' = asked
          \/ mode \notin {"Uploading", "Exited"} /\ mode' # "Uploading"
      BY <2>14 DEF BrowserGoUp, BrowserGo, StaysInBrowser, KeepsOthers, Ready, dialogVars
    <3> QED
      BY <3>1, <3>2, UploadFrame
  <2>15. CASE SelectFile
    <3>1. UNCHANGED uploadVars
      BY <2>15 DEF SelectFile, Ready, KeepsOthers, dialogVars
    <3>2. \/ mode' = mode /\ asked' = asked
          \/ mode \notin {"Uploading", "Exited"} /\ mode' # "Uploading"
      BY <2>15 DEF SelectFile, Ready, KeepsOthers, dialogVars
    <3> QED
      BY <3>1, <3>2, UploadFrame
  <2>16. CASE ToggleMark
    <3>1. UNCHANGED uploadVars
      BY <2>16 DEF ToggleMark, StaysInBrowser, KeepsOthers, Ready, dialogVars
    <3>2. \/ mode' = mode /\ asked' = asked
          \/ mode \notin {"Uploading", "Exited"} /\ mode' # "Uploading"
      BY <2>16 DEF ToggleMark, StaysInBrowser, KeepsOthers, Ready, dialogVars
    <3> QED
      BY <3>1, <3>2, UploadFrame
  <2>17. CASE AskClearMarks
    <3>1. UNCHANGED uploadVars
      BY <2>17 DEF AskClearMarks, FileMode, Ready, StaysInBrowser, KeepsOthers, dialogVars
    <3>2. \/ mode' = mode /\ asked' = asked
          \/ mode \notin {"Uploading", "Exited"} /\ mode' # "Uploading"
      BY <2>17 DEF AskClearMarks, FileMode, Ready, StaysInBrowser, KeepsOthers, dialogVars
    <3> QED
      BY <3>1, <3>2, UploadFrame
  <2>18. CASE AnswerClearMarks
    <3>1. UNCHANGED uploadVars
      BY <2>18 DEF AnswerClearMarks, FileMode, Ready, StaysInBrowser, KeepsOthers, dialogVars
    <3>2. \/ mode' = mode /\ asked' = asked
          \/ mode \notin {"Uploading", "Exited"} /\ mode' # "Uploading"
      BY <2>18 DEF AnswerClearMarks, FileMode, Ready, StaysInBrowser, KeepsOthers, dialogVars
    <3> QED
      BY <3>1, <3>2, UploadFrame
  <2>19. CASE EnterFilter
    <3>1. UNCHANGED uploadVars
      BY <2>19 DEF EnterFilter, FileMode, Ready, StaysInBrowser, KeepsOthers, dialogVars
    <3>2. \/ mode' = mode /\ asked' = asked
          \/ mode \notin {"Uploading", "Exited"} /\ mode' # "Uploading"
      BY <2>19 DEF EnterFilter, FileMode, Ready, StaysInBrowser, KeepsOthers, dialogVars
    <3> QED
      BY <3>1, <3>2, UploadFrame
  <2>20. CASE LeaveFilter
    <3>1. UNCHANGED uploadVars
      BY <2>20 DEF LeaveFilter, FileMode, Ready, StaysInBrowser, KeepsOthers, dialogVars
    <3>2. \/ mode' = mode /\ asked' = asked
          \/ mode \notin {"Uploading", "Exited"} /\ mode' # "Uploading"
      BY <2>20 DEF LeaveFilter, FileMode, Ready, StaysInBrowser, KeepsOthers, dialogVars
    <3> QED
      BY <3>1, <3>2, UploadFrame
  <2>21. CASE TypeFilter
    <3>1. UNCHANGED uploadVars
      BY <2>21 DEF TypeFilter, SetFilter, Ready, StaysInBrowser, KeepsOthers, dialogVars
    <3>2. \/ mode' = mode /\ asked' = asked
          \/ mode \notin {"Uploading", "Exited"} /\ mode' # "Uploading"
      BY <2>21 DEF TypeFilter, SetFilter, Ready, StaysInBrowser, KeepsOthers, dialogVars
    <3> QED
      BY <3>1, <3>2, UploadFrame
  <2>22. CASE LeaveFileBrowser
    <3>1. UNCHANGED uploadVars
      BY <2>22 DEF LeaveFileBrowser, Ready, KeepsOthers, dialogVars
    <3>2. \/ mode' = mode /\ asked' = asked
          \/ mode \notin {"Uploading", "Exited"} /\ mode' # "Uploading"
      BY <2>22 DEF LeaveFileBrowser, Ready, KeepsOthers, dialogVars
    <3> QED
      BY <3>1, <3>2, UploadFrame
  <2>23. CASE ToggleHidden
    <3>1. UNCHANGED uploadVars
      BY <2>23 DEF ToggleHidden, dialogVars, KeepsOthers, Ready
    <3>2. \/ mode' = mode /\ asked' = asked
          \/ mode \notin {"Uploading", "Exited"} /\ mode' # "Uploading"
      BY <2>23 DEF ToggleHidden, dialogVars, KeepsOthers, Ready
    <3> QED
      BY <3>1, <3>2, UploadFrame
  <2>24. CASE PrepareUpload
    <3>1. UNCHANGED uploadVars
      BY <2>24 DEF PrepareUpload, Stage, Ready, KeepsOthers, dialogVars
    <3>2. \/ mode' = mode /\ asked' = asked
          \/ mode \notin {"Uploading", "Exited"} /\ mode' # "Uploading"
      BY <2>24 DEF PrepareUpload, Stage, Ready, KeepsOthers, dialogVars
    <3> QED
      BY <3>1, <3>2, UploadFrame
  <2>25. CASE CancelPending
    <3>1. UNCHANGED uploadVars
      BY <2>25 DEF CancelPending, Ready, KeepsOthers, dialogVars
    <3>2. \/ mode' = mode /\ asked' = asked
          \/ mode \notin {"Uploading", "Exited"} /\ mode' # "Uploading"
      BY <2>25 DEF CancelPending, Ready, KeepsOthers, dialogVars
    <3> QED
      BY <3>1, <3>2, UploadFrame
  <2>26. CASE EditStoreKey
    <3>1. UNCHANGED uploadVars
      BY <2>26 DEF EditStoreKey, Edit, KeepsOthers, Ready, dialogVars
    <3>2. \/ mode' = mode /\ asked' = asked
          \/ mode \notin {"Uploading", "Exited"} /\ mode' # "Uploading"
      BY <2>26 DEF EditStoreKey, Edit, KeepsOthers, Ready, dialogVars
    <3> QED
      BY <3>1, <3>2, UploadFrame
  <2>27. CASE LeaveStoreKey
    <3>1. UNCHANGED uploadVars
      BY <2>27 DEF LeaveStoreKey, PathTo, Ready, KeepsOthers, dialogVars
    <3>2. \/ mode' = mode /\ asked' = asked
          \/ mode \notin {"Uploading", "Exited"} /\ mode' # "Uploading"
      BY <2>27 DEF LeaveStoreKey, PathTo, Ready, KeepsOthers, dialogVars
    <3> QED
      BY <3>1, <3>2, UploadFrame
  <2>28. CASE ConfirmUpload
    <3>1. mode = "UploadConfirm" /\ BeginUpload(pending) /\ asked' = asked
      BY <2>28 DEF ConfirmUpload, Ready
    <3>2. pending \in SUBSET Pairs /\ IsFiniteSet(pending) /\ asked = KeysOf(pending)
      BY <3>1 DEF TuiInv, PendingTypes, Questions
    <3>3. KeysOf(pending) \subseteq asked'
      BY <3>1, <3>2
    <3> QED
      BY <3>1, <3>2, <3>3, UploadBegun
  <2>29. CASE StoreFile
    <3> DEFINE key == fields["store_key"].text
               batch == {[file |-> file, key |-> key]}
    <3>1. mode = "StoreKey" /\ file # NoFile /\ BeginUpload(batch) /\ asked' = {key}
      BY <2>29 DEF StoreFile, Ready
    <3>2. file \in LocalFiles /\ key \in Paths
      BY <3>1 DEF TuiInv, Browsers, FieldTypes, FieldNames, FieldValues
    <3>3. batch \in SUBSET Pairs /\ IsFiniteSet(batch)
      <4>1. [file |-> file, key |-> key] \in Pairs
        BY <3>2 DEF Pairs
      <4>2. IsFiniteSet(batch)
        BY FS_Singleton
      <4> QED
        BY <4>1, <4>2
    <3>4. KeysOf(batch) \subseteq asked'
      BY <3>1 DEF KeysOf
    <3> HIDE DEF batch
    <3> QED
      BY <3>1, <3>3, <3>4, UploadBegun
  <2> QED
    BY <1>2, <2>1, <2>2, <2>3, <2>4, <2>5, <2>6, <2>7, <2>8, <2>9, <2>10, <2>11, <2>12, <2>13, <2>14,
       <2>15, <2>16, <2>17, <2>18, <2>19, <2>20, <2>21, <2>22, <2>23, <2>24, <2>25, <2>26, <2>27, <2>28, <2>29
    DEF Choosing
<1>3. CASE Uploads
  BY <1>3, StartStep, CannotReadStep, SendsStep, AnsweredStep, StopsStep DEF Uploads
<1>4. CASE DrainEvent
  BY <1>4, DrainStep
<1>5. CASE CancelUpload
  <2>1. mode = "Uploading" /\ cancel' = TRUE /\ UNCHANGED <<mode, asked, view, queue, worker, report>>
    BY <1>5 DEF CancelUpload, Ready, browseVars, dialogVars
  <2>2. UploadTypes' /\ WorkerOK' /\ ReportOK'
    BY <2>1 DEF TuiInv, UploadTypes, Batch, WorkerOK, ReportOK, OutcomeTrue
  <2>3. BatchOK' /\ CountsOK'
    BY <2>1 DEF TuiInv, BatchOK, Batch, CountsOK, Queued
  <2>4. ProgressOK'
    BY <2>1 DEF TuiInv, ProgressOK, UpToDate
  <2> QED
    BY <2>2, <2>3, <2>4 DEF UploadOK
<1>6. CASE Quit
  <2>1. /\ mode \in {"Normal", "Uploading"} /\ mode' = "Exited" /\ UNCHANGED <<view, queue, worker, report>>
        /\ cancel' = (cancel \/ mode = "Uploading")
    BY <1>6 DEF Quit, Ready
  <2>2. UploadTypes' /\ WorkerOK' /\ ReportOK'
    BY <2>1 DEF TuiInv, UploadTypes, Batch, WorkerOK, ReportOK, OutcomeTrue
  <2>3. BatchOK' /\ CountsOK' /\ ProgressOK'
    BY <2>1 DEF BatchOK, CountsOK, ProgressOK
  <2> QED
    BY <2>2, <2>3 DEF UploadOK
<1> QED
  BY <1>1, <1>2, <1>3, <1>4, <1>5, <1>6 DEF Next

-----------------------------------------------------------------------------
(* The invariant *)

\* It holds when the client has connected.
LEMMA InvInit ==
  ASSUME Init
  PROVE  TuiInv
<1>1. /\ server = FirstKeys /\ items \in {{}, FirstKeys} /\ query = NoQuery /\ prefix = <<>> /\ show_hidden = FALSE
      /\ entries = EntriesOf(items, <<>>, FALSE) /\ selected = 0 /\ browse_pos = <<>> /\ mode = "Normal"
      /\ fields = [f \in FieldNames |-> EmptyField] /\ target = NoTarget /\ job = NoJob /\ asked = {} /\ changes = 0
      /\ path_prefix = <<>> /\ path_selected = 0 /\ browser_dir = <<>> /\ browser_selected = 0 /\ browser_pos = <<>>
      /\ marked = {} /\ file = NoFile /\ pending = {}
      /\ view = [total |-> 0, current |-> 0, ok |-> 0, bad |-> 0, sent |-> 0, size |-> 0, bytes |-> 0, done |-> 0]
      /\ queue = <<>> /\ cancel = FALSE /\ worker = NoWorker /\ report = "none"
  BY DEF Init, BrowseInit, FieldNames
<1>2. FirstKeys \subseteq Paths /\ IsFiniteSet(FirstKeys) /\ {} \subseteq Paths /\ IsFiniteSet({}) /\ <<>> \in Paths
  BY KeysAssumption, FS_EmptySet DEF Paths
<1>3. ListTypes
  <2>1. PositionsOK(browse_pos)
    BY <1>1 DEF PositionsOK
  <2> QED
    BY <2>1, <1>1, <1>2 DEF ListTypes
<1>4. FieldTypes
  BY <1>1, EmptyTyped DEF FieldTypes
<1>5. /\ NoJob.kind = "none" /\ NoJob.todo = {} /\ NoJob.done = {} /\ NoJob.failed = {}
      /\ NoJob \in [kind : JobKinds, todo : SUBSET Paths, done : SUBSET Paths, failed : SUBSET Paths, to : Paths]
      /\ NoTarget \in [key : Paths, dir : BOOLEAN]
  BY <1>2 DEF NoJob, NoTarget, JobKinds
<1>6. JobTypes /\ JobMode /\ JobAsked
  BY <1>1, <1>2, <1>5 DEF JobTypes, JobMode, JobAsked
<1>7. Questions /\ CursorsValid
  BY <1>1 DEF Questions, CursorsValid
<1>8. Browsers
  <2>1. PositionsOK(browser_pos)
    BY <1>1 DEF PositionsOK
  <2> QED
    BY <2>1, <1>1, <1>2 DEF Browsers
<1>9. PendingTypes
  BY <1>1, <1>2 DEF PendingTypes
<1>10. /\ worker.pc = "off" /\ worker.left = {} /\ worker.cur = {} /\ worker.good = {} /\ worker.bad = {} /\ Batch = {}
       /\ worker \in [pc : {"off", "check", "call"}, left : SUBSET Pairs, cur : SUBSET Pairs,
                      sent : Nat, good : SUBSET Pairs, bad : SUBSET Pairs]
  BY <1>1 DEF NoWorker, Batch
<1>11. UploadTypes
  <2>1. view \in Views
    BY <1>1 DEF Views
  <2>2. queue \in Seq(Events)
    BY <1>1
  <2> QED
    BY <1>1, <1>2, <1>10, <2>1, <2>2 DEF UploadTypes
<1>12. WorkerOK /\ BatchOK /\ CountsOK /\ ReportOK /\ ProgressOK
  BY <1>1, <1>10 DEF WorkerOK, BatchOK, CountsOK, ReportOK, OutcomeTrue, ProgressOK
<1>13. ListFresh
  <2>1. items \subseteq Paths /\ IsFiniteSet(items) /\ Filtered(items, query) = items
    BY <1>1, <1>2 DEF Filtered
  <2>2. entries = EntriesOf(Filtered(items, query), prefix, show_hidden)
    BY <1>1, <2>1
  <2>3. InRange(selected, entries)
    BY <1>1, <1>2, <2>1, ListsAre, FirstIs
  <2> QED
    BY <2>2, <2>3 DEF ListFresh
<1>14. ViewsFresh
  <2>1. TuiTypeOK
    BY <1>1, <1>2, <1>5, <1>10 DEF TuiTypeOK, Paths
  <2>2. DetailIsSelected /\ BrowsersFresh
    BY <1>1 DEF DetailIsSelected, BrowsersFresh
  <2> QED
    BY <1>13, <2>1, <2>2 DEF ViewsFresh
<1> QED
  BY <1>3, <1>4, <1>6, <1>7, <1>8, <1>9, <1>11, <1>12, <1>14 DEF TuiInv

\* Every step keeps it, and so does the client that takes none.
LEMMA InvNext ==
  ASSUME TuiInv, [Next]_tuiVars
  PROVE  TuiInv'
<1>1. CASE Next
  <2>1. FieldTypes' /\ CursorsValid'
    BY <1>1, FieldsStep
  <2>2. Browsers' /\ BrowsersFresh' /\ path_selected' \in Nat /\ browser_selected' \in Nat
    BY <1>1, BrowsersStep DEF BrowsersOK
  <2>3. ListTypes' /\ ListFresh' /\ selected' \in Nat
    BY <1>1, ListStep DEF ListOK
  <2>4. JobTypes' /\ JobMode' /\ Questions' /\ JobAsked' /\ DetailIsSelected'
    BY <1>1, DialogsStep DEF DialogsOK
  <2>5. mode' \in Modes /\ (pending' # {} <=> mode' = "UploadConfirm") /\ PendingTypes'
    BY <1>1, ChosenStep DEF ChosenOK
  <2>6. UploadTypes' /\ WorkerOK' /\ BatchOK' /\ CountsOK' /\ ReportOK' /\ ProgressOK'
    BY <1>1, UploadStep DEF UploadOK
  <2>7. items' \in SUBSET Seq(Names) /\ server' \in SUBSET Seq(Names)
    BY <2>3 DEF ListTypes, Paths
  <2>8. job'.done \cap job'.failed = {} /\ job'.todo \cap (job'.done \cup job'.failed) = {}
    BY <2>4 DEF JobTypes
  <2>9. worker'.pc \in {"off", "check", "call"}
    BY <2>6 DEF UploadTypes
  <2>10. TuiTypeOK'
    BY <2>2, <2>3, <2>5, <2>7, <2>8, <2>9 DEF TuiTypeOK, Modes
  <2> QED
    BY <2>1, <2>2, <2>3, <2>4, <2>5, <2>6, <2>10 DEF TuiInv, ViewsFresh
<1>2. CASE UNCHANGED tuiVars
  <2>1. /\ UNCHANGED <<server, connected, items, query, prefix, show_hidden, entries, selected, browse_pos,
                       mode, detail, fields, target, job, asked, ops, changes>>
        /\ UNCHANGED <<path_prefix, path_entries, path_selected, browser_dir, browser_all, browser_entries,
                       browser_selected, browser_pos, browser_filter, marked, file, pending,
                       view, queue, cancel, worker, report>>
    BY <1>2 DEF tuiVars, browseVars, listVars, dialogVars, netVars, pathVars, fileVars, uploadVars
  <2>2. ViewsFresh'
    BY <2>1 DEF TuiInv, ViewsFresh, TuiTypeOK, ListFresh, DetailIsSelected, OnEntry, Entry, EntryPath, BrowsersFresh
  <2>3. ListTypes' /\ FieldTypes' /\ JobTypes' /\ JobMode'
    BY <2>1 DEF TuiInv, ListTypes, FieldTypes, JobTypes, JobMode
  <2>4. Questions' /\ JobAsked'
    BY <2>1 DEF TuiInv, Questions, OnEntry, Entry, EntryPath, JobAsked
  <2>5. Browsers' /\ CursorsValid' /\ PendingTypes'
    BY <2>1 DEF TuiInv, Browsers, CursorsValid, PendingTypes
  <2>6. UploadOK'
    BY <2>1, UploadFrame DEF uploadVars
  <2> QED
    BY <2>2, <2>3, <2>4, <2>5, <2>6 DEF TuiInv, UploadOK
<1> QED
  BY <1>1, <1>2

-----------------------------------------------------------------------------
(* Theorems *)

\* The inductive invariant of the client: what each view shows, which question
\* and which job the mode belongs to, where each file of the batch is, and what
\* the events on their way will still make of the counters (app.rs, main.rs).
THEOREM ClientInvariant == Spec => []TuiInv
  <1>1. Init => TuiInv
    BY InvInit
  <1>2. TuiInv /\ [Next]_tuiVars => TuiInv'
    BY InvNext
  <1> QED
    BY <1>1, <1>2, PTL DEF Spec

\* Every handler rebuilds what it made stale: the list, the detail view and
\* both browsers show the local copy, the filter and the directory as they are
\* now, with the cursor on a line (app.rs:317, 870, 1209; main.rs:203).
THEOREM ViewsAreFresh == Spec => []ViewsFresh
  <1>1. TuiInv => ViewsFresh
    BY DEF TuiInv
  <1> QED
    BY <1>1, ClientInvariant, PTL

\* Whatever is typed, moved over and deleted, for names of any width: while a
\* field takes keys its cursor is between two characters (main.rs:175, 189).
THEOREM CursorsAreValid == Spec => []CursorsValid
  <1>1. TuiInv => CursorsValid
    BY DEF TuiInv
  <1> QED
    BY <1>1, ClientInvariant, PTL

\* A directory deleted without an error leaves none of the local list's
\* objects under it (app.rs:1537).
THEOREM DeletionIsComplete == Spec => []DirDeletionComplete
  <1>1. TuiInv => DirDeletionComplete
    <2> SUFFICES ASSUME TuiInv, job.kind = "deldir", job.todo = {}, job.failed = {}, changes = 0,
                        NEW k \in items \cap server, NEW a \in asked, Under(a, k)
                 PROVE  FALSE
      BY DEF DirDeletionComplete
    <2>1. k \in job.todo \cup job.done \cup job.failed /\ job.done \cap server = {}
      BY DEF TuiInv, JobAsked
    <2> QED
      BY <2>1
  <1> QED
    BY <1>1, ClientInvariant, PTL

\* No event of the worker is lost or counted twice, for any batch and any
\* delay, and the progress never exceeds the batch (app.rs:1100, 1171).
THEOREM EventsAreAccounted == Spec => []EventsAccounted
  <1>1. TuiInv => EventsAccounted
    <2>1. ASSUME TuiInv PROVE ProgressBounded
      <3> SUFFICES ASSUME mode = "Uploading", view.current > view.ok + view.bad
                   PROVE  view.sent <= view.size /\ view.done + view.sent <= view.bytes
        BY DEF ProgressBounded
      <3>1. PICK h : Drained(h, queue, view)
        BY <2>1 DEF TuiInv, ProgressOK
      <3>2. queue \in Seq(Events) /\ 1 \in 1..(Len(queue) + 1)
        BY <2>1 DEF TuiInv, UploadTypes
      <3>3. Bounded(view)
        BY <3>1, <3>2 DEF Drained
      <3> QED
        BY <3>3 DEF Bounded
    <2>2. ASSUME TuiInv PROVE CountsOK
      BY <2>2 DEF TuiInv
    <2> QED
      BY <2>1, <2>2 DEF EventsAccounted, CountsOK
  <1> QED
    BY <1>1, ClientInvariant, PTL

\* The final message is true: a cancelled upload was cancelled by the user, and
\* one without errors stored every file (app.rs:1142).
THEOREM OutcomeIsTrue == Spec => []OutcomeTrue
  <1>1. TuiInv => OutcomeTrue
    BY DEF TuiInv, ReportOK
  <1> QED
    BY <1>1, ClientInvariant, PTL

\* What a step that is no other client's does to the store was asked for.
LEMMA StepsAsked ==
  ASSUME TuiInv, Next, changes' = changes
  PROVE  /\ \A k \in server \ server' : \E a \in asked : a = k \/ Under(a, k)
         /\ mode = "Uploading" => server' \ server \subseteq asked
<1>1. CASE server' = server
  BY <1>1
<1>2. CASE Request
  <2>1. job.todo # {} /\ server' \in {server, After(Least(job.todo))}
    BY <1>2 DEF Request
  <2>2. /\ job.kind \in {"delete", "deldir", "rename", "rendir", "mkdir"}
        /\ job.kind # "mkdir" => \E a \in asked : a = Least(job.todo) \/ Under(a, Least(job.todo))
    BY <2>1, AfterIs
  <2>3. mode # "Uploading"
    BY <2>2 DEF TuiInv, JobMode
  <2>4. \A k \in server \ After(Least(job.todo)) : k = Least(job.todo) /\ job.kind # "mkdir"
    BY <2>2 DEF After
  <2> QED
    BY <2>1, <2>2, <2>3, <2>4
<1>3. CASE WorkerAnswered \/ WorkerStops
  <2>1. worker.pc # "off" /\ mode # "Exited" /\ server' \in {server, server \cup KeysOf(worker.cur)}
    BY <1>3, WorkerIs DEF WorkerAnswered, WorkerStops, Working
  <2>2. KeysOf(worker.cur) \subseteq asked
    <3>1. mode = "Uploading" /\ KeysOf(Batch) \subseteq asked
      BY <2>1 DEF TuiInv, WorkerOK, BatchOK
    <3> QED
      BY <3>1 DEF KeysOf, Batch
  <2> QED
    BY <2>1, <2>2
<1>4. CASE OtherClient
  BY <1>4 DEF OtherClient, TuiInv, ListTypes
<1>5. CASE ~Request /\ ~OtherClient /\ ~WorkerAnswered /\ ~WorkerStops
  <2>1. server' = server
    <3>1. CASE MoveSelection \/ WheelElsewhere \/ BrowseInto \/ ViewDetail \/ BrowseUp
      BY <3>1 DEF MoveSelection, WheelElsewhere, BrowseInto, ViewDetail, BrowseUp,
                  MoveTo, netVars, browseVars
    <3>2. CASE LeaveDetail \/ EnterSearch \/ LeaveSearch \/ ExecuteSearch
      BY <3>2 DEF LeaveDetail, EnterSearch, LeaveSearch, ExecuteSearch,
                  ToMode, netVars, browseVars
    <3>3. CASE EnterDelete \/ RefuseDelete \/ ConfirmDelete \/ ConfirmDeleteDir \/ EnterRename \/ LeaveRename \/ EditRename
      BY <3>3 DEF EnterDelete, RefuseDelete, ConfirmDelete, ConfirmDeleteDir, EnterRename, LeaveRename, EditRename,
                  Edit, netVars, browseVars
    <3>4. CASE ExecuteRename \/ EnterMkdir \/ LeaveMkdir \/ EditMkdir \/ ExecuteMkdir
      BY <3>4 DEF ExecuteRename, EnterMkdir, LeaveMkdir, EditMkdir, ExecuteMkdir,
                  Edit, netVars, browseVars
    <3>5. CASE Refresh \/ NoRefresh \/ AskRefresh
      BY <3>5 DEF Refresh, NoRefresh, AskRefresh,
                  netVars, browseVars
    <3>6. CASE EnterStore \/ BackToPathBrowser \/ PathMove \/ PathEnter \/ PathGoUp
      BY <3>6 DEF EnterStore, BackToPathBrowser, PathMove, PathEnter, PathGoUp,
                  PathGo, KeepsOthers, netVars, browseVars
    <3>7. CASE EnterNewDir \/ EditNewDir \/ LeaveNewDir \/ ConfirmNewDir \/ AdvanceToFileBrowser \/ LeavePathBrowser
      BY <3>7 DEF EnterNewDir, EditNewDir, LeaveNewDir, ConfirmNewDir, AdvanceToFileBrowser, LeavePathBrowser,
                  PathTo, PathGo, KeepsOthers, netVars, browseVars
    <3>8. CASE BrowserMove \/ BrowserEnter \/ BrowserGoUp \/ SelectFile \/ ToggleMark
      BY <3>8 DEF BrowserMove, BrowserEnter, BrowserGoUp, SelectFile, ToggleMark,
                  BrowserGo, StaysInBrowser, KeepsOthers, netVars, browseVars
    <3>9. CASE AskClearMarks \/ AnswerClearMarks \/ EnterFilter \/ LeaveFilter \/ TypeFilter
      BY <3>9 DEF AskClearMarks, AnswerClearMarks, EnterFilter, LeaveFilter, TypeFilter,
                  FileMode, SetFilter, StaysInBrowser, KeepsOthers, netVars, browseVars
    <3>10. CASE LeaveFileBrowser \/ ToggleHidden \/ PrepareUpload \/ CancelPending \/ EditStoreKey \/ LeaveStoreKey
      BY <3>10 DEF LeaveFileBrowser, ToggleHidden, PrepareUpload, CancelPending, EditStoreKey, LeaveStoreKey,
                  Stage, Edit, PathTo, KeepsOthers, netVars, browseVars
    <3>11. CASE ConfirmUpload \/ StoreFile
      BY <3>11 DEF ConfirmUpload, StoreFile,
                  BeginUpload, netVars, browseVars
    <3>12. CASE WorkerStart \/ WorkerCannotRead \/ WorkerSends \/ DrainEvent \/ CancelUpload \/ Quit
      BY <3>12 DEF WorkerStart, WorkerCannotRead, WorkerSends, DrainEvent, CancelUpload, Quit,
                  netVars, browseVars
    <3> QED
      BY <1>5, <3>1, <3>2, <3>3, <3>4, <3>5, <3>6, <3>7, <3>8, <3>9, <3>10, <3>11, <3>12
      DEF Next, Browsing, BrowseNext, Choosing, Uploads
  <2> QED
    BY <2>1
<1> QED
  BY <1>2, <1>3, <1>4, <1>5

\* This client removes only what the user was asked about, or what is under it,
\* and its worker adds only what the user confirmed (app.rs:1504, 1531, 1049).
THEOREM ChangesWereAsked == Spec => OnlyAskedChanges
  <1>1. TuiInv /\ [Next]_tuiVars =>
          [changes' = changes =>
             /\ \A k \in server \ server' : \E a \in asked : a = k \/ Under(a, k)
             /\ mode = "Uploading" => server' \ server \subseteq asked]_tuiVars
    BY StepsAsked
  <1> QED
    BY <1>1, ClientInvariant, PTL DEF Spec, OnlyAskedChanges
=============================================================================
