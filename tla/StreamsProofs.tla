---------------------------- MODULE StreamsProofs ----------------------------
(***************************************************************************)
(* What Listing and Streams promise, for every set of keys, prefix, limit  *)
(* and number of changes by others: the invariant of StreamsInvariant is   *)
(* inductive, and the properties follow from it.                           *)
(***************************************************************************)
EXTENDS StreamsInvariant, SequenceLemmas

-----------------------------------------------------------------------------
(* The order of keys *)

\* A sequence is one over any set that has its members.
LEMMA SeqOver == ASSUME NEW S, NEW s \in Seq(S), NEW T, \A i \in 1..Len(s) : s[i] \in T PROVE s \in Seq(T)
<1>1. s = [i \in 1..Len(s) |-> s[i]] /\ Len(s) \in Nat
  BY LenProperties
<1> QED
  BY <1>1

\* The first members of a sequence.
LEMMA FirstPartIs ==
  ASSUME NEW S, NEW s \in Seq(S), NEW n \in Nat, n <= Len(s)
  PROVE  /\ SubSeq(s, 1, n) \in Seq(S) /\ Len(SubSeq(s, 1, n)) = n
         /\ \A i \in 1..n : SubSeq(s, 1, n)[i] = s[i]
<1>1. 0 \in Nat /\ 0 + 1 = 1 /\ n - 0 = n /\ 0 <= n
  OBVIOUS
<1>2. /\ SubSeq(s, 0 + 1, n) \in Seq(S) /\ Len(SubSeq(s, 0 + 1, n)) = n - 0
      /\ \A i \in 1..(n - 0) : SubSeq(s, 0 + 1, n)[i] = s[0 + i]
  BY <1>1, PartIs
<1>3. \A i \in 1..n : 0 + i = i
  OBVIOUS
<1> QED
  BY <1>1, <1>2, <1>3

\* The order of keys is that of the first token they differ in.
LEMMA LessIs == ASSUME NEW k \in Seq(Nat), NEW l \in Seq(Nat) PROVE Less(k, l) <=> Precedes(k, l)
<1>1. Len(k) \in Nat /\ Len(l) \in Nat
  OBVIOUS
<1>2. ASSUME NEW n \in 0..Len(k), n < Len(l)
      PROVE  SubSeq(k, 1, n) = SubSeq(l, 1, n) <=> \A i \in 1..n : k[i] = l[i]
  <2>1. n \in Nat /\ 0 \in Nat /\ 0 + 1 = 1 /\ n - 0 = n /\ 0 <= n /\ n <= Len(k) /\ n <= Len(l)
    BY <1>1, <1>2
  <2>2. /\ SubSeq(k, 1, n) \in Seq(Nat) /\ Len(SubSeq(k, 1, n)) = n
        /\ \A i \in 1..n : SubSeq(k, 1, n)[i] = k[0 + i]
    BY <2>1, PartIs
  <2>3. /\ SubSeq(l, 1, n) \in Seq(Nat) /\ Len(SubSeq(l, 1, n)) = n
        /\ \A i \in 1..n : SubSeq(l, 1, n)[i] = l[0 + i]
    BY <2>1, PartIs
  <2>4. \A i \in 1..n : 0 + i = i
    OBVIOUS
  <2> QED
    BY <2>2, <2>3, <2>4, SeqEqual, SMTT(40)
<1> QED
  BY <1>2 DEF Less, Precedes

\* It is irreflexive, transitive and total.
LEMMA LessOrders ==
  /\ \A a \in Seq(Nat) : ~Less(a, a)
  /\ \A a, b, c \in Seq(Nat) : Less(a, b) /\ Less(b, c) => Less(a, c)
  /\ \A a, b \in Seq(Nat) : a = b \/ Less(a, b) \/ Less(b, a)
<1>1. \A a \in Seq(Nat) : ~Less(a, a)
  BY LessIs, PrecedesStrict
<1>2. \A a, b, c \in Seq(Nat) : Less(a, b) /\ Less(b, c) => Less(a, c)
  BY LessIs, PrecedesTransitive
<1>3. \A a, b \in Seq(Nat) : a = b \/ Less(a, b) \/ Less(b, a)
  BY LessIs, PrecedesTotal
<1> QED
  BY <1>1, <1>2, <1>3

\* A prefix, token by token.
LEMMA PrefixIs ==
  ASSUME NEW p \in Seq(Nat), NEW k \in Seq(Nat)
  PROVE  IsPrefix(p, k) <=> Len(p) <= Len(k) /\ \A i \in 1..Len(p) : k[i] = p[i]
<1>1. Len(p) \in Nat /\ Len(k) \in Nat /\ SubSeq(p, 1, Len(p)) = p
  BY SubSeqFull
<1>2. ASSUME Len(p) <= Len(k)
      PROVE  SubSeq(k, 1, Len(p)) = p <=> \A i \in 1..Len(p) : k[i] = p[i]
  <2>1. 0 \in Nat /\ 0 + 1 = 1 /\ Len(p) - 0 = Len(p) /\ 0 <= Len(p)
    BY <1>1
  <2>2. /\ SubSeq(k, 1, Len(p)) \in Seq(Nat) /\ Len(SubSeq(k, 1, Len(p))) = Len(p)
        /\ \A i \in 1..Len(p) : SubSeq(k, 1, Len(p))[i] = k[0 + i]
    BY <2>1, <1>1, <1>2, PartIs
  <2>3. \A i \in 1..Len(p) : 0 + i = i
    OBVIOUS
  <2> QED
    BY <2>2, <2>3, SeqEqual
<1> QED
  BY <1>1, <1>2 DEF IsPrefix

\* No key with a prefix is before it.
LEMMA PrefixNotAfter ==
  ASSUME NEW p \in Seq(Nat), NEW k \in Seq(Nat), IsPrefix(p, k)
  PROVE  ~Less(k, p)
<1> SUFFICES ASSUME Less(k, p) PROVE FALSE
  OBVIOUS
<1>1. PICK n \in 0..Len(k) : /\ n < Len(p) /\ \A i \in 1..n : k[i] = p[i]
                             /\ n = Len(k) \/ k[n + 1] < p[n + 1]
  BY LessIs DEF Precedes
<1>2. Len(p) <= Len(k) /\ \A i \in 1..Len(p) : k[i] = p[i]
  BY PrefixIs
<1>3. Len(p) \in Nat /\ Len(k) \in Nat
  OBVIOUS
<1>4. n + 1 \in 1..Len(p) /\ n + 1 \in 1..Len(k) /\ n # Len(k)
  BY <1>1, <1>2, <1>3
<1>5. k[n + 1] = p[n + 1] /\ k[n + 1] \in Nat /\ k[n + 1] < p[n + 1]
  BY <1>1, <1>2, <1>4
<1> QED
  BY <1>5

\* Keys are sequences of tokens, not empty, listed in their order.
LEMMA IndexIs ==
  /\ Index \in Seq(Keys) /\ (\A i \in 1..Len(Index) : Index[i] \in Keys) /\ Keys \subseteq Seq(Nat) /\ <<>> \notin Keys
  /\ \A k \in Keys : \E i \in 1..Len(Index) : k = Index[i]
  /\ \A i, j \in 1..Len(Index) : i < j => Less(Index[i], Index[j])
<1>1. Index \in Seq(Seq(Nat) \ {<<>>}) /\ Keys = {Index[i] : i \in DOMAIN Index} /\ DOMAIN Index = 1..Len(Index)
  BY KeysAreTokens DEF Keys, Range
<1>2. \A i \in 1..Len(Index) : Index[i] \in Seq(Nat) \ {<<>>}
  BY <1>1
<1>3. \A i \in 1..Len(Index) : Index[i] \in Keys
  BY <1>1
<1>4. Index \in Seq(Keys)
  BY <1>1, <1>3, SeqOver
<1> QED
  BY <1>1, <1>2, <1>3, <1>4, ListingBounds

\* Members in ascending order are distinct.
LEMMA AscendsInjective ==
  ASSUME NEW s \in Seq(Seq(Nat)), Ascends(s)
  PROVE  \A i, j \in 1..Len(s) : s[i] = s[j] => i = j
<1> SUFFICES ASSUME NEW i \in 1..Len(s), NEW j \in 1..Len(s), s[i] = s[j], i # j PROVE FALSE
  OBVIOUS
<1>1. s[i] \in Seq(Nat) /\ s[j] \in Seq(Nat)
  OBVIOUS
<1>2. i < j \/ j < i
  OBVIOUS
<1>3. Less(s[i], s[j]) \/ Less(s[j], s[i])
  BY <1>2 DEF Ascends
<1> QED
  BY <1>1, <1>3, LessOrders

-----------------------------------------------------------------------------
(* One page *)

\* What a page is taken from: the stored keys with the prefix, behind the cursor.
Ahead(prefix, cur) == {k \in objects : IsPrefix(prefix, k) /\ (cur = None \/ Less(cur, k))}

\* Page l has the first of A in order; its next cursor is its last key, if there
\* may be more.
GoodPage(l, A, limit) ==
  /\ l.page \in Seq(A) /\ A \subseteq Keys /\ Ascends(l.page)
  /\ l.page = <<>> => A = {} /\ l.next = None
  /\ l.next = None => \A k \in A : \E i \in 1..Len(l.page) : l.page[i] = k
  /\ l.next # None => /\ l.page # <<>> /\ l.next = l.page[Len(l.page)]
                      /\ \A k \in A : (\E i \in 1..Len(l.page) : l.page[i] = k) \/ Less(l.next, k)
                      /\ limit <= Len(l.page)

\* Such are the pages that List gives.
LEMMA ListIs ==
  ASSUME objects \subseteq Keys, NEW prefix \in Seq(Nat), NEW limit \in Nat, NEW cur \in Seq(Nat)
  PROVE  GoodPage(List(prefix, limit, cur), Ahead(prefix, cur), limit)
<1> DEFINE l == List(prefix, limit, cur)
           A == Ahead(prefix, cur)
           from == IF cur = None THEN prefix ELSE cur
           T == {k \in objects : k # cur /\ IsPrefix(prefix, k) /\ ~Less(k, from)}
           R == {p \in Keys \X Keys : Less(p[1], p[2])}
           read == Kept(Index, T)
           m == Len(read)
           many == IF limit = 0 THEN 1 ELSE limit
           n == IF many < m THEN many ELSE m
           page == SubSeq(read, 1, n)
<1>1. T = A
  <2> SUFFICES ASSUME NEW k \in objects
               PROVE  k # cur /\ IsPrefix(prefix, k) /\ ~Less(k, from)
                        <=> IsPrefix(prefix, k) /\ (cur = None \/ Less(cur, k))
    BY DEF Ahead
  <2>1. k \in Seq(Nat) /\ k # <<>>
    BY IndexIs
  <2>2. CASE cur = None
    <3>1. from = prefix /\ k # cur
      BY <2>1, <2>2 DEF None
    <3> QED
      BY <2>1, <2>2, <3>1, PrefixNotAfter
  <2>3. CASE cur # None
    <3>1. from = cur
      BY <2>3
    <3>2. k # cur /\ ~Less(k, cur) <=> Less(cur, k)
      BY <2>1, LessOrders
    <3> QED
      BY <3>1, <3>2, <2>3
  <2> QED
    BY <2>2, <2>3
<1>2. A \subseteq objects /\ A \subseteq Keys /\ A \subseteq Seq(Nat) /\ <<>> \notin A
  BY IndexIs DEF Ahead
<1>3. l = [page |-> page, next |-> IF Len(page) = many THEN Last(page) ELSE None]
  BY DEF List, Page
<1>4. \A a, b \in 1..Len(Index) : a < b => <<Index[a], Index[b]>> \in R
  <2> SUFFICES ASSUME NEW a \in 1..Len(Index), NEW b \in 1..Len(Index), a < b
               PROVE  <<Index[a], Index[b]>> \in R
    OBVIOUS
  <2>1. Index[a] \in Keys /\ Index[b] \in Keys /\ Less(Index[a], Index[b])
    BY IndexIs
  <2> QED
    BY <2>1
<1>5. \A a, b : <<a, b>> \in R => Less(a, b)
  OBVIOUS
<1> HIDE DEF l, A, T, R, page, n, many
<1>6. /\ read \in Seq(Keys)
      /\ \A j \in 1..m : read[j] \in T /\ \E a \in 1..Len(Index) : read[j] = Index[a]
      /\ \A a \in 1..Len(Index) : Index[a] \in T => \E j \in 1..m : read[j] = Index[a]
      /\ \A j, k \in 1..m : j < k => <<read[j], read[k]>> \in R
  BY <1>4, IndexIs, KeptIs
<1> HIDE DEF read, m
<1>7. read \in Seq(A) /\ m \in Nat /\ m = Len(read)
  <2>1. m \in Nat /\ m = Len(read)
    BY <1>6, LenProperties DEF m
  <2>2. \A j \in 1..Len(read) : read[j] \in A
    BY <1>1, <1>6, <2>1
  <2> QED
    BY <2>1, <2>2, <1>6, SeqOver
<1>8. ASSUME NEW k \in A PROVE \E j \in 1..m : read[j] = k
  <2>1. PICK a \in 1..Len(Index) : k = Index[a]
    BY <1>2, IndexIs
  <2>2. Index[a] \in T
    BY <2>1, <1>1
  <2> QED
    BY <2>1, <2>2, <1>6
<1>9. \A j, k \in 1..m : j < k => Less(read[j], read[k])
  BY <1>5, <1>6
<1>10. many \in Nat /\ many >= 1 /\ many >= limit /\ n \in Nat /\ n <= m /\ n <= many /\ (n # many => n = m)
  BY <1>7 DEF many, n
<1>11. page \in Seq(A) /\ Len(page) = n /\ \A i \in 1..n : page[i] = read[i]
  <2>1. 0 \in Nat /\ 0 + 1 = 1 /\ n - 0 = n /\ 0 <= n /\ n <= Len(read)
    BY <1>7, <1>10
  <2>2. page \in Seq(A) /\ Len(page) = n /\ \A i \in 1..n : page[i] = read[0 + i]
    BY <1>7, <2>1, <1>10, PartIs DEF page
  <2>3. \A i \in 1..n : 0 + i = i
    OBVIOUS
  <2> QED
    BY <2>2, <2>3
<1>12. Ascends(page)
  <2> SUFFICES ASSUME NEW i \in 1..n, NEW j \in 1..n, i < j PROVE Less(page[i], page[j])
    BY <1>11 DEF Ascends
  <2>1. i \in 1..m /\ j \in 1..m
    BY <1>7, <1>10
  <2> QED
    BY <2>1, <1>9, <1>11
<1>13. CASE n = many
  <2>1. n \in 1..n /\ page[n] \in A /\ page # <<>>
    BY <1>10, <1>11, <1>13
  <2>2. l.page = page /\ l.next = page[n] /\ l.next # None
    BY <1>2, <1>3, <1>11, <1>13, <2>1 DEF Last, None
  <2>3. ASSUME NEW k \in A PROVE (\E i \in 1..n : page[i] = k) \/ Less(page[n], k)
    <3>1. PICK j \in 1..m : read[j] = k
      BY <1>8
    <3>2. CASE j <= n
      <4>1. j \in 1..n
        BY <3>2, <1>10
      <4> QED
        BY <3>1, <4>1, <1>11
    <3>3. CASE n < j
      <4>1. n \in 1..m
        BY <2>1, <1>7, <1>10
      <4> QED
        BY <3>1, <3>3, <4>1, <2>1, <1>9, <1>11
    <3> QED
      BY <3>2, <3>3, <1>10, <1>7
  <2> QED
    BY <2>1, <2>2, <2>3, <1>2, <1>10, <1>11, <1>12, <1>13 DEF l, A, GoodPage
<1>14. CASE n # many
  <2>1. n = m /\ l.page = page /\ l.next = None
    BY <1>3, <1>10, <1>11, <1>14
  <2>2. \A k \in A : \E i \in 1..n : page[i] = k
    BY <2>1, <1>8, <1>11
  <2>3. page = <<>> => A = {}
    BY <2>2, <1>11
  <2> QED
    BY <2>1, <2>2, <2>3, <1>2, <1>11, <1>12 DEF l, A, GoodPage
<1> QED
  BY <1>13, <1>14

\* A call that may return as many keys as there are returns all.
LEMMA ListsAll ==
  ASSUME objects \subseteq Keys, NEW prefix \in Seq(Nat), NEW limit \in Nat, NEW cur \in Seq(Nat),
         Len(Index) <= limit
  PROVE  LET page == List(prefix, limit, cur).page
         IN  \A k \in Ahead(prefix, cur) : \E i \in 1..Len(page) : page[i] = k
<1> DEFINE l == List(prefix, limit, cur)
           A == Ahead(prefix, cur)
           p == Len(l.page)
<1>0. GoodPage(l, A, limit)
  BY ListIs
<1> HIDE DEF l, A
<1>1. /\ l.page \in Seq(A) /\ A \subseteq Keys /\ Ascends(l.page)
      /\ l.next = None => \A k \in A : \E i \in 1..p : l.page[i] = k
      /\ l.next # None => limit <= p
  BY <1>0 DEF GoodPage
<1>2. CASE l.next # None
  <2>0. p \in Nat /\ l.page \in [1..p -> A] /\ l.page \in Seq(Seq(Nat))
    <3>1. A \subseteq Seq(Nat)
      BY <1>1, IndexIs
    <3> QED
      BY <1>1, <3>1, SeqMonotonic, LenProperties
  <2>1. l.page \in Injection(1..p, Keys)
    <3>1. l.page \in [1..p -> Keys]
      BY <2>0, <1>1
    <3>2. \A i, j \in 1..p : l.page[i] = l.page[j] => i = j
      BY <2>0, <1>1, AscendsInjective
    <3> QED
      BY <2>0, <3>1, <3>2 DEF Injection, IsInjective
  <2>2. Len(Index) \in Nat /\ Index \in [1..Len(Index) -> Keys] /\ \A k \in Keys : \E i \in 1..Len(Index) : Index[i] = k
    BY IndexIs, LenProperties
  <2>3. IsFiniteSet(1..Len(Index)) /\ Cardinality(1..Len(Index)) = Len(Index)
    <3>1. 1 \in Int /\ Len(Index) \in Int /\ (IF 1 > Len(Index) THEN 0 ELSE Len(Index) - 1 + 1) = Len(Index)
      BY <2>2
    <3> QED
      BY <3>1, FS_Interval
  <2>4. IsFiniteSet(Keys) /\ Cardinality(Keys) <= Len(Index) /\ Cardinality(Keys) \in Nat
    <3>1. Index \in Surjection(1..Len(Index), Keys)
      BY <2>2 DEF Surjection
    <3>2. IsFiniteSet(Keys) /\ Cardinality(Keys) <= Cardinality(1..Len(Index))
      BY <3>1, <2>3, FS_Surjection
    <3> QED
      BY <3>2, <2>3, FS_CardinalityType
  <2>5. Cardinality(1..p) = p
    <3>1. 1 \in Int /\ p \in Int /\ (IF 1 > p THEN 0 ELSE p - 1 + 1) = p
      BY <2>0
    <3> QED
      BY <3>1, FS_Interval
  <2>6. Cardinality(1..p) <= Cardinality(Keys)
        /\ (Cardinality(1..p) = Cardinality(Keys) <=> l.page \in Surjection(1..p, Keys))
    BY <2>1, <2>4, FS_Injection
  <2>7. limit <= p
    BY <1>1, <1>2
  <2>8. p = Cardinality(Keys)
    BY <2>0, <2>2, <2>4, <2>5, <2>6, <2>7
  <2>9. l.page \in Surjection(1..p, Keys)
    BY <2>5, <2>6, <2>8
  <2> QED
    BY <1>1, <2>9 DEF Surjection, l, A
<1> QED
  BY <1>1, <1>2 DEF l, A

-----------------------------------------------------------------------------
(* One sequence behind another *)

\* The places of s \o t.
LEMMA JoinIs ==
  ASSUME NEW S, NEW s \in Seq(S), NEW t \in Seq(S)
  PROVE  /\ s \o t \in Seq(S) /\ Len(s \o t) = Len(s) + Len(t)
         /\ \A i \in 1..Len(s) : i \in 1..Len(s \o t) /\ (s \o t)[i] = s[i]
         /\ \A j \in 1..Len(t) : Len(s) + j \in 1..Len(s \o t) /\ (s \o t)[Len(s) + j] = t[j]
         /\ \A i \in 1..Len(s \o t) : i \in 1..Len(s) \/ (i - Len(s) \in 1..Len(t) /\ i = Len(s) + (i - Len(s)))
<1>1. /\ s \o t \in Seq(S) /\ Len(s \o t) = Len(s) + Len(t) /\ Len(s) \in Nat /\ Len(t) \in Nat
      /\ \A i \in 1..(Len(s) + Len(t)) : (s \o t)[i] = IF i <= Len(s) THEN s[i] ELSE t[i - Len(s)]
  BY ConcatProperties
<1>2. ASSUME NEW i \in 1..Len(s) PROVE i \in 1..Len(s \o t) /\ (s \o t)[i] = s[i]
  BY <1>1
<1>3. ASSUME NEW j \in 1..Len(t)
      PROVE  Len(s) + j \in 1..Len(s \o t) /\ (s \o t)[Len(s) + j] = t[j]
  <2>1. Len(s) + j \in 1..(Len(s) + Len(t)) /\ ~(Len(s) + j <= Len(s)) /\ (Len(s) + j) - Len(s) = j
    BY <1>1
  <2>2. (s \o t)[Len(s) + j] = IF Len(s) + j <= Len(s) THEN s[Len(s) + j] ELSE t[(Len(s) + j) - Len(s)]
    BY <1>1, <2>1
  <2> QED
    BY <1>1, <2>1, <2>2
<1>4. ASSUME NEW i \in 1..Len(s \o t)
      PROVE  i \in 1..Len(s) \/ (i - Len(s) \in 1..Len(t) /\ i = Len(s) + (i - Len(s)))
  BY <1>1
<1> QED
  BY <1>1, <1>2, <1>3, <1>4

\* What is a member of a sequence.
LEMMA RangeIs ==
  ASSUME NEW S, NEW s \in Seq(S)
  PROVE  Range(s) \subseteq S /\ \A x : x \in Range(s) <=> \E i \in 1..Len(s) : s[i] = x
<1>1. DOMAIN s = 1..Len(s) /\ \A i \in 1..Len(s) : s[i] \in S
  OBVIOUS
<1> QED
  BY <1>1 DEF Range

\* Its members are those of s and t.
LEMMA JoinMembers ==
  ASSUME NEW S, NEW s \in Seq(S), NEW t \in Seq(S)
  PROVE  Range(s \o t) = Range(s) \cup Range(t)
<1> DEFINE q == s \o t
<1>1. /\ q \in Seq(S)
      /\ \A i \in 1..Len(s) : i \in 1..Len(q) /\ q[i] = s[i]
      /\ \A j \in 1..Len(t) : Len(s) + j \in 1..Len(q) /\ q[Len(s) + j] = t[j]
      /\ \A i \in 1..Len(q) : i \in 1..Len(s) \/ (i - Len(s) \in 1..Len(t) /\ i = Len(s) + (i - Len(s)))
  BY JoinIs
<1> HIDE DEF q
<1>q. \A x : x \in Range(q) <=> \E i \in 1..Len(q) : q[i] = x
  BY <1>1, RangeIs
<1>s. \A x : x \in Range(s) <=> \E i \in 1..Len(s) : s[i] = x
  BY RangeIs
<1>t. \A x : x \in Range(t) <=> \E i \in 1..Len(t) : t[i] = x
  BY RangeIs
<1>2. ASSUME NEW x \in Range(q) PROVE x \in Range(s) \/ x \in Range(t)
  <2>1. PICK i \in 1..Len(q) : q[i] = x
    BY <1>q
  <2>2. i \in 1..Len(s) \/ (i - Len(s) \in 1..Len(t) /\ i = Len(s) + (i - Len(s)))
    BY <1>1
  <2>3. q[i] = s[i] \/ (i - Len(s) \in 1..Len(t) /\ q[i] = t[i - Len(s)])
    BY <1>1, <2>2
  <2> QED
    BY <1>1, <1>s, <1>t, <2>1, <2>2, <2>3
<1>3. \A x : x \in Range(s) \/ x \in Range(t) => x \in Range(q)
  BY <1>1, <1>q, <1>s, <1>t
<1>4. Range(q) = Range(s) \cup Range(t)
  BY <1>2, <1>3
<1> QED
  BY <1>4 DEF q

\* Pages in order, each behind the one before it, are in order.
LEMMA AscendsJoin ==
  ASSUME NEW s \in Seq(Seq(Nat)), NEW t \in Seq(Seq(Nat)), Ascends(s), Ascends(t),
         \A i \in 1..Len(s), j \in 1..Len(t) : Less(s[i], t[j])
  PROVE  Ascends(s \o t)
<1> DEFINE q == s \o t
<1>1. /\ \A i \in 1..Len(s) : q[i] = s[i]
      /\ \A j \in 1..Len(t) : q[Len(s) + j] = t[j]
      /\ \A i \in 1..Len(q) : i \in 1..Len(s) \/ (i - Len(s) \in 1..Len(t) /\ i = Len(s) + (i - Len(s)))
  BY JoinIs
<1>2. Len(s) \in Nat /\ Len(t) \in Nat
  OBVIOUS
<1> HIDE DEF q
<1>3. ASSUME NEW i \in 1..Len(q), NEW j \in 1..Len(q), i < j PROVE Less(q[i], q[j])
  <2>1. CASE j \in 1..Len(s)
    <3>1. i \in 1..Len(s)
      BY <1>3, <2>1, <1>2
    <3> QED
      BY <1>1, <1>3, <2>1, <3>1 DEF Ascends
  <2>2. CASE i \in 1..Len(s) /\ j \notin 1..Len(s)
    <3>1. j - Len(s) \in 1..Len(t) /\ q[j] = t[j - Len(s)]
      BY <1>1, <2>2
    <3> QED
      BY <1>1, <2>2, <3>1
  <2>3. CASE i \notin 1..Len(s) /\ j \notin 1..Len(s)
    <3>1. j - Len(s) \in 1..Len(t) /\ q[j] = t[j - Len(s)] /\ i - Len(s) \in 1..Len(t) /\ q[i] = t[i - Len(s)]
      BY <1>1, <2>3
    <3>2. i - Len(s) < j - Len(s)
      BY <1>2, <1>3
    <3> QED
      BY <3>1, <3>2 DEF Ascends
  <2> QED
    BY <2>1, <2>2, <2>3
<1>4. Ascends(q)
  BY <1>3 DEF Ascends
<1> QED
  BY <1>4 DEF q

-----------------------------------------------------------------------------
(* The first state and the requests *)

\* The phases belong to one kind of request each.
LEMMA PhaseKind ==
  ASSUME TypeInv
  PROVE  /\ phase = "idle" <=> kind = "none"
         /\ phase \in {"list", "delete"} => kind = "delete"
         /\ phase = "master" => kind = "master"
         /\ phase \in {"init", "segments"} => kind = "hls"
         /\ phase \in {"variants", "each"} => kind = "dash"
<1>1. kind \in {"none", "media", "streams", "delete", "master", "hls", "dash"} /\ phase \in Phases(kind)
  BY DEF TypeInv
<1>2. CASE kind \in {"none", "media", "streams", "delete"}
  BY <1>1, <1>2 DEF Phases
<1>3. CASE kind \in {"master", "hls", "dash"}
  BY <1>1, <1>3 DEF Phases
<1> QED
  BY <1>1, <1>2, <1>3

\* The invariant holds at first.
LEMMA InvInit == ASSUME Init PROVE ListingInv
<1> USE DEF Init
<1>1. TypeInv
  BY ListingBounds DEF TypeInv, Phases, Requests, NoArg
<1>2. FreshInv
  BY DEF FreshInv, None
<1>3. HistoryInv /\ MediaInv /\ DeleteInv /\ StreamsInv /\ PlaylistInv /\ MasterComplete
  BY DEF HistoryInv, MediaInv, DeleteInv, StreamsInv, PlaylistInv, MasterComplete
<1> QED
  BY <1>1, <1>2, <1>3 DEF ListingInv

Firsts(k) ==
  CASE k \in {"media", "streams"} -> {"page"}
    [] k = "delete" -> {"list"}
    [] k = "master" -> {"master"}
    [] k = "hls"    -> {"init"}
    [] k = "dash"   -> {"variants"}

\* It holds when a request arrives.
LEMMA BeginStep ==
  ASSUME ListingInv, NEW k \in {"media", "streams", "delete", "master", "hls", "dash"},
         NEW a \in Requests, NEW first \in Firsts(k), Begin(k, a, first)
  PROVE  ListingInv'
<1>1. TypeInv /\ FreshInv /\ kind = "none"
  BY PhaseKind DEF ListingInv, Begin
<1>2. /\ kind' = k /\ arg' = a /\ phase' = first /\ start' = objects
      /\ objects' = objects /\ changes' = 0 /\ put' = {} /\ lost' = {}
      /\ cursor' = None /\ todo' = <<>> /\ answer' = <<>>
  BY <1>1 DEF Begin, FreshInv, storeVars
<1>3. first \in {"page", "list", "master", "init", "variants"} /\ first \in Phases(k)
  <2>1. CASE k \in {"media", "streams", "delete"}
    BY <2>1 DEF Firsts, Phases
  <2>2. CASE k \in {"master", "hls", "dash"}
    BY <2>2 DEF Firsts, Phases
  <2> QED
    BY <2>1, <2>2
<1>4. TypeInv'
  <2>1. objects \subseteq Keys
    BY <1>1 DEF TypeInv
  <2> QED
    BY <1>2, <1>3, <2>1, ListingBounds DEF TypeInv
<1>5. FreshInv'
  BY <1>2 DEF FreshInv
<1>6. AtSomeTime' = objects /\ Throughout' = objects
  BY <1>2 DEF AtSomeTime, Throughout
<1>7. HistoryInv'
  BY <1>2, <1>6 DEF HistoryInv
<1>e. <<>> = None /\ Len(<<>>) = 0 /\ <<>> \o <<>> = <<>> /\ \A S : <<>> \in Seq(S)
  BY EmptySeq, ConcatEmptySeq DEF None
<1>8. MediaInv'
  BY <1>2, <1>3, <1>6, <1>e DEF MediaInv, Ascends, Firsts
<1>9. DeleteInv'
  BY <1>2, <1>3, <1>6, <1>e DEF DeleteInv, Ascends, Firsts
<1>10. StreamsInv'
  BY <1>2, <1>3, <1>6, <1>e DEF StreamsInv, Firsts
<1>11. PlaylistInv'
  BY <1>2, <1>3, <1>e DEF PlaylistInv
<1>12. MasterComplete'
  BY <1>2, <1>3 DEF MasterComplete
<1> QED
  BY <1>4, <1>5, <1>7, <1>8, <1>9, <1>10, <1>11, <1>12 DEF ListingInv

\* It holds after each of the requests.
LEMMA RequestStep == ASSUME ListingInv, Request PROVE ListingInv'
<1>0. ASSUME NEW x \in Requests, NEW p \in Seq(Nat), NEW n \in Nat, NEW v \in Seq(Nat)
      PROVE  [x EXCEPT !.prefix = p, !.limit = n] \in Requests /\ [x EXCEPT !.id = p] \in Requests
             /\ [x EXCEPT !.id = p, !.variant = v] \in Requests
  BY DEF Requests
<1>1. NoArg \in Requests
  BY DEF NoArg, Requests
<1>2. ASSUME NEW api \in {"grpc", "rest"}, NEW n \in Limits, NEW p \in Asked, ListMedia(api, p, n)
      PROVE  ListingInv'
  <2>1. p \in Seq(Nat) /\ Limit(api, n) \in Nat
    BY KeysAreTokens, ListingBounds DEF Limit
  <2>2. [NoArg EXCEPT !.prefix = p, !.limit = Limit(api, n)] \in Requests
    BY <2>1, <1>0, <1>1
  <2>3. "page" \in Firsts("media")
    BY DEF Firsts
  <2> QED
    BY <1>2, <2>2, <2>3, BeginStep DEF ListMedia
<1>3. ASSUME NEW api \in {"grpc", "rest"}, NEW n \in Limits, NEW p \in AskedStreams, ListStreams(api, p, n)
      PROVE  ListingInv'
  <2>1. p \in Seq(Nat) /\ Limit(api, n) \in Nat
    BY StreamTokens, ListingBounds DEF Limit
  <2>2. [NoArg EXCEPT !.prefix = p, !.limit = Limit(api, n)] \in Requests
    BY <2>1, <1>0, <1>1
  <2>3. "page" \in Firsts("streams")
    BY DEF Firsts
  <2> QED
    BY <1>3, <2>2, <2>3, BeginStep DEF ListStreams
<1>4. ASSUME NEW id \in Ids, DeleteStream(id) \/ GetMaster(id) \/ GetDash(id) PROVE ListingInv'
  <2>1. [NoArg EXCEPT !.id = id] \in Requests
    BY <1>0, <1>1, StreamTokens
  <2>2. "list" \in Firsts("delete") /\ "master" \in Firsts("master") /\ "variants" \in Firsts("dash")
    BY DEF Firsts
  <2> QED
    BY <1>4, <2>1, <2>2, BeginStep DEF DeleteStream, GetMaster, GetDash
<1>5. ASSUME NEW id \in Ids, NEW v \in Variants, GetPlaylist(id, v) PROVE ListingInv'
  <2>1. [NoArg EXCEPT !.id = id, !.variant = v] \in Requests
    BY <1>0, <1>1, StreamTokens
  <2>2. "init" \in Firsts("hls")
    BY DEF Firsts
  <2> QED
    BY <1>5, <2>1, <2>2, BeginStep DEF GetPlaylist
<1> QED
  BY <1>2, <1>3, <1>4, <1>5 DEF Request

-----------------------------------------------------------------------------
(* Stores and deletes by others *)

\* What holds of a request goes on to hold while keys come and go.
LEMMA OthersKeep ==
  ASSUME ListingInv, UNCHANGED <<requestVars, phase, cursor, todo, answer>>,
         AtSomeTime \subseteq AtSomeTime', Throughout' \subseteq Throughout,
         objects' \ put' \subseteq objects \ put
  PROVE  MediaInv' /\ DeleteInv' /\ StreamsInv' /\ PlaylistInv' /\ MasterComplete'
<1>1. kind' = kind /\ arg' = arg /\ phase' = phase /\ cursor' = cursor /\ todo' = todo /\ answer' = answer
  BY DEF requestVars
<1>2. MediaInv /\ DeleteInv /\ StreamsInv /\ PlaylistInv /\ MasterComplete
  BY DEF ListingInv
<1>3. MediaInv'
  <2> SUFFICES ASSUME kind = "media" PROVE MediaInv'
    BY <1>1 DEF MediaInv
  <2>1. \A k : UnderPrefix(k)' <=> UnderPrefix(k)
    BY <1>1 DEF UnderPrefix
  <2> DEFINE X == {k \in AtSomeTime : UnderPrefix(k)}
             Y == {k \in AtSomeTime' : UnderPrefix(k)'}
  <2>2. X \subseteq Y
    BY <2>1
  <2>3. answer \in Seq(X)
    BY <1>2 DEF MediaInv
  <2> HIDE DEF X, Y
  <2>4. answer \in Seq(Y)
    BY <2>2, <2>3, SeqMonotonic
  <2>5. answer' \in Seq({k \in AtSomeTime' : UnderPrefix(k)'})
    BY <2>4, <1>1 DEF Y
  <2> QED
    BY <1>1, <1>2, <2>1, <2>5 DEF MediaInv, Ascends
<1>4. DeleteInv'
  <2>1. \A k : InFolder(k)' <=> InFolder(k)
    BY <1>1 DEF InFolder
  <2>2. {k \in Keys : InFolder(k)'} = {k \in Keys : InFolder(k)}
    BY <2>1
  <2> QED
    BY <1>1, <1>2, <2>1, <2>2 DEF DeleteInv, Ascends
<1>5. StreamsInv'
  <2> SUFFICES ASSUME kind = "streams" PROVE StreamsInv'
    BY <1>1 DEF StreamsInv
  <2>1. \A k : UnderStreams(k)' <=> UnderStreams(k)
    BY <1>1 DEF UnderStreams
  <2>2. \A id : (SteppedOver(id)' <=> SteppedOver(id)) /\ (ComesAgain(id)' <=> ComesAgain(id))
    BY <1>1 DEF SteppedOver, ComesAgain
  <2> DEFINE X == StreamIds(AtSomeTime)
             Y == StreamIds(AtSomeTime)'
  <2>3. X \subseteq Y
    BY <1>1 DEF StreamIds
  <2>4. answer \in Seq(X)
    BY <1>2 DEF StreamsInv
  <2> HIDE DEF X, Y
  <2>5. answer \in Seq(Y)
    BY <2>3, <2>4, SeqMonotonic
  <2>6. answer' \in Seq(StreamIds(AtSomeTime)')
    BY <2>5, <1>1 DEF Y
  <2> QED
    BY <1>1, <1>2, <2>1, <2>2, <2>6 DEF StreamsInv
<1>6. PlaylistInv'
  <2>1. ASSUME NEW r, Whole(r), kind \in {"hls", "dash"} PROVE Whole(r)'
    <3>1. \A v : SegmentKeys(Throughout, v)' \subseteq SegmentKeys(Throughout, v)
      BY <1>1 DEF SegmentKeys
    <3>2. \A v : SegmentKeys(AtSomeTime, v) \subseteq SegmentKeys(AtSomeTime, v)'
      BY <1>1 DEF SegmentKeys
    <3> QED
      BY <1>1, <2>1, <3>1, <3>2 DEF Whole
  <2> QED
    BY <1>1, <1>2, <2>1 DEF PlaylistInv
<1>7. MasterComplete'
  BY <1>1, <1>2 DEF MasterComplete
<1> QED
  BY <1>3, <1>4, <1>5, <1>6, <1>7

\* Stores and deletes, and steps in which nothing happens.
LEMMA OthersStep ==
  ASSUME ListingInv, (\E k \in Keys : StoreKey(k) \/ DeleteKey(k)) \/ UNCHANGED vars
  PROVE  ListingInv'
<1>0. TypeInv /\ FreshInv /\ HistoryInv
  BY DEF ListingInv
<1>1. ASSUME NEW k \in Keys, StoreKey(k) PROVE ListingInv'
  <2>1. /\ objects' = objects \cup {k} /\ put' = put \cup {k} /\ lost' = lost /\ changes' = changes + 1
        /\ UNCHANGED <<requestVars, phase, cursor, todo, answer>> /\ changes < MaxChanges /\ phase # "idle"
    BY <1>1 DEF StoreKey
  <2>2. start' = start /\ kind' = kind /\ arg' = arg /\ phase' = phase
    BY <2>1 DEF requestVars
  <2>3. AtSomeTime \subseteq AtSomeTime' /\ Throughout' \subseteq Throughout /\ objects' \ put' \subseteq objects \ put
    BY <2>1, <2>2 DEF AtSomeTime, Throughout
  <2>4. MediaInv' /\ DeleteInv' /\ StreamsInv' /\ PlaylistInv' /\ MasterComplete'
    BY <2>1, <2>3, OthersKeep
  <2>5. TypeInv'
    BY <1>0, <2>1, <2>2, ListingBounds DEF TypeInv, requestVars
  <2>6. FreshInv'
    BY <1>0, <2>1, <2>2, PhaseKind DEF FreshInv
  <2>7. HistoryInv'
    <3>1. \A l : InFolder(l)' <=> InFolder(l)
      BY <2>2 DEF InFolder
    <3>2. AtSomeTime' = AtSomeTime \cup {k}
      BY <2>1, <2>2 DEF AtSomeTime
    <3> QED
      BY <1>0, <2>1, <2>2, <3>1, <3>2 DEF HistoryInv
  <2> QED
    BY <2>4, <2>5, <2>6, <2>7 DEF ListingInv
<1>2. ASSUME NEW k \in Keys, DeleteKey(k) PROVE ListingInv'
  <2>1. /\ objects' = objects \ {k} /\ put' = put /\ lost' = lost \cup {k} /\ changes' = changes + 1
        /\ UNCHANGED <<requestVars, phase, cursor, todo, answer>> /\ changes < MaxChanges /\ phase # "idle"
    BY <1>2 DEF DeleteKey
  <2>2. start' = start /\ kind' = kind /\ arg' = arg /\ phase' = phase
    BY <2>1 DEF requestVars
  <2>3. AtSomeTime \subseteq AtSomeTime' /\ Throughout' \subseteq Throughout /\ objects' \ put' \subseteq objects \ put
    BY <2>1, <2>2 DEF AtSomeTime, Throughout
  <2>4. MediaInv' /\ DeleteInv' /\ StreamsInv' /\ PlaylistInv' /\ MasterComplete'
    BY <2>1, <2>3, OthersKeep
  <2>5. TypeInv'
    BY <1>0, <2>1, <2>2, ListingBounds DEF TypeInv, requestVars
  <2>6. FreshInv'
    BY <1>0, <2>1, <2>2, PhaseKind DEF FreshInv
  <2>7. HistoryInv'
    <3>1. \A l : InFolder(l)' <=> InFolder(l)
      BY <2>2 DEF InFolder
    <3>2. AtSomeTime' = AtSomeTime
      BY <2>1, <2>2 DEF AtSomeTime
    <3> QED
      BY <1>0, <2>1, <2>2, <3>1, <3>2 DEF HistoryInv
  <2> QED
    BY <2>4, <2>5, <2>6, <2>7 DEF ListingInv
<1>3. ASSUME UNCHANGED vars PROVE ListingInv'
  <2>1. /\ UNCHANGED <<requestVars, phase, cursor, todo, answer>>
        /\ objects' = objects /\ put' = put /\ lost' = lost /\ changes' = changes
    BY <1>3 DEF vars, storeVars
  <2>2. start' = start /\ kind' = kind /\ arg' = arg /\ phase' = phase
    BY <2>1 DEF requestVars
  <2>3. AtSomeTime' = AtSomeTime /\ Throughout' = Throughout
    BY <2>1, <2>2 DEF AtSomeTime, Throughout
  <2>4. MediaInv' /\ DeleteInv' /\ StreamsInv' /\ PlaylistInv' /\ MasterComplete'
    BY <2>1, <2>3, OthersKeep
  <2>5. TypeInv' /\ FreshInv'
    BY <1>0, <2>1, <2>2 DEF TypeInv, FreshInv
  <2>6. HistoryInv'
    <3>1. \A l : InFolder(l)' <=> InFolder(l)
      BY <2>2 DEF InFolder
    <3> QED
      BY <1>0, <2>1, <2>2, <2>3, <3>1 DEF HistoryInv
  <2> QED
    BY <2>4, <2>5, <2>6 DEF ListingInv
<1> QED
  BY <1>1, <1>2, <1>3

-----------------------------------------------------------------------------
(* list_media *)

\* What stayed is stored.
LEMMA StayedIsStored ==
  ASSUME TypeInv, HistoryInv, kind # "none"
  PROVE  /\ objects \subseteq AtSomeTime /\ AtSomeTime \subseteq Keys /\ Throughout \subseteq Keys
         /\ kind # "delete" => Throughout \subseteq objects
  BY DEF TypeInv, HistoryInv, AtSomeTime, Throughout

\* A page more keeps the order, and misses nothing that stayed.
LEMMA MediaStep ==
  ASSUME ListingInv, MediaPage
  PROVE  ListingInv' /\ (None \in {cursor, cursor'} \/ Less(cursor, cursor'))
<1> DEFINE l == List(arg.prefix, arg.limit, cursor)
           A == Ahead(arg.prefix, cursor)
           X == {k \in AtSomeTime : UnderPrefix(k)}
<1>1. /\ kind = "media" /\ phase = "page"
      /\ answer' = answer \o l.page /\ cursor' = l.next
      /\ phase' = IF l.next = None THEN "done" ELSE "page"
      /\ UNCHANGED <<storeVars, requestVars, todo>>
  BY DEF MediaPage
<1>2. /\ objects' = objects /\ changes' = changes /\ put' = put /\ lost' = lost
      /\ start' = start /\ kind' = kind /\ arg' = arg /\ todo' = todo
  BY <1>1 DEF storeVars, requestVars
<1>3. TypeInv /\ HistoryInv /\ MediaInv
  BY DEF ListingInv
<1>4. /\ objects \subseteq AtSomeTime /\ AtSomeTime \subseteq Keys /\ Throughout \subseteq Keys
      /\ Throughout \subseteq objects /\ objects \subseteq Keys
  BY <1>1, <1>3, StayedIsStored DEF TypeInv
<1>5. arg.prefix \in Seq(Nat) /\ arg.limit \in Nat
  BY <1>3 DEF TypeInv, Requests
<1>6. X \subseteq Seq(Nat)
  BY <1>4, IndexIs
<1>7. answer \in Seq(X) /\ answer \in Seq(Seq(Nat)) /\ Ascends(answer) /\ Len(answer) \in Nat
  <2>1. answer \in Seq(X) /\ Ascends(answer)
    BY <1>1, <1>3 DEF MediaInv
  <2> HIDE DEF X
  <2> QED
    BY <2>1, <1>6, SeqMonotonic
<1>8. cursor = None \/ (answer # <<>> /\ cursor = answer[Len(answer)])
  BY <1>1, <1>3 DEF MediaInv, Last
<1>9. cursor \in Seq(Nat)
  <2>1. CASE cursor = None
    BY <2>1, EmptySeq DEF None
  <2>2. CASE answer # <<>>
    <3>1. Len(answer) \in 1..Len(answer)
      BY <1>7, <2>2
    <3> QED
      BY <1>7, <1>8, <2>1, <3>1
  <2> QED
    BY <1>8, <2>1, <2>2
<1>10. GoodPage(l, A, arg.limit)
  BY <1>4, <1>5, <1>9, ListIs
<1>11. A \subseteq X /\ \A k \in A : cursor = None \/ Less(cursor, k)
  BY <1>4 DEF Ahead, UnderPrefix
<1>12. \A k \in Throughout : UnderPrefix(k) =>
          k \in Range(answer) \/ k \in A
  BY <1>1, <1>3, <1>4 DEF MediaInv, Ahead, UnderPrefix
<1>13. phase = "page" /\ cursor = None => answer = <<>>
  BY <1>1, <1>3 DEF MediaInv
<1> HIDE DEF l, A, X
<1>14. l.page \in Seq(X) /\ l.page \in Seq(Seq(Nat)) /\ Len(l.page) \in Nat
       /\ \A i \in 1..Len(l.page) : l.page[i] \in A
  <2>1. l.page \in Seq(A) /\ A \subseteq Seq(Nat)
    BY <1>6, <1>10, <1>11 DEF GoodPage
  <2> QED
    BY <2>1, <1>11, SeqMonotonic
<1>15. ASSUME NEW i \in 1..Len(answer), NEW j \in 1..Len(l.page) PROVE Less(answer[i], l.page[j])
  <2>1. answer # <<>> /\ cursor # None /\ cursor = answer[Len(answer)] /\ Len(answer) \in 1..Len(answer)
    BY <1>1, <1>7, <1>8, <1>13
  <2>2. Less(cursor, l.page[j])
    BY <1>11, <1>14, <2>1
  <2>3. i = Len(answer) \/ Less(answer[i], cursor)
    BY <1>7, <2>1 DEF Ascends
  <2>4. answer[i] \in Seq(Nat) /\ l.page[j] \in Seq(Nat)
    BY <1>7, <1>14
  <2> QED
    BY <1>9, <2>1, <2>2, <2>3, <2>4, LessOrders
<1>16. Ascends(answer') /\ answer' \in Seq(X) /\ Range(answer') = Range(answer) \cup Range(l.page)
  <2> DEFINE t == l.page
  <2>1. Ascends(t) /\ t \in Seq(X) /\ t \in Seq(Seq(Nat))
    BY <1>10, <1>14 DEF GoodPage
  <2> HIDE DEF t
  <2>2. answer' = answer \o t /\ \A i \in 1..Len(answer), j \in 1..Len(t) : Less(answer[i], t[j])
    BY <1>1, <1>15 DEF t
  <2>3. Ascends(answer \o t)
    BY <1>7, <2>1, <2>2, AscendsJoin
  <2>4. answer \o t \in Seq(X) /\ Range(answer \o t) = Range(answer) \cup Range(t)
    BY <1>7, <2>1, JoinIs, JoinMembers
  <2> QED
    BY <2>2, <2>3, <2>4 DEF t
<1>17. \A k : k \in Range(l.page) <=> \E i \in 1..Len(l.page) : l.page[i] = k
  BY <1>14, RangeIs
<1>18. l.next # None => answer' # <<>> /\ l.next = answer'[Len(answer')]
  <2> SUFFICES ASSUME l.next # None PROVE answer' # <<>> /\ l.next = answer'[Len(answer')]
    OBVIOUS
  <2>1. Len(l.page) \in 1..Len(l.page) /\ l.next = l.page[Len(l.page)]
    BY <1>10, <1>14 DEF GoodPage
  <2>2. Len(answer') = Len(answer) + Len(l.page) /\ answer'[Len(answer) + Len(l.page)] = l.page[Len(l.page)]
    BY <1>1, <1>7, <1>14, <2>1, JoinIs
  <2>3. answer' # <<>>
    BY <1>7, <2>1, <2>2
  <2> QED
    BY <2>1, <2>2, <2>3
<1>19. AtSomeTime' = AtSomeTime /\ Throughout' = Throughout /\ \A k : UnderPrefix(k)' <=> UnderPrefix(k)
  BY <1>2 DEF AtSomeTime, Throughout, UnderPrefix
<1>20. MediaInv'
  <2>1. {k \in AtSomeTime' : UnderPrefix(k)'} = X
    BY <1>19 DEF X
  <2>2. \A k \in Throughout' : UnderPrefix(k)' =>
          k \in Range(answer') \/ (phase' = "page" /\ (cursor' = None \/ Less(cursor', k)))
    BY <1>1, <1>10, <1>12, <1>16, <1>17, <1>19 DEF GoodPage
  <2>3. phase' = "page" /\ cursor' = None => answer' = <<>>
    BY <1>1
  <2>4. cursor' = None \/ (answer' # <<>> /\ cursor' = answer'[Len(answer')])
    BY <1>1, <1>18
  <2> QED
    BY <1>16, <2>1, <2>2, <2>3, <2>4 DEF MediaInv, Ascends, Last
<1>21. TypeInv'
  BY <1>1, <1>2, <1>3 DEF TypeInv, Phases
<1>22. HistoryInv'
  BY <1>1, <1>2, <1>3, <1>19 DEF HistoryInv
<1>23. FreshInv' /\ DeleteInv' /\ StreamsInv' /\ PlaylistInv' /\ MasterComplete'
  BY <1>1, <1>2 DEF FreshInv, DeleteInv, StreamsInv, PlaylistInv, MasterComplete
<1>24. None \in {cursor, cursor'} \/ Less(cursor, cursor')
  <2> SUFFICES ASSUME cursor # None, l.next # None PROVE Less(cursor, l.next)
    BY <1>1
  <2>1. Len(l.page) \in 1..Len(l.page) /\ l.next = l.page[Len(l.page)]
    BY <1>10, <1>14 DEF GoodPage
  <2> QED
    BY <1>11, <1>14, <2>1
<1> QED
  BY <1>20, <1>21, <1>22, <1>23, <1>24 DEF ListingInv

-----------------------------------------------------------------------------
(* delete_stream *)

\* The first of t goes behind s: together they stay what they are.
LEMMA ShiftIs ==
  ASSUME NEW S, NEW s \in Seq(S), NEW t \in Seq(S), t # <<>>
  PROVE  /\ Append(s, Head(t)) \in Seq(S) /\ Tail(t) \in Seq(S) /\ Head(t) \in S
         /\ Append(s, Head(t)) \o Tail(t) = s \o t
         /\ \A x \in Range(t) : x = Head(t) \/ x \in Range(Tail(t))
<1>1. Len(s) \in Nat /\ Len(t) \in Nat /\ Len(t) >= 1 /\ Head(t) = t[1] /\ Head(t) \in S
  OBVIOUS
<1>2. Tail(t) \in Seq(S) /\ Len(Tail(t)) = Len(t) - 1 /\ \A i \in 1..(Len(t) - 1) : Tail(t)[i] = t[i + 1]
  BY HeadTailProperties
<1>3. /\ Append(s, Head(t)) \in Seq(S) /\ Len(Append(s, Head(t))) = Len(s) + 1
      /\ Append(s, Head(t))[Len(s) + 1] = t[1] /\ \A i \in 1..Len(s) : Append(s, Head(t))[i] = s[i]
  BY <1>1
<1> DEFINE a == Append(s, Head(t))
           u == Tail(t)
<1>4. /\ a \o u \in Seq(S) /\ Len(a \o u) = Len(a) + Len(u)
      /\ \A i \in 1..(Len(a) + Len(u)) : (a \o u)[i] = IF i <= Len(a) THEN a[i] ELSE u[i - Len(a)]
  BY <1>2, <1>3, ConcatProperties
<1>5. /\ s \o t \in Seq(S) /\ Len(s \o t) = Len(s) + Len(t)
      /\ \A i \in 1..(Len(s) + Len(t)) : (s \o t)[i] = IF i <= Len(s) THEN s[i] ELSE t[i - Len(s)]
  BY ConcatProperties
<1>6. Len(a) = Len(s) + 1 /\ Len(u) = Len(t) - 1 /\ a[Len(s) + 1] = t[1] /\ \A i \in 1..Len(s) : a[i] = s[i]
  BY <1>2, <1>3
<1>7. \A i \in 1..(Len(t) - 1) : u[i] = t[i + 1]
  BY <1>2
<1> HIDE DEF a, u
<1>8. Len(a \o u) = Len(s \o t) /\ Len(s \o t) = Len(s) + Len(t) /\ Len(a) + Len(u) = Len(s) + Len(t)
  BY <1>1, <1>4, <1>5, <1>6
<1>9. ASSUME NEW i \in 1..(Len(s) + Len(t)) PROVE (a \o u)[i] = (s \o t)[i]
  <2>1. CASE i <= Len(s)
    BY <1>1, <1>4, <1>5, <1>6, <2>1
  <2>2. CASE i = Len(s) + 1
    <3>1. i <= Len(a) /\ ~(i <= Len(s)) /\ i - Len(s) = 1
      BY <1>1, <1>6, <2>2
    <3>2. (a \o u)[i] = a[i] /\ (s \o t)[i] = t[i - Len(s)]
      BY <1>4, <1>5, <1>8, <3>1
    <3> QED
      BY <1>6, <2>2, <3>1, <3>2
  <2>3. CASE i > Len(s) + 1
    <3>1. /\ ~(i <= Len(a)) /\ ~(i <= Len(s)) /\ i - Len(a) \in 1..(Len(t) - 1)
          /\ (i - Len(a)) + 1 = i - Len(s)
      BY <1>1, <1>6, <2>3
    <3>2. (a \o u)[i] = u[i - Len(a)] /\ (s \o t)[i] = t[i - Len(s)]
      BY <1>4, <1>5, <1>8, <3>1
    <3> QED
      BY <1>7, <3>1, <3>2
  <2>4. i \in Nat
    BY <1>1
  <2>5. i <= Len(s) \/ i = Len(s) + 1 \/ i > Len(s) + 1
    BY <1>1, <2>4
  <2> QED
    BY <2>1, <2>2, <2>3, <2>5
<1>10. a \o u = s \o t
  BY <1>4, <1>5, <1>8, <1>9, SeqEqual
<1>11. ASSUME NEW x \in Range(t) PROVE x = Head(t) \/ x \in Range(u)
  <2>1. PICK i \in 1..Len(t) : t[i] = x
    BY RangeIs
  <2>2. CASE i = 1
    BY <1>1, <2>1, <2>2
  <2>3. CASE i # 1
    <3>1. i - 1 \in 1..(Len(t) - 1) /\ (i - 1) + 1 = i
      BY <1>1, <2>3
    <3>2. u[i - 1] = x /\ i - 1 \in 1..Len(u)
      BY <1>6, <1>7, <2>1, <3>1
    <3>3. u \in Seq(S)
      BY <1>2 DEF u
    <3> QED
      BY <3>2, <3>3, RangeIs
  <2> QED
    BY <2>2, <2>3
<1> QED
  BY <1>1, <1>2, <1>3, <1>10, <1>11 DEF a, u

\* The folder of a stream.
LEMMA FolderIs == ASSUME NEW id \in Seq(Nat) PROVE Folder(id) \in Seq(Nat)
<1>1. <<StreamPrefix>> \in Seq(Nat) /\ <<Slash>> \in Seq(Nat)
  BY StreamTokens
<1> QED
  BY <1>1 DEF Folder

\* What DeleteInv says, where the request is one of these.
LEMMA DeleteFacts ==
  ASSUME ListingInv, kind = "delete"
  PROVE  LET F == {k \in Keys : InFolder(k)}
             met == answer \o todo
         IN  /\ objects \subseteq Keys /\ F \subseteq Seq(Nat) /\ Folder(arg.id) \in Seq(Nat)
             /\ answer \in Seq(F) /\ todo \in Seq(F) /\ answer \in Seq(Seq(Nat)) /\ todo \in Seq(Seq(Nat))
             /\ met \in Seq(Seq(Nat)) /\ Ascends(met)
             /\ cursor = None \/ (met # <<>> /\ cursor = met[Len(met)])
             /\ cursor \in Seq(Nat)
<1> DEFINE F == {k \in Keys : InFolder(k)}
           met == answer \o todo
<1>1. TypeInv /\ DeleteInv
  BY DEF ListingInv
<1>2. objects \subseteq Keys /\ F \subseteq Seq(Nat) /\ Folder(arg.id) \in Seq(Nat)
  BY <1>1, IndexIs, FolderIs DEF TypeInv, Requests
<1>3. /\ answer \in Seq(F) /\ todo \in Seq(F) /\ Ascends(met)
      /\ cursor = None \/ (met # <<>> /\ cursor = met[Len(met)])
  BY <1>1 DEF DeleteInv, Last
<1>4. answer \in Seq(Seq(Nat)) /\ todo \in Seq(Seq(Nat))
  <2> HIDE DEF F
  <2> QED
    BY <1>2, <1>3, SeqMonotonic
<1>5. met \in Seq(Seq(Nat))
  BY <1>4, JoinIs
<1>6. cursor \in Seq(Nat)
  <2>1. CASE cursor = None
    BY <2>1, EmptySeq DEF None
  <2>2. CASE met # <<>> /\ cursor = met[Len(met)]
    <3> HIDE DEF met
    <3>1. Len(met) \in 1..Len(met)
      BY <1>5, <2>2
    <3> QED
      BY <1>5, <2>2, <3>1
  <2> QED
    BY <1>3, <2>1, <2>2
<1> QED
  BY <1>2, <1>3, <1>4, <1>5, <1>6

\* The next page to delete is behind the one before it.
LEMMA DeleteListStep ==
  ASSUME ListingInv, DeleteList
  PROVE  ListingInv' /\ (None \in {cursor, cursor'} \/ Less(cursor, cursor'))
<1> DEFINE l == List(Folder(arg.id), DeletePage, cursor)
           A == Ahead(Folder(arg.id), cursor)
           F == {k \in Keys : InFolder(k)}
<1>1. /\ kind = "delete" /\ phase = "list"
      /\ todo' = l.page /\ cursor' = l.next
      /\ phase' = IF l.page = <<>> THEN "done" ELSE "delete"
      /\ UNCHANGED <<storeVars, requestVars, answer>>
  BY DEF DeleteList
<1>2. /\ objects' = objects /\ changes' = changes /\ put' = put /\ lost' = lost
      /\ start' = start /\ kind' = kind /\ arg' = arg /\ answer' = answer
  BY <1>1 DEF storeVars, requestVars
<1>3. TypeInv /\ HistoryInv /\ DeleteInv
  BY DEF ListingInv
<1>4. todo = <<>>
  BY <1>1, <1>3 DEF TypeInv
<1>5. /\ objects \subseteq Keys /\ F \subseteq Seq(Nat) /\ Folder(arg.id) \in Seq(Nat)
      /\ answer \in Seq(F) /\ answer \in Seq(Seq(Nat)) /\ Ascends(answer) /\ Len(answer) \in Nat
      /\ cursor = None \/ (answer # <<>> /\ cursor = answer[Len(answer)])
      /\ cursor \in Seq(Nat)
  <2>1. answer \in Seq(F)
    BY <1>1, DeleteFacts
  <2> HIDE DEF F
  <2>2. answer \o todo = answer /\ Len(answer) \in Nat
    BY <1>4, <2>1, ConcatEmptySeq, LenProperties
  <2> USE DEF F
  <2> QED
    BY <1>1, <2>1, <2>2, DeleteFacts
<1>6. GoodPage(l, A, DeletePage)
  BY <1>5, ListIs, StreamTokens
<1>7. A \subseteq F /\ (\A k \in A : cursor = None \/ Less(cursor, k))
  BY <1>5 DEF Ahead, InFolder
<1>8. cursor = None => answer = <<>>
  BY <1>1, <1>3 DEF DeleteInv
<1>9. \A k \in objects \ put : InFolder(k) => k \in A
  <2> SUFFICES ASSUME NEW k \in objects \ put, InFolder(k) PROVE k \in A
    OBVIOUS
  <2>1. k \in Range(todo) \/ cursor = None \/ Less(cursor, k)
    BY <1>1, <1>3 DEF DeleteInv
  <2>2. k \notin Range(todo)
    BY <1>4 DEF Range
  <2> QED
    BY <2>1, <2>2 DEF Ahead, InFolder
<1> HIDE DEF l, A, F
<1>10. l.page \in Seq(F) /\ l.page \in Seq(Seq(Nat)) /\ Len(l.page) \in Nat
       /\ Ascends(l.page) /\ \A i \in 1..Len(l.page) : l.page[i] \in A
  <2>1. l.page \in Seq(A) /\ A \subseteq F /\ F \subseteq Seq(Nat)
    BY <1>5, <1>6, <1>7 DEF GoodPage
  <2> QED
    BY <1>6, <2>1, SeqMonotonic DEF GoodPage
<1>11. ASSUME NEW i \in 1..Len(answer), NEW j \in 1..Len(l.page) PROVE Less(answer[i], l.page[j])
  <2>1. answer # <<>> /\ cursor # None /\ cursor = answer[Len(answer)] /\ Len(answer) \in 1..Len(answer)
    BY <1>5, <1>8
  <2>2. Less(cursor, l.page[j])
    BY <1>7, <1>10, <2>1
  <2>3. i = Len(answer) \/ Less(answer[i], cursor)
    BY <1>5, <2>1 DEF Ascends
  <2>4. answer[i] \in Seq(Nat) /\ l.page[j] \in Seq(Nat)
    BY <1>5, <1>10, SMTT(40)
  <2> QED
    BY <1>5, <2>1, <2>2, <2>3, <2>4, LessOrders
<1>12. Ascends(answer \o l.page) /\ answer \o l.page \in Seq(Seq(Nat))
  <2> DEFINE t == l.page
  <2>1. Ascends(t) /\ t \in Seq(Seq(Nat)) /\ \A i \in 1..Len(answer), j \in 1..Len(t) : Less(answer[i], t[j])
    BY <1>10, <1>11
  <2> HIDE DEF t
  <2>2. Ascends(answer \o t) /\ answer \o t \in Seq(Seq(Nat))
    BY <1>5, <2>1, AscendsJoin, JoinIs
  <2> QED
    BY <2>2 DEF t
<1>13. l.next # None => answer \o l.page # <<>> /\ l.next = (answer \o l.page)[Len(answer \o l.page)]
  <2> SUFFICES ASSUME l.next # None
               PROVE  answer \o l.page # <<>> /\ l.next = (answer \o l.page)[Len(answer \o l.page)]
    OBVIOUS
  <2> DEFINE t == l.page
  <2>1. Len(t) \in 1..Len(t) /\ l.next = t[Len(t)] /\ t \in Seq(Seq(Nat))
    BY <1>6, <1>10 DEF GoodPage
  <2> HIDE DEF t
  <2>2. Len(answer \o t) = Len(answer) + Len(t) /\ (answer \o t)[Len(answer) + Len(t)] = t[Len(t)]
    BY <1>5, <2>1, JoinIs
  <2>3. answer \o t # <<>>
    BY <1>5, <2>1, <2>2
  <2> QED
    BY <2>1, <2>2, <2>3 DEF t
<1>14. ASSUME NEW k \in A PROVE k \in Range(l.page) \/ (l.next # None /\ Less(l.next, k))
  <2>1. k \in Range(l.page) <=> \E i \in 1..Len(l.page) : l.page[i] = k
    BY <1>10, RangeIs
  <2> QED
    BY <1>6, <2>1 DEF GoodPage
<1>15. \A k : InFolder(k)' <=> InFolder(k)
  BY <1>2 DEF InFolder
<1>16. l.page = <<>> => l.next = None /\ A = {}
  BY <1>6 DEF GoodPage
<1>17. DeleteInv'
  <2>1. {k \in Keys : InFolder(k)'} = F
    BY <1>15 DEF F
  <2>2. ASSUME NEW k \in objects \ put, InFolder(k)
        PROVE  k \in Range(todo') \/ (phase' # "done" /\ cursor' # None /\ Less(cursor', k))
    BY <1>1, <1>9, <1>14, <1>16, <2>2
  <2>3. phase' # "list"
    BY <1>1
  <2>4. cursor' = None \/ (answer' \o todo' # <<>> /\ cursor' = (answer' \o todo')[Len(answer' \o todo')])
    BY <1>1, <1>2, <1>13
  <2>5. Ascends(answer \o todo')
    BY <1>1, <1>12
  <2>6. todo' \in Seq(F) /\ (phase' = "done" => todo' = <<>>)
    BY <1>1, <1>10
  <2> QED
    BY <1>2, <1>5, <1>15, <2>1, <2>2, <2>3, <2>4, <2>5, <2>6 DEF DeleteInv, Ascends, Last
<1>18. TypeInv'
  BY <1>1, <1>2, <1>3 DEF TypeInv, Phases
<1>19. HistoryInv'
  <2>1. AtSomeTime' = AtSomeTime
    BY <1>2 DEF AtSomeTime
  <2> QED
    BY <1>1, <1>2, <1>3, <1>15, <2>1 DEF HistoryInv
<1>20. FreshInv' /\ MediaInv' /\ StreamsInv' /\ PlaylistInv' /\ MasterComplete'
  BY <1>1, <1>2 DEF FreshInv, MediaInv, StreamsInv, PlaylistInv, MasterComplete
<1>21. None \in {cursor, cursor'} \/ Less(cursor, cursor')
  <2> SUFFICES ASSUME cursor # None, l.next # None PROVE Less(cursor, l.next)
    BY <1>1
  <2>1. Len(l.page) \in 1..Len(l.page) /\ l.next = l.page[Len(l.page)]
    BY <1>6, <1>10 DEF GoodPage
  <2> QED
    BY <1>7, <1>10, <2>1
<1> QED
  BY <1>17, <1>18, <1>19, <1>20, <1>21 DEF ListingInv

\* A key is deleted and counted.
LEMMA DeleteNextStep == ASSUME ListingInv, DeleteNext PROVE ListingInv'
<1> DEFINE F == {k \in Keys : InFolder(k)}
<1>1. /\ kind = "delete" /\ phase = "delete"
      /\ objects' = objects \ {Head(todo)} /\ answer' = Append(answer, Head(todo)) /\ todo' = Tail(todo)
      /\ phase' = IF todo' # <<>> THEN "delete" ELSE IF cursor = None THEN "done" ELSE "list"
      /\ changes' = changes /\ put' = put /\ lost' = lost
      /\ start' = start /\ kind' = kind /\ arg' = arg /\ cursor' = cursor
  BY DEF DeleteNext, requestVars
<1>2. TypeInv /\ HistoryInv /\ DeleteInv
  BY DEF ListingInv
<1>3. todo # <<>>
  BY <1>1, <1>2 DEF TypeInv
<1>4. /\ answer \in Seq(F) /\ todo \in Seq(F) /\ Ascends(answer \o todo)
      /\ cursor = None \/ (answer \o todo # <<>> /\ cursor = (answer \o todo)[Len(answer \o todo)])
  BY <1>1, DeleteFacts
<1>5. \A k : InFolder(k)' <=> InFolder(k)
  BY <1>1 DEF InFolder
<1>6. Head(todo) \in F
  BY <1>3, <1>4
<1>7. {k \in Keys : InFolder(k)'} = F
  BY <1>5
<1>8. \A k \in F : k \in Keys /\ InFolder(k)
  OBVIOUS
<1> HIDE DEF F
<1>9. /\ answer' \in Seq(F) /\ todo' \in Seq(F) /\ answer' \o todo' = answer \o todo
      /\ \A x \in Range(todo) : x = Head(todo) \/ x \in Range(todo')
  BY <1>1, <1>3, <1>4, ShiftIs, SMTT(40)
<1>10. ASSUME NEW k \in objects' \ put', InFolder(k)
       PROVE  k \in Range(todo') \/ (phase' # "done" /\ cursor' # None /\ Less(cursor', k))
  <2>1. k \in objects \ put /\ k # Head(todo)
    BY <1>1
  <2>2. k \in Range(todo) \/ (cursor # None /\ Less(cursor, k))
    BY <1>1, <1>2, <1>10, <2>1 DEF DeleteInv
  <2> QED
    BY <1>1, <1>9, <2>1, <2>2
<1>11. (phase' = "list" => cursor' # None) /\ (phase' = "done" => todo' = <<>>)
  BY <1>1
<1>12. DeleteInv'
  BY <1>1, <1>4, <1>5, <1>7, <1>9, <1>10, <1>11 DEF DeleteInv, Ascends, Last
<1>13. TypeInv'
  <2>1. objects' \subseteq Keys
    BY <1>1, <1>2 DEF TypeInv
  <2> QED
    BY <1>1, <1>2, <2>1 DEF TypeInv, Phases
<1>14. HistoryInv'
  <2>1. AtSomeTime' = AtSomeTime
    BY <1>1 DEF AtSomeTime
  <2> QED
    BY <1>1, <1>2, <1>5, <1>6, <1>8, <2>1 DEF HistoryInv
<1>15. FreshInv' /\ MediaInv' /\ StreamsInv' /\ PlaylistInv' /\ MasterComplete'
  BY <1>1 DEF FreshInv, MediaInv, StreamsInv, PlaylistInv, MasterComplete
<1> QED
  BY <1>12, <1>13, <1>14, <1>15 DEF ListingInv

-----------------------------------------------------------------------------
(* Streams and their keys *)

\* A key of stream id: the prefix, the id, a slash and more.
KeyOf(id, k) ==
  /\ id \in Seq(Nat) /\ k \in Seq(Nat) /\ Len(id) + 2 <= Len(k) /\ k[1] = StreamPrefix
  /\ \A i \in 1..Len(id) : k[i + 1] = id[i] /\ id[i] # Slash
  /\ k[Len(id) + 2] = Slash

\* StreamOf finds the id.
LEMMA StreamOfIs == ASSUME NEW k \in Seq(Nat), IsOfStream(k) PROVE KeyOf(StreamOf(k), k)
<1> DEFINE rest == Tail(k)
           I == {i \in 1..Len(rest) : rest[i] = Slash}
           at == SelectInSeq(rest, LAMBDA t : t = Slash)
           id == SubSeq(rest, 1, at - 1)
<1>1. Len(k) > 1 /\ Head(k) = StreamPrefix /\ Slash \in Range(rest)
  BY DEF IsOfStream
<1>2. k # <<>> /\ Len(k) \in Nat /\ k[1] = StreamPrefix
  BY <1>1
<1>3. rest \in Seq(Nat) /\ Len(rest) = Len(k) - 1 /\ \A i \in 1..Len(rest) : rest[i] = k[i + 1]
  BY <1>2, HeadTailProperties
<1>4. StreamOf(k) = id
  BY DEF StreamOf
<1>5. at = IF I # {} THEN Min(I) ELSE 0
  BY DEF SelectInSeq
<1> HIDE DEF rest, at
<1>6. I # {}
  <2>1. \E i \in 1..Len(rest) : rest[i] = Slash
    BY <1>1, <1>3, RangeIs
  <2> QED
    BY <2>1
<1>7. at \in 1..Len(rest) /\ rest[at] = Slash /\ \A i \in 1..Len(rest) : rest[i] = Slash => at <= i
  <2>1. \E n \in I : \A m \in I : n <= m
    <3>1. I \in SUBSET Nat
      OBVIOUS
    <3> HIDE DEF I
    <3> QED
      BY <1>6, <3>1, LeastNumber
  <2>2. at = CHOOSE x \in I : \A y \in I : x <= y
    BY <1>5, <1>6 DEF Min
  <2>3. at \in I /\ \A y \in I : at <= y
    <3> HIDE DEF I
    <3> QED
      BY <2>1, <2>2
  <2> QED
    BY <2>3
<1>8. id \in Seq(Nat) /\ Len(id) = at - 1 /\ \A i \in 1..(at - 1) : id[i] = rest[i]
  <2>1. at - 1 \in Nat /\ at - 1 <= Len(rest)
    BY <1>3, <1>7, SMTT(40)
  <2> QED
    BY <1>3, <2>1, FirstPartIs
<1> HIDE DEF id, I
<1>9. at \in Nat /\ Len(rest) \in Nat /\ Len(id) + 2 = at + 1 /\ at + 1 <= Len(k) /\ k[at + 1] = Slash
  BY <1>2, <1>3, <1>7, <1>8, SMTT(40)
<1>10. ASSUME NEW i \in 1..Len(id) PROVE k[i + 1] = id[i] /\ id[i] # Slash
  <2>1. i \in 1..Len(rest) /\ i \in 1..(at - 1) /\ ~(at <= i)
    BY <1>8, <1>9, <1>7
  <2> QED
    BY <1>3, <1>7, <1>8, <2>1
<1> QED
  BY <1>2, <1>4, <1>8, <1>9, <1>10 DEF KeyOf

\* A cursor of list_streams, token by token.
LEMMA BehindIs ==
  ASSUME NEW last \in Seq(Nat)
  PROVE  LET b == Behind(last)
         IN  /\ b \in Seq(Nat) /\ Len(b) = Len(last) + 2 /\ b[1] = StreamPrefix
             /\ \A i \in 1..Len(last) : b[i + 1] = last[i]
             /\ b[Len(last) + 2] = Zero
<1> DEFINE p == <<StreamPrefix>>
           z == <<Zero>>
           c == p \o last
           b == c \o z
<1>1. p \in Seq(Nat) /\ z \in Seq(Nat) /\ Len(p) = 1 /\ Len(z) = 1 /\ p[1] = StreamPrefix /\ z[1] = Zero
  BY StreamTokens
<1>2. Len(last) \in Nat /\ Behind(last) = b
  BY DEF Behind
<1> HIDE DEF p, z
<1>3. c \in Seq(Nat) /\ Len(c) = 1 + Len(last) /\ c[1] = StreamPrefix /\ \A i \in 1..Len(last) : c[1 + i] = last[i]
  <2>1. /\ p \o last \in Seq(Nat) /\ Len(p \o last) = Len(p) + Len(last)
        /\ \A i \in 1..(Len(p) + Len(last)) : (p \o last)[i] = IF i <= Len(p) THEN p[i] ELSE last[i - Len(p)]
    BY <1>1, ConcatProperties
  <2>2. 1 \in 1..(Len(p) + Len(last)) /\ 1 <= Len(p)
        /\ \A i \in 1..Len(last) : 1 + i \in 1..(Len(p) + Len(last)) /\ ~(1 + i <= Len(p)) /\ (1 + i) - Len(p) = i
    BY <1>1, <1>2
  <2> QED
    BY <1>1, <2>1, <2>2
<1> HIDE DEF c
<1>4. /\ b \in Seq(Nat) /\ Len(b) = Len(c) + Len(z)
      /\ \A i \in 1..Len(c) : b[i] = c[i]
      /\ \A j \in 1..Len(z) : b[Len(c) + j] = z[j]
  <2>1. /\ c \o z \in Seq(Nat) /\ Len(c \o z) = Len(c) + Len(z)
        /\ \A i \in 1..(Len(c) + Len(z)) : (c \o z)[i] = IF i <= Len(c) THEN c[i] ELSE z[i - Len(c)]
    BY <1>1, <1>3, ConcatProperties
  <2>2. Len(c) \in Nat /\ Len(z) \in Nat
    BY <1>1, <1>3
  <2>3. \A j \in 1..Len(z) : Len(c) + j \in 1..(Len(c) + Len(z)) /\ ~(Len(c) + j <= Len(c)) /\ (Len(c) + j) - Len(c) = j
    BY <2>2
  <2>4. \A i \in 1..Len(c) : i \in 1..(Len(c) + Len(z)) /\ i <= Len(c)
    BY <2>2
  <2> QED
    BY <2>1, <2>3, <2>4
<1> HIDE DEF b
<1>5. Len(b) = Len(last) + 2 /\ 1 \in 1..Len(c) /\ 1 \in 1..Len(z) /\ Len(c) + 1 = Len(last) + 2
  BY <1>1, <1>2, <1>3, <1>4
<1>6. \A i \in 1..Len(last) : i + 1 \in 1..Len(c) /\ 1 + i = i + 1
  BY <1>2, <1>3
<1> QED
  BY <1>1, <1>2, <1>3, <1>4, <1>5, <1>6

\* The keys of a stream are before the cursor behind it.
LEMMA KeyBeforeBehind == ASSUME NEW id, NEW k, KeyOf(id, k) PROVE Less(k, Behind(id))
<1> DEFINE b == Behind(id)
           n == Len(id) + 1
<1>1. id \in Seq(Nat) /\ k \in Seq(Nat) /\ Len(id) \in Nat /\ Len(k) \in Nat
  BY DEF KeyOf
<1>2. b \in Seq(Nat) /\ Len(b) = Len(id) + 2 /\ b[1] = k[1] /\ b[n + 1] = Zero /\ k[n + 1] = Slash
      /\ \A i \in 1..Len(id) : b[i + 1] = k[i + 1]
  BY <1>1, BehindIs DEF KeyOf
<1> HIDE DEF b
<1>3. n \in 0..Len(k) /\ n < Len(b)
  BY <1>1, <1>2 DEF KeyOf
<1>4. ASSUME NEW i \in 1..n PROVE k[i] = b[i]
  <2>1. i = 1 \/ (i - 1 \in 1..Len(id) /\ (i - 1) + 1 = i)
    BY <1>1
  <2>2. i - 1 \in 1..Len(id) => b[(i - 1) + 1] = k[(i - 1) + 1]
    BY <1>2
  <2> QED
    BY <1>2, <2>1, <2>2
<1>5. k[n + 1] < b[n + 1]
  BY <1>2, StreamTokens
<1>6. Precedes(k, b)
  BY <1>3, <1>4, <1>5 DEF Precedes
<1> QED
  BY <1>1, <1>2, <1>6, LessIs DEF b

\* A key behind the cursor is of a later stream, or of one that the last one
\* continues with a character before the slash.
LEMMA BehindThenLater ==
  ASSUME NEW last \in Seq(Nat), \A i \in 1..Len(last) : last[i] # Slash,
         NEW id, NEW k, KeyOf(id, k), Less(Behind(last), k)
  PROVE  Less(last, id) \/ (IsStrictPrefix(id, last) /\ last[Len(id) + 1] < Slash)
<1> DEFINE b == Behind(last)
           L == Len(last)
           D == Len(id)
<1>1. id \in Seq(Nat) /\ k \in Seq(Nat) /\ D \in Nat /\ L \in Nat /\ Len(k) \in Nat /\ D + 2 <= Len(k)
  BY DEF KeyOf
<1>2. /\ b \in Seq(Nat) /\ Len(b) = L + 2 /\ b[1] = StreamPrefix /\ b[L + 2] = Zero
      /\ \A i \in 1..L : b[i + 1] = last[i]
  BY BehindIs
<1>3. k[1] = StreamPrefix /\ k[D + 2] = Slash /\ \A i \in 1..D : k[i + 1] = id[i]
  BY DEF KeyOf
<1>4. Precedes(b, k)
  BY <1>1, <1>2, LessIs
<1> HIDE DEF b
<1>5. PICK n \in 0..Len(b) : /\ n < Len(k) /\ \A i \in 1..n : b[i] = k[i]
                             /\ n = Len(b) \/ b[n + 1] < k[n + 1]
  BY <1>4 DEF Precedes
<1>t. StreamPrefix \in Nat /\ Slash \in Nat /\ Zero \in Nat /\ Slash < Zero
  BY StreamTokens
<1>6. n # 0
  <2> SUFFICES ASSUME n = 0 PROVE FALSE
    OBVIOUS
  <2>1. b[0 + 1] < k[0 + 1]
    BY <1>1, <1>2, <1>5
  <2>2. b[1] = StreamPrefix /\ k[1] = StreamPrefix /\ 0 + 1 = 1
    BY <1>2, <1>3
  <2> QED
    BY <2>1, <2>2, <1>t
<1> DEFINE m == n - 1
<1>7. m \in Nat /\ m + 1 = n /\ m + 2 = n + 1 /\ m <= L + 1
  BY <1>1, <1>2, <1>5, <1>6
<1> HIDE DEF m, L, D
<1>8. ASSUME NEW i \in 1..m, i <= L, i <= D PROVE last[i] = id[i]
  <2>1. i \in 1..L /\ i \in 1..D /\ i + 1 \in 1..n
    BY <1>1, <1>7, <1>8
  <2> QED
    BY <1>2, <1>3, <1>5, <2>1
<1>9. CASE m < L /\ m < D
  <2>1. m + 1 \in 1..L /\ m + 1 \in 1..D
    BY <1>1, <1>7, <1>9
  <2>n. (m + 1) + 1 = n + 1 /\ n # Len(b)
    BY <1>1, <1>2, <1>7, <1>9
  <2>2. last[m + 1] < id[m + 1]
    BY <1>2, <1>3, <1>5, <2>1, <2>n
  <2>i. \A i \in 1..m : i <= L /\ i <= D
    BY <1>1, <1>7, <1>9
  <2>3. m \in 0..Len(last) /\ m < Len(id) /\ \A i \in 1..m : last[i] = id[i]
    BY <1>1, <1>7, <1>8, <1>9, <2>i, SMTT(40) DEF L, D
  <2> QED
    BY <1>1, <2>2, <2>3, LessIs DEF Precedes
<1>10. CASE D < L /\ D <= m
  <2>1. D + 1 \in 1..L /\ (D + 1) + 1 = D + 2
    BY <1>1, <1>10
  <2>2. b[D + 2] = last[D + 1]
    BY <1>2, <2>1
  <2>3. D = m
    <3> SUFFICES ASSUME D < m PROVE FALSE
      BY <1>1, <1>7, <1>10
    <3>1. D + 2 \in 1..n
      BY <1>1, <1>7
    <3> QED
      BY <1>3, <1>5, <2>1, <2>2, <3>1 DEF L
  <2>4. n + 1 = D + 2 /\ n # Len(b)
    BY <1>1, <1>2, <1>7, <1>10, <2>3
  <2>5. last[D + 1] < Slash
    BY <1>3, <1>5, <2>2, <2>4
  <2>6. IsPrefix(id, last)
    <3>1. Len(id) <= Len(last) /\ \A i \in 1..Len(id) : last[i] = id[i]
      BY <1>1, <1>8, <1>10, <2>3, SMTT(40) DEF L, D
    <3> QED
      BY <1>1, <3>1, PrefixIs
  <2>7. id # last
    BY <1>1, <1>10 DEF L, D
  <2> QED
    BY <2>5, <2>6, <2>7 DEF IsStrictPrefix, D
<1>11. CASE L < D /\ L <= m
  <2>1. L \in 0..Len(last) /\ L < Len(id) /\ L = Len(last) /\ \A i \in 1..L : last[i] = id[i]
    BY <1>1, <1>7, <1>8, <1>11 DEF L, D
  <2> QED
    BY <1>1, <2>1, LessIs DEF Precedes
<1>12. CASE L = D /\ L <= m
  <2>1. CASE m = L
    <3>1. n # Len(b) /\ n + 1 = L + 2 /\ L + 2 = D + 2
      BY <1>1, <1>2, <1>7, <1>12, <2>1
    <3>2. Zero < Slash
      BY <1>2, <1>3, <1>5, <3>1
    <3> QED
      BY <3>2, <1>t
  <2>2. CASE m = L + 1
    <3>1. L + 2 \in 1..n /\ L + 2 = D + 2
      BY <1>1, <1>7, <1>12, <2>2
    <3>2. Zero = Slash
      BY <1>2, <1>3, <1>5, <3>1
    <3> QED
      BY <3>2, <1>t
  <2> QED
    BY <1>1, <1>7, <1>12, <2>1, <2>2
<1> QED
  BY <1>1, <1>7, <1>9, <1>10, <1>11, <1>12

\* The keys of a later stream are behind the cursor, unless it is stepped over.
LEMMA LaterThenBehind ==
  ASSUME NEW last \in Seq(Nat), NEW id, NEW k, KeyOf(id, k), Less(last, id)
  PROVE  Less(Behind(last), k) \/ (IsStrictPrefix(last, id) /\ id[Len(last) + 1] < Zero)
<1> DEFINE b == Behind(last)
           L == Len(last)
           D == Len(id)
<1>1. id \in Seq(Nat) /\ k \in Seq(Nat) /\ D \in Nat /\ L \in Nat /\ Len(k) \in Nat /\ D + 2 <= Len(k)
  BY DEF KeyOf
<1>2. /\ b \in Seq(Nat) /\ Len(b) = L + 2 /\ b[1] = StreamPrefix /\ b[L + 2] = Zero
      /\ \A i \in 1..L : b[i + 1] = last[i]
  BY BehindIs
<1>3. k[1] = StreamPrefix /\ k[D + 2] = Slash /\ \A i \in 1..D : k[i + 1] = id[i]
  BY DEF KeyOf
<1>4. PICK m \in 0..L : /\ m < D /\ \A i \in 1..m : last[i] = id[i]
                        /\ m = L \/ last[m + 1] < id[m + 1]
  BY <1>1, LessIs DEF Precedes
<1>t. Zero \in Nat
  BY StreamTokens
<1> HIDE DEF b, L, D
<1>5. m \in Nat /\ m <= L /\ m + 1 \in 0..Len(b) /\ m + 1 < Len(k) /\ (m + 1) + 1 = m + 2 /\ m + 1 \in 1..D
  BY <1>1, <1>2, <1>4
<1>6. ASSUME NEW i \in 1..(m + 1) PROVE b[i] = k[i]
  <2>1. i = 1 \/ (i - 1 \in 1..m /\ i - 1 \in 1..L /\ i - 1 \in 1..D /\ (i - 1) + 1 = i)
    BY <1>1, <1>4, <1>5
  <2>2. i - 1 \in 1..m /\ i - 1 \in 1..L /\ i - 1 \in 1..D => b[(i - 1) + 1] = k[(i - 1) + 1]
    BY <1>2, <1>3, <1>4
  <2> QED
    BY <1>2, <1>3, <2>1, <2>2
<1>7. k[m + 2] = id[m + 1] /\ id[m + 1] \in Nat
  <2>1. k[(m + 1) + 1] = id[m + 1]
    BY <1>3, <1>5
  <2>2. id[m + 1] \in Nat
    BY <1>1, <1>5, SMTT(40) DEF D
  <2> QED
    BY <1>5, <2>1, <2>2
<1>8. CASE m # L
  <2>1. m + 1 \in 1..L
    BY <1>1, <1>5, <1>8
  <2>2. b[m + 2] < k[m + 2]
    BY <1>2, <1>4, <1>5, <1>7, <1>8, <2>1
  <2>3. Precedes(b, k)
    BY <1>5, <1>6, <2>2 DEF Precedes
  <2> QED
    BY <1>1, <1>2, <2>3, LessIs DEF b
<1>9. CASE m = L /\ Zero < id[m + 1]
  <2>1. b[m + 2] < k[m + 2]
    BY <1>2, <1>7, <1>9
  <2>2. Precedes(b, k)
    BY <1>5, <1>6, <2>1 DEF Precedes
  <2> QED
    BY <1>1, <1>2, <2>2, LessIs DEF b
<1>10. CASE m = L /\ Zero = id[m + 1]
  <2>1. m + 2 \in 0..Len(b) /\ m + 2 < Len(k) /\ m + 2 = Len(b)
    BY <1>1, <1>2, <1>4, <1>5, <1>10
  <2>2. b[m + 2] = k[m + 2]
    BY <1>2, <1>7, <1>10
  <2>3. 1..(m + 2) = 1..(m + 1) \cup {m + 2}
    BY <1>5
  <2>4. Precedes(b, k)
    BY <1>6, <2>1, <2>2, <2>3 DEF Precedes
  <2> QED
    BY <1>1, <1>2, <2>4, LessIs DEF b
<1>11. CASE m = L /\ id[m + 1] < Zero
  <2>1. Len(last) <= Len(id) /\ (\A i \in 1..Len(last) : id[i] = last[i]) /\ last # id
    BY <1>1, <1>4, <1>5, <1>11, SMTT(40) DEF L, D
  <2>2. IsStrictPrefix(last, id)
    BY <1>1, <2>1, PrefixIs DEF IsStrictPrefix
  <2> QED
    BY <2>2, <1>11 DEF L
<1>12. Zero < id[m + 1] \/ Zero = id[m + 1] \/ id[m + 1] < Zero
  BY <1>7, <1>t
<1> QED
  BY <1>8, <1>9, <1>10, <1>11, <1>12

-----------------------------------------------------------------------------
(* list_streams *)

\* The streams one call groups the keys it reads into.
Found(prefix, cur) ==
  {StreamOf(k) : k \in {l \in Range(List(<<StreamPrefix>> \o prefix, ScanLimit, cur).page) : IsOfStream(l)}}

\* They are those of keys ahead, all of them if the call reads enough, and
\* finitely many.
LEMMA FoundIs ==
  ASSUME objects \subseteq Keys, NEW prefix \in Seq(Nat), NEW cur \in Seq(Nat)
  PROVE  LET p == <<StreamPrefix>> \o prefix
             D == Found(prefix, cur)
         IN  /\ p \in Seq(Nat) /\ D \subseteq Seq(Nat) /\ IsFiniteSet(D)
             /\ \A id \in D : \E k \in Ahead(p, cur) : IsOfStream(k) /\ id = StreamOf(k) /\ KeyOf(id, k)
             /\ Len(Index) <= ScanLimit => \A k \in Ahead(p, cur) : IsOfStream(k) => StreamOf(k) \in D
<1> DEFINE p == <<StreamPrefix>> \o prefix
           A == Ahead(p, cur)
           s == List(p, ScanLimit, cur).page
           D == Found(prefix, cur)
           J == {i \in 1..Len(s) : IsOfStream(s[i])}
           f == [i \in J |-> StreamOf(s[i])]
<1>1. p \in Seq(Nat) /\ ScanLimit \in Nat
  BY StreamTokens
<1>2. D = {StreamOf(k) : k \in {l \in Range(s) : IsOfStream(l)}}
  BY DEF Found
<1> HIDE DEF p
<1>3. GoodPage(List(p, ScanLimit, cur), A, ScanLimit)
  BY <1>1, ListIs
<1>4. Len(Index) <= ScanLimit => \A k \in A : \E i \in 1..Len(s) : s[i] = k
  BY <1>1, ListsAll
<1>5. s \in Seq(A) /\ A \subseteq Keys
  BY <1>3 DEF GoodPage
<1> HIDE DEF A, s, D
<1>6. A \subseteq Seq(Nat) /\ Len(s) \in Nat /\ (\A i \in 1..Len(s) : s[i] \in A)
      /\ \A k : k \in Range(s) <=> \E i \in 1..Len(s) : s[i] = k
  <2>1. A \subseteq Seq(Nat) /\ Len(s) \in Nat /\ \A i \in 1..Len(s) : s[i] \in A
    BY <1>5, IndexIs
  <2>2. \A k : k \in Range(s) <=> \E i \in 1..Len(s) : s[i] = k
    BY <1>5, RangeIs
  <2> QED
    BY <2>1, <2>2
<1>7. ASSUME NEW id \in D PROVE \E k \in A : IsOfStream(k) /\ id = StreamOf(k) /\ KeyOf(id, k)
  <2>1. PICK k \in Range(s) : IsOfStream(k) /\ id = StreamOf(k)
    BY <1>2
  <2>2. k \in A /\ k \in Seq(Nat)
    BY <1>6
  <2> QED
    BY <2>1, <2>2, StreamOfIs
<1>8. D \subseteq Seq(Nat)
  BY <1>7 DEF KeyOf
<1>9. IsFiniteSet(D)
  <2>1. f \in Surjection(J, D)
    <3>1. \A i \in J : f[i] \in D
      BY <1>2, <1>6
    <3>2. ASSUME NEW id \in D PROVE \E i \in J : f[i] = id
      <4>1. PICK k \in Range(s) : IsOfStream(k) /\ id = StreamOf(k)
        BY <1>2
      <4>2. PICK i \in 1..Len(s) : s[i] = k
        BY <1>6
      <4> QED
        BY <4>1, <4>2
    <3> QED
      BY <3>1, <3>2 DEF Surjection
  <2>2. IsFiniteSet(J)
    <3>1. IsFiniteSet(1..Len(s))
      BY <1>6, FS_Interval
    <3>2. J \in SUBSET (1..Len(s))
      OBVIOUS
    <3> HIDE DEF J
    <3> QED
      BY <3>1, <3>2, FS_Subset
  <2> HIDE DEF J, f
  <2> QED
    BY <2>1, <2>2, FS_Surjection
<1>10. Len(Index) <= ScanLimit => \A k \in A : IsOfStream(k) => StreamOf(k) \in D
  BY <1>2, <1>4, <1>6
<1> QED
  BY <1>1, <1>7, <1>8, <1>9, <1>10 DEF p, A, D

\* The page of one call: the first of these streams.
GoodStreams(l, D, limit) ==
  /\ l.page \in Seq(D) /\ Ascends(l.page)
  /\ l.next = None /\ limit > 0 => \A id \in D : \E i \in 1..Len(l.page) : l.page[i] = id
  /\ l.next # None => /\ l.page # <<>> /\ l.next = Behind(l.page[Len(l.page)])
                      /\ \A id \in D : (\E i \in 1..Len(l.page) : l.page[i] = id) \/ Less(l.page[Len(l.page)], id)

\* StreamsList gives such pages.
LEMMA StreamsListIs ==
  ASSUME objects \subseteq Keys, NEW prefix \in Seq(Nat), NEW cur \in Seq(Nat), NEW limit \in Nat
  PROVE  GoodStreams(StreamsList(prefix, limit, cur), Found(prefix, cur), limit)
<1> DEFINE D == Found(prefix, cur)
           l == StreamsList(prefix, limit, cur)
           R == {p \in D \X D : Less(p[1], p[2])}
           all == Ranked(D, R)
           m == Len(all)
           n == IF limit < m THEN limit ELSE m
           page == SubSeq(all, 1, n)
           last == <<StreamPrefix>> \o Last(page) \o <<Zero>>
<1>1. l = [page |-> page, next |-> IF Len(page) = limit /\ page # <<>> THEN last ELSE None]
  BY DEF StreamsList, Found, InOrder
<1>2. D \subseteq Seq(Nat) /\ IsFiniteSet(D)
  BY FoundIs
<1>b. last = Behind(Last(page))
  BY DEF Behind
<1> HIDE DEF l, D, last
<1>3. \A a, b \in D : <<a, b>> \in R <=> Less(a, b)
  OBVIOUS
<1> HIDE DEF R
<1>4. Orders(R, D)
  BY <1>2, <1>3, LessOrders DEF Orders
<1>5. /\ all \in Seq(D)
      /\ \A i, j \in 1..m : i < j => <<all[i], all[j]>> \in R
      /\ \A d \in D : \E i \in 1..m : all[i] = d
  BY <1>2, <1>4, RankedIs
<1> HIDE DEF all, m
<1>6. m \in Nat /\ m = Len(all) /\ \A i \in 1..m : all[i] \in D
  BY <1>5 DEF m
<1>7. \A i, j \in 1..m : i < j => Less(all[i], all[j])
  BY <1>3, <1>5, <1>6
<1>8. n \in Nat /\ n <= m /\ n <= limit /\ (n = limit \/ n = m)
  BY <1>6
<1> HIDE DEF n
<1>9. page \in Seq(D) /\ Len(page) = n /\ \A i \in 1..n : page[i] = all[i]
  BY <1>5, <1>6, <1>8, FirstPartIs
<1> HIDE DEF page
<1>10. Ascends(page)
  BY <1>6, <1>7, <1>8, <1>9 DEF Ascends
<1>11. page # <<>> <=> n > 0
  BY <1>8, <1>9
<1>12. CASE n = limit /\ n > 0
  <2>1. page # <<>>
    BY <1>11, <1>12
  <2>n. n \in 1..n /\ n \in 1..m
    BY <1>6, <1>8, <1>12
  <2>2. last = Behind(page[n])
    BY <1>b, <1>9 DEF Last
  <2>3. Len(Behind(page[n])) # 0
    <3>1. page[n] \in Seq(Nat) /\ Len(page[n]) \in Nat
      BY <1>2, <1>9, <2>n
    <3>2. Len(Behind(page[n])) = Len(page[n]) + 2
      BY <3>1, BehindIs
    <3> QED
      BY <3>1, <3>2
  <2>4. l.page = page /\ l.next = last /\ l.next # None
    BY <1>1, <1>9, <1>12, <2>1, <2>2, <2>3 DEF None
  <2>5. ASSUME NEW id \in D PROVE (\E i \in 1..n : page[i] = id) \/ Less(page[n], id)
    <3>1. PICK i \in 1..m : all[i] = id
      BY <1>5
    <3>2. CASE i <= n
      <4>1. i \in 1..n
        BY <3>2, <1>8
      <4> QED
        BY <3>1, <4>1, <1>9
    <3>3. CASE n < i
      BY <3>1, <3>3, <2>n, <1>7, <1>9
    <3> QED
      BY <3>2, <3>3, <1>8
  <2>6. l.page \in Seq(D) /\ Ascends(l.page) /\ Len(l.page) = n
    BY <1>9, <1>10, <2>4
  <2> QED
    BY <2>1, <2>2, <2>4, <2>5, <2>6 DEF GoodStreams, l, D
<1>13. CASE ~(n = limit /\ n > 0)
  <2>1. l.page = page /\ l.next = None
    BY <1>1, <1>9, <1>11, <1>13
  <2>2. ASSUME limit > 0, NEW id \in D PROVE \E i \in 1..n : page[i] = id
    <3>1. n = m
      BY <1>6, <1>8, <1>13, <2>2
    <3> QED
      BY <1>5, <1>9, <3>1
  <2> QED
    BY <2>1, <2>2, <1>9, <1>10 DEF GoodStreams, l, D
<1> QED
  BY <1>12, <1>13

\* ComesAgain and SteppedOver, by the ids that pages ended with.
Again(ends, id) == \E last \in ends : IsStrictPrefix(id, last) /\ last[Len(id) + 1] < Slash
Over(ends, id)  == \E last \in ends : IsStrictPrefix(last, id) /\ id[Len(last) + 1] < Zero

\* A page more keeps what StreamsInv says.
LEMMA StreamsStep ==
  ASSUME ListingInv, StreamsPage
  PROVE  ListingInv' /\ (None \in {cursor, cursor'} \/ Less(cursor, cursor'))
<1> DEFINE l == StreamsList(arg.prefix, arg.limit, cursor)
           D == Found(arg.prefix, cursor)
           p == <<StreamPrefix>> \o arg.prefix
           A == Ahead(p, cursor)
           X == StreamIds(AtSomeTime)
           T == {StreamOf(k) : k \in {j \in Keys : IsOfStream(j)}}
           n == Len(l.page)
           s == Len(answer)
<1>1. /\ kind = "streams" /\ phase = "page"
      /\ answer' = answer \o l.page /\ cursor' = l.next
      /\ todo' = IF l.next = None THEN todo ELSE Append(todo, l.page[n])
      /\ phase' = IF l.next = None THEN "done" ELSE "page"
      /\ UNCHANGED <<storeVars, requestVars>>
  BY DEF StreamsPage, Last
<1>2. /\ objects' = objects /\ changes' = changes /\ put' = put /\ lost' = lost
      /\ start' = start /\ kind' = kind /\ arg' = arg
  BY <1>1 DEF storeVars, requestVars
<1>3. TypeInv /\ HistoryInv /\ StreamsInv
  BY DEF ListingInv
<1>4. /\ objects \subseteq AtSomeTime /\ AtSomeTime \subseteq Keys /\ Throughout \subseteq Keys
      /\ Throughout \subseteq objects /\ objects \subseteq Keys
  BY <1>1, <1>3, StayedIsStored DEF TypeInv
<1>5. arg.prefix \in Seq(Nat) /\ arg.limit \in Nat
  BY <1>3 DEF TypeInv, Requests
<1>6. ASSUME NEW id \in T PROVE id \in Seq(Nat) /\ \A i \in 1..Len(id) : id[i] # Slash
  <2>1. PICK k \in Keys : IsOfStream(k) /\ id = StreamOf(k)
    OBVIOUS
  <2>2. KeyOf(id, k)
    BY <2>1, StreamOfIs, IndexIs
  <2> QED
    BY <2>2 DEF KeyOf
<1>7. X \subseteq T
  BY <1>4 DEF StreamIds
<1>8. /\ answer \in Seq(X) /\ todo \in Seq(T)
      /\ \A i, j \in 1..s : i < j => Less(answer[i], answer[j]) \/ ComesAgain(answer[j])
      /\ cursor = IF todo = <<>> THEN None ELSE Behind(todo[Len(todo)])
      /\ \A i \in 1..s : \E m \in 1..Len(todo) : answer[i] = todo[m] \/ Less(answer[i], todo[m])
      /\ \A m \in 1..Len(todo) : Behind(todo[m]) = cursor \/ Less(Behind(todo[m]), cursor)
  BY <1>1, <1>3 DEF StreamsInv, Last
<1>9. arg.limit > 0 /\ Len(Index) <= ScanLimit =>
        \A k \in Throughout : UnderStreams(k) =>
          StreamOf(k) \in Range(answer) \/ SteppedOver(StreamOf(k)) \/ cursor = None \/ Less(cursor, k)
  BY <1>1, <1>3 DEF StreamsInv
<1> HIDE DEF T, X
<1>10. s \in Nat /\ Len(todo) \in Nat /\ (\A m \in 1..Len(todo) : todo[m] \in T) /\ T \subseteq Seq(Nat)
       /\ (\A i \in 1..s : answer[i] \in X) /\ X \subseteq Seq(Nat)
  BY <1>6, <1>7, <1>8
<1>11. ASSUME NEW id \in Seq(Nat) PROVE Behind(id) \in Seq(Nat) /\ Behind(id) # None
  <2>1. Behind(id) \in Seq(Nat) /\ Len(Behind(id)) = Len(id) + 2 /\ Len(id) \in Nat
    BY BehindIs
  <2> QED
    BY <2>1 DEF None
<1>12. cursor \in Seq(Nat) /\ (todo # <<>> => cursor # None)
  <2>1. CASE todo = <<>>
    BY <1>8, <2>1, EmptySeq DEF None
  <2>2. CASE todo # <<>>
    <3>1. Len(todo) \in 1..Len(todo)
      BY <1>8, <1>10, <2>2
    <3> QED
      BY <1>8, <1>10, <1>11, <2>2, <3>1
  <2> QED
    BY <2>1, <2>2
<1>13. /\ p \in Seq(Nat) /\ D \subseteq Seq(Nat)
       /\ \A id \in D : \E k \in A : IsOfStream(k) /\ id = StreamOf(k) /\ KeyOf(id, k)
       /\ Len(Index) <= ScanLimit => \A k \in A : IsOfStream(k) => StreamOf(k) \in D
  BY <1>4, <1>5, <1>12, FoundIs
<1>14. GoodStreams(l, D, arg.limit)
  BY <1>4, <1>5, <1>12, StreamsListIs
<1>15. \A k \in A : k \in objects /\ k \in Keys /\ IsPrefix(p, k) /\ (cursor = None \/ Less(cursor, k))
  BY <1>4 DEF Ahead
<1>16. \A k \in Throughout : UnderStreams(k) /\ (cursor = None \/ Less(cursor, k)) => k \in A /\ IsOfStream(k)
  BY <1>4 DEF Ahead, UnderStreams
<1>17. D \subseteq X
  BY <1>4, <1>13, <1>15 DEF StreamIds, X
<1> HIDE DEF l, D, A, p
<1>18. /\ l.page \in Seq(D) /\ l.page \in Seq(X) /\ l.page \in Seq(Seq(Nat)) /\ n \in Nat /\ Ascends(l.page)
       /\ \A i \in 1..n : l.page[i] \in D
  <2>1. l.page \in Seq(D) /\ Ascends(l.page)
    BY <1>14 DEF GoodStreams
  <2> QED
    BY <2>1, <1>13, <1>17, SeqMonotonic
<1>19. l.next # None => n \in 1..n /\ l.next = Behind(l.page[n])
  BY <1>14, <1>18 DEF GoodStreams
<1>20. Range(todo) \subseteq Range(todo') /\ (l.next # None => l.page[n] \in Range(todo'))
       /\ todo' \in Seq(T) /\ \A x : x \in Range(todo) <=> \E m \in 1..Len(todo) : todo[m] = x
  <2>1. CASE l.next = None
    BY <1>1, <1>8, <2>1, RangeIs
  <2>2. CASE l.next # None
    <3>1. todo' = Append(todo, l.page[n]) /\ l.page[n] \in T
      BY <1>1, <1>7, <1>17, <1>18, <1>19, <2>2
    <3>2. todo' \in Seq(T) /\ Len(todo') = Len(todo) + 1 /\ todo'[Len(todo) + 1] = l.page[n]
          /\ \A m \in 1..Len(todo) : todo'[m] = todo[m]
      BY <1>8, <3>1
    <3>3. \A x : x \in Range(todo) <=> \E m \in 1..Len(todo) : todo[m] = x
      BY <1>8, RangeIs
    <3>4. \A x : x \in Range(todo') <=> \E m \in 1..(Len(todo) + 1) : todo'[m] = x
      <4>1. \A x : x \in Range(todo') <=> \E m \in 1..Len(todo') : todo'[m] = x
        BY <3>2, RangeIs
      <4> QED
        BY <3>2, <4>1
    <3>5. Len(todo) + 1 \in 1..(Len(todo) + 1) /\ 1..Len(todo) \subseteq 1..(Len(todo) + 1)
      BY <1>10
    <3> QED
      BY <3>2, <3>3, <3>4, <3>5
  <2> QED
    BY <2>1, <2>2
<1>21. \A id : (Again(Range(todo), id) => Again(Range(todo'), id))
                /\ (Over(Range(todo), id) => Over(Range(todo'), id))
  BY <1>20 DEF Again, Over
<1>22. ASSUME NEW i \in 1..s, NEW j \in 1..n PROVE Less(answer[i], l.page[j]) \/ Again(Range(todo), l.page[j])
  <2> DEFINE id == l.page[j]
  <2>1. PICK k \in A : KeyOf(id, k)
    BY <1>13, <1>18
  <2>2. PICK m \in 1..Len(todo) : answer[i] = todo[m] \/ Less(answer[i], todo[m])
    BY <1>8
  <2> DEFINE last == todo[m]
  <2>3. last \in Seq(Nat) /\ (\A h \in 1..Len(last) : last[h] # Slash) /\ last \in Range(todo)
        /\ answer[i] \in Seq(Nat) /\ id \in Seq(Nat) /\ k \in Seq(Nat) /\ Behind(last) \in Seq(Nat)
    BY <1>6, <1>10, <1>11, <1>18, <1>20, <2>1 DEF KeyOf
  <2>4. cursor # None
    BY <1>12, <1>10, <2>2
  <2>5. Less(cursor, k) /\ (Behind(last) = cursor \/ Less(Behind(last), cursor))
    BY <1>8, <1>15, <2>4
  <2> HIDE DEF id, last
  <2>6. Less(Behind(last), k)
    BY <1>12, <2>3, <2>5, LessOrders
  <2>7. Less(last, id) \/ (IsStrictPrefix(id, last) /\ last[Len(id) + 1] < Slash)
    BY <2>1, <2>3, <2>6, BehindThenLater
  <2>8. CASE Less(last, id)
    <3>1. answer[i] = last \/ Less(answer[i], last)
      BY <2>2 DEF last
    <3> QED
      BY <2>3, <2>8, <3>1, LessOrders DEF id
  <2>9. CASE IsStrictPrefix(id, last) /\ last[Len(id) + 1] < Slash
    BY <2>3, <2>9 DEF Again, id
  <2> QED
    BY <2>7, <2>8, <2>9
<1> DEFINE q == answer \o l.page
           t == l.page
<1>23. /\ q \in Seq(X) /\ Len(q) = s + n /\ Range(q) = Range(answer) \cup Range(t)
       /\ (\A i \in 1..s : i \in 1..Len(q) /\ q[i] = answer[i])
       /\ (\A j \in 1..n : s + j \in 1..Len(q) /\ q[s + j] = t[j])
       /\ \A i \in 1..Len(q) : i \in 1..s \/ (i - s \in 1..n /\ i = s + (i - s))
  <2>1. t \in Seq(X) /\ n = Len(t)
    BY <1>18
  <2> HIDE DEF t, n
  <2> QED
    BY <1>8, <2>1, JoinIs, JoinMembers DEF t
<1>24. \A x : x \in Range(t) <=> \E i \in 1..n : t[i] = x
  BY <1>18, RangeIs
<1> HIDE DEF q, t, n, s
<1>e. answer' = q /\ l.page = t
  BY <1>1 DEF q, t
<1>25. ASSUME NEW i \in 1..Len(q), NEW j \in 1..Len(q), i < j
       PROVE  Less(q[i], q[j]) \/ Again(Range(todo'), q[j])
  <2>1. CASE j \in 1..s
    <3>1. i \in 1..s
      BY <1>10, <1>25, <2>1
    <3>2. Less(q[i], q[j]) \/ Again(Range(todo), q[j])
      BY <1>8, <1>23, <1>25, <2>1, <3>1 DEF s, ComesAgain, Again
    <3> QED
      BY <1>21, <3>2
  <2>2. CASE i \in 1..s /\ j \notin 1..s
    <3>1. j - s \in 1..n /\ q[j] = t[j - s] /\ q[i] = answer[i]
      BY <1>23, <2>2
    <3>2. Less(q[i], q[j]) \/ Again(Range(todo), q[j])
      BY <1>22, <1>e, <2>2, <3>1
    <3> QED
      BY <1>21, <3>2
  <2>3. CASE i \notin 1..s /\ j \notin 1..s
    <3>1. j - s \in 1..n /\ q[j] = t[j - s] /\ i - s \in 1..n /\ q[i] = t[i - s]
      BY <1>23, <2>3
    <3>2. i - s < j - s
      BY <1>10, <1>25
    <3> QED
      BY <1>18, <1>e, <3>1, <3>2 DEF Ascends, n
  <2> QED
    BY <2>1, <2>2, <2>3
<1>26. l.next # None => todo' # <<>> /\ Len(todo') = Len(todo) + 1 /\ todo'[Len(todo) + 1] = t[n]
                        /\ \A m \in 1..Len(todo) : todo'[m] = todo[m]
  <2>1. l.next # None => todo' = Append(todo, t[n])
    BY <1>1 DEF t
  <2>2. l.next # None => t[n] \in T
    BY <1>7, <1>17, <1>18, <1>19 DEF t
  <2>3. todo \in Seq(T)
    BY <1>8
  <2> QED
    BY <2>1, <2>2, <2>3
<1>27. l.next # None => (\A i \in 1..n : t[i] = t[n] \/ Less(t[i], t[n])) /\ t[n] \in D
  <2> SUFFICES ASSUME l.next # None, NEW i \in 1..n PROVE t[i] = t[n] \/ Less(t[i], t[n])
    BY <1>18, <1>19 DEF t
  <2>1. n \in 1..n /\ (i = n \/ i < n)
    BY <1>18, <1>19
  <2> QED
    BY <1>18, <2>1 DEF Ascends, t, n
<1>28. None \in {cursor, cursor'} \/ Less(cursor, cursor')
  <2> SUFFICES ASSUME cursor # None, l.next # None PROVE Less(cursor, l.next)
    BY <1>1
  <2>1. PICK k \in A : KeyOf(t[n], k)
    BY <1>13, <1>27
  <2>2. Less(cursor, k) /\ Less(k, Behind(t[n]))
    BY <1>15, <2>1, KeyBeforeBehind
  <2>3. k \in Seq(Nat) /\ Behind(t[n]) \in Seq(Nat)
    BY <1>11, <2>1 DEF KeyOf
  <2> QED
    BY <1>12, <1>19, <2>2, <2>3, LessOrders DEF t
<1>29. ASSUME l.next # None, NEW i \in 1..Len(q)
       PROVE  \E m \in 1..Len(todo') : q[i] = todo'[m] \/ Less(q[i], todo'[m])
  <2>0. 1..Len(todo) \subseteq 1..(Len(todo) + 1) /\ Len(todo) + 1 \in 1..(Len(todo) + 1)
    BY <1>10
  <2>1. CASE i \in 1..s
    <3>1. PICK m \in 1..Len(todo) : answer[i] = todo[m] \/ Less(answer[i], todo[m])
      BY <1>8, <2>1 DEF s
    <3>2. m \in 1..Len(todo') /\ todo'[m] = todo[m] /\ q[i] = answer[i]
      BY <1>23, <1>26, <1>29, <2>0, <2>1, <3>1
    <3> QED
      BY <3>1, <3>2
  <2>2. CASE i - s \in 1..n /\ i = s + (i - s)
    <3>1. q[i] = t[i - s]
      BY <1>23, <2>2
    <3> QED
      BY <1>26, <1>27, <1>29, <2>0, <2>2, <3>1
  <2> QED
    BY <1>23, <2>1, <2>2
<1>30. ASSUME l.next # None, NEW m \in 1..Len(todo')
       PROVE  Behind(todo'[m]) = l.next \/ Less(Behind(todo'[m]), l.next)
  <2>1. CASE m \in 1..Len(todo)
    <3>1. todo'[m] = todo[m] /\ todo # <<>> /\ todo[m] \in Seq(Nat)
      BY <1>10, <1>26, <1>30, <2>1
    <3>2. Behind(todo[m]) = cursor \/ Less(Behind(todo[m]), cursor)
      BY <1>8, <2>1
    <3>3. Less(cursor, l.next)
      BY <1>1, <1>12, <1>28, <1>30, <3>1
    <3>4. Behind(todo[m]) \in Seq(Nat) /\ l.next \in Seq(Nat)
      <4>1. t[n] \in Seq(Nat)
        BY <1>13, <1>27, <1>30
      <4>2. Behind(t[n]) \in Seq(Nat) /\ Behind(todo[m]) \in Seq(Nat)
        BY <1>11, <3>1, <4>1
      <4> QED
        BY <1>19, <1>30, <4>2 DEF t
    <3> QED
      BY <1>12, <3>1, <3>2, <3>3, <3>4, LessOrders
  <2>2. CASE m = Len(todo) + 1
    BY <1>19, <1>26, <1>30, <2>2 DEF t
  <2> QED
    BY <1>10, <1>26, <1>30, <2>1, <2>2
<1>31. ASSUME arg.limit > 0, Len(Index) <= ScanLimit, NEW k \in Throughout, UnderStreams(k)
       PROVE  \/ StreamOf(k) \in Range(q) \/ Over(Range(todo'), StreamOf(k))
              \/ l.next # None /\ Less(l.next, k)
  <2> DEFINE id == StreamOf(k)
  <2>1. id \in Range(answer) \/ Over(Range(todo), id) \/ cursor = None \/ Less(cursor, k)
    BY <1>9, <1>31 DEF SteppedOver, Over
  <2>2. CASE cursor = None \/ Less(cursor, k)
    <3>1. k \in A /\ IsOfStream(k) /\ id \in D
      BY <1>13, <1>16, <1>31, <2>2
    <3>2. k \in Seq(Nat)
      BY <1>15, <3>1, IndexIs
    <3>3. KeyOf(id, k)
      BY <3>1, <3>2, StreamOfIs
    <3> HIDE DEF id
    <3>4. CASE l.next = None
      <4>1. \E i \in 1..n : t[i] = id
        BY <1>14, <1>31, <3>1, <3>4 DEF GoodStreams, t, n
      <4> QED
        BY <1>23, <1>24, <4>1 DEF id
    <3>5. CASE l.next # None
      <4>1. (\E i \in 1..n : t[i] = id) \/ Less(t[n], id)
        BY <1>14, <3>1, <3>5 DEF GoodStreams, t, n
      <4>2. CASE \E i \in 1..n : t[i] = id
        BY <1>23, <1>24, <4>2 DEF id
      <4>3. CASE Less(t[n], id)
        <5>1. t[n] \in Seq(Nat) /\ t[n] \in Range(todo') /\ l.next = Behind(t[n])
          BY <1>13, <1>19, <1>20, <1>27, <3>5 DEF t
        <5>2. Less(Behind(t[n]), k) \/ (IsStrictPrefix(t[n], id) /\ id[Len(t[n]) + 1] < Zero)
          BY <3>3, <4>3, <5>1, LaterThenBehind
        <5> QED
          BY <3>5, <5>1, <5>2 DEF Over, id
      <4> QED
        BY <4>1, <4>2, <4>3
    <3> QED
      BY <3>4, <3>5
  <2> QED
    BY <1>21, <1>23, <2>1, <2>2
<1>32. StreamsInv'
  <2>1. StreamIds(AtSomeTime)' = X
    BY <1>2 DEF StreamIds, AtSomeTime, X
  <2>2. answer' \in Seq(StreamIds(AtSomeTime)') /\ todo' \in Seq({StreamOf(k) : k \in {j \in Keys : IsOfStream(j)}})
    BY <1>20, <1>23, <1>e, <2>1 DEF T
  <2>3. \A i, j \in 1..Len(answer') : i < j => Less(answer'[i], answer'[j]) \/ Again(Range(todo'), answer'[j])
    BY <1>25, <1>e
  <2>4. phase' = "page" => l.next # None
    BY <1>1
  <2>5. phase' = "page" => cursor' = IF todo' = <<>> THEN None ELSE Behind(todo'[Len(todo')])
    BY <1>1, <1>19, <1>26, <2>4 DEF t
  <2>6. phase' = "page" =>
          \A i \in 1..Len(answer') : \E m \in 1..Len(todo') : answer'[i] = todo'[m] \/ Less(answer'[i], todo'[m])
    BY <1>29, <1>e, <2>4
  <2>7. phase' = "page" => \A m \in 1..Len(todo') : Behind(todo'[m]) = cursor' \/ Less(Behind(todo'[m]), cursor')
    BY <1>1, <1>30, <2>4
  <2>8. Throughout' = Throughout /\ \A k : UnderStreams(k)' <=> UnderStreams(k)
    BY <1>2 DEF Throughout, UnderStreams
  <2>9. arg.limit > 0 /\ Len(Index) <= ScanLimit =>
         \A k \in Throughout : UnderStreams(k) =>
           \/ StreamOf(k) \in Range(answer') \/ Over(Range(todo'), StreamOf(k))
           \/ phase' = "page" /\ Less(cursor', k)
    BY <1>1, <1>31, <1>e
  <2>10. (\A id : ComesAgain(id)' <=> Again(Range(todo'), id)) /\ (\A id : SteppedOver(id)' <=> Over(Range(todo'), id))
    BY DEF ComesAgain, SteppedOver, Again, Over
  <2>11. \A i, j \in 1..Len(answer') : i < j => Less(answer'[i], answer'[j]) \/ ComesAgain(answer[j])'
    BY <2>3 DEF ComesAgain, Again
  <2>12. (arg.limit > 0 /\ Len(Index) <= ScanLimit)' =>
          \A k \in Throughout' : UnderStreams(k)' =>
           \/ StreamOf(k) \in Range(answer') \/ SteppedOver(StreamOf(k))'
           \/ phase' = "page" /\ (cursor' = None \/ Less(cursor', k))
    BY <1>2, <2>8, <2>9, <2>10
  <2> QED
    BY <2>2, <2>11, <2>5, <2>6, <2>7, <2>12 DEF StreamsInv, Last
<1>33. TypeInv'
  BY <1>1, <1>2, <1>3 DEF TypeInv, Phases
<1>34. HistoryInv'
  BY <1>1, <1>2, <1>3 DEF HistoryInv, AtSomeTime
<1>35. FreshInv' /\ MediaInv' /\ DeleteInv' /\ PlaylistInv' /\ MasterComplete'
  BY <1>1, <1>2 DEF FreshInv, MediaInv, DeleteInv, PlaylistInv, MasterComplete
<1> QED
  BY <1>28, <1>32, <1>33, <1>34, <1>35 DEF ListingInv

-----------------------------------------------------------------------------
(* Sorting by a number *)

\* perm rearranges n places in the order of w.
Sorts(perm, n, w) ==
  /\ perm \in [1..n -> 1..n]
  /\ \A i, j \in 1..n : perm[i] = perm[j] => i = j
  /\ \A p \in 1..n : \E i \in 1..n : perm[i] = p
  /\ \A i, j \in 1..n : i < j => w[perm[i]] <= w[perm[j]]

Rearranged(s, perm, n, t) == t = [i \in 1..n |-> s[perm[i]]]

\* StableSort rearranges a list, so that the numbers rise.
LEMMA StableSortIs ==
  ASSUME NEW n \in Nat, NEW s, DOMAIN s = 1..n, Len(s) = n, NEW w \in [1..n -> Int], NEW before,
         \A i, j \in 1..n : <<i, j>> \in before <=> w[i] < w[j]
  PROVE  \E perm : Sorts(perm, n, w) /\ Rearranged(s, perm, n, StableSort(s, before))
<1> DEFINE R == {p \in (DOMAIN s) \X (DOMAIN s) : p \in before \/ (p[1] < p[2] /\ <<p[2], p[1]>> \notin before)}
           perm == Ranked(DOMAIN s, R)
<1>1. DOMAIN s = 1..n /\ n \in Nat
  OBVIOUS
<1>2. StableSort(s, before) = [i \in 1..n |-> s[perm[i]]]
  BY DEF StableSort
<1>3. ASSUME NEW i \in 1..n, NEW j \in 1..n
      PROVE  <<i, j>> \in R <=> w[i] < w[j] \/ (i < j /\ ~(w[j] < w[i]))
  BY <1>1
<1> HIDE DEF R
<1>4. \A i \in 1..n : w[i] \in Int
  OBVIOUS
<1>5. Orders(R, 1..n)
  <2>1. \A i \in 1..n : <<i, i>> \notin R
    BY <1>1, <1>3, <1>4
  <2>2. ASSUME NEW i \in 1..n, NEW j \in 1..n, NEW k \in 1..n, <<i, j>> \in R, <<j, k>> \in R
        PROVE  <<i, k>> \in R
    <3>1. w[i] \in Int /\ w[j] \in Int /\ w[k] \in Int /\ i \in Int /\ j \in Int /\ k \in Int
      BY <1>1, <1>4
    <3>2. w[i] < w[j] \/ (i < j /\ ~(w[j] < w[i]))
      BY <1>3, <2>2
    <3>3. w[j] < w[k] \/ (j < k /\ ~(w[k] < w[j]))
      BY <1>3, <2>2
    <3>4. w[i] < w[k] \/ (i < k /\ ~(w[k] < w[i]))
      BY <3>1, <3>2, <3>3
    <3> QED
      BY <1>3, <3>4
  <2>3. ASSUME NEW i \in 1..n, NEW j \in 1..n PROVE i = j \/ <<i, j>> \in R \/ <<j, i>> \in R
    <3>1. w[i] \in Int /\ w[j] \in Int /\ i \in Int /\ j \in Int
      BY <1>1, <1>4
    <3> QED
      BY <1>3, <3>1
  <2> QED
    BY <2>1, <2>2, <2>3 DEF Orders
<1>6. IsFiniteSet(1..n) /\ Cardinality(1..n) = n
  <2>1. 1 \in Int /\ n \in Int /\ (IF 1 > n THEN 0 ELSE n - 1 + 1) = n
    BY <1>1
  <2> QED
    BY <2>1, FS_Interval
<1>7. perm = Ranked(1..n, R)
  BY <1>1
<1> HIDE DEF perm
<1>8. /\ perm \in Seq(1..n) /\ Len(perm) = n
      /\ \A i, j \in 1..n : i < j => <<perm[i], perm[j]>> \in R
      /\ \A p \in 1..n : \E i \in 1..n : perm[i] = p
  <2> DEFINE D == 1..n
  <2>1. IsFiniteSet(D) /\ Orders(R, D) /\ Cardinality(D) = n /\ perm = Ranked(D, R)
    BY <1>5, <1>6, <1>7
  <2> HIDE DEF D
  <2>a. IsFiniteSet(D) /\ Orders(R, D)
    BY <2>1
  <2>2. perm \in Seq(D) /\ Len(perm) = n
    BY <2>1, <2>a, RankedIs
  <2>b. \A i, j \in 1..Len(perm) : i < j => <<perm[i], perm[j]>> \in R
    BY <2>1, <2>a, RankedIs
  <2>c. \A d \in D : \E i \in 1..Len(perm) : perm[i] = d
    BY <2>1, <2>a, RankedIs
  <2>3. /\ perm \in Seq(D) /\ Len(perm) = n
        /\ \A i, j \in 1..n : i < j => <<perm[i], perm[j]>> \in R
        /\ \A d \in D : \E i \in 1..n : perm[i] = d
    BY <2>2, <2>b, <2>c
  <2> QED
    BY <2>3 DEF D
<1>9. perm \in [1..n -> 1..n] /\ \A i \in 1..n : perm[i] \in 1..n
  <2> DEFINE D == 1..n
  <2>1. perm \in Seq(D) /\ Len(perm) = n
    BY <1>8
  <2> HIDE DEF D
  <2>2. perm \in [1..n -> D]
    BY <2>1, LenProperties
  <2> QED
    BY <2>2 DEF D
<1>10. ASSUME NEW i \in 1..n, NEW j \in 1..n, perm[i] = perm[j], i # j PROVE FALSE
  <2>1. i < j \/ j < i
    BY <1>1, <1>10
  <2>2. <<perm[i], perm[i]>> \in R
    BY <1>8, <1>10, <2>1
  <2> QED
    BY <1>5, <1>9, <2>2 DEF Orders
<1>11. ASSUME NEW i \in 1..n, NEW j \in 1..n, i < j PROVE w[perm[i]] <= w[perm[j]]
  <2>1. w[perm[i]] < w[perm[j]] \/ ~(w[perm[j]] < w[perm[i]])
    BY <1>3, <1>8, <1>9, <1>11
  <2>2. w[perm[i]] \in Int /\ w[perm[j]] \in Int
    BY <1>4, <1>9
  <2> QED
    BY <2>1, <2>2
<1>12. Sorts(perm, n, w)
  BY <1>8, <1>9, <1>10, <1>11 DEF Sorts
<1> QED
  BY <1>2, <1>12 DEF Rearranged

-----------------------------------------------------------------------------
(* Segments *)

\* The folders of streams are sequences of tokens.
LEMMA VariantsOfIs == ASSUME NEW id \in Seq(Nat) PROVE VariantsOf(id) \in Seq(Nat)
<1>1. <<StreamPrefix>> \in Seq(Nat) /\ <<VariantsDir, Slash>> \in Seq(Nat)
  BY StreamTokens
<1> QED
  BY <1>1 DEF VariantsOf

\* Every key of a page has an index, its number if nothing contradicts it.
LEMMA IndexOfIs ==
  ASSUME NEW k \in Keys, NEW place \in Nat
  PROVE  IndexOf(k, place) \in Nat /\ (Agrees(k) => IndexOf(k, place) = NumberOf(k))
<1>1. NumberOf(k) = Absent \/ NumberOf(k) \in Nat
  <2> DEFINE name  == SubSeq(k, 1 + SelectLastInSeq(k, LAMBDA t : t = SegFile), Len(k))
             dot   == SelectInSeq(name, LAMBDA t : t = Dot)
             digit == IF dot = 0 THEN name ELSE SubSeq(name, 1, dot - 1)
  <2>1. NumberOf(k) = IF digit \in DOMAIN Number THEN Number[digit] ELSE Absent
    BY DEF NumberOf
  <2> HIDE DEF digit
  <2>2. digit \in DOMAIN Number => Number[digit] \in Nat
    BY StreamNumbers DEF Range
  <2> QED
    BY <2>1, <2>2
<1>2. Meta[k].index = Absent \/ Meta[k].index \in Nat
  BY StreamNumbers
<1> QED
  BY <1>1, <1>2 DEF IndexOf, Agrees

\* S lists keys of A, all if the index is not too long, each once, by index.
GoodSegments(S, A) ==
  /\ S \in Seq(Segments)
  /\ \A i \in 1..Len(S) : /\ S[i].key \in A /\ S[i].index \in Nat
                          /\ Agrees(S[i].key) => S[i].index = NumberOf(S[i].key)
  /\ \A i, j \in 1..Len(S) : /\ S[i].key = S[j].key => i = j
                             /\ i < j => S[i].index <= S[j].index
  /\ Len(Index) <= ScanLimit => \A k \in A : \E i \in 1..Len(S) : S[i].key = k

\* What discover_segments finds: the keys stored, each once, by their index.
LEMMA SegmentsAre ==
  ASSUME objects \subseteq Keys, NEW id \in Seq(Nat), NEW v \in Seq(Nat)
  PROVE  GoodSegments(DiscoverSegments(id, v),
                      {k \in objects : IsPrefix(VariantsOf(id) \o v \o <<Slash, SegFile>>, k)})
<1> DEFINE P == VariantsOf(id) \o v \o <<Slash, SegFile>>
           A == {k \in objects : IsPrefix(P, k)}
           l == List(P, ScanLimit, None)
           keys == l.page
           n == Len(keys)
           Seg(i) == [key |-> keys[i], index |-> IndexOf(keys[i], i - 1),
                      duration |-> IF Meta[keys[i]].duration = Absent THEN 40000 ELSE Meta[keys[i]].duration]
           segs == [i \in 1..n |-> Seg(i)]
           before == {p \in (DOMAIN segs) \X (DOMAIN segs) : segs[p[1]].index < segs[p[2]].index}
           w == [i \in 1..n |-> IndexOf(keys[i], i - 1)]
           S == DiscoverSegments(id, v)
<1>1. P \in Seq(Nat) /\ ScanLimit \in Nat /\ None \in Seq(Nat)
  <2>1. VariantsOf(id) \in Seq(Nat) /\ <<Slash, SegFile>> \in Seq(Nat) /\ ScanLimit \in Nat
    BY VariantsOfIs, StreamTokens
  <2> QED
    BY <2>1, EmptySeq DEF None
<1>2. S = StableSort(segs, before)
  BY DEF DiscoverSegments
<1> HIDE DEF P, S
<1>3. Ahead(P, None) = A
  BY DEF Ahead
<1>4. GoodPage(l, A, ScanLimit)
  BY <1>1, <1>3, ListIs
<1>5. Len(Index) <= ScanLimit => \A k \in A : \E i \in 1..n : keys[i] = k
  <2> SUFFICES ASSUME Len(Index) <= ScanLimit PROVE \A k \in A : \E i \in 1..n : keys[i] = k
    OBVIOUS
  <2> HIDE DEF A
  <2>1. \A k \in Ahead(P, None) : \E i \in 1..Len(List(P, ScanLimit, None).page) : List(P, ScanLimit, None).page[i] = k
    BY <1>1, ListsAll
  <2> QED
    BY <2>1, <1>3
<1> HIDE DEF A, l
<1>6. keys \in Seq(A) /\ A \subseteq Keys /\ Ascends(keys) /\ n \in Nat
  BY <1>4 DEF GoodPage
<1> HIDE DEF keys
<1>7. \A i \in 1..n : keys[i] \in A /\ keys[i] \in Keys /\ i - 1 \in Nat
  BY <1>6
<1>8. \A i, j \in 1..n : keys[i] = keys[j] => i = j
  <2>1. keys \in Seq(Seq(Nat))
    <3>1. A \subseteq Seq(Nat)
      BY <1>6, IndexIs
    <3> QED
      BY <1>6, <3>1, SeqMonotonic
  <2> QED
    BY <1>6, <2>1, AscendsInjective DEF n
<1> HIDE DEF n
<1>9. \A i \in 1..n : w[i] \in Nat /\ (Agrees(keys[i]) => w[i] = NumberOf(keys[i]))
  BY <1>7, IndexOfIs
<1>10. Len(segs) = n /\ DOMAIN segs = 1..n
  <2> HIDE DEF Seg
  <2> QED
    BY <1>6
<1>11. \A i \in 1..n : segs[i].key = keys[i] /\ segs[i].index = w[i]
  OBVIOUS
<1>a. ASSUME NEW i \in 1..n PROVE segs[i] \in Segments
  <2>1. keys[i] \in Keys /\ IndexOf(keys[i], i - 1) \in Nat
    BY <1>7, IndexOfIs
  <2>2. Meta[keys[i]].duration = Absent \/ Meta[keys[i]].duration \in Int
    BY <2>1, StreamNumbers
  <2>3. (IF Meta[keys[i]].duration = Absent THEN 40000 ELSE Meta[keys[i]].duration) \in Int
    BY <2>2
  <2>4. Seg(i) \in Segments
    BY <2>1, <2>3 DEF Segments
  <2>5. segs[i] = Seg(i)
    OBVIOUS
  <2> QED
    BY <2>4, <2>5
<1> HIDE DEF segs, Seg
<1>12. \A i, j \in 1..n : <<i, j>> \in before <=> w[i] < w[j]
  BY <1>10, <1>11
<1> HIDE DEF before
<1>13. w \in [1..n -> Int]
  <2>1. \A i \in 1..n : IndexOf(keys[i], i - 1) \in Int
    BY <1>7, IndexOfIs
  <2> QED
    BY <2>1
<1> HIDE DEF w
<1>14. PICK perm : Sorts(perm, n, w) /\ Rearranged(segs, perm, n, StableSort(segs, before))
  BY <1>6, <1>10, <1>12, <1>13, StableSortIs
<1>15. /\ \A i \in 1..n : perm[i] \in 1..n
       /\ \A i, j \in 1..n : perm[i] = perm[j] => i = j
       /\ \A p \in 1..n : \E i \in 1..n : perm[i] = p
       /\ \A i, j \in 1..n : i < j => w[perm[i]] <= w[perm[j]]
  BY <1>14 DEF Sorts
<1>16. S = [i \in 1..n |-> segs[perm[i]]]
  BY <1>2, <1>14 DEF Rearranged
<1>17. S \in Seq(Segments) /\ Len(S) = n
  <2>1. \A i \in 1..n : segs[perm[i]] \in Segments
    BY <1>a, <1>15
  <2>2. S \in [1..n -> Segments]
    BY <1>16, <2>1
  <2> QED
    BY <1>6, <2>2
<1>18. \A i \in 1..n : S[i].key = keys[perm[i]] /\ S[i].index = w[perm[i]]
  BY <1>11, <1>15, <1>16
<1>19. ASSUME NEW i \in 1..n
       PROVE  S[i].key \in A /\ S[i].index \in Nat /\ (Agrees(S[i].key) => S[i].index = NumberOf(S[i].key))
  <2>1. perm[i] \in 1..n /\ S[i].key = keys[perm[i]] /\ S[i].index = w[perm[i]]
    BY <1>15, <1>18
  <2> QED
    BY <1>7, <1>9, <2>1
<1>20. ASSUME NEW i \in 1..n, NEW j \in 1..n
       PROVE  (S[i].key = S[j].key => i = j) /\ (i < j => S[i].index <= S[j].index)
  <2>1. /\ perm[i] \in 1..n /\ S[i].key = keys[perm[i]] /\ S[i].index = w[perm[i]]
        /\ perm[j] \in 1..n /\ S[j].key = keys[perm[j]] /\ S[j].index = w[perm[j]]
    BY <1>15, <1>18
  <2>2. S[i].key = S[j].key => perm[i] = perm[j]
    BY <1>8, <2>1
  <2>3. i < j => w[perm[i]] <= w[perm[j]]
    BY <1>15
  <2> QED
    BY <1>15, <2>1, <2>2, <2>3
<1>21. ASSUME Len(Index) <= ScanLimit, NEW k \in A PROVE \E i \in 1..n : S[i].key = k
  <2>1. PICK p \in 1..n : keys[p] = k
    BY <1>5, <1>21 DEF n
  <2>2. PICK i \in 1..n : perm[i] = p
    BY <1>15
  <2> QED
    BY <1>18, <2>1, <2>2
<1>22. GoodSegments(S, A)
  BY <1>17, <1>19, <1>20, <1>21 DEF GoodSegments
<1> QED
  BY <1>22 DEF S, A, P

\* An entry that is made of them is whole.
LEMMA WholeNow ==
  ASSUME TypeInv, HistoryInv, kind \in {"hls", "dash"},
         NEW v \in Seq(Nat), InitKey(arg.id, v) \in AtSomeTime, NEW type
  PROVE  Whole([variant |-> v, type |-> type, segments |-> DiscoverSegments(arg.id, v)])
<1> DEFINE S == DiscoverSegments(arg.id, v)
           A == {k \in objects : IsPrefix(VariantsOf(arg.id) \o v \o <<Slash, SegFile>>, k)}
           keys == [i \in 1..Len(S) |-> S[i].key]
           r == [variant |-> v, type |-> type, segments |-> S]
<1>1. objects \subseteq Keys /\ arg.id \in Seq(Nat)
  BY DEF TypeInv, Requests
<1>2. objects \subseteq AtSomeTime /\ Throughout \subseteq objects
  BY StayedIsStored
<1>3. GoodSegments(S, A)
  BY <1>1, SegmentsAre
<1>4. A \subseteq SegmentKeys(AtSomeTime, v) /\ SegmentKeys(Throughout, v) \subseteq A
  BY <1>2 DEF SegmentKeys
<1>a. r.segments = S /\ r.variant = v
  OBVIOUS
<1>b. S \in Seq(Segments)
  BY <1>3 DEF GoodSegments
<1> HIDE DEF S, A, r
<1>5. Len(S) \in Nat /\ DOMAIN keys = 1..Len(S) /\ Len(keys) = Len(S)
  BY <1>3 DEF GoodSegments
<1>6. \A i \in 1..Len(S) : keys[i] = S[i].key
  OBVIOUS
<1>7. IsInjective(keys)
  BY <1>3, <1>5, <1>6 DEF GoodSegments, IsInjective
<1>8. Len(Index) <= ScanLimit => SegmentKeys(Throughout, v) \subseteq Range(keys)
  BY <1>3, <1>4, <1>5, <1>6 DEF GoodSegments, Range
<1>9. Range(keys) \subseteq SegmentKeys(AtSomeTime, v)
  BY <1>3, <1>4, <1>5, <1>6 DEF GoodSegments, Range
<1>10. ASSUME \A k \in Range(keys) : Agrees(k), NEW i \in 1..Len(S), NEW j \in 1..Len(S), i < j
       PROVE  NumberOf(keys[i]) <= NumberOf(keys[j])
  <2>1. Agrees(S[i].key) /\ Agrees(S[j].key)
    BY <1>5, <1>6, <1>10 DEF Range
  <2>2. S[i].index = NumberOf(S[i].key) /\ S[j].index = NumberOf(S[j].key) /\ S[i].index <= S[j].index
    BY <1>3, <1>10, <2>1 DEF GoodSegments
  <2> QED
    BY <1>6, <2>2
<1>11. /\ IsInjective(keys)
       /\ Len(Index) <= ScanLimit => SegmentKeys(Throughout, v) \subseteq Range(keys)
       /\ Range(keys) \subseteq SegmentKeys(AtSomeTime, v)
       /\ (\A k \in Range(keys) : Agrees(k)) =>
            \A i, j \in 1..Len(keys) : i < j => NumberOf(keys[i]) <= NumberOf(keys[j])
  BY <1>5, <1>7, <1>8, <1>9, <1>10
<1>12. Whole(r)
  BY <1>a, <1>b, <1>11 DEF Whole
<1> QED
  BY <1>12 DEF r, S

\* What is whole is so after a step that only takes another entry.
LEMMA WholeStays ==
  ASSUME UNCHANGED <<storeVars, requestVars>>, NEW r, Whole(r)
  PROVE  Whole(r)'
<1>1. start' = start /\ put' = put /\ lost' = lost /\ arg' = arg
  BY DEF storeVars, requestVars
<1>2. AtSomeTime' = AtSomeTime /\ Throughout' = Throughout
  BY <1>1 DEF AtSomeTime, Throughout
<1>3. \A v : SegmentKeys(Throughout, v)' = SegmentKeys(Throughout, v)
             /\ SegmentKeys(AtSomeTime, v)' = SegmentKeys(AtSomeTime, v)
  BY <1>1, <1>2 DEF SegmentKeys
<1> QED
  BY <1>1, <1>2, <1>3 DEF Whole

-----------------------------------------------------------------------------
(* Variants *)

\* The file of a key is "init.mp4".
LEMMA InitIs ==
  ASSUME NEW k \in Seq(Nat)
  PROVE  IsInit(k) <=> Len(k) >= 2 /\ k[Len(k) - 1] = Slash /\ k[Len(k)] = InitFile
<1> DEFINE e == <<Slash, InitFile>>
           re == Reverse(e)
           rk == Reverse(k)
<1>1. e \in Seq(Nat) /\ Len(e) = 2 /\ e[1] = Slash /\ e[2] = InitFile
  BY StreamTokens
<1> HIDE DEF e
<1>2. re \in Seq(Nat) /\ Len(re) = 2 /\ re[1] = InitFile /\ re[2] = Slash
  <2>1. re = [i \in 1..2 |-> e[(2 - i) + 1]]
    BY <1>1 DEF Reverse
  <2>2. re[1] = InitFile /\ re[2] = Slash
    BY <1>1, <2>1
  <2>3. \A i \in 1..2 : i = 1 \/ i = 2
    OBVIOUS
  <2>a. Slash \in Nat /\ InitFile \in Nat
    BY StreamTokens
  <2>b. DOMAIN re = 1..2 /\ re = [i \in 1..2 |-> re[i]]
    BY <2>1
  <2> HIDE DEF re
  <2>c. \A i \in 1..2 : re[i] \in Nat
    BY <2>2, <2>3, <2>a
  <2>4. re \in Seq(Nat) /\ Len(re) = 2
    <3> DEFINE two == 2
    <3>1. re \in [1..two -> Nat] /\ two \in Nat
      BY <2>b, <2>c
    <3> HIDE DEF two
    <3>2. re \in Seq(Nat) /\ Len(re) = two
      BY <3>1
    <3> QED
      BY <3>2 DEF two
  <2> QED
    BY <2>2, <2>4
<1>3. rk \in Seq(Nat) /\ Len(rk) = Len(k) /\ \A i \in 1..Len(k) : rk[i] = k[(Len(k) - i) + 1]
  <2>1. rk = [i \in 1..Len(k) |-> k[(Len(k) - i) + 1]] /\ Len(k) \in Nat
    BY DEF Reverse
  <2>2. \A i \in 1..Len(k) : k[(Len(k) - i) + 1] \in Nat
    BY <2>1
  <2>3. rk \in [1..Len(k) -> Nat]
    BY <2>1, <2>2
  <2> HIDE DEF rk
  <2>4. rk \in Seq(Nat) /\ Len(rk) = Len(k)
    BY <2>1, <2>3
  <2> QED
    BY <2>1, <2>4
<1>4. IsInit(k) <=> IsPrefix(re, rk)
  BY DEF IsInit, IsSuffix, e
<1> HIDE DEF re, rk
<1>5. IsPrefix(re, rk) <=> Len(re) <= Len(rk) /\ \A i \in 1..Len(re) : rk[i] = re[i]
  BY <1>2, <1>3, PrefixIs
<1>6. IsInit(k) <=> 2 <= Len(k) /\ \A i \in 1..2 : rk[i] = re[i]
  BY <1>2, <1>3, <1>4, <1>5
<1>7. (\A i \in 1..2 : rk[i] = re[i]) <=> rk[1] = InitFile /\ rk[2] = Slash
  BY <1>2
<1>8. Len(k) \in Nat /\ (2 <= Len(k) => rk[1] = k[Len(k)] /\ rk[2] = k[Len(k) - 1])
  <2>1. Len(k) \in Nat
    OBVIOUS
  <2>2. ASSUME 2 <= Len(k) PROVE rk[1] = k[Len(k)] /\ rk[2] = k[Len(k) - 1]
    <3>1. 1 \in 1..Len(k) /\ 2 \in 1..Len(k) /\ (Len(k) - 1) + 1 = Len(k) /\ (Len(k) - 2) + 1 = Len(k) - 1
      BY <2>1, <2>2
    <3>2. rk[1] = k[(Len(k) - 1) + 1] /\ rk[2] = k[(Len(k) - 2) + 1]
      BY <1>3, <3>1
    <3> QED
      BY <3>1, <3>2
  <2> QED
    BY <2>1, <2>2
<1> QED
  BY <1>6, <1>7, <1>8

\* What is left of such a key between the folder and the file is a variant.
LEMMA VariantOfIs ==
  ASSUME NEW P \in Seq(Nat), NEW k \in Seq(Nat), IsPrefix(P, k), IsInit(k), Len(k) >= Len(P) + 2
  PROVE  /\ SubSeq(k, Len(P) + 1, Len(k) - 2) \in Seq(Nat)
         /\ P \o SubSeq(k, Len(P) + 1, Len(k) - 2) \o <<Slash, InitFile>> = k
<1> DEFINE a == Len(P)
           b == Len(k) - 2
           n == Len(k)
           e == <<Slash, InitFile>>
<1>1. a \in Nat /\ b \in Nat /\ n \in Nat /\ a <= b /\ b <= n /\ b + 2 = n /\ b + 1 = n - 1
  OBVIOUS
<1>2. SubSeq(k, 0 + 1, a) = P
  <2>1. \A i \in 1..a : k[i] = P[i]
    BY PrefixIs
  <2>2. /\ SubSeq(k, 0 + 1, a) \in Seq(Nat) /\ Len(SubSeq(k, 0 + 1, a)) = a - 0
        /\ \A i \in 1..(a - 0) : SubSeq(k, 0 + 1, a)[i] = k[0 + i]
    BY <1>1, PartIs, SMTT(40)
  <2> HIDE DEF a
  <2>3. a - 0 = a /\ \A i \in 1..a : 0 + i = i
    BY <1>1
  <2>4. \A i \in 1..a : SubSeq(k, 0 + 1, a)[i] = P[i]
    BY <2>1, <2>2, <2>3
  <2>5. Len(SubSeq(k, 0 + 1, a)) = Len(P)
    BY <2>2, <2>3 DEF a
  <2> QED
    BY <2>2, <2>4, <2>5, SeqEqual DEF a
<1>3. /\ SubSeq(k, b + 1, n) \in Seq(Nat) /\ Len(SubSeq(k, b + 1, n)) = n - b
      /\ \A i \in 1..(n - b) : SubSeq(k, b + 1, n)[i] = k[b + i]
  BY <1>1, PartIs
<1>4. SubSeq(k, b + 1, n) = e
  <2>1. k[n - 1] = Slash /\ k[n] = InitFile
    BY InitIs
  <2>2. e \in Seq(Nat) /\ Len(e) = 2 /\ e[1] = Slash /\ e[2] = InitFile
    BY StreamTokens
  <2> HIDE DEF b, n, e
  <2>3. n - b = 2 /\ 1 \in 1..(n - b) /\ 2 \in 1..(n - b)
    BY <1>1
  <2>4. SubSeq(k, b + 1, n)[1] = Slash /\ SubSeq(k, b + 1, n)[2] = InitFile
    BY <1>1, <1>3, <2>1, <2>3
  <2>a. \A i \in 1..2 : i = 1 \/ i = 2
    OBVIOUS
  <2>b. SubSeq(k, b + 1, n)[1] = e[1] /\ SubSeq(k, b + 1, n)[2] = e[2]
    BY <2>2, <2>4
  <2>5. \A i \in 1..2 : SubSeq(k, b + 1, n)[i] = e[i]
    BY <2>a, <2>b
  <2>6. Len(SubSeq(k, b + 1, n)) = Len(e)
    BY <1>3, <2>2, <2>3
  <2> QED
    <3> DEFINE last == SubSeq(k, b + 1, n)
    <3>1. last \in Seq(Nat) /\ e \in Seq(Nat) /\ Len(last) = Len(e)
      BY <1>3, <2>2, <2>6
    <3>2. \A i \in 1..Len(e) : last[i] = e[i]
      BY <2>2, <2>5
    <3> HIDE DEF last
    <3>3. last = e
      BY <3>1, <3>2, SeqEqual
    <3> QED
      BY <3>3 DEF last
<1>5. /\ SubSeq(k, 0 + 1, a) \o SubSeq(k, a + 1, b) = SubSeq(k, 0 + 1, b)
      /\ SubSeq(k, 0 + 1, b) \o SubSeq(k, b + 1, n) = SubSeq(k, 0 + 1, n)
  <2> DEFINE z == 0
  <2>1. /\ z \in Nat /\ a \in Nat /\ b \in Nat /\ n \in Nat
        /\ z <= a /\ a <= b /\ z <= b /\ b <= n /\ b <= Len(k) /\ n <= Len(k)
    BY <1>1
  <2> HIDE DEF z, a, b, n
  <2>2. SubSeq(k, z + 1, a) \o SubSeq(k, a + 1, b) = SubSeq(k, z + 1, b)
    BY <2>1, PartsJoin
  <2>3. SubSeq(k, z + 1, b) \o SubSeq(k, b + 1, n) = SubSeq(k, z + 1, n)
    BY <2>1, PartsJoin
  <2> QED
    BY <2>2, <2>3 DEF z
<1>7. SubSeq(k, 0 + 1, n) = k
  <2>1. 0 \in Nat /\ 0 <= n
    BY <1>1
  <2>2. /\ SubSeq(k, 0 + 1, n) \in Seq(Nat) /\ Len(SubSeq(k, 0 + 1, n)) = n - 0
        /\ \A i \in 1..(n - 0) : SubSeq(k, 0 + 1, n)[i] = k[0 + i]
    BY <1>1, <2>1, PartIs
  <2> HIDE DEF n
  <2>3. n - 0 = n /\ \A i \in 1..n : 0 + i = i
    BY <1>1
  <2>4. Len(SubSeq(k, 0 + 1, n)) = Len(k) /\ \A i \in 1..n : SubSeq(k, 0 + 1, n)[i] = k[i]
    BY <2>2, <2>3 DEF n
  <2> QED
    BY <2>2, <2>4, SeqEqual DEF n
<1>8. SubSeq(k, a + 1, b) \in Seq(Nat)
  BY <1>1, PartIs
<1> QED
  BY <1>2, <1>4, <1>5, <1>7, <1>8

\* The key of a variant's init file is such a key.
LEMMA InitKeyIs ==
  ASSUME NEW P \in Seq(Nat), NEW v \in Seq(Nat), NEW k, k = P \o v \o <<Slash, InitFile>>
  PROVE  /\ k \in Seq(Nat) /\ IsPrefix(P, k) /\ IsInit(k) /\ Len(k) >= Len(P) + 2
         /\ SubSeq(k, Len(P) + 1, Len(k) - 2) = v
<1> DEFINE e == <<Slash, InitFile>>
           h == P \o v
<1>1. e \in Seq(Nat) /\ Len(e) = 2 /\ e[1] = Slash /\ e[2] = InitFile
  BY StreamTokens
<1>a. k = h \o e
  OBVIOUS
<1> HIDE DEF e
<1>2. /\ h \in Seq(Nat) /\ Len(h) = Len(P) + Len(v) /\ Len(P) \in Nat /\ Len(v) \in Nat
      /\ \A i \in 1..(Len(P) + Len(v)) : h[i] = IF i <= Len(P) THEN P[i] ELSE v[i - Len(P)]
  BY ConcatProperties
<1> HIDE DEF h
<1>3. /\ k \in Seq(Nat) /\ Len(k) = Len(h) + Len(e)
      /\ \A i \in 1..(Len(h) + Len(e)) : k[i] = IF i <= Len(h) THEN h[i] ELSE e[i - Len(h)]
  <2>1. /\ h \o e \in Seq(Nat) /\ Len(h \o e) = Len(h) + Len(e)
        /\ \A i \in 1..(Len(h) + Len(e)) : (h \o e)[i] = IF i <= Len(h) THEN h[i] ELSE e[i - Len(h)]
    <3>1. h \in Seq(Nat) /\ e \in Seq(Nat)
      BY <1>1, <1>2
    <3> QED
      BY <3>1, ConcatProperties
  <2> QED
    BY <2>1, <1>a
<1> DEFINE p == Len(P)
           m == Len(v)
<1>4. p \in Nat /\ m \in Nat /\ Len(h) = p + m /\ Len(k) = p + m + 2 /\ Len(e) = 2
  BY <1>1, <1>2, <1>3
<1>5. \A i \in 1..p : k[i] = P[i]
  <2> SUFFICES ASSUME NEW i \in 1..p PROVE k[i] = P[i]
    OBVIOUS
  <2>1. i \in 1..(Len(h) + Len(e)) /\ i <= Len(h) /\ i \in 1..(Len(P) + Len(v)) /\ i <= Len(P)
    BY <1>4
  <2> QED
    BY <1>2, <1>3, <2>1
<1>6. \A i \in 1..m : k[p + i] = v[i]
  <2> SUFFICES ASSUME NEW i \in 1..m PROVE k[p + i] = v[i]
    OBVIOUS
  <2>1. /\ p + i \in 1..(Len(h) + Len(e)) /\ p + i <= Len(h) /\ p + i \in 1..(Len(P) + Len(v))
        /\ ~(p + i <= Len(P)) /\ (p + i) - Len(P) = i
    BY <1>4
  <2>2. k[p + i] = h[p + i]
    BY <1>3, <2>1
  <2>3. h[p + i] = v[(p + i) - Len(P)]
    BY <1>2, <2>1
  <2> QED
    BY <2>1, <2>2, <2>3
<1>7. k[p + m + 1] = Slash /\ k[p + m + 2] = InitFile
  <2>1. /\ p + m + 1 \in 1..(Len(h) + Len(e)) /\ ~(p + m + 1 <= Len(h)) /\ (p + m + 1) - Len(h) = 1
        /\ p + m + 2 \in 1..(Len(h) + Len(e)) /\ ~(p + m + 2 <= Len(h)) /\ (p + m + 2) - Len(h) = 2
    BY <1>4
  <2>2. k[p + m + 1] = e[(p + m + 1) - Len(h)] /\ k[p + m + 2] = e[(p + m + 2) - Len(h)]
    BY <1>3, <2>1
  <2> QED
    BY <1>1, <2>1, <2>2
<1>8. IsPrefix(P, k)
  <2>1. Len(P) <= Len(k) /\ \A i \in 1..Len(P) : k[i] = P[i]
    BY <1>4, <1>5
  <2> QED
    BY <1>3, <2>1, PrefixIs
<1>9. IsInit(k)
  <2>1. Len(k) >= 2 /\ Len(k) - 1 = p + m + 1 /\ Len(k) = p + m + 2
    BY <1>4
  <2>2. Len(k) >= 2 /\ k[Len(k) - 1] = Slash /\ k[Len(k)] = InitFile
    BY <1>7, <2>1
  <2> QED
    BY <1>3, <2>2, InitIs
<1>10. SubSeq(k, p + 1, p + m) = v
  <2> DEFINE b == p + m
  <2>1. b \in Nat /\ p <= b /\ b <= Len(k) /\ b - p = m /\ m = Len(v) /\ p \in Nat
    BY <1>4
  <2> HIDE DEF p, m, b
  <2>2. /\ SubSeq(k, p + 1, b) \in Seq(Nat) /\ Len(SubSeq(k, p + 1, b)) = b - p
        /\ \A i \in 1..(b - p) : SubSeq(k, p + 1, b)[i] = k[p + i]
    BY <1>3, <2>1, PartIs, ZenonT(60)
  <2>3. Len(SubSeq(k, p + 1, b)) = m /\ \A i \in 1..m : SubSeq(k, p + 1, b)[i] = v[i]
    BY <1>6, <2>1, <2>2
  <2>4. SubSeq(k, p + 1, b) = v
    BY <2>1, <2>2, <2>3, SeqEqual
  <2> QED
    BY <2>4 DEF b
<1>11. Len(k) - 2 = p + m /\ Len(k) >= p + 2
  BY <1>4
<1> QED
  BY <1>3, <1>8, <1>9, <1>10, <1>11

\* V lists variants whose init files are stored, with their types, all if the
\* index is not too long.
GoodVariants(V, id) ==
  /\ V \in Seq(Range(V))
  /\ \A i \in 1..Len(V) : /\ V[i].variant \in Seq(Nat) /\ InitKey(id, V[i].variant) \in objects
                          /\ V[i].type = Meta[InitKey(id, V[i].variant)].type
  /\ Len(Index) <= VariantScan =>
       \A v \in Seq(Nat) : InitKey(id, v) \in objects => \E i \in 1..Len(V) : V[i].variant = v

\* What discover_variants finds.
LEMMA VariantsAre ==
  ASSUME objects \subseteq Keys, NEW id \in Seq(Nat)
  PROVE  GoodVariants(DiscoverVariants(id), id)
<1> DEFINE P == VariantsOf(id)
           A == {k \in objects : IsPrefix(P, k)}
           l == List(P, VariantScan, None)
           read == l.page
           T == {k \in Range(read) : IsInit(k) /\ Len(k) >= Len(P) + 2}
           keys == Kept(read, T)
           n == Len(keys)
           One(i) == [variant |-> SubSeq(keys[i], Len(P) + 1, Len(keys[i]) - 2),
                      bandwidth |-> Meta[keys[i]].bandwidth, type |-> Meta[keys[i]].type]
           vs == [i \in 1..n |-> One(i)]
           before == {p \in (DOMAIN vs) \X (DOMAIN vs) : vs[p[1]].bandwidth > vs[p[2]].bandwidth}
           w == [i \in 1..n |-> 0 - Meta[keys[i]].bandwidth]
           V == DiscoverVariants(id)
<1>1. P \in Seq(Nat) /\ VariantScan \in Nat /\ None \in Seq(Nat)
  <2>1. VariantScan \in Nat
    BY StreamTokens
  <2> QED
    BY <2>1, VariantsOfIs, EmptySeq DEF None
<1>2. V = StableSort(vs, before)
  BY DEF DiscoverVariants
<1>k. \A v : InitKey(id, v) = P \o v \o <<Slash, InitFile>>
  BY DEF InitKey
<1> HIDE DEF P, V
<1>3. Ahead(P, None) = A
  BY DEF Ahead
<1>4. GoodPage(l, A, VariantScan)
  BY <1>1, <1>3, ListIs
<1>5. Len(Index) <= VariantScan => \A k \in A : \E i \in 1..Len(read) : read[i] = k
  <2> SUFFICES ASSUME Len(Index) <= VariantScan PROVE \A k \in A : \E i \in 1..Len(read) : read[i] = k
    OBVIOUS
  <2> HIDE DEF A
  <2>1. \A k \in Ahead(P, None) : \E i \in 1..Len(List(P, VariantScan, None).page) : List(P, VariantScan, None).page[i] = k
    BY <1>1, ListsAll
  <2> QED
    BY <2>1, <1>3
<1>a. A \subseteq objects /\ \A k \in objects : k \in A <=> IsPrefix(P, k)
  OBVIOUS
<1> HIDE DEF A, l
<1>6. read \in Seq(A) /\ A \subseteq Keys
  BY <1>4 DEF GoodPage
<1> HIDE DEF read
<1>b. \A k : k \in Range(read) <=> \E i \in 1..Len(read) : read[i] = k
  BY <1>6, RangeIs
<1>c. \A k : k \in T <=> k \in Range(read) /\ IsInit(k) /\ Len(k) >= Len(P) + 2
  OBVIOUS
<1> HIDE DEF T
<1>7. /\ keys \in Seq(A)
      /\ \A j \in 1..n : keys[j] \in T
      /\ \A a \in 1..Len(read) : read[a] \in T => \E j \in 1..n : keys[j] = read[a]
  <2> DEFINE R == {<<read[a], read[b]>> : a \in 1..Len(read), b \in 1..Len(read)}
  <2>1. \A a, b \in 1..Len(read) : a < b => <<read[a], read[b]>> \in R
    OBVIOUS
  <2> HIDE DEF R
  <2>2. read \in Seq(A)
    BY <1>6
  <2>3. /\ Kept(read, T) \in Seq(A)
        /\ \A j \in 1..Len(Kept(read, T)) : Kept(read, T)[j] \in T /\ \E a \in 1..Len(read) : Kept(read, T)[j] = read[a]
        /\ \A a \in 1..Len(read) : read[a] \in T => \E j \in 1..Len(Kept(read, T)) : Kept(read, T)[j] = read[a]
        /\ \A j, k \in 1..Len(Kept(read, T)) : j < k => <<Kept(read, T)[j], Kept(read, T)[k]>> \in R
    BY <2>1, <2>2, KeptIs, Zenon
  <2> QED
    BY <2>3
<1> HIDE DEF keys
<1>8. \A k \in T : k \in Range(read)
  BY <1>c
<1>9. \A i \in 1..n : /\ keys[i] \in A /\ keys[i] \in objects /\ keys[i] \in Keys /\ keys[i] \in Seq(Nat)
                      /\ IsInit(keys[i]) /\ Len(keys[i]) >= Len(P) + 2 /\ IsPrefix(P, keys[i])
  <2> SUFFICES ASSUME NEW i \in 1..n
               PROVE  /\ keys[i] \in A /\ keys[i] \in objects /\ keys[i] \in Keys /\ keys[i] \in Seq(Nat)
                      /\ IsInit(keys[i]) /\ Len(keys[i]) >= Len(P) + 2 /\ IsPrefix(P, keys[i])
    OBVIOUS
  <2>1. keys[i] \in A /\ keys[i] \in T
    BY <1>7
  <2>2. keys[i] \in objects /\ keys[i] \in Keys
    BY <2>1, <1>6, <1>a
  <2> QED
    BY <2>1, <2>2, <1>a, <1>c, IndexIs
<1>n. n \in Nat
  BY <1>7
<1> HIDE DEF n
<1>10. Len(vs) = n /\ DOMAIN vs = 1..n
  <2> HIDE DEF One
  <2> QED
    BY <1>n
<1>11. \A i \in 1..n : /\ vs[i].variant = SubSeq(keys[i], Len(P) + 1, Len(keys[i]) - 2)
                       /\ vs[i].bandwidth = Meta[keys[i]].bandwidth /\ vs[i].type = Meta[keys[i]].type
  OBVIOUS
<1> HIDE DEF vs, One
<1>12. \A i \in 1..n : Meta[keys[i]].bandwidth \in Nat /\ w[i] = 0 - Meta[keys[i]].bandwidth
  BY <1>9, StreamNumbers
<1>13. w \in [1..n -> Int]
  BY <1>12
<1> HIDE DEF w
<1>14. \A i, j \in 1..n : <<i, j>> \in before <=> w[i] < w[j]
  <2> SUFFICES ASSUME NEW i \in 1..n, NEW j \in 1..n PROVE <<i, j>> \in before <=> w[i] < w[j]
    OBVIOUS
  <2>1. <<i, j>> \in before <=> Meta[keys[i]].bandwidth > Meta[keys[j]].bandwidth
    BY <1>10, <1>11
  <2> HIDE DEF before
  <2> QED
    BY <1>12, <2>1
<1> HIDE DEF before
<1>15. PICK perm : Sorts(perm, n, w) /\ Rearranged(vs, perm, n, StableSort(vs, before))
  BY <1>n, <1>10, <1>13, <1>14, StableSortIs
<1>16. /\ \A i \in 1..n : perm[i] \in 1..n
       /\ \A p \in 1..n : \E i \in 1..n : perm[i] = p
  BY <1>15 DEF Sorts
<1>17. V = [i \in 1..n |-> vs[perm[i]]]
  BY <1>2, <1>15 DEF Rearranged
<1>18. V \in Seq(Range(V)) /\ Len(V) = n
  <2>1. DOMAIN V = 1..n /\ \A i \in 1..n : V[i] \in Range(V)
    BY <1>17 DEF Range
  <2>2. V \in [1..n -> Range(V)]
    BY <1>17, <2>1
  <2> QED
    BY <1>n, <2>2
<1>19. \A k \in Seq(Nat) : IsPrefix(P, k) /\ IsInit(k) /\ Len(k) >= Len(P) + 2 =>
          /\ SubSeq(k, Len(P) + 1, Len(k) - 2) \in Seq(Nat)
          /\ InitKey(id, SubSeq(k, Len(P) + 1, Len(k) - 2)) = k
  <2> SUFFICES ASSUME NEW k \in Seq(Nat), IsPrefix(P, k), IsInit(k), Len(k) >= Len(P) + 2
               PROVE  /\ SubSeq(k, Len(P) + 1, Len(k) - 2) \in Seq(Nat)
                      /\ InitKey(id, SubSeq(k, Len(P) + 1, Len(k) - 2)) = k
    OBVIOUS
  <2>1. P \in Seq(Nat)
    BY <1>1
  <2>2. /\ SubSeq(k, Len(P) + 1, Len(k) - 2) \in Seq(Nat)
        /\ P \o SubSeq(k, Len(P) + 1, Len(k) - 2) \o <<Slash, InitFile>> = k
    BY <2>1, VariantOfIs
  <2> QED
    BY <1>k, <2>2
<1>20. ASSUME NEW i \in 1..n
       PROVE  /\ V[i].variant \in Seq(Nat) /\ InitKey(id, V[i].variant) \in objects
              /\ V[i].type = Meta[InitKey(id, V[i].variant)].type
  <2> DEFINE k == keys[perm[i]]
  <2>1. perm[i] \in 1..n /\ V[i] = vs[perm[i]]
    BY <1>16, <1>17
  <2>2. /\ k \in objects /\ k \in Seq(Nat) /\ IsInit(k) /\ Len(k) >= Len(P) + 2 /\ IsPrefix(P, k)
        /\ V[i].variant = SubSeq(k, Len(P) + 1, Len(k) - 2) /\ V[i].type = Meta[k].type
    BY <1>9, <1>11, <2>1
  <2> HIDE DEF k
  <2>3. V[i].variant \in Seq(Nat) /\ InitKey(id, V[i].variant) = k
    BY <1>19, <2>2
  <2> QED
    BY <2>2, <2>3
<1>21. ASSUME Len(Index) <= VariantScan, NEW v \in Seq(Nat), InitKey(id, v) \in objects
       PROVE  \E i \in 1..n : V[i].variant = v
  <2> DEFINE k == InitKey(id, v)
  <2>1. k = P \o v \o <<Slash, InitFile>> /\ k \in objects
    BY <1>k, <1>21
  <2> HIDE DEF k
  <2>2. /\ IsPrefix(P, k) /\ IsInit(k) /\ Len(k) >= Len(P) + 2
        /\ SubSeq(k, Len(P) + 1, Len(k) - 2) = v
    BY <1>1, <2>1, InitKeyIs
  <2>3. PICK a \in 1..Len(read) : read[a] = k
    BY <1>5, <1>21, <1>a, <2>1, <2>2
  <2>4. k \in T
    BY <1>b, <1>c, <2>2, <2>3
  <2>5. PICK p \in 1..n : keys[p] = k
    BY <1>7, <2>3, <2>4 DEF n
  <2>6. PICK i \in 1..n : perm[i] = p
    BY <1>16
  <2>7. V[i] = vs[p] /\ vs[p].variant = v
    BY <1>11, <1>17, <2>2, <2>5, <2>6
  <2> QED
    BY <2>7
<1>22. GoodVariants(V, id)
  BY <1>18, <1>20, <1>21 DEF GoodVariants
<1> QED
  BY <1>22 DEF V

-----------------------------------------------------------------------------
(* The master playlist *)

\* The variants of one type.
LEMMA OfTypeIs ==
  ASSUME NEW vs, vs \in Seq(Range(vs)), NEW type
  PROVE  /\ OfType(vs, type) \in Seq(Range(vs))
         /\ \A a \in 1..Len(vs) : vs[a].type = type => \E j \in 1..Len(OfType(vs, type)) : OfType(vs, type)[j] = vs[a]
<1> DEFINE T == {v \in Range(vs) : v.type = type}
           R == {<<vs[a], vs[b]>> : a \in 1..Len(vs), b \in 1..Len(vs)}
           S == Range(vs)
<1>1. OfType(vs, type) = Kept(vs, T)
  BY DEF OfType
<1>2. \A a, b \in 1..Len(vs) : a < b => <<vs[a], vs[b]>> \in R
  OBVIOUS
<1>3. \A a \in 1..Len(vs) : vs[a].type = type => vs[a] \in T
  BY RangeIs
<1>4. vs \in Seq(S)
  OBVIOUS
<1> HIDE DEF T, R, S
<1>5. /\ Kept(vs, T) \in Seq(S)
      /\ \A j \in 1..Len(Kept(vs, T)) : Kept(vs, T)[j] \in T /\ \E a \in 1..Len(vs) : Kept(vs, T)[j] = vs[a]
      /\ \A a \in 1..Len(vs) : vs[a] \in T => \E j \in 1..Len(Kept(vs, T)) : Kept(vs, T)[j] = vs[a]
      /\ \A j, k \in 1..Len(Kept(vs, T)) : j < k => <<Kept(vs, T)[j], Kept(vs, T)[k]>> \in R
  BY <1>2, <1>4, KeptIs, Zenon
<1>6. \A a \in 1..Len(vs) : vs[a].type = type => \E j \in 1..Len(Kept(vs, T)) : Kept(vs, T)[j] = vs[a]
  BY <1>3, <1>5
<1>7. Kept(vs, T) \in Seq(Range(vs))
  BY <1>5 DEF S
<1> QED
  BY <1>1, <1>6, <1>7

\* One entry for each of them.
LEMMA EntriesAre ==
  ASSUME NEW S, NEW vs \in Seq(S), NEW tag, NEW groups
  PROVE  /\ Entries(tag, vs, groups) \in Seq(Range(Entries(tag, vs, groups)))
         /\ Len(Entries(tag, vs, groups)) = Len(vs)
         /\ \A i \in 1..Len(vs) : /\ Entries(tag, vs, groups)[i].tag = tag
                                  /\ Entries(tag, vs, groups)[i].variant = vs[i].variant
                                  /\ Entries(tag, vs, groups)[i].groups = groups
<1> DEFINE E == Entries(tag, vs, groups)
           n == Len(vs)
<1>1. E = [i \in 1..n |-> [tag |-> tag, variant |-> vs[i].variant, groups |-> groups]]
  BY DEF Entries
<1>2. n \in Nat
  OBVIOUS
<1> HIDE DEF E, n
<1>3. \A i \in 1..n : E[i].tag = tag /\ E[i].variant = vs[i].variant /\ E[i].groups = groups
  BY <1>1
<1>4. DOMAIN E = 1..n /\ \A i \in 1..n : E[i] \in Range(E)
  BY <1>1 DEF Range
<1>5. E = [i \in 1..n |-> E[i]]
  BY <1>1, <1>4
<1>6. E \in [1..n -> Range(E)]
  BY <1>4, <1>5
<1>7. E \in Seq(Range(E)) /\ Len(E) = n
  BY <1>2, <1>6
<1> QED
  BY <1>3, <1>7 DEF E, n

\* M has all of vs, and the groups its entries name before them.
GoodMaster(M, vs) ==
  /\ \A a \in 1..Len(vs) : vs[a].type \in {"video", "audio", "subtitle"} =>
        \E i \in 1..Len(M) : M[i].variant = vs[a].variant
  /\ \A i \in 1..Len(M) : \A g \in M[i].groups : \E j \in 1..(i - 1) : M[j].tag = g
  /\ M \in Seq(Range(M))

\* Such is the master playlist.
LEMMA MasterEntriesAre ==
  ASSUME NEW vs, vs \in Seq(Range(vs))
  PROVE  GoodMaster(MasterEntries(vs), vs)
<1> DEFINE audio == OfType(vs, "audio")
           subs  == OfType(vs, "subtitle")
           video == OfType(vs, "video")
           groups == (IF audio # <<>> THEN {"audio"} ELSE {}) \cup (IF subs # <<>> THEN {"subs"} ELSE {})
           A == Entries("audio", audio, {})
           B == Entries("subs", subs, {})
           C == Entries("stream", video, groups)
           D == IF video = <<>> THEN Entries("stream", audio, {}) ELSE <<>>
           M == MasterEntries(vs)
           T == Range(vs)
<1>1. M = A \o B \o C \o D
  BY DEF MasterEntries
<1> HIDE DEF M
<1>2. /\ audio \in Seq(T)
      /\ \A a \in 1..Len(vs) : vs[a].type = "audio" => \E j \in 1..Len(audio) : audio[j] = vs[a]
  BY OfTypeIs
<1>3. /\ subs \in Seq(T)
      /\ \A a \in 1..Len(vs) : vs[a].type = "subtitle" => \E j \in 1..Len(subs) : subs[j] = vs[a]
  BY OfTypeIs
<1>4. /\ video \in Seq(T)
      /\ \A a \in 1..Len(vs) : vs[a].type = "video" => \E j \in 1..Len(video) : video[j] = vs[a]
  BY OfTypeIs
<1>5. \A g \in groups : (g = "audio" /\ audio # <<>>) \/ (g = "subs" /\ subs # <<>>)
  OBVIOUS
<1> HIDE DEF audio, subs, video, groups, T
<1>6. /\ A \in Seq(Range(A)) /\ Len(A) = Len(audio)
      /\ \A i \in 1..Len(audio) : A[i].tag = "audio" /\ A[i].variant = audio[i].variant /\ A[i].groups = {}
  BY <1>2, EntriesAre
<1>7. /\ B \in Seq(Range(B)) /\ Len(B) = Len(subs)
      /\ \A i \in 1..Len(subs) : B[i].tag = "subs" /\ B[i].variant = subs[i].variant /\ B[i].groups = {}
  BY <1>3, EntriesAre
<1>8. /\ C \in Seq(Range(C)) /\ Len(C) = Len(video)
      /\ \A i \in 1..Len(video) : C[i].tag = "stream" /\ C[i].variant = video[i].variant /\ C[i].groups = groups
  BY <1>4, EntriesAre
<1>9. D \in Seq(Range(D)) /\ \A i \in 1..Len(D) : D[i].groups = {}
  <2>1. CASE video = <<>>
    <3>1. /\ Entries("stream", audio, {}) \in Seq(Range(Entries("stream", audio, {})))
          /\ Len(Entries("stream", audio, {})) = Len(audio)
          /\ \A i \in 1..Len(audio) : /\ Entries("stream", audio, {})[i].tag = "stream"
                                      /\ Entries("stream", audio, {})[i].variant = audio[i].variant
                                      /\ Entries("stream", audio, {})[i].groups = {}
      BY <1>2, EntriesAre
    <3>2. D = Entries("stream", audio, {})
      BY <2>1
    <3> QED
      BY <3>1, <3>2
  <2>2. CASE video # <<>>
    <3>1. D = <<>>
      BY <2>2
    <3>2. <<>> \in Seq(Range(D)) /\ Len(<<>>) = 0
      BY EmptySeq
    <3> HIDE DEF D
    <3> QED
      BY <3>1, <3>2
  <2> QED
    BY <2>1, <2>2
<1> HIDE DEF A, B, C, D
<1> DEFINE S == Range(A) \cup Range(B) \cup Range(C) \cup Range(D)
           AB == A \o B
           ABC == AB \o C
<1>10. A \in Seq(S) /\ B \in Seq(S) /\ C \in Seq(S) /\ D \in Seq(S)
  <2>1. Range(A) \subseteq S /\ Range(B) \subseteq S /\ Range(C) \subseteq S /\ Range(D) \subseteq S
    OBVIOUS
  <2> HIDE DEF S
  <2> QED
    BY <1>6, <1>7, <1>8, <1>9, <2>1, SeqMonotonic
<1>m. M = ABC \o D
  BY <1>1
<1> HIDE DEF S
<1>11. /\ AB \in Seq(S) /\ Len(AB) = Len(A) + Len(B)
       /\ \A i \in 1..Len(A) : i \in 1..Len(AB) /\ AB[i] = A[i]
       /\ \A j \in 1..Len(B) : Len(A) + j \in 1..Len(AB) /\ AB[Len(A) + j] = B[j]
       /\ \A i \in 1..Len(AB) : i \in 1..Len(A) \/ (i - Len(A) \in 1..Len(B) /\ i = Len(A) + (i - Len(A)))
  BY <1>10, JoinIs
<1> HIDE DEF AB
<1>12. /\ ABC \in Seq(S) /\ Len(ABC) = Len(AB) + Len(C)
       /\ \A i \in 1..Len(AB) : i \in 1..Len(ABC) /\ ABC[i] = AB[i]
       /\ \A j \in 1..Len(C) : Len(AB) + j \in 1..Len(ABC) /\ ABC[Len(AB) + j] = C[j]
       /\ \A i \in 1..Len(ABC) : i \in 1..Len(AB) \/ (i - Len(AB) \in 1..Len(C) /\ i = Len(AB) + (i - Len(AB)))
  BY <1>10, <1>11, JoinIs
<1> HIDE DEF ABC
<1>13. /\ M \in Seq(S) /\ Len(M) = Len(ABC) + Len(D)
       /\ \A i \in 1..Len(ABC) : i \in 1..Len(M) /\ M[i] = ABC[i]
       /\ \A i \in 1..Len(M) : \/ i \in 1..Len(ABC)
                               \/ i - Len(ABC) \in 1..Len(D) /\ i = Len(ABC) + (i - Len(ABC))
       /\ \A j \in 1..Len(D) : M[Len(ABC) + j] = D[j]
  <2>1. /\ ABC \o D \in Seq(S) /\ Len(ABC \o D) = Len(ABC) + Len(D)
        /\ \A i \in 1..Len(ABC) : i \in 1..Len(ABC \o D) /\ (ABC \o D)[i] = ABC[i]
        /\ \A j \in 1..Len(D) : Len(ABC) + j \in 1..Len(ABC \o D) /\ (ABC \o D)[Len(ABC) + j] = D[j]
        /\ \A i \in 1..Len(ABC \o D) : \/ i \in 1..Len(ABC)
                                       \/ (i - Len(ABC) \in 1..Len(D) /\ i = Len(ABC) + (i - Len(ABC)))
    BY <1>10, <1>12, JoinIs
  <2> QED
    BY <2>1, <1>m
<1>14. Len(A) \in Nat /\ Len(B) \in Nat /\ Len(C) \in Nat /\ Len(D) \in Nat
  BY <1>10
<1>15. \A i \in 1..Len(A) : i \in 1..Len(M) /\ M[i] = A[i]
  BY <1>11, <1>12, <1>13
<1>16. \A j \in 1..Len(B) : Len(A) + j \in 1..Len(M) /\ M[Len(A) + j] = B[j]
  BY <1>11, <1>12, <1>13
<1>17. \A j \in 1..Len(C) : Len(AB) + j \in 1..Len(M) /\ M[Len(AB) + j] = C[j]
  BY <1>12, <1>13
<1>18. ASSUME NEW a \in 1..Len(vs), vs[a].type \in {"video", "audio", "subtitle"}
       PROVE  \E i \in 1..Len(M) : M[i].variant = vs[a].variant
  <2>1. CASE vs[a].type = "audio"
    <3>1. PICK j \in 1..Len(audio) : audio[j] = vs[a]
      BY <1>2, <2>1
    <3> QED
      BY <1>6, <1>15, <3>1
  <2>2. CASE vs[a].type = "subtitle"
    <3>1. PICK j \in 1..Len(subs) : subs[j] = vs[a]
      BY <1>3, <2>2
    <3> QED
      BY <1>7, <1>16, <3>1
  <2>3. CASE vs[a].type = "video"
    <3>1. PICK j \in 1..Len(video) : video[j] = vs[a]
      BY <1>4, <2>3
    <3> QED
      BY <1>8, <1>17, <3>1
  <2> QED
    BY <1>18, <2>1, <2>2, <2>3
<1>19. ASSUME NEW i \in 1..Len(M), NEW g \in M[i].groups PROVE \E j \in 1..(i - 1) : M[j].tag = g
  <2>1. CASE i \in 1..Len(A)
    <3>1. M[i].groups = {}
      BY <1>6, <1>15, <2>1
    <3> QED
      BY <1>19, <3>1
  <2>2. CASE i \in 1..Len(AB) /\ i \notin 1..Len(A)
    <3>1. i - Len(A) \in 1..Len(B) /\ i = Len(A) + (i - Len(A))
      BY <1>11, <2>2
    <3>2. M[i] = B[i - Len(A)]
      BY <1>16, <3>1
    <3>3. M[i].groups = {}
      BY <1>7, <3>1, <3>2
    <3> QED
      BY <1>19, <3>3
  <2>3. CASE i \in 1..Len(ABC) /\ i \notin 1..Len(AB)
    <3>1. i - Len(AB) \in 1..Len(C) /\ i = Len(AB) + (i - Len(AB))
      BY <1>12, <2>3
    <3>2. M[i] = C[i - Len(AB)]
      BY <1>17, <3>1
    <3>3. g \in groups
      BY <1>8, <1>19, <3>1, <3>2
    <3>4. i \in Nat /\ i > Len(AB)
      BY <1>11, <1>14, <3>1
    <3>5. CASE g = "audio" /\ audio # <<>>
      <4>1. Len(audio) >= 1
        BY <1>2, <3>5
      <4>2. 1 \in 1..Len(A) /\ 1 \in 1..(i - 1)
        BY <1>6, <1>11, <1>14, <3>4, <4>1
      <4>3. M[1].tag = "audio"
        BY <1>6, <1>15, <4>2
      <4> QED
        BY <3>5, <4>2, <4>3
    <3>6. CASE g = "subs" /\ subs # <<>>
      <4>1. Len(subs) >= 1
        BY <1>3, <3>6
      <4>2. 1 \in 1..Len(B) /\ Len(A) + 1 \in 1..(i - 1)
        BY <1>7, <1>11, <1>14, <3>4, <4>1
      <4>3. M[Len(A) + 1].tag = "subs"
        <5>1. M[Len(A) + 1] = B[1]
          BY <1>16, <4>2
        <5>2. B[1].tag = "subs"
          BY <1>7, <4>2
        <5> QED
          BY <5>1, <5>2
      <4> QED
        BY <3>6, <4>2, <4>3
    <3> QED
      BY <1>5, <3>3, <3>5, <3>6
  <2>4. CASE i \notin 1..Len(ABC)
    <3>1. i - Len(ABC) \in 1..Len(D) /\ i = Len(ABC) + (i - Len(ABC))
      BY <1>13, <2>4
    <3>2. M[i] = D[i - Len(ABC)]
      BY <1>13, <3>1
    <3>3. M[i].groups = {}
      BY <1>9, <3>1, <3>2
    <3> QED
      BY <1>19, <3>3
  <2> QED
    BY <2>1, <2>2, <2>3, <2>4
<1>20. M \in Seq(Range(M))
  <2>1. DOMAIN M = 1..Len(M) /\ Len(M) \in Nat /\ \A i \in 1..Len(M) : M[i] \in Range(M)
    BY <1>13, SMTT(40) DEF Range
  <2> QED
    BY <1>13, <2>1, SeqOver
<1>21. GoodMaster(M, vs)
  BY <1>18, <1>19, <1>20 DEF GoodMaster
<1> QED
  BY <1>21 DEF M

-----------------------------------------------------------------------------
(* The steps of playlists *)

\* A step of one of these requests leaves what the others remember.
LEMMA PlaylistsKeep ==
  ASSUME TypeInv, FreshInv, HistoryInv, kind \in {"master", "hls", "dash"},
         UNCHANGED <<storeVars, requestVars>>, phase' \in Phases(kind),
         (phase' \in {"delete", "each"}) = (phase' \notin {"done", "page"} /\ todo' # <<>>)
  PROVE  TypeInv' /\ FreshInv' /\ HistoryInv' /\ MediaInv' /\ DeleteInv' /\ StreamsInv'
<1>1. /\ objects' = objects /\ changes' = changes /\ put' = put /\ lost' = lost
      /\ start' = start /\ kind' = kind /\ arg' = arg
  BY DEF storeVars, requestVars
<1>2. TypeInv'
  BY <1>1 DEF TypeInv
<1>3. FreshInv' /\ MediaInv' /\ DeleteInv' /\ StreamsInv'
  BY <1>1 DEF FreshInv, MediaInv, DeleteInv, StreamsInv
<1>4. AtSomeTime' = AtSomeTime
  BY <1>1 DEF AtSomeTime
<1>5. HistoryInv'
  BY <1>1, <1>4 DEF HistoryInv
<1> QED
  BY <1>2, <1>3, <1>5

\* The master playlist has the variants that stayed.
LEMMA MasterStep == ASSUME ListingInv, Master PROVE ListingInv'
<1> DEFINE vs == DiscoverVariants(arg.id)
<1>1. TypeInv /\ FreshInv /\ HistoryInv /\ kind = "master"
  BY PhaseKind DEF ListingInv, Master
<1>2. /\ answer' = MasterEntries(vs) /\ phase' \in {"not found", "done"}
      /\ UNCHANGED <<storeVars, requestVars, cursor, todo>> /\ phase = "master"
  BY DEF Master
<1>3. todo = <<>>
  BY <1>1, <1>2 DEF TypeInv
<1>4. phase' \in Phases(kind) /\ (phase' \in {"delete", "each"}) = (phase' \notin {"done", "page"} /\ todo' # <<>>)
  <2>1. phase' \notin {"delete", "each"} /\ todo' = <<>>
    BY <1>2, <1>3
  <2>2. phase' \in Phases(kind)
    BY <1>1, <1>2 DEF Phases
  <2> QED
    BY <2>1, <2>2
<1>5. TypeInv' /\ FreshInv' /\ HistoryInv' /\ MediaInv' /\ DeleteInv' /\ StreamsInv'
  BY <1>1, <1>2, <1>4, PlaylistsKeep
<1>6. kind' = kind /\ arg' = arg /\ Throughout' = Throughout
  BY <1>2 DEF storeVars, requestVars, Throughout
<1>7. PlaylistInv'
  BY <1>1, <1>6 DEF PlaylistInv
<1>8. objects \subseteq Keys /\ Throughout \subseteq objects /\ arg.id \in Seq(Nat)
  BY <1>1, StayedIsStored DEF TypeInv, Requests
<1>9. GoodVariants(vs, arg.id)
  BY <1>8, VariantsAre
<1> HIDE DEF vs
<1>10. vs \in Seq(Range(vs))
  BY <1>9 DEF GoodVariants
<1>11. GoodMaster(MasterEntries(vs), vs)
  BY <1>10, MasterEntriesAre
<1>12. GoodMaster(answer', vs)
  BY <1>2, <1>11
<1>13. ASSUME Len(Index) <= VariantScan, NEW v \in Variants, InitKey(arg.id, v) \in Throughout,
              Meta[InitKey(arg.id, v)].type \in {"video", "audio", "subtitle"}
       PROVE  \E e \in Range(answer') : e.variant = v
  <2>1. v \in Seq(Nat) /\ InitKey(arg.id, v) \in objects
    BY <1>8, <1>13, StreamTokens
  <2>2. PICK a \in 1..Len(vs) : vs[a].variant = v
    BY <1>9, <1>13, <2>1 DEF GoodVariants
  <2>3. vs[a].type = Meta[InitKey(arg.id, v)].type
    BY <1>9, <2>2 DEF GoodVariants
  <2>4. PICK i \in 1..Len(answer') : answer'[i].variant = v
    BY <1>12, <1>13, <2>2, <2>3 DEF GoodMaster
  <2>5. answer' \in Seq(Range(answer'))
    BY <1>12 DEF GoodMaster
  <2>6. answer'[i] \in Range(answer')
    BY <2>5 DEF Range
  <2> QED
    BY <2>4, <2>6
<1>14. MasterComplete'
  <2>1. \A v : InitKey(arg.id, v)' = InitKey(arg.id, v)
    BY <1>6 DEF InitKey, VariantsOf
  <2>2. \A i \in 1..Len(answer') : \A g \in answer'[i].groups : \E j \in 1..(i - 1) : answer'[j].tag = g
    BY <1>12 DEF GoodMaster
  <2> QED
    BY <1>6, <1>13, <2>1, <2>2 DEF MasterComplete
<1> QED
  BY <1>5, <1>7, <1>14 DEF ListingInv

\* The variants whose init files are found, where they were there.
LEMMA PlaylistInitStep == ASSUME ListingInv, PlaylistInit PROVE ListingInv'
<1>1. TypeInv /\ FreshInv /\ HistoryInv /\ PlaylistInv /\ kind = "hls"
  BY PhaseKind DEF ListingInv, PlaylistInit
<1>2. /\ phase' = (IF InitKey(arg.id, arg.variant) \in objects THEN "segments" ELSE "not found")
      /\ UNCHANGED <<storeVars, requestVars, cursor, todo, answer>> /\ phase = "init"
  BY DEF PlaylistInit
<1>3. todo = <<>>
  BY <1>1, <1>2 DEF TypeInv
<1>4. phase' \in Phases(kind) /\ (phase' \in {"delete", "each"}) = (phase' \notin {"done", "page"} /\ todo' # <<>>)
  <2>1. phase' \notin {"delete", "each"} /\ todo' = <<>>
    BY <1>2, <1>3
  <2>2. phase' \in Phases(kind)
    BY <1>1, <1>2 DEF Phases
  <2> QED
    BY <2>1, <2>2
<1>5. TypeInv' /\ FreshInv' /\ HistoryInv' /\ MediaInv' /\ DeleteInv' /\ StreamsInv'
  BY <1>1, <1>2, <1>4, PlaylistsKeep
<1>6. kind' = kind /\ arg' = arg /\ AtSomeTime' = AtSomeTime /\ answer' = answer /\ todo' = todo
  BY <1>2 DEF storeVars, requestVars, AtSomeTime
<1>7. objects \subseteq AtSomeTime
  BY <1>1, StayedIsStored
<1>8. \A r : Whole(r) => Whole(r)'
  BY <1>2, WholeStays
<1>9. phase' = "segments" => InitKey(arg.id, arg.variant) \in AtSomeTime
  BY <1>2, <1>7
<1>10. InitKey(arg.id, arg.variant)' = InitKey(arg.id, arg.variant)
  BY <1>6 DEF InitKey, VariantsOf
<1>11. PlaylistInv'
  BY <1>1, <1>6, <1>8, <1>9, <1>10 DEF PlaylistInv
<1>12. MasterComplete'
  BY <1>1, <1>6 DEF MasterComplete
<1> QED
  BY <1>5, <1>11, <1>12 DEF ListingInv

\* The one entry of an HLS playlist is whole.
LEMMA PlaylistSegmentsStep == ASSUME ListingInv, PlaylistSegments PROVE ListingInv'
<1> DEFINE r == [variant |-> arg.variant, type |-> Absent, segments |-> DiscoverSegments(arg.id, arg.variant)]
<1>1. TypeInv /\ FreshInv /\ HistoryInv /\ PlaylistInv /\ kind = "hls"
  BY PhaseKind DEF ListingInv, PlaylistSegments
<1>2. /\ answer' = <<r>> /\ phase' = "done"
      /\ UNCHANGED <<storeVars, requestVars, cursor, todo>> /\ phase = "segments"
  BY DEF PlaylistSegments
<1>3. todo = <<>>
  BY <1>1, <1>2 DEF TypeInv
<1>4. phase' \in Phases(kind) /\ (phase' \in {"delete", "each"}) = (phase' \notin {"done", "page"} /\ todo' # <<>>)
  BY <1>1, <1>2 DEF Phases
<1>5. TypeInv' /\ FreshInv' /\ HistoryInv' /\ MediaInv' /\ DeleteInv' /\ StreamsInv'
  BY <1>1, <1>2, <1>4, PlaylistsKeep
<1>6. kind' = kind
  BY <1>2 DEF requestVars
<1>7. arg.variant \in Seq(Nat) /\ InitKey(arg.id, arg.variant) \in AtSomeTime
  BY <1>1, <1>2 DEF TypeInv, Requests, PlaylistInv
<1>8. Whole(r)
  BY <1>1, <1>7, WholeNow
<1> HIDE DEF r
<1>9. \A x : Whole(x) => Whole(x)'
  BY <1>2, WholeStays
<1>10. Len(answer') = 1 /\ answer'[1] = r /\ answer' \in Seq(Range(answer'))
  <2>1. r \in Range(<<r>>)
    BY DEF Range
  <2> QED
    BY <1>2, <2>1
<1>11. todo' \in Seq(Range(todo'))
  BY <1>2, <1>3
<1>12. ASSUME NEW i \in 1..Len(answer') PROVE Whole(answer[i])'
  <2>1. i = 1
    BY <1>10, <1>12
  <2>2. answer'[i] = r
    BY <1>10, <2>1
  <2> QED
    BY <1>8, <1>9, <2>2
<1>13. PlaylistInv'
  BY <1>1, <1>2, <1>6, <1>10, <1>11, <1>12 DEF PlaylistInv
<1>14. MasterComplete'
  BY <1>1, <1>6 DEF MasterComplete
<1> QED
  BY <1>5, <1>13, <1>14 DEF ListingInv

\* A sequence is one over its members.
LEMMA OwnMembers == ASSUME NEW S, NEW s \in Seq(S) PROVE s \in Seq(Range(s))
<1>1. DOMAIN s = 1..Len(s) /\ \A i \in 1..Len(s) : s[i] \in Range(s)
  BY DEF Range
<1> QED
  BY <1>1, SeqOver

\* The variants of a DASH manifest have their init files.
LEMMA DashVariantsStep == ASSUME ListingInv, DashVariants PROVE ListingInv'
<1> DEFINE vs == DiscoverVariants(arg.id)
<1>1. TypeInv /\ FreshInv /\ HistoryInv /\ PlaylistInv /\ kind = "dash"
  BY PhaseKind DEF ListingInv, DashVariants
<1>2. /\ todo' = vs /\ phase' = (IF todo' = <<>> THEN "not found" ELSE "each")
      /\ UNCHANGED <<storeVars, requestVars, cursor, answer>> /\ phase = "variants"
  BY DEF DashVariants
<1>3. objects \subseteq Keys /\ objects \subseteq AtSomeTime /\ arg.id \in Seq(Nat)
  BY <1>1, StayedIsStored DEF TypeInv, Requests
<1>4. GoodVariants(vs, arg.id)
  BY <1>3, VariantsAre
<1> HIDE DEF vs
<1>5. phase' \in Phases(kind) /\ (phase' \in {"delete", "each"}) = (phase' \notin {"done", "page"} /\ todo' # <<>>)
  <2>1. phase' \in Phases(kind)
    BY <1>1, <1>2 DEF Phases
  <2>2. CASE todo' = <<>>
    <3>1. phase' \notin {"delete", "each"}
      BY <1>2, <2>2
    <3> QED
      BY <2>1, <2>2, <3>1
  <2>3. CASE todo' # <<>>
    <3>1. phase' = "each"
      BY <1>2, <2>3
    <3> QED
      BY <2>1, <2>3, <3>1
  <2> QED
    BY <2>2, <2>3
<1>6. TypeInv' /\ FreshInv' /\ HistoryInv' /\ MediaInv' /\ DeleteInv' /\ StreamsInv'
  BY <1>1, <1>2, <1>5, PlaylistsKeep
<1>7. kind' = kind /\ arg' = arg /\ AtSomeTime' = AtSomeTime /\ answer' = answer
  BY <1>2 DEF storeVars, requestVars, AtSomeTime
<1>8. \A r : Whole(r) => Whole(r)'
  BY <1>2, WholeStays
<1>9. \A i \in 1..Len(todo') : todo'[i].variant \in Seq(Nat) /\ InitKey(arg.id, todo'[i].variant) \in AtSomeTime
  BY <1>2, <1>3, <1>4 DEF GoodVariants
<1>10. \A v : InitKey(arg'.id, v) = InitKey(arg.id, v)
  BY <1>7 DEF InitKey, VariantsOf
<1>11. todo' \in Seq(Range(todo'))
  BY <1>2, <1>4 DEF GoodVariants
<1>12. phase' # "segments"
  BY <1>2
<1>13. PlaylistInv'
  BY <1>1, <1>7, <1>8, <1>9, <1>10, <1>11, <1>12 DEF PlaylistInv
<1>14. MasterComplete'
  BY <1>1, <1>7 DEF MasterComplete
<1> QED
  BY <1>6, <1>13, <1>14 DEF ListingInv

\* Each entry of it is whole.
LEMMA DashSegmentsStep == ASSUME ListingInv, DashSegments PROVE ListingInv'
<1> DEFINE v == Head(todo)
           r == [variant |-> v.variant, type |-> v.type, segments |-> DiscoverSegments(arg.id, v.variant)]
<1>1. TypeInv /\ FreshInv /\ HistoryInv /\ PlaylistInv /\ kind = "dash"
  BY PhaseKind DEF ListingInv, DashSegments
<1>2. /\ answer' = Append(answer, r) /\ todo' = Tail(todo)
      /\ phase' = (IF todo' = <<>> THEN "done" ELSE "each")
      /\ UNCHANGED <<storeVars, requestVars, cursor>> /\ phase = "each"
  BY DEF DashSegments
<1>3. todo # <<>>
  BY <1>1, <1>2 DEF TypeInv
<1>4. /\ answer \in Seq(Range(answer)) /\ todo \in Seq(Range(todo))
      /\ \A i \in 1..Len(answer) : Whole(answer[i])
      /\ \A i \in 1..Len(todo) : todo[i].variant \in Seq(Nat) /\ InitKey(arg.id, todo[i].variant) \in AtSomeTime
  BY <1>1 DEF PlaylistInv
<1>5. v.variant \in Seq(Nat) /\ InitKey(arg.id, v.variant) \in AtSomeTime
  <2>1. v = todo[1] /\ 1 \in 1..Len(todo)
    BY <1>3, <1>4
  <2> HIDE DEF v
  <2> QED
    BY <1>4, <2>1
<1> HIDE DEF v
<1>6. Whole(r)
  BY <1>1, <1>5, WholeNow
<1> HIDE DEF r
<1>7. phase' \in Phases(kind) /\ (phase' \in {"delete", "each"}) = (phase' \notin {"done", "page"} /\ todo' # <<>>)
  <2>1. phase' \in Phases(kind)
    BY <1>1, <1>2 DEF Phases
  <2>2. CASE todo' = <<>>
    <3>1. phase' \notin {"delete", "each"}
      BY <1>2, <2>2
    <3> QED
      BY <2>1, <2>2, <3>1
  <2>3. CASE todo' # <<>>
    <3>1. phase' = "each"
      BY <1>2, <2>3
    <3> QED
      BY <2>1, <2>3, <3>1
  <2> QED
    BY <2>2, <2>3
<1>8. TypeInv' /\ FreshInv' /\ HistoryInv' /\ MediaInv' /\ DeleteInv' /\ StreamsInv'
  BY <1>1, <1>2, <1>7, PlaylistsKeep
<1>9. kind' = kind /\ arg' = arg /\ AtSomeTime' = AtSomeTime
  BY <1>2 DEF storeVars, requestVars, AtSomeTime
<1>10. \A x : Whole(x) => Whole(x)'
  BY <1>2, WholeStays
<1>11. /\ answer' \in Seq(Range(answer'))
       /\ \A i \in 1..Len(answer') : Whole(answer'[i])
  <2> DEFINE S == Range(answer) \cup {r}
  <2>1. Range(answer) \subseteq S /\ r \in S
    OBVIOUS
  <2> HIDE DEF S
  <2>2. answer \in Seq(S)
    BY <1>4, <2>1, SeqMonotonic
  <2>3. /\ Append(answer, r) \in Seq(S) /\ Len(Append(answer, r)) = Len(answer) + 1 /\ Len(answer) \in Nat
        /\ \A i \in 1..Len(answer) : Append(answer, r)[i] = answer[i]
        /\ Append(answer, r)[Len(answer) + 1] = r
    BY <2>1, <2>2
  <2>4. answer' \in Seq(Range(answer'))
    BY <1>2, <2>3, OwnMembers
  <2>5. ASSUME NEW i \in 1..(Len(answer) + 1) PROVE Whole(Append(answer, r)[i])
    <3>1. i \in 1..Len(answer) \/ i = Len(answer) + 1
      BY <2>3
    <3>2. CASE i \in 1..Len(answer)
      <4>1. Append(answer, r)[i] = answer[i] /\ Whole(answer[i])
        BY <1>4, <2>3, <3>2
      <4> QED
        BY <4>1
    <3>3. CASE i = Len(answer) + 1
      <4>1. Append(answer, r)[i] = r
        BY <2>3, <3>3
      <4> QED
        BY <1>6, <4>1
    <3> QED
      BY <3>1, <3>2, <3>3
  <2>6. answer' = Append(answer, r)
    BY <1>2
  <2> QED
    BY <2>3, <2>4, <2>5, <2>6
<1>12. /\ todo' \in Seq(Range(todo'))
       /\ \A i \in 1..Len(todo') : todo'[i].variant \in Seq(Nat) /\ InitKey(arg.id, todo'[i].variant) \in AtSomeTime
  <2>1. /\ Tail(todo) \in Seq(Range(todo)) /\ Len(Tail(todo)) = Len(todo) - 1
        /\ \A i \in 1..(Len(todo) - 1) : Tail(todo)[i] = todo[i + 1]
    BY <1>3, <1>4, HeadTailProperties
  <2>2. Len(todo) \in Nat
    BY <1>4
  <2>3. todo' \in Seq(Range(todo'))
    BY <1>2, <2>1, OwnMembers
  <2>4. ASSUME NEW i \in 1..(Len(todo) - 1)
        PROVE  Tail(todo)[i].variant \in Seq(Nat) /\ InitKey(arg.id, Tail(todo)[i].variant) \in AtSomeTime
    <3>1. i + 1 \in 1..Len(todo) /\ Tail(todo)[i] = todo[i + 1]
      BY <2>1, <2>2
    <3> QED
      BY <1>4, <3>1
  <2>5. todo' = Tail(todo)
    BY <1>2
  <2> QED
    BY <2>1, <2>3, <2>4, <2>5
<1>13. \A w : InitKey(arg'.id, w) = InitKey(arg.id, w)
  BY <1>9 DEF InitKey, VariantsOf
<1>14. phase' # "segments"
  BY <1>2
<1>15. \A i \in 1..Len(answer') : Whole(answer[i])'
  BY <1>10, <1>11
<1>16. PlaylistInv'
  BY <1>1, <1>9, <1>11, <1>12, <1>13, <1>14, <1>15 DEF PlaylistInv
<1>17. MasterComplete'
  BY <1>1, <1>9 DEF MasterComplete
<1> QED
  BY <1>8, <1>16, <1>17 DEF ListingInv

-----------------------------------------------------------------------------
(* The theorems *)

\* Every step keeps the invariant.
LEMMA InvNext == ASSUME ListingInv, [Next]_vars PROVE ListingInv'
<1>1. CASE Request
  BY <1>1, RequestStep
<1>2. CASE MediaPage
  BY <1>2, MediaStep
<1>3. CASE StreamsPage
  BY <1>3, StreamsStep
<1>4. CASE DeleteList
  BY <1>4, DeleteListStep
<1>5. CASE DeleteNext
  BY <1>5, DeleteNextStep
<1>6. CASE Master
  BY <1>6, MasterStep
<1>7. CASE PlaylistInit
  BY <1>7, PlaylistInitStep
<1>8. CASE PlaylistSegments
  BY <1>8, PlaylistSegmentsStep
<1>9. CASE DashVariants
  BY <1>9, DashVariantsStep
<1>10. CASE DashSegments
  BY <1>10, DashSegmentsStep
<1>11. CASE (\E k \in Keys : StoreKey(k) \/ DeleteKey(k)) \/ UNCHANGED vars
  BY <1>11, OthersStep
<1> QED
  BY <1>1, <1>2, <1>3, <1>4, <1>5, <1>6, <1>7, <1>8, <1>9, <1>10, <1>11 DEF Next

\* The invariant of the requests that list keys: what their pages, loops and
\* playlists hold while keys come and go.
THEOREM ListingInvariant == Spec => []ListingInv
<1>1. Init => ListingInv
  BY InvInit
<1>2. ListingInv /\ [Next]_vars => ListingInv'
  BY InvNext
<1> QED
  BY <1>1, <1>2, PTL DEF Spec

\* A walk through list_media is in order, invents nothing and misses no key that
\* stayed, for every index, limit and number of changes (index.rs, list_manifests).
THEOREM PagesAreExact == Spec => []PagesExact
<1>1. ListingInv => PagesExact
  <2> SUFFICES ASSUME ListingInv, kind = "media" PROVE PagesExact
    BY DEF PagesExact
  <2> DEFINE X == {k \in AtSomeTime : UnderPrefix(k)}
  <2>1. /\ answer \in Seq(X) /\ Ascends(answer)
        /\ phase # "page" => \A k \in Throughout : UnderPrefix(k) => k \in Range(answer)
    BY DEF ListingInv, MediaInv
  <2>2. \A k : UnderPrefix(k) <=> IsPrefix(arg.prefix, k)
    BY DEF UnderPrefix
  <2>3. X \subseteq {k \in AtSomeTime : IsPrefix(arg.prefix, k)}
    BY <2>2
  <2> HIDE DEF X
  <2>4. Range(answer) \subseteq X /\ Len(answer) \in Nat
    BY <2>1, RangeIs
  <2>5. Ascending(answer)
    BY <2>1, <2>4 DEF Ascends, Ascending
  <2> QED
    BY <2>1, <2>2, <2>3, <2>4, <2>5 DEF PagesExact
<1> QED
  BY <1>1, ListingInvariant, PTL

\* delete_stream removes the keys of its stream and of no other, each once.
THEOREM StreamIsDeleted == Spec => []StreamDeleted
<1>1. ListingInv => StreamDeleted
  <2> SUFFICES ASSUME ListingInv, kind = "delete" PROVE StreamDeleted
    BY DEF StreamDeleted
  <2> DEFINE X == {k \in Keys : InFolder(k)}
  <2>1. start \ objects \subseteq lost \cup {k \in Keys : IsPrefix(Folder(arg.id), k)} /\ objects \subseteq Keys
    BY DEF ListingInv, TypeInv, HistoryInv, InFolder
  <2>2. /\ answer \in Seq(X) /\ todo \in Seq(X) /\ Ascends(answer \o todo)
        /\ \A k \in objects \ put : InFolder(k) =>
             k \in Range(todo) \/ (phase = "list" /\ cursor = None) \/ (phase # "done" /\ cursor # None /\ Less(cursor, k))
    BY DEF ListingInv, DeleteInv
  <2>3. phase = "done" => Range(todo) = {}
    <3>1. phase = "done" => todo = <<>>
      BY DEF ListingInv, DeleteInv
    <3> QED
      BY <3>1 DEF Range
  <2>4. IsInjective(answer)
    <3> DEFINE met == answer \o todo
    <3>1. answer \in Seq(Seq(Nat)) /\ todo \in Seq(Seq(Nat)) /\ met \in Seq(Seq(Nat)) /\ Ascends(met)
      BY DeleteFacts
    <3>2. \A i \in 1..Len(answer) : i \in 1..Len(met) /\ met[i] = answer[i]
      BY <3>1, JoinIs
    <3> HIDE DEF met
    <3>3. \A i, j \in 1..Len(met) : met[i] = met[j] => i = j
      BY <3>1, AscendsInjective
    <3>4. DOMAIN answer = 1..Len(answer)
      BY <3>1
    <3> QED
      BY <3>2, <3>3, <3>4 DEF IsInjective
  <2>5. phase = "done" => {k \in objects : IsPrefix(Folder(arg.id), k)} \subseteq put
    BY <2>2, <2>3 DEF InFolder
  <2> QED
    BY <2>1, <2>4, <2>5 DEF StreamDeleted
<1> QED
  BY <1>1, ListingInvariant, PTL

\* A walk through list_streams returns every stream that stayed, except where
\* its cursor steps over one (streaming.rs:560).
THEOREM StreamsAreExact == Spec => []StreamsExact
<1>1. ListingInv => StreamsExact
  <2> SUFFICES ASSUME ListingInv, kind = "streams" PROVE StreamsExact
    BY DEF StreamsExact
  <2>1. StreamsInv
    BY DEF ListingInv
  <2>2. Range(answer) \subseteq StreamIds(AtSomeTime)
    BY <2>1, RangeIs DEF StreamsInv
  <2>3. ASSUME phase = "done", arg.limit > 0, Len(Index) <= ScanLimit, NEW id \in StreamIds(Throughout)
        PROVE  id \in Range(answer) \/ SteppedOver(id)
    <3>1. PICK k \in Throughout : UnderStreams(k) /\ id = StreamOf(k)
      BY <2>3 DEF StreamIds, UnderStreams
    <3> QED
      BY <2>1, <2>3, <3>1 DEF StreamsInv
  <2> QED
    BY <2>1, <2>2, <2>3 DEF StreamsExact, StreamsInv
<1> QED
  BY <1>1, ListingInvariant, PTL

\* What a player of HLS is given is whole, in order and resolvable.
THEOREM PlaylistsAreExact == Spec => []HlsExact
<1>1. ListingInv => HlsExact
  <2> SUFFICES ASSUME ListingInv PROVE HlsExact
    OBVIOUS
  <2>1. TypeInv /\ PlaylistInv /\ MasterComplete
    BY DEF ListingInv
  <2>2. StreamsTypeOK
    <3>1. phase \in {"idle", "page", "list", "delete", "master", "init", "segments", "variants",
                     "each", "done", "not found"}
      <4>1. CASE kind \in {"none", "media", "streams", "delete"}
        BY <2>1, <4>1 DEF TypeInv, Phases
      <4>2. CASE kind \in {"master", "hls", "dash"}
        BY <2>1, <4>2 DEF TypeInv, Phases
      <4> QED
        BY <2>1, <4>1, <4>2 DEF TypeInv
    <3> QED
      BY <2>1, <3>1 DEF TypeInv, StreamsTypeOK
  <2>3. PlaylistsExact
    <3> SUFFICES ASSUME kind \in {"hls", "dash"}, NEW r \in Range(answer) PROVE Whole(r)
      BY DEF PlaylistsExact, Whole
    <3>1. answer \in Seq(Range(answer)) /\ \A i \in 1..Len(answer) : Whole(answer[i])
      BY <2>1 DEF PlaylistInv
    <3>2. PICK i \in 1..Len(answer) : answer[i] = r
      BY <3>1, RangeIs
    <3> QED
      BY <3>1, <3>2
  <2> QED
    BY <2>1, <2>2, <2>3 DEF HlsExact
<1> QED
  BY <1>1, ListingInvariant, PTL

\* Every page begins behind the one before it.
THEOREM CursorsAdvance == Spec => CursorAdvances
<1>1. ListingInv /\ [Next]_vars => [MediaPage \/ StreamsPage \/ DeleteList =>
                                      None \in {cursor, cursor'} \/ Less(cursor, cursor')]_vars
  BY MediaStep, StreamsStep, DeleteListStep
<1> QED
  BY <1>1, ListingInvariant, PTL DEF Spec, CursorAdvances

-----------------------------------------------------------------------------
(* What a player of the DASH manifest fetches *)

\* Segments of equal length last as long as their number times one.
LEMMA SumIs ==
  ASSUME NEW segs \in Seq(Segments), NEW d \in Nat, \A i \in 1..Len(segs) : segs[i].duration = d
  PROVE  Sum(segs) = Len(segs) * d
<1> DEFINE D == DOMAIN segs
           w == [i \in D |-> segs[i].duration]
           f == CHOOSE f : f = [s \in SUBSET D |-> IF s = {} THEN 0
                  ELSE segs[CHOOSE x \in s : TRUE].duration + f[s \ {CHOOSE x \in s : TRUE}]]
<1>0. D = 1..Len(segs) /\ Len(segs) \in Nat /\ IsFiniteSet(D) /\ Cardinality(D) = Len(segs)
  <2>1. D = 1..Len(segs) /\ Len(segs) \in Nat
    OBVIOUS
  <2>2. IsFiniteSet(1..Len(segs)) /\ Cardinality(1..Len(segs)) = IF 1 > Len(segs) THEN 0 ELSE Len(segs) - 1 + 1
    BY <2>1, FS_Interval, SMTT(40)
  <2> QED
    BY <2>1, <2>2
<1>1. \A i \in D : w[i] = d
  BY <1>0
<1>2. Weights(w, D)
  BY <1>1 DEF Weights
<1>3. Sum(segs) = f[D]
  BY DEF Sum, FoldSeq, FoldFunction, FoldFunctionOnSet, MapThenFoldSet
<1> HIDE DEF D, f
<1>4. PICK g : IsSum(g, w, D)
  <2> HIDE DEF w
  <2> QED
    BY <1>0, <1>2, SumsExist
<1> DEFINE a(h) == [s \in SUBSET D |-> IF s = {} THEN 0
                     ELSE segs[CHOOSE x \in s : TRUE].duration + h[s \ {CHOOSE x \in s : TRUE}]]
           b(h) == [s \in SUBSET D |-> IF s = {} THEN 0 ELSE w[Picked(s)] + h[s \ {Picked(s)}]]
<1>5. ASSUME NEW h PROVE a(h) = b(h)
  <2>1. ASSUME NEW s \in SUBSET D PROVE a(h)[s] = b(h)[s]
    <3>1. CASE s = {}
      BY <3>1
    <3>2. CASE s # {}
      <4>1. (CHOOSE x \in s : TRUE) = Picked(s) /\ Picked(s) \in D
        BY <3>2 DEF Picked
      <4>2. w[Picked(s)] = segs[Picked(s)].duration
        BY <4>1
      <4>3. a(h)[s] = segs[CHOOSE x \in s : TRUE].duration + h[s \ {CHOOSE x \in s : TRUE}]
        BY <3>2
      <4>4. b(h)[s] = w[Picked(s)] + h[s \ {Picked(s)}]
        BY <3>2
      <4> HIDE DEF a, b
      <4> QED
        BY <4>1, <4>2, <4>3, <4>4
    <3> QED
      BY <3>1, <3>2
  <2> QED
    BY <2>1
<1>6. g = a(g)
  <2>1. g = b(g)
    BY <1>4 DEF IsSum
  <2> HIDE DEF a, b
  <2> QED
    BY <2>1, <1>5
<1>7. f = a(f)
  BY <1>6, ZenonT(60) DEF f
<1>8. IsSum(f, w, D)
  <2>1. f = b(f)
    <3> HIDE DEF a, b
    <3> QED
      BY <1>5, <1>7
  <2> QED
    BY <2>1 DEF IsSum
<1>9. f[D] = Cardinality(D) * d
  <2> HIDE DEF w
  <2> QED
    BY <1>0, <1>1, <1>8, SumsEqual
<1> QED
  BY <1>0, <1>3, <1>9

\* What is cut off of a duration and rounded in a presentation.
LEMMA CutIs ==
  ASSUME NEW t \in Nat, t > 0, NEW d \in Millis(t)
  PROVE  d \in Nat /\ 10 * d <= t /\ t <= 10 * d + 10
BY DEF Millis

LEMMA RoundIs ==
  ASSUME NEW t \in Nat, NEW p \in Tenths(t)
  PROVE  p \in Nat /\ 1000 * p <= t + 500 /\ t <= 1000 * p + 500
BY DEF Tenths

\* So that n segments of t, in a presentation of n times t, are taken for n or
\* for n + 1, while the error of n durations stays below one.
LEMMA CountIs ==
  ASSUME NEW n \in Nat, n > 0, NEW t \in Nat, t > 0, NEW d \in Millis(t), n + 50 <= d,
         NEW p \in Tenths(n * t)
  PROVE  (100 * p + d - 1) \div d \in {n, n + 1}
<1> DEFINE N == n * t
           X == n * d
           x == 100 * p + d - 1
           q == x \div d
           r == x % d
           y == d * q
<1>1. d \in Nat /\ d > 0 /\ 10 * d <= t /\ t <= 10 * d + 10
  BY CutIs
<1>2. N \in Nat /\ p \in Nat /\ 1000 * p <= N + 500 /\ N <= 1000 * p + 500
  <2>1. N \in Nat
    OBVIOUS
  <2> HIDE DEF N
  <2> QED
    BY <2>1, RoundIs DEF N
<1>3. X \in Nat /\ 10 * X <= N /\ N <= 10 * X + 10 * n
  <2>1. n * (10 * d) <= n * t /\ n * t <= n * (10 * d + 10)
    BY <1>1
  <2>2. n * (10 * d) = 10 * (n * d) /\ n * (10 * d + 10) = 10 * (n * d) + 10 * n /\ n * d \in Nat
    BY <1>1
  <2> QED
    BY <2>1, <2>2
<1>4. x \in Nat /\ x = 100 * p + d - 1
  BY <1>1, <1>2
<1>5. x = y + r /\ q \in Int /\ y \in Int /\ r \in 0..(d - 1)
  <2> HIDE DEF x
  <2>1. x = d * q + r /\ q \in Int /\ r \in 0..(d - 1)
    BY <1>1, <1>4
  <2> HIDE DEF q, r
  <2>2. d * q \in Int
    BY <1>1, <2>1
  <2> QED
    BY <2>1, <2>2
<1> HIDE DEF N, x, q, r
<1>6. ~(q <= n - 1)
  <2> SUFFICES ASSUME q <= n - 1 PROVE FALSE
    OBVIOUS
  <2>1. d * q <= d * (n - 1)
    BY <1>1, <1>5
  <2>2. d * (n - 1) = n * d - d
    BY <1>1
  <2>3. y <= X - d
    BY <2>1, <2>2
  <2> HIDE DEF X, y
  <2> QED
    BY <1>1, <1>2, <1>3, <1>4, <1>5, <2>3
<1>7. ~(q >= n + 2)
  <2> SUFFICES ASSUME q >= n + 2 PROVE FALSE
    OBVIOUS
  <2>1. d * q >= d * (n + 2)
    BY <1>1, <1>5
  <2>2. d * (n + 2) = n * d + 2 * d
    BY <1>1
  <2>3. y >= X + 2 * d
    BY <2>1, <2>2
  <2> HIDE DEF X, y
  <2> QED
    BY <1>1, <1>2, <1>3, <1>4, <1>5, <2>3
<1>8. q = n \/ q = n + 1
  BY <1>5, <1>6, <1>7
<1> QED
  BY <1>8 DEF q, x

\* The name of a segment: a folder, "seg-", a number and what follows it.
NameOf(Q, p) == Q \o <<Slash, SegFile, p, Dot>>

\* Such a name, token by token.
LEMMA NameIs ==
  ASSUME NEW T, NEW Q \in Seq(T), NEW p \in T, {Slash, SegFile, Dot} \subseteq T
  PROVE  /\ NameOf(Q, p) \in Seq(T) /\ Len(NameOf(Q, p)) = Len(Q) + 4
         /\ \A i \in 1..Len(Q) : NameOf(Q, p)[i] = Q[i]
         /\ NameOf(Q, p)[Len(Q) + 1] = Slash /\ NameOf(Q, p)[Len(Q) + 2] = SegFile
         /\ NameOf(Q, p)[Len(Q) + 3] = p /\ NameOf(Q, p)[Len(Q) + 4] = Dot
<1> DEFINE e == <<Slash, SegFile, p, Dot>>
           k == NameOf(Q, p)
<1>1. /\ e \in Seq(T) /\ Len(e) = 4 /\ e[1] = Slash /\ e[2] = SegFile /\ e[3] = p /\ e[4] = Dot
      /\ {1, 2, 3, 4} \subseteq 1..Len(e)
  OBVIOUS
<1>2. k = Q \o e
  BY DEF NameOf
<1> HIDE DEF e, k
<1>3. /\ Q \o e \in Seq(T) /\ Len(Q \o e) = Len(Q) + Len(e)
      /\ \A i \in 1..Len(Q) : i \in 1..Len(Q \o e) /\ (Q \o e)[i] = Q[i]
      /\ \A j \in 1..Len(e) : Len(Q) + j \in 1..Len(Q \o e) /\ (Q \o e)[Len(Q) + j] = e[j]
      /\ \A i \in 1..Len(Q \o e) : i \in 1..Len(Q) \/ (i - Len(Q) \in 1..Len(e) /\ i = Len(Q) + (i - Len(Q)))
  BY <1>1, JoinIs, Zenon
<1>4. k \in Seq(T) /\ Len(k) = Len(Q) + 4 /\ \A i \in 1..Len(Q) : k[i] = Q[i]
  BY <1>1, <1>2, <1>3
<1>5. k[Len(Q) + 1] = Slash /\ k[Len(Q) + 2] = SegFile /\ k[Len(Q) + 3] = p /\ k[Len(Q) + 4] = Dot
  BY <1>1, <1>2, <1>3
<1> QED
  BY <1>4, <1>5 DEF k

\* From one name and another number, the other name.
LEMMA PatternIs ==
  ASSUME NEW T, NEW Q \in Seq(T), NEW p \in T, NEW o \in T, {Slash, SegFile, Dot} \subseteq T,
         p # SegFile, Dot # SegFile
  PROVE  SubSeq(NameOf(Q, p), 1, SelectLastInSeq(NameOf(Q, p), LAMBDA t : t = SegFile))
           \o <<o, Last(NameOf(Q, p))>> = NameOf(Q, o)
<1> DEFINE k == NameOf(Q, p)
           l == NameOf(Q, o)
           n == Len(Q)
           I == {i \in 1..Len(k) : k[i] = SegFile}
           at == SelectLastInSeq(k, LAMBDA t : t = SegFile)
           front == SubSeq(k, 1, n + 2)
           e == <<o, Dot>>
<1>0. \A t \in T : /\ NameOf(Q, t) \in Seq(T) /\ Len(NameOf(Q, t)) = n + 4
                   /\ \A i \in 1..n : NameOf(Q, t)[i] = Q[i]
                   /\ NameOf(Q, t)[n + 1] = Slash /\ NameOf(Q, t)[n + 2] = SegFile
                   /\ NameOf(Q, t)[n + 3] = t /\ NameOf(Q, t)[n + 4] = Dot
  BY NameIs
<1>1. /\ k \in Seq(T) /\ Len(k) = n + 4 /\ n \in Nat
      /\ \A i \in 1..n : k[i] = Q[i]
      /\ k[n + 1] = Slash /\ k[n + 2] = SegFile /\ k[n + 3] = p /\ k[n + 4] = Dot
  BY <1>0, SMTT(40)
<1>2. /\ l \in Seq(T) /\ Len(l) = n + 4
      /\ \A i \in 1..n : l[i] = Q[i]
      /\ l[n + 1] = Slash /\ l[n + 2] = SegFile /\ l[n + 3] = o /\ l[n + 4] = Dot
  BY <1>0
<1>3. at = IF I # {} THEN Max(I) ELSE 0
  BY DEF SelectLastInSeq
<1>e. e \in Seq(T) /\ Len(e) = 2 /\ e[1] = o /\ e[2] = Dot /\ 1..Len(e) = {1, 2}
  OBVIOUS
<1> HIDE DEF k, l, at, e
<1>4. n + 2 \in I /\ \A i \in I : i <= n + 2
  <2>1. n + 2 \in 1..Len(k)
    BY <1>1
  <2>2. ASSUME NEW i \in 1..Len(k), k[i] = SegFile PROVE i <= n + 2
    <3>1. i # n + 3 /\ i # n + 4
      BY <1>1, <2>2
    <3> QED
      BY <1>1, <3>1
  <2> QED
    BY <1>1, <2>1, <2>2
<1>5. at = n + 2
  <2>1. I # {} /\ \A i \in I : i \in Int
    BY <1>4
  <2> HIDE DEF I
  <2>2. at = CHOOSE x \in I : \A y \in I : x >= y
    BY <1>3, <2>1 DEF Max
  <2>3. \E x \in I : \A y \in I : x >= y
    BY <1>1, <1>4, <2>1
  <2>4. at \in I /\ \A y \in I : at >= y
    BY <2>2, <2>3
  <2> QED
    BY <1>1, <1>4, <2>1, <2>4
<1>6. front \in Seq(T) /\ Len(front) = n + 2 /\ \A i \in 1..(n + 2) : front[i] = k[i]
  <2>1. n + 2 \in Nat /\ n + 2 <= Len(k)
    BY <1>1
  <2> HIDE DEF n
  <2> QED
    BY <1>1, <2>1, FirstPartIs
<1> HIDE DEF front
<1>7. Last(k) = Dot
  BY <1>1 DEF Last
<1>8. /\ front \o e \in Seq(T) /\ Len(front \o e) = Len(front) + Len(e)
      /\ \A i \in 1..Len(front) : i \in 1..Len(front \o e) /\ (front \o e)[i] = front[i]
      /\ \A j \in 1..Len(e) : Len(front) + j \in 1..Len(front \o e) /\ (front \o e)[Len(front) + j] = e[j]
      /\ \A i \in 1..Len(front \o e) :
           i \in 1..Len(front) \/ (i - Len(front) \in 1..Len(e) /\ i = Len(front) + (i - Len(front)))
  BY <1>e, <1>6, JoinIs, Zenon
<1>9. front \o e \in Seq(T) /\ Len(front \o e) = n + 4
  BY <1>1, <1>e, <1>6, <1>8
<1>10. ASSUME NEW i \in 1..(n + 4) PROVE (front \o e)[i] = l[i]
  <2>1. CASE i \in 1..n
    BY <1>1, <1>2, <1>6, <1>8, <2>1
  <2>2. CASE i = n + 1 \/ i = n + 2
    BY <1>1, <1>2, <1>6, <1>8, <2>2
  <2>3. CASE i = n + 3
    <3>1. (front \o e)[Len(front) + 1] = o /\ Len(front) + 1 = n + 3
      BY <1>1, <1>e, <1>6, <1>8
    <3> QED
      BY <1>2, <2>3, <3>1
  <2>4. CASE i = n + 4
    <3>1. (front \o e)[Len(front) + 2] = Dot /\ Len(front) + 2 = n + 4
      BY <1>1, <1>e, <1>6, <1>8
    <3> QED
      BY <1>2, <2>4, <3>1
  <2>5. i \in 1..n \/ i = n + 1 \/ i = n + 2 \/ i = n + 3 \/ i = n + 4
    <3> HIDE DEF n
    <3> QED
      BY <1>1
  <2> QED
    BY <2>1, <2>2, <2>3, <2>4, <2>5
<1>11. front \o e = l
  BY <1>2, <1>9, <1>10, SeqEqual
<1>12. SubSeq(k, 1, at) \o <<o, Last(k)>> = l
  BY <1>5, <1>7, <1>11 DEF front, e
<1> QED
  BY <1>12 DEF k, l, at

\* What a player of the DASH manifest fetches under its i-th number is the i-th
\* segment, of a variant whose segments are numbered from 0 and nearly equally
\* long.  Where they are equally long and fill the presentation it fetches them
\* all, and asks for at most one more.
THEOREM DashIsReached == Spec => []DashReaches
<1>1. ListingInv => DashReaches
  <2> SUFFICES ASSUME ListingInv, kind = "dash", NEW r \in Range(Representations(answer)),
                      r.segments # <<>>, Named(r),
                      NEW d \in Millis(r.segments[1].duration), NEW p \in Tenths(Presentation(answer)), d > 0
               PROVE  LET got == Fetched(Template(r.segments, d), p)
                          n   == Len(r.segments)
                      IN /\ \A i \in 1..n \cap DOMAIN got : got[i] = r.segments[i].key
                         /\ SameLength(r.segments) /\ Sum(r.segments) = Presentation(answer) /\ n + 50 <= d
                              => Len(got) \in {n, n + 1}
    BY DEF DashReaches
  <2>1. Whole(r)
    <3>1. answer \in Seq(Range(answer)) /\ \A i \in 1..Len(answer) : Whole(answer[i])
      BY DEF ListingInv, PlaylistInv
    <3>2. OfType(answer, "video") \in Seq(Range(answer)) /\ OfType(answer, "audio") \in Seq(Range(answer))
      BY <3>1, OfTypeIs
    <3>3. Representations(answer) \in Seq(Range(answer))
      BY <3>2 DEF Representations
    <3>4. r \in Range(answer)
      <4>1. PICK i \in 1..Len(Representations(answer)) : Representations(answer)[i] = r
        BY <3>3, RangeIs
      <4> QED
        BY <3>3, <4>1
    <3>5. PICK i \in 1..Len(answer) : answer[i] = r
      BY <3>1, <3>4, RangeIs
    <3> QED
      BY <3>1, <3>5
  <2> DEFINE segs == r.segments
             n == Len(segs)
             t == segs[1].duration
             first == segs[1].key
             Q == VariantsOf(arg.id) \o r.variant
             file == SelectLastInSeq(first, LAMBDA k : k = SegFile)
             base == SubSeq(first, 1, file)
             count == (100 * p + d - 1) \div d
             got == Fetched(Template(segs, d), p)
             T == Nat \cup Range(Padded) \cup {Dot}
  <2>2. segs \in Seq(Segments) /\ n \in Nat /\ n > 0 /\ 1 \in 1..n
    BY <2>1 DEF Whole
  <2>3. \A i \in 1..n : segs[i] \in Segments
    BY <2>2
  <2>4. \A i \in 1..n : /\ i - 1 \in DOMAIN Padded
                        /\ segs[i].key = NameOf(Q, Padded[i - 1])
                        /\ segs[i].duration > 0
    BY DEF Named, NameOf
  <2>5. t \in Nat /\ t > 0
    BY <2>2, <2>3, <2>4 DEF Segments
  <2>6. d \in Nat
    <3> HIDE DEF t
    <3> QED
      BY <2>5, CutIs DEF t
  <2>7. got = [i \in 1..count |-> base \o <<Padded[0 + i - 1], Last(first)>>]
    BY DEF Fetched, Template
  <2>8. Q \in Seq(T) /\ {Slash, SegFile, Dot} \subseteq T
    <3>1. arg.id \in Seq(Nat) /\ r.variant \in Seq(Nat)
      BY <2>1 DEF ListingInv, TypeInv, Requests, Whole
    <3>2. Q \in Seq(Nat)
      BY <3>1, VariantsOfIs
    <3>3. Nat \subseteq T
      OBVIOUS
    <3> HIDE DEF Q, T
    <3>4. Q \in Seq(T)
      BY <3>2, <3>3, SeqMonotonic
    <3> QED
      BY <3>4, StreamTokens DEF T
  <2>9. \A i \in 1..n : Padded[i - 1] \in T /\ Padded[i - 1] # SegFile
    BY <2>4, StreamNumbers DEF Range
  <2>10. Dot # SegFile
    BY StreamNumbers
  <2> HIDE DEF Q, T
  <2>11. ASSUME NEW i \in 1..n
         PROVE  base \o <<Padded[i - 1], Last(first)>> = segs[i].key
    <3> DEFINE a == Padded[1 - 1]
               o == Padded[i - 1]
    <3>1. first = NameOf(Q, a) /\ segs[i].key = NameOf(Q, o)
      BY <2>2, <2>4
    <3>2. a \in T /\ o \in T /\ a # SegFile
      BY <2>2, <2>9
    <3> HIDE DEF a, o
    <3>3. SubSeq(NameOf(Q, a), 1, SelectLastInSeq(NameOf(Q, a), LAMBDA k : k = SegFile))
            \o <<o, Last(NameOf(Q, a))>> = NameOf(Q, o)
      BY <2>8, <2>10, <3>2, PatternIs
    <3>4. base \o <<o, Last(first)>> = segs[i].key
      BY <3>1, <3>3
    <3> QED
      BY <3>4 DEF o
  <2>12. SameLength(segs) /\ Sum(segs) = Presentation(answer) /\ n + 50 <= d => count \in {n, n + 1}
    <3> SUFFICES ASSUME SameLength(segs), Sum(segs) = Presentation(answer), n + 50 <= d
                 PROVE  count \in {n, n + 1}
      OBVIOUS
    <3>1. \A i \in 1..Len(segs) : segs[i].duration = t
      BY DEF SameLength
    <3>2. d \in Millis(t)
      OBVIOUS
    <3> HIDE DEF t, segs, count
    <3>3. Sum(segs) = n * t
      BY <2>2, <2>5, <3>1, SumIs
    <3>4. p \in Tenths(n * t)
      BY <3>3
    <3> HIDE DEF n
    <3> QED
      BY <2>2, <2>5, <3>2, <3>4, CountIs DEF count
  <2>13. DOMAIN got = 1..count
    BY <2>7
  <2>14. \A i \in 1..n \cap DOMAIN got : got[i] = segs[i].key
    <3> SUFFICES ASSUME NEW i \in 1..n, i \in 1..count PROVE got[i] = segs[i].key
      BY <2>13
    <3>1. 0 + i - 1 = i - 1
      BY <2>2
    <3>2. base \o <<Padded[i - 1], Last(first)>> = segs[i].key
      BY <2>11
    <3> HIDE DEF base, first, segs, got, count, n
    <3> QED
      BY <2>7, <3>1, <3>2
  <2>15. SameLength(segs) /\ Sum(segs) = Presentation(answer) /\ n + 50 <= d => Len(got) \in {n, n + 1}
    <3> HIDE DEF n, count, got, segs
    <3> QED
      BY <2>2, <2>12, <2>13
  <2> QED
    BY <2>14, <2>15
<1> QED
  BY <1>1, ListingInvariant, PTL
=============================================================================
