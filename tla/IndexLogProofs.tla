---------------------------- MODULE IndexLogProofs ----------------------------
(***************************************************************************)
(* What IndexLog promises, for every number of keys, chunks, writers and   *)
(* failures: the invariant of LogInvariant is inductive, and the           *)
(* properties follow from it.                                              *)
(***************************************************************************)
EXTENDS LogInvariant, SequenceLemmas, FiniteSetTheorems

-----------------------------------------------------------------------------
(* Replay *)

\* What a replay knows between two items.
States == [manifests : [Keys -> Chunks \cup {None}], counts : [Chunks -> Nat]]
Replays ==
  [state : States, text : Seq(Item), good : Nat, read : Nat, stopped : BOOLEAN, failed : BOOLEAN]

\* The kinds of items.
LEMMA Kinds ==
  ASSUME NEW x \in Item
  PROVE  /\ x = NL <=> x.kind = "newline"
         /\ x = Torn <=> x.kind = "torn"
         /\ x = Mangled <=> x.kind = "mangled"
         /\ IsEntry(x) <=> x \in Entry
         /\ ~IsEntry(NL) /\ ~IsEntry(Torn) /\ ~IsEntry(Mangled)
         /\ x \in Entry \/ x = NL \/ x = Torn \/ x = Mangled
         /\ NL # Torn /\ NL # Mangled /\ Torn # Mangled
<1>1. NL.kind = "newline" /\ Torn.kind = "torn" /\ Mangled.kind = "mangled"
  BY DEF NL, Torn, Mangled
<1>2. \A e \in Entry : e.kind \in {"count", "manifest"}
  BY DEF Entry
<1>3. x \in Entry \/ x = NL \/ x = Torn \/ x = Mangled
  BY DEF Item
<1> QED
  BY <1>1, <1>2, <1>3 DEF IsEntry

\* An entry is what the replay needs it to be, and what it writes.
LEMMA Applied ==
  ASSUME NEW s \in States, NEW x \in Entry
  PROVE  /\ apply_entry(s, x) \in States
         /\ Boundary(x) =>
              /\ x.key \in Keys /\ x.val \in Chunks \cup {None}
              /\ apply_entry(s, x).manifests = [s.manifests EXCEPT ![x.key] = x.val]
              /\ apply_entry(s, x).counts = s.counts
         /\ ~Boundary(x) =>
              /\ x.key \in Chunks /\ x.val \in Nat
              /\ apply_entry(s, x).counts = [s.counts EXCEPT ![x.key] = x.val]
              /\ apply_entry(s, x).manifests = s.manifests
<1>1. CASE x \in [kind : {"count"}, key : Chunks, val : Nat]
  BY <1>1 DEF apply_entry, Boundary, States
<1>2. CASE x \in [kind : {"manifest"}, key : Keys, val : Chunks \cup {None}]
  BY <1>2 DEF apply_entry, Boundary, States
<1> QED
  BY <1>1, <1>2 DEF Entry

\* One step of the replay.
Replaying(d) ==
  [p \in Nat \X Replays |-> IF p[1] + 1 \in 1..Len(d) THEN ReplayItem(p[2], d[p[1] + 1]) ELSE p[2]]

\* It starts with nothing.
LEMMA StartType == ReplayStart \in Replays
<1>1. EmptyState \in States
  BY DEF EmptyState, States
<1>2. <<>> \in Seq(Item)
  OBVIOUS
<1> QED
  BY <1>1, <1>2 DEF ReplayStart, Replays

\* An item of the file at a time.
LEMMA ReplayItemType ==
  ASSUME NEW r \in Replays, NEW x \in Item
  PROVE  ReplayItem(r, x) \in Replays
<1>1. r.text \in Seq(Item) /\ Append(r.text, x) \in Seq(Item) /\ <<>> \in Seq(Item) /\ r.state \in States
      /\ r.good \in Nat /\ r.read \in Nat
  BY DEF Replays
<1>2. CASE r.stopped \/ r.failed
  BY <1>2 DEF ReplayItem
<1>3. CASE ~(r.stopped \/ r.failed) /\ x.kind = "mangled"
  BY <1>3 DEF ReplayItem, Replays
<1>4. CASE ~(r.stopped \/ r.failed) /\ x.kind # "mangled" /\ x # NL
  <2>1. ReplayItem(r, x) = [r EXCEPT !.text = Append(r.text, x)]
    BY <1>4 DEF ReplayItem
  <2> DEFINE t == Append(r.text, x)
  <2>2. t \in Seq(Item)
    BY <1>1
  <2> HIDE DEF t
  <2>3. [r EXCEPT !.text = t] \in Replays
    BY <2>2 DEF Replays
  <2> QED
    BY <2>1, <2>3 DEF t
<1>5. CASE ~(r.stopped \/ r.failed) /\ x.kind # "mangled" /\ x = NL /\ r.text = <<>>
  BY <1>5 DEF ReplayItem, Replays
<1>6. CASE ~(r.stopped \/ r.failed) /\ x.kind # "mangled" /\ x = NL /\ r.text # <<>>
           /\ Len(r.text) = 1 /\ IsEntry(r.text[1])
  <2> DEFINE s == apply_entry(r.state, r.text[1])
             e == <<>>
  <2>1. s \in States
    <3>1. r.text[1] \in Item
      BY <1>1, <1>6
    <3> QED
      BY <1>1, <1>6, <3>1, Kinds, Applied
  <2>2. ReplayItem(r, x) = [state |-> s, text |-> e, good |-> r.good + 2, read |-> r.read + 1,
                            stopped |-> r.stopped, failed |-> r.failed]
    BY <1>6 DEF ReplayItem, Replays
  <2>3. e \in Seq(Item) /\ r.good + 2 \in Nat /\ r.read + 1 \in Nat /\ r.stopped \in BOOLEAN /\ r.failed \in BOOLEAN
    BY <1>1 DEF Replays
  <2> HIDE DEF s, e
  <2> QED
    BY <2>1, <2>2, <2>3 DEF Replays
<1>7. CASE ~(r.stopped \/ r.failed) /\ x.kind # "mangled" /\ x = NL /\ r.text # <<>>
           /\ ~(Len(r.text) = 1 /\ IsEntry(r.text[1]))
  BY <1>7 DEF ReplayItem, Replays
<1> QED
  BY <1>2, <1>3, <1>4, <1>5, <1>6, <1>7

\* What a step of the replay does.
LEMMA ReplayingAt ==
  ASSUME NEW d \in Seq(Item)
  PROVE  /\ Replaying(d) \in [Nat \X Replays -> Replays]
         /\ \A i \in 1..Len(d), r \in Replays : Replaying(d)[<<i - 1, r>>] = ReplayItem(r, d[i])
<1>1. Len(d) \in Nat /\ \A i \in 1..Len(d) : d[i] \in Item
  OBVIOUS
<1>2. Replaying(d) \in [Nat \X Replays -> Replays]
  BY <1>1, ReplayItemType DEF Replaying
<1>3. ASSUME NEW i \in 1..Len(d), NEW r \in Replays PROVE Replaying(d)[<<i - 1, r>>] = ReplayItem(r, d[i])
  <2>1. i - 1 \in Nat /\ (i - 1) + 1 = i
    BY <1>1
  <2> QED
    BY <2>1 DEF Replaying
<1> QED
  BY <1>2, <1>3

\* The replay iterates that step.
LEMMA ReplayIs ==
  ASSUME NEW d \in Seq(Item)
  PROVE  \E f : Iterated(ReplayStart, Replaying(d), Len(d), f) /\ ReplayItems(d) = f[Len(d)]
<1>1. Len(d) \in Nat /\ Replaying(d) \in [Nat \X Replays -> Replays]
  <2>1. Len(d) \in Nat
    OBVIOUS
  <2> QED
    BY <2>1, ReplayingAt
<1>2. PICK h \in [0..Len(d) -> Replays] : Iterated(ReplayStart, Replaying(d), Len(d), h)
  BY <1>1, Iteration, StartType
<1>3. h[0] = ReplayStart
  BY <1>2 DEF Iterated
<1>4. ASSUME NEW i \in 1..Len(d) PROVE h[i] = ReplayItem(h[i - 1], d[i])
  <2>1. i - 1 \in 0..(Len(d) - 1) /\ i - 1 \in 0..Len(d) /\ (i - 1) + 1 = i
    BY <1>1
  <2>2. h[i] = Replaying(d)[<<i - 1, h[i - 1]>>] /\ h[i - 1] \in Replays
    BY <1>2, <2>1 DEF Iterated
  <2> QED
    BY <2>2, ReplayingAt
<1> DEFINE Steps(f) == f = [i \in 0..Len(d) |-> IF i = 0 THEN ReplayStart ELSE ReplayItem(f[i - 1], d[i])]
           from == CHOOSE f : Steps(f)
<1>5. Steps(h)
  <2> DEFINE k == [i \in 0..Len(d) |-> IF i = 0 THEN ReplayStart ELSE ReplayItem(h[i - 1], d[i])]
  <2>1. ASSUME NEW i \in 0..Len(d) PROVE h[i] = k[i]
    <3>1. i = 0 \/ i \in 1..Len(d)
      BY <1>1
    <3> QED
      BY <1>3, <1>4, <3>1
  <2>2. h = k
    BY <2>1
  <2> QED
    BY <2>2
<1>6. Steps(from)
  BY <1>5
<1>7. ReplayItems(d) = from[Len(d)]
  BY DEF ReplayItems
<1> HIDE DEF from
<1>8. from[0] = ReplayStart /\ \A i \in 1..Len(d) : from[i] = ReplayItem(from[i - 1], d[i])
  <2> DEFINE k == [i \in 0..Len(d) |-> IF i = 0 THEN ReplayStart ELSE ReplayItem(from[i - 1], d[i])]
  <2>1. from = k
    BY <1>6
  <2>2. k[0] = ReplayStart /\ \A i \in 1..Len(d) : k[i] = ReplayItem(from[i - 1], d[i])
    BY <1>1
  <2> HIDE DEF k
  <2> QED
    BY <2>1, <2>2
<1> HIDE DEF Steps
<1> DEFINE N == {n \in Nat : n <= Len(d) => from[n] = h[n]}
<1>9. 0 \in N
  BY <1>3, <1>8
<1>10. ASSUME NEW n \in N PROVE n + 1 \in N
  <2>1. SUFFICES ASSUME n + 1 <= Len(d) PROVE from[n + 1] = h[n + 1]
    OBVIOUS
  <2>2. n + 1 \in 1..Len(d) /\ (n + 1) - 1 = n /\ n <= Len(d)
    BY <1>1, <2>1
  <2>3. from[n] = h[n]
    BY <2>2
  <2> QED
    BY <1>4, <1>8, <2>2, <2>3
<1> HIDE DEF N
<1>11. N = Nat
  <2>1. N \in SUBSET Nat
    BY DEF N
  <2> QED
    BY <2>1, <1>9, <1>10, Induction
<1>12. from[Len(d)] = h[Len(d)]
  BY <1>1, <1>11 DEF N
<1> QED
  BY <1>2, <1>7, <1>12

\* Of nothing, the replay is where it starts.
LEMMA ReplayNothing == ReplayItems(<<>>) = ReplayStart
<1>0. <<>> \in Seq(Item)
  OBVIOUS
<1>1. PICK f : Iterated(ReplayStart, Replaying(<<>>), Len(<<>>), f) /\ ReplayItems(<<>>) = f[Len(<<>>)]
  BY <1>0, ReplayIs
<1> QED
  BY <1>1 DEF Iterated

\* An item more is one more step of the replay.
LEMMA ReplayOneMore ==
  ASSUME NEW d \in Seq(Item), NEW x \in Item
  PROVE  ReplayItems(d) \in Replays /\ ReplayItems(Append(d, x)) = ReplayItem(ReplayItems(d), x)
<1> DEFINE t == Append(d, x)
<1>1. t \in Seq(Item) /\ Len(t) = Len(d) + 1 /\ t[Len(d) + 1] = x /\ Len(d) \in Nat
      /\ \A i \in 1..Len(d) : t[i] = d[i]
  BY AppendProperties
<1> HIDE DEF t
<1>2. PICK f : Iterated(ReplayStart, Replaying(d), Len(d), f) /\ ReplayItems(d) = f[Len(d)]
  BY ReplayIs
<1>3. PICK h : Iterated(ReplayStart, Replaying(t), Len(t), h) /\ ReplayItems(t) = h[Len(t)]
  BY <1>1, ReplayIs
<1>4. ASSUME NEW i \in 0..(Len(d) - 1), NEW r \in Replays
      PROVE  Replaying(d)[<<i, r>>] = Replaying(t)[<<i, r>>]
  <2>1. i + 1 \in 1..Len(d) /\ i + 1 \in 1..Len(t) /\ (i + 1) - 1 = i /\ d[i + 1] = t[i + 1]
    BY <1>1
  <2>2. Replaying(d)[<<(i + 1) - 1, r>>] = ReplayItem(r, d[i + 1])
    BY <2>1, ReplayingAt
  <2>3. Replaying(t)[<<(i + 1) - 1, r>>] = ReplayItem(r, t[i + 1])
    BY <1>1, <2>1, ReplayingAt
  <2> QED
    BY <2>1, <2>2, <2>3
<1>5. \A i \in 0..Len(d) : f[i] = h[i] /\ f[i] \in Replays
  <2>1. Replaying(d) \in [Nat \X Replays -> Replays] /\ Replaying(t) \in [Nat \X Replays -> Replays]
    BY <1>1, ReplayingAt
  <2>2. Len(t) \in Nat /\ Len(d) <= Len(d) /\ Len(d) <= Len(t) /\ Len(d) \in Nat
    BY <1>1
  <2>3. Iterated(ReplayStart, Replaying(d), Len(d), f) /\ Iterated(ReplayStart, Replaying(t), Len(t), h)
    BY <1>2, <1>3
  <2>4. SameSteps(Replaying(d), Replaying(t), Len(d), Replays)
    BY <1>4 DEF SameSteps
  <2> QED
    BY <2>1, <2>2, <2>3, <2>4, StartType, IterationAgree, ZenonT(60)
<1>6. f[Len(d)] = h[Len(d)] /\ f[Len(d)] \in Replays
  BY <1>1, <1>5
<1>7. h[Len(d) + 1] = Replaying(t)[<<Len(d), h[Len(d)]>>]
  BY <1>1, <1>3, Len(d) \in 0..(Len(t) - 1) DEF Iterated
<1>8. Replaying(t)[<<(Len(d) + 1) - 1, h[Len(d)]>>] = ReplayItem(h[Len(d)], x)
  BY <1>1, <1>6, ReplayingAt, Len(d) + 1 \in 1..Len(t)
<1> QED
  BY <1>1, <1>2, <1>3, <1>6, <1>7, <1>8, (Len(d) + 1) - 1 = Len(d) DEF t

\* A sequence that is not empty is what comes before its last item, and that.
LEMMA Split ==
  ASSUME NEW S, NEW d \in Seq(S), d # <<>>
  PROVE  \E f \in Seq(S) : /\ f = SubSeq(d, 1, Len(d) - 1) /\ Len(f) = Len(d) - 1 /\ d = Append(f, d[Len(d)])
                           /\ d[Len(d)] \in S /\ Len(d) \in Nat \ {0} /\ \A i \in 1..Len(f) : f[i] = d[i]
<1> DEFINE f == SubSeq(d, 1, Len(d) - 1)
<1>1. Len(d) \in Nat \ {0} /\ d[Len(d)] \in S
  OBVIOUS
<1>2. f \in Seq(S) /\ Len(f) = Len(d) - 1 /\ \A i \in 1..Len(f) : f[i] = d[i]
  <2>1. SubSeq(d, 0 + 1, Len(d) - 1) \in Seq(S) /\ Len(SubSeq(d, 0 + 1, Len(d) - 1)) = (Len(d) - 1) - 0
        /\ \A i \in 1..((Len(d) - 1) - 0) : SubSeq(d, 0 + 1, Len(d) - 1)[i] = d[0 + i]
    <3>1. 0 \in Nat /\ Len(d) - 1 \in Nat /\ 0 <= Len(d) - 1 /\ Len(d) - 1 <= Len(d)
      BY <1>1
    <3> QED
      BY <3>1, PartIs
  <2>2. 0 + 1 = 1 /\ (Len(d) - 1) - 0 = Len(d) - 1 /\ \A i \in 1..(Len(d) - 1) : 0 + i = i
    BY <1>1
  <2> QED
    BY <2>1, <2>2
<1> DEFINE t == Append(f, d[Len(d)])
<1>3. t \in Seq(S) /\ Len(t) = Len(f) + 1 /\ t[Len(f) + 1] = d[Len(d)] /\ \A i \in 1..Len(f) : t[i] = f[i]
  BY <1>1, <1>2, AppendProperties
<1>4. \A i \in 1..Len(d) : d[i] = t[i]
  <2>1. \A i \in 1..Len(d) : i = Len(f) + 1 \/ i \in 1..Len(f)
    BY <1>1, <1>2
  <2> HIDE DEF f, t
  <2> QED
    BY <1>1, <1>2, <1>3, <2>1
<1>5. Len(t) = Len(d)
  BY <1>1, <1>2, <1>3
<1> HIDE DEF t
<1>6. d = t
  BY <1>3, <1>4, <1>5, SeqEqual
<1> QED
  BY <1>1, <1>2, <1>6 DEF t

\* A replay keeps its types, and never finds more to be good than there is.
LEMMA ReplayItemsType ==
  ASSUME NEW d \in Seq(Item)
  PROVE  /\ ReplayItems(d) \in Replays
         /\ ReplayItems(d).good + Len(ReplayItems(d).text) <= Len(d)
<1> DEFINE P(e) == ReplayItems(e) \in Replays /\ ReplayItems(e).good + Len(ReplayItems(e).text) <= Len(e)
           N == {n \in Nat : \A e \in Seq(Item) : Len(e) = n => P(e)}
<1>1. 0 \in N
  <2>1. ASSUME NEW e \in Seq(Item), Len(e) = 0 PROVE P(e)
    <3>1. e = <<>>
      BY <2>1
    <3>2. ReplayItems(e) = ReplayStart
      BY <3>1, ReplayNothing
    <3>3. ReplayStart.good = 0 /\ Len(ReplayStart.text) = 0
      BY DEF ReplayStart
    <3> QED
      BY <2>1, <3>2, <3>3, StartType
  <2> QED
    BY <2>1
<1>2. ASSUME NEW n \in N PROVE n + 1 \in N
  <2>1. ASSUME NEW e \in Seq(Item), Len(e) = n + 1 PROVE P(e)
    <3>1. e # <<>> /\ n \in Nat
      BY <2>1
    <3>2. PICK f \in Seq(Item) : Len(f) = Len(e) - 1 /\ e = Append(f, e[Len(e)]) /\ e[Len(e)] \in Item
      BY <3>1, Split
    <3> DEFINE x == e[Len(e)]
               r == ReplayItems(f)
    <3>3. P(f)
      BY <2>1, <3>1, <3>2
    <3>4. ReplayItems(e) = ReplayItem(r, x)
      BY <3>2, ReplayOneMore
    <3>5. r \in Replays /\ x \in Item /\ r.good + Len(r.text) <= n
      BY <2>1, <3>1, <3>2, <3>3
    <3> HIDE DEF r, x, P
    <3>6. ReplayItem(r, x) \in Replays
      BY <3>5, ReplayItemType
    <3>7. r.text \in Seq(Item) /\ r.good \in Nat /\ Len(r.text) \in Nat
      BY <3>5 DEF Replays
    <3>8. ReplayItem(r, x).good + Len(ReplayItem(r, x).text) <= n + 1
      <4>1. CASE r.stopped \/ r.failed
        BY <3>1, <3>5, <3>7, <4>1 DEF ReplayItem
      <4>2. CASE ~(r.stopped \/ r.failed) /\ x.kind = "mangled"
        BY <3>1, <3>5, <3>7, <4>2 DEF ReplayItem, Replays
      <4>3. CASE ~(r.stopped \/ r.failed) /\ x.kind # "mangled" /\ x # NL
        <5>1. ReplayItem(r, x).good = r.good /\ ReplayItem(r, x).text = Append(r.text, x)
          BY <3>5, <4>3 DEF ReplayItem, Replays
        <5>2. Len(Append(r.text, x)) = Len(r.text) + 1
          BY <3>5, <3>7
        <5> QED
          BY <3>1, <3>5, <3>7, <5>1, <5>2
      <4>4. CASE ~(r.stopped \/ r.failed) /\ x.kind # "mangled" /\ x = NL /\ r.text = <<>>
        <5>1. ReplayItem(r, x).good = r.good + 1 /\ ReplayItem(r, x).text = r.text
          BY <3>5, <4>4 DEF ReplayItem, Replays
        <5> QED
          BY <3>1, <3>5, <3>7, <5>1
      <4>5. CASE ~(r.stopped \/ r.failed) /\ x.kind # "mangled" /\ x = NL /\ r.text # <<>>
                 /\ Len(r.text) = 1 /\ IsEntry(r.text[1])
        <5>1. ReplayItem(r, x).good = r.good + 2 /\ ReplayItem(r, x).text = <<>>
          BY <3>5, <4>5 DEF ReplayItem, Replays
        <5>2. Len(<<>>) = 0
          OBVIOUS
        <5> QED
          BY <3>1, <3>5, <3>7, <4>5, <5>1, <5>2
      <4>6. CASE ~(r.stopped \/ r.failed) /\ x.kind # "mangled" /\ x = NL /\ r.text # <<>>
                 /\ ~(Len(r.text) = 1 /\ IsEntry(r.text[1]))
        <5>1. ReplayItem(r, x).good = r.good /\ ReplayItem(r, x).text = r.text
          BY <3>5, <4>6 DEF ReplayItem, Replays
        <5> QED
          BY <3>1, <3>5, <3>7, <5>1
      <4> QED
        BY <4>1, <4>2, <4>3, <4>4, <4>5, <4>6
    <3> QED
      BY <2>1, <3>4, <3>6, <3>8 DEF P
  <2>2. n + 1 \in Nat
    OBVIOUS
  <2> HIDE DEF P
  <2> QED
    BY <2>1, <2>2
<1> HIDE DEF N
<1>3. N = Nat
  <2>1. N \in SUBSET Nat
    BY DEF N
  <2> QED
    BY <2>1, <1>1, <1>2, Induction
<1>4. P(d)
  <2>1. Len(d) \in Nat
    OBVIOUS
  <2> HIDE DEF P
  <2> QED
    BY <1>3, <2>1 DEF N
<1> QED
  BY <1>4

\* So does what is made of it at the end of the file.
LEMMA ReplayType ==
  ASSUME NEW d \in Seq(Item)
  PROVE  /\ Replay(d).state \in States /\ Replay(d).read \in Nat /\ Replay(d).good \in 0..Len(d)
         /\ Replay(d).stopped \in BOOLEAN /\ Replay(d).failed \in BOOLEAN
<1> DEFINE r == ReplayItems(d)
<1>1. r \in Replays /\ r.good + Len(r.text) <= Len(d)
  BY ReplayItemsType
<1> HIDE DEF r
<1>2. r.text \in Seq(Item) /\ r.good \in Nat /\ Len(r.text) \in Nat /\ r.good <= Len(d) /\ Len(d) \in Nat
      /\ r.state \in States /\ r.read \in Nat /\ r.stopped \in BOOLEAN /\ r.failed \in BOOLEAN
  <2>1. r.text \in Seq(Item) /\ r.good \in Nat
    BY <1>1 DEF Replays
  <2>2. Len(r.text) \in Nat /\ Len(d) \in Nat
    BY <2>1
  <2> QED
    BY <1>1, <2>1, <2>2 DEF Replays
<1>3. CASE r.stopped \/ r.failed \/ r.text = <<>>
  <2>1. Replay(d) = r
    BY <1>3 DEF Replay, r
  <2> QED
    BY <1>2, <2>1
<1>4. CASE ~(r.stopped \/ r.failed \/ r.text = <<>>) /\ Len(r.text) = 1 /\ IsEntry(r.text[1])
  <2> DEFINE s == apply_entry(r.state, r.text[1])
  <2>1. s \in States
    <3>1. r.text[1] \in Item
      BY <1>2, <1>4
    <3> QED
      BY <1>2, <1>4, <3>1, Kinds, Applied
  <2>2. Replay(d) = [r EXCEPT !.state = s, !.read = r.read + 1]
    BY <1>4 DEF Replay, r
  <2> HIDE DEF s
  <2> QED
    BY <1>1, <1>2, <2>1, <2>2 DEF Replays
<1>5. CASE ~(r.stopped \/ r.failed \/ r.text = <<>>) /\ ~(Len(r.text) = 1 /\ IsEntry(r.text[1]))
  <2>1. Replay(d) = [r EXCEPT !.stopped = TRUE]
    BY <1>5 DEF Replay, r
  <2> QED
    BY <1>1, <1>2, <2>1 DEF Replays
<1> QED
  BY <1>3, <1>4, <1>5

-----------------------------------------------------------------------------
(* The replay of a log whose lines stand apart *)

\* The next item begins a line.
AtStart(d) == d = <<>> \/ d[Len(d)] = NL

\* What comes before the last item of a clean log is clean, and ends where a line
\* begins, or with the entry whose newline comes last.
LEMMA CleanAppend ==
  ASSUME NEW d \in Seq(Item), NEW x \in Item
  PROVE  Clean(Append(d, x)) <=> Clean(d) /\ (AtStart(d) \/ (d[Len(d)] \in Entry /\ x = NL))
<1> DEFINE t == Append(d, x)
           n == Len(d)
<1>1. t \in Seq(Item) /\ Len(t) = n + 1 /\ t[n + 1] = x /\ n \in Nat /\ \A i \in 1..n : t[i] = d[i]
  BY AppendProperties
<1> HIDE DEF t
<1>2. d # <<>> => n \in 1..n /\ d[n] \in Item
  OBVIOUS
<1>3. d = <<>> <=> n = 0
  OBVIOUS
<1> HIDE DEF n
<1>4. \A i \in 1..n : d[i] = t[i] /\ (i # n => i \in 1..(n - 1) /\ i + 1 \in 1..n /\ d[i + 1] = t[i + 1])
  BY <1>1
<1>5. (n + 1) - 1 = n /\ \A i \in 1..(n - 1) : i \in 1..n /\ i # n
  BY <1>1
<1>6. Clean(t) <=> \A i \in 1..n : t[i] # NL => IsEntry(t[i]) /\ t[i + 1] = NL
  BY <1>1, <1>5 DEF Clean
<1>7. Clean(d) <=> \A i \in 1..(n - 1) : d[i] # NL => IsEntry(d[i]) /\ d[i + 1] = NL
  BY DEF Clean, n
<1>8. n # 0 => (IsEntry(d[n]) <=> d[n] \in Entry)
  BY <1>2, <1>3, Kinds
<1>9. AtStart(d) <=> n = 0 \/ d[n] = NL
  BY <1>3 DEF AtStart, n
<1>10. Clean(t) <=> Clean(d) /\ (n = 0 \/ d[n] = NL \/ (IsEntry(d[n]) /\ x = NL))
  <2>1. ASSUME Clean(t) PROVE Clean(d) /\ (n = 0 \/ d[n] = NL \/ (IsEntry(d[n]) /\ x = NL))
    BY <1>1, <1>2, <1>3, <1>4, <1>5, <1>6, <1>7, <2>1
  <2>2. ASSUME Clean(d), n = 0 \/ d[n] = NL \/ (IsEntry(d[n]) /\ x = NL) PROVE Clean(t)
    <3>1. ASSUME NEW i \in 1..n, t[i] # NL PROVE IsEntry(t[i]) /\ t[i + 1] = NL
      <4>1. CASE i = n
        BY <1>1, <1>4, <2>2, <3>1, <4>1
      <4>2. CASE i # n
        BY <1>4, <1>7, <2>2, <3>1, <4>2
      <4> QED
        BY <4>1, <4>2
    <3> QED
      BY <1>6, <3>1
  <2> QED
    BY <2>1, <2>2
<1>11. d[Len(d)] = d[n]
  BY DEF n
<1> QED
  BY <1>8, <1>9, <1>10, <1>11 DEF t

\* Where the replay of a clean log is at its end.
Plain(d) ==
  LET r == ReplayItems(d)
  IN /\ ~r.stopped
     /\ r.failed <=> d # <<>> /\ d[Len(d)] = Mangled
     /\ r.text = IF AtStart(d) \/ d[Len(d)] = Mangled THEN <<>> ELSE <<d[Len(d)]>>
     /\ r.good = IF AtStart(d) THEN Len(d) ELSE Len(d) - 1

\* One item more of a clean log.
LEMMA PlainStep ==
  ASSUME NEW d \in Seq(Item), NEW x \in Item, Clean(Append(d, x)), Plain(d)
  PROVE  /\ Plain(Append(d, x))
         /\ Replay(Append(d, x)).state =
              IF IsEntry(x) THEN apply_entry(Replay(d).state, x) ELSE Replay(d).state
<1> DEFINE t == Append(d, x)
           n == Len(d)
           r == ReplayItems(d)
           q == ReplayItems(t)
<1>1. t \in Seq(Item) /\ Len(t) = n + 1 /\ t[n + 1] = x /\ n \in Nat /\ t[Len(t)] = x
  BY AppendProperties
<1>2. t # <<>>
  BY <1>1
<1>3. q = ReplayItem(r, x) /\ r \in Replays
  BY ReplayOneMore
<1>4. AtStart(d) \/ (d # <<>> /\ d[n] \in Entry /\ x = NL)
  BY CleanAppend DEF AtStart
<1>5. AtStart(t) <=> x = NL
  BY <1>1, <1>2 DEF AtStart
<1>6. ~r.stopped /\ (r.failed <=> d # <<>> /\ d[n] = Mangled)
      /\ r.text = (IF AtStart(d) \/ d[n] = Mangled THEN <<>> ELSE <<d[n]>>)
      /\ r.good = (IF AtStart(d) THEN n ELSE n - 1)
  BY DEF Plain
<1>7. Replay(t) = IF q.stopped \/ q.failed \/ q.text = <<>> THEN q
                  ELSE IF Len(q.text) = 1 /\ IsEntry(q.text[1])
                    THEN [q EXCEPT !.state = apply_entry(@, q.text[1]), !.read = @ + 1]
                  ELSE [q EXCEPT !.stopped = TRUE]
  BY DEF Replay
<1>8. Replay(d) = IF r.stopped \/ r.failed \/ r.text = <<>> THEN r
                  ELSE IF Len(r.text) = 1 /\ IsEntry(r.text[1])
                    THEN [r EXCEPT !.state = apply_entry(@, r.text[1]), !.read = @ + 1]
                  ELSE [r EXCEPT !.stopped = TRUE]
  BY DEF Replay
<1>9. Plain(t) <=> /\ ~q.stopped /\ (q.failed <=> x = Mangled)
                   /\ q.text = (IF x = NL \/ x = Mangled THEN <<>> ELSE <<x>>)
                   /\ q.good = IF x = NL THEN n + 1 ELSE n
  BY <1>1, <1>2, <1>5, (n + 1) - 1 = n DEF Plain
<1>a. (x.kind = "mangled" <=> x = Mangled) /\ NL # Mangled /\ ~IsEntry(NL) /\ ~IsEntry(Mangled) /\ ~IsEntry(Torn)
      /\ \A e \in Entry : IsEntry(e) /\ e # NL /\ e # Mangled /\ e # Torn
  BY Kinds DEF Item
<1>b. x \in Entry \/ x = NL \/ x = Torn \/ x = Mangled
  BY Kinds
<1> HIDE DEF t, n, r, q
<1>10. CASE AtStart(d)
  <2>1. ~r.failed /\ r.text = <<>> /\ r.good = n
    BY <1>6, <1>10, <1>a DEF AtStart, n
  <2>2. Replay(d) = r
    BY <1>8, <2>1
  <2>3. CASE x = Mangled
    <3>1. q.stopped = r.stopped /\ q.failed /\ q.text = r.text /\ q.good = r.good /\ q.state = r.state
      BY <1>3, <1>6, <1>a, <2>1, <2>3 DEF ReplayItem, Replays
    <3> QED
      BY <1>6, <1>7, <1>9, <1>a, <2>1, <2>2, <2>3, <3>1 DEF t
  <2>4. CASE x = NL
    <3>1. q.stopped = r.stopped /\ q.failed = r.failed /\ q.text = r.text /\ q.good = r.good + 1 /\ q.state = r.state
      BY <1>3, <1>6, <1>a, <2>1, <2>4 DEF ReplayItem, Replays
    <3> QED
      BY <1>6, <1>7, <1>9, <1>a, <2>1, <2>2, <2>4, <3>1 DEF t
  <2>5. CASE x # NL /\ x # Mangled
    <3>1. q.stopped = r.stopped /\ q.failed = r.failed /\ q.text = Append(r.text, x) /\ q.good = r.good /\ q.state = r.state
      BY <1>3, <1>6, <1>a, <2>1, <2>5 DEF ReplayItem, Replays
    <3>2. q.text = <<x>> /\ Len(q.text) = 1 /\ q.text[1] = x /\ q.text # <<>>
      BY <2>1, <3>1
    <3>3. Plain(t)
      BY <1>6, <1>9, <2>1, <2>5, <3>1, <3>2
    <3>4. CASE IsEntry(x)
      <4>1. Replay(t) = [q EXCEPT !.state = apply_entry(@, q.text[1]), !.read = @ + 1]
        BY <1>6, <1>7, <2>1, <3>1, <3>2, <3>4
      <4>2. q \in Replays
        BY <1>3, ReplayItemType
      <4>3. Replay(t).state = apply_entry(q.state, x)
        BY <3>2, <4>1, <4>2 DEF Replays
      <4> QED
        BY <2>2, <3>1, <3>3, <3>4, <4>3 DEF t
    <3>5. CASE ~IsEntry(x)
      <4>1. Replay(t) = [q EXCEPT !.stopped = TRUE]
        BY <1>6, <1>7, <2>1, <3>1, <3>2, <3>5
      <4>2. q \in Replays
        BY <1>3, ReplayItemType
      <4>3. Replay(t).state = q.state
        BY <4>1, <4>2 DEF Replays
      <4> QED
        BY <2>2, <3>1, <3>3, <3>5, <4>3 DEF t
    <3> QED
      BY <3>4, <3>5
  <2> QED
    BY <2>3, <2>4, <2>5
<1>11. CASE ~AtStart(d)
  <2> DEFINE e == d[n]
  <2>1. d # <<>> /\ e \in Entry /\ x = NL
    BY <1>4, <1>11
  <2> HIDE DEF e
  <2>2. ~r.failed /\ r.text = <<e>> /\ r.good = n - 1
    BY <1>6, <1>11, <1>a, <2>1 DEF e
  <2>3. Len(r.text) = 1 /\ IsEntry(r.text[1]) /\ r.text[1] = e /\ r.text # <<>>
    BY <1>a, <2>1, <2>2
  <2>4. Replay(d).state = apply_entry(r.state, e)
    <3>1. Replay(d) = [r EXCEPT !.state = apply_entry(@, r.text[1]), !.read = @ + 1]
      BY <1>6, <1>8, <2>2, <2>3
    <3> QED
      BY <1>3, <2>3, <3>1 DEF Replays
  <2>5. q.stopped = r.stopped /\ q.failed = r.failed /\ q.text = <<>> /\ q.good = r.good + 2
        /\ q.state = apply_entry(r.state, e)
    BY <1>3, <1>6, <1>a, <2>1, <2>2, <2>3 DEF ReplayItem, Replays
  <2>6. Replay(t) = q
    BY <1>7, <2>5
  <2>7. (n - 1) + 2 = n + 1
    BY <1>1
  <2> QED
    BY <1>6, <1>9, <1>a, <2>1, <2>2, <2>4, <2>5, <2>6, <2>7 DEF t
<1> QED
  BY <1>10, <1>11

\* A clean log ends where the replay expects it.
LEMMA CleanPlain ==
  ASSUME NEW d \in Seq(Item), Clean(d)
  PROVE  Plain(d)
<1> DEFINE N == {n \in Nat : \A e \in Seq(Item) : Len(e) = n /\ Clean(e) => Plain(e)}
<1>1. 0 \in N
  <2>1. ASSUME NEW e \in Seq(Item), Len(e) = 0 PROVE Plain(e)
    <3>1. e = <<>> /\ AtStart(e) /\ Len(e) = 0
      BY <2>1 DEF AtStart
    <3>2. ReplayItems(e) = ReplayStart
      BY <3>1, ReplayNothing
    <3> QED
      BY <3>1, <3>2 DEF Plain, ReplayStart
  <2> QED
    BY <2>1
<1>2. ASSUME NEW n \in N PROVE n + 1 \in N
  <2>1. ASSUME NEW e \in Seq(Item), Len(e) = n + 1, Clean(e) PROVE Plain(e)
    <3>1. e # <<>> /\ n \in Nat
      BY <2>1
    <3>2. PICK f \in Seq(Item) : Len(f) = Len(e) - 1 /\ e = Append(f, e[Len(e)]) /\ e[Len(e)] \in Item
      BY <3>1, Split
    <3> DEFINE x == e[Len(e)]
    <3>a. x \in Item /\ e = Append(f, x)
      BY <3>2
    <3> HIDE DEF x
    <3>b. Len(f) = n
      BY <2>1, <3>1, <3>2
    <3>3. x \in Item /\ e = Append(f, x) /\ Clean(Append(f, x)) /\ Len(f) = n
      BY <2>1, <3>a, <3>b
    <3>4. Clean(f)
      BY <3>3, CleanAppend
    <3>5. Plain(f)
      BY <3>3, <3>4
    <3>6. Plain(Append(f, x))
      BY <3>3, <3>5, PlainStep
    <3> QED
      BY <3>3, <3>6
  <2> QED
    BY <2>1
<1> HIDE DEF N
<1>3. N = Nat
  <2>1. N \in SUBSET Nat
    BY DEF N
  <2> QED
    BY <2>1, <1>1, <1>2, Induction
<1>4. Len(d) \in Nat
  OBVIOUS
<1> QED
  BY <1>3, <1>4 DEF N

\* An entry more is applied last; nothing else changes what is replayed.
LEMMA ReplayAppend ==
  ASSUME NEW d \in Seq(Item), NEW x \in Item, Clean(Append(d, x))
  PROVE  Replay(Append(d, x)).state =
           IF IsEntry(x) THEN apply_entry(Replay(d).state, x) ELSE Replay(d).state
<1>1. Clean(d)
  BY CleanAppend
<1> QED
  BY <1>1, CleanPlain, PlainStep

\* The first items of a sequence.
LEMMA Prefix ==
  ASSUME NEW S, NEW d \in Seq(S), NEW n \in 0..Len(d)
  PROVE  /\ SubSeq(d, 1, n) \in Seq(S) /\ Len(SubSeq(d, 1, n)) = n
         /\ \A i \in 1..n : SubSeq(d, 1, n)[i] = d[i]
<1>1. 0 \in Nat /\ n \in Nat /\ 0 <= n /\ n <= Len(d)
  OBVIOUS
<1>2. SubSeq(d, 0 + 1, n) \in Seq(S) /\ Len(SubSeq(d, 0 + 1, n)) = n - 0
      /\ \A i \in 1..(n - 0) : SubSeq(d, 0 + 1, n)[i] = d[0 + i]
  BY <1>1, PartIs
<1>3. 0 + 1 = 1 /\ n - 0 = n /\ \A i \in 1..n : 0 + i = i
  OBVIOUS
<1> QED
  BY <1>2, <1>3

\* Sequences with the same first items.
LEMMA SamePrefix ==
  ASSUME NEW S, NEW d \in Seq(S), NEW e \in Seq(S), NEW n \in 0..Len(d), n <= Len(e),
         \A i \in 1..n : d[i] = e[i]
  PROVE  SubSeq(d, 1, n) = SubSeq(e, 1, n)
<1>1. n \in 0..Len(e)
  OBVIOUS
<1> DEFINE p == SubSeq(d, 1, n)
           q == SubSeq(e, 1, n)
<1>2. p \in Seq(S) /\ Len(p) = n /\ \A i \in 1..n : p[i] = d[i]
  BY Prefix
<1>3. q \in Seq(S) /\ Len(q) = n /\ \A i \in 1..n : q[i] = e[i]
  BY <1>1, Prefix
<1> HIDE DEF p, q
<1>4. p = q
  BY <1>2, <1>3, SeqEqual
<1> QED
  BY <1>4 DEF p, q

\* The first items of one that became longer, and of a part.
LEMMA PrefixOfMore ==
  ASSUME NEW S, NEW d \in Seq(S), NEW x \in S, NEW n \in 0..Len(d)
  PROVE  SubSeq(Append(d, x), 1, n) = SubSeq(d, 1, n)
<1> DEFINE t == Append(d, x)
<1>1. t \in Seq(S) /\ Len(t) = Len(d) + 1 /\ Len(d) \in Nat /\ \A i \in 1..Len(d) : t[i] = d[i]
  BY AppendProperties
<1> HIDE DEF t
<1>2. n <= Len(t) /\ \A i \in 1..n : d[i] = t[i]
  BY <1>1
<1>3. SubSeq(d, 1, n) = SubSeq(t, 1, n)
  BY <1>1, <1>2, SamePrefix
<1> QED
  BY <1>3 DEF t

\* What a log begins with is clean when the log is.
LEMMA CleanPrefix ==
  ASSUME NEW d \in Seq(Item), Clean(d), NEW n \in 0..Len(d)
  PROVE  Clean(SubSeq(d, 1, n))
<1> DEFINE t == SubSeq(d, 1, n)
<1>1. t \in Seq(Item) /\ Len(t) = n /\ \A i \in 1..n : t[i] = d[i]
  BY Prefix
<1> HIDE DEF t
<1>2. ASSUME NEW i \in 1..(Len(t) - 1), t[i] # NL PROVE IsEntry(t[i]) /\ t[i + 1] = NL
  <2>1. i \in 1..(Len(d) - 1) /\ i \in 1..n /\ i + 1 \in 1..n
    BY <1>1
  <2>2. t[i] = d[i] /\ t[i + 1] = d[i + 1]
    BY <1>1, <2>1
  <2> QED
    BY <1>2, <2>1, <2>2 DEF Clean
<1>3. Clean(t)
  BY <1>2 DEF Clean
<1> QED
  BY <1>3 DEF t

\* A replay that stops does so at the last line, and loses nothing by it.
LEMMA ReplayCut ==
  ASSUME NEW d \in Seq(Item), Clean(d), Replay(d).stopped
  PROVE  /\ d # <<>> /\ Replay(d).good = Len(d) - 1
         /\ Replay(SubSeq(d, 1, Len(d) - 1)).state = Replay(d).state
<1> DEFINE r == ReplayItems(d)
<1>1. Plain(d)
  BY CleanPlain
<1>2. ~r.stopped /\ (r.failed <=> d # <<>> /\ d[Len(d)] = Mangled)
      /\ r.text = (IF AtStart(d) \/ d[Len(d)] = Mangled THEN <<>> ELSE <<d[Len(d)]>>)
      /\ r.good = (IF AtStart(d) THEN Len(d) ELSE Len(d) - 1)
  BY <1>1 DEF Plain
<1>3. r \in Replays
  BY ReplayItemsType
<1>4. Replay(d) = IF r.stopped \/ r.failed \/ r.text = <<>> THEN r
                  ELSE IF Len(r.text) = 1 /\ IsEntry(r.text[1])
                    THEN [r EXCEPT !.state = apply_entry(@, r.text[1]), !.read = @ + 1]
                  ELSE [r EXCEPT !.stopped = TRUE]
  BY DEF Replay
<1> HIDE DEF r
<1>5. ~(r.stopped \/ r.failed \/ r.text = <<>>)
  BY <1>2, <1>4
<1>6. ~AtStart(d) /\ d[Len(d)] # Mangled /\ r.text = <<d[Len(d)]>> /\ r.good = Len(d) - 1
  BY <1>2, <1>5
<1>7. Len(r.text) = 1 /\ r.text[1] = d[Len(d)]
  BY <1>6
<1>8. ~IsEntry(d[Len(d)])
  <2>1. [r EXCEPT !.state = apply_entry(@, r.text[1]), !.read = @ + 1].stopped = r.stopped
    BY <1>3 DEF Replays
  <2> QED
    BY <1>2, <1>4, <1>5, <1>7, <2>1
<1>9. Replay(d) = [r EXCEPT !.stopped = TRUE]
  BY <1>4, <1>5, <1>7, <1>8
<1>10. Replay(d).good = r.good
  BY <1>3, <1>9 DEF Replays
<1>11. d # <<>>
  BY <1>6 DEF AtStart
<1>12. PICK f \in Seq(Item) : f = SubSeq(d, 1, Len(d) - 1) /\ d = Append(f, d[Len(d)]) /\ d[Len(d)] \in Item
  BY <1>11, Split
<1> DEFINE x == d[Len(d)]
<1>13. x \in Item /\ d = Append(f, x) /\ ~IsEntry(x) /\ Clean(Append(f, x))
  BY <1>8, <1>12
<1> HIDE DEF x
<1>14. Replay(Append(f, x)).state = Replay(f).state
  BY <1>13, ReplayAppend
<1> QED
  BY <1>6, <1>10, <1>11, <1>12, <1>13, <1>14

-----------------------------------------------------------------------------
(* What compaction writes *)

\* A finite set has an order, in which all its members come.
LEMMA OrderIs ==
  ASSUME NEW S, IsFiniteSet(S)
  PROVE  /\ SetToSeq(S) \in Seq(S)
         /\ \A x \in S : \E i \in 1..Len(SetToSeq(S)) : SetToSeq(S)[i] = x
<1> DEFINE n == Cardinality(S)
           f == SetToSeq(S)
<1>1. n \in Nat /\ ExistsBijection(1..n, S)
  BY FS_CardinalityType
<1>2. \E h \in [1..n -> S] : IsInjective(h)
  BY <1>1 DEF ExistsBijection, Bijection, Injection, IsInjective
<1>3. f \in [1..n -> S] /\ IsInjective(f)
  BY <1>2 DEF SetToSeq
<1>4. f \in Injection(1..n, S)
  BY <1>3 DEF Injection, IsInjective
<1>5. IsFiniteSet(1..n) /\ Cardinality(1..n) = n
  BY <1>1, FS_Interval
<1> HIDE DEF f
<1>6. f \in Surjection(1..n, S)
  BY <1>4, <1>5, FS_Injection
<1> HIDE DEF n
<1>7. f \in Seq(S) /\ Len(f) = n
  BY <1>1, <1>3
<1>8. \A x \in S : \E i \in 1..n : f[i] = x
  BY <1>6 DEF Surjection
<1> QED
  BY <1>7, <1>8 DEF f

\* Lines one after the other, each with its newline.
LEMMA Interleaved ==
  ASSUME NEW o \in Seq(Entry), NEW log,
         log = [i \in 1..(2 * Len(o)) |-> IF i % 2 = 1 THEN o[(i + 1) \div 2] ELSE NL]
  PROVE  /\ log \in Seq(Item) /\ Len(log) = 2 * Len(o) /\ Clean(log)
         /\ \A m \in 1..Len(o) : log[2 * m - 1] = o[m] /\ log[2 * m] = NL
<1> DEFINE n == Len(o)
<1>1. n \in Nat /\ (\A i \in 1..n : o[i] \in Entry) /\ Len(o) = n
  OBVIOUS
<1> HIDE DEF n
<1>2. \A i \in 1..(2 * n) : i % 2 = 1 => (i + 1) \div 2 \in 1..n
  BY <1>1
<1>3. \A i \in 1..(2 * n) : log[i] = IF i % 2 = 1 THEN o[(i + 1) \div 2] ELSE NL
  BY <1>1
<1>4. \A i \in 1..(2 * n) : log[i] \in Item
  BY <1>1, <1>2, <1>3 DEF Item
<1>5. log \in Seq(Item) /\ Len(log) = 2 * n
  <2>1. 2 * n \in Nat /\ DOMAIN log = 1..(2 * n)
    BY <1>1
  <2>2. log = [i \in 1..(2 * n) |-> log[i]]
    BY <2>1, <1>1
  <2>3. log \in [1..(2 * n) -> Item]
    BY <1>4, <2>2
  <2> QED
    BY <2>1, <2>3
<1>6. ASSUME NEW m \in 1..n PROVE log[2 * m - 1] = o[m] /\ log[2 * m] = NL
  <2>1. 2 * m - 1 \in 1..(2 * n) /\ 2 * m \in 1..(2 * n)
    BY <1>1
  <2>2. (2 * m - 1) % 2 = 1 /\ (2 * m) % 2 # 1 /\ ((2 * m - 1) + 1) \div 2 = m
    BY <1>1
  <2> QED
    BY <1>3, <2>1, <2>2
<1>7. ASSUME NEW i \in 1..(Len(log) - 1), log[i] # NL PROVE IsEntry(log[i]) /\ log[i + 1] = NL
  <2>1. i \in 1..(2 * n) /\ i + 1 \in 1..(2 * n)
    BY <1>1, <1>5
  <2>2. i % 2 = 1
    BY <1>3, <1>7, <2>1
  <2>3. log[i] \in Entry
    BY <1>1, <1>2, <1>3, <2>1, <2>2
  <2>4. (i + 1) % 2 # 1
    BY <1>1, <2>1, <2>2
  <2>5. log[i + 1] = NL
    BY <1>3, <2>1, <2>4
  <2> QED
    BY <1>4, <2>1, <2>3, <2>5, Kinds
<1> QED
  BY <1>1, <1>5, <1>6, <1>7 DEF Clean

\* Replayed, what compaction writes gives the memory it was made from.
LEMMA SnapshotIs ==
  ASSUME manifests \in [Keys -> Chunks \cup {None}], counts \in [Chunks -> Nat]
  PROVE  /\ Snapshot \in Seq(Item) /\ Clean(Snapshot) /\ Len(Snapshot) % 2 = 0
         /\ Snapshot # <<>> => Snapshot[Len(Snapshot)] = NL
         /\ Replay(Snapshot).state = [manifests |-> manifests, counts |-> counts]
<1> DEFINE KS == {j \in Keys : manifests[j] # None}
           CS == {d \in Chunks : counts[d] > 0}
           MS == {Manifest(k, manifests[k]) : k \in KS}
           NS == {Count(c, counts[c]) : c \in CS}
<1>1. IsFiniteSet(MS)
  <2> DEFINE h == [k \in KS |-> Manifest(k, manifests[k])]
  <2>1. h \in Surjection(KS, MS)
    BY DEF Surjection
  <2>2. IsFiniteSet(KS)
    BY LogBounds, FS_Subset
  <2> HIDE DEF h, KS, MS
  <2> QED
    BY <2>1, <2>2, FS_Surjection
<1>2. IsFiniteSet(NS)
  <2> DEFINE h == [c \in CS |-> Count(c, counts[c])]
  <2>1. h \in Surjection(CS, NS)
    BY DEF Surjection
  <2>2. IsFiniteSet(CS)
    BY LogBounds, FS_Subset
  <2> HIDE DEF h, CS, NS
  <2> QED
    BY <2>1, <2>2, FS_Surjection
<1>3. Live = MS \cup NS
  BY DEF Live
<1>4. \A x \in MS : x \in Entry /\ Boundary(x) /\ x.key \in Keys /\ x.val = manifests[x.key] /\ x.val # None
  BY DEF Entry, Manifest, Boundary
<1>5. \A x \in NS : x \in Entry /\ ~Boundary(x) /\ x.key \in Chunks /\ x.val = counts[x.key] /\ x.val # 0
  BY DEF Entry, Count, Boundary
<1>6. ASSUME NEW k \in Keys, manifests[k] # None PROVE \E x \in MS : x.key = k
  <2>1. Manifest(k, manifests[k]) \in MS
    BY <1>6
  <2>2. Manifest(k, manifests[k]).key = k
    BY DEF Manifest
  <2> HIDE DEF MS
  <2> QED
    BY <2>1, <2>2
<1>7. ASSUME NEW c \in Chunks, counts[c] # 0 PROVE \E x \in NS : x.key = c
  <2>1. Count(c, counts[c]) \in NS
    BY <1>7
  <2>2. Count(c, counts[c]).key = c
    BY DEF Count
  <2> HIDE DEF NS
  <2> QED
    BY <2>1, <2>2
<1> DEFINE o == SetToSeq(Live)
<1> HIDE DEF MS, NS
<1>8. IsFiniteSet(Live) /\ Live \subseteq Entry
  BY <1>1, <1>2, <1>3, <1>4, <1>5, FS_Union
<1>9. o \in Seq(Live) /\ \A x \in Live : \E i \in 1..Len(o) : o[i] = x
  BY <1>8, OrderIs
<1>10. o \in Seq(Entry) /\ Len(o) \in Nat /\ \A i \in 1..Len(o) : o[i] \in MS \cup NS /\ o[i] \in Entry
  <2>1. Len(o) \in Nat /\ o \in [1..Len(o) -> Live]
    BY <1>9
  <2>2. o \in [1..Len(o) -> Entry]
    BY <1>8, <2>1
  <2> HIDE DEF o
  <2>3. o \in Seq(Entry)
    BY <2>1, <2>2
  <2> QED
    BY <1>3, <2>1, <2>2, <2>3
<1> DEFINE log == Snapshot
<1>11. log = [i \in 1..(2 * Len(o)) |-> IF i % 2 = 1 THEN o[(i + 1) \div 2] ELSE NL]
  BY DEF Snapshot
<1> HIDE DEF o, log
<1>12. /\ log \in Seq(Item) /\ Len(log) = 2 * Len(o) /\ Clean(log)
       /\ \A m \in 1..Len(o) : log[2 * m - 1] = o[m] /\ log[2 * m] = NL
  BY <1>10, <1>11, Interleaved, SMTT(40)
<1> DEFINE R(m) == Replay(SubSeq(log, 1, 2 * m)).state
           Got(m) == /\ R(m) \in States
                     /\ \A k \in Keys : R(m).manifests[k] =
                          IF \E i \in 1..m : o[i] \in MS /\ o[i].key = k THEN manifests[k] ELSE None
                     /\ \A c \in Chunks : R(m).counts[c] =
                          IF \E i \in 1..m : o[i] \in NS /\ o[i].key = c THEN counts[c] ELSE 0
           N == {m \in Nat : m <= Len(o) => Got(m)}
<1>13. 0 \in N
  <2>1. SubSeq(log, 1, 2 * 0) = <<>>
    BY SubSeqEmpty, 2 * 0 = 0
  <2>2. Replay(<<>>).state = EmptyState
    BY ReplayNothing DEF Replay, ReplayStart
  <2>3. EmptyState \in States
    BY DEF EmptyState, States
  <2>4. \A i \in 1..0 : FALSE
    OBVIOUS
  <2> HIDE DEF R
  <2>5. R(0) = EmptyState
    BY <2>1, <2>2 DEF R
  <2> QED
    BY <2>3, <2>4, <2>5 DEF EmptyState
<1>14. ASSUME NEW m \in N PROVE m + 1 \in N
  <2>1. SUFFICES ASSUME m + 1 <= Len(o) PROVE Got(m + 1)
    OBVIOUS
  <2>2. m \in Nat /\ m + 1 \in 1..Len(o) /\ m <= Len(o)
    BY <1>10, <2>1
  <2>3. Got(m)
    BY <2>2
  <2> DEFINE a == SubSeq(log, 1, 2 * m)
             x == o[m + 1]
  <2>4. x \in Entry /\ x \in MS \cup NS
    BY <1>10, <2>2
  <2>5. a \in Seq(Item) /\ Len(a) = 2 * m /\ \A i \in 1..(2 * m) : a[i] = log[i]
    BY <1>10, <1>12, <2>2, Prefix, 2 * m \in 0..Len(log)
  <2> DEFINE b == SubSeq(log, 1, 2 * (m + 1))
  <2>6. b \in Seq(Item) /\ Len(b) = 2 * m + 2 /\ Clean(b) /\ \A i \in 1..(2 * m + 2) : b[i] = log[i]
    <3> DEFINE l == Len(o)
    <3>a. l \in Nat /\ m \in Nat /\ m + 1 <= l /\ Len(log) = 2 * l
      BY <1>10, <1>12, <2>1, <2>2
    <3> HIDE DEF l
    <3>1. 2 * (m + 1) \in 0..Len(log) /\ 2 * (m + 1) = 2 * m + 2
      BY <3>a
    <3> QED
      BY <1>12, <3>1, Prefix, CleanPrefix
  <2>7. log[2 * m + 1] = x /\ log[2 * m + 2] = NL
    BY <1>12, <2>2, 2 * (m + 1) - 1 = 2 * m + 1, 2 * (m + 1) = 2 * m + 2
  <2> HIDE DEF a, b, x
  <2> DEFINE c == Append(a, x)
             d == Append(c, NL)
  <2>8. x \in Item /\ NL \in Item
    BY <2>4 DEF Item
  <2>9. c \in Seq(Item) /\ Len(c) = 2 * m + 1 /\ c[2 * m + 1] = x /\ \A i \in 1..(2 * m) : c[i] = a[i]
    BY <2>5, <2>8, AppendProperties
  <2> HIDE DEF c
  <2>10. d \in Seq(Item) /\ Len(d) = 2 * m + 2 /\ d[2 * m + 2] = NL /\ \A i \in 1..(2 * m + 1) : d[i] = c[i]
    <3>1. (2 * m + 1) + 1 = 2 * m + 2
      BY <2>2
    <3> QED
      BY <2>8, <2>9, <3>1, AppendProperties
  <2> HIDE DEF d
  <2>11. d = b
    <3>1. ASSUME NEW i \in 1..(2 * m + 2) PROVE d[i] = b[i]
      <4>1. i \in 1..(2 * m) \/ i = 2 * m + 1 \/ i = 2 * m + 2
        BY <2>2
      <4>2. \A j \in 1..(2 * m) : j \in 1..(2 * m + 1) /\ j \in 1..(2 * m + 2)
        BY <2>2
      <4>3. 2 * m + 1 \in 1..(2 * m + 1) /\ 2 * m + 1 \in 1..(2 * m + 2) /\ 2 * m + 2 \in 1..(2 * m + 2)
        BY <2>2
      <4> QED
        BY <2>5, <2>6, <2>7, <2>9, <2>10, <4>1, <4>2, <4>3
    <3> QED
      BY <2>6, <2>10, <3>1, SeqEqual
  <2>12. Clean(d) /\ Clean(c)
    BY <2>6, <2>8, <2>9, <2>11, CleanAppend DEF d
  <2>13. Replay(d).state = Replay(c).state
    BY <2>8, <2>9, <2>12, ReplayAppend, Kinds DEF d
  <2>14. Replay(c).state = apply_entry(Replay(a).state, x)
    BY <2>4, <2>5, <2>8, <2>12, ReplayAppend, Kinds DEF c
  <2>15. R(m + 1) = apply_entry(R(m), x)
    BY <2>11, <2>13, <2>14 DEF a, b
  <2> HIDE DEF R
  <2>16. (\A i \in 1..(m + 1) : i \in 1..m \/ i = m + 1) /\ (\A i \in 1..m : i \in 1..(m + 1)) /\ m + 1 \in 1..(m + 1)
    BY <2>2
  <2>17. R(m) \in States
    BY <2>3
  <2>18. R(m + 1) \in States
    BY <2>4, <2>15, <2>17, Applied, ZenonT(60)
  <2>21. /\ Boundary(x) => apply_entry(R(m), x).manifests = [R(m).manifests EXCEPT ![x.key] = x.val]
                            /\ apply_entry(R(m), x).counts = R(m).counts
         /\ ~Boundary(x) => apply_entry(R(m), x).counts = [R(m).counts EXCEPT ![x.key] = x.val]
                             /\ apply_entry(R(m), x).manifests = R(m).manifests
    BY <2>4, <2>17, Applied
  <2>19. ASSUME NEW k \in Keys
         PROVE  R(m + 1).manifests[k] = IF \E i \in 1..(m + 1) : o[i] \in MS /\ o[i].key = k THEN manifests[k] ELSE None
    <3>1. R(m).manifests[k] = IF \E i \in 1..m : o[i] \in MS /\ o[i].key = k THEN manifests[k] ELSE None
      BY <2>3
    <3>2. CASE x \in MS
      <4>1. Boundary(x) /\ x.key \in Keys /\ x.val = manifests[x.key]
        BY <1>4, <3>2
      <4>2. R(m + 1).manifests = [R(m).manifests EXCEPT ![x.key] = x.val]
        BY <2>15, <2>21, <4>1
      <4>3. R(m).manifests \in [Keys -> Chunks \cup {None}]
        BY <2>17 DEF States
      <4>4. R(m + 1).manifests[k] = IF k = x.key THEN x.val ELSE R(m).manifests[k]
        BY <4>1, <4>2, <4>3
      <4>5. (\E i \in 1..(m + 1) : o[i] \in MS /\ o[i].key = k)
              <=> (\E i \in 1..m : o[i] \in MS /\ o[i].key = k) \/ x.key = k
        BY <2>16, <3>2 DEF x
      <4> QED
        BY <3>1, <4>1, <4>4, <4>5
    <3>3. CASE x \in NS
      <4>1. ~Boundary(x)
        BY <1>5, <3>3
      <4>2. R(m + 1).manifests = R(m).manifests
        BY <2>15, <2>21, <4>1
      <4>3. x \notin MS
        BY <1>4, <4>1
      <4>4. (\E i \in 1..(m + 1) : o[i] \in MS /\ o[i].key = k)
              <=> (\E i \in 1..m : o[i] \in MS /\ o[i].key = k)
        BY <2>16, <4>3 DEF x
      <4> QED
        BY <3>1, <4>2, <4>4
    <3> QED
      BY <2>4, <3>2, <3>3
  <2>20. ASSUME NEW e \in Chunks
         PROVE  R(m + 1).counts[e] = IF \E i \in 1..(m + 1) : o[i] \in NS /\ o[i].key = e THEN counts[e] ELSE 0
    <3>1. R(m).counts[e] = IF \E i \in 1..m : o[i] \in NS /\ o[i].key = e THEN counts[e] ELSE 0
      BY <2>3
    <3>2. CASE x \in NS
      <4>1. ~Boundary(x) /\ x.key \in Chunks /\ x.val = counts[x.key]
        BY <1>5, <3>2
      <4>2. R(m + 1).counts = [R(m).counts EXCEPT ![x.key] = x.val]
        BY <2>15, <2>21, <4>1
      <4>3. R(m).counts \in [Chunks -> Nat]
        BY <2>17 DEF States
      <4>4. R(m + 1).counts[e] = IF e = x.key THEN x.val ELSE R(m).counts[e]
        BY <4>1, <4>2, <4>3
      <4>5. (\E i \in 1..(m + 1) : o[i] \in NS /\ o[i].key = e)
              <=> (\E i \in 1..m : o[i] \in NS /\ o[i].key = e) \/ x.key = e
        BY <2>16, <3>2 DEF x
      <4> QED
        BY <3>1, <4>1, <4>4, <4>5
    <3>3. CASE x \in MS
      <4>1. Boundary(x)
        BY <1>4, <3>3
      <4>2. R(m + 1).counts = R(m).counts
        BY <2>15, <2>21, <4>1
      <4>3. x \notin NS
        BY <1>5, <4>1
      <4>4. (\E i \in 1..(m + 1) : o[i] \in NS /\ o[i].key = e)
              <=> (\E i \in 1..m : o[i] \in NS /\ o[i].key = e)
        BY <2>16, <4>3 DEF x
      <4> QED
        BY <3>1, <4>2, <4>4
    <3> QED
      BY <2>4, <3>2, <3>3
  <2> QED
    BY <2>18, <2>19, <2>20
<1> HIDE DEF N
<1>15. N = Nat
  <2>1. N \in SUBSET Nat
    BY DEF N
  <2> QED
    BY <2>1, <1>13, <1>14, Induction
<1>16. Got(Len(o))
  <2> HIDE DEF Got
  <2> QED
    BY <1>10, <1>15 DEF N
<1> DEFINE s == Replay(log).state
<1>17. s = R(Len(o))
  BY <1>12, SubSeqFull
<1> HIDE DEF R, s
<1>18. s \in States
  BY <1>16, <1>17
<1>19. \A k \in Keys : s.manifests[k] = manifests[k]
  <2>1. ASSUME NEW k \in Keys, manifests[k] # None PROVE \E i \in 1..Len(o) : o[i] \in MS /\ o[i].key = k
    <3>1. PICK x \in MS : x.key = k
      BY <1>6, <2>1
    <3>2. PICK i \in 1..Len(o) : o[i] = x
      BY <1>3, <1>9, <3>1 DEF o
    <3> QED
      BY <3>1, <3>2
  <2> QED
    BY <1>16, <1>17, <2>1
<1>20. \A c \in Chunks : s.counts[c] = counts[c]
  <2>1. ASSUME NEW c \in Chunks, counts[c] # 0 PROVE \E i \in 1..Len(o) : o[i] \in NS /\ o[i].key = c
    <3>1. PICK x \in NS : x.key = c
      BY <1>7, <2>1
    <3>2. PICK i \in 1..Len(o) : o[i] = x
      BY <1>3, <1>9, <3>1 DEF o
    <3> QED
      BY <3>1, <3>2
  <2> QED
    BY <1>16, <1>17, <2>1
<1>21. s = [manifests |-> manifests, counts |-> counts]
  <2>1. s.manifests = manifests /\ s.counts = counts
    BY <1>18, <1>19, <1>20 DEF States
  <2> QED
    BY <1>18, <2>1 DEF States
<1>22. log # <<>> => log[Len(log)] = NL
  <2>1. SUFFICES ASSUME log # <<>> PROVE log[Len(log)] = NL
    OBVIOUS
  <2>2. Len(o) \in 1..Len(o)
    BY <1>10, <1>12, <2>1
  <2> QED
    BY <1>12, <2>2
<1>23. Len(log) % 2 = 0
  BY <1>10, <1>12
<1> QED
  BY <1>12, <1>21, <1>22, <1>23 DEF s, log

-----------------------------------------------------------------------------
(* What a writer is at *)

\* The updates by kind.
LEMMA UpdateIs ==
  ASSUME NEW u \in Updates
  PROVE  /\ u.op \in {"add", "drop", "put", "remove"}
         /\ u.op \in {"add", "drop"} => u.key = None /\ u.chunk \in Chunks
         /\ u.op = "put" => u.key \in Keys /\ u.chunk \in Chunks
         /\ u.op = "remove" => u.key \in Keys /\ u.chunk = None
BY DEF Updates

\* None is nobody's name.
LEMMA NoneIs == None \notin Keys /\ None \notin Chunks /\ None \notin Writers
BY LogBounds

\* The steps of a writer.
Labels == {"idle", "begin", "compact?"} \cup Appending \cup Compaction

\* What the type invariant says of the variables, one by one.
LEMMA Types ==
  ASSUME StateOK
  PROVE  /\ manifests \in [Keys -> Chunks \cup {None}] /\ counts \in [Chunks -> Nat]
         /\ disk \in Seq(Item) /\ tmp \in Seq(Item) /\ Len(disk) \in Nat /\ stable \in 0..Len(disk)
         /\ handle \in {"log", "unlinked"} /\ entries \in Nat
         /\ logLock \in Writers \cup {None} /\ refLock \in Writers \cup {None}
         /\ compactLock \in Writers \cup {None} /\ keyLock \in [Keys -> Writers \cup {None}]
         /\ pc \in [Writers -> Labels] /\ work \in [Writers -> Seq(Updates)] /\ line \in [Writers -> Item]
         /\ up \in BOOLEAN /\ raced \in BOOLEAN /\ may \in [Keys -> SUBSET (Chunks \cup {None})]
         /\ ops \in Nat /\ faults \in Nat /\ restarts \in Nat
<1>1. Len(disk) \in Nat
  BY DEF StateOK
<1> QED
  BY <1>1 DEF StateOK, LogTypeOK, Labels

\* And when they have their types.
LEMMA StateFrom ==
  ASSUME /\ manifests' \in [Keys -> Chunks \cup {None}] /\ counts' \in [Chunks -> Nat]
         /\ disk' \in Seq(Item) /\ tmp' \in Seq(Item) /\ stable' \in 0..Len(disk')
         /\ handle' \in {"log", "unlinked"} /\ entries' \in Nat,
         /\ logLock' \in Writers \cup {None} /\ refLock' \in Writers \cup {None}
         /\ compactLock' \in Writers \cup {None} /\ keyLock' \in [Keys -> Writers \cup {None}],
         /\ pc' \in [Writers -> Labels] /\ work' \in [Writers -> Seq(Updates)] /\ line' \in [Writers -> Item],
         /\ up' \in BOOLEAN /\ raced' \in BOOLEAN /\ may' \in [Keys -> SUBSET (Chunks \cup {None})]
         /\ ops' \in Nat /\ faults' \in Nat /\ restarts' \in Nat
  PROVE  StateOK'
BY DEF StateOK, LogTypeOK, Labels

\* The updates an operation has left.
LEMMA WorkIs ==
  ASSUME StateOK, NEW w \in Writers, WriterOK(w), pc[w] # "idle"
  PROVE  /\ Doing(w) \in Updates /\ Doing(w) = Head(work[w]) /\ work[w] \in Seq(Updates)
         /\ Len(work[w]) = 1 \/ Len(work[w]) = 2
         /\ Len(work[w]) = 1 => work[w] = <<Doing(w)>>
         /\ Len(work[w]) = 2 => work[w][2] \in Updates /\ Tail(work[w]) = <<work[w][2]>>
<1> DEFINE s == work[w]
<1>1. s \in Seq(Updates) /\ s # <<>>
  BY Types DEF WriterOK
<1>2. s[1] \in Updates /\ Len(s) \in Nat /\ Len(s) # 0
  BY <1>1
<1>3. s[1].op \in {"add", "drop", "put", "remove"}
  BY <1>2, UpdateIs
<1>4. Len(s) = 1 \/ Len(s) = 2
  BY <1>3 DEF WriterOK, AddOK, DropOK, PutOK, RemoveOK, Doing
<1> HIDE DEF s
<1>5. Len(s) = 1 => s = <<s[1]>>
  <2>1. SUFFICES ASSUME Len(s) = 1 PROVE s = <<s[1]>>
    OBVIOUS
  <2>2. <<s[1]>> \in Seq(Updates) /\ Len(<<s[1]>>) = 1
    BY <1>2
  <2>3. \A i \in 1..1 : s[i] = <<s[1]>>[i]
    OBVIOUS
  <2> QED
    BY <1>1, <2>1, <2>2, <2>3, SeqEqual
<1>6. Len(s) = 2 => s[2] \in Updates /\ Tail(s) = <<s[2]>>
  <2>1. SUFFICES ASSUME Len(s) = 2 PROVE s[2] \in Updates /\ Tail(s) = <<s[2]>>
    OBVIOUS
  <2>2. s[2] \in Updates
    BY <1>1, <2>1
  <2> DEFINE t == Tail(s)
  <2>3. t \in Seq(Updates) /\ Len(t) = Len(s) - 1 /\ \A i \in 1..Len(t) : t[i] = s[i + 1]
    BY <1>1, HeadTailProperties
  <2> HIDE DEF t
  <2>4. Len(t) = 1 /\ t[1] = s[2]
    BY <2>1, <2>3
  <2>5. <<s[2]>> \in Seq(Updates) /\ Len(<<s[2]>>) = 1
    BY <2>2
  <2>6. \A i \in 1..1 : t[i] = <<s[2]>>[i]
    BY <2>4
  <2>7. t = <<s[2]>>
    BY <2>3, <2>4, <2>5, <2>6, SeqEqual
  <2> QED
    BY <2>2, <2>7 DEF t
<1>7. s[1] = Head(s)
  BY <1>1
<1> QED
  BY <1>1, <1>2, <1>4, <1>5, <1>6, <1>7 DEF s, Doing

\* The line of a writer that appends, and the locks it holds for it.
LEMMA LineIs ==
  ASSUME StateOK, NEW w \in Writers, WriterOK(w), pc[w] \in Appending
  PROVE  /\ line[w] \in Entry /\ line[w] \in Item /\ IsEntry(line[w])
         /\ line[w] # NL /\ line[w] # Torn
         /\ Boundary(line[w]) <=> Doing(w).op \in {"put", "remove"}
         /\ Boundary(line[w]) =>
              /\ line[w].key = Doing(w).key /\ line[w].val = Doing(w).chunk
              /\ line[w].key \in Keys /\ line[w].val \in Chunks \cup {None} /\ keyLock[line[w].key] = w
         /\ ~Boundary(line[w]) =>
              /\ line[w].key = Doing(w).chunk /\ line[w].key \in Chunks /\ line[w].val \in Nat
              /\ refLock = w /\ pc[w] # "sync"
              /\ Doing(w).op = "add" => line[w].val = counts[line[w].key] + 1
              /\ Doing(w).op = "drop" => counts[line[w].key] > 0 /\ line[w].val = counts[line[w].key] - 1
<1> DEFINE u == Doing(w)
<1>0. pc[w] # "idle" /\ pc[w] # "begin" /\ pc[w] \notin Compaction /\ pc[w] # "compact?"
  BY DEF Appending, Compaction
<1>1. u \in Updates
  BY <1>0, WorkIs
<1>2. counts \in [Chunks -> Nat]
  BY Types
<1> HIDE DEF u
<1>3. /\ u.op \in {"add", "drop", "put", "remove"}
      /\ u.op \in {"add", "drop"} => u.key = None /\ u.chunk \in Chunks
      /\ u.op = "put" => u.key \in Keys /\ u.chunk \in Chunks
      /\ u.op = "remove" => u.key \in Keys /\ u.chunk = None
  BY <1>1, UpdateIs
<1>a. \A c \in Chunks, n \in Nat : Count(c, n) \in Entry /\ ~Boundary(Count(c, n))
                                   /\ Count(c, n).key = c /\ Count(c, n).val = n
  BY DEF Count, Entry, Boundary
<1>b. \A k \in Keys, v \in Chunks \cup {None} : Manifest(k, v) \in Entry /\ Boundary(Manifest(k, v))
                                   /\ Manifest(k, v).key = k /\ Manifest(k, v).val = v
  BY DEF Manifest, Entry, Boundary
<1>c. \A e \in Entry : e \in Item /\ IsEntry(e) /\ e # NL /\ e # Torn
  BY Kinds DEF Item
<1>4. CASE u.op = "add"
  <2>1. refLock = w /\ line[w] = Count(u.chunk, counts[u.chunk] + 1) /\ pc[w] # "sync"
    BY <1>0, <1>4 DEF WriterOK, AddOK, u
  <2>2. counts[u.chunk] + 1 \in Nat /\ u.chunk \in Chunks
    BY <1>2, <1>3, <1>4
  <2> QED
    BY <1>4, <1>a, <1>c, <2>1, <2>2 DEF u
<1>5. CASE u.op = "drop"
  <2>1. refLock = w /\ line[w] = Count(u.chunk, counts[u.chunk] - 1) /\ pc[w] # "sync" /\ counts[u.chunk] > 0
    BY <1>0, <1>5 DEF WriterOK, DropOK, u
  <2>2. counts[u.chunk] - 1 \in Nat /\ u.chunk \in Chunks
    BY <1>2, <1>3, <1>5, <2>1
  <2> QED
    BY <1>5, <1>a, <1>c, <2>1, <2>2 DEF u
<1>6. CASE u.op = "put"
  <2>1. line[w] = Manifest(u.key, u.chunk) /\ keyLock[u.key] = w
    BY <1>0, <1>6 DEF WriterOK, PutOK, u
  <2> QED
    BY <1>3, <1>6, <1>b, <1>c, <2>1 DEF u
<1>7. CASE u.op = "remove"
  <2>1. line[w] = Manifest(u.key, None) /\ keyLock[u.key] = w
    BY <1>0, <1>7 DEF WriterOK, RemoveOK, u
  <2> QED
    BY <1>3, <1>7, <1>b, <1>c, <2>1 DEF u
<1> QED
  BY <1>3, <1>4, <1>5, <1>6, <1>7

\* The next update, or the end of the operation.
LEMMA AdvanceIs ==
  ASSUME StateOK, NEW w \in Writers, WriterOK(w), pc[w] # "idle", Advance(w)
  PROVE  /\ line' = line /\ refLock' = IF refLock = w THEN None ELSE refLock
         /\ Len(work[w]) = 2 =>
              /\ pc' = [pc EXCEPT ![w] = "begin"] /\ work' = [work EXCEPT ![w] = <<work[w][2]>>]
              /\ keyLock' = keyLock
         /\ Len(work[w]) = 1 =>
              /\ pc' = [pc EXCEPT ![w] = "idle"] /\ work' = [work EXCEPT ![w] = <<>>]
              /\ keyLock' = [k \in Keys |-> IF keyLock[k] = w THEN None ELSE keyLock[k]]
<1>1. Len(work[w]) = 1 \/ Len(work[w]) = 2
  BY WorkIs
<1>2. Len(work[w]) = 2 => Tail(work[w]) = <<work[w][2]>>
  BY WorkIs
<1>3. CASE Len(work[w]) > 1 /\ Goto(w, "begin") /\ work' = [work EXCEPT ![w] = Tail(@)]
           /\ refLock' = (IF refLock = w THEN None ELSE refLock) /\ UNCHANGED <<keyLock, line>>
  <2>1. Len(work[w]) = 2
    BY <1>1, <1>3
  <2>2. work' = [work EXCEPT ![w] = Tail(work[w])] /\ Tail(work[w]) = <<work[w][2]>>
    BY <1>2, <1>3, <2>1
  <2>3. work' = [work EXCEPT ![w] = <<work[w][2]>>]
    BY <2>2
  <2> QED
    <3>1. pc' = [pc EXCEPT ![w] = "begin"] /\ keyLock' = keyLock /\ line' = line
          /\ refLock' = IF refLock = w THEN None ELSE refLock
      BY <1>3 DEF Goto
    <3>2. Len(work[w]) # 1
      BY <2>1
    <3> QED
      BY <2>3, <3>1, <3>2
<1>4. CASE Len(work[w]) = 1 /\ Leave(w)
  BY <1>4 DEF Goto, Leave
<1> QED
  BY <1>3, <1>4 DEF Advance

\* It leaves the writer in order, and what others hold in their hands.
LEMMA AdvanceOK ==
  ASSUME StateOK, NEW w \in Writers, WriterOK(w), pc[w] # "idle", Advance(w)
  PROVE  /\ pc' \in [Writers -> Labels] /\ work' \in [Writers -> Seq(Updates)] /\ line' = line
         /\ refLock' \in Writers \cup {None} /\ keyLock' \in [Keys -> Writers \cup {None}]
         /\ WriterOK(w)'
         /\ \A x \in Writers \ {w} :
              /\ pc'[x] = pc[x] /\ work'[x] = work[x] /\ (refLock = x => refLock' = x)
              /\ \A k \in Keys : keyLock[k] = x => keyLock'[k] = x
         /\ pc'[w] \in {"begin", "idle"}
<1>1. /\ pc \in [Writers -> Labels] /\ work \in [Writers -> Seq(Updates)]
      /\ refLock \in Writers \cup {None} /\ keyLock \in [Keys -> Writers \cup {None}]
  BY Types
<1>2. line' = line /\ refLock' = IF refLock = w THEN None ELSE refLock
  BY AdvanceIs
<1>3. refLock' \in Writers \cup {None} /\ \A x \in Writers \ {w} : refLock = x => refLock' = x
  BY <1>1, <1>2
<1>4. {"begin", "idle"} \subseteq Labels
  BY DEF Labels
<1> DEFINE u == work[w][2]
<1>5. CASE Len(work[w]) = 2
  <2>1. pc' = [pc EXCEPT ![w] = "begin"] /\ work' = [work EXCEPT ![w] = <<u>>] /\ keyLock' = keyLock
    BY <1>5, AdvanceIs
  <2>2. u \in Updates /\ Doing(w) \in Updates
    BY <1>5, WorkIs
  <2>3. Doing(w).op = "add" => u.op = "put"
    BY <1>5 DEF WriterOK, AddOK
  <2>4. Doing(w).op = "drop" => u.op = "remove" /\ keyLock[u.key] = w
    BY <1>5 DEF WriterOK, DropOK
  <2>5. Doing(w).op = "put" => u.op = "drop"
    BY <1>5 DEF WriterOK, PutOK
  <2>6. Doing(w).op # "remove"
    BY <1>5 DEF WriterOK, RemoveOK
  <2> HIDE DEF u
  <2>7. <<u>> \in Seq(Updates) /\ <<u>> # <<>> /\ Len(<<u>>) = 1 /\ <<u>>[1] = u
    BY <2>2
  <2> DEFINE q == <<u>>
  <2> HIDE DEF q
  <2>8. pc'[w] = "begin" /\ work'[w] = q /\ \A x \in Writers \ {w} : pc'[x] = pc[x] /\ work'[x] = work[x]
    BY <1>1, <2>1 DEF q
  <2>9. pc' \in [Writers -> Labels] /\ work' \in [Writers -> Seq(Updates)]
    BY <1>1, <1>4, <2>1, <2>7 DEF q
  <2>10. Doing(w)' = u /\ Len(work'[w]) = 1 /\ work'[w] # <<>>
    BY <2>7, <2>8 DEF q, Doing
  <2>11. WriterOK(w)'
    <3>1. u.op \in {"put", "remove", "drop"}
      BY <2>2, <2>3, <2>4, <2>5, <2>6, UpdateIs
    <3>2. u.op = "put" => PutOK(w)'
      BY <2>8, <2>10 DEF PutOK, Appending
    <3>3. u.op = "drop" => DropOK(w)'
      BY <2>8, <2>10 DEF DropOK
    <3>4. u.op = "remove" => RemoveOK(w)'
      <4>1. u.op = "remove" => keyLock[u.key] = w
        BY <2>2, <2>3, <2>4, <2>5, <2>6, UpdateIs
      <4> QED
        BY <2>1, <2>8, <2>10, <4>1 DEF RemoveOK, Appending
    <3> QED
      BY <2>8, <2>10, <3>1, <3>2, <3>3, <3>4 DEF WriterOK, Compaction
  <2> QED
    BY <1>1, <1>2, <1>3, <2>1, <2>8, <2>9, <2>11
<1>6. CASE Len(work[w]) = 1
  <2>1. pc' = [pc EXCEPT ![w] = "idle"] /\ work' = [work EXCEPT ![w] = <<>>]
        /\ keyLock' = [k \in Keys |-> IF keyLock[k] = w THEN None ELSE keyLock[k]]
    BY <1>6, AdvanceIs
  <2>2. pc'[w] = "idle" /\ work'[w] = <<>> /\ \A x \in Writers \ {w} : pc'[x] = pc[x] /\ work'[x] = work[x]
    BY <1>1, <2>1
  <2>3. <<>> \in Seq(Updates)
    OBVIOUS
  <2>4. pc' \in [Writers -> Labels] /\ work' \in [Writers -> Seq(Updates)]
    BY <1>1, <1>4, <2>1, <2>3
  <2>5. WriterOK(w)'
    BY <2>2 DEF WriterOK, Compaction
  <2>6. keyLock' \in [Keys -> Writers \cup {None}]
        /\ \A x \in Writers \ {w} : \A k \in Keys : keyLock[k] = x => keyLock'[k] = x
    BY <1>1, <2>1
  <2> QED
    BY <1>2, <1>3, <2>2, <2>4, <2>5, <2>6
<1> QED
  BY <1>5, <1>6, WorkIs

\* A writer that stands aside stays in order, as long as it keeps its locks and
\* what they protect stays the same.
LEMMA OtherOK ==
  ASSUME StateOK, NEW x \in Writers, WriterOK(x),
         pc'[x] = pc[x], work'[x] = work[x], line'[x] = line[x],
         logLock = x => logLock' = x, compactLock = x => compactLock' = x,
         refLock = x => refLock' = x /\ counts' = counts,
         \A k \in Keys : keyLock[k] = x => keyLock'[k] = x /\ manifests'[k] = manifests[k]
  PROVE  WriterOK(x)'
<1>1. Doing(x)' = Doing(x)
  BY DEF Doing
<1>2. CASE pc[x] = "idle"
  BY <1>2 DEF WriterOK, Compaction
<1>3. CASE pc[x] # "idle"
  <2>1. Doing(x) \in Updates /\ (Len(work[x]) = 2 => work[x][2] \in Updates)
    BY <1>3, WorkIs
  <2> DEFINE u == Doing(x)
             v == work[x][2]
  <2>2. work'[x][2] = v /\ Doing(x)' = u
    BY <1>1
  <2>3. (u.op \in {"put", "remove"} => u.key \in Keys) /\ (Len(work[x]) = 2 /\ v.op = "remove" => v.key \in Keys)
    BY <2>1, UpdateIs
  <2> HIDE DEF u, v
  <2>4. u.op = "add" => AddOK(x)'
    <3>1. SUFFICES ASSUME u.op = "add" PROVE AddOK(x)'
      OBVIOUS
    <3>2. AddOK(x)
      BY <1>3, <3>1 DEF WriterOK, u
    <3> QED
      BY <2>2, <3>2 DEF AddOK, u, v
  <2>5. u.op = "drop" => DropOK(x)'
    <3>1. SUFFICES ASSUME u.op = "drop" PROVE DropOK(x)'
      OBVIOUS
    <3>2. DropOK(x)
      BY <1>3, <3>1 DEF WriterOK, u
    <3> QED
      BY <2>2, <2>3, <3>2 DEF DropOK, u, v
  <2>6. u.op = "put" => PutOK(x)'
    <3>1. SUFFICES ASSUME u.op = "put" PROVE PutOK(x)'
      OBVIOUS
    <3>2. PutOK(x)
      BY <1>3, <3>1 DEF WriterOK, u
    <3> QED
      BY <2>2, <2>3, <3>1, <3>2 DEF PutOK, Appending, u, v
  <2>7. u.op = "remove" => RemoveOK(x)'
    <3>1. SUFFICES ASSUME u.op = "remove" PROVE RemoveOK(x)'
      OBVIOUS
    <3>2. RemoveOK(x)
      BY <1>3, <3>1 DEF WriterOK, u
    <3> QED
      BY <2>2, <2>3, <3>1, <3>2 DEF RemoveOK, u
  <2> QED
    BY <1>3, <2>2, <2>4, <2>5, <2>6, <2>7 DEF WriterOK, u
<1> QED
  BY <1>2, <1>3

\* A writer's step that leaves the others what they have.
LEMMA WorkFrom ==
  ASSUME StateOK, WorkOK, NEW w \in Writers, WriterOK(w)',
         \A x \in Writers \ {w} :
           /\ pc'[x] = pc[x] /\ work'[x] = work[x] /\ line'[x] = line[x]
           /\ logLock = x => logLock' = x
           /\ compactLock = x => compactLock' = x
           /\ refLock = x => refLock' = x /\ counts' = counts
           /\ \A k \in Keys : keyLock[k] = x => keyLock'[k] = x /\ manifests'[k] = manifests[k]
  PROVE  WorkOK'
<1>1. ASSUME NEW x \in Writers \ {w} PROVE WriterOK(x)'
  <2>1. WriterOK(x)
    BY DEF WorkOK
  <2> QED
    BY <2>1, OtherOK
<1> QED
  BY <1>1 DEF WorkOK

\* A writer that goes on with the same update and the same line.
LEMMA OwnSame ==
  ASSUME StateOK, NEW w \in Writers, WriterOK(w), pc[w] # "idle",
         work'[w] = work[w], line'[w] = line[w], UNCHANGED <<counts, manifests, refLock, keyLock>>,
         \/ pc[w] \in Appending /\ pc'[w] \in Appending /\ (pc'[w] = "sync" => Boundary(line[w]))
         \/ pc[w] \in {"compact?"} \cup Compaction /\ pc'[w] \in {"compact?"} \cup Compaction,
         pc'[w] \in {"newline", "sync"} => logLock' = w,
         pc'[w] \in Compaction => compactLock' = w
  PROVE  WriterOK(w)'
<1>1. Doing(w)' = Doing(w) /\ work'[w][2] = work[w][2]
  BY DEF Doing
<1>2. Doing(w) \in Updates
  BY WorkIs
<1> DEFINE u == Doing(w)
<1>3. u.op \in {"add", "drop", "put", "remove"}
  BY <1>2, UpdateIs
<1>4. pc[w] \in Appending => (Boundary(line[w]) <=> u.op \in {"put", "remove"})
  BY LineIs
<1> HIDE DEF u
<1>5. u.op \in {"add", "drop"} => pc[w] \in Appending /\ pc'[w] \in {"line", "newline", "apply"}
  <2>1. u.op \in {"add", "drop"} => pc[w] \in {"begin", "line", "newline", "apply"}
    BY DEF WriterOK, AddOK, DropOK, u
  <2> QED
    BY <1>4, <2>1 DEF Appending, Compaction
<1>6. u.op = "add" => AddOK(w)'
  <2>1. SUFFICES ASSUME u.op = "add" PROVE AddOK(w)'
    OBVIOUS
  <2>2. AddOK(w)
    BY <2>1 DEF WriterOK, u
  <2> QED
    BY <1>1, <1>5, <2>1, <2>2 DEF AddOK, Appending
<1>7. u.op = "drop" => DropOK(w)'
  <2>1. SUFFICES ASSUME u.op = "drop" PROVE DropOK(w)'
    OBVIOUS
  <2>2. DropOK(w)
    BY <2>1 DEF WriterOK, u
  <2> QED
    BY <1>1, <1>5, <2>1, <2>2 DEF DropOK, Appending
<1>8. u.op = "put" => PutOK(w)'
  <2>1. SUFFICES ASSUME u.op = "put" PROVE PutOK(w)'
    OBVIOUS
  <2>2. PutOK(w)
    BY <2>1 DEF WriterOK, u
  <2> QED
    BY <1>1, <2>1, <2>2 DEF PutOK, Appending, Compaction
<1>9. u.op = "remove" => RemoveOK(w)'
  <2>1. SUFFICES ASSUME u.op = "remove" PROVE RemoveOK(w)'
    OBVIOUS
  <2>2. RemoveOK(w)
    BY <2>1 DEF WriterOK, u
  <2> QED
    BY <1>1, <2>1, <2>2 DEF RemoveOK, Appending, Compaction
<1>10. pc'[w] # "idle" /\ work'[w] # <<>>
  BY DEF WriterOK, Appending, Compaction
<1> QED
  BY <1>1, <1>6, <1>7, <1>8, <1>9, <1>10 DEF WriterOK, u

\* One label more.
LEMMA GotoIs ==
  ASSUME StateOK, NEW w \in Writers, NEW l \in Labels, Goto(w, l)
  PROVE  pc' \in [Writers -> Labels] /\ pc'[w] = l /\ \A x \in Writers \ {w} : pc'[x] = pc[x]
BY Types DEF Goto

\* Operations begin in order.
LEMMA CallWork ==
  ASSUME StateOK, WorkOK, NEW w \in Writers,
         (\E k \in Keys, c \in Chunks : Store(w, k, c)) \/ (\E k \in Keys : Delete(w, k))
  PROVE  StateOK' /\ WorkOK'
<1>1. WriterOK(w)
  BY DEF WorkOK
<1>t. manifests \in [Keys -> Chunks \cup {None}] /\ keyLock \in [Keys -> Writers \cup {None}]
      /\ work \in [Writers -> Seq(Updates)]
  BY Types
<1>2. CASE \E k \in Keys, c \in Chunks : Store(w, k, c)
  <2> PICK k \in Keys, c \in Chunks : Store(w, k, c)
    BY <1>2
  <2> DEFINE a == Update("add", None, c)
             b == Update("put", k, c)
             s == <<a, b>>
  <2>1. a \in Updates /\ b \in Updates /\ a.op = "add" /\ b.op = "put" /\ b.chunk = a.chunk
    BY DEF Update, Updates
  <2>2. Call(w, s) /\ keyLock' = keyLock
    BY DEF Store
  <2> HIDE DEF a, b
  <2>3. s \in Seq(Updates) /\ Len(s) = 2 /\ s[1] = a /\ s[2] = b /\ s # <<>>
    BY <2>1
  <2> HIDE DEF s
  <2>4. work' = [work EXCEPT ![w] = s] /\ Goto(w, "begin")
    BY <2>2 DEF Call
  <2>5. work' \in [Writers -> Seq(Updates)] /\ work'[w] = s /\ \A x \in Writers \ {w} : work'[x] = work[x]
    BY <1>t, <2>3, <2>4
  <2>6. pc' \in [Writers -> Labels] /\ pc'[w] = "begin" /\ \A x \in Writers \ {w} : pc'[x] = pc[x]
    BY <2>4, GotoIs DEF Labels
  <2>7. UNCHANGED <<memVars, fileVars, entries, lockVars, line, up, histVars, faults, restarts>> /\ ops' = ops + 1
    BY <2>2 DEF Call, lockVars
  <2>8. WriterOK(w)'
    BY <2>1, <2>3, <2>5, <2>6 DEF WriterOK, AddOK, Doing, Compaction
  <2>9. WorkOK'
    <3>1. UNCHANGED <<manifests, counts, logLock, refLock, compactLock, keyLock, line>>
      BY <2>7 DEF memVars, lockVars
    <3> QED
      BY <2>5, <2>6, <2>8, <3>1, WorkFrom
  <2>10. StateOK'
    <3>1. UNCHANGED <<manifests, counts, disk, tmp, stable, handle, entries, logLock, refLock, compactLock,
                      keyLock, line, up, raced, may, faults, restarts>>
      BY <2>7 DEF memVars, fileVars, lockVars, histVars
    <3>2. ops' \in Nat
      BY <2>7, Types
    <3> QED
      BY <2>5, <2>6, <3>1, <3>2, Types, StateFrom
  <2> QED
    BY <2>9, <2>10
<1>3. CASE \E k \in Keys : Delete(w, k)
  <2> PICK k \in Keys : Delete(w, k)
    BY <1>3
  <2> DEFINE a == Update("drop", None, manifests[k])
             b == Update("remove", k, None)
             s == <<a, b>>
  <2>1. a \in Updates /\ b \in Updates /\ a.op = "drop" /\ b.op = "remove" /\ a.chunk = manifests[k] /\ b.key = k
    <3>1. manifests[k] \in Chunks
      BY <1>t DEF Delete
    <3> QED
      BY <3>1 DEF Update, Updates
  <2>2. Call(w, s) /\ keyLock' = [keyLock EXCEPT ![k] = w] /\ keyLock[k] = None
    BY DEF Delete
  <2> HIDE DEF a, b
  <2>3. s \in Seq(Updates) /\ Len(s) = 2 /\ s[1] = a /\ s[2] = b /\ s # <<>>
    BY <2>1
  <2> HIDE DEF s
  <2>4. work' = [work EXCEPT ![w] = s] /\ Goto(w, "begin")
    BY <2>2 DEF Call
  <2>5. work' \in [Writers -> Seq(Updates)] /\ work'[w] = s /\ \A x \in Writers \ {w} : work'[x] = work[x]
    BY <1>t, <2>3, <2>4
  <2>6. pc' \in [Writers -> Labels] /\ pc'[w] = "begin" /\ \A x \in Writers \ {w} : pc'[x] = pc[x]
    BY <2>4, GotoIs DEF Labels
  <2>7. UNCHANGED <<memVars, fileVars, entries, logLock, refLock, compactLock, line, up, histVars, faults, restarts>>
        /\ ops' = ops + 1
    BY <2>2 DEF Call
  <2>8. keyLock' \in [Keys -> Writers \cup {None}] /\ keyLock'[k] = w
        /\ \A x \in Writers \ {w} : \A j \in Keys : keyLock[j] = x => keyLock'[j] = x
    BY <1>t, <2>2, NoneIs
  <2>9. WriterOK(w)'
    BY <2>1, <2>3, <2>5, <2>6, <2>7, <2>8 DEF WriterOK, DropOK, Doing, Compaction, memVars
  <2>10. WorkOK'
    <3>1. UNCHANGED <<manifests, counts, logLock, refLock, compactLock, line>>
      BY <2>7 DEF memVars
    <3> QED
      BY <2>5, <2>6, <2>8, <2>9, <3>1, WorkFrom
  <2>11. StateOK'
    <3>1. UNCHANGED <<manifests, counts, disk, tmp, stable, handle, entries, logLock, refLock, compactLock,
                      line, up, raced, may, faults, restarts>>
      BY <2>7 DEF memVars, fileVars, histVars
    <3>2. ops' \in Nat
      BY <2>7, Types
    <3> QED
      BY <2>5, <2>6, <2>8, <3>1, <3>2, Types, StateFrom
  <2> QED
    BY <2>10, <2>11
<1> QED
  BY <1>2, <1>3

\* A count is read under chunk_ref_lock.
LEMMA AddWork ==
  ASSUME StateOK, WorkOK, NEW w \in Writers, AddChunkRef(w)
  PROVE  StateOK' /\ WorkOK'
<1> DEFINE u == Doing(w)
<1>1. WriterOK(w) /\ pc[w] = "begin" /\ pc[w] # "idle"
  BY DEF WorkOK, AddChunkRef
<1>2. u \in Updates /\ u = Head(work[w]) /\ work[w] # <<>>
  BY <1>1, WorkIs DEF WriterOK
<1>3. u.op = "add" /\ refLock = None /\ refLock' = w
      /\ line' = [line EXCEPT ![w] = Count(u.chunk, counts[u.chunk] + 1)] /\ Goto(w, "line")
      /\ UNCHANGED <<memVars, fileVars, entries, logLock, compactLock, keyLock, work, up, histVars, boundVars>>
  BY <1>2 DEF AddChunkRef
<1> DEFINE e == Count(u.chunk, counts[u.chunk] + 1)
<1>4. e \in Item
  <2>1. u.chunk \in Chunks
    BY <1>2, <1>3, UpdateIs
  <2>2. counts[u.chunk] + 1 \in Nat
    BY <2>1, Types
  <2> QED
    BY <2>1, <2>2 DEF Count, Item, Entry
<1>5. AddOK(w) /\ Doing(w)' = u
  BY <1>1, <1>3 DEF WriterOK, Doing
<1> HIDE DEF u
<1>6. UNCHANGED <<manifests, counts, disk, tmp, stable, handle, entries, logLock, compactLock,
                  keyLock, work, up, raced, may, ops, faults, restarts>>
  BY <1>3 DEF memVars, fileVars, histVars, boundVars
<1>7. pc' \in [Writers -> Labels] /\ pc'[w] = "line" /\ \A x \in Writers \ {w} : pc'[x] = pc[x]
  BY <1>3, GotoIs DEF Labels, Appending
<1> HIDE DEF e
<1>8. line' \in [Writers -> Item] /\ line'[w] = e /\ \A x \in Writers \ {w} : line'[x] = line[x]
  BY <1>3, <1>4, Types DEF e
<1>9. StateOK'
  BY <1>3, <1>6, <1>7, <1>8, Types, StateFrom
<1>10. AddOK(w)'
  <2>1. line'[w] = Count(Doing(w)'.chunk, counts'[Doing(w)'.chunk] + 1)
    BY <1>5, <1>6, <1>8 DEF e
  <2> QED
    BY <1>3, <1>5, <1>6, <1>7, <2>1 DEF AddOK, u
<1>11. WriterOK(w)'
  BY <1>2, <1>3, <1>5, <1>6, <1>7, <1>10 DEF WriterOK, Compaction
<1> QED
  BY <1>3, <1>6, <1>7, <1>8, <1>9, <1>11, NoneIs, WorkFrom

\* So is one that goes down; an absent chunk writes nothing.
LEMMA DecrementWork ==
  ASSUME StateOK, WorkOK, NEW w \in Writers, DecrementChunkRef(w)
  PROVE  StateOK' /\ WorkOK'
<1> DEFINE u == Doing(w)
<1>1. WriterOK(w) /\ pc[w] = "begin" /\ pc[w] # "idle"
  BY DEF WorkOK, DecrementChunkRef
<1>2. u \in Updates /\ u = Head(work[w]) /\ work[w] # <<>>
  BY <1>1, WorkIs DEF WriterOK
<1>3. u.op = "drop" /\ refLock = None
      /\ \/ /\ counts[u.chunk] > 0 /\ refLock' = w
            /\ line' = [line EXCEPT ![w] = Count(u.chunk, counts[u.chunk] - 1)] /\ Goto(w, "line")
            /\ UNCHANGED <<keyLock, work>>
         \/ counts[u.chunk] = 0 /\ Advance(w)
      /\ UNCHANGED <<memVars, fileVars, entries, logLock, compactLock, up, histVars, boundVars>>
  BY <1>2 DEF DecrementChunkRef
<1>4. u.chunk \in Chunks
  BY <1>2, <1>3, UpdateIs
<1>6. UNCHANGED <<manifests, counts, disk, tmp, stable, handle, entries, logLock, compactLock,
                  up, raced, may, ops, faults, restarts>>
  BY <1>3 DEF memVars, fileVars, histVars, boundVars
<1>7. DropOK(w)
  BY <1>1, <1>3 DEF WriterOK
<1>8. CASE /\ counts[u.chunk] > 0 /\ refLock' = w
           /\ line' = [line EXCEPT ![w] = Count(u.chunk, counts[u.chunk] - 1)] /\ Goto(w, "line")
           /\ UNCHANGED <<keyLock, work>>
  <2> DEFINE e == Count(u.chunk, counts[u.chunk] - 1)
  <2>1. e \in Item
    <3>1. counts[u.chunk] - 1 \in Nat
      BY <1>4, <1>8, Types, SMTT(40)
    <3> QED
      BY <1>4, <3>1 DEF Count, Item, Entry
  <2>2. Doing(w)' = u
    BY <1>8 DEF Doing
  <2> HIDE DEF u
  <2>3. pc' \in [Writers -> Labels] /\ pc'[w] = "line" /\ \A x \in Writers \ {w} : pc'[x] = pc[x]
    BY <1>8, GotoIs DEF Labels, Appending
  <2> HIDE DEF e
  <2>4. line' \in [Writers -> Item] /\ line'[w] = e /\ \A x \in Writers \ {w} : line'[x] = line[x]
    BY <1>8, <2>1, Types DEF e
  <2>5. StateOK'
    BY <1>6, <1>8, <2>3, <2>4, Types, StateFrom
  <2>6. DropOK(w)'
    <3>1. line'[w] = Count(Doing(w)'.chunk, counts'[Doing(w)'.chunk] - 1) /\ counts'[Doing(w)'.chunk] > 0
      BY <1>6, <1>8, <2>2, <2>4 DEF e
    <3> QED
      BY <1>6, <1>7, <1>8, <2>2, <2>3, <3>1 DEF DropOK, u
  <2>7. WriterOK(w)'
    BY <1>2, <1>3, <1>8, <2>2, <2>3, <2>6 DEF WriterOK, Compaction
  <2> QED
    BY <1>3, <1>6, <1>8, <2>3, <2>4, <2>5, <2>7, NoneIs, WorkFrom
<1>9. CASE counts[u.chunk] = 0 /\ Advance(w)
  <2>1. /\ pc' \in [Writers -> Labels] /\ work' \in [Writers -> Seq(Updates)] /\ line' = line
        /\ refLock' \in Writers \cup {None} /\ keyLock' \in [Keys -> Writers \cup {None}]
        /\ WriterOK(w)'
        /\ \A x \in Writers \ {w} :
              /\ pc'[x] = pc[x] /\ work'[x] = work[x] /\ (refLock = x => refLock' = x)
              /\ \A k \in Keys : keyLock[k] = x => keyLock'[k] = x
    BY <1>1, <1>9, AdvanceOK
  <2>2. StateOK'
    BY <1>6, <2>1, Types, StateFrom
  <2> QED
    BY <1>6, <2>1, <2>2, WorkFrom
<1> QED
  BY <1>3, <1>8, <1>9

\* put_manifest reads what it replaces under the key's lock.
LEMMA PutWork ==
  ASSUME StateOK, WorkOK, NEW w \in Writers, PutManifest(w)
  PROVE  StateOK' /\ WorkOK'
<1> DEFINE u == Doing(w)
<1>1. WriterOK(w) /\ pc[w] = "begin" /\ pc[w] # "idle"
  BY DEF WorkOK, PutManifest
<1>2. u \in Updates /\ u = Head(work[w]) /\ work[w] # <<>>
  BY <1>1, WorkIs DEF WriterOK
<1>3. u.op = "put" /\ keyLock[u.key] = None /\ keyLock' = [keyLock EXCEPT ![u.key] = w]
      /\ line' = [line EXCEPT ![w] = Manifest(u.key, u.chunk)]
      /\ work' = [work EXCEPT ![w] = IF manifests[u.key] = None THEN @
                                     ELSE Append(@, Update("drop", None, manifests[u.key]))]
      /\ Goto(w, "line")
      /\ UNCHANGED <<memVars, fileVars, entries, logLock, refLock, compactLock, up, histVars, boundVars>>
  BY <1>2 DEF PutManifest
<1>4. u.key \in Keys /\ u.chunk \in Chunks
  BY <1>2, <1>3, UpdateIs
<1>5. UNCHANGED <<manifests, counts, disk, tmp, stable, handle, entries, logLock, refLock, compactLock,
                  up, raced, may, ops, faults, restarts>>
  BY <1>3 DEF memVars, fileVars, histVars, boundVars
<1>6. PutOK(w) /\ Len(work[w]) = 1 /\ work[w] = <<u>>
  <2>1. PutOK(w)
    BY <1>1, <1>3 DEF WriterOK
  <2>2. Len(work[w]) = 1
    BY <1>1, <2>1 DEF PutOK
  <2> QED
    BY <1>1, <2>1, <2>2, WorkIs
<1> HIDE DEF u
<1> DEFINE m == manifests[u.key]
           d == Update("drop", None, m)
           s == IF m = None THEN <<u>> ELSE <<u, d>>
<1>7. d.op = "drop" /\ d.chunk = m /\ (m # None => d \in Updates) /\ m \in Chunks \cup {None}
  <2>1. m \in Chunks \cup {None}
    BY <1>4, Types
  <2> QED
    BY <2>1 DEF Update, Updates
<1> HIDE DEF d, m
<1>8. /\ s \in Seq(Updates) /\ s # <<>> /\ s[1] = u /\ (Len(s) = 1 \/ Len(s) = 2) /\ (Len(s) = 1 <=> m = None)
      /\ Len(s) = 2 => s[2] = d
  <2>1. CASE m = None
    BY <1>2, <2>1
  <2>2. CASE m # None
    BY <1>2, <1>7, <2>2
  <2> QED
    BY <2>1, <2>2
<1>9. work' = [work EXCEPT ![w] = s]
  <2>1. Append(<<u>>, d) = <<u, d>>
    <3> DEFINE S == {u, d}
               l == Append(<<u>>, d)
               r == <<u, d>>
    <3>1. <<u>> \in Seq(S) /\ Len(<<u>>) = 1 /\ <<u>>[1] = u /\ d \in S
      OBVIOUS
    <3>2. l \in Seq(S) /\ Len(l) = 1 + 1 /\ l[1] = u /\ l[1 + 1] = d
      BY <3>1, AppendProperties
    <3>3. r \in Seq(S) /\ Len(r) = 2 /\ r[1] = u /\ r[2] = d
      OBVIOUS
    <3> HIDE DEF l, r
    <3>4. \A i \in 1..2 : l[i] = r[i]
      BY <3>2, <3>3
    <3>5. l = r
      BY <3>2, <3>3, <3>4, SeqEqual
    <3> QED
      BY <3>5 DEF l, r
  <2>2. work' = [work EXCEPT ![w] = IF m = None THEN work[w] ELSE Append(work[w], d)]
    BY <1>3 DEF m, d
  <2> QED
    BY <1>6, <2>1, <2>2
<1> HIDE DEF s
<1>10. work' \in [Writers -> Seq(Updates)] /\ work'[w] = s /\ \A x \in Writers \ {w} : work'[x] = work[x]
  BY <1>8, <1>9, Types
<1>11. pc' \in [Writers -> Labels] /\ pc'[w] = "line" /\ \A x \in Writers \ {w} : pc'[x] = pc[x]
  BY <1>3, GotoIs DEF Labels, Appending
<1> DEFINE e == Manifest(u.key, u.chunk)
<1>12. e \in Item
  BY <1>4 DEF Manifest, Item, Entry
<1> HIDE DEF e
<1>13. line' \in [Writers -> Item] /\ line'[w] = e /\ \A x \in Writers \ {w} : line'[x] = line[x]
  BY <1>3, <1>12, Types DEF e
<1>14. keyLock' \in [Keys -> Writers \cup {None}] /\ keyLock'[u.key] = w
       /\ \A x \in Writers \ {w} : \A j \in Keys : keyLock[j] = x => keyLock'[j] = x
  BY <1>3, <1>4, Types, NoneIs
<1>15. StateOK'
  BY <1>5, <1>10, <1>11, <1>13, <1>14, Types, StateFrom
<1>16. Doing(w)' = u
  BY <1>8, <1>10 DEF Doing
<1>17. PutOK(w)'
  <2>1. line'[w] = Manifest(Doing(w)'.key, Doing(w)'.chunk)
    BY <1>13, <1>16 DEF e
  <2>2. manifests'[Doing(w)'.key] = m
    BY <1>5, <1>16 DEF m
  <2> QED
    BY <1>7, <1>8, <1>10, <1>11, <1>14, <1>16, <2>1, <2>2 DEF PutOK
<1>18. WriterOK(w)'
  BY <1>3, <1>8, <1>10, <1>11, <1>16, <1>17 DEF WriterOK, Compaction
<1> QED
  BY <1>5, <1>10, <1>11, <1>13, <1>14, <1>15, <1>18, WorkFrom

\* delete_manifest, under the lock delete has.
LEMMA RemoveWork ==
  ASSUME StateOK, WorkOK, NEW w \in Writers, DeleteManifest(w)
  PROVE  StateOK' /\ WorkOK'
<1> DEFINE u == Doing(w)
<1>1. WriterOK(w) /\ pc[w] = "begin" /\ pc[w] # "idle"
  BY DEF WorkOK, DeleteManifest
<1>2. u \in Updates /\ u = Head(work[w]) /\ work[w] # <<>>
  BY <1>1, WorkIs DEF WriterOK
<1>3. u.op = "remove" /\ line' = [line EXCEPT ![w] = Manifest(u.key, None)] /\ Goto(w, "line")
      /\ UNCHANGED <<memVars, fileVars, entries, lockVars, work, up, histVars, boundVars>>
  BY <1>2 DEF DeleteManifest
<1>4. u.key \in Keys
  BY <1>2, <1>3, UpdateIs
<1> DEFINE e == Manifest(u.key, None)
<1>5. e \in Item
  BY <1>4 DEF Manifest, Item, Entry
<1>6. UNCHANGED <<manifests, counts, disk, tmp, stable, handle, entries, logLock, refLock, compactLock,
                  keyLock, work, up, raced, may, ops, faults, restarts>>
  BY <1>3 DEF memVars, fileVars, lockVars, histVars, boundVars
<1>7. RemoveOK(w) /\ Doing(w)' = u
  BY <1>1, <1>3, <1>6 DEF WriterOK, Doing
<1> HIDE DEF u
<1>8. pc' \in [Writers -> Labels] /\ pc'[w] = "line" /\ \A x \in Writers \ {w} : pc'[x] = pc[x]
  BY <1>3, GotoIs DEF Labels, Appending
<1> HIDE DEF e
<1>9. line' \in [Writers -> Item] /\ line'[w] = e /\ \A x \in Writers \ {w} : line'[x] = line[x]
  BY <1>3, <1>5, Types DEF e
<1>10. StateOK'
  BY <1>6, <1>8, <1>9, Types, StateFrom
<1>11. RemoveOK(w)'
  BY <1>6, <1>7, <1>8, <1>9 DEF RemoveOK, Appending, e, u
<1>12. WriterOK(w)'
  BY <1>2, <1>3, <1>6, <1>7, <1>8, <1>11 DEF WriterOK, Compaction
<1> QED
  BY <1>6, <1>8, <1>9, <1>10, <1>12, WorkFrom

\* A write makes the file longer, or another file.
LEMMA WriteIs ==
  ASSUME StateOK, NEW x \in Item, Write(x)
  PROVE  /\ disk' \in Seq(Item) /\ stable \in 0..Len(disk') /\ Len(disk') \in Nat
         /\ handle = "log" => disk' = Append(disk, x)
         /\ handle # "log" => disk' = disk
<1>1. disk \in Seq(Item) /\ Len(disk) \in Nat /\ stable \in 0..Len(disk)
  BY Types
<1>2. Append(disk, x) \in Seq(Item) /\ Len(Append(disk, x)) = Len(disk) + 1
  BY <1>1, AppendProperties
<1>3. disk' = IF handle = "log" THEN Append(disk, x) ELSE disk
  BY DEF Write
<1>4. CASE handle = "log"
  <2>1. stable \in 0..(Len(disk) + 1) /\ Len(disk) + 1 \in Nat
    BY <1>1
  <2> QED
    BY <1>2, <1>3, <1>4, <2>1
<1>5. CASE handle # "log"
  BY <1>1, <1>3, <1>5
<1> QED
  BY <1>4, <1>5

\* The text of a line, its newline, and the sync.
LEMMA LineWork ==
  ASSUME StateOK, WorkOK, NEW w \in Writers, AppendLine(w) \/ AppendNewline(w) \/ Sync(w)
  PROVE  StateOK' /\ WorkOK'
<1>1. WriterOK(w)
  BY DEF WorkOK
<1>2. pc[w] \in Appending /\ pc[w] # "idle"
  BY DEF AppendLine, AppendNewline, Sync, Appending
<1>3. line[w] \in Item /\ NL \in Item
  BY Types DEF Item
<1>4. CASE AppendLine(w)
  <2>1. /\ pc[w] = "line" /\ logLock = None /\ logLock' = w /\ Write(line[w]) /\ Goto(w, "newline")
        /\ raced' = (raced \/ Astray)
        /\ UNCHANGED <<memVars, stable, handle, tmp, entries, refLock, compactLock, keyLock,
                 work, line, up, may, boundVars>>
    BY <1>4 DEF AppendLine
  <2>2. UNCHANGED <<manifests, counts, tmp, stable, handle, entries, refLock, compactLock,
                    keyLock, work, line, up, may, ops, faults, restarts>>
    BY <2>1 DEF memVars, boundVars
  <2>3. pc' \in [Writers -> Labels] /\ pc'[w] = "newline" /\ \A x \in Writers \ {w} : pc'[x] = pc[x]
    BY <2>1, GotoIs DEF Labels, Appending
  <2>4. disk' \in Seq(Item) /\ stable \in 0..Len(disk')
    BY <1>3, <2>1, WriteIs
  <2>5. raced' \in BOOLEAN
    BY <2>1, Types DEF Astray, LineCut, Compacting
  <2>6. StateOK'
    BY <2>1, <2>2, <2>3, <2>4, <2>5, Types, StateFrom
  <2>7. WriterOK(w)'
    BY <1>1, <1>2, <2>1, <2>2, <2>3, OwnSame DEF Appending, Compaction
  <2> QED
    BY <2>1, <2>2, <2>3, <2>6, <2>7, NoneIs, WorkFrom
<1>5. CASE AppendNewline(w)
  <2>1. /\ pc[w] = "newline" /\ Write(NL)
        /\ \/ Boundary(line[w]) /\ Goto(w, "sync") /\ UNCHANGED <<logLock, entries>>
           \/ ~Boundary(line[w]) /\ Goto(w, "apply") /\ logLock' = None /\ entries' = entries + 1
        /\ UNCHANGED <<memVars, stable, handle, tmp, refLock, compactLock, keyLock, work, line,
                 up, histVars, boundVars>>
    BY <1>5 DEF AppendNewline
  <2>2. UNCHANGED <<manifests, counts, tmp, stable, handle, refLock, compactLock,
                    keyLock, work, line, up, may, raced, ops, faults, restarts>>
    BY <2>1 DEF memVars, histVars, boundVars
  <2>3. logLock = w
    BY <1>1, <2>1 DEF WriterOK
  <2>4. pc' \in [Writers -> Labels] /\ (\A x \in Writers \ {w} : pc'[x] = pc[x])
        /\ pc'[w] \in {"sync", "apply"} /\ (pc'[w] = "sync" => Boundary(line[w]) /\ logLock' = logLock)
        /\ logLock' \in {None, logLock} /\ entries' \in Nat
    <3>1. "sync" \in Labels /\ "apply" \in Labels
      BY DEF Labels, Appending
    <3>2. entries \in Nat /\ entries + 1 \in Nat
      BY Types
    <3> QED
      BY <2>1, <3>1, <3>2, GotoIs
  <2>5. disk' \in Seq(Item) /\ stable \in 0..Len(disk')
    BY <1>3, <2>1, WriteIs
  <2>6. StateOK'
    BY <2>2, <2>4, <2>5, Types, StateFrom
  <2>7. WriterOK(w)'
    BY <1>1, <1>2, <2>1, <2>2, <2>3, <2>4, OwnSame DEF Appending, Compaction
  <2> QED
    BY <2>2, <2>3, <2>4, <2>6, <2>7, WorkFrom
<1>6. CASE Sync(w)
  <2>1. /\ pc[w] = "sync" /\ stable' = (IF handle = "log" THEN Len(disk) ELSE stable)
        /\ logLock' = None /\ entries' = entries + 1 /\ Goto(w, "apply")
        /\ UNCHANGED <<memVars, disk, handle, tmp, refLock, compactLock, keyLock, work, line,
                 up, histVars, boundVars>>
    BY <1>6 DEF Sync
  <2>2. UNCHANGED <<manifests, counts, disk, tmp, handle, refLock, compactLock,
                    keyLock, work, line, up, may, raced, ops, faults, restarts>>
    BY <2>1 DEF memVars, histVars, boundVars
  <2>3. logLock = w
    BY <1>1, <2>1 DEF WriterOK
  <2>4. pc' \in [Writers -> Labels] /\ pc'[w] = "apply" /\ \A x \in Writers \ {w} : pc'[x] = pc[x]
    BY <2>1, GotoIs DEF Labels, Appending
  <2>5. stable' \in 0..Len(disk) /\ entries' \in Nat
    <3>1. Len(disk) \in Nat /\ stable \in 0..Len(disk) /\ entries + 1 \in Nat
      BY Types
    <3>2. Len(disk) \in 0..Len(disk)
      BY <3>1
    <3> QED
      BY <2>1, <3>1, <3>2
  <2>6. StateOK'
    BY <2>1, <2>2, <2>4, <2>5, Types, StateFrom
  <2>7. WriterOK(w)'
    BY <1>1, <1>2, <2>2, <2>4, OwnSame DEF Appending, Compaction
  <2> QED
    BY <2>1, <2>2, <2>3, <2>4, <2>6, <2>7, WorkFrom
<1> QED
  BY <1>4, <1>5, <1>6

\* What Apply does to the memory, and that others do not rely on it.
LEMMA ApplyIs ==
  ASSUME StateOK, WorkOK, NEW w \in Writers, Apply(w)
  PROVE  /\ pc[w] = "apply" /\ (\A x \in Writers : pc[x] # "snapshot") /\ WriterOK(w)
         /\ UNCHANGED <<disk, stable, handle, tmp, entries, logLock, compactLock, up, raced, ops, faults, restarts>>
         /\ Boundary(line[w]) =>
              /\ manifests' = [manifests EXCEPT ![line[w].key] = line[w].val] /\ counts' = counts
              /\ Goto(w, "compact?") /\ may' = [may EXCEPT ![line[w].key] = {line[w].val}]
              /\ UNCHANGED <<refLock, keyLock, work, line>>
         /\ ~Boundary(line[w]) =>
              /\ counts' = [counts EXCEPT ![line[w].key] = line[w].val] /\ manifests' = manifests
              /\ Advance(w) /\ may' = may
         /\ manifests' \in [Keys -> Chunks \cup {None}] /\ counts' \in [Chunks -> Nat]
<1> DEFINE s == [manifests |-> manifests, counts |-> counts]
           e == line[w]
           t == apply_entry(s, e)
<1>1. WriterOK(w) /\ pc[w] = "apply"
  BY DEF WorkOK, Apply
<1>2. e \in Entry
  BY <1>1, LineIs DEF Appending
<1>3. s \in States /\ s.manifests = manifests /\ s.counts = counts
  BY Types DEF States
<1>4. /\ manifests' = t.manifests /\ counts' = t.counts
      /\ \/ /\ Boundary(e) /\ Goto(w, "compact?") /\ may' = [may EXCEPT ![e.key] = {e.val}]
            /\ UNCHANGED <<refLock, keyLock, work, line>>
         \/ ~Boundary(e) /\ Advance(w) /\ UNCHANGED may
      /\ \A x \in Writers : pc[x] # "snapshot"
      /\ UNCHANGED <<fileVars, entries, logLock, compactLock, up, raced, boundVars>>
  BY DEF Apply
<1> HIDE DEF s, e
<1>5. /\ t \in States
      /\ Boundary(e) => t.manifests = [s.manifests EXCEPT ![e.key] = e.val] /\ t.counts = s.counts
      /\ ~Boundary(e) => t.counts = [s.counts EXCEPT ![e.key] = e.val] /\ t.manifests = s.manifests
  BY <1>2, <1>3, Applied
<1> HIDE DEF t
<1>6. t.manifests \in [Keys -> Chunks \cup {None}] /\ t.counts \in [Chunks -> Nat]
  BY <1>5 DEF States
<1>7. UNCHANGED <<disk, stable, handle, tmp, entries, logLock, compactLock, up, raced, ops, faults, restarts>>
  BY <1>4 DEF fileVars, boundVars
<1>8. Boundary(e) => /\ manifests' = [manifests EXCEPT ![e.key] = e.val] /\ counts' = counts
              /\ Goto(w, "compact?") /\ may' = [may EXCEPT ![e.key] = {e.val}]
              /\ UNCHANGED <<refLock, keyLock, work, line>>
  BY <1>3, <1>4, <1>5
<1>9. ~Boundary(e) => /\ counts' = [counts EXCEPT ![e.key] = e.val] /\ manifests' = manifests
              /\ Advance(w) /\ may' = may
  BY <1>3, <1>4, <1>5
<1> QED
  BY <1>1, <1>4, <1>6, <1>7, <1>8, <1>9 DEF e

\* The memory is updated under the lock its entry was made under.
LEMMA ApplyWork ==
  ASSUME StateOK, WorkOK, NEW w \in Writers, Apply(w)
  PROVE  StateOK' /\ WorkOK'
<1>1. pc[w] = "apply" /\ WriterOK(w) /\ pc[w] # "idle" /\ pc[w] \in Appending
  BY ApplyIs DEF Appending
<1>2. /\ UNCHANGED <<disk, stable, handle, tmp, entries, logLock, compactLock, up, raced, ops, faults, restarts>>
      /\ manifests' \in [Keys -> Chunks \cup {None}] /\ counts' \in [Chunks -> Nat]
  BY ApplyIs
<1>3. CASE Boundary(line[w])
  <2>1. /\ manifests' = [manifests EXCEPT ![line[w].key] = line[w].val] /\ counts' = counts
        /\ Goto(w, "compact?") /\ may' = [may EXCEPT ![line[w].key] = {line[w].val}]
        /\ UNCHANGED <<refLock, keyLock, work, line>>
    BY <1>3, ApplyIs
  <2>2. line[w].key \in Keys /\ line[w].val \in Chunks \cup {None} /\ keyLock[line[w].key] = w
        /\ line[w].key = Doing(w).key /\ line[w].val = Doing(w).chunk /\ Doing(w).op \in {"put", "remove"}
    BY <1>1, <1>3, LineIs
  <2> DEFINE k == line[w].key
             v == line[w].val
  <2> HIDE DEF k, v
  <2>3. may' \in [Keys -> SUBSET (Chunks \cup {None})]
    BY <2>1, <2>2, Types DEF k, v
  <2>4. pc' \in [Writers -> Labels] /\ pc'[w] = "compact?" /\ \A x \in Writers \ {w} : pc'[x] = pc[x]
    BY <2>1, GotoIs DEF Labels
  <2>5. StateOK'
    BY <1>2, <2>1, <2>3, <2>4, Types, StateFrom
  <2>6. manifests \in [Keys -> Chunks \cup {None}]
    BY Types
  <2>7. manifests'[k] = v /\ \A j \in Keys : j # k => manifests'[j] = manifests[j]
    BY <2>1, <2>2, <2>6 DEF k, v
  <2>8. \A x \in Writers \ {w} : \A j \in Keys : keyLock[j] = x => manifests'[j] = manifests[j]
    BY <2>2, <2>7 DEF k
  <2>9. Doing(w)' = Doing(w) /\ work'[w][2] = work[w][2] /\ work'[w] = work[w]
    BY <2>1 DEF Doing
  <2>10. Doing(w) \in Updates
    BY <1>1, WorkIs
  <2>11. CASE Doing(w).op = "put"
    <3>1. PutOK(w)
      BY <1>1, <2>11 DEF WriterOK
    <3>2. PutOK(w)'
      BY <1>1, <2>1, <2>4, <2>9, <3>1 DEF PutOK, Appending
    <3> QED
      BY <1>1, <2>1, <2>2, <2>4, <2>5, <2>8, <2>9, <2>11, <3>2, <1>2, WorkFrom DEF WriterOK, Compaction
  <2>12. CASE Doing(w).op = "remove"
    <3>1. RemoveOK(w)
      BY <1>1, <2>12 DEF WriterOK
    <3>2. v = None
      BY <2>2, <2>10, <2>12, UpdateIs DEF v
    <3>3. RemoveOK(w)'
      BY <1>1, <2>1, <2>2, <2>4, <2>7, <2>9, <3>1, <3>2 DEF RemoveOK, Appending, k
    <3> QED
      BY <1>1, <2>1, <2>2, <2>4, <2>5, <2>8, <2>9, <2>12, <3>3, <1>2, WorkFrom DEF WriterOK, Compaction
  <2> QED
    BY <2>2, <2>11, <2>12
<1>4. CASE ~Boundary(line[w])
  <2>1. manifests' = manifests /\ Advance(w) /\ may' = may
    BY <1>4, ApplyIs
  <2>2. refLock = w
    BY <1>1, <1>4, LineIs
  <2>3. /\ pc' \in [Writers -> Labels] /\ work' \in [Writers -> Seq(Updates)] /\ line' = line
        /\ refLock' \in Writers \cup {None} /\ keyLock' \in [Keys -> Writers \cup {None}]
        /\ WriterOK(w)'
        /\ \A x \in Writers \ {w} :
              /\ pc'[x] = pc[x] /\ work'[x] = work[x] /\ (refLock = x => refLock' = x)
              /\ \A k \in Keys : keyLock[k] = x => keyLock'[k] = x
    BY <1>1, <2>1, AdvanceOK
  <2>4. StateOK'
    BY <1>2, <2>1, <2>3, Types, StateFrom
  <2> QED
    BY <1>2, <2>1, <2>2, <2>3, <2>4, WorkFrom
<1> QED
  BY <1>3, <1>4

\* compact's steps under its lock.
LEMMA CompactWork ==
  ASSUME StateOK, WorkOK, NEW w \in Writers,
         StartCompaction(w) \/ DropState(w) \/ RenameLog(w) \/ SwapHandle(w)
  PROVE  StateOK' /\ WorkOK'
<1>1. WriterOK(w)
  BY DEF WorkOK
<1>2. pc[w] \in {"compact?"} \cup Compaction /\ pc[w] # "idle"
  BY DEF StartCompaction, DropState, RenameLog, SwapHandle, Compaction
<1>3. \A l \in Compaction : l \in Labels
  BY DEF Labels
<1>4. CASE StartCompaction(w)
  <2>1. /\ compactLock = None /\ compactLock' = w /\ tmp' = Snapshot /\ Goto(w, "snapshot")
        /\ raced' = (raced \/ \E x \in Writers : pc[x] \in {"newline", "sync", "apply"})
        /\ UNCHANGED <<memVars, disk, stable, handle, entries, logLock, refLock, keyLock, work,
                 line, up, may, boundVars>>
    BY <1>4 DEF StartCompaction
  <2>2. UNCHANGED <<manifests, counts, disk, stable, handle, entries, logLock, refLock,
                    keyLock, work, line, up, may, ops, faults, restarts>>
    BY <2>1 DEF memVars, boundVars
  <2>3. pc' \in [Writers -> Labels] /\ pc'[w] = "snapshot" /\ \A x \in Writers \ {w} : pc'[x] = pc[x]
    BY <1>3, <2>1, GotoIs DEF Compaction
  <2>4. tmp' \in Seq(Item) /\ raced' \in BOOLEAN
    BY <2>1, Types, SnapshotIs
  <2>5. StateOK'
    BY <2>1, <2>2, <2>3, <2>4, Types, StateFrom
  <2>6. WriterOK(w)'
    BY <1>1, <1>2, <2>1, <2>2, <2>3, OwnSame DEF Compaction
  <2> QED
    BY <2>1, <2>2, <2>3, <2>5, <2>6, NoneIs, WorkFrom
<1>5. CASE DropState(w)
  <2>1. pc[w] = "snapshot" /\ Goto(w, "rename")
        /\ UNCHANGED <<memVars, fileVars, entries, lockVars, work, line, up, histVars, boundVars>>
    BY <1>5 DEF DropState
  <2>2. UNCHANGED <<manifests, counts, disk, stable, handle, tmp, entries, logLock, refLock, compactLock,
                    keyLock, work, line, up, may, raced, ops, faults, restarts>>
    BY <2>1 DEF memVars, fileVars, lockVars, histVars, boundVars
  <2>3. pc' \in [Writers -> Labels] /\ pc'[w] = "rename" /\ \A x \in Writers \ {w} : pc'[x] = pc[x]
    BY <1>3, <2>1, GotoIs DEF Compaction
  <2>4. StateOK'
    BY <2>2, <2>3, Types, StateFrom
  <2>5. compactLock = w
    BY <1>1, <2>1 DEF WriterOK, Compaction
  <2>6. WriterOK(w)'
    BY <1>1, <1>2, <2>2, <2>3, <2>5, OwnSame DEF Compaction
  <2> QED
    BY <2>2, <2>3, <2>4, <2>6, WorkFrom
<1>6. CASE RenameLog(w)
  <2>1. pc[w] = "rename" /\ disk' = tmp /\ stable' = Len(tmp) /\ handle' = "unlinked" /\ Goto(w, "reopen")
        /\ UNCHANGED <<memVars, tmp, entries, lockVars, work, line, up, histVars, boundVars>>
    BY <1>6 DEF RenameLog
  <2>2. UNCHANGED <<manifests, counts, tmp, entries, logLock, refLock, compactLock,
                    keyLock, work, line, up, may, raced, ops, faults, restarts>>
    BY <2>1 DEF memVars, lockVars, histVars, boundVars
  <2>3. pc' \in [Writers -> Labels] /\ pc'[w] = "reopen" /\ \A x \in Writers \ {w} : pc'[x] = pc[x]
    BY <1>3, <2>1, GotoIs DEF Compaction
  <2>4. disk' \in Seq(Item) /\ stable' \in 0..Len(disk')
    <3>1. tmp \in Seq(Item)
      BY Types
    <3>2. Len(tmp) \in 0..Len(tmp)
      BY <3>1
    <3> QED
      BY <2>1, <3>1, <3>2
  <2>5. StateOK'
    BY <2>1, <2>2, <2>3, <2>4, Types, StateFrom
  <2>6. compactLock = w
    BY <1>1, <2>1 DEF WriterOK, Compaction
  <2>7. WriterOK(w)'
    BY <1>1, <1>2, <2>2, <2>3, <2>6, OwnSame DEF Compaction
  <2> QED
    BY <2>2, <2>3, <2>5, <2>7, WorkFrom
<1>7. CASE SwapHandle(w)
  <2>1. pc[w] = "reopen" /\ handle' = "log" /\ Goto(w, "settle")
        /\ UNCHANGED <<memVars, disk, stable, tmp, entries, lockVars, work, line, up, histVars, boundVars>>
    BY <1>7 DEF SwapHandle
  <2>2. UNCHANGED <<manifests, counts, disk, stable, tmp, entries, logLock, refLock, compactLock,
                    keyLock, work, line, up, may, raced, ops, faults, restarts>>
    BY <2>1 DEF memVars, lockVars, histVars, boundVars
  <2>3. pc' \in [Writers -> Labels] /\ pc'[w] = "settle" /\ \A x \in Writers \ {w} : pc'[x] = pc[x]
    BY <1>3, <2>1, GotoIs DEF Compaction
  <2>4. StateOK'
    BY <2>1, <2>2, <2>3, Types, StateFrom
  <2>5. compactLock = w
    BY <1>1, <2>1 DEF WriterOK, Compaction
  <2>6. WriterOK(w)'
    BY <1>1, <1>2, <2>2, <2>3, <2>5, OwnSame DEF Compaction
  <2> QED
    BY <2>2, <2>3, <2>4, <2>6, WorkFrom
<1> QED
  BY <1>4, <1>5, <1>6, <1>7

\* What the steps that end an update or an operation do besides.
LEMMA EndsWork ==
  ASSUME StateOK, WorkOK, NEW w \in Writers,
         SkipCompaction(w) \/ EndCompaction(w) \/ CompactionFails(w)
  PROVE  StateOK' /\ WorkOK'
<1>1. WriterOK(w)
  BY DEF WorkOK
<1>2. /\ pc[w] # "idle" /\ Advance(w)
      /\ UNCHANGED <<manifests, counts, disk, stable, handle, logLock, up, may, raced, ops, restarts>>
  BY DEF SkipCompaction, EndCompaction, CompactionFails, memVars, fileVars, histVars, boundVars
<1>3. tmp' \in {tmp, <<>>} /\ faults' \in {faults, faults + 1} /\ entries' \in {entries, Len(tmp) \div 2}
  BY DEF SkipCompaction, EndCompaction, CompactionFails, Fault, fileVars, boundVars
<1>4. compactLock' = compactLock \/ (compactLock' = None /\ pc[w] \in Compaction)
  BY DEF SkipCompaction, EndCompaction, CompactionFails, Compaction
<1>5. /\ pc' \in [Writers -> Labels] /\ work' \in [Writers -> Seq(Updates)] /\ line' = line
      /\ refLock' \in Writers \cup {None} /\ keyLock' \in [Keys -> Writers \cup {None}]
      /\ WriterOK(w)'
      /\ \A x \in Writers \ {w} :
            /\ pc'[x] = pc[x] /\ work'[x] = work[x] /\ (refLock = x => refLock' = x)
            /\ \A k \in Keys : keyLock[k] = x => keyLock'[k] = x
  BY <1>1, <1>2, AdvanceOK
<1>6. tmp' \in Seq(Item) /\ faults' \in Nat /\ entries' \in Nat /\ compactLock' \in Writers \cup {None}
  <2>1. tmp \in Seq(Item) /\ faults \in Nat /\ entries \in Nat /\ compactLock \in Writers \cup {None}
    BY Types
  <2>2. Len(tmp) \div 2 \in Nat
    <3>1. Len(tmp) \in Nat
      BY <2>1
    <3> QED
      BY <3>1
  <2>3. <<>> \in Seq(Item)
    OBVIOUS
  <2>4. faults + 1 \in Nat
    BY <2>1
  <2>5. tmp' \in Seq(Item)
    BY <1>3, <2>1, <2>3
  <2>6. faults' \in Nat
    BY <1>3, <2>1, <2>4
  <2>7. entries' \in Nat
    BY <1>3, <2>1, <2>2
  <2>8. compactLock' \in Writers \cup {None}
    BY <1>4, <2>1
  <2> QED
    BY <2>5, <2>6, <2>7, <2>8
<1>7. StateOK'
  BY <1>2, <1>5, <1>6, Types, StateFrom
<1>8. \A x \in Writers \ {w} : compactLock = x => compactLock' = x
  BY <1>1, <1>4 DEF WriterOK
<1> QED
  BY <1>2, <1>5, <1>7, <1>8, WorkFrom

\* A failed append: the operation returns with its locks released.
LEMMA FailsWork ==
  ASSUME StateOK, WorkOK, NEW w \in Writers, AppendFails(w)
  PROVE  StateOK' /\ WorkOK' /\ pc[w] \in {"line", "newline", "sync"}
<1>1. WriterOK(w)
  BY DEF WorkOK
<1>2. /\ faults' = faults + 1
      /\ \/ /\ pc[w] = "line" /\ logLock = None
            /\ disk' = disk \/ Write(Torn)
            /\ raced' = (raced \/ LineCut)
         \/ /\ pc[w] \in {"newline", "sync"}
            /\ UNCHANGED <<disk, raced>>
      /\ logLock' = (IF logLock = w THEN None ELSE logLock)
      /\ may' = [k \in Keys |-> IF Boundary(line[w]) /\ line[w].key = k
                           THEN may[k] \cup {line[w].val} ELSE may[k]]
      /\ Goto(w, "idle")
      /\ work' = [work EXCEPT ![w] = <<>>]
      /\ refLock' = (IF refLock = w THEN None ELSE refLock)
      /\ keyLock' = [k \in Keys |-> IF keyLock[k] = w THEN None ELSE keyLock[k]]
      /\ UNCHANGED line
      /\ UNCHANGED <<memVars, stable, handle, tmp, entries, compactLock, up, ops, restarts>>
  BY DEF AppendFails, Fault, Leave
<1>3. UNCHANGED <<manifests, counts, stable, handle, tmp, entries, compactLock, up, ops, restarts, line>>
  BY <1>2 DEF memVars
<1>4. pc[w] \in {"line", "newline", "sync"} /\ pc[w] \in Appending
  BY <1>2 DEF Appending
<1>5. pc' \in [Writers -> Labels] /\ pc'[w] = "idle" /\ \A x \in Writers \ {w} : pc'[x] = pc[x]
  BY <1>2, GotoIs DEF Labels
<1>6. work' \in [Writers -> Seq(Updates)] /\ work'[w] = <<>> /\ \A x \in Writers \ {w} : work'[x] = work[x]
  <2>1. <<>> \in Seq(Updates)
    OBVIOUS
  <2> QED
    BY <1>2, <2>1, Types
<1>7. refLock' \in Writers \cup {None} /\ logLock' \in Writers \cup {None} /\ keyLock' \in [Keys -> Writers \cup {None}]
      /\ \A x \in Writers \ {w} : /\ refLock = x => refLock' = x
                                  /\ logLock = x => logLock' = x
                                  /\ \A k \in Keys : keyLock[k] = x => keyLock'[k] = x
  BY <1>2, Types
<1>8. may' \in [Keys -> SUBSET (Chunks \cup {None})]
  <2>1. Boundary(line[w]) => line[w].val \in Chunks \cup {None}
    BY <1>1, <1>4, LineIs
  <2>2. may \in [Keys -> SUBSET (Chunks \cup {None})]
    BY Types
  <2> DEFINE v == line[w].val
             b(k) == Boundary(line[w]) /\ line[w].key = k
  <2>3. may' = [k \in Keys |-> IF b(k) THEN may[k] \cup {v} ELSE may[k]] /\ \A k \in Keys : b(k) => v \in Chunks \cup {None}
    BY <1>2, <2>1
  <2> HIDE DEF v, b
  <2> QED
    BY <2>2, <2>3
<1>9. disk' \in Seq(Item) /\ stable \in 0..Len(disk')
  BY <1>2, Types, WriteIs DEF Item
<1>10. raced' \in BOOLEAN /\ faults' \in Nat
  <2>1. raced \in BOOLEAN /\ faults \in Nat
    BY Types
  <2>2. raced' = raced \/ raced' = (raced \/ LineCut)
    BY <1>2
  <2>3. raced' \in BOOLEAN
    BY <2>1, <2>2 DEF LineCut
  <2>4. faults' \in Nat
    BY <1>2, <2>1
  <2> QED
    BY <2>3, <2>4
<1>11. StateOK'
  BY <1>3, <1>5, <1>6, <1>7, <1>8, <1>9, <1>10, Types, StateFrom
<1>12. WriterOK(w)'
  BY <1>5, <1>6 DEF WriterOK, Compaction
<1>13. WorkOK'
  BY <1>3, <1>5, <1>6, <1>7, <1>11, <1>12, WorkFrom
<1> QED
  BY <1>4, <1>11, <1>13

\* A restart: nobody is in an operation, and the memory is what the log gives.
LEMMA RestartIs ==
  ASSUME StateOK, NEW items \in Seq(Item), NEW sound \in BOOLEAN, Restart(items, sound),
         ~sound => items = disk, faults' \in Nat, may' \in [Keys -> SUBSET (Chunks \cup {None})]
  PROVE  /\ StateOK' /\ WorkOK'
         /\ \A x \in Writers : pc'[x] = "idle" /\ work'[x] = <<>>
         /\ manifests' = Replay(items).state.manifests /\ counts' = Replay(items).state.counts
         /\ disk' = IF Replay(items).stopped THEN SubSeq(items, 1, Replay(items).good) ELSE items
         /\ stable' = IF Replay(items).stopped \/ sound THEN Len(disk') ELSE stable
         /\ handle' = "log" /\ raced' = raced /\ restarts' = restarts + 1
<1> DEFINE r == Replay(items)
<1>1. /\ r.state \in States /\ r.read \in Nat /\ r.good \in 0..Len(items)
      /\ r.stopped \in BOOLEAN /\ r.failed \in BOOLEAN
  BY ReplayType
<1>2. /\ up' = ~r.failed
      /\ manifests' = r.state.manifests /\ counts' = r.state.counts
      /\ disk' = (IF r.stopped THEN SubSeq(items, 1, r.good) ELSE items)
      /\ stable' = (IF r.stopped \/ sound THEN Len(disk') ELSE stable)
      /\ entries' = r.read
      /\ handle' = "log" /\ tmp' = <<>>
      /\ logLock' = None /\ refLock' = None /\ compactLock' = None
      /\ keyLock' = [k \in Keys |-> None]
      /\ pc' = [x \in Writers |-> "idle"]
      /\ work' = [x \in Writers |-> <<>>]
      /\ restarts' = restarts + 1
      /\ UNCHANGED <<line, raced, ops>>
  BY DEF Restart
<1> HIDE DEF r
<1>3. disk' \in Seq(Item) /\ stable' \in 0..Len(disk')
  <2>1. disk' \in Seq(Item)
    <3>1. SubSeq(items, 1, r.good) \in Seq(Item)
      BY <1>1, Prefix
    <3> QED
      BY <1>2, <3>1
  <2>2. Len(disk') \in Nat
    BY <2>1
  <2>3. CASE r.stopped \/ sound
    <3>1. stable' = Len(disk')
      BY <1>2, <2>3
    <3> QED
      BY <2>1, <2>2, <3>1
  <2>4. CASE ~(r.stopped \/ sound)
    <3>1. stable' = stable /\ disk' = disk
      BY <1>2, <2>4
    <3> QED
      BY <3>1, Types
  <2> QED
    BY <2>1, <2>3, <2>4
<1>4. manifests' \in [Keys -> Chunks \cup {None}] /\ counts' \in [Chunks -> Nat]
  BY <1>1, <1>2 DEF States
<1>5. <<>> \in Seq(Item) /\ <<>> \in Seq(Updates) /\ "idle" \in Labels
  BY DEF Labels
<1>6. pc' \in [Writers -> Labels] /\ work' \in [Writers -> Seq(Updates)]
      /\ \A x \in Writers : pc'[x] = "idle" /\ work'[x] = <<>>
  BY <1>2, <1>5
<1>7. keyLock' \in [Keys -> Writers \cup {None}] /\ up' \in BOOLEAN /\ restarts' \in Nat
  BY <1>1, <1>2, Types, SMTT(40)
<1>8. StateOK'
  <2>1. handle' \in {"log", "unlinked"} /\ tmp' \in Seq(Item) /\ entries' \in Nat
        /\ logLock' \in Writers \cup {None} /\ refLock' \in Writers \cup {None} /\ compactLock' \in Writers \cup {None}
    BY <1>1, <1>2, <1>5
  <2>2. line' \in [Writers -> Item] /\ raced' \in BOOLEAN /\ ops' \in Nat
    BY <1>2, Types
  <2> QED
    BY <1>3, <1>4, <1>6, <1>7, <2>1, <2>2, StateFrom
<1>9. WorkOK'
  BY <1>6 DEF WorkOK, WriterOK, Compaction
<1> QED
  BY <1>2, <1>6, <1>8, <1>9 DEF r

-----------------------------------------------------------------------------
(* Steps that neither write to the log nor change the memory *)

Quiet(w) ==
  \/ (\E k \in Keys, c \in Chunks : Store(w, k, c)) \/ (\E k \in Keys : Delete(w, k))
  \/ AddChunkRef(w) \/ DecrementChunkRef(w) \/ PutManifest(w) \/ DeleteManifest(w)
  \/ SkipCompaction(w) \/ StartCompaction(w) \/ DropState(w) \/ SwapHandle(w)
  \/ EndCompaction(w) \/ CompactionFails(w)

\* They keep the types and what each writer is about.
LEMMA QuietWork ==
  ASSUME StateOK, WorkOK, NEW w \in Writers, Quiet(w)
  PROVE  StateOK' /\ WorkOK'
BY CallWork, AddWork, DecrementWork, PutWork, RemoveWork, CompactWork, EndsWork DEF Quiet

\* What such a step leaves alone, and who is between the log and the memory.
LEMMA QuietIs ==
  ASSUME StateOK, WorkOK, NEW w \in Writers, Quiet(w)
  PROVE  /\ UNCHANGED <<disk, stable, manifests, counts, may>>
         /\ ~raced' => ~raced
         /\ faults' = 0 => faults = 0
         /\ \A x \in Writers \ {w} : pc'[x] = pc[x] /\ line'[x] = line[x]
         /\ ~Pending(w) /\ ~Pending(w)'
         /\ pc[w] \in {"idle", "begin", "compact?"} \cup Compaction
         /\ pc'[w] \in {"idle", "begin", "line", "compact?"} \cup Compaction
<1>1. WriterOK(w) /\ faults \in Nat
  BY Types DEF WorkOK
<1> DEFINE Out == /\ UNCHANGED <<disk, stable, manifests, counts, may>>
                  /\ (~raced' => ~raced) /\ (faults' = 0 => faults = 0)
                  /\ \A x \in Writers \ {w} : pc'[x] = pc[x] /\ line'[x] = line[x]
                  /\ pc[w] \in {"idle", "begin", "compact?"} \cup Compaction
                  /\ pc'[w] \in {"idle", "begin", "line", "compact?"} \cup Compaction
<1>2. ASSUME (\E k \in Keys, c \in Chunks : Store(w, k, c)) \/ (\E k \in Keys : Delete(w, k)) PROVE Out
  <2>1. pc[w] = "idle" /\ Goto(w, "begin")
        /\ UNCHANGED <<memVars, fileVars, line, histVars, faults>>
    BY <1>2 DEF Store, Delete, Call
  <2>2. pc'[w] = "begin" /\ \A x \in Writers \ {w} : pc'[x] = pc[x]
    BY <2>1, GotoIs DEF Labels
  <2>3. UNCHANGED <<disk, stable, manifests, counts, may, raced, faults, line>>
    BY <2>1 DEF memVars, fileVars, histVars
  <2> QED
    BY <2>1, <2>2, <2>3
<1>3. ASSUME AddChunkRef(w) \/ PutManifest(w) \/ DeleteManifest(w) PROVE Out
  <2>1. pc[w] = "begin" /\ Goto(w, "line") /\ (\E e : line' = [line EXCEPT ![w] = e])
        /\ UNCHANGED <<memVars, fileVars, histVars, boundVars>>
    BY <1>3 DEF AddChunkRef, PutManifest, DeleteManifest
  <2>2. pc'[w] = "line" /\ \A x \in Writers \ {w} : pc'[x] = pc[x]
    BY <2>1, GotoIs DEF Labels, Appending
  <2>3. UNCHANGED <<disk, stable, manifests, counts, may, raced, faults>>
    BY <2>1 DEF memVars, fileVars, histVars, boundVars
  <2>4. \A x \in Writers \ {w} : line'[x] = line[x]
    BY <2>1, Types
  <2> QED
    BY <2>1, <2>2, <2>3, <2>4
<1>4. ASSUME DecrementChunkRef(w) PROVE Out
  <2>1. pc[w] = "begin" /\ UNCHANGED <<memVars, fileVars, histVars, boundVars>>
        /\ \/ Goto(w, "line") /\ \E e : line' = [line EXCEPT ![w] = e]
           \/ Advance(w)
    BY <1>4 DEF DecrementChunkRef
  <2>2. UNCHANGED <<disk, stable, manifests, counts, may, raced, faults>>
    BY <2>1 DEF memVars, fileVars, histVars, boundVars
  <2>3. CASE Goto(w, "line") /\ \E e : line' = [line EXCEPT ![w] = e]
    <3>1. pc'[w] = "line" /\ \A x \in Writers \ {w} : pc'[x] = pc[x]
      BY <2>3, GotoIs DEF Labels, Appending
    <3>2. \A x \in Writers \ {w} : line'[x] = line[x]
      BY <2>3, Types
    <3> QED
      BY <2>1, <2>2, <3>1, <3>2
  <2>4. CASE Advance(w)
    <3>1. line' = line /\ (\A x \in Writers \ {w} : pc'[x] = pc[x]) /\ pc'[w] \in {"begin", "idle"}
      BY <1>1, <2>1, <2>4, AdvanceOK
    <3> QED
      BY <2>1, <2>2, <3>1
  <2> QED
    BY <2>1, <2>3, <2>4
<1>5. ASSUME SkipCompaction(w) \/ EndCompaction(w) \/ CompactionFails(w) PROVE Out
  <2>1. /\ pc[w] # "idle" /\ Advance(w) /\ pc[w] \in {"compact?"} \cup Compaction
        /\ UNCHANGED <<manifests, counts, disk, stable, may, raced>>
        /\ faults' = faults \/ faults' = faults + 1
    BY <1>5 DEF SkipCompaction, EndCompaction, CompactionFails, memVars, fileVars, histVars, boundVars,
                Compaction, Fault
  <2>2. line' = line /\ (\A x \in Writers \ {w} : pc'[x] = pc[x]) /\ pc'[w] \in {"begin", "idle"}
    BY <1>1, <2>1, AdvanceOK
  <2>3. faults' = 0 => faults = 0
    BY <1>1, <2>1
  <2> QED
    BY <2>1, <2>2, <2>3
<1>6. ASSUME StartCompaction(w) PROVE Out
  <2>1. pc[w] = "compact?" /\ Goto(w, "snapshot") /\ (~raced' => ~raced)
        /\ UNCHANGED <<memVars, disk, stable, line, may, boundVars>>
    BY <1>6 DEF StartCompaction
  <2>2. pc'[w] = "snapshot" /\ \A x \in Writers \ {w} : pc'[x] = pc[x]
    BY <2>1, GotoIs DEF Labels, Compaction
  <2>3. UNCHANGED <<disk, stable, manifests, counts, may, faults, line>>
    BY <2>1 DEF memVars, boundVars
  <2> QED
    BY <2>1, <2>2, <2>3 DEF Compaction
<1>7. ASSUME DropState(w) \/ SwapHandle(w) PROVE Out
  <2>1. pc[w] \in Compaction /\ (\E l \in Compaction : Goto(w, l))
        /\ UNCHANGED <<memVars, disk, stable, line, histVars, boundVars>>
    BY <1>7 DEF DropState, SwapHandle, fileVars, Compaction
  <2>2. pc'[w] \in Compaction /\ \A x \in Writers \ {w} : pc'[x] = pc[x]
    BY <2>1, GotoIs DEF Labels
  <2>3. UNCHANGED <<disk, stable, manifests, counts, may, raced, faults, line>>
    BY <2>1 DEF memVars, histVars, boundVars
  <2> QED
    BY <2>1, <2>2, <2>3
<1>8. Out
  <2> HIDE DEF Out
  <2> QED
    BY <1>2, <1>3, <1>4, <1>5, <1>6, <1>7 DEF Quiet
<1> QED
  BY <1>8 DEF Pending, Compaction

\* What the log holds, and who is on the way to the memory, stays the same.
LEMMA QuietLog ==
  ASSUME StateOK, WorkOK, SurviveOK, AheadOK, NEW w \in Writers, Quiet(w)
  PROVE  /\ SurviveOK' /\ AheadOK'
         /\ \A x \in Writers : (Pending(x)' <=> Pending(x)) /\ (Pending(x) => pc'[x] = pc[x] /\ line'[x] = line[x])
<1>1. /\ UNCHANGED <<disk, stable, manifests, counts, may>>
      /\ (~raced' => ~raced) /\ (faults' = 0 => faults = 0)
      /\ \A x \in Writers \ {w} : pc'[x] = pc[x] /\ line'[x] = line[x]
      /\ ~Pending(w) /\ ~Pending(w)'
  BY QuietIs
<1>2. \A x \in Writers : (Pending(x)' <=> Pending(x)) /\ (Pending(x) => pc'[x] = pc[x] /\ line'[x] = line[x])
  BY <1>1 DEF Pending
<1>3. ASSUME NEW k PROVE Written(k)' = Written(k)
  BY <1>2 DEF Written
<1>4. ASSUME NEW n PROVE Logged(n)' = Logged(n)
  BY <1>1 DEF Logged
<1>5. SurviveOK'
  <2>1. SUFFICES ASSUME ~raced' PROVE SurviveOK'
    BY DEF SurviveOK
  <2>2. /\ \A k \in Keys : manifests[k] \in may[k]
        /\ \A n \in stable..Len(disk), k \in Keys : Logged(n).manifests[k] \in may[k] \cup Written(k)
        /\ \A x \in Writers : Pending(x) /\ Boundary(line[x]) =>
             /\ Logged(Len(disk)).manifests[line[x].key] = line[x].val
             /\ pc[x] = "apply" =>
                  \A n \in stable..Len(disk) : Logged(n).manifests[line[x].key] = line[x].val
    BY <1>1, <2>1 DEF SurviveOK
  <2>3. \A n \in stable'..Len(disk'), k \in Keys : Logged(n)'.manifests[k] \in may'[k] \cup Written(k)'
    BY <1>1, <1>3, <1>4, <2>2
  <2>4. Logged(Len(disk))' = Logged(Len(disk))
    BY <1>1 DEF Logged
  <2>5. ASSUME NEW x \in Writers, Pending(x)', Boundary(line'[x])
        PROVE  /\ Logged(Len(disk))'.manifests[line'[x].key] = line'[x].val
               /\ pc'[x] = "apply" => \A n \in stable'..Len(disk') : Logged(n)'.manifests[line'[x].key] = line'[x].val
    BY <1>1, <1>2, <1>4, <2>2, <2>4, <2>5
  <2> QED
    BY <1>1, <2>2, <2>3, <2>5 DEF SurviveOK
<1>6. AheadOK'
  <2>1. SUFFICES ASSUME faults' = 0, ~raced' PROVE AheadOK'
    BY DEF AheadOK
  <2>2. /\ \A k \in Keys :
             (\A x \in Writers : Pending(x) /\ Boundary(line[x]) => line[x].key # k)
               => Logged(Len(disk)).manifests[k] = manifests[k]
        /\ \A c \in Chunks :
             (\A x \in Writers : Pending(x) /\ ~Boundary(line[x]) => line[x].key # c)
               => Logged(Len(disk)).counts[c] = counts[c]
        /\ \A x \in Writers :
             Pending(x) /\ ~Boundary(line[x]) => Logged(Len(disk)).counts[line[x].key] = line[x].val
    BY <1>1, <2>1 DEF AheadOK
  <2>3. Logged(Len(disk))' = Logged(Len(disk))
    BY <1>1 DEF Logged
  <2> QED
    BY <1>1, <1>2, <2>2, <2>3 DEF AheadOK
<1> QED
  BY <1>2, <1>5, <1>6

\* Compaction starts when nothing is on its way, and is alone.
LEMMA QuietFile ==
  ASSUME StateOK, WorkOK, FileOK, NEW w \in Writers, Quiet(w)
  PROVE  FileOK'
<1>1. /\ UNCHANGED <<disk, stable, manifests, counts, may>>
      /\ (~raced' => ~raced)
      /\ \A x \in Writers \ {w} : pc'[x] = pc[x] /\ line'[x] = line[x]
      /\ ~Pending(w) /\ ~Pending(w)'
      /\ pc'[w] \in {"idle", "begin", "line", "compact?"} \cup Compaction
  BY QuietIs
<1>2. WriterOK(w) /\ (\A x \in Writers : WriterOK(x)) /\ compactLock \in Writers \cup {None}
  BY Types DEF WorkOK
<1>3. SUFFICES ASSUME ~raced' PROVE FileOK'
  BY DEF FileOK
<1>4. /\ Clean(disk)
      /\ \A x \in Writers :
           /\ Pending(x) => handle = "log" /\ ~Compacting
           /\ pc[x] = "newline" => disk # <<>> /\ Last(disk) = line[x]
           /\ pc[x] \in {"snapshot", "rename"} => tmp = Snapshot
  BY <1>1, <1>3 DEF FileOK
<1>5. Snapshot' = Snapshot
  BY <1>1 DEF Snapshot, Live
<1>6. \A x \in Writers : (Pending(x)' <=> Pending(x)) /\ (Pending(x) => pc'[x] = pc[x] /\ line'[x] = line[x])
  BY <1>1 DEF Pending
<1>7. ASSUME handle' = handle, Compacting' => Compacting,
             \A x \in Writers : pc'[x] \in {"snapshot", "rename"} => tmp' = Snapshot
      PROVE  FileOK'
  <2>1. \A x \in Writers : Pending(x)' => handle' = "log" /\ ~Compacting'
    BY <1>4, <1>6, <1>7
  <2>2. \A x \in Writers : pc'[x] = "newline" => disk # <<>> /\ Last(disk) = line'[x]
    BY <1>1, <1>4 DEF Pending
  <2> QED
    BY <1>1, <1>4, <1>5, <1>7, <2>1, <2>2 DEF FileOK
<1>8. CASE SkipCompaction(w) \/ AddChunkRef(w) \/ DecrementChunkRef(w) \/ PutManifest(w) \/ DeleteManifest(w)
           \/ (\E k \in Keys, c \in Chunks : Store(w, k, c)) \/ (\E k \in Keys : Delete(w, k))
  <2>1. UNCHANGED fileVars /\ pc[w] \in {"idle", "begin", "compact?"} /\ (Goto(w, "begin") \/ Goto(w, "line") \/ (Advance(w) /\ pc[w] # "idle"))
    BY <1>8 DEF SkipCompaction, AddChunkRef, DecrementChunkRef, PutManifest, DeleteManifest, Store, Delete, Call
  <2>2. pc'[w] \in {"idle", "begin", "line"}
    <3>1. CASE Goto(w, "begin") \/ Goto(w, "line")
      BY <3>1, GotoIs DEF Labels, Appending
    <3>2. CASE Advance(w) /\ pc[w] # "idle"
      BY <1>2, <3>2, AdvanceOK
    <3> QED
      BY <2>1, <3>1, <3>2
  <2>3. Compacting' => Compacting
    BY <1>1, <2>2 DEF Compacting
  <2>4. \A x \in Writers : pc'[x] \in {"snapshot", "rename"} => tmp' = Snapshot
    BY <1>1, <1>4, <2>1, <2>2 DEF fileVars
  <2> QED
    BY <1>7, <2>1, <2>3, <2>4 DEF fileVars
<1>9. CASE EndCompaction(w) \/ CompactionFails(w)
  <2>1. handle' = handle /\ pc[w] \in Compaction /\ Advance(w) /\ pc[w] # "idle"
    BY <1>9 DEF EndCompaction, CompactionFails, Compaction
  <2>2. pc'[w] \in {"idle", "begin"}
    BY <1>2, <2>1, AdvanceOK
  <2>3. compactLock = w /\ \A x \in Writers \ {w} : pc[x] \notin Compaction
    BY <1>2, <2>1 DEF WriterOK
  <2>4. Compacting' => Compacting
    BY <1>1, <2>2 DEF Compacting
  <2>5. \A x \in Writers : pc'[x] \in {"snapshot", "rename"} => tmp' = Snapshot
    BY <1>1, <2>2, <2>3 DEF Compaction
  <2> QED
    BY <1>7, <2>1, <2>4, <2>5
<1>10. CASE SwapHandle(w)
  <2>1. handle' = "log" /\ tmp' = tmp /\ Goto(w, "settle")
    BY <1>10 DEF SwapHandle
  <2>2. pc'[w] = "settle"
    BY <2>1, GotoIs DEF Labels, Compaction
  <2>3. Compacting' => Compacting
    BY <1>1, <2>2 DEF Compacting
  <2>4. \A x \in Writers : Pending(x)' => handle' = "log" /\ ~Compacting'
    BY <1>4, <1>6, <2>1, <2>3
  <2>5. \A x \in Writers : pc'[x] = "newline" => disk # <<>> /\ Last(disk) = line'[x]
    BY <1>1, <1>4 DEF Pending
  <2>6. \A x \in Writers : pc'[x] \in {"snapshot", "rename"} => tmp' = Snapshot
    BY <1>1, <1>4, <2>1, <2>2
  <2> QED
    BY <1>1, <1>4, <1>5, <2>4, <2>5, <2>6 DEF FileOK
<1>11. CASE DropState(w)
  <2>1. UNCHANGED fileVars /\ pc[w] = "snapshot" /\ Goto(w, "rename")
    BY <1>11 DEF DropState
  <2>2. pc'[w] = "rename"
    BY <2>1, GotoIs DEF Labels, Compaction
  <2>3. Compacting
    BY <2>1 DEF Compacting
  <2>4. \A x \in Writers : pc'[x] \in {"snapshot", "rename"} => tmp' = Snapshot
    BY <1>1, <1>4, <2>1, <2>2 DEF fileVars
  <2> QED
    BY <1>7, <2>1, <2>3, <2>4 DEF fileVars
<1>12. CASE StartCompaction(w)
  <2>1. tmp' = Snapshot /\ compactLock = None /\ \A x \in Writers : ~Pending(x)
    BY <1>3, <1>12 DEF StartCompaction, Pending
  <2>2. \A x \in Writers : ~Pending(x)' /\ pc'[x] # "newline"
    BY <1>6, <2>1 DEF Pending
  <2> QED
    BY <1>1, <1>4, <1>5, <2>1, <2>2 DEF FileOK
<1> QED
  BY <1>8, <1>9, <1>10, <1>11, <1>12 DEF Quiet

-----------------------------------------------------------------------------
(* Steps that write to the log or change the memory *)

\* What the log replays to.
LEMMA LoggedType ==
  ASSUME StateOK
  PROVE  /\ \A n \in 0..Len(disk) : Logged(n) \in States
         /\ Logged(Len(disk)) = Replay(disk).state
         /\ Len(disk) \in 0..Len(disk) /\ \A n \in stable..Len(disk) : n \in 0..Len(disk)
<1>1. disk \in Seq(Item) /\ Len(disk) \in Nat /\ stable \in 0..Len(disk)
  BY Types
<1>2. ASSUME NEW n \in 0..Len(disk) PROVE Logged(n) \in States
  BY <1>1, Prefix, ReplayType DEF Logged
<1>3. SubSeq(disk, 1, Len(disk)) = disk
  BY <1>1, SubSeqFull
<1>4. Logged(Len(disk)) = Replay(disk).state
  BY <1>3 DEF Logged
<1>5. Len(disk) \in 0..Len(disk) /\ \A n \in stable..Len(disk) : n \in 0..Len(disk)
  BY <1>1
<1> QED
  BY <1>2, <1>4, <1>5

\* With one item more.
LEMMA LoggedMore ==
  ASSUME StateOK, NEW x \in Item, Clean(Append(disk, x)), disk' = Append(disk, x)
  PROVE  /\ Len(disk') = Len(disk) + 1
         /\ \A n \in 0..Len(disk) : Logged(n)' = Logged(n)
         /\ Logged(Len(disk))' = IF IsEntry(x) THEN apply_entry(Logged(Len(disk)), x) ELSE Logged(Len(disk))
<1>1. disk \in Seq(Item) /\ Len(disk) \in Nat
  BY Types
<1>2. disk' \in Seq(Item) /\ Len(disk') = Len(disk) + 1
  BY <1>1, AppendProperties
<1>3. ASSUME NEW n \in 0..Len(disk) PROVE Logged(n)' = Logged(n)
  BY <1>1, <1>3, PrefixOfMore DEF Logged
<1>4. SubSeq(disk', 1, Len(disk')) = disk'
  BY <1>2, SubSeqFull
<1>5. Logged(Len(disk))' = Replay(Append(disk, x)).state
  BY <1>4 DEF Logged
<1>6. Logged(Len(disk)) = Replay(disk).state
  BY LoggedType
<1> QED
  BY <1>1, <1>2, <1>3, <1>5, <1>6, ReplayAppend

\* Writers that append have lines for different keys, and one a count.
LEMMA LinesApart ==
  ASSUME StateOK, WorkOK, NEW x \in Writers, NEW y \in Writers, x # y,
         pc[x] \in Appending, pc[y] \in Appending
  PROVE  /\ Boundary(line[x]) /\ Boundary(line[y]) => line[x].key # line[y].key
         /\ Boundary(line[x]) \/ Boundary(line[y])
<1>1. WriterOK(x) /\ WriterOK(y)
  BY DEF WorkOK
<1> QED
  BY <1>1, LineIs

\* Where the log may grow: the line before has its newline.
LEMMA FreeLog ==
  ASSUME StateOK, WorkOK, logLock = None, ~LineCut
  PROVE  AtStart(disk)
<1>1. \A x \in Writers : pc[x] # "newline"
  BY NoneIs DEF WorkOK, WriterOK
<1> QED
  BY <1>1 DEF LineCut, AtStart, Last

\* A line that does not go astray is the log's last.
LEMMA LineStep ==
  ASSUME StateOK, WorkOK, FileOK, SurviveOK, AheadOK, NEW w \in Writers, AppendLine(w)
  PROVE  FileOK' /\ SurviveOK' /\ AheadOK'
<1> DEFINE e == line[w]
<1>1. /\ pc[w] = "line" /\ logLock = None /\ Write(e) /\ Goto(w, "newline")
      /\ raced' = (raced \/ Astray)
      /\ UNCHANGED <<manifests, counts, stable, handle, tmp, line, may, faults>>
  BY DEF AppendLine, memVars, boundVars
<1>2. SUFFICES ASSUME ~raced' PROVE FileOK' /\ SurviveOK' /\ AheadOK'
  BY DEF FileOK, SurviveOK, AheadOK
<1>3. ~raced /\ ~Compacting /\ handle = "log" /\ ~LineCut
  BY <1>1, <1>2 DEF Astray
<1>4. WriterOK(w) /\ pc[w] \in Appending
  BY <1>1 DEF WorkOK, Appending
<1>5. /\ e \in Entry /\ e \in Item /\ IsEntry(e) /\ e # NL
      /\ Boundary(e) => e.key \in Keys /\ e.val \in Chunks \cup {None}
      /\ ~Boundary(e) => e.key \in Chunks /\ e.val \in Nat
  BY <1>4, LineIs
<1>6. pc'[w] = "newline" /\ \A x \in Writers \ {w} : pc'[x] = pc[x]
  BY <1>1, GotoIs DEF Labels, Appending
<1>7. \A x \in Writers \ {w} : Pending(x) =>
        /\ Boundary(line[x]) /\ Boundary(e) => line[x].key # e.key
        /\ Boundary(line[x]) \/ Boundary(e)
  BY <1>4, LinesApart DEF Pending, Appending
<1>8. ~Pending(w) /\ Pending(w)' /\ \A x \in Writers \ {w} : Pending(x)' <=> Pending(x)
  BY <1>1, <1>6 DEF Pending
<1> HIDE DEF e
<1>9. disk' = Append(disk, e) /\ Clean(disk) /\ disk \in Seq(Item)
  BY <1>1, <1>3, <1>5, WriteIs, Types DEF FileOK
<1>10. AtStart(disk)
  BY <1>1, <1>3, FreeLog
<1>11. Clean(disk')
  BY <1>5, <1>9, <1>10, CleanAppend
<1>12. /\ Len(disk') = Len(disk) + 1 /\ Len(disk) \in Nat /\ stable \in 0..Len(disk)
       /\ \A n \in 0..Len(disk) : Logged(n)' = Logged(n)
       /\ Logged(Len(disk))' = apply_entry(Logged(Len(disk)), e)
  BY <1>5, <1>9, <1>11, LoggedMore, Types
<1> DEFINE L == Logged(Len(disk))
           M == Logged(Len(disk))'
<1>13. L \in States
  BY LoggedType
<1>14. M = apply_entry(L, e)
  BY <1>12
<1>15. L = Logged(Len(disk)) /\ M = Logged(Len(disk))' /\ L = Logged(Len(disk))
  OBVIOUS
<1> HIDE DEF L, M
<1>16. /\ Boundary(e) => M.manifests = [L.manifests EXCEPT ![e.key] = e.val] /\ M.counts = L.counts
       /\ ~Boundary(e) => M.counts = [L.counts EXCEPT ![e.key] = e.val] /\ M.manifests = L.manifests
  BY <1>5, <1>13, <1>14, Applied
<1>17. L.manifests \in [Keys -> Chunks \cup {None}] /\ L.counts \in [Chunks -> Nat]
  BY <1>13 DEF States
<1>18. /\ Boundary(e) => M.manifests[e.key] = e.val
       /\ \A k \in Keys : ~(Boundary(e) /\ k = e.key) => M.manifests[k] = L.manifests[k]
       /\ ~Boundary(e) => M.counts[e.key] = e.val
       /\ \A c \in Chunks : ~(~Boundary(e) /\ c = e.key) => M.counts[c] = L.counts[c]
  BY <1>5, <1>16, <1>17
<1>19. FileOK'
  <2>1. \A x \in Writers : Pending(x)' => handle' = "log" /\ ~Compacting'
    BY <1>1, <1>3, <1>6 DEF Compacting
  <2>2. disk' # <<>> /\ Last(disk') = e
    <3>1. disk' # <<>> /\ disk'[Len(disk')] = e
      BY <1>5, <1>9, <1>12, AppendProperties
    <3> QED
      BY <3>1 DEF Last
  <2>3. ASSUME NEW x \in Writers, pc'[x] = "newline" PROVE disk' # <<>> /\ Last(disk') = line'[x]
    <3>1. x = w
      <4>1. pc[x] # "newline"
        BY <1>1, NoneIs DEF WorkOK, WriterOK
      <4> QED
        BY <1>6, <2>3, <4>1
    <3> QED
      BY <1>1, <2>2, <3>1 DEF e
  <2>4. \A x \in Writers : pc'[x] \notin {"snapshot", "rename"}
    BY <1>3, <1>6 DEF Compacting
  <2> QED
    BY <1>11, <2>1, <2>3, <2>4 DEF FileOK
<1>20. \A n \in stable..Len(disk') : n \in stable..Len(disk) \/ n = Len(disk')
  BY <1>12
<1>21. \A n \in stable..Len(disk) : Logged(n)' = Logged(n)
  BY <1>12
<1>22. M = Logged(Len(disk))' /\ \A n : n = Len(disk') => Logged(n)' = M
  BY <1>15 DEF Logged
<1>23. \A k : Written(k) \subseteq Written(k)'
  BY <1>1, <1>8 DEF Written
<1>24. Len(disk) \in stable..Len(disk)
  BY <1>12
<1>25. /\ \A k \in Keys : manifests[k] \in may[k]
       /\ \A n \in stable..Len(disk), k \in Keys : Logged(n).manifests[k] \in may[k] \cup Written(k)
       /\ \A x \in Writers : Pending(x) /\ Boundary(line[x]) =>
            /\ L.manifests[line[x].key] = line[x].val
            /\ pc[x] = "apply" =>
                 \A n \in stable..Len(disk) : Logged(n).manifests[line[x].key] = line[x].val
  BY <1>3, <1>15 DEF SurviveOK
<1>26. \A k \in Keys : L.manifests[k] \in may[k] \cup Written(k)
  BY <1>15, <1>24, <1>25
<1>27. \A x \in Writers : Pending(x) /\ Boundary(line[x]) => line[x].key \in Keys
  BY LineIs DEF Pending, Appending, WorkOK
<1>28. ASSUME NEW k \in Keys PROVE M.manifests[k] \in may[k] \cup Written(k)'
  <2>1. CASE Boundary(e) /\ k = e.key
    <3>1. e.val \in Written(k)'
      BY <1>1, <1>8, <2>1 DEF Written, e
    <3> QED
      BY <1>18, <2>1, <3>1
  <2>2. CASE ~(Boundary(e) /\ k = e.key)
    BY <1>18, <1>23, <1>26, <2>2
  <2> QED
    BY <2>1, <2>2
<1>29. SurviveOK'
  <2>1. \A k \in Keys : manifests'[k] \in may'[k]
    BY <1>1, <1>25
  <2>2. ASSUME NEW n \in stable'..Len(disk'), NEW k \in Keys PROVE Logged(n)'.manifests[k] \in may'[k] \cup Written(k)'
    <3>1. CASE n \in stable..Len(disk)
      BY <1>1, <1>21, <1>23, <1>25, <3>1
    <3>2. CASE n = Len(disk')
      BY <1>1, <1>22, <1>28, <3>2
    <3> QED
      BY <1>1, <1>20, <3>1, <3>2
  <2>3. ASSUME NEW x \in Writers, Pending(x)', Boundary(line'[x])
        PROVE  /\ M.manifests[line'[x].key] = line'[x].val
               /\ pc'[x] = "apply" =>
                    \A n \in stable'..Len(disk') : Logged(n)'.manifests[line'[x].key] = line'[x].val
    <3>1. CASE x = w
      BY <1>1, <1>6, <1>18, <2>3, <3>1 DEF e
    <3>2. CASE x # w
      <4>1. Pending(x) /\ Boundary(line[x]) /\ line'[x] = line[x] /\ pc'[x] = pc[x]
        BY <1>1, <1>6, <1>8, <2>3, <3>2
      <4>2. ~(Boundary(e) /\ line[x].key = e.key) /\ line[x].key \in Keys
        BY <1>7, <1>27, <3>2, <4>1
      <4>3. M.manifests[line[x].key] = line[x].val
        BY <1>18, <1>25, <4>1, <4>2
      <4>4. ASSUME pc'[x] = "apply", NEW n \in stable'..Len(disk')
            PROVE  Logged(n)'.manifests[line'[x].key] = line'[x].val
        <5>1. CASE n \in stable..Len(disk)
          BY <1>21, <1>25, <4>1, <4>4, <5>1
        <5>2. CASE n = Len(disk')
          BY <1>22, <4>1, <4>3, <5>2
        <5> QED
          BY <1>1, <1>20, <4>4, <5>1, <5>2
      <4> QED
        BY <4>1, <4>3, <4>4
    <3> QED
      BY <3>1, <3>2
  <2> QED
    BY <1>22, <2>1, <2>2, <2>3 DEF SurviveOK
<1>30. AheadOK'
  <2>1. SUFFICES ASSUME faults' = 0 PROVE AheadOK'
    BY DEF AheadOK
  <2>2. /\ \A k \in Keys :
             (\A x \in Writers : Pending(x) /\ Boundary(line[x]) => line[x].key # k) => L.manifests[k] = manifests[k]
        /\ \A c \in Chunks :
             (\A x \in Writers : Pending(x) /\ ~Boundary(line[x]) => line[x].key # c) => L.counts[c] = counts[c]
        /\ \A x \in Writers : Pending(x) /\ ~Boundary(line[x]) => L.counts[line[x].key] = line[x].val
    BY <1>1, <1>3, <1>15, <2>1 DEF AheadOK
  <2>3. ASSUME NEW k \in Keys, \A x \in Writers : Pending(x)' /\ Boundary(line'[x]) => line'[x].key # k
        PROVE  M.manifests[k] = manifests'[k]
    <3>1. ~(Boundary(e) /\ k = e.key)
      BY <1>1, <1>8, <2>3 DEF e
    <3>2. \A x \in Writers : Pending(x) /\ Boundary(line[x]) => line[x].key # k
      BY <1>1, <1>8, <2>3
    <3> QED
      BY <1>1, <1>18, <2>2, <3>1, <3>2
  <2>4. ASSUME NEW c \in Chunks, \A x \in Writers : Pending(x)' /\ ~Boundary(line'[x]) => line'[x].key # c
        PROVE  M.counts[c] = counts'[c]
    <3>1. ~(~Boundary(e) /\ c = e.key)
      BY <1>1, <1>8, <2>4 DEF e
    <3>2. \A x \in Writers : Pending(x) /\ ~Boundary(line[x]) => line[x].key # c
      BY <1>1, <1>8, <2>4
    <3> QED
      BY <1>1, <1>18, <2>2, <3>1, <3>2
  <2>5. ASSUME NEW x \in Writers, Pending(x)', ~Boundary(line'[x])
        PROVE  M.counts[line'[x].key] = line'[x].val
    <3>1. CASE x = w
      BY <1>1, <1>18, <2>5, <3>1 DEF e
    <3>2. CASE x # w
      <4>1. Pending(x) /\ ~Boundary(line[x]) /\ line'[x] = line[x]
        BY <1>1, <1>8, <2>5, <3>2
      <4>2. Boundary(e)
        BY <1>7, <3>2, <4>1
      <4> QED
        BY <1>16, <2>2, <4>1, <4>2
    <3> QED
      BY <3>1, <3>2
  <2> QED
    BY <1>22, <2>3, <2>4, <2>5 DEF AheadOK
<1> QED
  BY <1>19, <1>29, <1>30

\* The newline ends the line, and gives nothing more to replay.
LEMMA NewlineStep ==
  ASSUME StateOK, WorkOK, FileOK, SurviveOK, AheadOK, NEW w \in Writers, AppendNewline(w)
  PROVE  FileOK' /\ SurviveOK' /\ AheadOK'
<1>1. /\ pc[w] = "newline" /\ Write(NL)
      /\ \/ Boundary(line[w]) /\ Goto(w, "sync")
         \/ ~Boundary(line[w]) /\ Goto(w, "apply")
      /\ UNCHANGED <<manifests, counts, stable, handle, tmp, line, may, raced, faults>>
  BY DEF AppendNewline, memVars, histVars, boundVars
<1>2. SUFFICES ASSUME ~raced PROVE FileOK' /\ SurviveOK' /\ AheadOK'
  BY <1>1 DEF FileOK, SurviveOK, AheadOK
<1>3. WriterOK(w) /\ pc[w] \in Appending /\ Pending(w)
  BY <1>1 DEF WorkOK, Appending, Pending
<1>4. handle = "log" /\ ~Compacting /\ Clean(disk) /\ disk # <<>> /\ Last(disk) = line[w]
  BY <1>1, <1>2, <1>3 DEF FileOK
<1>5. line[w] \in Entry /\ NL \in Item /\ ~IsEntry(NL)
  BY <1>3, LineIs, Kinds DEF Item
<1>6. "sync" \in Labels /\ "apply" \in Labels
  BY DEF Labels, Appending
<1>7. /\ \A x \in Writers \ {w} : pc'[x] = pc[x]
      /\ pc'[w] \in {"sync", "apply"} /\ (pc'[w] = "apply" => ~Boundary(line[w]))
  BY <1>1, <1>6, GotoIs
<1>8. \A x \in Writers : Pending(x)' <=> Pending(x)
  BY <1>3, <1>7 DEF Pending
<1>9. disk' = Append(disk, NL) /\ disk \in Seq(Item) /\ disk[Len(disk)] = line[w]
  BY <1>1, <1>4, <1>5, WriteIs, Types DEF Last
<1>10. Clean(disk')
  BY <1>4, <1>5, <1>9, CleanAppend
<1>11. /\ Len(disk') = Len(disk) + 1 /\ Len(disk) \in Nat /\ stable \in 0..Len(disk)
       /\ \A n \in 0..Len(disk) : Logged(n)' = Logged(n)
       /\ Logged(Len(disk))' = Logged(Len(disk))
  BY <1>5, <1>9, <1>10, LoggedMore, Types
<1>12. FileOK'
  <2>1. \A x \in Writers : pc'[x] # "newline"
    <3>1. \A x \in Writers \ {w} : pc[x] # "newline"
      BY <1>1, <1>3 DEF WorkOK, WriterOK
    <3> QED
      BY <1>7, <3>1
  <2>2. \A x \in Writers : pc'[x] \notin {"snapshot", "rename"}
    BY <1>4, <1>7 DEF Compacting
  <2>3. ~Compacting'
    BY <1>4, <1>7 DEF Compacting
  <2> QED
    BY <1>1, <1>4, <1>10, <2>1, <2>2, <2>3 DEF FileOK
<1>13. \A n \in stable..Len(disk') : n \in stable..Len(disk) \/ n = Len(disk')
  BY <1>11
<1>14. \A n \in stable..Len(disk) : Logged(n)' = Logged(n)
  BY <1>11
<1>15. \A k : Written(k)' = Written(k)
  BY <1>1, <1>8 DEF Written
<1>16. Len(disk) \in stable..Len(disk)
  BY <1>11
<1> DEFINE L == Logged(Len(disk))
<1>17. Logged(Len(disk))' = L /\ \A n : n = Len(disk') => Logged(n)' = L
  BY <1>11 DEF Logged
<1>18. L = Logged(Len(disk))
  OBVIOUS
<1> HIDE DEF L
<1>19. SurviveOK'
  <2>1. /\ \A k \in Keys : manifests[k] \in may[k]
        /\ \A n \in stable..Len(disk), k \in Keys : Logged(n).manifests[k] \in may[k] \cup Written(k)
        /\ \A x \in Writers : Pending(x) /\ Boundary(line[x]) =>
             /\ L.manifests[line[x].key] = line[x].val
             /\ pc[x] = "apply" =>
                  \A n \in stable..Len(disk) : Logged(n).manifests[line[x].key] = line[x].val
    BY <1>2, <1>18 DEF SurviveOK
  <2>2. \A k \in Keys : L.manifests[k] \in may[k] \cup Written(k)
    BY <1>16, <1>18, <2>1
  <2>3. ASSUME NEW n \in stable'..Len(disk'), NEW k \in Keys PROVE Logged(n)'.manifests[k] \in may'[k] \cup Written(k)'
    <3>1. CASE n \in stable..Len(disk)
      BY <1>1, <1>14, <1>15, <2>1, <3>1
    <3>2. CASE n = Len(disk')
      BY <1>1, <1>15, <1>17, <2>2, <3>2
    <3> QED
      BY <1>1, <1>13, <3>1, <3>2
  <2>4. ASSUME NEW x \in Writers, Pending(x)', Boundary(line'[x])
        PROVE  /\ L.manifests[line'[x].key] = line'[x].val
               /\ pc'[x] = "apply" =>
                    \A n \in stable'..Len(disk') : Logged(n)'.manifests[line'[x].key] = line'[x].val
    <3>1. Pending(x) /\ line'[x] = line[x] /\ L.manifests[line[x].key] = line[x].val
      BY <1>1, <1>8, <2>1, <2>4
    <3>2. pc'[x] = "apply" => pc[x] = "apply"
      BY <1>1, <1>7, <2>4
    <3>3. ASSUME pc'[x] = "apply", NEW n \in stable'..Len(disk')
          PROVE  Logged(n)'.manifests[line'[x].key] = line'[x].val
      <4>1. CASE n \in stable..Len(disk)
        BY <1>14, <2>1, <2>4, <3>1, <3>2, <3>3, <4>1
      <4>2. CASE n = Len(disk')
        BY <1>17, <3>1, <4>2
      <4> QED
        BY <1>1, <1>13, <3>3, <4>1, <4>2
    <3> QED
      BY <3>1, <3>3
  <2> QED
    BY <1>1, <1>17, <2>1, <2>3, <2>4 DEF SurviveOK
<1>20. AheadOK'
  <2>1. SUFFICES ASSUME faults' = 0 PROVE AheadOK'
    BY DEF AheadOK
  <2>2. /\ \A k \in Keys :
             (\A x \in Writers : Pending(x) /\ Boundary(line[x]) => line[x].key # k) => L.manifests[k] = manifests[k]
        /\ \A c \in Chunks :
             (\A x \in Writers : Pending(x) /\ ~Boundary(line[x]) => line[x].key # c) => L.counts[c] = counts[c]
        /\ \A x \in Writers : Pending(x) /\ ~Boundary(line[x]) => L.counts[line[x].key] = line[x].val
    BY <1>1, <1>2, <1>18, <2>1 DEF AheadOK
  <2> QED
    BY <1>1, <1>8, <1>17, <2>2 DEF AheadOK
<1> QED
  BY <1>12, <1>19, <1>20

\* A sync leaves less to lose.
LEMMA SyncStep ==
  ASSUME StateOK, WorkOK, FileOK, SurviveOK, AheadOK, NEW w \in Writers, Sync(w)
  PROVE  FileOK' /\ SurviveOK' /\ AheadOK'
<1>1. /\ pc[w] = "sync" /\ Goto(w, "apply") /\ stable' = (IF handle = "log" THEN Len(disk) ELSE stable)
      /\ UNCHANGED <<manifests, counts, disk, handle, tmp, line, may, raced, faults>>
  BY DEF Sync, memVars, histVars, boundVars
<1>2. SUFFICES ASSUME ~raced PROVE FileOK' /\ SurviveOK' /\ AheadOK'
  BY <1>1 DEF FileOK, SurviveOK, AheadOK
<1>3. Pending(w)
  BY <1>1 DEF Pending
<1>4. handle = "log" /\ ~Compacting /\ Clean(disk)
  BY <1>2, <1>3 DEF FileOK
<1>5. pc'[w] = "apply" /\ \A x \in Writers \ {w} : pc'[x] = pc[x]
  BY <1>1, GotoIs DEF Labels, Appending
<1>6. \A x \in Writers : Pending(x)' <=> Pending(x)
  BY <1>3, <1>5 DEF Pending
<1>7. stable' = Len(disk) /\ Len(disk) \in stable..Len(disk) /\ Len(disk) \in Nat
  BY <1>1, <1>4, Types
<1>8. \A n : Logged(n)' = Logged(n)
  BY <1>1 DEF Logged
<1>9. Logged(Len(disk))' = Logged(Len(disk))
  BY <1>1 DEF Logged
<1>10. \A k : Written(k)' = Written(k)
  BY <1>1, <1>6 DEF Written
<1>11. FileOK'
  <2>1. \A x \in Writers : pc'[x] = "newline" => pc[x] = "newline"
    BY <1>5
  <2>2. \A x \in Writers : pc'[x] \notin {"snapshot", "rename"}
    BY <1>4, <1>5 DEF Compacting
  <2>3. ~Compacting'
    BY <1>4, <1>5 DEF Compacting
  <2> QED
    BY <1>1, <1>2, <1>4, <2>1, <2>2, <2>3 DEF FileOK
<1>12. SurviveOK'
  <2>1. /\ \A k \in Keys : manifests[k] \in may[k]
        /\ \A n \in stable..Len(disk), k \in Keys : Logged(n).manifests[k] \in may[k] \cup Written(k)
        /\ \A x \in Writers : Pending(x) /\ Boundary(line[x]) => Logged(Len(disk)).manifests[line[x].key] = line[x].val
    BY <1>2 DEF SurviveOK
  <2>2. \A n \in stable'..Len(disk') : n = Len(disk) /\ n \in stable..Len(disk)
    BY <1>1, <1>7
  <2>3. ASSUME NEW n \in stable'..Len(disk'), NEW k \in Keys PROVE Logged(n)'.manifests[k] \in may'[k] \cup Written(k)'
    BY <1>1, <1>8, <1>10, <2>1, <2>2
  <2>4. ASSUME NEW x \in Writers, Pending(x)', Boundary(line'[x])
        PROVE  /\ Logged(Len(disk))'.manifests[line'[x].key] = line'[x].val
               /\ pc'[x] = "apply" =>
                    \A n \in stable'..Len(disk') : Logged(n)'.manifests[line'[x].key] = line'[x].val
    <3>1. Logged(Len(disk)).manifests[line[x].key] = line[x].val
      BY <1>1, <1>6, <2>1, <2>4
    <3> QED
      BY <1>1, <1>8, <1>9, <2>2, <3>1
  <2> QED
    BY <1>1, <2>1, <2>3, <2>4 DEF SurviveOK
<1>13. AheadOK'
  <2>1. SUFFICES ASSUME faults' = 0 PROVE AheadOK'
    BY DEF AheadOK
  <2>2. /\ \A k \in Keys :
             (\A x \in Writers : Pending(x) /\ Boundary(line[x]) => line[x].key # k)
               => Logged(Len(disk)).manifests[k] = manifests[k]
        /\ \A c \in Chunks :
             (\A x \in Writers : Pending(x) /\ ~Boundary(line[x]) => line[x].key # c)
               => Logged(Len(disk)).counts[c] = counts[c]
        /\ \A x \in Writers : Pending(x) /\ ~Boundary(line[x]) => Logged(Len(disk)).counts[line[x].key] = line[x].val
    BY <1>1, <1>2, <2>1 DEF AheadOK
  <2> QED
    BY <1>1, <1>6, <1>9, <2>2 DEF AheadOK
<1> QED
  BY <1>11, <1>12, <1>13

\* The memory takes the entry over.
LEMMA ApplyStep ==
  ASSUME StateOK, WorkOK, FileOK, SurviveOK, AheadOK, NEW w \in Writers, Apply(w)
  PROVE  FileOK' /\ SurviveOK' /\ AheadOK'
<1> DEFINE e == line[w]
<1>1. /\ pc[w] = "apply" /\ (\A x \in Writers : pc[x] # "snapshot") /\ WriterOK(w)
      /\ UNCHANGED <<disk, stable, handle, tmp, raced, faults>>
      /\ Boundary(e) =>
           /\ manifests' = [manifests EXCEPT ![e.key] = e.val] /\ counts' = counts
           /\ Goto(w, "compact?") /\ may' = [may EXCEPT ![e.key] = {e.val}]
           /\ line' = line
      /\ ~Boundary(e) =>
           /\ counts' = [counts EXCEPT ![e.key] = e.val] /\ manifests' = manifests
           /\ Advance(w) /\ may' = may
  BY ApplyIs
<1>2. SUFFICES ASSUME ~raced PROVE FileOK' /\ SurviveOK' /\ AheadOK'
  BY <1>1 DEF FileOK, SurviveOK, AheadOK
<1>3. pc[w] \in Appending /\ Pending(w) /\ pc[w] # "idle"
  BY <1>1 DEF Appending, Pending
<1>4. handle = "log" /\ ~Compacting /\ Clean(disk)
  BY <1>2, <1>3 DEF FileOK
<1>5. /\ e \in Entry
      /\ Boundary(e) => e.key \in Keys /\ e.val \in Chunks \cup {None}
      /\ ~Boundary(e) => e.key \in Chunks /\ e.val \in Nat
  BY <1>1, <1>3, LineIs
<1>6. line' = line /\ (\A x \in Writers \ {w} : pc'[x] = pc[x]) /\ pc'[w] \in {"compact?", "begin", "idle"}
  <2>1. CASE Boundary(e)
    BY <1>1, <2>1, GotoIs DEF Labels
  <2>2. CASE ~Boundary(e)
    BY <1>1, <1>3, <2>2, AdvanceOK
  <2> QED
    BY <2>1, <2>2
<1>7. \A x \in Writers : Pending(x)' <=> (Pending(x) /\ x # w)
  BY <1>6 DEF Pending
<1>8. \A x \in Writers \ {w} : Pending(x) =>
        /\ Boundary(line[x]) /\ Boundary(e) => line[x].key # e.key
        /\ Boundary(line[x]) \/ Boundary(e)
  BY <1>3, LinesApart DEF Pending, Appending
<1>9. manifests \in [Keys -> Chunks \cup {None}] /\ counts \in [Chunks -> Nat] /\ may \in [Keys -> SUBSET (Chunks \cup {None})]
  BY Types
<1>10. /\ \A k \in Keys : ~(Boundary(e) /\ k = e.key) => manifests'[k] = manifests[k] /\ may'[k] = may[k]
       /\ Boundary(e) => manifests'[e.key] = e.val /\ may'[e.key] = {e.val}
       /\ \A c \in Chunks : ~(~Boundary(e) /\ c = e.key) => counts'[c] = counts[c]
       /\ ~Boundary(e) => counts'[e.key] = e.val
  BY <1>1, <1>5, <1>9
<1>11. \A n : Logged(n)' = Logged(n)
  BY <1>1 DEF Logged
<1>12. Logged(Len(disk))' = Logged(Len(disk))
  BY <1>1 DEF Logged
<1>13. Len(disk) \in stable..Len(disk)
  BY Types
<1>14. /\ \A k \in Keys : manifests[k] \in may[k]
       /\ \A n \in stable..Len(disk), k \in Keys : Logged(n).manifests[k] \in may[k] \cup Written(k)
       /\ \A x \in Writers : Pending(x) /\ Boundary(line[x]) =>
            /\ Logged(Len(disk)).manifests[line[x].key] = line[x].val
            /\ pc[x] = "apply" =>
                 \A n \in stable..Len(disk) : Logged(n).manifests[line[x].key] = line[x].val
  BY <1>2 DEF SurviveOK
<1>15. /\ w \in Writers /\ line[w] = e
       /\ Boundary(e) => \A n \in stable..Len(disk) : Logged(n).manifests[e.key] = e.val
  BY <1>1, <1>3, <1>14
<1> HIDE DEF e
<1>16. FileOK'
  <2>1. \A x \in Writers : pc'[x] = "newline" => pc[x] = "newline"
    BY <1>6
  <2>2. ~Compacting' /\ \A x \in Writers : pc'[x] \notin {"snapshot", "rename"}
    BY <1>4, <1>6 DEF Compacting
  <2> QED
    BY <1>1, <1>2, <1>4, <1>6, <2>1, <2>2 DEF FileOK
<1>17. \A k \in Keys : ~(Boundary(e) /\ k = e.key) => Written(k) \subseteq Written(k)'
  BY <1>6, <1>7, <1>15 DEF Written
<1>18. SurviveOK'
  <2>1. \A k \in Keys : manifests'[k] \in may'[k]
    BY <1>10, <1>14
  <2>2. ASSUME NEW n \in stable'..Len(disk'), NEW k \in Keys PROVE Logged(n)'.manifests[k] \in may'[k] \cup Written(k)'
    <3>1. n \in stable..Len(disk)
      BY <1>1
    <3>2. CASE Boundary(e) /\ k = e.key
      BY <1>10, <1>11, <1>15, <3>1, <3>2
    <3>3. CASE ~(Boundary(e) /\ k = e.key)
      BY <1>10, <1>11, <1>14, <1>17, <3>1, <3>3
    <3> QED
      BY <3>2, <3>3
  <2>3. ASSUME NEW x \in Writers, Pending(x)', Boundary(line'[x])
        PROVE  /\ Logged(Len(disk))'.manifests[line'[x].key] = line'[x].val
               /\ pc'[x] = "apply" =>
                    \A n \in stable'..Len(disk') : Logged(n)'.manifests[line'[x].key] = line'[x].val
    <3>1. Pending(x) /\ x # w /\ line'[x] = line[x] /\ pc'[x] = pc[x] /\ Boundary(line[x])
      BY <1>6, <1>7, <2>3
    <3>2. Logged(Len(disk)).manifests[line[x].key] = line[x].val
      BY <1>14, <3>1
    <3>3. pc[x] = "apply" => \A n \in stable..Len(disk) : Logged(n).manifests[line[x].key] = line[x].val
      BY <1>14, <3>1
    <3> QED
      BY <1>1, <1>11, <1>12, <3>1, <3>2, <3>3
  <2> QED
    BY <2>1, <2>2, <2>3 DEF SurviveOK
<1>19. AheadOK'
  <2>1. SUFFICES ASSUME faults' = 0 PROVE AheadOK'
    BY DEF AheadOK
  <2> DEFINE L == Logged(Len(disk))
  <2>2. /\ \A k \in Keys :
             (\A x \in Writers : Pending(x) /\ Boundary(line[x]) => line[x].key # k) => L.manifests[k] = manifests[k]
        /\ \A c \in Chunks :
             (\A x \in Writers : Pending(x) /\ ~Boundary(line[x]) => line[x].key # c) => L.counts[c] = counts[c]
        /\ \A x \in Writers : Pending(x) /\ ~Boundary(line[x]) => L.counts[line[x].key] = line[x].val
    BY <1>1, <1>2, <2>1 DEF AheadOK
  <2>3. L = Logged(Len(disk))' /\ (Boundary(e) => L.manifests[e.key] = e.val)
    BY <1>12, <1>13, <1>15
  <2> HIDE DEF L
  <2>4. ASSUME NEW k \in Keys, \A x \in Writers : Pending(x)' /\ Boundary(line'[x]) => line'[x].key # k
        PROVE  L.manifests[k] = manifests'[k]
    <3>1. CASE Boundary(e) /\ k = e.key
      BY <1>10, <2>3, <3>1
    <3>2. CASE ~(Boundary(e) /\ k = e.key)
      <4>1. \A x \in Writers : Pending(x) /\ Boundary(line[x]) => line[x].key # k
        BY <1>6, <1>7, <1>15, <2>4, <3>2
      <4> QED
        BY <1>10, <2>2, <3>2, <4>1
    <3> QED
      BY <3>1, <3>2
  <2>5. ASSUME NEW c \in Chunks, \A x \in Writers : Pending(x)' /\ ~Boundary(line'[x]) => line'[x].key # c
        PROVE  L.counts[c] = counts'[c]
    <3>1. CASE ~Boundary(e) /\ c = e.key
      BY <1>3, <1>10, <1>15, <2>2, <3>1
    <3>2. CASE ~(~Boundary(e) /\ c = e.key)
      <4>1. \A x \in Writers : Pending(x) /\ ~Boundary(line[x]) => line[x].key # c
        BY <1>6, <1>7, <1>15, <2>5, <3>2
      <4> QED
        BY <1>10, <2>2, <3>2, <4>1
    <3> QED
      BY <3>1, <3>2
  <2>6. ASSUME NEW x \in Writers, Pending(x)', ~Boundary(line'[x])
        PROVE  L.counts[line'[x].key] = line'[x].val
    BY <1>6, <1>7, <2>2, <2>6
  <2> QED
    BY <2>3, <2>4, <2>5, <2>6 DEF AheadOK
<1> QED
  BY <1>16, <1>18, <1>19

\* The renamed log is what the memory holds, all of it stable.
LEMMA RenameStep ==
  ASSUME StateOK, WorkOK, FileOK, SurviveOK, AheadOK, NEW w \in Writers, RenameLog(w)
  PROVE  FileOK' /\ SurviveOK' /\ AheadOK'
<1>1. /\ pc[w] = "rename" /\ disk' = tmp /\ stable' = Len(tmp) /\ Goto(w, "reopen")
      /\ UNCHANGED <<manifests, counts, tmp, line, may, raced, faults>>
  BY DEF RenameLog, memVars, histVars, boundVars
<1>2. SUFFICES ASSUME ~raced PROVE FileOK' /\ SurviveOK' /\ AheadOK'
  BY <1>1 DEF FileOK, SurviveOK, AheadOK
<1>3. pc'[w] = "reopen" /\ \A x \in Writers \ {w} : pc'[x] = pc[x]
  BY <1>1, GotoIs DEF Labels, Compaction
<1>4. tmp = Snapshot /\ Compacting
  BY <1>1, <1>2 DEF FileOK, Compacting
<1>5. \A x \in Writers : ~Pending(x) /\ ~Pending(x)'
  BY <1>2, <1>3, <1>4 DEF FileOK, Pending
<1>6. /\ Snapshot \in Seq(Item) /\ Clean(Snapshot)
      /\ Replay(Snapshot).state = [manifests |-> manifests, counts |-> counts]
  BY Types, SnapshotIs
<1>7. disk' = Snapshot /\ Len(Snapshot) \in Nat /\ SubSeq(Snapshot, 1, Len(Snapshot)) = Snapshot
  BY <1>1, <1>4, <1>6, SubSeqFull
<1>8. \A n \in stable'..Len(disk') : n = Len(disk')
  BY <1>1, <1>4, <1>7
<1>9. Logged(Len(disk))' = [manifests |-> manifests, counts |-> counts]
  BY <1>6, <1>7 DEF Logged
<1>10. \A n \in stable'..Len(disk') : Logged(n)' = [manifests |-> manifests, counts |-> counts]
  BY <1>6, <1>7, <1>8 DEF Logged
<1>11. \A k \in Keys : manifests[k] \in may[k]
  BY <1>2 DEF SurviveOK
<1>12. FileOK'
  <2>1. \A x \in Writers \ {w} : pc[x] \notin Compaction
    BY <1>1 DEF WorkOK, WriterOK, Compaction
  <2>2. \A x \in Writers : pc'[x] \notin {"snapshot", "rename"} /\ pc'[x] # "newline"
    BY <1>3, <1>5, <2>1 DEF Compaction, Pending
  <2> QED
    BY <1>5, <1>6, <1>7, <2>2 DEF FileOK
<1>13. SurviveOK'
  BY <1>1, <1>5, <1>10, <1>11 DEF SurviveOK
<1>14. AheadOK'
  BY <1>1, <1>5, <1>9 DEF AheadOK
<1> QED
  BY <1>12, <1>13, <1>14

\* A failed append leaves its writer's value possible, and at most a torn line.
LEMMA FailsStep ==
  ASSUME StateOK, WorkOK, FileOK, SurviveOK, NEW w \in Writers, AppendFails(w)
  PROVE  FileOK' /\ SurviveOK' /\ AheadOK'
<1>1. /\ faults' = faults + 1
      /\ \/ /\ pc[w] = "line" /\ logLock = None
            /\ disk' = disk \/ Write(Torn)
            /\ raced' = (raced \/ LineCut)
         \/ /\ pc[w] \in {"newline", "sync"}
            /\ UNCHANGED <<disk, raced>>
      /\ may' = [k \in Keys |-> IF Boundary(line[w]) /\ line[w].key = k
                           THEN may[k] \cup {line[w].val} ELSE may[k]]
      /\ Goto(w, "idle")
      /\ UNCHANGED <<manifests, counts, stable, handle, tmp, line>>
  BY DEF AppendFails, Fault, Leave, memVars
<1>2. AheadOK'
  <2>1. faults' # 0
    BY <1>1, Types
  <2> QED
    BY <2>1 DEF AheadOK
<1>3. SUFFICES ASSUME ~raced' PROVE FileOK' /\ SurviveOK'
  BY <1>2 DEF FileOK, SurviveOK
<1>4. ~raced
  BY <1>1, <1>3
<1>5. pc'[w] = "idle" /\ \A x \in Writers \ {w} : pc'[x] = pc[x]
  BY <1>1, GotoIs DEF Labels
<1>6. \A x \in Writers : Pending(x)' <=> (Pending(x) /\ x # w)
  BY <1>5 DEF Pending
<1>7. disk \in Seq(Item) /\ Len(disk) \in Nat /\ stable \in 0..Len(disk) /\ Clean(disk)
  BY <1>4, Types DEF FileOK
<1>8. /\ Clean(disk')
      /\ \A n \in stable..Len(disk') : \E m \in stable..Len(disk) : Logged(n)' = Logged(m)
      /\ Logged(Len(disk))' = Logged(Len(disk))
      /\ pc[w] # "line" => disk' = disk
  <2>1. CASE disk' = disk
    BY <1>7, <2>1 DEF Logged
  <2>2. CASE pc[w] = "line" /\ logLock = None /\ Write(Torn) /\ ~LineCut /\ disk' # disk
    <3>1. Torn \in Item /\ ~IsEntry(Torn)
      BY Kinds DEF Item
    <3>2. disk' = Append(disk, Torn)
      BY <2>2, <3>1, WriteIs
    <3>3. Clean(disk')
      BY <1>7, <2>2, <3>1, <3>2, FreeLog, CleanAppend
    <3>4. /\ Len(disk') = Len(disk) + 1
          /\ \A n \in 0..Len(disk) : Logged(n)' = Logged(n)
          /\ Logged(Len(disk))' = Logged(Len(disk))
      BY <3>1, <3>2, <3>3, LoggedMore
    <3>5. ASSUME NEW n \in stable..Len(disk') PROVE \E m \in stable..Len(disk) : Logged(n)' = Logged(m)
      <4>1. CASE n \in stable..Len(disk)
        <5>1. n \in 0..Len(disk)
          BY <1>7, <4>1
        <5> QED
          BY <3>4, <4>1, <5>1
      <4>2. CASE n = Len(disk')
        <5>1. Logged(n)' = Logged(Len(disk))
          BY <3>4, <4>2 DEF Logged
        <5>2. Len(disk) \in stable..Len(disk)
          BY <1>7
        <5> QED
          BY <5>1, <5>2
      <4>3. n \in stable..Len(disk) \/ n = Len(disk')
        BY <1>7, <3>4
      <4> QED
        BY <4>1, <4>2, <4>3
    <3> QED
      BY <2>2, <3>3, <3>4, <3>5
  <2> QED
    BY <1>1, <1>3, <2>1, <2>2
<1>9. FileOK'
  <2>1. \A x \in Writers : Pending(x)' => handle' = "log" /\ ~Compacting'
    <3>1. Compacting' => Compacting
      BY <1>5 DEF Compacting
    <3> QED
      BY <1>1, <1>4, <1>6, <3>1 DEF FileOK
  <2>2. ASSUME NEW x \in Writers, pc'[x] = "newline" PROVE disk' # <<>> /\ Last(disk') = line'[x]
    <3>1. x # w /\ pc[x] = "newline"
      BY <1>5, <2>2
    <3>2. logLock = x
      BY <3>1 DEF WorkOK, WriterOK
    <3>3. disk' = disk
      BY <1>1, <3>1, <3>2, NoneIs
    <3> QED
      BY <1>1, <1>4, <3>1, <3>3 DEF FileOK
  <2>3. Snapshot' = Snapshot
    BY <1>1 DEF Snapshot, Live
  <2>4. \A x \in Writers : pc'[x] \in {"snapshot", "rename"} => tmp' = Snapshot
    BY <1>1, <1>4, <1>5 DEF FileOK
  <2> QED
    BY <1>8, <2>1, <2>2, <2>3, <2>4 DEF FileOK
<1>10. SurviveOK'
  <2>1. /\ \A k \in Keys : manifests[k] \in may[k]
        /\ \A n \in stable..Len(disk), k \in Keys : Logged(n).manifests[k] \in may[k] \cup Written(k)
        /\ \A x \in Writers : Pending(x) /\ Boundary(line[x]) =>
             /\ Logged(Len(disk)).manifests[line[x].key] = line[x].val
             /\ pc[x] = "apply" =>
                  \A n \in stable..Len(disk) : Logged(n).manifests[line[x].key] = line[x].val
    BY <1>4 DEF SurviveOK
  <2>2. \A k \in Keys : /\ may[k] \subseteq may'[k]
                        /\ Boundary(line[w]) /\ line[w].key = k => line[w].val \in may'[k]
    BY <1>1
  <2>3. ASSUME NEW k \in Keys PROVE may[k] \cup Written(k) \subseteq may'[k] \cup Written(k)'
    <3>1. ASSUME NEW v \in Written(k) PROVE v \in may'[k] \cup Written(k)'
      <4>1. PICK x \in Writers : Pending(x) /\ Boundary(line[x]) /\ line[x].key = k /\ v = line[x].val
        BY DEF Written
      <4>2. CASE x = w
        BY <2>2, <4>1, <4>2
      <4>3. CASE x # w
        <5>1. v \in Written(k)'
          BY <1>1, <1>6, <4>1, <4>3 DEF Written
        <5> QED
          BY <5>1
      <4> QED
        BY <4>2, <4>3
    <3> QED
      BY <2>2, <3>1
  <2>4. ASSUME NEW n \in stable'..Len(disk'), NEW k \in Keys PROVE Logged(n)'.manifests[k] \in may'[k] \cup Written(k)'
    <3>1. PICK m \in stable..Len(disk) : Logged(n)' = Logged(m)
      BY <1>1, <1>8
    <3> QED
      BY <2>1, <2>3, <3>1
  <2>5. ASSUME NEW x \in Writers, Pending(x)', Boundary(line'[x])
        PROVE  /\ Logged(Len(disk))'.manifests[line'[x].key] = line'[x].val
               /\ pc'[x] = "apply" =>
                    \A n \in stable'..Len(disk') : Logged(n)'.manifests[line'[x].key] = line'[x].val
    <3>1. Pending(x) /\ line'[x] = line[x] /\ pc'[x] = pc[x] /\ Boundary(line[x])
      BY <1>1, <1>5, <1>6, <2>5
    <3>2. Logged(Len(disk)).manifests[line[x].key] = line[x].val
      BY <2>1, <3>1
    <3>3. pc[x] = "apply" => \A n \in stable..Len(disk) : Logged(n).manifests[line[x].key] = line[x].val
      BY <2>1, <3>1
    <3>4. \A n \in stable'..Len(disk') : \E m \in stable..Len(disk) : Logged(n)' = Logged(m)
      BY <1>1, <1>8
    <3> QED
      BY <1>8, <3>1, <3>2, <3>3, <3>4
  <2> QED
    BY <1>1, <2>1, <2>2, <2>4, <2>5 DEF SurviveOK
<1> QED
  BY <1>9, <1>10

\* A restart on a clean log keeps all that its replay gave.
LEMMA RestartLog ==
  ASSUME StateOK, NEW items \in Seq(Item), NEW sound \in BOOLEAN, Restart(items, sound), Clean(items),
         ~sound => items = disk, faults' \in Nat, may' \in [Keys -> SUBSET (Chunks \cup {None})]
  PROVE  /\ Clean(disk') /\ Logged(Len(disk))' = Replay(items).state
         /\ (disk' = items /\ stable' = stable /\ ~sound) \/ stable' = Len(disk')
         /\ Len(disk') \in Nat
<1>1. /\ disk' = IF Replay(items).stopped THEN SubSeq(items, 1, Replay(items).good) ELSE items
      /\ stable' = IF Replay(items).stopped \/ sound THEN Len(disk') ELSE stable
      /\ StateOK'
  BY RestartIs
<1>2. disk' \in Seq(Item)
  BY <1>1 DEF StateOK
<1>3. Len(disk') \in Nat /\ SubSeq(disk', 1, Len(disk')) = disk'
  BY <1>2, SubSeqFull
<1>4. Logged(Len(disk))' = Replay(disk').state
  BY <1>3 DEF Logged
<1>5. CASE Replay(items).stopped
  <2>1. /\ items # <<>> /\ Replay(items).good = Len(items) - 1
        /\ Replay(SubSeq(items, 1, Len(items) - 1)).state = Replay(items).state
    BY <1>5, ReplayCut
  <2>2. Len(items) - 1 \in 0..Len(items)
    BY <2>1
  <2>3. disk' = SubSeq(items, 1, Len(items) - 1)
    BY <1>1, <1>5, <2>1
  <2>4. Clean(disk')
    BY <2>2, <2>3, CleanPrefix
  <2> QED
    BY <1>1, <1>3, <1>4, <1>5, <2>1, <2>3, <2>4
<1>6. CASE ~Replay(items).stopped
  BY <1>1, <1>3, <1>4, <1>6
<1> QED
  BY <1>5, <1>6

\* What a writer has written, an operation under way has to give.
LEMMA WrittenIs ==
  ASSUME StateOK, WorkOK, NEW k
  PROVE  Written(k) \subseteq UnderWay(k)
<1>1. ASSUME NEW v \in Written(k) PROVE v \in UnderWay(k)
  <2>1. PICK w \in Writers : Pending(w) /\ Boundary(line[w]) /\ line[w].key = k /\ v = line[w].val
    BY DEF Written
  <2>2. pc[w] \in Appending /\ pc[w] # "idle" /\ WriterOK(w)
    BY <2>1 DEF Pending, Appending, WorkOK
  <2>3. Doing(w).key = k /\ Doing(w).chunk = v /\ v \in Chunks \cup {None}
    BY <2>1, <2>2, LineIs
  <2>4. work[w] \in Seq(Updates) /\ (Len(work[w]) = 1 \/ Len(work[w]) = 2)
    BY <2>2, WorkIs
  <2>5. 1 \in DOMAIN work[w]
    BY <2>4
  <2> QED
    BY <2>3, <2>5 DEF UnderWay, Doing
<1> QED
  BY <1>1

\* The memory after a restart is what some first items of the log replay to.
Reopened ==
  \E n \in stable..Len(disk) : manifests' = Logged(n).manifests /\ counts' = Logged(n).counts

\* A kill takes no entry away.
LEMMA KillStep ==
  ASSUME StateOK, WorkOK, FileOK, SurviveOK, Kill
  PROVE  /\ StateOK' /\ WorkOK' /\ FileOK' /\ SurviveOK' /\ faults' # 0
         /\ ~raced => KeysSurvive /\ Reopened
<1>1. /\ faults' = faults + 1 /\ may' = [k \in Keys |-> may[k] \cup UnderWay(k)] /\ Restart(disk, FALSE)
  BY DEF Kill, Fault
<1>2. faults' \in Nat /\ faults' # 0
  BY <1>1, Types
<1>3. may' \in [Keys -> SUBSET (Chunks \cup {None})]
  <2>1. \A k \in Keys : UnderWay(k) \subseteq Chunks \cup {None}
    BY DEF UnderWay
  <2>2. may \in [Keys -> SUBSET (Chunks \cup {None})]
    BY Types
  <2> QED
    BY <1>1, <2>1, <2>2
<1>4. disk \in Seq(Item) /\ FALSE \in BOOLEAN
  BY Types
<1>5. /\ StateOK' /\ WorkOK'
      /\ \A x \in Writers : pc'[x] = "idle"
      /\ manifests' = Replay(disk).state.manifests /\ counts' = Replay(disk).state.counts
      /\ handle' = "log" /\ raced' = raced
  BY <1>1, <1>2, <1>3, <1>4, RestartIs
<1>6. SUFFICES ASSUME ~raced PROVE FileOK' /\ SurviveOK' /\ KeysSurvive /\ Reopened
  BY <1>2, <1>5 DEF FileOK, SurviveOK
<1>7. Clean(disk)
  BY <1>6 DEF FileOK
<1>8. /\ Clean(disk') /\ Logged(Len(disk))' = Replay(disk).state
      /\ (disk' = disk /\ stable' = stable) \/ stable' = Len(disk')
      /\ Len(disk') \in Nat
  BY <1>1, <1>2, <1>3, <1>4, <1>7, RestartLog
<1>9. \A x \in Writers : ~Pending(x)'
  BY <1>5 DEF Pending
<1>10. ~Compacting'
  BY <1>5 DEF Compacting
<1>11. FileOK'
  BY <1>5, <1>8, <1>9, <1>10 DEF FileOK, Pending
<1>12. \A n \in stable..Len(disk), k \in Keys : Logged(n).manifests[k] \in may[k] \cup UnderWay(k)
  BY <1>6, WrittenIs DEF SurviveOK
<1>13. Logged(Len(disk)) = Replay(disk).state /\ Len(disk) \in stable..Len(disk)
  BY LoggedType, Types
<1>14. \A k \in Keys : may'[k] = may[k] \cup UnderWay(k) /\ manifests'[k] \in may[k] \cup UnderWay(k)
  BY <1>1, <1>5, <1>12, <1>13
<1>15. ASSUME NEW n \in stable'..Len(disk'), NEW k \in Keys PROVE Logged(n)'.manifests[k] \in may'[k]
  <2>1. CASE disk' = disk /\ stable' = stable
    <3>1. Logged(n)' = Logged(n)
      BY <2>1 DEF Logged
    <3> QED
      BY <1>12, <1>14, <2>1, <3>1
  <2>2. CASE stable' = Len(disk')
    <3>1. n = Len(disk')
      BY <1>8, <2>2
    <3>2. Logged(n)' = Replay(disk).state
      BY <1>8, <3>1 DEF Logged
    <3> QED
      BY <1>5, <1>14, <3>2
  <2> QED
    BY <1>8, <2>1, <2>2
<1>16. SurviveOK'
  BY <1>9, <1>14, <1>15 DEF SurviveOK
<1>17. Reopened
  BY <1>5, <1>13 DEF Reopened
<1> QED
  BY <1>11, <1>14, <1>16, <1>17 DEF KeysSurvive

\* Nor does a power cut, of what was stable.
LEMMA PowerCutStep ==
  ASSUME StateOK, WorkOK, FileOK, SurviveOK, PowerCut
  PROVE  /\ StateOK' /\ WorkOK' /\ FileOK' /\ SurviveOK' /\ faults' # 0
         /\ ~raced => KeysSurvive /\ Reopened
<1>1. PICK n \in stable..Len(disk) :
       \/ Restart(SubSeq(disk, 1, n), TRUE)
       \/ /\ n < Len(disk) /\ IsEntry(disk[n + 1])
          /\ \E cut \in {Torn, Mangled} : Restart(Append(SubSeq(disk, 1, n), cut), TRUE)
  BY DEF PowerCut
<1>2. faults' = faults + 1 /\ may' = [k \in Keys |-> {manifests'[k]}]
  BY DEF PowerCut, Fault
<1>3. faults' \in Nat /\ faults' # 0
  BY <1>2, Types
<1>4. disk \in Seq(Item) /\ Len(disk) \in Nat /\ n \in 0..Len(disk) /\ n \in Nat
  BY Types
<1> DEFINE a == SubSeq(disk, 1, n)
<1>5. a \in Seq(Item) /\ Len(a) = n /\ \A i \in 1..n : a[i] = disk[i]
  BY <1>4, Prefix
<1>6. Logged(n) = Replay(a).state
  BY DEF Logged
<1>7. Clean(disk) => Clean(a)
  BY <1>4, CleanPrefix
<1> HIDE DEF a
<1>8. PICK items \in Seq(Item) :
        /\ Restart(items, TRUE)
        /\ Clean(disk) => Clean(items) /\ Replay(items).state = Replay(a).state
  <2>1. CASE Restart(a, TRUE)
    BY <1>5, <1>7, <2>1
  <2>2. CASE /\ n < Len(disk) /\ IsEntry(disk[n + 1])
             /\ \E cut \in {Torn, Mangled} : Restart(Append(a, cut), TRUE)
    <3>1. PICK cut \in {Torn, Mangled} : Restart(Append(a, cut), TRUE)
      BY <2>2
    <3>2. cut \in Item /\ ~IsEntry(cut)
      BY <3>1, Kinds DEF Item
    <3>3. Append(a, cut) \in Seq(Item)
      BY <1>5, <3>2, AppendProperties
    <3>4. ASSUME Clean(disk) PROVE Clean(Append(a, cut)) /\ Replay(Append(a, cut)).state = Replay(a).state
      <4>1. AtStart(a)
        <5>1. CASE n = 0
          BY <1>5, <5>1 DEF AtStart
        <5>2. CASE n # 0
          <6>1. n \in 1..(Len(disk) - 1) /\ n \in 1..n
            BY <1>4, <2>2, <5>2
          <6>2. disk[n + 1] # NL
            BY <2>2, Kinds DEF Item
          <6>3. disk[n] = NL
            BY <3>4, <6>1, <6>2 DEF Clean
          <6> QED
            BY <1>5, <6>1, <6>3 DEF AtStart
        <5> QED
          BY <5>1, <5>2
      <4>2. Clean(Append(a, cut))
        BY <1>5, <1>7, <3>2, <3>4, <4>1, CleanAppend
      <4> QED
        BY <1>5, <3>2, <4>2, ReplayAppend
    <3> QED
      BY <3>1, <3>3, <3>4
  <2> QED
    BY <1>1, <2>1, <2>2 DEF a
<1>9. manifests' \in [Keys -> Chunks \cup {None}]
  <2>1. manifests' = Replay(items).state.manifests
    BY <1>8 DEF Restart
  <2>2. Replay(items).state \in States
    BY ReplayType
  <2> QED
    BY <2>1, <2>2 DEF States
<1>10. may' \in [Keys -> SUBSET (Chunks \cup {None})]
  BY <1>2, <1>9
<1>11. /\ StateOK' /\ WorkOK'
       /\ \A x \in Writers : pc'[x] = "idle"
       /\ manifests' = Replay(items).state.manifests /\ counts' = Replay(items).state.counts
       /\ handle' = "log" /\ raced' = raced
  BY <1>3, <1>8, <1>10, RestartIs
<1>12. SUFFICES ASSUME ~raced PROVE FileOK' /\ SurviveOK' /\ KeysSurvive /\ Reopened
  BY <1>3, <1>11 DEF FileOK, SurviveOK
<1>13. Clean(items) /\ Replay(items).state = Logged(n)
  BY <1>6, <1>8, <1>12 DEF FileOK
<1>14. /\ Clean(disk') /\ Logged(Len(disk))' = Replay(items).state
       /\ stable' = Len(disk') /\ Len(disk') \in Nat
  BY <1>3, <1>8, <1>10, <1>13, RestartLog
<1>15. \A x \in Writers : ~Pending(x)'
  BY <1>11 DEF Pending
<1>16. ~Compacting'
  BY <1>11 DEF Compacting
<1>17. FileOK'
  BY <1>11, <1>14, <1>15, <1>16 DEF FileOK, Pending
<1>18. ASSUME NEW m \in stable'..Len(disk') PROVE Logged(m)' = Replay(items).state
  <2>1. m = Len(disk')
    BY <1>14
  <2> QED
    BY <1>14, <2>1 DEF Logged
<1>19. SurviveOK'
  BY <1>2, <1>11, <1>15, <1>18 DEF SurviveOK
<1>20. KeysSurvive
  <2>1. \A k \in Keys : Logged(n).manifests[k] \in may[k] \cup Written(k)
    BY <1>12 DEF SurviveOK
  <2>2. \A k \in Keys : manifests'[k] \in may[k] \cup UnderWay(k)
    BY <1>11, <1>13, <2>1, WrittenIs
  <2> QED
    BY <2>2 DEF KeysSurvive
<1>21. Reopened
  BY <1>11, <1>13 DEF Reopened
<1> QED
  BY <1>17, <1>19, <1>20, <1>21

-----------------------------------------------------------------------------
(* Counts *)

\* The delete that has dropped k's reference.
Removes(w, k) == pc[w] # "idle" /\ Doing(w).op = "remove" /\ Doing(w).key = k

Claimants(c) == {w \in Writers : Claim(w) = c}

\* Objects and writers can be counted.
LEMMA Countable ==
  ASSUME NEW c
  PROVE  /\ IsFiniteSet(Owners(c)) /\ Cardinality(Owners(c)) \in Nat
         /\ IsFiniteSet(Claimants(c)) /\ Cardinality(Claimants(c)) \in Nat
         /\ Owners(c) = {k \in Keys : manifests[k] = c /\ \A w \in Writers : ~Removes(w, k)}
<1>1. Owners(c) \subseteq Keys /\ Claimants(c) \subseteq Writers
  BY DEF Owners, Claimants
<1>2. IsFiniteSet(Owners(c)) /\ IsFiniteSet(Claimants(c))
  BY <1>1, LogBounds, FS_Subset
<1>3. Owners(c) = {k \in Keys : manifests[k] = c /\ \A w \in Writers : ~Removes(w, k)}
  BY DEF Owners, Removes
<1> QED
  BY <1>2, <1>3, FS_CardinalityType

\* And when a step has been made.
LEMMA CountableThen ==
  ASSUME NEW c
  PROVE  /\ IsFiniteSet(Owners(c)') /\ Cardinality(Owners(c)') \in Nat
         /\ IsFiniteSet(Claimants(c)') /\ Cardinality(Claimants(c)') \in Nat
         /\ Owners(c)' = {k \in Keys : manifests'[k] = c /\ \A w \in Writers : ~Removes(w, k)'}
<1>1. Owners(c)' \subseteq Keys /\ Claimants(c)' \subseteq Writers
  BY DEF Owners, Claimants
<1>2. IsFiniteSet(Owners(c)') /\ IsFiniteSet(Claimants(c)')
  BY <1>1, LogBounds, FS_Subset
<1>3. Owners(c)' = {k \in Keys : manifests'[k] = c /\ \A w \in Writers : ~Removes(w, k)'}
  BY DEF Owners, Removes
<1> QED
  BY <1>2, <1>3, FS_CardinalityType

\* What a step leaves to the writers that stand aside.
LEMMA Aside ==
  ASSUME NEW x, pc'[x] = pc[x], work'[x] = work[x]
  PROVE  Claim(x)' = Claim(x) /\ \A k : Removes(x, k)' <=> Removes(x, k)
BY DEF Claim, Removes, Doing

\* No count changes with a step that leaves the objects and w's claim alone, and
\* makes w remove no other object.
LEMMA CountsSame ==
  ASSUME CountsOK, NEW w \in Writers, faults' = 0 => faults = 0,
         UNCHANGED <<manifests, counts>>,
         \A x \in Writers \ {w} : pc'[x] = pc[x] /\ work'[x] = work[x],
         Claim(w)' = Claim(w),
         \A k \in Keys : manifests[k] # None => (Removes(w, k)' <=> Removes(w, k))
  PROVE  CountsOK'
<1>1. \A x \in Writers \ {w} : Claim(x)' = Claim(x) /\ \A k : Removes(x, k)' <=> Removes(x, k)
  BY Aside
<1>2. ASSUME NEW c \in Chunks PROVE Owners(c)' = Owners(c) /\ Claimants(c)' = Claimants(c)
  <2>1. \A k \in Keys : manifests[k] = c => \A x \in Writers : Removes(x, k)' <=> Removes(x, k)
    BY <1>1, NoneIs
  <2>2. Owners(c)' = Owners(c)
    BY <2>1, Countable, CountableThen
  <2>3. Claimants(c)' = Claimants(c)
    BY <1>1 DEF Claimants
  <2> QED
    BY <2>2, <2>3
<1> QED
  BY <1>2 DEF CountsOK, Claimants

\* Only the owner of a key's lock removes its object.
LEMMA RemovesOwn ==
  ASSUME WorkOK, NEW x \in Writers, NEW k, Removes(x, k)
  PROVE  keyLock[k] = x
BY DEF WorkOK, WriterOK, RemoveOK, Removes

\* The count that a writer is going to drop is above 0.
LEMMA Counted ==
  ASSUME StateOK, WorkOK, CountsOK, faults = 0, NEW w \in Writers, pc[w] # "idle", Doing(w).op = "drop"
  PROVE  counts[Doing(w).chunk] > 0
<1> DEFINE c == Doing(w).chunk
<1>1. WriterOK(w) /\ DropOK(w)
  BY DEF WorkOK, WriterOK
<1>2. c \in Chunks
  BY <1>1, WorkIs, UpdateIs
<1>3. counts[c] = Cardinality(Owners(c)) + Cardinality(Claimants(c))
  BY <1>2 DEF CountsOK, Claimants
<1>4. CASE Len(work[w]) = 1
  <2>1. w \in Claimants(c)
    BY <1>4 DEF Claimants, Claim
  <2>2. Cardinality(Claimants(c)) # 0
    BY <2>1, Countable, FS_EmptySet
  <2> QED
    BY <1>3, <2>2, Countable
<1>5. CASE Len(work[w]) = 2
  <2> DEFINE k == work[w][2].key
  <2>1. k \in Keys /\ keyLock[k] = w /\ manifests[k] = c
    BY <1>1, <1>5, WorkIs, UpdateIs DEF DropOK
  <2>2. \A x \in Writers : ~Removes(x, k)
    <3>1. ~Removes(w, k)
      BY DEF Removes
    <3> QED
      BY <2>1, <3>1, RemovesOwn
  <2>3. k \in Owners(c)
    BY <2>1, <2>2, Countable
  <2>4. Cardinality(Owners(c)) # 0
    BY <2>3, Countable, FS_EmptySet
  <2> QED
    BY <1>3, <2>4, Countable
<1> QED
  BY <1>1, <1>4, <1>5, WorkIs

\* A writer claims the same from the beginning of an update to its effect, and
\* from there to its end.
LEMMA ClaimStays ==
  ASSUME NEW w \in Writers, pc[w] # "idle", pc'[w] # "idle", work'[w] = work[w],
         pc[w] \in {"begin"} \cup Appending <=> pc'[w] \in {"begin"} \cup Appending
  PROVE  Claim(w)' = Claim(w) /\ \A k : Removes(w, k)' <=> Removes(w, k)
<1>1. Doing(w)' = Doing(w)
  BY DEF Doing
<1> QED
  BY <1>1 DEF Claim, Removes, Appending

\* A reference to take or to drop for another update is nobody's claim.
LEMMA NoClaim ==
  ASSUME NEW w \in Writers, pc[w] # "idle" => Doing(w).op = "add" \/ (Doing(w).op = "drop" /\ Len(work[w]) = 2)
  PROVE  Claim(w) = None /\ \A k : ~Removes(w, k)
BY DEF Claim, Removes

\* The end of an update whose effect is in the memory changes no claim.
LEMMA AdvanceClaim ==
  ASSUME StateOK, WorkOK, NEW w \in Writers, pc[w] \in {"compact?"} \cup Compaction, Advance(w)
  PROVE  /\ Claim(w)' = Claim(w)
         /\ \A k \in Keys : manifests[k] # None => (Removes(w, k)' <=> Removes(w, k))
<1>1. WriterOK(w) /\ pc[w] # "idle" /\ pc[w] \notin {"begin"} \cup Appending
  BY DEF WorkOK, Compaction, Appending
<1>2. Doing(w).op # "add" /\ Doing(w).op # "drop"
  BY <1>1 DEF WriterOK, AddOK, DropOK, Appending
<1>3. Doing(w).op \in {"put", "remove"}
  BY <1>1, <1>2, WorkIs, UpdateIs
<1>t. pc \in [Writers -> Labels] /\ work \in [Writers -> Seq(Updates)]
  BY Types
<1>4. CASE Len(work[w]) = 2
  <2> DEFINE u == work[w][2]
  <2>1. Doing(w).op = "put" /\ u.op = "drop"
    BY <1>1, <1>3, <1>4 DEF WriterOK, PutOK, RemoveOK
  <2>2. Claim(w) = u.chunk /\ \A k : ~Removes(w, k)
    BY <1>1, <1>4, <2>1 DEF Claim, Removes
  <2>3. pc' = [pc EXCEPT ![w] = "begin"] /\ work' = [work EXCEPT ![w] = <<u>>]
    BY <1>1, <1>4, AdvanceIs
  <2> HIDE DEF u
  <2>4. pc'[w] = "begin" /\ work'[w] = <<u>>
    BY <1>t, <2>3
  <2>5. <<u>>[1] = u /\ Len(<<u>>) = 1
    OBVIOUS
  <2>6. Doing(w)' = u /\ Len(work'[w]) = 1
    BY <2>4, <2>5 DEF Doing
  <2>7. Claim(w)' = u.chunk /\ \A k : ~Removes(w, k)'
    BY <2>1, <2>4, <2>6 DEF Claim, Removes
  <2> QED
    BY <2>2, <2>7
<1>5. CASE Len(work[w]) = 1
  <2>1. pc' = [pc EXCEPT ![w] = "idle"]
    BY <1>1, <1>5, AdvanceIs
  <2>2. pc'[w] = "idle"
    BY <1>t, <2>1
  <2>3. Claim(w)' = None /\ \A k : ~Removes(w, k)'
    BY <2>2 DEF Claim, Removes
  <2>4. Claim(w) = None
    BY <1>1, <1>3, <1>5 DEF Claim
  <2>5. ASSUME NEW k \in Keys, Removes(w, k) PROVE manifests[k] = None
    BY <1>1, <2>5 DEF Removes, WriterOK, RemoveOK
  <2> QED
    BY <2>3, <2>4, <2>5
<1> QED
  BY <1>1, <1>4, <1>5, WorkIs

\* The steps that neither write to the log nor change the memory change no claim.
LEMMA QuietCounts ==
  ASSUME StateOK, WorkOK, CountsOK, NEW w \in Writers, Quiet(w)
  PROVE  CountsOK'
<1> SUFFICES ASSUME faults' = 0 PROVE CountsOK'
  BY DEF CountsOK
<1>1. UNCHANGED <<manifests, counts>> /\ faults = 0 /\ (\A x \in Writers \ {w} : pc'[x] = pc[x])
  BY QuietIs
<1>2. WriterOK(w)
  BY DEF WorkOK
<1>t. pc \in [Writers -> Labels] /\ work \in [Writers -> Seq(Updates)]
  BY Types
<1> DEFINE Out == /\ \A x \in Writers \ {w} : work'[x] = work[x]
                  /\ Claim(w)' = Claim(w)
                  /\ \A k \in Keys : manifests[k] # None => (Removes(w, k)' <=> Removes(w, k))
<1>3. ASSUME NEW s, Call(w, s), s[1].op = "add" \/ s[1].op = "drop", Len(s) = 2 PROVE Out
  <2>1. pc[w] = "idle" /\ pc' = [pc EXCEPT ![w] = "begin"] /\ work' = [work EXCEPT ![w] = s]
    BY <1>3 DEF Call, Goto
  <2>2. work'[w] = s /\ \A x \in Writers \ {w} : work'[x] = work[x]
    BY <1>t, <2>1
  <2>3. Claim(w) = None /\ \A k : ~Removes(w, k)
    BY <2>1, NoClaim
  <2>4. Doing(w)' = s[1] /\ Len(work'[w]) = 2
    BY <1>3, <2>2 DEF Doing
  <2>5. Claim(w)' = None /\ \A k : ~Removes(w, k)'
    BY <1>3, <2>4 DEF Claim, Removes
  <2> QED
    BY <2>2, <2>3, <2>5
<1>4. ASSUME NEW k \in Keys, NEW c \in Chunks, Store(w, k, c) PROVE Out
  <2> DEFINE a == Update("add", None, c)
             b == Update("put", k, c)
  <2>1. Call(w, <<a, b>>) /\ a.op = "add"
    BY <1>4 DEF Store, Update
  <2> HIDE DEF a, b
  <2> DEFINE s == <<a, b>>
  <2>2. Call(w, s) /\ s[1].op = "add" /\ Len(s) = 2
    BY <2>1
  <2> HIDE DEF s, Out
  <2> QED
    BY <1>3, <2>2
<1>5. ASSUME NEW k \in Keys, Delete(w, k) PROVE Out
  <2> DEFINE a == Update("drop", None, manifests[k])
             b == Update("remove", k, None)
  <2>1. Call(w, <<a, b>>) /\ a.op = "drop"
    BY <1>5 DEF Delete, Update
  <2> HIDE DEF a, b
  <2> DEFINE s == <<a, b>>
  <2>2. Call(w, s) /\ s[1].op = "drop" /\ Len(s) = 2
    BY <2>1
  <2> HIDE DEF s, Out
  <2> QED
    BY <1>3, <2>2
<1>6. ASSUME pc[w] # "idle", NEW l \in Labels, l # "idle", Goto(w, l), work' = work,
             pc[w] \in {"begin"} \cup Appending <=> l \in {"begin"} \cup Appending
      PROVE  Out
  <2>1. pc'[w] = l
    BY <1>6, GotoIs
  <2>2. Claim(w)' = Claim(w) /\ \A k : Removes(w, k)' <=> Removes(w, k)
    BY <1>6, <2>1, ClaimStays
  <2> QED
    BY <1>6, <2>2
<1>7. ASSUME AddChunkRef(w) \/ DeleteManifest(w) PROVE Out
  <2>1. pc[w] = "begin" /\ Goto(w, "line") /\ work' = work
    BY <1>7 DEF AddChunkRef, DeleteManifest
  <2>2. "line" \in Labels /\ pc[w] \in {"begin"} \cup Appending /\ "line" \in {"begin"} \cup Appending
    BY <2>1 DEF Labels, Appending
  <2> HIDE DEF Out
  <2> QED
    BY <1>6, <2>1, <2>2
<1>8. ASSUME DecrementChunkRef(w) PROVE Out
  <2>1. pc[w] = "begin" /\ Doing(w) = Head(work[w])
    BY <1>2, <1>8, WorkIs DEF DecrementChunkRef
  <2>2. Doing(w).op = "drop" /\ (counts[Doing(w).chunk] = 0 \/ (Goto(w, "line") /\ work' = work))
    BY <1>8, <2>1 DEF DecrementChunkRef
  <2>3. counts[Doing(w).chunk] > 0
    BY <1>1, <2>1, <2>2, Counted
  <2>4. "line" \in Labels /\ pc[w] \in {"begin"} \cup Appending /\ "line" \in {"begin"} \cup Appending
    BY <2>1 DEF Labels, Appending
  <2>5. counts[Doing(w).chunk] # 0
    BY <2>3
  <2> HIDE DEF Out
  <2> QED
    BY <1>6, <2>1, <2>2, <2>4, <2>5
<1>9. ASSUME PutManifest(w) PROVE Out
  <2>1. pc[w] = "begin" /\ Doing(w) = Head(work[w]) /\ work[w] # <<>> /\ work[w] \in Seq(Updates)
    BY <1>2, <1>9, WorkIs DEF PutManifest, WriterOK
  <2> DEFINE m == Update("drop", None, manifests[Doing(w).key])
  <2>2. Doing(w).op = "put" /\ Goto(w, "line")
        /\ work' = [work EXCEPT ![w] = IF manifests[Doing(w).key] = None THEN work[w] ELSE Append(work[w], m)]
    BY <1>9, <2>1 DEF PutManifest
  <2>3. Doing(w).key \in Keys
    BY <1>2, <2>1, <2>2, WorkIs, UpdateIs
  <2>4. manifests[Doing(w).key] # None => m \in Updates
    BY <2>3, Types DEF Update, Updates
  <2> HIDE DEF m
  <2>5. work'[w] = work[w] \/ (m \in Updates /\ work'[w] = Append(work[w], m))
    BY <1>t, <2>2, <2>4
  <2>6. Len(work[w]) \in Nat /\ Len(work[w]) # 0
    BY <2>1
  <2>7. Doing(w)' = Doing(w)
    <3>1. ASSUME m \in Updates PROVE Append(work[w], m)[1] = work[w][1]
      BY <2>1, <2>6, <3>1, AppendProperties
    <3> QED
      BY <2>5, <3>1 DEF Doing
  <2>8. pc'[w] = "line"
    BY <2>2, GotoIs DEF Labels, Appending
  <2>9. Claim(w) = Doing(w).chunk /\ Claim(w)' = Doing(w).chunk
    BY <2>1, <2>2, <2>7, <2>8 DEF Claim, Appending
  <2>10. \A k : ~Removes(w, k) /\ ~Removes(w, k)'
    BY <2>2, <2>7 DEF Removes
  <2>11. \A x \in Writers \ {w} : work'[x] = work[x]
    BY <1>t, <2>2
  <2> QED
    BY <2>9, <2>10, <2>11
<1>10. ASSUME SkipCompaction(w) \/ EndCompaction(w) \/ CompactionFails(w) PROVE Out
  <2>1. pc[w] \in {"compact?"} \cup Compaction /\ Advance(w) /\ pc[w] # "idle"
    BY <1>10 DEF SkipCompaction, EndCompaction, CompactionFails, Compaction
  <2>2. \A x \in Writers \ {w} : work'[x] = work[x]
    BY <1>2, <2>1, AdvanceOK
  <2> QED
    BY <2>1, <2>2, AdvanceClaim
<1>11. ASSUME StartCompaction(w) \/ DropState(w) \/ SwapHandle(w) PROVE Out
  <2>1. pc[w] \in {"compact?"} \cup Compaction /\ (\E l \in Compaction : Goto(w, l)) /\ work' = work
    BY <1>11 DEF StartCompaction, DropState, SwapHandle, Compaction
  <2>2. PICK l \in Compaction : Goto(w, l)
    BY <2>1
  <2>3. l \in Labels /\ l # "idle" /\ l \notin {"begin"} \cup Appending
        /\ pc[w] \notin {"begin"} \cup Appending /\ pc[w] # "idle"
    BY <2>1 DEF Labels, Compaction, Appending
  <2> HIDE DEF Out
  <2> QED
    BY <1>6, <2>1, <2>2, <2>3
<1>12. Out
  <2> HIDE DEF Out
  <2> QED
    BY <1>4, <1>5, <1>7, <1>8, <1>9, <1>10, <1>11 DEF Quiet
<1> QED
  BY <1>1, <1>12, CountsSame

\* Nor do those that write to the log, or put a new log in its place.
LEMMA LogCounts ==
  ASSUME StateOK, WorkOK, CountsOK, NEW w \in Writers,
         AppendLine(w) \/ AppendNewline(w) \/ Sync(w) \/ RenameLog(w)
  PROVE  CountsOK'
<1>1. UNCHANGED <<manifests, counts, work, faults>>
  BY DEF AppendLine, AppendNewline, Sync, RenameLog, memVars, boundVars
<1>2. PICK l \in Labels : /\ Goto(w, l) /\ pc[w] # "idle" /\ l # "idle"
                          /\ pc[w] \in {"begin"} \cup Appending <=> l \in {"begin"} \cup Appending
  <2>1. {"newline", "sync", "apply", "reopen"} \subseteq Labels
    BY DEF Labels, Appending, Compaction
  <2>2. CASE AppendLine(w) \/ AppendNewline(w) \/ Sync(w)
    <3>1. pc[w] \in Appending /\ (Goto(w, "newline") \/ Goto(w, "sync") \/ Goto(w, "apply"))
      BY <2>2 DEF AppendLine, AppendNewline, Sync, Appending
    <3> QED
      BY <2>1, <3>1 DEF Appending
  <2>3. CASE RenameLog(w)
    <3>1. pc[w] = "rename" /\ Goto(w, "reopen")
      BY <2>3 DEF RenameLog
    <3> QED
      BY <2>1, <3>1 DEF Appending
  <2> QED
    BY <2>2, <2>3
<1>3. pc'[w] = l /\ \A x \in Writers \ {w} : pc'[x] = pc[x]
  BY <1>2, GotoIs
<1>4. Claim(w)' = Claim(w) /\ \A k : Removes(w, k)' <=> Removes(w, k)
  BY <1>1, <1>2, <1>3, ClaimStays
<1> QED
  BY <1>1, <1>3, <1>4, CountsSame

\* Adding an element, counted.
LEMMA OneMore ==
  ASSUME NEW S, NEW T, IsFiniteSet(S), NEW x, x \notin S, T = S \cup {x}
  PROVE  Cardinality(T) = Cardinality(S) + 1
BY FS_AddElement

\* And removing one.
LEMMA OneLess ==
  ASSUME NEW S, NEW T, IsFiniteSet(S), NEW x, x \in S, T = S \ {x}
  PROVE  Cardinality(T) = Cardinality(S) - 1
BY FS_RemoveElement

\* A new count comes with a new claim, or without one that was.
LEMMA ApplyCount ==
  ASSUME StateOK, WorkOK, CountsOK, NEW w \in Writers, Apply(w), ~Boundary(line[w]), faults = 0
  PROVE  CountsOK'
<1> DEFINE e == line[w]
           c == e.key
<1>1. /\ pc[w] = "apply" /\ WriterOK(w)
      /\ counts' = [counts EXCEPT ![c] = e.val] /\ manifests' = manifests /\ Advance(w) /\ faults' = faults
  BY ApplyIs
<1>2. pc[w] \in Appending /\ pc[w] # "idle"
  BY <1>1 DEF Appending
<1>3. /\ c = Doing(w).chunk /\ c \in Chunks /\ e.val \in Nat
      /\ Doing(w).op = "add" => e.val = counts[c] + 1
      /\ Doing(w).op = "drop" => counts[c] > 0 /\ e.val = counts[c] - 1
      /\ Doing(w).op \notin {"put", "remove"}
  BY <1>1, <1>2, LineIs
<1>4. Doing(w).op \in {"add", "drop"}
  BY <1>1, <1>2, <1>3, WorkIs, UpdateIs
<1>5. \A x \in Writers \ {w} : pc'[x] = pc[x] /\ work'[x] = work[x]
  BY <1>1, <1>2, AdvanceOK
<1>6. \A x \in Writers \ {w} : Claim(x)' = Claim(x) /\ \A k : Removes(x, k)' <=> Removes(x, k)
  BY <1>5, Aside
<1>7. \A k : ~Removes(w, k)
  BY <1>3 DEF Removes
<1>t. pc \in [Writers -> Labels] /\ work \in [Writers -> Seq(Updates)] /\ counts \in [Chunks -> Nat]
  BY Types
<1> HIDE DEF c, e
<1>8. counts'[c] = e.val /\ \A d \in Chunks \ {c} : counts'[d] = counts[d]
  BY <1>1, <1>3, <1>t
<1>9. \A d \in Chunks : counts[d] = Cardinality(Owners(d)) + Cardinality(Claimants(d))
  BY DEF CountsOK, Claimants
<1>10. SUFFICES ASSUME NEW d \in Chunks
               PROVE counts'[d] = Cardinality(Owners(d)') + Cardinality(Claimants(d)')
  BY DEF CountsOK, Claimants
<1>11. counts[d] \in Nat /\ Cardinality(Owners(d)) \in Nat /\ Cardinality(Claimants(d)) \in Nat
  BY <1>t, Countable
<1>12. ASSUME \A k \in Keys : ~Removes(w, k)' PROVE Owners(d)' = Owners(d)
  <2>1. \A k \in Keys : \A x \in Writers : Removes(x, k)' <=> Removes(x, k)
    BY <1>6, <1>7, <1>12
  <2> QED
    BY <1>1, <2>1, Countable, CountableThen
<1>13. CASE Doing(w).op = "add"
  <2> DEFINE u == work[w][2]
  <2>1. Len(work[w]) = 2 /\ u.op = "put" /\ u.chunk = c
    BY <1>1, <1>2, <1>3, <1>13 DEF WriterOK, AddOK
  <2>2. pc' = [pc EXCEPT ![w] = "begin"] /\ work' = [work EXCEPT ![w] = <<u>>]
    BY <1>1, <1>2, <2>1, AdvanceIs
  <2> HIDE DEF u
  <2>3. pc'[w] = "begin" /\ work'[w] = <<u>> /\ <<u>>[1] = u
    BY <1>t, <2>2
  <2>4. Doing(w)' = u
    BY <2>3 DEF Doing
  <2>5. Claim(w)' = c /\ \A k : ~Removes(w, k)'
    BY <2>1, <2>3, <2>4 DEF Claim, Removes
  <2>6. Claim(w) = None /\ None # c /\ None # d
    BY <1>3, <1>13, NoClaim, NoneIs
  <2>7. Owners(d)' = Owners(d)
    BY <1>12, <2>5
  <2>8. CASE d = c
    <3>1. w \notin Claimants(d) /\ Claimants(d)' = Claimants(d) \cup {w}
      BY <1>6, <2>5, <2>6, <2>8 DEF Claimants
    <3>2. Cardinality(Claimants(d)') = Cardinality(Claimants(d)) + 1
      BY <3>1, Countable, OneMore
    <3>3. counts'[d] = counts[d] + 1
      BY <1>3, <1>8, <1>13, <2>8
    <3> QED
      BY <1>9, <1>11, <2>7, <3>2, <3>3
  <2>9. CASE d # c
    <3>1. Claimants(d)' = Claimants(d)
      BY <1>6, <2>5, <2>6, <2>9 DEF Claimants
    <3> QED
      BY <1>8, <1>9, <2>7, <2>9, <3>1
  <2> QED
    BY <2>8, <2>9
<1>14. CASE Doing(w).op = "drop" /\ Len(work[w]) = 1
  <2>1. pc' = [pc EXCEPT ![w] = "idle"]
    BY <1>1, <1>2, <1>14, AdvanceIs
  <2>2. pc'[w] = "idle"
    BY <1>t, <2>1
  <2>3. Claim(w)' = None /\ \A k : ~Removes(w, k)'
    BY <2>2 DEF Claim, Removes
  <2>4. Claim(w) = c /\ None # c /\ None # d
    BY <1>2, <1>3, <1>14, NoneIs DEF Claim
  <2>5. Owners(d)' = Owners(d)
    BY <1>12, <2>3
  <2>6. CASE d = c
    <3>1. w \in Claimants(d) /\ Claimants(d)' = Claimants(d) \ {w}
      BY <1>6, <2>3, <2>4, <2>6 DEF Claimants
    <3>2. Cardinality(Claimants(d)') = Cardinality(Claimants(d)) - 1
      BY <3>1, Countable, OneLess
    <3>3. counts'[d] = counts[d] - 1
      BY <1>3, <1>8, <1>14, <2>6
    <3> QED
      BY <1>9, <1>11, <2>5, <3>2, <3>3
  <2>7. CASE d # c
    <3>1. Claimants(d)' = Claimants(d)
      BY <1>6, <2>3, <2>4, <2>7 DEF Claimants
    <3> QED
      BY <1>8, <1>9, <2>5, <2>7, <3>1
  <2> QED
    BY <2>6, <2>7
<1>15. CASE Doing(w).op = "drop" /\ Len(work[w]) = 2
  <2> DEFINE u == work[w][2]
             k == u.key
  <2>1. u.op = "remove" /\ k \in Keys /\ keyLock[k] = w /\ manifests[k] = c
    BY <1>1, <1>2, <1>3, <1>15, WorkIs, UpdateIs DEF WriterOK, DropOK
  <2>2. pc' = [pc EXCEPT ![w] = "begin"] /\ work' = [work EXCEPT ![w] = <<u>>]
    BY <1>1, <1>2, <1>15, AdvanceIs
  <2> HIDE DEF u
  <2>3. pc'[w] = "begin" /\ work'[w] = <<u>> /\ <<u>>[1] = u
    BY <1>t, <2>2
  <2>4. Doing(w)' = u
    BY <2>3 DEF Doing
  <2>5. Claim(w)' = None /\ \A j : Removes(w, j)' <=> j = k
    BY <2>1, <2>3, <2>4 DEF Claim, Removes
  <2>6. Claim(w) = None
    BY <1>15, NoClaim
  <2>7. Claimants(d)' = Claimants(d)
    BY <1>6, <2>5, <2>6 DEF Claimants
  <2>8. \A x \in Writers : ~Removes(x, k)
    BY <1>7, <2>1, RemovesOwn
  <2> HIDE DEF k
  <2>9. Owners(d)' = Owners(d) \ {k}
    <3>1. \A j \in Keys \ {k} : \A x \in Writers : Removes(x, j)' <=> Removes(x, j)
      BY <1>6, <1>7, <2>5
    <3>2. k \notin Owners(d)'
      BY <2>5, CountableThen
    <3>3. \A j \in Keys \ {k} : j \in Owners(d)' <=> j \in Owners(d)
      BY <1>1, <3>1, Countable, CountableThen
    <3>4. Owners(d) \subseteq Keys /\ Owners(d)' \subseteq Keys
      BY DEF Owners
    <3> QED
      BY <3>2, <3>3, <3>4
  <2>10. CASE d = c
    <3>1. k \in Owners(d)
      BY <2>1, <2>8, <2>10, Countable
    <3>2. Cardinality(Owners(d)') = Cardinality(Owners(d)) - 1
      BY <2>9, <3>1, Countable, OneLess
    <3>3. counts'[d] = counts[d] - 1
      BY <1>3, <1>8, <1>15, <2>10
    <3> QED
      BY <1>9, <1>11, <2>7, <3>2, <3>3
  <2>11. CASE d # c
    <3>1. k \notin Owners(d)
      BY <2>1, <2>11, Countable
    <3>2. Owners(d)' = Owners(d)
      BY <2>9, <3>1
    <3> QED
      BY <1>8, <1>9, <2>7, <2>11, <3>2
  <2> QED
    BY <2>10, <2>11
<1> QED
  BY <1>1, <1>2, <1>4, <1>13, <1>14, <1>15, WorkIs

\* A new object takes over its writer's claim, and leaves it the claim on the
\* chunk of the one it replaces; an object that goes has been given up before.
LEMMA ApplyObject ==
  ASSUME StateOK, WorkOK, CountsOK, NEW w \in Writers, Apply(w), Boundary(line[w]), faults = 0
  PROVE  CountsOK'
<1> DEFINE e == line[w]
<1>0. pc[w] = "apply" /\ WriterOK(w)
  BY ApplyIs
<1>k. e.key \in Keys
  BY <1>0, LineIs DEF Appending
<1> PICK k \in Keys : k = e.key
  BY <1>k
<1> DEFINE m == manifests[k]
<1>1. /\ pc[w] = "apply" /\ WriterOK(w)
      /\ manifests' = [manifests EXCEPT ![k] = e.val] /\ counts' = counts /\ faults' = faults
      /\ Goto(w, "compact?") /\ work' = work
  BY ApplyIs
<1>2. pc[w] \in Appending /\ pc[w] # "idle"
  BY <1>1 DEF Appending
<1>3. /\ Doing(w).op \in {"put", "remove"} /\ k = Doing(w).key /\ e.val = Doing(w).chunk
      /\ k \in Keys /\ e.val \in Chunks \cup {None} /\ keyLock[k] = w
  BY <1>1, <1>2, LineIs
<1>4. pc'[w] = "compact?" /\ pc'[w] # "idle" /\ \A x \in Writers \ {w} : pc'[x] = pc[x]
  BY <1>1, GotoIs DEF Labels
<1>5. Doing(w)' = Doing(w)
  BY <1>1 DEF Doing
<1>6. \A x \in Writers \ {w} : Claim(x)' = Claim(x) /\ \A j : Removes(x, j)' <=> Removes(x, j)
  BY <1>1, <1>4, Aside
<1>7. \A j : Removes(w, j)' <=> Removes(w, j)
  BY <1>2, <1>4, <1>5 DEF Removes
<1>8. \A x \in Writers \ {w} : ~Removes(x, k)
  BY <1>3, RemovesOwn
<1>t. manifests \in [Keys -> Chunks \cup {None}] /\ counts \in [Chunks -> Nat]
  BY Types
<1> DEFINE v == e.val
<1>9. /\ k \in Keys /\ m \in Chunks \cup {None} /\ v \in Chunks \cup {None} /\ v = Doing(w).chunk
      /\ manifests'[k] = v /\ \A j \in Keys \ {k} : manifests'[j] = manifests[j]
  BY <1>1, <1>3, <1>t
<1>10. SUFFICES ASSUME NEW d \in Chunks
               PROVE counts'[d] = Cardinality(Owners(d)') + Cardinality(Claimants(d)')
  BY DEF CountsOK, Claimants
<1>11. counts[d] = Cardinality(Owners(d)) + Cardinality(Claimants(d)) /\ None # d
       /\ Cardinality(Owners(d)) \in Nat /\ Cardinality(Claimants(d)) \in Nat
  BY Countable, NoneIs DEF CountsOK, Claimants
<1>12. m = manifests[k] /\ manifests'[k] = v
  BY <1>9
<1> HIDE DEF m, v
<1>13. Owners(d) \subseteq Keys /\ Owners(d)' \subseteq Keys
       /\ \A j \in Keys \ {k} : j \in Owners(d)' <=> j \in Owners(d)
  <2>1. \A j \in Keys : \A x \in Writers : Removes(x, j)' <=> Removes(x, j)
    BY <1>6, <1>7
  <2> QED
    BY <1>9, <2>1, Countable, CountableThen
<1>14. CASE Doing(w).op = "remove"
  <2>1. Removes(w, k) /\ Removes(w, k)'
    BY <1>2, <1>3, <1>7, <1>14 DEF Removes
  <2>2. k \notin Owners(d) /\ k \notin Owners(d)'
    BY <2>1, Countable, CountableThen
  <2>3. Owners(d)' = Owners(d)
    BY <1>13, <2>2
  <2>4. Claim(w) = None /\ Claim(w)' = None
    BY <1>2, <1>4, <1>5, <1>14 DEF Claim
  <2>5. Claimants(d)' = Claimants(d)
    BY <1>6, <2>4 DEF Claimants
  <2> QED
    BY <1>1, <1>11, <2>3, <2>5
<1>15. CASE Doing(w).op = "put"
  <2>1. \A x \in Writers : ~Removes(x, k) /\ ~Removes(x, k)'
    BY <1>6, <1>7, <1>8, <1>15 DEF Removes
  <2>2. (k \in Owners(d) <=> m = d) /\ (k \in Owners(d)' <=> v = d)
    BY <1>9, <1>12, <2>1, Countable, CountableThen
  <2>3. Claim(w) = v
    BY <1>2, <1>9, <1>15 DEF Claim
  <2>4. Claim(w)' = m
    <3>1. PutOK(w)
      BY <1>1, <1>2, <1>15 DEF WriterOK
    <3>2. (Len(work[w]) = 1 <=> m = None) /\ (Len(work[w]) = 2 => work[w][2].chunk = m)
          /\ (Len(work[w]) = 1 \/ Len(work[w]) = 2)
      BY <1>2, <1>3, <1>12, <3>1 DEF PutOK
    <3>3. Claim(w)' = IF Len(work[w]) = 2 THEN work[w][2].chunk ELSE None
      BY <1>1, <1>4, <1>5, <1>15 DEF Claim, Appending
    <3>4. CASE Len(work[w]) = 2
      BY <3>2, <3>3, <3>4
    <3>5. CASE Len(work[w]) = 1
      <4>1. ~(Len(work[w]) = 2)
        BY <3>5
      <4> QED
        BY <3>2, <3>3, <3>5, <4>1
    <3> QED
      BY <3>2, <3>4, <3>5
  <2>5. /\ w \in Claimants(d) <=> v = d
        /\ w \in Claimants(d)' <=> m = d
        /\ \A x \in Writers \ {w} : x \in Claimants(d)' <=> x \in Claimants(d)
        /\ Claimants(d) \subseteq Writers /\ Claimants(d)' \subseteq Writers
    BY <1>6, <2>3, <2>4 DEF Claimants
  <2>6. CASE m = v
    <3>1. Owners(d)' = Owners(d)
      BY <1>13, <2>2, <2>6
    <3>2. Claimants(d)' = Claimants(d)
      BY <2>5, <2>6
    <3> QED
      BY <1>1, <1>11, <3>1, <3>2
  <2>7. CASE v = d /\ m # v
    <3>1. Owners(d)' = Owners(d) \cup {k} /\ k \notin Owners(d)
      BY <1>9, <1>13, <2>2, <2>7
    <3>2. Claimants(d)' = Claimants(d) \ {w} /\ w \in Claimants(d)
      BY <2>5, <2>7
    <3>3. Cardinality(Owners(d)') = Cardinality(Owners(d)) + 1
      BY <3>1, Countable, OneMore
    <3>4. Cardinality(Claimants(d)') = Cardinality(Claimants(d)) - 1
      BY <3>2, Countable, OneLess
    <3> QED
      BY <1>1, <1>11, <3>3, <3>4
  <2>8. CASE m = d /\ m # v
    <3>1. Owners(d)' = Owners(d) \ {k} /\ k \in Owners(d)
      BY <1>9, <1>13, <2>2, <2>8
    <3>2. Claimants(d)' = Claimants(d) \cup {w} /\ w \notin Claimants(d)
      BY <2>5, <2>8
    <3>3. Cardinality(Owners(d)') = Cardinality(Owners(d)) - 1
      BY <3>1, Countable, OneLess
    <3>4. Cardinality(Claimants(d)') = Cardinality(Claimants(d)) + 1
      BY <3>2, Countable, OneMore
    <3> QED
      BY <1>1, <1>11, <3>3, <3>4
  <2>9. CASE m # d /\ v # d
    <3>1. Owners(d)' = Owners(d)
      BY <1>13, <2>2, <2>9
    <3>2. Claimants(d)' = Claimants(d)
      BY <2>5, <2>9
    <3> QED
      BY <1>1, <1>11, <3>1, <3>2
  <2> QED
    BY <2>6, <2>7, <2>8, <2>9
<1> QED
  BY <1>3, <1>14, <1>15

\* The memory takes every count over as it should be.
LEMMA ApplyCounts ==
  ASSUME StateOK, WorkOK, CountsOK, NEW w \in Writers, Apply(w)
  PROVE  CountsOK'
<1>1. faults' = faults
  BY ApplyIs
<1>2. CASE faults = 0
  BY <1>2, ApplyCount, ApplyObject
<1>3. CASE faults # 0
  BY <1>1, <1>3 DEF CountsOK
<1> QED
  BY <1>2, <1>3

-----------------------------------------------------------------------------
(* The invariant, and the properties *)

\* The invariant holds of an empty index.
LEMMA InitOK ==
  ASSUME Init
  PROVE  LogIInv
<1>1. /\ manifests = EmptyState.manifests /\ counts = EmptyState.counts
      /\ disk = <<>> /\ stable = 0 /\ handle = "log" /\ tmp = <<>> /\ entries = 0
      /\ logLock = None /\ refLock = None /\ compactLock = None
      /\ keyLock = [k \in Keys |-> None]
      /\ pc = [w \in Writers |-> "idle"]
      /\ work = [w \in Writers |-> <<>>]
      /\ line = [w \in Writers |-> NL]
      /\ up = TRUE /\ may = [k \in Keys |-> {None}] /\ raced = FALSE
      /\ ops = 0 /\ faults = 0 /\ restarts = 0
  BY DEF Init
<1>2. EmptyState \in States
  BY DEF EmptyState, States
<1>3. EmptyState.manifests = [k \in Keys |-> None] /\ EmptyState.counts = [c \in Chunks |-> 0]
  BY DEF EmptyState
<1>4. <<>> \in Seq(Item) /\ <<>> \in Seq(Updates) /\ Len(<<>>) = 0
  OBVIOUS
<1>5. NL \in Item /\ "idle" \in Labels
  BY DEF Item, Labels
<1>6. StateOK
  <2>1. manifests \in [Keys -> Chunks \cup {None}] /\ counts \in [Chunks -> Nat]
    BY <1>1, <1>3
  <2>2. keyLock \in [Keys -> Writers \cup {None}] /\ pc \in [Writers -> Labels]
        /\ work \in [Writers -> Seq(Updates)] /\ line \in [Writers -> Item]
        /\ may \in [Keys -> SUBSET (Chunks \cup {None})]
    BY <1>1, <1>4, <1>5
  <2>3. disk \in Seq(Item) /\ tmp \in Seq(Item) /\ stable \in 0..Len(disk)
    BY <1>1, <1>4
  <2>4. {ops, faults, restarts} \subseteq Nat /\ entries \in Nat /\ handle \in {"log", "unlinked"}
    BY <1>1
  <2>5. {logLock, refLock, compactLock} \subseteq Writers \cup {None}
    BY <1>1
  <2>6. raced \in BOOLEAN /\ up \in BOOLEAN
    BY <1>1, Zenon
  <2> QED
    BY <2>1, <2>2, <2>3, <2>4, <2>5, <2>6 DEF StateOK, LogTypeOK, Labels
<1>7. \A w \in Writers : pc[w] = "idle" /\ work[w] = <<>>
  BY <1>1
<1>8. WorkOK
  BY <1>7 DEF WorkOK, WriterOK, Compaction
<1>9. \A w \in Writers : ~Pending(w)
  BY <1>7 DEF Pending
<1>10. FileOK
  <2>1. Clean(<<>>)
    BY <1>4 DEF Clean
  <2> QED
    BY <1>1, <1>7, <1>9, <2>1 DEF FileOK
<1>11. \A n \in stable..Len(disk) : Logged(n) = EmptyState
  <2>1. Replay(<<>>).state = EmptyState
    BY ReplayNothing DEF Replay, ReplayStart
  <2>2. \A n \in stable..Len(disk) : n = 0
    BY <1>1, <1>4
  <2>3. SubSeq(<<>>, 1, 0) = <<>>
    OBVIOUS
  <2> QED
    BY <1>1, <2>1, <2>2, <2>3 DEF Logged
<1>12. Logged(Len(disk)) = EmptyState
  <2>1. Len(disk) \in stable..Len(disk)
    BY <1>1, <1>4
  <2> QED
    BY <1>11, <2>1
<1>13. SurviveOK
  BY <1>1, <1>3, <1>9, <1>11 DEF SurviveOK
<1>14. AheadOK
  BY <1>1, <1>9, <1>12 DEF AheadOK
<1>15. CountsOK
  <2>1. SUFFICES ASSUME NEW c \in Chunks
                 PROVE counts[c] = Cardinality(Owners(c)) + Cardinality(Claimants(c))
    BY DEF CountsOK, Claimants
  <2>2. Owners(c) = {}
    BY <1>1, <1>3, NoneIs DEF Owners
  <2>3. Claimants(c) = {}
    BY <1>7, NoneIs DEF Claimants, Claim
  <2>4. counts[c] = 0
    BY <1>1, <1>3
  <2> QED
    BY <2>2, <2>3, <2>4, FS_EmptySet
<1> QED
  BY <1>6, <1>8, <1>10, <1>13, <1>14, <1>15 DEF LogIInv

\* A writer's step keeps the invariant.
LEMMA WriterNext ==
  ASSUME LogIInv, NEW w \in Writers, WriterStep(w)
  PROVE  LogIInv' /\ restarts' = restarts
<1>1. StateOK /\ WorkOK /\ FileOK /\ SurviveOK /\ AheadOK /\ CountsOK
  BY DEF LogIInv
<1>2. CASE Quiet(w)
  <2>1. restarts' = restarts
    BY <1>2 DEF Quiet, Store, Delete, Call, AddChunkRef, DecrementChunkRef, PutManifest, DeleteManifest,
         SkipCompaction, StartCompaction, DropState, SwapHandle, EndCompaction, CompactionFails, boundVars
  <2> QED
    BY <1>1, <1>2, <2>1, QuietWork, QuietLog, QuietFile, QuietCounts DEF LogIInv
<1>3. CASE AppendLine(w)
  <2>1. restarts' = restarts
    BY <1>3 DEF AppendLine, boundVars
  <2> QED
    BY <1>1, <1>3, <2>1, LineWork, LineStep, LogCounts DEF LogIInv
<1>4. CASE AppendNewline(w)
  <2>1. restarts' = restarts
    BY <1>4 DEF AppendNewline, boundVars
  <2> QED
    BY <1>1, <1>4, <2>1, LineWork, NewlineStep, LogCounts DEF LogIInv
<1>5. CASE Sync(w)
  <2>1. restarts' = restarts
    BY <1>5 DEF Sync, boundVars
  <2> QED
    BY <1>1, <1>5, <2>1, LineWork, SyncStep, LogCounts DEF LogIInv
<1>6. CASE Apply(w)
  <2>1. restarts' = restarts
    BY <1>6 DEF Apply, boundVars
  <2> QED
    BY <1>1, <1>6, <2>1, ApplyWork, ApplyStep, ApplyCounts DEF LogIInv
<1>7. CASE RenameLog(w)
  <2>1. restarts' = restarts
    BY <1>7 DEF RenameLog, boundVars
  <2> QED
    BY <1>1, <1>7, <2>1, CompactWork, RenameStep, LogCounts DEF LogIInv
<1>8. CASE AppendFails(w)
  <2>1. restarts' = restarts /\ faults' = faults + 1
    BY <1>8 DEF AppendFails, Fault
  <2>2. faults' # 0
    BY <1>1, <2>1, Types
  <2>3. CountsOK'
    BY <2>2 DEF CountsOK
  <2> QED
    BY <1>1, <1>8, <2>1, <2>3, FailsWork, FailsStep DEF LogIInv
<1> QED
  BY <1>2, <1>3, <1>4, <1>5, <1>6, <1>7, <1>8 DEF WriterStep, Progress, Quiet

\* So does every step, and a restart keeps what was acknowledged.
LEMMA StepOK ==
  ASSUME LogIInv, [Next]_vars
  PROVE  LogIInv' /\ (Restarted /\ ~raced => KeysSurvive)
<1>1. StateOK /\ WorkOK /\ FileOK /\ SurviveOK /\ restarts \in Nat
  BY Types DEF LogIInv
<1>2. ASSUME Kill \/ PowerCut PROVE LogIInv' /\ (~raced => KeysSurvive)
  <2>1. StateOK' /\ WorkOK' /\ FileOK' /\ SurviveOK' /\ faults' # 0 /\ (~raced => KeysSurvive)
    BY <1>1, <1>2, KillStep, PowerCutStep
  <2>2. AheadOK' /\ CountsOK'
    BY <2>1 DEF AheadOK, CountsOK
  <2> QED
    BY <2>1, <2>2 DEF LogIInv
<1>3. ASSUME restarts' = restarts PROVE ~Restarted
  BY <1>1, <1>3 DEF Restarted
<1>4. ASSUME NEW w \in Writers, WriterStep(w) PROVE LogIInv' /\ ~Restarted
  BY <1>3, <1>4, WriterNext
<1>5. ASSUME UNCHANGED vars PROVE LogIInv' /\ ~Restarted
  <2>1. UNCHANGED <<manifests, counts, disk, stable, handle, tmp, entries, logLock, refLock, compactLock,
                    keyLock, pc, work, line, up, may, raced, ops, faults, restarts>>
    BY <1>5 DEF vars, memVars, fileVars, lockVars, localVars, histVars, boundVars
  <2>2. StateOK' /\ WorkOK'
    BY <1>1, <2>1 DEF StateOK, LogTypeOK, WorkOK, WriterOK, AddOK, DropOK, PutOK, RemoveOK, Doing
  <2>3. \A x \in Writers : (Pending(x)' <=> Pending(x)) /\ (Removes(x, None)' <=> Removes(x, None))
    BY <2>1 DEF Pending, Removes, Doing
  <2>4. (Snapshot' = Snapshot) /\ (Compacting' <=> Compacting)
    BY <2>1 DEF Snapshot, Live, Compacting
  <2>5. FileOK'
    BY <1>1, <2>1, <2>3, <2>4 DEF FileOK
  <2>6. (\A n : Logged(n)' = Logged(n)) /\ Logged(Len(disk))' = Logged(Len(disk)) /\ (\A k : Written(k)' = Written(k))
    BY <2>1, <2>3 DEF Logged, Written
  <2>7. SurviveOK'
    BY <1>1, <2>1, <2>3, <2>6 DEF SurviveOK
  <2>8. AheadOK'
    BY <2>1, <2>3, <2>6 DEF AheadOK, LogIInv
  <2>9. CountsOK'
    BY <2>1 DEF CountsOK, LogIInv, Owners, Claim, Doing
  <2> QED
    BY <1>3, <2>1, <2>2, <2>5, <2>7, <2>8, <2>9 DEF LogIInv
<1> QED
  BY <1>2, <1>4, <1>5 DEF Next

\* The parts of LogInvariant hold at every state: the file, the memory, the locks
\* and the counts fit together, through failures, kills and power cuts
\* (append_entry, compact, open_with).
THEOREM IndexInvariant == Spec => []LogIInv
<1>1. Init => LogIInv
  BY InitOK
<1>2. LogIInv /\ [Next]_vars => LogIInv'
  BY StepOK
<1> QED
  BY <1>1, <1>2, PTL DEF Spec

\* The invariant says what readers of the index and of the log rely on.
LEMMA InvariantShows ==
  ASSUME LogIInv
  PROVE  LogInv
<1>1. StateOK /\ WorkOK /\ AheadOK /\ CountsOK
  BY DEF LogIInv
<1>2. ASSUME Idle PROVE \A w \in Writers : pc[w] = "idle" /\ ~Pending(w) /\ Claim(w) = None
  BY <1>2 DEF Idle, Pending, Claim
<1>3. MemoryIsReplay
  <2>1. SUFFICES ASSUME Idle, faults = 0, ~raced
                 PROVE  Replay(disk).state = [manifests |-> manifests, counts |-> counts]
    BY DEF MemoryIsReplay
  <2> DEFINE s == Replay(disk).state
  <2>2. s = Logged(Len(disk)) /\ s \in States
    BY <1>1, LoggedType
  <2>3. (\A k \in Keys : s.manifests[k] = manifests[k]) /\ (\A c \in Chunks : s.counts[c] = counts[c])
    BY <1>1, <1>2, <2>1, <2>2 DEF AheadOK
  <2> HIDE DEF s
  <2>4. manifests \in [Keys -> Chunks \cup {None}] /\ counts \in [Chunks -> Nat]
    BY <1>1, Types
  <2>5. s.manifests = manifests /\ s.counts = counts
    BY <2>2, <2>3, <2>4 DEF States
  <2>6. s = [manifests |-> s.manifests, counts |-> s.counts]
    BY <2>2 DEF States
  <2> QED
    BY <2>5, <2>6 DEF s
<1>4. CountsMatch
  <2>1. SUFFICES ASSUME Idle, faults = 0, NEW c \in Chunks
                 PROVE  counts[c] = Cardinality({k \in Keys : manifests[k] = c})
    BY DEF CountsMatch
  <2>2. counts[c] = Cardinality(Owners(c)) + Cardinality({w \in Writers : Claim(w) = c})
    BY <1>1, <2>1 DEF CountsOK
  <2>3. {w \in Writers : Claim(w) = c} = {}
    BY <1>2, <2>1, NoneIs
  <2>4. Owners(c) = {k \in Keys : manifests[k] = c}
    BY <1>2, <2>1 DEF Owners
  <2>5. counts[c] \in Nat /\ Cardinality(Owners(c)) \in Nat
    BY <1>1, Types, Countable
  <2> QED
    BY <2>2, <2>3, <2>4, <2>5, FS_EmptySet
<1> QED
  BY <1>1, <1>3, <1>4 DEF LogInv, StateOK

\* Without failures the log, replayed, gives the memory whenever no operation is
\* under way, and every chunk's count is the number of objects with it.
THEOREM LogMatchesMemory == Spec => []LogInv
<1>1. LogIInv => LogInv
  BY InvariantShows
<1> QED
  BY <1>1, IndexInvariant, PTL

\* No restart, after any number of failures, loses a store, an overwrite or a
\* delete that took effect, unless an entry went astray: beside a compaction, in
\* an unlinked file or behind a cut line.
THEOREM NothingLost == Spec => AckedSurvive
<1>1. LogIInv /\ [Next]_vars => (Restarted /\ ~raced => KeysSurvive)
  BY StepOK
<1>2. Spec => [][Restarted /\ ~raced => KeysSurvive]_vars
  BY <1>1, IndexInvariant, PTL DEF Spec
<1> QED
  BY <1>2 DEF AckedSurvive

-----------------------------------------------------------------------------
(* References in the log *)

\* As many keys, at most, as there are writers with them.
LEMMA KeysCounted ==
  ASSUME NEW F, NEW W, IsFiniteSet(W), NEW g, \A k \in F : \E x \in W : g[x] = k
  PROVE  IsFiniteSet(F) /\ Cardinality(F) <= Cardinality(W)
<1> DEFINE V == {x \in W : g[x] \in F}
           h == [x \in V |-> g[x]]
<1>1. IsFiniteSet(V) /\ Cardinality(V) <= Cardinality(W)
  BY FS_Subset
<1>2. h \in Surjection(V, F)
  BY DEF Surjection
<1> HIDE DEF h, V
<1>3. IsFiniteSet(F) /\ Cardinality(F) <= Cardinality(V)
  BY <1>1, <1>2, FS_Surjection
<1> QED
  BY <1>1, <1>3, FS_CardinalityType

\* The writers that are about to make an object, or to take one away, of those
\* that claim a reference on the chunk or delete an object with it.
Movers(n, c) ==
  {x \in Claimants(c) \cup Deleters(n, c) : pc[x] # "idle" /\ Doing(x).op \in {"put", "remove"}}

\* The log has the objects that the memory counts, and those that movers have.
LEMMA LoggedMoved ==
  ASSUME StateOK, WorkOK, SurviveOK, AheadOK, faults = 0, ~raced, NEW c \in Chunks,
         NEW k \in LoggedOwners(Len(disk), c), k \notin Owners(c)
  PROVE  \E x \in Movers(Len(disk), c) : Doing(x).key = k
<1> DEFINE s == Logged(Len(disk))
<1>1. k \in Keys /\ s.manifests[k] = c /\ c # None
  BY NoneIs DEF LoggedOwners
<1>2. \A x \in Writers : WriterOK(x)
  BY DEF WorkOK
<1>3. CASE \E x \in Writers : Pending(x) /\ Boundary(line[x]) /\ line[x].key = k
  <2>1. PICK x \in Writers : Pending(x) /\ Boundary(line[x]) /\ line[x].key = k
    BY <1>3
  <2>2. pc[x] \in Appending /\ pc[x] # "idle" /\ line[x].val = c
    <3>1. Logged(Len(disk)).manifests[line[x].key] = line[x].val
      BY <2>1 DEF SurviveOK
    <3> QED
      BY <1>1, <2>1, <3>1 DEF Pending, Appending
  <2>3. Doing(x).key = k /\ Doing(x).chunk = c /\ Doing(x).op \in {"put", "remove"} /\ Doing(x) \in Updates
    BY <1>2, <2>1, <2>2, LineIs, WorkIs
  <2>4. Doing(x).op = "put"
    BY <1>1, <2>3, UpdateIs
  <2>5. x \in Claimants(c)
    BY <2>2, <2>3, <2>4 DEF Claimants, Claim
  <2> QED
    BY <2>2, <2>3, <2>5 DEF Movers
<1>4. CASE ~\E x \in Writers : Pending(x) /\ Boundary(line[x]) /\ line[x].key = k
  <2>1. manifests[k] = c
    BY <1>1, <1>4 DEF AheadOK
  <2>2. PICK x \in Writers : Removes(x, k)
    BY <1>1, <2>1, Countable
  <2>3. Deleting(x, k) /\ pc[x] # "idle" /\ Doing(x).op = "remove" /\ Doing(x).key = k
    BY <2>2 DEF Removes, Deleting
  <2>4. x \in Deleters(Len(disk), c)
    BY <1>1, <2>1, <2>3 DEF Deleters
  <2> QED
    BY <2>3, <2>4 DEF Movers
<1> QED
  BY <1>3, <1>4

\* The count in the log is the memory's, or on its way there: one more, or one
\* less for a writer that is no mover.
LEMMA LoggedCount ==
  ASSUME StateOK, WorkOK, AheadOK, faults = 0, ~raced, NEW c \in Chunks
  PROVE  \/ Logged(Len(disk)).counts[c] >= counts[c]
         \/ /\ Logged(Len(disk)).counts[c] = counts[c] - 1
            /\ \E x \in Claimants(c) \cup Deleters(Len(disk), c) : x \notin Movers(Len(disk), c)
<1> DEFINE s == Logged(Len(disk))
<1>1. counts[c] \in Nat /\ c # None
  BY Types, NoneIs
<1>2. \A x \in Writers : WriterOK(x)
  BY DEF WorkOK
<1>3. CASE \A x \in Writers : Pending(x) /\ ~Boundary(line[x]) => line[x].key # c
  <2>1. s.counts[c] = counts[c]
    BY <1>3 DEF AheadOK
  <2> QED
    BY <1>1, <2>1
<1>4. CASE \E x \in Writers : Pending(x) /\ ~Boundary(line[x]) /\ line[x].key = c
  <2>1. PICK x \in Writers : Pending(x) /\ ~Boundary(line[x]) /\ line[x].key = c
    BY <1>4
  <2>2. s.counts[c] = line[x].val
    BY <2>1 DEF AheadOK
  <2>3. pc[x] \in Appending /\ pc[x] # "idle" /\ pc[x] # "begin"
    BY <2>1 DEF Pending, Appending
  <2>4. /\ Doing(x).chunk = c /\ Doing(x).op \notin {"put", "remove"} /\ Doing(x) \in Updates
        /\ Doing(x).op = "add" => s.counts[c] = counts[c] + 1
        /\ Doing(x).op = "drop" => s.counts[c] = counts[c] - 1
    BY <1>2, <2>1, <2>2, <2>3, LineIs, WorkIs
  <2>5. x \notin Movers(Len(disk), c)
    BY <2>4 DEF Movers
  <2>6. CASE Doing(x).op = "add"
    BY <1>1, <2>4, <2>6
  <2>7. CASE Doing(x).op = "drop" /\ Len(work[x]) = 1
    <3>1. x \in Claimants(c)
      BY <2>3, <2>4, <2>7 DEF Claimants, Claim
    <3> QED
      BY <2>4, <2>5, <2>7, <3>1
  <2>8. CASE Doing(x).op = "drop" /\ Len(work[x]) = 2
    <3> DEFINE k == work[x][2].key
    <3>1. k \in Keys /\ keyLock[k] = x /\ manifests[k] = c
      BY <1>2, <2>3, <2>4, <2>8, WorkIs, UpdateIs DEF WriterOK, DropOK
    <3>2. \A y \in Writers : Pending(y) /\ Boundary(line[y]) => line[y].key # k
      <4>1. ASSUME NEW y \in Writers, Pending(y), Boundary(line[y]), line[y].key = k PROVE FALSE
        <5>1. pc[y] \in Appending
          BY <4>1 DEF Pending, Appending
        <5>2. keyLock[k] = y
          BY <1>2, <4>1, <5>1, LineIs
        <5> QED
          BY <2>1, <3>1, <4>1, <5>2
      <4> QED
        BY <4>1
    <3>3. s.manifests[k] = c
      BY <3>1, <3>2 DEF AheadOK
    <3>4. Deleting(x, k)
      BY <2>3, <2>8 DEF Deleting
    <3> HIDE DEF k
    <3>5. x \in Deleters(Len(disk), c)
      BY <3>1, <3>3, <3>4 DEF Deleters
    <3> QED
      BY <2>4, <2>5, <2>8, <3>5
  <2> QED
    BY <1>2, <2>3, <2>4, <2>6, <2>7, <2>8, UpdateIs, WorkIs
<1> QED
  BY <1>3, <1>4

\* The whole log has the references of its objects.
Now == faults = 0 /\ ~raced => \A c \in Chunks : Covered(Len(disk), c)

LEMMA NowCovered == LogIInv => Now
<1> SUFFICES ASSUME LogIInv, faults = 0, ~raced, NEW c \in Chunks PROVE Covered(Len(disk), c)
  BY DEF Now
<1>1. StateOK /\ WorkOK /\ SurviveOK /\ AheadOK
  BY DEF LogIInv
<1> DEFINE n == Len(disk)
           F == LoggedOwners(n, c) \ Owners(c)
           A == Claimants(c) \cup Deleters(n, c)
           M == Movers(n, c)
           g == [x \in M |-> Doing(x).key]
           i == Cardinality(LoggedOwners(n, c))
           o == Cardinality(Owners(c))
           p == Cardinality(Claimants(c))
           d == Cardinality(Deleters(n, c))
<1>2. IsFiniteSet(Deleters(n, c)) /\ IsFiniteSet(LoggedOwners(n, c))
  <2>1. Deleters(n, c) \subseteq Writers /\ LoggedOwners(n, c) \subseteq Keys
    BY DEF Deleters, LoggedOwners
  <2> QED
    BY <2>1, LogBounds, FS_Subset
<1>3. IsFiniteSet(Owners(c)) /\ IsFiniteSet(Claimants(c)) /\ o \in Nat /\ p \in Nat /\ d \in Nat /\ i \in Nat
  BY <1>2, Countable, FS_CardinalityType
<1>4. IsFiniteSet(A) /\ Cardinality(A) <= p + d /\ Cardinality(A) \in Nat
  <2>1. IsFiniteSet(A) /\ Cardinality(A) = p + d - Cardinality(Claimants(c) \cap Deleters(n, c))
    BY <1>2, <1>3, FS_Union
  <2>2. IsFiniteSet(Claimants(c) \cap Deleters(n, c))
    BY <1>3, FS_Subset
  <2>3. Cardinality(Claimants(c) \cap Deleters(n, c)) \in Nat /\ Cardinality(A) \in Nat
    BY <2>1, <2>2, FS_CardinalityType
  <2> QED
    BY <1>3, <2>1, <2>3
<1>5. M \subseteq A
  BY DEF Movers
<1>6. IsFiniteSet(M) /\ Cardinality(M) \in Nat /\ Cardinality(M) <= Cardinality(A)
      /\ ((\E x \in A : x \notin M) => Cardinality(M) <= Cardinality(A) - 1)
  <2>1. IsFiniteSet(M) /\ Cardinality(M) <= Cardinality(A) /\ (Cardinality(A) = Cardinality(M) => A = M)
    BY <1>4, <1>5, FS_Subset
  <2>2. Cardinality(M) \in Nat
    BY <2>1, FS_CardinalityType
  <2> QED
    BY <1>4, <2>1, <2>2
<1>7. IsFiniteSet(F) /\ Cardinality(F) <= Cardinality(M) /\ Cardinality(F) \in Nat
  <2>1. \A k \in F : \E x \in M : g[x] = k
    BY <1>1, LoggedMoved
  <2> HIDE DEF F, M, g
  <2>2. IsFiniteSet(F) /\ Cardinality(F) <= Cardinality(M)
    BY <1>6, <2>1, KeysCounted
  <2> QED
    BY <2>2, FS_CardinalityType
<1>8. i <= o + Cardinality(F)
  <2>1. LoggedOwners(n, c) \subseteq Owners(c) \cup F
    OBVIOUS
  <2>2. IsFiniteSet(Owners(c) \cup F)
        /\ Cardinality(Owners(c) \cup F) = o + Cardinality(F) - Cardinality(Owners(c) \cap F)
    BY <1>3, <1>7, FS_Union
  <2>3. Owners(c) \cap F = {}
    OBVIOUS
  <2>4. i <= Cardinality(Owners(c) \cup F)
    BY <2>1, <2>2, FS_Subset
  <2>5. Cardinality(Owners(c) \cup F) = o + Cardinality(F) - 0
    <3>1. Cardinality(Owners(c) \cap F) = 0
      BY <2>3, FS_EmptySet
    <3> QED
      BY <2>2, <3>1
  <2> HIDE DEF F, i, o
  <2> QED
    BY <1>3, <1>7, <2>4, <2>5
<1>9. counts[c] = o + p
  BY DEF LogIInv, CountsOK, Claimants
<1>10. \/ Logged(n).counts[c] >= counts[c]
       \/ Logged(n).counts[c] = counts[c] - 1 /\ \E x \in A : x \notin M
  BY <1>1, LoggedCount
<1>11. Logged(n).counts[c] \in Nat
  BY <1>1, LoggedType DEF States
<1> DEFINE l == Logged(n).counts[c]
           f == Cardinality(F)
           m == Cardinality(M)
           a == Cardinality(A)
<1>12. i <= l + d
  <2>1. f \in Nat /\ m \in Nat /\ a \in Nat /\ l \in Nat /\ counts[c] = o + p /\ f <= m /\ i <= o + f /\ a <= p + d
    BY <1>4, <1>6, <1>7, <1>8, <1>9, <1>11
  <2>2. (l >= counts[c] /\ m <= a) \/ (l = counts[c] - 1 /\ m <= a - 1)
    BY <1>6, <1>10
  <2> HIDE DEF f, m, a, l, i, o, p, d
  <2> QED
    BY <1>3, <2>1, <2>2
<1> QED
  BY <1>12 DEF Covered

\* A step without failures keeps what the log may be cut to, but for its whole.
LEMMA LogKept ==
  ASSUME LogIInv, NEW w \in Writers, WriterStep(w), faults' = 0, ~raced'
  PROVE  /\ faults = 0 /\ ~raced
         /\ \A n \in stable'..Len(disk') :
              n # Len(disk') => n \in stable..Len(disk) /\ Logged(n)' = Logged(n)
<1>1. StateOK /\ WorkOK
  BY DEF LogIInv
<1>2. disk \in Seq(Item) /\ Len(disk) \in Nat /\ stable \in 0..Len(disk) /\ faults \in Nat
  BY <1>1, Types
<1>3. ASSUME UNCHANGED <<disk, stable>>, NEW n \in stable'..Len(disk')
      PROVE  n \in stable..Len(disk) /\ Logged(n)' = Logged(n)
  BY <1>3 DEF Logged
<1>4. CASE Quiet(w)
  <2>1. UNCHANGED <<disk, stable>> /\ faults = 0 /\ ~raced
    BY <1>1, <1>4, QuietIs
  <2> QED
    BY <1>3, <2>1
<1>5. ASSUME NEW x \in Item, Write(x), stable' = stable, NEW n \in stable'..Len(disk'), n # Len(disk')
      PROVE  n \in stable..Len(disk) /\ Logged(n)' = Logged(n)
  <2>1. CASE handle = "log"
    <3>1. disk' = Append(disk, x) /\ Len(disk') = Len(disk) + 1
      BY <1>1, <1>2, <1>5, <2>1, WriteIs, AppendProperties
    <3>2. n \in stable..Len(disk) /\ n \in 0..Len(disk)
      BY <1>2, <1>5, <3>1
    <3> QED
      BY <1>2, <3>1, <3>2, PrefixOfMore DEF Logged
  <2>2. CASE handle # "log"
    BY <1>3, <1>5, <2>2 DEF Write
  <2> QED
    BY <2>1, <2>2
<1>6. CASE AppendLine(w)
  <2>1. Write(line[w]) /\ stable' = stable /\ faults' = faults /\ (raced' = (raced \/ Astray))
    BY <1>6 DEF AppendLine, boundVars
  <2>2. line[w] \in Item
    BY <1>1, Types
  <2> QED
    BY <1>5, <2>1, <2>2
<1>7. CASE AppendNewline(w)
  <2>1. Write(NL) /\ stable' = stable /\ faults' = faults /\ raced' = raced /\ NL \in Item
    BY <1>7 DEF AppendNewline, boundVars, histVars, Item
  <2> QED
    BY <1>5, <2>1
<1>8. CASE Sync(w)
  <2>1. (stable' = Len(disk) \/ stable' = stable) /\ disk' = disk /\ faults' = faults /\ raced' = raced
    BY <1>8 DEF Sync, boundVars, histVars
  <2>2. CASE stable' = stable
    BY <1>3, <2>1, <2>2
  <2>3. CASE stable' = Len(disk)
    BY <1>2, <2>1, <2>3
  <2> QED
    BY <2>1, <2>2, <2>3
<1>9. CASE Apply(w)
  <2>1. UNCHANGED <<disk, stable, raced, faults>>
    BY <1>1, <1>9, ApplyIs
  <2> QED
    BY <1>3, <2>1
<1>10. CASE RenameLog(w)
  <2>1. disk' = tmp /\ stable' = Len(tmp) /\ faults' = faults /\ raced' = raced
    BY <1>10 DEF RenameLog, boundVars, histVars
  <2>2. Len(tmp) \in Nat
    <3>1. tmp \in Seq(Item)
      BY <1>1, Types
    <3> QED
      BY <3>1
  <2> QED
    BY <2>1, <2>2
<1>11. ~AppendFails(w)
  BY <1>2 DEF AppendFails, Fault
<1> QED
  BY <1>4, <1>6, <1>7, <1>8, <1>9, <1>10, <1>11 DEF WriterStep, Progress, Quiet

\* A delete goes on with the object it has until no part of the log has it.
LEMMA DeletingStays ==
  ASSUME LogIInv, NEW w \in Writers, WriterStep(w), faults' = 0, ~raced',
         NEW n \in stable..Len(disk), NEW k \in Keys,
         Deleting(w, k), manifests[k] # None, Logged(n).manifests[k] # None
  PROVE  Deleting(w, k)' /\ manifests'[k] = manifests[k]
<1>1. StateOK /\ WorkOK /\ CountsOK /\ WriterOK(w) /\ faults = 0 /\ ~raced
  BY LogKept DEF LogIInv, WorkOK
<1>2. pc[w] # "idle" /\ Doing(w) \in Updates /\ Doing(w) = Head(work[w]) /\ faults \in Nat
  BY <1>1, WorkIs, Types DEF Deleting
<1>3. Doing(w).op = "drop" \/ Doing(w).op = "remove"
  BY DEF Deleting
<1>t. pc \in [Writers -> Labels] /\ work \in [Writers -> Seq(Updates)]
  BY <1>1, Types
<1>4. ASSUME work' = work, pc'[w] # "idle" PROVE Deleting(w, k)'
  BY <1>4 DEF Deleting, Doing
<1>5. ASSUME NEW l \in Labels, l # "idle", Goto(w, l), work' = work PROVE Deleting(w, k)'
  BY <1>1, <1>4, <1>5, GotoIs
<1>6. ASSUME Doing(w).op = "drop", Advance(w) PROVE Deleting(w, k)'
  <2> DEFINE u == work[w][2]
  <2>1. Len(work[w]) = 2 /\ u.key = k /\ u.op = "remove"
    BY <1>1, <1>2, <1>6 DEF Deleting, WriterOK, DropOK
  <2>2. pc' = [pc EXCEPT ![w] = "begin"] /\ work' = [work EXCEPT ![w] = <<u>>]
    BY <1>1, <1>2, <1>6, <2>1, AdvanceIs
  <2> HIDE DEF u
  <2>3. pc'[w] = "begin" /\ work'[w] = <<u>> /\ <<u>>[1] = u
    BY <1>t, <2>2
  <2> QED
    BY <2>1, <2>3 DEF Deleting, Doing
<1>7. pc[w] \in {"compact?"} \cup Compaction => FALSE
  <2>1. SUFFICES ASSUME pc[w] \in {"compact?"} \cup Compaction PROVE FALSE
    OBVIOUS
  <2>2. pc[w] \notin {"begin"} \cup Appending
    BY <2>1 DEF Compaction, Appending
  <2>3. Doing(w).op = "remove" /\ Doing(w).key = k
    BY <1>1, <1>2, <1>3, <2>2 DEF WriterOK, DropOK, Deleting, Appending
  <2> QED
    BY <1>1, <1>2, <2>2, <2>3 DEF WriterOK, RemoveOK
<1>8. {"line", "newline", "sync", "apply"} \subseteq Labels
  BY DEF Labels, Appending
<1>9. ~AppendFails(w) /\ ~CompactionFails(w)
  BY <1>2 DEF AppendFails, CompactionFails, Fault
<1>10. \A j, d : ~Store(w, j, d) /\ ~Delete(w, j)
  BY <1>2 DEF Store, Delete, Call
<1>11. CASE AddChunkRef(w) \/ PutManifest(w)
  BY <1>2, <1>3, <1>11 DEF AddChunkRef, PutManifest
<1>12. CASE DecrementChunkRef(w)
  <2>1. Doing(w).op = "drop" /\ manifests' = manifests /\ (Advance(w) \/ (Goto(w, "line") /\ work' = work))
    BY <1>2, <1>12 DEF DecrementChunkRef, memVars
  <2> QED
    BY <1>5, <1>6, <1>8, <2>1
<1>13. CASE DeleteManifest(w) \/ AppendLine(w) \/ AppendNewline(w) \/ Sync(w)
  <2>1. manifests' = manifests /\ work' = work
        /\ (Goto(w, "line") \/ Goto(w, "newline") \/ Goto(w, "sync") \/ Goto(w, "apply"))
    BY <1>13 DEF DeleteManifest, AppendLine, AppendNewline, Sync, memVars
  <2> QED
    BY <1>5, <1>8, <2>1
<1>14. CASE Apply(w)
  <2>1. pc[w] = "apply" /\ pc[w] \in Appending /\ Pending(w)
    BY <1>14, ApplyIs, <1>1 DEF Appending, Pending
  <2>2. CASE Boundary(line[w])
    <3>1. Doing(w).op = "remove" /\ Doing(w).key = k
      BY <1>1, <1>3, <2>1, <2>2, LineIs DEF Deleting
    <3>2. line[w].key = k /\ line[w].val = None
      BY <1>1, <1>2, <2>1, <2>2, <3>1, LineIs, UpdateIs
    <3>3. Logged(n).manifests[k] = None
      BY <1>1, <2>1, <2>2, <3>2 DEF LogIInv, SurviveOK
    <3> QED
      BY <3>3
  <2>3. CASE ~Boundary(line[w])
    <3>1. manifests' = manifests /\ Advance(w)
      BY <1>1, <1>14, <2>3, ApplyIs
    <3>2. Doing(w).op = "drop"
      BY <1>1, <1>3, <2>1, <2>3, LineIs
    <3> QED
      BY <1>6, <3>1, <3>2
  <2> QED
    BY <2>2, <2>3
<1>15. CASE SkipCompaction(w) \/ StartCompaction(w) \/ DropState(w) \/ RenameLog(w) \/ SwapHandle(w) \/ EndCompaction(w)
  BY <1>7, <1>15 DEF SkipCompaction, StartCompaction, DropState, RenameLog, SwapHandle, EndCompaction, Compaction
<1> QED
  BY <1>9, <1>10, <1>11, <1>12, <1>13, <1>14, <1>15 DEF WriterStep, Progress

\* What a step of another writer leaves alone.
LEMMA OthersStay ==
  ASSUME StateOK, WorkOK, NEW w \in Writers, WriterStep(w), ~AppendFails(w), NEW x \in Writers \ {w}
  PROVE  pc'[x] = pc[x] /\ work'[x] = work[x] /\ \A k \in Keys : keyLock[k] = x => manifests'[k] = manifests[k]
<1>t. pc \in [Writers -> Labels] /\ work \in [Writers -> Seq(Updates)]
      /\ manifests \in [Keys -> Chunks \cup {None}]
  BY Types
<1>1. WriterOK(w)
  BY DEF WorkOK
<1>2. ASSUME Advance(w), pc[w] # "idle" PROVE work'[x] = work[x] /\ pc'[x] = pc[x]
  BY <1>1, <1>2, AdvanceOK
<1>3. CASE Quiet(w)
  <2>1. manifests' = manifests /\ pc'[x] = pc[x]
    BY <1>3, QuietIs
  <2>2. ASSUME NEW s, Call(w, s) PROVE work'[x] = work[x]
    BY <1>t, <2>2 DEF Call
  <2>3. ASSUME NEW s, work' = [work EXCEPT ![w] = s] PROVE work'[x] = work[x]
    BY <1>t, <2>3
  <2>4. work'[x] = work[x]
    <3>1. CASE (\E k \in Keys, c \in Chunks : Store(w, k, c)) \/ (\E k \in Keys : Delete(w, k))
      BY <2>2, <3>1 DEF Store, Delete
    <3>2. CASE AddChunkRef(w) \/ DeleteManifest(w) \/ StartCompaction(w) \/ DropState(w) \/ SwapHandle(w)
      BY <3>2 DEF AddChunkRef, DeleteManifest, StartCompaction, DropState, SwapHandle
    <3>3. CASE DecrementChunkRef(w)
      <4>1. pc[w] # "idle" /\ (work' = work \/ Advance(w))
        BY <3>3 DEF DecrementChunkRef
      <4> QED
        BY <1>2, <4>1
    <3>4. CASE PutManifest(w)
      BY <2>3, <3>4 DEF PutManifest
    <3>5. CASE SkipCompaction(w) \/ EndCompaction(w) \/ CompactionFails(w)
      <4>1. Advance(w) /\ pc[w] # "idle"
        BY <3>5 DEF SkipCompaction, EndCompaction, CompactionFails
      <4> QED
        BY <1>2, <4>1
    <3> QED
      BY <1>3, <3>1, <3>2, <3>3, <3>4, <3>5 DEF Quiet
  <2> QED
    BY <2>1, <2>4
<1>4. CASE AppendLine(w) \/ AppendNewline(w) \/ Sync(w) \/ RenameLog(w)
  <2>1. manifests' = manifests /\ work' = work /\ \E l : pc' = [pc EXCEPT ![w] = l]
    BY <1>4 DEF AppendLine, AppendNewline, Sync, RenameLog, memVars, Goto
  <2> QED
    BY <1>t, <2>1
<1>5. CASE Apply(w)
  <2>1. pc[w] \in Appending /\ pc[w] # "idle"
    BY <1>5, ApplyIs DEF Appending
  <2>2. CASE Boundary(line[w])
    <3>1. line[w].key \in Keys /\ keyLock[line[w].key] = w
      BY <1>1, <2>1, <2>2, LineIs
    <3>2. manifests' = [manifests EXCEPT ![line[w].key] = line[w].val] /\ Goto(w, "compact?") /\ work' = work
      BY <1>5, <2>2, ApplyIs
    <3> QED
      BY <1>t, <3>1, <3>2 DEF Goto
  <2>3. CASE ~Boundary(line[w])
    <3>1. manifests' = manifests /\ Advance(w)
      BY <1>5, <2>3, ApplyIs
    <3> QED
      BY <1>2, <2>1, <3>1
  <2> QED
    BY <2>2, <2>3
<1> QED
  BY <1>3, <1>4, <1>5 DEF WriterStep, Progress, Quiet

\* A delete has the lock of its object's key.
LEMMA DeletingOwn ==
  ASSUME WorkOK, NEW x \in Writers, NEW k, Deleting(x, k)
  PROVE  keyLock[k] = x
BY DEF WorkOK, WriterOK, RemoveOK, DropOK, Deleting

\* What is covered stays so: no step without failures takes a delete off a part
\* of the log that has its object.
LEMMA StaysCovered ==
  ASSUME LogIInv, NEW w \in Writers, WriterStep(w), faults' = 0, ~raced',
         NEW n \in stable..Len(disk), Logged(n)' = Logged(n), NEW c \in Chunks, Covered(n, c)
  PROVE  Covered(n, c)'
<1>1. StateOK /\ WorkOK /\ c # None /\ faults = 0 /\ ~raced
  BY NoneIs, LogKept DEF LogIInv
<1>2. ~AppendFails(w)
  BY <1>1 DEF AppendFails, Fault
<1>3. ASSUME NEW x \in Deleters(n, c) PROVE x \in Deleters(n, c)'
  <2>1. PICK k \in Keys : Deleting(x, k) /\ manifests[k] = c /\ Logged(n).manifests[k] = c
    BY <1>3 DEF Deleters
  <2>2. x \in Writers
    BY <1>3 DEF Deleters
  <2>3. Deleting(x, k)' /\ manifests'[k] = c
    <3>1. CASE x = w
      BY <1>1, <2>1, <3>1, DeletingStays
    <3>2. CASE x # w
      <4>1. pc'[x] = pc[x] /\ work'[x] = work[x] /\ (keyLock[k] = x => manifests'[k] = manifests[k])
        BY <1>1, <1>2, <2>2, <3>2, OthersStay
      <4>2. keyLock[k] = x
        BY <1>1, <2>1, <2>2, DeletingOwn
      <4> QED
        BY <2>1, <4>1, <4>2 DEF Deleting, Doing
    <3> QED
      BY <3>1, <3>2
  <2> QED
    BY <2>1, <2>2, <2>3 DEF Deleters
<1>4. LoggedOwners(n, c)' = LoggedOwners(n, c)
  BY DEF LoggedOwners
<1>5. IsFiniteSet(Deleters(n, c)') /\ IsFiniteSet(Deleters(n, c)) /\ IsFiniteSet(LoggedOwners(n, c))
  <2>1. Deleters(n, c) \subseteq Writers /\ Deleters(n, c)' \subseteq Writers /\ LoggedOwners(n, c) \subseteq Keys
    BY DEF Deleters, LoggedOwners
  <2> QED
    BY <2>1, LogBounds, FS_Subset
<1> DEFINE d == Cardinality(Deleters(n, c))
           e == Cardinality(Deleters(n, c)')
           i == Cardinality(LoggedOwners(n, c))
           l == Logged(n).counts[c]
<1>6. d <= e
  BY <1>3, <1>5, FS_Subset
<1>7. d \in Nat /\ e \in Nat /\ i \in Nat
  BY <1>5, FS_CardinalityType
<1>8. l \in Nat
  <2>1. Logged(n) \in States
    BY <1>1, LoggedType
  <2> QED
    BY <2>1 DEF States
<1>9. i <= l + d
  BY DEF Covered
<1>10. i <= l + e
  <2> HIDE DEF i, l, d, e
  <2> QED
    BY <1>6, <1>7, <1>8, <1>9
<1> QED
  BY <1>4, <1>10 DEF Covered

\* A step covers what it leaves on the disk.
LEMMA StepCovers ==
  ASSUME LogIInv, CoverOK, Now', [Next]_vars
  PROVE  CoverOK'
<1>1. StateOK /\ WorkOK /\ FileOK /\ SurviveOK
  BY DEF LogIInv
<1>2. CASE Kill \/ PowerCut
  <2>1. faults' # 0
    BY <1>1, <1>2, KillStep, PowerCutStep
  <2> QED
    BY <2>1 DEF CoverOK
<1>3. ASSUME NEW w \in Writers, WriterStep(w) PROVE CoverOK'
  <2>1. SUFFICES ASSUME faults' = 0, ~raced', NEW n \in stable'..Len(disk'), NEW c \in Chunks
                 PROVE  Covered(n, c)'
    BY DEF CoverOK
  <2>2. CASE n = Len(disk')
    BY <2>1, <2>2 DEF Now, Covered, LoggedOwners, Deleters, Logged, Deleting
  <2>3. CASE n # Len(disk')
    <3>1. faults = 0 /\ ~raced /\ n \in stable..Len(disk) /\ Logged(n)' = Logged(n)
      BY <1>3, <2>1, <2>3, LogKept
    <3>2. Covered(n, c)
      BY <2>1, <3>1 DEF CoverOK
    <3> QED
      BY <1>3, <2>1, <3>1, <3>2, StaysCovered
  <2> QED
    BY <2>2, <2>3
<1>4. CASE UNCHANGED vars
  <2>1. UNCHANGED <<manifests, disk, stable, pc, work, raced, faults>>
    BY <1>4 DEF vars, memVars, fileVars, localVars, histVars, boundVars
  <2>2. \A n, c : Covered(n, c)' <=> Covered(n, c)
    BY <2>1 DEF Covered, LoggedOwners, Deleters, Logged, Deleting, Doing
  <2> QED
    BY <2>1, <2>2 DEF CoverOK
<1> QED
  BY <1>2, <1>3, <1>4 DEF Next

\* A restart takes over a part of the log that is covered.
LEMMA RestartCovered ==
  ASSUME LogIInv, CoverOK, [Next]_vars, Restarted, faults = 0, ~raced, NEW c \in Chunks
  PROVE  Cardinality({k \in Keys : manifests'[k] = c})
           <= counts'[c] + Cardinality({w \in Writers : \E k \in Keys : keyLock[k] = w /\ manifests[k] = c})
<1>1. StateOK /\ WorkOK /\ FileOK /\ SurviveOK /\ restarts \in Nat
  BY Types DEF LogIInv
<1>2. restarts' # restarts
  BY <1>1 DEF Restarted
<1>3. Kill \/ PowerCut
  <2>1. \A w \in Writers : ~WriterStep(w)
    BY <1>2, WriterNext
  <2>2. ~UNCHANGED vars
    BY <1>2 DEF vars, boundVars
  <2> QED
    BY <2>1, <2>2 DEF Next
<1>4. Reopened
  BY <1>1, <1>3, KillStep, PowerCutStep
<1>5. PICK n \in stable..Len(disk) : manifests' = Logged(n).manifests /\ counts' = Logged(n).counts
  BY <1>4 DEF Reopened
<1> DEFINE H == {w \in Writers : \E k \in Keys : keyLock[k] = w /\ manifests[k] = c}
           i == Cardinality(LoggedOwners(n, c))
           d == Cardinality(Deleters(n, c))
           h == Cardinality(H)
           l == counts'[c]
<1>6. LoggedOwners(n, c) = {k \in Keys : manifests'[k] = c}
  BY <1>5 DEF LoggedOwners
<1>7. i <= l + d
  BY <1>5 DEF CoverOK, Covered
<1>8. Deleters(n, c) \subseteq H
  BY <1>1, DeletingOwn DEF Deleters
<1>9. IsFiniteSet(H) /\ IsFiniteSet(LoggedOwners(n, c))
  <2>1. H \subseteq Writers /\ LoggedOwners(n, c) \subseteq Keys
    BY DEF LoggedOwners
  <2> QED
    BY <2>1, LogBounds, FS_Subset
<1>10. d <= h /\ IsFiniteSet(Deleters(n, c))
  BY <1>8, <1>9, FS_Subset
<1>11. i \in Nat /\ d \in Nat /\ h \in Nat
  BY <1>9, <1>10, FS_CardinalityType
<1>12. l \in Nat
  <2>1. Logged(n) \in States
    BY <1>1, LoggedType
  <2> QED
    BY <1>5, <2>1 DEF States
<1>13. i <= l + h
  <2> HIDE DEF i, l, d, h
  <2> QED
    BY <1>7, <1>10, <1>11, <1>12
<1> QED
  BY <1>6, <1>13

\* Of an empty log nothing is to cover.
LEMMA InitCovers ==
  ASSUME Init
  PROVE  CoverOK
<1>1. disk = <<>> /\ stable = 0 /\ faults = 0 /\ raced = FALSE
  BY DEF Init
<1>2. Now
  BY InitOK, NowCovered
<1>3. \A n \in stable..Len(disk) : n = Len(disk)
  <2>1. Len(disk) = 0
    BY <1>1
  <2> QED
    BY <1>1, <2>1
<1> QED
  BY <1>1, <1>2, <1>3 DEF CoverOK, Now

\* However much of the log behind its stable part is lost, it has the references
\* of its objects (append_entry syncs at the end of an operation only).
THEOREM LogCovered == Spec => []CoverOK
<1>1. Init => CoverOK
  BY InitCovers
<1>2. LogIInv /\ CoverOK /\ Now' /\ [Next]_vars => CoverOK'
  BY StepCovers
<1> QED
  BY <1>1, <1>2, NowCovered, IndexInvariant, PTL DEF Spec

\* After a first crash every object has its references recorded, those apart that
\* a delete had begun to drop (store and delete order their index updates so).
THEOREM ReferencesKept == Spec => RefsCovered
<1>1. LogIInv /\ CoverOK /\ [Next]_vars =>
        (Restarted /\ faults = 0 /\ ~raced =>
           \A c \in Chunks :
             Cardinality({k \in Keys : manifests'[k] = c})
               <= counts'[c] + Cardinality({w \in Writers : \E k \in Keys :
                                 keyLock[k] = w /\ manifests[k] = c}))
  BY RestartCovered
<1> QED
  BY <1>1, IndexInvariant, LogCovered, PTL DEF Spec, RefsCovered
=============================================================================
