----------------------------- MODULE VideoDLProofs -----------------------------
(***************************************************************************)
(* Proofs about VideoDL, for any videos, workers and bounds: what holds of *)
(* the download queue as long as nothing overlapped.                       *)
(***************************************************************************)
EXTENDS VideoDL, FiniteSetTheorems, SequenceTheorems, TLAPS

(***************************************************************************)
(* Sequences: the first occurrence of an element, and its removal.         *)
(***************************************************************************)

\* A nonempty set of naturals has a smallest element, and Min is it.
LEMMA MinOfNaturals ==
  ASSUME NEW S \in SUBSET Nat, S # {}
  PROVE  Min(S) \in S /\ \A y \in S : Min(S) <= y
<1>1. PICK x \in S : \A y \in S : ~ (<<y, x>> \in OpToRel(<, Nat))
  BY NatLessThanWellFounded, WFMin, Zenon
<1>2. \A y \in S : x <= y
  <2> TAKE y \in S
  <2>1. <<y, x>> \in Nat \X Nat /\ ~(y < x)
    BY <1>1, SMT DEF OpToRel
  <2> QED BY <2>1, SMT
<1>3. \E z \in S : \A y \in S : z =< y
  BY <1>2
<1> QED BY <1>3, Zenon DEF Min

LEMMA FirstOf ==
  ASSUME NEW S, NEW s \in Seq(S), NEW e, Contains(s, e)
  PROVE  \E k \in 1..Len(s) :
           /\ s[k] = e /\ \A i \in 1..Len(s) : s[i] = e => k <= i
           /\ RemoveFirst(s, e) = SubSeq(s, 1, k - 1) \o SubSeq(s, k + 1, Len(s))
<1> DEFINE I == {i \in 1..Len(s) : s[i] = e}
<1>1. I \in SUBSET Nat /\ I # {} /\ SelectInSeq(s, LAMBDA v : v = e) = Min(I)
  BY SMT DEF SelectInSeq, Contains
<1>2. Min(I) \in I /\ \A i \in I : Min(I) <= i
  BY <1>1, MinOfNaturals, Zenon
<1>3. RemoveFirst(s, e) = SubSeq(s, 1, Min(I) - 1) \o SubSeq(s, Min(I) + 1, Len(s))
  BY <1>1 DEF RemoveFirst, RemoveAt, Contains
<1> QED BY <1>2, <1>3

\* What the removal of a position leaves (RemoveAt).
LEMMA WithoutPosition ==
  ASSUME NEW S, NEW s \in Seq(S), NEW k \in 1..Len(s)
  PROVE  LET r == SubSeq(s, 1, k - 1) \o SubSeq(s, k + 1, Len(s))
         IN /\ r \in Seq(S) /\ Len(r) = Len(s) - 1
            /\ \A i \in 1..Len(r) : r[i] = IF i < k THEN s[i] ELSE s[i + 1]
<1> DEFINE a == SubSeq(s, 1, k - 1)
           b == SubSeq(s, k + 1, Len(s))
<1>1. Len(s) \in Nat /\ k \in Nat /\ 1 <= k /\ k <= Len(s) /\ \A i \in 1..Len(s) : s[i] \in S
  BY LenProperties, ElementOfSeq, SMT
<1>2. a \in Seq(S) /\ Len(a) = k - 1 /\ \A i \in 1..k - 1 : a[i] = s[i]
  <2>1. k - 1 \in Int /\ 1 \in Int /\ \A i \in 1..k - 1 : s[i] \in S
    BY <1>1, SMT
  <2>2. /\ a \in Seq(S) /\ Len(a) = (IF 1 <= k - 1 THEN k - 1 - 1 + 1 ELSE 0)
        /\ \A i \in 1..k - 1 - 1 + 1 : a[i] = s[1 + i - 1]
    BY <2>1, SubSeqProperties
  <2> HIDE DEF a
  <2> QED BY <1>1, <2>2, SMT
<1>3. /\ b \in Seq(S) /\ Len(b) = Len(s) - k
      /\ \A i \in 1..Len(s) - k : b[i] = s[k + i]
  <2>1. k + 1 \in Int /\ Len(s) \in Int /\ \A i \in k + 1..Len(s) : s[i] \in S
    BY <1>1, SMT
  <2>2. /\ b \in Seq(S) /\ Len(b) = (IF k + 1 <= Len(s) THEN Len(s) - (k + 1) + 1 ELSE 0)
        /\ \A i \in 1..Len(s) - (k + 1) + 1 : b[i] = s[k + 1 + i - 1]
    BY <2>1, SubSeqProperties
  <2> HIDE DEF b
  <2> QED BY <1>1, <2>2, SMT
<1> HIDE DEF a, b
<1>4. /\ a \o b \in Seq(S) /\ Len(a \o b) = Len(a) + Len(b)
      /\ \A i \in 1..Len(a) + Len(b) : (a \o b)[i] = IF i <= Len(a) THEN a[i] ELSE b[i - Len(a)]
  BY <1>2, <1>3, ConcatProperties
<1> DEFINE r == a \o b
<1> HIDE DEF r
<1>5. Len(r) = Len(s) - 1
  BY <1>1, <1>2, <1>3, <1>4, SMT DEF r
<1>6. ASSUME NEW i \in 1..Len(r)
      PROVE  r[i] = IF i < k THEN s[i] ELSE s[i + 1]
  <2>1. i \in Nat /\ 1 <= i /\ i <= Len(s) - 1 /\ i \in 1..Len(a) + Len(b)
    BY <1>1, <1>2, <1>3, <1>5, SMT
  <2>2. CASE i < k
    <3>1. i <= Len(a) /\ i \in 1..k - 1
      BY <1>1, <1>2, <2>1, <2>2, SMT
    <3> QED BY <1>2, <1>4, <2>1, <2>2, <3>1 DEF r
  <2>3. CASE ~(i < k)
    <3>1. /\ ~(i <= Len(a)) /\ i - Len(a) \in 1..Len(s) - k
          /\ k + (i - Len(a)) = i + 1
      BY <1>1, <1>2, <2>1, <2>3, SMT
    <3> QED BY <1>3, <1>4, <2>1, <2>3, <3>1 DEF r
  <2> QED BY <2>2, <2>3
<1> QED BY <1>4, <1>5, <1>6 DEF r, a, b

\* The first occurrence in the front of a sequence is the one in the whole.
LEMMA RemoveFirstOfConcat ==
  ASSUME NEW S, NEW s \in Seq(S), NEW t \in Seq(S), NEW e, Contains(s, e)
  PROVE  /\ RemoveFirst(s, e) \in Seq(S)
         /\ RemoveFirst(s \o t, e) = RemoveFirst(s, e) \o t
<1> DEFINE u == s \o t
           r == RemoveFirst(s, e)
           q == RemoveFirst(u, e)
<1>1. /\ u \in Seq(S) /\ Len(u) = Len(s) + Len(t) /\ Len(s) \in Nat /\ Len(t) \in Nat
      /\ \A i \in 1..Len(s) + Len(t) : u[i] = IF i <= Len(s) THEN s[i] ELSE t[i - Len(s)]
  BY ConcatProperties, LenProperties
<1>2. PICK k \in 1..Len(s) :
        /\ s[k] = e /\ \A i \in 1..Len(s) : s[i] = e => k <= i
        /\ r = SubSeq(s, 1, k - 1) \o SubSeq(s, k + 1, Len(s))
  BY FirstOf
<1> HIDE DEF u, r
<1>3. Contains(u, e)
  BY <1>1, <1>2, SMT DEF Contains
<1>4. PICK j \in 1..Len(u) :
        /\ u[j] = e /\ \A i \in 1..Len(u) : u[i] = e => j <= i
        /\ q = SubSeq(u, 1, j - 1) \o SubSeq(u, j + 1, Len(u))
  BY <1>1, <1>3, FirstOf
<1> HIDE DEF q
<1>5. j = k
  BY <1>1, <1>2, <1>4, SMT
<1>6. /\ r \in Seq(S) /\ Len(r) = Len(s) - 1
      /\ \A i \in 1..Len(r) : r[i] = IF i < k THEN s[i] ELSE s[i + 1]
  BY <1>2, WithoutPosition
<1>7. /\ q \in Seq(S) /\ Len(q) = Len(u) - 1
      /\ \A i \in 1..Len(q) : q[i] = IF i < k THEN u[i] ELSE u[i + 1]
  BY <1>1, <1>4, <1>5, WithoutPosition
<1>8. /\ r \o t \in Seq(S) /\ Len(r \o t) = Len(r) + Len(t)
      /\ \A i \in 1..Len(r) + Len(t) : (r \o t)[i] = IF i <= Len(r) THEN r[i] ELSE t[i - Len(r)]
  BY <1>6, ConcatProperties
<1> DEFINE p == r \o t
<1> HIDE DEF p
<1>9. ASSUME NEW i \in 1..Len(q) PROVE q[i] = p[i]
  <2> DEFINE n == Len(r)
             m == Len(s)
  <2>0. n = m - 1 /\ m \in Nat /\ k \in 1..m /\ Len(u) = m + Len(t) /\ Len(t) \in Nat
        /\ Len(q) = Len(u) - 1
    BY <1>1, <1>6, <1>7
  <2> HIDE DEF n, m
  <2>1. i \in 1..n + Len(t) /\ i \in 1..m + Len(t) /\ i + 1 \in 1..m + Len(t)
    BY <2>0, SMT
  <2>2. CASE i <= Len(r)
    <3>1. i \in 1..n /\ i <= m /\ i + 1 <= m
      BY <2>0, <2>1, <2>2, SMT DEF n
    <3>2. p[i] = r[i] /\ r[i] = IF i < k THEN s[i] ELSE s[i + 1]
      BY <1>6, <1>8, <2>1, <2>2, <3>1 DEF p, n
    <3>3. u[i] = s[i] /\ u[i + 1] = s[i + 1]
      BY <1>1, <2>1, <3>1 DEF m
    <3> QED BY <1>7, <3>2, <3>3
  <2>3. CASE ~(i <= Len(r))
    <3>1. ~(i < k) /\ ~(i + 1 <= Len(s)) /\ i + 1 - Len(s) = i - Len(r)
      BY <2>0, <2>1, <2>3, SMT DEF n, m
    <3> QED BY <1>1, <1>7, <1>8, <2>1, <2>3, <3>1, SMTT(30) DEF p, n, m
  <2> QED BY <2>2, <2>3
<1>10. q = p
  <2>1. Len(q) = Len(p)
    BY <1>1, <1>6, <1>7, <1>8, SMT DEF p
  <2> QED BY <1>7, <1>8, <1>9, <2>1, SeqEqual DEF p
<1> QED BY <1>6, <1>10 DEF p, q, r, u

\* Moving the head of the queue to the end of the list.
LEMMA MoveHead ==
  ASSUME NEW S, NEW l \in Seq(S), NEW q \in Seq(S), q # <<>>
  PROVE  Append(l, Head(q)) \o Tail(q) = l \o q
<1> DEFINE h == Head(q)
           t == Tail(q)
           a == Append(l, h)
<1>1. h \in S /\ t \in Seq(S) /\ Len(t) = Len(q) - 1 /\ \A i \in 1..Len(t) : t[i] = q[i + 1]
  BY HeadTailProperties
<1>2. h = q[1] /\ Len(q) \in Nat \ {0} /\ Len(l) \in Nat
  <2>1. h = q[1]
    BY SMT
  <2> QED BY <2>1, EmptySeq, LenProperties
<1> HIDE DEF h, t
<1>3. /\ a \in Seq(S) /\ Len(a) = Len(l) + 1 /\ a[Len(l) + 1] = h
      /\ \A i \in 1..Len(l) : a[i] = l[i]
  BY <1>1, AppendProperties
<1> HIDE DEF a
<1>4. /\ a \o t \in Seq(S) /\ Len(a \o t) = Len(a) + Len(t)
      /\ \A i \in 1..Len(a) + Len(t) : (a \o t)[i] = IF i <= Len(a) THEN a[i] ELSE t[i - Len(a)]
  BY <1>1, <1>3, ConcatProperties
<1>5. /\ l \o q \in Seq(S) /\ Len(l \o q) = Len(l) + Len(q)
      /\ \A i \in 1..Len(l) + Len(q) : (l \o q)[i] = IF i <= Len(l) THEN l[i] ELSE q[i - Len(l)]
  BY ConcatProperties
<1> DEFINE x == a \o t
           y == l \o q
<1> HIDE DEF x, y
<1>6. ASSUME NEW i \in 1..Len(x) PROVE x[i] = y[i]
  <2>1. i \in 1..Len(a) + Len(t) /\ i \in 1..Len(l) + Len(q) /\ i \in Nat
    BY <1>1, <1>2, <1>3, <1>4, SMT DEF x
  <2>2. CASE i <= Len(l)
    BY <1>2, <1>3, <1>4, <1>5, <2>1, <2>2, SMT DEF x, y
  <2>3. CASE i = Len(l) + 1
    BY <1>2, <1>3, <1>4, <1>5, <2>1, <2>3, SMT DEF x, y
  <2>4. CASE i > Len(l) + 1
    <3>1. ~(i <= Len(a)) /\ ~(i <= Len(l)) /\ i - Len(a) \in 1..Len(t) /\ (i - Len(a)) + 1 = i - Len(l)
      BY <1>1, <1>2, <1>3, <2>1, <2>4, SMT
    <3> QED BY <1>1, <1>4, <1>5, <2>1, <3>1 DEF x, y
  <2> QED BY <1>2, <2>1, <2>2, <2>3, <2>4, SMT
<1>7. Len(x) = Len(y)
  BY <1>1, <1>2, <1>3, <1>4, <1>5, SMT DEF x, y
<1> QED BY <1>4, <1>5, <1>6, <1>7, SeqEqual DEF x, y, a, h, t

(***************************************************************************)
(* What load makes of a file.                                              *)
(***************************************************************************)

\* Each element of a finite set of naturals has its rank, and Nth finds it.
LEMMA NthOfSet ==
  ASSUME NEW S \in SUBSET Nat, IsFiniteSet(S)
  PROVE  /\ Cardinality(S) \in Nat
         /\ \A i \in 1..Cardinality(S) : Nth(S, i) \in S
         /\ \A n \in S : \E i \in 1..Cardinality(S) : Nth(S, i) = n
<1> DEFINE upto(n) == {m \in S : m <= n}
           c == Cardinality(S)
           rank == [n \in S |-> Cardinality(upto(n))]
<1>1. c \in Nat
  BY FS_CardinalityType
<1>2. ASSUME NEW n \in S
      PROVE  IsFiniteSet(upto(n)) /\ Cardinality(upto(n)) \in 1..c
  <2>1. upto(n) \in SUBSET S /\ n \in upto(n)
    BY SMT
  <2>2. IsFiniteSet(upto(n)) /\ Cardinality(upto(n)) <= c
    BY <2>1, FS_Subset
  <2>3. Cardinality(upto(n)) \in Nat /\ Cardinality(upto(n)) # 0
    BY <2>1, <2>2, FS_CardinalityType, FS_EmptySet
  <2> QED BY <1>1, <2>2, <2>3, SMT
<1>3. ASSUME NEW a \in S, NEW b \in S, Cardinality(upto(a)) = Cardinality(upto(b))
      PROVE  a = b
  <2>1. a <= b \/ b <= a
    BY SMT
  <2>2. ASSUME NEW x \in S, NEW y \in S, x <= y, Cardinality(upto(x)) = Cardinality(upto(y))
        PROVE  x = y
    <3>1. upto(x) \in SUBSET upto(y) /\ y \in upto(y)
      <4>1. \A m \in Nat : (m <= x => m <= y) /\ x \in Nat /\ y \in Nat /\ y <= y
        BY <2>2, SMT
      <4> QED BY <4>1
    <3>2. upto(y) = upto(x)
      BY <1>2, <2>2, <3>1, FS_Subset
    <3> QED BY <2>2, <3>1, <3>2, SMT
  <2> QED BY <1>3, <2>1, <2>2
<1> HIDE DEF c
<1>4. rank \in Injection(S, 1..c)
  <2>1. rank \in [S -> 1..c]
    BY <1>2
  <2>2. \A a, b \in S : rank[a] = rank[b] => a = b
    BY <1>3
  <2> HIDE DEF rank
  <2>3. DOMAIN rank = S
    BY <2>1
  <2> QED BY <2>1, <2>2, <2>3 DEF Injection, IsInjective
<1>5. rank \in Surjection(S, 1..c)
  <2>1. IsFiniteSet(1..c) /\ Cardinality(1..c) = c
    BY <1>1, FS_Interval, SMT
  <2> QED BY <1>4, <2>1, FS_Injection DEF c
<1>6. ASSUME NEW i \in 1..c
      PROVE  Nth(S, i) \in S /\ Cardinality(upto(Nth(S, i))) = i
  <2>1. \E n \in S : Cardinality(upto(n)) = i
    BY <1>5 DEF Surjection
  <2> QED BY <2>1, Zenon DEF Nth
<1>7. ASSUME NEW n \in S
      PROVE  \E i \in 1..c : Nth(S, i) = n
  <2>1. Cardinality(upto(n)) \in 1..c
    BY <1>2
  <2>2. Nth(S, Cardinality(upto(n))) = n
    BY <1>3, <1>6, <2>1
  <2> QED BY <2>1, <2>2
<1> QED BY <1>1, <1>6, <1>7 DEF c

LEMMA LoadedVideos ==
  ASSUME NEW f \in Seq(Videos \X BOOLEAN), NEW d \in BOOLEAN
  PROVE  /\ Loaded(f, d) \in Seq(Videos)
         /\ ToSet(Loaded(f, d)) = {f[n][1] : n \in {m \in DOMAIN f : f[m][2] = d}}
<1> DEFINE S == {n \in DOMAIN f : f[n][2] = d}
           c == Cardinality(S)
           g == [i \in 1..c |-> f[Nth(S, i)][1]]
<1>1. DOMAIN f = 1..Len(f) /\ Len(f) \in Nat /\ f \in [1..Len(f) -> Videos \X BOOLEAN]
  BY LenProperties
<1>2. S \in SUBSET Nat /\ IsFiniteSet(S)
  <2>1. IsFiniteSet(1..Len(f)) /\ S \in SUBSET (1..Len(f)) /\ S \in SUBSET Nat
    BY <1>1, FS_Interval, SMT
  <2> QED BY <2>1, FS_Subset
<1>3. /\ c \in Nat
      /\ \A i \in 1..c : Nth(S, i) \in S
      /\ \A n \in S : \E i \in 1..c : Nth(S, i) = n
  BY <1>2, NthOfSet, Zenon
<1>4. Loaded(f, d) = g
  BY Zenon DEF Loaded
<1>5. \A n \in S : f[n][1] \in Videos
  BY <1>1
<1>6. g \in [1..c -> Videos]
  BY <1>3, <1>5
<1>7. g \in Seq(Videos)
  <2> HIDE DEF g, c
  <2>1. g \in UNION {[1..m -> Videos] : m \in Nat}
    BY <1>3, <1>6
  <2> QED BY <2>1, SeqDef, Zenon
<1>8. ToSet(g) = {f[n][1] : n \in S}
  <2>1. DOMAIN g = 1..c /\ \A i \in 1..c : g[i] = f[Nth(S, i)][1]
    OBVIOUS
  <2> HIDE DEF g, S, c
  <2> QED BY <1>3, <2>1 DEF ToSet
<1> QED BY <1>4, <1>7, <1>8

\* What save makes of two lists.
SnapshotOf(l, q, d) == [i \in 1..Len(l \o q) |-> <<(l \o q)[i], (l \o q)[i] \in d>>]
Consistent(f) == \A i, j \in DOMAIN f : f[i][1] = f[j][1] => f[i][2] = f[j][2]

LEMMA SnapshotVideos ==
  ASSUME NEW l \in Seq(Videos), NEW q \in Seq(Videos), NEW d
  PROVE  /\ SnapshotOf(l, q, d) \in Seq(Videos \X BOOLEAN)
         /\ Consistent(SnapshotOf(l, q, d))
         /\ ToSet(SnapshotOf(l, q, d)) = {<<v, v \in d>> : v \in ToSet(l) \cup ToSet(q)}
<1> DEFINE u == l \o q
           n == Len(u)
           s == SnapshotOf(l, q, d)
<1>1. /\ u \in Seq(Videos) /\ n = Len(l) + Len(q) /\ Len(l) \in Nat /\ Len(q) \in Nat
      /\ DOMAIN l = 1..Len(l) /\ DOMAIN q = 1..Len(q)
      /\ \A i \in 1..n : u[i] = (IF i <= Len(l) THEN l[i] ELSE q[i - Len(l)]) /\ u[i] \in Videos
  BY ConcatProperties, LenProperties, ElementOfSeq
<1>2. s = [i \in 1..n |-> <<u[i], u[i] \in d>>]
  BY DEF SnapshotOf
<1> HIDE DEF s, u, n
<1>3. DOMAIN s = 1..n /\ \A i \in 1..n : s[i][1] = u[i] /\ s[i][2] = (u[i] \in d) /\ s[i] = <<u[i], u[i] \in d>>
  BY <1>2
<1>4. s \in Seq(Videos \X BOOLEAN)
  <2>1. n \in Nat
    BY <1>1, SMT
  <2>2. \A i \in 1..n : <<u[i], u[i] \in d>> \in Videos \X BOOLEAN
    <3> TAKE i \in 1..n
    <3>1. u[i] \in Videos
      BY <1>1
    <3>2. (u[i] \in d) \in BOOLEAN
      BY SMT
    <3> QED BY <3>1, <3>2, Zenon
  <2> DEFINE R == Videos \X BOOLEAN
  <2> HIDE DEF R
  <2>3. s \in [1..n -> R]
    BY <1>2, <2>2, Zenon DEF R
  <2>4. s \in UNION {[1..m -> R] : m \in Nat}
    BY <2>1, <2>3
  <2> QED BY <2>4, SeqDef, SMTT(30) DEF R
<1>5. Consistent(s)
  <2> SUFFICES ASSUME NEW i \in 1..n, NEW j \in 1..n, s[i][1] = s[j][1] PROVE s[i][2] = s[j][2]
    BY <1>3, Zenon DEF Consistent
  <2>1. u[i] = u[j] /\ s[i][2] = (u[i] \in d) /\ s[j][2] = (u[j] \in d)
    BY <1>3, Zenon
  <2> QED BY <2>1, Zenon
<1>6. \A x : x \in {u[i] : i \in 1..n} <=> x \in ToSet(l) \/ x \in ToSet(q)
  <2> TAKE x
  <2>1. ASSUME NEW i \in 1..n, x = u[i] PROVE x \in ToSet(l) \/ x \in ToSet(q)
    <3>1. CASE i <= Len(l)
      <4>1. i \in 1..Len(l) /\ x = l[i]
        BY <1>1, <2>1, <3>1, SMT
      <4>2. i \in DOMAIN l
        BY <4>1, LenProperties
      <4> QED BY <4>1, <4>2, Zenon DEF ToSet
    <3>2. CASE ~(i <= Len(l))
      <4>1. i - Len(l) \in 1..Len(q)
        BY <1>1, <3>2, SMT
      <4>2. x = q[i - Len(l)]
        BY <1>1, <2>1, <3>2, SMT
      <4>3. i - Len(l) \in DOMAIN q
        BY <4>1, LenProperties
      <4> QED BY <4>2, <4>3, Zenon DEF ToSet
    <3> QED BY <3>1, <3>2
  <2>2. ASSUME NEW i \in 1..Len(l), x = l[i] PROVE \E j \in 1..n : x = u[j]
    <3>1. i \in 1..n /\ i <= Len(l)
      BY <1>1, SMT
    <3> QED BY <1>1, <2>2, <3>1
  <2>3. ASSUME NEW i \in 1..Len(q), x = q[i] PROVE \E j \in 1..n : x = u[j]
    <3>1. Len(l) + i \in 1..n /\ ~(Len(l) + i <= Len(l)) /\ Len(l) + i - Len(l) = i
      BY <1>1, SMT
    <3> QED BY <1>1, <2>3, <3>1
  <2> QED BY <1>1, <2>1, <2>2, <2>3 DEF ToSet
<1>7. ToSet(s) = {<<v, v \in d>> : v \in {u[i] : i \in 1..n}}
  <2> DEFINE g(v) == <<v, v \in d>>
  <2>1. \A i \in 1..n : s[i] = g(u[i])
    BY <1>3, Zenon
  <2> HIDE DEF g
  <2>2. ToSet(s) = {g(v) : v \in {u[i] : i \in 1..n}}
    BY <1>3, <2>1 DEF ToSet
  <2> QED BY <2>2, Zenon DEF g
<1>8. {u[i] : i \in 1..n} = ToSet(l) \cup ToSet(q)
  BY <1>6
<1> QED BY <1>4, <1>5, <1>7, <1>8 DEF s

\* A reload of a consistent file gives lists that would be saved as the same records.
LEMMA ReloadKeepsRecords ==
  ASSUME NEW f \in Seq(Videos \X BOOLEAN), Consistent(f)
  PROVE  LET d == {f[i][1] : i \in {j \in 1..Len(f) : f[j][2]}}
         IN ToSet(SnapshotOf(LoadedList(f), LoadedQueue(f), d)) = ToSet(f)
<1> DEFINE d == {f[i][1] : i \in {j \in 1..Len(f) : f[j][2]}}
           l == LoadedList(f)
           q == LoadedQueue(f)
<1>1. /\ l \in Seq(Videos) /\ ToSet(l) = {f[n][1] : n \in {m \in DOMAIN f : f[m][2] = TRUE}}
      /\ q \in Seq(Videos) /\ ToSet(q) = {f[n][1] : n \in {m \in DOMAIN f : f[m][2] = FALSE}}
  <2>1. l = Loaded(f, TRUE) /\ q = Loaded(f, FALSE)
    BY Zenon DEF LoadedList, LoadedQueue
  <2> HIDE DEF l, q
  <2>2. \A e \in BOOLEAN :
          /\ Loaded(f, e) \in Seq(Videos)
          /\ ToSet(Loaded(f, e)) = {f[n][1] : n \in {m \in DOMAIN f : f[m][2] = e}}
    BY LoadedVideos
  <2>3. TRUE \in BOOLEAN /\ FALSE \in BOOLEAN
    OBVIOUS
  <2> QED BY <2>1, <2>2, <2>3
<1>2. /\ DOMAIN f = 1..Len(f)
      /\ \A n \in DOMAIN f : f[n] = <<f[n][1], f[n][2]>> /\ f[n][2] \in BOOLEAN
  BY LenProperties
<1>3. ToSet(SnapshotOf(l, q, d)) = {<<v, v \in d>> : v \in ToSet(l) \cup ToSet(q)}
  BY <1>1, SnapshotVideos, SMTT(30)
<1> HIDE DEF l, q
<1>4. ToSet(l) \cup ToSet(q) = {f[n][1] : n \in DOMAIN f}
  BY <1>1, <1>2
<1>5. \A n \in DOMAIN f : (f[n][1] \in d) = f[n][2]
  <2> TAKE n \in DOMAIN f
  <2>1. f[n][2] => f[n][1] \in d
    BY <1>2
  <2>2. f[n][1] \in d => f[n][2]
    <3> SUFFICES ASSUME NEW m \in DOMAIN f, f[m][2], f[m][1] = f[n][1] PROVE f[n][2]
      BY <1>2
    <3>1. f[m][2] = f[n][2]
      BY Zenon DEF Consistent
    <3> QED BY <3>1, Zenon
  <2>3. CASE f[n][2] = TRUE
    BY <2>1, <2>3, SMT
  <2>4. CASE f[n][2] = FALSE
    BY <2>2, <2>4, SMT
  <2> QED BY <1>2, <2>3, <2>4
<1> HIDE DEF d
<1>6. {<<v, v \in d>> : v \in {f[n][1] : n \in DOMAIN f}} = {f[n] : n \in DOMAIN f}
  <2>1. \A n \in DOMAIN f : <<f[n][1], f[n][1] \in d>> = f[n]
    BY <1>2, <1>5, Zenon
  <2> QED BY <2>1, Zenon
<1> QED BY <1>3, <1>4, <1>6 DEF ToSet, d, l, q

(***************************************************************************)
(* The invariant.                                                          *)
(***************************************************************************)
Records == Videos \X BOOLEAN
Behind  == \/ loop \in Saving
           \/ \E w \in Workers : wpc[w] \in {"appendw", "pop", "popw", "save", "savew"}

\* What the lists, the program counters and the registers hold.
Types ==
  /\ queue \in Seq(Videos) /\ list \in Seq(Videos) /\ order \in Seq(Videos)
  /\ dated \subseteq Videos /\ file \in Seq(Records)
  /\ stored \in Seq(Records) /\ marshalled \in Seq(Records)
  /\ loop \in LoopSteps /\ web \in {"idle", "rmw"} /\ wpc \in [Workers -> WorkerSteps]
  /\ DOMAIN wreg = Workers /\ DOMAIN wvid = Workers
  /\ loop \in {"rmw", "add", "addw"} => job \in Videos
  /\ loop \in {"rmw", "addw"} => reg \in Seq(Videos)
  /\ loop = "savew" => reg \in Seq(Records)
  /\ web = "rmw" => gone \in Videos /\ wbreg \in Seq(Videos)
  /\ \A w \in Workers : /\ wpc[w] \in {"appendw", "popw"} => wreg[w] \in Seq(Videos)
                        /\ wpc[w] = "savew" => wreg[w] \in Seq(Records)

\* Until crowded is set, at most one worker runs.
Alone == ~crowded => \A v, w \in Running : v = w

\* Until mixed is set, updates of the same slice exclude each other, and so do those
\* of the loop and of a worker until they are saved.
Apart ==
  /\ "slices" \notin mixed =>
       /\ loop = "addw" => \A w \in Workers : wpc[w] # "popw"
       /\ loop = "rmw" => web # "rmw" /\ \A w \in Workers : wpc[w] # "appendw"
       /\ web = "rmw" => \A w \in Workers : wpc[w] # "appendw"
  /\ "saves" \notin mixed /\ loop \in Saving => \A w \in Workers : wpc[w] \notin Updating

\* What was computed from a slice is still true of it when it is written.
Halves ==
  Clean =>
    /\ loop = "addw" => reg = Append(queue, job)
    /\ loop = "rmw" => Contains(list, job) /\ reg = RemoveFirst(list, job)
    /\ web = "rmw" => Contains(list, gone) /\ wbreg = RemoveFirst(list, gone)
    /\ \A w \in Workers :
         /\ wpc[w] \in {"appendw", "pop", "popw"} => queue # <<>>
         /\ wpc[w] = "appendw" => wreg[w] = Append(list, Head(queue))
         /\ wpc[w] = "popw" => wreg[w] = Tail(queue)

\* A video has one date in what was or will be written to the file.
FilesAgree ==
  /\ Consistent(file)
  /\ loop = "savew" => Consistent(reg)
  /\ \A w \in Workers : wpc[w] = "savew" => Consistent(wreg[w])

\* What was marshalled still covers what the lists hold; so does the file, unless
\* somebody is on the way to write it or its last write failed.
Saved ==
  Clean /\ "saves" \notin mixed =>
    /\ loop = "savew" => Covers(reg)
    /\ \A w \in Workers : wpc[w] = "savew" => Covers(wreg[w])
    /\ ~Behind /\ ~broken => Covers(file)

\* What was or will be written is the order of the videos when it was marshalled.
Stored ==
  Clean /\ "saves" \notin mixed =>
    /\ file = stored
    /\ loop = "savew" => reg = marshalled
    /\ \A w \in Workers : wpc[w] = "savew" => wreg[w] = marshalled

VInv == Types /\ Alone /\ Apart /\ Halves /\ HeadIsMine /\ FilesAgree /\ Saved /\ Stored
        /\ InOrder

\* All that happens to mixed and crowded.
LEMMA Flow ==
  Types /\ [Next]_vars =>
    \/ UNCHANGED vars
    \/ CrashAndReload
    \/ mixed' = mixed \cup Mixing(loop', web', wpc') /\ (~crowded' => ~crowded)
<1> SUFFICES ASSUME Types, [Next]_vars
             PROVE  \/ UNCHANGED vars
                    \/ CrashAndReload
                    \/ mixed' = mixed \cup Mixing(loop', web', wpc') /\ (~crowded' => ~crowded)
  OBVIOUS
<1> USE DEF loopVars, webVars, workVars, histVars, LoopAt, WebAt, WorkerAt
<1>1. ASSUME NEW v \in Videos, Download(v)
      PROVE  mixed' = mixed \cup Mixing(loop', web', wpc') /\ crowded' = crowded
  BY <1>1, Zenon DEF Download
<1>2. CASE ToggleEnableDownload
  BY <1>2, Zenon DEF ToggleEnableDownload
<1>3. CASE RemoveWrite \/ AddRead \/ AddWrite \/ LoopSave
  BY <1>3, Zenon DEF RemoveWrite, AddRead, AddWrite, LoopSave
<1>4. CASE Start
  <2>1. /\ loop' = "idle" /\ web' = web /\ mixed' = mixed \cup Mixing("idle", web, wpc)
        /\ crowded' = crowded
        /\ wpc' = wpc \/ \E w \in Workers : wpc[w] = "off" /\ wpc' = [wpc EXCEPT ![w] = "begin"]
    BY <1>4, Zenon DEF Start
  <2>2. \A w \in Workers : wpc'[w] = "appendw" <=> wpc[w] = "appendw"
    BY <2>1, SMT DEF Types
  <2>3. Mixing("idle", web, wpc) = Mixing("idle", web, wpc')
    BY <2>2, SMT DEF Mixing, Saving
  <2> QED BY <2>1, <2>3, Zenon
<1>5. ASSUME NEW w \in Workers, WorkerStep(w)
      PROVE  mixed' = mixed \cup Mixing(loop', web', wpc') /\ (~crowded' => ~crowded)
  <2>1. loop' = loop /\ web' = web /\ mixed' = mixed \cup Mixing(loop, web, wpc')
    BY <1>5, Zenon DEF WorkerStep, Begin, NextVideo, TestFiler, DownloadCmd, DoneAppend,
       DoneAppendWrite, DonePop, DonePopWrite, DonePanics, DoneSave, Post
  <2>2. ~crowded' => ~crowded
    BY <1>5, Zenon DEF WorkerStep, Begin, NextVideo, TestFiler, DownloadCmd, DoneAppend,
       DoneAppendWrite, DonePop, DonePopWrite, DonePanics, DoneSave, Post
  <2> QED BY <2>1, <2>2, Zenon
<1>6. ASSUME NEW v \in Videos, WebRemoveOne(v)
      PROVE  mixed' = mixed \cup Mixing(loop', web', wpc') /\ crowded' = crowded
  BY <1>6, Zenon DEF WebRemoveOne
<1>7. CASE WebRemoveWrite
  BY <1>7, Zenon DEF WebRemoveWrite
<1> QED BY <1>1, <1>2, <1>3, <1>4, <1>5, <1>6, <1>7, Zenon DEF Next, LoopStep

LEMMA NextApart == Types /\ Apart /\ [Next]_vars => Apart'
<1> SUFFICES ASSUME Types, Apart, [Next]_vars PROVE Apart'
  OBVIOUS
<1>1. CASE UNCHANGED vars
  BY <1>1, SMT DEF vars, loopVars, webVars, workVars, Apart, Saving, Updating
<1>2. CASE CrashAndReload
  BY <1>2, SMT DEF CrashAndReload, Apart, Saving
<1>3. CASE mixed' = mixed \cup Mixing(loop', web', wpc')
  <2>1. "slices" \notin mixed' =>
          /\ ~(loop' = "addw" /\ \E w \in Workers : wpc'[w] \in {"popw"})
          /\ ~(loop' = "rmw" /\ (web' = "rmw" \/ \E w \in Workers : wpc'[w] \in {"appendw"}))
          /\ ~(web' = "rmw" /\ \E w \in Workers : wpc'[w] \in {"appendw"})
    BY <1>3, SMT DEF Mixing
  <2>2. "saves" \notin mixed' => ~(loop' \in Saving /\ \E w \in Workers : wpc'[w] \in Updating)
    BY <1>3, Zenon DEF Mixing
  <2> QED BY <2>1, <2>2, SMT DEF Apart
<1> QED BY <1>1, <1>2, <1>3, Flow

\* Overlaps are not forgotten.
LEMMA StaysClean ==
  Types /\ [Next]_vars =>
    (Clean' => Clean) /\ ("saves" \notin mixed' => "saves" \notin mixed)
<1> SUFFICES ASSUME Types, [Next]_vars
             PROVE  (Clean' => Clean) /\ ("saves" \notin mixed' => "saves" \notin mixed)
  OBVIOUS
<1>1. mixed \subseteq mixed' /\ (~crowded' => ~crowded)
  BY Flow, SMT DEF CrashAndReload, vars, histVars
<1> QED BY <1>1 DEF Clean

(***************************************************************************)
(* Types.                                                                  *)
(***************************************************************************)
LEMMA SnapshotType ==
  ASSUME queue \in Seq(Videos), list \in Seq(Videos)
  PROVE  Snapshot \in Seq(Records) /\ Consistent(Snapshot)
<1>1. Snapshot = SnapshotOf(list, queue, dated)
  BY Zenon DEF Snapshot, SnapshotOf, RecordsOf
<1> QED BY <1>1, SnapshotVideos DEF Records

LEMMA RecordsType ==
  ASSUME NEW s \in Seq(Videos)
  PROVE  RecordsOf(s) \in Seq(Records)
<1>1. <<>> \in Seq(Videos) /\ s \o <<>> = s
  BY EmptySeq, ConcatEmptySeq
<1>2. RecordsOf(s) = SnapshotOf(s, <<>>, dated)
  BY <1>1, Zenon DEF SnapshotOf, RecordsOf
<1>3. SnapshotOf(s, <<>>, dated) \in Seq(Videos \X BOOLEAN)
  BY <1>1, SnapshotVideos, Zenon
<1> QED BY <1>2, <1>3, Zenon DEF Records

\* What a removal leaves of a sequence: everything but at most the removed element.
LEMMA RemovedFirst ==
  ASSUME NEW S, NEW s \in Seq(S), NEW e
  PROVE  /\ RemoveFirst(s, e) \in Seq(S)
         /\ ToSet(RemoveFirst(s, e)) \subseteq ToSet(s)
         /\ ToSet(s) \subseteq ToSet(RemoveFirst(s, e)) \cup {e}
<1>1. CASE ~Contains(s, e)
  BY <1>1, Zenon DEF Contains, RemoveFirst
<1>2. CASE Contains(s, e)
  <2> DEFINE r == RemoveFirst(s, e)
  <2>1. PICK k \in 1..Len(s) : s[k] = e /\ r = SubSeq(s, 1, k - 1) \o SubSeq(s, k + 1, Len(s))
    BY <1>2, FirstOf
  <2> HIDE DEF r
  <2>2. /\ r \in Seq(S) /\ Len(r) = Len(s) - 1
        /\ \A i \in 1..Len(r) : r[i] = IF i < k THEN s[i] ELSE s[i + 1]
    BY <2>1, WithoutPosition
  <2>3. Len(s) \in Nat /\ DOMAIN s = 1..Len(s) /\ DOMAIN r = 1..Len(r)
    BY <2>2, LenProperties
  <2>4. ASSUME NEW i \in DOMAIN r PROVE \E j \in DOMAIN s : s[j] = r[i]
    <3>1. i \in 1..Len(s) /\ i + 1 \in 1..Len(s)
      BY <2>2, <2>3, SMT
    <3> QED BY <2>2, <2>3, <3>1
  <2>5. ASSUME NEW j \in DOMAIN s, s[j] # e PROVE \E i \in DOMAIN r : r[i] = s[j]
    <3>1. CASE j < k
      <4>1. j \in 1..Len(r)
        BY <2>2, <2>3, <3>1, SMT
      <4> QED BY <2>2, <2>3, <3>1, <4>1
    <3>2. CASE j > k
      <4>1. j - 1 \in 1..Len(r) /\ ~(j - 1 < k) /\ (j - 1) + 1 = j
        BY <2>2, <2>3, <3>2, SMT
      <4> QED BY <2>2, <2>3, <4>1
    <3>3. j \in 1..Len(s) /\ j # k
      BY <2>1, <2>3, <2>5, Zenon
    <3>4. j < k \/ j > k
      BY <3>3, SMT
    <3> QED BY <3>1, <3>2, <3>4, Zenon
  <2> QED BY <2>2, <2>4, <2>5 DEF ToSet, r
<1> QED BY <1>1, <1>2

LEMMA NextTypes == Types /\ [Next]_vars => Types'
<1> SUFFICES ASSUME Types, [Next]_vars PROVE Types'
  OBVIOUS
<1> USE DEF memory, loopVars, webVars, workVars, saveVars, histVars, counters, LoopAt, WebAt, WorkerAt
<1>a. <<>> \in Seq(Videos) /\ <<>> \in Seq(Records)
  BY EmptySeq
<1>b. ASSUME NEW data \in Seq(Records), WriteFile(data)
      PROVE  file' \in Seq(Records) /\ stored' \in Seq(Records) /\ marshalled' \in Seq(Records)
  BY <1>a, <1>b, Zenon DEF WriteFile, Types
<1>c. Marshal => stored' = stored /\ marshalled' \in Seq(Records)
  BY RecordsType, Zenon DEF Marshal, Types
<1>1. ASSUME NEW v \in Videos, Download(v)
      PROVE  Types'
  <2>0. list \in Seq(Videos) /\ RemoveFirst(list, v) \in Seq(Videos)
    BY RemovedFirst DEF Types
  <2>1. reg' \in Seq(Videos) \/ loop' = "add"
    BY <1>1, <2>0, Zenon DEF Download
  <2>2. loop' \in {"rmw", "add"} /\ UNCHANGED <<memory, file, webVars, workVars, saveVars, histVars>> /\ job' = v
    BY <1>1, SMT DEF Download
  <2> QED BY <2>1, <2>2, SMT DEF Types, LoopSteps
<1>2. CASE ToggleEnableDownload
  <2>1. loop' \in {"start", "idle"}
    BY <1>2, Zenon DEF ToggleEnableDownload
  <2>2. UNCHANGED <<memory, file, reg, job, webVars, workVars, saveVars, order>>
    BY <1>2, Zenon DEF ToggleEnableDownload
  <2> QED BY <2>1, <2>2, SMT DEF Types, LoopSteps
<1>3. CASE RemoveWrite
  <2>1. list' \in Seq(Videos) /\ order' \in Seq(Videos)
    BY <1>3, RemovedFirst, SMT DEF RemoveWrite, Types
  <2> QED BY <1>3, <2>1, SMT DEF RemoveWrite, Types, LoopSteps
<1>4. CASE AddRead
  <2>1. reg' \in Seq(Videos)
    BY <1>4, AppendProperties, SMT DEF AddRead, Types
  <2> QED BY <1>4, <2>1, SMT DEF AddRead, Types, LoopSteps
<1>5. CASE AddWrite
  <2>1. order' \in Seq(Videos) /\ queue' \in Seq(Videos)
    BY <1>5, AppendProperties, SMT DEF AddWrite, Types
  <2> QED BY <1>5, <2>1, SMT DEF AddWrite, Types, LoopSteps
<1>6. CASE LoopSave
  <2>1. CASE loop = "save"
    <3>1. reg' \in Seq(Records) /\ Marshal /\ loop' = "savew"
      BY <1>6, <2>1, SnapshotType, SMT DEF LoopSave, Types
    <3>2. UNCHANGED <<memory, file, webVars, workVars, order>>
      BY <1>6, <2>1, SMT DEF LoopSave
    <3> QED BY <1>c, <3>1, <3>2, SMT DEF Types, LoopSteps
  <2>2. CASE loop = "savew"
    <3>1. WriteFile(reg) /\ reg \in Seq(Records) /\ loop' = "start"
      BY <1>6, <2>2, SMT DEF LoopSave, Types
    <3>2. UNCHANGED <<memory, webVars, workVars, order>>
      BY <1>6, <2>2, SMT DEF LoopSave
    <3> QED BY <1>b, <3>1, <3>2, SMT DEF Types, LoopSteps
  <2> QED BY <1>6, <2>1, <2>2 DEF LoopSave
<1>7. CASE Start
  BY <1>7, SMT DEF Start, Types, LoopSteps, WorkerSteps
<1>8. ASSUME NEW v \in Videos, WebRemoveOne(v)
      PROVE  Types'
  <2>1. wbreg' \in Seq(Videos) /\ gone' = v /\ web' = "rmw"
    BY <1>8, RemovedFirst, Zenon DEF WebRemoveOne, Types
  <2>2. UNCHANGED <<memory, file, loopVars, workVars, saveVars, histVars>>
    BY <1>8, Zenon DEF WebRemoveOne
  <2> QED BY <2>1, <2>2, SMT DEF Types
<1>9. CASE WebRemoveWrite
  <2>1. list' \in Seq(Videos) /\ order' \in Seq(Videos) /\ web' = "idle"
    BY <1>9, RemovedFirst, SMT DEF WebRemoveWrite, Types
  <2> QED BY <1>9, <2>1, SMT DEF WebRemoveWrite, Types
<1>10. ASSUME NEW w \in Workers, Begin(w) \/ NextVideo(w) \/ TestFiler(w) \/ DownloadCmd(w) \/ DonePanics(w) \/ Post(w)
       PROVE  Types'
  <2>1. /\ \E l \in {"next", "post", "test", "download", "append", "off"} : wpc' = [wpc EXCEPT ![w] = l]
        /\ UNCHANGED <<memory, file, loopVars, webVars, saveVars, wreg, order>>
    BY <1>10, Zenon DEF Begin, NextVideo, TestFiler, DownloadCmd, DonePanics, Post
  <2>2. DOMAIN wvid' = Workers
    BY <1>10, SMT DEF Begin, NextVideo, TestFiler, DownloadCmd, DonePanics, Post, Types
  <2> QED BY <2>1, <2>2, SMT DEF Types, WorkerSteps
<1>11. ASSUME NEW w \in Workers, DoneAppend(w)
       PROVE  Types'
  <2>1. Head(queue) \in Videos
    BY <1>11, HeadTailProperties DEF DoneAppend, Types
  <2>2. Append(list, Head(queue)) \in Seq(Videos) /\ dated' \subseteq Videos
    BY <1>11, <2>1, AppendProperties, SMT DEF DoneAppend, Types
  <2>3. /\ wreg' = [wreg EXCEPT ![w] = Append(list, Head(queue))] /\ wpc' = [wpc EXCEPT ![w] = "appendw"]
        /\ UNCHANGED <<queue, list, file, loopVars, webVars, wvid, saveVars, order>>
    BY <1>11, Zenon DEF DoneAppend
  <2> QED BY <2>2, <2>3, SMT DEF Types, WorkerSteps
<1>12. ASSUME NEW w \in Workers, DoneAppendWrite(w)
       PROVE  Types'
  BY <1>12, SMT DEF DoneAppendWrite, Types, WorkerSteps
<1>13. ASSUME NEW w \in Workers, DonePop(w)
       PROVE  Types'
  <2>1. Tail(queue) \in Seq(Videos)
    BY <1>13, HeadTailProperties DEF DonePop, Types
  <2> QED BY <1>13, <2>1, SMT DEF DonePop, Types, WorkerSteps
<1>14. ASSUME NEW w \in Workers, DonePopWrite(w)
       PROVE  Types'
  BY <1>14, SMT DEF DonePopWrite, Types, WorkerSteps
<1>15. ASSUME NEW w \in Workers, DoneSave(w)
       PROVE  Types'
  <2>1. CASE wpc[w] = "save"
    <3>1. Snapshot \in Seq(Records)
      BY SnapshotType DEF Types
    <3>2. /\ wreg' = [wreg EXCEPT ![w] = Snapshot] /\ wpc' = [wpc EXCEPT ![w] = "savew"] /\ Marshal
          /\ UNCHANGED <<memory, file, loopVars, webVars, wvid, order>>
      BY <1>15, <2>1, SMT DEF DoneSave
    <3> QED BY <1>c, <3>1, <3>2, SMT DEF Types, WorkerSteps
  <2>2. CASE wpc[w] = "savew"
    <3>1. /\ WriteFile(wreg[w]) /\ wreg' = [wreg EXCEPT ![w] = <<>>] /\ wpc' = [wpc EXCEPT ![w] = "next"]
          /\ UNCHANGED <<memory, loopVars, webVars, wvid, order>>
      BY <1>15, <2>2, SMT DEF DoneSave
    <3>2. wreg[w] \in Seq(Records)
      BY <2>2 DEF Types
    <3> QED BY <1>b, <3>1, <3>2, SMT DEF Types, WorkerSteps
  <2> QED BY <1>15, <2>1, <2>2 DEF DoneSave
<1>16. CASE CrashAndReload
  <2>0. file' \in Seq(Records) /\ stored' \in Seq(Records) /\ marshalled' \in Seq(Records)
    BY <1>16, <1>a, Zenon DEF CrashAndReload, Types
  <2>1. ASSUME NEW f \in Seq(Records)
        PROVE  LoadedList(f) \in Seq(Videos) /\ LoadedQueue(f) \in Seq(Videos)
    <3>1. \A e \in BOOLEAN : Loaded(f, e) \in Seq(Videos)
      BY LoadedVideos DEF Records
    <3> QED BY <3>1, Zenon DEF LoadedList, LoadedQueue
  <2>2. list' \in Seq(Videos) /\ queue' \in Seq(Videos) /\ order' \in Seq(Videos)
    <3>1. LoadedList(stored') \o LoadedQueue(stored') \in Seq(Videos)
      BY <2>0, <2>1, ConcatProperties
    <3> QED BY <1>16, <2>0, <2>1, <3>1, Zenon DEF CrashAndReload
  <2>3. dated' \subseteq Videos
    <3>1. \A i \in 1..Len(file') : file'[i][1] \in Videos
      BY <2>0, ElementOfSeq DEF Records
    <3> QED BY <1>16, <3>1 DEF CrashAndReload
  <2>4. /\ loop' = "idle" /\ web' = "idle" /\ wpc' = [w \in Workers |-> "off"]
        /\ wreg' = [w \in Workers |-> <<>>] /\ wvid' = [w \in Workers |-> None]
    BY <1>16, Zenon DEF CrashAndReload
  <2> QED BY <2>0, <2>2, <2>3, <2>4, SMT DEF Types, LoopSteps, WorkerSteps
<1>17. CASE UNCHANGED vars
  BY <1>17, SMT DEF vars, Types
<1> QED BY <1>1, <1>2, <1>3, <1>4, <1>5, <1>6, <1>7, <1>8, <1>9, <1>10, <1>11, <1>12, <1>13, <1>14,
           <1>15, <1>16, <1>17, Zenon DEF Next, LoopStep, WorkerStep

(***************************************************************************)
(* The steps, one conjunct of the invariant at a time.                     *)
(***************************************************************************)

\* Where a step may take a worker, and who takes it there.
LEMMA WorkersMove ==
  Types /\ [Next]_vars =>
    \/ wpc' = wpc /\ (crowded' = crowded)
    \/ \E w \in Workers : wpc[w] = "off" /\ wpc' = [wpc EXCEPT ![w] = "begin"] /\ crowded' = crowded
    \/ \E w \in Workers : /\ wpc[w] = "begin" /\ wpc' = [wpc EXCEPT ![w] = "next"]
                          /\ crowded' = (crowded \/ Running # {})
    \/ \E w \in Running, l \in WorkerSteps \ {"begin"} :
         wpc' = [wpc EXCEPT ![w] = l] /\ crowded' = crowded
    \/ wpc' = [w \in Workers |-> "off"] /\ crowded' = crowded
<1> SUFFICES ASSUME Types, [Next]_vars
             PROVE  \/ wpc' = wpc /\ crowded' = crowded
                    \/ \E w \in Workers : wpc[w] = "off" /\ wpc' = [wpc EXCEPT ![w] = "begin"] /\ crowded' = crowded
                    \/ \E w \in Workers : /\ wpc[w] = "begin" /\ wpc' = [wpc EXCEPT ![w] = "next"]
                                          /\ crowded' = (crowded \/ Running # {})
                    \/ \E w \in Running, l \in WorkerSteps \ {"begin"} :
                         wpc' = [wpc EXCEPT ![w] = l] /\ crowded' = crowded
                    \/ wpc' = [w \in Workers |-> "off"] /\ crowded' = crowded
  OBVIOUS
<1> USE DEF memory, loopVars, webVars, workVars, saveVars, histVars, counters, LoopAt, WebAt, WorkerAt
<1>1. ASSUME NEW v \in Videos, Download(v) \/ WebRemoveOne(v) PROVE wpc' = wpc /\ crowded' = crowded
  BY <1>1, Zenon DEF Download, WebRemoveOne
<1>2. CASE ToggleEnableDownload \/ RemoveWrite \/ AddRead \/ AddWrite \/ LoopSave \/ WebRemoveWrite
  BY <1>2, Zenon DEF ToggleEnableDownload, RemoveWrite, AddRead, AddWrite, LoopSave, WebRemoveWrite
<1>3. CASE Start
  BY <1>3, Zenon DEF Start
<1>4. ASSUME NEW w \in Workers, Begin(w) PROVE wpc[w] = "begin" /\ wpc' = [wpc EXCEPT ![w] = "next"] /\ crowded' = (crowded \/ Running # {})
  BY <1>4, Zenon DEF Begin
<1>5. ASSUME NEW w \in Workers, WorkerStep(w), ~Begin(w)
      PROVE  \E l \in WorkerSteps \ {"begin"} :
               w \in Running /\ wpc' = [wpc EXCEPT ![w] = l] /\ crowded' = crowded
  <2>1. wpc[w] \in {"next", "test", "download", "append", "appendw", "pop", "popw", "save", "savew", "post"}
    BY <1>5, Zenon DEF WorkerStep, NextVideo, TestFiler, DownloadCmd, DoneAppend, DoneAppendWrite,
       DonePop, DonePopWrite, DonePanics, DoneSave, Post
  <2>2. \E l \in {"post", "test", "download", "append", "appendw", "pop", "popw", "save", "savew", "next", "off"} :
          wpc' = [wpc EXCEPT ![w] = l] /\ crowded' = crowded
    BY <1>5, Zenon DEF WorkerStep, NextVideo, TestFiler, DownloadCmd, DoneAppend, DoneAppendWrite,
       DonePop, DonePopWrite, DonePanics, DoneSave, Post
  <2>3. /\ w \in Running
        /\ {"post", "test", "download", "append", "appendw", "pop", "popw", "save", "savew", "next", "off"}
             \subseteq WorkerSteps \ {"begin"}
    BY <2>1, SMT DEF Running, WorkerSteps
  <2> QED BY <2>2, <2>3, Zenon
<1>6. CASE CrashAndReload
  BY <1>6, Zenon DEF CrashAndReload
<1>7. CASE UNCHANGED vars
  BY <1>7 DEF vars
<1> QED BY <1>1, <1>2, <1>3, <1>4, <1>5, <1>6, <1>7, Zenon DEF Next, LoopStep

LEMMA NextAlone == Types /\ Alone /\ [Next]_vars => Alone'
<1> SUFFICES ASSUME Types, Alone, [Next]_vars PROVE Alone'
  OBVIOUS
<1>1. CASE wpc' = wpc /\ crowded' = crowded
  BY <1>1, SMT DEF Alone, Running
<1>2. ASSUME NEW w \in Workers, wpc[w] = "off", wpc' = [wpc EXCEPT ![w] = "begin"], crowded' = crowded
      PROVE  Alone'
  BY <1>2, SMT DEF Alone, Running, Types
<1>3. ASSUME NEW w \in Workers, wpc[w] = "begin", wpc' = [wpc EXCEPT ![w] = "next"],
             crowded' = (crowded \/ Running # {})
      PROVE  Alone'
  <2>1. ~crowded' => Running = {}
    BY <1>3, Zenon
  <2>2. Running = {} => Running' = {w}
    BY <1>3, SMT DEF Running, Types
  <2> QED BY <2>1, <2>2, Zenon DEF Alone
<1>4. ASSUME NEW w \in Running, NEW l \in WorkerSteps \ {"begin"}, wpc' = [wpc EXCEPT ![w] = l],
             crowded' = crowded
      PROVE  Alone'
  <2>1. Running' \subseteq Running
    BY <1>4, SMT DEF Running, Types
  <2> QED BY <1>4, <2>1 DEF Alone
<1>5. CASE wpc' = [w \in Workers |-> "off"] /\ crowded' = crowded
  BY <1>5, SMT DEF Alone, Running
<1> QED BY <1>1, <1>2, <1>3, <1>4, <1>5, WorkersMove, Zenon

LEMMA NextFilesAgree == Types /\ FilesAgree /\ [Next]_vars => FilesAgree'
<1> SUFFICES ASSUME Types, FilesAgree, [Next]_vars PROVE FilesAgree'
  OBVIOUS
<1> USE DEF memory, loopVars, webVars, workVars, saveVars, histVars, counters, LoopAt, WebAt, WorkerAt
<1>a. Consistent(<<>>)
  BY SMT DEF Consistent
<1>b. ASSUME NEW data, Consistent(data), WriteFile(data) PROVE Consistent(file')
  BY <1>a, <1>b, Zenon DEF WriteFile
<1>1. ASSUME NEW v \in Videos, Download(v) PROVE FilesAgree'
  <2>1. loop' # "savew" /\ UNCHANGED <<file, workVars>>
    BY <1>1, SMT DEF Download
  <2> QED BY <2>1, SMT DEF FilesAgree
<1>2. CASE ToggleEnableDownload
  <2>1. loop' # "savew" /\ UNCHANGED <<file, workVars>>
    BY <1>2, SMT DEF ToggleEnableDownload
  <2> QED BY <2>1, SMT DEF FilesAgree
<1>3. CASE RemoveWrite \/ AddRead \/ AddWrite \/ Start
  <2>1. /\ loop' # "savew" /\ UNCHANGED <<file, wreg>>
        /\ wpc' = wpc \/ \E w \in Workers : wpc' = [wpc EXCEPT ![w] = "begin"]
    BY <1>3, SMT DEF RemoveWrite, AddRead, AddWrite, Start
  <2> QED BY <2>1, SMT DEF FilesAgree, Types
<1>4. CASE LoopSave
  <2>1. CASE loop = "save"
    <3>1. reg' = Snapshot /\ UNCHANGED <<file, workVars>>
      BY <1>4, <2>1, SMT DEF LoopSave
    <3>2. Consistent(reg')
      BY <3>1, SnapshotType DEF Types
    <3> QED BY <3>1, <3>2, SMT DEF FilesAgree
  <2>2. CASE loop = "savew"
    <3>1. WriteFile(reg) /\ loop' = "start" /\ UNCHANGED workVars
      BY <1>4, <2>2, SMT DEF LoopSave
    <3>2. Consistent(file')
      BY <1>b, <2>2, <3>1, Zenon DEF FilesAgree
    <3> QED BY <3>1, <3>2, SMT DEF FilesAgree
  <2> QED BY <1>4, <2>1, <2>2 DEF LoopSave
<1>5. ASSUME NEW w \in Workers, WorkerStep(w), ~DoneSave(w) PROVE FilesAgree'
  <2>1. /\ UNCHANGED <<file, loopVars>>
        /\ \A x \in Workers : wpc'[x] = "savew" => wpc[x] = "savew" /\ wreg'[x] = wreg[x]
    <3>1. UNCHANGED <<file, loopVars>>
      BY <1>5, Zenon DEF WorkerStep, Begin, NextVideo, TestFiler, DownloadCmd, DoneAppend,
         DoneAppendWrite, DonePop, DonePopWrite, DonePanics, Post
    <3>2. /\ \E l \in {"post", "test", "download", "append", "appendw", "pop", "popw", "save", "next", "off"} :
               wpc' = [wpc EXCEPT ![w] = l]
          /\ \/ wreg' = wreg
             \/ \E r : wreg' = [wreg EXCEPT ![w] = r]
      BY <1>5, Zenon DEF WorkerStep, Begin, NextVideo, TestFiler, DownloadCmd, DoneAppend,
         DoneAppendWrite, DonePop, DonePopWrite, DonePanics, Post
    <3> QED BY <3>1, <3>2, SMT DEF Types
  <2> QED BY <2>1, SMT DEF FilesAgree
<1>6. ASSUME NEW w \in Workers, DoneSave(w) PROVE FilesAgree'
  <2>1. CASE wpc[w] = "save"
    <3>1. /\ wreg' = [wreg EXCEPT ![w] = Snapshot] /\ wpc' = [wpc EXCEPT ![w] = "savew"]
          /\ UNCHANGED <<file, loopVars>>
      BY <1>6, <2>1, SMT DEF DoneSave
    <3>2. Consistent(Snapshot)
      BY SnapshotType DEF Types
    <3> QED BY <3>1, <3>2, SMT DEF FilesAgree, Types
  <2>2. CASE wpc[w] = "savew"
    <3>1. /\ WriteFile(wreg[w]) /\ wreg' = [wreg EXCEPT ![w] = <<>>] /\ wpc' = [wpc EXCEPT ![w] = "next"]
          /\ UNCHANGED loopVars
      BY <1>6, <2>2, SMT DEF DoneSave
    <3>2. Consistent(file')
      BY <1>b, <2>2, <3>1, Zenon DEF FilesAgree
    <3> QED BY <3>1, <3>2, SMT DEF FilesAgree, Types
  <2> QED BY <1>6, <2>1, <2>2 DEF DoneSave
<1>7. CASE CrashAndReload
  <2>1. Consistent(file')
    BY <1>7, <1>a, Zenon DEF CrashAndReload, FilesAgree
  <2>2. loop' = "idle" /\ wpc' = [w \in Workers |-> "off"]
    BY <1>7, Zenon DEF CrashAndReload
  <2> QED BY <2>1, <2>2, SMT DEF FilesAgree
<1>8. ASSUME UNCHANGED vars \/ WebRemoveWrite \/ \E v \in Videos : WebRemoveOne(v) PROVE FilesAgree'
  <2>1. UNCHANGED <<file, loop, reg, wpc, wreg>>
    BY <1>8, Zenon DEF vars, WebRemoveWrite, WebRemoveOne
  <2> QED BY <2>1, SMT DEF FilesAgree
<1> QED BY <1>1, <1>2, <1>3, <1>4, <1>5, <1>6, <1>7, <1>8, Zenon DEF Next, LoopStep

\* What the loop, a request and the worker know of the slices stays true (Halves and HeadIsMine).
LEMMA NextHalves ==
  Types /\ Alone /\ Apart /\ Halves /\ HeadIsMine /\ [Next]_vars => Halves' /\ HeadIsMine'
<1> DEFINE Mine == \A w \in Workers : wpc[w] \in {"test", "download", "append"} =>
                     queue # <<>> /\ Head(queue) = wvid[w]
           LoopHalf == /\ loop = "addw" => reg = Append(queue, job)
                       /\ loop = "rmw" => Contains(list, job) /\ reg = RemoveFirst(list, job)
           WebHalf == web = "rmw" => Contains(list, gone) /\ wbreg = RemoveFirst(list, gone)
           WorkHalf == \A w \in Workers :
                         /\ wpc[w] \in {"appendw", "pop", "popw"} => queue # <<>>
                         /\ wpc[w] = "appendw" => wreg[w] = Append(list, Head(queue))
                         /\ wpc[w] = "popw" => wreg[w] = Tail(queue)
           Half == LoopHalf /\ WebHalf /\ WorkHalf
<1> SUFFICES ASSUME Types, Alone, Apart, Halves, HeadIsMine, [Next]_vars, Clean' PROVE Half' /\ Mine'
  BY Zenon DEF Halves, HeadIsMine
<1> USE DEF memory, loopVars, webVars, workVars, saveVars, histVars, counters, LoopAt, WebAt, WorkerAt
<1>1. CASE CrashAndReload
  <2>1. loop' = "idle" /\ web' = "idle" /\ wpc' = [w \in Workers |-> "off"]
    BY <1>1, Zenon DEF CrashAndReload
  <2> QED BY <2>1, SMT
<1>2. /\ Half /\ Mine /\ \A v, w \in Running : v = w
      /\ loop = "addw" => \A w \in Workers : wpc[w] # "popw"
      /\ loop = "rmw" => web # "rmw" /\ \A w \in Workers : wpc[w] # "appendw"
      /\ web = "rmw" => \A w \in Workers : wpc[w] # "appendw"
  BY StaysClean, Zenon DEF Halves, HeadIsMine, Clean, Alone, Apart
<1>3. \A v, w \in Workers : wpc[v] \notin {"off", "begin"} /\ wpc[w] \notin {"off", "begin"} => v = w
  BY <1>2 DEF Running
<1>4. wpc \in [Workers -> WorkerSteps] /\ DOMAIN wreg = Workers /\ DOMAIN wvid = Workers
  BY DEF Types
<1>5. ASSUME UNCHANGED <<queue, list, workVars>> PROVE WorkHalf' /\ Mine'
  BY <1>2, <1>5, Zenon
<1>6. ASSUME UNCHANGED <<list, web, wbreg, gone>> PROVE WebHalf'
  BY <1>2, <1>6, Zenon
<1>7. ASSUME UNCHANGED <<queue, list, loop, reg, job>> PROVE LoopHalf'
  BY <1>2, <1>7, Zenon
<1>8. ASSUME NEW v \in Videos, Download(v) PROVE Half' /\ Mine'
  <2>1. UNCHANGED <<queue, list, workVars, web, wbreg, gone>>
    BY <1>8, Zenon DEF Download
  <2>2. \/ loop' = "add"
        \/ loop' = "rmw" /\ Contains(list, v) /\ reg' = RemoveFirst(list, v) /\ job' = v
    BY <1>8, Zenon DEF Download
  <2> QED BY <1>5, <1>6, <2>1, <2>2, Zenon
<1>9. CASE ToggleEnableDownload \/ LoopSave
  <2>1. loop' \in {"idle", "start", "savew"} /\ UNCHANGED <<queue, list, workVars, web, wbreg, gone>>
    BY <1>9, SMT DEF ToggleEnableDownload, LoopSave
  <2>2. loop' # "addw" /\ loop' # "rmw"
    BY <2>1, SMT
  <2> QED BY <1>5, <1>6, <2>1, <2>2, Zenon
<1>10. CASE RemoveWrite
  <2>1. loop = "rmw" /\ loop' = "add" /\ UNCHANGED <<queue, workVars, web, wbreg, gone>>
    BY <1>10, Zenon DEF RemoveWrite
  <2>2. WebHalf'
    BY <1>2, <2>1, Zenon
  <2>3. WorkHalf' /\ Mine'
    BY <1>2, <2>1, Zenon
  <2>4. loop' # "addw" /\ loop' # "rmw"
    BY <2>1, SMT
  <2> QED BY <2>2, <2>3, <2>4, Zenon
<1>11. CASE AddRead
  <2>1. /\ loop' = "addw" /\ loop' # "rmw" /\ reg' = Append(queue, job) /\ job' = job
        /\ UNCHANGED <<queue, list, workVars, web, wbreg, gone>>
    BY <1>11, SMT DEF AddRead
  <2> QED BY <1>5, <1>6, <2>1, Zenon
<1>12. CASE AddWrite
  <2>1. /\ queue' = Append(queue, job) /\ queue' # <<>> /\ loop' # "addw" /\ loop' # "rmw"
        /\ UNCHANGED <<list, workVars, web, wbreg, gone>>
        /\ \A w \in Workers : wpc[w] # "popw"
    BY <1>2, <1>12, AppendProperties, SMT DEF AddWrite, Types
  <2>2. queue # <<>> => Head(queue') = Head(queue)
    BY <2>1, HeadTailAppend DEF Types
  <2>3. WorkHalf' /\ Mine'
    BY <1>2, <2>1, <2>2, Zenon
  <2> QED BY <1>6, <2>1, <2>3, Zenon
<1>13. CASE Start
  <2>1. /\ loop' # "addw" /\ loop' # "rmw" /\ UNCHANGED <<queue, list, wreg, wvid, web, wbreg, gone>>
        /\ wpc' = wpc \/ \E w \in Workers : wpc' = [wpc EXCEPT ![w] = "begin"]
    BY <1>13, SMT DEF Start
  <2>2. \A w \in Workers : wpc'[w] # "begin" => wpc'[w] = wpc[w]
    BY <1>4, <2>1, SMT
  <2>3. WorkHalf' /\ Mine'
    BY <1>2, <2>1, <2>2, SMT
  <2> QED BY <1>6, <2>1, <2>3, Zenon
<1>14. ASSUME NEW v \in Videos, WebRemoveOne(v) PROVE Half' /\ Mine'
  <2>1. /\ UNCHANGED <<queue, list, workVars, loop, reg, job>>
        /\ Contains(list, v) /\ gone' = v /\ wbreg' = RemoveFirst(list, v)
    BY <1>14, Zenon DEF WebRemoveOne
  <2> QED BY <1>5, <1>7, <2>1, Zenon
<1>15. CASE WebRemoveWrite
  <2>1. web = "rmw" /\ web' # "rmw" /\ UNCHANGED <<queue, workVars, loop, reg, job>>
    BY <1>15, SMT DEF WebRemoveWrite
  <2>2. LoopHalf'
    BY <1>2, <2>1, Zenon
  <2>3. WorkHalf' /\ Mine'
    BY <1>2, <2>1, Zenon
  <2> QED BY <2>1, <2>2, <2>3, Zenon
<1>16. ASSUME NEW w \in Workers, WorkerStep(w), UNCHANGED <<queue, list>>, WorkHalf', Mine' PROVE Half' /\ Mine'
  <2>1. UNCHANGED <<loop, reg, job, web, wbreg, gone>>
    BY <1>16, Zenon DEF WorkerStep, Begin, NextVideo, TestFiler, DownloadCmd, DoneAppend,
       DoneAppendWrite, DonePop, DonePopWrite, DonePanics, DoneSave, Post
  <2> QED BY <1>6, <1>7, <1>16, <2>1, Zenon
<1>17. ASSUME NEW w \in Workers, Begin(w) \/ TestFiler(w) \/ DownloadCmd(w) \/ DonePanics(w) \/ Post(w)
       PROVE  Half' /\ Mine'
  <2>1. UNCHANGED <<queue, list, wreg>>
    BY <1>17, Zenon DEF Begin, TestFiler, DownloadCmd, DonePanics, Post
  <2>2. \/ /\ wvid' = wvid \/ wvid' = [wvid EXCEPT ![w] = None]
           /\ \E l \in {"next", "post", "off"} : wpc' = [wpc EXCEPT ![w] = l]
        \/ /\ wvid' = wvid /\ wpc[w] \in {"test", "download"}
           /\ \E l \in {"download", "append"} : wpc' = [wpc EXCEPT ![w] = l]
    BY <1>17, Zenon DEF Begin, TestFiler, DownloadCmd, DonePanics, Post
  <2>3. WorkHalf' /\ Mine'
    BY <1>2, <1>4, <2>1, <2>2, SMT
  <2> QED BY <1>16, <1>17, <2>1, <2>3, Zenon DEF WorkerStep
<1>18. ASSUME NEW w \in Workers, NextVideo(w)
       PROVE  Half' /\ Mine'
  <2>1. UNCHANGED <<queue, list, wreg>>
    BY <1>18, Zenon DEF NextVideo
  <2>2. \/ wpc' = [wpc EXCEPT ![w] = "post"] /\ wvid' = wvid
        \/ queue # <<>> /\ wvid' = [wvid EXCEPT ![w] = Head(queue)] /\ wpc' = [wpc EXCEPT ![w] = "test"]
    BY <1>18, Zenon DEF NextVideo
  <2>3. WorkHalf' /\ Mine'
    BY <1>2, <1>4, <2>1, <2>2, SMT
  <2> QED BY <1>16, <1>18, <2>1, <2>3, Zenon DEF WorkerStep
<1>19. ASSUME NEW w \in Workers, DoneAppend(w)
       PROVE  Half' /\ Mine'
  <2>1. /\ UNCHANGED <<queue, list, wvid>> /\ queue # <<>>
        /\ wpc' = [wpc EXCEPT ![w] = "appendw"] /\ wreg' = [wreg EXCEPT ![w] = Append(list, Head(queue))]
    BY <1>19, Zenon DEF DoneAppend
  <2>2. WorkHalf' /\ Mine'
    BY <1>2, <1>4, <2>1, SMT
  <2> QED BY <1>16, <1>19, <2>1, <2>2, Zenon DEF WorkerStep
<1>20. ASSUME NEW w \in Workers, DoneAppendWrite(w)
       PROVE  Half' /\ Mine'
  <2>1. /\ wpc[w] = "appendw" /\ wpc' = [wpc EXCEPT ![w] = "pop"] /\ UNCHANGED <<queue, loop, reg, job, web>>
    BY <1>20, Zenon DEF DoneAppendWrite
  <2>2. loop' # "rmw" /\ web' # "rmw" /\ queue # <<>>
    BY <1>2, <2>1
  <2>3. \A x \in Workers : wpc'[x] \in {"off", "begin", "pop"}
    BY <1>3, <1>4, <2>1, SMT
  <2>4. WorkHalf' /\ Mine'
    BY <2>1, <2>2, <2>3, SMT
  <2>5. LoopHalf'
    BY <1>2, <2>1, <2>2, Zenon
  <2> QED BY <2>2, <2>4, <2>5, Zenon
<1>21. ASSUME NEW w \in Workers, DonePop(w)
       PROVE  Half' /\ Mine'
  <2>1. /\ UNCHANGED <<queue, list, wvid>> /\ queue # <<>>
        /\ wpc' = [wpc EXCEPT ![w] = "popw"] /\ wreg' = [wreg EXCEPT ![w] = Tail(queue)]
    BY <1>21, Zenon DEF DonePop
  <2>2. WorkHalf' /\ Mine'
    BY <1>2, <1>4, <2>1, SMT
  <2> QED BY <1>16, <1>21, <2>1, <2>2, Zenon DEF WorkerStep
<1>22. ASSUME NEW w \in Workers, DonePopWrite(w)
       PROVE  Half' /\ Mine'
  <2>1. /\ wpc[w] = "popw" /\ wpc' = [wpc EXCEPT ![w] = "save"]
        /\ UNCHANGED <<list, loop, reg, job, web, wbreg, gone>>
    BY <1>22, SMT DEF DonePopWrite
  <2>2. loop' # "addw"
    BY <1>2, <2>1
  <2>3. \A x \in Workers : wpc'[x] \in {"off", "begin", "save"}
    BY <1>3, <1>4, <2>1, SMT
  <2>4. WorkHalf' /\ Mine'
    BY <2>3, SMT
  <2>5. LoopHalf'
    BY <1>2, <2>1, <2>2, Zenon
  <2> QED BY <1>6, <2>1, <2>4, <2>5, Zenon
<1>23. ASSUME NEW w \in Workers, DoneSave(w)
       PROVE  Half' /\ Mine'
  <2>1. UNCHANGED <<queue, list, wvid>>
    BY <1>23, Zenon DEF DoneSave
  <2>2. \E l \in {"savew", "next"} : \E r : wpc' = [wpc EXCEPT ![w] = l] /\ wreg' = [wreg EXCEPT ![w] = r]
    BY <1>23, Zenon DEF DoneSave
  <2>3. WorkHalf' /\ Mine'
    BY <1>2, <1>4, <2>1, <2>2, SMT
  <2> QED BY <1>16, <1>23, <2>1, <2>3, Zenon DEF WorkerStep
<1>24. CASE UNCHANGED vars
  <2>1. UNCHANGED <<queue, list, loop, reg, job, web, wbreg, gone, workVars>>
    BY <1>24 DEF vars
  <2> QED BY <1>5, <1>6, <1>7, <2>1, Zenon
<1> QED BY <1>1, <1>8, <1>9, <1>10, <1>11, <1>12, <1>13, <1>14, <1>15, <1>17, <1>18, <1>19, <1>20, <1>21,
           <1>22, <1>23, <1>24, Zenon DEF Next, LoopStep, WorkerStep

\* Covers looks only at what the lists hold, and at what the page removed.
LEMMA CoversAgain ==
  ASSUME NEW f, Covers(f), UNCHANGED <<memory, unsaved>>
  PROVE  Covers(f)'
<1>1. Snapshot' = Snapshot
  BY Zenon DEF Snapshot, RecordsOf, memory
<1> QED BY <1>1, Zenon DEF Covers

\* The file covers what the lists hold, or somebody is on the way to write it (Saved).
LEMMA NextSaved ==
  Types /\ Alone /\ Apart /\ Apart' /\ Halves /\ FilesAgree /\ Saved /\ [Next]_vars => Saved'
<1> DEFINE Good == /\ loop = "savew" => Covers(reg)
                   /\ \A w \in Workers : wpc[w] = "savew" => Covers(wreg[w])
                   /\ ~Behind /\ ~broken => Covers(file)
<1> SUFFICES ASSUME Types, Alone, Apart, Apart', Halves, FilesAgree, Saved, [Next]_vars,
                    Clean', "saves" \notin mixed'
             PROVE  Good'
  BY Zenon DEF Saved
<1> USE DEF loopVars, webVars, workVars, saveVars, histVars, counters, LoopAt, WebAt, WorkerAt
<1>1. CASE CrashAndReload
  <2>1. /\ loop' = "idle" /\ wpc' = [w \in Workers |-> "off"] /\ file' \in {file, <<>>}
        /\ list' = LoadedList(file') /\ queue' = LoadedQueue(file')
        /\ dated' = {file'[i][1] : i \in {j \in 1..Len(file') : file'[j][2]}}
    BY <1>1, SMT DEF CrashAndReload
  <2>2. Snapshot' = SnapshotOf(list', queue', dated')
    BY Zenon DEF Snapshot, SnapshotOf, RecordsOf
  <2>3. file' \in Seq(Records) /\ Consistent(file')
    <3>1. <<>> \in Seq(Records) /\ Consistent(<<>>)
      BY EmptySeq, SMT DEF Consistent
    <3> QED BY <2>1, <3>1, Zenon DEF Types, FilesAgree
  <2>4. ToSet(Snapshot') = ToSet(file')
    BY <2>1, <2>2, <2>3, ReloadKeepsRecords, Zenon DEF Records
  <2>5. loop' # "savew" /\ \A w \in Workers : wpc'[w] # "savew"
    BY <2>1, SMT
  <2>6. Covers(file)'
    BY <2>4, Zenon DEF Covers
  <2> QED BY <2>5, <2>6, Zenon
<1>2. CASE ~CrashAndReload
  <2>1. /\ Good /\ \A v, w \in Running : v = w
        /\ \A w \in Workers : wpc[w] \in {"pop", "popw"} => queue # <<>>
        /\ web = "rmw" => wbreg = RemoveFirst(list, gone)
        /\ loop \in Saving => \A w \in Workers : wpc[w] \notin Updating
        /\ loop' \in Saving => \A w \in Workers : wpc'[w] \notin Updating
    <3>1. Clean /\ "saves" \notin mixed
      BY StaysClean, Zenon
    <3> QED BY <3>1, Zenon DEF Saved, Halves, Clean, Alone, Apart
  <2>2. \A v, w \in Workers : wpc[v] \notin {"off", "begin"} /\ wpc[w] \notin {"off", "begin"} => v = w
    BY <2>1 DEF Running
  <2>a. wpc \in [Workers -> WorkerSteps] /\ DOMAIN wreg = Workers
    BY DEF Types
  <2>3. Covers(Snapshot)
    BY Zenon DEF Covers
  <2>4. ASSUME loop' \in Saving, loop' # "savew" PROVE Good'
    <3>1. Behind' /\ \A w \in Workers : wpc'[w] # "savew"
      BY <2>1, <2>4, SMT DEF Behind, Updating
    <3> QED BY <2>4, <3>1, Zenon
  <2>5. ASSUME NEW data, Covers(data), WriteFile(data), UNCHANGED memory
        PROVE  ~broken' => Covers(file)'
    <3>1. (file' = data /\ unsaved' = unsaved) \/ broken'
      BY <2>5, Zenon DEF WriteFile
    <3>2. Covers(data)' \/ broken'
      BY <2>5, <3>1, CoversAgain, Zenon
    <3> QED BY <3>1, <3>2, Zenon DEF Covers
  <2>6. ASSUME NEW v \in Videos, Download(v) PROVE Good'
    <3>1. loop' \in {"rmw", "add"}
      BY <2>6, SMT DEF Download
    <3> QED BY <2>4, <3>1, SMT DEF Saving
  <2>7. ASSUME \/ ToggleEnableDownload \/ \E v \in Videos : WebRemoveOne(v)
               \/ UNCHANGED vars
        PROVE  Good'
    <3>1. /\ UNCHANGED <<memory, file, reg, workVars, unsaved, broken>>
          /\ loop' = loop \/ (loop = "idle" /\ loop' \in {"start", "idle"})
      <4>1. CASE ToggleEnableDownload
        BY <4>1, Zenon DEF ToggleEnableDownload
      <4>2. CASE UNCHANGED vars
        BY <4>2 DEF vars, memory
      <4>3. CASE \E v \in Videos : WebRemoveOne(v)
        BY <4>3, Zenon DEF WebRemoveOne
      <4> QED BY <2>7, <4>1, <4>2, <4>3, Zenon
    <3>2. Behind' = Behind /\ (loop' = "savew" => loop = "savew")
      BY <3>1, SMT DEF Behind, Saving
    <3>3. \A f : Covers(f) => Covers(f)'
      BY <3>1, CoversAgain, Zenon
    <3> QED BY <2>1, <3>1, <3>2, <3>3, Zenon DEF Covers
  <2>8. CASE RemoveWrite \/ AddRead \/ AddWrite
    <3>1. loop' \in {"add", "addw", "save"}
      BY <2>8, SMT DEF RemoveWrite, AddRead, AddWrite
    <3> QED BY <2>4, <3>1, SMT DEF Saving
  <2>9. CASE LoopSave
    <3>1. UNCHANGED <<memory, workVars>>
      BY <2>9, Zenon DEF LoopSave
    <3>2. CASE loop = "save"
      <4>1. loop' = "savew" /\ reg' = Snapshot
        BY <2>9, <3>2, SMT DEF LoopSave
      <4>2. Behind' /\ \A w \in Workers : wpc'[w] # "savew"
        BY <2>1, <4>1, SMT DEF Behind, Saving, Updating
      <4>3. Covers(reg)'
        <5>1. Snapshot' = reg'
          BY <3>1, <4>1, Zenon DEF Snapshot, RecordsOf, memory
        <5> QED BY <5>1, Zenon DEF Covers
      <4> QED BY <4>2, <4>3, Zenon
    <3>3. CASE loop = "savew"
      <4>1. loop' = "start" /\ loop' # "savew" /\ WriteFile(reg)
        BY <2>9, <3>3, SMT DEF LoopSave
      <4>2. ~broken' => Covers(file)'
        BY <2>1, <2>5, <3>1, <3>3, <4>1, Zenon
      <4>3. \A w \in Workers : wpc'[w] # "savew"
        BY <2>1, <3>1, <3>3, SMT DEF Saving, Updating
      <4> QED BY <4>1, <4>2, <4>3, Zenon
    <3> QED BY <2>9, <3>2, <3>3, Zenon DEF LoopSave
  <2>10. CASE Start
    <3>1. /\ loop = "start" /\ loop' = "idle" /\ UNCHANGED <<memory, file, wreg, unsaved, broken>>
          /\ wpc' = wpc \/ \E w \in Workers : wpc[w] = "off" /\ wpc' = [wpc EXCEPT ![w] = "begin"]
      BY <2>10, Zenon DEF Start
    <3>2. /\ ~Behind' => ~Behind
          /\ loop' # "savew"
          /\ \A w \in Workers : wpc'[w] = "savew" => wpc[w] = "savew"
      BY <3>1, SMT DEF Behind, Saving, Types
    <3>3. \A f : Covers(f) => Covers(f)'
      BY <3>1, CoversAgain, Zenon
    <3> QED BY <2>1, <3>1, <3>2, <3>3, Zenon DEF Covers
  <2>11. CASE WebRemoveWrite
    <3>1. /\ UNCHANGED <<queue, dated, file, loop, reg, wpc, wreg, broken>>
          /\ list' = RemoveFirst(list, gone) /\ unsaved' = unsaved \cup {gone}
      BY <2>1, <2>11, Zenon DEF WebRemoveWrite
    <3>2. Behind' = Behind
      BY <3>1, Zenon DEF Behind
    <3>3. /\ ToSet(Snapshot) = {<<v, v \in dated>> : v \in ToSet(list) \cup ToSet(queue)}
          /\ ToSet(Snapshot') = {<<v, v \in dated>> : v \in ToSet(list') \cup ToSet(queue)}
      <4>1. queue \in Seq(Videos) /\ list \in Seq(Videos) /\ list' \in Seq(Videos)
        BY <3>1, RemovedFirst DEF Types
      <4>2. Snapshot = SnapshotOf(list, queue, dated) /\ Snapshot' = SnapshotOf(list', queue, dated)
        BY <3>1, Zenon DEF Snapshot, SnapshotOf, RecordsOf
      <4> QED BY <4>1, <4>2, SnapshotVideos
    <3>4. /\ ToSet(list') \subseteq ToSet(list)
          /\ ToSet(list) \subseteq ToSet(list') \cup {gone}
      BY <3>1, RemovedFirst DEF Types
    <3>5. ToSet(Snapshot') \subseteq ToSet(Snapshot)
      BY <3>3, <3>4, Zenon
    <3>6. ASSUME NEW e \in ToSet(Snapshot), e \notin ToSet(Snapshot') PROVE e[1] \in unsaved'
      <4>1. PICK v \in ToSet(list) \cup ToSet(queue) : e = <<v, v \in dated>>
        BY <3>3, Zenon
      <4>2. v \notin ToSet(list') \cup ToSet(queue)
        BY <3>3, <3>6, <4>1, Zenon
      <4>3. v = gone
        BY <3>4, <4>1, <4>2, Zenon
      <4> QED BY <3>1, <4>1, <4>3
    <3>7. ASSUME NEW f, Covers(f) PROVE Covers(f)'
      <4>1. ToSet(Snapshot) \subseteq ToSet(f) /\ \A e \in ToSet(f) \ ToSet(Snapshot) : e[1] \in unsaved
        BY <3>7, Zenon DEF Covers
      <4>2. ToSet(Snapshot') \subseteq ToSet(f)
        BY <3>5, <4>1, Zenon
      <4>3. \A e \in ToSet(f) \ ToSet(Snapshot') : e[1] \in unsaved'
        BY <3>1, <3>6, <4>1, Zenon
      <4> QED BY <4>2, <4>3, Zenon DEF Covers
    <3> QED BY <2>1, <3>1, <3>2, <3>7, Zenon DEF Covers
  <2>12. ASSUME NEW w \in Workers,
                Begin(w) \/ NextVideo(w) \/ TestFiler(w) \/ DownloadCmd(w) \/ DonePanics(w) \/ Post(w)
         PROVE  Good'
    <3>1. UNCHANGED <<memory, file, loop, reg, wreg, unsaved, broken>>
      BY <2>12, Zenon DEF Begin, NextVideo, TestFiler, DownloadCmd, DonePanics, Post
    <3>2. /\ wpc[w] \in {"begin", "next", "test", "download", "append", "post"}
          /\ \E l \in {"next", "post", "test", "download", "append", "off"} : wpc' = [wpc EXCEPT ![w] = l]
      <4>1. ~(wpc[w] = "pop" /\ queue = <<>>)
        BY <2>1
      <4> QED BY <2>12, <4>1, Zenon DEF Begin, NextVideo, TestFiler, DownloadCmd, DonePanics, Post
    <3>3. /\ \A x \in Workers : wpc'[x] = "savew" => wpc[x] = "savew"
          /\ Behind' = Behind
      BY <3>1, <3>2, SMT DEF Behind, Saving, Types
    <3>4. \A f : Covers(f) => Covers(f)'
      BY <3>1, CoversAgain, Zenon
    <3> QED BY <2>1, <3>1, <3>3, <3>4, Zenon DEF Covers
  <2>13. ASSUME NEW w \in Workers, DoneAppend(w) \/ DoneAppendWrite(w) \/ DonePop(w) \/ DonePopWrite(w)
         PROVE  Good'
    <3>1. /\ loop' = loop /\ wpc[w] \in {"append", "appendw", "pop", "popw"}
          /\ \E l \in {"appendw", "pop", "popw", "save"} : wpc' = [wpc EXCEPT ![w] = l]
      BY <2>13, Zenon DEF DoneAppend, DoneAppendWrite, DonePop, DonePopWrite
    <3>2. Behind' /\ \A x \in Workers : wpc'[x] # "savew"
      BY <2>2, <2>a, <3>1, SMT DEF Behind
    <3>3. loop' # "savew"
      BY <2>1, <3>1, SMT DEF Saving, Updating
    <3> QED BY <3>2, <3>3, Zenon
  <2>14. ASSUME NEW w \in Workers, DoneSave(w)
         PROVE  Good'
    <3>1. UNCHANGED <<memory, loopVars>> /\ wpc[w] \in {"save", "savew"}
      BY <2>14, Zenon DEF DoneSave
    <3>2. loop' # "savew"
      BY <2>1, <3>1, SMT DEF Saving, Updating
    <3>3. CASE wpc[w] = "save"
      <4>1. wreg' = [wreg EXCEPT ![w] = Snapshot] /\ wpc' = [wpc EXCEPT ![w] = "savew"]
        BY <2>14, <3>3, SMT DEF DoneSave
      <4>2. /\ \A x \in Workers : wpc'[x] = "savew" => x = w
            /\ wreg'[w] = Snapshot /\ wpc'[w] = "savew"
        BY <2>2, <2>a, <3>3, <4>1, SMT
      <4>3. Behind'
        BY <4>2, Zenon DEF Behind
      <4>4. Covers(wreg[w])'
        <5>1. Snapshot' = wreg'[w]
          BY <3>1, <4>2, Zenon DEF Snapshot, RecordsOf, memory
        <5> QED BY <5>1, Zenon DEF Covers
      <4> QED BY <3>2, <4>2, <4>3, <4>4, Zenon
    <3>4. CASE wpc[w] = "savew"
      <4>1. WriteFile(wreg[w]) /\ wpc' = [wpc EXCEPT ![w] = "next"]
        BY <2>14, <3>4, SMT DEF DoneSave
      <4>2. \A x \in Workers : wpc'[x] # "savew"
        BY <2>2, <2>a, <3>4, <4>1, SMT
      <4>3. ~broken' => Covers(file)'
        BY <2>1, <2>5, <3>1, <3>4, <4>1, Zenon
      <4> QED BY <3>2, <4>2, <4>3, Zenon
    <3> QED BY <3>1, <3>3, <3>4, Zenon
  <2> QED BY <1>2, <2>6, <2>7, <2>8, <2>9, <2>10, <2>11, <2>12, <2>13, <2>14,
             Zenon DEF Next, LoopStep, WorkerStep
<1> QED BY <1>1, <1>2

\* What is marshalled is the order of the videos, and so is what is written (Stored).
LEMMA NextStored ==
  Types /\ Alone /\ Apart /\ Stored /\ InOrder /\ [Next]_vars => Stored'
<1> DEFINE Good == /\ file = stored
                   /\ loop = "savew" => reg = marshalled
                   /\ \A w \in Workers : wpc[w] = "savew" => wreg[w] = marshalled
<1> SUFFICES ASSUME Types, Alone, Apart, Stored, InOrder, [Next]_vars, Clean', "saves" \notin mixed'
             PROVE  Good'
  BY Zenon DEF Stored
<1> USE DEF loopVars, webVars, workVars, saveVars, histVars, counters, LoopAt, WebAt, WorkerAt
<1>1. /\ Good /\ list \o Remaining = order
      /\ \A v, w \in Running : v = w
      /\ loop \in Saving => \A w \in Workers : wpc[w] \notin Updating
  BY StaysClean, Zenon DEF Stored, InOrder, Clean, Alone, Apart
<1>2. \A v, w \in Workers : wpc[v] \notin {"off", "begin"} /\ wpc[w] \notin {"off", "begin"} => v = w
  BY <1>1 DEF Running
<1>3. wpc \in [Workers -> WorkerSteps] /\ DOMAIN wreg = Workers
  BY DEF Types
<1>4. ASSUME \A w \in Workers : wpc[w] \notin {"pop", "popw"} PROVE Snapshot = RecordsOf(order)
  <2>1. Remaining = queue
    BY <1>4, Zenon DEF Remaining
  <2> QED BY <1>1, <2>1, Zenon DEF Snapshot
<1>5. CASE CrashAndReload
  <2>1. /\ loop' = "idle" /\ wpc' = [w \in Workers |-> "off"]
        /\ \/ file' = file /\ stored' = stored
           \/ file' = <<>> /\ stored' = <<>>
    BY <1>5, Zenon DEF CrashAndReload
  <2> QED BY <1>1, <2>1, SMT
<1>6. CASE LoopSave
  <2>1. loop \in {"save", "savew"} /\ UNCHANGED workVars /\ \A w \in Workers : wpc[w] \notin Updating
    BY <1>1, <1>6, SMT DEF LoopSave, Saving
  <2>2. \A w \in Workers : wpc'[w] # "savew" /\ wpc[w] \notin {"pop", "popw"}
    BY <2>1, SMT DEF Updating
  <2>3. CASE loop = "save"
    <3>1. reg' = Snapshot /\ file' = file /\ marshalled' = RecordsOf(order) /\ stored' = stored
      BY <1>6, <2>3, SMT DEF LoopSave, Marshal
    <3> QED BY <1>1, <1>4, <2>2, <3>1, Zenon
  <2>4. CASE loop = "savew"
    <3>1. loop' # "savew" /\ WriteFile(reg)
      BY <1>6, <2>4, SMT DEF LoopSave
    <3>2. file' = stored'
      BY <1>1, <2>4, <3>1, Zenon DEF WriteFile
    <3> QED BY <2>2, <3>1, <3>2, Zenon
  <2> QED BY <2>1, <2>3, <2>4, SMT
<1>7. ASSUME NEW w \in Workers, DoneSave(w) PROVE Good'
  <2>1. wpc[w] \in {"save", "savew"} /\ UNCHANGED loopVars
    BY <1>7, SMT DEF DoneSave
  <2>2. loop' # "savew" /\ \A x \in Workers : wpc[x] \notin {"pop", "popw"}
    BY <1>1, <1>2, <2>1, SMT DEF Saving, Updating
  <2>3. CASE wpc[w] = "save"
    <3>1. /\ wreg' = [wreg EXCEPT ![w] = Snapshot] /\ wpc' = [wpc EXCEPT ![w] = "savew"]
          /\ file' = file /\ marshalled' = RecordsOf(order) /\ stored' = stored
      BY <1>7, <2>3, SMT DEF DoneSave, Marshal
    <3>2. \A x \in Workers : wpc'[x] = "savew" => wreg'[x] = Snapshot
      BY <1>2, <1>3, <2>3, <3>1, SMT
    <3> QED BY <1>1, <1>4, <2>2, <3>1, <3>2, Zenon
  <2>4. CASE wpc[w] = "savew"
    <3>1. WriteFile(wreg[w]) /\ wpc' = [wpc EXCEPT ![w] = "next"]
      BY <1>7, <2>4, SMT DEF DoneSave
    <3>2. \A x \in Workers : wpc'[x] # "savew"
      BY <1>2, <1>3, <2>4, <3>1, SMT
    <3>3. file' = stored'
      BY <1>1, <2>4, <3>1, Zenon DEF WriteFile
    <3> QED BY <2>2, <3>2, <3>3, Zenon
  <2> QED BY <2>1, <2>3, <2>4, SMT
<1>8. ASSUME NEW w \in Workers, WorkerStep(w), ~DoneSave(w) PROVE Good'
  <2>1. UNCHANGED <<file, loopVars, stored, marshalled>>
    BY <1>8, Zenon DEF WorkerStep, Begin, NextVideo, TestFiler, DownloadCmd, DoneAppend,
       DoneAppendWrite, DonePop, DonePopWrite, DonePanics, Post
  <2>2. /\ \E l \in {"post", "test", "download", "append", "appendw", "pop", "popw", "save", "next", "off"} :
             wpc' = [wpc EXCEPT ![w] = l]
        /\ wreg' = wreg \/ \E r : wreg' = [wreg EXCEPT ![w] = r]
    BY <1>8, Zenon DEF WorkerStep, Begin, NextVideo, TestFiler, DownloadCmd, DoneAppend,
       DoneAppendWrite, DonePop, DonePopWrite, DonePanics, Post
  <2>3. \A x \in Workers : wpc'[x] = "savew" => wpc[x] = "savew" /\ wreg'[x] = wreg[x]
    BY <1>3, <2>2, SMT
  <2> QED BY <1>1, <2>1, <2>3, Zenon
<1>9. ASSUME \/ \E v \in Videos : Download(v) \/ WebRemoveOne(v)
             \/ ToggleEnableDownload \/ RemoveWrite \/ AddRead \/ AddWrite \/ WebRemoveWrite
             \/ UNCHANGED vars
      PROVE  Good'
  <2>1. /\ UNCHANGED <<file, workVars, stored, marshalled>>
        /\ loop' \in {"idle", "rmw", "add", "addw", "save", "start"} \/ UNCHANGED <<loop, reg>>
    BY <1>9, Zenon DEF Download, WebRemoveOne, ToggleEnableDownload, RemoveWrite, AddRead, AddWrite,
       WebRemoveWrite, vars
  <2>2. loop' = "savew" => loop = "savew" /\ reg' = reg
    BY <2>1, SMT
  <2> QED BY <1>1, <2>1, <2>2, Zenon
<1>10. CASE Start
  <2>1. /\ loop' # "savew" /\ UNCHANGED <<file, wreg, stored, marshalled>>
        /\ wpc' = wpc \/ \E w \in Workers : wpc' = [wpc EXCEPT ![w] = "begin"]
    BY <1>10, SMT DEF Start
  <2>2. \A x \in Workers : wpc'[x] = "savew" => wpc[x] = "savew"
    BY <1>3, <2>1, SMT
  <2> QED BY <1>1, <2>1, <2>2, Zenon
<1> QED BY <1>5, <1>6, <1>7, <1>8, <1>9, <1>10, Zenon DEF Next, LoopStep

\* The done list and what remains of the queue are the videos in order (InOrder).
LEMMA NextInOrder ==
  Types /\ Alone /\ Halves /\ Stored /\ InOrder /\ [Next]_vars => InOrder'
<1> SUFFICES ASSUME Types, Alone, Halves, Stored, InOrder, [Next]_vars,
                    Clean', crashed' => "saves" \notin mixed'
             PROVE  list' \o Remaining' = order'
  BY Zenon DEF InOrder
<1> USE DEF memory, loopVars, webVars, workVars, saveVars, histVars, counters, LoopAt, WebAt, WorkerAt
<1> DEFINE popping == \E w \in Workers : wpc[w] \in {"pop", "popw"}
<1>1. /\ Remaining = IF popping THEN Tail(queue) ELSE queue
      /\ Remaining' = IF popping' THEN Tail(queue') ELSE queue'
  BY Zenon DEF Remaining
<1>2. CASE CrashAndReload
  <2>1. "saves" \notin mixed /\ Clean
    BY <1>2, StaysClean, Zenon DEF CrashAndReload
  <2>2. file' = stored' /\ wpc' = [w \in Workers |-> "off"] /\ order' = list' \o queue'
    <3>1. file = stored
      BY <2>1, Zenon DEF Stored
    <3> QED BY <1>2, <3>1, Zenon DEF CrashAndReload
  <2>3. ~popping'
    BY <2>2, SMT
  <2> QED BY <1>1, <2>2, <2>3, Zenon
<1>3. CASE ~CrashAndReload
  <2>0. crashed' = crashed
    BY <1>3, Zenon DEF Next, LoopStep, WorkerStep, Download, WebRemoveOne, ToggleEnableDownload, Event,
       RemoveWrite, AddRead, AddWrite, LoopSave, Start, WebRemoveWrite, Begin, NextVideo, TestFiler,
       DownloadCmd, DoneAppend, DoneAppendWrite, DonePop, DonePopWrite, DonePanics, DoneSave, Post, vars
  <2>1. /\ list \o Remaining = order
        /\ \A v, w \in Running : v = w
        /\ loop = "addw" => reg = Append(queue, job)
        /\ loop = "rmw" => Contains(list, job) /\ reg = RemoveFirst(list, job)
        /\ web = "rmw" => Contains(list, gone) /\ wbreg = RemoveFirst(list, gone)
        /\ \A w \in Workers : wpc[w] \in {"appendw", "pop", "popw"} => queue # <<>>
        /\ \A w \in Workers : wpc[w] = "appendw" => wreg[w] = Append(list, Head(queue))
        /\ \A w \in Workers : wpc[w] = "popw" => wreg[w] = Tail(queue)
    BY <2>0, StaysClean, Zenon DEF InOrder, Clean, Alone, Halves
  <2>2. \A v, w \in Workers : wpc[v] \notin {"off", "begin"} /\ wpc[w] \notin {"off", "begin"} => v = w
    BY <2>1 DEF Running
  <2>3. /\ queue \in Seq(Videos) /\ list \in Seq(Videos) /\ order \in Seq(Videos)
        /\ popping => queue # <<>>
        /\ Remaining \in Seq(Videos)
    <3>1. queue # <<>> => Tail(queue) \in Seq(Videos)
      BY HeadTailProperties DEF Types
    <3> QED BY <1>1, <2>1, <3>1, Zenon DEF Types
  <2>4. ASSUME popping' = popping, UNCHANGED queue PROVE Remaining' = Remaining
    BY <1>1, <2>4, Zenon
  <2>5. wpc \in [Workers -> WorkerSteps] /\ (loop = "addw" => job \in Videos)
    BY Zenon DEF Types
  <2>6. ASSUME UNCHANGED <<wpc, queue>>,
               NEW v, Contains(list, v), list' = RemoveFirst(list, v), order' = RemoveFirst(order, v)
        PROVE  list' \o Remaining' = order'
    <3>1. Remaining' = Remaining
      BY <2>4, <2>6, Zenon
    <3>2. RemoveFirst(list \o Remaining, v) = RemoveFirst(list, v) \o Remaining
      BY <2>3, <2>6, RemoveFirstOfConcat
    <3> QED BY <2>1, <2>6, <3>1, <3>2, Zenon
  <2>7. CASE RemoveWrite
    <3>1. /\ UNCHANGED <<wpc, queue>> /\ loop = "rmw" /\ list' = reg /\ order' = RemoveFirst(order, job)
      BY <2>7, Zenon DEF RemoveWrite
    <3> QED BY <2>1, <2>6, <3>1, Zenon
  <2>8. CASE WebRemoveWrite
    <3>1. /\ UNCHANGED <<wpc, queue>> /\ web = "rmw" /\ list' = wbreg /\ order' = RemoveFirst(order, gone)
      BY <2>8, Zenon DEF WebRemoveWrite
    <3> QED BY <2>1, <2>6, <3>1, Zenon
  <2>9. CASE AddWrite
    <3>1. /\ queue' = Append(queue, job) /\ order' = Append(order, job) /\ list' = list /\ job \in Videos
          /\ wpc' = wpc
      BY <2>1, <2>5, <2>9, Zenon DEF AddWrite
    <3>2. Remaining' = Append(Remaining, job)
      <4>1. queue # <<>> => Tail(Append(queue, job)) = Append(Tail(queue), job)
        BY <2>3, HeadTailAppend
      <4>2. popping' = popping
        BY <3>1, Zenon
      <4> QED BY <1>1, <2>3, <3>1, <4>1, <4>2, Zenon
    <3>3. list \o Append(Remaining, job) = Append(list \o Remaining, job)
      <4>1. Append(Remaining, job) = Remaining \o <<job>>
        BY <2>3, <3>1, AppendIsConcat
      <4>2. list \o Remaining \in Seq(Videos)
        BY <2>3, ConcatProperties
      <4>3. Append(list \o Remaining, job) = (list \o Remaining) \o <<job>>
        BY <3>1, <4>2, AppendIsConcat
      <4>4. <<job>> \in Seq(Videos)
        BY <3>1, SMT
      <4>5. (list \o Remaining) \o <<job>> = list \o (Remaining \o <<job>>)
        BY <2>3, <4>4, ConcatAssociative
      <4> QED BY <4>1, <4>3, <4>5, Zenon
    <3> QED BY <2>1, <3>1, <3>2, <3>3, Zenon
  <2>10. ASSUME \/ \E v \in Videos : Download(v) \/ WebRemoveOne(v)
                \/ ToggleEnableDownload \/ AddRead \/ LoopSave \/ UNCHANGED vars
         PROVE  list' \o Remaining' = order'
    <3>1. wpc' = wpc /\ UNCHANGED <<queue, list, order>>
      BY <2>10, Zenon DEF Download, WebRemoveOne, ToggleEnableDownload, AddRead, LoopSave, vars
    <3>2. popping' = popping
      BY <3>1, Zenon
    <3> QED BY <2>1, <2>4, <3>1, <3>2, Zenon
  <2>11. CASE Start
    <3>1. /\ UNCHANGED <<queue, list, order>>
          /\ wpc' = wpc \/ \E w \in Workers : wpc[w] = "off" /\ wpc' = [wpc EXCEPT ![w] = "begin"]
      BY <2>11, Zenon DEF Start
    <3>2. popping' <=> popping
      BY <2>5, <3>1, SMT
    <3> QED BY <1>1, <2>1, <3>1, <3>2, Zenon
  <2>12. ASSUME NEW w \in Workers,
                \/ Begin(w) \/ NextVideo(w) \/ TestFiler(w) \/ DownloadCmd(w) \/ DoneAppend(w)
                \/ DonePop(w) \/ DonePanics(w) \/ DoneSave(w) \/ Post(w)
         PROVE  list' \o Remaining' = order'
    <3>1. UNCHANGED <<queue, list, order>>
      BY <2>12, Zenon DEF Begin, NextVideo, TestFiler, DownloadCmd, DoneAppend, DonePop, DonePanics,
         DoneSave, Post
    <3>2. \/ /\ wpc[w] \in {"begin", "next", "test", "download", "append", "save", "savew", "post"}
             /\ \E l \in {"next", "post", "test", "download", "append", "appendw", "savew", "off"} :
                  wpc' = [wpc EXCEPT ![w] = l]
          \/ wpc[w] = "pop" /\ wpc' = [wpc EXCEPT ![w] = "popw"]
      <4>1. ~(wpc[w] = "pop" /\ queue = <<>>)
        BY <2>1
      <4> QED BY <2>12, <4>1, Zenon DEF Begin, NextVideo, TestFiler, DownloadCmd, DoneAppend, DonePop,
              DonePanics, DoneSave, Post
    <3>3. popping' <=> popping
      BY <2>5, <3>2, SMT
    <3> QED BY <1>1, <2>1, <3>1, <3>3, Zenon
  <2>13. ASSUME NEW w \in Workers, DoneAppendWrite(w) PROVE list' \o Remaining' = order'
    <3>1. /\ wpc[w] = "appendw" /\ queue' = queue /\ list' = wreg[w]
          /\ order' = order /\ wpc' = [wpc EXCEPT ![w] = "pop"]
      BY <2>13, Zenon DEF DoneAppendWrite
    <3>2. queue # <<>> /\ list' = Append(list, Head(queue))
      BY <2>1, <3>1, Zenon
    <3>3. ~popping
      BY <2>2, <3>1, SMT
    <3>4. popping'
      BY <2>5, <3>1, SMT
    <3>5. Append(list, Head(queue)) \o Tail(queue) = list \o queue
      BY <2>3, <3>2, MoveHead
    <3> QED BY <1>1, <2>1, <3>1, <3>2, <3>3, <3>4, <3>5, Zenon
  <2>14. ASSUME NEW w \in Workers, DonePopWrite(w) PROVE list' \o Remaining' = order'
    <3>1. /\ wpc[w] = "popw" /\ queue' = wreg[w] /\ UNCHANGED <<list, order>>
          /\ wpc' = [wpc EXCEPT ![w] = "save"]
      BY <2>14, Zenon DEF DonePopWrite
    <3>2. popping
      BY <3>1, SMT
    <3>3. ~popping'
      BY <2>2, <2>5, <3>1, SMT
    <3> QED BY <1>1, <2>1, <3>1, <3>2, <3>3, Zenon
  <2> QED BY <1>3, <2>7, <2>8, <2>9, <2>10, <2>11, <2>12, <2>13, <2>14, Zenon
          DEF Next, LoopStep, WorkerStep
<1> QED BY <1>2, <1>3

(***************************************************************************)
(* The theorems.                                                           *)
(***************************************************************************)
LEMMA InitVInv == Init => VInv
<1> SUFFICES ASSUME Init PROVE VInv
  OBVIOUS
<1> DEFINE n == Cardinality(dated)
<1>1. n \in Nat /\ dated \subseteq Videos
  BY ConstantsAssumption, FS_Subset, FS_CardinalityType DEF Init
<1>2. \E f \in [1..n -> dated] : IsInjective(f)
  <2>1. ExistsBijection(1..n, dated)
    BY ConstantsAssumption, FS_Subset, FS_CardinalityType DEF Init
  <2> QED BY <2>1, Zenon DEF ExistsBijection, Bijection, Injection
<1>3. list \in [1..n -> dated]
  BY <1>2, Zenon DEF Init, SetToSeq
<1> HIDE DEF n
<1>4. list \in Seq(Videos) /\ <<>> \in Seq(Videos) /\ <<>> \in Seq(Records)
  <2>1. list \in [1..n -> Videos]
    BY <1>1, <1>3
  <2>2. list \in UNION {[1..m -> Videos] : m \in Nat}
    BY <1>1, <2>1
  <2> QED BY <2>2, SeqDef, EmptySeq, Zenon
<1>5. list \o queue = list
  BY <1>4, ConcatEmptySeq DEF Init
<1>6. Snapshot = file
  BY <1>5, Zenon DEF Snapshot, Init
<1>7. Types
  <2>1. queue \in Seq(Videos) /\ order \in Seq(Videos)
    BY <1>4 DEF Init
  <2>2. file \in Seq(Records)
    BY <1>4, <1>6, <2>1, SnapshotType
  <2>3. /\ loop = "idle" /\ web = "idle" /\ wpc = [w \in Workers |-> "off"]
        /\ wreg = [w \in Workers |-> <<>>] /\ wvid = [w \in Workers |-> None]
        /\ stored = file /\ marshalled = <<>>
    BY Zenon DEF Init
  <2> QED BY <1>1, <1>4, <2>1, <2>2, <2>3, SMT DEF Types, LoopSteps, WorkerSteps
<1>8. Alone /\ Apart /\ Halves /\ HeadIsMine
  BY SMT DEF Init, Alone, Running, Apart, Saving, Halves, HeadIsMine
<1>9. FilesAgree
  <2>1. Consistent(file)
    BY <1>6, <1>7, SnapshotType DEF Types
  <2> QED BY <2>1, SMT DEF Init, FilesAgree
<1>10. Saved /\ Stored
  <2>1. Covers(file)
    BY <1>6, Zenon DEF Covers
  <2> QED BY <2>1, SMT DEF Init, Saved, Stored
<1>11. InOrder
  <2>1. Remaining = queue
    BY SMT DEF Remaining, Init
  <2> QED BY <1>5, <2>1, Zenon DEF InOrder, Init
<1> QED BY <1>7, <1>8, <1>9, <1>10, <1>11, Zenon DEF VInv

LEMMA NextVInv == VInv /\ [Next]_vars => VInv'
<1> SUFFICES ASSUME VInv, [Next]_vars PROVE VInv'
  OBVIOUS
<1>1. Types' /\ Alone' /\ Apart' /\ FilesAgree'
  BY NextTypes, NextAlone, NextApart, NextFilesAgree, Zenon DEF VInv
<1>2. Halves' /\ HeadIsMine'
  BY NextHalves, Zenon DEF VInv
<1>3. Saved'
  BY <1>1, NextSaved, Zenon DEF VInv
<1>4. Stored' /\ InOrder'
  BY NextStored, NextInOrder, Zenon DEF VInv
<1> QED BY <1>1, <1>2, <1>3, <1>4, Zenon DEF VInv

LEMMA SpecVInv == Spec => []VInv
BY InitVInv, NextVInv, PTL DEF Spec

\* A worker that runs alone marks the video it downloaded: the head of the queue is its
\* own until it has moved it (Manager.Start, HistoryVideo.Done).
THEOREM DoneMarksTheRightVideo == Spec => []HeadIsMine
<1>1. VInv => HeadIsMine
  BY DEF VInv
<1> QED BY <1>1, SpecVInv, PTL

\* Once everything has come to rest, the file holds the videos of both lists with their
\* dates, and besides only what the web page removed since the last save, if that save did
\* not fail and did not overlap an update of the other side (HistoryVideo.save, Remove).
THEOREM FileHoldsTheLists == Spec => []SavedWhenQuiet
<1>1. VInv => SavedWhenQuiet
  <2> SUFFICES ASSUME VInv, Clean, "saves" \notin mixed, ~broken, Quiet PROVE Covers(file)
    BY Zenon DEF SavedWhenQuiet
  <2>1. ~Behind
    BY SMT DEF Quiet, Behind, Saving
  <2> QED BY <2>1, Zenon DEF VInv, Saved
<1> QED BY <1>1, SpecVInv, PTL

\* Until updates of a slice overlap, the done list and what remains of the queue are the
\* enqueued videos in their order, less those removed; after a crash they are those of the
\* last save that wrote the file (HistoryVideo.Add, Done, Remove, save and load).
THEOREM QueueKeepsItsOrder == Spec => []InOrder
<1>1. VInv => InOrder
  BY DEF VInv
<1> QED BY <1>1, SpecVInv, PTL
=============================================================================
