----------------------------- MODULE Foundations -----------------------------
(***************************************************************************)
(* Facts about naturals and sequences that several proofs need.  Induction *)
(* over a predicate is out of reach here; the well-foundedness of strict   *)
(* inclusion on finite sets is not, and gives least elements.              *)
(***************************************************************************)
EXTENDS Integers, SequencesExt, SequenceTheorems, FiniteSetTheorems,
        WellFoundedInduction, TLAPS

\* A nonempty set of naturals has a least element.
LEMMA LeastElement ==
  ASSUME NEW T \in SUBSET Nat, T # {}
  PROVE  \E m \in T : \A n \in T : m <= n
<1> DEFINE Below == {0 .. (n - 1) : n \in T}
<1>1. Below \subseteq FiniteSubsetsOf(Nat)
  <2> SUFFICES ASSUME NEW n \in T
               PROVE  0 .. (n - 1) \in FiniteSubsetsOf(Nat)
    OBVIOUS
  <2>1. IsFiniteSet(0 .. (n - 1))
    BY FS_Interval
  <2>2. 0 .. (n - 1) \in SUBSET Nat
    OBVIOUS
  <2> QED
    BY <2>1, <2>2 DEF FiniteSubsetsOf
<1>2. Below # {}
  <2>1. PICK n \in T : TRUE
    OBVIOUS
  <2>2. 0 .. (n - 1) \in Below
    OBVIOUS
  <2> QED
    BY <2>2
<1>3. PICK b \in Below : \A y \in Below : ~ (<<y, b>> \in StrictSubsetOrdering(Nat))
  <2> HIDE DEF Below
  <2> QED
    BY <1>1, <1>2, WFMin, FS_StrictSubsetOrderingWellFounded
<1>4. PICK m \in T : b = 0 .. (m - 1)
  OBVIOUS
<1>5. ASSUME NEW n \in T, n < m
      PROVE  FALSE
  <2>1. 0 .. (n - 1) \in Below
    OBVIOUS
  <2>2. n \in 0 .. (m - 1) /\ n \notin 0 .. (n - 1)
    BY <1>5
  <2>3. 0 .. (n - 1) \subseteq 0 .. (m - 1) /\ 0 .. (m - 1) \subseteq Nat
    BY <1>5
  <2>4. <<0 .. (n - 1), 0 .. (m - 1)>> \in StrictSubsetOrdering(Nat)
    BY <2>2, <2>3, Zenon DEF StrictSubsetOrdering
  <2> QED
    BY <2>1, <2>4, <1>3, <1>4
<1> QED
  BY <1>5

------------------------------------------------------------------------------
(* Least and greatest elements, and sequences one after another.            *)

LEMMA MinIs ==
  ASSUME NEW T \in SUBSET Nat, T # {}
  PROVE  Min(T) \in T /\ \A n \in T : Min(T) <= n
BY LeastElement DEF Min

LEMMA MinEquals ==
  ASSUME NEW T \in SUBSET Nat, NEW m \in T, \A n \in T : m <= n
  PROVE  Min(T) = m
<1>1. Min(T) \in T /\ Min(T) <= m
  BY MinIs
<1>2. m <= Min(T) /\ m \in Nat /\ Min(T) \in Nat
  BY <1>1
<1> QED
  BY <1>1, <1>2

LEMMA MaxEquals ==
  ASSUME NEW T \in SUBSET Nat, NEW m \in T, \A n \in T : m >= n
  PROVE  Max(T) = m
<1>1. Max(T) \in T /\ \A n \in T : Max(T) >= n
  BY DEF Max
<1>2. m >= Max(T) /\ Max(T) >= m /\ m \in Nat /\ Max(T) \in Nat
  BY <1>1
<1> QED
  BY <1>2

\* FlattenSeq is the last of the sums of the first sequences.
LEMMA FlattenIs ==
  ASSUME NEW S, NEW q \in Seq(Seq(S)), Len(q) > 0
  PROVE  \E f :
           /\ f \in [1 .. Len(q) -> Seq(S)]
           /\ f[1] = q[1]
           /\ \A i \in 2 .. Len(q) : f[i] = f[i - 1] \o q[i]
           /\ FlattenSeq(q) = f[Len(q)]
<1> DEFINE n == Len(q)
           Sum(f, m) == [i \in 1 .. m |-> IF i = 1 THEN q[i] ELSE f[i - 1] \o q[i]]
           Summed(m) == \E f \in [1 .. m -> Seq(S)] : f = Sum(f, m)
           Unsummed == {m \in 1 .. n : ~Summed(m)}
<1>1. n \in Nat \ {0} /\ \A i \in 1 .. n : q[i] \in Seq(S)
  BY LenProperties, ElementOfSeq
<1> HIDE DEF n
<1>2. Summed(1)
  <2> DEFINE f == [i \in 1 .. 1 |-> q[1]]
  <2>1. f \in [1 .. 1 -> Seq(S)]
    BY <1>1
  <2>2. f = Sum(f, 1)
    OBVIOUS
  <2> QED
    BY <2>1, <2>2
<1>3. ASSUME NEW m \in 2 .. n, Summed(m - 1)
      PROVE  Summed(m)
  <2>1. PICK f \in [1 .. (m - 1) -> Seq(S)] : f = Sum(f, m - 1)
    BY <1>3
  <2> DEFINE g == [i \in 1 .. m |-> IF i = m THEN f[m - 1] \o q[m] ELSE f[i]]
  <2>2. m - 1 \in 1 .. (m - 1) /\ m \in 1 .. n
    BY <1>1
  <2>3. f[m - 1] \o q[m] \in Seq(S)
    BY <2>2, <1>1, ConcatProperties
  <2>4. g \in [1 .. m -> Seq(S)]
    BY <2>3
  <2>5. ASSUME NEW i \in 1 .. m
        PROVE  g[i] = Sum(g, m)[i]
    <3>1. CASE i = m
      <4>1. m # 1 /\ m - 1 # m /\ m - 1 \in 1 .. m
        OBVIOUS
      <4> QED
        BY <3>1, <4>1
    <3>2. CASE i # m
      <4>1. i \in 1 .. (m - 1)
        BY <3>2
      <4>2. f[i] = IF i = 1 THEN q[i] ELSE f[i - 1] \o q[i]
        BY <4>1, <2>1
      <4>3. i = 1 \/ (i - 1 \in 1 .. m /\ i - 1 # m)
        BY <4>1
      <4> QED
        BY <3>2, <4>2, <4>3
    <3> QED
      BY <3>1, <3>2
  <2>6. g = Sum(g, m)
    BY <2>4, <2>5
  <2> QED
    BY <2>4, <2>6
<1>4. Summed(n)
  <2>1. ASSUME Unsummed # {}
        PROVE  FALSE
    <3>1. Unsummed \in SUBSET Nat
      <4> HIDE DEF Summed
      <4> QED
        BY <1>1
    <3>2. PICK m \in Unsummed : \A k \in Unsummed : m <= k
      <4> HIDE DEF Unsummed
      <4> QED
        BY <2>1, <3>1, LeastElement
    <3>3. m \in 1 .. n /\ ~Summed(m)
      OBVIOUS
    <3>4. m # 1
      <4> HIDE DEF Summed
      <4> QED
        BY <3>3, <1>2
    <3>5. m \in 2 .. n /\ m - 1 \in 1 .. n /\ ~(m <= m - 1)
      <4> HIDE DEF Summed
      <4> QED
        BY <3>3, <3>4, <1>1
    <3> HIDE DEF Summed
    <3>6. m - 1 \notin Unsummed
      BY <3>2, <3>5
    <3>7. Summed(m - 1)
      BY <3>5, <3>6
    <3> QED
      BY <3>3, <3>5, <3>7, <1>3
  <2>2. n \in 1 .. n
    BY <1>1
  <2> HIDE DEF Summed
  <2> QED
    BY <2>1, <2>2
<1> DEFINE F == CHOOSE f : f = Sum(f, n)
<1>5. F = Sum(F, n)
  <2>1. \E f : f = Sum(f, n)
    BY <1>4
  <2> HIDE DEF Sum
  <2> QED
    BY <2>1
<1>6. FlattenSeq(q) = F[n]
  <2>1. Len(q) # 0
    BY <1>1 DEF n
  <2> QED
    BY <2>1, Zenon DEF FlattenSeq, n
<1> HIDE DEF F
<1>7. PICK h \in [1 .. n -> Seq(S)] : h = Sum(h, n)
  BY <1>4
<1>8. F[1] = q[1] /\ \A i \in 2 .. n : F[i] = F[i - 1] \o q[i]
  <2>1. \A i \in 1 .. n : F[i] = IF i = 1 THEN q[i] ELSE F[i - 1] \o q[i]
    BY <1>5, Zenon
  <2>2. 1 \in 1 .. n /\ \A i \in 2 .. n : i \in 1 .. n /\ i # 1
    BY <1>1
  <2> QED
    BY <2>1, <2>2
<1> DEFINE Outside == {i \in 1 .. n : F[i] \notin Seq(S)}
<1>9. Outside = {}
  <2> SUFFICES ASSUME Outside # {}
               PROVE  FALSE
    OBVIOUS
  <2>1. Outside \in SUBSET Nat
    OBVIOUS
  <2>2. PICK m \in Outside : \A k \in Outside : m <= k
    <3> HIDE DEF Outside
    <3> QED
      BY <2>1, LeastElement
  <2>3. m \in 2 .. n
    BY <1>1, <1>8
  <2>4. m - 1 \in 1 .. n /\ ~(m <= m - 1)
    BY <2>3, <1>1
  <2>5. F[m - 1] \in Seq(S)
    BY <2>2, <2>4
  <2>6. F[m - 1] \o q[m] \in Seq(S)
    BY <2>5, <1>1, <2>3, ConcatProperties
  <2> QED
    BY <2>6, <2>3, <1>8
<1>10. F \in [1 .. n -> Seq(S)]
  <2>1. F = [i \in 1 .. n |-> F[i]]
    BY <1>5
  <2> QED
    BY <2>1, <1>9
<1> QED
  BY <1>6, <1>8, <1>10 DEF n

LEMMA SumAssociative ==
  ASSUME NEW S, NEW s \in Seq(S), NEW t \in Seq(S), NEW u \in Seq(S), NEW st, NEW tu,
         st = s \o t, tu = t \o u
  PROVE  st \o u = s \o tu
OBVIOUS

\* (The provers lose their way in sums of sums, unless the sums are opaque.)
Cat(s, t) == s \o t

LEMMA CatAssociative ==
  ASSUME NEW S, NEW s \in Seq(S), NEW t \in Seq(S), NEW u \in Seq(S)
  PROVE  Cat(s, t) \in Seq(S) /\ Cat(Cat(s, t), u) = Cat(s, Cat(t, u))
BY SumAssociative DEF Cat

\* r is q without its first sequence.
IsTail(r, q) == Len(q) = Len(r) + 1 /\ \A i \in 1 .. Len(r) : r[i] = q[i + 1]

\* The first sequence comes before the sum of the others.
LEMMA FlattenFirst ==
  ASSUME NEW S, NEW q \in Seq(Seq(S)), NEW r \in Seq(Seq(S)), IsTail(r, q)
  PROVE  FlattenSeq(q) = q[1] \o FlattenSeq(r)
<1>1. Len(r) \in Nat /\ Len(q) \in Nat /\ Len(q) = Len(r) + 1
  BY LenProperties DEF IsTail
<1>2. q[1] \in Seq(S)
  BY <1>1, ElementOfSeq
<1>3. PICK f :
        /\ f \in [1 .. Len(q) -> Seq(S)]
        /\ f[1] = q[1]
        /\ \A i \in 2 .. Len(q) : f[i] = f[i - 1] \o q[i]
        /\ FlattenSeq(q) = f[Len(q)]
  <2>1. Len(q) > 0
    BY <1>1
  <2> QED
    BY <2>1, FlattenIs, Zenon
<1>4. CASE Len(r) = 0
  <2>1. FlattenSeq(r) = <<>>
    BY <1>4, EmptySeq DEF FlattenSeq
  <2>2. FlattenSeq(q) = q[1]
    BY <1>1, <1>3, <1>4
  <2> QED
    BY <2>1, <2>2, <1>2, ConcatEmptySeq
<1>5. CASE Len(r) # 0
  <2>1. PICK g :
          /\ g \in [1 .. Len(r) -> Seq(S)]
          /\ g[1] = r[1]
          /\ \A i \in 2 .. Len(r) : g[i] = g[i - 1] \o r[i]
          /\ FlattenSeq(r) = g[Len(r)]
    <3>1. Len(r) > 0
      BY <1>1, <1>5
    <3> QED
      BY <3>1, FlattenIs, Zenon
  <2> DEFINE Apart == {i \in 1 .. Len(r) : f[i + 1] # q[1] \o g[i]}
  <2>2. Apart = {}
    <3> SUFFICES ASSUME Apart # {}
                 PROVE  FALSE
      OBVIOUS
    <3>1. Apart \in SUBSET Nat
      <4>1. Apart \subseteq 1 .. Len(r)
        BY Zenon
      <4> HIDE DEF Apart
      <4> QED
        BY <4>1, <1>1
    <3>2. PICK i \in Apart : \A j \in Apart : i <= j
      <4> HIDE DEF Apart
      <4> QED
        BY <3>1, LeastElement
    <3>3. i \in 1 .. Len(r) /\ i + 1 \in 2 .. Len(q) /\ r[i] = q[i + 1]
      BY <1>1 DEF IsTail
    <3>4. f[i + 1] = f[i] \o r[i]
      <4>1. (i + 1) - 1 = i
        BY <3>3, <1>1
      <4>2. f[i + 1] = f[(i + 1) - 1] \o q[i + 1]
        BY <3>3, <1>3, Zenon
      <4> QED
        BY <4>1, <4>2, <3>3
    <3>5. CASE i = 1
      BY <1>1, <3>4, <3>5, <1>3, <2>1
    <3>6. CASE i # 1
      <4>1. i \in 2 .. Len(r) /\ i - 1 \in 1 .. Len(r) /\ ~(i <= i - 1)
        <5>1. i \in 1 .. Len(r) /\ i # 1 /\ Len(r) \in Nat
          BY <3>3, <3>6, <1>1, Zenon
        <5> HIDE DEF Apart
        <5> QED
          BY <5>1
      <4>2. f[i] = q[1] \o g[i - 1]
        <5>1. i - 1 \notin Apart /\ (i - 1) + 1 = i
          <6> HIDE DEF Apart
          <6> QED
            BY <4>1, <3>2
        <5>2. f[(i - 1) + 1] = q[1] \o g[i - 1]
          BY <4>1, <5>1
        <5> QED
          BY <5>1, <5>2
      <4>3. r[i] \in Seq(S) /\ g[i - 1] \in Seq(S)
        BY <4>1, <2>1, ElementOfSeq
      <4>4. g[i] = g[i - 1] \o r[i]
        BY <4>1, <2>1
      <4> DEFINE a == q[1]
                 b == g[i - 1]
                 c == r[i]
                 ab == f[i]
                 bc == g[i]
                 abc == f[i + 1]
      <4>5. /\ a \in Seq(S) /\ b \in Seq(S) /\ c \in Seq(S)
            /\ ab = Cat(a, b) /\ bc = Cat(b, c) /\ abc = Cat(ab, c)
        BY <1>2, <3>4, <4>2, <4>3, <4>4 DEF Cat
      <4>6. abc # Cat(a, bc)
        BY <3>3 DEF Cat
      <4> HIDE DEF Apart, a, b, c, ab, bc, abc
      <4>7. Cat(ab, c) = Cat(a, bc)
        BY <4>5, CatAssociative
      <4> QED
        BY <4>5, <4>6, <4>7
    <3> QED
      BY <3>5, <3>6
  <2>3. f[Len(r) + 1] = q[1] \o g[Len(r)]
    <3>1. Len(r) \in 1 .. Len(r)
      BY <1>1, <1>5
    <3> QED
      BY <2>2, <3>1, Zenon
  <2> QED
    BY <2>1, <2>3, <1>3, <1>1
<1> QED
  BY <1>4, <1>5

LEMMA FlattenType ==
  ASSUME NEW S, NEW q \in Seq(Seq(S))
  PROVE  FlattenSeq(q) \in Seq(S)
<1>1. CASE Len(q) = 0
  <2>1. q = <<>>
    BY <1>1, EmptySeq
  <2>2. FlattenSeq(q) = q
    BY <1>1 DEF FlattenSeq
  <2> QED
    BY <2>1, <2>2, EmptySeq
<1>2. CASE Len(q) # 0
  <2>1. Len(q) \in Nat
    BY LenProperties
  <2>2. Len(q) > 0 /\ Len(q) \in 1 .. Len(q)
    BY <1>2, <2>1
  <2>3. PICK f : f \in [1 .. Len(q) -> Seq(S)] /\ FlattenSeq(q) = f[Len(q)]
    BY <2>2, FlattenIs, Zenon
  <2> QED
    BY <2>2, <2>3
<1> QED
  BY <1>1, <1>2

\* The sequences of Q from the one after i to j, one after another.
Part(Q, i, j) == FlattenSeq(SubSeq(Q, i + 1, j))

LEMMA PartIs ==
  ASSUME NEW S, NEW Q \in Seq(Seq(S)), NEW j \in 0 .. Len(Q), NEW i \in 0 .. j
  PROVE  /\ SubSeq(Q, i + 1, j) \in Seq(Seq(S))
         /\ Len(SubSeq(Q, i + 1, j)) = j - i
         /\ \A m \in 1 .. (j - i) : SubSeq(Q, i + 1, j)[m] = Q[i + m]
<1>1. Len(Q) \in Nat /\ \A m \in 1 .. Len(Q) : Q[m] \in Seq(S)
  BY LenProperties, ElementOfSeq
<1> DEFINE a == i + 1
           s == SubSeq(Q, a, j)
<1>2. a \in Int /\ j \in Int /\ \A m \in a .. j : Q[m] \in Seq(S)
  BY <1>1
<1>3. a = i + 1 /\ i \in Nat /\ j \in Nat /\ i <= j
  BY <1>1
<1> HIDE DEF a
<1>4. /\ s \in Seq(Seq(S))
      /\ Len(s) = IF a <= j THEN j - a + 1 ELSE 0
      /\ \A m \in 1 .. (j - a + 1) : s[m] = Q[a + m - 1]
  BY <1>2, SubSeqProperties
<1> HIDE DEF s
<1>5. Len(s) = j - i
  BY <1>3, <1>4
<1>6. ASSUME NEW m \in 1 .. (j - i)
      PROVE  s[m] = Q[i + m]
  <2>1. m \in 1 .. (j - a + 1) /\ a + m - 1 = i + m
    BY <1>3
  <2> QED
    BY <1>4, <2>1
<1> QED
  BY <1>4, <1>5, <1>6 DEF s, a

LEMMA PartType ==
  ASSUME NEW S, NEW Q \in Seq(Seq(S)), NEW j \in 0 .. Len(Q), NEW i \in 0 .. j
  PROVE  Part(Q, i, j) \in Seq(S)
BY PartIs, FlattenType DEF Part

LEMMA PartNone ==
  ASSUME NEW S, NEW Q \in Seq(Seq(S)), NEW j \in 0 .. Len(Q)
  PROVE  Part(Q, j, j) = <<>>
<1> DEFINE s == SubSeq(Q, j + 1, j)
<1>1. s \in Seq(Seq(S)) /\ Len(s) = 0
  <2>1. j \in 0 .. j /\ j - j = 0
    BY LenProperties
  <2> QED
    BY <2>1, PartIs
<1> HIDE DEF s
<1>2. s = <<>> /\ FlattenSeq(s) = s
  BY <1>1, EmptySeq DEF FlattenSeq
<1> QED
  BY <1>2 DEF s, Part

\* The first sequence comes first, ...
LEMMA PartFirst ==
  ASSUME NEW S, NEW Q \in Seq(Seq(S)), NEW j \in 0 .. Len(Q), NEW i \in 0 .. (j - 1)
  PROVE  Part(Q, i, j) = Q[i + 1] \o Part(Q, i + 1, j)
<1> DEFINE q == SubSeq(Q, i + 1, j)
           r == SubSeq(Q, (i + 1) + 1, j)
<1>1. i \in 0 .. j /\ i + 1 \in 0 .. j /\ i \in Nat /\ j \in Nat
  BY LenProperties
<1>2. q \in Seq(Seq(S)) /\ Len(q) = j - i /\ \A m \in 1 .. (j - i) : q[m] = Q[i + m]
  BY <1>1, PartIs
<1>3. /\ r \in Seq(Seq(S)) /\ Len(r) = j - (i + 1)
      /\ \A m \in 1 .. (j - (i + 1)) : r[m] = Q[(i + 1) + m]
  BY <1>1, PartIs
<1> HIDE DEF q, r
<1>4. IsTail(r, q)
  <2>1. ASSUME NEW m \in 1 .. Len(r)
        PROVE  r[m] = q[m + 1]
    <3>1. m \in 1 .. (j - (i + 1))
      BY <1>3
    <3>2. m + 1 \in 1 .. (j - i) /\ i + (m + 1) = (i + 1) + m
      BY <1>1, <3>1
    <3> QED
      BY <1>2, <1>3, <3>1, <3>2
  <2>2. Len(q) = Len(r) + 1
    BY <1>1, <1>2, <1>3
  <2> QED
    BY <2>1, <2>2 DEF IsTail
<1>5. q[1] = Q[i + 1]
  <2>1. 1 \in 1 .. (j - i)
    BY <1>1
  <2> QED
    BY <1>2, <2>1
<1>6. FlattenSeq(q) = q[1] \o FlattenSeq(r)
  BY <1>2, <1>3, <1>4, FlattenFirst
<1> QED
  BY <1>5, <1>6 DEF q, r, Part

\* ... and the last one last.
LEMMA PartLast ==
  ASSUME NEW S, NEW Q \in Seq(Seq(S)), NEW j \in 0 .. (Len(Q) - 1), NEW i \in 0 .. j
  PROVE  Part(Q, i, j + 1) = Part(Q, i, j) \o Q[j + 1]
<1>1. j \in Nat /\ i \in Nat /\ j \in 0 .. Len(Q) /\ j + 1 \in 0 .. Len(Q) /\ j + 1 \in 1 .. Len(Q)
  BY LenProperties
<1>2. Q[j + 1] \in Seq(S)
  BY <1>1, ElementOfSeq
<1> DEFINE Holds(n) == Part(Q, j - n, j + 1) = Cat(Part(Q, j - n, j), Q[j + 1])
           Fails == {n \in 0 .. j : ~Holds(n)}
<1>3. Holds(0)
  <2>1. j \in 0 .. ((j + 1) - 1) /\ j - 0 = j
    BY <1>1
  <2>2. Part(Q, j, j + 1) = Q[j + 1] \o Part(Q, j + 1, j + 1)
    BY <1>1, <2>1, PartFirst
  <2>3. Part(Q, j + 1, j + 1) = <<>> /\ Part(Q, j, j) = <<>>
    BY <1>1, PartNone
  <2>4. Q[j + 1] \o <<>> = Q[j + 1] /\ <<>> \o Q[j + 1] = Q[j + 1]
    BY <1>2, ConcatEmptySeq
  <2> QED
    BY <2>1, <2>2, <2>3, <2>4 DEF Cat
<1>4. ASSUME NEW n \in 1 .. j, Holds(n - 1)
      PROVE  Holds(n)
  <2> DEFINE k == j - n
  <2>1. /\ k \in 0 .. (j - 1) /\ k \in 0 .. ((j + 1) - 1) /\ k + 1 \in 0 .. j /\ j - (n - 1) = k + 1
        /\ k + 1 \in 1 .. Len(Q)
    BY <1>1
  <2> HIDE DEF k
  <2>2. /\ Part(Q, k, j + 1) = Cat(Q[k + 1], Part(Q, k + 1, j + 1))
        /\ Part(Q, k, j) = Cat(Q[k + 1], Part(Q, k + 1, j))
    BY <1>1, <2>1, PartFirst DEF Cat
  <2>3. Part(Q, k + 1, j + 1) = Cat(Part(Q, k + 1, j), Q[j + 1])
    BY <1>4, <2>1
  <2>4. Q[k + 1] \in Seq(S) /\ Part(Q, k + 1, j) \in Seq(S)
    BY <1>1, <2>1, ElementOfSeq, PartType
  <2>5. Part(Q, k, j + 1) = Cat(Part(Q, k, j), Q[j + 1])
    <3> DEFINE c == Q[k + 1]
               p == Part(Q, k + 1, j)
               z == Q[j + 1]
    <3>1. c \in Seq(S) /\ p \in Seq(S) /\ z \in Seq(S)
      BY <1>2, <2>4
    <3>2. Part(Q, k, j + 1) = Cat(c, Cat(p, z)) /\ Part(Q, k, j) = Cat(c, p)
      BY <2>2, <2>3
    <3> HIDE DEF c, p, z
    <3>3. Cat(Cat(c, p), z) = Cat(c, Cat(p, z))
      BY <3>1, CatAssociative
    <3>4. Part(Q, k, j + 1) = Cat(Part(Q, k, j), z)
      BY <3>2, <3>3
    <3> QED
      BY <3>4 DEF z
  <2> QED
    BY <2>5 DEF k
<1>5. Fails = {}
  <2> SUFFICES ASSUME Fails # {}
               PROVE  FALSE
    OBVIOUS
  <2>1. Fails \subseteq 0 .. j
    BY Zenon
  <2> HIDE DEF Holds
  <2>2. PICK n \in Fails : \A m \in Fails : n <= m
    <3> HIDE DEF Fails
    <3>1. Fails \in SUBSET Nat
      BY <1>1, <2>1
    <3> QED
      BY <3>1, LeastElement
  <2>3. n \in 0 .. j /\ ~Holds(n)
    OBVIOUS
  <2>4. n \in 1 .. j
    <3>1. n # 0
      BY <1>3, <2>3
    <3> QED
      BY <1>1, <2>3, <3>1
  <2>5. n - 1 \in 0 .. j /\ ~(n <= n - 1)
    BY <1>1, <2>4
  <2>6. Holds(n - 1)
    BY <2>2, <2>5
  <2> QED
    BY <1>4, <2>3, <2>4, <2>6
<1>6. Holds(j - i)
  <2>1. j - i \in 0 .. j
    BY <1>1
  <2> HIDE DEF Holds
  <2> QED
    BY <1>5, <2>1
<1>7. j - (j - i) = i
  BY <1>1
<1> QED
  BY <1>6, <1>7 DEF Cat
==============================================================================
