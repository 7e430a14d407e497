--------------------------- MODULE RetrievalProofs ---------------------------
(***************************************************************************)
(* Proofs about Retrieval and GroundingEval, for any number of chunks, any *)
(* rankings and answers, and any sizes of pages and results.               *)
(***************************************************************************)
EXTENDS GroundingEval, FiniteSetTheorems, SequenceTheorems, TLAPS

-----------------------------------------------------------------------------
\* Lemmas about the order in which a finite set is listed.

IsOrder(S, R) ==
    /\ \A x \in S : <<x, x>> \notin R
    /\ \A x, y \in S : x # y => <<x, y>> \in R \/ <<y, x>> \in R
    /\ \A x, y, z \in S : <<x, y>> \in R /\ <<y, z>> \in R => <<x, z>> \in R

\* s lists the members of S, each once, in the order R.
Lists(s, S, R) ==
    /\ Cardinality(S) \in Nat
    /\ s \in [1..Cardinality(S) -> S]
    /\ \A x \in S : \E k \in 1..Cardinality(S) : s[k] = x
    /\ \A j, k \in 1..Cardinality(S) : j < k <=> <<s[j], s[k]>> \in R

\* How many members of S come before x; the places are all taken, each once.
LEMMA RanksAreDistinct ==
    ASSUME NEW S, IsFiniteSet(S), NEW R, IsOrder(S, R), NEW x \in S, NEW y \in S
    PROVE  /\ Cardinality({z \in S : <<z, x>> \in R}) \in 0..(Cardinality(S) - 1)
           /\ <<x, y>> \in R => Cardinality({z \in S : <<z, x>> \in R})
                                   < Cardinality({z \in S : <<z, y>> \in R})
<1> DEFINE Below(u) == {z \in S : <<z, u>> \in R}
<1>1. /\ IsFiniteSet(Below(x)) /\ Cardinality(Below(x)) \in Nat
      /\ IsFiniteSet(Below(y)) /\ Cardinality(Below(y)) \in Nat
      /\ Cardinality(S) \in Nat
  BY FS_Subset, FS_CardinalityType
<1>2. x \notin Below(x)
  BY DEF IsOrder
<1>3. IsFiniteSet(Below(x) \cup {x}) /\ Cardinality(Below(x) \cup {x}) = Cardinality(Below(x)) + 1
  BY <1>1, <1>2, FS_AddElement
<1>4. Cardinality(Below(x) \cup {x}) <= Cardinality(S)
  BY FS_Subset
<1>5. ASSUME <<x, y>> \in R PROVE Cardinality(Below(x) \cup {x}) <= Cardinality(Below(y))
  <2>1. Below(x) \cup {x} \subseteq Below(y)
    BY <1>5 DEF IsOrder
  <2> HIDE DEF Below
  <2> QED
    BY <1>1, <2>1, FS_Subset
<1> HIDE DEF Below
<1>6. /\ Cardinality(Below(x)) \in 0..(Cardinality(S) - 1)
      /\ <<x, y>> \in R => Cardinality(Below(x)) < Cardinality(Below(y))
  BY <1>1, <1>3, <1>4, <1>5
<1> QED
  BY <1>6 DEF Below

LEMMA InOrderLists ==
    ASSUME NEW S, IsFiniteSet(S), NEW R, IsOrder(S, R)
    PROVE  Lists(InOrder(S, R), S, R)
<1> DEFINE n == Cardinality(S)
           rank == [x \in S |-> Cardinality({z \in S : <<z, x>> \in R})]
           s == InOrder(S, R)
<1>1. n \in Nat
  BY FS_CardinalityType
<1>2. rank \in [S -> 0..(n - 1)]
  BY RanksAreDistinct
<1>3. \A x, y \in S : <<x, y>> \in R => rank[x] < rank[y]
  BY RanksAreDistinct
<1>4. \A x \in S : rank[x] = Cardinality({z \in S : <<z, x>> \in R})
  OBVIOUS
<1> HIDE DEF rank
<1>5. \A x, y \in S : rank[x] = rank[y] => x = y
  <2> SUFFICES ASSUME NEW x \in S, NEW y \in S, rank[x] = rank[y], x # y PROVE FALSE
    OBVIOUS
  <2>1. rank[x] \in Int /\ rank[y] \in Int
    BY <1>2
  <2>2. <<x, y>> \in R \/ <<y, x>> \in R
    BY DEF IsOrder
  <2> QED
    BY <1>3, <2>1, <2>2
<1>6. \A k \in 1..n : \E x \in S : rank[x] = k - 1
  <2>1. rank \in Injection(S, 0..(n - 1))
    BY <1>2, <1>5 DEF Injection, IsInjective
  <2>2. IsFiniteSet(0..(n - 1)) /\ Cardinality(0..(n - 1)) = n
    BY <1>1, FS_Interval
  <2>3. rank \in Surjection(S, 0..(n - 1))
    BY <2>1, <2>2, FS_Injection DEF n
  <2> QED
    BY <1>1, <2>3 DEF Surjection
<1>7. ASSUME NEW k \in 1..n PROVE s[k] \in S /\ rank[s[k]] = k - 1
  <2>1. s[k] = CHOOSE x \in S : Cardinality({z \in S : <<z, x>> \in R}) = k - 1
    BY DEF InOrder
  <2>2. \E x \in S : Cardinality({z \in S : <<z, x>> \in R}) = k - 1
    BY <1>4, <1>6
  <2>3. s[k] \in S /\ Cardinality({z \in S : <<z, s[k]>> \in R}) = k - 1
    BY <2>1, <2>2
  <2> QED
    BY <1>4, <2>3
<1>8. s \in [1..n -> S]
  <2> DEFINE pick(k) == CHOOSE x \in S : Cardinality({z \in S : <<z, x>> \in R}) = k - 1
  <2>1. s = [k \in 1..n |-> pick(k)]
    BY DEF InOrder
  <2> HIDE DEF s, pick
  <2>2. \A k \in 1..n : pick(k) \in S
    BY <1>7, <2>1
  <2> QED
    BY <2>1, <2>2
<1> HIDE DEF n, s
<1>9. ASSUME NEW x \in S PROVE \E k \in 1..n : s[k] = x
  <2>1. rank[x] + 1 \in 1..n
    BY <1>1, <1>2
  <2>2. rank[s[rank[x] + 1]] = rank[x] /\ s[rank[x] + 1] \in S
    <3>1. rank[s[rank[x] + 1]] = (rank[x] + 1) - 1 /\ s[rank[x] + 1] \in S
      BY <1>7, <2>1
    <3> QED
      BY <1>2, <3>1
  <2> QED
    BY <1>5, <2>1, <2>2
<1>10. ASSUME NEW j \in 1..n, NEW k \in 1..n PROVE j < k <=> <<s[j], s[k]>> \in R
  <2>1. s[j] \in S /\ s[k] \in S /\ rank[s[j]] = j - 1 /\ rank[s[k]] = k - 1
    BY <1>7
  <2>2. CASE <<s[j], s[k]>> \in R
    BY <1>1, <1>3, <2>1, <2>2
  <2>3. CASE <<s[j], s[k]>> \notin R
    <3>1. s[j] = s[k] \/ <<s[k], s[j]>> \in R
      BY <2>1, <2>3 DEF IsOrder
    <3> QED
      BY <1>1, <1>3, <2>1, <2>3, <3>1
  <2> QED
    BY <2>2, <2>3
<1> QED
  BY <1>1, <1>8, <1>9, <1>10 DEF Lists, n, s

LEMMA UpTo ==
    ASSUME NEW n \in Nat PROVE IsFiniteSet(1..n) /\ Cardinality(1..n) = n
<1>1. IsFiniteSet(1..n) /\ Cardinality(1..n) = IF 1 > n THEN 0 ELSE n - 1 + 1
  BY FS_Interval
<1> QED
  BY <1>1

LEMMA LessIsOrder ==
    ASSUME NEW I \in SUBSET Int PROVE IsOrder(I, Less(I))
BY DEF IsOrder, Less

-----------------------------------------------------------------------------
\* Lemmas about parts of a sequence.

Distinct(s) == \A i, j \in DOMAIN s : s[i] = s[j] => i = j

\* t is s without some of its elements: at tells where those of t are in s.
IsPart(t, s, at) ==
    /\ at \in [1..Len(t) -> 1..Len(s)]
    /\ \A k \in 1..Len(t) : t[k] = s[at[k]]
    /\ \A j, k \in 1..Len(t) : j < k <=> at[j] < at[k]
Part(t, s) == \E at \in [1..Len(t) -> 1..Len(s)] : IsPart(t, s, at)

LEMMA Members ==
    ASSUME NEW T, NEW s \in Seq(T)
    PROVE  /\ ToSet(s) = {s[i] : i \in 1..Len(s)} /\ ToSet(s) \subseteq T
           /\ DOMAIN s = 1..Len(s) /\ Len(s) \in Nat
<1>1. DOMAIN s = 1..Len(s) /\ Len(s) \in Nat
  BY LenProperties
<1>2. \A i \in 1..Len(s) : s[i] \in T
  BY ElementOfSeq
<1> QED
  BY <1>1, <1>2 DEF ToSet

LEMMA PartIs ==
    ASSUME NEW T, NEW s \in Seq(T), NEW t \in Seq(T), Part(t, s)
    PROVE  /\ ToSet(t) \subseteq ToSet(s)
           /\ Distinct(s) => Distinct(t)
           /\ Distinct(s) => \A c, d \in ToSet(t) : Ahead(s, c, d) => Ahead(t, c, d)
<1>1. PICK at \in [1..Len(t) -> 1..Len(s)] : IsPart(t, s, at)
  BY DEF Part
<1>2. /\ ToSet(s) = {s[i] : i \in 1..Len(s)} /\ DOMAIN s = 1..Len(s) /\ Len(s) \in Nat
      /\ ToSet(t) = {t[i] : i \in 1..Len(t)} /\ DOMAIN t = 1..Len(t) /\ Len(t) \in Nat
  BY Members
<1>3. ToSet(t) \subseteq ToSet(s)
  BY <1>1, <1>2 DEF IsPart
<1>4. ASSUME Distinct(s) PROVE Distinct(t)
  <2> SUFFICES ASSUME NEW j \in 1..Len(t), NEW k \in 1..Len(t), t[j] = t[k] PROVE j = k
    BY <1>2 DEF Distinct
  <2>1. at[j] = at[k]
    BY <1>1, <1>2, <1>4 DEF IsPart, Distinct
  <2>2. at[j] \in 1..Len(s) /\ at[k] \in 1..Len(s)
    BY <1>1
  <2>3. ~(j < k) /\ ~(k < j)
    BY <1>1, <2>1, <2>2 DEF IsPart
  <2> QED
    BY <2>3
<1>5. ASSUME Distinct(s), NEW c \in ToSet(t), NEW d \in ToSet(t), Ahead(s, c, d)
      PROVE  Ahead(t, c, d)
  <2>1. PICK j \in 1..Len(t) : t[j] = c
    BY <1>2
  <2>2. PICK k \in 1..Len(t) : t[k] = d
    BY <1>2
  <2>3. PICK m \in 1..Len(s), n \in 1..Len(s) : m < n /\ s[m] = c /\ s[n] = d
    BY <1>2, <1>5 DEF Ahead
  <2>4. at[j] \in 1..Len(s) /\ at[k] \in 1..Len(s) /\ s[at[j]] = c /\ s[at[k]] = d
    BY <1>1, <2>1, <2>2 DEF IsPart
  <2>5. at[j] = m /\ at[k] = n
    BY <1>2, <1>5, <2>3, <2>4 DEF Distinct
  <2>6. j < k
    BY <1>1, <2>3, <2>5 DEF IsPart
  <2> QED
    BY <1>2, <2>1, <2>2, <2>6 DEF Ahead
<1> QED
  BY <1>3, <1>4, <1>5

LEMMA PartIsNoLonger ==
    ASSUME NEW T, NEW s \in Seq(T), NEW t \in Seq(T), Part(t, s)
    PROVE  Len(t) <= Len(s)
<1>1. PICK at \in [1..Len(t) -> 1..Len(s)] : IsPart(t, s, at)
  BY DEF Part
<1>2. Len(s) \in Nat /\ Len(t) \in Nat
  BY Members
<1>3. at \in Injection(1..Len(t), 1..Len(s))
  <2> SUFFICES ASSUME NEW j \in 1..Len(t), NEW k \in 1..Len(t), at[j] = at[k] PROVE j = k
    BY DEF Injection, IsInjective
  <2>1. at[j] \in 1..Len(s) /\ at[k] \in 1..Len(s)
    OBVIOUS
  <2>2. ~(j < k) /\ ~(k < j)
    BY <1>1, <2>1 DEF IsPart
  <2> QED
    BY <2>2
<1>4. /\ IsFiniteSet(1..Len(s)) /\ Cardinality(1..Len(s)) = Len(s)
      /\ Cardinality(1..Len(t)) = Len(t)
  BY <1>2, UpTo
<1>5. Cardinality(1..Len(t)) <= Cardinality(1..Len(s))
  BY <1>3, <1>4, FS_Injection
<1> QED
  BY <1>4, <1>5

LEMMA AtIs ==
    ASSUME NEW T, NEW s \in Seq(T), NEW I \in SUBSET (1..Len(s))
    PROVE  /\ At(s, I) \in Seq(T)
           /\ Len(At(s, I)) = Cardinality(I) /\ Cardinality(I) \in Nat
           /\ ToSet(At(s, I)) = {s[i] : i \in I}
           /\ Part(At(s, I), s)
           /\ I = 1..Len(s) => Len(At(s, I)) = Len(s)
           /\ (\A i, j \in I : s[i] = s[j] => i = j) => Distinct(At(s, I))
<1> DEFINE at == InOrder(I, Less(I))
           t == [k \in 1..Cardinality(I) |-> s[at[k]]]
<1>1. At(s, I) = t
  BY DEF At
<1>2. IsFiniteSet(I) /\ Len(s) \in Nat
  <2>1. Len(s) \in Nat
    BY Members
  <2>2. IsFiniteSet(1..Len(s))
    BY <2>1, FS_Interval
  <2> QED
    BY <2>1, <2>2, FS_Subset
<1>3. Lists(at, I, Less(I))
  <2>1. I \in SUBSET Int
    BY <1>2
  <2>2. IsOrder(I, Less(I))
    BY <2>1, LessIsOrder
  <2> QED
    BY <1>2, <2>2, InOrderLists
<1> HIDE DEF at
<1>4. /\ Cardinality(I) \in Nat /\ at \in [1..Cardinality(I) -> I]
      /\ \A x \in I : \E k \in 1..Cardinality(I) : at[k] = x
  BY <1>3 DEF Lists
<1>5. \A j, k \in 1..Cardinality(I) : j < k <=> at[j] < at[k]
  BY <1>3, <1>4 DEF Lists, Less
<1>6. \A i \in 1..Len(s) : s[i] \in T
  BY ElementOfSeq
<1>7. t \in Seq(T)
  <2>1. t \in [1..Cardinality(I) -> T]
    BY <1>4, <1>6
  <2> HIDE DEF t
  <2> QED
    BY <1>4, <2>1, SeqDef
<1>8. \A k \in 1..Cardinality(I) : t[k] = s[at[k]]
  OBVIOUS
<1>9. DOMAIN t = 1..Cardinality(I)
  OBVIOUS
<1> HIDE DEF t
<1>10. Len(t) = Cardinality(I)
  BY <1>4, <1>7, <1>9, LenProperties
<1>11. ToSet(t) = {s[i] : i \in I}
  <2>1. ToSet(t) = {t[k] : k \in 1..Cardinality(I)}
    BY <1>9 DEF ToSet
  <2>2. ASSUME NEW i \in I PROVE s[i] \in ToSet(t)
    <3>1. PICK k \in 1..Cardinality(I) : at[k] = i
      BY <1>4
    <3> QED
      BY <1>8, <2>1, <3>1
  <2>3. ASSUME NEW k \in 1..Cardinality(I) PROVE t[k] \in {s[i] : i \in I}
    BY <1>4, <1>8
  <2> QED
    BY <2>1, <2>2, <2>3
<1>12. Part(t, s)
  <2>1. at \in [1..Len(t) -> 1..Len(s)]
    BY <1>4, <1>10
  <2>2. IsPart(t, s, at)
    BY <1>5, <1>8, <1>10, <2>1 DEF IsPart
  <2> QED
    BY <2>1, <2>2 DEF Part
<1>13. ASSUME I = 1..Len(s) PROVE Cardinality(I) = Len(s)
  BY <1>2, <1>13, FS_Interval
<1>14. ASSUME \A i, j \in I : s[i] = s[j] => i = j PROVE Distinct(t)
  <2> SUFFICES ASSUME NEW j \in 1..Cardinality(I), NEW k \in 1..Cardinality(I), t[j] = t[k]
               PROVE  j = k
    BY <1>9 DEF Distinct
  <2>1. at[j] \in I /\ at[k] \in I /\ at[j] \in Int /\ s[at[j]] = s[at[k]]
    <3>1. at[j] \in I /\ at[k] \in I
      BY <1>4
    <3>2. t[j] = s[at[j]] /\ t[k] = s[at[k]]
      BY <1>8
    <3>3. at[j] \in Int
      <4>1. I \subseteq Int
        BY <1>2
      <4> QED
        BY <3>1, <4>1
    <3>4. s[at[j]] = s[at[k]]
      BY <3>2
    <3> QED
      BY <3>1, <3>3, <3>4
  <2>2. at[j] = at[k]
    BY <1>14, <2>1
  <2>3. ~(j < k) /\ ~(k < j)
    BY <1>5, <2>1, <2>2
  <2> QED
    BY <2>3
<1> QED
  BY <1>1, <1>4, <1>7, <1>10, <1>11, <1>12, <1>13, <1>14

LEMMA KeepIs ==
    ASSUME NEW T, NEW s \in Seq(T), NEW S
    PROVE  /\ Keep(s, S) \in Seq(T)
           /\ ToSet(Keep(s, S)) = ToSet(s) \cap S
           /\ Part(Keep(s, S), s)
           /\ ToSet(s) \subseteq S => Len(Keep(s, S)) = Len(s)
<1> DEFINE I == {i \in DOMAIN s : s[i] \in S}
<1>1. ToSet(s) = {s[i] : i \in 1..Len(s)} /\ DOMAIN s = 1..Len(s)
  BY Members
<1>2. I \in SUBSET (1..Len(s))
  BY <1>1
<1>3. {s[i] : i \in I} = ToSet(s) \cap S
  BY <1>1
<1>4. ToSet(s) \subseteq S => I = 1..Len(s)
  BY <1>1
<1>5. Keep(s, S) = At(s, I)
  BY DEF Keep
<1> HIDE DEF I
<1> QED
  BY <1>2, <1>3, <1>4, <1>5, AtIs

LEMMA MinIs ==
    ASSUME NEW a \in Int, NEW b \in Int PROVE Min({a, b}) = IF a <= b THEN a ELSE b
<1> DEFINE m == IF a <= b THEN a ELSE b
<1>1. m \in {a, b} /\ \A y \in {a, b} : m <= y
  OBVIOUS
<1>2. \A x, y \in {a, b} : x <= y /\ y <= x => x = y
  OBVIOUS
<1> QED
  BY <1>1, <1>2 DEF Min

LEMMA FirstIs ==
    ASSUME NEW T, NEW s \in Seq(T), NEW n \in Nat
    PROVE  /\ First(s, n) \in Seq(T)
           /\ Len(First(s, n)) = IF n <= Len(s) THEN n ELSE Len(s)
           /\ \A i \in 1..Len(First(s, n)) : First(s, n)[i] = s[i]
           /\ Part(First(s, n), s)
           /\ Len(s) <= n => First(s, n) = s
<1> DEFINE m == IF n <= Len(s) THEN n ELSE Len(s)
<1>1. Len(s) \in Nat /\ \A i \in 1..Len(s) : s[i] \in T
  BY LenProperties, ElementOfSeq
<1>2. Min({n, Len(s)}) = m
  BY <1>1, MinIs
<1>3. First(s, n) = SubSeq(s, 1, m)
  BY <1>2 DEF First
<1>4. m \in Nat /\ m <= Len(s) /\ (Len(s) <= n => m = Len(s))
  BY <1>1
<1>5. /\ SubSeq(s, 1, m) \in Seq(T) /\ Len(SubSeq(s, 1, m)) = m
      /\ \A i \in 1..m : SubSeq(s, 1, m)[i] = s[i]
  <2> HIDE DEF m
  <2>1. \A i \in 1..m : s[i] \in T
    BY <1>1, <1>4
  <2> QED
    BY <1>4, <2>1, SubSeqProperties
<1>6. m = Len(s) => SubSeq(s, 1, m) = s
  BY SubSeqFull
<1>7. Len(First(s, n)) = m
  BY <1>3, <1>5
<1> HIDE DEF m
<1>8. Part(First(s, n), s)
  <2> DEFINE at == [k \in 1..m |-> k]
  <2>1. at \in [1..Len(First(s, n)) -> 1..Len(s)]
    BY <1>1, <1>4, <1>7
  <2>2. IsPart(First(s, n), s, at)
    BY <1>3, <1>5, <1>7, <2>1 DEF IsPart
  <2> QED
    BY <2>1, <2>2 DEF Part
<1> QED
  BY <1>3, <1>4, <1>5, <1>6, <1>7, <1>8 DEF m

LEMMA ConcatIs ==
    ASSUME NEW T, NEW s \in Seq(T), NEW t \in Seq(T)
    PROVE  /\ s \o t \in Seq(T)
           /\ ToSet(s \o t) = ToSet(s) \cup ToSet(t)
           /\ (Distinct(s) /\ Distinct(t) /\ ToSet(s) \cap ToSet(t) = {}) => Distinct(s \o t)
<1> DEFINE u == s \o t
<1>1. u \in Seq(T) /\ Len(u) = Len(s) + Len(t)
  BY ConcatProperties
<1>2. \A i \in 1..(Len(s) + Len(t)) : u[i] = IF i <= Len(s) THEN s[i] ELSE t[i - Len(s)]
  BY ConcatProperties
<1>3. /\ ToSet(s) = {s[i] : i \in 1..Len(s)} /\ DOMAIN s = 1..Len(s) /\ Len(s) \in Nat
      /\ ToSet(t) = {t[i] : i \in 1..Len(t)} /\ DOMAIN t = 1..Len(t) /\ Len(t) \in Nat
  BY Members
<1> HIDE DEF u
<1>4. ToSet(u) = {u[i] : i \in 1..Len(u)} /\ DOMAIN u = 1..Len(u)
  BY <1>1, Members
<1>5. \A i \in 1..Len(s) : i \in 1..Len(u) /\ u[i] = s[i]
  BY <1>1, <1>2, <1>3
<1>6. \A i \in 1..Len(t) : i + Len(s) \in 1..Len(u) /\ u[i + Len(s)] = t[i]
  <2> SUFFICES ASSUME NEW i \in 1..Len(t)
               PROVE  i + Len(s) \in 1..Len(u) /\ u[i + Len(s)] = t[i]
    OBVIOUS
  <2>1. i + Len(s) \in 1..(Len(s) + Len(t)) /\ ~(i + Len(s) <= Len(s)) /\ (i + Len(s)) - Len(s) = i
    BY <1>3
  <2> QED
    BY <1>1, <1>2, <2>1
<1>7. \A i \in 1..Len(u) :
         i \in 1..Len(s) \/ (i - Len(s) \in 1..Len(t) /\ i = (i - Len(s)) + Len(s))
  BY <1>1, <1>3
<1>8. ToSet(u) = ToSet(s) \cup ToSet(t)
  <2>1. ASSUME NEW x \in ToSet(u) PROVE x \in ToSet(s) \cup ToSet(t)
    <3>1. PICK i \in 1..Len(u) : u[i] = x
      BY <1>4
    <3>2. CASE i \in 1..Len(s)
      BY <1>3, <1>5, <3>1, <3>2
    <3>3. CASE i - Len(s) \in 1..Len(t) /\ i = (i - Len(s)) + Len(s)
      <4>1. u[i] = t[i - Len(s)]
        BY <1>6, <3>3
      <4> QED
        BY <1>3, <3>1, <3>3, <4>1
    <3> QED
      BY <1>7, <3>2, <3>3
  <2>2. ASSUME NEW x \in ToSet(s) PROVE x \in ToSet(u)
    BY <1>3, <1>4, <1>5
  <2>3. ASSUME NEW x \in ToSet(t) PROVE x \in ToSet(u)
    BY <1>3, <1>4, <1>6
  <2> QED
    BY <2>1, <2>2, <2>3
<1>9. ASSUME Distinct(s), Distinct(t), ToSet(s) \cap ToSet(t) = {} PROVE Distinct(u)
  <2> SUFFICES ASSUME NEW i \in 1..Len(u), NEW j \in 1..Len(u), u[i] = u[j] PROVE i = j
    BY <1>4 DEF Distinct
  <2>1. CASE i \in 1..Len(s) /\ j \in 1..Len(s)
    BY <1>3, <1>5, <1>9, <2>1 DEF Distinct
  <2>2. CASE i - Len(s) \in 1..Len(t) /\ j - Len(s) \in 1..Len(t)
    <3>1. u[i] = t[i - Len(s)] /\ u[j] = t[j - Len(s)]
      <4>1. i = (i - Len(s)) + Len(s) /\ j = (j - Len(s)) + Len(s)
        BY <1>3
      <4> QED
        BY <1>6, <2>2, <4>1
    <3>2. i - Len(s) = j - Len(s)
      BY <1>3, <1>9, <2>2, <3>1 DEF Distinct
    <3> QED
      BY <1>3, <3>2
  <2>3. \A k \in 1..Len(u) : k \in 1..Len(s) => u[k] \in ToSet(s)
    BY <1>3, <1>5
  <2>4. \A k \in 1..Len(u) : k - Len(s) \in 1..Len(t) => u[k] \in ToSet(t)
    <3> SUFFICES ASSUME NEW k \in 1..Len(u), k - Len(s) \in 1..Len(t) PROVE u[k] \in ToSet(t)
      OBVIOUS
    <3>1. k = (k - Len(s)) + Len(s)
      BY <1>3
    <3>2. u[k] = t[k - Len(s)]
      BY <1>6, <3>1
    <3> QED
      BY <1>3, <3>2
  <2> QED
    BY <1>7, <1>9, <2>1, <2>2, <2>3, <2>4
<1> QED
  BY <1>1, <1>8, <1>9 DEF u

-----------------------------------------------------------------------------
\* Lemmas about the reranking.

LEMMA ValidIs ==
    ASSUME NEW answer \in Seq(Int), NEW n \in Nat
    PROVE  /\ Valid(answer, n) \in Seq(Int) /\ Distinct(Valid(answer, n))
           /\ ToSet(Valid(answer, n)) \subseteq 1..n
<1> DEFINE I == {k \in DOMAIN answer : /\ answer[k] \in 1..n
                                       /\ \A m \in 1..(k - 1) : answer[m] # answer[k]}
<1>1. DOMAIN answer = 1..Len(answer) /\ Len(answer) \in Nat
  BY Members
<1>2. I \in SUBSET (1..Len(answer)) /\ {answer[i] : i \in I} \subseteq 1..n
  BY <1>1
<1>3. ASSUME NEW i \in I, NEW j \in I, answer[i] = answer[j] PROVE i = j
  <2>1. i \in Nat /\ j \in Nat /\ i >= 1 /\ j >= 1
    BY <1>1
  <2>2. ~(i \in 1..(j - 1)) /\ ~(j \in 1..(i - 1))
    BY <1>3
  <2> QED
    BY <2>1, <2>2
<1>4. Valid(answer, n) = At(answer, I)
  BY DEF Valid
<1> HIDE DEF I
<1>5. At(answer, I) \in Seq(Int) /\ ToSet(At(answer, I)) = {answer[i] : i \in I}
  BY <1>2, AtIs
<1>6. Distinct(At(answer, I))
  BY <1>2, <1>3, AtIs
<1> QED
  BY <1>2, <1>4, <1>5, <1>6

LEMMA FilledIs ==
    ASSUME NEW n \in Nat, NEW order \in Seq(Int), Distinct(order), ToSet(order) \subseteq 1..n
    PROVE  /\ Filled(order, n) \in Seq(Int) /\ Distinct(Filled(order, n))
           /\ ToSet(Filled(order, n)) = 1..n
<1> DEFINE rest == (1..n) \ ToSet(order)
           t == InOrder(rest, Less(rest))
<1>1. IsFiniteSet(rest) /\ rest \in SUBSET Int
  <2>1. IsFiniteSet(1..n)
    BY UpTo
  <2> QED
    BY <2>1, FS_Subset
<1>2. Lists(t, rest, Less(rest))
  BY <1>1, LessIsOrder, InOrderLists
<1>3. rest \cap ToSet(order) = {} /\ rest \cup ToSet(order) = 1..n
  OBVIOUS
<1>4. Filled(order, n) = order \o t
  BY DEF Filled
<1> HIDE DEF rest, t
<1>5. /\ Cardinality(rest) \in Nat /\ t \in [1..Cardinality(rest) -> rest]
      /\ \A x \in rest : \E k \in 1..Cardinality(rest) : t[k] = x
  BY <1>2 DEF Lists
<1>6. t \in [1..Cardinality(rest) -> Int]
  BY <1>1, <1>5
<1>7. t \in Seq(Int)
  BY SMTT(20), <1>5, <1>6, SeqDef
<1>8. ToSet(t) = rest
  BY <1>5 DEF ToSet
<1>9. Distinct(t)
  <2> SUFFICES ASSUME NEW j \in 1..Cardinality(rest), NEW k \in 1..Cardinality(rest), t[j] = t[k]
               PROVE  j = k
    BY <1>5 DEF Distinct
  <2>1. t[j] \in Int /\ <<t[j], t[k]>> \notin Less(rest) /\ <<t[k], t[j]>> \notin Less(rest)
    BY <1>6 DEF Less
  <2>2. ~(j < k) /\ ~(k < j)
    BY <1>2, <2>1 DEF Lists
  <2> QED
    BY <2>2
<1>10. ToSet(order) \cap ToSet(t) = {} /\ ToSet(order) \cup ToSet(t) = 1..n
  BY <1>3, <1>8
<1>11. order \o t \in Seq(Int) /\ ToSet(order \o t) = 1..n
  BY ZenonT(40), <1>7, <1>10, ConcatIs
<1>12. Distinct(order \o t)
  BY <1>7, <1>9, <1>10, ConcatIs
<1> QED
  BY <1>4, <1>11, <1>12

LEMMA ParseRankingIs ==
    ASSUME NEW answer \in Seq(Int), NEW n \in Nat
    PROVE  /\ ParseRanking(answer, n) \in Seq(Int) /\ Distinct(ParseRanking(answer, n))
           /\ ToSet(ParseRanking(answer, n)) \subseteq 1..n
<1> DEFINE f == Filled(Valid(answer, n), n)
<1>1. f \in Seq(Int) /\ Distinct(f) /\ ToSet(f) = 1..n
  BY ValidIs, FilledIs
<1>2. ParseRanking(answer, n) = First(f, FinalTopK)
  BY DEF ParseRanking
<1> HIDE DEF f
<1>3. FinalTopK \in Nat
  BY SizeAssumption
<1> QED
  BY <1>1, <1>2, <1>3, FirstIs, PartIs

LEMMA RerankedIs ==
    ASSUME NEW T, NEW s \in Seq(T), Distinct(s),
           NEW o \in Seq(Int), Distinct(o), ToSet(o) \subseteq 1..Len(s)
    PROVE  /\ [k \in DOMAIN o |-> s[o[k]]] \in Seq(T)
           /\ Distinct([k \in DOMAIN o |-> s[o[k]]])
           /\ ToSet([k \in DOMAIN o |-> s[o[k]]]) \subseteq ToSet(s)
<1> DEFINE t == [k \in DOMAIN o |-> s[o[k]]]
<1>1. /\ DOMAIN o = 1..Len(o) /\ Len(o) \in Nat /\ ToSet(o) = {o[k] : k \in 1..Len(o)}
      /\ DOMAIN s = 1..Len(s) /\ ToSet(s) = {s[i] : i \in 1..Len(s)}
      /\ \A i \in 1..Len(s) : s[i] \in T
  BY Members, ElementOfSeq
<1>2. \A k \in 1..Len(o) : o[k] \in 1..Len(s) /\ t[k] = s[o[k]]
  BY <1>1
<1>3. t \in [1..Len(o) -> T]
  BY <1>1, <1>2
<1> HIDE DEF t
<1>4. t \in Seq(T)
  BY SMTT(20), <1>1, <1>3, SeqDef
<1>5. Distinct(t)
  BY <1>1, <1>2, <1>3 DEF Distinct
<1>6. ToSet(t) \subseteq ToSet(s)
  BY <1>1, <1>2, <1>3 DEF ToSet
<1> QED
  BY <1>4, <1>5, <1>6 DEF t

-----------------------------------------------------------------------------
\* Lemmas about the scores.

Positive == Nat \ {0}
Fraction == Positive \X Positive

LEMMA Products ==
    ASSUME NEW x \in Nat, NEW y \in Nat, NEW z \in Positive
    PROVE  /\ x <= y => x * z <= y * z
           /\ x < y => x * z < y * z
           /\ x * z <= y * z => x <= y
           /\ x * z < y * z => x < y
           /\ x * z \in Nat /\ z * x = x * z
           /\ x # 0 => x * z \in Positive
BY DEF Positive

\* p, q and r are a/b, c/d and e/f.
LEMMA GreaterIsOrder ==
    ASSUME NEW p \in Fraction, NEW q \in Fraction, NEW r \in Fraction
    PROVE  /\ ~Greater(p, p)
           /\ Greater(p, q) => ~Greater(q, p)
           /\ ~Greater(q, p) /\ ~Greater(r, q) => ~Greater(r, p)
           /\ Greater(p, q) /\ ~Greater(r, q) => Greater(p, r)
           /\ ~Greater(q, p) /\ Greater(q, r) => Greater(p, r)
<1>1. PICK a \in Positive, b \in Positive : p = <<a, b>>
  BY DEF Fraction
<1>2. PICK c \in Positive, d \in Positive : q = <<c, d>>
  BY DEF Fraction
<1>3. PICK e \in Positive, f \in Positive : r = <<e, f>>
  BY DEF Fraction
<1> DEFINE ad == a * d
           cb == c * b
           cf == c * f
           ed == e * d
           af == a * f
           eb == e * b
<1>4. /\ Greater(p, p) <=> a * b > a * b
      /\ Greater(p, q) <=> ad > cb
      /\ Greater(q, p) <=> cb > ad
      /\ Greater(q, r) <=> cf > ed
      /\ Greater(r, q) <=> ed > cf
      /\ Greater(p, r) <=> af > eb
      /\ Greater(r, p) <=> eb > af
  BY <1>1, <1>2, <1>3 DEF Greater
<1>5. /\ ad \in Nat /\ cb \in Nat /\ cf \in Nat /\ ed \in Nat /\ af \in Nat /\ eb \in Nat
      /\ a * b \in Nat
  BY DEF Positive
<1>6. ad * f = af * d /\ cb * f = cf * b /\ ed * b = eb * d
  BY DEF Positive
<1> HIDE DEF ad, cb, cf, ed, af, eb
<1>7. /\ cb <= ad => cb * f <= ad * f
      /\ cb < ad => cb * f < ad * f
      /\ ed <= cf => ed * b <= cf * b
      /\ ed < cf => ed * b < cf * b
      /\ eb * d <= af * d => eb <= af
      /\ eb * d < af * d => eb < af
  BY <1>5, Products
<1>8. /\ cb * f \in Nat /\ ad * f \in Nat /\ ed * b \in Nat /\ cf * b \in Nat
      /\ eb * d \in Nat /\ af * d \in Nat
  BY <1>5 DEF Positive
<1> QED
  BY <1>4, <1>5, <1>6, <1>7, <1>8

\* A smaller denominator in both terms makes a greater sum of 1/i and 1/j.
LEMMA SumsCompare ==
    ASSUME NEW i \in Positive, NEW j \in Positive, NEW k \in Positive, NEW l \in Positive,
           i < k, j < l
    PROVE  Greater(<<i + j, i * j>>, <<k + l, k * l>>)
<1>1. i * k \in Positive /\ j * l \in Positive
  BY Products DEF Positive
<1>2. j * (i * k) < l * (i * k)
  BY <1>1, Products DEF Positive
<1>3. i * (j * l) < k * (j * l)
  BY <1>1, Products DEF Positive
<1>4. /\ (i + j) * (k * l) = l * (i * k) + k * (j * l)
      /\ (k + l) * (i * j) = j * (i * k) + i * (j * l)
  BY DEF Positive
<1>5. /\ l * (i * k) \in Nat /\ k * (j * l) \in Nat
      /\ j * (i * k) \in Nat /\ i * (j * l) \in Nat
  BY DEF Positive
<1>6. (i + j) * (k * l) > (k + l) * (i * j)
  BY <1>2, <1>3, <1>4, <1>5
<1> QED
  BY <1>6 DEF Greater

LEMMA PositionIs ==
    ASSUME NEW T, NEW s \in Seq(T), Distinct(s), NEW i \in 1..Len(s)
    PROVE  (CHOOSE k \in DOMAIN s : s[k] = s[i]) = i
<1>1. DOMAIN s = 1..Len(s)
  BY Members
<1>2. \E k \in DOMAIN s : s[k] = s[i]
  BY <1>1
<1>3. /\ (CHOOSE k \in DOMAIN s : s[k] = s[i]) \in DOMAIN s
      /\ s[CHOOSE k \in DOMAIN s : s[k] = s[i]] = s[i]
  BY <1>2
<1> QED
  BY <1>1, <1>3 DEF Distinct

\* The score of a chunk that both rankings name, at their i-th and j-th place.
LEMMA BothScore ==
    ASSUME NEW T, NEW vs \in Seq(T), NEW ks \in Seq(T), Distinct(vs), Distinct(ks),
           NEW i \in 1..Len(vs), NEW j \in 1..Len(ks), vs[i] = ks[j]
    PROVE  Rrf(vs[i], vs, ks) = <<(RrfK + i) + (RrfK + j), (RrfK + i) * (RrfK + j)>>
<1>1. vs[i] \in ToSet(vs) /\ vs[i] \in ToSet(ks)
  BY Members
<1>2. (CHOOSE k \in DOMAIN vs : vs[k] = vs[i]) = i
  BY PositionIs
<1>3. (CHOOSE k \in DOMAIN ks : ks[k] = vs[i]) = j
  BY PositionIs
<1> QED
  BY <1>1, <1>2, <1>3 DEF Rrf

LEMMA ScoreIs ==
    ASSUME NEW T, NEW vs \in Seq(T), NEW ks \in Seq(T), Distinct(vs), Distinct(ks),
           NEW c \in ToSet(vs) \cup ToSet(ks)
    PROVE  Rrf(c, vs, ks) \in Fraction
<1>1. RrfK \in Positive /\ 1 \in Positive
  BY SizeAssumption DEF Positive
<1>2. \A i \in Nat : RrfK + i \in Positive
  BY <1>1 DEF Positive
<1>3. \A a, b \in Positive : a + b \in Positive /\ a * b \in Positive
  BY Products DEF Positive
<1>4. ASSUME c \in ToSet(vs) PROVE (CHOOSE k \in DOMAIN vs : vs[k] = c) \in Nat
  <2>1. PICK i \in 1..Len(vs) : vs[i] = c
    BY <1>4, Members
  <2> QED
    BY <2>1, PositionIs
<1>5. ASSUME c \in ToSet(ks) PROVE (CHOOSE k \in DOMAIN ks : ks[k] = c) \in Nat
  <2>1. PICK i \in 1..Len(ks) : ks[i] = c
    BY <1>5, Members
  <2> QED
    BY <2>1, PositionIs
<1> DEFINE i == RrfK + CHOOSE k \in DOMAIN vs : vs[k] = c
           j == RrfK + CHOOSE k \in DOMAIN ks : ks[k] = c
<1>6. Rrf(c, vs, ks) = IF c \notin ToSet(ks) THEN <<1, i>>
                       ELSE IF c \notin ToSet(vs) THEN <<1, j>>
                       ELSE <<i + j, i * j>>
  BY DEF Rrf
<1>7. (c \in ToSet(vs) => i \in Positive) /\ (c \in ToSet(ks) => j \in Positive)
  BY <1>2, <1>4, <1>5
<1> HIDE DEF i, j
<1>8. CASE c \notin ToSet(ks)
  BY <1>1, <1>6, <1>7, <1>8 DEF Fraction
<1>9. CASE c \notin ToSet(vs) /\ c \in ToSet(ks)
  BY <1>1, <1>6, <1>7, <1>9 DEF Fraction
<1>10. CASE c \in ToSet(vs) /\ c \in ToSet(ks)
  <2>1. i \in Positive /\ j \in Positive
    BY <1>7, <1>10
  <2>2. i + j \in Positive /\ i * j \in Positive
    BY <1>3, <2>1
  <2> QED
    BY <1>6, <1>10, <2>2 DEF Fraction
<1> QED
  BY <1>8, <1>9, <1>10

LEMMA InsertedIs ==
    ASSUME NEW T, NEW vs \in Seq(T), NEW hits \in Seq(T), Distinct(vs), Distinct(hits)
    PROVE  /\ Inserted(vs, hits) \in Seq(T)
           /\ Distinct(Inserted(vs, hits))
           /\ ToSet(Inserted(vs, hits)) = ToSet(vs) \cup ToSet(hits)
<1> DEFINE new == Keep(hits, ToSet(hits) \ ToSet(vs))
<1>1. /\ new \in Seq(T)
      /\ ToSet(new) = ToSet(hits) \cap (ToSet(hits) \ ToSet(vs))
      /\ Part(new, hits)
  BY KeepIs
<1>2. Inserted(vs, hits) = vs \o new
  BY DEF Inserted
<1> HIDE DEF new
<1>3. Distinct(new)
  BY <1>1, PartIs
<1>4. ToSet(vs) \cap ToSet(new) = {} /\ ToSet(vs) \cup ToSet(new) = ToSet(vs) \cup ToSet(hits)
  BY <1>1
<1> QED
  BY <1>1, <1>2, <1>3, <1>4, ConcatIs

LEMMA MergeIs ==
    ASSUME NEW T, NEW vs \in Seq(T), NEW ks \in Seq(T), NEW hits \in Seq(T),
           Distinct(vs), Distinct(ks), Distinct(hits), ToSet(hits) \subseteq ToSet(ks)
    PROVE  /\ RrfMerge(vs, ks, hits) \in Seq(T)
           /\ Distinct(RrfMerge(vs, ks, hits))
           /\ ToSet(RrfMerge(vs, ks, hits)) = ToSet(vs) \cup ToSet(hits)
           /\ \A c, d \in ToSet(vs) \cup ToSet(hits) :
                 Greater(Rrf(c, vs, ks), Rrf(d, vs, ks)) => Ahead(RrfMerge(vs, ks, hits), c, d)
<1> DEFINE s == Inserted(vs, hits)
           n == Len(s)
           score(m) == Rrf(s[m], vs, ks)
           ahead == {p \in (DOMAIN s) \X (DOMAIN s) :
                        \/ Greater(score(p[1]), score(p[2]))
                        \/ ~Greater(score(p[2]), score(p[1])) /\ p[1] < p[2]}
           order == InOrder(DOMAIN s, ahead)
           t == [k \in DOMAIN s |-> s[order[k]]]
<1>1. RrfMerge(vs, ks, hits) = t
  BY DEF RrfMerge
<1>2. s \in Seq(T) /\ Distinct(s) /\ ToSet(s) = ToSet(vs) \cup ToSet(hits)
  BY InsertedIs
<1> HIDE DEF s
<1>3. /\ DOMAIN s = 1..n /\ n \in Nat /\ ToSet(s) = {s[i] : i \in 1..n}
      /\ \A i \in 1..n : s[i] \in T
  BY <1>2, Members, ElementOfSeq
<1>4. IsFiniteSet(1..n) /\ Cardinality(1..n) = n
  BY <1>3, UpTo
<1> DEFINE sc == [m \in 1..n |-> score(m)]
<1>5. sc \in [1..n -> Fraction] /\ \A m \in 1..n : sc[m] = Rrf(s[m], vs, ks)
  <2>1. ASSUME NEW m \in 1..n PROVE score(m) \in Fraction
    <3>1. s[m] \in ToSet(vs) \cup ToSet(ks)
      BY <1>2, <1>3
    <3> QED
      BY <3>1, ScoreIs
  <2>2. \A m \in 1..n : sc[m] = Rrf(s[m], vs, ks)
    OBVIOUS
  <2> HIDE DEF score
  <2> QED
    BY <2>1, <2>2
<1>6. ASSUME NEW i \in 1..n, NEW j \in 1..n
      PROVE  <<i, j>> \in ahead <=> \/ Greater(sc[i], sc[j])
                                    \/ ~Greater(sc[j], sc[i]) /\ i < j
  <2>1. <<i, j>> \in (DOMAIN s) \X (DOMAIN s) /\ sc[i] = score(i) /\ sc[j] = score(j)
    BY <1>3
  <2>2. <<i, j>>[1] = i /\ <<i, j>>[2] = j
    OBVIOUS
  <2> HIDE DEF score
  <2>3. <<i, j>> \in ahead <=> \/ Greater(score(i), score(j))
                               \/ ~Greater(score(j), score(i)) /\ i < j
    BY <2>1, <2>2, Zenon
  <2> HIDE DEF sc, ahead
  <2> QED
    BY <2>1, <2>3
<1> HIDE DEF sc
<1> HIDE DEF score, ahead
<1>7. IsOrder(1..n, ahead)
  <2>1. \A i \in 1..n : <<i, i>> \notin ahead
    BY <1>5, <1>6, GreaterIsOrder
  <2>2. \A i, j \in 1..n : i # j => <<i, j>> \in ahead \/ <<j, i>> \in ahead
    <3> SUFFICES ASSUME NEW i \in 1..n, NEW j \in 1..n, i # j
                 PROVE  <<i, j>> \in ahead \/ <<j, i>> \in ahead
      OBVIOUS
    <3>1. i < j \/ j < i
      BY <1>3
    <3>2. <<i, j>> \in ahead <=> \/ Greater(sc[i], sc[j])
                                 \/ ~Greater(sc[j], sc[i]) /\ i < j
      BY <1>6
    <3>3. <<j, i>> \in ahead <=> \/ Greater(sc[j], sc[i])
                                 \/ ~Greater(sc[i], sc[j]) /\ j < i
      BY <1>6
    <3> QED
      BY <3>1, <3>2, <3>3
  <2>3. ASSUME NEW i \in 1..n, NEW j \in 1..n, NEW k \in 1..n,
               <<i, j>> \in ahead, <<j, k>> \in ahead
        PROVE  <<i, k>> \in ahead
    <3>1. sc[i] \in Fraction /\ sc[j] \in Fraction /\ sc[k] \in Fraction
      BY <1>5
    <3>2. /\ Greater(sc[i], sc[j]) => ~Greater(sc[j], sc[i])
          /\ Greater(sc[j], sc[k]) => ~Greater(sc[k], sc[j])
          /\ ~Greater(sc[j], sc[i]) /\ ~Greater(sc[k], sc[j]) => ~Greater(sc[k], sc[i])
          /\ Greater(sc[i], sc[j]) /\ ~Greater(sc[k], sc[j]) => Greater(sc[i], sc[k])
          /\ ~Greater(sc[j], sc[i]) /\ Greater(sc[j], sc[k]) => Greater(sc[i], sc[k])
      BY <3>1, GreaterIsOrder
    <3>3. i < j /\ j < k => i < k
      OBVIOUS
    <3> QED
      BY <1>6, <2>3, <3>2, <3>3
  <2> QED
    BY <2>1, <2>2, <2>3 DEF IsOrder
<1>8. Lists(order, 1..n, ahead)
  BY <1>3, <1>4, <1>7, InOrderLists
<1> HIDE DEF order
<1>9. /\ order \in [1..n -> 1..n] /\ \A i \in 1..n : \E k \in 1..n : order[k] = i
      /\ \A j, k \in 1..n : j < k <=> <<order[j], order[k]>> \in ahead
  BY <1>4, <1>8 DEF Lists
<1>10. /\ t \in [1..n -> T] /\ DOMAIN t = 1..n /\ \A k \in 1..n : t[k] = s[order[k]]
  BY <1>3, <1>9
<1> HIDE DEF t
<1>11. t \in Seq(T)
  BY <1>3, <1>10, SeqDef
<1>12. ToSet(t) = {t[k] : k \in 1..n}
  BY <1>10 DEF ToSet
<1>13. ToSet(t) = ToSet(s)
  <2>1. ASSUME NEW i \in 1..n PROVE s[i] \in ToSet(t)
    <3>1. PICK k \in 1..n : order[k] = i
      BY <1>9
    <3> QED
      BY <1>10, <1>12, <3>1
  <2>2. ASSUME NEW k \in 1..n PROVE t[k] \in ToSet(s)
    BY <1>3, <1>9, <1>10
  <2> QED
    BY <1>3, <1>12, <2>1, <2>2
<1>14. Distinct(t)
  <2> SUFFICES ASSUME NEW j \in 1..n, NEW k \in 1..n, t[j] = t[k] PROVE j = k
    BY <1>10 DEF Distinct
  <2>1. order[j] \in 1..n /\ order[k] \in 1..n /\ s[order[j]] = s[order[k]]
    BY <1>9, <1>10
  <2>2. order[j] = order[k]
    BY <1>2, <1>3, <2>1 DEF Distinct
  <2>3. <<order[j], order[k]>> \notin ahead /\ <<order[k], order[j]>> \notin ahead
    BY <1>7, <2>1, <2>2 DEF IsOrder
  <2>4. ~(j < k) /\ ~(k < j)
    BY <1>9, <2>3
  <2> QED
    BY <2>4
<1>15. ASSUME NEW c \in ToSet(s), NEW d \in ToSet(s),
              Greater(Rrf(c, vs, ks), Rrf(d, vs, ks))
       PROVE  Ahead(t, c, d)
  <2>1. PICK j \in 1..n : t[j] = c
    BY <1>12, <1>13
  <2>2. PICK k \in 1..n : t[k] = d
    BY <1>12, <1>13
  <2>3. order[j] \in 1..n /\ order[k] \in 1..n /\ s[order[j]] = c /\ s[order[k]] = d
    BY <1>9, <1>10, <2>1, <2>2
  <2>4. Greater(sc[order[j]], sc[order[k]])
    BY <1>5, <1>15, <2>3
  <2>5. ASSUME NEW x \in 1..n, NEW y \in 1..n, Greater(sc[x], sc[y])
        PROVE  <<x, y>> \in ahead
    <3>1. <<x, y>> \in ahead <=> \/ Greater(sc[x], sc[y])
                                 \/ ~Greater(sc[y], sc[x]) /\ x < y
      BY <1>6
    <3> QED
      BY <2>5, <3>1
  <2>6. <<order[j], order[k]>> \in ahead
    BY <2>3, <2>4, <2>5
  <2>7. j < k
    BY <1>9, <2>6
  <2> QED
    BY <1>10, <2>1, <2>2, <2>7 DEF Ahead
<1> QED
  BY <1>1, <1>2, <1>11, <1>13, <1>14, <1>15

-----------------------------------------------------------------------------
\* The inductive invariant.

\* What the request finds, which no step changes.
RequestInv ==
    /\ settings \in Settings
    /\ vec \in VectorRankings /\ bm \in KeywordRankings \cup {<<>>}
    /\ near \in 0..Len(vec)
    /\ allowed \subseteq rows /\ rows \subseteq Chunk
    /\ restricted \in BOOLEAN
    /\ ~Bm25Enabled => bm = <<>>

\* Pages grow for restricted access only, and a refetch doubles them at once.
PageInv ==
    /\ factor \in OverfetchFactor..MaxFactor /\ refetches \in 0..MaxRefetch
    /\ ~restricted => factor = OverfetchFactor
    /\ refetches > 0 => factor >= Min({OverfetchFactor * 2, MaxFactor})

\* The chunks are those of the last search, and without reranking in its order.
ChunksInv ==
    /\ chunks \in Seq(Chunk) /\ Distinct(chunks)
    /\ ToSet(chunks) \subseteq ToSet(WithRow(Results))
    /\ pc = "reranking" => chunks = WithRow(Results) /\ ~MustRefetch
    /\ (pc \notin {"searching", "reranking"} /\ ~RerankEnabled) =>
          chunks = First(WithRow(Results), FinalTopK)

\* The verdict is the judge's, or there was nothing near enough to ask about.
VerdictInv ==
    /\ pc \in Before \cup Verdicts \cup {"raised"}
    /\ stage \in {"none", "disabled", "skipped_few", "fallback", "applied"}
    /\ reply \in Replies \cup {"none"}
    /\ pc \in Before => reply = "none"
    /\ pc = "searching" => chunks = <<>>
    /\ pc \in Verdicts =>
          \/ /\ reply = "none" /\ pc = "not_groundable"
             /\ \A c \in ToSet(chunks) : ~Near(c)
          \/ /\ reply \in Replies /\ pc = Verdict(reply)
             /\ \E c \in ToSet(chunks) : Near(c)

IInv == RequestInv /\ PageInv /\ ChunksInv /\ VerdictInv

-----------------------------------------------------------------------------
\* What a search returns.

InScope(c) == restricted => c \in allowed

LEMMA Sizes ==
    ASSUME RequestInv, PageInv
    PROVE  /\ TopK \in Positive /\ FetchK \in Positive /\ factor \in Positive
           /\ FetchK = (IF Bm25Enabled \/ restricted THEN TopK * factor ELSE TopK)
<1>1. TopK \in Positive
  BY SizeAssumption DEF TopK, Positive
<1>2. factor \in Positive
  BY SizeAssumption DEF PageInv, Positive
<1>3. TopK * factor \in Positive
  BY <1>1, <1>2, Products DEF Positive
<1> QED
  BY <1>1, <1>2, <1>3 DEF FetchK

LEMMA RankingsAre ==
    ASSUME RequestInv
    PROVE  vec \in Seq(Chunk) /\ bm \in Seq(Chunk) /\ Distinct(vec) /\ Distinct(bm)
<1>1. <<>> \in Seq(Chunk) /\ Distinct(<<>>)
  BY EmptySeq DEF Distinct
<1> QED
  BY <1>1, RankingAssumption DEF RequestInv, Distinct

LEMMA PagesAre ==
    ASSUME RequestInv, PageInv
    PROVE  /\ VectorPage \in Seq(Chunk) /\ Distinct(VectorPage) /\ Part(VectorPage, vec)
           /\ KeywordPage \in Seq(Chunk) /\ Distinct(KeywordPage) /\ Part(KeywordPage, bm)
           /\ Bm25Enabled \/ ToSet(KeywordPage) = {}
<1>1. FetchK \in Nat
  BY Sizes DEF Positive
<1>2. vec \in Seq(Chunk) /\ bm \in Seq(Chunk) /\ Distinct(vec) /\ Distinct(bm)
  BY RankingsAre
<1>3. VectorPage \in Seq(Chunk) /\ Part(VectorPage, vec)
  BY <1>1, <1>2, FirstIs DEF VectorPage
<1>4. KeywordPage \in Seq(Chunk) /\ Part(KeywordPage, bm)
  BY <1>1, <1>2, FirstIs DEF KeywordPage
<1>5. Distinct(VectorPage) /\ Distinct(KeywordPage)
  BY <1>2, <1>3, <1>4, PartIs
<1>6. ASSUME ~Bm25Enabled PROVE ToSet(KeywordPage) = {}
  <2>1. bm = <<>>
    BY <1>6 DEF RequestInv
  <2>2. ToSet(bm) = {}
    BY <2>1 DEF ToSet
  <2>3. ToSet(KeywordPage) \subseteq ToSet(bm)
    BY <1>2, <1>4, PartIs
  <2> QED
    BY <2>2, <2>3
<1> QED
  BY <1>3, <1>4, <1>5, <1>6

LEMMA FilteredIs ==
    ASSUME NEW page \in Seq(Chunk), Distinct(page)
    PROVE  /\ Filtered(page) \in Seq(Chunk) /\ Distinct(Filtered(page))
           /\ ToSet(Filtered(page)) = {c \in ToSet(page) : InScope(c)}
           /\ \A c, d \in ToSet(Filtered(page)) : Ahead(page, c, d) => Ahead(Filtered(page), c, d)
<1>1. CASE restricted
  <2>1. Filtered(page) = Keep(page, allowed)
    BY <1>1 DEF Filtered
  <2>2. /\ Keep(page, allowed) \in Seq(Chunk)
        /\ ToSet(Keep(page, allowed)) = ToSet(page) \cap allowed
        /\ Part(Keep(page, allowed), page)
    BY KeepIs
  <2>3. ToSet(page) \cap allowed = {c \in ToSet(page) : InScope(c)}
    BY <1>1 DEF InScope
  <2> QED
    BY <2>1, <2>2, <2>3, PartIs
<1>2. CASE ~restricted
  BY <1>2 DEF Filtered, InScope
<1> QED
  BY <1>1, <1>2

\* The merged list before it is cut to top_k.
Ranked == RrfMerge(Filtered(VectorPage), KeywordPage, Filtered(KeywordPage))

LEMMA RankedIs ==
    ASSUME RequestInv, PageInv
    PROVE  /\ Ranked \in Seq(Chunk) /\ Distinct(Ranked)
           /\ ToSet(Ranked) = {c \in ToSet(VectorPage) \cup ToSet(KeywordPage) : InScope(c)}
           /\ \A c, d \in ToSet(Ranked) :
                 Greater(Rrf(c, Filtered(VectorPage), KeywordPage),
                         Rrf(d, Filtered(VectorPage), KeywordPage)) => Ahead(Ranked, c, d)
<1> DEFINE vs == Filtered(VectorPage)
           ks == KeywordPage
           hits == Filtered(KeywordPage)
<1>1. /\ VectorPage \in Seq(Chunk) /\ Distinct(VectorPage)
      /\ KeywordPage \in Seq(Chunk) /\ Distinct(KeywordPage)
  BY PagesAre
<1>2. vs \in Seq(Chunk) /\ Distinct(vs) /\ ToSet(vs) = {c \in ToSet(VectorPage) : InScope(c)}
  BY <1>1, FilteredIs
<1>3. hits \in Seq(Chunk) /\ Distinct(hits) /\ ToSet(hits) = {c \in ToSet(KeywordPage) : InScope(c)}
  BY <1>1, FilteredIs
<1>4. ks \in Seq(Chunk) /\ Distinct(ks) /\ ToSet(hits) \subseteq ToSet(ks)
  BY <1>1, <1>3
<1>5. ToSet(vs) \cup ToSet(hits) = {c \in ToSet(VectorPage) \cup ToSet(KeywordPage) : InScope(c)}
  BY <1>2, <1>3
<1>6. Ranked = RrfMerge(vs, ks, hits)
  BY DEF Ranked
<1> HIDE DEF vs, ks, hits
<1>7. /\ RrfMerge(vs, ks, hits) \in Seq(Chunk) /\ Distinct(RrfMerge(vs, ks, hits))
      /\ ToSet(RrfMerge(vs, ks, hits)) = ToSet(vs) \cup ToSet(hits)
      /\ \A c, d \in ToSet(vs) \cup ToSet(hits) :
            Greater(Rrf(c, vs, ks), Rrf(d, vs, ks)) => Ahead(RrfMerge(vs, ks, hits), c, d)
  BY <1>2, <1>3, <1>4, MergeIs
<1>8. /\ Ranked \in Seq(Chunk) /\ Distinct(Ranked)
      /\ ToSet(Ranked) = {c \in ToSet(VectorPage) \cup ToSet(KeywordPage) : InScope(c)}
      /\ \A c, d \in ToSet(Ranked) :
            Greater(Rrf(c, vs, ks), Rrf(d, vs, ks)) => Ahead(Ranked, c, d)
  BY <1>5, <1>6, <1>7
<1> QED
  BY <1>8 DEF vs, ks

\* The list a search cuts its results from.
Hits == IF Bm25Enabled THEN Ranked ELSE Filtered(VectorPage)

LEMMA ResultsAre ==
    ASSUME RequestInv, PageInv
    PROVE  /\ Hits \in Seq(Chunk) /\ Distinct(Hits)
           /\ ToSet(Hits) = {c \in ToSet(VectorPage) \cup ToSet(KeywordPage) : InScope(c)}
           /\ Results = First(Hits, TopK)
           /\ Results \in Seq(Chunk) /\ Distinct(Results) /\ Part(Results, Hits)
           /\ ToSet(Results) \subseteq ToSet(Hits) /\ Len(Results) <= TopK
           /\ Len(Results) < TopK => Results = Hits
<1>1. TopK \in Nat
  BY Sizes DEF Positive
<1>2. /\ VectorPage \in Seq(Chunk) /\ Distinct(VectorPage)
      /\ Bm25Enabled \/ ToSet(KeywordPage) = {}
  BY PagesAre
<1>3. /\ Filtered(VectorPage) \in Seq(Chunk) /\ Distinct(Filtered(VectorPage))
      /\ ToSet(Filtered(VectorPage)) = {c \in ToSet(VectorPage) : InScope(c)}
  BY <1>2, FilteredIs
<1>4. /\ Hits \in Seq(Chunk) /\ Distinct(Hits)
      /\ ToSet(Hits) = {c \in ToSet(VectorPage) \cup ToSet(KeywordPage) : InScope(c)}
  <2>1. CASE Bm25Enabled
    BY <2>1, RankedIs DEF Hits
  <2>2. CASE ~Bm25Enabled
    BY <1>2, <1>3, <2>2 DEF Hits
  <2> QED
    BY <2>1, <2>2
<1>5. Results = First(Hits, TopK)
  BY DEF Results, Merged, Nearest, Hits, Ranked
<1>6. /\ First(Hits, TopK) \in Seq(Chunk)
      /\ Len(First(Hits, TopK)) = IF TopK <= Len(Hits) THEN TopK ELSE Len(Hits)
      /\ Part(First(Hits, TopK), Hits)
      /\ Len(Hits) <= TopK => First(Hits, TopK) = Hits
  BY <1>1, <1>4, FirstIs
<1>7. Len(Hits) \in Nat
  BY <1>4, Members
<1>8. Distinct(Results) /\ ToSet(Results) \subseteq ToSet(Hits)
  BY <1>4, <1>5, <1>6, PartIs
<1> QED
  BY <1>1, <1>4, <1>5, <1>6, <1>7, <1>8

LEMMA FoundIs ==
    ASSUME RequestInv, PageInv
    PROVE  /\ WithRow(Results) \in Seq(Chunk) /\ Distinct(WithRow(Results))
           /\ ToSet(WithRow(Results)) = ToSet(Results) \cap rows
           /\ \A c \in ToSet(WithRow(Results)) : c \in rows /\ InScope(c)
           /\ Part(WithRow(Results), Results)
           /\ Len(WithRow(Results)) <= TopK
           /\ (restricted /\ Len(WithRow(Results)) < TopK) => Len(Results) < TopK
<1>1. /\ Results \in Seq(Chunk) /\ Distinct(Results) /\ Len(Results) <= TopK
      /\ \A c \in ToSet(Results) : InScope(c)
  BY ResultsAre
<1>2. /\ WithRow(Results) \in Seq(Chunk)
      /\ ToSet(WithRow(Results)) = ToSet(Results) \cap rows
      /\ Part(WithRow(Results), Results)
      /\ ToSet(Results) \subseteq rows => Len(WithRow(Results)) = Len(Results)
  BY <1>1, KeepIs DEF WithRow
<1>3. Distinct(WithRow(Results))
  BY <1>1, <1>2, PartIs
<1>4. restricted => ToSet(Results) \subseteq rows
  BY <1>1 DEF InScope, RequestInv
<1>5. Len(WithRow(Results)) <= Len(Results)
  BY <1>1, <1>2, PartIsNoLonger
<1>6. TopK \in Nat /\ Len(Results) \in Nat /\ Len(WithRow(Results)) \in Nat
  BY <1>1, <1>2, Sizes, Members DEF Positive
<1> QED
  BY <1>1, <1>2, <1>3, <1>4, <1>5, <1>6

-----------------------------------------------------------------------------
\* The invariant holds.

LEMMA InvInit == Init => IInv
<1> SUFFICES ASSUME Init PROVE IInv
  OBVIOUS
<1>1. RequestInv
  BY DEF Init, RequestInv, Bm25Enabled
<1>2. PageInv
  BY SizeAssumption DEF Init, PageInv
<1>3. chunks = <<>> /\ pc = "searching"
  BY DEF Init
<1>4. ChunksInv
  <2>1. <<>> \in Seq(Chunk) /\ Distinct(<<>>) /\ ToSet(<<>>) = {}
    BY EmptySeq DEF Distinct, ToSet
  <2> QED
    BY <1>3, <2>1 DEF ChunksInv
<1>5. VerdictInv
  BY DEF Init, VerdictInv, Before, Verdicts
<1> QED
  BY <1>1, <1>2, <1>4, <1>5 DEF IInv

\* The results depend on the input and the factor only.
LEMMA ResultsStay ==
    ASSUME UNCHANGED <<input, factor>>
    PROVE  /\ WithRow(Results)' = WithRow(Results)
           /\ UNCHANGED <<TopK, FetchK, Bm25Enabled, RerankEnabled, VectorPage>>
<1>1. UNCHANGED <<settings, vec, bm, near, rows, allowed, restricted, factor>>
  BY DEF input
<1>2. UNCHANGED <<TopK, FetchK, Bm25Enabled, RerankEnabled, VectorPage, KeywordPage>>
  BY <1>1 DEF TopK, FetchK, Bm25Enabled, RerankEnabled, VectorPage, KeywordPage
<1>3. Results' = Results
  BY <1>1, <1>2 DEF Results, Merged, Nearest, Filtered
<1> QED
  BY <1>1, <1>2, <1>3 DEF WithRow

LEMMA RequestNext == RequestInv /\ [Next]_vars => RequestInv'
<1> SUFFICES ASSUME RequestInv, [Next]_vars PROVE RequestInv'
  OBVIOUS
<1>1. UNCHANGED input
  BY DEF Next, vars, input, Refetch, Retrieve, RetrieveByVectors, Rerank, TooFar, Judge
<1> QED
  BY <1>1 DEF RequestInv, input, Bm25Enabled

LEMMA PageNext == RequestInv /\ PageInv /\ [Next]_vars => PageInv'
<1> SUFFICES ASSUME RequestInv, PageInv, [Next]_vars PROVE PageInv'
  OBVIOUS
<1>1. CASE Refetch
  <2>1. /\ restricted /\ restricted' = restricted /\ NextFactor > factor
        /\ refetches < MaxRefetch /\ refetches' = refetches + 1 /\ factor' = NextFactor
    BY <1>1 DEF Refetch, MustRefetch, input
  <2>2. /\ factor \in Nat /\ OverfetchFactor \in Nat /\ MaxFactor \in Nat /\ MaxRefetch \in Nat
        /\ factor >= OverfetchFactor /\ factor <= MaxFactor /\ refetches \in Nat
    BY SizeAssumption DEF PageInv
  <2>3. NextFactor = IF factor * 2 <= MaxFactor THEN factor * 2 ELSE MaxFactor
    BY <2>2, MinIs DEF NextFactor
  <2>4. Min({OverfetchFactor * 2, MaxFactor})
           = IF OverfetchFactor * 2 <= MaxFactor THEN OverfetchFactor * 2 ELSE MaxFactor
    BY <2>2, MinIs
  <2>5. /\ NextFactor \in OverfetchFactor..MaxFactor
        /\ NextFactor >= Min({OverfetchFactor * 2, MaxFactor})
    BY <2>2, <2>3, <2>4
  <2> QED
    BY <2>1, <2>2, <2>5 DEF PageInv
<1>2. CASE UNCHANGED <<restricted, factor, refetches>>
  BY <1>2 DEF PageInv
<1> QED
  BY <1>1, <1>2
     DEF Next, vars, input, Retrieve, RetrieveByVectors, Rerank, TooFar, Judge

\* What a call of rerank makes of the chunks, whatever the model answers.
LEMMA RerankEffect ==
    ASSUME chunks \in Seq(Chunk), Distinct(chunks), Rerank
    PROVE  /\ chunks' \in Seq(Chunk) /\ Distinct(chunks')
           /\ ToSet(chunks') \subseteq ToSet(chunks)
           /\ ~RerankEnabled => chunks' = First(chunks, FinalTopK)
<1>1. FinalTopK \in Nat /\ Len(chunks) \in Nat
  BY SizeAssumption, Members
<1>2. CASE chunks' = First(chunks, FinalTopK)
  BY <1>1, <1>2, FirstIs, PartIs
<1>3. ASSUME NEW answer \in Answers, RerankEnabled,
             chunks' = LET order == ParseRanking(answer, Len(chunks))
                       IN [k \in DOMAIN order |-> chunks[order[k]]]
      PROVE  /\ chunks' \in Seq(Chunk) /\ Distinct(chunks')
             /\ ToSet(chunks') \subseteq ToSet(chunks)
  <2> DEFINE order == ParseRanking(answer, Len(chunks))
  <2>1. answer \in Seq(Int)
    BY RankingAssumption
  <2>2. order \in Seq(Int) /\ Distinct(order) /\ ToSet(order) \subseteq 1..Len(chunks)
    BY <1>1, <2>1, ParseRankingIs
  <2>3. chunks' = [k \in DOMAIN order |-> chunks[order[k]]]
    BY <1>3
  <2> HIDE DEF order
  <2> QED
    BY <2>2, <2>3, RerankedIs
<1> QED
  BY <1>2, <1>3 DEF Rerank

LEMMA ChunksNext == IInv /\ [Next]_vars => ChunksInv'
<1> SUFFICES ASSUME IInv, [Next]_vars PROVE ChunksInv'
  OBVIOUS
<1> USE DEF IInv
<1>1. CASE Refetch
  <2>1. chunks = <<>> /\ chunks' = chunks /\ pc' = "searching"
    BY <1>1 DEF Refetch, VerdictInv
  <2>2. <<>> \in Seq(Chunk) /\ Distinct(<<>>) /\ ToSet(<<>>) = {}
    BY EmptySeq DEF Distinct, ToSet
  <2> QED
    BY <2>1, <2>2 DEF ChunksInv
<1>2. CASE Retrieve \/ RetrieveByVectors
  <2>1. /\ UNCHANGED <<input, factor, refetches>> /\ pc' = "reranking"
        /\ chunks' = WithRow(Results) /\ ~MustRefetch
    BY <1>2 DEF Retrieve, RetrieveByVectors, Results
  <2>2. WithRow(Results)' = WithRow(Results)
    BY <2>1, ResultsStay
  <2>3. ~MustRefetch'
    BY <2>1 DEF MustRefetch, Results, Merged, Nearest, PageFull, NextFactor, Filtered, VectorPage,
                KeywordPage, FetchK, TopK, Bm25Enabled, RerankEnabled, input
  <2>4. WithRow(Results) \in Seq(Chunk) /\ Distinct(WithRow(Results))
    BY FoundIs
  <2> QED
    BY <2>1, <2>2, <2>3, <2>4 DEF ChunksInv
<1>3. CASE Rerank
  <2>1. UNCHANGED <<input, factor>> /\ pc = "reranking" /\ pc' = "judging"
    BY <1>3 DEF Rerank
  <2>2. /\ WithRow(Results)' = WithRow(Results) /\ RerankEnabled' = RerankEnabled
    BY <2>1, ResultsStay
  <2>3. chunks \in Seq(Chunk) /\ Distinct(chunks) /\ chunks = WithRow(Results)
    BY <2>1 DEF ChunksInv
  <2>4. /\ chunks' \in Seq(Chunk) /\ Distinct(chunks')
        /\ ToSet(chunks') \subseteq ToSet(chunks)
        /\ ~RerankEnabled => chunks' = First(chunks, FinalTopK)
    BY <1>3, <2>3, RerankEffect
  <2> QED
    BY <2>1, <2>2, <2>3, <2>4 DEF ChunksInv
<1>4. CASE TooFar \/ Judge
  <2>1. /\ UNCHANGED <<input, factor, chunks>> /\ pc = "judging"
        /\ pc' \notin {"searching", "reranking"}
    BY <1>4 DEF TooFar, Judge, Verdict, Replies
  <2>2. /\ WithRow(Results)' = WithRow(Results) /\ RerankEnabled' = RerankEnabled
    BY <2>1, ResultsStay
  <2> QED
    BY <2>1, <2>2 DEF ChunksInv
<1>5. CASE UNCHANGED vars
  <2>1. UNCHANGED <<input, factor, refetches, chunks, pc>>
    BY <1>5 DEF vars, input
  <2>2. /\ WithRow(Results)' = WithRow(Results) /\ RerankEnabled' = RerankEnabled
    BY <2>1, ResultsStay
  <2>3. MustRefetch' = MustRefetch
    BY <2>1 DEF MustRefetch, Results, Merged, Nearest, PageFull, NextFactor, Filtered, VectorPage,
                KeywordPage, FetchK, TopK, Bm25Enabled, RerankEnabled, input
  <2> QED
    BY <2>1, <2>2, <2>3 DEF ChunksInv
<1> QED
  BY <1>1, <1>2, <1>3, <1>4, <1>5 DEF Next

LEMMA VerdictNext == IInv /\ [Next]_vars => VerdictInv'
<1> SUFFICES ASSUME IInv, [Next]_vars PROVE VerdictInv'
  OBVIOUS
<1> USE DEF IInv, Before, Verdicts
<1>1. CASE Refetch
  BY <1>1 DEF Refetch, VerdictInv
<1>2. CASE Retrieve \/ RetrieveByVectors
  BY <1>2 DEF Retrieve, RetrieveByVectors, VerdictInv
<1>3. CASE Rerank
  BY <1>3 DEF Rerank, VerdictInv
<1>4. ASSUME UNCHANGED <<input, factor, chunks>>
      PROVE  \A c : Near(c)' <=> Near(c)
  <2>1. UNCHANGED <<near, vec, VectorPage>>
    BY <1>4, ResultsStay DEF input
  <2> QED
    BY <2>1 DEF Near
<1>5. CASE TooFar
  <2>1. UNCHANGED <<input, factor, chunks>>
    BY <1>5 DEF TooFar
  <2> QED
    BY <1>4, <1>5, <2>1 DEF TooFar, VerdictInv
<1>6. CASE Judge
  <2>1. UNCHANGED <<input, factor, chunks>>
    BY <1>6 DEF Judge
  <2>2. PICK r \in Replies : reply' = r /\ pc' = Verdict(r)
    BY <1>6 DEF Judge
  <2>3. Verdict(r) \in Verdicts \cup {"raised"}
    BY DEF Verdict
  <2> QED
    BY <1>4, <1>6, <2>1, <2>2, <2>3 DEF Judge, VerdictInv, Verdict
<1>7. CASE UNCHANGED vars
  <2>1. UNCHANGED <<input, factor, chunks, pc, reply, stage>>
    BY <1>7 DEF vars, input
  <2> QED
    BY <1>4, <2>1 DEF VerdictInv
<1> QED
  BY <1>1, <1>2, <1>3, <1>5, <1>6, <1>7 DEF Next

THEOREM Invariance == Spec => []IInv
<1>1. IInv /\ [Next]_vars => IInv'
  BY RequestNext, PageNext, ChunksNext, VerdictNext DEF IInv
<1> QED
  BY InvInit, <1>1, PTL DEF Spec

-----------------------------------------------------------------------------
\* The theorems.

\* The type invariant.  The last part says more: no step, and no answer of the
\* reranking model, puts a chunk twice among those an answer is written from.
LEMMA DistinctCounts ==
    ASSUME NEW T, NEW s \in Seq(T), Distinct(s)
    PROVE  Cardinality(ToSet(s)) = Len(s)
<1>1. /\ DOMAIN s = 1..Len(s) /\ Len(s) \in Nat /\ ToSet(s) = {s[i] : i \in 1..Len(s)}
      /\ s \in [1..Len(s) -> T]
  BY Members, LenProperties
<1>2. s \in [1..Len(s) -> ToSet(s)]
  BY <1>1
<1>3. s \in Bijection(1..Len(s), ToSet(s))
  BY <1>1, <1>2 DEF Bijection, Injection, IsInjective, Surjection, Distinct
<1>4. ExistsBijection(1..Len(s), ToSet(s))
  BY <1>3 DEF ExistsBijection
<1> QED
  BY <1>1, <1>4, FS_CountingElements

THEOREM TypesHold == Spec => []TypeOK
<1>1. IInv => TypeOK
  <2> SUFFICES ASSUME IInv PROVE TypeOK
    OBVIOUS
  <2>1. chunks \in Seq(Chunk) /\ Cardinality(ToSet(chunks)) = Len(chunks)
    BY DistinctCounts DEF IInv, ChunksInv
  <2> QED
    BY <2>1 DEF IInv, RequestInv, PageInv, VerdictInv, TypeOK
<1> QED
  BY <1>1, Invariance, PTL

\* Nothing outside the access scope, and nothing without a row, reaches the
\* answer, for any rankings, pages and answers of the reranking model.
THEOREM AllowedOnly == Spec => []OnlyAllowed
<1>1. IInv => OnlyAllowed
  BY FoundIs DEF IInv, ChunksInv, OnlyAllowed, InScope
<1> QED
  BY <1>1, Invariance, PTL

\* Every position of s up to n is on its page.
LEMMA PageHas ==
    ASSUME NEW T, NEW s \in Seq(T), NEW n \in Nat
    PROVE  /\ ToSet(First(s, n)) = {s[i] : i \in {j \in 1..Len(s) : j <= n}}
           /\ \A m \in Nat : (m <= n \/ Len(First(s, n)) < n) =>
                 ToSet(First(s, m)) \subseteq ToSet(First(s, n))
<1>1. Len(s) \in Nat
  BY Members
<1>2. ASSUME NEW m \in Nat
      PROVE  ToSet(First(s, m)) = {s[i] : i \in {j \in 1..Len(s) : j <= m}}
  <2>1. /\ First(s, m) \in Seq(T) /\ Len(First(s, m)) = IF m <= Len(s) THEN m ELSE Len(s)
        /\ \A i \in 1..Len(First(s, m)) : First(s, m)[i] = s[i]
    BY FirstIs
  <2>2. ToSet(First(s, m)) = {First(s, m)[i] : i \in 1..Len(First(s, m))}
    BY <2>1, Members
  <2>3. 1..Len(First(s, m)) = {j \in 1..Len(s) : j <= m}
    BY <1>1, <2>1
  <2> QED
    BY <2>1, <2>2, <2>3
<1>3. ASSUME NEW m \in Nat, m <= n \/ Len(First(s, n)) < n
      PROVE  ToSet(First(s, m)) \subseteq ToSet(First(s, n))
  <2>1. Len(First(s, n)) = IF n <= Len(s) THEN n ELSE Len(s)
    BY FirstIs
  <2>2. m <= n \/ Len(s) < n
    BY <1>1, <1>3, <2>1
  <2>3. {j \in 1..Len(s) : j <= m} \subseteq {j \in 1..Len(s) : j <= n}
    BY <1>1, <2>2
  <2> QED
    BY <1>2, <2>3
<1> QED
  BY <1>2, <1>3

\* A restricted question that goes short has every chunk it may see that either
\* ranking has within the refetched page, whatever the sizes of pages are.
THEOREM ShortOnesAreExhausted == Spec => []ShortMeansExhausted
<1>1. IInv => ShortMeansExhausted
  <2> DEFINE large == TopK * Min({OverfetchFactor * 2, MaxFactor})
  <2> SUFFICES ASSUME IInv, pc = "reranking", restricted, Len(chunks) < TopK
               PROVE  (ToSet(First(vec, large)) \cup ToSet(First(bm, large))) \cap allowed
                         \subseteq ToSet(chunks)
    BY DEF ShortMeansExhausted, Retrieved
  <2> USE DEF IInv
  <2>1. /\ chunks = WithRow(Results) /\ ~MustRefetch /\ Len(Results) < TopK
    BY FoundIs DEF ChunksInv
  <2>2. /\ ToSet(Results) = {c \in ToSet(VectorPage) \cup ToSet(KeywordPage) : InScope(c)}
        /\ ToSet(chunks) = ToSet(Results) \cap rows
    BY <2>1, ResultsAre, FoundIs
  <2>3. (ToSet(VectorPage) \cup ToSet(KeywordPage)) \cap allowed \subseteq ToSet(chunks)
    BY <2>2 DEF InScope, RequestInv
  <2>4. vec \in Seq(Chunk) /\ bm \in Seq(Chunk)
    BY RankingsAre
  <2>5. /\ TopK \in Positive /\ factor \in Positive /\ FetchK = TopK * factor /\ FetchK \in Nat
        /\ OverfetchFactor \in Positive /\ MaxFactor \in Positive
    BY Sizes, SizeAssumption DEF Positive
  <2>6. /\ Min({OverfetchFactor * 2, MaxFactor})
              = (IF OverfetchFactor * 2 <= MaxFactor THEN OverfetchFactor * 2 ELSE MaxFactor)
        /\ NextFactor = IF factor * 2 <= MaxFactor THEN factor * 2 ELSE MaxFactor
    BY <2>5, MinIs DEF NextFactor, Positive
  <2>7. Min({OverfetchFactor * 2, MaxFactor}) \in Nat
    BY <2>5, <2>6 DEF Positive
  <2>8. \/ Len(VectorPage) < FetchK /\ Len(KeywordPage) < FetchK
        \/ Min({OverfetchFactor * 2, MaxFactor}) <= factor
    <3>1. Len(VectorPage) \in Nat /\ Len(KeywordPage) \in Nat
      BY PagesAre, Members
    <3>2. \/ ~PageFull \/ ~(refetches < MaxRefetch) \/ ~(NextFactor > factor)
      BY <2>1 DEF MustRefetch
    <3>3. CASE ~PageFull
      BY <2>5, <3>1, <3>3 DEF PageFull
    <3>4. CASE ~(refetches < MaxRefetch)
      <4>1. refetches > 0
        BY <3>4, SizeAssumption DEF PageInv
      <4> QED
        BY <4>1 DEF PageInv
    <3>5. CASE ~(NextFactor > factor)
      BY <2>5, <2>6, <3>5 DEF Positive
    <3> QED
      BY <3>2, <3>3, <3>4, <3>5
  <2>9. large \in Nat
    BY <2>5, <2>7 DEF Positive
  <2>10. Min({OverfetchFactor * 2, MaxFactor}) <= factor => large <= FetchK
    <3> DEFINE m == Min({OverfetchFactor * 2, MaxFactor})
    <3>1. m <= factor => m * TopK <= factor * TopK
      BY <2>5, <2>7, Products DEF Positive
    <3> HIDE DEF m
    <3>2. large = m * TopK /\ FetchK = factor * TopK
      BY <2>5, <2>7 DEF m, Positive
    <3> QED
      BY <3>1, <3>2 DEF m
  <2> HIDE DEF large
  <2>11. /\ ToSet(First(vec, large)) \subseteq ToSet(VectorPage)
         /\ ToSet(First(bm, large)) \subseteq ToSet(KeywordPage)
    BY <2>4, <2>5, <2>8, <2>9, <2>10, PageHas DEF VectorPage, KeywordPage
  <2> QED
    BY <2>3, <2>11
<1> QED
  BY <1>1, Invariance, PTL

\* A chunk that both searches rank before another is never left behind it, and
\* never left out for it, for any rankings and any constant of the formula.
THEOREM BothAreRespected == Spec => []BothRankingsRespected
<1>1. IInv => BothRankingsRespected
  <2> SUFFICES ASSUME IInv, pc = "reranking",
                      NEW c \in ToSet(VectorPage) \cap ToSet(KeywordPage),
                      NEW d \in ToSet(VectorPage) \cap ToSet(KeywordPage),
                      Ahead(vec, c, d), Ahead(bm, c, d), c \in rows, InScope(c),
                      d \in ToSet(chunks)
               PROVE  Ahead(chunks, c, d)
    BY DEF BothRankingsRespected, Retrieved, InScope
  <2> USE DEF IInv
  <2> DEFINE vs == Filtered(VectorPage)
             ks == KeywordPage
  <2>1. /\ VectorPage \in Seq(Chunk) /\ Distinct(VectorPage) /\ Part(VectorPage, vec)
        /\ ks \in Seq(Chunk) /\ Distinct(ks) /\ Part(ks, bm)
        /\ Bm25Enabled
    BY PagesAre
  <2>2. vec \in Seq(Chunk) /\ bm \in Seq(Chunk) /\ Distinct(vec) /\ Distinct(bm)
    BY RankingsAre
  <2>3. Ahead(VectorPage, c, d) /\ Ahead(ks, c, d)
    BY <2>1, <2>2, PartIs
  <2>4. /\ chunks = WithRow(Results) /\ d \in ToSet(Results) /\ d \in rows /\ InScope(d)
    BY FoundIs DEF ChunksInv
  <2>5. /\ vs \in Seq(Chunk) /\ Distinct(vs)
        /\ ToSet(vs) = {e \in ToSet(VectorPage) : InScope(e)}
        /\ \A e, f \in ToSet(vs) : Ahead(VectorPage, e, f) => Ahead(vs, e, f)
    BY <2>1, FilteredIs
  <2>6. Ahead(vs, c, d)
    BY <2>3, <2>4, <2>5
  <2>7. /\ Results \in Seq(Chunk) /\ Distinct(Results) /\ Hits = Ranked
        /\ Hits \in Seq(Chunk) /\ Distinct(Hits)
        /\ ToSet(Hits) = {e \in ToSet(VectorPage) \cup ToSet(ks) : InScope(e)}
        /\ Results = First(Hits, TopK)
    BY <2>1, ResultsAre DEF Hits
  <2>8. c \in ToSet(Hits) /\ d \in ToSet(Hits)
    BY <2>4, <2>7
  <2>9. Greater(Rrf(c, vs, ks), Rrf(d, vs, ks))
    <3> HIDE DEF vs, ks
    <3>1. DOMAIN vs = 1..Len(vs) /\ DOMAIN ks = 1..Len(ks) /\ RrfK \in Positive
      BY <2>1, <2>5, Members, SizeAssumption DEF Positive
    <3>2. PICK i \in 1..Len(vs), k \in 1..Len(vs) : i < k /\ vs[i] = c /\ vs[k] = d
      BY <2>6, <3>1 DEF Ahead
    <3>3. PICK j \in 1..Len(ks), l \in 1..Len(ks) : j < l /\ ks[j] = c /\ ks[l] = d
      BY <2>3, <3>1 DEF Ahead
    <3>4. Rrf(c, vs, ks) = <<(RrfK + i) + (RrfK + j), (RrfK + i) * (RrfK + j)>>
      BY <2>1, <2>5, <3>2, <3>3, BothScore
    <3>5. Rrf(d, vs, ks) = <<(RrfK + k) + (RrfK + l), (RrfK + k) * (RrfK + l)>>
      BY <2>1, <2>5, <3>2, <3>3, BothScore
    <3>6. /\ RrfK + i \in Positive /\ RrfK + j \in Positive
          /\ RrfK + k \in Positive /\ RrfK + l \in Positive
          /\ RrfK + i < RrfK + k /\ RrfK + j < RrfK + l
      BY <3>1, <3>2, <3>3 DEF Positive
    <3> QED
      BY <3>4, <3>5, <3>6, SumsCompare
  <2>10. Ahead(Hits, c, d)
    BY <2>7, <2>8, <2>9, RankedIs
  <2>11. c \in ToSet(Results) /\ Ahead(Results, c, d)
    <3> HIDE DEF Hits
    <3>1. /\ TopK \in Nat
          /\ DOMAIN Hits = 1..Len(Hits) /\ Len(Hits) \in Nat
          /\ DOMAIN Results = 1..Len(Results)
          /\ ToSet(Results) = {Results[i] : i \in 1..Len(Results)}
      BY <2>7, Members, Sizes DEF Positive
    <3>2. PICK m \in 1..Len(Hits), n \in 1..Len(Hits) : m < n /\ Hits[m] = c /\ Hits[n] = d
      BY <2>10, <3>1 DEF Ahead
    <3>3. /\ Len(Results) = IF TopK <= Len(Hits) THEN TopK ELSE Len(Hits)
          /\ \A i \in 1..Len(Results) : Results[i] = Hits[i]
      BY <2>7, <3>1, FirstIs
    <3>4. PICK k \in 1..Len(Results) : Results[k] = d
      BY <2>4, <3>1
    <3>5. k \in 1..Len(Hits) /\ Hits[k] = d
      BY <3>1, <3>3, <3>4
    <3>6. k = n
      BY <2>7, <3>1, <3>2, <3>5 DEF Distinct
    <3>7. m \in 1..Len(Results) /\ n \in 1..Len(Results) /\ Results[m] = c /\ Results[n] = d
      BY <3>1, <3>2, <3>3, <3>4, <3>6
    <3> QED
      BY <3>1, <3>2, <3>7 DEF Ahead
  <2>12. c \in ToSet(chunks)
    BY <2>4, <2>11, FoundIs
  <2> QED
    BY <2>4, <2>7, <2>11, <2>12, FoundIs, PartIs
<1> QED
  BY <1>1, Invariance, PTL

\* Without access control and reranking the evaluation collects what a chat
\* retrieves, and what is near enough for it is near enough for the chat.
LEMMA SameChunks ==
    ASSUME IInv, ~restricted, ~RerankEnabled, pc \in Verdicts
    PROVE  chunks = CollectedChunks /\ (TopSimilar <=> \E c \in ToSet(chunks) : Near(c))
<1> USE DEF IInv
<1> DEFINE k == FinalTopK * OverfetchFactor
<1>1. /\ TopK = FinalTopK /\ FinalTopK \in Positive /\ OverfetchFactor \in Positive
      /\ factor = OverfetchFactor
      /\ FetchK = IF Bm25Enabled THEN k ELSE FinalTopK
  BY SizeAssumption DEF TopK, FetchK, PageInv, Positive
<1>2. k \in Positive /\ FinalTopK <= k
  <2>1. 1 * FinalTopK <= OverfetchFactor * FinalTopK
    BY <1>1, Products DEF Positive
  <2> QED
    BY <1>1, <2>1, Products DEF Positive
<1>3. chunks = First(WithRow(Results), FinalTopK)
  BY DEF ChunksInv, Verdicts
<1>4. /\ WithRow(Results) \in Seq(Chunk) /\ Len(WithRow(Results)) <= FinalTopK
  BY <1>1, FoundIs
<1>5. chunks = WithRow(Results)
  BY <1>1, <1>3, <1>4, FirstIs DEF Positive
<1>6. \A page : Filtered(page) = page
  BY DEF Filtered
<1>7. VectorPage = First(vec, FetchK) /\ KeywordPage = First(bm, FetchK)
  BY DEF VectorPage, KeywordPage
<1>8. vec \in Seq(Chunk) /\ Distinct(vec) /\ Len(vec) \in Nat
  BY RankingsAre, Members
<1>9. WithRow(Results) = CollectedChunks
  <2>1. CASE Bm25Enabled
    <3>1. Results = First(RrfMerge(First(vec, k), First(bm, k), First(bm, k)), FinalTopK)
      BY <1>1, <1>6, <1>7, <2>1 DEF Results, Merged
    <3> QED
      BY <2>1, <3>1 DEF CollectedChunks
  <2>2. CASE ~Bm25Enabled
    <3>1. Results = First(First(vec, FinalTopK), FinalTopK)
      BY <1>1, <1>6, <1>7, <2>2 DEF Results, Nearest
    <3> QED
      BY <2>2, <3>1 DEF CollectedChunks
  <2> QED
    BY <2>1, <2>2
<1>10. chunks = CollectedChunks
  BY <1>5, <1>9
<1>11. Len(VectorPage) = IF FetchK <= Len(vec) THEN FetchK ELSE Len(vec)
  BY <1>1, <1>2, <1>7, <1>8, FirstIs DEF Positive
<1>12. near \in 0..Len(vec)
  BY DEF RequestInv
<1>13. ASSUME NEW c \in ToSet(chunks)
       PROVE  Near(c) <=> \E i \in 1..near : vec[i] = c /\ i <= k
  <2>1. CASE Bm25Enabled
    BY <1>1, <1>2, <1>8, <1>11, <1>12, <2>1 DEF Near, Positive
  <2>2. CASE ~Bm25Enabled
    <3>1. c \in ToSet(VectorPage)
      BY <1>5, <2>2, FoundIs, ResultsAre, PagesAre
    <3>2. VectorPage \in Seq(Chunk) /\ \A i \in 1..Len(VectorPage) : VectorPage[i] = vec[i]
      BY <1>1, <1>7, <1>8, <2>2, FirstIs DEF Positive
    <3>3. PICK j \in 1..Len(VectorPage) : vec[j] = c
      BY <3>1, <3>2, Members
    <3>4. /\ j \in 1..Len(vec) /\ j <= k
      BY <1>1, <1>2, <1>8, <1>11, <2>2 DEF Positive
    <3>5. \A i \in 1..near : vec[i] = c => i = j
      BY <1>8, <1>12, <3>3, <3>4, Members DEF Distinct
    <3>6. j \in Nat /\ j <= Len(VectorPage)
      BY <1>1, <1>8, <1>11, <2>2 DEF Positive
    <3> QED
      BY <3>4, <3>5, <3>6 DEF Near
  <2> QED
    BY <2>1, <2>2
<1>14. TopSimilar <=> \E c \in ToSet(chunks) : \E i \in 1..near : vec[i] = c /\ i <= k
  BY <1>10 DEF TopSimilar
<1> QED
  BY <1>10, <1>13, <1>14

\* The evaluation counts for every question what a chat decides about it with the
\* same reply of the judge, for any rankings and any number of chunks.
THEOREM EvaluationTells == Spec => []EvalTellsVerdict
<1>1. IInv => EvalTellsVerdict
  <2> SUFFICES ASSUME IInv, ~restricted, ~RerankEnabled, pc \in Verdicts,
                      NEW r \in Replies \ {"malformed"}, reply \in {r, "none"}
               PROVE  pc = "groundable" <=> FinalDecision(Record(r))
    BY DEF EvalTellsVerdict
  <2>1. TopSimilar <=> \E c \in ToSet(chunks) : Near(c)
    BY SameChunks
  <2>2. FinalDecision(Record(r)) <=> TopSimilar /\ r \in {"failed", "unparsable", "yes"}
    BY DEF FinalDecision, Record, EffectiveLlmGroundable
  <2>3. \/ /\ reply = "none" /\ pc = "not_groundable"
           /\ \A c \in ToSet(chunks) : ~Near(c)
        \/ /\ reply \in Replies /\ pc = Verdict(reply)
           /\ \E c \in ToSet(chunks) : Near(c)
    BY DEF IInv, VerdictInv
  <2>4. CASE reply = "none"
    BY <2>1, <2>2, <2>3, <2>4 DEF Replies
  <2>5. CASE reply = r /\ r # "none"
    <3>1. pc = Verdict(r) /\ TopSimilar
      BY <2>1, <2>3, <2>5
    <3>2. Verdict(r) = "groundable" <=> r \in {"failed", "unparsable", "yes"}
      BY DEF Verdict, Replies
    <3> QED
      BY <2>2, <3>1, <3>2
  <2> QED
    BY <2>4, <2>5
<1> QED
  BY <1>1, Invariance, PTL
=============================================================================
