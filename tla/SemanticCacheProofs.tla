------------------------ MODULE SemanticCacheProofs ------------------------
(***************************************************************************)
(* Proofs about the semantic cache, for any number of workspaces,          *)
(* namespaces, questions and chats, any similarity and any limits: lookup  *)
(* returns the best entry, eviction takes the least recently used ones,    *)
(* nothing outlives an invalidation, and a recommended threshold holds.    *)
(***************************************************************************)
EXTENDS CacheEval, SequenceTheorems, WellFoundedInduction, TLAPS

-----------------------------------------------------------------------------
\* Lemmas about sequences.

\* Induction, as a fact about sets of numbers.
LEMMA SetInduction ==
    ASSUME NEW P \in SUBSET Nat, 0 \in P, \A n \in P : n + 1 \in P
    PROVE  P = Nat
<1> SUFFICES ASSUME Nat \ P # {} PROVE FALSE
  OBVIOUS
<1> DEFINE T == Nat \ P
<1> HIDE DEF T
<1>1. T \subseteq Nat /\ T # {}
  BY DEF T
<1>2. PICK x \in T : \A y \in T : <<y, x>> \notin OpToRel(<, Nat)
  BY <1>1, NatLessThanWellFounded, WFMin
<1>3. x # 0 /\ x \in Nat
  BY DEF T
<1>4. x - 1 \in Nat /\ x - 1 \notin P
  BY <1>3 DEF T
<1>5. x - 1 \in T /\ x - 1 < x
  BY <1>3, <1>4 DEF T
<1>6. <<x - 1, x>> \in OpToRel(<, Nat)
  BY <1>3, <1>4, <1>5 DEF OpToRel
<1> QED
  BY <1>2, <1>5, <1>6

\* The function Without is defined by, on the first n elements.
IsKept(g, s, K, n) ==
    g = [i \in 0..n |-> IF i = 0 THEN <<>>
                        ELSE IF s[i] \in K THEN g[i - 1] ELSE Append(g[i - 1], s[i])]

LEMMA KeptExists ==
    ASSUME NEW s, NEW K, NEW n \in Nat
    PROVE  \E g : IsKept(g, s, K, n)
<1> DEFINE P == {m \in Nat : \E g : IsKept(g, s, K, m)}
<1>1. 0 \in P
  <2> DEFINE g == [i \in 0..0 |-> <<>>]
  <2>1. IsKept(g, s, K, 0)
    BY DEF IsKept
  <2> QED
    BY <2>1
<1>2. ASSUME NEW m \in P PROVE m + 1 \in P
  <2>1. PICK g : IsKept(g, s, K, m)
    OBVIOUS
  <2> DEFINE last == IF s[m + 1] \in K THEN g[m] ELSE Append(g[m], s[m + 1])
             h == [i \in 0..(m + 1) |-> IF i = m + 1 THEN last ELSE g[i]]
  <2>2. \A i \in 0..m : g[i] = IF i = 0 THEN <<>>
                        ELSE IF s[i] \in K THEN g[i - 1] ELSE Append(g[i - 1], s[i])
    BY <2>1 DEF IsKept
  <2>3. h[m + 1] = last /\ \A i \in 0..m : h[i] = g[i]
    OBVIOUS
  <2>4. \A i \in 0..(m + 1) : i \in 0..m \/ i = m + 1
    OBVIOUS
  <2>5. \A i \in 1..(m + 1) : i - 1 \in 0..m
    OBVIOUS
  <2> HIDE DEF h
  <2>6. \A i \in 0..(m + 1) : h[i] = IF i = 0 THEN <<>>
                        ELSE IF s[i] \in K THEN h[i - 1] ELSE Append(h[i - 1], s[i])
    BY <2>2, <2>3, <2>4, <2>5
  <2>7. IsKept(h, s, K, m + 1)
    BY <2>6 DEF IsKept, h
  <2> QED
    BY <2>7
<1> HIDE DEF P
<1>3. P = Nat
  <2>1. P \subseteq Nat
    BY DEF P
  <2> QED
    BY <1>1, <1>2, <2>1, SetInduction
<1> QED
  BY <1>3 DEF P

Elements(s) == {s[i] : i \in 1..Len(s)}

\* Of any two elements the earlier one is related to the later one.
Ordered(s, R) == \A i, j \in 1..Len(s) : i < j => <<s[i], s[j]>> \in R

\* t is what is left of the first m elements of s.
Filters(t, s, m, S, K, R) ==
    /\ t \in Seq(S)
    /\ {t[i] : i \in 1..Len(t)} = {s[i] : i \in 1..m} \ K
    /\ Ordered(t, R)

LEMMA FilterGrows ==
    ASSUME NEW S, NEW s \in Seq(S), NEW K, NEW R, Ordered(s, R),
           NEW m \in Nat, m + 1 <= Len(s), NEW t, Filters(t, s, m, S, K, R)
    PROVE  Filters(IF s[m + 1] \in K THEN t ELSE Append(t, s[m + 1]), s, m + 1, S, K, R)
<1>1. m + 1 \in 1..Len(s) /\ s[m + 1] \in S
  BY ElementOfSeq
<1>2. {s[i] : i \in 1..(m + 1)} = {s[i] : i \in 1..m} \cup {s[m + 1]}
  BY <1>1
<1>3. CASE s[m + 1] \in K
  BY <1>2, <1>3 DEF Filters
<1>4. CASE s[m + 1] \notin K
  <2> DEFINE u == Append(t, s[m + 1])
  <2>1. /\ t \in Seq(S) /\ u \in Seq(S) /\ Len(u) = Len(t) + 1 /\ Len(t) \in Nat
        /\ u[Len(u)] = s[m + 1] /\ \A i \in 1..Len(t) : u[i] = t[i]
    BY <1>1, AppendProperties DEF Filters
  <2>2. {t[i] : i \in 1..Len(t)} = {s[i] : i \in 1..m} \ K /\ Ordered(t, R)
    BY DEF Filters
  <2> HIDE DEF u
  <2>3. {u[i] : i \in 1..Len(u)} = {t[i] : i \in 1..Len(t)} \cup {s[m + 1]}
    <3>1. \A i \in 1..Len(u) : i \in 1..Len(t) \/ i = Len(u)
      BY <2>1
    <3>2. Len(u) \in 1..Len(u) /\ \A i \in 1..Len(t) : i \in 1..Len(u)
      BY <2>1
    <3> QED
      BY <2>1, <3>1, <3>2
  <2>4. Ordered(u, R)
    <3> SUFFICES ASSUME NEW i \in 1..Len(u), NEW j \in 1..Len(u), i < j
                 PROVE  <<u[i], u[j]>> \in R
      BY DEF Ordered
    <3>1. i \in 1..Len(t) /\ (j \in 1..Len(t) \/ j = Len(u))
      BY <2>1
    <3>2. CASE j \in 1..Len(t)
      BY <2>1, <2>2, <3>1, <3>2 DEF Ordered
    <3>3. CASE j = Len(u)
      <4>1. PICK k \in 1..m : t[i] = s[k]
        BY <2>2, <3>1
      <4>2. k \in 1..Len(s) /\ m + 1 \in 1..Len(s) /\ k < m + 1
        BY <1>1
      <4>3. <<s[k], s[m + 1]>> \in R
        BY <4>2 DEF Ordered
      <4> QED
        BY <2>1, <3>1, <3>3, <4>1, <4>3
    <3> QED
      BY <3>1, <3>2, <3>3
  <2>5. Filters(u, s, m + 1, S, K, R)
    <3>1. {u[i] : i \in 1..Len(u)} = {s[i] : i \in 1..(m + 1)} \ K
      BY <1>2, <1>4, <2>2, <2>3
    <3> QED
      BY <2>1, <2>4, <3>1 DEF Filters
  <2> QED
    BY <1>4, <2>5 DEF u
<1> QED
  BY <1>3, <1>4

\* What is left keeps its order, whatever the order is.
LEMMA WithoutIs ==
    ASSUME NEW S, NEW s \in Seq(S), NEW K, NEW R, Ordered(s, R)
    PROVE  /\ Without(s, K) \in Seq(S)
           /\ Elements(Without(s, K)) = Elements(s) \ K
           /\ Ordered(Without(s, K), R)
<1> DEFINE g[i \in 0..Len(s)] ==
              IF i = 0 THEN <<>>
              ELSE IF s[i] \in K THEN g[i - 1] ELSE Append(g[i - 1], s[i])
<1>1. Len(s) \in Nat
  OBVIOUS
<1>2. IsKept(g, s, K, Len(s))
  <2>1. \E h : IsKept(h, s, K, Len(s))
    BY <1>1, KeptExists
  <2> QED
    BY <2>1 DEF IsKept
<1>3. Without(s, K) = g[Len(s)]
  BY DEF Without
<1> HIDE DEF g
<1> DEFINE P == {m \in Nat : m <= Len(s) => Filters(g[m], s, m, S, K, R)}
<1>4. 0 \in P
  <2>1. g[0] = <<>>
    BY <1>1, <1>2 DEF IsKept
  <2>2. Filters(<<>>, s, 0, S, K, R)
    BY DEF Ordered, Filters
  <2> QED
    BY <2>1, <2>2
<1>5. ASSUME NEW m \in P PROVE m + 1 \in P
  <2>1. m \in Nat /\ (m <= Len(s) => Filters(g[m], s, m, S, K, R))
    OBVIOUS
  <2>2. ASSUME m + 1 <= Len(s) PROVE Filters(g[m + 1], s, m + 1, S, K, R)
    <3>1. m + 1 \in 0..Len(s) /\ m + 1 # 0 /\ (m + 1) - 1 = m /\ m <= Len(s)
      BY <1>1, <2>1, <2>2
    <3>2. g[m + 1] = IF s[m + 1] \in K THEN g[(m + 1) - 1] ELSE Append(g[(m + 1) - 1], s[m + 1])
      BY <1>2, <3>1 DEF IsKept
    <3> QED
      BY <2>1, <2>2, <3>1, <3>2, FilterGrows
  <2> QED
    BY <2>1, <2>2
<1> HIDE DEF P
<1>6. P = Nat
  <2>1. P \subseteq Nat
    BY DEF P
  <2> QED
    BY <1>4, <1>5, <2>1, SetInduction
<1>7. Filters(Without(s, K), s, Len(s), S, K, R)
  BY <1>1, <1>3, <1>6 DEF P
<1> QED
  BY <1>7 DEF Filters, Elements

LEMMA AppendIs ==
    ASSUME NEW S, NEW s \in Seq(S), NEW k \in S
    PROVE  /\ Append(s, k) \in Seq(S)
           /\ Len(Append(s, k)) = Len(s) + 1 /\ Len(s) \in Nat
           /\ Append(s, k)[Len(s) + 1] = k
           /\ \A i \in 1..Len(s) : Append(s, k)[i] = s[i]
           /\ Elements(Append(s, k)) = Elements(s) \cup {k}
<1> DEFINE u == Append(s, k)
<1>1. /\ u \in Seq(S) /\ Len(u) = Len(s) + 1 /\ Len(s) \in Nat
      /\ u[Len(u)] = k /\ \A i \in 1..Len(s) : u[i] = s[i]
  BY AppendProperties
<1> HIDE DEF u
<1>2. \A i \in 1..Len(u) : i \in 1..Len(s) \/ i = Len(u)
  BY <1>1
<1>3. Len(u) \in 1..Len(u) /\ \A i \in 1..Len(s) : i \in 1..Len(u)
  BY <1>1
<1>4. Elements(u) = Elements(s) \cup {k}
  BY <1>1, <1>2, <1>3 DEF Elements
<1> QED
  BY <1>1, <1>4 DEF u

LEMMA AppendOrdered ==
    ASSUME NEW S, NEW s \in Seq(S), NEW k \in S, NEW R, Ordered(s, R),
           \A j \in Elements(s) : <<j, k>> \in R
    PROVE  Ordered(Append(s, k), R)
<1> DEFINE u == Append(s, k)
<1>1. /\ u \in Seq(S) /\ Len(u) = Len(s) + 1 /\ Len(s) \in Nat
      /\ u[Len(u)] = k /\ \A i \in 1..Len(s) : u[i] = s[i]
  BY AppendIs
<1> HIDE DEF u
<1>2. ASSUME NEW i \in 1..Len(u), NEW j \in 1..Len(u), i < j PROVE <<u[i], u[j]>> \in R
  <2>1. i \in 1..Len(s) /\ (j \in 1..Len(s) \/ j = Len(u))
    BY <1>1, <1>2
  <2> QED
    BY <1>1, <1>2, <2>1 DEF Ordered, Elements
<1> QED
  BY <1>2 DEF Ordered, u

\* The first of the greatest values of a function on 1..n.
LEMMA FirstGreatest ==
    ASSUME NEW n \in Nat \ {0}, NEW f \in [1..n -> Int]
    PROVE  \E i \in 1..n : \A j \in 1..n : f[j] <= f[i] /\ (j < i => f[j] < f[i])
<1> DEFINE First(m) == \E i \in 1..m : \A j \in 1..m : f[j] <= f[i] /\ (j < i => f[j] < f[i])
           P == {m \in Nat : m + 1 <= n => First(m + 1)}
<1>1. 0 \in P
  <2>1. 1 \in 1..1 /\ \A j \in 1..1 : j = 1
    OBVIOUS
  <2>2. f[1] \in Int
    OBVIOUS
  <2> QED
    BY <2>1, <2>2
<1>2. ASSUME NEW m \in P PROVE m + 1 \in P
  <2>1. m \in Nat /\ (m + 1 <= n => First(m + 1))
    OBVIOUS
  <2>2. ASSUME (m + 1) + 1 <= n PROVE First((m + 1) + 1)
    <3>1. First(m + 1)
      BY <2>1, <2>2
    <3>2. PICK i \in 1..(m + 1) : \A j \in 1..(m + 1) : f[j] <= f[i] /\ (j < i => f[j] < f[i])
      BY <3>1
    <3>3. m + 2 \in 1..n /\ \A j \in 1..(m + 1) : j \in 1..n
      BY <2>1, <2>2
    <3>4. /\ f[m + 2] \in Int /\ f[i] \in Int /\ \A j \in 1..(m + 1) : f[j] \in Int
          /\ \A j \in 1..(m + 2) : j \in 1..(m + 1) \/ j = m + 2
      BY <2>1, <3>3
    <3>5. CASE f[m + 2] > f[i]
      <4>1. \A j \in 1..(m + 2) : f[j] <= f[m + 2] /\ (j < m + 2 => f[j] < f[m + 2])
        BY <2>1, <3>2, <3>4, <3>5
      <4>2. m + 2 \in 1..(m + 2) /\ (m + 1) + 1 = m + 2
        BY <2>1
      <4> QED
        BY <4>1, <4>2
    <3>6. CASE f[m + 2] <= f[i]
      <4>1. i \in 1..(m + 2) /\ i < m + 2 /\ (m + 1) + 1 = m + 2
        BY <2>1
      <4>2. \A j \in 1..(m + 2) : f[j] <= f[i] /\ (j < i => f[j] < f[i])
        BY <2>1, <3>2, <3>4, <3>6, <4>1
      <4> QED
        BY <4>1, <4>2
    <3> QED
      BY <3>4, <3>5, <3>6
  <2> QED
    BY <2>1, <2>2
<1> HIDE DEF P
<1>3. P = Nat
  <2>1. P \subseteq Nat
    BY DEF P
  <2> QED
    BY <1>1, <1>2, <2>1, SetInduction
<1>4. n - 1 \in P
  BY <1>3
<1> QED
  BY <1>4 DEF P

-----------------------------------------------------------------------------
\* The value of a cache.

LiveOf(c, ns) == {k \in Live(c) : c.entry[k].ns = ns}

Distinct == {p \in Nat \X Nat : p[1] # p[2]}

\* s lists the keys in K, each of them once.
Lists(s, K) == s \in Seq(Nat) /\ Elements(s) = K /\ Ordered(s, Distinct)

Shape(c) ==
    /\ DOMAIN c = {"entry", "order", "lru", "gen", "next"}
    /\ c.gen \in [Workspace -> Nat] /\ c.next \in Nat
    /\ c.order \in [Namespace -> Seq(Nat)] /\ c.lru \in [Workspace -> Seq(Nat)]

IsEntry(c, k) ==
    /\ k \in Nat /\ k < c.next
    /\ c.entry[k].ns \in Namespace /\ c.entry[k].query \in Query /\ c.entry[k].at \in Nat
    /\ c.entry[k].answer = c.gen[WorkspaceOf[c.entry[k].ns]]

\* The two orders list exactly the live entries, and every answer is of the
\* generation of its workspace.
CacheInv(c) ==
    /\ Shape(c)
    /\ \A k \in Live(c) : IsEntry(c, k)
    /\ \A ns \in Namespace : Lists(c.order[ns], LiveOf(c, ns))
    /\ \A w \in Workspace : Lists(c.lru[w], LiveIn(c, w))

\* d has some entries of c, unchanged.
Part(c, d) ==
    /\ Live(d) \subseteq Live(c)
    /\ \A k \in Live(d) : d.entry[k] = c.entry[k]
    /\ d.gen = c.gen /\ d.next = c.next

LEMMA EmptyIs == CacheInv(EmptyCache) /\ Live(EmptyCache) = {}
<1> DEFINE c == EmptyCache
<1>1. /\ DOMAIN c = {"entry", "order", "lru", "gen", "next"}
      /\ c.entry = <<>> /\ c.order = [ns \in Namespace |-> <<>>]
      /\ c.lru = [w \in Workspace |-> <<>>] /\ c.gen = [w \in Workspace |-> 0] /\ c.next = 0
  BY DEF EmptyCache
<1> HIDE DEF c
<1>2. Live(c) = {}
  BY <1>1 DEF Live
<1>3. Lists(<<>>, {})
  BY DEF Lists, Elements, Ordered
<1>4. (\A ns \in Namespace : LiveOf(c, ns) = {}) /\ \A w \in Workspace : LiveIn(c, w) = {}
  BY <1>2 DEF LiveOf, LiveIn
<1>5. Shape(c)
  BY <1>1 DEF Shape
<1> QED
  BY <1>1, <1>2, <1>3, <1>4, <1>5 DEF CacheInv, c

LEMMA WithoutLists ==
    ASSUME NEW s, NEW L, Lists(s, L), NEW K
    PROVE  Lists(Without(s, K), L \ K)
BY WithoutIs DEF Lists

\* _drop keeps the orders of the rest.
LEMMA DropIs ==
    ASSUME NEW c, CacheInv(c), NEW K
    PROVE  /\ CacheInv(Drop(c, K)) /\ Part(c, Drop(c, K)) /\ Live(Drop(c, K)) = Live(c) \ K
           /\ \A ns \in Namespace : LiveOf(Drop(c, K), ns) = LiveOf(c, ns) \ K
           /\ \A w \in Workspace : Drop(c, K).lru[w] = Without(c.lru[w], K)
<1> DEFINE d == Drop(c, K)
<1>1. /\ DOMAIN d = {"entry", "order", "lru", "gen", "next"}
      /\ d.entry = [k \in Live(c) \ K |-> c.entry[k]]
      /\ d.order = [ns \in Namespace |-> Without(c.order[ns], K)]
      /\ d.lru = [w \in Workspace |-> Without(c.lru[w], K)]
      /\ d.gen = c.gen /\ d.next = c.next
  BY DEF Drop, CacheInv, Shape, Live
<1> HIDE DEF d
<1>2. Live(d) = Live(c) \ K /\ \A k \in Live(d) : d.entry[k] = c.entry[k]
  BY <1>1 DEF Live
<1>3. ASSUME NEW ns \in Namespace
      PROVE  LiveOf(d, ns) = LiveOf(c, ns) \ K /\ Lists(d.order[ns], LiveOf(d, ns))
  <2>1. LiveOf(d, ns) = LiveOf(c, ns) \ K
    BY <1>2 DEF LiveOf
  <2>2. Lists(Without(c.order[ns], K), LiveOf(c, ns) \ K)
    BY WithoutLists DEF CacheInv
  <2> QED
    BY <1>1, <2>1, <2>2
<1>4. ASSUME NEW w \in Workspace PROVE Lists(d.lru[w], LiveIn(d, w))
  <2>1. LiveIn(d, w) = LiveIn(c, w) \ K
    BY <1>2 DEF LiveIn
  <2>2. Lists(Without(c.lru[w], K), LiveIn(c, w) \ K)
    BY WithoutLists DEF CacheInv
  <2> QED
    BY <1>1, <2>1, <2>2
<1>5. \A k \in Live(d) : IsEntry(d, k)
  BY <1>1, <1>2 DEF CacheInv, IsEntry
<1>6. d.order \in [Namespace -> Seq(Nat)] /\ d.lru \in [Workspace -> Seq(Nat)]
  BY <1>1, <1>3, <1>4 DEF Lists
<1>7. CacheInv(d)
  BY <1>1, <1>3, <1>4, <1>5, <1>6 DEF CacheInv, Shape
<1> QED
  BY <1>1, <1>2, <1>3, <1>7 DEF Part, d

LEMMA ToEndLists ==
    ASSUME NEW s, NEW L, Lists(s, L), NEW k \in Nat
    PROVE  Lists(ToEnd(s, k), L \cup {k})
<1>1. Lists(Without(s, {k}), L \ {k})
  BY WithoutLists
<1> DEFINE t == Without(s, {k})
<1>2. t \in Seq(Nat) /\ Elements(t) = L \ {k} /\ Ordered(t, Distinct)
  BY <1>1 DEF Lists
<1>3. Elements(t) \subseteq Nat
  BY <1>2, ElementOfSeq DEF Elements
<1>4. ToEnd(s, k) = Append(t, k)
  BY DEF ToEnd
<1> HIDE DEF t
<1>5. \A j \in Elements(t) : <<j, k>> \in Distinct
  BY <1>2, <1>3 DEF Distinct
<1>6. Append(t, k) \in Seq(Nat) /\ Elements(Append(t, k)) = Elements(t) \cup {k}
  BY <1>2, AppendIs
<1>7. Ordered(Append(t, k), Distinct)
  BY <1>2, <1>5, AppendOrdered
<1>8. Elements(t) \cup {k} = L \cup {k}
  BY <1>2
<1> QED
  BY <1>4, <1>6, <1>7, <1>8 DEF Lists

\* _bump only moves the key to the end of its two orders.
LEMMA BumpIs ==
    ASSUME NEW c, CacheInv(c), NEW k \in Live(c)
    PROVE  /\ CacheInv(Bump(c, k)) /\ Part(c, Bump(c, k)) /\ Live(Bump(c, k)) = Live(c)
           /\ \A w \in Workspace :
                Bump(c, k).lru[w] = IF k \in LiveIn(c, w) THEN ToEnd(c.lru[w], k) ELSE c.lru[w]
<1> DEFINE d == Bump(c, k)
           home == c.entry[k].ns
<1>1. k \in Nat /\ home \in Namespace /\ WorkspaceOf[home] \in Workspace
  BY NamespaceAssumption DEF CacheInv, IsEntry
<1>2. /\ DOMAIN d = {"entry", "order", "lru", "gen", "next"}
      /\ d.entry = c.entry /\ d.gen = c.gen /\ d.next = c.next
      /\ d.order = [c.order EXCEPT ![home] = ToEnd(@, k)]
      /\ d.lru = [c.lru EXCEPT ![WorkspaceOf[home]] = ToEnd(@, k)]
  BY DEF Bump, CacheInv, Shape
<1> HIDE DEF d
<1>3. Live(d) = Live(c) /\ (\A ns : LiveOf(d, ns) = LiveOf(c, ns))
      /\ \A w : LiveIn(d, w) = LiveIn(c, w)
  BY <1>2 DEF Live, LiveOf, LiveIn
<1>4. ASSUME NEW ns \in Namespace PROVE Lists(d.order[ns], LiveOf(d, ns))
  <2>1. Lists(c.order[ns], LiveOf(c, ns))
    BY DEF CacheInv
  <2>2. CASE ns = home
    <3>1. k \in LiveOf(c, ns)
      BY <2>2 DEF LiveOf
    <3>2. Lists(ToEnd(c.order[ns], k), LiveOf(c, ns) \cup {k})
      BY <1>1, <2>1, ToEndLists
    <3>3. LiveOf(c, ns) \cup {k} = LiveOf(c, ns)
      BY <3>1
    <3> QED
      BY <1>1, <1>2, <1>3, <2>2, <3>2, <3>3 DEF CacheInv, Shape
  <2>3. CASE ns # home
    BY <1>1, <1>2, <1>3, <2>1, <2>3 DEF CacheInv, Shape
  <2> QED
    BY <2>2, <2>3
<1>5. ASSUME NEW w \in Workspace
      PROVE  /\ Lists(d.lru[w], LiveIn(d, w))
             /\ d.lru[w] = IF k \in LiveIn(c, w) THEN ToEnd(c.lru[w], k) ELSE c.lru[w]
  <2>1. Lists(c.lru[w], LiveIn(c, w))
    BY DEF CacheInv
  <2>2. k \in LiveIn(c, w) <=> w = WorkspaceOf[home]
    BY DEF LiveIn
  <2>3. CASE w = WorkspaceOf[home]
    <3>1. d.lru[w] = ToEnd(c.lru[w], k)
      BY <1>1, <1>2, <2>3 DEF CacheInv, Shape
    <3>2. Lists(ToEnd(c.lru[w], k), LiveIn(c, w) \cup {k})
      BY <1>1, <2>1, ToEndLists
    <3>3. LiveIn(c, w) \cup {k} = LiveIn(d, w)
      BY <1>3, <2>2, <2>3
    <3> QED
      BY <2>2, <2>3, <3>1, <3>2, <3>3
  <2>4. CASE w # WorkspaceOf[home]
    BY <1>1, <1>2, <1>3, <2>1, <2>2, <2>4 DEF CacheInv, Shape
  <2> QED
    BY <2>3, <2>4
<1>6. \A j \in Live(d) : IsEntry(d, j)
  BY <1>2, <1>3 DEF CacheInv, IsEntry
<1>7. d.order \in [Namespace -> Seq(Nat)] /\ d.lru \in [Workspace -> Seq(Nat)]
  <2>1. (\A ns \in Namespace : d.order[ns] \in Seq(Nat)) /\ \A w \in Workspace : d.lru[w] \in Seq(Nat)
    BY <1>4, <1>5 DEF Lists
  <2> QED
    BY <1>2, <2>1 DEF CacheInv, Shape
<1>8. CacheInv(d)
  BY <1>2, <1>4, <1>5, <1>6, <1>7 DEF CacheInv, Shape
<1> QED
  BY <1>2, <1>3, <1>5, <1>8 DEF Part, d

\* store adds an entry of its own and evicts the oldest beyond the limit.
LEMMA StoreIs ==
    ASSUME NEW c, CacheInv(c), NEW ns \in Namespace, NEW q \in Query, NEW now \in Nat
    PROVE  LET d == Store(c, ns, q, c.gen[WorkspaceOf[ns]], now)
               home == WorkspaceOf[ns]
               grown == Append(c.lru[home], c.next)
               old == Overflow(grown)
           IN /\ CacheInv(d) /\ d.gen = c.gen /\ d.next = c.next + 1
              /\ c.next \notin Live(c) /\ Live(d) = (Live(c) \cup {c.next}) \ old
              /\ \A k \in Live(d) \ {c.next} : d.entry[k] = c.entry[k]
              /\ d.lru[home] = Without(grown, old)
              /\ \A w \in Workspace \ {home} : d.lru[w] = Without(c.lru[w], old)
<1> DEFINE home == WorkspaceOf[ns]
           k == c.next
           entry == [ns |-> ns, query |-> q, at |-> now, answer |-> c.gen[home]]
           a == [c EXCEPT !.entry = [j \in DOMAIN @ \cup {k} |-> IF j = k THEN entry ELSE @[j]],
                          !.order[ns] = Append(@, k),
                          !.lru[home] = Append(@, k),
                          !.next = k + 1]
           d == Store(c, ns, q, c.gen[home], now)
<1>1. home \in Workspace /\ k \in Nat
  BY NamespaceAssumption DEF CacheInv, Shape
<1>2. /\ DOMAIN a = {"entry", "order", "lru", "gen", "next"}
      /\ a.entry = [j \in Live(c) \cup {k} |-> IF j = k THEN entry ELSE c.entry[j]]
      /\ a.order = [c.order EXCEPT ![ns] = Append(@, k)]
      /\ a.lru = [c.lru EXCEPT ![home] = Append(@, k)]
      /\ a.gen = c.gen /\ a.next = k + 1
  BY DEF CacheInv, Shape, Live
<1>3. d = Drop(a, Overflow(a.lru[home]))
  BY DEF Store
<1>4. entry.ns = ns /\ entry.query = q /\ entry.at = now /\ entry.answer = c.gen[home]
  OBVIOUS
<1> HIDE DEF a, d, entry
<1>5. k \notin Live(c)
  BY DEF CacheInv, IsEntry
<1>6. /\ Live(a) = Live(c) \cup {k} /\ a.entry[k] = entry
      /\ \A j \in Live(c) : a.entry[j] = c.entry[j]
  BY <1>2, <1>5 DEF Live
<1>7. \A j \in Live(a) : IsEntry(a, j)
  <2>1. IsEntry(a, k)
    BY <1>1, <1>2, <1>4, <1>6 DEF IsEntry
  <2>2. ASSUME NEW j \in Live(c) PROVE IsEntry(a, j)
    BY <1>1, <1>2, <1>6 DEF IsEntry, CacheInv
  <2> QED
    BY <1>6, <2>1, <2>2
<1>8. ASSUME NEW s, NEW L, Lists(s, L), L \subseteq Live(c)
      PROVE  Lists(Append(s, k), L \cup {k})
  <2>1. s \in Seq(Nat) /\ Elements(s) = L /\ Ordered(s, Distinct)
    BY <1>8 DEF Lists
  <2>2. Append(s, k) \in Seq(Nat) /\ Elements(Append(s, k)) = L \cup {k}
    BY <1>1, <2>1, AppendIs
  <2>3. \A j \in L : j \in Nat /\ j # k
    BY <1>5, <1>8 DEF CacheInv, IsEntry
  <2>4. \A j \in Elements(s) : <<j, k>> \in Distinct
    BY <1>1, <2>1, <2>3 DEF Distinct
  <2>5. Ordered(Append(s, k), Distinct)
    BY <1>1, <2>1, <2>4, AppendOrdered
  <2> QED
    BY <2>2, <2>5 DEF Lists
<1>9. ASSUME NEW n \in Namespace PROVE Lists(a.order[n], LiveOf(a, n))
  <2>1. Lists(c.order[n], LiveOf(c, n))
    BY DEF CacheInv
  <2>2. CASE n = ns
    <3>1. LiveOf(a, n) = LiveOf(c, n) \cup {k}
      BY <1>4, <1>6, <2>2 DEF LiveOf
    <3>2. Lists(Append(c.order[n], k), LiveOf(c, n) \cup {k})
      BY <1>8, <2>1 DEF LiveOf
    <3> QED
      BY <1>2, <2>2, <3>1, <3>2 DEF CacheInv, Shape
  <2>3. CASE n # ns
    <3>1. LiveOf(a, n) = LiveOf(c, n)
      BY <1>4, <1>6, <2>3 DEF LiveOf
    <3> QED
      BY <1>2, <2>1, <2>3, <3>1 DEF CacheInv, Shape
  <2> QED
    BY <2>2, <2>3
<1>10. ASSUME NEW w \in Workspace PROVE Lists(a.lru[w], LiveIn(a, w))
  <2>1. Lists(c.lru[w], LiveIn(c, w))
    BY DEF CacheInv
  <2>2. CASE w = home
    <3>1. LiveIn(a, w) = LiveIn(c, w) \cup {k}
      BY <1>4, <1>6, <2>2 DEF LiveIn
    <3>2. Lists(Append(c.lru[w], k), LiveIn(c, w) \cup {k})
      BY <1>8, <2>1 DEF LiveIn
    <3> QED
      BY <1>1, <1>2, <2>2, <3>1, <3>2 DEF CacheInv, Shape
  <2>3. CASE w # home
    <3>1. LiveIn(a, w) = LiveIn(c, w)
      BY <1>4, <1>6, <2>3 DEF LiveIn
    <3> QED
      BY <1>2, <2>1, <2>3, <3>1 DEF CacheInv, Shape
  <2> QED
    BY <2>2, <2>3
<1>11. a.order \in [Namespace -> Seq(Nat)] /\ a.lru \in [Workspace -> Seq(Nat)]
  <2>1. (\A n \in Namespace : a.order[n] \in Seq(Nat)) /\ \A w \in Workspace : a.lru[w] \in Seq(Nat)
    BY <1>9, <1>10 DEF Lists
  <2> QED
    BY <1>2, <2>1 DEF CacheInv, Shape
<1>12. CacheInv(a)
  BY <1>1, <1>2, <1>7, <1>9, <1>10, <1>11 DEF CacheInv, Shape
<1>13. /\ a.lru[home] = Append(c.lru[home], k)
       /\ \A w \in Workspace \ {home} : a.lru[w] = c.lru[w]
  BY <1>1, <1>2 DEF CacheInv, Shape
<1> DEFINE old == Overflow(Append(c.lru[home], k))
<1>14. /\ CacheInv(d) /\ Part(a, d) /\ Live(d) = Live(a) \ old
       /\ \A w \in Workspace : d.lru[w] = Without(a.lru[w], old)
  BY <1>3, <1>12, <1>13, DropIs
<1> HIDE DEF old
<1>15. /\ CacheInv(d) /\ d.gen = c.gen /\ d.next = c.next + 1
       /\ c.next \notin Live(c) /\ Live(d) = (Live(c) \cup {c.next}) \ old
       /\ \A j \in Live(d) \ {c.next} : d.entry[j] = c.entry[j]
       /\ d.lru[home] = Without(Append(c.lru[home], k), old)
       /\ \A w \in Workspace \ {home} : d.lru[w] = Without(c.lru[w], old)
  BY ZenonT(40), <1>1, <1>2, <1>5, <1>6, <1>13, <1>14 DEF Part
<1> QED
  BY <1>15 DEF d, old

\* invalidate_workspace leaves the other workspaces as they are.
LEMMA InvalidateIs ==
    ASSUME NEW c, CacheInv(c), NEW w \in Workspace
    PROVE  LET d == InvalidateWorkspace(c, w)
           IN /\ CacheInv(d) /\ d.next = c.next /\ Live(d) = Live(c) \ LiveIn(c, w)
              /\ \A v \in Workspace : d.lru[v] = IF v = w THEN <<>> ELSE c.lru[v]
<1> DEFINE d == InvalidateWorkspace(c, w)
<1>1. /\ DOMAIN d = {"entry", "order", "lru", "gen", "next"}
      /\ d.entry = [k \in Live(c) \ LiveIn(c, w) |-> c.entry[k]]
      /\ d.order = [ns \in Namespace |-> IF WorkspaceOf[ns] = w THEN <<>> ELSE c.order[ns]]
      /\ d.lru = [c.lru EXCEPT ![w] = <<>>]
      /\ d.gen = [c.gen EXCEPT ![w] = @ + 1] /\ d.next = c.next
  BY DEF InvalidateWorkspace, CacheInv, Shape, Live
<1> HIDE DEF d
<1>2. /\ Live(d) = Live(c) \ LiveIn(c, w)
      /\ \A k \in Live(d) : d.entry[k] = c.entry[k] /\ WorkspaceOf[c.entry[k].ns] # w
  BY <1>1 DEF Live, LiveIn
<1>3. d.gen \in [Workspace -> Nat] /\ \A v \in Workspace \ {w} : d.gen[v] = c.gen[v]
  BY <1>1 DEF CacheInv, Shape
<1>4. ASSUME NEW k \in Live(d) PROVE IsEntry(d, k)
  <2>1. IsEntry(c, k) /\ d.entry[k] = c.entry[k] /\ WorkspaceOf[c.entry[k].ns] # w
    BY <1>2 DEF CacheInv
  <2>2. WorkspaceOf[c.entry[k].ns] \in Workspace
    BY <2>1, NamespaceAssumption DEF IsEntry
  <2> QED
    BY <1>1, <1>3, <2>1, <2>2 DEF IsEntry
<1>5. Lists(<<>>, {})
  BY DEF Lists, Elements, Ordered
<1>6. ASSUME NEW ns \in Namespace PROVE Lists(d.order[ns], LiveOf(d, ns))
  <2>1. CASE WorkspaceOf[ns] = w
    <3>1. LiveOf(d, ns) = {}
      BY <1>2, <2>1 DEF LiveOf
    <3> QED
      BY <1>1, <1>5, <2>1, <3>1
  <2>2. CASE WorkspaceOf[ns] # w
    <3>1. LiveOf(d, ns) = LiveOf(c, ns)
      BY <1>2, <2>2 DEF LiveOf, LiveIn
    <3> QED
      BY <1>1, <2>2, <3>1 DEF CacheInv
  <2> QED
    BY <2>1, <2>2
<1>7. ASSUME NEW v \in Workspace
      PROVE  /\ Lists(d.lru[v], LiveIn(d, v))
             /\ d.lru[v] = IF v = w THEN <<>> ELSE c.lru[v]
  <2>1. CASE v = w
    <3>1. LiveIn(d, v) = {}
      BY <1>2, <2>1 DEF LiveIn
    <3> QED
      BY <1>1, <1>5, <2>1, <3>1 DEF CacheInv, Shape
  <2>2. CASE v # w
    <3>1. LiveIn(d, v) = LiveIn(c, v)
      BY <1>2, <2>2 DEF LiveIn
    <3> QED
      BY <1>1, <2>2, <3>1 DEF CacheInv, Shape
  <2> QED
    BY <2>1, <2>2
<1>8. d.order \in [Namespace -> Seq(Nat)] /\ d.lru \in [Workspace -> Seq(Nat)]
  <2>1. (\A ns \in Namespace : d.order[ns] \in Seq(Nat)) /\ \A v \in Workspace : d.lru[v] \in Seq(Nat)
    BY <1>6, <1>7 DEF Lists
  <2> QED
    BY <1>1, <2>1 DEF CacheInv, Shape
<1>9. CacheInv(d)
  BY <1>1, <1>3, <1>4, <1>6, <1>7, <1>8 DEF CacheInv, Shape
<1> QED
  BY <1>1, <1>2, <1>7, <1>9 DEF d

LEMMA ClearIs ==
    ASSUME NEW c, CacheInv(c)
    PROVE  /\ CacheInv(Clear(c)) /\ Clear(c).next = c.next /\ Live(Clear(c)) = {}
           /\ \A w \in Workspace : Clear(c).lru[w] = <<>>
<1> DEFINE d == Clear(c)
<1>1. /\ DOMAIN d = {"entry", "order", "lru", "gen", "next"}
      /\ d.entry = <<>> /\ d.order = [ns \in Namespace |-> <<>>]
      /\ d.lru = [w \in Workspace |-> <<>>] /\ d.gen = c.gen /\ d.next = c.next
  BY DEF Clear, CacheInv, Shape
<1> HIDE DEF d
<1>2. Live(d) = {}
  BY <1>1 DEF Live
<1>3. Lists(<<>>, {})
  BY DEF Lists, Elements, Ordered
<1>4. (\A ns \in Namespace : LiveOf(d, ns) = {}) /\ \A w \in Workspace : LiveIn(d, w) = {}
  BY <1>2 DEF LiveOf, LiveIn
<1>5. Shape(d)
  BY <1>1 DEF Shape, CacheInv
<1>6. CacheInv(d)
  BY <1>1, <1>2, <1>3, <1>4, <1>5 DEF CacheInv
<1> QED
  BY <1>1, <1>2, <1>6 DEF d

-----------------------------------------------------------------------------
\* What lookup finds.

\* Of the entries of the namespace at or above the floor the most similar one.
LEMMA FoundIs ==
    ASSUME NEW c, CacheInv(c), NEW ns \in Namespace, NEW q \in Query, NEW floor \in Int
    PROVE  LET good == {k \in LiveOf(c, ns) : SimilarityOf(c, q, k) >= floor}
           IN /\ good = {} => Found(c, ns, q, floor) = NoKey
              /\ good # {} =>
                    /\ Found(c, ns, q, floor) \in good
                    /\ \A k \in LiveOf(c, ns) :
                         SimilarityOf(c, q, k) <= SimilarityOf(c, q, Found(c, ns, q, floor))
<1> DEFINE s == c.order[ns]
           n == Len(s)
           f == [i \in 1..n |-> SimilarityOf(c, q, s[i])]
           good == {k \in LiveOf(c, ns) : SimilarityOf(c, q, k) >= floor}
           best == BestKey(c, ns, q)
<1>1. s \in Seq(Nat) /\ Elements(s) = LiveOf(c, ns)
  BY ZenonT(40) DEF CacheInv, Lists
<1>2. ASSUME NEW k \in LiveOf(c, ns) PROVE SimilarityOf(c, q, k) \in Int
  <2>1. k \in Live(c) /\ c.entry[k].query \in Query
    BY DEF CacheInv, IsEntry, LiveOf
  <2>2. Similarity[<<q, c.entry[k].query>>] \in Int
    BY <2>1, SimilarityAssumption
  <2> QED
    BY <2>2 DEF SimilarityOf
<1>3. \A i \in 1..n : s[i] \in LiveOf(c, ns)
  BY <1>1 DEF Elements
<1>4. CASE s = <<>>
  <2>1. LiveOf(c, ns) = {}
    BY <1>1, <1>4 DEF Elements
  <2> QED
    BY <1>4, <2>1 DEF Found
<1>5. CASE s # <<>>
  <2>1. n \in Nat \ {0} /\ DOMAIN s = 1..n
    BY <1>1, <1>5
  <2>2. f \in [1..n -> Int]
    BY <1>2, <1>3
  <2>3. best = s[CHOOSE i \in 1..n : \A j \in 1..n :
                    SimilarityOf(c, q, s[j]) <= SimilarityOf(c, q, s[i])
                    /\ (j < i => SimilarityOf(c, q, s[j]) < SimilarityOf(c, q, s[i]))]
    BY <2>1 DEF BestKey
  <2>4. \E i \in 1..n : \A j \in 1..n : f[j] <= f[i] /\ (j < i => f[j] < f[i])
    BY <2>1, <2>2, FirstGreatest
  <2>5. \E i \in 1..n : \A j \in 1..n :
                    SimilarityOf(c, q, s[j]) <= SimilarityOf(c, q, s[i])
                    /\ (j < i => SimilarityOf(c, q, s[j]) < SimilarityOf(c, q, s[i]))
    BY <2>4
  <2> HIDE DEF s, n, f, best
  <2>6. PICK i \in 1..n :
          /\ best = s[i]
          /\ \A j \in 1..n : SimilarityOf(c, q, s[j]) <= SimilarityOf(c, q, s[i])
    BY <2>3, <2>5
  <2>7. best \in LiveOf(c, ns)
    BY <1>3, <2>6
  <2>8. \A k \in LiveOf(c, ns) : SimilarityOf(c, q, k) <= SimilarityOf(c, q, best)
    BY <1>1, <2>6 DEF Elements, n
  <2>9. Found(c, ns, q, floor) =
          IF SimilarityOf(c, q, best) < floor THEN NoKey ELSE best
    BY <1>5 DEF Found, s, best
  <2>10. CASE SimilarityOf(c, q, best) < floor
    <3>1. good = {}
      BY <1>2, <2>7, <2>8, <2>10
    <3> QED
      BY <2>9, <2>10, <3>1
  <2>11. CASE ~(SimilarityOf(c, q, best) < floor)
    <3>1. SimilarityOf(c, q, best) >= floor
      BY <1>2, <2>7, <2>11
    <3>2. best \in good
      BY <2>7, <3>1
    <3> QED
      BY <2>8, <2>9, <2>11, <3>2
  <2> QED
    BY <2>10, <2>11
<1> QED
  BY <1>4, <1>5

-----------------------------------------------------------------------------
\* The inductive invariant: the order of a workspace is the order of use.

Inv ==
    /\ CacheInv(cache)
    /\ clock \in Nat
    /\ held \in [Client -> Nat \cup {NoKey}]
    /\ \A w \in Workspace : Ordered(cache.lru[w], before)

\* The history after the keys K were used and those in L are live.
Recent(L, K) == {p \in before \cup (L \X K) : p[1] \in L \ K /\ p[2] \in L}

\* The order of use of the workspaces of c, whose keys K were used.
UsedLast(c, K) == \A w \in Workspace : Ordered(c.lru[w], Recent(Live(c), K))

LEMMA OrderKept ==
    ASSUME NEW s, NEW L, Elements(s) \subseteq L, NEW K, Elements(s) \cap K = {},
           Ordered(s, before)
    PROVE  Ordered(s, Recent(L, K))
BY DEF Ordered, Elements, Recent

LEMMA BumpOrders ==
    ASSUME NEW c, CacheInv(c), \A w \in Workspace : Ordered(c.lru[w], before), NEW k \in Live(c)
    PROVE  UsedLast(Bump(c, k), {k})
<1> SUFFICES ASSUME NEW w \in Workspace
             PROVE  Ordered(Bump(c, k).lru[w], Recent(Live(c), {k}))
  BY BumpIs DEF UsedLast
<1>1. c.lru[w] \in Seq(Nat) /\ Elements(c.lru[w]) = LiveIn(c, w) /\ Ordered(c.lru[w], before)
  BY DEF CacheInv, Lists
<1>2. LiveIn(c, w) \subseteq Live(c) /\ k \in Nat
  BY DEF LiveIn, CacheInv, IsEntry
<1>3. CASE k \notin LiveIn(c, w)
  BY <1>1, <1>2, <1>3, BumpIs, OrderKept
<1>4. CASE k \in LiveIn(c, w)
  <2> DEFINE t == Without(c.lru[w], {k})
  <2>1. t \in Seq(Nat) /\ Elements(t) = Elements(c.lru[w]) \ {k} /\ Ordered(t, before)
    <3> DEFINE s == c.lru[w]
    <3>1. s \in Seq(Nat) /\ Ordered(s, before)
      BY <1>1
    <3> HIDE DEF s
    <3>2. /\ Without(s, {k}) \in Seq(Nat) /\ Elements(Without(s, {k})) = Elements(s) \ {k}
          /\ Ordered(Without(s, {k}), before)
      BY <3>1, WithoutIs
    <3> QED
      BY <3>2 DEF s
  <2>2. Bump(c, k).lru[w] = Append(t, k)
    BY <1>4, BumpIs DEF ToEnd
  <2> HIDE DEF t
  <2>3. Elements(t) \subseteq Live(c) \ {k}
    BY <1>1, <1>2, <2>1
  <2>4. Ordered(t, Recent(Live(c), {k}))
    BY <2>1, <2>3, OrderKept
  <2>5. \A j \in Elements(t) : <<j, k>> \in Recent(Live(c), {k})
    BY <2>3 DEF Recent
  <2>6. Ordered(Append(t, k), Recent(Live(c), {k}))
    BY <1>2, <2>1, <2>4, <2>5, AppendOrdered
  <2> QED
    BY <2>2, <2>6
<1> QED
  BY <1>3, <1>4

LEMMA KeepOrders ==
    ASSUME NEW c, CacheInv(c), \A w \in Workspace : Ordered(c.lru[w], before)
    PROVE  UsedLast(c, {})
<1> SUFFICES ASSUME NEW w \in Workspace PROVE Ordered(c.lru[w], Recent(Live(c), {}))
  BY DEF UsedLast
<1>1. Elements(c.lru[w]) \subseteq Live(c)
  BY DEF CacheInv, Lists, LiveIn
<1> QED
  BY <1>1, OrderKept

LEMMA DropOrders ==
    ASSUME NEW c, CacheInv(c), \A w \in Workspace : Ordered(c.lru[w], before), NEW K
    PROVE  \A w \in Workspace : Ordered(Drop(c, K).lru[w], before)
<1> SUFFICES ASSUME NEW w \in Workspace PROVE Ordered(Drop(c, K).lru[w], before)
  OBVIOUS
<1>1. c.lru[w] \in Seq(Nat) /\ Drop(c, K).lru[w] = Without(c.lru[w], K)
  BY DropIs DEF CacheInv, Lists
<1> QED
  BY <1>1, WithoutIs

LEMMA StoreOrders ==
    ASSUME NEW c, CacheInv(c), \A w \in Workspace : Ordered(c.lru[w], before),
           NEW ns \in Namespace, NEW q \in Query, NEW now \in Nat,
           NEW d, d = Store(c, ns, q, c.gen[WorkspaceOf[ns]], now)
    PROVE  UsedLast(d, {c.next} \cap Live(d))
<1> DEFINE home == WorkspaceOf[ns]
           k == c.next
           grown == Append(c.lru[home], k)
           old == Overflow(grown)
<1>1. home \in Workspace /\ k \in Nat
  BY NamespaceAssumption DEF CacheInv, Shape
<1>2. /\ CacheInv(d) /\ k \notin Live(c) /\ Live(d) = (Live(c) \cup {k}) \ old
      /\ d.lru[home] = Without(grown, old)
      /\ \A w \in Workspace \ {home} : d.lru[w] = Without(c.lru[w], old)
  BY StoreIs
<1> HIDE DEF old
<1> SUFFICES ASSUME NEW w \in Workspace
             PROVE  Ordered(d.lru[w], Recent(Live(d), {k} \cap Live(d)))
  BY DEF UsedLast
<1>3. c.lru[w] \in Seq(Nat) /\ Elements(c.lru[w]) \subseteq Live(c) /\ Ordered(c.lru[w], before)
  BY DEF CacheInv, Lists, LiveIn
<1>4. Elements(d.lru[w]) \subseteq Live(d)
  BY <1>2 DEF CacheInv, Lists, LiveIn
<1>5. CASE w # home
  <2>1. Ordered(d.lru[w], before) /\ Elements(d.lru[w]) \subseteq Elements(c.lru[w])
    BY <1>2, <1>3, <1>5, WithoutIs
  <2>2. Elements(d.lru[w]) \cap ({k} \cap Live(d)) = {}
    BY <1>2, <1>3, <2>1
  <2> QED
    BY <1>4, <2>1, <2>2, OrderKept
<1>6. CASE w = home
  <2> DEFINE R == {p \in before \cup (Live(c) \X {k}) : p[1] # k}
  <2>1. Ordered(c.lru[w], R)
    BY <1>2, <1>3 DEF Ordered, Elements
  <2>2. \A j \in Elements(c.lru[w]) : <<j, k>> \in R
    BY <1>2, <1>3
  <2>3. grown \in Seq(Nat) /\ Ordered(grown, R)
    BY <1>1, <1>3, <1>6, <2>1, <2>2, AppendOrdered, AppendIs
  <2>4. \A a, b \in Live(d) : <<a, b>> \in R => <<a, b>> \in Recent(Live(d), {k} \cap Live(d))
    BY DEF Recent
  <2> HIDE DEF grown, R
  <2>5. Ordered(Without(grown, old), R)
    BY <2>3, WithoutIs
  <2>6. Ordered(d.lru[w], R)
    BY <1>2, <1>6, <2>5
  <2>7. \A i \in 1..Len(d.lru[w]) : d.lru[w][i] \in Live(d)
    BY <1>4 DEF Elements
  <2> QED
    BY <2>4, <2>6, <2>7 DEF Ordered
<1> QED
  BY <1>5, <1>6

\* A step that gives the cache the value d and uses the keys in K.
LEMMA StepGives ==
    ASSUME NEW d, CacheInv(d), NEW K, UsedLast(d, K), cache' = d, Used(K),
           clock' \in Nat, held' \in [Client -> Nat \cup {NoKey}]
    PROVE  Inv'
<1>1. before' = Recent(Live(d), K)
  BY DEF Used, Recent
<1>2. \A w \in Workspace : Ordered(cache'.lru[w], before')
  BY <1>1 DEF UsedLast
<1>3. CacheInv(cache')
  OBVIOUS
<1> QED
  BY <1>2, <1>3 DEF Inv, CacheInv, Shape, IsEntry, Lists, Live, LiveIn, LiveOf, Elements, Ordered

LEMMA InvStarts == Init => Inv
<1> SUFFICES ASSUME Init PROVE Inv
  OBVIOUS
<1>1. \A w \in Workspace : Ordered(cache.lru[w], before)
  BY DEF Init, EmptyCache, Ordered
<1> QED
  BY <1>1, EmptyIs DEF Init, Inv

\* The cache after the expired entries are dropped.
LEMMA ScannedIs ==
    ASSUME Inv, NEW ns \in Namespace
    PROVE  LET c == Scanned(cache, ns, clock)
           IN /\ CacheInv(c) /\ Part(cache, c)
              /\ LiveOf(c, ns) = {k \in LiveOf(cache, ns) : clock - cache.entry[k].at <= Ttl}
              /\ \A w \in Workspace : Ordered(c.lru[w], before)
<1> DEFINE E == Expired(cache, ns, clock)
           c == Scanned(cache, ns, clock)
<1>1. CacheInv(cache) /\ (\A w \in Workspace : Ordered(cache.lru[w], before)) /\ clock \in Nat
  BY DEF Inv
<1>2. c = Drop(cache, E)
  BY DEF Scanned
<1>3. \A k \in LiveOf(cache, ns) : k \in E <=> ~(clock - cache.entry[k].at <= Ttl)
  <2>1. ASSUME NEW k \in LiveOf(cache, ns)
        PROVE  clock - cache.entry[k].at \in Int /\ Ttl \in Int
    BY <1>1, LimitAssumption DEF LiveOf, CacheInv, IsEntry
  <2> QED
    BY <2>1 DEF Expired, LiveOf
<1> HIDE DEF E, c
<1>4. CacheInv(c) /\ Part(cache, c) /\ LiveOf(c, ns) = LiveOf(cache, ns) \ E
  BY <1>1, <1>2, DropIs
<1>5. \A w \in Workspace : Ordered(c.lru[w], before)
  BY <1>1, <1>2, DropOrders
<1>6. LiveOf(c, ns) = {k \in LiveOf(cache, ns) : clock - cache.entry[k].at <= Ttl}
  BY <1>3, <1>4
<1> QED
  BY <1>4, <1>5, <1>6 DEF c

LEMMA LookupInv ==
    ASSUME Inv, NEW x \in Client, NEW ns \in Namespace, NEW q \in Query, NEW f \in Floors,
           DoLookup(x, ns, q, f)
    PROVE  Inv'
<1> DEFINE c == Scanned(cache, ns, clock)
           k == Found(c, ns, q, f)
           hit == k # NoKey /\ SimilarityOf(c, q, k) >= Threshold
<1>1. CacheInv(c) /\ \A w \in Workspace : Ordered(c.lru[w], before)
  BY ScannedIs
<1>2. /\ cache' = Touched(c, q, k) /\ held' = [held EXCEPT ![x] = k]
      /\ Used(IF hit THEN {k} ELSE {}) /\ clock' = clock
  BY DEF DoLookup
<1> HIDE DEF c
<1>3. k # NoKey => k \in Live(c)
  BY <1>1, FoundIs, FloorsAssumption DEF LiveOf
<1> HIDE DEF k
<1>4. held' \in [Client -> Nat \cup {NoKey}] /\ clock' \in Nat
  BY <1>1, <1>2, <1>3 DEF Inv, CacheInv, IsEntry
<1>5. CASE hit
  <2>1. cache' = Bump(c, k) /\ Used({k}) /\ k \in Live(c)
    BY <1>2, <1>3, <1>5 DEF Touched
  <2>2. CacheInv(Bump(c, k)) /\ UsedLast(Bump(c, k), {k})
    BY <1>1, <2>1, BumpIs, BumpOrders
  <2> QED
    BY <1>4, <2>1, <2>2, StepGives
<1>6. CASE ~hit
  <2>1. cache' = c /\ Used({})
    BY <1>2, <1>6 DEF Touched
  <2> QED
    BY <1>1, <1>4, <2>1, KeepOrders, StepGives
<1> QED
  BY <1>5, <1>6

LEMMA MarkHitInv ==
    ASSUME Inv, NEW x \in Client, DoMarkHit(x)
    PROVE  Inv'
<1>1. /\ CacheInv(cache) /\ \A w \in Workspace : Ordered(cache.lru[w], before)
      /\ clock' \in Nat /\ held' \in [Client -> Nat \cup {NoKey}]
      /\ cache' = MarkHit(cache, held[x]) /\ Used({held[x]} \cap Live(cache))
  BY DEF Inv, DoMarkHit
<1>2. CASE held[x] \in Live(cache)
  <2>1. cache' = Bump(cache, held[x]) /\ {held[x]} \cap Live(cache) = {held[x]}
    BY <1>1, <1>2 DEF MarkHit
  <2>2. CacheInv(Bump(cache, held[x])) /\ UsedLast(Bump(cache, held[x]), {held[x]})
    BY <1>1, <1>2, BumpIs, BumpOrders
  <2> QED
    BY <1>1, <2>1, <2>2, StepGives
<1>3. CASE held[x] \notin Live(cache)
  <2>1. cache' = cache /\ {held[x]} \cap Live(cache) = {}
    BY <1>1, <1>3 DEF MarkHit
  <2> QED
    BY <1>1, <2>1, KeepOrders, StepGives
<1> QED
  BY <1>2, <1>3

LEMMA StepInv ==
    ASSUME Inv, [Next]_vars
    PROVE  Inv'
<1> USE DEF Inv
<1>1. ASSUME NEW x \in Client, DoRemove(x) PROVE Inv'
  <2> DEFINE d == Drop(cache, {held[x]})
  <2>1. cache' = d /\ Used({}) /\ UNCHANGED <<clock, held>>
    BY <1>1 DEF DoRemove, Remove
  <2>2. CacheInv(d) /\ \A w \in Workspace : Ordered(d.lru[w], before)
    BY DropIs, DropOrders
  <2> HIDE DEF d
  <2> QED
    BY <2>1, <2>2, KeepOrders, StepGives
<1>2. ASSUME NEW ns \in Namespace, NEW q \in Query, DoStore(ns, q) PROVE Inv'
  <2> DEFINE d == Store(cache, ns, q, cache.gen[WorkspaceOf[ns]], clock)
  <2>1. cache' = d /\ Used({cache.next} \cap Live(d)) /\ UNCHANGED <<clock, held>>
    BY <1>2 DEF DoStore
  <2>2. CacheInv(d)
    BY StoreIs
  <2>3. UsedLast(d, {cache.next} \cap Live(d))
    BY StoreOrders
  <2> HIDE DEF d
  <2> QED
    BY <2>1, <2>2, <2>3, StepGives
<1>3. ASSUME NEW w \in Workspace, DoInvalidate(w) PROVE Inv'
  <2> DEFINE d == InvalidateWorkspace(cache, w)
  <2>1. cache' = d /\ Used({}) /\ UNCHANGED <<clock, held>>
    BY <1>3 DEF DoInvalidate
  <2>2. CacheInv(d) /\ \A v \in Workspace : d.lru[v] = IF v = w THEN <<>> ELSE cache.lru[v]
    BY InvalidateIs
  <2> HIDE DEF d
  <2>3. \A v \in Workspace : Ordered(d.lru[v], before)
    BY <2>2 DEF Ordered
  <2> QED
    BY <2>1, <2>2, <2>3, KeepOrders, StepGives
<1>4. ASSUME DoClear PROVE Inv'
  <2> DEFINE d == Clear(cache)
  <2>1. cache' = d /\ Used({}) /\ UNCHANGED <<clock, held>>
    BY <1>4 DEF DoClear
  <2>2. CacheInv(d) /\ \A v \in Workspace : d.lru[v] = <<>>
    BY ClearIs
  <2> HIDE DEF d
  <2>3. \A v \in Workspace : Ordered(d.lru[v], before)
    BY <2>2 DEF Ordered
  <2> QED
    BY <2>1, <2>2, <2>3, KeepOrders, StepGives
<1>5. ASSUME Tick \/ UNCHANGED vars PROVE Inv'
  <2>1. cache' = cache /\ held' = held /\ before' = before /\ clock' \in Nat
    BY <1>5 DEF Tick, vars
  <2>2. CacheInv(cache)'
    BY <2>1 DEF CacheInv, Shape, IsEntry, Lists, Live, LiveIn, LiveOf, Elements, Ordered
  <2>3. \A w \in Workspace : Ordered(cache'.lru[w], before')
    BY <2>1
  <2> QED
    BY <2>1, <2>2, <2>3 DEF Ordered
<1> QED
  BY <1>1, <1>2, <1>3, <1>4, <1>5, LookupInv, MarkHitInv DEF Next

\* The two orders of the cache list exactly what is in it, and the order of a
\* workspace is the order of use (_order and _lru of SemanticCache).
THEOREM OrdersHold == Spec => []Inv
BY InvStarts, StepInv, PTL DEF Spec

\* No answer stored before an invalidation is in the cache after it, in whatever
\* namespace of the workspace (invalidate_workspace, and the key of the next
\* store, which is new).
THEOREM InvalidationHolds == Spec => []NothingOutlivesInvalidation
<1>1. Inv => NothingOutlivesInvalidation
  BY DEF Inv, CacheInv, IsEntry, NothingOutlivesInvalidation
<1> QED
  BY <1>1, OrdersHold, PTL

-----------------------------------------------------------------------------
\* Lookups and evictions.

\* What a lookup finds among the entries that have not expired.
LEMMA BestFreshIs ==
    ASSUME Inv, NEW ns \in Namespace, NEW q \in Query, NEW f \in Int
    PROVE  LET k == Found(Scanned(cache, ns, clock), ns, q, f)
               fresh == {j \in LiveOf(cache, ns) : clock - cache.entry[j].at <= Ttl}
               good == {j \in fresh : SimilarityOf(cache, q, j) >= f}
           IN IF good = {} THEN k = NoKey
              ELSE /\ k \in good
                   /\ \A j \in fresh : SimilarityOf(cache, q, j) <= SimilarityOf(cache, q, k)
<1> DEFINE c == Scanned(cache, ns, clock)
           k == Found(c, ns, q, f)
           fresh == {j \in LiveOf(cache, ns) : clock - cache.entry[j].at <= Ttl}
           good == {j \in fresh : SimilarityOf(cache, q, j) >= f}
           found == {j \in LiveOf(c, ns) : SimilarityOf(c, q, j) >= f}
<1>1. CacheInv(c) /\ Part(cache, c) /\ LiveOf(c, ns) = fresh
  BY ZenonT(40), ScannedIs
<1> HIDE DEF c, fresh
<1>2. \A j \in fresh : SimilarityOf(c, q, j) = SimilarityOf(cache, q, j)
  BY ZenonT(40), <1>1 DEF Part, LiveOf, SimilarityOf
<1>3. found = good
  BY <1>1, <1>2
<1>4. /\ found = {} => k = NoKey
      /\ found # {} =>
           /\ k \in found
           /\ \A j \in LiveOf(c, ns) : SimilarityOf(c, q, j) <= SimilarityOf(c, q, k)
  BY <1>1, FoundIs
<1>5. IF good = {} THEN k = NoKey
      ELSE /\ k \in good
           /\ \A j \in fresh : SimilarityOf(cache, q, j) <= SimilarityOf(cache, q, k)
  <2>1. CASE good = {}
    BY <1>3, <1>4, <2>1
  <2>2. CASE good # {}
    <3>1. k \in good /\ k \in fresh
      BY <1>3, <1>4, <2>2
    <3> HIDE DEF k, good, found
    <3>2. \A j \in fresh : SimilarityOf(c, q, j) <= SimilarityOf(c, q, k)
      BY <1>1, <1>3, <1>4, <2>2
    <3> QED
      BY <1>2, <2>2, <3>1, <3>2
  <2> QED
    BY <2>1, <2>2
<1> QED
  BY <1>5 DEF c, fresh

LEMMA LookupStep ==
    Inv => \A x \in Client, ns \in Namespace, q \in Query, f \in Floors :
          DoLookup(x, ns, q, f) =>
              LET fresh == {k \in Live(cache) : /\ cache.entry[k].ns = ns
                                                /\ clock - cache.entry[k].at <= Ttl}
                  good == {k \in fresh : SimilarityOf(cache, q, k) >= f}
              IN IF good = {} THEN held'[x] = NoKey
                 ELSE /\ held'[x] \in good
                      /\ \A k \in good :
                            SimilarityOf(cache, q, k) <= SimilarityOf(cache, q, held'[x])
<1> SUFFICES ASSUME Inv, NEW x \in Client, NEW ns \in Namespace, NEW q \in Query,
                    NEW f \in Floors, DoLookup(x, ns, q, f)
             PROVE  LET fresh == {k \in Live(cache) : /\ cache.entry[k].ns = ns
                                                      /\ clock - cache.entry[k].at <= Ttl}
                        good == {k \in fresh : SimilarityOf(cache, q, k) >= f}
                    IN IF good = {} THEN held'[x] = NoKey
                       ELSE /\ held'[x] \in good
                            /\ \A k \in good :
                                  SimilarityOf(cache, q, k) <= SimilarityOf(cache, q, held'[x])
  OBVIOUS
<1> DEFINE found == Found(Scanned(cache, ns, clock), ns, q, f)
           fresh == {k \in Live(cache) : /\ cache.entry[k].ns = ns
                                         /\ clock - cache.entry[k].at <= Ttl}
           good == {k \in fresh : SimilarityOf(cache, q, k) >= f}
<1>1. held'[x] = found
  BY DEF DoLookup, Inv
<1>2. fresh = {k \in LiveOf(cache, ns) : clock - cache.entry[k].at <= Ttl}
  BY DEF LiveOf
<1>3. IF good = {} THEN found = NoKey
      ELSE /\ found \in good
           /\ \A j \in fresh : SimilarityOf(cache, q, j) <= SimilarityOf(cache, q, found)
  <2> HIDE DEF fresh, found
  <2>1. f \in Int
    BY FloorsAssumption
  <2> QED
    BY <1>2, <2>1, BestFreshIs DEF found
<1> HIDE DEF found, fresh
<1>4. IF good = {} THEN held'[x] = NoKey
      ELSE /\ held'[x] \in good
           /\ \A k \in good : SimilarityOf(cache, q, k) <= SimilarityOf(cache, q, held'[x])
  BY <1>1, <1>3
<1> QED
  BY <1>4 DEF fresh

\* What lookup returns is what a search of the whole cache would (the scan of
\* _order, the expiry and the floor of SemanticCache.lookup).
THEOREM LookupsAreCorrect == Spec => LookupCorrect
BY OrdersHold, LookupStep, PTL DEF LookupCorrect

LEMMA OnlyStoreCounts ==
    ASSUME Inv, [Next]_vars, cache'.next # cache.next
    PROVE  \E ns \in Namespace, q \in Query : DoStore(ns, q)
<1> USE DEF Inv
<1>1. ASSUME NEW x \in Client, NEW ns \in Namespace, NEW q \in Query, NEW f \in Floors,
             DoLookup(x, ns, q, f)
      PROVE  FALSE
  <2> DEFINE c == Scanned(cache, ns, clock)
             k == Found(c, ns, q, f)
  <2>1. CacheInv(c) /\ c.next = cache.next
    BY ScannedIs DEF Part
  <2>2. cache' = Touched(c, q, k)
    BY <1>1 DEF DoLookup
  <2> HIDE DEF c
  <2>3. k # NoKey => k \in Live(c)
    BY <2>1, FoundIs, FloorsAssumption DEF LiveOf
  <2> HIDE DEF k
  <2> QED
    BY <2>1, <2>2, <2>3, BumpIs DEF Touched, Part
<1>2. ASSUME NEW x \in Client, DoMarkHit(x) PROVE FALSE
  BY <1>2, BumpIs DEF DoMarkHit, MarkHit, Part
<1>3. ASSUME NEW x \in Client, DoRemove(x) PROVE FALSE
  BY <1>3, DropIs DEF DoRemove, Remove, Part
<1>4. ASSUME NEW w \in Workspace, DoInvalidate(w) PROVE FALSE
  BY <1>4, InvalidateIs DEF DoInvalidate
<1>5. ASSUME DoClear PROVE FALSE
  BY <1>5, ClearIs DEF DoClear
<1>6. ASSUME Tick \/ UNCHANGED vars PROVE FALSE
  BY <1>6 DEF Tick, vars
<1> QED
  BY <1>1, <1>2, <1>3, <1>4, <1>5, <1>6 DEF Next

LEMMA EvictionStep ==
    Inv /\ [Next]_vars =>
        (cache'.next # cache.next =>
            \A w \in Workspace :
                \A v \in LiveIn(cache, w) \ Live(cache'),
                   k \in LiveIn(cache, w) \cap Live(cache') : <<v, k>> \in before)
<1> SUFFICES ASSUME Inv, [Next]_vars, cache'.next # cache.next, NEW w \in Workspace,
                    NEW v \in LiveIn(cache, w) \ Live(cache'),
                    NEW k \in LiveIn(cache, w) \cap Live(cache')
             PROVE  <<v, k>> \in before
  OBVIOUS
<1>1. PICK ns \in Namespace, q \in Query : DoStore(ns, q)
  BY OnlyStoreCounts
<1> DEFINE home == WorkspaceOf[ns]
           s == cache.lru[home]
           grown == Append(s, cache.next)
           old == Overflow(grown)
<1>2. /\ cache.next \notin Live(cache)
      /\ Live(cache') = (Live(cache) \cup {cache.next}) \ old
  <2> DEFINE d == Store(cache, ns, q, cache.gen[home], clock)
  <2>1. cache' = d
    BY <1>1 DEF DoStore
  <2>2. cache.next \notin Live(cache) /\ Live(d) = (Live(cache) \cup {cache.next}) \ old
    BY StoreIs DEF Inv
  <2> HIDE DEF d
  <2> QED
    BY <2>1, <2>2
<1>3. /\ home \in Workspace /\ s \in Seq(Nat) /\ Elements(s) = LiveIn(cache, home)
      /\ Ordered(s, before) /\ cache.next \in Nat
  BY NamespaceAssumption DEF Inv, CacheInv, Lists, Shape
<1>4. /\ Len(grown) = Len(s) + 1 /\ Len(s) \in Nat /\ grown[Len(s) + 1] = cache.next
      /\ \A i \in 1..Len(s) : grown[i] = s[i]
  <2> HIDE DEF s
  <2> QED
    BY <1>3, AppendIs
<1>5. old = {grown[i] : i \in 1..(Len(grown) - MaxEntries)}
  BY DEF Overflow
<1>6. v \in old /\ k \notin old /\ v # cache.next /\ v \in Live(cache) /\ k \in Live(cache)
  <2> HIDE DEF old
  <2> QED
    BY <1>2 DEF LiveIn
<1> HIDE DEF s, grown, old
<1>7. PICK i \in 1..(Len(grown) - MaxEntries) : v = grown[i]
  BY <1>5, <1>6
<1>8. i \in 1..Len(s) /\ v = s[i]
  <2>1. i \in 1..(Len(s) + 1)
    BY <1>4, LimitAssumption
  <2> QED
    BY <1>4, <1>6, <1>7, <2>1
<1>9. w = home
  <2>1. v \in LiveIn(cache, home)
    BY <1>3, <1>8 DEF Elements
  <2> QED
    BY <2>1 DEF LiveIn
<1>10. PICK j \in 1..Len(s) : k = s[j]
  BY <1>3, <1>9 DEF Elements
<1>11. ~(j <= Len(grown) - MaxEntries)
  <2>1. SUFFICES ASSUME j <= Len(grown) - MaxEntries PROVE k \in old
    BY <1>6
  <2>2. j \in 1..(Len(grown) - MaxEntries) /\ k = grown[j]
    BY <1>4, <1>10, <2>1, LimitAssumption
  <2> QED
    BY <1>5, <2>2
<1>12. i < j
  BY <1>4, <1>7, <1>10, <1>11, LimitAssumption
<1> QED
  BY <1>3, <1>8, <1>10, <1>12 DEF Ordered

\* Eviction takes the least recently used answers of the workspace (_lru and the
\* loop at the end of SemanticCache.store).
THEOREM EvictionsAreLru == Spec => EvictsLeastRecent
BY OrdersHold, EvictionStep, PTL DEF Spec, EvictsLeastRecent

-----------------------------------------------------------------------------
\* The recommended threshold.

LEMMA RecommendationIsKept == Inv => RecommendationHolds
<1> SUFFICES ASSUME Inv, NEW same \in Labellings, NEW t \in Recommendation[same],
                    NEW ns \in Namespace, NEW q \in Query,
                    NEW i \in {j \in Live(Scanned(cache, ns, clock)) :
                                 Scanned(cache, ns, clock).entry[j].ns = ns},
                    NEW old, old = Scanned(cache, ns, clock).entry[i].query,
                    <<q, old>> \in DOMAIN same
             PROVE  LET c == Scanned(cache, ns, clock)
                        k == Found(c, ns, q, t)
                    IN /\ <<q, old>> \in SameHits(same, t) => k # NoKey
                       /\ (k # NoKey /\ c.entry[k].query = old) => same[<<q, old>>]
  BY DEF RecommendationHolds
<1> DEFINE c == Scanned(cache, ns, clock)
           k == Found(c, ns, q, t)
<1>1. t \in Eligible(same)
  BY DEF Recommendation, Recommended
<1>2. t \in Int /\ FalseHits(same, t) = {} /\ {same[p] : p \in DOMAIN same} = BOOLEAN
  <2>1. CASE HasRates(same)
    BY <1>1, <2>1, SweepAssumption DEF Eligible, HasRates
  <2>2. CASE ~HasRates(same)
    BY <1>1, <2>2 DEF Eligible
  <2> QED
    BY <2>1, <2>2
<1>3. CacheInv(c)
  BY ScannedIs
<1>4. i \in LiveOf(c, ns) /\ old = c.entry[i].query
  BY DEF LiveOf
<1> HIDE DEF c
<1>5. /\ (\E j \in LiveOf(c, ns) : SimilarityOf(c, q, j) >= t) => k # NoKey
      /\ k # NoKey => SimilarityOf(c, q, k) >= t
  <2> DEFINE good == {j \in LiveOf(c, ns) : SimilarityOf(c, q, j) >= t}
  <2>1. /\ good = {} => k = NoKey
        /\ good # {} => k \in good
    BY <1>2, <1>3, FoundIs
  <2>2. \A j \in good : j # NoKey
    BY <1>3, NoKeyAssumption DEF CacheInv, IsEntry, LiveOf
  <2> QED
    BY <2>1, <2>2
<1> HIDE DEF k
<1>6. ASSUME <<q, old>> \in SameHits(same, t) PROVE k # NoKey
  <2>1. Similarity[<<q, old>>] >= t
    BY <1>6 DEF SameHits, Hit
  <2>2. SimilarityOf(c, q, i) >= t
    BY <1>4, <2>1 DEF SimilarityOf
  <2> QED
    BY <1>4, <1>5, <2>2
<1>7. ASSUME k # NoKey, c.entry[k].query = old PROVE same[<<q, old>>]
  <2>1. Similarity[<<q, old>>] >= t
    BY <1>5, <1>7 DEF SimilarityOf
  <2>2. Hit(<<q, old>>, t)
    BY <2>1 DEF Hit
  <2>3. <<q, old>> \notin FalseHits(same, t)
    BY <1>2
  <2> QED
    BY <2>2, <2>3 DEF FalseHits
<1> QED
  BY <1>6, <1>7 DEF c, k

\* A threshold the evaluation recommends keeps its promise in every cache: a
\* lookup at it finds only answers to questions of the same meaning, and finds one
\* whenever a hit was counted (recommend_threshold of cache_eval_metrics.py, on
\* pairs, against SemanticCache.lookup on many entries).
THEOREM RecommendationsHold == Spec => []RecommendationHolds
BY OrdersHold, RecommendationIsKept, PTL
=============================================================================
