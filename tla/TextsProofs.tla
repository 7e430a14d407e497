----------------------------- MODULE TextsProofs -----------------------------
(***************************************************************************)
(* Proofs about Chunker, Embedder and History, for texts and conversations *)
(* of any length and any sizes and limits: what the chunks hold, which     *)
(* vector a row has, and which messages a question carries.                *)
(***************************************************************************)
EXTENDS Embedder, History, FiniteSetTheorems, SequenceTheorems,
        WellFoundedInduction, TLAPS

-----------------------------------------------------------------------------
\* Induction over an interval, and functions defined along one.

LEMMA SetInduction ==
    ASSUME NEW P \in SUBSET Nat, 0 \in P, \A n \in P : n + 1 \in P
    PROVE  P = Nat
<1> SUFFICES ASSUME Nat \ P # {} PROVE FALSE
  OBVIOUS
<1> DEFINE T == Nat \ P
<1> HIDE DEF T
<1>1. T \subseteq Nat /\ T # {}
  BY DEF T
<1>2. PICK x \in T : \A y \in T : <<y, x>> \notin OpToRel(<, Nat)
  BY <1>1, NatLessThanWellFounded, WFMin
<1>3. x # 0 /\ x \in Nat
  BY DEF T
<1>4. x - 1 \in Nat /\ x - 1 \notin P
  BY <1>3 DEF T
<1>5. x - 1 \in T /\ x - 1 < x
  BY <1>3, <1>4 DEF T
<1>6. <<x - 1, x>> \in OpToRel(<, Nat)
  BY <1>3, <1>4, <1>5 DEF OpToRel
<1> QED
  BY <1>2, <1>5, <1>6

LEMMA IntervalInduction ==
    ASSUME NEW a \in Int, NEW b \in Int, NEW P,
           a <= b => a \in P, \A n \in a..b : n \in P /\ n < b => n + 1 \in P
    PROVE  \A n \in a..b : n \in P
<1> DEFINE Q == {m \in Nat : a + m <= b => a + m \in P}
<1>1. 0 \in Q
  OBVIOUS
<1>2. ASSUME NEW m \in Q PROVE m + 1 \in Q
  <2> SUFFICES ASSUME a + (m + 1) <= b PROVE a + (m + 1) \in P
    OBVIOUS
  <2>1. a + m \in a..b /\ a + m < b /\ (a + m) + 1 = a + (m + 1)
    OBVIOUS
  <2> QED
    BY <2>1
<1>3. Q \subseteq Nat
  OBVIOUS
<1> HIDE DEF Q
<1>4. Q = Nat
  BY <1>1, <1>2, <1>3, SetInduction
<1>5. ASSUME NEW n \in a..b PROVE n \in P
  <2>1. n - a \in Q /\ a + (n - a) = n
    BY <1>4
  <2> QED
    BY <2>1 DEF Q
<1> QED
  BY <1>5

\* F tells the next value at each place of a..b after the first.
IsStep(F, a, b, S) == F \in [(a + 1..b) \X S -> S]

\* g has the value base at first, and then the values that F tells.
Follows(g, F, a, b, base, S) ==
    /\ g \in [a..b -> S] /\ g[a] = base
    /\ \A n \in a + 1..b : g[n] = F[<<n, g[n - 1]>>]

\* A function is defined along an interval by its first value and each step.
LEMMA Recursion ==
    ASSUME NEW a \in Int, NEW b \in Int, a <= b, NEW S, NEW base \in S,
           NEW F, IsStep(F, a, b, S)
    PROVE  \E g : Follows(g, F, a, b, base, S)
<1> DEFINE Upto(g, m) == /\ g \in [a..m -> S] /\ g[a] = base
                         /\ \A n \in a + 1..m : g[n] = F[<<n, g[n - 1]>>]
           P == {m \in a..b : \E g : Upto(g, m)}
<1>1. a \in P
  <2> DEFINE g == [n \in a..a |-> base]
  <2>1. Upto(g, a)
    OBVIOUS
  <2> QED
    BY <2>1
<1>2. ASSUME NEW m \in a..b, m \in P, m < b PROVE m + 1 \in P
  <2>1. PICK g : Upto(g, m)
    BY <1>2
  <2> DEFINE h == [n \in a..m + 1 |-> IF n = m + 1 THEN F[<<m + 1, g[m]>>] ELSE g[n]]
  <2>2. m \in a..m /\ m + 1 \in a + 1..b /\ m + 1 \in a..b /\ m + 1 # a
    BY <1>2
  <2>3. g \in [a..m -> S] /\ g[a] = base
    BY <2>1
  <2>4. F[<<m + 1, g[m]>>] \in S
    BY <2>2, <2>3 DEF IsStep
  <2>5. h[m + 1] = F[<<m + 1, g[m]>>] /\ \A n \in a..m : h[n] = g[n]
    BY <2>2
  <2>6. h \in [a..m + 1 -> S]
    BY <2>3, <2>4
  <2> HIDE DEF h
  <2>7. h[a] = base
    BY <2>2, <2>3, <2>5
  <2>8. ASSUME NEW n \in a + 1..m + 1 PROVE h[n] = F[<<n, h[n - 1]>>]
    <3>1. CASE n = m + 1
      BY <2>2, <2>5, <3>1
    <3>2. CASE n # m + 1
      <4>1. n \in a..m /\ n - 1 \in a..m /\ n \in a + 1..m
        BY <3>2
      <4> QED
        BY <2>1, <2>5, <4>1
    <3> QED
      BY <3>1, <3>2
  <2>9. Upto(h, m + 1)
    BY <2>6, <2>7, <2>8
  <2> QED
    BY <2>2, <2>9
<1> HIDE DEF P
<1>3. b \in P
  <2>1. a <= b => a \in P
    BY <1>1
  <2>2. \A n \in a..b : n \in P /\ n < b => n + 1 \in P
    BY <1>2
  <2>3. \A n \in a..b : n \in P
    BY <2>1, <2>2, IntervalInduction
  <2> QED
    BY <2>3
<1> QED
  BY <1>3 DEF P, Follows

-----------------------------------------------------------------------------
\* The tokens of messages.

\* The function that Total is defined by.
IsSum(g, h, lo, hi) ==
    g = [n \in lo - 1..hi |-> IF n = lo - 1 THEN 0 ELSE g[n - 1] + h[n]]

LEMMA SumExists ==
    ASSUME NEW h \in Seq(Nat), NEW lo \in 1..Len(h) + 1, NEW hi \in lo - 1..Len(h)
    PROVE  \E g : IsSum(g, h, lo, hi)
<1> DEFINE a == lo - 1
           F == [x \in (a + 1..hi) \X Nat |-> x[2] + h[x[1]]]
<1>1. IsStep(F, a, hi, Nat)
  <2>1. \A n \in a + 1..hi : n \in 1..Len(h) /\ h[n] \in Nat
    OBVIOUS
  <2> QED
    BY <2>1 DEF IsStep
<1>2. a \in Int /\ hi \in Int /\ a <= hi
  OBVIOUS
<1>3. \A n \in a + 1..hi, x \in Nat : F[<<n, x>>] = x + h[n]
  OBVIOUS
<1> HIDE DEF F, a
<1>4. PICK g : Follows(g, F, a, hi, 0, Nat)
  BY <1>1, <1>2, Recursion
<1>5. \A n \in a..hi : g[n] = IF n = a THEN 0 ELSE g[n - 1] + h[n]
  <2> SUFFICES ASSUME NEW n \in a..hi, n # a PROVE g[n] = g[n - 1] + h[n]
    BY <1>4 DEF Follows
  <2>1. n \in a + 1..hi /\ n - 1 \in a..hi
    BY <1>2
  <2> QED
    BY <1>3, <1>4, <2>1 DEF Follows
<1>6. g = [n \in a..hi |-> IF n = a THEN 0 ELSE g[n - 1] + h[n]]
  BY <1>4, <1>5 DEF Follows
<1> QED
  BY <1>6 DEF IsSum, a

LEMMA TotalSum ==
    ASSUME NEW h \in Seq(Nat), NEW lo \in 1..Len(h) + 1, NEW hi \in lo - 1..Len(h)
    PROVE  \E g : IsSum(g, h, lo, hi) /\ Total(h, lo, hi) = g[hi]
<1> DEFINE sum[n \in lo - 1..hi] == IF n = lo - 1 THEN 0 ELSE sum[n - 1] + h[n]
<1>1. IsSum(sum, h, lo, hi)
  BY SumExists DEF IsSum
<1>2. Total(h, lo, hi) = sum[hi]
  BY DEF Total
<1> HIDE DEF sum
<1> QED
  BY <1>1, <1>2

LEMMA SumStep ==
    ASSUME NEW h, NEW lo \in Int, NEW hi \in Int, NEW g, IsSum(g, h, lo, hi)
    PROVE  \A n \in lo - 1..hi : g[n] = IF n = lo - 1 THEN 0 ELSE g[n - 1] + h[n]
  BY DEF IsSum

LEMMA SumsAgree ==
    ASSUME NEW h, NEW lo \in Int, NEW hi \in Int, NEW hj \in Int, hj <= hi,
           NEW f, IsSum(f, h, lo, hi), NEW g, IsSum(g, h, lo, hj)
    PROVE  \A n \in lo - 1..hj : f[n] = g[n]
<1> DEFINE P == {n \in lo - 1..hj : f[n] = g[n]}
<1>1. \A n \in lo - 1..hi : f[n] = IF n = lo - 1 THEN 0 ELSE f[n - 1] + h[n]
  BY SumStep
<1>2. \A n \in lo - 1..hj : g[n] = IF n = lo - 1 THEN 0 ELSE g[n - 1] + h[n]
  BY SumStep
<1>3. lo - 1 <= hj => lo - 1 \in P
  BY <1>1, <1>2
<1>4. \A n \in lo - 1..hj : n \in P /\ n < hj => n + 1 \in P
  <2> SUFFICES ASSUME NEW n \in lo - 1..hj, n \in P, n < hj PROVE n + 1 \in P
    OBVIOUS
  <2>1. n + 1 \in lo - 1..hj /\ n + 1 \in lo - 1..hi /\ n + 1 # lo - 1 /\ (n + 1) - 1 = n
    OBVIOUS
  <2> QED
    BY <1>1, <1>2, <2>1
<1> HIDE DEF P
<1>5. \A n \in lo - 1..hj : n \in P
  BY <1>3, <1>4, IntervalInduction
<1> QED
  BY <1>5 DEF P

LEMMA TotalStep ==
    ASSUME NEW h \in Seq(Nat), NEW lo \in 1..Len(h) + 1
    PROVE  /\ Total(h, lo, lo - 1) = 0
           /\ \A n \in lo..Len(h) : Total(h, lo, n) = Total(h, lo, n - 1) + h[n]
<1>1. Total(h, lo, lo - 1) = 0
  <2>1. lo - 1 \in lo - 1..Len(h)
    OBVIOUS
  <2>2. PICK g : IsSum(g, h, lo, lo - 1) /\ Total(h, lo, lo - 1) = g[lo - 1]
    BY <2>1, TotalSum
  <2> QED
    BY <2>2, SumStep
<1>2. ASSUME NEW n \in lo..Len(h) PROVE Total(h, lo, n) = Total(h, lo, n - 1) + h[n]
  <2>1. n \in lo - 1..Len(h) /\ n - 1 \in lo - 1..Len(h)
    OBVIOUS
  <2>2. PICK f : IsSum(f, h, lo, n) /\ Total(h, lo, n) = f[n]
    BY <2>1, TotalSum
  <2>3. PICK g : IsSum(g, h, lo, n - 1) /\ Total(h, lo, n - 1) = g[n - 1]
    BY <2>1, TotalSum
  <2>4. \A m \in lo - 1..n - 1 : f[m] = g[m]
    BY <2>2, <2>3, SumsAgree
  <2>5. f[n - 1] = g[n - 1]
    BY <2>4
  <2>6. f[n] = f[n - 1] + h[n]
    BY <2>2, SumStep
  <2> QED
    BY <2>2, <2>3, <2>5, <2>6
<1> QED
  BY <1>1, <1>2

LEMMA TotalNat ==
    ASSUME NEW h \in Seq(Nat), NEW lo \in 1..Len(h) + 1
    PROVE  \A n \in lo - 1..Len(h) : Total(h, lo, n) \in Nat
<1> DEFINE P == {n \in lo - 1..Len(h) : Total(h, lo, n) \in Nat}
<1>1. lo - 1 <= Len(h) => lo - 1 \in P
  BY TotalStep
<1>2. \A n \in lo - 1..Len(h) : n \in P /\ n < Len(h) => n + 1 \in P
  <2> SUFFICES ASSUME NEW n \in lo - 1..Len(h), n \in P, n < Len(h) PROVE n + 1 \in P
    OBVIOUS
  <2>1. n + 1 \in lo..Len(h) /\ n + 1 \in lo - 1..Len(h) /\ (n + 1) - 1 = n
    OBVIOUS
  <2>2. Total(h, lo, n + 1) = Total(h, lo, n) + h[n + 1]
    BY <2>1, TotalStep
  <2>3. h[n + 1] \in Nat
    BY <2>1
  <2> QED
    BY <2>1, <2>2, <2>3
<1> HIDE DEF P
<1>3. lo - 1 \in Int /\ Len(h) \in Int
  OBVIOUS
<1>4. \A n \in lo - 1..Len(h) : n \in P
  BY <1>1, <1>2, <1>3, IntervalInduction
<1> QED
  BY <1>4 DEF P

\* An end with one message more has the tokens of that message more.
LEMMA TotalOfOneMore ==
    ASSUME NEW h \in Seq(Nat), NEW lo \in 1..Len(h)
    PROVE  \A n \in lo..Len(h) : Total(h, lo, n) = h[lo] + Total(h, lo + 1, n)
<1> DEFINE P == {n \in lo..Len(h) : Total(h, lo, n) = h[lo] + Total(h, lo + 1, n)}
<1>0. lo \in Int /\ Len(h) \in Int /\ lo \in 1..Len(h) + 1
  OBVIOUS
<1>1. \A n \in lo..Len(h) : h[n] \in Nat
  OBVIOUS
<1>2. \A n \in lo - 1..Len(h) : Total(h, lo, n) \in Nat
  BY <1>0, TotalNat
<1>3. \A n \in lo..Len(h) : Total(h, lo + 1, n) \in Nat
  <2>1. lo + 1 \in 1..Len(h) + 1 /\ (lo + 1) - 1 = lo
    OBVIOUS
  <2> QED
    BY <2>1, TotalNat
<1>4. lo <= Len(h) => lo \in P
  <2>1. lo + 1 \in 1..Len(h) + 1 /\ (lo + 1) - 1 = lo
    OBVIOUS
  <2>2. Total(h, lo + 1, lo) = 0
    BY <1>0, <2>1, TotalStep
  <2>3. Total(h, lo, lo) = Total(h, lo, lo - 1) + h[lo] /\ Total(h, lo, lo - 1) = 0
    BY <1>0, TotalStep
  <2> QED
    BY <1>1, <2>2, <2>3
<1>5. \A n \in lo..Len(h) : n \in P /\ n < Len(h) => n + 1 \in P
  <2> SUFFICES ASSUME NEW n \in lo..Len(h), n \in P, n < Len(h) PROVE n + 1 \in P
    OBVIOUS
  <2>1. n + 1 \in lo..Len(h) /\ n + 1 \in lo + 1..Len(h) /\ (n + 1) - 1 = n
        /\ lo + 1 \in 1..Len(h) + 1
    OBVIOUS
  <2>2. Total(h, lo, n + 1) = Total(h, lo, n) + h[n + 1]
    BY <1>0, <2>1, TotalStep
  <2>3. Total(h, lo + 1, n + 1) = Total(h, lo + 1, n) + h[n + 1]
    BY <1>0, <2>1, TotalStep
  <2>4. Total(h, lo, n) = h[lo] + Total(h, lo + 1, n)
    OBVIOUS
  <2>5. Total(h, lo, n + 1) = h[lo] + Total(h, lo + 1, n + 1)
    <3>1. h[lo] \in Nat /\ h[n + 1] \in Nat /\ Total(h, lo + 1, n) \in Nat
      BY <1>1, <1>3, <2>1
    <3> QED
      BY <2>2, <2>3, <2>4, <3>1
  <2> QED
    BY <2>1, <2>5
<1> HIDE DEF P
<1>6. \A n \in lo..Len(h) : n \in P
  BY <1>4, <1>5, <1>0, IntervalInduction
<1> QED
  BY <1>6 DEF P

-----------------------------------------------------------------------------
\* The scan of truncate_history.

Scan == [left : Nat, fits : Nat, stopped : BOOLEAN]
ScanBegins == [left |-> Budget, fits |-> 0, stopped |-> FALSE]

\* The function that Scanned is defined by.
IsScan(g, h) ==
    g = [n \in 0..Len(h) |-> IF n = 0 THEN [left |-> Budget, fits |-> 0, stopped |-> FALSE]
                             ELSE Take(g[n - 1], h[Len(h) - n + 1])]

LEMMA TakeType ==
    ASSUME NEW scan \in Scan, NEW m \in Nat
    PROVE  Take(scan, m) \in Scan
<1>1. /\ scan = [left |-> scan.left, fits |-> scan.fits, stopped |-> scan.stopped]
      /\ scan.left \in Nat /\ scan.fits \in Nat /\ scan.stopped \in BOOLEAN
  BY DEF Scan
<1>2. CASE ~scan.stopped /\ m <= scan.left
  <2>1. Take(scan, m) = [left |-> scan.left - m, fits |-> scan.fits + 1,
                         stopped |-> scan.stopped]
    BY <1>1, <1>2 DEF Take
  <2>2. scan.left - m \in Nat /\ scan.fits + 1 \in Nat
    BY <1>1, <1>2
  <2> QED
    BY <1>1, <2>1, <2>2 DEF Scan
<1>3. CASE ~(~scan.stopped /\ m <= scan.left)
  <2>1. Take(scan, m) = [left |-> scan.left, fits |-> scan.fits, stopped |-> TRUE]
    BY <1>1, <1>3 DEF Take
  <2> QED
    BY <1>1, <2>1 DEF Scan
<1> QED
  BY <1>2, <1>3

LEMMA ScanExists ==
    ASSUME NEW h \in Seq(Nat)
    PROVE  \E g : IsScan(g, h) /\ g \in [0..Len(h) -> Scan]
<1> DEFINE b == Len(h)
           F == [x \in (0 + 1..b) \X Scan |-> Take(x[2], h[b - x[1] + 1])]
<1>1. ASSUME NEW n \in 0 + 1..b, NEW x \in Scan
      PROVE  F[<<n, x>>] = Take(x, h[b - n + 1]) /\ Take(x, h[b - n + 1]) \in Scan
  <2>1. b - n + 1 \in 1..Len(h)
    OBVIOUS
  <2>2. h[b - n + 1] \in Nat
    BY <2>1
  <2> QED
    BY <2>2, TakeType
<1>2. b \in Nat /\ b = Len(h) /\ 0 \in Int /\ b \in Int
  OBVIOUS
<1>3. F = [x \in (0 + 1..b) \X Scan |-> F[x]]
  OBVIOUS
<1> HIDE DEF F, b
<1>4. IsStep(F, 0, b, Scan)
  <2>1. ASSUME NEW x \in (0 + 1..b) \X Scan PROVE F[x] \in Scan
    <3>1. x = <<x[1], x[2]>> /\ x[1] \in 0 + 1..b /\ x[2] \in Scan
      OBVIOUS
    <3>2. F[<<x[1], x[2]>>] \in Scan
      BY <1>1, <3>1
    <3> QED
      BY <3>1, <3>2
  <2> QED
    BY <1>3, <2>1 DEF IsStep
<1>5. ScanBegins \in Scan
  BY BudgetAssumption DEF ScanBegins, Scan
<1>6. PICK g : Follows(g, F, 0, b, ScanBegins, Scan)
  BY <1>2, <1>4, <1>5, Recursion
<1>7. \A n \in 0..b : g[n] = IF n = 0 THEN ScanBegins ELSE Take(g[n - 1], h[b - n + 1])
  <2> SUFFICES ASSUME NEW n \in 0..b, n # 0 PROVE g[n] = Take(g[n - 1], h[b - n + 1])
    BY <1>6 DEF Follows
  <2>1. n \in 0 + 1..b /\ n - 1 \in 0..b
    BY <1>2
  <2>2. g[n - 1] \in Scan /\ g[n] = F[<<n, g[n - 1]>>]
    BY <1>6, <2>1 DEF Follows
  <2> QED
    BY <1>1, <2>1, <2>2
<1>8. g = [n \in 0..b |-> IF n = 0 THEN ScanBegins ELSE Take(g[n - 1], h[b - n + 1])]
  BY <1>6, <1>7 DEF Follows
<1>9. IsScan(g, h)
  BY <1>2, <1>8 DEF IsScan, ScanBegins
<1> QED
  BY <1>2, <1>6, <1>9 DEF Follows

LEMMA ScannedLast ==
    ASSUME NEW h \in Seq(Nat)
    PROVE  \E g : IsScan(g, h) /\ Scanned(h) = g[Len(h)]
<1> DEFINE scan[n \in 0..Len(h)] ==
               IF n = 0 THEN [left |-> Budget, fits |-> 0, stopped |-> FALSE]
               ELSE Take(scan[n - 1], h[Len(h) - n + 1])
<1>1. IsScan(scan, h)
  BY ScanExists DEF IsScan
<1>2. Scanned(h) = scan[Len(h)]
  BY DEF Scanned
<1> HIDE DEF scan
<1> QED
  BY <1>1, <1>2

\* What is known of the scan after n messages: the newest ones fit, and if it has
\* stopped one more would not.
ScanKnows(scan, h, n) ==
    /\ scan \in Scan
    /\ ~scan.stopped => scan.fits = n
    /\ scan.stopped => scan.fits < n
    /\ scan.left = Budget - Total(h, Len(h) - scan.fits + 1, Len(h))
    /\ scan.stopped => Total(h, Len(h) - scan.fits, Len(h)) > Budget

LEMMA TakeKnows ==
    ASSUME NEW h \in Seq(Nat), NEW n \in 0..Len(h), n < Len(h),
           NEW scan, ScanKnows(scan, h, n)
    PROVE  ScanKnows(Take(scan, h[Len(h) - n]), h, n + 1)
<1> DEFINE m == h[Len(h) - n]
           k == Len(h) - n
<1>1. k \in 1..Len(h) /\ m \in Nat /\ k = Len(h) - n
  OBVIOUS
<1>2. scan \in Scan /\ Take(scan, m) \in Scan
  BY <1>1, TakeType DEF ScanKnows
<1>3. Total(h, k, Len(h)) = m + Total(h, k + 1, Len(h))
  <2>1. Len(h) \in k..Len(h)
    BY <1>1
  <2> QED
    BY <1>1, <2>1, TotalOfOneMore
<1>4. Total(h, k, Len(h)) \in Nat /\ Total(h, k + 1, Len(h)) \in Nat
  <2>1. k \in 1..Len(h) + 1 /\ k + 1 \in 1..Len(h) + 1
        /\ Len(h) \in k - 1..Len(h) /\ Len(h) \in (k + 1) - 1..Len(h)
    BY <1>1
  <2> QED
    BY <2>1, TotalNat
<1> HIDE DEF k, m
<1>5. CASE scan.stopped
  <2>1. Take(scan, m) = scan
    BY <1>2, <1>5 DEF Take, Scan
  <2> QED
    BY <1>2, <1>5, <2>1 DEF ScanKnows, Scan, m
<1>6. CASE ~scan.stopped /\ m <= scan.left
  <2>1. scan.fits = n /\ scan.left = Budget - Total(h, k + 1, Len(h))
    BY <1>1, <1>6 DEF ScanKnows
  <2>2. Take(scan, m) = [left |-> scan.left - m, fits |-> n + 1, stopped |-> FALSE]
    BY <1>2, <1>6, <2>1 DEF Take, Scan
  <2>3. scan.left - m = Budget - Total(h, k, Len(h))
    BY <1>1, <1>3, <1>4, <2>1, BudgetAssumption
  <2>4. Len(h) - (n + 1) + 1 = k
    BY <1>1
  <2> QED
    BY <1>2, <2>2, <2>3, <2>4 DEF ScanKnows, m
<1>7. CASE ~scan.stopped /\ ~(m <= scan.left)
  <2>1. scan.fits = n /\ scan.left = Budget - Total(h, k + 1, Len(h))
    BY <1>1, <1>7 DEF ScanKnows
  <2>2. Take(scan, m) = [left |-> scan.left, fits |-> n, stopped |-> TRUE]
    BY <1>2, <1>7, <2>1 DEF Take, Scan
  <2>3. Total(h, k, Len(h)) > Budget
    BY <1>1, <1>3, <1>4, <1>7, <2>1, BudgetAssumption
  <2>4. Len(h) - n + 1 = k + 1 /\ n < n + 1
    BY <1>1
  <2> QED
    BY <1>1, <1>2, <2>1, <2>2, <2>3, <2>4 DEF ScanKnows, m
<1> QED
  BY <1>5, <1>6, <1>7

LEMMA ScannedKnows ==
    ASSUME NEW h \in Seq(Nat)
    PROVE  ScanKnows(Scanned(h), h, Len(h))
<1>1. PICK g : IsScan(g, h) /\ Scanned(h) = g[Len(h)]
  BY ScannedLast
<1>2. \A n \in 0..Len(h) : g[n] = IF n = 0 THEN ScanBegins
                                  ELSE Take(g[n - 1], h[Len(h) - n + 1])
  BY <1>1 DEF IsScan, ScanBegins
<1> DEFINE P == {n \in 0..Len(h) : ScanKnows(g[n], h, n)}
<1>3. 0 \in P
  <2>1. g[0] = ScanBegins
    BY <1>2
  <2>2. Total(h, Len(h) + 1, Len(h)) = 0
    <3>1. Len(h) + 1 \in 1..Len(h) + 1 /\ (Len(h) + 1) - 1 = Len(h)
      OBVIOUS
    <3> QED
      BY <3>1, TotalStep
  <2>3. ScanKnows(ScanBegins, h, 0)
    BY <2>2, BudgetAssumption DEF ScanBegins, ScanKnows, Scan
  <2> QED
    BY <2>1, <2>3
<1>4. \A n \in 0..Len(h) : n \in P /\ n < Len(h) => n + 1 \in P
  <2> SUFFICES ASSUME NEW n \in 0..Len(h), n \in P, n < Len(h) PROVE n + 1 \in P
    OBVIOUS
  <2>1. n + 1 \in 0..Len(h) /\ n + 1 # 0 /\ (n + 1) - 1 = n
        /\ Len(h) - (n + 1) + 1 = Len(h) - n
    OBVIOUS
  <2>2. g[n + 1] = Take(g[n], h[Len(h) - n])
    BY <1>2, <2>1
  <2>3. ScanKnows(g[n + 1], h, n + 1)
    BY <2>2, TakeKnows
  <2> QED
    BY <2>1, <2>3
<1> HIDE DEF P
<1>5. \A n \in 0..Len(h) : n \in P
  <2>1. 0 \in Int /\ Len(h) \in Int
    OBVIOUS
  <2> QED
    BY <1>3, <1>4, <2>1, IntervalInduction
<1>6. ScanKnows(g[Len(h)], h, Len(h))
  BY <1>5 DEF P
<1> QED
  BY <1>1, <1>6

\* A message is among the newest that fit just when the end that it begins fits.
LEMMA LatestFits ==
    ASSUME NEW h \in Seq(Nat), NEW i \in 1..Len(h)
    PROVE  i \in Latest(h) <=> Total(h, i, Len(h)) <= Budget
<1> DEFINE fits == Scanned(h).fits
           first == Len(h) - fits + 1
           scan == Scanned(h)
<1>1. ScanKnows(scan, h, Len(h))
  BY ScannedKnows
<1>2. fits \in 0..Len(h) /\ scan.left \in Nat /\ scan.stopped \in BOOLEAN
  BY <1>1 DEF ScanKnows, Scan
<1>3. /\ ~scan.stopped => fits = Len(h)
      /\ scan.left = Budget - Total(h, first, Len(h))
      /\ scan.stopped => fits < Len(h) /\ Total(h, first - 1, Len(h)) > Budget
  <2>1. first - 1 = Len(h) - fits
    BY <1>2
  <2> QED
    BY <1>1, <2>1 DEF ScanKnows
<1>4. \A k \in 1..Len(h) : Total(h, k, Len(h)) \in Nat
                           /\ Total(h, k + 1, Len(h)) \in Nat
                           /\ Total(h, k, Len(h)) >= Total(h, k + 1, Len(h))
  <2> SUFFICES ASSUME NEW k \in 1..Len(h)
               PROVE  /\ Total(h, k, Len(h)) \in Nat
                      /\ Total(h, k + 1, Len(h)) \in Nat
                      /\ Total(h, k, Len(h)) >= Total(h, k + 1, Len(h))
    OBVIOUS
  <2>1. k \in 1..Len(h) + 1 /\ k + 1 \in 1..Len(h) + 1
        /\ Len(h) \in k - 1..Len(h) /\ Len(h) \in (k + 1) - 1..Len(h)
        /\ Len(h) \in k..Len(h) /\ h[k] \in Nat
    OBVIOUS
  <2>2. Total(h, k, Len(h)) = h[k] + Total(h, k + 1, Len(h))
    BY <2>1, TotalOfOneMore
  <2>3. Total(h, k, Len(h)) \in Nat /\ Total(h, k + 1, Len(h)) \in Nat
    BY <2>1, TotalNat
  <2> QED
    BY <2>1, <2>2, <2>3
<1>5. first \in 1..Len(h) + 1 /\ first - 1 \in Int
  BY <1>2
<1>6. Total(h, first, Len(h)) <= Budget
  <2>1. Total(h, first, Len(h)) \in Nat
    <3>1. Len(h) \in first - 1..Len(h)
      BY <1>5
    <3> QED
      BY <1>5, <3>1, TotalNat
  <2> QED
    BY <1>2, <1>3, <2>1, BudgetAssumption
<1>7. Latest(h) = first..Len(h)
  BY DEF Latest
<1> HIDE DEF first, fits, scan
<1>8. CASE i >= first
  <2> DEFINE P == {k \in first..Len(h) : Total(h, k, Len(h)) <= Budget}
  <2>1. first <= Len(h) => first \in P
    BY <1>5, <1>6
  <2>2. \A k \in first..Len(h) : k \in P /\ k < Len(h) => k + 1 \in P
    <3> SUFFICES ASSUME NEW k \in first..Len(h), k \in P, k < Len(h) PROVE k + 1 \in P
      OBVIOUS
    <3>1. k \in 1..Len(h) /\ k + 1 \in first..Len(h)
      BY <1>5
    <3>2. Total(h, k + 1, Len(h)) <= Budget
      BY <1>4, <3>1, BudgetAssumption
    <3> QED
      BY <3>1, <3>2
  <2>3. first \in Int /\ Len(h) \in Int
    BY <1>5
  <2> HIDE DEF P
  <2>4. \A k \in first..Len(h) : k \in P
    BY <2>1, <2>2, <2>3, IntervalInduction
  <2>5. i \in first..Len(h)
    BY <1>5, <1>8
  <2>6. Total(h, i, Len(h)) <= Budget
    BY <2>4, <2>5 DEF P
  <2> QED
    BY <1>7, <2>5, <2>6
<1>9. CASE i < first
  <2> DEFINE P == {k \in i..first - 1 : Total(h, i, Len(h)) >= Total(h, k, Len(h))}
  <2>1. i <= first - 1 => i \in P
    BY <1>4, <1>5
  <2>2. \A k \in i..first - 1 : k \in P /\ k < first - 1 => k + 1 \in P
    <3> SUFFICES ASSUME NEW k \in i..first - 1, k \in P, k < first - 1 PROVE k + 1 \in P
      OBVIOUS
    <3>1. k \in 1..Len(h) /\ k + 1 \in 1..Len(h) /\ k + 1 \in i..first - 1
      BY <1>5
    <3>2. Total(h, i, Len(h)) >= Total(h, k + 1, Len(h))
      BY <1>4, <3>1
    <3> QED
      BY <3>1, <3>2
  <2>3. i \in Int /\ first - 1 \in Int
    BY <1>5
  <2> HIDE DEF P
  <2>4. \A k \in i..first - 1 : k \in P
    BY <2>1, <2>2, <2>3, IntervalInduction
  <2>5. first - 1 \in i..first - 1 /\ first - 1 \in 1..Len(h)
    BY <1>5, <1>9
  <2>6. Total(h, i, Len(h)) >= Total(h, first - 1, Len(h))
    BY <2>4, <2>5 DEF P
  <2>7. scan.stopped
    BY <1>2, <1>3, <1>9 DEF first
  <2>8. Total(h, i, Len(h)) > Budget
    BY <1>3, <1>4, <2>5, <2>6, <2>7, BudgetAssumption
  <2>9. i \notin first..Len(h) /\ Total(h, i, Len(h)) \in Nat
    BY <1>4, <1>5, <1>9
  <2> QED
    BY <1>7, <2>8, <2>9, BudgetAssumption
<1> QED
  BY <1>5, <1>8, <1>9

-----------------------------------------------------------------------------
\* What a question carries of the conversation.

\* Before the first question nothing is carried.
Carried ==
    \/ history = <<>> /\ kept = {} /\ truncated = FALSE
    \/ /\ Len(history) >= 2
       /\ kept = Included(history)
       /\ truncated = (Cardinality(kept) < Len(history))

LEMMA MinOfTwo ==
    ASSUME NEW a \in Int, NEW b \in Int
    PROVE  Min({a, b}) = IF a <= b THEN a ELSE b
<1> DEFINE m == IF a <= b THEN a ELSE b
           S == {a, b}
<1>1. m \in S /\ \A y \in S : m <= y
  OBVIOUS
<1>2. \A x \in S : (\A y \in S : x <= y) => x = m
  BY <1>1
<1> HIDE DEF m
<1>3. Min(S) = m
  BY <1>1, <1>2 DEF Min
<1> QED
  BY <1>3 DEF m

LEMMA IncludedIn ==
    ASSUME NEW h \in Seq(Nat), Len(h) >= 2
    PROVE  /\ Included(h) \subseteq DOMAIN h
           /\ \A i \in DOMAIN h :
                  i \in Included(h) <=> \/ Total(h, i, Len(h)) <= Budget
                                        \/ i <= 2 /\ 10 * Total(h, 1, 2) <= 3 * Budget
<1>1. Min({2, Len(h)}) = 2
  BY MinOfTwo
<1>2. FirstTurn(h) = 1..2
  BY <1>1 DEF FirstTurn
<1>3. ProtectFirst(h) <=> 10 * Total(h, 1, 2) <= 3 * Budget
  BY <1>1 DEF ProtectFirst
<1>4. DOMAIN h = 1..Len(h)
  OBVIOUS
<1>5. Latest(h) \subseteq 1..Len(h)
  <2>1. Scanned(h).fits \in 0..Len(h)
    BY ScannedKnows DEF ScanKnows, Scan
  <2> QED
    BY <2>1 DEF Latest
<1>6. 1..2 \subseteq 1..Len(h)
  OBVIOUS
<1>7. Included(h) = Latest(h) \cup IF ProtectFirst(h) THEN 1..2 ELSE {}
  BY <1>2 DEF Included
<1>8. Included(h) \subseteq DOMAIN h
  BY <1>4, <1>5, <1>6, <1>7
<1>9. ASSUME NEW i \in DOMAIN h
      PROVE  i \in Included(h) <=> \/ Total(h, i, Len(h)) <= Budget
                                   \/ i <= 2 /\ 10 * Total(h, 1, 2) <= 3 * Budget
  <2>1. i \in 1..Len(h) /\ (i \in 1..2 <=> i <= 2)
    BY <1>4
  <2>2. i \in Latest(h) <=> Total(h, i, Len(h)) <= Budget
    BY <2>1, LatestFits
  <2>3. i \in Included(h) <=> i \in Latest(h) \/ (ProtectFirst(h) /\ i \in 1..2)
    BY <1>7
  <2> QED
    BY <1>3, <2>1, <2>2, <2>3
<1> QED
  BY <1>8, <1>9

LEMMA SmallerPart ==
    ASSUME NEW n \in Nat, NEW S \in SUBSET (1..n)
    PROVE  Cardinality(S) < n <=> S # 1..n
<1>1. IsFiniteSet(1..n) /\ Cardinality(1..n) = n
  BY FS_Interval
<1>2. IsFiniteSet(S) /\ Cardinality(S) <= n
      /\ (Cardinality(S) = Cardinality(1..n) => S = 1..n)
  BY <1>1, FS_Subset
<1>3. Cardinality(S) \in Nat
  BY <1>2, FS_CardinalityType
<1> QED
  BY <1>1, <1>2, <1>3

HistoryInv == TypeOK /\ Carried

LEMMA TokensAreNumbers == Seq(Tokens) \subseteq Seq(Nat)
  BY BudgetAssumption, SeqMonotonic

LEMMA CarriedKeeps ==
    ASSUME HistoryInv
    PROVE  KeepsLongestEnd
<1>1. CASE history = <<>> /\ kept = {} /\ truncated = FALSE
  BY <1>1 DEF KeepsLongestEnd
<1>2. CASE /\ Len(history) >= 2
           /\ kept = Included(history)
           /\ truncated = (Cardinality(kept) < Len(history))
  <2>1. history \in Seq(Nat)
    BY TokensAreNumbers DEF HistoryInv, TypeOK
  <2>2. /\ kept \subseteq DOMAIN history
        /\ \A i \in DOMAIN history :
               i \in kept <=> \/ Total(history, i, Len(history)) <= Budget
                              \/ i <= 2 /\ 10 * Total(history, 1, 2) <= 3 * Budget
    BY <1>2, <2>1, IncludedIn
  <2>3. DOMAIN history = 1..Len(history) /\ Len(history) \in Nat
    BY <2>1
  <2>4. Cardinality(kept) < Len(history) <=> kept # DOMAIN history
    BY <2>2, <2>3, SmallerPart
  <2> QED
    BY <1>2, <2>2, <2>4 DEF KeepsLongestEnd, End
<1> QED
  BY <1>1, <1>2 DEF HistoryInv, Carried

\* A question carries the longest end of its conversation that fits the budget, and
\* the first turn where it is small, and context_truncated tells whether anything is
\* missing: truncate_history for any budget, sizes and number of turns.
THEOREM HistoryKeepsLongestEnd == Spec => []KeepsLongestEnd
<1>1. Init => HistoryInv
  <2>1. <<>> \in Seq(Tokens) /\ Len(<<>>) = 0 /\ 0 % 2 = 0
    OBVIOUS
  <2> QED
    BY <2>1 DEF Init, HistoryInv, TypeOK, Carried
<1>2. HistoryInv /\ [Next]_vars => HistoryInv'
  <2> SUFFICES ASSUME HistoryInv, [Next]_vars PROVE HistoryInv'
    OBVIOUS
  <2>1. CASE Ask
    <3>1. PICK q \in Tokens, a \in Tokens : history' = history \o <<q, a>>
      BY <2>1 DEF Ask
    <3>2. history \in Seq(Tokens) /\ Len(history) % 2 = 0 /\ Len(history) \in Nat
      BY DEF HistoryInv, TypeOK
    <3>3. <<q, a>> \in Seq(Tokens) /\ Len(<<q, a>>) = 2
      OBVIOUS
    <3>4. history' \in Seq(Tokens) /\ Len(history') = Len(history) + 2
      BY <3>1, <3>2, <3>3
    <3>5. history' \in Seq(Nat) /\ Len(history') >= 2 /\ Len(history') % 2 = 0
      BY <3>2, <3>4, TokensAreNumbers
    <3>6. kept' = Included(history') /\ truncated' = (Cardinality(kept') < Len(history'))
      BY <2>1 DEF Ask
    <3>7. kept' \subseteq DOMAIN history'
      BY <3>5, <3>6, IncludedIn
    <3>8. TypeOK'
      BY <3>4, <3>5, <3>6, <3>7 DEF TypeOK
    <3>9. Carried'
      BY <3>5, <3>6 DEF Carried
    <3> QED
      BY <3>8, <3>9 DEF HistoryInv
  <2>2. CASE UNCHANGED vars
    BY <2>2 DEF vars, HistoryInv, TypeOK, Carried, Included, Latest, FirstTurn, ProtectFirst
  <2> QED
    BY <2>1, <2>2 DEF Next
<1>3. HistoryInv => KeepsLongestEnd
  BY CarriedKeeps
<1> QED
  BY <1>1, <1>2, <1>3, PTL DEF Spec

-----------------------------------------------------------------------------
\* Positions in a text.

IsText(t) ==
    /\ Len(t) \in Nat /\ DOMAIN t = 1..Len(t)
    /\ \A i \in 1..Len(t) : t[i].len \in Nat \ {0} /\ t[i].sep \in DOMAIN Width

LEMMA Widths == \A s \in DOMAIN Width : Width[s] \in 1..3
  BY DEF Width

\* The function that From is defined by.
IsFrom(g, t, i) ==
    g = [n \in 1..i |-> IF n = 1 THEN 0 ELSE g[n - 1] + t[n - 1].len + Width[t[n - 1].sep]]

LEMMA FromExists ==
    ASSUME NEW t, IsText(t), NEW i \in 1..Len(t)
    PROVE  \E g : IsFrom(g, t, i) /\ g \in [1..i -> Nat]
<1> DEFINE gap(n) == t[n - 1].len + Width[t[n - 1].sep]
           F == [x \in (1 + 1..i) \X Nat |-> x[2] + gap(x[1])]
<1>1. ASSUME NEW n \in 1 + 1..i PROVE gap(n) \in Nat
  <2>1. n - 1 \in 1..Len(t)
    BY DEF IsText
  <2>2. t[n - 1].len \in Nat /\ t[n - 1].sep \in DOMAIN Width
    BY <2>1 DEF IsText
  <2> QED
    BY <2>2, Widths
<1>2. \A n \in 1 + 1..i, x \in Nat : F[<<n, x>>] = x + gap(n)
  OBVIOUS
<1> HIDE DEF gap
<1>3. IsStep(F, 1, i, Nat)
  BY <1>1 DEF IsStep
<1> HIDE DEF F
<1>4. 1 \in Int /\ i \in Int /\ 1 <= i /\ 0 \in Nat
  BY DEF IsText
<1>5. PICK g : Follows(g, F, 1, i, 0, Nat)
  BY <1>3, <1>4, Recursion
<1>6. \A n \in 1..i : g[n] = IF n = 1 THEN 0 ELSE g[n - 1] + gap(n)
  <2> SUFFICES ASSUME NEW n \in 1..i, n # 1 PROVE g[n] = g[n - 1] + gap(n)
    BY <1>5 DEF Follows
  <2>1. n \in 1 + 1..i /\ n - 1 \in 1..i
    BY <1>4
  <2> QED
    BY <1>2, <1>5, <2>1 DEF Follows
<1>7. ASSUME NEW n \in 1..i, n # 1
      PROVE  g[n - 1] + gap(n) = g[n - 1] + t[n - 1].len + Width[t[n - 1].sep]
  <2>1. n - 1 \in 1..Len(t) /\ n - 1 \in 1..i
    BY <1>7 DEF IsText
  <2>2. t[n - 1].len \in Nat /\ t[n - 1].sep \in DOMAIN Width /\ g[n - 1] \in Nat
    BY <1>5, <2>1 DEF IsText, Follows
  <2>3. Width[t[n - 1].sep] \in Nat
    BY <2>2, Widths
  <2> QED
    BY <2>2, <2>3 DEF gap
<1>8. \A n \in 1..i :
          g[n] = IF n = 1 THEN 0 ELSE g[n - 1] + t[n - 1].len + Width[t[n - 1].sep]
  BY <1>6, <1>7
<1>9. g \in [1..i -> Nat]
  BY <1>5 DEF Follows
<1>10. g = [n \in 1..i |->
               IF n = 1 THEN 0 ELSE g[n - 1] + t[n - 1].len + Width[t[n - 1].sep]]
  BY <1>8, <1>9
<1> QED
  BY <1>9, <1>10 DEF IsFrom

LEMMA FromLast ==
    ASSUME NEW t, IsText(t), NEW i \in 1..Len(t)
    PROVE  \E g : IsFrom(g, t, i) /\ From(t, i) = g[i]
<1> DEFINE from[n \in 1..i] ==
               IF n = 1 THEN 0 ELSE from[n - 1] + t[n - 1].len + Width[t[n - 1].sep]
<1>0. \E g : IsFrom(g, t, i)
  BY FromExists
<1>1. IsFrom(from, t, i)
  BY <1>0 DEF IsFrom
<1>2. From(t, i) = from[i]
  BY DEF From
<1> HIDE DEF from
<1> QED
  BY <1>1, <1>2

LEMMA FromsAgree ==
    ASSUME NEW t, NEW i \in Int, NEW j \in Int, j <= i,
           NEW f, IsFrom(f, t, i), NEW g, IsFrom(g, t, j)
    PROVE  \A n \in 1..j : f[n] = g[n]
<1> DEFINE P == {n \in 1..j : f[n] = g[n]}
<1>1. \A n \in 1..i : f[n] = IF n = 1 THEN 0
                             ELSE f[n - 1] + t[n - 1].len + Width[t[n - 1].sep]
  BY DEF IsFrom
<1>2. \A n \in 1..j : g[n] = IF n = 1 THEN 0
                             ELSE g[n - 1] + t[n - 1].len + Width[t[n - 1].sep]
  BY DEF IsFrom
<1>3. 1 <= j => 1 \in P
  BY <1>1, <1>2
<1>4. \A n \in 1..j : n \in P /\ n < j => n + 1 \in P
  <2> SUFFICES ASSUME NEW n \in 1..j, n \in P, n < j PROVE n + 1 \in P
    OBVIOUS
  <2>1. n + 1 \in 1..j /\ n + 1 \in 1..i /\ n + 1 # 1 /\ (n + 1) - 1 = n
    OBVIOUS
  <2> QED
    BY <1>1, <1>2, <2>1
<1> HIDE DEF P
<1>5. \A n \in 1..j : n \in P
  <2>1. 1 \in Int
    OBVIOUS
  <2> QED
    BY <1>3, <1>4, <2>1, IntervalInduction
<1> QED
  BY <1>5 DEF P

\* A piece begins where the separator of the piece before it ends.
LEMMA FromStep ==
    ASSUME NEW t, IsText(t)
    PROVE  /\ \A i \in 1..Len(t) : /\ From(t, i) \in Nat /\ To(t, i) \in Nat
                                   /\ From(t, i) < To(t, i)
           /\ \A i \in 1..Len(t) - 1 : From(t, i + 1) = To(t, i) + Width[t[i].sep]
<1>1. ASSUME NEW i \in 1..Len(t)
      PROVE  /\ From(t, i) \in Nat /\ To(t, i) \in Nat
             /\ From(t, i) < To(t, i)
  <2>1. PICK g : IsFrom(g, t, i) /\ From(t, i) = g[i]
    BY FromLast
  <2>2. PICK f : IsFrom(f, t, i) /\ f \in [1..i -> Nat]
    BY FromExists
  <2>3. i \in 1..i /\ i \in Int /\ i <= i
    BY DEF IsText
  <2>4. g[i] = f[i]
    BY <2>1, <2>2, <2>3, FromsAgree
  <2>5. From(t, i) \in Nat
    BY <2>1, <2>2, <2>3, <2>4
  <2>6. t[i].len \in Nat \ {0} /\ To(t, i) = From(t, i) + t[i].len
    BY DEF To, IsText
  <2> QED
    BY <2>5, <2>6
<1>2. ASSUME NEW i \in 1..Len(t) - 1
      PROVE  From(t, i + 1) = To(t, i) + Width[t[i].sep]
  <2>1. i \in 1..Len(t) /\ i + 1 \in 1..Len(t) /\ i \in 1..i
        /\ i + 1 \in 1..i + 1 /\ i + 1 # 1 /\ (i + 1) - 1 = i
        /\ i \in Int /\ i + 1 \in Int /\ i <= i + 1
    BY DEF IsText
  <2>2. PICK f : IsFrom(f, t, i + 1) /\ From(t, i + 1) = f[i + 1]
    BY <2>1, FromLast
  <2>3. PICK g : IsFrom(g, t, i) /\ From(t, i) = g[i]
    BY <2>1, FromLast
  <2>4. \A n \in 1..i : f[n] = g[n]
    BY <2>1, <2>2, <2>3, FromsAgree
  <2>5. f[i + 1] = f[i] + t[i].len + Width[t[i].sep]
    BY <2>1, <2>2 DEF IsFrom
  <2> QED
    BY <2>1, <2>2, <2>3, <2>4, <2>5 DEF To
<1> QED
  BY <1>1, <1>2

\* Pieces follow each other with their separators between them.
LEMMA PiecesInOrder ==
    ASSUME NEW t, IsText(t), NEW i \in 1..Len(t)
    PROVE  \A j \in i..Len(t) : /\ From(t, i) <= From(t, j) /\ To(t, i) <= To(t, j)
                                /\ i < j => To(t, i) < From(t, j)
<1> DEFINE P == {j \in i..Len(t) : /\ From(t, i) <= From(t, j) /\ To(t, i) <= To(t, j)
                                   /\ i < j => To(t, i) < From(t, j)}
<1>1. \A k \in 1..Len(t) : /\ From(t, k) \in Nat /\ To(t, k) \in Nat
                           /\ From(t, k) < To(t, k)
  BY FromStep
<1>2. i \in Int /\ Len(t) \in Int /\ Len(t) \in Nat
  BY DEF IsText
<1>3. i <= Len(t) => i \in P
  BY <1>1, <1>2
<1>4. \A j \in i..Len(t) : j \in P /\ j < Len(t) => j + 1 \in P
  <2> SUFFICES ASSUME NEW j \in i..Len(t), j \in P, j < Len(t) PROVE j + 1 \in P
    OBVIOUS
  <2>1. j \in 1..Len(t) - 1 /\ j \in 1..Len(t) /\ j + 1 \in 1..Len(t) /\ j + 1 \in i..Len(t)
    BY <1>2
  <2>2. From(t, j + 1) = To(t, j) + Width[t[j].sep]
    BY <2>1, FromStep
  <2>3. Width[t[j].sep] \in 1..3
    BY <2>1, Widths DEF IsText
  <2>4. /\ From(t, i) \in Nat /\ To(t, i) \in Nat /\ From(t, i) < To(t, i)
        /\ From(t, j) \in Nat /\ To(t, j) \in Nat /\ From(t, j) < To(t, j)
        /\ From(t, j + 1) \in Nat /\ To(t, j + 1) \in Nat
        /\ From(t, j + 1) < To(t, j + 1)
    BY <1>1, <2>1
  <2>5. From(t, i) <= From(t, j) /\ To(t, i) <= To(t, j)
    OBVIOUS
  <2>6. /\ From(t, i) <= From(t, j + 1) /\ To(t, i) <= To(t, j + 1)
        /\ To(t, i) < From(t, j + 1)
    <3> DEFINE fi == From(t, i)
               ti == To(t, i)
               fj == From(t, j)
               tj == To(t, j)
               fn == From(t, j + 1)
               tn == To(t, j + 1)
               w == Width[t[j].sep]
    <3>1. /\ fi \in Nat /\ ti \in Nat /\ fj \in Nat /\ tj \in Nat /\ fn \in Nat /\ tn \in Nat
          /\ fi <= fj /\ ti <= tj /\ fj < tj /\ fn < tn /\ fn = tj + w /\ w \in 1..3
      BY <2>2, <2>3, <2>4, <2>5
    <3> HIDE DEF fi, ti, fj, tj, fn, tn, w
    <3>2. fi <= fn /\ ti <= tn /\ ti < fn
      BY ONLY <3>1
    <3> QED
      BY <3>2 DEF fi, ti, fn, tn
  <2> QED
    BY <2>1, <2>6
<1> HIDE DEF P
<1>5. \A j \in i..Len(t) : j \in P
  BY <1>2, <1>3, <1>4, IntervalInduction
<1> QED
  BY <1>5 DEF P

-----------------------------------------------------------------------------
\* Ranges of pieces that follow each other.

\* The ranges cut lo..hi in pieces, in order, and leave nothing between them.
Tiles(rs, lo, hi) ==
    /\ Len(rs) \in Nat \ {0} /\ rs \in [1..Len(rs) -> Int \X Int]
    /\ rs[1][1] = lo /\ rs[Len(rs)][2] = hi
    /\ \A k \in 1..Len(rs) : rs[k][1] <= rs[k][2]
    /\ \A k \in 1..Len(rs) - 1 : rs[k + 1][1] = rs[k][2] + 1

LEMMA TilesSeq ==
    ASSUME NEW rs, NEW lo, NEW hi, Tiles(rs, lo, hi)
    PROVE  rs \in Seq(Int \X Int) /\ DOMAIN rs = 1..Len(rs) /\ lo \in Int /\ hi \in Int
<1>1. rs \in Seq(Int \X Int)
  BY SeqDef DEF Tiles
<1>2. 1 \in 1..Len(rs) /\ Len(rs) \in 1..Len(rs)
  BY DEF Tiles
<1>3. rs[1] \in Int \X Int /\ rs[Len(rs)] \in Int \X Int
  BY <1>2 DEF Tiles
<1> QED
  BY <1>1, <1>3 DEF Tiles

\* One range.
LEMMA TilesOne ==
    ASSUME NEW lo \in Int, NEW hi \in Int, lo <= hi
    PROVE  Tiles(<< <<lo, hi>> >>, lo, hi)
<1> DEFINE rs == << <<lo, hi>> >>
<1>1. Len(rs) = 1 /\ DOMAIN rs = 1..1 /\ rs[1] = <<lo, hi>>
  OBVIOUS
<1>2. rs \in [1..1 -> Int \X Int]
  OBVIOUS
<1> HIDE DEF rs
<1> QED
  BY <1>1, <1>2 DEF Tiles, rs

\* Two cuts, one after the other.
LEMMA TilesConcat ==
    ASSUME NEW a, NEW b, NEW lo, NEW mid, NEW hi, Tiles(a, lo, mid), Tiles(b, mid + 1, hi)
    PROVE  Tiles(a \o b, lo, hi)
<1> DEFINE c == a \o b
           m == Len(a)
           n == Len(b)
<1>1. a \in Seq(Int \X Int) /\ b \in Seq(Int \X Int) /\ mid \in Int
  BY TilesSeq
<1>2. c \in Seq(Int \X Int) /\ Len(c) = m + n
      /\ (\A k \in 1..m : c[k] = a[k])
      /\ (\A k \in 1..n : c[m + k] = b[k])
  BY <1>1
<1>3. m \in Nat \ {0} /\ n \in Nat \ {0}
  BY DEF Tiles
<1> HIDE DEF c, m, n
<1>4. a[1][1] = lo /\ a[m][2] = mid /\ b[1][1] = mid + 1 /\ b[n][2] = hi
      /\ (\A k \in 1..m : a[k][1] <= a[k][2])
      /\ (\A k \in 1..m - 1 : a[k + 1][1] = a[k][2] + 1)
      /\ (\A k \in 1..n : b[k][1] <= b[k][2])
      /\ (\A k \in 1..n - 1 : b[k + 1][1] = b[k][2] + 1)
  BY DEF Tiles, m, n
<1>5. c[1][1] = lo /\ c[m + n][2] = hi
  <2>1. 1 \in 1..m /\ n \in 1..n
    BY <1>3
  <2> QED
    BY <1>2, <1>4, <2>1
<1>6. ASSUME NEW k \in 1..m + n PROVE c[k][1] <= c[k][2]
  <2>1. CASE k \in 1..m
    BY <1>2, <1>4, <2>1
  <2>2. CASE k \notin 1..m
    <3>1. k - m \in 1..n /\ k = m + (k - m)
      BY <1>3, <2>2
    <3>2. c[k] = b[k - m]
      BY <1>2, <3>1
    <3> QED
      BY <1>4, <3>1, <3>2
  <2> QED
    BY <2>1, <2>2
<1>7. ASSUME NEW k \in 1..(m + n) - 1 PROVE c[k + 1][1] = c[k][2] + 1
  <2>1. CASE k < m
    <3>1. k \in 1..m - 1 /\ k \in 1..m /\ k + 1 \in 1..m
      BY <1>3, <2>1
    <3> QED
      BY <1>2, <1>4, <3>1
  <2>2. CASE k = m
    <3>1. m \in 1..m /\ 1 \in 1..n
      BY <1>3
    <3> QED
      BY <1>2, <1>4, <2>2, <3>1
  <2>3. CASE k > m
    <3> DEFINE i == k - m
               j == i + 1
    <3>1. i \in 1..n - 1 /\ i \in 1..n /\ j \in 1..n
          /\ k = m + i /\ k + 1 = m + j /\ j = i + 1
      BY <1>3, <2>3
    <3> HIDE DEF i, j
    <3>2. c[k] = b[i] /\ c[k + 1] = b[j]
      BY <1>2, <3>1
    <3> QED
      BY <1>4, <3>1, <3>2
  <2> QED
    BY <1>3, <2>1, <2>2, <2>3
<1>8. Len(c) \in Nat \ {0} /\ c \in [1..Len(c) -> Int \X Int]
  <2>1. m + n \in Nat \ {0}
    BY <1>3
  <2>2. c \in Seq(Int \X Int) /\ Len(c) = m + n
    BY <1>2
  <2> QED
    BY ONLY <2>1, <2>2
<1> QED
  BY <1>2, <1>5, <1>6, <1>7, <1>8 DEF Tiles, c

\* Every number of lo..hi is in one of the ranges, and these are in order.
LEMMA TilesBounds ==
    ASSUME NEW rs, NEW lo, NEW hi, Tiles(rs, lo, hi)
    PROVE  /\ \A k \in 1..Len(rs) : rs[k][1] \in lo..hi /\ rs[k][2] \in lo..hi
           /\ \A k \in 1..Len(rs) : rs[k][2] >= lo + k - 1
           /\ \A j \in lo..hi : \E k \in 1..Len(rs) : j \in rs[k][1]..rs[k][2]
<1> DEFINE n == Len(rs)
<1>1. n \in Nat \ {0} /\ n \in Int /\ 1 \in Int /\ lo \in Int /\ hi \in Int
  BY TilesSeq DEF Tiles
<1>2. \A k \in 1..n : rs[k][1] \in Int /\ rs[k][2] \in Int /\ rs[k][1] <= rs[k][2]
  <2> SUFFICES ASSUME NEW k \in 1..n
               PROVE  rs[k][1] \in Int /\ rs[k][2] \in Int /\ rs[k][1] <= rs[k][2]
    OBVIOUS
  <2>1. rs[k] \in Int \X Int
    BY DEF Tiles
  <2> QED
    BY <2>1 DEF Tiles
<1>3. rs[1][1] = lo /\ rs[n][2] = hi
      /\ \A k \in 1..n - 1 : rs[k + 1][1] = rs[k][2] + 1
  BY DEF Tiles
<1> HIDE DEF n
<1> DEFINE P == {k \in 1..n : /\ rs[k][1] >= lo /\ rs[k][2] >= lo + k - 1
                              /\ \A j \in lo..rs[k][2] :
                                     \E i \in 1..k : j \in rs[i][1]..rs[i][2]}
<1>4. 1 \in P
  BY <1>1, <1>2, <1>3
<1>5. \A k \in 1..n : k \in P /\ k < n => k + 1 \in P
  <2> SUFFICES ASSUME NEW k \in 1..n, k \in P, k < n PROVE k + 1 \in P
    OBVIOUS
  <2>1. k \in 1..n - 1 /\ k + 1 \in 1..n
    BY <1>1
  <2>2. rs[k + 1][1] = rs[k][2] + 1
    BY <1>3, <2>1
  <2>3. /\ rs[k][1] \in Int /\ rs[k][2] \in Int /\ rs[k][1] <= rs[k][2]
        /\ rs[k + 1][1] \in Int /\ rs[k + 1][2] \in Int /\ rs[k + 1][1] <= rs[k + 1][2]
    BY <1>2, <2>1
  <2>4. rs[k][2] >= lo + k - 1
    OBVIOUS
  <2>5. rs[k + 1][1] >= lo /\ rs[k + 1][2] >= lo + (k + 1) - 1
    BY <1>1, <2>2, <2>3, <2>4
  <2>6. ASSUME NEW j \in lo..rs[k + 1][2]
        PROVE  \E i \in 1..k + 1 : j \in rs[i][1]..rs[i][2]
    <3>1. CASE j <= rs[k][2]
      <4>1. j \in lo..rs[k][2]
        BY <1>1, <2>3, <3>1
      <4>2. PICK i \in 1..k : j \in rs[i][1]..rs[i][2]
        BY <4>1
      <4> QED
        BY <4>2
    <3>2. CASE ~(j <= rs[k][2])
      <4>1. j \in rs[k + 1][1]..rs[k + 1][2] /\ k + 1 \in 1..k + 1
        BY <1>1, <2>2, <2>3, <3>2
      <4> QED
        BY <4>1
    <3> QED
      BY <3>1, <3>2
  <2> QED
    BY <2>1, <2>5, <2>6
<1> HIDE DEF P
<1>6. \A k \in 1..n : k \in P
  BY <1>1, <1>4, <1>5, IntervalInduction
<1> DEFINE Q == {k \in 1..n : rs[n + 1 - k][2] <= hi}
<1>7. 1 \in Q
  BY <1>1, <1>3
<1>8. \A k \in 1..n : k \in Q /\ k < n => k + 1 \in Q
  <2> SUFFICES ASSUME NEW k \in 1..n, k \in Q, k < n PROVE k + 1 \in Q
    OBVIOUS
  <2> DEFINE j == n - k
  <2>1. j \in 1..n - 1 /\ j \in 1..n /\ j + 1 \in 1..n /\ k + 1 \in 1..n
        /\ n + 1 - k = j + 1 /\ n + 1 - (k + 1) = j
    BY <1>1
  <2> HIDE DEF j
  <2>2. rs[j + 1][1] = rs[j][2] + 1 /\ rs[j + 1][1] <= rs[j + 1][2]
    BY <1>2, <1>3, <2>1
  <2>3. rs[j + 1][2] <= hi
    BY <2>1
  <2>4. rs[j][2] <= hi
    BY <1>1, <1>2, <2>1, <2>2, <2>3
  <2> QED
    BY <2>1, <2>4
<1> HIDE DEF Q
<1>9. \A k \in 1..n : k \in Q
  BY <1>1, <1>7, <1>8, IntervalInduction
<1>10. ASSUME NEW k \in 1..n PROVE rs[k][1] \in lo..hi /\ rs[k][2] \in lo..hi
  <2>1. n + 1 - k \in 1..n /\ n + 1 - (n + 1 - k) = k
    BY <1>1
  <2>2. n + 1 - k \in Q
    BY <1>9, <2>1
  <2>3. rs[k][2] <= hi
    BY <2>1, <2>2 DEF Q
  <2>4. rs[k][1] >= lo
    BY <1>6 DEF P
  <2> QED
    BY <1>1, <1>2, <2>3, <2>4
<1>11. ASSUME NEW j \in lo..hi PROVE \E k \in 1..n : j \in rs[k][1]..rs[k][2]
  <2>1. n \in P
    BY <1>1, <1>6
  <2>2. j \in lo..rs[n][2]
    BY <1>3
  <2> QED
    BY <2>1, <2>2 DEF P
<1>12. ASSUME NEW k \in 1..n PROVE rs[k][2] >= lo + k - 1
  BY <1>6 DEF P
<1> QED
  BY <1>10, <1>11, <1>12 DEF n

\* The function that Ranges is defined by.
IsCut(g, lo, hi, C) ==
    g = [n \in lo - 1..hi |-> IF n = lo - 1 THEN <<>>
                              ELSE IF n \in C \cup {hi} THEN CutAt(g[n - 1], lo, n)
                              ELSE g[n - 1]]

\* No range yet, or ranges from lo to some place before n.
PartTiles(rs, lo, n) == rs = <<>> \/ \E e \in lo..n : Tiles(rs, lo, e)

LEMMA CutAtTiles ==
    ASSUME NEW lo \in Int, NEW n \in Int, lo <= n, NEW rs, PartTiles(rs, lo, n - 1)
    PROVE  Tiles(CutAt(rs, lo, n), lo, n)
<1>1. CASE rs = <<>>
  <2>1. CutAt(rs, lo, n) = << <<lo, n>> >>
    BY <1>1 DEF CutAt
  <2> QED
    BY <2>1, TilesOne
<1>2. CASE rs # <<>>
  <2>1. PICK e \in lo..n - 1 : Tiles(rs, lo, e)
    BY <1>2 DEF PartTiles
  <2>2. rs \in Seq(Int \X Int) /\ Last(rs)[2] = e
    BY <2>1, TilesSeq DEF Tiles, Last
  <2>3. CutAt(rs, lo, n) = Append(rs, <<e + 1, n>>)
    BY <1>2, <2>2 DEF CutAt
  <2>4. Append(rs, <<e + 1, n>>) = rs \o << <<e + 1, n>> >>
    BY <2>2
  <2>5. Tiles(<< <<e + 1, n>> >>, e + 1, n)
    BY TilesOne
  <2> QED
    BY <2>1, <2>3, <2>4, <2>5, TilesConcat
<1> QED
  BY <1>1, <1>2

LEMMA CutExists ==
    ASSUME NEW lo \in Int, NEW hi \in Int, lo <= hi, NEW C
    PROVE  \E g : IsCut(g, lo, hi, C)
<1> DEFINE a == lo - 1
           step(n, x) == IF n \in C \cup {hi} THEN CutAt(x, lo, n) ELSE x
           Upto(g, m) == \A n \in a..m : g[n] = IF n = a THEN <<>> ELSE step(n, g[n - 1])
           P == {m \in a..hi : \E g : g = [n \in a..m |-> g[n]] /\ Upto(g, m)}
<1>1. a \in Int /\ a + 1 = lo /\ a <= hi
  OBVIOUS
<1> HIDE DEF a, step
<1>2. a \in P
  <2> DEFINE g == [n \in a..a |-> <<>>]
  <2>1. Upto(g, a) /\ g = [n \in a..a |-> g[n]]
    BY <1>1
  <2> HIDE DEF g
  <2> QED
    BY <1>1, <2>1
<1>3. \A m \in a..hi : m \in P /\ m < hi => m + 1 \in P
  <2> SUFFICES ASSUME NEW m \in a..hi, m \in P, m < hi PROVE m + 1 \in P
    OBVIOUS
  <2>1. PICK g : Upto(g, m)
    OBVIOUS
  <2> DEFINE h == [n \in a..m + 1 |-> IF n = m + 1 THEN step(m + 1, g[m]) ELSE g[n]]
  <2>2. m \in a..m /\ m + 1 \in a..m + 1 /\ m + 1 # a /\ m + 1 \in a..hi
    BY <1>1
  <2>3. h[m + 1] = step(m + 1, g[m]) /\ \A n \in a..m : h[n] = g[n]
    BY <1>1, <2>2
  <2>4. h = [n \in a..m + 1 |-> h[n]]
    OBVIOUS
  <2> HIDE DEF h
  <2>5. ASSUME NEW n \in a..m + 1 PROVE h[n] = IF n = a THEN <<>> ELSE step(n, h[n - 1])
    <3>1. CASE n = m + 1
      <4>1. n - 1 = m
        BY <1>1, <3>1
      <4> QED
        BY <2>2, <2>3, <3>1, <4>1
    <3>2. CASE n # m + 1
      <4>1. n \in a..m /\ (n # a => n - 1 \in a..m)
        BY <1>1, <3>2
      <4> QED
        BY <2>1, <2>3, <4>1
    <3> QED
      BY <3>1, <3>2
  <2> QED
    BY <2>2, <2>4, <2>5
<1> HIDE DEF P
<1>4. hi \in P
  <2>1. \A n \in a..hi : n \in P
    BY <1>1, <1>2, <1>3, IntervalInduction
  <2> QED
    BY <1>1, <2>1
<1>5. PICK g : g = [n \in a..hi |-> g[n]] /\ Upto(g, hi)
  BY <1>4 DEF P
<1>6. g = [n \in a..hi |-> IF n = a THEN <<>> ELSE step(n, g[n - 1])]
  BY <1>5
<1>7. IsCut(g, lo, hi, C)
  BY <1>6 DEF IsCut, a, step
<1> QED
  BY <1>7

\* Cutting at any places gives ranges that leave nothing out.
LEMMA RangesTile ==
    ASSUME NEW lo \in Int, NEW hi \in Int, lo <= hi, NEW C
    PROVE  Tiles(Ranges(lo, hi, C), lo, hi)
<1> DEFINE cut[n \in lo - 1..hi] ==
               IF n = lo - 1 THEN <<>>
               ELSE IF n \in C \cup {hi} THEN CutAt(cut[n - 1], lo, n)
               ELSE cut[n - 1]
           a == lo - 1
<1>0. \E g : IsCut(g, lo, hi, C)
  BY CutExists
<1>1. IsCut(cut, lo, hi, C)
  BY <1>0 DEF IsCut
<1>2. Ranges(lo, hi, C) = cut[hi]
  BY DEF Ranges
<1> HIDE DEF cut
<1>3. \A n \in a..hi : cut[n] = IF n = a THEN <<>>
                                ELSE IF n \in C \cup {hi} THEN CutAt(cut[n - 1], lo, n)
                                ELSE cut[n - 1]
  BY <1>1 DEF IsCut
<1>4. a \in Int /\ a + 1 = lo /\ a <= hi
  OBVIOUS
<1> HIDE DEF a
<1> DEFINE P == {n \in a..hi : PartTiles(cut[n], lo, n)}
<1>5. a \in P
  BY <1>3, <1>4 DEF PartTiles
<1>6. \A n \in a..hi : n \in P /\ n < hi => n + 1 \in P
  <2> SUFFICES ASSUME NEW n \in a..hi, n \in P, n < hi PROVE n + 1 \in P
    OBVIOUS
  <2>1. n + 1 \in a..hi /\ n + 1 # a /\ (n + 1) - 1 = n /\ lo <= n + 1
        /\ n + 1 \in Int /\ n \in Int /\ n + 1 \in lo..n + 1
    BY <1>4
  <2>2. PartTiles(cut[n], lo, n)
    OBVIOUS
  <2>3. CASE n + 1 \in C \cup {hi}
    <3>1. cut[n + 1] = CutAt(cut[n], lo, n + 1)
      BY <1>3, <2>1, <2>3
    <3>2. Tiles(cut[n + 1], lo, n + 1)
      BY <2>1, <2>2, <3>1, CutAtTiles
    <3> QED
      BY <2>1, <3>2 DEF PartTiles
  <2>4. CASE n + 1 \notin C \cup {hi}
    <3>1. cut[n + 1] = cut[n]
      BY <1>3, <2>1, <2>4
    <3>2. PartTiles(cut[n], lo, n + 1)
      <4>1. \A e \in lo..n : e \in lo..n + 1
        BY <2>1
      <4> QED
        BY <2>2, <4>1 DEF PartTiles
    <3> QED
      BY <2>1, <3>1, <3>2
  <2> QED
    BY <2>3, <2>4
<1> HIDE DEF P
<1>7. \A n \in a..hi : n \in P
  BY <1>4, <1>5, <1>6, IntervalInduction
<1>8. cut[hi] = CutAt(cut[hi - 1], lo, hi)
  BY <1>3, <1>4
<1>9. PartTiles(cut[hi - 1], lo, hi - 1)
  <2>1. hi - 1 \in a..hi
    BY <1>4
  <2> QED
    BY <1>7, <2>1 DEF P
<1> QED
  BY <1>2, <1>8, <1>9, CutAtTiles

LEMMA RefinedTiles ==
    ASSUME NEW t, NEW r \in Int \X Int, r[1] <= r[2], NEW C
    PROVE  Tiles(Refined(t, r, C), r[1], r[2])
<1>1. r = <<r[1], r[2]>> /\ r[1] \in Int /\ r[2] \in Int
  OBVIOUS
<1>2. Tiles(<<r>>, r[1], r[2])
  BY <1>1, TilesOne
<1>3. Tiles(Ranges(r[1], r[2], C), r[1], r[2])
  BY <1>1, RangesTile
<1> QED
  BY <1>2, <1>3 DEF Refined

\* The function that Refine is defined by.
IsRefine(g, t, ranges, C) ==
    g = [n \in 0..Len(ranges) |->
            IF n = 0 THEN <<>> ELSE g[n - 1] \o Refined(t, ranges[n], C)]

LEMMA RefineExists ==
    ASSUME NEW t, NEW ranges, Len(ranges) \in Nat, NEW C
    PROVE  \E g : IsRefine(g, t, ranges, C)
<1> DEFINE b == Len(ranges)
           step(n, x) == x \o Refined(t, ranges[n], C)
           Upto(g, m) == \A n \in 0..m : g[n] = IF n = 0 THEN <<>> ELSE step(n, g[n - 1])
           P == {m \in 0..b : \E g : g = [n \in 0..m |-> g[n]] /\ Upto(g, m)}
<1>1. 0 \in Int /\ b \in Int /\ 0 <= b
  OBVIOUS
<1> HIDE DEF b, step
<1>2. 0 \in P
  <2> DEFINE g == [n \in 0..0 |-> <<>>]
  <2>1. Upto(g, 0) /\ g = [n \in 0..0 |-> g[n]]
    OBVIOUS
  <2> HIDE DEF g
  <2> QED
    BY <1>1, <2>1
<1>3. \A m \in 0..b : m \in P /\ m < b => m + 1 \in P
  <2> SUFFICES ASSUME NEW m \in 0..b, m \in P, m < b PROVE m + 1 \in P
    OBVIOUS
  <2>1. PICK g : Upto(g, m)
    OBVIOUS
  <2> DEFINE h == [n \in 0..m + 1 |-> IF n = m + 1 THEN step(m + 1, g[m]) ELSE g[n]]
  <2>2. m \in 0..m /\ m + 1 \in 0..m + 1 /\ m + 1 # 0 /\ m + 1 \in 0..b
    BY <1>1
  <2>3. h[m + 1] = step(m + 1, g[m]) /\ \A n \in 0..m : h[n] = g[n]
    BY <1>1, <2>2
  <2>4. h = [n \in 0..m + 1 |-> h[n]]
    OBVIOUS
  <2> HIDE DEF h
  <2>5. ASSUME NEW n \in 0..m + 1 PROVE h[n] = IF n = 0 THEN <<>> ELSE step(n, h[n - 1])
    <3>1. CASE n = m + 1
      <4>1. n - 1 = m
        BY <1>1, <3>1
      <4> QED
        BY <2>2, <2>3, <3>1, <4>1
    <3>2. CASE n # m + 1
      <4>1. n \in 0..m /\ (n # 0 => n - 1 \in 0..m)
        BY <1>1, <3>2
      <4> QED
        BY <2>1, <2>3, <4>1
    <3> QED
      BY <3>1, <3>2
  <2> QED
    BY <2>2, <2>4, <2>5
<1> HIDE DEF P
<1>4. b \in P
  <2>1. \A n \in 0..b : n \in P
    BY <1>1, <1>2, <1>3, IntervalInduction
  <2> QED
    BY <1>1, <2>1
<1>5. PICK g : g = [n \in 0..b |-> g[n]] /\ Upto(g, b)
  BY <1>4 DEF P
<1>6. g = [n \in 0..b |-> IF n = 0 THEN <<>> ELSE step(n, g[n - 1])]
  BY <1>5
<1>7. IsRefine(g, t, ranges, C)
  BY <1>6 DEF IsRefine, b, step
<1> QED
  BY <1>7

\* Cutting further leaves nothing out either.
LEMMA RefineTiles ==
    ASSUME NEW t, NEW ranges, NEW lo, NEW hi, Tiles(ranges, lo, hi), NEW C
    PROVE  Tiles(Refine(t, ranges, C), lo, hi)
<1> DEFINE all[n \in 0..Len(ranges)] ==
               IF n = 0 THEN <<>> ELSE all[n - 1] \o Refined(t, ranges[n], C)
           b == Len(ranges)
<1>0. \E g : IsRefine(g, t, ranges, C)
  BY RefineExists DEF Tiles
<1>1. IsRefine(all, t, ranges, C)
  BY <1>0 DEF IsRefine
<1>2. Refine(t, ranges, C) = all[b]
  BY DEF Refine
<1> HIDE DEF all
<1>3. \A n \in 0..b : all[n] = IF n = 0 THEN <<>> ELSE all[n - 1] \o Refined(t, ranges[n], C)
  BY <1>1 DEF IsRefine
<1>4. b \in Nat \ {0} /\ b \in Int /\ 1 \in Int /\ b = Len(ranges)
  BY DEF Tiles
<1>5. /\ ranges[1][1] = lo /\ ranges[b][2] = hi
      /\ \A k \in 1..b : ranges[k] \in Int \X Int /\ ranges[k][1] <= ranges[k][2]
      /\ \A k \in 1..b - 1 : ranges[k + 1][1] = ranges[k][2] + 1
  BY DEF Tiles
<1> HIDE DEF b
<1>6. \A n \in 1..b : Tiles(Refined(t, ranges[n], C), ranges[n][1], ranges[n][2])
  BY <1>5, RefinedTiles
<1> DEFINE P == {n \in 1..b : Tiles(all[n], lo, ranges[n][2])}
<1>7. 1 \in P
  <2>1. 1 \in 1..b /\ 1 \in 0..b /\ 0 \in 0..b /\ 1 # 0 /\ 1 - 1 = 0
    BY <1>4
  <2>2. all[1] = <<>> \o Refined(t, ranges[1], C)
    BY <1>3, <2>1
  <2>3. Tiles(Refined(t, ranges[1], C), lo, ranges[1][2])
    BY <1>5, <1>6, <2>1
  <2>4. all[1] = Refined(t, ranges[1], C)
    <3>1. Refined(t, ranges[1], C) \in Seq(Int \X Int)
      BY <2>3, TilesSeq
    <3> QED
      BY <2>2, <3>1
  <2> QED
    BY <2>1, <2>3, <2>4
<1>8. \A n \in 1..b : n \in P /\ n < b => n + 1 \in P
  <2> SUFFICES ASSUME NEW n \in 1..b, n \in P, n < b PROVE n + 1 \in P
    OBVIOUS
  <2>1. n + 1 \in 1..b /\ n + 1 \in 0..b /\ n + 1 # 0 /\ (n + 1) - 1 = n /\ n \in 1..b - 1
    BY <1>4
  <2>2. all[n + 1] = all[n] \o Refined(t, ranges[n + 1], C)
    BY <1>3, <2>1
  <2>3. Tiles(Refined(t, ranges[n + 1], C), ranges[n][2] + 1, ranges[n + 1][2])
    BY <1>5, <1>6, <2>1
  <2>4. Tiles(all[n], lo, ranges[n][2])
    OBVIOUS
  <2>5. Tiles(all[n + 1], lo, ranges[n + 1][2])
    BY <2>2, <2>3, <2>4, TilesConcat
  <2> QED
    BY <2>1, <2>5
<1> HIDE DEF P
<1>9. \A n \in 1..b : n \in P
  BY <1>4, <1>7, <1>8, IntervalInduction
<1>10. Tiles(all[b], lo, ranges[b][2])
  BY <1>4, <1>9 DEF P
<1> QED
  BY <1>2, <1>5, <1>10

-----------------------------------------------------------------------------
\* Segments.

Segment == [from : Nat, to : Nat, plus : 0..1]

\* Segments that follow each other; only the last may have characters added.
InOrder(segs) ==
    /\ Len(segs) \in Nat \ {0} /\ segs \in [1..Len(segs) -> Segment]
    /\ \A k \in 1..Len(segs) : segs[k].from < segs[k].to
    /\ \A k \in 1..Len(segs) - 1 : segs[k].to <= segs[k + 1].from /\ segs[k].plus = 0

\* Every piece of the text is in one of them.
Covers(t, segs) ==
    /\ InOrder(segs) /\ Len(segs) <= Len(t)
    /\ \A i \in 1..Len(t) : \E k \in 1..Len(segs) :
           segs[k].from <= From(t, i) /\ To(t, i) <= segs[k].to

\* s has range k of rs, and no more after it than its separator.
IsPart(t, rs, s, k) ==
    /\ s \in Segment
    /\ s.from = From(t, rs[k][1]) /\ To(t, rs[k][2]) <= s.to
    /\ k < Len(rs) => s.to <= From(t, rs[k + 1][1]) /\ s.plus = 0

LEMMA TilesCover ==
    ASSUME NEW t, IsText(t), NEW rs, Tiles(rs, 1, Len(t)),
           NEW segs, segs \in [1..Len(rs) -> Segment],
           \A k \in 1..Len(rs) : IsPart(t, rs, segs[k], k)
    PROVE  Covers(t, segs)
<1> DEFINE n == Len(rs)
<1>1. n \in Nat \ {0} /\ n = Len(rs)
  BY DEF Tiles
<1>2. segs \in Seq(Segment) /\ Len(segs) = n /\ segs \in [1..n -> Segment]
  BY <1>1, SeqDef
<1>3. /\ \A k \in 1..n : rs[k][1] \in 1..Len(t) /\ rs[k][2] \in 1..Len(t)
      /\ \A k \in 1..n : rs[k][2] >= 1 + k - 1
      /\ \A j \in 1..Len(t) : \E k \in 1..n : j \in rs[k][1]..rs[k][2]
  BY TilesBounds
<1>4. \A k \in 1..n : rs[k][1] <= rs[k][2]
  BY DEF Tiles
<1> HIDE DEF n
<1>5. \A k \in 1..n : /\ segs[k].from \in Nat /\ segs[k].to \in Nat
                      /\ segs[k].from = From(t, rs[k][1]) /\ To(t, rs[k][2]) <= segs[k].to
                      /\ k < n => segs[k].to <= From(t, rs[k + 1][1]) /\ segs[k].plus = 0
  BY <1>1 DEF IsPart, Segment
<1>6. \A i \in 1..Len(t) : From(t, i) \in Nat /\ To(t, i) \in Nat /\ From(t, i) < To(t, i)
  BY FromStep
<1>7. ASSUME NEW k \in 1..n PROVE segs[k].from < segs[k].to
  <2>1. /\ rs[k][1] \in 1..Len(t) /\ rs[k][2] \in 1..Len(t)
        /\ rs[k][2] \in rs[k][1]..Len(t)
    BY <1>3, <1>4
  <2>2. From(t, rs[k][1]) <= From(t, rs[k][2])
    BY <2>1, PiecesInOrder
  <2>3. /\ segs[k].from \in Nat /\ segs[k].to \in Nat
        /\ segs[k].from = From(t, rs[k][1]) /\ To(t, rs[k][2]) <= segs[k].to
    BY <1>5
  <2>4. /\ From(t, rs[k][1]) \in Nat /\ From(t, rs[k][2]) \in Nat
        /\ To(t, rs[k][2]) \in Nat /\ From(t, rs[k][2]) < To(t, rs[k][2])
    BY <1>6, <2>1
  <2> QED
    BY <2>2, <2>3, <2>4
<1>8. ASSUME NEW k \in 1..n - 1 PROVE segs[k].to <= segs[k + 1].from /\ segs[k].plus = 0
  <2>1. k \in 1..n /\ k + 1 \in 1..n /\ k < n
    BY <1>1
  <2> QED
    BY <1>5, <2>1
<1>9. n <= Len(t)
  <2>1. n \in 1..n
    BY <1>1
  <2>2. rs[n][2] \in 1..Len(t) /\ rs[n][2] >= 1 + n - 1
    BY <1>3, <2>1
  <2> QED
    BY <1>1, <2>2 DEF IsText
<1>10. ASSUME NEW i \in 1..Len(t)
       PROVE  \E k \in 1..n : segs[k].from <= From(t, i) /\ To(t, i) <= segs[k].to
  <2>1. PICK k \in 1..n : i \in rs[k][1]..rs[k][2]
    BY <1>3
  <2>2. /\ rs[k][1] \in 1..Len(t) /\ rs[k][2] \in 1..Len(t)
        /\ i \in rs[k][1]..Len(t) /\ rs[k][2] \in i..Len(t)
    BY <1>3, <2>1
  <2>3. From(t, rs[k][1]) <= From(t, i)
    BY <2>2, PiecesInOrder
  <2>4. To(t, i) <= To(t, rs[k][2])
    BY <2>2, PiecesInOrder
  <2>5. /\ segs[k].to \in Nat /\ segs[k].from = From(t, rs[k][1])
        /\ To(t, rs[k][2]) <= segs[k].to
    BY <1>5
  <2>6. To(t, i) \in Nat /\ To(t, rs[k][2]) \in Nat
    BY <1>6, <2>2
  <2>7. To(t, i) <= segs[k].to
    BY <2>4, <2>5, <2>6
  <2> QED
    BY <2>3, <2>5, <2>7
<1> QED
  BY <1>1, <1>2, <1>7, <1>8, <1>9, <1>10 DEF Covers, InOrder

\* What one range of a cut gives when it is stripped.
LEMMA StrippedPart ==
    ASSUME NEW t, IsText(t), NEW rs, Tiles(rs, 1, Len(t)), NEW k \in 1..Len(rs)
    PROVE  /\ rs[k][2] \in 1..Len(t) /\ (k < Len(rs) => rs[k][2] < Len(t))
           /\ IsPart(t, rs, Stripped(t, rs[k]), k)
           /\ k < Len(rs) => /\ From(t, rs[k + 1][1]) \in Nat
                             /\ From(t, rs[k + 1][1])
                                  = To(t, rs[k][2]) + Width[t[rs[k][2]].sep]
           /\ To(t, rs[k][2]) \in Nat
<1>1. /\ \A j \in 1..Len(rs) : rs[j][1] \in 1..Len(t) /\ rs[j][2] \in 1..Len(t)
      /\ \A j \in 1..Len(rs) - 1 : rs[j + 1][1] = rs[j][2] + 1
      /\ Len(rs) \in Nat
  BY TilesBounds DEF Tiles
<1>2. \A i \in 1..Len(t) : From(t, i) \in Nat /\ To(t, i) \in Nat
  BY FromStep
<1> DEFINE s == Stripped(t, rs[k])
<1>3. s \in Segment /\ s.from = From(t, rs[k][1]) /\ s.to = To(t, rs[k][2]) /\ s.plus = 0
  BY <1>1, <1>2 DEF Stripped, Segment
<1>4. ASSUME k < Len(rs)
      PROVE  /\ rs[k][2] < Len(t)
             /\ From(t, rs[k + 1][1]) \in Nat
             /\ From(t, rs[k + 1][1]) = To(t, rs[k][2]) + Width[t[rs[k][2]].sep]
             /\ s.to <= From(t, rs[k + 1][1])
  <2>1. k \in 1..Len(rs) - 1 /\ k + 1 \in 1..Len(rs)
    BY <1>1, <1>4
  <2> DEFINE e == rs[k][2]
  <2>2. rs[k + 1][1] = e + 1 /\ e \in 1..Len(t) /\ e + 1 \in 1..Len(t)
    BY <1>1, <2>1
  <2>3. e \in 1..Len(t) - 1 /\ Len(t) \in Nat
    BY <2>2 DEF IsText
  <2>4. From(t, e + 1) = To(t, e) + Width[t[e].sep]
    BY <2>3, FromStep
  <2>5. Width[t[e].sep] \in 1..3
    BY <2>2, Widths DEF IsText
  <2>6. To(t, e) \in Nat /\ From(t, e + 1) \in Nat
    BY <1>2, <2>2
  <2>7. To(t, e) <= From(t, e + 1)
    <3> DEFINE a == To(t, e)
               b == From(t, e + 1)
               w == Width[t[e].sep]
    <3>1. a \in Nat /\ b \in Nat /\ w \in 1..3 /\ b = a + w
      BY <2>4, <2>5, <2>6
    <3> HIDE DEF a, b, w
    <3>2. a <= b
      BY ONLY <3>1
    <3> QED
      BY <3>2 DEF a, b
  <2>8. e < Len(t)
    <3> HIDE DEF e
    <3> QED
      BY ONLY <2>3
  <2>9. s.to = To(t, e)
    BY <1>3
  <2> HIDE DEF e, s
  <2>10. /\ From(t, rs[k + 1][1]) \in Nat
         /\ From(t, rs[k + 1][1]) = To(t, e) + Width[t[e].sep]
         /\ s.to <= From(t, rs[k + 1][1])
    BY <2>2, <2>4, <2>6, <2>7, <2>9, Zenon
  <2> QED
    BY <2>8, <2>10, Zenon DEF e
<1>5. IsPart(t, rs, s, k)
  <2>1. To(t, rs[k][2]) <= s.to
    BY <1>1, <1>2, <1>3
  <2> QED
    BY <1>3, <1>4, <2>1 DEF IsPart
<1> QED
  BY <1>1, <1>2, <1>4, <1>5

LEMMA StrippedCovers ==
    ASSUME NEW t, IsText(t), NEW rs, Tiles(rs, 1, Len(t))
    PROVE  Covers(t, StrippedAll(t, rs))
<1> DEFINE segs == StrippedAll(t, rs)
<1>1. DOMAIN rs = 1..Len(rs)
  BY TilesSeq
<1>2. segs = [k \in 1..Len(rs) |-> Stripped(t, rs[k])]
  BY <1>1 DEF StrippedAll
<1>3. \A k \in 1..Len(rs) : IsPart(t, rs, segs[k], k)
  BY <1>2, StrippedPart
<1>4. segs \in [1..Len(rs) -> Segment]
  BY <1>2, <1>3 DEF IsPart
<1> HIDE DEF segs
<1>5. Covers(t, segs)
  BY <1>3, <1>4, TilesCover
<1> QED
  BY <1>5 DEF segs

LEMMA ParagraphsTile ==
    ASSUME NEW t, IsText(t), 1 <= Len(t)
    PROVE  Tiles(Paragraphs(t, Whole(t)), 1, Len(t))
<1>1. Whole(t)[1] = 1 /\ Whole(t)[2] = Len(t) /\ 1 \in Int /\ Len(t) \in Int
  BY DEF Whole, IsText
<1> QED
  BY <1>1, RangesTile DEF Paragraphs

LEMMA SplitTextCovers ==
    ASSUME NEW t, IsText(t), 1 <= Len(t)
    PROVE  Covers(t, SplitText(t))
  BY ParagraphsTile, RefineTiles, StrippedCovers DEF SplitText

LEMMA SplitMarkdownCovers ==
    ASSUME NEW t, IsText(t), 1 <= Len(t)
    PROVE  Covers(t, SplitMarkdown(t))
<1> DEFINE marks == {i \in DOMAIN t : t[i].role = "mark"}
           sections == Ranges(1, Len(t), marks \cup Before(t, "mark"))
<1>1. Tiles(sections, 1, Len(t))
  BY RangesTile DEF IsText
<1>2. SplitMarkdown(t) = StrippedAll(t, Refine(t, sections, After(t, {"blank"})))
  BY DEF SplitMarkdown
<1> HIDE DEF sections, marks
<1> QED
  BY <1>1, <1>2, RefineTiles, StrippedCovers

LEMMA AtHeadsCovers ==
    ASSUME NEW t, IsText(t), 1 <= Len(t), NEW keeps,
           \A s \in DOMAIN Width : keeps[s] \in Nat /\ keeps[s] <= Width[s]
    PROVE  Covers(t, AtHeads(t, keeps))
<1> DEFINE rs == Ranges(1, Len(t), Before(t, "head"))
           segs == AtHeads(t, keeps)
<1>1. Tiles(rs, 1, Len(t))
  BY RangesTile DEF IsText
<1>2. DOMAIN rs = 1..Len(rs)
  BY <1>1, TilesSeq
<1>3. segs = [k \in 1..Len(rs) |-> Unstripped(t, rs[k], keeps)]
  BY <1>2 DEF AtHeads
<1> HIDE DEF rs, segs
<1>4. ASSUME NEW k \in 1..Len(rs) PROVE IsPart(t, rs, segs[k], k)
  <2> DEFINE e == rs[k][2]
             s == Stripped(t, rs[k])
             more == IF e < Len(t) THEN keeps[t[e].sep] ELSE 0
  <2>1. /\ e \in 1..Len(t) /\ (k < Len(rs) => e < Len(t))
        /\ IsPart(t, rs, s, k)
        /\ k < Len(rs) => /\ From(t, rs[k + 1][1]) \in Nat
                          /\ From(t, rs[k + 1][1]) = To(t, e) + Width[t[e].sep]
        /\ To(t, e) \in Nat
    BY <1>1, StrippedPart
  <2>2. t[e].sep \in DOMAIN Width
    BY <2>1 DEF IsText
  <2>3. keeps[t[e].sep] \in Nat /\ keeps[t[e].sep] <= Width[t[e].sep]
        /\ Width[t[e].sep] \in Nat
    BY <2>2, Widths
  <2>4. s = [from |-> s.from, to |-> s.to, plus |-> s.plus]
        /\ s.from \in Nat /\ s.to \in Nat /\ s.plus \in 0..1
    BY <2>1 DEF IsPart, Segment
  <2>5. s.to = To(t, e)
    BY DEF Stripped
  <2>6. segs[k] = [s EXCEPT !.to = @ + more]
    BY <1>3 DEF Unstripped
  <2> HIDE DEF s
  <2>7. more \in Nat /\ (k < Len(rs) => more <= Width[t[e].sep])
    BY <2>1, <2>3
  <2> HIDE DEF more
  <2>8. segs[k] = [from |-> s.from, to |-> s.to + more, plus |-> s.plus]
    BY <2>4, <2>6
  <2> HIDE DEF e
  <2>9. segs[k] \in Segment /\ segs[k].from = s.from /\ segs[k].to = s.to + more
        /\ segs[k].plus = s.plus
    BY <2>4, <2>7, <2>8 DEF Segment
  <2>10. To(t, e) <= segs[k].to
    BY <2>1, <2>5, <2>7, <2>9
  <2>11. k < Len(rs) => segs[k].to <= From(t, rs[k + 1][1])
    BY <2>1, <2>3, <2>5, <2>7, <2>9
  <2> QED
    BY <2>1, <2>9, <2>10, <2>11 DEF IsPart, e
<1>5. segs \in [1..Len(rs) -> Segment]
  BY <1>3, <1>4 DEF IsPart
<1>6. Covers(t, segs)
  BY <1>1, <1>4, <1>5, TilesCover
<1> QED
  BY <1>6 DEF segs

LEMMA KeptWidths ==
    /\ \A s \in DOMAIN Width : Width[s] \in Nat /\ Width[s] <= Width[s]
    /\ \A s \in DOMAIN Width :
           [r \in DOMAIN Width |-> 1][s] \in Nat /\ [r \in DOMAIN Width |-> 1][s] <= Width[s]
  BY Widths

LEMMA SplitCodeCovers ==
    ASSUME NEW t, IsText(t), 1 <= Len(t), NEW d
    PROVE  Covers(t, SplitCode(t, d))
<1> DEFINE ones == [s \in DOMAIN Width |-> 1]
           parts == AtHeads(t, IF d = "python" THEN Width ELSE ones)
<1>1. Covers(t, parts)
  <2>1. Covers(t, AtHeads(t, Width))
    BY KeptWidths, AtHeadsCovers
  <2>2. Covers(t, AtHeads(t, ones))
    BY KeptWidths, AtHeadsCovers
  <2> QED
    BY <2>1, <2>2
<1>2. Covers(t, StrippedAll(t, Paragraphs(t, Whole(t))))
  BY ParagraphsTile, StrippedCovers
<1>3. SplitCode(t, d) = IF Len(parts) <= 1 THEN StrippedAll(t, Paragraphs(t, Whole(t)))
                        ELSE parts
  BY DEF SplitCode
<1> HIDE DEF parts
<1> QED
  BY <1>1, <1>2, <1>3

LEMMA SplitGitDiffCovers ==
    ASSUME NEW t, IsText(t), 1 <= Len(t)
    PROVE  Covers(t, SplitGitDiff(t))
  BY KeptWidths, AtHeadsCovers DEF SplitGitDiff

\* Each piece on its own.
LEMMA TilesSingles ==
    ASSUME NEW n \in Nat \ {0}
    PROVE  Tiles([i \in 1..n |-> <<i, i>>], 1, n)
<1> DEFINE rs == [i \in 1..n |-> <<i, i>>]
<1>1. rs \in Seq(Int \X Int) /\ Len(rs) = n /\ rs \in [1..n -> Int \X Int]
  OBVIOUS
<1>2. \A i \in 1..n : rs[i] = <<i, i>>
  OBVIOUS
<1> HIDE DEF rs
<1>3. Tiles(rs, 1, n)
  BY <1>1, <1>2 DEF Tiles
<1> QED
  BY <1>3 DEF rs

\* A statement's ";" is the first of the two or three characters after it.
LEMMA SplitSqlCovers ==
    ASSUME NEW t, IsText(t), 1 <= Len(t),
           \A i \in 1..Len(t) : t[i].sep \in {"end", "endblank"}
    PROVE  Covers(t, SplitSql(t))
<1> DEFINE rs == [i \in 1..Len(t) |-> <<i, i>>]
           segs == SplitSql(t)
           n == Len(t)
<1>1. n \in Nat \ {0} /\ DOMAIN t = 1..n /\ n = Len(t)
  BY DEF IsText
<1>2. Tiles(rs, 1, n) /\ Len(rs) = n /\ \A i \in 1..n : rs[i] = <<i, i>>
  <2>1. n \in Nat \ {0} /\ rs = [i \in 1..n |-> <<i, i>>]
    BY <1>1
  <2> HIDE DEF n
  <2>2. Tiles(rs, 1, n)
    BY <2>1, TilesSingles
  <2>3. Len(rs) = n /\ \A i \in 1..n : rs[i] = <<i, i>>
    BY <2>1
  <2> QED
    BY <2>2, <2>3
<1>3. segs = [i \in 1..n |->
                 IF n = 1 THEN Stripped(t, <<1, 1>>)
                 ELSE IF i < n THEN [Stripped(t, <<i, i>>) EXCEPT !.to = @ + 1]
                 ELSE [Stripped(t, <<i, i>>) EXCEPT
                          !.plus = IF t[i].role = "closed" THEN 0 ELSE 1]]
  BY <1>1 DEF SplitSql
<1> HIDE DEF segs, rs, n
<1>4. ASSUME NEW i \in 1..n PROVE IsPart(t, rs, segs[i], i)
  <2> DEFINE s == Stripped(t, <<i, i>>)
             added == IF t[i].role = "closed" THEN 0 ELSE 1
  <2>0. i \in 1..Len(rs) /\ rs[i] = <<i, i>> /\ rs[i][2] = i
    BY <1>2
  <2>1. /\ IsPart(t, rs, s, i)
        /\ i < n => /\ From(t, rs[i + 1][1]) \in Nat
                    /\ From(t, rs[i + 1][1]) = To(t, i) + Width[t[i].sep]
        /\ To(t, i) \in Nat
    <3>1. Tiles(rs, 1, Len(t))
      BY <1>1, <1>2
    <3>2. /\ IsPart(t, rs, Stripped(t, rs[i]), i)
          /\ i < Len(rs) => /\ From(t, rs[i + 1][1]) \in Nat
                            /\ From(t, rs[i + 1][1])
                                 = To(t, rs[i][2]) + Width[t[rs[i][2]].sep]
          /\ To(t, rs[i][2]) \in Nat
      BY <2>0, <3>1, StrippedPart
    <3> QED
      BY <1>2, <2>0, <3>2
  <2>2. Width[t[i].sep] \in 2..3
    BY <1>1 DEF Width
  <2>3. s = [from |-> s.from, to |-> s.to, plus |-> s.plus]
        /\ s.from \in Nat /\ s.to \in Nat /\ s.plus \in 0..1 /\ s.to = To(t, i) /\ s.plus = 0
    BY <2>1 DEF IsPart, Segment, Stripped
  <2>4. s.from = From(t, rs[i][1])
    BY <2>1 DEF IsPart
  <2>5. CASE n = 1
    <3>1. segs[i] = s
      BY <1>1, <1>3, <2>5
    <3> QED
      BY <2>1, <3>1
  <2>6. CASE n # 1 /\ i < n
    <3>1. segs[i] = [s EXCEPT !.to = @ + 1]
      BY <1>3, <2>6
    <3> HIDE DEF s
    <3>2. segs[i] = [from |-> s.from, to |-> s.to + 1, plus |-> s.plus]
      BY <2>3, <3>1
    <3>3. segs[i] \in Segment /\ segs[i].from = s.from /\ segs[i].to = To(t, i) + 1
          /\ segs[i].plus = 0
      BY <2>1, <2>3, <3>2 DEF Segment
    <3>4. segs[i].to <= From(t, rs[i + 1][1]) /\ To(t, i) <= segs[i].to
      BY <2>1, <2>2, <2>6, <3>3
    <3> QED
      BY <2>0, <2>4, <3>3, <3>4 DEF IsPart
  <2>7. CASE n # 1 /\ ~(i < n)
    <3>1. segs[i] = [s EXCEPT !.plus = added]
      BY <1>3, <2>7
    <3>2. added \in 0..1
      OBVIOUS
    <3> HIDE DEF s, added
    <3>3. segs[i] = [from |-> s.from, to |-> s.to, plus |-> added]
      BY <2>3, <3>1
    <3>4. segs[i] \in Segment /\ segs[i].from = s.from /\ segs[i].to = To(t, i)
      BY <2>3, <3>2, <3>3 DEF Segment
    <3>5. To(t, i) <= segs[i].to
      BY <2>1, <3>4
    <3> QED
      BY <1>2, <2>0, <2>4, <2>7, <3>4, <3>5 DEF IsPart
  <2> QED
    BY <2>5, <2>6, <2>7
<1>5. segs \in [1..Len(rs) -> Segment]
  BY <1>2, <1>3, <1>4 DEF IsPart
<1>6. Covers(t, segs)
  BY <1>1, <1>2, <1>4, <1>5, TilesCover
<1> QED
  BY <1>6 DEF segs

\* In a text of strategy d.
IsTextOf(t, d) ==
    /\ IsText(t) /\ 1 <= Len(t) /\ Len(t) <= MaxPieces
    /\ \A i \in 1..Len(t) : t[i].sep \in Separators[d]

\* However a text is split, no piece of it is left out.
LEMMA SegmentsCover ==
    ASSUME NEW d \in DocTypes, NEW t, IsTextOf(t, d)
    PROVE  Covers(t, Segments(t, d))
<1>1. d \in {"text", "markdown", "python", "java", "git_diff", "sql"}
  BY TypeAssumption DEF Separators
<1>2. IsText(t) /\ 1 <= Len(t)
  BY DEF IsTextOf
<1>3. CASE d = "markdown"
  BY <1>2, <1>3, SplitMarkdownCovers DEF Segments
<1>4. CASE d = "sql"
  <2>1. \A i \in 1..Len(t) : t[i].sep \in {"end", "endblank"}
    BY <1>4 DEF IsTextOf, Separators
  <2> QED
    BY <1>2, <1>4, <2>1, SplitSqlCovers DEF Segments
<1>5. CASE d = "git_diff"
  BY <1>2, <1>5, SplitGitDiffCovers DEF Segments
<1>6. CASE d \in {"python", "java"}
  BY <1>2, <1>6, SplitCodeCovers DEF Segments
<1>7. CASE d = "text"
  BY <1>2, <1>7, SplitTextCovers DEF Segments
<1> QED
  BY <1>1, <1>3, <1>4, <1>5, <1>6, <1>7

-----------------------------------------------------------------------------
\* Merged segments.

\* The function that Joined is defined by.
IsSizes(g, m) == g = [n \in 0..Len(m) |-> IF n = 0 THEN 0 ELSE g[n - 1] + Size(m[n])]

LEMMA SizeType ==
    ASSUME NEW s \in Segment
    PROVE  Size(s) \in Int /\ (s.from < s.to => Size(s) >= 1)
  BY DEF Segment, Size

LEMMA SizesExist ==
    ASSUME NEW m \in Seq(Segment)
    PROVE  \E g : IsSizes(g, m) /\ g \in [0..Len(m) -> Int]
<1> DEFINE b == Len(m)
           F == [x \in (0 + 1..b) \X Int |-> x[2] + Size(m[x[1]])]
<1>1. b \in Nat /\ 0 \in Int /\ b \in Int /\ 0 <= b /\ b = Len(m)
  OBVIOUS
<1>2. \A n \in 0 + 1..b : Size(m[n]) \in Int
  <2> SUFFICES ASSUME NEW n \in 0 + 1..b PROVE Size(m[n]) \in Int
    OBVIOUS
  <2>1. m[n] \in Segment
    BY ElementOfSeq
  <2> QED
    BY <2>1, SizeType
<1>3. \A n \in 0 + 1..b, x \in Int : F[<<n, x>>] = x + Size(m[n])
  OBVIOUS
<1>4. IsStep(F, 0, b, Int)
  BY <1>2 DEF IsStep
<1> HIDE DEF F, b
<1>5. PICK g : Follows(g, F, 0, b, 0, Int)
  BY <1>1, <1>4, Recursion
<1>6. \A n \in 0..b : g[n] = IF n = 0 THEN 0 ELSE g[n - 1] + Size(m[n])
  <2> SUFFICES ASSUME NEW n \in 0..b, n # 0 PROVE g[n] = g[n - 1] + Size(m[n])
    BY <1>5 DEF Follows
  <2>1. n \in 0 + 1..b /\ n - 1 \in 0..b
    BY <1>1
  <2> QED
    BY <1>3, <1>5, <2>1 DEF Follows
<1>7. g \in [0..b -> Int]
  BY <1>5 DEF Follows
<1>8. g = [n \in 0..b |-> IF n = 0 THEN 0 ELSE g[n - 1] + Size(m[n])]
  BY <1>6, <1>7
<1> QED
  BY <1>1, <1>7, <1>8 DEF IsSizes

LEMMA SizesUnique ==
    ASSUME NEW m \in Seq(Segment), NEW f, IsSizes(f, m),
           NEW n \in 0..Len(m), NEW l \in Seq(Segment), n <= Len(l),
           \A i \in 1..n : l[i] = m[i],
           NEW g, IsSizes(g, l)
    PROVE  \A i \in 0..n : f[i] = g[i]
<1> DEFINE P == {i \in 0..n : f[i] = g[i]}
<1>1. /\ \A i \in 0..n : f[i] = IF i = 0 THEN 0 ELSE f[i - 1] + Size(m[i])
      /\ \A i \in 0..n : g[i] = IF i = 0 THEN 0 ELSE g[i - 1] + Size(l[i])
  <2>1. \A i \in 0..n : i \in 0..Len(m) /\ i \in 0..Len(l)
    OBVIOUS
  <2> QED
    BY <2>1 DEF IsSizes
<1>2. 0 \in P
  BY <1>1
<1>3. \A i \in 0..n : i \in P /\ i < n => i + 1 \in P
  <2> SUFFICES ASSUME NEW i \in 0..n, i \in P, i < n PROVE i + 1 \in P
    OBVIOUS
  <2>1. i + 1 \in 0..n /\ i + 1 \in 1..n /\ i + 1 # 0 /\ (i + 1) - 1 = i
    OBVIOUS
  <2>2. f[i + 1] = f[i] + Size(m[i + 1]) /\ g[i + 1] = g[i] + Size(l[i + 1])
    BY <1>1, <2>1
  <2>3. m[i + 1] = l[i + 1] /\ f[i] = g[i]
    BY <2>1
  <2> QED
    BY <2>1, <2>2, <2>3
<1>4. 0 \in Int /\ n \in Int
  OBVIOUS
<1> HIDE DEF P
<1>5. \A i \in 0..n : i \in P
  BY <1>2, <1>3, <1>4, IntervalInduction
<1> QED
  BY <1>5 DEF P

LEMMA JoinedSizes ==
    ASSUME NEW m \in Seq(Segment)
    PROVE  \E g : /\ IsSizes(g, m) /\ g \in [0..Len(m) -> Int]
                  /\ Joined(m) = g[Len(m)] + Len(m) - 1
<1> DEFINE sum[n \in 0..Len(m)] == IF n = 0 THEN 0 ELSE sum[n - 1] + Size(m[n])
<1>0. PICK g : IsSizes(g, m) /\ g \in [0..Len(m) -> Int]
  BY SizesExist
<1>1. IsSizes(sum, m)
  BY <1>0 DEF IsSizes
<1>2. Joined(m) = sum[Len(m)] + Len(m) - 1
  BY DEF Joined
<1> HIDE DEF sum
<1>3. sum \in [0..Len(m) -> Int]
  <2>1. \A i \in 0..Len(m) : sum[i] = g[i]
    <3>1. Len(m) \in 0..Len(m) /\ Len(m) <= Len(m)
      OBVIOUS
    <3> QED
      BY <1>0, <1>1, <3>1, SizesUnique
  <2>2. DOMAIN sum = 0..Len(m) /\ sum = [i \in 0..Len(m) |-> sum[i]]
    BY <1>1 DEF IsSizes
  <2> QED
    BY <1>0, <2>1, <2>2
<1> QED
  BY <1>1, <1>2, <1>3

\* One segment on its own, and one more joined to others by a line break.
LEMMA JoinedOne ==
    ASSUME NEW s \in Segment
    PROVE  Joined(<<s>>) = Size(s)
<1>1. <<s>> \in Seq(Segment) /\ Len(<<s>>) = 1 /\ <<s>>[1] = s
  OBVIOUS
<1>2. PICK g : /\ IsSizes(g, <<s>>) /\ g \in [0..1 -> Int]
               /\ Joined(<<s>>) = g[1] + 1 - 1
  BY <1>1, JoinedSizes
<1>3. g[0] = 0 /\ g[1] = g[0] + Size(<<s>>[1])
  <2>1. 0 \in 0..1 /\ 1 \in 0..1 /\ 1 # 0 /\ 1 - 1 = 0
    OBVIOUS
  <2> QED
    BY <1>1, <1>2, <2>1 DEF IsSizes
<1> QED
  BY <1>1, <1>2, <1>3, SizeType

LEMMA JoinedAppend ==
    ASSUME NEW m \in Seq(Segment), NEW s \in Segment
    PROVE  Joined(m) \in Int /\ Joined(Append(m, s)) = Joined(m) + Size(s) + 1
<1> DEFINE l == Append(m, s)
           n == Len(m)
<1>1. l \in Seq(Segment) /\ Len(l) = n + 1 /\ l[n + 1] = s
      /\ (\A i \in 1..n : l[i] = m[i]) /\ n \in Nat
  BY AppendProperties
<1> HIDE DEF l
<1>2. PICK g : IsSizes(g, m) /\ g \in [0..n -> Int] /\ Joined(m) = g[n] + n - 1
  BY JoinedSizes
<1>3. PICK f : IsSizes(f, l) /\ f \in [0..n + 1 -> Int] /\ Joined(l) = f[n + 1] + (n + 1) - 1
  BY <1>1, JoinedSizes
<1>4. f[n] = g[n]
  <2>1. n \in 0..Len(l) /\ n <= Len(m) /\ n \in 0..n /\ \A i \in 1..n : m[i] = l[i]
    BY <1>1
  <2> QED
    BY <1>1, <1>2, <1>3, <2>1, SizesUnique
<1>5. f[n + 1] = f[n] + Size(s)
  <2>1. n + 1 \in 0..Len(l) /\ n + 1 # 0 /\ (n + 1) - 1 = n
    BY <1>1
  <2> QED
    BY <1>1, <1>3, <2>1 DEF IsSizes
<1>6. g[n] \in Int /\ Size(s) \in Int
  BY <1>1, <1>2, SizeType
<1> QED
  BY <1>1, <1>2, <1>3, <1>4, <1>5, <1>6 DEF l

\* m joins the segments of the range r, and no more than fits if they are several.
IsGroup(m, segs, r) ==
    /\ m \in Seq(Segment) /\ Len(m) = r[2] - r[1] + 1
    /\ \A k \in 1..Len(m) : m[k] = segs[r[1] + k - 1]
    /\ Len(m) > 1 => Joined(m) <= MaxSize

\* The first n segments are joined as the ranges bs tell.
Groups(merged, bs, segs, n) ==
    /\ Tiles(bs, 1, n)
    /\ merged \in Seq(Seq(Segment)) /\ Len(merged) = Len(bs)
    /\ \A j \in 1..Len(bs) : IsGroup(merged[j], segs, bs[j])

LEMMA SingleGroup ==
    ASSUME NEW segs, InOrder(segs), NEW k \in 1..Len(segs)
    PROVE  IsGroup(<<segs[k]>>, segs, <<k, k>>) /\ segs[k] \in Segment
<1>1. segs[k] \in Segment /\ k \in Int
  BY DEF InOrder
<1> DEFINE m == <<segs[k]>>
<1>2. m \in Seq(Segment) /\ Len(m) = 1 /\ m[1] = segs[k]
  BY <1>1
<1>3. <<k, k>>[1] = k /\ <<k, k>>[2] = k /\ k - k + 1 = 1 /\ k + 1 - 1 = k
  BY <1>1
<1> HIDE DEF m
<1>4. \A i \in 1..Len(m) : m[i] = segs[<<k, k>>[1] + i - 1]
  <2> SUFFICES ASSUME NEW i \in 1..Len(m) PROVE m[i] = segs[<<k, k>>[1] + i - 1]
    OBVIOUS
  <2>1. i = 1
    BY <1>2
  <2> QED
    BY <1>2, <1>3, <2>1
<1>5. IsGroup(m, segs, <<k, k>>)
  BY <1>2, <1>3, <1>4 DEF IsGroup
<1> QED
  BY <1>1, <1>5 DEF m

LEMMA GroupsOne ==
    ASSUME NEW segs, InOrder(segs)
    PROVE  Groups(Merge(<<>>, segs[1]), << <<1, 1>> >>, segs, 1)
<1>1. 1 \in 1..Len(segs)
  BY DEF InOrder
<1>2. Merge(<<>>, segs[1]) = << <<segs[1]>> >>
  BY DEF Merge
<1>3. IsGroup(<<segs[1]>>, segs, <<1, 1>>)
  BY <1>1, SingleGroup
<1> DEFINE m == <<segs[1]>>
           bs == << <<1, 1>> >>
<1>4. m \in Seq(Segment)
  BY <1>3 DEF IsGroup
<1> HIDE DEF m
<1>5. <<m>> \in Seq(Seq(Segment)) /\ Len(<<m>>) = 1 /\ <<m>>[1] = m
  BY <1>4
<1>6. Tiles(bs, 1, 1)
  BY TilesOne
<1>7. Len(bs) = 1 /\ bs[1] = <<1, 1>>
  OBVIOUS
<1> HIDE DEF bs
<1>8. IsGroup(m, segs, <<1, 1>>)
  BY <1>3 DEF m
<1>9. Groups(<<m>>, bs, segs, 1)
  BY <1>5, <1>6, <1>7, <1>8 DEF Groups
<1> QED
  BY <1>2, <1>9 DEF m, bs

\* A segment that is not joined begins a group.
LEMMA GroupsMore ==
    ASSUME NEW segs, InOrder(segs), NEW n \in 1..Len(segs) - 1,
           NEW merged, NEW bs, Groups(merged, bs, segs, n)
    PROVE  Groups(Append(merged, <<segs[n + 1]>>), Append(bs, <<n + 1, n + 1>>), segs, n + 1)
<1> DEFINE m == <<segs[n + 1]>>
           r == <<n + 1, n + 1>>
           L == Len(bs)
<1>1. n + 1 \in 1..Len(segs) /\ n + 1 \in Int
  BY DEF InOrder
<1>2. IsGroup(m, segs, r) /\ r \in Int \X Int
  BY <1>1, SingleGroup
<1>3. Tiles(<<r>>, n + 1, n + 1)
  BY <1>1, TilesOne
<1> HIDE DEF m, r
<1>4. m \in Seq(Segment)
  BY <1>2 DEF IsGroup
<1>5. merged \in Seq(Seq(Segment)) /\ Len(merged) = L /\ Tiles(bs, 1, n)
      /\ bs \in Seq(Int \X Int) /\ L \in Nat
  BY TilesSeq DEF Groups, Tiles
<1>6. Append(merged, m) \in Seq(Seq(Segment)) /\ Len(Append(merged, m)) = L + 1
      /\ (\A j \in 1..L : Append(merged, m)[j] = merged[j]) /\ Append(merged, m)[L + 1] = m
  BY <1>4, <1>5, AppendProperties
<1>7. Append(bs, r) = bs \o <<r>> /\ Len(Append(bs, r)) = L + 1
      /\ (\A j \in 1..L : Append(bs, r)[j] = bs[j]) /\ Append(bs, r)[L + 1] = r
  <2>1. bs \in Seq(Int \X Int) /\ r \in Int \X Int
    BY <1>2, <1>5
  <2>2. Append(bs, r) = bs \o <<r>>
    BY <2>1
  <2> QED
    BY <2>1, <2>2, AppendProperties
<1>8. Tiles(Append(bs, r), 1, n + 1)
  BY <1>3, <1>5, <1>7, TilesConcat
<1>9. ASSUME NEW j \in 1..L + 1 PROVE IsGroup(Append(merged, m)[j], segs, Append(bs, r)[j])
  <2>1. CASE j = L + 1
    BY <1>2, <1>6, <1>7, <2>1
  <2>2. CASE j # L + 1
    <3>1. j \in 1..L
      BY <1>5, <2>2
    <3>2. IsGroup(merged[j], segs, bs[j])
      BY <3>1 DEF Groups
    <3> QED
      BY <1>6, <1>7, <3>1, <3>2
  <2> QED
    BY <2>1, <2>2
<1>10. Groups(Append(merged, m), Append(bs, r), segs, n + 1)
  BY <1>6, <1>7, <1>8, <1>9 DEF Groups
<1> QED
  BY <1>10 DEF m, r

\* A segment that is joined makes the last group longer.
LEMMA GroupsJoin ==
    ASSUME NEW segs, InOrder(segs), NEW n \in 1..Len(segs) - 1,
           NEW merged, NEW bs, Groups(merged, bs, segs, n),
           Joins(Last(merged), segs[n + 1])
    PROVE  Groups([merged EXCEPT ![Len(merged)] = Append(@, segs[n + 1])],
                  [bs EXCEPT ![Len(bs)] = <<@[1], n + 1>>], segs, n + 1)
<1> DEFINE L == Len(bs)
           s == segs[n + 1]
           m == Append(merged[L], s)
           r == <<bs[L][1], n + 1>>
           merged2 == [merged EXCEPT ![L] = m]
           bs2 == [bs EXCEPT ![L] = r]
<1>1. n + 1 \in 1..Len(segs) /\ s \in Segment
  BY SingleGroup DEF InOrder
<1>2. /\ merged \in Seq(Seq(Segment)) /\ Len(merged) = L /\ Tiles(bs, 1, n)
      /\ bs \in Seq(Int \X Int) /\ L \in Nat \ {0} /\ L \in 1..L
      /\ bs[L][2] = n /\ bs[L][1] \in Int /\ bs[L][1] <= n
      /\ bs \in [1..L -> Int \X Int]
  <2>1. merged \in Seq(Seq(Segment)) /\ Len(merged) = L /\ Tiles(bs, 1, n)
    BY DEF Groups
  <2>2. bs \in Seq(Int \X Int) /\ L \in Nat \ {0} /\ bs[L][2] = n /\ bs \in [1..L -> Int \X Int]
    BY <2>1, TilesSeq DEF Tiles
  <2>3. L \in 1..L
    BY <2>2
  <2>4. bs[L] \in Int \X Int
    BY <2>2, <2>3
  <2>5. bs[L][1] <= bs[L][2]
    BY <2>1, <2>3 DEF Tiles
  <2> QED
    BY <2>1, <2>2, <2>3, <2>4, <2>5
<1>3. IsGroup(merged[L], segs, bs[L])
  BY <1>2 DEF Groups
<1>4. merged[L] \in Seq(Segment) /\ Len(merged[L]) = n - bs[L][1] + 1
      /\ \A k \in 1..Len(merged[L]) : merged[L][k] = segs[bs[L][1] + k - 1]
  BY <1>2, <1>3 DEF IsGroup
<1>5. Joined(m) <= MaxSize
  <2>1. Joined(merged[L]) + Size(s) + 1 <= MaxSize
    BY <1>2 DEF Joins, Last
  <2>2. Joined(m) = Joined(merged[L]) + Size(s) + 1
    BY <1>1, <1>4, JoinedAppend
  <2> QED
    BY <2>1, <2>2
<1>6. m \in Seq(Segment) /\ Len(m) = Len(merged[L]) + 1 /\ m[Len(m)] = s
      /\ \A k \in 1..Len(merged[L]) : m[k] = merged[L][k]
  BY <1>1, <1>4, AppendProperties
<1>7. r[1] = bs[L][1] /\ r[2] = n + 1 /\ r \in Int \X Int
  BY <1>2
<1> HIDE DEF m, r
<1>8. IsGroup(m, segs, r)
  <2>1. Len(m) = r[2] - r[1] + 1
    <3> DEFINE b == bs[L][1]
    <3>1. n \in Int /\ b \in Int
      BY <1>2
    <3>2. Len(m) = (n - b + 1) + 1
      BY <1>4, <1>6
    <3>3. r[1] = b /\ r[2] = n + 1
      BY <1>7
    <3> HIDE DEF b
    <3> QED
      BY ONLY <3>1, <3>2, <3>3
  <2>2. ASSUME NEW k \in 1..Len(m) PROVE m[k] = segs[r[1] + k - 1]
    <3>1. CASE k = Len(m)
      <4>1. r[1] + k - 1 = n + 1
        <5> DEFINE b == r[1]
                   e == r[2]
        <5>1. b \in Int /\ e = n + 1 /\ n \in Int /\ k = e - b + 1
          BY <1>2, <1>7, <2>1, <3>1
        <5> HIDE DEF b, e
        <5>2. b + k - 1 = n + 1
          BY ONLY <5>1
        <5> QED
          BY <5>2 DEF b
      <4> QED
        BY <1>6, <3>1, <4>1
    <3>2. CASE k # Len(m)
      <4>1. k \in 1..Len(merged[L])
        BY <1>4, <1>6, <3>2
      <4> QED
        BY <1>4, <1>6, <1>7, <4>1
    <3> QED
      BY <3>1, <3>2
  <2> QED
    BY <1>5, <1>6, <2>1, <2>2 DEF IsGroup
<1>9. merged2 \in Seq(Seq(Segment)) /\ Len(merged2) = L
      /\ \A j \in 1..L : merged2[j] = IF j = L THEN m ELSE merged[j]
  <2>1. L \in 1..Len(merged)
    BY <1>2
  <2> QED
    BY <1>2, <1>6, <2>1, ExceptSeq
<1>10. bs2 \in [1..L -> Int \X Int] /\ bs2 \in Seq(Int \X Int) /\ Len(bs2) = L
       /\ \A j \in 1..L : bs2[j] = IF j = L THEN r ELSE bs[j]
  <2>1. L \in 1..Len(bs)
    BY <1>2
  <2>2. bs2 \in Seq(Int \X Int) /\ Len(bs2) = Len(bs)
        /\ \A j \in 1..Len(bs) : bs2[j] = IF j = L THEN r ELSE bs[j]
    BY <1>2, <1>7, <2>1, ExceptSeq
  <2>3. bs2 \in [1..L -> Int \X Int]
    BY <1>2, <1>7
  <2> QED
    BY <1>2, <2>2, <2>3
<1> HIDE DEF merged2, bs2
<1>11. Tiles(bs2, 1, n + 1)
  <2>1. /\ bs[1][1] = 1
        /\ \A k \in 1..L : bs[k][1] <= bs[k][2]
        /\ \A k \in 1..L - 1 : bs[k + 1][1] = bs[k][2] + 1
    BY <1>2 DEF Tiles
  <2>0. L \in Nat \ {0} /\ bs[L][2] = n /\ bs[L][1] \in Int /\ bs[L][1] <= n /\ n \in Int
    BY <1>2
  <2>9. \A j \in 1..L : bs2[j] = IF j = L THEN r ELSE bs[j]
    BY <1>10
  <2> HIDE DEF L
  <2>2. bs2[1][1] = 1 /\ bs2[L][2] = n + 1
    <3>1. 1 \in 1..L /\ L \in 1..L
      BY <2>0
    <3>2. bs2[1][1] = bs[1][1]
      BY <1>7, <2>9, <3>1
    <3> QED
      BY <1>7, <2>1, <2>9, <3>1, <3>2
  <2>3. \A k \in 1..L : bs2[k][1] <= bs2[k][2]
    <3> SUFFICES ASSUME NEW k \in 1..L PROVE bs2[k][1] <= bs2[k][2]
      OBVIOUS
    <3>1. CASE k = L
      <4>1. r[1] <= r[2]
        BY <1>7, <2>0
      <4> QED
        BY <2>9, <3>1, <4>1
    <3>2. CASE k # L
      BY <2>1, <2>9, <3>2
    <3> QED
      BY <3>1, <3>2
  <2>4. ASSUME NEW k \in 1..L - 1 PROVE bs2[k + 1][1] = bs2[k][2] + 1
    <3>1. k \in 1..L /\ k + 1 \in 1..L /\ k # L
      BY <2>0
    <3>2. bs2[k] = bs[k] /\ bs2[k + 1][1] = bs[k + 1][1]
      BY <1>7, <2>9, <3>1
    <3> QED
      BY <2>1, <3>2
  <2> QED
    BY <1>10, <2>0, <2>2, <2>3, <2>4 DEF Tiles
<1>12. ASSUME NEW j \in 1..L PROVE IsGroup(merged2[j], segs, bs2[j])
  <2>1. CASE j = L
    BY <1>8, <1>9, <1>10, <2>1
  <2>2. CASE j # L
    <3>1. IsGroup(merged[j], segs, bs[j])
      BY DEF Groups
    <3> QED
      BY <1>9, <1>10, <2>2, <3>1
  <2> QED
    BY <2>1, <2>2
<1>13. Groups(merged2, bs2, segs, n + 1)
  BY <1>9, <1>10, <1>11, <1>12 DEF Groups
<1> QED
  BY <1>2, <1>13 DEF merged2, bs2, m, r

\* The function that MergeSmallSegments is defined by.
IsMerge(g, segs) ==
    g = [n \in 0..Len(segs) |-> IF n = 0 THEN <<>> ELSE Merge(g[n - 1], segs[n])]

LEMMA MergeExists ==
    ASSUME NEW segs, Len(segs) \in Nat
    PROVE  \E g : IsMerge(g, segs)
<1> DEFINE b == Len(segs)
           step(n, x) == Merge(x, segs[n])
           Upto(g, m) == \A n \in 0..m : g[n] = IF n = 0 THEN <<>> ELSE step(n, g[n - 1])
           P == {m \in 0..b : \E g : g = [n \in 0..m |-> g[n]] /\ Upto(g, m)}
<1>1. 0 \in Int /\ b \in Int /\ 0 <= b
  OBVIOUS
<1> HIDE DEF b, step
<1>2. 0 \in P
  <2> DEFINE g == [n \in 0..0 |-> <<>>]
  <2>1. Upto(g, 0) /\ g = [n \in 0..0 |-> g[n]]
    OBVIOUS
  <2> HIDE DEF g
  <2> QED
    BY <1>1, <2>1
<1>3. \A m \in 0..b : m \in P /\ m < b => m + 1 \in P
  <2> SUFFICES ASSUME NEW m \in 0..b, m \in P, m < b PROVE m + 1 \in P
    OBVIOUS
  <2>1. PICK g : Upto(g, m)
    OBVIOUS
  <2> DEFINE h == [n \in 0..m + 1 |-> IF n = m + 1 THEN step(m + 1, g[m]) ELSE g[n]]
  <2>2. m \in 0..m /\ m + 1 \in 0..m + 1 /\ m + 1 # 0 /\ m + 1 \in 0..b
    BY <1>1
  <2>3. h[m + 1] = step(m + 1, g[m]) /\ \A n \in 0..m : h[n] = g[n]
    BY <1>1, <2>2
  <2>4. h = [n \in 0..m + 1 |-> h[n]]
    OBVIOUS
  <2> HIDE DEF h
  <2>5. ASSUME NEW n \in 0..m + 1
        PROVE  h[n] = IF n = 0 THEN <<>> ELSE step(n, h[n - 1])
    <3>1. CASE n = m + 1
      <4>1. n - 1 = m
        BY <1>1, <3>1
      <4> QED
        BY <2>2, <2>3, <3>1, <4>1
    <3>2. CASE n # m + 1
      <4>1. n \in 0..m /\ (n # 0 => n - 1 \in 0..m)
        BY <1>1, <3>2
      <4> QED
        BY <2>1, <2>3, <4>1
    <3> QED
      BY <3>1, <3>2
  <2> QED
    BY <2>2, <2>4, <2>5
<1> HIDE DEF P
<1>4. b \in P
  <2>1. \A n \in 0..b : n \in P
    BY <1>1, <1>2, <1>3, IntervalInduction
  <2> QED
    BY <1>1, <2>1
<1>5. PICK g : g = [n \in 0..b |-> g[n]] /\ Upto(g, b)
  BY <1>4 DEF P
<1>6. g = [n \in 0..b |-> IF n = 0 THEN <<>> ELSE step(n, g[n - 1])]
  BY <1>5
<1>7. IsMerge(g, segs)
  BY <1>6 DEF IsMerge, b, step
<1> QED
  BY <1>7

\* Every segment is in one group, in their order.
LEMMA MergedGroups ==
    ASSUME NEW segs, InOrder(segs)
    PROVE  \E bs : Groups(MergeSmallSegments(segs), bs, segs, Len(segs))
<1> DEFINE merged[n \in 0..Len(segs)] ==
               IF n = 0 THEN <<>> ELSE Merge(merged[n - 1], segs[n])
           b == Len(segs)
<1>0. \E g : IsMerge(g, segs)
  BY MergeExists DEF InOrder
<1>1. IsMerge(merged, segs)
  BY <1>0 DEF IsMerge
<1>2. MergeSmallSegments(segs) = merged[b]
  BY DEF MergeSmallSegments
<1> HIDE DEF merged
<1>3. \A n \in 0..b : merged[n] = IF n = 0 THEN <<>> ELSE Merge(merged[n - 1], segs[n])
  BY <1>1 DEF IsMerge
<1>4. b \in Nat \ {0} /\ b \in Int /\ 1 \in Int /\ b = Len(segs)
  BY DEF InOrder
<1> HIDE DEF b
<1> DEFINE P == {n \in 1..b : \E bs : Groups(merged[n], bs, segs, n)}
<1>5. 1 \in P
  <2>1. 1 \in 1..b /\ 1 \in 0..b /\ 0 \in 0..b /\ 1 # 0 /\ 1 - 1 = 0
    BY <1>4
  <2>2. merged[1] = Merge(<<>>, segs[1])
    BY <1>3, <2>1
  <2> QED
    BY <2>1, <2>2, GroupsOne
<1>6. \A n \in 1..b : n \in P /\ n < b => n + 1 \in P
  <2> SUFFICES ASSUME NEW n \in 1..b, n \in P, n < b PROVE n + 1 \in P
    OBVIOUS
  <2>1. n + 1 \in 1..b /\ n + 1 \in 0..b /\ n + 1 # 0 /\ (n + 1) - 1 = n
        /\ n \in 1..Len(segs) - 1
    BY <1>4
  <2>2. PICK bs : Groups(merged[n], bs, segs, n)
    OBVIOUS
  <2>3. merged[n + 1] = Merge(merged[n], segs[n + 1])
    BY <1>3, <2>1
  <2>4. CASE merged[n] # <<>> /\ Joins(Last(merged[n]), segs[n + 1])
    <3>1. merged[n + 1] = [merged[n] EXCEPT ![Len(merged[n])] = Append(@, segs[n + 1])]
      BY <2>3, <2>4 DEF Merge
    <3> DEFINE g == merged[n]
    <3>2. Groups(g, bs, segs, n) /\ Joins(Last(g), segs[n + 1])
      BY <2>2, <2>4
    <3> HIDE DEF g
    <3>3. Groups([g EXCEPT ![Len(g)] = Append(@, segs[n + 1])],
                 [bs EXCEPT ![Len(bs)] = <<@[1], n + 1>>], segs, n + 1)
      BY <2>1, <3>2, GroupsJoin
    <3>4. Groups(merged[n + 1], [bs EXCEPT ![Len(bs)] = <<@[1], n + 1>>], segs, n + 1)
      BY <3>1, <3>3 DEF g
    <3> QED
      BY <2>1, <3>4
  <2>5. CASE ~(merged[n] # <<>> /\ Joins(Last(merged[n]), segs[n + 1]))
    <3>1. merged[n + 1] = Append(merged[n], <<segs[n + 1]>>)
      BY <2>3, <2>5 DEF Merge
    <3>2. \E cs : Groups(merged[n + 1], cs, segs, n + 1)
      BY <2>1, <2>2, <3>1, GroupsMore
    <3> QED
      BY <2>1, <3>2
  <2> QED
    BY <2>4, <2>5
<1> HIDE DEF P
<1>7. \A n \in 1..b : n \in P
  BY <1>4, <1>5, <1>6, IntervalInduction
<1>8. \E bs : Groups(merged[b], bs, segs, b)
  BY <1>4, <1>7 DEF P
<1> QED
  BY <1>2, <1>4, <1>8

-----------------------------------------------------------------------------
\* Segments in order.

LEMMA OrderFacts ==
    ASSUME NEW m, InOrder(m)
    PROVE  /\ m \in Seq(Segment) /\ Len(m) \in Nat \ {0} /\ 1 \in 1..Len(m)
           /\ DOMAIN m = 1..Len(m) /\ Last(m) = m[Len(m)] /\ Len(m) \in 1..Len(m)
           /\ \A k \in 1..Len(m) : /\ m[k] \in Segment /\ m[k].from < m[k].to
                                   /\ m[k].from \in Nat /\ m[k].to \in Nat
                                   /\ m[k].plus \in 0..1
           /\ \A k \in 1..Len(m) - 1 : m[k].to <= m[k + 1].from /\ m[k].plus = 0
<1>1. m \in Seq(Segment) /\ DOMAIN m = 1..Len(m)
  BY SeqDef DEF InOrder
<1>2. \A k \in 1..Len(m) : m[k] \in Segment
  BY DEF InOrder
<1>3. \A k \in 1..Len(m) : m[k].from \in Nat /\ m[k].to \in Nat /\ m[k].plus \in 0..1
  BY <1>2 DEF Segment
<1>4. Len(m) \in Nat \ {0} /\ 1 \in 1..Len(m) /\ Len(m) \in 1..Len(m)
  BY DEF InOrder
<1> QED
  BY <1>1, <1>2, <1>3, <1>4 DEF InOrder, Last

LEMMA OrderBounds ==
    ASSUME NEW m, InOrder(m), NEW j \in 1..Len(m)
    PROVE  \A k \in j..Len(m) : /\ m[j].from <= m[k].from /\ m[j].to <= m[k].to
                                /\ j < k => m[j].to <= m[k].from
<1> DEFINE n == Len(m)
           P == {k \in j..n : /\ m[j].from <= m[k].from /\ m[j].to <= m[k].to
                              /\ j < k => m[j].to <= m[k].from}
<1>1. /\ \A k \in 1..n : m[k].from < m[k].to /\ m[k].from \in Nat /\ m[k].to \in Nat
      /\ \A k \in 1..n - 1 : m[k].to <= m[k + 1].from
  BY OrderFacts
<1>2. n \in Nat /\ n \in Int /\ j \in Int /\ j \in 1..n
  BY OrderFacts
<1> HIDE DEF n
<1>3. j <= n => j \in P
  BY <1>1, <1>2
<1>4. \A k \in j..n : k \in P /\ k < n => k + 1 \in P
  <2> SUFFICES ASSUME NEW k \in j..n, k \in P, k < n PROVE k + 1 \in P
    OBVIOUS
  <2>1. k \in 1..n - 1 /\ k \in 1..n /\ k + 1 \in 1..n /\ k + 1 \in j..n
    BY <1>2
  <2>2. /\ m[k].to <= m[k + 1].from /\ m[k].from < m[k].to /\ m[k + 1].from < m[k + 1].to
        /\ m[k].from \in Nat /\ m[k].to \in Nat
        /\ m[k + 1].from \in Nat /\ m[k + 1].to \in Nat
        /\ m[j].from \in Nat /\ m[j].to \in Nat
    BY <1>1, <1>2, <2>1
  <2>3. m[j].from <= m[k].from /\ m[j].to <= m[k].to
    OBVIOUS
  <2> DEFINE fj == m[j].from
             tj == m[j].to
             fk == m[k].from
             tk == m[k].to
             fn == m[k + 1].from
             tn == m[k + 1].to
  <2>4. fj \in Nat /\ tj \in Nat /\ fk \in Nat /\ tk \in Nat /\ fn \in Nat /\ tn \in Nat
        /\ fj <= fk /\ tj <= tk /\ fk < tk /\ tk <= fn /\ fn < tn
    BY <2>2, <2>3
  <2> HIDE DEF fj, tj, fk, tk, fn, tn
  <2>5. fj <= fn /\ tj <= tn /\ tj <= fn
    BY ONLY <2>4
  <2> QED
    BY <2>1, <2>5 DEF fj, tj, fn, tn
<1> HIDE DEF P
<1>5. \A k \in j..n : k \in P
  BY <1>2, <1>3, <1>4, IntervalInduction
<1> QED
  BY <1>5 DEF P, n

\* A group is in order as the segments are, and groups follow each other.
LEMMA GroupInOrder ==
    ASSUME NEW segs, InOrder(segs), NEW m, NEW r,
           r[1] \in 1..Len(segs), r[2] \in r[1]..Len(segs), IsGroup(m, segs, r)
    PROVE  /\ InOrder(m) /\ m[1] = segs[r[1]] /\ m[Len(m)] = segs[r[2]]
           /\ Len(m) <= Len(segs)
           /\ \A k \in 1..Len(m) : r[1] + k - 1 \in r[1]..r[2] /\ m[k] = segs[r[1] + k - 1]
<1> DEFINE a == r[1]
           e == r[2]
<1>1. /\ m \in Seq(Segment) /\ Len(m) = e - a + 1
      /\ \A k \in 1..Len(m) : m[k] = segs[a + k - 1]
  BY DEF IsGroup
<1>2. a \in 1..Len(segs) /\ e \in a..Len(segs) /\ Len(segs) \in Nat
  BY OrderFacts
<1> HIDE DEF a, e
<1>3. Len(m) \in Nat \ {0} /\ Len(m) <= Len(segs)
  BY <1>1, <1>2
<1>4. m \in [1..Len(m) -> Segment]
  BY <1>1
<1>5. \A k \in 1..Len(segs) : segs[k].from < segs[k].to
  BY OrderFacts
<1>6. \A k \in 1..Len(segs) - 1 : segs[k].to <= segs[k + 1].from /\ segs[k].plus = 0
  BY OrderFacts
<1>7. ASSUME NEW k \in 1..Len(m) PROVE m[k].from < m[k].to /\ a + k - 1 \in a..e
  <2>1. a + k - 1 \in 1..Len(segs) /\ a + k - 1 \in a..e
    BY <1>1, <1>2
  <2> QED
    BY <1>1, <1>5, <2>1
<1>8. ASSUME NEW k \in 1..Len(m) - 1 PROVE m[k].to <= m[k + 1].from /\ m[k].plus = 0
  <2> DEFINE i == a + k - 1
  <2>1. i \in 1..Len(segs) - 1 /\ i + 1 = a + (k + 1) - 1 /\ i = a + k - 1
        /\ k \in 1..Len(m) /\ k + 1 \in 1..Len(m)
    BY <1>1, <1>2
  <2> HIDE DEF i
  <2>2. m[k] = segs[i] /\ m[k + 1] = segs[i + 1]
    BY <1>1, <2>1
  <2> QED
    BY <1>6, <2>1, <2>2
<1>9. InOrder(m)
  BY <1>3, <1>4, <1>7, <1>8 DEF InOrder
<1>10. m[1] = segs[a]
  <2>1. 1 \in 1..Len(m) /\ a + 1 - 1 = a
    BY <1>2, <1>3
  <2>2. m[1] = segs[a + 1 - 1]
    BY <1>1, <2>1
  <2> QED
    BY <2>1, <2>2
<1>11. m[Len(m)] = segs[e]
  <2>1. Len(m) \in 1..Len(m) /\ a + Len(m) - 1 = e
    BY <1>1, <1>2, <1>3
  <2>2. m[Len(m)] = segs[a + Len(m) - 1]
    BY <1>1, <2>1
  <2> QED
    BY <2>1, <2>2
<1> QED
  BY <1>1, <1>3, <1>7, <1>9, <1>10, <1>11 DEF a, e

LEMMA JoinedPositive ==
    ASSUME NEW m, InOrder(m)
    PROVE  Joined(m) \in Nat \ {0}
<1> DEFINE n == Len(m)
<1>1. m \in Seq(Segment) /\ n \in Nat \ {0} /\ 0 \in Int /\ n \in Int
  BY OrderFacts
<1>2. PICK g : IsSizes(g, m) /\ g \in [0..n -> Int] /\ Joined(m) = g[n] + n - 1
  BY <1>1, JoinedSizes
<1>3. \A k \in 1..n : Size(m[k]) \in Int /\ Size(m[k]) >= 1
  BY OrderFacts, SizeType
<1>4. \A k \in 0..n : g[k] = IF k = 0 THEN 0 ELSE g[k - 1] + Size(m[k])
  BY <1>2 DEF IsSizes
<1> HIDE DEF n
<1> DEFINE P == {k \in 0..n : g[k] >= k}
<1>5. 0 \in P
  BY <1>1, <1>4
<1>6. \A k \in 0..n : k \in P /\ k < n => k + 1 \in P
  <2> SUFFICES ASSUME NEW k \in 0..n, k \in P, k < n PROVE k + 1 \in P
    OBVIOUS
  <2>1. k + 1 \in 0..n /\ k + 1 \in 1..n /\ k + 1 # 0 /\ (k + 1) - 1 = k
    BY <1>1
  <2>2. g[k + 1] = g[k] + Size(m[k + 1])
    BY <1>4, <2>1
  <2>3. g[k] \in Int /\ Size(m[k + 1]) \in Int /\ Size(m[k + 1]) >= 1
    BY <1>2, <1>3, <2>1
  <2> QED
    BY <2>1, <2>2, <2>3
<1> HIDE DEF P
<1>7. \A k \in 0..n : k \in P
  BY <1>1, <1>5, <1>6, IntervalInduction
<1>8. n \in 0..n /\ g[n] >= n /\ g[n] \in Int
  BY <1>1, <1>2, <1>7 DEF P
<1> QED
  BY <1>1, <1>2, <1>8

-----------------------------------------------------------------------------
\* Windows over a segment that is too long.

Stride == MaxSize - Overlap

\* A window that is not the last ends before the end of the text.
More(size) == {k \in 0..size : k = 0 \/ (k - 1) * Stride + MaxSize < size}

LEMMA StepFacts ==
    /\ Stride \in Nat \ {0} /\ Stride <= MaxSize /\ MaxSize - Stride = Overlap
    /\ MaxSize <= 2 * Stride
    /\ \A k \in Int : k * Stride \in Int /\ (k + 1) * Stride = k * Stride + Stride
                      /\ (k - 1) * Stride = k * Stride - Stride
                      /\ (k + 1 - 1) * Stride = k * Stride
<1>1. /\ Stride \in Nat \ {0} /\ Stride <= MaxSize /\ MaxSize - Stride = Overlap
      /\ MaxSize <= 2 * Stride
  BY SizeAssumption DEF Stride
<1>2. ASSUME NEW k \in Int
      PROVE  k * Stride \in Int /\ (k + 1) * Stride = k * Stride + Stride
             /\ (k - 1) * Stride = k * Stride - Stride /\ (k + 1 - 1) * Stride = k * Stride
  <2>1. Stride \in Int
    BY <1>1
  <2> HIDE DEF Stride
  <2> QED
    BY <2>1
<1> QED
  BY <1>1, <1>2

LEMMA StepsMonotone ==
    ASSUME NEW j \in Nat
    PROVE  \A k \in Nat : j <= k => k - j <= k * Stride - j * Stride /\ j * Stride <= k * Stride
<1> SUFFICES ASSUME NEW b \in Nat, j <= b
             PROVE  b - j <= b * Stride - j * Stride /\ j * Stride <= b * Stride
  OBVIOUS
<1> DEFINE P == {k \in j..b : k - j <= k * Stride - j * Stride /\ j * Stride <= k * Stride}
<1>1. j <= b => j \in P
  BY StepFacts
<1>2. \A k \in j..b : k \in P /\ k < b => k + 1 \in P
  <2> SUFFICES ASSUME NEW k \in j..b, k \in P, k < b PROVE k + 1 \in P
    OBVIOUS
  <2>1. k + 1 \in j..b /\ k \in Int /\ j \in Int
    OBVIOUS
  <2>2. (k + 1) * Stride = k * Stride + Stride /\ k * Stride \in Int /\ j * Stride \in Int
        /\ Stride \in Nat \ {0}
    BY <2>1, StepFacts
  <2>3. k - j <= k * Stride - j * Stride /\ j * Stride <= k * Stride
    OBVIOUS
  <2>4. (k + 1) - j <= (k + 1) * Stride - j * Stride /\ j * Stride <= (k + 1) * Stride
    BY <2>1, <2>2, <2>3
  <2> QED
    BY <2>1, <2>4
<1> HIDE DEF P
<1>3. \A k \in j..b : k \in P
  <2>1. j \in Int /\ b \in Int
    OBVIOUS
  <2> QED
    BY <1>1, <1>2, <2>1, IntervalInduction
<1>4. b \in P
  BY <1>3
<1> QED
  BY <1>4 DEF P

LEMMA SmallestNumber ==
    ASSUME NEW T \in SUBSET Nat, T # {}
    PROVE  \E x \in T : \A y \in T : x <= y
<1>1. PICK x \in T : \A y \in T : <<y, x>> \notin OpToRel(<, Nat)
  BY NatLessThanWellFounded, WFMin
<1>2. ASSUME NEW y \in T PROVE x <= y
  <2> SUFFICES ASSUME ~(x <= y) PROVE FALSE
    OBVIOUS
  <2>1. x \in Nat /\ y \in Nat /\ y < x
    OBVIOUS
  <2>2. <<y, x>> \in OpToRel(<, Nat)
    BY <2>1 DEF OpToRel
  <2> QED
    BY <1>1, <2>2
<1> QED
  BY <1>2

\* There are N windows, and the last of them ends the text.
LEMMA WindowCount ==
    ASSUME NEW size \in Nat, size > MaxSize
    PROVE  \E N \in Nat \ {0} :
               /\ More(size) = 0..N - 1
               /\ (N - 1) * Stride + MaxSize >= size
               /\ \A k \in 1..N - 1 : (k - 1) * Stride + MaxSize < size
<1> DEFINE T == {k \in 1..size : k \notin More(size)}
<1>1. size \in 1..size /\ size - 1 \in Nat /\ MaxSize \in Nat \ {0}
  BY SizeAssumption
<1>2. \A k \in 1..size : k - 1 \in Nat /\ (k - 1) * Stride \in Int
                         /\ (k \in More(size) <=> (k - 1) * Stride + MaxSize < size)
  <2> SUFFICES ASSUME NEW k \in 1..size
               PROVE  k - 1 \in Nat /\ (k - 1) * Stride \in Int
                      /\ (k \in More(size) <=> (k - 1) * Stride + MaxSize < size)
    OBVIOUS
  <2>1. k \in 0..size /\ k # 0 /\ k - 1 \in Nat /\ k - 1 \in Int
    OBVIOUS
  <2>2. (k - 1) * Stride \in Int
    BY <2>1, StepFacts
  <2> QED
    BY <2>1, <2>2 DEF More
<1>3. size - 1 - 0 <= (size - 1) * Stride - 0 * Stride /\ 0 * Stride = 0
  <2>1. size - 1 - 0 <= (size - 1) * Stride - 0 * Stride
    BY <1>1, StepsMonotone
  <2>2. Stride \in Int
    BY StepFacts
  <2> HIDE DEF Stride
  <2>3. 0 * Stride = 0
    BY <2>2
  <2> QED
    BY <2>1, <2>3
<1>4. size \in T
  BY <1>1, <1>2, <1>3
<1>5. PICK N \in T : \A y \in T : N <= y
  <2>1. T \in SUBSET Nat /\ T # {}
    BY <1>4
  <2> HIDE DEF T
  <2> QED
    BY <2>1, SmallestNumber
<1>6. N \in 1..size /\ N \in Nat \ {0} /\ N - 1 \in Nat
  OBVIOUS
<1>7. (N - 1) * Stride + MaxSize >= size
  BY <1>1, <1>2, <1>6
<1>8. ASSUME NEW k \in 1..N - 1 PROVE k \in More(size) /\ (k - 1) * Stride + MaxSize < size
  <2>1. k \in 1..size /\ k \notin T
    BY <1>5, <1>6
  <2> QED
    BY <1>2, <2>1
<1>9. ASSUME NEW k \in N..size PROVE k \notin More(size)
  <2>1. k \in 1..size /\ k - 1 \in Nat /\ N - 1 <= k - 1
    BY <1>6
  <2>2. (N - 1) * Stride <= (k - 1) * Stride
    BY <1>6, <2>1, StepsMonotone
  <2> QED
    BY <1>1, <1>2, <1>6, <1>7, <2>1, <2>2
<1>10. 0 \in More(size) /\ More(size) \subseteq 0..size
  BY DEF More
<1>11. More(size) = 0..N - 1
  <2>1. ASSUME NEW k \in 0..N - 1 PROVE k \in More(size)
    <3>1. k = 0 \/ k \in 1..N - 1
      BY <1>6
    <3> QED
      BY <1>8, <1>10, <3>1
  <2>2. ASSUME NEW k \in More(size) PROVE k \in 0..N - 1
    <3>1. k \in 0..size /\ k \notin N..size
      BY <1>9, <1>10
    <3> QED
      BY <1>6, <3>1
  <2> QED
    BY <2>1, <2>2
<1> QED
  BY <1>6, <1>7, <1>8, <1>11

\* The windows of a size, in order, each the length of a chunk at most.
WindowsOver(w, size) ==
    /\ Len(w) \in Nat \ {0} /\ w \in Seq([from : Nat, to : Nat])
    /\ w[1].from = 0 /\ w[Len(w)].to = size
    /\ \A k \in 1..Len(w) : /\ w[k].from \in Nat /\ w[k].to \in Nat
                            /\ w[k].from < w[k].to /\ w[k].to <= size
                            /\ w[k].to - w[k].from <= MaxSize
    /\ \A k \in 1..Len(w) - 1 : /\ w[k + 1].from = w[k].to - Overlap
                                /\ w[k].from < w[k + 1].from /\ w[k].to < size
    /\ \A j \in 1..Len(w), k \in 1..Len(w) : j + 1 < k => w[j].to <= w[k].from
    /\ \A x \in 0..size - 1 : \E k \in 1..Len(w) : x \in w[k].from..w[k].to - 1

LEMMA WindowsAreOver ==
    ASSUME NEW size \in Nat, size > MaxSize
    PROVE  WindowsOver(SlidingWindow(size), size)
<1> DEFINE w == SlidingWindow(size)
<1>1. PICK N \in Nat \ {0} :
          /\ More(size) = 0..N - 1
          /\ (N - 1) * Stride + MaxSize >= size
          /\ \A k \in 1..N - 1 : (k - 1) * Stride + MaxSize < size
  BY WindowCount
<1>2. Cardinality(More(size)) = N
  <2>1. 0 \in Int /\ N - 1 \in Int
    OBVIOUS
  <2>2. Cardinality(0..N - 1) = IF 0 > N - 1 THEN 0 ELSE (N - 1) - 0 + 1
    BY <2>1, FS_Interval
  <2> QED
    BY <1>1, <2>2
<1>3. w = [k \in 1..N |-> [from |-> (k - 1) * Stride,
                           to |-> Min({(k - 1) * Stride + MaxSize, size})]]
  BY <1>2 DEF SlidingWindow, More, Stride
<1> DEFINE start(k) == (k - 1) * Stride
<1>4. /\ Stride \in Nat \ {0} /\ Stride <= MaxSize /\ MaxSize - Stride = Overlap
      /\ MaxSize <= 2 * Stride /\ MaxSize \in Nat \ {0} /\ Overlap \in Nat
  BY StepFacts, SizeAssumption
<1>5. ASSUME NEW k \in 1..N
      PROVE  /\ start(k) \in Nat /\ start(k + 1) = start(k) + Stride
             /\ w[k].from = start(k)
             /\ w[k].to = IF start(k) + MaxSize <= size THEN start(k) + MaxSize ELSE size
  <2>1. k \in Int /\ k - 1 \in Nat /\ 0 \in Nat
    OBVIOUS
  <2>2. start(k) \in Int /\ start(k + 1) = start(k) + Stride
    BY <2>1, StepFacts
  <2>3. 0 * Stride <= (k - 1) * Stride
    BY <2>1, StepsMonotone
  <2>4. 0 * Stride = 0
    <3>1. Stride \in Int
      BY <1>4
    <3> HIDE DEF Stride
    <3> QED
      BY <3>1
  <2>5. start(k) \in Nat
    BY <2>2, <2>3, <2>4
  <2> HIDE DEF start, Stride
  <2>6. w[k] = [from |-> start(k), to |-> Min({start(k) + MaxSize, size})]
    BY <1>3 DEF start
  <2>7. Min({start(k) + MaxSize, size}) = IF start(k) + MaxSize <= size THEN start(k) + MaxSize ELSE size
    <3>1. start(k) + MaxSize \in Int /\ size \in Int
      BY <1>4, <2>5
    <3> QED
      BY <3>1, MinOfTwo
  <2> QED
    BY <2>2, <2>5, <2>6, <2>7
<1>6. start(N) + MaxSize >= size /\ \A k \in 1..N - 1 : start(k) + MaxSize < size
  BY <1>1
<1>7. start(1) = 0
  <2>1. Stride \in Int
    BY <1>4
  <2> HIDE DEF Stride
  <2> QED
    BY <2>1
<1>8. \A j \in 1..N, k \in 1..N : j <= k => start(j) <= start(k)
  <2> SUFFICES ASSUME NEW j \in 1..N, NEW k \in 1..N, j <= k PROVE start(j) <= start(k)
    OBVIOUS
  <2>1. j - 1 \in Nat /\ k - 1 \in Nat /\ j - 1 <= k - 1
    OBVIOUS
  <2> QED
    BY <2>1, StepsMonotone
<1> HIDE DEF start, Stride, w
<1>9. \A k \in 1..N : /\ w[k].from = start(k) /\ start(k) \in Nat
                      /\ w[k].to = IF start(k) + MaxSize <= size THEN start(k) + MaxSize ELSE size
  BY <1>5
<1>10. DOMAIN w = 1..N /\ Len(w) = N /\ w \in Seq([from : Nat, to : Nat])
  <2>1. w = [k \in 1..N |-> w[k]]
    BY <1>3
  <2>2. ASSUME NEW k \in 1..N PROVE w[k] \in [from : Nat, to : Nat]
    <3>1. w[k] = [from |-> w[k].from, to |-> w[k].to]
      BY <1>3
    <3>2. w[k].from \in Nat /\ w[k].to \in Nat
      BY <1>4, <1>9
    <3> QED
      BY <3>1, <3>2
  <2>3. w \in Seq([from : Nat, to : Nat])
    <3> DEFINE S == [from : Nat, to : Nat]
    <3>1. w \in [1..N -> S] /\ N \in Nat
      BY <2>1, <2>2
    <3> HIDE DEF S
    <3>2. w \in Seq(S)
      BY <3>1
    <3> QED
      BY <3>2 DEF S
  <2> QED
    BY <2>1, <2>3
<1>11. ASSUME NEW k \in 1..N
       PROVE  /\ w[k].from \in Nat /\ w[k].to \in Nat
              /\ w[k].from < w[k].to /\ w[k].to <= size
              /\ w[k].to - w[k].from <= MaxSize
  <2>1. CASE k = 1
    BY <1>4, <1>7, <1>9, <2>1
  <2>2. CASE k # 1
    <3>1. k - 1 \in 1..N - 1 /\ k - 1 \in 1..N /\ (k - 1) + 1 = k
      BY <2>2
    <3>2. start(k - 1) + MaxSize < size /\ start(k) = start(k - 1) + Stride /\ start(k - 1) \in Nat
      BY <1>5, <1>6, <3>1
    <3> QED
      BY <1>4, <1>9, <3>2
  <2> QED
    BY <2>1, <2>2
<1>12. \A k \in 1..N - 1 : /\ w[k].to = start(k) + MaxSize /\ start(k + 1) = start(k) + Stride
                           /\ k \in 1..N /\ k + 1 \in 1..N
  <2> SUFFICES ASSUME NEW k \in 1..N - 1
               PROVE  /\ w[k].to = start(k) + MaxSize /\ start(k + 1) = start(k) + Stride
                      /\ k \in 1..N /\ k + 1 \in 1..N
    OBVIOUS
  <2>1. k \in 1..N /\ k + 1 \in 1..N
    OBVIOUS
  <2>2. start(k) + MaxSize < size /\ start(k) \in Nat /\ start(k + 1) = start(k) + Stride
    BY <1>5, <1>6, <2>1
  <2> QED
    BY <1>4, <1>9, <2>1, <2>2
<1>13. ASSUME NEW k \in 1..N - 1
       PROVE  w[k + 1].from = w[k].to - Overlap /\ w[k].from < w[k + 1].from
              /\ w[k].to < size
  <2>1. /\ w[k].to = start(k) + MaxSize /\ start(k + 1) = start(k) + Stride
        /\ w[k].from = start(k) /\ w[k + 1].from = start(k + 1) /\ start(k) \in Nat
        /\ start(k) + MaxSize < size
    BY <1>6, <1>9, <1>12
  <2> QED
    BY <1>4, <2>1
<1>14. ASSUME NEW j \in 1..N, NEW k \in 1..N, j + 1 < k PROVE w[j].to <= w[k].from
  <2>1. j \in 1..N - 1 /\ j + 1 \in 1..N - 1 /\ (j + 1) + 1 \in 1..N /\ (j + 1) + 1 <= k
    BY <1>14
  <2>2. /\ w[j].to = start(j) + MaxSize /\ start(j + 1) = start(j) + Stride
        /\ start((j + 1) + 1) = start(j + 1) + Stride
    BY <1>12, <2>1
  <2>3. start((j + 1) + 1) <= start(k) /\ w[k].from = start(k) /\ start(j) \in Nat /\ start(k) \in Nat
    BY <1>8, <1>9, <2>1
  <2> QED
    BY <1>4, <2>2, <2>3
<1>15. ASSUME NEW x \in 0..size - 1 PROVE \E k \in 1..N : x \in w[k].from..w[k].to - 1
  <2> DEFINE P == {k \in 1..N : x < w[k].to =>
                                   \E i \in 1..N : x \in w[i].from..w[i].to - 1}
  <2>1. 1 <= N => 1 \in P
    <3>1. 1 \in 1..N /\ w[1].from = 0 /\ w[1].to \in Nat
      BY <1>7, <1>9, <1>11
    <3>2. x < w[1].to => x \in w[1].from..w[1].to - 1
      BY <3>1
    <3> QED
      BY <3>1, <3>2
  <2>2. \A k \in 1..N : k \in P /\ k < N => k + 1 \in P
    <3> SUFFICES ASSUME NEW k \in 1..N, k \in P, k < N PROVE k + 1 \in P
      OBVIOUS
    <3>1. k \in 1..N - 1 /\ k + 1 \in 1..N
      OBVIOUS
    <3>2. w[k + 1].from = w[k].to - Overlap /\ w[k].to \in Nat
          /\ w[k + 1].from \in Nat /\ w[k + 1].to \in Nat
      BY <1>11, <1>13, <3>1
    <3>3. CASE x < w[k].to
      BY <3>1, <3>3
    <3>4. CASE ~(x < w[k].to)
      <4>1. x < w[k + 1].to => x \in w[k + 1].from..w[k + 1].to - 1
        BY <1>4, <3>2, <3>4
      <4> QED
        BY <3>1, <4>1
    <3> QED
      BY <3>3, <3>4
  <2> HIDE DEF P
  <2>3. \A k \in 1..N : k \in P
    <3>1. 1 \in Int /\ N \in Int
      OBVIOUS
    <3> QED
      BY <2>1, <2>2, <3>1, IntervalInduction
  <2>4. N \in P /\ w[N].to = size
    BY <1>4, <1>6, <1>9, <2>3
  <2> QED
    BY <2>4 DEF P
<1>16. w[1].from = 0 /\ w[N].to = size
  BY <1>4, <1>6, <1>7, <1>9
<1>17. WindowsOver(w, size)
  BY <1>10, <1>11, <1>13, <1>14, <1>15, <1>16 DEF WindowsOver
<1> QED
  BY <1>17 DEF w

-----------------------------------------------------------------------------
\* The chunks of a merged segment.

LEMMA IntervalPart ==
    ASSUME NEW a \in Int, NEW b \in Int, a <= b, NEW S \in SUBSET (a..b - 1)
    PROVE  IsFiniteSet(S) /\ Cardinality(S) \in Nat /\ Cardinality(S) <= b - a
<1>1. IsFiniteSet(a..b - 1) /\ Cardinality(a..b - 1) = b - a
  <2>1. b - 1 \in Int
    OBVIOUS
  <2>2. /\ IsFiniteSet(a..b - 1)
        /\ Cardinality(a..b - 1) = IF a > b - 1 THEN 0 ELSE (b - 1) - a + 1
    BY <2>1, FS_Interval
  <2> QED
    BY <2>2
<1>2. IsFiniteSet(S) /\ Cardinality(S) <= Cardinality(a..b - 1)
  BY <1>1, FS_Subset
<1>3. Cardinality(S) \in Nat
  BY <1>2, FS_CardinalityType
<1> QED
  BY <1>1, <1>2, <1>3

LEMMA MinIs ==
    ASSUME NEW S \in SUBSET Int, NEW x \in S, \A y \in S : x <= y
    PROVE  Min(S) = x
<1>1. \A z \in S : (\A y \in S : z <= y) => z = x
  OBVIOUS
<1> QED
  BY <1>1 DEF Min

LEMMA MaxIs ==
    ASSUME NEW S \in SUBSET Int, NEW x \in S, \A y \in S : x >= y
    PROVE  Max(S) = x
<1>1. \A z \in S : (\A y \in S : z >= y) => z = x
  OBVIOUS
<1> QED
  BY <1>1 DEF Max

LEMMA MinIn ==
    ASSUME NEW S \in SUBSET Nat, S # {}
    PROVE  Min(S) \in S
<1>1. PICK x \in S : \A y \in S : x <= y
  BY SmallestNumber
<1>2. Min(S) = x
  BY <1>1, MinIs
<1> QED
  BY <1>2

\* Segments that a line break each stands between.
Contiguous(m) ==
    /\ \A k \in 1..Len(m) : m[k].plus = 0
    /\ \A k \in 1..Len(m) - 1 : m[k + 1].from = m[k].to + 1

LEMMA JoinedContiguous ==
    ASSUME NEW m, InOrder(m), Contiguous(m)
    PROVE  Joined(m) = m[Len(m)].to - m[1].from
<1> DEFINE n == Len(m)
<1>1. /\ m \in Seq(Segment) /\ n \in Nat \ {0} /\ n \in Int /\ 1 \in Int
      /\ \A k \in 1..n : m[k].from \in Nat /\ m[k].to \in Nat /\ 1 \in 1..n /\ n \in 1..n
  BY OrderFacts
<1>2. PICK g : IsSizes(g, m) /\ g \in [0..n -> Int] /\ Joined(m) = g[n] + n - 1
  BY <1>1, JoinedSizes
<1>3. \A k \in 1..n : Size(m[k]) = m[k].to - m[k].from
  BY <1>1 DEF Size, Contiguous
<1>4. \A k \in 0..n : g[k] = IF k = 0 THEN 0 ELSE g[k - 1] + Size(m[k])
  BY <1>2 DEF IsSizes
<1>5. \A k \in 1..n - 1 : m[k + 1].from = m[k].to + 1
  BY DEF Contiguous
<1> HIDE DEF n
<1> DEFINE P == {k \in 1..n : g[k] + k - 1 = m[k].to - m[1].from}
<1>6. 1 <= n => 1 \in P
  <2>1. 1 \in 1..n /\ 0 \in 0..n /\ 1 \in 0..n /\ 1 - 1 = 0
    BY <1>1
  <2>2. g[0] = 0 /\ g[1] = g[0] + Size(m[1])
    BY <1>4, <2>1
  <2>3. Size(m[1]) = m[1].to - m[1].from /\ m[1].to \in Nat /\ m[1].from \in Nat
    BY <1>1, <1>3, <2>1
  <2> QED
    BY <2>1, <2>2, <2>3
<1>7. \A k \in 1..n : k \in P /\ k < n => k + 1 \in P
  <2> SUFFICES ASSUME NEW k \in 1..n, k \in P, k < n PROVE k + 1 \in P
    OBVIOUS
  <2>1. k + 1 \in 0..n /\ k + 1 \in 1..n /\ k + 1 # 0 /\ (k + 1) - 1 = k /\ k \in 1..n - 1
        /\ k \in 0..n
    BY <1>1
  <2>2. g[k + 1] = g[k] + Size(m[k + 1])
    BY <1>4, <2>1
  <2>3. g[k] \in Int /\ Size(m[k + 1]) = m[k + 1].to - m[k + 1].from
        /\ m[k + 1].from = m[k].to + 1
    BY <1>2, <1>3, <1>5, <2>1
  <2>4. m[k + 1].to \in Nat /\ m[k + 1].from \in Nat /\ m[k].to \in Nat /\ m[1].from \in Nat
    BY <1>1, <2>1
  <2>5. g[k] + k - 1 = m[k].to - m[1].from
    OBVIOUS
  <2> HIDE DEF P
  <2>6. g[k + 1] + (k + 1) - 1 = m[k + 1].to - m[1].from
    BY <2>1, <2>2, <2>3, <2>4, <2>5
  <2> QED
    BY <2>1, <2>6 DEF P
<1> HIDE DEF P
<1>8. \A k \in 1..n : k \in P
  BY <1>1, <1>6, <1>7, IntervalInduction
<1>9. n \in P
  BY <1>1, <1>8
<1> QED
  BY <1>2, <1>9 DEF P, n

Chunk == [holds : SUBSET Nat, start : Nat, end : Nat]

Span(m) == m[1].from..m[Len(m)].to - 1

\* Chunks in order, of the length a model takes, what two of them share being the
\* overlap of two next to each other.
InChunks(cs) ==
    /\ Len(cs) \in Nat /\ cs \in [1..Len(cs) -> Chunk]
    /\ \A k \in 1..Len(cs) : cs[k].holds # {} /\ cs[k].end - cs[k].start \in 1..MaxSize
    /\ \A k \in 1..Len(cs) - 1 : cs[k].start < cs[k + 1].start
    /\ \A j \in 1..Len(cs), k \in 1..Len(cs) :
           j < k => Cardinality(cs[j].holds \cap cs[k].holds)
                    <= IF k = j + 1 THEN Overlap ELSE 0

\* The chunk has the interval of the text that its offsets, counted from p, tell.
Tells(c, m, p) ==
    /\ Min(c.holds) = m[1].from + (c.start - p)
    /\ Max(c.holds) + 1 - Min(c.holds) = c.end - c.start

\* The chunks of m when it is placed at p.
ChunksOf(cs, m, p) ==
    /\ InChunks(cs) /\ Len(cs) >= 1
    /\ \A k \in 1..Len(cs) : /\ cs[k].holds \subseteq Span(m)
                             /\ p <= cs[k].start /\ cs[k].start < p + Joined(m)
    /\ \A i \in 1..Len(m) : Held(m[i]) \subseteq UNION {cs[k].holds : k \in 1..Len(cs)}
    /\ Contiguous(m) => \A k \in 1..Len(cs) : Tells(cs[k], m, p)

LEMMA ChunkOfShort ==
    ASSUME NEW m, InOrder(m), NEW p \in Nat, Joined(m) <= MaxSize
    PROVE  ChunksOf(ChunksAt(m, p), m, p)
<1> DEFINE n == Len(m)
           H == UNION {Held(m[k]) : k \in DOMAIN m}
           c == [holds |-> H, start |-> p, end |-> p + Joined(m)]
           cs == <<c>>
<1>1. ChunksAt(m, p) = cs
  BY DEF ChunksAt
<1>2. /\ n \in Nat \ {0} /\ 1 \in 1..n /\ n \in 1..n /\ DOMAIN m = 1..n
      /\ \A k \in 1..n : m[k].from < m[k].to /\ m[k].from \in Nat /\ m[k].to \in Nat
  BY OrderFacts
<1>3. Joined(m) \in Nat \ {0}
  BY JoinedPositive
<1>4. \A k \in 1..n : Held(m[k]) = m[k].from..m[k].to - 1
  BY DEF Held
<1>5. \A k \in 1..n : m[1].from <= m[k].from /\ m[k].to <= m[n].to
  <2> SUFFICES ASSUME NEW k \in 1..n PROVE m[1].from <= m[k].from /\ m[k].to <= m[n].to
    OBVIOUS
  <2>1. k \in 1..n /\ n \in k..n
    BY <1>2
  <2> QED
    BY <1>2, <2>1, OrderBounds
<1>6. H = UNION {Held(m[k]) : k \in 1..n}
  BY <1>2
<1> HIDE DEF H
<1>7. H \subseteq Span(m)
  <2> SUFFICES ASSUME NEW x \in H PROVE x \in Span(m)
    OBVIOUS
  <2>1. PICK k \in 1..n : x \in Held(m[k])
    BY <1>6
  <2> QED
    BY <1>2, <1>4, <1>5, <2>1 DEF Span
<1>8. H \subseteq Nat
  BY <1>2, <1>7 DEF Span
<1>9. m[1].from \in H /\ m[n].to - 1 \in H
  <2>1. m[1].from \in Held(m[1]) /\ m[n].to - 1 \in Held(m[n])
    BY <1>2, <1>4
  <2> QED
    BY <1>2, <1>6, <2>1
<1>10. c \in Chunk
  BY <1>3, <1>8 DEF Chunk
<1>11. c.holds = H /\ c.start = p /\ c.end = p + Joined(m)
  OBVIOUS
<1>12. c.end - c.start \in 1..MaxSize
  BY <1>3, <1>11, SizeAssumption
<1>13. Contiguous(m) => Tells(c, m, p)
  <2> SUFFICES ASSUME Contiguous(m) PROVE Tells(c, m, p)
    OBVIOUS
  <2>1. Joined(m) = m[n].to - m[1].from
    BY JoinedContiguous
  <2>2. Min(H) = m[1].from
    <3>1. \A y \in H : m[1].from <= y
      BY <1>2, <1>7 DEF Span
    <3>2. H \in SUBSET Int /\ m[1].from \in H
      BY <1>8, <1>9
    <3> QED
      BY <3>1, <3>2, MinIs
  <2>3. Max(H) = m[n].to - 1
    <3>1. \A y \in H : m[n].to - 1 >= y
      BY <1>2, <1>7 DEF Span
    <3>2. H \in SUBSET Int /\ m[n].to - 1 \in H
      BY <1>8, <1>9
    <3> QED
      BY <3>1, <3>2, MaxIs
  <2> HIDE DEF c
  <2>4. m[1].from + (c.start - p) = m[1].from
        /\ (m[n].to - 1) + 1 - m[1].from = c.end - c.start
    <3> DEFINE f == m[1].from
               e == m[n].to
               J == Joined(m)
    <3>1. f \in Nat /\ e \in Nat /\ J \in Nat /\ J = e - f
      BY <1>2, <1>3, <2>1
    <3>2. c.start = p /\ c.end = p + J
      BY <1>11
    <3> HIDE DEF f, e, J
    <3>3. f + (c.start - p) = f /\ (e - 1) + 1 - f = c.end - c.start
      BY <3>1, <3>2
    <3> QED
      BY <3>3 DEF f, e
  <2> QED
    BY <1>11, <2>2, <2>3, <2>4 DEF Tells
<1> HIDE DEF c
<1>14. Len(cs) = 1 /\ cs \in [1..1 -> Chunk] /\ cs[1] = c
  BY <1>10
<1> HIDE DEF cs
<1>15. InChunks(cs)
  <2>1. \A k \in 1..1 : k = 1
    OBVIOUS
  <2>2. \A j \in 1..1, k \in 1..1 : ~(j < k)
    OBVIOUS
  <2>3. 1..1 - 1 = {}
    OBVIOUS
  <2> QED
    BY <1>9, <1>11, <1>12, <1>14, <2>1, <2>2, <2>3 DEF InChunks
<1>16. \A k \in 1..Len(cs) : cs[k] = c
  BY <1>14
<1>17. \A i \in 1..Len(m) : Held(m[i]) \subseteq UNION {cs[k].holds : k \in 1..Len(cs)}
  <2>1. UNION {cs[k].holds : k \in 1..Len(cs)} = H
    <3>1. \A k \in 1..Len(cs) : cs[k].holds = H
      BY <1>11, <1>16
    <3>2. 1 \in 1..Len(cs)
      BY <1>14
    <3> QED
      BY <3>1, <3>2
  <2> QED
    BY <1>6, <2>1 DEF n
<1>18. p <= c.start /\ c.start < p + Joined(m)
  BY <1>3, <1>11
<1>19. Len(cs) >= 1
  BY <1>14
<1>20. ChunksOf(cs, m, p)
  BY <1>7, <1>11, <1>13, <1>15, <1>16, <1>17, <1>18, <1>19 DEF ChunksOf
<1> QED
  BY <1>1, <1>20

LEMMA ChunksOfLong ==
    ASSUME NEW m, InOrder(m), Len(m) = 1, NEW p \in Nat, Joined(m) > MaxSize
    PROVE  ChunksOf(ChunksAt(m, p), m, p)
<1> DEFINE size == Joined(m)
           w == SlidingWindow(size)
           F == m[1].from
           E == m[1].to
           cs == ChunksAt(m, p)
<1>1. /\ size \in Nat \ {0} /\ MaxSize \in Nat /\ Overlap \in Nat \ {0} /\ 2 <= MaxSize
  BY JoinedPositive, SizeAssumption
<1>2. /\ F \in Nat /\ E \in Nat /\ F < E /\ m[1] \in Segment /\ m[1].plus \in 0..1
      /\ Held(m[1]) = F..E - 1 /\ Span(m) = F..E - 1
  BY OrderFacts DEF Held, Span
<1>3. size = E - F + m[1].plus
  <2>1. m = <<m[1]>>
    BY OrderFacts
  <2>2. size = Size(m[1])
    BY <1>2, <2>1, JoinedOne
  <2> QED
    BY <2>2 DEF Size
<1>4. WindowsOver(w, size)
  <2>1. size \in Nat /\ size > MaxSize
    BY <1>1
  <2> QED
    BY <2>1, WindowsAreOver
<1> DEFINE N == Len(w)
<1>5. N \in Nat \ {0} /\ DOMAIN w = 1..N /\ w[1].from = 0 /\ w[N].to = size
  BY <1>4 DEF WindowsOver
<1>6. \A k \in 1..N : /\ w[k].from \in Nat /\ w[k].to \in Nat
                      /\ w[k].from < w[k].to /\ w[k].to <= size
                      /\ w[k].to - w[k].from <= MaxSize
  BY <1>4 DEF WindowsOver
<1>7. \A k \in 1..N - 1 : /\ w[k + 1].from = w[k].to - Overlap
                          /\ w[k].from < w[k + 1].from /\ w[k].to < size
  BY <1>4 DEF WindowsOver
<1>8. \A j \in 1..N, k \in 1..N : j + 1 < k => w[j].to <= w[k].from
  BY <1>4 DEF WindowsOver
<1>9. \A x \in 0..size - 1 : \E k \in 1..N : x \in w[k].from..w[k].to - 1
  BY <1>4 DEF WindowsOver
<1>10. cs = [k \in 1..N |->
               [holds |-> (F + w[k].from..F + w[k].to - 1) \cap (F..E - 1),
                start |-> p + w[k].from, end |-> p + w[k].to]]
  <2>1. ~(Joined(m) <= MaxSize)
    BY <1>1
  <2>2. cs = [k \in DOMAIN w |->
                [holds |-> (m[1].from + w[k].from..m[1].from + w[k].to - 1) \cap Held(m[1]),
                 start |-> p + w[k].from, end |-> p + w[k].to]]
    BY <2>1 DEF ChunksAt
  <2> HIDE DEF cs, w, N
  <2> QED
    BY <1>2, <1>5, <2>2
<1> HIDE DEF cs, w, N, size, F, E
<1>11. DOMAIN cs = 1..N /\ Len(cs) = N
  BY <1>5, <1>10
<1>12. \A k \in 1..N : /\ cs[k].holds = (F + w[k].from..F + w[k].to - 1) \cap (F..E - 1)
                       /\ cs[k].start = p + w[k].from /\ cs[k].end = p + w[k].to
  BY <1>10
<1>13. ASSUME NEW k \in 1..N
       PROVE  F + w[k].from \in cs[k].holds /\ w[k].from <= E - F - 1
  <2>1. w[k].from + 2 <= size
    <3>1. CASE k \in 1..N - 1
      BY <1>1, <1>6, <1>7, <3>1
    <3>2. CASE k = N /\ N > 1
      <4>1. N - 1 \in 1..N - 1 /\ N - 1 \in 1..N /\ (N - 1) + 1 = N
        BY <1>5, <3>2
      <4>2. w[N].from = w[N - 1].to - Overlap /\ w[N - 1].to < size /\ w[N - 1].to \in Nat
        BY <1>6, <1>7, <4>1
      <4> QED
        BY <1>1, <1>6, <3>2, <4>2
    <3>3. CASE k = N /\ N = 1
      <4>1. size > MaxSize
        BY DEF size
      <4> QED
        BY <1>1, <1>5, <3>3, <4>1
    <3> QED
      BY <1>5, <3>1, <3>2, <3>3
  <2>2. w[k].from \in Nat /\ w[k].to \in Nat /\ w[k].from < w[k].to
    BY <1>6
  <2>3. w[k].from <= E - F - 1
    BY <1>1, <1>2, <1>3, <2>1, <2>2
  <2>4. F + w[k].from \in F + w[k].from..F + w[k].to - 1 /\ F + w[k].from \in F..E - 1
    BY <1>2, <2>2, <2>3
  <2> QED
    BY <1>12, <2>3, <2>4
<1>14. ASSUME NEW k \in 1..N PROVE cs[k] \in Chunk
  <2>1. cs[k].holds \subseteq Nat
    BY <1>2, <1>12
  <2>2. p + w[k].from \in Nat /\ p + w[k].to \in Nat
    BY <1>6
  <2>3. cs[k] = [holds |-> cs[k].holds, start |-> cs[k].start, end |-> cs[k].end]
    BY <1>10
  <2> QED
    BY <1>12, <2>1, <2>2, <2>3 DEF Chunk
<1>15. ASSUME NEW j \in 1..N, NEW k \in 1..N, j < k
       PROVE  Cardinality(cs[j].holds \cap cs[k].holds) <= IF k = j + 1 THEN Overlap ELSE 0
  <2> DEFINE S == cs[j].holds \cap cs[k].holds
  <2>1. /\ w[j].from \in Nat /\ w[j].to \in Nat /\ w[k].from \in Nat /\ w[k].to \in Nat
    BY <1>6
  <2>2. ASSUME NEW y \in S PROVE F + w[k].from <= y /\ y < F + w[j].to
    <3>1. y \in F + w[k].from..F + w[k].to - 1 /\ y \in F + w[j].from..F + w[j].to - 1
      BY <1>12
    <3> QED
      BY <1>2, <2>1, <3>1
  <2>3. S \subseteq F + w[k].from..(F + w[j].to) - 1
    <3>1. S \subseteq Nat
      BY <1>2, <1>12
    <3> HIDE DEF S
    <3> QED
      BY <1>2, <2>1, <2>2, <3>1
  <2> HIDE DEF S
  <2>4. CASE k = j + 1
    <3>1. w[k].from = w[j].to - Overlap
      <4>1. j \in 1..N - 1
        BY <1>5, <2>4
      <4> QED
        BY <1>7, <2>4, <4>1
    <3>2. F + w[k].from \in Int /\ F + w[j].to \in Int /\ F + w[k].from <= F + w[j].to
          /\ (F + w[j].to) - (F + w[k].from) = Overlap
      <4> DEFINE x == w[k].from
                 y == w[j].to
      <4>1. x \in Int /\ y \in Int /\ F \in Int /\ Overlap \in Nat /\ x = y - Overlap
        BY <1>1, <1>2, <2>1, <3>1
      <4> HIDE DEF x, y
      <4>2. F + x \in Int /\ F + y \in Int /\ F + x <= F + y /\ (F + y) - (F + x) = Overlap
        BY <4>1
      <4> QED
        BY <4>2 DEF x, y
    <3>3. Cardinality(S) <= (F + w[j].to) - (F + w[k].from)
      BY <2>3, <3>2, IntervalPart
    <3> QED
      BY <2>4, <3>2, <3>3 DEF S
  <2>5. CASE k # j + 1
    <3>1. w[j].to <= w[k].from
      BY <1>8, <1>15, <2>5
    <3>2. S = {}
      BY <1>2, <2>1, <2>2, <2>3, <3>1
    <3>3. Cardinality(S) = 0
      BY <3>2, FS_EmptySet
    <3> QED
      BY <2>5, <3>3 DEF S
  <2> QED
    BY <2>4, <2>5
<1>16. InChunks(cs)
  <2>1. \A k \in 1..N : cs[k].holds # {} /\ cs[k].end - cs[k].start \in 1..MaxSize
    <3> SUFFICES ASSUME NEW k \in 1..N
                 PROVE  cs[k].holds # {} /\ cs[k].end - cs[k].start \in 1..MaxSize
      OBVIOUS
    <3>1. w[k].from \in Nat /\ w[k].to \in Nat /\ w[k].from < w[k].to
          /\ w[k].to - w[k].from <= MaxSize
      BY <1>6
    <3>2. cs[k].start = p + w[k].from /\ cs[k].end = p + w[k].to
      BY <1>12
    <3> QED
      BY <1>1, <1>13, <3>1, <3>2
  <2>2. \A k \in 1..N - 1 : cs[k].start < cs[k + 1].start
    <3> SUFFICES ASSUME NEW k \in 1..N - 1 PROVE cs[k].start < cs[k + 1].start
      OBVIOUS
    <3>1. k \in 1..N /\ k + 1 \in 1..N
      BY <1>5
    <3>2. cs[k].start = p + w[k].from /\ cs[k + 1].start = p + w[k + 1].from
          /\ w[k].from \in Nat /\ w[k + 1].from \in Nat /\ w[k].from < w[k + 1].from
      BY <1>6, <1>7, <1>12, <3>1
    <3> QED
      BY <3>2
  <2>3. cs \in [1..N -> Chunk]
    <3>1. cs = [k \in 1..N |-> cs[k]]
      BY <1>10
    <3> QED
      BY <1>14, <3>1
  <2> QED
    BY <1>5, <1>11, <1>15, <2>1, <2>2, <2>3 DEF InChunks
<1>17. \A k \in 1..N : /\ cs[k].holds \subseteq Span(m)
                       /\ p <= cs[k].start /\ cs[k].start < p + size
  <2> SUFFICES ASSUME NEW k \in 1..N
               PROVE  /\ cs[k].holds \subseteq Span(m)
                      /\ p <= cs[k].start /\ cs[k].start < p + size
    OBVIOUS
  <2>1. w[k].from \in Nat /\ w[k].to \in Nat /\ w[k].from < w[k].to /\ w[k].to <= size
    BY <1>6
  <2>2. cs[k].start = p + w[k].from
    BY <1>12
  <2> QED
    BY <1>1, <1>2, <1>12, <2>1, <2>2
<1>18. Held(m[1]) \subseteq UNION {cs[k].holds : k \in 1..N}
  <2> SUFFICES ASSUME NEW y \in F..E - 1 PROVE \E k \in 1..N : y \in cs[k].holds
    BY <1>2
  <2>1. y - F \in 0..size - 1 /\ y \in Int
    BY <1>1, <1>2, <1>3
  <2>2. PICK k \in 1..N : y - F \in w[k].from..w[k].to - 1
    BY <1>9, <2>1
  <2>3. y \in F + w[k].from..F + w[k].to - 1
    BY <1>2, <1>6, <2>1, <2>2
  <2> QED
    BY <1>12, <2>3
<1>19. Contiguous(m) => \A k \in 1..N : Tells(cs[k], m, p)
  <2> SUFFICES ASSUME Contiguous(m), NEW k \in 1..N PROVE Tells(cs[k], m, p)
    OBVIOUS
  <2>1. size = E - F
    <3>1. m[1].plus = 0
      BY OrderFacts DEF Contiguous
    <3> QED
      BY <1>2, <1>3, <3>1
  <2>2. w[k].from \in Nat /\ w[k].to \in Nat /\ w[k].from < w[k].to /\ w[k].to <= size
    BY <1>6
  <2>3. cs[k].holds = F + w[k].from..F + w[k].to - 1
    <3>1. F + w[k].from..F + w[k].to - 1 \subseteq F..E - 1
      BY <1>2, <2>1, <2>2
    <3> QED
      BY <1>12, <3>1
  <2>4. Min(cs[k].holds) = F + w[k].from
    <3>1. cs[k].holds \in SUBSET Int /\ F + w[k].from \in cs[k].holds
          /\ \A y \in cs[k].holds : F + w[k].from <= y
      BY <1>2, <2>2, <2>3
    <3> QED
      BY <3>1, MinIs
  <2>5. Max(cs[k].holds) = F + w[k].to - 1
    <3>1. cs[k].holds \in SUBSET Int /\ F + w[k].to - 1 \in cs[k].holds
          /\ \A y \in cs[k].holds : F + w[k].to - 1 >= y
      BY <1>2, <2>2, <2>3
    <3> QED
      BY <3>1, MaxIs
  <2>6. cs[k].start = p + w[k].from /\ cs[k].end = p + w[k].to
    BY <1>12
  <2>7. F + w[k].from = F + (cs[k].start - p)
        /\ (F + w[k].to - 1) + 1 - (F + w[k].from) = cs[k].end - cs[k].start
    BY <1>2, <2>2, <2>6
  <2>8. /\ Min(cs[k].holds) = F + (cs[k].start - p)
        /\ Max(cs[k].holds) + 1 - Min(cs[k].holds) = cs[k].end - cs[k].start
    BY <2>4, <2>5, <2>7
  <2> QED
    BY <2>8 DEF Tells, F
<1>20. ChunksOf(cs, m, p)
  <2>1. \A i \in 1..Len(m) : Held(m[i]) \subseteq UNION {cs[k].holds : k \in 1..Len(cs)}
    <3>1. \A i \in 1..Len(m) : i = 1
      OBVIOUS
    <3> QED
      BY <1>11, <1>18, <3>1
  <2>2. Len(cs) >= 1
    BY <1>5, <1>11
  <2> QED
    BY <1>11, <1>16, <1>17, <1>19, <2>1, <2>2 DEF ChunksOf, size
<1> QED
  BY <1>20 DEF cs

LEMMA ChunksAtFor ==
    ASSUME NEW m, InOrder(m), NEW p \in Nat, Len(m) > 1 => Joined(m) <= MaxSize
    PROVE  ChunksOf(ChunksAt(m, p), m, p)
<1>1. Joined(m) \in Nat /\ MaxSize \in Nat /\ Len(m) \in Nat \ {0}
  BY JoinedPositive, OrderFacts, SizeAssumption
<1>2. CASE Joined(m) <= MaxSize
  BY <1>2, ChunkOfShort
<1>3. CASE ~(Joined(m) <= MaxSize)
  <2>1. ~(Len(m) > 1)
    BY <1>3
  <2>2. Len(m) = 1
    <3> DEFINE n == Len(m)
    <3>1. n \in Nat \ {0} /\ ~(n > 1)
      BY <1>1, <2>1
    <3> HIDE DEF n
    <3>2. n = 1
      BY <3>1
    <3> QED
      BY <3>2 DEF n
  <2>3. Joined(m) > MaxSize
    BY <1>1, <1>3
  <2> QED
    BY <2>2, <2>3, ChunksOfLong
<1> QED
  BY <1>2, <1>3

-----------------------------------------------------------------------------
\* All merged segments.

\* They follow each other, and only the last may have characters added.
Grouped(merged) ==
    /\ Len(merged) \in Nat \ {0} /\ DOMAIN merged = 1..Len(merged)
    /\ \A l \in 1..Len(merged) : /\ InOrder(merged[l]) /\ Len(merged[l]) <= MaxPieces
                                 /\ Len(merged[l]) > 1 => Joined(merged[l]) <= MaxSize
    /\ \A l \in 1..Len(merged) - 1 :
           /\ merged[l][Len(merged[l])].to <= merged[l + 1][1].from
           /\ merged[l][Len(merged[l])].plus = 0

LEMMA GroupsGrouped ==
    ASSUME NEW segs, InOrder(segs), Len(segs) <= MaxPieces, NEW merged, NEW bs,
           Groups(merged, bs, segs, Len(segs))
    PROVE  Grouped(merged)
<1>1. /\ Tiles(bs, 1, Len(segs)) /\ merged \in Seq(Seq(Segment)) /\ Len(merged) = Len(bs)
      /\ \A l \in 1..Len(bs) : IsGroup(merged[l], segs, bs[l])
  BY DEF Groups
<1>2. /\ Len(bs) \in Nat \ {0}
      /\ \A k \in 1..Len(bs) : /\ bs[k][1] \in 1..Len(segs) /\ bs[k][2] \in bs[k][1]..Len(segs)
      /\ \A k \in 1..Len(bs) - 1 : bs[k + 1][1] = bs[k][2] + 1
  <2>1. /\ Len(bs) \in Nat \ {0} /\ \A k \in 1..Len(bs) - 1 : bs[k + 1][1] = bs[k][2] + 1
    BY <1>1 DEF Tiles
  <2>2. ASSUME NEW k \in 1..Len(bs)
        PROVE  bs[k][1] \in 1..Len(segs) /\ bs[k][2] \in bs[k][1]..Len(segs)
    <3>1. bs[k][1] \in 1..Len(segs) /\ bs[k][2] \in 1..Len(segs)
      BY <1>1, TilesBounds
    <3>2. bs[k][1] <= bs[k][2]
      BY <1>1 DEF Tiles
    <3> QED
      BY <3>1, <3>2
  <2> QED
    BY <2>1, <2>2
<1> DEFINE N == Len(merged)
<1>3. N \in Nat \ {0} /\ DOMAIN merged = 1..N /\ N = Len(bs)
  BY <1>1, <1>2
<1> HIDE DEF N
<1>4. ASSUME NEW l \in 1..N
      PROVE  /\ InOrder(merged[l]) /\ Len(merged[l]) <= MaxPieces
             /\ Len(merged[l]) > 1 => Joined(merged[l]) <= MaxSize
             /\ merged[l][1] = segs[bs[l][1]]
             /\ merged[l][Len(merged[l])] = segs[bs[l][2]]
  <2>1. IsGroup(merged[l], segs, bs[l])
        /\ bs[l][1] \in 1..Len(segs) /\ bs[l][2] \in bs[l][1]..Len(segs)
    BY <1>1, <1>2, <1>3
  <2>2. /\ InOrder(merged[l]) /\ Len(merged[l]) <= Len(segs)
        /\ merged[l][1] = segs[bs[l][1]]
        /\ merged[l][Len(merged[l])] = segs[bs[l][2]]
    BY <2>1, GroupInOrder
  <2>3. Len(merged[l]) \in Nat /\ Len(segs) \in Nat /\ MaxPieces \in Nat
    BY <2>2, OrderFacts, PieceAssumption
  <2>4. Len(merged[l]) > 1 => Joined(merged[l]) <= MaxSize
    BY <2>1 DEF IsGroup
  <2>5. Len(merged[l]) <= MaxPieces
    BY <2>2, <2>3
  <2> QED
    BY <2>2, <2>4, <2>5
<1>5. ASSUME NEW l \in 1..N - 1
      PROVE  /\ merged[l][Len(merged[l])].to <= merged[l + 1][1].from
             /\ merged[l][Len(merged[l])].plus = 0
  <2>1. l \in 1..N /\ l + 1 \in 1..N /\ l \in 1..Len(bs) - 1
    BY <1>3
  <2>2. merged[l][Len(merged[l])] = segs[bs[l][2]] /\ merged[l + 1][1] = segs[bs[l + 1][1]]
    BY <1>4, <2>1
  <2>3. /\ bs[l + 1][1] = bs[l][2] + 1 /\ bs[l + 1][1] \in 1..Len(segs)
        /\ bs[l][1] \in 1..Len(segs) /\ bs[l][2] \in bs[l][1]..Len(segs)
    BY <1>2, <1>3, <2>1
  <2> DEFINE i == bs[l][2]
  <2>4. i \in 1..Len(segs) - 1 /\ bs[l + 1][1] = i + 1
    BY <2>3
  <2> HIDE DEF i
  <2>5. segs[i].to <= segs[i + 1].from /\ segs[i].plus = 0
    BY <2>4 DEF InOrder
  <2>6. merged[l][Len(merged[l])] = segs[i] /\ merged[l + 1][1] = segs[i + 1]
    BY <2>2, <2>4 DEF i
  <2> QED
    BY <2>5, <2>6
<1> QED
  BY <1>3, <1>4, <1>5 DEF Grouped, N

\* The joins that Added counts.
Adds(merged, n) ==
    {j \in (1..n) \X (1..MaxPieces) :
        /\ j[2] < Len(merged[j[1]])
        /\ merged[j[1]][j[2] + 1].from = merged[j[1]][j[2]].to}

LEMMA AddsFinite ==
    ASSUME NEW merged, NEW n \in Nat
    PROVE  /\ IsFiniteSet(Adds(merged, n)) /\ Added(merged, n) = Cardinality(Adds(merged, n))
           /\ Added(merged, n) \in Nat
<1>1. IsFiniteSet(1..n) /\ IsFiniteSet(1..MaxPieces)
  BY PieceAssumption, FS_Interval
<1>2. IsFiniteSet((1..n) \X (1..MaxPieces))
  BY <1>1, FS_Product
<1>3. Adds(merged, n) \subseteq (1..n) \X (1..MaxPieces)
  BY DEF Adds
<1>4. IsFiniteSet(Adds(merged, n))
  BY <1>2, <1>3, FS_Subset
<1>5. Cardinality(Adds(merged, n)) \in Nat
  BY <1>4, FS_CardinalityType
<1>6. Added(merged, n) = Cardinality(Adds(merged, n))
  BY DEF Added, Adds
<1> QED
  BY <1>4, <1>5, <1>6

LEMMA OneMoreIn ==
    ASSUME NEW S, IsFiniteSet(S), NEW T \in SUBSET S, NEW x \in S, x \notin T
    PROVE  Cardinality(T) + 1 <= Cardinality(S) /\ Cardinality(T) \in Nat
           /\ Cardinality(S) \in Nat
<1>1. IsFiniteSet(T)
  BY FS_Subset
<1>2. IsFiniteSet(T \cup {x}) /\ Cardinality(T \cup {x}) = Cardinality(T) + 1
  BY <1>1, FS_AddElement
<1>3. T \cup {x} \subseteq S
  OBVIOUS
<1>4. Cardinality(T \cup {x}) <= Cardinality(S)
  BY <1>3, FS_Subset
<1>5. Cardinality(T) \in Nat /\ Cardinality(S) \in Nat
  BY <1>1, FS_CardinalityType
<1> QED
  BY <1>2, <1>4, <1>5

LEMMA OneLonger ==
    ASSUME NEW g \in Int, NEW c \in Int, NEW from \in Int, NEW to \in Int,
           NEW next \in Int, NEW end \in Int, NEW plus \in Int, NEW a \in Int, NEW b \in Int,
           g + c <= to - from + a, to <= next,
           a + (IF next = to THEN 1 ELSE 0) <= b
    PROVE  (g + (end - next + plus) + 1) + c <= end - from + plus + b
<1>1. CASE next = to
  BY <1>1
<1>2. CASE next # to
  <2>1. to + 1 <= next /\ a <= b
    BY <1>2
  <2> QED
    BY <2>1
<1> QED
  BY <1>1, <1>2

\* A merged segment is longer than its place in the text by the line breaks added to
\* it, and the character added to the last.
LEMMA JoinedReach ==
    ASSUME NEW merged, Grouped(merged), NEW n \in Nat, n < Len(merged)
    PROVE  LET m == merged[n + 1] IN
           Joined(m) + Added(merged, n)
           <= m[Len(m)].to - m[1].from + m[Len(m)].plus + Added(merged, n + 1)
<1> DEFINE m == merged[n + 1]
           L == Len(m)
           A(k) == {j \in Adds(merged, n + 1) : j[1] <= n \/ j[2] < k}
<1>1. InOrder(m) /\ L <= MaxPieces /\ n + 1 \in Nat /\ MaxPieces \in Nat
  <2>1. n + 1 \in 1..Len(merged)
    BY DEF Grouped
  <2> QED
    BY <2>1, PieceAssumption DEF Grouped
<1>2. /\ m \in Seq(Segment) /\ L \in Nat \ {0} /\ L \in Int /\ 1 \in Int
      /\ 1 \in 1..L /\ L \in 1..L
      /\ \A k \in 1..L : m[k].from \in Nat /\ m[k].to \in Nat /\ m[k].plus \in 0..1
      /\ \A k \in 1..L - 1 : m[k].to <= m[k + 1].from /\ m[k].plus = 0
  <2> HIDE DEF m
  <2>1. /\ m \in Seq(Segment) /\ L \in Nat \ {0} /\ 1 \in 1..L /\ L \in 1..L
        /\ \A k \in 1..L : m[k].from \in Nat /\ m[k].to \in Nat /\ m[k].plus \in 0..1
        /\ \A k \in 1..L - 1 : m[k].to <= m[k + 1].from /\ m[k].plus = 0
    BY <1>1, OrderFacts
  <2> HIDE DEF L
  <2> QED
    BY <2>1
<1>3. PICK g : IsSizes(g, m) /\ g \in [0..L -> Int] /\ Joined(m) = g[L] + L - 1
  BY <1>2, JoinedSizes
<1>4. \A k \in 1..L : Size(m[k]) = m[k].to - m[k].from + m[k].plus
  BY DEF Size
<1>5. \A k \in 0..L : g[k] = IF k = 0 THEN 0 ELSE g[k - 1] + Size(m[k])
  BY <1>3 DEF IsSizes
<1> DEFINE B == Adds(merged, n + 1)
           c == Added(merged, n)
<1>6. IsFiniteSet(B) /\ Added(merged, n + 1) = Cardinality(B) /\ Cardinality(B) \in Nat
  BY <1>1, AddsFinite
<1>7. c \in Nat /\ c = Cardinality(Adds(merged, n))
  BY AddsFinite
<1>8. ASSUME NEW j \in B
      PROVE  j[1] \in 1..n + 1 /\ j[2] \in 1..MaxPieces /\ j = <<j[1], j[2]>>
             /\ j[2] < Len(merged[j[1]])
             /\ merged[j[1]][j[2] + 1].from = merged[j[1]][j[2]].to
  BY DEF Adds
<1>9. A(1) = Adds(merged, n)
  <2>1. ASSUME NEW j \in Adds(merged, n) PROVE j \in A(1)
    <3>1. j \in (1..n) \X (1..MaxPieces) /\ j[2] < Len(merged[j[1]])
          /\ merged[j[1]][j[2] + 1].from = merged[j[1]][j[2]].to
      BY DEF Adds
    <3>2. j[1] <= n /\ j \in (1..n + 1) \X (1..MaxPieces)
      BY <3>1
    <3> QED
      BY <3>1, <3>2 DEF Adds
  <2>2. ASSUME NEW j \in A(1) PROVE j \in Adds(merged, n)
    <3>1. j[1] \in 1..n + 1 /\ j[2] \in 1..MaxPieces /\ j = <<j[1], j[2]>>
          /\ j[2] < Len(merged[j[1]])
          /\ merged[j[1]][j[2] + 1].from = merged[j[1]][j[2]].to
      BY <1>8
    <3>2. j[1] <= n
      BY <3>1
    <3>3. j \in (1..n) \X (1..MaxPieces)
      <4>1. j[1] \in 1..n
        BY <3>1, <3>2
      <4> QED
        BY <3>1, <4>1
    <3> QED
      BY <3>1, <3>3 DEF Adds
  <2> QED
    BY <2>1, <2>2
<1>10. \A k \in 1..L : IsFiniteSet(A(k)) /\ A(k) \subseteq B /\ Cardinality(A(k)) \in Nat
                       /\ Cardinality(A(k)) <= Cardinality(B)
  <2> SUFFICES ASSUME NEW k \in 1..L
               PROVE  IsFiniteSet(A(k)) /\ A(k) \subseteq B /\ Cardinality(A(k)) \in Nat
                      /\ Cardinality(A(k)) <= Cardinality(B)
    OBVIOUS
  <2>1. A(k) \subseteq B
    OBVIOUS
  <2> HIDE DEF A, B
  <2>2. IsFiniteSet(A(k)) /\ Cardinality(A(k)) <= Cardinality(B)
    BY <1>6, <2>1, FS_Subset
  <2> QED
    BY <2>1, <2>2, FS_CardinalityType
<1>11. \A k \in 1..L - 1 :
           Cardinality(A(k)) + (IF m[k + 1].from = m[k].to THEN 1 ELSE 0)
           <= Cardinality(A(k + 1))
  <2> SUFFICES ASSUME NEW k \in 1..L - 1
               PROVE  Cardinality(A(k)) + (IF m[k + 1].from = m[k].to THEN 1 ELSE 0)
                      <= Cardinality(A(k + 1))
    OBVIOUS
  <2>1. k \in 1..L /\ k + 1 \in 1..L /\ k < k + 1
    BY <1>2
  <2>2. A(k) \subseteq A(k + 1)
    <3> SUFFICES ASSUME NEW j \in B, j[1] <= n \/ j[2] < k PROVE j[1] <= n \/ j[2] < k + 1
      OBVIOUS
    <3>1. j[2] \in Nat
      BY <1>8
    <3> QED
      BY <2>1, <3>1
  <2>3. CASE m[k + 1].from = m[k].to
    <3> DEFINE j == <<n + 1, k>>
    <3>1. j[1] = n + 1 /\ j[2] = k
      OBVIOUS
    <3>2. j \in (1..n + 1) \X (1..MaxPieces)
      BY <1>1, <1>2, <2>1
    <3> HIDE DEF j
    <3>3. j \in B
      <4>1. k < Len(merged[n + 1])
        BY <1>2
      <4> QED
        BY <2>3, <3>1, <3>2, <4>1 DEF Adds
    <3>4. j \in A(k + 1) /\ j \notin A(k)
      BY <2>1, <3>1, <3>3
    <3> HIDE DEF A
    <3>5. IsFiniteSet(A(k + 1))
      BY <1>10, <2>1
    <3>6. Cardinality(A(k)) + 1 <= Cardinality(A(k + 1))
      BY <2>2, <3>4, <3>5, OneMoreIn
    <3> QED
      BY <2>3, <3>6
  <2>4. CASE m[k + 1].from # m[k].to
    <3> HIDE DEF A
    <3>1. IsFiniteSet(A(k + 1)) /\ Cardinality(A(k)) \in Nat
      BY <1>10, <2>1
    <3>2. Cardinality(A(k)) <= Cardinality(A(k + 1))
      BY <2>2, <3>1, FS_Subset
    <3> QED
      BY <2>4, <3>1, <3>2
  <2> QED
    BY <2>3, <2>4
<1> HIDE DEF m, L, A, B, c
<1> DEFINE P == {k \in 1..L : g[k] + k - 1 + c
                              <= m[k].to - m[1].from + m[k].plus + Cardinality(A(k))}
<1>12. 1 <= L => 1 \in P
  <2>1. 1 \in 1..L /\ 0 \in 0..L /\ 1 \in 0..L /\ 1 - 1 = 0 /\ 1 # 0
    BY <1>2
  <2>2. g[0] = 0 /\ g[1] = g[0] + Size(m[1])
    BY <1>5, <2>1
  <2>3. Size(m[1]) = m[1].to - m[1].from + m[1].plus /\ m[1].to \in Nat /\ m[1].from \in Nat
        /\ m[1].plus \in 0..1
    BY <1>2, <1>4, <2>1
  <2>4. Cardinality(A(1)) = c
    BY <1>7, <1>9
  <2> QED
    BY <1>7, <2>1, <2>2, <2>3, <2>4
<1>13. \A k \in 1..L : k \in P /\ k < L => k + 1 \in P
  <2> SUFFICES ASSUME NEW k \in 1..L, k \in P, k < L PROVE k + 1 \in P
    OBVIOUS
  <2>1. k + 1 \in 0..L /\ k + 1 \in 1..L /\ k + 1 # 0 /\ (k + 1) - 1 = k /\ k \in 1..L - 1
        /\ k \in 0..L
    BY <1>2
  <2>2. g[k + 1] = g[k] + Size(m[k + 1]) /\ g[k] \in Int
    BY <1>3, <1>5, <2>1
  <2>3. /\ Size(m[k + 1]) = m[k + 1].to - m[k + 1].from + m[k + 1].plus
        /\ m[k].to <= m[k + 1].from /\ m[k].plus = 0
        /\ m[k + 1].to \in Nat /\ m[k + 1].from \in Nat /\ m[k + 1].plus \in 0..1
        /\ m[k].to \in Nat /\ m[1].from \in Nat
    BY <1>2, <1>4, <2>1
  <2>4. /\ Cardinality(A(k)) + (IF m[k + 1].from = m[k].to THEN 1 ELSE 0)
           <= Cardinality(A(k + 1))
        /\ Cardinality(A(k)) \in Nat /\ Cardinality(A(k + 1)) \in Nat
    BY <1>10, <1>11, <2>1
  <2>5. g[k] + k - 1 + c <= m[k].to - m[1].from + m[k].plus + Cardinality(A(k))
    OBVIOUS
  <2> HIDE DEF P
  <2>6. g[k + 1] + (k + 1) - 1 + c
        <= m[k + 1].to - m[1].from + m[k + 1].plus + Cardinality(A(k + 1))
    <3> DEFINE x == g[k] + k - 1
               a == Cardinality(A(k))
               d == Cardinality(A(k + 1))
               s == m[k + 1]
    <3>1. x \in Int /\ c \in Int /\ a \in Int /\ d \in Int /\ m[1].from \in Int
          /\ m[k].to \in Int /\ s.from \in Int /\ s.to \in Int /\ s.plus \in Int
      <4>1. k \in Int /\ g[k] \in Int
        BY <1>2, <2>2
      <4>2. x \in Int
        BY <4>1
      <4> HIDE DEF x
      <4>3. m[1].from \in Int /\ m[k].to \in Int
        BY <2>3
      <4>4. s.from \in Int /\ s.to \in Int /\ s.plus \in Int
        BY <2>3
      <4>5. a \in Int /\ d \in Int
        BY <2>4
      <4> QED
        BY <1>7, <4>2, <4>3, <4>4, <4>5
    <3>2. x + c <= m[k].to - m[1].from + a
      <4> HIDE DEF a
      <4>1. x + c <= m[k].to - m[1].from + 0 + a
        BY <2>3, <2>5 DEF a
      <4> HIDE DEF x
      <4> QED
        BY <2>3, <3>1, <4>1
    <3>3. m[k].to <= s.from /\ a + (IF s.from = m[k].to THEN 1 ELSE 0) <= d
      BY <2>3, <2>4
    <3>4. g[k + 1] + (k + 1) - 1 + c = (x + (s.to - s.from + s.plus) + 1) + c
      <4> DEFINE h == g[k]
                 z == Size(m[k + 1])
      <4>1. z = s.to - s.from + s.plus /\ g[k + 1] = h + z /\ h \in Int
        BY <2>2, <2>3
      <4>2. z \in Int /\ k \in Int /\ c \in Int
        <5>1. k \in Int
          BY <2>1
        <5> HIDE DEF x, a, d, s, z
        <5>2. z \in Int /\ c \in Int
          BY ONLY <3>1, <4>1
        <5> QED
          BY <5>1, <5>2
      <4>3. x = h + k - 1
        OBVIOUS
      <4> HIDE DEF x, h, z, s
      <4>4. (h + z) + (k + 1) - 1 + c = (x + z + 1) + c
        BY ONLY <4>1, <4>2, <4>3
      <4> QED
        BY <4>1, <4>4
    <3> HIDE DEF x, a, d, s
    <3>5. (x + (s.to - s.from + s.plus) + 1) + c <= s.to - m[1].from + s.plus + d
      BY <3>1, <3>2, <3>3, OneLonger
    <3> QED
      BY <3>4, <3>5 DEF d, s
  <2> QED
    BY <2>1, <2>6 DEF P
<1> HIDE DEF P
<1>14. \A k \in 1..L : k \in P
  BY <1>2, <1>12, <1>13, IntervalInduction
<1>15. L \in P /\ Cardinality(A(L)) <= Cardinality(B) /\ Cardinality(A(L)) \in Nat
  BY <1>2, <1>10, <1>14
<1>16. g[L] \in Int /\ m[L].to \in Nat /\ m[1].from \in Nat /\ m[L].plus \in 0..1
  BY <1>2, <1>3
<1>17. g[L] + L - 1 + c <= m[L].to - m[1].from + m[L].plus + Cardinality(A(L))
  BY <1>15 DEF P
<1>18. Joined(m) + c <= m[L].to - m[1].from + m[L].plus + Cardinality(B)
  <2> DEFINE a == Cardinality(A(L))
             b == Cardinality(B)
             x == g[L]
             s == m[L]
  <2>1. a \in Int /\ b \in Int /\ x \in Int /\ s.to \in Int /\ s.plus \in Int
        /\ m[1].from \in Int /\ L \in Int /\ c \in Int /\ a <= b
    BY <1>2, <1>6, <1>7, <1>15, <1>16
  <2>3. x + L - 1 + c <= s.to - m[1].from + s.plus + a
    BY <1>17
  <2>4. Joined(m) = x + L - 1
    BY <1>3
  <2> HIDE DEF a, b, x, s
  <2>2. Joined(m) + c <= s.to - m[1].from + s.plus + b
    BY <2>1, <2>3, <2>4
  <2> QED
    BY <2>2 DEF b, s
<1> QED
  BY <1>6, <1>18 DEF c, m, L

LEMMA GroupSpan ==
    ASSUME NEW m, InOrder(m)
    PROVE  /\ m[1].from \in Nat /\ m[Len(m)].to \in Nat /\ m[1].from < m[Len(m)].to
           /\ m[Len(m)].plus \in 0..1
<1>1. /\ Len(m) \in Nat \ {0} /\ 1 \in 1..Len(m) /\ Len(m) \in 1..Len(m)
      /\ \A k \in 1..Len(m) : /\ m[k].from < m[k].to /\ m[k].from \in Nat /\ m[k].to \in Nat
                              /\ m[k].plus \in 0..1
  BY OrderFacts
<1>2. m[1].to <= m[Len(m)].to
  BY <1>1, OrderBounds
<1> QED
  BY <1>1, <1>2

LEMMA GroupsFollow ==
    ASSUME NEW merged, Grouped(merged), NEW j \in 1..Len(merged)
    PROVE  \A k \in j..Len(merged) :
               j < k => merged[j][Len(merged[j])].to <= merged[k][1].from
<1> DEFINE N == Len(merged)
           first(k) == merged[k][1].from
           end(k) == merged[k][Len(merged[k])].to
           P == {k \in j..N : j < k => end(j) <= first(k)}
<1>1. N \in Nat \ {0} /\ N \in Int /\ j \in Int /\ j \in 1..N
  BY DEF Grouped
<1>2. \A k \in 1..N : first(k) \in Nat /\ end(k) \in Nat /\ first(k) < end(k)
  <2> SUFFICES ASSUME NEW k \in 1..N
               PROVE  first(k) \in Nat /\ end(k) \in Nat /\ first(k) < end(k)
    OBVIOUS
  <2>1. InOrder(merged[k])
    BY DEF Grouped
  <2> QED
    BY <2>1, GroupSpan
<1>3. \A k \in 1..N - 1 : end(k) <= first(k + 1)
  BY DEF Grouped
<1> HIDE DEF N, first, end
<1>4. j <= N => j \in P
  BY <1>1
<1>5. \A k \in j..N : k \in P /\ k < N => k + 1 \in P
  <2> SUFFICES ASSUME NEW k \in j..N, k \in P, k < N PROVE k + 1 \in P
    OBVIOUS
  <2>1. k \in 1..N - 1 /\ k \in 1..N /\ k + 1 \in 1..N /\ k + 1 \in j..N
    BY <1>1
  <2>2. end(k) <= first(k + 1) /\ first(k) < end(k) /\ first(k) \in Nat /\ end(k) \in Nat
        /\ first(k + 1) \in Nat /\ end(j) \in Nat
    BY <1>1, <1>2, <1>3, <2>1
  <2>3. end(j) <= first(k + 1)
    <3>1. CASE j = k
      BY <2>2, <3>1
    <3>2. CASE j # k
      <4>1. j < k
        BY <1>1, <3>2
      <4>2. end(j) <= first(k)
        BY <4>1
      <4> QED
        BY <2>2, <4>2
    <3> QED
      BY <3>1, <3>2
  <2> QED
    BY <2>1, <2>3
<1> HIDE DEF P
<1>6. \A k \in j..N : k \in P
  BY <1>1, <1>4, <1>5, IntervalInduction
<1> QED
  BY <1>6 DEF P, N, first, end

LEMMA VerbatimContiguous ==
    ASSUME NEW t, NEW m, InOrder(m), Verbatim(t, m)
    PROVE  Contiguous(m)
<1>1. DOMAIN m = 1..Len(m)
  BY OrderFacts
<1> QED
  BY <1>1 DEF Verbatim, Contiguous

\* Chunks after chunks that hold other parts of the text.
LEMMA InChunksConcat ==
    ASSUME NEW a, InChunks(a), NEW b, InChunks(b),
           \A j \in 1..Len(a), k \in 1..Len(b) : /\ a[j].holds \cap b[k].holds = {}
                                                 /\ a[j].start < b[k].start
    PROVE  /\ InChunks(a \o b) /\ Len(a \o b) = Len(a) + Len(b)
           /\ \A k \in 1..Len(a) : (a \o b)[k] = a[k]
           /\ \A k \in 1..Len(b) : Len(a) + k \in 1..Len(a) + Len(b) /\ (a \o b)[Len(a) + k] = b[k]
<1> DEFINE c == a \o b
           A == Len(a)
           B == Len(b)
<1>1. A \in Nat /\ B \in Nat /\ a \in [1..A -> Chunk] /\ b \in [1..B -> Chunk]
  BY DEF InChunks
<1>2. a \in Seq(Chunk) /\ b \in Seq(Chunk)
  <2> HIDE DEF A, B
  <2> QED
    BY <1>1
<1>3. /\ c \in Seq(Chunk) /\ Len(c) = A + B
      /\ \A k \in 1..A + B : c[k] = IF k <= A THEN a[k] ELSE b[k - A]
  BY <1>2, ConcatProperties
<1>4. /\ \A k \in 1..A : a[k].holds # {} /\ a[k].end - a[k].start \in 1..MaxSize
      /\ \A k \in 1..A - 1 : a[k].start < a[k + 1].start
      /\ \A j \in 1..A, k \in 1..A :
             j < k => Cardinality(a[j].holds \cap a[k].holds)
                      <= IF k = j + 1 THEN Overlap ELSE 0
  BY DEF InChunks
<1>5. /\ \A k \in 1..B : b[k].holds # {} /\ b[k].end - b[k].start \in 1..MaxSize
      /\ \A k \in 1..B - 1 : b[k].start < b[k + 1].start
      /\ \A j \in 1..B, k \in 1..B :
             j < k => Cardinality(b[j].holds \cap b[k].holds)
                      <= IF k = j + 1 THEN Overlap ELSE 0
  BY DEF InChunks
<1>6. \A j \in 1..A, k \in 1..B : a[j].holds \cap b[k].holds = {} /\ a[j].start < b[k].start
  OBVIOUS
<1> HIDE DEF c, A, B
<1>7. \A k \in 1..A : k \in 1..A + B /\ c[k] = a[k]
  BY <1>1, <1>3
<1>8. ASSUME NEW k \in 1..B PROVE A + k \in 1..A + B /\ c[A + k] = b[k]
  <2>1. A + k \in 1..A + B /\ ~(A + k <= A) /\ (A + k) - A = k
    BY <1>1
  <2> QED
    BY <1>3, <2>1
<1>9. ASSUME NEW k \in 1..A + B, k \notin 1..A
      PROVE  k - A \in 1..B /\ c[k] = b[k - A]
  <2>1. k - A \in 1..B /\ ~(k <= A)
    BY <1>1, <1>9
  <2> QED
    BY <1>3, <2>1
<1>10. \A k \in 1..A + B : c[k].holds # {} /\ c[k].end - c[k].start \in 1..MaxSize
  <2> SUFFICES ASSUME NEW k \in 1..A + B
               PROVE  c[k].holds # {} /\ c[k].end - c[k].start \in 1..MaxSize
    OBVIOUS
  <2>1. CASE k \in 1..A
    BY <1>4, <1>7, <2>1
  <2>2. CASE k \notin 1..A
    BY <1>5, <1>9, <2>2
  <2> QED
    BY <2>1, <2>2
<1>11. ASSUME NEW k \in (1..(A + B) - 1) PROVE c[k].start < c[k + 1].start
  <2>1. k \in 1..A + B /\ k + 1 \in 1..A + B
    BY <1>1
  <2>2. CASE k + 1 \in 1..A
    <3>1. k \in 1..A /\ k \in 1..A - 1
      BY <1>1, <2>2
    <3> QED
      BY <1>4, <1>7, <2>2, <3>1
  <2>3. CASE k \in 1..A /\ k + 1 \notin 1..A
    <3>1. (k + 1) - A \in 1..B /\ c[k + 1] = b[(k + 1) - A]
      BY <1>9, <2>1, <2>3
    <3> QED
      BY <1>6, <1>7, <2>3, <3>1
  <2>4. CASE k \notin 1..A
    <3> DEFINE i == k - A
    <3>0. k + 1 \notin 1..A
      BY <1>1, <2>1, <2>4
    <3>1. i \in 1..B /\ c[k] = b[i] /\ (k + 1) - A \in 1..B /\ c[k + 1] = b[(k + 1) - A]
      BY <1>9, <2>1, <2>4, <3>0
    <3>2. (k + 1) - A = i + 1 /\ i \in 1..B - 1
      BY <1>1, <3>1
    <3> HIDE DEF i
    <3> QED
      BY <1>5, <3>1, <3>2
  <2> QED
    BY <1>1, <2>1, <2>2, <2>3, <2>4
<1>12. ASSUME NEW j \in 1..A + B, NEW k \in 1..A + B, j < k
       PROVE  Cardinality(c[j].holds \cap c[k].holds) <= IF k = j + 1 THEN Overlap ELSE 0
  <2>1. CASE j \in 1..A /\ k \in 1..A
    BY <1>4, <1>7, <1>12, <2>1
  <2>2. CASE j \in 1..A /\ k \notin 1..A
    <3>1. k - A \in 1..B /\ c[k] = b[k - A]
      BY <1>9, <2>2
    <3>2. c[j].holds \cap c[k].holds = {}
      BY <1>6, <1>7, <2>2, <3>1
    <3>3. Cardinality({}) = 0 /\ Overlap \in Nat
      BY FS_EmptySet, SizeAssumption
    <3>4. Cardinality(c[j].holds \cap c[k].holds) = 0
      BY <3>2, <3>3
    <3> QED
      BY <3>3, <3>4
  <2>3. CASE j \notin 1..A
    <3> DEFINE x == j - A
               y == k - A
    <3>0. k \notin 1..A
      BY <1>1, <1>12, <2>3
    <3>1. x \in 1..B /\ c[j] = b[x] /\ y \in 1..B /\ c[k] = b[y]
      BY <1>9, <2>3, <3>0
    <3>2. x < y /\ (k = j + 1 <=> y = x + 1)
      BY <1>1, <1>12
    <3> HIDE DEF x, y
    <3>3. Cardinality(b[x].holds \cap b[y].holds) <= IF y = x + 1 THEN Overlap ELSE 0
      BY <1>5, <3>1, <3>2
    <3> QED
      BY <3>1, <3>2, <3>3
  <2> QED
    BY <1>1, <1>12, <2>1, <2>2, <2>3
<1>13. c \in [1..Len(c) -> Chunk] /\ Len(c) \in Nat
  BY <1>1, <1>3
<1>14. InChunks(c)
  BY <1>3, <1>10, <1>11, <1>12, <1>13 DEF InChunks
<1> QED
  BY <1>3, <1>7, <1>8, <1>14 DEF c, A, B

\* Where the text of the first n merged segments ends.
Reach(merged, n) ==
    IF n = 0 THEN 0
    ELSE merged[n][Len(merged[n])].to + merged[n][Len(merged[n])].plus

\* What the offsets of a chunk of merged segment l say of it.
Told(c, t, merged, l) ==
    /\ c.holds \subseteq Span(merged[l])
    /\ Verbatim(t, merged[l]) =>
           \E p \in Nat : /\ Tells(c, merged[l], p)
                          /\ p - merged[l][1].from \in 0..Added(merged, l - 1)

\* The chunks of the first n merged segments, and the offset for the next.
Placed(acc, t, merged, n) ==
    /\ InChunks(acc.chunks) /\ (n >= 1 => Len(acc.chunks) >= 1)
    /\ acc.offset \in Nat /\ acc.offset <= Reach(merged, n) + Added(merged, n)
    /\ \A k \in 1..Len(acc.chunks) : /\ acc.chunks[k].start < acc.offset
                                     /\ \E l \in 1..n : Told(acc.chunks[k], t, merged, l)
    /\ \A l \in 1..n : \A i \in 1..Len(merged[l]) :
           Held(merged[l][i]) \subseteq UNION {acc.chunks[k].holds : k \in 1..Len(acc.chunks)}

LEMMA PlacedNone ==
    ASSUME NEW t, NEW merged
    PROVE  Placed([chunks |-> <<>>, offset |-> 0], t, merged, 0)
<1> DEFINE acc == [chunks |-> <<>>, offset |-> 0]
<1>1. acc.chunks = <<>> /\ acc.offset = 0 /\ Len(<<>>) = 0
  OBVIOUS
<1>2. InChunks(<<>>)
  <2>1. 1..0 = {} /\ 1..0 - 1 = {} /\ <<>> \in [1..0 -> Chunk]
    OBVIOUS
  <2> QED
    BY <1>1, <2>1 DEF InChunks
<1>3. Added(merged, 0) \in Nat /\ Reach(merged, 0) = 0
  BY AddsFinite DEF Reach
<1>4. 1..0 = {}
  OBVIOUS
<1> HIDE DEF acc
<1>5. Placed(acc, t, merged, 0)
  BY <1>1, <1>2, <1>3, <1>4 DEF Placed
<1> QED
  BY <1>5 DEF acc

\* A merged segment is placed where the one before it ended, or after that; the place
\* of one that stands in the text is right but for the line breaks added before it.
LEMMA PlaceOf ==
    ASSUME NEW t, NEW merged, Grouped(merged), NEW n \in Nat, n < Len(merged),
           NEW offset \in Nat, offset <= Reach(merged, n) + Added(merged, n)
    PROVE  LET m == merged[n + 1]
               p == Place(t, m, offset)
           IN /\ p \in Nat /\ offset <= p
              /\ p <= m[1].from + Added(merged, n)
              /\ Verbatim(t, m) => p - m[1].from \in 0..Added(merged, n)
<1> DEFINE m == merged[n + 1]
           p == Place(t, m, offset)
           F == m[1].from
           a == Added(merged, n)
<1>1. n + 1 \in 1..Len(merged) /\ (n # 0 => n \in 1..Len(merged) - 1 /\ n \in 1..Len(merged))
  BY DEF Grouped
<1>2. InOrder(m)
  BY <1>1 DEF Grouped
<1>3. F \in Nat
  BY <1>2, GroupSpan
<1>4. a \in Nat
  BY AddsFinite
<1>5. offset <= F + a
  <2>1. CASE n = 0
    BY <1>3, <1>4, <2>1 DEF Reach
  <2>2. CASE n # 0
    <3> DEFINE l == merged[n]
               e == l[Len(l)]
    <3>1. e.to <= F /\ e.plus = 0
      BY <1>1, <2>2 DEF Grouped
    <3>2. InOrder(l)
      BY <1>1, <2>2 DEF Grouped
    <3>3. e.to \in Nat
      BY <3>2, GroupSpan
    <3>4. Reach(merged, n) = e.to + e.plus
      BY <2>2 DEF Reach
    <3> HIDE DEF e, F, a
    <3>5. offset <= e.to + e.plus + a
      BY <3>4 DEF a
    <3> QED
      BY <1>3, <1>4, <3>1, <3>3, <3>5
  <2> QED
    BY <2>1, <2>2
<1>6. p = IF Verbatim(t, m) /\ offset <= F THEN F ELSE offset
  BY DEF Place
<1> HIDE DEF F, a, p
<1>7. p \in Nat /\ offset <= p /\ p <= F + a
  BY <1>3, <1>4, <1>5, <1>6
<1>8. Verbatim(t, m) => p - F \in 0..a
  BY <1>3, <1>4, <1>5, <1>6
<1> QED
  BY <1>7, <1>8 DEF p, F, a

LEMMA PlacedOneMore ==
    ASSUME NEW t, NEW merged, Grouped(merged), NEW n \in Nat, n < Len(merged),
           NEW acc, Placed(acc, t, merged, n)
    PROVE  Placed(WithChunksOf(acc, t, merged[n + 1]), t, merged, n + 1)
<1> DEFINE m == merged[n + 1]
           p == Place(t, m, acc.offset)
           a == acc.chunks
           b == ChunksAt(m, p)
           c == a \o b
           next == WithChunksOf(acc, t, m)
<1>1. n + 1 \in 1..Len(merged) /\ n + 1 \in 1..n + 1 /\ n + 1 # 0 /\ (n + 1) - 1 = n
      /\ Len(merged) \in Nat
  BY DEF Grouped
<1>2. InOrder(m) /\ (Len(m) > 1 => Joined(m) <= MaxSize)
  BY <1>1 DEF Grouped
<1>3. InChunks(a) /\ acc.offset \in Nat /\ acc.offset <= Reach(merged, n) + Added(merged, n)
  BY DEF Placed
<1>4. \A k \in 1..Len(a) : a[k].start < acc.offset /\ \E l \in 1..n : Told(a[k], t, merged, l)
  BY DEF Placed
<1>5. \A l \in 1..n : \A i \in 1..Len(merged[l]) :
          Held(merged[l][i]) \subseteq UNION {a[k].holds : k \in 1..Len(a)}
  BY DEF Placed
<1>6. /\ p \in Nat /\ acc.offset <= p /\ p <= m[1].from + Added(merged, n)
      /\ Verbatim(t, m) => p - m[1].from \in 0..Added(merged, n)
  BY <1>3, PlaceOf
<1>7. next.chunks = c /\ next.offset = p + Joined(m)
  BY DEF WithChunksOf, NextOffset
<1> HIDE DEF p, next, m, a
<1>8. ChunksOf(b, m, p)
  BY <1>2, <1>6, ChunksAtFor
<1> HIDE DEF b
<1>9. /\ InChunks(b) /\ Len(b) >= 1
      /\ \A k \in 1..Len(b) : /\ b[k].holds \subseteq Span(m)
                              /\ p <= b[k].start /\ b[k].start < p + Joined(m)
      /\ \A i \in 1..Len(m) : Held(m[i]) \subseteq UNION {b[k].holds : k \in 1..Len(b)}
      /\ Contiguous(m) => \A k \in 1..Len(b) : Tells(b[k], m, p)
  BY <1>8 DEF ChunksOf
<1>10. Joined(m) \in Nat \ {0} /\ m[1].from \in Nat /\ m[Len(m)].to \in Nat
       /\ m[Len(m)].plus \in 0..1 /\ m[1].from < m[Len(m)].to
  BY <1>2, JoinedPositive, GroupSpan
<1>11. Len(a) \in Nat /\ Len(b) \in Nat
       /\ (\A k \in 1..Len(a) : a[k] \in Chunk) /\ (\A k \in 1..Len(b) : b[k] \in Chunk)
  BY <1>3, <1>9 DEF InChunks
<1>12. ASSUME NEW j \in 1..Len(a), NEW k \in 1..Len(b)
       PROVE  a[j].holds \cap b[k].holds = {} /\ a[j].start < b[k].start
  <2>1. PICK l \in 1..n : Told(a[j], t, merged, l)
    BY <1>4
  <2>2. l \in 1..Len(merged) /\ n + 1 \in l..Len(merged) /\ l < n + 1
    BY <1>1
  <2> DEFINE e == merged[l][Len(merged[l])].to
  <2>3. e <= m[1].from
    BY <2>2, GroupsFollow DEF m
  <2>4. InOrder(merged[l])
    BY <2>2 DEF Grouped
  <2>5. e \in Nat /\ merged[l][1].from \in Nat
    BY <2>4, GroupSpan
  <2>6. \A y \in a[j].holds : y \in Int /\ y < e
    <3>1. Span(merged[l]) = merged[l][1].from..e - 1
      BY DEF Span
    <3>2. a[j].holds \subseteq merged[l][1].from..e - 1
      BY <2>1, <3>1 DEF Told
    <3> HIDE DEF e
    <3> QED
      BY <2>5, <3>2
  <2>7. \A y \in b[k].holds : y \in Int /\ m[1].from <= y
    BY <1>9, <1>10 DEF Span
  <2> HIDE DEF e
  <2>8. a[j].holds \cap b[k].holds = {}
    BY <1>10, <2>3, <2>5, <2>6, <2>7
  <2>9. a[j].start < acc.offset /\ p <= b[k].start
        /\ a[j].start \in Nat /\ b[k].start \in Nat
    BY <1>4, <1>9, <1>11 DEF Chunk
  <2> QED
    BY <1>3, <1>6, <2>8, <2>9
<1>13. /\ InChunks(c) /\ Len(c) = Len(a) + Len(b)
       /\ \A k \in 1..Len(a) : c[k] = a[k]
       /\ \A k \in 1..Len(b) : Len(a) + k \in 1..Len(a) + Len(b) /\ c[Len(a) + k] = b[k]
  BY <1>3, <1>9, <1>12, InChunksConcat
<1> HIDE DEF c
<1>14. Len(c) >= 1 /\ \A k \in 1..Len(a) : k \in 1..Len(c)
  BY <1>9, <1>11, <1>13
<1>15. ASSUME NEW k \in 1..Len(c)
       PROVE  \/ k \in 1..Len(a) /\ c[k] = a[k]
              \/ k - Len(a) \in 1..Len(b) /\ c[k] = b[k - Len(a)]
  <2> DEFINE A == Len(a)
             B == Len(b)
             i == k - A
  <2>1. A \in Nat /\ B \in Nat /\ k \in 1..A + B
    BY <1>11, <1>13
  <2> HIDE DEF A, B
  <2>2. k \in 1..A \/ (i \in 1..B /\ A + i = k)
    BY <2>1
  <2> HIDE DEF i
  <2>3. i \in 1..B /\ A + i = k => c[k] = b[i]
    BY <1>13 DEF A, B
  <2>4. k \in 1..A => c[k] = a[k]
    BY <1>13 DEF A
  <2> QED
    BY <2>2, <2>3, <2>4 DEF A, B, i
<1>16. next.offset \in Nat /\ next.offset <= Reach(merged, n + 1) + Added(merged, n + 1)
  <2> DEFINE x == Added(merged, n)
             y == Added(merged, n + 1)
             e == m[Len(m)]
             J == Joined(m)
  <2>1. J + x <= e.to - m[1].from + e.plus + y
    BY JoinedReach DEF m
  <2>2. x \in Nat /\ y \in Nat
    BY AddsFinite
  <2>3. Reach(merged, n + 1) = e.to + e.plus
    BY <1>1 DEF Reach, m
  <2>4. p <= m[1].from + x /\ p \in Nat /\ J \in Nat /\ m[1].from \in Nat
        /\ e.to \in Nat /\ e.plus \in Int
    BY <1>6, <1>10
  <2> HIDE DEF x, y, e, J
  <2>5. p + J <= (e.to + e.plus) + y
    <3> DEFINE f == m[1].from
               g == e.to
               h == e.plus
    <3>1. J + x <= g - f + h + y /\ p <= f + x
      BY <2>1, <2>4
    <3>2. x \in Nat /\ y \in Nat /\ p \in Nat /\ J \in Nat /\ f \in Nat /\ g \in Nat /\ h \in Int
      BY <2>2, <2>4
    <3> HIDE DEF f, g, h
    <3>3. p + J <= (g + h) + y
      BY ONLY <3>1, <3>2
    <3> QED
      BY <3>3 DEF g, h
  <2>6. p + J \in Nat
    BY <2>4
  <2> QED
    BY <1>7, <2>3, <2>5, <2>6 DEF J, y
<1>17. ASSUME NEW k \in 1..Len(c)
       PROVE  c[k].start < next.offset /\ \E l \in 1..n + 1 : Told(c[k], t, merged, l)
  <2>1. CASE k \in 1..Len(a) /\ c[k] = a[k]
    <3>1. PICK l \in 1..n : Told(a[k], t, merged, l)
      BY <1>4, <2>1
    <3>2. l \in 1..n + 1
      OBVIOUS
    <3>3. a[k].start < acc.offset /\ a[k].start \in Nat
      BY <1>4, <1>11, <2>1 DEF Chunk
    <3>4. acc.offset <= p + Joined(m)
      BY <1>3, <1>6, <1>10
    <3> QED
      BY <1>3, <1>7, <1>16, <2>1, <3>1, <3>2, <3>3, <3>4
  <2>2. CASE k - Len(a) \in 1..Len(b) /\ c[k] = b[k - Len(a)]
    <3> DEFINE i == k - Len(a)
    <3>1. i \in 1..Len(b) /\ c[k] = b[i]
      BY <2>2
    <3> HIDE DEF i
    <3>2. b[i].holds \subseteq Span(m) /\ b[i].start < p + Joined(m)
          /\ (Contiguous(m) => Tells(b[i], m, p))
      BY <1>9, <3>1
    <3>3. Told(b[i], t, merged, n + 1)
      <4>1. Verbatim(t, m) => Tells(b[i], m, p) /\ p - m[1].from \in 0..Added(merged, n)
        BY <1>2, <1>6, <3>2, VerbatimContiguous
      <4> QED
        BY <1>1, <1>6, <3>2, <4>1 DEF Told, m
    <3> QED
      BY <1>1, <1>7, <3>1, <3>2, <3>3
  <2> QED
    BY <1>15, <2>1, <2>2
<1>18. ASSUME NEW l \in 1..n + 1, NEW i \in 1..Len(merged[l]), NEW y \in Held(merged[l][i])
       PROVE  \E k \in 1..Len(c) : y \in c[k].holds
  <2>1. CASE l \in 1..n
    <3>1. PICK k \in 1..Len(a) : y \in a[k].holds
      BY <1>5, <2>1
    <3> QED
      BY <1>13, <1>14, <3>1
  <2>2. CASE l = n + 1
    <3>1. PICK k \in 1..Len(b) : y \in b[k].holds
      BY <1>9, <2>2 DEF m
    <3> QED
      BY <1>13, <3>1
  <2>3. l \in 1..n \/ l = n + 1
    OBVIOUS
  <2> QED
    BY <2>1, <2>2, <2>3
<1>19. Placed(next, t, merged, n + 1)
  <2>1. \A l \in 1..n + 1 : \A i \in 1..Len(merged[l]) :
            Held(merged[l][i]) \subseteq UNION {c[k].holds : k \in 1..Len(c)}
    BY <1>18
  <2> QED
    BY <1>7, <1>13, <1>14, <1>16, <1>17, <2>1 DEF Placed
<1> QED
  BY <1>19 DEF next, m

\* The function that SegmentsToChunks is defined by.
IsAcc(g, t, merged) ==
    g = [n \in 0..Len(merged) |-> IF n = 0 THEN [chunks |-> <<>>, offset |-> 0]
                                  ELSE WithChunksOf(g[n - 1], t, merged[n])]

LEMMA AccExists ==
    ASSUME NEW t, NEW merged, Len(merged) \in Nat
    PROVE  \E g : IsAcc(g, t, merged)
<1> DEFINE b == Len(merged)
           step(n, x) == WithChunksOf(x, t, merged[n])
           Upto(g, m) == \A n \in 0..m : g[n] = IF n = 0 THEN [chunks |-> <<>>, offset |-> 0] ELSE step(n, g[n - 1])
           P == {m \in 0..b : \E g : g = [n \in 0..m |-> g[n]] /\ Upto(g, m)}
<1>1. 0 \in Int /\ b \in Int /\ 0 <= b
  OBVIOUS
<1> HIDE DEF b, step
<1>2. 0 \in P
  <2> DEFINE g == [n \in 0..0 |-> [chunks |-> <<>>, offset |-> 0]]
  <2>1. Upto(g, 0) /\ g = [n \in 0..0 |-> g[n]]
    OBVIOUS
  <2> HIDE DEF g
  <2> QED
    BY <1>1, <2>1
<1>3. \A m \in 0..b : m \in P /\ m < b => m + 1 \in P
  <2> SUFFICES ASSUME NEW m \in 0..b, m \in P, m < b PROVE m + 1 \in P
    OBVIOUS
  <2>1. PICK g : Upto(g, m)
    OBVIOUS
  <2> DEFINE h == [n \in 0..m + 1 |-> IF n = m + 1 THEN step(m + 1, g[m]) ELSE g[n]]
  <2>2. m \in 0..m /\ m + 1 \in 0..m + 1 /\ m + 1 # 0 /\ m + 1 \in 0..b
    BY <1>1
  <2>3. h[m + 1] = step(m + 1, g[m]) /\ \A n \in 0..m : h[n] = g[n]
    BY <1>1, <2>2
  <2>4. h = [n \in 0..m + 1 |-> h[n]]
    OBVIOUS
  <2> HIDE DEF h
  <2>5. ASSUME NEW n \in 0..m + 1
        PROVE  h[n] = IF n = 0 THEN [chunks |-> <<>>, offset |-> 0] ELSE step(n, h[n - 1])
    <3>1. CASE n = m + 1
      <4>1. n - 1 = m
        BY <1>1, <3>1
      <4> QED
        BY <2>2, <2>3, <3>1, <4>1
    <3>2. CASE n # m + 1
      <4>1. n \in 0..m /\ (n # 0 => n - 1 \in 0..m)
        BY <1>1, <3>2
      <4> QED
        BY <2>1, <2>3, <4>1
    <3> QED
      BY <3>1, <3>2
  <2> QED
    BY <2>2, <2>4, <2>5
<1> HIDE DEF P
<1>4. b \in P
  <2>1. \A n \in 0..b : n \in P
    BY <1>1, <1>2, <1>3, IntervalInduction
  <2> QED
    BY <1>1, <2>1
<1>5. PICK g : g = [n \in 0..b |-> g[n]] /\ Upto(g, b)
  BY <1>4 DEF P
<1>6. g = [n \in 0..b |-> IF n = 0 THEN [chunks |-> <<>>, offset |-> 0] ELSE step(n, g[n - 1])]
  BY <1>5
<1>7. IsAcc(g, t, merged)
  BY <1>6 DEF IsAcc, b, step
<1> QED
  BY <1>7

LEMMA ChunksPlaced ==
    ASSUME NEW t, NEW merged, Grouped(merged)
    PROVE  \E acc : /\ Placed(acc, t, merged, Len(merged))
                    /\ SegmentsToChunks(t, merged) = acc.chunks
<1> DEFINE acc[n \in 0..Len(merged)] ==
               IF n = 0 THEN [chunks |-> <<>>, offset |-> 0]
               ELSE WithChunksOf(acc[n - 1], t, merged[n])
           b == Len(merged)
<1>1. b \in Nat \ {0} /\ 0 \in Int /\ b \in Int
  BY DEF Grouped
<1>0. \E g : IsAcc(g, t, merged)
  BY <1>1, AccExists
<1>2. IsAcc(acc, t, merged)
  BY <1>0 DEF IsAcc
<1>3. SegmentsToChunks(t, merged) = acc[b].chunks
  BY DEF SegmentsToChunks
<1> HIDE DEF acc
<1>4. \A n \in 0..b : acc[n] = IF n = 0 THEN [chunks |-> <<>>, offset |-> 0]
                                ELSE WithChunksOf(acc[n - 1], t, merged[n])
  BY <1>2 DEF IsAcc
<1> HIDE DEF b
<1> DEFINE P == {n \in 0..b : Placed(acc[n], t, merged, n)}
<1>5. 0 \in P
  <2>1. 0 \in 0..b
    BY <1>1
  <2>2. acc[0] = [chunks |-> <<>>, offset |-> 0]
    BY <1>4, <2>1
  <2> QED
    BY <2>1, <2>2, PlacedNone
<1>6. \A n \in 0..b : n \in P /\ n < b => n + 1 \in P
  <2> SUFFICES ASSUME NEW n \in 0..b, n \in P, n < b PROVE n + 1 \in P
    OBVIOUS
  <2>1. n + 1 \in 0..b /\ n + 1 # 0 /\ (n + 1) - 1 = n /\ n \in Nat
    BY <1>1
  <2>2. acc[n + 1] = WithChunksOf(acc[n], t, merged[n + 1])
    BY <1>4, <2>1
  <2>3. n < Len(merged) /\ Placed(acc[n], t, merged, n)
    BY DEF b
  <2>4. Placed(acc[n + 1], t, merged, n + 1)
    BY <2>1, <2>2, <2>3, PlacedOneMore
  <2> QED
    BY <2>1, <2>4
<1> HIDE DEF P
<1>7. \A n \in 0..b : n \in P
  BY <1>1, <1>5, <1>6, IntervalInduction
<1>8. b \in P
  BY <1>1, <1>7
<1>9. Placed(acc[b], t, merged, Len(merged))
  BY <1>8 DEF P, b
<1> QED
  BY <1>3, <1>9

\* The merged segments of a text, and its chunks.
Document(t, d, merged, cs) ==
    /\ Grouped(merged) /\ merged = MergeSmallSegments(Segments(t, d))
    /\ \E acc : Placed(acc, t, merged, Len(merged)) /\ cs = acc.chunks
    /\ \A i \in 1..Len(t) : \E l \in 1..Len(merged) : \E k \in 1..Len(merged[l]) :
           From(t, i)..To(t, i) - 1 \subseteq Held(merged[l][k])

LEMMA DocumentCut ==
    ASSUME NEW d \in DocTypes, NEW t, IsTextOf(t, d)
    PROVE  \E merged : Document(t, d, merged, ChunkDocument(t, d))
<1> DEFINE segs == Segments(t, d)
           merged == MergeSmallSegments(segs)
<1>1. Covers(t, segs)
  BY SegmentsCover
<1>2. InOrder(segs) /\ Len(segs) <= MaxPieces
  <2>1. InOrder(segs) /\ Len(segs) <= Len(t) /\ Len(t) <= MaxPieces
    BY <1>1 DEF Covers, IsTextOf
  <2>2. Len(segs) \in Nat /\ Len(t) \in Nat
    BY <2>1, OrderFacts DEF IsTextOf, IsText
  <2> QED
    BY <2>1, <2>2, PieceAssumption
<1> HIDE DEF segs
<1>3. PICK bs : Groups(merged, bs, segs, Len(segs))
  BY <1>2, MergedGroups
<1>4. Grouped(merged)
  BY <1>2, <1>3, GroupsGrouped
<1>5. PICK acc : /\ Placed(acc, t, merged, Len(merged))
                 /\ SegmentsToChunks(t, merged) = acc.chunks
  BY <1>4, ChunksPlaced
<1>6. ChunkDocument(t, d) = acc.chunks
  <2>1. t # <<>>
    BY DEF IsTextOf
  <2> QED
    BY <1>5, <2>1 DEF ChunkDocument, segs
<1>7. ASSUME NEW i \in 1..Len(t)
      PROVE  \E l \in 1..Len(merged) : \E k \in 1..Len(merged[l]) :
                 From(t, i)..To(t, i) - 1 \subseteq Held(merged[l][k])
  <2>1. PICK s \in 1..Len(segs) : segs[s].from <= From(t, i) /\ To(t, i) <= segs[s].to
    BY <1>1 DEF Covers
  <2>2. Tiles(bs, 1, Len(segs)) /\ Len(merged) = Len(bs)
    BY <1>3 DEF Groups
  <2>3. PICK l \in 1..Len(bs) : s \in bs[l][1]..bs[l][2]
    BY <2>2, TilesBounds
  <2>4. IsGroup(merged[l], segs, bs[l]) /\ l \in 1..Len(merged)
        /\ bs[l][1] \in 1..Len(segs) /\ bs[l][2] \in 1..Len(segs)
    BY <1>3, <2>2, TilesBounds DEF Groups
  <2> DEFINE a == bs[l][1]
             k == s - a + 1
  <2>5. Len(merged[l]) = bs[l][2] - a + 1
        /\ \A j \in 1..Len(merged[l]) : merged[l][j] = segs[a + j - 1]
    BY <2>4 DEF IsGroup
  <2>6. a \in Int /\ bs[l][2] \in Int /\ s \in Int
    BY <2>4
  <2>7. k \in 1..Len(merged[l]) /\ a + k - 1 = s
    <3> DEFINE b == bs[l][2]
               n == Len(merged[l])
    <3>1. s \in a..b /\ n = b - a + 1
      BY <2>3, <2>5
    <3>2. a \in Int /\ b \in Int /\ s \in Int
      BY <2>6
    <3> HIDE DEF a, b, n
    <3>3. k \in 1..n /\ a + k - 1 = s
      BY ONLY <3>1, <3>2 DEF k
    <3> QED
      BY <3>3 DEF n, a
  <2> HIDE DEF k
  <2>8. merged[l][k] = segs[s]
    BY <2>5, <2>7
  <2>9. segs[s].from \in Nat /\ segs[s].to \in Nat
    BY <1>2, OrderFacts
  <2>10. From(t, i) \in Int /\ To(t, i) \in Int
    BY FromStep DEF IsTextOf
  <2>11. From(t, i)..To(t, i) - 1 \subseteq Held(merged[l][k])
    <3> DEFINE f == From(t, i)
               e == To(t, i)
               f2 == segs[s].from
               e2 == segs[s].to
    <3>1. f \in Int /\ e \in Int /\ f2 \in Nat /\ e2 \in Nat /\ f2 <= f /\ e <= e2
      BY <2>1, <2>9, <2>10
    <3>2. Held(merged[l][k]) = f2..e2 - 1
      BY <2>8 DEF Held
    <3> HIDE DEF f, e, f2, e2
    <3>3. f..e - 1 \subseteq f2..e2 - 1
      BY ONLY <3>1
    <3> QED
      BY <3>2, <3>3 DEF f, e
  <2> QED
    BY <2>4, <2>7, <2>11
<1>8. Document(t, d, merged, ChunkDocument(t, d))
  BY <1>4, <1>5, <1>6, <1>7 DEF Document, segs
<1> QED
  BY <1>8

-----------------------------------------------------------------------------
\* What was cut.

LEMMA TextsAreTexts ==
    ASSUME NEW d \in DocTypes, NEW t \in Texts(d), t # <<>>
    PROVE  IsTextOf(t, d)
<1> DEFINE S == [len : Lengths, role : Roles(d), sep : Separators[d]]
<1>1. PICK m \in 0..MaxPieces : t \in [1..m -> S]
  BY DEF Texts, BoundedSeq, SeqOf
<1>2. MaxPieces \in Nat /\ Lengths \subseteq Nat \ {0}
  BY PieceAssumption
<1>3. m \in Nat /\ m <= MaxPieces /\ DOMAIN t = 1..m
  BY <1>1, <1>2
<1> HIDE DEF S
<1>4. Len(t) = m
  BY <1>1, <1>3
<1>5. m # 0
  <2> SUFFICES ASSUME m = 0 PROVE FALSE
    OBVIOUS
  <2>1. t \in Seq(S) /\ Len(t) = 0
    BY <1>1, <1>4
  <2> QED
    BY <2>1, EmptySeq
<1>6. Separators[d] \subseteq DOMAIN Width
  <2>1. d \in {"text", "markdown", "python", "java", "git_diff", "sql"}
    BY TypeAssumption DEF Separators
  <2> QED
    BY <2>1 DEF Separators, Width
<1>7. ASSUME NEW i \in 1..m
      PROVE  t[i].len \in Nat \ {0} /\ t[i].sep \in Separators[d] /\ t[i].sep \in DOMAIN Width
  <2>1. t[i] \in S
    BY <1>1
  <2>2. t[i].len \in Lengths /\ t[i].sep \in Separators[d]
    BY <2>1 DEF S
  <2> QED
    BY <1>2, <1>6, <2>2
<1> QED
  BY <1>3, <1>4, <1>5, <1>7 DEF IsTextOf, IsText

LEMMA NoChunks == InChunks(<<>>) /\ Len(<<>>) \in Nat
<1> DEFINE acc == [chunks |-> <<>>, offset |-> 0]
<1>1. Placed(acc, <<>>, <<>>, 0)
  BY PlacedNone
<1>2. acc.chunks = <<>> /\ Len(<<>>) \in Nat
  OBVIOUS
<1> HIDE DEF acc
<1> QED
  BY <1>1, <1>2 DEF Placed

LEMMA DocumentChunks ==
    ASSUME NEW d \in DocTypes, NEW t \in Texts(d)
    PROVE  InChunks(ChunkDocument(t, d)) /\ Len(ChunkDocument(t, d)) \in Nat
<1> DEFINE cs == ChunkDocument(t, d)
<1>1. CASE t = <<>>
  BY <1>1, NoChunks DEF ChunkDocument
<1>2. CASE t # <<>>
  <2>1. IsTextOf(t, d)
    BY <1>2, TextsAreTexts
  <2>2. PICK merged : Document(t, d, merged, cs)
    BY <2>1, DocumentCut
  <2> HIDE DEF cs
  <2>3. PICK acc : Placed(acc, t, merged, Len(merged)) /\ cs = acc.chunks
    BY <2>2 DEF Document
  <2>4. InChunks(cs)
    BY <2>3 DEF Placed
  <2>5. Len(cs) \in Nat
    BY <2>4 DEF InChunks
  <2> QED
    BY <2>4, <2>5 DEF cs
<1> QED
  BY <1>1, <1>2

\* The chunks are those of the text, whatever has been done with them.
Cut ==
    /\ at = "new" => text = <<>> /\ chunks = <<>>
    /\ at # "new" => /\ docType \in DocTypes /\ text \in Texts(docType)
                     /\ chunks = ChunkDocument(text, docType)
                     /\ at # "empty" => text # <<>>
                     /\ at = "empty" => text = <<>>

LEMMA CutChunks ==
    ASSUME Cut
    PROVE  InChunks(chunks) /\ Len(chunks) \in Nat
<1>1. CASE at = "new"
  <2>1. chunks = <<>>
    BY <1>1 DEF Cut
  <2> QED
    BY <2>1, NoChunks
<1>2. CASE at # "new"
  BY <1>2, DocumentChunks DEF Cut
<1> QED
  BY <1>1, <1>2

LEMMA CutLosesNothing ==
    ASSUME Cut
    PROVE  NothingLost
<1> SUFFICES ASSUME at = "embedding"
             PROVE  /\ \A P \in Pieces : P \subseteq UNION {chunks[k].holds : k \in DOMAIN chunks}
                    /\ \A k \in DOMAIN chunks : chunks[k].end - chunks[k].start \in 1..MaxSize
                    /\ \A j, k \in DOMAIN chunks :
                           j < k => Cardinality(chunks[j].holds \cap chunks[k].holds)
                                    <= IF k = j + 1 THEN Overlap ELSE 0
  BY DEF NothingLost, JustCut
<1>1. IsTextOf(text, docType) /\ docType \in DocTypes /\ chunks = ChunkDocument(text, docType)
  BY TextsAreTexts DEF Cut
<1>2. PICK merged : Document(text, docType, merged, chunks)
  BY <1>1, DocumentCut
<1>3. PICK acc : Placed(acc, text, merged, Len(merged)) /\ chunks = acc.chunks
  BY <1>2 DEF Document
<1>4. DOMAIN chunks = 1..Len(chunks) /\ InChunks(chunks)
  BY <1>3 DEF Placed, InChunks
<1>5. DOMAIN text = 1..Len(text)
  BY <1>1 DEF IsTextOf, IsText
<1>6. ASSUME NEW P \in Pieces
      PROVE  P \subseteq UNION {chunks[k].holds : k \in DOMAIN chunks}
  <2>1. PICK i \in 1..Len(text) : P = From(text, i)..To(text, i) - 1
    BY <1>5 DEF Pieces
  <2>2. PICK l \in 1..Len(merged) : \E k \in 1..Len(merged[l]) :
            From(text, i)..To(text, i) - 1 \subseteq Held(merged[l][k])
    BY <1>2 DEF Document
  <2>3. PICK k \in 1..Len(merged[l]) :
            From(text, i)..To(text, i) - 1 \subseteq Held(merged[l][k])
    BY <2>2
  <2>4. Held(merged[l][k]) \subseteq UNION {chunks[j].holds : j \in 1..Len(chunks)}
    BY <1>3, <2>2, <2>3 DEF Placed
  <2> QED
    BY <1>4, <2>1, <2>3, <2>4
<1> QED
  BY <1>4, <1>6 DEF InChunks

LEMMA CutOffsetsTell ==
    ASSUME Cut
    PROVE  OffsetsTell
<1> DEFINE merged == MergeSmallSegments(Segments(text, docType))
<1> SUFFICES ASSUME at = "embedding"
             PROVE  /\ \A i \in {j \in DOMAIN merged : Verbatim(text, merged[j])},
                          k \in DOMAIN chunks :
                         LET begin == Min(chunks[k].holds) IN
                         begin \in merged[i][1].from..Last(merged[i]).to - 1 =>
                             /\ chunks[k].start - begin \in 0..Added(merged, i - 1)
                             /\ chunks[k].end - chunks[k].start = Max(chunks[k].holds) + 1 - begin
                    /\ \A k \in 1..Len(chunks) - 1 : chunks[k].start < chunks[k + 1].start
  BY DEF OffsetsTell, JustCut
<1>1. IsTextOf(text, docType) /\ docType \in DocTypes /\ chunks = ChunkDocument(text, docType)
  BY TextsAreTexts DEF Cut
<1>2. Document(text, docType, merged, chunks)
  <2>1. PICK g : Document(text, docType, g, chunks)
    BY <1>1, DocumentCut
  <2>2. g = merged
    BY <2>1 DEF Document
  <2> QED
    BY <2>1, <2>2
<1> HIDE DEF merged
<1>3. PICK acc : Placed(acc, text, merged, Len(merged)) /\ chunks = acc.chunks
  BY <1>2 DEF Document
<1>4. DOMAIN chunks = 1..Len(chunks) /\ InChunks(chunks)
  BY <1>3 DEF Placed, InChunks
<1>5. Grouped(merged) /\ DOMAIN merged = 1..Len(merged)
  BY <1>2 DEF Document, Grouped
<1>6. ASSUME NEW i \in 1..Len(merged), Verbatim(text, merged[i]), NEW k \in 1..Len(chunks),
             Min(chunks[k].holds) \in merged[i][1].from..Last(merged[i]).to - 1
      PROVE  /\ chunks[k].start - Min(chunks[k].holds) \in 0..Added(merged, i - 1)
             /\ chunks[k].end - chunks[k].start
                = Max(chunks[k].holds) + 1 - Min(chunks[k].holds)
  <2> DEFINE begin == Min(chunks[k].holds)
  <2>1. PICK l \in 1..Len(merged) : Told(chunks[k], text, merged, l)
    BY <1>3 DEF Placed
  <2>2. chunks[k] \in Chunk /\ chunks[k].holds # {}
    BY <1>4 DEF InChunks
  <2>3. begin \in chunks[k].holds
    <3>1. chunks[k].holds \in SUBSET Nat
      BY <2>2 DEF Chunk
    <3> QED
      BY <2>2, <3>1, MinIn
  <2>4. begin \in Span(merged[l]) /\ begin \in Span(merged[i])
    BY <1>6, <2>1, <2>3 DEF Told, Span, Last
  <2> HIDE DEF begin
  <2>5. l = i
    <3>1. \A j \in 1..Len(merged) : merged[j][1].from \in Nat /\ merged[j][Len(merged[j])].to \in Nat
      <4> SUFFICES ASSUME NEW j \in 1..Len(merged)
                   PROVE  merged[j][1].from \in Nat /\ merged[j][Len(merged[j])].to \in Nat
        OBVIOUS
      <4>1. InOrder(merged[j])
        BY <1>5 DEF Grouped
      <4> QED
        BY <4>1, GroupSpan
    <3>2. begin \in merged[l][1].from..merged[l][Len(merged[l])].to - 1
          /\ begin \in merged[i][1].from..merged[i][Len(merged[i])].to - 1
      BY <2>4 DEF Span
    <3>3. ASSUME l < i PROVE FALSE
      <4>1. i \in l..Len(merged)
        BY <3>3
      <4>2. merged[l][Len(merged[l])].to <= merged[i][1].from
        BY <1>5, <3>3, <4>1, GroupsFollow
      <4> DEFINE e == merged[l][Len(merged[l])].to
                 f == merged[i][1].from
      <4>3. e <= f /\ e \in Nat /\ f \in Nat
        BY <3>1, <4>2
      <4>4. begin < e /\ f <= begin /\ begin \in Int
        BY <3>1, <3>2
      <4> HIDE DEF e, f
      <4> QED
        BY ONLY <4>3, <4>4
    <3>4. ASSUME i < l PROVE FALSE
      <4>1. l \in i..Len(merged)
        BY <3>4
      <4>2. merged[i][Len(merged[i])].to <= merged[l][1].from
        BY <1>5, <3>4, <4>1, GroupsFollow
      <4> DEFINE e == merged[i][Len(merged[i])].to
                 f == merged[l][1].from
      <4>3. e <= f /\ e \in Nat /\ f \in Nat
        BY <3>1, <4>2
      <4>4. begin < e /\ f <= begin /\ begin \in Int
        BY <3>1, <3>2
      <4> HIDE DEF e, f
      <4> QED
        BY ONLY <4>3, <4>4
    <3> QED
      BY <3>3, <3>4
  <2>6. PICK p \in Nat : /\ Tells(chunks[k], merged[i], p)
                         /\ p - merged[i][1].from \in 0..Added(merged, i - 1)
    BY <1>6, <2>1, <2>5 DEF Told
  <2>7. /\ begin = merged[i][1].from + (chunks[k].start - p)
        /\ Max(chunks[k].holds) + 1 - begin = chunks[k].end - chunks[k].start
    BY <2>6 DEF Tells, begin
  <2>8. merged[i][1].from \in Nat /\ chunks[k].start \in Nat
    <3>1. InOrder(merged[i])
      BY <1>5 DEF Grouped
    <3> QED
      BY <2>2, <3>1, GroupSpan DEF Chunk
  <2>9. chunks[k].start - begin = p - merged[i][1].from
    <3> DEFINE s == chunks[k].start
               f == merged[i][1].from
    <3>1. s \in Int /\ f \in Int /\ p \in Int /\ begin = f + (s - p)
      BY <2>7, <2>8
    <3> HIDE DEF s, f
    <3>2. s - begin = p - f
      BY <3>1
    <3> QED
      BY <3>2 DEF s, f
  <2> QED
    BY <2>6, <2>7, <2>9 DEF begin
<1> QED
  BY <1>4, <1>5, <1>6 DEF InChunks

-----------------------------------------------------------------------------
\* Vectors and rows.

\* The vectors of the first n texts, in order; at most one is missing.
Complete(v, n) == Len(v) = n /\ \A k \in 1..n : v[k] = k

LacksOne(v, n, gap) ==
    /\ gap \in 1..n /\ Len(v) = n - 1
    /\ \A k \in 1..n - 1 : v[k] = IF k < gap THEN k ELSE k + 1

InStep(v, n) == v \in Seq(Nat) /\ (Complete(v, n) \/ \E gap \in 1..n : LacksOne(v, n, gap))

Embedded ==
    /\ sent \in Nat /\ sent <= Len(chunks) /\ InStep(vectors, sent)
    /\ known \in Nat \cup {None} /\ (known # None => known = sent)
    /\ at \in {"new", "empty"} => sent = 0
    /\ at \in {"embedded", "stored"} => sent = Len(chunks)
    /\ at # "stored" => rows = <<>>
    /\ at = "stored" => rows = [k \in 1..Min({Len(chunks), Len(vectors)}) |-> <<k, vectors[k]>>]

IndexingInv ==
    /\ at \in {"new", "embedding", "embedded", "stored", "empty", "raised"}
    /\ Cut /\ Embedded

\* A batch after whole ones, and after one that lacked a vector.
LEMMA BatchAfter ==
    ASSUME NEW n \in Nat, NEW e \in Nat, n <= e, NEW v, InStep(v, n), NEW w \in Seq(Nat),
           NEW lost,
           \/ /\ lost = 0 /\ Len(w) = e - n
              /\ \A k \in 1..e - n : w[k] = n + k
           \/ /\ Len(v) = n /\ lost \in n + 1..e /\ Len(w) = e - n - 1
              /\ \A k \in 1..e - n - 1 : w[k] = IF n + k >= lost THEN n + k + 1 ELSE n + k
    PROVE  InStep(v \o w, e)
<1> DEFINE u == v \o w
           L == Len(v)
<1>1. /\ u \in Seq(Nat) /\ Len(u) = L + Len(w) /\ L \in Nat /\ Len(w) \in Nat
      /\ \A k \in 1..L + Len(w) : u[k] = IF k <= L THEN v[k] ELSE w[k - L]
  BY ConcatProperties DEF InStep
<1> HIDE DEF u, L
<1>2. Complete(v, n) \/ \E gap \in 1..n : LacksOne(v, n, gap)
  BY DEF InStep
<1>3. CASE Complete(v, n)
  <2>1. L = n /\ \A k \in 1..n : v[k] = k
    BY <1>3 DEF Complete, L
  <2>2. CASE lost = 0
    <3>1. Len(w) = e - n /\ \A k \in 1..e - n : w[k] = n + k
      BY <2>2
    <3>2. ASSUME NEW k \in 1..e PROVE u[k] = k
      <4>1. CASE k <= n
        <5>1. k \in 1..n /\ k \in 1..L + Len(w) /\ k <= L
          BY <2>1, <3>1, <4>1
        <5> QED
          BY <1>1, <2>1, <5>1
      <4>2. CASE ~(k <= n)
        <5>1. k - n \in 1..e - n /\ k \in 1..L + Len(w)
          BY <2>1, <3>1, <4>2
        <5>2. w[k - n] = n + (k - n)
          BY <3>1, <5>1
        <5> QED
          BY <1>1, <2>1, <4>2, <5>1, <5>2
      <4> QED
        BY <4>1, <4>2
    <3>3. Len(u) = e
      BY <1>1, <2>1, <3>1
    <3>4. Complete(u, e)
      BY <3>2, <3>3 DEF Complete
    <3> QED
      BY <1>1, <3>4 DEF InStep, u
  <2>3. CASE lost # 0
    <3>1. /\ lost \in n + 1..e /\ Len(w) = e - n - 1
          /\ \A k \in 1..e - n - 1 : w[k] = IF n + k >= lost THEN n + k + 1 ELSE n + k
      BY <2>3
    <3>2. ASSUME NEW k \in 1..e - 1 PROVE u[k] = IF k < lost THEN k ELSE k + 1
      <4>1. CASE k <= n
        <5>1. k \in 1..n /\ k \in 1..L + Len(w) /\ k < lost
          BY <2>1, <3>1, <4>1
        <5>2. k <= L /\ v[k] = k
          BY <2>1, <5>1
        <5>3. u[k] = v[k]
          BY <1>1, <5>1, <5>2
        <5> QED
          BY <5>1, <5>2, <5>3
      <4>2. CASE ~(k <= n)
        <5>1. k - n \in 1..e - n - 1 /\ k \in 1..L + Len(w) /\ n + (k - n) = k
          BY <2>1, <3>1, <4>2
        <5>2. w[k - n] = IF k >= lost THEN k + 1 ELSE k
          BY <3>1, <5>1
        <5>3. u[k] = w[k - n]
          BY <1>1, <2>1, <4>2, <5>1
        <5> QED
          BY <3>1, <5>2, <5>3
      <4> QED
        BY <4>1, <4>2
    <3>3. Len(u) = e - 1 /\ lost \in 1..e
      BY <1>1, <2>1, <3>1
    <3>4. LacksOne(u, e, lost)
      BY <3>2, <3>3 DEF LacksOne
    <3> QED
      BY <1>1, <3>3, <3>4 DEF InStep, u
  <2> QED
    BY <2>2, <2>3
<1>4. CASE \E gap \in 1..n : LacksOne(v, n, gap)
  <2>1. PICK gap \in 1..n : LacksOne(v, n, gap)
    BY <1>4
  <2>2. L = n - 1 /\ n >= 1 /\ \A k \in 1..n - 1 : v[k] = IF k < gap THEN k ELSE k + 1
    BY <2>1 DEF LacksOne, L
  <2>3. Len(w) = e - n /\ \A k \in 1..e - n : w[k] = n + k
    BY <2>2 DEF L
  <2>4. ASSUME NEW k \in 1..e - 1 PROVE u[k] = IF k < gap THEN k ELSE k + 1
    <3>1. k \in 1..L + Len(w)
      BY <2>2, <2>3
    <3>2. CASE k <= n - 1
      <4>1. k \in 1..n - 1 /\ k <= L
        BY <2>2, <3>2
      <4> QED
        BY <1>1, <2>2, <3>1, <4>1
    <3>3. CASE ~(k <= n - 1)
      <4>1. k - L \in 1..e - n /\ n + (k - L) = k + 1 /\ ~(k <= L) /\ ~(k < gap)
        BY <2>2, <3>3
      <4>2. w[k - L] = k + 1
        BY <2>3, <4>1
      <4> QED
        BY <1>1, <3>1, <4>1, <4>2
    <3> QED
      BY <3>2, <3>3
  <2>5. Len(u) = e - 1 /\ gap \in 1..e
    BY <1>1, <2>2, <2>3
  <2>6. LacksOne(u, e, gap)
    BY <2>4, <2>5 DEF LacksOne
  <2> QED
    BY <1>1, <2>5, <2>6 DEF InStep, u
<1> QED
  BY <1>2, <1>3, <1>4

LEMMA BatchEmbeds ==
    ASSUME IndexingInv, EmbedBatch
    PROVE  Embedded'
<1>1. at = "embedding" /\ sent' = NextSent /\ UNCHANGED <<chunks, rows>>
      /\ at' = IF NextSent = Len(chunks) THEN "embedded" ELSE "embedding"
  BY DEF EmbedBatch
<1>2. PICK lost \in {None} \cup IF Len(vectors) = sent THEN SentNow ELSE {}, tells \in BOOLEAN :
          /\ vectors' = vectors \o Answered(lost)
          /\ known' = IF known = None \/ ~tells THEN None ELSE known + Cardinality(SentNow)
  BY DEF EmbedBatch
<1>3. /\ sent \in Nat /\ sent <= Len(chunks) /\ InStep(vectors, sent)
      /\ known \in Nat \cup {None} /\ (known # None => known = sent) /\ rows = <<>>
  BY <1>1 DEF IndexingInv, Embedded
<1>4. Len(chunks) \in Nat
  BY CutChunks DEF IndexingInv
<1> DEFINE e == NextSent
<1>5. e \in Nat /\ sent <= e /\ e <= Len(chunks)
  <2>1. sent + BatchSize \in Int /\ Len(chunks) \in Int /\ BatchSize \in Nat
    BY <1>3, <1>4, BatchAssumption
  <2>2. e = IF sent + BatchSize <= Len(chunks) THEN sent + BatchSize ELSE Len(chunks)
    BY <2>1, MinOfTwo DEF NextSent
  <2> QED
    BY <1>3, <1>4, <2>1, <2>2
<1>6. SentNow = sent + 1..e
  BY DEF SentNow
<1> HIDE DEF e
<1>7. IsFiniteSet(SentNow) /\ Cardinality(SentNow) = e - sent
  <2> DEFINE a == sent + 1
  <2>1. a \in Int /\ e \in Int /\ (a > e => e = sent)
        /\ (~(a > e) => e - a + 1 = e - sent) /\ e - e = 0
    BY <1>3, <1>5
  <2>2. SentNow = a..e
    BY <1>6
  <2> HIDE DEF a
  <2>3. Cardinality(a..e) = (IF a > e THEN 0 ELSE e - a + 1) /\ IsFiniteSet(a..e)
    BY <2>1, FS_Interval
  <2> QED
    BY <2>1, <2>2, <2>3
<1> DEFINE w == Answered(lost)
           n == sent
           v == vectors
<1>8. ASSUME lost = None PROVE InStep(v \o w, e)
  <2>1. SentNow \ {lost} = SentNow
    BY <1>3, <1>5, <1>6, <1>8, BatchAssumption
  <2>2. w = [k \in 1..e - n |-> n + k]
    BY <1>7, <1>8, <2>1 DEF Answered
  <2> HIDE DEF w
  <2>3. w \in [1..e - n -> Nat] /\ e - n \in Nat
    BY <1>3, <1>5, <2>2
  <2>4. w \in Seq(Nat) /\ Len(w) = e - n
    BY <2>2, <2>3
  <2>5. \A k \in 1..e - n : w[k] = n + k
    BY <2>2
  <2>6. InStep(v \o w, e)
    <3> HIDE DEF n, v
    <3>2. n \in Nat /\ n <= e /\ InStep(v, n)
      BY <1>3, <1>5 DEF n, v
    <3> QED
      BY <1>5, <2>4, <2>5, <3>2, BatchAfter
  <2> QED
    BY <2>6 DEF w
<1>9. ASSUME lost # None PROVE InStep(v \o w, e)
  <2>1. Len(v) = n /\ lost \in SentNow
    BY <1>9
  <2>2. lost \in n + 1..e /\ lost \in Nat
    BY <1>3, <1>5, <1>6, <2>1
  <2>3. Cardinality(SentNow \ {lost}) = e - n - 1
    <3>1. Cardinality(SentNow \ {lost}) = Cardinality(SentNow) - 1
      BY <1>7, <2>1, FS_RemoveElement
    <3> QED
      BY <1>7, <3>1
  <2>4. w = [k \in 1..e - n - 1 |-> IF n + k >= lost THEN n + k + 1 ELSE n + k]
    BY <1>9, <2>3 DEF Answered
  <2> HIDE DEF w
  <2>5. w \in [1..e - n - 1 -> Nat] /\ e - n - 1 \in Nat
    BY <1>3, <1>5, <2>2, <2>4
  <2>6. w \in Seq(Nat) /\ Len(w) = e - n - 1
    BY <2>4, <2>5
  <2>7. \A k \in 1..e - n - 1 : w[k] = IF n + k >= lost THEN n + k + 1 ELSE n + k
    BY <2>4
  <2>8. InStep(v \o w, e)
    <3> HIDE DEF n, v
    <3>2. n \in Nat /\ n <= e /\ InStep(v, n)
      BY <1>3, <1>5 DEF n, v
    <3>3. /\ Len(v) = n /\ lost \in n + 1..e /\ Len(w) = e - n - 1
          /\ \A k \in 1..e - n - 1 : w[k] = IF n + k >= lost THEN n + k + 1 ELSE n + k
      BY <2>1, <2>2, <2>6, <2>7
    <3>4. \A l : \/ /\ l = 0 /\ Len(w) = e - n
                    /\ \A k \in 1..e - n : w[k] = n + k
                 \/ /\ Len(v) = n /\ l \in n + 1..e /\ Len(w) = e - n - 1
                    /\ \A k \in 1..e - n - 1 : w[k] = IF n + k >= l THEN n + k + 1 ELSE n + k
                 => InStep(v \o w, e)
      BY <1>5, <2>6, <3>2, BatchAfter
    <3> QED
      BY <3>3, <3>4
  <2> QED
    BY <2>8 DEF w
<1>10. vectors' = v \o w /\ sent' = e
  BY <1>1, <1>2 DEF e
<1>11. InStep(vectors', sent')
  BY <1>8, <1>9, <1>10
<1>12. known' \in Nat \cup {None} /\ (known' # None => known' = sent')
  <2>1. CASE known = None \/ ~tells
    BY <1>2, <2>1
  <2>2. CASE ~(known = None \/ ~tells)
    <3>1. known' = known + Cardinality(SentNow) /\ known = sent
      BY <1>2, <1>3, <2>2
    <3>2. known' = e
      BY <1>3, <1>5, <1>7, <3>1
    <3> QED
      BY <1>5, <1>10, <3>2
  <2> QED
    BY <2>1, <2>2
<1>13. at' \in {"embedding", "embedded"} /\ (at' = "embedded" => e = Len(chunks))
  BY <1>1 DEF e
<1>14. sent' \in Nat /\ sent' <= Len(chunks') /\ rows' = <<>> /\ chunks' = chunks
  BY <1>1, <1>3, <1>5, <1>10
<1> QED
  BY <1>10, <1>11, <1>12, <1>13, <1>14 DEF Embedded

LEMMA IndexingInvHolds == IndexingSpec => []IndexingInv
<1>1. IndexingInit => IndexingInv
  <2> SUFFICES ASSUME IndexingInit PROVE IndexingInv
    OBVIOUS
  <2>1. Len(<<>>) = 0 /\ <<>> \in Seq(Nat) /\ 1..0 = {}
    OBVIOUS
  <2>2. InStep(<<>>, 0)
    BY <2>1 DEF InStep, Complete
  <2> QED
    BY <2>1, <2>2 DEF IndexingInit, IndexingInv, Cut, Embedded
<1>2. IndexingInv /\ [Indexing]_indexing => IndexingInv'
  <2> SUFFICES ASSUME IndexingInv, [Indexing]_indexing PROVE IndexingInv'
    OBVIOUS
  <2>1. CASE Load
    <3>1. PICK d \in DocTypes : \E t \in Texts(d) :
              /\ docType' = d /\ text' = t /\ chunks' = ChunkDocument(t, d)
              /\ at' = IF t = <<>> THEN "empty" ELSE "embedding"
      BY <2>1 DEF Load
    <3>2. PICK t \in Texts(d) :
              /\ docType' = d /\ text' = t /\ chunks' = ChunkDocument(t, d)
              /\ at' = IF t = <<>> THEN "empty" ELSE "embedding"
      BY <3>1
    <3>3. at' \in {"empty", "embedding"}
      BY <3>2
    <3>4. Cut'
      BY <3>2, <3>3 DEF Cut
    <3>5. Len(chunks') \in Nat
      BY <3>2, DocumentChunks
    <3>6. at = "new" /\ UNCHANGED <<sent, vectors, known, rows>>
      BY <2>1 DEF Load
    <3>7. Embedded'
      BY <3>3, <3>5, <3>6 DEF IndexingInv, Embedded
    <3> QED
      BY <3>3, <3>4, <3>7 DEF IndexingInv
  <2>2. CASE EmbedBatch
    <3>1. Embedded'
      BY <2>2, BatchEmbeds
    <3>2. at = "embedding" /\ at' \in {"embedding", "embedded"}
          /\ UNCHANGED <<text, docType, chunks>>
      BY <2>2 DEF EmbedBatch
    <3>3. Cut'
      BY <3>2 DEF IndexingInv, Cut
    <3> QED
      BY <3>1, <3>2, <3>3 DEF IndexingInv
  <2>3. CASE EmbedFails
    BY <2>3 DEF EmbedFails, IndexingInv, Cut, Embedded
  <2>4. CASE Store
    BY <2>4 DEF Store, IndexingInv, Cut, Embedded
  <2>5. CASE UNCHANGED indexing
    BY <2>5 DEF indexing, IndexingInv, Cut, Embedded
  <2> QED
    BY <2>1, <2>2, <2>3, <2>4, <2>5 DEF Indexing
<1> QED
  BY <1>1, <1>2, PTL DEF IndexingSpec

\* The rows that are stored.
LEMMA StoredRows ==
    ASSUME IndexingInv, at = "stored"
    PROVE  /\ InStep(vectors, sent) /\ sent \in Nat /\ sent = Len(chunks)
           /\ Len(vectors) \in Nat /\ Len(vectors) <= sent
           /\ Len(rows) = Len(vectors) /\ DOMAIN rows = 1..Len(vectors)
           /\ \A k \in 1..Len(vectors) : rows[k] = <<k, vectors[k]>>
<1>1. /\ InStep(vectors, sent) /\ sent \in Nat /\ sent = Len(chunks)
      /\ rows = [k \in 1..Min({Len(chunks), Len(vectors)}) |-> <<k, vectors[k]>>]
  BY DEF IndexingInv, Embedded
<1> DEFINE L == Len(vectors)
<1>2. L \in Nat /\ L <= sent
  <2>1. L \in Nat /\ (L = sent \/ L = sent - 1)
    BY <1>1 DEF InStep, Complete, LacksOne
  <2> QED
    BY <1>1, <2>1
<1>3. Min({Len(chunks), L}) = L
  <2>1. Len(chunks) \in Int /\ L \in Int
    BY <1>1, <1>2
  <2>2. Min({Len(chunks), L}) = IF Len(chunks) <= L THEN Len(chunks) ELSE L
    BY <2>1, MinOfTwo
  <2> QED
    BY <1>1, <1>2, <2>2
<1> HIDE DEF L
<1>4. rows = [k \in 1..L |-> <<k, vectors[k]>>]
  BY <1>1, <1>3 DEF L
<1>5. DOMAIN rows = 1..L /\ Len(rows) = L /\ \A k \in 1..L : rows[k] = <<k, vectors[k]>>
  BY <1>2, <1>4
<1> QED
  BY <1>1, <1>2, <1>5 DEF L

LEMMA RowsFit ==
    ASSUME IndexingInv
    PROVE  RowsHaveTheirVectors
<1> SUFFICES ASSUME at = "stored"
             PROVE  /\ \A k \in DOMAIN rows : rows[k][1] = k
                    /\ \A k \in DOMAIN rows :
                           rows[k][2] # k => \E j \in 1..k : j \notin Range(vectors)
                    /\ 1..Len(chunks) \subseteq Range(vectors) => Len(rows) = Len(chunks)
                    /\ known # None => known = Len(chunks)
  BY DEF RowsHaveTheirVectors
<1>1. /\ InStep(vectors, sent) /\ sent \in Nat /\ sent = Len(chunks)
      /\ Len(vectors) \in Nat /\ Len(vectors) <= sent
      /\ Len(rows) = Len(vectors) /\ DOMAIN rows = 1..Len(vectors)
      /\ \A k \in 1..Len(vectors) : rows[k] = <<k, vectors[k]>>
  BY StoredRows
<1>2. known # None => known = Len(chunks)
  BY <1>1 DEF IndexingInv, Embedded
<1>3. \A k \in DOMAIN rows : rows[k][1] = k /\ rows[k][2] = vectors[k]
  BY <1>1
<1>4. DOMAIN vectors = 1..Len(vectors)
  BY <1>1 DEF InStep
<1>5. CASE Complete(vectors, sent)
  <2>1. Len(vectors) = sent /\ \A k \in 1..sent : vectors[k] = k
    BY <1>5 DEF Complete
  <2> QED
    BY <1>1, <1>2, <1>3, <2>1
<1>6. CASE \E gap \in 1..sent : LacksOne(vectors, sent, gap)
  <2>1. PICK gap \in 1..sent : LacksOne(vectors, sent, gap)
    BY <1>6
  <2>2. Len(vectors) = sent - 1 /\ gap \in 1..sent
        /\ \A k \in 1..sent - 1 : vectors[k] = IF k < gap THEN k ELSE k + 1
    BY <2>1 DEF LacksOne
  <2>3. gap \notin Range(vectors)
    <3> SUFFICES ASSUME gap \in Range(vectors) PROVE FALSE
      OBVIOUS
    <3>1. PICK k \in 1..sent - 1 : vectors[k] = gap
      BY <1>4, <2>2 DEF Range
    <3>2. gap = IF k < gap THEN k ELSE k + 1
      BY <2>2, <3>1
    <3> QED
      BY <1>1, <2>2, <3>1, <3>2
  <2>4. ASSUME NEW k \in DOMAIN rows, rows[k][2] # k
        PROVE  \E j \in 1..k : j \notin Range(vectors)
    <3>1. k \in 1..sent - 1 /\ vectors[k] # k
      BY <1>1, <1>3, <2>2, <2>4
    <3>2. gap \in 1..k
      BY <1>1, <2>2, <3>1
    <3> QED
      BY <2>3, <3>2
  <2>5. ~(1..Len(chunks) \subseteq Range(vectors))
    BY <1>1, <2>2, <2>3
  <2> QED
    BY <1>2, <1>3, <2>4, <2>5
<1> QED
  BY <1>1, <1>5, <1>6 DEF InStep

\* Each vector is that of a text that was sent.
LEMMA VectorsOfSent ==
    ASSUME NEW v, NEW n \in Nat, InStep(v, n)
    PROVE  v \in Seq(1..n)
<1> DEFINE L == Len(v)
           S == 1..n
<1>1. v \in Seq(Nat) /\ L \in Nat /\ v = [k \in 1..L |-> v[k]]
  BY DEF InStep
<1>2. ASSUME NEW k \in 1..L PROVE v[k] \in S
  <2>1. CASE Complete(v, n)
    BY <2>1 DEF Complete
  <2>2. CASE \E gap \in 1..n : LacksOne(v, n, gap)
    <3>1. PICK gap \in 1..n : LacksOne(v, n, gap)
      BY <2>2
    <3>2. k \in 1..n - 1 /\ v[k] = IF k < gap THEN k ELSE k + 1
      BY <3>1 DEF LacksOne
    <3> QED
      BY <3>2
  <2> QED
    BY <2>1, <2>2 DEF InStep
<1> HIDE DEF L, S
<1>3. v \in [1..L -> S]
  BY <1>1, <1>2
<1>4. v \in Seq(S)
  BY <1>1, <1>3
<1> QED
  BY <1>4 DEF S

LEMMA IndexingTypes ==
    ASSUME IndexingInv
    PROVE  IndexingTypeOK
<1>1. /\ sent \in Nat /\ sent <= Len(chunks) /\ InStep(vectors, sent)
      /\ known \in Nat \cup {None} /\ (at # "stored" => rows = <<>>)
      /\ at \in {"new", "embedding", "embedded", "stored", "empty", "raised"}
  BY DEF IndexingInv, Embedded
<1>2. sent \in 0..Len(chunks)
  <2>1. Len(chunks) \in Nat
    BY CutChunks DEF IndexingInv
  <2> QED
    BY <1>1, <2>1
<1>3. vectors \in Seq(1..sent)
  BY <1>1, VectorsOfSent
<1>4. rows \in Seq((1..sent) \X (1..sent))
  <2> DEFINE S == (1..sent) \X (1..sent)
  <2>1. CASE at # "stored"
    BY <1>1, <2>1
  <2>2. CASE at = "stored"
    <3> DEFINE L == Len(vectors)
    <3>1. /\ L \in Nat /\ L <= sent /\ Len(rows) = L /\ DOMAIN rows = 1..L
          /\ \A k \in 1..L : rows[k] = <<k, vectors[k]>>
          /\ rows = [k \in 1..Min({Len(chunks), L}) |-> <<k, vectors[k]>>]
      BY <2>2, StoredRows DEF IndexingInv, Embedded
    <3>2. \A k \in 1..L : vectors[k] \in 1..sent
      BY <1>3, <3>1, ElementOfSeq
    <3> HIDE DEF L
    <3>3. ASSUME NEW k \in 1..L PROVE rows[k] \in S
      <4>1. k \in 1..sent /\ vectors[k] \in 1..sent
        BY <1>1, <3>1, <3>2
      <4>2. <<k, vectors[k]>> \in S
        BY <4>1
      <4>3. rows[k] = <<k, vectors[k]>>
        BY <3>1
      <4> QED
        BY <4>2, <4>3
    <3>4. rows = [k \in 1..L |-> rows[k]]
      BY <3>1
    <3> HIDE DEF S
    <3>5. rows \in [1..L -> S]
      BY <3>3, <3>4
    <3>6. rows \in Seq(S)
      <4>1. L \in Nat
        BY <3>1
      <4> QED
        BY <3>5, <4>1
    <3> QED
      BY <3>6 DEF S
  <2> QED
    BY <2>1, <2>2
<1> QED
  BY <1>1, <1>2, <1>3, <1>4 DEF IndexingTypeOK

\* Indexing never counts more texts, vectors or rows than there are chunks.
THEOREM IndexingTypeCorrect == IndexingSpec => []IndexingTypeOK
  BY IndexingInvHolds, IndexingTypes, PTL

\* Whatever the text, its type, the size of a chunk and the overlap are: each character
\* of the text that is no separator is in a chunk of chunk_document, no chunk is longer
\* than max_size, and two chunks share an overlap at most, if one follows the other.
THEOREM IndexingLosesNothing == IndexingSpec => []NothingLost
<1>1. IndexingInv => NothingLost
  BY CutLosesNothing DEF IndexingInv
<1> QED
  BY <1>1, IndexingInvHolds, PTL

\* char_start and char_end of a chunk whose segment stands in the text are where it
\* stands, or behind that by no more line breaks than joins added to the text before.
THEOREM IndexingOffsetsTell == IndexingSpec => []OffsetsTell
<1>1. IndexingInv => OffsetsTell
  BY CutOffsetsTell DEF IndexingInv
<1> QED
  BY <1>1, IndexingInvHolds, PTL

\* However many chunks there are and whatever the batches: the zip of chunks and
\* vectors pairs a chunk with the vector of another only behind one that got none.
THEOREM RowsKeepTheirVectors == IndexingSpec => []RowsHaveTheirVectors
  BY IndexingInvHolds, RowsFit, PTL
=============================================================================
