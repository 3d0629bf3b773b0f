------------------------ MODULE LatencyReportProofs ------------------------
(***************************************************************************)
(* The latency summary of any period, however many samples it has: the     *)
(* sort is one, the elements read off by index are the percentiles, and    *)
(* the average lies between the smallest and the largest sample.           *)
(***************************************************************************)
EXTENDS LatencyReport, Induction, SequenceTheorems

(* Integer division keeps the order. *)
LEMMA DivMonotone ==
    ASSUME NEW d \in Nat \ {0}, NEW a \in Nat, NEW b \in Nat, a <= b
    PROVE  a \div d \in Nat /\ a \div d <= b \div d
OBVIOUS

(* The mean of n numbers lies between bounds of theirs. *)
LEMMA DivBounds ==
    ASSUME NEW n \in Nat \ {0}, NEW s \in Nat, NEW lo \in Nat, NEW hi \in Nat,
           n * lo <= s, s <= n * hi
    PROVE  s \div n \in Nat /\ lo <= s \div n /\ s \div n <= hi
OBVIOUS

(* The index n * p / 100, counted from 1, is one of a sample, and p% of the *)
(* samples are its predecessors, rounded down.                             *)
LEMMA PlaceInRange ==
    ASSUME NEW n \in Nat \ {0}, NEW p \in 0 .. 99
    PROVE  LET k == (n * p) \div 100 + 1
           IN  k \in 1 .. n /\ 100 * (k - 1) <= p * n /\ 100 * k > p * n
OBVIOUS

-----------------------------------------------------------------------------
(* The sort *)

(* The samples that stand before sample i in order, and i itself. *)
UpTo(s, i) == {j \in DOMAIN s : s[j] < s[i] \/ (s[j] = s[i] /\ j <= i)}

(* Of two samples, the one that comes first in order has the lower rank, and *)
(* the ranks are places of the vector.                                       *)
LEMMA RankOrders ==
    ASSUME NEW s \in Seq(Nat), NEW i \in 1 .. Len(s), NEW j \in 1 .. Len(s)
    PROVE  /\ Rank(s, i) \in 1 .. Len(s)
           /\ (s[i] < s[j] \/ (s[i] = s[j] /\ i < j)) => Rank(s, i) < Rank(s, j)
<1> DEFINE n == Len(s)
<1>1. /\ n \in Nat /\ DOMAIN s = 1 .. n /\ i \in 1 .. n /\ j \in 1 .. n
      /\ \A k \in 1 .. n : s[k] \in Nat
  OBVIOUS
<1> HIDE DEF n
<1>2. ASSUME NEW k \in 1 .. n
      PROVE  /\ UpTo(s, k) \subseteq 1 .. n /\ k \in UpTo(s, k)
             /\ IsFiniteSet(UpTo(s, k)) /\ Rank(s, k) = Cardinality(UpTo(s, k))
             /\ Cardinality(UpTo(s, k)) \in 1 .. n
  <2>1. UpTo(s, k) \subseteq 1 .. n /\ k \in UpTo(s, k)
    BY <1>1 DEF UpTo
  <2>2. IsFiniteSet(1 .. n) /\ Cardinality(1 .. n) = n
    BY <1>1, FS_Interval
  <2>3. IsFiniteSet(UpTo(s, k)) /\ Cardinality(UpTo(s, k)) <= n
    BY <2>1, <2>2, FS_Subset
  <2>4. Cardinality(UpTo(s, k)) \in Nat /\ Cardinality(UpTo(s, k)) # 0
    BY <2>1, <2>3, FS_CardinalityType, FS_EmptySet
  <2>5. Rank(s, k) = Cardinality(UpTo(s, k))
    BY DEF Rank, UpTo
  <2> QED BY <1>1, <2>1, <2>3, <2>4, <2>5
<1>3. ASSUME s[i] < s[j] \/ (s[i] = s[j] /\ i < j) PROVE Rank(s, i) < Rank(s, j)
  <2>1. UpTo(s, i) \subseteq UpTo(s, j)
    BY <1>1, <1>3 DEF UpTo
  <2>2. j \notin UpTo(s, i)
    BY <1>1, <1>3 DEF UpTo
  <2>3. UpTo(s, i) # UpTo(s, j)
    BY <1>1, <1>2, <2>2
  <2>4. /\ Cardinality(UpTo(s, i)) <= Cardinality(UpTo(s, j))
        /\ Cardinality(UpTo(s, i)) # Cardinality(UpTo(s, j))
    BY <1>1, <1>2, <2>1, <2>3, FS_Subset
  <2> QED BY <1>1, <1>2, <2>4
<1> QED BY <1>1, <1>2, <1>3 DEF n

(* t holds the first n elements of s in order, t[k] being the one that      *)
(* stands at q[k] in s: q moves the elements and neither loses nor repeats  *)
(* one.                                                                     *)
Orders(t, s, n, q) ==
    /\ t \in Seq(Nat) /\ Len(t) = n
    /\ \A i, j \in 1 .. n : i <= j => t[i] <= t[j]
    /\ q \in [1 .. n -> 1 .. n]
    /\ \A i \in 1 .. n : t[i] = s[q[i]]
    /\ \A i, j \in 1 .. n : q[i] = q[j] => i = j
    /\ \A m \in 1 .. n : \E i \in 1 .. n : q[i] = m

(* std::sort: the samples in order, all of them and no other. *)
LEMMA SortSorts ==
    ASSUME NEW s \in Seq(Nat)
    PROVE  \E q : Orders(Sorted(s), s, Len(s), q)
<1> DEFINE n == Len(s)
           r == [i \in 1 .. n |-> Rank(s, i)]
           q == [k \in 1 .. n |-> CHOOSE i \in 1 .. n : Rank(s, i) = k]
           t == [k \in 1 .. n |-> s[q[k]]]
<1>1. n \in Nat /\ DOMAIN s = 1 .. n /\ \A i \in 1 .. n : s[i] \in Nat
  OBVIOUS
<1>2. Sorted(s) = t
  BY <1>1 DEF Sorted
<1>3. \A i, j \in 1 .. n :
         /\ Rank(s, i) \in 1 .. n
         /\ (s[i] < s[j] \/ (s[i] = s[j] /\ i < j)) => Rank(s, i) < Rank(s, j)
  BY RankOrders
<1> HIDE DEF n
(* No two samples have one rank, so every place is the rank of a sample. *)
<1>4. r \in Injection(1 .. n, 1 .. n)
  <2>1. r \in [1 .. n -> 1 .. n]
    BY <1>3
  <2>2. ASSUME NEW i \in 1 .. n, NEW j \in 1 .. n, r[i] = r[j] PROVE i = j
    <3>1. Rank(s, i) = Rank(s, j) /\ Rank(s, i) \in Nat
      BY <1>1, <1>3, <2>2
    <3>2. ~(Rank(s, i) < Rank(s, j)) /\ ~(Rank(s, j) < Rank(s, i))
      BY <3>1
    <3> QED BY <1>1, <1>3, <3>2
  <2> QED BY <2>1, <2>2 DEF Injection, IsInjective
<1>5. \A k \in 1 .. n : \E i \in 1 .. n : Rank(s, i) = k
  <2>1. IsFiniteSet(1 .. n)
    BY <1>1, FS_Interval
  <2> HIDE DEF r
  <2>2. r \in Surjection(1 .. n, 1 .. n)
    BY <1>4, <2>1, FS_Injection
  <2> QED BY <2>2 DEF Surjection, r
<1>6. \A k \in 1 .. n : q[k] \in 1 .. n /\ Rank(s, q[k]) = k
  BY <1>5
<1>7. q \in [1 .. n -> 1 .. n]
  BY <1>6
<1>8. \A i, j \in 1 .. n : q[i] = q[j] => i = j
  BY <1>6
<1>9. ASSUME NEW m \in 1 .. n PROVE \E i \in 1 .. n : q[i] = m
  <2>1. Rank(s, m) \in 1 .. n
    BY <1>3
  <2>2. q[Rank(s, m)] \in 1 .. n /\ Rank(s, q[Rank(s, m)]) = Rank(s, m)
    BY <1>6, <2>1
  <2>3. q[Rank(s, m)] = m
    <3> HIDE DEF q
    <3> QED BY <1>4, <2>2 DEF Injection, IsInjective
  <2> QED BY <2>1, <2>3
<1> HIDE DEF q
<1>10. t \in Seq(Nat) /\ Len(t) = n /\ \A k \in 1 .. n : t[k] = s[q[k]]
  BY <1>1, <1>7
<1>11. ASSUME NEW k \in 1 .. n, NEW l \in 1 .. n, k <= l PROVE t[k] <= t[l]
  <2>1. ~(Rank(s, q[l]) < Rank(s, q[k]))
    BY <1>1, <1>6, <1>11
  <2>2. ~(s[q[l]] < s[q[k]])
    BY <1>3, <1>6, <2>1
  <2> QED BY <1>1, <1>6, <1>10, <2>2
<1>12. Orders(t, s, n, q)
  <2> HIDE DEF t
  <2> QED BY <1>7, <1>8, <1>9, <1>10, <1>11 DEF Orders
<1> QED BY <1>2, <1>12 DEF n

-----------------------------------------------------------------------------
(* The sum *)

(* The sum goes through the samples one by one. *)
LEMMA SumLoop ==
    ASSUME NEW s \in Seq(Nat)
    PROVE  \E c : /\ Sum(s) = c[Len(s)]
                  /\ c[0] = 0
                  /\ \A i \in 1 .. Len(s) : c[i] = c[i - 1] + s[i]
<1> DEFINE n == Len(s)
           G == [i \in 1 .. n |-> [t \in Nat |-> t + s[i]]]
           Eq(c) == c = [i \in 0 .. n |-> IF i = 0 THEN 0 ELSE c[i - 1] + s[i]]
           c == CHOOSE c : Eq(c)
<1>1. n \in Nat /\ \A i \in 1 .. n : s[i] \in Nat
  OBVIOUS
<1>2. Sum(s) = c[n]
  BY DEF Sum
<1> HIDE DEF n
<1>3. 0 \in Nat /\ G \in [1 .. n -> [Nat -> Nat]]
  BY <1>1
<1>4. PICK f : IsLoop(f, n, Nat, 0, G)
  <2> HIDE DEF G
  <2> QED BY <1>1, <1>3, LoopExists
<1>5. Eq(f)
  <2>1. f \in [0 .. n -> Nat] /\ f[0] = 0
    BY <1>4 DEF IsLoop
  <2>2. ASSUME NEW i \in 1 .. n PROVE f[i] = f[i - 1] + s[i]
    <3>1. i - 1 \in 0 .. n
      BY <1>1
    <3> QED BY <1>4, <2>1, <3>1 DEF IsLoop
  <2>3. \A i \in 0 .. n : i # 0 => i \in 1 .. n
    BY <1>1
  <2> QED BY <2>1, <2>2, <2>3
<1>6. Eq(c)
  <2> HIDE DEF Eq
  <2> QED BY <1>5
<1> HIDE DEF c
<1>7. c[0] = 0 /\ \A i \in 1 .. n : c[i] = c[i - 1] + s[i]
  BY <1>1, <1>6
<1> QED BY <1>2, <1>7 DEF n

(* Bounds of the samples bound their sum. *)
LEMMA SumBounds ==
    ASSUME NEW s \in Seq(Nat), NEW lo \in Nat, NEW hi \in Nat,
           \A i \in 1 .. Len(s) : lo <= s[i] /\ s[i] <= hi
    PROVE  Sum(s) \in Nat /\ Len(s) * lo <= Sum(s) /\ Sum(s) <= Len(s) * hi
<1> DEFINE n == Len(s)
<1>1. n \in Nat /\ \A i \in 1 .. n : s[i] \in Nat /\ lo <= s[i] /\ s[i] <= hi
  OBVIOUS
<1>2. PICK c : /\ Sum(s) = c[n]
               /\ c[0] = 0
               /\ \A i \in 1 .. n : c[i] = c[i - 1] + s[i]
  BY SumLoop
<1> HIDE DEF n
<1> DEFINE T == {i \in 0 .. n : c[i] \in Nat /\ i * lo <= c[i] /\ c[i] <= i * hi}
<1>3. 0 \in T
  <2>1. 0 * lo = 0 /\ 0 * hi = 0 /\ 0 \in 0 .. n
    BY <1>1
  <2> QED BY <1>2, <2>1
<1>4. ASSUME NEW i \in 0 .. n - 1, i \in T PROVE i + 1 \in T
  <2>1. i + 1 \in 1 .. n /\ i + 1 \in 0 .. n /\ (i + 1) - 1 = i /\ i \in Nat
    BY <1>1
  <2>2. c[i + 1] = c[i] + s[i + 1]
    BY <1>2, <2>1
  <2>3. /\ (i + 1) * lo = i * lo + lo /\ (i + 1) * hi = i * hi + hi
        /\ i * lo \in Nat /\ i * hi \in Nat
    BY <2>1
  <2>4. s[i + 1] \in Nat /\ lo <= s[i + 1] /\ s[i + 1] <= hi
    BY <1>1, <2>1
  <2>5. c[i] \in Nat /\ i * lo <= c[i] /\ c[i] <= i * hi
    BY <1>4
  <2>6. /\ c[i + 1] \in Nat
        /\ (i + 1) * lo <= c[i + 1] /\ c[i + 1] <= (i + 1) * hi
    <3> DEFINE a == i * lo
               b == i * hi
    <3> HIDE DEF a, b
    <3>1. (i + 1) * lo = a + lo /\ (i + 1) * hi = b + hi /\ a \in Nat /\ b \in Nat
      BY <2>3 DEF a, b
    <3>2. a <= c[i] /\ c[i] <= b
      BY <2>5 DEF a, b
    <3> QED BY <2>2, <2>4, <2>5, <3>1, <3>2
  <2> QED BY <2>1, <2>6
<1> HIDE DEF T
<1>5. n \in T
  <2>1. \A i \in 0 .. n : i \in T
    BY <1>1, <1>3, <1>4, CountUp
  <2> QED BY <1>1, <2>1
<1> QED BY <1>2, <1>5 DEF T, n

-----------------------------------------------------------------------------
(* The line *)

(* The element at the rank of p% among the ordered samples is the p-th      *)
(* percentile by counting.                                                  *)
LEMMA RankIsPercentile ==
    ASSUME NEW s \in Seq(Nat), s # <<>>, NEW t, NEW q,
           Orders(t, s, Len(s), q), NEW p \in 0 .. 99
    PROVE  LET k == (Len(s) * p) \div 100 + 1
           IN  /\ k \in 1 .. Len(s)
               /\ Percentile(t, Len(s), p) = t[k]
               /\ IsPercentile(s, t[k], p)
<1> DEFINE n == Len(s)
           k == (n * p) \div 100 + 1
           v == t[k]
           B == {i \in DOMAIN s : s[i] < v}
           C == {i \in DOMAIN s : s[i] <= v}
<1>1. n \in Nat \ {0} /\ DOMAIN s = 1 .. n /\ Len(t) = n
  BY DEF Orders
<1>2. k \in 1 .. n /\ 100 * (k - 1) <= p * n /\ 100 * k > p * n
  <2> HIDE DEF n
  <2> QED BY <1>1, PlaceInRange
<1>3. Percentile(t, Len(s), p) = t[k]
  BY <1>1 DEF Percentile
<1>4. IsPercentile(s, v, p)
         = (100 * Cardinality(B) <= p * n /\ 100 * Cardinality(C) > p * n)
  BY DEF IsPercentile, CountIf
<1> HIDE DEF n, k
<1>5. /\ q \in [1 .. n -> 1 .. n]
      /\ \A i \in 1 .. n : t[i] = s[q[i]]
      /\ \A i, j \in 1 .. n : q[i] = q[j] => i = j
      /\ \A m \in 1 .. n : \E i \in 1 .. n : q[i] = m
      /\ \A i, j \in 1 .. n : i <= j => t[i] <= t[j]
  BY DEF Orders, n
<1>6. \A i \in 1 .. n : t[i] \in Nat
  <2>1. t \in Seq(Nat)
    BY DEF Orders
  <2> QED BY <1>1, <2>1
<1> HIDE DEF v
<1>7. IsFiniteSet(B) /\ IsFiniteSet(C)
  <2>1. B \subseteq 1 .. n /\ C \subseteq 1 .. n
    BY <1>1
  <2>2. IsFiniteSet(1 .. n)
    BY <1>1, FS_Interval
  <2> HIDE DEF B, C
  <2> QED BY <2>1, <2>2, FS_Subset
(* Fewer than k elements are below the k-th. *)
<1>8. Cardinality(B) <= k - 1
  <2> DEFINE A == {i \in 1 .. k - 1 : t[i] < v}
             f == [i \in A |-> q[i]]
  <2>1. \A i \in 1 .. n : t[i] < v => i \in A
    <3>1. \A i \in 1 .. n : k <= i => v <= t[i]
      BY <1>2, <1>5 DEF v
    <3>2. v \in Nat
      BY <1>2, <1>6 DEF v
    <3> QED BY <1>2, <1>6, <3>1, <3>2
  <2>2. \A i \in A : i \in 1 .. n
    BY <1>1, <1>2
  <2>3. f \in Surjection(A, B)
    <3>1. f \in [A -> B]
      BY <1>1, <1>5, <2>2
    <3>2. ASSUME NEW m \in B PROVE \E i \in A : f[i] = m
      <4>1. PICK i \in 1 .. n : q[i] = m
        BY <1>1, <1>5
      <4>2. i \in A
        BY <1>5, <2>1, <4>1
      <4> QED BY <4>1, <4>2
    <3> QED BY <3>1, <3>2 DEF Surjection
  <2>4. A \subseteq 1 .. k - 1
    OBVIOUS
  <2>8. IsFiniteSet(1 .. k - 1) /\ Cardinality(1 .. k - 1) = k - 1
    <3>1. 1 \in Int /\ k - 1 \in Int /\ k - 1 >= 0
      BY <1>1, <1>2
    <3> QED BY <3>1, FS_Interval
  <2> HIDE DEF A, f, B
  <2>5. IsFiniteSet(A) /\ Cardinality(A) <= Cardinality(1 .. k - 1)
    BY <2>4, <2>8, FS_Subset
  <2>6. Cardinality(B) <= Cardinality(A)
    BY <2>3, <2>5, FS_Surjection
  <2>7. Cardinality(A) \in Nat /\ Cardinality(B) \in Nat
    BY <1>7, <2>5, FS_CardinalityType
  <2> QED BY <1>1, <1>2, <2>5, <2>6, <2>7, <2>8
(* The first k elements are not above it. *)
<1>9. k <= Cardinality(C)
  <2> DEFINE f == [i \in 1 .. k |-> q[i]]
  <2>1. \A i \in 1 .. k : i \in 1 .. n /\ t[i] <= v
    <3>1. \A i \in 1 .. k : i \in 1 .. n /\ i <= k
      BY <1>1, <1>2
    <3> QED BY <1>2, <1>5, <3>1 DEF v
  <2>2. f \in Injection(1 .. k, C)
    <3>1. f \in [1 .. k -> C]
      BY <1>1, <1>5, <2>1
    <3>2. \A i, j \in 1 .. k : f[i] = f[j] => i = j
      BY <1>5, <2>1
    <3> QED BY <3>1, <3>2 DEF Injection, IsInjective
  <2>3. Cardinality(1 .. k) = k
    BY <1>2, FS_Interval
  <2> HIDE DEF f, C
  <2>4. Cardinality(1 .. k) <= Cardinality(C)
    BY <1>7, <2>2, FS_Injection
  <2> QED BY <2>3, <2>4
<1>10. Cardinality(B) \in Nat /\ Cardinality(C) \in Nat
  BY <1>7, FS_CardinalityType
<1> HIDE DEF B, C
<1>11. 100 * Cardinality(B) <= p * n /\ 100 * Cardinality(C) > p * n
  <2>1. p * n \in Nat /\ k \in Nat
    BY <1>1, <1>2
  <2> QED BY <1>2, <1>8, <1>9, <1>10, <2>1
<1> QED BY <1>2, <1>3, <1>4, <1>11 DEF n, k, v

(* flush_report: p50 and p99 of the line are the median and the 99th        *)
(* percentile of the samples, whatever their number.                        *)
LEMMA LinePercentiles ==
    ASSUME NEW s \in Seq(Nat), s # <<>>
    PROVE  PercentilesOf(LatencyLine(s), s)
<1> DEFINE t == Sorted(s)
           l == LatencyLine(s)
<1>1. PICK q : Orders(t, s, Len(s), q)
  BY SortSorts
<1>2. /\ l.samples = Len(s)
      /\ l.p50_us = Percentile(t, Len(s), 50) \div NS_PER_US
      /\ l.p99_us = Percentile(t, Len(s), 99) \div NS_PER_US
  BY DEF LatencyLine
<1> HIDE DEF t, l
<1>3. ASSUME NEW p \in 0 .. 99
      PROVE  \E i \in DOMAIN s : /\ IsPercentile(s, s[i], p)
                                  /\ Percentile(t, Len(s), p) = s[i]
  <2> DEFINE k == (Len(s) * p) \div 100 + 1
  <2>1. k \in 1 .. Len(s) /\ Percentile(t, Len(s), p) = t[k] /\ IsPercentile(s, t[k], p)
    BY <1>1, RankIsPercentile
  <2> HIDE DEF k
  <2>2. q[k] \in 1 .. Len(s) /\ t[k] = s[q[k]]
    BY <1>1, <2>1 DEF Orders
  <2>3. DOMAIN s = 1 .. Len(s)
    OBVIOUS
  <2> QED BY <2>1, <2>2, <2>3
<1>4. 50 \in 0 .. 99 /\ 99 \in 0 .. 99
  OBVIOUS
<1>5. PICK i \in DOMAIN s : /\ IsPercentile(s, s[i], 50)
                          /\ Percentile(t, Len(s), 50) = s[i]
  BY <1>3, <1>4
<1>6. PICK j \in DOMAIN s : /\ IsPercentile(s, s[j], 99)
                          /\ Percentile(t, Len(s), 99) = s[j]
  BY <1>3, <1>4
<1>7. PercentilesOf(l, s)
  BY <1>2, <1>5, <1>6 DEF PercentilesOf
<1> QED BY <1>7 DEF l

(* flush_report: the figures of the line are in order and within the range  *)
(* of the samples.                                                          *)
LEMMA LineConsistent ==
    ASSUME NEW s \in Seq(Nat), s # <<>>
    PROVE  ConsistentWith(LatencyLine(s), s)
<1> DEFINE t == Sorted(s)
           l == LatencyLine(s)
           n == Len(s)
           U == NS_PER_US
<1>1. PICK q : Orders(t, s, n, q)
  BY SortSorts
<1>2. /\ l.avg_us = (Sum(s) \div n) \div U
      /\ l.p50_us = Percentile(t, n, 50) \div U
      /\ l.p99_us = Percentile(t, n, 99) \div U
      /\ l.max_us = t[n] \div U
  BY DEF LatencyLine
<1>3. /\ n \in Nat \ {0} /\ DOMAIN s = 1 .. n /\ U \in Nat \ {0}
      /\ \A i \in 1 .. n : s[i] \in Nat
  BY UnitAssumption
<1> HIDE DEF t, l
<1>4. /\ q \in [1 .. n -> 1 .. n]
      /\ \A i \in 1 .. n : t[i] = s[q[i]]
      /\ \A m \in 1 .. n : \E i \in 1 .. n : q[i] = m
      /\ \A i, j \in 1 .. n : i <= j => t[i] <= t[j]
  BY <1>1 DEF Orders
<1> DEFINE a == (n * 50) \div 100 + 1
           b == (n * 99) \div 100 + 1
<1>5. Percentile(t, n, 50) = t[a] /\ Percentile(t, n, 99) = t[b]
  BY <1>1 DEF Percentile, Orders
<1> HIDE DEF n, U
<1>6. a \in 1 .. n /\ b \in 1 .. n /\ a <= b
  <2>1. 50 \in 0 .. 99 /\ 99 \in 0 .. 99
    OBVIOUS
  <2>2. a \in 1 .. n /\ b \in 1 .. n
    BY <1>3, <2>1, PlaceInRange
  <2>3. n * 50 <= n * 99 /\ n * 50 \in Nat /\ n * 99 \in Nat /\ 100 \in Nat \ {0}
    BY <1>3
  <2>4. (n * 50) \div 100 <= (n * 99) \div 100
    BY <2>3, DivMonotone
  <2> QED BY <1>3, <2>2, <2>3, <2>4
<1> HIDE DEF a, b
<1>7. \A i \in 1 .. n : t[i] \in Nat
  BY <1>3, <1>4
<1>8. 1 \in 1 .. n /\ n \in 1 .. n /\ \A i \in 1 .. n : 1 <= i /\ i <= n
  BY <1>3
<1>9. t[a] <= t[b] /\ t[b] <= t[n]
  BY <1>4, <1>6, <1>8
<1>10. ASSUME NEW m \in 1 .. n PROVE t[1] <= s[m] /\ s[m] <= t[n]
  <2>1. PICK i \in 1 .. n : q[i] = m
    BY <1>4
  <2>2. t[i] = s[m]
    BY <1>4, <2>1
  <2> QED BY <1>4, <1>8, <2>2
<1>11. Sum(s) \in Nat /\ n * t[1] <= Sum(s) /\ Sum(s) <= n * t[n]
  BY <1>7, <1>8, <1>10, SumBounds DEF n
<1>12. /\ Sum(s) \div n \in Nat
       /\ t[1] <= Sum(s) \div n /\ Sum(s) \div n <= t[n]
  BY <1>3, <1>7, <1>8, <1>11, DivBounds
<1>m. ASSUME NEW x \in Nat, NEW y \in Nat, x <= y PROVE x \div U <= y \div U
  BY <1>3, <1>m, DivMonotone
<1>13. l.p50_us <= l.p99_us /\ l.p99_us <= l.max_us
  <2>1. t[a] \in Nat /\ t[b] \in Nat /\ t[n] \in Nat
    BY <1>6, <1>7, <1>8
  <2>2. t[a] \div U <= t[b] \div U /\ t[b] \div U <= t[n] \div U
    BY <1>9, <1>m, <2>1
  <2> QED BY <1>2, <1>5, <2>2
<1>14. ASSUME NEW i \in 1 .. n PROVE s[i] \div U <= l.max_us
  <2>1. s[i] \in Nat /\ t[n] \in Nat /\ s[i] <= t[n]
    BY <1>3, <1>7, <1>8, <1>10
  <2>2. s[i] \div U <= t[n] \div U
    BY <1>m, <2>1
  <2> QED BY <1>2, <2>2
<1>15. l.avg_us <= l.max_us
  <2>1. t[n] \in Nat
    BY <1>7, <1>8
  <2>2. (Sum(s) \div n) \div U <= t[n] \div U
    BY <1>12, <1>m, <2>1
  <2> QED BY <1>2, <2>2
<1>16. \E i \in DOMAIN s : s[i] \div U <= l.avg_us
  <2>1. q[1] \in DOMAIN s /\ s[q[1]] = t[1]
    BY <1>3, <1>4, <1>8
  <2>2. t[1] \in Nat
    BY <1>7, <1>8
  <2>3. t[1] \div U <= (Sum(s) \div n) \div U
    BY <1>12, <1>m, <2>2
  <2> QED BY <1>2, <2>1, <2>3
<1>17. ConsistentWith(l, s)
  BY <1>3, <1>13, <1>14, <1>15, <1>16 DEF ConsistentWith, U
<1> QED BY <1>17 DEF l
=============================================================================
