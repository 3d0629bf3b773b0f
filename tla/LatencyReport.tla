--------------------------- MODULE LatencyReport ---------------------------
(***************************************************************************)
(* The [STATS] latency summary of StatsCollector::flush_report: the        *)
(* samples of the period are sorted and the average, the median, the 99th  *)
(* percentile and the maximum are read off by index, in microseconds.      *)
(***************************************************************************)
EXTENDS Integers, Sequences, FiniteSets

CONSTANT NS_PER_US      \* 1000: nanoseconds of a reported microsecond

ASSUME UnitAssumption == NS_PER_US \in Nat \ {0}

(* Faulty variant: the sort is left out. *)
Unsorted(s) == s

(* The place of sample i in the sorted vector: behind the smaller samples,  *)
(* and behind the equal ones before it.                                     *)
Rank(s, i) ==
    Cardinality({j \in DOMAIN s : s[j] < s[i] \/ (s[j] = s[i] /\ j <= i)})

(* std::sort over the period's samples. *)
Sorted(s) == [k \in DOMAIN s |-> s[CHOOSE i \in DOMAIN s : Rank(s, i) = k]]

(* for (auto v : latency_) sum += v *)
Sum(s) == LET upTo[i \in 0 .. Len(s)] == IF i = 0 THEN 0 ELSE upTo[i - 1] + s[i]
          IN  upTo[Len(s)]

(* Faulty variant: the rank is taken of the last index, not of the size. *)
PercentileOfLast(t, n, p) == t[((n - 1) * p) \div 100 + 1]

(* latency_[n * p / 100] of a 0-based vector of size n. *)
Percentile(t, n, p) == t[(n * p) \div 100 + 1]

LatencyLine(s) ==
    LET t == Sorted(s)
        n == Len(s)
    IN  [kind    |-> "latency",
         samples |-> n,
         avg_us  |-> (Sum(s) \div n) \div NS_PER_US,
         p50_us  |-> Percentile(t, n, 50) \div NS_PER_US,
         p99_us  |-> Percentile(t, n, 99) \div NS_PER_US,
         max_us  |-> t[n] \div NS_PER_US]

-----------------------------------------------------------------------------
(* What the line says of the samples s *)

CountIf(s, P(_)) == Cardinality({i \in DOMAIN s : P(s[i])})

(* v is the p-th percentile by counting: no more than p% of the samples are *)
(* below it and more than p% of them are not above it.                      *)
IsPercentile(s, v, p) ==
    /\ 100 * CountIf(s, LAMBDA x : x < v) <= p * Len(s)
    /\ 100 * CountIf(s, LAMBDA x : x <= v) > p * Len(s)

(* The percentiles of line l are those of s, in microseconds. *)
PercentilesOf(l, s) ==
    /\ l.samples = Len(s)
    /\ \E i \in DOMAIN s : /\ IsPercentile(s, s[i], 50)
                            /\ l.p50_us = s[i] \div NS_PER_US
    /\ \E i \in DOMAIN s : /\ IsPercentile(s, s[i], 99)
                            /\ l.p99_us = s[i] \div NS_PER_US

(* The median does not exceed the 99th percentile, nor that the maximum; no *)
(* sample exceeds the maximum and the average lies between the extremes.    *)
ConsistentWith(l, s) ==
    /\ l.p50_us <= l.p99_us /\ l.p99_us <= l.max_us
    /\ \A i \in DOMAIN s : s[i] \div NS_PER_US <= l.max_us
    /\ l.avg_us <= l.max_us
    /\ \E i \in DOMAIN s : s[i] \div NS_PER_US <= l.avg_us
=============================================================================
