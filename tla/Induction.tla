----------------------------- MODULE Induction -----------------------------
(***************************************************************************)
(* Induction over the naturals and over finite sets with a set in place of *)
(* a predicate, and the existence of the functions the model defines by    *)
(* recursion: along the indices of a sequence (the loops of the generator, *)
(* of the sort and of the sum) and along the subsets of a finite set (the  *)
(* sums of counters).                                                      *)
(***************************************************************************)
EXTENDS Integers, FiniteSets, FiniteSetTheorems, TLAPS

(* A set of naturals that is not empty has a least element. *)
LEMMA LeastNatural ==
    ASSUME NEW T, T \subseteq Nat, T # {}
    PROVE  \E x \in T : \A y \in T : x <= y
<1>1. PICK x \in T : \A y \in T : <<y, x>> \notin OpToRel(<, Nat)
  BY NatLessThanWellFounded, WFMin
<1>2. \A y \in T : ~(y < x)
  BY <1>1 DEF OpToRel
<1> QED BY <1>2

(* A set with 0 and the successor of each of its elements up to n has all   *)
(* of 0 .. n: one turn of a loop after the other.                           *)
LEMMA CountUp ==
    ASSUME NEW n \in Nat, NEW T, 0 \in T,
           \A i \in 0 .. n - 1 : i \in T => i + 1 \in T
    PROVE  \A i \in 0 .. n : i \in T
<1> SUFFICES ASSUME (0 .. n) \ T # {} PROVE FALSE
  OBVIOUS
<1>0. (0 .. n) \ T \subseteq Nat
  OBVIOUS
<1>1. PICK x \in (0 .. n) \ T : \A y \in (0 .. n) \ T : x <= y
  BY <1>0, LeastNatural
<1>2. x # 0 /\ x - 1 \in 0 .. n - 1
  BY <1>1
<1>3. x - 1 \in T
  BY <1>1, <1>2
<1> QED BY <1>1, <1>2, <1>3

(* f holds the values of a loop over 1 .. n after every turn: it starts     *)
(* with a, and turn i applies G[i] to the value so far.                     *)
IsLoop(f, n, V, a, G) ==
    /\ f \in [0 .. n -> V]
    /\ f[0] = a
    /\ \A i \in 1 .. n : f[i] = G[i][f[i - 1]]

(* Every such loop computes something. *)
LEMMA LoopExists ==
    ASSUME NEW n \in Nat, NEW V, NEW a \in V, NEW G \in [1 .. n -> [V -> V]]
    PROVE  \E f : IsLoop(f, n, V, a, G)
<1> DEFINE T == {m \in 0 .. n : \E f : IsLoop(f, m, V, a, G)}
<1>1. 0 \in T
  <2>1. IsLoop([i \in 0 .. 0 |-> a], 0, V, a, G)
    BY DEF IsLoop
  <2> QED BY <2>1
<1>2. ASSUME NEW m \in 0 .. n - 1, m \in T PROVE m + 1 \in T
  <2>1. PICK f : IsLoop(f, m, V, a, G)
    BY <1>2
  <2> DEFINE g == [i \in 0 .. m + 1 |-> IF i <= m THEN f[i] ELSE G[m + 1][f[m]]]
  <2>2. f[m] \in V /\ m + 1 \in 1 .. n
    BY <2>1 DEF IsLoop
  <2>3. G[m + 1][f[m]] \in V
    BY <2>2
  <2>4. g \in [0 .. m + 1 -> V]
    BY <2>1, <2>3 DEF IsLoop
  <2>5. g[0] = a /\ \A i \in 1 .. m + 1 : g[i] = G[i][g[i - 1]]
    BY <2>1 DEF IsLoop
  <2>6. IsLoop(g, m + 1, V, a, G)
    BY <2>4, <2>5 DEF IsLoop
  <2> QED BY <2>6, <2>2
<1> HIDE DEF T
<1>3. \A i \in 0 .. n : i \in T
  BY <1>1, <1>2, CountUp
<1> QED BY <1>3 DEF T

(* The element a fold takes first. *)
First(s) == CHOOSE x \in s : TRUE

(* A family of subsets of a finite set that has the empty set, and a set    *)
(* whenever it has that set without its first element, has all subsets.     *)
LEMMA TakeOut ==
    ASSUME NEW S, IsFiniteSet(S), NEW T, {} \in T,
           \A s \in SUBSET S : s # {} /\ s \ {First(s)} \in T => s \in T
    PROVE  \A s \in SUBSET S : s \in T
<1> DEFINE N == Cardinality(S)
           U == {n \in 0 .. N : \A s \in SUBSET S : Cardinality(s) = n => s \in T}
<1>1. N \in Nat
  BY FS_CardinalityType
<1>2. \A s \in SUBSET S : IsFiniteSet(s) /\ Cardinality(s) \in 0 .. N
  BY FS_Subset, FS_CardinalityType
<1>3. 0 \in U
  <2>1. \A s \in SUBSET S : Cardinality(s) = 0 => s = {}
    BY <1>2, FS_EmptySet
  <2>2. 0 \in 0 .. N
    BY <1>1
  <2> HIDE DEF N
  <2> QED BY <2>1, <2>2
<1>4. ASSUME NEW n \in 0 .. N - 1, n \in U PROVE n + 1 \in U
  <2>1. SUFFICES ASSUME NEW s \in SUBSET S, Cardinality(s) = n + 1 PROVE s \in T
    BY <1>1
  <2>2. s # {}
    <3>1. n + 1 # 0
      BY <1>1
    <3> QED BY <2>1, <3>1, FS_EmptySet
  <2>3. First(s) \in s
    BY <2>2 DEF First
  <2>4. Cardinality(s \ {First(s)}) = n
    <3>1. Cardinality(s \ {First(s)}) = Cardinality(s) - 1
      BY <1>2, <2>3, FS_RemoveElement
    <3> QED BY <1>1, <2>1, <3>1
  <2> QED BY <1>4, <2>2, <2>4
<1> HIDE DEF U
<1>5. \A n \in 0 .. N : n \in U
  BY <1>1, <1>3, <1>4, CountUp
<1> QED BY <1>2, <1>5 DEF U

(* f holds the sums of g over the subsets of S, element by element as a     *)
(* fold takes them out.                                                     *)
IsSum(f, S, g) ==
    /\ f \in [SUBSET S -> Nat]
    /\ f[{}] = 0
    /\ \A s \in SUBSET S : s # {} => f[s] = g[First(s)] + f[s \ {First(s)}]

(* There are such sums for every finite set. *)
LEMMA SumExists ==
    ASSUME NEW S, IsFiniteSet(S), NEW g \in [S -> Nat]
    PROVE  \E f : IsSum(f, S, g)
<1> DEFINE N == Cardinality(S)
           V == [SUBSET S -> Nat]
           Turn(f) == [s \in SUBSET S |->
                         IF s = {} THEN 0 ELSE g[First(s)] + f[s \ {First(s)}]]
           G == [i \in 1 .. N + 1 |-> [f \in V |-> Turn(f)]]
           z == [s \in SUBSET S |-> 0]
<1>1. N \in Nat
  BY FS_CardinalityType
<1>2. \A s \in SUBSET S : s # {} => First(s) \in s
  BY DEF First
<1>3. z \in V /\ \A f \in V : Turn(f) \in V
  BY <1>2
<1> HIDE DEF V, Turn, z
<1>4. G \in [1 .. N + 1 -> [V -> V]]
  BY <1>3
<1>5. PICK F : IsLoop(F, N + 1, V, z, G)
  <2> HIDE DEF G, N
  <2> QED BY <1>1, <1>3, <1>4, LoopExists
<1>6. ASSUME NEW i \in 1 .. N + 1 PROVE F[i] = Turn(F[i - 1])
  <2>1. i - 1 \in 0 .. N + 1
    BY <1>1
  <2> QED BY <1>5, <2>1 DEF IsLoop
<1> HIDE DEF G, N
(* After i turns the sums of the sets with fewer than i elements are final. *)
<1> DEFINE Final(i) == \A s \in SUBSET S :
                          Cardinality(s) <= i => F[i][s] = F[i + 1][s]
           T == {i \in 0 .. N : Final(i)}
<1>7. \A s \in SUBSET S : IsFiniteSet(s) /\ Cardinality(s) \in 0 .. N
  BY FS_Subset, FS_CardinalityType DEF N
<1>8. 0 \in T
  <2>1. \A s \in SUBSET S : Cardinality(s) <= 0 => s = {}
    BY <1>7, FS_EmptySet
  <2>2. F[0][{}] = 0 /\ F[1][{}] = 0
    <3>1. F[1] = Turn(F[0])
      BY <1>1, <1>6
    <3> QED BY <3>1, <1>5 DEF IsLoop, Turn, z
  <2>3. Final(0)
    <3>1. 0 + 1 = 1
      OBVIOUS
    <3> QED BY <2>1, <2>2, <3>1
  <2> QED BY <1>1, <2>3
<1>9. ASSUME NEW i \in 0 .. N - 1, i \in T PROVE i + 1 \in T
  <2> SUFFICES ASSUME NEW s \in SUBSET S, Cardinality(s) <= i + 1
               PROVE  F[i + 1][s] = F[i + 1 + 1][s]
    <3>1. i + 1 \in 0 .. N
      BY <1>1
    <3> QED BY <3>1
  <2>1. F[i + 1] = Turn(F[i])
    BY <1>1, <1>6
  <2>0. F[i + 1 + 1] = Turn(F[i + 1])
    BY <1>1, <1>6
  <2>2. CASE s = {}
    BY <2>0, <2>1, <2>2 DEF Turn
  <2>3. CASE s # {}
    <3> DEFINE r == s \ {First(s)}
    <3>1. Cardinality(r) = Cardinality(s) - 1
      BY <1>2, <1>7, <2>3, FS_RemoveElement
    <3>2. F[i][r] = F[i + 1][r]
      BY <1>7, <1>9, <3>1
    <3> QED BY <2>0, <2>1, <2>3, <3>2 DEF Turn
  <2> QED BY <2>2, <2>3
<1> HIDE DEF T
<1>10. N \in T
  <2>1. \A i \in 0 .. N - 1 : i \in T => i + 1 \in T
    BY <1>9
  <2>2. \A i \in 0 .. N : i \in T
    BY <1>1, <1>8, <2>1, CountUp
  <2> QED BY <1>1, <2>2
<1>11. F[N] \in V /\ F[N + 1] \in V
  BY <1>1, <1>5 DEF IsLoop
<1>12. F[N] = F[N + 1]
  BY <1>7, <1>10, <1>11 DEF T, V
<1>13. F[N] = Turn(F[N])
  BY <1>1, <1>6, <1>12
<1>14. IsSum(F[N], S, g)
  BY <1>11, <1>13 DEF V, Turn, IsSum
<1> QED BY <1>14
=============================================================================
