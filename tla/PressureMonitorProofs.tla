----------------------- MODULE PressureMonitorProofs ------------------------
(***************************************************************************)
(* Proofs about PressureMonitor, for every set of loads, every size of the *)
(* history and every scale of the scores. The monitor averages, so the     *)
(* module begins with sums and averages; those of the global pressure rest *)
(* on the same lemmas.                                                     *)
(*                                                                         *)
(* A sum is a recursion, and what it amounts to takes an induction. The    *)
(* induction is carried out with a set in the place of a predicate: the    *)
(* set of the numbers, or of the sets, for which a statement holds.        *)
(***************************************************************************)
EXTENDS PressureMonitor, FiniteSetTheorems, WellFoundedInduction, TLAPS

-----------------------------------------------------------------------------
(* Induction and sums.                                                     *)

(* Induction over the natural numbers. The set of those for which the      *)
(* statement holds takes the place of the statement.                       *)
LEMMA NaturalsByInduction ==
    ASSUME NEW G, 0 \in G, \A n \in Nat : n \in G => n + 1 \in G
    PROVE  Nat \subseteq G
<1>. DEFINE Less == {ss \in Nat \X Nat : ss[1] < ss[2]}
            T == Nat \ G
<1>1. IsWellFoundedOn(Less, Nat)
  BY NatLessThanWellFounded DEF OpToRel
<1>2. \A m, n \in Nat : <<m, n>> \in Less <=> m < n
  OBVIOUS
<1>. HIDE DEF Less
<1>. SUFFICES ASSUME T # {}
              PROVE  FALSE
  OBVIOUS
<1>3. PICK n \in T : \A m \in T : <<m, n>> \notin Less
  BY <1>1, WFMin
<1>4. n \in Nat /\ n # 0 /\ n - 1 \in Nat
  OBVIOUS
<1>5. <<n - 1, n>> \in Less
  BY <1>2, <1>4
<1>6. n - 1 \in G
  BY <1>3, <1>4, <1>5
<1>. QED  BY <1>3, <1>4, <1>6

(* The element the sum takes next, and what it makes of a set.             *)
Some(s) == CHOOSE x \in s : TRUE

Summed(f, g, s) == IF s = {} THEN 0 ELSE f[Some(s)] + g[s \ {Some(s)}]

(* A set without one of its elements.                                      *)
LEMMA WithoutSome ==
    ASSUME NEW S, IsFiniteSet(S), NEW s \in SUBSET S, s # {}
    PROVE  /\ Some(s) \in s /\ Some(s) \in S
           /\ s \ {Some(s)} \in SUBSET S
           /\ Cardinality(s) \in Nat /\ Cardinality(s \ {Some(s)}) \in Nat
           /\ Cardinality(s) = Cardinality(s \ {Some(s)}) + 1
<1>1. Some(s) \in s
  BY DEF Some
<1>2. IsFiniteSet(s)
  BY FS_Subset
<1>3. IsFiniteSet(s \ {Some(s)}) /\ Cardinality(s \ {Some(s)}) = Cardinality(s) - 1
  BY <1>1, <1>2, FS_RemoveElement
<1>4. Cardinality(s) \in Nat /\ Cardinality(s \ {Some(s)}) \in Nat
  BY <1>2, <1>3, FS_CardinalityType
<1>. QED  BY <1>1, <1>3, <1>4

(* Only the empty set has no elements.                                     *)
LEMMA OnlyEmpty ==
    ASSUME NEW S, IsFiniteSet(S), NEW s \in SUBSET S
    PROVE  Cardinality(s) \in Nat /\ (Cardinality(s) = 0 <=> s = {})
<1>1. IsFiniteSet(s)
  BY FS_Subset
<1>. QED  BY <1>1, FS_CardinalityType, FS_EmptySet

(* Induction over the subsets of a finite set.                             *)
LEMMA SubsetsByInduction ==
    ASSUME NEW S, IsFiniteSet(S), NEW G, {} \in G,
           \A s \in SUBSET S : s # {} /\ s \ {Some(s)} \in G => s \in G
    PROVE  S \in G
<1>. DEFINE H == {n \in Nat : \A s \in SUBSET S : Cardinality(s) = n => s \in G}
<1>1. 0 \in H
  <2>. SUFFICES ASSUME NEW s \in SUBSET S, Cardinality(s) = 0
                PROVE  s \in G
    OBVIOUS
  <2>1. s = {}
    BY OnlyEmpty
  <2>. QED  BY <2>1
<1>2. ASSUME NEW n \in Nat, n \in H
      PROVE  n + 1 \in H
  <2>. SUFFICES ASSUME NEW s \in SUBSET S, Cardinality(s) = n + 1
                PROVE  s \in G
    OBVIOUS
  <2>1. s # {}
    <3>1. Cardinality(s) # 0
      OBVIOUS
    <3>. QED  BY <3>1, OnlyEmpty
  <2>2. s \ {Some(s)} \in SUBSET S /\ Cardinality(s \ {Some(s)}) = n
    BY <2>1, WithoutSome
  <2>3. s \ {Some(s)} \in G
    BY <1>2, <2>2
  <2>. QED  BY <2>1, <2>3
<1>. HIDE DEF H
<1>3. Nat \subseteq H
  BY <1>1, <1>2, NaturalsByInduction
<1>4. Cardinality(S) \in Nat
  BY FS_CardinalityType
<1>5. Cardinality(S) \in H
  BY <1>3, <1>4
<1>. QED  BY <1>5 DEF H

(* The recursion of the sum has a solution: one for the subsets of up to n *)
(* elements extends to those of up to n + 1.                               *)
LEMMA SumIsDefined ==
    ASSUME NEW f, NEW S, IsFiniteSet(S)
    PROVE  \E g : g = [s \in SUBSET S |-> Summed(f, g, s)]
<1>. DEFINE Small(n) == {s \in SUBSET S : Cardinality(s) <= n}
            G == {n \in Nat : \E g : g = [s \in Small(n) |-> Summed(f, g, s)]}
<1>1. 0 \in G
  <2>1. ASSUME NEW s \in Small(0)
        PROVE  s = {}
    <3>1. Cardinality(s) = 0
      BY OnlyEmpty
    <3>. QED  BY <3>1, OnlyEmpty
  <2>. DEFINE g == [s \in Small(0) |-> 0]
  <2>2. g = [s \in Small(0) |-> Summed(f, g, s)]
    BY <2>1 DEF Summed
  <2>. QED  BY <2>2
<1>2. ASSUME NEW n \in Nat, n \in G
      PROVE  n + 1 \in G
  <2>1. PICK g : g = [s \in Small(n) |-> Summed(f, g, s)]
    BY <1>2
  <2>. DEFINE h == [s \in Small(n + 1) |-> Summed(f, g, s)]
  <2>2. ASSUME NEW s \in Small(n + 1)
        PROVE  Summed(f, g, s) = Summed(f, h, s)
    <3>1. CASE s = {}
      BY <3>1 DEF Summed
    <3>2. CASE s # {}
      <4>1. s \ {Some(s)} \in Small(n) /\ s \ {Some(s)} \in Small(n + 1)
        BY <3>2, WithoutSome
      <4>2. g[s \ {Some(s)}] = Summed(f, g, s \ {Some(s)})
        BY <2>1, <4>1
      <4>3. h[s \ {Some(s)}] = Summed(f, g, s \ {Some(s)})
        BY <4>1
      <4>. QED  BY <3>2, <4>2, <4>3 DEF Summed
    <3>. QED  BY <3>1, <3>2
  <2>3. h = [s \in Small(n + 1) |-> Summed(f, h, s)]
    BY <2>2
  <2>. HIDE DEF h
  <2>. QED  BY <2>3
<1>. HIDE DEF G
<1>3. Nat \subseteq G
  BY <1>1, <1>2, NaturalsByInduction
<1>4. Cardinality(S) \in Nat
  BY FS_CardinalityType
<1>5. PICK g : g = [s \in Small(Cardinality(S)) |-> Summed(f, g, s)]
  BY <1>3, <1>4 DEF G
<1>6. Small(Cardinality(S)) = SUBSET S
  BY FS_Subset
<1>. QED  BY <1>5, <1>6

(* The sum of the library is a value of such a solution.                   *)
SumsUp(g, f, S) == /\ SumFunctionOnSet(f, S) = g[S]
                   /\ \A s \in SUBSET S : g[s] = Summed(f, g, s)

LEMMA SumIsSolution ==
    ASSUME NEW f, NEW S, IsFiniteSet(S)
    PROVE  \E g : SumsUp(g, f, S)
<1>. DEFINE sum == CHOOSE g : g = [s \in SUBSET S |-> Summed(f, g, s)]
<1>1. SumFunctionOnSet(f, S) = sum[S]
  BY DEF SumFunctionOnSet, FoldFunctionOnSet, MapThenFoldSet, Summed, Some
<1>2. sum = [s \in SUBSET S |-> Summed(f, sum, s)]
  BY SumIsDefined
<1>. HIDE DEF sum
<1>3. \A s \in SUBSET S : sum[s] = Summed(f, sum, s)
  BY <1>2
<1>. QED  BY <1>1, <1>3 DEF SumsUp

(* A sum of natural numbers lies between the number of its terms times the *)
(* least and times the greatest of them.                                   *)
LEMMA SumBounds ==
    ASSUME NEW S, IsFiniteSet(S), NEW f, NEW least \in Nat,
           \A x \in S : f[x] \in Nat /\ least <= f[x]
    PROVE  /\ SumFunctionOnSet(f, S) \in Nat
           /\ least * Cardinality(S) <= SumFunctionOnSet(f, S)
           /\ \A most \in Nat : (\A x \in S : f[x] <= most) =>
                  SumFunctionOnSet(f, S) <= most * Cardinality(S)
<1>1. PICK g : SumsUp(g, f, S)
  BY SumIsSolution
<1>2. g[{}] = 0
  BY <1>1 DEF SumsUp, Summed
<1>3. ASSUME NEW s \in SUBSET S, s # {}
      PROVE  g[s] = f[Some(s)] + g[s \ {Some(s)}]
  BY <1>1, <1>3 DEF SumsUp, Summed
<1>4. g[S] \in Nat /\ least * Cardinality(S) <= g[S]
  <2>. DEFINE G == {s \in SUBSET S : g[s] \in Nat /\ least * Cardinality(s) <= g[s]}
  <2>1. {} \in G
    BY <1>2, FS_EmptySet
  <2>2. ASSUME NEW s \in SUBSET S, s # {}, s \ {Some(s)} \in G
        PROVE  s \in G
    <3>. DEFINE c == Cardinality(s \ {Some(s)})
    <3>1. c \in Nat /\ Cardinality(s) = c + 1 /\ Some(s) \in S
      BY <2>2, WithoutSome
    <3>2. g[s \ {Some(s)}] \in Nat /\ least * c <= g[s \ {Some(s)}]
      BY <2>2
    <3>. HIDE DEF c
    <3>3. least * (c + 1) = least * c + least /\ least * c \in Nat
      BY <3>1
    <3>4. f[Some(s)] \in Nat /\ least <= f[Some(s)]
      BY <3>1
    <3>5. g[s] = f[Some(s)] + g[s \ {Some(s)}]
      BY <1>3, <2>2
    <3>6. g[s] \in Nat /\ least * c + least <= g[s]
      BY <3>2, <3>3, <3>4, <3>5
    <3>. QED  BY <3>1, <3>3, <3>6
  <2>. HIDE DEF G
  <2>3. S \in G
    BY <2>1, <2>2, SubsetsByInduction
  <2>. QED  BY <2>3 DEF G
<1>5. ASSUME NEW most \in Nat, \A x \in S : f[x] <= most
      PROVE  g[S] <= most * Cardinality(S)
  <2>. DEFINE G == {s \in SUBSET S : g[s] \in Nat /\ g[s] <= most * Cardinality(s)}
  <2>1. {} \in G
    BY <1>2, FS_EmptySet
  <2>2. ASSUME NEW s \in SUBSET S, s # {}, s \ {Some(s)} \in G
        PROVE  s \in G
    <3>. DEFINE c == Cardinality(s \ {Some(s)})
    <3>1. c \in Nat /\ Cardinality(s) = c + 1 /\ Some(s) \in S
      BY <2>2, WithoutSome
    <3>2. g[s \ {Some(s)}] \in Nat /\ g[s \ {Some(s)}] <= most * c
      BY <2>2
    <3>. HIDE DEF c
    <3>3. most * (c + 1) = most * c + most /\ most * c \in Nat
      BY <3>1
    <3>4. f[Some(s)] \in Nat /\ f[Some(s)] <= most
      BY <1>5, <3>1
    <3>5. g[s] = f[Some(s)] + g[s \ {Some(s)}]
      BY <1>3, <2>2
    <3>6. g[s] \in Nat /\ g[s] <= most * c + most
      BY <3>2, <3>3, <3>4, <3>5
    <3>. QED  BY <3>1, <3>3, <3>6
  <2>. HIDE DEF G
  <2>3. S \in G
    BY <2>1, <2>2, SubsetsByInduction
  <2>. QED  BY <2>3 DEF G
<1>. QED  BY <1>1, <1>4, <1>5 DEF SumsUp

(* Functions that agree on a set have the same sum on it.                  *)
LEMMA SumsAgree ==
    ASSUME NEW S, IsFiniteSet(S), NEW f, NEW h, \A x \in S : f[x] = h[x]
    PROVE  SumFunctionOnSet(f, S) = SumFunctionOnSet(h, S)
<1>1. \A e : \E g : SumsUp(g, e, S)
  BY SumIsSolution
<1>2. PICK a : SumsUp(a, f, S)
  BY <1>1
<1>3. PICK b : SumsUp(b, h, S)
  BY <1>1
<1>. DEFINE G == {s \in SUBSET S : a[s] = b[s]}
<1>4. {} \in G
  BY <1>2, <1>3 DEF SumsUp, Summed
<1>5. ASSUME NEW s \in SUBSET S, s # {}, s \ {Some(s)} \in G
      PROVE  s \in G
  <2>1. f[Some(s)] = h[Some(s)]
    BY <1>5, WithoutSome
  <2>2. a[s] = f[Some(s)] + a[s \ {Some(s)}] /\ b[s] = h[Some(s)] + b[s \ {Some(s)}]
    BY <1>2, <1>3, <1>5 DEF SumsUp, Summed
  <2>. QED  BY <1>5, <2>1, <2>2
<1>. HIDE DEF G
<1>6. S \in G
  BY <1>4, <1>5, SubsetsByInduction
<1>. QED  BY <1>2, <1>3, <1>6 DEF G, SumsUp

-----------------------------------------------------------------------------
(* Averages.                                                               *)

(* What integer division returns.                                          *)
LEMMA Quotient ==
    ASSUME NEW a \in Nat, NEW b \in Nat \ {0}
    PROVE  /\ a \div b \in Nat
           /\ (a \div b) * b <= a
           /\ a < (a \div b) * b + b
OBVIOUS

(* It is the only number of which that is true.                            *)
LEMMA QuotientIs ==
    ASSUME NEW a \in Nat, NEW b \in Nat \ {0}, NEW q \in Nat,
           q * b <= a, a < q * b + b
    PROVE  a \div b = q
OBVIOUS

(* A common factor makes no difference to it.                              *)
LEMMA QuotientCancels ==
    ASSUME NEW a \in Nat, NEW b \in Nat \ {0}, NEW c \in Nat \ {0}
    PROVE  (c * a) \div (c * b) = a \div b
<1>. DEFINE q == a \div b
<1>1. q \in Nat /\ q * b <= a /\ a < q * b + b
  BY Quotient
<1>. HIDE DEF q
<1>2. c * (q * b) <= c * a /\ c * a < c * (q * b + b)
  BY <1>1
<1>3. c * (q * b) = q * (c * b) /\ c * (q * b + b) = q * (c * b) + c * b
  BY <1>1
<1>4. c * a \in Nat /\ c * b \in Nat \ {0}
  OBVIOUS
<1>5. (c * a) \div (c * b) = q
  BY <1>1, <1>2, <1>3, <1>4, QuotientIs
<1>. QED  BY <1>5 DEF q

(* Multiplication keeps the order.                                         *)
LEMMA ProductsAscend ==
    ASSUME NEW m \in Nat, NEW n \in Nat, m < n, NEW c \in Nat \ {0}
    PROVE  m * c < n * c
OBVIOUS

(* An average of natural numbers is one, and not above all of them.        *)
LEMMA AverageBounds ==
    ASSUME NEW S, IsFiniteSet(S), S # {}, NEW f, NEW V \in SUBSET Nat,
           \A x \in S : f[x] \in V
    PROVE  /\ SumFunctionOnSet(f, S) \div Cardinality(S) \in Nat
           /\ \E v \in V : SumFunctionOnSet(f, S) \div Cardinality(S) <= v
<1>. DEFINE sum == SumFunctionOnSet(f, S)
            c == Cardinality(S)
            average == sum \div c
<1>1. c \in Nat \ {0}
  BY OnlyEmpty
<1>2. ASSUME NEW x \in S
      PROVE  f[x] \in Nat /\ 0 <= f[x]
  <2>1. f[x] \in V
    OBVIOUS
  <2>2. f[x] \in Nat
    BY <2>1
  <2>. QED  BY <2>2
<1>3. /\ sum \in Nat
      /\ \A most \in Nat : (\A x \in S : f[x] <= most) => sum <= most * c
  BY <1>2, SumBounds, 0 \in Nat
<1>. HIDE DEF sum, c
<1>4. average \in Nat /\ average * c <= sum
  BY <1>1, <1>3, Quotient
<1>. HIDE DEF average
<1>5. ASSUME \A v \in V : ~ (average <= v)
      PROVE  FALSE
  <2>1. PICK x \in S : f[x] \in V
    OBVIOUS
  <2>2. f[x] \in Nat /\ ~ (average <= f[x])
    BY <1>5, <2>1
  <2>3. average - 1 \in Nat /\ average - 1 < average
    BY <1>4, <2>2
  <2>4. ASSUME NEW y \in S
        PROVE  f[y] <= average - 1
    <3>1. f[y] \in Nat /\ ~ (average <= f[y])
      BY <1>5
    <3>. QED  BY <1>4, <3>1
  <2>5. sum <= (average - 1) * c
    BY <1>3, <2>3, <2>4
  <2>6. (average - 1) * c < average * c
    BY <1>1, <1>4, <2>3, ProductsAscend
  <2>7. (average - 1) * c \in Nat /\ average * c \in Nat
    BY <1>1, <1>4, <2>3
  <2>. QED  BY <1>3, <1>4, <2>5, <2>6, <2>7
<1>. QED  BY <1>4, <1>5 DEF average, sum, c

-----------------------------------------------------------------------------
(* The local pressure.                                                     *)

(* The smaller of two numbers, the greater of one and another.             *)
LEMMA LeastIs ==
    ASSUME NEW a \in Nat, NEW b \in Nat
    PROVE  Least(a, b) = IF a <= b THEN a ELSE b
BY DEF Least, Min

LEMMA AtLeastOne ==
    ASSUME NEW n \in Nat
    PROVE  Max({1, n}) = IF n = 0 THEN 1 ELSE n
BY DEF Max

(* The sum over a sequence is the one of the lemmas above.                 *)
LEMMA SumOfSamples ==
    ASSUME NEW samples \in Seq(Nat)
    PROVE  SumFunction(samples) = SumFunctionOnSet(samples, 1..Len(samples))
<1>1. DOMAIN samples = 1..Len(samples)
  OBVIOUS
<1>. QED  BY <1>1 DEF SumFunction

(* The score of the lag, from the sum of the samples.                      *)
LEMMA LagScoreIs ==
    ASSUME NEW samples \in Seq(Nat)
    PROVE  LET n   == IF Len(samples) = 0 THEN 1 ELSE Len(samples)
               sum == SumFunctionOnSet(samples, 1..Len(samples))
           IN  /\ sum \in Nat
               /\ \E q \in Nat :
                      /\ q = (100 * sum) \div (n * LagFull)
                      /\ LagScore(samples) = IF 100 <= q THEN 100 ELSE q
<1>. DEFINE n == IF Len(samples) = 0 THEN 1 ELSE Len(samples)
            sum == SumFunctionOnSet(samples, 1..Len(samples))
            q == (100 * sum) \div (n * LagFull)
<1>1. n \in Nat \ {0} /\ Max({1, Len(samples)}) = n
  BY AtLeastOne
<1>2. sum \in Nat
  <2>1. IsFiniteSet(1..Len(samples))
    BY FS_Interval
  <2>2. \A i \in 1..Len(samples) : samples[i] \in Nat /\ 0 <= samples[i]
    OBVIOUS
  <2>. QED  BY <2>1, <2>2, SumBounds, 0 \in Nat
<1>3. LagFull \in Nat \ {0}
  BY LoadAssumption DEF LoadsAreMeasured
<1>. HIDE DEF n
<1>4. LagScore(samples) = Least(100, q)
  BY <1>1, SumOfSamples DEF LagScore
<1>. HIDE DEF sum
<1>5. 100 * sum \in Nat /\ n * LagFull \in Nat \ {0}
  BY <1>1, <1>2, <1>3
<1>6. q \in Nat
  BY <1>5, Quotient
<1>7. Least(100, q) = IF 100 <= q THEN 100 ELSE q
  BY <1>6, LeastIs
<1>8. \E k \in Nat : k = q /\ LagScore(samples) = IF 100 <= k THEN 100 ELSE k
  BY <1>4, <1>6, <1>7
<1>. QED  BY <1>2, <1>8 DEF sum, n

(* It is a percentage.                                                     *)
LEMMA LagScoreType ==
    ASSUME NEW samples \in Seq(Nat)
    PROVE  LagScore(samples) \in 0..100
<1>1. PICK q \in Nat : LagScore(samples) = IF 100 <= q THEN 100 ELSE q
  BY LagScoreIs
<1>. QED  BY <1>1

(* A steady lag scores the same however many samples there are of it.      *)
LEMMA SteadyLagScore ==
    ASSUME NEW lag \in Nat,
           NEW samples \in Seq(Nat), samples # <<>>,
           \A i \in 1..Len(samples) : samples[i] = lag
    PROVE  LagScore(samples) =
               IF 100 <= (100 * lag) \div LagFull THEN 100
                                                  ELSE (100 * lag) \div LagFull
<1>. DEFINE n == Len(samples)
            sum == SumFunctionOnSet(samples, 1..Len(samples))
<1>1. n \in Nat \ {0}
  OBVIOUS
<1>2. sum \in Nat /\ lag * n <= sum /\ sum <= lag * n
  <2>1. IsFiniteSet(1..n) /\ Cardinality(1..n) = n
    BY <1>1, FS_Interval
  <2>2. \A i \in 1..n : samples[i] \in Nat /\ lag <= samples[i] /\ samples[i] <= lag
    OBVIOUS
  <2>. QED  BY <2>1, <2>2, SumBounds
<1>3. LagScore(samples) =
          IF 100 <= (100 * sum) \div (n * LagFull) THEN 100
                                                   ELSE (100 * sum) \div (n * LagFull)
  BY <1>1, LagScoreIs
<1>. HIDE DEF n, sum
<1>4. LagFull \in Nat \ {0}
  BY LoadAssumption DEF LoadsAreMeasured
<1>5. sum = lag * n
  <2>1. lag * n \in Nat
    BY <1>1
  <2>. QED  BY <1>2, <2>1
<1>6. 100 * sum = n * (100 * lag) /\ 100 * lag \in Nat
  BY <1>1, <1>5
<1>7. (100 * sum) \div (n * LagFull) = (100 * lag) \div LagFull
  <2>1. (n * (100 * lag)) \div (n * LagFull) = (100 * lag) \div LagFull
    BY <1>1, <1>4, <1>6, QuotientCancels
  <2>. QED  BY <1>6, <2>1
<1>. QED  BY <1>3, <1>7

(* The score of the requests is a percentage, and zero without requests.   *)
LEMMA RpsLoadType ==
    ASSUME NEW requests \in Nat
    PROVE  /\ RpsLoad(requests) \in 0..100
           /\ RpsLoad(0) = 0
<1>1. RequestsFull \in Nat \ {0}
  BY LoadAssumption DEF LoadsAreMeasured
<1>2. 100 * requests \in Nat /\ 100 * 0 = 0
  OBVIOUS
<1>3. (100 * requests) \div RequestsFull \in Nat
  BY <1>1, <1>2, Quotient
<1>4. 0 \div RequestsFull = 0
  BY <1>1
<1>5. RpsLoad(requests) \in 0..100
  <2>. DEFINE q == (100 * requests) \div RequestsFull
  <2>1. RpsLoad(requests) = Least(100, q)
    BY DEF RpsLoad
  <2>. HIDE DEF q
  <2>. QED  BY <1>3, <2>1, LeastIs DEF q
<1>6. RpsLoad(0) = 0
  <2>1. RpsLoad(0) = Least(100, 0)
    BY <1>2, <1>4 DEF RpsLoad
  <2>. QED  BY <2>1, LeastIs
<1>. QED  BY <1>5, <1>6

(* A score of percentages is not above the ceiling.                        *)
LEMMA ScoreType ==
    ASSUME NEW memory \in 0..100, NEW lagScore \in 0..100, NEW rpsLoad \in 0..100
    PROVE  Score(memory, lagScore, rpsLoad) \in 0..Ceiling
BY DEF Score, Ceiling

(* A sample is added, and the oldest one dropped when there are too many.  *)
LEMMA RecordedIs ==
    ASSUME NEW samples \in Seq(Nat), Len(samples) <= HistorySize,
           NEW lag \in Nat
    PROVE  /\ Recorded(samples, lag) \in Seq(Nat)
           /\ Len(Recorded(samples, lag)) \in 1..HistorySize
           /\ (\A i \in 1..Len(samples) : samples[i] = lag) =>
                  \A i \in 1..Len(Recorded(samples, lag)) :
                      Recorded(samples, lag)[i] = lag
<1>1. HistorySize \in Nat \ {0}
  BY LoadAssumption DEF LoadsAreMeasured
<1>2. CASE Len(samples) < HistorySize
  BY <1>1, <1>2 DEF Recorded
<1>3. CASE ~ (Len(samples) < HistorySize)
  <2>1. Len(samples) = HistorySize /\ samples # <<>>
    BY <1>1, <1>3
  <2>2. /\ Tail(samples) \in Seq(Nat) /\ Len(Tail(samples)) = HistorySize - 1
        /\ \A i \in 1..(HistorySize - 1) : Tail(samples)[i] = samples[i + 1]
    BY <1>1, <2>1
  <2>3. Recorded(samples, lag) = Append(Tail(samples), lag)
    BY <1>3 DEF Recorded
  <2>. HIDE DEF Recorded
  <2>. QED  BY <1>1, <2>1, <2>2, <2>3
<1>. QED  BY <1>2, <1>3

(* Every step of the monitor keeps the types.                              *)
LEMMA NextType ==
    ASSUME TypeOK, [Next]_vars
    PROVE  TypeOK'
<1>0. /\ load \in Load /\ load.memory \in 0..100 /\ load.lag \in Nat
      /\ history \in Seq(Nat) /\ Len(history) <= HistorySize
      /\ requestCounts \in Nat /\ RequestsFull \in Nat
  BY LoadAssumption DEF LoadsAreMeasured, TypeOK
<1>1. CASE LoadChanges
  BY <1>1 DEF LoadChanges, TypeOK
<1>2. CASE ReportRequest
  <2>1. Least(requestCounts + 1, RequestsFull) \in 0..RequestsFull
    BY <1>0, LeastIs
  <2>. QED  BY <1>2, <2>1 DEF ReportRequest, TypeOK
<1>3. CASE SampleLag
  <2>1. /\ Recorded(history, load.lag) \in Seq(Nat)
        /\ Len(Recorded(history, load.lag)) \in 1..HistorySize
    BY <1>0, RecordedIs
  <2>2. Len(Recorded(history, load.lag)) <= HistorySize
    BY <2>1
  <2>. QED  BY <1>3, <2>1, <2>2 DEF SampleLag, TypeOK
<1>4. CASE CalculatePressure
  <2>1. /\ LagScore(history) \in 0..100
        /\ RpsLoad(requestCounts) \in 0..100
    BY <1>0, LagScoreType, RpsLoadType
  <2>2. currentPressure' \in 0..Ceiling
    BY <1>0, <1>4, <2>1, ScoreType DEF CalculatePressure
  <2>3. requestCounts' \in 0..RequestsFull
    BY <1>0, <1>4 DEF CalculatePressure
  <2>. QED  BY <1>4, <2>2, <2>3 DEF CalculatePressure, TypeOK
<1>5. CASE UNCHANGED vars
  BY <1>5 DEF vars, TypeOK
<1>. QED  BY <1>1, <1>2, <1>3, <1>4, <1>5 DEF Next

(* The local pressure stays between nothing and the score of a load that   *)
(* is at its maximum in every signal the code measures, and the history    *)
(* within its size.                                                        *)
THEOREM TypeCorrect == Spec => []TypeOK
<1>1. Init => TypeOK
  <2>1. Ceiling \in Nat
    BY DEF Ceiling, Score
  <2>. QED  BY <2>1, LoadAssumption DEF Init, TypeOK, LoadsAreMeasured
<1>2. TypeOK /\ [Next]_vars => TypeOK'
  BY NextType
<1>. QED  BY <1>1, <1>2, PTL DEF Spec

(* The history holds samples of the load alone. The pressure has settled at*)
(* what the load is worth.                                                 *)
Steady(l) ==
    /\ history \in Seq(Nat) /\ Len(history) \in 1..HistorySize
    /\ \A i \in 1..Len(history) : history[i] = l.lag

AtWorth(l) == currentPressure = Score(l.memory, LagScore(<<l.lag>>), 0)

Settled(l) == load = l /\ Steady(l) /\ requestCounts = 0 /\ AtWorth(l)

(* Such a history scores as one sample does.                               *)
LEMMA SteadyScore ==
    ASSUME NEW l \in Load, Steady(l)
    PROVE  Score(l.memory, LagScore(history), RpsLoad(0)) =
               Score(l.memory, LagScore(<<l.lag>>), 0)
<1>0. l.lag \in Nat /\ HistorySize \in Nat
  BY LoadAssumption DEF LoadsAreMeasured
<1>1. RpsLoad(0) = 0
  BY RpsLoadType, 0 \in Nat
<1>2. <<l.lag>> \in Seq(Nat) /\ <<l.lag>> # <<>>
  BY <1>0
<1>3. \A i \in 1..Len(<<l.lag>>) : <<l.lag>>[i] = l.lag
  OBVIOUS
<1>4. /\ history \in Seq(Nat) /\ history # <<>>
      /\ \A i \in 1..Len(history) : history[i] = l.lag
  BY <1>0 DEF Steady
<1>5. LagScore(history) = LagScore(<<l.lag>>)
  BY <1>0, <1>2, <1>3, <1>4, SteadyLagScore
<1>. QED  BY <1>1, <1>5

(* While the load lasts, further samples keep the history steady.          *)
LEMMA SteadyStays ==
    ASSUME NEW l \in Load, Steady(l), load = l, [Next]_vars
    PROVE  Steady(l)'
<1>0. /\ l.lag \in Nat /\ HistorySize \in Nat
      /\ history \in Seq(Nat) /\ Len(history) <= HistorySize
      /\ \A i \in 1..Len(history) : history[i] = l.lag
  BY LoadAssumption DEF LoadsAreMeasured, Steady
<1>1. CASE SampleLag
  <2>1. history' = Recorded(history, l.lag)
    BY <1>1 DEF SampleLag
  <2>2. /\ history' \in Seq(Nat) /\ Len(history') \in 1..HistorySize
        /\ \A i \in 1..Len(history') : history'[i] = l.lag
    BY <1>0, <2>1, RecordedIs
  <2>. QED  BY <2>2 DEF Steady
<1>2. CASE UNCHANGED history
  BY <1>2 DEF Steady
<1>. QED  BY <1>1, <1>2
          DEF Next, LoadChanges, ReportRequest, CalculatePressure, vars

(* No requests are counted while none arrive.                              *)
LEMMA NoneCounted ==
    ASSUME NEW l \in Load, ~ l.busy, load = l, requestCounts = 0, [Next]_vars
    PROVE  requestCounts' = 0
BY DEF Next, LoadChanges, ReportRequest, SampleLag, CalculatePressure, vars

(* A calculation then settles the pressure.                                *)
LEMMA CalculationSettles ==
    ASSUME NEW l \in Load, load = l, Steady(l), requestCounts = 0,
           CalculatePressure
    PROVE  Settled(l)'
<1>1. /\ currentPressure' = Score(l.memory, LagScore(<<l.lag>>), 0)
      /\ requestCounts' = 0 /\ UNCHANGED <<load, history>>
  BY SteadyScore DEF CalculatePressure
<1>. QED  BY <1>1 DEF Settled, Steady, AtWorth

(* The safety half of PressureFollowsLoad: while a load without requests   *)
(* lasts, neither another sample nor another calculation moves a pressure  *)
(* that has settled, although the average is taken again over a longer or  *)
(* a shifted history.                                                      *)
THEOREM SettledStays ==
    ASSUME NEW l \in Load, ~ l.busy
    PROVE  Spec => [](Settled(l) /\ [](load = l) => []Settled(l))
<1>1. ASSUME Settled(l), [Next]_vars, load' = l
      PROVE  Settled(l)'
  <2>1. load = l /\ Steady(l) /\ requestCounts = 0 /\ AtWorth(l)
    BY <1>1 DEF Settled
  <2>2. CASE CalculatePressure
    BY <2>1, <2>2, CalculationSettles
  <2>3. CASE UNCHANGED currentPressure
    <3>1. Steady(l)' /\ requestCounts' = 0
      BY <1>1, <2>1, SteadyStays, NoneCounted
    <3>2. AtWorth(l)'
      BY <2>1, <2>3 DEF AtWorth
    <3>. QED  BY <1>1, <3>1, <3>2 DEF Settled
  <2>. QED  BY <1>1, <2>2, <2>3
            DEF Next, LoadChanges, ReportRequest, SampleLag, vars
<1>. DEFINE LoadLasts == load = l
<1>2. Settled(l) /\ LoadLasts' /\ [Next]_vars => Settled(l)'
  BY <1>1
<1>. HIDE DEF LoadLasts
<1>3. Spec => [](Settled(l) /\ []LoadLasts => []Settled(l))
  BY <1>2, PTL DEF Spec
<1>. QED  BY <1>3 DEF LoadLasts

-----------------------------------------------------------------------------
(* The pressure follows the load. The fairness of FairSpec is spelled out  *)
(* with the guards of the actions in the place of ENABLED.                 *)

(* Another calculation would change nothing.                               *)
Calculated ==
    /\ requestCounts = 0
    /\ currentPressure = Score(load.memory, LagScore(history),
                               RpsLoad(requestCounts))

(* The timer of the calculation keeps firing (WF_vars(CalculatePressure)). *)
CalculationsCome == []<>Calculated \/ []<><<CalculatePressure>>_vars

(* Another sample of the load would change nothing.                        *)
Unmoved == Recorded(history, load.lag) = history

(* So does the other (WF_vars(SampleLag)).                                 *)
SamplesCome == []<>Unmoved \/ []<><<SampleLag>>_vars

(* The history has its last k samples, or all it keeps if those are fewer, *)
(* from the load.                                                          *)
Trail(l, k) ==
    /\ Len(history) >= k \/ Len(history) = HistorySize
    /\ \A i \in 1..Len(history) : i > Len(history) - k => history[i] = l.lag

(* A sample that changes nothing goes into a full history of its own kind: *)
(* were a full history to take no further samples, this would be false.    *)
LEMMA UnmovedIsSteady ==
    ASSUME TypeOK, Unmoved
    PROVE  Steady(load)
<1>. DEFINE n == HistorySize
            lag == load.lag
<1>0. /\ n \in Nat \ {0} /\ lag \in Nat
      /\ history \in Seq(Nat) /\ Len(history) <= n
  BY LoadAssumption DEF LoadsAreMeasured, TypeOK
<1>1. Len(history) = n /\ Recorded(history, lag) = Append(Tail(history), lag)
  <2>1. CASE Len(history) < n
    <3>1. Recorded(history, lag) = Append(history, lag)
      BY <2>1 DEF Recorded
    <3>2. Len(Append(history, lag)) = Len(history) + 1
      BY <1>0
    <3>. QED  BY <1>0, <3>1, <3>2 DEF Unmoved
  <2>2. CASE ~ (Len(history) < n)
    BY <1>0, <2>2 DEF Recorded
  <2>. QED  BY <2>1, <2>2
<1>2. /\ Append(Tail(history), lag)[n] = lag
      /\ \A i \in 1..(n - 1) : Append(Tail(history), lag)[i] = history[i + 1]
  BY <1>0, <1>1
<1>3. /\ history[n] = lag
      /\ \A i \in 1..(n - 1) : history[i] = history[i + 1]
  BY <1>1, <1>2 DEF Unmoved
<1>. HIDE DEF n, lag
<1>. DEFINE G == {k \in Nat : k < n => history[n - k] = lag}
<1>4. 0 \in G
  BY <1>0, <1>3
<1>5. ASSUME NEW k \in Nat, k \in G
      PROVE  k + 1 \in G
  <2>. SUFFICES ASSUME k + 1 < n
                PROVE  history[n - (k + 1)] = lag
    OBVIOUS
  <2>1. n - (k + 1) \in 1..(n - 1) /\ (n - (k + 1)) + 1 = n - k
    BY <1>0
  <2>2. history[n - k] = lag
    BY <1>0, <1>5
  <2>. QED  BY <1>3, <2>1, <2>2
<1>. HIDE DEF G
<1>6. Nat \subseteq G
  BY <1>4, <1>5, NaturalsByInduction
<1>7. ASSUME NEW i \in 1..n
      PROVE  history[i] = lag
  <2>1. n - i \in Nat /\ n - i < n /\ n - (n - i) = i
    BY <1>0
  <2>2. n - i \in G
    BY <1>6, <2>1
  <2>3. history[n - (n - i)] = lag
    BY <2>1, <2>2 DEF G
  <2>. QED  BY <2>1, <2>3
<1>. QED  BY <1>0, <1>1, <1>7 DEF Steady, n, lag

(* A sample makes the trail longer by one.                                 *)
LEMMA SampleTrails ==
    ASSUME NEW l \in Load, NEW k \in Nat, TypeOK, load = l, Trail(l, k), SampleLag
    PROVE  Trail(l, k + 1)'
<1>. DEFINE n == HistorySize
            h == history
            lag == l.lag
<1>0. /\ n \in Nat \ {0} /\ lag \in Nat
      /\ h \in Seq(Nat) /\ Len(h) <= n
      /\ Len(h) >= k \/ Len(h) = n
      /\ \A i \in 1..Len(h) : i > Len(h) - k => h[i] = lag
  BY LoadAssumption DEF LoadsAreMeasured, TypeOK, Trail
<1>1. history' = Recorded(h, lag)
  BY DEF SampleLag
<1>2. CASE Len(h) < n
  <2>1. history' = Append(h, lag)
    BY <1>1, <1>2 DEF Recorded
  <2>. HIDE DEF h, n, lag
  <2>2. /\ Len(history') = Len(h) + 1
        /\ history'[Len(h) + 1] = lag
        /\ \A i \in 1..Len(h) : history'[i] = h[i]
    BY <1>0, <2>1
  <2>3. Len(history') >= k + 1
    BY <1>0, <1>2, <2>2
  <2>4. ASSUME NEW i \in 1..Len(history'), i > Len(history') - (k + 1)
        PROVE  history'[i] = lag
    <3>1. CASE i = Len(h) + 1
      BY <2>2, <3>1
    <3>2. CASE i # Len(h) + 1
      <4>1. i \in 1..Len(h) /\ i > Len(h) - k
        BY <1>0, <2>2, <2>4, <3>2
      <4>. QED  BY <1>0, <2>2, <4>1
    <3>. QED  BY <3>1, <3>2
  <2>. QED  BY <2>3, <2>4 DEF Trail, lag
<1>3. CASE ~ (Len(h) < n)
  <2>1. Len(h) = n /\ history' = Append(Tail(h), lag)
    BY <1>0, <1>1, <1>3 DEF Recorded
  <2>. HIDE DEF h, n, lag
  <2>2. /\ Len(history') = n
        /\ history'[n] = lag
        /\ \A i \in 1..(n - 1) : history'[i] = h[i + 1]
    BY <1>0, <2>1
  <2>3. ASSUME NEW i \in 1..Len(history'), i > Len(history') - (k + 1)
        PROVE  history'[i] = lag
    <3>1. CASE i = n
      BY <2>2, <3>1
    <3>2. CASE i # n
      <4>1. i \in 1..(n - 1) /\ i + 1 \in 1..Len(h) /\ i + 1 > Len(h) - k
        BY <1>0, <2>1, <2>2, <2>3, <3>2
      <4>. QED  BY <1>0, <2>2, <4>1
    <3>. QED  BY <3>1, <3>2
  <2>. QED  BY <2>2, <2>3 DEF Trail, lag, n
<1>. QED  BY <1>2, <1>3

(* No step of the monitor makes it shorter while the load lasts.           *)
LEMMA TrailStays ==
    ASSUME NEW l \in Load, NEW k \in Nat, TypeOK, load = l, Trail(l, k), [Next]_vars
    PROVE  Trail(l, k)'
<1>1. CASE SampleLag
  <2>0. /\ TypeOK' /\ HistorySize \in Nat
        /\ Trail(l, k + 1)'
    BY <1>1, SampleTrails, NextType, LoadAssumption DEF LoadsAreMeasured
  <2>1. Len(history') \in Nat
    BY <2>0 DEF TypeOK
  <2>. QED  BY <2>0, <2>1 DEF Trail
<1>2. CASE UNCHANGED history
  BY <1>2 DEF Trail
<1>. QED  BY <1>1, <1>2
          DEF Next, LoadChanges, ReportRequest, CalculatePressure, vars

(* A load that lasts comes to fill the history, whose size is at most the  *)
(* 20 of the code: samples that keep coming make the trail longer, by as   *)
(* many as the history keeps, and samples that change nothing any more     *)
(* have filled it already.                                                 *)
LEMMA HistoryRenews ==
    ASSUME HistorySize \in 1..20, NEW l \in Load
    PROVE  Spec /\ SamplesCome /\ <>[](load = l) => <>[]Steady(l)
<1>. DEFINE Lasts   == load = l
            Sampled == Spec /\ []<><<SampleLag>>_vars /\ <>[]Lasts
            Leads(k, m) ==
                /\ TypeOK /\ Lasts /\ Trail(l, k) /\ <<SampleLag>>_vars
                       => Trail(l, m)'
                /\ TypeOK /\ Lasts /\ Trail(l, m) /\ [Next]_vars
                       => Trail(l, m)'
<1>0. ASSUME NEW k \in Nat, NEW m \in Nat, m = k + 1
      PROVE  Leads(k, m)
  BY <1>0, SampleTrails, TrailStays
<1>1. TypeOK => Trail(l, 0)
  <2>. SUFFICES ASSUME TypeOK
                PROVE  Trail(l, 0)
    OBVIOUS
  <2>1. Len(history) \in Nat
    BY DEF TypeOK
  <2>. QED  BY <2>1 DEF Trail
<1>2. Sampled => (<>[]Trail(l, 0) => <>[]Trail(l, 5))
  <2>1. /\ Leads(0, 1) /\ Leads(1, 2) /\ Leads(2, 3)
        /\ Leads(3, 4) /\ Leads(4, 5)
    <3>. HIDE DEF Leads
    <3>. QED  BY <1>0
  <2>. HIDE DEF Lasts
  <2>. QED  BY <2>1, TypeCorrect, PTL DEF Spec
<1>3. Sampled => (<>[]Trail(l, 5) => <>[]Trail(l, 10))
  <2>1. /\ Leads(5, 6) /\ Leads(6, 7) /\ Leads(7, 8)
        /\ Leads(8, 9) /\ Leads(9, 10)
    <3>. HIDE DEF Leads
    <3>. QED  BY <1>0
  <2>. HIDE DEF Lasts
  <2>. QED  BY <2>1, TypeCorrect, PTL DEF Spec
<1>4. Sampled => (<>[]Trail(l, 10) => <>[]Trail(l, 15))
  <2>1. /\ Leads(10, 11) /\ Leads(11, 12) /\ Leads(12, 13)
        /\ Leads(13, 14) /\ Leads(14, 15)
    <3>. HIDE DEF Leads
    <3>. QED  BY <1>0
  <2>. HIDE DEF Lasts
  <2>. QED  BY <2>1, TypeCorrect, PTL DEF Spec
<1>5. Sampled => (<>[]Trail(l, 15) => <>[]Trail(l, 20))
  <2>1. /\ Leads(15, 16) /\ Leads(16, 17) /\ Leads(17, 18)
        /\ Leads(18, 19) /\ Leads(19, 20)
    <3>. HIDE DEF Leads
    <3>. QED  BY <1>0
  <2>. HIDE DEF Lasts
  <2>. QED  BY <2>1, TypeCorrect, PTL DEF Spec
<1>6. TypeOK /\ Trail(l, 20) => Steady(l)
  <2>. SUFFICES ASSUME TypeOK, Trail(l, 20)
                PROVE  Steady(l)
    OBVIOUS
  <2>1. /\ history \in Seq(Nat) /\ Len(history) \in Nat
        /\ Len(history) <= HistorySize /\ HistorySize \in 1..20
    BY DEF TypeOK
  <2>2. Len(history) = HistorySize
    BY <2>1 DEF Trail
  <2>3. \A i \in 1..Len(history) : history[i] = l.lag
    BY <2>1, <2>2 DEF Trail
  <2>. QED  BY <2>1, <2>2, <2>3 DEF Steady
<1>7. TypeOK /\ Lasts /\ Unmoved => Steady(l)
  BY UnmovedIsSteady
<1>8. Steady(l) /\ Lasts /\ [Next]_vars => Steady(l)'
  BY SteadyStays
<1>. HIDE DEF Lasts, Leads
<1>9. Spec /\ SamplesCome /\ <>[]Lasts => <>[]Steady(l)
  BY <1>1, <1>2, <1>3, <1>4, <1>5, <1>6, <1>7, <1>8, TypeCorrect, PTL
     DEF Spec, SamplesCome
<1>. QED  BY <1>9 DEF Lasts

(* Once requests have stopped and the load lasts, the pressure comes to be *)
(* what the load is worth and remains so, if only both timers keep firing: *)
(* the samples of earlier loads leave the history, and up to two           *)
(* calculations follow, for the requests counted before must be gone too.  *)
THEOREM PressureFollows ==
    ASSUME HistorySize \in 1..20
    PROVE  Spec /\ CalculationsCome /\ SamplesCome => PressureFollowsLoad
<1>1. ASSUME NEW l \in Load
      PROVE  Spec /\ CalculationsCome /\ SamplesCome =>
                 (<>[](load = l /\ ~ l.busy) =>
                      <>[](currentPressure = Score(l.memory, LagScore(<<l.lag>>), 0)))
  <2>. DEFINE Lasts   == load = l
              Idle    == ~ l.busy
              Calm    == load = l /\ ~ l.busy
              Counted == ~ (requestCounts = 0)
              Worth   == currentPressure = Score(l.memory, LagScore(<<l.lag>>), 0)
  <2>1. Calm <=> Lasts /\ Idle
    OBVIOUS
  <2>2. Calm /\ ~ Counted /\ [Next]_vars => ~ Counted'
    BY NoneCounted
  <2>3. <<CalculatePressure>>_vars => ~ Counted'
    BY DEF CalculatePressure
  <2>4. Lasts /\ Steady(l) /\ ~ Counted /\ <<CalculatePressure>>_vars => Settled(l)'
    BY CalculationSettles
  <2>5. Lasts /\ Steady(l) /\ Calculated => Settled(l)
    <3>. SUFFICES ASSUME Lasts, Steady(l), Calculated
                  PROVE  Settled(l)
      OBVIOUS
    <3>1. /\ load = l /\ requestCounts = 0
          /\ currentPressure = Score(l.memory, LagScore(history), RpsLoad(0))
      BY DEF Calculated
    <3>. QED  BY <3>1, SteadyScore DEF Settled, AtWorth
  <2>6. Settled(l) => Worth
    BY DEF Settled, AtWorth
  <2>7. Idle => (Spec => [](Settled(l) /\ []Lasts => []Settled(l)))
    BY SettledStays
  <2>8. Spec /\ SamplesCome /\ <>[]Lasts => <>[]Steady(l)
    BY HistoryRenews
  <2>. HIDE DEF Lasts, Calm, Counted, Worth
  <2>9. Idle' <=> Idle
    OBVIOUS
  <2>. HIDE DEF Idle
  <2>10. Spec /\ CalculationsCome /\ SamplesCome => (<>[]Calm => <>[]Worth)
    BY <2>1, <2>2, <2>3, <2>4, <2>5, <2>6, <2>7, <2>8, <2>9, PTL
       DEF Spec, CalculationsCome
  <2>. QED  BY <2>10 DEF Calm, Worth
<1>. QED  BY <1>1 DEF PressureFollowsLoad
=============================================================================
